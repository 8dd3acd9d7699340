---------------------------- MODULE AdapterProofs ----------------------------
(***************************************************************************)
(* The two maps of the inode table stay each other's inverse, whatever     *)
(* requests run at the same time, whatever listings bring and for paths of *)
(* any depth; and what the tree, the table, the kernel and the threads     *)
(* hold has its type.                                                      *)
(*                                                                         *)
(* Paths first (path.rs), of any depth: what is within what, and moving a  *)
(* path with the folder it is in.                                          *)
(*                                                                         *)
(* Then the table, call by call (`sound' is typed and bijective): a new    *)
(* number is larger than all before it; a removal takes a path and its     *)
(* number out of both maps; and a rename makes room at its target before   *)
(* it moves paths there, so that it moves no two to one place.  Then the   *)
(* handlers, which give the table nothing but paths.                       *)
(*                                                                         *)
(* The second half is the promise to the kernel (Numbers): what the locks  *)
(* of the kernel achieve (KInv), step by step, and with it that every step *)
(* leaves each number with its file (Keeps).                               *)
(***************************************************************************)
EXTENDS Adapter, SequenceTheorems, TLAPS
-----------------------------------------------------------------------------
\* Rebasing takes a path within old to one within new, and back again, for
\* any paths: path.rs promises as much of IcPath::rebase.
THEOREM RebaseRoundTrip ==
    ASSUME NEW p \in Path, NEW old \in Path, NEW new \in Path, IsWithin(p, old)
    PROVE  /\ Rebase(p, old, new) \in Path
           /\ IsWithin(Rebase(p, old, new), new)
           /\ Rebase(Rebase(p, old, new), new, old) = p
<1> DEFINE rest == SubSeq(p, Len(old) + 1, Len(p))
<1>1. /\ Len(old) \in Nat /\ Len(new) \in Nat /\ Len(p) \in Nat
      /\ Len(old) <= Len(p) /\ SubSeq(p, 1, Len(old)) = old
  BY LenProperties DEF IsWithin, Path
<1>2. rest \in Seq(Name) /\ Len(rest) = Len(p) - Len(old)
  <2>1. \A i \in Len(old) + 1 .. Len(p) : p[i] \in Name
    BY <1>1, ElementOfSeq DEF Path
  <2> QED
    BY <1>1, <2>1, SubSeqProperties DEF Path
<1> DEFINE moved == new \o rest
<1>3. moved \in Path /\ Len(moved) = Len(new) + Len(rest)
  BY <1>2, ConcatProperties DEF Path
<1>4. SubSeq(moved, 1, Len(new)) = new
  <2>1. CASE Len(new) = 0
    <3>1. new = <<>>
      BY <2>1, EmptySeq DEF Path
    <3> QED
      BY <2>1, <3>1, SubSeqEmpty
  <2>2. CASE Len(new) > 0
    <3>1. SubSeq(moved, 1, Len(new)) = SubSeq(new, 1, Len(new))
      BY <1>1, <1>2, <2>2, SubSeqOfConcat1 DEF Path
    <3> QED
      BY <3>1, SubSeqFull DEF Path
  <2> QED
    BY <1>1, <2>1, <2>2
<1>5. SubSeq(moved, Len(new) + 1, Len(moved)) = rest
  <2>1. CASE Len(rest) = 0
    <3>1. rest = <<>>
      BY <1>2, <2>1, EmptySeq
    <3> QED
      BY <1>1, <1>3, <2>1, <3>1, SubSeqEmpty
  <2>2. CASE Len(rest) > 0
    <3>1. SubSeq(moved, Len(new) + 1, Len(new) + Len(rest))
            = SubSeq(rest, (Len(new) + 1) - Len(new), (Len(new) + Len(rest)) - Len(new))
      <4> HIDE DEF rest, moved
      <4>1. moved = new \o rest
        BY DEF moved
      <4>2. /\ Len(new) + 1 \in Len(new) + 1 .. Len(new) + Len(rest)
            /\ Len(new) + Len(rest) \in Len(new) + 1 .. Len(new) + Len(rest)
        BY <1>1, <1>2, <2>2
      <4> QED
        BY <1>2, <4>1, <4>2, SubSeqOfConcat2 DEF Path
    <3>2. SubSeq(rest, 1, Len(rest)) = rest
      BY <1>2, SubSeqFull
    <3> QED
      BY <1>1, <1>2, <1>3, <3>1, <3>2
  <2> QED
    BY <1>1, <1>2, <2>1, <2>2
<1>6. old \o rest = p
  <2>1. SubSeq(p, 1, Len(old)) \o SubSeq(p, Len(old) + 1, Len(p)) = SubSeq(p, 1, Len(p))
    <3>1. /\ 1 \in 1 .. Len(p) + 1
          /\ Len(old) \in 1 - 1 .. Len(p)
          /\ Len(p) \in Len(old) .. Len(p)
      BY <1>1
    <3>2. p \in Seq(Name)
      BY DEF Path
    <3> QED
      BY ONLY <3>1, <3>2, ConcatAdjacentSubSeq, Zenon
  <2> QED
    BY <1>1, <2>1, SubSeqFull DEF Path
<1> QED
  <2>1. Rebase(p, old, new) = moved
    BY DEF Rebase
  <2>2. Rebase(moved, new, old) = old \o SubSeq(moved, Len(new) + 1, Len(moved))
    BY DEF Rebase
  <2> HIDE DEF moved, rest
  <2>3. IsWithin(moved, new)
    BY <1>1, <1>2, <1>3, <1>4 DEF IsWithin
  <2> QED
    BY <1>3, <1>5, <1>6, <2>1, <2>2, <2>3, Zenon

LEMMA RootPath == Root \in Path
BY EmptySeq DEF Root, Path

LEMMA JoinPath == ASSUME NEW p \in Path, NEW n \in Name PROVE Join(p, n) \in Path
BY AppendProperties DEF Join, Path

LEMMA ParentPath == ASSUME NEW p \in Path PROVE Parent(p) \in Path
<1>1. CASE p = Root
  BY <1>1, RootPath DEF Parent
<1>2. CASE p # Root
  <2>1. p \in Seq(Name) /\ Len(p) \in Nat /\ Len(p) # 0
    BY <1>2, EmptySeq, LenProperties DEF Path, Root
  <2>2. \A i \in 1 .. Len(p) - 1 : p[i] \in Name
    BY <2>1, ElementOfSeq
  <2>3. SubSeq(p, 1, Len(p) - 1) \in Seq(Name)
    BY <2>1, <2>2, SubSeqProperties
  <2> QED
    BY <1>2, <2>3 DEF Parent, Path
<1> QED
  BY <1>1, <1>2

\* What it is to be within a path, component by component.
LEMMA WithinMeans ==
    ASSUME NEW p \in Path, NEW a \in Path
    PROVE  IsWithin(p, a) <=> Len(a) <= Len(p) /\ \A i \in 1 .. Len(a) : p[i] = a[i]
<1>1. p \in Seq(Name) /\ a \in Seq(Name) /\ Len(p) \in Nat /\ Len(a) \in Nat
  BY LenProperties DEF Path
<1>2. ASSUME Len(a) <= Len(p)
      PROVE  /\ SubSeq(p, 1, Len(a)) \in Seq(Name) /\ Len(SubSeq(p, 1, Len(a))) = Len(a)
             /\ \A i \in 1 .. Len(a) : SubSeq(p, 1, Len(a))[i] = p[i]
  <2>1. \A i \in 1 .. Len(a) : p[i] \in Name
    BY <1>1, <1>2, ElementOfSeq
  <2> QED
    BY <1>1, <2>1, SubSeqProperties
<1> QED
  BY <1>1, <1>2, SeqEqual DEF IsWithin

LEMMA ParentMeans ==
    ASSUME NEW p \in Path, p # Root
    PROVE  /\ Parent(p) \in Path /\ Len(p) \in Nat \ {0} /\ Len(Parent(p)) = Len(p) - 1
           /\ \A i \in 1 .. Len(p) - 1 : Parent(p)[i] = p[i]
<1>1. p \in Seq(Name) /\ Len(p) \in Nat /\ Len(p) # 0
  BY EmptySeq, LenProperties DEF Path, Root
<1>2. \A i \in 1 .. Len(p) - 1 : p[i] \in Name
  BY <1>1, ElementOfSeq
<1> DEFINE k == Len(p) - 1
<1>3. /\ SubSeq(p, 1, Len(p) - 1) \in Seq(Name) /\ Len(SubSeq(p, 1, Len(p) - 1)) = Len(p) - 1
      /\ \A i \in 1 .. Len(p) - 1 : SubSeq(p, 1, Len(p) - 1)[i] = p[i]
  <2>1. k \in Int /\ 1 \in Int /\ \A i \in 1 .. k : p[i] \in Name
    BY <1>1, <1>2
  <2> HIDE DEF k
  <2>2. /\ SubSeq(p, 1, k) \in Seq(Name) /\ Len(SubSeq(p, 1, k)) = IF 1 <= k THEN k - 1 + 1 ELSE 0
        /\ \A i \in 1 .. k - 1 + 1 : SubSeq(p, 1, k)[i] = p[1 + i - 1]
    BY <2>1, SubSeqProperties
  <2>3. k \in Nat
    BY <1>1 DEF k
  <2>4. \A i \in 1 .. k : i \in 1 .. k - 1 + 1 /\ 1 + i - 1 = i
    BY <2>3
  <2>5. /\ SubSeq(p, 1, k) \in Seq(Name) /\ Len(SubSeq(p, 1, k)) = k
        /\ \A i \in 1 .. k : SubSeq(p, 1, k)[i] = p[i]
    BY <2>2, <2>3, <2>4
  <2> QED
    BY <2>5 DEF k
<1> QED
  BY <1>1, <1>3 DEF Parent, Path

\* Being within is a partial order, and what two paths have below both of them
\* makes one of them be within the other.
LEMMA WithinOrder ==
    ASSUME NEW p \in Path, NEW a \in Path, NEW b \in Path
    PROVE  /\ IsWithin(p, p)
           /\ IsWithin(p, a) /\ IsWithin(a, p) => p = a
           /\ IsWithin(p, a) /\ IsWithin(a, b) => IsWithin(p, b)
           /\ IsWithin(p, a) /\ IsWithin(p, b) => IsWithin(a, b) \/ IsWithin(b, a)
<1>1. /\ p \in Seq(Name) /\ a \in Seq(Name) /\ b \in Seq(Name)
      /\ Len(p) \in Nat /\ Len(a) \in Nat /\ Len(b) \in Nat
  BY LenProperties DEF Path
<1>2. IsWithin(p, a) /\ IsWithin(a, p) => p = a
  BY <1>1, WithinMeans, SeqEqual
<1> QED
  BY <1>1, <1>2, WithinMeans

\* A folder and what is in it.
LEMMA ParentWithin ==
    ASSUME NEW p \in Path, NEW a \in Path, p # Root
    PROVE  /\ IsWithin(p, Parent(p)) /\ ~IsWithin(Parent(p), p) /\ Parent(p) # p
           /\ IsWithin(p, a) <=> p = a \/ IsWithin(Parent(p), a)
<1>1. /\ p \in Seq(Name) /\ a \in Seq(Name) /\ Len(p) \in Nat /\ Len(a) \in Nat
  BY LenProperties DEF Path
<1>2. IsWithin(p, Parent(p)) /\ ~IsWithin(Parent(p), p) /\ Parent(p) # p
  BY <1>1, ParentMeans, WithinMeans
<1>3. IsWithin(Parent(p), a) => IsWithin(p, a)
  BY <1>1, ParentMeans, WithinMeans
<1>4. ASSUME IsWithin(p, a), p # a  PROVE IsWithin(Parent(p), a)
  <2>1. Len(a) <= Len(p) /\ \A i \in 1 .. Len(a) : p[i] = a[i]
    BY <1>4, WithinMeans
  <2>2. Len(a) # Len(p)
    BY <1>1, <1>4, <2>1, SeqEqual
  <2> QED
    BY <1>1, <2>1, <2>2, ParentMeans, WithinMeans
<1> QED
  BY <1>2, <1>3, <1>4, WithinOrder

\* Two paths in one folder are not within each other.
LEMMA Siblings ==
    ASSUME NEW p \in Path, NEW q \in Path, p # Root, q # Root, Parent(p) = Parent(q), IsWithin(p, q)
    PROVE  p = q
BY ParentWithin

LEMMA JoinMeans ==
    ASSUME NEW p \in Path, NEW n \in Name
    PROVE  Join(p, n) \in Path /\ Join(p, n) # Root /\ Parent(Join(p, n)) = p
<1>1. /\ p \in Seq(Name) /\ Len(p) \in Nat /\ Join(p, n) \in Seq(Name) /\ Len(Join(p, n)) = Len(p) + 1
      /\ \A i \in 1 .. Len(p) : Join(p, n)[i] = p[i]
  BY LenProperties, AppendProperties DEF Path, Join
<1>2. Join(p, n) \in Path /\ Join(p, n) # Root
  BY <1>1, EmptySeq DEF Path, Root
<1>3. /\ Parent(Join(p, n)) \in Seq(Name) /\ Len(Parent(Join(p, n))) = Len(p)
      /\ \A i \in 1 .. Len(p) : Parent(Join(p, n))[i] = p[i]
  BY <1>1, <1>2, ParentMeans DEF Path
<1> QED
  BY <1>1, <1>2, <1>3, SeqEqual

\* Where a rebased path lies, component by component.
LEMMA RebaseMeans ==
    ASSUME NEW p \in Path, NEW old \in Path, NEW new \in Path, IsWithin(p, old)
    PROVE  /\ Rebase(p, old, new) \in Path /\ Len(Rebase(p, old, new)) = Len(new) + Len(p) - Len(old)
           /\ \A i \in 1 .. Len(new) + Len(p) - Len(old) :
                 Rebase(p, old, new)[i] = IF i <= Len(new) THEN new[i] ELSE p[i - Len(new) + Len(old)]
<1>1. /\ p \in Seq(Name) /\ new \in Seq(Name)
      /\ Len(p) \in Nat /\ Len(old) \in Nat /\ Len(new) \in Nat /\ Len(old) <= Len(p)
  BY LenProperties DEF Path, IsWithin
<1> DEFINE rest == SubSeq(p, Len(old) + 1, Len(p))
<1>2. \A i \in Len(old) + 1 .. Len(p) : p[i] \in Name
  BY <1>1, ElementOfSeq
<1>3. /\ rest \in Seq(Name) /\ Len(rest) = IF Len(old) + 1 <= Len(p) THEN Len(p) - (Len(old) + 1) + 1 ELSE 0
      /\ \A i \in 1 .. Len(p) - (Len(old) + 1) + 1 : rest[i] = p[(Len(old) + 1) + i - 1]
  BY <1>1, <1>2, SubSeqProperties
<1> HIDE DEF rest
<1>4. Len(rest) = Len(p) - Len(old) /\ \A i \in 1 .. Len(rest) : rest[i] = p[Len(old) + i]
  BY <1>1, <1>3
<1>5. /\ new \o rest \in Seq(Name) /\ Len(new \o rest) = Len(new) + Len(rest)
      /\ \A i \in 1 .. Len(new) + Len(rest) : (new \o rest)[i] =
                     IF i <= Len(new) THEN new[i] ELSE rest[i - Len(new)]
  BY <1>1, <1>3, ConcatProperties, Zenon
<1>6. Rebase(p, old, new) = new \o rest
  BY DEF Rebase, rest
<1>7. ASSUME NEW i \in 1 .. Len(new) + Len(p) - Len(old)
      PROVE  (new \o rest)[i] = IF i <= Len(new) THEN new[i] ELSE p[i - Len(new) + Len(old)]
  <2>1. i \in 1 .. Len(new) + Len(rest)
    BY <1>1, <1>4
  <2>2. CASE i <= Len(new)
    BY <1>5, <2>1, <2>2
  <2>3. CASE ~(i <= Len(new))
    <3>1. i - Len(new) \in 1 .. Len(rest) /\ Len(old) + (i - Len(new)) = i - Len(new) + Len(old)
      BY <1>1, <1>4, <2>1, <2>3
    <3>2. (new \o rest)[i] = rest[i - Len(new)]
      BY <1>5, <2>1, <2>3
    <3>3. rest[i - Len(new)] = p[Len(old) + (i - Len(new))]
      BY <1>4, <3>1, Zenon
    <3> QED
      BY <2>3, <3>1, <3>2, <3>3
  <2> QED
    BY <2>2, <2>3, Zenon
<1> QED
  BY <1>1, <1>4, <1>5, <1>6, <1>7 DEF Path

\* Rebasing keeps what is in what; the path that is moved comes to the new place,
\* and two paths never come to one.
LEMMA RebaseTree ==
    ASSUME NEW p \in Path, NEW old \in Path, NEW new \in Path, IsWithin(p, old)
    PROVE  /\ Rebase(old, old, new) = new
           /\ p # old => /\ p # Root /\ IsWithin(Parent(p), old) /\ Rebase(p, old, new) # Root
                         /\ Parent(Rebase(p, old, new)) = Rebase(Parent(p), old, new)
           /\ \A q \in Path : IsWithin(q, old) /\ Rebase(p, old, new) = Rebase(q, old, new) => p = q
           /\ Rebase(p, old, new) = new => p = old
<1>1. /\ p \in Seq(Name) /\ new \in Seq(Name) /\ old \in Seq(Name)
      /\ Len(p) \in Nat /\ Len(old) \in Nat /\ Len(new) \in Nat /\ Len(old) <= Len(p)
  BY LenProperties DEF Path, IsWithin
<1>2. IsWithin(old, old)
  BY WithinOrder
<1>3. Rebase(old, old, new) = new
  <2> DEFINE x == Rebase(old, old, new)
  <2>1. /\ x \in Path /\ Len(x) = Len(new) + Len(old) - Len(old)
        /\ \A i \in 1 .. Len(new) + Len(old) - Len(old) :
                 x[i] = IF i <= Len(new) THEN new[i] ELSE old[i - Len(new) + Len(old)]
    BY <1>2, RebaseMeans, Zenon
  <2> HIDE DEF x
  <2>2. Len(x) = Len(new) /\ \A i \in 1 .. Len(new) : i \in 1 .. Len(new) + Len(old) - Len(old) /\ i <= Len(new)
    BY <1>1, <2>1
  <2>3. \A i \in 1 .. Len(x) : x[i] = new[i]
    BY <2>1, <2>2
  <2>4. x = new
    BY <1>1, <2>1, <2>2, <2>3, SeqEqual DEF Path
  <2> QED
    BY <2>4 DEF x
<1>4. \A q \in Path : IsWithin(q, old) /\ Rebase(p, old, new) = Rebase(q, old, new) => p = q
  BY RebaseRoundTrip
<1>5. ASSUME p # old
      PROVE  /\ p # Root /\ IsWithin(Parent(p), old) /\ Rebase(p, old, new) # Root
             /\ Parent(Rebase(p, old, new)) = Rebase(Parent(p), old, new)
  <2>1. Len(p) > Len(old)
    BY <1>1, <1>5, WithinMeans, SeqEqual
  <2>2. p # Root /\ Len(p) # 0
    BY <1>1, <2>1, EmptySeq DEF Root
  <2>3. IsWithin(Parent(p), old) /\ Parent(p) \in Path
    BY <1>5, <2>2, ParentWithin, ParentPath
  <2> DEFINE x == Rebase(p, old, new)
             y == Rebase(Parent(p), old, new)
  <2>4. /\ x \in Path /\ Len(x) = Len(new) + Len(p) - Len(old)
        /\ \A i \in 1 .. Len(new) + Len(p) - Len(old) :
                 x[i] = IF i <= Len(new) THEN new[i] ELSE p[i - Len(new) + Len(old)]
    BY RebaseMeans
  <2>5. /\ Len(Parent(p)) = Len(p) - 1 /\ \A i \in 1 .. Len(p) - 1 : Parent(p)[i] = p[i]
    BY <2>2, ParentMeans
  <2>6. /\ y \in Path /\ Len(y) = Len(new) + Len(Parent(p)) - Len(old)
        /\ \A i \in 1 .. Len(new) + Len(Parent(p)) - Len(old) :
                 y[i] = IF i <= Len(new) THEN new[i] ELSE Parent(p)[i - Len(new) + Len(old)]
    BY <2>3, RebaseMeans
  <2> HIDE DEF x, y
  <2>7. x # Root
    BY <1>1, <2>1, <2>4, EmptySeq DEF Root, Path
  <2>8. /\ Parent(x) \in Path /\ Len(Parent(x)) = Len(x) - 1
        /\ \A i \in 1 .. Len(x) - 1 : Parent(x)[i] = x[i]
    BY <2>4, <2>7, ParentMeans, Zenon
  <2>9. Len(Parent(x)) = Len(y)
    BY <1>1, <2>4, <2>5, <2>6, <2>8
  <2>10. ASSUME NEW i \in 1 .. Len(y)  PROVE Parent(x)[i] = y[i]
    <3>1. i \in 1 .. Len(x) - 1 /\ i \in 1 .. Len(new) + Len(p) - Len(old)
          /\ i \in 1 .. Len(new) + Len(Parent(p)) - Len(old)
      BY <1>1, <2>1, <2>4, <2>5, <2>6, <2>8, <2>9
    <3>2. CASE i <= Len(new)
      BY <2>4, <2>6, <2>8, <3>1, <3>2
    <3>3. CASE i > Len(new)
      <4>1. i - Len(new) + Len(old) \in 1 .. Len(p) - 1
        BY <1>1, <2>5, <3>1, <3>3
      <4> QED
        BY <2>4, <2>5, <2>6, <2>8, <3>1, <3>3, <4>1, Zenon
    <3> QED
      BY <1>1, <3>1, <3>2, <3>3
  <2>11. Parent(x) = y
    BY <2>6, <2>8, <2>9, <2>10, SeqEqual, Zenon DEF Path
  <2> QED
    BY <2>2, <2>3, <2>7, <2>11 DEF x, y
<1>6. Rebase(p, old, new) = new => p = old
  BY <1>2, <1>3, <1>4
<1> QED
  BY <1>3, <1>4, <1>5, <1>6

\* What is in what stays so when both are moved.
LEMMA RebaseWithin ==
    ASSUME NEW p \in Path, NEW q \in Path, NEW old \in Path, NEW new \in Path,
           IsWithin(p, old), IsWithin(q, old)
    PROVE  IsWithin(Rebase(q, old, new), Rebase(p, old, new)) <=> IsWithin(q, p)
<1> DEFINE x == Rebase(p, old, new)
           y == Rebase(q, old, new)
<1>1. /\ Len(p) \in Nat /\ Len(q) \in Nat /\ Len(old) \in Nat /\ Len(new) \in Nat
      /\ Len(old) <= Len(p) /\ Len(old) <= Len(q)
      /\ \A i \in 1 .. Len(old) : p[i] = old[i] /\ q[i] = old[i]
  BY LenProperties, WithinMeans DEF Path
<1>2. /\ x \in Path /\ Len(x) = Len(new) + Len(p) - Len(old)
      /\ \A i \in 1 .. Len(new) + Len(p) - Len(old) :
            x[i] = IF i <= Len(new) THEN new[i] ELSE p[i - Len(new) + Len(old)]
  BY RebaseMeans
<1>3. /\ y \in Path /\ Len(y) = Len(new) + Len(q) - Len(old)
      /\ \A i \in 1 .. Len(new) + Len(q) - Len(old) :
            y[i] = IF i <= Len(new) THEN new[i] ELSE q[i - Len(new) + Len(old)]
  BY RebaseMeans
<1> HIDE DEF x, y
<1>4. Len(p) <= Len(q) <=> Len(x) <= Len(y)
  BY <1>1, <1>2, <1>3
<1>5. ASSUME Len(p) <= Len(q), \A i \in 1 .. Len(p) : q[i] = p[i]
      PROVE  \A i \in 1 .. Len(x) : y[i] = x[i]
  <2> SUFFICES ASSUME NEW i \in 1 .. Len(x)  PROVE y[i] = x[i]
    OBVIOUS
  <2>1. i \in 1 .. Len(new) + Len(p) - Len(old) /\ i \in 1 .. Len(new) + Len(q) - Len(old)
    BY <1>1, <1>2, <1>5
  <2>2. CASE i <= Len(new)
    BY <1>2, <1>3, <2>1, <2>2
  <2>3. CASE ~(i <= Len(new))
    <3>1. i - Len(new) + Len(old) \in 1 .. Len(p)
      BY <1>1, <2>1, <2>3
    <3> QED
      BY <1>2, <1>3, <1>5, <2>1, <2>3, <3>1
  <2> QED
    BY <2>2, <2>3
<1>6. ASSUME Len(p) <= Len(q), \A i \in 1 .. Len(x) : y[i] = x[i]
      PROVE  \A i \in 1 .. Len(p) : q[i] = p[i]
  <2> SUFFICES ASSUME NEW i \in 1 .. Len(p)  PROVE q[i] = p[i]
    OBVIOUS
  <2>1. CASE i <= Len(old)
    BY <1>1, <2>1
  <2>2. CASE ~(i <= Len(old))
    <3> DEFINE j == i - Len(old) + Len(new)
    <3>1. j \in 1 .. Len(x) /\ ~(j <= Len(new)) /\ j - Len(new) + Len(old) = i
          /\ j \in 1 .. Len(new) + Len(p) - Len(old) /\ j \in 1 .. Len(new) + Len(q) - Len(old)
      BY <1>1, <1>2, <1>6, <2>2
    <3> HIDE DEF j
    <3>2. x[j] = p[i]
      BY <1>2, <3>1
    <3>3. y[j] = q[i]
      BY <1>3, <3>1, Zenon
    <3> QED
      BY <1>6, <3>1, <3>2, <3>3
  <2> QED
    BY <2>1, <2>2
<1>7. IsWithin(y, x) <=> Len(x) <= Len(y) /\ \A i \in 1 .. Len(x) : y[i] = x[i]
  BY <1>2, <1>3, WithinMeans
<1>8. IsWithin(q, p) <=> Len(p) <= Len(q) /\ \A i \in 1 .. Len(p) : q[i] = p[i]
  BY WithinMeans
<1> QED
  BY <1>4, <1>5, <1>6, <1>7, <1>8 DEF x, y
-----------------------------------------------------------------------------
Sound(t) == TableType(t) /\ Bijective(t)

\* What the table's functions are, without their record.
LEMMA SoundFacts ==
    ASSUME NEW t, Sound(t)
    PROVE  /\ t.byIno \in [DOMAIN t.byIno -> Path] /\ t.byPath \in [DOMAIN t.byPath -> Nat]
           /\ t.next \in Nat \ {0} /\ DOMAIN t.byPath \subseteq Path
           /\ \A n \in DOMAIN t.byIno : n \in 1 .. t.next - 1
           /\ \A p \in DOMAIN t.byPath : t.byPath[p] \in DOMAIN t.byIno /\ t.byIno[t.byPath[p]] = p
           /\ \A n \in DOMAIN t.byIno : t.byIno[n] \in DOMAIN t.byPath /\ t.byPath[t.byIno[n]] = n
BY DEF Sound, TableType, Bijective, Knows

LEMMA SoundTable ==
    ASSUME NEW ino, NEW pth, NEW next \in Nat \ {0},
           ino \in [DOMAIN ino -> Path], pth \in [DOMAIN pth -> Nat], DOMAIN pth \subseteq Path,
           \A n \in DOMAIN ino : n \in 1 .. next - 1,
           \A p \in DOMAIN pth : pth[p] \in DOMAIN ino /\ ino[pth[p]] = p,
           \A n \in DOMAIN ino : ino[n] \in DOMAIN pth /\ pth[ino[n]] = n
    PROVE  Sound([byIno |-> ino, byPath |-> pth, next |-> next])
BY DEF Sound, TableType, Bijective, Knows

\* ino_for: the next number is free.
LEMMA AssignedSound ==
    ASSUME NEW t, Sound(t), NEW p \in Path
    PROVE  Sound(Assigned(t, p)) /\ InoFor(t, p) \in Nat
<1> USE SoundFacts
<1>1. CASE p \in DOMAIN t.byPath
  BY <1>1 DEF Assigned, InoFor
<1>2. CASE p \notin DOMAIN t.byPath
  <2> DEFINE ino == Insert(t.byIno, t.next, p)
             pth == Insert(t.byPath, p, t.next)
  <2>1. t.next \notin DOMAIN t.byIno /\ t.next + 1 \in Nat \ {0} /\ t.next \in Nat \ {0}
    OBVIOUS
  <2>2. /\ DOMAIN ino = DOMAIN t.byIno \cup {t.next} /\ ino[t.next] = p
        /\ \A n \in DOMAIN t.byIno : ino[n] = t.byIno[n]
    BY <2>1 DEF Insert
  <2>3. /\ DOMAIN pth = DOMAIN t.byPath \cup {p} /\ pth[p] = t.next
        /\ \A q \in DOMAIN t.byPath : pth[q] = t.byPath[q]
    BY <1>2 DEF Insert
  <2>4. ino \in [DOMAIN ino -> Path] /\ pth \in [DOMAIN pth -> Nat]
    BY <2>1 DEF Insert
  <2>5. \A n \in DOMAIN ino : n \in 1 .. (t.next + 1) - 1
    BY <2>1, <2>2
  <2>6. \A q \in DOMAIN pth : pth[q] \in DOMAIN ino /\ ino[pth[q]] = q
    BY <2>2, <2>3
  <2>7. \A n \in DOMAIN ino : ino[n] \in DOMAIN pth /\ pth[ino[n]] = n
    BY <1>2, <2>1, <2>2, <2>3
  <2>8. DOMAIN pth \subseteq Path
    BY <2>3
  <2> HIDE DEF ino, pth
  <2>9. Sound([byIno |-> ino, byPath |-> pth, next |-> t.next + 1])
    BY <2>1, <2>4, <2>5, <2>6, <2>7, <2>8, SoundTable
  <2>10. /\ Assigned(t, p) = [byIno |-> ino, byPath |-> pth, next |-> t.next + 1]
         /\ InoFor(t, p) = t.next
    BY <1>2, <2>3 DEF Assigned, InoFor, ino, pth
  <2> QED
    BY <2>1, <2>9, <2>10
<1> QED
  BY <1>1, <1>2
\* remove_subtree: nothing within p has a number any more.
LEMMA RemoveSubtreeSound ==
    ASSUME NEW t, Sound(t), NEW p \in Path
    PROVE  /\ Sound(RemoveSubtree(t, p))
           /\ p # Root => \A q \in DOMAIN RemoveSubtree(t, p).byPath : ~IsWithin(q, p)
<1> USE SoundFacts
<1>1. CASE p = Root
  BY <1>1 DEF RemoveSubtree
<1>2. CASE p # Root
  <2> DEFINE doomed == {q \in DOMAIN t.byPath : IsWithin(q, p)}
             freed  == {t.byPath[q] : q \in doomed}
             ino    == Restrict(t.byIno, DOMAIN t.byIno \ freed)
             pth    == Restrict(t.byPath, DOMAIN t.byPath \ doomed)
  <2>1. /\ DOMAIN ino = DOMAIN t.byIno \ freed /\ DOMAIN pth = DOMAIN t.byPath \ doomed
        /\ \A n \in DOMAIN ino : ino[n] = t.byIno[n]
        /\ \A q \in DOMAIN pth : pth[q] = t.byPath[q]
    BY DEF Restrict
  <2>2. ino \in [DOMAIN ino -> Path] /\ pth \in [DOMAIN pth -> Nat]
    BY DEF Restrict
  <2>3. \A q \in DOMAIN t.byPath : t.byPath[q] \in freed <=> q \in doomed
    OBVIOUS
  <2>4. \A q \in DOMAIN pth : pth[q] \in DOMAIN ino /\ ino[pth[q]] = q
    BY <2>1, <2>3
  <2>5. \A n \in DOMAIN ino : ino[n] \in DOMAIN pth /\ pth[ino[n]] = n
    BY <2>1, <2>3
  <2>6. DOMAIN pth \subseteq Path /\ \A n \in DOMAIN ino : n \in 1 .. t.next - 1
    BY <2>1, Zenon
  <2>7. \A q \in DOMAIN pth : ~IsWithin(q, p)
    BY <2>1
  <2> HIDE DEF ino, pth
  <2>8. Sound([byIno |-> ino, byPath |-> pth, next |-> t.next])
    BY <2>2, <2>4, <2>5, <2>6, SoundTable
  <2>9. RemoveSubtree(t, p) = [byIno |-> ino, byPath |-> pth, next |-> t.next]
    BY <1>2 DEF RemoveSubtree, ino, pth
  <2> QED
    BY <2>7, <2>8, <2>9
<1> QED
  BY <1>1, <1>2

\* rename: once nothing lies within `to', what moves there finds it free, and goes
\* back by the rebase the other way.
LEMMA RenameSound ==
    ASSUME NEW t, Sound(t), NEW from \in Path, NEW to \in Path
    PROVE  Sound(Rename(t, from, to))
<1>1. CASE from = to \/ from = Root \/ to = Root
  BY <1>1 DEF Rename
<1>2. CASE ~(from = to \/ from = Root \/ to = Root)
  <2> DEFINE u      == RemoveSubtree(t, to)
             moving == {q \in DOMAIN u.byPath : IsWithin(q, from)}
             places == {Rebase(m, from, to) : m \in moving}
             ino    == [n \in DOMAIN u.byIno |->
                          IF u.byIno[n] \in moving THEN Rebase(u.byIno[n], from, to) ELSE u.byIno[n]]
             pth    == [q \in (DOMAIN u.byPath \ moving) \union places |->
                          IF IsWithin(q, to) THEN u.byPath[Rebase(q, to, from)] ELSE u.byPath[q]]
  <2>1. Sound(u) /\ \A q \in DOMAIN u.byPath : ~IsWithin(q, to)
    BY <1>2, RemoveSubtreeSound
  <2> HIDE DEF u
  <2>2. /\ u.byIno \in [DOMAIN u.byIno -> Path] /\ u.byPath \in [DOMAIN u.byPath -> Nat]
        /\ u.next \in Nat \ {0} /\ DOMAIN u.byPath \subseteq Path
        /\ \A n \in DOMAIN u.byIno : n \in 1 .. u.next - 1
        /\ \A p \in DOMAIN u.byPath : u.byPath[p] \in DOMAIN u.byIno /\ u.byIno[u.byPath[p]] = p
        /\ \A n \in DOMAIN u.byIno : u.byIno[n] \in DOMAIN u.byPath /\ u.byPath[u.byIno[n]] = n
    BY ONLY <2>1, SoundFacts
  <2>3. \A m \in moving : /\ Rebase(m, from, to) \in Path
                          /\ IsWithin(Rebase(m, from, to), to)
                          /\ Rebase(Rebase(m, from, to), to, from) = m
    BY <2>2, RebaseRoundTrip
  <2>4. /\ DOMAIN ino = DOMAIN u.byIno
        /\ DOMAIN pth = (DOMAIN u.byPath \ moving) \union places
    OBVIOUS
  <2>5. \A m \in moving : pth[Rebase(m, from, to)] = u.byPath[m]
    BY <2>3
  <2>6. \A q \in DOMAIN u.byPath \ moving : pth[q] = u.byPath[q]
    BY <2>1
  <2>7. \A m \in moving : ino[u.byPath[m]] = Rebase(m, from, to)
    BY <2>2
  <2>8. \A q \in DOMAIN u.byPath \ moving : ino[u.byPath[q]] = q
    BY <2>2
  <2> DEFINE domain == DOMAIN pth
  <2>9. \A q \in domain : q \in DOMAIN u.byPath \ moving \/ \E m \in moving : q = Rebase(m, from, to)
    BY <2>4
  <2>10. ino \in [DOMAIN ino -> Path]
    BY <2>2, <2>3
  <2>11. \A q \in DOMAIN u.byPath \ moving : q \in domain /\ q \in Path
    BY <2>2, <2>4
  <2>12. \A m \in moving : Rebase(m, from, to) \in domain /\ m \in DOMAIN u.byPath
    BY <2>4
  <2>13. \A n \in DOMAIN u.byIno : u.byIno[n] \in moving \/ u.byIno[n] \in DOMAIN u.byPath \ moving
    BY <2>2
  <2>14. pth = [q \in domain |-> pth[q]]
    OBVIOUS
  <2> HIDE DEF ino, pth, moving
  <2>15. \A q \in domain : pth[q] \in DOMAIN ino /\ ino[pth[q]] = q /\ q \in Path
    <3> SUFFICES ASSUME NEW q \in domain
                 PROVE  pth[q] \in DOMAIN ino /\ ino[pth[q]] = q /\ q \in Path
      OBVIOUS
    <3>1. CASE q \in DOMAIN u.byPath \ moving
      BY <2>2, <2>4, <2>6, <2>8, <2>11, <3>1
    <3>2. ASSUME NEW m \in moving, q = Rebase(m, from, to)
          PROVE  pth[q] \in DOMAIN ino /\ ino[pth[q]] = q /\ q \in Path
      BY <2>2, <2>3, <2>4, <2>5, <2>7, <2>12, <3>2
    <3> QED
      BY <2>9, <3>1, <3>2
  <2>16. \A n \in DOMAIN ino : ino[n] \in domain /\ pth[ino[n]] = n
    <3> SUFFICES ASSUME NEW n \in DOMAIN u.byIno
                 PROVE  ino[n] \in domain /\ pth[ino[n]] = n
      BY <2>4
    <3>1. u.byPath[u.byIno[n]] = n
      BY <2>2
    <3>2. CASE u.byIno[n] \in moving
      BY <2>5, <2>7, <2>12, <3>1, <3>2
    <3>3. CASE u.byIno[n] \in DOMAIN u.byPath \ moving
      BY <2>6, <2>8, <2>11, <3>1, <3>3
    <3> QED
      BY <2>13, <3>2, <3>3
  <2>17. \A q \in domain : pth[q] \in Nat
    BY <2>2, <2>4, <2>15
  <2>18. pth \in [DOMAIN pth -> Nat] /\ DOMAIN pth \subseteq Path
    BY <2>14, <2>15, <2>17
  <2>19. Sound([byIno |-> ino, byPath |-> pth, next |-> u.next])
    BY <2>2, <2>4, <2>10, <2>15, <2>16, <2>18, SoundTable
  <2>20. Rename(t, from, to) = [byIno |-> ino, byPath |-> pth, next |-> u.next]
    BY <1>2 DEF Rename, u, ino, pth, moving
  <2> QED
    BY <2>19, <2>20
<1> QED
  BY <1>1, <1>2

-----------------------------------------------------------------------------
\* Objects and threads.
TreeOK ==
    /\ DOMAIN objs \subseteq Path /\ \A p \in DOMAIN objs : objs[p] \in ObjType
    /\ made \in Nat

ThreadsOK ==
    /\ th \in [Thread -> RequestType]
    /\ \A t \in Thread : th[t].pc = "resolve" => th[t].to[2] \in Name

ToldOK == DOMAIN told \subseteq Nat /\ \A n \in DOMAIN told : told[n] \in ObjType

OthersOK ==
    /\ lists \subseteq [ino : Nat, means : ObjType, names : SUBSET Name]
    /\ wrote \in [meant : ObjType, changed : ObjType, lives : BOOLEAN]
    /\ left \in Nat

NotedOK == astray \subseteq ObjType /\ raced \in BOOLEAN

IInv == TreeOK /\ Sound(table) /\ ThreadsOK /\ ToldOK /\ OthersOK

LEMMA NothingType == Nothing \in ObjType
BY DEF Nothing, ObjType

LEMMA IdleType == Idle \in RequestType /\ Idle.pc = "idle" /\ Idle.to = <<0, "">>
BY NothingType, RootPath, Zenon DEF Idle, RequestType, Ops

\* A thread that goes on with a request of the right type.
LEMMA ThreadGoes ==
    ASSUME ThreadsOK, NEW t \in Thread, NEW r \in RequestType,
           r.pc = "resolve" => r.to[2] \in Name, th' = [th EXCEPT ![t] = r]
    PROVE  ThreadsOK'
BY DEF ThreadsOK

LEMMA ThreadDone == ASSUME ThreadsOK, NEW t \in Thread, Done(t) PROVE ThreadsOK'
BY IdleType, ThreadGoes, Zenon DEF Done

LEMMA ThreadKept == ASSUME ThreadsOK, NEW t \in Thread PROVE th[t] \in RequestType
BY DEF ThreadsOK

\* ... at another step than the one that looks up the second path of a rename.
LEMMA ThreadStep ==
    ASSUME ThreadsOK, NEW t \in Thread, NEW r \in RequestType,
           NEW pc \in {"idle", "attr", "number", "check", "dots", "names", "core", "table"},
           Goes(t, r, pc)
    PROVE  ThreadsOK'
<1> DEFINE s == [r EXCEPT !.pc = pc]
<1>1. s \in RequestType /\ s.pc = pc
  BY Zenon DEF RequestType
<1>2. th' = [th EXCEPT ![t] = s]
  BY DEF Goes
<1> HIDE DEF s
<1> QED
  BY <1>1, <1>2, ThreadGoes, Zenon

LEMMA InsertTold ==
    ASSUME ToldOK, NEW n \in Nat, NEW o \in ObjType, told' = Insert(told, n, o)
    PROVE  ToldOK'
BY DEF ToldOK, Insert


-----------------------------------------------------------------------------
\* The kernel starts a request.
LEMMA BeginStep ==
    ASSUME IInv, NEW t \in Thread, NEW r \in RequestType, Begin(t, r),
           Named(r.op) => r.name \in Name,
           r.op = "rename" => r.to[2] \in Name
    PROVE  IInv'
<1>1. Resolved(r) \in RequestType /\ (Resolved(r).pc = "resolve" => Resolved(r).to[2] \in Name)
  <2>1. CASE ~Knows(table, r.ino)
    BY <2>1, IdleType, Zenon DEF Resolved
  <2>2. CASE Knows(table, r.ino)
    <3> DEFINE p == table.byIno[r.ino]
               q == IF Named(r.op) THEN Join(p, r.name) ELSE p
               s == [r EXCEPT !.path = q, !.pc = Then(r.op)]
    <3>1. p \in Path
      BY <2>2, SoundFacts DEF IInv, Knows
    <3>2. q \in Path
      BY <3>1, JoinPath
    <3>3. /\ Then(r.op) \in {"attr", "resolve", "dots", "core"}
          /\ Then(r.op) = "resolve" => r.op = "rename"
      BY DEF Then
    <3> HIDE DEF p, q
    <3>4. s \in RequestType /\ s.pc = Then(r.op) /\ s.to = r.to
      BY <3>2, <3>3, Zenon DEF RequestType
    <3>5. Resolved(r) = s
      BY <2>2 DEF Resolved, p, q
    <3> QED
      BY <3>3, <3>4, <3>5
  <2> QED
    BY <2>1, <2>2
<1>2. /\ th' = [th EXCEPT ![t] = Resolved(r)] /\ left > 0 /\ left' = left - 1
      /\ UNCHANGED <<objs, made, table, told, lists, wrote>>
  BY DEF Begin
<1>3. ThreadsOK'
  BY <1>1, <1>2, ThreadGoes, Zenon DEF IInv
<1>4. OthersOK'
  BY <1>2 DEF IInv, OthersOK
<1> QED
  BY <1>2, <1>3, <1>4 DEF IInv, TreeOK, ToldOK

LEMMA VictimType == ASSUME IInv, NEW o, NEW n PROVE Victim(o, n) \subseteq ObjType
BY DEF IInv, TreeOK, Victim, Live

LEMMA KnownType == ASSUME IInv, NEW dir, NEW n \in Known(dir) PROVE n \in Nat /\ told[n] \in ObjType
BY DEF IInv, ToldOK, Known

LEMMA BeginNamedStep ==
    ASSUME IInv, NEW t \in Thread, NEW op \in {"lookup", "create", "mkdir", "unlink", "rmdir"},
           BeginNamed(t, op)
    PROVE  IInv'
<1>1. PICK n \in Known(TRUE), name \in Name :
        Begin(t, [Idle EXCEPT !.op = op, !.ino = n, !.name = name, !.means = told[n],
                     !.excl = IF op \in Changes THEN {told[n]} \union Victim(told[n], name) ELSE {},
                     !.shared = IF op = "lookup" THEN {told[n]} ELSE {}])
  BY Zenon DEF BeginNamed
<1> DEFINE e == IF op \in Changes THEN {told[n]} \union Victim(told[n], name) ELSE {}
           s == IF op = "lookup" THEN {told[n]} ELSE {}
           r == [Idle EXCEPT !.op = op, !.ino = n, !.name = name, !.means = told[n],
                     !.excl = e, !.shared = s]
<1>2. n \in Nat /\ told[n] \in ObjType /\ e \subseteq ObjType /\ s \subseteq ObjType
  BY KnownType, VictimType, Zenon
<1>3. op \in Ops
  BY DEF Ops, Changes, Removes
<1> HIDE DEF e, s
<1>4. r \in RequestType /\ r.op = op /\ r.name = name
  BY <1>2, <1>3, IdleType, Zenon DEF RequestType
<1>5. Begin(t, r)
  BY <1>1 DEF e, s
<1> HIDE DEF r
<1> QED
  BY <1>4, <1>5, BeginStep

LEMMA BeginRenameStep == ASSUME IInv, NEW t \in Thread, BeginRename(t) PROVE IInv'
<1>1. PICK n, m \in Known(TRUE), a, b \in Name, keep \in BOOLEAN :
        /\ <<n, a>> # <<m, b>>
        /\ Sensible("rename", Victim(told[n], a))
        /\ Begin(t, [Idle EXCEPT !.op = "rename", !.ino = n, !.name = a, !.to = <<m, b>>, !.keep = keep,
                        !.means = told[n], !.found = told[m],
                        !.excl = {told[n], told[m]} \union Victim(told[n], a) \union Victim(told[m], b)])
  BY Zenon DEF BeginRename
<1> DEFINE e == {told[n], told[m]} \union Victim(told[n], a) \union Victim(told[m], b)
           r == [Idle EXCEPT !.op = "rename", !.ino = n, !.name = a, !.to = <<m, b>>, !.keep = keep,
                     !.means = told[n], !.found = told[m], !.excl = e]
<1>2. n \in Nat /\ m \in Nat /\ told[n] \in ObjType /\ told[m] \in ObjType /\ e \subseteq ObjType
  BY KnownType, VictimType, Zenon
<1>3. "rename" \in Ops /\ <<m, b>> \in Nat \X (Name \union {""})
  BY <1>2, Zenon DEF Ops, Changes, Removes
<1> HIDE DEF e
<1>4. r \in RequestType /\ r.op = "rename" /\ r.name = a /\ r.to = <<m, b>>
  BY <1>2, <1>3, IdleType, Zenon DEF RequestType
<1>5. Begin(t, r)
  BY <1>1 DEF e
<1> HIDE DEF r
<1> QED
  BY <1>4, <1>5, BeginStep

LEMMA BeginByNumberStep ==
    ASSUME IInv, NEW t \in Thread, NEW op \in {"getattr", "write", "setattr", "opendir"},
           BeginByNumber(t, op)
    PROVE  IInv'
<1>1. PICK n \in Known(op = "opendir") :
        Begin(t, [Idle EXCEPT !.op = op, !.ino = n, !.means = told[n],
                     !.excl = IF op \in {"write", "setattr"} THEN {told[n]} ELSE {},
                     !.shared = IF op = "opendir" THEN {told[n]} ELSE {}])
  BY Zenon DEF BeginByNumber
<1> DEFINE e == IF op \in {"write", "setattr"} THEN {told[n]} ELSE {}
           s == IF op = "opendir" THEN {told[n]} ELSE {}
           r == [Idle EXCEPT !.op = op, !.ino = n, !.means = told[n], !.excl = e, !.shared = s]
<1>2. n \in Nat /\ told[n] \in ObjType /\ e \subseteq ObjType /\ s \subseteq ObjType
  BY KnownType
<1>3. op \in Ops /\ ~Named(op) /\ op # "rename"
  BY DEF Ops, Named, Changes, Removes
<1> HIDE DEF e, s
<1>4. r \in RequestType /\ r.op = op
  BY <1>2, <1>3, IdleType, Zenon DEF RequestType
<1>5. Begin(t, r)
  BY <1>1 DEF e, s
<1> HIDE DEF r
<1> QED
  BY <1>3, <1>4, <1>5, BeginStep

LEMMA BeginReaddirStep == ASSUME IInv, NEW t \in Thread, BeginReaddir(t) PROVE IInv'
<1>1. PICK l \in lists :
        Begin(t, [Idle EXCEPT !.op = "readdir", !.ino = l.ino, !.left = l.names, !.shared = {l.means}])
  BY Zenon DEF BeginReaddir
<1> DEFINE r == [Idle EXCEPT !.op = "readdir", !.ino = l.ino, !.left = l.names, !.shared = {l.means}]
<1>2. l.ino \in Nat /\ l.means \in ObjType /\ l.names \subseteq Name
  BY DEF IInv, OthersOK
<1>3. "readdir" \in Ops /\ ~Named("readdir")
  BY DEF Ops, Named, Changes, Removes
<1>4. r \in RequestType /\ r.op = "readdir"
  BY <1>2, <1>3, IdleType, Zenon DEF RequestType
<1>5. Begin(t, r)
  BY <1>1
<1> HIDE DEF r
<1> QED
  BY <1>3, <1>4, <1>5, BeginStep

-----------------------------------------------------------------------------
\* The handlers.
LEMMA ResolveTargetStep == ASSUME IInv, NEW t \in Thread, ResolveTarget(t) PROVE IInv'
<1> DEFINE r == th[t]
<1>1. r \in RequestType /\ r.pc = "resolve" /\ UNCHANGED <<objs, made, table, told, lists, wrote, left>>
  BY ThreadKept DEF ResolveTarget, IInv
<1>2. ThreadsOK'
  <2>1. CASE ~Knows(table, r.to[1])
    BY <2>1, ThreadDone DEF ResolveTarget, IInv
  <2>2. CASE Knows(table, r.to[1])
    <3> DEFINE q == Join(table.byIno[r.to[1]], r.to[2])
               pc == IF r.keep THEN "check" ELSE "core"
    <3>1. r.to[2] \in Name
      BY <1>1 DEF IInv, ThreadsOK
    <3>2. table.byIno[r.to[1]] \in Path
      BY <2>2, SoundFacts DEF IInv, Knows
    <3>3. q \in Path
      BY <3>1, <3>2, JoinPath
    <3>4. Goes(t, [r EXCEPT !.target = q], pc)
      BY <2>2 DEF ResolveTarget
    <3> HIDE DEF q
    <3>5. [r EXCEPT !.target = q] \in RequestType
      BY <1>1, <3>3, Zenon DEF RequestType
    <3> QED
      BY <3>4, <3>5, ThreadStep DEF IInv
  <2> QED
    BY <2>1, <2>2
<1> QED
  BY <1>1, <1>2 DEF IInv, TreeOK, ToldOK, OthersOK

LEMMA CheckTargetStep == ASSUME IInv, NEW t \in Thread, CheckTarget(t) PROVE IInv'
<1>1. ThreadsOK'
  BY ThreadKept, ThreadDone, ThreadStep DEF CheckTarget, IInv
<1> QED
  BY <1>1 DEF CheckTarget, IInv, TreeOK, ToldOK, OthersOK

LEMMA AttrStep == ASSUME IInv, NEW t \in Thread, Attr(t) PROVE IInv'
<1> DEFINE r == th[t]
<1>1. r \in RequestType /\ UNCHANGED <<objs, made, table, told, lists, wrote, left>>
  BY ThreadKept DEF Attr, IInv
<1>2. ThreadsOK'
  <2>1. CASE ~Live(r.path)
    BY <2>1, ThreadDone DEF Attr, IInv
  <2>2. CASE Live(r.path)
    <3>1. objs[r.path] \in ObjType
      BY <2>2 DEF IInv, TreeOK, Live
    <3>2. [r EXCEPT !.found = objs[r.path]] \in RequestType
      BY <1>1, <3>1, Zenon DEF RequestType
    <3>3. Goes(t, [r EXCEPT !.found = objs[r.path]], "number")
      BY <2>2 DEF Attr
    <3> QED
      BY <3>2, <3>3, ThreadStep DEF IInv
  <2> QED
    BY <2>1, <2>2
<1> QED
  BY <1>1, <1>2 DEF IInv, TreeOK, ToldOK, OthersOK

LEMMA AnswerStep == ASSUME IInv, NEW t \in Thread, Answer(t) PROVE IInv'
<1> DEFINE r == th[t]
<1>1. /\ r \in RequestType /\ Done(t) /\ table' = Assigned(table, r.path)
      /\ told' = IF Named(r.op) THEN Insert(told, InoFor(table, r.path), r.found) ELSE told
      /\ UNCHANGED <<objs, made, lists, wrote, left>>
  BY ThreadKept DEF Answer, IInv
<1>2. r.path \in Path /\ r.found \in ObjType
  BY <1>1, Zenon DEF RequestType
<1>3. Sound(table)' /\ InoFor(table, r.path) \in Nat
  BY <1>1, <1>2, AssignedSound DEF IInv
<1>4. ToldOK'
  <2>1. CASE Named(r.op)
    BY <1>1, <1>2, <1>3, <2>1, InsertTold DEF IInv
  <2>2. CASE ~Named(r.op)
    BY <1>1, <2>2 DEF IInv, ToldOK
  <2> QED
    BY <2>1, <2>2
<1>5. ThreadsOK'
  BY <1>1, ThreadDone DEF IInv
<1> QED
  BY <1>1, <1>3, <1>4, <1>5 DEF IInv, TreeOK, OthersOK

LEMMA DotsStep == ASSUME IInv, NEW t \in Thread, Dots(t) PROVE IInv'
<1>1. th[t] \in RequestType /\ th[t].path \in Path
  BY ThreadKept, Zenon DEF IInv, RequestType
<1>2. Sound(table)'
  BY <1>1, ParentPath, AssignedSound DEF Dots, IInv
<1>3. ThreadsOK'
  BY <1>1, ThreadStep DEF Dots, IInv
<1> QED
  BY <1>2, <1>3 DEF Dots, IInv, TreeOK, ToldOK, OthersOK

LEMMA NextNameStep == ASSUME IInv, NEW t \in Thread, NextName(t) PROVE IInv'
<1> DEFINE r == th[t]
<1>1. r \in RequestType /\ UNCHANGED <<objs, made, told, lists, wrote, left>>
  BY ThreadKept DEF NextName, IInv
<1>2. Sound(table)' /\ ThreadsOK'
  <2>1. CASE r.left = {}
    BY <2>1, ThreadDone DEF NextName, IInv
  <2>2. CASE r.left # {}
    <3>1. PICK n \in r.left : /\ table' = Assigned(table, Join(r.path, n))
                             /\ Goes(t, [r EXCEPT !.left = @ \ {n}], "names")
      BY <2>2 DEF NextName
    <3>2. n \in Name /\ r.path \in Path
      BY <1>1, Zenon DEF RequestType
    <3>3. Sound(table)'
      BY <3>1, <3>2, JoinPath, AssignedSound DEF IInv
    <3>4. [r EXCEPT !.left = @ \ {n}] \in RequestType
      BY <1>1, Zenon DEF RequestType
    <3> QED
      BY <3>1, <3>3, <3>4, ThreadStep DEF IInv
  <2> QED
    BY <2>1, <2>2
<1> QED
  BY <1>1, <1>2 DEF IInv, TreeOK, ToldOK, OthersOK


-----------------------------------------------------------------------------
\* What changes the tree.
LEMMA CreatedTree ==
    ASSUME TreeOK, NEW p \in Path, NEW dir \in BOOLEAN, Created(p, dir)
    PROVE  TreeOK'
<1> DEFINE o == [id |-> made + 1, dir |-> dir]
<1>1. o \in ObjType /\ made + 1 \in Nat
  BY DEF TreeOK, ObjType
<1>2. objs' = Insert(objs, p, o) /\ made' = made + 1
  BY DEF Created
<1> HIDE DEF o
<1> QED
  BY <1>1, <1>2 DEF TreeOK, Insert

LEMMA GoneTree == ASSUME TreeOK, NEW p, Gone(p), UNCHANGED made PROVE TreeOK'
BY DEF TreeOK, Gone, Restrict

LEMMA MovedTree ==
    ASSUME TreeOK, NEW a \in Path, NEW b \in Path, Moved(a, b), UNCHANGED made
    PROVE  TreeOK'
<1> DEFINE moving == {p \in DOMAIN objs : IsWithin(p, a)}
           stays  == {p \in DOMAIN objs \ moving : ~IsWithin(p, b)}
           places == {Rebase(p, a, b) : p \in moving}
<1>1. \A p \in moving : /\ p \in DOMAIN objs /\ Rebase(p, a, b) \in Path
                        /\ IsWithin(Rebase(p, a, b), b)
                        /\ Rebase(Rebase(p, a, b), b, a) = p
  BY RebaseRoundTrip DEF TreeOK
<1>2. /\ DOMAIN objs' = stays \union places
      /\ \A q \in stays \union places :
            objs'[q] = IF IsWithin(q, b) THEN objs[Rebase(q, b, a)] ELSE objs[q]
  BY DEF Moved
<1>3. \A q \in stays : q \in DOMAIN objs /\ ~IsWithin(q, b)
  OBVIOUS
<1>4. \A q \in places : \E p \in moving : q = Rebase(p, a, b)
  OBVIOUS
<1> HIDE DEF moving, stays, places
<1>5. \A q \in stays : objs'[q] \in ObjType /\ q \in Path
  BY <1>2, <1>3 DEF TreeOK
<1>6. \A q \in places : objs'[q] \in ObjType /\ q \in Path
  <2> SUFFICES ASSUME NEW p \in moving, Rebase(p, a, b) \in places
               PROVE  objs'[Rebase(p, a, b)] \in ObjType /\ Rebase(p, a, b) \in Path
    BY <1>4
  <2>1. objs'[Rebase(p, a, b)] = objs[p]
    BY <1>1, <1>2
  <2> QED
    BY <1>1, <2>1 DEF TreeOK
<1> QED
  BY <1>2, <1>5, <1>6 DEF TreeOK

LEMMA CreateStep ==
    ASSUME IInv, NEW t \in Thread, NEW op \in {"create", "mkdir"}, Create(t, op)
    PROVE  IInv'
<1>1. th[t] \in RequestType /\ th[t].path \in Path /\ (op = "mkdir") \in BOOLEAN
  BY ThreadKept, Zenon DEF IInv, RequestType
<1>2. TreeOK'
  BY <1>1, CreatedTree, Zenon DEF Create, IInv
<1>3. ThreadsOK'
  BY <1>1, ThreadStep DEF Create, IInv
<1> QED
  BY <1>2, <1>3 DEF Create, IInv, ToldOK, OthersOK

LEMMA RemoveStep == ASSUME IInv, NEW t \in Thread, Remove(t) PROVE IInv'
<1>1. th[t] \in RequestType
  BY ThreadKept DEF IInv
<1>2. TreeOK'
  BY GoneTree DEF Remove, IInv
<1>3. ThreadsOK'
  BY <1>1, ThreadStep DEF Remove, IInv
<1> QED
  BY <1>2, <1>3 DEF Remove, IInv, ToldOK, OthersOK

LEMMA RenameCoreStep == ASSUME IInv, NEW t \in Thread, RenameCore(t) PROVE IInv'
<1>1. th[t] \in RequestType /\ th[t].path \in Path /\ th[t].target \in Path
  BY ThreadKept, Zenon DEF IInv, RequestType
<1>2. TreeOK'
  BY <1>1, MovedTree DEF RenameCore, IInv
<1>3. ThreadsOK'
  BY <1>1, ThreadStep DEF RenameCore, IInv
<1> QED
  BY <1>2, <1>3 DEF RenameCore, IInv, ToldOK, OthersOK

LEMMA TableStep == ASSUME IInv, NEW t \in Thread, Table(t) PROVE IInv'
<1>1. th[t] \in RequestType /\ th[t].path \in Path /\ th[t].target \in Path
  BY ThreadKept, Zenon DEF IInv, RequestType
<1>2. Sound(table)'
  BY <1>1, RenameSound, RemoveSubtreeSound DEF Table, IInv
<1>3. ThreadsOK'
  BY ThreadDone DEF Table, IInv
<1> QED
  BY <1>2, <1>3 DEF Table, IInv, TreeOK, ToldOK, OthersOK

LEMMA RefusedStep == ASSUME IInv, NEW t \in Thread, Refused(t) PROVE IInv'
<1>1. ThreadsOK'
  BY ThreadDone DEF Refused, IInv
<1> QED
  BY <1>1 DEF Refused, IInv, TreeOK, ToldOK, OthersOK

LEMMA OverwritesOthers ==
    ASSUME IInv, NEW t \in Thread, NEW op, Overwrites(t, op)
    PROVE  OthersOK' /\ TreeOK' /\ Sound(table)' /\ ToldOK'
<1>1. th[t] \in RequestType /\ th[t].means \in ObjType /\ objs[th[t].path] \in ObjType
  BY ThreadKept, Zenon DEF IInv, RequestType, TreeOK, Overwrites, Live
<1>2. Lives(th[t].means) \in BOOLEAN
  BY DEF Lives
<1>3. wrote' \in [meant : ObjType, changed : ObjType, lives : BOOLEAN]
  BY <1>1, <1>2 DEF Overwrites
<1> QED
  BY <1>3 DEF Overwrites, IInv, OthersOK, TreeOK, ToldOK

LEMMA WriteSteps == ASSUME IInv, NEW t \in Thread, Write(t) \/ SetAttr(t) PROVE IInv'
<1>1. ThreadsOK'
  BY ThreadKept, ThreadDone, ThreadStep DEF Write, SetAttr, IInv
<1> QED
  BY <1>1, OverwritesOthers DEF Write, SetAttr, IInv

LEMMA OpenDirStep == ASSUME IInv, NEW t \in Thread, OpenDir(t) PROVE IInv'
<1> DEFINE r == th[t]
           l == [ino |-> r.ino, means |-> r.means, names |-> {n \in Name : Live(Join(r.path, n))}]
<1>1. r \in RequestType /\ lists' = lists \union {l} /\ Done(t)
      /\ UNCHANGED <<objs, made, table, told, wrote, left>>
  BY ThreadKept DEF OpenDir, IInv
<1>2. l \in [ino : Nat, means : ObjType, names : SUBSET Name]
  BY <1>1, Zenon DEF RequestType
<1> HIDE DEF l
<1>3. OthersOK'
  BY <1>1, <1>2 DEF IInv, OthersOK
<1>4. ThreadsOK'
  BY <1>1, ThreadDone DEF IInv
<1> QED
  BY <1>1, <1>3, <1>4 DEF IInv, TreeOK, ToldOK

\* What a listing brings, and a listing that is closed.
LEMMA BroughtStep == ASSUME IInv, Appears \/ Vanishes \/ Moves PROVE IInv'
<1>1. /\ left > 0 /\ left' = left - 1 /\ UNCHANGED <<table, told, th, lists, wrote>>
  BY DEF Appears, Vanishes, Moves, Bring, Unheard
<1>2. \A q \in Insertable : q \in Path
  <2> SUFFICES ASSUME NEW k \in 1 .. MaxDepth, NEW q \in [1 .. k -> Name] PROVE q \in Path
    BY DEF Insertable
  <2>1. k \in Nat
    BY AdapterAssumption
  <2> QED
    BY <2>1, SeqDef DEF Path
<1>3. TreeOK'
  <2>1. CASE Appears
    BY <1>2, <2>1, CreatedTree DEF Appears, IInv
  <2>2. CASE Vanishes
    BY <2>2, GoneTree DEF Vanishes, IInv
  <2>3. CASE Moves
    <3>1. PICK p \in DOMAIN objs \ {Root}, q \in Insertable : Moved(p, q)
      BY <2>3 DEF Moves
    <3>2. p \in Path /\ q \in Path
      BY <1>2 DEF IInv, TreeOK
    <3> QED
      BY <2>3, <3>1, <3>2, MovedTree DEF Moves, IInv
  <2> QED
    BY <2>1, <2>2, <2>3
<1> QED
  BY <1>1, <1>3 DEF IInv, ThreadsOK, ToldOK, OthersOK

LEMMA ReleaseDirStep == ASSUME IInv, ReleaseDir PROVE IInv'
BY DEF ReleaseDir, IInv, TreeOK, ThreadsOK, ToldOK, OthersOK

LEMMA StutterStep == ASSUME IInv, UNCHANGED vars PROVE IInv'
BY DEF vars, IInv, TreeOK, ThreadsOK, ToldOK, OthersOK

LEMMA NextIInv == IInv /\ [Next]_vars => IInv'
<1> SUFFICES ASSUME IInv, [Next]_vars PROVE IInv'
  OBVIOUS
<1>1. ASSUME NEW t \in Thread, Request(t) PROVE IInv'
  BY <1>1, BeginNamedStep, BeginRenameStep, BeginByNumberStep, BeginReaddirStep DEF Request
<1>2. ASSUME NEW t \in Thread, Handle(t) PROVE IInv'
  BY <1>2, ResolveTargetStep, CheckTargetStep, AttrStep, AnswerStep, DotsStep, NextNameStep,
     CreateStep, RemoveStep, RenameCoreStep, TableStep, WriteSteps, OpenDirStep, RefusedStep
     DEF Handle
<1>3. CASE ReleaseDir \/ Appears \/ Vanishes \/ Moves
  BY <1>3, ReleaseDirStep, BroughtStep
<1>4. CASE UNCHANGED vars
  BY <1>4, StutterStep
<1> QED
  BY <1>1, <1>2, <1>3, <1>4 DEF Next

\* The two histories.
LEMMA NextNoted == IInv /\ NotedOK /\ [Next]_vars => NotedOK'
<1> SUFFICES ASSUME IInv, NotedOK, [Next]_vars PROVE NotedOK'
  OBVIOUS
<1>1. ASSUME NEW t \in Thread, Request(t) PROVE NotedOK'
  <2>1. PICK r : Begin(t, r)
    BY <1>1 DEF Request, BeginNamed, BeginRename, BeginByNumber, BeginReaddir
  <2> QED
    BY <2>1 DEF Begin, NotedOK
<1>2. ASSUME NEW t \in Thread, Handle(t) PROVE NotedOK'
  <2>1. CASE RenameCore(t)
    BY <2>1 DEF RenameCore, NotedOK
  <2>2. CASE ~RenameCore(t)
    <3>1. UNCHANGED noted
      BY <1>2, <2>2 DEF Handle, ResolveTarget, CheckTarget, Attr, Answer, Dots, NextName, Create, Remove,
         Table, Write, SetAttr, Overwrites, OpenDir, Refused
    <3> QED
      BY <3>1 DEF noted, NotedOK
  <2> QED
    BY <2>1, <2>2
<1>3. CASE ReleaseDir \/ Appears
  BY <1>3 DEF ReleaseDir, Appears, noted, NotedOK
<1>4. CASE Vanishes
  BY <1>4 DEF Vanishes, NotedOK
<1>5. CASE Moves
  <2>1. PICK p \in DOMAIN objs \ {Root} :
          /\ astray' = astray \union HeldBelow(p)
          /\ raced' = (raced \/ Disturbs(p) \/ \E o \in HeldBelow(p) : o.dir)
    BY <1>5 DEF Moves
  <2>2. HeldBelow(p) \subseteq ObjType
    BY DEF HeldBelow, IInv, TreeOK
  <2> QED
    BY <2>1, <2>2 DEF NotedOK
<1>6. CASE UNCHANGED vars
  BY <1>6 DEF vars, NotedOK
<1> QED
  BY <1>1, <1>2, <1>3, <1>4, <1>5, <1>6 DEF Next

-----------------------------------------------------------------------------
\* The table the kernel's first lookups leave.
LEMMA NewSound == Sound(New)
<1>1. RootIno \in Nat /\ RootIno + 1 \in Nat \ {0} /\ RootIno \in 1 .. (RootIno + 1) - 1
  BY DEF RootIno
<1>2. /\ New.byIno = [n \in {RootIno} |-> Root] /\ New.byPath = [p \in {Root} |-> RootIno]
      /\ New.next = RootIno + 1
      /\ New = [byIno |-> New.byIno, byPath |-> New.byPath, next |-> New.next]
  BY DEF New
<1>3. TableType(New)
  BY <1>1, <1>2, RootPath DEF TableType
<1>4. Bijective(New)
  BY <1>2 DEF Bijective, Knows
<1> QED
  BY <1>3, <1>4 DEF Sound

LEMMA InitTable ==
    ASSUME NEW d \in Name, NEW f \in Name
    PROVE  Sound(Assigned(New, <<d>>)) /\ Sound(Assigned(Assigned(New, <<d>>), <<d, f>>))
<1>1. <<d>> \in Path /\ <<d, f>> \in Path
  BY DEF Path
<1>2. Sound(Assigned(New, <<d>>))
  BY <1>1, NewSound, AssignedSound
<1> QED
  BY <1>1, <1>2, AssignedSound

LEMMA InitIInv == Init => IInv
<1> SUFFICES ASSUME Init PROVE IInv
  OBVIOUS
<1>1. PICK d, f \in Name, seen \in 2 .. 3 :
        LET paths == {Root, <<d>>, <<d, f>>}
        IN  /\ d # f
            /\ objs = [p \in paths |-> [id |-> Len(p) + 1, dir |-> Len(p) < 2]]
            /\ table = IF seen = 2 THEN Assigned(New, <<d>>) ELSE Assigned(Assigned(New, <<d>>), <<d, f>>)
            /\ told = [n \in 1 .. seen |-> [id |-> n, dir |-> n < 3]]
            /\ made = 3
            /\ th = [t \in Thread |-> Idle]
            /\ lists = {}
            /\ wrote = [meant |-> Nothing, changed |-> Nothing, lives |-> FALSE]
            /\ astray = {} /\ raced = FALSE
            /\ left = Events
  BY Zenon DEF Init
<1>2. Sound(table)
  BY <1>1, InitTable
<1>3. TreeOK
  <2>1. \A p \in {Root, <<d>>, <<d, f>>} : p \in Path /\ Len(p) \in Nat
    <3>1. <<d>> \in Path /\ <<d, f>> \in Path /\ Root \in Path
      BY RootPath DEF Path
    <3>2. \A p \in Path : Len(p) \in Nat
      BY LenProperties DEF Path
    <3> QED
      BY <3>1, <3>2
  <2> QED
    BY <1>1, <2>1 DEF TreeOK, ObjType
<1>4. ThreadsOK
  BY <1>1, IdleType, Zenon DEF ThreadsOK
<1>5. ToldOK
  BY <1>1 DEF ToldOK, ObjType
<1>6. OthersOK
  BY <1>1, NothingType, AdapterAssumption DEF OthersOK
<1> QED
  BY <1>2, <1>3, <1>4, <1>5, <1>6 DEF IInv

\* Types, and a table that is sound, in every behaviour.
THEOREM Invariant == Spec => []IInv
<1>1. Init => IInv
  BY InitIInv
<1>2. IInv /\ [Next]_vars => IInv'
  BY NextIInv
<1> QED
  BY <1>1, <1>2, PTL DEF Spec

\* Every variable of Adapter keeps its type, for any number of threads, requests
\* and names.
THEOREM TypeCorrect == Spec => []TypeOK
<1>1. IInv /\ NotedOK => TypeOK
  BY DEF IInv, TypeOK, TreeOK, Sound, ThreadsOK, ToldOK, OthersOK, NotedOK
<1>2. Init => NotedOK
  BY DEF Init, NotedOK
<1> QED
  BY <1>1, <1>2, Invariant, NextNoted, PTL DEF Spec

\* The table's two maps are always each other's inverse (inodes.rs): however many
\* threads assign, forget and rename at the same time, no path has two numbers
\* and no number two paths.
THEOREM OneNumberEachAlways == Spec => []OneNumberEach
<1>1. IInv => OneNumberEach
  BY DEF IInv, Sound, OneNumberEach
<1> QED
  BY <1>1, Invariant, PTL

-----------------------------------------------------------------------------
(***************************************************************************)
(* The promise: a number stays with its file, until a folder moves under a *)
(* request (raced), and but for the files that listings rename (astray).   *)
(* It rests on what the kernel's locks achieve.  Everything the kernel was *)
(* told of, or is about to be told of, or works on, is `seen', and `sure'  *)
(* unless it is astray.  Between its two steps a rename or a removal has   *)
(* nothing sure at the path it has left, and at the path it has come to    *)
(* nothing but what it locks, or what no other request goes by.            *)
(***************************************************************************)

Is(p, o) == p \in DOMAIN objs /\ objs[p] = o

\* A pending rename that moves p, and a path that none moves or removes.
Over(f, t, p) == f[t].pc = "table" /\ f[t].op = "rename" /\ IsWithin(p, f[t].path)
Spared(f, t, p) ==
    f[t].pc = "table" => /\ ~IsWithin(p, f[t].path)
                         /\ f[t].op = "rename" => ~IsWithin(p, f[t].target)
Still(f, p) == \A t \in Thread : Spared(f, t, p)

\* Number n leads to object o, as LeadsTo has it.
Brings(f, p, q) ==
    \/ \E t \in Thread : Over(f, t, p) /\ q = Rebase(p, f[t].path, f[t].target)
    \/ q = p /\ Still(f, p)
Sits(f, tab, tree, n, o) ==
    n \in DOMAIN tab.byIno /\ \E q \in DOMAIN tree : Brings(f, tab.byIno[n], q) /\ tree[q] = o
Leads(n, o) == Sits(th, table, objs, n, o)

\* The steps of each request.
Placed(r) ==
    /\ r.pc = "idle" <=> r.op = "none"
    /\ r.pc = "table" => r.op \in Removes
    /\ r.pc = "number" => r.op \notin Removes
    /\ r.op = "rename" => r.pc \in {"resolve", "check", "core", "table"}
    /\ r.pc \in {"resolve", "check"} => r.op = "rename"
    /\ r.op \in {"unlink", "rmdir"} => r.pc \in {"core", "table"}

\* All that a path leads through is a folder, and an object has one path.
Tree ==
    /\ Root \in DOMAIN objs /\ objs[Root].dir
    /\ \A q \in DOMAIN objs, p \in Path : IsWithin(q, p) /\ p # q => p \in DOMAIN objs /\ objs[p].dir
    /\ \A p, q \in DOMAIN objs : objs[p] = objs[q] => p = q

\* What comes into being is new to everybody.
Dated(r) == r.means.id <= made /\ r.found.id <= made
Old ==
    /\ \A p \in DOMAIN objs : objs[p].id <= made
    /\ \A n \in DOMAIN told : told[n].id <= made /\ n < table.next
    /\ \A t \in Thread : Dated(th[t])

\* A request for a name has its folder, which stays where it is.
InFolder(r) ==
    Named(r.op) =>
        /\ r.path # Root /\ Is(Parent(r.path), r.means) /\ r.means.dir
        /\ r.means \in r.excl \union r.shared
        /\ r.op \in Changes => r.means \in r.excl
        /\ r.op = "rename" =>
              /\ r.found.dir /\ r.found \in r.excl
              /\ r.pc = "resolve" => Knows(table, r.to[1]) /\ Is(table.byIno[r.to[1]], r.found)
              /\ r.pc # "resolve" => r.target # Root /\ Is(Parent(r.target), r.found)

Apart(r, s) ==
    r.pc # "idle" /\ s.pc # "idle" =>
        r.excl \intersect (s.excl \union s.shared) = {} /\ s.excl \intersect r.shared = {}
Locks == \A s, t \in Thread : s # t => Apart(th[s], th[t])

\* A write has its file, as long as there is one.
Writes(r) ==
    Writing(r) => /\ r.means \in r.excl
                  /\ Lives(r.means) /\ r.means \notin astray => Is(r.path, r.means) /\ Leads(r.ino, r.means)

\* What a reply is about is where the reply says, as long as it exists.
Numbering(r) == Named(r.op) /\ r.pc = "number"
Finds(r) == Numbering(r) /\ Lives(r.found) /\ r.found \notin astray => Is(r.path, r.found)

SeenBy(r) ==
    (IF Named(r.op) \/ Writing(r) THEN {r.means} ELSE {})
        \union (IF r.op = "rename" \/ Numbering(r) THEN {r.found} ELSE {})
Seen == {told[n] : n \in DOMAIN told} \union UNION {SeenBy(th[t]) : t \in Thread}
Sure == Seen \ astray

\* A rename or a removal between the tree and the table; nobody else goes by the
\* paths of a folder that is renamed.
Far(t, p) == \A q \in Reach(th[t]) : ~IsWithin(q, p)
Clear(t) ==
    /\ th[t].op = "rename" /\ IsDir(th[t].target)
    /\ \A s \in Thread \ {t} : Far(s, th[t].path) /\ Far(s, th[t].target)

\* The paths S are in no pending rename that may rely on being clear.
Past(t, S) ==
    \A s \in Thread \ {t} : th[s].pc = "table" /\ Clear(s) =>
        \A q \in S : ~IsWithin(q, th[s].path) /\ ~IsWithin(q, th[s].target)
Left(t) ==
    th[t].pc = "table" =>
        /\ th[t].path # Root
        /\ \A q \in DOMAIN objs : IsWithin(q, th[t].path) => objs[q] \notin Sure
Come(t) ==
    th[t].pc = "table" /\ th[t].op = "rename" =>
        /\ ~IsWithin(th[t].target, th[t].path) /\ ~IsWithin(th[t].path, th[t].target)
        /\ \/ Clear(t)
           \/ \A q \in DOMAIN objs : IsWithin(q, th[t].target) /\ objs[q] \in Sure
                                        => ~objs[q].dir /\ objs[q] \in th[t].excl

\* A rename or a removal that is going to happen: it takes what it has locked, or
\* something new.
Early(r) == r.op \in Removes /\ r.pc \in {"resolve", "check", "core"}
Takes(r, S) == Early(r) => \A q \in DOMAIN objs : q = r.path /\ objs[q] \in S => objs[q] \in r.excl

\* No folder is astray.
Files == \A o \in astray : ~o.dir

ToldLeads == \A n \in DOMAIN told : Lives(told[n]) /\ told[n] \notin astray => Leads(n, told[n])

KInv ==
    /\ Tree /\ Old /\ Locks /\ Files /\ ToldLeads
    /\ \A t \in Thread : Placed(th[t]) /\ InFolder(th[t]) /\ Writes(th[t]) /\ Finds(th[t])
    /\ \A t \in Thread : Left(t) /\ Come(t) /\ Takes(th[t], Sure)

-----------------------------------------------------------------------------
LEMMA ThreadType ==
    ASSUME IInv, NEW t \in Thread
    PROVE  /\ th[t] \in RequestType /\ th[t].path \in Path /\ th[t].target \in Path
           /\ th[t].op \in Ops /\ th[t].ino \in Nat
           /\ th[t].means \in ObjType /\ th[t].found \in ObjType
           /\ th[t].excl \subseteq ObjType /\ th[t].shared \subseteq ObjType
BY Zenon DEF IInv, ThreadsOK, RequestType

LEMMA KInvParts ==
    ASSUME KInv, NEW t \in Thread
    PROVE  /\ Placed(th[t]) /\ InFolder(th[t]) /\ Writes(th[t]) /\ Finds(th[t])
           /\ Left(t) /\ Come(t) /\ Takes(th[t], Sure)
BY DEF KInv

LEMMA PastOwn == ASSUME NEW t \in Thread PROVE Past(t, Reach(th[t]))
BY DEF Past, Clear, Far

LEMMA InSeen ==
    /\ \A n \in DOMAIN told : told[n] \in Seen
    /\ \A t \in Thread : SeenBy(th[t]) \subseteq Seen
    /\ \A t \in Thread : Named(th[t].op) => th[t].means \in Seen
    /\ \A t \in Thread : Writing(th[t]) => th[t].means \in Seen
    /\ \A t \in Thread : th[t].op = "rename" \/ Numbering(th[t]) => th[t].found \in Seen
<1>1. /\ \A n \in DOMAIN told : told[n] \in Seen
      /\ \A t \in Thread : SeenBy(th[t]) \subseteq Seen
  BY DEF Seen
<1> QED
  BY <1>1 DEF SeenBy

\* Folders are not astray.
LEMMA SureFolder == ASSUME KInv, NEW o \in Seen, o.dir PROVE o \in Sure
BY DEF KInv, Files, Sure

\* A pending call is far from what is sure.
LEMMA SeenSpared ==
    ASSUME IInv, KInv, NEW s \in Thread, ~Clear(s), NEW q, NEW o \in Sure, Is(q, o), o.dir \/ o \notin th[s].excl
    PROVE  Spared(th, s, q)
BY KInvParts DEF Left, Come, Is, Spared

\* ... and so from the paths of every other request for a name.
LEMMA Untouched ==
    ASSUME IInv, KInv, NEW s \in Thread, NEW u \in Thread, u # s, Named(th[u].op), NEW p,
           \/ p = th[u].path
           \/ th[u].op = "rename" /\ th[u].pc # "resolve" /\ p = th[u].target
    PROVE  Spared(th, s, p)
<1>0. /\ Placed(th[u]) /\ InFolder(th[u]) /\ Placed(th[s]) /\ InFolder(th[s])
  BY KInvParts
<1>1. PICK o : /\ o \in Sure /\ o.dir /\ Is(Parent(p), o) /\ o \in th[u].excl \union th[u].shared
               /\ p \in Path /\ p # Root
  <2>1. CASE p = th[u].path
    BY <1>0, <2>1, ThreadType, InSeen, SureFolder DEF InFolder
  <2>2. CASE th[u].op = "rename" /\ th[u].pc # "resolve" /\ p = th[u].target
    BY <1>0, <2>2, ThreadType, InSeen, SureFolder DEF InFolder
  <2> QED
    BY <2>1, <2>2
<1> SUFFICES ASSUME th[s].pc = "table"  PROVE Spared(th, s, p)
  BY DEF Spared
<1>2. CASE Clear(s)
  <2>1. p \in Reach(th[u])
    BY DEF Reach
  <2>2. Past(u, Reach(th[u]))
    BY PastOwn
  <2> QED
    BY <1>2, <2>1, <2>2 DEF Past, Spared
<1> SUFFICES ASSUME ~Clear(s)  PROVE Spared(th, s, p)
  BY <1>2
<1>3. Spared(th, s, Parent(p))
  BY <1>1, SeenSpared
<1>4. th[s].op \in Removes /\ th[s].path \in Path /\ th[s].path # Root /\ th[s].target \in Path
  BY <1>0, ThreadType, KInvParts DEF Placed, Left
<1>5. Named(th[s].op) /\ th[s].op \in Changes
  BY <1>4 DEF Named, Changes
<1>6. o \notin th[s].excl
  <2>1. Apart(th[s], th[u])
    BY DEF KInv, Locks
  <2> QED
    BY <1>0, <1>1, <2>1 DEF Apart, Placed, Named, Changes, Removes
<1>7. p # th[s].path
  BY <1>0, <1>1, <1>5, <1>6 DEF InFolder, Is
<1>8. th[s].op = "rename" => p # th[s].target
  BY <1>0, <1>1, <1>5, <1>6 DEF InFolder, Is
<1>9. ~IsWithin(p, th[s].path)
  BY <1>1, <1>3, <1>4, <1>7, ParentWithin DEF Spared
<1>10. th[s].op = "rename" => ~IsWithin(p, th[s].target)
  BY <1>1, <1>3, <1>4, <1>8, ParentWithin DEF Spared
<1> QED
  BY <1>9, <1>10 DEF Spared

\* Two pending calls are far from each other.
LEMMA Spread ==
    ASSUME IInv, KInv, NEW s \in Thread, NEW u \in Thread, u # s, th[s].pc = "table", th[u].pc = "table"
    PROVE  /\ Spared(th, s, th[u].path) /\ Spared(th, u, th[s].path)
           /\ th[u].op = "rename" => Spared(th, s, th[u].target)
           /\ th[s].op = "rename" => Spared(th, u, th[s].target)
<1>1. Named(th[s].op) /\ Named(th[u].op)
  BY KInvParts DEF Placed, Named, Changes
<1> QED
  BY <1>1, Untouched

\* A step of a thread that neither begins nor ends to be pending leads no number
\* elsewhere.
LEMMA SitsKept ==
    ASSUME NEW t \in Thread, NEW r, NEW f, NEW g, g = [f EXCEPT ![t] = r], f \in [Thread -> RequestType],
           f[t].pc # "table", r.pc # "table", NEW tab, NEW tree, NEW n, NEW o
    PROVE  Sits(g, tab, tree, n, o) <=> Sits(f, tab, tree, n, o)
<1>1. \A s \in Thread : g[s] = IF s = t THEN r ELSE f[s]
  OBVIOUS
<1>2. \A p, q : Brings(g, p, q) <=> Brings(f, p, q)
  BY <1>1 DEF Brings, Over, Still, Spared
<1> QED
  BY <1>2, Zenon DEF Sits

\* What a thread may go on with, when the tree stays and numbers may be added to the
\* table: what it comes to see (X) lies in no other's way.
InWay(s, q) == ~Spared(th, s, q) \/ (Early(th[s]) /\ q = th[s].path)
Longer ==
    /\ \A n \in DOMAIN table.byIno : n \in DOMAIN table'.byIno /\ table'.byIno[n] = table.byIno[n]
    /\ table.next <= table'.next
LEMMA Grows ==
    ASSUME IInv, IInv', KInv, NEW t \in Thread, NEW r \in RequestType,
           th' = [th EXCEPT ![t] = r], UNCHANGED <<objs, made, astray>>, Longer,
           th[t].pc # "table", r.pc # "table",
           Placed(r), InFolder(r), Writes(r), Finds(r), Dated(r),
           \A s \in Thread \ {t} : Apart(r, th[s]) /\ Apart(th[s], r),
           Past(t, Reach(r)),
           NEW X, SeenBy(r) \subseteq Seen \union X,
           {told'[n] : n \in DOMAIN told'} \subseteq Seen \union X,
           \A n \in DOMAIN told' : told'[n].id <= made /\ n < table'.next,
           ToldLeads',
           \A q \in DOMAIN objs : objs[q] \in X => \A s \in Thread \ {t} : ~InWay(s, q),
           Takes(r, Sure \union X)
    PROVE  KInv'
<1>1. /\ th' \in [Thread -> RequestType] /\ th \in [Thread -> RequestType]
      /\ \A s \in Thread : th'[s] = IF s = t THEN r ELSE th[s]
  BY DEF IInv, ThreadsOK
<1>2. \A n, o : Leads(n, o) => Leads(n, o)'
  <2>1. \A n, o : Leads(n, o) => Sits(th', table, objs, n, o)
    BY <1>1, SitsKept, Zenon DEF Leads
  <2> QED
    BY <2>1 DEF Leads, Sits, Longer, Brings, Over, Still, Spared
<1>3. Tree' /\ Old'
  BY <1>1 DEF KInv, Tree, Old, Dated
<1>4. Locks' /\ Files'
  BY <1>1 DEF KInv, Locks, Files
<1>6. ASSUME NEW s \in Thread  PROVE (Placed(th[s]) /\ InFolder(th[s]) /\ Writes(th[s]) /\ Finds(th[s]))'
  <2>1. Placed(th'[s]) /\ InFolder(th'[s]) /\ Writes(th'[s]) /\ Finds(th'[s])
    BY <1>1, KInvParts
  <2>2. (Placed(th[s]))' /\ (InFolder(th[s]))' /\ (Finds(th[s]))'
    BY <2>1, Zenon DEF Placed, InFolder, Finds, Is, Lives, Longer, Knows
  <2>3. (Writes(th[s]))'
    BY <1>2, <2>1 DEF Writes, Is, Lives
  <2> QED
    BY <2>2, <2>3
<1>7. Sure' \subseteq Sure \union X
  <2>1. ASSUME NEW s \in Thread  PROVE SeenBy(th'[s]) \subseteq Seen \union X
    BY <1>1, InSeen
  <2>2. \A s \in Thread : SeenBy(th[s])' = SeenBy(th'[s])
    BY DEF SeenBy
  <2>3. Seen' = {told'[n] : n \in DOMAIN told'} \union UNION {SeenBy(th'[s]) : s \in Thread}
    BY <2>2 DEF Seen
  <2>4. Seen' \subseteq Seen \union X
    BY <2>1, <2>3
  <2> QED
    BY <2>4 DEF Sure
<1>9. ASSUME NEW s \in Thread  PROVE (Reach(th[s]))' = Reach(th'[s])
  <2>1. Placed(th'[s]) /\ InFolder(th'[s])
    BY <1>1, KInvParts
  <2>2. CASE th'[s].op = "rename" /\ th'[s].pc = "resolve"
    <3>1. Knows(table, th'[s].to[1])
      BY <2>1, <2>2 DEF InFolder, Named, Changes, Removes
    <3>2. table'.byIno[th'[s].to[1]] = table.byIno[th'[s].to[1]] /\ th'[s].to[1] \in DOMAIN table'.byIno
      BY <3>1 DEF Longer, Knows
    <3> QED
      BY <2>2, <3>1, <3>2 DEF Reach, Writing, Knows
  <2>3. CASE ~(th'[s].op = "rename" /\ th'[s].pc = "resolve")
    BY <2>3 DEF Reach, Writing
  <2> QED
    BY <2>2, <2>3
<1>8. ASSUME NEW s \in Thread  PROVE (Left(s) /\ Come(s) /\ Takes(th[s], Sure))'
  <2>1. CASE s = t
    <3>1. (Left(s) /\ Come(s))'
      BY <1>1, <2>1 DEF Left, Come
    <3>2. Takes(th[s], Sure)'
      BY <1>1, <1>7, <2>1 DEF Takes, Early
    <3> QED
      BY <3>1, <3>2
  <2>2. CASE s # t
    <3>0. th'[s] = th[s]
      BY <1>1, <2>2
    <3>1. Left(s) /\ Come(s) /\ Takes(th[s], Sure)
      BY KInvParts
    <3>2. \A q \in DOMAIN objs : objs[q] \in X => Spared(th, s, q) /\ (Early(th[s]) => q # th[s].path)
      BY <2>2 DEF InWay
    <3>3. Left(s)'
      BY <1>7, <3>0, <3>1, <3>2 DEF Left, Spared
    <3>4. Takes(th[s], Sure)'
      BY <1>7, <3>0, <3>1, <3>2 DEF Takes, Early
    <3>5. Come(s)'
      <4> SUFFICES ASSUME th[s].pc = "table", th[s].op = "rename"  PROVE Come(s)'
        BY <3>0 DEF Come
      <4>1. CASE Clear(s)
        <5>1. ASSUME NEW u \in Thread \ {s}  PROVE (Far(u, th[s].path) /\ Far(u, th[s].target))'
          <6>1. CASE u = t
            <7>1. (Reach(th[u]))' = Reach(r)
              BY <1>1, <1>9, <6>1, Zenon
            <7> QED
              BY <2>2, <3>0, <4>1, <6>1, <7>1 DEF Past, Far
          <6>2. CASE u # t
            <7>1. th'[u] = th[u]
              BY <1>1, <6>2
            <7>2. (Reach(th[u]))' = Reach(th[u])
              BY <1>9, <7>1
            <7> QED
              BY <3>0, <4>1, <5>1, <7>2 DEF Clear, Far
          <6> QED
            BY <6>1, <6>2
        <5>2. Clear(s)'
          BY <3>0, <4>1, <5>1 DEF Clear, IsDir, Live
        <5> QED
          BY <3>0, <3>1, <5>2 DEF Come
      <4>2. CASE ~Clear(s)
        BY <1>7, <3>0, <3>1, <3>2, <4>2 DEF Come, Spared
      <4> QED
        BY <4>1, <4>2
    <3> QED
      BY <3>3, <3>4, <3>5
  <2> QED
    BY <2>1, <2>2
<1> QED
  BY <1>3, <1>4, <1>6, <1>8 DEF KInv


\* ... when nothing but its own record changes.
LEMMA ThreadOnly ==
    ASSUME IInv, IInv', KInv, NEW t \in Thread, NEW r \in RequestType,
           th' = [th EXCEPT ![t] = r], UNCHANGED <<objs, made, table, told, astray>>,
           th[t].pc # "table", r.pc # "table",
           Placed(r), InFolder(r), Writes(r), Finds(r), Dated(r),
           \A s \in Thread \ {t} : Apart(r, th[s]) /\ Apart(th[s], r),
           Past(t, Reach(r)),
           NEW X, SeenBy(r) \subseteq Seen \union X,
           \A q \in DOMAIN objs : objs[q] \in X => \A s \in Thread \ {t} : ~InWay(s, q),
           Takes(r, Sure \union X)
    PROVE  KInv'
<1>1. Longer
  BY DEF Longer, IInv, Sound, TableType
<1>2. \A n \in DOMAIN told : told[n] \in Seen
  BY InSeen
<1>3. {told'[n] : n \in DOMAIN told'} \subseteq Seen \union X
  BY <1>2
<1>4. \A n \in DOMAIN told' : told'[n].id <= made /\ n < table'.next
  BY DEF KInv, Old
<1>5. \A n, o : Leads(n, o) => Leads(n, o)'
  BY SitsKept, Zenon DEF Leads, IInv, ThreadsOK
<1>6. ToldLeads'
  BY <1>5 DEF KInv, ToldLeads, Lives
<1> QED
  BY <1>1, <1>3, <1>4, <1>6, Grows, Zenon

\* A request that ends, or that is refused at once.
LEMMA Rests ==
    ASSUME IInv, IInv', KInv, NEW t \in Thread, Done(t), UNCHANGED <<objs, made, table, told, astray>>,
           th[t].pc # "table"
    PROVE  KInv'
<1>1. /\ Idle \in RequestType /\ Idle.pc = "idle" /\ Idle.op = "none"
      /\ Idle.means = Nothing /\ Idle.found = Nothing /\ Idle.excl = {} /\ Idle.shared = {}
  BY IdleType, Zenon DEF Idle
<1> HIDE DEF Idle
<1>2. ~Named(Idle.op) /\ Idle.op # "rename" /\ ~Writing(Idle) /\ ~Numbering(Idle)
  BY <1>1 DEF Named, Writing, Numbering, Changes, Removes
<1>3. Placed(Idle) /\ InFolder(Idle) /\ Writes(Idle) /\ Finds(Idle) /\ SeenBy(Idle) = {}
  BY <1>1, <1>2 DEF Placed, InFolder, Writes, Finds, SeenBy, Removes
<1>4. Dated(Idle)
  BY <1>1 DEF Dated, Nothing, IInv, TreeOK
<1>5. \A s \in Thread \ {t} : Apart(Idle, th[s]) /\ Apart(th[s], Idle)
  BY <1>1 DEF Apart
<1> DEFINE X == {}
<1>6. SeenBy(Idle) \subseteq Seen \union X /\ Takes(Idle, Sure \union X)
  BY <1>1, <1>3 DEF Takes, Early
<1>7. th' = [th EXCEPT ![t] = Idle]
  BY DEF Done
<1>8. \A q \in DOMAIN objs : objs[q] \in X => \A s \in Thread \ {t} : ~InWay(s, q)
  OBVIOUS
<1>9. Idle.pc # "table" /\ Past(t, Reach(Idle))
  BY <1>1, <1>2 DEF Reach, Past
<1> HIDE DEF X
<1> QED
  BY <1>1, <1>3, <1>4, <1>5, <1>6, <1>7, <1>8, <1>9, ThreadOnly, Zenon

\* What the kernel was told of a number is at its path now, unless a rename that is
\* pending has locked it.
LEMMA ToldAt ==
    ASSUME IInv, KInv, NEW n \in DOMAIN told, Lives(told[n]), told[n] \notin astray,
           \A s \in Thread : Over(th, s, table.byIno[n]) => ~Clear(s),
           told[n].dir \/ \A s \in Thread : th[s].pc = "table" => told[n] \notin th[s].excl
    PROVE  Knows(table, n) /\ Is(table.byIno[n], told[n]) /\ Leads(n, told[n])
<1>1. Leads(n, told[n]) /\ told[n] \in Sure
  BY InSeen DEF KInv, ToldLeads, Sure
<1>2. PICK q \in DOMAIN objs : /\ n \in DOMAIN table.byIno
                               /\ Brings(th, table.byIno[n], q) /\ objs[q] = told[n]
  BY <1>1 DEF Leads, Sits
<1>3. table.byIno[n] \in Path
  BY <1>2, SoundFacts DEF IInv
<1>4. ASSUME NEW s \in Thread, Over(th, s, table.byIno[n]), q = Rebase(table.byIno[n], th[s].path, th[s].target)
      PROVE  FALSE
  <2>1. IsWithin(q, th[s].target)
    BY <1>3, <1>4, ThreadType, RebaseRoundTrip DEF Over
  <2>2. ~Clear(s) /\ Come(s)
    BY <1>4, KInvParts
  <2> QED
    BY <1>1, <1>2, <1>4, <2>1, <2>2 DEF Come, Over
<1>5. q = table.byIno[n]
  BY <1>2, <1>4 DEF Brings
<1> QED
  BY <1>1, <1>2, <1>5 DEF Knows, Is

\* The kernel starts a request.
LEMMA BeginKeeps ==
    ASSUME ~raced', IInv, IInv', KInv, NEW t \in Thread, NEW r \in RequestType, Begin(t, r),
           r.op # "none",
           r.means \in {told[n] : n \in DOMAIN told} \union {Nothing},
           r.found \in {told[n] : n \in DOMAIN told} \union {Nothing},
           Named(r.op) => /\ r.ino \in Known(TRUE) /\ r.means = told[r.ino] /\ r.name \in Name
                          /\ r.means \in r.excl \union r.shared
                          /\ r.op \in Changes => r.means \in r.excl,
           r.op \in Removes => Victim(r.means, r.name) \subseteq r.excl,
           r.op = "rename" => /\ r.to[1] \in Known(TRUE) /\ r.found = told[r.to[1]]
                              /\ r.found \in r.excl,
           r.op \in {"write", "setattr"} => r.ino \in DOMAIN told /\ r.means = told[r.ino] /\ r.means \in r.excl
    PROVE  KInv'
<1>1. /\ th[t].pc = "idle" /\ Free(t, r) /\ th' = [th EXCEPT ![t] = Resolved(r)]
      /\ UNCHANGED <<objs, made, table, told, astray>>
  BY DEF Begin
<1>2. /\ \A s \in Thread \ {t} : MovesFolder(s) =>
            \A x \in Reach(Resolved(r)) : ~IsWithin(x, th[s].path) /\ ~IsWithin(x, th[s].target)
      /\ Named(r.op) => Lives(r.means)
      /\ r.op = "rename" => Lives(r.found)
  BY DEF Begin, Hasty
<1>3. CASE ~Knows(table, r.ino)
  <2>1. th[t].pc # "table"
    BY <1>1
  <2>2. Done(t)
    BY <1>1, <1>3 DEF Resolved, Done
  <2> QED
    BY <1>1, <2>1, <2>2, Rests, Zenon
<1>4. CASE Knows(table, r.ino)
  <2> DEFINE p == table.byIno[r.ino]
             q == IF Named(r.op) THEN Join(p, r.name) ELSE p
             s0 == [r EXCEPT !.path = q, !.pc = Then(r.op)]
  <2>1. Resolved(r) = s0
    BY <1>4 DEF Resolved
  <2>2. p \in Path
    BY <1>4, SoundFacts DEF IInv, Knows
  <2>3. q \in Path
    BY <2>2, JoinPath
  <2>4. /\ Then(r.op) \in {"attr", "resolve", "dots", "core"}
        /\ Then(r.op) = "resolve" <=> r.op = "rename"
        /\ r.op \in {"unlink", "rmdir"} => Then(r.op) = "core"
    BY DEF Then
  <2>5. /\ Named(r.op) => r.ino \in DOMAIN told /\ r.means.dir
        /\ r.op = "rename" => r.to[1] \in DOMAIN told /\ r.found.dir
    BY DEF Known
  <2>22. \A n \in DOMAIN told : told[n].dir => told[n] \notin astray
    BY DEF KInv, Files
  <2>23. ASSUME NEW x, \A s \in Thread \ {t} : MovesFolder(s) => ~IsWithin(x, th[s].path)
         PROVE  \A s \in Thread : Over(th, s, x) => ~Clear(s)
    BY <1>1, <2>23 DEF Over, Clear, MovesFolder
  <2>6. ASSUME Named(r.op)  PROVE Is(p, r.means)
    <3>1. Join(p, r.name) \in Reach(Resolved(r))
      <4>1. s0.op = r.op /\ s0.path = Join(p, r.name)
        BY <2>6 DEF RequestType
      <4> QED
        BY <2>1, <2>6, <4>1, Zenon DEF Reach
    <3>2. Join(p, r.name) \in Path /\ Join(p, r.name) # Root /\ Parent(Join(p, r.name)) = p
      BY <2>2, <2>6, JoinMeans
    <3>3. ASSUME NEW s \in Thread \ {t}, MovesFolder(s)  PROVE ~IsWithin(p, th[s].path)
      BY <1>2, <3>1, <3>2, <3>3, ThreadType, ParentWithin
    <3>4. \A s \in Thread : Over(th, s, p) => ~Clear(s)
      BY <2>23, <3>3
    <3> QED
      BY <1>2, <2>5, <2>6, <2>22, <3>4, ToldAt
  <2>24. ASSUME r.op = "rename"  PROVE Knows(table, r.to[1]) /\ Is(table.byIno[r.to[1]], r.found)
    <3>1. Knows(table, r.to[1])
      BY <1>2, <2>5, <2>22, <2>24 DEF KInv, ToldLeads, Leads, Sits, Knows
    <3>2. s0.op = "rename" /\ s0.pc = "resolve" /\ s0.to = r.to
      BY <2>4, <2>24
    <3>3. table.byIno[r.to[1]] \in Reach(Resolved(r))
      BY <2>1, <3>1, <3>2, Zenon DEF Reach, Knows
    <3>4. ASSUME NEW s \in Thread \ {t}, MovesFolder(s)  PROVE ~IsWithin(table.byIno[r.to[1]], th[s].path)
      BY <1>2, <3>3, <3>4
    <3>5. \A s \in Thread : Over(th, s, table.byIno[r.to[1]]) => ~Clear(s)
      BY <2>23, <3>4
    <3> QED
      BY <1>2, <2>5, <2>22, <2>24, <3>5, ToldAt
  <2>7. Named(r.op) => /\ q = Join(p, r.name) /\ q # Root /\ Parent(q) = p /\ Is(p, r.means) /\ r.means.dir
    BY <2>2, <2>5, <2>6, JoinMeans
  <2>8. ASSUME r.op \in {"write", "setattr"}, Lives(r.means), r.means \notin astray
        PROVE  q = p /\ Is(p, r.means) /\ Leads(r.ino, r.means)
    <3>1. \A s \in Thread : th[s].pc = "table" => told[r.ino] \notin th[s].excl
      BY <1>1, <2>8 DEF Free
    <3>2. ~Named(r.op) /\ Then(r.op) = "core"
      BY <2>8 DEF Named, Changes, Removes, Then
    <3>3. q = p /\ s0.path = p /\ Writing(s0)
      BY <2>8, <3>2 DEF Writing
    <3>4. p \in Reach(Resolved(r))
      BY <2>1, <3>3, Zenon DEF Reach
    <3>5. \A s \in Thread : Over(th, s, p) => ~Clear(s)
      BY <1>2, <2>23, <3>4
    <3> QED
      BY <2>8, <3>1, <3>3, <3>5, ToldAt
  <2>9. r.op \in Removes => \A x \in DOMAIN objs : x = q => objs[x] \in r.excl
    <3> SUFFICES ASSUME r.op \in Removes, q \in DOMAIN objs  PROVE objs[q] \in Victim(r.means, r.name)
      OBVIOUS
    <3>1. Named(r.op)
      BY DEF Named, Changes
    <3>2. PathOf(r.means) = p /\ Lives(r.means)
      <4>1. \A x \in DOMAIN objs : objs[x] = r.means => x = p
        BY <2>7, <3>1 DEF KInv, Tree, Is
      <4> QED
        BY <2>7, <3>1, <4>1 DEF PathOf, Lives, Is
    <3> QED
      BY <2>7, <3>1, <3>2 DEF Victim
  <2> HIDE DEF p, q
  <2>10. /\ s0 \in RequestType /\ s0.path = q /\ s0.pc = Then(r.op) /\ s0.op = r.op /\ s0.ino = r.ino
         /\ s0.means = r.means /\ s0.found = r.found /\ s0.excl = r.excl /\ s0.shared = r.shared
         /\ s0.to = r.to
    BY <2>3, <2>4, Zenon DEF RequestType
  <2>25. Resolved(r) = s0
    BY <2>1 DEF p, q
  <2> HIDE DEF s0
  <2>11. Placed(s0) /\ s0.pc # "table" /\ s0.pc # "number"
    BY <2>4, <2>10 DEF Placed
  <2>12. InFolder(s0)
    BY <2>4, <2>5, <2>7, <2>10, <2>24 DEF InFolder, Named, Changes, Removes
  <2>13. Writes(s0)
    BY <2>8, <2>10 DEF Writes, Writing
  <2>14. Finds(s0) /\ ~Numbering(s0)
    BY <2>11 DEF Finds, Numbering
  <2>15. Dated(s0)
    <3>1. Nothing.id <= made
      BY DEF Nothing, IInv, TreeOK
    <3> QED
      BY <2>10, <3>1 DEF Dated, KInv, Old
  <2>16. \A s \in Thread \ {t} : Apart(s0, th[s]) /\ Apart(th[s], s0)
    BY <1>1, <2>10 DEF Apart, Free
  <2> DEFINE X == {}
  <2>17. SeenBy(s0) \subseteq Seen \union X
    <3>1. SeenBy(s0) \subseteq {told[n] : n \in DOMAIN told}
      BY <2>5, <2>10, <2>14 DEF SeenBy, Writing, Named, Changes, Removes
    <3> QED
      BY <3>1, InSeen
  <2>18. Takes(s0, Sure \union X)
    BY <2>9, <2>10 DEF Takes, Early
  <2>19. \A x \in DOMAIN objs : objs[x] \in X => \A s \in Thread \ {t} : ~InWay(s, x)
    OBVIOUS
  <2> HIDE DEF X
  <2>20. th' = [th EXCEPT ![t] = s0]
    BY <1>1, <2>1 DEF s0, p, q
  <2>21. th[t].pc # "table" /\ Past(t, Reach(s0))
    BY <1>1, <1>2, <2>25 DEF Past, Clear, MovesFolder
  <2> QED
    BY <1>1, <2>10, <2>11, <2>12, <2>13, <2>14, <2>15, <2>16, <2>17, <2>18, <2>19, <2>20, <2>21, ThreadOnly, Zenon
<1> QED
  BY <1>3, <1>4

LEMMA BeginNamedKeeps ==
    ASSUME ~raced', IInv, IInv', KInv, NEW t \in Thread,
           NEW op \in {"lookup", "create", "mkdir", "unlink", "rmdir"}, BeginNamed(t, op)
    PROVE  KInv'
<1>1. PICK n \in Known(TRUE), name \in Name :
        Begin(t, [Idle EXCEPT !.op = op, !.ino = n, !.name = name, !.means = told[n],
                     !.excl = IF op \in Changes THEN {told[n]} \union Victim(told[n], name) ELSE {},
                     !.shared = IF op = "lookup" THEN {told[n]} ELSE {}])
  BY Zenon DEF BeginNamed
<1> DEFINE e == IF op \in Changes THEN {told[n]} \union Victim(told[n], name) ELSE {}
           s == IF op = "lookup" THEN {told[n]} ELSE {}
           r == [Idle EXCEPT !.op = op, !.ino = n, !.name = name, !.means = told[n],
                     !.excl = e, !.shared = s]
<1>2. /\ n \in Nat /\ told[n] \in ObjType /\ e \subseteq ObjType /\ s \subseteq ObjType
      /\ n \in DOMAIN told
  BY KnownType, VictimType DEF Known
<1>3. op \in Ops
  BY DEF Ops, Changes, Removes
<1>4. /\ told[n] \in e \union s /\ (op \in Changes => told[n] \in e)
      /\ op \in Removes => Victim(told[n], name) \subseteq e
  BY DEF Changes, Removes
<1>5. Idle.found = Nothing
  BY DEF Idle
<1> HIDE DEF e, s
<1>6. /\ r \in RequestType /\ r.op = op /\ r.name = name /\ r.ino = n /\ r.means = told[n]
      /\ r.found = Nothing /\ r.excl = e /\ r.shared = s
  BY <1>2, <1>3, <1>5, IdleType, Zenon DEF RequestType
<1>7. Begin(t, r)
  BY <1>1 DEF e, s
<1> HIDE DEF r
<1>8. r.op # "none" /\ r.op # "rename" /\ r.op \notin {"write", "setattr"}
  BY <1>6
<1>9. /\ r.means \in {told[m] : m \in DOMAIN told} \union {Nothing}
      /\ r.found \in {told[m] : m \in DOMAIN told} \union {Nothing}
  BY <1>2, <1>6
<1>10. /\ r.ino \in Known(TRUE) /\ r.means = told[r.ino] /\ r.name \in Name
       /\ r.means \in r.excl \union r.shared
       /\ r.op \in Changes => r.means \in r.excl
  BY <1>4, <1>6
<1>11. r.op \in Removes => Victim(r.means, r.name) \subseteq r.excl
  BY <1>4, <1>6
<1> QED
  BY <1>6, <1>7, <1>8, <1>9, <1>10, <1>11, BeginKeeps

LEMMA BeginRenameKeeps ==
    ASSUME ~raced', IInv, IInv', KInv, NEW t \in Thread, BeginRename(t)
    PROVE  KInv'
<1>1. PICK n, m \in Known(TRUE), a, b \in Name, keep \in BOOLEAN :
        /\ <<n, a>> # <<m, b>>
        /\ Sensible("rename", Victim(told[n], a))
        /\ Begin(t, [Idle EXCEPT !.op = "rename", !.ino = n, !.name = a, !.to = <<m, b>>, !.keep = keep,
                        !.means = told[n], !.found = told[m],
                        !.excl = {told[n], told[m]} \union Victim(told[n], a) \union Victim(told[m], b)])
  BY Zenon DEF BeginRename
<1> DEFINE e == {told[n], told[m]} \union Victim(told[n], a) \union Victim(told[m], b)
           r == [Idle EXCEPT !.op = "rename", !.ino = n, !.name = a, !.to = <<m, b>>, !.keep = keep,
                     !.means = told[n], !.found = told[m], !.excl = e]
<1>2. /\ n \in Nat /\ m \in Nat /\ told[n] \in ObjType /\ told[m] \in ObjType /\ e \subseteq ObjType
      /\ n \in DOMAIN told /\ m \in DOMAIN told
  BY KnownType, VictimType DEF Known
<1>3. "rename" \in Ops /\ <<m, b>> \in Nat \X (Name \union {""})
  BY <1>2, Zenon DEF Ops, Changes, Removes
<1>4. told[n] \in e /\ told[m] \in e /\ Victim(told[n], a) \subseteq e
  OBVIOUS
<1> HIDE DEF e
<1>5. /\ r \in RequestType /\ r.op = "rename" /\ r.name = a /\ r.to = <<m, b>> /\ r.ino = n
      /\ r.means = told[n] /\ r.found = told[m] /\ r.excl = e
  BY <1>2, <1>3, IdleType, Zenon DEF RequestType
<1>6. Begin(t, r)
  BY <1>1 DEF e
<1> HIDE DEF r
<1>7. r.op # "none" /\ r.op \notin {"write", "setattr"}
  BY <1>5
<1>8. /\ r.means \in {told[k] : k \in DOMAIN told} \union {Nothing}
      /\ r.found \in {told[k] : k \in DOMAIN told} \union {Nothing}
  BY <1>2, <1>5
<1>9. /\ r.ino \in Known(TRUE) /\ r.means = told[r.ino] /\ r.name \in Name
      /\ r.means \in r.excl \union r.shared
      /\ r.op \in Changes => r.means \in r.excl
  BY <1>4, <1>5
<1>10. /\ r.to[1] \in Known(TRUE) /\ r.found = told[r.to[1]] /\ r.found \in r.excl
       /\ Victim(r.means, r.name) \subseteq r.excl
  <2>1. r.to[1] = m
    BY <1>5
  <2> QED
    BY <1>4, <1>5, <2>1, Zenon
<1> QED
  BY <1>5, <1>6, <1>7, <1>8, <1>9, <1>10, BeginKeeps

LEMMA BeginByNumberKeeps ==
    ASSUME ~raced', IInv, IInv', KInv, NEW t \in Thread,
           NEW op \in {"getattr", "write", "setattr", "opendir"}, BeginByNumber(t, op)
    PROVE  KInv'
<1>1. PICK n \in Known(op = "opendir") :
        Begin(t, [Idle EXCEPT !.op = op, !.ino = n, !.means = told[n],
                     !.excl = IF op \in {"write", "setattr"} THEN {told[n]} ELSE {},
                     !.shared = IF op = "opendir" THEN {told[n]} ELSE {}])
  BY Zenon DEF BeginByNumber
<1> DEFINE e == IF op \in {"write", "setattr"} THEN {told[n]} ELSE {}
           s == IF op = "opendir" THEN {told[n]} ELSE {}
           r == [Idle EXCEPT !.op = op, !.ino = n, !.means = told[n], !.excl = e, !.shared = s]
<1>2. /\ n \in Nat /\ told[n] \in ObjType /\ e \subseteq ObjType /\ s \subseteq ObjType
      /\ n \in DOMAIN told
  BY KnownType DEF Known
<1>3. op \in Ops
  BY DEF Ops
<1>4. op \in {"write", "setattr"} => told[n] \in e
  OBVIOUS
<1>5. Idle.found = Nothing
  BY DEF Idle
<1> HIDE DEF e, s
<1>6. /\ r \in RequestType /\ r.op = op /\ r.ino = n /\ r.means = told[n]
      /\ r.found = Nothing /\ r.excl = e /\ r.shared = s
  BY <1>2, <1>3, <1>5, IdleType, Zenon DEF RequestType
<1>7. Begin(t, r)
  BY <1>1 DEF e, s
<1> HIDE DEF r
<1>8. r.op # "none" /\ r.op # "rename" /\ ~Named(r.op) /\ r.op \notin Removes
  BY <1>6 DEF Named, Changes, Removes
<1>9. /\ r.means \in {told[m] : m \in DOMAIN told} \union {Nothing}
      /\ r.found \in {told[m] : m \in DOMAIN told} \union {Nothing}
  BY <1>2, <1>6
<1>10. r.op \in {"write", "setattr"} => r.ino \in DOMAIN told /\ r.means = told[r.ino] /\ r.means \in r.excl
  BY <1>2, <1>4, <1>6
<1> QED
  BY <1>6, <1>7, <1>8, <1>9, <1>10, BeginKeeps

LEMMA BeginReaddirKeeps ==
    ASSUME ~raced', IInv, IInv', KInv, NEW t \in Thread, BeginReaddir(t)
    PROVE  KInv'
<1>1. PICK l \in lists :
        Begin(t, [Idle EXCEPT !.op = "readdir", !.ino = l.ino, !.left = l.names, !.shared = {l.means}])
  BY Zenon DEF BeginReaddir
<1> DEFINE r == [Idle EXCEPT !.op = "readdir", !.ino = l.ino, !.left = l.names, !.shared = {l.means}]
<1>2. l.ino \in Nat /\ l.names \subseteq Name /\ l.means \in ObjType /\ "readdir" \in Ops
  BY DEF IInv, OthersOK, Ops
<1>3. Idle.found = Nothing /\ Idle.means = Nothing
  BY DEF Idle
<1>4. r \in RequestType /\ r.op = "readdir" /\ r.means = Nothing /\ r.found = Nothing
  BY <1>2, <1>3, IdleType, Zenon DEF RequestType
<1>5. Begin(t, r)
  BY <1>1
<1> HIDE DEF r
<1>6. r.op # "none" /\ r.op # "rename" /\ ~Named(r.op) /\ r.op \notin Removes \union {"write", "setattr"}
  BY <1>4 DEF Named, Changes, Removes
<1> QED
  BY <1>4, <1>5, <1>6, BeginKeeps

-----------------------------------------------------------------------------
\* A handler that goes on with its request, and has nothing new to lose.
LEMMA Onward ==
    ASSUME IInv, IInv', KInv, NEW t \in Thread, NEW r \in RequestType,
           th' = [th EXCEPT ![t] = r], UNCHANGED <<objs, made, table, told, astray>>,
           th[t].pc # "idle", th[t].pc # "table", r.pc # "idle", r.pc # "table",
           r.op = th[t].op, r.path = th[t].path, r.means = th[t].means, r.found = th[t].found,
           r.excl = th[t].excl, r.shared = th[t].shared,
           ~Writing(r), ~Numbering(r), Placed(r), InFolder(r), Past(t, Reach(r)),
           Early(r) => Early(th[t])
    PROVE  KInv'
<1>1. Writes(r) /\ Finds(r) /\ Dated(r)
  BY DEF Writes, Finds, Dated, KInv, Old
<1>2. \A s \in Thread \ {t} : Apart(r, th[s]) /\ Apart(th[s], r)
  BY DEF KInv, Locks, Apart
<1> DEFINE X == {}
<1>3. SeenBy(r) \subseteq Seen \union X
  <2>1. SeenBy(r) \subseteq SeenBy(th[t])
    BY DEF SeenBy
  <2> QED
    BY <2>1, InSeen
<1>4. Takes(r, Sure \union X)
  BY KInvParts DEF Takes
<1>5. \A q \in DOMAIN objs : objs[q] \in X => \A s \in Thread \ {t} : ~InWay(s, q)
  OBVIOUS
<1> HIDE DEF X
<1> QED
  BY <1>1, <1>2, <1>3, <1>4, <1>5, ThreadOnly, Zenon

LEMMA ResolveTargetKeeps ==
    ASSUME IInv, IInv', KInv, NEW t \in Thread, ResolveTarget(t)
    PROVE  KInv'
<1>1. /\ th[t].pc = "resolve" /\ th[t] \in RequestType /\ UNCHANGED <<objs, made, table, told, astray>>
      /\ Placed(th[t]) /\ InFolder(th[t])
  BY ThreadType, KInvParts DEF ResolveTarget, noted
<1>2. th[t].op = "rename" /\ Named(th[t].op) /\ th[t].to[2] \in Name
  BY <1>1 DEF Placed, Named, Changes, Removes, IInv, ThreadsOK
<1>3. CASE ~Knows(table, th[t].to[1])
  BY <1>1, <1>3, Rests DEF ResolveTarget
<1>4. CASE Knows(table, th[t].to[1])
  <2> DEFINE p == table.byIno[th[t].to[1]]
             q == Join(p, th[t].to[2])
             r == [[th[t] EXCEPT !.target = q] EXCEPT !.pc = IF th[t].keep THEN "check" ELSE "core"]
  <2>1. p \in Path
    BY <1>4, SoundFacts DEF IInv, Knows
  <2>2. q \in Path /\ q # Root /\ Parent(q) = p
    BY <1>2, <2>1, JoinMeans
  <2>3. Is(p, th[t].found)
    BY <1>1, <1>2 DEF InFolder
  <2>4. th' = [th EXCEPT ![t] = r]
    BY <1>4 DEF ResolveTarget, Goes
  <2> HIDE DEF p, q
  <2>5. /\ r \in RequestType /\ r.pc \in {"check", "core"} /\ r.op = th[t].op /\ r.path = th[t].path
        /\ r.means = th[t].means /\ r.found = th[t].found /\ r.excl = th[t].excl
        /\ r.shared = th[t].shared /\ r.target = q
    BY <1>1, <2>2, Zenon DEF RequestType
  <2> HIDE DEF r
  <2>6. Placed(r) /\ ~Writing(r) /\ ~Numbering(r) /\ (Early(r) => Early(th[t]))
    BY <1>1, <1>2, <2>5 DEF Placed, Writing, Numbering, Early, Removes
  <2>7. InFolder(r)
    BY <1>1, <1>2, <2>2, <2>3, <2>5 DEF InFolder
  <2>8. Past(t, Reach(r))
    <3>1. Reach(r) = {th[t].path, q} /\ th[t].path \in Reach(th[t]) /\ p \in Reach(th[t])
      BY <1>1, <1>2, <1>4, <2>5 DEF Reach, Knows, p
    <3>2. ASSUME NEW s \in Thread \ {t}, th[s].pc = "table", Clear(s)
          PROVE  ~IsWithin(q, th[s].path) /\ ~IsWithin(q, th[s].target)
      <4>1. ~IsWithin(p, th[s].path) /\ ~IsWithin(p, th[s].target)
        BY <3>1, <3>2, PastOwn DEF Past
      <4>2. Named(th[s].op) /\ InFolder(th[s]) /\ th[s].op = "rename" /\ Apart(th[s], th[t])
        BY <3>2, KInvParts DEF Clear, Named, Changes, Removes, KInv, Locks
      <4>3. th[t].found \notin th[s].excl
        BY <1>1, <1>2, <3>2, <4>2 DEF Apart, InFolder
      <4>4. q # th[s].path /\ q # th[s].target
        BY <2>2, <2>3, <3>2, <4>2, <4>3 DEF InFolder, Is, Changes, Removes
      <4> QED
        BY <2>2, <4>1, <4>4, ThreadType, ParentWithin
    <3>3. Past(t, Reach(th[t]))
      BY PastOwn
    <3> QED
      BY <3>1, <3>2, <3>3 DEF Past
  <2> QED
    BY <1>1, <2>4, <2>5, <2>6, <2>7, <2>8, Onward, Zenon
<1> QED
  BY <1>3, <1>4

LEMMA CheckTargetKeeps ==
    ASSUME IInv, IInv', KInv, NEW t \in Thread, CheckTarget(t)
    PROVE  KInv'
<1>1. /\ th[t].pc = "check" /\ th[t] \in RequestType /\ UNCHANGED <<objs, made, table, told, astray>>
      /\ Placed(th[t]) /\ InFolder(th[t])
  BY ThreadType, KInvParts DEF CheckTarget, noted
<1>2. CASE Live(th[t].target)
  BY <1>1, <1>2, Rests DEF CheckTarget
<1>3. CASE ~Live(th[t].target)
  <2> DEFINE r == [th[t] EXCEPT !.pc = "core"]
  <2>1. th' = [th EXCEPT ![t] = r]
    BY <1>3 DEF CheckTarget, Goes
  <2>2. /\ r \in RequestType /\ r.pc = "core" /\ r.op = th[t].op /\ r.path = th[t].path
        /\ r.means = th[t].means /\ r.found = th[t].found /\ r.excl = th[t].excl
        /\ r.shared = th[t].shared /\ r.target = th[t].target
    BY <1>1, Zenon DEF RequestType
  <2> HIDE DEF r
  <2>3. Placed(r) /\ ~Writing(r) /\ ~Numbering(r) /\ (Early(r) => Early(th[t]))
    BY <1>1, <2>2 DEF Placed, Writing, Numbering, Early, Removes
  <2>4. InFolder(r)
    BY <1>1, <2>2 DEF InFolder
  <2>5. Past(t, Reach(r))
    <3>1. Reach(r) = Reach(th[t])
      BY <1>1, <2>2, <2>3 DEF Reach, Writing
    <3> QED
      BY <3>1, PastOwn
  <2> QED
    BY <1>1, <2>1, <2>2, <2>3, <2>4, <2>5, Onward, Zenon
<1> QED
  BY <1>2, <1>3

\* Two requests for names in one folder are not for one name, if one of them changes it.
LEMMA OwnName ==
    ASSUME IInv, KInv, NEW s \in Thread, NEW t \in Thread, s # t,
           Named(th[t].op), th[s].op \in Changes, NEW p,
           \/ p = th[s].path
           \/ th[s].op = "rename" /\ th[s].pc # "resolve" /\ p = th[s].target
    PROVE  /\ p # th[t].path
           /\ th[t].op = "rename" /\ th[t].pc # "resolve" => p # th[t].target
<1>1. /\ Placed(th[s]) /\ InFolder(th[s]) /\ Placed(th[t]) /\ InFolder(th[t]) /\ Named(th[s].op)
  BY KInvParts DEF Named
<1>2. PICK o : Is(Parent(p), o) /\ o \in th[s].excl
  BY <1>1 DEF InFolder
<1>3. Apart(th[s], th[t]) /\ th[s].pc # "idle" /\ th[t].pc # "idle"
  BY <1>1 DEF KInv, Locks, Placed, Named, Changes, Removes
<1>4. o \notin th[t].excl \union th[t].shared
  BY <1>2, <1>3 DEF Apart
<1> QED
  BY <1>1, <1>2, <1>4 DEF InFolder, Is, Named, Changes, Removes

LEMMA AttrKeeps ==
    ASSUME IInv, IInv', KInv, NEW t \in Thread, Attr(t)
    PROVE  KInv'
<1>1. /\ th[t].pc = "attr" /\ th[t] \in RequestType /\ UNCHANGED <<objs, made, table, told, astray>>
      /\ Placed(th[t]) /\ InFolder(th[t])
  BY ThreadType, KInvParts DEF Attr, noted
<1>2. CASE ~Live(th[t].path)
  BY <1>1, <1>2, Rests DEF Attr
<1>3. CASE Live(th[t].path)
  <2> DEFINE o == objs[th[t].path]
             r == [[th[t] EXCEPT !.found = o] EXCEPT !.pc = "number"]
  <2>1. th' = [th EXCEPT ![t] = r]
    BY <1>3 DEF Attr, Goes
  <2>2. o \in ObjType /\ Is(th[t].path, o) /\ o.id <= made
    BY <1>3 DEF IInv, TreeOK, Live, Is, KInv, Old
  <2> HIDE DEF o
  <2>3. /\ r \in RequestType /\ r.pc = "number" /\ r.op = th[t].op /\ r.path = th[t].path
        /\ r.means = th[t].means /\ r.found = o /\ r.excl = th[t].excl
        /\ r.shared = th[t].shared
    BY <1>1, <2>2, Zenon DEF RequestType
  <2> HIDE DEF r
  <2>4. r.op \notin Removes
    BY <1>1, <2>3 DEF Placed, Removes
  <2>5. Placed(r) /\ ~Writing(r) /\ ~Early(r)
    BY <1>1, <2>3, <2>4 DEF Placed, Writing, Early, Removes
  <2>6. InFolder(r)
    BY <1>1, <2>3, <2>4 DEF InFolder, Removes
  <2>7. Writes(r) /\ Finds(r) /\ Dated(r)
    BY <2>2, <2>3, <2>5 DEF Writes, Finds, Dated, KInv, Old
  <2>8. \A s \in Thread \ {t} : Apart(r, th[s]) /\ Apart(th[s], r)
    BY <1>1, <2>3 DEF KInv, Locks, Apart
  <2> DEFINE X == IF Named(th[t].op) THEN {o} ELSE {}
  <2>9. SeenBy(r) \subseteq Seen \union X
    BY <2>3, <2>4, <2>5, InSeen DEF SeenBy, Numbering, Removes
  <2>10. Takes(r, Sure \union X)
    BY <2>5 DEF Takes
  <2>11. ASSUME NEW q \in DOMAIN objs, objs[q] \in X, NEW s \in Thread \ {t}
         PROVE  ~InWay(s, q)
    <3>1. Named(th[t].op) /\ q = th[t].path
      BY <2>2, <2>11 DEF KInv, Tree, Is
    <3>2. Spared(th, s, q)
      BY <3>1, Untouched
    <3>3. Early(th[s]) => q # th[s].path
      BY <3>1, OwnName DEF Early, Changes
    <3> QED
      BY <3>2, <3>3 DEF InWay
  <2>12. Past(t, Reach(r))
    <3>1. Reach(r) = Reach(th[t])
      BY <1>1, <2>3, <2>4, <2>5 DEF Reach, Writing, Removes
    <3> QED
      BY <3>1, PastOwn
  <2> HIDE DEF X
  <2> QED
    BY <1>1, <2>1, <2>3, <2>5, <2>6, <2>7, <2>8, <2>9, <2>10, <2>11, <2>12, ThreadOnly, Zenon
<1> QED
  BY <1>2, <1>3

LEMMA RefusedKeeps ==
    ASSUME IInv, IInv', KInv, NEW t \in Thread, Refused(t) \/ Write(t) \/ OpenDir(t)
    PROVE  KInv'
BY Rests DEF Refused, Write, Overwrites, OpenDir, noted

LEMMA SetAttrKeeps ==
    ASSUME IInv, IInv', KInv, NEW t \in Thread, SetAttr(t)
    PROVE  KInv'
<1>1. /\ th[t].pc = "core" /\ th[t].op = "setattr" /\ th[t] \in RequestType
      /\ UNCHANGED <<objs, made, table, told, astray>> /\ Goes(t, th[t], "attr")
  BY ThreadType DEF SetAttr, Overwrites, noted
<1> DEFINE r == [th[t] EXCEPT !.pc = "attr"]
<1>2. th' = [th EXCEPT ![t] = r]
  BY <1>1 DEF Goes
<1>3. /\ r \in RequestType /\ r.pc = "attr" /\ r.op = th[t].op /\ r.path = th[t].path
      /\ r.means = th[t].means /\ r.found = th[t].found /\ r.excl = th[t].excl
      /\ r.shared = th[t].shared
  BY <1>1, ZenonT(40) DEF RequestType
<1> HIDE DEF r
<1>4. Placed(r) /\ ~Writing(r) /\ ~Numbering(r) /\ ~Early(r)
  BY <1>1, <1>3 DEF Placed, Writing, Numbering, Early, Removes
<1>5. InFolder(r)
  BY <1>1, <1>3 DEF InFolder, Named, Changes, Removes
<1>6. Past(t, Reach(r))
  BY <1>1, <1>3, <1>4 DEF Past, Reach, Named, Changes, Removes
<1> QED
  BY <1>1, <1>2, <1>3, <1>4, <1>5, <1>6, Onward, Zenon

LEMMA NothingKeeps ==
    ASSUME KInv, UNCHANGED <<objs, made, table, told, th, astray>>
    PROVE  KInv'
<1>1. Tree' /\ Old' /\ Locks' /\ Files'
  BY DEF KInv, Tree, Old, Locks, Dated, Apart, Files
<1>2. ToldLeads'
  BY DEF KInv, ToldLeads, Lives, Leads, Sits, Brings, Over, Still, Spared
<1>3. ASSUME NEW t \in Thread  PROVE (Placed(th[t]) /\ InFolder(th[t]) /\ Finds(th[t]))'
  BY DEF KInv, Placed, InFolder, Finds, Is, Knows, Lives, Named, Numbering
<1>4. ASSUME NEW t \in Thread  PROVE Writes(th[t])'
  BY DEF KInv, Writes, Is, Lives, Writing, Leads, Sits, Brings, Over, Still, Spared
<1>5. Sure' = Sure /\ Seen' = Seen
  BY DEF Sure, Seen, SeenBy, Named, Writing, Numbering
<1>6. ASSUME NEW t \in Thread  PROVE Left(t)' /\ Takes(th[t], Sure)'
  BY <1>5 DEF KInv, Left, Takes, Early
<1>7. ASSUME NEW t \in Thread  PROVE Clear(t)' <=> Clear(t)
  BY DEF Clear, Far, Reach, Named, Writing, IsDir, Live
<1>8. ASSUME NEW t \in Thread  PROVE Come(t)'
  BY <1>5, <1>7 DEF KInv, Come
<1> QED
  BY <1>1, <1>2, <1>3, <1>4, <1>6, <1>8 DEF KInv

-----------------------------------------------------------------------------
\* A number is added to the table.
LEMMA AssignedGrows ==
    ASSUME NEW t, Sound(t), NEW p \in Path
    PROVE  /\ \A n \in DOMAIN t.byIno : n \in DOMAIN Assigned(t, p).byIno /\ Assigned(t, p).byIno[n] = t.byIno[n]
           /\ t.next <= Assigned(t, p).next
           /\ InoFor(t, p) \in DOMAIN Assigned(t, p).byIno /\ Assigned(t, p).byIno[InoFor(t, p)] = p
<1>1. CASE p \in DOMAIN t.byPath
  BY <1>1, SoundFacts DEF Assigned, InoFor
<1>2. CASE p \notin DOMAIN t.byPath
  <2>1. Assigned(t, p) = [byIno |-> Insert(t.byIno, t.next, p), byPath |-> Insert(t.byPath, p, t.next),
                          next |-> t.next + 1]
    BY <1>2 DEF Assigned
  <2>2. t.next \notin DOMAIN t.byIno /\ t.next <= t.next + 1
    BY SoundFacts
  <2>3. InoFor(t, p) = t.next
    BY <2>1 DEF InoFor, Insert
  <2> QED
    BY <2>1, <2>2, <2>3 DEF Insert
<1> QED
  BY <1>1, <1>2

LEMMA AddedLonger ==
    ASSUME IInv, NEW p \in Path, table' = Assigned(table, p)
    PROVE  Longer
BY AssignedGrows DEF Longer, IInv

\* ... while a thread steps that neither begins nor ends to be pending.
LEMMA LongerLeads ==
    ASSUME IInv, Longer, UNCHANGED objs, NEW t \in Thread, NEW r,
           th' = [th EXCEPT ![t] = r], th[t].pc # "table", r.pc # "table"
    PROVE  \A n, o : Leads(n, o) => Leads(n, o)'
<1>1. \A n, o : Leads(n, o) => Sits(th', table, objs, n, o)
  BY SitsKept, Zenon DEF Leads, IInv, ThreadsOK
<1> QED
  BY <1>1 DEF Leads, Sits, Longer, Brings, Over, Still, Spared

\* readdir numbers a path.
LEMMA NumbersKeeps ==
    ASSUME IInv, IInv', KInv, NEW t \in Thread, th[t].pc \in {"dots", "names"},
           NEW p \in Path, table' = Assigned(table, p), UNCHANGED <<objs, made, told, astray>>,
           NEW r \in RequestType, th' = [th EXCEPT ![t] = r],
           r.pc = "names", r.op = th[t].op, r.path = th[t].path, r.means = th[t].means,
           r.found = th[t].found, r.excl = th[t].excl, r.shared = th[t].shared
    PROVE  KInv'
<1>1. Placed(th[t]) /\ InFolder(th[t])
  BY KInvParts
<1>2. Longer
  BY AddedLonger
<1>3. ToldLeads'
  <2>1. \A n, o : Leads(n, o) => Leads(n, o)'
    BY <1>2, LongerLeads, Zenon
  <2> QED
    BY <2>1 DEF KInv, ToldLeads, Lives
<1>4. Placed(r) /\ ~Writing(r) /\ ~Numbering(r) /\ ~Early(r)
  BY <1>1 DEF Placed, Writing, Numbering, Early, Removes
<1>5. InFolder(r) /\ Writes(r) /\ Finds(r) /\ Dated(r)
  BY <1>1, <1>4 DEF InFolder, Writes, Finds, Dated, KInv, Old, Placed
<1>6. \A s \in Thread \ {t} : Apart(r, th[s]) /\ Apart(th[s], r)
  BY DEF KInv, Locks, Apart
<1> DEFINE X == {}
<1>7. SeenBy(r) \subseteq Seen \union X
  <2>1. SeenBy(r) \subseteq SeenBy(th[t])
    BY <1>4 DEF SeenBy
  <2> QED
    BY <2>1, InSeen
<1>8. {told'[n] : n \in DOMAIN told'} \subseteq Seen \union X
  BY InSeen
<1>9. \A n \in DOMAIN told' : told'[n].id <= made /\ n < table'.next
  BY <1>2 DEF KInv, Old, Longer, IInv, Sound, TableType, ToldOK
<1>10. Takes(r, Sure \union X)
  BY <1>4 DEF Takes
<1>11. \A q \in DOMAIN objs : objs[q] \in X => \A s \in Thread \ {t} : ~InWay(s, q)
  OBVIOUS
<1>12. Past(t, Reach(r))
  <2>1. Reach(r) \subseteq Reach(th[t])
    BY <1>1, <1>4 DEF Reach, Placed, Removes
  <2> QED
    BY <2>1, PastOwn DEF Past
<1> HIDE DEF X
<1> QED
  BY <1>2, <1>3, <1>4, <1>5, <1>6, <1>7, <1>8, <1>9, <1>10, <1>11, <1>12, Grows, Zenon

LEMMA DotsKeeps ==
    ASSUME IInv, IInv', KInv, NEW t \in Thread, Dots(t)
    PROVE  KInv'
<1> DEFINE r == [th[t] EXCEPT !.pc = "names"]
<1>1. /\ th[t].pc = "dots" /\ th[t] \in RequestType /\ th' = [th EXCEPT ![t] = r]
      /\ table' = Assigned(table, Parent(th[t].path)) /\ UNCHANGED <<objs, made, told, astray>>
  BY ThreadType DEF Dots, Goes, noted
<1>2. /\ r \in RequestType /\ r.pc = "names" /\ r.op = th[t].op /\ r.path = th[t].path
      /\ r.means = th[t].means /\ r.found = th[t].found /\ r.excl = th[t].excl
      /\ r.shared = th[t].shared
  BY <1>1, Zenon DEF RequestType
<1>3. Parent(th[t].path) \in Path
  BY ThreadType, ParentPath
<1> HIDE DEF r
<1> QED
  BY <1>1, <1>2, <1>3, NumbersKeeps, Zenon

LEMMA NextNameKeeps ==
    ASSUME IInv, IInv', KInv, NEW t \in Thread, NextName(t)
    PROVE  KInv'
<1>1. th[t].pc = "names" /\ th[t] \in RequestType /\ UNCHANGED <<objs, made, told, astray>>
  BY ThreadType DEF NextName, noted
<1>2. CASE th[t].left = {}
  BY <1>1, <1>2, Rests DEF NextName
<1>3. CASE th[t].left # {}
  <2>1. PICK n \in th[t].left : /\ table' = Assigned(table, Join(th[t].path, n))
                               /\ Goes(t, [th[t] EXCEPT !.left = @ \ {n}], "names")
    BY <1>3 DEF NextName
  <2> DEFINE r == [[th[t] EXCEPT !.left = @ \ {n}] EXCEPT !.pc = "names"]
  <2>2. th' = [th EXCEPT ![t] = r]
    BY <2>1 DEF Goes
  <2>3. /\ r \in RequestType /\ r.pc = "names" /\ r.op = th[t].op /\ r.path = th[t].path
        /\ r.means = th[t].means /\ r.found = th[t].found /\ r.excl = th[t].excl
        /\ r.shared = th[t].shared
    BY <1>1, Zenon DEF RequestType
  <2>4. Join(th[t].path, n) \in Path
    BY <1>1, JoinPath, Zenon DEF RequestType
  <2> HIDE DEF r
  <2> QED
    BY <1>1, <2>1, <2>2, <2>3, <2>4, NumbersKeeps, Zenon
<1> QED
  BY <1>2, <1>3

\* What the kernel is told is where it was found, or is no more.
LEMMA AnswerKeeps ==
    ASSUME IInv, IInv', KInv, NEW t \in Thread, Answer(t)
    PROVE  KInv'
<1>1. /\ th[t].pc = "number" /\ th' = [th EXCEPT ![t] = Idle] /\ UNCHANGED <<objs, made, astray>>
      /\ table' = Assigned(table, th[t].path) /\ th[t].path \in Path
      /\ told' = IF Named(th[t].op) THEN Insert(told, InoFor(table, th[t].path), th[t].found) ELSE told
      /\ Finds(th[t])
  BY ThreadType, KInvParts DEF Answer, Done, noted
<1> DEFINE k == InoFor(table, th[t].path)
<1>2. /\ Idle \in RequestType /\ Idle.pc = "idle" /\ Idle.op = "none"
      /\ Idle.means = Nothing /\ Idle.found = Nothing /\ Idle.excl = {} /\ Idle.shared = {}
  BY IdleType, Zenon DEF Idle
<1> HIDE DEF Idle
<1>3. Longer
  BY <1>1, AddedLonger
<1>4. k \in DOMAIN table'.byIno /\ table'.byIno[k] = th[t].path
  BY <1>1, AssignedGrows DEF IInv
<1>5. k < table'.next
  BY <1>4, SoundFacts DEF IInv
<1> HIDE DEF k
<1>6. \A n \in DOMAIN told' : \/ n \in DOMAIN told /\ told'[n] = told[n]
                              \/ n = k /\ told'[n] = th[t].found /\ Named(th[t].op)
  BY <1>1 DEF Insert, k
<1>7. ASSUME NEW n \in DOMAIN told', Lives(told'[n]), told'[n] \notin astray  PROVE Sits(th', table', objs, n, told'[n])
  <2>1. CASE n \in DOMAIN told /\ told'[n] = told[n]
    <3>1. Leads(n, told[n])
      BY <1>7, <2>1 DEF KInv, ToldLeads
    <3>2. Sits(th', table, objs, n, told[n])
      BY <1>1, <1>2, <3>1, SitsKept, Zenon DEF Leads, IInv, ThreadsOK
    <3> QED
      BY <1>3, <2>1, <3>2 DEF Sits, Longer
  <2>2. CASE n = k /\ told'[n] = th[t].found /\ Named(th[t].op)
    <3>1. Is(th[t].path, th[t].found)
      BY <1>1, <1>7, <2>2 DEF Finds, Numbering
    <3>2. ASSUME NEW s \in Thread  PROVE Spared(th', s, th[t].path)
      <4>1. CASE s = t
        BY <1>1, <1>2, <4>1 DEF Spared, IInv, ThreadsOK
      <4>2. CASE s # t
        <5>1. Spared(th, s, th[t].path)
          BY <2>2, <4>2, Untouched
        <5> QED
          BY <1>1, <4>2, <5>1 DEF Spared, IInv, ThreadsOK
      <4> QED
        BY <4>1, <4>2
    <3>3. Brings(th', th[t].path, th[t].path)
      BY <3>2 DEF Brings, Still
    <3> QED
      BY <1>4, <2>2, <3>1, <3>3 DEF Sits, Is
  <2> QED
    BY <1>6, <2>1, <2>2
<1>8. ToldLeads'
  BY <1>1, <1>7 DEF ToldLeads, Lives, Leads, Sits, Brings, Over, Still, Spared
<1>9. ~Named(Idle.op) /\ Idle.op # "rename" /\ ~Writing(Idle) /\ ~Numbering(Idle) /\ ~Early(Idle)
  BY <1>2 DEF Named, Writing, Numbering, Early, Changes, Removes
<1>10. Placed(Idle) /\ InFolder(Idle) /\ Writes(Idle) /\ Finds(Idle) /\ SeenBy(Idle) = {}
  BY <1>2, <1>9 DEF Placed, InFolder, Writes, Finds, SeenBy, Removes
<1>11. Dated(Idle)
  BY <1>2 DEF Dated, Nothing, IInv, TreeOK
<1>12. \A s \in Thread \ {t} : Apart(Idle, th[s]) /\ Apart(th[s], Idle)
  BY <1>2 DEF Apart
<1> DEFINE X == {}
<1>13. SeenBy(Idle) \subseteq Seen \union X /\ Takes(Idle, Sure \union X)
  BY <1>9, <1>10 DEF Takes
<1>14. \A n \in DOMAIN told' : told'[n] \in Seen
  BY <1>1, <1>6, InSeen DEF Numbering
<1>15. {told'[n] : n \in DOMAIN told'} \subseteq Seen \union X
  BY <1>14
<1>16. \A n \in DOMAIN told' : told'[n].id <= made /\ n < table'.next
  <2>1. \A n \in DOMAIN told : told[n].id <= made /\ n < table.next
    BY DEF KInv, Old
  <2>2. th[t].found.id <= made
    BY DEF KInv, Old, Dated
  <2>3. table.next \in Nat /\ table'.next \in Nat /\ table.next <= table'.next
    BY <1>3 DEF IInv, Sound, TableType, Longer
  <2>4. \A n \in DOMAIN told : n \in Nat
    BY DEF IInv, ToldOK
  <2> QED
    BY <1>5, <1>6, <2>1, <2>2, <2>3, <2>4
<1>17. \A q \in DOMAIN objs : objs[q] \in X => \A s \in Thread \ {t} : ~InWay(s, q)
  OBVIOUS
<1>18. Past(t, Reach(Idle))
  BY <1>9 DEF Reach, Past
<1> HIDE DEF X
<1> QED
  BY <1>1, <1>2, <1>3, <1>8, <1>9, <1>10, <1>11, <1>12, <1>13, <1>15, <1>16, <1>17, <1>18, Grows, Zenon

-----------------------------------------------------------------------------
\* A number leads to one object, and one number to an object.
LEMMA EndsBrings ==
    ASSUME IInv, KInv, NEW p \in Path, NEW q
    PROVE  q \in Ends(p) <=> Brings(th, p, q)
<1> DEFINE R == {t \in Pending({"rename"}) : IsWithin(p, th[t].path)}
<1>1. \A t \in Thread : th[t].pc = "table" => th[t].op \in Removes
  BY KInvParts DEF Placed
<1>2. \A t : t \in R <=> t \in Thread /\ Over(th, t, p)
  BY DEF Pending, Over
<1>3. CASE R # {}
  <2>1. Pending(Removes) # {}
    BY <1>3 DEF Pending, Removes
  <2>2. Ends(p) = {Rebase(p, th[t].path, th[t].target) : t \in R}
    BY <1>3, <2>1 DEF Ends, Catching
  <2>3. ~Still(th, p)
    BY <1>2, <1>3 DEF Still, Spared, Over
  <2> HIDE DEF R
  <2> QED
    BY <1>2, <2>2, <2>3 DEF Brings
<1>4. CASE R = {}
  <2>1. \A t \in Thread : ~Over(th, t, p)
    BY <1>2, <1>4
  <2>2. CASE Still(th, p)
    <3>1. /\ \A t \in Pending({"unlink", "rmdir"}) : ~IsWithin(p, th[t].path)
          /\ \A t \in Pending({"rename"}) : ~IsWithin(p, th[t].target)
      BY <2>2 DEF Pending, Still, Spared
    <3>2. Ends(p) = {p}
      BY <1>4, <3>1 DEF Ends, Catching
    <3> QED
      BY <2>1, <2>2, <3>2 DEF Brings
  <2>3. CASE ~Still(th, p)
    <3>1. PICK t \in Thread : ~Spared(th, t, p)
      BY <2>3 DEF Still
    <3>2. th[t].pc = "table" /\ th[t].op \in Removes
      BY <1>1, <3>1 DEF Spared
    <3>3. \/ th[t].op \in {"unlink", "rmdir"} /\ IsWithin(p, th[t].path)
          \/ th[t].op = "rename" /\ IsWithin(p, th[t].target)
      BY <2>1, <3>1, <3>2 DEF Spared, Over, Removes
    <3>4. Pending(Removes) # {}
      BY <3>2 DEF Pending
    <3>5. Ends(p) = {}
      BY <1>4, <3>2, <3>3, <3>4 DEF Ends, Catching, Pending
    <3> QED
      BY <2>1, <2>3, <3>5 DEF Brings
  <2> QED
    BY <2>2, <2>3
<1> QED
  BY <1>3, <1>4

\* Where a path comes to lies at the target, and no other pending call reaches there.
LEMMA OverTarget ==
    ASSUME IInv, KInv, NEW t \in Thread, NEW p \in Path, Over(th, t, p)
    PROVE  /\ Rebase(p, th[t].path, th[t].target) \in Path
           /\ IsWithin(Rebase(p, th[t].path, th[t].target), th[t].target)
           /\ Rebase(Rebase(p, th[t].path, th[t].target), th[t].target, th[t].path) = p
BY ThreadType, RebaseRoundTrip DEF Over

LEMMA BringsOnce ==
    ASSUME IInv, KInv, NEW p \in Path, NEW q, NEW x, Brings(th, p, q), Brings(th, p, x)
    PROVE  q = x
<1>1. ASSUME NEW s \in Thread, NEW t \in Thread, Over(th, s, p), Over(th, t, p)  PROVE s = t
  <2> SUFFICES ASSUME s # t  PROVE FALSE
    OBVIOUS
  <2>1. ~IsWithin(th[s].path, th[t].path) /\ ~IsWithin(th[t].path, th[s].path)
    BY <1>1, Spread DEF Over, Spared
  <2> QED
    BY <1>1, <2>1, ThreadType, WithinOrder DEF Over
<1>2. \A t \in Thread : Over(th, t, p) => ~Still(th, p)
  BY DEF Over, Still, Spared
<1> QED
  BY <1>1, <1>2 DEF Brings

LEMMA BringsApart ==
    ASSUME IInv, KInv, NEW p \in Path, NEW x \in Path, NEW q, Brings(th, p, q), Brings(th, x, q)
    PROVE  p = x
<1>1. ASSUME NEW s \in Thread, NEW t \in Thread, Over(th, s, p), Over(th, t, x),
             q = Rebase(p, th[s].path, th[s].target), q = Rebase(x, th[t].path, th[t].target)
      PROVE  p = x
  <2>1. CASE s = t
    <3>1. p = Rebase(q, th[s].target, th[s].path)
      BY <1>1, OverTarget, Zenon
    <3>2. x = Rebase(q, th[t].target, th[t].path)
      BY <1>1, OverTarget
    <3> QED
      BY <2>1, <3>1, <3>2
  <2>2. CASE s # t
    <3>1. ~IsWithin(th[s].target, th[t].target) /\ ~IsWithin(th[t].target, th[s].target)
      BY <1>1, <2>2, Spread DEF Over, Spared
    <3>2. q \in Path /\ IsWithin(q, th[s].target) /\ IsWithin(q, th[t].target)
      BY <1>1, OverTarget, Zenon
    <3> QED
      BY <3>1, <3>2, ThreadType, WithinOrder
  <2> QED
    BY <2>1, <2>2
<1>2. ASSUME NEW y \in Path, NEW t \in Thread, Over(th, t, y), q = Rebase(y, th[t].path, th[t].target)
      PROVE  ~Still(th, q)
  BY <1>2, OverTarget DEF Over, Still, Spared
<1>3. CASE p = q /\ Still(th, q)
  BY <1>2, <1>3 DEF Brings
<1>4. ASSUME NEW s \in Thread, Over(th, s, p), q = Rebase(p, th[s].path, th[s].target)  PROVE p = x
  <2>1. ~Still(th, q)
    BY <1>2, <1>4
  <2>2. PICK t \in Thread : Over(th, t, x) /\ q = Rebase(x, th[t].path, th[t].target)
    BY <2>1 DEF Brings
  <2> QED
    BY <1>1, <1>4, <2>2, Zenon
<1> QED
  BY <1>3, <1>4 DEF Brings

LEMMA LeadsOnce ==
    ASSUME IInv, KInv, NEW n, NEW m, NEW o, NEW u, Leads(n, o)
    PROVE  /\ Leads(n, u) => u = o
           /\ Leads(m, o) => m = n
<1>1. \A k \in DOMAIN table.byIno : table.byIno[k] \in Path
  BY SoundFacts DEF IInv
<1>2. Leads(n, u) => u = o
  BY <1>1, BringsOnce DEF Leads, Sits
<1>3. ASSUME Leads(m, o)  PROVE m = n
  <2>1. PICK x \in DOMAIN objs : n \in DOMAIN table.byIno /\ Brings(th, table.byIno[n], x) /\ objs[x] = o
    BY DEF Leads, Sits
  <2>2. PICK y \in DOMAIN objs : m \in DOMAIN table.byIno /\ Brings(th, table.byIno[m], y) /\ objs[y] = o
    BY <1>3 DEF Leads, Sits
  <2>3. x = y
    BY <2>1, <2>2 DEF KInv, Tree
  <2>4. table.byIno[n] = table.byIno[m]
    BY <1>1, <2>1, <2>2, <2>3, BringsApart
  <2> QED
    BY <2>1, <2>2, <2>4, SoundFacts DEF IInv
<1> QED
  BY <1>2, <1>3

\* LeadsTo is the function that Leads describes.
LEMMA LeadsToMeans ==
    ASSUME IInv, KInv, NEW n, NEW o
    PROVE  Leads(n, o) <=> n \in DOMAIN LeadsTo /\ LeadsTo[n] = o
<1> DEFINE end  == [m \in DOMAIN table.byIno |-> {q \in Ends(table.byIno[m]) : Live(q)}]
           dom == {m \in DOMAIN end : end[m] # {}}
<1>1. LeadsTo = [m \in dom |-> objs[CHOOSE q \in end[m] : TRUE]]
  BY DEF LeadsTo
<1>2. \A m \in DOMAIN table.byIno : table.byIno[m] \in Path
  BY SoundFacts DEF IInv
<1>3. \A m, q : m \in DOMAIN end /\ q \in end[m] <=>
                  m \in DOMAIN table.byIno /\ q \in DOMAIN objs /\ Brings(th, table.byIno[m], q)
  BY <1>2, EndsBrings DEF Live
<1>4. DOMAIN LeadsTo = dom
  BY <1>1
<1>5. ASSUME n \in dom  PROVE \E q \in DOMAIN objs : Brings(th, table.byIno[n], q) /\ LeadsTo[n] = objs[q]
  <2>1. LeadsTo[n] = objs[CHOOSE q \in end[n] : TRUE]
    BY <1>1, <1>5
  <2>2. (CHOOSE q \in end[n] : TRUE) \in end[n]
    BY <1>5
  <2> HIDE DEF end, dom
  <2> QED
    BY <1>3, <1>5, <2>1, <2>2, Zenon DEF dom
<1>6. ASSUME Leads(n, o)  PROVE n \in dom
  BY <1>3, <1>6 DEF Leads, Sits
<1>7. n \in dom => n \in DOMAIN table.byIno
  OBVIOUS
<1> HIDE DEF end, dom
<1>8. n \in dom => Leads(n, LeadsTo[n])
  BY <1>5, <1>7 DEF Leads, Sits
<1> QED
  BY <1>4, <1>6, <1>8, LeadsOnce

\* So the table keeps its word as it stands.
LEMMA SoundNames ==
    ASSUME IInv, KInv
    PROVE  N!Sound(LeadsTo, {objs[p] : p \in DOMAIN objs})
<1>1. \A n \in DOMAIN LeadsTo : Leads(n, LeadsTo[n])
  BY LeadsToMeans
<1>2. \A n \in DOMAIN LeadsTo : LeadsTo[n] \in {objs[p] : p \in DOMAIN objs}
  BY <1>1 DEF Leads, Sits
<1>3. \A m, n \in DOMAIN LeadsTo : LeadsTo[m] = LeadsTo[n] => m = n
  BY <1>1, LeadsOnce
<1> QED
  BY <1>2, <1>3 DEF N!Sound

-----------------------------------------------------------------------------
\* What a step that changes the tree owes: a number stays with what stays, the requests
\* of other threads find their folders and their files where they were, and what is
\* sure at a new place is in no other's way.
Keeps == \A n, o : Leads(n, o) /\ Lives(o)' /\ o \notin astray' => Leads(n, o)'

Steps(r, u) ==
    /\ r.pc = "core" /\ u.pc \in {"attr", "table"}
    /\ u.op = r.op /\ u.path = r.path /\ u.target = r.target /\ u.means = r.means /\ u.found = r.found
    /\ u.excl = r.excl /\ u.shared = r.shared

Folder(r, o) ==
    /\ Named(r.op) /\ (o = r.means \/ (r.op = "rename" /\ o = r.found))
    /\ o \in Sure /\ o.dir /\ o \in r.excl \union r.shared

Firm(s) ==
    /\ \A x, o : Folder(th[s], o) /\ Is(x, o) => Is(x, o)'
    /\ \A x, o : /\ (Writing(th[s]) /\ o = th[s].means) \/ (Numbering(th[s]) /\ o = th[s].found)
                 /\ x = th[s].path /\ Is(x, o) /\ Lives(o)' /\ o \notin astray'
                 => Is(x, o)'

\* A request goes by a path below each folder it is about.
LEMMA FolderReach ==
    ASSUME IInv, KInv, NEW s \in Thread, NEW x, NEW o, Folder(th[s], o), Is(x, o)
    PROVE  x \in Path /\ \E q \in Reach(th[s]) : q \in Path /\ IsWithin(q, x)
<1>1. InFolder(th[s]) /\ th[s].path \in Path /\ th[s].target \in Path /\ x \in Path
  BY KInvParts, ThreadType DEF Is, IInv, TreeOK
<1>2. \A y : Is(y, o) => y = x
  BY DEF Is, KInv, Tree
<1>3. CASE o = th[s].means
  <2>1. x = Parent(th[s].path) /\ th[s].path # Root /\ th[s].path \in Reach(th[s])
    BY <1>1, <1>2, <1>3 DEF InFolder, Folder, Reach
  <2>2. IsWithin(x, x)
    BY <1>1, WithinOrder
  <2> QED
    BY <1>1, <2>1, <2>2, ParentWithin
<1>4. CASE th[s].op = "rename" /\ o = th[s].found
  <2>1. CASE th[s].pc = "resolve"
    <3>1. Knows(table, th[s].to[1]) /\ x = table.byIno[th[s].to[1]]
      BY <1>1, <1>2, <1>4, <2>1 DEF InFolder, Folder
    <3>2. x \in Reach(th[s])
      BY <1>4, <2>1, <3>1 DEF Reach, Knows
    <3> QED
      BY <1>1, <3>2, WithinOrder
  <2>2. CASE th[s].pc # "resolve"
    <3>1. x = Parent(th[s].target) /\ th[s].target # Root /\ th[s].target \in Reach(th[s])
      BY <1>1, <1>2, <1>4, <2>2 DEF InFolder, Folder, Reach
    <3>2. IsWithin(x, x)
      BY <1>1, WithinOrder
    <3> QED
      BY <1>1, <3>1, <3>2, ParentWithin
  <2> QED
    BY <2>1, <2>2
<1> QED
  BY <1>3, <1>4 DEF Folder

LEMMA SeenSteps ==
    ASSUME UNCHANGED told, NEW T \in SUBSET Thread,
           \A s \in Thread \ T : th'[s] = th[s],
           \A s \in T : Steps(th[s], th'[s])
    PROVE  Seen' \subseteq Seen
<1>1. ASSUME NEW s \in Thread  PROVE SeenBy(th'[s]) \subseteq SeenBy(th[s])
  BY DEF SeenBy, Steps, Writing, Numbering
<1>2. \A s \in Thread : SeenBy(th[s])' = SeenBy(th'[s])
  BY DEF SeenBy
<1>3. Seen' = {told[n] : n \in DOMAIN told} \union UNION {SeenBy(th'[s]) : s \in Thread}
  BY <1>2 DEF Seen
<1>4. {told[n] : n \in DOMAIN told} \subseteq Seen /\ \A s \in Thread : SeenBy(th[s]) \subseteq Seen
  BY InSeen
<1> QED
  BY <1>1, <1>3, <1>4

LEMMA TreeStep ==
    ASSUME IInv, IInv', KInv, UNCHANGED <<table, told>>, astray \subseteq astray', Files',
           NEW T \in SUBSET Thread,
           \A s \in Thread \ T : th'[s] = th[s],
           \A s \in T : Steps(th[s], th'[s]),
           \A s \in T : Placed(th[s])' /\ InFolder(th[s])' /\ Left(s)' /\ Come(s)',
           Tree', Old', Keeps,
           \A o \in Seen : Lives(o)' => Lives(o),
           \A s \in Thread \ T : Firm(s) /\ (th[s].pc = "table" /\ Clear(s) => IsDir(th[s].target)'),
           \A q \in DOMAIN objs' : objs'[q] \in Seen \ astray' =>
                                      Is(q, objs'[q]) \/ \A s \in Thread \ T : ~InWay(s, q)
    PROVE  KInv'
<1>1. \A s \in Thread : s \in T \/ s \in Thread \ T
  OBVIOUS
<1>2. \A s \in T : ~Writing(th'[s]) /\ ~Numbering(th'[s]) /\ ~Early(th'[s])
  BY DEF Steps, Writing, Numbering, Early
<1>3. Sure' \subseteq Seen \ astray' /\ Sure' \subseteq Sure
  BY SeenSteps, Zenon DEF Sure
<1>9. ASSUME NEW s \in Thread  PROVE (Reach(th[s]))' \subseteq Reach(th[s])
  <2>1. th'[s] = th[s] \/ Steps(th[s], th'[s])
    BY <1>1
  <2>2. CASE th'[s] = th[s]
    BY <2>2 DEF Reach, Writing
  <2>3. CASE Steps(th[s], th'[s])
    BY <2>3 DEF Reach, Steps, Writing
  <2> QED
    BY <2>1, <2>2, <2>3
<1>4. Locks'
  <2>1. \A s \in Thread : /\ th'[s].excl = th[s].excl /\ th'[s].shared = th[s].shared
                          /\ th'[s].pc # "idle" => th[s].pc # "idle"
    BY <1>1 DEF Steps
  <2> QED
    BY <2>1 DEF KInv, Locks, Apart
<1>5. ToldLeads'
  <2>1. ASSUME NEW n \in DOMAIN told, Lives(told[n])', told[n] \notin astray'  PROVE Leads(n, told[n])'
    <3>1. PICK o : o = told[n] /\ o \in Seen /\ o = told'[n] /\ Lives(o)' /\ o \notin astray'
      BY <2>1, InSeen DEF Lives
    <3>2. Leads(n, o)
      BY <3>1 DEF KInv, ToldLeads
    <3>3. Leads(n, o)'
      BY <3>1, <3>2 DEF Keeps
    <3> QED
      BY <3>1, <3>3 DEF Leads
  <2> QED
    BY <2>1 DEF ToldLeads
<1>6. ASSUME NEW s \in Thread \ T
      PROVE  (Placed(th[s]) /\ InFolder(th[s]) /\ Writes(th[s]) /\ Finds(th[s]))'
  <2>1. Placed(th[s]) /\ InFolder(th[s]) /\ Writes(th[s]) /\ Finds(th[s]) /\ th'[s] = th[s] /\ Firm(s)
    BY <1>6, KInvParts
  <2> DEFINE r == th[s]
  <2>3. Placed(th[s])'
    BY <2>1 DEF Placed
  <2>4. InFolder(th[s])'
    <3>1. ASSUME Named(r.op)
          PROVE  /\ \A x : Is(x, r.means) => x \in DOMAIN objs' /\ objs'[x] = r.means
                 /\ \A x : r.op = "rename" /\ Is(x, r.found) => x \in DOMAIN objs' /\ objs'[x] = r.found
      <4>1. Folder(r, r.means) /\ (r.op = "rename" => Folder(r, r.found))
        BY <2>1, <3>1, InSeen, SureFolder DEF InFolder, Folder
      <4>2. \A x, o : Folder(r, o) /\ Is(x, o) => x \in DOMAIN objs' /\ objs'[x] = o
        BY <2>1, <3>1 DEF Firm, Is
      <4> HIDE DEF r
      <4> QED
        BY <4>1, <4>2
    <3> QED
      BY <2>1, <3>1 DEF InFolder, Is, Knows
  <2>5. Writes(th[s])'
    <3> SUFFICES ASSUME Writing(th[s]), Lives(th[s].means)', th[s].means \notin astray'
                 PROVE  /\ th[s].path \in DOMAIN objs' /\ objs'[th[s].path] = th[s].means
                        /\ Sits(th', table', objs', th[s].ino, th[s].means)
      BY <2>1 DEF Writes, Writing, Is, Leads, Lives, Sits, Brings, Over, Still, Spared
    <3>1. PICK o, n, x : o = th[s].means /\ n = th[s].ino /\ x = th[s].path /\ o \in Seen
      BY InSeen, Zenon
    <3>2. Lives(o)' /\ o \notin astray'
      BY <2>1, <3>1 DEF Lives
    <3>3. Is(x, o) /\ Leads(n, o)
      BY <2>1, <3>1, <3>2 DEF Writes
    <3>4. Leads(n, o)'
      BY <3>2, <3>3 DEF Keeps
    <3>5. Is(x, o)'
      BY <2>1, <3>1, <3>2, <3>3 DEF Firm
    <3> QED
      BY <3>1, <3>4, <3>5 DEF Leads, Is, Sits, Brings, Over, Still, Spared
  <2>6. Finds(th[s])'
    <3> SUFFICES ASSUME Numbering(th[s]), Lives(th[s].found)', th[s].found \notin astray'
                 PROVE  th[s].path \in DOMAIN objs' /\ objs'[th[s].path] = th[s].found
      BY <2>1 DEF Finds, Numbering, Is, Lives
    <3>1. PICK o, x : o = th[s].found /\ x = th[s].path /\ o \in Seen
      BY InSeen
    <3>2. Lives(o)' /\ o \notin astray'
      BY <2>1, <3>1 DEF Lives
    <3>3. Is(x, o)
      BY <2>1, <3>1, <3>2 DEF Finds
    <3>4. Is(x, o)'
      BY <2>1, <3>1, <3>2, <3>3 DEF Firm
    <3> QED
      BY <3>1, <3>4 DEF Is
  <2> QED
    BY <2>3, <2>4, <2>5, <2>6
<1>7. ASSUME NEW s \in Thread \ T  PROVE (Left(s) /\ Come(s) /\ Takes(th[s], Sure))'
  <2>1. Left(s) /\ Come(s) /\ Takes(th[s], Sure) /\ th'[s] = th[s]
    BY <1>7, KInvParts
  <2>2. ASSUME NEW q \in DOMAIN objs', objs'[q] \in Sure'  PROVE Is(q, objs'[q]) \/ ~InWay(s, q)
    BY <1>3, <1>7, <2>2
  <2>3. Left(s)'
    BY <1>3, <2>1, <2>2 DEF Left, InWay, Spared, Is
  <2>4. Takes(th[s], Sure)'
    BY <1>3, <2>1, <2>2 DEF Takes, InWay, Early, Is
  <2>5. Come(s)'
    <3> SUFFICES ASSUME th[s].pc = "table", th[s].op = "rename"  PROVE Come(s)'
      BY <2>1 DEF Come
    <3>1. CASE Clear(s)
      <4>1. ASSUME NEW u \in Thread \ {s}  PROVE (Far(u, th[s].path) /\ Far(u, th[s].target))'
        BY <1>9, <2>1, <3>1, <4>1 DEF Clear, Far
      <4>2. Clear(s)'
        BY <1>7, <2>1, <3>1, <4>1 DEF Clear
      <4> QED
        BY <2>1, <4>2 DEF Come
    <3>2. CASE ~Clear(s)
      BY <1>3, <2>1, <2>2, <3>2 DEF Come, InWay, Spared, Is
    <3> QED
      BY <3>1, <3>2
  <2> QED
    BY <2>3, <2>4, <2>5
<1>8. ASSUME NEW s \in T
      PROVE  (Placed(th[s]) /\ InFolder(th[s]) /\ Writes(th[s]) /\ Finds(th[s]) /\ Left(s) /\ Come(s) /\ Takes(th[s], Sure))'
  BY <1>2, <1>8 DEF Writes, Finds, Takes, Writing, Numbering, Early
<1> QED
  BY <1>1, <1>4, <1>5, <1>6, <1>7, <1>8 DEF KInv

\* Where nothing is below a path.
LEMMA FileBelow ==
    ASSUME IInv, KInv, NEW p \in Path, NEW q \in DOMAIN objs, IsWithin(q, p), ~IsDir(p)
    PROVE  q = p
BY DEF KInv, Tree, IsDir, Live

LEMMA Active ==
    ASSUME KInv, NEW s \in Thread, Named(th[s].op) \/ Writing(th[s]) \/ Numbering(th[s])
    PROVE  th[s].pc # "idle"
BY KInvParts DEF Placed, Named, Writing, Numbering, Changes, Removes

LEMMA SeenOld == ASSUME KInv, NEW o \in Seen PROVE o.id <= made
BY DEF KInv, Old, Dated, Seen, SeenBy

\* Something comes into being, by a listing or by a request.
LEMMA BornKeeps ==
    ASSUME IInv, IInv', KInv, UNCHANGED <<table, told, astray>>,
           NEW p \in Path, NEW dir \in BOOLEAN, Created(p, dir), ~Live(p), IsDir(Parent(p)),
           NEW T \in SUBSET Thread,
           \A s \in Thread \ T : th'[s] = th[s],
           \A s \in T : Steps(th[s], th'[s]) /\ th'[s].pc = "attr" /\ th[s].op \in {"create", "mkdir"}
    PROVE  KInv' /\ Keeps
<1> DEFINE new == [id |-> made + 1, dir |-> dir]
<1>1. /\ DOMAIN objs' = DOMAIN objs \union {p} /\ objs'[p] = new
      /\ \A q \in DOMAIN objs : objs'[q] = objs[q]
      /\ made' = made + 1 /\ made \in Nat /\ p \notin DOMAIN objs
  BY DEF Created, Insert, Live, IInv, TreeOK
<1>2. new.id = made + 1 /\ new.dir = dir
  OBVIOUS
<1> HIDE DEF new
<1>3. \A q \in DOMAIN objs : objs[q].id <= made /\ objs[q].id \in Nat /\ objs[q] # new
  BY <1>1, <1>2 DEF KInv, Old, IInv, TreeOK, ObjType
<1>4. \A o : o.id <= made => o # new
  BY <1>1, <1>2
<1>5. \A x, o : Is(x, o) => Is(x, o)'
  BY <1>1 DEF Is
<1>6. Tree'
  <2>1. p # Root /\ Root \in DOMAIN objs /\ objs[Root].dir
    BY <1>1 DEF KInv, Tree
  <2>2. ASSUME NEW q \in DOMAIN objs', NEW x \in Path, IsWithin(q, x), x # q
        PROVE  x \in DOMAIN objs /\ objs[x].dir
    <3>1. CASE q \in DOMAIN objs
      BY <2>2, <3>1 DEF KInv, Tree
    <3>2. CASE q = p
      <4>1. IsWithin(Parent(p), x) /\ Parent(p) \in DOMAIN objs /\ objs[Parent(p)].dir
        BY <2>1, <2>2, <3>2, ParentWithin DEF IsDir, Live
      <4> QED
        BY <2>2, <4>1 DEF KInv, Tree
    <3> QED
      BY <1>1, <3>1, <3>2
  <2>3. \A q, x \in DOMAIN objs' : objs'[q] = objs'[x] => q = x
    BY <1>1, <1>3 DEF KInv, Tree
  <2> QED
    BY <1>1, <2>1, <2>2, <2>3 DEF Tree
<1>7. Old'
  <2>1. \A q \in DOMAIN objs' : objs'[q].id <= made'
    BY <1>1, <1>2, <1>3
  <2>2. \A n \in DOMAIN told : told[n].id <= made' /\ n < table.next
    BY <1>1 DEF KInv, Old, IInv, ToldOK, ObjType
  <2>3. \A s \in Thread : Dated(th[s])'
    <3> SUFFICES ASSUME NEW s \in Thread  PROVE Dated(th[s])'
      OBVIOUS
    <3>1. th'[s].means = th[s].means /\ th'[s].found = th[s].found
      BY DEF Steps
    <3>2. th[s].means.id \in Nat /\ th[s].found.id \in Nat
      BY ThreadType DEF ObjType
    <3> QED
      BY <1>1, <3>1, <3>2 DEF KInv, Old, Dated
  <2> QED
    BY <2>1, <2>2, <2>3 DEF Old
<1>8. Keeps
  <2>1. \A s \in Thread : \/ th'[s] = th[s]
                          \/ th'[s].pc # "table" /\ th[s].pc # "table"
    BY DEF Steps
  <2>2. \A x, y : Brings(th, x, y) => Brings(th', x, y)
    BY <2>1 DEF Brings, Over, Still, Spared
  <2>3. \A n, o : Sits(th, table, objs, n, o) => Sits(th', table, objs', n, o)
    BY <1>1, <2>2 DEF Sits
  <2>4. \A n, o : Leads(n, o)' <=> Sits(th', table, objs', n, o)
    BY DEF Leads, Sits, Brings, Over, Still, Spared
  <2> QED
    BY <2>3, <2>4 DEF Keeps, Leads
<1>9. \A o \in Seen : o # new /\ (Lives(o)' => Lives(o))
  BY <1>1, <1>4, SeenOld DEF Lives
<1>10. ASSUME NEW s \in T  PROVE (Placed(th[s]) /\ InFolder(th[s]) /\ Left(s) /\ Come(s))'
  <2>1. Placed(th[s]) /\ InFolder(th[s]) /\ th'[s].pc = "attr"
    BY <1>10, KInvParts
  <2>2. /\ th'[s].op = th[s].op /\ th'[s].op \in {"create", "mkdir"} /\ th'[s].path = th[s].path
        /\ th'[s].means = th[s].means /\ th'[s].excl = th[s].excl /\ th'[s].shared = th[s].shared
    BY <1>10 DEF Steps
  <2>3. Placed(th[s])' /\ Left(s)' /\ Come(s)'
    BY <2>1, <2>2 DEF Placed, Left, Come, Removes
  <2>4. InFolder(th[s])'
    <3>1. PICK x, o : x = Parent(th[s].path) /\ o = th[s].means
      OBVIOUS
    <3>2. Is(x, o) /\ Is(x, o)'
      BY <1>5, <2>1, <2>2, <3>1 DEF InFolder, Named, Changes
    <3> QED
      BY <2>1, <2>2, <3>1, <3>2 DEF InFolder, Named, Changes, Is
  <2> QED
    BY <2>3, <2>4
<1>11. \A s \in Thread \ T : Firm(s)
  BY <1>5 DEF Firm
<1>12. \A s \in Thread \ T : th[s].pc = "table" /\ Clear(s) => IsDir(th[s].target)'
  BY <1>1 DEF Clear, IsDir, Live
<1>15. Files' /\ astray \subseteq astray'
  BY DEF KInv, Files
<1>13. \A q \in DOMAIN objs' : objs'[q] \in Seen => Is(q, objs'[q]) \/ \A s \in Thread \ T : ~InWay(s, q)
  BY <1>1, <1>9 DEF Is
<1>14. \A s \in T : Steps(th[s], th'[s])
  OBVIOUS
<1> QED
  BY <1>6, <1>7, <1>8, <1>9, <1>10, <1>11, <1>12, <1>13, <1>14, <1>15, TreeStep

LEMMA InsertablePath == ASSUME NEW q \in Insertable PROVE q \in Path /\ IsDir(Parent(q))
<1> SUFFICES ASSUME NEW k \in 1 .. MaxDepth, q \in [1 .. k -> Name] PROVE q \in Path
  BY DEF Insertable
<1>1. k \in Nat
  BY AdapterAssumption
<1> QED
  BY <1>1, SeqDef DEF Path

LEMMA AppearsKeeps == ASSUME IInv, IInv', KInv, Appears PROVE KInv' /\ Keeps
<1>1. PICK p \in Insertable, dir \in BOOLEAN : ~Live(p) /\ Created(p, dir)
  BY DEF Appears
<1>2. UNCHANGED <<table, told, th, astray>>
  BY DEF Appears, Unheard, noted
<1>3. p \in Path /\ IsDir(Parent(p))
  BY InsertablePath
<1> DEFINE T == {}
<1>4. /\ T \in SUBSET Thread /\ \A s \in Thread \ T : th'[s] = th[s]
      /\ \A s \in T : Steps(th[s], th'[s]) /\ th'[s].pc = "attr" /\ th[s].op \in {"create", "mkdir"}
  BY <1>2
<1> HIDE DEF T
<1> QED
  BY <1>1, <1>2, <1>3, <1>4, BornKeeps

\* A thread that goes on with its call of the file system done.
LEMMA StepsGoes ==
    ASSUME IInv, NEW t \in Thread, NEW pc \in {"attr", "table"}, Goes(t, th[t], pc), th[t].pc = "core"
    PROVE  /\ Steps(th[t], th'[t]) /\ th'[t].pc = pc
           /\ \A s \in Thread \ {t} : th'[s] = th[s]
           /\ th'[t].to = th[t].to
BY ThreadType, ZenonT(40) DEF Goes, Steps, IInv, ThreadsOK, RequestType

LEMMA CreateKeeps ==
    ASSUME IInv, IInv', KInv, NEW t \in Thread, NEW op \in {"create", "mkdir"}, Create(t, op)
    PROVE  KInv' /\ Keeps
<1>1. /\ th[t].pc = "core" /\ th[t].op = op /\ IsDir(Parent(th[t].path)) /\ ~Live(th[t].path)
      /\ Created(th[t].path, op = "mkdir") /\ Goes(t, th[t], "attr") /\ UNCHANGED <<table, told, astray>>
      /\ th[t].path \in Path /\ (op = "mkdir") \in BOOLEAN
  BY ThreadType DEF Create, noted
<1> DEFINE T == {t}
<1>2. /\ T \in SUBSET Thread /\ \A s \in Thread \ T : th'[s] = th[s]
      /\ \A s \in T : Steps(th[s], th'[s]) /\ th'[s].pc = "attr" /\ th[s].op \in {"create", "mkdir"}
  BY <1>1, StepsGoes
<1> HIDE DEF T
<1> QED
  BY <1>1, <1>2, BornKeeps, Zenon

LEMMA RootWithin == ASSUME NEW p \in Path PROVE IsWithin(p, Root)
<1>1. Len(Root) = 0 /\ Len(p) \in Nat
  BY LenProperties DEF Root, Path
<1> QED
  BY <1>1, RootPath, WithinMeans

\* Something is gone, and what is below it.
LEMMA GoneMeans ==
    ASSUME IInv, KInv, NEW p \in Path, p # Root, Gone(p)
    PROVE  /\ \A x, o : Is(x, o)' <=> Is(x, o) /\ ~IsWithin(x, p)
           /\ \A x, o : Is(x, o) /\ Lives(o)' => Is(x, o)'
           /\ \A o : Lives(o)' => Lives(o)
           /\ \A q \in DOMAIN objs' : Is(q, objs'[q]) /\ ~IsWithin(q, p)
           /\ Tree'
<1>1. /\ DOMAIN objs' = {q \in DOMAIN objs : ~IsWithin(q, p)}
      /\ \A q \in DOMAIN objs' : objs'[q] = objs[q]
  BY DEF Gone, Restrict
<1>2. \A x, o : Is(x, o)' <=> Is(x, o) /\ ~IsWithin(x, p)
  BY <1>1 DEF Is
<1>3. \A x, o : Is(x, o) /\ Lives(o)' => Is(x, o)'
  BY <1>1 DEF Is, Lives, KInv, Tree
<1>4. \A o : Lives(o)' => Lives(o)
  BY <1>1 DEF Lives
<1>5. Tree'
  <2>1. ~IsWithin(Root, p) /\ Root \in DOMAIN objs /\ objs[Root].dir
    <3>1. IsWithin(p, Root)
      BY RootWithin
    <3> QED
      BY <3>1, RootPath, WithinOrder DEF KInv, Tree
  <2>2. ASSUME NEW q \in DOMAIN objs', NEW x \in Path, IsWithin(q, x), x # q
        PROVE  x \in DOMAIN objs' /\ objs'[x].dir
    <3>1. q \in DOMAIN objs /\ ~IsWithin(q, p) /\ q \in Path
      BY <1>1 DEF IInv, TreeOK
    <3>2. x \in DOMAIN objs /\ objs[x].dir
      BY <2>2, <3>1 DEF KInv, Tree
    <3>3. ~IsWithin(x, p)
      BY <2>2, <3>1, WithinOrder
    <3> QED
      BY <1>1, <3>2, <3>3
  <2>3. \A q, x \in DOMAIN objs' : objs'[q] = objs'[x] => q = x
    BY <1>1 DEF KInv, Tree
  <2> QED
    BY <1>1, <2>1, <2>2, <2>3 DEF Tree
<1> QED
  BY <1>1, <1>2, <1>3, <1>4, <1>5 DEF Is

LEMMA VanishesKeeps == ASSUME ~raced', IInv, IInv', KInv, Vanishes PROVE KInv' /\ Keeps
<1>1. PICK p \in DOMAIN objs \ {Root} : ~Disturbs(p) /\ Gone(p)
  BY DEF Vanishes
<1>2. UNCHANGED <<made, table, told, th, astray>>
  BY DEF Vanishes, Unheard
<1>3. p \in Path /\ p # Root
  BY DEF IInv, TreeOK
<1>4. /\ \A x, o : Is(x, o)' <=> Is(x, o) /\ ~IsWithin(x, p)
      /\ \A x, o : Is(x, o) /\ Lives(o)' => Is(x, o)'
      /\ \A o : Lives(o)' => Lives(o)
      /\ \A q \in DOMAIN objs' : Is(q, objs'[q])
      /\ Tree'
  BY <1>1, <1>3, GoneMeans
<1>5. ASSUME NEW s \in Thread, NEW x \in Path, NEW o, Is(x, o), o.dir,
             NEW q \in Reach(th[s]), q \in Path, IsWithin(q, x)
      PROVE  Is(x, o)'
  <2> SUFFICES ASSUME IsWithin(x, p)  PROVE FALSE
    BY <1>4, <1>5
  <2>1. IsDir(p)
    BY <1>3, <1>5, FileBelow DEF Is, IsDir, Live
  <2>2. IsWithin(q, p)
    BY <1>3, <1>5, WithinOrder
  <2> QED
    BY <1>1, <2>1, <2>2 DEF Disturbs
<1>6. Keeps
  <2>1. \A n, o : Sits(th, table, objs, n, o) /\ Lives(o)' => Sits(th, table, objs', n, o)
    BY <1>4 DEF Sits, Is
  <2>2. \A n, o : Leads(n, o)' <=> Sits(th, table, objs', n, o)
    BY <1>2 DEF Leads, Sits, Brings, Over, Still, Spared
  <2> QED
    BY <2>1, <2>2 DEF Keeps, Leads
<1>7. Old'
  BY <1>2, <1>4 DEF KInv, Old, Is, Dated
<1> DEFINE T == {}
<1>8. /\ T \in SUBSET Thread /\ \A s \in Thread \ T : th'[s] = th[s]
      /\ \A s \in T : Steps(th[s], th'[s])
      /\ \A s \in T : Placed(th[s])' /\ InFolder(th[s])' /\ Left(s)' /\ Come(s)'
  BY <1>2
<1>9. ASSUME NEW s \in Thread \ T
      PROVE  Firm(s) /\ (th[s].pc = "table" /\ Clear(s) => IsDir(th[s].target)')
  <2>3. ASSUME NEW x, NEW o, Folder(th[s], o), Is(x, o)  PROVE Is(x, o)'
    <3>1. o.dir
      BY <2>3 DEF Folder
    <3> QED
      BY <1>5, <2>3, <3>1, FolderReach
  <2>1. Firm(s)
    BY <1>4, <2>3 DEF Firm
  <2>2. ASSUME th[s].pc = "table", Clear(s)  PROVE IsDir(th[s].target)'
    <3>1. PICK x, o : x = th[s].target /\ Is(x, o) /\ o.dir
      BY <2>2 DEF Clear, IsDir, Live, Is
    <3>2. x \in Path /\ x \in Reach(th[s]) /\ IsWithin(x, x)
      BY <2>2, <3>1, ThreadType, WithinOrder DEF Clear, Reach
    <3>3. Is(x, o)'
      BY <1>5, <3>1, <3>2
    <3> QED
      BY <1>2, <3>1, <3>3 DEF IsDir, Live, Is
  <2> QED
    BY <2>1, <2>2
<1>10. Files' /\ astray \subseteq astray' /\ UNCHANGED <<table, told>>
  BY <1>2 DEF KInv, Files
<1>11. \A o \in Seen : Lives(o)' => Lives(o)
  BY <1>4
<1>12. \A q \in DOMAIN objs' : Is(q, objs'[q])
  BY <1>4
<1> HIDE DEF T
<1> QED
  BY <1>4, <1>6, <1>7, <1>8, <1>9, <1>10, <1>11, <1>12, TreeStep

LEMMA RemoveKeeps == ASSUME IInv, IInv', KInv, NEW t \in Thread, Remove(t) PROVE KInv' /\ Keeps
<1>1. /\ th[t].pc = "core" /\ th[t].op \in {"unlink", "rmdir"} /\ th[t].path # Root
      /\ Live(th[t].path) /\ Empty(th[t].path) /\ Gone(th[t].path)
      /\ Goes(t, th[t], "table") /\ UNCHANGED <<made, table, told, astray>>
      /\ Placed(th[t]) /\ InFolder(th[t]) /\ Takes(th[t], Sure)
  BY KInvParts DEF Remove, noted
<1>2. PICK p : p = th[t].path
  OBVIOUS
<1>3. p \in Path /\ p # Root /\ Gone(p) /\ \A q \in DOMAIN objs : IsWithin(q, p) => q = p
  BY <1>1, <1>2, ThreadType DEF Empty
<1>4. /\ \A x, o : Is(x, o)' <=> Is(x, o) /\ ~IsWithin(x, p)
      /\ \A x, o : Is(x, o) /\ Lives(o)' => Is(x, o)'
      /\ \A o : Lives(o)' => Lives(o)
      /\ \A q \in DOMAIN objs' : Is(q, objs'[q]) /\ ~IsWithin(q, p)
      /\ Tree'
  BY <1>3, GoneMeans
<1>5. /\ Steps(th[t], th'[t]) /\ th'[t].pc = "table" /\ \A s \in Thread \ {t} : th'[s] = th[s]
  BY <1>1, StepsGoes
<1>6. Keeps
  <2>1. ASSUME NEW w, NEW y \in DOMAIN objs', Brings(th, w, y)  PROVE Brings(th', w, y)
    <3>1. \A s \in Thread : Over(th', s, w) <=> Over(th, s, w)
      BY <1>1, <1>5 DEF Over, Steps
    <3>2. ASSUME y = w, Still(th, w)  PROVE Still(th', w)
      <4>1. ~IsWithin(w, p)
        BY <1>4, <3>2
      <4> QED
        BY <1>1, <1>2, <1>5, <3>2, <4>1 DEF Still, Spared, Steps
    <3>3. \A s \in Thread : Over(th, s, w) => th'[s] = th[s]
      BY <1>1, <1>5 DEF Over
    <3> QED
      BY <2>1, <3>1, <3>2, <3>3 DEF Brings
  <2>2. \A n, o : Sits(th, table, objs, n, o) /\ Lives(o)' => Sits(th', table, objs', n, o)
    BY <1>4, <2>1 DEF Sits, Is
  <2>3. \A n, o : Leads(n, o)' <=> Sits(th', table, objs', n, o)
    BY <1>1 DEF Leads, Sits, Brings, Over, Still, Spared
  <2> QED
    BY <2>2, <2>3 DEF Keeps, Leads
<1>7. Old'
  <2>1. \A s \in Thread : th'[s].means = th[s].means /\ th'[s].found = th[s].found
    BY <1>5 DEF Steps
  <2> QED
    BY <1>1, <1>4, <2>1 DEF KInv, Old, Is, Dated
<1> DEFINE T == {t}
<1>8. /\ T \in SUBSET Thread /\ \A s \in Thread \ T : th'[s] = th[s]
      /\ \A s \in T : Steps(th[s], th'[s])
  BY <1>5
<1>9. (Placed(th[t]) /\ InFolder(th[t]) /\ Left(t) /\ Come(t))'
  <2>1. /\ th'[t].op = th[t].op /\ th'[t].path = th[t].path /\ th'[t].pc = "table"
        /\ th'[t].means = th[t].means /\ th'[t].excl = th[t].excl /\ th'[t].shared = th[t].shared
    BY <1>5 DEF Steps
  <2>2. Placed(th[t])' /\ Come(t)'
    BY <1>1, <2>1 DEF Placed, Come, Removes
  <2>3. Left(t)'
    BY <1>2, <1>3, <1>4, <2>1 DEF Left
  <2>4. InFolder(th[t])'
    <3>1. PICK x, o : x = Parent(p) /\ o = th[t].means
      OBVIOUS
    <3>2. Is(x, o) /\ o.dir /\ o \in th[t].excl
      BY <1>1, <1>2, <3>1 DEF InFolder, Named, Changes, Removes
    <3>3. ~IsWithin(x, p)
      BY <1>3, <3>1, ParentWithin
    <3>4. Is(x, o)'
      BY <1>4, <3>2, <3>3
    <3> QED
      BY <1>1, <1>2, <2>1, <3>1, <3>2, <3>4 DEF InFolder, Is
  <2> QED
    BY <2>2, <2>3, <2>4
<1>10. ASSUME NEW s \in Thread \ T
       PROVE  Firm(s) /\ (th[s].pc = "table" /\ Clear(s) => IsDir(th[s].target)')
  <2>1. ASSUME th[s].pc = "table", Clear(s)  PROVE IsDir(th[s].target)'
    <3>1. PICK x, o : x = th[s].target /\ Is(x, o) /\ o.dir
      BY <2>1 DEF Clear, IsDir, Live, Is
    <3>2. p \in Reach(th[t]) /\ ~IsWithin(p, x)
      BY <1>1, <1>2, <1>10, <2>1, <3>1 DEF Clear, Far, Reach, Named, Changes, Removes
    <3>3. x # p
      BY <1>3, <3>2, WithinOrder
    <3>4. Is(x, o)'
      BY <1>3, <1>4, <3>1, <3>3 DEF Is
    <3> QED
      BY <1>10, <1>8, <3>1, <3>4 DEF IsDir, Live, Is
  <2>2. ASSUME NEW x, NEW o, Folder(th[s], o), Is(x, o)
        PROVE  Is(x, o)'
    <3>1. CASE x = p
      <4>1. o \in th[t].excl
        BY <1>1, <1>2, <2>2, <3>1 DEF Takes, Early, Removes, Is, Folder
      <4>2. Apart(th[t], th[s]) /\ th[s].pc # "idle"
        BY <1>10, <2>2, Active DEF KInv, Locks, Folder
      <4> QED
        BY <1>1, <2>2, <4>1, <4>2 DEF Apart, Folder
    <3>2. CASE x # p
      BY <1>3, <1>4, <2>2, <3>2 DEF Is
    <3> QED
      BY <3>1, <3>2
  <2>3. Firm(s)
    BY <1>4, <2>2 DEF Firm
  <2> QED
    BY <2>1, <2>3
<1>11. \A s \in T : Placed(th[s])' /\ InFolder(th[s])' /\ Left(s)' /\ Come(s)'
  BY <1>9
<1>12. UNCHANGED <<table, told>> /\ Files' /\ astray \subseteq astray'
  BY <1>1 DEF KInv, Files
<1> HIDE DEF T
<1> QED
  BY <1>4, <1>6, <1>7, <1>8, <1>10, <1>11, <1>12, TreeStep

\* Something is moved, and what is below it; what was at the target is gone.
LEMMA MovedMeans ==
    ASSUME IInv, KInv, NEW a \in Path, NEW b \in Path, MayMove(a, b), Moved(a, b)
    PROVE  /\ ~IsWithin(b, a) /\ ~IsWithin(a, b) /\ a # Root /\ b # Root
           /\ \A q \in DOMAIN objs : IsWithin(q, b) => q = b
           /\ \A x, o : Is(x, o) /\ ~IsWithin(x, a) /\ x # b => Is(x, o)'
           /\ \A x, o : Is(x, o) /\ IsWithin(x, a) => Is(Rebase(x, a, b), o)'
           /\ \A q \in DOMAIN objs' : ~IsWithin(q, a) /\ (IsWithin(q, b) \/ Is(q, objs'[q]))
           /\ \A q \in DOMAIN objs' : IsWithin(q, b) =>
                   \E x \in DOMAIN objs : Is(x, objs'[q]) /\ IsWithin(x, a) /\ q = Rebase(x, a, b)
           /\ \A o : Lives(o)' => Lives(o) /\ ~Is(b, o)
           /\ Tree'
<1> DEFINE moving == {p \in DOMAIN objs : IsWithin(p, a)}
           stays  == {p \in DOMAIN objs \ moving : ~IsWithin(p, b)}
           places == {Rebase(p, a, b) : p \in moving}
<1>1. /\ a # b /\ a # Root /\ b # Root /\ a \in DOMAIN objs /\ ~IsWithin(b, a)
      /\ Parent(b) \in DOMAIN objs /\ objs[Parent(b)].dir
      /\ b \in DOMAIN objs => \A q \in DOMAIN objs : IsWithin(q, b) => q = b
  BY DEF MayMove, Live, IsDir, Empty
<1>2. \A q \in DOMAIN objs : IsWithin(q, b) => q = b
  <2>1. \A q \in DOMAIN objs : IsWithin(q, b) /\ q # b => b \in DOMAIN objs
    BY DEF KInv, Tree
  <2> QED
    BY <1>1, <2>1
<1>3. ~IsWithin(a, b)
  BY <1>1, <1>2
<1>4. \A p \in moving : /\ p \in DOMAIN objs /\ p \in Path /\ IsWithin(p, a)
                        /\ Rebase(p, a, b) \in Path /\ IsWithin(Rebase(p, a, b), b)
                        /\ Rebase(Rebase(p, a, b), b, a) = p
  BY RebaseRoundTrip DEF IInv, TreeOK
<1>5. ASSUME NEW q \in Path, IsWithin(q, b)  PROVE ~IsWithin(q, a)
  BY <1>1, <1>3, <1>5, WithinOrder
<1>6. /\ DOMAIN objs' = stays \union places
      /\ \A q \in stays \union places :
            objs'[q] = IF IsWithin(q, b) THEN objs[Rebase(q, b, a)] ELSE objs[q]
  BY DEF Moved
<1>7. \A q \in stays : q \in DOMAIN objs /\ ~IsWithin(q, a) /\ ~IsWithin(q, b) /\ objs'[q] = objs[q]
  BY <1>6
<1>8. \A q \in DOMAIN objs : ~IsWithin(q, a) /\ ~IsWithin(q, b) => q \in stays
  OBVIOUS
<1>9. \A p \in moving : Rebase(p, a, b) \in DOMAIN objs' /\ objs'[Rebase(p, a, b)] = objs[p]
  BY <1>4, <1>6
<1>10. \A q \in places : \E p \in moving : q = Rebase(p, a, b)
  OBVIOUS
<1>11. \A p : p \in DOMAIN objs /\ IsWithin(p, a) => p \in moving
  OBVIOUS
<1> HIDE DEF moving, stays, places
<1>12. \A x, o : Is(x, o) /\ ~IsWithin(x, a) /\ x # b => Is(x, o)'
  BY <1>2, <1>6, <1>7, <1>8 DEF Is
<1>13. \A x, o : Is(x, o) /\ IsWithin(x, a) => Is(Rebase(x, a, b), o)'
  BY <1>9, <1>11 DEF Is
<1>14. ASSUME NEW q \in DOMAIN objs'
       PROVE  /\ q \in Path /\ ~IsWithin(q, a) /\ (IsWithin(q, b) \/ Is(q, objs'[q]))
              /\ IsWithin(q, b) => \E x \in DOMAIN objs : Is(x, objs'[q]) /\ IsWithin(x, a) /\ q = Rebase(x, a, b)
  <2>1. CASE q \in stays
    BY <1>7, <2>1 DEF Is, IInv, TreeOK
  <2>2. CASE q \in places
    <3>1. PICK p \in moving : q = Rebase(p, a, b)
      BY <1>10, <2>2
    <3>2. q \in Path /\ IsWithin(q, b) /\ Is(p, objs'[q]) /\ IsWithin(p, a) /\ p \in DOMAIN objs
      BY <1>4, <1>9, <3>1 DEF Is
    <3> QED
      BY <1>5, <3>1, <3>2
  <2> QED
    BY <1>6, <2>1, <2>2
<1>15. \A x, y, o : Is(x, o) /\ Is(y, o) => x = y
  BY DEF KInv, Tree, Is
<1>16. ASSUME NEW o, Lives(o)'  PROVE Lives(o) /\ ~Is(b, o)
  <2>1. PICK q \in DOMAIN objs' : objs'[q] = o
    BY <1>16 DEF Lives
  <2>2. CASE ~IsWithin(q, b)
    <3>1. Is(q, o) /\ q # b
      BY <1>14, <2>1, <2>2, WithinOrder
    <3> QED
      BY <1>15, <3>1 DEF Lives, Is
  <2>3. CASE IsWithin(q, b)
    <3>1. PICK x \in DOMAIN objs : Is(x, o) /\ IsWithin(x, a)
      BY <1>14, <2>1, <2>3
    <3> QED
      BY <1>1, <1>15, <3>1 DEF Lives, Is
  <2> QED
    BY <2>2, <2>3
<1>17. Tree'
  <2>1. Root \in DOMAIN objs' /\ objs'[Root].dir
    <3>1. Is(Root, objs[Root]) /\ objs[Root].dir
      BY DEF KInv, Tree, Is
    <3>2. ~IsWithin(Root, a)
      BY <1>1, RootPath, RootWithin, WithinOrder
    <3>3. PICK o : o = objs[Root]
      OBVIOUS
    <3>4. Is(Root, o)'
      BY <1>1, <1>12, <3>1, <3>2, <3>3
    <3> QED
      BY <3>1, <3>3, <3>4 DEF Is
  <2>2. ASSUME NEW q \in DOMAIN objs', NEW x \in Path, IsWithin(q, x), x # q
        PROVE  x \in DOMAIN objs' /\ objs'[x].dir
    <3>0. \A y, o : Is(y, o)' => y \in DOMAIN objs' /\ objs'[y] = o
      BY DEF Is
    <3>1. CASE ~IsWithin(q, b)
      <4>1. q \in DOMAIN objs /\ q \in Path /\ ~IsWithin(q, a)
        BY <1>14, <3>1 DEF Is
      <4>2. PICK o : Is(x, o) /\ o.dir
        BY <2>2, <4>1 DEF KInv, Tree, Is
      <4>3. ~IsWithin(x, a) /\ x # b
        BY <2>2, <3>1, <4>1, WithinOrder
      <4>4. Is(x, o)'
        BY <1>12, <4>2, <4>3
      <4> QED
        BY <3>0, <4>2, <4>4
    <3>2. CASE IsWithin(q, b)
      <4>1. PICK z \in DOMAIN objs : IsWithin(z, a) /\ q = Rebase(z, a, b)
        BY <1>14, <3>2
      <4>2. z \in Path /\ q \in Path
        BY <1>14 DEF IInv, TreeOK
      <4>3. CASE IsWithin(x, b)
        <5>1. PICK y \in Path : y = Rebase(x, b, a) /\ IsWithin(y, a) /\ Rebase(y, a, b) = x
          BY <4>3, RebaseRoundTrip
        <5>2. IsWithin(z, y) /\ z # y
          BY <2>2, <4>1, <4>2, <5>1, RebaseWithin
        <5>3. PICK o : Is(y, o) /\ o.dir
          BY <4>1, <5>2 DEF KInv, Tree, Is
        <5>4. Is(x, o)'
          BY <1>13, <5>1, <5>3
        <5> QED
          BY <3>0, <5>3, <5>4
      <4>4. CASE ~IsWithin(x, b)
        <5>1. IsWithin(b, x) /\ b # x
          BY <2>2, <3>2, <4>2, <4>4, WithinOrder
        <5>2. IsWithin(Parent(b), x)
          BY <1>1, <5>1, ParentWithin
        <5>3. PICK o : Is(x, o) /\ o.dir
          BY <1>1, <5>2 DEF KInv, Tree, Is
        <5>4. ~IsWithin(x, a)
          BY <1>1, <5>1, WithinOrder
        <5>5. Is(x, o)'
          BY <1>12, <5>1, <5>3, <5>4
        <5> QED
          BY <3>0, <5>3, <5>5
      <4> QED
        BY <4>3, <4>4
    <3> QED
      BY <3>1, <3>2
  <2>3. ASSUME NEW q \in DOMAIN objs', NEW x \in DOMAIN objs', objs'[q] = objs'[x]  PROVE q = x
    <3>1. CASE ~IsWithin(q, b) /\ ~IsWithin(x, b)
      BY <1>14, <1>15, <2>3, <3>1
    <3>2. CASE IsWithin(q, b) /\ IsWithin(x, b)
      <4>1. PICK y \in DOMAIN objs : Is(y, objs'[q]) /\ q = Rebase(y, a, b)
        BY <1>14, <3>2
      <4>2. PICK z \in DOMAIN objs : Is(z, objs'[x]) /\ x = Rebase(z, a, b)
        BY <1>14, <3>2
      <4> QED
        BY <1>15, <2>3, <4>1, <4>2
    <3>3. ASSUME NEW y \in DOMAIN objs', NEW z \in DOMAIN objs', ~IsWithin(y, b), IsWithin(z, b), objs'[y] = objs'[z]
          PROVE  FALSE
      <4>1. Is(y, objs'[y]) /\ ~IsWithin(y, a)
        BY <1>14, <3>3
      <4>2. PICK x0 \in DOMAIN objs : Is(x0, objs'[z]) /\ IsWithin(x0, a)
        BY <1>14, <3>3
      <4> QED
        BY <1>15, <3>3, <4>1, <4>2
    <3> QED
      BY <2>3, <3>1, <3>2, <3>3
  <2> QED
    BY <2>1, <2>2, <2>3 DEF Tree
<1> QED
  BY <1>1, <1>2, <1>3, <1>12, <1>13, <1>14, <1>16, <1>17

\* A listing moves what nobody has seen.
LEMMA MovesKeeps == ASSUME ~raced', IInv, IInv', KInv, Moves PROVE KInv' /\ Keeps
<1>1. PICK a \in DOMAIN objs \ {Root}, b \in Insertable :
        /\ ~Live(b) /\ MayMove(a, b) /\ Moved(a, b)
        /\ astray' = astray \union HeldBelow(a)
        /\ ~Disturbs(a) /\ \A o \in HeldBelow(a) : ~o.dir
  BY DEF Moves
<1>2. UNCHANGED <<made, table, told, th>>
  BY DEF Moves, Unheard
<1>3. a \in Path /\ b \in Path
  BY InsertablePath DEF IInv, TreeOK
<1>4. /\ \A x, o : Is(x, o) /\ ~IsWithin(x, a) /\ x # b => Is(x, o)'
      /\ \A q \in DOMAIN objs' : IsWithin(q, b) \/ Is(q, objs'[q])
      /\ \A q \in DOMAIN objs' : IsWithin(q, b) =>
              \E x \in DOMAIN objs : Is(x, objs'[q]) /\ IsWithin(x, a) /\ q = Rebase(x, a, b)
      /\ \A o : Lives(o)' => Lives(o) /\ ~Is(b, o)
      /\ Tree'
  BY <1>1, <1>3, MovedMeans
<1>5. \A x \in DOMAIN objs : IsWithin(x, a) /\ objs[x] \in Held => objs[x] \in astray'
  BY <1>1 DEF HeldBelow
<1>6. \A n, o : Leads(n, o) => o \in Held
  BY LeadsToMeans DEF Held
<1>14. Files' /\ astray \subseteq astray' /\ UNCHANGED <<table, told>>
  BY <1>1, <1>2 DEF KInv, Files
<1>7. ASSUME NEW x \in DOMAIN objs, IsWithin(x, a), objs[x] \in Seen, objs[x] \notin astray'  PROVE FALSE
  <2>1. PICK o : o = objs[x] /\ o \in Seen /\ o \notin Held /\ Lives(o) /\ o \notin astray /\ Is(x, o)
    BY <1>5, <1>7, <1>14 DEF Lives, Is
  <2>2. \A n \in DOMAIN told : told[n] # o
    BY <1>6, <2>1 DEF KInv, ToldLeads
  <2>3. PICK s \in Thread : o \in SeenBy(th[s])
    BY <2>1, <2>2 DEF Seen
  <2>4. th[s].found # o
    BY <2>1 DEF Held
  <2>5. o = th[s].means /\ (Named(th[s].op) \/ Writing(th[s]))
    BY <2>3, <2>4 DEF SeenBy
  <2>6. CASE Writing(th[s])
    <3>1. Leads(th[s].ino, o)
      BY <2>1, <2>5, <2>6, KInvParts DEF Writes
    <3> QED
      BY <1>6, <2>1, <3>1
  <2>7. CASE Named(th[s].op)
    <3>1. Folder(th[s], o) /\ o.dir
      BY <2>1, <2>5, <2>7, KInvParts DEF Folder, InFolder, Sure
    <3>2. PICK q \in Reach(th[s]) : x \in Path /\ q \in Path /\ IsWithin(q, x)
      BY <2>1, <3>1, FolderReach
    <3>3. IsDir(a)
      BY <1>3, <1>7, <2>1, <3>1, FileBelow DEF Is, IsDir, Live
    <3>4. IsWithin(q, a)
      BY <1>3, <1>7, <3>2, WithinOrder
    <3> QED
      BY <1>1, <3>2, <3>3, <3>4 DEF Disturbs
  <2> QED
    BY <2>5, <2>6, <2>7
<1>8. \A x, o : Is(x, o) /\ o \notin astray' /\ (o \in Held \/ o \in Seen) => Is(x, o)'
  BY <1>1, <1>4, <1>5, <1>7 DEF Is, Live
<1>9. Keeps
  <2>1. \A n, o : Sits(th, table, objs, n, o) /\ o \in Held /\ o \notin astray' => Sits(th, table, objs', n, o)
    BY <1>8 DEF Sits, Is
  <2>2. \A n, o : Leads(n, o)' <=> Sits(th, table, objs', n, o)
    BY <1>2 DEF Leads, Sits, Brings, Over, Still, Spared
  <2> QED
    BY <1>6, <2>1, <2>2 DEF Keeps, Leads
<1>10. Old'
  <2>1. \A q \in DOMAIN objs' : \E x \in DOMAIN objs : objs[x] = objs'[q]
    BY <1>4 DEF Is
  <2> QED
    BY <1>2, <2>1 DEF KInv, Old, Dated
<1> DEFINE T == {}
<1>11. /\ T \in SUBSET Thread /\ \A s \in Thread \ T : th'[s] = th[s]
       /\ \A s \in T : Steps(th[s], th'[s])
       /\ \A s \in T : Placed(th[s])' /\ InFolder(th[s])' /\ Left(s)' /\ Come(s)'
  BY <1>2
<1>12. ASSUME NEW s \in Thread \ T
       PROVE  Firm(s) /\ (th[s].pc = "table" /\ Clear(s) => IsDir(th[s].target)')
  <2>1. ASSUME NEW x, NEW o, Folder(th[s], o), Is(x, o)  PROVE Is(x, o)'
    <3>1. o \in Seen /\ o \notin astray'
      BY <1>14, <2>1 DEF Folder, Sure, Files
    <3> QED
      BY <1>8, <2>1, <3>1
  <2>3. Firm(s)
    BY <1>8, <2>1, InSeen DEF Firm
  <2>2. ASSUME th[s].pc = "table", Clear(s)  PROVE IsDir(th[s].target)'
    <3>1. PICK x, o : x = th[s].target /\ Is(x, o) /\ o.dir
      BY <2>2 DEF Clear, IsDir, Live, Is
    <3>2. x \in Reach(th[s])
      BY <2>2, <3>1 DEF Clear, Reach
    <3>3. ~IsWithin(x, a)
      <4> SUFFICES ASSUME IsWithin(x, a)  PROVE FALSE
        OBVIOUS
      <4>1. IsDir(a)
        BY <1>3, <3>1, FileBelow DEF Is, IsDir, Live
      <4> QED
        BY <1>1, <3>2, <4>1 DEF Disturbs
    <3>4. Is(x, o)'
      BY <1>1, <1>4, <3>1, <3>3 DEF Is, Live
    <3> QED
      BY <1>2, <3>1, <3>4 DEF IsDir, Live, Is
  <2> QED
    BY <2>2, <2>3
<1>13. \A q \in DOMAIN objs' : objs'[q] \in Seen \ astray' => Is(q, objs'[q])
  BY <1>4, <1>7 DEF Is
<1>15. \A o \in Seen : Lives(o)' => Lives(o)
  BY <1>4
<1> HIDE DEF T
<1> QED
  BY <1>4, <1>9, <1>10, <1>11, <1>12, <1>13, <1>14, <1>15, TreeStep

\* rename in the tree: until the table follows, the numbers lead through the rename.
LEMMA RenameCoreKeeps ==
    ASSUME ~raced', IInv, IInv', KInv, NEW t \in Thread, RenameCore(t)
    PROVE  KInv' /\ Keeps
<1>1. /\ th[t].pc = "core" /\ th[t].op = "rename" /\ MayMove(th[t].path, th[t].target)
      /\ IsDir(th[t].path) => ~Under(t, th[t].path) /\ ~Under(t, th[t].target)
      /\ Moved(th[t].path, th[t].target) /\ Goes(t, th[t], "table") /\ UNCHANGED <<made, table, told, astray>>
      /\ Placed(th[t]) /\ InFolder(th[t]) /\ Takes(th[t], Sure) /\ Named(th[t].op)
  BY KInvParts DEF RenameCore, Named, Changes, Removes
<1>2. PICK a, b : a = th[t].path /\ b = th[t].target
  OBVIOUS
<1>3. a \in Path /\ b \in Path /\ MayMove(a, b) /\ Moved(a, b) /\ a \in DOMAIN objs
  BY <1>1, <1>2, ThreadType, Zenon DEF MayMove, Live
<1>4. /\ ~IsWithin(b, a) /\ ~IsWithin(a, b) /\ a # Root /\ b # Root
      /\ \A q \in DOMAIN objs : IsWithin(q, b) => q = b
      /\ \A x, o : Is(x, o) /\ ~IsWithin(x, a) /\ x # b => Is(x, o)'
      /\ \A x, o : Is(x, o) /\ IsWithin(x, a) => Is(Rebase(x, a, b), o)'
      /\ \A q \in DOMAIN objs' : ~IsWithin(q, a) /\ (IsWithin(q, b) \/ Is(q, objs'[q]))
      /\ \A q \in DOMAIN objs' : IsWithin(q, b) =>
              \E x \in DOMAIN objs : Is(x, objs'[q]) /\ IsWithin(x, a) /\ q = Rebase(x, a, b)
      /\ \A o : Lives(o)' => Lives(o) /\ ~Is(b, o)
      /\ Tree'
  BY <1>3, MovedMeans
<1>5. /\ Steps(th[t], th'[t]) /\ th'[t].pc = "table" /\ \A s \in Thread \ {t} : th'[s] = th[s]
  BY <1>1, StepsGoes
<1>6. ASSUME IsDir(a), NEW s \in Thread \ {t}, NEW q \in Reach(th[s])
      PROVE  ~IsWithin(q, a) /\ ~IsWithin(q, b)
  BY <1>1, <1>2, <1>6 DEF Under
<1>7. \A s \in Thread \ {t} : Spared(th, s, a) /\ Spared(th, s, b)
  BY <1>1, <1>2, Untouched
<1>8. ASSUME ~IsDir(a), NEW x \in DOMAIN objs, IsWithin(x, a)  PROVE x = a
  BY <1>3, <1>8, FileBelow
<1>9. Keeps
  <2>1. ASSUME NEW w \in Path, NEW y, NEW o, Brings(th, w, y), Is(y, o), Lives(o)'
        PROVE  \E z : Brings(th', w, z) /\ Is(z, o)'
    <3>1. y # b
      BY <1>4, <2>1
    <3>2. ASSUME NEW s \in Thread, Over(th, s, w), y = Rebase(w, th[s].path, th[s].target)
          PROVE  \E z : Brings(th', w, z) /\ Is(z, o)'
      <4>1. s # t /\ th'[s] = th[s] /\ th[s].pc = "table" /\ th[s].op = "rename"
        BY <1>1, <1>5, <3>2 DEF Over
      <4>2. y \in Path /\ IsWithin(y, th[s].target)
        BY <2>1, <3>2, OverTarget
      <4>3. ~IsWithin(y, a)
        <5>1. ~IsWithin(a, th[s].target)
          BY <1>7, <4>1 DEF Spared
        <5>2. CASE IsDir(a)
          <6>1. ~IsWithin(th[s].target, a)
            BY <1>6, <4>1, <5>2 DEF Reach
          <6> QED
            BY <1>3, <4>2, <5>1, <6>1, ThreadType, WithinOrder
        <5>3. CASE ~IsDir(a)
          BY <1>8, <2>1, <4>2, <5>1, <5>3 DEF Is
        <5> QED
          BY <5>2, <5>3
      <4>4. Is(y, o)'
        BY <1>4, <2>1, <3>1, <4>3
      <4>5. Brings(th', w, y)
        BY <3>2, <4>1 DEF Brings, Over
      <4> QED
        BY <4>4, <4>5
    <3>3. ASSUME y = w, Still(th, w)
          PROVE  \E z : Brings(th', w, z) /\ Is(z, o)'
      <4>1. CASE IsWithin(w, a)
        <5>1. Is(Rebase(w, a, b), o)'
          BY <1>4, <2>1, <3>3, <4>1
        <5>2. Brings(th', w, Rebase(w, a, b))
          BY <1>1, <1>2, <1>5, <4>1 DEF Brings, Over, Steps
        <5> QED
          BY <5>1, <5>2
      <4>2. CASE ~IsWithin(w, a)
        <5>1. Is(w, o)'
          BY <1>4, <2>1, <3>1, <3>3, <4>2
        <5>2. ~IsWithin(w, b)
          BY <1>4, <2>1, <3>1, <3>3 DEF Is
        <5>3. Still(th', w)
          BY <1>2, <1>5, <3>3, <4>2, <5>2 DEF Still, Spared, Steps
        <5> QED
          BY <5>1, <5>3 DEF Brings
      <4> QED
        BY <4>1, <4>2
    <3> QED
      BY <2>1, <3>2, <3>3 DEF Brings
  <2>2. \A n \in DOMAIN table.byIno : table.byIno[n] \in Path
    BY SoundFacts DEF IInv
  <2>3. ASSUME NEW n, NEW o, Leads(n, o), Lives(o)'  PROVE Sits(th', table, objs', n, o)
    <3>1. PICK y \in DOMAIN objs : n \in DOMAIN table.byIno /\ Brings(th, table.byIno[n], y) /\ objs[y] = o
      BY <2>3 DEF Leads, Sits
    <3>2. PICK w : w = table.byIno[n]
      OBVIOUS
    <3>3. PICK z : Brings(th', w, z) /\ Is(z, o)'
      BY <2>1, <2>2, <2>3, <3>1, <3>2 DEF Is
    <3> QED
      BY <3>1, <3>2, <3>3 DEF Sits, Is
  <2>4. \A n, o : Leads(n, o)' <=> Sits(th', table, objs', n, o)
    BY <1>1 DEF Leads, Sits, Brings, Over, Still, Spared
  <2> QED
    BY <2>3, <2>4 DEF Keeps
<1>10. Old'
  <2>1. \A s \in Thread : th'[s].means = th[s].means /\ th'[s].found = th[s].found
    BY <1>5 DEF Steps
  <2>2. \A q \in DOMAIN objs' : \E x \in DOMAIN objs : objs[x] = objs'[q]
    BY <1>4 DEF Is
  <2> QED
    BY <1>1, <2>1, <2>2 DEF KInv, Old, Dated
<1> DEFINE T == {t}
<1>11. /\ T \in SUBSET Thread /\ \A s \in Thread \ T : th'[s] = th[s]
       /\ \A s \in T : Steps(th[s], th'[s])
  BY <1>5
<1>12. Sure' \subseteq Sure
  <2>1. Seen' \subseteq Seen
    BY <1>1, <1>11, SeenSteps, Zenon
  <2> QED
    BY <1>1, <2>1 DEF Sure
<1>13. (Placed(th[t]) /\ InFolder(th[t]) /\ Left(t) /\ Come(t))'
  <2>1. /\ th'[t].op = "rename" /\ th'[t].path = a /\ th'[t].target = b /\ th'[t].pc = "table"
        /\ th'[t].means = th[t].means /\ th'[t].found = th[t].found
        /\ th'[t].excl = th[t].excl /\ th'[t].shared = th[t].shared
    BY <1>1, <1>2, <1>5 DEF Steps
  <2>2. Placed(th[t])'
    BY <2>1 DEF Placed, Removes
  <2>3. Left(t)'
    BY <1>4, <2>1 DEF Left
  <2>4. InFolder(th[t])'
    <3>1. PICK x, o : x = Parent(a) /\ o = th[t].means
      OBVIOUS
    <3>2. PICK y, u : y = Parent(b) /\ u = th[t].found
      OBVIOUS
    <3>3. Is(x, o) /\ Is(y, u) /\ o.dir /\ u.dir /\ o \in th[t].excl /\ u \in th[t].excl
      BY <1>1, <1>2, <3>1, <3>2 DEF InFolder, Changes, Removes
    <3>4. ~IsWithin(x, a) /\ x # b
      BY <1>3, <1>4, <3>1, ParentWithin
    <3>5. ~IsWithin(y, a) /\ y # b
      BY <1>3, <1>4, <3>2, ParentWithin
    <3>6. Is(x, o)' /\ Is(y, u)'
      BY <1>4, <3>3, <3>4, <3>5
    <3> QED
      BY <1>4, <2>1, <3>1, <3>2, <3>3, <3>6 DEF InFolder, Is
  <2>5. Come(t)'
    <3>1. PICK o : Is(a, o) /\ o = objs[a]
      BY <1>3 DEF Is
    <3>2. IsWithin(a, a) /\ Rebase(a, a, b) = b
      BY <1>3, WithinOrder, RebaseTree
    <3>3. CASE IsDir(a)
      <4>1. Is(b, o)' /\ o.dir
        BY <1>4, <3>1, <3>2, <3>3 DEF IsDir
      <4>2. ASSUME NEW s \in Thread \ {t}  PROVE (Reach(th[s]))' = Reach(th[s])
        BY <1>1, <1>5, <4>2 DEF Reach, Writing
      <4>4. ASSUME NEW s \in Thread \ {t}  PROVE (Far(s, th[t].path) /\ Far(s, th[t].target))'
        BY <1>6, <2>1, <3>3, <4>2, <4>4 DEF Far
      <4>3. Clear(t)'
        BY <2>1, <4>1, <4>4 DEF Clear, IsDir, Live, Is
      <4> QED
        BY <1>4, <2>1, <4>3 DEF Come
    <3>4. CASE ~IsDir(a)
      <4>1. ASSUME NEW q \in DOMAIN objs', IsWithin(q, b), objs'[q] \in Sure'
            PROVE  ~objs'[q].dir /\ objs'[q] \in th[t].excl
        <5>1. PICK x \in DOMAIN objs : Is(x, objs'[q]) /\ IsWithin(x, a)
          BY <1>4, <4>1
        <5>2. x = a
          BY <1>8, <3>4, <5>1
        <5>3. objs'[q] = objs[a] /\ objs[a] \in Sure
          BY <1>12, <4>1, <5>1, <5>2 DEF Is
        <5>4. objs[a] \in th[t].excl
          BY <1>1, <1>2, <1>3, <5>3 DEF Takes, Early, Removes
        <5> QED
          BY <1>3, <3>4, <5>3, <5>4 DEF IsDir, Live
      <4> QED
        BY <1>4, <2>1, <4>1 DEF Come
    <3> QED
      BY <3>3, <3>4
  <2> QED
    BY <2>2, <2>3, <2>4, <2>5
<1>14. ASSUME NEW s \in Thread \ T
       PROVE  Firm(s) /\ (th[s].pc = "table" /\ Clear(s) => IsDir(th[s].target)')
\* A folder that another request goes by.
  <2>5. ASSUME NEW x \in Path, NEW o, Is(x, o), o.dir, NEW q \in Reach(th[s]), q \in Path, IsWithin(q, x)
        PROVE  Is(x, o)'
    <3>1. CASE IsDir(a)
      <4>1. ~IsWithin(q, a) /\ ~IsWithin(q, b)
        BY <1>6, <1>14, <2>5, <3>1
      <4>2. ~IsWithin(x, a) /\ x # b
        BY <1>3, <2>5, <4>1, WithinOrder
      <4> QED
        BY <1>4, <2>5, <4>2
    <3>2. CASE ~IsDir(a)
      <4>1. x # b
        BY <1>3, <2>5, <3>2 DEF MayMove, Is, IsDir, Live
      <4>2. ~IsWithin(x, a)
        BY <1>8, <2>5, <3>2 DEF Is, IsDir, Live
      <4> QED
        BY <1>4, <2>5, <4>1, <4>2
    <3> QED
      BY <3>1, <3>2
  <2>1. ASSUME th[s].pc = "table", Clear(s)  PROVE IsDir(th[s].target)'
    <3>1. PICK x, o : x = th[s].target /\ Is(x, o) /\ o.dir
      BY <2>1 DEF Clear, IsDir, Live, Is
    <3>2. x \in Path /\ x \in Reach(th[s]) /\ IsWithin(x, x)
      BY <2>1, <3>1, ThreadType, WithinOrder DEF Clear, Reach
    <3>3. Is(x, o)'
      BY <2>5, <3>1, <3>2
    <3> QED
      BY <1>11, <1>14, <3>1, <3>3 DEF IsDir, Live, Is
  <2>2. ASSUME NEW x, NEW o, Folder(th[s], o), Is(x, o)
        PROVE  Is(x, o)'
    <3>1. o.dir
      BY <2>2 DEF Folder
    <3> QED
      BY <2>2, <2>5, <3>1, FolderReach
  <2>3. ASSUME NEW x, NEW o, x = th[s].path, Is(x, o), Lives(o)', o \notin astray',
               \/ Writing(th[s]) /\ o = th[s].means
               \/ Numbering(th[s]) /\ o = th[s].found
        PROVE  Is(x, o)'
    <3>1. x \in Reach(th[s]) /\ th[s].pc # "idle"
      BY <2>3, Active DEF Reach, Numbering
    <3>2. x # b
      BY <1>4, <2>3
    <3>3. x # a
      <4>1. CASE Writing(th[s]) /\ o = th[s].means
        <5> SUFFICES ASSUME x = a  PROVE FALSE
          OBVIOUS
        <5>1. o \in Sure /\ o \in th[s].excl
          BY <1>1, <2>3, <4>1, InSeen, KInvParts DEF Writes, Sure
        <5>2. o \in th[t].excl
          BY <1>1, <1>2, <2>3, <5>1 DEF Takes, Early, Removes, Is
        <5>3. Apart(th[t], th[s])
          BY <1>14 DEF KInv, Locks
        <5> QED
          BY <1>1, <3>1, <5>1, <5>2, <5>3 DEF Apart
      <4>2. CASE Numbering(th[s]) /\ o = th[s].found
        BY <1>1, <1>2, <1>14, <2>3, <4>2, OwnName DEF Numbering, Changes, Removes
      <4> QED
        BY <2>3, <4>1, <4>2
    <3>4. ~IsWithin(x, a)
      <4>1. CASE IsDir(a)
        BY <1>6, <1>14, <3>1, <4>1
      <4>2. CASE ~IsDir(a)
        BY <1>8, <2>3, <3>3, <4>2 DEF Is
      <4> QED
        BY <4>1, <4>2
    <3> QED
      BY <1>4, <2>3, <3>2, <3>4
  <2>4. Firm(s)
    BY <2>2, <2>3 DEF Firm
  <2> QED
    BY <2>1, <2>4
<1>15. ASSUME NEW q \in DOMAIN objs', objs'[q] \in Seen \ astray'
       PROVE  Is(q, objs'[q]) \/ \A s \in Thread \ T : ~InWay(s, q)
  <2> SUFFICES ASSUME IsWithin(q, b), NEW s \in Thread \ T  PROVE ~InWay(s, q)
    BY <1>4
  <2>3. Spared(th, s, b)
    BY <1>7
  <2>1. CASE IsDir(a)
    <3>1. q \in Path
      BY DEF IInv, TreeOK
    <3>2. ASSUME th[s].pc = "table"  PROVE Spared(th, s, q)
      <4>1. Named(th[s].op)
        BY <3>2, KInvParts DEF Placed, Named, Changes
      <4>2. /\ th[s].path \in Reach(th[s])
            /\ th[s].op = "rename" => th[s].target \in Reach(th[s])
        BY <3>2, <4>1 DEF Reach
      <4>3. /\ ~IsWithin(th[s].path, b)
            /\ th[s].op = "rename" => ~IsWithin(th[s].target, b)
        BY <1>6, <2>1, <4>2
      <4> QED
        BY <1>3, <2>3, <3>1, <3>2, <4>3, ThreadType, WithinOrder DEF Spared
    <3>3. ASSUME Early(th[s])  PROVE q # th[s].path
      <4>1. th[s].path \in Reach(th[s])
        BY <3>3 DEF Early, Reach, Named, Changes
      <4> QED
        BY <1>6, <2>1, <4>1
    <3> QED
      BY <3>2, <3>3 DEF InWay, Spared
  <2>2. CASE ~IsDir(a)
    <3>1. PICK x \in DOMAIN objs : IsWithin(x, a) /\ q = Rebase(x, a, b)
      BY <1>4
    <3>2. q = b
      BY <1>3, <1>8, <2>2, <3>1, RebaseTree
    <3>4. Early(th[s]) => b # th[s].path
      BY <1>1, <1>2, OwnName DEF Early, Changes, Named, Removes
    <3> QED
      BY <2>3, <3>2, <3>4 DEF InWay
  <2> QED
    BY <2>1, <2>2
<1>16. \A s \in T : Placed(th[s])' /\ InFolder(th[s])' /\ Left(s)' /\ Come(s)'
  BY <1>13
<1>17. \A o \in Seen : Lives(o)' => Lives(o)
  BY <1>4
<1>18. Tree' /\ UNCHANGED <<table, told>> /\ Files' /\ astray \subseteq astray'
  BY <1>1, <1>4 DEF KInv, Files
<1> HIDE DEF T
<1> QED
  BY <1>9, <1>10, <1>11, <1>14, <1>15, <1>16, <1>17, <1>18, TreeStep

\* What the table's calls do with a number.
LEMMA RemovedTable ==
    ASSUME NEW u, Sound(u), NEW p \in Path, p # Root
    PROVE  /\ RemoveSubtree(u, p).next = u.next
           /\ \A n \in DOMAIN u.byIno : ~IsWithin(u.byIno[n], p) =>
                 n \in DOMAIN RemoveSubtree(u, p).byIno /\ RemoveSubtree(u, p).byIno[n] = u.byIno[n]
<1> DEFINE doomed == {q \in DOMAIN u.byPath : IsWithin(q, p)}
           freed  == {u.byPath[q] : q \in doomed}
           ino    == Restrict(u.byIno, DOMAIN u.byIno \ freed)
<1>1. \A n \in DOMAIN ino : ino[n] = u.byIno[n]
  BY DEF Restrict
<1>2. DOMAIN ino = DOMAIN u.byIno \ freed
  BY DEF Restrict
<1>3. \A q \in doomed : q \in DOMAIN u.byPath /\ IsWithin(q, p)
  OBVIOUS
<1>4. \A n \in freed : \E q \in doomed : n = u.byPath[q]
  OBVIOUS
<1>5. RemoveSubtree(u, p).byIno = ino /\ RemoveSubtree(u, p).next = u.next
  BY DEF RemoveSubtree
<1> HIDE DEF doomed, freed, ino
<1>6. \A n \in freed : IsWithin(u.byIno[n], p)
  BY <1>3, <1>4, SoundFacts
<1> QED
  BY <1>1, <1>2, <1>5, <1>6

LEMMA RenamedTable ==
    ASSUME NEW u, Sound(u), NEW a \in Path, NEW b \in Path, a # b, a # Root, b # Root
    PROVE  /\ Rename(u, a, b).next = u.next
           /\ \A n \in DOMAIN u.byIno : ~IsWithin(u.byIno[n], b) =>
                 /\ n \in DOMAIN Rename(u, a, b).byIno
                 /\ Rename(u, a, b).byIno[n] = IF IsWithin(u.byIno[n], a) THEN Rebase(u.byIno[n], a, b)
                                               ELSE u.byIno[n]
<1> DEFINE v      == RemoveSubtree(u, b)
           moving == {q \in DOMAIN v.byPath : IsWithin(q, a)}
<1>1. /\ v.next = u.next /\ Sound(v)
      /\ \A n \in DOMAIN u.byIno : ~IsWithin(u.byIno[n], b) => n \in DOMAIN v.byIno /\ v.byIno[n] = u.byIno[n]
  BY RemovedTable, RemoveSubtreeSound
<1>2. /\ Rename(u, a, b).next = v.next /\ DOMAIN Rename(u, a, b).byIno = DOMAIN v.byIno
      /\ \A n \in DOMAIN v.byIno :
            Rename(u, a, b).byIno[n] = IF v.byIno[n] \in moving THEN Rebase(v.byIno[n], a, b) ELSE v.byIno[n]
  BY DEF Rename
<1> HIDE DEF v
<1>3. \A n \in DOMAIN v.byIno : v.byIno[n] \in moving <=> IsWithin(v.byIno[n], a)
  BY <1>1, SoundFacts
<1> HIDE DEF moving
<1> QED
  BY <1>1, <1>2, <1>3

\* The table follows the tree: what it owed is what it does.
LEMMA TableLeads ==
    ASSUME IInv, KInv, NEW t \in Thread, Table(t), NEW n \in DOMAIN table.byIno,
           NEW q, Brings(th, table.byIno[n], q), q \in DOMAIN objs
    PROVE  n \in DOMAIN table'.byIno /\ Brings(th', table'.byIno[n], q)
<1>1. /\ th[t].pc = "table" /\ th' = [th EXCEPT ![t] = Idle]
      /\ table' = IF th[t].op = "rename" THEN Rename(table, th[t].path, th[t].target)
                                         ELSE RemoveSubtree(table, th[t].path)
      /\ Placed(th[t]) /\ Left(t) /\ Come(t)
  BY KInvParts DEF Table, Done
<1>2. th'[t].pc = "idle" /\ \A s \in Thread \ {t} : th'[s] = th[s]
  BY <1>1, IdleType, Zenon DEF IInv, ThreadsOK
<1>3. PICK a, b, w : a = th[t].path /\ b = th[t].target /\ w = table.byIno[n]
  OBVIOUS
<1>4. a \in Path /\ b \in Path /\ w \in Path /\ a # Root /\ Sound(table)
  BY <1>1, <1>3, ThreadType, SoundFacts DEF Left, IInv
<1>5. th[t].op = "rename" => ~IsWithin(b, a) /\ ~IsWithin(a, b) /\ a # b /\ b # Root
  BY <1>1, <1>3, <1>4, RootWithin, WithinOrder DEF Come
<1>6. \/ th[t].op = "rename" /\ ~IsWithin(w, b) /\ IsWithin(w, a)
                             /\ n \in DOMAIN table'.byIno /\ table'.byIno[n] = Rebase(w, a, b)
      \/ /\ ~IsWithin(w, a) /\ (th[t].op = "rename" => ~IsWithin(w, b))
         /\ n \in DOMAIN table'.byIno /\ table'.byIno[n] = w
      \/ ~Spared(th, t, w) /\ ~Over(th, t, w)
      \/ th[t].op = "rename" /\ IsWithin(w, b) /\ IsWithin(w, a)
  <2>1. CASE th[t].op = "rename"
    <3>1. ~IsWithin(w, b) => /\ n \in DOMAIN table'.byIno
                             /\ table'.byIno[n] = IF IsWithin(w, a) THEN Rebase(w, a, b) ELSE w
      BY <1>1, <1>3, <1>4, <1>5, <2>1, RenamedTable
    <3> QED
      BY <1>1, <1>3, <2>1, <3>1 DEF Spared, Over
  <2>2. CASE th[t].op # "rename"
    <3>1. ~IsWithin(w, a) => n \in DOMAIN table'.byIno /\ table'.byIno[n] = w
      BY <1>1, <1>3, <1>4, <2>2, RemovedTable
    <3> QED
      BY <1>1, <1>3, <2>2, <3>1 DEF Spared, Over
  <2> QED
    BY <2>1, <2>2
<1>7. ~(th[t].op = "rename" /\ IsWithin(w, b) /\ IsWithin(w, a))
  BY <1>4, <1>5, WithinOrder
\* A path that another rename moves.
<1>8. ASSUME NEW s \in Thread, s # t, Over(th, s, w), q = Rebase(w, th[s].path, th[s].target)
      PROVE  n \in DOMAIN table'.byIno /\ Brings(th', table'.byIno[n], q)
  <2>1. Spared(th, t, th[s].path) /\ Spared(th, s, a) /\ (th[t].op = "rename" => Spared(th, s, b))
    BY <1>1, <1>3, <1>8, Spread DEF Over
  <2>2. ~IsWithin(w, a) /\ (th[t].op = "rename" => ~IsWithin(w, b))
    BY <1>1, <1>3, <1>4, <1>8, <2>1, ThreadType, WithinOrder DEF Over, Spared
  <2>3. n \in DOMAIN table'.byIno /\ table'.byIno[n] = w
    BY <1>3, <1>6, <2>2 DEF Spared
  <2> QED
    BY <1>2, <1>8, <2>3 DEF Brings, Over
\* A path that this rename moves.
<1>9. ASSUME Over(th, t, w), q = Rebase(w, a, b)
      PROVE  n \in DOMAIN table'.byIno /\ Brings(th', table'.byIno[n], q)
  <2>1. n \in DOMAIN table'.byIno /\ table'.byIno[n] = q
    BY <1>3, <1>6, <1>7, <1>9 DEF Over
  <2>2. q \in Path /\ IsWithin(q, b)
    BY <1>3, <1>4, <1>9, OverTarget
  <2>3. ASSUME NEW s \in Thread  PROVE Spared(th', s, q)
    <3>1. CASE s = t
      BY <1>2, <3>1 DEF Spared
    <3>2. ASSUME s # t, th[s].pc = "table"  PROVE Spared(th, s, q)
      <4>1. /\ Spared(th, s, b) /\ Spared(th, t, th[s].path)
            /\ th[s].op = "rename" => Spared(th, t, th[s].target)
        BY <1>1, <1>3, <1>9, <3>2, Spread DEF Over
      <4> QED
        BY <1>1, <1>3, <1>4, <1>9, <2>2, <3>2, <4>1, ThreadType, WithinOrder DEF Spared, Over
    <3>3. CASE s # t /\ th[s].pc # "table"
      BY <1>2, <3>3 DEF Spared
    <3> QED
      BY <1>2, <3>1, <3>2, <3>3 DEF Spared
  <2> QED
    BY <2>1, <2>3 DEF Brings, Still
<1>10. ASSUME q = w, Still(th, w)
       PROVE  n \in DOMAIN table'.byIno /\ Brings(th', table'.byIno[n], q)
  <2>1. Spared(th, t, w)
    BY <1>10 DEF Still
  <2>2. n \in DOMAIN table'.byIno /\ table'.byIno[n] = w
    BY <1>1, <1>3, <1>6, <2>1 DEF Spared
  <2>3. Still(th', w)
    BY <1>2, <1>10 DEF Still, Spared
  <2> QED
    BY <1>10, <2>2, <2>3 DEF Brings
<1> QED
  BY <1>3, <1>8, <1>9, <1>10 DEF Brings

LEMMA TableKeeps == ASSUME IInv, IInv', KInv, NEW t \in Thread, Table(t) PROVE KInv' /\ Keeps
<1>1. /\ th[t].pc = "table" /\ th' = [th EXCEPT ![t] = Idle] /\ UNCHANGED <<objs, made, told, astray>>
      /\ table' = IF th[t].op = "rename" THEN Rename(table, th[t].path, th[t].target)
                                         ELSE RemoveSubtree(table, th[t].path)
      /\ Placed(th[t]) /\ Left(t) /\ Come(t)
  BY KInvParts DEF Table, Done, noted
<1>2. /\ Idle \in RequestType /\ Idle.pc = "idle" /\ Idle.op = "none"
      /\ Idle.means = Nothing /\ Idle.found = Nothing /\ Idle.excl = {} /\ Idle.shared = {}
  BY IdleType, Zenon DEF Idle
<1> HIDE DEF Idle
<1>3. th'[t] = Idle /\ \A s \in Thread \ {t} : th'[s] = th[s]
  BY <1>1 DEF IInv, ThreadsOK
<1>4. PICK a, b : a = th[t].path /\ b = th[t].target
  OBVIOUS
<1>5. a \in Path /\ b \in Path /\ a # Root /\ Sound(table)
  BY <1>1, <1>4, ThreadType DEF Left, IInv
<1>6. th[t].op = "rename" => ~IsWithin(b, a) /\ ~IsWithin(a, b) /\ a # b /\ b # Root
  BY <1>1, <1>4, <1>5, RootWithin, WithinOrder DEF Come
<1>7. table'.next = table.next
  BY <1>1, <1>4, <1>5, <1>6, RenamedTable, RemovedTable
<1>8. \A n, o : Leads(n, o) => Leads(n, o)'
  <2>1. \A n, o : Leads(n, o) => Sits(th', table', objs, n, o)
    BY TableLeads DEF Leads, Sits
  <2>2. \A n, o : Leads(n, o)' <=> Sits(th', table', objs, n, o)
    BY <1>1 DEF Leads, Sits, Brings, Over, Still, Spared
  <2> QED
    BY <2>1, <2>2
<1>9. Keeps
  BY <1>8 DEF Keeps
<1>10. Tree'
  BY <1>1 DEF KInv, Tree
<1>11. Old'
  <2>1. ASSUME NEW s \in Thread  PROVE Dated(th'[s])
    <3>1. CASE s = t
      BY <1>2, <1>3, <3>1 DEF Dated, Nothing, IInv, TreeOK
    <3>2. CASE s # t
      BY <1>3, <3>2 DEF KInv, Old
    <3> QED
      BY <3>1, <3>2
  <2> QED
    BY <1>1, <1>7, <2>1 DEF KInv, Old, Dated
<1>12. Locks' /\ Files'
  BY <1>1, <1>2, <1>3 DEF KInv, Locks, Apart, Files
<1>13. ToldLeads'
  BY <1>1, <1>8 DEF KInv, ToldLeads, Lives
<1>14. ~Named(Idle.op) /\ Idle.op # "rename" /\ ~Writing(Idle) /\ ~Numbering(Idle) /\ ~Early(Idle)
  BY <1>2 DEF Named, Writing, Numbering, Early, Changes, Removes
<1>15. Sure' \subseteq Sure
  <2>1. ASSUME NEW s \in Thread  PROVE SeenBy(th'[s]) \subseteq SeenBy(th[s])
    BY <1>2, <1>3, <1>14 DEF SeenBy
  <2>2. \A s \in Thread : SeenBy(th[s])' = SeenBy(th'[s])
    BY DEF SeenBy
  <2>3. Seen' = {told[n] : n \in DOMAIN told} \union UNION {SeenBy(th'[s]) : s \in Thread}
    BY <1>1, <2>2 DEF Seen
  <2>4. {told[n] : n \in DOMAIN told} \subseteq Seen /\ \A s \in Thread : SeenBy(th[s]) \subseteq Seen
    BY InSeen
  <2>5. Seen' \subseteq Seen
    BY <2>1, <2>3, <2>4
  <2> QED
    BY <1>1, <2>5 DEF Sure
\* The path of a rename's second folder stays.
<1>18. ASSUME NEW s \in Thread, s # t, th[s].op = "rename", th[s].pc = "resolve"
       PROVE  Knows(table', th[s].to[1]) /\ table'.byIno[th[s].to[1]] = table.byIno[th[s].to[1]]
  <2>1. PICK n : n = th[s].to[1]
    OBVIOUS
  <2>2. /\ n \in DOMAIN table.byIno /\ Is(table.byIno[n], th[s].found) /\ th[s].found.dir
        /\ th[s].found \in Sure
    BY <1>18, <2>1, InSeen, SureFolder, KInvParts DEF InFolder, Named, Changes, Removes, Knows
  <2>3. Spared(th, t, table.byIno[n])
    <3>1. CASE Clear(t)
      <4>1. table.byIno[n] \in Reach(th[s])
        BY <1>18, <2>1, <2>2 DEF Reach
      <4> QED
        BY <1>18, <3>1, <4>1 DEF Clear, Far, Spared
    <3>2. CASE ~Clear(t)
      BY <2>2, <3>2, SeenSpared
    <3> QED
      BY <3>1, <3>2
  <2>4. n \in DOMAIN table'.byIno /\ table'.byIno[n] = table.byIno[n]
    BY <1>1, <1>4, <1>5, <1>6, <2>2, <2>3, RenamedTable, RemovedTable DEF Spared
  <2> QED
    BY <2>1, <2>4 DEF Knows
<1>19. ASSUME NEW s \in Thread  PROVE (Reach(th[s]))' \subseteq Reach(th[s])
  <2>1. CASE s = t
    BY <1>3, <1>14, <2>1 DEF Reach, Writing
  <2>2. CASE s # t /\ th[s].op = "rename" /\ th[s].pc = "resolve"
    <3>1. th'[s] = th[s]
      BY <1>3, <2>2
    <3>2. InFolder(th[s]) /\ Knows(table, th[s].to[1])
      BY <2>2, KInvParts DEF InFolder, Named, Changes, Removes
    <3> QED
      BY <1>18, <2>2, <3>1, <3>2 DEF Reach, Writing, Knows
  <2>3. CASE s # t /\ ~(th[s].op = "rename" /\ th[s].pc = "resolve")
    BY <1>3, <2>3 DEF Reach, Writing
  <2> QED
    BY <2>1, <2>2, <2>3
<1>16. ASSUME NEW s \in Thread
       PROVE  /\ (Placed(th[s]) /\ InFolder(th[s]) /\ Writes(th[s]) /\ Finds(th[s]))'
              /\ (Left(s) /\ Come(s) /\ Takes(th[s], Sure))'
  <2>1. CASE s = t
    <3>1. Placed(Idle) /\ Idle.pc = "idle" /\ ~Numbering(Idle) /\ ~Writing(Idle)
      BY <1>2, <1>14 DEF Placed
    <3>2. (Placed(th[s]) /\ InFolder(th[s]) /\ Writes(th[s]) /\ Finds(th[s]))'
      BY <1>2, <1>3, <1>14, <2>1, <3>1 DEF Placed, InFolder, Writes, Finds, Writing, Numbering
    <3>3. (Left(s) /\ Come(s) /\ Takes(th[s], Sure))'
      BY <1>2, <1>3, <1>14, <2>1 DEF Left, Come, Takes, Early
    <3> QED
      BY <3>2, <3>3
  <2>2. CASE s # t
    <3>0. th'[s] = th[s]
      BY <1>3, <2>2
    <3>1. /\ Placed(th[s]) /\ InFolder(th[s]) /\ Writes(th[s]) /\ Finds(th[s])
          /\ Left(s) /\ Come(s) /\ Takes(th[s], Sure)
      BY KInvParts
    <3>2. (Placed(th[s]) /\ Finds(th[s]))'
      BY <1>1, <3>0, <3>1 DEF Placed, Finds, Numbering, Is, Lives
    <3>3. Writes(th[s])'
      <4>1. PICK n, o : n = th[s].ino /\ o = th[s].means
        OBVIOUS
      <4>2. Leads(n, o) => Leads(n, o)'
        BY <1>8
      <4>3. Leads(n, o) => Sits(th', table', objs', th'[s].ino, th'[s].means)
        BY <3>0, <4>1, <4>2 DEF Leads, Sits, Brings, Over, Still, Spared
      <4>4. Leads(n, o) => Leads(th[s].ino, th[s].means)'
        BY <4>3 DEF Leads, Sits, Brings, Over, Still, Spared
      <4> QED
        BY <1>1, <3>0, <3>1, <4>1, <4>4 DEF Writes, Writing, Is, Lives
    <3>4. InFolder(th[s])'
      <4>1. ASSUME th[s].op = "rename", th[s].pc = "resolve"
            PROVE  Knows(table', th[s].to[1]) /\ table'.byIno[th[s].to[1]] = table.byIno[th[s].to[1]]
        BY <1>18, <2>2, <4>1
      <4> QED
        BY <1>1, <3>0, <3>1, <4>1, Zenon DEF InFolder, Is, Knows
    <3>5. (Left(s) /\ Takes(th[s], Sure))'
      BY <1>1, <1>15, <3>0, <3>1 DEF Left, Takes, Early
    <3>6. ASSUME Clear(s)  PROVE Clear(s)'
      <4>1. ASSUME NEW u \in Thread \ {s}  PROVE (Far(u, th[s].path) /\ Far(u, th[s].target))'
        BY <1>19, <3>0, <3>6, <4>1 DEF Clear, Far
      <4> QED
        BY <1>1, <3>0, <3>6, <4>1 DEF Clear, IsDir, Live
    <3>7. Come(s)'
      BY <1>1, <1>15, <3>0, <3>1, <3>6 DEF Come
    <3> QED
      BY <3>2, <3>3, <3>4, <3>5, <3>7
  <2> QED
    BY <2>1, <2>2
<1>17. KInv'
  BY <1>10, <1>11, <1>12, <1>13, <1>16 DEF KInv
<1> QED
  BY <1>9, <1>17

-----------------------------------------------------------------------------
\* The first numbers.
LEMMA InitTree ==
    ASSUME NEW d \in Name, NEW f \in Name
    PROVE  /\ <<d>> \in Path /\ <<d, f>> \in Path /\ Root # <<d>> /\ Root # <<d, f>> /\ <<d>> # <<d, f>>
           /\ Len(Root) = 0 /\ Len(<<d>>) = 1 /\ Len(<<d, f>>) = 2
           /\ \A x \in Path : IsWithin(Root, x) => x = Root
           /\ \A x \in Path : IsWithin(<<d>>, x) => x \in {Root, <<d>>}
           /\ \A x \in Path : IsWithin(<<d, f>>, x) => x \in {Root, <<d>>, <<d, f>>}
<1>1. <<d>> = Join(Root, d) /\ <<d, f>> = Join(<<d>>, f)
  BY DEF Join, Root
<1>2. <<d>> \in Path /\ <<d, f>> \in Path /\ Root \in Path
  BY <1>1, RootPath, JoinPath
<1>3. /\ Parent(<<d>>) = Root /\ <<d>> # Root
      /\ Parent(<<d, f>>) = <<d>> /\ <<d, f>> # Root
  BY <1>1, <1>2, JoinMeans
<1>4. \A x \in Path : IsWithin(Root, x) => x = Root
  BY <1>2, RootWithin, WithinOrder
<1>5. \A x \in Path : IsWithin(<<d>>, x) => x \in {Root, <<d>>}
  BY <1>2, <1>3, <1>4, ParentWithin
<1>6. \A x \in Path : IsWithin(<<d, f>>, x) => x \in {Root, <<d>>, <<d, f>>}
  BY <1>2, <1>3, <1>5, ParentWithin
<1>7. Len(Root) = 0 /\ Len(<<d>>) = 1 /\ Len(<<d, f>>) = 2
  BY DEF Root
<1> QED
  BY <1>2, <1>3, <1>4, <1>5, <1>6, <1>7

LEMMA InitNumbers ==
    ASSUME NEW d \in Name, NEW f \in Name, NEW seen \in 2 .. 3, NEW u,
           u = IF seen = 2 THEN Assigned(New, <<d>>) ELSE Assigned(Assigned(New, <<d>>), <<d, f>>)
    PROVE  /\ 1 .. seen \subseteq DOMAIN u.byIno /\ u.next = seen + 1
           /\ u.byIno[1] = Root /\ u.byIno[2] = <<d>> /\ (seen = 3 => u.byIno[3] = <<d, f>>)
<1>1. /\ New.byIno = [n \in {1} |-> Root] /\ New.byPath = [p \in {Root} |-> 1] /\ New.next = 2
  BY DEF New, RootIno
<1> DEFINE v == Assigned(New, <<d>>)
<1>2. v = [byIno |-> Insert(New.byIno, 2, <<d>>), byPath |-> Insert(New.byPath, <<d>>, 2), next |-> 3]
  BY <1>1, InitTree DEF Assigned
<1>3. /\ DOMAIN v.byIno = {1, 2} /\ v.byIno[1] = Root /\ v.byIno[2] = <<d>> /\ v.next = 3
      /\ DOMAIN v.byPath = {Root, <<d>>}
  BY <1>1, <1>2 DEF Insert
<1> HIDE DEF v
<1>4. CASE seen = 2
  BY <1>3, <1>4 DEF v
<1>5. CASE seen = 3
  <2>1. u = [byIno |-> Insert(v.byIno, 3, <<d, f>>), byPath |-> Insert(v.byPath, <<d, f>>, 3), next |-> 4]
    BY <1>3, <1>5, InitTree DEF Assigned, v
  <2> QED
    BY <1>3, <1>5, <2>1 DEF Insert
<1> QED
  BY <1>4, <1>5

LEMMA InitObject == ASSUME NEW p, Len(p) \in 0 .. 2
    PROVE  /\ Len(p) = 0 => [id |-> Len(p) + 1, dir |-> Len(p) < 2] = [id |-> 1, dir |-> TRUE]
           /\ Len(p) = 1 => [id |-> Len(p) + 1, dir |-> Len(p) < 2] = [id |-> 2, dir |-> TRUE]
           /\ Len(p) = 2 => [id |-> Len(p) + 1, dir |-> Len(p) < 2] = [id |-> 3, dir |-> FALSE]
<1>1. /\ Len(p) = 0 => Len(p) + 1 = 1
      /\ Len(p) = 1 => Len(p) + 1 = 2
      /\ Len(p) = 2 => Len(p) + 1 = 3
  <2>1. \A k \in 0 .. 2 : (k = 0 => k + 1 = 1) /\ (k = 1 => k + 1 = 2) /\ (k = 2 => k + 1 = 3)
    OBVIOUS
  <2> QED
    BY <2>1, Zenon
<1>2. /\ Len(p) = 0 => (Len(p) < 2) = TRUE
      /\ Len(p) = 1 => (Len(p) < 2) = TRUE
      /\ Len(p) = 2 => (Len(p) < 2) = FALSE
  OBVIOUS
<1> QED
  BY <1>1, <1>2, Zenon

LEMMA InitTold == ASSUME NEW n \in 1 .. 3
    PROVE  [id |-> n, dir |-> n < 3] = IF n = 1 THEN [id |-> 1, dir |-> TRUE]
                                       ELSE IF n = 2 THEN [id |-> 2, dir |-> TRUE] ELSE [id |-> 3, dir |-> FALSE]
<1>1. n = 1 \/ n = 2 \/ n = 3
  OBVIOUS
<1>2. /\ n = 1 => (n < 3) = TRUE
      /\ n = 2 => (n < 3) = TRUE /\ n # 1
      /\ n = 3 => (n < 3) = FALSE /\ n # 1 /\ n # 2
  OBVIOUS
<1> QED
  BY <1>1, <1>2, Zenon

LEMMA InitKInv == Init => KInv
<1> SUFFICES ASSUME Init PROVE KInv
  OBVIOUS
<1>1. PICK d, f \in Name, seen \in 2 .. 3 :
        LET paths == {Root, <<d>>, <<d, f>>}
        IN  /\ d # f
            /\ objs = [p \in paths |-> [id |-> Len(p) + 1, dir |-> Len(p) < 2]]
            /\ table = IF seen = 2 THEN Assigned(New, <<d>>) ELSE Assigned(Assigned(New, <<d>>), <<d, f>>)
            /\ told = [n \in 1 .. seen |-> [id |-> n, dir |-> n < 3]]
            /\ made = 3
            /\ th = [t \in Thread |-> Idle]
            /\ lists = {}
            /\ wrote = [meant |-> Nothing, changed |-> Nothing, lives |-> FALSE]
            /\ astray = {} /\ raced = FALSE
            /\ left = Events
  BY Zenon DEF Init
<1>2. /\ DOMAIN objs = {Root, <<d>>, <<d, f>>}
      /\ objs[Root] = [id |-> 1, dir |-> TRUE]
      /\ objs[<<d>>] = [id |-> 2, dir |-> TRUE]
      /\ objs[<<d, f>>] = [id |-> 3, dir |-> FALSE]
  <2> DEFINE paths == {Root, <<d>>, <<d, f>>}
  <2>1. objs = [p \in paths |-> [id |-> Len(p) + 1, dir |-> Len(p) < 2]]
    BY <1>1
  <2>2. Root \in paths /\ <<d>> \in paths /\ <<d, f>> \in paths
    OBVIOUS
  <2>3. Len(Root) = 0 /\ Len(<<d>>) = 1 /\ Len(<<d, f>>) = 2
    BY InitTree, Zenon
  <2>4. DOMAIN objs = paths
    BY <2>1
  <2> HIDE DEF paths
  <2>5. objs[Root] = [id |-> 1, dir |-> TRUE]
    <3>1. objs[Root] = [id |-> Len(Root) + 1, dir |-> Len(Root) < 2]
      BY <2>1, <2>2, Zenon
    <3>2. Len(Root) \in 0 .. 2
      BY <2>3
    <3> QED
      BY <2>3, <3>1, <3>2, InitObject, Zenon
  <2>6. objs[<<d>>] = [id |-> 2, dir |-> TRUE]
    <3>1. objs[<<d>>] = [id |-> Len(<<d>>) + 1, dir |-> Len(<<d>>) < 2]
      BY <2>1, <2>2, Zenon
    <3>2. Len(<<d>>) \in 0 .. 2
      BY <2>3
    <3> QED
      BY <2>3, <3>1, <3>2, InitObject, Zenon
  <2>7. objs[<<d, f>>] = [id |-> 3, dir |-> FALSE]
    <3>1. objs[<<d, f>>] = [id |-> Len(<<d, f>>) + 1, dir |-> Len(<<d, f>>) < 2]
      BY <2>1, <2>2, Zenon
    <3>2. Len(<<d, f>>) \in 0 .. 2
      BY <2>3
    <3> QED
      BY <2>3, <3>1, <3>2, InitObject, Zenon
  <2> QED
    BY <2>4, <2>5, <2>6, <2>7 DEF paths
<1>3. Tree
  <2>1. \A q \in DOMAIN objs, p \in Path : IsWithin(q, p) /\ p # q => p \in {Root, <<d>>}
    BY <1>2, InitTree
  <2>2. \A p, q \in DOMAIN objs : objs[p] = objs[q] => p = q
    BY <1>2
  <2> QED
    BY <1>2, <2>1, <2>2 DEF Tree
<1>4. /\ Idle.pc = "idle" /\ Idle.op = "none"
      /\ Idle.means = Nothing /\ Idle.found = Nothing
  BY DEF Idle
<1>5. \A t \in Thread : th[t] = Idle
  BY <1>1
<1>6. /\ 1 .. seen \subseteq DOMAIN table.byIno /\ table.next = seen + 1
      /\ table.byIno[1] = Root /\ table.byIno[2] = <<d>> /\ (seen = 3 => table.byIno[3] = <<d, f>>)
  <2>1. PICK u : u = table
    OBVIOUS
  <2>2. u = IF seen = 2 THEN Assigned(New, <<d>>) ELSE Assigned(Assigned(New, <<d>>), <<d, f>>)
    BY <1>1, <2>1
  <2>3. /\ 1 .. seen \subseteq DOMAIN u.byIno /\ u.next = seen + 1
        /\ u.byIno[1] = Root /\ u.byIno[2] = <<d>> /\ (seen = 3 => u.byIno[3] = <<d, f>>)
    BY <2>2, InitNumbers
  <2> QED
    BY <2>1, <2>3
<1>7. DOMAIN told = 1 .. seen /\ \A n \in 1 .. seen : told[n] = [id |-> n, dir |-> n < 3]
  BY <1>1
<1>8. Old
  <2>1. \A p \in DOMAIN objs : objs[p].id <= 3
    BY <1>2
  <2>2. \A n \in DOMAIN told : told[n].id <= 3 /\ n < table.next
    BY <1>6, <1>7
  <2>3. \A t \in Thread : Dated(th[t])
    BY <1>1, <1>4, <1>5 DEF Dated, Nothing
  <2> QED
    BY <1>1, <2>1, <2>2, <2>3, Zenon DEF Old
<1>9. ToldLeads
  <2>1. ASSUME NEW n \in 1 .. seen  PROVE Leads(n, told[n])
    <3>1. n \in DOMAIN table.byIno /\ table.byIno[n] \in DOMAIN objs /\ objs[table.byIno[n]] = told[n]
      <4>1. n = 1 \/ n = 2 \/ (n = 3 /\ seen = 3)
        OBVIOUS
      <4>2. told[n] = [id |-> n, dir |-> n < 3]
        BY <1>7
      <4> QED
        <5>0. told[n] = IF n = 1 THEN [id |-> 1, dir |-> TRUE]
                        ELSE IF n = 2 THEN [id |-> 2, dir |-> TRUE] ELSE [id |-> 3, dir |-> FALSE]
          <6>1. n \in 1 .. 3
            OBVIOUS
          <6> QED
            BY <4>2, <6>1, InitTold, Zenon
        <5>1. CASE n = 1
          BY <1>2, <1>6, <5>0, <5>1, Zenon
        <5>2. CASE n = 2
          BY <1>2, <1>6, <5>0, <5>2
        <5>3. CASE n = 3 /\ seen = 3
          BY <1>2, <1>6, <5>0, <5>3
        <5> QED
          BY <4>1, <5>1, <5>2, <5>3
    <3>2. Brings(th, table.byIno[n], table.byIno[n])
      BY <1>4, <1>5 DEF Brings, Still, Spared
    <3> QED
      BY <3>1, <3>2 DEF Leads, Sits
  <2> QED
    BY <1>7, <2>1 DEF ToldLeads
<1>10. ASSUME NEW t \in Thread
       PROVE  /\ Placed(th[t]) /\ InFolder(th[t]) /\ Writes(th[t]) /\ Finds(th[t])
              /\ Left(t) /\ Come(t) /\ Takes(th[t], Sure)
  BY <1>4, <1>5 DEF Placed, InFolder, Writes, Finds, Left, Come, Takes, Early, Named, Writing, Numbering,
                    Changes, Removes
<1>11. Locks /\ Files
  BY <1>1, <1>4, <1>5 DEF Locks, Apart, Files
<1> QED
  BY <1>3, <1>8, <1>9, <1>10, <1>11 DEF KInv

-----------------------------------------------------------------------------
\* A thread that neither begins nor ends to be pending, while numbers are at most added.
LEMMA CalmKeeps ==
    ASSUME IInv, UNCHANGED objs, Longer, NEW t \in Thread, NEW r, th' = [th EXCEPT ![t] = r],
           th[t].pc # "table", r.pc # "table"
    PROVE  Keeps
BY LongerLeads, Zenon DEF Keeps

LEMMA SameLonger == ASSUME IInv, UNCHANGED table PROVE Longer
BY DEF Longer, IInv, Sound, TableType

LEMMA RequestKeeps == ASSUME IInv, NEW t \in Thread, Request(t) PROVE Keeps
<1>1. \E r : Begin(t, r)
  BY ZenonT(40) DEF Request, BeginNamed, BeginRename, BeginByNumber, BeginReaddir
<1>2. PICK r : Begin(t, r)
  BY <1>1
<1>3. th' = [th EXCEPT ![t] = Resolved(r)] /\ th[t].pc # "table" /\ UNCHANGED <<objs, table>>
  BY <1>2 DEF Begin
<1>4. Resolved(r).pc # "table"
  BY DEF Resolved, Then, Idle
<1> QED
  BY <1>3, <1>4, SameLonger, CalmKeeps, Zenon

LEMMA CallKeeps ==
    ASSUME IInv, NEW t \in Thread,
           \/ ResolveTarget(t) \/ CheckTarget(t) \/ Attr(t) \/ Answer(t) \/ Dots(t) \/ NextName(t)
           \/ Write(t) \/ SetAttr(t) \/ OpenDir(t) \/ Refused(t)
    PROVE  Keeps
<1>1. UNCHANGED objs /\ th[t].pc # "table" /\ th \in [Thread -> RequestType]
  BY DEF ResolveTarget, CheckTarget, Attr, Answer, Dots, NextName, Write, SetAttr, Overwrites, OpenDir,
         Refused, IInv, ThreadsOK
<1>2. th[t] \in RequestType /\ th[t].path \in Path /\ Parent(th[t].path) \in Path
  BY ThreadType, ParentPath
<1>3. Longer
  <2>1. CASE Answer(t)
    BY <1>2, <2>1, AddedLonger DEF Answer
  <2>2. CASE Dots(t)
    BY <1>2, <2>2, AddedLonger DEF Dots
  <2>3. CASE NextName(t)
    <3>1. \A n \in th[t].left : Join(th[t].path, n) \in Path
      BY <1>2, JoinPath, Zenon DEF RequestType
    <3> QED
      BY <2>3, <3>1, AddedLonger, SameLonger, Zenon DEF NextName
  <2>4. CASE \/ ResolveTarget(t) \/ CheckTarget(t) \/ Attr(t)
             \/ Write(t) \/ SetAttr(t) \/ OpenDir(t) \/ Refused(t)
    BY <2>4, SameLonger DEF ResolveTarget, CheckTarget, Attr, Write, SetAttr, Overwrites, OpenDir, Refused
  <2> QED
    BY <2>1, <2>2, <2>3, <2>4
<1>4. ASSUME NEW u \in RequestType, NEW pc \in {"check", "core", "number", "names", "attr"}, Goes(t, u, pc)
      PROVE  Keeps
  <2>1. PICK r : r = [u EXCEPT !.pc = pc]
    BY Zenon
  <2>2. r.pc = pc /\ th' = [th EXCEPT ![t] = r]
    BY <1>4, <2>1, Zenon DEF Goes, RequestType
  <2> QED
    BY <1>1, <1>3, <2>2, CalmKeeps, Zenon
<1>5. ASSUME Done(t)  PROVE Keeps
  <2>1. Idle.pc # "table" /\ th' = [th EXCEPT ![t] = Idle]
    BY <1>5, Zenon DEF Done, Idle
  <2> QED
    BY <1>1, <1>3, <2>1, CalmKeeps, Zenon
<1>6. Done(t) \/ \E u \in RequestType, pc \in {"check", "core", "number", "names", "attr"} : Goes(t, u, pc)
  <2>1. CASE CheckTarget(t) \/ Dots(t) \/ SetAttr(t) \/ Answer(t) \/ Write(t) \/ OpenDir(t) \/ Refused(t)
    BY <1>2, <2>1 DEF CheckTarget, Dots, SetAttr, Answer, Write, OpenDir, Refused
  <2>2. CASE ResolveTarget(t)
    <3> DEFINE p == Join(table.byIno[th[t].to[1]], th[t].to[2])
               u == [th[t] EXCEPT !.target = p]
    <3>1. CASE ~Knows(table, th[t].to[1])
      BY <2>2, <3>1 DEF ResolveTarget
    <3>2. CASE Knows(table, th[t].to[1])
      <4>1. th[t].to[2] \in Name
        BY <2>2 DEF ResolveTarget, IInv, ThreadsOK
      <4>2. table.byIno[th[t].to[1]] \in Path
        BY <3>2 DEF IInv, Sound, TableType, Knows
      <4>3. p \in Path
        BY <4>1, <4>2, JoinPath
      <4> HIDE DEF p
      <4>4. u \in RequestType
        BY <1>2, <4>3, Zenon DEF RequestType
      <4>5. Goes(t, u, IF th[t].keep THEN "check" ELSE "core")
        BY <2>2, <3>2 DEF ResolveTarget, p
      <4> HIDE DEF u
      <4> QED
        BY <4>4, <4>5
    <3> QED
      BY <3>1, <3>2
  <2>3. CASE Attr(t)
    <3> DEFINE u == [th[t] EXCEPT !.found = objs[th[t].path]]
    <3>1. CASE ~Live(th[t].path)
      BY <2>3, <3>1 DEF Attr
    <3>2. CASE Live(th[t].path)
      <4>1. objs[th[t].path] \in ObjType
        BY <3>2 DEF Live, IInv, TreeOK
      <4>2. u \in RequestType
        BY <1>2, <4>1, Zenon DEF RequestType
      <4>3. Goes(t, u, "number")
        BY <2>3, <3>2 DEF Attr
      <4> HIDE DEF u
      <4> QED
        BY <4>2, <4>3
    <3> QED
      BY <3>1, <3>2
  <2>4. CASE NextName(t)
    <3>1. CASE th[t].left = {}
      BY <2>4, <3>1 DEF NextName
    <3>2. CASE th[t].left # {}
      <4>1. PICK n \in th[t].left : Goes(t, [th[t] EXCEPT !.left = @ \ {n}], "names")
        BY <2>4, <3>2 DEF NextName
      <4>2. [th[t] EXCEPT !.left = @ \ {n}] \in RequestType
        BY <1>2, Zenon DEF RequestType
      <4> QED
        BY <4>1, <4>2
    <3> QED
      BY <3>1, <3>2
  <2> QED
    BY <2>1, <2>2, <2>3, <2>4
<1> QED
  BY <1>4, <1>5, <1>6

LEMMA SameKeeps == ASSUME UNCHANGED <<objs, table, th>> PROVE Keeps
BY DEF Keeps, Leads, Sits, Brings, Over, Still, Spared

-----------------------------------------------------------------------------
\* Every step.
LEMMA NextKeeps == ~raced' /\ IInv /\ IInv' /\ KInv /\ [Next]_vars => KInv' /\ Keeps
<1> SUFFICES ASSUME ~raced', IInv, IInv', KInv, [Next]_vars PROVE KInv' /\ Keeps
  OBVIOUS
<1>1. ASSUME NEW t \in Thread, Request(t)  PROVE KInv' /\ Keeps
  BY <1>1, RequestKeeps, BeginNamedKeeps, BeginRenameKeeps, BeginByNumberKeeps, BeginReaddirKeeps DEF Request
<1>2. ASSUME NEW t \in Thread,
             \/ ResolveTarget(t) \/ CheckTarget(t) \/ Attr(t) \/ Answer(t) \/ Dots(t) \/ NextName(t)
             \/ Write(t) \/ SetAttr(t) \/ OpenDir(t) \/ Refused(t)
      PROVE  KInv' /\ Keeps
  <2>1. KInv'
    BY <1>2, ResolveTargetKeeps, CheckTargetKeeps, AttrKeeps, AnswerKeeps, DotsKeeps, NextNameKeeps,
       RefusedKeeps, SetAttrKeeps
  <2> QED
    BY <1>2, <2>1, CallKeeps
<1>3. ASSUME NEW t \in Thread,
             Create(t, "create") \/ Create(t, "mkdir") \/ Remove(t) \/ RenameCore(t) \/ Table(t)
      PROVE  KInv' /\ Keeps
  BY <1>3, CreateKeeps, RemoveKeeps, RenameCoreKeeps, TableKeeps
<1>4. ASSUME Appears \/ Vanishes \/ Moves  PROVE KInv' /\ Keeps
  BY <1>4, AppearsKeeps, VanishesKeeps, MovesKeeps
<1>5. ASSUME ReleaseDir \/ UNCHANGED vars  PROVE KInv' /\ Keeps
  BY <1>5, NothingKeeps, SameKeeps DEF ReleaseDir, vars, noted
<1> QED
  BY <1>1, <1>2, <1>3, <1>4, <1>5 DEF Next, Handle

\* What has happened stays so.
LEMMA Lasting == [Next]_vars => (raced => raced') /\ astray \subseteq astray'
<1> SUFFICES ASSUME [Next]_vars PROVE (raced => raced') /\ astray \subseteq astray'
  OBVIOUS
<1>1. ASSUME NEW t \in Thread, Request(t)  PROVE (raced => raced') /\ astray \subseteq astray'
  <2>1. \E r : Begin(t, r)
    BY <1>1, ZenonT(40) DEF Request, BeginNamed, BeginRename, BeginByNumber, BeginReaddir
  <2> QED
    BY <2>1 DEF Begin
<1>2. ASSUME NEW t \in Thread, Handle(t)  PROVE (raced => raced') /\ astray \subseteq astray'
  <2>1. CASE RenameCore(t)
    BY <2>1 DEF RenameCore
  <2>2. CASE ~RenameCore(t)
    <3>1. UNCHANGED noted
      BY <1>2, <2>2 DEF Handle, ResolveTarget, CheckTarget, Attr, Answer, Dots, NextName, Create, Remove,
         Table, Write, SetAttr, Overwrites, OpenDir, Refused
    <3> QED
      BY <3>1 DEF noted
  <2> QED
    BY <2>1, <2>2
<1>3. ASSUME ReleaseDir \/ Appears \/ Vanishes \/ Moves \/ UNCHANGED vars
      PROVE  (raced => raced') /\ astray \subseteq astray'
  <2>1. CASE ReleaseDir \/ Appears \/ UNCHANGED vars
    BY <2>1 DEF ReleaseDir, Appears, noted, vars
  <2>2. CASE Vanishes
    BY <2>2, Zenon DEF Vanishes
  <2>3. CASE Moves
    <3>1. astray \subseteq astray' /\ (raced => raced')
      BY <2>3, Zenon DEF Moves
    <3> QED
      BY <3>1
  <2> QED
    BY <1>3, <2>1, <2>2, <2>3
<1> QED
  BY <1>1, <1>2, <1>3 DEF Next

LEMMA WriteLands ==
    ASSUME IInv, KInv, NEW t \in Thread, Write(t) \/ SetAttr(t)
    PROVE  WritesRight'
<1>1. PICK op \in {"write", "setattr"} : Overwrites(t, op)
  BY DEF Write, SetAttr
<1>2. /\ Writing(th[t]) /\ th[t].path \in DOMAIN objs
      /\ wrote' = [meant |-> th[t].means, changed |-> objs[th[t].path], lives |-> Lives(th[t].means)]
  BY <1>1 DEF Overwrites, Writing, Live
<1>3. Lives(th[t].means) /\ th[t].means \notin astray => objs[th[t].path] = th[t].means
  BY <1>2, KInvParts DEF Writes, Is
<1>4. UNCHANGED astray
  BY <1>1 DEF Overwrites, noted
<1> QED
  BY <1>2, <1>3, <1>4 DEF WritesRight

LEMMA NextWrites == IInv /\ (raced \/ KInv) /\ WritesRight /\ [Next]_vars => WritesRight'
<1> SUFFICES ASSUME IInv, KInv, ~raced, ~raced', WritesRight, [Next]_vars PROVE WritesRight'
  BY Lasting DEF WritesRight
<1>1. ASSUME UNCHANGED wrote  PROVE WritesRight'
  BY <1>1, Lasting DEF WritesRight
<1>2. ASSUME NEW t \in Thread, Request(t)  PROVE UNCHANGED wrote
  <2>1. \E r : Begin(t, r)
    BY <1>2, ZenonT(40) DEF Request, BeginNamed, BeginRename, BeginByNumber, BeginReaddir
  <2> QED
    BY <2>1, SMTT(20) DEF Begin
<1>3. ASSUME NEW t \in Thread, Handle(t)  PROVE WritesRight'
  <2>1. CASE Write(t) \/ SetAttr(t)
    BY <2>1, WriteLands
  <2>2. CASE \/ ResolveTarget(t) \/ CheckTarget(t) \/ Attr(t) \/ Answer(t) \/ Dots(t) \/ NextName(t)
             \/ OpenDir(t) \/ Refused(t)
    BY <1>1, <2>2 DEF ResolveTarget, CheckTarget, Attr, Answer, Dots, NextName, OpenDir, Refused
  <2>3. CASE Create(t, "create") \/ Create(t, "mkdir") \/ Remove(t) \/ RenameCore(t) \/ Table(t)
    BY <1>1, <2>3 DEF Create, Remove, RenameCore, Table
  <2> QED
    BY <1>3, <2>1, <2>2, <2>3 DEF Handle
<1>4. ASSUME ReleaseDir \/ Appears \/ Vanishes \/ Moves \/ UNCHANGED vars  PROVE UNCHANGED wrote
  BY <1>4 DEF ReleaseDir, Appears, Vanishes, Moves, Unheard, vars
<1> QED
  BY <1>1, <1>2, <1>3, <1>4 DEF Next

-----------------------------------------------------------------------------
\* What the kernel's locks achieve, until a folder moves or goes under a request:
\* a request for a name keeps its folder, and a write its file unless a listing
\* has renamed it, and a rename or a removal that the table has not followed yet
\* is in nobody's way.
THEOREM KernelKeepsApart == Spec => [](raced \/ KInv)
<1>1. Init => IInv /\ (raced \/ KInv)
  BY InitIInv, InitKInv
<1>2. IInv /\ (raced \/ KInv) /\ [Next]_vars => IInv' /\ (raced \/ KInv)'
  BY NextIInv, NextKeeps, Lasting
<1>3. Spec => [](IInv /\ (raced \/ KInv))
  BY <1>1, <1>2, PTL DEF Spec
<1> QED
  BY <1>3, PTL

\* What the kernel was told a number stands for is true for as long as the file
\* exists (inodes.rs:4), through every interleaving of the handlers of any number
\* of threads and of listings, unless a listing has renamed that file or a folder
\* has moved or gone under a request.
THEOREM ToldStaysTrue == Spec => []ToldTrue
<1>1. IInv /\ (raced \/ KInv) => ToldTrue
  BY LeadsToMeans DEF KInv, ToldLeads, ToldTrue
<1> QED
  BY <1>1, Invariant, KernelKeepsApart, PTL

\* A write and a truncation change the file they mean, for as long as it exists,
\* whatever renames run beside them (adapter.rs: path_of and then the call), with
\* the same two exceptions.
THEOREM WritesAreRight == Spec => []WritesRight
<1>1. Init => WritesRight
  <2>1. Init => wrote = [meant |-> Nothing, changed |-> Nothing, lives |-> FALSE]
    BY Zenon DEF Init
  <2> QED
    BY <2>1 DEF WritesRight
<1>2. IInv /\ (raced \/ KInv) /\ WritesRight /\ [Next]_vars => WritesRight'
  BY NextWrites
<1> QED
  BY <1>1, <1>2, Invariant, KernelKeepsApart, PTL DEF Spec

\* Where the numbers lead, in terms of LeadsTo.
Same == \A n, o : Leads(n, o) <=> n \in DOMAIN LeadsTo /\ LeadsTo[n] = o
NamesSound == N!Sound(LeadsTo, {objs[p] : p \in DOMAIN objs})

LEMMA KeepsNext == ~raced /\ Same /\ Same' /\ NamesSound' /\ Keeps => N!Next
<1> SUFFICES ASSUME ~raced, Same, Same', NamesSound', Keeps PROVE N!Next
  OBVIOUS
<1>1. ASSUME NEW n \in DOMAIN LeadsTo, LeadsTo[n] \in {objs[p] : p \in DOMAIN objs}' \ astray'
      PROVE  n \in (DOMAIN LeadsTo)' /\ LeadsTo'[n] = LeadsTo[n]
  <2>1. PICK o : LeadsTo[n] = o
    OBVIOUS
  <2>2. Leads(n, o)
    BY <2>1 DEF Same
  <2>3. Lives(o)' /\ o \notin astray'
    BY <1>1, <2>1 DEF Lives
  <2>4. Leads(n, o)'
    BY <2>2, <2>3 DEF Keeps
  <2> QED
    BY <2>1, <2>4 DEF Same
<1> QED
  BY <1>1 DEF N!Next, N!Keep, NamesSound

\* The table and the tree implement Numbers: a number stays with its file,
\* whatever it is renamed to, until it is deleted, and no two numbers lead to
\* the same one (inodes.rs, module comment), through every interleaving of the
\* steps of the handlers.  A file that a listing renames may lose its number, and
\* the promise ends where a folder moves or goes under a request.
THEOREM PromiseKept == Spec => KeepsPromise
<1>1. IInv /\ (raced \/ KInv) => raced \/ (Same /\ NamesSound)
  BY LeadsToMeans, SoundNames DEF Same, NamesSound
<1>2. Init => N!Init
  <2>1. Init => ~raced
    BY Zenon DEF Init
  <2> QED
    BY <1>1, <2>1, InitIInv, InitKInv DEF N!Init, NamesSound
<1>3. /\ IInv /\ IInv' /\ (raced \/ KInv)
      /\ (raced \/ (Same /\ NamesSound)) /\ (raced \/ (Same /\ NamesSound))' /\ [Next]_vars
      => N!Next
  <2>1. raced' => N!Next
    BY DEF N!Next
  <2> QED
    BY <2>1, Lasting, NextKeeps, KeepsNext
<1>4. Spec => []IInv
  BY Invariant
<1>5. Spec => [](raced \/ KInv)
  BY KernelKeepsApart
<1> QED
  BY <1>1, <1>2, <1>3, <1>4, <1>5, PTL DEF Spec, KeepsPromise, N!Spec
=============================================================================
