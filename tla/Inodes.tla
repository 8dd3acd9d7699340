------------------------------- MODULE Inodes -------------------------------
(***************************************************************************)
(* The table between the kernel's inode numbers and paths (inodes.rs): two *)
(* maps and the next number.  An operator for each call, from table to     *)
(* table; the caller holds the lock for one call at a time.                *)
(***************************************************************************)
EXTENDS Paths, Functions

RootIno == 1

Insert(f, x, v) == [y \in DOMAIN f \union {x} |-> IF y = x THEN v ELSE f[y]]

New == [byIno  |-> [n \in {RootIno} |-> Root],
        byPath |-> [p \in {Root} |-> RootIno],
        next   |-> RootIno + 1]

Knows(t, n) == n \in DOMAIN t.byIno

\* Mutant: the next number is not counted on.
Assigned_again(t, p) ==
    IF p \in DOMAIN t.byPath THEN t
    ELSE [byIno |-> Insert(t.byIno, t.next, p), byPath |-> Insert(t.byPath, p, t.next), next |-> t.next]

\* The table once p has a number, and that number.
Assigned(t, p) ==
    IF p \in DOMAIN t.byPath THEN t
    ELSE [byIno  |-> Insert(t.byIno, t.next, p),
          byPath |-> Insert(t.byPath, p, t.next),
          next   |-> t.next + 1]

InoFor(t, p) == Assigned(t, p).byPath[p]

RemoveSubtree(t, p) ==
    LET doomed == {q \in DOMAIN t.byPath : IsWithin(q, p)}
        freed  == {t.byPath[q] : q \in doomed}
    IN  IF p = Root THEN t
        ELSE [byIno  |-> Restrict(t.byIno, DOMAIN t.byIno \ freed),
              byPath |-> Restrict(t.byPath, DOMAIN t.byPath \ doomed),
              next   |-> t.next]

\* Mutants of Rename: it is left out; what is moved is forgotten; what was at `to`
\* is not.
Rename_none(t, from, to) == t
Rename_forget(t, from, to) == RemoveSubtree(RemoveSubtree(t, to), from)
Rename_over(t, from, to) ==
    LET moving == {q \in DOMAIN t.byPath : IsWithin(q, from)}
    IN  [byIno  |-> [n \in DOMAIN t.byIno |->
                        IF t.byIno[n] \in moving THEN Rebase(t.byIno[n], from, to) ELSE t.byIno[n]],
         byPath |-> [q \in (DOMAIN t.byPath \ moving) \union {Rebase(m, from, to) : m \in moving} |->
                        IF \E m \in moving : q = Rebase(m, from, to)
                        THEN t.byPath[Rebase(q, to, from)] ELSE t.byPath[q]],
         next   |-> t.next]

\* What lies below `from` now lies below `to`; neither lies within the other.
Rename(t, from, to) ==
    LET u      == RemoveSubtree(t, to)
        moving == {q \in DOMAIN u.byPath : IsWithin(q, from)}
    IN  IF from = to \/ from = Root \/ to = Root THEN t
        ELSE [byIno  |-> [n \in DOMAIN u.byIno |->
                            IF u.byIno[n] \in moving THEN Rebase(u.byIno[n], from, to) ELSE u.byIno[n]],
              byPath |-> [q \in (DOMAIN u.byPath \ moving) \union {Rebase(m, from, to) : m \in moving} |->
                            IF IsWithin(q, to) THEN u.byPath[Rebase(q, to, from)] ELSE u.byPath[q]],
              next   |-> u.next]
-----------------------------------------------------------------------------
\* Numbers below the next one, and paths.
TableType(t) ==
    /\ t \in [byIno : [DOMAIN t.byIno -> Path], byPath : [DOMAIN t.byPath -> Nat], next : Nat \ {0}]
    /\ \A n \in DOMAIN t.byIno : n \in 1 .. t.next - 1
    /\ DOMAIN t.byPath \subseteq Path

Bijective(t) ==
    /\ \A p \in DOMAIN t.byPath : Knows(t, t.byPath[p]) /\ t.byIno[t.byPath[p]] = p
    /\ \A n \in DOMAIN t.byIno : t.byIno[n] \in DOMAIN t.byPath /\ t.byPath[t.byIno[n]] = n
=============================================================================
