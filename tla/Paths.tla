------------------------------- MODULE Paths -------------------------------
(***************************************************************************)
(* Absolute iCloud paths (icloud-core/src/path.rs).  The code keeps a path *)
(* as a normalised string; here it is the sequence of its components, so   *)
(* the root is the empty sequence and "/a/b" is <<"a", "b">>.              *)
(***************************************************************************)
EXTENDS Naturals, Sequences

CONSTANT Name       \* file names: one path component each

Path == Seq(Name)

Root == <<>>

\* What lies right under the root.
Top == {Append(Root, n) : n \in Name}

\* The root is its own parent.
Parent(p) == IF p = Root THEN Root ELSE SubSeq(p, 1, Len(p) - 1)

Join(p, n) == Append(p, n)

\* p is a or lies below it.
IsWithin(p, a) == Len(a) <= Len(p) /\ SubSeq(p, 1, Len(a)) = a

\* Where p, which is within old, is once old has become new.
Rebase(p, old, new) == new \o SubSeq(p, Len(old) + 1, Len(p))
=============================================================================
