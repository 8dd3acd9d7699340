------------------------------ MODULE MCAdapter ------------------------------
(* The threads are alike, and so are the names.                                *)
EXTENDS Adapter, TLC

Alike == Permutations(Thread) \union Permutations(Name)
=============================================================================
