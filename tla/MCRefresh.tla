------------------------------ MODULE MCRefresh ------------------------------
(* The configurations of the daemon that TLC starts from.                      *)
EXTENDS Refresh

Every == {[mode |-> "lazy", signed |-> TRUE, auto |-> TRUE],
          [mode |-> "full", signed |-> TRUE, auto |-> TRUE],
          [mode |-> "lazy", signed |-> FALSE, auto |-> TRUE]}
=============================================================================
