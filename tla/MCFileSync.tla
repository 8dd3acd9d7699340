----------------------------- MODULE MCFileSync -----------------------------
(***************************************************************************)
(* The instances of FileSync that TLC checks: what is on iCloud, and       *)
(* listed, at the start.                                                   *)
(***************************************************************************)
EXTENDS FileSync

OneFile == <<"p">>
NoFile == <<>>

\* What the properties say nothing of need not be explored: all but TypeOK and
\* RowDiscipline, which are proved, speak of the behaviours not raced so far.
Calm == ~raced

\* How many of the calls, the changes elsewhere and the failures happen.
Events == (UserBudget - left.user) + (RemoteBudget - left.remote) + (FailBudget - left.fail)
AtMostThree == Events <= 3

\* A failure on top of two calls and an edit leads to what the README notes of
\* CleanMeansSame.
FewWithFailure == Events <= 2 \/ left.fail = FailBudget

\* The listing that undoes a pending delete, for which FileSync_undeleted is
\* there: nothing beyond it is explored.
NoDeleteInTheWay ==
    list.pc = "detach" /\ list.then = "place" => Live(db, list.at)
=============================================================================
