---------------------------- MODULE MCDownloads ----------------------------
(***************************************************************************)
(* The instance of Downloads that TLC checks.                              *)
(***************************************************************************)
EXTENDS Bulk

CONSTANT Second   \* the crawler a signal started, beside the refresh loop's

\* Any one of a change elsewhere, a download that fails and a file that is opened
\* is enough to reach every step; the workers and the crawler are busy besides.
\* The command reads one file, while a change or a failure happens, and no two workers
\* are busy, none where a download fails; nothing of interest comes after it.
\* The second crawl comes after the change and without a failure; a listing applied beside
\* it is older, and a worker is busy only when it is half-way.
Resting(w) == th[w].pc \in {"pop", "asleep", "dozing"}
AtMostOne ==
    /\ left.change + left.fail + left.call > 1
    /\ bulk.pc # "none" =>
          /\ left.call > 0 /\ ~stop
          /\ Cardinality(bulk.pending) <= (IF bulk.file = NoFile THEN 1 ELSE 0)
          /\ \E w \in Worker : Resting(w)
          /\ left.fail = FailBudget \/ \A w \in Worker : Resting(w)
    /\ th[Second].pc # "idle" =>
          /\ left.change < ChangeBudget /\ left.fail = FailBudget /\ left.call = CallBudget /\ ~stop
          /\ \A c \in Crawler \ {Second} : \A n \in todo[c] : n.version = 1
          /\ \E w \in Worker : Resting(w)
          /\ \/ \A w \in Worker : Resting(w)
             \/ bulk.pc = "none" /\ Cardinality(todo[Second]) <= 1
    /\ bulk.pc # "ended"
=============================================================================
