----------------------------- MODULE Downloads -----------------------------
(***************************************************************************)
(* Who downloads what, and when: the background warm-up of crawl mode      *)
(* `full' (icloud-core/src/engine/download.rs) and the small concurrency   *)
(* helpers it is made of (engine/sync_util.rs: KeyedLocks, DelayQueue).    *)
(*                                                                         *)
(*   workers   take files from the delay queue and fetch them              *)
(*   callers   FUSE threads: somebody opens a file and waits for it        *)
(*   crawler   the refresh loop, which finds what changed on iCloud, turns *)
(*             the file into a placeholder and schedules its download      *)
(*                                                                         *)
(* Every file here is one that iCloud has; what the mirror holds for it is *)
(* the business of FileSync, and what a listing does to rows with local    *)
(* changes too.  Time is left out: a delayed item becomes due at some      *)
(* point, and of the items that are due any may come first.  `attempts',   *)
(* which only decides how long the delay is, is left out with it, and so   *)
(* is `auth_lost', which nothing here reads.                               *)
(***************************************************************************)
EXTENDS Naturals, FiniteSets

CONSTANTS
    File,
    Worker, Caller, Crawler,     \* threads
    NoThread, NoFile,
    ChangeBudget,  \* how often another device changes a file, at most
    FailBudget,    \* how many downloads fail, at most
    CallBudget     \* how many files are opened, at most

\* A thread does one of the three jobs, and there is a worker (config.rs:167).
ASSUME ThreadAssumption ==
    /\ Worker # {}
    /\ Worker \intersect Caller = {} /\ Worker \intersect Crawler = {}
    /\ Caller \intersect Crawler = {}
    /\ NoThread \notin Worker \union Caller \union Crawler

\* Files and budgets.
ASSUME BudgetAssumption ==
    /\ IsFiniteSet(File) /\ NoFile \notin File
    /\ ChangeBudget \in Nat /\ FailBudget \in Nat /\ CallBudget \in Nat

Thread == Worker \union Caller \union Crawler

MaxHydrateAttempts == 3

VARIABLES
    remote,     \* the version iCloud has of each file
    row,        \* what the database says of it: [version, hydrated]
    scheduled,  \* the set `scheduled': the files queued or being fetched
    due, later, \* the delay queue: how many items of each file are due, or not yet
    closed,     \* is it closed?
    stop,       \* the Signal `stop'
    held,       \* path_locks: the files whose lock somebody holds
    gate,       \* download_gate: the thread that streams
    th,         \* each thread: [pc, file, seen], seen being the version it read
    tries,      \* each caller: how often it tried
    todo,       \* each crawler: the listing, as far as it is not applied yet
    left        \* what is left of the budgets

vars == <<remote, row, scheduled, due, later, closed, stop, held, gate,
          th, tries, todo, left>>

queue == <<scheduled, due, later, closed>>
locks == <<held, gate>>
world == <<remote, stop, left>>

At(where) == [pc |-> where, file |-> NoFile, seen |-> 0]

\* A thread goes on with its file, or has done with it.
Go(t, where) == th' = [th EXCEPT ![t].pc = where]
Leave(t, where) == th' = [th EXCEPT ![t] = At(where)]
Take(t, where, f) == th' = [th EXCEPT ![t] = [At(where) EXCEPT !.file = f]]

FileOf(t) == th[t].file

Init ==
    /\ remote = [f \in File |-> 1]
    /\ row \in [File -> [version : {1}, hydrated : BOOLEAN]]
    /\ \/ scheduled = {}
       \/ scheduled = {f \in File : ~row[f].hydrated}    \* schedule_all_unhydrated
    /\ due = [f \in File |-> IF f \in scheduled THEN 1 ELSE 0]
    /\ later = [f \in File |-> 0]
    /\ closed = FALSE /\ stop = FALSE
    /\ held = {} /\ gate = NoThread
    /\ th = [t \in Thread |-> At(IF t \in Worker THEN "pop" ELSE "idle")]
    /\ tries = [c \in Caller |-> 0]
    /\ todo = [c \in Crawler |-> {}]
    /\ left = [change |-> ChangeBudget, fail |-> FailBudget, call |-> CallBudget]
-----------------------------------------------------------------------------
(***************************************************************************)
(* DelayQueue.  A consumer sleeps until somebody pushes (notify_one wakes  *)
(* one sleeper), or, if the queue holds something that is not due yet, at  *)
(* the latest when it is.                                                  *)
(***************************************************************************)

Sleepers == {t \in Thread : th[t].pc \in {"asleep", "dozing"}}

\* Mutant: whoever sleeps is left to sleep.
Notified_nobody(next) == {next}

\* notify_one: one of the sleepers, if there is one, looks at the queue again.
Notified(next) ==
    IF Sleepers = {} THEN {next} ELSE {[next EXCEPT ![t].pc = "pop"] : t \in Sleepers}

Empty == \A f \in File : due[f] + later[f] = 0

PopTakes(t) ==
    /\ th[t].pc = "pop" /\ ~closed
    /\ \E f \in File :
          /\ due[f] > 0 /\ due' = [due EXCEPT ![f] = @ - 1]
          /\ Take(t, "check", f)
    /\ UNCHANGED <<world, row, scheduled, later, closed, locks, tries, todo>>

PopWaits(t) ==
    /\ th[t].pc = "pop" /\ ~closed
    /\ \A f \in File : due[f] = 0
    /\ Go(t, IF Empty THEN "asleep" ELSE "dozing")
    /\ UNCHANGED <<world, row, queue, locks, tries, todo>>

PopTimesOut(t) ==
    /\ th[t].pc = "dozing"
    /\ Go(t, "pop")
    /\ UNCHANGED <<world, row, queue, locks, tries, todo>>

\* pop returns None: download_worker ends.
PopEnds(t) ==
    /\ th[t].pc = "pop" /\ closed
    /\ Go(t, "exited")
    /\ UNCHANGED <<world, row, queue, locks, tries, todo>>

Ripen(f) ==
    /\ later[f] > 0
    /\ later' = [later EXCEPT ![f] = @ - 1] /\ due' = [due EXCEPT ![f] = @ + 1]
    /\ UNCHANGED <<world, row, scheduled, closed, locks, th, tries, todo>>
-----------------------------------------------------------------------------
(***************************************************************************)
(* schedule_download_after, called by a crawler for what it found and by a *)
(* worker that retries: is the engine stopping, is the file queued or being*)
(* fetched already, and then the push.                                     *)
(***************************************************************************)

\* What comes after it.
Resume(t) == IF t \in Worker THEN "pop" ELSE "apply"

\* `stop' is looked at first, and may be raised right after.
Declined(t) ==
    /\ th[t].pc = "offer"
    /\ stop \/ FileOf(t) \in scheduled
    /\ Leave(t, Resume(t))
    /\ UNCHANGED <<world, row, queue, locks, tries, todo>>

Insert(t) ==
    /\ th[t].pc = "offer" /\ FileOf(t) \notin scheduled
    /\ scheduled' = scheduled \union {FileOf(t)}
    /\ Go(t, "push")
    /\ UNCHANGED <<world, row, due, later, closed, locks, tries, todo>>

\* A retry is delayed.
Push(t) ==
    /\ th[t].pc = "push"
    /\ IF t \in Worker
       THEN later' = [later EXCEPT ![FileOf(t)] = @ + 1] /\ UNCHANGED due
       ELSE due' = [due EXCEPT ![FileOf(t)] = @ + 1] /\ UNCHANGED later
    /\ th' \in Notified([th EXCEPT ![t] = At(Resume(t))])
    /\ UNCHANGED <<world, row, scheduled, closed, locks, tries, todo>>
-----------------------------------------------------------------------------
(***************************************************************************)
(* ensure_local_file, by a worker or a caller, for FileOf(t).                *)
(***************************************************************************)

\* Where its result is looked at.
Returned(t) == IF t \in Worker THEN "done" ELSE "confirm"

\* Mutant: one lock is enough for everybody.
LockFree_never(f) == TRUE

LockFree(f) == f \notin held

\* A file that is local needs no work, when it is asked for and, if somebody else
\* fetched it meanwhile, when the lock is free.
NothingToFetch(t) ==
    /\ th[t].pc = "check" /\ row[FileOf(t)].hydrated
    /\ Go(t, Returned(t))
    /\ UNCHANGED <<world, row, queue, locks, tries, todo>>

EnsureLock(t) ==
    /\ th[t].pc = "check" /\ ~row[FileOf(t)].hydrated /\ LockFree(FileOf(t))
    /\ held' = held \union {FileOf(t)}
    /\ th' = [th EXCEPT ![t].pc = "gate", ![t].seen = row[FileOf(t)].version]
    /\ UNCHANGED <<world, row, queue, gate, tries, todo>>

EnsureGate(t) ==
    /\ th[t].pc = "gate" /\ gate = NoThread
    /\ gate' = t
    /\ Go(t, "stream")
    /\ UNCHANGED <<world, row, queue, held, tries, todo>>

StreamSucceeds(t) ==
    /\ th[t].pc = "stream"
    /\ gate' = NoThread
    /\ Go(t, "verify")
    /\ UNCHANGED <<world, row, queue, held, tries, todo>>

\* Mutant: a file that changed meanwhile stays locked.
Freed_kept(t) == IF th[t].pc = "verify" THEN held ELSE held \ {FileOf(t)}

\* The guard of the path's lock drops.
Freed(t) == held \ {FileOf(t)}

\* open or the transfer fails, for want of a session perhaps; the guards drop.
StreamFails(t) ==
    /\ th[t].pc = "stream"
    /\ left.fail > 0 /\ left' = [left EXCEPT !.fail = @ - 1]
    /\ gate' = NoThread /\ held' = Freed(t)
    /\ \/ t \in Worker /\ Take(t, "failed", FileOf(t)) /\ UNCHANGED tries
       \/ t \in Worker /\ Take(t, "done", FileOf(t)) /\ UNCHANGED tries  \* no session: no retry
       \/ t \in Caller /\ Leave(t, "idle") /\ tries' = [tries EXCEPT ![t] = 0]
    /\ UNCHANGED <<remote, stop, row, queue, todo>>

\* Only keep it if the file is still the one we asked for.
EnsureVerify(t) ==
    /\ th[t].pc = "verify"
    /\ IF row[FileOf(t)].version = th[t].seen
       THEN Take(t, "commit", FileOf(t)) /\ UNCHANGED held
       ELSE Take(t, Returned(t), FileOf(t)) /\ held' = Freed(t)
    /\ UNCHANGED <<world, row, queue, gate, tries, todo>>

\* commit, then mark_hydrated; the lock is released.
EnsureCommit(t) ==
    /\ th[t].pc = "commit"
    /\ row' = [row EXCEPT ![FileOf(t)].hydrated = TRUE]
    /\ held' = Freed(t)
    /\ Go(t, Returned(t))
    /\ UNCHANGED <<world, queue, gate, tries, todo>>

Ensure(t) ==
    \/ NothingToFetch(t) \/ EnsureLock(t) \/ EnsureGate(t)
    \/ StreamSucceeds(t) \/ StreamFails(t) \/ EnsureVerify(t) \/ EnsureCommit(t)
-----------------------------------------------------------------------------
\* The end of download_job.

\* Mutant: a retry is scheduled before the file leaves `scheduled'.
Unscheduled_late(t) == IF th[t].pc = "failed" THEN scheduled ELSE scheduled \ {FileOf(t)}

Unscheduled(t) == scheduled \ {FileOf(t)}

JobEnds(t) ==
    /\ th[t].pc \in {"done", "failed"}
    /\ scheduled' = Unscheduled(t)
    /\ IF th[t].pc = "failed" THEN Go(t, "offer") ELSE Leave(t, "pop")
    /\ UNCHANGED <<world, row, due, later, closed, locks, tries, todo>>

Work(t) ==
    \/ PopTakes(t) \/ PopWaits(t) \/ PopTimesOut(t) \/ PopEnds(t)
    \/ Ensure(t) \/ JobEnds(t) \/ Declined(t) \/ Insert(t) \/ Push(t)
-----------------------------------------------------------------------------
\* hydrate: somebody opens a file that is not local.

CallStarts(t) ==
    /\ th[t].pc = "idle" /\ left.call > 0 /\ left' = [left EXCEPT !.call = @ - 1]
    /\ \E f \in File : ~row[f].hydrated /\ Take(t, "check", f)
    /\ tries' = [tries EXCEPT ![t] = 1]
    /\ UNCHANGED <<remote, stop, row, queue, locks, todo>>

\* Is it local now?  Otherwise it kept changing: again, or give up.
CallConfirms(t) ==
    /\ th[t].pc = "confirm"
    /\ IF row[FileOf(t)].hydrated \/ tries[t] = MaxHydrateAttempts
       THEN Leave(t, "idle") /\ tries' = [tries EXCEPT ![t] = 0]
       ELSE Go(t, "check") /\ tries' = [tries EXCEPT ![t] = @ + 1]
    /\ UNCHANGED <<world, row, queue, locks, todo>>

Call(t) == Ensure(t) \/ CallConfirms(t)
-----------------------------------------------------------------------------
\* A full crawl, and the snapshot applied.

CrawlStarts(t) ==
    /\ th[t].pc = "idle" /\ ~stop
    /\ todo' = [todo EXCEPT ![t] = {[file |-> f, version |-> remote[f]] : f \in File}]
    /\ Go(t, "apply")
    /\ UNCHANGED <<world, row, queue, locks, tries>>

\* A file that changed becomes a placeholder; one that is not local is offered.
CrawlApplies(t) ==
    /\ th[t].pc = "apply"
    /\ \E n \in todo[t] :
       LET same == row[n.file].version = n.version
           now  == [version |-> n.version, hydrated |-> row[n.file].hydrated /\ same]
       IN  /\ row' = [row EXCEPT ![n.file] = now]
           /\ todo' = [todo EXCEPT ![t] = @ \ {n}]
           /\ IF now.hydrated THEN UNCHANGED th ELSE Take(t, "offer", n.file)
    /\ UNCHANGED <<world, queue, locks, tries>>

CrawlEnds(t) ==
    /\ th[t].pc = "apply" /\ todo[t] = {}
    /\ Go(t, "idle")
    /\ UNCHANGED <<world, row, queue, locks, tries, todo>>

Crawl(t) ==
    \/ CrawlStarts(t) \/ CrawlApplies(t) \/ CrawlEnds(t)
    \/ Declined(t) \/ Insert(t) \/ Push(t)
-----------------------------------------------------------------------------
\* Another device, and the end of the daemon: shutdown raises `stop', then
\* closes the queue, which wakes every sleeper.

RemoteChanges ==
    /\ left.change > 0 /\ left' = [left EXCEPT !.change = @ - 1]
    /\ \E f \in File : remote' = [remote EXCEPT ![f] = @ + 1]
    /\ UNCHANGED <<stop, row, queue, locks, th, tries, todo>>

Stop ==
    /\ ~stop /\ stop' = TRUE
    /\ UNCHANGED <<remote, left, row, queue, locks, th, tries, todo>>

\* Mutant: closing wakes one sleeper only.
Awakened_one(t) == th[t].pc \in {"asleep", "dozing"} /\ t = CHOOSE s \in Sleepers : TRUE

Awakened(t) == th[t].pc \in {"asleep", "dozing"}

Close ==
    /\ stop /\ ~closed /\ closed' = TRUE
    /\ th' = [t \in Thread |-> IF Awakened(t) THEN At("pop") ELSE th[t]]
    /\ UNCHANGED <<world, row, scheduled, due, later, locks, tries, todo>>
-----------------------------------------------------------------------------
Next ==
    \/ \E w \in Worker : Work(w)
    \/ \E c \in Caller : CallStarts(c) \/ Call(c)
    \/ \E c \in Crawler : Crawl(c)
    \/ \E f \in File : Ripen(f)
    \/ RemoteChanges \/ Stop \/ Close

Spec == Init /\ [][Next]_vars

\* Every thread runs, time passes, the refresh loop starts a crawl after each
\* interval, the other crawlers if somebody asks for it, and shutdown gets from its
\* first line to its last.
Fairness ==
    /\ \A w \in Worker : WF_vars(Work(w))
    /\ \A c \in Caller : WF_vars(Call(c))
    /\ WF_vars(\E c \in Crawler : CrawlStarts(c))
    /\ \A c \in Crawler : WF_vars(th[c].pc # "idle" /\ Crawl(c))
    /\ \A f \in File : WF_vars(Ripen(f))
    /\ WF_vars(Close)

FairSpec == Spec /\ Fairness
-----------------------------------------------------------------------------
\* Where a thread is: in ensure_local_file, or somewhere in its own loop.
Ensuring == {"check", "gate", "stream", "verify", "commit"}
Scheduling == {"offer", "push"}
WorkerPlaces ==
    Ensuring \union Scheduling \union {"pop", "asleep", "dozing", "exited", "done", "failed"}
CallerPlaces == Ensuring \union {"idle", "confirm"}
CrawlerPlaces == Scheduling \union {"idle", "apply"}

Placed(places) == [pc : places, file : File \union {NoFile}, seen : Nat]

\* Every variable has its type.
TypeOK ==
    /\ remote \in [File -> Nat] /\ row \in [File -> [version : Nat, hydrated : BOOLEAN]]
    /\ scheduled \subseteq File
    /\ due \in [File -> Nat] /\ later \in [File -> Nat]
    /\ closed \in BOOLEAN /\ stop \in BOOLEAN
    /\ held \subseteq File /\ gate \in Thread \union {NoThread}
    /\ th \in [Thread -> Placed(WorkerPlaces \union CallerPlaces \union CrawlerPlaces)]
    /\ \A t \in Worker : th[t] \in Placed(WorkerPlaces)
    /\ \A t \in Caller : th[t] \in Placed(CallerPlaces)
    /\ \A t \in Crawler : th[t] \in Placed(CrawlerPlaces)
    /\ tries \in [Caller -> 0..MaxHydrateAttempts]
    /\ todo \in [Crawler -> SUBSET [file : File, version : Nat]]
    /\ left \in [change : Nat, fail : Nat, call : Nat]

\* "One holder per path at a time" (engine/mod.rs:158) and "only one file
\* streams at a time, whoever asked for it" (engine/mod.rs:162).
Inside(t) == th[t].pc \in {"gate", "stream", "verify", "commit"}

OneEach ==
    \A s, t \in Thread :
        s # t => /\ Inside(s) /\ Inside(t) => FileOf(s) # FileOf(t)
                 /\ ~(th[s].pc = "stream" /\ th[t].pc = "stream")

\* Something is queued, so somebody is going to look: not every worker sleeps
\* without a time to wake up at.
NobodyOverslept ==
    ~closed /\ ~Empty => \E w \in Worker : th[w].pc # "asleep"

\* Once the changes stop, everything is downloaded, whatever was discarded,
\* failed or found to be scheduled already, unless the daemon is stopped.
EventuallyLocal == <>(stop \/ [](\A f \in File : row[f].hydrated))

\* A daemon that is told to stop loses its workers, wherever they were.
WorkersEnd == stop ~> \A w \in Worker : th[w].pc = "exited"
=============================================================================
