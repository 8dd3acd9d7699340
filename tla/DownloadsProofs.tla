-------------------------- MODULE DownloadsProofs --------------------------
(***************************************************************************)
(* For any number of files, workers, callers and crawlers, and any budget: *)
(* the variables of Downloads keep their types, no two threads fetch one   *)
(* file, no two stream at once, and no wake-up is lost; all of this also   *)
(* when the download command (Bulk) reads through the mount.               *)
(*                                                                         *)
(* OneEach is not inductive: it says nothing of the locks that make it so. *)
(* Locked adds that whoever is inside holds the lock of its file and that  *)
(* whoever streams has the gate, and Busy that it is busy with a file.     *)
(***************************************************************************)
EXTENDS Bulk, TLAPS

\* A thread that works on a file has one.
Busy ==
    \A t \in Thread :
        th[t].pc \in Ensuring \union Scheduling \union {"done", "failed", "confirm"}
            => FileOf(t) \in File

\* The lock of its file, and the gate.
Locked ==
    \A t \in Thread :
        /\ Inside(t) => FileOf(t) \in held
        /\ th[t].pc = "stream" => gate = t

\* Nobody's lock is taken twice.
Apart ==
    \A s, t \in Thread : s # t /\ Inside(s) /\ Inside(t) => FileOf(s) # FileOf(t)

IInv == TypeOK /\ Busy /\ Locked /\ Apart

\* What the provers need of a thread's kind.
LEMMA Kinds ==
    /\ \A t \in Worker : t \in Thread /\ t \notin Caller /\ t \notin Crawler
    /\ \A t \in Caller : t \in Thread /\ t \notin Worker /\ t \notin Crawler
    /\ \A t \in Crawler : t \in Thread /\ t \notin Worker /\ t \notin Caller
    /\ NoThread \notin Thread
  BY ThreadAssumption DEF Thread

\* The initial states.
LEMMA InitIInv == Init => IInv
  <1> SUFFICES ASSUME Init PROVE IInv
    OBVIOUS
  <1>1. \A t \in Thread : th[t] = At(IF t \in Worker THEN "pop" ELSE "idle")
    BY DEF Init
  <1> USE DEF At, Ensuring, Scheduling, WorkerPlaces, CallerPlaces, CrawlerPlaces, Placed
  <1>2. /\ th \in [Thread -> Placed(WorkerPlaces \union CallerPlaces \union CrawlerPlaces)]
        /\ \A t \in Worker : th[t] \in Placed(WorkerPlaces)
        /\ \A t \in Caller : th[t] \in Placed(CallerPlaces)
        /\ \A t \in Crawler : th[t] \in Placed(CrawlerPlaces)
    <2>1. th = [t \in Thread |-> At(IF t \in Worker THEN "pop" ELSE "idle")]
      BY DEF Init
    <2> QED
      BY <2>1, Kinds DEF Thread
  <1>3. /\ remote \in [File -> Nat] /\ row \in [File -> [version : Nat, hydrated : BOOLEAN]]
        /\ scheduled \subseteq File
        /\ due \in [File -> Nat] /\ later \in [File -> Nat]
    BY DEF Init
  <1>4. /\ tries \in [Caller -> 0..MaxHydrateAttempts]
        /\ todo \in [Crawler -> SUBSET [file : File, version : Nat]]
        /\ left \in [change : Nat, fail : Nat, call : Nat]
    BY BudgetAssumption DEF Init, MaxHydrateAttempts
  <1>7. /\ closed \in BOOLEAN /\ stop \in BOOLEAN
        /\ held \subseteq File /\ gate \in Thread \union {NoThread}
    BY Zenon DEF Init
  <1>5. ASSUME NEW t \in Thread PROVE th[t].pc = "pop" \/ th[t].pc = "idle"
    <2>1. th[t] = [pc |-> IF t \in Worker THEN "pop" ELSE "idle", file |-> NoFile, seen |-> 0]
      BY <1>1
    <2> QED
      BY <2>1
  <1>6. Busy /\ Locked /\ Apart
    BY <1>5 DEF Busy, Locked, Apart, Inside
  <1> QED
    BY <1>2, <1>3, <1>4, <1>6, <1>7 DEF IInv, TypeOK

\* r is a place for a thread of t's kind.
Stands(t, r) ==
    /\ r \in Placed(WorkerPlaces) \/ t \notin Worker
    /\ r \in Placed(CallerPlaces) \/ t \notin Caller
    /\ r \in Placed(CrawlerPlaces) \/ t \notin Crawler

\* t goes there, and everybody is in a place of its kind.
Moved(t, r) ==
    /\ th' \in [Thread -> Placed(WorkerPlaces \union CallerPlaces \union CrawlerPlaces)]
    /\ \A s \in Worker : th'[s] \in Placed(WorkerPlaces)
    /\ \A s \in Caller : th'[s] \in Placed(CallerPlaces)
    /\ \A s \in Crawler : th'[s] \in Placed(CrawlerPlaces)
    /\ th'[t] = r /\ \A s \in Thread \ {t} : th'[s] = th[s]

\* The others inside keep their locks, and t, if it is inside at r, has the lock
\* of its file, alone, and the gate if it streams.
Guarded(t, r) ==
    /\ r.pc \in Ensuring \union Scheduling \union {"done", "failed", "confirm"}
          => r.file \in File
    /\ \A s \in Thread \ {t} : Inside(s) => FileOf(s) \in held'
    /\ \A s \in Thread \ {t} : th[s].pc = "stream" => gate' = s
    /\ r.pc \in {"gate", "stream", "verify", "commit"} =>
          /\ r.file \in held'
          /\ \A s \in Thread \ {t} : Inside(s) => FileOf(s) # r.file
    /\ r.pc = "stream" => gate' = t

\* What a thread goes to is a place of its kind; the others stay.
LEMMA OneMoves ==
  ASSUME TypeOK, NEW t \in Thread, NEW r, th' = [th EXCEPT ![t] = r], Stands(t, r)
  PROVE  Moved(t, r)
  <1>1. \A s \in Thread : th'[s] = IF s = t THEN r ELSE th[s]
    BY DEF TypeOK
  <1>2. r \in Placed(WorkerPlaces \union CallerPlaces \union CrawlerPlaces)
    BY DEF Thread, Placed, Stands
  <1> QED
    BY <1>1, <1>2, Kinds, Zenon DEF TypeOK, Moved, Stands

\* Changing a thread's place, or also the version it noted.
LEMMA ThreadChanged ==
  ASSUME NEW A, NEW B, NEW C, NEW e \in [pc : A, file : B, seen : C],
         NEW P, NEW pc \in P, NEW seen \in C
  PROVE  /\ [e EXCEPT !.pc = pc] \in [pc : P, file : B, seen : C]
         /\ [e EXCEPT !.pc = pc, !.seen = seen] \in [pc : P, file : B, seen : C]
  <1>1. [e EXCEPT !.pc = pc] \in [pc : P, file : B, seen : C]
    OBVIOUS
  <1>2. [e EXCEPT !.pc = pc, !.seen = seen] \in [pc : P, file : B, seen : C]
    BY Zenon
  <1> QED
    BY <1>1, <1>2

\* A thread that only goes on, or that also notes a version, stays with its kind.
LEMMA GoesOn ==
  ASSUME TypeOK, NEW t \in Thread, NEW pc, NEW seen \in Nat,
         t \in Worker => pc \in WorkerPlaces, t \in Caller => pc \in CallerPlaces,
         t \in Crawler => pc \in CrawlerPlaces
  PROVE  /\ Stands(t, [th[t] EXCEPT !.pc = pc])
         /\ Stands(t, [th[t] EXCEPT !.pc = pc, !.seen = seen])
  <1>1. ASSUME NEW P, pc \in P
        PROVE  /\ [th[t] EXCEPT !.pc = pc] \in Placed(P)
               /\ [th[t] EXCEPT !.pc = pc, !.seen = seen] \in Placed(P)
    <2> DEFINE places == WorkerPlaces \union CallerPlaces \union CrawlerPlaces
    <2>1. th[t] \in Placed(places)
      BY Zenon DEF TypeOK
    <2> HIDE DEF places
    <2> QED
      BY <1>1, <2>1, ThreadChanged, Zenon DEF Placed
  <1> QED
    BY <1>1 DEF Stands

\* The locks still do their work.
LEMMA LocksKept ==
  ASSUME IInv, NEW t \in Thread, NEW r, Moved(t, r), Guarded(t, r)
  PROVE  Busy' /\ Locked' /\ Apart'
  <1> USE DEF Moved, Guarded
  <1>1. Busy'
    BY DEF IInv, Busy, FileOf
  <1>2. Locked'
    BY DEF IInv, Locked, FileOf, Inside
  <1>3. Apart'
    BY DEF IInv, Apart, FileOf, Inside
  <1> QED
    BY <1>1, <1>2, <1>3

\* A worker that finds nothing sleeps.
LEMMA PopWaitsStep ==
  ASSUME IInv, NEW t \in Worker, PopWaits(t)
  PROVE  IInv'
  <1> DEFINE r == [th[t] EXCEPT !.pc = IF Empty THEN "asleep" ELSE "dozing"]
  <1>1. t \in Thread /\ th' = [th EXCEPT ![t] = r]
    BY Kinds DEF IInv, TypeOK, PopWaits, Go, Take, Leave
  <1>2. Stands(t, r)
    BY Kinds DEF Stands, IInv, TypeOK, Busy, FileOf, PopWaits, At, Ensuring, Scheduling,
       WorkerPlaces, CallerPlaces, CrawlerPlaces, Placed
  <1> HIDE DEF r
  <1>3. Moved(t, r)
    BY <1>1, <1>2, OneMoves, Zenon DEF IInv
  <1>4. TypeOK'
    BY <1>1, <1>3, Zenon DEF Moved, IInv, TypeOK, PopWaits, world, queue, locks
  <1>5. /\ r.pc \in Ensuring \union Scheduling \union {"done", "failed", "confirm"}
              => r.file \in File
        /\ \A s \in Thread \ {t} : Inside(s) => FileOf(s) \in held'
        /\ \A s \in Thread \ {t} : th[s].pc = "stream" => gate' = s
        /\ r.pc \in {"gate", "stream", "verify", "commit"} =>
              /\ r.file \in held'
              /\ \A s \in Thread \ {t} : Inside(s) => FileOf(s) # r.file
        /\ r.pc = "stream" => gate' = t
    BY <1>1 DEF r, IInv, TypeOK, Busy, Locked, Apart, Inside, PopWaits, locks, FileOf, At,
       Ensuring, Scheduling, Placed
  <1>6. Busy' /\ Locked' /\ Apart'
    BY <1>1, <1>3, <1>5, LocksKept, Zenon DEF Moved, Guarded
  <1> QED
    BY <1>4, <1>6 DEF IInv

\* A worker wakes up.
LEMMA PopTimesOutStep ==
  ASSUME IInv, NEW t \in Worker, PopTimesOut(t)
  PROVE  IInv'
  <1> DEFINE r == [th[t] EXCEPT !.pc = "pop"]
  <1>1. t \in Thread /\ th' = [th EXCEPT ![t] = r]
    BY Kinds DEF IInv, TypeOK, PopTimesOut, Go, Take, Leave
  <1>2. Stands(t, r)
    <2>1. /\ t \in Worker => "pop" \in WorkerPlaces
          /\ t \in Caller => "pop" \in CallerPlaces
          /\ t \in Crawler => "pop" \in CrawlerPlaces
      BY Kinds DEF WorkerPlaces, CallerPlaces, CrawlerPlaces, Ensuring
    <2> QED
      BY <1>1, <2>1, GoesOn, Zenon DEF IInv
  <1> HIDE DEF r
  <1>3. Moved(t, r)
    BY <1>1, <1>2, OneMoves, Zenon DEF IInv
  <1>4. TypeOK'
    BY <1>1, <1>3, Zenon DEF Moved, IInv, TypeOK, PopTimesOut, world, queue, locks
  <1>5. /\ r.pc \in Ensuring \union Scheduling \union {"done", "failed", "confirm"}
              => r.file \in File
        /\ \A s \in Thread \ {t} : Inside(s) => FileOf(s) \in held'
        /\ \A s \in Thread \ {t} : th[s].pc = "stream" => gate' = s
        /\ r.pc \in {"gate", "stream", "verify", "commit"} =>
              /\ r.file \in held'
              /\ \A s \in Thread \ {t} : Inside(s) => FileOf(s) # r.file
        /\ r.pc = "stream" => gate' = t
    BY <1>1 DEF r, IInv, TypeOK, Busy, Locked, Apart, Inside, PopTimesOut, locks, FileOf,
       At, Ensuring, Scheduling, Placed
  <1>6. Busy' /\ Locked' /\ Apart'
    BY <1>1, <1>3, <1>5, LocksKept, Zenon DEF Moved, Guarded
  <1> QED
    BY <1>4, <1>6 DEF IInv

\* A worker ends.
LEMMA PopEndsStep ==
  ASSUME IInv, NEW t \in Worker, PopEnds(t)
  PROVE  IInv'
  <1> DEFINE r == [th[t] EXCEPT !.pc = "exited"]
  <1>1. t \in Thread /\ th' = [th EXCEPT ![t] = r]
    BY Kinds DEF IInv, TypeOK, PopEnds, Go, Take, Leave
  <1>2. Stands(t, r)
    BY Kinds, SMTT(20) DEF Stands, IInv, TypeOK, Busy, FileOf, PopEnds, At, Ensuring, Scheduling,
       WorkerPlaces, CallerPlaces, CrawlerPlaces, Placed
  <1> HIDE DEF r
  <1>3. Moved(t, r)
    BY <1>1, <1>2, OneMoves, Zenon DEF IInv
  <1>4. TypeOK'
    BY <1>1, <1>3, Zenon DEF Moved, IInv, TypeOK, PopEnds, world, queue, locks
  <1>5. /\ r.pc \in Ensuring \union Scheduling \union {"done", "failed", "confirm"}
              => r.file \in File
        /\ \A s \in Thread \ {t} : Inside(s) => FileOf(s) \in held'
        /\ \A s \in Thread \ {t} : th[s].pc = "stream" => gate' = s
        /\ r.pc \in {"gate", "stream", "verify", "commit"} =>
              /\ r.file \in held'
              /\ \A s \in Thread \ {t} : Inside(s) => FileOf(s) # r.file
        /\ r.pc = "stream" => gate' = t
    BY <1>1 DEF r, IInv, TypeOK, Busy, Locked, Apart, Inside, PopEnds, locks, FileOf, At,
       Ensuring, Scheduling, Placed
  <1>6. Busy' /\ Locked' /\ Apart'
    BY <1>1, <1>3, <1>5, LocksKept, Zenon DEF Moved, Guarded
  <1> QED
    BY <1>4, <1>6 DEF IInv

\* Nothing is scheduled.
LEMMA DeclinedStep ==
  ASSUME IInv, NEW t \in Thread, Declined(t)
  PROVE  IInv'
  <1> DEFINE r == At(Resume(t))
  <1>1. t \in Thread /\ th' = [th EXCEPT ![t] = r]
    BY Kinds DEF IInv, TypeOK, Declined, Resume, Go, Take, Leave
  <1>2. Stands(t, r)
    BY Kinds, Zenon DEF Stands, IInv, TypeOK, Busy, FileOf, Declined, Resume, At, Ensuring,
       Scheduling, WorkerPlaces, CallerPlaces, CrawlerPlaces, Placed
  <1> HIDE DEF r
  <1>3. Moved(t, r)
    BY <1>1, <1>2, OneMoves, Zenon DEF IInv
  <1>4. TypeOK'
    BY <1>1, <1>3, Zenon DEF Moved, IInv, TypeOK, Declined, world, queue, locks
  <1>5. /\ r.pc \in Ensuring \union Scheduling \union {"done", "failed", "confirm"}
              => r.file \in File
        /\ \A s \in Thread \ {t} : Inside(s) => FileOf(s) \in held'
        /\ \A s \in Thread \ {t} : th[s].pc = "stream" => gate' = s
        /\ r.pc \in {"gate", "stream", "verify", "commit"} =>
              /\ r.file \in held'
              /\ \A s \in Thread \ {t} : Inside(s) => FileOf(s) # r.file
        /\ r.pc = "stream" => gate' = t
    BY <1>1 DEF r, IInv, TypeOK, Busy, Locked, Apart, Inside, Declined, Resume, locks,
       FileOf, At, Ensuring, Scheduling, Placed
  <1>6. Busy' /\ Locked' /\ Apart'
    BY <1>1, <1>3, <1>5, LocksKept, Zenon DEF Moved, Guarded
  <1> QED
    BY <1>4, <1>6 DEF IInv

\* A file is marked as scheduled.
LEMMA InsertStep ==
  ASSUME IInv, NEW t \in Thread, Insert(t)
  PROVE  IInv'
  <1> DEFINE r == [th[t] EXCEPT !.pc = "push"]
  <1>1. t \in Thread /\ th' = [th EXCEPT ![t] = r]
    BY Kinds DEF IInv, TypeOK, Insert, Go, Take, Leave
  <1>2. Stands(t, r)
    BY Kinds DEF Stands, IInv, TypeOK, Busy, FileOf, Insert, At, Ensuring, Scheduling,
       WorkerPlaces, CallerPlaces, CrawlerPlaces, Placed
  <1> HIDE DEF r
  <1>3. Moved(t, r)
    BY <1>1, <1>2, OneMoves, Zenon DEF IInv
  <1>4. TypeOK'
    BY <1>1, <1>3, ZenonT(40) DEF Moved, IInv, TypeOK, Insert, Busy, FileOf, Ensuring, Scheduling,
       world, queue, locks
  <1>5. /\ r.pc \in Ensuring \union Scheduling \union {"done", "failed", "confirm"}
              => r.file \in File
        /\ \A s \in Thread \ {t} : Inside(s) => FileOf(s) \in held'
        /\ \A s \in Thread \ {t} : th[s].pc = "stream" => gate' = s
        /\ r.pc \in {"gate", "stream", "verify", "commit"} =>
              /\ r.file \in held'
              /\ \A s \in Thread \ {t} : Inside(s) => FileOf(s) # r.file
        /\ r.pc = "stream" => gate' = t
    BY <1>1 DEF r, IInv, TypeOK, Busy, Locked, Apart, Inside, Insert, locks, FileOf, At,
       Ensuring, Scheduling, Placed
  <1>6. Busy' /\ Locked' /\ Apart'
    BY <1>1, <1>3, <1>5, LocksKept, Zenon DEF Moved, Guarded
  <1> QED
    BY <1>4, <1>6 DEF IInv

\* The file is local.
LEMMA NothingToFetchStep ==
  ASSUME IInv, NEW t \in Worker \union Caller, NothingToFetch(t)
  PROVE  IInv'
  <1> DEFINE r == [th[t] EXCEPT !.pc = Returned(t)]
  <1>1. t \in Thread /\ th' = [th EXCEPT ![t] = r]
    BY Kinds DEF IInv, TypeOK, NothingToFetch, Returned, Go, Take, Leave
  <1>2. Stands(t, r)
    <2>1. /\ t \in Worker => Returned(t) \in WorkerPlaces
          /\ t \in Caller => Returned(t) \in CallerPlaces
          /\ t \in Crawler => Returned(t) \in CrawlerPlaces
      BY Kinds DEF Returned, WorkerPlaces, CallerPlaces, CrawlerPlaces, Ensuring
    <2> QED
      BY <1>1, <2>1, GoesOn, Zenon DEF IInv
  <1> HIDE DEF r
  <1>3. Moved(t, r)
    BY <1>1, <1>2, OneMoves, Zenon DEF IInv
  <1>4. TypeOK'
    BY <1>1, <1>3, Zenon DEF Moved, IInv, TypeOK, NothingToFetch, world, queue, locks
  <1>5. /\ r.pc \in Ensuring \union Scheduling \union {"done", "failed", "confirm"}
              => r.file \in File
        /\ \A s \in Thread \ {t} : Inside(s) => FileOf(s) \in held'
        /\ \A s \in Thread \ {t} : th[s].pc = "stream" => gate' = s
        /\ r.pc \in {"gate", "stream", "verify", "commit"} =>
              /\ r.file \in held'
              /\ \A s \in Thread \ {t} : Inside(s) => FileOf(s) # r.file
        /\ r.pc = "stream" => gate' = t
    BY <1>1 DEF r, IInv, TypeOK, Busy, Locked, Apart, Inside, NothingToFetch, Returned,
       locks, FileOf, At, Ensuring, Scheduling, Placed
  <1>6. Busy' /\ Locked' /\ Apart'
    BY <1>1, <1>3, <1>5, LocksKept, Zenon DEF Moved, Guarded
  <1> QED
    BY <1>4, <1>6 DEF IInv

\* The lock of the file is taken.
LEMMA EnsureLockStep ==
  ASSUME IInv, NEW t \in Worker \union Caller, EnsureLock(t)
  PROVE  IInv'
  <1> DEFINE r == [th[t] EXCEPT !.pc = "gate", !.seen = row[FileOf(t)].version]
  <1>1. t \in Thread /\ th' = [th EXCEPT ![t] = r]
    BY Kinds, Zenon DEF IInv, TypeOK, EnsureLock, LockFree, Go, Take, Leave
  <1>2. Stands(t, r)
    <2>1. /\ t \in Worker => "gate" \in WorkerPlaces
          /\ t \in Caller => "gate" \in CallerPlaces
          /\ t \in Crawler => "gate" \in CrawlerPlaces
      BY Kinds DEF WorkerPlaces, CallerPlaces, CrawlerPlaces, Ensuring
    <2>2. th[t].file \in File
      BY <1>1 DEF IInv, Busy, EnsureLock, Ensuring, FileOf
    <2>3. row[FileOf(t)].version \in Nat
      BY <2>2 DEF IInv, TypeOK, FileOf
    <2> QED
      BY <1>1, <2>1, <2>3, GoesOn, Zenon DEF IInv
  <1> HIDE DEF r
  <1>3. Moved(t, r)
    BY <1>1, <1>2, OneMoves, Zenon DEF IInv
  <1>4. TypeOK'
    BY <1>1, <1>3, Zenon DEF Moved, IInv, TypeOK, EnsureLock, Busy, FileOf, Ensuring, Scheduling,
       world, queue, locks
  <1>5. /\ r.pc \in Ensuring \union Scheduling \union {"done", "failed", "confirm"}
              => r.file \in File
        /\ \A s \in Thread \ {t} : Inside(s) => FileOf(s) \in held'
        /\ \A s \in Thread \ {t} : th[s].pc = "stream" => gate' = s
        /\ r.pc \in {"gate", "stream", "verify", "commit"} =>
              /\ r.file \in held'
              /\ \A s \in Thread \ {t} : Inside(s) => FileOf(s) # r.file
        /\ r.pc = "stream" => gate' = t
    BY <1>1 DEF r, IInv, TypeOK, Busy, Locked, Apart, Inside, EnsureLock, LockFree, locks,
       FileOf, At, Ensuring, Scheduling, Placed
  <1>6. Busy' /\ Locked' /\ Apart'
    BY <1>1, <1>3, <1>5, LocksKept, Zenon DEF Moved, Guarded
  <1> QED
    BY <1>4, <1>6 DEF IInv

\* The gate is taken.
LEMMA EnsureGateStep ==
  ASSUME IInv, NEW t \in Worker \union Caller, EnsureGate(t)
  PROVE  IInv'
  <1> DEFINE r == [th[t] EXCEPT !.pc = "stream"]
  <1>1. t \in Thread /\ th' = [th EXCEPT ![t] = r]
    BY Kinds DEF IInv, TypeOK, EnsureGate, Go, Take, Leave
  <1>2. Stands(t, r)
    <2>1. /\ t \in Worker => "stream" \in WorkerPlaces
          /\ t \in Caller => "stream" \in CallerPlaces
          /\ t \in Crawler => "stream" \in CrawlerPlaces
      BY Kinds DEF WorkerPlaces, CallerPlaces, CrawlerPlaces, Ensuring
    <2> QED
      BY <1>1, <2>1, GoesOn, Zenon DEF IInv
  <1> HIDE DEF r
  <1>3. Moved(t, r)
    BY <1>1, <1>2, OneMoves, Zenon DEF IInv
  <1>4. TypeOK'
    BY <1>1, <1>3, Kinds, Zenon DEF Moved, IInv, TypeOK, EnsureGate, world, queue, locks
  <1>5. /\ r.pc \in Ensuring \union Scheduling \union {"done", "failed", "confirm"}
              => r.file \in File
        /\ \A s \in Thread \ {t} : Inside(s) => FileOf(s) \in held'
        /\ \A s \in Thread \ {t} : th[s].pc = "stream" => gate' = s
        /\ r.pc \in {"gate", "stream", "verify", "commit"} =>
              /\ r.file \in held'
              /\ \A s \in Thread \ {t} : Inside(s) => FileOf(s) # r.file
        /\ r.pc = "stream" => gate' = t
    BY <1>1, Kinds DEF r, IInv, TypeOK, Busy, Locked, Apart, Inside, EnsureGate, locks,
       FileOf, At, Ensuring, Scheduling, Placed
  <1>6. Busy' /\ Locked' /\ Apart'
    BY <1>1, <1>3, <1>5, LocksKept, Zenon DEF Moved, Guarded
  <1> QED
    BY <1>4, <1>6 DEF IInv

\* The gate is left.
LEMMA StreamSucceedsStep ==
  ASSUME IInv, NEW t \in Worker \union Caller, StreamSucceeds(t)
  PROVE  IInv'
  <1> DEFINE r == [th[t] EXCEPT !.pc = "verify"]
  <1>1. t \in Thread /\ th' = [th EXCEPT ![t] = r]
    BY Kinds DEF IInv, TypeOK, StreamSucceeds, Go, Take, Leave
  <1>2. Stands(t, r)
    <2>1. /\ t \in Worker => "verify" \in WorkerPlaces
          /\ t \in Caller => "verify" \in CallerPlaces
          /\ t \in Crawler => "verify" \in CrawlerPlaces
      BY Kinds DEF WorkerPlaces, CallerPlaces, CrawlerPlaces, Ensuring
    <2> QED
      BY <1>1, <2>1, GoesOn, Zenon DEF IInv
  <1> HIDE DEF r
  <1>3. Moved(t, r)
    BY <1>1, <1>2, OneMoves, Zenon DEF IInv
  <1>4. TypeOK'
    BY <1>1, <1>3, Zenon DEF Moved, IInv, TypeOK, StreamSucceeds, world, queue, locks
  <1>5. /\ r.pc \in Ensuring \union Scheduling \union {"done", "failed", "confirm"}
              => r.file \in File
        /\ \A s \in Thread \ {t} : Inside(s) => FileOf(s) \in held'
        /\ \A s \in Thread \ {t} : th[s].pc = "stream" => gate' = s
        /\ r.pc \in {"gate", "stream", "verify", "commit"} =>
              /\ r.file \in held'
              /\ \A s \in Thread \ {t} : Inside(s) => FileOf(s) # r.file
        /\ r.pc = "stream" => gate' = t
    BY <1>1 DEF r, IInv, TypeOK, Busy, Locked, Apart, Inside, StreamSucceeds, locks,
       FileOf, At, Ensuring, Scheduling, Placed
  <1>6. Busy' /\ Locked' /\ Apart'
    BY <1>1, <1>3, <1>5, LocksKept, Zenon DEF Moved, Guarded
  <1> QED
    BY <1>4, <1>6 DEF IInv

\* The file is in the mirror; the lock is released.
LEMMA EnsureCommitStep ==
  ASSUME IInv, NEW t \in Worker \union Caller, EnsureCommit(t)
  PROVE  IInv'
  <1> DEFINE r == [th[t] EXCEPT !.pc = Returned(t)]
  <1>1. t \in Thread /\ th' = [th EXCEPT ![t] = r]
    BY Kinds DEF IInv, TypeOK, EnsureCommit, Freed, Returned, Go, Take, Leave
  <1>2. Stands(t, r)
    BY Kinds, SMTT(20) DEF Stands, IInv, TypeOK, Busy, FileOf, EnsureCommit, Freed, Returned, At, Ensuring,
       Scheduling, WorkerPlaces, CallerPlaces, CrawlerPlaces, Placed
  <1> HIDE DEF r
  <1>3. Moved(t, r)
    BY <1>1, <1>2, OneMoves, Zenon DEF IInv
  <1>4. TypeOK'
    <2>1. FileOf(t) \in File
      BY Kinds DEF IInv, Busy, EnsureCommit, Ensuring
    <2>2. row' \in [File -> [version : Nat, hydrated : BOOLEAN]]
      BY <2>1, Zenon DEF IInv, TypeOK, EnsureCommit, Freed
    <2>3. held' \subseteq File
      BY DEF IInv, TypeOK, EnsureCommit, Freed
    <2> QED
      BY <1>3, <2>2, <2>3, Zenon DEF Moved, IInv, TypeOK, EnsureCommit, Freed, world, queue, locks
  <1>5. /\ r.pc \in Ensuring \union Scheduling \union {"done", "failed", "confirm"}
              => r.file \in File
        /\ \A s \in Thread \ {t} : Inside(s) => FileOf(s) \in held'
        /\ \A s \in Thread \ {t} : th[s].pc = "stream" => gate' = s
        /\ r.pc \in {"gate", "stream", "verify", "commit"} =>
              /\ r.file \in held'
              /\ \A s \in Thread \ {t} : Inside(s) => FileOf(s) # r.file
        /\ r.pc = "stream" => gate' = t
    BY <1>1 DEF r, IInv, TypeOK, Busy, Locked, Apart, Inside, EnsureCommit, Freed, Returned,
       locks, FileOf, At, Ensuring, Scheduling, Placed
  <1>6. Busy' /\ Locked' /\ Apart'
    BY <1>1, <1>3, <1>5, LocksKept, Zenon DEF Moved, Guarded
  <1> QED
    BY <1>4, <1>6 DEF IInv

\* A job ends.
LEMMA JobEndsStep ==
  ASSUME IInv, NEW t \in Worker, JobEnds(t)
  PROVE  IInv'
  <1> DEFINE r == IF th[t].pc = "failed" THEN [th[t] EXCEPT !.pc = "offer"] ELSE At("pop")
  <1>1. t \in Thread /\ th' = [th EXCEPT ![t] = r]
    BY Kinds DEF IInv, TypeOK, JobEnds, Unscheduled, Go, Take, Leave
  <1>2. Stands(t, r)
    BY Kinds DEF Stands, IInv, TypeOK, Busy, FileOf, JobEnds, Unscheduled, At, Ensuring,
       Scheduling, WorkerPlaces, CallerPlaces, CrawlerPlaces, Placed
  <1> HIDE DEF r
  <1>3. Moved(t, r)
    BY <1>1, <1>2, OneMoves, Zenon DEF IInv
  <1>4. TypeOK'
    BY <1>1, <1>3, Zenon DEF Moved, IInv, TypeOK, JobEnds, Unscheduled, world, queue, locks
  <1>5. /\ r.pc \in Ensuring \union Scheduling \union {"done", "failed", "confirm"}
              => r.file \in File
        /\ \A s \in Thread \ {t} : Inside(s) => FileOf(s) \in held'
        /\ \A s \in Thread \ {t} : th[s].pc = "stream" => gate' = s
        /\ r.pc \in {"gate", "stream", "verify", "commit"} =>
              /\ r.file \in held'
              /\ \A s \in Thread \ {t} : Inside(s) => FileOf(s) # r.file
        /\ r.pc = "stream" => gate' = t
    BY <1>1 DEF r, IInv, TypeOK, Busy, Locked, Apart, Inside, JobEnds, Unscheduled, locks,
       FileOf, At, Ensuring, Scheduling, Placed
  <1>6. Busy' /\ Locked' /\ Apart'
    BY <1>1, <1>3, <1>5, LocksKept, Zenon DEF Moved, Guarded
  <1> QED
    BY <1>4, <1>6 DEF IInv

\* The lock is kept only if the file is still the one asked for.
LEMMA EnsureVerifyStep ==
  ASSUME IInv, NEW t \in Worker \union Caller, EnsureVerify(t)
  PROVE  IInv'
  <1> DEFINE r ==
        [At(IF row[FileOf(t)].version = th[t].seen THEN "commit" ELSE Returned(t))
            EXCEPT !.file = FileOf(t)]
  <1>1. t \in Thread /\ th' = [th EXCEPT ![t] = r]
    BY Kinds DEF IInv, TypeOK, EnsureVerify, Freed, Returned, Go, Take, Leave
  <1>2. Stands(t, r)
    BY Kinds DEF Stands, IInv, TypeOK, Busy, FileOf, EnsureVerify, Freed, Returned, At, Ensuring,
       Scheduling, WorkerPlaces, CallerPlaces, CrawlerPlaces, Placed
  <1> HIDE DEF r
  <1>3. Moved(t, r)
    BY <1>1, <1>2, OneMoves, Zenon DEF IInv
  <1>4. TypeOK'
    <2>1. held' \subseteq File
      BY DEF IInv, TypeOK, EnsureVerify, Freed
    <2> QED
      BY <1>3, <2>1, Zenon DEF Moved, IInv, TypeOK, EnsureVerify, Freed, world, queue, locks
  <1>5. /\ r.pc \in Ensuring \union Scheduling \union {"done", "failed", "confirm"}
              => r.file \in File
        /\ \A s \in Thread \ {t} : Inside(s) => FileOf(s) \in held'
        /\ \A s \in Thread \ {t} : th[s].pc = "stream" => gate' = s
        /\ r.pc \in {"gate", "stream", "verify", "commit"} =>
              /\ r.file \in held'
              /\ \A s \in Thread \ {t} : Inside(s) => FileOf(s) # r.file
        /\ r.pc = "stream" => gate' = t
    BY <1>1 DEF r, IInv, TypeOK, Busy, Locked, Apart, Inside, EnsureVerify, Freed, Returned,
       locks, FileOf, At, Ensuring, Scheduling, Placed
  <1>6. Busy' /\ Locked' /\ Apart'
    BY <1>1, <1>3, <1>5, LocksKept, Zenon DEF Moved, Guarded
  <1> QED
    BY <1>4, <1>6 DEF IInv

\* A caller has its file, gives up, or tries again.
LEMMA CallConfirmsStep ==
  ASSUME IInv, NEW t \in Caller, CallConfirms(t)
  PROVE  IInv'
  <1> DEFINE r ==
        IF row[FileOf(t)].hydrated \/ tries[t] = MaxHydrateAttempts
        THEN At("idle") ELSE [th[t] EXCEPT !.pc = "check"]
  <1>1. t \in Thread /\ th' = [th EXCEPT ![t] = r]
    BY Kinds DEF IInv, TypeOK, CallConfirms, Go, Take, Leave
  <1>2. Stands(t, r)
    <2>1. t \notin Worker /\ t \notin Crawler /\ "check" \in CallerPlaces
      BY Kinds DEF CallerPlaces, Ensuring
    <2>2. Stands(t, [th[t] EXCEPT !.pc = "check"])
      BY <1>1, <2>1, GoesOn, Zenon DEF IInv
    <2>3. Stands(t, At("idle"))
      BY <2>1 DEF Stands, At, Placed, CallerPlaces
    <2> QED
      BY <2>2, <2>3
  <1> HIDE DEF r
  <1>3. Moved(t, r)
    BY <1>1, <1>2, OneMoves, Zenon DEF IInv
  <1>4. TypeOK'
    <2>1. tries[t] \in 0..MaxHydrateAttempts
      BY DEF IInv, TypeOK
    <2>2. tries' \in [Caller -> 0..MaxHydrateAttempts]
      <3>1. CASE tries' = [tries EXCEPT ![t] = 0]
        BY <3>1 DEF IInv, TypeOK, MaxHydrateAttempts
      <3>2. CASE tries[t] # MaxHydrateAttempts /\ tries' = [tries EXCEPT ![t] = @ + 1]
        <4>1. tries[t] + 1 \in 0..MaxHydrateAttempts
          BY <2>1, <3>2 DEF MaxHydrateAttempts
        <4> QED
          BY <3>2, <4>1 DEF IInv, TypeOK
      <3> QED
        BY <3>1, <3>2 DEF CallConfirms
    <2> QED
      BY <1>3, <2>2, Zenon DEF Moved, IInv, TypeOK, CallConfirms, world, queue, locks
  <1>5. /\ r.pc \in Ensuring \union Scheduling \union {"done", "failed", "confirm"}
              => r.file \in File
        /\ \A s \in Thread \ {t} : Inside(s) => FileOf(s) \in held'
        /\ \A s \in Thread \ {t} : th[s].pc = "stream" => gate' = s
        /\ r.pc \in {"gate", "stream", "verify", "commit"} =>
              /\ r.file \in held'
              /\ \A s \in Thread \ {t} : Inside(s) => FileOf(s) # r.file
        /\ r.pc = "stream" => gate' = t
    BY <1>1, Kinds DEF r, IInv, TypeOK, Busy, Locked, Apart, Inside, CallConfirms, locks,
       FileOf, At, Ensuring, Scheduling, Placed
  <1>6. Busy' /\ Locked' /\ Apart'
    BY <1>1, <1>3, <1>5, LocksKept, Zenon DEF Moved, Guarded
  <1> QED
    BY <1>4, <1>6 DEF IInv

\* A crawl starts.
LEMMA CrawlStartsStep ==
  ASSUME IInv, NEW t \in Crawler, CrawlStarts(t)
  PROVE  IInv'
  <1> DEFINE r == [th[t] EXCEPT !.pc = "apply"]
  <1>1. t \in Thread /\ th' = [th EXCEPT ![t] = r]
    BY Kinds DEF IInv, TypeOK, CrawlStarts, Go, Take, Leave
  <1>2. Stands(t, r)
    <2>1. /\ t \in Worker => "apply" \in WorkerPlaces
          /\ t \in Caller => "apply" \in CallerPlaces
          /\ t \in Crawler => "apply" \in CrawlerPlaces
      BY Kinds DEF WorkerPlaces, CallerPlaces, CrawlerPlaces, Ensuring
    <2> QED
      BY <1>1, <2>1, GoesOn, Zenon DEF IInv
  <1> HIDE DEF r
  <1>3. Moved(t, r)
    BY <1>1, <1>2, OneMoves, Zenon DEF IInv
  <1>4. TypeOK'
    <2>1. {[file |-> f, version |-> remote[f]] : f \in File}
            \in SUBSET [file : File, version : Nat]
      BY DEF IInv, TypeOK
    <2>2. todo' \in [Crawler -> SUBSET [file : File, version : Nat]]
      BY <2>1 DEF IInv, TypeOK, CrawlStarts
    <2> QED
      BY <1>3, <2>2, Zenon DEF Moved, IInv, TypeOK, CrawlStarts, world, queue, locks
  <1>5. /\ r.pc \in Ensuring \union Scheduling \union {"done", "failed", "confirm"}
              => r.file \in File
        /\ \A s \in Thread \ {t} : Inside(s) => FileOf(s) \in held'
        /\ \A s \in Thread \ {t} : th[s].pc = "stream" => gate' = s
        /\ r.pc \in {"gate", "stream", "verify", "commit"} =>
              /\ r.file \in held'
              /\ \A s \in Thread \ {t} : Inside(s) => FileOf(s) # r.file
        /\ r.pc = "stream" => gate' = t
    BY <1>1 DEF r, IInv, TypeOK, Busy, Locked, Apart, Inside, CrawlStarts, locks, FileOf,
       At, Ensuring, Scheduling, Placed
  <1>6. Busy' /\ Locked' /\ Apart'
    BY <1>1, <1>3, <1>5, LocksKept DEF Moved, Guarded
  <1> QED
    BY <1>4, <1>6 DEF IInv

\* A worker takes a file that is due.
LEMMA PopTakesStep ==
  ASSUME IInv, NEW t \in Worker, PopTakes(t)
  PROVE  IInv'
  <1> PICK r : /\ r \in {[At("check") EXCEPT !.file = f] : f \in File}
                /\ t \in Thread /\ th' = [th EXCEPT ![t] = r]
    BY Kinds, Zenon DEF IInv, TypeOK, PopTakes, Go, Take, Leave
  <1>1. t \in Thread /\ th' = [th EXCEPT ![t] = r]
    OBVIOUS
  <1>2. Stands(t, r)
    BY Kinds DEF Stands, IInv, TypeOK, Busy, FileOf, PopTakes, At, Ensuring, Scheduling,
       WorkerPlaces, CallerPlaces, CrawlerPlaces, Placed
  <1>3. Moved(t, r)
    BY <1>1, <1>2, OneMoves, Zenon DEF IInv
  <1>4. TypeOK'
    <2>1. PICK f \in File : due[f] > 0 /\ due' = [due EXCEPT ![f] = @ - 1]
      BY Zenon DEF PopTakes
    <2>2. due[f] - 1 \in Nat
      BY <2>1 DEF IInv, TypeOK
    <2>3. due' \in [File -> Nat]
      BY <2>1, <2>2 DEF IInv, TypeOK
    <2> QED
      BY <1>3, <2>3, Zenon DEF Moved, IInv, TypeOK, PopTakes, world, queue, locks
  <1>5. /\ r.pc \in Ensuring \union Scheduling \union {"done", "failed", "confirm"}
              => r.file \in File
        /\ \A s \in Thread \ {t} : Inside(s) => FileOf(s) \in held'
        /\ \A s \in Thread \ {t} : th[s].pc = "stream" => gate' = s
        /\ r.pc \in {"gate", "stream", "verify", "commit"} =>
              /\ r.file \in held'
              /\ \A s \in Thread \ {t} : Inside(s) => FileOf(s) # r.file
        /\ r.pc = "stream" => gate' = t
    <2>1. PICK f \in File : r = [At("check") EXCEPT !.file = f]
      OBVIOUS
    <2>2. r.pc = "check" /\ r.file = f
      BY <2>1 DEF At
    <2>3. held' = held /\ gate' = gate
      BY DEF PopTakes, locks
    <2>4. \A s \in Thread \ {t} : Inside(s) => FileOf(s) \in held'
      BY <2>3 DEF IInv, Locked
    <2>5. \A s \in Thread \ {t} : th[s].pc = "stream" => gate' = s
      BY <2>3 DEF IInv, Locked
    <2> QED
      BY <2>2, <2>4, <2>5
  <1>6. Busy' /\ Locked' /\ Apart'
    BY <1>1, <1>3, <1>5, LocksKept, Zenon DEF Moved, Guarded
  <1> QED
    BY <1>4, <1>6 DEF IInv

\* A download fails; its guards drop.
LEMMA StreamFailsStep ==
  ASSUME IInv, NEW t \in Worker \union Caller, StreamFails(t)
  PROVE  IInv'
  <1> PICK r : /\ r \in (IF t \in Worker
                         THEN {[At("failed") EXCEPT !.file = FileOf(t)],
                               [At("done") EXCEPT !.file = FileOf(t)]}
                         ELSE {At("idle")})
                /\ t \in Thread /\ th' = [th EXCEPT ![t] = r]
    BY Kinds, Zenon DEF IInv, TypeOK, StreamFails, Freed, Go, Take, Leave
  <1>1. t \in Thread /\ th' = [th EXCEPT ![t] = r]
    OBVIOUS
  <1>2. Stands(t, r)
    BY Kinds DEF Stands, IInv, TypeOK, Busy, FileOf, StreamFails, Freed, At, Ensuring,
       Scheduling, WorkerPlaces, CallerPlaces, CrawlerPlaces, Placed
  <1>3. Moved(t, r)
    BY <1>1, <1>2, OneMoves, Zenon DEF IInv
  <1>4. TypeOK'
    <2>1. left.fail - 1 \in Nat
      BY DEF IInv, TypeOK, StreamFails, Freed
    <2>2. left' \in [change : Nat, fail : Nat, call : Nat]
      BY <2>1 DEF IInv, TypeOK, StreamFails, Freed
    <2>3. held' \subseteq File /\ gate' \in Thread \union {NoThread}
      BY DEF IInv, TypeOK, StreamFails, Freed
    <2>4. tries' \in [Caller -> 0..MaxHydrateAttempts]
      BY DEF IInv, TypeOK, StreamFails, Freed, MaxHydrateAttempts
    <2> QED
      BY <1>3, <2>2, <2>3, <2>4, Zenon DEF Moved, IInv, TypeOK, StreamFails, Freed, queue
  <1>5. /\ r.pc \in Ensuring \union Scheduling \union {"done", "failed", "confirm"}
              => r.file \in File
        /\ \A s \in Thread \ {t} : Inside(s) => FileOf(s) \in held'
        /\ \A s \in Thread \ {t} : th[s].pc = "stream" => gate' = s
        /\ r.pc \in {"gate", "stream", "verify", "commit"} =>
              /\ r.file \in held'
              /\ \A s \in Thread \ {t} : Inside(s) => FileOf(s) # r.file
        /\ r.pc = "stream" => gate' = t
    <2>1. th[t].pc = "stream" /\ FileOf(t) \in File
      BY <1>1 DEF IInv, Busy, StreamFails, Ensuring
    <2>2. r.pc \in {"idle", "failed", "done", "check"}
             /\ (r.pc \in {"failed", "done", "check"} => r.file \in File)
      BY <2>1, <1>1 DEF At, FileOf
    <2>3. /\ held' = held \ {FileOf(t)}
          /\ gate' = NoThread
      BY DEF StreamFails, Freed
    <2>4. \A s \in Thread \ {t} : Inside(s) => FileOf(s) \in held'
      BY <1>1, <2>1, <2>3 DEF IInv, Locked, Apart, Inside
    <2>5. \A s \in Thread \ {t} : th[s].pc = "stream" => gate' = s
      BY <1>1, <2>1 DEF IInv, Locked
    <2> QED
      BY <2>2, <2>4, <2>5 DEF Ensuring, Scheduling
  <1>6. Busy' /\ Locked' /\ Apart'
    BY <1>1, <1>3, <1>5, LocksKept, Zenon DEF Moved, Guarded
  <1> QED
    BY <1>4, <1>6 DEF IInv

\* Somebody opens a file.
LEMMA CallStartsStep ==
  ASSUME IInv, NEW t \in Caller, CallStarts(t)
  PROVE  IInv'
  <1> PICK r : /\ r \in {[At("check") EXCEPT !.file = f] : f \in File}
                /\ t \in Thread /\ th' = [th EXCEPT ![t] = r]
    BY Kinds, Zenon DEF IInv, TypeOK, CallStarts, Go, Take, Leave
  <1>1. t \in Thread /\ th' = [th EXCEPT ![t] = r]
    OBVIOUS
  <1>2. Stands(t, r)
    BY Kinds DEF Stands, IInv, TypeOK, Busy, FileOf, CallStarts, At, Ensuring, Scheduling,
       WorkerPlaces, CallerPlaces, CrawlerPlaces, Placed
  <1>3. Moved(t, r)
    BY <1>1, <1>2, OneMoves, Zenon DEF IInv
  <1>4. TypeOK'
    <2>1. left.call - 1 \in Nat
      BY DEF IInv, TypeOK, CallStarts
    <2>2. left' \in [change : Nat, fail : Nat, call : Nat]
      BY <2>1 DEF IInv, TypeOK, CallStarts
    <2>4. tries' \in [Caller -> 0..MaxHydrateAttempts]
      BY DEF IInv, TypeOK, CallStarts, MaxHydrateAttempts
    <2> QED
      BY <1>3, <2>2, <2>4, Zenon DEF Moved, IInv, TypeOK, CallStarts, queue, locks
  <1>5. /\ r.pc \in Ensuring \union Scheduling \union {"done", "failed", "confirm"}
              => r.file \in File
        /\ \A s \in Thread \ {t} : Inside(s) => FileOf(s) \in held'
        /\ \A s \in Thread \ {t} : th[s].pc = "stream" => gate' = s
        /\ r.pc \in {"gate", "stream", "verify", "commit"} =>
              /\ r.file \in held'
              /\ \A s \in Thread \ {t} : Inside(s) => FileOf(s) # r.file
        /\ r.pc = "stream" => gate' = t
    <2>1. PICK f \in File : r = [At("check") EXCEPT !.file = f]
      OBVIOUS
    <2>2. r.pc = "check" /\ r.file = f
      BY <2>1 DEF At
    <2>3. held' = held /\ gate' = gate
      BY DEF CallStarts, locks
    <2>4. \A s \in Thread \ {t} : Inside(s) => FileOf(s) \in held'
      BY <2>3 DEF IInv, Locked
    <2>5. \A s \in Thread \ {t} : th[s].pc = "stream" => gate' = s
      BY <2>3 DEF IInv, Locked
    <2> QED
      BY <2>2, <2>4, <2>5
  <1>6. Busy' /\ Locked' /\ Apart'
    BY <1>1, <1>3, <1>5, LocksKept, Zenon DEF Moved, Guarded
  <1> QED
    BY <1>4, <1>6 DEF IInv

\* An item of the listing is applied.
LEMMA CrawlAppliesStep ==
  ASSUME IInv, NEW t \in Crawler, CrawlApplies(t)
  PROVE  IInv'
  <1> PICK r : /\ r \in {th[t]} \union {[At("offer") EXCEPT !.file = f] : f \in File}
                /\ t \in Thread /\ th' = [th EXCEPT ![t] = r]
    BY Kinds DEF IInv, TypeOK, CrawlApplies, Go, Take, Leave
  <1>1. t \in Thread /\ th' = [th EXCEPT ![t] = r]
    OBVIOUS
  <1>2. Stands(t, r)
    BY Kinds DEF Stands, IInv, TypeOK, Busy, FileOf, CrawlApplies, At, Ensuring,
       Scheduling, WorkerPlaces, CallerPlaces, CrawlerPlaces, Placed
  <1>3. Moved(t, r)
    BY <1>1, <1>2, OneMoves, Zenon DEF IInv
  <1>4. TypeOK'
    <2>1. PICK n \in todo[t] :
            /\ row' = [row EXCEPT ![n.file] =
                 [version |-> n.version,
                  hydrated |-> row[n.file].hydrated /\ row[n.file].version = n.version]]
            /\ todo' = [todo EXCEPT ![t] = @ \ {n}]
      BY Zenon DEF CrawlApplies
    <2>2. todo[t] \subseteq [file : File, version : Nat]
      BY DEF IInv, TypeOK
    <2>3. n.file \in File /\ n.version \in Nat
      BY <2>2
    <2>4. row[n.file].hydrated \in BOOLEAN
      BY <2>3 DEF IInv, TypeOK
    <2>5. row' \in [File -> [version : Nat, hydrated : BOOLEAN]]
      BY <2>1, <2>3, <2>4 DEF IInv, TypeOK
    <2>6. todo' \in [Crawler -> SUBSET [file : File, version : Nat]]
      BY <2>1, <2>2 DEF IInv, TypeOK
    <2> QED
      BY <1>3, <2>5, <2>6, Zenon DEF Moved, IInv, TypeOK, CrawlApplies, world, queue, locks
  <1>5. /\ r.pc \in Ensuring \union Scheduling \union {"done", "failed", "confirm"}
              => r.file \in File
        /\ \A s \in Thread \ {t} : Inside(s) => FileOf(s) \in held'
        /\ \A s \in Thread \ {t} : th[s].pc = "stream" => gate' = s
        /\ r.pc \in {"gate", "stream", "verify", "commit"} =>
              /\ r.file \in held'
              /\ \A s \in Thread \ {t} : Inside(s) => FileOf(s) # r.file
        /\ r.pc = "stream" => gate' = t
    BY <1>1 DEF IInv, TypeOK, Busy, Locked, Apart, Inside, CrawlApplies, locks, FileOf,
       At, Ensuring, Scheduling, Placed
  <1>6. Busy' /\ Locked' /\ Apart'
    BY <1>1, <1>3, <1>5, LocksKept, Zenon DEF Moved, Guarded
  <1> QED
    BY <1>4, <1>6 DEF IInv

\* A crawl ends.
LEMMA CrawlEndsStep ==
  ASSUME IInv, NEW t \in Crawler, CrawlEnds(t)
  PROVE  IInv'
  <1> DEFINE r == [th[t] EXCEPT !.pc = "idle"]
  <1>1. t \in Thread /\ th' = [th EXCEPT ![t] = r]
    BY Kinds DEF IInv, TypeOK, CrawlEnds, Go, Take, Leave
  <1>2. Stands(t, r)
    BY Kinds DEF Stands, IInv, TypeOK, Busy, FileOf, CrawlEnds, At, Ensuring, Scheduling,
       WorkerPlaces, CallerPlaces, CrawlerPlaces, Placed
  <1> HIDE DEF r
  <1>3. Moved(t, r)
    BY <1>1, <1>2, OneMoves, Zenon DEF IInv
  <1>4. TypeOK'
    BY <1>1, <1>3, Zenon DEF Moved, IInv, TypeOK, CrawlEnds, world, queue, locks
  <1>5. /\ r.pc \in Ensuring \union Scheduling \union {"done", "failed", "confirm"}
              => r.file \in File
        /\ \A s \in Thread \ {t} : Inside(s) => FileOf(s) \in held'
        /\ \A s \in Thread \ {t} : th[s].pc = "stream" => gate' = s
        /\ r.pc \in {"gate", "stream", "verify", "commit"} =>
              /\ r.file \in held'
              /\ \A s \in Thread \ {t} : Inside(s) => FileOf(s) # r.file
        /\ r.pc = "stream" => gate' = t
    BY <1>1 DEF r, IInv, TypeOK, Busy, Locked, Apart, Inside, CrawlEnds, locks, FileOf,
       At, Ensuring, Scheduling, Placed
  <1>6. Busy' /\ Locked' /\ Apart'
    BY <1>1, <1>3, <1>5, LocksKept DEF Moved, Guarded
  <1> QED
    BY <1>4, <1>6 DEF IInv

-----------------------------------------------------------------------------
\* Threads that go where nobody is inside and no file is needed disturb nothing.
LEMMA OthersMove ==
  ASSUME IInv, held' = held, gate' = gate,
         \A s \in Thread : \/ th'[s] = th[s]
                           \/ th'[s].pc \in {"pop", "apply"}
  PROVE  Busy' /\ Locked' /\ Apart'
  <1>1. Busy'
    BY DEF IInv, Busy, FileOf, Ensuring, Scheduling
  <1>2. Locked'
    BY DEF IInv, Locked, FileOf, Inside
  <1>3. Apart'
    BY DEF IInv, Apart, FileOf, Inside
  <1> QED
    BY <1>1, <1>2, <1>3

\* Only workers sleep.
LEMMA WorkersSleep == ASSUME TypeOK PROVE Sleepers \subseteq Worker
  BY Kinds DEF TypeOK, Sleepers, Placed, CallerPlaces, CrawlerPlaces, Ensuring, Scheduling,
     Thread

\* A file is pushed, and one sleeper looks again.
LEMMA PushStep ==
  ASSUME IInv, NEW t \in Thread, t \notin Caller, Push(t)
  PROVE  IInv'
  <1> DEFINE next == [th EXCEPT ![t] = At(Resume(t))]
  <1>1. /\ next \in [Thread -> Placed(WorkerPlaces \union CallerPlaces \union CrawlerPlaces)]
        /\ \A s \in Worker : next[s] \in Placed(WorkerPlaces)
        /\ \A s \in Caller : next[s] \in Placed(CallerPlaces)
        /\ \A s \in Crawler : next[s] \in Placed(CrawlerPlaces)
        /\ next[t].pc \in {"pop", "apply"}
        /\ \A s \in Thread : s = t \/ next[s] = th[s]
    <2>1. /\ t \in Worker => At(Resume(t)) \in Placed(WorkerPlaces)
          /\ t \in Crawler => At(Resume(t)) \in Placed(CrawlerPlaces)
          /\ t \in Worker \/ t \in Crawler
          /\ At(Resume(t)).pc \in {"pop", "apply"}
      BY Kinds DEF At, Resume, Placed, WorkerPlaces, CrawlerPlaces, Thread
    <2>2. \A s \in Thread : next[s] = IF s = t THEN At(Resume(t)) ELSE th[s]
      BY DEF IInv, TypeOK
    <2> HIDE DEF next
    <2>3. \A s \in Worker : next[s] \in Placed(WorkerPlaces)
      BY <2>1, <2>2, Kinds DEF IInv, TypeOK
    <2>4. \A s \in Caller : next[s] \in Placed(CallerPlaces)
      BY <2>1, <2>2, Kinds DEF IInv, TypeOK
    <2>5. \A s \in Crawler : next[s] \in Placed(CrawlerPlaces)
      BY <2>1, <2>2, Kinds DEF IInv, TypeOK
    <2>6. At(Resume(t)) \in Placed(WorkerPlaces \union CallerPlaces \union CrawlerPlaces)
      BY <2>1 DEF Placed
    <2>7. next \in [Thread -> Placed(WorkerPlaces \union CallerPlaces \union CrawlerPlaces)]
      BY <2>6, Zenon DEF IInv, TypeOK, next
    <2> QED
      BY <2>1, <2>2, <2>3, <2>4, <2>5, <2>7, Zenon
  <1>2. th' \in Notified(next)
    BY DEF Push
  <1> HIDE DEF next
  <1>3. \/ th' = next
        \/ \E s \in Sleepers : th' = [next EXCEPT ![s].pc = "pop"]
    BY <1>2 DEF Notified
  <1>4. /\ th' \in [Thread -> Placed(WorkerPlaces \union CallerPlaces \union CrawlerPlaces)]
        /\ \A s \in Worker : th'[s] \in Placed(WorkerPlaces)
        /\ \A s \in Caller : th'[s] \in Placed(CallerPlaces)
        /\ \A s \in Crawler : th'[s] \in Placed(CrawlerPlaces)
        /\ \A s \in Thread : th'[s] = th[s] \/ th'[s].pc \in {"pop", "apply"}
    <2>1. CASE th' = next
      BY <1>1, <2>1
    <2>2. ASSUME NEW w \in Sleepers, th' = [next EXCEPT ![w].pc = "pop"]
          PROVE  <1>4
      <3>1. w \in Worker
        BY WorkersSleep DEF IInv
      <3>2. /\ [next[w] EXCEPT !.pc = "pop"] \in Placed(WorkerPlaces)
            /\ [next[w] EXCEPT !.pc = "pop"].pc = "pop"
        BY <1>1, <3>1 DEF Placed, WorkerPlaces
      <3>3. \A s \in Thread :
               th'[s] = IF s = w THEN [next[w] EXCEPT !.pc = "pop"] ELSE next[s]
        BY <1>1, <2>2
      <3>4. th' \in [Thread -> Placed(WorkerPlaces \union CallerPlaces \union CrawlerPlaces)]
        <4>1. [next[w] EXCEPT !.pc = "pop"]
                 \in Placed(WorkerPlaces \union CallerPlaces \union CrawlerPlaces)
          BY <3>2 DEF Placed
        <4> QED
          BY <1>1, <2>2, <4>1, Zenon
      <3>5. \A s \in Worker : th'[s] \in Placed(WorkerPlaces)
        BY <1>1, <3>2, <3>3, Kinds
      <3>6. /\ \A s \in Caller : th'[s] \in Placed(CallerPlaces)
            /\ \A s \in Crawler : th'[s] \in Placed(CrawlerPlaces)
        BY <1>1, <3>1, <3>3, Kinds
      <3>7. \A s \in Thread : th'[s] = th[s] \/ th'[s].pc \in {"pop", "apply"}
        BY <1>1, <3>2, <3>3, Zenon
      <3> QED
        BY <3>4, <3>5, <3>6, <3>7
    <2> QED
      BY <1>3, <2>1, <2>2, Zenon
  <1>5. due' \in [File -> Nat] /\ later' \in [File -> Nat]
    BY DEF IInv, TypeOK, Busy, FileOf, Scheduling, Push
  <1>6. TypeOK'
    BY <1>4, <1>5, Zenon DEF IInv, TypeOK, Push, world, locks
  <1>7. Busy' /\ Locked' /\ Apart'
    <2>1. held' = held /\ gate' = gate
      BY DEF Push, locks
    <2> QED
      BY <1>4, <2>1, OthersMove
  <1> QED
    BY <1>6, <1>7 DEF IInv

\* An item becomes due.
LEMMA RipenStep == ASSUME IInv, NEW f \in File, Ripen(f) PROVE IInv'
  <1>1. later[f] - 1 \in Nat /\ due[f] + 1 \in Nat
    BY DEF IInv, TypeOK, Ripen
  <1>2. due' \in [File -> Nat] /\ later' \in [File -> Nat]
    BY <1>1 DEF IInv, TypeOK, Ripen
  <1>3. TypeOK'
    BY <1>2, Zenon DEF IInv, TypeOK, Ripen, world, locks
  <1>4. Busy' /\ Locked' /\ Apart'
    BY OthersMove DEF Ripen, locks
  <1> QED
    BY <1>3, <1>4 DEF IInv

\* Another device changes a file.
LEMMA RemoteChangesStep == ASSUME IInv, RemoteChanges PROVE IInv'
  <1>1. left.change - 1 \in Nat
    BY DEF IInv, TypeOK, RemoteChanges
  <1>2. left' \in [change : Nat, fail : Nat, call : Nat]
    BY <1>1, Zenon DEF IInv, TypeOK, RemoteChanges
  <1>3. remote' \in [File -> Nat]
    BY DEF IInv, TypeOK, RemoteChanges
  <1>4. TypeOK'
    BY <1>2, <1>3, Zenon DEF IInv, TypeOK, RemoteChanges, queue, locks
  <1>5. Busy' /\ Locked' /\ Apart'
    BY OthersMove DEF RemoteChanges, locks
  <1> QED
    BY <1>4, <1>5 DEF IInv

\* The daemon is told to stop.
LEMMA StopStep == ASSUME IInv, Stop PROVE IInv'
  <1>1. TypeOK'
    BY Zenon DEF IInv, TypeOK, Stop, queue, locks
  <1>2. Busy' /\ Locked' /\ Apart'
    BY OthersMove DEF Stop, locks
  <1> QED
    BY <1>1, <1>2 DEF IInv

\* The queue is closed, and all who slept look again.
LEMMA CloseStep == ASSUME IInv, Close PROVE IInv'
  <1>1. \A s \in Thread : th'[s] = IF s \in Sleepers THEN At("pop") ELSE th[s]
    BY DEF Close, Awakened, Sleepers
  <1>2. At("pop") \in Placed(WorkerPlaces) /\ At("pop").pc = "pop"
    BY DEF At, Placed, WorkerPlaces
  <1>3. \A s \in Worker : th'[s] \in Placed(WorkerPlaces)
    BY <1>1, <1>2, Kinds DEF IInv, TypeOK
  <1>4. /\ \A s \in Caller : th'[s] \in Placed(CallerPlaces)
        /\ \A s \in Crawler : th'[s] \in Placed(CrawlerPlaces)
    BY <1>1, WorkersSleep, Kinds, Zenon DEF IInv, TypeOK
  <1>5. th' \in [Thread -> Placed(WorkerPlaces \union CallerPlaces \union CrawlerPlaces)]
    <2>1. At("pop") \in Placed(WorkerPlaces \union CallerPlaces \union CrawlerPlaces)
      BY DEF At, Placed, WorkerPlaces
    <2> QED
      BY <2>1, Zenon DEF IInv, TypeOK, Close
  <1>6. TypeOK'
    BY <1>3, <1>4, <1>5, Zenon DEF IInv, TypeOK, Close, world, locks
  <1>7. Busy' /\ Locked' /\ Apart'
    <2>1. held' = held /\ gate' = gate
      BY DEF Close, locks
    <2> QED
      BY <1>1, <1>2, <2>1, OthersMove
  <1> QED
    BY <1>6, <1>7 DEF IInv

\* Nothing happens.
LEMMA StutterStep == ASSUME IInv, UNCHANGED vars PROVE IInv'
  <1>1. TypeOK'
    BY Zenon DEF IInv, TypeOK, vars
  <1>2. Busy' /\ Locked' /\ Apart'
    BY OthersMove DEF vars
  <1> QED
    BY <1>1, <1>2 DEF IInv
-----------------------------------------------------------------------------
\* Every step.
LEMMA NextIInv == ASSUME IInv, [Next]_vars PROVE IInv'
  <1>1. ASSUME NEW w \in Worker, Work(w) PROVE IInv'
    BY <1>1, Kinds, PopTakesStep, PopWaitsStep, PopTimesOutStep, PopEndsStep,
       JobEndsStep, NothingToFetchStep, EnsureLockStep, EnsureGateStep,
       StreamSucceedsStep, StreamFailsStep, EnsureVerifyStep, EnsureCommitStep,
       DeclinedStep, InsertStep, PushStep DEF Work, Ensure
  <1>2. ASSUME NEW c \in Caller, CallStarts(c) \/ Call(c) PROVE IInv'
    BY <1>2, CallStartsStep, CallConfirmsStep, NothingToFetchStep, EnsureLockStep,
       EnsureGateStep, StreamSucceedsStep, StreamFailsStep, EnsureVerifyStep,
       EnsureCommitStep DEF Call, Ensure
  <1>3. ASSUME NEW c \in Crawler, Crawl(c) PROVE IInv'
    BY <1>3, Kinds, CrawlStartsStep, CrawlAppliesStep, CrawlEndsStep,
       DeclinedStep, InsertStep, PushStep DEF Crawl
  <1> QED
    BY <1>1, <1>2, <1>3, RipenStep, RemoteChangesStep, StopStep, CloseStep,
       StutterStep DEF Next

\* The inductive invariant holds in every state of every behaviour.
THEOREM Invariant == Spec => []IInv
  BY InitIInv, NextIInv, PTL DEF Spec

\* Every variable keeps its type, for every number of threads and files.
THEOREM TypeCorrect == Spec => []TypeOK
  <1>1. IInv => TypeOK
    BY DEF IInv
  <1> QED
    BY Invariant, <1>1, PTL

\* "One holder per path at a time" and "only one file streams at a time,
\* whoever asked for it" (engine/mod.rs:158-163), whatever the number of
\* workers, of files and of programs that open files.
THEOREM OneDownloadEach == Spec => []OneEach
  <1>1. IInv => OneEach
    BY DEF IInv, Locked, Apart, OneEach
  <1> QED
    BY Invariant, <1>1, PTL
-----------------------------------------------------------------------------
(* Nobody oversleeps.  A worker falls asleep only over an empty queue, and   *)
(* what fills an empty queue wakes one: NobodyOverslept is inductive.        *)

\* Where a thread that goes is, and where the others are.
LEMMA Whereabouts ==
  ASSUME TypeOK, NEW t \in Thread, NEW where, NEW f,
         Go(t, where) \/ Leave(t, where) \/ Take(t, where, f)
  PROVE  th'[t].pc = where /\ \A s \in Thread \ {t} : th'[s] = th[s]
  <1>1. th[t] \in Placed(WorkerPlaces \union CallerPlaces \union CrawlerPlaces)
    BY Zenon DEF TypeOK
  <1>2. CASE Go(t, where)
    BY <1>1, <1>2 DEF Go, TypeOK, Placed
  <1>3. CASE Leave(t, where)
    BY <1>3 DEF Leave, TypeOK, At
  <1>4. CASE Take(t, where, f)
    <2>1. [At(where) EXCEPT !.file = f].pc = where
      BY DEF At
    <2> QED
      BY <1>4, <2>1 DEF Take, TypeOK
  <1> QED
    BY <1>2, <1>3, <1>4

Awake(w) == th[w].pc # "asleep"

\* A step that leaves the queue no fuller, and puts to sleep only over an empty one.
StaysAwake ==
    /\ closed => closed'
    /\ Empty => Empty'
    /\ \A w \in Worker : Awake(w) => Awake(w)' \/ Empty

LEMMA AwakeIsEnough == ASSUME NobodyOverslept, StaysAwake PROVE NobodyOverslept'
  BY DEF NobodyOverslept, StaysAwake, Awake

\* A thread goes anywhere but to sleep, and the queue stays.
LEMMA OneGoes ==
  ASSUME TypeOK, NEW t \in Thread, NEW where, where # "asleep", NEW f,
         Go(t, where) \/ Leave(t, where) \/ Take(t, where, f),
         UNCHANGED <<due, later, closed>>
  PROVE  StaysAwake
  <1>1. th'[t].pc = where /\ \A s \in Thread \ {t} : th'[s] = th[s]
    BY Whereabouts, Zenon
  <1>2. \A w \in Worker : Awake(w) => Awake(w)'
    BY <1>1, Kinds DEF Awake
  <1> QED
    BY <1>2 DEF StaysAwake, Empty

\* A step of ensure_local_file.
LEMMA EnsureWakes == ASSUME TypeOK, NEW t \in Worker \union Caller, Ensure(t) PROVE StaysAwake
  <1>1. t \in Thread
    BY Kinds
  <1>2. Returned(t) # "asleep"
    BY DEF Returned
  <1>3. CASE NothingToFetch(t) \/ EnsureGate(t) \/ StreamSucceeds(t) \/ EnsureCommit(t)
    BY <1>1, <1>2, <1>3, OneGoes DEF NothingToFetch, EnsureGate, StreamSucceeds, EnsureCommit, queue
  <1>4. CASE EnsureVerify(t)
    BY <1>1, <1>2, <1>4, OneGoes DEF EnsureVerify, queue
  <1>5. CASE StreamFails(t)
    BY <1>1, <1>5, OneGoes DEF StreamFails, queue
  <1>6. CASE EnsureLock(t)
    <2>1. th' = [th EXCEPT ![t].pc = "gate", ![t].seen = row[FileOf(t)].version]
      BY <1>6 DEF EnsureLock
    <2>2. th[t] \in Placed(WorkerPlaces \union CallerPlaces \union CrawlerPlaces)
      BY <1>1, Zenon DEF TypeOK
    <2>3. th'[t].pc = "gate"
      BY <1>1, <2>1, <2>2 DEF TypeOK, Placed
    <2>4. \A s \in Thread \ {t} : th'[s] = th[s]
      BY <2>1 DEF TypeOK
    <2>5. \A w \in Worker : Awake(w) => Awake(w)'
      BY <2>3, <2>4, Kinds DEF Awake
    <2> QED
      BY <1>6, <2>5 DEF EnsureLock, StaysAwake, queue, Empty
  <1> QED
    BY <1>3, <1>4, <1>5, <1>6 DEF Ensure

\* A step of a worker that pushes nothing.
LEMMA WorkWakes == ASSUME TypeOK, NEW t \in Worker, Work(t), ~Push(t) PROVE StaysAwake
  <1>1. t \in Thread /\ Resume(t) # "asleep"
    BY Kinds DEF Resume
  <1>2. CASE PopTakes(t)
    <2>1. PICK f \in File : /\ due[f] > 0 /\ due' = [due EXCEPT ![f] = @ - 1]
                            /\ Take(t, "check", f) /\ UNCHANGED <<later, closed>>
      BY <1>2, Zenon DEF PopTakes
    <2>2. th'[t].pc = "check" /\ \A s \in Thread \ {t} : th'[s] = th[s]
      BY <1>1, <2>1, Whereabouts
    <2>3. \A w \in Worker : Awake(w) => Awake(w)'
      BY <2>2, Kinds DEF Awake
    <2>4. ~Empty
      BY <2>1 DEF Empty, TypeOK
    <2> QED
      BY <2>1, <2>3, <2>4 DEF StaysAwake
  <1>3. CASE PopWaits(t)
    <2>1. PICK where : Go(t, where) /\ (where = "asleep" => Empty) /\ UNCHANGED <<due, later, closed>>
      BY <1>3 DEF PopWaits, queue
    <2>2. th'[t].pc = where /\ \A s \in Thread \ {t} : th'[s] = th[s]
      BY <1>1, <2>1, Whereabouts, Zenon
    <2>3. \A w \in Worker : Awake(w) => Awake(w)' \/ Empty
      BY <2>1, <2>2, Kinds DEF Awake
    <2> QED
      BY <2>1, <2>3 DEF StaysAwake, Empty
  <1>4. CASE PopTimesOut(t) \/ PopEnds(t)
    BY <1>1, <1>4, OneGoes, Zenon DEF PopTimesOut, PopEnds, queue
  <1>5. CASE JobEnds(t)
    BY <1>1, <1>5, OneGoes DEF JobEnds
  <1>6. CASE Declined(t) \/ Insert(t)
    BY <1>1, <1>6, OneGoes DEF Declined, Insert, queue
  <1> QED
    BY <1>2, <1>3, <1>4, <1>5, <1>6, EnsureWakes DEF Work

LEMMA CrawlWakes == ASSUME TypeOK, NEW t \in Crawler, Crawl(t), ~Push(t) PROVE StaysAwake
  <1>1. t \in Thread /\ Resume(t) # "asleep"
    BY Kinds DEF Resume
  <1>2. CASE CrawlApplies(t)
    <2>1. UNCHANGED <<due, later, closed>> /\ (UNCHANGED th \/ \E f : Take(t, "offer", f))
      BY <1>2 DEF CrawlApplies, queue
    <2>2. CASE UNCHANGED th
      BY <2>1, <2>2 DEF StaysAwake, Empty, Awake
    <2> QED
      BY <1>1, <2>1, <2>2, OneGoes
  <1>3. CASE CrawlStarts(t) \/ CrawlEnds(t) \/ Declined(t) \/ Insert(t)
    BY <1>1, <1>3, OneGoes DEF CrawlStarts, CrawlEnds, Declined, Insert, queue
  <1> QED
    BY <1>2, <1>3 DEF Crawl

\* notify_one: after a push somebody looks, if there is anybody that slept.
LEMMA PushWakes ==
  ASSUME TypeOK, NEW t \in Thread, Push(t)
  PROVE  \E w \in Worker : Awake(w)'
  <1> DEFINE next == [th EXCEPT ![t] = At(Resume(t))]
  <1>1. next[t].pc # "asleep" /\ \A s \in Thread \ {t} : next[s] = th[s]
    BY DEF TypeOK, At, Resume
  <1>2. DOMAIN next = Thread /\ th' \in Notified(next)
    BY DEF Push, TypeOK
  <1>3. t \in Worker \/ t \in Caller \/ t \in Crawler
    BY DEF Thread
  <1>4. \A s \in Thread : s = t \/ next[s] \in Placed(WorkerPlaces \union CallerPlaces \union CrawlerPlaces)
    BY <1>1, Zenon DEF TypeOK
  <1>5. next[t] = At(Resume(t))
    BY DEF TypeOK
  <1> HIDE DEF next
  <1>6. CASE Sleepers = {}
    <2>1. th' = next
      BY <1>2, <1>6 DEF Notified
    <2>2. PICK w \in Worker : TRUE
      BY ThreadAssumption
    <2>3. th[w].pc # "asleep" /\ w \in Thread
      BY <1>6, Kinds DEF Sleepers
    <2> QED
      BY <1>1, <2>1, <2>3 DEF Awake
  <1>7. CASE Sleepers # {}
    <2>1. PICK s \in Sleepers : th' = [next EXCEPT ![s].pc = "pop"]
      BY <1>2, <1>7 DEF Notified
    <2>2. s \in Worker /\ s \in Thread
      BY WorkersSleep, Kinds
    <2>3. th'[s] = [next[s] EXCEPT !.pc = "pop"]
      BY <1>2, <2>1, <2>2
    <2>4. "pc" \in DOMAIN next[s]
      <3>1. CASE s = t
        BY <1>5, <3>1 DEF At
      <3>2. CASE s # t
        BY <1>4, <2>2, <3>2 DEF Placed
      <3> QED
        BY <3>1, <3>2
    <2>5. th'[s].pc = "pop"
      BY <2>3, <2>4
    <2> QED
      BY <2>2, <2>5 DEF Awake
  <1> QED
    BY <1>6, <1>7

LEMMA NextWakes == ASSUME TypeOK, NobodyOverslept, [Next]_vars PROVE NobodyOverslept'
  <1>1. ASSUME NEW t \in Thread, Push(t) PROVE NobodyOverslept'
    BY <1>1, PushWakes DEF NobodyOverslept, Awake
  <1>2. ASSUME NEW w \in Worker, Work(w) PROVE NobodyOverslept'
    BY <1>1, <1>2, WorkWakes, AwakeIsEnough, Kinds
  <1>3. ASSUME NEW c \in Caller, CallStarts(c) \/ Call(c) PROVE NobodyOverslept'
    <2>1. CASE CallStarts(c)
      <3>1. PICK f \in File : Take(c, "check", f)
        BY <2>1 DEF CallStarts
      <3> QED
        BY <2>1, <3>1, Kinds, OneGoes, AwakeIsEnough DEF CallStarts, queue
    <2>2. CASE CallConfirms(c)
      BY <2>2, Kinds, OneGoes, AwakeIsEnough, Zenon DEF CallConfirms, queue
    <2>3. CASE Ensure(c)
      BY <2>3, EnsureWakes, AwakeIsEnough
    <2> QED
      BY <1>3, <2>1, <2>2, <2>3 DEF Call
  <1>4. ASSUME NEW c \in Crawler, Crawl(c) PROVE NobodyOverslept'
    BY <1>1, <1>4, CrawlWakes, AwakeIsEnough, Kinds
  <1>5. ASSUME NEW f \in File, Ripen(f) PROVE NobodyOverslept'
    <2>1. ~Empty /\ UNCHANGED <<closed, th>>
      BY <1>5 DEF Ripen, Empty, TypeOK
    <2> QED
      BY <2>1 DEF NobodyOverslept
  <1>6. CASE RemoteChanges \/ Stop \/ UNCHANGED vars
    BY <1>6 DEF RemoteChanges, Stop, vars, queue, NobodyOverslept, Empty
  <1>7. CASE Close
    BY <1>7 DEF Close, NobodyOverslept
  <1> QED
    BY <1>2, <1>3, <1>4, <1>5, <1>6, <1>7 DEF Next

LEMMA InitWakes == Init => NobodyOverslept
  <1> SUFFICES ASSUME Init PROVE NobodyOverslept
    OBVIOUS
  <1>1. PICK w \in Worker : TRUE
    BY ThreadAssumption
  <1>2. th[w].pc = "pop"
    BY Kinds DEF Init, At
  <1> QED
    BY <1>2 DEF NobodyOverslept

\* Whatever is queued, some worker is going to look at it (sync_util.rs:
\* DelayQueue), for every number of workers and files.
THEOREM SomebodyLooks == Spec => []NobodyOverslept
  <1>1. IInv => TypeOK
    BY DEF IInv
  <1> QED
    BY Invariant, InitWakes, NextWakes, <1>1, PTL DEF Spec
-----------------------------------------------------------------------------
(* `icloudctl hydrate' and `download' at the same time.                      *)

\* The command's own fields.
BulkType ==
    /\ bulk \in [pc : {"none", "next", "touch", "waits", "ended"}, file : File \union {NoFile},
                 pending : SUBSET File]
    /\ bulk.pc \in {"touch", "waits"} => bulk.file \in File

\* A request of the command is an open like any other.
LEMMA TouchStep == ASSUME IInv, BulkType, Touch PROVE IInv' /\ StaysAwake
  <1>1. /\ Server \in Thread /\ Server \in Caller /\ bulk.file \in File
        /\ UNCHANGED <<remote, stop, left, row, scheduled, due, later, closed, held, gate, todo>>
    BY ServerAssumption, Kinds DEF Touch, BulkType, world, queue, locks
  <1>2. CASE UNCHANGED <<th, tries>>
    BY <1>1, <1>2, StutterStep DEF vars, StaysAwake, Empty, Awake
  <1>3. CASE Take(Server, "check", bulk.file) /\ tries' = [tries EXCEPT ![Server] = 1]
    <2> DEFINE r == [At("check") EXCEPT !.file = bulk.file]
    <2>1. r.pc = "check" /\ r.file = bulk.file /\ r \in Placed(CallerPlaces)
      BY <1>1 DEF At, Placed, CallerPlaces, Ensuring
    <2>2. th' = [th EXCEPT ![Server] = r]
      BY <1>3 DEF Take
    <2> HIDE DEF r
    <2>3. Moved(Server, r)
      BY <1>1, <2>1, <2>2, OneMoves, Kinds, Zenon DEF Stands, IInv
    <2>4. tries' \in [Caller -> 0..MaxHydrateAttempts]
      <3>1. 1 \in 0..MaxHydrateAttempts /\ tries \in [Caller -> 0..MaxHydrateAttempts]
        BY DEF IInv, TypeOK, MaxHydrateAttempts
      <3>2. tries' = [tries EXCEPT ![Server] = 1]
        BY <1>3
      <3> QED
        BY <3>1, <3>2, Zenon
    <2>5. TypeOK'
      BY <1>1, <2>3, <2>4, Zenon DEF Moved, IInv, TypeOK
    <2>6. Guarded(Server, r)
      BY <1>1, <2>1 DEF Guarded, IInv, Locked
    <2>7. Busy' /\ Locked' /\ Apart'
      BY <1>1, <2>3, <2>6, LocksKept
    <2>8. StaysAwake
      BY <1>1, <1>3, OneGoes, Zenon DEF IInv
    <2> QED
      BY <2>5, <2>7, <2>8 DEF IInv
  <1> QED
    BY <1>2, <1>3 DEF Touch

\* A step of the command or of the daemon, for what the command holds.
LEMMA BulkTypeStep ==
  ASSUME BulkType, [BulkNext]_<<vars, bulk>>
  PROVE  BulkType'
  <1> DEFINE Commands == [pc : {"none", "next", "touch", "waits", "ended"}, file : File \union {NoFile},
                          pending : SUBSET File]
  <1>1. bulk \in Commands
    BY DEF BulkType
  <1>2. CASE UNCHANGED bulk
    BY <1>2 DEF BulkType
  <1>3. ASSUME NEW files \in SUBSET File, Runs(files) PROVE BulkType'
    <2>1. \E pc \in {"ended", "next"} : bulk' = [bulk EXCEPT !.pc = pc, !.pending = Planned(files)]
      BY <1>3, Zenon DEF Runs
    <2>2. Planned(files) \subseteq File
      BY DEF Planned
    <2>3. bulk' \in Commands /\ bulk'.pc \in {"ended", "next"}
      BY <1>1, <2>1, <2>2, Zenon
    <2> QED
      BY <2>3 DEF BulkType
  <1>4. CASE NextFile
    <2>1. CASE bulk' = [bulk EXCEPT !.pc = "ended"]
      <3>1. bulk' \in Commands /\ bulk'.pc = "ended"
        BY <1>1, <2>1
      <3> QED
        BY <3>1 DEF BulkType
    <2>2. ASSUME NEW f \in bulk.pending,
                 bulk' = [bulk EXCEPT !.pc = "touch", !.file = f, !.pending = @ \ {f}]
          PROVE  BulkType'
      <3>1. f \in File
        BY <1>1
      <3>2. bulk' \in Commands /\ bulk'.file = f
        BY <1>1, <2>2, <3>1, Zenon
      <3> QED
        BY <3>1, <3>2 DEF BulkType
    <2> QED
      BY <1>4, <2>1, <2>2, Zenon DEF NextFile
  <1>5. CASE bulk' = Onward
    <2>1. bulk' \in Commands /\ bulk'.pc = "next"
      BY <1>1, <1>5, Zenon DEF Onward
    <2> QED
      BY <2>1 DEF BulkType
  <1>6. CASE Touch
    <2>1. bulk.file \in File
      BY <1>6 DEF Touch, BulkType
    <2>2. CASE bulk' = [bulk EXCEPT !.pc = "waits"]
      <3>1. bulk' \in Commands /\ bulk'.file = bulk.file
        BY <1>1, <2>2
      <3> QED
        BY <2>1, <3>1 DEF BulkType
    <2> QED
      BY <1>5, <1>6, <2>2 DEF Touch
  <1>7. CASE bulk' = Answered
    BY <1>2, <1>5, <1>7 DEF Answered
  <1> QED
    BY <1>2, <1>3, <1>4, <1>6, <1>7 DEF BulkNext, Command, Hydrate, Download

\* The daemon's steps, and the command's, which leave the daemon as it is or open a file.
LEMMA BulkSteps ==
  ASSUME IInv, BulkType, [BulkNext]_<<vars, bulk>>
  PROVE  Touch \/ [Next]_vars
  BY Zenon DEF BulkNext, Command, Hydrate, Download, Runs, NextFile

LEMMA BulkInits == BulkInit => IInv /\ BulkType /\ NobodyOverslept
  <1> SUFFICES ASSUME BulkInit PROVE BulkType
    BY InitIInv, InitWakes DEF BulkInit
  <1>1. bulk = [pc |-> "none", file |-> NoFile, pending |-> {}]
    BY DEF BulkInit
  <1> QED
    BY <1>1 DEF BulkType

LEMMA BulkKeeps ==
  ASSUME IInv, BulkType, NobodyOverslept, [BulkNext]_<<vars, bulk>>
  PROVE  IInv' /\ BulkType' /\ NobodyOverslept'
  <1>1. TypeOK
    BY DEF IInv
  <1>2. BulkType'
    BY BulkTypeStep
  <1>3. CASE Touch
    BY <1>2, <1>3, TouchStep, AwakeIsEnough
  <1>4. CASE [Next]_vars
    BY <1>1, <1>2, <1>4, NextIInv, NextWakes
  <1> QED
    BY <1>3, <1>4, BulkSteps

\* The same with a command that downloads what is picked: one download of a file
\* at a time, one that streams, and some worker looks at the queue.
THEOREM WithTheCommand == BulkSpec => [](OneEach /\ NobodyOverslept)
  <1>1. IInv => OneEach
    BY DEF IInv, Locked, Apart, OneEach
  <1>2. IInv /\ BulkType /\ NobodyOverslept /\ [BulkNext]_<<vars, bulk>>
            => IInv' /\ BulkType' /\ NobodyOverslept'
    BY BulkKeeps
  <1> QED
    BY BulkInits, <1>1, <1>2, PTL DEF BulkSpec
=============================================================================
