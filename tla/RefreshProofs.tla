---------------------------- MODULE RefreshProofs ----------------------------
(***************************************************************************)
(* What the daemon's refreshes hold has its type, with crawl_mode: lazy no *)
(* refresh takes a folder back, and `icloudctl sync` says nothing that is  *)
(* not true, for any number of requests and folders.                       *)
(*                                                                         *)
(* The first inductive invariant is the discipline of the folder's lock: a *)
(* thread is at a folder exactly from taking its lock to having applied    *)
(* the listing, at most one thread is at each folder, and so what it has   *)
(* fetched lies between what is shown and what is on iCloud.  The second   *)
(* follows a request from its signal through the one thread that carries   *)
(* it to the marker, and on for as long as the daemon serves.              *)
(***************************************************************************)
EXTENDS Refresh, TLAPS

\* A thread is at a folder while it fetches and applies its listing.
Placed(t) ==
    /\ t.pc = "fetch" => cfg.mode = "lazy" /\ t.at \in Folder
    /\ cfg.mode = "lazy" /\ t.pc = "apply" => t.at \in Folder
    /\ t.at # "none" => cfg.mode = "lazy" /\ t.pc \in {"fetch", "apply"}

\* What it has fetched is no older than what is shown.
Fresh(t) ==
    cfg.mode = "lazy" /\ t.pc = "apply" =>
        shown[t.at] <= t.got[t.at] /\ t.got[t.at] <= cloud[t.at]

Alone == \A k, l \in Who : thread[k].at # "none" /\ thread[k].at = thread[l].at => k = l
Behind == cfg.mode = "lazy" => \A f \in Folder : shown[f] <= cloud[f]

Discipline ==
    /\ \A k \in Who : Placed(thread[k])
    /\ \A k \in Who : Fresh(thread[k])
    /\ Alone
    /\ Behind

IInv == TypeOK /\ Discipline
-----------------------------------------------------------------------------
LEMMA RestingType == Resting \in ThreadType /\ Resting.pc = "none" /\ Resting.at = "none"
BY DEF Resting, ThreadType

LEMMA InitIInv == Init => IInv
<1> SUFFICES ASSUME Init PROVE IInv
  OBVIOUS
<1>1. thread \in [Who -> ThreadType]
  <2>1. [Resting EXCEPT !.pc = "wait"] \in ThreadType
    BY Zenon DEF Resting, ThreadType
  <2> QED
    BY <2>1, RestingType DEF Init
<1>2. \A k \in Who : thread[k].pc \in {"none", "wait"} /\ thread[k].at = "none"
  BY DEF Init, Resting
<1>3. TypeOK
  BY <1>1, ConfigAssumption, BoundAssumption, Zenon DEF Init, TypeOK, NoMarker
<1>4. Discipline
  BY <1>2 DEF Init, Discipline, Placed, Fresh, Alone, Behind
<1> QED
  BY <1>3, <1>4 DEF IInv

Bounds == [edits : Nat, fails : Nat, turns : Nat]

LEMMA Spent ==
    ASSUME NEW b \in Bounds
    PROVE  /\ b.edits > 0 => [b EXCEPT !.edits = @ - 1] \in Bounds
           /\ b.fails > 0 => [b EXCEPT !.fails = @ - 1] \in Bounds
           /\ b.turns > 0 => [b EXCEPT !.turns = @ - 1] \in Bounds
<1>1. b.edits \in Nat /\ b.fails \in Nat /\ b.turns \in Nat
  BY DEF Bounds
<1>2. /\ b.edits > 0 => b.edits - 1 \in Nat
      /\ b.fails > 0 => b.fails - 1 \in Nat
      /\ b.turns > 0 => b.turns - 1 \in Nat
  BY <1>1
<1> QED
  BY <1>1, <1>2 DEF Bounds

\* A step of one thread, when the folders stay as they are, keeps the discipline
\* if the new state of the thread does and the folder it goes to, if any, is free.
LEMMA ThreadStep ==
    ASSUME IInv, NEW k \in Who, NEW r \in ThreadType, thread' = [thread EXCEPT ![k] = r],
           UNCHANGED <<cfg, cloud, shown>>,
           Placed(r), Fresh(r),
           r.at \in {"none", thread[k].at} \/ \A l \in Who : thread[l].at # r.at
    PROVE  thread' \in [Who -> ThreadType] /\ Discipline'
<1>1. thread \in [Who -> ThreadType] /\ Discipline
  BY Zenon DEF IInv, TypeOK
<1>2. thread' \in [Who -> ThreadType]
  BY <1>1
<1>3. thread'[k] = r /\ \A l \in Who \ {k} : thread'[l] = thread[l]
  BY <1>1
<1>4. (\A l \in Who : Placed(thread[l]))'
  BY <1>1, <1>3 DEF Discipline, Placed
<1>5. (\A l \in Who : Fresh(thread[l]))'
  BY <1>1, <1>3 DEF Discipline, Fresh
<1>6. Alone'
  BY <1>1, <1>3 DEF Discipline, Alone
<1>7. Behind'
  BY <1>1 DEF Discipline, Behind
<1> QED
  BY <1>2, <1>4, <1>5, <1>6, <1>7 DEF Discipline

\* A step that moves no thread and no folder.
LEMMA SameThreads ==
    ASSUME IInv, UNCHANGED <<cfg, cloud, shown, thread>>
    PROVE  thread' \in [Who -> ThreadType] /\ Discipline'
BY Zenon DEF IInv, TypeOK, Discipline, Placed, Fresh, Alone, Behind

\* A thread that is at no folder.
LEMMA AtRest ==
    ASSUME NEW r \in ThreadType, r.pc \in {"none", "wait", "begin", "list", "open", "write"},
           r.at = "none"
    PROVE  Placed(r) /\ Fresh(r)
BY DEF Placed, Fresh

LEMMA EndsRest ==
    ASSUME IInv, NEW k \in Who, NEW t \in ThreadType, NEW b \in BOOLEAN, Ends(k, t, b),
           UNCHANGED <<cfg, cloud, shown>>
    PROVE  thread' \in [Who -> ThreadType] /\ Discipline'
<1> DEFINE r == [t EXCEPT !.error = b, !.todo = {}, !.at = "none", !.pc = After(k)]
<1>1. r \in ThreadType /\ r.pc \in {"wait", "open"} /\ r.at = "none"
  BY Zenon DEF ThreadType, After
<1>2. thread' = [thread EXCEPT ![k] = r]
  BY DEF Ends, Goes
<1> QED
  BY <1>1, <1>2, AtRest, ThreadStep, Zenon
-----------------------------------------------------------------------------
\* The steps of a refresh that show nothing new and write no marker.
Quiet == UNCHANGED <<shown, marker, hist, left>> /\ Outside

LEMMA QuietStep ==
    ASSUME IInv, Quiet, thread' \in [Who -> ThreadType], Discipline'
    PROVE  IInv'
BY Zenon DEF IInv, Quiet, Outside, TypeOK

LEMMA BeginStep == ASSUME IInv, NEW k \in Who, Begin(k) PROVE IInv'
<1>1. Quiet /\ thread[k] \in ThreadType
  BY Zenon DEF Begin, Quiet, IInv, TypeOK
<1>2. CASE cfg.signed
  <2> DEFINE r == [[Resting EXCEPT !.todo = Folder] EXCEPT !.pc = "list"]
  <2>1. r \in ThreadType /\ r.pc = "list" /\ r.at = "none"
    BY Zenon DEF Resting, ThreadType
  <2>2. thread' = [thread EXCEPT ![k] = r]
    BY <1>2 DEF Begin, Goes
  <2> QED
    BY <1>1, <2>1, <2>2, AtRest, ThreadStep, QuietStep, Zenon DEF Quiet, Outside
<1>3. CASE ~cfg.signed
  <2>1. Ends(k, Resting, TRUE)
    BY <1>3, Zenon DEF Begin
  <2> QED
    BY <1>1, <2>1, RestingType, EndsRest, QuietStep, Zenon DEF Quiet, Outside
<1> QED
  BY <1>2, <1>3

LEMMA LockFolderStep == ASSUME IInv, NEW k \in Who, NEW f \in Folder, LockFolder(k, f) PROVE IInv'
<1> DEFINE r == [thread[k] EXCEPT !.at = f, !.todo = @ \ {f}, !.pc = "fetch"]
<1>1. Quiet /\ thread[k] \in ThreadType /\ cfg.mode = "lazy" /\ LockFree(f)
  BY Zenon DEF LockFolder, Quiet, IInv, TypeOK
<1>2. r \in ThreadType /\ r.pc = "fetch" /\ r.at = f
  BY <1>1, Zenon DEF ThreadType
<1>3. thread' = [thread EXCEPT ![k] = r]
  BY DEF LockFolder, Goes
<1>4. Placed(r) /\ Fresh(r)
  BY <1>1, <1>2 DEF Placed, Fresh
<1>5. \A l \in Who : thread[l].at # r.at
  BY <1>1, <1>2 DEF LockFree
<1> QED
  BY <1>1, <1>2, <1>3, <1>4, <1>5, ThreadStep, QuietStep, Zenon DEF Quiet, Outside

LEMMA FetchLockedStep == ASSUME IInv, NEW k \in Who, FetchLocked(k) PROVE IInv'
<1> DEFINE t == thread[k]
           r == [t EXCEPT !.got[t.at] = cloud[t.at], !.pc = "apply"]
<1>1. Quiet /\ t \in ThreadType /\ t.pc = "fetch" /\ Placed(t)
  BY Zenon DEF FetchLocked, Quiet, IInv, TypeOK, Discipline
<1>2. cfg.mode = "lazy" /\ t.at \in Folder /\ cloud \in [Folder -> Nat]
  BY <1>1, Zenon DEF Placed, IInv, TypeOK
<1>3. [t.got EXCEPT ![t.at] = cloud[t.at]] \in [Folder -> Nat]
  BY <1>1, <1>2 DEF ThreadType
<1>4. r \in ThreadType
  BY <1>1, <1>3, Zenon DEF ThreadType
<1>5. r.pc = "apply" /\ r.at = t.at /\ r.got[t.at] = cloud[t.at]
  BY <1>1, <1>2 DEF ThreadType
<1>6. thread' = [thread EXCEPT ![k] = r]
  BY DEF FetchLocked, Goes
<1>7. Placed(r)
  BY <1>2, <1>5 DEF Placed
<1>8. shown[t.at] <= cloud[t.at] /\ cloud[t.at] <= cloud[t.at]
  BY <1>2 DEF IInv, Discipline, Behind
<1>9. Fresh(r)
  BY <1>5, <1>8 DEF Fresh
<1> QED
  BY <1>1, <1>4, <1>5, <1>6, <1>7, <1>9, ThreadStep, QuietStep, Zenon DEF Quiet, Outside

\* The one step that shows something new in lazy mode: nobody else is at the folder.
LEMMA ApplyLockedStep ==
    ASSUME IInv, NEW k \in Who, ApplyLocked(k)
    PROVE  IInv' /\ \A f \in Folder : shown'[f] >= shown[f]
<1> DEFINE t == thread[k]
           r == [t EXCEPT !.at = "none", !.got[t.at] = 0, !.pc = "list"]
<1>1. /\ t \in ThreadType /\ t.pc = "apply" /\ cfg.mode = "lazy"
      /\ thread \in [Who -> ThreadType] /\ shown \in [Folder -> Nat] /\ cloud \in [Folder -> Nat]
      /\ shown' = [shown EXCEPT ![t.at] = t.got[t.at]]
      /\ UNCHANGED <<marker, hist, left, cfg, cloud, tool, pending, stop, main>>
  BY Zenon DEF ApplyLocked, IInv, TypeOK, Outside
<1>2. t.at \in Folder /\ t.at # "none"
  BY <1>1, FolderAssumption DEF IInv, Discipline, Placed
<1>3. /\ t.got[t.at] \in Nat /\ shown[t.at] <= t.got[t.at] /\ t.got[t.at] <= cloud[t.at]
  BY <1>1, <1>2 DEF IInv, Discipline, Fresh, ThreadType
<1>4. /\ shown' \in [Folder -> Nat]
      /\ \A f \in Folder : shown'[f] >= shown[f] /\ (f # t.at => shown'[f] = shown[f])
      /\ shown'[t.at] <= cloud[t.at]
  BY <1>1, <1>2, <1>3
<1>5. [t.got EXCEPT ![t.at] = 0] \in [Folder -> Nat]
  BY <1>1, <1>2 DEF ThreadType
<1>6. r \in ThreadType /\ r.pc = "list" /\ r.at = "none"
  BY <1>1, <1>5, Zenon DEF ThreadType
<1>7. thread' = [thread EXCEPT ![k] = r]
  BY DEF ApplyLocked, Goes
<1>8. /\ thread' \in [Who -> ThreadType] /\ thread'[k] = r
      /\ \A l \in Who \ {k} : thread'[l] = thread[l]
  BY <1>1, <1>6, <1>7
<1>9. TypeOK'
  BY <1>1, <1>4, <1>8, Zenon DEF IInv, TypeOK
<1>10. (\A l \in Who : Placed(thread[l]))'
  BY <1>1, <1>6, <1>8, Zenon DEF IInv, Discipline, Placed
<1>11. (\A l \in Who : Fresh(thread[l]))'
  <2> SUFFICES ASSUME NEW l \in Who, cfg.mode = "lazy", thread'[l].pc = "apply"
               PROVE  /\ shown'[thread'[l].at] <= thread'[l].got[thread'[l].at]
                      /\ thread'[l].got[thread'[l].at] <= cloud[thread'[l].at]
    BY <1>1 DEF Fresh
  <2>1. l # k /\ thread'[l] = thread[l]
    BY <1>6, <1>8, Zenon
  <2>2. thread[l].at \in Folder /\ thread[l].at # t.at
    BY <1>2, <2>1, FolderAssumption DEF IInv, Discipline, Placed, Alone
  <2> QED
    BY <1>4, <2>1, <2>2 DEF IInv, Discipline, Fresh
<1>12. Alone'
  <2> SUFFICES ASSUME NEW l \in Who, NEW m \in Who, thread'[l].at # "none",
                      thread'[l].at = thread'[m].at
               PROVE  l = m
    BY DEF Alone
  <2>1. thread'[l] = thread[l] /\ thread'[m] = thread[m]
    BY <1>6, <1>8, Zenon
  <2> QED
    BY <2>1 DEF IInv, Discipline, Alone
<1>13. Behind'
  BY <1>1, <1>4 DEF IInv, Discipline, Behind
<1> QED
  BY <1>4, <1>9, <1>10, <1>11, <1>12, <1>13 DEF IInv, Discipline

LEMMA LazyEndsStep == ASSUME IInv, NEW k \in Who, LazyEnds(k) PROVE IInv'
<1>1. Quiet /\ thread[k] \in ThreadType /\ Ends(k, thread[k], FALSE)
  BY Zenon DEF LazyEnds, Quiet, IInv, TypeOK
<1> QED
  BY <1>1, EndsRest, QuietStep, Zenon DEF Quiet, Outside
-----------------------------------------------------------------------------
\* The whole drive at once.
LEMMA FetchStep == ASSUME IInv, NEW k \in Who, NEW f \in Folder, Fetch(k, f) PROVE IInv'
<1> DEFINE t == thread[k]
           r == [t EXCEPT !.got[f] = cloud[f], !.todo = @ \ {f}, !.pc = "list"]
<1>1. Quiet /\ t \in ThreadType /\ t.pc = "list" /\ Placed(t) /\ cloud \in [Folder -> Nat]
  BY Zenon DEF Fetch, Quiet, IInv, TypeOK, Discipline
<1>2. [t.got EXCEPT ![f] = cloud[f]] \in [Folder -> Nat]
  BY <1>1 DEF ThreadType
<1>3. r \in ThreadType /\ r.pc = "list" /\ r.at = t.at
  BY <1>1, <1>2, Zenon DEF ThreadType
<1>4. r.at = "none"
  BY <1>1, <1>3 DEF Placed
<1>5. thread' = [thread EXCEPT ![k] = r]
  BY DEF Fetch, Goes
<1> QED
  BY <1>1, <1>3, <1>4, <1>5, AtRest, ThreadStep, QuietStep, Zenon DEF Quiet, Outside

LEMMA FetchedStep == ASSUME IInv, NEW k \in Who, Fetched(k) PROVE IInv'
<1> DEFINE t == thread[k]
           r == [[t EXCEPT !.todo = Folder] EXCEPT !.pc = "apply"]
<1>1. Quiet /\ t \in ThreadType /\ t.pc = "list" /\ Placed(t) /\ cfg.mode = "full"
  BY Zenon DEF Fetched, Quiet, IInv, TypeOK, Discipline
<1>2. CASE stop
  <2>1. Ends(k, t, TRUE)
    BY <1>2, Zenon DEF Fetched
  <2> QED
    BY <1>1, <2>1, EndsRest, QuietStep, Zenon DEF Quiet, Outside
<1>3. CASE ~stop
  <2>1. r \in ThreadType /\ r.pc = "apply" /\ r.at = t.at
    BY <1>1, Zenon DEF ThreadType
  <2>2. thread' = [thread EXCEPT ![k] = r]
    BY <1>3 DEF Fetched, Goes
  <2>3. r.at = "none" /\ Placed(r) /\ Fresh(r)
    BY <1>1, <2>1 DEF Placed, Fresh
  <2> QED
    BY <1>1, <2>1, <2>2, <2>3, ThreadStep, QuietStep, Zenon DEF Quiet, Outside
<1> QED
  BY <1>2, <1>3

\* In full mode no thread is at a folder, and the discipline says nothing more.
LEMMA FullThreads ==
    ASSUME IInv, cfg.mode = "full", NEW k \in Who, NEW r \in ThreadType, r.at = "none",
           r.pc # "fetch", thread' = [thread EXCEPT ![k] = r], UNCHANGED cfg
    PROVE  thread' \in [Who -> ThreadType] /\ Discipline'
<1>1. thread \in [Who -> ThreadType] /\ \A l \in Who : Placed(thread[l])
  BY Zenon DEF IInv, TypeOK, Discipline
<1>2. thread' \in [Who -> ThreadType] /\ \A l \in Who : thread'[l] = IF l = k THEN r ELSE thread[l]
  BY <1>1
<1>3. \A l \in Who : thread'[l].at = "none" /\ thread'[l].pc # "fetch"
  BY <1>1, <1>2 DEF Placed
<1> QED
  BY <1>2, <1>3 DEF Discipline, Placed, Fresh, Alone, Behind

LEMMA ApplyStep == ASSUME IInv, NEW k \in Who, NEW f \in Folder, Apply(k, f) PROVE IInv'
<1> DEFINE t == thread[k]
<1>1. /\ t \in ThreadType /\ t.pc = "apply" /\ cfg.mode = "full" /\ Placed(t)
      /\ UNCHANGED <<marker, hist, left, cfg, cloud, tool, pending, stop, main>>
      /\ shown' = [shown EXCEPT ![f] = IF t.got[f] = 0 THEN @ ELSE t.got[f]]
  BY Zenon DEF Apply, Outside, IInv, TypeOK, Discipline
<1>2. t.at = "none" /\ t.got[f] \in Nat
  BY <1>1 DEF Placed, ThreadType
<1>3. shown' \in [Folder -> Nat]
  BY <1>1, <1>2, Zenon DEF IInv, TypeOK
<1>4. \E r \in ThreadType : r.at = "none" /\ r.pc # "fetch" /\ thread' = [thread EXCEPT ![k] = r]
  <2>1. CASE t.todo = {f}
    <3> DEFINE r == [t EXCEPT !.error = FALSE, !.todo = {}, !.at = "none", !.pc = After(k)]
    <3>1. r \in ThreadType /\ r.at = "none" /\ r.pc \in {"wait", "open"}
      BY <1>1, Zenon DEF ThreadType, After
    <3>2. thread' = [thread EXCEPT ![k] = r]
      BY <2>1 DEF Apply, Ends, Goes
    <3> QED
      BY <3>1, <3>2, Zenon
  <2>2. CASE t.todo # {f}
    <3> DEFINE r == [t EXCEPT !.todo = @ \ {f}, !.pc = "apply"]
    <3>1. r \in ThreadType /\ r.at = "none" /\ r.pc = "apply"
      BY <1>1, <1>2, Zenon DEF ThreadType
    <3>2. thread' = [thread EXCEPT ![k] = r]
      BY <2>2 DEF Apply, Goes
    <3> QED
      BY <3>1, <3>2, Zenon
  <2> QED
    BY <2>1, <2>2
<1>5. thread' \in [Who -> ThreadType] /\ Discipline'
  BY <1>1, <1>4, FullThreads, Zenon
<1>6. TypeOK'
  BY <1>1, <1>3, <1>5, Zenon DEF IInv, TypeOK
<1> QED
  BY <1>5, <1>6 DEF IInv

LEMMA ListFailsStep == ASSUME IInv, NEW k \in Who, ListFails(k) PROVE IInv'
<1> DEFINE t == thread[k]
<1>1. /\ t \in ThreadType /\ Placed(t) /\ TypeOK
      /\ UNCHANGED <<shown, marker, cfg, cloud, tool, pending, stop, main>>
      /\ left.fails > 0 /\ left' = [left EXCEPT !.fails = @ - 1] /\ Spoilt(Tool)
  BY Zenon DEF ListFails, Outside, IInv, TypeOK, Discipline
<1>2. \E r \in ThreadType : /\ r.at = "none" /\ r.pc = "list"
                            /\ thread' = [thread EXCEPT ![k] = r]
  <2>1. CASE t.pc = "fetch" /\ Goes(k, [t EXCEPT !.at = "none"], "list")
    <3> DEFINE r == [t EXCEPT !.at = "none", !.pc = "list"]
    <3>1. r \in ThreadType /\ r.at = "none" /\ r.pc = "list"
      BY <1>1, Zenon DEF ThreadType
    <3>2. thread' = [thread EXCEPT ![k] = r]
      BY <2>1 DEF Goes
    <3> QED
      BY <3>1, <3>2, Zenon
  <2>2. ASSUME NEW f \in t.todo, t.pc = "list", Goes(k, [t EXCEPT !.todo = @ \ {f}], "list")
        PROVE  <1>2!:
    <3> DEFINE r == [t EXCEPT !.todo = @ \ {f}, !.pc = "list"]
    <3>1. r \in ThreadType /\ r.at = "none" /\ r.pc = "list"
      BY <1>1, <2>2, Zenon DEF ThreadType, Placed
    <3>2. thread' = [thread EXCEPT ![k] = r]
      BY <2>2 DEF Goes
    <3> QED
      BY <3>1, <3>2, Zenon
  <2> QED
    BY <2>1, <2>2, Zenon DEF ListFails
<1>3. thread' \in [Who -> ThreadType] /\ Discipline'
  BY <1>1, <1>2, AtRest, ThreadStep, Zenon
<1>4. left' \in Bounds
  <2>1. left \in Bounds
    BY <1>1, Zenon DEF TypeOK, Bounds
  <2> QED
    BY <1>1, <2>1, Spent, Zenon
<1>5. hist' \in [want : [Tool -> [Folder -> Nat]], well : SUBSET Tool]
  BY <1>1, Zenon DEF TypeOK, Spoilt
<1>6. TypeOK'
  BY <1>1, <1>3, <1>4, <1>5, Zenon DEF TypeOK, Bounds
<1> QED
  BY <1>3, <1>6 DEF IInv
-----------------------------------------------------------------------------
\* The marker.
LEMMA OpenStep == ASSUME IInv, NEW k \in Who, Open(k) PROVE IInv'
<1> DEFINE t == thread[k]
           r == [t EXCEPT !.linked = TRUE, !.pc = "write"]
<1>1. /\ t \in ThreadType /\ t.pc = "open" /\ Placed(t) /\ TypeOK
      /\ UNCHANGED <<shown, hist, left, cfg, cloud, tool, pending, stop, main>>
      /\ marker' = [there |-> TRUE, text |-> "", meets |-> Waiting]
  BY Zenon DEF Open, Outside, IInv, TypeOK, Discipline
<1>2. r \in ThreadType /\ r.at = "none" /\ r.pc = "write"
  BY <1>1, Zenon DEF ThreadType, Placed
<1>3. thread' = [thread EXCEPT ![k] = r]
  BY Zenon DEF Open, Goes
<1>4. thread' \in [Who -> ThreadType] /\ Discipline'
  BY <1>1, <1>2, <1>3, AtRest, ThreadStep, Zenon
<1>5. TypeOK'
  BY <1>1, <1>4, Zenon DEF TypeOK, Waiting
<1> QED
  BY <1>4, <1>5 DEF IInv

LEMMA WriteStep == ASSUME IInv, NEW k \in Who, Write(k) PROVE IInv'
<1> DEFINE r == [Resting EXCEPT !.pc = "none"]
<1>1. /\ thread[k] \in ThreadType /\ TypeOK
      /\ UNCHANGED <<shown, hist, left, cfg, cloud, tool, pending, stop, main>>
  BY Zenon DEF Write, Outside, IInv, TypeOK
<1>2. r \in ThreadType /\ r.at = "none" /\ r.pc = "none"
  BY Zenon DEF Resting, ThreadType
<1>3. thread' = [thread EXCEPT ![k] = r]
  BY DEF Write, Goes
<1>4. thread' \in [Who -> ThreadType] /\ Discipline'
  BY <1>1, <1>2, <1>3, AtRest, ThreadStep, Zenon
<1>5. marker' \in [there : BOOLEAN, text : {"", "ok", "error"}, meets : SUBSET Tool]
  BY <1>1, Zenon DEF TypeOK, Write, Waiting
<1>6. TypeOK'
  BY <1>1, <1>4, <1>5, Zenon DEF TypeOK, Bounds
<1> QED
  BY <1>4, <1>6 DEF IInv
-----------------------------------------------------------------------------
\* icloudctl sync, and the daemon around the refreshes.
LEMMA AskStep == ASSUME IInv, NEW q \in Tool, Ask(q) PROVE IInv'
<1>1. /\ TypeOK /\ thread \in [Who -> ThreadType] /\ UNCHANGED <<cfg, cloud, shown, stop, main>>
      /\ left.turns > 0 /\ left' = [left EXCEPT !.turns = @ - 1]
  BY Zenon DEF Ask, IInv, TypeOK
<1>2. left' \in Bounds
  <2>1. left \in Bounds
    BY <1>1, Zenon DEF TypeOK, Bounds
  <2> QED
    BY <1>1, <2>1, Spent, Zenon
<1>3. CASE main = "gone"
  <2>1. thread' \in [Who -> ThreadType] /\ Discipline'
    BY <1>1, <1>3, SameThreads DEF Ask
  <2>2. tool' = [tool EXCEPT ![q] = "refused"] /\ UNCHANGED <<marker, pending, hist>>
    BY <1>3 DEF Ask, ToolAt
  <2>3. TypeOK'
    BY <1>1, <1>2, <2>1, <2>2, Zenon DEF TypeOK, Bounds
  <2> QED
    BY <2>1, <2>3 DEF IInv
<1>4. CASE main # "gone"
  <2>1. thread' = [k \in Who |-> [thread[k] EXCEPT !.linked = FALSE]]
    BY <1>4 DEF Ask
  <2>2. \A k \in Who : /\ thread'[k] \in ThreadType /\ thread'[k].pc = thread[k].pc
                       /\ thread'[k].at = thread[k].at /\ thread'[k].got = thread[k].got
    BY <1>1, <2>1, ZenonT(40) DEF ThreadType
  <2>3. thread' \in [Who -> ThreadType]
    BY <2>1, <2>2
  <2>4. Discipline'
    BY <1>1, <2>2 DEF IInv, Discipline, Placed, Fresh, Alone, Behind
  <2>5. hist' \in [want : [Tool -> [Folder -> Nat]], well : SUBSET Tool]
    <3> DEFINE want == [hist.want EXCEPT ![q] = cloud]
               well == IF Undisturbed THEN {q} ELSE hist.well \ Asking
    <3>1. hist.want \in [Tool -> [Folder -> Nat]] /\ hist.well \subseteq Tool
          /\ cloud \in [Folder -> Nat]
      BY <1>1, Zenon DEF TypeOK
    <3>2. want \in [Tool -> [Folder -> Nat]] /\ well \subseteq Tool
      BY <3>1
    <3>3. hist' = [want |-> want, well |-> well]
      BY <1>4 DEF Ask
    <3> HIDE DEF want, well
    <3> QED
      BY <3>2, <3>3
  <2>6. tool' = [tool EXCEPT ![q] = "waiting"] /\ marker' = NoMarker
        /\ pending' = pending \cup {"usr1"}
    BY <1>4 DEF Ask, ToolAt
  <2>7. TypeOK'
    BY <1>1, <1>2, <2>3, <2>5, <2>6, Zenon DEF TypeOK, NoMarker, Bounds
  <2> QED
    BY <2>4, <2>7 DEF IInv
<1> QED
  BY <1>3, <1>4

LEMMA ToolSteps ==
    ASSUME IInv, NEW q \in Tool, Seen(q) \/ Read(q) \/ Timeout(q)
    PROVE  IInv'
<1>1. /\ UNCHANGED <<marker, pending, thread, hist, cfg, cloud, shown, stop, main, left>>
      /\ tool' \in [Tool -> {"idle", "waiting", "read", "done", "failed", "late", "refused"}]
  BY Zenon DEF Seen, Read, Timeout, Untouched, ToolAt, IInv, TypeOK
<1>2. thread' \in [Who -> ThreadType] /\ Discipline'
  BY <1>1, SameThreads
<1>3. TypeOK'
  BY <1>1, <1>2, Zenon DEF IInv, TypeOK
<1> QED
  BY <1>2, <1>3 DEF IInv

LEMMA OnUsr1Step == ASSUME IInv, OnUsr1 PROVE IInv'
<1>1. /\ TypeOK /\ pending' = pending \ {"usr1"}
      /\ UNCHANGED <<cfg, cloud, shown, tool, marker, stop, main, hist, left>>
  BY DEF OnUsr1, IInv
<1>2. PICK k \in Slot \ Syncing : thread' = Started(k)
  BY DEF OnUsr1
<1> DEFINE r == [Resting EXCEPT !.pc = "begin"]
<1>3. r \in ThreadType /\ r.at = "none" /\ r.pc = "begin"
  BY Zenon DEF Resting, ThreadType
<1>4. k \in Who /\ thread' = [thread EXCEPT ![k] = r]
  BY <1>2 DEF Who, Started
<1>5. thread' \in [Who -> ThreadType] /\ Discipline'
  BY <1>1, <1>3, <1>4, AtRest, ThreadStep, Zenon
<1>6. TypeOK'
  BY <1>1, <1>5, Zenon DEF TypeOK
<1> QED
  BY <1>5, <1>6 DEF IInv

LEMMA LoopWakesStep == ASSUME IInv, LoopWakes PROVE IInv'
<1> DEFINE r == [Resting EXCEPT !.pc = IF stop THEN "none" ELSE "begin"]
<1>1. /\ TypeOK /\ UNCHANGED <<shown, marker, hist, cfg, cloud, tool, pending, stop, main>>
      /\ left.turns > 0 /\ left' = [left EXCEPT !.turns = @ - 1]
  BY DEF LoopWakes, Outside, IInv
<1>2. r \in ThreadType /\ r.at = "none" /\ r.pc \in {"none", "begin"}
  BY Zenon DEF Resting, ThreadType
<1>3. Loop \in Who /\ thread' = [thread EXCEPT ![Loop] = r]
  BY DEF LoopWakes, Goes, Who, Loop
<1>4. thread' \in [Who -> ThreadType] /\ Discipline'
  BY <1>1, <1>2, <1>3, AtRest, ThreadStep, Zenon
<1>5. left' \in Bounds
  <2>1. left \in Bounds
    BY <1>1, Zenon DEF TypeOK, Bounds
  <2> QED
    BY <1>1, <2>1, Spent, Zenon
<1>6. TypeOK'
  BY <1>1, <1>4, <1>5, Zenon DEF TypeOK, Bounds
<1> QED
  BY <1>4, <1>6 DEF IInv

LEMMA ExitStep == ASSUME IInv, Exit PROVE IInv'
<1>1. /\ TypeOK /\ UNCHANGED <<cfg, cloud, shown, tool, marker, stop, hist, left>>
      /\ main' = "gone" /\ pending' = {} /\ thread' = [k \in Who |-> Resting]
  BY DEF Exit, IInv
<1>2. thread' \in [Who -> ThreadType] /\ \A k \in Who : thread'[k] = Resting
  BY <1>1, RestingType
<1>3. Discipline'
  BY <1>1, <1>2, RestingType DEF IInv, Discipline, Placed, Fresh, Alone, Behind
<1>4. TypeOK'
  BY <1>1, <1>2, Zenon DEF TypeOK
<1> QED
  BY <1>3, <1>4 DEF IInv

LEMMA TermSteps == ASSUME IInv, OnTerm \/ Term PROVE IInv'
<1>1. /\ TypeOK /\ UNCHANGED <<cfg, cloud, shown, tool, marker, thread, left>>
      /\ pending' \subseteq {"usr1", "term"} /\ stop' \in BOOLEAN
      /\ main' \in {"serving", "stopping", "gone"}
      /\ hist' \in [want : [Tool -> [Folder -> Nat]], well : SUBSET Tool]
  <2>1. CASE OnTerm
    <3>1. hist' \in [want : [Tool -> [Folder -> Nat]], well : SUBSET Tool]
      BY <2>1, Zenon DEF OnTerm, Spoilt, IInv, TypeOK
    <3> QED
      BY <2>1, <3>1, Zenon DEF OnTerm, IInv, TypeOK
  <2>2. CASE Term
    BY <2>2, Zenon DEF Term, IInv, TypeOK
  <2> QED
    BY <2>1, <2>2
<1>2. thread' \in [Who -> ThreadType] /\ Discipline'
  BY <1>1, SameThreads
<1>3. TypeOK'
  BY <1>1, <1>2, Zenon DEF TypeOK
<1> QED
  BY <1>2, <1>3 DEF IInv

\* A change on iCloud only makes what a refresh has fetched older.
LEMMA EditStep == ASSUME IInv, Edit PROVE IInv'
<1>1. /\ TypeOK /\ UNCHANGED <<cfg, shown, tool, marker, pending, thread, stop, main, hist>>
      /\ left.edits > 0 /\ left' = [left EXCEPT !.edits = @ - 1]
  BY DEF Edit, IInv
<1>2. PICK f \in Folder : cloud' = [cloud EXCEPT ![f] = @ + 1]
  BY Zenon DEF Edit
<1>3. cloud' \in [Folder -> Nat] /\ \A g \in Folder : cloud[g] <= cloud'[g] /\ cloud[g] \in Nat
  <2>1. cloud \in [Folder -> Nat]
    BY <1>1, Zenon DEF TypeOK
  <2> QED
    BY <1>2, <2>1
<1>4. left' \in Bounds
  <2>1. left \in Bounds
    BY <1>1, Zenon DEF TypeOK, Bounds
  <2> QED
    BY <1>1, <2>1, Spent, Zenon
<1>5. TypeOK'
  BY <1>1, <1>3, <1>4, Zenon DEF TypeOK, Bounds
<1>6. \A k \in Who : cfg.mode = "lazy" /\ thread[k].pc = "apply" =>
        /\ thread[k].at \in Folder /\ thread[k].got[thread[k].at] \in Nat
        /\ shown[thread[k].at] <= thread[k].got[thread[k].at]
        /\ thread[k].got[thread[k].at] <= cloud[thread[k].at]
  <2> SUFFICES ASSUME NEW k \in Who, cfg.mode = "lazy", thread[k].pc = "apply"
               PROVE  /\ thread[k].at \in Folder /\ thread[k].got[thread[k].at] \in Nat
                      /\ shown[thread[k].at] <= thread[k].got[thread[k].at]
                      /\ thread[k].got[thread[k].at] <= cloud[thread[k].at]
    OBVIOUS
  <2>1. thread[k] \in ThreadType
    BY <1>1, Zenon DEF TypeOK
  <2>2. thread[k].at \in Folder
    BY DEF IInv, Discipline, Placed
  <2>3. thread[k].got[thread[k].at] \in Nat
    BY <2>1, <2>2 DEF ThreadType
  <2> QED
    BY <2>2, <2>3 DEF IInv, Discipline, Fresh
<1>7. (\A k \in Who : Fresh(thread[k]))'
  BY <1>1, <1>3, <1>6 DEF Fresh
<1>8. Behind'
  <2>1. \A g \in Folder : shown[g] \in Nat /\ cloud'[g] \in Nat
    BY <1>1, <1>3, Zenon DEF TypeOK
  <2> QED
    BY <1>1, <1>3, <2>1 DEF IInv, Discipline, Behind
<1>9. (\A k \in Who : Placed(thread[k]))' /\ Alone'
  BY <1>1 DEF IInv, Discipline, Placed, Alone
<1> QED
  BY <1>5, <1>7, <1>8, <1>9 DEF IInv, Discipline

LEMMA StutterStep == ASSUME IInv, UNCHANGED vars PROVE IInv'
BY Zenon DEF vars, IInv, TypeOK, Discipline, Placed, Fresh, Alone, Behind

LEMMA NextIInv == IInv /\ [Next]_vars => IInv'
<1> SUFFICES ASSUME IInv, [Next]_vars PROVE IInv'
  OBVIOUS
<1>1. ASSUME NEW q \in Tool, Ask(q) \/ ToolStep(q) \/ Timeout(q) PROVE IInv'
  BY <1>1, AskStep, ToolSteps DEF ToolStep
<1>2. ASSUME NEW k \in Who, Refreshes(k) PROVE IInv'
  BY <1>2, BeginStep, LockFolderStep, FetchStep, ApplyStep, FetchLockedStep, ApplyLockedStep,
     LazyEndsStep, FetchedStep, OpenStep, WriteStep DEF Refreshes
<1>3. ASSUME NEW k \in Who, ListFails(k) PROVE IInv'
  BY <1>3, ListFailsStep
<1>4. CASE Daemon
  BY <1>4, OnUsr1Step, TermSteps, ExitStep DEF Daemon
<1>5. CASE LoopWakes \/ Edit \/ Term
  BY <1>5, LoopWakesStep, EditStep, TermSteps
<1>6. CASE UNCHANGED vars
  BY <1>6, StutterStep
<1> QED
  BY <1>1, <1>2, <1>3, <1>4, <1>5, <1>6 DEF Next

\* The lock discipline holds in every behaviour.
THEOREM Disciplined == Spec => []IInv
<1>1. Init => IInv
  BY InitIInv
<1>2. IInv /\ [Next]_vars => IInv'
  BY NextIInv
<1> QED
  BY <1>1, <1>2, PTL DEF Spec

\* Every variable of Refresh keeps its type, whatever the number of requests,
\* folders, changes and failures.
THEOREM TypeCorrect == Spec => []TypeOK
<1>1. IInv => TypeOK
  BY DEF IInv
<1> QED
  BY <1>1, Disciplined, PTL

\* With crawl_mode: lazy no step takes a folder back to an older listing
\* (engine/remote.rs: list_directory under the folder's lock).
THEOREM NeverBackAlways == Spec => NeverBack
<1> DEFINE Onward == cfg.mode = "lazy" => \A f \in Folder : shown'[f] >= shown[f]
<1>1. IInv /\ [Next]_vars => [Onward]_vars
  <2> SUFFICES ASSUME IInv, Next, cfg.mode = "lazy"
               PROVE  \A f \in Folder : shown'[f] >= shown[f]
    OBVIOUS
  <2>1. \A f \in Folder : shown[f] \in Nat
    BY Zenon DEF IInv, TypeOK
  <2>2. ASSUME NEW k \in Who, ApplyLocked(k) PROVE \A f \in Folder : shown'[f] >= shown[f]
    BY <2>2, ApplyLockedStep
  <2>3. CASE UNCHANGED shown
    BY <2>1, <2>3
  <2>4. ASSUME NEW q \in Tool, Ask(q) \/ ToolStep(q) \/ Timeout(q) PROVE UNCHANGED shown
    BY <2>4 DEF Ask, ToolStep, Seen, Read, Timeout, Untouched
  <2>5. ASSUME NEW k \in Who, Refreshes(k) PROVE ApplyLocked(k) \/ UNCHANGED shown
    BY <2>5, Zenon DEF Refreshes, Begin, LockFolder, Fetch, Apply, FetchLocked, LazyEnds, Fetched, Open,
       Write
  <2>6. ASSUME NEW k \in Who, ListFails(k) PROVE UNCHANGED shown
    BY <2>6 DEF ListFails
  <2>7. CASE Daemon \/ LoopWakes \/ Edit \/ Term
    BY <2>3, <2>7 DEF Daemon, OnUsr1, OnTerm, Exit, LoopWakes, Edit, Term
  <2> QED
    BY <2>2, <2>3, <2>4, <2>5, <2>6, <2>7 DEF Next
<1> QED
  BY <1>1, Disciplined, PTL DEF Spec, NeverBack
-----------------------------------------------------------------------------
(* What `icloudctl sync` says is true.  A request that is alone is answered  *)
(* by one thread, which has every folder still to list, in hand, or already  *)
(* shown as it was when the request was made; and after the answer nothing   *)
(* takes a folder back, because whatever is fetched is newer still.          *)

AllShown(q) == \A f \in Folder : shown[f] >= hist.want[q][f]
Young(q, t) == \A f \in Folder : t.got[f] = 0 \/ t.got[f] >= hist.want[q][f]

Carries(q, t) ==
    /\ t.pc \in {"open", "write"} => AllShown(q)
    /\ cfg.mode = "lazy" =>
           /\ t.pc \in {"list", "fetch", "apply"} =>
                  \A f \in Folder : f \in t.todo \/ f = t.at \/ shown[f] >= hist.want[q][f]
           /\ t.pc = "apply" => t.got[t.at] >= hist.want[q][t.at]
    /\ cfg.mode = "full" =>
           /\ t.pc = "list" => \A f \in Folder : f \in t.todo \/ t.got[f] # 0
           /\ t.pc = "apply" => \A f \in Folder : t.got[f] # 0 /\ (f \in t.todo \/ shown[f] >= hist.want[q][f])

\* The request is under way: its signal is pending, or one thread carries it.
Answering(q) ==
    /\ \A p \in Asking : p = q
    /\ "usr1" \in pending => Syncing = {} /\ ~marker.there
    /\ \A k, l \in Syncing : k = l
    /\ \A k \in Syncing : Carries(q, thread[k])
    /\ marker.there => AllShown(q)

Kept(q) ==
    /\ cfg.signed /\ ~stop /\ tool[q] # "idle"
    /\ \A f \in Folder : hist.want[q][f] \in 1..cloud[f]
    /\ \A k \in Syncing : Young(q, thread[k])
    /\ tool[q] \in {"read", "done"} => AllShown(q)
    /\ q \in Asking => Answering(q)

Reliable == cfg.mode = "lazy" \/ ~cfg.auto

RInv ==
    /\ \A f \in Folder : cloud[f] > 0
    /\ main # "serving" => stop
    /\ thread[Loop].pc \notin {"open", "write"} /\ (~cfg.auto => thread[Loop].pc = "none")
    /\ Reliable => \A q \in hist.well : Kept(q)

LEMMA LoopApart == Loop \notin Slot /\ Loop \in Who /\ Slot \subseteq Who
BY DEF Loop, Slot, Who

\* A step of a refresh: it takes no folder back, leaves the marker or has done
\* its work, and what it carries it carries on.
LEMMA RefreshMoves ==
    ASSUME IInv, RInv, NEW k \in Who, NEW r \in ThreadType, thread' = [thread EXCEPT ![k] = r],
           UNCHANGED <<cfg, cloud, tool, pending, stop, main, hist>>,
           thread[k].pc # "none",
           k = Loop => r.pc \notin {"open", "write"},
           marker' = marker \/ thread[k].pc \in {"open", "write"},
           \A q \in hist.well : Reliable /\ Kept(q) =>
               /\ \A f \in Folder : shown[f] >= hist.want[q][f] => shown'[f] >= hist.want[q][f]
               /\ k \in Slot => Young(q, r)
               /\ k \in Slot /\ r.pc # "none" /\ Carries(q, thread[k]) => Carries(q, r)'
    PROVE  RInv'
<1>1. /\ thread'[k] = r /\ \A l \in Who \ {k} : thread'[l] = thread[l]
  BY Zenon DEF IInv, TypeOK
<1>2. Syncing' \subseteq Syncing /\ (k \in Slot => k \in Syncing)
  BY <1>1, LoopApart DEF Syncing
<1>3. ASSUME Reliable, NEW q \in hist.well  PROVE Kept(q)'
  <2>1. Kept(q)
    BY <1>3 DEF RInv
  <2>2. AllShown(q) => AllShown(q)'
    BY <1>3, <2>1 DEF AllShown
  <2>3. \A l \in Syncing' : Young(q, thread[l])'
    <3>1. ASSUME NEW l \in Syncing'  PROVE Young(q, thread'[l])
      <4>1. CASE l = k
        BY <1>1, <1>3, <2>1, <3>1, <4>1 DEF Syncing
      <4>2. CASE l # k
        BY <1>1, <1>2, <2>1, <3>1, <4>2, LoopApart DEF Kept, Syncing
      <4> QED
        BY <4>1, <4>2
    <3> QED
      BY <3>1 DEF Young
  <2>4. q \in Asking => Answering(q)'
    <3> SUFFICES ASSUME q \in Asking  PROVE Answering(q)'
      OBVIOUS
    <3>1. Answering(q)
      BY <2>1 DEF Kept
    <3>2. (\A l \in Syncing : Carries(q, thread[l]))'
      <4> SUFFICES ASSUME NEW l \in Syncing'  PROVE Carries(q, thread[l])'
        OBVIOUS
      <4>1. l \in Slot /\ l \in Syncing /\ thread'[l].pc # "none" /\ Carries(q, thread[l])
        BY <1>2, <3>1 DEF Syncing, Answering
      <4>2. CASE l = k
        <5>1. Carries(q, r)'
          BY <1>1, <1>3, <2>1, <4>1, <4>2
        <5> QED
          BY <1>1, <4>2, <5>1 DEF Carries
      <4>3. CASE l # k
        <5>1. thread'[l] = thread[l]
          BY <1>1, <4>1, <4>3, LoopApart
        <5>2. \A f \in Folder : shown[f] >= hist.want[q][f] => shown'[f] >= hist.want[q][f]
          BY <1>3, <2>1
        <5> QED
          BY <2>2, <4>1, <5>1, <5>2 DEF Carries
      <4> QED
        BY <4>2, <4>3
    <3>3. marker' = marker \/ (k \in Slot /\ AllShown(q))
      <4>1. CASE thread[k].pc \in {"open", "write"}
        <5>1. k \in Slot
          BY <4>1, LoopApart DEF RInv, Who, Loop
        <5> QED
          BY <1>2, <3>1, <4>1, <5>1 DEF Answering, Carries
      <4> QED
        BY <4>1
    <3>4. (\A p \in Asking : p = q)' /\ (\A l, m \in Syncing : l = m)'
      BY <1>2, <3>1 DEF Answering, Asking
    <3>5. ("usr1" \in pending => Syncing = {} /\ ~marker.there)'
      BY <1>2, <3>1, <3>3 DEF Answering
    <3>6. (marker.there => AllShown(q))'
      BY <2>2, <3>1, <3>3 DEF Answering
    <3> QED
      BY <3>2, <3>4, <3>5, <3>6 DEF Answering
  <2> QED
    BY <2>1, <2>2, <2>3, <2>4 DEF Kept, Asking
<1>4. (\A f \in Folder : cloud[f] > 0)' /\ (main # "serving" => stop)'
  BY DEF RInv
<1>5. (thread[Loop].pc \notin {"open", "write"} /\ (~cfg.auto => thread[Loop].pc = "none"))'
  BY <1>1, LoopApart DEF RInv
<1> QED
  BY <1>3, <1>4, <1>5 DEF RInv, Reliable

\* A request that is kept has a thread that the discipline places.
LEMMA ThreadFields ==
    ASSUME IInv, NEW k \in Who
    PROVE  /\ thread[k] \in ThreadType /\ thread \in [Who -> ThreadType]
           /\ Placed(thread[k]) /\ cfg.mode \in {"lazy", "full"}
           /\ cloud \in [Folder -> Nat] /\ shown \in [Folder -> Nat]
           /\ \A q \in Tool : hist.want[q] \in [Folder -> Nat]
           /\ hist.well \subseteq Tool
BY Zenon DEF IInv, TypeOK, Discipline, ConfigType

\* A step that shows nothing.
LEMMA SilentMoves ==
    ASSUME IInv, RInv, NEW k \in Who, NEW r \in ThreadType, thread' = [thread EXCEPT ![k] = r], Quiet,
           thread[k].pc # "none",
           k = Loop => r.pc \notin {"open", "write"},
           \A q \in hist.well : Kept(q) =>
               /\ k \in Slot => Young(q, r)
               /\ k \in Slot /\ r.pc # "none" /\ Carries(q, thread[k]) => Carries(q, r)
    PROVE  RInv'
<1>1. UNCHANGED <<cfg, cloud, shown, tool, pending, stop, main, hist, marker>>
  BY DEF Quiet, Outside
<1>2. \A q \in hist.well : Carries(q, r) => Carries(q, r)'
  BY <1>1 DEF Carries, AllShown
<1> QED
  BY <1>1, <1>2, RefreshMoves, Zenon

LEMMA BeginMoves == ASSUME IInv, RInv, NEW k \in Who, Begin(k)  PROVE RInv'
<1>1. Quiet /\ thread[k].pc = "begin"
  BY DEF Begin, Quiet
<1>2. CASE cfg.signed
  <2> DEFINE r == [[Resting EXCEPT !.todo = Folder] EXCEPT !.pc = "list"]
  <2>1. r \in ThreadType /\ r.pc = "list" /\ r.todo = Folder /\ \A f \in Folder : r.got[f] = 0
    BY Zenon DEF Resting, ThreadType
  <2>2. thread' = [thread EXCEPT ![k] = r]
    BY <1>2 DEF Begin, Goes
  <2> HIDE DEF r
  <2>3. \A q \in hist.well : Young(q, r) /\ Carries(q, r)
    BY <2>1 DEF Young, Carries
  <2> QED
    BY <1>1, <2>1, <2>2, <2>3, SilentMoves, Zenon
<1>3. CASE ~cfg.signed
  <2> DEFINE r == [[Resting EXCEPT !.error = TRUE, !.todo = {}, !.at = "none"] EXCEPT !.pc = After(k)]
  <2>1. r \in ThreadType /\ r.pc = After(k)
    BY Zenon DEF Resting, ThreadType, After
  <2>2. thread' = [thread EXCEPT ![k] = r]
    BY <1>3 DEF Begin, Ends, Goes
  <2> HIDE DEF r
  <2>3. k = Loop => r.pc \notin {"open", "write"}
    BY <2>1 DEF After
  <2>4. \A q \in hist.well : ~Kept(q)
    BY <1>3 DEF Kept
  <2> QED
    BY <1>1, <2>1, <2>2, <2>3, <2>4, SilentMoves, Zenon
<1> QED
  BY <1>2, <1>3

\* Lazy: the folder in hand.
LEMMA LockFolderMoves == ASSUME IInv, RInv, NEW k \in Who, NEW f \in Folder, LockFolder(k, f)  PROVE RInv'
<1> DEFINE t == thread[k]
           r == [t EXCEPT !.at = f, !.todo = @ \ {f}, !.pc = "fetch"]
<1>1. Quiet /\ t.pc = "list" /\ cfg.mode = "lazy" /\ t \in ThreadType /\ t.at = "none"
  BY ThreadFields DEF LockFolder, Quiet, Placed
<1>2. r \in ThreadType /\ r.pc = "fetch" /\ r.at = f /\ r.got = t.got /\ r.todo = t.todo \ {f}
  BY <1>1, Zenon DEF ThreadType
<1>3. thread' = [thread EXCEPT ![k] = r]
  BY DEF LockFolder, Goes
<1> HIDE DEF r
<1>4. \A q \in hist.well : (Young(q, t) => Young(q, r)) /\ (Carries(q, t) => Carries(q, r))
  <2> SUFFICES ASSUME NEW q \in hist.well
               PROVE  (Young(q, t) => Young(q, r)) /\ (Carries(q, t) => Carries(q, r))
    OBVIOUS
  <2>1. "none" \notin Folder
    BY FolderAssumption
  <2> QED
    BY <1>1, <1>2, <2>1 DEF Young, Carries
<1>5. k \in Slot => \A q \in hist.well : Kept(q) => Young(q, t)
  BY <1>1 DEF Kept, Syncing
<1> QED
  BY <1>1, <1>2, <1>3, <1>4, <1>5, SilentMoves, Zenon

LEMMA FetchLockedMoves == ASSUME IInv, RInv, NEW k \in Who, FetchLocked(k)  PROVE RInv'
<1> DEFINE t == thread[k]
           r == [t EXCEPT !.got[t.at] = cloud[t.at], !.pc = "apply"]
<1>1. Quiet /\ t.pc = "fetch" /\ cfg.mode = "lazy" /\ t \in ThreadType /\ t.at \in Folder
  BY ThreadFields DEF FetchLocked, Quiet, Placed
<1>2. cloud \in [Folder -> Nat] /\ hist.well \subseteq Tool
  BY ThreadFields
<1>3. [t.got EXCEPT ![t.at] = cloud[t.at]] \in [Folder -> Nat]
  BY <1>1, <1>2 DEF ThreadType
<1>4. r \in ThreadType
  BY <1>1, <1>3, Zenon DEF ThreadType
<1>5. r.pc = "apply" /\ r.at = t.at /\ r.todo = t.todo /\ r.got = [t.got EXCEPT ![t.at] = cloud[t.at]]
  BY <1>1 DEF ThreadType
<1>6. thread' = [thread EXCEPT ![k] = r]
  BY DEF FetchLocked, Goes
<1> HIDE DEF r
<1>7. \A f \in Folder : r.got[f] = IF f = t.at THEN cloud[f] ELSE t.got[f]
  BY <1>1, <1>5 DEF ThreadType
<1>8. ASSUME NEW q \in hist.well, Kept(q)
      PROVE  (Young(q, t) => Young(q, r)) /\ (Carries(q, t) => Carries(q, r))
  <2>1. \A f \in Folder : hist.want[q][f] \in Nat /\ cloud[f] \in Nat /\ hist.want[q][f] <= cloud[f]
    BY <1>2, <1>8, ThreadFields DEF Kept
  <2>2. Young(q, t) => Young(q, r)
    BY <1>7, <2>1 DEF Young
  <2>3. Carries(q, t) => Carries(q, r)
    BY <1>1, <1>5, <1>7, <2>1 DEF Carries
  <2> QED
    BY <2>2, <2>3
<1>9. k \in Slot => \A q \in hist.well : Kept(q) => Young(q, t)
  BY <1>1 DEF Kept, Syncing
<1> QED
  BY <1>1, <1>4, <1>5, <1>6, <1>8, <1>9, SilentMoves, Zenon

LEMMA ApplyLockedMoves == ASSUME IInv, RInv, NEW k \in Who, ApplyLocked(k)  PROVE RInv'
<1> DEFINE t == thread[k]
           new == [t EXCEPT !.at = "none", !.got[t.at] = 0, !.pc = "list"]
<1>1. /\ t.pc = "apply" /\ cfg.mode = "lazy" /\ t \in ThreadType /\ t.at \in Folder
      /\ shown' = [shown EXCEPT ![t.at] = t.got[t.at]]
      /\ UNCHANGED <<marker, hist, left, cfg, cloud, tool, pending, stop, main>>
  BY ThreadFields DEF ApplyLocked, Outside, Placed
<1>2. hist.well \subseteq Tool /\ shown \in [Folder -> Nat] /\ shown'[t.at] = t.got[t.at]
  BY <1>1, ThreadFields
<1>3. \A f \in Folder : shown'[f] >= shown[f] /\ shown[f] \in Nat /\ shown'[f] \in Nat
  <2>1. t.got[t.at] \in Nat
    BY <1>1 DEF ThreadType
  <2> QED
    BY <1>1, <1>2, <2>1, ApplyLockedStep
<1>4. [t.got EXCEPT ![t.at] = 0] \in [Folder -> Nat]
  BY <1>1 DEF ThreadType
<1>5. /\ new \in ThreadType /\ new.pc = "list" /\ new.at = "none" /\ new.todo = t.todo
      /\ new.got = [t.got EXCEPT ![t.at] = 0]
  <2>1. new \in ThreadType
    BY <1>1, <1>4, Zenon DEF ThreadType
  <2> QED
    BY <1>1, <2>1 DEF ThreadType
<1>6. thread' = [thread EXCEPT ![k] = new]
  BY DEF ApplyLocked, Goes
<1> HIDE DEF new
<1>7. PICK r \in ThreadType : /\ r.pc = "list" /\ r.at = "none" /\ r.todo = t.todo
                             /\ r.got = [t.got EXCEPT ![t.at] = 0] /\ thread' = [thread EXCEPT ![k] = r]
  BY <1>5, <1>6, Zenon
<1>8. \A f \in Folder : r.got[f] = IF f = t.at THEN 0 ELSE t.got[f]
  BY <1>1, <1>7 DEF ThreadType
<1>9. ASSUME NEW q \in hist.well, Kept(q)
      PROVE  /\ \A f \in Folder : shown[f] >= hist.want[q][f] => shown'[f] >= hist.want[q][f]
             /\ Young(q, t) => Young(q, r)
             /\ Carries(q, t) => Carries(q, r)'
  <2>1. \A f \in Folder : hist.want[q][f] \in Nat
    BY <1>2, <1>9, ThreadFields
  <2>2. \A f \in Folder : shown[f] >= hist.want[q][f] => shown'[f] >= hist.want[q][f]
    BY <1>3, <2>1
  <2>3. Young(q, t) => Young(q, r)
    BY <1>8 DEF Young
  <2>4. Carries(q, t) => Carries(q, r)'
    <3> SUFFICES ASSUME Carries(q, t)  PROVE Carries(q, r)'
      OBVIOUS
    <3>1. ASSUME NEW f \in Folder  PROVE f \in r.todo \/ shown'[f] >= hist.want[q][f]
      <4>1. CASE f = t.at
        BY <1>1, <1>2, <4>1 DEF Carries
      <4>2. CASE f # t.at
        BY <1>1, <1>7, <2>2, <4>2 DEF Carries
      <4> QED
        BY <4>1, <4>2
    <3> QED
      BY <1>1, <1>7, <3>1 DEF Carries
  <2> QED
    BY <2>2, <2>3, <2>4
<1>10. k \in Slot => \A q \in hist.well : Kept(q) => Young(q, t)
  BY <1>1 DEF Kept, Syncing
<1> QED
  BY <1>1, <1>7, <1>9, <1>10, RefreshMoves, Zenon

\* A refresh that is over.  r.pc is the loop's wait or the request's marker.
LEMMA EndRecord ==
    ASSUME NEW k \in Who, NEW t \in ThreadType, NEW b \in BOOLEAN, Ends(k, t, b)
    PROVE  \E r \in ThreadType : /\ thread' = [thread EXCEPT ![k] = r] /\ r.got = t.got
                                 /\ r.pc = After(k)
<1> DEFINE r == [t EXCEPT !.error = b, !.todo = {}, !.at = "none", !.pc = After(k)]
<1>1. r \in ThreadType /\ r.pc = After(k) /\ r.got = t.got
  BY Zenon DEF ThreadType, After
<1>2. thread' = [thread EXCEPT ![k] = r]
  BY DEF Ends, Goes
<1> QED
  BY <1>1, <1>2, Zenon

LEMMA LazyEndsMoves == ASSUME IInv, RInv, NEW k \in Who, LazyEnds(k)  PROVE RInv'
<1> DEFINE t == thread[k]
<1>1. /\ Quiet /\ t.pc = "list" /\ cfg.mode = "lazy" /\ t \in ThreadType /\ t.at = "none"
      /\ stop \/ t.todo = {}
  BY ThreadFields DEF LazyEnds, Quiet, Placed
<1>2. PICK r \in ThreadType : thread' = [thread EXCEPT ![k] = r] /\ r.got = t.got /\ r.pc = After(k)
  BY <1>1, EndRecord, Zenon DEF LazyEnds
<1>3. ASSUME NEW q \in hist.well, Kept(q), k \in Slot
      PROVE  Young(q, r) /\ (Carries(q, t) => Carries(q, r))
  <2>1. t.todo = {} /\ Young(q, t)
    BY <1>1, <1>3 DEF Kept, Syncing
  <2>2. Carries(q, t) => AllShown(q)
    BY <1>1, <2>1, FolderAssumption DEF Carries, AllShown
  <2> QED
    BY <1>1, <1>2, <2>1, <2>2, LoopApart DEF Young, Carries, After
<1>4. k = Loop => r.pc \notin {"open", "write"}
  BY <1>2 DEF After
<1> QED
  BY <1>1, <1>2, <1>3, <1>4, SilentMoves, Zenon

\* Full: the whole drive in hand.
LEMMA FetchMoves == ASSUME IInv, RInv, NEW k \in Who, NEW f \in Folder, Fetch(k, f)  PROVE RInv'
<1> DEFINE t == thread[k]
           r == [t EXCEPT !.got[f] = cloud[f], !.todo = @ \ {f}, !.pc = "list"]
<1>1. Quiet /\ t.pc = "list" /\ cfg.mode = "full" /\ t \in ThreadType
  BY ThreadFields DEF Fetch, Quiet
<1>2. cloud \in [Folder -> Nat] /\ hist.well \subseteq Tool
  BY ThreadFields
<1>3. [t.got EXCEPT ![f] = cloud[f]] \in [Folder -> Nat]
  BY <1>1, <1>2 DEF ThreadType
<1>4. r \in ThreadType
  BY <1>1, <1>3, Zenon DEF ThreadType
<1>5. r.pc = "list" /\ r.todo = t.todo \ {f} /\ r.got = [t.got EXCEPT ![f] = cloud[f]]
  BY <1>1 DEF ThreadType
<1>6. thread' = [thread EXCEPT ![k] = r]
  BY DEF Fetch, Goes
<1> HIDE DEF r
<1>7. \A g \in Folder : r.got[g] = IF g = f THEN cloud[g] ELSE t.got[g]
  BY <1>1, <1>5 DEF ThreadType
<1>8. ASSUME NEW q \in hist.well, Kept(q)
      PROVE  (Young(q, t) => Young(q, r)) /\ (Carries(q, t) => Carries(q, r))
  <2>1. \A g \in Folder : /\ hist.want[q][g] \in Nat /\ cloud[g] \in Nat
                          /\ hist.want[q][g] <= cloud[g] /\ cloud[g] # 0
    BY <1>2, <1>8, ThreadFields DEF Kept
  <2>2. Young(q, t) => Young(q, r)
    BY <1>7, <2>1 DEF Young
  <2>3. Carries(q, t) => Carries(q, r)
    BY <1>1, <1>5, <1>7, <2>1 DEF Carries
  <2> QED
    BY <2>2, <2>3
<1>9. k \in Slot => \A q \in hist.well : Kept(q) => Young(q, t)
  BY <1>1 DEF Kept, Syncing
<1> QED
  BY <1>1, <1>4, <1>5, <1>6, <1>8, <1>9, SilentMoves, Zenon

LEMMA FetchedMoves == ASSUME IInv, RInv, NEW k \in Who, Fetched(k)  PROVE RInv'
<1> DEFINE t == thread[k]
<1>1. Quiet /\ t.pc = "list" /\ cfg.mode = "full" /\ t \in ThreadType
  BY ThreadFields DEF Fetched, Quiet
<1>2. CASE stop
  <2>1. PICK r \in ThreadType : thread' = [thread EXCEPT ![k] = r] /\ r.got = t.got /\ r.pc = After(k)
    BY <1>1, <1>2, EndRecord, Zenon DEF Fetched
  <2>2. \A q \in hist.well : ~Kept(q)
    BY <1>2 DEF Kept
  <2>3. k = Loop => r.pc \notin {"open", "write"}
    BY <2>1 DEF After
  <2> QED
    BY <1>1, <2>1, <2>2, <2>3, SilentMoves, Zenon
<1>3. CASE ~stop
  <2> DEFINE r == [[t EXCEPT !.todo = Folder] EXCEPT !.pc = "apply"]
  <2>1. r \in ThreadType /\ r.pc = "apply" /\ r.todo = Folder /\ r.got = t.got
    BY <1>1, Zenon DEF ThreadType
  <2>2. thread' = [thread EXCEPT ![k] = r] /\ t.todo = {}
    BY <1>3 DEF Fetched, Goes
  <2> HIDE DEF r
  <2>3. ASSUME NEW q \in hist.well
        PROVE  (Young(q, t) => Young(q, r)) /\ (Carries(q, t) => Carries(q, r))
    BY <1>1, <2>1, <2>2 DEF Young, Carries
  <2>4. k \in Slot => \A q \in hist.well : Kept(q) => Young(q, t)
    BY <1>1 DEF Kept, Syncing
  <2> QED
    BY <1>1, <2>1, <2>2, <2>3, <2>4, SilentMoves, Zenon
<1> QED
  BY <1>2, <1>3

\* With auto_sync off it is always a request's thread that applies a crawl.
LEMMA ApplyMoves == ASSUME IInv, RInv, NEW k \in Who, NEW f \in Folder, Apply(k, f)  PROVE RInv'
<1> DEFINE t == thread[k]
<1>1. /\ t.pc = "apply" /\ cfg.mode = "full" /\ t \in ThreadType /\ f \in t.todo
      /\ shown' = [shown EXCEPT ![f] = IF t.got[f] = 0 THEN @ ELSE t.got[f]]
      /\ UNCHANGED <<marker, hist, left, cfg, cloud, tool, pending, stop, main>>
  BY ThreadFields DEF Apply, Outside
<1>2. hist.well \subseteq Tool /\ shown \in [Folder -> Nat] /\ t.got \in [Folder -> Nat]
  BY <1>1, ThreadFields DEF ThreadType
<1>3. \A g \in Folder : shown'[g] = IF g = f /\ t.got[f] # 0 THEN t.got[f] ELSE shown[g]
  BY <1>1, <1>2
<1>4. PICK r \in ThreadType :
          /\ thread' = [thread EXCEPT ![k] = r] /\ r.got = t.got
          /\ \/ r.pc = After(k) /\ t.todo = {f}
             \/ r.pc = "apply" /\ r.todo = t.todo \ {f}
  <2>1. CASE t.todo = {f}
    <3>1. Ends(k, t, FALSE)
      BY <2>1, Zenon DEF Apply
    <3> QED
      BY <1>1, <2>1, <3>1, EndRecord, Zenon
  <2>2. CASE t.todo # {f}
    <3> DEFINE r == [t EXCEPT !.todo = @ \ {f}, !.pc = "apply"]
    <3>1. r \in ThreadType /\ r.got = t.got /\ r.pc = "apply" /\ r.todo = t.todo \ {f}
      BY <1>1, Zenon DEF ThreadType
    <3>2. thread' = [thread EXCEPT ![k] = r]
      BY <2>2 DEF Apply, Goes
    <3> HIDE DEF r
    <3> QED
      BY <3>1, <3>2, Zenon
  <2> QED
    BY <2>1, <2>2
<1>5. ASSUME Reliable, NEW q \in hist.well, Kept(q)
      PROVE  /\ k \in Slot /\ Young(q, r)
             /\ \A g \in Folder : shown[g] >= hist.want[q][g] => shown'[g] >= hist.want[q][g]
             /\ r.pc # "none" /\ Carries(q, t) => Carries(q, r)'
  <2>1. k \in Slot
    BY <1>1, <1>5, LoopApart DEF Reliable, RInv, Who, Loop
  <2>2. Young(q, t)
    BY <1>1, <1>5, <2>1 DEF Kept, Syncing
  <2>3. \A g \in Folder : hist.want[q][g] \in Nat
    BY <1>2, <1>5, ThreadFields
  <2>4. \A g \in Folder : shown[g] >= hist.want[q][g] => shown'[g] >= hist.want[q][g]
    BY <1>2, <1>3, <2>2, <2>3 DEF Young
  <2>5. Young(q, r)
    BY <1>4, <2>2 DEF Young
  <2>6. Carries(q, t) => Carries(q, r)'
    <3> SUFFICES ASSUME Carries(q, t)  PROVE Carries(q, r)'
      OBVIOUS
    <3>1. \A g \in Folder : t.got[g] # 0 /\ (g \in t.todo \/ shown[g] >= hist.want[q][g])
      BY <1>1 DEF Carries
    <3>2. \A g \in Folder : g \in t.todo \ {f} \/ shown'[g] >= hist.want[q][g]
      BY <1>3, <2>2, <2>4, <3>1 DEF Young
    <3>3. CASE r.pc = After(k) /\ t.todo = {f}
      <4>1. AllShown(q)'
        BY <1>1, <3>2, <3>3 DEF AllShown
      <4> QED
        BY <2>1, <3>3, <4>1, LoopApart DEF Carries, After
    <3>4. CASE r.pc = "apply" /\ r.todo = t.todo \ {f}
      BY <1>1, <1>4, <3>1, <3>2, <3>4 DEF Carries
    <3> QED
      BY <1>4, <3>3, <3>4
  <2> QED
    BY <2>1, <2>4, <2>5, <2>6
<1>6. k = Loop => r.pc \notin {"open", "write"}
  BY <1>4 DEF After
<1> QED
  BY <1>1, <1>4, <1>5, <1>6, RefreshMoves, Zenon

\* The marker: only a request's thread writes it, and it has shown all it carries.
LEMMA MarkerMoves == ASSUME IInv, RInv, NEW k \in Who, Open(k) \/ Write(k)  PROVE RInv'
<1> DEFINE t == thread[k]
<1>1. /\ t.pc \in {"open", "write"} /\ t \in ThreadType
      /\ UNCHANGED <<shown, hist, left, cfg, cloud, tool, pending, stop, main>>
  BY ThreadFields, Zenon DEF Open, Write, Outside
<1>2. k # Loop
  BY <1>1 DEF RInv
<1>3. PICK r \in ThreadType : /\ thread' = [thread EXCEPT ![k] = r]
                             /\ r.pc \in {"write", "none"} /\ r.got \in {t.got, Resting.got}
  <2>1. CASE Open(k)
    <3> DEFINE r == [t EXCEPT !.linked = TRUE, !.pc = "write"]
    <3>1. r \in ThreadType /\ r.pc = "write" /\ r.got = t.got
      BY <1>1, Zenon DEF ThreadType
    <3>2. thread' = [thread EXCEPT ![k] = r]
      BY <2>1, Zenon DEF Open, Goes
    <3> QED
      BY <3>1, <3>2, Zenon
  <2>2. CASE Write(k)
    <3> DEFINE r == [Resting EXCEPT !.pc = "none"]
    <3>1. r \in ThreadType /\ r.pc = "none" /\ r.got = Resting.got
      BY Zenon DEF Resting, ThreadType
    <3>2. thread' = [thread EXCEPT ![k] = r]
      BY <2>2 DEF Write, Goes
    <3> QED
      BY <3>1, <3>2, Zenon
  <2> QED
    BY <2>1, <2>2
<1>4. ASSUME NEW q \in hist.well, Kept(q)
      PROVE  /\ k \in Slot => Young(q, r)
             /\ Carries(q, t) => Carries(q, r)'
  <2>1. k \in Slot => Young(q, t)
    BY <1>1, <1>4 DEF Kept, Syncing
  <2>2. \A f \in Folder : Resting.got[f] = 0
    BY DEF Resting
  <2>3. k \in Slot => Young(q, r)
    BY <1>3, <2>1, <2>2 DEF Young
  <2>4. Carries(q, t) => Carries(q, r)'
    BY <1>1, <1>3 DEF Carries, AllShown
  <2> QED
    BY <2>3, <2>4
<1> QED
  BY <1>1, <1>2, <1>3, <1>4, RefreshMoves, Zenon

LEMMA LoopMoves == ASSUME IInv, RInv, LoopWakes  PROVE RInv'
<1> DEFINE new == [Resting EXCEPT !.pc = IF stop THEN "none" ELSE "begin"]
<1>1. new \in ThreadType /\ new.pc \in {"none", "begin"}
  BY Zenon DEF Resting, ThreadType
<1>2. /\ thread[Loop].pc = "wait" /\ thread' = [thread EXCEPT ![Loop] = new]
      /\ UNCHANGED <<shown, marker, hist, cfg, cloud, tool, pending, stop, main>>
  BY DEF LoopWakes, Goes, Outside
<1> HIDE DEF new
<1>3. PICK r \in ThreadType : r.pc \in {"none", "begin"} /\ thread' = [thread EXCEPT ![Loop] = r]
  BY <1>1, <1>2, Zenon
<1> QED
  BY <1>2, <1>3, LoopApart, RefreshMoves, Zenon

\* A listing that fails leaves no request of which anything is said.
LEMMA ListFailsMoves == ASSUME IInv, RInv, NEW k \in Who, ListFails(k)  PROVE RInv'
<1> DEFINE t == thread[k]
<1>1. /\ hist'.well = hist.well \ Tool /\ hist.well \subseteq Tool /\ t \in ThreadType
      /\ UNCHANGED <<shown, marker, cfg, cloud, tool, pending, stop, main>>
  BY ThreadFields, Zenon DEF ListFails, Spoilt, Outside, IInv, TypeOK
<1>2. hist'.well = {}
  BY <1>1
<1>3. t.pc \in {"list", "fetch"} /\ \E r \in ThreadType : r.pc = "list" /\ thread' = [thread EXCEPT ![k] = r]
  <2>1. CASE t.pc = "fetch" /\ Goes(k, [t EXCEPT !.at = "none"], "list")
    <3> DEFINE r == [t EXCEPT !.at = "none", !.pc = "list"]
    <3>1. r \in ThreadType /\ r.pc = "list"
      BY <1>1, Zenon DEF ThreadType
    <3>2. thread' = [thread EXCEPT ![k] = r]
      BY <2>1 DEF Goes
    <3> HIDE DEF r
    <3> QED
      BY <2>1, <3>1, <3>2, Zenon
  <2>2. ASSUME NEW f \in t.todo, t.pc = "list", Goes(k, [t EXCEPT !.todo = @ \ {f}], "list")
        PROVE  <1>3!:
    <3> DEFINE r == [t EXCEPT !.todo = @ \ {f}, !.pc = "list"]
    <3>1. r \in ThreadType /\ r.pc = "list"
      BY <1>1, <2>2, Zenon DEF ThreadType
    <3>2. thread' = [thread EXCEPT ![k] = r]
      BY <2>2 DEF Goes
    <3> HIDE DEF r
    <3> QED
      BY <2>2, <3>1, <3>2, Zenon
  <2> QED
    BY <2>1, <2>2, Zenon DEF ListFails
<1>4. \A l \in Who : thread'[l] = thread[l] \/ (l = k /\ thread'[l].pc = "list")
  BY <1>3, ThreadFields
<1>5. thread'[Loop].pc \notin {"open", "write"} /\ (~cfg.auto => thread'[Loop].pc = "none")
  BY <1>3, <1>4, LoopApart DEF RInv
<1> QED
  BY <1>1, <1>2, <1>5 DEF RInv
-----------------------------------------------------------------------------
\* icloudctl sync.
LEMMA ToolMoves ==
    ASSUME IInv, RInv, NEW q \in Tool, Seen(q) \/ Read(q) \/ Timeout(q)
    PROVE  RInv'
<1>1. /\ UNCHANGED <<marker, pending, thread, hist, cfg, cloud, shown, stop, main>>
      /\ tool \in [Tool -> {"idle", "waiting", "read", "done", "failed", "late", "refused"}]
      /\ \E pc \in {"read", "done", "failed", "late"} : tool' = [tool EXCEPT ![q] = pc]
  BY Zenon DEF Seen, Read, Timeout, Untouched, ToolAt, IInv, TypeOK
<1>2. /\ tool'[q] \in {"read", "done", "failed", "late"} /\ q \in Asking
      /\ \A p \in Tool \ {q} : tool'[p] = tool[p]
  BY <1>1 DEF Seen, Read, Timeout, Asking
<1>3. Asking' \subseteq Asking /\ Syncing' = Syncing
  BY <1>1, <1>2 DEF Asking, Syncing
<1>4. ASSUME Reliable, NEW p \in hist.well  PROVE Kept(p)'
  <2>1. Kept(p) /\ p \in Tool
    BY <1>4, ThreadFields, LoopApart DEF RInv
  <2>2. p \in Asking => Answering(p)'
    BY <1>1, <1>3, <2>1 DEF Kept, Answering, Carries, AllShown
  <2>3. tool'[p] # "idle"
    BY <1>2, <2>1 DEF Kept
  <2>4. AllShown(p)' <=> AllShown(p)
    BY <1>1 DEF AllShown
  <2>5. tool'[p] \in {"read", "done"} => AllShown(p)
    <3>1. CASE p # q
      BY <1>2, <2>1, <3>1 DEF Kept
    <3>2. CASE p = q /\ Seen(q)
      BY <1>2, <2>1, <3>2 DEF Seen, Kept, Answering
    <3>3. CASE p = q /\ Read(q)
      BY <2>1, <3>3 DEF Read, Kept
    <3>4. CASE p = q /\ Timeout(q)
      <4>1. tool' = [tool EXCEPT ![q] = "late"]
        BY <3>4 DEF Timeout, ToolAt
      <4>2. tool'[q] = "late"
        BY <1>1, <4>1
      <4> QED
        BY <3>4, <4>2
    <3> QED
      BY <3>1, <3>2, <3>3, <3>4
  <2>6. (\A k \in Syncing : Young(p, thread[k]))'
    BY <1>1, <1>3, <2>1 DEF Kept, Young
  <2> QED
    BY <1>1, <1>3, <2>1, <2>2, <2>3, <2>4, <2>5, <2>6 DEF Kept
<1> QED
  BY <1>1, <1>4 DEF RInv, Reliable

\* A new request: alone, it is the only one of which anything is said; else it
\* is no longer known by whom the others that wait are answered.
LEMMA AskMoves == ASSUME IInv, RInv, NEW q \in Tool, Ask(q)  PROVE RInv'
<1>1. /\ UNCHANGED <<cfg, cloud, shown, stop, main>> /\ tool[q] = "idle" /\ hist.well \subseteq Tool
      /\ tool \in [Tool -> {"idle", "waiting", "read", "done", "failed", "late", "refused"}]
      /\ main \in {"serving", "stopping", "gone"}
  BY Zenon DEF Ask, IInv, TypeOK
<1>2. CASE main = "gone"
  <2>1. UNCHANGED <<marker, thread, pending, hist>> /\ stop
    BY <1>1, <1>2 DEF Ask, RInv
  <2>2. \A p \in hist.well : ~Kept(p)
    BY <2>1 DEF Kept
  <2> QED
    BY <1>1, <2>1, <2>2 DEF RInv, Reliable
<1>3. CASE main # "gone"
  <2>1. /\ tool' = [tool EXCEPT ![q] = "waiting"] /\ marker' = NoMarker
        /\ thread' = [k \in Who |-> [thread[k] EXCEPT !.linked = FALSE]]
        /\ pending' = pending \union {"usr1"}
        /\ hist' = [want |-> [hist.want EXCEPT ![q] = cloud],
                    well |-> IF Undisturbed THEN {q} ELSE hist.well \ Asking]
    BY <1>3 DEF Ask, ToolAt
  <2>2. tool'[q] = "waiting" /\ \A p \in Tool \ {q} : tool'[p] = tool[p]
    BY <1>1, <2>1
  <2>3. \A k \in Who : /\ thread'[k].pc = thread[k].pc /\ thread'[k].at = thread[k].at
                       /\ thread'[k].got = thread[k].got /\ thread'[k].todo = thread[k].todo
    BY <2>1, ThreadFields DEF ThreadType
  <2>4. Syncing' = Syncing
    BY <2>3, LoopApart DEF Syncing
  <2>5. /\ hist'.want = [hist.want EXCEPT ![q] = cloud] /\ hist.want \in [Tool -> [Folder -> Nat]]
        /\ hist'.well = IF Undisturbed THEN {q} ELSE hist.well \ Asking
    BY <2>1, Zenon DEF IInv, TypeOK
  <2>6. hist'.want[q] = cloud /\ \A p \in Tool \ {q} : hist'.want[p] = hist.want[p]
    BY <2>5
  <2>7. ~marker'.there
    BY <2>1, Zenon DEF NoMarker
  <2>8. ASSUME Undisturbed  PROVE Kept(q)'
    <3>1. cfg.signed /\ ~stop /\ Syncing = {} /\ Asking = {}
      BY <2>8 DEF Undisturbed
    <3>2. \A f \in Folder : hist'.want[q][f] \in 1..cloud[f]
      <4>1. \A f \in Folder : cloud[f] \in Nat /\ cloud[f] > 0
        BY ThreadFields, LoopApart DEF RInv
      <4> QED
        BY <2>6, <4>1
    <3>3. \A p \in Asking' : p = q
      BY <2>2, <3>1 DEF Asking
    <3>4. Answering(q)'
      BY <2>4, <2>7, <3>1, <3>3 DEF Answering
    <3> QED
      BY <1>1, <2>2, <2>4, <3>1, <3>2, <3>4 DEF Kept
  <2>9. ASSUME Reliable, NEW p \in hist.well \ Asking  PROVE Kept(p)'
    <3>1. Kept(p) /\ p \in Tool /\ p # q
      BY <1>1, <2>9 DEF RInv, Kept
    <3>2. tool'[p] = tool[p] /\ hist'.want[p] = hist.want[p]
      BY <2>2, <2>6, <3>1
    <3>3. p \notin Asking'
      BY <2>9, <3>1, <3>2 DEF Asking
    <3>4. AllShown(p)' <=> AllShown(p)
      BY <1>1, <3>2 DEF AllShown
    <3>5. (\A k \in Syncing : Young(p, thread[k]))'
      BY <2>3, <2>4, <3>1, <3>2, LoopApart DEF Kept, Young, Syncing
    <3> QED
      BY <1>1, <3>1, <3>2, <3>3, <3>4, <3>5 DEF Kept
  <2>10. Reliable => \A p \in hist'.well : Kept(p)'
    BY <2>5, <2>8, <2>9
  <2>11. thread'[Loop].pc = thread[Loop].pc
    BY <2>3, LoopApart
  <2>12. (Reliable => \A p \in hist.well : Kept(p))'
    BY <1>1, <2>10 DEF Reliable
  <2> QED
    BY <1>1, <2>11, <2>12 DEF RInv
<1> QED
  BY <1>2, <1>3
-----------------------------------------------------------------------------
\* The daemon around the refreshes.
LEMMA OnUsr1Moves == ASSUME IInv, RInv, OnUsr1  PROVE RInv'
<1>1. /\ "usr1" \in pending /\ pending' = pending \ {"usr1"}
      /\ UNCHANGED <<cfg, cloud, shown, tool, marker, stop, main, hist>>
  BY DEF OnUsr1
<1>2. PICK k \in Slot \ Syncing : thread' = Started(k)
  BY DEF OnUsr1
<1> DEFINE new == [Resting EXCEPT !.pc = "begin"]
<1>3. new.pc = "begin" /\ \A f \in Folder : new.got[f] = 0
  BY DEF Resting
<1>4. thread'[k] = new /\ \A l \in Who \ {k} : thread'[l] = thread[l]
  BY <1>2, ThreadFields, LoopApart DEF Started
<1> HIDE DEF new
<1>5. Syncing' = Syncing \union {k} /\ k # Loop
  BY <1>2, <1>3, <1>4, LoopApart DEF Syncing
<1>6. ASSUME Reliable, NEW q \in hist.well  PROVE Kept(q)'
  <2>1. Kept(q)
    BY <1>6 DEF RInv
  <2>2. \A l \in Syncing' : Young(q, thread[l])'
    <3>1. ASSUME NEW l \in Syncing'  PROVE Young(q, thread'[l])
      <4>1. CASE l = k
        BY <1>3, <1>4, <4>1 DEF Young
      <4>2. CASE l # k
        BY <1>4, <1>5, <2>1, <3>1, <4>2, LoopApart DEF Kept, Syncing
      <4> QED
        BY <4>1, <4>2
    <3> QED
      BY <1>1, <3>1 DEF Young
  <2>3. q \in Asking => Answering(q)'
    <3> SUFFICES ASSUME q \in Asking  PROVE Answering(q)'
      OBVIOUS
    <3>1. Syncing = {} /\ ~marker.there /\ \A p \in Asking : p = q
      BY <1>1, <2>1 DEF Kept, Answering
    <3>2. Syncing' = {k} /\ Asking' = Asking
      BY <1>1, <1>5, <3>1 DEF Asking
    <3>3. Carries(q, thread[k])'
      BY <1>3, <1>4 DEF Carries
    <3> QED
      BY <1>1, <3>1, <3>2, <3>3 DEF Answering
  <2>4. Asking' = Asking /\ (AllShown(q)' <=> AllShown(q))
    BY <1>1 DEF Asking, AllShown
  <2> QED
    BY <1>1, <2>1, <2>2, <2>3, <2>4 DEF Kept
<1>7. thread'[Loop] = thread[Loop]
  BY <1>4, <1>5, LoopApart
<1> QED
  BY <1>1, <1>6, <1>7 DEF RInv, Reliable

LEMMA StopMoves == ASSUME IInv, RInv, OnTerm \/ Exit  PROVE RInv'
<1>1. CASE OnTerm
  <2>1. /\ stop' = TRUE /\ hist'.well = hist.well \ Tool /\ hist.well \subseteq Tool
        /\ UNCHANGED <<cfg, cloud, thread>>
    BY <1>1, Zenon DEF OnTerm, Spoilt, IInv, TypeOK
  <2>2. hist'.well = {}
    BY <2>1
  <2> QED
    BY <2>1, <2>2 DEF RInv
<1>2. CASE Exit
  <2>1. /\ stop /\ UNCHANGED <<cfg, cloud, stop, hist>> /\ thread' = [k \in Who |-> Resting]
    BY <1>2 DEF Exit, RInv
  <2>2. thread'[Loop].pc = "none"
    BY <2>1, RestingType, LoopApart
  <2>3. Reliable => hist.well = {}
    BY <2>1 DEF RInv, Kept
  <2> QED
    BY <2>1, <2>2, <2>3 DEF RInv, Reliable
<1> QED
  BY <1>1, <1>2

LEMMA EditMoves == ASSUME IInv, RInv, Edit  PROVE RInv'
<1>1. UNCHANGED <<cfg, shown, tool, marker, pending, thread, stop, main, hist>>
  BY DEF Edit
<1>2. PICK f \in Folder : cloud' = [cloud EXCEPT ![f] = @ + 1]
  BY Zenon DEF Edit
<1>3. \A g \in Folder : cloud[g] \in Nat /\ cloud'[g] \in Nat /\ cloud[g] <= cloud'[g]
  BY <1>2, ThreadFields, LoopApart
<1>4. ASSUME NEW q \in hist.well, Kept(q)  PROVE Kept(q)'
  <2>1. \A g \in Folder : hist.want[q][g] \in 1..cloud'[g]
    BY <1>3, <1>4 DEF Kept
  <2>2. q \in Asking => Answering(q)'
    BY <1>1, <1>4 DEF Kept, Answering, Asking, Syncing, Carries, AllShown
  <2> QED
    BY <1>1, <1>4, <2>1, <2>2 DEF Kept, Asking, Syncing, Young, AllShown
<1>5. \A g \in Folder : cloud'[g] > 0
  BY <1>3 DEF RInv
<1> QED
  BY <1>1, <1>4, <1>5 DEF RInv, Reliable

\* A SIGTERM that is sent is no SIGUSR1.
LEMMA TermMoves == ASSUME IInv, RInv, Term  PROVE RInv'
<1>1. /\ UNCHANGED <<cfg, cloud, shown, tool, marker, thread, stop, main, hist>>
      /\ "usr1" \in pending' => "usr1" \in pending
  BY DEF Term
<1>2. ASSUME NEW q \in hist.well, Kept(q)  PROVE Kept(q)'
  <2>1. q \in Asking => Answering(q)'
    BY <1>1, <1>2 DEF Kept, Answering, Asking, Syncing, Carries, AllShown
  <2> QED
    BY <1>1, <1>2, <2>1 DEF Kept, Asking, Syncing, Young, AllShown
<1> QED
  BY <1>1, <1>2 DEF RInv, Reliable

LEMMA StutterMoves == ASSUME IInv, RInv, UNCHANGED vars  PROVE RInv'
<1>1. UNCHANGED <<cfg, cloud, shown, tool, marker, pending, thread, stop, main, hist>>
  BY DEF vars
<1>2. ASSUME NEW q \in hist.well, Kept(q)  PROVE Kept(q)'
  <2>1. q \in Asking => Answering(q)'
    BY <1>1, <1>2 DEF Kept, Answering, Asking, Syncing, Carries, AllShown
  <2> QED
    BY <1>1, <1>2, <2>1 DEF Kept, Asking, Syncing, Young, AllShown
<1> QED
  BY <1>1, <1>2 DEF RInv, Reliable

LEMMA InitRInv == Init => RInv
<1> SUFFICES ASSUME Init  PROVE RInv
  OBVIOUS
<1>1. thread[Loop].pc \notin {"open", "write"} /\ (~cfg.auto => thread[Loop].pc = "none")
  BY LoopApart DEF Init, Resting
<1> QED
  BY <1>1 DEF Init, RInv

LEMMA NextRInv == IInv /\ RInv /\ [Next]_vars => RInv'
<1> SUFFICES ASSUME IInv, RInv, [Next]_vars  PROVE RInv'
  OBVIOUS
<1>1. ASSUME NEW q \in Tool, Ask(q) \/ ToolStep(q) \/ Timeout(q)  PROVE RInv'
  BY <1>1, AskMoves, ToolMoves DEF ToolStep
<1>2. ASSUME NEW k \in Who, Refreshes(k)  PROVE RInv'
  BY <1>2, BeginMoves, LockFolderMoves, FetchMoves, ApplyMoves, FetchLockedMoves, ApplyLockedMoves,
     LazyEndsMoves, FetchedMoves, MarkerMoves DEF Refreshes
<1>3. ASSUME NEW k \in Who, ListFails(k)  PROVE RInv'
  BY <1>3, ListFailsMoves
<1>4. CASE Daemon
  BY <1>4, OnUsr1Moves, StopMoves DEF Daemon
<1>5. CASE LoopWakes \/ Edit \/ Term
  BY <1>5, LoopMoves, EditMoves, TermMoves
<1>6. CASE UNCHANGED vars
  BY <1>6, StutterMoves
<1> QED
  BY <1>1, <1>2, <1>3, <1>4, <1>5, <1>6 DEF Next

\* `icloudctl sync` says "done" only when the mount shows at least what was on
\* iCloud when it was asked (sync_request.rs, daemon.rs: spawn_on_demand_sync),
\* for a request that was alone and with nothing having failed, however many
\* requests came before and after it and however often the loop refreshed.
THEOREM DoneIsTrueAlways == Spec => []DoneIsTrue
<1>1. Init => RInv
  BY InitRInv
<1>2. IInv /\ RInv /\ [Next]_vars => RInv'
  BY NextRInv
<1>3. RInv => DoneIsTrue
  BY DEF RInv, Kept, AllShown, Reliable, DoneIsTrue
<1> QED
  BY <1>1, <1>2, <1>3, Disciplined, PTL DEF Spec
=============================================================================
