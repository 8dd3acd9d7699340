------------------------------- MODULE Refresh -------------------------------
(***************************************************************************)
(* Refreshing from iCloud: `icloudctl sync` asks the daemon with SIGUSR1   *)
(* and waits for a marker file (sync_request.rs); the daemon's signal      *)
(* thread starts a thread for each request, which refreshes and writes the *)
(* marker (daemon.rs); the engine's refresh loop does the same on a timer  *)
(* (engine/mod.rs); and SIGTERM ends it all.                               *)
(*                                                                         *)
(* What a listing does to a folder is the subject of FileSync; here it     *)
(* brings the folder, as shown, to the version that was fetched.  The      *)
(* kernel is external: a signal that is already pending is not queued      *)
(* again, and a file that is removed while it is open is written for       *)
(* nobody.                                                                 *)
(***************************************************************************)
EXTENDS Naturals, FiniteSets

CONSTANTS
    Tool,       \* runs of `icloudctl sync`
    Folder,     \* folders a refresh lists
    Configs,    \* crawl_mode, whether there is a session, auto_sync
    Edits,      \* bound: changes on iCloud
    Fails,      \* bound: listings that fail
    Turns       \* bound: refreshes, asked for or by the timer

ConfigType == [mode : {"lazy", "full"}, signed : BOOLEAN, auto : BOOLEAN]
ASSUME FolderAssumption == "none" \notin Folder
ASSUME ConfigAssumption == Configs \subseteq ConfigType
ASSUME BoundAssumption == Edits \in Nat /\ Fails \in Nat /\ Turns \in Nat

VARIABLES
    cfg,      \* the daemon's configuration
    cloud,    \* the version of each folder on iCloud
    shown,    \* ... and in the mount
    tool,     \* where each `icloudctl sync` is
    marker,   \* the marker file: its text, and for which tools it is new enough
    pending,  \* signals sent and not yet taken
    thread,   \* the refresh loop, and the thread started for each request
    stop,     \* Engine: the stop signal
    main,     \* the daemon's main thread
    hist,     \* history: what each tool should see, and whether all went well for it
    left      \* what is left of the bounds

vars == <<cfg, cloud, shown, tool, marker, pending, thread, stop, main, hist, left>>

Slot == 1 .. Cardinality(Tool)     \* no request can need more threads
Who == Slot \union {0}             \* 0 is the refresh loop
Loop == 0

NoMarker == [there |-> FALSE, text |-> "", meets |-> {}]
Resting == [pc |-> "none", todo |-> {}, at |-> "none", got |-> [f \in Folder |-> 0],
            error |-> FALSE, linked |-> FALSE]

Waiting == {q \in Tool : tool[q] = "waiting"}
Syncing == {k \in Slot : thread[k].pc # "none"}
Asking == {q \in Tool : tool[q] \in {"waiting", "read"}}

-----------------------------------------------------------------------------
\* icloudctl sync.
Untouched == UNCHANGED <<cfg, cloud, shown, stop, main, left>>
ToolAt(q, pc) == tool' = [tool EXCEPT ![q] = pc]

\* Something has gone wrong for the tools in Q.
Spoilt(Q) == hist' = [hist EXCEPT !.well = @ \ Q]

\* A request that is all there is may expect to be answered by its own refresh.
Undisturbed == cfg.signed /\ ~stop /\ Syncing = {} /\ Asking = {} /\ pending = {}

\* request_sync: the old marker is removed, `since` is now, and SIGUSR1 is sent.
\* A thread that is writing the old marker goes on to write for nobody.
Ask(q) ==
    /\ tool[q] = "idle"
    /\ left.turns > 0 /\ left' = [left EXCEPT !.turns = @ - 1]
    /\ IF main = "gone" THEN ToolAt(q, "refused") /\ UNCHANGED <<marker, thread, pending, hist>>
       ELSE /\ ToolAt(q, "waiting")
            /\ marker' = NoMarker
            /\ thread' = [k \in Who |-> [thread[k] EXCEPT !.linked = FALSE]]
            /\ pending' = pending \union {"usr1"}
            /\ hist' = [want |-> [hist.want EXCEPT ![q] = cloud],
                        well |-> IF Undisturbed THEN {q} ELSE hist.well \ Asking]
    /\ UNCHANGED <<cfg, cloud, shown, stop, main>>

\* wait_for_marker, until it is new enough, or the timeout.
Seen(q) ==
    /\ tool[q] = "waiting" /\ marker.there /\ q \in marker.meets
    /\ ToolAt(q, "read")
    /\ UNCHANGED <<marker, pending, thread, hist>> /\ Untouched

Timeout(q) ==
    /\ tool[q] = "waiting"
    /\ ToolAt(q, "late")
    /\ UNCHANGED <<marker, pending, thread, hist>> /\ Untouched

\* outcome_of: only an error is one; an empty or a missing file is a success.
Read(q) ==
    /\ tool[q] = "read"
    /\ ToolAt(q, IF marker.text = "error" THEN "failed" ELSE "done")
    /\ UNCHANGED <<marker, pending, thread, hist>> /\ Untouched

-----------------------------------------------------------------------------
\* The daemon's signal thread, until the first SIGTERM.
Alive == main = "serving"

\* Mutant: a request that comes while another is served is dropped.
Started_one(k) == IF Syncing # {} THEN thread ELSE [thread EXCEPT ![k] = [Resting EXCEPT !.pc = "begin"]]

\* spawn_on_demand_sync
Started(k) == [thread EXCEPT ![k] = [Resting EXCEPT !.pc = "begin"]]

OnUsr1 ==
    /\ Alive /\ "usr1" \in pending
    /\ pending' = pending \ {"usr1"}
    /\ \E k \in Slot \ Syncing : thread' = Started(k)
    /\ UNCHANGED <<cfg, cloud, shown, tool, marker, stop, main, hist, left>>

\* Engine::shutdown, and the mount is taken down.
OnTerm ==
    /\ Alive /\ "term" \in pending
    /\ pending' = pending \ {"term"}
    /\ stop' = TRUE
    /\ main' = "stopping"
    /\ Spoilt(Tool)
    /\ UNCHANGED <<cfg, cloud, shown, tool, marker, thread, left>>

\* session.run returns; shutdown_and_wait has patience for the loop and no
\* more, and the process ends with every thread.
Exit ==
    /\ main = "stopping"
    /\ main' = "gone"
    /\ thread' = [k \in Who |-> Resting]
    /\ pending' = {}
    /\ UNCHANGED <<cfg, cloud, shown, tool, marker, stop, hist, left>>

-----------------------------------------------------------------------------
\* A refresh, by the loop or by a request's thread.
Goes(k, t, pc) == thread' = [thread EXCEPT ![k] = [t EXCEPT !.pc = pc]]
Outside == UNCHANGED <<cfg, cloud, tool, pending, stop, main>>

\* The loop goes back to its wait, a request's thread to its marker.
After(k) == IF k = Loop THEN "wait" ELSE "open"

Ends(k, t, failed) == Goes(k, [t EXCEPT !.error = failed, !.todo = {}, !.at = "none"], After(k))

\* A request to a daemon without a session fails at once.
Begin(k) ==
    /\ thread[k].pc = "begin"
    /\ IF cfg.signed
       THEN Goes(k, [Resting EXCEPT !.todo = Folder], "list")
       ELSE Ends(k, Resting, TRUE)
    /\ UNCHANGED <<shown, marker, hist, left>> /\ Outside

\* Mutant: the lock is not waited for.
LockFree_any(f) == TRUE

\* list_directory works on one folder under the folder's lock.
LockFree(f) == \A k \in Who : thread[k].at # f

\* Mutant: a folder that another refresh is listing is passed over.
LockFolder_try(k, f) ==
    LET t == thread[k] IN
    /\ t.pc = "list" /\ cfg.mode = "lazy" /\ ~stop
    /\ f \in t.todo
    /\ Goes(k, [t EXCEPT !.at = IF LockFree(f) THEN f ELSE @, !.todo = @ \ {f}],
            IF LockFree(f) THEN "fetch" ELSE "list")
    /\ UNCHANGED <<shown, marker, hist, left>> /\ Outside

\* Lazy: a folder at a time; a stop ends the refresh, and it counts as done.
LockFolder(k, f) ==
    LET t == thread[k] IN
    /\ t.pc = "list" /\ cfg.mode = "lazy" /\ ~stop
    /\ f \in t.todo /\ LockFree(f)
    /\ Goes(k, [t EXCEPT !.at = f, !.todo = @ \ {f}], "fetch")
    /\ UNCHANGED <<shown, marker, hist, left>> /\ Outside

FetchLocked(k) ==
    LET t == thread[k] IN
    /\ t.pc = "fetch"
    /\ Goes(k, [t EXCEPT !.got[t.at] = cloud[t.at]], "apply")
    /\ UNCHANGED <<shown, marker, hist, left>> /\ Outside

ApplyLocked(k) ==
    LET t == thread[k] IN
    /\ t.pc = "apply" /\ cfg.mode = "lazy"
    /\ shown' = [shown EXCEPT ![t.at] = t.got[t.at]]
    /\ Goes(k, [t EXCEPT !.at = "none", !.got[t.at] = 0], "list")
    /\ UNCHANGED <<marker, hist, left>> /\ Outside

LazyEnds(k) ==
    LET t == thread[k] IN
    /\ t.pc = "list" /\ cfg.mode = "lazy" /\ (stop \/ t.todo = {})
    /\ Ends(k, t, FALSE)
    /\ UNCHANGED <<shown, marker, hist, left>> /\ Outside

\* Full: the whole drive is fetched and then applied, under no lock.
Fetch(k, f) ==
    LET t == thread[k] IN
    /\ t.pc = "list" /\ cfg.mode = "full" /\ ~stop
    /\ f \in t.todo
    /\ Goes(k, [t EXCEPT !.got[f] = cloud[f], !.todo = @ \ {f}], "list")
    /\ UNCHANGED <<shown, marker, hist, left>> /\ Outside

Fetched(k) ==
    LET t == thread[k] IN
    /\ t.pc = "list" /\ cfg.mode = "full"
    /\ IF stop THEN Ends(k, t, TRUE) ELSE t.todo = {} /\ Goes(k, [t EXCEPT !.todo = Folder], "apply")
    /\ UNCHANGED <<shown, marker, hist, left>> /\ Outside

\* A folder that could not be listed is left as it was.
Apply(k, f) ==
    LET t == thread[k] IN
    /\ t.pc = "apply" /\ cfg.mode = "full" /\ f \in t.todo
    /\ shown' = [shown EXCEPT ![f] = IF t.got[f] = 0 THEN @ ELSE t.got[f]]
    /\ IF t.todo = {f} THEN Ends(k, t, FALSE) ELSE Goes(k, [t EXCEPT !.todo = @ \ {f}], "apply")
    /\ UNCHANGED <<marker, hist, left>> /\ Outside

\* In both modes a folder that cannot be listed is logged and passed over.
ListFails(k) ==
    LET t == thread[k] IN
    /\ left.fails > 0
    /\ \/ t.pc = "fetch" /\ Goes(k, [t EXCEPT !.at = "none"], "list")
       \/ /\ t.pc = "list" /\ cfg.mode = "full" /\ ~stop
          /\ \E f \in t.todo : Goes(k, [t EXCEPT !.todo = @ \ {f}], "list")
    /\ left' = [left EXCEPT !.fails = @ - 1]
    /\ Spoilt(Tool)
    /\ UNCHANGED <<shown, marker>> /\ Outside

-----------------------------------------------------------------------------
\* write_marker is fs::write: the file is there, empty, before it has a text.
Open(k) ==
    LET t == thread[k] IN
    /\ t.pc = "open"
    /\ marker' = [there |-> TRUE, text |-> "", meets |-> Waiting]
    /\ Goes(k, [t EXCEPT !.linked = TRUE], "write")
    /\ UNCHANGED <<shown, hist, left>> /\ Outside

Write(k) ==
    LET t == thread[k] IN
    /\ t.pc = "write"
    /\ marker' = IF t.linked
                 THEN [there |-> TRUE, text |-> IF t.error THEN "error" ELSE "ok", meets |-> Waiting]
                 ELSE marker
    /\ Goes(k, Resting, "none")
    /\ UNCHANGED <<shown, hist, left>> /\ Outside

-----------------------------------------------------------------------------
\* refresh_loop: at every interval it looks at stop, and refreshes.
LoopWakes ==
    /\ thread[Loop].pc = "wait"
    /\ left.turns > 0 /\ left' = [left EXCEPT !.turns = @ - 1]
    /\ Goes(Loop, Resting, IF stop THEN "none" ELSE "begin")
    /\ UNCHANGED <<shown, marker, hist>> /\ Outside

-----------------------------------------------------------------------------
\* Another device changes a folder; somebody stops the service.
Edit ==
    /\ left.edits > 0 /\ left' = [left EXCEPT !.edits = @ - 1]
    /\ \E f \in Folder : cloud' = [cloud EXCEPT ![f] = @ + 1]
    /\ UNCHANGED <<cfg, shown, tool, marker, pending, thread, stop, main, hist>>

Term ==
    /\ Alive /\ pending' = pending \union {"term"} /\ pending' # pending
    /\ UNCHANGED <<cfg, cloud, shown, tool, marker, thread, stop, main, hist, left>>

Init ==
    /\ cfg \in Configs
    /\ cloud = [f \in Folder |-> 1] /\ shown = cloud
    /\ tool = [q \in Tool |-> "idle"]
    /\ marker = NoMarker
    /\ pending = {}
    /\ thread = [k \in Who |-> IF k = Loop /\ cfg.auto /\ cfg.signed
                               THEN [Resting EXCEPT !.pc = "wait"] ELSE Resting]
    /\ stop = FALSE /\ main = "serving"
    /\ hist = [want |-> [q \in Tool |-> [f \in Folder |-> 0]], well |-> {}]
    /\ left = [edits |-> Edits, fails |-> Fails, turns |-> Turns]

ToolStep(q) == Seen(q) \/ Read(q)

\* A thread that the scheduler runs gets on, unless it waits for a lock.
Refreshes(k) ==
    \/ Begin(k)
    \/ \E f \in Folder : LockFolder(k, f) \/ Fetch(k, f) \/ Apply(k, f)
    \/ FetchLocked(k) \/ ApplyLocked(k) \/ LazyEnds(k) \/ Fetched(k)
    \/ Open(k) \/ Write(k)

Daemon == OnUsr1 \/ OnTerm \/ Exit

Next ==
    \/ \E q \in Tool : Ask(q) \/ ToolStep(q) \/ Timeout(q)
    \/ \E k \in Who : Refreshes(k) \/ ListFails(k)
    \/ Daemon \/ LoopWakes \/ Edit \/ Term

Spec == Init /\ [][Next]_vars

\* The threads of both programs run, and a lock goes round.
FairSpec ==
    /\ Spec
    /\ \A q \in Tool : WF_vars(ToolStep(q) \/ Timeout(q))
    /\ \A k \in Who : WF_vars(Refreshes(k))
    /\ WF_vars(OnUsr1) /\ WF_vars(OnTerm) /\ WF_vars(Exit)

-----------------------------------------------------------------------------
ThreadType ==
    [pc : {"none", "wait", "begin", "list", "fetch", "apply", "open", "write"},
     todo : SUBSET Folder, at : Folder \union {"none"}, got : [Folder -> Nat],
     error : BOOLEAN, linked : BOOLEAN]

\* What the daemon, its threads and the runs of `icloudctl sync` hold.
TypeOK ==
    /\ cfg \in ConfigType
    /\ cloud \in [Folder -> Nat] /\ shown \in [Folder -> Nat]
    /\ tool \in [Tool -> {"idle", "waiting", "read", "done", "failed", "late", "refused"}]
    /\ marker \in [there : BOOLEAN, text : {"", "ok", "error"}, meets : SUBSET Tool]
    /\ pending \subseteq {"usr1", "term"}
    /\ thread \in [Who -> ThreadType]
    /\ stop \in BOOLEAN /\ main \in {"serving", "stopping", "gone"}
    /\ hist \in [want : [Tool -> [Folder -> Nat]], well : SUBSET Tool]
    /\ left \in [edits : Nat, fails : Nat, turns : Nat]

\* The refresh that answers a request lists the folders after the request was
\* made, also when its signal was merged with another one or when another
\* refresh was under way: once a signal is sent, a refresh begins.
Begins(q) == \E k \in Slot : thread[k].pc = "begin"
RequestsBegin == \A q \in Tool : tool[q] = "waiting" /\ "usr1" \in pending ~> Begins(q) \/ ~Alive

\* What `icloudctl sync` says is true when nothing went wrong and nobody else
\* asked: the mount shows at least what was on iCloud when it was asked.  With
\* crawl_mode: full the refresh loop must be off: it can apply an older crawl.
DoneIsTrue ==
    \A q \in hist.well :
        tool[q] = "done" /\ (cfg.mode = "lazy" \/ ~cfg.auto) => \A f \in Folder : shown[f] >= hist.want[q][f]

\* Two refreshes at the same time never take a folder back to an older listing,
\* thanks to the folder's lock (crawl_mode: lazy).
NeverBack == [][cfg.mode = "lazy" => \A f \in Folder : shown'[f] >= shown[f]]_vars
=============================================================================
