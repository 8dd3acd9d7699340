------------------------------ MODULE Service ------------------------------
(***************************************************************************)
(* The installed service: what the commands of `icloudctl` and the last    *)
(* page of the installer do to it (setup.rs, commands.rs), the daemon's    *)
(* mount as it starts and ends (daemon.rs), the unit that systemd runs it  *)
(* by (service_unit), and the watcher that follows the daemon's log and    *)
(* keeps the label of the sidebar entry (status.rs, logging.rs).  A        *)
(* command is a program of steps, one at a time; the daemon, systemd and   *)
(* the watcher go on between any two of them.                              *)
(*                                                                         *)
(* The password is not stored, as is the default: a daemon without a saved *)
(* session, or whose session Apple refuses, serves the cache read-only.    *)
(* systemd, the kernel and fusermount are external.  A `systemctl` call    *)
(* returns when its job is done, a job to start what runs already is done  *)
(* at once, and a daemon whose mount is detached ends without an error.    *)
(* A command ends where a folder cannot be made or removed: what it has    *)
(* done so far stays done.                                                 *)
(***************************************************************************)
EXTENDS Naturals, Sequences

CONSTANTS
    Dirs,        \* folders the drive can be mounted at
    Home,        \* ... the default one
    Commands,    \* bound: commands the user gives
    Faults       \* bound: crashes, failed starts, and mounts the user detaches

ASSUME HomeAssumption == Home \in Dirs /\ "none" \notin Dirs
ASSUME BoundAssumption == Commands \in Nat /\ Faults \in Nat

VARIABLES
    files,    \* the folder in icloud.env and in the unit, and the menu entry
    account,  \* config.yaml: absent, without a user or with one; the saved session
    svc,      \* the state of the unit: off, running, or waiting to be restarted
    daemon,   \* where the daemon is, and the folder it was given
    mnt,      \* what is mounted at each folder
    cache,    \* whether there is a cache
    unread,   \* whether the log has lines that the watcher has not read
    watcher,  \* the sidebar watcher
    label,    \* the folders whose bookmark has a busy label
    tool,     \* the command that runs, and the steps it has still to do
    hist,     \* history: whether the daemon ran as the command was given, whether
              \* a label can be left over from another folder or another watcher, and
              \* whether a purge has gone half-way and left the session
    left      \* what is left of the bounds

vars == <<files, account, svc, daemon, mnt, cache, unread, watcher, label, tool, hist, left>>

NoDaemon == [pc |-> "none", at |-> Home]

Running == svc = "running"
Recorded == files.env

\* With a session, or read-only.
Mounted == daemon.pc \in {"serving", "cached"}
\* Watcher::mount
Labelled == IF files.env = "none" THEN Home ELSE files.env

-----------------------------------------------------------------------------
\* Mutant: a dead mount is not seen to be one.
Detached_live(m, d) == IF d = "none" THEN m ELSE [m EXCEPT ![d] = IF @ = "live" THEN "none" ELSE @]

\* fusermount -uz, and cleanup_mountpoint: a live or a dead mount is taken away.
Detached(m, d) == IF d = "none" THEN m ELSE [m EXCEPT ![d] = "none"]

\* ... and a daemon that loses its mount is on its way out.
Losing(d) == IF Mounted /\ daemon.at = d THEN [daemon EXCEPT !.pc = "leaving"] ELSE daemon

\* ExecStartPre, and then ExecStart with the folder of the unit.  A log that is
\* too large is moved aside: what was not read of it is never read.
Launch ==
    /\ svc' = "running" /\ daemon' = [pc |-> "starting", at |-> files.unit]
    /\ mnt' = Detached(mnt, files.unit)
    /\ unread' \in {unread, FALSE}

\* The line of the bookmark is written; a plain one is as good as none.
Relabelled(busy) == IF busy THEN label \union {Labelled} ELSE label \ {Labelled}

\* Mutant: the watcher leaves the label as it is.
Reset_none == label

\* Watcher::reset
Reset == Relabelled(FALSE)

\* The watcher is WantedBy the service and PartOf it, and begins at the end of the log.
Watches == /\ watcher' = IF watcher = "off" THEN "idle" ELSE watcher
           /\ UNCHANGED label
Unwatches == /\ watcher' = IF watcher = "none" THEN "none" ELSE "off"
             /\ label' = IF watcher \in {"idle", "busy"} THEN Reset ELSE label

-----------------------------------------------------------------------------
\* The commands.
Start == <<"cleanup", "start">>
Stop == <<"stop", "cleanup">>

Restart == Stop \o Start

\* Mutant: the service is looked at after it was stopped.
Clear_late == <<"note", "stop", "active", "cleanup", "remove", "again">>

\* Mutant: the cache is removed before the service is stopped.
Clear_early == <<"note", "active", "remove", "stop", "cleanup", "again">>

Clear == <<"note", "active", "stop", "cleanup", "remove", "again">>

\* Mutant: the watcher is forgotten.
Uninstall_watched == <<"unmenu", "stop", "disable", "cleanup">>

Uninstall == <<"unwatch", "unmenu", "stop", "disable", "cleanup">>

Program ==
    [start |-> Start, stop |-> Stop, restart |-> Restart, clear |-> Clear,
     uninstall |-> Uninstall, purge |-> Uninstall \o <<"purge">>,
     quickstart |-> <<"init", "configure", "auth">> \o Start \o <<"menu">>,
     install |-> <<"init", "configure", "auth">> \o Start \o <<"ignore", "watch", "menu">>,
     init |-> <<"init">>, configure |-> <<"configure">>, auth |-> <<"auth">>, watch |-> <<"watch">>, unwatch |-> <<"unwatch">>,
     ignore |-> <<"ignore">>, unmenu |-> <<"unmenu">>]

Command ==
    /\ tool.todo = <<>> /\ left.commands > 0
    /\ \E op \in DOMAIN Program :
           /\ tool' = [op |-> op, todo |-> Program[op], was |-> FALSE]
           /\ hist' = [hist EXCEPT !.ran = daemon.pc = "starting" \/ Mounted]
    /\ left' = [left EXCEPT !.commands = @ - 1]
    /\ UNCHANGED <<files, account, svc, daemon, mnt, cache, unread, watcher, label>>

At(step) == tool.todo # <<>> /\ Head(tool.todo) = step
Goes == tool' = [tool EXCEPT !.todo = Tail(@)] /\ UNCHANGED left
Fails == tool' = [tool EXCEPT !.op = "failed", !.todo = <<>>] /\ UNCHANGED left

\* setup::init: icloud.env and the unit are written, for the folder that was asked
\* for or the fallback, and config.yaml if there is none.
InitStep ==
    /\ At("init") /\ Goes
    /\ \E d \in Dirs :
           /\ files' = [files EXCEPT !.env = d, !.unit = d]
           /\ hist' = [hist EXCEPT !.stale = @ \/ (Recorded # "none" /\ Recorded # d)]
    /\ account' = [account EXCEPT !.config = IF @ = "none" THEN "blank" ELSE @]
    /\ UNCHANGED <<svc, daemon, mnt, cache, unread, watcher, label>>

\* setup::configure
Configure ==
    /\ At("configure") /\ Goes
    /\ account' = [account EXCEPT !.config = "named"]
    /\ UNCHANGED <<files, svc, daemon, mnt, cache, unread, watcher, label, hist>>

\* commands::authenticate: it needs the name of a user, and may fail (SignIn).
Authenticate ==
    /\ At("auth")
    /\ \/ account.config = "named" /\ Goes /\ account' = [account EXCEPT !.session = TRUE]
       \/ Fails /\ UNCHANGED account
    /\ UNCHANGED <<files, svc, daemon, mnt, cache, unread, watcher, label, hist>>

\* Where the folder is a dead mount still, or cannot be made, it is an error.
Cleanup ==
    /\ At("cleanup")
    /\ \/ (Goes \/ Fails) /\ mnt' = Detached(mnt, Recorded) /\ daemon' = Losing(Recorded)
       \/ Fails /\ UNCHANGED <<mnt, daemon>>
    /\ UNCHANGED <<files, account, svc, cache, unread, watcher, label, hist>>

SystemctlStart ==
    /\ At("start")
    /\ IF files.unit = "none" THEN Fails /\ UNCHANGED <<svc, daemon, mnt, unread, watcher, label>>
       ELSE /\ Goes
            /\ IF Running THEN UNCHANGED <<svc, daemon, mnt, unread, watcher, label>> ELSE Launch /\ Watches
    /\ UNCHANGED <<files, account, cache, hist>>

\* ExecStop detaches the unit's folder, the daemon gets SIGTERM and takes its own
\* mount down, unless it is killed after TimeoutStopSec; ExecStopPost.
Ended(m, killed) ==
    Detached(IF ~Mounted /\ daemon.pc # "leaving" THEN m
             ELSE [m EXCEPT ![daemon.at] =
                     IF @ # "live" THEN @ ELSE IF killed THEN "dead" ELSE "none"],
             files.unit)

\* What it returns is not looked at.
SystemctlStop ==
    /\ At("stop") /\ Goes
    /\ svc' = "off" /\ daemon' = NoDaemon
    /\ \E killed \in BOOLEAN : mnt' = Ended(Detached(mnt, files.unit), killed)
    /\ IF svc = "off" THEN UNCHANGED <<watcher, label>> ELSE Unwatches
    /\ UNCHANGED <<files, account, cache, unread, hist>>

\* uninstall: the unit is removed, and systemd reloads.
Disable ==
    /\ At("disable") /\ Goes
    /\ files' = [files EXCEPT !.unit = "none"]
    /\ UNCHANGED <<account, svc, daemon, mnt, cache, unread, watcher, label, hist>>

\* commands::clear_cache: the user is told what is lost, and may cancel.
Note ==
    /\ At("note") /\ (Goes \/ Fails)
    /\ UNCHANGED <<files, account, svc, daemon, mnt, cache, unread, watcher, label, hist>>

\* setup::clear_cache
IsActive ==
    /\ At("active") /\ tool' = [tool EXCEPT !.todo = Tail(@), !.was = Running]
    /\ UNCHANGED <<files, account, svc, daemon, mnt, cache, unread, watcher, label, hist, left>>

\* The cache is removed, or part of it and the command ends.
Remove ==
    /\ At("remove")
    /\ \/ Goes /\ cache' = FALSE
       \/ Fails /\ cache' \in {cache, FALSE}
    /\ UNCHANGED <<files, account, svc, daemon, mnt, unread, watcher, label, hist>>

StartAgain ==
    /\ At("again") /\ tool' = [tool EXCEPT !.todo = IF tool.was THEN Start ELSE <<>>]
    /\ UNCHANGED <<files, account, svc, daemon, mnt, cache, unread, watcher, label, hist, left>>

\* Mutant: the session is kept.
Purge_session ==
    /\ At("purge") /\ Goes
    /\ files' = [files EXCEPT !.env = "none"] /\ account' = [account EXCEPT !.config = "none"]
    /\ cache' = FALSE
    /\ UNCHANGED <<svc, daemon, mnt, unread, watcher, label, hist>>

\* uninstall --purge: config.yaml, icloud.env, the session, the cache and what else
\* there is are deleted in this order, until all are gone or one cannot be.
Purge ==
    /\ At("purge")
    /\ \E gone \in 0 .. 5 :
           /\ IF gone = 5 THEN Goes ELSE Fails
           /\ account' = [config  |-> IF gone > 0 THEN "none" ELSE account.config,
                          session |-> account.session /\ gone < 3]
           /\ files' = [files EXCEPT !.env = IF gone > 1 THEN "none" ELSE @]
           /\ cache' = (cache /\ gone < 4)
           /\ hist' = [hist EXCEPT !.torn = @ \/ (account.session /\ gone \in 1 .. 2)]
    /\ UNCHANGED <<svc, daemon, mnt, unread, watcher, label>>

\* install_status_service starts the watcher, whether the service runs or not.
InstallWatcher ==
    /\ At("watch") /\ Goes
    /\ IF watcher \in {"none", "off"} THEN watcher' = "idle" /\ unread' = FALSE ELSE UNCHANGED <<watcher, unread>>
    /\ UNCHANGED <<files, account, svc, daemon, mnt, cache, label, hist>>

RemoveWatcher ==
    /\ At("unwatch") /\ Goes
    /\ watcher' = "none"
    /\ label' = IF watcher \in {"idle", "busy"} THEN Reset ELSE label
    /\ UNCHANGED <<files, account, svc, daemon, mnt, cache, unread, hist>>

\* install_menu and remove_menu
Menu ==
    /\ At("menu") \/ At("unmenu")
    /\ Goes /\ files' = [files EXCEPT !.menu = At("menu")]
    /\ UNCHANGED <<account, svc, daemon, mnt, cache, unread, watcher, label, hist>>

\* The marker for the indexer: a mirror has it from the start (Mirror::open).
TrackerIgnore ==
    /\ At("ignore") /\ Goes
    /\ UNCHANGED <<files, account, svc, daemon, mnt, cache, unread, watcher, label, hist>>

Step ==
    \/ InitStep \/ Configure \/ Authenticate \/ Cleanup \/ SystemctlStart \/ SystemctlStop \/ Disable
    \/ Note \/ IsActive \/ Remove \/ StartAgain \/ Purge
    \/ InstallWatcher \/ RemoveWatcher \/ Menu \/ TrackerIgnore

-----------------------------------------------------------------------------
\* The daemon.
Inside == UNCHANGED <<files, account, tool>>

\* It opens the cache, connects, cleans its folder up and mounts it; a folder
\* with a dead mount cannot be mounted.
Mount ==
    /\ daemon.pc = "starting" /\ Detached(mnt, daemon.at)[daemon.at] = "none"
    /\ account.config = "named"
    /\ \E pc \in IF account.session THEN {"serving", "cached"} ELSE {"cached"} :
           daemon' = [daemon EXCEPT !.pc = pc]
    /\ mnt' = [mnt EXCEPT ![daemon.at] = "live"]
    /\ cache' = TRUE
    /\ UNCHANGED <<svc, unread, watcher, label, hist, left>> /\ Inside

\* It ends: systemd restarts it after an error only (Restart=on-failure).
Ends(killed, error) ==
    /\ mnt' = Ended(mnt, killed) /\ daemon' = NoDaemon
    /\ svc' = IF error THEN "waiting" ELSE "off"

\* It cannot start: it has no user, cannot mount its folder, or cannot reach
\* iCloud.  The cache may have been opened before.
StartFails ==
    /\ daemon.pc = "starting" /\ Ends(FALSE, TRUE)
    /\ \/ (account.config # "named" \/ Detached(mnt, daemon.at)[daemon.at] # "none") /\ UNCHANGED left
       \/ left.faults > 0 /\ left' = [left EXCEPT !.faults = @ - 1]
    /\ cache' \in IF account.config = "none" THEN {cache} ELSE {cache, TRUE}
    /\ hist' = [hist EXCEPT !.ran = FALSE]
    /\ UNCHANGED <<unread, watcher, label>> /\ Inside

Crash ==
    /\ Mounted /\ Ends(TRUE, TRUE)
    /\ left.faults > 0 /\ left' = [left EXCEPT !.faults = @ - 1]
    /\ hist' = [hist EXCEPT !.ran = FALSE]
    /\ UNCHANGED <<cache, unread, watcher, label>> /\ Inside

\* The user detaches the mount.
Eject ==
    /\ Mounted /\ mnt' = Detached(mnt, daemon.at) /\ daemon' = Losing(daemon.at)
    /\ left.faults > 0 /\ left' = [left EXCEPT !.faults = @ - 1]
    /\ hist' = [hist EXCEPT !.ran = FALSE]
    /\ UNCHANGED <<svc, cache, unread, watcher, label>> /\ Inside

\* Without its mount: the session ends, the engine is shut down, and all is well.
Leave ==
    /\ daemon.pc = "leaving" /\ Ends(FALSE, FALSE)
    /\ Unwatches
    /\ UNCHANGED <<cache, unread, hist, left>> /\ Inside

\* systemd, after RestartSec.
Respawn ==
    /\ svc = "waiting" /\ Launch
    /\ UNCHANGED <<cache, watcher, label, hist, left>> /\ Inside

\* The engine lists, downloads or uploads something, and logs it.
Works ==
    /\ daemon.pc = "serving" /\ watcher \in {"idle", "busy"} /\ ~unread
    /\ unread' = TRUE
    /\ UNCHANGED <<svc, daemon, mnt, cache, watcher, label, hist, left>> /\ Inside

-----------------------------------------------------------------------------
\* The watcher.  StatusMonitor::poll finds an activity in the new lines, or has
\* found none for a while.
Noticed == /\ watcher \in {"idle", "busy"} /\ unread
           /\ watcher' = "busy" /\ unread' = FALSE
Silent == /\ watcher = "busy" /\ ~unread
          /\ watcher' = "idle" /\ UNCHANGED unread

\* Then the label is written.  If that fails the watcher does not try again.
Tick ==
    /\ Noticed \/ Silent
    /\ \/ label' = Relabelled(watcher' = "busy") /\ UNCHANGED <<hist, left>>
       \/ /\ left.faults > 0 /\ left' = [left EXCEPT !.faults = @ - 1]
          /\ hist' = [hist EXCEPT !.stale = TRUE] /\ UNCHANGED label
    /\ UNCHANGED <<svc, daemon, mnt, cache>> /\ Inside

\* It is killed and started again, from the end of the log.
WatcherCrash ==
    /\ watcher \in {"idle", "busy"} /\ watcher' = "idle" /\ unread' = FALSE
    /\ left.faults > 0 /\ left' = [left EXCEPT !.faults = @ - 1]
    /\ hist' = [hist EXCEPT !.stale = TRUE]
    /\ UNCHANGED <<svc, daemon, mnt, cache, label>> /\ Inside

Init ==
    /\ files = [env |-> "none", unit |-> "none", menu |-> FALSE]
    /\ account = [config |-> "none", session |-> FALSE]
    /\ svc = "off" /\ daemon = NoDaemon
    /\ mnt = [d \in Dirs |-> "none"] /\ cache = FALSE /\ unread = FALSE
    /\ watcher = "none" /\ label = {}
    /\ tool = [op |-> "none", todo |-> <<>>, was |-> FALSE]
    /\ hist = [ran |-> FALSE, stale |-> FALSE, torn |-> FALSE]
    /\ left = [commands |-> Commands, faults |-> Faults]

Next ==
    \/ Command \/ Step
    \/ Mount \/ StartFails \/ Crash \/ Eject \/ Leave \/ Respawn \/ Works
    \/ Tick \/ WatcherCrash

Spec == Init /\ [][Next]_vars

\* Commands go on, systemd restarts the daemon, and the daemon gets where it goes.
FairSpec ==
    /\ Spec /\ WF_vars(Step) /\ WF_vars(Respawn) /\ WF_vars(Mount \/ StartFails) /\ WF_vars(Leave)
    /\ WF_vars(Tick)

-----------------------------------------------------------------------------
Done(op) == tool.op = op /\ tool.todo = <<>>

\* A daemon that failed serves again, unless the service is stopped: what it
\* left behind is no obstacle (service_unit, cleanup_mountpoint).
ComesBack == svc = "waiting" /\ account.config = "named" ~> Mounted \/ svc = "off" \/ account.config # "named"

\* `icloudctl clear-cache` that reports success has started the service again if it
\* ran (setup.rs clear_cache).  If it crashed or waited to be restarted, it may not.
ClearedRestarts ==
    [][tool.todo # <<>> /\ Done("clear")' /\ hist.ran => svc' # "off"]_vars

\* The cache is removed under no daemon that uses it (setup.rs clear_cache, uninstall).
CacheNotInUse == [][cache /\ ~cache' => daemon.pc = "none"]_vars

\* What `icloudctl doctor` says of an installation without problems.
Healthy == /\ account.config # "none" /\ Recorded # "none" /\ files.unit # "none"
           /\ Recorded # "none" => mnt[Recorded] # "dead"
           /\ account.session

\* If it finds none, a daemon that starts knows its user and can mount its folder,
\* though nothing looks at the user's name (setup.rs doctor, connect.rs client_for),
\* unless a purge has left a session without its configuration.
DoctorKnows == Healthy => (hist.torn \/ account.config = "named") /\ files.unit = Recorded

\* A busy label is one the watcher still knows about, and will make plain, unless
\* the folder was changed or the watcher was killed (status.rs reset).
LabelKnown == hist.stale \/ label \subseteq (IF watcher = "busy" THEN {Labelled} ELSE {})

\* `icloudctl uninstall --purge` that reports success leaves no mount, label, watcher
\* or cache behind (setup.rs uninstall), again for one folder.
PurgedClean ==
    Done("purge") /\ ~hist.stale =>
        /\ svc = "off" /\ files = [env |-> "none", unit |-> "none", menu |-> FALSE]
        /\ \A d \in Dirs : mnt[d] = "none"
        /\ watcher = "none" /\ label = {} /\ ~cache
=============================================================================
