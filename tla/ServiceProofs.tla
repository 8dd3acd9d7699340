--------------------------- MODULE ServiceProofs ---------------------------
(***************************************************************************)
(* What the commands promise, for every set of folders and any number of   *)
(* commands and faults.  A promise about the end of a command needs to     *)
(* know how far it has come: Position says which steps can be left, and    *)
(* Progress what the steps that are done have achieved and nothing that    *)
(* goes on beside the command - the daemon, systemd, the watcher - undoes. *)
(***************************************************************************)
EXTENDS Service, SequenceTheorems, TLAPS

Ops == DOMAIN Program \union {"none", "failed"}
Steps == {"init", "configure", "auth", "cleanup", "start", "stop", "disable", "note", "active",
          "remove", "again", "purge", "watch", "unwatch", "menu", "unmenu", "ignore"}

TypeOK ==
    /\ files \in [env : Dirs \union {"none"}, unit : Dirs \union {"none"}, menu : BOOLEAN]
    /\ account \in [config : {"none", "blank", "named"}, session : BOOLEAN]
    /\ svc \in {"off", "running", "waiting"}
    /\ daemon \in [pc : {"none", "starting", "serving", "cached", "leaving"}, at : Dirs]
    /\ mnt \in [Dirs -> {"none", "live", "dead"}]
    /\ cache \in BOOLEAN /\ unread \in BOOLEAN
    /\ watcher \in {"none", "off", "idle", "busy"} /\ label \in SUBSET Dirs
    /\ tool \in [op : Ops, todo : Seq(Steps), was : BOOLEAN]
    /\ hist \in [ran : BOOLEAN, stale : BOOLEAN, torn : BOOLEAN]
    /\ left \in [commands : Nat, faults : Nat]

-----------------------------------------------------------------------------
\* A session is saved for a user only, but for one that a purge has left.
SessionNamed == account.session => hist.torn \/ account.config = "named"

\* The unit is of the folder that is recorded.
OneFolder == files.unit # "none" => files.unit = files.env

\* The daemon is there while the unit runs, and the unit does so only if it exists.
UnitRuns ==
    /\ daemon.pc # "none" <=> svc = "running"
    /\ svc # "off" => files.unit # "none"

\* While no folder is recorded the watcher has seen nothing.
NothingSeen == files.env = "none" => watcher = "none" \/ (watcher = "idle" /\ ~unread)

\* The daemon's mount, and what an earlier one left, is at the folder that is recorded.
Placed == ~hist.stale => /\ daemon.pc # "none" => daemon.at = files.env
                         /\ \A d \in Dirs : mnt[d] # "none" => d = files.env

\* The steps that can be left.
ClearTodo == {<<"note", "active", "stop", "cleanup", "remove", "again">>,
              <<"active", "stop", "cleanup", "remove", "again">>,
              <<"stop", "cleanup", "remove", "again">>,
              <<"cleanup", "remove", "again">>, <<"remove", "again">>, <<"again">>,
              <<"cleanup", "start">>, <<"start">>, <<>>}
UninstallTodo == {<<"unwatch", "unmenu", "stop", "disable", "cleanup">>,
                  <<"unmenu", "stop", "disable", "cleanup">>, <<"stop", "disable", "cleanup">>,
                  <<"disable", "cleanup">>, <<"cleanup">>, <<>>}
PurgeTodo == {<<"unwatch", "unmenu", "stop", "disable", "cleanup", "purge">>,
              <<"unmenu", "stop", "disable", "cleanup", "purge">>,
              <<"stop", "disable", "cleanup", "purge">>,
              <<"disable", "cleanup", "purge">>, <<"cleanup", "purge">>, <<"purge">>, <<>>}
PlainSteps == {"init", "configure", "auth", "cleanup", "start", "stop",
               "watch", "unwatch", "menu", "unmenu", "ignore"}

Position ==
    /\ tool.op = "clear" => tool.todo \in ClearTodo
    /\ tool.op = "uninstall" => tool.todo \in UninstallTodo
    /\ tool.op = "purge" => tool.todo \in PurgeTodo
    /\ tool.op \notin {"clear", "uninstall", "purge"} => tool.todo \in Seq(PlainSteps)

\* What the steps that are done have achieved.
ClearProgress ==
    tool.op = "clear" =>
        /\ tool.todo \in {<<"cleanup", "remove", "again">>, <<"remove", "again">>, <<"again">>,
                          <<"cleanup", "start">>, <<"start">>} => svc = "off"
        /\ hist.ran /\ tool.todo # <<>> => files.unit # "none"
        /\ hist.ran /\ tool.todo # <<>> /\ Head(tool.todo) \in {"note", "active"} =>
               daemon.pc = "starting" \/ Mounted
        /\ hist.ran /\ tool.todo \in {<<"stop", "cleanup", "remove", "again">>,
                          <<"cleanup", "remove", "again">>, <<"remove", "again">>, <<"again">>} => tool.was

UninstallProgress == tool.op = "uninstall" /\ tool.todo = <<"disable", "cleanup">> => svc = "off"

PurgeProgress ==
    tool.op = "purge" =>
        /\ Len(tool.todo) <= 5 => watcher = "none"
        /\ Len(tool.todo) <= 4 => ~files.menu
        /\ Len(tool.todo) <= 3 => svc = "off"
        /\ Len(tool.todo) <= 2 => files.unit = "none"
        /\ Len(tool.todo) <= 1 => (~hist.stale => \A d \in Dirs : mnt[d] = "none")
        /\ Len(tool.todo) = 0 => files.env = "none" /\ ~cache

IInv ==
    /\ TypeOK /\ SessionNamed /\ OneFolder /\ UnitRuns /\ NothingSeen /\ LabelKnown /\ Placed
    /\ Position /\ ClearProgress /\ UninstallProgress /\ PurgeProgress

-----------------------------------------------------------------------------
(* The programs of steps. *)

\* The programs but that of `icloudctl uninstall` and `icloudctl clear-cache`.
LEMMA PlainPrograms ==
    ASSUME NEW op \in DOMAIN Program, op \notin {"clear", "uninstall", "purge"}
    PROVE  Program[op] \in Seq(PlainSteps)
<1>1. Start \in Seq(PlainSteps) /\ Stop \in Seq(PlainSteps)
    BY DEF Start, Stop, PlainSteps
<1>2. /\ <<"init", "configure", "auth">> \in Seq(PlainSteps) /\ <<"menu">> \in Seq(PlainSteps)
      /\ <<"ignore", "watch", "menu">> \in Seq(PlainSteps)
    BY DEF PlainSteps
<1>3. Restart \in Seq(PlainSteps)
    BY <1>1, ConcatProperties DEF Restart
<1>4. <<"init", "configure", "auth">> \o Start \in Seq(PlainSteps)
    BY <1>1, <1>2, ConcatProperties
<1>5. /\ (<<"init", "configure", "auth">> \o Start) \o <<"menu">> \in Seq(PlainSteps)
      /\ (<<"init", "configure", "auth">> \o Start) \o <<"ignore", "watch", "menu">> \in Seq(PlainSteps)
    BY <1>2, <1>4, ConcatProperties
<1>6. \A p \in PlainSteps : <<p>> \in Seq(PlainSteps)
    OBVIOUS
<1> HIDE DEF Start, Stop, Restart
<1>7. op = "start" => Program[op] = Start
    BY DEF Program
<1>8. op = "stop" => Program[op] = Stop
    BY DEF Program
<1>9. op = "restart" => Program[op] = Restart
    BY DEF Program
<1>10. op = "quickstart" => Program[op] = (<<"init", "configure", "auth">> \o Start) \o <<"menu">>
    BY DEF Program
<1>11. op = "install" => Program[op] = (<<"init", "configure", "auth">> \o Start) \o <<"ignore", "watch", "menu">>
    BY DEF Program
<1>12. op \in {"init", "configure", "auth", "watch", "unwatch", "ignore", "unmenu"} => Program[op] = <<op>>
    BY DEF Program
<1>13. op \in {"start", "stop", "restart", "quickstart", "install"}
                \union {"init", "configure", "auth", "watch", "unwatch", "ignore", "unmenu"}
    BY DEF Program
<1>14. op \in {"init", "configure", "auth", "watch", "unwatch", "ignore", "unmenu"} => op \in PlainSteps
    BY DEF PlainSteps
<1> QED BY <1>1, <1>3, <1>5, <1>6, <1>7, <1>8, <1>9, <1>10, <1>11, <1>12, <1>13, <1>14, Zenon

\* `icloudctl uninstall --purge` is an uninstall with one more step.
LEMMA PurgeIs == Uninstall \o <<"purge">> = <<"unwatch", "unmenu", "stop", "disable", "cleanup", "purge">>
<1> DEFINE one == <<"purge">>
           six == <<"unwatch", "unmenu", "stop", "disable", "cleanup", "purge">>
<1>1. Uninstall \in Seq(Steps) /\ one \in Seq(Steps) /\ six \in Seq(Steps)
    BY DEF Uninstall, Steps
<1>2. /\ Len(Uninstall) = 5 /\ Len(one) = 1 /\ one[1] = "purge"
      /\ Uninstall[1] = "unwatch" /\ Uninstall[2] = "unmenu" /\ Uninstall[3] = "stop"
      /\ Uninstall[4] = "disable" /\ Uninstall[5] = "cleanup"
    BY DEF Uninstall
<1>3. /\ Len(six) = 6
      /\ six[1] = "unwatch" /\ six[2] = "unmenu" /\ six[3] = "stop"
      /\ six[4] = "disable" /\ six[5] = "cleanup" /\ six[6] = "purge"
    OBVIOUS
<1> HIDE DEF one, six
<1>4. /\ Uninstall \o one \in Seq(Steps) /\ Len(Uninstall \o one) = 6
      /\ \A i \in 1..6 : (Uninstall \o one)[i] = IF i <= 5 THEN Uninstall[i] ELSE one[i - 5]
    <2>1. /\ Uninstall \o one \in Seq(Steps)
          /\ Len(Uninstall \o one) = Len(Uninstall) + Len(one)
          /\ \A i \in 1..Len(Uninstall) + Len(one) :
                 (Uninstall \o one)[i] = IF i <= Len(Uninstall) THEN Uninstall[i] ELSE one[i - Len(Uninstall)]
        BY <1>1, ConcatProperties
    <2> QED BY <1>2, <2>1
<1>5. \A i \in 1..6 : (Uninstall \o one)[i] = six[i]
    <2>1. \A i \in 1..6 : i = 1 \/ i = 2 \/ i = 3 \/ i = 4 \/ i = 5 \/ i = 6 OBVIOUS
    <2> QED BY <1>2, <1>3, <1>4, <2>1
<1>6. Uninstall \o one = six
    BY <1>1, <1>3, <1>4, <1>5, SeqEqual, Zenon
<1> QED BY <1>6 DEF one, six

LEMMA Programs ==
    ASSUME NEW op \in DOMAIN Program
    PROVE  /\ op = "clear" => Program[op] = <<"note", "active", "stop", "cleanup", "remove", "again">>
           /\ op = "uninstall" => Program[op] = <<"unwatch", "unmenu", "stop", "disable", "cleanup">>
           /\ op = "purge" => Program[op] = <<"unwatch", "unmenu", "stop", "disable", "cleanup", "purge">>
           /\ Program[op] \in Seq(Steps)
<1>1. op = "clear" => Program[op] = Clear
    BY DEF Program
<1>2. op = "uninstall" => Program[op] = Uninstall
    BY DEF Program
<1>3. op = "purge" => Program[op] = Uninstall \o <<"purge">>
    BY DEF Program
<1>4. op \notin {"clear", "uninstall", "purge"} => Program[op] \in Seq(Steps)
    BY PlainPrograms DEF PlainSteps, Steps
<1>5. Clear \in Seq(Steps) /\ Uninstall \in Seq(Steps)
      /\ <<"unwatch", "unmenu", "stop", "disable", "cleanup", "purge">> \in Seq(Steps)
    BY DEF Clear, Uninstall, Steps
<1>6. /\ Clear = <<"note", "active", "stop", "cleanup", "remove", "again">>
      /\ Uninstall = <<"unwatch", "unmenu", "stop", "disable", "cleanup">>
    BY DEF Clear, Uninstall
<1> HIDE DEF Clear, Uninstall
<1> QED BY ONLY <1>1, <1>2, <1>3, <1>4, <1>5, <1>6, PurgeIs, Zenon

\* A step less.
LEMMA ClearOn ==
    ASSUME NEW t \in ClearTodo, t # <<>>
    PROVE  /\ Tail(t) \in ClearTodo
           /\ Head(t) = "note" => t = <<"note", "active", "stop", "cleanup", "remove", "again">>
           /\ Head(t) = "active" => t = <<"active", "stop", "cleanup", "remove", "again">>
           /\ Head(t) = "stop" => t = <<"stop", "cleanup", "remove", "again">>
           /\ Head(t) = "cleanup" => t \in {<<"cleanup", "remove", "again">>, <<"cleanup", "start">>}
           /\ Head(t) = "remove" => t = <<"remove", "again">>
           /\ Head(t) = "again" => t = <<"again">>
           /\ Head(t) = "start" => t = <<"start">>
           /\ Head(t) \in {"note", "active", "stop", "cleanup", "remove", "again", "start"}
<1>1. CASE t = <<"note", "active", "stop", "cleanup", "remove", "again">>
    <2>1. Tail(t) = <<"active", "stop", "cleanup", "remove", "again">> /\ Head(t) = "note" BY <1>1
    <2>2. Tail(t) \in ClearTodo BY <2>1 DEF ClearTodo
    <2> QED BY ONLY <1>1, <2>1, <2>2
<1>2. CASE t = <<"active", "stop", "cleanup", "remove", "again">>
    <2>1. Tail(t) = <<"stop", "cleanup", "remove", "again">> /\ Head(t) = "active" BY <1>2
    <2>2. Tail(t) \in ClearTodo BY <2>1 DEF ClearTodo
    <2> QED BY ONLY <1>2, <2>1, <2>2
<1>3. CASE t = <<"stop", "cleanup", "remove", "again">>
    <2>1. Tail(t) = <<"cleanup", "remove", "again">> /\ Head(t) = "stop" BY <1>3
    <2>2. Tail(t) \in ClearTodo BY <2>1 DEF ClearTodo
    <2> QED BY ONLY <1>3, <2>1, <2>2
<1>4. CASE t = <<"cleanup", "remove", "again">>
    <2>1. Tail(t) = <<"remove", "again">> /\ Head(t) = "cleanup" BY <1>4
    <2>2. Tail(t) \in ClearTodo BY <2>1 DEF ClearTodo
    <2> QED BY ONLY <1>4, <2>1, <2>2
<1>5. CASE t = <<"remove", "again">>
    <2>1. Tail(t) = <<"again">> /\ Head(t) = "remove" BY <1>5
    <2>2. Tail(t) \in ClearTodo BY <2>1 DEF ClearTodo
    <2> QED BY ONLY <1>5, <2>1, <2>2
<1>6. CASE t = <<"again">>
    <2>1. Tail(t) = <<>> /\ Head(t) = "again" BY <1>6
    <2>2. Tail(t) \in ClearTodo BY <2>1 DEF ClearTodo
    <2> QED BY ONLY <1>6, <2>1, <2>2
<1>7. CASE t = <<"cleanup", "start">>
    <2>1. Tail(t) = <<"start">> /\ Head(t) = "cleanup" BY <1>7
    <2>2. Tail(t) \in ClearTodo BY <2>1 DEF ClearTodo
    <2> QED BY ONLY <1>7, <2>1, <2>2
<1>8. CASE t = <<"start">>
    <2>1. Tail(t) = <<>> /\ Head(t) = "start" BY <1>8
    <2>2. Tail(t) \in ClearTodo BY <2>1 DEF ClearTodo
    <2> QED BY ONLY <1>8, <2>1, <2>2
<1> QED BY <1>1, <1>2, <1>3, <1>4, <1>5, <1>6, <1>7, <1>8, Zenon DEF ClearTodo

LEMMA UninstallOn ==
    ASSUME NEW t \in UninstallTodo, t # <<>>
    PROVE  /\ Tail(t) \in UninstallTodo
           /\ Tail(t) = <<"disable", "cleanup">> => Head(t) = "stop"
           /\ Head(t) = "disable" => t = <<"disable", "cleanup">>
           /\ Head(t) \in {"unwatch", "unmenu", "stop", "disable", "cleanup"}
<1>1. CASE t = <<"unwatch", "unmenu", "stop", "disable", "cleanup">>
    <2>1. Tail(t) = <<"unmenu", "stop", "disable", "cleanup">> /\ Head(t) = "unwatch" BY <1>1
    <2>2. Tail(t) \in UninstallTodo BY <2>1 DEF UninstallTodo
    <2>3. Tail(t) = <<"disable", "cleanup">> => Head(t) = "stop" BY <2>1
    <2> QED BY ONLY <1>1, <2>1, <2>2, <2>3
<1>2. CASE t = <<"unmenu", "stop", "disable", "cleanup">>
    <2>1. Tail(t) = <<"stop", "disable", "cleanup">> /\ Head(t) = "unmenu" BY <1>2
    <2>2. Tail(t) \in UninstallTodo BY <2>1 DEF UninstallTodo
    <2>3. Tail(t) = <<"disable", "cleanup">> => Head(t) = "stop" BY <2>1
    <2> QED BY ONLY <1>2, <2>1, <2>2, <2>3
<1>3. CASE t = <<"stop", "disable", "cleanup">>
    <2>1. Tail(t) = <<"disable", "cleanup">> /\ Head(t) = "stop" BY <1>3
    <2>2. Tail(t) \in UninstallTodo BY <2>1 DEF UninstallTodo
    <2>3. Tail(t) = <<"disable", "cleanup">> => Head(t) = "stop" BY <2>1
    <2> QED BY ONLY <1>3, <2>1, <2>2, <2>3
<1>4. CASE t = <<"disable", "cleanup">>
    <2>1. Tail(t) = <<"cleanup">> /\ Head(t) = "disable" BY <1>4
    <2>2. Tail(t) \in UninstallTodo BY <2>1 DEF UninstallTodo
    <2>3. Tail(t) = <<"disable", "cleanup">> => Head(t) = "stop" BY <2>1
    <2> QED BY ONLY <1>4, <2>1, <2>2, <2>3
<1>5. CASE t = <<"cleanup">>
    <2>1. Tail(t) = <<>> /\ Head(t) = "cleanup" BY <1>5
    <2>2. Tail(t) \in UninstallTodo BY <2>1 DEF UninstallTodo
    <2>3. Tail(t) = <<"disable", "cleanup">> => Head(t) = "stop" BY <2>1
    <2> QED BY ONLY <1>5, <2>1, <2>2, <2>3
<1> QED BY <1>1, <1>2, <1>3, <1>4, <1>5, Zenon DEF UninstallTodo

LEMMA PurgeOn ==
    ASSUME NEW t \in PurgeTodo, t # <<>>
    PROVE  /\ Tail(t) \in PurgeTodo
           /\ Len(t) \in 1..6 /\ Len(Tail(t)) = Len(t) - 1
           /\ Head(t) = CASE Len(t) = 6 -> "unwatch" [] Len(t) = 5 -> "unmenu" [] Len(t) = 4 -> "stop"
                          [] Len(t) = 3 -> "disable" [] Len(t) = 2 -> "cleanup" [] Len(t) = 1 -> "purge"
<1>1. CASE t = <<"unwatch", "unmenu", "stop", "disable", "cleanup", "purge">>
    <2>1. Tail(t) = <<"unmenu", "stop", "disable", "cleanup", "purge">> /\ Head(t) = "unwatch" BY <1>1
    <2>2. Len(t) = 6 /\ Len(Tail(t)) = 5 BY <1>1, <2>1
    <2>3. Tail(t) \in PurgeTodo BY <2>1 DEF PurgeTodo
    <2> QED BY ONLY <2>1, <2>2, <2>3
<1>2. CASE t = <<"unmenu", "stop", "disable", "cleanup", "purge">>
    <2>1. Tail(t) = <<"stop", "disable", "cleanup", "purge">> /\ Head(t) = "unmenu" BY <1>2
    <2>2. Len(t) = 5 /\ Len(Tail(t)) = 4 BY <1>2, <2>1
    <2>3. Tail(t) \in PurgeTodo BY <2>1 DEF PurgeTodo
    <2> QED BY ONLY <2>1, <2>2, <2>3
<1>3. CASE t = <<"stop", "disable", "cleanup", "purge">>
    <2>1. Tail(t) = <<"disable", "cleanup", "purge">> /\ Head(t) = "stop" BY <1>3
    <2>2. Len(t) = 4 /\ Len(Tail(t)) = 3 BY <1>3, <2>1
    <2>3. Tail(t) \in PurgeTodo BY <2>1 DEF PurgeTodo
    <2> QED BY ONLY <2>1, <2>2, <2>3
<1>4. CASE t = <<"disable", "cleanup", "purge">>
    <2>1. Tail(t) = <<"cleanup", "purge">> /\ Head(t) = "disable" BY <1>4
    <2>2. Len(t) = 3 /\ Len(Tail(t)) = 2 BY <1>4, <2>1
    <2>3. Tail(t) \in PurgeTodo BY <2>1 DEF PurgeTodo
    <2> QED BY ONLY <2>1, <2>2, <2>3
<1>5. CASE t = <<"cleanup", "purge">>
    <2>1. Tail(t) = <<"purge">> /\ Head(t) = "cleanup" BY <1>5
    <2>2. Len(t) = 2 /\ Len(Tail(t)) = 1 BY <1>5, <2>1
    <2>3. Tail(t) \in PurgeTodo BY <2>1 DEF PurgeTodo
    <2> QED BY ONLY <2>1, <2>2, <2>3
<1>6. CASE t = <<"purge">>
    <2>1. Tail(t) = <<>> /\ Head(t) = "purge" BY <1>6
    <2>2. Len(t) = 1 /\ Len(Tail(t)) = 0 BY <1>6, <2>1
    <2>3. Tail(t) \in PurgeTodo BY <2>1 DEF PurgeTodo
    <2> QED BY ONLY <2>1, <2>2, <2>3
<1> QED BY <1>1, <1>2, <1>3, <1>4, <1>5, <1>6, Zenon DEF PurgeTodo

-----------------------------------------------------------------------------
(* What the operators of the model do to the types. *)

Mounts == [Dirs -> {"none", "live", "dead"}]

\* To detach takes away what is mounted at one folder.
LEMMA DetachedTakes ==
    ASSUME NEW m \in Mounts, NEW d \in Dirs \union {"none"}
    PROVE  /\ Detached(m, d) \in Mounts
           /\ \A e \in Dirs : Detached(m, d)[e] = IF e = d THEN "none" ELSE m[e]
BY HomeAssumption DEF Detached, Mounts

\* A daemon that ends mounts nothing.
LEMMA EndedTakes ==
    ASSUME TypeOK, NEW m \in Mounts, NEW killed \in BOOLEAN
    PROVE  /\ Ended(m, killed) \in Mounts
           /\ \A e \in Dirs : Ended(m, killed)[e] # "none" => m[e] # "none"
<1> DEFINE left1 == IF ~Mounted /\ daemon.pc # "leaving" THEN m
                    ELSE [m EXCEPT ![daemon.at] =
                            IF @ # "live" THEN @ ELSE IF killed THEN "dead" ELSE "none"]
<1>1. left1 \in Mounts /\ \A e \in Dirs : left1[e] # "none" => m[e] # "none"
    BY DEF TypeOK, Mounts
<1>2. files.unit \in Dirs \union {"none"}
    BY DEF TypeOK
<1> HIDE DEF left1
<1>3. /\ Detached(left1, files.unit) \in Mounts
      /\ \A e \in Dirs : Detached(left1, files.unit)[e] # "none" => m[e] # "none"
    BY <1>1, <1>2, DetachedTakes
<1> QED BY <1>3, Zenon DEF Ended, left1

\* A daemon that loses its mount is still there, for the same folder.
LEMMA LosingStays ==
    ASSUME TypeOK, NEW d
    PROVE  /\ Losing(d) \in [pc : {"none", "starting", "serving", "cached", "leaving"}, at : Dirs]
           /\ Losing(d).at = daemon.at /\ (Losing(d).pc = "none" <=> daemon.pc = "none")
           /\ Losing(d).pc = "starting" <=> daemon.pc = "starting"
BY DEF TypeOK, Losing, Mounted

LEMMA LabelledType == ASSUME TypeOK PROVE Labelled \in Dirs
BY HomeAssumption DEF TypeOK, Labelled

\* The next step is one that can be left.
LEMMA AtFacts ==
    ASSUME TypeOK, Position, NEW step, At(step)
    PROVE  /\ tool.op = "purge" =>
                  /\ Len(tool.todo) \in 1..6
                  /\ step = CASE Len(tool.todo) = 6 -> "unwatch" [] Len(tool.todo) = 5 -> "unmenu"
                              [] Len(tool.todo) = 4 -> "stop" [] Len(tool.todo) = 3 -> "disable"
                              [] Len(tool.todo) = 2 -> "cleanup" [] Len(tool.todo) = 1 -> "purge"
           /\ tool.op = "uninstall" => step \in {"unwatch", "unmenu", "stop", "disable", "cleanup"}
           /\ tool.op = "clear" => step \in {"note", "active", "stop", "cleanup", "remove", "again", "start"}
           /\ tool.op \notin {"purge", "uninstall", "clear"} => step \in PlainSteps
<1>1. tool.todo # <<>> /\ Head(tool.todo) = step
    BY DEF At
<1>2. tool.op \notin {"purge", "uninstall", "clear"} => step \in PlainSteps
    <2>1. SUFFICES ASSUME tool.op \notin {"purge", "uninstall", "clear"} PROVE step \in PlainSteps
        OBVIOUS
    <2>2. tool.todo \in Seq(PlainSteps)
        BY <2>1 DEF Position
    <2> QED BY <1>1, <2>2, HeadTailProperties
<1>3. /\ tool.op = "purge" => tool.todo \in PurgeTodo
      /\ tool.op = "uninstall" => tool.todo \in UninstallTodo
      /\ tool.op = "clear" => tool.todo \in ClearTodo
    BY DEF Position
<1> QED BY <1>1, <1>2, <1>3, PurgeOn, UninstallOn, ClearOn

\* A step is done.
LEMMA Went ==
    ASSUME TypeOK, Position, NEW step, At(step), Goes
    PROVE  /\ tool' \in [op : Ops, todo : Seq(Steps), was : BOOLEAN] /\ Position'
           /\ left' = left /\ tool'.op = tool.op /\ tool'.was = tool.was
           /\ tool'.todo = Tail(tool.todo)
           /\ tool.op = "purge" => Len(tool'.todo) = Len(tool.todo) - 1
<1>1. tool.todo # <<>> /\ Head(tool.todo) = step
    BY DEF At
<1>2. tool' = [tool EXCEPT !.todo = Tail(@)] /\ left' = left
    BY DEF Goes
<1>3. tool.todo \in Seq(Steps)
    BY DEF TypeOK
<1>4. Tail(tool.todo) \in Seq(Steps)
    BY <1>1, <1>3, HeadTailProperties
<1>5. /\ tool' \in [op : Ops, todo : Seq(Steps), was : BOOLEAN]
      /\ tool'.op = tool.op /\ tool'.was = tool.was /\ tool'.todo = Tail(tool.todo)
    BY <1>2, <1>4, Zenon DEF TypeOK
<1>6. tool.op = "purge" => Tail(tool.todo) \in PurgeTodo /\ Len(Tail(tool.todo)) = Len(tool.todo) - 1
    BY <1>1, PurgeOn DEF Position
<1>7. tool.op = "uninstall" => Tail(tool.todo) \in UninstallTodo
    BY <1>1, UninstallOn DEF Position
<1>8. tool.op = "clear" => Tail(tool.todo) \in ClearTodo
    BY <1>1, ClearOn DEF Position
<1>9. tool.op \notin {"clear", "uninstall", "purge"} => Tail(tool.todo) \in Seq(PlainSteps)
    BY <1>1, HeadTailProperties DEF Position
<1>10. Position'
    BY <1>5, <1>6, <1>7, <1>8, <1>9 DEF Position
<1> QED BY <1>2, <1>5, <1>6, <1>10

\* A step fails, and the command with it.
LEMMA Gave ==
    ASSUME TypeOK, Position, Fails
    PROVE  /\ tool' \in [op : Ops, todo : Seq(Steps), was : BOOLEAN] /\ Position'
           /\ left' = left /\ tool'.op = "failed" /\ tool'.todo = <<>>
<1>1. tool' = [tool EXCEPT !.op = "failed", !.todo = <<>>] /\ left' = left
    BY DEF Fails
<1>2. <<>> \in Seq(Steps) /\ <<>> \in Seq(PlainSteps) /\ "failed" \in Ops
    BY DEF Ops
<1>3. tool'.op = "failed" /\ tool'.todo = <<>>
    BY <1>1 DEF TypeOK
<1>4. tool' \in [op : Ops, todo : Seq(Steps), was : BOOLEAN]
    BY <1>1, <1>2, Zenon DEF TypeOK
<1>5. Position'
    BY <1>2, <1>3 DEF Position
<1> QED BY <1>1, <1>3, <1>4, <1>5

\* The service is started again after a cache is cleared, if it was to be.
LEMMA Again ==
    ASSUME TypeOK, Position, StartAgain
    PROVE  /\ tool' \in [op : Ops, todo : Seq(Steps), was : BOOLEAN] /\ Position'
           /\ tool.op = "clear" /\ tool'.op = "clear" /\ tool'.was = tool.was
           /\ tool.todo = <<"again">>
           /\ tool'.todo = IF tool.was THEN <<"cleanup", "start">> ELSE <<>>
<1>1. At("again") /\ tool' = [tool EXCEPT !.todo = IF tool.was THEN Start ELSE <<>>]
    BY DEF StartAgain
<1>2. tool.op = "clear"
    BY <1>1, AtFacts DEF PlainSteps
<1>3. tool.todo = <<"again">>
    BY <1>1, <1>2, ClearOn DEF At, Position
<1>4. /\ <<"cleanup", "start">> \in Seq(Steps) /\ <<>> \in Seq(Steps)
      /\ <<"cleanup", "start">> \in ClearTodo /\ <<>> \in ClearTodo
    BY DEF Steps, ClearTodo
<1>5. /\ tool' \in [op : Ops, todo : Seq(Steps), was : BOOLEAN]
      /\ tool'.op = tool.op /\ tool'.was = tool.was
      /\ tool'.todo = IF tool.was THEN <<"cleanup", "start">> ELSE <<>>
    BY <1>1, <1>4, Zenon DEF TypeOK, Start
<1>6. Position'
    BY <1>2, <1>4, <1>5 DEF Position
<1> QED BY <1>2, <1>3, <1>5, <1>6

\* A command is given.
LEMMA Given ==
    ASSUME TypeOK, Command
    PROVE  /\ tool' \in [op : Ops, todo : Seq(Steps), was : BOOLEAN] /\ Position'
           /\ tool'.op = "clear" => tool'.todo = <<"note", "active", "stop", "cleanup", "remove", "again">>
           /\ tool'.op = "uninstall" => tool'.todo = <<"unwatch", "unmenu", "stop", "disable", "cleanup">>
           /\ tool'.op = "purge" => Len(tool'.todo) = 6
<1>1. PICK op \in DOMAIN Program : tool' = [op |-> op, todo |-> Program[op], was |-> FALSE]
    BY Zenon DEF Command
<1>2. /\ tool' \in [op : Ops, todo : Seq(Steps), was : BOOLEAN]
      /\ tool'.op = op /\ tool'.todo = Program[op]
    BY <1>1, Programs DEF Ops
<1>3. /\ <<"note", "active", "stop", "cleanup", "remove", "again">> \in ClearTodo
      /\ <<"unwatch", "unmenu", "stop", "disable", "cleanup">> \in UninstallTodo
      /\ <<"unwatch", "unmenu", "stop", "disable", "cleanup", "purge">> \in PurgeTodo
    BY DEF ClearTodo, UninstallTodo, PurgeTodo
<1>4. op \notin {"clear", "uninstall", "purge"} => tool'.todo \in Seq(PlainSteps)
    BY <1>2, PlainPrograms
<1>5. /\ op = "clear" => tool'.todo = <<"note", "active", "stop", "cleanup", "remove", "again">>
      /\ op = "uninstall" => tool'.todo = <<"unwatch", "unmenu", "stop", "disable", "cleanup">>
      /\ op = "purge" => tool'.todo = <<"unwatch", "unmenu", "stop", "disable", "cleanup", "purge">>
    BY <1>2, Programs
<1>6. Position'
    BY <1>2, <1>3, <1>4, <1>5, Zenon DEF Position
<1>7. Len(<<"unwatch", "unmenu", "stop", "disable", "cleanup", "purge">>) = 6
    OBVIOUS
<1> QED BY ONLY <1>2, <1>5, <1>6, <1>7

-----------------------------------------------------------------------------
(* Every step keeps the types, and the command at a step of its program. *)

LEMMA ToolKept ==
    ASSUME TypeOK, Position, [Next]_vars
    PROVE  tool' \in [op : Ops, todo : Seq(Steps), was : BOOLEAN] /\ Position'
<1> USE DEF Step
<1>1. CASE Command
    BY <1>1, Given
<1>2. CASE InitStep \/ Configure \/ Authenticate \/ Cleanup \/ SystemctlStart \/ SystemctlStop \/ Disable
           \/ Note
    <2>1. \E step \in Steps : At(step) /\ (Goes \/ Fails)
        BY <1>2, Zenon DEF InitStep, Configure, Authenticate, Cleanup, SystemctlStart, SystemctlStop, Disable,
             Note, Steps
    <2> QED BY <2>1, Went, Gave
<1>3. CASE Remove \/ Purge \/ InstallWatcher \/ RemoveWatcher \/ Menu \/ TrackerIgnore
    <2>1. \E step \in Steps : At(step) /\ (Goes \/ Fails)
        BY <1>3, Zenon DEF Remove, Purge, InstallWatcher, RemoveWatcher, Menu, TrackerIgnore, Steps
    <2> QED BY <2>1, Went, Gave
<1>4. CASE IsActive
    <2>1. At("active") /\ tool' = [tool EXCEPT !.todo = Tail(@), !.was = Running]
        BY <1>4 DEF IsActive
    <2>2. tool.op = "clear"
        BY <2>1, AtFacts DEF PlainSteps
    <2>3. tool.todo # <<>> /\ tool.todo \in ClearTodo /\ tool.todo \in Seq(Steps)
        BY <2>1, <2>2 DEF At, Position, TypeOK
    <2>4. Tail(tool.todo) \in ClearTodo /\ Tail(tool.todo) \in Seq(Steps)
        BY <2>3, ClearOn, HeadTailProperties
    <2>5. tool'.op = "clear" /\ tool'.todo = Tail(tool.todo)
          /\ tool' \in [op : Ops, todo : Seq(Steps), was : BOOLEAN]
        BY <2>1, <2>2, <2>4, Zenon DEF TypeOK, Running
    <2> QED BY <2>4, <2>5 DEF Position
<1>5. CASE StartAgain
    BY <1>5, Again
<1>6. CASE Mount \/ StartFails \/ Crash \/ Eject \/ Leave \/ Respawn \/ Works \/ Tick \/ WatcherCrash
           \/ UNCHANGED vars
    <2>1. UNCHANGED tool
        BY <1>6, Zenon DEF Mount, StartFails, Crash, Eject, Leave, Respawn, Works, Tick, WatcherCrash, vars, Inside
    <2> QED BY <2>1 DEF TypeOK, Position
<1> QED BY <1>1, <1>2, <1>3, <1>4, <1>5, <1>6 DEF Next

LEMMA BoundsKept ==
    ASSUME TypeOK, Position, [Next]_vars
    PROVE  left' \in [commands : Nat, faults : Nat] /\ hist' \in [ran : BOOLEAN, stale : BOOLEAN, torn : BOOLEAN]
<1>1. CASE Command
    <2>1. left' = [left EXCEPT !.commands = @ - 1] /\ left.commands > 0
        BY <1>1 DEF Command
    <2>2. hist' = [hist EXCEPT !.ran = daemon.pc = "starting" \/ Mounted]
        BY <1>1 DEF Command
    <2>3. left' \in [commands : Nat, faults : Nat]
        BY <2>1 DEF TypeOK
    <2>4. hist' \in [ran : BOOLEAN, stale : BOOLEAN, torn : BOOLEAN]
        BY <2>2, Zenon DEF TypeOK, Mounted
    <2> QED BY <2>3, <2>4
<1>2. CASE Step
    <2>1. left' = left
        BY <1>2, Zenon DEF Step, InitStep, Configure, Authenticate, Cleanup, SystemctlStart, SystemctlStop, Disable,
             Note, IsActive, Remove, StartAgain, Purge, InstallWatcher, RemoveWatcher, Menu, TrackerIgnore,
             Goes, Fails
    <2>2. hist' = hist \/ \E b \in BOOLEAN : hist' = [hist EXCEPT !.stale = b] \/ hist' = [hist EXCEPT !.torn = b]
        <3>1. CASE InitStep
            BY <3>1, Zenon DEF InitStep, TypeOK
        <3>2. CASE Purge
            BY <3>2, Zenon DEF Purge, TypeOK
        <3>3. CASE hist' = hist
            BY <3>3
        <3>4. InitStep \/ Purge \/ hist' = hist
            BY <1>2, Zenon DEF Step, Configure, Authenticate, Cleanup, SystemctlStart, SystemctlStop, Disable,
                 Note, IsActive, Remove, StartAgain, InstallWatcher, RemoveWatcher, Menu, TrackerIgnore
        <3> QED BY <3>1, <3>2, <3>3, <3>4
    <2> QED BY <2>1, <2>2 DEF TypeOK
<1>3. CASE Mount \/ StartFails \/ Crash \/ Eject \/ Leave \/ Respawn \/ Works \/ Tick \/ WatcherCrash
           \/ UNCHANGED vars
    <2>1. left' = left \/ (left.faults > 0 /\ left' = [left EXCEPT !.faults = @ - 1])
        BY <1>3, Zenon DEF Mount, StartFails, Crash, Eject, Leave, Respawn, Works, Tick, WatcherCrash, vars
    <2>2. hist' = hist \/ hist' = [hist EXCEPT !.ran = FALSE] \/ hist' = [hist EXCEPT !.stale = TRUE]
        BY <1>3, Zenon DEF Mount, StartFails, Crash, Eject, Leave, Respawn, Works, Tick, WatcherCrash, vars
    <2>3. left' \in [commands : Nat, faults : Nat]
        BY <2>1 DEF TypeOK
    <2>4. hist' \in [ran : BOOLEAN, stale : BOOLEAN, torn : BOOLEAN]
        BY <2>2, Zenon DEF TypeOK
    <2> QED BY <2>3, <2>4
<1> QED BY <1>1, <1>2, <1>3 DEF Next

LEMMA LaunchType ==
    ASSUME TypeOK, Launch, files.unit # "none"
    PROVE  /\ svc' = "running" /\ daemon'.pc = "starting" /\ daemon'.at = files.unit
           /\ daemon' \in [pc : {"none", "starting", "serving", "cached", "leaving"}, at : Dirs]
           /\ mnt' \in Mounts /\ \A d \in Dirs : mnt'[d] # "none" => mnt[d] # "none"
           /\ unread' \in BOOLEAN
<1>1. files.unit \in Dirs /\ mnt \in Mounts
    BY DEF TypeOK, Mounts
<1>2. mnt' \in Mounts /\ \A d \in Dirs : mnt'[d] # "none" => mnt[d] # "none"
    BY <1>1, DetachedTakes DEF Launch
<1> QED BY <1>1, <1>2, Zenon DEF Launch, TypeOK

LEMMA EndsType ==
    ASSUME TypeOK, NEW killed \in BOOLEAN, NEW error \in BOOLEAN, Ends(killed, error)
    PROVE  /\ svc' = (IF error THEN "waiting" ELSE "off") /\ daemon' = NoDaemon
           /\ daemon' \in [pc : {"none", "starting", "serving", "cached", "leaving"}, at : Dirs]
           /\ mnt' \in Mounts /\ \A d \in Dirs : mnt'[d] # "none" => mnt[d] # "none"
<1>1. mnt \in Mounts
    BY DEF TypeOK, Mounts
<1>2. mnt' \in Mounts /\ \A d \in Dirs : mnt'[d] # "none" => mnt[d] # "none"
    BY <1>1, EndedTakes DEF Ends
<1> QED BY <1>2, HomeAssumption DEF Ends, NoDaemon

LEMMA StopType ==
    ASSUME TypeOK, SystemctlStop
    PROVE  mnt' \in Mounts /\ \A d \in Dirs : mnt'[d] # "none" => mnt[d] # "none"
<1>1. PICK killed \in BOOLEAN : mnt' = Ended(Detached(mnt, files.unit), killed)
    BY DEF SystemctlStop
<1>2. mnt \in Mounts /\ files.unit \in Dirs \union {"none"}
    BY DEF TypeOK, Mounts
<1>3. /\ Detached(mnt, files.unit) \in Mounts
      /\ \A d \in Dirs : Detached(mnt, files.unit)[d] # "none" => mnt[d] # "none"
    BY <1>2, DetachedTakes
<1> QED BY <1>1, <1>3, EndedTakes

LEMMA MountsKept ==
    ASSUME TypeOK, UnitRuns, [Next]_vars
    PROVE  /\ svc' \in {"off", "running", "waiting"}
           /\ daemon' \in [pc : {"none", "starting", "serving", "cached", "leaving"}, at : Dirs]
           /\ mnt' \in Mounts
<1>1. mnt \in Mounts /\ files.env \in Dirs \union {"none"} /\ daemon.at \in Dirs
    BY DEF TypeOK, Mounts
<1>2. CASE Cleanup
    <2>1. /\ svc' = svc
          /\ \/ mnt' = Detached(mnt, files.env) /\ daemon' = Losing(files.env)
             \/ UNCHANGED <<mnt, daemon>>
        BY <1>2 DEF Cleanup, Recorded
    <2> QED BY <1>1, <2>1, DetachedTakes, LosingStays DEF TypeOK
<1>3. CASE SystemctlStart
    <2>1. CASE files.unit # "none" /\ ~Running
        BY <1>3, <2>1, LaunchType DEF SystemctlStart
    <2>2. CASE files.unit = "none" \/ Running
        <3>1. UNCHANGED <<svc, daemon, mnt>>
            BY <1>3, <2>2 DEF SystemctlStart
        <3> QED BY <1>1, <3>1 DEF TypeOK
    <2> QED BY <2>1, <2>2
<1>4. CASE SystemctlStop
    BY <1>4, StopType, HomeAssumption DEF SystemctlStop, NoDaemon
<1>5. CASE Mount
    BY <1>1, <1>5 DEF Mount, TypeOK, Mounts
<1>6. CASE StartFails \/ Crash \/ Leave
    <2>1. \E killed, error \in BOOLEAN : Ends(killed, error)
        BY <1>6, Zenon DEF StartFails, Crash, Leave
    <2> QED BY <2>1, EndsType
<1>7. CASE Eject
    BY <1>1, <1>7, DetachedTakes, LosingStays DEF Eject, TypeOK
<1>8. CASE Respawn
    BY <1>8, LaunchType DEF Respawn, UnitRuns
<1>9. CASE UNCHANGED <<svc, daemon, mnt>>
    BY <1>1, <1>9 DEF TypeOK
<1>10. Next => \/ Cleanup \/ SystemctlStart \/ SystemctlStop \/ Mount \/ StartFails \/ Crash \/ Leave
              \/ Eject \/ Respawn \/ UNCHANGED <<svc, daemon, mnt>>
    BY Zenon DEF Next, Step, Command, InitStep, Configure, Authenticate, Disable, Note, IsActive, Remove, StartAgain,
        Purge, InstallWatcher, RemoveWatcher, Menu, TrackerIgnore, Works, Tick, WatcherCrash
<1> QED BY <1>2, <1>3, <1>4, <1>5, <1>6, <1>7, <1>8, <1>9, <1>10 DEF vars

LEMMA FilesKept ==
    ASSUME TypeOK, [Next]_vars
    PROVE  /\ files' \in [env : Dirs \union {"none"}, unit : Dirs \union {"none"}, menu : BOOLEAN]
           /\ account' \in [config : {"none", "blank", "named"}, session : BOOLEAN]
           /\ cache' \in BOOLEAN
<1>1. CASE InitStep
    BY <1>1, ZenonT(40) DEF InitStep, TypeOK
<1>2. CASE Configure \/ Authenticate
    BY <1>2, ZenonT(40) DEF Configure, Authenticate, TypeOK
<1>3. CASE Disable \/ Menu
    <2>1. UNCHANGED <<account, cache>>
        BY <1>3 DEF Disable, Menu
    <2>2. files' = [files EXCEPT !.unit = "none"] \/ \E b \in BOOLEAN : files' = [files EXCEPT !.menu = b]
        BY <1>3, HomeAssumption, Zenon DEF Disable, Menu, At
    <2> QED BY <2>1, <2>2 DEF TypeOK
<1>4. CASE Remove \/ Purge
    <2>1. CASE Remove
        BY <2>1, Zenon DEF Remove, TypeOK
    <2>2. CASE Purge
        <3>1. PICK gone \in 0 .. 5 :
                /\ account' = [config  |-> IF gone > 0 THEN "none" ELSE account.config,
                               session |-> account.session /\ gone < 3]
                /\ files' = [files EXCEPT !.env = IF gone > 1 THEN "none" ELSE @]
                /\ cache' = (cache /\ gone < 4)
            BY <2>2, Zenon DEF Purge
        <3>2. files' = files \/ files' = [files EXCEPT !.env = "none"]
            BY <3>1 DEF TypeOK
        <3>3. files' \in [env : Dirs \union {"none"}, unit : Dirs \union {"none"}, menu : BOOLEAN]
            BY <3>2, Zenon DEF TypeOK
        <3>4. account' \in [config : {"none", "blank", "named"}, session : BOOLEAN]
            <4> DEFINE c == IF gone > 0 THEN "none" ELSE account.config
                       b == account.session /\ gone < 3
            <4>1. c \in {"none", "blank", "named"} /\ b \in BOOLEAN
                BY DEF TypeOK
            <4>2. account' = [config |-> c, session |-> b]
                BY <3>1
            <4> HIDE DEF c, b
            <4> QED BY <4>1, <4>2
        <3> QED BY <3>1, <3>3, <3>4
    <2> QED BY <1>4, <2>1, <2>2
<1>5. CASE Mount \/ StartFails
    BY <1>5, Zenon DEF Mount, StartFails, Inside, TypeOK
<1>6. CASE UNCHANGED <<files, account, cache>>
    BY <1>6 DEF TypeOK
<1>7. Next => \/ InitStep \/ Configure \/ Authenticate \/ Disable \/ Menu \/ Remove \/ Purge
              \/ Mount \/ StartFails \/ UNCHANGED <<files, account, cache>>
    BY Zenon DEF Next, Step, Command, Cleanup, SystemctlStart, SystemctlStop, Note, IsActive, StartAgain,
        InstallWatcher, RemoveWatcher, TrackerIgnore, Crash, Eject, Leave, Respawn, Works, Tick, WatcherCrash,
        Inside
<1> QED BY <1>1, <1>2, <1>3, <1>4, <1>5, <1>6, <1>7 DEF vars

LEMMA WatcherTypes ==
    ASSUME TypeOK
    PROVE  /\ \A b \in BOOLEAN : Relabelled(b) \in SUBSET Dirs
           /\ Watches => watcher' \in {"none", "off", "idle", "busy"} /\ label' = label
           /\ Unwatches => watcher' \in {"none", "off"} /\ label' \in SUBSET Dirs
BY LabelledType DEF TypeOK, Relabelled, Reset, Watches, Unwatches

LEMMA WatcherKept ==
    ASSUME TypeOK, UnitRuns, [Next]_vars
    PROVE  /\ unread' \in BOOLEAN
           /\ watcher' \in {"none", "off", "idle", "busy"} /\ label' \in SUBSET Dirs
<1>1. CASE SystemctlStart
    BY <1>1, LaunchType, WatcherTypes DEF SystemctlStart, TypeOK
<1>2. CASE SystemctlStop
    BY <1>2, WatcherTypes DEF SystemctlStop, TypeOK
<1>3. CASE InstallWatcher
    BY <1>3, Zenon DEF InstallWatcher, TypeOK
<1>4. CASE RemoveWatcher
    BY <1>4, WatcherTypes, Zenon DEF RemoveWatcher, TypeOK, Reset
<1>5. CASE Leave
    BY <1>5, WatcherTypes DEF Leave, TypeOK
<1>6. CASE Respawn
    BY <1>6, LaunchType DEF Respawn, TypeOK, UnitRuns
<1>7. CASE Works
    BY <1>7 DEF Works, TypeOK
<1>8. CASE Tick
    <2>1. watcher' \in {"idle", "busy"} /\ unread' \in BOOLEAN
        BY <1>8, Zenon DEF Tick, Noticed, Silent, TypeOK
    <2>2. label' \in {Relabelled(TRUE), Relabelled(FALSE), label}
        BY <1>8 DEF Tick, Relabelled
    <2> QED BY <2>1, <2>2, WatcherTypes, Zenon DEF TypeOK
<1>9. CASE WatcherCrash
    BY <1>9, Zenon DEF WatcherCrash, TypeOK
<1>10. CASE UNCHANGED <<unread, watcher, label>>
    BY <1>10 DEF TypeOK
<1>11. Next => \/ SystemctlStart \/ SystemctlStop \/ InstallWatcher \/ RemoveWatcher \/ Leave \/ Respawn
               \/ Works \/ Tick \/ WatcherCrash \/ UNCHANGED <<unread, watcher, label>>
    BY Zenon DEF Next, Step, Command, InitStep, Configure, Authenticate, Cleanup, Disable, Note, IsActive, Remove,
        StartAgain, Purge, Menu, TrackerIgnore, Mount, StartFails, Crash, Eject
<1> QED BY <1>1, <1>2, <1>3, <1>4, <1>5, <1>6, <1>7, <1>8, <1>9, <1>10, <1>11 DEF vars

LEMMA TypeKept == ASSUME TypeOK, UnitRuns, Position, [Next]_vars PROVE TypeOK'
<1>1. mnt' \in [Dirs -> {"none", "live", "dead"}]
    BY MountsKept DEF Mounts
<1> QED BY <1>1, ToolKept, BoundsKept, MountsKept, FilesKept, WatcherKept DEF TypeOK

-----------------------------------------------------------------------------
(* What a command has done when it comes to a step that cannot be taken back. *)

\* The unit is removed when it is stopped.
LEMMA AtDisable ==
    ASSUME IInv, At("disable")
    PROVE  svc = "off" /\ tool.op \in {"uninstall", "purge"}
<1> USE DEF IInv
<1>1. tool.op \in {"uninstall", "purge"}
    BY AtFacts DEF PlainSteps
<1>2. CASE tool.op = "uninstall"
    <2>1. tool.todo = <<"disable", "cleanup">>
        BY <1>2, UninstallOn DEF Position, At
    <2> QED BY <1>2, <2>1 DEF UninstallProgress
<1>3. CASE tool.op = "purge"
    <2>1. Len(tool.todo) = 3
        BY <1>3, AtFacts
    <2> QED BY <1>3, <2>1 DEF PurgeProgress
<1> QED BY <1>1, <1>2, <1>3

\* Everything else is gone when what was saved is removed.
LEMMA AtPurge ==
    ASSUME IInv, At("purge")
    PROVE  /\ tool.op = "purge" /\ Len(tool.todo) = 1
           /\ watcher = "none" /\ ~files.menu /\ svc = "off" /\ files.unit = "none"
<1> USE DEF IInv
<1>1. tool.op = "purge"
    BY AtFacts DEF PlainSteps
<1>2. Len(tool.todo) = 1
    BY <1>1, AtFacts
<1> QED BY <1>1, <1>2 DEF PurgeProgress

\* The cache is cleared when the service is stopped.
LEMMA AtRemove ==
    ASSUME IInv, At("remove")
    PROVE  tool.op = "clear" /\ tool.todo = <<"remove", "again">> /\ svc = "off"
<1> USE DEF IInv
<1>1. tool.op = "clear"
    BY AtFacts DEF PlainSteps
<1>2. tool.todo = <<"remove", "again">>
    BY <1>1, ClearOn DEF Position, At
<1> QED BY <1>1, <1>2 DEF ClearProgress

-----------------------------------------------------------------------------
(* What holds whatever command runs. *)

\* The steps that are no history of a fault or of another folder.
LEMMA StaleStays ==
    ASSUME TypeOK, [Next]_vars
    PROVE  /\ hist'.stale \/ ~hist.stale
           /\ hist'.torn \/ ~hist.torn
           /\ InitStep \/ Tick \/ WatcherCrash \/ hist'.stale = hist.stale
<1>1. CASE Command
    BY <1>1 DEF Command, TypeOK
<1>2. CASE InitStep
    BY <1>2, Zenon DEF InitStep, TypeOK
<1>3. CASE StartFails \/ Crash \/ Eject
    BY <1>3, Zenon DEF StartFails, Crash, Eject, TypeOK
<1>4. CASE Tick
    BY <1>4 DEF Tick, TypeOK
<1>5. CASE WatcherCrash
    BY <1>5, Zenon DEF WatcherCrash, TypeOK
<1>6. CASE UNCHANGED hist
    BY <1>6
<1>7. CASE Purge
    BY <1>7 DEF Purge, TypeOK
<1>8. Next => \/ Command \/ InitStep \/ StartFails \/ Crash \/ Eject \/ Tick \/ WatcherCrash \/ Purge
              \/ UNCHANGED hist
    BY Zenon DEF Next, Step, Configure, Authenticate, Cleanup, SystemctlStart, SystemctlStop, Disable, Note, IsActive,
        Remove, StartAgain, InstallWatcher, RemoveWatcher, Menu, TrackerIgnore, Mount, Leave, Respawn, Works
<1> QED BY <1>1, <1>2, <1>3, <1>4, <1>5, <1>6, <1>8, <1>7 DEF vars

LEMMA SessionKept == ASSUME TypeOK, SessionNamed, [Next]_vars PROVE SessionNamed'
<1>0. hist'.torn \/ ~hist.torn
    BY StaleStays
<1>1. CASE InitStep
    BY <1>0, <1>1 DEF InitStep, SessionNamed, TypeOK
<1>2. CASE Configure
    BY <1>2 DEF Configure, SessionNamed, TypeOK
<1>3. CASE Authenticate
    BY <1>0, <1>3 DEF Authenticate, SessionNamed, TypeOK
<1>4. CASE Purge
    <2>1. PICK gone \in 0 .. 5 :
            /\ account' = [config  |-> IF gone > 0 THEN "none" ELSE account.config,
                           session |-> account.session /\ gone < 3]
            /\ hist' = [hist EXCEPT !.torn = @ \/ (account.session /\ gone \in 1 .. 2)]
        BY <1>4, Zenon DEF Purge
    <2>2. account.session /\ gone \in 1 .. 2 => hist'.torn
        BY <2>1 DEF TypeOK
    <2>3. account'.session => account.session /\ gone < 3
        BY <2>1
    <2>4. gone = 0 => account'.config = account.config
        BY <2>1
    <2>5. gone = 0 \/ gone \in 1 .. 2 \/ ~(gone < 3)
        OBVIOUS
    <2> QED BY <1>0, <2>2, <2>3, <2>4, <2>5, Zenon DEF SessionNamed
<1>5. CASE UNCHANGED account
    BY <1>0, <1>5 DEF SessionNamed
<1>6. Next => InitStep \/ Configure \/ Authenticate \/ Purge \/ UNCHANGED account
    BY Zenon DEF Next, Step, Command, Cleanup, SystemctlStart, SystemctlStop, Disable, Note, IsActive, Remove,
        StartAgain, InstallWatcher, RemoveWatcher, Menu, TrackerIgnore, Mount, StartFails, Crash, Eject, Leave,
        Respawn, Works, Tick, WatcherCrash, Inside
<1> QED BY <1>1, <1>2, <1>3, <1>4, <1>5, <1>6 DEF vars

LEMMA FolderKept == ASSUME IInv, [Next]_vars PROVE OneFolder'
<1> USE DEF IInv
<1>1. CASE InitStep
    BY <1>1 DEF InitStep, OneFolder, TypeOK
<1>2. CASE Disable
    BY <1>2 DEF Disable, OneFolder, TypeOK
<1>3. CASE Purge
    BY <1>3, AtPurge DEF Purge, OneFolder, TypeOK
<1>4. CASE UNCHANGED <<files.unit, files.env>>
    BY <1>4 DEF OneFolder
<1>5. Menu => UNCHANGED <<files.unit, files.env>>
    BY DEF Menu, TypeOK
<1>6. Next => InitStep \/ Disable \/ Purge \/ Menu \/ UNCHANGED files
    BY Zenon DEF Next, Step, Command, Configure, Authenticate, Cleanup, SystemctlStart, SystemctlStop, Note, IsActive,
        Remove, StartAgain, InstallWatcher, RemoveWatcher, TrackerIgnore, Mount, StartFails, Crash, Eject, Leave,
        Respawn, Works, Tick, WatcherCrash, Inside
<1> QED BY <1>1, <1>2, <1>3, <1>4, <1>5, <1>6 DEF vars

LEMMA UnitKept == ASSUME IInv, [Next]_vars PROVE UnitRuns'
<1> USE DEF IInv
<1>1. CASE InitStep
    BY <1>1, HomeAssumption DEF InitStep, UnitRuns, TypeOK
<1>2. CASE Disable
    BY <1>2, AtDisable DEF Disable, UnitRuns, TypeOK
<1>3. CASE Purge
    BY <1>3, AtPurge DEF Purge, UnitRuns, TypeOK
<1>4. CASE Cleanup
    BY <1>4, LosingStays DEF Cleanup, UnitRuns
<1>5. CASE SystemctlStart
    <2>1. CASE files.unit # "none" /\ ~Running
        BY <1>5, <2>1, LaunchType DEF SystemctlStart, UnitRuns
    <2>2. CASE files.unit = "none" \/ Running
        BY <1>5, <2>2 DEF SystemctlStart, UnitRuns
    <2> QED BY <2>1, <2>2
<1>6. CASE SystemctlStop
    BY <1>6 DEF SystemctlStop, UnitRuns, NoDaemon
<1>7. CASE Mount
    <2>1. daemon.pc # "none" /\ daemon'.pc # "none" /\ UNCHANGED <<svc, files>>
        BY <1>7 DEF Mount, Inside, TypeOK
    <2> QED BY <2>1 DEF UnitRuns
<1>8. CASE StartFails \/ Crash \/ Leave
    <2>1. daemon.pc # "none" /\ UNCHANGED files
        BY <1>8, Zenon DEF StartFails, Crash, Leave, Mounted, Inside
    <2>2. \E killed, error \in BOOLEAN : Ends(killed, error)
        BY <1>8, Zenon DEF StartFails, Crash, Leave
    <2>3. daemon'.pc = "none" /\ svc' # "running"
        BY <2>2, EndsType DEF NoDaemon
    <2> QED BY <2>1, <2>3 DEF UnitRuns
<1>9. CASE Eject
    BY <1>9, LosingStays DEF Eject, UnitRuns, Inside
<1>10. CASE Respawn
    BY <1>10, LaunchType DEF Respawn, UnitRuns, Inside
<1>11. CASE Menu
    BY <1>11 DEF Menu, UnitRuns, TypeOK
<1>12. CASE UNCHANGED <<svc, daemon, files>>
    BY <1>12 DEF UnitRuns
<1>13. Next => \/ InitStep \/ Disable \/ Purge \/ Cleanup \/ SystemctlStart \/ SystemctlStop \/ Mount
               \/ StartFails \/ Crash \/ Leave \/ Eject \/ Respawn \/ Menu \/ UNCHANGED <<svc, daemon, files>>
    BY DEF Next, Step, Command, Configure, Authenticate, Note, IsActive, Remove, StartAgain, InstallWatcher,
        RemoveWatcher, TrackerIgnore, Works, Tick, WatcherCrash, Inside
<1> QED BY <1>1, <1>2, <1>3, <1>4, <1>5, <1>6, <1>7, <1>8, <1>9, <1>10, <1>11, <1>12, <1>13 DEF vars

\* Nothing but the recorded folder is in the way of a watcher, and none runs without one.
LEMMA SeenKept == ASSUME IInv, [Next]_vars PROVE NothingSeen'
<1> USE DEF IInv
<1>0. files.env = "none" => svc = "off" /\ daemon.pc = "none"
    BY DEF OneFolder, UnitRuns
<1>1. CASE InitStep
    BY <1>1, HomeAssumption DEF InitStep, NothingSeen, TypeOK
<1>2. CASE Purge
    BY <1>2, AtPurge DEF Purge, NothingSeen
<1>3. CASE Disable \/ Menu
    BY <1>3 DEF Disable, Menu, NothingSeen, TypeOK
<1>4. CASE SystemctlStart
    <2>1. files.env = "none" => UNCHANGED <<unread, watcher>>
        BY <1>4 DEF SystemctlStart, OneFolder
    <2> QED BY <1>4, <2>1 DEF SystemctlStart, NothingSeen
<1>5. CASE SystemctlStop
    BY <1>0, <1>5 DEF SystemctlStop, NothingSeen
<1>6. CASE InstallWatcher
    BY <1>6 DEF InstallWatcher, NothingSeen, TypeOK
<1>7. CASE RemoveWatcher
    BY <1>7 DEF RemoveWatcher, NothingSeen
<1>8. CASE Leave \/ Respawn \/ Works
    BY <1>0, <1>8, Zenon DEF Leave, Respawn, Works, NothingSeen, Inside
<1>9. CASE Tick
    BY <1>9 DEF Tick, Noticed, Silent, NothingSeen, Inside
<1>10. CASE WatcherCrash
    BY <1>10 DEF WatcherCrash, NothingSeen, Inside
<1>11. CASE UNCHANGED <<files, unread, watcher>>
    BY <1>11 DEF NothingSeen
<1>12. Next => \/ InitStep \/ Purge \/ Disable \/ Menu \/ SystemctlStart \/ SystemctlStop \/ InstallWatcher
               \/ RemoveWatcher \/ Leave \/ Respawn \/ Works \/ Tick \/ WatcherCrash
               \/ UNCHANGED <<files, unread, watcher>>
    BY Zenon DEF Next, Step, Command, Configure, Authenticate, Cleanup, Note, IsActive, Remove, StartAgain,
        TrackerIgnore, Mount, StartFails, Crash, Eject, Inside
<1> QED BY <1>1, <1>2, <1>3, <1>4, <1>5, <1>6, <1>7, <1>8, <1>9, <1>10, <1>11, <1>12 DEF vars

\* The watcher makes plain what it has made busy.
LEMMA ResetClears ==
    ASSUME LabelKnown, ~hist.stale
    PROVE  /\ watcher # "busy" => label = {}
           /\ Relabelled(FALSE) = {} /\ Relabelled(TRUE) \subseteq {Labelled}
BY DEF LabelKnown, Relabelled

LEMMA LabelKept == ASSUME IInv, [Next]_vars PROVE LabelKnown'
<1> USE DEF IInv
<1> SUFFICES ASSUME ~hist'.stale
             PROVE  label' \subseteq (IF watcher' = "busy" THEN {Labelled'} ELSE {})
    BY DEF LabelKnown
<1>0. ~hist.stale /\ label \subseteq (IF watcher = "busy" THEN {Labelled} ELSE {})
    BY StaleStays DEF TypeOK, LabelKnown
<1>1. CASE InitStep
    <2>1. PICK d \in Dirs : /\ files' = [files EXCEPT !.env = d, !.unit = d]
                            /\ hist' = [hist EXCEPT !.stale = @ \/ (Recorded # "none" /\ Recorded # d)]
        BY <1>1, Zenon DEF InitStep
    <2>2. files.env = "none" \/ files.env = d
        BY <2>1, Zenon DEF TypeOK, Recorded
    <2>3. label' = label /\ watcher' = watcher
        BY <1>1 DEF InitStep
    <2>4. files'.env = d
        BY <2>1 DEF TypeOK
    <2>5. CASE files.env = "none"
        BY <1>0, <2>3, <2>5 DEF NothingSeen
    <2>6. CASE files.env = d
        BY <1>0, <2>3, <2>4, <2>6 DEF Labelled
    <2> QED BY <2>2, <2>5, <2>6
<1>2. CASE Purge
    BY <1>0, <1>2, AtPurge DEF Purge
<1>3. CASE Disable \/ Menu
    <2>1. UNCHANGED <<label, watcher, files.env>>
        BY <1>3 DEF Disable, Menu, TypeOK
    <2> QED BY <1>0, <2>1 DEF Labelled
<1>4. CASE SystemctlStart
    <2>1. label' = label /\ (watcher' = "busy" <=> watcher = "busy") /\ files' = files
        BY <1>4 DEF SystemctlStart, Watches
    <2> QED BY <1>0, <2>1 DEF Labelled
<1>5. CASE SystemctlStop \/ Leave
    <2>1. files' = files /\ (Unwatches \/ UNCHANGED <<watcher, label>>)
        BY <1>5, Zenon DEF SystemctlStop, Leave, Inside
    <2>2. Unwatches => label' = {}
        BY <1>0, ResetClears, Zenon DEF Unwatches, Reset
    <2> QED BY <1>0, <2>1, <2>2 DEF Labelled
<1>6. CASE InstallWatcher
    <2>1. label' = label /\ (watcher' = "busy" <=> watcher = "busy") /\ files' = files
        BY <1>6 DEF InstallWatcher
    <2> QED BY <1>0, <2>1 DEF Labelled
<1>7. CASE RemoveWatcher
    BY <1>0, <1>7, ResetClears, Zenon DEF RemoveWatcher, Reset
<1>8. CASE Tick
    <2>1. files' = files /\ label' = Relabelled(watcher' = "busy")
        BY <1>8 DEF Tick, Inside, TypeOK
    <2>2. CASE watcher' = "busy"
        BY <1>0, <2>1, <2>2, ResetClears, Zenon DEF Labelled
    <2>3. CASE watcher' # "busy"
        BY <1>0, <2>1, <2>3, ResetClears, Zenon
    <2> QED BY <2>2, <2>3
<1>9. CASE WatcherCrash
    BY <1>9 DEF WatcherCrash, TypeOK
<1>10. CASE UNCHANGED <<label, watcher, files>>
    BY <1>0, <1>10 DEF Labelled
<1>11. Next => \/ InitStep \/ Purge \/ Disable \/ Menu \/ SystemctlStart \/ SystemctlStop \/ Leave
               \/ InstallWatcher \/ RemoveWatcher \/ Tick \/ WatcherCrash \/ UNCHANGED <<label, watcher, files>>
    BY Zenon DEF Next, Step, Command, Configure, Authenticate, Cleanup, Note, IsActive, Remove, StartAgain,
        TrackerIgnore, Mount, StartFails, Crash, Eject, Respawn, Works, Inside
<1> QED BY <1>1, <1>2, <1>3, <1>4, <1>5, <1>6, <1>7, <1>8, <1>9, <1>10, <1>11 DEF vars

LEMMA PlaceKept == ASSUME IInv, [Next]_vars PROVE Placed'
<1> USE DEF IInv
<1> SUFFICES ASSUME ~hist'.stale
             PROVE  /\ daemon'.pc # "none" => daemon'.at = files'.env
                    /\ \A d \in Dirs : mnt'[d] # "none" => d = files'.env
    BY DEF Placed
<1>0. /\ ~hist.stale
      /\ daemon.pc # "none" => daemon.at = files.env
      /\ \A d \in Dirs : mnt[d] # "none" => d = files.env
      /\ mnt \in Mounts /\ files.env \in Dirs \union {"none"} /\ daemon.at \in Dirs
    BY StaleStays DEF TypeOK, Placed, Mounts
<1>1. CASE InitStep
    <2>1. PICK d \in Dirs : /\ files' = [files EXCEPT !.env = d, !.unit = d]
                            /\ hist' = [hist EXCEPT !.stale = @ \/ (Recorded # "none" /\ Recorded # d)]
        BY <1>1, Zenon DEF InitStep
    <2>2. files.env = "none" \/ files.env = d
        BY <2>1, Zenon DEF TypeOK, Recorded
    <2>3. mnt' = mnt /\ daemon' = daemon
        BY <1>1 DEF InitStep
    <2>4. files'.env = d
        BY <2>1 DEF TypeOK
    <2>5. files.env = "none" => daemon.pc = "none"
        BY DEF OneFolder, UnitRuns
    <2> QED BY <1>0, <2>2, <2>3, <2>4, <2>5, HomeAssumption
<1>2. CASE Purge
    <2>1. \A d \in Dirs : mnt[d] = "none"
        <3>1. tool.op = "purge" /\ Len(tool.todo) = 1
            BY <1>2, AtPurge DEF Purge
        <3> QED BY <1>0, <3>1 DEF PurgeProgress
    <2>2. daemon.pc = "none" /\ UNCHANGED <<mnt, daemon>>
        BY <1>2, AtPurge DEF Purge, UnitRuns
    <2> QED BY <2>1, <2>2
<1>3. CASE Disable \/ Menu
    <2>1. UNCHANGED <<mnt, daemon, files.env>>
        BY <1>3 DEF Disable, Menu, TypeOK
    <2> QED BY <1>0, <2>1
<1>4. CASE Cleanup
    BY <1>0, <1>4, DetachedTakes, LosingStays, SMTT(20) DEF Cleanup, Recorded
<1>5. CASE (SystemctlStart /\ files.unit # "none" /\ ~Running) \/ Respawn
    <2>1. Launch /\ files.unit # "none" /\ files' = files
        BY <1>5 DEF SystemctlStart, Respawn, UnitRuns, Inside
    <2> QED BY <1>0, <2>1, LaunchType DEF OneFolder
<1>6. CASE SystemctlStart /\ (files.unit = "none" \/ Running)
    BY <1>0, <1>6 DEF SystemctlStart
<1>7. CASE SystemctlStop
    BY <1>0, <1>7, StopType DEF SystemctlStop, NoDaemon
<1>8. CASE Mount
    BY <1>0, <1>8 DEF Mount, Inside, Mounts, TypeOK
<1>9. CASE StartFails \/ Crash \/ Leave
    <2>1. \E killed, error \in BOOLEAN : Ends(killed, error)
        BY <1>9, Zenon DEF StartFails, Crash, Leave
    <2>2. files' = files
        BY <1>9, Zenon DEF StartFails, Crash, Leave, Inside
    <2> QED BY <1>0, <2>1, <2>2, EndsType DEF NoDaemon
<1>10. CASE Eject
    BY <1>0, <1>10, DetachedTakes, LosingStays DEF Eject, Inside
<1>11. CASE UNCHANGED <<mnt, daemon, files>>
    BY <1>0, <1>11
<1>12. Next => \/ InitStep \/ Purge \/ Disable \/ Menu \/ Cleanup \/ SystemctlStart \/ Respawn \/ SystemctlStop
               \/ Mount \/ StartFails \/ Crash \/ Leave \/ Eject \/ UNCHANGED <<mnt, daemon, files>>
    BY DEF Next, Step, Command, Configure, Authenticate, Note, IsActive, Remove, StartAgain, InstallWatcher,
        RemoveWatcher, TrackerIgnore, Works, Tick, WatcherCrash, Inside
<1> QED BY <1>1, <1>2, <1>3, <1>4, <1>5, <1>6, <1>7, <1>8, <1>9, <1>10, <1>11, <1>12 DEF vars

-----------------------------------------------------------------------------
(* What goes on beside a command undoes nothing of what it has done. *)

Beside == \/ Mount \/ StartFails \/ Crash \/ Eject \/ Leave \/ Respawn \/ Works \/ Tick \/ WatcherCrash
          \/ UNCHANGED vars

LEMMA BesideSame ==
    ASSUME IInv, Beside
    PROVE  /\ UNCHANGED <<tool, files>>
           /\ svc = "off" => svc' = "off" /\ UNCHANGED <<mnt, cache>>
           /\ watcher = "none" => watcher' = "none"
           /\ hist'.stale \/ ~hist.stale
<1> USE DEF IInv
<1>1. UNCHANGED <<tool, files>>
    BY Zenon DEF Beside, Mount, StartFails, Crash, Eject, Leave, Respawn, Works, Tick, WatcherCrash, Inside, vars
<1>2. ASSUME svc = "off" PROVE svc' = "off" /\ UNCHANGED <<mnt, cache>>
    <2>1. daemon.pc = "none"
        BY <1>2 DEF UnitRuns
    <2>2. Works \/ Tick \/ WatcherCrash \/ UNCHANGED vars
        BY <1>2, <2>1 DEF Beside, Mount, StartFails, Crash, Eject, Leave, Respawn, Mounted
    <2> QED BY <1>2, <2>2 DEF Works, Tick, WatcherCrash, vars
<1>3. ASSUME watcher = "none" PROVE watcher' = "none"
    BY <1>3, Zenon DEF Beside, Mount, StartFails, Crash, Eject, Leave, Respawn, Works, Tick, WatcherCrash, Inside, vars,
       Unwatches, Noticed, Silent
<1>4. [Next]_vars
    BY DEF Beside, Next
<1> QED BY <1>1, <1>2, <1>3, <1>4, StaleStays

LEMMA UninstallKept == ASSUME IInv, [Next]_vars PROVE UninstallProgress'
<1> USE DEF IInv
<1> SUFFICES ASSUME tool'.op = "uninstall", tool'.todo = <<"disable", "cleanup">> PROVE svc' = "off"
    BY DEF UninstallProgress
<1>1. CASE Command
    BY <1>1, Given
<1>2. CASE Step
    <2>1. PICK step \in Steps : At(step) /\ (Goes \/ Fails \/ IsActive \/ StartAgain)
        BY <1>2, Zenon DEF Step, InitStep, Configure, Authenticate, Cleanup, SystemctlStart, SystemctlStop, Disable,
           Note, IsActive, Remove, StartAgain, Purge, InstallWatcher, RemoveWatcher, Menu, TrackerIgnore, Steps
    <2>2. CASE Goes
        <3>1. tool.op = "uninstall" /\ Tail(tool.todo) = <<"disable", "cleanup">>
            BY <2>1, <2>2, Went
        <3>2. step = "stop"
            BY <2>1, <3>1, UninstallOn DEF At, Position
        <3>3. SystemctlStop
            BY <1>2, <2>1, <3>2, Zenon DEF Step, At, InitStep, Configure, Authenticate, Cleanup, SystemctlStart, Disable,
               Note, IsActive, Remove, StartAgain, Purge, InstallWatcher, RemoveWatcher, Menu, TrackerIgnore
        <3> QED BY <3>3 DEF SystemctlStop
    <2>3. CASE Fails
        BY <2>3 DEF Fails, TypeOK
    <2>4. CASE IsActive
        BY <2>4, AtFacts DEF IsActive, TypeOK, PlainSteps
    <2>5. CASE StartAgain
        BY <2>5, Again
    <2> QED BY <2>1, <2>2, <2>3, <2>4, <2>5
<1>3. CASE Beside
    BY <1>3, BesideSame DEF UninstallProgress
<1> QED BY <1>1, <1>2, <1>3 DEF Next, Beside

\* The steps of an uninstall with --purge.
LEMMA PurgeStep ==
    ASSUME IInv, Step, tool'.op = "purge"
    PROVE  /\ tool.op = "purge" /\ Len(tool.todo) \in 1..6 /\ Len(tool'.todo) = Len(tool.todo) - 1
           /\ \/ RemoveWatcher /\ Len(tool.todo) = 6
              \/ Menu /\ ~At("menu") /\ Len(tool.todo) = 5
              \/ SystemctlStop /\ Len(tool.todo) = 4
              \/ Disable /\ Len(tool.todo) = 3
              \/ Cleanup /\ Len(tool.todo) = 2
              \/ Purge /\ Len(tool.todo) = 1
<1> USE DEF IInv
<1>1. PICK step \in Steps : At(step) /\ (Goes \/ Fails \/ IsActive \/ StartAgain)
    BY Zenon DEF Step, InitStep, Configure, Authenticate, Cleanup, SystemctlStart, SystemctlStop, Disable,
       Note, IsActive, Remove, StartAgain, Purge, InstallWatcher, RemoveWatcher, Menu, TrackerIgnore, Steps
<1>2. ~IsActive
    <2>1. SUFFICES ASSUME IsActive PROVE FALSE
        OBVIOUS
    <2>2. At("active") /\ tool'.op = tool.op
        BY <2>1 DEF IsActive, TypeOK
    <2> QED BY <2>2, AtFacts DEF PlainSteps
<1>3. ~StartAgain
    BY Again
<1>4. ~Fails
    BY Gave
<1>5. Goes
    BY <1>1, <1>2, <1>3, <1>4
<1>6. tool.op = "purge" /\ Len(tool'.todo) = Len(tool.todo) - 1
    BY <1>1, <1>5, Went
<1>7. /\ Len(tool.todo) \in 1..6
      /\ \A name : At(name) =>
            name = CASE Len(tool.todo) = 6 -> "unwatch" [] Len(tool.todo) = 5 -> "unmenu"
                     [] Len(tool.todo) = 4 -> "stop" [] Len(tool.todo) = 3 -> "disable"
                     [] Len(tool.todo) = 2 -> "cleanup" [] Len(tool.todo) = 1 -> "purge"
    BY <1>1, <1>6, AtFacts
<1>8. \A name : At(name) => name \in {"unwatch", "unmenu", "stop", "disable", "cleanup", "purge"}
    BY <1>7
<1>9. RemoveWatcher \/ (Menu /\ ~At("menu")) \/ SystemctlStop \/ Disable \/ Cleanup \/ Purge
    <2>1. /\ ~At("init") /\ ~At("configure") /\ ~At("auth") /\ ~At("start") /\ ~At("note")
          /\ ~At("remove") /\ ~At("watch") /\ ~At("ignore") /\ ~At("menu")
        BY <1>8
    <2> QED BY <1>2, <1>3, <2>1, Zenon DEF Step, InitStep, Configure, Authenticate, SystemctlStart, Note, Remove,
            InstallWatcher, TrackerIgnore
<1>10. RemoveWatcher => At("unwatch") /\ Len(tool.todo) = 6
    BY <1>7 DEF RemoveWatcher
<1>11. Menu /\ ~At("menu") => Len(tool.todo) = 5
    BY <1>7 DEF Menu
<1>12. SystemctlStop => Len(tool.todo) = 4
    BY <1>7 DEF SystemctlStop
<1>13. Disable => Len(tool.todo) = 3
    BY <1>7 DEF Disable
<1>14. Cleanup => Len(tool.todo) = 2
    BY <1>7 DEF Cleanup
<1>15. Purge => Len(tool.todo) = 1
    BY <1>7 DEF Purge
<1> QED BY <1>6, <1>7, <1>9, <1>10, <1>11, <1>12, <1>13, <1>14, <1>15

LEMMA PurgeKept == ASSUME IInv, [Next]_vars PROVE PurgeProgress'
<1> USE DEF IInv
<1> SUFFICES ASSUME tool'.op = "purge"
             PROVE  /\ Len(tool'.todo) <= 5 => watcher' = "none"
                    /\ Len(tool'.todo) <= 4 => ~files'.menu
                    /\ Len(tool'.todo) <= 3 => svc' = "off"
                    /\ Len(tool'.todo) <= 2 => files'.unit = "none"
                    /\ Len(tool'.todo) <= 1 => (~hist'.stale => \A d \in Dirs : mnt'[d] = "none")
                    /\ Len(tool'.todo) = 0 => files'.env = "none" /\ ~cache'
    BY DEF PurgeProgress
<1>1. CASE Command
    <2>1. Len(tool'.todo) = 6
        BY <1>1, Given
    <2> QED BY <2>1
<1>2. CASE Step
    <2>1. tool.op = "purge" /\ Len(tool.todo) \in 1..6 /\ Len(tool'.todo) = Len(tool.todo) - 1
        BY <1>2, PurgeStep
    <2>2. /\ Len(tool.todo) <= 5 => watcher = "none"
          /\ Len(tool.todo) <= 4 => ~files.menu
          /\ Len(tool.todo) <= 3 => svc = "off"
          /\ Len(tool.todo) <= 2 => files.unit = "none"
          /\ Len(tool.todo) <= 1 => (~hist.stale => \A d \in Dirs : mnt[d] = "none")
        BY <2>1 DEF PurgeProgress
    <2>3. CASE RemoveWatcher /\ Len(tool.todo) = 6
        BY <2>1, <2>3 DEF RemoveWatcher
    <2>4. CASE Menu /\ ~At("menu") /\ Len(tool.todo) = 5
        <3>1. watcher' = watcher /\ ~files'.menu
            BY <2>4 DEF Menu, TypeOK
        <3> QED BY ONLY <2>1, <2>2, <2>4, <3>1
    <2>5. CASE SystemctlStop /\ Len(tool.todo) = 4
        <3>1. (watcher = "none" => watcher' = "none") /\ files' = files /\ svc' = "off"
            BY <2>5 DEF SystemctlStop, Unwatches
        <3> QED BY ONLY <2>1, <2>2, <2>5, <3>1
    <2>6. CASE Disable /\ Len(tool.todo) = 3
        <3>1. watcher' = watcher /\ files'.menu = files.menu /\ svc' = svc /\ files'.unit = "none"
            BY <2>6 DEF Disable, TypeOK
        <3> QED BY ONLY <2>1, <2>2, <2>6, <3>1
    <2>7. CASE Cleanup /\ Len(tool.todo) = 2
        <3>1. UNCHANGED <<watcher, files, svc, hist>> /\ mnt' = Detached(mnt, files.env)
            BY <2>7, Gave DEF Cleanup, Recorded
        <3>2. ASSUME ~hist.stale, NEW d \in Dirs PROVE mnt'[d] = "none"
            <4>1. mnt[d] # "none" => d = files.env
                BY <3>2 DEF Placed
            <4> QED BY <3>1, <4>1, DetachedTakes DEF TypeOK, Mounts
        <3> QED BY ONLY <2>1, <2>2, <2>7, <3>1, <3>2
    <2>8. CASE Purge /\ Len(tool.todo) = 1
        <3>0. ~Fails
            BY Gave
        <3>1. /\ UNCHANGED <<watcher, svc, mnt>> /\ hist'.stale = hist.stale /\ ~cache'
              /\ files'.env = "none" /\ files'.menu = files.menu /\ files'.unit = files.unit
            <4>1. PICK gone \in 0 .. 5 :
                    /\ IF gone = 5 THEN Goes ELSE Fails
                    /\ files' = [files EXCEPT !.env = IF gone > 1 THEN "none" ELSE @]
                    /\ cache' = (cache /\ gone < 4)
                    /\ hist' = [hist EXCEPT !.torn = @ \/ (account.session /\ gone \in 1 .. 2)]
                BY <2>8, Zenon DEF Purge
            <4>2. UNCHANGED <<watcher, svc, mnt>>
                BY <2>8, Zenon DEF Purge
            <4>3. gone = 5 /\ gone > 1 /\ ~(gone < 4)
                BY <3>0, <4>1
            <4>4. files' = [files EXCEPT !.env = "none"]
                BY <4>1, <4>3, Zenon
            <4>5. ~cache'
                BY <4>1, <4>3, Zenon
            <4>6. hist'.stale = hist.stale
                BY <4>1 DEF TypeOK
            <4> QED BY <4>2, <4>4, <4>5, <4>6 DEF TypeOK
        <3> QED BY ONLY <2>1, <2>2, <2>8, <3>1
    <2> QED BY <1>2, <2>3, <2>4, <2>5, <2>6, <2>7, <2>8, PurgeStep
<1>3. CASE Beside
    <2>1. UNCHANGED <<tool, files>> /\ (svc = "off" => svc' = "off" /\ UNCHANGED <<mnt, cache>>)
          /\ (watcher = "none" => watcher' = "none") /\ (hist'.stale \/ ~hist.stale)
        BY <1>3, BesideSame
    <2>2. Len(tool.todo) \in Nat
        BY DEF TypeOK
    <2>3. tool.op = "purge" /\ tool'.todo = tool.todo
        BY <2>1
    <2> QED BY <2>1, <2>2, <2>3 DEF PurgeProgress
<1> QED BY <1>1, <1>2, <1>3 DEF Next, Beside

\* The steps of `icloudctl clear-cache`.
LEMMA ClearStep ==
    ASSUME IInv, Step, tool'.op = "clear"
    PROVE  /\ tool.op = "clear"
           /\ \/ Note /\ tool.todo = <<"note", "active", "stop", "cleanup", "remove", "again">>
                 /\ tool'.todo \in {<<"active", "stop", "cleanup", "remove", "again">>, <<>>}
              \/ IsActive /\ tool.todo = <<"active", "stop", "cleanup", "remove", "again">>
                 /\ tool'.todo = <<"stop", "cleanup", "remove", "again">>
              \/ SystemctlStop /\ tool.todo = <<"stop", "cleanup", "remove", "again">>
                 /\ tool'.todo = <<"cleanup", "remove", "again">>
              \/ Cleanup /\ tool.todo = <<"cleanup", "remove", "again">> /\ tool'.todo = <<"remove", "again">>
              \/ Cleanup /\ tool.todo = <<"cleanup", "start">> /\ tool'.todo = <<"start">>
              \/ Remove /\ tool.todo = <<"remove", "again">> /\ tool'.todo = <<"again">>
              \/ StartAgain /\ tool.todo = <<"again">>
                 /\ tool'.todo = IF tool.was THEN <<"cleanup", "start">> ELSE <<>>
              \/ SystemctlStart /\ tool.todo = <<"start">> /\ tool'.todo = <<>>
           /\ ~IsActive => tool'.was = tool.was
<1> USE DEF IInv
<1>0. ~Fails
    BY Gave
<1>1. PICK step \in Steps : At(step) /\ (Goes \/ Fails \/ IsActive \/ StartAgain)
    BY Zenon DEF Step, InitStep, Configure, Authenticate, Cleanup, SystemctlStart, SystemctlStop, Disable,
       Note, IsActive, Remove, StartAgain, Purge, InstallWatcher, RemoveWatcher, Menu, TrackerIgnore, Steps
<1>2. /\ tool.op = "clear"
      /\ ~IsActive => tool'.was = tool.was
    <2>1. CASE Goes
        BY <1>1, <2>1, Went
    <2>2. CASE Fails
        BY <2>2, Gave
    <2>3. CASE IsActive
        BY <2>3 DEF IsActive, TypeOK
    <2>4. CASE StartAgain
        BY <2>4, Again
    <2> QED BY <1>1, <2>1, <2>2, <2>3, <2>4
<1>3. tool.todo \in ClearTodo /\ tool.todo # <<>>
    BY <1>1, <1>2 DEF Position, At
<1>4. \A name : At(name) => name = Head(tool.todo)
    BY DEF At
<1>5. Head(tool.todo) \in {"note", "active", "stop", "cleanup", "remove", "again", "start"}
    BY <1>3, ClearOn
<1>6. Note \/ IsActive \/ SystemctlStop \/ Cleanup \/ Remove \/ StartAgain \/ SystemctlStart
    <2>1. /\ ~At("init") /\ ~At("configure") /\ ~At("auth") /\ ~At("disable") /\ ~At("purge")
          /\ ~At("watch") /\ ~At("unwatch") /\ ~At("ignore") /\ ~At("menu") /\ ~At("unmenu")
        BY <1>4, <1>5
    <2> QED BY <2>1, Zenon DEF Step, InitStep, Configure, Authenticate, Disable, Purge, InstallWatcher,
            RemoveWatcher, Menu, TrackerIgnore
<1>7. CASE Note
    <2>1. tool.todo = <<"note", "active", "stop", "cleanup", "remove", "again">>
        BY <1>3, <1>7, ClearOn DEF Note, At
    <2>2. tool'.todo = Tail(tool.todo) \/ tool'.todo = <<>>
        BY <1>7 DEF Note, Goes, Fails, TypeOK
    <2>3. Tail(tool.todo) = <<"active", "stop", "cleanup", "remove", "again">>
        BY <2>1
    <2> QED BY ONLY <1>2, <1>7, <2>1, <2>2, <2>3
<1>8. CASE IsActive
    <2>1. tool.todo = <<"active", "stop", "cleanup", "remove", "again">>
        BY <1>3, <1>8, ClearOn DEF IsActive, At
    <2>2. tool'.todo = Tail(tool.todo)
        BY <1>8 DEF IsActive, TypeOK
    <2>3. Tail(tool.todo) = <<"stop", "cleanup", "remove", "again">>
        BY <2>1
    <2> QED BY ONLY <1>2, <1>8, <2>1, <2>2, <2>3
<1>9. CASE SystemctlStop
    <2>1. tool.todo = <<"stop", "cleanup", "remove", "again">>
        BY <1>3, <1>9, ClearOn DEF SystemctlStop, At
    <2>2. tool'.todo = Tail(tool.todo)
        BY <1>9 DEF SystemctlStop, Goes, TypeOK
    <2> QED BY <1>2, <1>9, <2>1, <2>2
<1>10. CASE Cleanup
    <2>1. tool.todo \in {<<"cleanup", "remove", "again">>, <<"cleanup", "start">>}
        BY <1>3, <1>10, ClearOn DEF Cleanup, At
    <2>2. tool'.todo = Tail(tool.todo)
        BY <1>0, <1>10 DEF Cleanup, Goes, TypeOK
    <2>3. /\ Tail(<<"cleanup", "remove", "again">>) = <<"remove", "again">>
          /\ Tail(<<"cleanup", "start">>) = <<"start">>
        OBVIOUS
    <2> QED BY ONLY <1>2, <1>10, <2>1, <2>2, <2>3, Zenon
<1>11. CASE Remove
    <2>1. tool.todo = <<"remove", "again">>
        BY <1>3, <1>11, ClearOn DEF Remove, At
    <2>2. tool'.todo = Tail(tool.todo)
        BY <1>0, <1>11 DEF Remove, Goes, TypeOK
    <2> QED BY <1>2, <1>11, <2>1, <2>2
<1>12. CASE StartAgain
    BY <1>2, <1>12, Again
<1>13. CASE SystemctlStart
    <2>1. tool.todo = <<"start">>
        BY <1>3, <1>13, ClearOn DEF SystemctlStart, At
    <2>2. tool'.todo = Tail(tool.todo) \/ tool'.todo = <<>>
        BY <1>13 DEF SystemctlStart, Goes, Fails, TypeOK
    <2>3. Tail(tool.todo) = <<>> /\ ~IsActive
        BY <1>13, <2>1 DEF SystemctlStart, IsActive, At
    <2> QED BY ONLY <1>2, <1>13, <2>1, <2>2, <2>3
<1> QED BY <1>6, <1>7, <1>8, <1>9, <1>10, <1>11, <1>12, <1>13

\* A daemon that ran as the command was given runs until the command stops it,
\* or it is no more to run.
LEMMA RanStays ==
    ASSUME IInv, Beside, hist'.ran, daemon.pc = "starting" \/ Mounted
    PROVE  hist.ran /\ (daemon'.pc = "starting" \/ Mounted')
<1> USE DEF IInv
<1>1. ~StartFails /\ ~Crash /\ ~Eject
    BY Zenon DEF StartFails, Crash, Eject, TypeOK
<1>2. ~Leave
    BY Zenon DEF Leave, Mounted
<1>3. hist.ran
    BY <1>1, <1>2, Zenon DEF Beside, Mount, Respawn, Works, Tick, WatcherCrash, vars, TypeOK
<1>4. ~Respawn
    BY DEF Respawn, UnitRuns, Mounted
<1>5. CASE Mount
    <2>1. daemon'.pc \in {"serving", "cached"}
        BY <1>5 DEF Mount, TypeOK
    <2> QED BY <1>3, <2>1 DEF Mounted
<1>6. CASE Works \/ Tick \/ WatcherCrash \/ UNCHANGED vars
    <2>1. daemon' = daemon
        BY <1>6 DEF Works, Tick, WatcherCrash, vars
    <2> QED BY <1>3, <2>1 DEF Mounted
<1> QED BY <1>1, <1>2, <1>3, <1>4, <1>5, <1>6 DEF Beside

\* ... and no step beside a command makes it one that ran.
LEMMA RanBefore ==
    ASSUME TypeOK, Step \/ Beside, hist'.ran
    PROVE  hist.ran
<1>1. CASE Beside
    BY <1>1, Zenon DEF Beside, Mount, StartFails, Crash, Eject, Leave, Respawn, Works, Tick, WatcherCrash, vars, TypeOK
<1>2. CASE Step
    BY <1>2, Zenon DEF Step, InitStep, Configure, Authenticate, Cleanup, SystemctlStart, SystemctlStop, Disable,
       Note, IsActive, Remove, StartAgain, Purge, InstallWatcher, RemoveWatcher, Menu, TrackerIgnore, TypeOK
<1> QED BY <1>1, <1>2

LEMMA ClearKept == ASSUME IInv, [Next]_vars PROVE ClearProgress'
<1> USE DEF IInv
<1> SUFFICES ASSUME tool'.op = "clear"
             PROVE  /\ tool'.todo \in {<<"cleanup", "remove", "again">>, <<"remove", "again">>, <<"again">>,
                                        <<"cleanup", "start">>, <<"start">>} => svc' = "off"
                    /\ hist'.ran /\ tool'.todo # <<>> => files'.unit # "none"
                    /\ hist'.ran /\ tool'.todo # <<>> /\ Head(tool'.todo) \in {"note", "active"} =>
                           daemon'.pc = "starting" \/ Mounted'
                    /\ hist'.ran /\ tool'.todo \in {<<"stop", "cleanup", "remove", "again">>,
                           <<"cleanup", "remove", "again">>, <<"remove", "again">>, <<"again">>} => tool'.was
    BY DEF ClearProgress
<1>1. CASE Command
    <2>1. tool'.todo = <<"note", "active", "stop", "cleanup", "remove", "again">>
        BY <1>1, Given
    <2>2. UNCHANGED <<files, daemon>> /\ (hist'.ran <=> daemon.pc = "starting" \/ Mounted)
        BY <1>1, Zenon DEF Command, TypeOK, Mounted
    <2>3. hist'.ran => (daemon'.pc = "starting" \/ Mounted') /\ files'.unit # "none"
        BY <2>2 DEF Mounted, UnitRuns
    <2> QED BY ONLY <2>1, <2>3
<1>2. CASE Step
    <2>1. tool.op = "clear" /\ (hist'.ran => hist.ran) /\ (~IsActive => tool'.was = tool.was)
        BY <1>2, ClearStep, RanBefore
    <2>2. CASE Note /\ tool.todo = <<"note", "active", "stop", "cleanup", "remove", "again">>
               /\ tool'.todo \in {<<"active", "stop", "cleanup", "remove", "again">>, <<>>}
        <3>1. UNCHANGED <<files, daemon>>
            BY <2>2 DEF Note
        <3>2. hist.ran => files.unit # "none" /\ (daemon.pc = "starting" \/ Mounted)
            BY <2>1, <2>2 DEF ClearProgress
        <3>3. hist'.ran => files'.unit # "none" /\ (daemon'.pc = "starting" \/ Mounted')
            BY <2>1, <3>1, <3>2 DEF Mounted
        <3> QED BY ONLY <2>2, <3>3, SMTT(20)
    <2>3. CASE IsActive /\ tool.todo = <<"active", "stop", "cleanup", "remove", "again">>
               /\ tool'.todo = <<"stop", "cleanup", "remove", "again">>
        <3>1. files' = files /\ tool'.was = Running
            BY <2>3 DEF IsActive, TypeOK, Running
        <3>2. hist.ran => files.unit # "none" /\ (daemon.pc = "starting" \/ Mounted)
            BY <2>1, <2>3 DEF ClearProgress
        <3>3. hist'.ran => files'.unit # "none" /\ tool'.was
            BY <2>1, <3>1, <3>2, Zenon DEF UnitRuns, Running, Mounted
        <3> QED BY ONLY <2>3, <3>3
    <2>4. CASE SystemctlStop /\ tool.todo = <<"stop", "cleanup", "remove", "again">>
               /\ tool'.todo = <<"cleanup", "remove", "again">>
        <3>1. files' = files /\ svc' = "off" /\ ~IsActive
            BY <2>4 DEF SystemctlStop, IsActive, At
        <3>2. hist.ran => files.unit # "none" /\ tool.was
            BY <2>1, <2>4 DEF ClearProgress
        <3> QED BY ONLY <2>1, <2>4, <3>1, <3>2
    <2>5. CASE (Cleanup /\ tool.todo = <<"cleanup", "remove", "again">> /\ tool'.todo = <<"remove", "again">>)
               \/ (Remove /\ tool.todo = <<"remove", "again">> /\ tool'.todo = <<"again">>)
        <3>1. files' = files /\ svc' = svc /\ ~IsActive
            BY <2>5 DEF Cleanup, Remove, IsActive, At
        <3>2. svc = "off" /\ (hist.ran => files.unit # "none" /\ tool.was)
            <4>1. CASE tool.todo = <<"cleanup", "remove", "again">>
                BY <2>1, <4>1 DEF ClearProgress
            <4>2. CASE tool.todo = <<"remove", "again">>
                BY <2>1, <4>2 DEF ClearProgress
            <4> QED BY <2>5, <4>1, <4>2
        <3> QED BY ONLY <2>1, <2>5, <3>1, <3>2
    <2>6. CASE Cleanup /\ tool.todo = <<"cleanup", "start">> /\ tool'.todo = <<"start">>
        <3>1. files' = files /\ svc' = svc
            BY <2>6 DEF Cleanup
        <3>2. svc = "off" /\ (hist.ran => files.unit # "none")
            BY <2>1, <2>6 DEF ClearProgress
        <3> QED BY ONLY <2>1, <2>6, <3>1, <3>2
    <2>7. CASE StartAgain /\ tool.todo = <<"again">>
               /\ tool'.todo = IF tool.was THEN <<"cleanup", "start">> ELSE <<>>
        <3>1. files' = files /\ svc' = svc
            BY <2>7 DEF StartAgain
        <3>2. svc = "off" /\ (hist.ran => files.unit # "none")
            BY <2>1, <2>7 DEF ClearProgress
        <3> QED BY ONLY <2>1, <2>7, <3>1, <3>2
    <2>8. CASE SystemctlStart /\ tool.todo = <<"start">> /\ tool'.todo = <<>>
        BY ONLY <2>8
    <2>9. \/ Note /\ tool.todo = <<"note", "active", "stop", "cleanup", "remove", "again">>
             /\ tool'.todo \in {<<"active", "stop", "cleanup", "remove", "again">>, <<>>}
          \/ IsActive /\ tool.todo = <<"active", "stop", "cleanup", "remove", "again">>
             /\ tool'.todo = <<"stop", "cleanup", "remove", "again">>
          \/ SystemctlStop /\ tool.todo = <<"stop", "cleanup", "remove", "again">>
             /\ tool'.todo = <<"cleanup", "remove", "again">>
          \/ Cleanup /\ tool.todo = <<"cleanup", "remove", "again">> /\ tool'.todo = <<"remove", "again">>
          \/ Cleanup /\ tool.todo = <<"cleanup", "start">> /\ tool'.todo = <<"start">>
          \/ Remove /\ tool.todo = <<"remove", "again">> /\ tool'.todo = <<"again">>
          \/ StartAgain /\ tool.todo = <<"again">>
             /\ tool'.todo = IF tool.was THEN <<"cleanup", "start">> ELSE <<>>
          \/ SystemctlStart /\ tool.todo = <<"start">> /\ tool'.todo = <<>>
        BY <1>2, ClearStep
    <2> QED BY ONLY <2>2, <2>3, <2>4, <2>5, <2>6, <2>7, <2>8, <2>9
<1>3. CASE Beside
    <2>1. tool' = tool /\ files' = files /\ (svc = "off" => svc' = "off") /\ (hist'.ran => hist.ran)
        BY <1>3, BesideSame, RanBefore
    <2>2. hist'.ran /\ (daemon.pc = "starting" \/ Mounted) => daemon'.pc = "starting" \/ Mounted'
        BY <1>3, RanStays
    <2>3. /\ tool.todo \in {<<"cleanup", "remove", "again">>, <<"remove", "again">>, <<"again">>,
                            <<"cleanup", "start">>, <<"start">>} => svc = "off"
          /\ hist.ran /\ tool.todo # <<>> => files.unit # "none"
          /\ hist.ran /\ tool.todo # <<>> /\ Head(tool.todo) \in {"note", "active"} =>
                 daemon.pc = "starting" \/ Mounted
          /\ hist.ran /\ tool.todo \in {<<"stop", "cleanup", "remove", "again">>,
                 <<"cleanup", "remove", "again">>, <<"remove", "again">>, <<"again">>} => tool.was
        BY <2>1 DEF ClearProgress
    <2>4. /\ hist'.ran /\ tool.todo # <<>> /\ Head(tool.todo) \in {"note", "active"} =>
                 daemon'.pc = "starting" \/ Mounted'
          /\ tool.todo \in {<<"cleanup", "remove", "again">>, <<"remove", "again">>, <<"again">>,
                            <<"cleanup", "start">>, <<"start">>} => svc' = "off"
        BY ONLY <2>1, <2>2, <2>3
    <2> QED BY ONLY <2>1, <2>3, <2>4
<1> QED BY <1>1, <1>2, <1>3 DEF Next, Beside

-----------------------------------------------------------------------------
(* The theorems. *)

LEMMA InvariantInit == ASSUME Init PROVE IInv
<1>1. TypeOK
    <2>1. <<>> \in Seq(Steps) /\ "none" \in Ops
        BY DEF Ops
    <2>2. /\ tool \in [op : Ops, todo : Seq(Steps), was : BOOLEAN]
          /\ left \in [commands : Nat, faults : Nat]
        BY <2>1, BoundAssumption DEF Init
    <2> HIDE DEF Ops
    <2> QED BY <2>2, HomeAssumption, Zenon DEF Init, TypeOK, NoDaemon
<1>2. Position
    BY DEF Init, Position
<1>3. Len(<<>>) = 0 /\ tool.op = "none"
    BY DEF Init
<1> QED BY <1>1, <1>2, <1>3 DEF Init, IInv, SessionNamed, OneFolder, UnitRuns, NothingSeen, LabelKnown, Placed,
        ClearProgress, UninstallProgress, PurgeProgress, NoDaemon

LEMMA InvariantKept == ASSUME IInv, [Next]_vars PROVE IInv'
BY TypeKept, ToolKept, SessionKept, FolderKept, UnitKept, SeenKept, LabelKept, PlaceKept, ClearKept,
   UninstallKept, PurgeKept DEF IInv

THEOREM Invariant == Spec => []IInv
BY InvariantInit, InvariantKept, PTL DEF Spec

\* An installation of which `icloudctl doctor` finds no problem has a user and a
\* unit for the folder it mounts (setup.rs doctor).
THEOREM DoctorIsRight == Spec => []DoctorKnows
<1>1. IInv => DoctorKnows
    BY DEF IInv, SessionNamed, OneFolder, DoctorKnows, Healthy, Recorded
<1> QED BY <1>1, Invariant, PTL

\* A busy label is one the watcher will make plain again (status.rs reset).
THEOREM NoLabelForgotten == Spec => []LabelKnown
<1>1. IInv => LabelKnown
    BY DEF IInv
<1> QED BY <1>1, Invariant, PTL

\* `icloudctl uninstall --purge` leaves nothing behind (setup.rs uninstall).
THEOREM PurgeIsClean == Spec => []PurgedClean
<1>1. ASSUME IInv PROVE PurgedClean
    <2> USE DEF IInv
    <2> SUFFICES ASSUME Done("purge"), ~hist.stale
                 PROVE  /\ svc = "off" /\ files = [env |-> "none", unit |-> "none", menu |-> FALSE]
                        /\ \A d \in Dirs : mnt[d] = "none"
                        /\ watcher = "none" /\ label = {} /\ ~cache
        BY DEF PurgedClean
    <2>1. tool.op = "purge" /\ Len(tool.todo) = 0
        BY DEF Done
    <2>2. /\ watcher = "none" /\ ~files.menu /\ svc = "off" /\ files.unit = "none" /\ files.env = "none"
          /\ ~cache /\ \A d \in Dirs : mnt[d] = "none"
        BY <1>1, <2>1 DEF PurgeProgress
    <2>3. label = {}
        BY <1>1, <2>2, ResetClears, Zenon
    <2> QED BY <1>1, <2>2, <2>3 DEF TypeOK
<1> QED BY <1>1, Invariant, PTL

\* No daemon uses the cache that is removed (setup.rs clear_cache, uninstall).
THEOREM CacheIsFree == Spec => CacheNotInUse
<1>1. ASSUME IInv, [Next]_vars PROVE cache /\ ~cache' => daemon.pc = "none"
    <2> USE DEF IInv
    <2>1. CASE Remove
        BY <1>1, <2>1, AtRemove DEF Remove, UnitRuns
    <2>2. CASE Purge
        BY <1>1, <2>2, AtPurge DEF Purge, UnitRuns
    <2>3. CASE Mount \/ StartFails
        BY <1>1, <2>3, Zenon DEF Mount, StartFails, TypeOK
    <2>4. CASE UNCHANGED cache
        BY <2>4
    <2>5. Next => Remove \/ Purge \/ Mount \/ StartFails \/ UNCHANGED cache
        BY Zenon DEF Next, Step, Command, InitStep, Configure, Authenticate, Cleanup, SystemctlStart, SystemctlStop,
            Disable, Note, IsActive, StartAgain, InstallWatcher, RemoveWatcher, Menu, TrackerIgnore, Crash,
            Eject, Leave, Respawn, Works, Tick, WatcherCrash
    <2> QED BY <1>1, <2>1, <2>2, <2>3, <2>4, <2>5, Zenon DEF vars
<1>2. ASSUME IInv, [Next]_vars PROVE [cache /\ ~cache' => daemon.pc = "none"]_vars
    BY <1>1, <1>2
<1> QED BY <1>2, Invariant, PTL DEF Spec, CacheNotInUse

\* A service that ran and did not fail runs again when its cache is cleared
\* (setup.rs clear_cache).
THEOREM ClearStartsAgain == Spec => ClearedRestarts
<1>1. ASSUME IInv, [Next]_vars, tool.todo # <<>>, tool'.op = "clear", tool'.todo = <<>>, hist.ran
      PROVE  svc' # "off"
    <2> USE DEF IInv
    <2>1. CASE Command
        BY <1>1, <2>1 DEF Command
    <2>2. CASE Step
        <3>1. tool.op = "clear"
            BY <1>1, <2>2, ClearStep
        <3>2. \/ StartAgain /\ tool.todo = <<"again">>
                 /\ tool'.todo = IF tool.was THEN <<"cleanup", "start">> ELSE <<>>
              \/ SystemctlStart /\ tool.todo = <<"start">>
            <4>1. Note => FALSE
                <5>1. ASSUME Note PROVE Goes
                    BY <1>1, <5>1, Gave DEF Note
                <5>2. ASSUME Note, Goes PROVE FALSE
                    <6>1. tool.todo = <<"note", "active", "stop", "cleanup", "remove", "again">>
                        BY <1>1, <3>1, <5>2, ClearOn DEF Note, At, Position
                    <6>2. tool'.todo = Tail(tool.todo)
                        BY <1>1, <5>2 DEF Goes, TypeOK
                    <6>3. Tail(tool.todo) # <<>>
                        BY <6>1
                    <6> QED BY ONLY <1>1, <6>2, <6>3
                <5> QED BY <5>1, <5>2
            <4> QED BY <1>1, <2>2, <4>1, ClearStep
        <3>3. CASE StartAgain /\ tool.todo = <<"again">>
                 /\ tool'.todo = IF tool.was THEN <<"cleanup", "start">> ELSE <<>>
            <4>1. tool.was
                BY <1>1, <3>1, <3>3 DEF ClearProgress
            <4> QED BY <1>1, <3>3, <4>1
        <3>4. CASE SystemctlStart /\ tool.todo = <<"start">>
            <4>1. files.unit # "none"
                BY <1>1, <3>1, <3>4 DEF ClearProgress
            <4> QED BY <3>4, <4>1, Zenon DEF SystemctlStart, Running, Launch
        <3> QED BY <3>2, <3>3, <3>4
    <2>3. CASE Beside
        BY <1>1, <2>3, BesideSame
    <2> QED BY <1>1, <2>1, <2>2, <2>3 DEF Next, Beside
<1>2. ASSUME IInv, [Next]_vars
      PROVE  [tool.todo # <<>> /\ Done("clear")' /\ hist.ran => svc' # "off"]_vars
    BY <1>1, <1>2 DEF Done
<1> QED BY <1>2, Invariant, PTL DEF Spec, ClearedRestarts
=============================================================================
