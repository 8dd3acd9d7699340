-------------------------------- MODULE Bulk --------------------------------
(***************************************************************************)
(* `icloudctl hydrate' and `icloudctl download' (commands.rs, hydrate.rs)  *)
(* against the running engine of Downloads: the command plans once, by the *)
(* database, what there is to download, then opens each file through the   *)
(* mount and reads a byte of it, which a thread of the daemon serves.  One *)
(* command is given.  The order of the files, their sizes and the counts   *)
(* it reports at the end are left out.                                     *)
(***************************************************************************)
EXTENDS Downloads

CONSTANT Server    \* the FUSE thread that serves the command's requests

ASSUME ServerAssumption == Server \in Caller

VARIABLE bulk  \* the command: where it is, the file it reads, and what is pending

\* Files that are local are left out.
Planned(files) == {f \in files : ~row[f].hydrated}

\* Nothing to do, or off it goes.
Runs(files) ==
    /\ bulk.pc = "none"
    /\ bulk' = [bulk EXCEPT !.pc = IF Planned(files) = {} THEN "ended" ELSE "next", !.pending = Planned(files)]
    /\ UNCHANGED vars

Hydrate == Runs(File)

\* What was picked in the file manager, and what is below it.
Download == \E picked \in SUBSET File \ {{}} : Runs(picked)

\* hydrate::run, at the head of its loop; Ctrl-C may have been pressed.
NextFile ==
    /\ bulk.pc = "next"
    /\ \/ bulk' = [bulk EXCEPT !.pc = "ended"]
       \/ \E f \in bulk.pending :
             bulk' = [bulk EXCEPT !.pc = "touch", !.file = f, !.pending = @ \ {f}]
    /\ UNCHANGED vars

\* The file has been read, or could not be, which is counted and no more.
Onward == [bulk EXCEPT !.pc = "next", !.file = NoFile]

\* hydrate::touch reaches the daemon: ensure_content, which hydrates.  The read after
\* the open does so once more if the file became a placeholder between; here it is one call.
Touch ==
    /\ bulk.pc = "touch" /\ th[Server].pc = "idle"
    /\ IF row[bulk.file].hydrated
       THEN bulk' = Onward /\ UNCHANGED <<th, tries>>
       ELSE /\ bulk' = [bulk EXCEPT !.pc = "waits"]
            /\ Take(Server, "check", bulk.file) /\ tries' = [tries EXCEPT ![Server] = 1]
    /\ UNCHANGED <<world, row, queue, locks, todo>>

\* The call has returned, with the file or with an error.
Answered == IF bulk.pc = "waits" /\ th'[Server].pc = "idle" THEN Onward ELSE bulk

BulkInit ==
    /\ Init
    /\ bulk = [pc |-> "none", file |-> NoFile, pending |-> {}]

Command == Hydrate \/ Download \/ NextFile \/ Touch

BulkNext == Command \/ (Next /\ bulk' = Answered)

\* The command goes on, as the daemon does.
BulkSpec ==
    /\ BulkInit /\ [][BulkNext]_<<vars, bulk>>
    /\ Fairness /\ WF_<<vars, bulk>>(NextFile \/ Touch)

-----------------------------------------------------------------------------
\* A command comes to its end (hydrate.rs run): whatever the workers and the crawlers do
\* to the file it waits for, and to its locks, its call returns (download.rs hydrate).
BulkEnds == bulk.pc # "none" ~> bulk.pc = "ended"
=============================================================================
