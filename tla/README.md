# icloud-linux: a verification development

TLA+ models of the daemon that mounts iCloud Drive as a folder, and of the tools
around it, the TLC instances that model-check them, and proofs for TLAPS. Paths
below are relative to the repository; `core` is `crates/icloud-core/src`.

Two questions run through the project. **Can the daemon lose, mix up or
resurrect a file while the user, iCloud and its own threads change it at the
same time, and do both sides agree in the end?** And: **is what the tools tell
the user true** - of a download, a refresh, a sign-in, an installation?

## The system

| Component | State it keeps | Operations | Talks to |
|---|---|---|---|
| State database (`core/state.rs`) | rows by path (identity, etag, dirty, hydrated, tombstone, last_synced_at), pending operations, listing marks | upsert, mark dirty / clean / hydrated / tombstone, subtree rename, bury, detach, remove | everybody; one statement at a time |
| Mirror (`core/mirror.rs`) | the file or placeholder at each path | create, write, stage, commit, rename, remove | everybody |
| File system calls (`core/fs.rs`) | none | lookup, open, create, write, set_mtime, unlink, rename, mkdir, rmdir | database, mirror, hydrate |
| Upload pass (`core/engine/upload.rs`) | the dirty rows it read at its start; `upload_lock` | deletes, folders, files, renames | database, mirror, drive |
| Listing, crawl (`core/engine/remote.rs`) | the listing it fetched; listing failures | apply each item, conflicts, sweep | database, mirror, drive, scheduling |
| Downloads (`core/engine/download.rs`) | `path_locks`, `download_gate`, `scheduled`, `attempts`, delay queue | ensure_local_file, hydrate, workers with retries | drive, mirror, database |
| Helpers (`core/engine/sync_util.rs`) | Signal, KeyedLocks, DelayQueue | raise/wait, acquire/release, push/pop/close | the engine's threads |
| Lifecycle (`core/engine/mod.rs`) | threads, `stop`, `refresh_now`, `auth_lost` | start, reconcile, loops, shutdown | all of the engine |
| Drive (`crates/icloud-api/src/drive.rs`, `memory.rs`) | the items on iCloud | children, open, upload, delete, rename, move | other devices |
| Inode table, FUSE adapter, daemon (`crates/icloudd/src`) | by_ino, by_path, handles, sync marker | FUSE requests, SIGUSR1, shutdown | file system calls, engine |
| Sync marker (`core/sync_request.rs`) | a file | request, wait | daemon |
| Client, session, two-factor (`crates/icloud-api/src`) | cookies, tokens, the challenge | resume, login, verify, trust | Apple |
| Sign-in worker, installer (`core/installer`, `core/connect.rs`) | attempts left | login, send SMS, verify | client |
| Installer window (`icloud-installer/src/wizard.rs`) | page, sensitivity of buttons, plan, background jobs | clicks, job results, worker events | installer, sign-in worker |
| Setup, commands (`core/setup.rs`, `icloudctl/src`) | icloud.env, config.yaml, the unit, the session | init, start, stop, clear-cache, uninstall, auth, sync, download | systemd, client, daemon |
| Status monitor (`core/status.rs`) | position in the log, activity, the bookmark's label | poll, reset | log file |
| Policy, readers, password proof | none | | |

How they interact: FUSE threads, the upload loop, the refresh loop, the warm-up
workers and the on-demand refresh all work on the same database and mirror. The
`path_locks` are taken by downloads (the file) and by lazy listings (the
folder) only; no transaction spans the mirror and the database; every request
to iCloud may take minutes, and what was read before it is used after it.

What is hard, and what is therefore modelled step by step: a call between two
steps of the upload pass, a listing that is older than an upload, a download
that is outlived by its row, an order of deletes, renames and uploads in one
pass that iCloud answers with a numbered copy, a crash between the mirror and
the database, a failed step of several, a lost wake-up; a path that was right
when an inode was looked up; a marker left by an older refresh; two processes
with one session on disk; a job that returns to another page than it left; a
command that finds the service in a state between two. `PROJECT.json` lists
every such hazard at its line.

What makes each part correct:
*database* one row per identity, flags that do not contradict each other;
*calls, upload, listing, downloads together* no edit is lost, a delete stays a
delete, no zeros of a placeholder reach iCloud, a clean file is what iCloud
has, no file without a row, agreement in the end;
*downloads* one job per file, one stream at a time, every file in the end, and
an answer to everyone who waits;
*lifecycle* a restart at any step loses nothing, workers end at shutdown;
*inode table* a bijection in which a number follows its object through what the
kernel asks for;
*refresh* a listing never goes back, a success means the mount is as new as the
request;
*sign-in* no more than three wrong codes that were answered, one proof, no
half-trusted session, a saved session serves;
*service* comes back after a crash, nothing stays after a purge, no cache is
removed under a daemon.

## Modules

| Module | Models |
|---|---|
| `Paths` | `core/path.rs`: paths as sequences of names; parent, join, is_within, rebase |
| `SyncState` | `core/state.rs`: a store value `[rows, ops]` and each operation as an operator from store to store |
| `Drive` | `crates/icloud-api/src/drive.rs`, `memory.rs`: items, uploads with numbered copies, delete with and without the etag check |
| `FileSync` | the life of the files of one folder: calls, upload pass, listing or crawl, download, crash and reconciliation, other devices. It composes the three modules above |
| `Downloads` | the warm-up: delay queue, `scheduled`, workers with retries, `hydrate`, path lock, gate, crawler, shutdown |
| `Bulk` | `icloudctl hydrate` and `download` as a program beside `Downloads`, which it extends |
| `Inodes` | `icloudd/src/inodes.rs`: the table as a value and its operations |
| `Numbers` | the abstract promise: a number stays with its file until that is deleted |
| `Adapter` | `icloudd/src/adapter.rs`: threads serving FUSE requests over `Inodes`; implements `Numbers` |
| `Refresh` | `icloudctl sync`, the marker, the signal thread, a thread per request and the refresh loop |
| `SignIn` | client and session of two processes, the daemon's `connect` and `icloudctl auth`; Apple, lost replies, restarts |
| `Wizard` | the installer's window, its background jobs and the sign-in worker |
| `Service` | the commands of `icloudctl` against systemd, the mount, the daemon and the log watcher |
| `MC...` | the instances for TLC |
| `FileSyncProofs`, `CloudProofs`, `DownloadsProofs`, `RefreshProofs`, `SignInProofs`, `WizardProofs`, `ServiceProofs`, `AdapterProofs` | theorems and proofs |

### FileSync and the code

State: `db` is the database, `disk` the mirror, `cloud` the items iCloud has.
`user`, `up`, `list` and `dl` are the local variables of a handler in progress
and the place (`pc`) it has reached. `owed`, `unlinked` and `raced` are ghosts.

Actions: a handler is cut where another thread can come between two of its
effects, that is at each call on a store or on iCloud; reads that follow one
another are one action, and comments say which. `User...` are the calls of
`fs.rs`, `Up...` the pass of `upload.rs` (tombstones, moves, delete-then-send,
fingerprint, new identity), `List...` `apply_remote_item` and what it calls,
then the lazy or the full sweep, `Dl...` `ensure_local_file`, `Restart` a crash
at any point followed by `reconcile_persistent_cache`, which runs before any
thread starts. A failing request is the disjunct that takes the error path.

Abstractions. A content is a number, which is at the same time its bytes and
its (size, mtime): two contents always differ in both, so the special case of
empty files and edits within one clock tick at equal size are left out. Files
lie in the root folder and inside the sync boundary. `last_synced_at` is kept
as what it is compared for: was the row synchronised since the running crawl
began? The rows of one pass are taken in any order within deletes and within
the rest, of which the order of the paths is one. `get_entry_by_remote_id`
picks any row that matches. A failing `open` and the memory of failed listings
are left out. Names for conflicts, numbered copies and buried rows come from
small sets. There is one lister; several refreshes at once are the subject of
`Refresh`.

### Overlap, or what is *not* claimed

The comment at `core/engine/mod.rs:158` asks for "one holder per path at a
time, for anything that changes a path's mirror content or state". Calls, the
upload pass and listings do not take the lock, and TLC found for each of the
windows below a behaviour in which an edit, a delete or an identity is lost.
`Overlap` names these windows, `raced` remembers that one was entered, and the
properties speak of the behaviours without them:

- a call, an upload's last step, a listing or a download's commit is between
  its decision and its effect on a path, and another of them is too
  (`fs.rs:403` with `remote.rs:192`; `upload.rs:196`; `upload.rs:152` with
  `fs.rs:547`; `fs.rs:466` during a first upload);
- a listing puts a placeholder where an upload is about to open the file, or a
  rename puts one there (`upload.rs:189-193`): zeros are sent;
- a listing fetched before the pass replaced, deleted or renamed an item is
  applied after it: a deleted file comes back as a conflict, a file that was
  just uploaded is swept (`remote.rs:103-111` has no guard for recent rows; in
  the full sweep the branches at 359-367 precede the guard at 369);
- a file is sent under a name that an older pending delete or rename has not
  freed yet (`upload.rs:38-46`): iCloud numbers it and the row adopts the
  wrong item;
- a crash inside a file system call, between mirror and database
  (`fs.rs:412-413`), or inside a listing item (`remote.rs:256-259`).

Within a step sequence the code does protect by reading again (a download
until its check, an upload until its fingerprint is compared, a listing until
it reads the row) everything may interleave, and that is where the properties
have their content. `TypeOK` and `RowDiscipline` are claimed, and proved, for
all behaviours, these windows included.

### Downloads and the code

`scheduled`, `due`/`later` (the heap of the delay queue, as far as it matters:
how many items of a file are due or not yet), `held` and `gate` are the shared
structures; `th` is each thread's place, file and the version it read. `asleep`
is a worker in `changed.wait`, `dozing` one in `wait_timeout`. A notification
wakes any one sleeper. Time only makes an item due; the length of a retry's
delay, statistics and `auth_lost` are left out. Every file is one iCloud has;
a crawl turns a changed one into a placeholder and offers what is not local.
The look at `stop` and the insertion into `scheduled` are one action, which may
insert after `stop` is raised, as the code may.

`Bulk` adds the command: it plans by the database (`Planned`), then touches
file after file through the mount. The thread of the daemon that serves it is
one of the callers of `Downloads` (`Server`), which cannot do anything else
meanwhile; when its call returns, with the file or with an error, the command
goes on to the next one. There are two crawlers: the refresh loop's and one that
a SIGUSR1 started (`daemon.rs:127-132`), each with the listing it fetched. That a
file reported as downloaded is the version iCloud has is not claimed: a crawl
that fetched its listing earlier may apply it last, and makes the file a
placeholder of the older version.

### Adapter, Inodes, Numbers and the code

A handler of `adapter.rs` takes the lock of the inode table for one operation
of it and holds nothing while `fs.rs` works, so each handler is cut at each
operation of the table and at each call of the file system: resolve the number
to a path, do the call, ask for the attributes, assign a number. Rename resolves
its two paths in two steps. `objs` is the tree of what exists, whose making is
the subject of `FileSync`; here a call of `fs.rs` is one step on it, and
`Refused` is its error. The kernel is external: it asks only about numbers it
was told, keeps what it was told they stand for (`told`), and holds its locks
(`excl`, `shared`): a folder whose names change, and a file that is written,
renamed or removed. getattr, access, open and read lock nothing.

Other devices change the tree behind the table (`Appears`, `Vanishes`,
`Moves`), whatever has a number and whatever requests are under way. Two histories
name exactly where the numbers then stop being right, and the properties speak of
the rest:

- `astray` are the files that had a number when a listing renamed them
  (`remote.rs:197-206`). Nobody tells the table, which knows paths only: the number
  goes to whatever takes the path, though it should stay "valid until the path is
  deleted" and move with renames (`inodes.rs:4-6`). Nothing is claimed of such a
  file; everything is of the others.
- `raced` is raised when a folder moves or goes while a request has a path in it:
  by a request of the kernel (`adapter.rs:256`), by a listing, or by a request that
  begins between the two steps of the folder's rename, or in a folder that is no
  more (`Hasty`, `Under`, `Disturbs`). The handler goes on with the path it took,
  which may lead to another file by then. A listing that moves a folder with a
  number in it raises it too. After that nothing is claimed.

Both are disagreements of the code with `inodes.rs:4-6`. Without the exception for
`astray` TLC finds `ToldTrue`, `WritesRight` and `KeepsPromise` violated in the
instance of the run; without the one for `raced` it finds `ToldTrue` and
`WritesRight` violated with four events (with three, they hold without it).

`Numbers` says that a number never leaves its file for another and that no file
loses its number before it is deleted, with the two exceptions as parameters. The
refinement mapping is `LeadsTo`: in the moment between the rename in the file system
and the one in the table the table is behind, so a number is taken to lead where it
will lead when the pending operations have caught up.

### Refresh and the code

`icloudctl sync` (`tool`) removes the marker, sends SIGUSR1 and waits for a
marker that is new enough (`meets`), until its timeout. The signal thread takes
a signal at a time and starts a thread per request; signals that arrive together
are one (`pending` is a set). A refresh lists folder by folder, each under its
lock, in lazy mode; in full mode it fetches everything and applies it under no
lock. `write_marker` is two steps, since `fs::write` shows an empty file first.
SIGTERM raises `stop` and the process ends with its threads. `FileSync` has what
a listing does to the files of a folder; here it brings the folder to the version
it fetched. `hist.well` is the tool for which nothing went wrong and with which
nobody interfered; `DoneIsTrue` speaks of it only. Signal `refresh_now` is left
out: nothing in the program but shutdown raises it.

### SignIn and the code

`apple` has the generation of the session and of the trusted browser it accepts now;
`disk` is the session and cookie file, `mem` each process's copy of it, and `pc` the
request each is at. Each request is a step: its reply is absorbed, written if it
changed what this process wrote last (`persist_data`), and the cookies follow at the
flushes of the code only. `Lost` is a request or a reply that does not arrive,
`Lapse` Apple's forgetting. The daemon resumes, signs in with a stored password,
parks without a session when only the user can help, and exits otherwise, after
which systemd starts it again (`Respawn`). The tool signs in, asks for a code in one
of the ways Apple offers, and trusts the session. `Faulted` is an error of Apple's
server, or a reply cut off, where the code takes it for a verdict: any failure of
`validate` that is not one of the transport becomes `AuthRequired`
(`client.rs:215-218`), and `accountLogin` and `signin/complete` do the same
(`client.rs:356`, `:334-337`). `seen` is history: refused proofs and which of the
refusals were lost, wrong codes, and what became of the tool's session. HTTP, the
cookies one by one and the arithmetic of the proof are left out.

### Wizard and the code

One turn of the main loop is one action: a click, the result of a background
job, or an event of the worker. `jobs` are the threads of `background`, which
do their work in one step and return in another; `worker` has the two queues of
`AuthWorker` and the attempts left. Dropping the worker lets it handle what is
queued while its events are lost (`Drained`). A sign-in tries the session and trust
tokens that were saved before (`ByTokens`), which Apple may take whatever the password
is, then sends one proof (`ByProof`); tokens are saved with each reply, so that a
sign-in whose last reply is lost lets the next one in. A code may be received and its
verdict lost (`Received`). A button that is insensitive
cannot be clicked, but Enter in an entry submits all the same: a *hasty* user
does that and edits or goes back while something is under way, a patient one
does not. `StoredIsUsed` and `ShownIsMounted` are claimed for the patient user,
the counts for both. A hasty user who edits the password between the click and
the start of the worker can have another one saved than the one that signs in.

### Service and the code

A command is a program of steps (`Program`), of which each `systemctl` or
`fusermount` call and each group of files written is one; the daemon, systemd and
the watcher run between any two. `files`, `account`, `cache` and `label` are what is
on disk, `svc` the unit, `mnt` each mount point: nothing, live, or dead (its daemon
was killed). Cleaning a mount point, removing the cache and each deletion of a purge
may fail, which ends the command where it is; that the other steps fail is left out.
The unit's ExecStartPre and ExecStopPost are part of `Launch` and `Ended`;
Restart=on-failure is `Respawn`. The watcher reads the log and labels the bookmark
of the folder that icloud.env names.

## Runs

| Run | Question | Distinct states |
|---|---|---|
| `FileSync_renames` | two of all five calls, over existing names too, a failing rename, lazy mode | 0.32 M |
| `FileSync_calls` | two of unlink/rename, an item added or renamed elsewhere, an etag-checking drive, a failing listing or delete, crash | 0.55 M |
| `FileSync_full` | full crawls: two of write/create/unlink, an edit or delete elsewhere, a failing upload, a crash at any step; safety and liveness | 0.24 M |
| `Downloads` | 2 workers, a command reading through the mount, 2 crawlers, 2 files, a change, a failure, shutdown; safety and liveness | 0.59 M |
| `Adapter` | 2 threads of requests of every kind while listings change the tree; refinement | 0.09 M (by symmetry) |
| `Refresh` | 2 `icloudctl sync` against the loop, a change, a failure, SIGTERM, both modes; liveness | 0.35 M |
| `SignIn_ends` | the tool and the daemon with one session, a lost request or reply or a server's error, a lapse, restarts; liveness | 0.35 M |
| `Wizard` | a patient and a hasty user, saved tokens, lost replies, overlapping jobs, queued codes; liveness | 1.56 M |
| `Service` | four commands, one fault or failing step, two folders; action properties and liveness | 0.25 M |
| `FileSync_overwritten` | finding 1 | small |
| `FileSync_undeleted` | finding 2 | small |
| `SignIn_restart` | finding 3 | small |

Properties of `FileSync`:
`EditSafe` content that only this machine has is on disk under a row that will
be sent; `DeleteSticks` an unlinked item stays a pending delete while iCloud
has it unchanged; `NoZerosSent`; `CleanMeansSame` a clean, downloaded, current
row has iCloud's bytes; `UniqueIds`; `NoOrphanFile`; `RowDiscipline` the flags
of a row agree; `EventuallySettled` both sides come to agree and stay so.
`Downloads` and `Bulk`: `OneEach` one thread per file, one stream;
`NobodyOverslept` something queued means some worker will look; `BulkEnds` each
read of the command is answered; `EventuallyLocal`; `WorkersEnd`.
`Adapter`: `OneNumberEach` the maps of the table are inverse; `ToldTrue` what the
kernel was told of a number stays true while the file exists; `WritesRight` no
write changes another file than the one meant; `KeepsPromise` the refinement; but
for `astray` files and until `raced`.
`Refresh`: `NeverBack` in lazy mode a folder shown never gets older; `DoneIsTrue`;
`RequestsBegin` a signal that is sent is followed by a refresh that begins.
`SignIn`: `SavedServesAlone` a session the tool saved serves the daemon started
next, unless Apple's server errs; `RefusedOnce` a daemon that has heard a refusal
sends the password no more, and Apple refuses one proof and one for each refusal
that was lost; `ThreeCodes`; `TrustedOnly`; `SignInEnds`.
`Wizard`: `ThreeCodes` three wrong codes and one for each whose refusal was lost, and
a patient user can type a code exactly as long as an attempt is left; `OneProof`;
`StoredIsUsed`; `ShownIsMounted`; `Answered`.
`Service`: `DoctorKnows` what doctor finds healthy can start, unless half a purge
left a session without a configuration; `LabelKnown` a busy label will be made plain;
`PurgedClean` and `ClearedRestarts`, of a command that reports success; `ComesBack`;
`CacheNotInUse`.

### Bounds

*FileSync.* Most windows need one remote change and two local steps, or one
failure: the budgets give exactly these, split over the runs so that each
reaches every interleaving of its kind. The names for conflict copies and for
buried rows are bounds too: the step that needs one waits when they are used
up. The code can use any number: a listing that shows the pass's own upload
before the pass has recorded its identity takes it for a change elsewhere and
makes a conflict copy, which is uploaded and may meet the same fate. The models
follow that chain to the first copy. Another file is one the actors treat
independently, except for renames, which have both names. `FileSync_renames`
changes nothing elsewhere: with a rename there, `NoZerosSent` fails (see the
observations below). `Calm` prunes states
with `raced`, which is sound since `raced` never falls and the properties it
guards are then true; in `FileSync_calls` it only shortens the check of `TypeOK`
and `RowDiscipline`, which the proofs cover in full. `AtMostThree` keeps three of
the calls, changes and failures of a run; `FewWithFailure` two of them where one is
a failure, since with three `CleanMeansSame` fails (observations); and
`NoDeleteInTheWay` prunes what lies beyond finding 2. Conflicts are the same code in
both modes: edits on both sides are in `FileSync_full`, and the lazy runs add the
lazy sweep and the rest of the calls.

*Downloads.* Two workers and two files are the smallest instance with a queued
file beside a running one, a sleeper that is not woken and a lock waited for.
`AtMostOne` keeps one of a change, a failure and a call, and, once the command
runs, one file of its plan, no shutdown and at most one busy worker, none once a
download has failed: the command takes its files one after the other, and what
can go wrong with one needs that file and one other thread. The second crawler
starts after the change, without a failure or a call, beside at most one busy
worker. Workers really end, hence
`CHECK_DEADLOCK FALSE`.

*Adapter.* Two threads, two names and paths of two components are a folder with
a file, each of which is renamed, replaced or removed while the other request is
between two steps; three events are two requests and a change behind them, or
three requests. The run has also passed with four events (some minutes); the proofs
have no bound. The kernel may stop asking, hence `CHECK_DEADLOCK FALSE` here,
as in `Refresh`, `SignIn`, `Wizard` and `Service`, where the user may.

*Refresh.* Two tools, one folder, one change, one failing listing and two turns of
tools or loop, from three configurations (lazy, full, no session). Full crawls
without the loop, of which `DoneIsTrue` says more, are left to its proof. Two
requests at once are what merges signals and mixes markers.
*SignIn.* One lost request or reply, error of the server or crash, and one lapse,
two runs of the tool and two starts, of which `NotAllSix` keeps any five, for three
accounts: no stored password or a wrong one with a device and a phone, and a right
one with a device behind the push bridge, where the tool gives up.
*Wizard.* Each button twice, four codes (one more than allowed), one edit, one
hurried act, two jobs at a time.
*Service.* Two folders, four commands and one fault, crash or failing step: install,
fault, repair, purge.

### Fairness

`FileSync`: weak fairness of each of the daemon's activities: a call that was
made goes on, `upload_loop` and `refresh_loop` come round after each interval, a
waited-for download runs. Nobody has to make a call and nothing is assumed of
other devices. `Downloads`: each thread runs, some crawl begins again (the refresh
loop's; nobody has to send a signal), time passes, `shutdown` gets from
its first line to its last, and the command goes on; raising `stop` is never
forced. `SignIn`: each request is answered or fails in time (`REQUEST_TIMEOUT`)
and systemd restarts a service that failed; nothing is asked of the user or of
Apple. `Wizard`: threads run and the main loop turns. `Refresh`: the threads of
both programs run, and a thread that waits for a folder's lock alone gets it.
`Service`: a command's steps, systemd's restarts, the daemon's start and end and
the watcher's tick go on. Failures are finitely many by budget: with a drive
that always fails nothing could be promised.

## Findings

1. *A remote rename onto a new local file* overwrites it (`remote.rs:197-206`,
   `state.rs:471-480`) instead of keeping a conflict copy, as README.md:129
   promises. Run `FileSync_overwritten`. By `OnlyOverwritten` (see Proofs) it is the
   only way content is lost before two actors meet on a path, if names of conflicts'
   copies do not recur.
2. *A pending delete is undone by another item.* A file renamed and deleted here
   leaves a pending delete under its new name. When another device adds an item
   of that name, `apply_remote_item` takes the pending delete for an occupant with
   local changes (`remote.rs:154-157`): `resolve_conflict` clears its identity and
   its tombstone, and the file comes back under its old name, though "local changes
   (including a pending delete) win until uploaded" (`remote.rs:161`). Run
   `FileSync_undeleted`. `OnlyMadeWay` (see Proofs) says what else it takes.
3. *The advice for an expired session does not work as given.* `engine/mod.rs:263`
   says to run `icloudctl auth`, then `icloudctl restart`. The running daemon
   still has the dead session in memory and flushes it over the new one, every
   ten minutes and when it is stopped (`daemon.rs:107`, `daemon.rs:119`); the next
   daemon finds the dead session. Run `SignIn_restart`.

Further observations, met while modelling, without a run of their own: the
windows of `Overlap`; and

- a failed delete before an upload is not harmless (`upload.rs:187`): the content
  becomes a numbered copy, `refresh_child_meta` finds the old item by name, and
  the row is marked clean with it;
- a crash, or a failed listing, between an upload and its recording, and an edit
  of the new item elsewhere: the file is sent again, gets a numbered copy, and the
  row is marked clean with the edited item, which it finds by name;
- a name created on both sides: the row adopts the other device's item by name,
  with other bytes, and is clean;
- rename, then create the old name (`upload.rs:43-46`): the new file is sent
  before the old item is out of the way and is numbered;
- a touch of a file, and an edit of it elsewhere during the pass: the row adopts
  the new etag without the content;
- a placeholder renamed on both sides before it was downloaded: the conflict
  detaches the local row, which has no item any more, so `ensure_local_file`
  takes what is in the mirror for the file (`download.rs:38-45`) and zeros are
  uploaded as the conflict copy, though "nothing must be uploaded"
  (`upload.rs:159-160`). TLC finds it as a violation of `NoZerosSent` in the
  instance of `FileSync_overwritten` with the user's rename in place of a create;
  `FileSync_renames` has no change elsewhere for this reason;
- in larger instances zeros are sent in two more ways. A placeholder renamed or
  touched here and deleted elsewhere: the full crawl's sweep clears its identity
  (`remote.rs:359-367`), and `download.rs:38-45` adopts the mirror's zeros. A
  placeholder renamed here, and the daemon stopped after the pass renamed the
  item on iCloud and before it recorded that (`upload.rs:235-267`): the next
  listing sees a conflict with the daemon's own rename, detaches the row, and
  the zeros are sent as the conflict copy;
- a file created here under a name that a rename or a new file elsewhere has
  taken: the upload is numbered, and the row adopts by name an item that another
  row has already (`UniqueIds`). The same comes about with nothing changed
  elsewhere: a delete that failed before an upload, so that the content is
  numbered, and the file unlinked and created anew during the read-back; or a
  file renamed, moved on iCloud by a pass that fails in `children`, renamed again,
  and a new one created under the name in between;
- a file written, renamed and written again before the pass: the rename gives the
  item a new etag, the pass goes on with the old one, and where the delete checks
  it (`upload.rs:187`) the content becomes a numbered copy, the row clean with
  the old item (`CleanMeansSame`);
- `sync` returns when the listing is done and does not wait for uploads
  (README.md:207); a marker of a late refresh may answer the next request, since
  time stamps are compared at the file system's granularity (`sync_request.rs:66`);
- in full mode two crawls at once may apply the older one last, hence the
  restriction in `DoneIsTrue`;
- the first accountLogin of `login` returns without writing the cookies
  (`client.rs:234`), hence `"flushed"` in `SavedServesAlone`;
- a lost reply to the password proof lets the daemon exit, and systemd's restart
  sends the proof again, which costs one more refusal if the password is wrong
  (`client.rs:333`, `connect.rs:63-71`; README.md:154: "nothing retries it";
  `connect.rs:49`: a retry "costs nothing"), hence `unheard` in `RefusedOnce`; an
  error of `drive()` after a resumed session restarts the daemon for as long as it
  lasts;
- an error of Apple's server during `validate`, or a reply that is cut off, is
  taken for the end of the session (`client.rs:215-218`), and during `accountLogin`
  for a bad token (`client.rs:356`): a daemon without a stored password parks with a
  good session until the user acts, though `error.rs:78-82` wants transient failures
  kept apart. Hence `faulted` in `SavedServesAlone`;
- in the installer a wrong code whose verdict is lost uses up no attempt
  (`auth_worker.rs:203-204`): Apple can receive more than the three of README.md:99,
  hence `unheard` in `ThreeCodes`;
- saved tokens let the user in whatever password is typed (`client.rs:229-233`), on
  a second run or after an accepted code whose last reply was lost: a mistyped
  password that is to be remembered is stored, and the service cannot renew the
  session with it (README.md:87), hence "unasked" in `StoredIsUsed`;
- a hasty second sign-in can leave the code page with an entry that is insensitive
  while its worker has attempts left;
- a `clear-cache` whose clean-up or removal fails leaves the service stopped
  (`setup.rs:399`, `:402`), and a purge that fails after config.yaml is gone leaves a
  session that doctor reports as healthy beside nothing to start (`setup.rs:374-381`);
- `icloudctl start` on a running service detaches the mount, `systemctl start`
  does nothing, and the daemon, which loses its mount, ends without an error and
  is not restarted (`core/setup.rs`);
- a label whose writing failed stays busy until the next activity
  (`status.rs:308`);
- `RENAME_NOREPLACE` looks at the target before it renames, in two steps.

## Proofs

Every theorem is of the specification of its module, for every value of the
constants that the named assumptions allow; none assumes fairness.

`FileSyncProofs` proves `TypeCorrect` and `RowsDisciplined` for every set of
names, both crawl modes, every budget and both drives, from `NameAssumption` and
`InstanceAssumption`. `RowDiscipline` is not inductive: a handler writes back
what it has in hand, so `InHand` adds where an actor that is in the middle of a
handler may be and that the item it records has an identity.
`IInv == TypeOK /\ RowDiscipline /\ InHand`; one lemma for each operation of the
store, one per action, composed in `Invariant`. Reachable rows obey it whatever
races or crashes happen.

It also proves `NoOrphanFile` (`NoOrphan`), and the converse that no run states:
a row that iCloud knows has its file (`RowsHaveFiles`). Both hold for every
instance, both crawl modes, failed calls, crashes and changes elsewhere
included, until two actors meet on a path. Neither is inductive, nor are both
together. `OInv` adds who is in the middle of writing one half of a pair (`UserBrings`,
`ListBrings`, `UserTakes`, `ListTakes`) and what each actor has seen and still
relies on (`UserSees`, `UpSees`, `ListSees`, `DlSees`). A turn lemma for each actor
(`UserTurn` and so on) says that a step touches only rows and files its actor
holds before or after it, so that what the others have seen stands; `Remembered`
that an overlap is not forgotten.

And it proves `EditSafe` (`OnlyOverwritten`), for any files, calls, changes
elsewhere, failed calls and crashes and both crawl modes, with two hypotheses.
`Overwrites` never holds: a listing about to relocate an item onto a path with a
local change, which is finding 1. `Recycled` never holds: while the upload of a
conflict's copy is being read back its name stays taken; names hold the second they
were made in (`remote.rs:267`), the model's set of them is finite. `EditSafe` is not
inductive: content may be on its way from one path to another with its row still
to follow, or recorded and not yet queued. `EInv == Undisturbed => Kept /\ Counted`.
`Kept` says that what is owed is on disk (`Found`) at a path that is due or that
the user or the listing is just recording (`Guards`), and that whoever will overwrite
or discard a file, or forget what is queued for it, knows that nothing owed is
there (`UserKnows`, `UpKnows`, `Settles`, `ListKnows`, `DlKnows`). `Counted` orders
contents and times, so that an unchanged time means unchanged content, and content
from iCloud is never owed. The turn lemmas (`UserEdits`, `UpEdits`, `ListEdits`,
`DlEdits`) say what a step of one actor leaves due of the paths it does not hold.

`CloudProofs` proves `DeleteSticks` (`OnlyMadeWay`), in the same generality, if
three steps of a listing do not happen. `MakesWay`: a new item comes to the path of
a pending delete, finding 2. `Overtaken`: a listing is older than what an upload has
recorded of one of its items; if the user then deletes that, the listing takes the
pending delete for a conflict. With `MakesWay` alone excluded TLC finds the loss,
after three changes elsewhere and three calls. `Recorded`: a listing moves a row from
or to the path of an upload that is being read back; the argument does not cover it,
and random runs have not found a loss. `DeleteSticks` is not inductive: its row must
survive whatever anybody is about to do. `DInv == Undisturbed => Steadfast` says that
nobody knows more of an item than iCloud does (`Past`: what a row, a listing or an
upload has of it was true once, and still is if the etag is the same), so that a
listing finds nothing new about an item that is as it was (`NothingNew`); what each
actor is about to remove is no pending delete, or one of an item iCloud has changed
since (`UserSpares`, `UpSpares`, `ListSpares`); and graves hold pending deletes only,
under names iCloud never hears of (`Clear`, `CloudClear`). Each operation of the store
has an outcome lemma (`RenameOutcome` and so on: which rows keep their identity and
their mark), and `Onward` says what may happen to an item meanwhile.

It also proves `NoZerosSent` (`OnlyStripped`), in the same generality, if `Strips`
never happens: a listing takes the identity of a row whose content is not here, of a
placeholder or a pending delete, when it detaches it in a conflict (`remote.rs:259`)
or sweeps it in a full crawl (`remote.rs:366`). In every violation among the
observations above a listing does that. `NoZerosSent` is not inductive: zeros are
sent long after the row was made to say that they are content.
`ZInv == Undisturbed => Unblank` says that no live row takes zeros for content but
where somebody is just recording it (`Honest`), that every live row has its file, as
a restart would make one of zeros (`Filed`), that a row without an identity has its
content (`Sane`), that iCloud holds no zeros (`Whole`), and that what each actor will
record or send is none (`UserFills`, `UpFills`, `ListFills`, `DlFills`). From this it
follows that a download never adopts what is in the mirror and that a restart makes
no file. The turn lemmas (`UserRound`, `UpRound`, `ListRound`, `DlRound`) say what a
step leaves alone (`Still`).

It also proves `UniqueIds` (`OnlyMistaken`), in the same generality, if `Mistaken`
never happens: an upload reads an item back by its name (`upload.rs:270`) and finds
one that another row has, or that a listing is about to give to another row. In every
violation among the observations above an upload does that. `UniqueIds` is not
inductive: a listing looks for the item's row once, and stores one steps later.
`UInv == Undisturbed => Orderly` adds that while an item is applied its row, if it
has one, is where the listing found it or takes it (`Seated`, `Seat`). The lemmas
about the store say which rows come to have an item: none that had no row before
(`From`), so that what others do meanwhile on other paths cannot bring one in.

`DownloadsProofs` proves `TypeCorrect`, `OneEach` (mutual exclusion per file and
of the stream) and `NobodyOverslept` for any numbers of threads, crawlers and files,
and again for the specification with the download command in it (`WithTheCommand`).
`OneEach` is not inductive: `Locked` says that whoever is inside holds its file's
lock, and whoever streams the gate; `Busy` that it has a file.

`AdapterProofs` proves `TypeCorrect` and `OneNumberEach` for any numbers of
threads, names and events and any depth of paths, from `AdapterAssumption`,
without any exception: whatever paths the handlers
give it, stale ones included, each operation keeps the two maps inverse. The hard
case is `rename`, which moves a subtree over another one; it rests on
`RebaseRoundTrip`, that rebasing a path of any depth is undone by rebasing back.

It also proves `ToldTrue`, `WritesRight` and `KeepsPromise`, the refinement of
`Numbers`, with no hypothesis but `AdapterAssumption`: their two exceptions, `astray`
and `raced`, are in the properties. None of them is inductive; the invariant is
`raced \/ KInv`. `KInv` says what the locks of the kernel achieve. `Seen` are the
objects somebody may still be told of or work on. A request for a name has its
folder at the path it resolved (`InFolder`); a write has its file there (`Writes`);
what a reply is about is where it says (`Finds`). Between its two steps a rename
or a removal leaves nothing seen at the path it has left (`Left`), and at the path
it has come to nothing seen but a file it has locked, unless it is alone (`Come`);
one that is still to happen will take nothing seen but what it has locked
(`Takes`). `LeadsTo` chooses; the proof uses `Leads`, the same as a relation, and
`LeadsToMeans` shows them equal. No folder is ever `astray` without `raced` (`Files`),
so that a file which a listing renamed disturbs nothing but itself. `Keeps`, proved
beside the invariant for each step, is what `Numbers` allows. When an early form of
`KInv` was checked on longer runs, TLC found that `ToldTrue` did not follow from the
locks alone: a folder that vanishes, and another that comes to its path, during one
request. `Hasty` and `Disturbs` name that case.

`RefreshProofs` proves `TypeCorrect`, `NeverBack` and `DoneIsTrue` for any
folders, tools and bounds, from `FolderAssumption`, `ConfigAssumption` and
`BoundAssumption`. The first invariant is the discipline of the folder's lock: in
lazy mode a thread is at a folder from taking its lock to having applied the
listing, at most one is at each, and what it has fetched lies between what is
shown and what is on iCloud. The second, `RInv`, follows a request: as long as
nothing has gone wrong for a tool, its signal is pending, or taken by a thread
that has yet to list each folder not shown in the wanted version, or answered by
a marker that is true and stays so.

`SignInProofs` proves `TypeCorrect`, `RefusedOnce`, `ThreeCodes`, `TrustedOnly`
and `SavedServesAlone` for every account and every bound, from `BoundAssumption`
and `AccountAssumption`. Every request of a process is one instance of the lemma
`ProcessStep`, which says what a step of one process must respect so that the
other's part of the invariant stands. The strengthening: a daemon that goes on
has heard no refusal since the user started it; before the prompt no code has
been sent, at the prompt an attempt is left, and an attempt was counted for each
wrong code; and what Apple gives out never runs ahead of its generations.
`SavedServesAlone` is about disk and both memories and has an invariant of its
own, `SInv`: what the tool has in memory is on disk until a daemon writes there,
and a daemon started from a flushed session only goes where a good one takes it,
until a server's error.

`WizardProofs` proves `TypeCorrect`, `ThreeCodes`, `OneProof`, `StoredIsUsed` and
`ShownIsMounted` for any folders, presses and numbers of jobs, from
`JobsAssumption` and `PressesAssumption`. `IInv` counts: wrong codes and attempts
left make at most three and the refusals that were lost, also for codes that are queued when
the last attempt is used up. `Once` adds the proofs sent and those still to come to the sign-ins
begun. `Careful` says, for the patient user, that one thing is under way at a
time and belongs to the page shown. A dropped worker handles what it has queued
(`Drained`, a recursive function): what it leaves is proved by induction on the
length of the queue.

`ServiceProofs` proves all safety properties of `Service`, for any folders,
commands and faults, from `HomeAssumption`. A promise about the end of a command
needs to know how far it has come: `Position` says what may be left of it, and
`Progress` what the steps that are done have achieved and daemon, systemd and the
watcher leave so. A step that fails ends the command, which then promises nothing.

Only model-checked: `CleanMeansSame` of `FileSync`; and all liveness, which is
beyond the prover. `CleanMeansSame` is not true of every instance: the observations
above name the larger ones in which TLC violates it.

## Not modelled, and the plan

Next, in this order:

1. `TreeSync`: folders in the engine. mkdir, rmdir, rename and move of subtrees,
   `sync_directory`, `ensure_remote_parent`, moves between folders
   (`upload.rs:106-137`, `235-267`), depth order of deletes, crawls of several
   folders, the marks of listed folders (`state.rs:645-712`), listing on demand in
   `fs.rs`, and the policy boundary. Properties: children are deleted before
   their folder, no child is stranded under a folder that is gone.
2. `LogFollower`: the reader of the log against rotation and partial lines
   (`status.rs:163`), of which `Service` has only that unread lines may vanish.
3. Proofs: `CleanMeansSame` fails in larger instances even with nothing changed
   elsewhere and needs further hypotheses (no failed call, no second write of a
   renamed file).
4. Lazy mode's stuck rows: which rows never settle.

Left out for good: the password proof (arithmetic), the policy's predicates, the
classification of readers and the notes of failed thumbnails (pure functions of
names), HTTP and JSON formats, legality of names, texts of units, bookmarks and
extensions, argument parsing, the drawing of the pages: no shared state, and
covered by unit tests.
