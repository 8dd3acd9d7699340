------------------------------ MODULE FileSync ------------------------------
(***************************************************************************)
(* The life of the files of one folder, the root of the drive, between the *)
(* mount and iCloud.  Four actors of the daemon touch the same three       *)
(* stores (the metadata `db', the mirror `disk' and the service `cloud')   *)
(* and a fifth changes the cloud from another device:                      *)
(*                                                                         *)
(*   user  a filesystem call (icloud-core/src/fs.rs), on a FUSE thread     *)
(*   up    the upload pass (engine/upload.rs), one at a time (upload_lock) *)
(*   list  a listing applied (engine/remote.rs), the folder's lock held    *)
(*   dl    a download (engine/download.rs), the file's path lock held      *)
(*                                                                         *)
(* Each call on a store is atomic, and nothing holds two calls together,   *)
(* so an action is the stretch of a handler up to its next call that       *)
(* another actor can come before.  Reads that follow one another are one   *)
(* action; "the reads" below always says which.                            *)
(*                                                                         *)
(* Every change of content, local or remote, gets a fresh number that is   *)
(* both its data and its (size, mtime); Hole is a placeholder's zeros.     *)
(***************************************************************************)
EXTENDS SyncState, Drive

CONSTANTS
    Conflict,     \* the names unique_conflict_path may choose
    Grave,        \* the private keys of displaced rows (they hold a NUL)
    CrawlMode,    \* "lazy" or "full": which sweep follows a listing
    Seed,         \* Seed[i] names item i, on iCloud and listed at the start
    UserOps,      \* which filesystem calls are made
    RemoteOps,    \* what other devices do
    CanFail,      \* which calls of the service may fail; may the daemon stop?
    UserBudget, RemoteBudget, FailBudget     \* how many of each, at most

Base == Name \ (Conflict \union Grave \union Numbered)
UserPath == {Join(Root, n) : n \in Base}

\* The classes of names are disjoint; a seeded item has a name of its own.
ASSUME NameAssumption ==
    /\ Conflict \subseteq Name /\ Grave \subseteq Name
    /\ Grave \intersect (Conflict \union Numbered) = {}
    /\ Seed \in Seq(Base)
    /\ \A i, j \in DOMAIN Seed : Seed[i] = Seed[j] => i = j

\* The switches and budgets of an instance.
ASSUME InstanceAssumption ==
    /\ CrawlMode \in {"lazy", "full"}
    /\ UserOps \subseteq {"write", "create", "unlink", "rename", "touch"}
    /\ RemoteOps \subseteq {"add", "edit", "delete", "rename"}
    /\ CanFail \subseteq {"children", "delete", "rename", "upload", "restart"}
    /\ UserBudget \in Nat /\ RemoteBudget \in Nat /\ FailBudget \in Nat

Hole == 0

VARIABLES
    db,        \* the metadata store: [rows, ops] of SyncState
    disk,      \* the mirror: path -> [data, stamp]
    cloud,     \* the service: id -> item of Drive
    lastId,    \* the last id the service gave
    clock,     \* the last content number given
    user, up, list, dl,    \* the actors' local states
    left,      \* what is left of the budgets
    owed,      \* ghost: local contents that only this machine has
    unlinked,  \* ghost: the [id, etag] of the items the user deleted
    raced      \* ghost: have two actors ever held one path at the same time?

vars == <<db, disk, cloud, lastId, clock, user, up, list, dl, left,
          owed, unlinked, raced>>

File == [data : Nat, stamp : Nat]
Write(p, data, stamp) ==
    [q \in DOMAIN disk \union {p} |->
        IF q = p THEN [data |-> data, stamp |-> stamp] ELSE disk[q]]
Remove(p) == [q \in DOMAIN disk \ {p} |-> disk[q]]
\* rename(2): to is replaced.
Moved(from, to) ==
    [q \in (DOMAIN disk \ {from}) \union {to} |-> IF q = to THEN disk[from] ELSE disk[q]]
DataAt(p) == IF p \in DOMAIN disk THEN {disk[p].data} ELSE {}

NoNode == [id |-> NoId, path |-> NoPath, kind |-> "file", etag |-> 0, stamp |-> 0]

UserIdle == [pc |-> "idle", op |-> "none", path |-> NoPath, to |-> NoPath,
             known |-> FALSE, stamp |-> 0]
UpIdle == [pc |-> "idle", tombs |-> {}, todo |-> {}, path |-> NoPath,
           node |-> NoNode, changed |-> FALSE, before |-> 0]
ListIdle == [pc |-> "idle", items |-> {}, ids |-> {}, node |-> NoNode,
             at |-> NoPath, to |-> NoPath, then |-> "none", stamp |-> 0,
             hydrated |-> FALSE, recent |-> FALSE, sweep |-> {}]
DlIdle == [pc |-> "idle", path |-> NoPath, node |-> NoNode, data |-> 0]

NodeOf(p) == [id |-> db.rows[p].id, path |-> p, kind |-> db.rows[p].kind,
              etag |-> db.rows[p].etag, stamp |-> db.rows[p].stamp]

\* now(), as far as last_synced_at goes: is a crawl running?
Crawling == CrawlMode = "full" /\ list.pc # "idle"

Pick(S) == CHOOSE x \in S : TRUE

\* A key for a row displaced from the root folder, and a conflict's name.
FreeGraves == {Join(Root, g) : g \in Grave} \ DOMAIN db.rows
FreeConflicts == {Join(Root, c) : c \in Conflict} \ (DOMAIN db.rows \union DOMAIN disk)
-----------------------------------------------------------------------------
(***************************************************************************)
(* The paths an actor has decided about, from something it read, and is    *)
(* about to change: between the two nobody else may touch them.  The       *)
(* comment on path_locks (engine/mod.rs) asks for "one holder per path at  *)
(* a time, for anything that changes a path's mirror content or state";    *)
(* the user's calls, the upload pass and a listing do not take that lock.  *)
(* The stretches the code does protect, by reading again before it acts    *)
(* (a download until its check, an upload until its fingerprint is         *)
(* compared, a listing until it reads the row), hold nothing.              *)
(***************************************************************************)
UserHolds == IF user.pc \in {"mirror", "record", "queue"} THEN {user.path, user.to} ELSE {}

UpHolds ==
    {t.path : t \in up.tombs} \union
    (IF \/ up.pc \in {"forget", "missing", "adopt", "clean"}
        \/ up.pc = "move" /\ ~up.changed
     THEN {up.path} ELSE {})

ListHolds ==
    {v.path : v \in list.sweep} \union
    (IF list.pc \in {"idle", "items", "sweep"} THEN {} ELSE {list.node.path, list.at, list.to})

DlHolds == IF dl.pc \in {"commit", "mark"} THEN {dl.path} ELSE {}

\* A write waiting for its file's content has already read the row: a
\* listing that changes it meanwhile is too late to be noticed.
UserWaits == IF user.pc = "hydrate" THEN {user.path} ELSE {}

\* An upload has decided to send the file and is making room for it on
\* iCloud: a listing that replaces the file meanwhile has it send what it
\* put there.
UpSends == IF up.pc \in {"move", "replace", "send"} THEN {up.path} ELSE {}

\* It is about to record the new identity: a sweep that judged the row before
\* does not see it.
UpRecords == IF up.pc = "meta" THEN {up.path} ELSE {}

\* A rename puts another file where the upload expects its own.
UserSwaps == IF user.op = "rename" THEN UserHolds ELSE {}

\* The pass makes a listing that was fetched and not applied yet out of date.
\* An item it deleted, renamed or replaced is still listed as it was; the one
\* an upload made is missing, and only a full crawl knows that the row is
\* younger, if it did not change again since.
Fetched == list.pc \notin {"idle", "sweep", "unrow"}

Stale(n) == n.id \in DOMAIN cloud => Node(cloud, n.id) # n

Outdates ==
    \/ \E n \in list.items : n.id = up.node.id /\ Stale(n)
    \/ CrawlMode = "lazy" /\ Fetched /\ up.pc = "clean" /\ up.node.id \notin list.ids
    \/ /\ CrawlMode = "full" /\ Fetched
       /\ \E p \in DOMAIN db.rows :
             /\ db.rows[p].recent /\ db.rows[p].dirty
             /\ db.rows[p].id \notin {NoId} \union list.ids

\* The pass sends its deletes first, then the rest in the order of the paths;
\* a delete that was queued since it began, or that failed, and a rename of a
\* path that sorts later are still to come when a file is sent under the name
\* their item still has on iCloud.
OutOfOrder ==
    /\ up.pc \in {"move", "replace", "send"}
    /\ \E g \in DOMAIN db.rows \ {up.path} : db.rows[g].synced = up.path

Meets(P, Q) == (P \intersect Q) \ {NoPath} # {}

Overlap ==
    \/ Meets(UserHolds, UpHolds \union ListHolds \union DlHolds)
    \/ Meets(UserWaits, ListHolds)
    \/ Meets(UserSwaps, UpSends \union UpRecords)
    \/ Meets(UpHolds, ListHolds \union DlHolds)
    \/ Meets(UpSends, ListHolds)
    \/ Meets(UpRecords, {v.path : v \in list.sweep})
    \/ Outdates \/ OutOfOrder
    \/ Meets(ListHolds, DlHolds)

\* Every action remembers whether the state it starts from was an overlap.
Watch == raced' = (raced \/ Overlap)

Undisturbed == ~raced /\ ~Overlap
-----------------------------------------------------------------------------
Init ==
    \E downloaded \in SUBSET {Join(Root, Seed[i]) : i \in DOMAIN Seed} :
    LET item(i) == [path |-> Join(Root, Seed[i]), kind |-> "file", data |-> i,
                    stamp |-> i, etag |-> 1]
        idAt(p) == CHOOSE i \in DOMAIN Seed : Join(Root, Seed[i]) = p
        seeded == {Join(Root, Seed[i]) : i \in DOMAIN Seed}
    IN  /\ cloud = [i \in DOMAIN Seed |-> item(i)]
        /\ db = [rows |-> [p \in seeded |->
                             [FromRemote(p, Node(cloud, idAt(p)))
                                EXCEPT !.hydrated = p \in downloaded]],
                 ops |-> {}]
        /\ disk = [p \in seeded |->
                     [data |-> IF p \in downloaded THEN idAt(p) ELSE Hole,
                      stamp |-> idAt(p)]]
        /\ lastId = Len(Seed) /\ clock = Len(Seed)
        /\ user = UserIdle /\ up = UpIdle /\ list = ListIdle /\ dl = DlIdle
        /\ left = [user |-> UserBudget, remote |-> RemoteBudget, fail |-> FailBudget]
        /\ owed = {} /\ unlinked = {} /\ raced = FALSE
-----------------------------------------------------------------------------
(***************************************************************************)
(* The filesystem calls.  Each first reads the entry and checks it (Begin),*)
(* then changes the mirror, then the row, then the queue, as the code does.*)
(***************************************************************************)

\* What the kernel's lookup finds before it makes a call on an existing file.
Visible(p) == (p \in DOMAIN disk \/ Has(db, p)) /\ (Has(db, p) => ~db.rows[p].tomb)

Placeholder(p) == Live(db, p) /\ ~db.rows[p].hydrated /\ db.rows[p].id # NoId

\* ensure_content comes before the bytes change; `known' is the entry read.
BeginWrite(p) ==
    /\ Visible(p)
    /\ user' = [UserIdle EXCEPT !.pc = IF Placeholder(p) THEN "hydrate" ELSE "mirror",
                                !.op = "write", !.path = p, !.known = Live(db, p)]

BeginCreate(p) ==
    /\ ~Visible(p)
    /\ user' = [UserIdle EXCEPT !.pc = "mirror", !.op = "create", !.path = p]

\* `known' is what forget() goes by: was the entry ever on iCloud?
BeginUnlink(p) ==
    /\ Live(db, p)
    /\ user' = [UserIdle EXCEPT !.pc = "mirror", !.op = "unlink", !.path = p,
                                !.known = db.rows[p].id # NoId]

BeginRename(p, q) ==
    /\ Live(db, p) /\ p # q
    /\ user' = [UserIdle EXCEPT !.pc = "mirror", !.op = "rename", !.path = p, !.to = q]

BeginTouch(p) ==
    /\ p \in DOMAIN disk
    /\ user' = [UserIdle EXCEPT !.pc = "mirror", !.op = "touch", !.path = p]

UserBegin ==
    /\ user.pc = "idle" /\ left.user > 0
    /\ \E p \in UserPath :
          \/ "write" \in UserOps /\ BeginWrite(p)
          \/ "create" \in UserOps /\ BeginCreate(p)
          \/ "unlink" \in UserOps /\ BeginUnlink(p)
          \/ "rename" \in UserOps /\ \E q \in UserPath : BeginRename(p, q)
          \/ "touch" \in UserOps /\ BeginTouch(p)
    /\ left' = [left EXCEPT !.user = @ - 1]
    /\ UNCHANGED <<db, disk, cloud, lastId, clock, up, list, dl, owed, unlinked>>
    /\ Watch

\* hydrate() returned: whatever the reason the row no longer wants content.
UserHydrated ==
    /\ user.pc = "hydrate" /\ ~Placeholder(user.path)
    /\ user' = [user EXCEPT !.pc = "mirror"]
    /\ UNCHANGED <<db, disk, cloud, lastId, clock, up, list, dl, left, owed, unlinked>>
    /\ Watch

\* MAX_HYDRATE_ATTEMPTS downloads were discarded, or one failed: EIO.
UserGivesUp ==
    /\ user.pc = "hydrate"
    /\ user' = UserIdle
    /\ UNCHANGED <<db, disk, cloud, lastId, clock, up, list, dl, left, owed, unlinked>>
    /\ Watch

\* write_at and truncate create a file that is not there.
UserWrites ==
    /\ user.pc = "mirror" /\ user.op = "write"
    /\ clock' = clock + 1
    /\ disk' = Write(user.path, clock', clock')
    /\ owed' = (owed \ DataAt(user.path)) \union {clock'}
    /\ user' = [user EXCEPT !.pc = "record"]
    /\ UNCHANGED <<db, cloud, lastId, up, list, dl, left, unlinked>>
    /\ Watch

\* bury_tombstone, then create_file, which leaves an existing file alone.
UserCreates ==
    /\ user.pc = "mirror" /\ user.op = "create" /\ FreeGraves # {}
    /\ db' = BuryTombstone(db, user.path, Pick(FreeGraves))
    /\ IF user.path \in DOMAIN disk
       THEN UNCHANGED <<clock, disk, owed>>
       ELSE /\ clock' = clock + 1
            /\ disk' = Write(user.path, clock', clock')
            /\ owed' = owed \union {clock'}
    /\ user' = [user EXCEPT !.pc = "record"]
    /\ UNCHANGED <<cloud, lastId, up, list, dl, left, unlinked>>
    /\ Watch

UserRemoves ==
    /\ user.pc = "mirror" /\ user.op = "unlink"
    /\ disk' = Remove(user.path)
    /\ owed' = owed \ DataAt(user.path)
    /\ user' = [user EXCEPT !.pc = "record"]
    /\ UNCHANGED <<db, cloud, lastId, clock, up, list, dl, left, unlinked>>
    /\ Watch

\* What is at the destination goes; a source absent from the mirror is an error.
UserMoves ==
    /\ user.pc = "mirror" /\ user.op = "rename"
    /\ IF user.path \in DOMAIN disk
       THEN /\ disk' = Moved(user.path, user.to)
            /\ owed' = owed \ DataAt(user.to)
            /\ user' = [user EXCEPT !.pc = "record"]
       ELSE /\ disk' = IF Live(db, user.to) THEN Remove(user.to) ELSE disk
            /\ owed' = owed \ (IF Live(db, user.to) THEN DataAt(user.to) ELSE {})
            /\ user' = UserIdle
    /\ UNCHANGED <<db, cloud, lastId, clock, up, list, dl, left, unlinked>>
    /\ Watch

UserTouches ==
    /\ user.pc = "mirror" /\ user.op = "touch"
    /\ IF user.path \in DOMAIN disk
       THEN /\ clock' = clock + 1
            /\ disk' = [disk EXCEPT ![user.path].stamp = clock']
            /\ user' = [user EXCEPT !.pc = "record", !.stamp = clock']
       ELSE user' = UserIdle /\ UNCHANGED <<clock, disk>>
    /\ UNCHANGED <<db, cloud, lastId, up, list, dl, left, owed, unlinked>>
    /\ Watch

\* record_content_change up to the queue: a row known to the call is marked
\* dirty (nothing happens when it has gone), otherwise a local one is put.
ContentRecorded ==
    IF user.known
    THEN MarkDirty(db, user.path, disk[user.path].stamp, TRUE)
    ELSE UpsertEntry(db, user.path, Local("file", disk[user.path].stamp))

UserRecords ==
    /\ user.pc = "record" /\ user.op \in {"write", "create"}
    /\ IF user.path \in DOMAIN disk
       THEN /\ db' = ContentRecorded
            /\ user' = [user EXCEPT !.pc = "queue"]
       ELSE user' = UserIdle /\ UNCHANGED db       \* stat failed
    /\ UNCHANGED <<disk, cloud, lastId, clock, up, list, dl, left, owed, unlinked>>
    /\ Watch

UserForgets ==
    /\ user.pc = "record" /\ user.op = "unlink"
    /\ IF user.known
       THEN /\ db' = MarkTombstone(db, user.path)
            /\ unlinked' = unlinked \union
                 {[id |-> db.rows[p].id, etag |-> db.rows[p].etag] :
                    p \in {user.path} \intersect DOMAIN db.rows}
            /\ user' = [user EXCEPT !.pc = "queue"]
       ELSE db' = RemoveEntry(db, user.path) /\ user' = UserIdle /\ UNCHANGED unlinked
    /\ UNCHANGED <<disk, cloud, lastId, clock, up, list, dl, left, owed>>
    /\ Watch

UserRenames ==
    /\ user.pc = "record" /\ user.op = "rename" /\ FreeGraves # {}
    /\ db' = RenameTree(db, user.path, user.to, TRUE, FALSE,
                        [q \in {user.to} |-> Pick(FreeGraves)])
    /\ user' = UserIdle
    /\ UNCHANGED <<disk, cloud, lastId, clock, up, list, dl, left, owed, unlinked>>
    /\ Watch

\* The content did not change, so no operation is queued.
UserRecordsTime ==
    /\ user.pc = "record" /\ user.op = "touch"
    /\ db' = IF Live(db, user.path)
             THEN MarkDirty(db, user.path, user.stamp, FALSE) ELSE db
    /\ user' = UserIdle
    /\ UNCHANGED <<disk, cloud, lastId, clock, up, list, dl, left, owed, unlinked>>
    /\ Watch

UserQueues ==
    /\ user.pc = "queue"
    /\ db' = QueueOp(db, CASE user.op = "write"  -> "update"
                           [] user.op = "create" -> "create"
                           [] user.op = "unlink" -> "delete", user.path)
    /\ user' = UserIdle
    /\ UNCHANGED <<disk, cloud, lastId, clock, up, list, dl, left, owed, unlinked>>
    /\ Watch

UserContinues ==
    \/ UserHydrated \/ UserGivesUp
    \/ UserWrites \/ UserCreates \/ UserRemoves \/ UserMoves \/ UserTouches
    \/ UserRecords \/ UserForgets \/ UserRenames \/ UserRecordsTime
    \/ UserQueues
-----------------------------------------------------------------------------
(***************************************************************************)
(* The upload pass.  The tombstones are sent from the rows read at the     *)
(* start; the other files are read again one by one.                       *)
(***************************************************************************)

\* A call of the service that may fail, and does.
Fails(call) == call \in CanFail /\ left.fail > 0 /\ left' = [left EXCEPT !.fail = @ - 1]

UpPass == [up EXCEPT !.pc = "pass", !.path = NoPath, !.node = NoNode,
                     !.changed = FALSE, !.before = 0]

UpStart ==
    /\ up.pc = "idle"
    /\ \E p \in DOMAIN db.rows : db.rows[p].dirty \/ db.rows[p].tomb
    /\ up' = [UpIdle EXCEPT !.pc = "pass",
                 !.tombs = {NodeOf(p) : p \in {q \in DOMAIN db.rows : db.rows[q].tomb}},
                 !.todo = {q \in DOMAIN db.rows : db.rows[q].dirty /\ ~db.rows[q].tomb}]
    /\ UNCHANGED <<db, disk, cloud, lastId, clock, user, list, dl, left, owed, unlinked>>
    /\ Watch

\* An item iCloud never had is only forgotten; a delete that is refused or
\* fails leaves the tombstone for the next pass.
UpTombstone ==
    /\ up.pc = "pass"
    /\ \E t \in up.tombs :
          \/ /\ t.id = NoId \/ ~Refuses(cloud, t)
             /\ cloud' = IF t.id = NoId THEN cloud ELSE Delete(cloud, t.id)
             /\ up' = [up EXCEPT !.pc = "forget", !.path = t.path, !.node = t]
             /\ UNCHANGED left
          \/ /\ t.id # NoId
             /\ (Refuses(cloud, t) /\ UNCHANGED left) \/ Fails("delete")
             /\ up' = [up EXCEPT !.tombs = @ \ {t}]
             /\ UNCHANGED cloud
    /\ UNCHANGED <<db, disk, lastId, clock, user, list, dl, owed, unlinked>>
    /\ Watch

UpForget ==
    /\ up.pc = "forget"
    /\ db' = RemoveSubtree(db, up.path)
    /\ up' = [UpPass EXCEPT !.tombs = @ \ {up.node}]
    /\ UNCHANGED <<disk, cloud, lastId, clock, user, list, dl, left, owed, unlinked>>
    /\ Watch

Changed(p) == db.rows[p].id = NoId \/ HasPendingContentChange(db, p)

Renamed(p) == db.rows[p].id # NoId /\ db.rows[p].synced \notin {NoPath, p}

\* Mutant: a change of content is sent without looking at what is downloaded.
NoContent_ignored(p) == FALSE

\* The content of a file whose row iCloud does not know is whatever is in the
\* mirror.  One that iCloud knows, changed here and not downloaded, has none:
\* it is left alone, since a download of it would be discarded for the change
\* that is pending.
NoContent(p) == Changed(p) /\ ~db.rows[p].hydrated /\ db.rows[p].id # NoId

\* The reads of sync_file: the fresh row, the mirror, the queue.
UpFile ==
    /\ up.pc = "pass" /\ up.tombs = {}
    /\ \E p \in up.todo :
       LET at(pc) == [up EXCEPT !.pc = pc, !.todo = @ \ {p}, !.path = p,
                                !.node = NodeOf(p), !.changed = Changed(p)]
       IN  \/ /\ ~(Live(db, p) /\ db.rows[p].dirty)
              /\ up' = [up EXCEPT !.todo = @ \ {p}] /\ UNCHANGED db
           \/ /\ Live(db, p) /\ db.rows[p].dirty
              /\ \/ /\ p \notin DOMAIN disk
                    /\ up' = at("missing") /\ UNCHANGED db
                 \/ /\ p \in DOMAIN disk
                    /\ NoContent(p)
                    /\ up' = [up EXCEPT !.todo = @ \ {p}] /\ UNCHANGED db
                 \/ /\ p \in DOMAIN disk
                    /\ ~NoContent(p)
                    /\ db' = IF Changed(p) /\ ~db.rows[p].hydrated
                             THEN MarkHydrated(db, p, disk[p].stamp) ELSE db
                    /\ up' = at(IF Renamed(p) THEN "move"
                                ELSE IF Changed(p) THEN "replace" ELSE "adopt")
    /\ UNCHANGED <<disk, cloud, lastId, clock, user, list, dl, left, owed, unlinked>>
    /\ Watch

\* Gone from disk without going through the mount: treat as deleted.
UpMissing ==
    /\ up.pc = "missing"
    /\ db' = MarkTombstone(db, up.path)
    /\ up' = UpPass
    /\ UNCHANGED <<disk, cloud, lastId, clock, user, list, dl, left, owed, unlinked>>
    /\ Watch

\* The local rename is carried out, then the row is read again.
UpMove ==
    /\ up.pc = "move"
    /\ \/ /\ ~Refuses(cloud, up.node)
          /\ cloud' = Relocate(cloud, up.node.id, up.path)
          /\ up' = [up EXCEPT !.pc = IF up.changed THEN "replace" ELSE "adopt",
                              !.node = IF Has(db, up.path) THEN NodeOf(up.path) ELSE @]
          /\ UNCHANGED left
       \/ /\ (Refuses(cloud, up.node) /\ UNCHANGED left) \/ Fails("rename")
          /\ up' = UpPass /\ UNCHANGED cloud
    /\ UNCHANGED <<db, disk, lastId, clock, user, list, dl, owed, unlinked>>
    /\ Watch

\* Take the fingerprint and clear the name; whether that works is ignored.
UpReplace ==
    /\ up.pc = "replace"
    /\ IF up.path \notin DOMAIN disk
       THEN up' = UpPass /\ UNCHANGED <<cloud, left>>
       ELSE /\ up' = [up EXCEPT !.pc = "send", !.before = disk[up.path].stamp]
            /\ \/ /\ up.node.id # NoId /\ ~Refuses(cloud, up.node)
                  /\ cloud' = Delete(cloud, up.node.id) /\ UNCHANGED left
               \/ /\ up.node.id = NoId \/ Refuses(cloud, up.node)
                  /\ UNCHANGED <<cloud, left>>
               \/ up.node.id # NoId /\ Fails("delete") /\ UNCHANGED cloud
    /\ UNCHANGED <<db, disk, lastId, clock, user, list, dl, owed, unlinked>>
    /\ Watch

UpSend ==
    /\ up.pc = "send"
    /\ \/ /\ up.path \in DOMAIN disk
          /\ \E q \in UploadPaths(cloud, up.path) :
                cloud' = Create(cloud, lastId + 1, q, "file",
                                disk[up.path].data, disk[up.path].stamp)
          /\ lastId' = lastId + 1
          /\ owed' = owed \ {disk[up.path].data}
          /\ up' = [up EXCEPT !.pc = "meta"]
          /\ UNCHANGED left
       \/ /\ (up.path \notin DOMAIN disk /\ UNCHANGED left) \/ Fails("upload")
          /\ up' = UpPass /\ UNCHANGED <<cloud, lastId, owed>>
    /\ UNCHANGED <<db, disk, clock, user, list, dl, unlinked>>
    /\ Watch

\* Mutant: a file that changed while it was sent is taken for the one sent.
SameFingerprint_assumed == TRUE

SameFingerprint == disk[up.path].stamp = up.before

\* refresh_child_meta finds the item by its name, then the fingerprint tells
\* whether the file changed during the upload.
UpMeta ==
    /\ up.pc = "meta"
    /\ \/ /\ IdsAt(cloud, up.path) = {} \/ up.path \notin DOMAIN disk
          /\ up' = UpPass /\ UNCHANGED <<db, disk, left>>
       \/ Fails("children") /\ up' = UpPass /\ UNCHANGED <<db, disk>>
       \/ /\ up.path \in DOMAIN disk
          /\ \E i \in IdsAt(cloud, up.path) :
                IF SameFingerprint
                THEN /\ disk' = [disk EXCEPT ![up.path].stamp = cloud[i].stamp]
                     /\ up' = [up EXCEPT !.pc = "clean", !.node = Node(cloud, i)]
                     /\ UNCHANGED db
                ELSE /\ db' = MarkUploadedButDirty(db, up.path, Node(cloud, i), Crawling)
                     /\ up' = UpPass /\ UNCHANGED disk
          /\ UNCHANGED left
    /\ UNCHANGED <<cloud, lastId, clock, user, list, dl, owed, unlinked>>
    /\ Watch

\* Only the name or the time changed: there is nothing to send.
UpAdopt ==
    /\ up.pc = "adopt"
    /\ \/ /\ (IdsAt(cloud, up.path) = {} /\ UNCHANGED left) \/ Fails("children")
          /\ up' = UpPass
       \/ /\ \E i \in IdsAt(cloud, up.path) :
                up' = [up EXCEPT !.pc = "clean", !.node = Node(cloud, i)]
          /\ UNCHANGED left
    /\ UNCHANGED <<db, disk, cloud, lastId, clock, user, list, dl, owed, unlinked>>
    /\ Watch

UpClean ==
    /\ up.pc = "clean"
    /\ db' = MarkClean(db, up.path, up.node, Crawling)
    /\ up' = UpPass
    /\ UNCHANGED <<disk, cloud, lastId, clock, user, list, dl, left, owed, unlinked>>
    /\ Watch

UpEnd ==
    /\ up.pc = "pass" /\ up.tombs = {} /\ up.todo = {}
    /\ up' = UpIdle
    /\ UNCHANGED <<db, disk, cloud, lastId, clock, user, list, dl, left, owed, unlinked>>
    /\ Watch

Uploader ==
    \/ UpStart \/ UpTombstone \/ UpForget \/ UpFile \/ UpMissing \/ UpMove
    \/ UpReplace \/ UpSend \/ UpMeta \/ UpAdopt \/ UpClean \/ UpEnd
-----------------------------------------------------------------------------
(***************************************************************************)
(* A listing: list_directory in lazy mode, a crawl and apply_snapshot in   *)
(* full mode.  The children are fetched once and then applied one by one.  *)
(***************************************************************************)

ListItems == [ListIdle EXCEPT !.pc = "items", !.items = list.items, !.ids = list.ids]

ListStart ==
    /\ list.pc = "idle"
    /\ LET children == Children(cloud, Root)
       IN  list' = [ListIdle EXCEPT !.pc = "items", !.items = children,
                                    !.ids = {n.id : n \in children}]
    /\ db' = [db EXCEPT !.rows = [p \in DOMAIN db.rows |-> [db.rows[p] EXCEPT !.recent = FALSE]]]
    /\ UNCHANGED <<disk, cloud, lastId, clock, user, up, dl, left, owed, unlinked>>
    /\ Watch

\* Did the remote item move or change under a locally modified entry?
EntryConflicts(row, node) ==
    \/ row.synced # NoPath /\ row.synced # node.path
    \/ row.etag # 0 /\ row.etag # node.etag

\* The reads of apply_remote_item: a row with the item's id.
ListItem ==
    /\ list.pc = "items"
    /\ \E n \in list.items :
       LET now(pc) == [list EXCEPT !.pc = pc, !.items = @ \ {n}, !.node = n]
           rows == RowsWithId(db, n.id)
       IN  \/ rows = {} /\ list' = now("occupant")
           \/ \E e \in rows :
              LET row == db.rows[e]
                  at(pc) == [now(pc) EXCEPT !.at = e, !.stamp = row.stamp,
                                            !.hydrated = row.hydrated, !.recent = row.recent]
              IN  \/ /\ row.dirty /\ EntryConflicts(row, n)
                     /\ list' = [now("conflict") EXCEPT !.at = e, !.then = "occupant"]
                  \/ \* local changes, a pending delete too, win until uploaded
                     /\ row.dirty /\ ~EntryConflicts(row, n)
                     /\ list' = [list EXCEPT !.items = @ \ {n}]
                  \/ ~row.dirty /\ e # n.path /\ list' = at("relocate")
                  \/ /\ ~row.dirty /\ e = n.path
                     /\ list' = at(IF row.stamp = n.stamp /\ row.etag = n.etag
                                   THEN "store" ELSE "redo")
    /\ UNCHANGED <<db, disk, cloud, lastId, clock, user, up, dl, left, owed, unlinked>>
    /\ Watch

\* resolve_conflict: the local version moves aside, the row follows.
ListConflict ==
    /\ list.pc = "conflict" /\ FreeConflicts # {}
    /\ list' = [list EXCEPT !.pc = "detach", !.to = Pick(FreeConflicts)]
    /\ disk' = IF list.at \in DOMAIN disk THEN Moved(list.at, list'.to) ELSE disk
    /\ UNCHANGED <<db, cloud, lastId, clock, user, up, dl, left, owed, unlinked>>
    /\ Watch

ListDetach ==
    /\ list.pc = "detach"
    /\ db' = QueueConflictCopies(DetachSubtreeAsConflict(db, list.at, list.to), list.to)
    /\ list' = [list EXCEPT !.pc = list.then, !.at = NoPath, !.to = NoPath, !.then = "none"]
    /\ UNCHANGED <<disk, cloud, lastId, clock, user, up, dl, left, owed, unlinked>>
    /\ Watch

\* A new item: a dirty row in its place is a conflict too.
ListOccupant ==
    /\ list.pc = "occupant"
    /\ list' = IF Has(db, list.node.path) /\ db.rows[list.node.path].dirty
               THEN [list EXCEPT !.pc = "conflict", !.at = list.node.path, !.then = "place"]
               ELSE [list EXCEPT !.pc = "place"]
    /\ UNCHANGED <<db, disk, cloud, lastId, clock, user, up, dl, left, owed, unlinked>>
    /\ Watch

\* refresh_clean_entry of an item iCloud has under another name.
ListRelocate ==
    /\ list.pc = "relocate"
    /\ disk' = IF list.at \in DOMAIN disk THEN Moved(list.at, list.node.path) ELSE disk
    /\ list' = [list EXCEPT !.pc = "rekey"]
    /\ UNCHANGED <<db, cloud, lastId, clock, user, up, dl, left, owed, unlinked>>
    /\ Watch

\* The row moves and is read again; after a rename only the size and the time
\* say whether the content changed.
ListRekey ==
    /\ list.pc = "rekey" /\ FreeGraves # {}
    /\ db' = RenameTree(db, list.at, list.node.path, FALSE, TRUE,
                        [q \in {list.node.path} |-> Pick(FreeGraves)])
    /\ LET read == IF Has(db', list.node.path)
                   THEN LET row == db'.rows[list.node.path]
                        IN  [list EXCEPT !.stamp = row.stamp, !.hydrated = row.hydrated,
                                         !.recent = row.recent]
                   ELSE list
       IN  list' = [read EXCEPT !.pc = IF read.stamp = list.node.stamp
                                       THEN "store" ELSE "redo"]
    /\ UNCHANGED <<disk, cloud, lastId, clock, user, up, dl, left, owed, unlinked>>
    /\ Watch

\* A placeholder replaces what the mirror has: for a new item, or one whose
\* content changed.
ListPlace ==
    /\ list.pc \in {"place", "redo"}
    /\ disk' = Write(list.node.path, Hole, list.node.stamp)
    /\ list' = [list EXCEPT !.pc = "store", !.hydrated = FALSE]
    /\ UNCHANGED <<db, cloud, lastId, clock, user, up, dl, left, owed, unlinked>>
    /\ Watch

ListStore ==
    /\ list.pc = "store"
    /\ db' = UpsertEntry(db, list.node.path,
                [FromRemote(list.node.path, list.node) EXCEPT !.hydrated = list.hydrated,
                                                              !.recent = list.recent])
    /\ list' = ListItems
    /\ UNCHANGED <<disk, cloud, lastId, clock, user, up, dl, left, owed, unlinked>>
    /\ Watch

\* The sweep's rows, read once: what iCloud knew and did not list.
Unlisted == {p \in DOMAIN db.rows : db.rows[p].id \notin {NoId} \union list.ids}

\* Mutant: a local change does not keep a row that was not listed.
Verdicts_dropsEdits ==
    {[path |-> p, verdict |-> IF db.rows[p].tomb THEN "forget" ELSE "remove"] : p \in Unlisted}

\* Mutant: a local change always keeps it, even if it is a pending delete.
Verdicts_keepsTombstones ==
    {[path |-> p, verdict |-> IF db.rows[p].dirty THEN "renew" ELSE "remove"] :
        p \in {q \in Unlisted : ~db.rows[q].tomb /\ (db.rows[q].dirty \/ ~db.rows[q].recent)}}

Verdicts ==
    IF CrawlMode = "lazy"
    THEN {[path |-> p, verdict |-> "remove"] : p \in {q \in Unlisted : ~db.rows[q].dirty}}
    ELSE {[path |-> p, verdict |-> IF db.rows[p].tomb THEN "forget"
                                   ELSE IF db.rows[p].dirty THEN "renew" ELSE "remove"] :
             p \in {q \in Unlisted : db.rows[q].dirty \/ ~db.rows[q].recent}}

Sweeping(rest) ==
    IF rest = {} THEN ListIdle ELSE [ListIdle EXCEPT !.pc = "sweep", !.sweep = rest]

ListApplied ==
    /\ list.pc = "items" /\ list.items = {}
    /\ list' = Sweeping(Verdicts)
    /\ UNCHANGED <<db, disk, cloud, lastId, clock, user, up, dl, left, owed, unlinked>>
    /\ Watch

ListSweep ==
    /\ list.pc = "sweep"
    /\ \E v \in list.sweep :
          \/ /\ v.verdict = "forget"
             /\ db' = RemoveSubtree(db, v.path)
             /\ list' = Sweeping(list.sweep \ {v}) /\ UNCHANGED disk
          \/ /\ v.verdict = "renew"
             /\ db' = ClearRemoteIdentity(db, v.path)
             /\ list' = Sweeping(list.sweep \ {v}) /\ UNCHANGED disk
          \/ /\ v.verdict = "remove"
             /\ disk' = Remove(v.path)
             /\ list' = [list EXCEPT !.pc = "unrow", !.at = v.path] /\ UNCHANGED db
    /\ UNCHANGED <<cloud, lastId, clock, user, up, dl, left, owed, unlinked>>
    /\ Watch

ListUnrow ==
    /\ list.pc = "unrow"
    /\ db' = RemoveSubtree(db, list.at)
    /\ list' = Sweeping({v \in list.sweep : v.path # list.at})
    /\ UNCHANGED <<disk, cloud, lastId, clock, user, up, dl, left, owed, unlinked>>
    /\ Watch

Lister ==
    \/ ListStart \/ ListItem \/ ListConflict \/ ListDetach \/ ListOccupant
    \/ ListRelocate \/ ListRekey \/ ListPlace \/ ListStore
    \/ ListApplied \/ ListSweep \/ ListUnrow
-----------------------------------------------------------------------------
(***************************************************************************)
(* A download: the content is staged, the row and the queue are read again,*)
(* and only then does the file take its place.  A call to open that fails  *)
(* changes nothing and is left out.                                        *)
(***************************************************************************)

DlStart ==
    /\ dl.pc = "idle"
    /\ \E p \in DOMAIN db.rows :
          /\ Live(db, p) /\ db.rows[p].id # NoId
          /\ ~(db.rows[p].hydrated /\ p \in DOMAIN disk)
          /\ dl' = [DlIdle EXCEPT !.pc = "open", !.path = p, !.node = NodeOf(p)]
    /\ UNCHANGED <<db, disk, cloud, lastId, clock, user, up, list, left, owed, unlinked>>
    /\ Watch

DlOpen ==
    /\ dl.pc = "open"
    /\ dl' = IF dl.node.id \in DOMAIN cloud
             THEN [dl EXCEPT !.pc = "check", !.data = cloud[dl.node.id].data] ELSE DlIdle
    /\ UNCHANGED <<db, disk, cloud, lastId, clock, user, up, list, left, owed, unlinked>>
    /\ Watch

\* Mutant: the etag the download began with is not compared.
StillWanted_anyEtag ==
    /\ ~HasPendingContentChange(db, dl.path)
    /\ Live(db, dl.path) /\ db.rows[dl.path].id = dl.node.id

StillWanted ==
    /\ ~HasPendingContentChange(db, dl.path)
    /\ Live(db, dl.path)
    /\ db.rows[dl.path].id = dl.node.id /\ db.rows[dl.path].etag = dl.node.etag

DlCheck ==
    /\ dl.pc = "check"
    /\ dl' = IF StillWanted THEN [dl EXCEPT !.pc = "commit"] ELSE DlIdle
    /\ UNCHANGED <<db, disk, cloud, lastId, clock, user, up, list, left, owed, unlinked>>
    /\ Watch

DlCommit ==
    /\ dl.pc = "commit"
    /\ disk' = Write(dl.path, dl.data, dl.node.stamp)
    /\ dl' = [dl EXCEPT !.pc = "mark"]
    /\ UNCHANGED <<db, cloud, lastId, clock, user, up, list, left, owed, unlinked>>
    /\ Watch

DlMark ==
    /\ dl.pc = "mark"
    /\ db' = IF dl.path \in DOMAIN disk
             THEN MarkHydrated(db, dl.path, disk[dl.path].stamp) ELSE db
    /\ dl' = DlIdle
    /\ UNCHANGED <<disk, cloud, lastId, clock, user, up, list, left, owed, unlinked>>
    /\ Watch

\* A file iCloud never had is its own content; one that is not there is made.
DlAdopt ==
    /\ dl.pc = "idle"
    /\ \E p \in DOMAIN db.rows :
          /\ Live(db, p) /\ db.rows[p].id = NoId /\ ~db.rows[p].hydrated
          /\ dl' = [DlIdle EXCEPT !.pc = "mark", !.path = p]
          /\ IF p \in DOMAIN disk
             THEN UNCHANGED <<disk, clock>>
             ELSE clock' = clock + 1 /\ disk' = Write(p, Hole, clock')
    /\ UNCHANGED <<db, cloud, lastId, user, up, list, left, owed, unlinked>>
    /\ Watch

Downloader == DlStart \/ DlOpen \/ DlCheck \/ DlCommit \/ DlMark \/ DlAdopt
-----------------------------------------------------------------------------
(***************************************************************************)
(* The daemon stops, whatever its threads are doing, and starts again: the *)
(* stores survive, reconcile_persistent_cache makes the mirror agree with  *)
(* the rows, and then the threads and the mount come up.                   *)
(***************************************************************************)

Missing == {p \in DOMAIN db.rows : Live(db, p) /\ p \notin DOMAIN disk}

\* A file that is gone: a placeholder for what iCloud has, else an empty one.
Restored(p) ==
    [data |-> Hole, stamp |-> IF db.rows[p].id # NoId THEN db.rows[p].stamp ELSE clock + 1]

ReconciledDisk ==
    [p \in DOMAIN disk \union Missing |-> IF p \in Missing THEN Restored(p) ELSE disk[p]]

\* A row takes its size and time from the mirror.
ReconciledRow(p) ==
    LET row == db.rows[p]
    IN  IF ~Live(db, p) THEN row
        ELSE [row EXCEPT !.stamp = ReconciledDisk[p].stamp,
                         !.hydrated = row.id = NoId \/ (row.hydrated /\ p \notin Missing)]

Restart ==
    /\ Fails("restart")
    /\ user' = UserIdle /\ up' = UpIdle /\ list' = ListIdle /\ dl' = DlIdle
    /\ disk' = ReconciledDisk
    /\ db' = [db EXCEPT !.rows = [p \in DOMAIN db.rows |-> ReconciledRow(p)]]
    /\ clock' = IF \E p \in Missing : db.rows[p].id = NoId THEN clock + 1 ELSE clock
    /\ UNCHANGED <<cloud, lastId, owed, unlinked>>
    /\ raced' = (raced \/ Overlap \/ UserHolds \union ListHolds # {})
-----------------------------------------------------------------------------
(***************************************************************************)
(* Another device.  It may come between an upload and the reading back of  *)
(* what was uploaded: that counts as a disturbance of the path too.        *)
(***************************************************************************)

Free(p) == IdsAt(cloud, p) = {}

AsIfElsewhere(p) == raced' = (raced \/ Overlap \/ (up.pc = "meta" /\ up.path = p))

RemoteAdd ==
    /\ "add" \in RemoteOps
    /\ \E p \in UserPath :
          /\ Free(p)
          /\ cloud' = Create(cloud, lastId + 1, p, "file", clock + 1, clock + 1)
          /\ AsIfElsewhere(p)
    /\ clock' = clock + 1 /\ lastId' = lastId + 1

RemoteEdit ==
    /\ "edit" \in RemoteOps
    /\ \E i \in DOMAIN cloud :
          /\ cloud[i].path \in UserPath
          /\ cloud' = Modify(cloud, i, clock + 1, clock + 1)
          /\ AsIfElsewhere(cloud[i].path)
    /\ clock' = clock + 1 /\ UNCHANGED lastId

RemoteDelete ==
    /\ "delete" \in RemoteOps
    /\ \E i \in DOMAIN cloud :
          /\ cloud[i].path \in UserPath
          /\ cloud' = Delete(cloud, i)
          /\ AsIfElsewhere(cloud[i].path)
    /\ UNCHANGED <<clock, lastId>>

RemoteRename ==
    /\ "rename" \in RemoteOps
    /\ \E i \in DOMAIN cloud, p \in UserPath :
          /\ cloud[i].path \in UserPath /\ Free(p)
          /\ cloud' = Relocate(cloud, i, p)
          /\ AsIfElsewhere(cloud[i].path)
    /\ UNCHANGED <<clock, lastId>>

Elsewhere ==
    /\ left.remote > 0 /\ left' = [left EXCEPT !.remote = @ - 1]
    /\ RemoteAdd \/ RemoteEdit \/ RemoteDelete \/ RemoteRename
    /\ UNCHANGED <<db, disk, user, up, list, dl, owed, unlinked>>
-----------------------------------------------------------------------------
Next ==
    \/ UserBegin \/ UserContinues \/ Uploader \/ Lister \/ Downloader
    \/ Restart \/ Elsewhere

Spec == Init /\ [][Next]_vars

\* The threads of the daemon keep running: upload_loop starts a pass again and
\* again, refresh_loop lists again, and whoever waits for a file runs its
\* download.  A call once made goes on; nobody has to make one, and nothing
\* is assumed of other devices.
Fairness ==
    /\ WF_vars(UserContinues) /\ WF_vars(Uploader)
    /\ WF_vars(Lister) /\ WF_vars(Downloader)

FairSpec == Spec /\ Fairness
-----------------------------------------------------------------------------
(***************************************************************************)
(* Properties.                                                             *)
(***************************************************************************)

\* Only files right under the root are modelled.
Place == Top \union {NoPath}
NodeType == [id : Nat, path : Place, kind : Kind, etag : Nat, stamp : Nat]
FileNode == [id : Nat, path : Top, kind : Kind, etag : Nat, stamp : Nat]
ItemNode == [id : Nat \ {NoId}, path : Top, kind : Kind, etag : Nat, stamp : Nat]

UserState == [pc : {"idle", "hydrate", "mirror", "record", "queue"},
              op : {"none", "write", "create", "unlink", "rename", "touch"},
              path : Place, to : Place, known : BOOLEAN, stamp : Nat]
UpState == [pc : {"idle", "pass", "forget", "missing", "move", "replace", "send",
                  "meta", "adopt", "clean"},
            tombs : SUBSET FileNode, todo : SUBSET Top, path : Place,
            node : NodeType, changed : BOOLEAN, before : Nat]
ListState == [pc : {"idle", "items", "conflict", "detach", "occupant", "relocate",
                    "rekey", "place", "redo", "store", "sweep", "unrow"},
              items : SUBSET ItemNode, ids : SUBSET Nat, node : NodeType,
              at : Place, to : Place, then : {"none", "occupant", "place"},
              stamp : Nat, hydrated : BOOLEAN, recent : BOOLEAN,
              sweep : SUBSET [path : Top, verdict : {"forget", "renew", "remove"}]]
DlState == [pc : {"idle", "open", "check", "commit", "mark"}, path : Place,
            node : NodeType, data : Nat]

\* Every variable has its type: the stores hold rows, files and items of the
\* shapes state.rs, mirror.rs and memory.rs give them.
TypeOK ==
    /\ StoreType(db) /\ DOMAIN db.rows \subseteq Top
    /\ DOMAIN disk \subseteq Top /\ \A p \in DOMAIN disk : disk[p] \in File
    /\ DOMAIN cloud \subseteq Nat \ {NoId}
    /\ \A i \in DOMAIN cloud : cloud[i] \in Item /\ cloud[i].path \in Top
    /\ lastId \in Nat /\ clock \in Nat
    /\ user \in UserState /\ up \in UpState /\ list \in ListState /\ dl \in DlState
    /\ left \in [user : Nat, remote : Nat, fail : Nat]
    /\ owed \subseteq Nat
    /\ unlinked \subseteq [id : Nat, etag : Nat]
    /\ raced \in BOOLEAN

\* A pending delete is always dirty, and so is anything iCloud does not have:
\* the sweep of a lazy listing (remote.rs:105) asks only `dirty' before it
\* removes a row, and list_dirty_entries is all the uploader looks at.  A
\* clean row is known to iCloud under its own path.
RowDiscipline == \A p \in DOMAIN db.rows : Disciplined(db.rows[p], p)

\* What an actor has in hand in the middle of a handler: a file of the folder,
\* and where it is going to be recorded as what iCloud has, an item iCloud
\* gave an id.
InHand ==
    /\ user.pc # "idle" => user.path \in Top
    /\ user.op = "rename" => user.to \in Top
    /\ user.pc = "queue" => user.op \in {"write", "create", "unlink"}
    /\ up.pc \notin {"idle", "pass"} => up.path \in Top
    /\ up.pc = "clean" => up.node.id # NoId
    /\ list.pc \notin {"idle", "items", "sweep", "unrow"} => list.node \in ItemNode
    /\ list.pc \in {"conflict", "detach", "relocate", "rekey", "unrow"} => list.at \in Top
    /\ list.pc = "detach" => list.to \in Top
    /\ list.pc \in {"conflict", "detach"} => list.then # "none"
    /\ dl.pc # "idle" => dl.path \in Top

\* get_entry_by_remote_id takes any row that matches: there must be one.
UniqueIds ==
    Undisturbed =>
        \A p, q \in DOMAIN db.rows :
            db.rows[p].id = db.rows[q].id /\ db.rows[p].id # NoId => p = q

WillBeSent(p) ==
    /\ Live(db, p) /\ db.rows[p].dirty /\ db.rows[p].hydrated
    /\ db.rows[p].id = NoId \/ HasPendingContentChange(db, p)

\* "Nothing is ever dropped because an upload failed" (upload.rs:5), nor for
\* any other reason: content that only this machine has is on disk, and the
\* row that names it is one the next pass will send, except on the paths an
\* actor is in the middle of changing.
EditSafe ==
    Undisturbed =>
        \A v \in owed : \E p \in DOMAIN disk :
            /\ disk[p].data = v
            /\ p \in UserHolds \union ListHolds \/ WillBeSent(p)

\* The zeros of a placeholder never become a file's content on iCloud.
NoZerosSent == Undisturbed => \A i \in DOMAIN cloud : cloud[i].data # Hole

\* An item the user deleted stays a pending delete, whatever the listings,
\* recreations and failed calls in between, for as long as iCloud has it as
\* it was.
DeleteSticks ==
    Undisturbed =>
        \A d \in unlinked :
            d.id \in DOMAIN cloud /\ cloud[d.id].etag = d.etag =>
                \E p \in RowsWithId(db, d.id) : db.rows[p].tomb

\* A file that is clean, downloaded and current (it has the etag iCloud has)
\* holds the bytes iCloud has.
CleanMeansSame ==
    Undisturbed =>
        \A p \in DOMAIN db.rows \ (ListHolds \union UpHolds \union UserHolds) :
            LET row == db.rows[p]
            IN  ~row.dirty /\ row.hydrated /\ row.id \in DOMAIN cloud
                  /\ row.etag = cloud[row.id].etag /\ p \in DOMAIN disk
                => disk[p].data = cloud[row.id].data

\* A file in the mirror has a live row, or it would show in the folder and
\* never be uploaded.
NoOrphanFile ==
    Undisturbed =>
        \A p \in DOMAIN disk \ (UserHolds \union ListHolds \union UpHolds) : Live(db, p)

\* iCloud and this machine agree: no local change is left to send, and the
\* rows are the items iCloud has, at their paths and etags.
Settled ==
    /\ owed = {}
    /\ \A p \in DOMAIN db.rows : ~db.rows[p].dirty
    /\ {[id |-> db.rows[p].id, path |-> p, etag |-> db.rows[p].etag] : p \in DOMAIN db.rows}
         = {[id |-> i, path |-> cloud[i].path, etag |-> cloud[i].etag] : i \in DOMAIN cloud}

\* Once the changes stop, the two sides come to agree and stay so, however
\* listings, passes, downloads and failed calls were interleaved with them,
\* unless two actors were on one path at the same time.
EventuallySettled == <>[](raced \/ Settled)
=============================================================================
