----------------------------- MODULE SyncState -----------------------------
(***************************************************************************)
(* The metadata store (icloud-core/src/state.rs): the table `entries', one *)
(* row per path, and the table `pending_ops'.  Every method of StateStore  *)
(* holds the connection mutex for its whole body (and a transaction where  *)
(* it runs several statements), so each is one pure operator from store to *)
(* store here; the modules that EXTEND this one decide when it is called.  *)
(*                                                                         *)
(* A store is [rows, ops].  rows is a partial function from paths: the     *)
(* column `path' is the primary key, nothing else is unique.  A row keeps  *)
(*   id      remote_drivewsid, NoId for NULL                               *)
(*   etag    remote_etag, 0 for NULL                                       *)
(*   stamp   the identity of the pair (size, mtime)                        *)
(*   synced  synced_path, NoPath for NULL                                  *)
(*   recent  last_synced_at, kept as its only use: did the row sync since  *)
(*           the crawl that is running began?                              *)
(* Checksums, zones and share ids take no decision and are left out, as is *)
(* `folder_listings'.  ops holds the operations that decide something: the *)
(* content changes and the creations; a queued delete or rename is never   *)
(* read back by the engine, only counted, so queueing one adds nothing.    *)
(***************************************************************************)
EXTENDS Paths, FiniteSets

NoId == 0
NoPath == Root          \* the root never has a row, nor is it a synced path

Kind == {"file", "folder"}

\* What one row records.
Entry == [kind : Kind, id : Nat, etag : Nat, stamp : Nat, hydrated : BOOLEAN,
          dirty : BOOLEAN, tomb : BOOLEAN, synced : Path, recent : BOOLEAN]

ContentOps == {"create", "update", "conflict-copy"}
PendingOp == [op : ContentOps \union {"mkdir"}, path : Path]

\* A store holds entries under paths, and operations.
StoreType(db) ==
    /\ DOMAIN db = {"rows", "ops"}
    /\ DOMAIN db.rows \subseteq Path
    /\ \A p \in DOMAIN db.rows : db.rows[p] \in Entry
    /\ db.ops \subseteq PendingOp

\* A pending delete is dirty, and so is what iCloud does not have; a clean row
\* is one that iCloud knows under that very path.
Disciplined(row, p) ==
    /\ row.tomb => row.dirty
    /\ row.id = NoId => row.dirty
    /\ ~row.dirty => row.synced = p

\* Something made on this machine: dirty, and unknown to iCloud.
Local(kind, stamp) ==
    [kind |-> kind, id |-> NoId, etag |-> 0, stamp |-> stamp, hydrated |-> TRUE,
     dirty |-> TRUE, tomb |-> FALSE, synced |-> NoPath, recent |-> FALSE]

\* What iCloud reports at p: clean, and a file is not downloaded yet.  The files of
\* the model have content; an empty one has nothing to fetch, its placeholder is its
\* content, and its row is at once that of a file that is downloaded.
FromRemote(p, node) ==
    [kind |-> node.kind, id |-> node.id, etag |-> node.etag, stamp |-> node.stamp,
     hydrated |-> node.kind = "folder", dirty |-> FALSE, tomb |-> FALSE,
     synced |-> p, recent |-> FALSE]
-----------------------------------------------------------------------------
\* Reading.

Has(db, p) == p \in DOMAIN db.rows

Live(db, p) == Has(db, p) /\ ~db.rows[p].tomb

\* Mutant: the query by id passes over the rows with local changes.
RowsWithId_clean(db, id) == {p \in DOMAIN db.rows : db.rows[p].id = id /\ ~db.rows[p].dirty}

RowsWithId(db, id) == {p \in DOMAIN db.rows : db.rows[p].id = id}

Subtree(db, p) == {q \in DOMAIN db.rows : IsWithin(q, p)}

HasPendingContentChange(db, p) ==
    \E o \in db.ops : o.path = p /\ o.op \in ContentOps
-----------------------------------------------------------------------------
\* Writing rows.  UPDATE ... WHERE path = p touches nothing when p has no row.

UpdateRow(db, p, row) ==
    [db EXCEPT !.rows = [q \in DOMAIN db.rows |-> IF q = p THEN row ELSE db.rows[q]]]

UpsertEntry(db, p, row) ==
    [db EXCEPT !.rows = [q \in DOMAIN db.rows \union {p} |->
                            IF q = p THEN row ELSE db.rows[q]]]

\* DELETE of the rows at `gone', and of the operations queued for them.
Without(db, gone) ==
    [rows |-> [q \in DOMAIN db.rows \ gone |-> db.rows[q]],
     ops  |-> {o \in db.ops : o.path \notin gone}]

\* Rows moved to new keys; key is an injective function of old paths.
Rekey(rows, key) ==
    [p \in {key[q] : q \in DOMAIN key} |-> rows[CHOOSE q \in DOMAIN key : key[q] = p]]

MarkHydrated(db, p, stamp) ==
    UpdateRow(db, p, [db.rows[p] EXCEPT !.hydrated = TRUE, !.stamp = stamp])

\* hydrate says whether the caller passes hydrated = Some(true) or None.
MarkDirty(db, p, stamp, hydrate) ==
    UpdateRow(db, p, [db.rows[p] EXCEPT !.dirty = TRUE, !.tomb = FALSE,
                                        !.stamp = stamp, !.hydrated = @ \/ hydrate])

\* Mutant: the row is not marked dirty.
MarkTombstone_clean(db, p) == UpdateRow(db, p, [db.rows[p] EXCEPT !.tomb = TRUE])

MarkTombstone(db, p) ==
    UpdateRow(db, p, [db.rows[p] EXCEPT !.dirty = TRUE, !.tomb = TRUE])

\* Adopt what iCloud says, and forget the operations queued for p.
MarkClean(db, p, node, recent) ==
    LET clean == UpdateRow(db, p,
            [db.rows[p] EXCEPT !.dirty = FALSE, !.tomb = FALSE,
                !.hydrated = @ \/ db.rows[p].kind # "file",
                !.id = node.id, !.etag = node.etag, !.stamp = node.stamp,
                !.synced = p, !.recent = recent])
    IN  [clean EXCEPT !.ops = {o \in db.ops : o.path # p}]

\* The new identity, but still dirty and with its operations.
MarkUploadedButDirty(db, p, node, recent) ==
    UpdateRow(db, p, [db.rows[p] EXCEPT !.id = node.id, !.etag = node.etag,
                                        !.synced = p, !.recent = recent])

RemoveEntry(db, p) == Without(db, {p})

RemoveSubtree(db, p) ==
    Without(db, Subtree(db, p) \union {o.path : o \in {x \in db.ops : IsWithin(x.path, p)}})

\* The item is gone from iCloud but has changes worth keeping: new again.
ClearRemoteIdentity(db, p) ==
    UpdateRow(db, p, [db.rows[p] EXCEPT !.id = NoId, !.etag = 0, !.synced = NoPath,
                                        !.dirty = TRUE, !.tomb = FALSE])
-----------------------------------------------------------------------------
\* Re-keying.  A displaced row becomes a pending delete under a private key;
\* its synced path keeps naming the item iCloud knows.

Buried(row, p) ==
    [row EXCEPT !.tomb = TRUE, !.dirty = TRUE, !.synced = IF @ = NoPath THEN p ELSE @]

\* A tombstone at p makes way for a new entry.
BuryTombstone(db, p, grave) ==
    IF Has(db, p) /\ db.rows[p].tomb
    THEN [db EXCEPT !.rows =
            Rekey(UpdateRow(db, p, Buried(db.rows[p], p)).rows,
                  [q \in DOMAIN db.rows |-> IF q = p THEN grave ELSE q])]
    ELSE db

\* Mutant: the rows at new are deleted after the move, and not before.
RenameTree_deletesLast(db, old, new, rootDirty, updateSynced, grave) ==
    RemoveSubtree(RemoveSubtree(db, new), old)

\* Move the subtree at old to new.  Rows already at new that iCloud knows are
\* buried, each under grave[its path], and the others dropped.  The queued
\* operations of the moved paths follow them; those of displaced paths stay.
RenameTree(db, old, new, rootDirty, updateSynced, grave) ==
    LET moving    == Subtree(db, old)
        displaced == Subtree(db, new)
        buried    == {q \in displaced : db.rows[q].id # NoId}
        key == [q \in (DOMAIN db.rows \ displaced) \union buried |->
                    IF q \in buried THEN grave[q]
                    ELSE IF q \in moving THEN Rebase(q, old, new) ELSE q]
        moved(row, q) ==
            [row EXCEPT !.dirty = @ \/ (rootDirty /\ q = old),
                        !.synced = IF updateSynced /\ IsWithin(@, old)
                                   THEN Rebase(@, old, new) ELSE @]
        row == [q \in DOMAIN key |->
                    IF q \in buried THEN Buried(db.rows[q], q)
                    ELSE IF q \in moving THEN moved(db.rows[q], q) ELSE db.rows[q]]
    IN  IF moving = {} THEN db
        ELSE [rows |-> Rekey(row, key),
              ops  |-> {[o EXCEPT !.path = IF IsWithin(@, old)
                                           THEN Rebase(@, old, new) ELSE @] : o \in db.ops}]

\* The local side of a conflict: the subtree at old goes on as new content at
\* new.  The queued operations are not touched.
DetachSubtreeAsConflict(db, old, new) ==
    LET detached(row) == [row EXCEPT !.id = NoId, !.etag = 0, !.synced = NoPath,
                                     !.dirty = TRUE, !.tomb = FALSE]
        moving == Subtree(db, old)
    IN  [db EXCEPT !.rows =
            Rekey([q \in DOMAIN db.rows |->
                      IF q \in moving THEN detached(db.rows[q]) ELSE db.rows[q]],
                  [q \in DOMAIN db.rows |->
                      IF q \in moving THEN Rebase(q, old, new) ELSE q])]
-----------------------------------------------------------------------------
\* Queued operations.

\* Mutant: every call adds a row to the table.
QueueOp_appends(db, op, p) == [db EXCEPT !.ops = @ \union {[op |-> op, path |-> p]}]

QueueOp(db, op, p) ==
    LET here(kinds) == \E o \in db.ops : o.path = p /\ o.op \in kinds
        noted == [db EXCEPT !.ops = @ \union {[op |-> op, path |-> p]}]
    IN  CASE op = "delete" -> IF here({"create", "mkdir"})
                              THEN [db EXCEPT !.ops = {o \in @ : o.path # p}] ELSE db
          [] op = "update" -> IF here({"create", "update"}) THEN db ELSE noted
          [] op \in {"create", "mkdir"} -> noted

\* One note per row of the subtree a conflict moved to p.
QueueConflictCopies(db, p) ==
    [db EXCEPT !.ops = @ \union {[op |-> "conflict-copy", path |-> q] : q \in Subtree(db, p)}]
=============================================================================
