--------------------------- MODULE FileSyncProofs ---------------------------
(***************************************************************************)
(* FileSync, for every instance.  Three inductive invariants, each resting *)
(* on the one before:                                                      *)
(*   IInv  types and the discipline of the rows, whatever the actors do    *)
(*         and however they are interleaved, overlapping included;         *)
(*   OInv  files and rows go together, and what each actor has seen of     *)
(*         them holds, as long as no two actors met on a path;             *)
(*   EInv  what is owed to the user is on disk under a row that will be    *)
(*         sent, or that somebody is about to make so.                     *)
(* For each, first what the operations of the store preserve, then one     *)
(* lemma per action.                                                       *)
(***************************************************************************)
EXTENDS FileSync, SequenceTheorems, TLAPS
-----------------------------------------------------------------------------
(***************************************************************************)
(* What the operators of SyncState preserve.  A store is `sound' when it   *)
(* has its type and each of its rows is disciplined; every operator takes  *)
(* a sound store of files of one folder to a sound one, under the          *)
(* conditions its callers meet.                                            *)
(***************************************************************************)
Sound(st) ==
    /\ StoreType(st)
    /\ DOMAIN st.rows \subseteq Top
    /\ \A p \in DOMAIN st.rows : Disciplined(st.rows[p], p)
-----------------------------------------------------------------------------
LEMMA RebasePath ==
    ASSUME NEW p \in Path, NEW old \in Path, NEW new \in Path, IsWithin(p, old)
    PROVE  Rebase(p, old, new) \in Path
<1> DEFINE rest == SubSeq(p, Len(old) + 1, Len(p))
<1>1. Len(old) \in Nat /\ Len(p) \in Nat /\ Len(old) <= Len(p)
  BY LenProperties DEF IsWithin, Path
<1>2. \A i \in Len(old) + 1 .. Len(p) : p[i] \in Name
  BY <1>1, ElementOfSeq DEF Path
<1>3. rest \in Seq(Name)
  BY <1>1, <1>2, SubSeqProperties DEF Path
<1> QED
  BY <1>3, ConcatProperties DEF Rebase, Path

\* A path of one component is a path; it is within another only if it is the
\* other; and moving it moves all of it.
LEMMA TopPaths ==
    ASSUME NEW p \in Top
    PROVE  /\ p \in Path /\ p # Root /\ Parent(p) = Root /\ Len(p) = 1
           /\ \A q \in Top : IsWithin(p, q) <=> p = q
           /\ \A q \in Top : Rebase(p, p, q) = q
<1>1. PICK n \in Name : p = <<n>>
  BY DEF Top, Root
<1>2. p \in Path /\ Len(p) = 1 /\ p # Root
  BY <1>1 DEF Path, Root
<1>3. Parent(p) = Root
  BY <1>1, <1>2 DEF Parent, Root
<1>4. ASSUME NEW q \in Top  PROVE IsWithin(p, q) <=> p = q
  <2>1. PICK m \in Name : q = <<m>>
    BY DEF Top, Root
  <2>2. SubSeq(p, 1, Len(p)) = p
    BY <1>2, SubSeqFull DEF Path
  <2> QED
    BY <1>1, <2>1, <2>2 DEF IsWithin
<1>5. ASSUME NEW q \in Top  PROVE Rebase(p, p, q) = q
  <2>1. q \in Path
    BY DEF Top, Root, Path
  <2>2. SubSeq(p, Len(p) + 1, Len(p)) = <<>>
    BY <1>2, SubSeqEmpty
  <2> QED
    BY <2>1, <2>2, ConcatEmptySeq DEF Rebase, Path
<1> QED
  BY <1>2, <1>3, <1>4, <1>5
-----------------------------------------------------------------------------
\* Replacing a row by a disciplined one.
LEMMA UpdateRowSound ==
    ASSUME NEW st, Sound(st), NEW p, NEW row,
           p \in DOMAIN st.rows => row \in Entry /\ Disciplined(row, p)
    PROVE  Sound(UpdateRow(st, p, row))
BY DEF UpdateRow, Sound, StoreType

\* Inserting or replacing one.
LEMMA UpsertEntrySound ==
    ASSUME NEW st, Sound(st), NEW p \in Top, NEW row \in Entry, Disciplined(row, p)
    PROVE  Sound(UpsertEntry(st, p, row))
<1>1. p \in Path
  BY TopPaths
<1> QED
  BY <1>1 DEF UpsertEntry, Sound, StoreType

\* Deleting rows and operations.
LEMMA WithoutSound ==
    ASSUME NEW st, Sound(st), NEW gone
    PROVE  Sound(Without(st, gone))
BY DEF Without, Sound, StoreType

LEMMA RemoveSound ==
    ASSUME NEW st, Sound(st), NEW p
    PROVE  Sound(RemoveEntry(st, p)) /\ Sound(RemoveSubtree(st, p))
BY WithoutSound DEF RemoveEntry, RemoveSubtree

\* The updates of one row.  Each keeps the type of the store and the discipline
\* of its rows whether or not the path has a row (an UPDATE then does nothing).
LEMMA MarkHydratedSound ==
    ASSUME NEW st, Sound(st), NEW p, NEW stamp \in Nat
    PROVE  Sound(MarkHydrated(st, p, stamp))
<1> DEFINE row == [st.rows[p] EXCEPT !.hydrated = TRUE, !.stamp = stamp]
<1>1. ASSUME p \in DOMAIN st.rows  PROVE row \in Entry /\ Disciplined(row, p)
  <2>1. st.rows[p] \in Entry /\ Disciplined(st.rows[p], p)
    BY <1>1 DEF Sound, StoreType
  <2> QED
    BY <2>1, Zenon DEF Entry, Disciplined
<1> QED
  BY <1>1, UpdateRowSound DEF MarkHydrated

LEMMA MarkDirtySound ==
    ASSUME NEW st, Sound(st), NEW p, NEW stamp \in Nat, NEW hydrate \in BOOLEAN
    PROVE  Sound(MarkDirty(st, p, stamp, hydrate))
<1> DEFINE row == [st.rows[p] EXCEPT !.dirty = TRUE, !.tomb = FALSE,
                                     !.stamp = stamp, !.hydrated = @ \/ hydrate]
<1>1. ASSUME p \in DOMAIN st.rows  PROVE row \in Entry /\ Disciplined(row, p)
  <2>1. st.rows[p] \in Entry /\ Disciplined(st.rows[p], p)
    BY <1>1 DEF Sound, StoreType
  <2> QED
    BY <2>1, Zenon DEF Entry, Disciplined
<1> QED
  BY <1>1, UpdateRowSound DEF MarkDirty

LEMMA MarkTombstoneSound ==
    ASSUME NEW st, Sound(st), NEW p
    PROVE  Sound(MarkTombstone(st, p))
<1> DEFINE row == [st.rows[p] EXCEPT !.dirty = TRUE, !.tomb = TRUE]
<1>1. ASSUME p \in DOMAIN st.rows  PROVE row \in Entry /\ Disciplined(row, p)
  <2>1. st.rows[p] \in Entry /\ Disciplined(st.rows[p], p)
    BY <1>1 DEF Sound, StoreType
  <2> QED
    BY <2>1, Zenon DEF Entry, Disciplined
<1> QED
  BY <1>1, UpdateRowSound DEF MarkTombstone

LEMMA ClearRemoteIdentitySound ==
    ASSUME NEW st, Sound(st), NEW p
    PROVE  Sound(ClearRemoteIdentity(st, p))
<1> DEFINE row == [st.rows[p] EXCEPT !.id = NoId, !.etag = 0, !.synced = NoPath,
                                     !.dirty = TRUE, !.tomb = FALSE]
<1>1. ASSUME p \in DOMAIN st.rows  PROVE row \in Entry /\ Disciplined(row, p)
  <2>1. st.rows[p] \in Entry /\ Disciplined(st.rows[p], p)
    BY <1>1 DEF Sound, StoreType
  <2> QED
    BY <2>1, EmptySeq, Zenon DEF Entry, Disciplined, NoId, NoPath, Root, Path
<1> QED
  BY <1>1, UpdateRowSound DEF ClearRemoteIdentity

\* Only what iCloud has may be recorded as clean: the node needs an id.
LEMMA MarkCleanSound ==
    ASSUME NEW st, Sound(st), NEW p \in Top, NEW node, NEW recent \in BOOLEAN,
           node.id \in Nat \ {NoId}, node.etag \in Nat, node.stamp \in Nat
    PROVE  Sound(MarkClean(st, p, node, recent))
<1> DEFINE row == [st.rows[p] EXCEPT !.dirty = FALSE, !.tomb = FALSE,
                       !.hydrated = @ \/ st.rows[p].kind # "file",
                       !.id = node.id, !.etag = node.etag, !.stamp = node.stamp,
                       !.synced = p, !.recent = recent]
           clean == UpdateRow(st, p, row)
<1>1. ASSUME p \in DOMAIN st.rows  PROVE row \in Entry /\ Disciplined(row, p)
  <2>1. p \in Path
    BY TopPaths
  <2>2. st.rows[p] \in Entry /\ Disciplined(st.rows[p], p)
    BY <1>1 DEF Sound, StoreType
  <2> QED
    BY <2>1, <2>2, Zenon DEF Entry, Disciplined
<1>2. Sound(clean)
  BY <1>1, UpdateRowSound
<1>3. clean.ops = st.ops /\ DOMAIN clean = {"rows", "ops"}
  BY DEF UpdateRow, Sound, StoreType
<1>4. MarkClean(st, p, node, recent) = [clean EXCEPT !.ops = {o \in st.ops : o.path # p}]
  BY DEF MarkClean
<1>5. {o \in st.ops : o.path # p} \subseteq st.ops
  OBVIOUS
<1> HIDE DEF clean
<1> QED
  BY <1>2, <1>3, <1>4, <1>5 DEF Sound, StoreType

LEMMA MarkUploadedButDirtySound ==
    ASSUME NEW st, Sound(st), NEW p \in Top, NEW node, NEW recent \in BOOLEAN,
           node.id \in Nat \ {NoId}, node.etag \in Nat
    PROVE  Sound(MarkUploadedButDirty(st, p, node, recent))
<1> DEFINE row == [st.rows[p] EXCEPT !.id = node.id, !.etag = node.etag,
                                     !.synced = p, !.recent = recent]
<1>1. ASSUME p \in DOMAIN st.rows  PROVE row \in Entry /\ Disciplined(row, p)
  <2>1. p \in Path
    BY TopPaths
  <2>2. st.rows[p] \in Entry /\ Disciplined(st.rows[p], p)
    BY <1>1 DEF Sound, StoreType
  <2> QED
    BY <2>1, <2>2, Zenon DEF Entry, Disciplined
<1> QED
  BY <1>1, UpdateRowSound DEF MarkUploadedButDirty
-----------------------------------------------------------------------------
\* Re-keying keeps a store sound when every row is disciplined where it ends up.
LEMMA RekeySound ==
    ASSUME NEW st, Sound(st), NEW rows, NEW key, NEW ops \in SUBSET PendingOp,
           \A q \in DOMAIN key : /\ key[q] \in Top
                               /\ rows[q] \in Entry
                               /\ Disciplined(rows[q], key[q])
    PROVE  Sound([rows |-> Rekey(rows, key), ops |-> ops])
<1> DEFINE new == Rekey(rows, key)
<1>1. /\ DOMAIN new = {key[q] : q \in DOMAIN key}
      /\ \A p \in DOMAIN new : \E q \in DOMAIN key : key[q] = p /\ new[p] = rows[q]
  BY Zenon DEF Rekey
<1> HIDE DEF new
<1>2. DOMAIN new \subseteq Top
  BY <1>1
<1>3. ASSUME NEW p \in DOMAIN new  PROVE new[p] \in Entry /\ Disciplined(new[p], p)
  BY <1>1
<1>4. Top \subseteq Path
  BY TopPaths
<1> QED
  BY <1>2, <1>3, <1>4 DEF Sound, StoreType, new

LEMMA BuriedDisciplined ==
    ASSUME NEW row \in Entry, NEW p \in Path, NEW at
    PROVE  Buried(row, p) \in Entry /\ Disciplined(Buried(row, p), at)
BY Zenon DEF Buried, Entry, Disciplined

LEMMA BuryTombstoneSound ==
    ASSUME NEW st, Sound(st), NEW p \in Top, NEW grave \in Top
    PROVE  Sound(BuryTombstone(st, p, grave))
<1>1. CASE ~(Has(st, p) /\ st.rows[p].tomb)
  BY <1>1 DEF BuryTombstone
<1>2. CASE Has(st, p) /\ st.rows[p].tomb
  <2> DEFINE rows == UpdateRow(st, p, Buried(st.rows[p], p)).rows
             key == [q \in DOMAIN st.rows |-> IF q = p THEN grave ELSE q]
  <2>1. rows = [q \in DOMAIN st.rows |-> IF q = p THEN Buried(st.rows[p], p) ELSE st.rows[q]]
    BY DEF UpdateRow, Sound, StoreType
  <2>2. p \in Path
    BY TopPaths
  <2>3. ASSUME NEW q \in DOMAIN key
        PROVE  key[q] \in Top /\ rows[q] \in Entry /\ Disciplined(rows[q], key[q])
    <3>1. CASE q = p
      BY <1>2, <2>1, <2>2, <2>3, <3>1, BuriedDisciplined DEF Sound, StoreType
    <3>2. CASE q # p
      BY <2>1, <2>3, <3>2 DEF Sound, StoreType
    <3> QED
      BY <3>1, <3>2
  <2>4. BuryTombstone(st, p, grave) = [st EXCEPT !.rows = Rekey(rows, key)]
    BY <1>2 DEF BuryTombstone
  <2>5. st.ops \in SUBSET PendingOp
    BY DEF Sound, StoreType
  <2> HIDE DEF rows, key
  <2>6. Sound([rows |-> Rekey(rows, key), ops |-> st.ops])
    BY <2>3, <2>5, RekeySound
  <2>7. Sound([st EXCEPT !.rows = Rekey(rows, key)])
    BY <2>6 DEF Sound, StoreType
  <2> QED
    BY <2>4, <2>7
<1> QED
  BY <1>1, <1>2

\* The move marks its root dirty, as a rename made here does, or updates the
\* synced path, as one made on iCloud does: otherwise a clean row would lie
\* under a path iCloud does not know it by.
LEMMA RenameTreeSound ==
    ASSUME NEW st, Sound(st), NEW old \in Top, NEW new \in Top, NEW grave,
           grave[new] \in Top, NEW rootDirty \in BOOLEAN, NEW updateSynced \in BOOLEAN,
           rootDirty \/ updateSynced
    PROVE  Sound(RenameTree(st, old, new, rootDirty, updateSynced, grave))
<1> DEFINE moving    == Subtree(st, old)
           displaced == Subtree(st, new)
           buried    == {q \in displaced : st.rows[q].id # NoId}
           key == [q \in (DOMAIN st.rows \ displaced) \union buried |->
                       IF q \in buried THEN grave[q]
                       ELSE IF q \in moving THEN Rebase(q, old, new) ELSE q]
           moved(r, q) ==
               [r EXCEPT !.dirty = @ \/ (rootDirty /\ q = old),
                         !.synced = IF updateSynced /\ IsWithin(@, old)
                                    THEN Rebase(@, old, new) ELSE @]
           row == [q \in DOMAIN key |->
                       IF q \in buried THEN Buried(st.rows[q], q)
                       ELSE IF q \in moving THEN moved(st.rows[q], q) ELSE st.rows[q]]
           ops == {[o EXCEPT !.path = IF IsWithin(@, old)
                                      THEN Rebase(@, old, new) ELSE @] : o \in st.ops}
<1>1. Top \subseteq Path
  BY TopPaths
<1>2. moving \subseteq {old} /\ displaced \subseteq {new}
  BY TopPaths DEF Subtree, Sound
<1>3. ASSUME NEW q \in DOMAIN key
      PROVE  key[q] \in Top /\ row[q] \in Entry /\ Disciplined(row[q], key[q])
  <2>1. q \in DOMAIN st.rows /\ q \in Top /\ q \in Path
    BY <1>1, <1>3 DEF Sound, Subtree
  <2>2. st.rows[q] \in Entry /\ Disciplined(st.rows[q], q)
    BY <2>1 DEF Sound, StoreType
  <2>3. CASE q \in buried
    BY <1>2, <1>3, <2>1, <2>2, <2>3, BuriedDisciplined, ZenonT(40)
  <2>4. CASE q \notin buried /\ q \in moving
    <3>1. q = old /\ key[q] = new /\ row[q] = moved(st.rows[q], q)
      BY <1>2, <1>3, <2>4, TopPaths, Zenon
    <3>2. IsWithin(old, old) /\ Rebase(old, old, new) = new
      BY TopPaths
    <3>3. st.rows[q].synced \in Path
      BY <2>2 DEF Entry
    <3>4. IsWithin(st.rows[q].synced, old) => Rebase(st.rows[q].synced, old, new) \in Path
      BY <1>1, <3>3, RebasePath
    <3>5. row[q] \in Entry
      BY ZenonT(60), <2>2, <3>1, <3>3, <3>4 DEF Entry
    <3>6. Disciplined(row[q], new)
      BY <2>2, <3>1, <3>2, ZenonT(40) DEF Entry, Disciplined
    <3> QED
      BY <3>1, <3>5, <3>6, Zenon
  <2>5. CASE q \notin buried /\ q \notin moving
    BY <1>3, <2>1, <2>2, <2>5, Zenon
  <2> QED
    BY <2>3, <2>4, <2>5, Zenon
<1>4. ops \in SUBSET PendingOp
  <2> SUFFICES ASSUME NEW o \in st.ops
               PROVE  [o EXCEPT !.path = IF IsWithin(@, old)
                                         THEN Rebase(@, old, new) ELSE @] \in PendingOp
    OBVIOUS
  <2>1. o \in PendingOp /\ o.path \in Path
    BY DEF Sound, StoreType, PendingOp
  <2>2. IsWithin(o.path, old) => Rebase(o.path, old, new) \in Path
    BY <1>1, <2>1, RebasePath
  <2> QED
    BY <2>1, <2>2 DEF PendingOp
<1>5. RenameTree(st, old, new, rootDirty, updateSynced, grave)
        = IF moving = {} THEN st ELSE [rows |-> Rekey(row, key), ops |-> ops]
  BY DEF RenameTree
<1> HIDE DEF row, key, ops, moving
<1>6. Sound([rows |-> Rekey(row, key), ops |-> ops])
  BY <1>3, <1>4, RekeySound
<1> QED
  BY <1>5, <1>6

\* A conflict leaves a row that iCloud does not know, so a dirty one.
LEMMA DetachSound ==
    ASSUME NEW st, Sound(st), NEW old \in Top, NEW new \in Top
    PROVE  Sound(DetachSubtreeAsConflict(st, old, new))
<1> DEFINE detached(row) == [row EXCEPT !.id = NoId, !.etag = 0, !.synced = NoPath,
                                        !.dirty = TRUE, !.tomb = FALSE]
           moving == Subtree(st, old)
           row == [q \in DOMAIN st.rows |->
                      IF q \in moving THEN detached(st.rows[q]) ELSE st.rows[q]]
           key == [q \in DOMAIN st.rows |->
                      IF q \in moving THEN Rebase(q, old, new) ELSE q]
<1>1. NoPath \in Path
  BY EmptySeq DEF NoPath, Root, Path
<1>2. moving \subseteq {old}
  BY TopPaths DEF Subtree, Sound
<1>3. ASSUME NEW q \in DOMAIN key
      PROVE  key[q] \in Top /\ row[q] \in Entry /\ Disciplined(row[q], key[q])
  <2>1. q \in Top /\ st.rows[q] \in Entry /\ Disciplined(st.rows[q], q)
    BY <1>3 DEF Sound, StoreType
  <2>2. CASE q \in moving
    <3>1. key[q] = new
      BY <1>2, <1>3, <2>2, TopPaths
    <3>2. row[q] = detached(st.rows[q])
      BY <1>3, <2>2, Zenon
    <3> QED
      BY <1>1, <2>1, <3>1, <3>2, Zenon DEF Entry, Disciplined, NoId
  <2>3. CASE q \notin moving
    BY <1>3, <2>1, <2>3, Zenon
  <2> QED
    BY <2>2, <2>3, Zenon
<1>4. DetachSubtreeAsConflict(st, old, new) = [st EXCEPT !.rows = Rekey(row, key)]
  BY DEF DetachSubtreeAsConflict
<1>5. st.ops \in SUBSET PendingOp
  BY DEF Sound, StoreType
<1> HIDE DEF row, key
<1>6. Sound([rows |-> Rekey(row, key), ops |-> st.ops])
  BY <1>3, <1>5, RekeySound
<1>7. Sound([st EXCEPT !.rows = Rekey(row, key)])
  BY <1>6 DEF Sound, StoreType
<1> QED
  BY <1>4, <1>7
-----------------------------------------------------------------------------
\* The queue.
LEMMA QueueOpSound ==
    ASSUME NEW st, Sound(st), NEW p \in Top,
           NEW op \in {"create", "update", "mkdir", "delete"}
    PROVE  Sound(QueueOp(st, op, p))
<1>1. p \in Path
  BY TopPaths
<1>2. op # "delete" => [op |-> op, path |-> p] \in PendingOp
  BY <1>1 DEF PendingOp, ContentOps
<1>3. op # "delete" => Sound([st EXCEPT !.ops = @ \union {[op |-> op, path |-> p]}])
  BY <1>2 DEF Sound, StoreType
<1>4. Sound([st EXCEPT !.ops = {o \in @ : o.path # p}])
  BY DEF Sound, StoreType
<1> QED
  BY <1>3, <1>4 DEF QueueOp

LEMMA QueueConflictCopiesSound ==
    ASSUME NEW st, Sound(st), NEW p
    PROVE  Sound(QueueConflictCopies(st, p))
<1> DEFINE notes == {[op |-> "conflict-copy", path |-> q] : q \in Subtree(st, p)}
<1>1. notes \subseteq PendingOp
  BY DEF PendingOp, ContentOps, Subtree, Sound, StoreType
<1>2. Sound([st EXCEPT !.ops = @ \union notes])
  BY <1>1 DEF Sound, StoreType
<1> QED
  BY <1>2 DEF QueueConflictCopies
-----------------------------------------------------------------------------

\* The inductive invariant, one part for each piece of the state.
DbInv == Sound(db)
DiskInv == DOMAIN disk \subseteq Top /\ \A p \in DOMAIN disk : disk[p] \in File
CloudOK(c) ==
    /\ DOMAIN c \subseteq Nat \ {NoId}
    /\ \A i \in DOMAIN c : c[i] \in Item /\ c[i].path \in Top
CloudInv == CloudOK(cloud)
UserInv ==
    /\ user \in UserState
    /\ user.pc # "idle" => user.path \in Top
    /\ user.op = "rename" => user.to \in Top
    /\ user.pc = "queue" => user.op \in {"write", "create", "unlink"}
UpInv ==
    /\ up \in UpState
    /\ up.pc \notin {"idle", "pass"} => up.path \in Top
    /\ up.pc = "clean" => up.node.id # NoId
ListInv ==
    /\ list \in ListState
    /\ list.pc \notin {"idle", "items", "sweep", "unrow"} => list.node \in ItemNode
    /\ list.pc \in {"conflict", "detach", "relocate", "rekey", "unrow"} => list.at \in Top
    /\ list.pc = "detach" => list.to \in Top
    /\ list.pc \in {"conflict", "detach"} => list.then # "none"
DlInv ==
    /\ dl \in DlState
    /\ dl.pc # "idle" => dl.path \in Top
RestInv ==
    /\ lastId \in Nat /\ clock \in Nat
    /\ left \in [user : Nat, remote : Nat, fail : Nat]
    /\ owed \subseteq Nat
    /\ unlinked \subseteq [id : Nat, etag : Nat]
    /\ raced \in BOOLEAN

IInv ==
    DbInv /\ DiskInv /\ CloudInv /\ UserInv /\ UpInv /\ ListInv /\ DlInv /\ RestInv

\* It is TypeOK, RowDiscipline and InHand together.
LEMMA IInvParts == IInv <=> TypeOK /\ RowDiscipline /\ InHand
BY DEF IInv, DbInv, DiskInv, CloudInv, CloudOK, UserInv, UpInv, ListInv, DlInv, RestInv,
       Sound, TypeOK, RowDiscipline, InHand
-----------------------------------------------------------------------------
\* Paths.
LEMMA Places ==
    /\ Top \subseteq Path /\ Top \subseteq Place
    /\ NoPath \in Path /\ NoPath \in Place /\ NoPath \notin Top
    /\ Place \subseteq Path
<1>1. Top \subseteq Path /\ NoPath \notin Top
  BY TopPaths DEF NoPath
<1>2. NoPath \in Path
  BY EmptySeq DEF NoPath, Root, Path
<1> QED
  BY <1>1, <1>2 DEF Place

LEMMA Names ==
    /\ UserPath \subseteq Top
    /\ FreeGraves \subseteq Top
    /\ FreeConflicts \subseteq Top
BY NameAssumption DEF UserPath, Base, FreeGraves, FreeConflicts, Top, Join

LEMMA Picked == ASSUME NEW S, S # {}  PROVE Pick(S) \in S
BY DEF Pick

\* The actors at rest.
LEMMA Idle ==
    /\ NoNode \in NodeType
    /\ UserIdle \in UserState /\ UpIdle \in UpState
    /\ ListIdle \in ListState /\ DlIdle \in DlState
<1>1. NoNode \in NodeType
  BY Places DEF NoNode, NodeType, NoId, Kind
<1>2. UserIdle \in UserState
  BY Places DEF UserIdle, UserState
<1>3. UpIdle \in UpState
  BY <1>1, Places DEF UpIdle, UpState
<1>4. ListIdle \in ListState
  BY <1>1, Places DEF ListIdle, ListState
<1>5. DlIdle \in DlState
  BY <1>1, Places DEF DlIdle, DlState
<1> QED
  BY <1>1, <1>2, <1>3, <1>4, <1>5

\* What a row or an item of the cloud tells is a node.
LEMMA RowNode ==
    ASSUME DbInv, NEW p \in DOMAIN db.rows
    PROVE  /\ NodeOf(p) \in NodeType /\ NodeOf(p) \in FileNode
           /\ p \in Top /\ p \in Place
<1>1. db.rows[p] \in Entry /\ p \in Top
  BY DEF DbInv, Sound, StoreType
<1>2. p \in Place
  BY <1>1, Places
<1> QED
  BY <1>1, <1>2 DEF NodeOf, NodeType, FileNode, Entry

LEMMA ItemIsNode ==
    ASSUME CloudInv, NEW i \in DOMAIN cloud
    PROVE  Node(cloud, i) \in ItemNode /\ Node(cloud, i) \in NodeType
<1>1. i \in Nat \ {NoId} /\ cloud[i] \in Item /\ cloud[i].path \in Top
  BY DEF CloudInv, CloudOK
<1>2. cloud[i].path \in Place
  BY <1>1, Places
<1> QED
  BY <1>1, <1>2 DEF Node, ItemNode, NodeType, Item, Kind
\* The row a listing puts is clean, so it must be of an item with an id.
LEMMA RemoteRow ==
    ASSUME NEW p \in Top, NEW node \in ItemNode, NEW h \in BOOLEAN, NEW r \in BOOLEAN
    PROVE  /\ [FromRemote(p, node) EXCEPT !.hydrated = h] \in Entry
           /\ Disciplined([FromRemote(p, node) EXCEPT !.hydrated = h], p)
           /\ [FromRemote(p, node) EXCEPT !.hydrated = h, !.recent = r] \in Entry
           /\ Disciplined([FromRemote(p, node) EXCEPT !.hydrated = h, !.recent = r], p)
<1>1. p \in Path
  BY Places
<1>2. FromRemote(p, node) \in Entry
  BY <1>1 DEF FromRemote, ItemNode, Entry
<1>3. ~FromRemote(p, node).tomb /\ FromRemote(p, node).id # NoId /\ FromRemote(p, node).synced = p
  BY DEF FromRemote, ItemNode
<1> QED
  BY <1>2, <1>3, Zenon DEF Entry, Disciplined
-----------------------------------------------------------------------------
\* The mirror.
DiskOK(d) == DOMAIN d \subseteq Top /\ \A p \in DOMAIN d : d[p] \in File

LEMMA WriteOK ==
    ASSUME DiskInv, NEW p \in Top, NEW data \in Nat, NEW stamp \in Nat
    PROVE  DiskOK(Write(p, data, stamp))
BY DEF DiskInv, DiskOK, Write, File

LEMMA RemoveOK == ASSUME DiskInv, NEW p  PROVE DiskOK(Remove(p))
BY DEF DiskInv, DiskOK, Remove

LEMMA MovedOK ==
    ASSUME DiskInv, NEW from \in DOMAIN disk, NEW to \in Top
    PROVE  DiskOK(Moved(from, to))
BY DEF DiskInv, DiskOK, Moved

\* The service.
LEMMA CreateOK ==
    ASSUME NEW c, CloudOK(c), NEW i \in Nat \ {NoId}, NEW p \in Top,
           NEW data \in Nat, NEW stamp \in Nat
    PROVE  CloudOK(Create(c, i, p, "file", data, stamp))
BY Places DEF CloudOK, Create, Item

LEMMA DeleteOK == ASSUME NEW c, CloudOK(c), NEW i  PROVE CloudOK(Delete(c, i))
BY DEF CloudOK, Delete

LEMMA ItemMoved ==
    ASSUME NEW item \in Item, NEW p \in Path
    PROVE  [item EXCEPT !.path = p, !.etag = item.etag + 1] \in Item
<1>1. item.etag + 1 \in Nat
  BY DEF Item
<1> QED
  BY <1>1, Zenon DEF Item

LEMMA ItemModified ==
    ASSUME NEW item \in Item, NEW d \in Nat, NEW s \in Nat
    PROVE  [item EXCEPT !.data = d, !.stamp = s, !.etag = item.etag + 1] \in Item
<1>1. item.etag + 1 \in Nat
  BY DEF Item
<1> QED
  BY <1>1, Zenon DEF Item

LEMMA RelocateOK ==
    ASSUME NEW c, CloudOK(c), NEW i \in DOMAIN c, NEW p \in Top
    PROVE  CloudOK(Relocate(c, i, p))
<1>1. Below(c, i) = {}
  BY TopPaths DEF Below, CloudOK
<1>2. p \in Path
  BY Places
<1>3. ASSUME NEW j \in DOMAIN c
      PROVE  Relocate(c, i, p)[j] \in Item /\ Relocate(c, i, p)[j].path \in Top
  <2>1. c[j] \in Item /\ c[j].path \in Top
    BY DEF CloudOK
  <2>2. Relocate(c, i, p)[j] = IF j = i THEN [c[j] EXCEPT !.path = p, !.etag = c[j].etag + 1]
                               ELSE c[j]
    BY <1>1 DEF Relocate
  <2>3. CASE j = i
    <3>0. Relocate(c, i, p)[j] = [c[j] EXCEPT !.path = p, !.etag = c[j].etag + 1]
      BY <2>2, <2>3
    <3>1. Relocate(c, i, p)[j] \in Item
      <4>1. [c[j] EXCEPT !.path = p, !.etag = c[j].etag + 1] \in Item
        BY <1>2, <2>1, ItemMoved, Zenon
      <4> QED
        BY <3>0, <4>1
    <3>2. Relocate(c, i, p)[j].path = p
      BY <2>1, <2>2, <2>3 DEF Item
    <3> QED
      BY <3>1, <3>2
  <2> QED
    BY <2>1, <2>2, <2>3
<1>4. DOMAIN Relocate(c, i, p) = DOMAIN c
  BY DEF Relocate
<1> QED
  BY <1>3, <1>4 DEF CloudOK

LEMMA ModifyOK ==
    ASSUME NEW c, CloudOK(c), NEW i \in DOMAIN c, NEW data \in Nat, NEW stamp \in Nat
    PROVE  CloudOK(Modify(c, i, data, stamp))
<1> DEFINE item == [c[i] EXCEPT !.data = data, !.stamp = stamp, !.etag = c[i].etag + 1]
<1>1. ASSUME NEW j \in DOMAIN c
      PROVE  Modify(c, i, data, stamp)[j] \in Item /\ Modify(c, i, data, stamp)[j].path \in Top
  <2>1. c[j] \in Item /\ c[j].path \in Top
    BY DEF CloudOK
  <2>2. CASE j = i
    <3>1. Modify(c, i, data, stamp)[j] = item
      BY <2>2 DEF Modify
    <3>2. item \in Item
      BY <2>1, <2>2, ItemModified, Zenon
    <3>3. item.path = c[i].path
      BY <2>1, <2>2 DEF Item
    <3> QED
      BY <2>1, <2>2, <3>1, <3>2, <3>3
  <2>3. CASE j # i
    BY <2>1, <2>3 DEF Modify
  <2> QED
    BY <2>2, <2>3
<1>2. DOMAIN Modify(c, i, data, stamp) = DOMAIN c
  BY DEF Modify
<1> QED
  BY <1>1, <1>2 DEF CloudOK
-----------------------------------------------------------------------------
\* The seeded files are clean or downloaded, each under its name.
LEMMA Initially == Init => IInv
<1> SUFFICES ASSUME Init  PROVE IInv
  OBVIOUS
<1> DEFINE seeded == {Join(Root, Seed[i]) : i \in DOMAIN Seed}
           idAt(p) == CHOOSE i \in DOMAIN Seed : Join(Root, Seed[i]) = p
           item(i) == [path |-> Join(Root, Seed[i]), kind |-> "file", data |-> i,
                       stamp |-> i, etag |-> 1]
           row(p, down) == [FromRemote(p, Node(cloud, idAt(p))) EXCEPT !.hydrated = p \in down]
<1>1. PICK downloaded \in SUBSET seeded :
        /\ cloud = [i \in DOMAIN Seed |-> item(i)]
        /\ db = [rows |-> [p \in seeded |-> row(p, downloaded)], ops |-> {}]
        /\ disk = [p \in seeded |->
                     [data |-> IF p \in downloaded THEN idAt(p) ELSE Hole, stamp |-> idAt(p)]]
  BY Zenon DEF Init
<1>2. /\ lastId = Len(Seed) /\ clock = Len(Seed)
      /\ user = UserIdle /\ up = UpIdle /\ list = ListIdle /\ dl = DlIdle
      /\ left = [user |-> UserBudget, remote |-> RemoteBudget, fail |-> FailBudget]
      /\ owed = {} /\ unlinked = {} /\ raced = FALSE
  BY DEF Init
<1>3. /\ Len(Seed) \in Nat /\ DOMAIN Seed \subseteq Nat \ {NoId}
      /\ \A i \in DOMAIN Seed : Seed[i] \in Name /\ Join(Root, Seed[i]) \in Top
  <2>1. Seed \in Seq(Base) /\ Base \subseteq Name
    BY NameAssumption DEF Base
  <2>2. Len(Seed) \in Nat /\ DOMAIN Seed = 1 .. Len(Seed)
    BY <2>1, LenProperties
  <2>3. \A i \in DOMAIN Seed : Seed[i] \in Name
    BY <2>1, <2>2, ElementOfSeq
  <2> QED
    BY <2>2, <2>3 DEF NoId, Top, Join
<1>4. CloudInv
  BY <1>1, <1>3, Places DEF CloudInv, CloudOK, Item
<1>5. ASSUME NEW p \in seeded
      PROVE  /\ p \in Top /\ p \in Path /\ idAt(p) \in Nat
             /\ row(p, downloaded) \in Entry /\ Disciplined(row(p, downloaded), p)
  <2>1. PICK i \in DOMAIN Seed : p = Join(Root, Seed[i])
    OBVIOUS
  <2>2. idAt(p) \in DOMAIN Seed
    BY <2>1
  <2>3. p \in Top /\ p \in Path
    BY <1>3, <2>1, Places
  <2>4. idAt(p) \in DOMAIN cloud
    BY <1>1, <2>2
  <2> HIDE DEF idAt
  <2>5. Node(cloud, idAt(p)) \in ItemNode
    BY <1>4, <2>4, ItemIsNode
  <2> DEFINE node == Node(cloud, idAt(p))
  <2>6. row(p, downloaded) \in Entry /\ Disciplined(row(p, downloaded), p)
    <3>1. node \in ItemNode
      BY <2>5
    <3>2. (p \in downloaded) \in BOOLEAN
      OBVIOUS
    <3> QED
      BY <2>3, <3>1, <3>2, RemoteRow, Zenon
  <2> QED
    BY <1>3, <2>2, <2>3, <2>6
<1>6. DbInv
  <2>1. seeded \subseteq Top /\ seeded \subseteq Path
    BY <1>5, Zenon
  <2>2. \A p \in seeded : row(p, downloaded) \in Entry /\ Disciplined(row(p, downloaded), p)
    BY <1>5
  <2> HIDE DEF row, seeded
  <2> QED
    BY <1>1, <2>1, <2>2 DEF DbInv, Sound, StoreType
<1>7. DiskInv
  <2>1. \A p \in seeded : p \in Top /\ idAt(p) \in Nat
    BY <1>5, Zenon
  <2> HIDE DEF idAt, seeded
  <2> QED
    BY <1>1, <2>1 DEF DiskInv, File, Hole
<1>8. UserInv /\ UpInv /\ ListInv /\ DlInv
  <2>1. UserInv
    BY <1>2, Idle DEF UserInv, UserIdle
  <2>2. UpInv
    BY <1>2, Idle DEF UpInv, UpIdle
  <2>3. ListInv
    BY <1>2, Idle DEF ListInv, ListIdle
  <2>4. DlInv
    BY <1>2, Idle DEF DlInv, DlIdle
  <2> QED
    BY <2>1, <2>2, <2>3, <2>4
<1>9. RestInv
  BY <1>2, <1>3, InstanceAssumption, Zenon DEF RestInv
<1> QED
  BY <1>4, <1>6, <1>7, <1>8, <1>9 DEF IInv
-----------------------------------------------------------------------------
\* What is left alone keeps its part of the invariant.
LEMMA Frame ==
    /\ DbInv /\ UNCHANGED db => DbInv'
    /\ DiskInv /\ UNCHANGED disk => DiskInv'
    /\ CloudInv /\ UNCHANGED cloud => CloudInv'
    /\ UserInv /\ UNCHANGED user => UserInv'
    /\ UpInv /\ UNCHANGED up => UpInv'
    /\ ListInv /\ UNCHANGED list => ListInv'
    /\ DlInv /\ UNCHANGED dl => DlInv'
    /\ RestInv /\ UNCHANGED <<lastId, clock, left, owed, unlinked>> /\ Watch => RestInv'
BY Zenon DEF DbInv, DiskInv, CloudInv, UserInv, UpInv, ListInv, DlInv, RestInv, Watch

\* ---- The filesystem calls.
LEMMA UserBeginStep == ASSUME IInv, UserBegin  PROVE IInv'
<1>1. UserInv'
  <2>1. PICK p \in UserPath :
           \/ BeginWrite(p) \/ BeginCreate(p) \/ BeginUnlink(p)
           \/ \E q \in UserPath : BeginRename(p, q)
           \/ BeginTouch(p)
    BY DEF UserBegin
  <2>2. p \in Top /\ p \in Place
    BY Names, Places
  <2>3. CASE BeginWrite(p)
    BY <2>2, <2>3, Idle, Zenon DEF BeginWrite, UserIdle, UserInv, UserState, Live
  <2>4. CASE BeginCreate(p)
    BY <2>2, <2>4, Idle, Zenon DEF BeginCreate, UserIdle, UserInv, UserState
  <2>5. CASE BeginUnlink(p)
    BY <2>2, <2>5, Idle, Zenon DEF BeginUnlink, UserIdle, UserInv, UserState
  <2>6. ASSUME NEW q \in UserPath, BeginRename(p, q)  PROVE UserInv'
    BY <2>2, <2>6, Names, Places, Idle, Zenon DEF BeginRename, UserIdle, UserInv, UserState
  <2>7. CASE BeginTouch(p)
    BY <2>2, <2>7, Idle, Zenon DEF BeginTouch, UserIdle, UserInv, UserState
  <2> QED
    BY <2>1, <2>3, <2>4, <2>5, <2>6, <2>7
<1>2. RestInv'
  BY DEF UserBegin, RestInv, Watch, IInv
<1>3. UNCHANGED <<db, disk, cloud, up, list, dl>>
  BY DEF UserBegin
<1> QED
  BY <1>1, <1>2, <1>3, Frame DEF IInv

LEMMA UserWaitStep == ASSUME IInv, UserHydrated \/ UserGivesUp  PROVE IInv'
<1>1. UserInv'
  BY Idle, Zenon DEF UserHydrated, UserGivesUp, UserInv, UserState, UserIdle, IInv
<1>2. /\ UNCHANGED <<db, disk, cloud, up, list, dl>>
      /\ UNCHANGED <<lastId, clock, left, owed, unlinked>> /\ Watch
  BY DEF UserHydrated, UserGivesUp
<1> QED
  BY <1>1, <1>2, Frame DEF IInv

LEMMA UserWritesStep == ASSUME IInv, UserWrites  PROVE IInv'
<1>1. user.path \in Top /\ clock' \in Nat
  BY DEF UserWrites, UserInv, RestInv, IInv
<1>2. UserInv'
  BY DEF UserWrites, UserInv, UserState, IInv
<1>3. DiskInv'
  BY <1>1, WriteOK DEF UserWrites, DiskInv, DiskOK, IInv
<1>4. RestInv'
  BY <1>1 DEF UserWrites, RestInv, Watch, IInv
<1>5. UNCHANGED <<db, cloud, up, list, dl>>
  BY DEF UserWrites
<1> QED
  BY <1>2, <1>3, <1>4, <1>5, Frame DEF IInv

LEMMA UserCreatesStep == ASSUME IInv, UserCreates  PROVE IInv'
<1>1. user.path \in Top /\ clock + 1 \in Nat /\ clock' \in Nat
  BY DEF UserCreates, UserInv, RestInv, IInv
<1>2. UserInv'
  BY DEF UserCreates, UserInv, UserState, IInv
<1>3. DbInv'
  <2>1. Pick(FreeGraves) \in Top
    BY Picked, Names DEF UserCreates
  <2> QED
    BY <1>1, <2>1, BuryTombstoneSound DEF UserCreates, DbInv, IInv
<1>4. DiskInv'
  BY <1>1, WriteOK DEF UserCreates, DiskInv, DiskOK, IInv
<1>5. RestInv'
  BY <1>1 DEF UserCreates, RestInv, Watch, IInv
<1>6. UNCHANGED <<cloud, up, list, dl>>
  BY DEF UserCreates
<1> QED
  BY <1>2, <1>3, <1>4, <1>5, <1>6, Frame DEF IInv

LEMMA UserRemovesStep == ASSUME IInv, UserRemoves  PROVE IInv'
<1>1. UserInv'
  BY DEF UserRemoves, UserInv, UserState, IInv
<1>2. DiskInv'
  BY RemoveOK DEF UserRemoves, DiskInv, DiskOK, IInv
<1>3. RestInv'
  BY DEF UserRemoves, RestInv, Watch, IInv
<1>4. UNCHANGED <<db, cloud, up, list, dl>>
  BY DEF UserRemoves
<1> QED
  BY <1>1, <1>2, <1>3, <1>4, Frame DEF IInv

LEMMA UserMovesStep == ASSUME IInv, UserMoves  PROVE IInv'
<1>1. user.to \in Top
  BY DEF UserMoves, UserInv, IInv
<1>2. UserInv'
  BY Idle, Zenon DEF UserMoves, UserInv, UserState, UserIdle, IInv
<1>3. DiskInv'
  <2>1. CASE user.path \in DOMAIN disk
    BY <1>1, <2>1, MovedOK DEF UserMoves, DiskInv, DiskOK, IInv
  <2>2. CASE user.path \notin DOMAIN disk
    BY <2>2, RemoveOK DEF UserMoves, DiskInv, DiskOK, IInv
  <2> QED
    BY <2>1, <2>2
<1>4. RestInv'
  BY DEF UserMoves, RestInv, Watch, IInv
<1>5. UNCHANGED <<db, cloud, up, list, dl>>
  BY DEF UserMoves
<1> QED
  BY <1>2, <1>3, <1>4, <1>5, Frame DEF IInv

LEMMA UserTouchesStep == ASSUME IInv, UserTouches  PROVE IInv'
<1>1. clock + 1 \in Nat
  BY DEF RestInv, IInv
<1>2. UserInv'
  BY <1>1, Idle, Zenon DEF UserTouches, UserInv, UserState, UserIdle, IInv
<1>3. DiskInv'
  BY <1>1 DEF UserTouches, DiskInv, File, IInv
<1>4. RestInv'
  BY <1>1 DEF UserTouches, RestInv, Watch, IInv
<1>5. UNCHANGED <<db, cloud, up, list, dl>>
  BY DEF UserTouches
<1> QED
  BY <1>2, <1>3, <1>4, <1>5, Frame DEF IInv

LEMMA UserRecordsStep == ASSUME IInv, UserRecords  PROVE IInv'
<1>1. UserInv'
  BY Idle, Zenon DEF UserRecords, UserInv, UserState, UserIdle, IInv
<1>2. DbInv'
  <2>1. user.path \in Top
    BY DEF UserRecords, UserInv, IInv
  <2>2. CASE user.path \notin DOMAIN disk
    BY <2>2 DEF UserRecords, DbInv, IInv
  <2>3. CASE user.path \in DOMAIN disk
    <3>1. disk[user.path].stamp \in Nat
      BY <2>3 DEF DiskInv, File, IInv
    <3>2. Sound(MarkDirty(db, user.path, disk[user.path].stamp, TRUE))
      BY <3>1, MarkDirtySound, Zenon DEF DbInv, IInv
    <3>3. LET row == Local("file", disk[user.path].stamp)
          IN  row \in Entry /\ Disciplined(row, user.path)
      BY <3>1, Places DEF Local, Entry, Disciplined, Kind, NoId
    <3>4. Sound(UpsertEntry(db, user.path, Local("file", disk[user.path].stamp)))
      BY <2>1, <3>3, UpsertEntrySound DEF DbInv, IInv
    <3> QED
      BY <2>3, <3>2, <3>4, Zenon DEF UserRecords, ContentRecorded, DbInv
  <2> QED
    BY <2>2, <2>3
<1>3. /\ UNCHANGED <<disk, cloud, up, list, dl>>
      /\ UNCHANGED <<lastId, clock, left, owed, unlinked>> /\ Watch
  BY DEF UserRecords
<1> QED
  BY <1>1, <1>2, <1>3, Frame DEF IInv

LEMMA UserForgetsStep == ASSUME IInv, UserForgets  PROVE IInv'
<1>1. UserInv'
  BY Idle, Zenon DEF UserForgets, UserInv, UserState, UserIdle, IInv
<1>2. DbInv'
  BY MarkTombstoneSound, RemoveSound DEF UserForgets, DbInv, IInv
<1>3. RestInv'
  <2>1. \A p \in DOMAIN db.rows : db.rows[p].id \in Nat /\ db.rows[p].etag \in Nat
    BY DEF DbInv, Sound, StoreType, Entry, IInv
  <2> QED
    BY <2>1 DEF UserForgets, RestInv, Watch, IInv
<1>4. UNCHANGED <<disk, cloud, up, list, dl>>
  BY DEF UserForgets
<1> QED
  BY <1>1, <1>2, <1>3, <1>4, Frame DEF IInv

LEMMA UserRenamesStep == ASSUME IInv, UserRenames  PROVE IInv'
<1>1. UserInv'
  BY Idle DEF UserRenames, UserInv, UserIdle, IInv
<1>2. DbInv'
  <2> DEFINE grave == [q \in {user.to} |-> Pick(FreeGraves)]
  <2>1. user.path \in Top /\ user.to \in Top
    BY DEF UserRenames, UserInv, IInv
  <2>2. grave[user.to] \in Top
    BY Picked, Names DEF UserRenames
  <2> HIDE DEF grave
  <2>3. Sound(RenameTree(db, user.path, user.to, TRUE, FALSE, grave))
    BY <2>1, <2>2, RenameTreeSound, Zenon DEF DbInv, IInv
  <2> QED
    BY <2>3, Zenon DEF UserRenames, DbInv, grave
<1>3. /\ UNCHANGED <<disk, cloud, up, list, dl>>
      /\ UNCHANGED <<lastId, clock, left, owed, unlinked>> /\ Watch
  BY DEF UserRenames
<1> QED
  BY <1>1, <1>2, <1>3, Frame DEF IInv

LEMMA UserRecordsTimeStep == ASSUME IInv, UserRecordsTime  PROVE IInv'
<1>1. UserInv'
  BY Idle DEF UserRecordsTime, UserInv, UserIdle, IInv
<1>2. DbInv'
  <2>1. user.stamp \in Nat
    BY DEF UserInv, UserState, IInv
  <2> QED
    BY <2>1, MarkDirtySound, Zenon DEF UserRecordsTime, DbInv, IInv
<1>3. /\ UNCHANGED <<disk, cloud, up, list, dl>>
      /\ UNCHANGED <<lastId, clock, left, owed, unlinked>> /\ Watch
  BY DEF UserRecordsTime
<1> QED
  BY <1>1, <1>2, <1>3, Frame DEF IInv

LEMMA UserQueuesStep == ASSUME IInv, UserQueues  PROVE IInv'
<1>1. UserInv'
  BY Idle DEF UserQueues, UserInv, UserIdle, IInv
<1>2. DbInv'
  <2> DEFINE op == CASE user.op = "write"  -> "update"
                     [] user.op = "create" -> "create"
                     [] user.op = "unlink" -> "delete"
  <2>1. user.path \in Top /\ op \in {"create", "update", "mkdir", "delete"}
    BY DEF UserQueues, UserInv, IInv
  <2> HIDE DEF op
  <2>2. Sound(QueueOp(db, op, user.path))
    BY <2>1, QueueOpSound DEF DbInv, IInv
  <2> QED
    BY <2>2, Zenon DEF UserQueues, DbInv, op
<1>3. /\ UNCHANGED <<disk, cloud, up, list, dl>>
      /\ UNCHANGED <<lastId, clock, left, owed, unlinked>> /\ Watch
  BY DEF UserQueues
<1> QED
  BY <1>1, <1>2, <1>3, Frame DEF IInv
-----------------------------------------------------------------------------
\* ---- The upload pass.
LEMMA PassState ==
    ASSUME up \in UpState
    PROVE  /\ UpPass \in UpState /\ UpPass.pc = "pass" /\ UpPass.tombs = up.tombs
           /\ \A T \in SUBSET FileNode :
                 [UpPass EXCEPT !.tombs = T] \in UpState /\ [UpPass EXCEPT !.tombs = T].pc = "pass"
BY Idle, Places, ZenonT(40) DEF UpPass, UpState

\* A failing call only costs the budget.
LEMMA FailsLeft ==
    ASSUME RestInv, NEW call, Fails(call)
    PROVE  left' \in [user : Nat, remote : Nat, fail : Nat]
BY DEF RestInv, Fails

LEMMA UpStartStep == ASSUME IInv, UpStart  PROVE IInv'
<1>1. UpInv'
  <2>1. \A p \in DOMAIN db.rows : NodeOf(p) \in FileNode /\ p \in Top
    BY RowNode DEF IInv
  <2>2. /\ {NodeOf(p) : p \in {q \in DOMAIN db.rows : db.rows[q].tomb}} \subseteq FileNode
        /\ {q \in DOMAIN db.rows : db.rows[q].dirty /\ ~db.rows[q].tomb} \subseteq Top
    BY <2>1
  <2> QED
    BY <2>2, Idle, Zenon DEF UpStart, UpInv, UpState, UpIdle
<1>2. /\ UNCHANGED <<db, disk, cloud, user, list, dl>>
      /\ UNCHANGED <<lastId, clock, left, owed, unlinked>> /\ Watch
  BY DEF UpStart
<1> QED
  BY <1>1, <1>2, Frame DEF IInv

LEMMA UpForgetStep == ASSUME IInv, UpForget  PROVE IInv'
<1>1. UpInv'
  <2>1. up.tombs \ {up.node} \in SUBSET FileNode
    BY DEF UpInv, UpState, IInv
  <2>2. up' = [UpPass EXCEPT !.tombs = up.tombs \ {up.node}]
    BY PassState DEF UpForget, UpInv, IInv
  <2> QED
    BY <2>1, <2>2, PassState DEF UpInv, IInv
<1>2. DbInv'
  BY RemoveSound DEF UpForget, DbInv, IInv
<1>3. /\ UNCHANGED <<disk, cloud, user, list, dl>>
      /\ UNCHANGED <<lastId, clock, left, owed, unlinked>> /\ Watch
  BY DEF UpForget
<1> QED
  BY <1>1, <1>2, <1>3, Frame DEF IInv

LEMMA UpTombstoneStep == ASSUME IInv, UpTombstone  PROVE IInv'
<1>0. PICK t \in up.tombs :
        \/ /\ cloud' = IF t.id = NoId THEN cloud ELSE Delete(cloud, t.id)
           /\ up' = [up EXCEPT !.pc = "forget", !.path = t.path, !.node = t]
           /\ UNCHANGED left
        \/ /\ UNCHANGED left \/ Fails("delete")
           /\ up' = [up EXCEPT !.tombs = @ \ {t}]
           /\ UNCHANGED cloud
  BY Zenon DEF UpTombstone
<1>1. UpInv'
  <2>1. t \in FileNode /\ t \in NodeType /\ t.path \in Top /\ t.path \in Place
    <3>1. t \in FileNode
      BY DEF UpInv, UpState, IInv
    <3> QED
      BY <3>1, Places DEF FileNode, NodeType
  <2>2. up.pc = "pass" /\ up \in UpState
    BY DEF UpTombstone, UpInv, IInv
  <2>3. CASE up' = [up EXCEPT !.pc = "forget", !.path = t.path, !.node = t]
    BY Zenon, <2>1, <2>2, <2>3 DEF UpInv, UpState
  <2>4. CASE up' = [up EXCEPT !.tombs = @ \ {t}]
    BY <2>2, <2>4 DEF UpInv, UpState
  <2> QED
    BY <1>0, <2>3, <2>4
<1>2. CloudInv'
  BY <1>0, DeleteOK DEF CloudInv, IInv
<1>3. RestInv'
  BY <1>0, FailsLeft DEF UpTombstone, RestInv, Watch, IInv
<1>4. UNCHANGED <<db, disk, user, list, dl>>
  BY DEF UpTombstone
<1> QED
  BY <1>1, <1>2, <1>3, <1>4, Frame DEF IInv

LEMMA UpFileStep == ASSUME IInv, UpFile  PROVE IInv'
<1>0. PICK p \in up.todo :
        \/ up' = [up EXCEPT !.todo = @ \ {p}] /\ UNCHANGED db
        \/ /\ p \in DOMAIN db.rows
           /\ \/ db' = db
              \/ p \in DOMAIN disk /\ db' = MarkHydrated(db, p, disk[p].stamp)
           /\ \E pc \in {"missing", "move", "replace", "adopt"} :
                 up' = [up EXCEPT !.pc = pc, !.todo = @ \ {p}, !.path = p,
                                  !.node = NodeOf(p), !.changed = Changed(p)]
  BY Zenon DEF UpFile, Live, Has
<1>1. UpInv'
  <2>1. up.pc = "pass" /\ up \in UpState
    BY DEF UpFile, UpInv, IInv
  <2>2. CASE up' = [up EXCEPT !.todo = @ \ {p}]
    BY <2>1, <2>2 DEF UpInv, UpState
  <2>3. ASSUME p \in DOMAIN db.rows, NEW pc \in {"missing", "move", "replace", "adopt"},
               up' = [up EXCEPT !.pc = pc, !.todo = @ \ {p}, !.path = p,
                                !.node = NodeOf(p), !.changed = Changed(p)]
        PROVE  UpInv'
    <3>1. NodeOf(p) \in NodeType /\ p \in Top /\ p \in Place
      BY <2>3, RowNode DEF IInv
    <3>2. Changed(p) \in BOOLEAN
      BY DEF Changed, HasPendingContentChange
    <3> QED
      BY <2>1, <2>3, <3>1, <3>2, Zenon DEF UpInv, UpState
  <2> QED
    BY <1>0, <2>2, <2>3
<1>2. DbInv'
  <2>1. p \in DOMAIN disk => disk[p].stamp \in Nat
    BY DEF DiskInv, File, IInv
  <2> QED
    BY <1>0, <2>1, MarkHydratedSound DEF DbInv, IInv
<1>3. /\ UNCHANGED <<disk, cloud, user, list, dl>>
      /\ UNCHANGED <<lastId, clock, left, owed, unlinked>> /\ Watch
  BY DEF UpFile
<1> QED
  BY Zenon, <1>1, <1>2, <1>3, Frame DEF IInv

LEMMA UpMissingStep == ASSUME IInv, UpMissing  PROVE IInv'
<1>1. UpInv'
  BY PassState DEF UpMissing, UpInv, IInv
<1>2. DbInv'
  BY MarkTombstoneSound DEF UpMissing, DbInv, IInv
<1>3. /\ UNCHANGED <<disk, cloud, user, list, dl>>
      /\ UNCHANGED <<lastId, clock, left, owed, unlinked>> /\ Watch
  BY DEF UpMissing
<1> QED
  BY <1>1, <1>2, <1>3, Frame DEF IInv

LEMMA UpMoveStep == ASSUME IInv, UpMove  PROVE IInv'
<1>1. up \in UpState /\ up.path \in Top /\ up.node \in NodeType
  BY DEF UpMove, UpInv, UpState, IInv
<1>2. UpInv'
  <2>1. CASE up' = UpPass
    BY <1>1, <2>1, PassState DEF UpInv
  <2>2. ASSUME NEW pc \in {"replace", "adopt"}, NEW node \in NodeType,
               up' = [up EXCEPT !.pc = pc, !.node = node]
        PROVE  UpInv'
    BY <1>1, <2>2, Zenon DEF UpInv, UpState
  <2>3. (IF Has(db, up.path) THEN NodeOf(up.path) ELSE up.node) \in NodeType
    BY <1>1, RowNode DEF Has, IInv
  <2> QED
    BY <2>1, <2>2, <2>3, Zenon DEF UpMove
<1>3. CloudInv'
  <2>1. CASE ~Refuses(cloud, up.node) /\ cloud' = Relocate(cloud, up.node.id, up.path)
    <3>1. up.node.id \in DOMAIN cloud
      BY <2>1 DEF Refuses
    <3> QED
      BY <1>1, <2>1, <3>1, RelocateOK DEF CloudInv, IInv
  <2>2. CASE cloud' = cloud
    BY <2>2, Frame DEF IInv
  <2> QED
    BY <2>1, <2>2 DEF UpMove
<1>4. RestInv'
  BY FailsLeft DEF UpMove, RestInv, Watch, IInv
<1>5. UNCHANGED <<db, disk, user, list, dl>>
  BY DEF UpMove
<1> QED
  BY <1>2, <1>3, <1>4, <1>5, Frame DEF IInv

LEMMA UpReplaceStep == ASSUME IInv, UpReplace  PROVE IInv'
<1>1. up \in UpState /\ up.path \in Top
  BY DEF UpReplace, UpInv, UpState, IInv
<1>2. UpInv'
  <2>1. CASE up' = UpPass
    BY <1>1, <2>1, PassState DEF UpInv
  <2>2. CASE /\ up.path \in DOMAIN disk
             /\ up' = [up EXCEPT !.pc = "send", !.before = disk[up.path].stamp]
    <3>1. disk[up.path].stamp \in Nat
      BY <2>2 DEF DiskInv, File, IInv
    <3> QED
      BY <1>1, <2>2, <3>1, Zenon DEF UpInv, UpState
  <2> QED
    BY <2>1, <2>2 DEF UpReplace
<1>3. CloudInv'
  BY DeleteOK DEF UpReplace, CloudInv, IInv
<1>4. RestInv'
  BY FailsLeft DEF UpReplace, RestInv, Watch, IInv
<1>5. UNCHANGED <<db, disk, user, list, dl>>
  BY DEF UpReplace
<1> QED
  BY <1>2, <1>3, <1>4, <1>5, Frame DEF IInv

LEMMA UpSendStep == ASSUME IInv, UpSend  PROVE IInv'
<1>1. up \in UpState /\ up.path \in Top
  BY DEF UpSend, UpInv, UpState, IInv
<1>2. UpInv'
  <2>1. CASE up' = UpPass
    BY <1>1, <2>1, PassState DEF UpInv
  <2>2. CASE up' = [up EXCEPT !.pc = "meta"]
    BY <1>1, <2>2 DEF UpInv, UpState
  <2> QED
    BY <2>1, <2>2 DEF UpSend
<1>3. lastId + 1 \in Nat \ {NoId}
  BY DEF RestInv, IInv, NoId
<1>4. CloudInv'
  <2>1. CASE UNCHANGED cloud
    BY <2>1, Frame DEF IInv
  <2>2. ASSUME up.path \in DOMAIN disk, NEW q \in UploadPaths(cloud, up.path),
               cloud' = Create(cloud, lastId + 1, q, "file",
                               disk[up.path].data, disk[up.path].stamp)
        PROVE  CloudInv'
    <3>1. disk[up.path].data \in Nat /\ disk[up.path].stamp \in Nat
      BY <2>2 DEF DiskInv, File, IInv
    <3>2. q \in Top
      BY <1>1, TopPaths, DriveAssumption DEF UploadPaths, Top, Join
    <3> QED
      BY <1>3, <2>2, <3>1, <3>2, CreateOK DEF CloudInv, IInv
  <2> QED
    BY <2>1, <2>2 DEF UpSend
<1>5. RestInv'
  BY <1>3, FailsLeft DEF UpSend, RestInv, Watch, IInv
<1>6. UNCHANGED <<db, disk, user, list, dl>>
  BY DEF UpSend
<1> QED
  BY <1>2, <1>4, <1>5, <1>6, Frame DEF IInv

LEMMA UpMetaStep == ASSUME IInv, UpMeta  PROVE IInv'
<1>1. up \in UpState /\ up.path \in Top
  BY ZenonT(40) DEF UpMeta, UpInv, UpState, IInv
<1>2. \/ up' = UpPass /\ UNCHANGED <<db, disk>>
      \/ \E i \in IdsAt(cloud, up.path) :
           \/ /\ up.path \in DOMAIN disk
              /\ disk' = [disk EXCEPT ![up.path].stamp = cloud[i].stamp]
              /\ up' = [up EXCEPT !.pc = "clean", !.node = Node(cloud, i)]
              /\ UNCHANGED db
           \/ /\ db' = MarkUploadedButDirty(db, up.path, Node(cloud, i), Crawling)
              /\ up' = UpPass /\ UNCHANGED disk
  BY Zenon DEF UpMeta
<1>3. ASSUME NEW i \in IdsAt(cloud, up.path)
      PROVE  Node(cloud, i) \in ItemNode /\ Node(cloud, i) \in NodeType /\ cloud[i].stamp \in Nat
  <2>1. i \in DOMAIN cloud
    BY SMTT(20) DEF IdsAt
  <2> QED
    BY <2>1, ItemIsNode DEF IInv, CloudInv, CloudOK, Item
<1>4. UpInv'
  <2>1. CASE up' = UpPass
    BY <1>1, <2>1, PassState DEF UpInv
  <2>2. ASSUME NEW i \in IdsAt(cloud, up.path),
               up' = [up EXCEPT !.pc = "clean", !.node = Node(cloud, i)]
        PROVE  UpInv'
    <3>1. Node(cloud, i) \in NodeType /\ Node(cloud, i).id # NoId
      BY <1>3 DEF ItemNode
    <3> QED
      BY <1>1, <2>2, <3>1, Zenon DEF UpInv, UpState
  <2> QED
    BY <1>2, <2>1, <2>2, Zenon
<1>5. DbInv'
  <2>1. CASE UNCHANGED db
    BY <2>1, Frame DEF IInv
  <2>2. ASSUME NEW i \in IdsAt(cloud, up.path),
               db' = MarkUploadedButDirty(db, up.path, Node(cloud, i), Crawling)
        PROVE  DbInv'
    <3>1. Node(cloud, i).id \in Nat \ {NoId} /\ Node(cloud, i).etag \in Nat
      BY <1>3 DEF ItemNode
    <3>2. Crawling \in BOOLEAN
      BY SMTT(20) DEF Crawling
    <3> QED
      BY <1>1, <2>2, <3>1, <3>2, MarkUploadedButDirtySound DEF DbInv, IInv
  <2> QED
    BY <1>2, <2>1, <2>2, Zenon
<1>6. DiskInv'
  <2>1. CASE UNCHANGED disk
    BY <2>1, Frame DEF IInv
  <2>2. ASSUME NEW i \in IdsAt(cloud, up.path), up.path \in DOMAIN disk,
               disk' = [disk EXCEPT ![up.path].stamp = cloud[i].stamp]
        PROVE  DiskInv'
    BY <1>3, <2>2, SMTT(20) DEF DiskInv, File, IInv
  <2> QED
    BY <1>2, <2>1, <2>2, Zenon
<1>7. RestInv'
  BY FailsLeft, Zenon DEF UpMeta, RestInv, Watch, IInv
<1>8. UNCHANGED <<cloud, user, list, dl>>
  BY Zenon DEF UpMeta
<1> QED
  BY <1>4, <1>5, <1>6, <1>7, <1>8, Frame DEF IInv

LEMMA UpAdoptStep == ASSUME IInv, UpAdopt  PROVE IInv'
<1>1. up \in UpState /\ up.path \in Top
  BY Zenon DEF UpAdopt, UpInv, UpState, IInv
<1>2. UpInv'
  <2>1. CASE up' = UpPass
    BY <1>1, <2>1, PassState DEF UpInv
  <2>2. ASSUME NEW i \in IdsAt(cloud, up.path),
               up' = [up EXCEPT !.pc = "clean", !.node = Node(cloud, i)]
        PROVE  UpInv'
    <3>1. Node(cloud, i) \in NodeType /\ Node(cloud, i).id # NoId
      BY ItemIsNode DEF IdsAt, ItemNode, IInv
    <3> QED
      BY <1>1, <2>2, <3>1, Zenon DEF UpInv, UpState
  <2> QED
    BY <2>1, <2>2, Zenon DEF UpAdopt
<1>3. RestInv'
  BY FailsLeft, Zenon DEF UpAdopt, RestInv, Watch, IInv
<1>4. UNCHANGED <<db, disk, cloud, user, list, dl>>
  BY Zenon DEF UpAdopt
<1> QED
  BY <1>2, <1>3, <1>4, Frame DEF IInv

LEMMA UpCleanStep == ASSUME IInv, UpClean  PROVE IInv'
<1>1. up \in UpState /\ up.path \in Top
  BY DEF UpClean, UpInv, UpState, IInv
<1>2. UpInv'
  BY <1>1, PassState DEF UpClean, UpInv
<1>3. DbInv'
  <2>1. up.node.id \in Nat \ {NoId} /\ up.node.etag \in Nat /\ up.node.stamp \in Nat
    BY <1>1 DEF UpClean, UpInv, UpState, NodeType, IInv
  <2>2. Crawling \in BOOLEAN
    BY DEF Crawling
  <2> QED
    BY <1>1, <2>1, <2>2, MarkCleanSound DEF UpClean, DbInv, IInv
<1>4. /\ UNCHANGED <<disk, cloud, user, list, dl>>
      /\ UNCHANGED <<lastId, clock, left, owed, unlinked>> /\ Watch
  BY DEF UpClean
<1> QED
  BY <1>2, <1>3, <1>4, Frame DEF IInv

LEMMA UpEndStep == ASSUME IInv, UpEnd  PROVE IInv'
<1>1. UpInv'
  BY Idle DEF UpEnd, UpInv, UpIdle
<1>2. /\ UNCHANGED <<db, disk, cloud, user, list, dl>>
      /\ UNCHANGED <<lastId, clock, left, owed, unlinked>> /\ Watch
  BY DEF UpEnd
<1> QED
  BY <1>1, <1>2, Frame DEF IInv
-----------------------------------------------------------------------------
\* ---- A listing.
LEMMA ItemsState ==
    ASSUME list \in ListState
    PROVE  ListItems \in ListState /\ ListItems.pc = "items"
BY Idle, Places, Zenon DEF ListItems, ListState, ListIdle

LEMMA SweepState ==
    ASSUME NEW rest, rest \subseteq [path : Top, verdict : {"forget", "renew", "remove"}]
    PROVE  Sweeping(rest) \in ListState /\ Sweeping(rest).pc \in {"idle", "sweep"}
BY Idle, Zenon DEF Sweeping, ListState, ListIdle

LEMMA ListStartStep == ASSUME IInv, ListStart  PROVE IInv'
<1>1. ListInv'
  <2>1. \A n \in Children(cloud, Root) : n \in ItemNode
    BY ItemIsNode DEF Children, IInv
  <2>2. /\ Children(cloud, Root) \subseteq ItemNode
        /\ {n.id : n \in Children(cloud, Root)} \subseteq Nat
    BY <2>1 DEF ItemNode
  <2> QED
    BY <2>2, Idle, Zenon DEF ListStart, ListInv, ListState, ListIdle
<1>2. DbInv'
  <2> DEFINE rows == [p \in DOMAIN db.rows |-> [db.rows[p] EXCEPT !.recent = FALSE]]
  <2>1. \A p \in DOMAIN db.rows : rows[p] \in Entry /\ Disciplined(rows[p], p)
    <3>1. \A p \in DOMAIN db.rows : db.rows[p] \in Entry /\ Disciplined(db.rows[p], p)
      BY DEF DbInv, Sound, StoreType, IInv
    <3> QED
      BY ZenonT(40), <3>1 DEF Entry, Disciplined
  <2>2. db' = [db EXCEPT !.rows = rows] /\ DOMAIN rows = DOMAIN db.rows
    BY DEF ListStart
  <2> HIDE DEF rows
  <2> QED
    BY <2>1, <2>2 DEF DbInv, Sound, StoreType, IInv
<1>3. /\ UNCHANGED <<disk, cloud, user, up, dl>>
      /\ UNCHANGED <<lastId, clock, left, owed, unlinked>> /\ Watch
  BY Zenon DEF ListStart
<1> QED
  BY <1>1, <1>2, <1>3, Frame DEF IInv

LEMMA ListItemStep == ASSUME IInv, ListItem  PROVE IInv'
<1>1. ListInv'
  <2>1. PICK n \in list.items :
          \/ list' = [list EXCEPT !.items = @ \ {n}]
          \/ list' = [list EXCEPT !.pc = "occupant", !.items = @ \ {n}, !.node = n]
          \/ \E e \in DOMAIN db.rows :
               \/ list' = [list EXCEPT !.pc = "conflict", !.items = @ \ {n}, !.node = n,
                                       !.at = e, !.then = "occupant"]
               \/ \E pc \in {"relocate", "store", "redo"} :
                    list' = [list EXCEPT !.pc = pc, !.items = @ \ {n}, !.node = n, !.at = e,
                                         !.stamp = db.rows[e].stamp,
                                         !.hydrated = db.rows[e].hydrated,
                                         !.recent = db.rows[e].recent]
    BY ZenonT(60) DEF ListItem, RowsWithId
  <2>2. list \in ListState /\ list.pc = "items" /\ n \in ItemNode /\ n \in NodeType
    <3>1. list \in ListState /\ list.pc = "items" /\ n \in ItemNode
      BY Zenon DEF ListItem, ListInv, ListState, IInv
    <3> QED
      BY <3>1, Places DEF ItemNode, NodeType
  <2>3. CASE list' = [list EXCEPT !.items = @ \ {n}]
    BY <2>2, <2>3 DEF ListInv, ListState
  <2>4. CASE list' = [list EXCEPT !.pc = "occupant", !.items = @ \ {n}, !.node = n]
    BY <2>2, <2>4, Zenon DEF ListInv, ListState
  <2>5. ASSUME NEW e \in DOMAIN db.rows,
               list' = [list EXCEPT !.pc = "conflict", !.items = @ \ {n}, !.node = n,
                                    !.at = e, !.then = "occupant"]
        PROVE  ListInv'
    <3>1. e \in Top /\ e \in Place
      BY <2>5, RowNode DEF IInv
    <3> QED
      BY <2>2, <2>5, <3>1, Zenon DEF ListInv, ListState
  <2>6. ASSUME NEW e \in DOMAIN db.rows, NEW pc \in {"relocate", "store", "redo"},
               list' = [list EXCEPT !.pc = pc, !.items = @ \ {n}, !.node = n, !.at = e,
                                    !.stamp = db.rows[e].stamp,
                                    !.hydrated = db.rows[e].hydrated,
                                    !.recent = db.rows[e].recent]
        PROVE  ListInv'
    <3>1. e \in Top /\ e \in Place /\ db.rows[e] \in Entry
      BY <2>6, RowNode DEF IInv, DbInv, Sound, StoreType
    <3>2. /\ db.rows[e].stamp \in Nat /\ db.rows[e].hydrated \in BOOLEAN
          /\ db.rows[e].recent \in BOOLEAN
      BY Zenon, <3>1 DEF Entry
    <3> QED
      BY Zenon, <2>2, <2>6, <3>1, <3>2 DEF ListInv, ListState
  <2> QED
    BY Zenon, <2>1, <2>3, <2>4, <2>5, <2>6
<1>2. /\ UNCHANGED <<db, disk, cloud, user, up, dl>>
      /\ UNCHANGED <<lastId, clock, left, owed, unlinked>> /\ Watch
  BY Zenon DEF ListItem
<1> QED
  BY Zenon, <1>1, <1>2, Frame DEF IInv

LEMMA ListConflictStep == ASSUME IInv, ListConflict  PROVE IInv'
<1>1. list \in ListState /\ list.at \in Top /\ list.pc = "conflict"
  BY DEF ListConflict, ListInv, IInv
<1>2. Pick(FreeConflicts) \in Top /\ Pick(FreeConflicts) \in Place
  BY Picked, Names, Places DEF ListConflict
<1>3. list' = [list EXCEPT !.pc = "detach", !.to = Pick(FreeConflicts)]
  BY DEF ListConflict
<1>4. ListInv'
  BY <1>1, <1>2, <1>3, Zenon DEF ListInv, ListState, IInv
<1>5. DiskInv'
  <2>1. list'.to \in Top
    BY <1>1, <1>2, <1>3 DEF ListState
  <2> QED
    BY <2>1, MovedOK DEF ListConflict, DiskInv, DiskOK, IInv
<1>6. /\ UNCHANGED <<db, cloud, user, up, dl>>
      /\ UNCHANGED <<lastId, clock, left, owed, unlinked>> /\ Watch
  BY DEF ListConflict
<1> QED
  BY <1>4, <1>5, <1>6, Frame DEF IInv

LEMMA ListDetachStep == ASSUME IInv, ListDetach  PROVE IInv'
<1>1. /\ list \in ListState /\ list.at \in Top /\ list.to \in Top
      /\ list.then \in {"occupant", "place"} /\ list.node \in ItemNode
  BY DEF ListDetach, ListInv, ListState, IInv
<1>2. ListInv'
  BY <1>1, Places, Zenon DEF ListDetach, ListInv, ListState
<1>3. DbInv'
  <2>1. Sound(DetachSubtreeAsConflict(db, list.at, list.to))
    BY <1>1, DetachSound DEF DbInv, IInv
  <2> QED
    BY <2>1, QueueConflictCopiesSound DEF ListDetach, DbInv
<1>4. /\ UNCHANGED <<disk, cloud, user, up, dl>>
      /\ UNCHANGED <<lastId, clock, left, owed, unlinked>> /\ Watch
  BY DEF ListDetach
<1> QED
  BY <1>2, <1>3, <1>4, Frame DEF IInv

LEMMA ListOccupantStep == ASSUME IInv, ListOccupant  PROVE IInv'
<1>1. list \in ListState /\ list.node \in ItemNode /\ list.node.path \in Top
  BY DEF ListOccupant, ListInv, ItemNode, IInv
<1>2. list.node.path \in Place
  BY <1>1, Places
<1>3. ListInv'
  BY <1>1, <1>2, Zenon DEF ListOccupant, ListInv, ListState
<1>4. /\ UNCHANGED <<db, disk, cloud, user, up, dl>>
      /\ UNCHANGED <<lastId, clock, left, owed, unlinked>> /\ Watch
  BY DEF ListOccupant
<1> QED
  BY <1>3, <1>4, Frame, Zenon DEF IInv

LEMMA ListRelocateStep == ASSUME IInv, ListRelocate  PROVE IInv'
<1>1. list \in ListState /\ list.node \in ItemNode /\ list.node.path \in Top /\ list.at \in Top
  BY DEF ListRelocate, ListInv, ItemNode, IInv
<1>2. ListInv'
  BY <1>1 DEF ListRelocate, ListInv, ListState
<1>3. DiskInv'
  BY <1>1, MovedOK DEF ListRelocate, DiskInv, DiskOK, IInv
<1>4. /\ UNCHANGED <<db, cloud, user, up, dl>>
      /\ UNCHANGED <<lastId, clock, left, owed, unlinked>> /\ Watch
  BY DEF ListRelocate
<1> QED
  BY <1>2, <1>3, <1>4, Frame DEF IInv

LEMMA ListRekeyStep == ASSUME IInv, ListRekey  PROVE IInv'
<1>1. list \in ListState /\ list.node \in ItemNode /\ list.node.path \in Top /\ list.at \in Top
  BY DEF ListRekey, ListInv, ItemNode, IInv
<1>2. DbInv'
  <2>1. Pick(FreeGraves) \in Top
    BY Picked, Names DEF ListRekey
  <2> DEFINE grave == [q \in {list.node.path} |-> Pick(FreeGraves)]
  <2>2. grave[list.node.path] \in Top
    BY <2>1
  <2>3. db' = RenameTree(db, list.at, list.node.path, FALSE, TRUE, grave)
    BY DEF ListRekey
  <2> HIDE DEF grave
  <2> QED
    BY <1>1, <2>2, <2>3, RenameTreeSound, Zenon DEF DbInv, IInv
<1>3. ListInv'
  <2>1. ASSUME NEW pc \in {"store", "redo"}, NEW stamp \in Nat,
               NEW hydrated \in BOOLEAN, NEW recent \in BOOLEAN,
               list' = [list EXCEPT !.pc = pc, !.stamp = stamp,
                                    !.hydrated = hydrated, !.recent = recent]
        PROVE  ListInv'
    BY Zenon, <1>1, <2>1 DEF ListInv, ListState
  <2>2. ASSUME NEW pc \in {"store", "redo"}, list' = [list EXCEPT !.pc = pc]
        PROVE  ListInv'
    BY <1>1, <2>2 DEF ListInv, ListState
  <2>3. CASE Has(db', list.node.path)
    <3> DEFINE row == db'.rows[list.node.path]
    <3>1. row \in Entry
      BY <1>2, <2>3 DEF Has, DbInv, Sound, StoreType
    <3>2. row.stamp \in Nat /\ row.hydrated \in BOOLEAN /\ row.recent \in BOOLEAN
      BY Zenon, <3>1 DEF Entry
    <3>3. \E pc \in {"store", "redo"} :
            list' = [list EXCEPT !.pc = pc, !.stamp = row.stamp,
                                 !.hydrated = row.hydrated, !.recent = row.recent]
      BY ZenonT(40), <1>1, <2>3 DEF ListRekey, ListState
    <3> HIDE DEF row
    <3> QED
      BY ZenonT(60), <2>1, <3>2, <3>3
  <2>4. CASE ~Has(db', list.node.path)
    <3>1. \E pc \in {"store", "redo"} : list' = [list EXCEPT !.pc = pc]
      BY <2>4 DEF ListRekey
    <3> QED
      BY <2>2, <3>1
  <2> QED
    BY <2>3, <2>4
<1>4. /\ UNCHANGED <<disk, cloud, user, up, dl>>
      /\ UNCHANGED <<lastId, clock, left, owed, unlinked>> /\ Watch
  BY DEF ListRekey
<1> QED
  BY <1>2, <1>3, <1>4, Frame DEF IInv

LEMMA ListPlaceStep == ASSUME IInv, ListPlace  PROVE IInv'
<1>1. /\ list \in ListState /\ list.node \in ItemNode
      /\ list.node.path \in Top /\ list.node.stamp \in Nat
  BY DEF ListPlace, ListInv, ItemNode, IInv
<1>2. ListInv'
  BY <1>1, Zenon DEF ListPlace, ListInv, ListState
<1>3. DiskInv'
  <2>1. Hole \in Nat
    BY DEF Hole
  <2> QED
    BY <1>1, <2>1, WriteOK DEF ListPlace, DiskInv, DiskOK, IInv
<1>4. /\ UNCHANGED <<db, cloud, user, up, dl>>
      /\ UNCHANGED <<lastId, clock, left, owed, unlinked>> /\ Watch
  BY DEF ListPlace
<1> QED
  BY <1>2, <1>3, <1>4, Frame DEF IInv

LEMMA ListStoreStep == ASSUME IInv, ListStore  PROVE IInv'
<1>1. /\ list \in ListState /\ list.node \in ItemNode /\ list.node.path \in Top
      /\ list.hydrated \in BOOLEAN /\ list.recent \in BOOLEAN
  BY DEF ListStore, ListInv, ListState, ItemNode, IInv
<1>2. ListInv'
  BY <1>1, ItemsState DEF ListStore, ListInv
<1>3. DbInv'
  BY <1>1, RemoteRow, UpsertEntrySound, Zenon DEF ListStore, DbInv, IInv
<1>4. /\ UNCHANGED <<disk, cloud, user, up, dl>>
      /\ UNCHANGED <<lastId, clock, left, owed, unlinked>> /\ Watch
  BY DEF ListStore
<1> QED
  BY <1>2, <1>3, <1>4, Frame DEF IInv

LEMMA ListAppliedStep == ASSUME IInv, ListApplied  PROVE IInv'
<1>1. Verdicts \subseteq [path : Top, verdict : {"forget", "renew", "remove"}]
  <2>1. Unlisted \subseteq Top
    BY DEF Unlisted, DbInv, Sound, IInv
  <2> QED
    BY <2>1 DEF Verdicts
<1>2. ListInv'
  BY <1>1, SweepState DEF ListApplied, ListInv
<1>3. /\ UNCHANGED <<db, disk, cloud, user, up, dl>>
      /\ UNCHANGED <<lastId, clock, left, owed, unlinked>> /\ Watch
  BY DEF ListApplied
<1> QED
  BY <1>2, <1>3, Frame, Zenon DEF IInv

LEMMA ListSweepStep == ASSUME IInv, ListSweep  PROVE IInv'
<1>1. PICK v \in list.sweep :
        \/ /\ db' = RemoveSubtree(db, v.path) \/ db' = ClearRemoteIdentity(db, v.path)
           /\ list' = Sweeping(list.sweep \ {v}) /\ UNCHANGED disk
        \/ /\ disk' = Remove(v.path)
           /\ list' = [list EXCEPT !.pc = "unrow", !.at = v.path] /\ UNCHANGED db
  BY Zenon DEF ListSweep
<1>2. /\ list \in ListState
      /\ list.sweep \subseteq [path : Top, verdict : {"forget", "renew", "remove"}]
      /\ v.path \in Top
  BY DEF ListInv, ListState, IInv
<1>3. v.path \in Place
  BY <1>2, Places
<1>4. ListInv'
  <2>1. CASE list' = Sweeping(list.sweep \ {v})
    <3>1. Sweeping(list.sweep \ {v}) \in ListState
          /\ Sweeping(list.sweep \ {v}).pc \in {"idle", "sweep"}
      BY <1>2, SweepState
    <3> QED
      BY <2>1, <3>1 DEF ListInv
  <2>2. CASE list' = [list EXCEPT !.pc = "unrow", !.at = v.path]
    BY <1>2, <1>3, <2>2, Zenon DEF ListInv, ListState
  <2> QED
    BY <1>1, <2>1, <2>2
<1>5. DbInv'
  BY <1>1, RemoveSound, ClearRemoteIdentitySound DEF DbInv, IInv
<1>6. DiskInv'
  BY <1>1, RemoveOK DEF DiskInv, DiskOK, IInv
<1>7. /\ UNCHANGED <<cloud, user, up, dl>>
      /\ UNCHANGED <<lastId, clock, left, owed, unlinked>> /\ Watch
  BY DEF ListSweep
<1> QED
  BY <1>4, <1>5, <1>6, <1>7, Frame DEF IInv

LEMMA ListUnrowStep == ASSUME IInv, ListUnrow  PROVE IInv'
<1>1. ListInv'
  <2>1. list.sweep \subseteq [path : Top, verdict : {"forget", "renew", "remove"}]
    BY DEF ListInv, ListState, IInv
  <2> QED
    BY <2>1, SweepState DEF ListUnrow, ListInv
<1>2. DbInv'
  BY RemoveSound DEF ListUnrow, DbInv, IInv
<1>3. /\ UNCHANGED <<disk, cloud, user, up, dl>>
      /\ UNCHANGED <<lastId, clock, left, owed, unlinked>> /\ Watch
  BY DEF ListUnrow
<1> QED
  BY <1>1, <1>2, <1>3, Frame DEF IInv
-----------------------------------------------------------------------------
\* ---- A download.
LEMMA DlStartStep == ASSUME IInv, DlStart  PROVE IInv'
<1>1. PICK p \in DOMAIN db.rows :
        dl' = [DlIdle EXCEPT !.pc = "open", !.path = p, !.node = NodeOf(p)]
  BY Zenon DEF DlStart
<1>2. NodeOf(p) \in NodeType /\ p \in Top /\ p \in Place
  BY RowNode DEF IInv
<1>3. DlInv'
  BY <1>1, <1>2, Idle, Zenon DEF DlInv, DlState
<1>4. /\ UNCHANGED <<db, disk, cloud, user, up, list>>
      /\ UNCHANGED <<lastId, clock, left, owed, unlinked>> /\ Watch
  BY DEF DlStart
<1> QED
  BY <1>3, <1>4, Frame DEF IInv

LEMMA DlOpenStep == ASSUME IInv, DlOpen  PROVE IInv'
<1>1. dl.node.id \in DOMAIN cloud => cloud[dl.node.id].data \in Nat
  BY DEF CloudInv, CloudOK, Item, IInv
<1>2. DlInv'
  <2>1. CASE dl' = DlIdle
    BY <2>1, Idle DEF DlInv, DlIdle
  <2>2. ASSUME NEW data \in Nat, dl' = [dl EXCEPT !.pc = "check", !.data = data]
        PROVE  DlInv'
    BY <2>2, Zenon DEF DlOpen, DlInv, DlState, IInv
  <2> QED
    BY <1>1, <2>1, <2>2, Zenon DEF DlOpen
<1>3. /\ UNCHANGED <<db, disk, cloud, user, up, list>>
      /\ UNCHANGED <<lastId, clock, left, owed, unlinked>> /\ Watch
  BY DEF DlOpen
<1> QED
  BY <1>2, <1>3, Frame DEF IInv

LEMMA DlCheckStep == ASSUME IInv, DlCheck  PROVE IInv'
<1>1. DlInv'
  BY Idle DEF DlCheck, DlInv, DlState, DlIdle, IInv
<1>2. /\ UNCHANGED <<db, disk, cloud, user, up, list>>
      /\ UNCHANGED <<lastId, clock, left, owed, unlinked>> /\ Watch
  BY DEF DlCheck
<1> QED
  BY <1>1, <1>2, Frame DEF IInv

LEMMA DlCommitStep == ASSUME IInv, DlCommit  PROVE IInv'
<1>1. dl \in DlState /\ dl.path \in Top /\ dl.data \in Nat /\ dl.node.stamp \in Nat
  BY DEF DlCommit, DlInv, DlState, NodeType, IInv
<1>2. DlInv'
  BY <1>1 DEF DlCommit, DlInv, DlState
<1>3. DiskInv'
  BY <1>1, WriteOK DEF DlCommit, DiskInv, DiskOK, IInv
<1>4. /\ UNCHANGED <<db, cloud, user, up, list>>
      /\ UNCHANGED <<lastId, clock, left, owed, unlinked>> /\ Watch
  BY DEF DlCommit
<1> QED
  BY <1>2, <1>3, <1>4, Frame DEF IInv

LEMMA DlMarkStep == ASSUME IInv, DlMark  PROVE IInv'
<1>1. DlInv'
  BY Idle DEF DlMark, DlInv, DlIdle
<1>2. DbInv'
  <2>1. dl.path \in DOMAIN disk => disk[dl.path].stamp \in Nat
    BY DEF DiskInv, File, IInv
  <2> QED
    BY <2>1, MarkHydratedSound DEF DlMark, DbInv, IInv
<1>3. /\ UNCHANGED <<disk, cloud, user, up, list>>
      /\ UNCHANGED <<lastId, clock, left, owed, unlinked>> /\ Watch
  BY DEF DlMark
<1> QED
  BY <1>1, <1>2, <1>3, Frame DEF IInv

LEMMA DlAdoptStep == ASSUME IInv, DlAdopt  PROVE IInv'
<1>1. PICK p \in DOMAIN db.rows :
        /\ dl' = [DlIdle EXCEPT !.pc = "mark", !.path = p]
        /\ \/ UNCHANGED <<disk, clock>>
           \/ clock' = clock + 1 /\ disk' = Write(p, Hole, clock')
  BY Zenon DEF DlAdopt
<1>2. p \in Top /\ p \in Place
  BY RowNode DEF IInv
<1>3. DlInv'
  BY <1>1, <1>2, Idle, Zenon DEF DlInv, DlState
<1>4. clock' \in Nat
  BY <1>1 DEF RestInv, IInv
<1>5. DiskInv'
  <2>1. Hole \in Nat
    BY DEF Hole
  <2> QED
    BY <1>1, <1>2, <1>4, <2>1, WriteOK DEF DiskInv, DiskOK, IInv
<1>6. RestInv'
  BY <1>4 DEF DlAdopt, RestInv, Watch, IInv
<1>7. UNCHANGED <<db, cloud, user, up, list>>
  BY DEF DlAdopt
<1> QED
  BY <1>3, <1>5, <1>6, <1>7, Frame DEF IInv
-----------------------------------------------------------------------------
\* ---- A restart.
LEMMA RestoredFile ==
    ASSUME DbInv, RestInv, NEW p \in DOMAIN db.rows  PROVE Restored(p) \in File
<1>1. db.rows[p].stamp \in Nat /\ clock + 1 \in Nat /\ Hole \in Nat
  BY DEF DbInv, Sound, StoreType, Entry, RestInv, Hole
<1> QED
  BY <1>1 DEF Restored, File

LEMMA RestartStep == ASSUME IInv, Restart  PROVE IInv'
<1>1. DiskOK(ReconciledDisk)
  <2>1. \A p \in Missing : p \in Top /\ Restored(p) \in File
    BY RestoredFile, RowNode DEF Missing, IInv
  <2>2. \A p \in DOMAIN disk : p \in Top /\ disk[p] \in File
    BY DEF DiskInv, IInv
  <2> QED
    BY <2>1, <2>2 DEF DiskOK, ReconciledDisk
<1>2. ASSUME NEW p \in DOMAIN db.rows
      PROVE  ReconciledRow(p) \in Entry /\ Disciplined(ReconciledRow(p), p)
  <2>1. db.rows[p] \in Entry /\ Disciplined(db.rows[p], p)
    BY DEF DbInv, Sound, StoreType, IInv
  <2>2. CASE ~Live(db, p)
    BY <2>1, <2>2 DEF ReconciledRow
  <2>3. CASE Live(db, p)
    <3>1. p \in DOMAIN ReconciledDisk
      BY <2>3 DEF ReconciledDisk, Missing
    <3>2. ReconciledDisk[p].stamp \in Nat
      BY <1>1, <3>1 DEF DiskOK, File
    <3> QED
      BY <2>1, <2>3, <3>2, Zenon DEF ReconciledRow, Entry, Disciplined
  <2> QED
    BY <2>2, <2>3
<1>3. DbInv'
  <2> DEFINE rows == [p \in DOMAIN db.rows |-> ReconciledRow(p)]
  <2>1. db' = [db EXCEPT !.rows = rows] /\ DOMAIN rows = DOMAIN db.rows
    BY DEF Restart
  <2>2. \A p \in DOMAIN db.rows : rows[p] \in Entry /\ Disciplined(rows[p], p)
    BY <1>2
  <2> HIDE DEF rows
  <2> QED
    BY <2>1, <2>2 DEF DbInv, Sound, StoreType, IInv
<1>4. DiskInv'
  BY <1>1 DEF Restart, DiskInv, DiskOK
<1>5. UserInv' /\ UpInv' /\ ListInv' /\ DlInv'
  BY Idle DEF Restart, UserInv, UpInv, ListInv, DlInv, UserIdle, UpIdle, ListIdle, DlIdle
<1>6. RestInv'
  BY FailsLeft DEF Restart, RestInv, Fails, IInv
<1>7. UNCHANGED cloud
  BY DEF Restart
<1> QED
  BY <1>3, <1>4, <1>5, <1>6, <1>7, Frame DEF IInv
-----------------------------------------------------------------------------
\* ---- Another device.
LEMMA ElsewhereStep == ASSUME IInv, Elsewhere  PROVE IInv'
<1>1. /\ lastId + 1 \in Nat \ {NoId} /\ clock + 1 \in Nat
  BY DEF RestInv, NoId, IInv
<1>2. CloudInv' /\ clock' \in Nat /\ lastId' \in Nat
  <2>1. CASE RemoteAdd
    <3>1. PICK p \in UserPath :
            cloud' = Create(cloud, lastId + 1, p, "file", clock + 1, clock + 1)
      BY <2>1 DEF RemoteAdd
    <3>2. p \in Top
      BY Names
    <3> QED
      BY <1>1, <2>1, <3>1, <3>2, CreateOK DEF RemoteAdd, CloudInv, IInv
  <2>2. CASE RemoteEdit
    <3>1. PICK i \in DOMAIN cloud : cloud' = Modify(cloud, i, clock + 1, clock + 1)
      BY <2>2 DEF RemoteEdit
    <3> QED
      BY <1>1, <2>2, <3>1, ModifyOK DEF RemoteEdit, CloudInv, RestInv, IInv
  <2>3. CASE RemoteDelete
    BY <2>3, DeleteOK DEF RemoteDelete, CloudInv, RestInv, IInv
  <2>4. CASE RemoteRename
    <3>1. PICK i \in DOMAIN cloud, p \in UserPath : cloud' = Relocate(cloud, i, p)
      BY <2>4 DEF RemoteRename
    <3>2. p \in Top
      BY Names
    <3> QED
      BY <2>4, <3>1, <3>2, RelocateOK DEF RemoteRename, CloudInv, RestInv, IInv
  <2> QED
    BY <2>1, <2>2, <2>3, <2>4 DEF Elsewhere
<1>3. raced' \in BOOLEAN
  BY Zenon DEF Elsewhere, RemoteAdd, RemoteEdit, RemoteDelete, RemoteRename, AsIfElsewhere
<1>4. left' \in [user : Nat, remote : Nat, fail : Nat]
  BY DEF Elsewhere, RestInv, IInv
<1>5. UNCHANGED <<db, disk, user, up, list, dl, owed, unlinked>>
  BY DEF Elsewhere
<1>6. RestInv'
  BY <1>2, <1>3, <1>4, <1>5 DEF RestInv, IInv
<1> QED
  BY <1>2, <1>5, <1>6, Frame DEF IInv
-----------------------------------------------------------------------------
\* Every step keeps the invariant.
LEMMA Inductive == IInv /\ [Next]_vars => IInv'
<1> SUFFICES ASSUME IInv, [Next]_vars  PROVE IInv'
  OBVIOUS
<1>1. CASE UserBegin
  BY <1>1, UserBeginStep
<1>2. CASE UserContinues
  BY <1>2, UserWaitStep, UserWritesStep, UserCreatesStep, UserRemovesStep, UserMovesStep,
     UserTouchesStep, UserRecordsStep, UserForgetsStep, UserRenamesStep,
     UserRecordsTimeStep, UserQueuesStep DEF UserContinues
<1>3. CASE Uploader
  BY <1>3, UpStartStep, UpTombstoneStep, UpForgetStep, UpFileStep, UpMissingStep,
     UpMoveStep, UpReplaceStep, UpSendStep, UpMetaStep, UpAdoptStep, UpCleanStep,
     UpEndStep DEF Uploader
<1>4. CASE Lister
  BY <1>4, ListStartStep, ListItemStep, ListConflictStep, ListDetachStep,
     ListOccupantStep, ListRelocateStep, ListRekeyStep, ListPlaceStep, ListStoreStep,
     ListAppliedStep, ListSweepStep, ListUnrowStep DEF Lister
<1>5. CASE Downloader
  BY <1>5, DlStartStep, DlOpenStep, DlCheckStep, DlCommitStep, DlMarkStep, DlAdoptStep
     DEF Downloader
<1>6. CASE Elsewhere
  BY <1>6, ElsewhereStep
<1>7. CASE Restart
  BY <1>7, RestartStep
<1>8. CASE UNCHANGED vars
  BY <1>8 DEF vars, IInv, DbInv, DiskInv, CloudInv, UserInv, UpInv, ListInv, DlInv, RestInv
<1> QED
  BY <1>1, <1>2, <1>3, <1>4, <1>5, <1>6, <1>7, <1>8 DEF Next

\* The invariant, of every behaviour of every instance.
THEOREM Invariant == Spec => []IInv
<1>1. Init => IInv
  BY Initially
<1>2. IInv /\ [Next]_vars => IInv'
  BY Inductive
<1> QED
  BY <1>1, <1>2, PTL DEF Spec

\* The three stores, and what each actor has in hand, keep their types in
\* every behaviour: the rows state.rs writes, the files of the mirror and the
\* items of the service.
THEOREM TypeCorrect == Spec => []TypeOK
<1>1. IInv => TypeOK
  BY IInvParts
<1> QED
  BY <1>1, Invariant, PTL

\* No interleaving of the calls, the upload pass, the listings and the
\* downloads, races included, leaves a pending delete or a row unknown to
\* iCloud clean, or a clean row away from the path it was synced at: what
\* list_dirty_entries and the sweep (remote.rs:105) rely on.
THEOREM RowsDisciplined == Spec => []RowDiscipline
<1>1. IInv => RowDiscipline
  BY IInvParts
<1> QED
  BY <1>1, Invariant, PTL
-----------------------------------------------------------------------------
(***************************************************************************)
(* Files and rows.  NoOrphanFile is not inductive: a file whose row is     *)
(* being written has none yet, and a step that moves a file trusts what    *)
(* the steps before it saw of it and of its row.  The invariant below adds *)
(* the converse, that a row iCloud knows has its file, says who is writing *)
(* the missing half of a pair, and what each actor may still rely on of    *)
(* what it has seen; it holds for as long as no two actors met on a path.  *)
(***************************************************************************)
ConflictPath == {Join(Root, c) : c \in Conflict}
GravePath == {Join(Root, g) : g \in Grave}

Known(st, p) == Live(st, p) /\ st.rows[p].id # NoId

\* A row whose file must be there: all but a conflict's copy of a file that
\* was not there to copy.
Wanted(st, p) == Known(st, p) \/ (Live(st, p) /\ p \notin ConflictPath)

HasFile(p) == p \in DOMAIN disk

\* The file came first, its row is about to follow.
UserBrings(p) ==
    /\ user.pc = "record"
    /\ \/ user.op \in {"write", "create"} /\ p = user.path
       \/ user.op = "rename" /\ p = user.to
ListBrings(p) ==
    \/ list.pc = "detach" /\ p = list.to
    \/ list.pc \in {"rekey", "store"} /\ p = list.node.path

\* The file went first, its row is about to follow.
UserTakes(p) == user.pc = "record" /\ user.op \in {"unlink", "rename"} /\ p = user.path
ListTakes(p) == list.pc \in {"detach", "rekey", "unrow"} /\ p = list.at

FileNamed(p) == HasFile(p) => Live(db, p) \/ UserBrings(p) \/ ListBrings(p)
RowFiled(p) == Wanted(db, p) => HasFile(p) \/ UserTakes(p) \/ ListTakes(p)
Pairs == \A p \in Top : FileNamed(p) /\ RowFiled(p)

\* What each actor has seen and still holds.
UserSees ==
    /\ user.op = "create" => ~user.known
    /\ user.pc = "hydrate" => user.op = "write" /\ user.known /\ Known(db, user.path)
    /\ user.pc \in {"mirror", "record"} /\ user.op = "write" /\ user.known =>
          Live(db, user.path)
    /\ user.pc \in {"mirror", "record"} /\ user.op = "rename" =>
          Live(db, user.path) /\ user.path # user.to /\ user.path \in UserPath
    /\ user.pc = "record" /\ user.op = "rename" => ~HasFile(user.path) /\ HasFile(user.to)
    /\ user.pc = "record" /\ user.op = "unlink" => ~HasFile(user.path)

UpSees ==
    /\ \A t \in up.tombs : ~Live(db, t.path)
    /\ up.pc = "forget" => up.node \in up.tombs /\ up.path = up.node.path
    /\ up.pc \notin {"idle", "pass", "forget"} => up.tombs = {}
    /\ up.pc = "missing" => ~HasFile(up.path)
    /\ up.pc \in {"adopt", "clean"} \/ (up.pc = "move" /\ ~up.changed) =>
          Live(db, up.path) /\ HasFile(up.path)

ListSees ==
    /\ list.pc \notin {"sweep", "unrow"} => list.sweep = {}
    /\ list.pc \in {"conflict", "detach"} => Has(db, list.at)
    /\ list.pc = "detach" =>
          ~Has(db, list.to) /\ ~HasFile(list.at) /\ list.to \in ConflictPath
    /\ list.pc \in {"relocate", "rekey"} => Known(db, list.at) /\ list.at # list.node.path
    /\ list.pc = "rekey" => HasFile(list.node.path) /\ ~HasFile(list.at)
    /\ list.pc = "store" => HasFile(list.node.path)
    /\ list.pc = "unrow" => ~HasFile(list.at)
    /\ \A v \in list.sweep : /\ v.verdict = "forget" => ~Live(db, v.path)
                             /\ v.verdict = "renew" => Live(db, v.path)

DlSees == dl.pc = "commit" => Live(db, dl.path)

Paired == Pairs /\ UserSees /\ UpSees /\ ListSees /\ DlSees
OInv == Undisturbed => Paired
-----------------------------------------------------------------------------
(***************************************************************************)
(* What the operators of SyncState leave as it was, as far as Paired looks *)
(* at a row: outside R no row comes to life, dies or loses its item, and   *)
(* none appears but in a grave.                                            *)
(***************************************************************************)
RowsKept(a, b, files, R) ==
    \A p \in Top \ R :
        /\ Live(b, p) <=> Live(a, p)
        /\ Known(a, p) => Known(b, p)
        /\ Known(b, p) => Known(a, p) \/ p \in files
        /\ Has(a, p) => Has(b, p)
        /\ Has(b, p) => Has(a, p) \/ p \in GravePath

FilesKept(a, b, D) == \A p \in Top \ D : p \in b <=> p \in a

\* Outside R the rows are the same, and what was queued is still queued.
Alike(a, b, R) ==
    \A p \in Top \ R :
        /\ Has(a, p) => Has(b, p) /\ b.rows[p] = a.rows[p]
        /\ HasPendingContentChange(a, p) => HasPendingContentChange(b, p)

\* No row bears a stamp younger than c.
Marked(st, c) == \A p \in DOMAIN st.rows : st.rows[p].stamp <= c

\* Its content is in the mirror; and a pass will look at it.
Full(st, p) == Has(st, p) /\ st.rows[p].hydrated
Ready(st, p) == Live(st, p) /\ st.rows[p].dirty /\ st.rows[p].hydrated

LEMMA SameRows ==
    ASSUME NEW a, NEW b, b.rows = a.rows, NEW files, NEW R
    PROVE  RowsKept(a, b, files, R)
BY DEF RowsKept, Live, Known, Has

\* A row that is updated is the only one that changes.
LEMMA UpdateRowFace ==
    ASSUME NEW st, Sound(st), NEW p, NEW row, NEW files
    PROVE  /\ RowsKept(st, UpdateRow(st, p, row), files, {p})
           /\ \A q : Has(UpdateRow(st, p, row), q) <=> Has(st, q)
           /\ Live(UpdateRow(st, p, row), p) <=> Has(st, p) /\ ~row.tomb
           /\ Known(UpdateRow(st, p, row), p) <=> Has(st, p) /\ ~row.tomb /\ row.id # NoId
           /\ Alike(st, UpdateRow(st, p, row), {p})
           /\ Has(st, p) => UpdateRow(st, p, row).rows[p] = row
           /\ \A c : Marked(st, c) /\ (Has(st, p) => row.stamp <= c)
                        => Marked(UpdateRow(st, p, row), c)
<1> DEFINE new == [q \in DOMAIN st.rows |-> IF q = p THEN row ELSE st.rows[q]]
<1>1. UpdateRow(st, p, row).rows = new
  BY DEF UpdateRow, Sound, StoreType
<1>2. /\ DOMAIN new = DOMAIN st.rows
      /\ \A q \in DOMAIN st.rows : q # p => new[q] = st.rows[q]
      /\ p \in DOMAIN st.rows => new[p] = row
  OBVIOUS
<1>3. UpdateRow(st, p, row).ops = st.ops
  BY DEF UpdateRow, Sound, StoreType
<1> HIDE DEF new
<1>4. /\ RowsKept(st, UpdateRow(st, p, row), files, {p})
      /\ \A q : Has(UpdateRow(st, p, row), q) <=> Has(st, q)
      /\ Live(UpdateRow(st, p, row), p) <=> Has(st, p) /\ ~row.tomb
      /\ Known(UpdateRow(st, p, row), p) <=> Has(st, p) /\ ~row.tomb /\ row.id # NoId
  BY <1>1, <1>2 DEF RowsKept, Live, Known, Has
<1>5. /\ Alike(st, UpdateRow(st, p, row), {p})
      /\ Has(st, p) => UpdateRow(st, p, row).rows[p] = row
  BY <1>1, <1>2, <1>3 DEF Alike, Has, HasPendingContentChange
<1>6. \A c : Marked(st, c) /\ (Has(st, p) => row.stamp <= c)
                => Marked(UpdateRow(st, p, row), c)
  BY <1>1, <1>2 DEF Marked, Has
<1> QED
  BY <1>4, <1>5, <1>6

\* An update that neither buries nor revives a row, and takes no item from it,
\* changes nothing that matters.
LEMMA UpdateRowQuiet ==
    ASSUME NEW st, Sound(st), NEW p, NEW row, NEW files,
           Has(st, p) => /\ row.tomb = st.rows[p].tomb
                         /\ st.rows[p].id # NoId => row.id # NoId
                         /\ row.id # NoId => st.rows[p].id # NoId \/ p \in files
    PROVE  RowsKept(st, UpdateRow(st, p, row), files, {})
<1>1. /\ RowsKept(st, UpdateRow(st, p, row), files, {p})
      /\ \A q : Has(UpdateRow(st, p, row), q) <=> Has(st, q)
      /\ Live(UpdateRow(st, p, row), p) <=> Has(st, p) /\ ~row.tomb
      /\ Known(UpdateRow(st, p, row), p) <=> Has(st, p) /\ ~row.tomb /\ row.id # NoId
  BY UpdateRowFace, Zenon
<1> DEFINE new == UpdateRow(st, p, row)
<1> HIDE DEF new
<1> SUFFICES RowsKept(st, new, files, {})
  BY DEF new
<1>2. /\ RowsKept(st, new, files, {p})
      /\ \A q : Has(new, q) <=> Has(st, q)
      /\ Live(new, p) <=> Has(st, p) /\ ~row.tomb
      /\ Known(new, p) <=> Has(st, p) /\ ~row.tomb /\ row.id # NoId
  BY <1>1 DEF new
<1>3. /\ Live(st, p) <=> Has(st, p) /\ ~st.rows[p].tomb
      /\ Known(st, p) <=> Has(st, p) /\ ~st.rows[p].tomb /\ st.rows[p].id # NoId
  BY DEF Live, Known
<1>4. /\ Live(new, p) <=> Live(st, p)
      /\ Known(st, p) => Known(new, p)
      /\ Known(new, p) => Known(st, p) \/ p \in files
      /\ Has(st, p) <=> Has(new, p)
  BY <1>2, <1>3
<1> QED
  BY <1>2, <1>4 DEF RowsKept

LEMMA UpsertFace ==
    ASSUME NEW st, Sound(st), NEW p, NEW row, NEW files
    PROVE  /\ RowsKept(st, UpsertEntry(st, p, row), files, {p})
           /\ Has(UpsertEntry(st, p, row), p)
           /\ Live(UpsertEntry(st, p, row), p) <=> ~row.tomb
           /\ Alike(st, UpsertEntry(st, p, row), {p})
           /\ UpsertEntry(st, p, row).rows[p] = row
           /\ \A c : Marked(st, c) /\ row.stamp <= c => Marked(UpsertEntry(st, p, row), c)
<1> DEFINE new == [q \in DOMAIN st.rows \union {p} |-> IF q = p THEN row ELSE st.rows[q]]
<1>1. UpsertEntry(st, p, row).rows = new
  BY DEF UpsertEntry, Sound, StoreType
<1>2. /\ DOMAIN new = DOMAIN st.rows \union {p}
      /\ \A q \in DOMAIN st.rows : q # p => new[q] = st.rows[q]
      /\ new[p] = row
  OBVIOUS
<1>3. UpsertEntry(st, p, row).ops = st.ops
  BY DEF UpsertEntry, Sound, StoreType
<1> HIDE DEF new
<1>4. /\ RowsKept(st, UpsertEntry(st, p, row), files, {p})
      /\ Has(UpsertEntry(st, p, row), p)
      /\ Live(UpsertEntry(st, p, row), p) <=> ~row.tomb
  BY <1>1, <1>2 DEF RowsKept, Live, Known, Has
<1>5. /\ Alike(st, UpsertEntry(st, p, row), {p})
      /\ UpsertEntry(st, p, row).rows[p] = row
  BY <1>1, <1>2, <1>3 DEF Alike, Has, HasPendingContentChange
<1>6. \A c : Marked(st, c) /\ row.stamp <= c => Marked(UpsertEntry(st, p, row), c)
  BY <1>1, <1>2 DEF Marked
<1> QED
  BY <1>4, <1>5, <1>6

\* In one folder a subtree is a row, and removing it removes that row.
LEMMA WithoutFace ==
    ASSUME NEW st, Sound(st), NEW p \in Top, NEW gone,
           Has(st, p) => p \in gone, \A q \in Top : q \in gone => q = p, NEW files
    PROVE  /\ RowsKept(st, Without(st, gone), files, {p}) /\ ~Has(Without(st, gone), p)
           /\ Alike(st, Without(st, gone), {p})
           /\ \A c : Marked(st, c) => Marked(Without(st, gone), c)
<1> DEFINE new == [q \in DOMAIN st.rows \ gone |-> st.rows[q]]
<1>1. Without(st, gone).rows = new /\ Without(st, gone).ops = {o \in st.ops : o.path \notin gone}
  BY DEF Without
<1>2. /\ DOMAIN new = DOMAIN st.rows \ gone
      /\ \A q \in DOMAIN new : new[q] = st.rows[q]
  OBVIOUS
<1> HIDE DEF new
<1>3. RowsKept(st, Without(st, gone), files, {p}) /\ ~Has(Without(st, gone), p)
  BY <1>1, <1>2 DEF RowsKept, Live, Known, Has
<1>4. Alike(st, Without(st, gone), {p})
  BY <1>1, <1>2 DEF Alike, Has, HasPendingContentChange
<1>5. \A c : Marked(st, c) => Marked(Without(st, gone), c)
  BY <1>1, <1>2 DEF Marked
<1> QED
  BY <1>3, <1>4, <1>5

LEMMA RemoveFace ==
    ASSUME NEW st, Sound(st), NEW p \in Top, NEW files
    PROVE  /\ RowsKept(st, RemoveEntry(st, p), files, {p}) /\ ~Has(RemoveEntry(st, p), p)
           /\ Alike(st, RemoveEntry(st, p), {p})
           /\ \A c : Marked(st, c) => Marked(RemoveEntry(st, p), c)
           /\ RowsKept(st, RemoveSubtree(st, p), files, {p}) /\ ~Has(RemoveSubtree(st, p), p)
           /\ Alike(st, RemoveSubtree(st, p), {p})
           /\ \A c : Marked(st, c) => Marked(RemoveSubtree(st, p), c)
<1> DEFINE gone == Subtree(st, p) \union {o.path : o \in {x \in st.ops : IsWithin(x.path, p)}}
<1>1. \A q \in Top : q \in {p} => q = p
  OBVIOUS
<1>2. Has(st, p) => p \in gone
  BY TopPaths DEF Subtree, Has
<1>3. ASSUME NEW q \in Top, q \in gone  PROVE q = p
  BY <1>3, TopPaths DEF Subtree
<1> HIDE DEF gone
<1>4. /\ RowsKept(st, Without(st, {p}), files, {p}) /\ ~Has(Without(st, {p}), p)
      /\ Alike(st, Without(st, {p}), {p})
      /\ \A c : Marked(st, c) => Marked(Without(st, {p}), c)
  BY <1>1, WithoutFace
<1>5. /\ RowsKept(st, Without(st, gone), files, {p}) /\ ~Has(Without(st, gone), p)
      /\ Alike(st, Without(st, gone), {p})
      /\ \A c : Marked(st, c) => Marked(Without(st, gone), c)
  BY <1>2, <1>3, WithoutFace, Zenon
<1> QED
  BY <1>4, <1>5 DEF RemoveEntry, RemoveSubtree, gone
-----------------------------------------------------------------------------
\* Rows moved to keys that differ stay as they are.
LEMMA RekeyKeeps ==
    ASSUME NEW rows, NEW key,
           \A q, r \in DOMAIN key : key[q] = key[r] => q = r
    PROVE  /\ DOMAIN Rekey(rows, key) = {key[q] : q \in DOMAIN key}
           /\ \A q \in DOMAIN key : Rekey(rows, key)[key[q]] = rows[q]
<1>1. DOMAIN Rekey(rows, key) = {key[q] : q \in DOMAIN key}
  BY DEF Rekey
<1>2. ASSUME NEW q \in DOMAIN key
      PROVE  Rekey(rows, key)[key[q]] = rows[q]
  <2>1. Rekey(rows, key)[key[q]] = rows[CHOOSE r \in DOMAIN key : key[r] = key[q]]
    BY DEF Rekey
  <2>2. (CHOOSE r \in DOMAIN key : key[r] = key[q]) = q
    OBVIOUS
  <2> QED
    BY <2>1, <2>2
<1> QED
  BY <1>1, <1>2

\* A tombstone that makes way for a new entry leaves its key, and no row dies.
LEMMA BuryFace ==
    ASSUME NEW st, Sound(st), NEW p \in Top, NEW grave \in Top,
           grave \in GravePath, ~Has(st, grave), NEW files
    PROVE  /\ RowsKept(st, BuryTombstone(st, p, grave), files, {p})
           /\ Live(BuryTombstone(st, p, grave), p) <=> Live(st, p)
           /\ Known(BuryTombstone(st, p, grave), p) <=> Known(st, p)
           /\ Alike(st, BuryTombstone(st, p, grave), {p})
           /\ \A c : Marked(st, c) => Marked(BuryTombstone(st, p, grave), c)
<1>1. CASE ~(Has(st, p) /\ st.rows[p].tomb)
  BY <1>1 DEF BuryTombstone, RowsKept, Alike
<1>2. CASE Has(st, p) /\ st.rows[p].tomb
  <2> DEFINE rows == UpdateRow(st, p, Buried(st.rows[p], p)).rows
             key == [q \in DOMAIN st.rows |-> IF q = p THEN grave ELSE q]
             new == Rekey(rows, key)
  <2>1. /\ DOMAIN rows = DOMAIN st.rows
        /\ \A q \in DOMAIN st.rows : q # p => rows[q] = st.rows[q]
        /\ rows[p] = Buried(st.rows[p], p)
    BY <1>2 DEF UpdateRow, Has, Sound, StoreType
  <2>2. st.rows[p] \in Entry
    BY <1>2 DEF Sound, StoreType, Has
  <2>3. Buried(st.rows[p], p).tomb
    BY <2>2 DEF Buried, Entry
  <2>4. /\ DOMAIN key = DOMAIN st.rows
        /\ key[p] = grave
        /\ \A q \in DOMAIN st.rows : q # p => key[q] = q
    BY <1>2 DEF Has
  <2>5. BuryTombstone(st, p, grave).rows = new
    BY <1>2 DEF BuryTombstone, Sound, StoreType
  <2> HIDE DEF rows, key
  <2>6. \A q, r \in DOMAIN key : key[q] = key[r] => q = r
    BY <2>4 DEF Has
  <2>7. /\ DOMAIN new = {key[q] : q \in DOMAIN key}
        /\ \A q \in DOMAIN key : new[key[q]] = rows[q]
    BY <2>6, RekeyKeeps, Zenon
  <2> HIDE DEF new
  <2>8. /\ \A q \in DOMAIN st.rows : q # p => q \in DOMAIN new /\ new[q] = st.rows[q]
        /\ \A q \in DOMAIN new : q = grave \/ (q # p /\ q \in DOMAIN st.rows)
        /\ new[grave].tomb
    BY <1>2, <2>1, <2>3, <2>4, <2>7 DEF Has
  <2>9. p # grave
    BY <1>2
  <2>10. /\ RowsKept(st, BuryTombstone(st, p, grave), files, {p})
         /\ Live(BuryTombstone(st, p, grave), p) <=> Live(st, p)
         /\ Known(BuryTombstone(st, p, grave), p) <=> Known(st, p)
    BY <1>2, <2>5, <2>8, <2>9 DEF RowsKept, Live, Known, Has
  <2>11. BuryTombstone(st, p, grave).ops = st.ops
    BY <1>2 DEF BuryTombstone, Sound, StoreType
  <2>12. Alike(st, BuryTombstone(st, p, grave), {p})
    BY <2>5, <2>8, <2>11 DEF Alike, Has, HasPendingContentChange
  <2>13. new[grave] = rows[p] /\ rows[p].stamp = st.rows[p].stamp
    BY <1>2, <2>1, <2>2, <2>4, <2>7 DEF Buried, Entry, Has
  <2>14. \A c : Marked(st, c) => Marked(BuryTombstone(st, p, grave), c)
    BY <1>2, <2>5, <2>8, <2>13 DEF Marked, Has
  <2> QED
    BY <2>10, <2>12, <2>14
<1> QED
  BY <1>1, <1>2

\* A row that moves leaves its key and is at the other as it was, dead or
\* alive; what was there goes, to its grave if iCloud knows it.
LEMMA RenameFace ==
    ASSUME NEW st, Sound(st), NEW old \in Top, NEW new \in Top, old # new,
           Live(st, old), NEW rootDirty, NEW updateSynced, NEW grave,
           grave[new] \in GravePath, ~Has(st, grave[new]), NEW files
    PROVE  LET moved == RenameTree(st, old, new, rootDirty, updateSynced, grave)
           IN  /\ RowsKept(st, moved, files, {old, new})
               /\ ~Has(moved, old) /\ Live(moved, new)
               /\ Alike(st, moved, {old, new})
               /\ Ready(st, old) => Ready(moved, new)
               /\ HasPendingContentChange(st, old) => HasPendingContentChange(moved, new)
               /\ \A c : Marked(st, c) => Marked(moved, c)
<1> DEFINE g == grave[new]
           moving    == Subtree(st, old)
           displaced == Subtree(st, new)
           buried    == {q \in displaced : st.rows[q].id # NoId}
           key == [q \in (DOMAIN st.rows \ displaced) \union buried |->
                       IF q \in buried THEN grave[q]
                       ELSE IF q \in moving THEN Rebase(q, old, new) ELSE q]
           moved(r, q) ==
               [r EXCEPT !.dirty = @ \/ (rootDirty /\ q = old),
                         !.synced = IF updateSynced /\ IsWithin(@, old)
                                    THEN Rebase(@, old, new) ELSE @]
           row == [q \in DOMAIN key |->
                       IF q \in buried THEN Buried(st.rows[q], q)
                       ELSE IF q \in moving THEN moved(st.rows[q], q) ELSE st.rows[q]]
           after == Rekey(row, key)
           result == RenameTree(st, old, new, rootDirty, updateSynced, grave)
<1>1. old \in DOMAIN st.rows /\ ~st.rows[old].tomb /\ g \notin DOMAIN st.rows
  BY DEF Live, Has
<1>2. DOMAIN st.rows \subseteq Top
  BY DEF Sound
<1>3. moving = {old} /\ displaced \subseteq {new} /\ displaced = {new} \intersect DOMAIN st.rows
  BY <1>1, <1>2, TopPaths DEF Subtree
<1>4. buried \subseteq {new} /\ buried \subseteq DOMAIN st.rows
  BY <1>3
<1>5. result.rows = after
  BY <1>3, Zenon DEF RenameTree
<1>6. Rebase(old, old, new) = new
  BY TopPaths
<1>7. /\ DOMAIN key = (DOMAIN st.rows \ {new}) \union buried
      /\ key[old] = new
      /\ \A q \in buried : key[q] = g
      /\ \A q \in DOMAIN st.rows \ {old, new} : key[q] = q
  BY <1>1, <1>3, <1>4, <1>6, SMTT(20)
<1>8. /\ row[old] = moved(st.rows[old], old)
      /\ \A q \in buried : row[q] = Buried(st.rows[q], q)
      /\ \A q \in DOMAIN st.rows \ {old, new} : row[q] = st.rows[q]
  BY <1>1, <1>3, <1>4, <1>7, Zenon
<1>9. ~moved(st.rows[old], old).tomb
  BY <1>1 DEF Sound, StoreType, Entry
<1>10. \A q \in buried : Buried(st.rows[q], q).tomb
  BY <1>4 DEF Sound, StoreType, Entry, Buried
<1>19. /\ moved(st.rows[old], old).stamp = st.rows[old].stamp
       /\ moved(st.rows[old], old).hydrated = st.rows[old].hydrated
       /\ st.rows[old].dirty => moved(st.rows[old], old).dirty
       /\ \A q \in buried : Buried(st.rows[q], q).stamp = st.rows[q].stamp
  BY <1>1, <1>4 DEF Sound, StoreType, Entry, Buried
<1> DEFINE ops == {[o EXCEPT !.path = IF IsWithin(@, old)
                                      THEN Rebase(@, old, new) ELSE @] : o \in st.ops}
<1>20. result.ops = ops
  BY <1>3 DEF RenameTree
<1>21. ASSUME NEW o \in st.ops, o.path \in Top
       PROVE  LET to == IF o.path = old THEN new ELSE o.path
              IN  \E x \in ops : x.path = to /\ x.op = o.op
  <2> DEFINE x == [o EXCEPT !.path = IF IsWithin(@, old) THEN Rebase(@, old, new) ELSE @]
  <2>1. o \in PendingOp
    BY DEF Sound, StoreType
  <2>2. x.path = (IF o.path = old THEN new ELSE o.path) /\ x.op = o.op
    BY <1>21, <2>1, TopPaths DEF PendingOp
  <2> QED
    BY <2>2, Zenon
<1> HIDE DEF moving, displaced, buried, key, moved, row, g, result, ops
<1>11. \A q, r \in DOMAIN key : key[q] = key[r] => q = r
  BY <1>1, <1>4, <1>7
<1>12. /\ DOMAIN after = {key[q] : q \in DOMAIN key}
       /\ \A q \in DOMAIN key : after[key[q]] = row[q]
  BY <1>11, RekeyKeeps, Zenon
<1> HIDE DEF after
<1>13. new \in DOMAIN after /\ ~after[new].tomb
  BY <1>1, <1>7, <1>8, <1>9, <1>12
<1>14. \A q \in DOMAIN st.rows \ {old, new} : q \in DOMAIN after /\ after[q] = st.rows[q]
  BY <1>7, <1>8, <1>12
<1>15. \A q \in DOMAIN after \ {new} : \/ q \in DOMAIN st.rows \ {old, new}
                                       \/ q = g /\ after[q].tomb
  BY <1>1, <1>4, <1>7, <1>8, <1>10, <1>12
<1>16. old \notin DOMAIN after
  BY <1>1, <1>15
<1>17. ~Has(result, old) /\ Live(result, new)
  BY <1>5, <1>13, <1>16 DEF Live, Has
<1>18. RowsKept(st, result, files, {old, new})
  BY <1>1, <1>5, <1>14, <1>15 DEF g, RowsKept, Live, Known, Has
<1>22. \A p \in Top \ {old, new} :
         HasPendingContentChange(st, p) => HasPendingContentChange(result, p)
  BY <1>20, <1>21 DEF HasPendingContentChange
<1>23. HasPendingContentChange(st, old) => HasPendingContentChange(result, new)
  BY <1>20, <1>21 DEF HasPendingContentChange
<1>24. Alike(st, result, {old, new})
  BY <1>5, <1>14, <1>22 DEF Alike, Has
<1>25. after[new] = moved(st.rows[old], old)
  BY <1>1, <1>7, <1>8, <1>12
<1>26. Ready(st, old) => Ready(result, new)
  BY <1>5, <1>17, <1>19, <1>25, Zenon DEF Ready
<1>27. ASSUME NEW c, Marked(st, c)  PROVE Marked(result, c)
  <2>1. ASSUME NEW q \in DOMAIN key  PROVE row[q].stamp <= c
    BY <1>1, <1>4, <1>7, <1>8, <1>19, <1>27 DEF Marked
  <2> QED
    BY <1>5, <1>12, <2>1 DEF Marked
<1> QED
  BY <1>17, <1>18, <1>23, <1>24, <1>26, <1>27 DEF result

\* The local side of a conflict goes on under another name, alive, and iCloud
\* does not know it.
LEMMA DetachFace ==
    ASSUME NEW st, Sound(st), NEW old \in Top, NEW new \in Top,
           Has(st, old), ~Has(st, new), NEW files
    PROVE  LET detached == DetachSubtreeAsConflict(st, old, new)
           IN  /\ RowsKept(st, detached, files, {old, new})
               /\ ~Has(detached, old) /\ Live(detached, new) /\ ~Known(detached, new)
               /\ Alike(st, detached, {old, new})
               /\ Full(st, old) => Ready(detached, new)
               /\ \A c : Marked(st, c) => Marked(detached, c)
<1> DEFINE detached(r) == [r EXCEPT !.id = NoId, !.etag = 0, !.synced = NoPath,
                                    !.dirty = TRUE, !.tomb = FALSE]
           moving == Subtree(st, old)
           row == [q \in DOMAIN st.rows |->
                      IF q \in moving THEN detached(st.rows[q]) ELSE st.rows[q]]
           key == [q \in DOMAIN st.rows |->
                      IF q \in moving THEN Rebase(q, old, new) ELSE q]
           after == Rekey(row, key)
           result == DetachSubtreeAsConflict(st, old, new)
<1>1. old \in DOMAIN st.rows /\ new \notin DOMAIN st.rows
  BY DEF Has
<1>2. moving = {old}
  BY <1>1, TopPaths DEF Subtree, Sound
<1>3. Rebase(old, old, new) = new
  BY TopPaths
<1>4. /\ DOMAIN key = DOMAIN st.rows
      /\ key[old] = new
      /\ \A q \in DOMAIN st.rows \ {old} : key[q] = q
  BY <1>1, <1>2, <1>3
<1>5. /\ row[old] = detached(st.rows[old])
      /\ \A q \in DOMAIN st.rows \ {old} : row[q] = st.rows[q]
  BY <1>1, <1>2, Zenon
<1>6. /\ ~detached(st.rows[old]).tomb /\ detached(st.rows[old]).id = NoId
      /\ detached(st.rows[old]).dirty
      /\ detached(st.rows[old]).hydrated = st.rows[old].hydrated
      /\ detached(st.rows[old]).stamp = st.rows[old].stamp
  BY <1>1 DEF Sound, StoreType, Entry
<1>7. result.rows = after
  BY DEF DetachSubtreeAsConflict, Sound, StoreType
<1> HIDE DEF moving, key, row, detached, result
<1>8. \A q, r \in DOMAIN key : key[q] = key[r] => q = r
  BY <1>1, <1>4
<1>9. /\ DOMAIN after = {key[q] : q \in DOMAIN key}
      /\ \A q \in DOMAIN key : after[key[q]] = row[q]
  BY <1>8, RekeyKeeps, ZenonT(40)
<1> HIDE DEF after
<1>10. /\ new \in DOMAIN after /\ ~after[new].tomb /\ after[new].id = NoId
       /\ after[new].dirty
       /\ after[new].hydrated = st.rows[old].hydrated
       /\ after[new].stamp = st.rows[old].stamp
  BY <1>1, <1>4, <1>5, <1>6, <1>9
<1>11. \A q \in DOMAIN st.rows \ {old} : q \in DOMAIN after /\ after[q] = st.rows[q]
  BY <1>4, <1>5, <1>9
<1>12. \A q \in DOMAIN after \ {new} : q \in DOMAIN st.rows \ {old}
  BY <1>4, <1>9
<1>13. ~Has(result, old) /\ Live(result, new) /\ ~Known(result, new)
  BY <1>1, <1>7, <1>10, <1>12 DEF Live, Has, Known
<1>14. RowsKept(st, result, files, {old, new})
  BY <1>1, <1>7, <1>11, <1>12 DEF RowsKept, Live, Known, Has
<1>15. result.ops = st.ops
  BY DEF result, DetachSubtreeAsConflict, Sound, StoreType
<1>16. Alike(st, result, {old, new})
  BY <1>7, <1>11, <1>15 DEF Alike, Has, HasPendingContentChange
<1>17. Full(st, old) => Ready(result, new)
  BY <1>7, <1>10 DEF Full, Ready, Live, Has
<1>18. ASSUME NEW c, Marked(st, c)  PROVE Marked(result, c)
  BY <1>1, <1>7, <1>10, <1>11, <1>12, <1>18 DEF Marked
<1> QED
  BY <1>13, <1>14, <1>16, <1>17, <1>18 DEF result
-----------------------------------------------------------------------------
(***************************************************************************)
(* What an actor sees stays true while another one works elsewhere.        *)
(***************************************************************************)
LEMMA ConflictNames == ConflictPath \intersect GravePath = {}
<1> SUFFICES ASSUME NEW c \in Conflict, NEW g \in Grave, Join(Root, c) = Join(Root, g)
             PROVE  FALSE
  BY DEF ConflictPath, GravePath
<1>1. Join(Root, c)[1] = c /\ Join(Root, g)[1] = g
  BY NameAssumption DEF Join, Root
<1>2. c = g
  BY <1>1
<1> QED
  BY <1>2, NameAssumption

LEMMA Alone == ASSUME NEW P, NEW Q, ~Meets(P, Q), NEW p \in Top, p \in P  PROVE p \notin Q
BY Places DEF Meets

LEMMA UserKept ==
    ASSUME IInv, UserSees, UNCHANGED user, NEW R, NEW D,
           RowsKept(db, db', DOMAIN disk, R), FilesKept(DOMAIN disk, DOMAIN disk', D),
           \A p \in R \union D : p \in Top => p \notin UserHolds,
           \A p \in R : p \in Top => p \notin UserWaits
    PROVE  UserSees'
<1>1. /\ user.pc # "idle" => user.path \in Top
      /\ user.op = "rename" => user.to \in Top
  BY DEF IInv, UserInv
<1>2. user.pc \in {"mirror", "record"} => user.path \in UserHolds /\ user.to \in UserHolds
  BY DEF UserHolds
<1>3. user.pc = "hydrate" => user.path \in UserWaits
  BY DEF UserWaits
<1>4. user.pc = "hydrate" => Known(db', user.path)
  BY <1>1, <1>3 DEF UserSees, RowsKept
<1>5. user.pc \in {"mirror", "record"} =>
        /\ Live(db, user.path) => Live(db', user.path)
        /\ user.path \in DOMAIN disk' <=> user.path \in DOMAIN disk
  BY <1>1, <1>2 DEF RowsKept, FilesKept
<1>6. user.pc \in {"mirror", "record"} /\ user.op = "rename" =>
        (user.to \in DOMAIN disk' <=> user.to \in DOMAIN disk)
  BY <1>1, <1>2 DEF FilesKept
<1> QED
  BY <1>4, <1>5, <1>6 DEF UserSees, HasFile

LEMMA UpKept ==
    ASSUME IInv, UpSees, UNCHANGED up, NEW R, NEW D,
           RowsKept(db, db', DOMAIN disk, R), FilesKept(DOMAIN disk, DOMAIN disk', D),
           \A p \in R \union D : p \in Top => p \notin UpHolds
    PROVE  UpSees'
<1>1. /\ up.pc \notin {"idle", "pass"} => up.path \in Top
      /\ \A t \in up.tombs : t.path \in Top
  BY DEF IInv, UpInv, UpState, FileNode
<1>2. \A t \in up.tombs : t.path \in UpHolds
  BY DEF UpHolds
<1>3. up.pc \in {"forget", "missing", "adopt", "clean"} \/ (up.pc = "move" /\ ~up.changed)
        => up.path \in UpHolds
  BY DEF UpHolds
<1>4. \A t \in up.tombs : ~Live(db', t.path)
  BY <1>1, <1>2 DEF UpSees, RowsKept
<1>5. up.pc = "missing" => up.path \notin DOMAIN disk'
  BY <1>1, <1>3 DEF UpSees, FilesKept, HasFile
<1>6. up.pc \in {"adopt", "clean"} \/ (up.pc = "move" /\ ~up.changed) =>
        Live(db', up.path) /\ up.path \in DOMAIN disk'
  BY <1>1, <1>3 DEF UpSees, RowsKept, FilesKept, HasFile
<1> QED
  BY <1>4, <1>5, <1>6 DEF UpSees, HasFile

LEMMA ListKept ==
    ASSUME IInv, ListSees, UNCHANGED list, NEW R, NEW D,
           RowsKept(db, db', DOMAIN disk, R), FilesKept(DOMAIN disk, DOMAIN disk', D),
           \A p \in R \union D : p \in Top => p \notin ListHolds
    PROVE  ListSees'
<1>1. /\ list.pc \notin {"idle", "items", "sweep", "unrow"} => list.node.path \in Top
      /\ list.pc \in {"conflict", "detach", "relocate", "rekey", "unrow"} => list.at \in Top
      /\ list.pc = "detach" => list.to \in Top
      /\ \A v \in list.sweep : v.path \in Top
  BY DEF IInv, ListInv, ListState, ItemNode
<1>2. /\ \A v \in list.sweep : v.path \in ListHolds
      /\ list.pc \notin {"idle", "items", "sweep"} =>
            list.node.path \in ListHolds /\ list.at \in ListHolds /\ list.to \in ListHolds
  BY DEF ListHolds
<1>3. list.pc \in {"conflict", "detach"} => Has(db', list.at)
  BY <1>1, <1>2 DEF ListSees, RowsKept
<1>4. list.pc = "detach" => ~Has(db', list.to) /\ list.at \notin DOMAIN disk'
  BY <1>1, <1>2, ConflictNames DEF ListSees, RowsKept, FilesKept, HasFile
<1>5. list.pc \in {"relocate", "rekey"} => Known(db', list.at)
  BY <1>1, <1>2 DEF ListSees, RowsKept
<1>6. /\ list.pc = "rekey" => list.node.path \in DOMAIN disk' /\ list.at \notin DOMAIN disk'
      /\ list.pc = "store" => list.node.path \in DOMAIN disk'
      /\ list.pc = "unrow" => list.at \notin DOMAIN disk'
  BY <1>1, <1>2 DEF ListSees, FilesKept, HasFile
<1>7. \A v \in list.sweep : Live(db', v.path) <=> Live(db, v.path)
  BY <1>1, <1>2 DEF RowsKept
<1> QED
  BY <1>3, <1>4, <1>5, <1>6, <1>7 DEF ListSees, HasFile

LEMMA DlKept ==
    ASSUME IInv, DlSees, UNCHANGED dl, NEW R,
           RowsKept(db, db', DOMAIN disk, R),
           \A p \in R : p \in Top => p \notin DlHolds
    PROVE  DlSees'
<1>1. dl.pc = "commit" => dl.path \in Top /\ dl.path \in DlHolds
  BY DEF IInv, DlInv, DlHolds
<1> QED
  BY <1>1 DEF DlSees, RowsKept

\* Where nothing changes, a file keeps its row and a row its file.
LEMMA PairsKept ==
    ASSUME IInv, Pairs, NEW R, NEW D,
           RowsKept(db, db', DOMAIN disk, R), FilesKept(DOMAIN disk, DOMAIN disk', D),
           \A p \in Top \ (R \union D) :
              /\ UserBrings(p) \/ ListBrings(p) => UserBrings(p)' \/ ListBrings(p)'
              /\ UserTakes(p) \/ ListTakes(p) => UserTakes(p)' \/ ListTakes(p)',
           \A p \in Top : p \in R \union D => FileNamed(p)' /\ RowFiled(p)'
    PROVE  Pairs'
<1> SUFFICES ASSUME NEW p \in Top, p \notin R \union D
             PROVE  FileNamed(p)' /\ RowFiled(p)'
  BY DEF Pairs
<1>1. FileNamed(p) /\ RowFiled(p)
  BY DEF Pairs
<1>2. /\ Live(db', p) <=> Live(db, p)
      /\ Known(db', p) => Known(db, p) \/ p \in DOMAIN disk
      /\ p \in DOMAIN disk' <=> p \in DOMAIN disk
  BY DEF RowsKept, FilesKept
<1>3. FileNamed(p)'
  BY <1>1, <1>2 DEF FileNamed, HasFile
<1>4. Wanted(db', p) => Wanted(db, p) \/ p \in DOMAIN disk
  BY <1>2 DEF Wanted
<1>5. RowFiled(p)'
  BY <1>1, <1>2, <1>4 DEF RowFiled, HasFile
<1> QED
  BY <1>3, <1>5
-----------------------------------------------------------------------------
(***************************************************************************)
(* A step of one actor: it changes rows R and files D that it holds before *)
(* or after the step, so no other actor holds them.                        *)
(***************************************************************************)
LEMMA UserTurn ==
    ASSUME IInv, Undisturbed, Undisturbed', Paired, UNCHANGED <<up, list, dl>>,
           NEW R, NEW D, R \union D \subseteq UserHolds \union UserHolds',
           RowsKept(db, db', DOMAIN disk, R), FilesKept(DOMAIN disk, DOMAIN disk', D),
           \A p \in Top \ (R \union D) : /\ UserBrings(p) => UserBrings(p)'
                                         /\ UserTakes(p) => UserTakes(p)',
           \A p \in Top : p \in R \union D => FileNamed(p)' /\ RowFiled(p)',
           UserSees'
    PROVE  Paired'
<1>1. /\ ~Meets(UserHolds, UpHolds \union ListHolds \union DlHolds)
      /\ ~Meets(UserHolds', UpHolds \union ListHolds \union DlHolds)
  BY DEF Undisturbed, Overlap, UpHolds, ListHolds, DlHolds
<1>2. \A p \in R \union D : p \in Top => p \notin UpHolds \union ListHolds \union DlHolds
  BY <1>1, Alone
<1>3. UpSees' /\ ListSees' /\ DlSees'
  BY <1>2, UpKept, ListKept, DlKept DEF Paired
<1>4. \A p : (ListBrings(p) <=> ListBrings(p)') /\ (ListTakes(p) <=> ListTakes(p)')
  BY DEF ListBrings, ListTakes
<1>5. Pairs'
  BY <1>4, PairsKept DEF Paired
<1> QED
  BY <1>3, <1>5 DEF Paired

LEMMA UpTurn ==
    ASSUME IInv, Undisturbed, Undisturbed', Paired, UNCHANGED <<user, list, dl>>,
           NEW R, NEW D, R \union D \subseteq UpHolds \union UpHolds',
           RowsKept(db, db', DOMAIN disk, R), FilesKept(DOMAIN disk, DOMAIN disk', D),
           \A p \in Top : p \in R \union D => FileNamed(p)' /\ RowFiled(p)',
           \A p \in R : p \in Top => p \notin UserWaits,
           UpSees'
    PROVE  Paired'
<1>1. /\ ~Meets(UserHolds, UpHolds \union ListHolds \union DlHolds)
      /\ ~Meets(UserHolds, UpHolds' \union ListHolds \union DlHolds)
      /\ ~Meets(UpHolds, ListHolds \union DlHolds)
      /\ ~Meets(UpHolds', ListHolds \union DlHolds)
  BY DEF Undisturbed, Overlap, UserHolds, ListHolds, DlHolds
<1>2. \A p \in R \union D : p \in Top => p \notin UserHolds \union ListHolds \union DlHolds
  BY <1>1, Alone
<1>3. UserSees' /\ ListSees' /\ DlSees'
  BY <1>2, UserKept, ListKept, DlKept DEF Paired
<1>4. \A p : /\ (ListBrings(p) <=> ListBrings(p)') /\ (ListTakes(p) <=> ListTakes(p)')
             /\ (UserBrings(p) <=> UserBrings(p)') /\ (UserTakes(p) <=> UserTakes(p)')
  BY DEF ListBrings, ListTakes, UserBrings, UserTakes
<1>5. Pairs'
  BY <1>4, PairsKept DEF Paired
<1> QED
  BY <1>3, <1>5 DEF Paired

LEMMA ListTurn ==
    ASSUME IInv, Undisturbed, Undisturbed', Paired, UNCHANGED <<user, up, dl>>,
           NEW R, NEW D, R \union D \subseteq ListHolds \union ListHolds',
           RowsKept(db, db', DOMAIN disk, R), FilesKept(DOMAIN disk, DOMAIN disk', D),
           \A p \in Top \ (R \union D) : /\ ListBrings(p) => ListBrings(p)'
                                         /\ ListTakes(p) => ListTakes(p)',
           \A p \in Top : p \in R \union D => FileNamed(p)' /\ RowFiled(p)',
           ListSees'
    PROVE  Paired'
<1>1. /\ ~Meets(UserHolds, UpHolds \union ListHolds \union DlHolds)
      /\ ~Meets(UserHolds, UpHolds \union ListHolds' \union DlHolds)
      /\ ~Meets(UserWaits, ListHolds) /\ ~Meets(UserWaits, ListHolds')
      /\ ~Meets(UpHolds, ListHolds \union DlHolds)
      /\ ~Meets(UpHolds, ListHolds' \union DlHolds)
      /\ ~Meets(ListHolds, DlHolds) /\ ~Meets(ListHolds', DlHolds)
  BY DEF Undisturbed, Overlap, UserHolds, UpHolds, DlHolds, UserWaits
<1>2. \A p \in R \union D :
        p \in Top => p \notin UserHolds \union UserWaits \union UpHolds \union DlHolds
  BY <1>1, Alone
<1>3. UserSees' /\ UpSees' /\ DlSees'
  BY <1>2, UserKept, UpKept, DlKept DEF Paired
<1>4. \A p : (UserBrings(p) <=> UserBrings(p)') /\ (UserTakes(p) <=> UserTakes(p)')
  BY DEF UserBrings, UserTakes
<1>5. Pairs'
  BY <1>4, PairsKept DEF Paired
<1> QED
  BY <1>3, <1>5 DEF Paired

LEMMA DlTurn ==
    ASSUME IInv, Undisturbed, Undisturbed', Paired, UNCHANGED <<user, up, list>>,
           NEW D, D \subseteq DlHolds \union DlHolds',
           RowsKept(db, db', DOMAIN disk, {}), FilesKept(DOMAIN disk, DOMAIN disk', D),
           \A p \in Top : p \in D => FileNamed(p)' /\ RowFiled(p)',
           DlSees'
    PROVE  Paired'
<1>1. /\ ~Meets(UserHolds, UpHolds \union ListHolds \union DlHolds)
      /\ ~Meets(UserHolds, UpHolds \union ListHolds \union DlHolds')
      /\ ~Meets(UpHolds, ListHolds \union DlHolds)
      /\ ~Meets(UpHolds, ListHolds \union DlHolds')
      /\ ~Meets(ListHolds, DlHolds) /\ ~Meets(ListHolds, DlHolds')
  BY DEF Undisturbed, Overlap, UserHolds, UpHolds, ListHolds
<1>2. \A p \in D : p \in Top => p \notin UserHolds \union UpHolds \union ListHolds
  <2>1. ASSUME NEW p \in D, p \in Top  PROVE p \notin UserHolds \union UpHolds \union ListHolds
    BY <1>1, <2>1, Places DEF Meets
  <2> QED
    BY <2>1
<1>3. UserSees' /\ UpSees' /\ ListSees'
  BY <1>2, UserKept, UpKept, ListKept DEF Paired
<1>4. \A p : /\ (ListBrings(p) <=> ListBrings(p)') /\ (ListTakes(p) <=> ListTakes(p)')
             /\ (UserBrings(p) <=> UserBrings(p)') /\ (UserTakes(p) <=> UserTakes(p)')
  BY DEF ListBrings, ListTakes, UserBrings, UserTakes
<1>5. Pairs'
  BY <1>4, PairsKept DEF Paired
<1> QED
  BY <1>3, <1>5 DEF Paired
-----------------------------------------------------------------------------
\* Steps that change no row and no file.
LEMMA Untouched ==
    ASSUME UNCHANGED <<db, disk>>
    PROVE  /\ RowsKept(db, db', DOMAIN disk, {})
           /\ FilesKept(DOMAIN disk, DOMAIN disk', {})
BY SameRows DEF FilesKept

LEMMA SameDisk ==
    ASSUME UNCHANGED disk, NEW D
    PROVE  FilesKept(DOMAIN disk, DOMAIN disk', D)
BY DEF FilesKept

\* ---- The user's calls.
LEMMA PairsUserBegin ==
    ASSUME IInv, Undisturbed, Undisturbed', Paired, UserBegin
    PROVE  Paired'
<1>1. UNCHANGED <<db, disk, up, list, dl>> /\ user.pc = "idle"
  BY DEF UserBegin
<1>2. PICK p \in UserPath : \/ BeginWrite(p) \/ BeginCreate(p) \/ BeginUnlink(p)
                            \/ \E q \in UserPath : BeginRename(p, q)
                            \/ BeginTouch(p)
  BY DEF UserBegin
<1>3. UserSees' /\ user'.pc \in {"hydrate", "mirror"}
  <2>1. CASE BeginWrite(p)
    <3>1. Placeholder(p) => Known(db, p)
      BY DEF Placeholder, Known
    <3>2. /\ user'.pc = IF Placeholder(p) THEN "hydrate" ELSE "mirror"
          /\ user'.op = "write" /\ user'.path = p /\ user'.known = Live(db, p)
      BY <2>1 DEF BeginWrite, UserIdle
    <3>3. user'.pc = "hydrate" => Placeholder(p)
      BY <3>2
    <3>4. Known(db, p) => Live(db, p)
      BY DEF Known
    <3>5. user'.known <=> Live(db, p)
      BY <3>2
    <3> QED
      BY <1>1, <3>1, <3>2, <3>3, <3>4, <3>5 DEF UserSees
  <2>2. CASE BeginCreate(p)
    BY <1>1, <2>2 DEF BeginCreate, UserIdle, UserSees
  <2>3. CASE BeginUnlink(p)
    BY <1>1, <2>3 DEF BeginUnlink, UserIdle, UserSees
  <2>4. CASE \E q \in UserPath : BeginRename(p, q)
    BY <1>1, <2>4 DEF BeginRename, UserIdle, UserSees
  <2>5. CASE BeginTouch(p)
    BY <1>1, <2>5 DEF BeginTouch, UserIdle, UserSees
  <2> QED
    BY <1>2, <2>1, <2>2, <2>3, <2>4, <2>5
<1>4. \A q : ~UserBrings(q) /\ ~UserTakes(q)
  BY <1>1 DEF UserBrings, UserTakes
<1> QED
  BY <1>1, <1>3, <1>4, Untouched, UserTurn

LEMMA PairsUserWait ==
    ASSUME IInv, Undisturbed, Undisturbed', Paired, UserHydrated \/ UserGivesUp
    PROVE  Paired'
<1>1. UNCHANGED <<db, disk, up, list, dl>> /\ user.pc = "hydrate"
  BY DEF UserHydrated, UserGivesUp
<1>2. user.op = "write" /\ user.known /\ Known(db, user.path)
  BY <1>1 DEF Paired, UserSees
<1>3. UserSees'
  <2>1. CASE UserHydrated
    BY <1>1, <1>2, <2>1 DEF UserHydrated, UserSees, Known, IInv, UserInv, UserState
  <2>2. CASE UserGivesUp
    BY <2>2 DEF UserGivesUp, UserIdle, UserSees
  <2> QED
    BY <2>1, <2>2
<1>4. \A q : ~UserBrings(q) /\ ~UserTakes(q)
  BY <1>1 DEF UserBrings, UserTakes
<1> QED
  BY <1>1, <1>3, <1>4, Untouched, UserTurn

LEMMA PairsUserWrites ==
    ASSUME IInv, Undisturbed, Undisturbed', Paired, UserWrites
    PROVE  Paired'
<1>0. PICK p : p = user.path
  OBVIOUS
<1>1. /\ UNCHANGED <<db, up, list, dl>> /\ user.pc = "mirror" /\ user.op = "write"
      /\ DOMAIN disk' = DOMAIN disk \union {p}
  BY <1>0 DEF UserWrites, Write
<1>2. /\ user'.pc = "record" /\ user'.op = "write" /\ user'.path = p
      /\ user'.known = user.known
  BY <1>0, <1>1 DEF UserWrites, IInv, UserInv, UserState
<1>3. UserSees'
  BY <1>0, <1>1, <1>2 DEF Paired, UserSees
<1>4. UserBrings(p)' /\ HasFile(p)'
  BY <1>1, <1>2 DEF UserBrings, HasFile
<1>5. FilesKept(DOMAIN disk, DOMAIN disk', {p})
  BY <1>1 DEF FilesKept
<1>6. RowsKept(db, db', DOMAIN disk, {})
  BY <1>1, SameRows
<1>7. \A q : ~UserBrings(q) /\ ~UserTakes(q)
  BY <1>1 DEF UserBrings, UserTakes
<1>8. FileNamed(p)' /\ RowFiled(p)'
  BY <1>4 DEF FileNamed, RowFiled
<1>9. {} \union {p} \subseteq UserHolds
  BY <1>0, <1>1 DEF UserHolds
<1> QED
  BY <1>1, <1>3, <1>5, <1>6, <1>7, <1>8, <1>9, UserTurn

LEMMA PairsUserCreates ==
    ASSUME IInv, Undisturbed, Undisturbed', Paired, UserCreates
    PROVE  Paired'
<1>0. PICK p, g : p = user.path /\ g = Pick(FreeGraves)
  OBVIOUS
<1>1. /\ UNCHANGED <<up, list, dl>> /\ user.pc = "mirror" /\ user.op = "create"
      /\ db' = BuryTombstone(db, p, g)
      /\ DOMAIN disk' = DOMAIN disk \union {p}
  BY <1>0 DEF UserCreates, Write
<1>2. /\ user'.pc = "record" /\ user'.op = "create" /\ user'.path = p
      /\ user'.known = user.known
  BY <1>0, <1>1 DEF UserCreates, IInv, UserInv, UserState
<1>3. g \in FreeGraves /\ p \in Top /\ Sound(db)
  BY <1>0, <1>1, Picked DEF UserCreates, IInv, UserInv, DbInv
<1>4. g \in Top /\ g \in GravePath /\ ~Has(db, g)
  BY <1>3, Names DEF FreeGraves, GravePath, Has
<1>5. RowsKept(db, db', DOMAIN disk, {p})
  BY <1>1, <1>3, <1>4, BuryFace
<1>6. UserSees'
  BY <1>1, <1>2 DEF Paired, UserSees
<1>7. UserBrings(p)' /\ HasFile(p)'
  BY <1>1, <1>2 DEF UserBrings, HasFile
<1>8. FilesKept(DOMAIN disk, DOMAIN disk', {p})
  BY <1>1 DEF FilesKept
<1>9. \A q : ~UserBrings(q) /\ ~UserTakes(q)
  BY <1>1 DEF UserBrings, UserTakes
<1>10. FileNamed(p)' /\ RowFiled(p)'
  BY <1>7 DEF FileNamed, RowFiled
<1>11. {p} \union {p} \subseteq UserHolds
  BY <1>0, <1>1 DEF UserHolds
<1> QED
  BY <1>1, <1>5, <1>6, <1>8, <1>9, <1>10, <1>11, UserTurn

LEMMA PairsUserRemoves ==
    ASSUME IInv, Undisturbed, Undisturbed', Paired, UserRemoves
    PROVE  Paired'
<1>0. PICK p : p = user.path
  OBVIOUS
<1>1. /\ UNCHANGED <<db, up, list, dl>> /\ user.pc = "mirror" /\ user.op = "unlink"
      /\ DOMAIN disk' = DOMAIN disk \ {p}
  BY <1>0 DEF UserRemoves, Remove
<1>2. user'.pc = "record" /\ user'.op = "unlink" /\ user'.path = p
  BY <1>0, <1>1 DEF UserRemoves, IInv, UserInv, UserState
<1>3. UserTakes(p)' /\ ~HasFile(p)'
  BY <1>1, <1>2 DEF UserTakes, HasFile
<1>4. UserSees'
  BY <1>0, <1>2, <1>3 DEF UserSees
<1>5. FilesKept(DOMAIN disk, DOMAIN disk', {p})
  BY <1>1 DEF FilesKept
<1>6. RowsKept(db, db', DOMAIN disk, {})
  BY <1>1, SameRows
<1>7. \A q : ~UserBrings(q) /\ ~UserTakes(q)
  BY <1>1 DEF UserBrings, UserTakes
<1>8. FileNamed(p)' /\ RowFiled(p)'
  BY <1>3 DEF FileNamed, RowFiled
<1>9. {} \union {p} \subseteq UserHolds
  BY <1>0, <1>1 DEF UserHolds
<1> QED
  BY <1>1, <1>4, <1>5, <1>6, <1>7, <1>8, <1>9, UserTurn

\* A row whose file must be there has it, unless the one who holds the path
\* has just taken it away.
LEMMA Present ==
    ASSUME Pairs, NEW p \in Top, Wanted(db, p), ~UserTakes(p), ~ListTakes(p)
    PROVE  p \in DOMAIN disk
BY DEF Pairs, RowFiled, HasFile

LEMMA ConflictsApart == UserPath \intersect ConflictPath = {}
<1> SUFFICES ASSUME NEW n \in Base, NEW c \in Conflict, Join(Root, n) = Join(Root, c)
             PROVE  FALSE
  BY DEF UserPath, ConflictPath
<1>1. Join(Root, c)[1] = c /\ Join(Root, n)[1] = n
  BY NameAssumption DEF Join, Root, Base
<1>2. c = n
  BY <1>1
<1> QED
  BY <1>2 DEF Base

\* The file is there: the row read before it went is still alive, and nobody
\* else could take the file meanwhile.
LEMMA PairsUserMoves ==
    ASSUME IInv, Undisturbed, Undisturbed', Paired, UserMoves
    PROVE  Paired'
<1>0. PICK p, q : p = user.path /\ q = user.to
  OBVIOUS
<1>1. UNCHANGED <<db, up, list, dl>> /\ user.pc = "mirror" /\ user.op = "rename"
  BY DEF UserMoves
<1>2. /\ Live(db, p) /\ p # q /\ p \in UserPath
      /\ p \in Top /\ q \in Top
  BY <1>0, <1>1 DEF Paired, UserSees, IInv, UserInv
<1>3. Wanted(db, p)
  BY <1>2, ConflictsApart DEF Wanted
<1>4. p \in UserHolds /\ q \in UserHolds
  BY <1>0, <1>1 DEF UserHolds
<1>5. ~ListTakes(p)
  <2>1. p \notin UpHolds \union ListHolds \union DlHolds
    BY <1>2, <1>4, Alone DEF Undisturbed, Overlap
  <2> QED
    BY <2>1 DEF ListTakes, ListHolds
<1>6. \A r : ~UserBrings(r) /\ ~UserTakes(r)
  BY <1>1 DEF UserBrings, UserTakes
<1>7. p \in DOMAIN disk
  BY <1>2, <1>3, <1>5, <1>6, Present DEF Paired
<1>8. /\ DOMAIN disk' = (DOMAIN disk \ {p}) \union {q}
      /\ user' = [user EXCEPT !.pc = "record"]
  BY <1>0, <1>1, <1>7 DEF UserMoves, Moved
<1>9. user'.pc = "record" /\ user'.op = "rename" /\ user'.path = p /\ user'.to = q
  BY <1>0, <1>1, <1>8 DEF IInv, UserInv, UserState
<1>10. /\ UserTakes(p)' /\ ~HasFile(p)'
       /\ UserBrings(q)' /\ HasFile(q)'
  BY <1>2, <1>8, <1>9 DEF UserTakes, UserBrings, HasFile
<1>11. UserSees'
  BY <1>0, <1>1, <1>2, <1>9, <1>10 DEF UserSees
<1>12. FilesKept(DOMAIN disk, DOMAIN disk', {p, q})
  BY <1>8 DEF FilesKept
<1>13. RowsKept(db, db', DOMAIN disk, {})
  BY <1>1, SameRows
<1>14. FileNamed(p)' /\ RowFiled(p)' /\ FileNamed(q)' /\ RowFiled(q)'
  BY <1>10 DEF FileNamed, RowFiled
<1> QED
  BY <1>1, <1>4, <1>6, <1>11, <1>12, <1>13, <1>14, UserTurn

LEMMA PairsUserTouches ==
    ASSUME IInv, Undisturbed, Undisturbed', Paired, UserTouches
    PROVE  Paired'
<1>1. /\ UNCHANGED <<db, up, list, dl>> /\ user.pc = "mirror" /\ user.op = "touch"
      /\ DOMAIN disk' = DOMAIN disk
  BY DEF UserTouches
<1>2. \/ user' = [user EXCEPT !.pc = "record", !.stamp = clock']
      \/ user' = UserIdle
  BY DEF UserTouches
<1>3. user'.op \in {"touch", "none"} /\ user'.pc \in {"record", "idle"}
  <2>1. DOMAIN user = {"pc", "op", "path", "to", "known", "stamp"}
    BY DEF IInv, UserInv, UserState
  <2>2. CASE user' = [user EXCEPT !.pc = "record", !.stamp = clock']
    BY <1>1, <2>1, <2>2
  <2>3. CASE user' = UserIdle
    BY <2>3 DEF UserIdle
  <2> QED
    BY <1>2, <2>2, <2>3
<1>4. UserSees'
  BY <1>3 DEF UserSees
<1>5. \A r : ~UserBrings(r) /\ ~UserTakes(r)
  BY <1>1 DEF UserBrings, UserTakes
<1>6. RowsKept(db, db', DOMAIN disk, {}) /\ FilesKept(DOMAIN disk, DOMAIN disk', {})
  BY <1>1, SameRows DEF FilesKept
<1> QED
  BY <1>1, <1>4, <1>5, <1>6, UserTurn

LEMMA PairsUserRecords ==
    ASSUME IInv, Undisturbed, Undisturbed', Paired, UserRecords
    PROVE  Paired'
<1>0. PICK p : p = user.path
  OBVIOUS
<1>1. /\ UNCHANGED <<disk, up, list, dl>> /\ user.pc = "record"
      /\ user.op \in {"write", "create"}
  BY DEF UserRecords
<1>2. p \in Top /\ Sound(db)
  BY <1>0, <1>1 DEF IInv, UserInv, DbInv
<1>3. \A r : ~UserTakes(r) /\ (UserBrings(r) => r = p)
  BY <1>0, <1>1 DEF UserBrings, UserTakes
<1>4. {p} \union {p} \subseteq UserHolds
  BY <1>0, <1>1 DEF UserHolds
<1>5. FilesKept(DOMAIN disk, DOMAIN disk', {p})
  BY <1>1, SameDisk
<1>6. UserSees'
  <2>1. user' = UserIdle \/ user' = [user EXCEPT !.pc = "queue"]
    BY DEF UserRecords
  <2>2. user'.op # "create" \/ (user'.known = user.known /\ user.op = "create")
    BY <2>1 DEF UserIdle, IInv, UserInv, UserState
  <2>3. user'.pc \in {"idle", "queue"}
    BY <2>1 DEF UserIdle, IInv, UserInv, UserState
  <2> QED
    BY <2>2, <2>3 DEF UserSees, Paired
<1>7. CASE p \in DOMAIN disk
  <2>1. db' = ContentRecorded
    BY <1>0, <1>7 DEF UserRecords
  <2>2. RowsKept(db, db', DOMAIN disk, {p}) /\ Live(db', p)
    <3>1. CASE user.known
      <4> DEFINE row == [db.rows[p] EXCEPT !.dirty = TRUE, !.tomb = FALSE,
                             !.stamp = disk[p].stamp, !.hydrated = @ \/ TRUE]
      <4>1. db' = UpdateRow(db, p, row)
        BY <1>0, <2>1, <3>1 DEF ContentRecorded, MarkDirty
      <4>2. Live(db, p)
        BY <1>0, <1>1, <3>1 DEF Paired, UserSees
      <4>3. ~row.tomb
        BY <1>2, <4>2 DEF Sound, StoreType, Entry, Live, Has
      <4> HIDE DEF row
      <4> QED
        BY <1>2, <4>1, <4>2, <4>3, UpdateRowFace, Zenon DEF Live
    <3>2. CASE ~user.known
      <4>1. db' = UpsertEntry(db, p, Local("file", disk[p].stamp))
        BY <1>0, <2>1, <3>2 DEF ContentRecorded
      <4>2. ~Local("file", disk[p].stamp).tomb
        BY DEF Local
      <4> QED
        BY <1>2, <4>1, <4>2, UpsertFace, Zenon
    <3> QED
      BY <3>1, <3>2
  <2>3. FileNamed(p)' /\ RowFiled(p)'
    BY <1>1, <1>7, <2>2 DEF FileNamed, RowFiled, HasFile
  <2> QED
    BY <1>1, <1>3, <1>4, <1>5, <1>6, <2>2, <2>3, UserTurn
<1>8. CASE p \notin DOMAIN disk
  <2>1. UNCHANGED db
    BY <1>0, <1>8 DEF UserRecords
  <2>2. RowsKept(db, db', DOMAIN disk, {p})
    BY <2>1, SameRows
  <2>3. RowFiled(p)
    BY <1>2 DEF Paired, Pairs
  <2>4. FileNamed(p)' /\ RowFiled(p)'
    BY <1>1, <1>3, <1>8, <2>1, <2>3 DEF FileNamed, RowFiled, HasFile, ListTakes
  <2> QED
    BY <1>1, <1>3, <1>4, <1>5, <1>6, <2>2, <2>4, UserTurn
<1> QED
  BY <1>7, <1>8

LEMMA PairsUserForgets ==
    ASSUME IInv, Undisturbed, Undisturbed', Paired, UserForgets
    PROVE  Paired'
<1>0. PICK p : p = user.path
  OBVIOUS
<1>1. /\ UNCHANGED <<disk, up, list, dl>> /\ user.pc = "record" /\ user.op = "unlink"
      /\ \/ db' = MarkTombstone(db, p) /\ user' = [user EXCEPT !.pc = "queue"]
         \/ db' = RemoveEntry(db, p) /\ user' = UserIdle
  BY <1>0 DEF UserForgets
<1>2. p \in Top /\ Sound(db) /\ p \notin DOMAIN disk
  BY <1>0, <1>1 DEF IInv, UserInv, DbInv, Paired, UserSees, HasFile
<1>3. \A r : ~UserBrings(r) /\ (UserTakes(r) => r = p)
  BY <1>0, <1>1 DEF UserBrings, UserTakes
<1>4. {p} \union {} \subseteq UserHolds
  BY <1>0, <1>1 DEF UserHolds
<1>5. RowsKept(db, db', DOMAIN disk, {p}) /\ ~Live(db', p)
  <2>1. CASE db' = MarkTombstone(db, p)
    <3> DEFINE row == [db.rows[p] EXCEPT !.dirty = TRUE, !.tomb = TRUE]
    <3>1. db' = UpdateRow(db, p, row)
      BY <2>1 DEF MarkTombstone
    <3>2. Has(db, p) => row.tomb
      BY <1>2 DEF Sound, StoreType, Entry, Has
    <3> HIDE DEF row
    <3> QED
      BY <1>2, <3>1, <3>2, UpdateRowFace, Zenon
  <2>2. CASE db' = RemoveEntry(db, p)
    BY <1>2, <2>2, RemoveFace, Zenon DEF Live
  <2> QED
    BY <1>1, <2>1, <2>2
<1>6. UserSees'
  <2>1. DOMAIN user = {"pc", "op", "path", "to", "known", "stamp"}
    BY DEF IInv, UserInv, UserState
  <2>2. user'.op # "create" /\ user'.pc \in {"idle", "queue"}
    BY <1>1, <2>1 DEF UserIdle
  <2> QED
    BY <2>2 DEF UserSees
<1>7. FileNamed(p)' /\ RowFiled(p)'
  BY <1>1, <1>2, <1>5 DEF FileNamed, RowFiled, HasFile, Wanted, Known
<1>8. FilesKept(DOMAIN disk, DOMAIN disk', {})
  BY <1>1, SameDisk
<1> QED
  BY <1>1, <1>3, <1>4, <1>5, <1>6, <1>7, <1>8, UserTurn

LEMMA PairsUserRenames ==
    ASSUME IInv, Undisturbed, Undisturbed', Paired, UserRenames
    PROVE  Paired'
<1>0. PICK p, q, g : p = user.path /\ q = user.to /\ g = Pick(FreeGraves)
  OBVIOUS
<1>1. /\ UNCHANGED <<disk, up, list, dl>> /\ user.pc = "record" /\ user.op = "rename"
      /\ db' = RenameTree(db, p, q, TRUE, FALSE, [r \in {q} |-> g])
      /\ user' = UserIdle
  BY <1>0 DEF UserRenames
<1>2. /\ p \in Top /\ q \in Top /\ p # q /\ Sound(db) /\ Live(db, p)
      /\ p \notin DOMAIN disk /\ q \in DOMAIN disk
  BY <1>0, <1>1 DEF IInv, UserInv, DbInv, Paired, UserSees, HasFile
<1>3. g \in FreeGraves
  BY <1>0, Picked DEF UserRenames
<1>4. g \in GravePath /\ ~Has(db, g)
  BY <1>3 DEF FreeGraves, GravePath, Has
<1>5. RowsKept(db, db', DOMAIN disk, {p, q}) /\ ~Has(db', p) /\ Live(db', q)
  <2>1. PICK grave : grave = [r \in {q} |-> g]
    BY Zenon
  <2>2. grave[q] = g
    BY <2>1
  <2>3. db' = RenameTree(db, p, q, TRUE, FALSE, grave)
    BY <1>1, <2>1
  <2> QED
    BY <1>2, <1>4, <2>2, <2>3, RenameFace, Zenon
<1>6. \A r : (UserBrings(r) => r = q) /\ (UserTakes(r) => r = p)
  BY <1>0, <1>1 DEF UserBrings, UserTakes
<1>7. {p, q} \union {} \subseteq UserHolds
  BY <1>0, <1>1 DEF UserHolds
<1>8. UserSees'
  BY <1>1 DEF UserIdle, UserSees
<1>9. FileNamed(p)' /\ RowFiled(p)' /\ FileNamed(q)' /\ RowFiled(q)'
  BY <1>1, <1>2, <1>5, Zenon DEF FileNamed, RowFiled, HasFile, Wanted, Known, Live
<1>10. FilesKept(DOMAIN disk, DOMAIN disk', {})
  BY <1>1, SameDisk
<1>11. UNCHANGED <<up, list, dl>>
  BY <1>1
<1> QED
  BY <1>5, <1>6, <1>7, <1>8, <1>9, <1>10, <1>11, UserTurn

\* A new time, and a queued operation, change nothing here.
LEMMA PairsUserRecordsTime ==
    ASSUME IInv, Undisturbed, Undisturbed', Paired, UserRecordsTime
    PROVE  Paired'
<1>1. /\ UNCHANGED <<disk, up, list, dl>> /\ user.pc = "record" /\ user.op = "touch"
      /\ db' = IF Live(db, user.path)
               THEN MarkDirty(db, user.path, user.stamp, FALSE) ELSE db
      /\ user' = UserIdle
  BY DEF UserRecordsTime
<1>2. RowsKept(db, db', DOMAIN disk, {})
  <2>0. PICK p, s : p = user.path /\ s = user.stamp
    OBVIOUS
  <2>1. CASE Live(db, p)
    <3> DEFINE row == [db.rows[p] EXCEPT !.dirty = TRUE, !.tomb = FALSE,
                           !.stamp = s, !.hydrated = @ \/ FALSE]
    <3>1. db' = UpdateRow(db, p, row)
      BY <1>1, <2>0, <2>1 DEF MarkDirty
    <3>2. Sound(db)
      BY DEF IInv, DbInv
    <3>3. row.tomb = db.rows[p].tomb /\ row.id = db.rows[p].id
      BY <2>1, <3>2, Zenon DEF Sound, StoreType, Entry, Live, Has
    <3> HIDE DEF row
    <3> QED
      BY <3>1, <3>2, <3>3, UpdateRowQuiet
  <2>2. CASE ~Live(db, p)
    BY <1>1, <2>0, <2>2, SameRows
  <2> QED
    BY <2>1, <2>2
<1>3. UserSees'
  BY <1>1 DEF UserIdle, UserSees
<1>4. \A r : ~UserBrings(r) /\ ~UserTakes(r)
  BY <1>1 DEF UserBrings, UserTakes
<1>5. FilesKept(DOMAIN disk, DOMAIN disk', {})
  BY <1>1, SameDisk
<1>6. UNCHANGED <<up, list, dl>>
  BY <1>1
<1> QED
  BY <1>2, <1>3, <1>4, <1>5, <1>6, UserTurn

LEMMA QueueOpRows ==
    ASSUME NEW st, Sound(st), NEW p, NEW op \in {"create", "update", "mkdir", "delete"}
    PROVE  QueueOp(st, op, p).rows = st.rows
BY DEF QueueOp, Sound, StoreType

LEMMA PairsUserQueues ==
    ASSUME IInv, Undisturbed, Undisturbed', Paired, UserQueues
    PROVE  Paired'
<1>0. PICK p, op : p = user.path /\ op = CASE user.op = "write"  -> "update"
                                           [] user.op = "create" -> "create"
                                           [] user.op = "unlink" -> "delete"
  OBVIOUS
<1>1. /\ UNCHANGED <<disk, up, list, dl>> /\ user.pc = "queue"
      /\ db' = QueueOp(db, op, p) /\ user' = UserIdle
  BY <1>0 DEF UserQueues
<1>2. op \in {"update", "create", "delete"} /\ Sound(db)
  BY <1>0, <1>1 DEF IInv, UserInv, DbInv
<1>3. RowsKept(db, db', DOMAIN disk, {})
  BY <1>1, <1>2, QueueOpRows, SameRows
<1>4. UserSees'
  BY <1>1 DEF UserIdle, UserSees
<1>5. \A r : ~UserBrings(r) /\ ~UserTakes(r)
  BY <1>1 DEF UserBrings, UserTakes
<1>6. FilesKept(DOMAIN disk, DOMAIN disk', {})
  BY <1>1, SameDisk
<1> QED
  BY <1>1, <1>3, <1>4, <1>5, <1>6, UserTurn
-----------------------------------------------------------------------------
\* ---- The upload pass.
LEMMA UpFields ==
    ASSUME IInv
    PROVE  /\ DOMAIN up = {"pc", "tombs", "todo", "path", "node", "changed", "before"}
           /\ UpPass.pc = "pass" /\ UpPass.tombs = up.tombs
BY DEF IInv, UpInv, UpState, UpPass

\* A pass that changes only its own state, and goes on to nothing it would
\* have to have seen.
LEMMA UpPauses ==
    ASSUME IInv, Undisturbed, Undisturbed', Paired, UNCHANGED <<db, disk, user, list, dl>>,
           up'.tombs \subseteq up.tombs,
           up'.pc \in {"pass", "idle"} \/ (up'.pc \in {"replace", "send", "meta"} /\ up'.tombs = {})
    PROVE  Paired'
<1>1. UpSees'
  BY DEF Paired, UpSees
<1> QED
  BY <1>1, Untouched, UpTurn

LEMMA PairsUpStart ==
    ASSUME IInv, Undisturbed, Undisturbed', Paired, UpStart
    PROVE  Paired'
<1>1. /\ UNCHANGED <<db, disk, user, list, dl>>
      /\ up'.pc = "pass"
      /\ up'.tombs = {NodeOf(p) : p \in {q \in DOMAIN db.rows : db.rows[q].tomb}}
  BY DEF UpStart, UpIdle
<1>2. \A t \in up'.tombs : ~Live(db, t.path)
  BY <1>1 DEF NodeOf, Live
<1>3. UpSees'
  BY <1>1, <1>2 DEF UpSees
<1> QED
  BY <1>1, <1>3, Untouched, UpTurn

LEMMA PairsUpTombstone ==
    ASSUME IInv, Undisturbed, Undisturbed', Paired, UpTombstone
    PROVE  Paired'
<1>1. UNCHANGED <<db, disk, user, list, dl>> /\ up.pc = "pass"
  BY DEF UpTombstone
<1>2. PICK t \in up.tombs : \/ up' = [up EXCEPT !.pc = "forget", !.path = t.path, !.node = t]
                            \/ up' = [up EXCEPT !.tombs = @ \ {t}]
  BY Zenon DEF UpTombstone
<1>3. CASE up' = [up EXCEPT !.pc = "forget", !.path = t.path, !.node = t]
  <2>1. /\ up'.pc = "forget" /\ up'.path = t.path /\ up'.node = t
        /\ up'.tombs = up.tombs
    BY <1>3, UpFields
  <2>2. UpSees'
    BY <1>1, <2>1 DEF Paired, UpSees
  <2> QED
    BY <1>1, <2>2, Untouched, UpTurn
<1>4. CASE up' = [up EXCEPT !.tombs = @ \ {t}]
  <2>1. up'.pc = "pass" /\ up'.tombs = up.tombs \ {t}
    BY <1>1, <1>4, UpFields
  <2> QED
    BY <1>1, <2>1, UpPauses
<1> QED
  BY <1>2, <1>3, <1>4

\* A write that waits for its content has seen a live row with its file: the
\* pass neither forgets it nor finds it gone.
LEMMA WaitsApart ==
    ASSUME IInv, Undisturbed, Paired, NEW p \in Top, p \in UserWaits,
           p \in UpHolds
    PROVE  Known(db, p) /\ p \in DOMAIN disk
<1>1. user.pc = "hydrate" /\ p = user.path /\ Known(db, p)
  BY DEF UserWaits, Paired, UserSees
<1>2. p \notin ListHolds
  BY Alone DEF Undisturbed, Overlap
<1>3. ~ListTakes(p)
  BY <1>2 DEF ListTakes, ListHolds
<1>4. ~UserTakes(p)
  BY <1>1 DEF UserTakes
<1> QED
  BY <1>1, <1>3, <1>4, Present DEF Paired, Wanted

LEMMA PairsUpForget ==
    ASSUME IInv, Undisturbed, Undisturbed', Paired, UpForget
    PROVE  Paired'
<1>0. PICK p : p = up.path
  OBVIOUS
<1>1. /\ UNCHANGED <<disk, user, list, dl>> /\ up.pc = "forget"
      /\ db' = RemoveSubtree(db, p)
      /\ up'.pc = "pass" /\ up'.tombs = up.tombs \ {up.node}
  BY <1>0, UpFields DEF UpForget, UpPass
<1>2. p \in Top /\ Sound(db)
  BY <1>0, <1>1 DEF IInv, UpInv, DbInv
<1>3. ~Live(db, p)
  BY <1>0, <1>1 DEF Paired, UpSees
<1>4. RowsKept(db, db', DOMAIN disk, {p}) /\ ~Has(db', p)
  BY <1>1, <1>2, RemoveFace, Zenon
<1>5. p \in UpHolds
  BY <1>0, <1>1 DEF UpHolds
<1>6. p \notin UserWaits
  BY <1>2, <1>3, <1>5, WaitsApart DEF Known
<1>7. FileNamed(p)' /\ RowFiled(p)'
  <2>1. ~Live(db', p) /\ FileNamed(p)
    BY <1>2, <1>4 DEF Live, Paired, Pairs
  <2> QED
    BY <1>1, <1>3, <2>1 DEF FileNamed, RowFiled, HasFile, Wanted, Known, UserBrings, ListBrings
<1>8. UpSees'
  <2>1. \A t \in up'.tombs : t.path \in Top /\ ~Live(db, t.path)
    BY <1>1 DEF Paired, UpSees, IInv, UpInv, UpState, FileNode
  <2>2. \A t \in up'.tombs : ~Live(db', t.path)
    BY <1>4, <2>1 DEF RowsKept, Live
  <2> QED
    BY <1>1, <2>2 DEF UpSees
<1>9. FilesKept(DOMAIN disk, DOMAIN disk', {})
  BY <1>1, SameDisk
<1>10. UNCHANGED <<user, list, dl>>
  BY <1>1
<1> QED
  BY <1>4, <1>5, <1>6, <1>7, <1>8, <1>9, <1>10, UpTurn

LEMMA MarkHydratedQuiet ==
    ASSUME NEW st, Sound(st), NEW p, NEW stamp, NEW files
    PROVE  RowsKept(st, MarkHydrated(st, p, stamp), files, {})
<1> DEFINE row == [st.rows[p] EXCEPT !.hydrated = TRUE, !.stamp = stamp]
<1>1. Has(st, p) => row.tomb = st.rows[p].tomb /\ row.id = st.rows[p].id
  BY DEF Sound, StoreType, Entry, Has
<1>2. MarkHydrated(st, p, stamp) = UpdateRow(st, p, row)
  BY Zenon DEF MarkHydrated
<1> HIDE DEF row
<1> QED
  BY <1>1, <1>2, UpdateRowQuiet

LEMMA PairsUpFile ==
    ASSUME IInv, Undisturbed, Undisturbed', Paired, UpFile
    PROVE  Paired'
<1>1. UNCHANGED <<disk, user, list, dl>> /\ up.pc = "pass" /\ up.tombs = {}
  BY ZenonT(40) DEF UpFile
<1>2. Sound(db)
  BY DEF IInv, DbInv
<1> DEFINE at(p, pc) == [up EXCEPT !.pc = pc, !.todo = @ \ {p}, !.path = p,
                                   !.node = NodeOf(p), !.changed = Changed(p)]
           skip(p) == [up EXCEPT !.todo = @ \ {p}]
<1>3. PICK p \in up.todo :
         \/ up' = skip(p) /\ UNCHANGED db
         \/ Live(db, p) /\ p \notin DOMAIN disk /\ up' = at(p, "missing") /\ UNCHANGED db
         \/ /\ Live(db, p) /\ p \in DOMAIN disk
            /\ db' = IF Changed(p) /\ ~db.rows[p].hydrated
                     THEN MarkHydrated(db, p, disk[p].stamp) ELSE db
            /\ up' = at(p, IF Renamed(p) THEN "move"
                           ELSE IF Changed(p) THEN "replace" ELSE "adopt")
  BY Zenon DEF UpFile
<1>4. ASSUME NEW pc  PROVE at(p, pc).pc = pc /\ at(p, pc).path = p /\ at(p, pc).tombs = {}
  BY <1>1, UpFields
<1>5. skip(p).pc = "pass" /\ skip(p).tombs = {}
  BY <1>1, UpFields
<1> HIDE DEF at, skip
<1>6. CASE up' = skip(p) /\ UNCHANGED db
  <2>1. up'.pc = "pass" /\ up'.tombs \subseteq up.tombs
    BY <1>5, <1>6
  <2> QED
    BY <1>1, <1>6, <2>1, UpPauses
<1>7. CASE Live(db, p) /\ p \notin DOMAIN disk /\ up' = at(p, "missing") /\ UNCHANGED db
  <2>1. up'.pc = "missing" /\ up'.path = p /\ up'.tombs = {}
    BY <1>4, <1>7
  <2>2. UpSees'
    BY <1>1, <1>7, <2>1 DEF UpSees, HasFile
  <2> QED
    BY <1>1, <1>7, <2>2, Untouched, UpTurn
<1>8. CASE /\ Live(db, p) /\ p \in DOMAIN disk
           /\ db' = IF Changed(p) /\ ~db.rows[p].hydrated
                    THEN MarkHydrated(db, p, disk[p].stamp) ELSE db
           /\ up' = at(p, IF Renamed(p) THEN "move"
                          ELSE IF Changed(p) THEN "replace" ELSE "adopt")
  <2>1. RowsKept(db, db', DOMAIN disk, {})
    BY <1>2, <1>8, MarkHydratedQuiet, SameRows
  <2>2. up'.pc \in {"move", "replace", "adopt"} /\ up'.path = p /\ up'.tombs = {}
    BY <1>4, <1>8
  <2>3. p \in Top
    BY <1>2, <1>8 DEF Sound, Live, Has
  <2>4. Live(db', p) /\ p \in DOMAIN disk'
    BY <1>1, <1>8, <2>1, <2>3 DEF RowsKept
  <2>5. UpSees'
    BY <2>2, <2>4 DEF UpSees, HasFile
  <2>6. FilesKept(DOMAIN disk, DOMAIN disk', {})
    BY <1>1, SameDisk
  <2> QED
    BY <1>1, <2>1, <2>5, <2>6, UpTurn
<1> QED
  BY Zenon, <1>3, <1>6, <1>7, <1>8

LEMMA PairsUpMissing ==
    ASSUME IInv, Undisturbed, Undisturbed', Paired, UpMissing
    PROVE  Paired'
<1>0. PICK p : p = up.path
  OBVIOUS
<1>1. /\ UNCHANGED <<disk, user, list, dl>> /\ up.pc = "missing"
      /\ db' = MarkTombstone(db, p)
      /\ up'.pc = "pass" /\ up'.tombs = up.tombs
  BY <1>0, UpFields DEF UpMissing
<1>2. p \in Top /\ Sound(db)
  BY <1>0, <1>1 DEF IInv, UpInv, DbInv
<1>3. p \notin DOMAIN disk /\ up.tombs = {}
  BY <1>0, <1>1 DEF Paired, UpSees, HasFile
<1>4. RowsKept(db, db', DOMAIN disk, {p}) /\ ~Live(db', p)
  <2> DEFINE row == [db.rows[p] EXCEPT !.dirty = TRUE, !.tomb = TRUE]
  <2>1. db' = UpdateRow(db, p, row)
    BY <1>1 DEF MarkTombstone
  <2>2. Has(db, p) => row.tomb
    BY <1>2 DEF Sound, StoreType, Entry, Has
  <2> HIDE DEF row
  <2> QED
    BY <1>2, <2>1, <2>2, UpdateRowFace
<1>5. p \in UpHolds
  BY <1>0, <1>1 DEF UpHolds
<1>6. p \notin UserWaits
  BY <1>2, <1>3, <1>5, WaitsApart
<1>7. FileNamed(p)' /\ RowFiled(p)'
  BY <1>1, <1>3, <1>4 DEF FileNamed, RowFiled, HasFile, Wanted, Known
<1>8. UpSees'
  BY <1>1, <1>3 DEF UpSees
<1>9. FilesKept(DOMAIN disk, DOMAIN disk', {})
  BY <1>1, SameDisk
<1>10. UNCHANGED <<user, list, dl>>
  BY <1>1
<1> QED
  BY <1>4, <1>5, <1>6, <1>7, <1>8, <1>9, <1>10, UpTurn

LEMMA PairsUpMove ==
    ASSUME IInv, Undisturbed, Undisturbed', Paired, UpMove
    PROVE  Paired'
<1>1. UNCHANGED <<db, disk, user, list, dl>> /\ up.pc = "move"
  BY DEF UpMove
<1>2. up.tombs = {} /\ (~up.changed => Live(db, up.path) /\ HasFile(up.path))
  BY <1>1 DEF Paired, UpSees
<1>3. CASE up' = [up EXCEPT !.pc = IF up.changed THEN "replace" ELSE "adopt",
                            !.node = IF Has(db, up.path) THEN NodeOf(up.path) ELSE @]
  <2>1. /\ up'.pc = IF up.changed THEN "replace" ELSE "adopt"
        /\ up'.path = up.path /\ up'.tombs = {}
    BY <1>2, <1>3, UpFields
  <2>2. UpSees'
    BY <1>1, <1>2, <2>1 DEF UpSees, HasFile
  <2> QED
    BY <1>1, <2>2, Untouched, UpTurn
<1>4. CASE up' = UpPass
  BY <1>1, <1>4, UpFields, UpPauses
<1> QED
  BY <1>3, <1>4 DEF UpMove

LEMMA PairsUpReplaceSend ==
    ASSUME IInv, Undisturbed, Undisturbed', Paired, UpReplace \/ UpSend
    PROVE  Paired'
<1>1. UNCHANGED <<db, disk, user, list, dl>> /\ up.pc \in {"replace", "send"}
  BY DEF UpReplace, UpSend
<1>2. up.tombs = {}
  BY <1>1 DEF Paired, UpSees
<1>3. up'.pc \in {"pass", "send", "meta"} /\ up'.tombs = up.tombs
  BY UpFields, Zenon DEF UpReplace, UpSend
<1> QED
  BY <1>1, <1>2, <1>3, UpPauses

\* The file is there and nobody else holds its path: it has its row.
LEMMA Named ==
    ASSUME Pairs, NEW p \in Top, p \in DOMAIN disk,
           p \notin UserHolds, p \notin ListHolds
    PROVE  Live(db, p)
BY DEF Pairs, FileNamed, HasFile, UserBrings, ListBrings, UserHolds, ListHolds

LEMMA PairsUpMeta ==
    ASSUME IInv, Undisturbed, Undisturbed', Paired, UpMeta
    PROVE  Paired'
<1>0. PICK p : p = up.path
  OBVIOUS
<1>1. UNCHANGED <<user, list, dl>> /\ up.pc = "meta"
  BY Zenon DEF UpMeta
<1>2. p \in Top /\ Sound(db) /\ up.tombs = {}
  BY <1>0, <1>1 DEF IInv, UpInv, DbInv, Paired, UpSees
<1>3. CASE up' = UpPass /\ UNCHANGED <<db, disk>>
  BY <1>1, <1>3, UpFields, UpPauses
<1>4. CASE /\ p \in DOMAIN disk
           /\ \E i \in IdsAt(cloud, p) :
                /\ disk' = [disk EXCEPT ![p].stamp = cloud[i].stamp]
                /\ up' = [up EXCEPT !.pc = "clean", !.node = Node(cloud, i)]
                /\ UNCHANGED db
  <2>1. /\ up'.pc = "clean" /\ up'.path = p /\ up'.tombs = {}
        /\ DOMAIN disk' = DOMAIN disk /\ UNCHANGED db
    BY <1>0, <1>2, <1>4, UpFields
  <2>2. p \in UpHolds'
    BY <2>1 DEF UpHolds
  <2>3. p \notin UserHolds /\ p \notin ListHolds
    <3>1. /\ ~Meets(UserHolds, UpHolds' \union ListHolds \union DlHolds)
          /\ ~Meets(UpHolds', ListHolds \union DlHolds)
      BY <1>1 DEF Undisturbed, Overlap, UserHolds, ListHolds, DlHolds
    <3> QED
      BY <1>2, <2>2, <3>1, Alone
  <2>4. Live(db, p)
    BY <1>2, <1>4, <2>3, Named DEF Paired
  <2>5. UpSees'
    BY <1>4, <2>1, <2>4 DEF UpSees, HasFile
  <2>6. RowsKept(db, db', DOMAIN disk, {}) /\ FilesKept(DOMAIN disk, DOMAIN disk', {})
    BY <2>1, SameRows DEF FilesKept
  <2> QED
    BY <1>1, <2>5, <2>6, UpTurn
<1>5. CASE /\ p \in DOMAIN disk
           /\ \E i \in IdsAt(cloud, p) :
                db' = MarkUploadedButDirty(db, p, Node(cloud, i), Crawling)
           /\ up' = UpPass /\ UNCHANGED disk
  <2>1. PICK i \in IdsAt(cloud, p) :
           db' = MarkUploadedButDirty(db, p, Node(cloud, i), Crawling)
    BY <1>5
  <2>2. PICK node, recent : node = Node(cloud, i) /\ recent = Crawling
    OBVIOUS
  <2> DEFINE row == [db.rows[p] EXCEPT !.id = node.id, !.etag = node.etag,
                                       !.synced = p, !.recent = recent]
  <2>3. node.id # NoId
    BY <2>1, <2>2 DEF Node, IdsAt, IInv, CloudInv, CloudOK
  <2>4. db' = UpdateRow(db, p, row)
    BY <2>1, <2>2 DEF MarkUploadedButDirty
  <2>5. Has(db, p) => row.tomb = db.rows[p].tomb /\ row.id = node.id
    BY <1>2 DEF Sound, StoreType, Entry, Has
  <2> HIDE DEF row
  <2>6. RowsKept(db, db', DOMAIN disk, {})
    BY <1>2, <1>5, <2>3, <2>4, <2>5, UpdateRowQuiet
  <2>7. up'.pc = "pass" /\ up'.tombs = {}
    BY <1>2, <1>5, UpFields
  <2>8. UpSees'
    BY <2>7 DEF UpSees
  <2>9. FilesKept(DOMAIN disk, DOMAIN disk', {})
    BY <1>5, SameDisk
  <2> QED
    BY <1>1, <2>6, <2>8, <2>9, UpTurn
<1> QED
  BY <1>0, <1>3, <1>4, <1>5, Zenon DEF UpMeta

LEMMA PairsUpAdopt ==
    ASSUME IInv, Undisturbed, Undisturbed', Paired, UpAdopt
    PROVE  Paired'
<1>1. UNCHANGED <<db, disk, user, list, dl>> /\ up.pc = "adopt"
  BY Zenon DEF UpAdopt
<1>2. up.tombs = {} /\ Live(db, up.path) /\ HasFile(up.path)
  BY <1>1 DEF Paired, UpSees
<1>3. CASE up' = UpPass
  BY <1>1, <1>3, UpFields, UpPauses
<1>4. CASE \E i \in IdsAt(cloud, up.path) :
              up' = [up EXCEPT !.pc = "clean", !.node = Node(cloud, i)]
  <2>1. up'.pc = "clean" /\ up'.path = up.path /\ up'.tombs = {}
    BY <1>2, <1>4, UpFields
  <2>2. UpSees'
    BY <1>1, <1>2, <2>1 DEF UpSees, HasFile
  <2> QED
    BY <1>1, <2>2, Untouched, UpTurn
<1> QED
  BY <1>3, <1>4, Zenon DEF UpAdopt

\* The row is alive already, and its file is there when iCloud comes to know it.
LEMMA PairsUpClean ==
    ASSUME IInv, Undisturbed, Undisturbed', Paired, UpClean
    PROVE  Paired'
<1>0. PICK p, node, recent : p = up.path /\ node = up.node /\ recent = Crawling
  OBVIOUS
<1>1. /\ UNCHANGED <<disk, user, list, dl>> /\ up.pc = "clean"
      /\ db' = MarkClean(db, p, node, recent)
      /\ up'.pc = "pass" /\ up'.tombs = up.tombs
  BY <1>0, UpFields DEF UpClean
<1>2. p \in Top /\ Sound(db) /\ node.id # NoId
  BY <1>0, <1>1 DEF IInv, UpInv, DbInv
<1>3. Live(db, p) /\ p \in DOMAIN disk /\ up.tombs = {}
  BY <1>0, <1>1 DEF Paired, UpSees, HasFile
<1>4. RowsKept(db, db', DOMAIN disk, {})
  <2> DEFINE row == [db.rows[p] EXCEPT !.dirty = FALSE, !.tomb = FALSE,
                         !.hydrated = @ \/ db.rows[p].kind # "file",
                         !.id = node.id, !.etag = node.etag, !.stamp = node.stamp,
                         !.synced = p, !.recent = recent]
             new == UpdateRow(db, p, row)
  <2>1. db'.rows = new.rows
    BY <1>1, <1>2 DEF MarkClean, UpdateRow, Sound, StoreType
  <2>2. row.tomb = db.rows[p].tomb /\ row.id = node.id
    BY <1>2, <1>3, Zenon DEF Sound, StoreType, Entry, Live, Has
  <2> HIDE DEF row
  <2>3. RowsKept(db, new, DOMAIN disk, {})
    BY <1>2, <1>3, <2>2, UpdateRowQuiet
  <2> HIDE DEF new
  <2> QED
    BY <2>1, <2>3 DEF RowsKept, Live, Known, Has
<1>5. UpSees'
  BY <1>1, <1>3 DEF UpSees
<1>6. FilesKept(DOMAIN disk, DOMAIN disk', {})
  BY <1>1, SameDisk
<1>7. UNCHANGED <<user, list, dl>>
  BY <1>1
<1> QED
  BY <1>4, <1>5, <1>6, <1>7, UpTurn

LEMMA PairsUpEnd ==
    ASSUME IInv, Undisturbed, Undisturbed', Paired, UpEnd
    PROVE  Paired'
<1>1. UNCHANGED <<db, disk, user, list, dl>> /\ up'.pc = "idle" /\ up'.tombs = {}
  BY DEF UpEnd, UpIdle
<1> QED
  BY <1>1, UpPauses
-----------------------------------------------------------------------------
\* ---- A listing applied.
LEMMA ListFields ==
    ASSUME IInv
    PROVE  DOMAIN list = {"pc", "items", "ids", "node", "at", "to", "then", "stamp",
                          "hydrated", "recent", "sweep"}
BY DEF IInv, ListInv, ListState

LEMMA PairsListStart ==
    ASSUME IInv, Undisturbed, Undisturbed', Paired, ListStart
    PROVE  Paired'
<1>1. /\ UNCHANGED <<disk, user, up, dl>> /\ list.pc = "idle"
      /\ list'.pc = "items" /\ list'.sweep = {}
  BY DEF ListStart, ListIdle
<1>2. RowsKept(db, db', DOMAIN disk, {})
  <2> DEFINE rows == [p \in DOMAIN db.rows |-> [db.rows[p] EXCEPT !.recent = FALSE]]
  <2>1. Sound(db)
    BY DEF IInv, DbInv
  <2>2. db'.rows = rows
    BY <2>1 DEF ListStart, Sound, StoreType
  <2>3. /\ DOMAIN rows = DOMAIN db.rows
        /\ \A p \in DOMAIN rows : rows[p].tomb = db.rows[p].tomb /\ rows[p].id = db.rows[p].id
    BY <2>1 DEF Sound, StoreType, Entry
  <2> HIDE DEF rows
  <2> QED
    BY <2>2, <2>3 DEF RowsKept, Live, Known, Has
<1>3. ListSees'
  BY <1>1 DEF ListSees
<1>4. \A p : ~ListBrings(p) /\ ~ListTakes(p)
  BY <1>1 DEF ListBrings, ListTakes
<1>5. FilesKept(DOMAIN disk, DOMAIN disk', {})
  BY <1>1, SameDisk
<1>6. UNCHANGED <<user, up, dl>>
  BY <1>1
<1> QED
  BY <1>2, <1>3, <1>4, <1>5, <1>6, ListTurn

\* A clean row that the item still has under its own path has its file there.
LEMMA PairsListItem ==
    ASSUME IInv, Undisturbed, Undisturbed', Paired, ListItem
    PROVE  Paired'
<1>1. UNCHANGED <<db, disk, user, up, dl>> /\ list.pc = "items"
  BY Zenon DEF ListItem
<1>2. list.sweep = {}
  BY <1>1 DEF Paired, ListSees
<1>3. \A p : ~ListBrings(p) /\ ~ListTakes(p)
  BY <1>1 DEF ListBrings, ListTakes
<1> SUFFICES ListSees'
  BY <1>1, <1>3, Untouched, ListTurn
<1>4. PICK n \in list.items :
       LET now(pc) == [list EXCEPT !.pc = pc, !.items = @ \ {n}, !.node = n]
           rows == RowsWithId(db, n.id)
       IN  \/ rows = {} /\ list' = now("occupant")
           \/ \E e \in rows :
              LET row == db.rows[e]
                  at(pc) == [now(pc) EXCEPT !.at = e, !.stamp = row.stamp,
                                            !.hydrated = row.hydrated, !.recent = row.recent]
              IN  \/ /\ row.dirty /\ EntryConflicts(row, n)
                     /\ list' = [now("conflict") EXCEPT !.at = e, !.then = "occupant"]
                  \/ /\ row.dirty /\ ~EntryConflicts(row, n)
                     /\ list' = [list EXCEPT !.items = @ \ {n}]
                  \/ ~row.dirty /\ e # n.path /\ list' = at("relocate")
                  \/ /\ ~row.dirty /\ e = n.path
                     /\ list' = at(IF row.stamp = n.stamp /\ row.etag = n.etag
                                   THEN "store" ELSE "redo")
  BY ZenonT(60) DEF ListItem
<1> DEFINE now(pc) == [list EXCEPT !.pc = pc, !.items = @ \ {n}, !.node = n]
           at(pc, e) == [now(pc) EXCEPT !.at = e, !.stamp = db.rows[e].stamp,
                                        !.hydrated = db.rows[e].hydrated,
                                        !.recent = db.rows[e].recent]
<1>5. \/ list' = now("occupant")
      \/ \E e \in RowsWithId(db, n.id) :
           \/ list' = [now("conflict") EXCEPT !.at = e, !.then = "occupant"]
           \/ list' = [list EXCEPT !.items = @ \ {n}]
           \/ ~db.rows[e].dirty /\ e # n.path /\ list' = at("relocate", e)
           \/ ~db.rows[e].dirty /\ e = n.path /\ list' \in {at("store", e), at("redo", e)}
  BY Zenon, <1>4
<1>6. ASSUME NEW pc
      PROVE  now(pc).pc = pc /\ now(pc).node = n /\ now(pc).sweep = {}
  BY <1>2, ListFields
<1>7. ASSUME NEW pc, NEW e
      PROVE  /\ at(pc, e).pc = pc /\ at(pc, e).node = n /\ at(pc, e).sweep = {}
             /\ at(pc, e).at = e
  BY <1>2, ListFields
<1>8. ASSUME NEW e
      PROVE  LET c == [now("conflict") EXCEPT !.at = e, !.then = "occupant"]
             IN  c.pc = "conflict" /\ c.at = e /\ c.sweep = {}
  BY <1>2, ListFields
<1>9. [list EXCEPT !.items = @ \ {n}].pc = "items" /\ [list EXCEPT !.items = @ \ {n}].sweep = {}
  BY <1>1, <1>2, ListFields
<1>10. n.id # NoId /\ n.path \in Top
  BY DEF IInv, ListInv, ListState, ItemNode
<1> HIDE DEF now, at
<1>11. CASE list' = now("occupant")
  BY <1>6, <1>11 DEF ListSees
<1>12. ASSUME NEW e \in RowsWithId(db, n.id),
              list' = [now("conflict") EXCEPT !.at = e, !.then = "occupant"]
       PROVE  ListSees'
  BY <1>1, <1>8, <1>12 DEF ListSees, RowsWithId, Has
<1>13. CASE list' = [list EXCEPT !.items = @ \ {n}]
  BY <1>9, <1>13 DEF ListSees
<1>14. ASSUME NEW e \in RowsWithId(db, n.id), ~db.rows[e].dirty  PROVE Known(db, e) /\ e \in Top
  <2>1. e \in DOMAIN db.rows /\ db.rows[e].id = n.id
    BY DEF RowsWithId
  <2>2. Disciplined(db.rows[e], e) /\ db.rows[e] \in Entry /\ e \in Top
    BY <2>1 DEF IInv, DbInv, Sound, StoreType
  <2> QED
    BY <1>10, <1>14, <2>1, <2>2 DEF Known, Live, Has, Disciplined
<1>15. ASSUME NEW e \in RowsWithId(db, n.id), ~db.rows[e].dirty, e # n.path,
              list' = at("relocate", e)
       PROVE  ListSees'
  BY <1>1, <1>7, <1>14, <1>15 DEF ListSees
<1>16. ASSUME NEW e \in RowsWithId(db, n.id), ~db.rows[e].dirty, e = n.path,
              list' \in {at("store", e), at("redo", e)}
       PROVE  ListSees'
  <2>1. list'.pc \in {"store", "redo"} /\ list'.node.path = e /\ list'.sweep = {}
    BY <1>7, <1>16
  <2>2. e \in ListHolds'
    BY <2>1 DEF ListHolds
  <2>3. e \notin UserHolds
    <3>1. ~Meets(UserHolds, UpHolds \union ListHolds' \union DlHolds)
      BY <1>1 DEF Undisturbed, Overlap, UserHolds, UpHolds, DlHolds
    <3> QED
      BY <1>14, <1>16, <2>2, <3>1, Alone
  <2>4. ~UserTakes(e)
    BY <2>3 DEF UserTakes, UserHolds
  <2>5. HasFile(e)
    BY <1>3, <1>14, <1>16, <2>4, Present DEF Paired, Wanted, HasFile
  <2> QED
    BY <1>1, <2>1, <2>5 DEF ListSees, HasFile
<1> QED
  BY ZenonT(60), <1>5, <1>11, <1>12, <1>13, <1>15, <1>16

LEMMA PairsListConflict ==
    ASSUME IInv, Undisturbed, Undisturbed', Paired, ListConflict
    PROVE  Paired'
<1>0. PICK p, q : p = list.at /\ q = Pick(FreeConflicts)
  OBVIOUS
<1>1. /\ UNCHANGED <<db, user, up, dl>> /\ list.pc = "conflict"
      /\ list' = [list EXCEPT !.pc = "detach", !.to = q]
      /\ q \in FreeConflicts
  BY <1>0, Picked DEF ListConflict
<1>2. list'.pc = "detach" /\ list'.at = p /\ list'.to = q /\ list'.sweep = {}
  BY <1>0, <1>1, ListFields DEF Paired, ListSees
<1>3. /\ q \in Top /\ q \in ConflictPath /\ ~Has(db, q) /\ q \notin DOMAIN disk
      /\ p \in Top /\ Has(db, p)
  BY <1>0, <1>1, Names DEF FreeConflicts, ConflictPath, Has, IInv, ListInv, Paired, ListSees
<1>4. DOMAIN disk' = IF p \in DOMAIN disk THEN (DOMAIN disk \ {p}) \union {q} ELSE DOMAIN disk
  BY <1>0, <1>1, <1>2 DEF ListConflict, Moved
<1>5. p # q
  BY <1>3
<1>6. p \notin DOMAIN disk'
  BY <1>4, <1>5
<1>7. ListBrings(q)' /\ ListTakes(p)'
  BY <1>2 DEF ListBrings, ListTakes
<1>8. FileNamed(p)' /\ RowFiled(p)' /\ FileNamed(q)' /\ RowFiled(q)'
  BY <1>1, <1>3, <1>6, <1>7 DEF FileNamed, RowFiled, HasFile, Wanted, Known, Live
<1>9. ListSees'
  BY <1>1, <1>2, <1>3, <1>6 DEF ListSees, HasFile
<1>10. {} \union {p, q} \subseteq ListHolds'
  BY <1>2 DEF ListHolds
<1>11. \A r : ~ListBrings(r) /\ ~ListTakes(r)
  BY <1>1 DEF ListBrings, ListTakes
<1>12. RowsKept(db, db', DOMAIN disk, {}) /\ FilesKept(DOMAIN disk, DOMAIN disk', {p, q})
  BY <1>1, <1>4, SameRows DEF FilesKept
<1>13. UNCHANGED <<user, up, dl>>
  BY <1>1
<1> QED
  BY <1>8, <1>9, <1>10, <1>11, <1>12, <1>13, ListTurn

LEMMA PairsListDetach ==
    ASSUME IInv, Undisturbed, Undisturbed', Paired, ListDetach
    PROVE  Paired'
<1>0. PICK p, q : p = list.at /\ q = list.to
  OBVIOUS
<1>1. /\ UNCHANGED <<disk, user, up, dl>> /\ list.pc = "detach"
      /\ db' = QueueConflictCopies(DetachSubtreeAsConflict(db, p, q), q)
      /\ list'.pc = list.then /\ list'.sweep = {}
  BY <1>0, ListFields DEF ListDetach, Paired, ListSees
<1>2. /\ p \in Top /\ q \in Top /\ Sound(db)
      /\ Has(db, p) /\ ~Has(db, q) /\ p \notin DOMAIN disk /\ q \in ConflictPath
      /\ list.then \in {"occupant", "place"}
  BY <1>0, <1>1 DEF IInv, DbInv, ListInv, ListState, Paired, ListSees, HasFile
<1>3. /\ RowsKept(db, db', DOMAIN disk, {p, q})
      /\ ~Has(db', p) /\ Live(db', q) /\ ~Known(db', q)
  <2> DEFINE new == DetachSubtreeAsConflict(db, p, q)
  <2>1. /\ RowsKept(db, new, DOMAIN disk, {p, q})
        /\ ~Has(new, p) /\ Live(new, q) /\ ~Known(new, q)
    BY <1>2, DetachFace, Zenon
  <2>2. DOMAIN new = {"rows", "ops"}
    BY <1>2 DEF DetachSubtreeAsConflict, Sound, StoreType
  <2> HIDE DEF new
  <2>3. db'.rows = new.rows
    BY <1>1, <2>2 DEF QueueConflictCopies, new
  <2> QED
    BY <2>1, <2>3 DEF RowsKept, Live, Known, Has
<1>4. ListSees'
  BY <1>1, <1>2 DEF ListSees
<1>5. \A r : (ListBrings(r) => r = q) /\ (ListTakes(r) => r = p)
  BY <1>0, <1>1 DEF ListBrings, ListTakes
<1>6. FileNamed(p)' /\ RowFiled(p)' /\ FileNamed(q)' /\ RowFiled(q)'
  BY <1>1, <1>2, <1>3 DEF FileNamed, RowFiled, HasFile, Wanted, Known, Live
<1>7. {p, q} \union {} \subseteq ListHolds
  BY <1>0, <1>1 DEF ListHolds
<1>8. FilesKept(DOMAIN disk, DOMAIN disk', {})
  BY <1>1, SameDisk
<1>9. UNCHANGED <<user, up, dl>>
  BY <1>1
<1> QED
  BY <1>3, <1>4, <1>5, <1>6, <1>7, <1>8, <1>9, ListTurn

LEMMA PairsListOccupant ==
    ASSUME IInv, Undisturbed, Undisturbed', Paired, ListOccupant
    PROVE  Paired'
<1>1. UNCHANGED <<db, disk, user, up, dl>> /\ list.pc = "occupant"
  BY DEF ListOccupant
<1>2. list.sweep = {}
  BY <1>1 DEF Paired, ListSees
<1>3. ListSees'
  <2>1. CASE /\ Has(db, list.node.path)
             /\ list' = [list EXCEPT !.pc = "conflict", !.at = list.node.path, !.then = "place"]
    <3>1. list'.pc = "conflict" /\ list'.at = list.node.path /\ list'.sweep = {}
      BY <1>2, <2>1, ListFields
    <3> QED
      BY <1>1, <2>1, <3>1 DEF ListSees
  <2>2. CASE list' = [list EXCEPT !.pc = "place"]
    <3>1. list'.pc = "place" /\ list'.sweep = {}
      BY <1>2, <2>2, ListFields
    <3> QED
      BY <3>1 DEF ListSees
  <2> QED
    BY <2>1, <2>2 DEF ListOccupant
<1>4. \A p : ~ListBrings(p) /\ ~ListTakes(p)
  BY <1>1 DEF ListBrings, ListTakes
<1> QED
  BY <1>1, <1>3, <1>4, Untouched, ListTurn

\* The file that moves is there: the row iCloud knows is at its old name.
LEMMA PairsListRelocate ==
    ASSUME IInv, Undisturbed, Undisturbed', Paired, ListRelocate
    PROVE  Paired'
<1>0. PICK p, q : p = list.at /\ q = list.node.path
  OBVIOUS
<1>1. /\ UNCHANGED <<db, user, up, dl>> /\ list.pc = "relocate"
      /\ list' = [list EXCEPT !.pc = "rekey"]
  BY DEF ListRelocate
<1>2. list'.pc = "rekey" /\ list'.at = p /\ list'.node.path = q /\ list'.sweep = {}
  BY <1>0, <1>1, ListFields DEF Paired, ListSees
<1>3. p \in Top /\ q \in Top /\ Known(db, p) /\ p # q
  BY <1>0, <1>1 DEF IInv, ListInv, ItemNode, Paired, ListSees
<1>4. p \in ListHolds /\ q \in ListHolds
  BY <1>0, <1>1 DEF ListHolds
<1>5. p \notin UserHolds
  BY <1>3, <1>4, Alone DEF Undisturbed, Overlap
<1>6. ~UserTakes(p)
  BY <1>5 DEF UserTakes, UserHolds
<1>7. \A r : ~ListBrings(r) /\ ~ListTakes(r)
  BY <1>1 DEF ListBrings, ListTakes
<1>8. p \in DOMAIN disk
  BY <1>3, <1>6, <1>7, Present DEF Paired, Wanted
<1>9. DOMAIN disk' = (DOMAIN disk \ {p}) \union {q}
  BY <1>0, <1>8 DEF ListRelocate, Moved
<1>10. ListBrings(q)' /\ ListTakes(p)'
  BY <1>2 DEF ListBrings, ListTakes
<1>11. p \notin DOMAIN disk' /\ q \in DOMAIN disk'
  BY <1>3, <1>9
<1>12. FileNamed(p)' /\ RowFiled(p)' /\ FileNamed(q)' /\ RowFiled(q)'
  BY <1>10, <1>11 DEF FileNamed, RowFiled, HasFile
<1>13. ListSees'
  BY <1>1, <1>2, <1>3, <1>11 DEF ListSees, HasFile
<1>14. RowsKept(db, db', DOMAIN disk, {}) /\ FilesKept(DOMAIN disk, DOMAIN disk', {p, q})
  BY <1>1, <1>9, SameRows DEF FilesKept
<1>15. UNCHANGED <<user, up, dl>> /\ {} \union {p, q} \subseteq ListHolds
  BY <1>1, <1>4
<1> QED
  BY <1>7, <1>12, <1>13, <1>14, <1>15, ListTurn

LEMMA PairsListRekey ==
    ASSUME IInv, Undisturbed, Undisturbed', Paired, ListRekey
    PROVE  Paired'
<1>0. PICK p, q, grave : /\ p = list.at /\ q = list.node.path
                         /\ grave = [r \in {list.node.path} |-> Pick(FreeGraves)]
  BY Zenon
<1>1. /\ UNCHANGED <<disk, user, up, dl>> /\ list.pc = "rekey"
      /\ db' = RenameTree(db, p, q, FALSE, TRUE, grave)
  BY <1>0 DEF ListRekey
<1>2. /\ list'.pc \in {"store", "redo"} /\ list'.node.path = q /\ list'.sweep = {}
  <2> DEFINE row == db'.rows[list.node.path]
             read == IF Has(db', list.node.path)
                     THEN [list EXCEPT !.stamp = row.stamp, !.hydrated = row.hydrated,
                                       !.recent = row.recent]
                     ELSE list
  <2>1. list' = [read EXCEPT !.pc = IF read.stamp = list.node.stamp THEN "store" ELSE "redo"]
    BY DEF ListRekey
  <2>2. DOMAIN read = DOMAIN list /\ read.node = list.node /\ read.sweep = list.sweep
    BY ListFields
  <2>3. list.sweep = {}
    BY <1>1 DEF Paired, ListSees
  <2> HIDE DEF read
  <2> QED
    BY <1>0, <2>1, <2>2, <2>3, ListFields
<1>3. /\ p \in Top /\ q \in Top /\ p # q /\ Sound(db) /\ Live(db, p)
      /\ p \notin DOMAIN disk /\ q \in DOMAIN disk
  BY <1>0, <1>1 DEF IInv, DbInv, ListInv, ItemNode, Paired, ListSees, HasFile, Known
<1>4. grave[q] \in GravePath /\ ~Has(db, grave[q])
  <2>1. grave[q] \in FreeGraves
    BY <1>0, Picked DEF ListRekey
  <2> QED
    BY <2>1 DEF FreeGraves, GravePath, Has
<1>5. RowsKept(db, db', DOMAIN disk, {p, q}) /\ ~Has(db', p) /\ Live(db', q)
  BY <1>1, <1>3, <1>4, RenameFace, Zenon
<1>6. ListSees'
  BY <1>1, <1>2, <1>3, Zenon DEF ListSees, HasFile
<1>7. \A r : (ListBrings(r) => r = q) /\ (ListTakes(r) => r = p)
  BY <1>0, <1>1 DEF ListBrings, ListTakes
<1>8. FileNamed(p)' /\ RowFiled(p)' /\ FileNamed(q)' /\ RowFiled(q)'
  BY <1>1, <1>3, <1>5, Zenon DEF FileNamed, RowFiled, HasFile, Wanted, Known, Live
<1>9. {p, q} \union {} \subseteq ListHolds
  BY <1>0, <1>1 DEF ListHolds
<1>10. FilesKept(DOMAIN disk, DOMAIN disk', {})
  BY <1>1, SameDisk
<1>11. UNCHANGED <<user, up, dl>>
  BY <1>1
<1> QED
  BY <1>5, <1>6, <1>7, <1>8, <1>9, <1>10, <1>11, ListTurn

LEMMA PairsListPlace ==
    ASSUME IInv, Undisturbed, Undisturbed', Paired, ListPlace
    PROVE  Paired'
<1>0. PICK q : q = list.node.path
  OBVIOUS
<1>1. /\ UNCHANGED <<db, user, up, dl>> /\ list.pc \in {"place", "redo"}
      /\ list' = [list EXCEPT !.pc = "store", !.hydrated = FALSE]
      /\ DOMAIN disk' = DOMAIN disk \union {q}
  BY <1>0 DEF ListPlace, Write
<1>2. list'.pc = "store" /\ list'.node.path = q /\ list'.sweep = {}
  BY <1>0, <1>1, ListFields DEF Paired, ListSees
<1>3. ListBrings(q)' /\ HasFile(q)'
  BY <1>1, <1>2 DEF ListBrings, HasFile
<1>4. FileNamed(q)' /\ RowFiled(q)'
  BY <1>3 DEF FileNamed, RowFiled
<1>5. ListSees'
  BY <1>1, <1>2 DEF ListSees, HasFile
<1>6. \A r : ~ListBrings(r) /\ ~ListTakes(r)
  BY <1>1 DEF ListBrings, ListTakes
<1>7. {} \union {q} \subseteq ListHolds
  BY <1>0, <1>1 DEF ListHolds
<1>8. RowsKept(db, db', DOMAIN disk, {}) /\ FilesKept(DOMAIN disk, DOMAIN disk', {q})
  BY <1>1, SameRows DEF FilesKept
<1>9. UNCHANGED <<user, up, dl>>
  BY <1>1
<1> QED
  BY <1>4, <1>5, <1>6, <1>7, <1>8, <1>9, ListTurn

LEMMA PairsListStore ==
    ASSUME IInv, Undisturbed, Undisturbed', Paired, ListStore
    PROVE  Paired'
<1>0. PICK q, row :
        /\ q = list.node.path
        /\ row = [FromRemote(list.node.path, list.node) EXCEPT !.hydrated = list.hydrated,
                                                               !.recent = list.recent]
  OBVIOUS
<1>1. /\ UNCHANGED <<disk, user, up, dl>> /\ list.pc = "store"
      /\ db' = UpsertEntry(db, q, row)
      /\ list'.pc = "items" /\ list'.sweep = {}
  BY <1>0 DEF ListStore, ListItems, ListIdle
<1>2. q \in DOMAIN disk /\ Sound(db) /\ ~row.tomb
  BY <1>0, <1>1 DEF Paired, ListSees, HasFile, IInv, DbInv, FromRemote
<1>3. RowsKept(db, db', DOMAIN disk, {q}) /\ Live(db', q)
  BY <1>1, <1>2, UpsertFace, Zenon
<1>4. FileNamed(q)' /\ RowFiled(q)'
  BY <1>1, <1>2, <1>3 DEF FileNamed, RowFiled, HasFile
<1>5. ListSees'
  BY <1>1 DEF ListSees
<1>6. \A r : (ListBrings(r) => r = q) /\ ~ListTakes(r)
  BY <1>0, <1>1 DEF ListBrings, ListTakes
<1>7. {q} \union {} \subseteq ListHolds
  BY <1>0, <1>1 DEF ListHolds
<1>8. FilesKept(DOMAIN disk, DOMAIN disk', {})
  BY <1>1, SameDisk
<1>9. UNCHANGED <<user, up, dl>>
  BY <1>1
<1> QED
  BY <1>3, <1>4, <1>5, <1>6, <1>7, <1>8, <1>9, ListTurn

LEMMA SweepFields ==
    ASSUME NEW rest
    PROVE  /\ Sweeping(rest).sweep = rest
           /\ Sweeping(rest).pc \in {"idle", "sweep"}
           /\ Sweeping(rest).pc = "idle" => rest = {}
BY DEF Sweeping, ListIdle

LEMMA PairsListApplied ==
    ASSUME IInv, Undisturbed, Undisturbed', Paired, ListApplied
    PROVE  Paired'
<1>1. /\ UNCHANGED <<db, disk, user, up, dl>> /\ list.pc = "items"
      /\ list' = Sweeping(Verdicts)
  BY DEF ListApplied
<1>2. \A v \in Verdicts : /\ v.verdict = "forget" => ~Live(db, v.path)
                          /\ v.verdict = "renew" => Live(db, v.path)
  BY DEF Verdicts, Unlisted, Live, Has
<1>3. ListSees'
  BY <1>1, <1>2, SweepFields DEF ListSees
<1>4. \A p : ~ListBrings(p) /\ ~ListTakes(p)
  BY <1>1 DEF ListBrings, ListTakes
<1> QED
  BY <1>1, <1>3, <1>4, Untouched, ListTurn

LEMMA PairsListSweep ==
    ASSUME IInv, Undisturbed, Undisturbed', Paired, ListSweep
    PROVE  Paired'
<1>1. UNCHANGED <<user, up, dl>> /\ list.pc = "sweep"
  BY DEF ListSweep
<1>2. PICK v \in list.sweep :
         \/ /\ v.verdict = "forget"
            /\ db' = RemoveSubtree(db, v.path)
            /\ list' = Sweeping(list.sweep \ {v}) /\ UNCHANGED disk
         \/ /\ v.verdict = "renew"
            /\ db' = ClearRemoteIdentity(db, v.path)
            /\ list' = Sweeping(list.sweep \ {v}) /\ UNCHANGED disk
         \/ /\ v.verdict = "remove"
            /\ disk' = Remove(v.path)
            /\ list' = [list EXCEPT !.pc = "unrow", !.at = v.path] /\ UNCHANGED db
  BY Zenon DEF ListSweep
<1>3. PICK p : p = v.path
  OBVIOUS
<1>4. p \in Top /\ Sound(db) /\ p \in ListHolds
  BY <1>3 DEF IInv, DbInv, ListInv, ListState, ListHolds
<1>5. \A w \in list.sweep : /\ w.path \in Top
                            /\ w.verdict = "forget" => ~Live(db, w.path)
                            /\ w.verdict = "renew" => Live(db, w.path)
  BY DEF IInv, ListInv, ListState, Paired, ListSees
<1>6. FileNamed(p) /\ RowFiled(p)
  BY <1>4 DEF Paired, Pairs
<1>7. \A r : ~ListBrings(r) /\ ~ListTakes(r)
  BY <1>1 DEF ListBrings, ListTakes
<1>8. CASE /\ v.verdict = "forget"
           /\ db' = RemoveSubtree(db, v.path)
           /\ list' = Sweeping(list.sweep \ {v}) /\ UNCHANGED disk
  <2>1. RowsKept(db, db', DOMAIN disk, {p}) /\ ~Has(db', p)
    BY <1>3, <1>4, <1>8, RemoveFace, Zenon
  <2>2. ~Live(db, p)
    BY <1>3, <1>5, <1>8
  <2>3. \A r \in Top : Live(db', r) <=> Live(db, r)
    BY <2>1, <2>2 DEF RowsKept, Live
  <2>4. ListSees'
    BY <1>5, <1>8, <2>3, SweepFields DEF ListSees
  <2>5. FileNamed(p)' /\ RowFiled(p)'
    BY <1>1, <1>6, <1>7, <1>8, <2>1, <2>2
       DEF FileNamed, RowFiled, HasFile, Wanted, Known, Live, UserBrings
  <2>6. FilesKept(DOMAIN disk, DOMAIN disk', {})
    BY <1>8, SameDisk
  <2>7. {p} \union {} \subseteq ListHolds
    BY <1>4
  <2> QED
    BY <1>1, <1>7, <2>1, <2>4, <2>5, <2>6, <2>7, ListTurn
<1>9. CASE /\ v.verdict = "renew"
           /\ db' = ClearRemoteIdentity(db, v.path)
           /\ list' = Sweeping(list.sweep \ {v}) /\ UNCHANGED disk
  <2>1. Live(db, p)
    BY <1>3, <1>5, <1>9
  <2> DEFINE row == [db.rows[p] EXCEPT !.id = NoId, !.etag = 0, !.synced = NoPath,
                                       !.dirty = TRUE, !.tomb = FALSE]
  <2>2. db' = UpdateRow(db, p, row)
    BY <1>3, <1>9 DEF ClearRemoteIdentity
  <2>3. ~row.tomb /\ row.id = NoId
    BY <1>4, <2>1 DEF Sound, StoreType, Entry, Live, Has
  <2> HIDE DEF row
  <2>4. RowsKept(db, db', DOMAIN disk, {p}) /\ Live(db', p) /\ ~Known(db', p)
    BY <1>4, <2>1, <2>2, <2>3, UpdateRowFace, Zenon DEF Live
  <2>5. \A r \in Top : Live(db', r) <=> Live(db, r)
    BY <2>1, <2>4 DEF RowsKept
  <2>6. ListSees'
    BY <1>5, <1>9, <2>5, SweepFields DEF ListSees
  <2>7. FileNamed(p)' /\ RowFiled(p)'
    BY <1>1, <1>6, <1>7, <1>9, <2>1, <2>4
       DEF FileNamed, RowFiled, HasFile, Wanted, UserTakes
  <2>8. FilesKept(DOMAIN disk, DOMAIN disk', {})
    BY <1>9, SameDisk
  <2>9. {p} \union {} \subseteq ListHolds
    BY <1>4
  <2> QED
    BY <1>1, <1>7, <2>4, <2>6, <2>7, <2>8, <2>9, ListTurn
<1>10. CASE /\ v.verdict = "remove"
            /\ disk' = Remove(v.path)
            /\ list' = [list EXCEPT !.pc = "unrow", !.at = v.path] /\ UNCHANGED db
  <2>1. list'.pc = "unrow" /\ list'.at = p /\ list'.sweep = list.sweep
    BY <1>3, <1>10, ListFields
  <2>2. DOMAIN disk' = DOMAIN disk \ {p}
    BY <1>3, <1>10 DEF Remove
  <2>3. ListTakes(p)' /\ p \notin DOMAIN disk'
    BY <2>1, <2>2 DEF ListTakes
  <2>4. ListSees'
    BY <1>5, <1>10, <2>1, <2>3 DEF ListSees, HasFile
  <2>5. FileNamed(p)' /\ RowFiled(p)'
    BY <2>3 DEF FileNamed, RowFiled, HasFile
  <2>6. RowsKept(db, db', DOMAIN disk, {}) /\ FilesKept(DOMAIN disk, DOMAIN disk', {p})
    BY <1>10, <2>2, SameRows DEF FilesKept
  <2>7. {} \union {p} \subseteq ListHolds
    BY <1>4
  <2> QED
    BY <1>1, <1>7, <2>4, <2>5, <2>6, <2>7, ListTurn
<1> QED
  BY <1>2, <1>8, <1>9, <1>10

LEMMA PairsListUnrow ==
    ASSUME IInv, Undisturbed, Undisturbed', Paired, ListUnrow
    PROVE  Paired'
<1>0. PICK p : p = list.at
  OBVIOUS
<1>1. /\ UNCHANGED <<disk, user, up, dl>> /\ list.pc = "unrow"
      /\ db' = RemoveSubtree(db, p)
      /\ list' = Sweeping({v \in list.sweep : v.path # p})
  BY <1>0 DEF ListUnrow
<1>2. p \in Top /\ Sound(db) /\ p \notin DOMAIN disk
  BY <1>0, <1>1 DEF IInv, DbInv, ListInv, Paired, ListSees, HasFile
<1>3. RowsKept(db, db', DOMAIN disk, {p}) /\ ~Has(db', p)
  BY <1>1, <1>2, RemoveFace, Zenon
<1>4. \A w \in list.sweep : /\ w.path \in Top
                            /\ w.verdict = "forget" => ~Live(db, w.path)
                            /\ w.verdict = "renew" => Live(db, w.path)
  BY DEF IInv, ListInv, ListState, Paired, ListSees
<1>5. ListSees'
  <2> DEFINE rest == {v \in list.sweep : v.path # p}
  <2>1. \A w \in rest : /\ w.verdict = "forget" => ~Live(db', w.path)
                        /\ w.verdict = "renew" => Live(db', w.path)
    BY <1>3, <1>4 DEF RowsKept
  <2>2. list'.sweep = rest /\ list'.pc \in {"idle", "sweep"} /\ (list'.pc = "idle" => rest = {})
    BY <1>1, SweepFields
  <2> HIDE DEF rest
  <2> QED
    BY <2>1, <2>2 DEF ListSees
<1>6. \A r : ~ListBrings(r) /\ (ListTakes(r) => r = p)
  BY <1>0, <1>1 DEF ListBrings, ListTakes
<1>7. FileNamed(p)' /\ RowFiled(p)'
  BY <1>1, <1>2, <1>3 DEF FileNamed, RowFiled, HasFile, Wanted, Known, Live
<1>8. {p} \union {} \subseteq ListHolds
  BY <1>0, <1>1 DEF ListHolds
<1>9. FilesKept(DOMAIN disk, DOMAIN disk', {})
  BY <1>1, SameDisk
<1>10. UNCHANGED <<user, up, dl>>
  BY <1>1
<1> QED
  BY <1>3, <1>5, <1>6, <1>7, <1>8, <1>9, <1>10, ListTurn
-----------------------------------------------------------------------------
\* ---- A download.
LEMMA DlFields ==
    ASSUME IInv
    PROVE  DOMAIN dl = {"pc", "path", "node", "data"}
BY DEF IInv, DlInv, DlState

\* The row a download read again before it takes its place is alive.
LEMMA PairsDlReads ==
    ASSUME IInv, Undisturbed, Undisturbed', Paired, DlStart \/ DlOpen \/ DlCheck
    PROVE  Paired'
<1>1. UNCHANGED <<db, disk, user, up, list>>
  BY Zenon DEF DlStart, DlOpen, DlCheck
<1>2. DlSees'
  <2>1. CASE DlStart
    <3>1. dl'.pc = "open"
      BY <2>1, Zenon DEF DlStart, DlIdle
    <3> QED
      BY <3>1 DEF DlSees
  <2>2. CASE DlOpen
    <3>1. dl'.pc # "commit"
      BY <2>2, DlFields DEF DlOpen, DlIdle
    <3> QED
      BY <3>1 DEF DlSees
  <2>3. CASE DlCheck
    <3>1. CASE StillWanted
      <4>1. dl'.path = dl.path
        BY <2>3, <3>1, DlFields DEF DlCheck
      <4> QED
        BY <1>1, <3>1, <4>1 DEF StillWanted, DlSees
    <3>2. CASE ~StillWanted
      BY <2>3, <3>2 DEF DlCheck, DlIdle, DlSees
    <3> QED
      BY <3>1, <3>2
  <2> QED
    BY <2>1, <2>2, <2>3
<1> QED
  BY <1>1, <1>2, Untouched, DlTurn

LEMMA PairsDlCommit ==
    ASSUME IInv, Undisturbed, Undisturbed', Paired, DlCommit
    PROVE  Paired'
<1>0. PICK p : p = dl.path
  OBVIOUS
<1>1. /\ UNCHANGED <<db, user, up, list>> /\ dl.pc = "commit"
      /\ DOMAIN disk' = DOMAIN disk \union {p}
      /\ dl' = [dl EXCEPT !.pc = "mark"]
  BY <1>0 DEF DlCommit, Write
<1>2. Live(db, p)
  BY <1>0, <1>1 DEF Paired, DlSees
<1>3. FileNamed(p)' /\ RowFiled(p)'
  BY <1>1, <1>2 DEF FileNamed, RowFiled, HasFile
<1>4. dl'.pc = "mark"
  BY <1>1, DlFields
<1>5. DlSees'
  BY <1>4 DEF DlSees
<1>6. {p} \subseteq DlHolds
  BY <1>0, <1>1 DEF DlHolds
<1>7. RowsKept(db, db', DOMAIN disk, {}) /\ FilesKept(DOMAIN disk, DOMAIN disk', {p})
  BY <1>1, SameRows DEF FilesKept
<1>8. UNCHANGED <<user, up, list>>
  BY <1>1
<1> QED
  BY <1>3, <1>5, <1>6, <1>7, <1>8, DlTurn

LEMMA PairsDlMark ==
    ASSUME IInv, Undisturbed, Undisturbed', Paired, DlMark
    PROVE  Paired'
<1>1. UNCHANGED <<disk, user, up, list>> /\ dl'.pc = "idle"
  BY DEF DlMark, DlIdle
<1>2. RowsKept(db, db', DOMAIN disk, {})
  <2>0. PICK p : p = dl.path
    OBVIOUS
  <2>1. Sound(db)
    BY DEF IInv, DbInv
  <2>2. db' = MarkHydrated(db, p, disk[p].stamp) \/ UNCHANGED db
    BY <2>0 DEF DlMark
  <2> QED
    BY <2>1, <2>2, MarkHydratedQuiet, SameRows
<1>3. DlSees'
  BY <1>1 DEF DlSees
<1>4. FilesKept(DOMAIN disk, DOMAIN disk', {})
  BY <1>1, SameDisk
<1> QED
  BY <1>1, <1>2, <1>3, <1>4, DlTurn

LEMMA PairsDlAdopt ==
    ASSUME IInv, Undisturbed, Undisturbed', Paired, DlAdopt
    PROVE  Paired'
<1>1. UNCHANGED <<db, user, up, list>>
  BY DEF DlAdopt
<1>2. PICK p \in DOMAIN db.rows :
         /\ Live(db, p)
         /\ dl' = [DlIdle EXCEPT !.pc = "mark", !.path = p]
         /\ DOMAIN disk' = DOMAIN disk \union {p}
  <2>1. PICK p \in DOMAIN db.rows :
           /\ Live(db, p)
           /\ dl' = [DlIdle EXCEPT !.pc = "mark", !.path = p]
           /\ IF p \in DOMAIN disk
              THEN UNCHANGED <<disk, clock>>
              ELSE clock' = clock + 1 /\ disk' = Write(p, Hole, clock')
    BY Zenon DEF DlAdopt
  <2>2. DOMAIN disk' = DOMAIN disk \union {p}
    BY <2>1 DEF Write
  <2> QED
    BY <2>1, <2>2, Zenon
<1>3. dl'.pc = "mark" /\ dl'.path = p
  BY <1>2 DEF DlIdle
<1>4. FileNamed(p)' /\ RowFiled(p)'
  BY <1>1, <1>2 DEF FileNamed, RowFiled, HasFile
<1>5. DlSees' /\ {p} \subseteq DlHolds'
  BY <1>3 DEF DlSees, DlHolds
<1>6. RowsKept(db, db', DOMAIN disk, {}) /\ FilesKept(DOMAIN disk, DOMAIN disk', {p})
  BY <1>1, <1>2, SameRows DEF FilesKept
<1>7. UNCHANGED <<user, up, list>>
  BY <1>1
<1> QED
  BY <1>4, <1>5, <1>6, <1>7, DlTurn
-----------------------------------------------------------------------------
\* ---- The daemon stops where nobody is half way: every file has its row, and
\* the rows whose files are gone get them back.
LEMMA PairsRestart ==
    ASSUME IInv, Undisturbed, Undisturbed', Paired, Restart
    PROVE  Paired'
<1>1. UserHolds = {} /\ ListHolds = {}
  BY Zenon DEF Restart, Undisturbed
<1>2. \A p : ~UserBrings(p) /\ ~UserTakes(p) /\ ~ListBrings(p) /\ ~ListTakes(p)
  BY <1>1 DEF UserBrings, UserTakes, ListBrings, ListTakes, UserHolds, ListHolds
<1>3. user' = UserIdle /\ up' = UpIdle /\ list' = ListIdle /\ dl' = DlIdle
  BY DEF Restart
<1>4. UserSees' /\ UpSees' /\ ListSees' /\ DlSees'
  BY <1>3 DEF UserSees, UpSees, ListSees, DlSees, UserIdle, UpIdle, ListIdle, DlIdle
<1>5. DOMAIN disk' = DOMAIN disk \union Missing
  BY DEF Restart, ReconciledDisk
<1>6. /\ DOMAIN db'.rows = DOMAIN db.rows
      /\ \A p \in DOMAIN db.rows : db'.rows[p] = ReconciledRow(p)
  <2>1. Sound(db)
    BY DEF IInv, DbInv
  <2> DEFINE rows == [p \in DOMAIN db.rows |-> ReconciledRow(p)]
  <2>2. db'.rows = rows
    BY <2>1 DEF Restart, Sound, StoreType
  <2>3. DOMAIN rows = DOMAIN db.rows /\ \A p \in DOMAIN db.rows : rows[p] = ReconciledRow(p)
    OBVIOUS
  <2> HIDE DEF rows
  <2> QED
    BY <2>2, <2>3
<1>7. ASSUME NEW p \in DOMAIN db.rows  PROVE ReconciledRow(p).tomb = db.rows[p].tomb
  <2>1. db.rows[p] \in Entry
    BY DEF IInv, DbInv, Sound, StoreType
  <2> QED
    BY <2>1 DEF ReconciledRow, Entry
<1>8. \A p : Live(db', p) <=> Live(db, p)
  BY <1>6, <1>7 DEF Live, Has
<1>9. ASSUME NEW p \in Top  PROVE FileNamed(p)' /\ RowFiled(p)'
  <2>1. p \in DOMAIN disk => Live(db, p)
    BY <1>2 DEF Paired, Pairs, FileNamed, HasFile
  <2>2. p \in Missing <=> Live(db, p) /\ p \notin DOMAIN disk
    BY DEF Missing, Live, Has
  <2>3. p \in DOMAIN disk' <=> Live(db', p)
    BY <1>5, <1>8, <2>1, <2>2
  <2> QED
    BY <2>3 DEF FileNamed, RowFiled, HasFile, Wanted, Known
<1> QED
  BY <1>4, <1>9 DEF Paired, Pairs

\* ---- What happens elsewhere changes neither side of a pair.
LEMMA PairsStill ==
    ASSUME Paired, UNCHANGED <<db, disk, user, up, list, dl>>
    PROVE  Paired'
BY DEF Paired, Pairs, FileNamed, RowFiled, HasFile, UserBrings, UserTakes, ListBrings,
       ListTakes, UserSees, UpSees, ListSees, DlSees
-----------------------------------------------------------------------------
\* An overlap is remembered, so a state without one was reached without one.
LEMMA Remembered ==
    ASSUME [Next]_vars, Undisturbed'
    PROVE  Undisturbed
<1>1. CASE UserBegin \/ UserContinues
  BY ZenonT(60), <1>1 DEF UserBegin, UserContinues, UserHydrated, UserGivesUp, UserWrites, UserCreates,
     UserRemoves, UserMoves, UserTouches, UserRecords, UserForgets, UserRenames,
     UserRecordsTime, UserQueues, Watch, Undisturbed
<1>2. CASE Uploader
  BY ZenonT(60), <1>2 DEF Uploader, UpStart, UpTombstone, UpForget, UpFile, UpMissing, UpMove,
     UpReplace, UpSend, UpMeta, UpAdopt, UpClean, UpEnd, Watch, Undisturbed
<1>3. CASE Lister
  BY ZenonT(40), <1>3 DEF Lister, ListStart, ListItem, ListConflict, ListDetach, ListOccupant,
     ListRelocate, ListRekey, ListPlace, ListStore, ListApplied, ListSweep, ListUnrow,
     Watch, Undisturbed
<1>4. CASE Downloader
  BY <1>4, Zenon DEF Downloader, DlStart, DlOpen, DlCheck, DlCommit, DlMark, DlAdopt,
     Watch, Undisturbed
<1>5. CASE Restart
  BY <1>5, Zenon DEF Restart, Undisturbed
<1>6. CASE Elsewhere
  BY <1>6, Zenon DEF Elsewhere, RemoteAdd, RemoteEdit, RemoteDelete, RemoteRename, AsIfElsewhere,
     Undisturbed
<1>7. CASE UNCHANGED vars
  BY <1>7 DEF vars, Undisturbed, Overlap, UserHolds, UpHolds, ListHolds, DlHolds, UserWaits,
     UserSwaps, UpSends, UpRecords, Outdates, Stale, Fetched, OutOfOrder
<1> QED
  BY Zenon, <1>1, <1>2, <1>3, <1>4, <1>5, <1>6, <1>7 DEF Next

\* Every step keeps the pairs.
LEMMA PairsInductive == IInv /\ OInv /\ [Next]_vars => OInv'
<1> SUFFICES ASSUME IInv, OInv, [Next]_vars, Undisturbed'  PROVE Paired'
  BY DEF OInv
<1>0. Undisturbed /\ Paired
  BY Remembered DEF OInv
<1>1. CASE UserBegin \/ UserContinues
  BY <1>0, <1>1, PairsUserBegin, PairsUserWait, PairsUserWrites, PairsUserCreates,
     PairsUserRemoves, PairsUserMoves, PairsUserTouches, PairsUserRecords,
     PairsUserForgets, PairsUserRenames, PairsUserRecordsTime, PairsUserQueues
     DEF UserContinues
<1>2. CASE Uploader
  BY <1>0, <1>2, PairsUpStart, PairsUpTombstone, PairsUpForget, PairsUpFile,
     PairsUpMissing, PairsUpMove, PairsUpReplaceSend, PairsUpMeta, PairsUpAdopt,
     PairsUpClean, PairsUpEnd DEF Uploader
<1>3. CASE Lister
  BY <1>0, <1>3, PairsListStart, PairsListItem, PairsListConflict, PairsListDetach,
     PairsListOccupant, PairsListRelocate, PairsListRekey, PairsListPlace,
     PairsListStore, PairsListApplied, PairsListSweep, PairsListUnrow DEF Lister
<1>4. CASE Downloader
  BY <1>0, <1>4, PairsDlReads, PairsDlCommit, PairsDlMark, PairsDlAdopt DEF Downloader
<1>5. CASE Restart
  BY <1>0, <1>5, PairsRestart
<1>6. CASE Elsewhere
  BY <1>0, <1>6, PairsStill DEF Elsewhere
<1>7. CASE UNCHANGED vars
  BY <1>0, <1>7, PairsStill DEF vars
<1> QED
  BY <1>1, <1>2, <1>3, <1>4, <1>5, <1>6, <1>7 DEF Next

\* At the start every item that is listed has its row and its file.
LEMMA PairsInitially == Init => OInv
<1> SUFFICES ASSUME Init  PROVE Paired
  BY DEF OInv
<1> DEFINE seeded == {Join(Root, Seed[i]) : i \in DOMAIN Seed}
           idAt(p) == CHOOSE i \in DOMAIN Seed : Join(Root, Seed[i]) = p
           item(i) == [path |-> Join(Root, Seed[i]), kind |-> "file", data |-> i,
                       stamp |-> i, etag |-> 1]
           row(p, down) == [FromRemote(p, Node(cloud, idAt(p))) EXCEPT !.hydrated = p \in down]
<1>0. PICK downloaded \in SUBSET seeded :
        /\ cloud = [i \in DOMAIN Seed |-> item(i)]
        /\ db = [rows |-> [p \in seeded |-> row(p, downloaded)], ops |-> {}]
        /\ disk = [p \in seeded |->
                     [data |-> IF p \in downloaded THEN idAt(p) ELSE Hole, stamp |-> idAt(p)]]
  BY Zenon DEF Init
<1>1. /\ user = UserIdle /\ up = UpIdle /\ list = ListIdle /\ dl = DlIdle
      /\ DOMAIN disk = seeded
  BY <1>0 DEF Init
<1>2. UserSees /\ UpSees /\ ListSees /\ DlSees
  BY <1>1 DEF UserSees, UpSees, ListSees, DlSees, UserIdle, UpIdle, ListIdle, DlIdle
<1>3. /\ DOMAIN db.rows = seeded
      /\ \A p \in seeded : ~db.rows[p].tomb
  <2>1. ASSUME NEW p  PROVE ~row(p, downloaded).tomb
    BY DEF FromRemote
  <2> HIDE DEF row, seeded
  <2> QED
    BY <1>0, <2>1
<1> HIDE DEF seeded, row, idAt, item
<1>4. \A p \in Top : FileNamed(p) /\ RowFiled(p)
  BY <1>1, <1>3 DEF FileNamed, RowFiled, HasFile, Live, Has, Wanted, Known
<1> QED
  BY <1>2, <1>4 DEF Paired, Pairs

LEMMA PairsHold == Spec => [](IInv /\ OInv)
<1>1. Init => IInv /\ OInv
  BY Initially, PairsInitially
<1>2. IInv /\ OInv /\ [Next]_vars => IInv' /\ OInv'
  BY Inductive, PairsInductive
<1> QED
  BY <1>1, <1>2, PTL DEF Spec

\* A file in the mirror has a live row, for any number of files, calls,
\* passes, listings, downloads, crashes and changes elsewhere, failed calls
\* included, as long as no two actors met on a path: no step of fs.rs,
\* upload.rs, remote.rs or download.rs leaves a file that shows in the folder
\* and that no pass would ever send.
THEOREM NoOrphan == Spec => []NoOrphanFile
<1>1. IInv /\ OInv => NoOrphanFile
  <2> SUFFICES ASSUME IInv, OInv, Undisturbed,
                      NEW p \in DOMAIN disk \ (UserHolds \union ListHolds \union UpHolds)
               PROVE  Live(db, p)
    BY DEF NoOrphanFile
  <2>1. p \in Top /\ Pairs
    BY DEF IInv, DiskInv, OInv, Paired
  <2> QED
    BY <2>1, Named
<1> QED
  BY <1>1, PairsHold, PTL

\* The converse: a row that iCloud knows, or one made here, has its file in the
\* mirror, on the paths nobody is in the middle of changing; only the copy a
\* conflict put aside may lack one (remote.rs moves the file only if it is
\* there, and the row in any case).
THEOREM RowsHaveFiles ==
    Spec => [](Undisturbed =>
                 \A p \in DOMAIN db.rows \ (UserHolds \union ListHolds) :
                     Wanted(db, p) => p \in DOMAIN disk)
<1>1. IInv /\ OInv =>
        (Undisturbed =>
           \A p \in DOMAIN db.rows \ (UserHolds \union ListHolds) :
               Wanted(db, p) => p \in DOMAIN disk)
  <2> SUFFICES ASSUME IInv, OInv, Undisturbed,
                      NEW p \in DOMAIN db.rows \ (UserHolds \union ListHolds), Wanted(db, p)
               PROVE  p \in DOMAIN disk
    OBVIOUS
  <2>1. p \in Top /\ Pairs
    BY DEF IInv, DbInv, Sound, OInv, Paired
  <2>2. ~UserTakes(p) /\ ~ListTakes(p)
    BY DEF UserTakes, ListTakes, UserHolds, ListHolds
  <2> QED
    BY <2>1, <2>2, Present
<1> QED
  BY <1>1, PairsHold, PTL
-----------------------------------------------------------------------------
(***************************************************************************)
(* Edits.  EditSafe is not inductive either: content that is owed may be   *)
(* on its way from one path to another, with its row still to follow, or   *)
(* recorded and not yet queued.  A path is `guarded' when what is there    *)
(* will be due in the end; a step that overwrites or discards a file, or   *)
(* forgets what is queued for it, knows that nothing owed is there.        *)
(***************************************************************************)

\* A listing is about to put a file in a place where a local change is: the
\* only way a change is lost (remote.rs:197-206).
Overwrites ==
    list.pc = "relocate" /\ Has(db, list.node.path) /\ db.rows[list.node.path].dirty

\* The name of a conflict's copy comes free while the copy's upload is being
\* recorded.  Names hold the second they were made in (remote.rs:267).
Recycled == up.pc = "meta" /\ up.path \in FreeConflicts

OwedAt(p) == p \in DOMAIN disk /\ disk[p].data \in owed

\* The next pass will send what is at p.
Due(st, p) == Ready(st, p) /\ HasPendingContentChange(st, p)

\* Whoever is in the middle of recording a file, and what he needs for that.
Detaching(p) == list.pc = "detach" /\ p = list.to
Queueing(p) == user.pc = "queue" /\ user.op \in {"write", "create"} /\ p = user.path
Guarded(p) ==
    /\ UserBrings(p) /\ user.op = "rename" => Due(db, user.path)
    /\ Detaching(p) => Full(db, list.at)
    /\ Queueing(p) => Ready(db, p)
    /\ UserBrings(p) \/ Detaching(p) \/ Queueing(p) \/ Due(db, p)

Found == \A v \in owed : \E p \in DOMAIN disk : disk[p].data = v
Guards == \A p \in Top : OwedAt(p) => Guarded(p)

\* What each actor knows of the files it will overwrite, discard or settle.
UserKnows == user.pc = "queue" /\ user.op = "unlink" => ~OwedAt(user.path)
UpKnows == up.pc \in {"adopt", "clean"} \/ (up.pc = "move" /\ ~up.changed)
             => ~OwedAt(up.path)
Settles == up.pc = "meta" /\ up.path \in DOMAIN disk /\ disk[up.path].stamp = up.before
             => ~OwedAt(up.path)
ListKnows ==
    /\ list.pc = "relocate" => ~OwedAt(list.at)
    /\ list.pc \in {"rekey", "redo", "place", "store"} => ~OwedAt(list.node.path)
    /\ list.pc \in {"conflict", "detach"} /\ list.then = "place" => list.at = list.node.path
    /\ \A v \in list.sweep : v.verdict = "remove" => ~OwedAt(v.path)
DlKnows == dl.pc = "commit" => ~OwedAt(dl.path)

Kept == Found /\ Guards /\ UserKnows /\ UpKnows /\ Settles /\ ListKnows /\ DlKnows
-----------------------------------------------------------------------------
\* Outside R what was due is due.
Steady(a, b, R) ==
    \A p \in Top \ R : /\ Full(a, p) => Full(b, p)
                       /\ Ready(a, p) => Ready(b, p)
                       /\ HasPendingContentChange(a, p) => HasPendingContentChange(b, p)

LEMMA AlikeSteady == ASSUME NEW a, NEW b, NEW R, Alike(a, b, R)  PROVE Steady(a, b, R)
BY DEF Alike, Steady, Full, Ready, Live, Has

LEMMA SameSteady == ASSUME NEW R, UNCHANGED db  PROVE Steady(db, db', R)
BY DEF Steady

\* An update that takes neither content nor mark from a row.
LEMMA UpdateSteady ==
    ASSUME NEW st, Sound(st), NEW p, NEW row,
           Full(st, p) => row.hydrated,
           Ready(st, p) => ~row.tomb /\ row.dirty
    PROVE  Steady(st, UpdateRow(st, p, row), {})
<1>0. /\ RowsKept(st, UpdateRow(st, p, row), {}, {p})
      /\ \A q : Has(UpdateRow(st, p, row), q) <=> Has(st, q)
      /\ Live(UpdateRow(st, p, row), p) <=> Has(st, p) /\ ~row.tomb
      /\ Known(UpdateRow(st, p, row), p) <=> Has(st, p) /\ ~row.tomb /\ row.id # NoId
      /\ Alike(st, UpdateRow(st, p, row), {p})
      /\ Has(st, p) => UpdateRow(st, p, row).rows[p] = row
      /\ \A c : Marked(st, c) /\ (Has(st, p) => row.stamp <= c)
                   => Marked(UpdateRow(st, p, row), c)
  BY UpdateRowFace, Zenon
<1> DEFINE new == UpdateRow(st, p, row)
<1>2. new.ops = st.ops
  BY DEF UpdateRow, Sound, StoreType
<1> HIDE DEF new
<1>1. /\ Alike(st, new, {p})
      /\ \A q : Has(new, q) <=> Has(st, q)
      /\ Has(st, p) => new.rows[p] = row
      /\ Live(new, p) <=> Has(st, p) /\ ~row.tomb
  BY <1>0 DEF new
<1>3. Steady(st, new, {p})
  BY <1>1, AlikeSteady
<1>4. /\ Full(st, p) => Full(new, p)
      /\ Ready(st, p) => Ready(new, p)
      /\ HasPendingContentChange(st, p) => HasPendingContentChange(new, p)
  BY <1>1, <1>2 DEF Full, Ready, Live, HasPendingContentChange
<1> QED
  BY <1>3, <1>4 DEF Steady, new
-----------------------------------------------------------------------------
\* What an actor knows stays true while another one works elsewhere, on the
\* rows R and the files D.
LEMMA UserKnowsStill ==
    ASSUME IInv, UserKnows, UNCHANGED user, NEW D,
           \A p \in Top \ D : OwedAt(p)' => OwedAt(p),
           \A p \in D : p \in Top => p \notin UserHolds
    PROVE  UserKnows'
<1>1. user.pc = "queue" => user.path \in Top /\ user.path \in UserHolds
  BY DEF IInv, UserInv, UserHolds
<1> QED
  BY <1>1 DEF UserKnows

LEMMA UpKnowsStill ==
    ASSUME IInv, UpKnows, UNCHANGED up, NEW D,
           \A p \in Top \ D : OwedAt(p)' => OwedAt(p),
           \A p \in D : p \in Top => p \notin UpHolds
    PROVE  UpKnows'
<1>1. up.pc \in {"adopt", "clean"} \/ (up.pc = "move" /\ ~up.changed)
        => up.path \in Top /\ up.path \in UpHolds
  BY DEF IInv, UpInv, UpHolds
<1> QED
  BY <1>1 DEF UpKnows

LEMMA ListKnowsStill ==
    ASSUME IInv, ListKnows, UNCHANGED list, NEW D,
           \A p \in Top \ D : OwedAt(p)' => OwedAt(p),
           \A p \in D : p \in Top => p \notin ListHolds
    PROVE  ListKnows'
<1>1. /\ list.pc \notin {"idle", "items", "sweep", "unrow"} => list.node.path \in Top
      /\ list.pc = "relocate" => list.at \in Top
      /\ \A v \in list.sweep : v.path \in Top
  BY DEF IInv, ListInv, ListState, ItemNode
<1>2. /\ \A v \in list.sweep : v.path \in ListHolds
      /\ list.pc \notin {"idle", "items", "sweep"} =>
            list.node.path \in ListHolds /\ list.at \in ListHolds
  BY DEF ListHolds
<1>3. \A v \in list.sweep : OwedAt(v.path)' => OwedAt(v.path)
  BY <1>1, <1>2
<1>4. list.pc = "relocate" => (OwedAt(list.at)' => OwedAt(list.at))
  BY <1>1, <1>2
<1>5. list.pc \in {"rekey", "redo", "place", "store"} =>
        (OwedAt(list.node.path)' => OwedAt(list.node.path))
  BY <1>1, <1>2
<1> QED
  BY <1>3, <1>4, <1>5 DEF ListKnows

LEMMA DlKnowsStill ==
    ASSUME IInv, DlKnows, UNCHANGED dl, NEW D,
           \A p \in Top \ D : OwedAt(p)' => OwedAt(p),
           \A p \in D : p \in Top => p \notin DlHolds
    PROVE  DlKnows'
<1>1. dl.pc = "commit" => dl.path \in Top /\ dl.path \in DlHolds
  BY DEF IInv, DlInv, DlHolds
<1> QED
  BY <1>1 DEF DlKnows

\* Where nothing changes a path stays guarded.
LEMMA GuardsStill ==
    ASSUME IInv, Guards, NEW R, NEW D, Steady(db, db', R),
           \A p \in Top \ D : OwedAt(p)' => OwedAt(p),
           \A p \in Top \ (R \union D) :
              /\ UserBrings(p)' <=> UserBrings(p)
              /\ Detaching(p)' <=> Detaching(p)
              /\ Queueing(p)' <=> Queueing(p)
              /\ (UserBrings(p) /\ user.op = "rename") \/ (UserBrings(p)' /\ user'.op = "rename") =>
                    user'.op = user.op /\ user'.path = user.path /\ user.path \notin R
              /\ Detaching(p) => list'.at = list.at /\ list.at \notin R,
           \A p \in Top : p \in R \union D => (OwedAt(p)' => Guarded(p)')
    PROVE  Guards'
<1> SUFFICES ASSUME NEW p \in Top, p \notin R \union D, OwedAt(p)'  PROVE Guarded(p)'
  BY DEF Guards
<1>1. Guarded(p)
  BY DEF Guards
<1>2. /\ Full(db, p) => Full(db', p)
      /\ Ready(db, p) => Ready(db', p)
      /\ Due(db, p) => Due(db', p)
  BY DEF Steady, Due
<1>3. UserBrings(p)' /\ user'.op = "rename" => Due(db', user'.path)
  <2>1. UserBrings(p)' => user.path \in Top
    BY DEF UserBrings, IInv, UserInv
  <2> QED
    BY <1>1, <2>1 DEF Guarded, Steady, Due
<1>4. Detaching(p)' => Full(db', list'.at)
  <2>1. Detaching(p) => list.at \in Top
    BY DEF Detaching, IInv, ListInv
  <2> QED
    BY <1>1, <2>1 DEF Guarded, Steady
<1> QED
  BY <1>1, <1>2, <1>3, <1>4 DEF Guarded

\* What was found is found again, unless it is owed no more.
LEMMA FoundStill ==
    ASSUME Found, owed' \subseteq owed,
           \A p \in DOMAIN disk : disk[p].data \in owed' =>
              \E q \in DOMAIN disk' : disk'[q].data = disk[p].data
    PROVE  Found'
BY DEF Found

\* Files that stay as they are.
LEMMA SettlesStill ==
    ASSUME Settles, UNCHANGED up, NEW D,
           \A p \in Top \ D : OwedAt(p)' => OwedAt(p),
           \A p \in Top \ D : p \in DOMAIN disk' =>
              p \in DOMAIN disk /\ disk'[p].stamp = disk[p].stamp,
           IInv,
           up.pc = "meta" /\ up.path \in D /\ up.path \in DOMAIN disk' /\ disk'[up.path].stamp = up.before
              => ~OwedAt(up.path)'
    PROVE  Settles'
<1>1. up.pc = "meta" => up.path \in Top
  BY DEF IInv, UpInv
<1> QED
  BY <1>1 DEF Settles
-----------------------------------------------------------------------------
(***************************************************************************)
(* Contents and times are numbers, given in order: what is owed has a      *)
(* number of its own, and nothing bears one that was not given yet.        *)
(***************************************************************************)
FilesUpTo(d, c) == \A p \in DOMAIN d : d[p].data <= c /\ d[p].stamp <= c

OwedUpTo == \A v \in owed : v > 0 /\ v <= clock
DiskUpTo == FilesUpTo(disk, clock)
CloudUpTo == \A i \in DOMAIN cloud :
                cloud[i].data <= clock /\ cloud[i].stamp <= clock /\ cloud[i].data \notin owed
UserUpTo == user.stamp <= clock
UpUpTo == up.before <= clock /\ (up.pc = "clean" => up.node.stamp <= clock)
ListUpTo ==
    /\ \A n \in list.items : n.stamp <= clock
    /\ list.pc \notin {"idle", "items", "sweep", "unrow"} => list.node.stamp <= clock
DlUpTo ==
    /\ dl.pc \in {"open", "check", "commit"} => dl.node.stamp <= clock
    /\ dl.pc \in {"check", "commit"} => dl.data <= clock /\ dl.data \notin owed

Counted ==
    /\ OwedUpTo /\ DiskUpTo /\ Marked(db, clock) /\ CloudUpTo
    /\ UserUpTo /\ UpUpTo /\ ListUpTo /\ DlUpTo

\* The inductive invariant.
EInv == Undisturbed => Kept /\ Counted

\* What does not change stays counted while new numbers are given.
LEMMA CountedKept ==
    ASSUME IInv, Counted, clock' = clock \/ clock' = clock + 1,
           \A v \in owed' : v \in owed \/ (v = clock' /\ clock' = clock + 1),
           UNCHANGED disk \/ DiskUpTo',
           UNCHANGED db \/ Marked(db', clock'),
           UNCHANGED cloud \/ CloudUpTo',
           UNCHANGED user \/ UserUpTo', UNCHANGED up \/ UpUpTo',
           UNCHANGED list \/ ListUpTo', UNCHANGED dl \/ DlUpTo'
    PROVE  Counted'
<1>1. clock \in Nat /\ owed \subseteq Nat
  BY DEF IInv, RestInv
<1>2. ASSUME NEW n \in Nat, n <= clock  PROVE n <= clock' /\ (n \in owed' => n \in owed)
  BY <1>1, <1>2
<1>3. OwedUpTo'
  <2>1. ASSUME NEW v \in owed'  PROVE v > 0 /\ v <= clock'
    <3>1. v \in owed => v > 0 /\ v <= clock /\ v \in Nat
      BY <1>1 DEF Counted, OwedUpTo
    <3> QED
      BY <1>1, <2>1, <3>1
  <2> QED
    BY <2>1 DEF OwedUpTo
<1>4. DiskUpTo'
  <2>1. \A p \in DOMAIN disk : disk[p].data \in Nat /\ disk[p].stamp \in Nat
    BY DEF IInv, DiskInv, File
  <2> QED
    BY <1>2, <2>1 DEF Counted, DiskUpTo, FilesUpTo
<1>5. Marked(db', clock')
  <2>1. \A p \in DOMAIN db.rows : db.rows[p].stamp \in Nat
    BY DEF IInv, DbInv, Sound, StoreType, Entry
  <2> QED
    BY <1>2, <2>1 DEF Counted, Marked
<1>6. CloudUpTo'
  <2>1. \A i \in DOMAIN cloud : cloud[i].data \in Nat /\ cloud[i].stamp \in Nat
    BY DEF IInv, CloudInv, CloudOK, Item
  <2> QED
    BY <1>2, <2>1 DEF Counted, CloudUpTo
<1>7. UserUpTo'
  <2>1. user.stamp \in Nat
    BY DEF IInv, UserInv, UserState
  <2> QED
    BY <1>2, <2>1 DEF Counted, UserUpTo
<1>8. UpUpTo'
  <2>1. up.before \in Nat /\ up.node.stamp \in Nat
    BY DEF IInv, UpInv, UpState, NodeType
  <2> QED
    BY <1>2, <2>1 DEF Counted, UpUpTo
<1>9. ListUpTo'
  <2>1. list.node.stamp \in Nat /\ \A n \in list.items : n.stamp \in Nat
    BY DEF IInv, ListInv, ListState, NodeType, ItemNode
  <2> QED
    BY <1>2, <2>1 DEF Counted, ListUpTo
<1>10. DlUpTo'
  <2>1. dl.node.stamp \in Nat /\ dl.data \in Nat
    BY DEF IInv, DlInv, DlState, NodeType
  <2> QED
    BY <1>2, <2>1 DEF Counted, DlUpTo
<1> QED
  BY <1>3, <1>4, <1>5, <1>6, <1>7, <1>8, <1>9, <1>10 DEF Counted

LEMMA FilesCounted ==
    ASSUME NEW c, FilesUpTo(disk, c), NEW p, NEW q
    PROVE  /\ \A data, stamp : data <= c /\ stamp <= c => FilesUpTo(Write(p, data, stamp), c)
           /\ FilesUpTo(Remove(p), c)
           /\ p \in DOMAIN disk => FilesUpTo(Moved(p, q), c)
<1>1. ASSUME NEW data, NEW stamp, data <= c, stamp <= c
      PROVE  FilesUpTo(Write(p, data, stamp), c)
  BY <1>1 DEF FilesUpTo, Write
<1>2. FilesUpTo(Remove(p), c)
  BY DEF FilesUpTo, Remove
<1>3. ASSUME p \in DOMAIN disk  PROVE FilesUpTo(Moved(p, q), c)
  BY <1>3 DEF FilesUpTo, Moved
<1> QED
  BY <1>1, <1>2, <1>3

\* The files a step keeps stay counted while a number is given.
LEMMA FilesStill ==
    ASSUME IInv, Counted, clock' = clock \/ clock' = clock + 1
    PROVE  FilesUpTo(disk, clock') /\ Marked(db, clock')
<1>1. clock \in Nat
  BY DEF IInv, RestInv
<1>2. /\ \A p \in DOMAIN disk : disk[p].data \in Nat /\ disk[p].stamp \in Nat
      /\ \A p \in DOMAIN db.rows : db.rows[p].stamp \in Nat
  BY DEF IInv, DiskInv, File, DbInv, Sound, StoreType, Entry
<1> QED
  BY <1>1, <1>2 DEF Counted, DiskUpTo, FilesUpTo, Marked

\* The rows are left to the lemmas on the single steps.
LEMMA CountedUser ==
    ASSUME IInv, Counted, UserBegin \/ UserContinues, UNCHANGED db \/ Marked(db', clock')
    PROVE  Counted'
<1>1. UNCHANGED <<cloud, up, list, dl>>
  BY Zenon DEF UserBegin, UserContinues, UserHydrated, UserGivesUp, UserWrites, UserCreates,
     UserRemoves, UserMoves, UserTouches, UserRecords, UserForgets, UserRenames,
     UserRecordsTime, UserQueues
<1>2. clock \in Nat /\ DOMAIN user = {"pc", "op", "path", "to", "known", "stamp"}
      /\ user.stamp \in Nat /\ user.stamp <= clock
  BY DEF IInv, RestInv, UserInv, UserState, Counted, UserUpTo
<1>3. CASE UserBegin
  <2>1. user'.stamp = 0
    BY Zenon, <1>3 DEF UserBegin, BeginWrite, BeginCreate, BeginUnlink, BeginRename, BeginTouch,
       UserIdle
  <2>2. UNCHANGED <<disk, clock, owed>>
    BY <1>3 DEF UserBegin
  <2>3. UserUpTo'
    BY <1>2, <2>1, <2>2 DEF UserUpTo
  <2> QED
    BY <1>1, <2>2, <2>3, CountedKept
<1>4. CASE UserHydrated \/ UserGivesUp
  <2>1. UNCHANGED <<disk, clock, owed>>
    BY <1>4 DEF UserHydrated, UserGivesUp
  <2>2. user'.stamp \in {user.stamp, 0}
    BY <1>2, <1>4 DEF UserHydrated, UserGivesUp, UserIdle
  <2>3. UserUpTo'
    BY <1>2, <2>1, <2>2 DEF UserUpTo
  <2> QED
    BY <1>1, <2>1, <2>3, CountedKept
<1>5. CASE UserWrites
  <2>0. PICK p : p = user.path
    OBVIOUS
  <2>1. /\ clock' = clock + 1 /\ disk' = Write(p, clock', clock')
        /\ owed' = (owed \ DataAt(p)) \union {clock'}
        /\ user'.stamp = user.stamp
    BY <1>2, <1>5, <2>0 DEF UserWrites
  <2>2. FilesUpTo(disk, clock') /\ clock' <= clock'
    BY <1>2, <2>1, FilesStill
  <2>3. DiskUpTo'
    BY <2>1, <2>2, FilesCounted, Zenon DEF DiskUpTo
  <2>4. UserUpTo'
    BY <1>2, <2>1 DEF UserUpTo
  <2> QED
    BY <1>1, <2>1, <2>3, <2>4, CountedKept
<1>6. CASE UserCreates
  <2>0. PICK p : p = user.path
    OBVIOUS
  <2>1. user'.stamp = user.stamp
    BY <1>2, <1>6 DEF UserCreates
  <2>2. \/ UNCHANGED <<clock, disk, owed>>
        \/ clock' = clock + 1 /\ disk' = Write(p, clock', clock') /\ owed' = owed \union {clock'}
    BY <1>6, <2>0 DEF UserCreates
  <2>3. UNCHANGED disk \/ DiskUpTo'
    <3>1. FilesUpTo(disk, clock') /\ clock' <= clock'
      BY <1>2, <2>2, FilesStill
    <3> QED
      BY <2>2, <3>1, FilesCounted, Zenon DEF DiskUpTo
  <2>4. UserUpTo'
    BY <1>2, <2>1, <2>2 DEF UserUpTo
  <2> QED
    BY <1>1, <2>2, <2>3, <2>4, CountedKept
<1>7. CASE UserRemoves
  <2>0. PICK p : p = user.path
    OBVIOUS
  <2>1. disk' = Remove(p) /\ UNCHANGED clock /\ owed' \subseteq owed
        /\ user'.stamp = user.stamp
    BY <1>2, <1>7, <2>0 DEF UserRemoves
  <2>2. DiskUpTo'
    BY <2>1, FilesStill, FilesCounted DEF DiskUpTo
  <2>3. UserUpTo'
    BY <1>2, <2>1 DEF UserUpTo
  <2> QED
    BY <1>1, <2>1, <2>2, <2>3, CountedKept
<1>8. CASE UserMoves
  <2>0. PICK p, q : p = user.path /\ q = user.to
    OBVIOUS
  <2>1. /\ \/ p \in DOMAIN disk /\ disk' = Moved(p, q)
           \/ disk' = Remove(q) \/ UNCHANGED disk
        /\ UNCHANGED clock /\ owed' \subseteq owed
        /\ user'.stamp \in {user.stamp, 0}
    BY <1>2, <1>8, <2>0 DEF UserMoves, UserIdle
  <2>2. UNCHANGED disk \/ DiskUpTo'
    BY <2>1, FilesStill, FilesCounted DEF DiskUpTo
  <2>3. UserUpTo'
    BY <1>2, <2>1 DEF UserUpTo
  <2> QED
    BY <1>1, <2>1, <2>2, <2>3, CountedKept
<1>9. CASE UserTouches
  <2>0. PICK p : p = user.path
    OBVIOUS
  <2>1. CASE p \in DOMAIN disk
    <3>1. /\ clock' = clock + 1 /\ disk' = [disk EXCEPT ![p].stamp = clock']
          /\ user'.stamp = clock' /\ UNCHANGED owed
      BY <1>2, <1>9, <2>0, <2>1, Zenon DEF UserTouches
    <3>2. FilesUpTo(disk, clock')
      BY <3>1, FilesStill
    <3>3. DiskUpTo'
      <4>1. \A r \in DOMAIN disk : disk[r] \in File
        BY DEF IInv, DiskInv
      <4>2. /\ DOMAIN disk' = DOMAIN disk
            /\ \A r \in DOMAIN disk : disk'[r].data = disk[r].data
                                      /\ disk'[r].stamp \in {disk[r].stamp, clock'}
        BY <3>1, <4>1 DEF File
      <4>3. clock' <= clock'
        BY <1>2, <3>1
      <4> QED
        BY <3>2, <4>2, <4>3 DEF DiskUpTo, FilesUpTo
    <3>4. UserUpTo'
      BY <1>2, <3>1 DEF UserUpTo
    <3> QED
      BY <1>1, <3>1, <3>3, <3>4, CountedKept
  <2>2. CASE p \notin DOMAIN disk
    <3>1. UNCHANGED <<clock, disk, owed>> /\ user'.stamp = 0
      BY <1>9, <2>0, <2>2 DEF UserTouches, UserIdle
    <3>2. UserUpTo'
      BY <1>2, <3>1 DEF UserUpTo
    <3> QED
      BY <1>1, <3>1, <3>2, CountedKept
  <2> QED
    BY <2>1, <2>2
<1>10. CASE UserRecords \/ UserForgets \/ UserRenames \/ UserRecordsTime \/ UserQueues
  <2>1. UNCHANGED <<clock, disk, owed>>
    BY <1>10, Zenon DEF UserRecords, UserForgets, UserRenames, UserRecordsTime, UserQueues
  <2>2. user' = UserIdle \/ user' = [user EXCEPT !.pc = "queue"]
    BY <1>10, Zenon DEF UserRecords, UserForgets, UserRenames, UserRecordsTime, UserQueues
  <2>3. UserUpTo'
    BY <1>2, <2>1, <2>2 DEF UserUpTo, UserIdle
  <2> QED
    BY <1>1, <2>1, <2>3, CountedKept
<1> QED
  BY <1>3, <1>4, <1>5, <1>6, <1>7, <1>8, <1>9, <1>10 DEF UserContinues

\* Items that are moved or gone bear no new number.
LEMMA ItemsCounted ==
    ASSUME IInv, Counted, UNCHANGED clock, owed' \subseteq owed,
           DOMAIN cloud' \subseteq DOMAIN cloud,
           \A i \in DOMAIN cloud' : cloud'[i].data = cloud[i].data /\ cloud'[i].stamp = cloud[i].stamp
    PROVE  CloudUpTo'
BY DEF Counted, CloudUpTo

LEMMA CountedUp ==
    ASSUME IInv, Counted, Uploader, UNCHANGED db \/ Marked(db', clock')
    PROVE  Counted'
<1>1. UNCHANGED <<clock, user, list, dl>>
  BY Zenon DEF Uploader, UpStart, UpTombstone, UpForget, UpFile, UpMissing, UpMove,
     UpReplace, UpSend, UpMeta, UpAdopt, UpClean, UpEnd
<1>2. clock \in Nat /\ up.before <= clock
  BY DEF IInv, RestInv, Counted, UpUpTo
<1>3. UpPass.before = 0 /\ UpPass.pc = "pass" /\ UpIdle.before = 0
  BY UpFields DEF UpPass, UpIdle
<1>4. \A i \in DOMAIN cloud : cloud[i] \in Item
  BY DEF IInv, CloudInv, CloudOK
<1>5. ASSUME up'.before \in {up.before, 0}, up'.pc # "clean"  PROVE UpUpTo'
  BY <1>1, <1>2, <1>5 DEF UpUpTo
<1>6. CASE UpStart \/ UpEnd \/ UpForget \/ UpMissing \/ UpClean \/ UpFile
  <2>1. UNCHANGED <<disk, cloud, owed>>
    BY Zenon, <1>6 DEF UpStart, UpForget, UpFile, UpMissing, UpClean, UpEnd
  <2>2. up'.before \in {up.before, 0} /\ up'.pc # "clean"
    <3>1. CASE UpStart \/ UpEnd \/ UpForget \/ UpMissing \/ UpClean
      <4>1. CASE UpStart \/ UpEnd
        <5>1. UpStart => up'.before = 0 /\ up'.pc = "pass"
          BY DEF UpStart, UpIdle
        <5>2. UpEnd => up'.before = 0 /\ up'.pc = "idle"
          BY DEF UpEnd, UpIdle
        <5> QED
          BY <4>1, <5>1, <5>2
      <4>2. CASE UpMissing \/ UpClean
        BY <4>2, <1>3 DEF UpMissing, UpClean
      <4>3. CASE UpForget
        BY <4>3, UpFields DEF UpForget, UpPass
      <4> QED
        BY <3>1, <4>1, <4>2, <4>3
    <3>2. CASE UpFile
      <4>1. PICK p, pc : /\ pc \in {"pass", "missing", "move", "replace", "adopt"}
                         /\ \/ up' = [up EXCEPT !.todo = @ \ {p}]
                            \/ up' = [up EXCEPT !.pc = pc, !.todo = @ \ {p}, !.path = p,
                                        !.node = NodeOf(p), !.changed = Changed(p)]
        BY <3>2, Zenon DEF UpFile
      <4>2. up.pc = "pass"
        BY <3>2 DEF UpFile
      <4> QED
        BY <4>1, <4>2, UpFields, Zenon
    <3> QED
      BY <1>6, <3>1, <3>2
  <2> QED
    BY Zenon, <1>1, <1>5, <2>1, <2>2, CountedKept
<1>7. CASE UpTombstone
  <2>1. PICK t : /\ \/ up' = [up EXCEPT !.pc = "forget", !.path = t.path, !.node = t]
                    \/ up' = [up EXCEPT !.tombs = @ \ {t}]
                 /\ cloud' = cloud \/ cloud' = Delete(cloud, t.id)
    BY <1>7, Zenon DEF UpTombstone
  <2>2. up.pc = "pass" /\ UNCHANGED <<disk, owed>>
    BY <1>7 DEF UpTombstone
  <2>3. up'.before = up.before /\ up'.pc # "clean"
    BY <2>1, <2>2, UpFields, Zenon
  <2>4. UNCHANGED cloud \/ CloudUpTo'
    BY <1>1, <2>1, <2>2, ItemsCounted DEF Delete
  <2> QED
    BY <1>1, <1>5, <2>2, <2>3, <2>4, CountedKept
<1>8. CASE UpMove
  <2>0. PICK i, p : i = up.node.id /\ p = up.path
    OBVIOUS
  <2>1. /\ cloud' = cloud \/ cloud' = Relocate(cloud, i, p)
        /\ UNCHANGED <<disk, owed>>
    BY <1>8, <2>0 DEF UpMove
  <2>2. up'.before \in {up.before, 0} /\ up'.pc # "clean"
    <3>1. \/ up' = UpPass
          \/ up' = [up EXCEPT !.pc = IF up.changed THEN "replace" ELSE "adopt",
                              !.node = IF Has(db, up.path) THEN NodeOf(up.path) ELSE @]
      BY <1>8 DEF UpMove
    <3> QED
      BY <1>3, <3>1, UpFields, Zenon
  <2>3. UNCHANGED cloud \/ CloudUpTo'
    <3>1. ASSUME cloud' = Relocate(cloud, i, p)
          PROVE  /\ DOMAIN cloud' = DOMAIN cloud
                 /\ \A j \in DOMAIN cloud : cloud'[j].data = cloud[j].data
                                            /\ cloud'[j].stamp = cloud[j].stamp
      BY <1>4, <3>1, Zenon DEF Relocate, Item
    <3> QED
      BY <1>1, <2>1, <3>1, ItemsCounted
  <2> QED
    BY <1>1, <1>5, <2>1, <2>2, <2>3, CountedKept
<1>9. CASE UpReplace
  <2>0. PICK i, p : i = up.node.id /\ p = up.path
    OBVIOUS
  <2>1. /\ cloud' = cloud \/ cloud' = Delete(cloud, i)
        /\ UNCHANGED <<disk, owed>> /\ up.pc = "replace"
        /\ \/ up' = UpPass
           \/ p \in DOMAIN disk /\ up' = [up EXCEPT !.pc = "send", !.before = disk[p].stamp]
    BY <1>9, <2>0 DEF UpReplace
  <2>2. CloudUpTo' \/ UNCHANGED cloud
    BY <1>1, <2>1, ItemsCounted DEF Delete
  <2>3. UpUpTo'
    <3>1. CASE up' = UpPass
      BY <1>3, <1>5, <3>1
    <3>2. CASE p \in DOMAIN disk /\ up' = [up EXCEPT !.pc = "send", !.before = disk[p].stamp]
      <4>1. up'.before = disk[p].stamp /\ up'.pc = "send"
        BY <3>2, UpFields
      <4>2. disk[p].stamp <= clock
        BY <3>2 DEF Counted, DiskUpTo, FilesUpTo
      <4> QED
        BY <1>1, <4>1, <4>2 DEF UpUpTo
    <3> QED
      BY <2>1, <3>1, <3>2
  <2> QED
    BY <1>1, <2>1, <2>2, <2>3, CountedKept
<1>10. CASE UpSend
  <2>1. UNCHANGED disk /\ up.pc = "send" /\ owed' \subseteq owed
    BY <1>10 DEF UpSend
  <2>2. CASE up' = UpPass /\ UNCHANGED cloud
    BY <1>1, <1>3, <1>5, <2>1, <2>2, CountedKept
  <2>3. CASE ~(up' = UpPass /\ UNCHANGED cloud)
    <3>0. PICK p : p = up.path
      OBVIOUS
    <3>1. PICK q, i : /\ p \in DOMAIN disk /\ owed' = owed \ {disk[p].data}
                      /\ cloud' = Create(cloud, i, q, "file", disk[p].data, disk[p].stamp)
                      /\ up' = [up EXCEPT !.pc = "meta"]
      BY <1>10, <2>3, <3>0 DEF UpSend
    <3>2. disk[p].data <= clock /\ disk[p].stamp <= clock
      BY <3>1 DEF Counted, DiskUpTo, FilesUpTo
    <3>3. CloudUpTo'
      BY <1>1, <3>1, <3>2 DEF Counted, CloudUpTo, Create
    <3>4. up'.before = up.before /\ up'.pc = "meta"
      BY <3>1, UpFields, SMTT(20)
    <3> QED
      BY <1>1, <1>5, <2>1, <3>3, <3>4, CountedKept
  <2> QED
    BY <2>2, <2>3
<1>11. CASE UpMeta \/ UpAdopt
  <2>1. UNCHANGED <<cloud, owed>>
    BY <1>11, Zenon DEF UpMeta, UpAdopt
  <2>2. CASE up' = UpPass /\ UNCHANGED disk
    BY <1>1, <1>3, <1>5, <2>1, <2>2, CountedKept
  <2>3. CASE ~(up' = UpPass /\ UNCHANGED disk)
    <3>0. PICK p : p = up.path
      OBVIOUS
    <3>1. PICK i \in IdsAt(cloud, p) :
            /\ up' = [up EXCEPT !.pc = "clean", !.node = Node(cloud, i)]
            /\ UNCHANGED disk \/ disk' = [disk EXCEPT ![p].stamp = cloud[i].stamp]
      BY <1>11, <2>3, <3>0, Zenon DEF UpMeta, UpAdopt
    <3>2. cloud[i].stamp <= clock
      BY <3>1 DEF IdsAt, Counted, CloudUpTo
    <3>3. up'.before = up.before /\ up'.node.stamp = cloud[i].stamp
      BY <3>1, UpFields DEF Node
    <3>4. UpUpTo'
      BY <1>1, <1>2, <3>2, <3>3 DEF UpUpTo
    <3>5. UNCHANGED disk \/ DiskUpTo'
      <4>1. ASSUME disk' = [disk EXCEPT ![p].stamp = cloud[i].stamp]
            PROVE  /\ DOMAIN disk' = DOMAIN disk
                   /\ \A r \in DOMAIN disk : disk'[r].data = disk[r].data
                         /\ disk'[r].stamp \in {disk[r].stamp, cloud[i].stamp}
        <5>1. \A r \in DOMAIN disk : disk[r] \in File
          BY DEF IInv, DiskInv
        <5> QED
          BY <4>1, <5>1 DEF File
      <4> QED
        BY <1>1, <3>1, <3>2, <4>1 DEF Counted, DiskUpTo, FilesUpTo
    <3> QED
      BY ZenonT(40), <1>1, <2>1, <3>4, <3>5, CountedKept
  <2> QED
    BY <2>2, <2>3
<1> QED
  BY Zenon, <1>6, <1>7, <1>8, <1>9, <1>10, <1>11 DEF Uploader

LEMMA CountedList ==
    ASSUME IInv, Counted, Lister, UNCHANGED db \/ Marked(db', clock')
    PROVE  Counted'
<1>1. UNCHANGED <<clock, cloud, owed, user, up, dl>>
  BY Zenon DEF Lister, ListStart, ListItem, ListConflict, ListDetach, ListOccupant,
     ListRelocate, ListRekey, ListPlace, ListStore, ListApplied, ListSweep, ListUnrow
<1>2. clock \in Nat /\ \A n \in list.items : n.stamp <= clock
  BY DEF IInv, RestInv, Counted, ListUpTo
<1>3. ListUpTo'
  <2>1. CASE ListStart
    <3>1. list'.pc = "items" /\ list'.items = Children(cloud, Root)
      BY <2>1 DEF ListStart, ListIdle
    <3>2. \A n \in list'.items : n.stamp <= clock
      BY <3>1 DEF Children, Node, Counted, CloudUpTo
    <3> QED
      BY <1>1, <3>1, <3>2 DEF ListUpTo
  <2>2. CASE ListItem
    <3>1. PICK n \in list.items : list'.items = list.items \ {n}
                                  /\ (list'.node = n \/ list'.pc = "items")
      BY ZenonT(60), <2>2, ListFields DEF ListItem
    <3> QED
      BY <1>1, <1>2, <3>1 DEF ListUpTo
  <2>3. CASE \/ ListConflict \/ ListDetach \/ ListOccupant
             \/ ListRelocate \/ ListRekey \/ ListPlace
    <3>1. list'.items = list.items /\ list'.node = list.node
      <4>1. CASE ListRekey
        <5> DEFINE row == db'.rows[list.node.path]
                   read == IF Has(db', list.node.path)
                           THEN [list EXCEPT !.stamp = row.stamp, !.hydrated = row.hydrated,
                                             !.recent = row.recent]
                           ELSE list
        <5>1. list' = [read EXCEPT !.pc = IF read.stamp = list.node.stamp
                                          THEN "store" ELSE "redo"]
          BY <4>1 DEF ListRekey
        <5>2. DOMAIN read = DOMAIN list /\ read.node = list.node /\ read.items = list.items
          BY ListFields
        <5> HIDE DEF read
        <5> QED
          BY <5>1, <5>2, ListFields
      <4>2. CASE ~ListRekey
        BY <2>3, <4>2, ListFields, Zenon DEF ListConflict, ListDetach, ListOccupant,
           ListRelocate, ListPlace
      <4> QED
        BY <4>1, <4>2
    <3>2. list.pc \notin {"idle", "items", "sweep", "unrow"}
      BY <2>3, Zenon DEF ListConflict, ListDetach, ListOccupant, ListRelocate, ListRekey, ListPlace
    <3> QED
      BY <1>1, <1>2, <3>1, <3>2 DEF Counted, ListUpTo
  <2>4. CASE ListStore \/ ListApplied \/ ListSweep \/ ListUnrow
    <3>1. /\ list'.pc \in {"items", "idle", "sweep", "unrow"}
          /\ list'.items \in {list.items, {}}
      <4>1. ListStore => list'.pc = "items" /\ list'.items = list.items
        BY DEF ListStore, ListItems, ListIdle
      <4>2. \A rest : Sweeping(rest).pc \in {"idle", "sweep"} /\ Sweeping(rest).items = {}
        BY DEF Sweeping, ListIdle
      <4>3. ListApplied \/ ListUnrow => list'.pc \in {"idle", "sweep"} /\ list'.items = {}
        BY <4>2 DEF ListApplied, ListUnrow
      <4>4. ASSUME ListSweep
            PROVE  /\ list'.pc \in {"idle", "sweep", "unrow"}
                   /\ list'.items \in {list.items, {}}
        <5>1. PICK v : \/ list' = Sweeping(list.sweep \ {v})
                       \/ list' = [list EXCEPT !.pc = "unrow", !.at = v.path]
          BY <4>4, Zenon DEF ListSweep
        <5> QED
          BY <4>2, <5>1, ListFields, Zenon
      <4> QED
        BY <2>4, <4>1, <4>3, <4>4
    <3> QED
      BY <1>1, <1>2, <3>1 DEF ListUpTo
  <2> QED
    BY <2>1, <2>2, <2>3, <2>4 DEF Lister
<1>4. UNCHANGED disk \/ DiskUpTo'
  <2>0. PICK p, q, stamp : p = list.at /\ q = list.node.path /\ stamp = list.node.stamp
    OBVIOUS
  <2>1. \/ UNCHANGED disk
        \/ \E r : p \in DOMAIN disk /\ disk' = Moved(p, r)
        \/ list.pc \in {"place", "redo"} /\ disk' = Write(q, Hole, stamp)
        \/ \E v : disk' = Remove(v)
    BY Zenon, <2>0 DEF Lister, ListStart, ListItem, ListConflict, ListDetach, ListOccupant,
       ListRelocate, ListRekey, ListPlace, ListStore, ListApplied, ListSweep, ListUnrow
  <2>2. list.pc \in {"place", "redo"} => Hole <= clock /\ stamp <= clock
    BY <1>2, <2>0 DEF Counted, ListUpTo, Hole
  <2>3. FilesUpTo(disk, clock)
    BY DEF Counted, DiskUpTo
  <2> QED
    BY Zenon, <1>1, <2>1, <2>2, <2>3, FilesCounted DEF DiskUpTo
<1> QED
  BY Zenon, <1>1, <1>3, <1>4, CountedKept

LEMMA CountedDl ==
    ASSUME IInv, Counted, Downloader, UNCHANGED db \/ Marked(db', clock')
    PROVE  Counted'
<1>1. UNCHANGED <<cloud, owed, user, up, list>> /\ clock \in Nat
  BY Zenon DEF Downloader, DlStart, DlOpen, DlCheck, DlCommit, DlMark, DlAdopt, IInv, RestInv
<1>2. CASE DlStart
  <2>1. PICK p \in DOMAIN db.rows : dl' = [DlIdle EXCEPT !.pc = "open", !.path = p,
                                                         !.node = NodeOf(p)]
    BY <1>2, Zenon DEF DlStart
  <2>2. dl'.pc = "open" /\ dl'.node.stamp = db.rows[p].stamp
    BY <2>1 DEF DlIdle, NodeOf
  <2>3. UNCHANGED <<clock, disk>> /\ db.rows[p].stamp <= clock
    BY <1>2 DEF DlStart, Counted, Marked
  <2>4. DlUpTo'
    BY <2>2, <2>3 DEF DlUpTo
  <2> QED
    BY <1>1, <2>3, <2>4, CountedKept
<1>3. CASE DlOpen \/ DlCheck
  <2>1. UNCHANGED <<clock, disk>>
    BY <1>3 DEF DlOpen, DlCheck
  <2>2. DlUpTo'
    <3>1. CASE dl' = DlIdle
      BY <3>1 DEF DlIdle, DlUpTo
    <3>2. CASE dl' = [dl EXCEPT !.pc = "commit"] /\ dl.pc = "check"
      <4>1. dl'.node = dl.node /\ dl'.data = dl.data
        BY <3>2, DlFields
      <4> QED
        BY <1>1, <2>1, <3>2, <4>1 DEF Counted, DlUpTo
    <3>3. CASE /\ dl.pc = "open" /\ dl.node.id \in DOMAIN cloud
               /\ dl' = [dl EXCEPT !.pc = "check", !.data = cloud[dl.node.id].data]
      <4>1. dl'.node = dl.node /\ dl'.data = cloud[dl.node.id].data
        BY <3>3, DlFields
      <4> QED
        BY <1>1, <2>1, <3>3, <4>1 DEF Counted, DlUpTo, CloudUpTo
    <3> QED
      BY <1>3, <3>1, <3>2, <3>3, Zenon DEF DlOpen, DlCheck
  <2> QED
    BY <1>1, <2>1, <2>2, CountedKept
<1>4. CASE DlCommit
  <2>0. PICK p, data, stamp : p = dl.path /\ data = dl.data /\ stamp = dl.node.stamp
    OBVIOUS
  <2>1. /\ UNCHANGED clock /\ dl.pc = "commit" /\ disk' = Write(p, data, stamp)
        /\ dl'.pc = "mark"
    BY <1>4, <2>0, DlFields DEF DlCommit
  <2>2. data <= clock /\ stamp <= clock /\ FilesUpTo(disk, clock)
    BY <2>0, <2>1 DEF Counted, DlUpTo, DiskUpTo
  <2>3. DiskUpTo'
    BY <2>1, <2>2, FilesCounted, Zenon DEF DiskUpTo
  <2>4. DlUpTo'
    BY <2>1 DEF DlUpTo
  <2> QED
    BY <1>1, <2>1, <2>3, <2>4, CountedKept
<1>5. CASE DlMark
  <2>1. UNCHANGED <<clock, disk>> /\ dl' = DlIdle
    BY <1>5 DEF DlMark
  <2>2. DlUpTo'
    BY <2>1 DEF DlUpTo, DlIdle
  <2> QED
    BY <1>1, <2>1, <2>2, CountedKept
<1>6. CASE DlAdopt
  <2>1. PICK p : /\ dl' = [DlIdle EXCEPT !.pc = "mark", !.path = p]
                 /\ \/ UNCHANGED <<disk, clock>>
                    \/ clock' = clock + 1 /\ disk' = Write(p, Hole, clock')
    BY <1>6, Zenon DEF DlAdopt
  <2>2. dl'.pc = "mark"
    BY <2>1 DEF DlIdle
  <2>3. DlUpTo'
    BY <2>2 DEF DlUpTo
  <2>4. UNCHANGED disk \/ DiskUpTo'
    <3>1. FilesUpTo(disk, clock') /\ clock' <= clock' /\ Hole <= clock'
      BY <1>1, <2>1, FilesStill DEF Hole
    <3> QED
      BY <2>1, <3>1, FilesCounted, Zenon DEF DiskUpTo
  <2> QED
    BY <1>1, <2>1, <2>3, <2>4, CountedKept
<1> QED
  BY <1>2, <1>3, <1>4, <1>5, <1>6, SMTT(20) DEF Downloader

LEMMA CountedElsewhere ==
    ASSUME IInv, Counted, Elsewhere
    PROVE  Counted'
<1>1. UNCHANGED <<db, disk, user, up, list, dl, owed>> /\ clock \in Nat
  BY DEF Elsewhere, IInv, RestInv
<1>2. /\ \A i \in DOMAIN cloud : cloud[i] \in Item /\ cloud[i].data <= clock
                                 /\ cloud[i].stamp <= clock /\ cloud[i].data \notin owed
      /\ clock + 1 \notin owed
  BY <1>1 DEF IInv, CloudInv, CloudOK, Counted, CloudUpTo, OwedUpTo
<1>3. CASE RemoteAdd
  <2>1. PICK i, p : /\ cloud' = Create(cloud, i, p, "file", clock + 1, clock + 1)
                    /\ clock' = clock + 1
    BY <1>3 DEF RemoteAdd
  <2>2. CloudUpTo'
    <3>1. \A j \in DOMAIN cloud' :
            \/ cloud'[j].data = clock + 1 /\ cloud'[j].stamp = clock + 1
            \/ j \in DOMAIN cloud /\ cloud'[j] = cloud[j]
      BY <2>1 DEF Create
    <3>2. \A j \in DOMAIN cloud : cloud[j].data \in Nat /\ cloud[j].stamp \in Nat
      BY <1>2 DEF Item
    <3> QED
      BY <1>1, <1>2, <2>1, <3>1, <3>2 DEF CloudUpTo
  <2> QED
    BY <1>1, <2>1, <2>2, CountedKept
<1>4. CASE RemoteEdit
  <2>1. PICK i \in DOMAIN cloud : /\ cloud' = Modify(cloud, i, clock + 1, clock + 1)
                                  /\ clock' = clock + 1
    BY <1>4 DEF RemoteEdit
  <2>2. CloudUpTo'
    <3>1. /\ DOMAIN cloud' = DOMAIN cloud
          /\ \A j \in DOMAIN cloud :
                \/ cloud'[j].data = clock + 1 /\ cloud'[j].stamp = clock + 1
                \/ cloud'[j] = cloud[j]
      BY <1>2, <2>1 DEF Modify, Item
    <3>2. \A j \in DOMAIN cloud : cloud[j].data \in Nat /\ cloud[j].stamp \in Nat
      BY <1>2 DEF Item
    <3> QED
      BY <1>1, <1>2, <2>1, <3>1, <3>2 DEF CloudUpTo
  <2> QED
    BY <1>1, <2>1, <2>2, CountedKept
<1>5. CASE RemoteDelete
  <2>1. PICK i : cloud' = Delete(cloud, i) /\ UNCHANGED clock
    BY <1>5 DEF RemoteDelete
  <2>2. CloudUpTo'
    BY <1>1, <2>1, ItemsCounted DEF Delete
  <2> QED
    BY <1>1, <2>1, <2>2, CountedKept
<1>6. CASE RemoteRename
  <2>1. PICK i, p : cloud' = Relocate(cloud, i, p) /\ UNCHANGED clock
    BY <1>6 DEF RemoteRename
  <2>2. /\ DOMAIN cloud' = DOMAIN cloud
        /\ \A j \in DOMAIN cloud : cloud'[j].data = cloud[j].data
                                   /\ cloud'[j].stamp = cloud[j].stamp
    BY <1>2, <2>1, Zenon DEF Relocate, Item
  <2>3. CloudUpTo'
    BY <1>1, <2>1, <2>2, ItemsCounted
  <2> QED
    BY <1>1, <2>1, <2>3, CountedKept
<1> QED
  BY <1>3, <1>4, <1>5, <1>6 DEF Elsewhere
-----------------------------------------------------------------------------
(***************************************************************************)
(* A step of one actor, as far as what is owed goes: it changes rows R and *)
(* files D that it holds before or after the step.                         *)
(***************************************************************************)
LEMMA UserEdits ==
    ASSUME IInv, Undisturbed, Undisturbed', Kept, UNCHANGED <<up, list, dl>>,
           NEW R, NEW D, R \union D \subseteq UserHolds \union UserHolds',
           Steady(db, db', R),
           \A p \in Top \ D : OwedAt(p)' => OwedAt(p),
           \A p \in Top \ (R \union D) :
              /\ UserBrings(p)' <=> UserBrings(p)
              /\ Queueing(p)' <=> Queueing(p)
              /\ ~(UserBrings(p) /\ user.op = "rename")
              /\ ~(UserBrings(p)' /\ user'.op = "rename"),
           \A p \in Top : p \in R \union D => (OwedAt(p)' => Guarded(p)'),
           Found', UserKnows', Settles'
    PROVE  Kept'
<1>1. /\ ~Meets(UserHolds, UpHolds \union ListHolds \union DlHolds)
      /\ ~Meets(UserHolds', UpHolds \union ListHolds \union DlHolds)
  BY DEF Undisturbed, Overlap, UpHolds, ListHolds, DlHolds
<1>2. \A p \in R \union D : p \in Top => p \notin UpHolds \union ListHolds \union DlHolds
  BY <1>1, Alone
<1>3. UpKnows' /\ ListKnows' /\ DlKnows'
  BY <1>2, UpKnowsStill, ListKnowsStill, DlKnowsStill DEF Kept
<1>4. \A p : /\ Detaching(p)' <=> Detaching(p)
             /\ Detaching(p) => list'.at = list.at /\ list.at \in Top /\ list.at \in ListHolds
  BY DEF Detaching, IInv, ListInv, ListHolds
<1>5. Guards'
  BY <1>2, <1>4, GuardsStill DEF Kept
<1> QED
  BY <1>3, <1>5 DEF Kept

\* A rename in hand: its source is held.
LEMMA RenameHolds ==
    ASSUME IInv, NEW p, UserBrings(p), user.op = "rename"
    PROVE  user.path \in Top /\ user.path \in UserHolds
BY DEF IInv, UserInv, UserBrings, UserHolds

LEMMA UpEdits ==
    ASSUME IInv, Undisturbed, Undisturbed', Kept, UNCHANGED <<user, list, dl>>,
           NEW R, NEW D, R \union D \subseteq UpHolds \union UpHolds',
           Steady(db, db', R),
           \A p \in Top \ D : OwedAt(p)' => OwedAt(p),
           \A p \in Top : p \in R \union D => (OwedAt(p)' => Guarded(p)'),
           Found', UpKnows', Settles'
    PROVE  Kept'
<1>1. /\ ~Meets(UserHolds, UpHolds \union ListHolds \union DlHolds)
      /\ ~Meets(UserHolds, UpHolds' \union ListHolds \union DlHolds)
      /\ ~Meets(UpHolds, ListHolds \union DlHolds)
      /\ ~Meets(UpHolds', ListHolds \union DlHolds)
  BY DEF Undisturbed, Overlap, UserHolds, ListHolds, DlHolds
<1>2. \A p \in R \union D : p \in Top => p \notin UserHolds \union ListHolds \union DlHolds
  BY <1>1, Alone
<1>3. UserKnows' /\ ListKnows' /\ DlKnows'
  BY <1>2, UserKnowsStill, ListKnowsStill, DlKnowsStill DEF Kept
<1>4. \A p : /\ Detaching(p)' <=> Detaching(p)
             /\ Detaching(p) => list'.at = list.at /\ list.at \in Top /\ list.at \in ListHolds
             /\ UserBrings(p)' <=> UserBrings(p)
             /\ Queueing(p)' <=> Queueing(p)
  BY DEF Detaching, UserBrings, Queueing, IInv, ListInv, ListHolds
<1>5. \A p : UserBrings(p) /\ user.op = "rename" => user.path \notin R
  BY <1>2, RenameHolds
<1>6. Guards'
  BY <1>2, <1>4, <1>5, GuardsStill DEF Kept
<1> QED
  BY <1>3, <1>6 DEF Kept

LEMMA ListEdits ==
    ASSUME IInv, Undisturbed, Undisturbed', Kept, UNCHANGED <<user, up, dl>>,
           NEW R, NEW D, R \union D \subseteq ListHolds \union ListHolds',
           Steady(db, db', R),
           \A p \in Top \ D : OwedAt(p)' => OwedAt(p),
           \A p \in Top \ (R \union D) : ~Detaching(p) /\ ~Detaching(p)',
           \A p \in Top : p \in R \union D => (OwedAt(p)' => Guarded(p)'),
           Found', ListKnows', Settles'
    PROVE  Kept'
<1>1. /\ ~Meets(UserHolds, UpHolds \union ListHolds \union DlHolds)
      /\ ~Meets(UserHolds, UpHolds \union ListHolds' \union DlHolds)
      /\ ~Meets(UpHolds, ListHolds \union DlHolds)
      /\ ~Meets(UpHolds, ListHolds' \union DlHolds)
      /\ ~Meets(ListHolds, DlHolds) /\ ~Meets(ListHolds', DlHolds)
  BY DEF Undisturbed, Overlap, UserHolds, UpHolds, DlHolds
<1>2. \A p \in R \union D : p \in Top => p \notin UserHolds \union UpHolds \union DlHolds
  BY <1>1, Alone
<1>3. UserKnows' /\ UpKnows' /\ DlKnows'
  BY <1>2, UserKnowsStill, UpKnowsStill, DlKnowsStill DEF Kept
<1>4. \A p : /\ UserBrings(p)' <=> UserBrings(p)
             /\ Queueing(p)' <=> Queueing(p)
  BY DEF UserBrings, Queueing
<1>5. \A p : UserBrings(p) /\ user.op = "rename" => user.path \notin R
  BY <1>2, RenameHolds
<1>6. Guards'
  BY <1>2, <1>4, <1>5, GuardsStill DEF Kept
<1> QED
  BY <1>3, <1>6 DEF Kept

LEMMA DlEdits ==
    ASSUME IInv, Undisturbed, Undisturbed', Kept, UNCHANGED <<user, up, list>>,
           NEW D, D \subseteq DlHolds \union DlHolds',
           Steady(db, db', {}),
           \A p \in Top \ D : OwedAt(p)' => OwedAt(p),
           \A p \in Top : p \in D => (OwedAt(p)' => Guarded(p)'),
           Found', DlKnows', Settles'
    PROVE  Kept'
<1>1. /\ ~Meets(UserHolds, UpHolds \union ListHolds \union DlHolds)
      /\ ~Meets(UserHolds, UpHolds \union ListHolds \union DlHolds')
      /\ ~Meets(UpHolds, ListHolds \union DlHolds)
      /\ ~Meets(UpHolds, ListHolds \union DlHolds')
      /\ ~Meets(ListHolds, DlHolds) /\ ~Meets(ListHolds, DlHolds')
  BY DEF Undisturbed, Overlap, UserHolds, UpHolds, ListHolds
<1>2. ASSUME NEW p \in D, p \in Top  PROVE p \notin UserHolds \union UpHolds \union ListHolds
  BY <1>1, <1>2, Places DEF Meets
<1>3. UserKnows' /\ UpKnows' /\ ListKnows'
  BY <1>2, UserKnowsStill, UpKnowsStill, ListKnowsStill DEF Kept
<1>4. \A p : /\ Detaching(p)' <=> Detaching(p)
             /\ Detaching(p) => list'.at = list.at
             /\ UserBrings(p)' <=> UserBrings(p)
             /\ Queueing(p)' <=> Queueing(p)
  BY DEF Detaching, UserBrings, Queueing
<1>5. Guards'
  BY <1>4, GuardsStill DEF Kept
<1> QED
  BY <1>3, <1>5 DEF Kept

\* Where nobody is in the middle of anything, what is not due is not owed.
LEMMA NotDue ==
    ASSUME Guards, NEW p \in Top, ~Due(db, p), p \notin UserHolds, p \notin ListHolds
    PROVE  ~OwedAt(p)
BY DEF Guards, Guarded, UserBrings, Detaching, Queueing, UserHolds, ListHolds

\* Files that stay as they are.
LEMMA SameFiles ==
    ASSUME UNCHANGED disk, owed' \subseteq owed
    PROVE  /\ \A p : OwedAt(p)' => OwedAt(p)
           /\ Found => Found'
           /\ Settles /\ UNCHANGED up => Settles'
<1>1. \A p : OwedAt(p)' => OwedAt(p)
  BY DEF OwedAt
<1>2. Found => Found'
  BY DEF Found
<1>3. Settles /\ UNCHANGED up => Settles'
  BY <1>1 DEF Settles
<1> QED
  BY <1>1, <1>2, <1>3

\* Steps that change no row and no file.
LEMMA Rests ==
    ASSUME UNCHANGED <<db, disk>>, owed' \subseteq owed
    PROVE  /\ Steady(db, db', {}) /\ {} \union {} = {}
           /\ \A p \in Top \ {} : OwedAt(p)' => OwedAt(p)
           /\ Found => Found'
           /\ Settles /\ UNCHANGED up => Settles'
BY SameSteady, SameFiles

LEMMA UserRests ==
    ASSUME IInv, Undisturbed, Undisturbed', Kept, UNCHANGED <<db, disk, owed, up, list, dl>>,
           \A p : /\ ~UserBrings(p) /\ ~UserBrings(p)'
                  /\ ~Queueing(p) /\ ~Queueing(p)',
           UserKnows'
    PROVE  Kept' /\ UNCHANGED db
<1>1. /\ Steady(db, db', {}) /\ {} \union {} = {}
      /\ \A p \in Top \ {} : OwedAt(p)' => OwedAt(p)
      /\ Found' /\ Settles'
  BY Rests DEF Kept
<1> QED
  BY <1>1, UserEdits

LEMMA UpRests ==
    ASSUME IInv, Undisturbed, Undisturbed', Kept, UNCHANGED <<db, disk, user, list, dl>>,
           owed' \subseteq owed, UpKnows', Settles'
    PROVE  Kept' /\ UNCHANGED db
<1>1. /\ Steady(db, db', {}) /\ {} \union {} = {}
      /\ \A p \in Top \ {} : OwedAt(p)' => OwedAt(p)
      /\ Found'
  BY Rests DEF Kept
<1> QED
  BY <1>1, UpEdits

LEMMA ListRests ==
    ASSUME IInv, Undisturbed, Undisturbed', Kept, UNCHANGED <<db, disk, owed, user, up, dl>>,
           \A p : ~Detaching(p) /\ ~Detaching(p)', ListKnows'
    PROVE  Kept' /\ UNCHANGED db
<1>1. /\ Steady(db, db', {}) /\ {} \union {} = {}
      /\ \A p \in Top \ {} : OwedAt(p)' => OwedAt(p)
      /\ Found' /\ Settles'
  BY Rests DEF Kept
<1> QED
  BY <1>1, ListEdits

LEMMA DlRests ==
    ASSUME IInv, Undisturbed, Undisturbed', Kept, UNCHANGED <<db, disk, owed, user, up, list>>,
           DlKnows'
    PROVE  Kept' /\ UNCHANGED db
<1>1. /\ Steady(db, db', {}) /\ {} \subseteq DlHolds
      /\ \A p \in Top \ {} : OwedAt(p)' => OwedAt(p)
      /\ Found' /\ Settles'
  BY Rests DEF Kept
<1> QED
  BY <1>1, DlEdits
-----------------------------------------------------------------------------
\* ---- The user's calls.

\* No listing is moving a copy to a path the user holds.
LEMMA NotDetaching ==
    ASSUME Undisturbed, NEW p \in Top, p \in UserHolds  PROVE ~Detaching(p)
<1>1. p \notin UpHolds \union ListHolds \union DlHolds
  BY Alone DEF Undisturbed, Overlap
<1> QED
  BY <1>1 DEF Detaching, ListHolds

LEMMA EditsUserBegin ==
    ASSUME IInv, Undisturbed, Undisturbed', Kept, UserBegin
    PROVE  Kept' /\ UNCHANGED db
<1>1. UNCHANGED <<db, disk, owed, up, list, dl>> /\ user.pc = "idle"
  BY DEF UserBegin
<1>2. user'.pc \in {"hydrate", "mirror"}
  BY Zenon DEF UserBegin, BeginWrite, BeginCreate, BeginUnlink, BeginRename, BeginTouch, UserIdle
<1>3. UserKnows' /\ \A p : /\ ~UserBrings(p) /\ ~UserBrings(p)'
                           /\ ~Queueing(p) /\ ~Queueing(p)'
  BY <1>1, <1>2 DEF UserKnows, UserBrings, Queueing
<1> QED
  BY <1>1, <1>3, UserRests

LEMMA EditsUserWait ==
    ASSUME IInv, Undisturbed, Undisturbed', Kept, UserHydrated \/ UserGivesUp
    PROVE  Kept' /\ UNCHANGED db
<1>1. UNCHANGED <<db, disk, owed, up, list, dl>> /\ user.pc = "hydrate"
  BY DEF UserHydrated, UserGivesUp
<1>2. user'.pc \in {"idle", "mirror"}
  BY DEF UserHydrated, UserGivesUp, UserIdle, IInv, UserInv, UserState
<1>3. UserKnows' /\ \A p : /\ ~UserBrings(p) /\ ~UserBrings(p)'
                           /\ ~Queueing(p) /\ ~Queueing(p)'
  BY <1>1, <1>2 DEF UserKnows, UserBrings, Queueing
<1> QED
  BY <1>1, <1>3, UserRests

\* New content: nothing else has its number, and no upload has its stamp.
LEMMA EditsNewContent ==
    ASSUME IInv, Undisturbed, Undisturbed', Kept, Counted, UNCHANGED <<up, list, dl>>,
           NEW p \in Top, p \in UserHolds, clock' = clock + 1,
           disk' = Write(p, clock', clock'),
           owed' \subseteq owed \union {clock'},
           \A v \in owed' : v \notin DataAt(p),
           Steady(db, db', {p}),
           user.pc = "mirror", user'.pc = "record",
           user'.op \in {"write", "create"}, user'.path = p
    PROVE  Kept'
<1>1. /\ DOMAIN disk' = DOMAIN disk \union {p}
      /\ \A q \in DOMAIN disk : q # p => disk'[q] = disk[q]
      /\ disk'[p].data = clock' /\ disk'[p].stamp = clock'
  BY DEF Write
<1>2. clock \in Nat /\ up.before \in Nat /\ up.before <= clock
  BY DEF IInv, RestInv, UpInv, UpState, Counted, UpUpTo
<1>3. ASSUME NEW q \in DOMAIN disk  PROVE disk[q].data # clock'
  <2>1. disk[q].data <= clock /\ disk[q].data \in Nat
    BY DEF Counted, DiskUpTo, FilesUpTo, IInv, DiskInv, File
  <2> QED
    BY <1>2, <2>1
<1>4. \A q \in Top \ {p} : OwedAt(q)' => OwedAt(q)
  BY <1>1, <1>3 DEF OwedAt
<1>5. Found'
  <2> SUFFICES ASSUME NEW v \in owed'  PROVE \E q \in DOMAIN disk' : disk'[q].data = v
    BY DEF Found
  <2>1. CASE v = clock'
    BY <1>1, <2>1
  <2>2. CASE v # clock'
    <3>1. PICK q \in DOMAIN disk : disk[q].data = v
      BY <2>2 DEF Kept, Found
    <3>2. q # p
      BY <3>1 DEF DataAt
    <3> QED
      BY <1>1, <3>1, <3>2
  <2> QED
    BY <2>1, <2>2
<1>6. \A q : /\ ~UserBrings(q) /\ ~Queueing(q) /\ ~Queueing(q)'
             /\ UserBrings(q)' => q = p /\ user'.op # "rename"
  BY DEF UserBrings, Queueing
<1>7. Guarded(p)'
  <2>1. UserBrings(p)' /\ user'.op # "rename" /\ ~Queueing(p)'
    BY <1>6 DEF UserBrings
  <2>2. ~Detaching(p)'
    BY NotDetaching DEF Detaching
  <2> QED
    BY <2>1, <2>2 DEF Guarded
<1>8. Settles'
  <2>1. disk'[p].stamp # up.before
    BY <1>1, <1>2
  <2> QED
    BY <1>1, <1>4, <2>1, SettlesStill DEF Kept
<1>9. UserKnows'
  BY DEF UserKnows
<1>10. {p} \union {p} \subseteq UserHolds
  OBVIOUS
<1> QED
  BY <1>4, <1>5, <1>6, <1>7, <1>8, <1>9, <1>10, UserEdits

LEMMA EditsUserWrites ==
    ASSUME IInv, Undisturbed, Undisturbed', Kept, Counted, UserWrites
    PROVE  Kept' /\ UNCHANGED db
<1>0. PICK p : p = user.path
  OBVIOUS
<1>1. /\ UNCHANGED <<db, up, list, dl>> /\ user.pc = "mirror" /\ user.op = "write"
      /\ clock' = clock + 1 /\ disk' = Write(p, clock', clock')
      /\ owed' = (owed \ DataAt(p)) \union {clock'}
  BY <1>0 DEF UserWrites
<1>2. user'.pc = "record" /\ user'.op = "write" /\ user'.path = p
  BY <1>0, <1>1 DEF UserWrites, IInv, UserInv, UserState
<1>3. p \in Top /\ p \in UserHolds
  BY <1>0, <1>1 DEF IInv, UserInv, UserHolds
<1>4. clock' \notin DataAt(p)
  <2>1. clock \in Nat /\ \A q \in DOMAIN disk : disk[q].data <= clock /\ disk[q].data \in Nat
    BY DEF IInv, RestInv, DiskInv, File, Counted, DiskUpTo, FilesUpTo
  <2> QED
    BY <1>1, <2>1 DEF DataAt
<1>5. Steady(db, db', {p})
  BY <1>1, SameSteady
<1> QED
  BY <1>1, <1>2, <1>3, <1>4, <1>5, EditsNewContent

\* A file that is there already is as owed as before, and is about to be queued.
LEMMA EditsUserCreates ==
    ASSUME IInv, Undisturbed, Undisturbed', Kept, Counted, UserCreates
    PROVE  Kept' /\ Marked(db', clock')
<1>0. PICK p, g : p = user.path /\ g = Pick(FreeGraves)
  OBVIOUS
<1>1. /\ UNCHANGED <<up, list, dl>> /\ user.pc = "mirror" /\ user.op = "create"
      /\ db' = BuryTombstone(db, p, g)
  BY <1>0 DEF UserCreates
<1>2. user'.pc = "record" /\ user'.op = "create" /\ user'.path = p
  BY <1>0, <1>1 DEF UserCreates, IInv, UserInv, UserState
<1>3. g \in FreeGraves /\ p \in Top /\ Sound(db) /\ p \in UserHolds
  BY <1>0, <1>1, Picked DEF UserCreates, IInv, UserInv, DbInv, UserHolds
<1>4. g \in Top /\ g \in GravePath /\ ~Has(db, g)
  BY <1>3, Names DEF FreeGraves, GravePath, Has
<1>5. Alike(db, db', {p}) /\ (\A c : Marked(db, c) => Marked(db', c))
  BY <1>1, <1>3, <1>4, BuryFace
<1>6. Steady(db, db', {p})
  BY <1>5, AlikeSteady
<1>7. CASE p \notin DOMAIN disk
  <2>1. /\ clock' = clock + 1 /\ disk' = Write(p, clock', clock')
        /\ owed' = owed \union {clock'} /\ DataAt(p) = {}
    BY <1>0, <1>7 DEF UserCreates, DataAt
  <2>2. Kept'
    BY <1>1, <1>2, <1>3, <1>6, <2>1, EditsNewContent
  <2>3. Marked(db, clock')
    BY <2>1, FilesStill
  <2> QED
    BY <1>5, <2>2, <2>3
<1>8. CASE p \in DOMAIN disk
  <2>1. UNCHANGED <<clock, disk, owed>>
    BY <1>0, <1>8 DEF UserCreates
  <2>2. UserBrings(p)' /\ user'.op # "rename" /\ ~Queueing(p)' /\ ~Detaching(p)'
    BY <1>1, <1>2, <1>3, NotDetaching DEF UserBrings, Queueing, Detaching
  <2>3. Guarded(p)'
    BY <2>2 DEF Guarded
  <2>4. \A q : /\ ~UserBrings(q) /\ ~Queueing(q) /\ ~Queueing(q)'
               /\ UserBrings(q)' => q = p
    BY <1>1, <1>2 DEF UserBrings, Queueing
  <2>5. UserKnows' /\ {p} \union {p} \subseteq UserHolds
    BY <1>2, <1>3 DEF UserKnows
  <2>6. (\A q : OwedAt(q)' => OwedAt(q)) /\ Found' /\ Settles'
    BY <1>1, <2>1, SameFiles DEF Kept
  <2>7. Kept'
    BY <1>1, <1>6, <2>3, <2>4, <2>5, <2>6, UserEdits
  <2>8. Marked(db', clock')
    BY <1>5, <2>1 DEF Counted
  <2> QED
    BY <2>7, <2>8
<1> QED
  BY <1>7, <1>8

LEMMA EditsUserRemoves ==
    ASSUME IInv, Undisturbed, Undisturbed', Kept, UserRemoves
    PROVE  Kept' /\ UNCHANGED db
<1>0. PICK p : p = user.path
  OBVIOUS
<1>1. /\ UNCHANGED <<db, up, list, dl>> /\ user.pc = "mirror" /\ user.op = "unlink"
      /\ disk' = Remove(p) /\ owed' = owed \ DataAt(p)
  BY <1>0 DEF UserRemoves
<1>2. user'.pc = "record" /\ user'.op = "unlink" /\ user'.path = p
  BY <1>0, <1>1 DEF UserRemoves, IInv, UserInv, UserState
<1>3. p \in UserHolds
  BY <1>0, <1>1 DEF UserHolds
<1>4. /\ p \notin DOMAIN disk'
      /\ \A q \in DOMAIN disk' : q \in DOMAIN disk /\ disk'[q] = disk[q]
      /\ \A q \in DOMAIN disk : q # p => q \in DOMAIN disk'
  BY <1>1 DEF Remove
<1>5. \A q : OwedAt(q)' => OwedAt(q)
  BY <1>1, <1>4 DEF OwedAt
<1>6. ~OwedAt(p)'
  BY <1>4 DEF OwedAt
<1>7. Found'
  <2> SUFFICES ASSUME NEW v \in owed'  PROVE \E q \in DOMAIN disk' : disk'[q].data = v
    BY DEF Found
  <2>1. PICK q \in DOMAIN disk : disk[q].data = v
    BY <1>1 DEF Kept, Found
  <2>2. q # p
    BY <1>1, <2>1 DEF DataAt
  <2> QED
    BY <1>4, <2>1, <2>2
<1>8. \A q : /\ ~UserBrings(q) /\ ~Queueing(q) /\ ~Queueing(q)'
             /\ ~UserBrings(q)'
  BY <1>1, <1>2 DEF UserBrings, Queueing
<1>9. Settles'
  BY <1>1, <1>4, <1>5, SettlesStill DEF Kept
<1>10. Steady(db, db', {}) /\ {} \union {p} \subseteq UserHolds
  BY <1>1, <1>3, SameSteady
<1>11. UserKnows'
  BY <1>2 DEF UserKnows
<1>12. Kept'
  BY <1>1, <1>5, <1>6, <1>7, <1>8, <1>9, <1>10, <1>11, UserEdits
<1> QED
  BY <1>1, <1>12

\* A rename carries what is owed, and is about to carry its row.
LEMMA EditsUserMoves ==
    ASSUME IInv, Undisturbed, Undisturbed', Paired, Kept, UserMoves
    PROVE  Kept' /\ UNCHANGED db
<1>0. PICK p, q : p = user.path /\ q = user.to
  OBVIOUS
<1>1. UNCHANGED <<db, up, list, dl>> /\ user.pc = "mirror" /\ user.op = "rename"
  BY DEF UserMoves
<1>2. /\ Live(db, p) /\ p # q /\ p \in UserPath
      /\ p \in Top /\ q \in Top
  BY <1>0, <1>1 DEF Paired, UserSees, IInv, UserInv
<1>3. p \in UserHolds /\ q \in UserHolds
  BY <1>0, <1>1 DEF UserHolds
<1>4. \A r : ~UserBrings(r) /\ ~UserTakes(r) /\ ~Queueing(r)
  BY <1>1 DEF UserBrings, UserTakes, Queueing
<1>5. ~Detaching(p) /\ ~Detaching(q)
  BY <1>2, <1>3, NotDetaching
<1>6. p \in DOMAIN disk
  <2>1. p \notin UpHolds \union ListHolds \union DlHolds
    BY <1>2, <1>3, Alone DEF Undisturbed, Overlap
  <2>2. ~ListTakes(p)
    BY <2>1 DEF ListTakes, ListHolds
  <2>3. Wanted(db, p)
    BY <1>2, ConflictsApart DEF Wanted
  <2> QED
    BY <1>2, <1>4, <2>2, <2>3, Present DEF Paired
<1>7. /\ disk' = Moved(p, q) /\ owed' = owed \ DataAt(q)
      /\ user' = [user EXCEPT !.pc = "record"]
  BY <1>0, <1>6 DEF UserMoves
<1>8. user'.pc = "record" /\ user'.op = "rename" /\ user'.path = p /\ user'.to = q
  BY <1>0, <1>1, <1>7 DEF IInv, UserInv, UserState
<1>9. /\ DOMAIN disk' = (DOMAIN disk \ {p}) \union {q}
      /\ disk'[q] = disk[p]
      /\ \A r \in DOMAIN disk' : r # q => disk'[r] = disk[r]
  BY <1>7 DEF Moved
<1>10. \A r \in Top \ {p, q} : OwedAt(r)' => OwedAt(r)
  BY <1>7, <1>9 DEF OwedAt
<1>11. ~OwedAt(p)'
  BY <1>2, <1>9 DEF OwedAt
<1>12. OwedAt(q)' => Guarded(q)'
  <2> SUFFICES ASSUME OwedAt(q)'  PROVE Guarded(q)'
    OBVIOUS
  <2>1. OwedAt(p)
    BY <1>6, <1>7, <1>9 DEF OwedAt
  <2>2. Due(db, p)
    BY <1>2, <1>4, <1>5, <2>1 DEF Kept, Guards, Guarded
  <2>3. UserBrings(q)' /\ ~Queueing(q)' /\ ~Detaching(q)'
    BY <1>1, <1>5, <1>8 DEF UserBrings, Queueing, Detaching
  <2>4. Due(db', user'.path)
    BY <1>1, <1>8, <2>2
  <2> QED
    BY <2>3, <2>4 DEF Guarded
<1>13. Found'
  <2> SUFFICES ASSUME NEW v \in owed'  PROVE \E r \in DOMAIN disk' : disk'[r].data = v
    BY DEF Found
  <2>1. PICK r \in DOMAIN disk : disk[r].data = v
    BY <1>7 DEF Kept, Found
  <2>2. r # q
    BY <1>7, <2>1 DEF DataAt
  <2>3. CASE r = p
    BY <1>9, <2>1, <2>3
  <2>4. CASE r # p
    BY <1>9, <2>1, <2>2, <2>4
  <2> QED
    BY <2>3, <2>4
<1>14. Settles'
  <2>1. up.pc = "meta" => up.path \in UpRecords /\ up.path \in Top
    BY DEF UpRecords, IInv, UpInv
  <2>2. p \in UserSwaps /\ q \in UserSwaps
    BY <1>1, <1>3 DEF UserSwaps
  <2>3. ~Meets(UserSwaps, UpSends \union UpRecords)
    BY DEF Undisturbed, Overlap
  <2>4. up.pc = "meta" => up.path \notin {p, q}
    BY <1>2, <2>1, <2>2, <2>3, Alone
  <2> QED
    BY ZenonT(60), <1>1, <1>9, <1>10, <2>4, SettlesStill DEF Kept
<1>15. UserKnows' /\ \A r : ~Queueing(r)' /\ (UserBrings(r)' => r = q)
  BY <1>8 DEF UserKnows, Queueing, UserBrings
<1>16. Steady(db, db', {}) /\ {} \union {p, q} = {p, q} /\ {p, q} \subseteq UserHolds
  BY <1>1, <1>3, SameSteady
<1>17. \A r \in Top \ {p, q} : /\ UserBrings(r)' <=> UserBrings(r)
                               /\ Queueing(r)' <=> Queueing(r)
                               /\ ~(UserBrings(r) /\ user.op = "rename")
                               /\ ~(UserBrings(r)' /\ user'.op = "rename")
  BY <1>4, <1>15
<1>18. \A r \in Top : r \in {p, q} => (OwedAt(r)' => Guarded(r)')
  BY <1>11, <1>12
<1>19. UNCHANGED <<up, list, dl>>
  BY <1>1
<1>20. Kept'
  BY <1>10, <1>13, <1>14, <1>15, <1>16, <1>17, <1>18, <1>19, UserEdits, Zenon
<1> QED
  BY <1>1, <1>20

LEMMA EditsUserTouches ==
    ASSUME IInv, Undisturbed, Undisturbed', Kept, Counted, UserTouches
    PROVE  Kept' /\ UNCHANGED db
<1>0. PICK p : p = user.path
  OBVIOUS
<1>1. UNCHANGED <<db, up, list, dl, owed>> /\ user.pc = "mirror" /\ user.op = "touch"
  BY DEF UserTouches
<1>2. user'.pc # "queue" /\ user'.op \in {"touch", "none"}
  <2>1. DOMAIN user = {"pc", "op", "path", "to", "known", "stamp"}
    BY DEF IInv, UserInv, UserState
  <2>2. CASE user' = [user EXCEPT !.pc = "record", !.stamp = clock']
    BY <1>1, <2>1, <2>2
  <2>3. CASE user' = UserIdle
    BY <2>3 DEF UserIdle
  <2> QED
    BY <2>2, <2>3 DEF UserTouches
<1>3. \A q : /\ ~UserBrings(q) /\ ~Queueing(q) /\ ~Queueing(q)'
             /\ ~UserBrings(q)'
  BY <1>1, <1>2 DEF UserBrings, Queueing
<1>4. UserKnows'
  BY <1>2 DEF UserKnows
<1>5. CASE p \notin DOMAIN disk
  <2>1. UNCHANGED disk
    BY <1>0, <1>5 DEF UserTouches
  <2> QED
    BY <1>1, <1>3, <1>4, <2>1, UserRests
<1>6. CASE p \in DOMAIN disk
  <2>1. clock' = clock + 1 /\ disk' = [disk EXCEPT ![p].stamp = clock']
    BY <1>0, <1>6 DEF UserTouches
  <2>2. \A q \in DOMAIN disk : disk[q] \in File
    BY DEF IInv, DiskInv
  <2>3. /\ DOMAIN disk' = DOMAIN disk
        /\ \A q \in DOMAIN disk : disk'[q].data = disk[q].data
        /\ \A q \in DOMAIN disk : q # p => disk'[q] = disk[q]
        /\ disk'[p].stamp = clock'
    BY <1>6, <2>1, <2>2 DEF File
  <2>4. \A q : OwedAt(q)' => OwedAt(q)
    BY <1>1, <2>3 DEF OwedAt
  <2>5. Found'
    BY <1>1, <2>3 DEF Kept, Found
  <2>6. Settles'
    <3>1. clock \in Nat /\ up.before \in Nat /\ up.before <= clock
      BY DEF IInv, RestInv, UpInv, UpState, Counted, UpUpTo
    <3>2. disk'[p].stamp # up.before
      BY <2>1, <2>3, <3>1
    <3>3. \A q \in Top \ {p} : q \in DOMAIN disk' =>
             q \in DOMAIN disk /\ disk'[q].stamp = disk[q].stamp
      BY <2>3
    <3>4. \A q \in Top \ {p} : OwedAt(q)' => OwedAt(q)
      BY <2>4
    <3> QED
      BY <1>1, <3>2, <3>3, <3>4, SettlesStill, Zenon DEF Kept
  <2>7. Steady(db, db', {}) /\ {} \union {} \subseteq UserHolds
    BY <1>1, SameSteady
  <2>8. Kept'
    BY <1>1, <1>3, <1>4, <2>4, <2>5, <2>6, <2>7, UserEdits
  <2> QED
    BY <1>1, <2>8
<1> QED
  BY <1>5, <1>6

\* A step that changes the user's rows R and no file.
LEMMA UserSettlesRows ==
    ASSUME IInv, Undisturbed, Undisturbed', Kept, UNCHANGED <<disk, owed, up, list, dl>>,
           NEW R, R \subseteq UserHolds, Steady(db, db', R),
           \A p \in Top \ R : /\ UserBrings(p)' <=> UserBrings(p)
                              /\ Queueing(p)' <=> Queueing(p)
                              /\ ~(UserBrings(p) /\ user.op = "rename")
                              /\ ~(UserBrings(p)' /\ user'.op = "rename"),
           \A p \in Top : p \in R => (OwedAt(p) => Guarded(p)'),
           UserKnows'
    PROVE  Kept'
<1>1. (\A p : OwedAt(p)' => OwedAt(p)) /\ Found' /\ Settles'
  BY SameFiles DEF Kept
<1>2. R \union {} = R
  OBVIOUS
<1>3. \A p \in Top : p \in R => (OwedAt(p)' => Guarded(p)')
  BY <1>1
<1>4. \A p \in Top \ {} : OwedAt(p)' => OwedAt(p)
  BY <1>1
<1> QED
  BY <1>1, <1>2, <1>3, <1>4, UserEdits

\* The row of a file that changed is ready, and its operation comes next.
LEMMA EditsUserRecords ==
    ASSUME IInv, Undisturbed, Undisturbed', Paired, Kept, Counted, UserRecords
    PROVE  Kept' /\ Marked(db', clock')
<1>0. PICK p : p = user.path
  OBVIOUS
<1>1. /\ UNCHANGED <<disk, owed, clock, up, list, dl>> /\ user.pc = "record"
      /\ user.op \in {"write", "create"}
  BY DEF UserRecords
<1>2. p \in Top /\ Sound(db) /\ p \in UserHolds /\ ~Detaching(p)
  BY <1>0, <1>1, NotDetaching DEF IInv, UserInv, DbInv, UserHolds
<1>3. Marked(db, clock)
  BY DEF Counted
<1>4. CASE p \in DOMAIN disk
  <2>1. db' = ContentRecorded /\ user' = [user EXCEPT !.pc = "queue"]
    BY <1>0, <1>4 DEF UserRecords
  <2>2. user'.pc = "queue" /\ user'.op = user.op /\ user'.path = p
    BY <1>0, <2>1 DEF IInv, UserInv, UserState
  <2>3. disk[p].stamp <= clock
    BY <1>4 DEF Counted, DiskUpTo, FilesUpTo
  <2>4. Alike(db, db', {p}) /\ Ready(db', p) /\ Marked(db', clock)
    <3>1. CASE user.known
      <4>1. Live(db, p)
        BY <1>0, <1>1, <3>1 DEF Paired, UserSees
      <4> DEFINE row == [db.rows[p] EXCEPT !.dirty = TRUE, !.tomb = FALSE,
                             !.stamp = disk[p].stamp, !.hydrated = @ \/ TRUE]
      <4>2. db' = UpdateRow(db, p, row)
        BY <1>0, <2>1, <3>1 DEF ContentRecorded, MarkDirty
      <4>3. ~row.tomb /\ row.dirty /\ row.hydrated /\ row.stamp = disk[p].stamp
        BY <1>2, <4>1, Zenon DEF Sound, StoreType, Entry, Live, Has
      <4> HIDE DEF row
      <4>4. /\ RowsKept(db, UpdateRow(db, p, row), {}, {p})
            /\ \A q : Has(UpdateRow(db, p, row), q) <=> Has(db, q)
            /\ Live(UpdateRow(db, p, row), p) <=> Has(db, p) /\ ~row.tomb
            /\ Known(UpdateRow(db, p, row), p) <=> Has(db, p) /\ ~row.tomb /\ row.id # NoId
            /\ Alike(db, UpdateRow(db, p, row), {p})
            /\ Has(db, p) => UpdateRow(db, p, row).rows[p] = row
            /\ \A c : Marked(db, c) /\ (Has(db, p) => row.stamp <= c)
                         => Marked(UpdateRow(db, p, row), c)
        BY <1>2, UpdateRowFace, Zenon
      <4> QED
        BY <1>3, <2>3, <4>1, <4>2, <4>3, <4>4 DEF Ready, Live
    <3>2. CASE ~user.known
      <4> DEFINE row == Local("file", disk[p].stamp)
      <4>1. db' = UpsertEntry(db, p, row)
        BY <1>0, <2>1, <3>2 DEF ContentRecorded
      <4>2. ~row.tomb /\ row.dirty /\ row.hydrated /\ row.stamp = disk[p].stamp
        BY DEF Local
      <4> HIDE DEF row
      <4>3. /\ RowsKept(db, UpsertEntry(db, p, row), {}, {p})
            /\ Has(UpsertEntry(db, p, row), p)
            /\ Live(UpsertEntry(db, p, row), p) <=> ~row.tomb
            /\ Alike(db, UpsertEntry(db, p, row), {p})
            /\ UpsertEntry(db, p, row).rows[p] = row
            /\ \A c : Marked(db, c) /\ row.stamp <= c => Marked(UpsertEntry(db, p, row), c)
        BY <1>2, UpsertFace, Zenon
      <4> QED
        BY <1>3, <2>3, <4>1, <4>2, <4>3 DEF Ready
    <3> QED
      BY <3>1, <3>2
  <2>5. Steady(db, db', {p})
    BY <2>4, AlikeSteady
  <2>6. Queueing(p)' /\ ~UserBrings(p)' /\ ~Detaching(p)'
    BY <1>1, <1>2, <2>2 DEF Queueing, UserBrings, Detaching
  <2>7. Guarded(p)'
    BY <2>4, <2>6 DEF Guarded
  <2>8. \A q : /\ UserBrings(q) \/ Queueing(q)' => q = p /\ user.op # "rename"
               /\ ~Queueing(q) /\ ~UserBrings(q)'
    BY <1>0, <1>1, <2>2 DEF Queueing, UserBrings
  <2>9. UserKnows' /\ {p} \subseteq UserHolds
    BY <1>1, <1>2, <2>2 DEF UserKnows
  <2>10. UNCHANGED <<disk, owed, up, list, dl>>
    BY <1>1
  <2>11. Kept'
    BY <2>5, <2>7, <2>8, <2>9, <2>10, UserSettlesRows
  <2> QED
    BY <1>1, <2>4, <2>11
<1>5. CASE p \notin DOMAIN disk
  <2>1. UNCHANGED db /\ user' = UserIdle
    BY <1>0, <1>5 DEF UserRecords
  <2>2. ~OwedAt(p)
    BY <1>5 DEF OwedAt
  <2>3. Steady(db, db', {p}) /\ {p} \subseteq UserHolds
    BY <1>2, <2>1, SameSteady
  <2>4. UserKnows' /\ \A q : /\ ~Queueing(q)' /\ ~UserBrings(q)' /\ ~Queueing(q)
                             /\ UserBrings(q) => q = p
    BY <1>0, <1>1, <2>1 DEF Queueing, UserBrings, UserKnows, UserIdle
  <2>5. UNCHANGED <<disk, owed, up, list, dl>>
    BY <1>1
  <2>6. Kept'
    BY <2>2, <2>3, <2>4, <2>5, UserSettlesRows
  <2> QED
    BY <1>1, <1>3, <2>1, <2>6
<1> QED
  BY <1>4, <1>5

LEMMA EditsUserForgets ==
    ASSUME IInv, Undisturbed, Undisturbed', Paired, Kept, Counted, UserForgets
    PROVE  Kept' /\ Marked(db', clock')
<1>0. PICK p : p = user.path
  OBVIOUS
<1>1. /\ UNCHANGED <<disk, owed, clock, up, list, dl>> /\ user.pc = "record"
      /\ user.op = "unlink"
      /\ \/ db' = MarkTombstone(db, p) /\ user' = [user EXCEPT !.pc = "queue"]
         \/ db' = RemoveEntry(db, p) /\ user' = UserIdle
  BY <1>0 DEF UserForgets
<1>2. p \in Top /\ Sound(db) /\ p \notin DOMAIN disk /\ p \in UserHolds
  BY <1>0, <1>1 DEF IInv, UserInv, DbInv, Paired, UserSees, HasFile, UserHolds
<1>3. Marked(db, clock)
  BY DEF Counted
<1>4. Alike(db, db', {p}) /\ Marked(db', clock)
  <2>1. CASE db' = MarkTombstone(db, p)
    <3> DEFINE row == [db.rows[p] EXCEPT !.dirty = TRUE, !.tomb = TRUE]
    <3>1. db' = UpdateRow(db, p, row)
      BY <2>1 DEF MarkTombstone
    <3>2. Has(db, p) => row.stamp = db.rows[p].stamp /\ db.rows[p].stamp <= clock
      BY <1>2, <1>3 DEF Sound, StoreType, Entry, Has, Marked
    <3> HIDE DEF row
    <3>3. /\ RowsKept(db, UpdateRow(db, p, row), {}, {p})
          /\ \A q : Has(UpdateRow(db, p, row), q) <=> Has(db, q)
          /\ Live(UpdateRow(db, p, row), p) <=> Has(db, p) /\ ~row.tomb
          /\ Known(UpdateRow(db, p, row), p) <=> Has(db, p) /\ ~row.tomb /\ row.id # NoId
          /\ Alike(db, UpdateRow(db, p, row), {p})
          /\ Has(db, p) => UpdateRow(db, p, row).rows[p] = row
          /\ \A c : Marked(db, c) /\ (Has(db, p) => row.stamp <= c)
                       => Marked(UpdateRow(db, p, row), c)
      BY <1>2, UpdateRowFace, Zenon
    <3> QED
      BY <1>3, <3>1, <3>2, <3>3
  <2>2. CASE db' = RemoveEntry(db, p)
    BY <1>2, <1>3, <2>2, RemoveFace, Zenon
  <2> QED
    BY <1>1, <2>1, <2>2
<1>5. Steady(db, db', {p}) /\ ~OwedAt(p) /\ {p} \subseteq UserHolds
  BY <1>2, <1>4, AlikeSteady DEF OwedAt
<1>6. user'.pc \in {"idle", "queue"} /\ user'.op \in {"none", "unlink"}
      /\ (user'.pc = "queue" => user'.path = p)
  <2>1. DOMAIN user = {"pc", "op", "path", "to", "known", "stamp"}
    BY DEF IInv, UserInv, UserState
  <2> QED
    BY <1>0, <1>1, <2>1 DEF UserIdle
<1>7. \A q : ~Queueing(q)' /\ ~UserBrings(q)' /\ ~Queueing(q) /\ ~UserBrings(q)
  BY <1>1, <1>6 DEF Queueing, UserBrings
<1>8. UserKnows'
  BY <1>1, <1>2, <1>6 DEF UserKnows, OwedAt
<1>9. UNCHANGED <<disk, owed, up, list, dl>>
  BY <1>1
<1>10. Kept'
  BY <1>5, <1>7, <1>8, <1>9, UserSettlesRows
<1> QED
  BY <1>1, <1>4, <1>10

\* The row of a file that was moved follows it, with what is queued for it.
LEMMA EditsUserRenames ==
    ASSUME IInv, Undisturbed, Undisturbed', Paired, Kept, Counted, UserRenames
    PROVE  Kept' /\ Marked(db', clock')
<1>0. PICK p, q, g : p = user.path /\ q = user.to /\ g = Pick(FreeGraves)
  OBVIOUS
<1>1. /\ UNCHANGED <<disk, owed, clock, up, list, dl>> /\ user.pc = "record"
      /\ user.op = "rename" /\ user' = UserIdle
      /\ db' = RenameTree(db, p, q, TRUE, FALSE, [r \in {q} |-> g])
  BY <1>0 DEF UserRenames
<1>2. /\ p \in Top /\ q \in Top /\ p # q /\ Sound(db) /\ Live(db, p)
      /\ p \notin DOMAIN disk
  BY <1>0, <1>1 DEF IInv, UserInv, DbInv, Paired, UserSees, HasFile
<1>3. p \in UserHolds /\ q \in UserHolds
  BY <1>0, <1>1 DEF UserHolds
<1>4. g \in GravePath /\ ~Has(db, g)
  <2>1. g \in FreeGraves
    BY <1>0, Picked DEF UserRenames
  <2> QED
    BY <2>1 DEF FreeGraves, GravePath, Has
<1>5. /\ Alike(db, db', {p, q})
      /\ Ready(db, p) => Ready(db', q)
      /\ HasPendingContentChange(db, p) => HasPendingContentChange(db', q)
      /\ \A c : Marked(db, c) => Marked(db', c)
  <2>1. PICK grave : grave = [r \in {q} |-> g]
    BY Zenon
  <2>2. grave[q] = g
    BY <2>1
  <2>3. db' = RenameTree(db, p, q, TRUE, FALSE, grave)
    BY <1>1, <2>1
  <2> QED
    BY <1>2, <1>4, <2>2, <2>3, RenameFace, Zenon
<1>6. \A r : /\ (UserBrings(r) => r = q) /\ ~Queueing(r)
             /\ ~UserBrings(r)' /\ ~Queueing(r)'
  BY <1>0, <1>1 DEF UserBrings, Queueing, UserIdle
<1>7. UserKnows' /\ {p, q} \subseteq UserHolds
  BY <1>1, <1>3 DEF UserKnows, UserIdle
<1>8. Steady(db, db', {p, q}) /\ ~OwedAt(p)
  BY <1>2, <1>5, AlikeSteady DEF OwedAt
<1>9. OwedAt(q) => Guarded(q)'
  <2> SUFFICES ASSUME OwedAt(q)  PROVE Guarded(q)'
    OBVIOUS
  <2>1. UserBrings(q)
    BY <1>0, <1>1 DEF UserBrings
  <2>2. Due(db, p)
    BY <1>0, <1>1, <1>2, <2>1 DEF Kept, Guards, Guarded
  <2>3. Due(db', q)
    BY <1>5, <2>2 DEF Due
  <2>4. ~Detaching(q)'
    BY <1>1, <1>2, <1>3, NotDetaching DEF Detaching
  <2> QED
    BY <1>6, <2>3, <2>4 DEF Guarded
<1>10. \A r \in Top : r \in {p, q} => (OwedAt(r) => Guarded(r)')
  BY <1>8, <1>9
<1>11. UNCHANGED <<disk, owed, up, list, dl>>
  BY <1>1
<1>12. \A r \in Top \ {p, q} : /\ UserBrings(r)' <=> UserBrings(r)
                               /\ Queueing(r)' <=> Queueing(r)
                               /\ ~(UserBrings(r) /\ user.op = "rename")
                               /\ ~(UserBrings(r)' /\ user'.op = "rename")
  BY <1>6
<1>13. Kept'
  BY <1>7, <1>8, <1>10, <1>11, <1>12, UserSettlesRows
<1> QED
  BY <1>1, <1>5, <1>13, Zenon DEF Counted

LEMMA EditsUserRecordsTime ==
    ASSUME IInv, Undisturbed, Undisturbed', Paired, Kept, Counted, UserRecordsTime
    PROVE  Kept' /\ Marked(db', clock')
<1>1. /\ UNCHANGED <<disk, owed, clock, up, list, dl>> /\ user.pc = "record"
      /\ user.op = "touch" /\ user' = UserIdle
      /\ db' = IF Live(db, user.path)
               THEN MarkDirty(db, user.path, user.stamp, FALSE) ELSE db
  BY DEF UserRecordsTime
<1>2. Marked(db, clock) /\ Sound(db)
  BY DEF Counted, IInv, DbInv
<1>3. Steady(db, db', {}) /\ Marked(db', clock)
  <2>0. PICK p, s : p = user.path /\ s = user.stamp
    OBVIOUS
  <2>1. CASE Live(db, p)
    <3> DEFINE row == [db.rows[p] EXCEPT !.dirty = TRUE, !.tomb = FALSE,
                           !.stamp = s, !.hydrated = @ \/ FALSE]
    <3>1. db' = UpdateRow(db, p, row)
      BY <1>1, <2>0, <2>1 DEF MarkDirty
    <3>2. /\ row.hydrated = db.rows[p].hydrated /\ ~row.tomb /\ row.dirty /\ row.stamp = s
      BY <1>2, <2>1 DEF Sound, StoreType, Entry, Live, Has
    <3>3. s <= clock
      BY <2>0 DEF Counted, UserUpTo
    <3> HIDE DEF row
    <3>4. /\ RowsKept(db, UpdateRow(db, p, row), {}, {p})
          /\ \A q : Has(UpdateRow(db, p, row), q) <=> Has(db, q)
          /\ Live(UpdateRow(db, p, row), p) <=> Has(db, p) /\ ~row.tomb
          /\ Known(UpdateRow(db, p, row), p) <=> Has(db, p) /\ ~row.tomb /\ row.id # NoId
          /\ Alike(db, UpdateRow(db, p, row), {p})
          /\ Has(db, p) => UpdateRow(db, p, row).rows[p] = row
          /\ \A c : Marked(db, c) /\ (Has(db, p) => row.stamp <= c)
                       => Marked(UpdateRow(db, p, row), c)
      BY <1>2, UpdateRowFace, Zenon
    <3>5. Full(db, p) => row.hydrated
      BY <3>2 DEF Full
    <3>6. Steady(db, UpdateRow(db, p, row), {})
      BY <1>2, <3>2, <3>5, UpdateSteady
    <3> QED
      BY <1>2, <3>1, <3>2, <3>3, <3>4, <3>6
  <2>2. CASE ~Live(db, p)
    BY <1>1, <1>2, <2>0, <2>2, SameSteady
  <2> QED
    BY <2>1, <2>2
<1>4. UserKnows' /\ {} \subseteq UserHolds
  BY <1>1 DEF UserIdle, UserKnows
<1>5. \A r : /\ ~UserBrings(r) /\ ~Queueing(r)
             /\ ~UserBrings(r)' /\ ~Queueing(r)'
  BY <1>1 DEF UserBrings, Queueing, UserIdle
<1>6. UNCHANGED <<disk, owed, up, list, dl>>
  BY <1>1
<1>7. Kept'
  BY <1>3, <1>4, <1>5, <1>6, UserSettlesRows
<1> QED
  BY <1>1, <1>3, <1>7, Zenon

\* The operation that makes a ready row due, or the end of an unlink.
LEMMA EditsUserQueues ==
    ASSUME IInv, Undisturbed, Undisturbed', Paired, Kept, Counted, UserQueues
    PROVE  Kept' /\ Marked(db', clock')
<1>0. PICK p, op : p = user.path /\ op = CASE user.op = "write"  -> "update"
                                           [] user.op = "create" -> "create"
                                           [] user.op = "unlink" -> "delete"
  OBVIOUS
<1>1. /\ UNCHANGED <<disk, owed, clock, up, list, dl>> /\ user.pc = "queue"
      /\ db' = QueueOp(db, op, p) /\ user' = UserIdle
  BY <1>0 DEF UserQueues
<1>2. /\ op \in {"update", "create", "delete"} /\ Sound(db) /\ p \in Top
      /\ op = "delete" <=> user.op = "unlink"
      /\ user.op \in {"write", "create", "unlink"}
      /\ p \in UserHolds
  BY <1>0, <1>1 DEF IInv, UserInv, DbInv, UserHolds
<1>3. db'.rows = db.rows
  BY <1>1, <1>2, QueueOpRows
<1>4. /\ \A r \in Top \ {p} : HasPendingContentChange(db, r) => HasPendingContentChange(db', r)
      /\ op # "delete" => HasPendingContentChange(db', p)
  <2>1. CASE op = "delete"
    <3>1. \A o \in db.ops : o.path # p => o \in db'.ops
      BY <1>1, <1>2, <2>1 DEF QueueOp, Sound, StoreType
    <3> QED
      BY <2>1, <3>1 DEF HasPendingContentChange
  <2>2. CASE op # "delete"
    <3>1. PICK o : o = [op |-> op, path |-> p]
      BY Zenon
    <3>2. o.op = op /\ o.path = p
      BY <3>1
    <3>3. db.ops \subseteq db'.ops
      BY <1>1, <1>2, <2>2 DEF QueueOp, Sound, StoreType
    <3>4. (\E x \in db.ops : x.path = p /\ x.op \in {"create", "update"}) \/ o \in db'.ops
      BY <1>1, <1>2, <2>2, <3>1 DEF QueueOp, Sound, StoreType
    <3> QED
      BY <1>2, <2>2, <3>2, <3>3, <3>4 DEF HasPendingContentChange, ContentOps
  <2> QED
    BY <2>1, <2>2
<1>5. Steady(db, db', {p})
  BY <1>3, <1>4 DEF Steady, Full, Ready, Live, Has
<1>6. \A r : /\ ~UserBrings(r) /\ (Queueing(r) => r = p)
             /\ ~UserBrings(r)' /\ ~Queueing(r)'
  BY <1>0, <1>1 DEF UserBrings, Queueing, UserIdle
<1>7. UserKnows' /\ {p} \subseteq UserHolds
  BY <1>1, <1>2 DEF UserIdle, UserKnows
<1>8. OwedAt(p) => Guarded(p)'
  <2> SUFFICES ASSUME OwedAt(p)  PROVE Guarded(p)'
    OBVIOUS
  <2>1. user.op # "unlink"
    BY <1>0, <1>1 DEF Kept, UserKnows
  <2>2. Queueing(p)
    BY <1>0, <1>1, <1>2, <2>1 DEF Queueing
  <2>3. Ready(db, p)
    BY <1>2, <2>2 DEF Kept, Guards, Guarded
  <2>4. Due(db', p)
    BY <1>2, <1>3, <1>4, <2>1, <2>3 DEF Due, Ready, Live, Has
  <2>5. ~Detaching(p)'
    BY <1>1, <1>2, NotDetaching DEF Detaching
  <2> QED
    BY <1>6, <2>4, <2>5 DEF Guarded
<1>9. UNCHANGED <<disk, owed, up, list, dl>>
  BY <1>1
<1>10. \A r \in Top : r \in {p} => (OwedAt(r) => Guarded(r)')
  BY <1>8
<1>11. Kept'
  BY <1>5, <1>6, <1>7, <1>9, <1>10, UserSettlesRows
<1>12. Marked(db', clock')
  BY <1>1, <1>3 DEF Counted, Marked
<1> QED
  BY <1>11, <1>12
-----------------------------------------------------------------------------
\* ---- The upload pass.
LEMMA MarkHydratedSteady ==
    ASSUME NEW st, Sound(st), NEW p, NEW stamp
    PROVE  /\ Steady(st, MarkHydrated(st, p, stamp), {})
           /\ \A c : Marked(st, c) /\ stamp <= c => Marked(MarkHydrated(st, p, stamp), c)
<1> DEFINE row == [st.rows[p] EXCEPT !.hydrated = TRUE, !.stamp = stamp]
<1>1. Has(st, p) => /\ row.hydrated /\ row.tomb = st.rows[p].tomb
                    /\ row.dirty = st.rows[p].dirty /\ row.stamp = stamp
  BY DEF Sound, StoreType, Entry, Has
<1>2. MarkHydrated(st, p, stamp) = UpdateRow(st, p, row)
  BY Zenon DEF MarkHydrated
<1> HIDE DEF row
<1>3. /\ RowsKept(st, UpdateRow(st, p, row), {}, {p})
      /\ \A q : Has(UpdateRow(st, p, row), q) <=> Has(st, q)
      /\ Live(UpdateRow(st, p, row), p) <=> Has(st, p) /\ ~row.tomb
      /\ Known(UpdateRow(st, p, row), p) <=> Has(st, p) /\ ~row.tomb /\ row.id # NoId
      /\ Alike(st, UpdateRow(st, p, row), {p})
      /\ Has(st, p) => UpdateRow(st, p, row).rows[p] = row
      /\ \A c : Marked(st, c) /\ (Has(st, p) => row.stamp <= c)
                   => Marked(UpdateRow(st, p, row), c)
  BY UpdateRowFace, Zenon
<1>4. /\ Full(st, p) => row.hydrated
      /\ Ready(st, p) => ~row.tomb /\ row.dirty
  BY <1>1 DEF Full, Ready, Live
<1>5. Steady(st, UpdateRow(st, p, row), {})
  BY <1>4, UpdateSteady
<1> QED
  BY <1>1, <1>2, <1>3, <1>5

\* A pass that goes on to nothing it would have to know the file for.
LEMMA UpGoesOn ==
    ASSUME IInv, Undisturbed, Undisturbed', Kept, UNCHANGED <<db, disk, owed, user, list, dl>>,
           up'.pc \in {"idle", "pass", "forget", "missing", "replace", "send"}
    PROVE  Kept' /\ UNCHANGED db
<1>1. UpKnows' /\ Settles'
  BY DEF UpKnows, Settles
<1> QED
  BY <1>1, UpRests

LEMMA EditsUpGoes ==
    ASSUME IInv, Undisturbed, Undisturbed', Kept,
           UpStart \/ UpTombstone \/ UpReplace \/ UpEnd
    PROVE  Kept' /\ UNCHANGED db
<1>1. UNCHANGED <<db, disk, owed, user, list, dl>>
  BY Zenon DEF UpStart, UpTombstone, UpReplace, UpEnd
<1>2. UpStart \/ UpEnd => up'.pc \in {"idle", "pass"}
  <2>1. UpStart => up'.pc = "pass"
    BY DEF UpStart, UpIdle
  <2>2. UpEnd => up'.pc = "idle"
    BY DEF UpEnd, UpIdle
  <2> QED
    BY <2>1, <2>2
<1>3. UpTombstone => up'.pc \in {"pass", "forget"}
  BY UpFields, Zenon DEF UpTombstone
<1>4. UpReplace => up'.pc \in {"pass", "send"}
  BY UpFields, Zenon DEF UpReplace
<1> QED
  BY <1>1, <1>2, <1>3, <1>4, UpGoesOn

\* What was sent is owed no more.
LEMMA EditsUpSend ==
    ASSUME IInv, Undisturbed, Undisturbed', Kept, UpSend
    PROVE  Kept' /\ UNCHANGED db
<1>0. PICK p : p = up.path
  OBVIOUS
<1>1. UNCHANGED <<db, disk, user, list, dl>>
  BY DEF UpSend
<1>2. CASE up' = UpPass /\ UNCHANGED owed
  BY <1>1, <1>2, UpFields, UpGoesOn
<1>3. CASE ~(up' = UpPass /\ UNCHANGED owed)
  <2>1. /\ p \in DOMAIN disk /\ owed' = owed \ {disk[p].data}
        /\ up' = [up EXCEPT !.pc = "meta"]
    BY <1>0, <1>3 DEF UpSend
  <2>2. up'.pc = "meta" /\ up'.path = p
    BY <1>0, <2>1, UpFields
  <2>3. ~OwedAt(p)'
    BY <1>1, <2>1 DEF OwedAt
  <2>4. UpKnows' /\ Settles'
    BY <2>2, <2>3 DEF UpKnows, Settles
  <2>5. owed' \subseteq owed
    BY <2>1
  <2> QED
    BY <1>1, <2>4, <2>5, UpRests
<1> QED
  BY <1>2, <1>3

\* A rename that needs no upload goes on to be recorded.
LEMMA EditsUpMove ==
    ASSUME IInv, Undisturbed, Undisturbed', Kept, UpMove
    PROVE  Kept' /\ UNCHANGED db
<1>1. UNCHANGED <<db, disk, owed, user, list, dl>> /\ up.pc = "move"
  BY DEF UpMove
<1>2. CASE up' = [up EXCEPT !.pc = IF up.changed THEN "replace" ELSE "adopt",
                            !.node = IF Has(db, up.path) THEN NodeOf(up.path) ELSE @]
  <2>1. up'.pc = (IF up.changed THEN "replace" ELSE "adopt") /\ up'.path = up.path
    BY <1>2, UpFields
  <2>2. CASE up.changed
    BY <1>1, <2>1, <2>2, UpGoesOn
  <2>3. CASE ~up.changed
    <3>1. ~OwedAt(up.path)
      BY <1>1, <2>3 DEF Kept, UpKnows
    <3>2. ~OwedAt(up.path)'
      BY <1>1, <2>1, <3>1 DEF OwedAt
    <3>3. UpKnows' /\ Settles' /\ owed' \subseteq owed
      BY <1>1, <2>1, <2>3, <3>2 DEF UpKnows, Settles
    <3> QED
      BY <1>1, <3>3, UpRests
  <2> QED
    BY <2>2, <2>3
<1>3. CASE up' = UpPass
  BY <1>1, <1>3, UpFields, UpGoesOn
<1> QED
  BY <1>2, <1>3 DEF UpMove

LEMMA EditsUpAdopt ==
    ASSUME IInv, Undisturbed, Undisturbed', Kept, UpAdopt
    PROVE  Kept' /\ UNCHANGED db
<1>1. UNCHANGED <<db, disk, owed, user, list, dl>> /\ up.pc = "adopt"
  BY Zenon DEF UpAdopt
<1>2. CASE up' = UpPass
  BY <1>1, <1>2, UpFields, UpGoesOn
<1>3. CASE \E i \in IdsAt(cloud, up.path) :
              up' = [up EXCEPT !.pc = "clean", !.node = Node(cloud, i)]
  <2>1. up'.pc = "clean" /\ up'.path = up.path
    BY <1>3, UpFields
  <2>2. ~OwedAt(up.path)'
    BY <1>1, <2>1 DEF Kept, UpKnows, OwedAt
  <2>3. UpKnows' /\ Settles' /\ owed' \subseteq owed
    BY <1>1, <2>1, <2>2 DEF UpKnows, Settles
  <2> QED
    BY <1>1, <2>3, UpRests
<1> QED
  BY <1>2, <1>3, Zenon DEF UpAdopt

\* A path the pass takes in hand is in nobody else's.
LEMMA UpAlone ==
    ASSUME Undisturbed, Undisturbed', UNCHANGED <<user, list, dl>>, NEW p \in Top,
           p \in UpHolds \/ p \in UpHolds'
    PROVE  p \notin UserHolds /\ p \notin ListHolds /\ p \notin DlHolds
<1>1. /\ ~Meets(UserHolds, UpHolds \union ListHolds \union DlHolds)
      /\ ~Meets(UserHolds, UpHolds' \union ListHolds \union DlHolds)
      /\ ~Meets(UpHolds, ListHolds \union DlHolds)
      /\ ~Meets(UpHolds', ListHolds \union DlHolds)
  BY DEF Undisturbed, Overlap, UserHolds, ListHolds, DlHolds
<1>2. p \in UpHolds \union ListHolds \union DlHolds
      \/ p \in UpHolds' \union ListHolds \union DlHolds
  OBVIOUS
<1> QED
  BY <1>1, <1>2, Alone

\* What has no change of content queued is not due, and nobody is recording it.
LEMMA EditsUpFile ==
    ASSUME IInv, Undisturbed, Undisturbed', Kept, Counted, UpFile
    PROVE  Kept' /\ (UNCHANGED db \/ Marked(db', clock'))
<1>1. UNCHANGED <<disk, owed, clock, user, list, dl>> /\ up.pc = "pass"
  BY DEF UpFile
<1>2. Sound(db) /\ Marked(db, clock)
  BY ZenonT(40) DEF IInv, DbInv, Counted
<1> DEFINE at(p, pc) == [up EXCEPT !.pc = pc, !.todo = @ \ {p}, !.path = p,
                                   !.node = NodeOf(p), !.changed = Changed(p)]
           skip(p) == [up EXCEPT !.todo = @ \ {p}]
<1>3. PICK p \in up.todo :
         \/ up' = skip(p) /\ UNCHANGED db
         \/ up' = at(p, "missing") /\ UNCHANGED db
         \/ /\ Live(db, p) /\ p \in DOMAIN disk
            /\ db' = IF Changed(p) /\ ~db.rows[p].hydrated
                     THEN MarkHydrated(db, p, disk[p].stamp) ELSE db
            /\ up' = at(p, IF Renamed(p) THEN "move"
                           ELSE IF Changed(p) THEN "replace" ELSE "adopt")
  BY Zenon DEF UpFile
<1>4. ASSUME NEW pc
      PROVE  at(p, pc).pc = pc /\ at(p, pc).path = p /\ at(p, pc).changed = Changed(p)
  BY UpFields
<1>5. skip(p).pc = "pass"
  BY <1>1, UpFields
<1> HIDE DEF at, skip
<1>6. CASE (up' = skip(p) \/ up' = at(p, "missing")) /\ UNCHANGED db
  <2>1. up'.pc \in {"pass", "missing"}
    BY <1>4, <1>5, <1>6
  <2> QED
    BY <1>1, <1>6, <2>1, UpGoesOn
<1>7. CASE /\ Live(db, p) /\ p \in DOMAIN disk
           /\ db' = IF Changed(p) /\ ~db.rows[p].hydrated
                    THEN MarkHydrated(db, p, disk[p].stamp) ELSE db
           /\ up' = at(p, IF Renamed(p) THEN "move"
                          ELSE IF Changed(p) THEN "replace" ELSE "adopt")
  <2>1. disk[p].stamp <= clock
    BY <1>7 DEF Counted, DiskUpTo, FilesUpTo
  <2>2. Steady(db, db', {}) /\ Marked(db', clock)
    BY <1>2, <1>7, <2>1, MarkHydratedSteady, SameSteady
  <2>3. /\ up'.pc \in {"move", "replace", "adopt"} /\ up'.path = p
        /\ up'.changed = Changed(p)
        /\ up'.pc = "adopt" => ~Changed(p)
    BY <1>4, <1>7
  <2>4. p \in Top
    BY <1>2, <1>7 DEF Sound, Live, Has
  <2>5. (\A q : OwedAt(q)' => OwedAt(q)) /\ Found'
    BY <1>1, SameFiles DEF Kept
  <2>6. UpKnows'
    <3> SUFFICES ASSUME up'.pc = "adopt" \/ (up'.pc = "move" /\ ~up'.changed)
                 PROVE  ~OwedAt(p)'
      BY <2>3 DEF UpKnows
    <3>1. ~HasPendingContentChange(db, p)
      BY <2>3, Zenon DEF Changed
    <3>2. ~Due(db, p)
      BY <3>1 DEF Due
    <3>3. p \in UpHolds'
      BY <2>3 DEF UpHolds
    <3>4. p \notin UserHolds /\ p \notin ListHolds
      BY <1>1, <2>4, <3>3, UpAlone
    <3>5. ~OwedAt(p)
      BY <2>4, <3>2, <3>4, NotDue DEF Kept
    <3> QED
      BY <2>5, <3>5
  <2>7. Settles' /\ {} \union {} \subseteq UpHolds
    BY <2>3 DEF Settles
  <2>8. UNCHANGED <<user, list, dl>>
    BY <1>1
  <2>9. Kept'
    BY <2>2, <2>5, <2>6, <2>7, <2>8, UpEdits
  <2> QED
    BY <1>1, <2>2, <2>9
<1> QED
  BY <1>3, <1>6, <1>7

\* A step of the pass that changes the row of p, where nothing is owed.
LEMMA UpSettlesRow ==
    ASSUME IInv, Undisturbed, Undisturbed', Kept, UNCHANGED <<disk, owed, user, list, dl>>,
           NEW p \in Top, p \in UpHolds, Alike(db, db', {p}), ~OwedAt(p),
           up'.pc = "pass"
    PROVE  Kept'
<1>1. (\A q : OwedAt(q)' => OwedAt(q)) /\ Found'
  BY SameFiles DEF Kept
<1>2. Steady(db, db', {p})
  BY AlikeSteady
<1>3. UpKnows' /\ Settles' /\ {p} \union {} \subseteq UpHolds
  BY DEF UpKnows, Settles
<1>4. \A q \in Top : q \in {p} \union {} => (OwedAt(q)' => Guarded(q)')
  BY <1>1
<1> QED
  BY <1>1, <1>2, <1>3, <1>4, UpEdits

LEMMA EditsUpForget ==
    ASSUME IInv, Undisturbed, Undisturbed', Paired, Kept, Counted, UpForget
    PROVE  Kept' /\ Marked(db', clock')
<1>0. PICK p : p = up.path
  OBVIOUS
<1>1. /\ UNCHANGED <<disk, owed, clock, user, list, dl>> /\ up.pc = "forget"
      /\ db' = RemoveSubtree(db, p) /\ up'.pc = "pass"
  BY <1>0, UpFields DEF UpForget, UpPass
<1>2. p \in Top /\ Sound(db) /\ Marked(db, clock) /\ p \in UpHolds
  BY <1>0, <1>1 DEF IInv, UpInv, DbInv, Counted, UpHolds
<1>3. ~Due(db, p)
  BY <1>0, <1>1 DEF Paired, UpSees, Due, Ready
<1>4. Alike(db, db', {p}) /\ Marked(db', clock)
  BY <1>1, <1>2, RemoveFace, Zenon
<1>5. UNCHANGED <<user, list, dl>>
  BY <1>1
<1>6. p \notin UserHolds /\ p \notin ListHolds
  BY <1>2, <1>5, UpAlone
<1>7. ~OwedAt(p)
  BY <1>2, <1>3, <1>6, NotDue DEF Kept
<1>8. Kept'
  BY <1>1, <1>2, <1>4, <1>7, UpSettlesRow
<1> QED
  BY <1>1, <1>4, <1>8

LEMMA EditsUpMissing ==
    ASSUME IInv, Undisturbed, Undisturbed', Paired, Kept, Counted, UpMissing
    PROVE  Kept' /\ Marked(db', clock')
<1>0. PICK p : p = up.path
  OBVIOUS
<1>1. /\ UNCHANGED <<disk, owed, clock, user, list, dl>> /\ up.pc = "missing"
      /\ db' = MarkTombstone(db, p) /\ up'.pc = "pass"
  BY <1>0, UpFields DEF UpMissing
<1>2. p \in Top /\ Sound(db) /\ Marked(db, clock) /\ p \in UpHolds
  BY <1>0, <1>1 DEF IInv, UpInv, DbInv, Counted, UpHolds
<1>3. ~OwedAt(p)
  BY <1>0, <1>1 DEF Paired, UpSees, HasFile, OwedAt
<1>4. Alike(db, db', {p}) /\ Marked(db', clock)
  <2> DEFINE row == [db.rows[p] EXCEPT !.dirty = TRUE, !.tomb = TRUE]
  <2>1. db' = UpdateRow(db, p, row)
    BY <1>1 DEF MarkTombstone
  <2>2. Has(db, p) => row.stamp = db.rows[p].stamp /\ db.rows[p].stamp <= clock
    BY <1>2 DEF Sound, StoreType, Entry, Has, Marked
  <2> HIDE DEF row
  <2>3. /\ RowsKept(db, UpdateRow(db, p, row), {}, {p})
        /\ \A q : Has(UpdateRow(db, p, row), q) <=> Has(db, q)
        /\ Live(UpdateRow(db, p, row), p) <=> Has(db, p) /\ ~row.tomb
        /\ Known(UpdateRow(db, p, row), p) <=> Has(db, p) /\ ~row.tomb /\ row.id # NoId
        /\ Alike(db, UpdateRow(db, p, row), {p})
        /\ Has(db, p) => UpdateRow(db, p, row).rows[p] = row
        /\ \A c : Marked(db, c) /\ (Has(db, p) => row.stamp <= c)
                     => Marked(UpdateRow(db, p, row), c)
    BY <1>2, UpdateRowFace, Zenon
  <2> QED
    BY <1>2, <2>1, <2>2, <2>3
<1>5. UNCHANGED <<disk, owed, user, list, dl>>
  BY <1>1
<1>6. Kept'
  BY <1>1, <1>2, <1>3, <1>4, <1>5, UpSettlesRow
<1> QED
  BY <1>1, <1>4, <1>6

\* The row is recorded as what iCloud has only where nothing is owed.
LEMMA EditsUpClean ==
    ASSUME IInv, Undisturbed, Undisturbed', Kept, Counted, UpClean
    PROVE  Kept' /\ Marked(db', clock')
<1>0. PICK p, node, recent : p = up.path /\ node = up.node /\ recent = Crawling
  OBVIOUS
<1>1. /\ UNCHANGED <<disk, owed, clock, user, list, dl>> /\ up.pc = "clean"
      /\ db' = MarkClean(db, p, node, recent)
      /\ up'.pc = "pass"
  BY <1>0, UpFields DEF UpClean
<1>2. p \in Top /\ Sound(db) /\ Marked(db, clock) /\ p \in UpHolds
  BY <1>0, <1>1 DEF IInv, UpInv, DbInv, Counted, UpHolds
<1>3. ~OwedAt(p) /\ node.stamp <= clock
  BY <1>0, <1>1 DEF Kept, UpKnows, Counted, UpUpTo
<1>4. Alike(db, db', {p}) /\ Marked(db', clock)
  <2> DEFINE row == [db.rows[p] EXCEPT !.dirty = FALSE, !.tomb = FALSE,
                         !.hydrated = @ \/ db.rows[p].kind # "file",
                         !.id = node.id, !.etag = node.etag, !.stamp = node.stamp,
                         !.synced = p, !.recent = recent]
             new == UpdateRow(db, p, row)
  <2>1. db'.rows = new.rows /\ db'.ops = {o \in new.ops : o.path # p}
    BY <1>1, <1>2 DEF MarkClean, UpdateRow, Sound, StoreType
  <2>2. Has(db, p) => row.stamp = node.stamp
    BY <1>2 DEF Sound, StoreType, Entry, Has
  <2> HIDE DEF row
  <2>3. /\ RowsKept(db, UpdateRow(db, p, row), {}, {p})
        /\ \A q : Has(UpdateRow(db, p, row), q) <=> Has(db, q)
        /\ Live(UpdateRow(db, p, row), p) <=> Has(db, p) /\ ~row.tomb
        /\ Known(UpdateRow(db, p, row), p) <=> Has(db, p) /\ ~row.tomb /\ row.id # NoId
        /\ Alike(db, UpdateRow(db, p, row), {p})
        /\ Has(db, p) => UpdateRow(db, p, row).rows[p] = row
        /\ \A c : Marked(db, c) /\ (Has(db, p) => row.stamp <= c)
                     => Marked(UpdateRow(db, p, row), c)
    BY <1>2, UpdateRowFace, Zenon
  <2>4. Alike(db, new, {p}) /\ Marked(new, clock)
    BY <1>2, <1>3, <2>2, <2>3
  <2> HIDE DEF new
  <2> QED
    BY <2>1, <2>4 DEF Alike, Marked, Has, HasPendingContentChange
<1>5. UNCHANGED <<disk, owed, user, list, dl>>
  BY <1>1
<1>6. Kept'
  BY <1>1, <1>2, <1>3, <1>4, <1>5, UpSettlesRow
<1> QED
  BY <1>1, <1>4, <1>6

\* A file is taken for the one that was sent only if nothing is owed there.
LEMMA EditsUpMeta ==
    ASSUME IInv, Undisturbed, Undisturbed', Kept, Counted, UpMeta
    PROVE  Kept' /\ (UNCHANGED db \/ Marked(db', clock'))
<1>0. PICK p : p = up.path
  OBVIOUS
<1>1. UNCHANGED <<owed, clock, user, list, dl>> /\ up.pc = "meta"
  BY Zenon DEF UpMeta
<1>2. p \in Top /\ Sound(db) /\ Marked(db, clock)
  BY <1>0, <1>1 DEF IInv, UpInv, DbInv, Counted
<1>3. CASE up' = UpPass /\ UNCHANGED <<db, disk>>
  BY <1>1, <1>3, UpFields, UpGoesOn
<1>4. CASE /\ p \in DOMAIN disk /\ disk[p].stamp = up.before
           /\ \E i \in IdsAt(cloud, p) :
                /\ disk' = [disk EXCEPT ![p].stamp = cloud[i].stamp]
                /\ up' = [up EXCEPT !.pc = "clean", !.node = Node(cloud, i)]
                /\ UNCHANGED db
  <2>1. up'.pc = "clean" /\ up'.path = p /\ UNCHANGED db
    BY <1>0, <1>4, UpFields
  <2>2. DOMAIN disk' = DOMAIN disk /\ \A q \in DOMAIN disk : disk'[q].data = disk[q].data
    <3>1. \A q \in DOMAIN disk : disk[q] \in File
      BY DEF IInv, DiskInv
    <3> QED
      BY <1>4, <3>1 DEF File
  <2>3. ~OwedAt(p)
    BY <1>0, <1>1, <1>4 DEF Kept, Settles
  <2>4. \A q : OwedAt(q)' => OwedAt(q)
    BY <1>1, <2>2 DEF OwedAt
  <2>5. Found'
    BY <1>1, <2>2 DEF Kept, Found
  <2>6. UpKnows' /\ Settles' /\ {} \union {} \subseteq UpHolds
    BY <2>1, <2>3, <2>4 DEF UpKnows, Settles
  <2>7. Steady(db, db', {})
    BY <2>1, SameSteady
  <2>8. UNCHANGED <<user, list, dl>>
    BY <1>1
  <2>9. Kept'
    BY <2>4, <2>5, <2>6, <2>7, <2>8, UpEdits
  <2> QED
    BY <2>1, <2>9
<1>5. CASE /\ p \in DOMAIN disk
           /\ \E i \in IdsAt(cloud, p) :
                db' = MarkUploadedButDirty(db, p, Node(cloud, i), Crawling)
           /\ up' = UpPass /\ UNCHANGED disk
  <2>1. PICK i \in IdsAt(cloud, p) :
           db' = MarkUploadedButDirty(db, p, Node(cloud, i), Crawling)
    BY <1>5
  <2>2. PICK node, recent : node = Node(cloud, i) /\ recent = Crawling
    OBVIOUS
  <2> DEFINE row == [db.rows[p] EXCEPT !.id = node.id, !.etag = node.etag,
                                       !.synced = p, !.recent = recent]
  <2>4. db' = UpdateRow(db, p, row)
    BY <2>1, <2>2 DEF MarkUploadedButDirty
  <2>5. Has(db, p) => /\ row.tomb = db.rows[p].tomb /\ row.dirty = db.rows[p].dirty
                      /\ row.hydrated = db.rows[p].hydrated
                      /\ row.stamp = db.rows[p].stamp /\ db.rows[p].stamp <= clock
    BY <1>2 DEF Sound, StoreType, Entry, Has, Marked
  <2> HIDE DEF row
  <2>6. /\ RowsKept(db, UpdateRow(db, p, row), {}, {p})
        /\ \A q : Has(UpdateRow(db, p, row), q) <=> Has(db, q)
        /\ Live(UpdateRow(db, p, row), p) <=> Has(db, p) /\ ~row.tomb
        /\ Known(UpdateRow(db, p, row), p) <=> Has(db, p) /\ ~row.tomb /\ row.id # NoId
        /\ Alike(db, UpdateRow(db, p, row), {p})
        /\ Has(db, p) => UpdateRow(db, p, row).rows[p] = row
        /\ \A c : Marked(db, c) /\ (Has(db, p) => row.stamp <= c)
                     => Marked(UpdateRow(db, p, row), c)
    BY <1>2, UpdateRowFace, Zenon
  <2>7. Marked(db', clock)
    BY <1>2, <2>4, <2>5, <2>6
  <2>8. Full(db, p) => row.hydrated
    BY <2>5, Zenon DEF Full
  <2>9. Ready(db, p) => ~row.tomb /\ row.dirty
    BY <2>5, Zenon DEF Ready, Live
  <2>10. Steady(db, db', {})
    BY <1>2, <2>4, <2>8, <2>9, UpdateSteady
  <2>11. up'.pc = "pass"
    BY <1>5, UpFields
  <2>12. UpKnows' /\ Settles' /\ {} \union {} \subseteq UpHolds
    BY <2>11 DEF UpKnows, Settles
  <2>13. (\A q : OwedAt(q)' => OwedAt(q)) /\ Found'
    BY <1>1, <1>5, SameFiles DEF Kept
  <2>14. UNCHANGED <<user, list, dl>>
    BY <1>1
  <2>15. Kept'
    BY <2>10, <2>12, <2>13, <2>14, UpEdits
  <2> QED
    BY <1>1, <2>7, <2>15
<1> QED
  BY <1>0, <1>3, <1>4, <1>5, Zenon DEF UpMeta, SameFingerprint
-----------------------------------------------------------------------------
\* ---- A listing applied.

\* What a listing has in hand, or takes in hand, nobody is recording: what is
\* not due there is not owed.
LEMMA ListNotDue ==
    ASSUME Undisturbed, Undisturbed', UNCHANGED <<user, up, dl>>, Guards,
           list.pc # "detach", NEW p \in Top, p \in ListHolds \/ p \in ListHolds', ~Due(db, p)
    PROVE  ~OwedAt(p)
<1>1. /\ ~Meets(UserHolds, UpHolds \union ListHolds \union DlHolds)
      /\ ~Meets(UserHolds, UpHolds \union ListHolds' \union DlHolds)
  BY DEF Undisturbed, Overlap, UserHolds, UpHolds, DlHolds
<1>2. p \notin UserHolds
  BY <1>1, Alone
<1>3. ~UserBrings(p) /\ ~Queueing(p) /\ ~Detaching(p)
  BY <1>2 DEF UserBrings, Queueing, Detaching, UserHolds
<1> QED
  BY <1>3 DEF Guards, Guarded

\* A step of a listing that changes the rows R, where nothing is owed.
LEMMA ListSettlesRows ==
    ASSUME IInv, Undisturbed, Undisturbed', Kept, UNCHANGED <<disk, owed, user, up, dl>>,
           NEW R, R \subseteq ListHolds \union ListHolds', Steady(db, db', R),
           \A p \in R : ~OwedAt(p),
           \A p \in Top \ R : ~Detaching(p) /\ ~Detaching(p)',
           ListKnows'
    PROVE  Kept'
<1>1. (\A p : OwedAt(p)' => OwedAt(p)) /\ Found' /\ Settles'
  BY SameFiles DEF Kept
<1>2. R \union {} = R
  OBVIOUS
<1>3. \A p \in Top : p \in R => (OwedAt(p)' => Guarded(p)')
  BY <1>1
<1>4. \A p \in Top \ {} : OwedAt(p)' => OwedAt(p)
  BY <1>1
<1> QED
  BY <1>1, <1>2, <1>3, <1>4, ListEdits

LEMMA EditsListStart ==
    ASSUME IInv, Undisturbed, Undisturbed', Kept, Counted, ListStart
    PROVE  Kept' /\ Marked(db', clock')
<1>1. /\ UNCHANGED <<disk, owed, clock, user, up, dl>> /\ list.pc = "idle"
      /\ list'.pc = "items" /\ list'.sweep = {}
  BY DEF ListStart, ListIdle
<1>2. Steady(db, db', {}) /\ Marked(db', clock)
  <2> DEFINE rows == [p \in DOMAIN db.rows |-> [db.rows[p] EXCEPT !.recent = FALSE]]
  <2>1. Sound(db) /\ Marked(db, clock)
    BY Zenon DEF IInv, DbInv, Counted
  <2>2. db'.rows = rows /\ db'.ops = db.ops
    BY <2>1 DEF ListStart, Sound, StoreType
  <2>3. /\ DOMAIN rows = DOMAIN db.rows
        /\ \A p \in DOMAIN rows : /\ rows[p].tomb = db.rows[p].tomb
                                  /\ rows[p].dirty = db.rows[p].dirty
                                  /\ rows[p].hydrated = db.rows[p].hydrated
                                  /\ rows[p].stamp = db.rows[p].stamp
    BY <2>1 DEF Sound, StoreType, Entry
  <2> HIDE DEF rows
  <2> QED
    BY <2>1, <2>2, <2>3 DEF Steady, Full, Ready, Live, Has, HasPendingContentChange, Marked
<1>3. ListKnows' /\ {} \subseteq ListHolds
  BY <1>1 DEF ListKnows
<1>4. \A p : ~Detaching(p) /\ ~Detaching(p)'
  BY <1>1 DEF Detaching
<1>5. UNCHANGED <<disk, owed, user, up, dl>>
  BY <1>1
<1>6. Kept'
  BY <1>2, <1>3, <1>4, <1>5, ListSettlesRows
<1> QED
  BY <1>1, <1>2, <1>6

\* A clean row has nothing that is owed.
LEMMA EditsListItem ==
    ASSUME IInv, Undisturbed, Undisturbed', Paired, Kept, ListItem
    PROVE  Kept' /\ UNCHANGED db
<1>1. UNCHANGED <<db, disk, owed, user, up, dl>> /\ list.pc = "items"
  BY Zenon DEF ListItem
<1>2. list.sweep = {}
  BY Zenon, <1>1 DEF Paired, ListSees
<1>3. PICK n \in list.items :
       LET now(pc) == [list EXCEPT !.pc = pc, !.items = @ \ {n}, !.node = n]
           rows == RowsWithId(db, n.id)
       IN  \/ rows = {} /\ list' = now("occupant")
           \/ \E e \in rows :
              LET row == db.rows[e]
                  at(pc) == [now(pc) EXCEPT !.at = e, !.stamp = row.stamp,
                                            !.hydrated = row.hydrated, !.recent = row.recent]
              IN  \/ /\ row.dirty /\ EntryConflicts(row, n)
                     /\ list' = [now("conflict") EXCEPT !.at = e, !.then = "occupant"]
                  \/ /\ row.dirty /\ ~EntryConflicts(row, n)
                     /\ list' = [list EXCEPT !.items = @ \ {n}]
                  \/ ~row.dirty /\ e # n.path /\ list' = at("relocate")
                  \/ /\ ~row.dirty /\ e = n.path
                     /\ list' = at(IF row.stamp = n.stamp /\ row.etag = n.etag
                                   THEN "store" ELSE "redo")
  BY ZenonT(60) DEF ListItem
<1> DEFINE now(pc) == [list EXCEPT !.pc = pc, !.items = @ \ {n}, !.node = n]
           at(pc, e) == [now(pc) EXCEPT !.at = e, !.stamp = db.rows[e].stamp,
                                        !.hydrated = db.rows[e].hydrated,
                                        !.recent = db.rows[e].recent]
           clash(e) == [now("conflict") EXCEPT !.at = e, !.then = "occupant"]
           pass == [list EXCEPT !.items = @ \ {n}]
<1>4. \/ list' = now("occupant") \/ list' = pass
      \/ \E e \in RowsWithId(db, n.id) :
           \/ list' = clash(e)
           \/ ~db.rows[e].dirty /\ e # n.path /\ list' = at("relocate", e)
           \/ ~db.rows[e].dirty /\ e = n.path /\ list' \in {at("store", e), at("redo", e)}
  BY Zenon, <1>3
<1>5. /\ now("occupant").pc = "occupant" /\ now("occupant").sweep = {}
      /\ pass.pc = "items" /\ pass.sweep = {}
  BY <1>1, <1>2, ListFields
<1>6. ASSUME NEW e
      PROVE  clash(e).pc = "conflict" /\ clash(e).then = "occupant" /\ clash(e).sweep = {}
  BY <1>2, ListFields
<1>7. ASSUME NEW pc, NEW e
      PROVE  /\ at(pc, e).pc = pc /\ at(pc, e).node = n /\ at(pc, e).sweep = {}
             /\ at(pc, e).at = e
  BY <1>2, ListFields
<1> HIDE DEF now, at, clash, pass
<1>8. (\A p : OwedAt(p)' => OwedAt(p)) /\ \A p : ~Detaching(p)
  BY <1>1, SameFiles DEF Detaching
<1>9. CASE list' \in {now("occupant"), pass}
  <2>1. ListKnows' /\ \A p : ~Detaching(p)'
    BY <1>5, <1>9 DEF ListKnows, Detaching
  <2> QED
    BY <1>1, <1>8, <2>1, ListRests
<1>10. ASSUME NEW e, list' = clash(e)  PROVE Kept'
  <2>1. ListKnows' /\ \A p : ~Detaching(p)'
    BY <1>6, <1>10 DEF ListKnows, Detaching
  <2> QED
    BY <1>1, <1>8, <2>1, ListRests
<1>11. ASSUME NEW e \in RowsWithId(db, n.id), ~db.rows[e].dirty,
              list'.pc # "detach",  e \in ListHolds'
       PROVE  ~OwedAt(e)'
  <2>1. e \in Top /\ ~Due(db, e)
    BY <1>11 DEF RowsWithId, IInv, DbInv, Sound, Due, Ready
  <2>2. ~OwedAt(e)
    BY <1>1, <1>11, <2>1, ListNotDue DEF Kept
  <2> QED
    BY <1>8, <2>2
<1>12. ASSUME NEW e \in RowsWithId(db, n.id), ~db.rows[e].dirty, e # n.path,
              list' = at("relocate", e)
       PROVE  Kept'
  <2>1. list'.pc = "relocate" /\ list'.at = e /\ list'.sweep = {}
    BY <1>7, <1>12
  <2>2. e \in ListHolds'
    BY <2>1 DEF ListHolds
  <2>3. ListKnows' /\ \A p : ~Detaching(p)'
    BY <1>11, <1>12, <2>1, <2>2 DEF ListKnows, Detaching
  <2> QED
    BY <1>1, <1>8, <2>3, ListRests
<1>13. ASSUME NEW e \in RowsWithId(db, n.id), ~db.rows[e].dirty, e = n.path,
              list' \in {at("store", e), at("redo", e)}
       PROVE  Kept'
  <2>1. list'.pc \in {"store", "redo"} /\ list'.node.path = e /\ list'.sweep = {}
    BY <1>7, <1>13
  <2>2. e \in ListHolds'
    BY <2>1 DEF ListHolds
  <2>3. ListKnows' /\ \A p : ~Detaching(p)'
    BY <1>11, <1>13, <2>1, <2>2 DEF ListKnows, Detaching
  <2> QED
    BY <1>1, <1>8, <2>3, ListRests
<1> QED
  BY Zenon, <1>1, <1>4, <1>9, <1>10, <1>12, <1>13

\* The copy of a conflict takes what is owed along: its row was due.
LEMMA EditsListConflict ==
    ASSUME IInv, Undisturbed, Undisturbed', Paired, Kept, ~Recycled, ListConflict
    PROVE  Kept' /\ UNCHANGED db
<1>0. PICK p, q : p = list.at /\ q = Pick(FreeConflicts)
  OBVIOUS
<1>1. /\ UNCHANGED <<db, owed, user, up, dl>> /\ list.pc = "conflict"
      /\ list' = [list EXCEPT !.pc = "detach", !.to = q]
      /\ q \in FreeConflicts
  BY <1>0, Picked DEF ListConflict
<1>2. /\ list'.pc = "detach" /\ list'.at = p /\ list'.to = q /\ list'.sweep = {}
      /\ list'.then = list.then /\ list'.node = list.node
  BY <1>0, <1>1, ListFields DEF Paired, ListSees
<1>3. /\ q \in Top /\ ~Has(db, q) /\ q \notin DOMAIN disk
      /\ p \in Top /\ Has(db, p)
  BY <1>0, <1>1, Names DEF FreeConflicts, Has, IInv, ListInv, Paired, ListSees
<1>4. disk' = IF p \in DOMAIN disk THEN Moved(p, q) ELSE disk
  BY <1>0, <1>1, <1>2 DEF ListConflict
<1>5. p # q
  BY <1>3
<1>6. /\ p \notin DOMAIN disk'
      /\ \A r \in DOMAIN disk' : r # q => r \in DOMAIN disk /\ disk'[r] = disk[r]
      /\ q \in DOMAIN disk' => p \in DOMAIN disk /\ disk'[q] = disk[p]
      /\ p \in DOMAIN disk => q \in DOMAIN disk'
      /\ \A r \in DOMAIN disk : r # p => r \in DOMAIN disk'
  BY <1>3, <1>4, <1>5 DEF Moved
<1>7. p \in ListHolds /\ p \in ListHolds' /\ q \in ListHolds'
  BY <1>0, <1>1, <1>2 DEF ListHolds
<1>8. \A r \in Top \ {p, q} : OwedAt(r)' => OwedAt(r)
  BY <1>1, <1>6 DEF OwedAt
<1>9. ~OwedAt(p)' /\ (OwedAt(q)' => OwedAt(p))
  BY <1>1, <1>6 DEF OwedAt
<1>10. OwedAt(p) => Due(db, p)
  BY <1>1, <1>3, <1>7, ListNotDue DEF Kept
<1>11. OwedAt(q)' => Guarded(q)'
  <2> SUFFICES ASSUME OwedAt(q)'  PROVE Guarded(q)'
    OBVIOUS
  <2>1. Full(db, p)
    BY <1>9, <1>10 DEF Due, Ready, Full, Live
  <2>2. Full(db', list'.at)
    BY <1>1, <1>2, <2>1
  <2>3. q \notin UserHolds'
    <3>1. ~Meets(UserHolds', UpHolds' \union ListHolds' \union DlHolds')
      BY DEF Undisturbed, Overlap
    <3> QED
      BY <1>3, <1>7, <3>1, Alone
  <2>4. ~UserBrings(q)' /\ ~Queueing(q)'
    BY <2>3 DEF UserBrings, Queueing, UserHolds
  <2>5. Detaching(q)'
    BY <1>2 DEF Detaching
  <2> QED
    BY <2>2, <2>4, <2>5 DEF Guarded
<1>12. Found'
  <2> SUFFICES ASSUME NEW v \in owed'  PROVE \E r \in DOMAIN disk' : disk'[r].data = v
    BY DEF Found
  <2>1. PICK r \in DOMAIN disk : disk[r].data = v
    BY <1>1 DEF Kept, Found
  <2>2. CASE r = p
    BY <1>6, <2>1, <2>2
  <2>3. CASE r # p
    BY <1>3, <1>6, <2>1, <2>3
  <2> QED
    BY <2>2, <2>3
<1>13. Settles'
  <2>1. up.pc = "meta" => up.path # q
    BY <1>1 DEF Recycled
  <2> QED
    BY ZenonT(60), <1>1, <1>6, <1>8, <2>1, SettlesStill DEF Kept
<1>14. ListKnows'
  BY <1>0, <1>1, <1>2 DEF Kept, ListKnows
<1>15. \A r \in Top \ ({} \union {p, q}) : ~Detaching(r) /\ ~Detaching(r)'
  BY <1>1, <1>2 DEF Detaching
<1>16. Steady(db, db', {}) /\ {} \union {p, q} \subseteq ListHolds \union ListHolds'
  BY <1>1, <1>7, SameSteady
<1>17. \A r \in Top : r \in {} \union {p, q} => (OwedAt(r)' => Guarded(r)')
  BY <1>9, <1>11
<1>18. UNCHANGED <<user, up, dl>>
  BY <1>1
<1>19. Kept'
  BY <1>8, <1>12, <1>13, <1>14, <1>15, <1>16, <1>17, <1>18, ListEdits, Zenon
<1> QED
  BY <1>1, <1>19

\* The copy's row is ready, and is noted as new content at once.
LEMMA EditsListDetach ==
    ASSUME IInv, Undisturbed, Undisturbed', Paired, Kept, Counted, ListDetach
    PROVE  Kept' /\ Marked(db', clock')
<1>0. PICK p, q : p = list.at /\ q = list.to
  OBVIOUS
<1>1. /\ UNCHANGED <<disk, owed, clock, user, up, dl>> /\ list.pc = "detach"
      /\ db' = QueueConflictCopies(DetachSubtreeAsConflict(db, p, q), q)
      /\ list'.pc = list.then /\ list'.sweep = {} /\ list'.node = list.node
  BY <1>0, ListFields DEF ListDetach, Paired, ListSees
<1>2. /\ p \in Top /\ q \in Top /\ Sound(db) /\ Marked(db, clock)
      /\ Has(db, p) /\ ~Has(db, q) /\ p \notin DOMAIN disk
      /\ list.then \in {"occupant", "place"}
      /\ list.then = "place" => p = list.node.path
  BY <1>0, <1>1
     DEF IInv, DbInv, ListInv, ListState, Paired, ListSees, HasFile, Counted, Kept, ListKnows
<1>3. /\ Alike(db, db', {p, q}) /\ Marked(db', clock)
      /\ Full(db, p) => Due(db', q)
  <2> DEFINE new == DetachSubtreeAsConflict(db, p, q)
  <2>1. /\ Alike(db, new, {p, q}) /\ Live(new, q)
        /\ Full(db, p) => Ready(new, q)
        /\ \A c : Marked(db, c) => Marked(new, c)
    BY <1>2, DetachFace
  <2>2. DOMAIN new = {"rows", "ops"}
    BY <1>2 DEF DetachSubtreeAsConflict, Sound, StoreType
  <2> HIDE DEF new
  <2>3. /\ db'.rows = new.rows
        /\ db'.ops = new.ops \union {[op |-> "conflict-copy", path |-> r] : r \in Subtree(new, q)}
    BY <1>1, <2>2 DEF QueueConflictCopies, new
  <2>4. q \in Subtree(new, q)
    BY <1>2, <2>1, TopPaths DEF Subtree, Live, Has
  <2>5. HasPendingContentChange(db', q)
    <3>1. PICK o : o = [op |-> "conflict-copy", path |-> q]
      BY Zenon
    <3>2. o.op = "conflict-copy" /\ o.path = q
      BY <3>1
    <3>3. o \in db'.ops
      BY <2>3, <2>4, <3>1
    <3> QED
      BY <3>2, <3>3 DEF HasPendingContentChange, ContentOps
  <2>6. Alike(db, db', {p, q}) /\ Marked(db', clock)
    BY <1>2, <2>1, <2>3 DEF Alike, Marked, Has, HasPendingContentChange
  <2>7. Full(db, p) => Ready(db', q)
    BY <2>1, <2>3 DEF Ready, Live, Has
  <2> QED
    BY <2>5, <2>6, <2>7 DEF Due
<1>4. Steady(db, db', {p, q}) /\ ~OwedAt(p)
  BY <1>2, <1>3, AlikeSteady DEF OwedAt
<1>5. p \in ListHolds /\ q \in ListHolds
  BY <1>0, <1>1 DEF ListHolds
<1>6. (\A r : OwedAt(r)' => OwedAt(r)) /\ Found' /\ Settles'
  BY <1>1, SameFiles DEF Kept
<1>7. OwedAt(q) => Guarded(q)'
  <2> SUFFICES ASSUME OwedAt(q)  PROVE Guarded(q)'
    OBVIOUS
  <2>1. Detaching(q)
    BY <1>0, <1>1 DEF Detaching
  <2>2. Full(db, p)
    BY <1>0, <1>2, <2>1 DEF Kept, Guards, Guarded
  <2>3. q \notin UserHolds
    BY <1>2, <1>5, Alone DEF Undisturbed, Overlap
  <2>4. ~UserBrings(q)' /\ ~Queueing(q)'
    BY <1>1, <2>3 DEF UserBrings, Queueing, UserHolds
  <2>5. ~Detaching(q)'
    BY <1>1, <1>2 DEF Detaching
  <2> QED
    BY <1>3, <2>2, <2>4, <2>5 DEF Guarded
<1>8. ListKnows'
  BY <1>1, <1>2, <1>4, <1>6 DEF ListKnows
<1>9. \A r \in Top \ ({p, q} \union {}) : ~Detaching(r) /\ ~Detaching(r)'
  BY <1>0, <1>1, <1>2 DEF Detaching
<1>10. {p, q} \union {} \subseteq ListHolds \union ListHolds'
  BY <1>5
<1>11. \A r \in Top : r \in {p, q} \union {} => (OwedAt(r)' => Guarded(r)')
  BY <1>4, <1>6, <1>7
<1>12. UNCHANGED <<user, up, dl>>
  BY <1>1
<1>13. \A r \in Top \ {} : OwedAt(r)' => OwedAt(r)
  BY <1>6
<1>14. Kept'
  BY <1>4, <1>6, <1>8, <1>9, <1>10, <1>11, <1>12, <1>13, ListEdits
<1> QED
  BY <1>1, <1>3, <1>14

\* A clean row, or none, in the place of a new item: nothing is owed there.
LEMMA EditsListOccupant ==
    ASSUME IInv, Undisturbed, Undisturbed', Paired, Kept, ListOccupant
    PROVE  Kept' /\ UNCHANGED db
<1>0. PICK q : q = list.node.path
  OBVIOUS
<1>1. UNCHANGED <<db, disk, owed, user, up, dl>> /\ list.pc = "occupant" /\ list.sweep = {}
  BY DEF ListOccupant, Paired, ListSees
<1>2. q \in Top /\ q \in ListHolds
  BY <1>0, <1>1 DEF IInv, ListInv, ItemNode, ListHolds
<1>3. (\A p : OwedAt(p)' => OwedAt(p)) /\ \A p : ~Detaching(p)
  BY <1>1, SameFiles DEF Detaching
<1>4. ListKnows' /\ \A p : ~Detaching(p)'
  <2>1. CASE list' = [list EXCEPT !.pc = "conflict", !.at = list.node.path, !.then = "place"]
    <3>1. /\ list'.pc = "conflict" /\ list'.at = q /\ list'.node.path = q
          /\ list'.then = "place" /\ list'.sweep = {}
      BY <1>0, <1>1, <2>1, ListFields
    <3> QED
      BY <3>1 DEF ListKnows, Detaching
  <2>2. CASE list' = [list EXCEPT !.pc = "place"] /\ ~(Has(db, q) /\ db.rows[q].dirty)
    <3>1. list'.pc = "place" /\ list'.node.path = q /\ list'.sweep = {}
      BY <1>0, <1>1, <2>2, ListFields
    <3>2. ~Due(db, q)
      BY <2>2 DEF Due, Ready, Live
    <3>3. UNCHANGED <<user, up, dl>>
      BY <1>1
    <3>4. ~OwedAt(q)
      BY <1>1, <1>2, <3>2, <3>3, ListNotDue DEF Kept
    <3> QED
      BY <1>3, <3>1, <3>4 DEF ListKnows, Detaching
  <2> QED
    BY <1>0, <2>1, <2>2 DEF ListOccupant
<1> QED
  BY <1>1, <1>3, <1>4, ListRests

\* The file that goes is not owed, nor the one it replaces.
LEMMA EditsListRelocate ==
    ASSUME IInv, Undisturbed, Undisturbed', Paired, Kept, ~Overwrites, ListRelocate
    PROVE  Kept' /\ UNCHANGED db
<1>0. PICK p, q : p = list.at /\ q = list.node.path
  OBVIOUS
<1>1. /\ UNCHANGED <<db, owed, user, up, dl>> /\ list.pc = "relocate"
      /\ list' = [list EXCEPT !.pc = "rekey"]
  BY DEF ListRelocate
<1>2. /\ list'.pc = "rekey" /\ list'.at = p /\ list'.node.path = q /\ list'.sweep = {}
      /\ list'.then = list.then
  BY <1>0, <1>1, ListFields DEF Paired, ListSees
<1>3. p \in Top /\ q \in Top /\ p # q
  BY <1>0, <1>1 DEF IInv, ListInv, ItemNode, Paired, ListSees
<1>4. p \in ListHolds /\ q \in ListHolds
  BY <1>0, <1>1 DEF ListHolds
<1>5. UNCHANGED <<user, up, dl>>
  BY <1>1
<1>6. ~OwedAt(p)
  BY <1>0, <1>1 DEF Kept, ListKnows
<1>7. ~OwedAt(q)
  <2>1. ~Due(db, q)
    BY <1>0, <1>1 DEF Overwrites, Due, Ready, Live
  <2> QED
    BY <1>1, <1>3, <1>4, <1>5, <2>1, ListNotDue DEF Kept
<1>8. disk' = IF p \in DOMAIN disk THEN Moved(p, q) ELSE disk
  BY <1>0 DEF ListRelocate
<1>9. /\ \A r \in DOMAIN disk' : \/ r # p /\ r # q /\ r \in DOMAIN disk /\ disk'[r] = disk[r]
                                 \/ r = q /\ p \in DOMAIN disk /\ disk'[r] = disk[p]
                                 \/ disk' = disk
      /\ \A r \in DOMAIN disk : r # p => r \in DOMAIN disk'
  BY <1>3, <1>8 DEF Moved
<1>10. \A r : OwedAt(r)' => OwedAt(r) \/ OwedAt(p)
  BY <1>1, <1>9 DEF OwedAt
<1>11. \A r \in DOMAIN disk : disk[r].data \in owed' =>
          \E s \in DOMAIN disk' : disk'[s].data = disk[r].data
  <2> SUFFICES ASSUME NEW r \in DOMAIN disk, disk[r].data \in owed'
               PROVE  r \in DOMAIN disk' /\ disk'[r] = disk[r]
    OBVIOUS
  <2>1. r # p /\ r # q
    BY <1>1, <1>6, <1>7 DEF OwedAt
  <2> QED
    BY <1>9, <2>1
<1>12. Found'
  BY <1>1, <1>11, FoundStill DEF Kept
<1>13. \A r \in Top \ {p, q} : r \in DOMAIN disk' =>
          r \in DOMAIN disk /\ disk'[r].stamp = disk[r].stamp
  BY <1>9
<1>14. \A r \in Top \ {p, q} : OwedAt(r)' => OwedAt(r)
  BY <1>6, <1>10
<1>15. \A r \in {p, q} : ~OwedAt(r)'
  BY <1>6, <1>7, <1>10
<1>16. Settles'
  BY <1>1, <1>13, <1>14, <1>15, SettlesStill, Zenon DEF Kept
<1>17. ListKnows'
  BY <1>2, <1>15 DEF ListKnows
<1>18. \A r \in Top \ ({} \union {p, q}) : ~Detaching(r) /\ ~Detaching(r)'
  BY <1>1, <1>2 DEF Detaching
<1>19. Steady(db, db', {}) /\ {} \union {p, q} \subseteq ListHolds \union ListHolds'
  BY <1>1, <1>4, SameSteady
<1>20. \A r \in Top : r \in {} \union {p, q} => (OwedAt(r)' => Guarded(r)')
  BY <1>15
<1>21. Kept'
  BY <1>5, <1>12, <1>14, <1>16, <1>17, <1>18, <1>19, <1>20, ListEdits, Zenon
<1> QED
  BY <1>1, <1>21

LEMMA EditsListRekey ==
    ASSUME IInv, Undisturbed, Undisturbed', Paired, Kept, Counted, ListRekey
    PROVE  Kept' /\ Marked(db', clock')
<1>0. PICK p, q, grave : /\ p = list.at /\ q = list.node.path
                         /\ grave = [r \in {list.node.path} |-> Pick(FreeGraves)]
  BY Zenon
<1>1. /\ UNCHANGED <<disk, owed, clock, user, up, dl>> /\ list.pc = "rekey"
      /\ db' = RenameTree(db, p, q, FALSE, TRUE, grave)
  BY <1>0 DEF ListRekey
<1>2. /\ list'.pc \in {"store", "redo"} /\ list'.node.path = q /\ list'.sweep = {}
  <2> DEFINE row == db'.rows[list.node.path]
             read == IF Has(db', list.node.path)
                     THEN [list EXCEPT !.stamp = row.stamp, !.hydrated = row.hydrated,
                                       !.recent = row.recent]
                     ELSE list
  <2>1. list' = [read EXCEPT !.pc = IF read.stamp = list.node.stamp THEN "store" ELSE "redo"]
    BY DEF ListRekey
  <2>2. DOMAIN read = DOMAIN list /\ read.node = list.node /\ read.sweep = list.sweep
    BY ListFields
  <2>3. list.sweep = {}
    BY <1>1 DEF Paired, ListSees
  <2> HIDE DEF read
  <2> QED
    BY <1>0, <2>1, <2>2, <2>3, ListFields, SMTT(20)
<1>3. /\ p \in Top /\ q \in Top /\ p # q /\ Sound(db) /\ Live(db, p)
      /\ p \notin DOMAIN disk /\ Marked(db, clock)
  BY <1>0, <1>1
     DEF IInv, DbInv, ListInv, ItemNode, Paired, ListSees, HasFile, Known, Counted
<1>4. grave[q] \in GravePath /\ ~Has(db, grave[q])
  <2>1. grave[q] \in FreeGraves
    BY <1>0, Picked DEF ListRekey
  <2> QED
    BY <2>1, SMTT(20) DEF FreeGraves, GravePath, Has
<1>5. Alike(db, db', {p, q}) /\ Marked(db', clock)
  BY <1>1, <1>3, <1>4, RenameFace, Zenon
<1>6. Steady(db, db', {p, q})
  BY <1>5, AlikeSteady
<1>7. ~OwedAt(p) /\ ~OwedAt(q)
  BY <1>0, <1>1, <1>3 DEF Kept, ListKnows, OwedAt
<1>8. \A r : OwedAt(r)' => OwedAt(r)
  BY <1>1, SameFiles
<1>9. ListKnows'
  BY <1>2, <1>7, <1>8 DEF ListKnows
<1>10. \A r : ~Detaching(r) /\ ~Detaching(r)'
  BY <1>1, <1>2 DEF Detaching
<1>11. {p, q} \subseteq ListHolds \union ListHolds'
  BY <1>0, <1>1 DEF ListHolds
<1>12. UNCHANGED <<disk, owed, user, up, dl>>
  BY <1>1
<1>13. \A r \in {p, q} : ~OwedAt(r)
  BY <1>7
<1>14. Kept'
  BY <1>6, <1>9, <1>10, <1>11, <1>12, <1>13, ListSettlesRows
<1> QED
  BY <1>1, <1>5, <1>14, Zenon

\* The placeholder's zeros are nobody's content.
LEMMA EditsListPlace ==
    ASSUME IInv, Undisturbed, Undisturbed', Paired, Kept, Counted, ListPlace
    PROVE  Kept' /\ UNCHANGED db
<1>0. PICK q, stamp : q = list.node.path /\ stamp = list.node.stamp
  OBVIOUS
<1>1. /\ UNCHANGED <<db, owed, user, up, dl>> /\ list.pc \in {"place", "redo"}
      /\ list' = [list EXCEPT !.pc = "store", !.hydrated = FALSE]
      /\ disk' = Write(q, Hole, stamp)
  BY <1>0 DEF ListPlace
<1>2. list'.pc = "store" /\ list'.node.path = q /\ list'.sweep = {}
  BY <1>0, <1>1, ListFields DEF Paired, ListSees
<1>3. q \in Top /\ q \in ListHolds /\ ~OwedAt(q)
  BY <1>0, <1>1 DEF IInv, ListInv, ItemNode, ListHolds, Kept, ListKnows
<1>4. /\ \A r \in DOMAIN disk : r # q => r \in DOMAIN disk' /\ disk'[r] = disk[r]
      /\ \A r \in DOMAIN disk' : r # q => r \in DOMAIN disk /\ disk'[r] = disk[r]
      /\ disk'[q].data = Hole
  BY <1>1 DEF Write
<1>5. Hole \notin owed
  BY DEF Counted, OwedUpTo, Hole
<1>6. ~OwedAt(q)' /\ \A r \in Top \ {q} : OwedAt(r)' => OwedAt(r)
  BY <1>1, <1>4, <1>5 DEF OwedAt
<1>7. Found'
  <2>1. \A r \in DOMAIN disk : disk[r].data \in owed' =>
            \E s \in DOMAIN disk' : disk'[s].data = disk[r].data
    BY <1>1, <1>3, <1>4 DEF OwedAt
  <2> QED
    BY <1>1, <2>1, FoundStill DEF Kept
<1>8. Settles'
  <2>1. \A r \in Top \ {q} : r \in DOMAIN disk' => r \in DOMAIN disk /\ disk'[r].stamp = disk[r].stamp
    BY <1>4
  <2>2. \A r \in {q} : ~OwedAt(r)'
    BY <1>6
  <2> QED
    BY <1>1, <1>6, <2>1, <2>2, SettlesStill, Zenon DEF Kept
<1>9. ListKnows'
  BY <1>2, <1>6 DEF ListKnows
<1>10. \A r \in Top \ ({} \union {q}) : ~Detaching(r) /\ ~Detaching(r)'
  BY <1>1, <1>2 DEF Detaching
<1>11. Steady(db, db', {}) /\ {} \union {q} \subseteq ListHolds \union ListHolds'
  BY <1>1, <1>3, SameSteady
<1>12. \A r \in Top : r \in {} \union {q} => (OwedAt(r)' => Guarded(r)')
  BY <1>6
<1>13. UNCHANGED <<user, up, dl>>
  BY <1>1
<1>14. Kept'
  BY <1>6, <1>7, <1>8, <1>9, <1>10, <1>11, <1>12, <1>13, ListEdits, Zenon
<1> QED
  BY <1>1, <1>14

LEMMA EditsListStore ==
    ASSUME IInv, Undisturbed, Undisturbed', Paired, Kept, Counted, ListStore
    PROVE  Kept' /\ Marked(db', clock')
<1>0. PICK q, row :
        /\ q = list.node.path
        /\ row = [FromRemote(list.node.path, list.node) EXCEPT !.hydrated = list.hydrated,
                                                               !.recent = list.recent]
  OBVIOUS
<1>1. /\ UNCHANGED <<disk, owed, clock, user, up, dl>> /\ list.pc = "store"
      /\ db' = UpsertEntry(db, q, row)
      /\ list'.pc = "items" /\ list'.sweep = {}
  BY <1>0 DEF ListStore, ListItems, ListIdle
<1>2. /\ Sound(db) /\ Marked(db, clock) /\ row.stamp <= clock
  BY <1>0, <1>1 DEF IInv, DbInv, FromRemote, Counted, ListUpTo
<1>3. q \in ListHolds /\ ~OwedAt(q)
  BY <1>0, <1>1 DEF ListHolds, Kept, ListKnows
<1>4. /\ RowsKept(db, UpsertEntry(db, q, row), {}, {q})
      /\ Has(UpsertEntry(db, q, row), q)
      /\ Live(UpsertEntry(db, q, row), q) <=> ~row.tomb
      /\ Alike(db, UpsertEntry(db, q, row), {q})
      /\ UpsertEntry(db, q, row).rows[q] = row
      /\ \A c : Marked(db, c) /\ row.stamp <= c => Marked(UpsertEntry(db, q, row), c)
  BY <1>2, UpsertFace, Zenon
<1>5. Steady(db, db', {q}) /\ Marked(db', clock)
  BY <1>1, <1>2, <1>4, AlikeSteady
<1>6. ListKnows' /\ \A r : ~Detaching(r) /\ ~Detaching(r)'
  BY <1>1 DEF ListKnows, Detaching
<1>7. UNCHANGED <<disk, owed, user, up, dl>>
  BY <1>1
<1>8. {q} \subseteq ListHolds \union ListHolds' /\ \A r \in {q} : ~OwedAt(r)
  BY <1>3
<1>9. Kept'
  BY <1>5, <1>6, <1>7, <1>8, ListSettlesRows
<1> QED
  BY <1>1, <1>5, <1>9

\* What is removed has no local change: nothing is owed there.
LEMMA EditsListApplied ==
    ASSUME IInv, Undisturbed, Undisturbed', Paired, Kept, ListApplied
    PROVE  Kept' /\ UNCHANGED db
<1>1. /\ UNCHANGED <<db, disk, owed, user, up, dl>> /\ list.pc = "items"
      /\ list' = Sweeping(Verdicts)
  BY DEF ListApplied
<1>2. list'.sweep = Verdicts /\ list'.pc \in {"idle", "sweep"}
  BY <1>1, SweepFields
<1>3. ASSUME NEW v \in list'.sweep, v.verdict = "remove"  PROVE ~OwedAt(v.path)'
  <2>1. v.path \in DOMAIN db.rows /\ ~db.rows[v.path].dirty
    BY <1>2, <1>3 DEF Verdicts, Unlisted
  <2>2. v.path \in Top /\ ~Due(db, v.path)
    BY <2>1 DEF IInv, DbInv, Sound, Due, Ready
  <2>3. v.path \in ListHolds'
    BY <1>3 DEF ListHolds
  <2>4. UNCHANGED <<user, up, dl>>
    BY <1>1
  <2>5. ~OwedAt(v.path)
    <3>0. PICK p : p = v.path
      OBVIOUS
    <3>1. ~OwedAt(p)
      BY <1>1, <2>2, <2>3, <2>4, <3>0, ListNotDue DEF Kept
    <3> QED
      BY <3>0, <3>1
  <2> QED
    BY <1>1, <2>5 DEF OwedAt
<1>4. ListKnows'
  BY <1>2, <1>3 DEF ListKnows
<1>5. \A p : ~Detaching(p) /\ ~Detaching(p)'
  BY <1>1, <1>2 DEF Detaching
<1> QED
  BY <1>1, <1>4, <1>5, ListRests

LEMMA EditsListSweep ==
    ASSUME IInv, Undisturbed, Undisturbed', Paired, Kept, Counted, ListSweep
    PROVE  Kept' /\ (UNCHANGED db \/ Marked(db', clock'))
<1>1. UNCHANGED <<owed, clock, user, up, dl>> /\ list.pc = "sweep"
  BY DEF ListSweep
<1>2. PICK v \in list.sweep :
         \/ /\ v.verdict = "forget"
            /\ db' = RemoveSubtree(db, v.path)
            /\ list' = Sweeping(list.sweep \ {v}) /\ UNCHANGED disk
         \/ /\ v.verdict = "renew"
            /\ db' = ClearRemoteIdentity(db, v.path)
            /\ list' = Sweeping(list.sweep \ {v}) /\ UNCHANGED disk
         \/ /\ v.verdict = "remove"
            /\ disk' = Remove(v.path)
            /\ list' = [list EXCEPT !.pc = "unrow", !.at = v.path] /\ UNCHANGED db
  BY Zenon DEF ListSweep
<1>3. PICK p : p = v.path
  OBVIOUS
<1>4. p \in Top /\ Sound(db) /\ Marked(db, clock) /\ p \in ListHolds
  BY <1>3 DEF IInv, DbInv, ListInv, ListState, ListHolds, Counted
<1>5. /\ \A w \in list.sweep : w.verdict = "remove" => ~OwedAt(w.path)
      /\ UNCHANGED <<user, up, dl>>
  BY <1>1 DEF Kept, ListKnows
<1>6. \A r : ~Detaching(r)
  BY <1>1 DEF Detaching
<1>7. ASSUME list' = Sweeping(list.sweep \ {v}), UNCHANGED disk
      PROVE  ListKnows' /\ \A r : ~Detaching(r)'
  <2>1. list'.sweep = list.sweep \ {v} /\ list'.pc \in {"idle", "sweep"}
    BY <1>7, SweepFields
  <2>2. \A r : OwedAt(r)' => OwedAt(r)
    BY <1>1, <1>7, SameFiles
  <2> QED
    BY <1>5, <2>1, <2>2 DEF ListKnows, Detaching
<1>8. CASE /\ v.verdict = "forget"
           /\ db' = RemoveSubtree(db, v.path)
           /\ list' = Sweeping(list.sweep \ {v}) /\ UNCHANGED disk
  <2>1. Alike(db, db', {p}) /\ Marked(db', clock)
    BY <1>3, <1>4, <1>8, RemoveFace, Zenon
  <2>2. ~Live(db, p)
    BY <1>3, <1>8 DEF Paired, ListSees
  <2>3. ~Due(db, p)
    BY <2>2 DEF Due, Ready
  <2>4. ~OwedAt(p)
    BY <1>1, <1>4, <1>5, <2>3, ListNotDue DEF Kept
  <2>5. Steady(db, db', {p})
    BY <2>1, AlikeSteady
  <2>6. {p} \subseteq ListHolds \union ListHolds' /\ \A r \in {p} : ~OwedAt(r)
    BY <1>4, <2>4
  <2>7. UNCHANGED <<disk, owed, user, up, dl>>
    BY <1>1, <1>8
  <2>8. ListKnows' /\ \A r : ~Detaching(r)'
    BY <1>7, <1>8
  <2>9. Kept'
    BY <1>6, <2>5, <2>6, <2>7, <2>8, ListSettlesRows
  <2> QED
    BY <1>1, <2>1, <2>9
<1>9. CASE /\ v.verdict = "renew"
           /\ db' = ClearRemoteIdentity(db, v.path)
           /\ list' = Sweeping(list.sweep \ {v}) /\ UNCHANGED disk
  <2> DEFINE row == [db.rows[p] EXCEPT !.id = NoId, !.etag = 0, !.synced = NoPath,
                                       !.dirty = TRUE, !.tomb = FALSE]
  <2>1. db' = UpdateRow(db, p, row)
    BY <1>3, <1>9 DEF ClearRemoteIdentity
  <2>2. Has(db, p) => /\ ~row.tomb /\ row.dirty
                      /\ row.hydrated = db.rows[p].hydrated
                      /\ row.stamp = db.rows[p].stamp /\ db.rows[p].stamp <= clock
    BY <1>4 DEF Sound, StoreType, Entry, Has, Marked
  <2> HIDE DEF row
  <2>3. Full(db, p) => row.hydrated
    BY <2>2, Zenon DEF Full
  <2>4. Ready(db, p) => ~row.tomb /\ row.dirty
    BY <2>2 DEF Ready, Live
  <2>5. Steady(db, db', {})
    BY <1>4, <2>1, <2>3, <2>4, UpdateSteady
  <2>6. /\ RowsKept(db, UpdateRow(db, p, row), {}, {p})
        /\ \A q : Has(UpdateRow(db, p, row), q) <=> Has(db, q)
        /\ Live(UpdateRow(db, p, row), p) <=> Has(db, p) /\ ~row.tomb
        /\ Known(UpdateRow(db, p, row), p) <=> Has(db, p) /\ ~row.tomb /\ row.id # NoId
        /\ Alike(db, UpdateRow(db, p, row), {p})
        /\ Has(db, p) => UpdateRow(db, p, row).rows[p] = row
        /\ \A c : Marked(db, c) /\ (Has(db, p) => row.stamp <= c)
                     => Marked(UpdateRow(db, p, row), c)
    BY <1>4, UpdateRowFace, Zenon
  <2>7. Marked(db', clock)
    BY <1>4, <2>1, <2>2, <2>6
  <2>8. {} \subseteq ListHolds \union ListHolds' /\ \A r \in {} : ~OwedAt(r)
    OBVIOUS
  <2>9. UNCHANGED <<disk, owed, user, up, dl>>
    BY <1>1, <1>9
  <2>10. ListKnows' /\ \A r : ~Detaching(r)'
    BY <1>7, <1>9
  <2>11. Kept'
    BY <1>6, <2>5, <2>8, <2>9, <2>10, ListSettlesRows
  <2> QED
    BY <1>1, <2>7, <2>11
<1>10. CASE /\ v.verdict = "remove"
            /\ disk' = Remove(v.path)
            /\ list' = [list EXCEPT !.pc = "unrow", !.at = v.path] /\ UNCHANGED db
  <2>1. list'.pc = "unrow" /\ list'.sweep = list.sweep
    BY <1>10, ListFields
  <2>2. ~OwedAt(p)
    BY <1>3, <1>5, <1>10
  <2>3. /\ \A r \in DOMAIN disk : r # p => r \in DOMAIN disk' /\ disk'[r] = disk[r]
        /\ \A r \in DOMAIN disk' : r # p /\ r \in DOMAIN disk /\ disk'[r] = disk[r]
    BY <1>3, <1>10 DEF Remove
  <2>4. (\A r : OwedAt(r)' => OwedAt(r)) /\ ~OwedAt(p)'
    BY <1>1, <2>3 DEF OwedAt
  <2>5. Found'
    <3>1. \A r \in DOMAIN disk : disk[r].data \in owed' =>
              \E s \in DOMAIN disk' : disk'[s].data = disk[r].data
      BY <1>1, <2>2, <2>3 DEF OwedAt
    <3> QED
      BY <1>1, <3>1, FoundStill DEF Kept
  <2>6. Settles'
    <3>1. \A r \in Top \ {p} : r \in DOMAIN disk' => r \in DOMAIN disk /\ disk'[r].stamp = disk[r].stamp
      BY <2>3
    <3>2. \A r \in {p} : ~OwedAt(r)'
      BY <2>4
    <3>3. \A r \in Top \ {p} : OwedAt(r)' => OwedAt(r)
      BY <2>4
    <3> QED
      BY <1>1, <3>1, <3>2, <3>3, SettlesStill, Zenon DEF Kept
  <2>7. ListKnows' /\ \A r : ~Detaching(r)'
    BY <1>5, <2>1, <2>4 DEF ListKnows, Detaching
  <2>8. Steady(db, db', {}) /\ {} \union {p} \subseteq ListHolds \union ListHolds'
    BY <1>4, <1>10, SameSteady
  <2>9. \A r \in Top : r \in {} \union {p} => (OwedAt(r)' => Guarded(r)')
    BY <2>4
  <2>10. \A r \in Top \ {p} : OwedAt(r)' => OwedAt(r)
    BY <2>4
  <2>11. Kept'
    BY <1>5, <1>6, <2>5, <2>6, <2>7, <2>8, <2>9, <2>10, ListEdits, Zenon
  <2> QED
    BY <1>10, <2>11
<1> QED
  BY <1>2, <1>8, <1>9, <1>10

LEMMA EditsListUnrow ==
    ASSUME IInv, Undisturbed, Undisturbed', Paired, Kept, Counted, ListUnrow
    PROVE  Kept' /\ Marked(db', clock')
<1>0. PICK p : p = list.at
  OBVIOUS
<1>1. /\ UNCHANGED <<disk, owed, clock, user, up, dl>> /\ list.pc = "unrow"
      /\ db' = RemoveSubtree(db, p)
      /\ list' = Sweeping({v \in list.sweep : v.path # p})
  BY <1>0 DEF ListUnrow
<1>2. p \in Top /\ Sound(db) /\ Marked(db, clock) /\ ~OwedAt(p)
  BY <1>0, <1>1 DEF IInv, DbInv, ListInv, Paired, ListSees, HasFile, OwedAt, Counted
<1>3. Alike(db, db', {p}) /\ Marked(db', clock)
  BY <1>1, <1>2, RemoveFace
<1>4. Steady(db, db', {p})
  BY <1>3, AlikeSteady
<1>5. \A r : OwedAt(r)' => OwedAt(r)
  BY <1>1, SameFiles
<1>6. ListKnows' /\ \A r : ~Detaching(r) /\ ~Detaching(r)'
  <2> DEFINE rest == {v \in list.sweep : v.path # p}
  <2>1. \A v \in rest : v.verdict = "remove" => ~OwedAt(v.path)
    BY DEF Kept, ListKnows
  <2>2. list'.sweep = rest /\ list'.pc \in {"idle", "sweep"}
    BY <1>1, SweepFields
  <2> HIDE DEF rest
  <2> QED
    BY <1>1, <1>5, <2>1, <2>2, Zenon DEF ListKnows, Detaching
<1>7. UNCHANGED <<disk, owed, user, up, dl>>
  BY <1>1
<1>8. {p} \subseteq ListHolds \union ListHolds' /\ \A r \in {p} : ~OwedAt(r)
  BY <1>0, <1>1, <1>2 DEF ListHolds
<1>9. Kept'
  BY <1>4, <1>6, <1>7, <1>8, ListSettlesRows
<1> QED
  BY <1>1, <1>3, <1>9
-----------------------------------------------------------------------------
\* ---- A download.

\* A download takes its place where no change is waiting, and nobody is
\* recording one.
LEMMA EditsDlReads ==
    ASSUME IInv, Undisturbed, Undisturbed', Kept, DlStart \/ DlOpen \/ DlCheck
    PROVE  Kept' /\ UNCHANGED db
<1>1. UNCHANGED <<db, disk, owed, user, up, list>>
  BY Zenon DEF DlStart, DlOpen, DlCheck
<1>2. DlKnows'
  <2>1. CASE DlStart
    <3>1. dl'.pc = "open"
      BY <2>1, Zenon DEF DlStart, DlIdle
    <3> QED
      BY <3>1 DEF DlKnows
  <2>2. CASE DlOpen
    <3>1. dl'.pc # "commit"
      BY <2>2, DlFields DEF DlOpen, DlIdle
    <3> QED
      BY <3>1 DEF DlKnows
  <2>3. CASE DlCheck
    <3>0. PICK p : p = dl.path
      OBVIOUS
    <3>1. CASE ~StillWanted
      BY <2>3, <3>1 DEF DlCheck, DlIdle, DlKnows
    <3>2. CASE StillWanted
      <4>1. dl'.path = p /\ dl'.pc = "commit" /\ p \in Top
        BY <2>3, <3>0, <3>2, DlFields DEF DlCheck, IInv, DlInv
      <4>2. ~Due(db, p)
        BY <3>0, <3>2 DEF StillWanted, Due
      <4>3. p \in DlHolds'
        BY <4>1 DEF DlHolds
      <4>4. ~Meets(UserHolds, DlHolds') /\ ~Meets(ListHolds, DlHolds')
        BY <1>1 DEF Undisturbed, Overlap, UserHolds, ListHolds, Meets
      <4>5. p \notin UserHolds /\ p \notin ListHolds
        BY <4>1, <4>3, <4>4, Places DEF Meets
      <4>6. ~OwedAt(p)
        BY <4>1, <4>2, <4>5, NotDue DEF Kept
      <4> QED
        BY <1>1, <4>1, <4>6 DEF DlKnows, OwedAt
    <3> QED
      BY <3>1, <3>2
  <2> QED
    BY <2>1, <2>2, <2>3
<1> QED
  BY <1>1, <1>2, DlRests

\* What is downloaded is what iCloud has, and nobody is owed that.
LEMMA EditsDlCommit ==
    ASSUME IInv, Undisturbed, Undisturbed', Kept, Counted, DlCommit
    PROVE  Kept' /\ UNCHANGED db
<1>0. PICK p, data, stamp : p = dl.path /\ data = dl.data /\ stamp = dl.node.stamp
  OBVIOUS
<1>1. /\ UNCHANGED <<db, owed, user, up, list>> /\ dl.pc = "commit"
      /\ disk' = Write(p, data, stamp)
      /\ dl' = [dl EXCEPT !.pc = "mark"]
  BY <1>0 DEF DlCommit
<1>2. p \in Top /\ p \in DlHolds /\ ~OwedAt(p) /\ data \notin owed
  BY <1>0, <1>1 DEF IInv, DlInv, DlHolds, Kept, DlKnows, Counted, DlUpTo
<1>3. /\ \A r \in DOMAIN disk : r # p => r \in DOMAIN disk' /\ disk'[r] = disk[r]
      /\ \A r \in DOMAIN disk' : r # p => r \in DOMAIN disk /\ disk'[r] = disk[r]
      /\ disk'[p].data = data
  BY <1>1 DEF Write
<1>4. ~OwedAt(p)' /\ \A r \in Top \ {p} : OwedAt(r)' => OwedAt(r)
  BY <1>1, <1>2, <1>3 DEF OwedAt
<1>5. Found'
  <2>1. \A r \in DOMAIN disk : disk[r].data \in owed' =>
            \E s \in DOMAIN disk' : disk'[s].data = disk[r].data
    BY <1>1, <1>2, <1>3 DEF OwedAt
  <2> QED
    BY <1>1, <2>1, FoundStill DEF Kept
<1>6. Settles'
  <2>1. \A r \in Top \ {p} : r \in DOMAIN disk' => r \in DOMAIN disk /\ disk'[r].stamp = disk[r].stamp
    BY <1>3
  <2>2. \A r \in {p} : ~OwedAt(r)'
    BY <1>4
  <2> QED
    BY <1>1, <1>4, <2>1, <2>2, SettlesStill, Zenon DEF Kept
<1>7. DlKnows'
  <2>1. dl'.pc = "mark"
    BY <1>1, DlFields
  <2> QED
    BY <2>1 DEF DlKnows
<1>8. Steady(db, db', {}) /\ {p} \subseteq DlHolds \union DlHolds'
  BY <1>1, <1>2, SameSteady
<1>9. \A r \in Top : r \in {p} => (OwedAt(r)' => Guarded(r)')
  BY <1>4
<1>10. UNCHANGED <<user, up, list>>
  BY <1>1
<1>11. Kept'
  BY <1>4, <1>5, <1>6, <1>7, <1>8, <1>9, <1>10, DlEdits
<1> QED
  BY <1>1, <1>11

LEMMA EditsDlMark ==
    ASSUME IInv, Undisturbed, Undisturbed', Kept, Counted, DlMark
    PROVE  Kept' /\ (UNCHANGED db \/ Marked(db', clock'))
<1>1. /\ UNCHANGED <<disk, owed, clock, user, up, list>> /\ dl'.pc = "idle"
      /\ Sound(db) /\ Marked(db, clock)
  BY DEF DlMark, DlIdle, IInv, DbInv, Counted
<1>2. Steady(db, db', {}) /\ (UNCHANGED db \/ Marked(db', clock'))
  <2>0. PICK p : p = dl.path
    OBVIOUS
  <2>1. CASE UNCHANGED db
    BY <2>1, SameSteady
  <2>2. CASE ~UNCHANGED db
    <3>1. p \in DOMAIN disk /\ db' = MarkHydrated(db, p, disk[p].stamp)
      BY <2>0, <2>2 DEF DlMark
    <3>2. disk[p].stamp <= clock
      BY <3>1 DEF Counted, DiskUpTo, FilesUpTo
    <3> QED
      BY <1>1, <3>1, <3>2, MarkHydratedSteady
  <2> QED
    BY <2>1, <2>2
<1>3. /\ \A r \in Top \ {} : OwedAt(r)' => OwedAt(r)
      /\ Found' /\ Settles'
  BY <1>1, SameFiles DEF Kept
<1>4. DlKnows' /\ {} \subseteq DlHolds \union DlHolds'
  BY <1>1 DEF DlKnows
<1>5. \A r \in Top : r \in {} => (OwedAt(r)' => Guarded(r)')
  OBVIOUS
<1>6. UNCHANGED <<user, up, list>>
  BY <1>1
<1>7. Kept'
  BY <1>2, <1>3, <1>4, <1>5, <1>6, DlEdits
<1> QED
  BY <1>2, <1>7

\* A file that is not there is made, empty: nobody's content either.
LEMMA EditsDlAdopt ==
    ASSUME IInv, Undisturbed, Undisturbed', Kept, Counted, DlAdopt
    PROVE  Kept' /\ UNCHANGED db
<1>1. UNCHANGED <<db, owed, user, up, list>>
  BY DEF DlAdopt
<1>2. PICK p \in DOMAIN db.rows :
           /\ dl' = [DlIdle EXCEPT !.pc = "mark", !.path = p]
           /\ IF p \in DOMAIN disk
              THEN UNCHANGED <<disk, clock>>
              ELSE clock' = clock + 1 /\ disk' = Write(p, Hole, clock')
  BY Zenon DEF DlAdopt
<1>3. dl'.pc = "mark" /\ dl'.path = p
  BY <1>2 DEF DlIdle
<1>4. DlKnows' /\ p \in DlHolds'
  BY <1>3 DEF DlKnows, DlHolds
<1>5. CASE UNCHANGED disk
  BY <1>1, <1>4, <1>5, DlRests
<1>6. CASE p \notin DOMAIN disk /\ disk' = Write(p, Hole, clock')
  <2>1. Hole \notin owed
    BY DEF Counted, OwedUpTo, Hole
  <2>2. /\ \A r \in DOMAIN disk : r # p /\ r \in DOMAIN disk' /\ disk'[r] = disk[r]
        /\ \A r \in DOMAIN disk' : r # p => r \in DOMAIN disk /\ disk'[r] = disk[r]
        /\ disk'[p].data = Hole
    BY <1>6 DEF Write
  <2>3. ~OwedAt(p)' /\ \A r \in Top \ {p} : OwedAt(r)' => OwedAt(r)
    BY <1>1, <2>1, <2>2 DEF OwedAt
  <2>4. Found'
    <3>1. \A r \in DOMAIN disk : disk[r].data \in owed' =>
              \E s \in DOMAIN disk' : disk'[s].data = disk[r].data
      BY <2>2
    <3> QED
      BY <1>1, <3>1, FoundStill DEF Kept
  <2>5. Settles'
    <3>1. \A r \in Top \ {p} : r \in DOMAIN disk' => r \in DOMAIN disk /\ disk'[r].stamp = disk[r].stamp
      BY <2>2
    <3>2. \A r \in {p} : ~OwedAt(r)'
      BY <2>3
    <3> QED
      BY <1>1, <2>3, <3>1, <3>2, SettlesStill, Zenon DEF Kept
  <2>6. Steady(db, db', {}) /\ {p} \subseteq DlHolds \union DlHolds'
    BY <1>1, <1>4, SameSteady
  <2>7. \A r \in Top : r \in {p} => (OwedAt(r)' => Guarded(r)')
    BY <2>3
  <2>8. UNCHANGED <<user, up, list>>
    BY <1>1
  <2>9. Kept'
    BY <1>4, <2>3, <2>4, <2>5, <2>6, <2>7, <2>8, DlEdits
  <2> QED
    BY <1>1, <2>9
<1> QED
  BY <1>2, <1>5, <1>6
-----------------------------------------------------------------------------
\* ---- The daemon stops where nobody is half way: what is owed was due, and
\* reconciliation takes neither the file nor the mark on its row.
LEMMA ReconciledRows ==
    ASSUME IInv, Restart
    PROVE  /\ DOMAIN db'.rows = DOMAIN db.rows /\ db'.ops = db.ops
           /\ \A p \in DOMAIN db.rows :
                 LET row == db'.rows[p]
                 IN  /\ row.tomb = db.rows[p].tomb /\ row.dirty = db.rows[p].dirty
                     /\ db.rows[p].hydrated /\ p \in DOMAIN disk => row.hydrated
                     /\ row.stamp = IF Live(db, p) THEN disk'[p].stamp ELSE db.rows[p].stamp
<1>1. Sound(db)
  BY DEF IInv, DbInv
<1> DEFINE rows == [p \in DOMAIN db.rows |-> ReconciledRow(p)]
<1>2. db'.rows = rows /\ db'.ops = db.ops /\ disk' = ReconciledDisk
  BY <1>1 DEF Restart, Sound, StoreType
<1>3. DOMAIN rows = DOMAIN db.rows /\ \A p \in DOMAIN db.rows : rows[p] = ReconciledRow(p)
  OBVIOUS
<1>4. ASSUME NEW p \in DOMAIN db.rows
      PROVE  LET row == ReconciledRow(p)
             IN  /\ row.tomb = db.rows[p].tomb /\ row.dirty = db.rows[p].dirty
                 /\ db.rows[p].hydrated /\ p \in DOMAIN disk => row.hydrated
                 /\ row.stamp = IF Live(db, p) THEN ReconciledDisk[p].stamp
                                ELSE db.rows[p].stamp
  <2>1. db.rows[p] \in Entry
    BY <1>1 DEF Sound, StoreType
  <2>2. p \in DOMAIN disk => p \notin Missing
    BY DEF Missing
  <2> HIDE DEF rows
  <2>3. CASE ~Live(db, p)
    BY <2>3 DEF ReconciledRow
  <2>4. CASE Live(db, p)
    BY <2>1, <2>2, <2>4 DEF ReconciledRow, Entry
  <2> QED
    BY <2>3, <2>4
<1> HIDE DEF rows
<1> QED
  BY <1>2, <1>3, <1>4

LEMMA ReconciledFiles ==
    ASSUME Restart
    PROVE  /\ DOMAIN disk' = DOMAIN disk \union Missing
           /\ \A p \in DOMAIN disk : disk'[p] = disk[p]
           /\ \A p \in Missing : disk'[p] = Restored(p)
<1>1. \A p \in DOMAIN disk : p \notin Missing
  BY DEF Missing
<1> QED
  BY <1>1 DEF Restart, ReconciledDisk

LEMMA EditsRestart ==
    ASSUME IInv, Undisturbed, Undisturbed', Kept, Counted, Restart
    PROVE  Kept'
<1>1. /\ UserHolds = {} /\ ListHolds = {} /\ UNCHANGED owed
      /\ user' = UserIdle /\ up' = UpIdle /\ list' = ListIdle /\ dl' = DlIdle
  BY Zenon DEF Restart, Undisturbed
<1>2. /\ DOMAIN disk' = DOMAIN disk \union Missing
      /\ \A p \in DOMAIN disk : disk'[p] = disk[p]
      /\ \A p \in Missing : disk'[p].data = Hole
  BY ReconciledFiles DEF Restored
<1>3. \A p : OwedAt(p)' => OwedAt(p)
  BY <1>1, <1>2 DEF OwedAt, Counted, OwedUpTo, Hole
<1>4. Found'
  BY <1>1, <1>2 DEF Kept, Found
<1>5. ASSUME NEW p \in Top, OwedAt(p)  PROVE Due(db', p)
  <2>1. Due(db, p)
    BY <1>1, <1>5, NotDue DEF Kept
  <2>2. p \in DOMAIN disk /\ p \in DOMAIN db.rows
    BY <1>5, <2>1 DEF OwedAt, Due, Ready, Live, Has
  <2>3. /\ p \in DOMAIN db'.rows /\ db'.ops = db.ops
        /\ db'.rows[p].tomb = db.rows[p].tomb /\ db'.rows[p].dirty = db.rows[p].dirty
        /\ db.rows[p].hydrated => db'.rows[p].hydrated
    BY <2>2, ReconciledRows
  <2> QED
    BY <2>1, <2>3 DEF Due, Ready, Live, Has, HasPendingContentChange
<1>6. \A p : ~UserBrings(p)' /\ ~Detaching(p)' /\ ~Queueing(p)'
  BY <1>1 DEF UserBrings, Detaching, Queueing, UserIdle, ListIdle
<1>7. Guards'
  BY <1>3, <1>5, <1>6 DEF Guards, Guarded
<1>8. UserKnows' /\ UpKnows' /\ Settles' /\ ListKnows' /\ DlKnows'
  BY <1>1 DEF UserKnows, UpKnows, Settles, ListKnows, DlKnows,
     UserIdle, UpIdle, ListIdle, DlIdle
<1> QED
  BY <1>4, <1>7, <1>8 DEF Kept

LEMMA CountedRestart ==
    ASSUME IInv, Counted, Restart
    PROVE  Counted'
<1>1. /\ UNCHANGED <<cloud, owed>>
      /\ user' = UserIdle /\ up' = UpIdle /\ list' = ListIdle /\ dl' = DlIdle
      /\ clock \in Nat /\ clock' \in {clock, clock + 1} /\ clock <= clock'
      /\ \A p \in Missing : db.rows[p].id = NoId => clock' = clock + 1
  <2>1. clock \in Nat
    BY DEF IInv, RestInv
  <2> QED
    BY <2>1 DEF Restart
<1>2. FilesUpTo(disk, clock') /\ Marked(db, clock')
  BY <1>1, FilesStill
<1>3. FilesUpTo(disk', clock')
  <2>1. ASSUME NEW p \in Missing  PROVE disk'[p].data <= clock' /\ disk'[p].stamp <= clock'
    <3>1. disk'[p] = Restored(p) /\ p \in DOMAIN db.rows
      BY ReconciledFiles DEF Missing
    <3>2. db.rows[p].stamp <= clock'
      BY <1>2, <3>1 DEF Marked
    <3> QED
      BY <1>1, <3>1, <3>2 DEF Restored, Hole
  <2> QED
    BY <1>2, <2>1, ReconciledFiles DEF FilesUpTo
<1>4. Marked(db', clock')
  <2>1. ASSUME NEW p \in DOMAIN db.rows, Live(db, p)  PROVE p \in DOMAIN disk'
    BY <2>1, ReconciledFiles DEF Missing
  <2>2. ASSUME NEW p \in DOMAIN db.rows  PROVE db'.rows[p].stamp <= clock'
    <3>1. db'.rows[p].stamp = IF Live(db, p) THEN disk'[p].stamp ELSE db.rows[p].stamp
      BY ReconciledRows
    <3> QED
      BY <1>2, <1>3, <2>1, <3>1 DEF Marked, FilesUpTo
  <2> QED
    BY <2>2, ReconciledRows DEF Marked
<1>5. UserUpTo' /\ UpUpTo' /\ ListUpTo' /\ DlUpTo'
  BY <1>1 DEF UserUpTo, UpUpTo, ListUpTo, DlUpTo, UserIdle, UpIdle, ListIdle, DlIdle
<1>6. DiskUpTo'
  BY <1>3 DEF DiskUpTo
<1> QED
  BY <1>1, <1>4, <1>5, <1>6, CountedKept

\* ---- What happens elsewhere touches nothing that is here.
LEMMA EditsStill ==
    ASSUME Kept, UNCHANGED <<db, disk, user, up, list, dl, owed>>
    PROVE  Kept'
<1>1. \A p : /\ OwedAt(p)' <=> OwedAt(p)
             /\ Guarded(p)' <=> Guarded(p)
  BY DEF OwedAt, Guarded, UserBrings, Detaching, Queueing, Due
<1> QED
  BY <1>1 DEF Kept, Found, Guards, UserKnows, UpKnows, Settles, ListKnows, DlKnows

LEMMA CountedStill ==
    ASSUME Counted, UNCHANGED vars
    PROVE  Counted'
BY DEF vars, Counted, OwedUpTo, DiskUpTo, CloudUpTo, UserUpTo, UpUpTo, ListUpTo, DlUpTo
-----------------------------------------------------------------------------
\* Every step keeps what is owed, unless a listing overwrites a changed file.
LEMMA EditsUser ==
    ASSUME IInv, Undisturbed, Undisturbed', Paired, Kept, Counted,
           UserBegin \/ UserContinues
    PROVE  Kept' /\ (UNCHANGED db \/ Marked(db', clock'))
BY EditsUserBegin, EditsUserWait, EditsUserWrites, EditsUserCreates,
   EditsUserRemoves, EditsUserMoves, EditsUserTouches, EditsUserRecords,
   EditsUserForgets, EditsUserRenames, EditsUserRecordsTime, EditsUserQueues
   DEF UserContinues

LEMMA EditsUp ==
    ASSUME IInv, Undisturbed, Undisturbed', Paired, Kept, Counted, Uploader
    PROVE  Kept' /\ (UNCHANGED db \/ Marked(db', clock'))
BY EditsUpGoes, EditsUpForget, EditsUpFile, EditsUpMissing, EditsUpMove, EditsUpSend,
   EditsUpMeta, EditsUpAdopt, EditsUpClean DEF Uploader

LEMMA EditsList ==
    ASSUME IInv, Undisturbed, Undisturbed', Paired, Kept, Counted, Lister,
           ~Overwrites, ~Recycled
    PROVE  Kept' /\ (UNCHANGED db \/ Marked(db', clock'))
BY EditsListStart, EditsListItem, EditsListConflict, EditsListDetach, EditsListOccupant,
   EditsListRelocate, EditsListRekey, EditsListPlace, EditsListStore, EditsListApplied,
   EditsListSweep, EditsListUnrow DEF Lister

LEMMA EditsDl ==
    ASSUME IInv, Undisturbed, Undisturbed', Kept, Counted, Downloader
    PROVE  Kept' /\ (UNCHANGED db \/ Marked(db', clock'))
BY EditsDlReads, EditsDlCommit, EditsDlMark, EditsDlAdopt DEF Downloader

LEMMA EditsInductive ==
    IInv /\ OInv /\ EInv /\ ~Overwrites /\ ~Recycled /\ [Next]_vars => EInv'
<1> SUFFICES ASSUME IInv, OInv, EInv, ~Overwrites, ~Recycled, [Next]_vars, Undisturbed'
             PROVE  Kept' /\ Counted'
  BY DEF EInv
<1>0. Undisturbed /\ Paired /\ Kept /\ Counted
  BY Remembered DEF OInv, EInv
<1>1. CASE UserBegin \/ UserContinues
  BY <1>0, <1>1, EditsUser, CountedUser
<1>2. CASE Uploader
  BY <1>0, <1>2, EditsUp, CountedUp
<1>3. CASE Lister
  BY <1>0, <1>3, EditsList, CountedList
<1>4. CASE Downloader
  BY <1>0, <1>4, EditsDl, CountedDl
<1>5. CASE Restart
  BY <1>0, <1>5, EditsRestart, CountedRestart
<1>6. CASE Elsewhere
  BY <1>0, <1>6, EditsStill, CountedElsewhere DEF Elsewhere
<1>7. CASE UNCHANGED vars
  BY <1>0, <1>7, EditsStill, CountedStill DEF vars
<1> QED
  BY <1>1, <1>2, <1>3, <1>4, <1>5, <1>6, <1>7 DEF Next

\* At the start nothing is owed, and contents and times are numbered in order.
LEMMA EditsInitially == Init => EInv
<1> SUFFICES ASSUME Init  PROVE Kept /\ Counted
  BY DEF EInv
<1>1. /\ owed = {} /\ user = UserIdle /\ up = UpIdle /\ list = ListIdle /\ dl = DlIdle
  BY DEF Init
<1>2. Kept
  BY <1>1 DEF Kept, Found, Guards, OwedAt, UserKnows, UpKnows, Settles, ListKnows, DlKnows,
     ListIdle
<1> DEFINE seeded == {Join(Root, Seed[i]) : i \in DOMAIN Seed}
           idAt(p) == CHOOSE i \in DOMAIN Seed : Join(Root, Seed[i]) = p
           item(i) == [path |-> Join(Root, Seed[i]), kind |-> "file", data |-> i,
                       stamp |-> i, etag |-> 1]
           row(p, down) == [FromRemote(p, Node(cloud, idAt(p))) EXCEPT !.hydrated = p \in down]
<1>3. PICK downloaded \in SUBSET seeded :
        /\ cloud = [i \in DOMAIN Seed |-> item(i)]
        /\ db = [rows |-> [p \in seeded |-> row(p, downloaded)], ops |-> {}]
        /\ disk = [p \in seeded |->
                     [data |-> IF p \in downloaded THEN idAt(p) ELSE Hole, stamp |-> idAt(p)]]
        /\ clock = Len(Seed)
  BY Zenon DEF Init
<1>4. /\ DOMAIN Seed = 1..Len(Seed) /\ Len(Seed) \in Nat
      /\ \A i \in DOMAIN Seed : i \in Nat /\ i <= clock
  BY <1>3, NameAssumption
<1>5. \A p \in seeded : idAt(p) \in DOMAIN Seed
  OBVIOUS
<1>6. /\ DOMAIN cloud = DOMAIN Seed
      /\ \A i \in DOMAIN Seed : cloud[i].data = i /\ cloud[i].stamp = i
  BY <1>3
<1>7. /\ DOMAIN disk = seeded
      /\ \A p \in seeded : disk[p].data \in {idAt(p), Hole} /\ disk[p].stamp = idAt(p)
  BY <1>3
<1>8. DOMAIN db.rows = seeded /\ \A p \in seeded : db.rows[p].stamp = idAt(p)
  <2>1. ASSUME NEW p \in seeded  PROVE row(p, downloaded).stamp = idAt(p)
    BY <1>5, <1>6 DEF FromRemote, Node
  <2> HIDE DEF row, seeded, idAt
  <2> QED
    BY <1>3, <2>1
<1> HIDE DEF seeded, row, idAt, item
<1>9. DiskUpTo /\ Marked(db, clock) /\ CloudUpTo /\ OwedUpTo
  BY <1>1, <1>3, <1>4, <1>5, <1>6, <1>7, <1>8
     DEF DiskUpTo, FilesUpTo, Marked, CloudUpTo, OwedUpTo, Hole
<1>10. UserUpTo /\ UpUpTo /\ ListUpTo /\ DlUpTo
  BY <1>1, <1>3, <1>4
     DEF UserUpTo, UpUpTo, ListUpTo, DlUpTo, UserIdle, UpIdle, ListIdle, DlIdle
<1> QED
  BY <1>2, <1>9, <1>10 DEF Counted

\* What is owed is safe where nobody is in the middle of recording it.
LEMMA EditsSafe == IInv /\ EInv => EditSafe
<1> SUFFICES ASSUME IInv, Kept, NEW v \in owed
             PROVE  \E p \in DOMAIN disk :
                       /\ disk[p].data = v
                       /\ p \in UserHolds \union ListHolds \/ WillBeSent(p)
  BY DEF EInv, EditSafe
<1>1. PICK p \in DOMAIN disk : disk[p].data = v
  BY DEF Kept, Found
<1>2. p \in Top /\ OwedAt(p)
  BY <1>1 DEF IInv, DiskInv, OwedAt
<1>3. CASE p \in UserHolds \union ListHolds
  BY <1>1, <1>3
<1>4. CASE p \notin UserHolds \union ListHolds
  <2>1. Due(db, p)
    BY <1>2, <1>4, NotDue DEF Kept
  <2>2. WillBeSent(p)
    BY <2>1 DEF Due, Ready, WillBeSent
  <2> QED
    BY <1>1, <2>2
<1> QED
  BY <1>3, <1>4

\* No local change is ever lost but in one way, for any number of files, calls,
\* passes, listings, downloads, crashes, changes elsewhere and failed calls:
\* as long as no two actors met on a path, every content that only this machine
\* has is on disk under a row the next pass will send.  The one way is a listing
\* that follows an item renamed on iCloud to a name where a local change is
\* (remote.rs:197-206, `Overwrites'); what is asked besides is that a conflict's
\* name, which holds the second it was made in, is not given twice while the
\* upload of the file that had it is being read back (`Recycled').
THEOREM OnlyOverwritten == Spec /\ [](~Overwrites /\ ~Recycled) => []EditSafe
<1>1. Init => IInv /\ OInv /\ EInv
  BY Initially, PairsInitially, EditsInitially
<1>2. IInv /\ OInv /\ EInv /\ ~Overwrites /\ ~Recycled /\ [Next]_vars
        => IInv' /\ OInv' /\ EInv'
  BY Inductive, PairsInductive, EditsInductive
<1>3. IInv /\ EInv => EditSafe
  BY EditsSafe
<1> QED
  BY <1>1, <1>2, <1>3, PTL DEF Spec
=============================================================================
