---------------------------- MODULE CloudProofs -----------------------------
(***************************************************************************)
(* FileSync and iCloud, for every instance: that what the user deleted     *)
(* stays deleted, that no zeros get there, and that an item has one row.   *)
(* Three more inductive invariants, DInv, ZInv and UInv, each resting on   *)
(* those of FileSyncProofs.                                                *)
(***************************************************************************)
EXTENDS FileSyncProofs
-----------------------------------------------------------------------------
(***************************************************************************)
(* Deletes.  A pending delete is lost when its row goes, comes to life or  *)
(* takes another identity.  What protects it is that nothing here knows    *)
(* more of an item than iCloud does: a row, a listing and an upload know   *)
(* the item as it is or as it was (`Past'), so a listing finds nothing     *)
(* new about an item that is as it was when the user deleted it.           *)
(***************************************************************************)
\* A pending delete has its row at p.
Dead(st, p) == Has(st, p) /\ st.rows[p].tomb

\* What is known of item i, an etag and a path, was true once; it is still
\* true if the etag is the item's.
Past(i, etag, path) ==
    /\ i <= lastId
    /\ i \in DOMAIN cloud =>
          etag < cloud[i].etag \/ (etag = cloud[i].etag /\ path = cloud[i].path)

\* iCloud has the item no longer, or not as it is known.
Behind(row) == row.id \in DOMAIN cloud => row.etag < cloud[row.id].etag

\* A row of a full crawl's folder that is not in the listing and of an item
\* that iCloud has is one that was uploaded since.
Told(row) ==
    /\ Past(row.id, row.etag, row.synced)
    /\ CrawlMode = "full" /\ Fetched /\ row.id \in DOMAIN cloud \ list.ids => row.recent
AllTold(st) == \A p \in DOMAIN st.rows : Told(st.rows[p])

\* The property, with the version that the pending delete will present.
Bears(st, p, d) == Dead(st, p) /\ st.rows[p].id = d.id /\ st.rows[p].etag = d.etag
Sticks ==
    \A d \in unlinked :
        /\ d.id <= lastId
        /\ d.id \in DOMAIN cloud => d.etag <= cloud[d.id].etag
        /\ d.id \in DOMAIN cloud /\ cloud[d.id].etag = d.etag => \E p \in Top : Bears(db, p, d)

\* What each actor is going to take away is not a pending delete.
UserSpares ==
    /\ user.pc # "idle" => user.path \in UserPath
    /\ user.to \in UserPath \union {NoPath}
    /\ user.pc \in {"mirror", "record"} /\ user.op \in {"write", "unlink"} =>
          ~Dead(db, user.path)
    /\ user.pc = "record" /\ user.op = "create" => ~Dead(db, user.path)

UpSpares ==
    /\ \A t \in up.tombs : Dead(db, t.path) /\ db.rows[t.path].id = t.id
    /\ \A s, t \in up.tombs : s.path = t.path => s = t
    /\ up.pc = "forget" => up.node.id \notin DOMAIN cloud
    /\ up.pc = "clean" => Past(up.node.id, up.node.etag, up.path)
    /\ up.todo \intersect GravePath = {}
    /\ up.pc # "forget" => up.path \notin GravePath

ListSpares ==
    /\ \A n \in list.items \union {list.node} :
          Past(n.id, n.etag, n.path) /\ n.path \notin GravePath
    /\ \A n \in list.items : n.id \in list.ids
    /\ Fetched /\ list.pc # "items" => list.node.id \in list.ids
    /\ list.pc \in {"place", "redo", "store"} => ~Dead(db, list.node.path)
    /\ list.pc \in {"relocate", "rekey"} => Behind(db.rows[list.at])
    /\ list.pc \in {"conflict", "detach"} =>
          IF list.then = "place" THEN list.at = list.node.path
          ELSE Dead(db, list.at) => Behind(db.rows[list.at])
    /\ \A v \in list.sweep :
          /\ Has(db, v.path)
          /\ v.verdict = "forget" => db.rows[v.path].id \notin DOMAIN cloud
          /\ v.verdict = "remove" => ~Dead(db, v.path)
    /\ \A u, v \in list.sweep : u.path = v.path => u = v
    /\ list.pc = "unrow" => [path |-> list.at, verdict |-> "remove"] \in list.sweep

\* Only pending deletes are in graves, and iCloud never hears of a grave.
Clear(st) == \A p \in GravePath : Has(st, p) => st.rows[p].tomb
CloudClear == \A i \in DOMAIN cloud : i <= lastId /\ cloud[i].path \notin GravePath

Steadfast ==
    /\ AllTold(db) /\ Sticks /\ UserSpares /\ UpSpares /\ ListSpares
    /\ Clear(db) /\ CloudClear
DInv == Undisturbed => Steadfast

\* A listing makes room for a new item where a pending delete has its row: the
\* conflict takes the row's identity and its mark (remote.rs:154-157).
MakesWay == list.pc = "detach" /\ list.then = "place" /\ Dead(db, list.at)
\* A listing is older than what a row has learned of one of its items.
Overtaken == \E n \in list.items : \E p \in RowsWithId(db, n.id) : n.etag < db.rows[p].etag
\* A listing moves a row from or to the path of an upload being read back.
Recorded ==
    up.pc = "meta" /\ list.pc \in {"relocate", "rekey"} /\ up.path \in {list.at, list.node.path}
-----------------------------------------------------------------------------
(***************************************************************************)
(* What iCloud does to an item: it gives it a new etag, or takes it away,  *)
(* or makes one with a new id.                                             *)
(***************************************************************************)
Onward ==
    /\ lastId <= lastId'
    /\ \A i \in DOMAIN cloud' :
          \/ i \notin DOMAIN cloud /\ i > lastId
          \/ i \in DOMAIN cloud /\ cloud[i].etag < cloud'[i].etag
          \/ /\ i \in DOMAIN cloud /\ cloud[i].etag = cloud'[i].etag
             /\ cloud[i].path = cloud'[i].path

\* Before and after a step that nobody was in the way of.
Calmly == IInv /\ IInv' /\ Undisturbed /\ Undisturbed' /\ Paired /\ Paired'

LEMMA CloudTypes ==
    ASSUME IInv
    PROVE  /\ lastId \in Nat
           /\ \A i \in DOMAIN cloud : /\ i \in Nat \ {NoId} /\ cloud[i].etag \in Nat
                                      /\ cloud[i].path \in Top
BY DEF IInv, CloudInv, CloudOK, RestInv, Item

LEMMA RowTypes ==
    ASSUME IInv, NEW p \in DOMAIN db.rows
    PROVE  /\ p \in Top /\ db.rows[p] \in Entry
           /\ db.rows[p].id \in Nat /\ db.rows[p].etag \in Nat
           /\ Disciplined(db.rows[p], p)
BY DEF IInv, DbInv, Sound, StoreType, Entry

LEMMA PastStays ==
    ASSUME IInv, IInv', Onward, NEW i \in Nat, NEW e \in Nat, NEW q, Past(i, e, q)
    PROVE  Past(i, e, q)'
<1>1. lastId \in Nat /\ lastId' \in Nat
  BY CloudTypes DEF IInv, RestInv
<1>2. ASSUME i \in DOMAIN cloud'
      PROVE  e < cloud'[i].etag \/ (e = cloud'[i].etag /\ q = cloud'[i].path)
  <2>1. i \in DOMAIN cloud /\ cloud[i].etag \in Nat /\ cloud'[i].etag \in Nat
    BY <1>1, <1>2, CloudTypes DEF Onward, Past, IInv, CloudInv, CloudOK, Item
  <2> QED
    BY <1>1, <1>2, <2>1 DEF Onward, Past
<1> QED
  BY <1>1, <1>2 DEF Past, Onward

LEMMA BehindStays ==
    ASSUME IInv, IInv', Onward, NEW row, row.id \in Nat, row.etag \in Nat, row.id <= lastId,
           Behind(row)
    PROVE  Behind(row)'
<1> SUFFICES ASSUME row.id \in DOMAIN cloud'
             PROVE  row.etag < cloud'[row.id].etag
  BY DEF Behind
<1>1. lastId \in Nat
  BY CloudTypes
<1>2. row.id \in DOMAIN cloud /\ cloud[row.id].etag \in Nat /\ cloud'[row.id].etag \in Nat
  BY <1>1, CloudTypes DEF Onward, IInv, CloudInv, CloudOK, Item
<1> QED
  BY <1>2 DEF Onward, Behind

\* Gone for good.
LEMMA GoneStays ==
    ASSUME IInv, Onward, NEW i \in Nat, i <= lastId, i \notin DOMAIN cloud
    PROVE  i \notin DOMAIN cloud'
BY CloudTypes DEF Onward

LEMMA ToldStays ==
    ASSUME IInv, IInv', Onward, NEW row, row.id \in Nat, row.etag \in Nat, Told(row),
           CrawlMode = "full" /\ Fetched' => Fetched /\ list'.ids = list.ids
    PROVE  Told(row)'
<1>1. Past(row.id, row.etag, row.synced)'
  BY PastStays DEF Told
<1>2. ASSUME CrawlMode = "full", Fetched', row.id \in DOMAIN cloud' \ list'.ids
      PROVE  row.recent
  <2>1. row.id \in DOMAIN cloud
    BY <1>2, CloudTypes DEF Onward, Told, Past
  <2> QED
    BY <1>2, <2>1 DEF Told
<1> QED
  BY <1>1, <1>2 DEF Told
-----------------------------------------------------------------------------
(***************************************************************************)
(* What the operators of SyncState do to pending deletes.                  *)
(***************************************************************************)
\* As far as deletes go, two rows are the same.
SameFace(r, s) == r.id = s.id /\ r.etag = s.etag /\ r.tomb = s.tomb

\* Outside R no row changes, and none appears but a pending delete in a grave.
Faces(a, b, R) ==
    \A p \in Top \ R :
        /\ Has(a, p) => Has(b, p) /\ SameFace(b.rows[p], a.rows[p])
        /\ Has(b, p) /\ ~Has(a, p) => p \in GravePath /\ b.rows[p].tomb

\* A pending delete of an item that is as it was when it was deleted stays.
KeepsDead(a, b) ==
    \A p \in Top : Dead(a, p) /\ ~Behind(a.rows[p]) => \E q \in Top : Bears(b, q, a.rows[p])

Outcome(a, b, R) == AllTold(b) /\ KeepsDead(a, b) /\ Faces(a, b, R)

LEMMA SameOutcome ==
    ASSUME NEW a, NEW b, NEW c, NEW R, Outcome(a, b, R), c.rows = b.rows
    PROVE  Outcome(a, c, R)
BY DEF Outcome, AllTold, KeepsDead, Faces, Bears, Dead, Has

LEMMA NoOutcome ==
    ASSUME NEW a, NEW b, AllTold(a), b.rows = a.rows
    PROVE  Outcome(a, b, {})
BY DEF Outcome, AllTold, KeepsDead, Faces, Bears, Dead, Has, SameFace

LEMMA UpdateOutcome ==
    ASSUME NEW st, Sound(st), AllTold(st), NEW p \in Top, NEW row,
           Has(st, p) => Told(row),
           Has(st, p) /\ st.rows[p].tomb => Behind(st.rows[p]) \/ SameFace(row, st.rows[p])
    PROVE  Outcome(st, UpdateRow(st, p, row), {p})
<1> DEFINE new == [q \in DOMAIN st.rows |-> IF q = p THEN row ELSE st.rows[q]]
           after == UpdateRow(st, p, row)
<1>1. after.rows = new
  BY DEF UpdateRow, Sound, StoreType
<1>2. /\ DOMAIN new = DOMAIN st.rows
      /\ \A q \in DOMAIN st.rows : q # p => new[q] = st.rows[q]
      /\ p \in DOMAIN st.rows => new[p] = row
  OBVIOUS
<1> HIDE DEF new, after
<1>3. AllTold(after)
  BY <1>1, <1>2 DEF AllTold, Has
<1>4. KeepsDead(st, after)
  BY <1>1, <1>2 DEF KeepsDead, Bears, Dead, Has, SameFace
<1>5. Faces(st, after, {p})
  BY <1>1, <1>2 DEF Faces, SameFace, Has
<1> QED
  BY <1>3, <1>4, <1>5 DEF Outcome, after

\* Nothing but what does not count here changes.
LEMMA UpdateQuietly ==
    ASSUME NEW st, Sound(st), AllTold(st), NEW p, NEW row,
           Has(st, p) => Told(row) /\ SameFace(row, st.rows[p])
    PROVE  Outcome(st, UpdateRow(st, p, row), {})
<1> DEFINE new == [q \in DOMAIN st.rows |-> IF q = p THEN row ELSE st.rows[q]]
           after == UpdateRow(st, p, row)
<1>1. after.rows = new
  BY DEF UpdateRow, Sound, StoreType
<1>2. /\ DOMAIN new = DOMAIN st.rows
      /\ \A q \in DOMAIN st.rows : q # p => new[q] = st.rows[q]
      /\ p \in DOMAIN st.rows => new[p] = row
  OBVIOUS
<1> HIDE DEF new, after
<1>3. AllTold(after)
  BY <1>1, <1>2 DEF AllTold, Has
<1>4. KeepsDead(st, after)
  BY <1>1, <1>2 DEF KeepsDead, Bears, Dead, Has, SameFace
<1>5. Faces(st, after, {})
  BY <1>1, <1>2 DEF Faces, SameFace, Has
<1> QED
  BY <1>3, <1>4, <1>5 DEF Outcome, after

LEMMA UpsertOutcome ==
    ASSUME NEW st, Sound(st), AllTold(st), NEW p \in Top, NEW row, Told(row), ~Dead(st, p)
    PROVE  Outcome(st, UpsertEntry(st, p, row), {p})
<1> DEFINE new == [q \in DOMAIN st.rows \union {p} |-> IF q = p THEN row ELSE st.rows[q]]
           after == UpsertEntry(st, p, row)
<1>1. after.rows = new
  BY DEF UpsertEntry, Sound, StoreType
<1>2. /\ DOMAIN new = DOMAIN st.rows \union {p}
      /\ \A q \in DOMAIN st.rows : q # p => new[q] = st.rows[q]
      /\ new[p] = row
  OBVIOUS
<1> HIDE DEF new, after
<1>3. AllTold(after)
  BY <1>1, <1>2 DEF AllTold
<1>4. KeepsDead(st, after)
  BY <1>1, <1>2 DEF KeepsDead, Bears, Dead, Has
<1>5. Faces(st, after, {p})
  BY <1>1, <1>2 DEF Faces, SameFace, Has
<1> QED
  BY <1>3, <1>4, <1>5 DEF Outcome, after

LEMMA WithoutOutcome ==
    ASSUME NEW st, Sound(st), AllTold(st), NEW p \in Top, NEW gone,
           \A q \in Top : q \in gone => q = p, Dead(st, p) => Behind(st.rows[p])
    PROVE  Outcome(st, Without(st, gone), {p})
<1> DEFINE new == [q \in DOMAIN st.rows \ gone |-> st.rows[q]]
           after == Without(st, gone)
<1>1. after.rows = new
  BY DEF Without
<1>2. /\ DOMAIN new = DOMAIN st.rows \ gone
      /\ \A q \in DOMAIN new : new[q] = st.rows[q]
  OBVIOUS
<1> HIDE DEF new, after
<1>3. AllTold(after)
  BY <1>1, <1>2 DEF AllTold
<1>4. KeepsDead(st, after)
  BY <1>1, <1>2 DEF KeepsDead, Bears, Dead, Has
<1>5. Faces(st, after, {p})
  BY <1>1, <1>2 DEF Faces, SameFace, Has
<1> QED
  BY <1>3, <1>4, <1>5 DEF Outcome, after

LEMMA RemoveOutcome ==
    ASSUME NEW st, Sound(st), AllTold(st), NEW p \in Top, Dead(st, p) => Behind(st.rows[p])
    PROVE  /\ Outcome(st, RemoveEntry(st, p), {p})
           /\ Outcome(st, RemoveSubtree(st, p), {p})
<1> DEFINE gone == Subtree(st, p) \union {o.path : o \in {x \in st.ops : IsWithin(x.path, p)}}
<1>1. \A q \in Top : q \in {p} => q = p
  OBVIOUS
<1>2. ASSUME NEW q \in Top, q \in gone  PROVE q = p
  BY <1>2, TopPaths DEF Subtree
<1> HIDE DEF gone
<1>3. Outcome(st, Without(st, {p}), {p}) /\ Outcome(st, Without(st, gone), {p})
  BY <1>1, <1>2, WithoutOutcome
<1> QED
  BY <1>3 DEF RemoveEntry, RemoveSubtree, gone
-----------------------------------------------------------------------------
\* A row that was told the truth is, buried or under another path.
LEMMA BuriedTold ==
    ASSUME IInv, NEW row \in Entry, NEW p, Told(row)
    PROVE  Told(Buried(row, p)) /\ Buried(row, p).tomb
           /\ Buried(row, p).id = row.id /\ Buried(row, p).etag = row.etag
<1> DEFINE b == Buried(row, p)
<1>1. /\ b.tomb /\ b.id = row.id /\ b.etag = row.etag /\ b.recent = row.recent
      /\ row.synced # NoPath => b.synced = row.synced
      /\ row.id \in Nat /\ row.etag \in Nat
  BY DEF Buried, Entry
<1>2. Past(b.id, b.etag, b.synced)
  BY <1>1, CloudTypes, Places DEF Told, Past
<1> HIDE DEF b
<1>3. Told(b)
  BY <1>1, <1>2 DEF Told
<1> QED
  BY <1>1, <1>3 DEF b

LEMMA BuryOutcome ==
    ASSUME IInv, NEW st, Sound(st), AllTold(st), NEW p \in Top, NEW grave \in Top,
           grave \in GravePath, ~Has(st, grave)
    PROVE  LET after == BuryTombstone(st, p, grave)
           IN  Outcome(st, after, {p}) /\ ~Dead(after, p) /\ (Has(after, p) => Has(st, p))
<1> DEFINE after == BuryTombstone(st, p, grave)
<1>1. CASE ~(Has(st, p) /\ st.rows[p].tomb)
  <2>1. after = st
    BY <1>1 DEF BuryTombstone
  <2>2. Outcome(st, after, {})
    BY <2>1, NoOutcome
  <2>3. Outcome(st, after, {p})
    BY <2>2 DEF Outcome, Faces
  <2> QED
    BY <1>1, <2>1, <2>3 DEF Dead
<1>2. CASE Has(st, p) /\ st.rows[p].tomb
  <2> DEFINE b == Buried(st.rows[p], p)
             rows == UpdateRow(st, p, b).rows
             key == [q \in DOMAIN st.rows |-> IF q = p THEN grave ELSE q]
             new == Rekey(rows, key)
  <2>1. /\ DOMAIN rows = DOMAIN st.rows
        /\ \A q \in DOMAIN st.rows : q # p => rows[q] = st.rows[q]
        /\ rows[p] = b
    BY <1>2 DEF UpdateRow, Has, Sound, StoreType
  <2>2. st.rows[p] \in Entry /\ Told(st.rows[p])
    BY <1>2 DEF Sound, StoreType, Has, AllTold
  <2>3. Told(b) /\ b.tomb /\ b.id = st.rows[p].id /\ b.etag = st.rows[p].etag
    BY <2>2, BuriedTold
  <2>4. /\ DOMAIN key = DOMAIN st.rows
        /\ key[p] = grave
        /\ \A q \in DOMAIN st.rows : q # p => key[q] = q
    BY <1>2 DEF Has
  <2>5. after.rows = new
    BY <1>2 DEF BuryTombstone, Sound, StoreType
  <2> HIDE DEF rows, key, b, after
  <2>6. \A q, r \in DOMAIN key : key[q] = key[r] => q = r
    BY <2>4 DEF Has
  <2>7. /\ DOMAIN new = {key[q] : q \in DOMAIN key}
        /\ \A q \in DOMAIN key : new[key[q]] = rows[q]
    BY <2>6, RekeyKeeps, Zenon
  <2> HIDE DEF new
  <2>8. /\ \A q \in DOMAIN st.rows : q # p => q \in DOMAIN new /\ new[q] = st.rows[q]
        /\ \A q \in DOMAIN new : q = grave \/ (q # p /\ q \in DOMAIN st.rows)
        /\ grave \in DOMAIN new /\ new[grave] = b
    BY <1>2, <2>1, <2>4, <2>7 DEF Has
  <2>9. p # grave
    BY <1>2
  <2>10. AllTold(after)
    BY <2>3, <2>5, <2>8 DEF AllTold
  <2>11. KeepsDead(st, after)
    BY <2>3, <2>5, <2>8 DEF KeepsDead, Bears, Dead, Has
  <2>12. Faces(st, after, {p})
    BY <2>3, <2>5, <2>8 DEF Faces, SameFace, Has
  <2>13. ~Has(after, p)
    BY <2>5, <2>8, <2>9 DEF Has
  <2> QED
    BY <2>10, <2>11, <2>12, <2>13 DEF Outcome, Dead, after
<1> QED
  BY <1>1, <1>2

LEMMA RenameOutcome ==
    ASSUME IInv, NEW st, Sound(st), AllTold(st), NEW old \in Top, NEW new \in Top, old # new,
           Live(st, old), NEW rootDirty, NEW updateSynced, NEW grave,
           grave[new] \in Top, grave[new] \in GravePath, ~Has(st, grave[new]),
           updateSynced => Behind(st.rows[old])
    PROVE  LET after == RenameTree(st, old, new, rootDirty, updateSynced, grave)
           IN  /\ Outcome(st, after, {old, new}) /\ ~Has(after, old) /\ Live(after, new)
               /\ after.rows[new].recent = st.rows[old].recent
<1> DEFINE g == grave[new]
           moving    == Subtree(st, old)
           displaced == Subtree(st, new)
           buried    == {q \in displaced : st.rows[q].id # NoId}
           key == [q \in (DOMAIN st.rows \ displaced) \union buried |->
                       IF q \in buried THEN grave[q]
                       ELSE IF q \in moving THEN Rebase(q, old, new) ELSE q]
           moved(r, q) ==
               [r EXCEPT !.dirty = @ \/ (rootDirty /\ q = old),
                         !.synced = IF updateSynced /\ IsWithin(@, old)
                                    THEN Rebase(@, old, new) ELSE @]
           row == [q \in DOMAIN key |->
                       IF q \in buried THEN Buried(st.rows[q], q)
                       ELSE IF q \in moving THEN moved(st.rows[q], q) ELSE st.rows[q]]
           rows == Rekey(row, key)
           after == RenameTree(st, old, new, rootDirty, updateSynced, grave)
           m == moved(st.rows[old], old)
           b == Buried(st.rows[new], new)
<1>1. old \in DOMAIN st.rows /\ ~st.rows[old].tomb /\ g \notin DOMAIN st.rows
  BY DEF Live, Has
<1>2. DOMAIN st.rows \subseteq Top
  BY DEF Sound
<1>3. moving = {old} /\ displaced = {new} \intersect DOMAIN st.rows
  BY <1>1, <1>2, TopPaths DEF Subtree
<1>4. /\ buried \subseteq {new} /\ buried \subseteq DOMAIN st.rows
      /\ new \in buried <=> new \in DOMAIN st.rows /\ st.rows[new].id # NoId
  BY <1>3
<1>5. after.rows = rows
  BY <1>3, Zenon DEF RenameTree
<1>6. Rebase(old, old, new) = new
  BY Zenon, TopPaths
<1>7. /\ DOMAIN key = (DOMAIN st.rows \ {new}) \union buried
      /\ key[old] = new
      /\ \A q \in buried : key[q] = g
      /\ \A q \in DOMAIN st.rows \ {old, new} : key[q] = q
  BY ZenonT(40), <1>1, <1>3, <1>4, <1>6
<1>8. /\ row[old] = m
      /\ \A q \in buried : row[q] = b
      /\ \A q \in DOMAIN st.rows \ {old, new} : row[q] = st.rows[q]
  BY <1>1, <1>3, <1>4, <1>7, Zenon
<1>9. /\ m.tomb = FALSE /\ m.id = st.rows[old].id /\ m.etag = st.rows[old].etag
      /\ m.recent = st.rows[old].recent
      /\ updateSynced \/ m.synced = st.rows[old].synced
      /\ m.id \in Nat /\ m.etag \in Nat
  BY <1>1 DEF Sound, StoreType, Entry
<1>10. Told(m)
  <2>1. Told(st.rows[old])
    BY <1>1 DEF AllTold
  <2>2. Past(m.id, m.etag, m.synced)
    BY <1>9, <2>1 DEF Told, Past, Behind
  <2> HIDE DEF m
  <2> QED
    BY <1>9, <2>1, <2>2 DEF Told
<1>11. ASSUME new \in buried
       PROVE  Told(b) /\ b.tomb /\ b.id = st.rows[new].id /\ b.etag = st.rows[new].etag
  <2>1. st.rows[new] \in Entry /\ Told(st.rows[new])
    BY <1>4, <1>11 DEF Sound, StoreType, AllTold
  <2> QED
    BY <2>1, BuriedTold
<1> HIDE DEF moving, displaced, buried, key, moved, row, g, after, m, b
<1>12. \A q, r \in DOMAIN key : key[q] = key[r] => q = r
  BY <1>1, <1>4, <1>7
<1>13. /\ DOMAIN rows = {key[q] : q \in DOMAIN key}
       /\ \A q \in DOMAIN key : rows[key[q]] = row[q]
  BY <1>12, RekeyKeeps, Zenon
<1> HIDE DEF rows
<1>14. /\ new \in DOMAIN rows /\ rows[new] = m
       /\ \A q \in DOMAIN st.rows \ {old, new} : q \in DOMAIN rows /\ rows[q] = st.rows[q]
       /\ new \in buried => g \in DOMAIN rows /\ rows[g] = b
       /\ \A q \in DOMAIN rows : \/ q \in DOMAIN st.rows \ {old, new}
                                 \/ q = new
                                 \/ q = g /\ new \in buried
  BY <1>1, <1>4, <1>7, <1>8, <1>13
<1>15. old \notin DOMAIN rows
  BY <1>1, <1>14
<1>16. AllTold(after)
  BY <1>5, <1>10, <1>11, <1>14 DEF AllTold
<1>17. KeepsDead(st, after)
  <2> SUFFICES ASSUME NEW p \in Top, Dead(st, p), ~Behind(st.rows[p])
               PROVE  \E q \in Top : Bears(after, q, st.rows[p])
    BY DEF KeepsDead
  <2>1. p # old /\ st.rows[p].id # NoId
    BY <1>1, CloudTypes DEF Dead, Behind
  <2>2. CASE p = new
    <3>1. new \in buried
      BY <1>4, <2>1, <2>2 DEF Dead, Has
    <3>2. Bears(after, g, st.rows[p])
      BY <1>5, <1>11, <1>14, <2>2, <3>1 DEF Bears, Dead, Has
    <3> QED
      BY <3>2 DEF g
  <2>3. CASE p # new
    BY <1>5, <1>14, <2>1, <2>3 DEF Bears, Dead, Has
  <2> QED
    BY <2>2, <2>3
<1>18. Faces(st, after, {old, new})
  BY <1>1, <1>5, <1>11, <1>14 DEF Faces, SameFace, Has, g
<1>19. ~Has(after, old) /\ Live(after, new) /\ after.rows[new].recent = st.rows[old].recent
  BY <1>5, <1>9, <1>14, <1>15 DEF Live, Has
<1> QED
  BY <1>16, <1>17, <1>18, <1>19 DEF Outcome, after

LEMMA DetachOutcome ==
    ASSUME IInv, NEW st, Sound(st), AllTold(st), NEW old \in Top, NEW new \in Top,
           Has(st, old), ~Has(st, new), Dead(st, old) => Behind(st.rows[old])
    PROVE  LET after == DetachSubtreeAsConflict(st, old, new)
           IN  /\ Outcome(st, after, {old, new}) /\ ~Has(after, old) /\ Live(after, new)
<1> DEFINE detached(r) == [r EXCEPT !.id = NoId, !.etag = 0, !.synced = NoPath,
                                    !.dirty = TRUE, !.tomb = FALSE]
           moving == Subtree(st, old)
           row == [q \in DOMAIN st.rows |->
                      IF q \in moving THEN detached(st.rows[q]) ELSE st.rows[q]]
           key == [q \in DOMAIN st.rows |->
                      IF q \in moving THEN Rebase(q, old, new) ELSE q]
           rows == Rekey(row, key)
           after == DetachSubtreeAsConflict(st, old, new)
           m == detached(st.rows[old])
<1>1. old \in DOMAIN st.rows /\ new \notin DOMAIN st.rows
  BY DEF Has
<1>2. moving = {old}
  BY <1>1, TopPaths DEF Subtree, Sound
<1>3. Rebase(old, old, new) = new
  BY TopPaths
<1>4. /\ DOMAIN key = DOMAIN st.rows
      /\ key[old] = new
      /\ \A q \in DOMAIN st.rows \ {old} : key[q] = q
  BY <1>1, <1>2, <1>3
<1>5. /\ row[old] = m
      /\ \A q \in DOMAIN st.rows \ {old} : row[q] = st.rows[q]
  BY <1>1, <1>2, Zenon
<1>6. ~m.tomb /\ m.id = NoId /\ Told(m)
  <2>1. ~m.tomb /\ m.id = NoId
    BY <1>1 DEF Sound, StoreType, Entry
  <2> HIDE DEF m
  <2> QED
    BY <2>1, CloudTypes DEF Told, Past, NoId
<1>7. after.rows = rows
  BY DEF DetachSubtreeAsConflict, Sound, StoreType
<1> HIDE DEF moving, key, row, detached, after, m
<1>8. \A q, r \in DOMAIN key : key[q] = key[r] => q = r
  BY <1>1, <1>4
<1>9. /\ DOMAIN rows = {key[q] : q \in DOMAIN key}
      /\ \A q \in DOMAIN key : rows[key[q]] = row[q]
  BY <1>8, RekeyKeeps, ZenonT(40)
<1> HIDE DEF rows
<1>10. /\ new \in DOMAIN rows /\ rows[new] = m
       /\ \A q \in DOMAIN st.rows \ {old} : q \in DOMAIN rows /\ rows[q] = st.rows[q]
       /\ \A q \in DOMAIN rows \ {new} : q \in DOMAIN st.rows \ {old}
  BY <1>1, <1>4, <1>5, <1>9
<1>11. AllTold(after)
  BY <1>6, <1>7, <1>10 DEF AllTold
<1>12. KeepsDead(st, after)
  BY <1>7, <1>10 DEF KeepsDead, Bears, Dead, Has
<1>13. Faces(st, after, {old, new})
  BY <1>7, <1>10 DEF Faces, SameFace, Has
<1>14. ~Has(after, old) /\ Live(after, new)
  BY <1>1, <1>6, <1>7, <1>10 DEF Live, Has
<1> QED
  BY <1>11, <1>12, <1>13, <1>14 DEF Outcome, after
-----------------------------------------------------------------------------
(***************************************************************************)
(* What the other actors rely on stays true while one of them works on     *)
(* rows that they do not hold.                                             *)
(***************************************************************************)
LEMMA Graves == /\ GravePath \subseteq Top /\ NoPath \notin GravePath
                /\ UserPath \intersect GravePath = {}
<1>1. GravePath \subseteq Top
  BY NameAssumption DEF GravePath, Top, Join
<1>2. ASSUME NEW n \in Base, NEW g \in Grave, Join(Root, n) = Join(Root, g)
      PROVE  FALSE
  <2>1. Join(Root, g)[1] = g /\ Join(Root, n)[1] = n
    BY NameAssumption DEF Join, Root, Base
  <2>2. g = n
    BY <1>2, <2>1
  <2> QED
    BY <2>2 DEF Base
<1>3. UserPath \intersect GravePath = {}
  BY <1>2 DEF UserPath, GravePath
<1> QED
  BY <1>1, <1>3, Places

LEMMA Standing == ASSUME IInv, UNCHANGED <<cloud, lastId>>  PROVE Onward
BY CloudTypes DEF Onward

\* Rows that nothing new is known of.
LEMMA ToldWith ==
    ASSUME AllTold(db'), UNCHANGED <<cloud, lastId>>,
           CrawlMode = "full" /\ Fetched' => Fetched /\ list'.ids = list.ids
    PROVE  AllTold(db)'
BY DEF AllTold, Told, Past

LEMMA ToldOnward ==
    ASSUME IInv, IInv', Onward, AllTold(db), UNCHANGED <<db, list>>
    PROVE  AllTold(db)'
<1> SUFFICES ASSUME NEW p \in DOMAIN db.rows  PROVE Told(db.rows[p])'
  BY DEF AllTold
<1>1. PICK row : row = db.rows[p]
  OBVIOUS
<1>2. row.id \in Nat /\ row.etag \in Nat /\ Told(row)
  BY <1>1, RowTypes DEF AllTold
<1>3. Fetched' => Fetched /\ list'.ids = list.ids
  BY DEF Fetched
<1>4. Told(row)'
  BY <1>2, <1>3, ToldStays
<1> QED
  BY <1>1, <1>4 DEF Told, Past

LEMMA UserSpared ==
    ASSUME IInv, UserSpares, UNCHANGED user, NEW R, Faces(db, db', R),
           \A p \in Top : p \in R /\ p \in UserHolds => ~Dead(db', p)
    PROVE  UserSpares'
<1> DEFINE p == user.path
<1>1. ASSUME user.pc \in {"mirror", "record"}, ~Dead(db, p)
      PROVE  ~Dead(db', p)
  <2>1. p \in Top /\ p \in UserHolds /\ p \notin GravePath
    BY <1>1, Graves DEF UserHolds, IInv, UserInv, UserSpares
  <2>2. CASE p \notin R
    BY <1>1, <2>1, <2>2 DEF Faces, SameFace, Dead
  <2> QED
    BY <2>1, <2>2
<1> QED
  BY <1>1 DEF UserSpares

LEMMA UpSpared ==
    ASSUME IInv, IInv', UpSees, UpSpares, AllTold(db), UNCHANGED up, Onward,
           NEW R, Faces(db, db', R), \A p \in Top : p \in R => p \notin UpHolds
    PROVE  UpSpares'
<1>1. ASSUME NEW t \in up.tombs  PROVE Dead(db', t.path) /\ db'.rows[t.path].id = t.id
  <2>1. t.path \in Top /\ t.path \in UpHolds
    BY DEF UpHolds, IInv, UpInv, UpState, FileNode
  <2>2. Dead(db, t.path) /\ db.rows[t.path].id = t.id
    BY DEF UpSpares
  <2> QED
    BY <2>1, <2>2 DEF Faces, SameFace, Dead
<1>2. up.pc = "forget" => up.node.id \notin DOMAIN cloud'
  <2> SUFFICES ASSUME up.pc = "forget"  PROVE up.node.id \notin DOMAIN cloud'
    OBVIOUS
  <2>1. up.node \in up.tombs /\ up.node.id \notin DOMAIN cloud
    BY DEF UpSees, UpSpares
  <2>2. Has(db, up.node.path) /\ db.rows[up.node.path].id = up.node.id
    BY <2>1 DEF UpSpares, Dead
  <2>3. up.node.id \in Nat /\ up.node.id <= lastId
    BY <2>2, RowTypes DEF Has, AllTold, Told, Past
  <2> QED
    BY <2>1, <2>3, GoneStays
<1>3. up.pc = "clean" => Past(up.node.id, up.node.etag, up.path)'
  <2>1. PICK n, q : n = up.node /\ q = up.path
    OBVIOUS
  <2>2. n.id \in Nat /\ n.etag \in Nat
    BY <2>1 DEF IInv, UpInv, UpState, NodeType
  <2>3. up.pc = "clean" => Past(n.id, n.etag, q)'
    BY <2>1, <2>2, PastStays DEF UpSpares
  <2> QED
    BY <2>1, <2>3 DEF Past
<1> QED
  BY <1>1, <1>2, <1>3 DEF UpSpares

LEMMA ListSpared ==
    ASSUME IInv, IInv', ListSees, ListSpares, AllTold(db), UNCHANGED list, Onward,
           NEW R, Faces(db, db', R),
           \A p \in Top : p \in R /\ p \in ListHolds =>
              /\ ~Dead(db', p)
              /\ \A v \in list.sweep : v.path # p
              /\ list.pc \in {"relocate", "rekey"} => p # list.at
    PROVE  ListSpares'
<1>1. ASSUME NEW n \in list.items \union {list.node}  PROVE Past(n.id, n.etag, n.path)'
  <2>1. n.id \in Nat /\ n.etag \in Nat /\ Past(n.id, n.etag, n.path)
    BY DEF ListSpares, IInv, ListInv, ListState, ItemNode, NodeType
  <2> QED
    BY <2>1, PastStays
<1>2. \A n \in list'.items \union {list'.node} :
         Past(n.id, n.etag, n.path)' /\ n.path \notin GravePath
  BY <1>1 DEF ListSpares
<1>3. list.pc \in {"place", "redo", "store"} => ~Dead(db', list.node.path)
  <2> SUFFICES ASSUME list.pc \in {"place", "redo", "store"}
               PROVE  ~Dead(db', list.node.path)
    OBVIOUS
  <2>1. list.node.path \in Top /\ list.node.path \in ListHolds
    BY DEF ListHolds, IInv, ListInv, ItemNode
  <2>2. ~Dead(db, list.node.path) /\ list.node.path \notin GravePath
    BY DEF ListSpares
  <2> QED
    BY <2>1, <2>2 DEF Faces, SameFace, Dead
<1>4. ASSUME list.pc \in {"conflict", "detach", "relocate", "rekey"},
             Behind(db.rows[list.at]), list.at \notin R
      PROVE  Behind(db.rows[list.at])'
  <2>1. PICK p, row : p = list.at /\ row = db.rows[p]
    OBVIOUS
  <2>2. p \in DOMAIN db.rows /\ p \in Top
    BY <1>4, <2>1 DEF ListSees, Has, Known, Live, IInv, ListInv
  <2>3. row.id \in Nat /\ row.etag \in Nat /\ row.id <= lastId
    BY <2>1, <2>2, RowTypes DEF AllTold, Told, Past
  <2>4. Behind(row)'
    BY <1>4, <2>1, <2>3, BehindStays
  <2>5. SameFace(db'.rows[p], row)
    BY <1>4, <2>1, <2>2 DEF Faces, Has
  <2> QED
    BY <2>1, <2>4, <2>5 DEF Behind, SameFace
<1>5. list.pc \in {"relocate", "rekey"} => Behind(db.rows[list.at])'
  <2> SUFFICES ASSUME list.pc \in {"relocate", "rekey"}  PROVE Behind(db.rows[list.at])'
    OBVIOUS
  <2>1. list.at \in Top /\ list.at \in ListHolds /\ Behind(db.rows[list.at])
    BY DEF ListHolds, IInv, ListInv, ListSpares
  <2> QED
    BY <1>4, <2>1
<1>6. list.pc \in {"conflict", "detach"} =>
          IF list.then = "place" THEN list.at = list.node.path
          ELSE Dead(db', list.at) => Behind(db.rows[list.at])'
  <2> SUFFICES ASSUME list.pc \in {"conflict", "detach"}, list.then # "place",
                      Dead(db', list.at)
               PROVE  Behind(db.rows[list.at])'
    BY DEF ListSpares
  <2>1. list.at \in Top /\ list.at \in ListHolds /\ Has(db, list.at)
    BY DEF ListHolds, IInv, ListInv, ListSees
  <2>2. list.at \notin R
    BY <2>1
  <2>3. Dead(db, list.at)
    BY <2>1, <2>2 DEF Faces, SameFace, Dead
  <2>4. Behind(db.rows[list.at])
    BY <2>3 DEF ListSpares
  <2> QED
    BY <1>4, <2>2, <2>4
<1>7. ASSUME NEW v \in list.sweep
      PROVE  /\ Has(db', v.path)
             /\ v.verdict = "forget" => db'.rows[v.path].id \notin DOMAIN cloud'
             /\ v.verdict = "remove" => ~Dead(db', v.path)
  <2>1. v.path \in Top /\ v.path \in ListHolds
    BY DEF ListHolds, IInv, ListInv, ListState
  <2>2. v.path \notin R
    BY <2>1
  <2>3. Has(db, v.path)
    BY DEF ListSpares
  <2>4. Has(db', v.path) /\ SameFace(db'.rows[v.path], db.rows[v.path])
    BY <2>1, <2>2, <2>3 DEF Faces
  <2>5. db.rows[v.path].id \in Nat /\ db.rows[v.path].id <= lastId
    BY <2>3, RowTypes DEF Has, AllTold, Told, Past
  <2> QED
    BY <2>3, <2>4, <2>5, GoneStays DEF ListSpares, SameFace, Dead
<1>8. (Fetched <=> Fetched') /\ list' = list
  BY DEF Fetched
<1> QED
  BY <1>2, <1>3, <1>5, <1>6, <1>7, <1>8 DEF ListSpares

LEMMA ClearStill ==
    ASSUME Clear(db), NEW R, Faces(db, db', R),
           \A p \in Top : p \in R /\ Live(db', p) => p \notin GravePath
    PROVE  Clear(db)'
<1> SUFFICES ASSUME NEW p \in GravePath, Has(db', p)  PROVE db'.rows[p].tomb
  BY DEF Clear
<1>1. p \in Top
  BY Graves
<1>2. CASE p \in R
  BY <1>1, <1>2 DEF Live
<1>3. CASE p \notin R
  BY <1>1, <1>3 DEF Clear, Faces, SameFace
<1> QED
  BY <1>2, <1>3

LEMMA SticksStill ==
    ASSUME IInv, IInv', Sticks, Onward, KeepsDead(db, db'), AllTold(db)',
           \A d \in unlinked' : d \in unlinked \/ \E p \in Top : Bears(db', p, d)
    PROVE  Sticks'
<1> SUFFICES ASSUME NEW d \in unlinked'
             PROVE  /\ d.id <= lastId'
                    /\ d.id \in DOMAIN cloud' => d.etag <= cloud'[d.id].etag
                    /\ d.id \in DOMAIN cloud' /\ cloud'[d.id].etag = d.etag =>
                         \E p \in Top : Bears(db', p, d)
  BY DEF Sticks
<1>0. /\ d.id \in Nat /\ d.etag \in Nat /\ lastId \in Nat /\ lastId' \in Nat
      /\ \A i \in DOMAIN cloud : i \in Nat /\ cloud[i].etag \in Nat
      /\ \A i \in DOMAIN cloud' : i \in Nat /\ cloud'[i].etag \in Nat
  BY DEF IInv, RestInv, CloudInv, CloudOK, Item
<1>1. CASE d \in unlinked
  <2>1. /\ d.id <= lastId
        /\ d.id \in DOMAIN cloud => d.etag <= cloud[d.id].etag
        /\ d.id \in DOMAIN cloud /\ cloud[d.id].etag = d.etag =>
              \E p \in Top : Bears(db, p, d)
    BY <1>1 DEF Sticks
  <2>2. d.id <= lastId'
    BY <1>0, <2>1 DEF Onward
  <2>3. d.id \in DOMAIN cloud' =>
          d.id \in DOMAIN cloud /\ cloud[d.id].etag <= cloud'[d.id].etag
    BY <1>0, <2>1 DEF Onward
  <2>4. ASSUME d.id \in DOMAIN cloud', cloud'[d.id].etag = d.etag
        PROVE  \E p \in Top : Bears(db', p, d)
    <3>1. d.id \in DOMAIN cloud /\ cloud[d.id].etag = d.etag
      BY <1>0, <2>1, <2>3, <2>4
    <3>2. PICK p \in Top : Bears(db, p, d)
      BY <2>1, <3>1
    <3>3. Dead(db, p) /\ ~Behind(db.rows[p])
      BY <1>0, <3>1, <3>2 DEF Bears, Behind
    <3>4. PICK q \in Top : Bears(db', q, db.rows[p])
      BY <3>3 DEF KeepsDead
    <3> QED
      BY <3>2, <3>4 DEF Bears
  <2> QED
    BY <1>0, <2>1, <2>2, <2>3, <2>4
<1>2. CASE \E p \in Top : Bears(db', p, d)
  <2>1. PICK p \in Top : Bears(db', p, d)
    BY <1>2
  <2>2. p \in DOMAIN db'.rows /\ db'.rows[p].id = d.id /\ db'.rows[p].etag = d.etag
    BY <2>1 DEF Bears, Dead, Has
  <2>3. Told(db.rows[p])'
    BY <2>2 DEF AllTold
  <2>4. d.id <= lastId' /\ (d.id \in DOMAIN cloud' => d.etag <= cloud'[d.id].etag)
    BY <1>0, <2>2, <2>3 DEF Told, Past
  <2> QED
    BY <1>2, <2>4
<1> QED
  BY <1>1, <1>2
-----------------------------------------------------------------------------
(***************************************************************************)
(* A step of one actor, which changes rows that no other actor holds.      *)
(***************************************************************************)
LEMMA UserGoes ==
    ASSUME Calmly, Steadfast, UNCHANGED <<cloud, lastId, up, list>>,
           NEW R, R \subseteq UserHolds \union UserHolds', Outcome(db, db', R),
           \A d \in unlinked' : d \in unlinked \/ \E p \in Top : Bears(db', p, d),
           UserSpares'
    PROVE  Steadfast'
<1>1. /\ ~Meets(UserHolds, UpHolds \union ListHolds \union DlHolds)
      /\ ~Meets(UserHolds', UpHolds \union ListHolds \union DlHolds')
  BY DEF Calmly, Undisturbed, Overlap, UpHolds, ListHolds
<1>2. \A p \in R : p \in Top => p \notin UpHolds \union ListHolds
  <2>1. ASSUME NEW p \in R, p \in Top  PROVE p \notin UpHolds \union ListHolds
    BY <1>1, <2>1, Places DEF Meets
  <2> QED
    BY <2>1
<1>3. \A p \in R : p \in Top => p \notin GravePath
  <2>1. ASSUME NEW p \in UserHolds, p \in Top  PROVE p \in UserPath
    BY <2>1, Places DEF UserHolds, Steadfast, UserSpares
  <2>2. ASSUME NEW p \in UserHolds', p \in Top  PROVE p \in UserPath
    BY <2>2, Places DEF UserHolds, UserSpares
  <2> QED
    BY <2>1, <2>2, Graves
<1>4. Onward
  BY Standing DEF Calmly
<1>5. AllTold(db)'
  BY ToldWith DEF Outcome, Fetched
<1>6. UpSpares' /\ ListSpares'
  BY <1>2, <1>4, UpSpared, ListSpared DEF Calmly, Steadfast, Outcome, Paired
<1>7. Sticks' /\ Clear(db)'
  BY <1>3, <1>4, <1>5, SticksStill, ClearStill DEF Calmly, Steadfast, Outcome
<1> QED
  BY <1>5, <1>6, <1>7 DEF Steadfast, CloudClear

LEMMA UpActs ==
    ASSUME Calmly, Steadfast, UNCHANGED <<user, list, unlinked>>, Onward,
           NEW R, KeepsDead(db, db'), Faces(db, db', R), AllTold(db)',
           \A p \in Top : p \in R /\ Live(db', p) => p \notin GravePath,
           \A p \in Top : p \in R /\ p \in UserHolds => ~Dead(db', p),
           \A p \in Top : p \in R /\ p \in ListHolds =>
              /\ ~Dead(db', p)
              /\ \A v \in list.sweep : v.path # p
              /\ list.pc \in {"relocate", "rekey"} => p # list.at,
           UpSpares', CloudClear'
    PROVE  Steadfast'
<1>1. UserSpares' /\ ListSpares'
  BY UserSpared, ListSpared DEF Calmly, Steadfast, Paired
<1>2. Sticks' /\ Clear(db)'
  BY SticksStill, ClearStill DEF Calmly, Steadfast
<1> QED
  BY <1>1, <1>2 DEF Steadfast

LEMMA UpGoes ==
    ASSUME Calmly, Steadfast, UNCHANGED <<user, list, unlinked>>, Onward,
           NEW R, R \subseteq UpHolds \union UpHolds',
           KeepsDead(db, db'), Faces(db, db', R), AllTold(db)',
           \A p \in Top : p \in R /\ Live(db', p) => p \notin GravePath,
           UpSpares', CloudClear'
    PROVE  Steadfast'
<1>1. /\ ~Meets(UserHolds, UpHolds \union ListHolds \union DlHolds)
      /\ ~Meets(UserHolds, UpHolds' \union ListHolds \union DlHolds')
      /\ ~Meets(UpHolds, ListHolds \union DlHolds)
      /\ ~Meets(UpHolds', ListHolds \union DlHolds')
  BY DEF Calmly, Undisturbed, Overlap, UserHolds, ListHolds
<1>2. \A p \in R : p \in Top => p \notin UserHolds \union ListHolds
  <2>1. ASSUME NEW p \in R, p \in Top  PROVE p \notin UserHolds \union ListHolds
    BY <1>1, <2>1, Places DEF Meets
  <2> QED
    BY <2>1
<1> QED
  BY <1>2, UpActs

\* The pass goes on with the rows as they are.
LEMMA UpWalks ==
    ASSUME Calmly, Steadfast, UNCHANGED <<db, user, list, unlinked>>, Onward,
           UpSpares', CloudClear'
    PROVE  Steadfast'
<1>1. AllTold(db)'
  BY ToldOnward DEF Calmly, Steadfast
<1>2. Outcome(db, db', {})
  BY NoOutcome DEF Steadfast
<1> QED
  BY <1>1, <1>2, UpGoes DEF Outcome

LEMMA ListGoes ==
    ASSUME Calmly, Steadfast, UNCHANGED <<cloud, lastId, user, up, unlinked>>,
           NEW R, R \subseteq ListHolds \union ListHolds',
           KeepsDead(db, db'), Faces(db, db', R), AllTold(db)',
           \A p \in Top : p \in R /\ Live(db', p) => p \notin GravePath,
           ListSpares'
    PROVE  Steadfast'
<1>1. /\ ~Meets(UserHolds, UpHolds \union ListHolds \union DlHolds)
      /\ ~Meets(UserHolds, UpHolds \union ListHolds' \union DlHolds')
      /\ ~Meets(UpHolds, ListHolds \union DlHolds)
      /\ ~Meets(UpHolds, ListHolds' \union DlHolds')
  BY DEF Calmly, Undisturbed, Overlap, UserHolds, UpHolds
<1>2. \A p \in R : p \in Top => p \notin UserHolds \union UpHolds
  <2>1. ASSUME NEW p \in R, p \in Top  PROVE p \notin UserHolds \union UpHolds
    BY <1>1, <2>1, Places DEF Meets
  <2> QED
    BY <2>1
<1>3. Onward
  BY Standing DEF Calmly
<1>4. UserSpares' /\ UpSpares'
  BY <1>2, <1>3, UserSpared, UpSpared DEF Calmly, Steadfast, Paired
<1>5. Sticks' /\ Clear(db)'
  BY <1>3, SticksStill, ClearStill DEF Calmly, Steadfast
<1> QED
  BY <1>4, <1>5 DEF Steadfast, CloudClear

\* The listing goes on with the rows as they are.
LEMMA ListWalks ==
    ASSUME Calmly, Steadfast, UNCHANGED <<db, cloud, lastId, user, up, unlinked>>,
           CrawlMode = "full" /\ Fetched' => Fetched /\ list'.ids = list.ids,
           ListSpares'
    PROVE  Steadfast'
<1>1. Outcome(db, db', {})
  BY NoOutcome DEF Steadfast
<1>2. AllTold(db)'
  BY <1>1, ToldWith DEF Outcome
<1> QED
  BY <1>1, <1>2, ListGoes DEF Outcome

LEMMA DlGoes ==
    ASSUME Calmly, Steadfast, UNCHANGED <<cloud, lastId, user, up, list, unlinked>>,
           Outcome(db, db', {})
    PROVE  Steadfast'
<1>1. Onward
  BY Standing DEF Calmly
<1>2. AllTold(db)'
  BY ToldWith DEF Outcome, Fetched
<1>3. UserSpares' /\ UpSpares' /\ ListSpares'
  BY <1>1, UserSpared, UpSpared, ListSpared DEF Calmly, Steadfast, Outcome, Paired
<1>4. Sticks' /\ Clear(db)'
  BY <1>1, <1>2, SticksStill, ClearStill DEF Calmly, Steadfast, Outcome
<1> QED
  BY <1>2, <1>3, <1>4 DEF Steadfast, CloudClear
-----------------------------------------------------------------------------
\* ---- The user's calls.
LEMMA UserFields ==
    ASSUME IInv
    PROVE  DOMAIN user = {"pc", "op", "path", "to", "known", "stamp"}
BY DEF IInv, UserInv, UserState

\* A row that iCloud does not know says nothing of it.
LEMMA LocalTold ==
    ASSUME IInv, NEW row, row.id = NoId
    PROVE  Told(row)
BY CloudTypes DEF Told, Past, NoId

LEMMA DeletesUserBegin ==
    ASSUME Calmly, Steadfast, UserBegin
    PROVE  Steadfast'
<1>1. UNCHANGED <<db, cloud, lastId, up, list, unlinked>>
  BY DEF UserBegin
<1>2. PICK p \in UserPath : \/ BeginWrite(p) \/ BeginCreate(p) \/ BeginUnlink(p)
                            \/ \E q \in UserPath : BeginRename(p, q)
                            \/ BeginTouch(p)
  BY DEF UserBegin
<1>3. /\ user'.path \in UserPath /\ user'.to \in UserPath \union {NoPath}
      /\ user'.pc \in {"hydrate", "mirror"}
      /\ user'.op \in {"write", "unlink"} => ~Dead(db, user'.path)
  <2>1. CASE BeginWrite(p)
    <3>1. user'.pc \in {"hydrate", "mirror"} /\ user'.path = p /\ user'.to = NoPath
      BY <2>1 DEF BeginWrite, UserIdle
    <3>2. ~Dead(db, p)
      BY <2>1 DEF BeginWrite, Visible, Dead
    <3> QED
      BY <3>1, <3>2
  <2>2. CASE BeginCreate(p)
    BY <2>2 DEF BeginCreate, UserIdle
  <2>3. CASE BeginUnlink(p)
    BY <2>3 DEF BeginUnlink, UserIdle, Live, Dead
  <2>4. CASE \E q \in UserPath : BeginRename(p, q)
    BY <2>4 DEF BeginRename, UserIdle
  <2>5. CASE BeginTouch(p)
    BY <2>5 DEF BeginTouch, UserIdle
  <2> QED
    BY <1>2, <2>1, <2>2, <2>3, <2>4, <2>5
<1>4. UserSpares'
  BY <1>1, <1>3 DEF UserSpares
<1>5. Outcome(db, db', {})
  BY <1>1, NoOutcome DEF Steadfast
<1> QED
  BY <1>1, <1>4, <1>5, UserGoes

\* Only the mirror changes, or the call goes on or ends.
LEMMA DeletesUserMirror ==
    ASSUME Calmly, Steadfast,
           \/ UserHydrated \/ UserGivesUp \/ UserWrites \/ UserRemoves \/ UserMoves
           \/ UserTouches
    PROVE  Steadfast'
<1>1. UNCHANGED <<db, cloud, lastId, up, list, unlinked>>
  BY DEF UserHydrated, UserGivesUp, UserWrites, UserRemoves, UserMoves, UserTouches
<1>2. UserSpares'
  <2>1. CASE user' = UserIdle
    BY <2>1 DEF UserSpares, UserIdle
  <2>2. CASE user' # UserIdle
    <3>1. \/ user' = [user EXCEPT !.pc = "mirror"]
          \/ user' = [user EXCEPT !.pc = "record"]
          \/ user' = [user EXCEPT !.pc = "record", !.stamp = clock']
      BY <2>2 DEF UserHydrated, UserGivesUp, UserWrites, UserRemoves, UserMoves, UserTouches
    <3>2. /\ user'.path = user.path /\ user'.to = user.to /\ user'.op = user.op
          /\ user'.pc \in {"mirror", "record"}
      BY <3>1, UserFields, Zenon DEF Calmly
    <3>3. user.pc # "idle" /\ user.op # "create"
      BY DEF UserHydrated, UserGivesUp, UserWrites, UserRemoves, UserMoves, UserTouches,
         Calmly, Paired, UserSees
    <3>4. user.op \in {"write", "unlink"} => ~Dead(db, user.path)
      BY DEF UserHydrated, UserGivesUp, UserWrites, UserRemoves, UserMoves, UserTouches,
         Calmly, Paired, UserSees, Steadfast, UserSpares, Known, Live, Dead
    <3> QED
      BY <1>1, <3>2, <3>3, <3>4 DEF Steadfast, UserSpares
  <2> QED
    BY <2>1, <2>2
<1>3. Outcome(db, db', {})
  BY <1>1, NoOutcome DEF Steadfast
<1> QED
  BY <1>1, <1>2, <1>3, UserGoes

\* A pending delete in the way of a new file goes on in a grave.
LEMMA DeletesUserCreates ==
    ASSUME Calmly, Steadfast, UserCreates
    PROVE  Steadfast'
<1>0. PICK p, g : p = user.path /\ g = Pick(FreeGraves)
  OBVIOUS
<1>1. /\ UNCHANGED <<cloud, lastId, up, list, unlinked>>
      /\ user.pc = "mirror" /\ user.op = "create"
      /\ db' = BuryTombstone(db, p, g)
  BY <1>0 DEF UserCreates
<1>2. /\ user'.pc = "record" /\ user'.op = "create" /\ user'.path = p /\ user'.to = user.to
  BY <1>0, <1>1, UserFields DEF UserCreates, Calmly
<1>3. g \in FreeGraves /\ p \in Top /\ Sound(db) /\ IInv
  BY <1>0, <1>1, Picked DEF UserCreates, Calmly, IInv, UserInv, DbInv
<1>4. g \in Top /\ g \in GravePath /\ ~Has(db, g)
  BY <1>3, Names DEF FreeGraves, GravePath, Has
<1>5. Outcome(db, db', {p}) /\ ~Dead(db', p)
  BY <1>1, <1>3, <1>4, BuryOutcome DEF Steadfast
<1>6. UserSpares'
  BY <1>0, <1>1, <1>2, <1>5 DEF Steadfast, UserSpares
<1>7. {p} \subseteq UserHolds
  BY <1>0, <1>1 DEF UserHolds
<1>8. UNCHANGED <<cloud, lastId, up, list>> /\ UNCHANGED unlinked
  BY <1>1
<1> QED
  BY <1>5, <1>6, <1>7, <1>8, UserGoes

LEMMA DeletesUserRecords ==
    ASSUME Calmly, Steadfast, UserRecords
    PROVE  Steadfast'
<1>0. PICK p : p = user.path
  OBVIOUS
<1>1. /\ UNCHANGED <<cloud, lastId, up, list, unlinked>> /\ user.pc = "record"
      /\ user.op \in {"write", "create"}
  BY DEF UserRecords
<1>2. p \in Top /\ Sound(db) /\ ~Dead(db, p) /\ IInv /\ AllTold(db)
  BY <1>0, <1>1 DEF Calmly, IInv, UserInv, DbInv, Steadfast, UserSpares
<1>3. UserSpares'
  <2>1. user' = UserIdle \/ user' = [user EXCEPT !.pc = "queue"]
    BY DEF UserRecords
  <2>2. \/ user'.pc = "idle" /\ user'.to = NoPath
        \/ user'.pc = "queue" /\ user'.to = user.to /\ user'.path = user.path
    BY <2>1, UserFields DEF UserIdle, Calmly
  <2> QED
    BY <1>1, <2>2 DEF Steadfast, UserSpares
<1>4. Outcome(db, db', {p})
  <2>1. CASE p \notin DOMAIN disk
    BY <1>0, <1>2, <2>1, NoOutcome DEF UserRecords, Outcome, Faces
  <2>2. CASE p \in DOMAIN disk /\ user.known
    <3> DEFINE row == [db.rows[p] EXCEPT !.dirty = TRUE, !.tomb = FALSE,
                           !.stamp = disk[p].stamp, !.hydrated = @ \/ TRUE]
    <3>1. db' = UpdateRow(db, p, row)
      BY <1>0, <2>2 DEF UserRecords, ContentRecorded, MarkDirty
    <3>2. Has(db, p) =>
            /\ row.id = db.rows[p].id /\ row.etag = db.rows[p].etag
            /\ row.synced = db.rows[p].synced /\ row.recent = db.rows[p].recent
      BY <1>2 DEF Sound, StoreType, Entry, Has
    <3> HIDE DEF row
    <3>3. Has(db, p) => Told(row)
      BY <1>2, <3>2 DEF AllTold, Has, Told
    <3> QED
      BY <1>2, <3>1, <3>3, UpdateOutcome DEF Dead
  <2>3. CASE p \in DOMAIN disk /\ ~user.known
    <3>1. PICK row : row = Local("file", disk[p].stamp)
      OBVIOUS
    <3>2. db' = UpsertEntry(db, p, row)
      BY <1>0, <2>3, <3>1 DEF UserRecords, ContentRecorded
    <3>3. Told(row)
      BY <1>2, <3>1, LocalTold DEF Local
    <3> QED
      BY <1>2, <3>2, <3>3, UpsertOutcome
  <2> QED
    BY <2>1, <2>2, <2>3
<1>5. {p} \subseteq UserHolds
  BY <1>0, <1>1 DEF UserHolds
<1>6. UNCHANGED <<cloud, lastId, up, list>> /\ UNCHANGED unlinked
  BY <1>1
<1> QED
  BY <1>3, <1>4, <1>5, <1>6, UserGoes

LEMMA DeletesUserForgets ==
    ASSUME Calmly, Steadfast, UserForgets
    PROVE  Steadfast'
<1>0. PICK p : p = user.path
  OBVIOUS
<1>1. /\ UNCHANGED <<cloud, lastId, up, list>> /\ user.pc = "record" /\ user.op = "unlink"
  BY DEF UserForgets
<1>2. p \in Top /\ Sound(db) /\ ~Dead(db, p) /\ IInv /\ AllTold(db)
  BY <1>0, <1>1 DEF Calmly, IInv, UserInv, DbInv, Steadfast, UserSpares
<1>3. UserSpares'
  <2>1. user' = UserIdle \/ user' = [user EXCEPT !.pc = "queue"]
    BY DEF UserForgets
  <2>2. \/ user'.pc = "idle" /\ user'.to = NoPath
        \/ user'.pc = "queue" /\ user'.to = user.to /\ user'.path = user.path
    BY <2>1, UserFields DEF UserIdle, Calmly
  <2> QED
    BY <1>1, <2>2 DEF Steadfast, UserSpares
<1>4. {p} \subseteq UserHolds
  BY <1>0, <1>1 DEF UserHolds
<1>5. CASE user.known
  <2> DEFINE row == [db.rows[p] EXCEPT !.dirty = TRUE, !.tomb = TRUE]
  <2>1. db' = UpdateRow(db, p, row)
    BY <1>0, <1>5 DEF UserForgets, MarkTombstone
  <2>2. Has(db, p) =>
          /\ row.id = db.rows[p].id /\ row.etag = db.rows[p].etag /\ row.tomb
          /\ row.synced = db.rows[p].synced /\ row.recent = db.rows[p].recent
    BY <1>2 DEF Sound, StoreType, Entry, Has
  <2> HIDE DEF row
  <2>3. Has(db, p) => Told(row)
    BY <1>2, <2>2 DEF AllTold, Has, Told
  <2>4. Outcome(db, db', {p})
    BY <1>2, <2>1, <2>3, UpdateOutcome DEF Dead
  <2>5. Has(db, p) => Has(db', p) /\ db'.rows[p] = row
    BY <1>2, <2>1 DEF UpdateRow, Has, Sound, StoreType
  <2>6. ASSUME NEW d \in unlinked', d \notin unlinked
        PROVE  \E q \in Top : Bears(db', q, d)
    <3>1. Has(db, p) /\ d.id = db.rows[p].id /\ d.etag = db.rows[p].etag
      BY <1>0, <1>5, <2>6 DEF UserForgets, Has
    <3>2. Bears(db', p, d)
      BY <2>2, <2>5, <3>1 DEF Bears, Dead
    <3> QED
      BY <1>2, <3>2
  <2> QED
    BY <1>1, <1>3, <1>4, <2>4, <2>6, UserGoes
<1>6. CASE ~user.known
  <2>1. db' = RemoveEntry(db, p) /\ UNCHANGED unlinked
    BY <1>0, <1>6 DEF UserForgets
  <2>2. Outcome(db, db', {p})
    BY <1>2, <2>1, RemoveOutcome
  <2> QED
    BY <1>1, <1>3, <1>4, <2>1, <2>2, UserGoes
<1> QED
  BY <1>5, <1>6

LEMMA DeletesUserRenames ==
    ASSUME Calmly, Steadfast, UserRenames
    PROVE  Steadfast'
<1>0. PICK p, q, g : p = user.path /\ q = user.to /\ g = Pick(FreeGraves)
  OBVIOUS
<1>1. /\ UNCHANGED <<cloud, lastId, up, list, unlinked>>
      /\ user.pc = "record" /\ user.op = "rename"
      /\ db' = RenameTree(db, p, q, TRUE, FALSE, [r \in {q} |-> g])
      /\ user' = UserIdle
  BY <1>0 DEF UserRenames
<1>2. /\ p \in Top /\ q \in Top /\ p # q /\ Sound(db) /\ Live(db, p) /\ IInv /\ AllTold(db)
  BY <1>0, <1>1 DEF Calmly, IInv, UserInv, DbInv, Paired, UserSees, Steadfast
<1>3. g \in FreeGraves
  BY <1>0, Picked DEF UserRenames
<1>4. g \in GravePath /\ g \in Top /\ ~Has(db, g)
  BY <1>3, Names DEF FreeGraves, GravePath, Has
<1>5. Outcome(db, db', {p, q})
  <2>1. PICK grave : grave = [r \in {q} |-> g]
    BY Zenon
  <2>2. grave[q] = g
    BY <2>1
  <2>3. db' = RenameTree(db, p, q, TRUE, FALSE, grave)
    BY <1>1, <2>1
  <2> QED
    BY <1>2, <1>4, <2>2, <2>3, RenameOutcome, Zenon
<1>6. {p, q} \subseteq UserHolds
  BY <1>0, <1>1 DEF UserHolds
<1>7. UserSpares'
  BY <1>1 DEF UserIdle, UserSpares
<1>8. UNCHANGED <<cloud, lastId, up, list>> /\ UNCHANGED unlinked
  BY <1>1
<1> QED
  BY <1>5, <1>6, <1>7, <1>8, UserGoes

LEMMA DeletesUserRecordsTime ==
    ASSUME Calmly, Steadfast, UserRecordsTime
    PROVE  Steadfast'
<1>0. PICK p, s : p = user.path /\ s = user.stamp
  OBVIOUS
<1>1. /\ UNCHANGED <<cloud, lastId, up, list>> /\ UNCHANGED unlinked
      /\ db' = IF Live(db, p) THEN MarkDirty(db, p, s, FALSE) ELSE db
      /\ user' = UserIdle
  BY <1>0 DEF UserRecordsTime
<1>2. Outcome(db, db', {})
  <2>0. Sound(db) /\ AllTold(db)
    BY DEF Calmly, IInv, DbInv, Steadfast
  <2>1. CASE Live(db, p)
    <3> DEFINE row == [db.rows[p] EXCEPT !.dirty = TRUE, !.tomb = FALSE,
                           !.stamp = s, !.hydrated = @ \/ FALSE]
    <3>1. db' = UpdateRow(db, p, row)
      BY <1>1, <2>1 DEF MarkDirty
    <3>2. /\ row.id = db.rows[p].id /\ row.etag = db.rows[p].etag
          /\ row.tomb = db.rows[p].tomb
          /\ row.synced = db.rows[p].synced /\ row.recent = db.rows[p].recent
      BY <2>0, <2>1, Zenon DEF Sound, StoreType, Entry, Live, Has
    <3> HIDE DEF row
    <3>3. Told(row) /\ SameFace(row, db.rows[p])
      BY <2>0, <2>1, <3>2 DEF AllTold, Live, Has, Told, SameFace
    <3> QED
      BY <2>0, <3>1, <3>3, UpdateQuietly
  <2>2. CASE ~Live(db, p)
    BY <1>1, <2>0, <2>2, NoOutcome
  <2> QED
    BY <2>1, <2>2
<1>3. UserSpares'
  BY <1>1 DEF UserIdle, UserSpares
<1> QED
  BY <1>1, <1>2, <1>3, UserGoes, Zenon

LEMMA DeletesUserQueues ==
    ASSUME Calmly, Steadfast, UserQueues
    PROVE  Steadfast'
<1>0. PICK p, op : p = user.path /\ op = CASE user.op = "write"  -> "update"
                                           [] user.op = "create" -> "create"
                                           [] user.op = "unlink" -> "delete"
  OBVIOUS
<1>1. /\ UNCHANGED <<cloud, lastId, up, list>> /\ UNCHANGED unlinked /\ user.pc = "queue"
      /\ db' = QueueOp(db, op, p) /\ user' = UserIdle
  BY <1>0 DEF UserQueues
<1>2. op \in {"update", "create", "delete"} /\ Sound(db)
  BY <1>0, <1>1 DEF Calmly, IInv, UserInv, DbInv
<1>3. Outcome(db, db', {})
  BY <1>1, <1>2, QueueOpRows, NoOutcome DEF Steadfast
<1>4. UserSpares'
  BY <1>1 DEF UserIdle, UserSpares
<1> QED
  BY <1>1, <1>3, <1>4, UserGoes
-----------------------------------------------------------------------------
\* ---- What the calls of the service do.
LEMMA SameOnward ==
    ASSUME IInv, CloudClear, UNCHANGED <<cloud, lastId>>
    PROVE  Onward /\ CloudClear'
BY Standing DEF CloudClear

LEMMA DeleteOnward ==
    ASSUME IInv, CloudClear, NEW i, cloud' = Delete(cloud, i), UNCHANGED lastId
    PROVE  Onward /\ CloudClear' /\ i \notin DOMAIN cloud'
<1>1. /\ DOMAIN cloud' \subseteq DOMAIN cloud \ {i}
      /\ \A j \in DOMAIN cloud' : cloud'[j] = cloud[j]
  BY DEF Delete
<1> QED
  BY <1>1, CloudTypes DEF Onward, CloudClear

LEMMA RelocateOnward ==
    ASSUME IInv, CloudClear, NEW i \in DOMAIN cloud, NEW p \in Top, p \notin GravePath,
           cloud' = Relocate(cloud, i, p), UNCHANGED lastId
    PROVE  Onward /\ CloudClear'
<1>1. Below(cloud, i) = {}
  BY CloudTypes, TopPaths DEF Below
<1>2. cloud[i] \in Item
  BY DEF IInv, CloudInv, CloudOK
<1>3. /\ DOMAIN cloud' = DOMAIN cloud
      /\ \A j \in DOMAIN cloud \ {i} : cloud'[j] = cloud[j]
      /\ cloud'[i].etag = cloud[i].etag + 1 /\ cloud'[i].path = p
  BY <1>1, <1>2, Zenon DEF Relocate, Item
<1> QED
  BY <1>3, CloudTypes DEF Onward, CloudClear

LEMMA ModifyOnward ==
    ASSUME IInv, CloudClear, NEW i \in DOMAIN cloud, NEW d, NEW s,
           cloud' = Modify(cloud, i, d, s), UNCHANGED lastId
    PROVE  Onward /\ CloudClear'
<1>1. cloud[i] \in Item
  BY DEF IInv, CloudInv, CloudOK
<1>2. /\ DOMAIN cloud' = DOMAIN cloud
      /\ \A j \in DOMAIN cloud \ {i} : cloud'[j] = cloud[j]
      /\ cloud'[i].etag = cloud[i].etag + 1 /\ cloud'[i].path = cloud[i].path
  BY <1>1, Zenon DEF Modify, Item
<1> QED
  BY <1>2, CloudTypes DEF Onward, CloudClear

LEMMA CreateOnward ==
    ASSUME IInv, CloudClear, NEW q \in Top, q \notin GravePath, NEW k, NEW d, NEW s,
           cloud' = Create(cloud, lastId + 1, q, k, d, s), lastId' = lastId + 1
    PROVE  Onward /\ CloudClear'
<1>1. /\ DOMAIN cloud' = DOMAIN cloud \union {lastId'}
      /\ \A j \in DOMAIN cloud : j # lastId' => cloud'[j] = cloud[j]
      /\ cloud'[lastId'].path = q
  BY DEF Create
<1>2. lastId' > lastId /\ lastId \in Nat /\ lastId' \in Nat
  BY CloudTypes
<1>3. \A j \in DOMAIN cloud : j \in Nat /\ j <= lastId
  BY CloudTypes DEF CloudClear
<1> QED
  BY <1>1, <1>2, <1>3 DEF Onward, CloudClear

\* An upload's name is its own or a numbered one.
LEMMA UploadNames ==
    ASSUME NEW p \in Top, p \notin GravePath, NEW q \in UploadPaths(cloud, p)
    PROVE  q \in Top /\ q \notin GravePath
<1>1. CASE q = p
  BY <1>1
<1>2. CASE q # p
  <2>1. PICK n \in Numbered : q = Join(Root, n)
    BY <1>2, TopPaths DEF UploadPaths
  <2>2. q \in Top
    BY <2>1, DriveAssumption DEF Top, Join
  <2>3. ASSUME NEW g \in Grave, q = Join(Root, g)  PROVE FALSE
    <3>1. Join(Root, g)[1] = g /\ Join(Root, n)[1] = n
      BY NameAssumption, DriveAssumption DEF Join, Root
    <3>2. g = n
      BY <2>1, <2>3, <3>1
    <3> QED
      BY <3>2, NameAssumption
  <2> QED
    BY <2>2, <2>3 DEF GravePath
<1> QED
  BY <1>1, <1>2
-----------------------------------------------------------------------------
\* ---- The upload pass.
LEMMA PassFields ==
    ASSUME IInv
    PROVE  /\ UpPass.pc = "pass" /\ UpPass.tombs = up.tombs /\ UpPass.todo = up.todo
           /\ UpPass.path = NoPath
BY UpFields DEF UpPass

LEMMA DeletesUpStart ==
    ASSUME Calmly, Steadfast, UpStart
    PROVE  Steadfast'
<1>1. /\ UNCHANGED <<db, user, list, unlinked>> /\ UNCHANGED <<cloud, lastId>>
      /\ up'.tombs = {NodeOf(p) : p \in {q \in DOMAIN db.rows : db.rows[q].tomb}}
      /\ up'.todo = {q \in DOMAIN db.rows : db.rows[q].dirty /\ ~db.rows[q].tomb}
      /\ up'.pc = "pass" /\ up'.path = NoPath
  BY DEF UpStart, UpIdle
<1>2. \A t \in up'.tombs : Dead(db, t.path) /\ db.rows[t.path].id = t.id
  BY <1>1 DEF NodeOf, Dead, Has
<1>3. \A s, t \in up'.tombs : s.path = t.path => s = t
  BY <1>1 DEF NodeOf
<1>4. up'.todo \intersect GravePath = {}
  BY <1>1 DEF Steadfast, Clear, Has
<1>5. UpSpares'
  BY <1>1, <1>2, <1>3, <1>4, Graves DEF UpSpares
<1>6. Onward /\ CloudClear'
  BY <1>1, SameOnward DEF Calmly, Steadfast
<1> QED
  BY <1>1, <1>5, <1>6, UpWalks

LEMMA DeletesUpTombstone ==
    ASSUME Calmly, Steadfast, UpTombstone
    PROVE  Steadfast'
<1>1. UNCHANGED <<db, user, list, unlinked>> /\ UNCHANGED lastId /\ up.pc = "pass"
  BY DEF UpTombstone
<1>2. PICK t \in up.tombs :
         \/ /\ cloud' = IF t.id = NoId THEN cloud ELSE Delete(cloud, t.id)
            /\ up' = [up EXCEPT !.pc = "forget", !.path = t.path, !.node = t]
         \/ up' = [up EXCEPT !.tombs = @ \ {t}] /\ UNCHANGED cloud
  BY Zenon DEF UpTombstone
<1>3. CASE /\ cloud' = IF t.id = NoId THEN cloud ELSE Delete(cloud, t.id)
           /\ up' = [up EXCEPT !.pc = "forget", !.path = t.path, !.node = t]
  <2>1. Onward /\ CloudClear' /\ t.id \notin DOMAIN cloud'
    <3>1. CASE t.id = NoId
      BY <1>1, <1>3, <3>1, SameOnward, CloudTypes DEF Calmly, Steadfast
    <3>2. CASE t.id # NoId
      <4>1. PICK i : i = t.id
        OBVIOUS
      <4>2. cloud' = Delete(cloud, i)
        BY <1>3, <3>2, <4>1
      <4> QED
        BY <1>1, <4>1, <4>2, DeleteOnward DEF Calmly, Steadfast
    <3> QED
      BY <3>1, <3>2
  <2>2. /\ up'.pc = "forget" /\ up'.path = t.path /\ up'.node = t
        /\ up'.tombs = up.tombs /\ up'.todo = up.todo
    BY <1>3, UpFields DEF Calmly
  <2>3. UpSpares'
    BY <1>1, <2>1, <2>2 DEF Steadfast, UpSpares
  <2> QED
    BY <1>1, <2>1, <2>3, UpWalks
<1>4. CASE up' = [up EXCEPT !.tombs = @ \ {t}] /\ UNCHANGED cloud
  <2>1. /\ up'.pc = "pass" /\ up'.tombs = up.tombs \ {t} /\ up'.path = up.path
        /\ up'.todo = up.todo
    BY <1>1, <1>4, UpFields DEF Calmly
  <2>2. UpSpares'
    BY <1>1, <2>1 DEF Steadfast, UpSpares
  <2>3. Onward /\ CloudClear'
    BY <1>1, <1>4, SameOnward DEF Calmly, Steadfast
  <2> QED
    BY <1>1, <2>2, <2>3, UpWalks
<1> QED
  BY <1>2, <1>3, <1>4

\* What the pass forgets, iCloud has already forgotten.
LEMMA DeletesUpForget ==
    ASSUME Calmly, Steadfast, UpForget
    PROVE  Steadfast'
<1>0. PICK p : p = up.path
  OBVIOUS
<1>1. /\ UNCHANGED <<user, list, unlinked>> /\ UNCHANGED <<cloud, lastId>>
      /\ up.pc = "forget" /\ db' = RemoveSubtree(db, p)
      /\ up'.pc = "pass" /\ up'.tombs = up.tombs \ {up.node} /\ up'.todo = up.todo
      /\ up'.path = NoPath
  BY <1>0, PassFields, UpFields DEF UpForget, UpPass, Calmly
<1>2. p \in Top /\ Sound(db) /\ IInv /\ AllTold(db)
  BY <1>0, <1>1 DEF Calmly, IInv, UpInv, DbInv, Steadfast
<1>3. up.node \in up.tombs /\ p = up.node.path
  BY <1>0, <1>1 DEF Calmly, Paired, UpSees
<1>4. Dead(db, p) /\ db.rows[p].id \notin DOMAIN cloud
  BY <1>1, <1>3 DEF Steadfast, UpSpares
<1>5. Outcome(db, db', {p}) /\ ~Has(db', p)
  <2>1. Outcome(db, db', {p})
    BY <1>1, <1>2, <1>4, RemoveOutcome DEF Behind
  <2> QED
    BY <1>1, <1>2, <2>1, RemoveFace
<1>6. AllTold(db)'
  BY <1>1, <1>5, ToldWith DEF Outcome, Fetched
<1>7. Onward /\ CloudClear'
  BY <1>1, <1>2, SameOnward DEF Steadfast
<1>8. UpSpares'
  <2>1. ASSUME NEW t \in up'.tombs  PROVE Dead(db', t.path) /\ db'.rows[t.path].id = t.id
    <3>1. t \in up.tombs /\ t.path # p
      BY <1>1, <1>3, <2>1 DEF Steadfast, UpSpares
    <3>2. t.path \in Top /\ Dead(db, t.path) /\ db.rows[t.path].id = t.id
      BY <1>2, <3>1 DEF Steadfast, UpSpares, IInv, UpInv, UpState, FileNode
    <3> QED
      BY <1>5, <3>1, <3>2 DEF Outcome, Faces, SameFace, Dead
  <2>2. /\ \A s, t \in up'.tombs : s.path = t.path => s = t
        /\ up'.todo \intersect GravePath = {}
    BY <1>1 DEF Steadfast, UpSpares
  <2> QED
    BY <1>1, <2>1, <2>2, Graves DEF UpSpares
<1>9. {p} \subseteq UpHolds
  BY <1>0, <1>1 DEF UpHolds
<1>10. \A q \in Top : q \in {p} /\ Live(db', q) => q \notin GravePath
  BY <1>5 DEF Live
<1>11. UNCHANGED <<user, list, unlinked>>
  BY <1>1
<1> QED
  BY <1>5, <1>6, <1>7, <1>8, <1>9, <1>10, <1>11, UpGoes DEF Outcome

LEMMA HydratedOutcome ==
    ASSUME NEW st, Sound(st), AllTold(st), NEW p, NEW stamp
    PROVE  Outcome(st, MarkHydrated(st, p, stamp), {})
<1> DEFINE row == [st.rows[p] EXCEPT !.hydrated = TRUE, !.stamp = stamp]
<1>1. Has(st, p) =>
        /\ row.id = st.rows[p].id /\ row.etag = st.rows[p].etag /\ row.tomb = st.rows[p].tomb
        /\ row.synced = st.rows[p].synced /\ row.recent = st.rows[p].recent
  BY DEF Sound, StoreType, Entry, Has
<1>2. MarkHydrated(st, p, stamp) = UpdateRow(st, p, row)
  BY DEF MarkHydrated
<1> HIDE DEF row
<1>3. Has(st, p) => Told(row) /\ SameFace(row, st.rows[p])
  BY <1>1 DEF AllTold, Has, Told, SameFace
<1> QED
  BY <1>2, <1>3, UpdateQuietly

LEMMA DeletesUpFile ==
    ASSUME Calmly, Steadfast, UpFile
    PROVE  Steadfast'
<1>1. /\ UNCHANGED <<user, list, unlinked>> /\ UNCHANGED <<cloud, lastId>>
      /\ up.pc = "pass" /\ up.tombs = {}
  BY Zenon DEF UpFile
<1>2. Sound(db) /\ AllTold(db) /\ IInv
  BY Zenon DEF Calmly, IInv, DbInv, Steadfast
<1> DEFINE at(p, pc) == [up EXCEPT !.pc = pc, !.todo = @ \ {p}, !.path = p,
                                   !.node = NodeOf(p), !.changed = Changed(p)]
           skip(p) == [up EXCEPT !.todo = @ \ {p}]
<1>3. PICK p \in up.todo :
         /\ \/ up' = skip(p)
            \/ \E pc \in {"missing", "move", "replace", "adopt"} : up' = at(p, pc)
         /\ \/ UNCHANGED db
            \/ db' = MarkHydrated(db, p, disk[p].stamp)
  BY Zenon DEF UpFile
<1>4. /\ up'.tombs = {} /\ up'.todo = up.todo \ {p} /\ up'.path \in {up.path, p}
      /\ up'.pc \in {"pass", "missing", "move", "replace", "adopt"}
  BY <1>1, <1>2, <1>3, UpFields, Zenon
<1>5. UpSpares'
  BY <1>1, <1>3, <1>4 DEF Steadfast, UpSpares
<1>6. Outcome(db, db', {})
  <2>1. PICK s : s = disk[p].stamp
    OBVIOUS
  <2>2. UNCHANGED db \/ db' = MarkHydrated(db, p, s)
    BY <1>3, <2>1
  <2> QED
    BY <1>2, <2>2, NoOutcome, HydratedOutcome
<1>7. AllTold(db)'
  BY <1>1, <1>6, ToldWith DEF Outcome, Fetched
<1>8. Onward /\ CloudClear'
  BY <1>1, <1>2, SameOnward DEF Steadfast
<1>9. UNCHANGED <<user, list, unlinked>>
  BY <1>1
<1> QED
  BY <1>5, <1>6, <1>7, <1>8, <1>9, UpGoes DEF Outcome

LEMMA DeletesUpMissing ==
    ASSUME Calmly, Steadfast, UpMissing
    PROVE  Steadfast'
<1>0. PICK p : p = up.path
  OBVIOUS
<1>1. /\ UNCHANGED <<user, list, unlinked>> /\ UNCHANGED <<cloud, lastId>>
      /\ up.pc = "missing" /\ db' = MarkTombstone(db, p)
      /\ up'.pc = "pass" /\ up'.tombs = up.tombs /\ up'.todo = up.todo /\ up'.path = NoPath
  BY <1>0, PassFields DEF UpMissing, Calmly
<1>2. p \in Top /\ Sound(db) /\ IInv /\ AllTold(db) /\ up.tombs = {}
  BY <1>0, <1>1 DEF Calmly, IInv, UpInv, DbInv, Steadfast, Paired, UpSees
<1>3. Outcome(db, db', {p}) /\ ~Live(db', p)
  <2> DEFINE row == [db.rows[p] EXCEPT !.dirty = TRUE, !.tomb = TRUE]
  <2>1. db' = UpdateRow(db, p, row)
    BY <1>1 DEF MarkTombstone
  <2>2. Has(db, p) =>
          /\ row.id = db.rows[p].id /\ row.etag = db.rows[p].etag /\ row.tomb
          /\ row.synced = db.rows[p].synced /\ row.recent = db.rows[p].recent
    BY <1>2 DEF Sound, StoreType, Entry, Has
  <2> HIDE DEF row
  <2>3. /\ Has(db, p) => Told(row)
        /\ Has(db, p) /\ db.rows[p].tomb => SameFace(row, db.rows[p])
    BY <1>2, <2>2, Zenon DEF AllTold, Has, Told, SameFace
  <2>4. Outcome(db, db', {p})
    BY <1>2, <2>1, <2>3, UpdateOutcome
  <2> QED
    BY <1>2, <2>1, <2>2, <2>4, UpdateRowFace, Zenon
<1>4. AllTold(db)'
  BY <1>1, <1>3, ToldWith DEF Outcome, Fetched
<1>5. Onward /\ CloudClear'
  BY <1>1, <1>2, SameOnward DEF Steadfast
<1>6. UpSpares'
  BY <1>1, <1>2, Graves DEF Steadfast, UpSpares
<1>7. {p} \subseteq UpHolds
  BY <1>0, <1>1 DEF UpHolds
<1>8. UNCHANGED <<user, list, unlinked>>
  BY <1>1
<1> QED
  BY <1>3, <1>4, <1>5, <1>6, <1>7, <1>8, UpGoes DEF Outcome

\* A call of the service, and the pass goes on with the same file or leaves it.
LEMMA DeletesUpCalls ==
    ASSUME Calmly, Steadfast, UpMove \/ UpReplace \/ UpSend
    PROVE  Steadfast'
<1>0. PICK p, i : p = up.path /\ i = up.node.id
  OBVIOUS
<1>1. UNCHANGED <<db, user, list, unlinked>> /\ up.pc \in {"move", "replace", "send"}
  BY DEF UpMove, UpReplace, UpSend
<1>2. p \in Top /\ p \notin GravePath /\ IInv /\ CloudClear
  BY <1>0, <1>1 DEF Calmly, IInv, UpInv, Steadfast, UpSpares
<1>3. Onward /\ CloudClear'
  <2>1. CASE UNCHANGED <<cloud, lastId>>
    BY <1>2, <2>1, SameOnward
  <2>2. CASE UpMove /\ cloud' # cloud
    <3>1. i \in DOMAIN cloud /\ cloud' = Relocate(cloud, i, p) /\ UNCHANGED lastId
      BY <1>0, <2>2 DEF UpMove, Refuses
    <3> QED
      BY <1>2, <3>1, RelocateOnward
  <2>3. CASE UpReplace /\ cloud' # cloud
    <3>1. cloud' = Delete(cloud, i) /\ UNCHANGED lastId
      BY <1>0, <2>3 DEF UpReplace
    <3> QED
      BY <1>2, <3>1, DeleteOnward
  <2>4. CASE UpSend /\ ~UNCHANGED <<cloud, lastId>>
    <3>1. PICK q \in UploadPaths(cloud, p) :
             cloud' = Create(cloud, lastId + 1, q, "file", disk[p].data, disk[p].stamp)
      BY <1>0, <2>4 DEF UpSend
    <3>2. lastId' = lastId + 1
      BY <2>4 DEF UpSend
    <3>3. PICK d, s : d = disk[p].data /\ s = disk[p].stamp
      OBVIOUS
    <3>4. PICK r : r = q
      OBVIOUS
    <3>5. r \in Top /\ r \notin GravePath
      <4>1. \A w \in UploadPaths(cloud, p) : w \in Top /\ w \notin GravePath
        BY <1>2, UploadNames
      <4> QED
        BY <3>4, <4>1
    <3>6. cloud' = Create(cloud, lastId + 1, r, "file", d, s)
      BY <3>1, <3>3, <3>4
    <3> QED
      BY <1>2, <3>2, <3>5, <3>6, CreateOnward
  <2>5. UpMove => UNCHANGED lastId
    BY DEF UpMove
  <2>6. UpReplace => UNCHANGED lastId
    BY DEF UpReplace
  <2> QED
    BY <2>1, <2>2, <2>3, <2>4, <2>5, <2>6
<1>4. /\ up'.pc \in {"pass", "adopt", "replace", "send", "meta"}
      /\ up'.tombs = up.tombs /\ up'.todo = up.todo /\ up'.path \in {p, NoPath}
  <2>1. CASE up' = UpPass
    BY <1>2, <2>1, PassFields
  <2>2. CASE up' # UpPass
    BY <1>0, <1>2, <2>2, UpFields, Zenon DEF UpMove, UpReplace, UpSend
  <2> QED
    BY <2>1, <2>2
<1>5. UpSpares'
  BY <1>1, <1>2, <1>4, Graves DEF Steadfast, UpSpares
<1> QED
  BY <1>1, <1>3, <1>5, UpWalks

LEMMA DeletesUpAdopt ==
    ASSUME Calmly, Steadfast, UpAdopt
    PROVE  Steadfast'
<1>1. /\ UNCHANGED <<db, user, list, unlinked>> /\ UNCHANGED <<cloud, lastId>>
      /\ up.pc = "adopt"
  BY Zenon DEF UpAdopt
<1>2. Onward /\ CloudClear' /\ up.tombs = {}
  BY <1>1, SameOnward DEF Calmly, Steadfast, Paired, UpSees
<1>3. UpSpares'
  <2>1. CASE up' = UpPass
    BY <1>1, <1>2, <2>1, PassFields, Graves DEF Calmly, Steadfast, UpSpares
  <2>2. CASE up' # UpPass
    <3>1. PICK i \in IdsAt(cloud, up.path) :
             up' = [up EXCEPT !.pc = "clean", !.node = Node(cloud, i)]
      BY <2>2, Zenon DEF UpAdopt
    <3>2. /\ up'.pc = "clean" /\ up'.node = Node(cloud, i) /\ up'.tombs = up.tombs
          /\ up'.todo = up.todo /\ up'.path = up.path
      BY <3>1, UpFields DEF Calmly
    <3>3. Past(up.node.id, up.node.etag, up.path)'
      BY <1>1, <3>1, <3>2 DEF Past, Node, IdsAt, Steadfast, CloudClear
    <3> QED
      BY <1>1, <1>2, <3>2, <3>3 DEF Steadfast, UpSpares, Past
  <2> QED
    BY <2>1, <2>2
<1> QED
  BY <1>1, <1>2, <1>3, UpWalks

\* The row an upload is recorded in is alive, since its file is there.
LEMMA MetaAlive ==
    ASSUME Calmly, Steadfast, ~Recorded, up.pc = "meta", up.path \in DOMAIN disk
    PROVE  ~Dead(db, up.path)
<1> DEFINE p == up.path
<1>1. p \in Top /\ p \in UpRecords /\ FileNamed(p)
  BY DEF Calmly, IInv, UpInv, UpRecords, Paired, Pairs
<1>2. p \notin UserSwaps
  <2>1. ~Meets(UserSwaps, UpSends \union UpRecords)
    BY DEF Calmly, Undisturbed, Overlap
  <2> QED
    BY <1>1, <2>1, Places DEF Meets
<1>3. CASE Live(db, p)
  BY <1>3 DEF Live, Dead
<1>4. CASE UserBrings(p)
  <2>1. user.op # "rename"
    BY <1>2, <1>4 DEF UserBrings, UserSwaps, UserHolds
  <2> QED
    BY <1>4, <2>1 DEF UserBrings, Steadfast, UserSpares
<1>5. CASE ListBrings(p)
  <2>1. CASE list.pc = "detach"
    BY <1>5, <2>1 DEF ListBrings, Calmly, Paired, ListSees, Dead
  <2>2. CASE list.pc = "store"
    BY <1>5, <2>2 DEF ListBrings, Steadfast, ListSpares
  <2> QED
    BY <1>5, <2>1, <2>2 DEF ListBrings, Recorded
<1> QED
  BY <1>1, <1>3, <1>4, <1>5 DEF FileNamed, HasFile

LEMMA CrawlFetched == CrawlMode = "full" /\ Fetched => Crawling
BY SMTT(20) DEF Fetched, Crawling

LEMMA DeletesUpMeta ==
    ASSUME Calmly, Steadfast, ~Recorded, UpMeta
    PROVE  Steadfast'
<1>0. PICK p : p = up.path
  OBVIOUS
<1>1. /\ UNCHANGED <<user, list, unlinked>> /\ UNCHANGED <<cloud, lastId>>
      /\ up.pc = "meta"
  BY Zenon DEF UpMeta
<1>2. /\ Onward /\ CloudClear' /\ up.tombs = {} /\ p \in Top /\ p \notin GravePath
      /\ Sound(db) /\ AllTold(db) /\ IInv
  BY <1>0, <1>1, SameOnward
     DEF Calmly, Steadfast, Paired, UpSees, UpSpares, IInv, UpInv, DbInv
<1>3. CASE up' = UpPass /\ UNCHANGED db
  <2>1. UpSpares'
    BY <1>1, <1>2, <1>3, PassFields, Graves DEF Steadfast, UpSpares
  <2> QED
    BY <1>1, <1>2, <1>3, <2>1, UpWalks
<1>4. CASE \E i \in IdsAt(cloud, p) :
              /\ up' = [up EXCEPT !.pc = "clean", !.node = Node(cloud, i)]
              /\ UNCHANGED db
  <2>1. PICK i \in IdsAt(cloud, p) :
           up' = [up EXCEPT !.pc = "clean", !.node = Node(cloud, i)]
    BY <1>4, Zenon
  <2>2. /\ up'.pc = "clean" /\ up'.node = Node(cloud, i) /\ up'.tombs = up.tombs
        /\ up'.todo = up.todo /\ up'.path = p
    BY <1>0, <1>2, <2>1, UpFields
  <2>3. Past(up.node.id, up.node.etag, up.path)'
    BY <1>1, <2>1, <2>2 DEF Past, Node, IdsAt, Steadfast, CloudClear
  <2>4. UpSpares'
    BY <1>1, <1>2, <2>2, <2>3 DEF Steadfast, UpSpares, Past
  <2> QED
    BY <1>1, <1>2, <1>4, <2>4, UpWalks
<1>5. CASE /\ p \in DOMAIN disk
           /\ \E i \in IdsAt(cloud, p) :
                db' = MarkUploadedButDirty(db, p, Node(cloud, i), Crawling)
           /\ up' = UpPass
  <2>1. PICK i \in IdsAt(cloud, p) :
           db' = MarkUploadedButDirty(db, p, Node(cloud, i), Crawling)
    BY <1>5
  <2>2. PICK node, recent : node = Node(cloud, i) /\ recent = Crawling
    OBVIOUS
  <2> DEFINE row == [db.rows[p] EXCEPT !.id = node.id, !.etag = node.etag,
                                       !.synced = p, !.recent = recent]
  <2>3. db' = UpdateRow(db, p, row)
    BY <2>1, <2>2 DEF MarkUploadedButDirty
  <2>4. Has(db, p) => /\ row.id = node.id /\ row.etag = node.etag /\ row.synced = p
                      /\ row.recent = recent /\ row.tomb = db.rows[p].tomb
    BY <1>2 DEF Sound, StoreType, Entry, Has
  <2> HIDE DEF row
  <2>5. Past(node.id, node.etag, p)
    BY <2>1, <2>2 DEF Past, Node, IdsAt, Steadfast, CloudClear
  <2>6. Has(db, p) => Told(row)
    BY <2>2, <2>4, <2>5, CrawlFetched DEF Told
  <2>7. ~Dead(db, p)
    BY <1>0, <1>1, <1>5, MetaAlive
  <2>8. Outcome(db, db', {p})
    BY <1>2, <2>3, <2>6, <2>7, UpdateOutcome DEF Dead
  <2>9. ~Dead(db', p)
    <3>1. Has(db', p) => Has(db, p) /\ db'.rows[p] = row
      BY <1>2, <2>3 DEF UpdateRow, Has, Sound, StoreType
    <3> QED
      BY <2>4, <2>7, <3>1 DEF Dead
  <2>10. AllTold(db)'
    BY <1>1, <2>8, ToldWith DEF Outcome, Fetched
  <2>11. UpSpares'
    BY <1>1, <1>2, <1>5, PassFields, Graves DEF Steadfast, UpSpares
  <2>12. \A v \in list.sweep : v.path # p
    <3>1. ~Meets(UpRecords, {v.path : v \in list.sweep}) /\ p \in UpRecords
      BY <1>0, <1>1 DEF Calmly, Undisturbed, Overlap, UpRecords
    <3> QED
      BY <1>2, <3>1, Alone
  <2>13. list.pc \in {"relocate", "rekey"} => p # list.at
    BY <1>0, <1>1 DEF Recorded
  <2>14. /\ \A q \in Top : q \in {p} /\ Live(db', q) => q \notin GravePath
         /\ \A q \in Top : q \in {p} /\ q \in UserHolds => ~Dead(db', q)
         /\ \A q \in Top : q \in {p} /\ q \in ListHolds =>
              /\ ~Dead(db', q)
              /\ \A v \in list.sweep : v.path # q
              /\ list.pc \in {"relocate", "rekey"} => q # list.at
    BY <1>2, <2>9, <2>12, <2>13
  <2>15. UNCHANGED <<user, list, unlinked>>
    BY <1>1
  <2> QED
    BY <1>2, <2>8, <2>10, <2>11, <2>14, <2>15, UpActs DEF Outcome
<1> QED
  BY <1>0, <1>3, <1>4, <1>5, Zenon DEF UpMeta

LEMMA DeletesUpClean ==
    ASSUME Calmly, Steadfast, UpClean
    PROVE  Steadfast'
<1>0. PICK p, node, recent : p = up.path /\ node = up.node /\ recent = Crawling
  OBVIOUS
<1>1. /\ UNCHANGED <<user, list, unlinked>> /\ UNCHANGED <<cloud, lastId>>
      /\ up.pc = "clean" /\ db' = MarkClean(db, p, node, recent) /\ up' = UpPass
  BY <1>0 DEF UpClean
<1>2. /\ Onward /\ CloudClear' /\ up.tombs = {} /\ p \in Top /\ p \notin GravePath
      /\ Sound(db) /\ AllTold(db) /\ IInv /\ Live(db, p)
  BY <1>0, <1>1, SameOnward
     DEF Calmly, Steadfast, Paired, UpSees, UpSpares, IInv, UpInv, DbInv
<1>3. Past(node.id, node.etag, p)
  BY <1>0, <1>1 DEF Steadfast, UpSpares
<1>4. Outcome(db, db', {p})
  <2> DEFINE row == [db.rows[p] EXCEPT !.dirty = FALSE, !.tomb = FALSE,
                         !.hydrated = @ \/ db.rows[p].kind # "file",
                         !.id = node.id, !.etag = node.etag, !.stamp = node.stamp,
                         !.synced = p, !.recent = recent]
             new == UpdateRow(db, p, row)
  <2>1. db'.rows = new.rows
    BY <1>1, <1>2 DEF MarkClean, UpdateRow, Sound, StoreType
  <2>2. /\ row.id = node.id /\ row.etag = node.etag /\ row.synced = p
        /\ row.recent = recent
    BY <1>2 DEF Sound, StoreType, Entry, Live, Has
  <2> HIDE DEF row
  <2>3. Told(row)
    BY <1>0, <1>3, <2>2, CrawlFetched DEF Told
  <2>4. Outcome(db, new, {p})
    BY <1>2, <2>3, UpdateOutcome DEF Live
  <2> HIDE DEF new
  <2> QED
    BY <2>1, <2>4, SameOutcome
<1>5. AllTold(db)'
  BY <1>1, <1>4, ToldWith DEF Outcome, Fetched
<1>6. UpSpares'
  BY <1>1, <1>2, PassFields, Graves DEF Steadfast, UpSpares
<1>7. {p} \subseteq UpHolds
  BY <1>0, <1>1 DEF UpHolds
<1>8. UNCHANGED <<user, list, unlinked>>
  BY <1>1
<1> QED
  BY <1>2, <1>4, <1>5, <1>6, <1>7, <1>8, UpGoes DEF Outcome

LEMMA DeletesUpEnd ==
    ASSUME Calmly, Steadfast, UpEnd
    PROVE  Steadfast'
<1>1. /\ UNCHANGED <<db, user, list, unlinked>> /\ UNCHANGED <<cloud, lastId>>
      /\ up' = UpIdle
  BY DEF UpEnd
<1>2. Onward /\ CloudClear' /\ UpSpares'
  BY <1>1, SameOnward, Graves DEF Calmly, Steadfast, UpSpares, UpIdle
<1> QED
  BY <1>1, <1>2, UpWalks
-----------------------------------------------------------------------------
\* ---- A download, a restart, and what happens elsewhere.
LEMMA DeletesDl ==
    ASSUME Calmly, Steadfast, Downloader
    PROVE  Steadfast'
<1>1. UNCHANGED <<cloud, lastId, user, up, list, unlinked>>
  BY Zenon DEF Downloader, DlStart, DlOpen, DlCheck, DlCommit, DlMark, DlAdopt
<1>2. PICK p, s : p = dl.path /\ s = disk[dl.path].stamp
  BY SMTT(20)
<1>3. UNCHANGED db \/ db' = MarkHydrated(db, p, s)
  BY <1>2, Zenon DEF Downloader, DlStart, DlOpen, DlCheck, DlCommit, DlMark, DlAdopt
<1>4. Outcome(db, db', {})
  BY <1>3, NoOutcome, HydratedOutcome DEF Steadfast, Calmly, IInv, DbInv
<1> QED
  BY <1>1, <1>4, DlGoes, SMTT(20)

LEMMA NothingInHand ==
    ASSUME IInv'
    PROVE  Past(NoNode.id, NoNode.etag, NoNode.path)' /\ NoNode.path \notin GravePath
BY Graves DEF NoNode, Past, IInv, RestInv, CloudInv, CloudOK, NoId

LEMMA DeletesRestart ==
    ASSUME Calmly, Steadfast, Restart
    PROVE  Steadfast'
<1>1. /\ UNCHANGED <<cloud, lastId, unlinked>>
      /\ user' = UserIdle /\ up' = UpIdle /\ list' = ListIdle
  BY DEF Restart
<1>2. Sound(db) /\ AllTold(db) /\ IInv /\ IInv'
  BY DEF Calmly, IInv, DbInv, Steadfast
<1>3. /\ DOMAIN db'.rows = DOMAIN db.rows
      /\ \A p \in DOMAIN db.rows : db'.rows[p] = ReconciledRow(p)
  <2> DEFINE rows == [p \in DOMAIN db.rows |-> ReconciledRow(p)]
  <2>1. db'.rows = rows
    BY <1>2 DEF Restart, Sound, StoreType
  <2>2. DOMAIN rows = DOMAIN db.rows /\ \A p \in DOMAIN db.rows : rows[p] = ReconciledRow(p)
    OBVIOUS
  <2> HIDE DEF rows
  <2> QED
    BY <2>1, <2>2
<1>4. ASSUME NEW p \in DOMAIN db.rows
      PROVE  /\ SameFace(db'.rows[p], db.rows[p])
             /\ db'.rows[p].synced = db.rows[p].synced
             /\ db'.rows[p].recent = db.rows[p].recent
  <2>1. db.rows[p] \in Entry
    BY <1>2 DEF Sound, StoreType
  <2>2. /\ ReconciledRow(p).id = db.rows[p].id /\ ReconciledRow(p).etag = db.rows[p].etag
        /\ ReconciledRow(p).tomb = db.rows[p].tomb
        /\ ReconciledRow(p).synced = db.rows[p].synced
        /\ ReconciledRow(p).recent = db.rows[p].recent
    BY <2>1 DEF ReconciledRow, Entry
  <2> QED
    BY <1>3, <2>2 DEF SameFace
<1>5. AllTold(db)'
  <2>1. ~Fetched'
    BY <1>1 DEF Fetched, ListIdle
  <2> QED
    BY <1>1, <1>2, <1>3, <1>4, <2>1 DEF AllTold, Told, Past, SameFace
<1>6. KeepsDead(db, db') /\ Faces(db, db', {})
  BY <1>3, <1>4 DEF KeepsDead, Faces, Bears, Dead, Has, SameFace
<1>7. Onward /\ CloudClear'
  BY <1>1, <1>2, SameOnward DEF Steadfast
<1>8. Sticks' /\ Clear(db)'
  BY <1>1, <1>2, <1>5, <1>6, <1>7, SticksStill, ClearStill DEF Steadfast
<1>9. UserSpares' /\ UpSpares'
  BY <1>1, Graves DEF UserSpares, UpSpares, UserIdle, UpIdle
<1>10. ListSpares'
  BY <1>1, <1>2, NothingInHand DEF ListSpares, ListIdle, Fetched
<1> QED
  BY <1>5, <1>7, <1>8, <1>9, <1>10 DEF Steadfast

LEMMA DeletesElsewhere ==
    ASSUME Calmly, Steadfast, Elsewhere \/ UNCHANGED vars
    PROVE  Steadfast'
<1>1. UNCHANGED <<db, user, up, list, unlinked>>
  BY DEF Elsewhere, vars
<1>2. IInv /\ CloudClear
  BY DEF Calmly, Steadfast
<1>3. Onward /\ CloudClear'
  <2>1. CASE UNCHANGED <<cloud, lastId>>
    BY <1>2, <2>1, SameOnward
  <2>2. CASE RemoteAdd
    <3>0. PICK c : c = clock + 1
      OBVIOUS
    <3>1. PICK p \in UserPath : /\ cloud' = Create(cloud, lastId + 1, p, "file", c, c)
                                /\ lastId' = lastId + 1
      BY <2>2, <3>0 DEF RemoteAdd
    <3>2. p \in Top /\ p \notin GravePath
      BY Names, Graves
    <3> QED
      BY <1>2, <3>1, <3>2, CreateOnward
  <2>3. CASE RemoteEdit
    <3>0. PICK c : c = clock + 1
      OBVIOUS
    <3>1. PICK i \in DOMAIN cloud : cloud' = Modify(cloud, i, c, c) /\ UNCHANGED lastId
      BY <2>3, <3>0 DEF RemoteEdit
    <3>2. PICK j : j = i
      OBVIOUS
    <3> QED
      BY <1>2, <3>1, <3>2, ModifyOnward
  <2>4. CASE RemoteDelete
    <3>1. PICK i \in DOMAIN cloud : cloud' = Delete(cloud, i) /\ UNCHANGED lastId
      BY <2>4 DEF RemoteDelete
    <3>2. PICK j : j = i
      OBVIOUS
    <3> QED
      BY <1>2, <3>1, <3>2, DeleteOnward
  <2>5. CASE RemoteRename
    <3>1. PICK i \in DOMAIN cloud, p \in UserPath :
             cloud' = Relocate(cloud, i, p) /\ UNCHANGED lastId
      BY <2>5 DEF RemoteRename
    <3>2. PICK j : j = i
      OBVIOUS
    <3>3. p \in Top /\ p \notin GravePath
      BY Names, Graves
    <3> QED
      BY <1>2, <3>1, <3>2, <3>3, RelocateOnward
  <2>6. CASE UNCHANGED vars
    BY <2>1, <2>6 DEF vars
  <2> QED
    BY <2>2, <2>3, <2>4, <2>5, <2>6 DEF Elsewhere
<1>4. Outcome(db, db', {})
  BY <1>1, NoOutcome DEF Steadfast
<1>5. UpSpares'
  BY <1>1, <1>3, <1>4, UpSpared DEF Calmly, Steadfast, Outcome, Paired
<1> QED
  BY <1>1, <1>3, <1>5, UpWalks
-----------------------------------------------------------------------------
\* ---- A listing.
\* What it relies on once only the sweep is left.
LEMMA SweepSpares ==
    ASSUME IInv', NEW rest, list' = Sweeping(rest),
           \A u, v \in rest : u.path = v.path => u = v,
           \A v \in rest :
              /\ Has(db', v.path)
              /\ v.verdict = "forget" => db'.rows[v.path].id \notin DOMAIN cloud'
              /\ v.verdict = "remove" => ~Dead(db', v.path)
    PROVE  ListSpares' /\ ~Fetched'
<1>1. /\ list'.pc \in {"idle", "sweep"} /\ list'.items = {} /\ list'.node = NoNode
      /\ list'.sweep = rest
  BY DEF Sweeping, ListIdle
<1>2. Past(list.node.id, list.node.etag, list.node.path)' /\ list'.node.path \notin GravePath
  BY <1>1, NothingInHand DEF Past
<1> QED
  BY <1>1, <1>2 DEF ListSpares, Fetched

LEMMA DeletesListStart ==
    ASSUME Calmly, Steadfast, ListStart
    PROVE  Steadfast'
<1> DEFINE children == Children(cloud, Root)
<1>1. /\ UNCHANGED <<cloud, lastId, user, up, unlinked>>
      /\ list'.pc = "items" /\ list'.items = children /\ list'.ids = {n.id : n \in children}
      /\ list'.sweep = {} /\ list'.node = NoNode
  BY DEF ListStart, ListIdle
<1>2. Sound(db) /\ AllTold(db) /\ IInv /\ IInv'
  BY DEF Calmly, IInv, DbInv, Steadfast
<1>3. \A n \in children : \E i \in DOMAIN cloud : n = Node(cloud, i)
  BY DEF Children
<1>4. \A i \in DOMAIN cloud : Node(cloud, i) \in children
  BY <1>2, CloudTypes, TopPaths DEF Children
<1>5. \A i \in DOMAIN cloud : i \in list'.ids
  <2>1. \A i : Node(cloud, i).id = i
    BY DEF Node
  <2> HIDE DEF children
  <2> QED
    BY <1>1, <1>4, <2>1
<1> HIDE DEF children
<1>6. /\ DOMAIN db'.rows = DOMAIN db.rows
      /\ \A p \in DOMAIN db.rows : db'.rows[p] = [db.rows[p] EXCEPT !.recent = FALSE]
  <2> DEFINE rows == [p \in DOMAIN db.rows |-> [db.rows[p] EXCEPT !.recent = FALSE]]
  <2>1. db'.rows = rows
    BY <1>2 DEF ListStart, Sound, StoreType
  <2>2. /\ DOMAIN rows = DOMAIN db.rows
        /\ \A p \in DOMAIN rows : rows[p] = [db.rows[p] EXCEPT !.recent = FALSE]
    OBVIOUS
  <2> HIDE DEF rows
  <2> QED
    BY <2>1, <2>2
<1>7. \A p \in DOMAIN db.rows : /\ SameFace(db'.rows[p], db.rows[p])
                                /\ db'.rows[p].synced = db.rows[p].synced
  BY ZenonT(60), <1>2, <1>6 DEF Sound, StoreType, Entry, SameFace
<1>8. AllTold(db)'
  BY <1>1, <1>2, <1>5, <1>6, <1>7 DEF AllTold, Told, Past, SameFace
<1>9. KeepsDead(db, db') /\ Faces(db, db', {})
  BY <1>6, <1>7 DEF KeepsDead, Faces, Bears, Dead, Has, SameFace
<1>10. ASSUME NEW n \in children
       PROVE  Past(n.id, n.etag, n.path)' /\ n.path \notin GravePath /\ n.id \in list'.ids
  <2>1. PICK i \in DOMAIN cloud : n = Node(cloud, i)
    BY <1>3
  <2> QED
    BY <1>1, <1>5, <2>1 DEF Node, Past, Steadfast, CloudClear
<1>11. Past(list.node.id, list.node.etag, list.node.path)' /\ list'.node.path \notin GravePath
  BY <1>1, <1>2, NothingInHand DEF Past
<1>12. ListSpares'
  BY <1>1, <1>10, <1>11 DEF ListSpares
<1>13. UNCHANGED <<cloud, lastId, user, up, unlinked>>
  BY <1>1
<1> QED
  BY <1>8, <1>9, <1>12, <1>13, ListGoes

\* A listing that is not overtaken finds nothing new about an item that is as
\* it was when its row was written.
LEMMA NothingNew ==
    ASSUME Calmly, Steadfast, ~Overtaken, NEW n \in list.items, NEW e \in RowsWithId(db, n.id),
           ~Behind(db.rows[e])
    PROVE  n.etag = db.rows[e].etag /\ n.path = db.rows[e].synced
<1>1. /\ e \in DOMAIN db.rows /\ db.rows[e].id = n.id
  BY DEF RowsWithId
<1>2. /\ Past(n.id, n.etag, n.path) /\ ~(n.etag < db.rows[e].etag)
      /\ n.etag \in Nat
  BY DEF Steadfast, ListSpares, Overtaken, Calmly, IInv, ListInv, ListState, ItemNode
<1>3. Past(n.id, db.rows[e].etag, db.rows[e].synced) /\ db.rows[e].etag \in Nat
  BY <1>1, RowTypes DEF Calmly, Steadfast, AllTold, Told
<1>4. n.id \in DOMAIN cloud /\ ~(db.rows[e].etag < cloud[n.id].etag)
  BY <1>1 DEF Behind
<1>5. cloud[n.id].etag \in Nat
  BY <1>4, CloudTypes DEF Calmly
<1> QED
  BY <1>2, <1>3, <1>4, <1>5 DEF Past

LEMMA DeletesListItem ==
    ASSUME Calmly, Steadfast, ~Overtaken, ListItem
    PROVE  Steadfast'
<1>1. UNCHANGED <<db, cloud, lastId, user, up, unlinked>> /\ list.pc = "items"
  BY ZenonT(60) DEF ListItem
<1>2. list.sweep = {} /\ Sound(db) /\ IInv
  BY Zenon, <1>1 DEF Calmly, Paired, ListSees, IInv, DbInv
<1> DEFINE now(n, pc) == [list EXCEPT !.pc = pc, !.items = @ \ {n}, !.node = n]
           at(n, e, pc) == [now(n, pc) EXCEPT !.at = e, !.stamp = db.rows[e].stamp,
                               !.hydrated = db.rows[e].hydrated, !.recent = db.rows[e].recent]
<1>3. PICK n \in list.items :
         \/ list' = now(n, "occupant")
         \/ \E e \in RowsWithId(db, n.id) :
              \/ /\ EntryConflicts(db.rows[e], n)
                 /\ list' = [now(n, "conflict") EXCEPT !.at = e, !.then = "occupant"]
              \/ list' = [list EXCEPT !.items = @ \ {n}]
              \/ ~db.rows[e].dirty /\ e # n.path /\ list' = at(n, e, "relocate")
              \/ /\ ~db.rows[e].dirty /\ e = n.path
                 /\ list' = at(n, e, "store") \/ list' = at(n, e, "redo")
  BY ZenonT(60) DEF ListItem
<1>4. /\ n.id \in list.ids
      /\ \A m \in list.items \union {list.node} :
            Past(m.id, m.etag, m.path)' /\ m.path \notin GravePath
      /\ \A m \in list.items : m.id \in list.ids
  BY <1>1 DEF Steadfast, ListSpares, Past
<1>5. /\ list'.items = list.items \ {n} /\ list'.ids = list.ids /\ list'.sweep = {}
      /\ list'.node \in {n, list.node}
      /\ list'.pc # "items" => list'.node = n
      /\ list'.pc # "unrow"
  BY ZenonT(60), <1>1, <1>2, <1>3, ListFields
<1>6. /\ list'.pc \in {"place", "redo", "store"} => ~Dead(db', list'.node.path)
      /\ list'.pc \in {"relocate", "rekey"} => Behind(db.rows[list.at])'
      /\ list'.pc \in {"conflict", "detach"} =>
            IF list'.then = "place" THEN list'.at = list'.node.path
            ELSE Dead(db', list'.at) => Behind(db.rows[list.at])'
  <2>1. CASE list' = now(n, "occupant")
    BY <1>2, <2>1, ListFields
  <2>2. CASE list' = [list EXCEPT !.items = @ \ {n}]
    BY <1>1, <1>2, <2>2, ListFields
  <2>3. ASSUME NEW e \in RowsWithId(db, n.id), EntryConflicts(db.rows[e], n),
               list' = [now(n, "conflict") EXCEPT !.at = e, !.then = "occupant"]
        PROVE  <1>6!:
    <3>1. list'.pc = "conflict" /\ list'.at = e /\ list'.then = "occupant"
      BY <1>2, <2>3, ListFields
    <3>2. Behind(db.rows[e])
      BY <2>3, NothingNew DEF EntryConflicts
    <3> QED
      BY <1>1, <3>1, <3>2 DEF Behind
  <2>4. ASSUME NEW e \in RowsWithId(db, n.id), ~db.rows[e].dirty, e # n.path,
               list' = at(n, e, "relocate")
        PROVE  <1>6!:
    <3>1. list'.pc = "relocate" /\ list'.at = e
      BY <1>2, <2>4, ListFields
    <3>2. db.rows[e].synced = e
      BY <1>2, <2>4 DEF RowsWithId, Sound, Disciplined
    <3>3. Behind(db.rows[e])
      BY <2>4, <3>2, NothingNew
    <3> QED
      BY <1>1, <3>1, <3>3 DEF Behind
  <2>5. ASSUME NEW e \in RowsWithId(db, n.id), ~db.rows[e].dirty, e = n.path,
               list' = at(n, e, "store") \/ list' = at(n, e, "redo")
        PROVE  <1>6!:
    <3>1. list'.pc \in {"store", "redo"} /\ list'.node = n
      BY <1>2, <2>5, ListFields, Zenon
    <3>2. ~Dead(db, e)
      BY <1>2, <2>5 DEF RowsWithId, Sound, Disciplined, Dead
    <3> QED
      BY <1>1, <2>5, <3>1, <3>2
  <2> QED
    BY Zenon, <1>3, <2>1, <2>2, <2>3, <2>4, <2>5
<1> HIDE DEF now, at
<1>7. \A m \in list'.items \union {list'.node} :
         Past(m.id, m.etag, m.path)' /\ m.path \notin GravePath
  BY <1>4, <1>5
<1>8. ListSpares'
  BY <1>4, <1>5, <1>6, <1>7 DEF ListSpares
<1>9. CrawlMode = "full" /\ Fetched' => Fetched /\ list'.ids = list.ids
  BY <1>1, <1>5 DEF Fetched
<1> QED
  BY Zenon, <1>1, <1>8, <1>9, ListWalks

\* The listing goes on with the item it has in hand.
LEMMA ListStays ==
    ASSUME Calmly, Steadfast, UNCHANGED <<cloud, lastId>>, list.sweep = {},
           list'.items = list.items, list'.ids = list.ids, list'.node = list.node,
           list'.sweep = {},
           list.pc \notin {"idle", "items", "sweep", "unrow"},
           list'.pc \notin {"sweep", "unrow"},
           list'.pc \in {"place", "redo", "store"} => ~Dead(db', list.node.path),
           list'.pc \in {"relocate", "rekey"} => Behind(db.rows[list.at])',
           list'.pc \in {"conflict", "detach"} =>
              IF list'.then = "place" THEN list'.at = list.node.path
              ELSE Dead(db', list'.at) => Behind(db.rows[list.at])'
    PROVE  ListSpares' /\ Fetched /\ list'.ids = list.ids
<1>1. /\ Fetched
      /\ list.node.id \in list.ids
      /\ \A m \in list.items \union {list.node} :
            Past(m.id, m.etag, m.path)' /\ m.path \notin GravePath
      /\ \A m \in list.items : m.id \in list.ids
  BY DEF Steadfast, ListSpares, Past, Fetched
<1>2. \A m \in list'.items \union {list'.node} :
         Past(m.id, m.etag, m.path)' /\ m.path \notin GravePath
  BY <1>1
<1> QED
  BY <1>1, <1>2 DEF ListSpares

\* Only the mirror changes, and a copy's name, a path or a placeholder is found.
LEMMA DeletesListMirror ==
    ASSUME Calmly, Steadfast, ListConflict \/ ListOccupant \/ ListRelocate \/ ListPlace
    PROVE  Steadfast'
<1>1. /\ UNCHANGED <<db, cloud, lastId, user, up, unlinked>>
      /\ list.pc \in {"conflict", "occupant", "relocate", "place", "redo"}
  BY DEF ListConflict, ListOccupant, ListRelocate, ListPlace
<1>2. list.sweep = {} /\ Sound(db) /\ IInv
  BY <1>1 DEF Calmly, Paired, ListSees, IInv, DbInv
<1>3. list'.items = list.items /\ list'.ids = list.ids /\ list'.node = list.node /\ list'.sweep = {}
  BY <1>2, ListFields, Zenon DEF ListConflict, ListOccupant, ListRelocate, ListPlace
<1>4. /\ list'.pc \in {"detach", "conflict", "place", "rekey", "store"}
      /\ list'.pc \in {"place", "redo", "store"} => ~Dead(db', list.node.path)
      /\ list'.pc \in {"relocate", "rekey"} => Behind(db.rows[list.at])'
      /\ list'.pc \in {"conflict", "detach"} =>
            IF list'.then = "place" THEN list'.at = list.node.path
            ELSE Dead(db', list'.at) => Behind(db.rows[list.at])'
  <2>1. CASE ListConflict
    <3>1. list.pc = "conflict" /\ list'.pc = "detach" /\ list'.then = list.then /\ list'.at = list.at
      BY <1>2, <2>1, ListFields DEF ListConflict
    <3> QED
      BY <1>1, <3>1 DEF Steadfast, ListSpares, Behind
  <2>2. CASE ListOccupant
    <3>1. CASE Has(db, list.node.path) /\ db.rows[list.node.path].dirty
      BY <1>2, <2>2, <3>1, ListFields DEF ListOccupant
    <3>2. CASE ~(Has(db, list.node.path) /\ db.rows[list.node.path].dirty)
      <4>1. list'.pc = "place"
        BY <1>2, <2>2, <3>2, ListFields DEF ListOccupant
      <4>2. ~Dead(db, list.node.path)
        BY <1>2, <3>2 DEF Dead, Has, Sound, Disciplined
      <4> QED
        BY <1>1, <4>1, <4>2
    <3> QED
      BY <3>1, <3>2
  <2>3. CASE ListRelocate
    <3>1. list.pc = "relocate" /\ list'.pc = "rekey" /\ list'.at = list.at
      BY <1>2, <2>3, ListFields DEF ListRelocate
    <3> QED
      BY <1>1, <3>1 DEF Steadfast, ListSpares, Behind
  <2>4. CASE ListPlace
    <3>1. list.pc \in {"place", "redo"} /\ list'.pc = "store"
      BY <1>2, <2>4, ListFields DEF ListPlace
    <3> QED
      BY <1>1, <3>1 DEF Steadfast, ListSpares
  <2> QED
    BY <2>1, <2>2, <2>3, <2>4
<1>5. ListSpares' /\ Fetched /\ list'.ids = list.ids
  BY <1>1, <1>2, <1>3, <1>4, ListStays
<1> QED
  BY <1>1, <1>5, ListWalks

\* The local side of a conflict forgets its item: iCloud has changed it since,
\* or it was no pending delete.
LEMMA DeletesListDetach ==
    ASSUME Calmly, Steadfast, ~MakesWay, ListDetach
    PROVE  Steadfast'
<1>0. PICK old, new : old = list.at /\ new = list.to
  OBVIOUS
<1>1. /\ UNCHANGED <<cloud, lastId>> /\ UNCHANGED <<user, up, unlinked>>
      /\ list.pc = "detach"
      /\ db' = QueueConflictCopies(DetachSubtreeAsConflict(db, old, new), new)
  BY <1>0 DEF ListDetach
<1>2. /\ list.sweep = {} /\ Sound(db) /\ IInv /\ AllTold(db)
      /\ old \in Top /\ new \in Top /\ Has(db, old) /\ ~Has(db, new) /\ new \in ConflictPath
      /\ list.then # "none"
  BY <1>0, <1>1
     DEF Calmly, Paired, ListSees, IInv, DbInv, ListInv, Steadfast
<1>3. /\ list'.items = list.items /\ list'.ids = list.ids /\ list'.node = list.node
      /\ list'.sweep = {} /\ list'.pc = list.then
  BY <1>2, ListFields DEF ListDetach
<1>4. list.then \in {"occupant", "place"}
  BY <1>2 DEF IInv, ListInv, ListState
<1>5. Dead(db, old) => Behind(db.rows[old])
  BY <1>0, <1>1, <1>4 DEF MakesWay, Steadfast, ListSpares
<1>6. Outcome(db, db', {old, new}) /\ ~Has(db', old)
  <2> DEFINE after == DetachSubtreeAsConflict(db, old, new)
  <2>1. Outcome(db, after, {old, new}) /\ ~Has(after, old)
    BY <1>2, <1>5, DetachOutcome
  <2>2. db'.rows = after.rows
    BY <1>1, <1>2 DEF QueueConflictCopies, DetachSubtreeAsConflict, Sound, StoreType
  <2> HIDE DEF after
  <2> QED
    BY <2>1, <2>2, SameOutcome DEF Has
<1>7. list'.pc = "place" => ~Dead(db', list.node.path)
  BY <1>0, <1>1, <1>3, <1>6 DEF Steadfast, ListSpares, Dead
<1>8. ListSpares' /\ Fetched /\ list'.ids = list.ids
  BY <1>1, <1>2, <1>3, <1>4, <1>7, ListStays
<1>9. AllTold(db)'
  BY <1>1, <1>6, <1>8, ToldWith DEF Outcome
<1>10. {old, new} \subseteq ListHolds
  BY <1>0, <1>1 DEF ListHolds
<1>11. \A p \in Top : p \in {old, new} /\ Live(db', p) => p \notin GravePath
  BY <1>2, <1>6, ConflictNames DEF Live
<1>12. UNCHANGED <<cloud, lastId, user, up, unlinked>>
  BY <1>1
<1> QED
  BY <1>6, <1>8, <1>9, <1>10, <1>11, <1>12, ListGoes DEF Outcome

LEMMA DeletesListRekey ==
    ASSUME Calmly, Steadfast, ListRekey
    PROVE  Steadfast'
<1>0. PICK old, new, g : old = list.at /\ new = list.node.path /\ g = Pick(FreeGraves)
  OBVIOUS
<1>1. /\ UNCHANGED <<cloud, lastId>> /\ UNCHANGED <<user, up, unlinked>>
      /\ list.pc = "rekey"
      /\ db' = RenameTree(db, old, new, FALSE, TRUE, [q \in {new} |-> g])
  BY <1>0 DEF ListRekey
<1>2. /\ list.sweep = {} /\ Sound(db) /\ IInv /\ AllTold(db)
      /\ old \in Top /\ new \in Top /\ old # new /\ Live(db, old) /\ Behind(db.rows[old])
      /\ new \notin GravePath
  BY <1>0, <1>1, SMTT(20)
     DEF Calmly, Paired, ListSees, Known, IInv, DbInv, ListInv, ItemNode, Steadfast, ListSpares
<1>3. g \in GravePath /\ g \in Top /\ ~Has(db, g)
  <2>1. g \in FreeGraves
    BY <1>0, Picked DEF ListRekey
  <2> QED
    BY <2>1, Names DEF FreeGraves, GravePath, Has
<1>4. Outcome(db, db', {old, new}) /\ ~Has(db', old) /\ Live(db', new)
  <2>1. PICK grave : grave = [r \in {new} |-> g]
    BY Zenon
  <2>2. grave[new] = g
    BY <2>1
  <2>3. db' = RenameTree(db, old, new, FALSE, TRUE, grave)
    BY <1>1, <2>1
  <2> QED
    BY ZenonT(60), <1>2, <1>3, <2>2, <2>3, RenameOutcome
<1>5. /\ list'.items = list.items /\ list'.ids = list.ids /\ list'.node = list.node
      /\ list'.sweep = {} /\ list'.pc \in {"store", "redo"}
  <2> DEFINE row == db'.rows[list.node.path]
             read == IF Has(db', list.node.path)
                     THEN [list EXCEPT !.stamp = row.stamp, !.hydrated = row.hydrated,
                                       !.recent = row.recent]
                     ELSE list
  <2>1. list' = [read EXCEPT !.pc = "store"] \/ list' = [read EXCEPT !.pc = "redo"]
    BY Zenon DEF ListRekey
  <2>2. /\ read.items = list.items /\ read.ids = list.ids /\ read.node = list.node
        /\ read.sweep = list.sweep /\ DOMAIN read = DOMAIN list
    BY <1>2, ListFields
  <2> HIDE DEF read
  <2> QED
    BY <1>2, <2>1, <2>2, ListFields
<1>6. ~Dead(db', list.node.path)
  BY <1>0, <1>4 DEF Live, Dead
<1>7. ListSpares' /\ Fetched /\ list'.ids = list.ids
  BY <1>1, <1>2, <1>5, <1>6, ListStays, Zenon
<1>8. AllTold(db)'
  BY <1>1, <1>4, <1>7, ToldWith, Zenon DEF Outcome
<1>9. {old, new} \subseteq ListHolds
  BY <1>0, <1>1 DEF ListHolds
<1>10. \A p \in Top : p \in {old, new} /\ Live(db', p) => p \notin GravePath
  BY <1>2, <1>4 DEF Live
<1>11. UNCHANGED <<cloud, lastId, user, up, unlinked>>
  BY <1>1
<1> QED
  BY <1>4, <1>7, <1>8, <1>9, <1>10, <1>11, ListGoes DEF Outcome

\* What is recorded of an item is what was listed of it.
LEMMA DeletesListStore ==
    ASSUME Calmly, Steadfast, ListStore
    PROVE  Steadfast'
<1>0. PICK p, row : /\ p = list.node.path
                    /\ row = [FromRemote(p, list.node) EXCEPT !.hydrated = list.hydrated,
                                                              !.recent = list.recent]
  BY Zenon
<1>1. /\ UNCHANGED <<cloud, lastId>> /\ UNCHANGED <<user, up, unlinked>>
      /\ list.pc = "store" /\ db' = UpsertEntry(db, p, row) /\ list' = ListItems
  BY <1>0 DEF ListStore
<1>2. /\ Sound(db) /\ IInv /\ IInv' /\ AllTold(db) /\ p \in Top /\ p \notin GravePath
      /\ ~Dead(db, p) /\ Past(list.node.id, list.node.etag, p) /\ list.node.id \in list.ids
      /\ list.node \in ItemNode
  BY <1>0, <1>1 DEF Calmly, IInv, DbInv, ListInv, ItemNode, Steadfast, ListSpares, Fetched
<1>3. /\ list'.pc = "items" /\ list'.items = list.items /\ list'.ids = list.ids
      /\ list'.sweep = {} /\ list'.node = NoNode
  BY <1>1 DEF ListItems, ListIdle
<1>4. row.id = list.node.id /\ row.etag = list.node.etag /\ row.synced = p
  BY <1>0, <1>2 DEF FromRemote
<1>5. Told(row)
  BY <1>2, <1>4 DEF Told
<1>6. Outcome(db, db', {p})
  BY <1>1, <1>2, <1>5, UpsertOutcome
<1>7. AllTold(db)'
  BY <1>1, <1>3, <1>6, ToldWith DEF Outcome, Fetched
<1>8. Past(list.node.id, list.node.etag, list.node.path)' /\ list'.node.path \notin GravePath
  BY <1>2, <1>3, NothingInHand DEF Past
<1>9. \A n \in list.items : Past(n.id, n.etag, n.path)' /\ n.path \notin GravePath
                            /\ n.id \in list.ids
  BY <1>1 DEF Steadfast, ListSpares, Past
<1>10. ListSpares'
  BY <1>3, <1>8, <1>9 DEF ListSpares
<1>11. {p} \subseteq ListHolds
  BY <1>0, <1>1 DEF ListHolds
<1>12. UNCHANGED <<cloud, lastId, user, up, unlinked>>
  BY <1>1
<1>13. \A q \in Top : q \in {p} /\ Live(db', q) => q \notin GravePath
  BY <1>2
<1> QED
  BY <1>6, <1>7, <1>10, <1>11, <1>12, <1>13, ListGoes DEF Outcome

\* The sweep leaves out the rows of items that iCloud still has as they are
\* known, but for one that was uploaded since.
LEMMA DeletesListApplied ==
    ASSUME Calmly, Steadfast, ListApplied
    PROVE  Steadfast'
<1>1. /\ UNCHANGED <<db, cloud, lastId, user, up, unlinked>>
      /\ list.pc = "items" /\ list' = Sweeping(Verdicts)
  BY DEF ListApplied
<1>2. Sound(db) /\ IInv /\ IInv' /\ AllTold(db)
  BY DEF Calmly, IInv, DbInv, Steadfast
<1>3. PICK rest : rest = Verdicts
  OBVIOUS
<1>4. ASSUME NEW v \in rest
      PROVE  /\ Has(db, v.path)
             /\ v.verdict = "forget" => db.rows[v.path].id \notin DOMAIN cloud
             /\ v.verdict = "remove" => ~Dead(db, v.path)
  <2>1. CASE CrawlMode = "lazy"
    <3>1. PICK p \in Unlisted : v = [path |-> p, verdict |-> "remove"] /\ ~db.rows[p].dirty
      BY <1>3, <1>4, <2>1 DEF Verdicts
    <3> QED
      BY <1>2, <3>1 DEF Unlisted, Has, Dead, Sound, Disciplined
  <2>2. CASE CrawlMode # "lazy"
    <3>1. PICK p \in Unlisted :
             v = [path |-> p, verdict |-> IF db.rows[p].tomb THEN "forget"
                                          ELSE IF db.rows[p].dirty THEN "renew" ELSE "remove"]
      BY <1>3, <1>4, <2>2 DEF Verdicts
    <3>2. /\ p \in DOMAIN db.rows /\ v.path = p /\ db.rows[p].id \notin {NoId} \union list.ids
          /\ v.verdict = "forget" => db.rows[p].tomb
          /\ v.verdict = "remove" => ~db.rows[p].tomb
      BY <3>1 DEF Unlisted
    <3>3. ASSUME db.rows[p].tomb, db.rows[p].id \in DOMAIN cloud  PROVE FALSE
      <4>1. db.rows[p].dirty
        BY <1>2, <3>2, <3>3 DEF Sound, Disciplined
      <4>2. CrawlMode = "full" /\ Fetched
        BY <1>1, <2>2, InstanceAssumption DEF Fetched
      <4>3. db.rows[p].recent
        BY <1>2, <3>2, <3>3, <4>2 DEF AllTold, Told
      <4>4. Outdates
        BY <3>2, <4>1, <4>2, <4>3 DEF Outdates
      <4> QED
        BY <4>4 DEF Calmly, Undisturbed, Overlap
    <3> QED
      BY <3>2, <3>3 DEF Has, Dead
  <2> QED
    BY <2>1, <2>2
<1>5. \A u, v \in rest : u.path = v.path => u = v
  BY <1>3 DEF Verdicts
<1>6. ListSpares' /\ ~Fetched'
  <2>1. list' = Sweeping(rest)
    BY <1>1, <1>3
  <2>2. \A v \in rest : /\ Has(db', v.path)
                        /\ v.verdict = "forget" => db'.rows[v.path].id \notin DOMAIN cloud'
                        /\ v.verdict = "remove" => ~Dead(db', v.path)
    BY <1>1, <1>4
  <2> QED
    BY <1>2, <1>5, <2>1, <2>2, SweepSpares
<1> QED
  BY <1>1, <1>6, ListWalks

\* The rest of a sweep stands when one of its rows is done with.
LEMMA RestStands ==
    ASSUME Calmly, Steadfast, UNCHANGED <<cloud, lastId>>, NEW p, Faces(db, db', {p}),
           NEW rest, rest \subseteq list.sweep, \A v \in rest : v.path # p,
           list' = Sweeping(rest)
    PROVE  ListSpares' /\ ~Fetched'
<1>1. list.sweep \subseteq [path : Top, verdict : {"forget", "renew", "remove"}]
  BY DEF Calmly, IInv, ListInv, ListState
<1>2. ASSUME NEW v \in rest
      PROVE  /\ Has(db', v.path)
             /\ v.verdict = "forget" => db'.rows[v.path].id \notin DOMAIN cloud'
             /\ v.verdict = "remove" => ~Dead(db', v.path)
  <2>1. v \in list.sweep /\ v.path \in Top \ {p}
    BY <1>1
  <2>2. /\ Has(db, v.path)
        /\ v.verdict = "forget" => db.rows[v.path].id \notin DOMAIN cloud
        /\ v.verdict = "remove" => ~Dead(db, v.path)
    BY <2>1 DEF Steadfast, ListSpares
  <2>3. Has(db', v.path) /\ SameFace(db'.rows[v.path], db.rows[v.path])
    BY <2>1, <2>2 DEF Faces
  <2> QED
    BY <2>2, <2>3 DEF SameFace, Dead
<1>3. \A u, v \in rest : u.path = v.path => u = v
  BY DEF Steadfast, ListSpares
<1> QED
  BY <1>2, <1>3, SweepSpares DEF Calmly

\* A row is forgotten when iCloud has no such item, and a local change kept when
\* it is no pending delete.
LEMMA DeletesListSweep ==
    ASSUME Calmly, Steadfast, ListSweep
    PROVE  Steadfast'
<1>1. UNCHANGED <<cloud, lastId>> /\ UNCHANGED <<user, up, unlinked>> /\ list.pc = "sweep"
  BY DEF ListSweep
<1>2. Sound(db) /\ IInv /\ IInv' /\ AllTold(db)
  BY DEF Calmly, IInv, DbInv, Steadfast
<1>3. PICK v \in list.sweep :
         \/ /\ v.verdict = "forget" /\ db' = RemoveSubtree(db, v.path)
            /\ list' = Sweeping(list.sweep \ {v})
         \/ /\ v.verdict = "renew" /\ db' = ClearRemoteIdentity(db, v.path)
            /\ list' = Sweeping(list.sweep \ {v})
         \/ /\ v.verdict = "remove" /\ db' = db
            /\ list' = [list EXCEPT !.pc = "unrow", !.at = v.path]
  BY Zenon DEF ListSweep
<1>4. PICK p, rest : p = v.path /\ rest = list.sweep \ {v}
  BY Zenon
<1>5. /\ v = [path |-> p, verdict |-> v.verdict] /\ p \in Top
      /\ \A u \in rest : u.path # p
      /\ v.verdict = "forget" => db.rows[p].id \notin DOMAIN cloud
      /\ v.verdict = "renew" => Live(db, p)
  <2>1. v \in [path : Top, verdict : {"forget", "renew", "remove"}]
    BY <1>2 DEF IInv, ListInv, ListState
  <2>2. \A u \in rest : u.path # p
    BY <1>3, <1>4 DEF Steadfast, ListSpares
  <2>3. /\ v.verdict = "forget" => db.rows[p].id \notin DOMAIN cloud
        /\ v.verdict = "renew" => Live(db, p)
    BY <1>3, <1>4 DEF Calmly, Paired, ListSees, Steadfast, ListSpares
  <2> QED
    BY <1>4, <2>1, <2>2, <2>3
<1>6. ASSUME Outcome(db, db', {p}), list' = Sweeping(rest), Live(db', p) => p \notin GravePath
      PROVE  Steadfast'
  <2>1. ListSpares' /\ ~Fetched'
    BY <1>1, <1>4, <1>5, <1>6, RestStands, Zenon DEF Outcome
  <2>2. AllTold(db)'
    BY <1>1, <1>6, <2>1, ToldWith DEF Outcome
  <2>3. {p} \subseteq ListHolds
    BY <1>3, <1>4 DEF ListHolds
  <2>4. UNCHANGED <<cloud, lastId, user, up, unlinked>>
    BY <1>1
  <2>5. \A q \in Top : q \in {p} /\ Live(db', q) => q \notin GravePath
    BY <1>6
  <2> QED
    BY <1>6, <2>1, <2>2, <2>3, <2>4, <2>5, ListGoes DEF Outcome
<1>7. CASE /\ v.verdict = "forget" /\ db' = RemoveSubtree(db, v.path)
           /\ list' = Sweeping(list.sweep \ {v})
  <2>1. Outcome(db, db', {p})
    BY <1>2, <1>4, <1>5, <1>7, RemoveOutcome DEF Behind
  <2>2. ~Has(db', p)
    BY <1>4, <1>5, <1>7, TopPaths DEF RemoveSubtree, Without, Subtree, Has
  <2> QED
    BY <1>4, <1>6, <1>7, <2>1, <2>2 DEF Live
<1>8. CASE /\ v.verdict = "renew" /\ db' = ClearRemoteIdentity(db, v.path)
           /\ list' = Sweeping(list.sweep \ {v})
  <2>1. PICK row : row = [db.rows[p] EXCEPT !.id = NoId, !.etag = 0, !.synced = NoPath,
                                            !.dirty = TRUE, !.tomb = FALSE]
    OBVIOUS
  <2>2. db.rows[p] \in Entry /\ Live(db, p)
    BY <1>2, <1>5, <1>8 DEF Sound, StoreType, Live, Has
  <2>3. Told(row)
    BY <1>2, <2>1, <2>2, LocalTold, Zenon DEF Entry
  <2>4. Outcome(db, db', {p})
    BY <1>2, <1>4, <1>5, <1>8, <2>1, <2>2, <2>3, UpdateOutcome DEF ClearRemoteIdentity, Live
  <2>5. p \notin GravePath
    BY <2>2 DEF Steadfast, Clear, Live
  <2> QED
    BY <1>4, <1>6, <1>8, <2>4, <2>5
<1>9. CASE /\ v.verdict = "remove" /\ db' = db
           /\ list' = [list EXCEPT !.pc = "unrow", !.at = v.path]
  <2>1. /\ list'.pc = "unrow" /\ list'.at = p /\ list'.sweep = list.sweep
        /\ list'.items = list.items /\ list'.ids = list.ids /\ list'.node = list.node
    BY <1>2, <1>4, <1>9, ListFields
  <2>2. [path |-> list.at, verdict |-> "remove"]' \in list.sweep
    BY <1>5, <1>9, <2>1
  <2>3. /\ \A n \in list.items \union {list.node} :
              Past(n.id, n.etag, n.path)' /\ n.path \notin GravePath
        /\ \A n \in list.items : n.id \in list.ids
        /\ \A u \in list.sweep :
              /\ Has(db', u.path)
              /\ u.verdict = "forget" => db'.rows[u.path].id \notin DOMAIN cloud'
              /\ u.verdict = "remove" => ~Dead(db', u.path)
        /\ \A u, w \in list.sweep : u.path = w.path => u = w
    BY <1>1, <1>9 DEF Steadfast, ListSpares, Past
  <2>4. ListSpares'
    BY <2>1, <2>2, <2>3 DEF ListSpares, Fetched
  <2>5. ~Fetched'
    BY <2>1 DEF Fetched
  <2> QED
    BY <1>1, <1>9, <2>4, <2>5, ListWalks
<1> QED
  BY <1>3, <1>7, <1>8, <1>9

LEMMA DeletesListUnrow ==
    ASSUME Calmly, Steadfast, ListUnrow
    PROVE  Steadfast'
<1>0. PICK p, rest : p = list.at /\ rest = {v \in list.sweep : v.path # list.at}
  BY Zenon
<1>1. /\ UNCHANGED <<cloud, lastId>> /\ UNCHANGED <<user, up, unlinked>>
      /\ list.pc = "unrow" /\ db' = RemoveSubtree(db, p) /\ list' = Sweeping(rest)
  BY <1>0 DEF ListUnrow
<1>2. /\ Sound(db) /\ IInv /\ IInv' /\ AllTold(db) /\ p \in Top /\ ~Dead(db, p)
  BY <1>0, <1>1 DEF Calmly, IInv, DbInv, ListInv, Steadfast, ListSpares
<1>3. Outcome(db, db', {p}) /\ ~Has(db', p)
  BY <1>1, <1>2, RemoveOutcome, TopPaths, Zenon DEF RemoveSubtree, Without, Subtree, Has
<1>4. ListSpares' /\ ~Fetched'
  <2>1. rest \subseteq list.sweep /\ \A v \in rest : v.path # p
    BY <1>0
  <2>2. UNCHANGED <<cloud, lastId>> /\ list' = Sweeping(rest) /\ Faces(db, db', {p})
    BY <1>1, <1>3 DEF Outcome
  <2> QED
    BY <2>1, <2>2, RestStands, Zenon
<1>5. AllTold(db)'
  BY <1>1, <1>3, <1>4, ToldWith DEF Outcome
<1>6. {p} \subseteq ListHolds
  BY <1>0, <1>1 DEF ListHolds
<1>7. UNCHANGED <<cloud, lastId, user, up, unlinked>>
  BY <1>1
<1>8. \A q \in Top : q \in {p} /\ Live(db', q) => q \notin GravePath
  BY <1>3 DEF Live
<1> QED
  BY <1>3, <1>4, <1>5, <1>6, <1>7, <1>8, ListGoes DEF Outcome
-----------------------------------------------------------------------------
LEMMA DeletesUser ==
    ASSUME Calmly, Steadfast, UserBegin \/ UserContinues
    PROVE  Steadfast'
BY DeletesUserBegin, DeletesUserMirror, DeletesUserCreates, DeletesUserRecords,
   DeletesUserForgets, DeletesUserRenames, DeletesUserRecordsTime, DeletesUserQueues
   DEF UserContinues

LEMMA DeletesUp ==
    ASSUME Calmly, Steadfast, ~Recorded, Uploader
    PROVE  Steadfast'
BY DeletesUpStart, DeletesUpTombstone, DeletesUpForget, DeletesUpFile, DeletesUpMissing,
   DeletesUpCalls, DeletesUpMeta, DeletesUpAdopt, DeletesUpClean, DeletesUpEnd DEF Uploader

LEMMA DeletesList ==
    ASSUME Calmly, Steadfast, ~MakesWay, ~Overtaken, Lister
    PROVE  Steadfast'
BY DeletesListStart, DeletesListItem, DeletesListMirror, DeletesListDetach, DeletesListRekey,
   DeletesListStore, DeletesListApplied, DeletesListSweep, DeletesListUnrow DEF Lister

LEMMA DeletesInductive ==
    IInv /\ OInv /\ DInv /\ ~MakesWay /\ ~Overtaken /\ ~Recorded /\ [Next]_vars => DInv'
<1> SUFFICES ASSUME IInv, OInv, DInv, ~MakesWay, ~Overtaken, ~Recorded, [Next]_vars, Undisturbed'
             PROVE  Steadfast'
  BY DEF DInv
<1>0. Calmly /\ Steadfast
  BY Remembered, Inductive, PairsInductive DEF Calmly, OInv, DInv
<1>1. CASE UserBegin \/ UserContinues
  BY <1>0, <1>1, DeletesUser
<1>2. CASE Uploader
  BY <1>0, <1>2, DeletesUp
<1>3. CASE Lister
  BY <1>0, <1>3, DeletesList
<1>4. CASE Downloader
  BY <1>0, <1>4, DeletesDl
<1>5. CASE Restart
  BY <1>0, <1>5, DeletesRestart
<1>6. CASE Elsewhere \/ UNCHANGED vars
  BY <1>0, <1>6, DeletesElsewhere
<1> QED
  BY <1>1, <1>2, <1>3, <1>4, <1>5, <1>6 DEF Next

\* At the start every row is that of its item, and nothing is deleted.
LEMMA DeletesInitially == Init => DInv
<1> SUFFICES ASSUME Init  PROVE Steadfast
  BY DEF DInv
<1>1. /\ unlinked = {} /\ user = UserIdle /\ up = UpIdle /\ list = ListIdle
  BY DEF Init
<1>2. lastId = Len(Seed) /\ IInv
  BY Initially, Zenon DEF Init
<1> DEFINE seeded == {Join(Root, Seed[i]) : i \in DOMAIN Seed}
           idAt(p) == CHOOSE i \in DOMAIN Seed : Join(Root, Seed[i]) = p
           item(i) == [path |-> Join(Root, Seed[i]), kind |-> "file", data |-> i,
                       stamp |-> i, etag |-> 1]
           row(p, down) == [FromRemote(p, Node(cloud, idAt(p))) EXCEPT !.hydrated = p \in down]
<1>3. PICK downloaded \in SUBSET seeded :
        /\ cloud = [i \in DOMAIN Seed |-> item(i)]
        /\ db = [rows |-> [p \in seeded |-> row(p, downloaded)], ops |-> {}]
  BY Zenon DEF Init
<1>4. /\ DOMAIN Seed = 1..Len(Seed) /\ Len(Seed) \in Nat
      /\ \A i \in DOMAIN Seed : i \in Nat /\ i <= lastId /\ Seed[i] \in Base
  <2>1. DOMAIN Seed = 1..Len(Seed) /\ Len(Seed) \in Nat /\ \A i \in DOMAIN Seed : Seed[i] \in Base
    BY NameAssumption, InstanceAssumption
  <2> QED
    BY <1>2, <2>1
<1>5. \A p \in seeded : idAt(p) \in DOMAIN Seed /\ Join(Root, Seed[idAt(p)]) = p
  OBVIOUS
<1>6. \A p \in seeded : p \notin GravePath
  BY <1>4, Graves DEF UserPath
<1>7. /\ DOMAIN cloud = DOMAIN Seed
      /\ \A i \in DOMAIN Seed : /\ cloud[i].path = Join(Root, Seed[i]) /\ cloud[i].etag = 1
                                /\ cloud[i].path \in seeded
  BY <1>3
<1>8. DOMAIN db.rows = seeded
  BY <1>3
<1>9. ASSUME NEW p \in seeded
      PROVE  /\ db.rows[p].id = idAt(p) /\ db.rows[p].etag = 1 /\ db.rows[p].synced = p
             /\ ~db.rows[p].tomb
  <2>1. /\ row(p, downloaded).id = idAt(p) /\ row(p, downloaded).etag = 1
        /\ row(p, downloaded).synced = p /\ ~row(p, downloaded).tomb
    BY <1>5, <1>7 DEF FromRemote, Node
  <2>2. db.rows[p] = row(p, downloaded)
    BY <1>3
  <2> QED
    BY <2>1, <2>2
<1> HIDE DEF seeded, row, idAt, item
<1>10. ~Fetched
  BY <1>1 DEF Fetched, ListIdle
<1>11. AllTold(db)
  BY <1>4, <1>5, <1>7, <1>8, <1>9, <1>10 DEF AllTold, Told, Past
<1>12. Past(NoNode.id, NoNode.etag, NoNode.path) /\ NoNode.path \notin GravePath
  BY <1>2, Graves DEF NoNode, Past, IInv, RestInv, CloudInv, CloudOK, NoId
<1>13. ListSpares
  BY <1>1, <1>10, <1>12 DEF ListSpares, ListIdle
<1>14. UserSpares /\ UpSpares /\ Sticks
  BY <1>1, Graves DEF UserSpares, UpSpares, Sticks, UserIdle, UpIdle
<1>15. Clear(db) /\ CloudClear
  BY <1>4, <1>6, <1>7, <1>8 DEF Clear, CloudClear, Has
<1> QED
  BY <1>11, <1>13, <1>14, <1>15 DEF Steadfast

LEMMA DeletesStick == DInv => DeleteSticks
<1> SUFFICES ASSUME Sticks, NEW d \in unlinked, d.id \in DOMAIN cloud, cloud[d.id].etag = d.etag
             PROVE  \E p \in RowsWithId(db, d.id) : db.rows[p].tomb
  BY DEF DInv, Steadfast, DeleteSticks
<1>1. PICK p \in Top : Bears(db, p, d)
  BY DEF Sticks
<1> QED
  BY <1>1 DEF Bears, Dead, Has, RowsWithId

\* Pending deletes hold, for any number of files, calls, passes, listings, downloads,
\* crashes, changes elsewhere and failed calls: as long as no two actors met on a
\* path, an item that the user deleted, and that iCloud has as it was, has its
\* pending delete in the database until an upload pass deletes it.  Three steps are
\* set aside: a listing that brings a new item to the path of the pending delete
\* (remote.rs:154-157, `MakesWay'); a listing that is older than what an upload has
\* recorded of its item (remote.rs:147, upload.rs:206, `Overtaken'); and one that
\* moves a row from or to the path of an upload that is being read back
\* (remote.rs:197-206, `Recorded').
THEOREM OnlyMadeWay == Spec /\ [](~MakesWay /\ ~Overtaken /\ ~Recorded) => []DeleteSticks
<1>1. Init => IInv /\ OInv /\ DInv
  BY Initially, PairsInitially, DeletesInitially
<1>2. IInv /\ OInv /\ DInv /\ ~MakesWay /\ ~Overtaken /\ ~Recorded /\ [Next]_vars
        => IInv' /\ OInv' /\ DInv'
  BY Inductive, PairsInductive, DeletesInductive
<1>3. DInv => DeleteSticks
  BY DeletesStick
<1> QED
  BY <1>1, <1>2, <1>3, PTL DEF Spec
-----------------------------------------------------------------------------
(***************************************************************************)
(* Zeros.  A placeholder is a file of zeros, and only `hydrated' tells it  *)
(* from content: the pass sends whatever is at a path whose row is dirty   *)
(* and hydrated, or that iCloud does not know.  So the invariant is that   *)
(* no live row takes zeros for content, but where somebody is about to     *)
(* write the row; that a live row has a file, or a restart would make one  *)
(* of zeros; and that a row whose identity is gone has its content here.   *)
(***************************************************************************)
Blank(p) == p \in DOMAIN disk /\ disk[p].data = Hole

\* The row at p is alive and says that the content is here.
Held(st, p) == Live(st, p) /\ st.rows[p].hydrated

\* A row of a file, which has its content if iCloud does not have it.
Proper(row) == row.kind = "file" /\ (row.id = NoId => row.hydrated)
Sane(st) == \A p \in DOMAIN st.rows : Proper(st.rows[p])
Whole(c) == \A i \in DOMAIN c : c[i].data # Hole /\ c[i].kind = "file"

Honest(p) == Blank(p) /\ Held(db, p) => UserBrings(p) \/ ListBrings(p)
Filed(p) == Live(db, p) => HasFile(p) \/ UserTakes(p) \/ ListTakes(p)
Filled == \A p \in Top : Honest(p) /\ Filed(p)

\* What each actor is going to record as content, or to send, is not zeros.
UserFills ==
    /\ user.pc = "mirror" /\ user.op = "create" => ~Blank(user.path)
    /\ user.pc = "record" /\ user.op \in {"write", "create"} => ~Blank(user.path)
    /\ user.pc = "record" /\ user.op = "rename" /\ Held(db, user.path) => ~Blank(user.to)
UpFills ==
    up.pc \in {"replace", "send"} \/ (up.pc = "move" /\ up.changed) => ~Blank(up.path)
ListFills ==
    /\ \A n \in list.items \union {list.node} : n.kind = "file"
    /\ list.pc = "rekey" /\ Held(db, list.at) => ~Blank(list.node.path)
    /\ list.pc = "detach" /\ Held(db, list.at) => ~Blank(list.to)
    /\ list.pc = "detach" /\ Live(db, list.at) => HasFile(list.to)
    /\ list.pc = "store" /\ list.hydrated => ~Blank(list.node.path)
DlFills ==
    /\ dl.pc \in {"check", "commit"} => dl.data # Hole
    /\ dl.pc = "mark" => ~Blank(dl.path)

Unblank == Sane(db) /\ Whole(cloud) /\ Filled /\ UserFills /\ UpFills /\ ListFills /\ DlFills
ZInv == Undisturbed => Unblank

\* A listing takes the identity of a row whose content is not here: of one that was
\* never downloaded, or of a pending delete.
Strips ==
    \/ list.pc = "detach" /\ ~Held(db, list.at)
    \/ list.pc = "sweep" /\ \E v \in list.sweep : v.verdict = "renew" /\ ~Held(db, v.path)
-----------------------------------------------------------------------------
\* What the operators of SyncState preserve.
LEMMA UpdateSane ==
    ASSUME NEW st, Sound(st), Sane(st), NEW p, NEW row, Has(st, p) => Proper(row)
    PROVE  /\ Sane(UpdateRow(st, p, row))
           /\ Held(UpdateRow(st, p, row), p) <=> Has(st, p) /\ ~row.tomb /\ row.hydrated
<1> DEFINE new == [q \in DOMAIN st.rows |-> IF q = p THEN row ELSE st.rows[q]]
<1>1. UpdateRow(st, p, row).rows = new
  BY DEF UpdateRow, Sound, StoreType
<1> QED
  BY <1>1 DEF Sane, Held, Live, Has

\* A row that is updated and stays dead or alive, and as full as it was.
LEMMA UpdateStill ==
    ASSUME NEW st, Sound(st), NEW p, NEW row,
           Has(st, p) => row.tomb = st.rows[p].tomb /\ row.hydrated = st.rows[p].hydrated
    PROVE  \A q : /\ Live(UpdateRow(st, p, row), q) <=> Live(st, q)
                  /\ Held(UpdateRow(st, p, row), q) <=> Held(st, q)
<1> DEFINE new == [q \in DOMAIN st.rows |-> IF q = p THEN row ELSE st.rows[q]]
<1>1. UpdateRow(st, p, row).rows = new
  BY DEF UpdateRow, Sound, StoreType
<1> QED
  BY <1>1 DEF Held, Live, Has

LEMMA UpsertSane ==
    ASSUME NEW st, Sound(st), Sane(st), NEW p, NEW row, Proper(row)
    PROVE  /\ Sane(UpsertEntry(st, p, row))
           /\ Held(UpsertEntry(st, p, row), p) <=> ~row.tomb /\ row.hydrated
<1> DEFINE new == [q \in DOMAIN st.rows \union {p} |-> IF q = p THEN row ELSE st.rows[q]]
<1>1. UpsertEntry(st, p, row).rows = new
  BY DEF UpsertEntry, Sound, StoreType
<1> QED
  BY <1>1 DEF Sane, Held, Live, Has

LEMMA RemoveSane ==
    ASSUME NEW st, Sane(st), NEW p
    PROVE  Sane(RemoveEntry(st, p)) /\ Sane(RemoveSubtree(st, p))
BY DEF Sane, RemoveEntry, RemoveSubtree, Without

LEMMA RekeySane ==
    ASSUME NEW rows, NEW key, \A q \in DOMAIN key : Proper(rows[q])
    PROVE  \A p \in DOMAIN Rekey(rows, key) : Proper(Rekey(rows, key)[p])
BY DEF Rekey

LEMMA BurySane ==
    ASSUME NEW st, Sound(st), Sane(st), NEW p, NEW grave
    PROVE  Sane(BuryTombstone(st, p, grave))
<1>1. CASE ~(Has(st, p) /\ st.rows[p].tomb)
  BY <1>1 DEF BuryTombstone
<1>2. CASE Has(st, p) /\ st.rows[p].tomb
  <2> DEFINE rows == UpdateRow(st, p, Buried(st.rows[p], p)).rows
             key == [q \in DOMAIN st.rows |-> IF q = p THEN grave ELSE q]
  <2>1. rows = [q \in DOMAIN st.rows |-> IF q = p THEN Buried(st.rows[p], p) ELSE st.rows[q]]
    BY DEF UpdateRow, Sound, StoreType
  <2>2. Proper(Buried(st.rows[p], p))
    BY <1>2 DEF Buried, Proper, Sane, Has, Sound, StoreType, Entry
  <2>3. ASSUME NEW q \in DOMAIN key  PROVE Proper(rows[q])
    BY <2>1, <2>2, <2>3 DEF Sane
  <2>4. BuryTombstone(st, p, grave).rows = Rekey(rows, key)
    BY <1>2 DEF BuryTombstone, Sound, StoreType
  <2> HIDE DEF rows, key
  <2> QED
    BY <2>3, <2>4, RekeySane DEF Sane
<1> QED
  BY <1>1, <1>2

\* A row that moves is as full as it was.
LEMMA RenameSane ==
    ASSUME NEW st, Sound(st), Sane(st), NEW old \in Top, NEW new \in Top, old # new,
           Live(st, old), NEW rootDirty, NEW updateSynced, NEW grave, ~Has(st, grave[new])
    PROVE  LET after == RenameTree(st, old, new, rootDirty, updateSynced, grave)
           IN  Sane(after) /\ (Held(after, new) => Held(st, old))
<1> DEFINE moving    == Subtree(st, old)
           displaced == Subtree(st, new)
           buried    == {q \in displaced : st.rows[q].id # NoId}
           key == [q \in (DOMAIN st.rows \ displaced) \union buried |->
                       IF q \in buried THEN grave[q]
                       ELSE IF q \in moving THEN Rebase(q, old, new) ELSE q]
           moved(r, q) ==
               [r EXCEPT !.dirty = @ \/ (rootDirty /\ q = old),
                         !.synced = IF updateSynced /\ IsWithin(@, old)
                                    THEN Rebase(@, old, new) ELSE @]
           row == [q \in DOMAIN key |->
                       IF q \in buried THEN Buried(st.rows[q], q)
                       ELSE IF q \in moving THEN moved(st.rows[q], q) ELSE st.rows[q]]
           result == RenameTree(st, old, new, rootDirty, updateSynced, grave)
<1>1. old \in DOMAIN st.rows /\ grave[new] \notin DOMAIN st.rows /\ DOMAIN st.rows \subseteq Top
  BY DEF Live, Has, Sound
<1>2. moving = {old} /\ displaced = {new} \intersect DOMAIN st.rows
  BY <1>1, TopPaths DEF Subtree
<1>3. result.rows = Rekey(row, key)
  BY <1>2, Zenon DEF RenameTree
<1>4. /\ DOMAIN key = (DOMAIN st.rows \ {new}) \union buried /\ buried \subseteq {new}
      /\ buried \subseteq DOMAIN st.rows
  BY <1>2
<1>5. \A q \in DOMAIN key :
        IF q \in buried THEN key[q] = grave[q] /\ row[q] = Buried(st.rows[q], q)
        ELSE IF q \in moving THEN row[q] = moved(st.rows[q], q)
        ELSE key[q] = q /\ row[q] = st.rows[q]
  BY Zenon
<1>6. ASSUME NEW q, st.rows[q] \in Entry
      PROVE  /\ moved(st.rows[q], q).kind = st.rows[q].kind
             /\ moved(st.rows[q], q).id = st.rows[q].id
             /\ moved(st.rows[q], q).hydrated = st.rows[q].hydrated
  BY <1>6 DEF Entry
<1> HIDE DEF moving, displaced, buried, key, moved, row, result
<1>7. ASSUME NEW q \in DOMAIN key
      PROVE  /\ Proper(row[q])
             /\ key[q] = new => q = old /\ row[q].hydrated = st.rows[old].hydrated
  <2>1. q \in DOMAIN st.rows /\ st.rows[q] \in Entry /\ Proper(st.rows[q])
    BY <1>4, <1>7 DEF Sane, Sound, StoreType
  <2>2. CASE q \in buried
    <3>1. q = new /\ key[q] = grave[new] /\ row[q] = Buried(st.rows[q], q)
      BY <1>4, <1>5, <1>7, <2>2
    <3>2. /\ row[q].kind = st.rows[q].kind /\ row[q].id = st.rows[q].id
          /\ row[q].hydrated = st.rows[q].hydrated
      BY <2>1, <3>1 DEF Buried, Entry
    <3>3. key[q] # new
      BY <1>1, <2>1, <3>1
    <3> QED
      BY <2>1, <3>2, <3>3 DEF Proper
  <2>3. CASE q \notin buried /\ q = old
    <3>1. row[q] = moved(st.rows[q], q)
      BY <1>2, <1>5, <1>7, <2>3
    <3> QED
      BY <1>6, <2>1, <2>3, <3>1 DEF Proper
  <2>4. CASE q \notin buried /\ q # old
    <3>1. row[q] = st.rows[q] /\ key[q] = q /\ q # new
      BY <1>2, <1>4, <1>5, <1>7, <2>4
    <3> QED
      BY <2>1, <3>1
  <2> QED
    BY <2>2, <2>3, <2>4
<1>8. Sane(result)
  BY <1>3, <1>7, RekeySane DEF Sane
<1>9. ASSUME Held(result, new)  PROVE Held(st, old)
  <2>1. PICK q \in DOMAIN key : key[q] = new /\ result.rows[new] = row[q]
    BY <1>3, <1>9, ZenonT(40) DEF Held, Live, Has, Rekey
  <2> QED
    BY <1>7, <1>9, <2>1 DEF Held
<1> QED
  BY <1>8, <1>9 DEF result

\* A row that loses its identity keeps its content: it must have it.
LEMMA DetachSane ==
    ASSUME NEW st, Sound(st), Sane(st), NEW old \in Top, NEW new, Full(st, old)
    PROVE  Sane(DetachSubtreeAsConflict(st, old, new))
<1> DEFINE detached(r) == [r EXCEPT !.id = NoId, !.etag = 0, !.synced = NoPath,
                                    !.dirty = TRUE, !.tomb = FALSE]
           moving == Subtree(st, old)
           row == [q \in DOMAIN st.rows |->
                      IF q \in moving THEN detached(st.rows[q]) ELSE st.rows[q]]
           key == [q \in DOMAIN st.rows |->
                      IF q \in moving THEN Rebase(q, old, new) ELSE q]
<1>1. moving \subseteq {old}
  BY TopPaths DEF Subtree, Sound
<1>2. DetachSubtreeAsConflict(st, old, new).rows = Rekey(row, key)
  BY DEF DetachSubtreeAsConflict, Sound, StoreType
<1>3. ASSUME NEW q \in DOMAIN key  PROVE Proper(row[q])
  <2>1. q \in DOMAIN st.rows /\ st.rows[q] \in Entry /\ Proper(st.rows[q])
    BY <1>3 DEF Sane, Sound, StoreType
  <2>2. CASE q \in moving
    <3>1. q = old /\ row[q] = detached(st.rows[q])
      BY <1>1, <2>1, <2>2, Zenon
    <3>2. detached(st.rows[q]).kind = st.rows[q].kind
          /\ detached(st.rows[q]).hydrated = st.rows[q].hydrated
      BY <2>1 DEF Entry
    <3> QED
      BY <2>1, <3>1, <3>2, Zenon DEF Proper, Full
  <2>3. CASE q \notin moving
    BY <2>1, <2>3, Zenon
  <2> QED
    BY <2>2, <2>3, Zenon
<1> HIDE DEF row, key
<1> QED
  BY <1>2, <1>3, RekeySane DEF Sane
-----------------------------------------------------------------------------
(***************************************************************************)
(* A step changes what it holds, C, and nothing else gets emptier.         *)
(***************************************************************************)
SameData(C) ==
    \A p \in Top \ C : /\ p \in DOMAIN disk' <=> p \in DOMAIN disk
                       /\ p \in DOMAIN disk => disk'[p].data = disk[p].data
Still(C) ==
    \A p \in Top \ C :
        /\ Live(db', p) <=> Live(db, p)
        /\ Held(db', p) => Held(db, p)
        /\ HasFile(p)' <=> HasFile(p)
        /\ Blank(p)' => Blank(p)

LEMMA StillThere ==
    ASSUME NEW C, SameData(C),
           \/ RowsKept(db, db', DOMAIN disk, C) /\ Alike(db, db', C)
           \/ \A p \in Top \ C : (Live(db', p) <=> Live(db, p)) /\ (Held(db', p) => Held(db, p))
    PROVE  Still(C)
<1>1. ASSUME NEW p \in Top \ C  PROVE (HasFile(p)' <=> HasFile(p)) /\ (Blank(p)' => Blank(p))
  BY <1>1 DEF SameData, HasFile, Blank
<1>2. ASSUME NEW p \in Top \ C, RowsKept(db, db', DOMAIN disk, C), Alike(db, db', C)
      PROVE  (Live(db', p) <=> Live(db, p)) /\ (Held(db', p) => Held(db, p))
  <2>1. Live(db', p) <=> Live(db, p)
    BY <1>2 DEF RowsKept
  <2>2. Live(db, p) => db'.rows[p] = db.rows[p]
    BY <1>2 DEF Alike, Live
  <2> QED
    BY <2>1, <2>2 DEF Held
<1> QED
  BY <1>1, <1>2 DEF Still

LEMMA DataSame == ASSUME UNCHANGED disk, NEW C  PROVE SameData(C)
BY Zenon DEF SameData

LEMMA AtRest ==
    ASSUME UNCHANGED disk, db'.rows = db.rows, NEW C
    PROVE  Still(C)
<1>1. SameData(C)
  BY DataSame
<1>2. \A p : (Live(db', p) <=> Live(db, p)) /\ (Held(db', p) <=> Held(db, p))
  BY DEF Held, Live, Has
<1> QED
  BY <1>1, <1>2, StillThere

\* What an actor is going to record or send stays what it was.
LEMMA UserFillsKept ==
    ASSUME IInv, UserFills, UNCHANGED user, NEW C, Still(C),
           \A p \in C : p \in Top => p \notin UserHolds
    PROVE  UserFills'
<1>1. /\ user.pc # "idle" => user.path \in Top
      /\ user.op = "rename" => user.to \in Top
  BY DEF IInv, UserInv
<1>2. user.pc \in {"mirror", "record"} => user.path \in UserHolds /\ user.to \in UserHolds
  BY DEF UserHolds
<1>3. user.pc \in {"mirror", "record"} =>
        /\ Blank(user.path)' => Blank(user.path)
        /\ Held(db', user.path) => Held(db, user.path)
  <2>1. CASE user.pc \in {"mirror", "record"}
    <3>1. user.path \in Top \ C
      BY <1>1, <1>2, <2>1
    <3>2. PICK p : p = user.path
      OBVIOUS
    <3> QED
      BY <3>1, <3>2 DEF Still, Blank
  <2> QED
    BY <2>1
<1>4. user.pc = "record" /\ user.op = "rename" => (Blank(user.to)' => Blank(user.to))
  <2>1. CASE user.pc = "record" /\ user.op = "rename"
    <3>1. user.to \in Top \ C
      BY <1>1, <1>2, <2>1
    <3> QED
      BY <3>1 DEF Still, Blank
  <2> QED
    BY <2>1
<1> QED
  BY <1>3, <1>4 DEF UserFills, Blank

LEMMA UpFillsKept ==
    ASSUME IInv, UpFills, UNCHANGED up,
           \A p \in Top : p \in UpSends => (Blank(p)' => Blank(p))
    PROVE  UpFills'
<1>1. up.pc \notin {"idle", "pass"} => up.path \in Top
  BY DEF IInv, UpInv
<1>2. up.pc \in {"move", "replace", "send"} => up.path \in UpSends
  BY DEF UpSends
<1>3. up.pc \in {"move", "replace", "send"} => (Blank(up.path)' => Blank(up.path))
  BY <1>1, <1>2 DEF Blank
<1> QED
  BY <1>3 DEF UpFills, Blank

LEMMA ListFillsKept ==
    ASSUME IInv, ListFills, UNCHANGED list, NEW C, Still(C),
           \A p \in C : p \in Top => p \notin ListHolds
    PROVE  ListFills'
<1>1. /\ list.pc \notin {"idle", "items", "sweep", "unrow"} => list.node.path \in Top
      /\ list.pc \in {"conflict", "detach", "relocate", "rekey", "unrow"} => list.at \in Top
      /\ list.pc = "detach" => list.to \in Top
  BY DEF IInv, ListInv, ItemNode
<1>2. list.pc \notin {"idle", "items", "sweep"} =>
        list.node.path \in ListHolds /\ list.at \in ListHolds /\ list.to \in ListHolds
  BY DEF ListHolds
<1>3. list.pc \in {"rekey", "store"} => (Blank(list.node.path)' => Blank(list.node.path))
  <2>1. list.pc \in {"rekey", "store"} => list.node.path \in Top \ C
    BY <1>1, <1>2
  <2> QED
    BY <2>1 DEF Still, Blank
<1>4. list.pc \in {"rekey", "detach"} =>
        /\ Held(db', list.at) => Held(db, list.at)
        /\ Live(db', list.at) => Live(db, list.at)
  <2>1. list.pc \in {"rekey", "detach"} => list.at \in Top \ C
    BY <1>1, <1>2
  <2> QED
    BY <2>1 DEF Still
<1>5. list.pc = "detach" => (Blank(list.to)' => Blank(list.to)) /\ (HasFile(list.to) => HasFile(list.to)')
  <2>1. list.pc = "detach" => list.to \in Top \ C
    BY <1>1, <1>2
  <2> QED
    BY <2>1 DEF Still, Blank, HasFile
<1> QED
  BY <1>3, <1>4, <1>5 DEF ListFills, Blank, HasFile

LEMMA DlFillsKept ==
    ASSUME IInv, DlFills, UNCHANGED dl, NEW C, Still(C),
           \A p \in C : p \in Top => p \notin DlHolds
    PROVE  DlFills'
<1>1. dl.pc = "mark" => dl.path \in Top /\ dl.path \in DlHolds
  BY DEF IInv, DlInv, DlHolds
<1>2. dl.pc = "mark" => (Blank(dl.path)' => Blank(dl.path))
  BY <1>1 DEF Still, Blank
<1> QED
  BY <1>2 DEF DlFills, Blank

LEMMA FilledKept ==
    ASSUME Filled, NEW C, Still(C),
           \A p \in Top \ C :
              /\ UserBrings(p) \/ ListBrings(p) => UserBrings(p)' \/ ListBrings(p)'
              /\ UserTakes(p) \/ ListTakes(p) => UserTakes(p)' \/ ListTakes(p)',
           \A p \in Top : p \in C => Honest(p)' /\ Filed(p)'
    PROVE  Filled'
<1> SUFFICES ASSUME NEW p \in Top, p \notin C  PROVE Honest(p)' /\ Filed(p)'
  BY DEF Filled
<1>1. Honest(p) /\ Filed(p)
  BY DEF Filled
<1>2. /\ Live(db', p) <=> Live(db, p)
      /\ Held(db', p) => Held(db, p)
      /\ HasFile(p)' <=> HasFile(p)
      /\ Blank(p)' => Blank(p)
  BY DEF Still
<1> QED
  BY <1>1, <1>2 DEF Honest, Filed
-----------------------------------------------------------------------------
(***************************************************************************)
(* A step of one actor, which changes what it holds before or after it.    *)
(***************************************************************************)
LEMMA UserRound ==
    ASSUME Calmly, Unblank, UNCHANGED <<cloud, up, list, dl>>,
           NEW C, C \subseteq UserHolds \union UserHolds', Still(C),
           \A p \in Top \ C : /\ UserBrings(p) => UserBrings(p)'
                              /\ UserTakes(p) => UserTakes(p)',
           \A p \in Top : p \in C => /\ Honest(p)' /\ Filed(p)'
                                     /\ p \in UpSends => ~Blank(p)',
           Sane(db'), UserFills'
    PROVE  Unblank'
<1>1. /\ ~Meets(UserHolds, UpHolds \union ListHolds \union DlHolds)
      /\ ~Meets(UserHolds', UpHolds \union ListHolds \union DlHolds)
  BY DEF Calmly, Undisturbed, Overlap, UpHolds, ListHolds, DlHolds
<1>2. \A p \in C : p \in Top => p \notin ListHolds /\ p \notin DlHolds
  BY <1>1, Alone
<1>3. \A p : (ListBrings(p) <=> ListBrings(p)') /\ (ListTakes(p) <=> ListTakes(p)')
  BY DEF ListBrings, ListTakes
<1>4. Filled'
  BY <1>3, FilledKept DEF Unblank
<1>5. \A p \in Top : p \in UpSends => (Blank(p)' => Blank(p))
  BY DEF Still
<1>6. UpFills' /\ ListFills' /\ DlFills'
  BY <1>2, <1>5, UpFillsKept, ListFillsKept, DlFillsKept DEF Calmly, Unblank
<1> QED
  BY <1>4, <1>6 DEF Unblank

LEMMA UpRound ==
    ASSUME Calmly, Unblank, UNCHANGED <<user, list, dl>>,
           NEW C, C \subseteq UpHolds \union UpHolds', Still(C),
           \A p \in Top : p \in C => Honest(p)' /\ Filed(p)',
           Sane(db'), Whole(cloud'), UpFills'
    PROVE  Unblank'
<1>1. /\ ~Meets(UserHolds, UpHolds \union ListHolds \union DlHolds)
      /\ ~Meets(UserHolds, UpHolds' \union ListHolds \union DlHolds)
      /\ ~Meets(UpHolds, ListHolds \union DlHolds)
      /\ ~Meets(UpHolds', ListHolds \union DlHolds)
  BY DEF Calmly, Undisturbed, Overlap, UserHolds, ListHolds, DlHolds
<1>2. \A p \in C : p \in Top => p \notin UserHolds /\ p \notin ListHolds /\ p \notin DlHolds
  <2> SUFFICES ASSUME NEW p \in C, p \in Top
               PROVE  p \notin UserHolds /\ p \notin ListHolds /\ p \notin DlHolds
    OBVIOUS
  <2> QED
    BY <1>1, Alone
<1>3. \A p : /\ (UserBrings(p) <=> UserBrings(p)') /\ (UserTakes(p) <=> UserTakes(p)')
             /\ (ListBrings(p) <=> ListBrings(p)') /\ (ListTakes(p) <=> ListTakes(p)')
  BY DEF UserBrings, UserTakes, ListBrings, ListTakes
<1>4. Filled'
  BY <1>3, FilledKept DEF Unblank
<1>5. UserFills' /\ ListFills' /\ DlFills'
  BY <1>2, UserFillsKept, ListFillsKept, DlFillsKept DEF Calmly, Unblank
<1> QED
  BY <1>4, <1>5 DEF Unblank

LEMMA ListRound ==
    ASSUME Calmly, Unblank, UNCHANGED <<cloud, user, up, dl>>,
           NEW C, C \subseteq ListHolds \union ListHolds', Still(C),
           \A p \in Top \ C : /\ ListBrings(p) => ListBrings(p)'
                              /\ ListTakes(p) => ListTakes(p)',
           \A p \in Top : p \in C => Honest(p)' /\ Filed(p)',
           Sane(db'), ListFills'
    PROVE  Unblank'
<1>1. /\ ~Meets(UserHolds, UpHolds \union ListHolds \union DlHolds)
      /\ ~Meets(UserHolds, UpHolds \union ListHolds' \union DlHolds)
      /\ ~Meets(UpSends, ListHolds) /\ ~Meets(UpSends, ListHolds')
      /\ ~Meets(ListHolds, DlHolds) /\ ~Meets(ListHolds', DlHolds)
  BY DEF Calmly, Undisturbed, Overlap, UserHolds, UpHolds, UpSends, DlHolds
<1>2. \A p \in C : p \in Top => p \notin UserHolds /\ p \notin UpSends /\ p \notin DlHolds
  <2> SUFFICES ASSUME NEW p \in C, p \in Top
               PROVE  p \notin UserHolds /\ p \notin UpSends /\ p \notin DlHolds
    OBVIOUS
  <2> QED
    BY <1>1, Alone
<1>3. \A p : (UserBrings(p) <=> UserBrings(p)') /\ (UserTakes(p) <=> UserTakes(p)')
  BY DEF UserBrings, UserTakes
<1>4. Filled'
  BY <1>3, FilledKept DEF Unblank
<1>5. \A p \in Top : p \in UpSends => (Blank(p)' => Blank(p))
  BY <1>2 DEF Still
<1>6. UserFills' /\ UpFills' /\ DlFills'
  BY <1>2, <1>5, UserFillsKept, UpFillsKept, DlFillsKept DEF Calmly, Unblank
<1> QED
  BY <1>4, <1>6 DEF Unblank

LEMMA DlRound ==
    ASSUME Calmly, Unblank, UNCHANGED <<cloud, user, up, list>>,
           NEW C, C \subseteq DlHolds \union DlHolds', Still(C),
           \A p \in Top : p \in C => /\ Honest(p)' /\ Filed(p)'
                                     /\ p \in UpSends => ~Blank(p)',
           Sane(db'), DlFills'
    PROVE  Unblank'
<1>1. /\ ~Meets(UserHolds, UpHolds \union ListHolds \union DlHolds)
      /\ ~Meets(UserHolds, UpHolds \union ListHolds \union DlHolds')
      /\ ~Meets(ListHolds, DlHolds) /\ ~Meets(ListHolds, DlHolds')
  BY DEF Calmly, Undisturbed, Overlap, UserHolds, UpHolds, ListHolds
<1>2. \A p \in C : p \in Top => p \notin UserHolds /\ p \notin ListHolds
  <2> SUFFICES ASSUME NEW p \in C, p \in Top
               PROVE  p \notin UserHolds /\ p \notin ListHolds
    OBVIOUS
  <2> QED
    BY <1>1, Places DEF Meets
<1>3. \A p : /\ (UserBrings(p) <=> UserBrings(p)') /\ (UserTakes(p) <=> UserTakes(p)')
             /\ (ListBrings(p) <=> ListBrings(p)') /\ (ListTakes(p) <=> ListTakes(p)')
  BY DEF UserBrings, UserTakes, ListBrings, ListTakes
<1>4. Filled'
  BY <1>3, FilledKept DEF Unblank
<1>5. \A p \in Top : p \in UpSends => (Blank(p)' => Blank(p))
  BY DEF Still
<1>6. UserFills' /\ UpFills' /\ ListFills'
  BY <1>2, <1>5, UserFillsKept, UpFillsKept, ListFillsKept DEF Calmly, Unblank
<1> QED
  BY <1>4, <1>6 DEF Unblank
-----------------------------------------------------------------------------
LEMMA DataWritten ==
    ASSUME NEW p, NEW data, NEW stamp, disk' = Write(p, data, stamp)
    PROVE  SameData({p}) /\ HasFile(p)' /\ (Blank(p)' <=> data = Hole)
<1> DEFINE new == [q \in DOMAIN disk \union {p} |->
                      IF q = p THEN [data |-> data, stamp |-> stamp] ELSE disk[q]]
<1>1. disk' = new
  BY DEF Write
<1>2. /\ DOMAIN new = DOMAIN disk \union {p} /\ new[p].data = data
      /\ \A q \in DOMAIN disk : q # p => new[q] = disk[q]
  OBVIOUS
<1> HIDE DEF new
<1> QED
  BY <1>1, <1>2 DEF SameData, HasFile, Blank

LEMMA DataMoved ==
    ASSUME NEW p, NEW q, p # q, p \in DOMAIN disk, disk' = Moved(p, q)
    PROVE  SameData({p, q}) /\ ~HasFile(p)' /\ HasFile(q)' /\ (Blank(q)' <=> Blank(p))
<1> DEFINE new == [r \in (DOMAIN disk \ {p}) \union {q} |-> IF r = q THEN disk[p] ELSE disk[r]]
<1>1. disk' = new
  BY DEF Moved
<1>2. /\ DOMAIN new = (DOMAIN disk \ {p}) \union {q} /\ new[q] = disk[p]
      /\ \A r \in DOMAIN disk \ {p, q} : new[r] = disk[r]
  OBVIOUS
<1> HIDE DEF new
<1> QED
  BY <1>1, <1>2 DEF SameData, HasFile, Blank

LEMMA DataRemoved ==
    ASSUME NEW p, disk' = Remove(p)
    PROVE  SameData({p}) /\ ~HasFile(p)'
<1> DEFINE new == [r \in DOMAIN disk \ {p} |-> disk[r]]
<1>1. disk' = new
  BY DEF Remove
<1>2. /\ DOMAIN new = DOMAIN disk \ {p}
      /\ \A r \in DOMAIN disk \ {p} : new[r] = disk[r]
  OBVIOUS
<1> HIDE DEF new
<1> QED
  BY <1>1, <1>2 DEF SameData, HasFile

\* ---- The user's calls.
\* A new file takes no file's place: what is at its path has a live row, or
\* another actor is just bringing it there.
LEMMA ZerosUserBegin ==
    ASSUME Calmly, Unblank, UserBegin
    PROVE  Unblank'
<1>1. UNCHANGED <<db, disk, cloud, up, list, dl>> /\ user.pc = "idle"
  BY DEF UserBegin
<1>2. PICK p \in UserPath : \/ BeginWrite(p) \/ BeginCreate(p) \/ BeginUnlink(p)
                            \/ \E q \in UserPath : BeginRename(p, q)
                            \/ BeginTouch(p)
  BY DEF UserBegin
<1>3. UserFills'
  <2>1. CASE BeginCreate(p)
    <3>1. user'.pc = "mirror" /\ user'.op = "create" /\ user'.path = p
      BY <2>1 DEF BeginCreate, UserIdle
    <3>2. p \in Top
      BY <3>1 DEF Calmly, IInv, UserInv
    <3>3. p \notin ListHolds
      <4>1. ~Meets(UserHolds', UpHolds \union ListHolds \union DlHolds)
        BY <1>1 DEF Calmly, Undisturbed, Overlap, UpHolds, ListHolds, DlHolds
      <4>2. p \in UserHolds'
        BY <3>1 DEF UserHolds
      <4> QED
        BY <3>2, <4>1, <4>2, Alone
    <3>4. ~Live(db, p) \/ p \notin DOMAIN disk
      BY <2>1 DEF BeginCreate, Visible, Live
    <3>5. ~ListBrings(p) /\ ~UserBrings(p)
      BY <1>1, <3>3 DEF ListBrings, ListHolds, UserBrings
    <3>6. p \notin DOMAIN disk
      BY <3>2, <3>4, <3>5 DEF Calmly, Paired, Pairs, FileNamed, HasFile
    <3>7. user'.path \notin DOMAIN disk'
      BY <1>1, <3>1, <3>6
    <3> QED
      BY <3>1, <3>7 DEF UserFills, Blank
  <2>2. CASE ~BeginCreate(p)
    <3>1. user'.pc # "record" /\ user'.op # "create"
      <4>1. CASE BeginWrite(p)
        BY <4>1 DEF BeginWrite, UserIdle
      <4>2. CASE BeginUnlink(p) \/ BeginTouch(p)
        BY <4>2, Zenon DEF BeginUnlink, BeginTouch, UserIdle
      <4>3. CASE \E q \in UserPath : BeginRename(p, q)
        BY <4>3 DEF BeginRename, UserIdle
      <4> QED
        BY <1>2, <2>2, <4>1, <4>2, <4>3
    <3> QED
      BY <3>1 DEF UserFills
  <2> QED
    BY <2>1, <2>2
<1>4. \A q : ~UserBrings(q) /\ ~UserTakes(q)
  BY <1>1 DEF UserBrings, UserTakes
<1>5. Still({}) /\ Sane(db')
  BY <1>1, AtRest DEF Unblank
<1> QED
  BY <1>1, <1>3, <1>4, <1>5, UserRound

LEMMA ZerosUserWait ==
    ASSUME Calmly, Unblank, UserHydrated \/ UserGivesUp
    PROVE  Unblank'
<1>1. UNCHANGED <<db, disk, cloud, up, list, dl>> /\ user.pc = "hydrate"
  BY DEF UserHydrated, UserGivesUp
<1>2. user.op = "write"
  BY <1>1 DEF Calmly, Paired, UserSees
<1>3. user'.pc \in {"idle", "mirror"} /\ user'.op # "create"
  BY <1>2 DEF UserHydrated, UserGivesUp, UserIdle, Calmly, IInv, UserInv, UserState
<1>4. UserFills'
  BY <1>3 DEF UserFills
<1>5. \A q : ~UserBrings(q) /\ ~UserTakes(q)
  BY <1>1 DEF UserBrings, UserTakes
<1>6. Still({}) /\ Sane(db')
  BY <1>1, AtRest DEF Unblank
<1> QED
  BY <1>1, <1>4, <1>5, <1>6, UserRound

LEMMA ZerosUserWrites ==
    ASSUME Calmly, Unblank, UserWrites
    PROVE  Unblank'
<1>0. PICK p, c : p = user.path /\ c = clock + 1
  OBVIOUS
<1>1. /\ UNCHANGED <<db, cloud, up, list, dl>> /\ user.pc = "mirror" /\ user.op = "write"
      /\ disk' = Write(p, c, c)
  BY <1>0 DEF UserWrites
<1>2. user'.pc = "record" /\ user'.op = "write" /\ user'.path = p
  BY <1>0, <1>1 DEF UserWrites, Calmly, IInv, UserInv, UserState
<1>3. c # Hole
  BY <1>0 DEF Calmly, IInv, RestInv, Hole
<1>4. SameData({p}) /\ HasFile(p)' /\ ~Blank(p)'
  BY <1>1, <1>3, DataWritten
<1>5. Still({p})
  BY <1>1, <1>4, StillThere
<1>6. Honest(p)' /\ Filed(p)' /\ UserFills'
  BY <1>2, <1>4 DEF Honest, Filed, UserFills, Blank
<1>7. {p} \subseteq UserHolds
  BY <1>0, <1>1 DEF UserHolds
<1>8. \A q : ~UserBrings(q) /\ ~UserTakes(q)
  BY <1>1 DEF UserBrings, UserTakes
<1>9. Sane(db')
  BY <1>1 DEF Unblank
<1> QED
  BY <1>1, <1>4, <1>5, <1>6, <1>7, <1>8, <1>9, UserRound

LEMMA ZerosUserCreates ==
    ASSUME Calmly, Unblank, UserCreates
    PROVE  Unblank'
<1>0. PICK p, g, c : p = user.path /\ g = Pick(FreeGraves) /\ c = clock + 1
  OBVIOUS
<1>1. /\ UNCHANGED <<cloud, up, list, dl>> /\ user.pc = "mirror" /\ user.op = "create"
      /\ db' = BuryTombstone(db, p, g)
      /\ p \in DOMAIN disk => UNCHANGED disk
      /\ p \notin DOMAIN disk => disk' = Write(p, c, c)
  BY <1>0 DEF UserCreates
<1>2. user'.pc = "record" /\ user'.op = "create" /\ user'.path = p
  BY <1>0, <1>1 DEF UserCreates, Calmly, IInv, UserInv, UserState
<1>3. g \in FreeGraves /\ p \in Top /\ Sound(db) /\ Sane(db)
  BY <1>0, <1>1, Picked DEF UserCreates, Calmly, IInv, UserInv, DbInv, Unblank
<1>4. g \in Top /\ g \in GravePath /\ ~Has(db, g)
  BY <1>3, Names DEF FreeGraves, GravePath, Has
<1>5. c # Hole
  BY <1>0 DEF Calmly, IInv, RestInv, Hole
<1>6. SameData({p}) /\ HasFile(p)' /\ ~Blank(p)'
  <2>1. CASE p \in DOMAIN disk
    <3>1. ~Blank(p)
      BY <1>0, <1>1 DEF Unblank, UserFills, Blank
    <3> QED
      BY <1>1, <2>1, <3>1, DataSame DEF HasFile, Blank
  <2>2. CASE p \notin DOMAIN disk
    BY <1>1, <1>5, <2>2, DataWritten
  <2> QED
    BY <2>1, <2>2
<1>7. RowsKept(db, db', DOMAIN disk, {p}) /\ Alike(db, db', {p})
  BY <1>1, <1>3, <1>4, BuryFace, Zenon
<1>8. Still({p})
  BY <1>6, <1>7, StillThere
<1>9. Sane(db')
  BY <1>1, <1>3, BurySane
<1>10. Honest(p)' /\ Filed(p)' /\ UserFills'
  BY <1>2, <1>6 DEF Honest, Filed, UserFills, Blank
<1>11. {p} \subseteq UserHolds
  BY <1>0, <1>1 DEF UserHolds
<1>12. \A q : ~UserBrings(q) /\ ~UserTakes(q)
  BY <1>1 DEF UserBrings, UserTakes
<1> QED
  BY <1>1, <1>6, <1>8, <1>9, <1>10, <1>11, <1>12, UserRound

LEMMA ZerosUserRemoves ==
    ASSUME Calmly, Unblank, UserRemoves
    PROVE  Unblank'
<1>0. PICK p : p = user.path
  OBVIOUS
<1>1. /\ UNCHANGED <<db, cloud, up, list, dl>> /\ user.pc = "mirror" /\ user.op = "unlink"
      /\ disk' = Remove(p)
  BY <1>0 DEF UserRemoves
<1>2. user'.pc = "record" /\ user'.op = "unlink" /\ user'.path = p
  BY <1>0, <1>1 DEF UserRemoves, Calmly, IInv, UserInv, UserState
<1>3. SameData({p}) /\ ~HasFile(p)' /\ ~Blank(p)'
  BY <1>1, DataRemoved DEF Blank, HasFile
<1>4. Still({p})
  BY <1>1, <1>3, StillThere
<1>5. Honest(p)' /\ Filed(p)' /\ UserFills'
  BY <1>2, <1>3 DEF Honest, Filed, UserFills, UserTakes
<1>6. {p} \subseteq UserHolds
  BY <1>0, <1>1 DEF UserHolds
<1>7. \A q : ~UserBrings(q) /\ ~UserTakes(q)
  BY <1>1 DEF UserBrings, UserTakes
<1>8. Sane(db')
  BY <1>1 DEF Unblank
<1> QED
  BY <1>1, <1>3, <1>4, <1>5, <1>6, <1>7, <1>8, UserRound

\* Where the file that moves has a row that says it is content, it is: nobody
\* else is about to write it.
LEMMA ZerosUserMoves ==
    ASSUME Calmly, Unblank, UserMoves
    PROVE  Unblank'
<1>0. PICK p, q : p = user.path /\ q = user.to
  OBVIOUS
<1>1. UNCHANGED <<db, cloud, up, list, dl>> /\ user.pc = "mirror" /\ user.op = "rename"
  BY DEF UserMoves
<1>2. /\ Live(db, p) /\ p # q
      /\ p \in Top /\ q \in Top
  BY <1>0, <1>1 DEF Calmly, Paired, UserSees, IInv, UserInv
<1>3. p \in UserHolds /\ q \in UserHolds /\ UserSwaps = UserHolds
  BY <1>0, <1>1 DEF UserHolds, UserSwaps
<1>4. p \notin ListHolds /\ p \notin UpSends /\ q \notin UpSends
  <2>1. /\ ~Meets(UserHolds, UpHolds \union ListHolds \union DlHolds)
        /\ ~Meets(UserHolds, UpSends \union UpRecords)
    BY <1>3 DEF Calmly, Undisturbed, Overlap
  <2> QED
    BY <1>2, <1>3, <2>1, Alone
<1>5. ~ListTakes(p) /\ ~ListBrings(p)
  BY <1>4 DEF ListTakes, ListBrings, ListHolds
<1>6. \A r : ~UserBrings(r) /\ ~UserTakes(r)
  BY <1>1 DEF UserBrings, UserTakes
<1>7. Honest(p) /\ Filed(p)
  BY <1>2 DEF Unblank, Filled
<1>8. p \in DOMAIN disk
  BY <1>2, <1>5, <1>6, <1>7 DEF Filed, HasFile
<1>9. Held(db, p) => ~Blank(p)
  BY <1>5, <1>6, <1>7 DEF Honest
<1>10. disk' = Moved(p, q) /\ user' = [user EXCEPT !.pc = "record"]
  BY <1>0, <1>1, <1>8 DEF UserMoves
<1>11. user'.pc = "record" /\ user'.op = "rename" /\ user'.path = p /\ user'.to = q
  BY <1>0, <1>1, <1>10 DEF Calmly, IInv, UserInv, UserState
<1>12. SameData({p, q}) /\ ~HasFile(p)' /\ HasFile(q)' /\ (Blank(q)' <=> Blank(p))
  BY <1>2, <1>8, <1>10, DataMoved
<1>13. Still({p, q})
  BY <1>1, <1>12, StillThere
<1>14. UserFills'
  BY <1>1, <1>9, <1>11, <1>12 DEF UserFills, Blank
<1>15. Honest(p)' /\ Filed(p)' /\ Honest(q)' /\ Filed(q)'
  <2>1. UserTakes(p)' /\ UserBrings(q)'
    BY <1>11 DEF UserTakes, UserBrings
  <2> QED
    BY <1>12, <2>1 DEF Honest, Filed, Blank, HasFile
<1>16. {p, q} \subseteq UserHolds /\ Sane(db')
  BY <1>1, <1>3 DEF Unblank
<1> QED
  BY <1>1, <1>4, <1>6, <1>13, <1>14, <1>15, <1>16, UserRound

LEMMA ZerosUserTouches ==
    ASSUME Calmly, Unblank, UserTouches
    PROVE  Unblank'
<1>0. PICK p, c : p = user.path /\ c = clock + 1
  OBVIOUS
<1>1. UNCHANGED <<db, cloud, up, list, dl>> /\ user.pc = "mirror" /\ user.op = "touch"
  BY DEF UserTouches
<1>2. user'.pc \in {"idle", "record"} /\ user'.op \in {"touch", "none"}
  <2>1. DOMAIN user = {"pc", "op", "path", "to", "known", "stamp"}
    BY DEF Calmly, IInv, UserInv, UserState
  <2>2. user' = [user EXCEPT !.pc = "record", !.stamp = clock'] \/ user' = UserIdle
    BY DEF UserTouches
  <2>3. CASE user' = [user EXCEPT !.pc = "record", !.stamp = clock']
    BY <1>1, <2>1, <2>3
  <2>4. CASE user' = UserIdle
    BY <2>4 DEF UserIdle
  <2> QED
    BY <2>2, <2>3, <2>4
<1>3. SameData({})
  <2>1. CASE p \in DOMAIN disk
    <3>1. disk' = [disk EXCEPT ![p].stamp = c]
      BY <1>0, <2>1 DEF UserTouches
    <3>2. disk[p] \in File
      BY <2>1 DEF Calmly, IInv, DiskInv
    <3> QED
      BY <3>1, <3>2 DEF SameData, File
  <2>2. CASE p \notin DOMAIN disk
    <3>1. UNCHANGED disk
      BY <1>0, <2>2 DEF UserTouches
    <3> QED
      BY <3>1, DataSame
  <2> QED
    BY <2>1, <2>2
<1>4. Still({}) /\ Sane(db')
  BY <1>1, <1>3, StillThere DEF Unblank
<1>5. UserFills'
  BY <1>2 DEF UserFills
<1>6. \A r : ~UserBrings(r) /\ ~UserTakes(r)
  BY <1>1 DEF UserBrings, UserTakes
<1> QED
  BY <1>1, <1>4, <1>5, <1>6, UserRound

\* What is recorded as content has just been written.
LEMMA ZerosUserRecords ==
    ASSUME Calmly, Unblank, UserRecords
    PROVE  Unblank'
<1>0. PICK p : p = user.path
  OBVIOUS
<1>1. /\ UNCHANGED <<disk, cloud, up, list, dl>> /\ user.pc = "record"
      /\ user.op \in {"write", "create"}
  BY DEF UserRecords
<1>2. p \in Top /\ Sound(db) /\ Sane(db)
  BY <1>0, <1>1 DEF Calmly, IInv, UserInv, DbInv, Unblank
<1>3. ~Blank(p)
  BY <1>0, <1>1 DEF Unblank, UserFills, Blank
<1>4. \A r : ~UserTakes(r) /\ (UserBrings(r) => r = p)
  BY <1>0, <1>1 DEF UserBrings, UserTakes
<1>5. user'.pc \in {"idle", "queue"}
  BY DEF UserRecords, UserIdle, Calmly, IInv, UserInv, UserState
<1>6. SameData({p}) /\ ~Blank(p)'
  BY <1>1, <1>3, DataSame DEF Blank
<1>7. Still({p}) /\ Sane(db') /\ Filed(p)'
  <2>1. CASE p \in DOMAIN disk
    <3>1. db' = ContentRecorded
      BY <1>0, <2>1 DEF UserRecords
    <3>2. RowsKept(db, db', DOMAIN disk, {p}) /\ Alike(db, db', {p}) /\ Sane(db')
      <4>1. CASE user.known
        <5> DEFINE row == [db.rows[p] EXCEPT !.dirty = TRUE, !.tomb = FALSE,
                               !.stamp = disk[p].stamp, !.hydrated = @ \/ TRUE]
        <5>1. db' = UpdateRow(db, p, row)
          BY <1>0, <3>1, <4>1 DEF ContentRecorded, MarkDirty
        <5>2. ASSUME Has(db, p)  PROVE Proper(row)
          BY <1>2, <5>2 DEF Sound, StoreType, Entry, Has, Sane, Proper
        <5> HIDE DEF row
        <5> QED
          BY <1>2, <5>1, <5>2, UpdateRowFace, UpdateSane, Zenon
      <4>2. CASE ~user.known
        <5> DEFINE row == Local("file", disk[p].stamp)
        <5>1. db' = UpsertEntry(db, p, row)
          BY <1>0, <3>1, <4>2 DEF ContentRecorded
        <5>2. Proper(row)
          BY DEF Local, Proper
        <5> HIDE DEF row
        <5> QED
          BY <1>2, <5>1, <5>2, UpsertFace, UpsertSane, Zenon
      <4> QED
        BY <4>1, <4>2
    <3> QED
      BY <1>1, <1>6, <2>1, <3>2, StillThere DEF Filed, HasFile
  <2>2. CASE p \notin DOMAIN disk
    <3>1. UNCHANGED db
      BY <1>0, <2>2 DEF UserRecords
    <3>2. Filed(p) /\ ~UserTakes(p)
      BY <1>2, <1>4 DEF Unblank, Filled
    <3>3. Filed(p)'
      BY <1>1, <3>1, <3>2 DEF Filed, HasFile, ListTakes
    <3> QED
      BY <1>1, <1>2, <3>1, <3>3, AtRest
  <2> QED
    BY <2>1, <2>2
<1>8. UserFills' /\ Honest(p)'
  BY <1>5, <1>6 DEF UserFills, Honest
<1>9. {p} \subseteq UserHolds
  BY <1>0, <1>1 DEF UserHolds
<1> QED
  BY <1>1, <1>4, <1>6, <1>7, <1>8, <1>9, UserRound

LEMMA ZerosUserForgets ==
    ASSUME Calmly, Unblank, UserForgets
    PROVE  Unblank'
<1>0. PICK p : p = user.path
  OBVIOUS
<1>1. /\ UNCHANGED <<disk, cloud, up, list, dl>> /\ user.pc = "record" /\ user.op = "unlink"
      /\ \/ db' = MarkTombstone(db, p) /\ user' = [user EXCEPT !.pc = "queue"]
         \/ db' = RemoveEntry(db, p) /\ user' = UserIdle
  BY <1>0 DEF UserForgets
<1>2. p \in Top /\ Sound(db) /\ Sane(db) /\ p \notin DOMAIN disk
  BY <1>0, <1>1 DEF Calmly, IInv, UserInv, DbInv, Paired, UserSees, HasFile, Unblank
<1>3. \A r : ~UserBrings(r) /\ (UserTakes(r) => r = p)
  BY <1>0, <1>1 DEF UserBrings, UserTakes
<1>4. user'.pc \in {"idle", "queue"}
  BY <1>1 DEF UserIdle, Calmly, IInv, UserInv, UserState
<1>5. /\ RowsKept(db, db', DOMAIN disk, {p}) /\ Alike(db, db', {p})
      /\ ~Live(db', p) /\ Sane(db')
  <2>1. CASE db' = MarkTombstone(db, p)
    <3> DEFINE row == [db.rows[p] EXCEPT !.dirty = TRUE, !.tomb = TRUE]
    <3>1. db' = UpdateRow(db, p, row)
      BY <2>1 DEF MarkTombstone
    <3>2. ASSUME Has(db, p)  PROVE row.tomb /\ Proper(row)
      BY <1>2, <3>2 DEF Sound, StoreType, Entry, Has, Sane, Proper
    <3> HIDE DEF row
    <3> QED
      BY <1>2, <3>1, <3>2, UpdateRowFace, UpdateSane, Zenon
  <2>2. CASE db' = RemoveEntry(db, p)
    BY <1>2, <2>2, RemoveFace, RemoveSane DEF Live
  <2> QED
    BY <1>1, <2>1, <2>2
<1>6. SameData({p}) /\ ~Blank(p)'
  BY <1>1, <1>2, DataSame DEF Blank
<1>7. Still({p})
  BY <1>5, <1>6, StillThere
<1>8. UserFills' /\ Honest(p)' /\ Filed(p)'
  BY <1>4, <1>5 DEF UserFills, Honest, Filed, Held
<1>9. {p} \subseteq UserHolds
  BY <1>0, <1>1 DEF UserHolds
<1>10. UNCHANGED <<cloud, up, list, dl>>
  BY <1>1
<1> QED
  BY <1>3, <1>5, <1>6, <1>7, <1>8, <1>9, <1>10, UserRound

LEMMA ZerosUserRenames ==
    ASSUME Calmly, Unblank, UserRenames
    PROVE  Unblank'
<1>0. PICK p, q, g, grave : /\ p = user.path /\ q = user.to /\ g = Pick(FreeGraves)
                            /\ grave = [r \in {q} |-> g]
  BY Zenon
<1>1. /\ UNCHANGED <<disk, cloud, up, list, dl>> /\ user.pc = "record" /\ user.op = "rename"
      /\ db' = RenameTree(db, p, q, TRUE, FALSE, grave)
      /\ user' = UserIdle
  BY <1>0 DEF UserRenames
<1>2. /\ p \in Top /\ q \in Top /\ p # q /\ Sound(db) /\ Sane(db) /\ Live(db, p)
      /\ p \notin DOMAIN disk /\ q \in DOMAIN disk
  BY <1>0, <1>1 DEF Calmly, IInv, UserInv, DbInv, Paired, UserSees, HasFile, Unblank
<1>3. grave[q] \in GravePath /\ ~Has(db, grave[q])
  <2>1. g \in FreeGraves
    BY <1>0, Picked DEF UserRenames
  <2> QED
    BY <1>0, <2>1 DEF FreeGraves, GravePath, Has
<1>4. /\ RowsKept(db, db', DOMAIN disk, {p, q}) /\ Alike(db, db', {p, q})
      /\ ~Has(db', p)
  BY <1>1, <1>2, <1>3, RenameFace, Zenon
<1>5. Sane(db') /\ (Held(db', q) => Held(db, p))
  BY <1>1, <1>2, <1>3, RenameSane, Zenon
<1>6. Held(db, p) => ~Blank(q)
  BY <1>0, <1>1 DEF Unblank, UserFills, Blank
<1>7. Still({p, q})
  BY <1>1, <1>4, DataSame, StillThere, Zenon
<1>8. UserFills' /\ Honest(p)' /\ Filed(p)' /\ Honest(q)' /\ Filed(q)'
  <2>1. ~Live(db', p) /\ ~Held(db', p)
    BY <1>4 DEF Live, Held
  <2>2. Blank(q)' <=> Blank(q)
    BY <1>1 DEF Blank
  <2> QED
    BY <1>1, <1>2, <1>5, <1>6, <2>1, <2>2, Zenon
       DEF UserFills, UserIdle, Honest, Filed, HasFile
<1>9. p \in UserHolds /\ q \in UserHolds /\ UserSwaps = UserHolds
  BY <1>0, <1>1 DEF UserHolds, UserSwaps
<1>10. p \notin UpSends /\ q \notin UpSends
  <2>1. ~Meets(UserHolds, UpSends \union UpRecords)
    BY <1>9 DEF Calmly, Undisturbed, Overlap
  <2> QED
    BY <1>2, <1>9, <2>1, Alone
<1>11. \A r : (UserBrings(r) => r = q) /\ (UserTakes(r) => r = p)
  BY <1>0, <1>1 DEF UserBrings, UserTakes
<1>12. UNCHANGED <<cloud, up, list, dl>> /\ {p, q} \subseteq UserHolds
  BY <1>1, <1>9
<1> QED
  BY <1>5, <1>7, <1>8, <1>10, <1>11, <1>12, UserRound

\* A new time, and a queued operation, change nothing here.
LEMMA ZerosUserRecordsTime ==
    ASSUME Calmly, Unblank, UserRecordsTime
    PROVE  Unblank'
<1>1. /\ UNCHANGED <<disk, cloud, up, list, dl>> /\ user.pc = "record" /\ user.op = "touch"
      /\ db' = IF Live(db, user.path)
               THEN MarkDirty(db, user.path, user.stamp, FALSE) ELSE db
      /\ user' = UserIdle
  BY DEF UserRecordsTime
<1>2. Sound(db) /\ Sane(db)
  BY DEF Calmly, IInv, DbInv, Unblank
<1>3. Still({}) /\ Sane(db')
  <2>0. PICK p, s : p = user.path /\ s = user.stamp
    OBVIOUS
  <2>1. CASE Live(db, p)
    <3> DEFINE row == [db.rows[p] EXCEPT !.dirty = TRUE, !.tomb = FALSE,
                           !.stamp = s, !.hydrated = @ \/ FALSE]
    <3>1. db' = UpdateRow(db, p, row)
      BY <1>1, <2>0, <2>1 DEF MarkDirty
    <3>2. db.rows[p] \in Entry /\ Proper(db.rows[p])
      BY <1>2, <2>1 DEF Sound, StoreType, Live, Has, Sane
    <3>3. row.tomb = db.rows[p].tomb /\ row.hydrated = db.rows[p].hydrated
      BY <2>1, <3>2, Zenon DEF Entry, Live
    <3>4. Proper(row)
      BY <3>2 DEF Entry, Proper
    <3> HIDE DEF row
    <3>5. \A q : /\ Live(UpdateRow(db, p, row), q) <=> Live(db, q)
                 /\ Held(UpdateRow(db, p, row), q) <=> Held(db, q)
      BY <1>2, <3>3, UpdateStill
    <3>6. Still({})
      BY <1>1, <3>1, <3>5, DataSame, StillThere, Zenon
    <3> QED
      BY <1>2, <3>1, <3>4, <3>6, UpdateSane
  <2>2. CASE ~Live(db, p)
    BY <1>1, <1>2, <2>0, <2>2, AtRest
  <2> QED
    BY <2>1, <2>2
<1>4. UserFills'
  BY <1>1 DEF UserIdle, UserFills
<1>5. \A r : ~UserBrings(r) /\ ~UserTakes(r)
  BY <1>1 DEF UserBrings, UserTakes
<1>6. UNCHANGED <<cloud, up, list, dl>>
  BY <1>1
<1> QED
  BY <1>3, <1>4, <1>5, <1>6, UserRound

LEMMA ZerosUserQueues ==
    ASSUME Calmly, Unblank, UserQueues
    PROVE  Unblank'
<1>0. PICK p, op : p = user.path /\ op = CASE user.op = "write"  -> "update"
                                           [] user.op = "create" -> "create"
                                           [] user.op = "unlink" -> "delete"
  OBVIOUS
<1>1. /\ UNCHANGED <<disk, cloud, up, list, dl>> /\ user.pc = "queue"
      /\ db' = QueueOp(db, op, p) /\ user' = UserIdle
  BY <1>0 DEF UserQueues
<1>2. op \in {"update", "create", "delete"} /\ Sound(db)
  BY <1>0, <1>1 DEF Calmly, IInv, UserInv, DbInv
<1>3. db'.rows = db.rows
  BY <1>1, <1>2, QueueOpRows
<1>4. Still({}) /\ Sane(db')
  BY <1>1, <1>3, AtRest DEF Unblank, Sane
<1>5. UserFills'
  BY <1>1 DEF UserIdle, UserFills
<1>6. \A r : ~UserBrings(r) /\ ~UserTakes(r)
  BY <1>1 DEF UserBrings, UserTakes
<1> QED
  BY <1>1, <1>4, <1>5, <1>6, UserRound
-----------------------------------------------------------------------------
\* ---- The upload pass.
\* A pass that changes only its own state, and sends nothing.
LEMMA UpStays ==
    ASSUME Calmly, Unblank, UNCHANGED <<disk, user, list, dl>>, db'.rows = db.rows,
           Whole(cloud'), UpFills'
    PROVE  Unblank'
<1>1. Still({}) /\ Sane(db')
  BY AtRest DEF Unblank, Sane
<1> QED
  BY <1>1, UpRound

LEMMA ZerosUpQuiet ==
    ASSUME Calmly, Unblank, UpStart \/ UpAdopt \/ UpEnd
    PROVE  Unblank'
<1>1. UNCHANGED <<db, disk, cloud, user, list, dl>>
  BY Zenon DEF UpStart, UpAdopt, UpEnd
<1>2. up'.pc \in {"idle", "pass", "clean"}
  <2>1. IInv
    BY DEF Calmly
  <2>2. CASE UpStart
    BY <2>2 DEF UpStart, UpIdle
  <2>3. CASE UpAdopt
    BY <2>1, <2>3, UpFields, Zenon DEF UpAdopt
  <2>4. CASE UpEnd
    BY <2>4 DEF UpEnd, UpIdle
  <2> QED
    BY <2>2, <2>3, <2>4
<1>3. UpFills' /\ Whole(cloud')
  BY <1>1, <1>2 DEF UpFills, Unblank
<1> QED
  BY <1>1, <1>3, UpStays

LEMMA DeleteWhole ==
    ASSUME NEW c, Whole(c), NEW i  PROVE Whole(Delete(c, i))
BY DEF Whole, Delete

LEMMA ZerosUpTombstone ==
    ASSUME Calmly, Unblank, UpTombstone
    PROVE  Unblank'
<1>1. UNCHANGED <<db, disk, user, list, dl>> /\ up.pc = "pass"
  BY DEF UpTombstone
<1>2. PICK t \in up.tombs : /\ cloud' = Delete(cloud, t.id) \/ UNCHANGED cloud
                            /\ \/ up' = [up EXCEPT !.pc = "forget", !.path = t.path, !.node = t]
                               \/ up' = [up EXCEPT !.tombs = @ \ {t}]
  BY Zenon DEF UpTombstone
<1>3. up'.pc \in {"pass", "forget"}
  BY <1>1, <1>2, UpFields, Zenon DEF Calmly
<1>4. Whole(cloud')
  BY <1>2, DeleteWhole DEF Unblank
<1>5. UpFills'
  BY <1>3 DEF UpFills
<1> QED
  BY <1>1, <1>4, <1>5, UpStays

\* A row that goes, or comes to be a pending delete, says nothing of a file.
LEMMA ZerosUpForget ==
    ASSUME Calmly, Unblank, UpForget \/ UpMissing
    PROVE  Unblank'
<1>0. PICK p : p = up.path
  OBVIOUS
<1>1. /\ UNCHANGED <<disk, cloud, user, list, dl>> /\ up.pc \in {"forget", "missing"}
      /\ db' = RemoveSubtree(db, p) \/ db' = MarkTombstone(db, p)
      /\ up'.pc = "pass"
  BY <1>0, UpFields, Zenon DEF UpForget, UpMissing, UpPass, Calmly
<1>2. p \in Top /\ Sound(db) /\ Sane(db)
  BY <1>0, <1>1 DEF Calmly, IInv, UpInv, DbInv, Unblank
<1>3. /\ RowsKept(db, db', DOMAIN disk, {p}) /\ Alike(db, db', {p})
      /\ ~Live(db', p) /\ Sane(db')
  <2>1. CASE db' = MarkTombstone(db, p)
    <3> DEFINE row == [db.rows[p] EXCEPT !.dirty = TRUE, !.tomb = TRUE]
    <3>1. db' = UpdateRow(db, p, row)
      BY <2>1 DEF MarkTombstone
    <3>2. ASSUME Has(db, p)  PROVE row.tomb /\ Proper(row)
      BY <1>2, <3>2 DEF Sound, StoreType, Entry, Has, Sane, Proper
    <3> HIDE DEF row
    <3> QED
      BY <1>2, <3>1, <3>2, UpdateRowFace, UpdateSane, Zenon
  <2>2. CASE db' = RemoveSubtree(db, p)
    BY <1>2, <2>2, RemoveFace, RemoveSane, Zenon DEF Live
  <2> QED
    BY <1>1, <2>1, <2>2
<1>4. Still({p})
  BY <1>1, <1>3, DataSame, StillThere
<1>5. Honest(p)' /\ Filed(p)' /\ UpFills'
  BY <1>1, <1>3 DEF Honest, Filed, Held, UpFills
<1>6. {p} \subseteq UpHolds /\ Whole(cloud')
  BY <1>0, <1>1 DEF UpHolds, Unblank
<1>7. UNCHANGED <<user, list, dl>>
  BY <1>1
<1> QED
  BY <1>3, <1>4, <1>5, <1>6, <1>7, UpRound

\* The pass is about to send a file whose row is dirty: it has its content, or
\* the pass would leave it alone.
LEMMA ZerosUpFile ==
    ASSUME Calmly, Unblank, UpFile
    PROVE  Unblank'
<1>1. UNCHANGED <<disk, cloud, user, list, dl>> /\ up.pc = "pass"
  BY ZenonT(30) DEF UpFile
<1>2. Sound(db) /\ Sane(db)
  BY DEF Calmly, IInv, DbInv, Unblank
<1> DEFINE at(p, pc) == [up EXCEPT !.pc = pc, !.todo = @ \ {p}, !.path = p,
                                   !.node = NodeOf(p), !.changed = Changed(p)]
           skip(p) == [up EXCEPT !.todo = @ \ {p}]
<1>3. PICK p \in up.todo :
         \/ up' = skip(p) /\ UNCHANGED db
         \/ Live(db, p) /\ up' = at(p, "missing") /\ UNCHANGED db
         \/ /\ Live(db, p) /\ ~NoContent(p)
            /\ db' = IF Changed(p) /\ ~db.rows[p].hydrated
                     THEN MarkHydrated(db, p, disk[p].stamp) ELSE db
            /\ up' = at(p, IF Renamed(p) THEN "move"
                           ELSE IF Changed(p) THEN "replace" ELSE "adopt")
  BY Zenon DEF UpFile
<1>4. ASSUME NEW pc  PROVE at(p, pc).pc = pc /\ at(p, pc).path = p /\ (at(p, pc).changed <=> Changed(p))
  BY UpFields DEF Calmly
<1>5. skip(p).pc = "pass"
  BY <1>1, UpFields DEF Calmly
<1> HIDE DEF at, skip
<1>6. CASE up' = skip(p) /\ UNCHANGED db
  BY <1>1, <1>5, <1>6, UpStays DEF UpFills, Unblank
<1>7. CASE Live(db, p) /\ up' = at(p, "missing") /\ UNCHANGED db
  BY <1>1, <1>4, <1>7, UpStays DEF UpFills, Unblank
<1>8. CASE /\ Live(db, p) /\ ~NoContent(p)
           /\ db' = IF Changed(p) /\ ~db.rows[p].hydrated
                    THEN MarkHydrated(db, p, disk[p].stamp) ELSE db
           /\ up' = at(p, IF Renamed(p) THEN "move"
                          ELSE IF Changed(p) THEN "replace" ELSE "adopt")
  <2>1. p \in Top /\ Proper(db.rows[p])
    BY <1>2, <1>8 DEF Sound, Live, Has, Sane
  <2>2. Changed(p) => db.rows[p].hydrated
    BY <1>8, <2>1 DEF NoContent, Proper
  <2>3. UNCHANGED db
    BY <1>8, <2>2
  <2>4. /\ up'.pc = IF Renamed(p) THEN "move" ELSE IF Changed(p) THEN "replace" ELSE "adopt"
        /\ up'.path = p /\ (up'.changed <=> Changed(p))
    BY <1>4, <1>8
  <2>5. CASE Changed(p)
    <3>1. Held(db, p)
      BY <1>8, <2>2, <2>5 DEF Held
    <3>2. p \in UpSends'
      BY <2>4, <2>5 DEF UpSends
    <3>3. ~Meets(UserSwaps, UpSends' \union UpRecords') /\ ~Meets(UpSends', ListHolds)
      BY <1>1 DEF Calmly, Undisturbed, Overlap, UserSwaps, UserHolds, ListHolds
    <3>4. p \notin ListHolds /\ p \notin UserSwaps
      BY <2>1, <3>2, <3>3, Places DEF Meets
    <3>5. ~ListBrings(p)
      BY <3>4 DEF ListBrings, ListHolds
    <3>6. ~Blank(p)
      <4>1. CASE UserBrings(p)
        <5>1. user.op \in {"write", "create"} /\ p = user.path /\ user.pc = "record"
          BY <3>4, <4>1 DEF UserBrings, UserSwaps, UserHolds
        <5> QED
          BY <5>1 DEF Unblank, UserFills, Blank
      <4>2. CASE ~UserBrings(p)
        BY <2>1, <3>1, <3>5, <4>2 DEF Unblank, Filled, Honest
      <4> QED
        BY <4>1, <4>2
    <3>7. UpFills'
      BY <1>1, <2>4, <3>6 DEF UpFills, Blank
    <3> QED
      BY <1>1, <2>3, <3>7, UpStays DEF Unblank
  <2>6. CASE ~Changed(p)
    <3>1. up'.pc \in {"move", "adopt"} /\ ~up'.changed
      BY <2>4, <2>6
    <3>2. UpFills'
      BY <3>1 DEF UpFills
    <3> QED
      BY <1>1, <2>3, <3>2, UpStays DEF Unblank
  <2> QED
    BY <2>5, <2>6
<1> QED
  BY Zenon, <1>3, <1>6, <1>7, <1>8

LEMMA RelocateWhole ==
    ASSUME NEW c, CloudOK(c), Whole(c), NEW i, NEW p  PROVE Whole(Relocate(c, i, p))
<1> DEFINE new == Relocate(c, i, p)
<1>1. ASSUME NEW j \in DOMAIN c  PROVE new[j].data = c[j].data /\ new[j].kind = c[j].kind
  <2>1. c[j] \in Item
    BY DEF CloudOK
  <2> QED
    BY <2>1 DEF Relocate, Item
<1>2. DOMAIN new = DOMAIN c
  BY DEF Relocate
<1> HIDE DEF new
<1> QED
  BY <1>1, <1>2 DEF Whole, new

LEMMA CreateWhole ==
    ASSUME NEW c, Whole(c), NEW i, NEW p, NEW data, data # Hole, NEW stamp
    PROVE  Whole(Create(c, i, p, "file", data, stamp))
<1> DEFINE new == Create(c, i, p, "file", data, stamp)
<1>1. /\ DOMAIN new = DOMAIN c \union {i}
      /\ new[i].data = data /\ new[i].kind = "file"
      /\ \A j \in DOMAIN c : j # i => new[j] = c[j]
  BY DEF Create
<1> HIDE DEF new
<1> QED
  BY <1>1 DEF Whole, new

LEMMA ModifyWhole ==
    ASSUME NEW c, CloudOK(c), Whole(c), NEW i \in DOMAIN c, NEW data, data # Hole, NEW stamp
    PROVE  Whole(Modify(c, i, data, stamp))
<1> DEFINE new == Modify(c, i, data, stamp)
<1>1. c[i] \in Item
  BY DEF CloudOK
<1>2. /\ DOMAIN new = DOMAIN c
      /\ new[i].data = data /\ new[i].kind = c[i].kind
      /\ \A j \in DOMAIN c : j # i => new[j] = c[j]
  BY <1>1, Zenon DEF Modify, Item
<1> HIDE DEF new
<1> QED
  BY <1>2 DEF Whole, new

LEMMA ZerosUpMove ==
    ASSUME Calmly, Unblank, UpMove
    PROVE  Unblank'
<1>1. UNCHANGED <<db, disk, user, list, dl>> /\ up.pc = "move" /\ CloudInv
  BY DEF UpMove, Calmly, IInv
<1>2. Whole(cloud')
  <2>1. cloud' = Relocate(cloud, up.node.id, up.path) \/ UNCHANGED cloud
    BY DEF UpMove
  <2> QED
    BY <1>1, <2>1, RelocateWhole DEF Unblank, CloudInv
<1>3. UpFills'
  <2>1. CASE up' = UpPass
    BY <2>1, UpFields DEF Calmly, UpFills
  <2>2. CASE up' = [up EXCEPT !.pc = IF up.changed THEN "replace" ELSE "adopt",
                              !.node = IF Has(db, up.path) THEN NodeOf(up.path) ELSE @]
    <3>1. /\ up'.pc = IF up.changed THEN "replace" ELSE "adopt"
          /\ up'.path = up.path /\ up'.changed = up.changed
      BY <2>2, UpFields DEF Calmly
    <3> QED
      BY <1>1, <3>1 DEF Unblank, UpFills, Blank
  <2> QED
    BY <2>1, <2>2 DEF UpMove
<1> QED
  BY <1>1, <1>2, <1>3, UpStays

\* What is sent is not zeros.
LEMMA ZerosUpSend ==
    ASSUME Calmly, Unblank, UpReplace \/ UpSend
    PROVE  Unblank'
<1>1. UNCHANGED <<db, disk, user, list, dl>> /\ up.pc \in {"replace", "send"}
  BY DEF UpReplace, UpSend
<1>2. ~Blank(up.path)
  BY <1>1 DEF Unblank, UpFills
<1>3. Whole(cloud')
  <2>1. CASE UpReplace
    <3>1. cloud' = Delete(cloud, up.node.id) \/ UNCHANGED cloud
      BY <2>1 DEF UpReplace
    <3> QED
      BY <3>1, DeleteWhole DEF Unblank
  <2>2. CASE UpSend
    <3>1. \/ UNCHANGED cloud
          \/ /\ up.path \in DOMAIN disk
             /\ \E q : cloud' = Create(cloud, lastId + 1, q, "file",
                                       disk[up.path].data, disk[up.path].stamp)
      BY <2>2 DEF UpSend
    <3>2. PICK i, data, stamp : i = lastId + 1 /\ data = disk[up.path].data
                                /\ stamp = disk[up.path].stamp
      OBVIOUS
    <3>3. up.path \in DOMAIN disk => data # Hole
      BY <1>2, <3>2 DEF Blank
    <3> QED
      BY <3>1, <3>2, <3>3, CreateWhole DEF Unblank
  <2> QED
    BY <2>1, <2>2
<1>4. up'.pc \in {"pass", "send", "meta"} /\ (up'.pc = "send" => up'.path = up.path)
  BY UpFields, Zenon DEF UpReplace, UpSend, Calmly
<1>5. UpFills'
  BY <1>1, <1>2, <1>4 DEF UpFills, Blank
<1> QED
  BY <1>1, <1>3, <1>5, UpStays

LEMMA ZerosUpMeta ==
    ASSUME Calmly, Unblank, UpMeta
    PROVE  Unblank'
<1>0. PICK p : p = up.path
  OBVIOUS
<1>1. UNCHANGED <<cloud, user, list, dl>> /\ up.pc = "meta"
  BY Zenon DEF UpMeta
<1>2. p \in Top /\ Sound(db) /\ Sane(db)
  BY <1>0, <1>1 DEF Calmly, IInv, UpInv, DbInv, Unblank
<1>3. up'.pc \in {"pass", "clean"}
  <2>1. up' = UpPass \/ \E i \in IdsAt(cloud, up.path) :
                           up' = [up EXCEPT !.pc = "clean", !.node = Node(cloud, i)]
    BY Zenon DEF UpMeta
  <2> QED
    BY <2>1, UpFields, Zenon DEF Calmly
<1>4. UpFills' /\ Whole(cloud')
  BY <1>1, <1>3 DEF UpFills, Unblank
<1>5. CASE UNCHANGED <<db, disk>>
  BY <1>1, <1>4, <1>5, UpStays
<1>6. CASE /\ p \in DOMAIN disk
           /\ \E i \in IdsAt(cloud, p) : disk' = [disk EXCEPT ![p].stamp = cloud[i].stamp]
           /\ UNCHANGED db
  <2>1. PICK i \in IdsAt(cloud, p) : disk' = [disk EXCEPT ![p].stamp = cloud[i].stamp]
    BY <1>6, Zenon
  <2>2. disk[p] \in File
    BY <1>6 DEF Calmly, IInv, DiskInv
  <2>3. SameData({})
    BY <2>1, <2>2 DEF SameData, File
  <2>4. Still({}) /\ Sane(db')
    BY <1>2, <1>6, <2>3, StillThere
  <2> QED
    BY <1>1, <1>4, <2>4, UpRound
<1>7. CASE /\ \E i \in IdsAt(cloud, p) :
                db' = MarkUploadedButDirty(db, p, Node(cloud, i), Crawling)
           /\ UNCHANGED disk
  <2>1. PICK i \in IdsAt(cloud, p) :
           db' = MarkUploadedButDirty(db, p, Node(cloud, i), Crawling)
    BY <1>7
  <2>2. PICK node, recent : node = Node(cloud, i) /\ recent = Crawling
    OBVIOUS
  <2> DEFINE row == [db.rows[p] EXCEPT !.id = node.id, !.etag = node.etag,
                                       !.synced = p, !.recent = recent]
  <2>3. node.id # NoId
    BY <2>1, <2>2 DEF Node, IdsAt, Calmly, IInv, CloudInv, CloudOK
  <2>4. db' = UpdateRow(db, p, row)
    BY <2>1, <2>2 DEF MarkUploadedButDirty
  <2>5. ASSUME Has(db, p)
        PROVE  row.tomb = db.rows[p].tomb /\ row.hydrated = db.rows[p].hydrated /\ Proper(row)
    BY <1>2, <2>3, <2>5 DEF Sound, StoreType, Entry, Has, Sane, Proper
  <2> HIDE DEF row
  <2>6. \A q : /\ Live(UpdateRow(db, p, row), q) <=> Live(db, q)
               /\ Held(UpdateRow(db, p, row), q) <=> Held(db, q)
    BY <1>2, <2>5, UpdateStill
  <2>7. Still({})
    BY <1>7, <2>4, <2>6, DataSame, StillThere
  <2>8. Sane(db')
    BY <1>2, <2>4, <2>5, UpdateSane
  <2> QED
    BY <1>1, <1>4, <2>7, <2>8, UpRound
<1> QED
  BY <1>0, <1>5, <1>6, <1>7, Zenon DEF UpMeta

LEMMA ZerosUpClean ==
    ASSUME Calmly, Unblank, UpClean
    PROVE  Unblank'
<1>0. PICK p, node, recent : p = up.path /\ node = up.node /\ recent = Crawling
  OBVIOUS
<1>1. /\ UNCHANGED <<disk, cloud, user, list, dl>> /\ up.pc = "clean"
      /\ db' = MarkClean(db, p, node, recent)
      /\ up'.pc = "pass"
  BY <1>0, UpFields DEF UpClean, Calmly
<1>2. Sound(db) /\ Sane(db) /\ node.id # NoId
  BY <1>0, <1>1 DEF Calmly, IInv, UpInv, DbInv, Unblank
<1>3. Live(db, p)
  BY <1>0, <1>1 DEF Calmly, Paired, UpSees
<1>4. db.rows[p] \in Entry /\ Proper(db.rows[p])
  BY <1>2, <1>3 DEF Sound, StoreType, Live, Has, Sane
<1>5. Still({}) /\ Sane(db')
  <2> DEFINE row == [db.rows[p] EXCEPT !.dirty = FALSE, !.tomb = FALSE,
                         !.hydrated = @ \/ db.rows[p].kind # "file",
                         !.id = node.id, !.etag = node.etag, !.stamp = node.stamp,
                         !.synced = p, !.recent = recent]
             new == UpdateRow(db, p, row)
  <2>1. db'.rows = new.rows
    BY <1>1, <1>2 DEF MarkClean, UpdateRow, Sound, StoreType
  <2>2. row.tomb = db.rows[p].tomb /\ row.hydrated = db.rows[p].hydrated
    BY <1>3, <1>4, Zenon DEF Entry, Live, Proper
  <2>3. Proper(row)
    BY <1>2, <1>4 DEF Entry, Proper
  <2> HIDE DEF row
  <2>4. \A q : (Live(new, q) <=> Live(db, q)) /\ (Held(new, q) <=> Held(db, q))
    BY <1>2, <2>2, UpdateStill
  <2>5. Sane(new)
    BY <1>2, <2>3, UpdateSane
  <2> HIDE DEF new
  <2>6. \A q : (Live(db', q) <=> Live(db, q)) /\ (Held(db', q) <=> Held(db, q))
    BY <2>1, <2>4 DEF Live, Held, Has
  <2> QED
    BY <1>1, <2>1, <2>5, <2>6, DataSame, StillThere DEF Sane
<1>6. UpFills' /\ Whole(cloud')
  BY <1>1 DEF UpFills, Unblank
<1>7. UNCHANGED <<user, list, dl>>
  BY <1>1
<1> QED
  BY <1>5, <1>6, <1>7, UpRound

\* ---- A listing applied.
LEMMA ListLooks ==
    ASSUME Calmly, Unblank, UNCHANGED <<db, disk, cloud, user, up, dl>>,
           \A p : ~ListBrings(p) /\ ~ListTakes(p), ListFills'
    PROVE  Unblank'
<1>1. Still({}) /\ Sane(db')
  BY AtRest DEF Unblank
<1> QED
  BY <1>1, ListRound

\* iCloud lists files, and never zeros.
LEMMA ZerosListStart ==
    ASSUME Calmly, Unblank, ListStart
    PROVE  Unblank'
<1>1. /\ UNCHANGED <<disk, cloud, user, up, dl>> /\ list.pc = "idle"
      /\ list'.pc = "items" /\ list'.items = Children(cloud, Root) /\ list'.node = NoNode
  BY DEF ListStart, ListIdle
<1>2. Still({}) /\ Sane(db')
  <2> DEFINE rows == [p \in DOMAIN db.rows |-> [db.rows[p] EXCEPT !.recent = FALSE]]
  <2>1. Sound(db) /\ Sane(db)
    BY DEF Calmly, IInv, DbInv, Unblank
  <2>2. db'.rows = rows
    BY <2>1 DEF ListStart, Sound, StoreType
  <2>3. /\ DOMAIN rows = DOMAIN db.rows
        /\ \A p \in DOMAIN rows : /\ rows[p].tomb = db.rows[p].tomb /\ rows[p].id = db.rows[p].id
                                  /\ rows[p].kind = db.rows[p].kind
                                  /\ rows[p].hydrated = db.rows[p].hydrated
    BY <2>1 DEF Sound, StoreType, Entry
  <2> HIDE DEF rows
  <2>4. \A p : (Live(db', p) <=> Live(db, p)) /\ (Held(db', p) <=> Held(db, p))
    BY <2>2, <2>3 DEF Live, Held, Has
  <2>5. Sane(db')
    BY <2>1, <2>2, <2>3 DEF Sane, Proper
  <2> QED
    BY <1>1, <2>4, <2>5, DataSame, StillThere
<1>3. ListFills'
  <2>1. \A n \in Children(cloud, Root) : n.kind = "file"
    BY DEF Children, Node, Unblank, Whole
  <2> QED
    BY <1>1, <2>1 DEF ListFills, NoNode
<1>4. \A p : ~ListBrings(p) /\ ~ListTakes(p)
  BY <1>1 DEF ListBrings, ListTakes
<1> QED
  BY <1>1, <1>2, <1>3, <1>4, ListRound

\* A clean row under its item's own path is as full as its file.
LEMMA ZerosListItem ==
    ASSUME Calmly, Unblank, ListItem
    PROVE  Unblank'
<1>1. UNCHANGED <<db, disk, cloud, user, up, dl>> /\ list.pc = "items"
  BY Zenon DEF ListItem
<1>3. \A p : ~ListBrings(p) /\ ~ListTakes(p)
  BY <1>1 DEF ListBrings, ListTakes
<1> SUFFICES ListFills'
  BY <1>1, <1>3, ListLooks
<1>4. PICK n \in list.items :
       LET now(pc) == [list EXCEPT !.pc = pc, !.items = @ \ {n}, !.node = n]
           rows == RowsWithId(db, n.id)
       IN  \/ rows = {} /\ list' = now("occupant")
           \/ \E e \in rows :
              LET row == db.rows[e]
                  at(pc) == [now(pc) EXCEPT !.at = e, !.stamp = row.stamp,
                                            !.hydrated = row.hydrated, !.recent = row.recent]
              IN  \/ /\ row.dirty /\ EntryConflicts(row, n)
                     /\ list' = [now("conflict") EXCEPT !.at = e, !.then = "occupant"]
                  \/ /\ row.dirty /\ ~EntryConflicts(row, n)
                     /\ list' = [list EXCEPT !.items = @ \ {n}]
                  \/ ~row.dirty /\ e # n.path /\ list' = at("relocate")
                  \/ /\ ~row.dirty /\ e = n.path
                     /\ list' = at(IF row.stamp = n.stamp /\ row.etag = n.etag
                                   THEN "store" ELSE "redo")
  BY ZenonT(60) DEF ListItem
<1> DEFINE now(pc) == [list EXCEPT !.pc = pc, !.items = @ \ {n}, !.node = n]
           at(pc, e) == [now(pc) EXCEPT !.at = e, !.stamp = db.rows[e].stamp,
                                        !.hydrated = db.rows[e].hydrated,
                                        !.recent = db.rows[e].recent]
           put(e) == [now("conflict") EXCEPT !.at = e, !.then = "occupant"]
           past == [list EXCEPT !.items = @ \ {n}]
<1>5. \/ list' = now("occupant")
      \/ \E e \in RowsWithId(db, n.id) :
           \/ list' = put(e)
           \/ list' = past
           \/ list' = at("relocate", e)
           \/ ~db.rows[e].dirty /\ e = n.path /\ list' \in {at("store", e), at("redo", e)}
  BY Zenon, <1>4
<1>6. \A m \in list.items \union {list.node} : m.kind = "file"
  BY DEF Unblank, ListFills
<1>7. ASSUME NEW pc
      PROVE  now(pc).pc = pc /\ now(pc).node = n /\ now(pc).items \subseteq list.items
  BY ListFields DEF Calmly
<1>8. ASSUME NEW pc, NEW e
      PROVE  /\ at(pc, e).pc = pc /\ at(pc, e).node = n /\ at(pc, e).items \subseteq list.items
             /\ at(pc, e).hydrated = db.rows[e].hydrated
  BY ListFields DEF Calmly
<1>9. ASSUME NEW e
      PROVE  put(e).pc = "conflict" /\ put(e).node = n /\ put(e).items \subseteq list.items
  BY ListFields DEF Calmly
<1>10. past.pc = "items" /\ past.node = list.node /\ past.items \subseteq list.items
  BY <1>1, ListFields DEF Calmly
<1>11. n.id # NoId /\ n.path \in Top
  BY DEF Calmly, IInv, ListInv, ListState, ItemNode
<1> HIDE DEF now, at, put, past
<1>12. CASE list' = now("occupant")
  BY <1>6, <1>7, <1>12 DEF ListFills
<1>13. ASSUME NEW e, list' = put(e) \/ list' = past \/ list' \in {at("relocate", e), at("redo", e)}
       PROVE  ListFills'
  <2>1. /\ list'.pc \notin {"rekey", "detach", "store"}
        /\ list'.node \in {n, list.node} /\ list'.items \subseteq list.items
    BY <1>8, <1>9, <1>10, <1>13
  <2> QED
    BY <1>6, <2>1 DEF ListFills
<1>14. ASSUME NEW e \in RowsWithId(db, n.id), ~db.rows[e].dirty, e = n.path, list' = at("store", e)
       PROVE  ListFills'
  <2>1. /\ list'.pc = "store" /\ list'.node = n /\ list'.items \subseteq list.items
        /\ list'.hydrated = db.rows[e].hydrated
    BY <1>8, <1>14
  <2>2. e \in DOMAIN db.rows /\ e \in Top /\ Disciplined(db.rows[e], e) /\ db.rows[e] \in Entry
    BY <1>11, <1>14 DEF RowsWithId, Calmly, IInv, DbInv, Sound, StoreType
  <2>3. Live(db, e)
    BY <1>14, <2>2 DEF Disciplined, Live, Has, Entry
  <2>4. e \in ListHolds'
    BY <1>14, <2>1 DEF ListHolds
  <2>5. ~UserBrings(e)
    <3>1. ~Meets(UserHolds, UpHolds \union ListHolds' \union DlHolds)
      BY <1>1 DEF Calmly, Undisturbed, Overlap, UserHolds, UpHolds, DlHolds
    <3>2. e \notin UserHolds
      BY <2>2, <2>4, <3>1, Alone
    <3> QED
      BY <3>2 DEF UserBrings, UserHolds
  <2>6. db.rows[e].hydrated => ~Blank(e)
    BY <1>3, <2>2, <2>3, <2>5 DEF Unblank, Filled, Honest, Held
  <2>7. list'.hydrated => ~Blank(e)'
    BY <1>1, <1>14, <2>1, <2>6 DEF Blank
  <2>8. list'.node.path = e
    BY <1>14, <2>1
  <2> QED
    BY <1>6, <2>1, <2>7, <2>8 DEF ListFills, Blank
<1> QED
  BY ZenonT(60), <1>5, <1>12, <1>13, <1>14

\* What a conflict puts aside has its content if its row says so.
LEMMA ZerosListConflict ==
    ASSUME Calmly, Unblank, ListConflict
    PROVE  Unblank'
<1>0. PICK p, q : p = list.at /\ q = Pick(FreeConflicts)
  OBVIOUS
<1>1. /\ UNCHANGED <<db, cloud, user, up, dl>> /\ list.pc = "conflict"
      /\ list' = [list EXCEPT !.pc = "detach", !.to = q]
      /\ q \in FreeConflicts
  BY <1>0, Picked DEF ListConflict
<1>2. /\ list'.pc = "detach" /\ list'.at = p /\ list'.to = q
      /\ list'.node = list.node /\ list'.items = list.items
  BY <1>0, <1>1, ListFields DEF Calmly
<1>3. /\ q \in Top /\ ~Has(db, q) /\ q \notin DOMAIN disk /\ p \in Top /\ Has(db, p)
  BY <1>0, <1>1, Names DEF FreeConflicts, Has, Calmly, IInv, ListInv, Paired, ListSees
<1>4. p # q /\ {p, q} \subseteq ListHolds'
  BY <1>2, <1>3 DEF ListHolds
<1>5. \A r : ~ListBrings(r) /\ ~ListTakes(r)
  BY <1>1 DEF ListBrings, ListTakes
<1>6. ~UserBrings(p) /\ ~UserTakes(p)
  <2>1. p \in ListHolds
    BY <1>0, <1>1 DEF ListHolds
  <2>2. p \notin UserHolds
    BY <1>3, <2>1, Alone DEF Calmly, Undisturbed, Overlap
  <2> QED
    BY <2>2 DEF UserBrings, UserTakes, UserHolds
<1>7. (Live(db, p) => p \in DOMAIN disk) /\ (Held(db, p) => ~Blank(p))
  BY <1>3, <1>5, <1>6 DEF Unblank, Filled, Honest, Filed, HasFile
<1>8. /\ SameData({p, q}) /\ ~HasFile(p)'
      /\ Live(db, p) => HasFile(q)'
      /\ Held(db, p) => ~Blank(q)'
  <2>1. CASE p \in DOMAIN disk
    <3>1. disk' = Moved(p, q)
      BY <1>0, <1>2, <2>1 DEF ListConflict
    <3>2. SameData({p, q}) /\ ~HasFile(p)' /\ HasFile(q)' /\ (Blank(q)' <=> Blank(p))
      BY <1>4, <2>1, <3>1, DataMoved
    <3> QED
      BY <1>7, <3>2
  <2>2. CASE p \notin DOMAIN disk
    <3>1. UNCHANGED disk
      BY <1>0, <2>2 DEF ListConflict
    <3> QED
      BY <1>7, <2>2, <3>1, DataSame DEF HasFile, Held
  <2> QED
    BY <2>1, <2>2
<1>9. Still({p, q}) /\ Sane(db')
  BY <1>1, <1>8, StillThere DEF Unblank
<1>10. Honest(p)' /\ Filed(p)' /\ Honest(q)' /\ Filed(q)'
  <2>1. ListTakes(p)' /\ ListBrings(q)'
    BY <1>2 DEF ListTakes, ListBrings
  <2>2. ~Live(db', q)
    BY <1>1, <1>3 DEF Live
  <2> QED
    BY <1>8, <2>1, <2>2 DEF Honest, Filed, Blank, HasFile
<1>11. ListFills'
  <2>1. \A n \in list'.items \union {list'.node} : n.kind = "file"
    BY <1>2 DEF Unblank, ListFills
  <2> QED
    BY <1>1, <1>2, <1>8, <2>1 DEF ListFills, Blank, HasFile
<1>12. UNCHANGED <<cloud, user, up, dl>>
  BY <1>1
<1> QED
  BY <1>4, <1>5, <1>9, <1>10, <1>11, <1>12, ListRound

\* The copy is new to iCloud and is sent: here is why it must not be zeros.
LEMMA ZerosListDetach ==
    ASSUME Calmly, Unblank, ~Strips, ListDetach
    PROVE  Unblank'
<1>0. PICK p, q : p = list.at /\ q = list.to
  OBVIOUS
<1>1. /\ UNCHANGED <<disk, cloud, user, up, dl>> /\ list.pc = "detach"
      /\ db' = QueueConflictCopies(DetachSubtreeAsConflict(db, p, q), q)
      /\ list'.pc = list.then /\ list'.node = list.node /\ list'.items = list.items
  BY <1>0, ListFields DEF ListDetach, Calmly
<1>2. /\ p \in Top /\ q \in Top /\ Sound(db) /\ Sane(db)
      /\ Has(db, p) /\ ~Has(db, q)
      /\ list.then \in {"occupant", "place"}
  BY <1>0, <1>1 DEF Calmly, IInv, DbInv, ListInv, ListState, Paired, ListSees, Unblank
<1>3. Held(db, p) /\ Full(db, p)
  BY <1>0, <1>1 DEF Strips, Held, Live, Full
<1>4. HasFile(q) /\ ~Blank(q)
  BY <1>0, <1>1, <1>3 DEF Unblank, ListFills, Held
<1>5. /\ RowsKept(db, db', DOMAIN disk, {p, q}) /\ Alike(db, db', {p, q})
      /\ ~Has(db', p) /\ Sane(db')
  <2> DEFINE new == DetachSubtreeAsConflict(db, p, q)
  <2>1. /\ RowsKept(db, new, DOMAIN disk, {p, q}) /\ ~Has(new, p)
        /\ Alike(db, new, {p, q})
    BY <1>2, DetachFace
  <2>2. Sane(new)
    BY <1>2, <1>3, DetachSane
  <2>3. DOMAIN new = {"rows", "ops"}
    BY <1>2 DEF DetachSubtreeAsConflict, Sound, StoreType
  <2> HIDE DEF new
  <2>4. db'.rows = new.rows /\ new.ops \subseteq db'.ops
    BY <1>1, <2>3 DEF QueueConflictCopies, new
  <2> QED
    BY <2>1, <2>2, <2>4 DEF RowsKept, Alike, Live, Known, Has, Sane, HasPendingContentChange
<1>6. Still({p, q})
  BY <1>1, <1>5, DataSame, StillThere
<1>7. Honest(p)' /\ Filed(p)' /\ Honest(q)' /\ Filed(q)'
  BY <1>1, <1>4, <1>5 DEF Honest, Filed, Held, Live, HasFile, Blank
<1>8. ListFills'
  BY <1>1, <1>2 DEF Unblank, ListFills
<1>9. \A r \in Top \ {p, q} : ~ListBrings(r) /\ ~ListTakes(r)
  BY <1>0, <1>1 DEF ListBrings, ListTakes
<1>10. {p, q} \subseteq ListHolds
  BY <1>0, <1>1 DEF ListHolds
<1>11. UNCHANGED <<cloud, user, up, dl>>
  BY <1>1
<1> QED
  BY <1>5, <1>6, <1>7, <1>8, <1>9, <1>10, <1>11, ListRound

LEMMA ZerosListOccupant ==
    ASSUME Calmly, Unblank, ListOccupant
    PROVE  Unblank'
<1>1. UNCHANGED <<db, disk, cloud, user, up, dl>> /\ list.pc = "occupant"
  BY DEF ListOccupant
<1>2. list'.pc \in {"conflict", "place"} /\ list'.node = list.node /\ list'.items = list.items
  <2>1. CASE list' = [list EXCEPT !.pc = "conflict", !.at = list.node.path, !.then = "place"]
    BY <2>1, ListFields DEF Calmly
  <2>2. CASE list' = [list EXCEPT !.pc = "place"]
    BY <2>2, ListFields DEF Calmly
  <2> QED
    BY <2>1, <2>2 DEF ListOccupant
<1>3. ListFills'
  BY <1>2 DEF Unblank, ListFills
<1>4. \A p : ~ListBrings(p) /\ ~ListTakes(p)
  BY <1>1 DEF ListBrings, ListTakes
<1> QED
  BY <1>1, <1>3, <1>4, ListLooks

\* The file moves, and its row will: it is as full at its new name.
LEMMA ZerosListRelocate ==
    ASSUME Calmly, Unblank, ListRelocate
    PROVE  Unblank'
<1>0. PICK p, q : p = list.at /\ q = list.node.path
  OBVIOUS
<1>1. /\ UNCHANGED <<db, cloud, user, up, dl>> /\ list.pc = "relocate"
      /\ list' = [list EXCEPT !.pc = "rekey"]
  BY DEF ListRelocate
<1>2. /\ list'.pc = "rekey" /\ list'.at = p /\ list'.node = list.node /\ list'.node.path = q
      /\ list'.items = list.items
  BY <1>0, <1>1, ListFields DEF Calmly
<1>3. p \in Top /\ q \in Top /\ Live(db, p) /\ p # q
  BY <1>0, <1>1 DEF Calmly, IInv, ListInv, ItemNode, Paired, ListSees, Known
<1>4. p \in ListHolds /\ q \in ListHolds
  BY <1>0, <1>1 DEF ListHolds
<1>5. ~UserBrings(p) /\ ~UserTakes(p)
  <2>1. p \notin UserHolds
    BY <1>3, <1>4, Alone DEF Calmly, Undisturbed, Overlap
  <2> QED
    BY <2>1 DEF UserBrings, UserTakes, UserHolds
<1>6. \A r : ~ListBrings(r) /\ ~ListTakes(r)
  BY <1>1 DEF ListBrings, ListTakes
<1>7. p \in DOMAIN disk /\ (Held(db, p) => ~Blank(p))
  BY <1>3, <1>5, <1>6 DEF Unblank, Filled, Honest, Filed, HasFile
<1>8. disk' = Moved(p, q)
  BY <1>0, <1>7 DEF ListRelocate
<1>9. SameData({p, q}) /\ ~HasFile(p)' /\ HasFile(q)' /\ (Blank(q)' <=> Blank(p))
  BY <1>3, <1>7, <1>8, DataMoved
<1>10. Still({p, q}) /\ Sane(db')
  BY <1>1, <1>9, StillThere DEF Unblank
<1>11. Honest(p)' /\ Filed(p)' /\ Honest(q)' /\ Filed(q)'
  <2>1. ListTakes(p)' /\ ListBrings(q)'
    BY <1>2 DEF ListTakes, ListBrings
  <2> QED
    BY <1>9, <2>1 DEF Honest, Filed, Blank, HasFile
<1>12. ListFills'
  <2>1. \A n \in list'.items \union {list'.node} : n.kind = "file"
    BY <1>2 DEF Unblank, ListFills
  <2> QED
    BY <1>1, <1>2, <1>7, <1>9, <2>1 DEF ListFills, Blank
<1>13. UNCHANGED <<cloud, user, up, dl>> /\ {p, q} \subseteq ListHolds
  BY <1>1, <1>4
<1> QED
  BY <1>6, <1>10, <1>11, <1>12, <1>13, ListRound

LEMMA ZerosListRekey ==
    ASSUME Calmly, Unblank, ListRekey
    PROVE  Unblank'
<1>0. PICK p, q, grave : /\ p = list.at /\ q = list.node.path
                         /\ grave = [r \in {list.node.path} |-> Pick(FreeGraves)]
  BY Zenon
<1>1. /\ UNCHANGED <<disk, cloud, user, up, dl>> /\ list.pc = "rekey"
      /\ db' = RenameTree(db, p, q, FALSE, TRUE, grave)
  BY <1>0 DEF ListRekey
<1>2. /\ p \in Top /\ q \in Top /\ p # q /\ Sound(db) /\ Sane(db) /\ Live(db, p)
      /\ HasFile(q)
  BY <1>0, <1>1
     DEF Calmly, IInv, DbInv, ListInv, ItemNode, Paired, ListSees, Known, Unblank
<1>3. grave[q] \in GravePath /\ ~Has(db, grave[q])
  <2>1. grave[q] \in FreeGraves
    BY <1>0, Picked DEF ListRekey
  <2> QED
    BY <2>1 DEF FreeGraves, GravePath, Has
<1>4. /\ RowsKept(db, db', DOMAIN disk, {p, q}) /\ Alike(db, db', {p, q})
      /\ ~Has(db', p) /\ Live(db', q)
  BY <1>1, <1>2, <1>3, RenameFace, Zenon
<1>5. Sane(db') /\ (Held(db', q) => Held(db, p))
  BY <1>1, <1>2, <1>3, RenameSane, Zenon
<1>6. /\ list'.pc \in {"store", "redo"} /\ list'.node = list.node /\ list'.items = list.items
      /\ list'.hydrated = db'.rows[q].hydrated
  <2> DEFINE row == db'.rows[list.node.path]
             read == IF Has(db', list.node.path)
                     THEN [list EXCEPT !.stamp = row.stamp, !.hydrated = row.hydrated,
                                       !.recent = row.recent]
                     ELSE list
  <2>1. list' = [read EXCEPT !.pc = IF read.stamp = list.node.stamp THEN "store" ELSE "redo"]
    BY DEF ListRekey
  <2>2. DOMAIN read = DOMAIN list /\ read.node = list.node /\ read.items = list.items
    BY ListFields DEF Calmly
  <2>3. read.hydrated = db'.rows[q].hydrated
    BY <1>0, <1>4, ListFields DEF Calmly, Live
  <2> HIDE DEF read
  <2> QED
    BY <2>1, <2>2, <2>3, ListFields DEF Calmly
<1>7. Held(db, p) => ~Blank(q)
  BY <1>0, <1>1 DEF Unblank, ListFills
<1>8. Still({p, q})
  BY <1>1, <1>4, DataSame, StillThere, Zenon
<1>9. Honest(p)' /\ Filed(p)' /\ Honest(q)' /\ Filed(q)'
  BY <1>1, <1>2, <1>4, <1>5, <1>7, Zenon DEF Honest, Filed, Held, Live, HasFile, Blank
<1>10. ListFills'
  <2>1. \A n \in list'.items \union {list'.node} : n.kind = "file"
    BY <1>6 DEF Unblank, ListFills
  <2>2. list'.hydrated => ~Blank(q)'
    BY <1>1, <1>4, <1>5, <1>6, <1>7, Zenon DEF Held, Blank
  <2>3. list'.node.path = q
    BY <1>0, <1>6
  <2> QED
    BY <1>6, <2>1, <2>2, <2>3 DEF ListFills, Blank
<1>11. \A r \in Top \ {p, q} : ~ListBrings(r) /\ ~ListTakes(r)
  BY <1>0, <1>1 DEF ListBrings, ListTakes
<1>12. UNCHANGED <<cloud, user, up, dl>> /\ {p, q} \subseteq ListHolds
  BY <1>0, <1>1 DEF ListHolds
<1> QED
  BY <1>5, <1>8, <1>9, <1>10, <1>11, <1>12, ListRound

\* The one place that writes zeros over a file: the row is to say so.
LEMMA ZerosListPlace ==
    ASSUME Calmly, Unblank, ListPlace
    PROVE  Unblank'
<1>0. PICK q, stamp : q = list.node.path /\ stamp = list.node.stamp
  OBVIOUS
<1>1. /\ UNCHANGED <<db, cloud, user, up, dl>> /\ list.pc \in {"place", "redo"}
      /\ list' = [list EXCEPT !.pc = "store", !.hydrated = FALSE]
      /\ disk' = Write(q, Hole, stamp)
  BY <1>0 DEF ListPlace
<1>2. /\ list'.pc = "store" /\ list'.node = list.node /\ list'.node.path = q
      /\ list'.items = list.items /\ ~list'.hydrated
  BY <1>0, <1>1, ListFields DEF Calmly
<1>3. SameData({q}) /\ HasFile(q)'
  BY <1>1, DataWritten
<1>4. Still({q}) /\ Sane(db')
  BY <1>1, <1>3, StillThere DEF Unblank
<1>5. ListBrings(q)'
  BY <1>2 DEF ListBrings
<1>6. Honest(q)' /\ Filed(q)'
  BY <1>3, <1>5 DEF Honest, Filed
<1>7. ListFills'
  BY <1>2 DEF Unblank, ListFills
<1>8. \A r : ~ListBrings(r) /\ ~ListTakes(r)
  BY <1>1 DEF ListBrings, ListTakes
<1>9. {q} \subseteq ListHolds
  BY <1>0, <1>1 DEF ListHolds
<1>10. UNCHANGED <<cloud, user, up, dl>>
  BY <1>1
<1> QED
  BY <1>4, <1>6, <1>7, <1>8, <1>9, <1>10, ListRound

LEMMA ZerosListStore ==
    ASSUME Calmly, Unblank, ListStore
    PROVE  Unblank'
<1>0. PICK q, row :
        /\ q = list.node.path
        /\ row = [FromRemote(list.node.path, list.node) EXCEPT !.hydrated = list.hydrated,
                                                               !.recent = list.recent]
  OBVIOUS
<1>1. /\ UNCHANGED <<disk, cloud, user, up, dl>> /\ list.pc = "store"
      /\ db' = UpsertEntry(db, q, row)
      /\ list'.pc = "items" /\ list'.node = NoNode /\ list'.items = list.items
  BY <1>0 DEF ListStore, ListItems, ListIdle
<1>2. q \in Top /\ HasFile(q) /\ Sound(db) /\ Sane(db)
  BY <1>0, <1>1 DEF Calmly, Paired, ListSees, IInv, DbInv, ListInv, ItemNode, Unblank
<1>3. /\ ~row.tomb /\ row.hydrated = list.hydrated
      /\ row.kind = list.node.kind /\ row.id = list.node.id
  BY <1>0 DEF FromRemote
<1>4. Proper(row)
  BY <1>1, <1>3 DEF Proper, Unblank, ListFills, Calmly, IInv, ListInv, ItemNode
<1>5. /\ RowsKept(db, db', DOMAIN disk, {q}) /\ Alike(db, db', {q})
  BY <1>1, <1>2, UpsertFace
<1>6. Sane(db') /\ (Held(db', q) => list.hydrated)
  BY <1>1, <1>2, <1>3, <1>4, UpsertSane
<1>7. Still({q})
  BY <1>1, <1>5, DataSame, StillThere
<1>8. list.hydrated => ~Blank(q)
  BY <1>0, <1>1 DEF Unblank, ListFills
<1>9. Honest(q)' /\ Filed(q)'
  BY <1>1, <1>2, <1>6, <1>8 DEF Honest, Filed, HasFile, Blank
<1>10. ListFills'
  BY <1>1 DEF Unblank, ListFills, NoNode
<1>11. \A r \in Top \ {q} : ~ListBrings(r) /\ ~ListTakes(r)
  BY <1>0, <1>1 DEF ListBrings, ListTakes
<1>12. UNCHANGED <<cloud, user, up, dl>> /\ {q} \subseteq ListHolds
  BY <1>0, <1>1 DEF ListHolds
<1> QED
  BY <1>6, <1>7, <1>9, <1>10, <1>11, <1>12, ListRound

LEMMA SweepIsEmpty ==
    ASSUME NEW rest
    PROVE  /\ Sweeping(rest).pc \in {"idle", "sweep"}
           /\ Sweeping(rest).items = {} /\ Sweeping(rest).node = NoNode
BY DEF Sweeping, ListIdle

LEMMA ZerosListApplied ==
    ASSUME Calmly, Unblank, ListApplied
    PROVE  Unblank'
<1>1. /\ UNCHANGED <<db, disk, cloud, user, up, dl>> /\ list.pc = "items"
      /\ list' = Sweeping(Verdicts)
  BY DEF ListApplied
<1>2. ListFills'
  BY <1>1, SweepIsEmpty DEF ListFills, NoNode
<1>3. \A p : ~ListBrings(p) /\ ~ListTakes(p)
  BY <1>1 DEF ListBrings, ListTakes
<1> QED
  BY <1>1, <1>2, <1>3, ListLooks

\* A row whose item is gone is new again only if its content is here.
LEMMA ZerosListSweep ==
    ASSUME Calmly, Unblank, ~Strips, ListSweep
    PROVE  Unblank'
<1>1. UNCHANGED <<cloud, user, up, dl>> /\ list.pc = "sweep"
  BY DEF ListSweep
<1>2. PICK v \in list.sweep :
         \/ /\ v.verdict = "forget"
            /\ db' = RemoveSubtree(db, v.path)
            /\ list' = Sweeping(list.sweep \ {v}) /\ UNCHANGED disk
         \/ /\ v.verdict = "renew"
            /\ db' = ClearRemoteIdentity(db, v.path)
            /\ list' = Sweeping(list.sweep \ {v}) /\ UNCHANGED disk
         \/ /\ v.verdict = "remove"
            /\ disk' = Remove(v.path)
            /\ list' = [list EXCEPT !.pc = "unrow", !.at = v.path] /\ UNCHANGED db
  BY Zenon DEF ListSweep
<1>3. PICK p : p = v.path
  OBVIOUS
<1>4. p \in Top /\ Sound(db) /\ Sane(db) /\ {p} \subseteq ListHolds
  BY <1>3 DEF Calmly, IInv, DbInv, ListInv, ListState, ListHolds, Unblank
<1>5. \A r : ~ListBrings(r) /\ ~ListTakes(r)
  BY <1>1 DEF ListBrings, ListTakes
<1>6. CASE /\ v.verdict = "forget"
           /\ db' = RemoveSubtree(db, v.path)
           /\ list' = Sweeping(list.sweep \ {v}) /\ UNCHANGED disk
  <2>1. /\ RowsKept(db, db', DOMAIN disk, {p}) /\ Alike(db, db', {p})
        /\ ~Has(db', p) /\ Sane(db')
    BY <1>3, <1>4, <1>6, RemoveFace, RemoveSane
  <2>2. Still({p})
    BY <1>6, <2>1, DataSame, StillThere
  <2>3. Honest(p)' /\ Filed(p)'
    BY <2>1 DEF Honest, Filed, Held, Live
  <2>4. ListFills'
    BY <1>6, SweepIsEmpty DEF ListFills, NoNode
  <2> QED
    BY <1>1, <1>4, <1>5, <2>1, <2>2, <2>3, <2>4, ListRound
<1>7. CASE /\ v.verdict = "renew"
           /\ db' = ClearRemoteIdentity(db, v.path)
           /\ list' = Sweeping(list.sweep \ {v}) /\ UNCHANGED disk
  <2> DEFINE row == [db.rows[p] EXCEPT !.id = NoId, !.etag = 0, !.synced = NoPath,
                                       !.dirty = TRUE, !.tomb = FALSE]
  <2>1. Held(db, p)
    BY <1>1, <1>3, <1>7 DEF Strips
  <2>2. db' = UpdateRow(db, p, row)
    BY <1>3, <1>7 DEF ClearRemoteIdentity
  <2>3. db.rows[p] \in Entry /\ Proper(db.rows[p]) /\ ~db.rows[p].tomb /\ db.rows[p].hydrated
    BY <1>4, <2>1 DEF Held, Live, Has, Sound, StoreType, Sane
  <2>4. row.tomb = db.rows[p].tomb /\ row.hydrated = db.rows[p].hydrated /\ Proper(row)
    BY <2>3, Zenon DEF Entry, Proper
  <2> HIDE DEF row
  <2>5. \A q : (Live(db', q) <=> Live(db, q)) /\ (Held(db', q) <=> Held(db, q))
    BY <1>4, <2>2, <2>4, UpdateStill
  <2>6. Sane(db')
    BY <1>4, <2>2, <2>4, UpdateSane
  <2>7. Still({})
    BY <1>7, <2>5, DataSame, StillThere
  <2>8. ListFills'
    BY <1>7, SweepIsEmpty DEF ListFills, NoNode
  <2> QED
    BY <1>1, <1>5, <2>6, <2>7, <2>8, ListRound
<1>8. CASE /\ v.verdict = "remove"
           /\ disk' = Remove(v.path)
           /\ list' = [list EXCEPT !.pc = "unrow", !.at = v.path] /\ UNCHANGED db
  <2>1. /\ list'.pc = "unrow" /\ list'.at = p
        /\ list'.node = list.node /\ list'.items = list.items
    BY <1>3, <1>8, ListFields DEF Calmly
  <2>2. SameData({p}) /\ ~HasFile(p)'
    BY <1>3, <1>8, DataRemoved
  <2>3. Still({p}) /\ Sane(db')
    BY <1>8, <2>2, StillThere DEF Unblank
  <2>4. ListTakes(p)'
    BY <2>1 DEF ListTakes
  <2>5. Honest(p)' /\ Filed(p)'
    BY <2>2, <2>4 DEF Honest, Filed, Blank, HasFile
  <2>6. ListFills'
    BY <2>1 DEF Unblank, ListFills
  <2> QED
    BY <1>1, <1>4, <1>5, <2>3, <2>5, <2>6, ListRound
<1> QED
  BY <1>2, <1>6, <1>7, <1>8

LEMMA ZerosListUnrow ==
    ASSUME Calmly, Unblank, ListUnrow
    PROVE  Unblank'
<1>0. PICK p : p = list.at
  OBVIOUS
<1>1. /\ UNCHANGED <<disk, cloud, user, up, dl>> /\ list.pc = "unrow"
      /\ db' = RemoveSubtree(db, p)
      /\ list' = Sweeping({v \in list.sweep : v.path # p})
  BY <1>0 DEF ListUnrow
<1>2. p \in Top /\ Sound(db) /\ Sane(db)
  BY <1>0, <1>1 DEF Calmly, IInv, DbInv, ListInv, Unblank
<1>3. /\ RowsKept(db, db', DOMAIN disk, {p}) /\ Alike(db, db', {p})
      /\ ~Has(db', p) /\ Sane(db')
  BY <1>1, <1>2, RemoveFace, RemoveSane
<1>4. Still({p})
  BY <1>1, <1>3, DataSame, StillThere
<1>5. Honest(p)' /\ Filed(p)'
  BY <1>3 DEF Honest, Filed, Held, Live
<1>6. ListFills'
  BY <1>1, SweepIsEmpty DEF ListFills, NoNode
<1>7. \A r \in Top \ {p} : ~ListBrings(r) /\ ~ListTakes(r)
  BY <1>0, <1>1 DEF ListBrings, ListTakes
<1>8. UNCHANGED <<cloud, user, up, dl>> /\ {p} \subseteq ListHolds
  BY <1>0, <1>1 DEF ListHolds
<1> QED
  BY <1>3, <1>4, <1>5, <1>6, <1>7, <1>8, ListRound

\* ---- A download brings what iCloud has.
LEMMA ZerosDlReads ==
    ASSUME Calmly, Unblank, DlStart \/ DlOpen \/ DlCheck
    PROVE  Unblank'
<1>1. UNCHANGED <<db, disk, cloud, user, up, list>>
  BY Zenon DEF DlStart, DlOpen, DlCheck
<1>2. DlFills'
  <2>1. CASE DlStart
    BY <2>1, Zenon DEF DlStart, DlIdle, DlFills
  <2>2. CASE DlOpen
    <3>1. CASE dl' = DlIdle
      BY <3>1 DEF DlIdle, DlFills
    <3>2. CASE dl.node.id \in DOMAIN cloud
               /\ dl' = [dl EXCEPT !.pc = "check", !.data = cloud[dl.node.id].data]
      <4>1. dl'.pc = "check" /\ dl'.data = cloud[dl.node.id].data
        BY <3>2, DlFields DEF Calmly
      <4> QED
        BY <3>2, <4>1 DEF DlFills, Unblank, Whole
    <3> QED
      BY <2>2, <3>1, <3>2, Zenon DEF DlOpen
  <2>3. CASE DlCheck
    <3>1. CASE dl' = DlIdle
      BY <3>1 DEF DlIdle, DlFills
    <3>2. CASE dl' = [dl EXCEPT !.pc = "commit"]
      <4>1. dl'.pc = "commit" /\ dl'.data = dl.data
        BY <3>2, DlFields DEF Calmly
      <4> QED
        BY <2>3, <4>1 DEF DlCheck, DlFills, Unblank
    <3> QED
      BY <2>3, <3>1, <3>2 DEF DlCheck
  <2> QED
    BY <2>1, <2>2, <2>3
<1>3. Still({}) /\ Sane(db')
  BY <1>1, AtRest DEF Unblank
<1> QED
  BY <1>1, <1>2, <1>3, DlRound

LEMMA ZerosDlCommit ==
    ASSUME Calmly, Unblank, DlCommit
    PROVE  Unblank'
<1>0. PICK p, data, stamp : p = dl.path /\ data = dl.data /\ stamp = dl.node.stamp
  OBVIOUS
<1>1. /\ UNCHANGED <<db, cloud, user, up, list>> /\ dl.pc = "commit"
      /\ disk' = Write(p, data, stamp)
      /\ dl' = [dl EXCEPT !.pc = "mark"]
  BY <1>0 DEF DlCommit
<1>2. dl'.pc = "mark" /\ dl'.path = p
  BY <1>0, <1>1, DlFields DEF Calmly
<1>3. data # Hole
  BY <1>0, <1>1 DEF Unblank, DlFills
<1>4. SameData({p}) /\ HasFile(p)' /\ ~Blank(p)'
  <2>1. disk' = Write(p, data, stamp)
    BY <1>1
  <2>2. SameData({p}) /\ HasFile(p)' /\ (Blank(p)' <=> data = Hole)
    BY <2>1, DataWritten
  <2> QED
    BY <1>3, <2>2
<1>5. Still({p}) /\ Sane(db')
  BY <1>1, <1>4, StillThere DEF Unblank
<1>6. Honest(p)' /\ Filed(p)' /\ DlFills'
  BY <1>2, <1>4 DEF Honest, Filed, DlFills, Blank
<1>7. {p} \subseteq DlHolds
  BY <1>0, <1>1 DEF DlHolds
<1>8. UNCHANGED <<cloud, user, up, list>>
  BY <1>1
<1> QED
  BY <1>4, <1>5, <1>6, <1>7, <1>8, DlRound

LEMMA ZerosDlMark ==
    ASSUME Calmly, Unblank, DlMark
    PROVE  Unblank'
<1>0. PICK p, stamp : p = dl.path /\ stamp = disk[dl.path].stamp
  OBVIOUS
<1>1. /\ UNCHANGED <<disk, cloud, user, up, list>> /\ dl.pc = "mark" /\ dl'.pc = "idle"
      /\ db' = IF p \in DOMAIN disk THEN MarkHydrated(db, p, stamp) ELSE db
  BY <1>0 DEF DlMark, DlIdle
<1>2. Sound(db) /\ Sane(db) /\ DlFills'
  BY <1>1 DEF Calmly, IInv, DbInv, Unblank, DlFills
<1>3. CASE p \notin DOMAIN disk
  <2>1. Still({}) /\ Sane(db')
    BY <1>1, <1>2, <1>3, AtRest
  <2> QED
    BY <1>1, <1>2, <2>1, DlRound
<1>4. CASE p \in DOMAIN disk
  <2> DEFINE row == [db.rows[p] EXCEPT !.hydrated = TRUE, !.stamp = stamp]
  <2>1. db' = UpdateRow(db, p, row)
    BY <1>1, <1>4 DEF MarkHydrated
  <2>2. ASSUME Has(db, p)  PROVE Proper(row)
    BY <1>2, <2>2 DEF Sound, StoreType, Entry, Has, Sane, Proper
  <2> HIDE DEF row
  <2>3. RowsKept(db, db', DOMAIN disk, {p}) /\ Alike(db, db', {p}) /\ Sane(db')
    BY <1>2, <2>1, <2>2, UpdateRowFace, UpdateSane
  <2>4. Still({p})
    BY <1>1, <2>3, DataSame, StillThere
  <2>5. ~Blank(p)' /\ HasFile(p)'
    BY <1>0, <1>1, <1>4 DEF Unblank, DlFills, Blank, HasFile
  <2>6. Honest(p)' /\ Filed(p)' /\ {p} \subseteq DlHolds
    BY <1>0, <1>1, <2>5 DEF Honest, Filed, DlHolds
  <2> QED
    BY <1>1, <1>2, <2>3, <2>4, <2>5, <2>6, DlRound
<1> QED
  BY <1>3, <1>4

\* What iCloud never had is here, so there is nothing to adopt.
LEMMA ZerosDlAdopt ==
    ASSUME Calmly, Unblank, DlAdopt
    PROVE  Unblank'
<1>1. PICK p \in DOMAIN db.rows : db.rows[p].id = NoId /\ ~db.rows[p].hydrated
  BY DEF DlAdopt
<1> QED
  BY <1>1 DEF Unblank, Sane, Proper

\* ---- A restart finds every live row's file, so it makes none.
LEMMA ZerosRestart ==
    ASSUME Calmly, Unblank, Restart
    PROVE  Unblank'
<1>1. UserHolds = {} /\ ListHolds = {} /\ UNCHANGED cloud
  BY Zenon DEF Restart, Calmly, Undisturbed
<1>2. \A p : ~UserBrings(p) /\ ~UserTakes(p) /\ ~ListBrings(p) /\ ~ListTakes(p)
  BY <1>1 DEF UserBrings, UserTakes, ListBrings, ListTakes, UserHolds, ListHolds
<1>3. UserFills' /\ UpFills' /\ ListFills' /\ DlFills'
  <2>1. user' = UserIdle /\ up' = UpIdle /\ list' = ListIdle /\ dl' = DlIdle
    BY DEF Restart
  <2> QED
    BY <2>1 DEF UserFills, UpFills, ListFills, DlFills, UserIdle, UpIdle, ListIdle, DlIdle, NoNode
<1>4. Sound(db) /\ Sane(db)
  BY DEF Calmly, IInv, DbInv, Unblank
<1>5. Missing = {}
  <2> SUFFICES ASSUME NEW p \in DOMAIN db.rows, Live(db, p)  PROVE p \in DOMAIN disk
    BY DEF Missing
  <2> QED
    BY <1>2, <1>4 DEF Sound, Unblank, Filled, Filed, HasFile
<1>6. SameData({})
  <2> DEFINE new == ReconciledDisk
  <2>1. DOMAIN new = DOMAIN disk /\ \A p \in DOMAIN disk : new[p] = disk[p]
    BY <1>5 DEF ReconciledDisk
  <2>2. disk' = new
    BY DEF Restart
  <2> HIDE DEF new
  <2> QED
    BY <2>1, <2>2 DEF SameData
<1>7. /\ DOMAIN db'.rows = DOMAIN db.rows
      /\ \A p \in DOMAIN db.rows : db'.rows[p] = ReconciledRow(p)
  <2> DEFINE rows == [p \in DOMAIN db.rows |-> ReconciledRow(p)]
  <2>1. db'.rows = rows
    BY <1>4 DEF Restart, Sound, StoreType
  <2>2. DOMAIN rows = DOMAIN db.rows /\ \A p \in DOMAIN db.rows : rows[p] = ReconciledRow(p)
    OBVIOUS
  <2> HIDE DEF rows
  <2> QED
    BY <2>1, <2>2
<1>8. ASSUME NEW p \in DOMAIN db.rows
      PROVE  /\ db'.rows[p].kind = db.rows[p].kind /\ db'.rows[p].id = db.rows[p].id
             /\ db'.rows[p].tomb = db.rows[p].tomb
             /\ db'.rows[p].hydrated <=> db.rows[p].hydrated
  <2>1. db.rows[p] \in Entry /\ Proper(db.rows[p])
    BY <1>4 DEF Sound, StoreType, Sane
  <2>2. CASE ~Live(db, p)
    BY <1>7, <2>2, Zenon DEF ReconciledRow
  <2>3. CASE Live(db, p)
    <3> DEFINE full == db.rows[p].id = NoId \/ (db.rows[p].hydrated /\ p \notin Missing)
               row == [db.rows[p] EXCEPT !.stamp = ReconciledDisk[p].stamp, !.hydrated = full]
    <3>1. db'.rows[p] = row
      BY <1>7, <2>3, Zenon DEF ReconciledRow
    <3>2. full <=> db.rows[p].hydrated
      BY <1>5, <2>1 DEF Proper
    <3> HIDE DEF full
    <3>3. /\ row.kind = db.rows[p].kind /\ row.id = db.rows[p].id
          /\ row.tomb = db.rows[p].tomb /\ row.hydrated = full
      BY <2>1 DEF Entry
    <3> HIDE DEF row
    <3> QED
      BY <3>1, <3>2, <3>3
  <2> QED
    BY <2>2, <2>3
<1>9. \A p : (Live(db', p) <=> Live(db, p)) /\ (Held(db', p) <=> Held(db, p))
  BY <1>7, <1>8 DEF Live, Held, Has
<1>10. Sane(db') /\ Whole(cloud')
  BY <1>1, <1>4, <1>7, <1>8 DEF Sane, Proper, Unblank
<1>11. Still({})
  BY <1>6, <1>9, StillThere
<1>12. Filled'
  BY <1>2, <1>11, FilledKept DEF Unblank
<1> QED
  BY <1>3, <1>10, <1>12 DEF Unblank

\* ---- Another device writes content, never zeros.
LEMMA ZerosStill ==
    ASSUME Unblank, UNCHANGED <<db, disk, user, up, list, dl>>, Whole(cloud')
    PROVE  Unblank'
BY DEF Unblank, Filled, Honest, Filed, UserFills, UpFills, ListFills, DlFills, HasFile, Blank,
       UserBrings, UserTakes, ListBrings, ListTakes

LEMMA ZerosElsewhere ==
    ASSUME Calmly, Unblank, Elsewhere
    PROVE  Unblank'
<1>1. UNCHANGED <<db, disk, user, up, list, dl>>
  BY DEF Elsewhere
<1>2. Whole(cloud) /\ CloudOK(cloud)
  BY DEF Calmly, IInv, CloudInv, Unblank
<1>3. PICK c : c = clock + 1
  OBVIOUS
<1>4. c # Hole
  BY <1>3 DEF Calmly, IInv, RestInv, Hole
<1>5. Whole(cloud')
  <2>1. CASE RemoteAdd
    BY <1>2, <1>3, <1>4, <2>1, CreateWhole DEF RemoteAdd
  <2>2. CASE RemoteEdit
    BY <1>2, <1>3, <1>4, <2>2, ModifyWhole DEF RemoteEdit
  <2>3. CASE RemoteDelete
    BY <1>2, <2>3, DeleteWhole DEF RemoteDelete
  <2>4. CASE RemoteRename
    BY <1>2, <2>4, RelocateWhole DEF RemoteRename
  <2> QED
    BY <2>1, <2>2, <2>3, <2>4 DEF Elsewhere
<1> QED
  BY <1>1, <1>5, ZerosStill

LEMMA ZerosInductive == IInv /\ OInv /\ ZInv /\ ~Strips /\ [Next]_vars => ZInv'
<1> SUFFICES ASSUME IInv, OInv, ZInv, ~Strips, [Next]_vars, Undisturbed'  PROVE Unblank'
  BY DEF ZInv
<1>0. Calmly /\ Unblank
  BY Remembered, Inductive, PairsInductive DEF Calmly, OInv, ZInv
<1>1. CASE UserBegin \/ UserContinues
  BY <1>0, <1>1, ZerosUserBegin, ZerosUserWait, ZerosUserWrites, ZerosUserCreates,
     ZerosUserRemoves, ZerosUserMoves, ZerosUserTouches, ZerosUserRecords,
     ZerosUserForgets, ZerosUserRenames, ZerosUserRecordsTime, ZerosUserQueues
     DEF UserContinues
<1>2. CASE Uploader
  BY <1>0, <1>2, ZerosUpQuiet, ZerosUpTombstone, ZerosUpForget, ZerosUpFile, ZerosUpMove,
     ZerosUpSend, ZerosUpMeta, ZerosUpClean DEF Uploader
<1>3. CASE Lister
  BY <1>0, <1>3, ZerosListStart, ZerosListItem, ZerosListConflict, ZerosListDetach,
     ZerosListOccupant, ZerosListRelocate, ZerosListRekey, ZerosListPlace,
     ZerosListStore, ZerosListApplied, ZerosListSweep, ZerosListUnrow DEF Lister
<1>4. CASE Downloader
  BY <1>0, <1>4, ZerosDlReads, ZerosDlCommit, ZerosDlMark, ZerosDlAdopt DEF Downloader
<1>5. CASE Restart
  BY <1>0, <1>5, ZerosRestart
<1>6. CASE Elsewhere
  BY <1>0, <1>6, ZerosElsewhere
<1>7. CASE UNCHANGED vars
  BY <1>0, <1>7, ZerosStill DEF vars, Unblank
<1> QED
  BY <1>1, <1>2, <1>3, <1>4, <1>5, <1>6, <1>7 DEF Next

\* At the start a row says that its content is here where it is.
LEMMA ZerosInitially == Init => ZInv
<1> SUFFICES ASSUME Init  PROVE Unblank
  BY DEF ZInv
<1>1. /\ user = UserIdle /\ up = UpIdle /\ list = ListIdle /\ dl = DlIdle
  BY DEF Init
<1>2. UserFills /\ UpFills /\ ListFills /\ DlFills
  BY <1>1 DEF UserFills, UpFills, ListFills, DlFills, UserIdle, UpIdle, ListIdle, DlIdle, NoNode
<1> DEFINE seeded == {Join(Root, Seed[i]) : i \in DOMAIN Seed}
           idAt(p) == CHOOSE i \in DOMAIN Seed : Join(Root, Seed[i]) = p
           item(i) == [path |-> Join(Root, Seed[i]), kind |-> "file", data |-> i,
                       stamp |-> i, etag |-> 1]
           row(p, down) == [FromRemote(p, Node(cloud, idAt(p))) EXCEPT !.hydrated = p \in down]
<1>3. PICK downloaded \in SUBSET seeded :
        /\ cloud = [i \in DOMAIN Seed |-> item(i)]
        /\ db = [rows |-> [p \in seeded |-> row(p, downloaded)], ops |-> {}]
        /\ disk = [p \in seeded |->
                     [data |-> IF p \in downloaded THEN idAt(p) ELSE Hole, stamp |-> idAt(p)]]
  BY Zenon DEF Init
<1>4. \A i \in DOMAIN Seed : i # 0
  BY NameAssumption
<1>5. \A p \in seeded : idAt(p) \in DOMAIN Seed
  OBVIOUS
<1>6. /\ DOMAIN cloud = DOMAIN Seed
      /\ \A i \in DOMAIN Seed : cloud[i].data = i /\ cloud[i].kind = "file"
  BY <1>3
<1>7. /\ DOMAIN db.rows = seeded /\ DOMAIN disk = seeded
      /\ \A p \in seeded : disk[p].data = IF p \in downloaded THEN idAt(p) ELSE Hole
  BY <1>3
<1>8. ASSUME NEW p \in seeded
      PROVE  /\ db.rows[p].id = idAt(p) /\ db.rows[p].kind = "file"
             /\ db.rows[p].hydrated <=> p \in downloaded
  <2>1. /\ row(p, downloaded).id = idAt(p) /\ row(p, downloaded).kind = "file"
        /\ row(p, downloaded).hydrated <=> p \in downloaded
    BY <1>5, <1>6, Zenon DEF FromRemote, Node
  <2>2. db.rows[p] = row(p, downloaded)
    BY <1>3
  <2> QED
    BY <2>1, <2>2
<1> HIDE DEF seeded, row, idAt, item
<1>9. Sane(db) /\ Whole(cloud)
  BY <1>4, <1>5, <1>6, <1>7, <1>8 DEF Sane, Proper, Whole, NoId, Hole
<1>10. Filled
  <2> SUFFICES ASSUME NEW p \in Top  PROVE Honest(p) /\ Filed(p)
    BY DEF Filled
  <2>1. Filed(p)
    BY <1>7 DEF Filed, Live, Has, HasFile
  <2>2. ASSUME Held(db, p)  PROVE ~Blank(p)
    <3>1. p \in seeded /\ p \in downloaded
      BY <1>7, <1>8, <2>2 DEF Held, Live, Has
    <3>2. disk[p].data = idAt(p) /\ idAt(p) # 0
      BY <1>4, <1>5, <1>7, <3>1
    <3> QED
      BY <3>2 DEF Blank, Hole
  <2> QED
    BY <2>1, <2>2 DEF Honest
<1> QED
  BY <1>2, <1>9, <1>10 DEF Unblank

\* Zeros never reach iCloud, for any number of files, calls, passes, listings,
\* downloads, crashes, changes elsewhere and failed calls, as long as no two actors met
\* on a path and no listing takes the identity of a row whose content is not here
\* (remote.rs:259, remote.rs:366, `Strips'): a placeholder is never sent, neither
\* as it is nor under another name, nor after a restart has put it there.
THEOREM OnlyStripped == Spec /\ [](~Strips) => []NoZerosSent
<1>1. Init => IInv /\ OInv /\ ZInv
  BY Initially, PairsInitially, ZerosInitially
<1>2. IInv /\ OInv /\ ZInv /\ ~Strips /\ [Next]_vars => IInv' /\ OInv' /\ ZInv'
  BY Inductive, PairsInductive, ZerosInductive
<1>3. ZInv => NoZerosSent
  BY DEF ZInv, Unblank, Whole, NoZerosSent
<1> QED
  BY <1>1, <1>2, <1>3, PTL DEF Spec
-----------------------------------------------------------------------------
(***************************************************************************)
(* One row for an item.  Rows are moved, buried, detached and stored, and  *)
(* a listing decides about the row of an item long before it stores one:   *)
(* what it relies on is that nothing but an upload gives an item a row.    *)
(***************************************************************************)
Single(st) ==
    \A p, q \in DOMAIN st.rows : st.rows[p].id = st.rows[q].id /\ st.rows[p].id # NoId => p = q

\* An item that has a row in b had one in a, at the same path if not in C.
From(a, b, C) ==
    \A q \in DOMAIN b.rows : b.rows[q].id # NoId =>
        \E p \in DOMAIN a.rows : a.rows[p].id = b.rows[q].id /\ (p = q \/ p \in C)

\* The row at q of b is of the item the row at p had in a.
Follows(a, p, b, q) == q \in DOMAIN b.rows /\ b.rows[q].id = a.rows[p].id

\* A listing is applying an item, whose row, if it has one, is at Seat.
Applying == list.pc \notin {"idle", "items", "sweep", "unrow"}
Seat == IF list.pc \in {"conflict", "detach", "relocate", "rekey"}
        THEN list.at ELSE list.node.path
Seated == Applying => \A q \in DOMAIN db.rows : db.rows[q].id = list.node.id => q = Seat

Orderly == Single(db) /\ Seated
UInv == Undisturbed => Orderly

\* What an upload has found by its name, and is going to record.
Recording ==
    IF up.pc = "clean" THEN {up.node.id}
    ELSE IF up.pc = "meta" THEN IdsAt(cloud, up.path) ELSE {}

\* It is an item that another row has, or that a listing is giving to another row.
Mistaken ==
    \E i \in Recording :
        \/ \E q \in DOMAIN db.rows \ {up.path} : db.rows[q].id = i
        \/ Applying /\ list.node.id = i /\ Seat # up.path
-----------------------------------------------------------------------------
\* What the operators of SyncState do to the items of rows.
LEMMA SameSingle ==
    ASSUME NEW a, Single(a), NEW b, NEW C, DOMAIN b.rows \subseteq DOMAIN a.rows,
           \A q \in DOMAIN b.rows : b.rows[q].id \in {NoId, a.rows[q].id}
    PROVE  Single(b) /\ From(a, b, C)
BY DEF Single, From

LEMMA UpdateSingle ==
    ASSUME NEW st, Sound(st), Single(st), NEW p, NEW row, NEW C,
           Has(st, p) => row.id \in {NoId, st.rows[p].id}
    PROVE  Single(UpdateRow(st, p, row)) /\ From(st, UpdateRow(st, p, row), C)
<1> DEFINE new == [q \in DOMAIN st.rows |-> IF q = p THEN row ELSE st.rows[q]]
<1>1. UpdateRow(st, p, row).rows = new
  BY DEF UpdateRow, Sound, StoreType
<1>2. DOMAIN new = DOMAIN st.rows /\ \A q \in DOMAIN new : new[q].id \in {NoId, st.rows[q].id}
  BY DEF Has
<1> HIDE DEF new
<1> QED
  BY <1>1, <1>2, SameSingle

LEMMA WithoutSingle ==
    ASSUME NEW st, Single(st), NEW gone, NEW C
    PROVE  Single(Without(st, gone)) /\ From(st, Without(st, gone), C)
<1>1. /\ DOMAIN Without(st, gone).rows = DOMAIN st.rows \ gone
      /\ \A q \in DOMAIN st.rows \ gone : Without(st, gone).rows[q] = st.rows[q]
  BY DEF Without
<1> QED
  BY <1>1, SameSingle

\* Rows moved to keys that differ, or stripped of their item.
LEMMA RekeySingle ==
    ASSUME NEW st, Single(st), NEW rows, NEW key, NEW b, NEW C, b.rows = Rekey(rows, key),
           DOMAIN key \subseteq DOMAIN st.rows,
           \A q, r \in DOMAIN key : key[q] = key[r] => q = r,
           \A q \in DOMAIN key : rows[q].id \in {NoId, st.rows[q].id},
           \A q \in DOMAIN key : rows[q].id # NoId => key[q] = q \/ q \in C
    PROVE  Single(b) /\ From(st, b, C)
<1> DEFINE new == Rekey(rows, key)
<1>0. DOMAIN new = {key[q] : q \in DOMAIN key} /\ \A q \in DOMAIN key : new[key[q]] = rows[q]
  BY RekeyKeeps, ZenonT(40)
<1>1. b.rows = new
  OBVIOUS
<1> HIDE DEF new
<1>2. From(st, b, C)
  BY <1>0, <1>1 DEF From
<1>3. Single(b)
  BY <1>0, <1>1 DEF Single
<1> QED
  BY <1>2, <1>3

LEMMA BurySingle ==
    ASSUME NEW st, Sound(st), Single(st), NEW p, NEW grave, ~Has(st, grave)
    PROVE  LET after == BuryTombstone(st, p, grave)
           IN  Single(after) /\ From(st, after, {p})
<1>1. CASE ~(Has(st, p) /\ st.rows[p].tomb)
  BY <1>1, SameSingle DEF BuryTombstone
<1>2. CASE Has(st, p) /\ st.rows[p].tomb
  <2> DEFINE rows == UpdateRow(st, p, Buried(st.rows[p], p)).rows
             key == [q \in DOMAIN st.rows |-> IF q = p THEN grave ELSE q]
             after == BuryTombstone(st, p, grave)
  <2>1. rows = [q \in DOMAIN st.rows |-> IF q = p THEN Buried(st.rows[p], p) ELSE st.rows[q]]
    BY DEF UpdateRow, Sound, StoreType
  <2>2. Buried(st.rows[p], p).id = st.rows[p].id
    BY <1>2 DEF Buried, Has, Sound, StoreType, Entry
  <2>3. \A q \in DOMAIN key : rows[q].id \in {NoId, st.rows[q].id}
    BY <2>1, <2>2
  <2>4. after.rows = Rekey(rows, key)
    BY <1>2 DEF BuryTombstone, Sound, StoreType
  <2>5. /\ DOMAIN key \subseteq DOMAIN st.rows
        /\ \A q, r \in DOMAIN key : key[q] = key[r] => q = r
        /\ \A q \in DOMAIN key : key[q] = q \/ q \in {p}
    BY DEF Has
  <2> HIDE DEF rows, key, after
  <2>6. Single(after) /\ From(st, after, {p})
    BY <2>3, <2>4, <2>5, RekeySingle
  <2> QED
    BY <2>6 DEF after
<1> QED
  BY <1>1, <1>2

\* The item of the row that moves is the only one that comes to new.
LEMMA RenameSingle ==
    ASSUME NEW st, Sound(st), Single(st), NEW old \in Top, NEW new \in Top, old # new,
           Live(st, old), NEW rootDirty, NEW updateSynced, NEW grave, ~Has(st, grave[new]),
           NEW after, after = RenameTree(st, old, new, rootDirty, updateSynced, grave)
    PROVE  Single(after) /\ From(st, after, {old, new}) /\ Follows(st, old, after, new)
<1> DEFINE moving    == Subtree(st, old)
           displaced == Subtree(st, new)
           buried    == {q \in displaced : st.rows[q].id # NoId}
           key == [q \in (DOMAIN st.rows \ displaced) \union buried |->
                       IF q \in buried THEN grave[q]
                       ELSE IF q \in moving THEN Rebase(q, old, new) ELSE q]
           moved(r, q) ==
               [r EXCEPT !.dirty = @ \/ (rootDirty /\ q = old),
                         !.synced = IF updateSynced /\ IsWithin(@, old)
                                    THEN Rebase(@, old, new) ELSE @]
           row == [q \in DOMAIN key |->
                       IF q \in buried THEN Buried(st.rows[q], q)
                       ELSE IF q \in moving THEN moved(st.rows[q], q) ELSE st.rows[q]]
           rows == Rekey(row, key)
<1>1. old \in DOMAIN st.rows /\ grave[new] \notin DOMAIN st.rows /\ DOMAIN st.rows \subseteq Top
  BY DEF Live, Has, Sound
<1>2. moving = {old} /\ displaced = {new} \intersect DOMAIN st.rows
  BY <1>1, TopPaths DEF Subtree
<1>3. after.rows = rows
  BY <1>2, Zenon DEF RenameTree
<1>4. /\ DOMAIN key = (DOMAIN st.rows \ {new}) \union buried /\ buried \subseteq {new}
      /\ buried \subseteq DOMAIN st.rows
  BY <1>2
<1>5. \A q \in DOMAIN key :
        IF q \in buried THEN key[q] = grave[q] /\ row[q] = Buried(st.rows[q], q)
        ELSE IF q \in moving THEN key[q] = Rebase(q, old, new) /\ row[q] = moved(st.rows[q], q)
        ELSE key[q] = q /\ row[q] = st.rows[q]
  BY Zenon
<1>6. ASSUME NEW q, st.rows[q] \in Entry
      PROVE  moved(st.rows[q], q).id = st.rows[q].id /\ Buried(st.rows[q], q).id = st.rows[q].id
  BY <1>6 DEF Entry, Buried
<1>7. Rebase(old, old, new) = new
  BY Zenon, TopPaths
<1> HIDE DEF moving, displaced, buried, key, moved, row
<1>8. old \in DOMAIN key /\ key[old] = new
  BY <1>1, <1>2, <1>4, <1>5, <1>7
<1>9. \A q \in DOMAIN key : row[q].id = st.rows[q].id /\ row[q].id \in {NoId, st.rows[q].id}
  BY <1>4, <1>5, <1>6 DEF Sound, StoreType
<1>10. \A q \in DOMAIN key \ {old} : IF q = new THEN key[q] = grave[new] ELSE key[q] = q
  BY <1>2, <1>4, <1>5
<1>11. DOMAIN key \subseteq DOMAIN st.rows
  BY <1>4
<1>12. \A q, r \in DOMAIN key : key[q] = key[r] => q = r
  BY <1>1, <1>8, <1>10, <1>11
<1>13. \A q \in DOMAIN key : row[q].id # NoId => key[q] = q \/ q \in {old, new}
  BY <1>8, <1>10
<1>14. Single(after) /\ From(st, after, {old, new})
  BY <1>3, <1>9, <1>11, <1>12, <1>13, RekeySingle, Zenon DEF rows
<1>15. DOMAIN rows = {key[q] : q \in DOMAIN key} /\ \A q \in DOMAIN key : rows[key[q]] = row[q]
  BY <1>12, RekeyKeeps, Zenon
<1> HIDE DEF rows
<1>16. new \in DOMAIN after.rows /\ after.rows[new] = row[old]
  BY <1>3, <1>8, <1>15
<1> QED
  BY <1>8, <1>9, <1>14, <1>16 DEF Follows

\* The row that is detached has no item any more.
LEMMA DetachSingle ==
    ASSUME NEW st, Sound(st), Single(st), NEW old \in Top, NEW new \in Top, ~Has(st, new)
    PROVE  LET after == DetachSubtreeAsConflict(st, old, new)
           IN  /\ Single(after)
               /\ \A q \in DOMAIN after.rows : after.rows[q].id # NoId =>
                     q \in DOMAIN st.rows \ {old} /\ st.rows[q].id = after.rows[q].id
<1> DEFINE detached(r) == [r EXCEPT !.id = NoId, !.etag = 0, !.synced = NoPath,
                                    !.dirty = TRUE, !.tomb = FALSE]
           moving == Subtree(st, old)
           row == [q \in DOMAIN st.rows |->
                      IF q \in moving THEN detached(st.rows[q]) ELSE st.rows[q]]
           key == [q \in DOMAIN st.rows |->
                      IF q \in moving THEN Rebase(q, old, new) ELSE q]
           rows == Rekey(row, key)
           after == DetachSubtreeAsConflict(st, old, new)
<1>1. moving = {old} \intersect DOMAIN st.rows
  BY TopPaths DEF Subtree, Sound
<1>2. after.rows = rows
  BY DEF DetachSubtreeAsConflict, Sound, StoreType
<1>3. Rebase(old, old, new) = new
  BY TopPaths
<1>4. /\ DOMAIN key = DOMAIN st.rows
      /\ old \in DOMAIN st.rows => key[old] = new
      /\ \A q \in DOMAIN st.rows \ {old} : key[q] = q
  BY <1>1, <1>3
<1>5. \A q \in DOMAIN st.rows : row[q].id = IF q = old THEN NoId ELSE st.rows[q].id
  BY <1>1 DEF Sound, StoreType, Entry
<1> HIDE DEF moving, row, key, detached, after
<1>6. \A q, r \in DOMAIN key : key[q] = key[r] => q = r
  BY <1>4 DEF Has
<1>7. DOMAIN rows = {key[q] : q \in DOMAIN key} /\ \A q \in DOMAIN key : rows[key[q]] = row[q]
  BY <1>6, RekeyKeeps, Zenon
<1> HIDE DEF rows
<1>8. \A q \in DOMAIN after.rows : after.rows[q].id # NoId =>
         q \in DOMAIN st.rows \ {old} /\ st.rows[q].id = after.rows[q].id
  BY <1>2, <1>4, <1>5, <1>7
<1>9. Single(after)
  BY <1>8 DEF Single
<1> QED
  BY <1>8, <1>9 DEF after
-----------------------------------------------------------------------------
(***************************************************************************)
(* Nobody but the listing touches the row of the item it is applying.      *)
(***************************************************************************)
LEMMA SeatKept ==
    ASSUME Calmly, Orderly, UNCHANGED list, NEW C, From(db, db', C),
           \A p \in C : p \in Top => p \notin ListHolds
    PROVE  Seated'
<1> SUFFICES ASSUME Applying, NEW q \in DOMAIN db'.rows, db'.rows[q].id = list.node.id
             PROVE  q = Seat
  BY DEF Seated, Seat, Applying
<1>1. list.node.id # NoId
  BY DEF Applying, Calmly, IInv, ListInv, ItemNode
<1>2. PICK p \in DOMAIN db.rows : db.rows[p].id = list.node.id /\ (p = q \/ p \in C)
  BY <1>1 DEF From
<1>3. p = Seat /\ p \in Top
  BY <1>2 DEF Orderly, Seated, Calmly, IInv, DbInv, Sound
<1>4. Seat \in ListHolds
  BY DEF Applying, Seat, ListHolds
<1> QED
  BY <1>2, <1>3, <1>4

LEMMA RowsAsTheyWere ==
    ASSUME Calmly, Orderly, UNCHANGED list, DOMAIN db'.rows \subseteq DOMAIN db.rows,
           \A q \in DOMAIN db'.rows : db'.rows[q].id \in {NoId, db.rows[q].id}
    PROVE  Orderly'
<1>1. Single(db') /\ From(db, db', {})
  BY SameSingle DEF Orderly
<1> QED
  BY <1>1, SeatKept DEF Orderly

LEMMA OneRowChanges ==
    ASSUME Calmly, Orderly, UNCHANGED list, NEW p, NEW row, db' = UpdateRow(db, p, row),
           Has(db, p) => row.id \in {NoId, db.rows[p].id}
    PROVE  Orderly'
<1>1. Sound(db) /\ Single(db)
  BY DEF Calmly, IInv, DbInv, Orderly
<1>2. Single(db') /\ From(db, db', {})
  BY <1>1, UpdateSingle
<1> QED
  BY <1>2, SeatKept DEF Orderly

LEMMA RowsGo ==
    ASSUME Calmly, Orderly, UNCHANGED list, NEW p,
           db' = RemoveEntry(db, p) \/ db' = RemoveSubtree(db, p)
    PROVE  Orderly'
<1> DEFINE gone == Subtree(db, p) \union {o.path : o \in {x \in db.ops : IsWithin(x.path, p)}}
<1>1. db' = Without(db, {p}) \/ db' = Without(db, gone)
  BY DEF RemoveEntry, RemoveSubtree
<1> HIDE DEF gone
<1>2. Single(db') /\ From(db, db', {})
  BY <1>1, WithoutSingle DEF Orderly
<1> QED
  BY <1>2, SeatKept DEF Orderly

\* What the user moves, no listing is applying.
LEMMA UserTakesTurn ==
    ASSUME Calmly, Orderly, UNCHANGED list, Single(db'), NEW C, C \subseteq UserHolds,
           From(db, db', C)
    PROVE  Orderly'
<1>1. ~Meets(UserHolds, UpHolds \union ListHolds \union DlHolds)
  BY DEF Calmly, Undisturbed, Overlap
<1>2. \A p \in C : p \in Top => p \notin ListHolds
  BY <1>1, Alone
<1> QED
  BY <1>2, SeatKept DEF Orderly

LEMMA OneUserQuiet ==
    ASSUME Calmly, Orderly,
           UserBegin \/ UserHydrated \/ UserGivesUp \/ UserWrites \/ UserRemoves
           \/ UserMoves \/ UserTouches
    PROVE  Orderly'
<1>1. UNCHANGED <<db, list>>
  BY Zenon DEF UserBegin, UserHydrated, UserGivesUp, UserWrites, UserRemoves, UserMoves,
     UserTouches
<1> QED
  BY <1>1, RowsAsTheyWere

LEMMA OneUserCreates ==
    ASSUME Calmly, Orderly, UserCreates
    PROVE  Orderly'
<1>0. PICK p, g : p = user.path /\ g = Pick(FreeGraves)
  OBVIOUS
<1>1. UNCHANGED list /\ user.pc = "mirror" /\ db' = BuryTombstone(db, p, g)
  BY <1>0 DEF UserCreates
<1>2. Sound(db) /\ Single(db) /\ ~Has(db, g)
  BY <1>0, Picked DEF UserCreates, FreeGraves, Has, Calmly, IInv, DbInv, Orderly
<1>3. Single(db') /\ From(db, db', {p})
  BY <1>1, <1>2, BurySingle
<1>4. {p} \subseteq UserHolds
  BY <1>0, <1>1 DEF UserHolds
<1> QED
  BY <1>1, <1>3, <1>4, UserTakesTurn

LEMMA OneUserRecords ==
    ASSUME Calmly, Orderly, UserRecords
    PROVE  Orderly'
<1>0. PICK p : p = user.path
  OBVIOUS
<1>1. UNCHANGED list /\ user.pc = "record" /\ Sound(db) /\ Single(db)
  BY DEF UserRecords, Calmly, IInv, DbInv, Orderly
<1>2. CASE p \notin DOMAIN disk
  BY <1>0, <1>1, <1>2, RowsAsTheyWere DEF UserRecords
<1>3. CASE p \in DOMAIN disk /\ user.known
  <2> DEFINE row == [db.rows[p] EXCEPT !.dirty = TRUE, !.tomb = FALSE,
                         !.stamp = disk[p].stamp, !.hydrated = @ \/ TRUE]
  <2>1. db' = UpdateRow(db, p, row)
    BY <1>0, <1>3 DEF UserRecords, ContentRecorded, MarkDirty
  <2>2. Has(db, p) => row.id = db.rows[p].id
    BY <1>1 DEF Has, Sound, StoreType, Entry
  <2> HIDE DEF row
  <2> QED
    BY <1>1, <2>1, <2>2, OneRowChanges
<1>4. CASE p \in DOMAIN disk /\ ~user.known
  <2> DEFINE row == Local("file", disk[p].stamp)
             new == [q \in DOMAIN db.rows \union {p} |-> IF q = p THEN row ELSE db.rows[q]]
  <2>1. db'.rows = new
    BY <1>0, <1>1, <1>4 DEF UserRecords, ContentRecorded, UpsertEntry, Sound, StoreType
  <2>2. row.id = NoId
    BY DEF Local
  <2> HIDE DEF row
  <2>3. \A q \in DOMAIN new : new[q].id = NoId \/ (q \in DOMAIN db.rows /\ new[q].id = db.rows[q].id)
    BY <2>2
  <2> HIDE DEF new
  <2>4. Single(db') /\ From(db, db', {})
    BY <1>1, <2>1, <2>3 DEF Single, From
  <2> QED
    BY <1>1, <2>4, SeatKept DEF Orderly
<1> QED
  BY <1>2, <1>3, <1>4

LEMMA OneUserForgets ==
    ASSUME Calmly, Orderly, UserForgets
    PROVE  Orderly'
<1>0. PICK p : p = user.path
  OBVIOUS
<1>1. UNCHANGED list /\ Sound(db)
  BY DEF UserForgets, Calmly, IInv, DbInv
<1>2. CASE user.known
  <2> DEFINE row == [db.rows[p] EXCEPT !.dirty = TRUE, !.tomb = TRUE]
  <2>1. db' = UpdateRow(db, p, row)
    BY <1>0, <1>2 DEF UserForgets, MarkTombstone
  <2>2. Has(db, p) => row.id = db.rows[p].id
    BY <1>1 DEF Has, Sound, StoreType, Entry
  <2> HIDE DEF row
  <2> QED
    BY <1>1, <2>1, <2>2, OneRowChanges
<1>3. CASE ~user.known
  BY <1>0, <1>1, <1>3, RowsGo DEF UserForgets
<1> QED
  BY <1>2, <1>3

LEMMA OneUserRenames ==
    ASSUME Calmly, Orderly, UserRenames
    PROVE  Orderly'
<1>0. PICK p, q, g, grave : /\ p = user.path /\ q = user.to /\ g = Pick(FreeGraves)
                            /\ grave = [r \in {q} |-> g]
  BY Zenon
<1>1. /\ UNCHANGED list /\ user.pc = "record" /\ user.op = "rename"
      /\ db' = RenameTree(db, p, q, TRUE, FALSE, grave)
  BY <1>0 DEF UserRenames
<1>2. /\ p \in Top /\ q \in Top /\ p # q /\ Sound(db) /\ Single(db) /\ Live(db, p)
  BY <1>0, <1>1 DEF Calmly, IInv, UserInv, DbInv, Paired, UserSees, Orderly
<1>3. ~Has(db, grave[q])
  BY <1>0, Picked DEF UserRenames, FreeGraves, Has
<1> DEFINE C == {p, q}
<1>4. Single(db') /\ From(db, db', C)
  BY <1>1, <1>2, <1>3, RenameSingle
<1>5. C \subseteq UserHolds
  BY <1>0, <1>1 DEF UserHolds
<1> HIDE DEF C
<1> QED
  BY <1>1, <1>4, <1>5, UserTakesTurn

LEMMA OneUserMarks ==
    ASSUME Calmly, Orderly, UserRecordsTime \/ UserQueues
    PROVE  Orderly'
<1>1. UNCHANGED list /\ Sound(db)
  BY DEF UserRecordsTime, UserQueues, Calmly, IInv, DbInv
<1>2. CASE UserRecordsTime
  <2> DEFINE p == user.path
             row == [db.rows[p] EXCEPT !.dirty = TRUE, !.tomb = FALSE,
                                       !.stamp = user.stamp, !.hydrated = @ \/ FALSE]
  <2>1. db' = UpdateRow(db, p, row) \/ UNCHANGED db
    BY <1>2 DEF UserRecordsTime, MarkDirty
  <2>2. Has(db, p) => row.id = db.rows[p].id
    BY <1>1 DEF Has, Sound, StoreType, Entry
  <2> HIDE DEF row, p
  <2> QED
    BY <1>1, <2>1, <2>2, OneRowChanges, RowsAsTheyWere
<1>3. CASE UserQueues
  <2>0. PICK op : op = CASE user.op = "write"  -> "update"
                         [] user.op = "create" -> "create"
                         [] user.op = "unlink" -> "delete"
    OBVIOUS
  <2>1. db' = QueueOp(db, op, user.path)
    BY <1>3, <2>0 DEF UserQueues
  <2>2. op \in {"update", "create", "delete"}
    BY <1>3, <2>0 DEF UserQueues, Calmly, IInv, UserInv
  <2>3. db'.rows = db.rows
    BY <1>1, <2>1, <2>2, QueueOpRows
  <2> QED
    BY <1>1, <2>3, RowsAsTheyWere
<1> QED
  BY <1>2, <1>3

\* ---- The upload pass.
LEMMA OneUpQuiet ==
    ASSUME Calmly, Orderly,
           UpStart \/ UpTombstone \/ UpMove \/ UpReplace \/ UpSend \/ UpAdopt \/ UpEnd
    PROVE  Orderly'
<1>1. UNCHANGED <<db, list>>
  BY Zenon DEF UpStart, UpTombstone, UpMove, UpReplace, UpSend, UpAdopt, UpEnd
<1> QED
  BY <1>1, RowsAsTheyWere

LEMMA OneUpForget ==
    ASSUME Calmly, Orderly, UpForget
    PROVE  Orderly'
BY RowsGo DEF UpForget

LEMMA OneUpMarks ==
    ASSUME Calmly, Orderly, UpMissing \/ UpFile
    PROVE  Orderly'
<1>1. UNCHANGED list /\ Sound(db)
  BY Zenon DEF UpMissing, UpFile, Calmly, IInv, DbInv
<1>2. CASE UpMissing
  <2>0. PICK p : p = up.path
    OBVIOUS
  <2> DEFINE row == [db.rows[p] EXCEPT !.dirty = TRUE, !.tomb = TRUE]
  <2>1. db' = UpdateRow(db, p, row)
    BY <1>2, <2>0 DEF UpMissing, MarkTombstone
  <2>2. Has(db, p) => row.id = db.rows[p].id
    BY <1>1 DEF Has, Sound, StoreType, Entry
  <2> HIDE DEF row
  <2> QED
    BY <1>1, <2>1, <2>2, OneRowChanges
<1>3. CASE UpFile
  <2>1. PICK p : UNCHANGED db \/ db' = MarkHydrated(db, p, disk[p].stamp)
    BY <1>3, Zenon DEF UpFile
  <2>2. PICK stamp : stamp = disk[p].stamp
    OBVIOUS
  <2> DEFINE row == [db.rows[p] EXCEPT !.hydrated = TRUE, !.stamp = stamp]
  <2>3. UNCHANGED db \/ db' = UpdateRow(db, p, row)
    BY <2>1, <2>2 DEF MarkHydrated
  <2>4. Has(db, p) => row.id = db.rows[p].id
    BY <1>1 DEF Has, Sound, StoreType, Entry
  <2> HIDE DEF row
  <2> QED
    BY <1>1, <2>3, <2>4, OneRowChanges, RowsAsTheyWere
<1> QED
  BY <1>2, <1>3

\* The upload records an item that no other row has, and no listing brings
\* elsewhere.
LEMMA UploadRecords ==
    ASSUME Calmly, Orderly, ~Mistaken, UNCHANGED list, NEW i \in Recording,
           NEW row, row.id = i, db'.rows = UpdateRow(db, up.path, row).rows
    PROVE  Orderly'
<1>0. PICK p : p = up.path
  OBVIOUS
<1>1. Single(db) /\ StoreType(db)
  BY DEF Orderly, Calmly, IInv, DbInv, Sound
<1>2. /\ \A q \in DOMAIN db.rows \ {p} : db.rows[q].id # i
      /\ Applying /\ list.node.id = i => Seat = p
  BY <1>0 DEF Mistaken
<1> DEFINE new == [q \in DOMAIN db.rows |-> IF q = p THEN row ELSE db.rows[q]]
<1>3. db'.rows = new
  BY <1>0, <1>1 DEF UpdateRow, StoreType
<1>4. /\ DOMAIN new = DOMAIN db.rows
      /\ p \in DOMAIN new => new[p].id = i
      /\ \A q \in DOMAIN new \ {p} : new[q].id = db.rows[q].id
  OBVIOUS
<1> HIDE DEF new
<1>5. Single(db')
  <2>1. /\ DOMAIN db'.rows \subseteq DOMAIN db.rows \union {p}
        /\ p \in DOMAIN db'.rows => db'.rows[p].id = i
        /\ \A q \in DOMAIN db'.rows \ {p} : db'.rows[q].id = db.rows[q].id
    BY <1>3, <1>4
  <2> QED
    BY <1>1, <1>2, <2>1 DEF Single
<1>6. Seated'
  <2> SUFFICES ASSUME Applying, NEW q \in DOMAIN new, new[q].id = list.node.id
               PROVE  q = Seat
    BY <1>3 DEF Seated, Seat, Applying
  <2> QED
    BY <1>2, <1>4 DEF Orderly, Seated
<1> QED
  BY <1>5, <1>6 DEF Orderly

LEMMA OneUpMeta ==
    ASSUME Calmly, Orderly, ~Mistaken, UpMeta
    PROVE  Orderly'
<1>0. PICK p : p = up.path
  OBVIOUS
<1>1. UNCHANGED list /\ up.pc = "meta" /\ Sound(db)
  BY Zenon DEF UpMeta, Calmly, IInv, DbInv
<1>2. \/ UNCHANGED db
      \/ \E i \in IdsAt(cloud, p) : db' = MarkUploadedButDirty(db, p, Node(cloud, i), Crawling)
  BY <1>0, Zenon DEF UpMeta
<1>3. CASE \E i \in IdsAt(cloud, p) : db' = MarkUploadedButDirty(db, p, Node(cloud, i), Crawling)
  <2>1. PICK i \in IdsAt(cloud, p) :
           db' = MarkUploadedButDirty(db, p, Node(cloud, i), Crawling)
    BY <1>3
  <2>2. PICK node, recent : node = Node(cloud, i) /\ recent = Crawling
    OBVIOUS
  <2> DEFINE row == [db.rows[p] EXCEPT !.id = node.id, !.etag = node.etag,
                                       !.synced = p, !.recent = recent]
  <2>3. db' = UpdateRow(db, p, row)
    BY <2>1, <2>2 DEF MarkUploadedButDirty
  <2>4. i \in Recording /\ node.id = i
    BY <1>0, <1>1, <2>2 DEF Recording, Node
  <2>5. CASE Has(db, p)
    <3>1. row.id = i
      BY <1>1, <2>4, <2>5 DEF Has, Sound, StoreType, Entry
    <3> HIDE DEF row
    <3> QED
      BY <1>0, <1>1, <2>3, <2>4, <3>1, UploadRecords
  <2>6. CASE ~Has(db, p)
    <3> HIDE DEF row
    <3> QED
      BY <1>1, <2>3, <2>6, OneRowChanges
  <2> QED
    BY <2>5, <2>6
<1> QED
  BY <1>1, <1>2, <1>3, RowsAsTheyWere

LEMMA OneUpClean ==
    ASSUME Calmly, Orderly, ~Mistaken, UpClean
    PROVE  Orderly'
<1>0. PICK p, node, recent : p = up.path /\ node = up.node /\ recent = Crawling
  OBVIOUS
<1>1. UNCHANGED list /\ up.pc = "clean" /\ db' = MarkClean(db, p, node, recent)
  BY <1>0 DEF UpClean
<1>2. StoreType(db) /\ Live(db, p)
  BY <1>0, <1>1 DEF Calmly, IInv, DbInv, Sound, Paired, UpSees
<1> DEFINE row == [db.rows[p] EXCEPT !.dirty = FALSE, !.tomb = FALSE,
                       !.hydrated = @ \/ db.rows[p].kind # "file",
                       !.id = node.id, !.etag = node.etag, !.stamp = node.stamp,
                       !.synced = p, !.recent = recent]
<1>3. db'.rows = UpdateRow(db, p, row).rows
  BY <1>1, <1>2 DEF MarkClean, UpdateRow, StoreType
<1>4. row.id = node.id
  BY <1>2 DEF Live, Has, StoreType, Entry
<1>5. node.id \in Recording
  BY <1>0, <1>1 DEF Recording
<1> HIDE DEF row
<1> QED
  BY <1>0, <1>1, <1>3, <1>4, <1>5, UploadRecords

\* ---- The downloads, other devices, and a restart.
LEMMA OneDownloader ==
    ASSUME Calmly, Orderly, Downloader
    PROVE  Orderly'
<1>1. CASE DlStart \/ DlOpen \/ DlCheck \/ DlCommit \/ DlAdopt
  <2>1. UNCHANGED <<db, list>>
    BY <1>1, Zenon DEF DlStart, DlOpen, DlCheck, DlCommit, DlAdopt
  <2> QED
    BY <2>1, RowsAsTheyWere
<1>2. CASE DlMark
  <2>1. PICK p, stamp : p = dl.path /\ stamp = disk[dl.path].stamp
    OBVIOUS
  <2> DEFINE row == [db.rows[p] EXCEPT !.hydrated = TRUE, !.stamp = stamp]
  <2>2. UNCHANGED list /\ (UNCHANGED db \/ db' = UpdateRow(db, p, row))
    BY <1>2, <2>1 DEF DlMark, MarkHydrated
  <2>3. Has(db, p) => row.id = db.rows[p].id
    BY DEF Has, Calmly, IInv, DbInv, Sound, StoreType, Entry
  <2> HIDE DEF row
  <2> QED
    BY <2>2, <2>3, OneRowChanges, RowsAsTheyWere
<1> QED
  BY <1>1, <1>2 DEF Downloader

LEMMA OneElsewhere ==
    ASSUME Calmly, Orderly, Elsewhere
    PROVE  Orderly'
BY RowsAsTheyWere DEF Elsewhere

LEMMA OneRestart ==
    ASSUME Calmly, Orderly, Restart
    PROVE  Orderly'
<1> DEFINE rows == [p \in DOMAIN db.rows |-> ReconciledRow(p)]
<1>1. list' = ListIdle /\ db' = [db EXCEPT !.rows = rows]
  BY DEF Restart
<1>2. db'.rows = rows
  BY <1>1 DEF Calmly, IInv, DbInv, Sound, StoreType
<1>3. \A p \in DOMAIN rows : rows[p].id = db.rows[p].id
  BY Zenon DEF ReconciledRow, Calmly, IInv, DbInv, Sound, StoreType, Entry
<1> HIDE DEF rows
<1>4. DOMAIN rows = DOMAIN db.rows
  BY DEF rows
<1>5. Single(db')
  BY <1>2, <1>3, <1>4, SameSingle DEF Orderly
<1>6. ~Applying'
  BY <1>1 DEF Applying, ListIdle
<1> QED
  BY <1>5, <1>6 DEF Orderly, Seated

\* ---- A listing applied.
LEMMA ItemDone ==
    ASSUME Single(db'), list'.pc \in {"idle", "items", "sweep", "unrow"}
    PROVE  Orderly'
BY DEF Orderly, Seated, Applying

\* It goes on with the item, whose row stays.
LEMMA ItemGoesOn ==
    ASSUME Orderly, Applying, UNCHANGED db, list'.node = list.node, Seat' = Seat
    PROVE  Orderly'
BY DEF Orderly, Single, Seated

LEMMA OneListEnds ==
    ASSUME Calmly, Orderly, ListStart \/ ListApplied \/ ListUnrow
    PROVE  Orderly'
<1>1. Single(db) /\ StoreType(db)
  BY DEF Orderly, Calmly, IInv, DbInv, Sound
<1>2. list'.pc \in {"idle", "items", "sweep"}
  BY SweepIsEmpty, Zenon DEF ListStart, ListIdle, ListApplied, ListUnrow
<1>3. Single(db')
  <2>1. CASE ListStart
    <3> DEFINE rows == [p \in DOMAIN db.rows |-> [db.rows[p] EXCEPT !.recent = FALSE]]
    <3>1. db'.rows = rows
      BY <1>1, <2>1 DEF ListStart, StoreType
    <3>2. DOMAIN rows = DOMAIN db.rows /\ \A p \in DOMAIN rows : rows[p].id = db.rows[p].id
      BY <1>1 DEF StoreType, Entry
    <3> HIDE DEF rows
    <3> QED
      BY <1>1, <3>1, <3>2, SameSingle
  <2>2. CASE ListApplied
    BY <1>1, <2>2 DEF ListApplied
  <2>3. CASE ListUnrow
    <3>1. PICK gone : db' = Without(db, gone)
      BY <2>3 DEF ListUnrow, RemoveSubtree
    <3> QED
      BY <1>1, <3>1, WithoutSingle
  <2> QED
    BY <2>1, <2>2, <2>3
<1> QED
  BY <1>2, <1>3, ItemDone

LEMMA OneListSweep ==
    ASSUME Calmly, Orderly, ListSweep
    PROVE  Orderly'
<1>1. Single(db) /\ Sound(db)
  BY DEF Orderly, Calmly, IInv, DbInv
<1>2. PICK v \in list.sweep :
         \/ db' = RemoveSubtree(db, v.path) /\ list' = Sweeping(list.sweep \ {v})
         \/ db' = ClearRemoteIdentity(db, v.path) /\ list' = Sweeping(list.sweep \ {v})
         \/ UNCHANGED db /\ list' = [list EXCEPT !.pc = "unrow", !.at = v.path]
  BY Zenon DEF ListSweep
<1>3. list'.pc \in {"idle", "sweep", "unrow"}
  BY <1>2, SweepIsEmpty, ListFields DEF Calmly
<1>4. PICK p : p = v.path
  OBVIOUS
<1>5. CASE db' = RemoveSubtree(db, p)
  <2>1. PICK gone : db' = Without(db, gone)
    BY <1>5 DEF RemoveSubtree
  <2>2. Single(db')
    BY <1>1, <2>1, WithoutSingle
  <2> QED
    BY <1>3, <2>2, ItemDone
<1>6. CASE db' = ClearRemoteIdentity(db, p)
  <2> DEFINE row == [db.rows[p] EXCEPT !.id = NoId, !.etag = 0, !.synced = NoPath,
                                       !.dirty = TRUE, !.tomb = FALSE]
  <2>1. db' = UpdateRow(db, p, row)
    BY <1>6 DEF ClearRemoteIdentity
  <2>2. Has(db, p) => row.id = NoId
    BY <1>1 DEF Has, Sound, StoreType, Entry
  <2> HIDE DEF row
  <2>3. Single(db')
    BY <1>1, <2>1, <2>2, UpdateSingle
  <2> QED
    BY <1>3, <2>3, ItemDone
<1>7. CASE UNCHANGED db
  BY <1>1, <1>3, <1>7, ItemDone DEF Single
<1> QED
  BY <1>2, <1>4, <1>5, <1>6, <1>7

\* The row with the item's id is the only one.
LEMMA OneListItem ==
    ASSUME Calmly, Orderly, ListItem
    PROVE  Orderly'
<1>1. UNCHANGED db /\ list.pc = "items"
  BY Zenon DEF ListItem
<1>2. PICK n \in list.items :
       LET now(pc) == [list EXCEPT !.pc = pc, !.items = @ \ {n}, !.node = n]
           rows == RowsWithId(db, n.id)
       IN  \/ rows = {} /\ list' = now("occupant")
           \/ \E e \in rows :
              LET row == db.rows[e]
                  at(pc) == [now(pc) EXCEPT !.at = e, !.stamp = row.stamp,
                                            !.hydrated = row.hydrated, !.recent = row.recent]
              IN  \/ /\ row.dirty /\ EntryConflicts(row, n)
                     /\ list' = [now("conflict") EXCEPT !.at = e, !.then = "occupant"]
                  \/ /\ row.dirty /\ ~EntryConflicts(row, n)
                     /\ list' = [list EXCEPT !.items = @ \ {n}]
                  \/ ~row.dirty /\ e # n.path /\ list' = at("relocate")
                  \/ /\ ~row.dirty /\ e = n.path
                     /\ list' = at(IF row.stamp = n.stamp /\ row.etag = n.etag
                                   THEN "store" ELSE "redo")
  BY ZenonT(60) DEF ListItem
<1> DEFINE now(pc) == [list EXCEPT !.pc = pc, !.items = @ \ {n}, !.node = n]
           at(pc, e) == [now(pc) EXCEPT !.at = e, !.stamp = db.rows[e].stamp,
                                        !.hydrated = db.rows[e].hydrated,
                                        !.recent = db.rows[e].recent]
           put(e) == [now("conflict") EXCEPT !.at = e, !.then = "occupant"]
           past == [list EXCEPT !.items = @ \ {n}]
<1>3. \/ RowsWithId(db, n.id) = {} /\ list' = now("occupant")
      \/ \E e \in RowsWithId(db, n.id) :
           \/ list' = put(e)
           \/ list' = past
           \/ list' = at("relocate", e)
           \/ e = n.path /\ list' \in {at("store", e), at("redo", e)}
  BY Zenon, <1>2
<1>4. now("occupant").pc = "occupant" /\ now("occupant").node = n
  BY ListFields DEF Calmly
<1>5. ASSUME NEW pc, NEW e  PROVE at(pc, e).pc = pc /\ at(pc, e).node = n /\ at(pc, e).at = e
  BY ListFields DEF Calmly
<1>6. ASSUME NEW e  PROVE put(e).pc = "conflict" /\ put(e).node = n /\ put(e).at = e
  BY ListFields DEF Calmly
<1>7. past.pc = "items"
  BY <1>1, ListFields DEF Calmly
<1>8. n.id # NoId /\ Single(db)
  BY DEF Calmly, IInv, ListInv, ListState, ItemNode, Orderly
<1> HIDE DEF now, at, put, past
<1>9. CASE RowsWithId(db, n.id) = {} /\ list' = now("occupant")
  <2>1. \A q \in DOMAIN db.rows : db.rows[q].id # n.id
    BY <1>9 DEF RowsWithId
  <2> QED
    BY <1>1, <1>4, <1>8, <1>9, <2>1 DEF Orderly, Seated, Single
<1>10. ASSUME NEW e \in RowsWithId(db, n.id), Seat' = e, list'.node = n
       PROVE  Orderly'
  <2>1. \A q \in DOMAIN db.rows : db.rows[q].id = n.id => q = e
    BY <1>8 DEF RowsWithId, Single
  <2> QED
    BY <1>1, <1>8, <1>10, <2>1 DEF Orderly, Seated, Single
<1>11. CASE list' = past
  BY <1>1, <1>7, <1>8, <1>11, ItemDone DEF Single
<1>12. ASSUME NEW e \in RowsWithId(db, n.id),
              \/ list' \in {put(e), at("relocate", e)}
              \/ e = n.path /\ list' \in {at("store", e), at("redo", e)}
       PROVE  Orderly'
  <2>1. Seat' = e /\ list'.node = n
    BY <1>5, <1>6, <1>12 DEF Seat
  <2> QED
    BY <1>10, <2>1
<1> QED
  BY ZenonT(60), <1>3, <1>9, <1>11, <1>12

LEMMA OneListMoves ==
    ASSUME Calmly, Orderly, ListConflict \/ ListOccupant \/ ListRelocate \/ ListPlace
    PROVE  Orderly'
<1>1. /\ UNCHANGED db /\ list.pc \in {"conflict", "occupant", "relocate", "place", "redo"}
      /\ \/ list.pc = "conflict" /\ \E q : list' = [list EXCEPT !.pc = "detach", !.to = q]
         \/ /\ list.pc = "occupant"
            /\ \/ list' = [list EXCEPT !.pc = "conflict", !.at = list.node.path, !.then = "place"]
               \/ list' = [list EXCEPT !.pc = "place"]
         \/ list.pc = "relocate" /\ list' = [list EXCEPT !.pc = "rekey"]
         \/ /\ list.pc \in {"place", "redo"}
            /\ list' = [list EXCEPT !.pc = "store", !.hydrated = FALSE]
  BY Zenon DEF ListConflict, ListOccupant, ListRelocate, ListPlace
<1>2. list'.node = list.node /\ Seat' = Seat
  BY <1>1, ListFields DEF Calmly, Seat
<1> QED
  BY <1>1, <1>2, ItemGoesOn DEF Applying

\* What is put aside forgets the item, which has no row then.
LEMMA OneListDetach ==
    ASSUME Calmly, Orderly, ListDetach
    PROVE  Orderly'
<1>0. PICK p, q : p = list.at /\ q = list.to
  OBVIOUS
<1>1. /\ list.pc = "detach" /\ list'.node = list.node
      /\ db' = QueueConflictCopies(DetachSubtreeAsConflict(db, p, q), q)
  BY <1>0, ListFields DEF ListDetach, Calmly
<1>2. /\ p \in Top /\ q \in Top /\ Sound(db) /\ Single(db) /\ ~Has(db, q)
      /\ list.node.id # NoId
  BY <1>0, <1>1 DEF Calmly, IInv, DbInv, ListInv, ItemNode, Paired, ListSees, Orderly
<1> DEFINE new == DetachSubtreeAsConflict(db, p, q)
<1>3. /\ Single(new)
      /\ \A r \in DOMAIN new.rows : new.rows[r].id # NoId =>
            r \in DOMAIN db.rows \ {p} /\ db.rows[r].id = new.rows[r].id
  BY <1>2, DetachSingle
<1>4. db'.rows = new.rows
  <2>1. DOMAIN new = {"rows", "ops"}
    BY <1>2 DEF DetachSubtreeAsConflict, Sound, StoreType
  <2> HIDE DEF new
  <2> QED
    BY <1>1, <2>1 DEF QueueConflictCopies, new
<1> HIDE DEF new
<1>5. \A r \in DOMAIN db.rows : db.rows[r].id = list.node.id => r = p
  BY <1>0, <1>1 DEF Orderly, Seated, Applying, Seat
<1>6. \A r \in DOMAIN db'.rows : db'.rows[r].id # list.node.id
  BY <1>2, <1>3, <1>4, <1>5
<1> QED
  BY <1>1, <1>3, <1>4, <1>6 DEF Orderly, Seated, Single

\* The row takes the item along.
LEMMA OneListRekey ==
    ASSUME Calmly, Orderly, ListRekey
    PROVE  Orderly'
<1>0. PICK p, q, grave : /\ p = list.at /\ q = list.node.path
                         /\ grave = [r \in {list.node.path} |-> Pick(FreeGraves)]
  BY Zenon
<1>1. list.pc = "rekey" /\ db' = RenameTree(db, p, q, FALSE, TRUE, grave)
  BY <1>0 DEF ListRekey
<1>2. /\ p \in Top /\ q \in Top /\ p # q /\ Sound(db) /\ Single(db) /\ Live(db, p)
      /\ list.node.id # NoId
  BY <1>0, <1>1 DEF Calmly, IInv, DbInv, ListInv, ItemNode, Paired, ListSees, Known, Orderly
<1>3. ~Has(db, grave[q])
  BY <1>0, Picked DEF ListRekey, FreeGraves, Has
<1>4. /\ Single(db') /\ From(db, db', {p, q})
      /\ q \in DOMAIN db'.rows /\ db'.rows[q].id = db.rows[p].id
  <2>1. PICK after : after = RenameTree(db, p, q, FALSE, TRUE, grave)
    OBVIOUS
  <2>2. Single(after) /\ From(db, after, {p, q}) /\ Follows(db, p, after, q)
    BY <1>2, <1>3, <2>1, RenameSingle, Zenon
  <2> QED
    BY <1>1, <2>1, <2>2 DEF Follows
<1>5. list'.node = list.node /\ list'.pc \in {"store", "redo"}
  <2> DEFINE row == db'.rows[list.node.path]
             read == IF Has(db', list.node.path)
                     THEN [list EXCEPT !.stamp = row.stamp, !.hydrated = row.hydrated,
                                       !.recent = row.recent]
                     ELSE list
  <2>1. list' = [read EXCEPT !.pc = IF read.stamp = list.node.stamp THEN "store" ELSE "redo"]
    BY DEF ListRekey
  <2>2. DOMAIN read = DOMAIN list /\ read.node = list.node
    BY ListFields DEF Calmly
  <2> HIDE DEF read
  <2> QED
    BY <2>1, <2>2, ListFields DEF Calmly
<1>6. \A r \in DOMAIN db.rows : db.rows[r].id = list.node.id => r = p
  BY <1>0, <1>1 DEF Orderly, Seated, Applying, Seat
<1>7. ASSUME NEW r \in DOMAIN db'.rows, db'.rows[r].id = list.node.id
      PROVE  r = q
  <2>1. \E o \in DOMAIN db.rows : db.rows[o].id = list.node.id
    BY <1>2, <1>4, <1>7 DEF From
  <2>2. db.rows[p].id = list.node.id
    BY <1>6, <2>1
  <2> QED
    BY <1>2, <1>4, <1>7, <2>2 DEF Single
<1>8. Seat' = q
  BY <1>0, <1>5 DEF Seat
<1> QED
  BY <1>4, <1>5, <1>7, <1>8 DEF Orderly, Seated

\* The only row the item can have is the one it is stored in.
LEMMA OneListStore ==
    ASSUME Calmly, Orderly, ListStore
    PROVE  Orderly'
<1>0. PICK q, i, row :
        /\ q = list.node.path /\ i = list.node.id
        /\ row = [FromRemote(list.node.path, list.node) EXCEPT !.hydrated = list.hydrated,
                                                               !.recent = list.recent]
  OBVIOUS
<1>1. /\ list.pc = "store" /\ db' = UpsertEntry(db, q, row) /\ list'.pc = "items"
  BY <1>0 DEF ListStore, ListItems, ListIdle
<1>2. Single(db) /\ StoreType(db)
  BY DEF Orderly, Calmly, IInv, DbInv, Sound
<1>3. row.id = i
  BY <1>0 DEF FromRemote
<1> DEFINE new == [r \in DOMAIN db.rows \union {q} |-> IF r = q THEN row ELSE db.rows[r]]
<1>4. db'.rows = new
  BY <1>1, <1>2 DEF UpsertEntry, StoreType
<1>5. /\ DOMAIN new \subseteq DOMAIN db.rows \union {q}
      /\ q \in DOMAIN new => new[q].id = i
      /\ \A r \in DOMAIN new \ {q} : new[r].id = db.rows[r].id
  BY <1>3
<1> HIDE DEF new
<1>6. \A r \in DOMAIN db.rows \ {q} : db.rows[r].id # i
  BY <1>0, <1>1 DEF Orderly, Seated, Applying, Seat
<1>7. Single(db')
  BY <1>2, <1>4, <1>5, <1>6 DEF Single
<1> QED
  BY <1>1, <1>7, ItemDone

-----------------------------------------------------------------------------
LEMMA UniqueInductive == IInv /\ OInv /\ UInv /\ ~Mistaken /\ [Next]_vars => UInv'
<1> SUFFICES ASSUME IInv, OInv, UInv, ~Mistaken, [Next]_vars, Undisturbed'  PROVE Orderly'
  BY DEF UInv
<1>0. Calmly /\ Orderly
  BY Remembered, Inductive, PairsInductive DEF Calmly, OInv, UInv
<1>1. CASE UserBegin \/ UserContinues
  BY <1>0, <1>1, OneUserQuiet, OneUserCreates, OneUserRecords, OneUserForgets,
     OneUserRenames, OneUserMarks DEF UserContinues
<1>2. CASE Uploader
  BY <1>0, <1>2, OneUpQuiet, OneUpForget, OneUpMarks, OneUpMeta, OneUpClean DEF Uploader
<1>3. CASE Lister
  BY <1>0, <1>3, OneListEnds, OneListSweep, OneListItem, OneListMoves, OneListDetach,
     OneListRekey, OneListStore DEF Lister
<1>4. CASE Downloader
  BY <1>0, <1>4, OneDownloader
<1>5. CASE Restart
  BY <1>0, <1>5, OneRestart
<1>6. CASE Elsewhere
  BY <1>0, <1>6, OneElsewhere
<1>7. CASE UNCHANGED vars
  BY <1>0, <1>7, RowsAsTheyWere DEF vars
<1> QED
  BY <1>1, <1>2, <1>3, <1>4, <1>5, <1>6, <1>7 DEF Next

\* At the start every item has the row of its path.
LEMMA UniqueInitially == Init => UInv
<1> SUFFICES ASSUME Init  PROVE Orderly
  BY DEF UInv
<1> DEFINE seeded == {Join(Root, Seed[i]) : i \in DOMAIN Seed}
           idAt(p) == CHOOSE i \in DOMAIN Seed : Join(Root, Seed[i]) = p
           row(p, down) == [FromRemote(p, Node(cloud, idAt(p))) EXCEPT !.hydrated = p \in down]
<1>1. PICK downloaded \in SUBSET seeded :
        db = [rows |-> [p \in seeded |-> row(p, downloaded)], ops |-> {}]
  BY Zenon DEF Init
<1>2. \A p \in seeded : Join(Root, Seed[idAt(p)]) = p
  OBVIOUS
<1>3. ASSUME NEW p  PROVE row(p, downloaded).id = idAt(p)
  BY DEF FromRemote, Node
<1> HIDE DEF seeded, idAt, row
<1>4. DOMAIN db.rows = seeded /\ \A p \in seeded : db.rows[p].id = idAt(p)
  BY <1>1, <1>3
<1>5. Single(db)
  BY <1>2, <1>4 DEF Single
<1>6. ~Applying
  BY DEF Init, ListIdle, Applying
<1> QED
  BY <1>5, <1>6 DEF Orderly, Seated

\* No two rows have the same item, for any number of files, calls, passes, listings,
\* downloads, crashes, changes elsewhere and failed calls, as long as no two actors met
\* on a path and no upload, reading an item back by its name (refresh_child_meta,
\* upload.rs:270), finds one that another row has or that a listing is giving to
\* another row (`Mistaken'): renames, conflict copies, tombstones put aside and a
\* listing that decides long before it stores never give an item a second row, so
\* get_entry_by_remote_id finds the one there is.
THEOREM OnlyMistaken == Spec /\ [](~Mistaken) => []UniqueIds
<1>1. Init => IInv /\ OInv /\ UInv
  BY Initially, PairsInitially, UniqueInitially
<1>2. IInv /\ OInv /\ UInv /\ ~Mistaken /\ [Next]_vars => IInv' /\ OInv' /\ UInv'
  BY Inductive, PairsInductive, UniqueInductive
<1>3. UInv => UniqueIds
  BY DEF UInv, Orderly, Single, UniqueIds
<1> QED
  BY <1>1, <1>2, <1>3, PTL DEF Spec
=============================================================================
