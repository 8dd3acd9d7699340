------------------------------- MODULE Adapter -------------------------------
(***************************************************************************)
(* The FUSE adapter (icloudd/src/adapter.rs): the kernel's requests, which *)
(* name inodes, turned into calls of the file system, which name paths.    *)
(* Sixteen threads serve requests; a handler takes the lock of the inode   *)
(* table for one operation of it at a time and holds nothing while the     *)
(* file system (fs.rs) does the call, so the steps below are one operation *)
(* of the table or one call of the file system each.                       *)
(*                                                                         *)
(* The file system is the tree of what exists: a partial function from     *)
(* paths to objects.  How it keeps it is the subject of FileSync.  The     *)
(* kernel is external: it remembers what each number it was given stands   *)
(* for, and locks a folder whose names change and a file that is written,  *)
(* renamed or removed against other calls.                                 *)
(*                                                                         *)
(* Two histories say where the numbers stop being right: nobody tells the  *)
(* table when a listing renames something, and a handler goes on with the  *)
(* path it has taken when a folder on it moves.                            *)
(***************************************************************************)
EXTENDS Inodes

CONSTANTS
    Thread,        \* the threads serving requests
    Events,        \* bound: requests of the kernel, and changes that a listing brings
    MaxDepth       \* bound: components of a path

ASSUME AdapterAssumption == Events \in Nat /\ MaxDepth \in Nat

VARIABLES
    objs,      \* what there is: path -> [id, dir]
    made,      \* the last id used
    table,     \* the inode table
    told,      \* kernel: what it was told a number stands for
    th,        \* the request each thread serves
    lists,     \* open directory listings: the folder's number and the names
    wrote,     \* history: what the last write meant and what it changed
    astray,    \* history: what had a number when a listing renamed it
    raced,     \* history: has a folder moved or gone under a request that has its path?
    left       \* what is left of the bound

vars == <<objs, made, table, told, th, lists, wrote, astray, raced, left>>
noted == <<astray, raced>>

Names == UNION {{p[i] : i \in DOMAIN p} : p \in DOMAIN objs}
Nothing == [id |-> 0, dir |-> FALSE]
Idle == [op |-> "none", pc |-> "idle", ino |-> 0, name |-> "", to |-> <<0, "">>, path |-> Root, target |-> Root,
         keep |-> FALSE, means |-> Nothing, found |-> Nothing, excl |-> {}, shared |-> {}, left |-> {}]

Live(p) == p \in DOMAIN objs
IsDir(p) == Live(p) /\ objs[p].dir
Lives(o) == \E p \in DOMAIN objs : objs[p] = o
PathOf(o) == CHOOSE p \in DOMAIN objs : objs[p] = o
Empty(p) == \A q \in DOMAIN objs : IsWithin(q, p) => q = p

Insertable == {p \in UNION {[1 .. k -> Name] : k \in 1 .. MaxDepth} : IsDir(Parent(p))}

-----------------------------------------------------------------------------
\* The kernel starts a request.  A call that changes names has its folders and
\* what it moves or removes for itself; a lookup shares its folder.
Removes == {"unlink", "rmdir", "rename"}
Changes == Removes \union {"create", "mkdir"}

Victim(o, name) == {objs[p] : p \in {q \in DOMAIN objs : Lives(o) /\ q = Join(PathOf(o), name)}}

\* The tree has been renamed, and the table not yet, in a folder's rename.
MovesFolder(s) == th[s].op = "rename" /\ th[s].pc = "table" /\ IsDir(th[s].target)

Free(t, r) ==
    \A s \in Thread \ {t} : th[s].pc # "idle" =>
        /\ r.excl \intersect (th[s].excl \union th[s].shared) = {}
        /\ th[s].excl \intersect r.shared = {}

Named(op) == op \in {"lookup"} \union Changes
Writing(r) == r.op \in {"write", "setattr"} /\ r.pc = "core"

\* The paths that a request for a name or a write goes by.
Reach(r) ==
    (IF Named(r.op) \/ Writing(r) THEN {r.path} ELSE {}) \union
    (IF r.op # "rename" THEN {}
     ELSE IF r.pc # "resolve" THEN {r.target}
     ELSE {table.byIno[n] : n \in {r.to[1]} \intersect DOMAIN table.byIno})

\* Does a request of somebody else go by a path below p?
Under(t, p) == \E s \in Thread \ {t} : \E q \in Reach(th[s]) : IsWithin(q, p)

\* Which call the handler makes once it has its path.
Then(op) ==
    CASE op \in {"lookup", "getattr"} -> "attr"
      [] op = "rename"               -> "resolve"
      [] op = "readdir"              -> "dots"
      [] OTHER                       -> "core"

\* path_of, and child_path for a name in a folder: the handler's first step.
Resolved(r) ==
    IF ~Knows(table, r.ino) THEN Idle
    ELSE LET p == table.byIno[r.ino]
         IN  [r EXCEPT !.path = IF Named(r.op) THEN Join(p, r.name) ELSE p, !.pc = Then(r.op)]

\* It goes by a path that a folder is leaving or coming to, or is made in a folder that
\* is no more.
Hasty(t, r) ==
    \/ \E s \in Thread \ {t} : MovesFolder(s) /\
          \E q \in Reach(Resolved(r)) : IsWithin(q, th[s].path) \/ IsWithin(q, th[s].target)
    \/ Named(r.op) /\ ~Lives(r.means)
    \/ r.op = "rename" /\ ~Lives(r.found)

Begin(t, r) ==
    /\ th[t].pc = "idle" /\ left > 0
    /\ Free(t, r)
    /\ th' = [th EXCEPT ![t] = Resolved(r)]
    /\ left' = left - 1
    /\ raced' = (raced \/ Hasty(t, r))
    /\ UNCHANGED <<objs, made, table, told, lists, wrote, astray>>

Known(dir) == {n \in DOMAIN told : told[n].dir = dir}

\* The kernel has just looked a name up before it changes it.
Sensible(op, there) ==
    CASE op \in {"create", "mkdir"} -> there = {}
      [] op = "unlink"             -> \E o \in there : ~o.dir
      [] op = "rmdir"              -> \E o \in there : o.dir
      [] op = "rename"             -> there # {}
      [] OTHER                     -> TRUE

\* lookup, create and mknod, mkdir, unlink, rmdir: a name in a folder.
BeginNamed(t, op) ==
    \E n \in Known(TRUE), name \in Name :
        LET d == told[n] IN
        /\ Sensible(op, Victim(d, name))
        /\ Begin(t, [Idle EXCEPT !.op = op, !.ino = n, !.name = name, !.means = d,
                        !.excl = IF op \in Changes THEN {d} \union Victim(d, name) ELSE {},
                        !.shared = IF op = "lookup" THEN {d} ELSE {}])

\* keep is RENAME_NOREPLACE; RENAME_EXCHANGE is refused at once.
BeginRename(t) ==
    \E n, m \in Known(TRUE), a, b \in Name, keep \in BOOLEAN :
        /\ <<n, a>> # <<m, b>>
        /\ Sensible("rename", Victim(told[n], a))
        /\ Begin(t, [Idle EXCEPT !.op = "rename", !.ino = n, !.name = a, !.to = <<m, b>>, !.keep = keep,
                        !.means = told[n], !.found = told[m],
                        !.excl = {told[n], told[m]} \union Victim(told[n], a) \union Victim(told[m], b)])

\* getattr locks nothing (nor do access, open and read, which do the same and are
\* left out), write and setattr have the file, opendir and readdir share the folder.
BeginByNumber(t, op) ==
    \E n \in Known(op = "opendir") :
        Begin(t, [Idle EXCEPT !.op = op, !.ino = n, !.means = told[n],
                     !.excl = IF op \in {"write", "setattr"} THEN {told[n]} ELSE {},
                     !.shared = IF op = "opendir" THEN {told[n]} ELSE {}])

BeginReaddir(t) ==
    \E l \in lists :
        Begin(t, [Idle EXCEPT !.op = "readdir", !.ino = l.ino, !.left = l.names, !.shared = {l.means}])

\* releasedir
ReleaseDir ==
    /\ \E l \in lists : (\A t \in Thread : th[t].op # "readdir") /\ lists' = lists \ {l}
    /\ UNCHANGED <<objs, made, table, told, th, wrote, noted, left>>

-----------------------------------------------------------------------------
\* The handlers.
Done(t) == th' = [th EXCEPT ![t] = Idle]
Goes(t, r, pc) == th' = [th EXCEPT ![t] = [r EXCEPT !.pc = pc]]

\* rename asks for its second path in a call of its own.
ResolveTarget(t) ==
    LET r == th[t] IN
    /\ r.pc = "resolve"
    /\ IF ~Knows(table, r.to[1]) THEN Done(t)
       ELSE Goes(t, [r EXCEPT !.target = Join(table.byIno[r.to[1]], r.to[2])],
                 IF r.keep THEN "check" ELSE "core")
    /\ UNCHANGED <<objs, made, table, told, lists, wrote, noted, left>>

\* RENAME_NOREPLACE
CheckTarget(t) ==
    LET r == th[t] IN
    /\ r.pc = "check"
    /\ IF Live(r.target) THEN Done(t) ELSE Goes(t, r, "core")
    /\ UNCHANGED <<objs, made, table, told, lists, wrote, noted, left>>

\* getattr of the path, for its attributes; a path that is gone is an error.
Attr(t) ==
    LET r == th[t] IN
    /\ r.pc = "attr"
    /\ IF Live(r.path) THEN Goes(t, [r EXCEPT !.found = objs[r.path]], "number") ELSE Done(t)
    /\ UNCHANGED <<objs, made, table, told, lists, wrote, noted, left>>

\* The number goes into the reply.  The kernel takes it for the name it asked about.
Answer(t) ==
    LET r == th[t] IN
    /\ r.pc = "number"
    /\ table' = Assigned(table, r.path)
    /\ told' = IF Named(r.op) THEN Insert(told, InoFor(table, r.path), r.found) ELSE told
    /\ Done(t)
    /\ UNCHANGED <<objs, made, lists, wrote, noted, left>>

\* readdir numbers the parent and then each name of the listing in turn.
Dots(t) ==
    LET r == th[t] IN
    /\ r.pc = "dots"
    /\ table' = Assigned(table, Parent(r.path))
    /\ Goes(t, r, "names")
    /\ UNCHANGED <<objs, made, told, lists, wrote, noted, left>>

NextName(t) ==
    LET r == th[t] IN
    /\ r.pc = "names"
    /\ IF r.left = {} THEN Done(t) /\ UNCHANGED table
       ELSE \E n \in r.left :
            /\ table' = Assigned(table, Join(r.path, n))
            /\ Goes(t, [r EXCEPT !.left = @ \ {n}], "names")
    /\ UNCHANGED <<objs, made, told, lists, wrote, noted, left>>

-----------------------------------------------------------------------------
\* The calls of the file system.
Refused(t) ==
    /\ th[t].pc = "core"
    /\ Done(t)
    /\ UNCHANGED <<objs, made, table, told, lists, wrote, noted, left>>

Created(p, dir) == objs' = Insert(objs, p, [id |-> made + 1, dir |-> dir]) /\ made' = made + 1

Create(t, op) ==
    LET r == th[t] IN
    /\ r.pc = "core" /\ r.op = op /\ Len(r.path) <= MaxDepth
    /\ IsDir(Parent(r.path)) /\ ~Live(r.path)
    /\ Created(r.path, op = "mkdir")
    /\ Goes(t, r, "attr")
    /\ UNCHANGED <<table, told, lists, wrote, noted, left>>

Gone(p) == objs' = Restrict(objs, {q \in DOMAIN objs : ~IsWithin(q, p)})

Remove(t) ==
    LET r == th[t] IN
    /\ r.pc = "core" /\ r.op \in {"unlink", "rmdir"} /\ r.path # Root
    /\ Live(r.path) /\ (IsDir(r.path) <=> r.op = "rmdir") /\ Empty(r.path)
    /\ Gone(r.path)
    /\ Goes(t, r, "table")
    /\ UNCHANGED <<made, table, told, lists, wrote, noted, left>>

\* What is below `a` is below `b` now; what was at `b` is gone.
Moved(a, b) ==
    LET moving == {p \in DOMAIN objs : IsWithin(p, a)}
        stays  == {p \in DOMAIN objs \ moving : ~IsWithin(p, b)}
    IN  objs' = [q \in stays \union {Rebase(p, a, b) : p \in moving} |->
                    IF IsWithin(q, b) THEN objs[Rebase(q, b, a)] ELSE objs[q]]

\* The rules of fs.rs for a rename.
MayMove(a, b) ==
    /\ a # b /\ a # Root /\ b # Root /\ Live(a)
    /\ ~IsWithin(b, a) /\ IsDir(Parent(b))
    /\ \A p \in DOMAIN objs : IsWithin(p, a) => Len(p) - Len(a) + Len(b) <= MaxDepth
    /\ Live(b) => (IsDir(a) <=> IsDir(b)) /\ Empty(b)

RenameCore(t) ==
    LET r == th[t] IN
    /\ r.pc = "core" /\ r.op = "rename"
    /\ MayMove(r.path, r.target)
    /\ Moved(r.path, r.target)
    /\ Goes(t, r, "table")
    /\ raced' = (raced \/ (IsDir(r.path) /\ (Under(t, r.path) \/ Under(t, r.target))))
    /\ UNCHANGED <<made, table, told, lists, wrote, astray, left>>

\* unlink and rmdir forget the path, rename follows it.
Table(t) ==
    LET r == th[t] IN
    /\ r.pc = "table"
    /\ table' = IF r.op = "rename" THEN Rename(table, r.path, r.target) ELSE RemoveSubtree(table, r.path)
    /\ Done(t)
    /\ UNCHANGED <<objs, made, told, lists, wrote, noted, left>>

\* A call that changes the file its path leads to now.
Overwrites(t, op) ==
    LET r == th[t] IN
    /\ r.pc = "core" /\ r.op = op /\ Live(r.path)
    /\ wrote' = [meant |-> r.means, changed |-> objs[r.path], lives |-> Lives(r.means)]
    /\ UNCHANGED <<objs, made, table, told, lists, noted, left>>

Write(t) == Overwrites(t, "write") /\ Done(t)

\* setattr truncates the file and sets its time, and goes on to ask for the attributes.
SetAttr(t) == Overwrites(t, "setattr") /\ Goes(t, th[t], "attr")

\* opendir keeps the listing it took.
OpenDir(t) ==
    LET r == th[t] IN
    /\ r.pc = "core" /\ r.op = "opendir" /\ IsDir(r.path)
    /\ lists' = lists \union {[ino |-> r.ino, means |-> r.means,
                               names |-> {n \in Name : Live(Join(r.path, n))}]}
    /\ Done(t)
    /\ UNCHANGED <<objs, made, table, told, wrote, noted, left>>

-----------------------------------------------------------------------------
\* Where a number leads once the requests that have changed the tree, and not
\* yet the table, have caught up.
Pending(op) == {t \in Thread : th[t].pc = "table" /\ th[t].op \in op}

Catching(p) ==
    LET renaming == {t \in Pending({"rename"}) : IsWithin(p, th[t].path)}
        lost     == \/ \E t \in Pending({"unlink", "rmdir"}) : IsWithin(p, th[t].path)
                    \/ \E t \in Pending({"rename"}) : IsWithin(p, th[t].target)
    IN  IF renaming # {} THEN {Rebase(p, th[t].path, th[t].target) : t \in renaming}
        ELSE IF lost THEN {} ELSE {p}

Ends(p) == IF Pending(Removes) = {} THEN {p} ELSE Catching(p)

LeadsTo ==
    LET end  == [n \in DOMAIN table.byIno |-> {q \in Ends(table.byIno[n]) : Live(q)}]
    IN  [n \in {m \in DOMAIN end : end[m] # {}} |-> objs[CHOOSE q \in end[n] : TRUE]]

-----------------------------------------------------------------------------
\* A listing brings a change of another device into the tree; nobody tells the
\* inode table.
Bring == left > 0 /\ left' = left - 1
Unheard == UNCHANGED <<table, told, th, lists, wrote>>

\* A folder goes, by whatever happens on iCloud, while a request goes by a path in it.
Disturbs(p) == IsDir(p) /\ \E t \in Thread : \E q \in Reach(th[t]) : IsWithin(q, p)

Appears ==
    /\ Bring /\ Unheard /\ UNCHANGED noted
    /\ \E p \in Insertable : ~Live(p) /\ \E dir \in BOOLEAN : Created(p, dir)

Vanishes ==
    /\ Bring /\ Unheard /\ UNCHANGED <<made, astray>>
    /\ \E p \in DOMAIN objs \ {Root} : Gone(p) /\ raced' = (raced \/ Disturbs(p))

Held == {LeadsTo[n] : n \in DOMAIN LeadsTo} \union {th[t].found : t \in Thread}
HeldBelow(p) == {o \in Held : \E q \in DOMAIN objs : IsWithin(q, p) /\ objs[q] = o}

\* What has a number keeps it, and the number its old path.
Moves ==
    /\ Bring /\ Unheard /\ UNCHANGED made
    /\ \E p \in DOMAIN objs \ {Root}, q \in Insertable :
          /\ ~Live(q) /\ MayMove(p, q) /\ Moved(p, q)
          /\ astray' = astray \union HeldBelow(p)
          /\ raced' = (raced \/ Disturbs(p) \/ \E o \in HeldBelow(p) : o.dir)

-----------------------------------------------------------------------------
\* A folder and a file; the kernel has looked at the first `seen` of the path.
Init ==
    \E d, f \in Name, seen \in 2 .. 3 :
        LET paths == {Root, <<d>>, <<d, f>>}
        IN  /\ d # f
            /\ objs = [p \in paths |-> [id |-> Len(p) + 1, dir |-> Len(p) < 2]]
            /\ table = IF seen = 2 THEN Assigned(New, <<d>>) ELSE Assigned(Assigned(New, <<d>>), <<d, f>>)
            /\ told = [n \in 1 .. seen |-> [id |-> n, dir |-> n < 3]]
            /\ made = 3
            /\ th = [t \in Thread |-> Idle]
            /\ lists = {}
            /\ wrote = [meant |-> Nothing, changed |-> Nothing, lives |-> FALSE]
            /\ astray = {} /\ raced = FALSE
            /\ left = Events

Request(t) ==
    \/ \E op \in {"lookup", "create", "mkdir", "unlink", "rmdir"} : BeginNamed(t, op)
    \/ BeginRename(t)
    \/ \E op \in {"getattr", "write", "setattr", "opendir"} : BeginByNumber(t, op)
    \/ BeginReaddir(t)

Handle(t) ==
    \/ ResolveTarget(t) \/ CheckTarget(t)
    \/ Attr(t) \/ Answer(t) \/ Dots(t) \/ NextName(t)
    \/ Create(t, "create") \/ Create(t, "mkdir") \/ Remove(t)
    \/ RenameCore(t) \/ Table(t)
    \/ Write(t) \/ SetAttr(t) \/ OpenDir(t) \/ Refused(t)

Next == (\E t \in Thread : Request(t) \/ Handle(t)) \/ ReleaseDir \/ Appears \/ Vanishes \/ Moves

Spec == Init /\ [][Next]_vars

-----------------------------------------------------------------------------
N == INSTANCE Numbers WITH alive <- {objs[p] : p \in DOMAIN objs}, names <- LeadsTo,
                           strays <- astray, off <- raced

\* The table and the tree do what Numbers promises: whatever the handlers do at
\* the same time, a number never leaves a file for another one, and none loses
\* its number before it is deleted, or renamed by a listing.
KeepsPromise == N!Spec

\* The two maps of the table are the inverse of one another.
OneNumberEach == Bijective(table)

\* What the kernel was told about a number holds as long as the file exists, so
\* that open files keep working (inodes.rs:4), unless a listing has renamed it.
ToldTrue ==
    raced \/ \A n \in DOMAIN told :
        Lives(told[n]) /\ told[n] \notin astray => n \in DOMAIN LeadsTo /\ LeadsTo[n] = told[n]

\* A write or a truncation never changes another file than the one meant, as
\* long as that one exists and no listing has renamed it.
WritesRight == raced \/ (wrote.lives /\ wrote.meant \notin astray => wrote.changed = wrote.meant)

ObjType == [id : Nat, dir : BOOLEAN]
Ops == {"none", "lookup", "getattr", "write", "setattr", "opendir", "readdir"} \union Changes
RequestType ==
    [op : Ops,
     pc : {"idle", "attr", "number", "resolve", "check", "dots", "names", "core", "table"},
     ino : Nat, name : Name \union {""}, to : Nat \X (Name \union {""}),
     path : Path, target : Path, keep : BOOLEAN, means : ObjType, found : ObjType,
     excl : SUBSET ObjType, shared : SUBSET ObjType, left : SUBSET Name]

\* What the tree, the table, the kernel and the threads hold.
TypeOK ==
    /\ DOMAIN objs \subseteq Path /\ \A p \in DOMAIN objs : objs[p] \in ObjType
    /\ made \in Nat
    /\ TableType(table)
    /\ DOMAIN told \subseteq Nat /\ \A n \in DOMAIN told : told[n] \in ObjType
    /\ th \in [Thread -> RequestType]
    /\ \A t \in Thread : th[t].pc = "resolve" => th[t].to[2] \in Name
    /\ lists \subseteq [ino : Nat, means : ObjType, names : SUBSET Name]
    /\ wrote \in [meant : ObjType, changed : ObjType, lives : BOOLEAN]
    /\ astray \subseteq ObjType /\ raced \in BOOLEAN
    /\ left \in Nat
=============================================================================
