------------------------------- MODULE Drive -------------------------------
(***************************************************************************)
(* iCloud as the engine uses it (icloud-api/src/drive.rs, trait Drive) and *)
(* as the repository's reference service implements it (memory.rs).        *)
(*                                                                         *)
(* The cloud is a partial function from item ids to items.  The service    *)
(* keeps an item under a parent id and a name; here the item carries the   *)
(* path these spell.  A call is one atomic operator from cloud to cloud.   *)
(***************************************************************************)
EXTENDS Paths, FiniteSets

CONSTANTS
    Numbered,    \* names the service gives a file whose own name is taken
    ChecksEtag   \* does it refuse a delete or a rename presenting an old etag?

\* Constants every module that uses the service relies on.
ASSUME DriveAssumption ==
    /\ Numbered \subseteq Name
    /\ ChecksEtag \in BOOLEAN

Item == [path : Path, kind : {"file", "folder"}, data : Nat, stamp : Nat, etag : Nat]

\* What a listing tells of an item.
Node(cloud, i) == [id |-> i, path |-> cloud[i].path, kind |-> cloud[i].kind,
                   etag |-> cloud[i].etag, stamp |-> cloud[i].stamp]

Children(cloud, folder) ==
    {Node(cloud, i) : i \in {j \in DOMAIN cloud : Parent(cloud[j].path) = folder}}

IdsAt(cloud, p) == {i \in DOMAIN cloud : cloud[i].path = p}

\* The service refuses a call about an item it does not have, or one made
\* with an etag that is no longer the item's, if it compares etags.
Refuses(cloud, node) ==
    node.id \in DOMAIN cloud => ChecksEtag /\ cloud[node.id].etag # node.etag

\* Where a file uploaded as p ends up: a name that is taken gets a number.
UploadPaths(cloud, p) ==
    IF IdsAt(cloud, p) = {} THEN {p}
    ELSE {q \in {Join(Parent(p), n) : n \in Numbered} : IdsAt(cloud, q) = {}}

Create(cloud, i, p, kind, data, stamp) ==
    [j \in DOMAIN cloud \union {i} |->
        IF j = i THEN [path |-> p, kind |-> kind, data |-> data, stamp |-> stamp, etag |-> 1]
                 ELSE cloud[j]]

Below(cloud, i) ==
    {j \in DOMAIN cloud : IsWithin(cloud[j].path, cloud[i].path)
                           /\ cloud[j].path # cloud[i].path}

\* The item and everything below it.
Delete(cloud, i) ==
    [j \in DOMAIN cloud \ ({i} \union Below(cloud, i)) |-> cloud[j]]

\* A rename or a move: the item gets a new etag, what is below it a new path.
Relocate(cloud, i, p) ==
    [j \in DOMAIN cloud |->
        IF j = i THEN [cloud[j] EXCEPT !.path = p, !.etag = @ + 1]
        ELSE IF j \in Below(cloud, i)
             THEN [cloud[j] EXCEPT !.path = Rebase(@, cloud[i].path, p)]
        ELSE cloud[j]]

\* New content for an item, written on another device.
Modify(cloud, i, data, stamp) ==
    [cloud EXCEPT ![i] = [cloud[i] EXCEPT !.data = data, !.stamp = stamp,
                                           !.etag = cloud[i].etag + 1]]
=============================================================================
