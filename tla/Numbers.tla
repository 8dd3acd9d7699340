------------------------------- MODULE Numbers -------------------------------
(***************************************************************************)
(* What the mount promises the kernel about inode numbers (inodes.rs,      *)
(* module comment): a number is handed out for a file or a folder and      *)
(* stays with it until it is deleted, whatever it is renamed to.           *)
(***************************************************************************)
VARIABLES
    alive,    \* the files and folders there are
    names,    \* partial function: what a number stands for
    strays,   \* what lost its number because its new name came from iCloud
    off       \* has anything happened that ends the promise?

\* Every number stands for something, and no two for the same.
Sound(f, S) ==
    /\ \A n \in DOMAIN f : f[n] \in S
    /\ \A m, n \in DOMAIN f : f[m] = f[n] => m = n

Init == ~off /\ Sound(names, alive)

\* Files come and go, and may be given a free number when they come or later;
\* only what is deleted, or goes astray, gives its number back.
Keep ==
    LET before == names
        after  == names'
        lives  == alive'
    IN  /\ Sound(after, lives)
        /\ \A n \in DOMAIN before :
              before[n] \in lives \ strays' => n \in DOMAIN after /\ after[n] = before[n]

Next == off' \/ (~off /\ Keep)

Spec == Init /\ [][Next]_<<alive, names, strays, off>>
=============================================================================
