------------------------------ MODULE MCService ------------------------------
(* Two folders, of which the first is the default one.                        *)
EXTENDS Service

TwoDirs == {"iCloud", "Other"}
=============================================================================
