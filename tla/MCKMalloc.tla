----------------------------- MODULE MCKMalloc ----------------------------
(* Values of the constants of KMalloc for TLC.                             *)
EXTENDS KMalloc

ArrayArguments == {<<2, 2>>}
============================================================================
