------------------------------ MODULE MCKMalloc ------------------------------
(* Constant values for model checking KMalloc: two sizes of blocks.          *)
EXTENDS KMalloc
MCBlocks == <<2, 1>>
=============================================================================
