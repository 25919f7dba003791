--------------------------------- MODULE MCNet ---------------------------------
(* The network for model checking Net: the two hosts handle_net asks for, and   *)
(* one that shares a bucket of the ARP cache with the second.  Bytes of three   *)
(* values make words below 9, whose sums of four need the second folding.       *)
EXTENDS Net
MCHostNames == {<<10, 0, 2, 4>>, <<10, 0, 2, 2>>, <<10, 0, 2, 7>>}
MCAskedFirst == <<10, 0, 2, 4>>
MCAskedNext == <<10, 0, 2, 2>>
MCData == UNION {[1..n -> 0..Base-1] : n \in {1, 3, 4, 6}}
MCDataSizes == {4, 1480, 2033, 2952}
=============================================================================
