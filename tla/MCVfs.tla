-------------------------------- MODULE MCVfs --------------------------------
(* Constant values for model checking Vfs: absolute and relative names, with  *)
(* a missing first component (x) and a missing middle one (dev/x/dev).        *)
EXTENDS Vfs
Abs(c) == [abs |-> TRUE, comps |-> c]
Rel(c) == [abs |-> FALSE, comps |-> c]
MCPaths == {Abs(<<"dev">>), Abs(<<"dev", "a">>), Abs(<<"x", "dev">>),
            Abs(<<"dev", "x", "a">>), Rel(<<"a">>), Rel(<<"..", "">>)}
MCDevPaths == {Abs(<<"dev">>)}
MCFsNames == {"devfs", "fat"}
MCOffsets == {-1, 0}
=============================================================================
