---------------------------- MODULE MC_AbyssFS ----------------------------
(* Instances of AbyssFS for TLC.                                           *)
EXTENDS AbyssFS

MCNames == {".", "..", "hello.txt", "a"}

\* Files and directories in the root and one level down, a path through "..",
\* and paths whose parent is missing or is a file.
MCPaths == { <<"a">>, <<"hello.txt">>, <<"a", "a">>, <<"a", "..", "hello.txt">>,
             <<"hello.txt", "a">> }

MCFlatCwds == { <<>> }

MCCwds == { <<>>, <<"a">> }

MCBuffers == { <<1>> }
=============================================================================
