----------------------------- MODULE MC_RamFS -----------------------------
(* Instances of RamFS for TLC.                                             *)
EXTENDS RamFS

\* A file in a directory of /tmp, and a file in /tmp whose name begins like that
\* directory's.
MCPaths == { <<"/", "tmp", "/", "a", "/", "b">>, <<"/", "tmp", "/", "a", "b">> }

MCContents == { <<1>>, <<1, 2>> }

MCCounts == {1, 2}
=============================================================================
