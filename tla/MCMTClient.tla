----------------------------- MODULE MCMTClient ------------------------------
(***************************************************************************)
(* Values of MTClient's constants for TLC.                                 *)
(***************************************************************************)
EXTENDS MTClient

\* As many paths as requests: no two requests have the same path.
DistinctPaths == <<"/a", "/b", "/c", "/d">>

\* One path that every request of the run names.
OnePath == <<"/a">>

\* A path of the workload that is too long has overflowed the buffer through
\* which workload_init read it, so that there is none in a run.
NoPaths == {}

\* A failure for each of the two calls of unlink.
SomeOutcomes == {Success, [rc |-> 0, status |-> "FILE_NOT_FOUND"],
                 [rc |-> -1, status |-> "OK"]}

OnlySuccess == {Success}
=============================================================================
