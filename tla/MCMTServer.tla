----------------------------- MODULE MCMTServer ------------------------------
(***************************************************************************)
(* Values of MTServer's constants for TLC.                                 *)
(***************************************************************************)
EXTENDS MTServer

ThreeNames == <<"/a", "/b", "/c">>
TwoNames   == <<"/a", "/b">>
=============================================================================
