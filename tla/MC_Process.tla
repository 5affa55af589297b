---------------------------- MODULE MC_Process ----------------------------
(* Instances of Process for TLC.                                           *)
EXTENDS Process

CONSTANTS m1

MCMessage == {m1}

MCStatus == {42}
=============================================================================
