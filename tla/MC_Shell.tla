----------------------------- MODULE MC_Shell -----------------------------
(* Instances of Shell for TLC.                                             *)
EXTENDS Shell

MCLetters == {"x"}
=============================================================================
