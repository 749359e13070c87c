----------------------------- MODULE MCGitAccess ------------------------------
(***************************************************************************)
(* Values for GitAccess: an owner and a stranger.                          *)
(***************************************************************************)
EXTENDS GitAccess
=============================================================================
