----------------------------- MODULE MCMigrations -----------------------------
(***************************************************************************)
(* Values for Migrations: the three files of the repository.               *)
(***************************************************************************)
EXTENDS Migrations
=============================================================================
