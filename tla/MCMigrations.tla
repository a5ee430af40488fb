---------------------------- MODULE MCMigrations ----------------------------
(***************************************************************************)
(* A TLC instance of Migrations: a release with two files, one without     *)
(* changes and one that adds a third file.                                 *)
(***************************************************************************)
EXTENDS Migrations

MCFiles == [v \in Version |-> IF v = 3 THEN {10, 20, 30} ELSE {10, 20}]

=============================================================================
