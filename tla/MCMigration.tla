------------------------------ MODULE MCMigration ------------------------------
(***************************************************************************)
(* Migration with a job of the release with two migrations, one of the     *)
(* release before it, an API of each release, and a job of a test that     *)
(* takes the database back to version 0 while the others are busy.         *)
(***************************************************************************)
EXTENDS Migration

CONSTANTS old, new, back, oldApi, newApi

MCFiles == [j \in Jobs |-> IF j = old THEN 1 ELSE 2]
MCTarget == [j \in Jobs |-> IF j = back THEN 0 ELSE MCFiles[j]]
MCExpected == [a \in Apis |-> IF a = oldApi THEN 1 ELSE 2]
=============================================================================
