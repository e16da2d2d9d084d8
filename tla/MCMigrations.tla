---------------------------- MODULE MCMigrations ----------------------------
(* Three deployments that run the migrations at about the same time.             *)
EXTENDS Migrations
CONSTANTS r1, r2, r3
===============================================================================
