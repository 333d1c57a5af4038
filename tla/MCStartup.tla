------------------------------ MODULE MCStartup ------------------------------
(* The constants of the run stand in its .cfg.                             *)
EXTENDS Startup
=============================================================================
