-------------------------- MODULE MCPlayerScheduler --------------------------
(***************************************************************************)
(* Two threads that schedule and remove tasks, and both suspend, resume,    *)
(* empty, stop and start the scheduler.  Ids wrap after two, so that a      *)
(* third task reuses an id.                                                 *)
(***************************************************************************)
EXTENDS PlayerScheduler

CONSTANTS owner, caller

TwoControllers == {owner, caller}
=============================================================================
