-------------------------- MODULE MCPlaywrightAuth --------------------------
(* Instances of PlaywrightAuth for TLC. *)
EXTENDS PlaywrightAuth
==============================================================================
