-------------------------- MODULE MCStatusManager --------------------------
(* Instances of StatusManager for TLC: the configurations choose the          *)
(* controllers and the components that they follow.                           *)
EXTENDS StatusManager
============================================================================
