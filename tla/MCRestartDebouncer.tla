------------------------- MODULE MCRestartDebouncer -------------------------
(* An instance of RestartDebouncer for TLC: three profiles, of which one is   *)
(* applied.                                                                   *)
EXTENDS RestartDebouncer
=============================================================================
