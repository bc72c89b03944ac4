---------------------------- MODULE QuietRestart ----------------------------
(***************************************************************************)
(* What the debouncer of TLS profile changes promises                      *)
(* (internal/pkg/tlsconfig/restart_debouncer.go): the operator restarts    *)
(* only once the latest profile has differed from the one its servers were *)
(* started with, unchanged, for a whole quiet period.  Which profiles were *)
(* seen, the channel and the timer are not part of the promise.            *)
(***************************************************************************)
EXTENDS Naturals

CONSTANT Interval    \* the quiet period, in ticks of the clock

VARIABLES changed,  \* whether the latest profile is not the applied one
          quiet,    \* the ticks since it was observed, up to Interval
          operator  \* "running", "restarting" or "stopped"

promised == <<changed, quiet, operator>>

Init ==
    /\ changed = FALSE
    /\ quiet = Interval
    /\ operator = "running"

Observe ==
    /\ changed' \in BOOLEAN
    /\ quiet' = 0
    /\ UNCHANGED operator

Tick ==
    /\ quiet < Interval
    /\ quiet' = quiet + 1
    /\ UNCHANGED <<changed, operator>>

Restart ==
    /\ operator = "running"
    /\ changed
    /\ quiet = Interval
    /\ operator' = "restarting"
    /\ UNCHANGED <<changed, quiet>>

Stop ==
    /\ operator = "running"
    /\ operator' = "stopped"
    /\ UNCHANGED <<changed, quiet>>

Next == Observe \/ Tick \/ Restart \/ Stop

Spec == Init /\ [][Next]_promised
=============================================================================
