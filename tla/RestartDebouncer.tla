-------------------------- MODULE RestartDebouncer --------------------------
(***************************************************************************)
(* The debouncer of TLS profile changes                                    *)
(* (internal/pkg/tlsconfig/restart_debouncer.go).  The profile watcher     *)
(* calls Observe, which stores the profile under the lock and only then    *)
(* signals a channel of one place; the loop of Start receives the signal,  *)
(* arms a timer, and decides when the timer expires.                       *)
(*                                                                         *)
(* Time is counted in ticks; both clocks, the age of the last change and   *)
(* what is left of the timer, stop at their bound.                         *)
(***************************************************************************)
EXTENDS Naturals

CONSTANTS Profiles,    \* the TLS profiles
          Applied,     \* the one the servers were started with
          Interval,    \* the quiet period, in ticks of the clock
          MaxObserves  \* the changes of the profile that are followed

ASSUME DebouncerAssumption == /\ Applied \in Profiles
                              /\ Interval \in Nat \ {0}
                              /\ MaxObserves \in Nat

VARIABLES latest,    \* the profile observed last
          age,       \* the ticks since changedAt, up to Interval
          signal,    \* whether the channel changed holds its one value
          observer,  \* "idle", or "send" between the lock and the channel
          loop,      \* "select", or "expired" between the timer and the lock
          armed,     \* whether the loop listens to the timer (timerC)
          left,      \* what is left of the timer
          phase,     \* "running", "restarting" or "stopped"
          observes   \* the changes so far

vars == <<latest, age, signal, observer, loop, armed, left, phase, observes>>

timer == <<armed, left>>

Init ==
    /\ latest = Applied
    /\ age = Interval
    /\ signal = FALSE
    /\ observer = "idle"
    /\ loop = "select"
    /\ armed = FALSE
    /\ left = 0
    /\ phase = "running"
    /\ observes = 0

\* Observe, under the lock.
Observe(p) ==
    /\ observer = "idle"
    /\ observes < MaxObserves
    /\ latest' = p
    /\ age' = 0
    /\ observer' = "send"
    /\ observes' = observes + 1
    /\ UNCHANGED <<signal, loop, timer, phase>>

\* Observe, after the lock: the send does not block.
Signal ==
    /\ observer = "send"
    /\ signal' = TRUE
    /\ observer' = "idle"
    /\ UNCHANGED <<latest, age, loop, timer, phase, observes>>

Tick ==
    /\ age < Interval \/ (armed /\ left > 0)
    /\ age' = IF age < Interval THEN age + 1 ELSE age
    /\ left' = IF armed /\ left > 0 THEN left - 1 ELSE left
    /\ UNCHANGED <<latest, signal, observer, loop, armed, phase, observes>>

\* Mutant: a running timer is left alone.
ChangedKeepsTimer ==
    /\ phase = "running" /\ loop = "select"
    /\ signal
    /\ signal' = FALSE
    /\ armed' = TRUE
    /\ left' = IF armed THEN left ELSE Interval
    /\ UNCHANGED <<latest, age, observer, loop, phase, observes>>

\* Start: the channel is received and the timer starts again.
Changed ==
    /\ phase = "running" /\ loop = "select"
    /\ signal
    /\ signal' = FALSE
    /\ armed' = TRUE
    /\ left' = Interval
    /\ UNCHANGED <<latest, age, observer, loop, phase, observes>>

\* Start: the timer has expired; the lock is not taken yet.
Expire ==
    /\ phase = "running" /\ loop = "select"
    /\ armed /\ left = 0
    /\ armed' = FALSE
    /\ loop' = "expired"
    /\ UNCHANGED <<latest, age, signal, observer, left, phase, observes>>

\* Start, under the lock: the quiet period is not over.
Wait ==
    /\ phase = "running" /\ loop = "expired"
    /\ age < Interval
    /\ armed' = TRUE
    /\ left' = Interval - age
    /\ loop' = "select"
    /\ UNCHANGED <<latest, age, signal, observer, phase, observes>>

\* Mutant: the profile compared with the applied one is not the latest.
ForgetStale ==
    /\ phase = "running" /\ loop = "expired"
    /\ age = Interval
    /\ loop' = "select"
    /\ UNCHANGED <<latest, age, signal, observer, timer, phase, observes>>

\* Start, under the lock: the profile is the applied one again.
Forget ==
    /\ phase = "running" /\ loop = "expired"
    /\ age = Interval
    /\ latest = Applied
    /\ loop' = "select"
    /\ UNCHANGED <<latest, age, signal, observer, timer, phase, observes>>

\* Mutant: the quiet period is not checked again under the lock.
RestartAtOnce ==
    /\ phase = "running" /\ loop = "expired"
    /\ latest # Applied
    /\ phase' = "restarting"
    /\ UNCHANGED <<latest, age, signal, observer, loop, timer, observes>>

\* Start, under the lock: the operator restarts.
Restart ==
    /\ phase = "running" /\ loop = "expired"
    /\ age = Interval
    /\ latest # Applied
    /\ phase' = "restarting"
    /\ UNCHANGED <<latest, age, signal, observer, loop, timer, observes>>

\* Start: the context is done.
Stop ==
    /\ phase = "running" /\ loop = "select"
    /\ phase' = "stopped"
    /\ UNCHANGED <<latest, age, signal, observer, loop, timer, observes>>

\* The cases of the select statement, and what the timer's case decides.
Loop == Changed \/ Expire \/ Wait \/ Forget \/ Restart

Next == (\E p \in Profiles : Observe(p)) \/ Signal \/ Tick \/ Loop \/ Stop

Spec == Init /\ [][Next]_vars

\* Time passes, Observe returns, and the loop of Start is a goroutine that runs
\* whenever one of its channels is ready; a select that is given both a signal
\* and an expired timer again and again takes each of them sometimes.
Fairness ==
    /\ WF_vars(Tick)
    /\ WF_vars(Signal)
    /\ SF_vars(Changed)
    /\ SF_vars(Expire)
    /\ WF_vars(Wait \/ Forget \/ Restart)

FairSpec == Spec /\ Fairness
-----------------------------------------------------------------------------
\* The variables keep their types (TLSProfileRestartDebouncer, Start).
TypeOK ==
    /\ latest \in Profiles
    /\ age \in 0..Interval
    /\ signal \in BOOLEAN
    /\ observer \in {"idle", "send"}
    /\ loop \in {"select", "expired"}
    /\ armed \in BOOLEAN
    /\ left \in 0..Interval
    /\ phase \in {"running", "restarting", "stopped"}
    /\ observes \in 0..MaxObserves

\* No change is lost: while the latest profile is not the applied one, something
\* is on its way that makes the loop look at it, be it a pending send, the value
\* of the channel, the timer, or the decision itself (Observe, Start).
NoLostChange ==
    phase = "running" /\ latest # Applied =>
        observer = "send" \/ signal \/ armed \/ loop = "expired"

\* Only an observation whose signal is still on its way can make the timer
\* expire early: otherwise a running timer outlasts the quiet period of the latest
\* profile (Start restarts the timer at every signal, and with what remains).
TimerOutlastsQuiet ==
    armed /\ age < Interval => observer = "send" \/ signal \/ left + age >= Interval

Promise == INSTANCE QuietRestart WITH changed <- latest # Applied, quiet <- age, operator <- phase

\* The debouncer restarts the operator only after a whole quiet period with a
\* profile that is not the applied one (the comment of
\* TLSProfileRestartDebouncer), although Observe races with the timer.
KeepsPromise == Promise!Spec

\* A profile that stays different from the applied one ends in a restart, unless
\* the operator is stopped (the comment of Start).
EventuallyRestarts ==
    <>[](latest # Applied) => <>(phase # "running")
=============================================================================
