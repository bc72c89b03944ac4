----------------------- MODULE RestartDebouncerProofs -----------------------
(***************************************************************************)
(* The safety properties of RestartDebouncer for any set of profiles, any  *)
(* quiet period and any number of observations, and the proof that it      *)
(* implements QuietRestart.                                                *)
(***************************************************************************)
EXTENDS RestartDebouncer, TLAPS

\* The types hold initially and are preserved (all of RestartDebouncer).
LEMMA TypeInit == Init => TypeOK
<1> SUFFICES ASSUME Init PROVE TypeOK
  OBVIOUS
<1>1. age \in 0..Interval /\ left \in 0..Interval /\ observes \in 0..MaxObserves
  BY DebouncerAssumption DEF Init
<1>2. signal \in BOOLEAN /\ armed \in BOOLEAN
  BY Zenon DEF Init
<1> QED
  BY <1>1, <1>2, DebouncerAssumption DEF Init, TypeOK

LEMMA TypeNext == TypeOK /\ [Next]_vars => TypeOK'
<1> SUFFICES ASSUME TypeOK, [Next]_vars PROVE TypeOK'
  OBVIOUS
<1> USE DebouncerAssumption DEF TypeOK, timer
<1>1. ASSUME NEW p \in Profiles, Observe(p) PROVE TypeOK'
  BY <1>1 DEF Observe
<1>2. CASE Signal
  BY <1>2 DEF Signal
<1>3. CASE Tick
  <2>1. age' \in 0..Interval
    BY <1>3 DEF Tick
  <2>2. left' \in 0..Interval
    BY <1>3 DEF Tick
  <2> QED
    BY <1>3, <2>1, <2>2 DEF Tick
<1>4. CASE Changed \/ Expire
  <2>1. left' \in 0..Interval
    BY <1>4 DEF Changed, Expire
  <2>2. signal' \in BOOLEAN /\ armed' \in BOOLEAN
    BY <1>4, Zenon DEF Changed, Expire
  <2> QED
    BY <1>4, <2>1, <2>2 DEF Changed, Expire
<1>5. CASE Wait
  <2>1. left' \in 0..Interval
    BY <1>5 DEF Wait
  <2> QED
    BY <1>5, <2>1 DEF Wait
<1>6. CASE Forget \/ Restart
  BY <1>6 DEF Forget, Restart
<1>7. CASE Stop
  BY <1>7 DEF Stop
<1>8. CASE UNCHANGED vars
  BY <1>8 DEF vars
<1> QED
  BY <1>1, <1>2, <1>3, <1>4, <1>5, <1>6, <1>7, <1>8 DEF Next, Loop

\* The variables of the debouncer keep their types.
THEOREM TypeCorrect == Spec => []TypeOK
BY TypeInit, TypeNext, PTL DEF Spec

\* No change of the profile is lost between Observe and the loop of Start: while
\* the latest profile differs from the applied one, the loop will look at it.
THEOREM ChangesAreSeen == Spec => []NoLostChange
<1>1. Init => NoLostChange
  BY DEF Init, NoLostChange
<1>2. TypeOK /\ NoLostChange /\ [Next]_vars => NoLostChange'
  <2> SUFFICES ASSUME TypeOK, NoLostChange, [Next]_vars PROVE NoLostChange'
    OBVIOUS
  <2> USE DEF NoLostChange, timer
  <2>1. ASSUME NEW p \in Profiles, Observe(p) PROVE NoLostChange'
    BY <2>1 DEF Observe
  <2>2. CASE Signal
    BY <2>2 DEF Signal
  <2>3. CASE Tick
    BY <2>3 DEF Tick
  <2>4. CASE Changed \/ Expire \/ Wait
    BY <2>4 DEF Changed, Expire, Wait
  <2>5. CASE Forget \/ Restart \/ Stop
    BY <2>5 DEF Forget, Restart, Stop
  <2>6. CASE UNCHANGED vars
    BY <2>6 DEF vars
  <2> QED
    BY <2>1, <2>2, <2>3, <2>4, <2>5, <2>6 DEF Next, Loop
<1> QED
  BY <1>1, <1>2, TypeCorrect, PTL DEF Spec

\* A running timer outlasts the quiet period of the latest profile unless a
\* signal is on its way, so only a race can make it expire early.
THEOREM TimerOutlasts == Spec => []TimerOutlastsQuiet
<1>1. Init => TimerOutlastsQuiet
  BY DEF Init, TimerOutlastsQuiet
<1>2. TypeOK /\ TimerOutlastsQuiet /\ [Next]_vars => TimerOutlastsQuiet'
  <2> SUFFICES ASSUME TypeOK, TimerOutlastsQuiet, [Next]_vars PROVE TimerOutlastsQuiet'
    OBVIOUS
  <2> USE DebouncerAssumption DEF TypeOK, TimerOutlastsQuiet, timer
  <2>1. ASSUME NEW p \in Profiles, Observe(p) PROVE TimerOutlastsQuiet'
    BY <2>1 DEF Observe
  <2>2. CASE Signal
    BY <2>2 DEF Signal
  <2>3. CASE Tick
    \* Both clocks advance, or the timer has already expired.
    BY <2>3 DEF Tick
  <2>4. CASE Changed \/ Expire
    BY <2>4 DEF Changed, Expire
  <2>5. CASE Wait
    BY <2>5 DEF Wait
  <2>6. CASE Forget \/ Restart \/ Stop
    BY <2>6 DEF Forget, Restart, Stop
  <2>7. CASE UNCHANGED vars
    BY <2>7 DEF vars
  <2> QED
    BY <2>1, <2>2, <2>3, <2>4, <2>5, <2>6, <2>7 DEF Next, Loop
<1> QED
  BY <1>1, <1>2, TypeCorrect, PTL DEF Spec

\* Every step of the debouncer is a step of its promise or leaves it alone: in
\* particular the operator restarts only after a whole quiet period.
THEOREM Refinement == Spec => KeepsPromise
<1>1. Init => Promise!Init
  BY DEF Init, Promise!Init
<1>2. TypeOK /\ [Next]_vars => [Promise!Next]_(Promise!promised)
  <2> SUFFICES ASSUME TypeOK, [Next]_vars PROVE Promise!Next \/ UNCHANGED Promise!promised
    OBVIOUS
  <2> USE DEF Promise!promised, timer
  <2>1. ASSUME NEW p \in Profiles, Observe(p) PROVE Promise!Next
    <3>1. (latest # Applied)' \in BOOLEAN
      BY Zenon
    <3>2. age' = 0 /\ phase' = phase
      BY <2>1 DEF Observe
    <3> QED
      BY <3>1, <3>2 DEF Promise!Next, Promise!Observe
  <2>2. CASE Signal
    BY <2>2 DEF Signal
  <2>3. CASE Tick
    BY <2>3, DebouncerAssumption DEF Tick, TypeOK, Promise!Next, Promise!Tick
  <2>4. CASE Changed \/ Expire \/ Wait \/ Forget
    BY <2>4 DEF Changed, Expire, Wait, Forget
  <2>5. CASE Restart
    BY <2>5 DEF Restart, Promise!Next, Promise!Restart
  <2>6. CASE Stop
    BY <2>6 DEF Stop, Promise!Next, Promise!Stop
  <2>7. CASE UNCHANGED vars
    BY <2>7 DEF vars
  <2> QED
    BY <2>1, <2>2, <2>3, <2>4, <2>5, <2>6, <2>7 DEF Next, Loop
<1> QED
  BY <1>1, <1>2, TypeCorrect, PTL DEF Spec, KeepsPromise, Promise!Spec
=============================================================================
