----------------------- MODULE OperandBindingsProofs -----------------------
(***************************************************************************)
(* What the finalizer guarantees about the bindings of the legacy          *)
(* controller, for any operands, bindings, edits and failed calls.         *)
(***************************************************************************)
EXTENDS OperandBindings, TLAPS

\* The domains that the proofs need.
Domains ==
    /\ pc \in [Controllers -> {"idle", "finalizer", "get", "bind", "empty", "clear"}]
    /\ desired = [k \in Controllers |-> desired[k]]
    /\ current = [k \in Controllers |-> current[k]]
    /\ subjects = [b \in Bindings |-> subjects[b]]
    /\ fc = [state |-> fc.state, uid |-> fc.uid, finalizer |-> fc.finalizer, needs |-> fc.needs]

IInv == Domains /\ FinalizerKept

LEMMA InvInit == Init => IInv
BY DEF Init, IInv, Domains, FinalizerKept, Protected, NoFC

\* A step of the API server or of a cache keeps the finalizer where it is relied on.
LEMMA ServerStep ==
  ASSUME IInv, Create \/ Edit \/ Delete \/ CacheSyncs \/ (\E b \in Bindings : BindingSyncs(b))
  PROVE  IInv'
<1> USE DEF IInv, Domains, FinalizerKept, Protected, PutFC, NoFC, local, narrow, bounds
<1>1. CASE Create
  BY <1>1 DEF Create
<1>2. CASE Edit
  BY <1>2 DEF Edit
<1>3. CASE Delete
  <2>1. CASE fc.finalizer
    BY <1>3, <2>1 DEF Delete
  <2>2. CASE ~fc.finalizer
    BY <1>3, <2>2 DEF Delete
  <2> QED
    BY <2>1, <2>2
<1>4. CASE CacheSyncs
  BY <1>4 DEF CacheSyncs
<1>5. ASSUME NEW b \in Bindings, BindingSyncs(b) PROVE IInv'
  BY <1>5 DEF BindingSyncs
<1> QED
  BY <1>1, <1>2, <1>3, <1>4, <1>5

\* A step of the legacy controller does, whatever it has read.
LEMMA LegacyStep ==
  ASSUME Controllers = {"legacy"}, IInv, NEW k \in Controllers, Run(k)
  PROVE  IInv'
<1>0. k = "legacy"
  OBVIOUS
<1> USE <1>0 DEF IInv, Domains, FinalizerKept, Protected, PutFC, NoFC, Goto, Abort, narrow, bounds
<1>1. CASE Reconcile(k)
  BY <1>1 DEF Reconcile
<1>2. CASE CheckFinalizer(k)
  <2>1. CASE desired[k].finalizer
    BY <1>2, <2>1 DEF CheckFinalizer
  <2>2. CASE ~desired[k].finalizer
    BY <1>2, <2>2 DEF CheckFinalizer
  <2> QED
    BY <2>1, <2>2
<1>3. CASE CheckFinalizerConflicts(k)
  BY <1>3 DEF CheckFinalizerConflicts
<1>4. CASE GetBinding(k)
  BY <1>4 DEF GetBinding
<1>5. CASE Bind(k)
  BY <1>5 DEF Bind, PutSubjects
<1>6. CASE Clear(k)
  BY <1>6 DEF Clear, PutSubjects
<1>7. CASE Fails(k)
  BY <1>7 DEF Fails, UpdateFails
<1>8. CASE Done(k)
  BY <1>8 DEF Done
<1>9. CASE RemoveFinalizer(k)
  BY <1>9 DEF RemoveFinalizer
<1>10. CASE RemoveFinalizerConflicts(k)
  BY <1>10 DEF RemoveFinalizerConflicts
<1> QED
  BY <1>1, <1>2, <1>3, <1>4, <1>5, <1>6, <1>7, <1>8, <1>9, <1>10 DEF Run

LEMMA InvNext == ASSUME Controllers = {"legacy"} PROVE IInv /\ [Next]_vars => IInv'
<1> SUFFICES ASSUME IInv, [Next]_vars PROVE IInv'
  OBVIOUS
<1>1. CASE UNCHANGED vars
  BY <1>1 DEF vars, IInv, Domains, FinalizerKept, Protected
<1>2. CASE Next
  BY <1>2, ServerStep, LegacyStep DEF Next
<1> QED
  BY <1>1, <1>2

\* Only Bind adds a subject.
LEMMA OnlyBindAdds ==
  ASSUME Controllers = {"legacy"}, IInv, [Next]_vars
  PROVE  (\E b \in Bindings : ~(subjects'[b] \subseteq subjects[b])) => Protected
<1> SUFFICES ASSUME NEW b \in Bindings, ~(subjects'[b] \subseteq subjects[b])
             PROVE  Protected
  OBVIOUS
<1>1. CASE UNCHANGED vars
  BY <1>1 DEF vars
<1>2. CASE Create \/ Edit \/ Delete \/ CacheSyncs \/ (\E x \in Bindings : BindingSyncs(x))
  BY <1>2 DEF Create, Edit, Delete, CacheSyncs, BindingSyncs
<1>3. ASSUME NEW k \in Controllers, Run(k) PROVE Protected
  <2>1. CASE Bind(k)
    BY <2>1 DEF Bind, IInv, FinalizerKept
  <2>2. CASE Clear(k)
    BY <2>2 DEF Clear, PutSubjects, IInv, Domains
  <2>3. ASSUME ~Bind(k), ~Clear(k) PROVE subjects' = subjects
    BY <1>3, <2>3 DEF Run, Reconcile, CheckFinalizer, CheckFinalizerConflicts, GetBinding, Fails, Done,
                      RemoveFinalizer, RemoveFinalizerConflicts
  <2> QED
    BY <2>1, <2>2, <2>3
<1> QED
  BY <1>1, <1>2, <1>3 DEF Next

\* The copies that the legacy controller relies on say the truth about the finalizer
\* (checkFinalizer, finalize).
THEOREM KeepsFinalizer == ASSUME Controllers = {"legacy"} PROVE Spec => []FinalizerKept
<1>1. IInv => FinalizerKept
  BY DEF IInv
<1> QED
  BY <1>1, InvInit, InvNext, PTL DEF Spec

\* The legacy controller only adds a subject to a binding while the FlowCollector
\* has the finalizer that will have it removed (checkFinalizer before the
\* reconcilers that bind).
THEOREM BindsUnderFinalizer == ASSUME Controllers = {"legacy"} PROVE Spec => BoundUnderFinalizer
<1>1. IInv /\ [Next]_vars
        => [(\E b \in Bindings : ~(subjects'[b] \subseteq subjects[b])) => fc.state # "absent" /\ fc.finalizer]_vars
  BY OnlyBindAdds DEF Protected
<1> QED
  BY <1>1, InvInit, InvNext, PTL DEF Spec, BoundUnderFinalizer
============================================================================
