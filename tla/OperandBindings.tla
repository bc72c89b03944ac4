-------------------------- MODULE OperandBindings --------------------------
(***************************************************************************)
(* The life of the FlowCollector and the preinstalled ClusterRoleBindings  *)
(* of the operands.  The reconcilers add the service accounts of the       *)
(* operands to the bindings (ReconcileClusterRoleBinding) and remove those *)
(* that the spec does not need; a finalizer that the legacy controller     *)
(* sets makes it empty all of them when the FlowCollector is deleted.      *)
(*                                                                         *)
(* Every update of a binding or of the FlowCollector carries the version   *)
(* that was read, so it fails when somebody else has written in between.   *)
(* Both are read from caches that lag: the informer cache, and the         *)
(* name-scoped cache, whose entry (and handlers) a failed update drops.    *)
(***************************************************************************)
EXTENDS Naturals, FiniteSets, SequencesExt

CONSTANTS Controllers,  \* a subset of {"legacy", "flp"}
          Followed,     \* the pairs of a binding and an operand that are followed
          MaxEdits,     \* the changes of the spec that are followed
          MaxCreates,   \* the times that the FlowCollector is created
          MaxFaults     \* the calls to the API server that fail

Pair(b, s) == [binding |-> b, operand |-> s]

\* reconcileCRB of the web console.
LegacyPairs == << Pair("TokenReview", "plugin"), Pair("Viewer", "plugin") >>

\* reconcileCRB of the informers, the monolith and the transformer, in order.
FLPPairs ==
    << Pair("FLPInformers", "informers"),
       Pair("HostNetwork", "monolith"), Pair("LokiWriter", "monolith"),
       Pair("FLPInformers", "monolith"), Pair("FLPExtraReader", "monolith"),
       Pair("LokiWriter", "transformer"), Pair("FLPInformers", "transformer"),
       Pair("FLPExtraReader", "transformer") >>

OperandClusterRoleBindings ==
    << "LokiWriter", "FLPInformers", "FLPExtraReader", "HostNetwork", "TokenReview", "Viewer" >>

AllPairs == Range(LegacyPairs) \cup Range(FLPPairs)

ASSUME BindingsAssumption == /\ Controllers \subseteq {"legacy", "flp"}
                             /\ Followed \subseteq AllPairs
                             /\ MaxEdits \in Nat
                             /\ MaxCreates \in Nat
                             /\ MaxFaults \in Nat

Bindings == {p.binding : p \in Followed}
Operands == {p.operand : p \in Followed}

\* What a spec may need: the viewer role is for the web console that also reviews
\* tokens, monolith and transformer exclude each other, and so do the informers and
\* an FLP with its own access to the API server.
Needs ==
    {n \in SUBSET Followed :
       /\ Pair("Viewer", "plugin") \in n /\ Pair("TokenReview", "plugin") \in Followed
            => Pair("TokenReview", "plugin") \in n
       /\ ~(\E p, q \in n : p.operand = "monolith" /\ q.operand = "transformer")
       /\ Pair("FLPInformers", "informers") \in n
            => \A p \in n : p.binding = "FLPInformers" => p.operand = "informers"}

\* The pairs of a controller, and the bindings that finalize empties.
Program(k) == SelectSeq(IF k = "legacy" THEN LegacyPairs ELSE FLPPairs, LAMBDA p : p \in Followed)
ToEmpty == SelectSeq(OperandClusterRoleBindings, LAMBDA b : b \in Bindings)

VARIABLES fc,        \* the FlowCollector: its state, finalizer and what its spec needs
          cache,     \* the copy of it in the informer cache
          lag,       \* whether the copy is older than the FlowCollector
          subjects,  \* the subjects of each binding
          entry,     \* the name-scoped cache's entry of each binding
          registered,\* the controllers that asked to be told of its changes
          handlers,  \* those that its entry still tells
          pc,        \* what each controller is doing
          step,      \* the pair or binding it is at
          desired,   \* the FlowCollector it has read
          current,   \* whether nobody has written the FlowCollector since
          got,       \* the subjects it has read
          fresh,     \* whether nobody has written the binding after that version
          queued,    \* whether a request of the controller waits
          edits, creates, faults

vars == <<fc, cache, lag, subjects, entry, registered, handlers, pc, step, desired, current, got, fresh,
          queued, edits, creates, faults>>

bounds == <<edits, creates, faults>>
local == <<pc, step, desired, current, got, fresh>>
narrow == <<entry, registered, handlers>>

NoEntry == [state |-> "none", cached |-> {}]
Current(s) == [state |-> "current", cached |-> s]

NoFC == [state |-> "absent", uid |-> 0, finalizer |-> FALSE, needs |-> {}]

Init ==
    /\ fc = NoFC
    /\ cache = NoFC
    /\ lag = FALSE
    /\ subjects = [b \in Bindings |-> {}]
    /\ entry = [b \in Bindings |-> NoEntry]
    /\ registered = [b \in Bindings |-> {}]
    /\ handlers = [b \in Bindings |-> {}]
    /\ pc = [k \in Controllers |-> "idle"]
    /\ step = [k \in Controllers |-> 0]
    /\ desired = [k \in Controllers |-> NoFC]
    /\ current = [k \in Controllers |-> FALSE]
    /\ got = [k \in Controllers |-> {}]
    /\ fresh = [k \in Controllers |-> FALSE]
    /\ queued = [k \in Controllers |-> FALSE]
    /\ edits = 0 /\ creates = 0 /\ faults = 0
----------------------------------------------------------------------------
\* The API server and the informer cache.

\* Writing the FlowCollector makes every copy of it old.
PutFC(new) ==
    /\ fc' = new
    /\ lag' = TRUE

Create ==
    /\ fc.state = "absent"
    /\ creates < MaxCreates
    /\ \E needs \in Needs :
         PutFC([state |-> "live", uid |-> creates + 1, finalizer |-> FALSE, needs |-> needs])
    /\ creates' = creates + 1
    /\ current' = [k \in Controllers |-> FALSE]
    /\ UNCHANGED <<cache, subjects, narrow, pc, step, desired, got, fresh, queued, edits, faults>>

Edit ==
    /\ fc.state = "live"
    /\ edits < MaxEdits
    /\ \E needs \in Needs \ {fc.needs} : PutFC([fc EXCEPT !.needs = needs])
    /\ edits' = edits + 1
    /\ current' = [k \in Controllers |-> FALSE]
    /\ UNCHANGED <<cache, subjects, narrow, pc, step, desired, got, fresh, queued, creates, faults>>

\* A FlowCollector without a finalizer goes at once.
Delete ==
    /\ fc.state = "live"
    /\ PutFC(IF fc.finalizer THEN [fc EXCEPT !.state = "deleting"] ELSE NoFC)
    /\ current' = [k \in Controllers |-> FALSE]
    /\ UNCHANGED <<cache, subjects, narrow, pc, step, desired, got, fresh, queued, bounds>>

\* Mutant: the predicate only looks at the generation.
IgnoresDeletion(old, new) == old.uid # new.uid \/ old.needs # new.needs

\* The predicate IgnoreStatusChange: creation, deletion, the mark of deletion and
\* changes of the spec; not those of the finalizers.
IgnoreStatusChange(old, new) == old.uid # new.uid \/ old.state # new.state \/ old.needs # new.needs

\* The cache catches up and its event enqueues both controllers.
CacheSyncs ==
    /\ lag
    /\ cache' = fc
    /\ lag' = FALSE
    /\ queued' = [k \in Controllers |-> queued[k] \/ IgnoreStatusChange(cache, fc)]
    /\ UNCHANGED <<fc, subjects, narrow, local, bounds>>

\* The event of a binding reaches its entry and the handlers of the entry.
BindingSyncs(b) ==
    /\ entry[b].state = "behind"
    /\ entry' = [entry EXCEPT ![b] = Current(subjects[b])]
    /\ queued' = [k \in Controllers |-> queued[k] \/ k \in handlers[b]]
    /\ UNCHANGED <<fc, cache, lag, subjects, registered, handlers, local, bounds>>
----------------------------------------------------------------------------
\* The controllers.

Goto(k, where, i) ==
    /\ pc' = [pc EXCEPT ![k] = where]
    /\ step' = [step EXCEPT ![k] = i]

\* A reconciliation that fails is retried; the others end.
Abort(k) ==
    /\ Goto(k, "idle", 0)
    /\ desired' = [desired EXCEPT ![k] = NoFC]
    /\ got' = [got EXCEPT ![k] = {}]
    /\ queued' = [queued EXCEPT ![k] = TRUE]

\* Reconcile: what is read of the FlowCollector decides what follows.
Reconcile(k) ==
    /\ pc[k] = "idle"
    /\ queued[k]
    /\ queued' = [queued EXCEPT ![k] = FALSE]
    /\ desired' = [desired EXCEPT ![k] = cache]
    /\ current' = [current EXCEPT ![k] = ~lag]
    /\ \/ /\ cache.state = "live"
          /\ IF k = "legacy" THEN Goto(k, "finalizer", 0) ELSE Goto(k, "get", 1)
       \/ /\ k = "legacy" /\ cache.state = "deleting" /\ cache.finalizer
          /\ Goto(k, "empty", 1)
       \/ /\ \/ cache.state = "absent"
             \/ cache.state = "deleting" /\ (k # "legacy" \/ ~cache.finalizer)
          /\ UNCHANGED <<pc, step>>
    /\ UNCHANGED <<fc, cache, lag, subjects, narrow, got, fresh, bounds>>

\* Mutant: the finalizer is only set for the next reconciliation.
CheckFinalizerLater(k) ==
    /\ pc[k] = "finalizer"
    /\ Goto(k, "get", 1)
    /\ UNCHANGED <<fc, cache, lag, subjects, narrow, desired, current, got, fresh, queued, bounds>>

\* checkFinalizer: nothing is bound before the finalizer is set.
CheckFinalizer(k) ==
    /\ pc[k] = "finalizer"
    /\ desired[k].finalizer \/ current[k]
    /\ Goto(k, "get", 1)
    /\ IF desired[k].finalizer THEN UNCHANGED <<fc, lag, current>>
       ELSE /\ PutFC([fc EXCEPT !.finalizer = TRUE])
            /\ current' = [j \in Controllers |-> FALSE]
    /\ UNCHANGED <<cache, subjects, narrow, desired, got, fresh, queued, bounds>>

CheckFinalizerConflicts(k) ==
    /\ pc[k] = "finalizer"
    /\ ~desired[k].finalizer /\ ~current[k]
    /\ Abort(k)
    /\ UNCHANGED <<fc, cache, lag, subjects, narrow, current, fresh, bounds>>

Here(k) == Program(k)[step[k]]

\* The binding that k reads or writes.
Target(k) == IF pc[k] \in {"get", "bind"} THEN Here(k).binding ELSE ToEmpty[step[k]]

\* EnqueueOnChange: attached once, and with a first request.
EnqueueOnChange(k, b) ==
    IF k \in registered[b] THEN UNCHANGED <<registered, handlers, queued>>
    ELSE /\ registered' = [registered EXCEPT ![b] = @ \cup {k}]
         /\ handlers' = [handlers EXCEPT ![b] = @ \cup {k}]
         /\ queued' = [queued EXCEPT ![k] = TRUE]

\* ReconcileClusterRoleBinding, EmptyClusterRoleBinding: the binding is read from
\* its entry, or from the API server when there is none.
GetBinding(k) ==
    /\ \/ pc[k] = "get" /\ step[k] <= Len(Program(k))
       \/ pc[k] = "empty" /\ step[k] <= Len(ToEmpty)
    /\ LET b == Target(k)
           e == IF entry[b].state = "none" THEN Current(subjects[b]) ELSE entry[b]
       IN /\ entry' = [entry EXCEPT ![b] = e]
          /\ got' = [got EXCEPT ![k] = e.cached]
          /\ fresh' = [fresh EXCEPT ![k] = e.state = "current"]
          /\ IF pc[k] = "get" THEN EnqueueOnChange(k, b) ELSE UNCHANGED <<registered, handlers, queued>>
    /\ Goto(k, IF pc[k] = "get" THEN "bind" ELSE "clear", step[k])
    /\ UNCHANGED <<fc, cache, lag, subjects, desired, current, bounds>>

\* An update of a binding leaves the entry as it is until the event comes.
PutSubjects(k, b, new) ==
    /\ subjects' = [subjects EXCEPT ![b] = new]
    /\ entry' = [entry EXCEPT ![b] = IF @ = NoEntry THEN @ ELSE [@ EXCEPT !.state = "behind"]]
    /\ fresh' = [j \in Controllers |-> fresh[j] /\ pc[j] \in {"bind", "clear"} /\ Target(j) # b]

\* Mutant: operands are bound and never unbound.
BindOnly(k) ==
    /\ pc[k] = "bind"
    /\ LET b == Here(k).binding
           s == Here(k).operand
       IN IF s \in got[k] \/ Here(k) \notin desired[k].needs THEN UNCHANGED <<subjects, entry, fresh>>
          ELSE /\ fresh[k]
               /\ PutSubjects(k, b, got[k] \cup {s})
    /\ Goto(k, "get", step[k] + 1)
    /\ got' = [got EXCEPT ![k] = {}]
    /\ UNCHANGED <<fc, cache, lag, registered, handlers, desired, current, queued, bounds>>

\* ReconcileClusterRoleBinding: the subject is added, removed, or is as needed.
Bind(k) ==
    /\ pc[k] = "bind"
    /\ LET b == Here(k).binding
           s == Here(k).operand
           need == Here(k) \in desired[k].needs
       IN IF (s \in got[k]) = need THEN UNCHANGED <<subjects, entry, fresh>>
          ELSE /\ fresh[k]
               /\ PutSubjects(k, b, IF need THEN got[k] \cup {s} ELSE got[k] \ {s})
    /\ Goto(k, "get", step[k] + 1)
    /\ got' = [got EXCEPT ![k] = {}]
    /\ UNCHANGED <<fc, cache, lag, registered, handlers, desired, current, queued, bounds>>

\* EmptyClusterRoleBinding.
Clear(k) ==
    /\ pc[k] = "clear"
    /\ IF got[k] = {} THEN UNCHANGED <<subjects, entry, fresh>>
       ELSE /\ fresh[k]
            /\ PutSubjects(k, ToEmpty[step[k]], {})
    /\ Goto(k, "empty", step[k] + 1)
    /\ got' = [got EXCEPT ![k] = {}]
    /\ UNCHANGED <<fc, cache, lag, registered, handlers, desired, current, queued, bounds>>

UpdateFails(k) ==
    /\ \/ ~fresh[k] /\ UNCHANGED faults
       \/ fresh[k] /\ faults < MaxFaults /\ faults' = faults + 1
    /\ entry' = [entry EXCEPT ![Target(k)] = NoEntry]
    /\ handlers' = [handlers EXCEPT ![Target(k)] = {}]
    /\ UNCHANGED registered

\* The first error ends the reconciliation.  One of an update, a conflict or
\* another, also drops the entry of the binding.
Fails(k) ==
    /\ \/ /\ pc[k] = "bind" /\ (Here(k).operand \in got[k]) # (Here(k) \in desired[k].needs)
          /\ UpdateFails(k)
       \/ /\ pc[k] = "clear" /\ got[k] # {}
          /\ UpdateFails(k)
       \/ /\ pc[k] \in {"finalizer", "get", "empty"}
          /\ faults < MaxFaults
          /\ faults' = faults + 1
          /\ UNCHANGED narrow
    /\ Abort(k)
    /\ UNCHANGED <<fc, cache, lag, subjects, current, fresh, edits, creates>>

\* The end of a reconciliation.
Done(k) ==
    /\ pc[k] = "get" /\ step[k] = Len(Program(k)) + 1
    /\ Goto(k, "idle", 0)
    /\ desired' = [desired EXCEPT ![k] = NoFC]
    /\ UNCHANGED <<fc, cache, lag, subjects, narrow, current, got, fresh, queued, bounds>>

\* finalize: all bindings are empty, the FlowCollector may go.
RemoveFinalizer(k) ==
    /\ pc[k] = "empty" /\ step[k] = Len(ToEmpty) + 1
    /\ current[k]
    /\ PutFC(NoFC)
    /\ current' = [j \in Controllers |-> FALSE]
    /\ Goto(k, "idle", 0)
    /\ desired' = [desired EXCEPT ![k] = NoFC]
    /\ UNCHANGED <<cache, subjects, narrow, got, fresh, queued, bounds>>

RemoveFinalizerConflicts(k) ==
    /\ pc[k] = "empty" /\ step[k] = Len(ToEmpty) + 1
    /\ ~current[k]
    /\ Abort(k)
    /\ UNCHANGED <<fc, cache, lag, subjects, narrow, current, fresh, bounds>>

Run(k) == \/ Reconcile(k) \/ CheckFinalizer(k) \/ CheckFinalizerConflicts(k) \/ GetBinding(k) \/ Bind(k)
          \/ Clear(k) \/ Fails(k) \/ Done(k) \/ RemoveFinalizer(k) \/ RemoveFinalizerConflicts(k)

Next ==
    \/ Create \/ Edit \/ Delete \/ CacheSyncs
    \/ \E b \in Bindings : BindingSyncs(b)
    \/ \E k \in Controllers : Run(k)

Spec == Init /\ [][Next]_vars

\* The watches deliver what they owe, and every controller has a worker that goes
\* on with what it can do; users owe nothing.
FairSpec ==
    /\ Spec
    /\ WF_vars(CacheSyncs)
    /\ \A b \in Bindings : WF_vars(BindingSyncs(b))
    /\ \A k \in Controllers : WF_vars(Run(k))
----------------------------------------------------------------------------
\* Nothing is being reconciled, waits to be, or is on its way to a cache.
AtRest ==
    /\ \A k \in Controllers : pc[k] = "idle" /\ ~queued[k]
    /\ ~lag
    /\ \A b \in Bindings : entry[b].state # "behind"

\* "Upon deletion, the finalizer is used to clean up the pre-installed
\* ClusterRoleBinding subjects so they're empty shells again": once the
\* FlowCollector is gone and everything is at rest, no operand is left in any
\* binding (checkFinalizer, finalize).
CleanAfterDeletion ==
    fc.state = "absent" /\ AtRest => \A b \in Bindings : subjects[b] = {}

\* A subject is only added to a binding while the FlowCollector exists and carries
\* the finalizer that will have it removed, although the reconciler works on an old
\* copy (checkFinalizer, before the reconcilers that bind).
BoundUnderFinalizer ==
    [][(\E b \in Bindings : ~(subjects'[b] \subseteq subjects[b])) => fc.state # "absent" /\ fc.finalizer]_vars

Protected == fc.state # "absent" /\ fc.finalizer

\* What makes it inductive when the legacy controller works alone.  An up-to-date
\* copy is the FlowCollector; a copy that lives and has the finalizer, however old,
\* proves that the FlowCollector still has it, because only finalize removes it and
\* finalize read a copy that was being deleted.
FinalizerKept ==
    /\ ~lag => cache = fc
    /\ cache.state = "live" /\ cache.finalizer => Protected
    /\ \A k \in Controllers :
         /\ pc[k] # "idle" /\ current[k] => ~lag /\ desired[k] = fc
         /\ pc[k] = "finalizer" => desired[k].state = "live" /\ (desired[k].finalizer => Protected)
         /\ pc[k] \in {"get", "bind"} => Protected
         /\ pc[k] \in {"empty", "clear"} => desired[k].state = "deleting"

\* Once everything is at rest, a binding that still tells its controller of changes
\* is what the spec needs, neither more nor less, although every decision was taken
\* on old copies (ReconcileClusterRoleBinding, EnqueueOnChange).
BindingsMatchSpec ==
    fc.state = "live" /\ AtRest =>
      \A k \in Controllers : \A p \in Range(Program(k)) :
        k \in handlers[p.binding] => (p.operand \in subjects[p.binding] <=> p \in fc.needs)

\* A deletion ends: the finalizer does not keep the FlowCollector for ever,
\* although the reconcilers and the failed calls get in the way (finalize).
DeletionEnds == fc.state = "deleting" ~> fc.state = "absent"
============================================================================
