------------------------ MODULE AttachTransactionProofs ------------------------
(***************************************************************************)
(* Proofs about AttachTransaction: its inductive invariant; that a bound   *)
(* route stays live; that it implements RouteSwitch; that a finished       *)
(* operation leaves no live Gateway binding behind; that it writes over no *)
(* text of a config that its record does not know; and that a config       *)
(* matches its binding when no operation is in flight.                     *)
(***************************************************************************)
EXTENDS AttachTransactionInv, TLAPS

(* The types of the config edits. *)

\* A managed key of a provider has its place in the document.
LEMMA SlotIsSlot ==
  ASSUME NEW p \in Providers, NEW k \in Keys
  PROVE  Slot(p, k) \in Slots
BY DEF Slot, Slots, Keys

\* Every place in the document is that of a key.
LEMMA SlotHasKey ==
  ASSUME NEW s \in Slots
  PROVE  s[2] \in Keys
BY DEF Slots, Keys

\* Restoring recorded entries leaves every slot with a value.
LEMMA RestoreType ==
  ASSUME NEW V, NEW values \in [Slots -> V], NEW p \in Providers,
         NEW m \in [Keys -> V \cup {Untracked}]
  PROVE  Restore(values, p, m) \in [Slots -> V]
BY SlotHasKey DEF Restore

\* Applying a projection (apply_projection) gives every slot a value.
LEMMA ApplyType ==
  ASSUME NEW V, NEW values \in [Slots -> V], NEW p \in Providers,
         NEW lam \in V, Absent \in V
  PROVE  ApplyValues(values, p, lam) \in [Slots -> V]
BY DEF ApplyValues

\* What LAM writes into a slot is a value of a slot.
LEMMA SlotValuesContain ==
  /\ Absent \in SlotValues
  /\ \A p \in Providers, o \in Ids : LamValue(p, o) \in SlotValues
BY DEF SlotValues

\* What an application records of a document is a projection.
LEMMA ProjectionOfType ==
  ASSUME NEW before \in [Slots -> SlotValues], NEW after \in [Slots -> SlotValues],
         NEW p \in Providers
  PROVE  ProjectionOf(before, after, p) \in Projections
BY SlotIsSlot DEF ProjectionOf, Projections

\* Detaching a projection, and applying it again, give every slot a value.
LEMMA DetachType ==
  ASSUME NEW values \in [Slots -> SlotValues], NEW projection \in Projections
  PROVE  /\ DetachValues(values, projection) \in [Slots -> SlotValues]
         /\ ReapplyValues(values, projection) \in [Slots -> SlotValues]
BY RestoreType DEF DetachValues, ReapplyValues, Projections

\* A text that prints a document is a config.
LEMMA RenderedType ==
  ASSUME NEW values \in [Slots -> SlotValues], NEW text \in Rendered(values)
  PROVE  text \in Configs
BY DEF Rendered, Configs

\* A config holds a value in every slot.
LEMMA ConfigFields ==
  ASSUME NEW text \in Configs
  PROVE  text.values \in [Slots -> SlotValues]
BY DEF Configs

\* The fields of a journal record have their types; a detach starts from
\* a binding (validate_record).
LEMMA RecordFields ==
  ASSUME NEW r \in Records
  PROVE  /\ r.profile \in Profiles
         /\ r.before \in Configs /\ r.intended \in Configs
         /\ r.projection \in Projections
         /\ r.previous \in Bindings \cup {NoBinding}
         /\ r.prepared \in Bindings \cup {NoBinding}
         /\ r.state \in States
         /\ r.kind = "detach" => r.previous # NoBinding
         /\ r.prepared = NoBinding <=> r.kind = "detach"
BY DEF Records, ValidShape

\* The fields of a profile's binding have their types.
LEMMA BindingFields ==
  ASSUME NEW b \in Bindings
  PROVE  /\ b.provider \in Providers /\ b.gw \in Ids \cup {NoRef} /\ b.rev \in Nat
         /\ b.applied \in Configs /\ b.projection \in Projections
BY DEF Bindings

\* The Gateway bindings that a record prepares and supersedes have ids.
LEMMA RefType ==
  ASSUME NEW r \in Records
  PROVE  NewRef(r) \in Ids \cup {NoRef} /\ OldRef(r) \in Ids \cup {NoRef}
BY RecordFields, BindingFields DEF NewRef, OldRef, RefOf

-----------------------------------------------------------------------------
(* Writes of the journal. *)

\* What a transition changes: the state and the error of one record that was
\* active.
LEMMA TransitionEffect ==
  ASSUME journal \in [Ids -> Records \cup {NoRecord}],
         NEW o \in Ids, journal[o] # NoRecord,
         NEW to \in States, NEW error \in Errors,
         Transition(o, to, error)
  PROVE  /\ journal' \in [Ids -> Records \cup {NoRecord}]
         /\ Active(o)
         /\ ValidTransition(journal[o].state, to)
         /\ journal'[o] # NoRecord
         /\ journal'[o].state = to /\ journal'[o].error = error
         /\ SameOperation(journal'[o], journal[o])
         /\ \A o2 \in Ids \ {o} : journal'[o2] = journal[o2]
<1>1. journal[o] \in Records
  OBVIOUS
<1>2. DEFINE new == [journal[o] EXCEPT !.state = to, !.error = error]
<1>3. journal' = [journal EXCEPT ![o] = new]
  BY <1>1 DEF Transition, Records
<1>4. /\ new \in Records
      /\ new.state = to /\ new.error = error
      /\ SameOperation(new, journal[o])
  BY <1>1 DEF Records, ValidShape, SameOperation
<1>5. Active(o) /\ ValidTransition(journal[o].state, to)
  BY DEF Transition, ValidTransition, Active, ActiveStates
<1> HIDE DEF new
<1> QED
  BY <1>3, <1>4, <1>5, SentinelAssumption

-----------------------------------------------------------------------------
(* Type correctness *)

\* What the holder remembers of its operation keeps its type.
HolderTypes ==
  /\ mode \in {"execute", "recover"}
  /\ cur \in Ids \cup {NoRef}
  /\ work \in Records \cup {NoRecord}
  /\ ref \in Ids \cup {NoRef}

\* Wherever the lock holder goes next, its own variables keep their types.
LEMMA HolderMoves ==
  ASSUME HolderTypes, NEW label, NEW r \in Ids \cup {NoRef},
         Release \/ Goto(label) \/ Continue(label) \/ Revoke(r, label)
  PROVE  HolderTypes'
BY DEF HolderTypes, Release, Goto, Continue, Revoke

\* The config of a profile without what LAM manages gives every slot a value.
LEMMA UnmanagedType ==
  ASSUME TypeOK, NEW p \in Profiles
  PROVE  Unmanaged(p) \in [Slots -> SlotValues]
<1>1. config[p] \in Configs /\ bindings[p] \in Bindings \cup {NoBinding}
  BY DEF TypeOK
<1> QED
  BY <1>1, ConfigFields, BindingFields, DetachType DEF Unmanaged

\* The fields of an approved plan have their types.
LEMMA PlanFields ==
  ASSUME TypeOK, NEW o \in Ids, plans[o] # NoPlan
  PROVE  /\ plans[o] \in Plans
         /\ plans[o].profile \in Profiles /\ plans[o].provider \in Providers
         /\ plans[o].storeRev \in Nat /\ plans[o].source \in Configs
BY DEF TypeOK, Plans

\* The record of an attach is one.
LEMMA AttachWork ==
  ASSUME TypeOK, NEW o \in Ids, BeginAttach(o)
  PROVE  HolderTypes' /\ work' \in Records
<1> DEFINE p == plans[o].profile
           v == plans[o].provider
           previous == bindings[p]
           values == ApplyValues(Unmanaged(p), v, LamValue(v, o))
           projection == ProjectionOf(Unmanaged(p), values, v)
<1>1. plans[o] # NoPlan
  BY DEF BeginAttach, PlanCurrent
<1>2. p \in Profiles /\ v \in Providers /\ plans[o].storeRev \in Nat
        /\ plans[o].source \in Configs
  BY <1>1, PlanFields
<1>3. previous \in Bindings \cup {NoBinding}
  BY <1>2 DEF TypeOK
<1>4. values \in [Slots -> SlotValues]
  BY <1>2, UnmanagedType, ApplyType, SlotValuesContain
<1>5. projection \in Projections
  BY <1>2, <1>4, UnmanagedType, ProjectionOfType
<1>6. ASSUME NEW intended \in Rendered(values)
      PROVE  PreparedBinding(o, v, intended, projection, previous) \in Bindings
  <2>1. intended \in Configs
    BY <1>4, RenderedType
  <2>2. RevOf(previous) + 1 \in Nat
    BY <1>3, BindingFields DEF RevOf
  <2>3. previous # NoBinding =>
          [projection EXCEPT !.previous = previous.projection.previous] \in Projections
    <3>1. previous # NoBinding => previous.projection \in Projections
      BY <1>3, BindingFields
    <3> QED
      BY <1>5, <3>1 DEF Projections
  <2> QED
    BY <1>2, <1>5, <2>1, <2>2, <2>3 DEF PreparedBinding, Bindings
<1>7. PICK intended \in Rendered(values) :
        /\ work' = [profile |-> p,
                    kind |-> IF previous = NoBinding THEN "attach" ELSE "rebind",
                    state |-> "Prepared", error |-> "none",
                    storeRev |-> plans[o].storeRev, before |-> plans[o].source,
                    intended |-> intended, projection |-> projection,
                    previous |-> previous,
                    prepared |-> PreparedBinding(o, v, intended, projection, previous)]
        /\ mode' = "execute" /\ cur' = o /\ ref' = ref
  BY DEF BeginAttach, Begin
<1>8. intended \in Configs
  BY <1>4, RenderedType
<1>9. work' \in Records
  BY <1>2, <1>3, <1>5, <1>6, <1>7, <1>8, SentinelAssumption DEF Records, ValidShape, States, ActiveStates, Errors
<1> QED
  BY <1>7, <1>9 DEF HolderTypes, TypeOK

\* The record of a detach is one.
LEMMA DetachWork ==
  ASSUME TypeOK, NEW o \in Ids, BeginDetach(o)
  PROVE  HolderTypes' /\ work' \in Records
<1> DEFINE p == plans[o].profile
           current == bindings[p]
           values == DetachValues(config[p].values, current.projection)
<1>1. plans[o] # NoPlan /\ current # NoBinding
  BY DEF BeginDetach, PlanCurrent
<1>2. p \in Profiles /\ plans[o].storeRev \in Nat /\ plans[o].source \in Configs
  BY <1>1, PlanFields
<1>3. current \in Bindings /\ current.projection \in Projections
  BY <1>1, <1>2, BindingFields DEF TypeOK
<1>4. values \in [Slots -> SlotValues]
  BY <1>2, <1>3, ConfigFields, DetachType DEF TypeOK
<1>5. PICK intended \in Rendered(values) :
        /\ work' = [profile |-> p, kind |-> "detach",
                    state |-> "Prepared", error |-> "none",
                    storeRev |-> plans[o].storeRev, before |-> plans[o].source,
                    intended |-> intended, projection |-> current.projection,
                    previous |-> current, prepared |-> NoBinding]
        /\ mode' = "execute" /\ cur' = o /\ ref' = ref
  BY DEF BeginDetach, Begin
<1>6. intended \in Configs
  BY <1>4, RenderedType
<1>7. work' \in Records
  BY <1>1, <1>2, <1>3, <1>5, <1>6 DEF Records, ValidShape, States, ActiveStates, Errors
<1> QED
  BY <1>5, <1>7 DEF HolderTypes, TypeOK

\* The initial state is well typed.
LEMMA InitTypes ==
  ASSUME Init
  PROVE  TypeOK
<1>1. config \in [Profiles -> Configs]
  <2>1. InitialValues \subseteq [Slots -> SlotValues]
    BY AttachAssumption DEF SlotValues
  <2> QED
    BY <2>1 DEF Init, Configs
<1> QED
  BY <1>1, AttachAssumption DEF Init, TypeOK, GatewayBindings

\* A transition of the record in hand keeps the type of the journal.
LEMMA JournalTypes ==
  ASSUME TypeOK, HolderOK, WorkIsJournaled, pc \in Journaled,
         NEW to \in States, NEW error \in Errors, Transition(cur, to, error)
  PROVE  journal' \in [Ids -> Records \cup {NoRecord}]
<1>1. At = pc
  BY DEF At, Journaled, Executing, Undoing, Finishing, Revoking
<1>2. cur \in Ids /\ journal[cur] # NoRecord
  BY <1>1 DEF WorkIsJournaled, Active, HolderOK, Journaled, Executing, Undoing, Finishing
<1> QED
  BY <1>2, TransitionEffect DEF TypeOK

\* The values that undo a projection (rollback_record_config) are values of
\* the slots.
LEMMA RolledBackType ==
  ASSUME NEW r \in Records
  PROVE  RolledBackValues(r) \in [Slots -> SlotValues]
<1>1. r.intended.values \in [Slots -> SlotValues] /\ r.projection \in Projections
  BY RecordFields, ConfigFields
<1>2. r.previous # NoBinding => r.previous.projection \in Projections
  BY RecordFields, BindingFields
<1>3. r.kind = "detach" => r.previous # NoBinding
  BY RecordFields
<1> QED
  BY <1>1, <1>2, <1>3, DetachType DEF RolledBackValues

\* A dry run adds a well-typed plan.
LEMMA PlanTypes ==
  ASSUME TypeOK, NEW o \in Ids, NEW p \in Profiles, NEW v \in Providers,
         NEW kind \in {"attach", "detach"}, PlanWith(o, kind, p, v)
  PROVE  plans' \in [Ids -> Plans \cup {NoPlan}]
<1>1. RevOf(bindings[p]) \in Nat
  BY BindingFields DEF TypeOK, RevOf
<1>2. config[p] \in Configs
  BY DEF TypeOK
<1> QED
  BY <1>1, <1>2 DEF TypeOK, PlanWith, Plans

\* Whatever a step changes of a Gateway binding is again one.
LEMMA GatewayTypes ==
  ASSUME gateway \in [Ids -> GatewayBindings], NEW o \in Ids \cup {NoRef}
  PROVE  /\ \A s \in {"live", "revoked"} :
              [gateway EXCEPT ![o].status = s] \in [Ids -> GatewayBindings]
         /\ \A c \in BOOLEAN :
              [gateway EXCEPT ![o].credential = c] \in [Ids -> GatewayBindings]
         /\ [gateway EXCEPT ![o].pending = TRUE] \in [Ids -> GatewayBindings]
<1>1. \A i \in Ids : gateway[i] \in GatewayBindings
  OBVIOUS
<1>2. \A g \in GatewayBindings :
        /\ \A s \in {"live", "revoked"} : [g EXCEPT !.status = s] \in GatewayBindings
        /\ \A c \in BOOLEAN : [g EXCEPT !.credential = c] \in GatewayBindings
        /\ [g EXCEPT !.pending = TRUE] \in GatewayBindings
  BY DEF GatewayBindings
<1> QED
  BY <1>1, <1>2

\* Every step keeps every variable in its type.
LEMMA TypeStep ==
  ASSUME TypeOK, HolderOK, WorkIsJournaled, [Next]_vars
  PROVE  TypeOK'
<1> DEFINE DurableTypes ==
             /\ config \in [Profiles -> Configs]
             /\ bindings \in [Profiles -> Bindings \cup {NoBinding}]
             /\ bindingRev \in Nat
             /\ journal \in [Ids -> Records \cup {NoRecord}]
             /\ gateway \in [Ids -> GatewayBindings]
           PlanTypesOK == plans \in [Ids -> Plans \cup {NoPlan}]
           HistoryTypes == touched \subseteq Profiles /\ raced \in BOOLEAN
<1>1. DurableTypes /\ PlanTypesOK /\ HistoryTypes /\ HolderTypes
  BY DEF TypeOK, HolderTypes
<1>2. SUFFICES DurableTypes' /\ PlanTypesOK' /\ HistoryTypes' /\ HolderTypes'
  BY DEF TypeOK, HolderTypes
<1>3. ASSUME NEW o \in Ids, NEW p \in Profiles, NEW v \in Providers, PlanAttach(o, p, v)
      PROVE  DurableTypes' /\ PlanTypesOK' /\ HistoryTypes' /\ HolderTypes'
  BY <1>1, <1>3, PlanTypes DEF PlanAttach, durable, holder, history, HolderTypes
<1>4. ASSUME NEW o \in Ids, NEW p \in Profiles, PlanDetach(o, p)
      PROVE  DurableTypes' /\ PlanTypesOK' /\ HistoryTypes' /\ HolderTypes'
  <2>1. bindings[p].provider \in Providers
    BY <1>4, BindingFields DEF PlanDetach, TypeOK
  <2> QED
    BY <1>1, <1>4, <2>1, PlanTypes DEF PlanDetach, durable, holder, history, HolderTypes
<1>5. ASSUME NEW o \in Ids, BeginAttach(o)
      PROVE  DurableTypes' /\ PlanTypesOK' /\ HistoryTypes' /\ HolderTypes'
  BY <1>1, <1>5, AttachWork DEF BeginAttach, durable, history
<1>6. ASSUME NEW o \in Ids, BeginDetach(o)
      PROVE  DurableTypes' /\ PlanTypesOK' /\ HistoryTypes' /\ HolderTypes'
  BY <1>1, <1>6, DetachWork DEF BeginDetach, durable, history
<1>7. CASE PrepareCredential
  <2>1. gateway' \in [Ids -> GatewayBindings]
    <3>1. [gateway EXCEPT ![cur].credential = TRUE] \in [Ids -> GatewayBindings]
      BY <1>1, GatewayTypes DEF HolderTypes
    <3> QED
      BY <1>1, <1>7, <3>1 DEF PrepareCredential
  <2>2. HolderTypes'
    BY <1>1, <1>7, HolderMoves DEF PrepareCredential
  <2> QED
    BY <1>1, <1>7, <2>1, <2>2 DEF PrepareCredential, history
<1>8. CASE PrepareGatewayBinding
  <2>1. gateway' \in [Ids -> GatewayBindings]
    <3>1. [gateway EXCEPT ![cur].status = "live"] \in [Ids -> GatewayBindings]
      BY <1>1, GatewayTypes DEF HolderTypes
    <3>2. [gateway EXCEPT ![cur].credential = FALSE] \in [Ids -> GatewayBindings]
      BY <1>1, GatewayTypes DEF HolderTypes
    <3> QED
      BY <1>1, <1>8, <3>1, <3>2 DEF PrepareGatewayBinding
  <2>2. HolderTypes'
    BY <1>1, <1>8, HolderMoves DEF PrepareGatewayBinding
  <2> QED
    BY <1>1, <1>8, <2>1, <2>2 DEF PrepareGatewayBinding, history
<1>9. CASE CreateJournal
  <2>1. cur \in Ids /\ work \in Records
    BY <1>9 DEF CreateJournal, HolderOK
  <2>2. NewRef(work) \in Ids \cup {NoRef}
    BY <2>1, RefType
  <2> QED
    BY <1>1, <1>9, <2>1, <2>2, HolderMoves DEF CreateJournal, history
<1>10. CASE CheckConfig
  <2>1. NewRef(work) \in Ids \cup {NoRef}
    BY <1>10, RefType DEF CheckConfig, HolderOK
  <2> QED
    BY <1>1, <1>10, <2>1, HolderMoves DEF CheckConfig, ConfigFailure, durable
<1>11. CASE WriteConfig
  <2>1. work \in Records
    BY <1>11 DEF WriteConfig, HolderOK
  <2>2. NewRef(work) \in Ids \cup {NoRef}
    BY <2>1, RefType
  <2>3. work.intended \in Configs /\ work.profile \in Profiles
    BY <2>1, RecordFields
  <2> QED
    BY <1>1, <1>11, <2>2, <2>3, HolderMoves DEF WriteConfig, ConfigFailure
<1>12. CASE FailConfig
  <2>1. journal' \in [Ids -> Records \cup {NoRecord}]
    BY <1>1, <1>12, JournalTypes
       DEF FailConfig, Journaled, Undoing, States, Errors
  <2> QED
    BY <1>1, <1>12, <2>1, HolderMoves DEF FailConfig, history
<1>13. CASE MarkConfigCommitted
  <2>1. journal' \in [Ids -> Records \cup {NoRecord}]
    BY <1>13, JournalTypes
       DEF MarkConfigCommitted, Journaled, States, ActiveStates, Errors
  <2> QED
    BY <1>1, <1>13, <2>1, HolderMoves DEF MarkConfigCommitted, history
<1>14. CASE CheckDrift
  <2>1. NewRef(work) \in Ids \cup {NoRef}
    BY <1>14, RefType DEF CheckDrift, HolderOK
  <2> QED
    BY <1>1, <1>14, <2>1, HolderMoves DEF CheckDrift, durable, history
<1>15. CASE MarkDrift
  <2>1. journal' \in [Ids -> Records \cup {NoRecord}]
    BY <1>15, JournalTypes DEF MarkDrift, Journaled, Undoing, States, Errors
  <2> QED
    BY <1>1, <1>15, <2>1, HolderMoves DEF MarkDrift, history
<1>16. CASE CommitBinding
  <2>1. work.prepared \in Bindings \cup {NoBinding}
    BY <1>16, RecordFields DEF CommitBinding, HolderOK
  <2>2. HolderTypes'
    BY <1>1, <1>16, HolderMoves DEF CommitBinding
  <2>3. bindings' \in [Profiles -> Bindings \cup {NoBinding}]
    BY <1>1, <1>16, <2>1 DEF CommitBinding
  <2>4. bindingRev' \in Nat
    BY <1>1, <1>16 DEF CommitBinding
  <2> QED
    BY <1>1, <1>16, <2>2, <2>3, <2>4 DEF CommitBinding, history
<1>17. CASE MarkBindingCommitted
  <2>1. journal' \in [Ids -> Records \cup {NoRecord}]
    BY <1>17, JournalTypes
       DEF MarkBindingCommitted, Journaled, Finishing, States, ActiveStates, Errors
  <2>2. OldRef(work) \in Ids \cup {NoRef}
    BY <1>17, RefType DEF MarkBindingCommitted, HolderOK
  <2> QED
    BY <1>1, <1>17, <2>1, <2>2, HolderMoves DEF MarkBindingCommitted, history
<1>18. CASE Finish
  <2>1. journal' \in [Ids -> Records \cup {NoRecord}]
    BY <1>18, JournalTypes DEF Finish, Journaled, Finishing, States, Errors
  <2> QED
    BY <1>1, <1>18, <2>1, HolderMoves DEF Finish, history
<1>19. CASE RevokeStore
  <2>1. gateway' \in [Ids -> GatewayBindings]
    <3>1. [gateway EXCEPT ![ref].status = "revoked"] \in [Ids -> GatewayBindings]
      BY <1>1, GatewayTypes DEF HolderTypes
    <3> QED
      BY <1>1, <1>19, <3>1 DEF RevokeStore
  <2>2. HolderTypes'
    BY <1>1, <1>19, HolderMoves DEF RevokeStore, HolderTypes
  <2> QED
    BY <1>1, <1>19, <2>1, <2>2 DEF RevokeStore, history
<1>20. CASE RevokeCredential
  <2>1. gateway' \in [Ids -> GatewayBindings]
    <3>1. [gateway EXCEPT ![ref].credential = FALSE] \in [Ids -> GatewayBindings]
      BY <1>1, GatewayTypes DEF HolderTypes
    <3> QED
      BY <1>1, <1>20, <3>1 DEF RevokeCredential
  <2>2. HolderTypes'
    BY <1>1, <1>20, HolderMoves DEF RevokeCredential, HolderTypes
  <2> QED
    BY <1>1, <1>20, <2>1, <2>2 DEF RevokeCredential, history
<1>21. CASE MarkRevocationPending
  <2>1. gateway' \in [Ids -> GatewayBindings]
    <3>1. [gateway EXCEPT ![ref].pending = TRUE] \in [Ids -> GatewayBindings]
      BY <1>1, GatewayTypes DEF HolderTypes
    <3> QED
      BY <1>1, <1>21, <3>1 DEF MarkRevocationPending
  <2>2. HolderTypes'
    BY <1>1, <1>21, HolderMoves DEF MarkRevocationPending, HolderTypes
  <2> QED
    BY <1>1, <1>21, <2>1, <2>2 DEF MarkRevocationPending, history
<1>22. CASE StartRecovery
  BY <1>1, <1>22 DEF StartRecovery, durable, history, HolderTypes
<1>23. CASE RecoverNext
  BY <1>1, <1>23, HolderMoves DEF RecoverNext, durable, history, HolderTypes, Active
<1>24. CASE RecoverGiveUp
  <2>1. journal' \in [Ids -> Records \cup {NoRecord}]
    BY <1>24, JournalTypes DEF RecoverGiveUp, Journaled, States, Errors, Conflict
  <2> QED
    BY <1>1, <1>24, <2>1, HolderMoves DEF RecoverGiveUp, history
<1>25. CASE RecoverForward
  <2>1. OldRef(work) \in Ids \cup {NoRef}
    BY <1>25, RefType DEF RecoverForward, HolderOK
  <2> QED
    BY <1>1, <1>25, <2>1, HolderMoves DEF RecoverForward, durable, history
<1>26. CASE RecoverBack
  <2>1. NewRef(work) \in Ids \cup {NoRef}
    BY <1>26, RefType DEF RecoverBack, HolderOK
  <2> QED
    BY <1>1, <1>26, <2>1, HolderMoves DEF RecoverBack, durable, history
<1>27. CASE CheckRollback
  BY <1>1, <1>27, HolderMoves DEF CheckRollback, durable
<1>28. CASE WriteRollback
  <2>1. work \in Records
    BY <1>28 DEF WriteRollback, HolderOK
  <2>2. NewRef(work) \in Ids \cup {NoRef}
    BY <2>1, RefType
  <2>3. \A restored \in Rendered(RolledBackValues(work)) : restored \in Configs
    BY <2>1, RolledBackType, RenderedType
  <2> QED
    BY <1>1, <1>28, <2>2, <2>3, HolderMoves DEF WriteRollback
<1>29. CASE MarkRolledBack
  <2>1. journal' \in [Ids -> Records \cup {NoRecord}]
    BY <1>29, JournalTypes DEF MarkRolledBack, Journaled, Undoing, States, Errors
  <2> QED
    BY <1>1, <1>29, <2>1, HolderMoves DEF MarkRolledBack, history
<1>30. CASE Die
  BY <1>1, <1>30, HolderMoves DEF Die, durable
<1>31. ASSUME NEW p \in Profiles, EditConfig(p)
       PROVE  DurableTypes' /\ PlanTypesOK' /\ HistoryTypes' /\ HolderTypes'
  <2>1. PICK s \in UserSlots, v \in UserValues \cup {Absent} :
          \E text \in Rendered([config[p].values EXCEPT ![s] = v]) :
            config' = [config EXCEPT ![p] = text]
    BY <1>31 DEF EditConfig
  <2>2. [config[p].values EXCEPT ![s] = v] \in [Slots -> SlotValues]
    <3>1. config[p].values \in [Slots -> SlotValues]
      BY <1>1, ConfigFields
    <3>2. v \in SlotValues
      BY DEF SlotValues
    <3> QED
      BY <3>1, <3>2
  <2>3. PICK text \in Configs : config' = [config EXCEPT ![p] = text]
    BY <2>1, <2>2, RenderedType
  <2>4. raced' \in BOOLEAN
    BY <1>1, <1>31, Zenon DEF EditConfig
  <2> QED
    BY <1>1, <1>31, <2>3, <2>4 DEF EditConfig, holder, HolderTypes
<1>32. CASE UNCHANGED vars
  BY <1>1, <1>32 DEF vars, HolderTypes
<1> QED
  BY <1>3, <1>4, <1>5, <1>6, <1>7, <1>8, <1>9, <1>10, <1>11, <1>12, <1>13, <1>14,
     <1>15, <1>16, <1>17, <1>18, <1>19, <1>20, <1>21, <1>22, <1>23, <1>24, <1>25,
     <1>26, <1>27, <1>28, <1>29, <1>30, <1>31, <1>32 DEF Next, Execute, Recover
-----------------------------------------------------------------------------
(* How the journal evolves. *)

\* What a transition may say: that the binding is committed or the operation
\* rolled back only when it is, and never that the binding is neither the old
\* one nor the new one.
Recorded(to, error) ==
  /\ to \in {"BindingCommitted", "Completed"} => Committed(work)
  /\ to = "RolledBack" => PreCommit(work) /\ pc \in {"fail_config", "rolled_back"}
  /\ to # "Prepared"
  /\ error # "binding_conflict"

\* Every step leaves the journal alone, makes a transition of the record in
\* hand, or creates that record.
LEMMA JournalSteps ==
  ASSUME IInv, [Next]_vars
  PROVE  \/ UNCHANGED journal
         \/ /\ pc \in Journaled
            /\ UNCHANGED bindings
            /\ \E to \in States, error \in Errors :
                 Transition(cur, to, error) /\ Recorded(to, error)
         \/ /\ pc = "journal"
            /\ UNCHANGED bindings
            /\ ~ProfileBusy(work.profile)
            /\ journal' = [journal EXCEPT ![cur] = work]
<1>1. CASE UNCHANGED journal
  BY <1>1
<1>2. CASE CreateJournal
  BY <1>2 DEF CreateJournal
<1>3. ASSUME NEW to \in States, NEW error \in Errors, Transition(cur, to, error),
             Recorded(to, error), pc \in Journaled, UNCHANGED bindings
      PROVE  /\ pc \in Journaled
             /\ UNCHANGED bindings
             /\ \E to2 \in States, error2 \in Errors :
                  Transition(cur, to2, error2) /\ Recorded(to2, error2)
  BY <1>3
\* What the place of the holder says of the binding.
<1>a. /\ pc \in Undoing => PreCommit(work)
      /\ pc \in Finishing => Committed(work)
  BY DEF IInv, HolderKnows, Position, At, Revoking, Undoing, Finishing
<1>4. CASE FailConfig
  BY <1>a, <1>3, <1>4 DEF FailConfig, Recorded, Journaled, Undoing, States, Errors
<1>5. CASE MarkConfigCommitted
  BY <1>3, <1>5 DEF MarkConfigCommitted, Recorded, Journaled, States, ActiveStates, Errors
<1>6. CASE MarkDrift
  BY <1>3, <1>6 DEF MarkDrift, Recorded, Journaled, Undoing, States, Errors
<1>7. CASE MarkBindingCommitted
  <2>1. pc \in Journaled /\ Transition(cur, "BindingCommitted", "none")
          /\ UNCHANGED bindings
    BY <1>7 DEF MarkBindingCommitted, Journaled, Finishing
  <2>2. Committed(work)
    BY <1>a, <1>7 DEF MarkBindingCommitted, Finishing
  <2> QED
    BY <1>3, <2>1, <2>2 DEF Recorded, States, ActiveStates, Errors
<1>8. CASE Finish
  BY <1>a, <1>3, <1>8 DEF Finish, Recorded, Journaled, Finishing, States, Errors
<1>9. CASE RecoverGiveUp
  <2>1. work = journal[cur] /\ At = pc /\ pc \in Journaled /\ cur \in Ids
    BY <1>9 DEF RecoverGiveUp, At, Revoking, Journaled, IInv, HolderKnows,
          WorkIsJournaled, HolderOK
  <2>2. Active(cur)
    BY <2>1 DEF IInv, HolderKnows, WorkIsJournaled
  <2>3. Conflict(work) # "binding_conflict"
    BY <2>1, <2>2 DEF IInv, BindingIsKnown, Active, Conflict
  <2>4. Conflict(work) \in Errors
    BY DEF Conflict, Errors
  <2> QED
    BY <1>3, <1>9, <2>1, <2>3, <2>4 DEF RecoverGiveUp, Recorded, States
<1>10. CASE MarkRolledBack
  BY <1>a, <1>3, <1>10 DEF MarkRolledBack, Recorded, Journaled, Undoing, States, Errors
<1> QED
  BY <1>1, <1>2, <1>4, <1>5, <1>6, <1>7, <1>8, <1>9, <1>10
     DEF Next, Execute, Recover, PlanAttach, PlanDetach, BeginAttach, BeginDetach,
         PrepareCredential, PrepareGatewayBinding, CheckConfig, WriteConfig,
         CheckDrift, CommitBinding, RevokeStore, RevokeCredential,
         MarkRevocationPending, StartRecovery, RecoverNext, RecoverForward,
         RecoverBack, CheckRollback, WriteRollback, Die, EditConfig, durable, vars

\* The operation in hand, from its record on.
LEMMA WorkFacts ==
  ASSUME IInv, pc \in Journaled
  PROVE  /\ At = pc
         /\ cur \in Ids /\ work \in Records
         /\ Active(cur) /\ journal[cur] # NoRecord
         /\ SameOperation(work, journal[cur])
         /\ work.profile \in Profiles
         /\ RefersWell(cur, work)
<1>1. At = pc
  BY DEF At, Journaled, Executing, Undoing, Finishing, Revoking
<1>2. cur \in Ids /\ work \in Records
  BY DEF IInv, HolderKnows, HolderOK, Journaled, Executing, Undoing, Finishing
<1>3. Active(cur) /\ journal[cur] # NoRecord /\ SameOperation(work, journal[cur])
  BY <1>1 DEF IInv, HolderKnows, WorkIsJournaled, Active
<1>4. RefersWell(cur, work)
  BY <1>2, <1>3 DEF IInv, RecordsReferWell, RefersWell, SameOperation, NewRef, OldRef
<1> QED
  BY <1>1, <1>2, <1>3, <1>4, RecordFields

\* A record keeps its profile and its two bindings, becomes active only when
\* it is created, and is created only when no other of its profile is active.
LEMMA JournalEffect ==
  ASSUME IInv, [Next]_vars
  PROVE  /\ \A o \in Ids : journal[o] # NoRecord =>
              /\ journal'[o] # NoRecord
              /\ SameOperation(journal[o], journal'[o])
              /\ Active(o)' => Active(o)
         /\ \A o \in Ids : journal[o] = NoRecord /\ journal'[o] # NoRecord =>
              /\ pc = "journal" /\ o = cur
              /\ UNCHANGED bindings
              /\ ~ProfileBusy(work.profile)
              /\ journal' = [journal EXCEPT ![cur] = work]
<1> USE DEF SameOperation
<1>1. CASE UNCHANGED journal
  BY <1>1 DEF Active
<1>2. ASSUME pc \in Journaled,
             NEW to \in States, NEW error \in Errors, Transition(cur, to, error)
      PROVE  /\ \A o \in Ids : journal[o] # NoRecord =>
                  /\ journal'[o] # NoRecord
                  /\ SameOperation(journal[o], journal'[o])
                  /\ Active(o)' => Active(o)
             /\ \A o \in Ids : journal[o] = NoRecord => journal'[o] = NoRecord
  <2>1. journal \in [Ids -> Records \cup {NoRecord}]
    BY DEF IInv, TypeOK
  <2>2. cur \in Ids /\ journal[cur] # NoRecord /\ Active(cur)
    BY <1>2, WorkFacts
  <2>3. /\ journal'[cur] # NoRecord
        /\ SameOperation(journal[cur], journal'[cur])
        /\ \A o2 \in Ids \ {cur} : journal'[o2] = journal[o2]
    BY <1>2, <2>1, <2>2, TransitionEffect
  <2> QED
    BY <2>2, <2>3 DEF Active
<1>3. ASSUME pc = "journal", UNCHANGED bindings, ~ProfileBusy(work.profile),
             journal' = [journal EXCEPT ![cur] = work]
      PROVE  /\ \A o \in Ids : journal[o] # NoRecord =>
                  /\ journal'[o] # NoRecord
                  /\ SameOperation(journal[o], journal'[o])
                  /\ Active(o)' => Active(o)
             /\ \A o \in Ids : journal[o] = NoRecord /\ journal'[o] # NoRecord => o = cur
  <2>1. journal \in [Ids -> Records \cup {NoRecord}]
    BY DEF IInv, TypeOK
  <2>2. cur \in Ids /\ journal[cur] = NoRecord
    BY <1>3 DEF IInv, HolderKnows, HolderOK, WorkIsNew, BeforeJournal
  <2>3. \A o \in Ids \ {cur} : journal'[o] = journal[o]
    BY <1>3, <2>1, <2>2
  <2> QED
    BY <2>2, <2>3 DEF Active
<1> QED
  BY <1>1, <1>2, <1>3, JournalSteps
-----------------------------------------------------------------------------
(* How records and bindings refer to each other. *)

\* No two operations of a profile are active: creating a record is refused
\* while one is, and nothing makes an ended record active again.
LEMMA OneActiveStep ==
  ASSUME IInv, [Next]_vars
  PROVE  OneActivePerProfile'
<1> SUFFICES ASSUME NEW o1 \in Ids, NEW o2 \in Ids,
                    Active(o1)', Active(o2)',
                    journal'[o1].profile = journal'[o2].profile
             PROVE  o1 = o2
  BY DEF OneActivePerProfile
<1>1. journal'[o1] # NoRecord /\ journal'[o2] # NoRecord
  BY DEF Active
<1>2. CASE journal[o1] # NoRecord /\ journal[o2] # NoRecord
  BY <1>2, JournalEffect DEF SameOperation, IInv, OneActivePerProfile
<1>3. ASSUME NEW a \in Ids, NEW b \in Ids,
             journal[a] = NoRecord, journal'[a] # NoRecord,
             journal[b] # NoRecord, Active(b)',
             journal'[a].profile = journal'[b].profile
      PROVE  FALSE
  <2>1. a = cur /\ ~ProfileBusy(work.profile) /\ journal' = [journal EXCEPT ![cur] = work]
    BY <1>3, JournalEffect
  <2>2. journal'[a] = work
    BY <2>1 DEF IInv, TypeOK
  <2>3. Active(b) /\ journal[b].profile = work.profile
    BY <1>3, <2>2, JournalEffect DEF SameOperation
  <2> QED
    BY <2>1, <2>3 DEF ProfileBusy
<1>4. CASE journal[o1] = NoRecord /\ journal[o2] = NoRecord
  BY <1>1, <1>4, JournalEffect
<1> QED
  BY <1>1, <1>2, <1>3, <1>4

\* Every step keeps it that a journal record refers only to Gateway bindings
\* of its own profile: its own one, and an older one.
LEMMA RefersWellStep ==
  ASSUME IInv, [Next]_vars
  PROVE  RecordsReferWell'
<1> SUFFICES ASSUME NEW o \in Ids, journal'[o] # NoRecord
             PROVE  /\ NewRef(journal'[o]) \in {NoRef, o}
                    /\ OldRef(journal'[o]) # NoRef =>
                         /\ OldRef(journal'[o]) # o
                         /\ journal'[OldRef(journal'[o])] # NoRecord
                         /\ journal'[OldRef(journal'[o])].profile = journal'[o].profile
  BY DEF RecordsReferWell, RefersWell, NewRef, OldRef, RefOf
\* The record is an earlier one or the one in hand, and refers well already.
<1>1. PICK r \in Records :
        /\ RefersWell(o, r)
        /\ journal'[o].profile = r.profile
        /\ journal'[o].previous = r.previous
        /\ journal'[o].prepared = r.prepared
  <2>1. CASE journal[o] # NoRecord
    BY <2>1, JournalEffect DEF IInv, TypeOK, RecordsReferWell, SameOperation
  <2>2. CASE journal[o] = NoRecord
    <3>1. pc = "journal" /\ o = cur /\ journal' = [journal EXCEPT ![cur] = work]
      BY <2>2, JournalEffect
    <3>2. journal'[o] = work
      BY <3>1 DEF IInv, TypeOK
    <3> QED
      BY <3>1, <3>2 DEF IInv, HolderKnows, WorkIsNew, BeforeJournal, HolderOK
  <2> QED
    BY <2>1, <2>2
<1>2. NewRef(journal'[o]) = NewRef(r) /\ OldRef(journal'[o]) = OldRef(r)
  BY <1>1 DEF NewRef, OldRef
<1>3. OldRef(r) \in Ids \cup {NoRef}
  BY RefType
<1> QED
  BY <1>1, <1>2, <1>3, JournalEffect DEF RefersWell, SameOperation

\* Only the commit point writes the binding store: it binds the profile of
\* the operation in hand to what that operation prepared.
LEMMA BindingsSteps ==
  ASSUME [Next]_vars
  PROVE  UNCHANGED bindings \/ CommitBinding
BY DEF Next, Execute, Recover, PlanAttach, PlanDetach, BeginAttach, BeginDetach,
       PrepareCredential, PrepareGatewayBinding, CreateJournal, CheckConfig,
       WriteConfig, FailConfig, MarkConfigCommitted, CheckDrift, MarkDrift,
       MarkBindingCommitted, Finish, RevokeStore, RevokeCredential,
       MarkRevocationPending, StartRecovery, RecoverNext, RecoverGiveUp,
       RecoverForward, RecoverBack, CheckRollback, WriteRollback, MarkRolledBack,
       Die, EditConfig, durable, vars

\* Every step keeps it that a profile is bound to a Gateway binding of one
\* of its own operations.
LEMMA BoundStep ==
  ASSUME IInv, [Next]_vars
  PROVE  BoundByItsOperation'
<1> SUFFICES ASSUME NEW p \in Profiles, RefOf(bindings'[p]) # NoRef
             PROVE  /\ journal'[RefOf(bindings'[p])] # NoRecord
                    /\ journal'[RefOf(bindings'[p])].profile = p
  BY DEF BoundByItsOperation, RefOf
<1>1. CASE bindings'[p] = bindings[p]
  <2>1. RefOf(bindings[p]) \in Ids
    BY <1>1, BindingFields DEF IInv, TypeOK, RefOf
  <2>2. /\ journal[RefOf(bindings[p])] # NoRecord
        /\ journal[RefOf(bindings[p])].profile = p
    BY <1>1 DEF IInv, BoundByItsOperation
  <2> QED
    BY <1>1, <2>1, <2>2, JournalEffect DEF SameOperation
<1>2. CASE CommitBinding /\ bindings'[p] # bindings[p]
  <2>1. pc \in Journaled
    BY <1>2 DEF CommitBinding, Journaled, Executing
  <2>2. p = work.profile /\ bindings'[p] = work.prepared
    BY <1>2 DEF CommitBinding, IInv, TypeOK
  <2>3. RefOf(bindings'[p]) = cur
    BY <2>1, <2>2, WorkFacts DEF RefersWell, NewRef
  <2> QED
    BY <2>1, <2>2, <2>3, WorkFacts, JournalEffect DEF SameOperation
<1> QED
  BY <1>1, <1>2, BindingsSteps
-----------------------------------------------------------------------------
(* What the holder of the lock may rely on. *)

Returns == {"idle", "fail_config", "drift_manual", "finish", "rolled_back"}

\* With the lock free there is nothing to rely on.
LEMMA ReleaseKnows ==
  ASSUME Release
  PROVE  HolderKnows'
<1>1. At' = "idle" /\ pc' = "idle" /\ next' = "idle"
  BY DEF Release, At, Revoking
<1> QED
  BY <1>1 DEF HolderKnows, HolderOK, WorkIsJournaled, WorkIsNew, Position,
        PreparedIsLive, RevokedIsUnbound, Journaled, Executing, Undoing, Finishing,
        BeforeJournal, Revoking

\* Steps of others leave the holder what it knows.
LEMMA OthersKnow ==
  ASSUME HolderKnows, UNCHANGED <<bindings, journal, gateway, holder>>
  PROVE  HolderKnows'
BY DEF holder, At, HolderKnows, HolderOK, WorkIsJournaled, WorkIsNew, Position,
       PreparedIsLive, RevokedIsUnbound, Active, SameOperation, RefersWell,
       NewRef, OldRef, RefOf, Committed, PreCommit

\* The revocation itself only moves on.
LEMMA RevocationKnows ==
  ASSUME IInv, pc \in Revoking, UNCHANGED <<bindings, journal>>,
         \/ Continue(next)
         \/ Continue(AfterRevokeError)
         \/ /\ pc' \in {"revoke_credential", "revoke_pending"}
            /\ UNCHANGED <<mode, cur, work, ref, next>>
  PROVE  HolderKnows'
<1>1. CASE Release
  BY <1>1, ReleaseKnows
<1>2. CASE /\ UNCHANGED <<mode, cur, work>>
           /\ next' \in Returns
           /\ \/ pc' = next /\ next # "idle"
              \/ pc' \in {"revoke_credential", "revoke_pending"} /\ UNCHANGED <<ref, next>>
  <2>1. At = next /\ At' = next /\ next \in Returns
    BY <1>2 DEF At, Revoking, Returns, IInv, HolderKnows, HolderOK
  <2>2. HolderOK'
    BY <1>2, <2>1 DEF IInv, HolderKnows, HolderOK, Returns, Revoking, BeforeJournal,
          Journaled, Executing, Undoing, Finishing
  <2>3. WorkIsJournaled'
    BY <1>2, <2>1 DEF IInv, HolderKnows, WorkIsJournaled, Active, SameOperation, Returns
  <2>4. WorkIsNew' /\ PreparedIsLive' /\ RevokedIsUnbound'
    BY <1>2, <2>1 DEF WorkIsNew, PreparedIsLive, RevokedIsUnbound, BeforeJournal,
          Executing, Returns
  <2>5. Position'
    BY <1>2, <2>1 DEF IInv, HolderKnows, Position, Committed, PreCommit, Returns
  <2> QED
    BY <2>2, <2>3, <2>4, <2>5 DEF HolderKnows
<1> QED
  BY <1>1, <1>2 DEF Continue, Goto, AfterRevokeError, BestEffort, IInv, HolderKnows,
        HolderOK, Returns

\* A step of the operation in hand after its record was written.
LEMMA OperationKnows ==
  ASSUME IInv, pc \in Journaled, UNCHANGED <<mode, cur, work>>,
         NEW label \in Journaled \ {"recover"}, At' = label,
         \/ pc' = label
         \/ pc' = "revoke_store" /\ label \in Returns /\ ref' \in Ids,
         next' \in Returns,
         label \in Executing => mode = "execute",
         Active(cur)', journal' = journal \/ \E to, error : Transition(cur, to, error),
         Position', PreparedIsLive', RevokedIsUnbound'
  PROVE  HolderKnows'
<1>1. /\ cur \in Ids /\ work \in Records
      /\ SameOperation(work, journal[cur]) /\ journal[cur] \in Records
  BY WorkFacts DEF IInv, TypeOK
<1>2. HolderOK'
  BY <1>1 DEF HolderOK, Journaled, Executing, Undoing, Finishing, BeforeJournal,
        Revoking, Returns
<1>3. SameOperation(work, journal'[cur])
  <2>1. ASSUME NEW to, NEW error, Transition(cur, to, error)
        PROVE  SameOperation(journal'[cur], journal[cur])
    <3>1. /\ journal \in [Ids -> Records \cup {NoRecord}]
          /\ journal' = [journal EXCEPT ![cur].state = to, ![cur].error = error]
      BY <2>1 DEF Transition, IInv, TypeOK
    <3>2. journal'[cur] = [journal[cur] EXCEPT !.state = to, !.error = error]
      BY <1>1, <3>1 DEF Records
    <3> QED
      BY <1>1, <3>2 DEF Records, SameOperation
  <2> QED
    BY <1>1, <2>1 DEF SameOperation
<1>4. WorkIsJournaled'
  BY <1>3 DEF WorkIsJournaled, SameOperation, Returns
<1>5. WorkIsNew'
  BY DEF WorkIsNew, BeforeJournal, Journaled, Executing, Undoing, Finishing, Returns
<1> QED
  BY <1>2, <1>4, <1>5 DEF HolderKnows
\* A revocation that is not the last step keeps the operation in hand.
LEMMA RevokeTarget ==
  ASSUME NEW r, NEW label, label # "idle", Revoke(r, label)
  PROVE  UNCHANGED <<mode, cur, work>>
BY DEF Revoke, Continue, Goto

\* After a record has ended.
LEMMA RecordEnds ==
  ASSUME IInv, Continue(AfterRecord)
  PROVE  HolderKnows'
<1>1. CASE Release
  BY <1>1, ReleaseKnows
<1>2. CASE mode = "recover" /\ Goto("recover_next")
  <2>1. pc' = "recover_next" /\ mode' = "recover" /\ At' = pc' /\ next' = "idle"
    BY <1>2 DEF Goto, At, Revoking
  <2> QED
    BY <2>1 DEF HolderKnows, HolderOK, WorkIsJournaled, WorkIsNew, Position,
          PreparedIsLive, RevokedIsUnbound, Journaled, Executing, Undoing, Finishing,
          BeforeJournal, Revoking
<1> QED
  BY <1>1, <1>2 DEF Continue, AfterRecord

\* Before the commit point no profile is bound to what was prepared ...
LEMMA NewRefUnbound ==
  ASSUME IInv, pc \in Journaled, PreCommit(work), NewRef(work) # NoRef
  PROVE  \A p \in Profiles : RefOf(bindings[p]) # NewRef(work)
<1>1. NewRef(work) = cur /\ OldRef(work) # cur
  BY WorkFacts, AttachAssumption DEF RefersWell
<1>2. RefOf(bindings[work.profile]) # cur
  BY <1>1 DEF PreCommit, OldRef
<1>3. ASSUME NEW p \in Profiles, RefOf(bindings[p]) = cur
      PROVE  p = work.profile
  BY <1>3, WorkFacts, AttachAssumption DEF IInv, BoundByItsOperation, SameOperation
<1> QED
  BY <1>1, <1>2, <1>3

\* ... and after it none to what was superseded.
LEMMA OldRefUnbound ==
  ASSUME IInv, pc \in Journaled, Committed(work), OldRef(work) # NoRef
  PROVE  \A p \in Profiles : RefOf(bindings[p]) # OldRef(work)
<1>1. /\ OldRef(work) # cur /\ NewRef(work) \in {NoRef, cur}
      /\ journal[OldRef(work)].profile = work.profile
  BY WorkFacts DEF RefersWell
<1>2. RefOf(bindings[work.profile]) # OldRef(work)
  BY <1>1 DEF Committed, NewRef
<1>3. ASSUME NEW p \in Profiles, RefOf(bindings[p]) = OldRef(work)
      PROVE  p = work.profile
  BY <1>1, <1>3 DEF IInv, BoundByItsOperation
<1> QED
  BY <1>2, <1>3

\* A revocation of the operation in hand that is safe to start.
LEMMA RevokeKnows ==
  ASSUME IInv, pc \in Journaled, UNCHANGED bindings,
         journal' = journal \/ \E to, error : Transition(cur, to, error),
         Active(cur)',
         NEW label \in {"fail_config", "drift_manual", "finish", "rolled_back"},
         NEW r \in Ids \cup {NoRef}, Revoke(r, label),
         r # NoRef => \A p \in Profiles : RefOf(bindings[p]) # r,
         IF label = "finish" THEN Committed(work) ELSE PreCommit(work)
  PROVE  HolderKnows'
<1>1. label \in Returns /\ label \in Journaled \ {"recover"} /\ label \notin Executing
  BY DEF Returns, Journaled, Executing, Undoing, Finishing
<1>2. /\ UNCHANGED <<mode, cur, work>>
      /\ At' = label /\ next' \in Returns
      /\ \/ pc' = label
         \/ pc' = "revoke_store" /\ ref' = r /\ r \in Ids
  <2>1. CASE r = NoRef
    BY <2>1 DEF Revoke, Continue, Goto, At, Revoking, Returns
  <2>2. CASE r # NoRef
    BY <2>2 DEF Revoke, At, Revoking, Returns
  <2> QED
    BY <2>1, <2>2
<1>3. Position'
  BY <1>2 DEF Position, PreCommit, Committed, Executing, Undoing, Finishing
<1>4. PreparedIsLive'
  BY <1>2 DEF PreparedIsLive, Executing
<1>5. RevokedIsUnbound'
  BY <1>2, AttachAssumption DEF RevokedIsUnbound
<1> QED
  BY <1>1, <1>2, <1>3, <1>4, <1>5, OperationKnows

\* A step of the operation in hand that writes at most the journal.
LEMMA GotoKnows ==
  ASSUME IInv, pc \in Journaled, UNCHANGED <<bindings, gateway>>,
         journal' = journal \/ \E to, error : Transition(cur, to, error),
         Active(cur)',
         NEW label \in Journaled \ {"recover"}, Goto(label),
         label \in Executing => mode = "execute" /\ PreCommit(work) /\
           (NewRef(work) # NoRef => gateway[NewRef(work)].status = "live"),
         label \in Undoing => PreCommit(work),
         label \in Finishing => Committed(work),
         label = "config_committed" =>
           IF mode = "execute"
           THEN PreCommit(work) /\
                (NewRef(work) # NoRef => gateway[NewRef(work)].status = "live")
           ELSE Committed(work)
  PROVE  HolderKnows'
<1>1. /\ UNCHANGED <<mode, cur, work>> /\ pc' = label /\ At' = label
      /\ next' \in Returns
  BY DEF Goto, At, Returns, Revoking, Journaled, Executing, Undoing, Finishing
<1>2. Position'
  BY <1>1 DEF Position, PreCommit, Committed
<1>3. PreparedIsLive'
  <2>1. label # "journal"
    BY DEF Journaled, Executing, Undoing, Finishing
  <2> QED
    BY <1>1, <2>1 DEF PreparedIsLive, NewRef, RefOf
<1>4. RevokedIsUnbound'
  BY <1>1 DEF RevokedIsUnbound, Journaled, Executing, Undoing, Finishing
<1> QED
  BY <1>1, <1>2, <1>3, <1>4, OperationKnows
\* A new operation: its record refers to the binding it is to replace.
LEMMA BeginKnows ==
  ASSUME IInv, NEW o \in Ids, BeginAttach(o) \/ BeginDetach(o)
  PROVE  HolderKnows'
<1> DEFINE p == plans[o].profile
<1>1. p \in Profiles /\ journal[o] = NoRecord
  BY PlanFields DEF BeginAttach, BeginDetach, PlanCurrent, IInv
<1>2. work' \in Records
  BY AttachWork, DetachWork DEF IInv
<1>3. /\ UNCHANGED <<bindings, journal, gateway, next>>
      /\ mode' = "execute" /\ cur' = o
      /\ work'.profile = p /\ work'.previous = bindings[p]
      /\ work'.state = "Prepared" /\ work'.error = "none"
      /\ work'.prepared = NoBinding \/ work'.prepared.rev = RevOf(bindings[p]) + 1
      /\ \/ pc' = "gateway_credential" /\ RefOf(work'.prepared) \in {NoRef, o}
         \/ pc' = "journal" /\ RefOf(work'.prepared) = NoRef
  <2>1. CASE BeginAttach(o)
    <3>1. ASSUME NEW v, NEW intended, NEW projection
          PROVE  /\ PreparedBinding(o, v, intended, projection, bindings[p]).gw
                      = IF v \in GatewayProviders THEN o ELSE NoRef
                 /\ PreparedBinding(o, v, intended, projection, bindings[p]).rev
                      = RevOf(bindings[p]) + 1
      BY DEF PreparedBinding
    <3> DEFINE v == plans[o].provider
    <3>2. /\ UNCHANGED <<bindings, journal, gateway>>
          /\ \E record, label : Begin(o, record, label)
      BY <2>1 DEF BeginAttach, durable
    <3>3. \E intended, projection :
            work' = [profile |-> p,
                     kind |-> IF bindings[p] = NoBinding THEN "attach" ELSE "rebind",
                     state |-> "Prepared", error |-> "none",
                     storeRev |-> plans[o].storeRev, before |-> plans[o].source,
                     intended |-> intended, projection |-> projection,
                     previous |-> bindings[p],
                     prepared |-> PreparedBinding(o, v, intended, projection, bindings[p])]
      BY <2>1 DEF BeginAttach, Begin
    <3>4. \/ pc' = "gateway_credential" /\ v \in GatewayProviders
          \/ pc' = "journal" /\ v \notin GatewayProviders
      BY <2>1 DEF BeginAttach, Begin
    <3>5. work'.prepared = NoBinding \/ RefOf(work'.prepared) = IF v \in GatewayProviders THEN o ELSE NoRef
      BY <3>1, <3>3 DEF RefOf
    <3> QED
      BY <3>1, <3>2, <3>3, <3>4, <3>5 DEF Begin, RefOf
  <2>2. CASE BeginDetach(o)
    BY <2>2 DEF BeginDetach, Begin, RefOf, durable
  <2> QED
    BY <2>1, <2>2
<1>4. At' = pc'
  BY <1>3 DEF At, Revoking
<1>5. HolderOK'
  BY <1>2, <1>3 DEF IInv, HolderKnows, HolderOK, BeforeJournal, Executing, Revoking
<1>6. WorkIsJournaled' /\ Position' /\ PreparedIsLive' /\ RevokedIsUnbound'
  BY <1>3, <1>4 DEF WorkIsJournaled, Position, PreparedIsLive, RevokedIsUnbound,
        Journaled, Executing, Undoing, Finishing, NewRef
<1>7. WorkIsNew'
  <2>1. PreCommit(work)'
    BY <1>3 DEF PreCommit
  <2>2. /\ OldRef(work') = RefOf(bindings[p])
        /\ NewRef(work') \in {NoRef, o}
    BY <1>3 DEF OldRef, NewRef
  <2>3. RefOf(bindings[p]) # NoRef =>
          /\ RefOf(bindings[p]) # o
          /\ journal[RefOf(bindings[p])] # NoRecord
          /\ journal[RefOf(bindings[p])].profile = p
    BY <1>1 DEF IInv, BoundByItsOperation
  <2>4. RefersWell(cur, work)'
    BY <1>3, <2>2, <2>3 DEF RefersWell, OldRef, NewRef, RefOf
  \* The record says whether it binds or unbinds, and binding counts up.
  <2>5. work'.prepared # work'.previous
    <3>1. work'.previous = NoBinding <=> work'.kind = "attach"
      BY <1>2 DEF Records, ValidShape
    <3>2. work'.prepared = NoBinding <=> work'.kind = "detach"
      BY <1>2 DEF Records, ValidShape
    <3>3. bindings[p] # NoBinding => RevOf(bindings[p]) \in Nat
      BY <1>1, BindingFields DEF RevOf, IInv, TypeOK
    <3> QED
      BY <1>3, <3>1, <3>2, <3>3 DEF RevOf
  <2> QED
    BY <1>1, <1>3, <2>1, <2>4, <2>5 DEF WorkIsNew
<1> QED
  BY <1>5, <1>6, <1>7 DEF HolderKnows

\* The steps of a new operation up to its record.
LEMMA PrepareKnows ==
  ASSUME IInv, PrepareCredential \/ PrepareGatewayBinding
  PROVE  HolderKnows'
<1>1. CASE Release
  BY <1>1, ReleaseKnows
<1>2. CASE /\ UNCHANGED <<bindings, journal, mode, cur, work>> /\ next' = "idle"
           /\ pc \in BeforeJournal
           /\ \/ pc' = "gateway_store"
              \/ /\ pc' = "journal"
                 /\ gateway' = [gateway EXCEPT ![cur].status = "live"]
  <2>1. At' = pc' /\ pc' \in BeforeJournal
    BY <1>2 DEF At, Revoking, BeforeJournal
  <2>2. HolderOK'
    BY <1>2, <2>1 DEF IInv, HolderKnows, HolderOK, BeforeJournal, Executing, Revoking
  <2>3. WorkIsNew'
    BY <1>2, <2>1 DEF IInv, HolderKnows, WorkIsNew, PreCommit, RefersWell, NewRef, OldRef
  <2>4. PreparedIsLive'
    <3>1. NewRef(work) \in {NoRef, cur} /\ cur \in Ids
      BY <1>2 DEF IInv, HolderKnows, WorkIsNew, RefersWell, HolderOK, BeforeJournal
    <3>2. NewRef(work)' = NewRef(work)
      BY <1>2 DEF NewRef
    <3>3. pc' = "journal" => gateway'[cur].status = "live"
      BY <1>2, <3>1 DEF IInv, TypeOK, GatewayBindings
    <3> QED
      BY <1>2, <3>1, <3>2, <3>3 DEF PreparedIsLive, Executing
  <2>5. WorkIsJournaled' /\ Position' /\ RevokedIsUnbound'
    BY <1>2, <2>1 DEF WorkIsJournaled, Position, RevokedIsUnbound,
          Journaled, Executing, Undoing, Finishing
  <2> QED
    BY <2>2, <2>3, <2>4, <2>5 DEF HolderKnows
<1> QED
  BY <1>1, <1>2 DEF PrepareCredential, PrepareGatewayBinding, Goto, BeforeJournal

\* The record becomes durable, or what was prepared for it is revoked.
LEMMA CreateKnows ==
  ASSUME IInv, CreateJournal
  PROVE  HolderKnows'
<1>1. /\ pc = "journal" /\ cur \in Ids /\ work \in Records /\ mode = "execute"
      /\ journal[cur] = NoRecord
      /\ work.state = "Prepared" /\ PreCommit(work)
      /\ RefersWell(cur, work)
      /\ UNCHANGED <<bindings, gateway>>
  BY DEF CreateJournal, IInv, HolderKnows, HolderOK, WorkIsNew, BeforeJournal
<1>2. CASE journal' = [journal EXCEPT ![cur] = work] /\ Goto("config_check")
  <2>1. /\ UNCHANGED <<mode, cur, work>> /\ pc' = "config_check" /\ At' = pc'
        /\ next' = "idle"
    BY <1>2 DEF Goto, At, Revoking
  <2>2. journal'[cur] = work
    BY <1>1, <1>2 DEF IInv, TypeOK
  <2>3. HolderOK'
    BY <1>1, <2>1 DEF HolderOK, Journaled, Executing, Revoking
  <2>4. WorkIsJournaled'
    BY <1>1, <2>1, <2>2, SentinelAssumption
       DEF WorkIsJournaled, Active, ActiveStates, SameOperation
  <2>5. Position'
    BY <1>1, <2>1 DEF Position, PreCommit, Finishing
  <2>6. PreparedIsLive'
    BY <1>1, <2>1 DEF PreparedIsLive, NewRef, IInv, HolderKnows
  <2>7. WorkIsNew' /\ RevokedIsUnbound'
    BY <2>1 DEF WorkIsNew, RevokedIsUnbound, BeforeJournal
  <2> QED
    BY <2>3, <2>4, <2>5, <2>6, <2>7 DEF HolderKnows
<1>3. CASE Revoke(NewRef(work), "idle")
  <2>1. CASE NewRef(work) = NoRef
    BY <1>3, <2>1, ReleaseKnows DEF Revoke, Continue
  <2>2. CASE NewRef(work) # NoRef
    <3>1. /\ UNCHANGED <<mode, cur, work>> /\ At' = "idle"
          /\ pc' = "revoke_store" /\ ref' = cur /\ next' = "idle"
      BY <1>1, <1>3, <2>2 DEF Revoke, At, Revoking, RefersWell
    <3>2. \A p \in Profiles : RefOf(bindings[p]) # cur
      BY <1>1, AttachAssumption DEF IInv, BoundByItsOperation
    <3>3. HolderOK'
      BY <1>1, <3>1 DEF HolderOK, BeforeJournal, Executing, Revoking
    <3>4. WorkIsJournaled' /\ WorkIsNew' /\ Position' /\ PreparedIsLive'
      BY <3>1 DEF WorkIsJournaled, WorkIsNew, Position, PreparedIsLive,
            Journaled, Executing, Undoing, Finishing, BeforeJournal
    <3>5. RevokedIsUnbound'
      BY <1>1, <3>1, <3>2 DEF RevokedIsUnbound
    <3> QED
      BY <3>3, <3>4, <3>5 DEF HolderKnows
  <2> QED
    BY <2>1, <2>2
<1> QED
  BY <1>2, <1>3 DEF CreateJournal

\* The record that a transition of the record in hand leaves.
LEMMA TransitionKeepsActive ==
  ASSUME IInv, pc \in Journaled, NEW to \in ActiveStates, NEW error \in Errors,
         Transition(cur, to, error), UNCHANGED cur
  PROVE  Active(cur)'
<1>1. journal \in [Ids -> Records \cup {NoRecord}] /\ to \in States
  BY DEF IInv, TypeOK, States
<1>2. cur \in Ids /\ journal[cur] # NoRecord
  BY WorkFacts
<1>3. journal'[cur] # NoRecord /\ journal'[cur].state = to
  BY <1>1, <1>2, TransitionEffect
<1> QED
  BY <1>3 DEF Active, ActiveStates

\* Executing, from the record on.
LEMMA ExecuteKnows ==
  ASSUME IInv,
         \/ CheckConfig \/ WriteConfig \/ FailConfig \/ MarkConfigCommitted
         \/ CheckDrift \/ MarkDrift \/ CommitBinding \/ MarkBindingCommitted \/ Finish
  PROVE  HolderKnows'
<1>1. pc \in Journaled
  BY DEF CheckConfig, WriteConfig, FailConfig, MarkConfigCommitted, CheckDrift,
         MarkDrift, CommitBinding, MarkBindingCommitted, Finish,
         Journaled, Executing, Undoing, Finishing
<1>2. /\ At = pc /\ Active(cur)
      /\ NewRef(work) \in Ids \cup {NoRef} /\ OldRef(work) \in Ids \cup {NoRef}
  BY <1>1, WorkFacts, RefType
<1>3. /\ pc \in Executing \cup Undoing => PreCommit(work)
      /\ pc \in Finishing => Committed(work)
      /\ pc \in Executing => mode = "execute"
      /\ pc \in Executing \/ (pc = "config_committed" /\ mode = "execute") =>
           (NewRef(work) # NoRef => gateway[NewRef(work)].status = "live")
  BY <1>2 DEF IInv, HolderKnows, Position, PreparedIsLive, HolderOK
\* What a config write that failed leads to.
<1>4. ASSUME ConfigFailure, pc \in Executing, UNCHANGED <<bindings, journal>>
      PROVE  HolderKnows'
  <2>1. CASE Release
    BY <2>1, ReleaseKnows
  <2>2. CASE Revoke(NewRef(work), "fail_config")
    <3>1. Active(cur)'
      BY <1>2, <1>4, <2>2, RevokeTarget DEF Active
    <3> QED
      BY <1>1, <1>2, <1>3, <1>4, <2>2, <3>1, NewRefUnbound, RevokeKnows
  <2> QED
    BY <1>4, <2>1, <2>2 DEF ConfigFailure
<1>5. CASE CheckConfig
  <2>1. CASE Goto("config_rename")
    <3>1. Active(cur)'
      BY <1>2, <1>5, <2>1 DEF CheckConfig, durable, Goto, Active
    <3> QED
      BY <1>1, <1>3, <1>5, <2>1, <3>1, GotoKnows
         DEF CheckConfig, durable, Journaled, Executing, Undoing, Finishing
  <2> QED
    BY <1>4, <1>5, <2>1 DEF CheckConfig, durable, Executing
<1>6. CASE WriteConfig
  <2>1. CASE Goto("config_committed")
    <3>1. Active(cur)'
      BY <1>2, <1>6, <2>1 DEF WriteConfig, Goto, Active
    <3> QED
      BY <1>1, <1>3, <1>6, <2>1, <3>1, GotoKnows
         DEF WriteConfig, Journaled, Executing, Undoing, Finishing
  <2> QED
    BY <1>4, <1>6, <2>1 DEF WriteConfig, Executing
<1>7. CASE FailConfig \/ MarkDrift
  BY <1>7, ReleaseKnows DEF FailConfig, MarkDrift
<1>8. CASE MarkConfigCommitted
  <2>1. Transition(cur, "ConfigCommitted", "none") /\ UNCHANGED <<bindings, gateway>>
    BY <1>8 DEF MarkConfigCommitted
  <2>2. Active(cur)'
    BY <1>1, <1>8, <2>1, TransitionKeepsActive
       DEF MarkConfigCommitted, Goto, ActiveStates, Errors
  <2>3. IF mode = "execute" THEN PreCommit(work) ELSE Committed(work)
    BY <1>8 DEF MarkConfigCommitted, IInv, HolderKnows, Position
  <2>4. mode \in {"execute", "recover"}
    BY DEF IInv, TypeOK
  <2>5. PICK label \in {"binding_committed", "binding_cas", "drift_check"} :
          /\ Goto(label)
          /\ label = "binding_committed" <=> mode = "recover"
    BY <1>8 DEF MarkConfigCommitted
  <2>6. /\ label \in Journaled \ {"recover"} /\ label \notin Undoing
        /\ label # "config_committed"
        /\ label \in Executing <=> label # "binding_committed"
        /\ label \in Finishing => label = "binding_committed"
    BY DEF Journaled, Executing, Undoing, Finishing
  <2>7. label \in Executing => mode = "execute" /\ PreCommit(work) /\
          (NewRef(work) # NoRef => gateway[NewRef(work)].status = "live")
    BY <1>3, <1>8, <2>3, <2>4, <2>5, <2>6 DEF MarkConfigCommitted
  <2>8. label \in Finishing => Committed(work)
    BY <2>3, <2>5, <2>6
  <2> QED
    BY <1>1, <2>1, <2>2, <2>5, <2>6, <2>7, <2>8, GotoKnows
<1>9. CASE CheckDrift
  <2>1. UNCHANGED <<bindings, journal, gateway>> /\ pc \in Executing
    BY <1>9 DEF CheckDrift, durable, Executing
  <2>2. CASE Goto("binding_cas")
    <3>1. Active(cur)'
      BY <1>2, <2>1, <2>2 DEF Goto, Active
    <3> QED
      BY <1>1, <1>3, <2>1, <2>2, <3>1, GotoKnows
         DEF Journaled, Executing, Undoing, Finishing
  <2>3. CASE Revoke(NewRef(work), "drift_manual")
    <3>1. Active(cur)'
      BY <1>2, <2>1, <2>3, RevokeTarget DEF Active
    <3> QED
      BY <1>1, <1>2, <1>3, <2>1, <2>3, <3>1, NewRefUnbound, RevokeKnows
  <2> QED
    BY <1>9, <2>2, <2>3 DEF CheckDrift
<1>10. CASE CommitBinding
  <2>1. /\ UNCHANGED <<mode, cur, work, journal, gateway>> /\ pc' = "binding_committed"
        /\ next' = "idle" /\ At' = pc'
    BY <1>10 DEF CommitBinding, Goto, At, Revoking
  <2>2. bindings'[work.profile] = work.prepared
    BY <1>1, <1>10, WorkFacts DEF CommitBinding, IInv, TypeOK
  <2>3. Active(cur)'
    BY <1>2, <2>1 DEF Active
  <2>4. Position'
    BY <2>1, <2>2 DEF Position, Committed, Executing, Undoing, Finishing
  <2>5. PreparedIsLive' /\ RevokedIsUnbound'
    BY <2>1 DEF PreparedIsLive, RevokedIsUnbound, Executing
  <2> QED
    BY <1>1, <2>1, <2>3, <2>4, <2>5, OperationKnows
       DEF Journaled, Executing, Finishing, Returns
<1>11. CASE MarkBindingCommitted
  <2>1. Transition(cur, "BindingCommitted", "none") /\ UNCHANGED bindings
          /\ Revoke(OldRef(work), "finish") /\ pc \in Finishing
    BY <1>11 DEF MarkBindingCommitted, Finishing
  <2>2. Active(cur)'
    BY <1>1, <2>1, RevokeTarget, TransitionKeepsActive DEF ActiveStates, Errors
  <2> QED
    BY <1>1, <1>2, <1>3, <2>1, <2>2, OldRefUnbound, RevokeKnows
<1>12. CASE Finish
  BY <1>12, RecordEnds DEF Finish
<1> QED
  BY <1>5, <1>6, <1>7, <1>8, <1>9, <1>10, <1>11, <1>12

\* The steps of a recovery.
LEMMA RecoverKnows ==
  ASSUME IInv, StartRecovery \/ Recover
  PROVE  HolderKnows'
<1>1. CASE StartRecovery
  <2>1. pc' = "recover_next" /\ mode' = "recover" /\ At' = pc' /\ UNCHANGED next
    BY <1>1 DEF StartRecovery, At, Revoking
  <2> QED
    BY <2>1 DEF IInv, HolderKnows, HolderOK, WorkIsJournaled, WorkIsNew, Position,
          PreparedIsLive, RevokedIsUnbound, Journaled, Executing, Undoing, Finishing,
          BeforeJournal, Revoking
<1>2. CASE RecoverNext
  <2>1. CASE Release
    BY <2>1, ReleaseKnows
  <2>2. ASSUME NEW o \in Ids, Active(o), pc' = "recover", cur' = o, work' = journal[o],
               UNCHANGED <<mode, next>>, UNCHANGED durable, pc = "recover_next"
        PROVE  HolderKnows'
    <3>1. At' = "recover"
      BY <2>2 DEF At, Revoking
    <3>2. work' \in Records /\ journal' = journal
      BY <2>2 DEF Active, IInv, TypeOK, durable
    <3>3. HolderOK'
      BY <2>2, <3>2 DEF IInv, HolderKnows, HolderOK, Journaled, BeforeJournal,
            Executing, Revoking
    <3>4. WorkIsJournaled'
      BY <2>2, <3>1, <3>2 DEF WorkIsJournaled, Active, SameOperation
    <3>5. WorkIsNew' /\ Position' /\ PreparedIsLive' /\ RevokedIsUnbound'
      BY <2>2, <3>1 DEF WorkIsNew, Position, PreparedIsLive, RevokedIsUnbound,
            BeforeJournal, Executing, Undoing, Finishing
    <3> QED
      BY <3>3, <3>4, <3>5 DEF HolderKnows
  <2> QED
    BY <1>2, <2>1, <2>2 DEF RecoverNext
<1>3. CASE RecoverGiveUp
  BY <1>3, ReleaseKnows DEF RecoverGiveUp
<1>4. CASE RecoverForward \/ RecoverBack
  <2>1. /\ pc = "recover" /\ mode = "recover" /\ pc \in Journaled
        /\ UNCHANGED <<bindings, journal, gateway>>
    BY <1>4 DEF RecoverForward, RecoverBack, durable, Journaled, IInv, HolderKnows, HolderOK
  <2>2. /\ Active(cur)
        /\ NewRef(work) \in Ids \cup {NoRef} /\ OldRef(work) \in Ids \cup {NoRef}
    BY <2>1, WorkFacts, RefType
  <2>3. ASSUME NEW label, Goto(label)
        PROVE  Active(cur)'
    BY <2>1, <2>2, <2>3 DEF Goto, Active
  <2>4. ASSUME NEW r, NEW label \in {"finish", "rolled_back"}, Revoke(r, label)
        PROVE  Active(cur)'
    BY <2>1, <2>2, <2>4, RevokeTarget DEF Active
  <2>5. CASE RecoverForward
    <3>1. Committed(work)
      BY <2>5 DEF RecoverForward
    <3>2. CASE Goto("config_committed") \/ Goto("binding_committed") \/ Goto("finish")
      BY <2>1, <2>3, <3>1, <3>2, GotoKnows
         DEF Journaled, Executing, Undoing, Finishing
    <3>3. CASE Revoke(OldRef(work), "finish")
      BY <2>1, <2>2, <2>4, <3>1, <3>3, OldRefUnbound, RevokeKnows
    <3> QED
      BY <2>5, <3>2, <3>3 DEF RecoverForward
  <2>6. CASE RecoverBack
    <3>1. PreCommit(work)
      BY <2>6 DEF RecoverBack, Conflict
    <3>2. CASE Goto("rollback_check")
      BY <2>1, <2>3, <3>1, <3>2, GotoKnows
         DEF Journaled, Executing, Undoing, Finishing
    <3>3. CASE Revoke(NewRef(work), "rolled_back")
      BY <2>1, <2>2, <2>4, <3>1, <3>3, NewRefUnbound, RevokeKnows
    <3> QED
      BY <2>6, <3>2, <3>3 DEF RecoverBack
  <2> QED
    BY <1>4, <2>5, <2>6
<1>5. CASE CheckRollback \/ WriteRollback
  <2>1. pc \in Journaled /\ pc \in Undoing /\ UNCHANGED <<bindings, journal, gateway>>
    BY <1>5 DEF CheckRollback, WriteRollback, durable, Journaled, Undoing
  <2>2. /\ Active(cur) /\ PreCommit(work)
        /\ NewRef(work) \in Ids \cup {NoRef}
    BY <2>1, WorkFacts, RefType DEF IInv, HolderKnows, Position
  <2>3. CASE Release
    BY <2>3, ReleaseKnows
  <2>4. CASE Goto("rollback_rename")
    <3>1. Active(cur)'
      BY <2>1, <2>2, <2>4 DEF Goto, Active
    <3> QED
      BY <2>1, <2>2, <2>4, <3>1, GotoKnows DEF Journaled, Executing, Undoing, Finishing
  <2>5. CASE Revoke(NewRef(work), "rolled_back")
    <3>1. Active(cur)'
      BY <2>1, <2>2, <2>5, RevokeTarget DEF Active
    <3> QED
      BY <2>1, <2>2, <2>5, <3>1, NewRefUnbound, RevokeKnows
  <2> QED
    BY <1>5, <2>3, <2>4, <2>5 DEF CheckRollback, WriteRollback
<1>6. CASE MarkRolledBack
  BY <1>6, RecordEnds DEF MarkRolledBack
<1> QED
  BY <1>1, <1>2, <1>3, <1>4, <1>5, <1>6 DEF Recover
\* Every step leaves the holder with what it relies on.
LEMMA HolderStep ==
  ASSUME IInv, [Next]_vars
  PROVE  HolderKnows'
<1>1. ASSUME UNCHANGED <<bindings, journal, gateway, holder>>
      PROVE  HolderKnows'
  BY <1>1, OthersKnow DEF IInv
<1>2. CASE \/ \E o \in Ids, p \in Profiles, v \in Providers : PlanAttach(o, p, v)
           \/ \E o \in Ids, p \in Profiles : PlanDetach(o, p)
           \/ \E p \in Profiles : EditConfig(p)
           \/ UNCHANGED vars
  BY <1>1, <1>2 DEF PlanAttach, PlanDetach, EditConfig, durable, holder, vars
<1>3. CASE \E o \in Ids : BeginAttach(o) \/ BeginDetach(o)
  BY <1>3, BeginKnows
<1>4. CASE PrepareCredential \/ PrepareGatewayBinding
  BY <1>4, PrepareKnows
<1>5. CASE CreateJournal
  BY <1>5, CreateKnows
<1>6. CASE \/ CheckConfig \/ WriteConfig \/ FailConfig \/ MarkConfigCommitted
           \/ CheckDrift \/ MarkDrift \/ CommitBinding \/ MarkBindingCommitted \/ Finish
  BY <1>6, ExecuteKnows
<1>7. CASE RevokeStore \/ RevokeCredential \/ MarkRevocationPending
  BY <1>7, RevocationKnows
     DEF RevokeStore, RevokeCredential, MarkRevocationPending, Revoking
<1>8. CASE StartRecovery \/ Recover
  BY <1>8, RecoverKnows
<1>9. CASE Die
  BY <1>9, ReleaseKnows DEF Die
<1> QED
  BY <1>2, <1>3, <1>4, <1>5, <1>6, <1>7, <1>8, <1>9 DEF Next, Execute

-----------------------------------------------------------------------------
(* The two properties that the invariant is for. *)

\* Every step keeps it that recovery knows the binding it is looking at.
LEMMA BindingIsKnownStep ==
  ASSUME IInv, [Next]_vars
  PROVE  BindingIsKnown'
<1> DEFINE Known(r) == \/ Committed(r)
                       \/ PreCommit(r) /\ r.state # "BindingCommitted"
<1> SUFFICES ASSUME NEW o \in Ids, journal'[o] # NoRecord
             PROVE  /\ journal'[o].error # "binding_conflict"
                    /\ Active(o)' => Known(journal[o])'
  BY DEF BindingIsKnown, Committed, PreCommit
\* Records other than the one in hand, and that one when no record changes.
<1>1. CASE journal'[o] = journal[o]
  <2>1. /\ journal[o].error # "binding_conflict"
        /\ Active(o) => Known(journal[o])
        /\ Active(o)' => Active(o)
    BY <1>1 DEF IInv, BindingIsKnown, Active
  <2>2. CASE UNCHANGED bindings
    BY <1>1, <2>1, <2>2 DEF Committed, PreCommit
  <2>3. CASE CommitBinding
    <3>1. /\ pc \in Journaled
          /\ bindings' = [bindings EXCEPT ![work.profile] = work.prepared]
      BY <2>3 DEF CommitBinding, Journaled, Executing
    <3>2. Active(cur) /\ cur \in Ids /\ work.profile = journal[cur].profile
            /\ work.prepared = journal[cur].prepared /\ work.profile \in Profiles
      BY <3>1, WorkFacts DEF SameOperation
    <3>3. CASE o = cur
      <4>1. bindings'[journal[o].profile] = journal[o].prepared
        BY <3>1, <3>2, <3>3 DEF IInv, TypeOK
      <4> QED
        BY <1>1, <2>1, <4>1 DEF Committed
    <3>4. CASE Active(o) /\ o # cur
      <4>1. journal[o].profile # work.profile
        BY <3>2, <3>4 DEF IInv, OneActivePerProfile
      <4>2. journal[o].profile \in Profiles
        BY <1>1, RecordFields DEF IInv, TypeOK
      <4>3. bindings'[journal[o].profile] = bindings[journal[o].profile]
        BY <3>1, <4>1, <4>2 DEF IInv, TypeOK
      <4> QED
        BY <1>1, <2>1, <4>3 DEF Committed, PreCommit
    <3> QED
      BY <1>1, <2>1, <3>3, <3>4
  <2> QED
    BY <2>2, <2>3, BindingsSteps
\* The record in hand, when it makes a transition.
<1>2. ASSUME pc \in Journaled, o = cur,
             NEW to \in States, NEW error \in Errors,
             Transition(cur, to, error), Recorded(to, error), UNCHANGED bindings
      PROVE  /\ journal'[o].error # "binding_conflict"
             /\ Active(o)' => Known(journal[o])'
  <2>1. /\ Active(cur) /\ cur \in Ids /\ journal[cur] # NoRecord
        /\ SameOperation(work, journal[cur])
    BY <1>2, WorkFacts
  <2>2. journal \in [Ids -> Records \cup {NoRecord}]
    BY DEF IInv, TypeOK
  <2>3. /\ journal'[cur].state = to /\ journal'[cur].error = error
        /\ SameOperation(work, journal'[cur])
    BY <1>2, <2>1, <2>2, TransitionEffect DEF SameOperation
  <2>4. Committed(work) \/ PreCommit(work)
    BY <2>1 DEF IInv, BindingIsKnown, Committed, PreCommit, SameOperation
  <2>5. bindings' = bindings
    BY <1>2
  <2> QED
    BY <1>2, <2>3, <2>4, <2>5 DEF Committed, PreCommit, SameOperation, Recorded
\* The record in hand, when it is created.
<1>3. CASE /\ journal' = [journal EXCEPT ![cur] = work] /\ o = cur /\ pc = "journal"
           /\ UNCHANGED bindings
  <2>1. journal'[o] = work /\ work.state = "Prepared" /\ work.error = "none" /\ PreCommit(work)
    BY <1>3 DEF IInv, TypeOK, HolderKnows, WorkIsNew, BeforeJournal
  <2> QED
    BY <1>3, <2>1 DEF PreCommit, Committed
<1>4. ASSUME pc \in Journaled, o # cur,
             NEW to \in States, NEW error \in Errors, Transition(cur, to, error)
      PROVE  journal'[o] = journal[o]
  BY <1>4, WorkFacts, TransitionEffect DEF IInv, TypeOK
<1>5. CASE journal' = [journal EXCEPT ![cur] = work] /\ o # cur
  BY <1>1, <1>5 DEF IInv, TypeOK
<1> QED
  BY <1>1, <1>2, <1>3, <1>4, <1>5, JournalSteps

\* No step revokes the Gateway binding that a profile is bound to.
LEMMA RouteIsLiveStep ==
  ASSUME IInv, [Next]_vars
  PROVE  BoundRouteIsLive'
<1> SUFFICES ASSUME NEW p \in Profiles, RefOf(bindings'[p]) # NoRef
             PROVE  gateway'[RefOf(bindings'[p])].status = "live"
  BY DEF BoundRouteIsLive, RefOf
<1>1. CASE CommitBinding
  <2>1. pc = "binding_cas" /\ pc \in Journaled /\ UNCHANGED gateway
          /\ bindings' = [bindings EXCEPT ![work.profile] = work.prepared]
    BY <1>1 DEF CommitBinding, Journaled, Executing
  <2>2. CASE p = work.profile
    BY <2>1, <2>2 DEF IInv, TypeOK, HolderKnows, PreparedIsLive, Executing, NewRef
  <2>3. CASE p # work.profile
    BY <2>1, <2>3 DEF IInv, TypeOK, BoundRouteIsLive
  <2> QED
    BY <2>2, <2>3
<1>2. CASE UNCHANGED bindings
  <2>1. gateway[RefOf(bindings[p])].status = "live" /\ RefOf(bindings[p]) \in Ids
    BY <1>2, BindingFields DEF IInv, TypeOK, BoundRouteIsLive, RefOf
  <2>2. CASE UNCHANGED gateway
    BY <1>2, <2>1, <2>2
  <2>3. CASE PrepareCredential \/ PrepareGatewayBinding
    BY <1>2, <2>1, <2>3
       DEF PrepareCredential, PrepareGatewayBinding, IInv, TypeOK, GatewayBindings
  <2>4. CASE RevokeStore
    <3>1. RefOf(bindings[p]) # ref
      BY <1>2, <2>4 DEF RevokeStore, IInv, HolderKnows, RevokedIsUnbound
    <3> QED
      BY <1>2, <2>1, <2>4, <3>1 DEF RevokeStore, IInv, TypeOK, GatewayBindings
  <2>5. CASE RevokeCredential \/ MarkRevocationPending
    BY <1>2, <2>1, <2>5
       DEF RevokeCredential, MarkRevocationPending, IInv, TypeOK, GatewayBindings
  <2> QED
    BY <2>2, <2>3, <2>4, <2>5
       DEF Next, Execute, Recover, PlanAttach, PlanDetach, BeginAttach, BeginDetach,
           CreateJournal, CheckConfig, WriteConfig, FailConfig, MarkConfigCommitted,
           CheckDrift, MarkDrift, CommitBinding, MarkBindingCommitted, Finish,
           StartRecovery, RecoverNext, RecoverGiveUp, RecoverForward, RecoverBack,
           CheckRollback, WriteRollback, MarkRolledBack, Die, EditConfig, durable, vars
<1> QED
  BY <1>1, <1>2, BindingsSteps

-----------------------------------------------------------------------------
(* The theorems. *)

\* The inductive invariant holds before LAM has done anything.
LEMMA InitInv ==
  ASSUME Init
  PROVE  IInv
<1>1. /\ pc = "idle" /\ At = "idle" /\ next = "idle" /\ mode = "execute"
      /\ bindings = [p \in Profiles |-> NoBinding]
      /\ journal = [o \in Ids |-> NoRecord]
  BY DEF Init, At, Revoking
<1>2. TypeOK
  BY InitTypes
<1>3. HolderKnows
  BY <1>1 DEF HolderKnows, HolderOK, WorkIsJournaled, WorkIsNew, Position,
        PreparedIsLive, RevokedIsUnbound, Journaled, Executing, Undoing, Finishing,
        BeforeJournal, Revoking
<1>4. OneActivePerProfile /\ RecordsReferWell /\ BindingIsKnown
  BY <1>1 DEF OneActivePerProfile, RecordsReferWell, BindingIsKnown, Active
<1>5. BoundByItsOperation /\ BoundRouteIsLive
  BY <1>1 DEF BoundByItsOperation, BoundRouteIsLive, RefOf
<1> QED
  BY <1>2, <1>3, <1>4, <1>5 DEF IInv

\* Every step, a crash or a foreign edit included, keeps the inductive
\* invariant.
LEMMA InductiveStep ==
  ASSUME IInv, [Next]_vars
  PROVE  IInv'
<1>1. TypeOK'
  BY TypeStep DEF IInv, HolderKnows
<1> QED
  BY <1>1, HolderStep, OneActiveStep, RefersWellStep, BoundStep, BindingIsKnownStep,
     RouteIsLiveStep DEF IInv

\* The invariant holds in every state, for any set of profiles, operations,
\* providers and configs and any number of crashes, edits and faults: what
\* the lock holder relies on and how the three stores refer to each other.
THEOREM Invariance == Spec => []IInv
<1>1. Init => IInv
  BY InitInv
<1>2. IInv /\ [Next]_vars => IInv'
  BY InductiveStep
<1> QED
  BY <1>1, <1>2, PTL DEF Spec

\* Every variable keeps its type: in particular every record that
\* execute_attach and execute_detach write has the shape that validate_record
\* demands of its kind.
THEOREM TypeCorrect == Spec => []TypeOK
BY Invariance, PTL DEF IInv

\* create_journal_locked keeps a second unfinished operation of a profile
\* out, and no crash, recovery or retry lets one in.
THEOREM OneOperationPerProfile == Spec => []OneActivePerProfile
BY Invariance, PTL DEF IInv

\* recover_record never meets a binding that is neither the one the record
\* started from nor the one it aims at, whatever crashed before it.
THEOREM RecoveryKnowsBinding == Spec => []BindingIsKnown
BY Invariance, PTL DEF IInv

\* The Gateway binding that a profile is bound to is live: it is prepared
\* before the binding store names it, and revoked only when that no longer
\* does.
THEOREM RouteStaysLive == Spec => []BoundRouteIsLive
BY Invariance, PTL DEF IInv
-----------------------------------------------------------------------------
(* The transaction implements RouteSwitch. *)

\* The operation that RouteSwitch sees is read off the journal record.
LEMMA OpIsOp ==
  ASSUME NEW r \in Records
  PROVE  /\ Op(r) # NoRecord
         /\ Op(r).profile = r.profile /\ Op(r).from = r.previous /\ Op(r).to = r.prepared
         /\ Op(r).phase = Phase(r.state)
         /\ Phase(r.state) = "running" <=> r.state \in ActiveStates
<1>1. Phase(r.state) \in {"running", "done", "undone", "stuck"}
  BY DEF Phase
<1>2. Phase(r.state) = "running" <=> r.state \in ActiveStates
  BY DEF Phase, ActiveStates
<1>3. Op(r) \in [profile : Profiles, from : Bindings \cup {NoBinding},
                to : Bindings \cup {NoBinding},
                phase : {"running", "done", "undone", "stuck"}]
  BY <1>1, RecordFields DEF Op
<1> QED
  BY <1>2, <1>3, SentinelAssumption DEF Op

\* A record in the journal is an operation, running while it is active.
LEMMA OpsOf ==
  ASSUME IInv, NEW o \in Ids
  PROVE  /\ journal[o] = NoRecord => Ops[o] = NoRecord
         /\ journal[o] # NoRecord => journal[o] \in Records /\ Ops[o] = Op(journal[o])
         /\ Abstract!Running(o) <=> Active(o)
<1>1. journal[o] \in Records \cup {NoRecord}
  BY DEF IInv, TypeOK
<1> QED
  BY <1>1, OpIsOp DEF Ops, Abstract!Running, Active

\* Every step is one of RouteSwitch, or is none at all there.
LEMMA RefinesStep ==
  ASSUME IInv, [Next]_vars
  PROVE  [Abstract!SNext]_<<bindings, Ops>>
<1>1. journal \in [Ids -> Records \cup {NoRecord}]
        /\ journal' \in [Ids -> Records \cup {NoRecord}]
  BY InductiveStep DEF IInv, TypeOK
<1>2. CASE UNCHANGED <<journal, bindings>>
  BY <1>2 DEF Ops
\* The write of the binding store switches the route.
<1>3. CASE CommitBinding
  <2>1. /\ pc \in Journaled /\ pc \in Executing /\ UNCHANGED journal
        /\ bindings' = [bindings EXCEPT ![work.profile] = work.prepared]
    BY <1>3 DEF CommitBinding, Journaled, Executing
  <2>2. /\ cur \in Ids /\ Active(cur) /\ journal[cur] # NoRecord
        /\ SameOperation(work, journal[cur]) /\ At = pc
    BY <2>1, WorkFacts
  <2>3. bindings[work.profile] = work.previous
    BY <2>1, <2>2 DEF IInv, HolderKnows, Position, PreCommit
  <2>4. /\ Abstract!Running(cur)
        /\ Ops[cur].profile = work.profile /\ Ops[cur].from = work.previous
        /\ Ops[cur].to = work.prepared
    BY <2>2, OpsOf, OpIsOp DEF SameOperation
  <2>5. Ops' = Ops
    BY <2>1 DEF Ops
  <2>6. Abstract!Switch(cur)
    BY <2>1, <2>3, <2>4, <2>5 DEF Abstract!Switch
  <2> QED
    BY <2>2, <2>6 DEF Abstract!SNext
\* A transition ends an operation or means nothing.
<1>4. ASSUME pc \in Journaled, UNCHANGED bindings,
             NEW to \in States, NEW error \in Errors,
             Transition(cur, to, error), Recorded(to, error)
      PROVE  [Abstract!SNext]_<<bindings, Ops>>
  <2>1. /\ cur \in Ids /\ Active(cur) /\ journal[cur] # NoRecord
        /\ SameOperation(work, journal[cur])
    BY <1>4, WorkFacts
  <2>2. /\ journal'[cur] # NoRecord /\ journal'[cur].state = to
        /\ SameOperation(work, journal'[cur])
        /\ \A o \in Ids \ {cur} : journal'[o] = journal[o]
    BY <1>1, <1>4, <2>1, TransitionEffect DEF SameOperation
  <2>3. Ops[cur] = Op(journal[cur]) /\ Abstract!Running(cur)
    BY <2>1, OpsOf
  <2>4. Op(journal'[cur]) = [Op(journal[cur]) EXCEPT !.phase = Phase(to)]
    BY <2>1, <2>2 DEF Op, SameOperation
  <2>5. Ops' = [Ops EXCEPT ![cur].phase = Phase(to)]
    BY <2>1, <2>2, <2>3, <2>4 DEF Ops
  <2>6. CASE to \in ActiveStates
    <3>1. Phase(to) = Ops[cur].phase
      <4>1. Phase(to) = "running"
        BY <2>6 DEF Phase, ActiveStates
      <4>2. Ops[cur].phase = "running"
        BY <2>3 DEF Abstract!Running
      <4> QED
        BY <4>1, <4>2
    <3>2. Op(journal'[cur]) = Op(journal[cur])
      BY <2>3, <2>4, <3>1 DEF Op
    <3>3. Ops' = Ops
      BY <2>1, <2>2, <3>2 DEF Ops
    <3> QED
      BY <1>4, <3>3
  <2>7. CASE to \notin ActiveStates
    <3>1. Phase(to) \in {"done", "undone", "stuck"}
      BY <2>7 DEF Phase
    <3>2. /\ Phase(to) = "done" => Committed(work)
          /\ Phase(to) = "undone" => PreCommit(work)
      BY <1>4, <2>7 DEF Phase, Recorded
    <3>3. /\ Ops[cur].profile = work.profile /\ Ops[cur].from = work.previous
          /\ Ops[cur].to = work.prepared
      BY <2>1, <2>3 DEF Op, SameOperation
    <3>4. Abstract!End(cur, Phase(to))
      BY <1>4, <2>3, <2>5, <3>2, <3>3 DEF Abstract!End, Committed, PreCommit
    <3> QED
      BY <2>1, <3>1, <3>4 DEF Abstract!SNext
  <2> QED
    BY <2>6, <2>7
\* The record of a new operation accepts it.
<1>5. CASE /\ pc = "journal" /\ UNCHANGED bindings
           /\ ~ProfileBusy(work.profile)
           /\ journal' = [journal EXCEPT ![cur] = work]
  <2>1. /\ cur \in Ids /\ work \in Records /\ journal[cur] = NoRecord
        /\ work.state = "Prepared" /\ PreCommit(work)
        /\ work.prepared # work.previous
    BY <1>5 DEF IInv, HolderKnows, HolderOK, WorkIsNew, BeforeJournal
  <2>2. journal'[cur] = work /\ work # NoRecord
          /\ \A o \in Ids \ {cur} : journal'[o] = journal[o]
    BY <1>1, <1>5, <2>1, SentinelAssumption
  <2>3. Ops[cur] = NoRecord /\ Ops'[cur] = Op(work)
    BY <2>1, <2>2 DEF Ops
  <2>4. Ops' = [Ops EXCEPT ![cur] = Ops'[cur]]
    BY <2>1, <2>2 DEF Ops
  <2>5. /\ Op(work) # NoRecord /\ Op(work).profile = work.profile
        /\ work.profile \in Profiles
        /\ Op(work).from = bindings[work.profile] /\ Op(work).to # Op(work).from
        /\ Op(work).phase = "running"
    BY <2>1, OpIsOp, RecordFields DEF PreCommit, ActiveStates
  <2>6. ASSUME NEW o \in Ids, Abstract!Running(o)
        PROVE  Ops[o].profile # Op(work).profile
    <3>1. Active(o) /\ journal[o] # NoRecord
      BY <2>6, OpsOf DEF Active
    <3>2. Ops[o].profile = journal[o].profile
      BY <3>1, OpsOf, OpIsOp
    <3> QED
      BY <1>5, <2>5, <3>1, <3>2 DEF ProfileBusy
  <2>7. Abstract!Accept(cur)
    BY <1>5, <2>3, <2>4, <2>5, <2>6 DEF Abstract!Accept
  <2> QED
    BY <2>1, <2>7 DEF Abstract!SNext
<1> QED
  <2>1. UNCHANGED bindings \/ CommitBinding
    BY BindingsSteps
  <2> QED
    BY <1>2, <1>3, <1>4, <1>5, <2>1, JournalSteps

\* Attach, rebind and detach implement RouteSwitch: interrupted anywhere and
\* recovered any number of times, execute_attach, execute_detach and
\* recover_pending switch the route of a profile once or never, and report it
\* accordingly.
THEOREM Refinement == Spec => RouteSwitchSpec
<1>1. Init => Abstract!SInit
  BY DEF Init, Abstract!SInit, Ops
<1>2. IInv /\ [Next]_vars => [Abstract!SNext]_<<bindings, Ops>>
  BY RefinesStep
<1> QED
  BY <1>1, <1>2, Invariance, PTL DEF Spec, RouteSwitchSpec, Abstract!SSpec
-----------------------------------------------------------------------------
(* A finished operation leaves no live Gateway binding that no profile is  *)
(* bound to: the last write of the journal comes after the revocation it   *)
(* promises, and nothing makes a revoked binding live again.               *)

Revoked(r) == r # NoRef => gateway[r].status = "revoked"

\* What is revoked before the record is completed, or rolled back.
Superseded == IF next = "finish" THEN OldRef(work) ELSE NewRef(work)

CleaningUp ==
  /\ pc \in Revoking /\ next \in {"finish", "rolled_back"} => ref = Superseded
  /\ pc \in {"revoke_credential", "revoke_pending"} => Revoked(ref)
  /\ pc = "finish" => Revoked(OldRef(work))
  /\ pc = "rolled_back" => Revoked(NewRef(work))
-----------------------------------------------------------------------------
(* Gateway bindings *)

\* Only the preparation of a binding makes one live, and it is not the
\* binding of a record.
LEMMA StaysRevoked ==
  ASSUME IInv, [Next]_vars, NEW r \in Ids, gateway[r].status = "revoked",
         pc = "gateway_store" => r # cur
  PROVE  gateway'[r].status = "revoked"
<1>1. gateway \in [Ids -> GatewayBindings]
  BY DEF IInv, TypeOK
<1>2. CASE UNCHANGED gateway
  BY <1>2
<1>3. CASE PrepareCredential \/ PrepareGatewayBinding
  BY <1>1, <1>3 DEF PrepareCredential, PrepareGatewayBinding, GatewayBindings
<1>4. CASE RevokeStore \/ RevokeCredential \/ MarkRevocationPending
  BY <1>1, <1>4 DEF RevokeStore, RevokeCredential, MarkRevocationPending, GatewayBindings
<1> QED
  BY <1>2, <1>3, <1>4
     DEF Next, Execute, Recover, PlanAttach, PlanDetach, BeginAttach, BeginDetach,
         CreateJournal, CheckConfig, WriteConfig, FailConfig, MarkConfigCommitted,
         CheckDrift, MarkDrift, CommitBinding, MarkBindingCommitted, Finish,
         StartRecovery, RecoverNext, RecoverGiveUp, RecoverForward, RecoverBack,
         CheckRollback, WriteRollback, MarkRolledBack, Die, EditConfig, durable, vars

LEMMA RecordStaysRevoked ==
  ASSUME IInv, [Next]_vars, NEW o \in Ids, journal[o] # NoRecord,
         NEW r \in {NewRef(journal[o]), OldRef(journal[o])}, Revoked(r)
  PROVE  Revoked(r)'
<1>1. journal[o] \in Records
  BY DEF IInv, TypeOK
<1>2. r \in Ids \cup {NoRef}
  BY <1>1, RefType
<1>3. pc = "gateway_store" => journal[cur] = NoRecord
  BY DEF IInv, HolderKnows, WorkIsNew, BeforeJournal
<1>4. RefersWell(o, journal[o])
  BY DEF IInv, RecordsReferWell
<1>5. pc = "gateway_store" /\ r # NoRef => r # cur
  BY <1>3, <1>4 DEF RefersWell
<1>6. CASE r = NoRef
  BY <1>6 DEF Revoked
<1>7. CASE r # NoRef
  BY <1>2, <1>5, <1>7, StaysRevoked DEF Revoked
<1> QED
  BY <1>6, <1>7
-----------------------------------------------------------------------------
(* The lock holder *)

LEMMA RevokeCleans ==
  ASSUME NEW r, NEW label, Revoke(r, label),
         label \in {"idle", "fail_config", "drift_manual", "finish", "rolled_back"},
         label = "finish" => r = OldRef(work),
         label = "rolled_back" => r = NewRef(work)
  PROVE  CleaningUp'
<1>1. CASE r = NoRef /\ label = "idle"
  BY <1>1 DEF Revoke, Continue, Release, CleaningUp, Revoking
<1>2. CASE r = NoRef /\ label # "idle"
  <2>1. pc' = label /\ UNCHANGED work
    BY <1>2 DEF Revoke, Continue, Goto
  <2> QED
    BY <1>2, <2>1 DEF CleaningUp, Revoking, Revoked
<1>3. CASE r # NoRef
  <2>1. pc' = "revoke_store" /\ ref' = r /\ next' = label /\ UNCHANGED work
    BY <1>3 DEF Revoke
  <2> QED
    BY <2>1 DEF CleaningUp, Revoking, Superseded
<1> QED
  BY <1>1, <1>2, <1>3

\* Where the holder goes otherwise.
LEMMA MovesClean ==
  ASSUME NEW label, Release \/ Goto(label) \/ Continue(label),
         label \notin Revoking \cup {"finish", "rolled_back"}
  PROVE  CleaningUp'
BY DEF Release, Goto, Continue, CleaningUp, Revoking

LEMMA CleaningStep ==
  ASSUME IInv, CleaningUp, [Next]_vars
  PROVE  CleaningUp'
<1> USE DEF Revoking
<1>1. CASE UNCHANGED <<holder, gateway>>
  BY <1>1 DEF holder, CleaningUp, Superseded, Revoked
<1>2. ASSUME NEW o \in Ids, BeginAttach(o) \/ BeginDetach(o)
      PROVE  CleaningUp'
  <2>1. pc' \in {"gateway_credential", "journal"}
    BY <1>2 DEF BeginAttach, BeginDetach, Begin
  <2> QED
    BY <2>1 DEF CleaningUp
<1>3. CASE PrepareCredential \/ PrepareGatewayBinding
  BY <1>3, MovesClean DEF PrepareCredential, PrepareGatewayBinding
<1>4. CASE CreateJournal
  BY <1>4, MovesClean, RevokeCleans DEF CreateJournal
<1>5. CASE CheckConfig
  BY <1>5, MovesClean, RevokeCleans DEF CheckConfig, ConfigFailure
<1>6. CASE WriteConfig
  BY <1>6, MovesClean, RevokeCleans DEF WriteConfig, ConfigFailure
<1>7. CASE FailConfig \/ MarkDrift \/ RecoverGiveUp
  BY <1>7, MovesClean DEF FailConfig, MarkDrift, RecoverGiveUp
<1>8. CASE MarkConfigCommitted
  BY <1>8, MovesClean DEF MarkConfigCommitted
<1>9. CASE CheckDrift
  BY <1>9, MovesClean, RevokeCleans DEF CheckDrift
<1>10. CASE CommitBinding
  BY <1>10, MovesClean DEF CommitBinding
<1>11. CASE MarkBindingCommitted
  BY <1>11, RevokeCleans DEF MarkBindingCommitted
<1>12. CASE Finish \/ MarkRolledBack
  BY <1>12, MovesClean DEF Finish, MarkRolledBack, AfterRecord
<1>13. CASE RevokeStore \/ RevokeCredential \/ MarkRevocationPending
  <2>1. /\ pc \in Revoking /\ ref \in Ids
        /\ next \in {"idle", "fail_config", "drift_manual", "finish", "rolled_back"}
        /\ gateway \in [Ids -> GatewayBindings]
        /\ ref # NoRef
    BY <1>13, SentinelAssumption, AttachAssumption
       DEF RevokeStore, RevokeCredential, MarkRevocationPending,
           IInv, HolderKnows, HolderOK, TypeOK
  <2>2. AfterRevokeError \in {"idle", "fail_config", "drift_manual"}
    BY DEF AfterRevokeError, BestEffort
  <2>3. \/ Continue(AfterRevokeError)
        \/ Continue(next) /\ gateway'[ref].status = "revoked"
        \/ pc' \in Revoking /\ gateway'[ref].status = "revoked" /\ UNCHANGED <<work, ref, next>>
    BY <1>13, <2>1 DEF RevokeStore, RevokeCredential, MarkRevocationPending,
                       CleaningUp, Revoked, GatewayBindings
  <2>4. CASE Continue(AfterRevokeError)
    BY <2>2, <2>4, MovesClean
  <2>5. CASE Continue(next) /\ gateway'[ref].status = "revoked"
    <3>1. CASE next \in {"finish", "rolled_back"}
      <4>1. ref = Superseded /\ pc' = next /\ UNCHANGED work
        BY <2>1, <2>5, <3>1 DEF CleaningUp, Continue, Goto
      <4> QED
        BY <2>5, <3>1, <4>1 DEF CleaningUp, Superseded, Revoked
    <3>2. CASE next \notin {"finish", "rolled_back"}
      BY <2>1, <2>5, <3>2, MovesClean
    <3> QED
      BY <3>1, <3>2
  <2>6. CASE pc' \in Revoking /\ gateway'[ref].status = "revoked" /\ UNCHANGED <<work, ref, next>>
    BY <2>1, <2>6 DEF CleaningUp, Superseded, Revoked
  <2> QED
    BY <2>3, <2>4, <2>5, <2>6
<1>14. CASE StartRecovery \/ RecoverNext
  <2>1. pc' \in {"idle", "recover", "recover_next"}
    BY <1>14 DEF StartRecovery, RecoverNext, Release
  <2> QED
    BY <2>1 DEF CleaningUp
<1>15. CASE RecoverForward
  <2>1. \/ Goto("config_committed") \/ Goto("binding_committed")
        \/ Revoke(OldRef(work), "finish")
    BY <1>15 DEF RecoverForward
  <2> QED
    BY <2>1, MovesClean, RevokeCleans
<1>16. CASE RecoverBack
  BY <1>16, MovesClean, RevokeCleans DEF RecoverBack
<1>17. CASE CheckRollback
  BY <1>17, MovesClean DEF CheckRollback
<1>18. CASE WriteRollback
  BY <1>18, RevokeCleans DEF WriteRollback
<1>19. CASE Die
  BY <1>19 DEF Die, Release, CleaningUp
<1> QED
  BY <1>1, <1>2, <1>3, <1>4, <1>5, <1>6, <1>7, <1>8, <1>9, <1>10, <1>11, <1>12,
     <1>13, <1>14, <1>15, <1>16, <1>17, <1>18, <1>19
     DEF Next, Execute, Recover, PlanAttach, PlanDetach, EditConfig, durable, holder, vars
-----------------------------------------------------------------------------
(* The journal *)

Finished(r) == r.state = "Completed" \/ (r.state = "RolledBack" /\ r.error = "none")

\* A record is finished by the holder that has come to the end of it.
LEMMA FinishedByHolder ==
  ASSUME IInv, [Next]_vars, NEW o \in Ids, journal'[o] # NoRecord, Finished(journal'[o])
  PROVE  \/ journal[o] # NoRecord /\ journal'[o] = journal[o]
         \/ /\ UNCHANGED gateway
            /\ journal'[o].previous = work.previous /\ journal'[o].prepared = work.prepared
            /\ \/ pc = "finish" /\ journal'[o].state = "Completed"
               \/ pc = "rolled_back" /\ journal'[o].state = "RolledBack"
<1>1. journal \in [Ids -> Records \cup {NoRecord}]
  BY DEF IInv, TypeOK
<1>2. CASE journal'[o] = journal[o]
  BY <1>2
<1>3. ASSUME pc \in Journaled, NEW to \in States, NEW error \in Errors,
             Transition(cur, to, error), journal'[o] # journal[o]
      PROVE  /\ journal'[o].state = to /\ journal'[o].error = error
             /\ journal'[o].previous = work.previous /\ journal'[o].prepared = work.prepared
  <2>1. cur \in Ids /\ journal[cur] # NoRecord /\ SameOperation(work, journal[cur])
    BY <1>3, WorkFacts
  <2>2. /\ journal'[cur].state = to /\ journal'[cur].error = error
        /\ journal'[cur].previous = journal[cur].previous
        /\ journal'[cur].prepared = journal[cur].prepared
        /\ \A o2 \in Ids \ {cur} : journal'[o2] = journal[o2]
    BY <1>1, <1>3, <2>1, TransitionEffect DEF SameOperation
  <2>3. o = cur
    BY <1>3, <2>2
  <2> QED
    BY <2>1, <2>2, <2>3 DEF SameOperation
<1>4. CASE CreateJournal /\ journal'[o] # journal[o]
  <2>1. pc = "journal" /\ cur \in Ids /\ work.state = "Prepared"
    BY <1>4 DEF CreateJournal, IInv, HolderKnows, HolderOK, WorkIsNew, BeforeJournal
  <2>2. journal' = [journal EXCEPT ![cur] = work]
    BY <1>4 DEF CreateJournal
  <2>3. journal'[o] = work
    BY <1>1, <1>4, <2>1, <2>2
  <2> QED
    BY <2>1, <2>3 DEF Finished
<1> USE DEF States, ActiveStates, Errors, Journaled, Executing, Undoing, Finishing
<1>5. CASE (FailConfig \/ MarkDrift \/ MarkConfigCommitted \/ MarkBindingCommitted)
             /\ journal'[o] # journal[o]
  BY <1>3, <1>5 DEF FailConfig, MarkDrift, MarkConfigCommitted, MarkBindingCommitted, Finished
<1>6. CASE RecoverGiveUp /\ journal'[o] # journal[o]
  <2>1. Conflict(work) \in Errors
    BY DEF Conflict
  <2> QED
    BY <1>3, <1>6, <2>1 DEF RecoverGiveUp, Finished
<1>7. CASE (Finish \/ MarkRolledBack) /\ journal'[o] # journal[o]
  BY <1>3, <1>7 DEF Finish, MarkRolledBack
<1>8. \/ UNCHANGED journal \/ CreateJournal \/ FailConfig \/ MarkDrift \/ MarkConfigCommitted
      \/ MarkBindingCommitted \/ RecoverGiveUp \/ Finish \/ MarkRolledBack
  BY DEF Next, Execute, Recover, PlanAttach, PlanDetach, BeginAttach, BeginDetach,
         PrepareCredential, PrepareGatewayBinding, CheckConfig, WriteConfig,
         CheckDrift, CommitBinding, RevokeStore, RevokeCredential,
         MarkRevocationPending, StartRecovery, RecoverNext, RecoverForward,
         RecoverBack, CheckRollback, WriteRollback, Die, EditConfig, durable, vars
<1>9. CASE UNCHANGED journal
  BY <1>9
<1> QED
  BY <1>2, <1>4, <1>5, <1>6, <1>7, <1>8, <1>9

LEMMA FinishedStep ==
  ASSUME IInv, CleaningUp, FinishedLeavesNoLiveOrphan, [Next]_vars
  PROVE  FinishedLeavesNoLiveOrphan'
<1>1. ASSUME NEW o \in Ids, journal'[o] # NoRecord, Finished(journal'[o])
      PROVE  /\ journal'[o].state = "Completed" /\ OldRef(journal'[o]) # NoRef =>
                  gateway'[OldRef(journal'[o])].status = "revoked"
             /\ journal'[o].state = "RolledBack" /\ NewRef(journal'[o]) # NoRef =>
                  gateway'[NewRef(journal'[o])].status = "revoked"
  <2>1. CASE journal[o] # NoRecord /\ journal'[o] = journal[o]
    <3> DEFINE old == OldRef(journal[o])
               new == NewRef(journal[o])
    <3>1. /\ journal[o].state = "Completed" => Revoked(old)
          /\ journal[o].state = "RolledBack" => Revoked(new)
      BY <1>1, <2>1 DEF FinishedLeavesNoLiveOrphan, Finished, Revoked
    <3>2. Revoked(old) /\ old # NoRef => gateway'[old].status = "revoked"
      BY <2>1, RecordStaysRevoked DEF Revoked, OldRef, RefOf
    <3>3. Revoked(new) /\ new # NoRef => gateway'[new].status = "revoked"
      BY <2>1, RecordStaysRevoked DEF Revoked, NewRef, RefOf
    <3> QED
      BY <2>1, <3>1, <3>2, <3>3
  <2>2. CASE /\ UNCHANGED gateway
             /\ journal'[o].previous = work.previous /\ journal'[o].prepared = work.prepared
             /\ \/ pc = "finish" /\ journal'[o].state = "Completed"
                \/ pc = "rolled_back" /\ journal'[o].state = "RolledBack"
    BY <2>2 DEF CleaningUp, OldRef, NewRef, RefOf, Revoked
  <2> QED
    BY <1>1, <2>1, <2>2, FinishedByHolder
<1> QED
  BY <1>1 DEF FinishedLeavesNoLiveOrphan, Finished, OldRef, NewRef, RefOf
-----------------------------------------------------------------------------
\* When the journal says that an operation is completed, the Gateway binding
\* it replaced is revoked, and when it says that one was rolled back, so is
\* the one it had prepared: execute_attach, execute_detach and recover_record
\* write the terminal state after revoke_locked, and return before it when
\* that fails.
THEOREM FinishedIsRevoked == Spec => []FinishedLeavesNoLiveOrphan
<1>1. Init => CleaningUp /\ FinishedLeavesNoLiveOrphan
  BY DEF Init, CleaningUp, Revoking, FinishedLeavesNoLiveOrphan
<1>2. IInv /\ CleaningUp /\ FinishedLeavesNoLiveOrphan /\ [Next]_vars
        => (CleaningUp /\ FinishedLeavesNoLiveOrphan)'
  BY CleaningStep, FinishedStep
<1> QED
  BY <1>1, <1>2, Invariance, PTL DEF Spec
-----------------------------------------------------------------------------
(* No text of a config is written over that the record of the operation    *)
(* does not know, unless the text came between the check and the rename.   *)

Renaming == {"config_rename", "rollback_rename"}

\* After the check the config is the one that was compared.
CheckedIsThere ==
  /\ pc = "config_rename" /\ ~raced => config[work.profile] = work.before
  /\ pc = "rollback_rename" /\ ~raced => config[work.profile] = work.intended

TextInv == edits \in Nat /\ CheckedIsThere
-----------------------------------------------------------------------------
\* Most steps lead to no write of the config.
LEMMA Elsewhere ==
  ASSUME IInv, TextInv, pc' \notin Renaming, edits' = edits
  PROVE  TextInv'
BY DEF TextInv, CheckedIsThere, Renaming

LEMMA ContinueElsewhere ==
  ASSUME NEW label, label \notin Renaming, NEW r,
         Continue(label) \/ Revoke(r, label) \/ Release \/ Goto(label)
  PROVE  pc' \notin Renaming
BY DEF Continue, Revoke, Release, Goto, Renaming

LEMMA ExecuteText ==
  ASSUME IInv, TextInv, Execute
  PROVE  TextInv'
<1>1. next \notin Renaming /\ AfterRevokeError \notin Renaming /\ AfterRecord \notin Renaming
  BY DEF IInv, HolderKnows, HolderOK, AfterRevokeError, AfterRecord, Renaming
<1>3. CASE PrepareCredential \/ PrepareGatewayBinding
  <2>1. pc' \notin Renaming /\ edits' = edits
    BY <1>3 DEF PrepareCredential, PrepareGatewayBinding, Goto, Release, Renaming
  <2> QED
    BY <2>1, Elsewhere
<1>4. CASE CreateJournal
  <2>1. edits' = edits /\ cur \in Ids
    BY <1>4 DEF CreateJournal, IInv, HolderKnows, HolderOK, BeforeJournal
  <2>2. CASE Revoke(NewRef(work), "idle")
    BY <2>1, <2>2, ContinueElsewhere, Elsewhere DEF Renaming
  <2>3. CASE Goto("config_check")
    BY <2>1, <2>3, Elsewhere DEF Goto, Renaming
  <2> QED
    BY <1>4, <2>2, <2>3 DEF CreateJournal
<1>5. CASE CheckConfig
  <2>1. edits' = edits /\ UNCHANGED <<config, journal>>
    BY <1>5 DEF CheckConfig, durable, bounds
  <2>2. CASE config[work.profile] = work.before
    <3>1. pc' = "config_rename" /\ UNCHANGED <<cur, work>> /\ pc = "config_check"
      BY <1>5, <2>2 DEF CheckConfig, Goto
    <3> QED
      BY <2>1, <2>2, <3>1 DEF TextInv, CheckedIsThere
  <2>3. CASE config[work.profile] # work.before
    BY <1>5, <2>1, <2>3, Elsewhere
       DEF CheckConfig, ConfigFailure, Release, Revoke, Continue, Goto, Renaming
  <2> QED
    BY <2>2, <2>3
<1>6. CASE WriteConfig
  BY <1>6, Elsewhere
     DEF WriteConfig, ConfigFailure, Release, Revoke, Continue, Goto, Renaming
<1>7. CASE FailConfig \/ MarkConfigCommitted \/ CheckDrift \/ MarkDrift \/ CommitBinding
             \/ MarkBindingCommitted
  BY <1>7, Elsewhere
     DEF FailConfig, MarkConfigCommitted, CheckDrift, MarkDrift, CommitBinding,
         MarkBindingCommitted, Release, Revoke, Continue, Goto, bounds, Renaming
<1>8. CASE Finish
  BY <1>1, <1>8, ContinueElsewhere, Elsewhere DEF Finish, bounds
<1>9. CASE RevokeStore \/ RevokeCredential \/ MarkRevocationPending
  <2>1. edits' = edits
    BY <1>9 DEF RevokeStore, RevokeCredential, MarkRevocationPending
  <2>2. \/ pc' \in {"revoke_credential", "revoke_pending"}
        \/ Continue(next) \/ Continue(AfterRevokeError)
    BY <1>9 DEF RevokeStore, RevokeCredential, MarkRevocationPending
  <2>3. pc' \notin Renaming
    BY <1>1, <2>2, ContinueElsewhere DEF Renaming
  <2> QED
    BY <2>1, <2>3, Elsewhere
<1> QED
  BY <1>3, <1>4, <1>5, <1>6, <1>7, <1>8, <1>9 DEF Execute

LEMMA RecoverText ==
  ASSUME IInv, TextInv, Recover
  PROVE  TextInv'
<1>1. AfterRecord \notin Renaming
  BY DEF AfterRecord, Renaming
<1>2. CASE RecoverNext \/ RecoverGiveUp \/ RecoverForward \/ WriteRollback
  BY <1>2, Elsewhere
     DEF RecoverNext, RecoverGiveUp, RecoverForward, WriteRollback, Release, Revoke,
         Continue, Goto, bounds, Renaming
<1>3. CASE RecoverBack
  <2>1. edits' = edits /\ UNCHANGED <<config, journal>>
    BY <1>3 DEF RecoverBack, durable, bounds
  <2>2. CASE config[work.profile] = work.intended
    BY <1>3, <2>1, <2>2, Elsewhere DEF RecoverBack, Goto, Renaming
  <2>3. CASE config[work.profile] # work.intended
    BY <1>3, <2>1, <2>3, Elsewhere DEF RecoverBack, Revoke, Continue, Goto, Renaming
  <2> QED
    BY <2>2, <2>3
<1>4. CASE CheckRollback
  <2>1. edits' = edits /\ UNCHANGED <<config, journal>>
    BY <1>4 DEF CheckRollback, durable, bounds
  <2>2. CASE config[work.profile] = work.intended
    <3>1. pc' = "rollback_rename" /\ UNCHANGED <<cur, work>> /\ pc = "rollback_check"
      BY <1>4, <2>2 DEF CheckRollback, Goto
    <3> QED
      BY <2>1, <2>2, <3>1 DEF TextInv, CheckedIsThere
  <2>3. CASE config[work.profile] # work.intended
    BY <1>4, <2>1, <2>3, Elsewhere DEF CheckRollback, Release, Renaming
  <2> QED
    BY <2>2, <2>3
<1>5. CASE MarkRolledBack
  BY <1>1, <1>5, ContinueElsewhere, Elsewhere DEF MarkRolledBack, bounds
<1> QED
  BY <1>2, <1>3, <1>4, <1>5 DEF Recover

LEMMA EditText ==
  ASSUME IInv, TextInv, NEW p \in Profiles, EditConfig(p)
  PROVE  TextInv'
<1>1. /\ edits' = edits + 1 /\ UNCHANGED <<journal, holder>>
      /\ raced' = (raced \/ (pc \in Renaming /\ work.profile = p))
  BY DEF EditConfig, Renaming
<1>2. \A q \in Profiles : q # p => config'[q] = config[q]
  BY DEF EditConfig, IInv, TypeOK
<1>3. pc \in Renaming => work.profile \in Profiles
  BY DEF IInv, HolderKnows, HolderOK, Renaming, Records
<1>4. edits' \in Nat
  BY <1>1 DEF TextInv
<1>5. CheckedIsThere'
  BY <1>1, <1>2, <1>3 DEF TextInv, CheckedIsThere, holder, Renaming
<1> QED
  BY <1>4, <1>5 DEF TextInv

LEMMA TextStep ==
  ASSUME IInv, TextInv, [Next]_vars
  PROVE  TextInv'
<1>1. CASE UNCHANGED vars
  BY <1>1 DEF vars, TextInv, CheckedIsThere
<1>2. CASE \/ \E o \in Ids, p \in Profiles, v \in Providers : PlanAttach(o, p, v)
           \/ \E o \in Ids, p \in Profiles : PlanDetach(o, p)
  BY <1>2, Elsewhere DEF PlanAttach, PlanDetach, holder, bounds, Renaming
<1>3. CASE \E o \in Ids : BeginAttach(o) \/ BeginDetach(o)
  BY <1>3, Elsewhere DEF BeginAttach, BeginDetach, Begin, bounds, Renaming
<1>4. CASE StartRecovery \/ Die
  BY <1>4, Elsewhere DEF StartRecovery, Die, Release, bounds, Renaming
<1> QED
  BY <1>1, <1>2, <1>3, <1>4, ExecuteText, RecoverText, EditText DEF Next
-----------------------------------------------------------------------------
\* Only the two renames of the holder change a config, and edits.
LEMMA WhoWrites ==
  ASSUME IInv, TextInv, [Next]_vars, NEW p \in Profiles, config'[p] # config[p], edits' = edits
  PROVE  pc \in Renaming /\ p = work.profile
<1>1. WriteConfig \/ WriteRollback
  BY DEF TextInv, Next, Execute, Recover, PlanAttach, PlanDetach, BeginAttach, BeginDetach,
         PrepareCredential, PrepareGatewayBinding, CreateJournal, CheckConfig, FailConfig,
         MarkConfigCommitted, CheckDrift, MarkDrift, CommitBinding, MarkBindingCommitted,
         Finish, RevokeStore, RevokeCredential, MarkRevocationPending, StartRecovery,
         RecoverNext, RecoverGiveUp, RecoverForward, RecoverBack, CheckRollback,
         MarkRolledBack, Die, EditConfig, durable, vars
<1>2. config \in [Profiles -> Configs]
  BY DEF IInv, TypeOK
<1> QED
  BY <1>1, <1>2 DEF WriteConfig, WriteRollback, Renaming

LEMMA StepReplacesKnownText ==
  ASSUME IInv, TextInv, [Next]_vars, NEW p \in Profiles, config'[p] # config[p], edits' = edits,
         ~raced
  PROVE  KnownText(p)
<1>1. pc \in Renaming /\ p = work.profile
  BY WhoWrites
<1>2. cur \in Ids /\ Active(cur) /\ journal[cur].profile = p
  BY <1>1 DEF IInv, HolderKnows, HolderOK, WorkIsJournaled, SameOperation, At, Journaled,
              Executing, Undoing, Revoking, Renaming
<1>3. config[p] \in {journal[cur].before, journal[cur].intended}
  BY <1>1 DEF TextInv, CheckedIsThere, IInv, HolderKnows, WorkIsJournaled, SameOperation, At,
              Journaled, Executing, Undoing, Revoking, Renaming
<1> QED
  BY <1>2, <1>3 DEF KnownText
-----------------------------------------------------------------------------
\* replace_config_file and rollback_record_config compare the hash of the
\* config with what the journal's record says before they rename over it, and
\* every other writer of it is a foreign one: what another program wrote is
\* never lost unless it came between the two.
THEOREM ForeignTextsSurvive == Spec => KnownTextsAreReplaced
<1>1. Init => TextInv
  BY DEF Init, TextInv, CheckedIsThere, Renaming
<1>2. IInv /\ TextInv /\ [Next]_vars => TextInv'
  BY TextStep
<1>3. IInv /\ TextInv /\ [Next]_vars
        => [\A p \in Profiles : config'[p] # config[p] /\ edits' = edits =>
              raced \/ KnownText(p)]_vars
  BY StepReplacesKnownText
<1> QED
  BY <1>1, <1>2, <1>3, Invariance, PTL DEF Spec, KnownTextsAreReplaced
-----------------------------------------------------------------------------
\* With no operation in flight the config matches the binding.  First what the
\* edits of a config do to the slots, then that the transaction keeps ValuesInv.

\* What a config holds before LAM touches it are values of the slots.
LEMMA InitialType ==
  ASSUME NEW values \in InitialValues
  PROVE  values \in [Slots -> SlotValues]
BY AttachAssumption DEF SlotValues

\* Every slot is that of its key at the top or in the table it is in.
LEMMA WhoseSlot ==
  ASSUME NEW v \in Providers, NEW s \in Slots
  PROVE  /\ s = Slot(v, s[2]) <=> s[1] \in {Top, v}
         /\ s[1] \in Providers => s[2] \in TableKeys /\ s = <<s[1], s[2]>>
         /\ s[1] = Top => s[2] \in TopKeys
BY ConfigAssumption DEF Slot, Slots

\* What restoring recorded entries leaves in a slot.
LEMMA RestoredSlot ==
  ASSUME NEW values, NEW v, NEW m, NEW s \in Slots
  PROVE  Restore(values, v, m)[s] =
           IF s = Slot(v, s[2]) /\ m[s[2]] # Untracked THEN m[s[2]] ELSE values[s]
BY DEF Restore

\* The more is applied the more is lost.
LEMMA LostGrows ==
  ASSUME NEW A, NEW B, A \subseteq B
  PROVE  Lost(A) \subseteq Lost(B) /\ FirstAttached(A) \subseteq FirstAttached(B)
<1>1. FirstAttached(A) \subseteq FirstAttached(B)
  BY DEF FirstAttached
<1>2. ASSUME NEW a
      PROVE  LostBy(a, A) \subseteq LostBy(a, B)
  BY <1>1 DEF LostBy
<1> QED
  BY <1>1, <1>2 DEF Lost

LEMMA FitsGrows ==
  ASSUME NEW A, NEW B, A \subseteq B, NEW u, NEW values, NEW b, Fits(A, u, values, b)
  PROVE  Fits(B, u, values, b)
BY LostGrows DEF Fits

LEMMA RemembersGrows ==
  ASSUME NEW A, NEW B, A \subseteq B, NEW u, NEW b, Remembers(A, u, b)
  PROVE  Remembers(B, u, b)
BY LostGrows DEF Remembers

LEMMA RecordFitsGrows ==
  ASSUME NEW A, NEW B, A \subseteq B, NEW u, NEW r, RecordFits(A, u, r)
  PROVE  RecordFits(B, u, r)
BY FitsGrows, RemembersGrows DEF RecordFits

\* What a record says, an older writing of the record says too.
LEMMA FitsSame ==
  ASSUME NEW A, NEW u, NEW r, NEW s, SameOperation(r, s), RecordFits(A, u, r)
  PROVE  RecordFits(A, u, s)
BY DEF SameOperation, RecordFits, RolledBackValues

\* What an application loses belongs to what is lost.
LEMMA ApplicationLoses ==
  ASSUME NEW A, NEW kind, NEW v, [kind |-> kind, provider |-> v] \in A
  PROVE  /\ Cleared(v) \subseteq Lost(A)
         /\ kind = "attach" => v \in FirstAttached(A)
         /\ kind = "rebind" => \A f \in FirstAttached(A) : Mistaken(v, f) \subseteq Lost(A)
<1> DEFINE a == [kind |-> kind, provider |-> v]
<1>1. a \in A /\ a.kind = kind /\ a.provider = v
  OBVIOUS
<1> HIDE DEF a
<1>2. LostBy(a, A) \subseteq Lost(A)
  BY <1>1 DEF Lost
<1>3. kind = "attach" => v \in FirstAttached(A)
  BY <1>1 DEF FirstAttached
<1>4. Cleared(v) \subseteq LostBy(a, A)
  BY <1>1 DEF LostBy
<1>5. kind = "rebind" => \A f \in FirstAttached(A) : Mistaken(v, f) \subseteq LostBy(a, A)
  BY <1>1 DEF LostBy
<1> QED
  BY <1>2, <1>3, <1>4, <1>5

\* Undoing an application by what it recorded itself brings back what was
\* there, but for the keys that it clears without recording them.
LEMMA UnappliedFits ==
  ASSUME NEW A, NEW u, NEW values \in [Slots -> SlotValues], Fits(A, u, values, NoBinding),
         NEW v \in Providers, NEW lam, Cleared(v) \subseteq Lost(A)
  PROVE  LET applied == ApplyValues(values, v, lam)
         IN  Fits(A, u, DetachValues(applied, ProjectionOf(values, applied, v)), NoBinding)
<1> DEFINE applied == ApplyValues(values, v, lam)
           m == ProjectionOf(values, applied, v).previous
<1>1. \A k \in Keys : m[k] = IF k \in Managed[v] THEN values[Slot(v, k)] ELSE Untracked
  BY DEF ProjectionOf
<1>2. DetachValues(applied, ProjectionOf(values, applied, v)) = Restore(applied, v, m)
  BY DEF DetachValues, ProjectionOf
<1>3. ASSUME NEW s \in Slots \ Lost(A)
      PROVE  Restore(applied, v, m)[s] = u[s]
  <2>1. s[2] \in Keys /\ values[s] = u[s] /\ values[s] \in SlotValues
    BY SlotHasKey DEF Fits
  <2>2. applied[s] = IF s = Slot(v, s[2]) /\ s[2] \in Written[v] THEN lam
                     ELSE IF s[1] = v /\ s[2] \in AuthKeys THEN Absent ELSE values[s]
    BY DEF ApplyValues
  <2>3. s[1] = v /\ s[2] \in AuthKeys => s[2] \in Managed[v] /\ s = Slot(v, s[2])
    BY WhoseSlot DEF Cleared
  <2>4. s = Slot(v, s[2]) /\ s[2] \in Managed[v] => m[s[2]] = values[s] /\ m[s[2]] # Untracked
    BY <1>1, <2>1, SentinelAssumption
  <2>5. s[2] \notin Managed[v] => m[s[2]] = Untracked /\ s[2] \notin Written[v]
    BY <1>1, <2>1, ConfigAssumption
  <2>6. Restore(applied, v, m)[s]
          = IF s = Slot(v, s[2]) /\ m[s[2]] # Untracked THEN m[s[2]] ELSE applied[s]
    BY RestoredSlot
  <2> HIDE DEF applied, m
  <2> QED
    BY <2>1, <2>2, <2>3, <2>4, <2>5, <2>6
<1> QED
  BY <1>2, <1>3 DEF Fits

\* So does undoing it by what the first attach of the binding recorded, but for
\* what that attach did not record or recorded of another table.
LEMMA RestoredFits ==
  ASSUME NEW A, NEW u \in [Slots -> SlotValues], NEW values, Fits(A, u, values, NoBinding),
         NEW v \in Providers, NEW lam, Cleared(v) \subseteq Lost(A),
         NEW f, Mistaken(v, f) \subseteq Lost(A), NEW m,
         \A k \in Keys : IF k \in Managed[f]
                         THEN Slot(f, k) \notin Lost(A) => m[k] = u[Slot(f, k)]
                         ELSE m[k] = Untracked
  PROVE  \A s \in Slots \ Lost(A) : Restore(ApplyValues(values, v, lam), v, m)[s] = u[s]
<1> DEFINE applied == ApplyValues(values, v, lam)
<1> SUFFICES ASSUME NEW s \in Slots \ Lost(A)
             PROVE  Restore(applied, v, m)[s] = u[s]
  OBVIOUS
<1>1. s[2] \in Keys /\ values[s] = u[s] /\ u[s] # Untracked
  BY SlotHasKey, SentinelAssumption DEF Fits
<1>2. applied[s] = IF s = Slot(v, s[2]) /\ s[2] \in Written[v] THEN lam
                   ELSE IF s[1] = v /\ s[2] \in AuthKeys THEN Absent ELSE values[s]
  BY DEF ApplyValues
<1>3. s[1] = v /\ s[2] \in AuthKeys => s[2] \in Managed[v] /\ s = Slot(v, s[2])
  BY WhoseSlot DEF Cleared
<1>4. s[2] \notin Managed[v] => s[2] \notin Written[v]
  BY ConfigAssumption
<1>5. ASSUME s = Slot(v, s[2]), s[2] \in Managed[f]
      PROVE  m[s[2]] = u[s]
  <2>1. CASE s[2] \in TopKeys
    <3>1. Slot(f, s[2]) = s
      BY <1>5, <2>1 DEF Slot
    <3> QED
      BY <1>1, <1>5, <3>1
  <2>2. CASE s[2] \notin TopKeys
    <3>1. s[2] \in TableKeys /\ s = <<v, s[2]>>
      BY <1>1, <1>5, <2>2 DEF Keys, Slot
    <3>2. v = f
      BY <1>5, <3>1 DEF Mistaken
    <3> QED
      BY <1>1, <1>5, <3>2
  <2> QED
    BY <2>1, <2>2
<1>6. s = Slot(v, s[2]) /\ s[2] \in Managed[v] => s[2] \in Managed[f]
  BY DEF Mistaken
<1>7. s[2] \notin Managed[f] => m[s[2]] = Untracked
  BY <1>1
<1>8. Restore(applied, v, m)[s]
        = IF s = Slot(v, s[2]) /\ m[s[2]] # Untracked THEN m[s[2]] ELSE applied[s]
  BY RestoredSlot
<1> HIDE DEF applied
<1> QED
  BY <1>1, <1>2, <1>3, <1>4, <1>5, <1>6, <1>7, <1>8

\* What was recorded of a document is in it.
LEMMA OwnsApplied ==
  ASSUME NEW before, NEW after, NEW v
  PROVE  Owns(after, ProjectionOf(before, after, v))
BY DEF Owns, ProjectionOf

\* Applying a binding again to a config without it brings back what fits it.
LEMMA ReappliedFits ==
  ASSUME NEW A, NEW u, NEW b \in Bindings, b # NoBinding,
         NEW bound, Fits(A, u, bound, b), NEW free, Fits(A, u, free, NoBinding)
  PROVE  Fits(A, u, ReapplyValues(free, b.projection), b)
<1> DEFINE v == b.projection.provider
           m == b.projection.previous
           n == b.projection.managed
           values == ReapplyValues(free, b.projection)
<1>1. v \in Providers
  BY BindingFields DEF Projections
<1>2. \A s \in Slots : values[s] = IF s = Slot(v, s[2]) /\ n[s[2]] # Untracked THEN n[s[2]]
                                   ELSE free[s]
  BY RestoredSlot DEF ReapplyValues
<1>3. Owns(values, b.projection)
  <2> SUFFICES ASSUME NEW k \in Keys, n[k] # Untracked
               PROVE  values[Slot(v, k)] = n[k]
    BY DEF Owns
  <2>1. Slot(v, k) \in Slots /\ Slot(v, k)[2] = k
    BY <1>1, SlotIsSlot DEF Slot
  <2> HIDE DEF values, v, n
  <2> QED
    BY <1>2, <2>1
<1>4. ASSUME NEW s \in Slots \ Lost(A)
      PROVE  DetachValues(values, b.projection)[s] = u[s]
  <2>1. s[2] \in Keys /\ free[s] = u[s]
    BY SlotHasKey DEF Fits
  <2>2. /\ DetachValues(bound, b.projection)[s] = u[s]
        /\ n[s[2]] # Untracked => bound[Slot(v, s[2])] = n[s[2]]
    BY <2>1 DEF Fits, Owns
  <2>3. /\ DetachValues(bound, b.projection)[s]
             = IF s = Slot(v, s[2]) /\ m[s[2]] # Untracked THEN m[s[2]] ELSE bound[s]
        /\ DetachValues(values, b.projection)[s]
             = IF s = Slot(v, s[2]) /\ m[s[2]] # Untracked THEN m[s[2]] ELSE values[s]
    BY RestoredSlot DEF DetachValues
  <2> HIDE DEF values, v, m, n
  <2> QED
    BY <1>2, <2>1, <2>2, <2>3
<1> QED
  BY <1>3, <1>4 DEF Fits

\* Where there is nothing that the holder knows of the config.
LEMMA SeenElsewhere ==
  ASSUME NEW place, NEW A, NEW u, NEW c, NEW r,
         place \notin {"config_check", "config_rename", "config_committed", "drift_check",
                       "binding_cas", "fail_config", "rolled_back"}
  PROVE  SeenAt(place, A, u, c, r)
BY DEF SeenAt

\* Where the holder is when it goes on at a label, or revokes first.
LEMMA Lands ==
  ASSUME NEW label \in Journaled \cup {"idle"}, NEW r,
         Goto(label) \/ Continue(label) \/ Revoke(r, label)
  PROVE  /\ At' = label /\ pc' \notin BeforeJournal
         /\ label # "idle" => UNCHANGED <<mode, cur, work>>
BY DEF Goto, Continue, Revoke, Release, At, Revoking, BeforeJournal, Journaled, Executing,
       Undoing, Finishing

\* The user's values are those that the config held at first; profiles stay
\* touched.
LEMMA HistoryStep ==
  ASSUME [Next]_vars
  PROVE  original' = original /\ touched \subseteq touched'
BY DEF Next, Execute, Recover, PlanAttach, PlanDetach, BeginAttach, BeginDetach,
       PrepareCredential, PrepareGatewayBinding, CreateJournal, CheckConfig,
       WriteConfig, FailConfig, MarkConfigCommitted, CheckDrift, MarkDrift, CommitBinding,
       MarkBindingCommitted, Finish, RevokeStore, RevokeCredential,
       MarkRevocationPending, StartRecovery, RecoverNext, RecoverGiveUp,
       RecoverForward, RecoverBack, CheckRollback, WriteRollback, MarkRolledBack,
       Die, EditConfig, history, vars

\* A record that is not active any more stays as it is.
LEMMA EndedStays ==
  ASSUME IInv, [Next]_vars, NEW o \in Ids, journal[o] # NoRecord, ~Active(o)
  PROVE  journal'[o] = journal[o]
<1>1. journal \in [Ids -> Records \cup {NoRecord}]
  BY DEF IInv, TypeOK
<1>2. ASSUME pc \in Journaled,
             NEW to \in States, NEW error \in Errors, Transition(cur, to, error)
      PROVE  journal'[o] = journal[o]
  <2>1. cur \in Ids /\ Active(cur) /\ journal[cur] # NoRecord
    BY <1>2, WorkFacts
  <2> QED
    BY <1>1, <1>2, <2>1, TransitionEffect
<1>3. ASSUME pc = "journal", journal' = [journal EXCEPT ![cur] = work]
      PROVE  journal'[o] = journal[o]
  BY <1>1, <1>3 DEF IInv, HolderKnows, HolderOK, WorkIsNew, BeforeJournal
<1> QED
  BY <1>2, <1>3, JournalSteps

\* A profile that is calm was calm before.
LEMMA CalmBefore ==
  ASSUME IInv, [Next]_vars, NEW p \in Profiles, Calm(p)'
  PROVE  Calm(p)
<1>1. p \notin touched
  BY HistoryStep DEF Calm
<1>2. ASSUME NEW o \in Ids, journal[o] # NoRecord, journal[o].profile = p,
             journal[o].state = "ManualIntervention"
      PROVE  FALSE
  <2>1. ~Active(o)
    BY <1>2 DEF Active, ActiveStates
  <2> QED
    BY <1>2, <2>1, EndedStays DEF Calm
<1> QED
  BY <1>1, <1>2 DEF Calm

-----------------------------------------------------------------------------
\* What the operations of a profile have applied only grows.
LEMMA AppliedGrows ==
  ASSUME IInv, [Next]_vars, NEW p \in Profiles
  PROVE  Applied(p) \subseteq Applied(p)'
<1> SUFFICES ASSUME NEW a \in Applied(p)
             PROVE  a \in Applied(p)'
  OBVIOUS
<1>1. PICK o \in Ids : journal[o] # NoRecord /\ journal[o].profile = p /\ a \in AppliedBy(journal[o])
  BY DEF Applied
<1>2. journal'[o] # NoRecord /\ SameOperation(journal[o], journal'[o])
  BY <1>1, JournalEffect
<1>3. AppliedBy(journal'[o]) = AppliedBy(journal[o]) /\ journal'[o].profile = p
  BY <1>1, <1>2 DEF SameOperation, AppliedBy
<1> QED
  BY <1>1, <1>2, <1>3 DEF Applied

\* They are the same when the journal is.
LEMMA AppliedSame ==
  ASSUME UNCHANGED journal, NEW p
  PROVE  Applied(p)' = Applied(p)
BY DEF Applied

-----------------------------------------------------------------------------
\* The records of the unfinished operations fit.
LEMMA RecordsFitStep ==
  ASSUME IInv, [Next]_vars, NEW p \in Profiles, ValuesOf(p),
         NEW o \in Ids, Active(o)', journal'[o].profile = p
  PROVE  RecordFits(Applied(p)', original[p], journal'[o])
<1>1. journal'[o] # NoRecord
  BY DEF Active
<1>2. CASE journal[o] # NoRecord
  <2>1. Active(o) /\ SameOperation(journal[o], journal'[o])
    BY <1>2, JournalEffect
  <2>2. journal[o].profile = p
    BY <2>1 DEF SameOperation
  <2>3. RecordFits(Applied(p), original[p], journal'[o])
    BY <2>1, <2>2, FitsSame DEF ValuesOf
  <2> QED
    BY <2>3, AppliedGrows, RecordFitsGrows
<1>3. CASE journal[o] = NoRecord
  <2>1. /\ pc = "journal" /\ o = cur /\ ~ProfileBusy(work.profile)
        /\ journal' = [journal EXCEPT ![cur] = work]
    BY <1>1, <1>3, JournalEffect
  <2>2. journal'[o] = work
    BY <2>1 DEF IInv, TypeOK
  <2>3. RecordFits(Applied(p) \cup AppliedBy(work), original[p], work)
    BY <2>1, <2>2 DEF ValuesOf, HolderSeesConfig, BeforeJournal
  <2>4. AppliedBy(work) \subseteq Applied(p)'
    BY <1>1, <2>2 DEF Applied
  <2> QED
    BY <2>2, <2>3, <2>4, AppliedGrows, RecordFitsGrows
<1> QED
  BY <1>2, <1>3

\* So does the binding of the profile.
LEMMA BindingFitsStep ==
  ASSUME IInv, [Next]_vars, NEW p \in Profiles, ValuesOf(p)
  PROVE  Remembers(Applied(p)', original[p], bindings'[p])
<1>1. Remembers(Applied(p), original[p], bindings'[p])
  <2>1. CASE bindings'[p] = bindings[p]
    BY <2>1 DEF ValuesOf
  <2>2. CASE CommitBinding /\ bindings'[p] # bindings[p]
    <3>1. pc \in Journaled
      BY <2>2 DEF CommitBinding, Journaled, Executing
    <3>2. p = work.profile /\ bindings'[p] = work.prepared
      BY <2>2 DEF CommitBinding, IInv, TypeOK
    <3>3. cur \in Ids /\ Active(cur) /\ SameOperation(work, journal[cur])
      BY <3>1, WorkFacts
    <3>4. RecordFits(Applied(p), original[p], journal[cur])
      BY <3>2, <3>3 DEF ValuesOf, SameOperation
    <3> QED
      BY <3>2, <3>3, <3>4 DEF SameOperation, RecordFits
  <2> QED
    BY <2>1, <2>2, BindingsSteps
<1> QED
  BY <1>1, AppliedGrows, RemembersGrows

\* Only the two renames of the holder change the config of a calm profile.
LEMMA CalmWrites ==
  ASSUME IInv, [Next]_vars, NEW p \in Profiles, p \notin touched', config'[p] # config[p]
  PROVE  /\ p = work.profile
         /\ \/ /\ WriteConfig /\ Goto("config_committed")
               /\ config'[p] = work.intended
            \/ /\ WriteRollback
               /\ config'[p].values = RolledBackValues(work)
<1>1. config \in [Profiles -> Configs]
  BY DEF IInv, TypeOK
<1>2. WriteConfig \/ WriteRollback \/ \E q \in Profiles : EditConfig(q)
  BY DEF Next, Execute, Recover, PlanAttach, PlanDetach, BeginAttach, BeginDetach,
         PrepareCredential, PrepareGatewayBinding, CreateJournal, CheckConfig, FailConfig,
         MarkConfigCommitted, CheckDrift, MarkDrift, CommitBinding, MarkBindingCommitted,
         Finish, RevokeStore, RevokeCredential, MarkRevocationPending, StartRecovery,
         RecoverNext, RecoverGiveUp, RecoverForward, RecoverBack, CheckRollback,
         MarkRolledBack, Die, durable, vars
<1>3. CASE WriteConfig
  BY <1>1, <1>3 DEF WriteConfig
<1>4. CASE WriteRollback
  BY <1>1, <1>4 DEF WriteRollback, Rendered
<1>5. ASSUME NEW q \in Profiles, EditConfig(q)
      PROVE  FALSE
  BY <1>1, <1>5 DEF EditConfig
<1> QED
  BY <1>2, <1>3, <1>4, <1>5

\* The record in hand fits, when its profile is calm.
LEMMA WorkFits ==
  ASSUME IInv, pc \in Journaled, ValuesOf(work.profile)
  PROVE  RecordFits(Applied(work.profile), original[work.profile], work)
<1>1. /\ cur \in Ids /\ Active(cur) /\ SameOperation(work, journal[cur])
      /\ work.profile \in Profiles
  BY WorkFacts
<1> QED
  BY <1>1, FitsSame DEF ValuesOf, SameOperation

\* The config holds what its binding says, or what an unfinished operation
\* is about to bind.
LEMMA ConfigKnownStep ==
  ASSUME IInv, ValuesInv, [Next]_vars, NEW p \in Profiles,
         Calm(p)', ValuesOf(p)
  PROVE  ConfigIsKnown(p)'
<1>1. original' = original /\ p \notin touched'
  BY HistoryStep DEF Calm
<1>grow. \A values, b : Fits(Applied(p), original[p], values, b)
                        => Fits(Applied(p)', original[p], values, b)
  BY AppliedGrows, FitsGrows
<1>2. /\ original[p] \in InitialValues
      /\ journal \in [Ids -> Records \cup {NoRecord}]
      /\ bindings \in [Profiles -> Bindings \cup {NoBinding}]
  BY DEF ValuesInv, IInv, TypeOK
<1>3. CASE config'[p] # config[p]
  <2>1. p = work.profile /\ pc \in Journaled /\ pc \notin {"recover_next", "idle"}
    BY <1>1, <1>3, CalmWrites
       DEF WriteConfig, WriteRollback, Journaled, Executing, Undoing
  <2>2. /\ cur \in Ids /\ Active(cur) /\ SameOperation(work, journal[cur]) /\ work \in Records
        /\ At = pc
    BY <2>1, WorkFacts
  <2>3. RecordFits(Applied(p), original[p], work)
    BY <2>1, WorkFits
  <2>4. CASE WriteConfig /\ config'[p] = work.intended
    <3>1. UNCHANGED <<journal, bindings>>
      BY <2>4 DEF WriteConfig
    <3>2. PICK o \in Ids : o = cur
      BY <2>2
    <3>3. Active(o) /\ journal[o].profile = p /\ journal[o].prepared = work.prepared
      BY <2>1, <2>2, <3>2 DEF SameOperation
    <3>4. Active(o)' /\ journal' = journal
      BY <3>1, <3>3 DEF Active
    <3>5. Fits(Applied(p), original[p], config'[p].values, journal[o].prepared)
      BY <2>3, <2>4, <3>3 DEF RecordFits
    <3> QED
      BY <1>1, <1>grow, <3>3, <3>4, <3>5 DEF ConfigIsKnown
  <2>5. CASE WriteRollback /\ config'[p].values = RolledBackValues(work)
    <3>1. UNCHANGED bindings /\ bindings[p] = work.previous
      BY <2>1, <2>2, <2>5 DEF WriteRollback, IInv, HolderKnows, Position, PreCommit, Undoing
    <3> QED
      BY <1>1, <1>grow, <2>3, <2>5, <3>1 DEF ConfigIsKnown, RecordFits
  <2> QED
    BY <1>1, <1>3, <2>4, <2>5, CalmWrites
<1>4. CASE config'[p] = config[p] /\ bindings'[p] # bindings[p]
  <2>1. CommitBinding
    BY <1>4, BindingsSteps
  <2>2. p = work.profile /\ bindings'[p] = work.prepared /\ pc = "binding_cas"
    BY <1>2, <1>4, <2>1 DEF CommitBinding
  <2>3. Fits(Applied(p), original[p], config[p].values, work.prepared)
    BY <2>2 DEF ValuesOf, HolderSeesConfig, SeenAt, At, Revoking
  <2> QED
    BY <1>1, <1>grow, <1>4, <2>2, <2>3 DEF ConfigIsKnown
<1>5. CASE config'[p] = config[p] /\ bindings'[p] = bindings[p]
  <2>1. CASE Fits(Applied(p), original[p], config[p].values, bindings[p])
    BY <1>1, <1>grow, <1>5, <2>1 DEF ConfigIsKnown
  <2>2. ASSUME NEW o \in Ids, Active(o), journal[o].profile = p,
               Fits(Applied(p), original[p], config[p].values, journal[o].prepared)
        PROVE  ConfigIsKnown(p)'
    <3>1. journal[o] # NoRecord
      BY <2>2 DEF Active
    <3>2. journal'[o] # NoRecord /\ SameOperation(journal[o], journal'[o])
      BY <3>1, JournalEffect
    <3>3. CASE Active(o)'
      BY <1>1, <1>grow, <1>5, <2>2, <3>2, <3>3 DEF ConfigIsKnown, SameOperation
    <3>4. CASE ~Active(o)'
      <4>1. /\ journal'[o].state \notin ActiveStates
            /\ journal'[o].state # "ManualIntervention"
        BY <2>2, <3>2, <3>4 DEF Active, Calm, SameOperation
      <4>2. pc \in Journaled /\ UNCHANGED bindings
        <5>1. ~(UNCHANGED journal)
          BY <2>2, <3>4 DEF Active
        <5>2. ~(pc = "journal" /\ journal' = [journal EXCEPT ![cur] = work])
          <6> SUFFICES ASSUME pc = "journal", journal' = [journal EXCEPT ![cur] = work]
                       PROVE  FALSE
            OBVIOUS
          <6>1. cur \in Ids /\ journal[cur] = NoRecord
            BY DEF IInv, HolderKnows, HolderOK, WorkIsNew, BeforeJournal
          <6>2. journal'[o] = journal[o]
            BY <1>2, <3>1, <6>1
          <6> QED
            BY <2>2, <3>4, <6>2 DEF Active
        <5> QED
          BY <5>1, <5>2, JournalSteps
      <4>3. PICK to \in States, error \in Errors : Transition(cur, to, error) /\ Recorded(to, error)
        <5>1. ~(UNCHANGED journal)
          BY <2>2, <3>4 DEF Active
        <5> QED
          BY <4>2, <5>1, JournalSteps DEF Journaled, Executing, Undoing, Finishing
      <4>4. /\ cur \in Ids /\ journal[cur] # NoRecord /\ SameOperation(work, journal[cur])
            /\ At = pc
        BY <4>2, WorkFacts
      <4>5. journal'[cur].state = to /\ \A o2 \in Ids \ {cur} : journal'[o2] = journal[o2]
        BY <1>2, <4>3, <4>4, TransitionEffect
      <4>6. o = cur
        BY <2>2, <3>4, <4>5 DEF Active
      <4>7. /\ work.profile = p /\ work.prepared = journal[o].prepared
            /\ to \in {"Completed", "RolledBack"}
        BY <2>2, <4>1, <4>4, <4>5, <4>6 DEF SameOperation, States, ActiveStates
      <4>8. CASE to = "Completed"
        <5>1. bindings[p] = journal[o].prepared
          BY <4>3, <4>7, <4>8 DEF Recorded, Committed
        <5> QED
          BY <1>1, <1>grow, <1>5, <2>2, <5>1 DEF ConfigIsKnown
      <4>9. CASE to = "RolledBack"
        <5>1. bindings[p] = work.previous /\ pc \in {"fail_config", "rolled_back"}
          BY <4>3, <4>7, <4>9 DEF Recorded, PreCommit
        <5>2. Fits(Applied(p), original[p], config[p].values, work.previous)
          BY <4>4, <4>7, <5>1 DEF ValuesOf, HolderSeesConfig, SeenAt
        <5> QED
          BY <1>1, <1>grow, <1>5, <5>1, <5>2 DEF ConfigIsKnown
      <4> QED
        BY <4>7, <4>8, <4>9
    <3> QED
      BY <3>3, <3>4
  <2> QED
    BY <2>1, <2>2 DEF ValuesOf, ConfigIsKnown
<1> QED
  BY <1>3, <1>4, <1>5

-----------------------------------------------------------------------------
\* What an operation starts from and aims at fits, unless another operation of
\* the profile is unfinished.
LEMMA KnownWhenFree ==
  ASSUME NEW p \in Profiles, ConfigIsKnown(p), ~ProfileBusy(p)
  PROVE  Fits(Applied(p), original[p], config[p].values, bindings[p])
BY DEF ConfigIsKnown, ProfileBusy

\* Taking a binding away from a config that fits it leaves one without.
LEMMA UnmanagedFits ==
  ASSUME NEW p \in Profiles, NEW A, NEW u, Fits(A, u, config[p].values, bindings[p])
  PROVE  Fits(A, u, Unmanaged(p), NoBinding)
BY DEF Fits, Unmanaged

\* The record of an attach or rebind fits.
LEMMA AttachFits ==
  ASSUME IInv, ValuesInv, NEW o \in Ids, BeginAttach(o),
         NEW p \in Profiles, p = work'.profile, Calm(p), ~ProfileBusy(p)
  PROVE  /\ RecordFits(Applied(p) \cup AppliedBy(work'), original[p], work')
         /\ config[p] = work'.before
<1> DEFINE A == Applied(p) \cup AppliedBy(work')
           u == original[p]
           v == plans[o].provider
           free == Unmanaged(p)
           previous == bindings[p]
           values == ApplyValues(free, v, LamValue(v, o))
           projection == ProjectionOf(free, values, v)
           b == work'.prepared
<1>1. /\ plans[o] # NoPlan /\ plans[o].source = config[plans[o].profile]
      /\ v \in Providers
  BY PlanFields DEF BeginAttach, PlanCurrent, IInv
<1>2. PICK intended :
        /\ intended \in Rendered(ApplyValues(Unmanaged(plans[o].profile), v, LamValue(v, o)))
        /\ work' = [profile |-> plans[o].profile,
                    kind |-> IF bindings[plans[o].profile] = NoBinding THEN "attach" ELSE "rebind",
                    state |-> "Prepared", error |-> "none",
                    storeRev |-> plans[o].storeRev, before |-> plans[o].source,
                    intended |-> intended,
                    projection |-> ProjectionOf(Unmanaged(plans[o].profile),
                      ApplyValues(Unmanaged(plans[o].profile), v, LamValue(v, o)), v),
                    previous |-> bindings[plans[o].profile],
                    prepared |-> PreparedBinding(o, v, intended,
                      ProjectionOf(Unmanaged(plans[o].profile),
                        ApplyValues(Unmanaged(plans[o].profile), v, LamValue(v, o)), v),
                      bindings[plans[o].profile])]
  BY DEF BeginAttach, Begin
<1>3. p = plans[o].profile
  BY <1>2
<1>4. /\ intended.values = values
      /\ work'.kind = IF previous = NoBinding THEN "attach" ELSE "rebind"
      /\ work'.before = config[p] /\ work'.intended = intended
      /\ work'.projection = projection /\ work'.previous = previous
      /\ b = PreparedBinding(o, v, intended, projection, previous)
  BY <1>1, <1>2, <1>3 DEF Rendered
<1>5. work' \in Records
  BY AttachWork DEF IInv
<1>6. b # NoBinding /\ b.provider = v
  BY <1>4, <1>5, RecordFields DEF PreparedBinding
<1>7. /\ ValuesOf(p) /\ u \in [Slots -> SlotValues]
      /\ previous \in Bindings \cup {NoBinding}
      /\ free \in [Slots -> SlotValues]
  BY InitialType, UnmanagedType DEF ValuesInv, IInv, TypeOK
<1>8. /\ Fits(A, u, config[p].values, previous) /\ Remembers(A, u, previous)
  BY <1>7, KnownWhenFree, FitsGrows, RemembersGrows DEF ValuesOf
<1>9. Fits(A, u, free, NoBinding)
  BY <1>8, UnmanagedFits
<1>10. [kind |-> work'.kind, provider |-> v] \in A
  BY <1>6 DEF AppliedBy
<1>11. /\ Cleared(v) \subseteq Lost(A)
       /\ work'.kind = "attach" => v \in FirstAttached(A)
       /\ work'.kind = "rebind" => \A f \in FirstAttached(A) : Mistaken(v, f) \subseteq Lost(A)
  BY <1>10, ApplicationLoses
<1>12. /\ b.projection.provider = v
       /\ b.projection.managed = projection.managed
       /\ b.projection.previous = IF previous = NoBinding THEN projection.previous
                                  ELSE previous.projection.previous
  BY <1>4 DEF PreparedBinding, ProjectionOf
<1> HIDE DEF A, b
<1>13. \A k \in Keys : projection.previous[k] = IF k \in Managed[v] THEN free[Slot(v, k)]
                                                ELSE Untracked
  BY DEF ProjectionOf
<1>14. Remembers(A, u, b)
  <2>1. CASE previous = NoBinding
    <3>1. v \in FirstAttached(A)
      BY <1>4, <1>11, <2>1
    <3>2. \A k \in Keys : Slot(v, k) \notin Lost(A) => free[Slot(v, k)] = u[Slot(v, k)]
      BY <1>1, <1>9, SlotIsSlot DEF Fits
    <3>3. \A k \in Keys : b.projection.previous[k] = IF k \in Managed[v] THEN free[Slot(v, k)]
                                                     ELSE Untracked
      BY <1>12, <1>13, <2>1
    <3> HIDE DEF free, u, v
    <3> QED
      BY <3>1, <3>2, <3>3 DEF Remembers
  <2>2. CASE previous # NoBinding
    BY <1>8, <1>12, <2>2 DEF Remembers
  <2> QED
    BY <2>1, <2>2
<1>15. PICK f \in FirstAttached(A) : \A k \in Keys :
         IF k \in Managed[f]
         THEN Slot(f, k) \notin Lost(A) => b.projection.previous[k] = u[Slot(f, k)]
         ELSE b.projection.previous[k] = Untracked
  BY <1>6, <1>14 DEF Remembers
<1>16. Fits(A, u, values, b)
  <2>1. Owns(values, projection)
    BY OwnsApplied
  <2>2. Owns(values, b.projection)
    BY <1>12, <2>1 DEF Owns, ProjectionOf
  <2>3. ASSUME NEW g, Mistaken(v, g) \subseteq Lost(A),
               \A k \in Keys :
                 IF k \in Managed[g]
                 THEN Slot(g, k) \notin Lost(A) => b.projection.previous[k] = u[Slot(g, k)]
                 ELSE b.projection.previous[k] = Untracked
        PROVE  \A s \in Slots \ Lost(A) : DetachValues(values, b.projection)[s] = u[s]
    <3> DEFINE m == b.projection.previous
    <3>1. DetachValues(values, b.projection) = Restore(values, v, m)
      BY <1>12 DEF DetachValues
    <3> HIDE DEF m, u, v, free
    <3>2. \A s \in Slots \ Lost(A) :
            Restore(ApplyValues(free, v, LamValue(v, o)), v, m)[s] = u[s]
      BY <1>1, <1>7, <1>9, <1>11, <2>3, RestoredFits DEF m
    <3> QED
      BY <3>1, <3>2
  <2>4. \A s \in Slots \ Lost(A) : DetachValues(values, b.projection)[s] = u[s]
    <3>1. CASE previous # NoBinding
      BY <1>4, <1>11, <1>15, <2>3, <3>1
    <3>2. CASE previous = NoBinding
      <4>1. Mistaken(v, v) = {}
        BY DEF Mistaken
      <4>2. \A k \in Keys : Slot(v, k) \notin Lost(A) => free[Slot(v, k)] = u[Slot(v, k)]
        BY <1>1, <1>9, SlotIsSlot DEF Fits
      <4>3. \A k \in Keys : b.projection.previous[k] = IF k \in Managed[v] THEN free[Slot(v, k)]
                                                       ELSE Untracked
        BY <1>12, <1>13, <3>2
      <4> HIDE DEF free, u, v, values
      <4> QED
        BY <2>3, <4>1, <4>2, <4>3
    <3> QED
      BY <3>1, <3>2
  <2> QED
    BY <1>6, <2>2, <2>4 DEF Fits
<1>17. Fits(A, u, DetachValues(values, projection), NoBinding)
  BY <1>1, <1>7, <1>9, <1>11, UnappliedFits
<1>18. Fits(A, u, RolledBackValues(work'), previous)
  <2>1. CASE previous = NoBinding
    <3>1. RolledBackValues(work') = DetachValues(values, projection)
      BY <1>4, <2>1 DEF RolledBackValues
    <3> QED
      BY <1>17, <2>1, <3>1
  <2>2. CASE previous # NoBinding
    <3>1. RolledBackValues(work')
            = ReapplyValues(DetachValues(values, projection), previous.projection)
      BY <1>4, <2>2 DEF RolledBackValues
    <3> QED
      BY <1>7, <1>8, <1>17, <2>2, <3>1, ReappliedFits
  <2> QED
    BY <2>1, <2>2
<1> HIDE DEF values, projection, previous, u
<1>19. RecordFits(A, u, work')
  BY <1>4, <1>8, <1>14, <1>16, <1>18 DEF RecordFits, b
<1> QED
  BY <1>4, <1>19 DEF A, u

\* That of a detach too.
LEMMA DetachFits ==
  ASSUME IInv, ValuesInv, NEW o \in Ids, BeginDetach(o),
         NEW p \in Profiles, p = work'.profile, Calm(p), ~ProfileBusy(p)
  PROVE  /\ RecordFits(Applied(p) \cup AppliedBy(work'), original[p], work')
         /\ config[p] = work'.before
<1> DEFINE u == original[p]
           b == bindings[p]
           free == DetachValues(config[p].values, b.projection)
<1>1. plans[o].source = config[plans[o].profile] /\ bindings[plans[o].profile] # NoBinding
  BY DEF BeginDetach, PlanCurrent
<1>2. PICK intended :
        /\ intended \in Rendered(DetachValues(config[plans[o].profile].values,
                                              bindings[plans[o].profile].projection))
        /\ work' = [profile |-> plans[o].profile, kind |-> "detach",
                    state |-> "Prepared", error |-> "none",
                    storeRev |-> plans[o].storeRev, before |-> plans[o].source,
                    intended |-> intended,
                    projection |-> bindings[plans[o].profile].projection,
                    previous |-> bindings[plans[o].profile], prepared |-> NoBinding]
  BY DEF BeginDetach, Begin
<1>3. p = plans[o].profile
  BY <1>2
<1>4. /\ work'.kind = "detach" /\ work'.intended.values = free
      /\ work'.before = config[p] /\ work'.previous = b /\ work'.prepared = NoBinding
  BY <1>1, <1>2, <1>3 DEF Rendered
<1>5. ValuesOf(p) /\ b \in Bindings /\ b # NoBinding
  BY <1>1, <1>3 DEF ValuesInv, IInv, TypeOK
<1>6. Fits(Applied(p), u, config[p].values, b) /\ Remembers(Applied(p), u, b)
  BY <1>5, KnownWhenFree DEF ValuesOf
<1>7. Fits(Applied(p), u, free, NoBinding)
  BY <1>5, <1>6 DEF Fits
<1>8. RolledBackValues(work') = ReapplyValues(free, b.projection)
  BY <1>4 DEF RolledBackValues
<1> HIDE DEF u, b, free
<1>9. Fits(Applied(p), u, RolledBackValues(work'), b)
  BY <1>5, <1>6, <1>7, <1>8, ReappliedFits
<1>10. Remembers(Applied(p), u, NoBinding)
  BY DEF Remembers
<1>11. RecordFits(Applied(p), u, work')
  BY <1>4, <1>6, <1>7, <1>9, <1>10 DEF RecordFits
<1> QED
  BY <1>4, <1>11, RecordFitsGrows DEF u

-----------------------------------------------------------------------------
\* What the holder knows of the config it works on.

\* What it has to know when it is at a step that follows the journal write.
LEMMA SeesLater ==
  ASSUME original' = original, NEW p \in Profiles, pc' \notin BeforeJournal,
         NEW label, At' = label, SeenAt(label, Applied(p)', original[p], config'[p], work')
  PROVE  HolderSeesConfig(p)'
BY DEF HolderSeesConfig

LEMMA PrepareSees ==
  ASSUME IInv, PrepareCredential \/ PrepareGatewayBinding, NEW p \in Profiles, ValuesOf(p),
         pc' # "idle", work'.profile = p
  PROVE  HolderSeesConfig(p)'
<1>1. /\ pc \in BeforeJournal /\ pc' \in BeforeJournal \ {"idle"} /\ work' = work
      /\ UNCHANGED <<config, journal, original>>
  BY DEF PrepareCredential, PrepareGatewayBinding, Goto, Release, BeforeJournal, history
<1>2. HolderSeesConfig(p)
  BY <1>1 DEF ValuesOf, BeforeJournal
<1>3. pc \in BeforeJournal /\ ~ProfileBusy(p) =>
        /\ RecordFits(Applied(p) \cup AppliedBy(work), original[p], work)
        /\ config[p] = work.before
  BY <1>2 DEF HolderSeesConfig
<1>4. (ProfileBusy(p)' <=> ProfileBusy(p)) /\ Applied(p)' = Applied(p)
  BY <1>1, AppliedSame DEF ProfileBusy, Active
<1>5. At' = pc'
  BY <1>1 DEF At, BeforeJournal, Revoking
<1>6. SeenAt(pc', Applied(p)', original[p], config'[p], work')
  BY <1>1, SeenElsewhere DEF BeforeJournal
<1>7. RecordFits(Applied(p) \cup AppliedBy(work), original[p], work)'
        <=> RecordFits(Applied(p) \cup AppliedBy(work), original[p], work)
  BY <1>1, <1>4
<1>8. SeenAt(At, Applied(p), original[p], config[p], work)'
  BY <1>1, <1>5, <1>6
<1> QED
  BY <1>1, <1>3, <1>4, <1>7, <1>8 DEF HolderSeesConfig

LEMMA CreateSees ==
  ASSUME IInv, CreateJournal, NEW p \in Profiles, ValuesOf(p),
         pc' # "idle", work'.profile = p
  PROVE  HolderSeesConfig(p)'
<1>1. pc = "journal" /\ UNCHANGED <<config, original>>
  BY DEF CreateJournal, history
<1>2. CASE Goto("config_check") /\ ~ProfileBusy(work.profile)
  <2>1. work' = work /\ At' = "config_check" /\ pc' \notin BeforeJournal
    BY <1>2 DEF Goto, At, Revoking, BeforeJournal
  <2>2. config[p] = work.before
    BY <1>1, <1>2, <2>1 DEF ValuesOf, HolderSeesConfig, BeforeJournal
  <2> QED
    BY <1>1, <2>1, <2>2, SeesLater DEF SeenAt
<1>3. CASE Revoke(NewRef(work), "idle")
  <2>1. At' = "idle" /\ pc' \notin BeforeJournal
    BY <1>3, Lands
  <2> QED
    BY <1>1, <2>1, SeesLater, SeenElsewhere
<1> QED
  BY <1>2, <1>3 DEF CreateJournal

LEMMA RevokeSees ==
  ASSUME IInv, RevokeStore \/ RevokeCredential \/ MarkRevocationPending,
         NEW p \in Profiles, ValuesOf(p), pc' # "idle", work'.profile = p
  PROVE  HolderSeesConfig(p)'
<1>1. pc \in Revoking /\ At = next /\ UNCHANGED <<config, original, journal>>
        /\ next \in Journaled \cup {"idle"}
  BY DEF RevokeStore, RevokeCredential, MarkRevocationPending, At, Revoking, history,
         IInv, HolderKnows, HolderOK, Journaled, Undoing, Finishing
<1>2. /\ pc' \notin BeforeJournal
      /\ \/ At' = "idle"
         \/ At' = next /\ work' = work
  <2>1. CASE Continue(next)
    BY <1>1, <2>1, Lands
  <2>2. CASE Continue(AfterRevokeError)
    BY <1>1, <2>2, Lands DEF AfterRevokeError
  <2>3. CASE pc' \in {"revoke_credential", "revoke_pending"} /\ UNCHANGED <<work, next>>
    BY <2>3 DEF At, Revoking, BeforeJournal
  <2> QED
    BY <2>1, <2>2, <2>3 DEF RevokeStore, RevokeCredential, MarkRevocationPending
<1>3. CASE At' = "idle"
  BY <1>1, <1>2, <1>3, SeesLater, SeenElsewhere
<1>4. CASE At' = next /\ work' = work
  <2>1. HolderSeesConfig(p)
    BY <1>1, <1>4 DEF ValuesOf, Revoking
  <2> QED
    BY <1>1, <1>2, <1>4, <2>1, AppliedSame, SeesLater DEF HolderSeesConfig
<1> QED
  BY <1>2, <1>3, <1>4

LEMMA ExecuteSees ==
  ASSUME IInv, [Next]_vars, NEW p \in Profiles, ValuesOf(p), p \notin touched',
         \/ CheckConfig \/ WriteConfig \/ FailConfig \/ MarkConfigCommitted
         \/ CheckDrift \/ MarkDrift \/ CommitBinding \/ MarkBindingCommitted \/ Finish,
         pc' \notin {"idle", "recover_next"}, work'.profile = p
  PROVE  HolderSeesConfig(p)'
<1>1. /\ pc \in Journaled /\ original' = original
      /\ pc \notin {"idle", "recover_next"} \cup Revoking
  BY DEF CheckConfig, WriteConfig, FailConfig, MarkConfigCommitted, CheckDrift,
         MarkDrift, CommitBinding, MarkBindingCommitted, Finish, history,
         Journaled, Executing, Undoing, Finishing, Revoking
<1>2. At = pc /\ work.profile \in Profiles /\ config \in [Profiles -> Configs]
  BY <1>1, WorkFacts DEF IInv, TypeOK
<1>grow. \A values, b : Fits(Applied(p), original[p], values, b)
                        => Fits(Applied(p)', original[p], values, b)
  BY AppliedGrows, FitsGrows
\* What it knows where it is.
<1>3. work.profile = p =>
        /\ RecordFits(Applied(p), original[p], work)
        /\ pc \in {"config_check", "config_rename"} => config[p] = work.before
        /\ pc \in {"config_committed", "drift_check", "binding_cas"} =>
             Fits(Applied(p), original[p], config[p].values, work.prepared)
  BY <1>1, <1>2, WorkFits DEF ValuesOf, HolderSeesConfig, SeenAt
\* What it needs to know where it goes.
<1>4. ASSUME NEW label \in Journaled \cup {"idle"}, NEW r,
             Goto(label) \/ Continue(label) \/ Revoke(r, label),
             work.profile = p /\ label # "idle" => SeenAt(label, Applied(p)', original[p], config'[p], work)
      PROVE  HolderSeesConfig(p)'
  <2>1. At' = label /\ pc' \notin BeforeJournal
          /\ (label # "idle" => UNCHANGED work)
    BY <1>4, Lands
  <2>2. CASE label = "idle"
    BY <1>1, <2>1, <2>2, SeesLater, SeenElsewhere
  <2>3. CASE label # "idle"
    BY <1>1, <1>4, <2>1, <2>3, SeesLater
  <2> QED
    BY <2>2, <2>3
<1>5. CASE CheckConfig
  <2>1. UNCHANGED config /\ pc = "config_check"
    BY <1>5 DEF CheckConfig, durable
  <2>2. CASE config[work.profile] = work.before
    <3>1. Goto("config_rename")
      BY <1>5, <2>2 DEF CheckConfig
    <3>2. work.profile = p => SeenAt("config_rename", Applied(p)', original[p], config'[p], work)
      BY <2>1, <2>2 DEF SeenAt
    <3> QED
      BY <1>4, <3>1, <3>2 DEF Journaled, Executing
  <2>3. CASE config[work.profile] # work.before
    <3>1. work.profile # p
      BY <1>3, <2>1, <2>3
    <3>2. Release \/ UNCHANGED work
      BY <1>5, <2>3 DEF CheckConfig, ConfigFailure, Revoke, Continue, Goto
    <3> QED
      BY <3>1, <3>2 DEF Release
  <2> QED
    BY <2>2, <2>3
<1>6. CASE WriteConfig
  <2>1. CASE Goto("config_committed") /\ config' = [config EXCEPT ![work.profile] = work.intended]
    <3>1. work.profile = p => SeenAt("config_committed", Applied(p)', original[p], config'[p], work)
      BY <1>grow, <1>2, <1>3, <2>1 DEF SeenAt, RecordFits
    <3> QED
      BY <1>4, <2>1, <3>1 DEF Journaled
  <2>2. CASE ConfigFailure /\ UNCHANGED config
    <3>1. Release \/ Revoke(NewRef(work), "fail_config")
      BY <2>2 DEF ConfigFailure
    <3>2. work.profile = p => SeenAt("fail_config", Applied(p)', original[p], config'[p], work)
      BY <1>grow, <1>3, <1>6, <2>2 DEF SeenAt, RecordFits, WriteConfig
    <3>3. CASE Release
      BY <3>3 DEF Release
    <3> QED
      BY <1>4, <3>1, <3>2, <3>3 DEF Journaled, Undoing
  <2>3. CASE ConfigFailure /\ touched' = touched \cup {work.profile}
    <3>1. Release \/ UNCHANGED work
      BY <2>3 DEF ConfigFailure, Revoke, Continue, Goto
    <3> QED
      BY <2>3, <3>1 DEF Release
  <2> QED
    BY <1>6, <2>1, <2>2, <2>3 DEF WriteConfig
<1>7. CASE FailConfig \/ MarkDrift
  BY <1>7 DEF FailConfig, MarkDrift, Release
<1>8. CASE MarkConfigCommitted
  <2>1. UNCHANGED config /\ pc = "config_committed"
    BY <1>8 DEF MarkConfigCommitted
  <2>2. PICK label \in {"binding_committed", "binding_cas", "drift_check"} : Goto(label)
    BY <1>8 DEF MarkConfigCommitted
  <2>3. work.profile = p => SeenAt(label, Applied(p)', original[p], config'[p], work)
    BY <1>grow, <1>3, <2>1 DEF SeenAt
  <2> QED
    BY <1>4, <2>2, <2>3 DEF Journaled, Executing, Finishing
<1>9. CASE CheckDrift
  <2>1. UNCHANGED config /\ pc = "drift_check"
    BY <1>9 DEF CheckDrift, durable
  <2>2. PICK label \in {"binding_cas", "drift_manual"} :
          Goto(label) \/ Revoke(NewRef(work), label)
    BY <1>9 DEF CheckDrift
  <2>3. work.profile = p => SeenAt(label, Applied(p)', original[p], config'[p], work)
    BY <1>grow, <1>3, <2>1 DEF SeenAt
  <2> QED
    BY <1>4, <2>2, <2>3 DEF Journaled, Executing, Undoing
<1>10. CASE CommitBinding
  BY <1>4, <1>10, SeenElsewhere DEF CommitBinding, Journaled, Finishing
<1>11. CASE MarkBindingCommitted
  BY <1>4, <1>11, SeenElsewhere DEF MarkBindingCommitted, Journaled, Finishing
<1>12. CASE Finish
  <2>1. Release \/ Goto("recover_next")
    BY <1>12 DEF Finish, Continue, AfterRecord
  <2> QED
    BY <2>1 DEF Release, Goto
<1> QED
  BY <1>5, <1>6, <1>7, <1>8, <1>9, <1>10, <1>11, <1>12

LEMMA RecoverSees ==
  ASSUME IInv, ValuesInv, [Next]_vars, NEW p \in Profiles, ValuesOf(p), Recover,
         pc' \notin {"idle", "recover_next"}, work'.profile = p
  PROVE  HolderSeesConfig(p)'
<1>1. original' = original
  BY DEF Recover, RecoverNext, RecoverGiveUp, RecoverForward, RecoverBack, CheckRollback,
         WriteRollback, MarkRolledBack, history
<1>2. ASSUME NEW label \in Journaled \cup {"idle"}, NEW r, pc \in Journaled,
             Goto(label) \/ Continue(label) \/ Revoke(r, label),
             work.profile = p /\ label # "idle" => SeenAt(label, Applied(p)', original[p], config'[p], work)
      PROVE  HolderSeesConfig(p)'
  <2>1. /\ At' = label /\ pc' \notin BeforeJournal
        /\ (label # "idle" => UNCHANGED work)
    BY <1>2, Lands
  <2>2. CASE label = "idle"
    BY <1>1, <2>1, <2>2, SeesLater, SeenElsewhere
  <2>3. CASE label # "idle"
    BY <1>1, <1>2, <2>1, <2>3, SeesLater
  <2> QED
    BY <2>2, <2>3
<1>grow. \A values, b : Fits(Applied(p), original[p], values, b)
                        => Fits(Applied(p)', original[p], values, b)
  BY AppliedGrows, FitsGrows
<1>3. pc \in Journaled =>
        /\ At = pc /\ cur \in Ids /\ Active(cur) /\ SameOperation(work, journal[cur])
        /\ work.profile \in Profiles /\ work \in Records
  BY WorkFacts
<1>4. pc \in Journaled /\ work.profile = p => RecordFits(Applied(p), original[p], work)
  BY WorkFits
<1>5. config \in [Profiles -> Configs] /\ original[p] \in InitialValues
  BY DEF IInv, TypeOK, ValuesInv
<1>6. CASE RecoverNext
  <2>1. pc' = "recover" /\ At' = pc'
    BY <1>6 DEF RecoverNext, Release, At, Revoking
  <2> QED
    BY <1>1, <2>1, SeesLater, SeenElsewhere DEF BeforeJournal
<1>7. CASE RecoverGiveUp
  BY <1>7 DEF RecoverGiveUp, Release
<1>8. CASE RecoverForward
  <2>1. pc \in Journaled /\ Committed(work) /\ UNCHANGED config
    BY <1>8 DEF RecoverForward, durable, Journaled
  <2>2. PICK label \in {"config_committed", "binding_committed", "finish"} :
          Goto(label) \/ Revoke(OldRef(work), label)
    BY <1>8 DEF RecoverForward
  <2>3. ASSUME work.profile = p
        PROVE  Fits(Applied(p), original[p], config[p].values, work.prepared)
    <3>1. bindings[p] = work.prepared
      BY <2>1, <2>3 DEF Committed
    <3>2. ASSUME NEW o \in Ids, Active(o), journal[o].profile = p
          PROVE  journal[o].prepared = work.prepared
      <4>1. journal[cur].profile = p /\ journal[cur].prepared = work.prepared
        BY <1>3, <2>1, <2>3 DEF SameOperation
      <4> QED
        BY <1>3, <2>1, <3>2, <4>1 DEF IInv, OneActivePerProfile
    <3> QED
      BY <3>1, <3>2 DEF ValuesOf, ConfigIsKnown
  <2>4. work.profile = p => SeenAt(label, Applied(p)', original[p], config'[p], work)
    BY <1>grow, <2>1, <2>3 DEF SeenAt
  <2> QED
    BY <1>2, <2>1, <2>2, <2>4 DEF Journaled, Finishing
<1>9. CASE RecoverBack
  <2>1. pc \in Journaled /\ UNCHANGED config
    BY <1>9 DEF RecoverBack, durable, Journaled
  <2>2. CASE config[work.profile] = work.intended
    BY <1>2, <1>9, <2>1, <2>2, SeenElsewhere DEF RecoverBack, Journaled, Undoing
  <2>3. CASE config[work.profile] # work.intended
    <3>1. config[work.profile] = work.before
      BY <1>9, <2>3 DEF RecoverBack, Conflict
    <3>2. work.profile = p => SeenAt("rolled_back", Applied(p)', original[p], config'[p], work)
      BY <1>grow, <1>4, <2>1, <3>1 DEF SeenAt, RecordFits
    <3> QED
      BY <1>2, <1>9, <2>1, <2>3, <3>2 DEF RecoverBack, Journaled, Undoing
  <2> QED
    BY <2>2, <2>3
<1>10. CASE CheckRollback
  <2>1. pc \in Journaled /\ Goto("rollback_rename")
    BY <1>10 DEF CheckRollback, Release, Journaled, Undoing
  <2> QED
    BY <1>2, <2>1, SeenElsewhere DEF Journaled, Undoing
<1>11. CASE WriteRollback
  <2>1. pc \in Journaled /\ Revoke(NewRef(work), "rolled_back")
    BY <1>11 DEF WriteRollback, Journaled, Undoing
  <2>2. config'[work.profile].values = RolledBackValues(work)
    BY <1>3, <1>5, <1>11, <2>1 DEF WriteRollback, Rendered
  <2>3. work.profile = p => SeenAt("rolled_back", Applied(p)', original[p], config'[p], work)
    BY <1>grow, <1>4, <2>1, <2>2 DEF SeenAt, RecordFits
  <2> QED
    BY <1>2, <2>1, <2>3 DEF Journaled, Undoing
<1>12. CASE MarkRolledBack
  <2>1. Release \/ Goto("recover_next")
    BY <1>12 DEF MarkRolledBack, Continue, AfterRecord
  <2> QED
    BY <2>1 DEF Release, Goto
<1> QED
  BY <1>6, <1>7, <1>8, <1>9, <1>10, <1>11, <1>12 DEF Recover

\* Beginning an operation.
LEMMA BeginSees ==
  ASSUME IInv, ValuesInv, NEW p \in Profiles, Calm(p),
         NEW o \in Ids, BeginAttach(o) \/ BeginDetach(o), work'.profile = p
  PROVE  HolderSeesConfig(p)'
<1>1. /\ pc' \in {"gateway_credential", "journal"}
      /\ UNCHANGED <<config, journal, original>>
  BY DEF BeginAttach, BeginDetach, Begin, durable, history
<1>2. At' = pc'
  BY <1>1 DEF At, Revoking
<1>3. SeenAt(At, Applied(p), original[p], config[p], work)'
  BY <1>1, <1>2, SeenElsewhere
<1>4. ProfileBusy(p)' <=> ProfileBusy(p)
  BY <1>1 DEF ProfileBusy, Active
<1>5. ~ProfileBusy(p) =>
        /\ RecordFits(Applied(p) \cup AppliedBy(work'), original[p], work')
        /\ config[p] = work'.before
  BY AttachFits, DetachFits
<1>6. ~ProfileBusy(p)' => (/\ RecordFits(Applied(p) \cup AppliedBy(work), original[p], work)
                          /\ config[p] = work.before)'
  BY <1>1, <1>4, <1>5, AppliedSame
<1> QED
  BY <1>3, <1>6 DEF HolderSeesConfig

\* Every step.
LEMMA SeesStep ==
  ASSUME IInv, ValuesInv, [Next]_vars, NEW p \in Profiles,
         Calm(p)', Calm(p), ValuesOf(p),
         pc' \notin {"idle", "recover_next"}, work'.profile = p
  PROVE  HolderSeesConfig(p)'
<1>1. p \notin touched'
  BY DEF Calm
<1>2. CASE UNCHANGED vars \/ \E q \in Profiles : EditConfig(q)
  <2>1. UNCHANGED <<holder, journal, original>> /\ config'[p] = config[p]
    BY <1>1, <1>2 DEF EditConfig, vars, holder, IInv, TypeOK
  <2>2. HolderSeesConfig(p)
    BY <2>1 DEF ValuesOf, holder
  <2> QED
    BY <2>1, <2>2 DEF HolderSeesConfig, ProfileBusy, Active, At, holder, Applied
<1>3. CASE \/ \E o \in Ids, q \in Profiles, v \in Providers : PlanAttach(o, q, v)
           \/ \E o \in Ids, q \in Profiles : PlanDetach(o, q)
           \/ StartRecovery \/ Die
  BY <1>3 DEF PlanAttach, PlanDetach, StartRecovery, Die, Release, holder
<1>4. CASE \E o \in Ids : BeginAttach(o) \/ BeginDetach(o)
  BY <1>4, BeginSees
<1>5. CASE Execute
  BY <1>1, <1>5, PrepareSees, CreateSees, ExecuteSees, RevokeSees DEF Execute
<1>6. CASE Recover
  BY <1>6, RecoverSees
<1> QED
  BY <1>2, <1>3, <1>4, <1>5, <1>6 DEF Next

\* Every step keeps what the configs hold.
LEMMA ValuesStep ==
  ASSUME IInv, ValuesInv, [Next]_vars
  PROVE  ValuesInv'
<1>1. original' = original
  BY HistoryStep
<1>2. ASSUME NEW p \in Profiles, Calm(p)'
      PROVE  ValuesOf(p)'
  <2>1. Calm(p) /\ ValuesOf(p)
    BY <1>2, CalmBefore DEF ValuesInv
  <2>2. Remembers(Applied(p), original[p], bindings[p])'
    BY <1>1, <2>1, BindingFitsStep
  <2>3. ASSUME NEW o \in Ids, Active(o)', journal'[o].profile = p
        PROVE  RecordFits(Applied(p), original[p], journal[o])'
    BY <1>1, <2>1, <2>3, RecordsFitStep
  <2>4. ConfigIsKnown(p)'
    BY <1>2, <2>1, ConfigKnownStep
  <2>5. pc' \notin {"idle", "recover_next"} /\ work'.profile = p => HolderSeesConfig(p)'
    BY <1>2, <2>1, SeesStep
  <2> QED
    BY <2>2, <2>3, <2>4, <2>5 DEF ValuesOf
<1> QED
  BY <1>1, <1>2 DEF ValuesInv

LEMMA InitValues ==
  ASSUME Init
  PROVE  ValuesInv
<1>1. original \in [Profiles -> InitialValues]
  BY DEF Init
<1>2. ASSUME NEW p \in Profiles
      PROVE  ValuesOf(p)
  BY DEF Init, ValuesOf, Remembers, Fits, ConfigIsKnown, Active
<1> QED
  BY <1>1, <1>2 DEF ValuesInv

\* With no operation in flight the config of a calm profile fits its binding.
LEMMA SettledMatches ==
  ASSUME IInv, ValuesInv
  PROVE  ConfigMatchesBinding
<1> SUFFICES ASSUME NEW p \in Profiles, Settled(p), p \notin touched
             PROVE  IF bindings[p] # NoBinding
                    THEN Owns(config[p].values, bindings[p].projection)
                    ELSE \A s \in Slots \ Lost(Applied(p)) :
                           config[p].values[s] = original[p][s]
  BY DEF ConfigMatchesBinding
<1>1. Calm(p) /\ ~ProfileBusy(p)
  BY DEF Settled, Calm, ProfileBusy, Active, ActiveStates
<1>2. Fits(Applied(p), original[p], config[p].values, bindings[p])
  BY <1>1, KnownWhenFree DEF ValuesInv, ValuesOf
<1> QED
  BY <1>2 DEF Fits

\* With no operation in flight, a bound profile's config.toml holds everything
\* that its binding claims, and an unbound one's is as its user left it but
\* for the slots that LAM is known to lose: through any sequence of attaches,
\* rebinds to whatever provider, detaches, crashes, recoveries and rollbacks,
\* whichever keys each provider manages and whatever the user's tables hold.
THEOREM ConfigsMatch == Spec => []ConfigMatchesBinding
<1>1. Init => ValuesInv
  BY InitValues
<1>2. IInv /\ ValuesInv /\ [Next]_vars => ValuesInv'
  BY ValuesStep
<1>3. IInv /\ ValuesInv => ConfigMatchesBinding
  BY SettledMatches
<1> QED
  BY <1>1, <1>2, <1>3, Invariance, PTL DEF Spec
=============================================================================
