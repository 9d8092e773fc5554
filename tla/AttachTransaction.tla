-------------------------- MODULE AttachTransaction --------------------------
(***************************************************************************)
(* Attaching, rebinding and detaching a profile as a journaled transaction *)
(* over three resources: the profile's config.toml, the store of profile   *)
(* bindings and the store of Gateway bindings with their credentials       *)
(* (services/provider_attach_transaction.rs, with the Gateway half of      *)
(* services/gateway/binding.rs).                                           *)
(*                                                                         *)
(* One process at a time holds the installation lock; pc is where it is,   *)
(* work the journal record it works on.  Every durable write is a step of  *)
(* its own, so the process can die between any two of them (Die), and any  *)
(* program that does not take the lock can edit a config between them      *)
(* (EditConfig).  A plan, its operation and the Gateway binding it asks    *)
(* for are all named by one id: a plan starts at most one operation.       *)
(***************************************************************************)
EXTENDS Naturals, FiniteSets, ConfigProjection

CONSTANTS
  Profiles,          \* profile ids
  Ids,               \* plan, operation and Gateway binding ids
  GatewayProviders,  \* the providers whose route goes through the Gateway
  UserValues,        \* values a user writes into a slot
  UserSlots,         \* slots a user edits
  InitialValues,     \* what the configs may hold before LAM touches them
  NoPlan, NoRecord, NoBinding, NoRef,
  MaxEdits,          \* bound: edits by programs other than LAM
  MaxCrashes,        \* bound: deaths of the lock holder
  MaxFaults          \* bound: failing writes of a store, config or credential

ASSUME AttachAssumption ==
  /\ GatewayProviders \subseteq Providers
  /\ UserSlots \subseteq Slots
  /\ InitialValues \subseteq [Slots -> UserValues \cup {Absent}]
  /\ NoRef \notin Ids
  /\ MaxEdits \in Nat /\ MaxCrashes \in Nat /\ MaxFaults \in Nat

VARIABLES
  config,      \* config.toml of each profile
  bindings,    \* the binding of each profile, in bindings.json
  bindingRev,  \* the revision of that store
  journal,     \* attach-journal.json: the record of each operation
  gateway,     \* gateway-bindings.json and the credentials it refers to
  plans,       \* approved, unconsumed plans (memory of the process)
  pc,          \* what the holder of the installation lock does next
  mode,        \* what it runs: execute_attach/detach, or recover_pending
  cur,         \* the id of its operation
  work,        \* the record of its operation, as it was journaled or read
  ref,         \* the Gateway binding that is being revoked
  next,        \* where the revocation returns to
  original,    \* history: the values of each config before LAM touched it
  touched,     \* history: profiles whose config changed without LAM knowing
  raced,       \* history: the config was edited since LAM checked its hash
  edits, crashes, faults

durable == <<config, bindings, bindingRev, journal, gateway>>
holder  == <<pc, mode, cur, work, ref, next>>
history == <<original, touched, raced>>
bounds  == <<edits, crashes, faults>>
vars    == <<config, bindings, bindingRev, journal, gateway, plans,
             pc, mode, cur, work, ref, next,
             original, touched, raced, edits, crashes, faults>>

-----------------------------------------------------------------------------
(* Data *)

LamValue(p, o) == <<p, IF p \in GatewayProviders THEN o ELSE NoRef>>

SlotValues == UserValues \cup {Absent}
                \cup {LamValue(p, o) : p \in Providers, o \in Ids}

Configs == [values : [Slots -> SlotValues], form : Forms]

Projections == [provider : Providers,
                previous : [Keys -> SlotValues \cup {Untracked}],
                managed  : [Keys -> SlotValues \cup {Untracked}]]

Bindings == [provider : Providers, gw : Ids \cup {NoRef}, rev : Nat,
             applied : Configs, projection : Projections]

ActiveStates == {"Prepared", "ConfigCommitted", "BindingCommitted"}
States == ActiveStates \cup {"Completed", "RolledBack", "ManualIntervention"}

Errors == {"none", "config_write", "ownership", "binding_conflict",
           "config_conflict", "state_conflict"}

\* validate_record: which bindings an operation starts from and aims at.
ValidShape(r) ==
  /\ r.previous = NoBinding <=> r.kind = "attach"
  /\ r.prepared = NoBinding <=> r.kind = "detach"

Records ==
  {r \in [profile : Profiles, kind : {"attach", "rebind", "detach"},
          state : States, error : Errors,
          storeRev : Nat, before : Configs, intended : Configs,
          projection : Projections,
          previous : Bindings \cup {NoBinding},
          prepared : Bindings \cup {NoBinding}] : ValidShape(r)}

Plans == [kind : {"attach", "detach"}, profile : Profiles,
          provider : Providers, storeRev : Nat, rev : Nat, source : Configs]

GatewayBindings == [status : {"unused", "live", "revoked"},
                    credential : BOOLEAN, pending : BOOLEAN]

ASSUME SentinelAssumption ==
  /\ Untracked \notin SlotValues
  /\ Absent \notin {LamValue(p, o) : p \in Providers, o \in Ids}
  /\ NoRecord \notin Records /\ NoBinding \notin Bindings /\ NoPlan \notin Plans
  /\ NoRecord \notin [profile : Profiles, from : Bindings \cup {NoBinding},
                      to : Bindings \cup {NoBinding},
                      phase : {"running", "done", "undone", "stuck"}]

RefOf(b) == IF b = NoBinding THEN NoRef ELSE b.gw
RevOf(b) == IF b = NoBinding THEN 0 ELSE b.rev
NewRef(r) == RefOf(r.prepared)
OldRef(r) == RefOf(r.previous)

Active(o) == journal[o] # NoRecord /\ journal[o].state \in ActiveStates

ValidTransition(from, to) ==
  \/ from = "Prepared" /\ to \in {"ConfigCommitted", "RolledBack", "ManualIntervention"}
  \/ from = "ConfigCommitted" /\ to \in {"BindingCommitted", "RolledBack", "ManualIntervention"}
  \/ from = "BindingCommitted" /\ to \in {"Completed", "ManualIntervention"}

\* transition_journal_locked: a journal write that the state machine admits.
Transition(o, to, error) ==
  /\ ValidTransition(journal[o].state, to)
  /\ journal' = [journal EXCEPT ![o].state = to, ![o].error = error]

Goto(label) ==
  /\ pc' = label
  /\ ref' = NoRef /\ next' = "idle"
  /\ UNCHANGED <<mode, cur, work>>

\* The holder returns: the guard is dropped and the lock with it.
Release ==
  /\ pc' = "idle" /\ mode' = "execute"
  /\ cur' = NoRef /\ work' = NoRecord
  /\ ref' = NoRef /\ next' = "idle"

Continue(label) == IF label = "idle" THEN Release ELSE Goto(label)

Revoke(r, label) ==
  IF r = NoRef THEN Continue(label)
  ELSE /\ pc' = "revoke_store"
       /\ ref' = r
       /\ next' = label
       /\ UNCHANGED <<mode, cur, work>>

\* After a record is terminal: recovery goes on, an operation returns.
AfterRecord == IF mode = "recover" THEN "recover_next" ELSE "idle"

\* A failing write, within the bound.
Fault == faults < MaxFaults /\ faults' = faults + 1
NoFault == UNCHANGED faults

-----------------------------------------------------------------------------
(* Dry run: plan_attach_service_v2 and plan_detach_service_v2.  A plan     *)
(* with blockers is never executed, so only plans without are kept; the    *)
(* drift of an existing binding is such a blocker.                         *)

Fresh(o) == plans[o] = NoPlan /\ journal[o] = NoRecord /\ gateway[o].status = "unused"
              /\ ~gateway[o].credential

UnmanagedKeepsOld(p) == config[p].values

Unmanaged(p) ==
  IF bindings[p] = NoBinding THEN config[p].values
  ELSE DetachValues(config[p].values, bindings[p].projection)

Drifted(p) == bindings[p] # NoBinding /\ bindings[p].applied # config[p]

Attachable(p, v) ==
  /\ bindings[p] # NoBinding => Owns(config[p].values, bindings[p].projection)
  /\ Applicable(Unmanaged(p), v)

PlanWith(o, kind, p, v) ==
  plans' = [plans EXCEPT ![o] =
              [kind |-> kind, profile |-> p, provider |-> v,
               storeRev |-> bindingRev, rev |-> RevOf(bindings[p]),
               source |-> config[p]]]

PlanAttach(o, p, v) ==
  /\ pc = "idle" /\ Fresh(o)
  /\ ~Drifted(p)
  /\ Attachable(p, v)
  /\ PlanWith(o, "attach", p, v)
  /\ UNCHANGED <<durable, holder, history, bounds>>

PlanDetach(o, p) ==
  /\ pc = "idle" /\ Fresh(o)
  /\ bindings[p] # NoBinding
  /\ PlanWith(o, "detach", p, bindings[p].provider)
  /\ UNCHANGED <<durable, holder, history, bounds>>

-----------------------------------------------------------------------------
(* execute_attach and execute_detach, up to the journal.                   *)

\* validate_attach_state, and the checks at the head of execute_detach.
PlanCurrent(o) ==
  LET plan == plans[o] IN
  /\ plan # NoPlan /\ journal[o] = NoRecord
  /\ plan.storeRev = bindingRev
  /\ plan.rev = RevOf(bindings[plan.profile])
  /\ plan.source = config[plan.profile]

\* The binding that the transaction is to commit (build_prepared_binding):
\* a rebind keeps what the first attach recorded of the user's values.
PreparedBinding(o, v, intended, projection, previous) ==
  [provider |-> v,
   gw |-> IF v \in GatewayProviders THEN o ELSE NoRef,
   rev |-> RevOf(previous) + 1,
   applied |-> intended,
   projection |->
     IF previous = NoBinding THEN projection
     ELSE [projection EXCEPT !.previous = previous.projection.previous]]

Begin(o, record, label) ==
  /\ pc' = label
  /\ mode' = "execute"
  /\ cur' = o
  /\ work' = record
  /\ UNCHANGED <<ref, next>>

BeginAttach(o) ==
  LET p == plans[o].profile
      v == plans[o].provider
      previous == bindings[p]
      values == ApplyValues(Unmanaged(p), v, LamValue(v, o))
      projection == ProjectionOf(Unmanaged(p), values, v)
  IN /\ pc = "idle"
     /\ PlanCurrent(o)
     /\ plans[o].kind = "attach"
     /\ Attachable(p, v)
     /\ v \in GatewayProviders => gateway[o].status = "unused"
     /\ \E intended \in Rendered(values) :
          Begin(o,
                [profile |-> p,
                 kind |-> IF previous = NoBinding THEN "attach" ELSE "rebind",
                 state |-> "Prepared", error |-> "none",
                 storeRev |-> plans[o].storeRev, before |-> plans[o].source,
                 intended |-> intended, projection |-> projection, previous |-> previous,
                 prepared |-> PreparedBinding(o, v, intended, projection, previous)],
                IF v \in GatewayProviders THEN "gateway_credential" ELSE "journal")
     /\ UNCHANGED <<durable, plans, history, bounds>>

BeginDetach(o) ==
  LET p == plans[o].profile
      current == bindings[p]
  IN /\ pc = "idle"
     /\ PlanCurrent(o)
     /\ plans[o].kind = "detach"
     /\ current # NoBinding
     /\ Owns(config[p].values, current.projection)
     /\ \E intended \in Rendered(DetachValues(config[p].values, current.projection)) :
          Begin(o,
                [profile |-> p, kind |-> "detach",
                 state |-> "Prepared", error |-> "none",
                 storeRev |-> plans[o].storeRev, before |-> plans[o].source,
                 intended |-> intended, projection |-> current.projection, previous |-> current,
                 prepared |-> NoBinding],
                "journal")
     /\ UNCHANGED <<durable, plans, history, bounds>>

\* prepare_candidate_locked: the credential is written before the store
\* commits, and deleted (if that works) when the commit fails.
PrepareCredential ==
  /\ pc = "gateway_credential"
  /\ \/ /\ NoFault
        /\ gateway' = [gateway EXCEPT ![cur].credential = TRUE]
        /\ Goto("gateway_store")
     \/ /\ Fault
        /\ UNCHANGED gateway
        /\ Release
  /\ UNCHANGED <<config, bindings, bindingRev, journal, plans,
                 history, edits, crashes>>

PrepareGatewayBinding ==
  /\ pc = "gateway_store"
  /\ \/ /\ NoFault
        /\ gateway' = [gateway EXCEPT ![cur].status = "live"]
        /\ Goto("journal")
     \/ /\ Fault
        /\ gateway' = [gateway EXCEPT ![cur].credential = FALSE]
        /\ Release
  /\ UNCHANGED <<config, bindings, bindingRev, journal, plans,
                 history, edits, crashes>>

\* create_journal_locked: one active operation per profile.  The plan is
\* consumed as soon as the record is durable; a failure, which may be that of
\* syncing the directory after the rename, revokes the Gateway binding that
\* was just prepared.
ProfileBusyPreparedOnly(p) ==
  \E o \in Ids : journal[o] # NoRecord /\ journal[o].profile = p
                   /\ journal[o].state = "Prepared"

ProfileBusy(p) == \E o \in Ids : Active(o) /\ journal[o].profile = p

CreateJournal ==
  /\ pc = "journal"
  /\ \/ /\ ~ProfileBusy(work.profile)
        /\ NoFault
        /\ journal' = [journal EXCEPT ![cur] = work]
        /\ plans' = [plans EXCEPT ![cur] = NoPlan]
        /\ Goto("config_check")
     \/ /\ IF ProfileBusy(work.profile) THEN NoFault /\ UNCHANGED journal
           ELSE /\ Fault
                /\ \/ UNCHANGED journal
                   \/ journal' = [journal EXCEPT ![cur] = work]
        /\ Revoke(NewRef(work), "idle")
        /\ UNCHANGED plans
  /\ UNCHANGED <<config, bindings, bindingRev, gateway,
                 history, edits, crashes>>

-----------------------------------------------------------------------------
(* execute_attach and execute_detach, from the journal on.                 *)

\* What a failed config write leads to: an attach revokes what it prepared
\* and rolls its record back, a detach returns and leaves its record.
ConfigFailure ==
  IF work.kind = "detach" THEN Release
  ELSE Revoke(NewRef(work), "fail_config")

\* replace_config_file and apply_projection_file compare the hash before
\* they write the temporary file ...
CheckConfigUnchecked ==
  /\ pc = "config_check"
  /\ raced' = FALSE
  /\ Goto("config_rename")
  /\ UNCHANGED <<durable, plans, original, touched, bounds>>

CheckConfig ==
  /\ pc = "config_check"
  /\ IF config[work.profile] = work.before
     THEN /\ raced' = FALSE
          /\ Goto("config_rename")
     ELSE /\ ConfigFailure
          /\ UNCHANGED raced
  /\ UNCHANGED <<durable, plans, original, touched, bounds>>

\* ... and rename it over the config afterwards.  The write may fail before
\* the rename, or after it, when the directory cannot be synced.
WriteConfig ==
  /\ pc = "config_rename"
  /\ raced' = FALSE
  /\ \/ /\ NoFault
        /\ config' = [config EXCEPT ![work.profile] = work.intended]
        /\ Goto("config_committed")
        /\ UNCHANGED touched
     \/ /\ Fault
        /\ ConfigFailure
        /\ \/ UNCHANGED <<config, touched>>
           \/ /\ config' = [config EXCEPT ![work.profile] = work.intended]
              /\ touched' = touched \cup {work.profile}
  /\ UNCHANGED <<bindings, bindingRev, journal, gateway, plans, original,
                 edits, crashes>>

\* A failed config write of an attach: the journal write is best effort.
FailConfig ==
  /\ pc = "fail_config"
  /\ \/ NoFault /\ Transition(cur, "RolledBack", "config_write")
     \/ Fault /\ UNCHANGED journal
  /\ Release
  /\ UNCHANGED <<config, bindings, bindingRev, gateway, plans,
                 history, edits, crashes>>

\* Executing, an attach looks at the config again and a detach goes straight
\* to the binding store; recovery rolls the record forward.
MarkConfigCommitted ==
  /\ pc = "config_committed"
  /\ Transition(cur, "ConfigCommitted", "none")
  /\ Goto(IF mode = "recover" THEN "binding_committed"
          ELSE IF work.kind = "detach" THEN "binding_cas" ELSE "drift_check")
  /\ UNCHANGED <<config, bindings, bindingRev, gateway, plans, history, bounds>>

CheckDrift ==
  /\ pc = "drift_check"
  /\ IF config[work.profile] = work.intended THEN Goto("binding_cas")
     ELSE Revoke(NewRef(work), "drift_manual")
  /\ UNCHANGED <<durable, plans, history, bounds>>

MarkDrift ==
  /\ pc = "drift_manual"
  /\ Transition(cur, "ManualIntervention", "ownership")
  /\ Release
  /\ UNCHANGED <<config, bindings, bindingRev, gateway, plans, history, bounds>>

\* The commit point: one compare-and-swap of the binding store.
CommitBinding ==
  /\ pc = "binding_cas"
  /\ bindingRev = work.storeRev
  /\ bindings' = [bindings EXCEPT ![work.profile] = work.prepared]
  /\ bindingRev' = bindingRev + 1
  /\ Goto("binding_committed")
  /\ UNCHANGED <<config, journal, gateway, plans, history, bounds>>

MarkBindingCommitted ==
  /\ pc = "binding_committed"
  /\ Transition(cur, "BindingCommitted", "none")
  /\ Revoke(OldRef(work), "finish")
  /\ UNCHANGED <<config, bindings, bindingRev, gateway, plans, history, bounds>>

Finish ==
  /\ pc = "finish"
  /\ Transition(cur, "Completed", "none")
  /\ Continue(AfterRecord)
  /\ UNCHANGED <<config, bindings, bindingRev, gateway, plans, history, bounds>>

-----------------------------------------------------------------------------
(* revoke_locked of the Gateway binding store.                             *)

\* The callers that ignore an error of the revocation.
BestEffort == {"idle", "fail_config", "drift_manual"}

AfterRevokeError == IF next \in BestEffort THEN next ELSE "idle"

RevokeStore ==
  /\ pc = "revoke_store"
  /\ \/ /\ NoFault
        /\ IF gateway[ref].status = "revoked" /\ ~gateway[ref].pending
           THEN UNCHANGED gateway /\ Continue(next)
           ELSE /\ gateway' = [gateway EXCEPT ![ref].status = "revoked"]
                /\ pc' = "revoke_credential"
                /\ UNCHANGED <<mode, cur, work, ref, next>>
     \/ /\ Fault
        /\ UNCHANGED gateway
        /\ Continue(AfterRevokeError)
  /\ UNCHANGED <<config, bindings, bindingRev, journal, plans,
                 history, edits, crashes>>

RevokeCredential ==
  /\ pc = "revoke_credential"
  /\ \/ /\ NoFault
        /\ gateway' = [gateway EXCEPT ![ref].credential = FALSE]
        /\ Continue(next)
     \/ /\ Fault
        /\ UNCHANGED gateway
        /\ pc' = "revoke_pending"
        /\ UNCHANGED <<mode, cur, work, ref, next>>
  /\ UNCHANGED <<config, bindings, bindingRev, journal, plans,
                 history, edits, crashes>>

MarkRevocationPending ==
  /\ pc = "revoke_pending"
  /\ \/ /\ NoFault
        /\ gateway' = [gateway EXCEPT ![ref].pending = TRUE]
        /\ Continue(next)
     \/ /\ Fault
        /\ UNCHANGED gateway
        /\ Continue(AfterRevokeError)
  /\ UNCHANGED <<config, bindings, bindingRev, journal, plans,
                 history, edits, crashes>>

-----------------------------------------------------------------------------
(* recover_pending: every active record, in turn, under one lock.  A       *)
(* record that fails ends the recovery; which is first is left open.       *)

StartRecovery ==
  /\ pc = "idle"
  /\ \E o \in Ids : Active(o)
  /\ pc' = "recover_next"
  /\ mode' = "recover"
  /\ UNCHANGED <<durable, plans, cur, work, ref, next, history, bounds>>

RecoverNextSkipsCommitted ==
  /\ pc = "recover_next"
  /\ \/ \E o \in Ids :
          /\ Active(o) /\ journal[o].state # "BindingCommitted"
          /\ pc' = "recover"
          /\ cur' = o
          /\ work' = journal[o]
          /\ UNCHANGED <<mode, ref, next>>
     \/ /\ \A o \in Ids : Active(o) => journal[o].state = "BindingCommitted"
        /\ Release
  /\ UNCHANGED <<durable, plans, history, bounds>>

RecoverNext ==
  /\ pc = "recover_next"
  /\ \/ \E o \in Ids :
          /\ Active(o)
          /\ pc' = "recover"
          /\ cur' = o
          /\ work' = journal[o]
          /\ UNCHANGED <<mode, ref, next>>
     \/ /\ \A o \in Ids : ~Active(o)
        /\ Release
  /\ UNCHANGED <<durable, plans, history, bounds>>

Committed(r) == bindings[r.profile] = r.prepared
PreCommit(r) == bindings[r.profile] = r.previous

\* The reason for which recover_record gives a record up.
Conflict(r) ==
  IF ~Committed(r) /\ ~PreCommit(r) THEN "binding_conflict"
  ELSE IF Committed(r) THEN
    IF config[r.profile] # r.intended THEN "config_conflict" ELSE "none"
  ELSE IF r.state = "BindingCommitted" THEN "binding_conflict"
  ELSE IF config[r.profile] \notin {r.before, r.intended} THEN "config_conflict"
  ELSE "none"

\* mark_manual: the record is given up, and the recovery ends with an error.
RecoverGiveUp ==
  /\ pc = "recover"
  /\ Conflict(work) # "none"
  /\ Transition(cur, "ManualIntervention", Conflict(work))
  /\ Release
  /\ UNCHANGED <<config, bindings, bindingRev, gateway, plans, history, bounds>>

RecoverForwardNoCleanup ==
  /\ pc = "recover"
  /\ Conflict(work) = "none" /\ Committed(work)
  /\ CASE work.state = "Prepared" -> Goto("config_committed")
       [] work.state = "ConfigCommitted" -> Goto("binding_committed")
       [] OTHER -> Goto("finish")
  /\ UNCHANGED <<durable, plans, history, bounds>>

RecoverForward ==
  /\ pc = "recover"
  /\ Conflict(work) = "none" /\ Committed(work)
  /\ CASE work.state = "Prepared" -> Goto("config_committed")
       [] work.state = "ConfigCommitted" -> Goto("binding_committed")
       [] OTHER -> Revoke(OldRef(work), "finish")
  /\ UNCHANGED <<durable, plans, history, bounds>>

RecoverBackRevokesOld ==
  /\ pc = "recover"
  /\ Conflict(work) = "none" /\ ~Committed(work)
  /\ IF config[work.profile] = work.intended THEN Goto("rollback_check")
     ELSE Revoke(OldRef(work), "rolled_back")
  /\ UNCHANGED <<durable, plans, history, bounds>>

RecoverBackCommitted ==
  /\ pc = "recover"
  /\ Conflict(work) = "none"
  /\ IF config[work.profile] = work.intended THEN Goto("rollback_check")
     ELSE Revoke(NewRef(work), "rolled_back")
  /\ UNCHANGED <<durable, plans, history, bounds>>

RecoverBack ==
  /\ pc = "recover"
  /\ Conflict(work) = "none" /\ ~Committed(work)
  /\ IF config[work.profile] = work.intended THEN Goto("rollback_check")
     ELSE Revoke(NewRef(work), "rolled_back")
  /\ UNCHANGED <<durable, plans, history, bounds>>

\* rollback_record_config: the values that undo the record's projection.
RolledBackValues(r) ==
  LET values == r.intended.values
      unmanaged == DetachValues(values, r.projection)
  IN IF r.kind = "detach" THEN ReapplyValues(values, r.previous.projection)
     ELSE IF r.previous = NoBinding THEN unmanaged
     ELSE ReapplyValues(unmanaged, r.previous.projection)

CheckRollback ==
  /\ pc = "rollback_check"
  /\ IF config[work.profile] = work.intended
     THEN Goto("rollback_rename") /\ raced' = FALSE
     ELSE Release /\ UNCHANGED raced
  /\ UNCHANGED <<durable, plans, original, touched, bounds>>

WriteRollback ==
  /\ pc = "rollback_rename"
  /\ raced' = FALSE
  /\ \E restored \in Rendered(RolledBackValues(work)) :
       config' = [config EXCEPT ![work.profile] = restored]
  /\ Revoke(NewRef(work), "rolled_back")
  /\ UNCHANGED <<bindings, bindingRev, journal, gateway, plans, original, touched,
                 bounds>>

MarkRolledBack ==
  /\ pc = "rolled_back"
  /\ Transition(cur, "RolledBack", "none")
  /\ Continue(AfterRecord)
  /\ UNCHANGED <<config, bindings, bindingRev, gateway, plans, history, bounds>>

-----------------------------------------------------------------------------
(* What the process does not choose.                                       *)

\* The lock holder dies, and with it the plans of its memory; or a write
\* whose error it propagates fails, and it returns with its plans.
Die ==
  /\ pc # "idle"
  /\ crashes < MaxCrashes
  /\ crashes' = crashes + 1
  /\ Release
  /\ \/ UNCHANGED plans
     \/ plans' = [o \in Ids |-> NoPlan]
  /\ raced' = FALSE
  /\ UNCHANGED <<durable, original, touched, edits, faults>>

\* A user, or Codex itself, rewrites a config; no lock is involved.
EditConfig(p) ==
  /\ edits < MaxEdits
  /\ edits' = edits + 1
  /\ \E s \in UserSlots, v \in UserValues \cup {Absent} :
       \E text \in Rendered([config[p].values EXCEPT ![s] = v]) :
          /\ text # config[p]
          /\ config' = [config EXCEPT ![p] = text]
  /\ touched' = touched \cup {p}
  /\ raced' = (raced \/ (pc \in {"config_rename", "rollback_rename"} /\ work.profile = p))
  /\ UNCHANGED <<bindings, bindingRev, journal, gateway, plans, holder,
                 original, crashes, faults>>

-----------------------------------------------------------------------------

Init ==
  /\ \E f \in Forms :
       config \in [Profiles -> [values : InitialValues, form : {f}]]
  /\ bindings = [p \in Profiles |-> NoBinding]
  /\ bindingRev = 0
  /\ journal = [o \in Ids |-> NoRecord]
  /\ gateway = [o \in Ids |-> [status |-> "unused", credential |-> FALSE,
                               pending |-> FALSE]]
  /\ plans = [o \in Ids |-> NoPlan]
  /\ pc = "idle" /\ mode = "execute"
  /\ cur = NoRef /\ work = NoRecord
  /\ ref = NoRef /\ next = "idle"
  /\ original = [p \in Profiles |-> config[p].values]
  /\ touched = {} /\ raced = FALSE
  /\ edits = 0 /\ crashes = 0 /\ faults = 0

Execute ==
  \/ PrepareCredential \/ PrepareGatewayBinding \/ CreateJournal
  \/ CheckConfig \/ WriteConfig \/ FailConfig \/ MarkConfigCommitted
  \/ CheckDrift \/ MarkDrift \/ CommitBinding \/ MarkBindingCommitted \/ Finish
  \/ RevokeStore \/ RevokeCredential \/ MarkRevocationPending

Recover ==
  \/ RecoverNext \/ RecoverGiveUp \/ RecoverForward \/ RecoverBack
  \/ CheckRollback \/ WriteRollback \/ MarkRolledBack

Next ==
  \/ \E o \in Ids, p \in Profiles, v \in Providers : PlanAttach(o, p, v)
  \/ \E o \in Ids, p \in Profiles : PlanDetach(o, p)
  \/ \E o \in Ids : BeginAttach(o) \/ BeginDetach(o)
  \/ Execute
  \/ StartRecovery \/ Recover
  \/ Die
  \/ \E p \in Profiles : EditConfig(p)

Spec == Init /\ [][Next]_vars
-----------------------------------------------------------------------------
(* Properties *)

TypeOK ==
  /\ config \in [Profiles -> Configs]
  /\ bindings \in [Profiles -> Bindings \cup {NoBinding}]
  /\ bindingRev \in Nat
  /\ journal \in [Ids -> Records \cup {NoRecord}]
  /\ gateway \in [Ids -> GatewayBindings]
  /\ plans \in [Ids -> Plans \cup {NoPlan}]
  /\ mode \in {"execute", "recover"}
  /\ cur \in Ids \cup {NoRef}
  /\ work \in Records \cup {NoRecord}
  /\ ref \in Ids \cup {NoRef}
  /\ touched \subseteq Profiles
  /\ raced \in BOOLEAN

\* No work in flight on p: the lock is free and no record of p is active or
\* has been given up.
Settled(p) ==
  /\ pc = "idle"
  /\ \A o \in Ids : journal[o] # NoRecord /\ journal[o].profile = p =>
       journal[o].state \in {"Completed", "RolledBack"}

\* The Gateway binding that a profile is bound to is never a revoked one:
\* neither a failed rebind, nor a recovery after a crash at any step, takes
\* from a profile the route that its binding still names.
BoundRouteIsLive ==
  \A p \in Profiles : RefOf(bindings[p]) # NoRef =>
    gateway[RefOf(bindings[p])].status = "live"

\* At most one operation of a profile is unfinished, whatever crashed.
OneActivePerProfile ==
  \A o1, o2 \in Ids :
    Active(o1) /\ Active(o2) /\ journal[o1].profile = journal[o2].profile => o1 = o2

\* While an operation is unfinished its profile is bound as it was before or
\* as the operation wants it, and once the journal says so it is bound as
\* the operation wants it.  So recovery always knows which of the two it is
\* looking at, and gives up a record for the sake of its config only.
BindingIsKnown ==
  \A o \in Ids : journal[o] # NoRecord =>
    /\ journal[o].error # "binding_conflict"
    /\ Active(o) => \/ Committed(journal[o])
                    \/ PreCommit(journal[o]) /\ journal[o].state # "BindingCommitted"

\* What a finished operation leaves of the Gateway bindings it dealt with:
\* none that is live and that no profile is bound to.
FinishedLeavesNoLiveOrphan ==
  \A o \in Ids : journal[o] # NoRecord =>
    /\ journal[o].state = "Completed" /\ OldRef(journal[o]) # NoRef =>
         gateway[OldRef(journal[o])].status = "revoked"
    /\ journal[o].state = "RolledBack" /\ journal[o].error = "none"
         /\ NewRef(journal[o]) # NoRef =>
         gateway[NewRef(journal[o])].status = "revoked"

\* What the operation of record r applies to the config, and what the
\* operations of p have applied.
AppliedBy(r) ==
  IF r.prepared = NoBinding THEN {}
  ELSE {[kind |-> r.kind, provider |-> r.prepared.provider]}

Applied(p) ==
  UNION {AppliedBy(journal[o]) :
           o \in {i \in Ids : journal[i] # NoRecord /\ journal[i].profile = p}}

\* The providers whose keys the first attach of a binding recorded.
FirstAttached(A) == {a.provider : a \in {b \in A : b.kind = "attach"}}

\* An application for v removes the authentication keys of v's table, also
\* those that v does not manage and of which nothing is recorded.
Cleared(v) == {<<v, k>> : k \in AuthKeys \ Managed[v]}

\* A rebind to v of a binding whose first attach was for f keeps what that
\* attach recorded: nothing of the keys that only v manages, and of the keys
\* of a table what f's own table held.
Mistaken(v, f) ==
  IF v = f THEN {}
  ELSE {Slot(v, k) : k \in Managed[v] \ Managed[f]}
         \cup {<<v, k>> : k \in Managed[f] \cap TableKeys}

\* The slots in which application a, one of A, loses what the user had; and
\* those in which all of them do.
LostBy(a, A) ==
  Cleared(a.provider)
    \cup UNION {Mistaken(a.provider, f) : f \in IF a.kind = "rebind" THEN FirstAttached(A)
                                                 ELSE {}}

Lost(A) == UNION {LostBy(a, A) : a \in A}

\* With no operation in flight, a bound profile has in its config every value
\* that its binding claims, and one that is not bound, because its operations
\* were rolled back or because it was detached, has the values its user gave
\* it in every slot but those that LAM is known to lose: also when it was
\* rebound to a provider that manages other keys (apply_projection,
\* build_prepared_binding, detach_projection, rollback_record_config); unless
\* another program edited the config.
ConfigMatchesBinding ==
  \A p \in Profiles : Settled(p) /\ p \notin touched =>
    IF bindings[p] # NoBinding THEN Owns(config[p].values, bindings[p].projection)
    ELSE \A s \in Slots \ Lost(Applied(p)) : config[p].values[s] = original[p][s]

\* A detached profile is as its user left it, whatever it was bound to.
DetachRestoresAll ==
  \A p \in Profiles : Settled(p) /\ p \notin touched /\ bindings[p] = NoBinding =>
    config[p].values = original[p]

\* An attach that is reported as rolled back has put the config back.
RolledBackIsUndone ==
  \A o \in Ids : journal[o] # NoRecord /\ journal[o].kind = "attach"
                    /\ journal[o].state = "RolledBack" =>
    LET p == journal[o].profile IN
    Settled(p) /\ bindings[p] = NoBinding /\ edits = 0 => config[p].values = original[p]

\* A record is given up to the user only when another program changed the
\* config: recovery, which may itself be interrupted and run again, knows
\* every text that LAM wrote.
ManualNeedsForeignEdit ==
  \A o \in Ids : journal[o] # NoRecord /\ journal[o].state = "ManualIntervention" =>
    journal[o].profile \in touched

\* Once an operation has completed, the credential that it superseded is
\* deleted, or marked for somebody to delete.
CompletedLeavesNoCredential ==
  \A o \in Ids : journal[o] # NoRecord /\ journal[o].state = "Completed"
                    /\ OldRef(journal[o]) # NoRef =>
    ~gateway[OldRef(journal[o])].credential \/ gateway[OldRef(journal[o])].pending

\* The text of p is one that the record of an operation in flight knows.
KnownText(p) ==
  \E o \in Ids : /\ Active(o) /\ journal[o].profile = p
                 /\ config[p] \in {journal[o].before, journal[o].intended}

\* LAM replaces only a text that the record of its operation knows: an edit
\* by another program survives, unless it was made after LAM compared the
\* hash and before it renamed its file.
KnownTextsAreReplaced ==
  [][\A p \in Profiles : config'[p] # config[p] /\ edits' = edits =>
       raced \/ KnownText(p)]_vars

\* The holder of the lock goes on.  LAM is started again and again, every
\* start runs the recovery, and an execution that is retried meanwhile does
\* not keep it from the lock forever, since plans expire.
FairSpec ==
  Spec /\ WF_vars(Execute) /\ WF_vars(Recover) /\ SF_vars(StartRecovery)

\* Whatever crashed, every operation comes to an end.
EveryOperationEnds == \A o \in Ids : Active(o) ~> ~Active(o)

\* A credential that could not be deleted is deleted in the end.
PendingIsRetried == \A o \in Ids : gateway[o].pending ~> ~gateway[o].credential

-----------------------------------------------------------------------------
(* The transaction implements RouteSwitch: what the journal says of an     *)
(* operation is its phase, and the write of the binding store, not that of *)
(* the journal, is the step that switches the route.                       *)

Phase(state) == CASE state \in ActiveStates -> "running"
                  [] state = "Completed" -> "done"
                  [] state = "RolledBack" -> "undone"
                  [] OTHER -> "stuck"

Op(r) == [profile |-> r.profile, from |-> r.previous, to |-> r.prepared,
          phase |-> Phase(r.state)]

Ops == [o \in Ids |-> IF journal[o] = NoRecord THEN NoRecord ELSE Op(journal[o])]

Abstract == INSTANCE RouteSwitch
              WITH NoRoute <- NoBinding, NoOp <- NoRecord,
                   route <- bindings, ops <- Ops

\* Attach, rebind and detach are atomic to whoever reads the binding store:
\* interrupted anywhere and recovered any number of times, an operation
\* switches the route once or never, and is reported accordingly.
RouteSwitchSpec == Abstract!SSpec

=============================================================================
