------------------------- MODULE AttachTransactionInv -------------------------
(***************************************************************************)
(* The inductive invariant of AttachTransaction: what the lock holder      *)
(* knows at each of its steps, and how bindings, journal records and       *)
(* Gateway bindings refer to each other.                                   *)
(***************************************************************************)
EXTENDS AttachTransaction

BeforeJournal == {"gateway_credential", "gateway_store", "journal"}
Revoking == {"revoke_store", "revoke_credential", "revoke_pending"}
\* Where the binding of the profile is still the previous one ...
Executing == {"config_check", "config_rename", "drift_check", "binding_cas"}
Undoing == {"fail_config", "drift_manual", "rollback_check", "rollback_rename",
            "rolled_back"}
\* ... and where it is the prepared one.
Finishing == {"binding_committed", "finish"}
Journaled == Executing \cup Undoing \cup Finishing \cup {"config_committed", "recover"}

\* What the holder does next, the revocation that is under way aside.
At == IF pc \in Revoking THEN next ELSE pc

HolderOK ==
  /\ pc \in {"idle", "recover_next"} \cup BeforeJournal \cup Revoking \cup Journaled
  /\ next \in {"idle", "fail_config", "drift_manual", "finish", "rolled_back"}
  /\ pc \notin {"idle", "recover_next"} => cur \in Ids /\ work \in Records
  /\ pc \in Revoking => ref \in Ids
  /\ pc \in BeforeJournal \cup Executing => mode = "execute"
  /\ pc \in {"recover", "recover_next"} => mode = "recover"

\* The record the holder works on is the one in the journal, which is active;
\* only its state and its error may be younger.
SameOperation(r, s) ==
  /\ r.profile = s.profile /\ r.kind = s.kind
  /\ r.previous = s.previous
  /\ r.prepared = s.prepared
  /\ r.before = s.before /\ r.intended = s.intended
  /\ r.projection = s.projection

WorkIsJournaled ==
  /\ At \in Journaled => Active(cur) /\ SameOperation(work, journal[cur])
  /\ pc = "recover" => work = journal[cur]

\* A Gateway binding belongs to the operation that has its id, and to the
\* profile of that operation.
RefersWell(o, r) ==
  /\ NewRef(r) \in {NoRef, o}
  /\ OldRef(r) # NoRef =>
       /\ OldRef(r) # o
       /\ journal[OldRef(r)] # NoRecord
       /\ journal[OldRef(r)].profile = r.profile

RecordsReferWell ==
  \A o \in Ids : journal[o] # NoRecord => RefersWell(o, journal[o])

BoundByItsOperation ==
  \A p \in Profiles : RefOf(bindings[p]) # NoRef =>
    /\ journal[RefOf(bindings[p])] # NoRecord
    /\ journal[RefOf(bindings[p])].profile = p

WorkIsNew ==
  pc \in BeforeJournal =>
    /\ journal[cur] = NoRecord
    /\ work.state = "Prepared" /\ work.error = "none"
    /\ PreCommit(work)
    /\ work.prepared # work.previous
    /\ RefersWell(cur, work)

\* The commit point divides the steps of the holder.
Position ==
  /\ At \in Executing \cup Undoing => PreCommit(work)
  /\ At \in Finishing => Committed(work)
  /\ pc = "config_committed" =>
       IF mode = "execute" THEN PreCommit(work) ELSE Committed(work)

\* Up to the commit point the Gateway binding that is about to be bound is
\* live ...
PreparedIsLive ==
  (\/ pc \in {"journal"} \cup Executing
   \/ pc = "config_committed" /\ mode = "execute")
    => (NewRef(work) # NoRef => gateway[NewRef(work)].status = "live")

\* ... and the one that is about to be revoked is bound to no profile.
RevokedIsUnbound ==
  pc = "revoke_store" => \A p \in Profiles : RefOf(bindings[p]) # ref

\* What the holder of the lock may rely on where it is.
HolderKnows ==
  /\ HolderOK
  /\ WorkIsJournaled
  /\ WorkIsNew
  /\ Position
  /\ PreparedIsLive
  /\ RevokedIsUnbound

IInv ==
  /\ TypeOK
  /\ HolderKnows
  /\ OneActivePerProfile
  /\ RecordsReferWell
  /\ BoundByItsOperation
  /\ BindingIsKnown
  /\ BoundRouteIsLive

-----------------------------------------------------------------------------
(* What the configs hold, as long as only LAM writes them.                 *)

\* No other program has edited the config of p, and none of its records has
\* been given up to the user.
Calm(p) ==
  /\ p \notin touched
  /\ \A o \in Ids : journal[o] # NoRecord /\ journal[o].profile = p =>
       journal[o].state # "ManualIntervention"

\* The values fit binding b of a config whose user had the values u, after the
\* applications A: what b claims is there, and without it the user's values
\* are, but for those that A loses.
Fits(A, u, values, b) ==
  IF b = NoBinding THEN \A s \in Slots \ Lost(A) : values[s] = u[s]
  ELSE /\ Owns(values, b.projection)
       /\ \A s \in Slots \ Lost(A) : DetachValues(values, b.projection)[s] = u[s]

\* A binding records of the user's values what its first attach recorded.
Remembers(A, u, b) ==
  b # NoBinding =>
    \E f \in FirstAttached(A) : \A k \in Keys :
       IF k \in Managed[f]
       THEN Slot(f, k) \notin Lost(A) => b.projection.previous[k] = u[Slot(f, k)]
       ELSE b.projection.previous[k] = Untracked

RecordFits(A, u, r) ==
  /\ Remembers(A, u, r.previous) /\ Remembers(A, u, r.prepared)
  /\ Fits(A, u, r.before.values, r.previous)
  /\ Fits(A, u, r.intended.values, r.prepared)
  /\ Fits(A, u, RolledBackValues(r), r.previous)

\* The config fits the binding, or what the unfinished operation is about to
\* bind.
ConfigIsKnown(p) ==
  \/ Fits(Applied(p), original[p], config[p].values, bindings[p])
  \/ \E o \in Ids : /\ Active(o) /\ journal[o].profile = p
                    /\ Fits(Applied(p), original[p], config[p].values, journal[o].prepared)

\* What the holder of the lock knows of the config c it works on, by the place
\* it has reached in the operation of record r.
SeenAt(place, A, u, c, r) ==
  /\ place \in {"config_check", "config_rename"} => c = r.before
  /\ place \in {"config_committed", "drift_check", "binding_cas"} =>
       Fits(A, u, c.values, r.prepared)
  /\ place \in {"fail_config", "rolled_back"} => Fits(A, u, c.values, r.previous)

HolderSeesConfig(p) ==
  /\ pc \in BeforeJournal /\ ~ProfileBusy(p) =>
       /\ RecordFits(Applied(p) \cup AppliedBy(work), original[p], work)
       /\ config[p] = work.before
  /\ SeenAt(At, Applied(p), original[p], config[p], work)

ValuesOf(p) ==
  /\ Remembers(Applied(p), original[p], bindings[p])
  /\ \A o \in Ids : Active(o) /\ journal[o].profile = p =>
       RecordFits(Applied(p), original[p], journal[o])
  /\ ConfigIsKnown(p)
  /\ pc \notin {"idle", "recover_next"} /\ work.profile = p => HolderSeesConfig(p)

ValuesInv ==
  /\ original \in [Profiles -> InitialValues]
  /\ \A p \in Profiles : Calm(p) => ValuesOf(p)
=============================================================================
