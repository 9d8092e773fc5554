---------------------------- MODULE PortMigration -----------------------------
(* The Gateway's port is written in three places: gateway-state.json, the      *)
(* bindings, and the config.toml of every bound profile.  A migration          *)
(* (provider_api_v2.rs) moves all of them without the installation lock and    *)
(* without a journal; the repair at start rewrites the same configs after the  *)
(* Provider Hub has moved.  Attach and detach run meanwhile, other writers     *)
(* raise the revisions, the user edits configs, calls fail, and the            *)
(* application may die.  Every bound profile uses the Gateway.                 *)
EXTENDS Naturals, FiniteSets

CONSTANTS Profiles,           \* numbers: bindings are sorted by profile
          Ports, Workers,     \* migrations that may overlap
          NoUrl, Foreign,     \* no Gateway; what the user has put there
          MaxOps, MaxOthers, MaxFaults  \* bounds: commands, commits and edits of others, failures

ASSUME PortsAssumption ==
  /\ Profiles \subseteq Nat \ {0} /\ IsFiniteSet(Workers)
  /\ NoUrl \notin Ports /\ Foreign \notin Ports
  /\ {MaxOps, MaxOthers, MaxFaults} \subseteq Nat

VARIABLES
  config,     \* of each profile: what config.toml says
  bindings,   \* of each bound profile: what its binding has recorded
  rev,        \* revision of bindings.json
  port,       \* gateway-state.json: the stable port
  portRev,    \* ... and its revision
  root,       \* where the Provider Hub is: 1, or 2 once it has moved
  worker,     \* of each migration: where it is
  attach,     \* the attach plan that waits for its execution
  repair,     \* the repair at start
  up,         \* the application runs
  used,       \* how much of each bound is used up
  edited,     \* bound profiles whose config the user has changed
  adrift,     \* profiles of an operation that is known to have stopped halfway
  crossed,    \* profiles attached from a plan made between two commits
  spoiled     \* a config was written between the check and the rename of another

disk == <<config, bindings, rev, port, portRev, root>>
ghosts == <<edited, adrift, crossed, spoiled>>
vars == <<disk, worker, attach, repair, up, used, ghosts>>

\* A config is what it says of the Gateway and how often it was edited; its
\* hash is that record.
Contents == [url : Ports \cup {NoUrl, Foreign}, root : 0..2, note : 0..MaxOthers]
Bound == DOMAIN bindings
BindingOf(c) == [applied |-> c, url |-> c.url, root |-> c.root]
\* validate_managed_projection, and the ownership check of a detach.
Owns(p) == config[p].url = bindings[p].url /\ config[p].root = bindings[p].root

NoSteps == {}
Free == [pc |-> "free", plan |-> <<>>, rev |-> 0, old |-> <<>>, next |-> <<>>,
         todo |-> NoSteps, done |-> NoSteps, seen |-> FALSE]
NoAttach == [p |-> 0, url |-> NoUrl, rev |-> 0, before |-> <<>>, crossed |-> FALSE]
NoRepair == [todo |-> {}, rev |-> 0, next |-> <<>>, changed |-> {}, on |-> FALSE]

Init ==
  /\ \E start \in Ports, S \in SUBSET Profiles :
       /\ port = start
       /\ config = [p \in Profiles |-> [url |-> IF p \in S THEN start ELSE NoUrl,
                                        root |-> IF p \in S THEN 1 ELSE 0, note |-> 0]]
       /\ bindings = [p \in S |-> BindingOf([url |-> start, root |-> 1, note |-> 0])]
  /\ rev = 0 /\ portRev = 0 /\ root = 1
  /\ worker = [w \in Workers |-> Free]
  /\ attach = NoAttach /\ repair = NoRepair /\ up = FALSE
  /\ used = [ops |-> 0, others |-> 0, faults |-> 0]
  /\ edited = {} /\ adrift = {} /\ crossed = {} /\ spoiled = FALSE

Use(what, max) == used[what] < max /\ used' = [used EXCEPT ![what] = @ + 1]
Fault == Use("faults", MaxFaults)
NoFault == UNCHANGED used

-------------------------------------------------------------------------------
(* A migration.  forth: the configs are written one by one; back: those that   *)
(* were written are put back, the last one first.                              *)

To(w, new) == worker' = [worker EXCEPT ![w] = new]
At(w, pc) == worker[w].pc = pc

PlanPort(w, new) ==
  /\ up /\ At(w, "free") /\ new # port /\ Use("ops", MaxOps)
  /\ To(w, [Free EXCEPT !.pc = "planned",
              !.plan = [new |-> new, old |-> port, rev |-> portRev, profiles |-> Bound]])
  /\ UNCHANGED <<disk, attach, repair, up, ghosts>>

\* The plan is made anew and must be the same; every config must be as the
\* binding has it, and the binding on the old port.
StillPlanned(w) ==
  LET plan == worker[w].plan IN
  /\ portRev = plan.rev /\ Bound = plan.profiles
  /\ \A p \in Bound : config[p] = bindings[p].applied /\ bindings[p].url = plan.old

Moved(p, new) == [config[p] EXCEPT !.url = new]

\* What is read here is compared again before anything is written, so reading
\* it at once leaves no case out.
Prepare(w) ==
  /\ At(w, "planned")
  /\ IF StillPlanned(w)
       THEN LET new == worker[w].plan.new IN
            To(w, [worker[w] EXCEPT !.pc = "forth", !.rev = rev, !.old = bindings,
                     !.next = [p \in Bound |-> BindingOf(Moved(p, new))],
                     !.todo = {[p |-> p, from |-> config[p], to |-> Moved(p, new)] : p \in Bound}])
       ELSE To(w, Free)
  /\ UNCHANGED <<disk, attach, repair, up, used, ghosts>>

\* The step that is next: they are taken in the order of the profiles, and
\* taken back in the opposite order.
Due(w) == {s \in worker[w].todo : \A t \in worker[w].todo :
                                   IF At(w, "back") THEN t.p <= s.p ELSE s.p <= t.p}

Undo(steps) == {[p |-> s.p, from |-> s.to, to |-> s.from] : s \in steps}
RollBack(w) == To(w, [worker[w] EXCEPT !.pc = "back", !.seen = FALSE, !.done = NoSteps,
                                       !.todo = Undo(worker[w].done)])

\* A failure of the rollback is GATEWAY_PORT_ROLLBACK_FAILED: what is left is
\* for the user.
GiveUp(w) ==
  IF At(w, "back")
    THEN /\ To(w, Free)
         /\ adrift' = adrift \cup {s.p : s \in worker[w].todo}
    ELSE RollBack(w) /\ UNCHANGED adrift

\* A config is written after another migration has checked it.
Overtake(p, me) ==
  spoiled' = (spoiled \/ \E w \in Workers \ me : worker[w].seen /\ \E s \in Due(w) : s.p = p)

\* replace_config_file: the hash is compared, then the file is renamed.  The
\* mutant of Unchanged leaves the comparison out when it puts a config back.
ChangedOnTheWayBack(w, s) == At(w, "back") \/ config[s.p] = s.from
Unchanged(w, s) == config[s.p] = s.from

CheckConfig(w) ==
  /\ ~worker[w].seen
  /\ \E s \in Due(w) :
       IF Unchanged(w, s)
         THEN To(w, [worker[w] EXCEPT !.seen = TRUE]) /\ UNCHANGED adrift
         ELSE GiveUp(w)
  /\ UNCHANGED <<disk, attach, repair, up, used, edited, crossed, spoiled>>

Renamed(w, s) ==
  /\ config' = [config EXCEPT ![s.p] = s.to]
  /\ Overtake(s.p, {w})

RenameConfig(w) ==
  /\ worker[w].seen /\ NoFault
  /\ \E s \in Due(w) :
       /\ Renamed(w, s)
       /\ To(w, [worker[w] EXCEPT !.seen = FALSE, !.todo = @ \ {s}, !.done = @ \cup {s}])
  /\ UNCHANGED <<bindings, rev, port, portRev, root, attach, repair, up, edited, adrift, crossed>>

RenameFails(w) ==
  /\ worker[w].seen /\ Fault
  /\ GiveUp(w)
  /\ UNCHANGED <<disk, attach, repair, up, edited, crossed, spoiled>>

\* The file is renamed and the directory cannot be synced: an error is
\* reported and nothing puts this config back.
RenameUnsure(w) ==
  /\ worker[w].seen /\ Fault
  /\ \E s \in Due(w) :
       /\ Renamed(w, s)
       /\ IF At(w, "back") THEN GiveUp(w)
                           ELSE RollBack(w) /\ adrift' = adrift \cup {s.p}
  /\ UNCHANGED <<bindings, rev, port, portRev, root, attach, repair, up, edited, crossed>>

\* The mutant of Fits: the store is written whatever its revision.
AnyRevision(expected) == TRUE
Fits(expected) == rev = expected
Put(b) == bindings' = b /\ rev' = rev + 1

\* Each commit succeeds, fails, or fails to sync the directory after the store
\* was replaced, which is reported as a failure as well.
CommitBindings(w) ==
  /\ At(w, "forth") /\ worker[w].todo = NoSteps
  /\ \/ /\ Fits(worker[w].rev) /\ NoFault
        /\ Put(worker[w].next)
        /\ To(w, [worker[w] EXCEPT !.pc = "state", !.rev = rev + 1]) /\ UNCHANGED adrift
     \/ /\ IF Fits(worker[w].rev) THEN Fault ELSE NoFault
        /\ RollBack(w) /\ UNCHANGED <<bindings, rev, adrift>>
     \/ /\ Fits(worker[w].rev) /\ Fault
        /\ Put(worker[w].next)
        /\ RollBack(w) /\ adrift' = adrift \cup DOMAIN worker[w].next
  /\ UNCHANGED <<config, port, portRev, root, attach, repair, up, edited, crossed, spoiled>>

\* commit_port_change.
CommitPort(w) ==
  /\ At(w, "state")
  /\ LET current == portRev = worker[w].plan.rev /\ port = worker[w].plan.old IN
     \/ /\ current /\ NoFault
        /\ port' = worker[w].plan.new /\ portRev' = portRev + 1
        /\ To(w, Free) /\ UNCHANGED adrift
     \/ /\ IF current THEN Fault ELSE NoFault
        /\ To(w, [worker[w] EXCEPT !.pc = "unbind"]) /\ UNCHANGED <<port, portRev, adrift>>
     \/ /\ current /\ Fault
        /\ port' = worker[w].plan.new /\ portRev' = portRev + 1
        /\ To(w, [worker[w] EXCEPT !.pc = "unbind"])
        /\ adrift' = adrift \cup DOMAIN worker[w].next
  /\ UNCHANGED <<config, bindings, rev, root, attach, repair, up, edited, crossed, spoiled>>

\* The bindings go back unless they have changed since, which is
\* GATEWAY_PORT_ROLLBACK_CONFLICT.
UndoBindings(w) ==
  /\ At(w, "unbind")
  /\ \/ /\ Fits(worker[w].rev) /\ NoFault
        /\ Put(worker[w].old) /\ RollBack(w) /\ UNCHANGED adrift
     \/ /\ IF Fits(worker[w].rev) THEN Fault ELSE NoFault
        /\ To(w, Free) /\ adrift' = adrift \cup DOMAIN worker[w].next
        /\ (UNCHANGED <<bindings, rev>> \/ (Fits(worker[w].rev) /\ Put(worker[w].old)))
  /\ UNCHANGED <<config, port, portRev, root, attach, repair, up, edited, crossed, spoiled>>

RolledBack(w) ==
  /\ At(w, "back") /\ worker[w].todo = NoSteps
  /\ To(w, Free)
  /\ UNCHANGED <<disk, attach, repair, up, used, ghosts>>

-------------------------------------------------------------------------------
(* Attach and detach hold the installation lock from their validation to the   *)
(* commit of the binding, so a migration sees them as one step.                *)

PlanAttach(p) ==
  /\ up /\ attach = NoAttach /\ Use("ops", MaxOps)
  /\ p \in Bound => config[p] = bindings[p].applied
  /\ attach' = [p |-> p, url |-> port, rev |-> rev, before |-> config[p],
                crossed |-> \E w \in Workers : At(w, "state")]
  /\ UNCHANGED <<disk, worker, repair, up, ghosts>>

\* The configs that a migration has written and may still put back.
Written(w) == {s.p : s \in CASE At(w, "forth") -> worker[w].done
                            [] At(w, "back") -> worker[w].todo
                            [] OTHER -> {}}

\* A new binding settles what went before, unless a migration under way may
\* still put the config back.
Settle(p) ==
  LET settled == {p} \ UNION {Written(w) : w \in Workers} IN
  edited' = edited \ settled /\ adrift' = adrift \ settled

ExecuteAttach ==
  LET p == attach.p
      new == [url |-> attach.url, root |-> root, note |-> attach.before.note] IN
  /\ attach # NoAttach /\ attach' = NoAttach
  /\ IF rev = attach.rev /\ config[p] = attach.before
       THEN /\ config' = [config EXCEPT ![p] = new]
            /\ Put([q \in Bound \cup {p} |-> IF q = p THEN BindingOf(new) ELSE bindings[q]])
            /\ Settle(p) /\ Overtake(p, {})
            /\ crossed' = IF attach.crossed THEN crossed \cup {p} ELSE crossed \ {p}
       ELSE UNCHANGED <<config, bindings, rev, ghosts>>
  /\ UNCHANGED <<port, portRev, root, worker, repair, up, used>>

Detach(p) ==
  /\ up /\ p \in Bound /\ Owns(p) /\ Use("ops", MaxOps)
  /\ config' = [config EXCEPT ![p].url = NoUrl, ![p].root = 0]
  /\ Put([q \in Bound \ {p} |-> bindings[q]])
  /\ Settle(p) /\ crossed' = crossed \ {p} /\ Overtake(p, {})
  /\ UNCHANGED <<port, portRev, root, worker, attach, repair, up>>

-------------------------------------------------------------------------------
(* The start: the Hub may have moved, and the configs whose auth command names *)
(* its old place are rewritten; the bindings are committed at the end.         *)

Start ==
  /\ ~up /\ ~repair.on
  /\ root' \in {root, 2}
  /\ repair' = [todo |-> Bound, rev |-> rev, next |-> bindings, changed |-> {}, on |-> TRUE]
  /\ UNCHANGED <<config, bindings, rev, port, portRev, worker, attach, up, used, ghosts>>

Repairable(p) ==
  /\ config[p].root # 0 /\ config[p].root # root
  /\ Owns(p) /\ config[p] = bindings[p].applied

RepairedNext(p) == [repair.next EXCEPT ![p] = BindingOf([config[p] EXCEPT !.root = root])]

RepairConfig ==
  /\ \E p \in repair.todo :
     LET rest == [repair EXCEPT !.todo = @ \ {p}] IN
     /\ \A q \in repair.todo : p <= q
     /\ \/ /\ p \in Bound /\ Repairable(p) /\ NoFault
           /\ config' = [config EXCEPT ![p].root = root]
           /\ repair' = [rest EXCEPT !.next = RepairedNext(p), !.changed = @ \cup {p}]
        \/ /\ IF p \in Bound /\ Repairable(p) THEN Fault ELSE NoFault
           /\ repair' = rest /\ UNCHANGED config
  /\ UNCHANGED <<bindings, rev, port, portRev, root, worker, attach, up, ghosts>>

\* main.rs ignores the failure of the repair.
RepairEnds ==
  /\ repair.on /\ repair.todo = {}
  /\ repair' = NoRepair /\ up' = TRUE
  /\ \/ /\ repair.changed = {} /\ NoFault /\ UNCHANGED <<bindings, rev, adrift>>
     \/ /\ repair.changed # {} /\ Fits(repair.rev) /\ NoFault
        /\ Put(repair.next) /\ UNCHANGED adrift
     \/ /\ repair.changed # {} /\ (IF Fits(repair.rev) THEN Fault ELSE NoFault)
        /\ adrift' = adrift \cup repair.changed
        /\ (UNCHANGED <<bindings, rev>> \/ (Fits(repair.rev) /\ Put(repair.next)))
  /\ UNCHANGED <<config, port, portRev, root, worker, attach, edited, crossed, spoiled>>

-------------------------------------------------------------------------------
(* What happens around them.                                                   *)

\* lam codex and the commands for other profiles commit bindings of their own;
\* claims and releases of the Gateway raise the revision of its state.
OtherCommit ==
  /\ Use("others", MaxOthers)
  /\ \/ rev' = rev + 1 /\ UNCHANGED portRev
     \/ portRev' = portRev + 1 /\ UNCHANGED rev
  /\ UNCHANGED <<config, bindings, port, root, worker, attach, repair, up, ghosts>>

Edit(p) ==
  /\ Use("others", MaxOthers)
  /\ \E url \in {config[p].url, Foreign} :
       config' = [config EXCEPT ![p].url = url, ![p].note = used.others + 1]
  /\ edited' = IF p \in Bound THEN edited \cup {p} ELSE edited
  /\ Overtake(p, {})
  /\ UNCHANGED <<bindings, rev, port, portRev, root, worker, attach, repair, up, adrift, crossed>>

\* What a migration has not finished when its process dies.
Unfinished(w) ==
  Written(w) \cup IF worker[w].pc \in {"state", "unbind"} THEN DOMAIN worker[w].next ELSE {}

Dies ==
  /\ up \/ repair.on
  /\ Fault
  /\ up' = FALSE /\ worker' = [w \in Workers |-> Free]
  /\ attach' = NoAttach /\ repair' = NoRepair
  /\ adrift' = adrift \cup repair.changed \cup UNION {Unfinished(w) : w \in Workers}
  /\ UNCHANGED <<disk, edited, crossed, spoiled>>

Next ==
  \/ \E w \in Workers :
       \/ \E new \in Ports : PlanPort(w, new)
       \/ Prepare(w) \/ CheckConfig(w) \/ RenameConfig(w) \/ RenameFails(w) \/ RenameUnsure(w)
       \/ CommitBindings(w) \/ CommitPort(w) \/ UndoBindings(w) \/ RolledBack(w)
  \/ \E p \in Profiles : PlanAttach(p) \/ Detach(p) \/ Edit(p)
  \/ ExecuteAttach \/ Start \/ RepairConfig \/ RepairEnds \/ OtherCommit \/ Dies

Spec == Init /\ [][Next]_vars

-------------------------------------------------------------------------------
TypeOK ==
  /\ config \in [Profiles -> Contents]
  /\ Bound \subseteq Profiles
  /\ \A p \in Bound : bindings[p] = BindingOf(bindings[p].applied) /\ bindings[p].applied \in Contents
  /\ {rev, portRev} \subseteq Nat /\ port \in Ports /\ root \in 1..2
  /\ {edited, adrift, crossed} \subseteq SUBSET Profiles

Quiet == ~repair.on /\ \A w \in Workers : worker[w].pc \in {"free", "planned"}

\* When no migration and no repair is under way, whatever has failed, been
\* rolled back, or been attached meanwhile, every binding is on the stable port
\* and has the hash of its config: all three places moved or none did.  Left
\* out are the profiles whose migration said that it stopped halfway or died,
\* those the user has edited (for the hash), those attached from a plan made
\* between the commit of the bindings and that of the port, which keep the old
\* port (provider_api_v2.rs:1877-1891), and a config replaced between the check
\* and the rename of another writer.
MigrationIsWhole ==
  /\ TypeOK
  /\ Quiet /\ ~spoiled => \A p \in Bound \ adrift :
       /\ p \notin crossed => bindings[p].url = port
       /\ p \notin edited => config[p] = bindings[p].applied

\* What the user has written into a config is never lost: neither a migration,
\* nor its rollback, nor a repair puts back or rewrites a config that changed
\* since it was read, unless the change falls between check and rename.
EditsSurvive ==
  [][\A p \in Profiles : config'[p].note >= config[p].note \/ spoiled']_vars
===============================================================================
