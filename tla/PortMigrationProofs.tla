--------------------------- MODULE PortMigrationProofs --------------------------
(* Proofs about PortMigration, for any profiles, ports and bounds and any finite *)
(* number of overlapping migrations: what the user wrote survives, and when      *)
(* nothing is under way the three places agree.                                  *)
EXTENDS PortMigration, FiniteSetTheorems, TLAPS

-----------------------------------------------------------------------------
(* The inductive invariant *)

Pcs == {"free", "planned", "forth", "back", "state", "unbind"}
Hosted == {c \in Contents : c.url \in Ports}
Steps == [p : Profiles, from : Hosted, to : Hosted]
Plans == [new : Ports, old : Ports, rev : Nat, profiles : SUBSET Profiles]

\* Bindings as a store has them.
IsTable(b) ==
  /\ DOMAIN b \subseteq Profiles
  /\ \A p \in DOMAIN b : b[p] = BindingOf(b[p].applied) /\ b[p].applied \in Hosted

WorkerType(k) ==
  k \in [pc : Pcs, plan : {k.plan}, rev : Nat, old : {k.old}, next : {k.next},
         todo : SUBSET Steps, done : SUBSET Steps, seen : BOOLEAN]

Types ==
  /\ TypeOK
  /\ IsTable(bindings)
  /\ used \in [ops : Nat, others : 0..MaxOthers, faults : Nat]
  /\ \A p \in Profiles : config[p].note <= used.others
  /\ DOMAIN worker = Workers /\ \A w \in Workers : WorkerType(worker[w])

\* The plan of a migration: while the revision is the planned one, so is the port.
Planned(w) ==
  ~At(w, "free") =>
    /\ worker[w].plan \in Plans /\ worker[w].plan.new # worker[w].plan.old
    /\ worker[w].plan.rev <= portRev
    /\ portRev = worker[w].plan.rev => port = worker[w].plan.old

\* The steps of a migration: one for a profile, which moves the url alone.
Stepping(w) ==
  /\ \A s \in worker[w].todo \cup worker[w].done :
       s.from.note = s.to.note /\ s.from.root = s.to.root /\ s.from.note <= used.others
  /\ \A s, t \in worker[w].todo \cup worker[w].done : s.p = t.p => s = t
  /\ worker[w].todo \cap worker[w].done = {}
  /\ worker[w].seen => worker[w].todo # NoSteps
  /\ worker[w].todo # NoSteps => worker[w].pc \in {"forth", "back"}
  /\ worker[w].pc \in {"free", "planned"} => worker[w].done = NoSteps

\* What a migration that still means to move keeps.
Moving(w) ==
  worker[w].pc \in {"forth", "state", "unbind"} =>
    /\ IsTable(worker[w].old) /\ IsTable(worker[w].next)
    /\ DOMAIN worker[w].old = DOMAIN worker[w].next
    /\ \A p \in DOMAIN worker[w].next :
         /\ worker[w].old[p].url = worker[w].plan.old /\ worker[w].next[p].url = worker[w].plan.new
         /\ \E s \in worker[w].todo \cup worker[w].done : s.p = p
    /\ \A s \in worker[w].todo \cup worker[w].done :
         /\ s.p \in DOMAIN worker[w].next
         /\ s.from = worker[w].old[s.p].applied /\ s.to = worker[w].next[s.p].applied
    /\ worker[w].rev <= rev
    /\ worker[w].rev = rev => bindings = IF At(w, "forth") THEN worker[w].old ELSE worker[w].next

Migrations == \A w \in Workers : Planned(w) /\ Stepping(w) /\ Moving(w)

Attaching ==
  attach # NoAttach =>
    /\ attach \in [p : Profiles, url : Ports, rev : Nat, before : Contents, crossed : BOOLEAN]
    /\ attach.rev <= rev
    /\ rev = attach.rev /\ attach.p \in Bound => bindings[attach.p].applied = attach.before

Repairing ==
  /\ repair \in [todo : {repair.todo}, rev : Nat, next : {repair.next},
                 changed : SUBSET Profiles, on : BOOLEAN]
  /\ ~repair.on => repair.changed = {} /\ repair.todo = {}
  /\ ~up => attach = NoAttach /\ \A w \in Workers : At(w, "free")
  /\ repair.on =>
       /\ ~up
       /\ IsTable(repair.next) /\ DOMAIN repair.next = Bound
       /\ \A p \in Bound : repair.next[p].url = bindings[p].url
       /\ \A p \in Bound \ repair.changed : repair.next[p] = bindings[p]
       /\ \A p \in Bound \cap repair.changed : p \in edited \/ config[p] = repair.next[p].applied

\* A config that is about to be written is as it was checked.
Checked ==
  ~spoiled => \A w \in Workers : worker[w].seen =>
                \A s \in Due(w) : config[s.p] = s.from

-----------------------------------------------------------------------------
(* The stable port and the bindings *)

\* The profiles that nothing is known against.
Sound == Bound \ (adrift \cup crossed)
Between == {w \in Workers : At(w, "state")}

\* While a migration has the new port in the bindings only, no other has, and
\* the stable port is the one it was planned for ...
BetweenAgree ==
  \A w \in Between : Sound # {} =>
    /\ port = worker[w].plan.old /\ Between = {w}
    /\ \A p \in Sound : p \in DOMAIN worker[w].next /\ bindings[p].url = worker[w].plan.new

\* ... else the bindings have the stable port, but for those that a migration
\* is about to put back.
StoredAgree ==
  Between = {} => \A p \in Sound :
    \/ bindings[p].url = port
    \/ \E w \in Workers : At(w, "unbind") /\ p \in DOMAIN worker[w].next

\* A commit of the bindings that will be accepted finds no other between the
\* two commits, and an attach that will be accepted has the right port.
MoveAgrees(w) ==
  worker[w].pc \in {"forth", "unbind"} /\ worker[w].rev = rev /\ Sound # {} =>
    port = worker[w].plan.old /\ Between = {}
MovesAgree == \A w \in Workers : MoveAgrees(w)
AttachAgrees ==
  attach # NoAttach /\ ~attach.crossed /\ attach.rev = rev => attach.url = port /\ Between = {}

PortsAgree == BetweenAgree /\ StoredAgree /\ MovesAgree /\ AttachAgrees

-----------------------------------------------------------------------------
(* The bindings and the configs *)

\* The writes of a migration that it may still put back.
Edges(w) ==
  CASE At(w, "forth") -> worker[w].done
    [] At(w, "back") -> Undo(worker[w].todo)
    [] OTHER -> NoSteps
Out(p, c) == {w \in Workers : \E s \in Edges(w) : s.p = p /\ s.from = c}
In(p, c) == {w \in Workers : \E s \in Edges(w) : s.p = p /\ s.to = c}
One(b) == IF b THEN 1 ELSE 0

\* Seen as edges from content to content, those writes lead from the content
\* that the binding has recorded to that of the config.
Balanced(p) ==
  \A c \in Contents :
    Cardinality(Out(p, c)) + One(p \in Bound /\ config[p] = c)
      = Cardinality(In(p, c)) + One(p \in Bound /\ bindings[p].applied = c)

Clean(p) == p \notin edited \cup adrift \cup repair.changed

ConfigAgrees(p) ==
  /\ p \notin Bound => config[p].url \notin Ports
  /\ Clean(p) => Balanced(p)
  /\ Clean(p) /\ p \in Bound => /\ config[p].note = bindings[p].applied.note
                                /\ config[p].root = bindings[p].applied.root
ConfigsAgree == ~spoiled => \A p \in Profiles : ConfigAgrees(p)

IInv == Types /\ Migrations /\ Attaching /\ Repairing /\ Checked /\ PortsAgree /\ ConfigsAgree

-----------------------------------------------------------------------------
(* How a migration changes *)

LEMMA ToIs ==
  ASSUME Types, NEW w \in Workers, NEW k, To(w, k)
  PROVE  /\ worker'[w] = k /\ DOMAIN worker' = Workers
         /\ \A x \in Workers \ {w} : worker'[x] = worker[x]
BY DEF Types, To

LEMMA FreeIs ==
  /\ WorkerType(Free) /\ Free.pc = "free" /\ Free.todo = NoSteps /\ Free.done = NoSteps /\ ~Free.seen
  /\ NoRepair.todo = {} /\ NoRepair.changed = {} /\ ~NoRepair.on
BY DEF Free, WorkerType, Pcs, NoSteps, NoRepair

LEMMA Undone ==
  ASSUME NEW S \in SUBSET Steps
  PROVE  /\ Undo(S) \in SUBSET Steps /\ Undo(Undo(S)) = S
         /\ \A t \in Undo(S) : \E s \in S : t.p = s.p /\ t.from = s.to /\ t.to = s.from
         /\ \A s \in S : \E t \in Undo(S) : t.p = s.p /\ t.from = s.to /\ t.to = s.from
<1> DEFINE Back(s) == [p |-> s.p, from |-> s.to, to |-> s.from]
<1>1. \A s \in Steps : Back(s) \in Steps /\ Back(Back(s)) = s /\ Back(s).p = s.p
                       /\ Back(s).from = s.to /\ Back(s).to = s.from
  BY DEF Steps
<1> HIDE DEF Back
<1>2. \A R : Undo(R) = {Back(s) : s \in R}
  BY DEF Undo, Back
<1>3. Undo(S) \in SUBSET Steps
  BY <1>1, <1>2
<1>4. Undo(Undo(S)) = S
  BY <1>1, <1>2
<1> QED
  BY <1>1, <1>2, <1>3, <1>4

\* What a migration was planned with.
Keeps(w) == /\ worker'[w].plan = worker[w].plan /\ worker'[w].rev = worker[w].rev
            /\ worker'[w].old = worker[w].old /\ worker'[w].next = worker[w].next

LEMMA RollBackIs ==
  ASSUME Types, NEW w \in Workers, RollBack(w)
  PROVE  /\ WorkerType(worker'[w])
         /\ worker'[w].pc = "back" /\ ~worker'[w].seen /\ worker'[w].done = NoSteps
         /\ worker'[w].todo = Undo(worker[w].done)
         /\ Keeps(w)
<1>1. WorkerType(worker[w])
  BY DEF Types
<1>2. Undo(worker[w].done) \in SUBSET Steps
  BY <1>1, Undone DEF WorkerType
<1>3. PICK u : u = Undo(worker[w].done)
  OBVIOUS
<1>4. PICK k : k = worker[w]
  OBVIOUS
<1>5. worker'[w] = [k EXCEPT !.pc = "back", !.seen = FALSE, !.done = NoSteps, !.todo = u]
  BY <1>3, <1>4, ToIs DEF RollBack
<1> QED
  BY <1>1, <1>2, <1>3, <1>4, <1>5 DEF WorkerType, Pcs, NoSteps, Keeps

LEMMA PlanPortIs ==
  ASSUME Types, NEW w \in Workers, NEW new \in Ports, PlanPort(w, new)
  PROVE  /\ WorkerType(worker'[w])
         /\ worker'[w].pc = "planned" /\ ~worker'[w].seen
         /\ worker'[w].done = NoSteps /\ worker'[w].todo = NoSteps
         /\ worker'[w].plan \in Plans /\ worker'[w].plan.rev = portRev
         /\ worker'[w].plan.new = new /\ worker'[w].plan.old = port /\ new # port
<1>1. PICK plan : plan = [new |-> new, old |-> port, rev |-> portRev, profiles |-> Bound]
  OBVIOUS
<1>2. plan \in Plans /\ plan.new = new /\ plan.old = port /\ plan.rev = portRev
  BY <1>1 DEF Types, TypeOK, Plans
<1>3. PICK k : k = Free
  OBVIOUS
<1>4. worker'[w] = [k EXCEPT !.pc = "planned", !.plan = plan]
  BY <1>1, <1>3, ToIs DEF PlanPort
<1>5. worker'[w].plan = plan /\ worker'[w].pc = "planned" /\ WorkerType(worker'[w])
      /\ ~worker'[w].seen /\ worker'[w].done = NoSteps /\ worker'[w].todo = NoSteps
  BY <1>3, <1>4, FreeIs DEF WorkerType, Pcs
<1> QED
  BY <1>2, <1>5 DEF PlanPort

\* The bindings that a migration means to commit.
LEMMA MovedIs ==
  ASSUME Types, NEW new \in Ports, NEW p \in Bound, config[p] = bindings[p].applied
  PROVE  /\ config[p] \in Hosted /\ Moved(p, new) \in Hosted /\ Moved(p, new).url = new
         /\ Moved(p, new).note = config[p].note /\ Moved(p, new).root = config[p].root
         /\ BindingOf(Moved(p, new)).applied = Moved(p, new)
         /\ BindingOf(Moved(p, new)).url = new
         /\ BindingOf(Moved(p, new)) = BindingOf(BindingOf(Moved(p, new)).applied)
<1>1. PICK c : c = config[p]
  OBVIOUS
<1>2. c \in Hosted
  BY <1>1 DEF Types, IsTable, Bound
<1>3. Moved(p, new) = [c EXCEPT !.url = new]
  BY <1>1 DEF Moved
<1>4. Moved(p, new) \in Hosted /\ Moved(p, new).url = new
      /\ Moved(p, new).note = c.note /\ Moved(p, new).root = c.root
  BY <1>2, <1>3 DEF Hosted, Contents
<1> QED
  BY <1>1, <1>2, <1>4 DEF BindingOf

LEMMA PrepareIs ==
  ASSUME Types, Migrations, NEW w \in Workers, Prepare(w)
  PROVE  \/ worker'[w] = Free
         \/ /\ WorkerType(worker'[w]) /\ StillPlanned(w)
            /\ worker'[w].pc = "forth" /\ ~worker'[w].seen /\ worker'[w].done = NoSteps
            /\ worker'[w].plan = worker[w].plan /\ worker'[w].rev = rev
            /\ worker'[w].old = bindings /\ DOMAIN worker'[w].next = Bound
            /\ worker[w].plan \in Plans
            /\ \A p \in Bound : worker'[w].next[p] = BindingOf(Moved(p, worker[w].plan.new))
            /\ worker'[w].todo =
                 {[p |-> p, from |-> config[p], to |-> Moved(p, worker[w].plan.new)] : p \in Bound}
<1> SUFFICES ASSUME worker'[w] # Free
             PROVE  /\ WorkerType(worker'[w]) /\ StillPlanned(w)
                    /\ worker'[w].pc = "forth" /\ ~worker'[w].seen /\ worker'[w].done = NoSteps
                    /\ worker'[w].plan = worker[w].plan /\ worker'[w].rev = rev
                    /\ worker'[w].old = bindings /\ DOMAIN worker'[w].next = Bound
                    /\ worker[w].plan \in Plans
                    /\ \A p \in Bound : worker'[w].next[p] = BindingOf(Moved(p, worker[w].plan.new))
                    /\ worker'[w].todo =
                         {[p |-> p, from |-> config[p], to |-> Moved(p, worker[w].plan.new)] : p \in Bound}
  OBVIOUS
<1> DEFINE new == worker[w].plan.new
           todo == {[p |-> p, from |-> config[p], to |-> Moved(p, new)] : p \in Bound}
           next == [p \in Bound |-> BindingOf(Moved(p, new))]
<1>1. StillPlanned(w)
  BY ToIs DEF Prepare
<1>2. worker[w].plan \in Plans /\ new \in Ports /\ worker[w].done = NoSteps /\ ~worker[w].seen
      /\ WorkerType(worker[w]) /\ rev \in Nat
  <2>1. At(w, "planned")
    BY DEF Prepare
  <2>2. worker[w].pc = "planned"
    BY <2>1 DEF At
  <2> QED
    BY <2>2 DEF Migrations, Planned, Stepping, Plans, At, Types, TypeOK
<1>3. \A p \in Bound : config[p] \in Hosted /\ Moved(p, new) \in Hosted
  BY <1>1, <1>2, MovedIs DEF StillPlanned
<1>4. todo \in SUBSET Steps
  BY <1>3 DEF Steps, Types, TypeOK
<1>5. PICK k : k = worker[w]
  OBVIOUS
<1>6. worker'[w] = [k EXCEPT !.pc = "forth", !.rev = rev, !.old = bindings, !.next = next, !.todo = todo]
  BY <1>1, <1>5, ToIs DEF Prepare
<1>7. DOMAIN next = Bound /\ \A p \in Bound : next[p] = BindingOf(Moved(p, new))
  OBVIOUS
<1> HIDE DEF todo, next
<1>8. /\ WorkerType(worker'[w])
      /\ worker'[w].pc = "forth" /\ ~worker'[w].seen /\ worker'[w].done = NoSteps
      /\ worker'[w].plan = worker[w].plan /\ worker'[w].rev = rev
      /\ worker'[w].old = bindings /\ worker'[w].next = next /\ worker'[w].todo = todo
  BY <1>2, <1>4, <1>5, <1>6 DEF WorkerType, Pcs
<1> QED
  BY <1>1, <1>2, <1>7, <1>8 DEF todo

\* A failure puts back what was written, or leaves it to the user.
LEMMA GiveUpIs ==
  ASSUME Types, NEW w \in Workers, GiveUp(w)
  PROVE  \/ At(w, "back") /\ worker'[w] = Free /\ adrift' = adrift \cup {s.p : s \in worker[w].todo}
         \/ ~At(w, "back") /\ RollBack(w) /\ adrift' = adrift
BY ToIs DEF GiveUp

LEMMA CheckIs ==
  ASSUME Types, NEW w \in Workers, CheckConfig(w)
  PROVE  \/ GiveUp(w)
         \/ /\ WorkerType(worker'[w]) /\ Keeps(w) /\ worker'[w].seen
            /\ worker'[w].pc = worker[w].pc /\ worker'[w].todo = worker[w].todo
            /\ worker'[w].done = worker[w].done /\ adrift' = adrift
            /\ \E s \in Due(w) : config[s.p] = s.from
<1> SUFFICES ASSUME ~GiveUp(w)
             PROVE  /\ WorkerType(worker'[w]) /\ Keeps(w) /\ worker'[w].seen
                    /\ worker'[w].pc = worker[w].pc /\ worker'[w].todo = worker[w].todo
                    /\ worker'[w].done = worker[w].done /\ adrift' = adrift
                    /\ \E s \in Due(w) : config[s.p] = s.from
  OBVIOUS
<1>1. /\ To(w, [worker[w] EXCEPT !.seen = TRUE]) /\ adrift' = adrift
      /\ \E s \in Due(w) : config[s.p] = s.from
  BY DEF CheckConfig, Unchanged
<1>2. PICK k : k = worker[w]
  OBVIOUS
<1>3. worker'[w] = [k EXCEPT !.seen = TRUE] /\ WorkerType(k)
  BY <1>1, <1>2, ToIs DEF Types
<1> QED
  BY <1>1, <1>2, <1>3 DEF WorkerType, Keeps

LEMMA RenameIs ==
  ASSUME Types, NEW w \in Workers, RenameConfig(w)
  PROVE  \E s \in Due(w) :
           /\ s \in worker[w].todo /\ Renamed(w, s)
           /\ WorkerType(worker'[w]) /\ Keeps(w) /\ ~worker'[w].seen
           /\ worker'[w].pc = worker[w].pc /\ worker'[w].todo = worker[w].todo \ {s}
           /\ worker'[w].done = worker[w].done \cup {s}
<1>1. PICK s \in Due(w) :
        /\ Renamed(w, s)
        /\ To(w, [worker[w] EXCEPT !.seen = FALSE, !.todo = @ \ {s}, !.done = @ \cup {s}])
  BY DEF RenameConfig
<1>2. PICK k : k = worker[w]
  OBVIOUS
<1>3. worker'[w] = [k EXCEPT !.seen = FALSE, !.todo = @ \ {s}, !.done = @ \cup {s}] /\ WorkerType(k)
  BY <1>1, <1>2, ToIs DEF Types
<1>4. s \in worker[w].todo
  BY DEF Due
<1>5. PICK todo, done : todo = k.todo \ {s} /\ done = k.done \cup {s}
  OBVIOUS
<1>6. todo \in SUBSET Steps /\ done \in SUBSET Steps
  BY <1>2, <1>3, <1>4, <1>5 DEF WorkerType
<1>7. worker'[w] = [k EXCEPT !.seen = FALSE, !.todo = todo, !.done = done]
  BY <1>3, <1>5
<1>8. /\ WorkerType(worker'[w]) /\ Keeps(w) /\ ~worker'[w].seen
      /\ worker'[w].pc = worker[w].pc /\ worker'[w].todo = todo /\ worker'[w].done = done
  BY <1>2, <1>3, <1>6, <1>7 DEF WorkerType, Keeps
<1> QED
  BY <1>1, <1>2, <1>4, <1>5, <1>8

\* The steps after the bindings were committed.
LEMMA TurnIs ==
  ASSUME Types, NEW w \in Workers, NEW pc \in Pcs, NEW rv \in Nat,
         To(w, [worker[w] EXCEPT !.pc = pc, !.rev = rv])
  PROVE  /\ WorkerType(worker'[w]) /\ worker'[w].pc = pc /\ worker'[w].rev = rv
         /\ worker'[w].plan = worker[w].plan /\ worker'[w].old = worker[w].old
         /\ worker'[w].next = worker[w].next /\ worker'[w].todo = worker[w].todo
         /\ worker'[w].done = worker[w].done /\ worker'[w].seen = worker[w].seen
<1>1. PICK k : k = worker[w]
  OBVIOUS
<1>2. worker'[w] = [k EXCEPT !.pc = pc, !.rev = rv] /\ WorkerType(k)
  BY <1>1, ToIs DEF Types
<1> QED
  BY <1>1, <1>2 DEF WorkerType

LEMMA CommitPortIs ==
  ASSUME Types, NEW w \in Workers, CommitPort(w)
  PROVE  \/ worker'[w] = Free
         \/ /\ WorkerType(worker'[w]) /\ worker'[w].pc = "unbind" /\ Keeps(w)
            /\ worker'[w].todo = worker[w].todo /\ worker'[w].done = worker[w].done
            /\ worker'[w].seen = worker[w].seen
<1> SUFFICES ASSUME To(w, [worker[w] EXCEPT !.pc = "unbind"])
             PROVE  /\ WorkerType(worker'[w]) /\ worker'[w].pc = "unbind" /\ Keeps(w)
                    /\ worker'[w].todo = worker[w].todo /\ worker'[w].done = worker[w].done
                    /\ worker'[w].seen = worker[w].seen
  BY ToIs DEF CommitPort
<1>1. PICK k : k = worker[w]
  OBVIOUS
<1>2. worker'[w] = [k EXCEPT !.pc = "unbind"] /\ WorkerType(k)
  BY <1>1, ToIs DEF Types
<1> QED
  BY <1>1, <1>2 DEF WorkerType, Pcs, Keeps

-----------------------------------------------------------------------------
(* What only grows *)

\* The revisions tell whether what they stand for has changed.
Onwards ==
  /\ rev <= rev' /\ (rev' = rev => bindings' = bindings)
  /\ portRev <= portRev' /\ (portRev' = portRev => port' = port)
  /\ used.others <= used'.others

LEMMA PutIs ==
  ASSUME Types, NEW b, Put(b)
  PROVE  bindings' = b /\ rev' = rev + 1 /\ rev' \in Nat /\ rev < rev'
BY DEF Types, TypeOK, Put

LEMMA UseIs ==
  ASSUME Types, NEW what \in {"ops", "others", "faults"}, NEW max \in Nat, Use(what, max)
  PROVE  /\ what = "others" => /\ used.others < max /\ used'.others = used.others + 1
                               /\ (max = MaxOthers => used' \in [ops : Nat, others : 0..MaxOthers, faults : Nat])
         /\ what # "others" => /\ used'.others = used.others
                               /\ used' \in [ops : Nat, others : 0..MaxOthers, faults : Nat]
<1>1. used \in [ops : Nat, others : 0..MaxOthers, faults : Nat]
  BY DEF Types
<1>2. MaxOthers \in Nat
  BY PortsAssumption
<1> QED
  BY <1>1, <1>2 DEF Use

LEMMA Bounds == MaxOps \in Nat /\ MaxOthers \in Nat /\ MaxFaults \in Nat
BY PortsAssumption

UsedStays ==
  used' \in [ops : Nat, others : 0..MaxOthers, faults : Nat] /\ used'.others = used.others

LEMMA FaultIs ==
  ASSUME Types, Fault \/ NoFault \/ Use("ops", MaxOps) \/ UNCHANGED used
  PROVE  UsedStays
<1>1. CASE Use("ops", MaxOps)
  BY <1>1, UseIs, Bounds DEF UsedStays
<1>2. CASE Use("faults", MaxFaults)
  BY <1>2, UseIs, Bounds DEF UsedStays
<1>3. CASE UNCHANGED used
  BY <1>3 DEF Types, UsedStays
<1> QED
  BY <1>1, <1>2, <1>3 DEF Fault, NoFault

\* One step of one migration.
Migrates(w) ==
  \/ \E new \in Ports : PlanPort(w, new)
  \/ Prepare(w) \/ CheckConfig(w) \/ RenameConfig(w) \/ RenameFails(w) \/ RenameUnsure(w)
  \/ CommitBindings(w) \/ CommitPort(w) \/ UndoBindings(w) \/ RolledBack(w)

LEMMA MigratesUsed ==
  ASSUME Types, NEW w \in Workers, Migrates(w)
  PROVE  UsedStays
<1>1. CASE \E new \in Ports : PlanPort(w, new)
  BY <1>1, FaultIs DEF PlanPort
<1>2. CASE Prepare(w) \/ CheckConfig(w) \/ RolledBack(w)
  BY <1>2, FaultIs DEF Prepare, CheckConfig, RolledBack
<1>3. CASE RenameConfig(w) \/ RenameFails(w) \/ RenameUnsure(w)
  BY <1>3, FaultIs DEF RenameConfig, RenameFails, RenameUnsure
<1>4. CASE CommitBindings(w)
  BY <1>4, FaultIs DEF CommitBindings
<1>5. CASE CommitPort(w)
  BY <1>5, FaultIs DEF CommitPort
<1>6. CASE UndoBindings(w)
  BY <1>6, FaultIs DEF UndoBindings
<1> QED
  BY <1>1, <1>2, <1>3, <1>4, <1>5, <1>6 DEF Migrates

\* What a migration leaves as it is, and how it moves the store and the port.
LEMMA MigratesIs ==
  ASSUME Types, NEW w \in Workers, Migrates(w)
  PROVE  /\ UNCHANGED <<root, attach, repair, up, edited, crossed>>
         /\ \/ UNCHANGED <<bindings, rev>>
            \/ /\ rev' = rev + 1 /\ bindings' \in {worker[w].old, worker[w].next}
               /\ worker[w].rev = rev /\ worker[w].pc \in {"forth", "unbind"}
         /\ \/ UNCHANGED <<port, portRev>>
            \/ At(w, "state") /\ portRev' = portRev + 1 /\ port' = worker[w].plan.new
         /\ adrift \subseteq adrift'
<1>1. CASE \E new \in Ports : PlanPort(w, new)
  BY <1>1 DEF PlanPort, disk, ghosts
<1>2. CASE Prepare(w) \/ RolledBack(w)
  BY <1>2 DEF Prepare, RolledBack, disk, ghosts
<1>3. CASE CheckConfig(w) \/ RenameFails(w)
  <2>1. adrift \subseteq adrift'
    BY <1>3, GiveUpIs, CheckIs DEF RenameFails
  <2> QED
    BY <1>3, <2>1 DEF CheckConfig, RenameFails, disk
<1>4. CASE RenameConfig(w)
  BY <1>4 DEF RenameConfig
<1>5. CASE RenameUnsure(w)
  <2>1. adrift \subseteq adrift'
    BY <1>5, GiveUpIs DEF RenameUnsure
  <2> QED
    BY <1>5, <2>1 DEF RenameUnsure
<1>6. CASE CommitBindings(w)
  BY <1>6 DEF CommitBindings, Put, Fits, At
<1>7. CASE CommitPort(w)
  BY <1>7 DEF CommitPort
<1>8. CASE UndoBindings(w)
  BY <1>8 DEF UndoBindings, Put, Fits, At
<1> QED
  BY <1>1, <1>2, <1>3, <1>4, <1>5, <1>6, <1>7, <1>8 DEF Migrates

Others ==
  \/ \E p \in Profiles : PlanAttach(p) \/ Detach(p) \/ Edit(p)
  \/ ExecuteAttach \/ Start \/ RepairConfig \/ RepairEnds \/ OtherCommit \/ Dies

LEMMA NextIs == Next <=> ((\E w \in Workers : Migrates(w)) \/ Others)
BY DEF Next, Migrates, Others

LEMMA Advances ==
  ASSUME Types, [Next]_vars
  PROVE  Onwards /\ used' \in [ops : Nat, others : 0..MaxOthers, faults : Nat]
<1>1. rev \in Nat /\ portRev \in Nat /\ used.others \in Nat
  BY Bounds DEF Types, TypeOK
<1>2. CASE \E w \in Workers : Migrates(w)
  <2>1. UsedStays
    BY <1>2, MigratesUsed
  <2>2. rev <= rev' /\ (rev' = rev => bindings' = bindings)
    BY <1>1, <1>2, MigratesIs
  <2>3. portRev <= portRev' /\ (portRev' = portRev => port' = port)
    BY <1>1, <1>2, MigratesIs
  <2> QED
    BY <1>1, <2>1, <2>2, <2>3 DEF Onwards, UsedStays
<1>3. ASSUME NEW p \in Profiles, PlanAttach(p) \/ Detach(p) PROVE Onwards /\ UsedStays
  <2>1. UsedStays
    BY <1>3, FaultIs DEF PlanAttach, Detach
  <2>2. UNCHANGED <<rev, bindings>> \/ rev < rev'
    BY <1>3, PutIs DEF PlanAttach, Detach, disk
  <2>3. UNCHANGED <<port, portRev>>
    BY <1>3 DEF PlanAttach, Detach, disk
  <2> QED
    BY <1>1, <2>1, <2>2, <2>3, <1>3, PutIs DEF Onwards, UsedStays, Detach, PlanAttach, disk
<1>4. CASE ExecuteAttach \/ Start \/ RepairConfig \/ RepairEnds \/ Dies
  <2>1. UsedStays
    BY <1>4, FaultIs DEF ExecuteAttach, Start, RepairConfig, RepairEnds, Dies
  <2>2. UNCHANGED <<rev, bindings>> \/ (rev' \in Nat /\ rev < rev')
    BY <1>4, PutIs DEF ExecuteAttach, Start, RepairConfig, RepairEnds, Dies, disk
  <2>3. UNCHANGED <<port, portRev>>
    BY <1>4 DEF ExecuteAttach, Start, RepairConfig, RepairEnds, Dies, disk
  <2> QED
    BY <1>1, <2>1, <2>2, <2>3 DEF Onwards, UsedStays
<1>5. CASE (\E p \in Profiles : Edit(p)) \/ OtherCommit
  <2>1. Use("others", MaxOthers) /\ UNCHANGED <<bindings, port>>
    BY <1>5 DEF Edit, OtherCommit
  <2>2. rev' \in {rev, rev + 1} /\ portRev' \in {portRev, portRev + 1}
    BY <1>5 DEF Edit, OtherCommit
  <2> QED
    BY <1>1, <2>1, <2>2, UseIs, Bounds DEF Onwards
<1>6. CASE UNCHANGED vars
  BY <1>1, <1>6 DEF vars, disk, Onwards, Types
<1> QED
  BY <1>2, <1>3, <1>4, <1>5, <1>6, NextIs DEF Others, UsedStays

-----------------------------------------------------------------------------
(* Types *)

LEMMA FreeAll ==
  ASSUME NEW w \in Workers, worker'[w] = Free
  PROVE  Planned(w)' /\ Stepping(w)' /\ Moving(w)' /\ WorkerType(worker'[w])
BY FreeIs DEF Planned, Stepping, Moving, At, NoSteps

LEMMA DueIs ==
  ASSUME Types, NEW w \in Workers, NEW s \in Due(w)
  PROVE  s \in worker[w].todo /\ s \in Steps /\ s.p \in Profiles /\ s.from \in Hosted /\ s.to \in Hosted
<1>1. s \in worker[w].todo
  BY DEF Due
<1>2. worker[w].todo \in SUBSET Steps
  BY DEF Types, WorkerType
<1> QED
  BY <1>1, <1>2 DEF Steps

\* What a write of a config does to the configs.
LEMMA RenamedIs ==
  ASSUME Types, Migrations, NEW w \in Workers, NEW s \in Due(w), Renamed(w, s)
  PROVE  /\ config'[s.p] = s.to /\ \A p \in Profiles \ {s.p} : config'[p] = config[p]
         /\ config' \in [Profiles -> Contents]
         /\ \A p \in Profiles : config'[p].note <= used.others
<1>1. s \in worker[w].todo /\ s.p \in Profiles /\ s.to \in Hosted
  BY DueIs
<1>2. s.to.note = s.from.note /\ s.from.note <= used.others /\ s.to \in Contents
  BY <1>1 DEF Migrations, Stepping, Hosted
<1> QED
  BY <1>1, <1>2 DEF Renamed, Types, TypeOK

\* The renamed configs, or the same ones.
LEMMA MigratesConfig ==
  ASSUME Types, Migrations, NEW w \in Workers, Migrates(w)
  PROVE  /\ config' = config \/ \E s \in Due(w) : Renamed(w, s)
         /\ config' \in [Profiles -> Contents]
         /\ \A p \in Profiles : config'[p].note <= used.others
<1>1. config' = config \/ \E s \in Due(w) : Renamed(w, s)
  BY DEF Migrates, PlanPort, Prepare, CheckConfig, RenameConfig, RenameFails, RenameUnsure,
         CommitBindings, CommitPort, UndoBindings, RolledBack, disk
<1>2. CASE config' = config
  BY <1>1, <1>2 DEF Types, TypeOK
<1>3. CASE \E s \in Due(w) : Renamed(w, s)
  BY <1>1, <1>3, RenamedIs
<1> QED
  BY <1>1, <1>2, <1>3

LEMMA MigratesAdrift ==
  ASSUME Types, Migrations, NEW w \in Workers, Migrates(w)
  PROVE  adrift' \in SUBSET Profiles
<1>1. adrift \in SUBSET Profiles /\ worker[w].todo \in SUBSET Steps
  BY DEF Types, TypeOK, WorkerType
<1>2. {s.p : s \in worker[w].todo} \subseteq Profiles /\ \A s \in Due(w) : s.p \in Profiles
  BY <1>1, DueIs DEF Steps
<1>3. worker[w].pc \in {"forth", "state", "unbind"} => DOMAIN worker[w].next \subseteq Profiles
  BY DEF Migrations, Moving, IsTable
<1>4. CASE GiveUp(w)
  BY <1>1, <1>2, <1>4, GiveUpIs
<1>5. CASE CheckConfig(w)
  BY <1>1, <1>4, <1>5, CheckIs
<1>6. CASE RenameFails(w)
  BY <1>4, <1>6 DEF RenameFails
<1>7. CASE RenameUnsure(w)
  BY <1>1, <1>2, <1>4, <1>7 DEF RenameUnsure
<1>8. CASE CommitBindings(w) \/ CommitPort(w) \/ UndoBindings(w)
  BY <1>1, <1>3, <1>8 DEF CommitBindings, CommitPort, UndoBindings, At
<1>9. CASE (\E new \in Ports : PlanPort(w, new)) \/ Prepare(w) \/ RenameConfig(w) \/ RolledBack(w)
  BY <1>1, <1>9 DEF PlanPort, Prepare, RenameConfig, RolledBack, ghosts
<1> QED
  BY <1>5, <1>6, <1>7, <1>8, <1>9 DEF Migrates

LEMMA MigratesWorker ==
  ASSUME Types, Migrations, NEW w \in Workers, Migrates(w)
  PROVE  /\ WorkerType(worker'[w]) /\ DOMAIN worker' = Workers
         /\ \A x \in Workers \ {w} : worker'[x] = worker[x]
<1>1. DOMAIN worker' = Workers /\ \A x \in Workers \ {w} : worker'[x] = worker[x]
  <2>1. \E k : To(w, k)
    BY DEF Migrates, PlanPort, Prepare, CheckConfig, RenameConfig, RenameFails, RenameUnsure,
           CommitBindings, CommitPort, UndoBindings, RolledBack, GiveUp, RollBack
  <2> QED
    BY <2>1, ToIs
<1> SUFFICES WorkerType(worker'[w])
  BY <1>1
<1>2. CASE RollBack(w) \/ worker'[w] = Free
  BY <1>2, RollBackIs, FreeIs
<1>3. CASE GiveUp(w)
  BY <1>2, <1>3, GiveUpIs
<1>4. CASE \E new \in Ports : PlanPort(w, new)
  BY <1>4, PlanPortIs
<1>5. CASE Prepare(w)
  BY <1>2, <1>5, PrepareIs
<1>6. CASE CheckConfig(w) \/ RenameConfig(w) \/ RenameFails(w)
  BY <1>3, <1>6, CheckIs, RenameIs DEF RenameFails
<1>7. CASE RenameUnsure(w)
  BY <1>2, <1>3, <1>7 DEF RenameUnsure
<1>8. CASE CommitBindings(w)
  <2>1. rev + 1 \in Nat
    BY DEF Types, TypeOK
  <2>2. "state" \in Pcs
    BY DEF Pcs
  <2> QED
    BY <1>2, <1>8, <2>1, <2>2, TurnIs DEF CommitBindings
<1>9. CASE CommitPort(w)
  BY <1>2, <1>9, CommitPortIs
<1>10. CASE UndoBindings(w) \/ RolledBack(w)
  BY <1>2, <1>10, ToIs DEF UndoBindings, RolledBack
<1> QED
  BY <1>4, <1>5, <1>6, <1>7, <1>8, <1>9, <1>10 DEF Migrates

LEMMA BindingIs ==
  ASSUME NEW c
  PROVE  BindingOf(c).applied = c /\ BindingOf(c).url = c.url /\ BindingOf(c).root = c.root
BY DEF BindingOf

LEMMA NoAttachIs ==
  ASSUME Types, Attaching, attach # NoAttach
  PROVE  /\ attach.p \in Profiles /\ attach.url \in Ports /\ attach.before \in Contents
BY DEF Attaching

\* What an attach writes.
AttachedAs == [url |-> attach.url, root |-> root, note |-> attach.before.note]
Attached ==
  /\ attach # NoAttach /\ attach' = NoAttach
  /\ rev = attach.rev /\ config[attach.p] = attach.before
  /\ config' = [config EXCEPT ![attach.p] = AttachedAs]
  /\ Put([q \in Bound \cup {attach.p} |-> IF q = attach.p THEN BindingOf(AttachedAs) ELSE bindings[q]])
  /\ Settle(attach.p) /\ Overtake(attach.p, {})
  /\ crossed' = IF attach.crossed THEN crossed \cup {attach.p} ELSE crossed \ {attach.p}

LEMMA ExecuteIs ==
  ExecuteAttach <=>
    /\ attach # NoAttach
    /\ \/ Attached
       \/ /\ ~(rev = attach.rev /\ config[attach.p] = attach.before)
          /\ attach' = NoAttach /\ UNCHANGED <<config, bindings, rev, ghosts>>
    /\ UNCHANGED <<port, portRev, root, worker, repair, up, used>>
BY DEF ExecuteAttach, Attached, AttachedAs

LEMMA AttachedIs ==
  ASSUME Types, Attaching, Attached
  PROVE  /\ attach.p \in Profiles /\ AttachedAs \in Hosted
         /\ AttachedAs.url = attach.url /\ AttachedAs.root = root
         /\ AttachedAs.note = config[attach.p].note
         /\ config'[attach.p] = AttachedAs /\ \A p \in Profiles \ {attach.p} : config'[p] = config[p]
         /\ config' \in [Profiles -> Contents]
         /\ Bound' = Bound \cup {attach.p}
         /\ bindings'[attach.p] = BindingOf(AttachedAs)
         /\ \A p \in Bound \ {attach.p} : bindings'[p] = bindings[p]
         /\ IsTable(bindings') /\ rev' = rev + 1
<1>1. attach # NoAttach /\ attach.p \in Profiles /\ attach.url \in Ports /\ attach.before \in Contents
      /\ config[attach.p] = attach.before
  BY NoAttachIs DEF Attached
<1>2. AttachedAs \in Hosted /\ AttachedAs.url = attach.url /\ AttachedAs.root = root
      /\ AttachedAs.note = config[attach.p].note
  BY <1>1 DEF AttachedAs, Hosted, Contents, Types, TypeOK
<1>3. PICK c : c = AttachedAs
  OBVIOUS
<1>4. config' = [config EXCEPT ![attach.p] = c] /\ c \in Contents
  BY <1>2, <1>3 DEF Attached, Hosted
<1>5. config'[attach.p] = c /\ (\A p \in Profiles \ {attach.p} : config'[p] = config[p])
      /\ config' \in [Profiles -> Contents]
  BY <1>1, <1>4 DEF Types, TypeOK
<1>6. PICK b : b = BindingOf(c)
  OBVIOUS
<1>7. bindings' = [q \in Bound \cup {attach.p} |-> IF q = attach.p THEN b ELSE bindings[q]]
      /\ rev' = rev + 1
  BY <1>3, <1>6 DEF Attached, Put
<1>8. /\ Bound' = Bound \cup {attach.p}
      /\ bindings'[attach.p] = b /\ \A p \in Bound \ {attach.p} : bindings'[p] = bindings[p]
  BY <1>7 DEF Bound
<1>9. b = BindingOf(b.applied) /\ b.applied = c
  BY <1>6, BindingIs
<1>10. IsTable(bindings')
  BY <1>1, <1>2, <1>3, <1>8, <1>9 DEF IsTable, Types, Bound
<1> QED
  BY <1>1, <1>2, <1>3, <1>5, <1>6, <1>7, <1>8, <1>10

LEMMA ContentParts ==
  ASSUME NEW c \in Contents
  PROVE  /\ \A d, u : d = [c EXCEPT !.url = u] /\ u \in Ports \cup {NoUrl, Foreign} =>
              d \in Contents /\ d.url = u /\ d.root = c.root /\ d.note = c.note
         /\ \A d, r : d = [c EXCEPT !.root = r] /\ r \in 0..2 =>
              d \in Contents /\ d.url = c.url /\ d.root = r /\ d.note = c.note
         /\ \A d, n : d = [c EXCEPT !.note = n] /\ n \in 0..MaxOthers =>
              d \in Contents /\ d.url = c.url /\ d.root = c.root /\ d.note = n
BY DEF Contents

LEMMA DetachIs ==
  ASSUME Types, NEW p \in Profiles, Detach(p)
  PROVE  /\ p \in Bound /\ Owns(p)
         /\ config'[p].url = NoUrl /\ \A q \in Profiles \ {p} : config'[q] = config[q]
         /\ config' \in [Profiles -> Contents] /\ config'[p].note = config[p].note
         /\ Bound' = Bound \ {p} /\ \A q \in Bound \ {p} : bindings'[q] = bindings[q]
         /\ IsTable(bindings') /\ rev' = rev + 1
<1>1. PICK c : c = config[p]
  OBVIOUS
<1>2. c \in Contents /\ config \in [Profiles -> Contents]
  BY <1>1 DEF Types, TypeOK
<1>3. PICK e : e = [c EXCEPT !.url = NoUrl]
  OBVIOUS
<1>4. PICK d : d = [e EXCEPT !.root = 0]
  OBVIOUS
<1>10. d \in Contents /\ d.url = NoUrl /\ d.note = c.note
  <2>1. e \in Contents /\ e.url = NoUrl /\ e.note = c.note
    <3>1. NoUrl \in Ports \cup {NoUrl, Foreign}
      OBVIOUS
    <3> QED
      BY <1>2, <1>3, <3>1, ContentParts
  <2>2. 0 \in 0..2
    OBVIOUS
  <2> QED
    BY <1>4, <2>1, <2>2, ContentParts
<1>5. config' = [[config EXCEPT ![p].url = NoUrl] EXCEPT ![p].root = 0]
  BY DEF Detach
<1>6. config' = [config EXCEPT ![p] = d]
  BY <1>1, <1>2, <1>3, <1>4, <1>5 DEF Contents
<1>7. bindings' = [q \in Bound \ {p} |-> bindings[q]] /\ rev' = rev + 1 /\ p \in Bound /\ Owns(p)
  BY DEF Detach, Put
<1>8. Bound' = Bound \ {p} /\ \A q \in Bound \ {p} : bindings'[q] = bindings[q]
  BY <1>7 DEF Bound
<1>9. IsTable(bindings')
  BY <1>8 DEF IsTable, Types, Bound
<1> QED
  BY <1>1, <1>2, <1>6, <1>7, <1>8, <1>9, <1>10

LEMMA EditIs ==
  ASSUME Types, NEW p \in Profiles, Edit(p)
  PROVE  /\ config'[p].url \in {config[p].url, Foreign} /\ config'[p].note = used'.others
         /\ used'.others = used.others + 1
         /\ \A q \in Profiles \ {p} : config'[q] = config[q]
         /\ config' \in [Profiles -> Contents]
<1>1. PICK c : c = config[p]
  OBVIOUS
<1>2. c \in Contents /\ config \in [Profiles -> Contents]
  BY <1>1 DEF Types, TypeOK
<1>3. PICK n : n = used.others + 1
  OBVIOUS
<1>4. n \in 0..MaxOthers /\ used'.others = n
  <2>1. Use("others", MaxOthers)
    BY DEF Edit
  <2>2. used'.others = used.others + 1 /\ used' \in [ops : Nat, others : 0..MaxOthers, faults : Nat]
    BY <2>1, UseIs, Bounds
  <2> QED
    BY <1>3, <2>2
<1>5. PICK url \in {c.url, Foreign} :
        config' = [[config EXCEPT ![p].url = url] EXCEPT ![p].note = n]
  BY <1>1, <1>3 DEF Edit
<1>6. url \in Ports \cup {NoUrl, Foreign}
  BY <1>2, <1>5 DEF Contents
<1>7. PICK d : d = [c EXCEPT !.url = url]
  OBVIOUS
<1>8. d \in Contents /\ d.url = url
  BY <1>2, <1>6, <1>7, ContentParts
<1>9. PICK e : e = [d EXCEPT !.note = n]
  OBVIOUS
<1>10. e \in Contents /\ e.url = url /\ e.note = n
  BY <1>4, <1>8, <1>9, ContentParts
<1>11. config' = [config EXCEPT ![p] = e]
  <2>1. [config EXCEPT ![p].url = url] = [config EXCEPT ![p] = d]
    BY <1>1, <1>2, <1>7
  <2>2. [[config EXCEPT ![p] = d] EXCEPT ![p].note = n] = [config EXCEPT ![p] = e]
    BY <1>1, <1>2, <1>9
  <2> QED
    BY <1>5, <2>1, <2>2
<1> QED
  BY <1>1, <1>2, <1>3, <1>4, <1>5, <1>10, <1>11

\* The repair rewrites a config, or goes on to the next one.
LEMMA RepairConfigIs ==
  ASSUME Types, Repairing, RepairConfig
  PROVE  /\ repair.on /\ repair'.on /\ repair'.rev = repair.rev
         /\ repair' \in [todo : {repair'.todo}, rev : Nat, next : {repair'.next},
                         changed : SUBSET Profiles, on : BOOLEAN]
         /\ \/ /\ config' = config /\ repair'.next = repair.next
               /\ repair'.changed = repair.changed
            \/ \E p \in Bound :
                 /\ p \in Profiles /\ Repairable(p)
                 /\ config'[p].root = root /\ config'[p].url = config[p].url
                 /\ config'[p].note = config[p].note
                 /\ \A q \in Profiles \ {p} : config'[q] = config[q]
                 /\ config' \in [Profiles -> Contents]
                 /\ repair'.changed = repair.changed \cup {p}
                 /\ DOMAIN repair'.next = DOMAIN repair.next
                 /\ repair'.next[p] = BindingOf(config'[p])
                 /\ \A q \in DOMAIN repair.next \ {p} : repair'.next[q] = repair.next[q]
<1>1. PICK p, r :
        /\ p \in repair.todo /\ r = [repair EXCEPT !.todo = repair.todo \ {p}]
        /\ \/ /\ p \in Bound /\ Repairable(p)
              /\ config' = [config EXCEPT ![p].root = root]
              /\ repair' = [r EXCEPT !.next = RepairedNext(p), !.changed = @ \cup {p}]
           \/ repair' = r /\ UNCHANGED config
  BY DEF RepairConfig
<1>2. repair.on
  BY <1>1 DEF Repairing
<1>3. /\ r.rev = repair.rev /\ r.next = repair.next /\ r.changed = repair.changed /\ r.on
      /\ r \in [todo : {r.todo}, rev : Nat, next : {r.next}, changed : SUBSET Profiles, on : BOOLEAN]
  <2>1. PICK a : a = repair
    OBVIOUS
  <2>2. a \in [todo : {a.todo}, rev : Nat, next : {a.next}, changed : SUBSET Profiles, on : BOOLEAN]
    BY <2>1 DEF Repairing
  <2>3. PICK rest : rest = repair.todo \ {p}
    OBVIOUS
  <2>4. r = [a EXCEPT !.todo = rest]
    BY <1>1, <2>1, <2>3
  <2> QED
    BY <1>2, <2>1, <2>2, <2>4
<1>4. CASE repair' = r /\ UNCHANGED config
  BY <1>2, <1>3, <1>4
<1>5. ASSUME p \in Bound, Repairable(p), config' = [config EXCEPT ![p].root = root],
             repair' = [r EXCEPT !.next = RepairedNext(p), !.changed = @ \cup {p}]
      PROVE  /\ repair'.on /\ repair'.rev = repair.rev
             /\ repair' \in [todo : {repair'.todo}, rev : Nat, next : {repair'.next},
                             changed : SUBSET Profiles, on : BOOLEAN]
             /\ p \in Profiles
             /\ config'[p].root = root /\ config'[p].url = config[p].url
             /\ config'[p].note = config[p].note
             /\ \A q \in Profiles \ {p} : config'[q] = config[q]
             /\ config' \in [Profiles -> Contents]
             /\ repair'.changed = repair.changed \cup {p}
             /\ DOMAIN repair'.next = DOMAIN repair.next
             /\ repair'.next[p] = BindingOf(config'[p])
             /\ \A q \in DOMAIN repair.next \ {p} : repair'.next[q] = repair.next[q]
  <2>1. p \in Profiles /\ p \in DOMAIN repair.next
    BY <1>2, <1>5 DEF Types, TypeOK, Repairing
  <2>2. PICK c : c = config[p]
    OBVIOUS
  <2>3. c \in Contents /\ config \in [Profiles -> Contents] /\ root \in 0..2
    BY <2>1, <2>2 DEF Types, TypeOK
  <2>4. PICK d : d = [c EXCEPT !.root = root]
    OBVIOUS
  <2>5. d \in Contents /\ d.url = c.url /\ d.root = root /\ d.note = c.note
    BY <2>3, <2>4, ContentParts
  <2>6. config' = [config EXCEPT ![p] = d]
    BY <1>5, <2>1, <2>2, <2>3, <2>4
  <2>7. config'[p] = d /\ (\A q \in Profiles \ {p} : config'[q] = config[q])
        /\ config' \in [Profiles -> Contents]
    BY <2>1, <2>3, <2>5, <2>6
  <2>8. PICK next, changed : next = RepairedNext(p) /\ changed = r.changed \cup {p}
    OBVIOUS
  <2>9. next = [repair.next EXCEPT ![p] = BindingOf(d)]
    BY <2>2, <2>4, <2>8 DEF RepairedNext
  <2>10. DOMAIN next = DOMAIN repair.next /\ next[p] = BindingOf(d)
         /\ \A q \in DOMAIN repair.next \ {p} : next[q] = repair.next[q]
    BY <2>1, <2>9
  <2>11. repair' = [r EXCEPT !.next = next, !.changed = changed]
    BY <1>5, <2>8
  <2>12. changed \in SUBSET Profiles
    BY <1>3, <2>1, <2>8
  <2>13. /\ repair'.rev = r.rev /\ repair'.next = next
         /\ repair'.changed = changed /\ repair'.on = r.on
         /\ repair' \in [todo : {repair'.todo}, rev : Nat, next : {repair'.next},
                         changed : SUBSET Profiles, on : BOOLEAN]
    BY <1>3, <2>11, <2>12
  <2> QED
    BY <1>2, <1>3, <2>1, <2>2, <2>5, <2>7, <2>8, <2>10, <2>13
<1> QED
  BY <1>1, <1>2, <1>4, <1>5

LEMMA UnfinishedIs ==
  ASSUME Types, Migrations, NEW w \in Workers
  PROVE  /\ Written(w) \subseteq Unfinished(w) /\ Unfinished(w) \subseteq Profiles
         /\ Written(w) = {s.p : s \in Edges(w)}
<1>1. WorkerType(worker[w])
  BY DEF Types
<1>2. worker[w].todo \in SUBSET Steps /\ worker[w].done \in SUBSET Steps
  BY <1>1 DEF WorkerType
<1>3. Written(w) = {s.p : s \in Edges(w)}
  <2>1. CASE At(w, "forth")
    BY <2>1 DEF Written, Edges, At
  <2>2. CASE At(w, "back")
    <3>1. Edges(w) = Undo(worker[w].todo)
      BY <2>2 DEF Edges, At
    <3>2. Written(w) = {s.p : s \in worker[w].todo}
      BY <2>2 DEF Written, At
    <3>3. \A t \in Undo(worker[w].todo) : \E s \in worker[w].todo : t.p = s.p
      BY <1>2, Undone
    <3>4. \A s \in worker[w].todo : \E t \in Undo(worker[w].todo) : t.p = s.p
      BY <1>2, Undone
    <3> QED
      BY <3>1, <3>2, <3>3, <3>4
  <2>3. CASE ~At(w, "forth") /\ ~At(w, "back")
    BY <2>3 DEF Written, Edges, NoSteps
  <2> QED
    BY <2>1, <2>2, <2>3
<1>4. Edges(w) \in SUBSET Steps
  BY <1>2, Undone DEF Edges, NoSteps
<1>5. Written(w) \subseteq Profiles
  BY <1>3, <1>4 DEF Steps
<1>6. worker[w].pc \in {"state", "unbind"} => DOMAIN worker[w].next \subseteq Profiles
  BY DEF Migrations, Moving, IsTable
<1> QED
  BY <1>3, <1>5, <1>6 DEF Unfinished

\* Types are kept: by a migration, ...
LEMMA MigratesTypes ==
  ASSUME Types, Migrations, NEW w \in Workers, Migrates(w)
  PROVE  Types'
<1>1. IsTable(bindings')
  <2>1. worker[w].pc \in {"forth", "unbind"} => IsTable(worker[w].old) /\ IsTable(worker[w].next)
    BY DEF Migrations, Moving
  <2> QED
    BY <2>1, MigratesIs DEF Types
<1>2. DOMAIN bindings' \subseteq Profiles
      /\ \A p \in DOMAIN bindings' : bindings'[p] = BindingOf(bindings'[p].applied)
                                     /\ bindings'[p].applied \in Contents
  BY <1>1 DEF IsTable, Hosted
<1>3. rev' \in Nat /\ portRev' \in Nat
  BY MigratesIs DEF Types, TypeOK
<1>4. port' \in Ports
  <2>1. At(w, "state") => worker[w].plan.new \in Ports
    BY DEF Migrations, Planned, Plans, At
  <2> QED
    BY <2>1, MigratesIs DEF Types, TypeOK
<1>5. {edited', adrift', crossed'} \subseteq SUBSET Profiles /\ root' \in 1..2
  BY MigratesIs, MigratesAdrift DEF Types, TypeOK
<1>6. TypeOK'
  BY <1>2, <1>3, <1>4, <1>5, MigratesConfig DEF TypeOK, Bound
<1>7. used' \in [ops : Nat, others : 0..MaxOthers, faults : Nat] /\ used'.others = used.others
  BY MigratesUsed DEF UsedStays
<1>8. \A x \in Workers : WorkerType(worker'[x])
  BY MigratesWorker DEF Types
<1> QED
  BY <1>1, <1>6, <1>7, <1>8, MigratesConfig, MigratesWorker DEF Types

\* ... and by everything else.
LEMMA OthersTypes ==
  ASSUME Types, Migrations, Attaching, Repairing, Others
  PROVE  Types'
<1>1. used' \in [ops : Nat, others : 0..MaxOthers, faults : Nat] /\ used.others <= used'.others
      /\ used.others \in Nat /\ used'.others \in Nat
  BY Advances, NextIs, Bounds DEF Types, Onwards
<1>2. /\ config \in [Profiles -> Contents] /\ IsTable(bindings)
      /\ \A p \in Profiles : config[p].note <= used.others /\ config[p].note \in Nat
  BY Bounds DEF Types, TypeOK, Contents
<1>3. ASSUME config' \in [Profiles -> Contents], \A p \in Profiles : config'[p].note <= used'.others,
             IsTable(bindings'), rev' \in Nat, portRev' \in Nat, port' \in Ports, root' \in 1..2,
             {edited', adrift', crossed'} \subseteq SUBSET Profiles,
             DOMAIN worker' = Workers, \A w \in Workers : WorkerType(worker'[w])
      PROVE  Types'
  <2>1. /\ DOMAIN bindings' \subseteq Profiles
        /\ \A p \in DOMAIN bindings' : /\ bindings'[p] = BindingOf(bindings'[p].applied)
                                       /\ bindings'[p].applied \in Contents
    BY <1>3 DEF IsTable, Hosted
  <2>2. TypeOK'
    BY <1>3, <2>1 DEF TypeOK, Bound
  <2> QED
    BY <1>1, <1>3, <2>2 DEF Types
<1>4. /\ rev \in Nat /\ portRev \in Nat /\ port \in Ports /\ root \in 1..2
      /\ {edited, adrift, crossed} \subseteq SUBSET Profiles
      /\ DOMAIN worker = Workers /\ \A w \in Workers : WorkerType(worker[w])
  BY DEF Types, TypeOK
<1>5. \A p \in Profiles : config[p].note <= used'.others
  BY <1>1, <1>2
<1>6. CASE \E p \in Profiles : PlanAttach(p)
  <2>1. UNCHANGED <<disk, worker, ghosts>>
    BY <1>6 DEF PlanAttach
  <2>2. UNCHANGED <<config, bindings, rev, port, portRev, root, worker, edited, adrift, crossed>>
    BY <2>1 DEF disk, ghosts
  <2> QED
    BY <1>2, <1>3, <1>4, <1>5, <2>2
<1>7. ASSUME NEW p \in Profiles, Detach(p) PROVE Types'
  <2>1. /\ config' \in [Profiles -> Contents] /\ IsTable(bindings') /\ rev' \in Nat
        /\ \A q \in Profiles : config'[q].note <= used'.others
    BY <1>4, <1>5, <1>7, DetachIs
  <2>2. UNCHANGED <<port, portRev, root, worker>>
    BY <1>7 DEF Detach
  <2>3. {edited', adrift', crossed'} \subseteq SUBSET Profiles
    BY <1>4, <1>7 DEF Detach, Settle
  <2> QED
    BY <1>3, <1>4, <2>1, <2>2, <2>3
<1>8. ASSUME NEW p \in Profiles, Edit(p) PROVE Types'
  <2>1. /\ config' \in [Profiles -> Contents]
        /\ \A q \in Profiles : config'[q].note <= used'.others
    BY <1>1, <1>5, <1>8, EditIs
  <2>2. UNCHANGED <<bindings, rev, port, portRev, root, worker, adrift, crossed>>
    BY <1>8 DEF Edit
  <2>3. edited' \in SUBSET Profiles
    BY <1>4, <1>8 DEF Edit
  <2> QED
    BY <1>2, <1>3, <1>4, <2>1, <2>2, <2>3
<1>9. CASE ExecuteAttach
  <2>1. UNCHANGED <<port, portRev, root, worker>>
    BY <1>9 DEF ExecuteAttach
  <2>2. CASE Attached
    <3>1. attach.p \in Profiles
      BY <2>2, AttachedIs
    <3>2. /\ config' \in [Profiles -> Contents] /\ IsTable(bindings') /\ rev' \in Nat
          /\ \A q \in Profiles : config'[q].note <= used'.others
      BY <1>4, <1>5, <2>2, AttachedIs
    <3>3. {edited', adrift', crossed'} \subseteq SUBSET Profiles
      BY <1>4, <2>2, <3>1 DEF Attached, Settle
    <3> QED
      BY <1>3, <1>4, <2>1, <3>2, <3>3
  <2>3. CASE UNCHANGED <<config, bindings, rev, ghosts>>
    <3>1. UNCHANGED <<config, bindings, rev, edited, adrift, crossed>>
      BY <2>3 DEF ghosts
    <3> QED
      BY <1>2, <1>3, <1>4, <1>5, <2>1, <3>1
  <2> QED
    BY <1>9, <2>2, <2>3, ExecuteIs
<1>10. CASE Start
  <2>1. UNCHANGED <<config, bindings, rev, port, portRev, worker, edited, adrift, crossed>> /\ root' \in 1..2
    BY <1>4, <1>10 DEF Start, ghosts
  <2> QED
    BY <1>2, <1>3, <1>4, <1>5, <2>1
<1>11. CASE RepairConfig
  <2>1. UNCHANGED <<bindings, rev, port, portRev, root, worker, edited, adrift, crossed>>
    BY <1>11 DEF RepairConfig, ghosts
  <2>2. /\ config' \in [Profiles -> Contents]
        /\ \A q \in Profiles : config'[q].note <= used'.others
    BY <1>2, <1>5, <1>11, RepairConfigIs
  <2> QED
    BY <1>2, <1>3, <1>4, <2>1, <2>2
<1>12. CASE RepairEnds
  <2>1. UNCHANGED <<config, port, portRev, root, worker, edited, crossed>>
    BY <1>12 DEF RepairEnds
  <2>2. repair.on /\ IsTable(repair.next) /\ repair.changed \subseteq Profiles
    BY <1>12 DEF RepairEnds, Repairing
  <2>3. IsTable(bindings') /\ rev' \in Nat /\ adrift' \in SUBSET Profiles
    BY <1>2, <1>4, <1>12, <2>2, PutIs DEF RepairEnds
  <2> QED
    BY <1>2, <1>3, <1>4, <1>5, <2>1, <2>3
<1>13. CASE OtherCommit
  <2>1. UNCHANGED <<config, bindings, port, root, worker, edited, adrift, crossed>>
        /\ rev' \in Nat /\ portRev' \in Nat
    BY <1>4, <1>13 DEF OtherCommit, ghosts
  <2> QED
    BY <1>2, <1>3, <1>4, <1>5, <2>1
<1>14. CASE Dies
  <2>1. UNCHANGED <<config, bindings, rev, port, portRev, root, edited, crossed>>
    BY <1>14 DEF Dies, disk
  <2>2. DOMAIN worker' = Workers /\ \A w \in Workers : WorkerType(worker'[w])
    BY <1>14, FreeIs DEF Dies
  <2>3. adrift' \in SUBSET Profiles
    BY <1>4, <1>14, UnfinishedIs DEF Dies, Repairing
  <2> QED
    BY <1>2, <1>3, <1>4, <1>5, <2>1, <2>2, <2>3
<1> QED
  BY <1>6, <1>7, <1>8, <1>9, <1>10, <1>11, <1>12, <1>13, <1>14 DEF Others
-----------------------------------------------------------------------------
(* Migrations *)

\* Another step leaves a migration as it is described.
LEMMA OtherStays ==
  ASSUME Types, Types', Onwards, NEW x \in Workers, worker'[x] = worker[x],
         Planned(x), Stepping(x), Moving(x)
  PROVE  Planned(x)' /\ Stepping(x)' /\ Moving(x)'
<1>1. /\ rev \in Nat /\ rev' \in Nat /\ portRev \in Nat /\ portRev' \in Nat
      /\ used.others \in Nat /\ used'.others \in Nat
  BY Bounds DEF Types, TypeOK
<1>2. worker[x].rev \in Nat /\ worker[x].todo \in SUBSET Steps /\ worker[x].done \in SUBSET Steps
  BY DEF Types, WorkerType
<1>3. Planned(x)'
  BY <1>1 DEF Planned, Plans, Onwards, At
<1>4. \A s \in worker[x].todo \cup worker[x].done : s.from.note \in Nat
  BY <1>2, Bounds DEF Steps, Hosted, Contents
<1>5. Stepping(x)'
  BY <1>1, <1>4 DEF Stepping, Onwards
<1>6. Moving(x)'
  BY <1>1, <1>2 DEF Moving, Onwards, At
<1> QED
  BY <1>3, <1>5, <1>6

\* A rollback takes back exactly what was written.
LEMMA RollBackStays ==
  ASSUME Types, Types', Onwards, NEW w \in Workers, RollBack(w), ~At(w, "free"),
         Planned(w), Stepping(w)
  PROVE  Planned(w)' /\ Stepping(w)' /\ Moving(w)'
<1>1. /\ worker'[w].pc = "back" /\ ~worker'[w].seen /\ worker'[w].done = NoSteps
      /\ worker'[w].todo = Undo(worker[w].done) /\ worker'[w].plan = worker[w].plan
  BY RollBackIs DEF Keeps
<1>2. /\ rev \in Nat /\ rev' \in Nat /\ portRev \in Nat /\ portRev' \in Nat
      /\ used.others \in Nat /\ used'.others \in Nat
  BY Bounds DEF Types, TypeOK
<1>3. worker[w].done \in SUBSET Steps
  BY DEF Types, WorkerType
<1>4. Planned(w)'
  BY <1>1, <1>2 DEF Planned, Plans, Onwards, At
<1>5. \A t \in worker'[w].todo : \E s \in worker[w].done :
        t.p = s.p /\ t.from = s.to /\ t.to = s.from
  BY <1>1, <1>3, Undone
<1>6. \A s \in worker[w].done : s.from.note \in Nat /\ s.from.note = s.to.note
                                /\ s.from.root = s.to.root /\ s.from.note <= used.others
  BY <1>3, Bounds DEF Stepping, Steps, Hosted, Contents
<1>7. \A t \in worker'[w].todo : t.from.note = t.to.note /\ t.from.root = t.to.root
                                 /\ t.from.note <= used'.others
  BY <1>2, <1>5, <1>6 DEF Onwards
<1>8. worker'[w].todo \in SUBSET Steps
  BY DEF Types, WorkerType
<1>9. \A t, u \in worker'[w].todo : t.p = u.p => t = u
  <2> SUFFICES ASSUME NEW t \in worker'[w].todo, NEW u \in worker'[w].todo, t.p = u.p PROVE t = u
    OBVIOUS
  <2>1. PICK s \in worker[w].done : t.p = s.p /\ t.from = s.to /\ t.to = s.from
    BY <1>5
  <2>2. PICK r \in worker[w].done : u.p = r.p /\ u.from = r.to /\ u.to = r.from
    BY <1>5
  <2>3. s = r
    BY <2>1, <2>2 DEF Stepping
  <2>4. t.p = u.p /\ t.from = u.from /\ t.to = u.to
    BY <2>1, <2>2, <2>3
  <2> QED
    BY <1>8, <2>4 DEF Steps
<1>10. Stepping(w)'
  BY <1>1, <1>7, <1>9 DEF Stepping, NoSteps
<1> QED
  BY <1>1, <1>4, <1>10 DEF Moving

\* A write moves its step from those to be done to those done.
LEMMA SameSteps ==
  ASSUME NEW todo, NEW done, NEW s \in todo
  PROVE  (todo \ {s}) \cup (done \cup {s}) = todo \cup done
OBVIOUS

\* A migration that goes on with the same plan and the same steps.
LEMMA GoesOn ==
  ASSUME Types, Types', Onwards, NEW w \in Workers, Planned(w), Stepping(w), Moving(w),
         Keeps(w), worker[w].pc \in {"forth", "back"}, worker'[w].pc = worker[w].pc,
         worker'[w].todo \cup worker'[w].done = worker[w].todo \cup worker[w].done,
         worker'[w].seen => worker'[w].todo # NoSteps, worker'[w].todo \cap worker'[w].done = {}
  PROVE  Planned(w)' /\ Stepping(w)' /\ Moving(w)'
<1>1. /\ rev \in Nat /\ rev' \in Nat /\ portRev \in Nat /\ portRev' \in Nat
      /\ used.others \in Nat /\ used'.others \in Nat
  BY Bounds DEF Types, TypeOK
<1>2. worker[w].rev \in Nat /\ worker[w].todo \in SUBSET Steps /\ worker[w].done \in SUBSET Steps
  BY DEF Types, WorkerType
<1>3. Planned(w)'
  BY <1>1 DEF Planned, Plans, Onwards, At, Keeps
<1>4. \A s \in worker[w].todo \cup worker[w].done : s.from.note \in Nat
  BY <1>2, Bounds DEF Steps, Hosted, Contents
<1>5. Stepping(w)'
  BY <1>1, <1>4 DEF Stepping, Onwards
<1>6. Moving(w)'
  BY <1>1, <1>2 DEF Moving, Onwards, At, Keeps
<1> QED
  BY <1>3, <1>5, <1>6

LEMMA PrepareStays ==
  ASSUME Types, Migrations, Types', Onwards, NEW w \in Workers, Prepare(w), worker'[w] # Free
  PROVE  Planned(w)' /\ Stepping(w)' /\ Moving(w)'
<1> DEFINE new == worker[w].plan.new
<1>1. /\ WorkerType(worker'[w]) /\ StillPlanned(w)
      /\ worker'[w].pc = "forth" /\ ~worker'[w].seen /\ worker'[w].done = NoSteps
      /\ worker'[w].plan = worker[w].plan /\ worker'[w].rev = rev
      /\ worker'[w].old = bindings /\ DOMAIN worker'[w].next = Bound
      /\ worker[w].plan \in Plans
      /\ \A p \in Bound : worker'[w].next[p] = BindingOf(Moved(p, new))
      /\ worker'[w].todo = {[p |-> p, from |-> config[p], to |-> Moved(p, new)] : p \in Bound}
  BY PrepareIs
<1>2. UNCHANGED <<bindings, rev, port, portRev, used>>
  BY DEF Prepare, disk
<1>3. At(w, "planned")
  BY DEF Prepare
<1>4. new \in Ports
  BY <1>1 DEF Plans
<1>5. \A p \in Bound :
        /\ config[p] = bindings[p].applied /\ bindings[p].url = worker[w].plan.old
        /\ config[p] \in Hosted /\ Moved(p, new) \in Hosted
        /\ Moved(p, new).note = config[p].note /\ Moved(p, new).root = config[p].root
        /\ BindingOf(Moved(p, new)).applied = Moved(p, new)
        /\ BindingOf(Moved(p, new)).url = new
        /\ BindingOf(Moved(p, new)) = BindingOf(BindingOf(Moved(p, new)).applied)
        /\ config[p].note <= used.others
  BY <1>1, <1>4, MovedIs DEF StillPlanned, Types, TypeOK
<1>6. Planned(w)'
  <2>1. Planned(w)
    BY DEF Migrations
  <2> QED
    BY <1>1, <1>2, <1>3, <2>1 DEF Planned, At
<1>7. \A s \in worker'[w].todo :
        s.p \in Bound /\ s.from = config[s.p] /\ s.to = Moved(s.p, new)
  BY <1>1
<1>8. \A p \in Bound : \E s \in worker'[w].todo : s.p = p
  <2> TAKE p \in Bound
  <2> DEFINE s == [p |-> p, from |-> config[p], to |-> Moved(p, new)]
  <2>1. s \in worker'[w].todo /\ s.p = p
    BY <1>1
  <2> QED
    BY <2>1
<1>9. Stepping(w)'
  <2>1. worker'[w].todo \in SUBSET Steps
    BY <1>1 DEF WorkerType
  <2>2. \A s, t \in worker'[w].todo : s.p = t.p => s = t
    BY <1>7, <2>1 DEF Steps
  <2> QED
    BY <1>1, <1>2, <1>5, <1>7, <2>2 DEF Stepping, NoSteps
<1>10. IsTable(worker'[w].next) /\ IsTable(worker'[w].old)
  BY <1>1, <1>5 DEF IsTable, Types, TypeOK, Bound
<1>11. rev <= rev
  BY DEF Types, TypeOK
<1>12. Moving(w)'
  BY <1>1, <1>2, <1>5, <1>7, <1>8, <1>10, <1>11 DEF Moving, NoSteps, At, Bound
<1> QED
  BY <1>6, <1>9, <1>12

LEMMA CommitStays ==
  ASSUME Types, Migrations, Types', Onwards, NEW w \in Workers, CommitBindings(w)
  PROVE  Planned(w)' /\ Stepping(w)' /\ Moving(w)'
<1>1. At(w, "forth") /\ ~At(w, "free") /\ worker[w].todo = NoSteps
  BY DEF CommitBindings, At
<1>2. Planned(w) /\ Stepping(w) /\ Moving(w)
  BY DEF Migrations
<1>3. CASE RollBack(w)
  BY <1>1, <1>2, <1>3, RollBackStays
<1>4. CASE /\ Put(worker[w].next) /\ UNCHANGED <<port, portRev>>
           /\ To(w, [worker[w] EXCEPT !.pc = "state", !.rev = rev + 1])
  <2>1. rev + 1 \in Nat /\ "state" \in Pcs
    BY DEF Types, TypeOK, Pcs
  <2>2. /\ worker'[w].pc = "state" /\ worker'[w].rev = rev + 1
        /\ worker'[w].plan = worker[w].plan /\ worker'[w].old = worker[w].old
        /\ worker'[w].next = worker[w].next /\ worker'[w].todo = worker[w].todo
        /\ worker'[w].done = worker[w].done /\ worker'[w].seen = worker[w].seen
    BY <1>4, <2>1, TurnIs
  <2>3. rev' = rev + 1 /\ bindings' = worker[w].next
    BY <1>4, PutIs
  <2>4. used'.others = used.others
    BY MigratesUsed DEF UsedStays, Migrates
  <2>5. Planned(w)'
    BY <1>1, <1>2, <1>4, <2>2 DEF Planned, At
  <2>6. Stepping(w)'
    BY <1>1, <1>2, <2>2, <2>4 DEF Stepping, At
  <2>7. Moving(w)'
    BY <1>1, <1>2, <2>1, <2>2, <2>3 DEF Moving, At
  <2> QED
    BY <2>5, <2>6, <2>7
<1> QED
  BY <1>3, <1>4 DEF CommitBindings

LEMMA CommitPortStays ==
  ASSUME Types, Migrations, Types', Onwards, NEW w \in Workers, CommitPort(w)
  PROVE  Planned(w)' /\ Stepping(w)' /\ Moving(w)'
<1>1. At(w, "state") /\ UNCHANGED <<rev, bindings>>
  BY DEF CommitPort, At
<1>2. Planned(w) /\ Stepping(w) /\ Moving(w)
  BY DEF Migrations
<1>3. CASE worker'[w] = Free
  BY <1>3, FreeAll
<1>4. CASE /\ worker'[w].pc = "unbind" /\ Keeps(w)
           /\ worker'[w].todo = worker[w].todo /\ worker'[w].done = worker[w].done
           /\ worker'[w].seen = worker[w].seen
  <2>1. /\ rev \in Nat /\ portRev \in Nat /\ portRev' \in Nat
    BY DEF Types, TypeOK
  <2>2. used'.others = used.others
    BY MigratesUsed DEF UsedStays, Migrates
  <2>3. Planned(w)'
    BY <1>1, <1>2, <1>4, <2>1 DEF Planned, Plans, Onwards, At, Keeps
  <2>4. Stepping(w)'
    BY <1>1, <1>2, <1>4, <2>2 DEF Stepping, At
  <2>5. Moving(w)'
    BY <1>1, <1>2, <1>4 DEF Moving, At, Keeps
  <2> QED
    BY <2>3, <2>4, <2>5
<1> QED
  BY <1>3, <1>4, CommitPortIs

LEMMA MigratesStays ==
  ASSUME Types, Migrations, Types', Onwards, NEW w \in Workers, Migrates(w)
  PROVE  Migrations'
<1>1. ASSUME NEW x \in Workers \ {w} PROVE Planned(x)' /\ Stepping(x)' /\ Moving(x)'
  BY OtherStays, MigratesWorker DEF Migrations
<1> SUFFICES Planned(w)' /\ Stepping(w)' /\ Moving(w)'
  BY <1>1 DEF Migrations
<1>2. Planned(w) /\ Stepping(w) /\ Moving(w)
  BY DEF Migrations
<1>3. CASE worker'[w] = Free
  BY <1>3, FreeAll
<1>4. CASE RollBack(w) /\ ~At(w, "free")
  BY <1>2, <1>4, RollBackStays
<1>5. worker[w].todo # NoSteps \/ worker[w].seen => worker[w].pc \in {"forth", "back"} /\ ~At(w, "free")
  BY <1>2 DEF Stepping, At
<1>6. CASE GiveUp(w) /\ (worker[w].todo # NoSteps \/ worker[w].seen)
  BY <1>3, <1>4, <1>5, <1>6, GiveUpIs
<1>7. CASE \E new \in Ports : PlanPort(w, new)
  <2>1. /\ worker'[w].pc = "planned" /\ ~worker'[w].seen
        /\ worker'[w].done = NoSteps /\ worker'[w].todo = NoSteps
        /\ worker'[w].plan \in Plans /\ worker'[w].plan.rev = portRev
        /\ worker'[w].plan.new # worker'[w].plan.old /\ worker'[w].plan.old = port
    BY <1>7, PlanPortIs
  <2>2. UNCHANGED <<port, portRev>> /\ portRev <= portRev
    BY <1>7 DEF PlanPort, disk, Types, TypeOK
  <2> QED
    BY <2>1, <2>2 DEF Planned, Stepping, Moving, At, NoSteps
<1>8. CASE Prepare(w)
  BY <1>3, <1>8, PrepareStays
<1>9. CASE CheckConfig(w)
  <2>1. PICK s : s \in Due(w)
    BY <1>9 DEF CheckConfig
  <2>2. worker[w].todo # NoSteps
    BY <2>1 DEF Due, NoSteps
  <2>3. CASE ~GiveUp(w)
    <3>1. /\ Keeps(w) /\ worker'[w].seen
          /\ worker'[w].pc = worker[w].pc /\ worker'[w].todo = worker[w].todo
          /\ worker'[w].done = worker[w].done
      BY <1>9, <2>3, CheckIs
    <3>2. worker'[w].todo \cap worker'[w].done = {}
      BY <1>2, <3>1 DEF Stepping
    <3> QED
      BY <1>2, <1>5, <2>2, <3>1, <3>2, GoesOn
  <2> QED
    BY <1>6, <2>2, <2>3
<1>10. CASE RenameConfig(w)
  <2>1. PICK s \in Due(w) :
          /\ s \in worker[w].todo
          /\ Keeps(w) /\ ~worker'[w].seen
          /\ worker'[w].pc = worker[w].pc /\ worker'[w].todo = worker[w].todo \ {s}
          /\ worker'[w].done = worker[w].done \cup {s}
    BY <1>10, RenameIs
  <2>2. worker'[w].todo \cup worker'[w].done = worker[w].todo \cup worker[w].done
    BY <2>1
  <2>3. worker[w].seen
    BY <1>10 DEF RenameConfig
  <2>4. worker'[w].todo \cap worker'[w].done = {}
    BY <1>2, <2>1 DEF Stepping
  <2> QED
    BY <1>2, <1>5, <2>1, <2>2, <2>3, <2>4, GoesOn
<1>11. CASE RenameFails(w)
  BY <1>6, <1>11 DEF RenameFails
<1>12. CASE RenameUnsure(w)
  <2>1. worker[w].seen /\ (GiveUp(w) \/ RollBack(w))
    BY <1>12 DEF RenameUnsure
  <2> QED
    BY <1>4, <1>5, <1>6, <2>1
<1>13. CASE CommitBindings(w)
  BY <1>13, CommitStays
<1>14. CASE CommitPort(w)
  BY <1>14, CommitPortStays
<1>15. CASE UndoBindings(w)
  <2>1. ~At(w, "free")
    BY <1>15 DEF UndoBindings, At
  <2>2. RollBack(w) \/ worker'[w] = Free
    BY <1>15, ToIs DEF UndoBindings
  <2> QED
    BY <1>3, <1>4, <2>1, <2>2
<1>16. CASE RolledBack(w)
  <2>1. worker'[w] = Free
    BY <1>16, ToIs DEF RolledBack
  <2> QED
    BY <1>3, <2>1
<1> QED
  BY <1>7, <1>8, <1>9, <1>10, <1>11, <1>12, <1>13, <1>14, <1>15, <1>16 DEF Migrates

LEMMA OthersStay ==
  ASSUME Types, Migrations, Types', Onwards, Others
  PROVE  Migrations'
<1>1. CASE worker' = worker
  BY <1>1, OtherStays DEF Migrations
<1>2. CASE Dies
  <2>1. \A w \in Workers : worker'[w] = Free
    BY <1>2 DEF Dies
  <2> QED
    BY <2>1, FreeAll DEF Migrations
<1>3. Dies \/ worker' = worker
  BY DEF Others, PlanAttach, Detach, Edit, ExecuteAttach, Start, RepairConfig, RepairEnds, OtherCommit
<1> QED
  BY <1>1, <1>2, <1>3

-----------------------------------------------------------------------------
(* The attach plan and the repair *)

LEMMA AttachingStays ==
  ASSUME Types, Types', Attaching, Onwards, Next
  PROVE  Attaching'
<1>1. rev \in Nat /\ rev' \in Nat
  BY DEF Types, TypeOK
<1>2. CASE attach' = NoAttach
  BY <1>2 DEF Attaching
<1>3. CASE attach' = attach
  BY <1>1, <1>3 DEF Attaching, Onwards, Bound
<1>4. CASE \E p \in Profiles : PlanAttach(p)
  <2>1. PICK p \in Profiles : PlanAttach(p)
    BY <1>4
  <2>2. PICK b, c : b = (\E w \in Workers : At(w, "state")) /\ c = config[p] /\ b \in BOOLEAN
    OBVIOUS
  <2>3. attach' = [p |-> p, url |-> port, rev |-> rev, before |-> c, crossed |-> b]
    BY <2>1, <2>2 DEF PlanAttach
  <2>4. c \in Contents /\ port \in Ports
    BY <2>2 DEF Types, TypeOK
  <2>5. UNCHANGED <<bindings, rev, config>> /\ (p \in Bound => config[p] = bindings[p].applied)
    BY <2>1 DEF PlanAttach, disk
  <2> QED
    BY <1>1, <2>2, <2>3, <2>4, <2>5 DEF Attaching, Bound
<1>5. CASE \E w \in Workers : Migrates(w)
  BY <1>3, <1>5, MigratesIs
<1>6. CASE Others
  BY <1>2, <1>3, <1>4, <1>6 DEF Others, Detach, Edit, ExecuteAttach, Start, RepairConfig,
     RepairEnds, OtherCommit, Dies
<1> QED
  BY <1>5, <1>6, NextIs

\* Nothing of a migration happens before the application runs.
LEMMA MigratesUp ==
  ASSUME Types, Migrations, Repairing, NEW w \in Workers, Migrates(w)
  PROVE  up /\ ~repair.on
<1> SUFFICES up
  BY DEF Repairing
<1>1. ~up => worker[w].pc = "free"
  BY DEF Repairing, At
<1>2. worker[w].pc = "free" => ~worker[w].seen /\ worker[w].todo = NoSteps
  BY DEF Migrations, Stepping
<1>3. worker[w].todo = NoSteps => Due(w) = {}
  BY DEF Due, NoSteps
<1>4. CASE \E new \in Ports : PlanPort(w, new)
  BY <1>1, <1>4 DEF PlanPort
<1>5. CASE Prepare(w) \/ CommitBindings(w) \/ CommitPort(w) \/ UndoBindings(w) \/ RolledBack(w)
  BY <1>1, <1>5 DEF Prepare, CommitBindings, CommitPort, UndoBindings, RolledBack, At
<1>6. CASE CheckConfig(w) \/ RenameConfig(w) \/ RenameFails(w) \/ RenameUnsure(w)
  BY <1>1, <1>2, <1>3, <1>6 DEF CheckConfig, RenameConfig, RenameFails, RenameUnsure
<1> QED
  BY <1>4, <1>5, <1>6 DEF Migrates

LEMMA RepairingStays ==
  ASSUME Types, Types', Migrations, Repairing, Next
  PROVE  Repairing'
<1>1. CASE up /\ UNCHANGED <<repair, up>>
  BY <1>1 DEF Repairing
<1>2. CASE /\ repair' = NoRepair
           /\ up' \/ (attach' = NoAttach /\ \A w \in Workers : worker'[w] = Free)
  BY <1>2, FreeIs DEF Repairing, NoRepair, At
<1>3. CASE \E w \in Workers : Migrates(w)
  BY <1>1, <1>3, MigratesIs, MigratesUp
<1>4. ASSUME NEW p \in Profiles, PlanAttach(p) \/ Detach(p) PROVE Repairing'
  <2>1. UNCHANGED <<repair, up>> /\ up
    BY <1>4 DEF PlanAttach, Detach
  <2> QED
    BY <1>1, <2>1
<1>5. CASE ExecuteAttach
  <2>1. UNCHANGED <<repair, up>> /\ attach # NoAttach
    BY <1>5 DEF ExecuteAttach
  <2>2. up
    BY <2>1 DEF Repairing
  <2> QED
    BY <1>1, <2>1, <2>2
<1>6. ASSUME NEW p \in Profiles, Edit(p) PROVE Repairing'
  <2>1. UNCHANGED <<repair, up, attach, worker, bindings>>
    BY <1>6 DEF Edit
  <2>2. /\ \A q \in Profiles \ {p} : config'[q] = config[q]
        /\ edited' = IF p \in Bound THEN edited \cup {p} ELSE edited
    BY <1>6, EditIs DEF Edit
  <2>3. Bound \subseteq Profiles
    BY DEF Types, TypeOK
  <2> QED
    BY <2>1, <2>2, <2>3 DEF Repairing, At, Bound
<1>7. CASE OtherCommit
  <2>1. UNCHANGED <<repair, up, attach, worker, bindings, config, edited>>
    BY <1>7 DEF OtherCommit, ghosts
  <2> QED
    BY <2>1 DEF Repairing, At, Bound
<1>8. CASE RepairEnds \/ Dies
  <2>1. CASE Dies
    BY <1>2, <2>1 DEF Dies
  <2> QED
    BY <1>2, <1>8, <2>1 DEF RepairEnds
<1>9. CASE RepairConfig
  <2>1. UNCHANGED <<up, attach, worker, bindings, edited>>
    BY <1>9 DEF RepairConfig, ghosts
  <2>2. repair.on /\ repair'.on
        /\ repair' \in [todo : {repair'.todo}, rev : Nat, next : {repair'.next},
                        changed : SUBSET Profiles, on : BOOLEAN]
    BY <1>9, RepairConfigIs
  <2>3. CASE config' = config /\ repair'.next = repair.next /\ repair'.changed = repair.changed
    BY <2>1, <2>2, <2>3 DEF Repairing, At, Bound
  <2>4. CASE ~(config' = config /\ repair'.next = repair.next /\ repair'.changed = repair.changed)
    <3>1. PICK p \in Bound :
            /\ p \in Profiles /\ Repairable(p)
            /\ config'[p].root = root /\ config'[p].url = config[p].url
            /\ config'[p].note = config[p].note
            /\ \A q \in Profiles \ {p} : config'[q] = config[q]
            /\ config' \in [Profiles -> Contents]
            /\ repair'.changed = repair.changed \cup {p}
            /\ DOMAIN repair'.next = DOMAIN repair.next
            /\ repair'.next[p] = BindingOf(config'[p])
            /\ \A q \in DOMAIN repair.next \ {p} : repair'.next[q] = repair.next[q]
      BY <1>9, <2>4, RepairConfigIs
    <3>2. config[p].url = bindings[p].url /\ config[p] = bindings[p].applied
      BY <3>1 DEF Repairable, Owns
    <3>3. bindings[p].applied \in Hosted
      BY <3>1 DEF Types, IsTable, Bound
    <3>4. config'[p] \in Hosted
      BY <3>1, <3>2, <3>3 DEF Hosted
    <3>5. /\ repair'.next[p].applied = config'[p] /\ repair'.next[p].url = bindings[p].url
          /\ repair'.next[p] = BindingOf(repair'.next[p].applied)
      BY <3>1, <3>2, BindingIs
    <3>6. /\ IsTable(repair.next) /\ DOMAIN repair.next = Bound
          /\ \A q \in Bound : repair.next[q].url = bindings[q].url
          /\ \A q \in Bound \ repair.changed : repair.next[q] = bindings[q]
          /\ \A q \in Bound \cap repair.changed : q \in edited \/ config[q] = repair.next[q].applied
          /\ ~up /\ attach = NoAttach /\ \A w \in Workers : At(w, "free")
      BY <2>2 DEF Repairing
    <3>7. IsTable(repair'.next)
      BY <3>1, <3>4, <3>5, <3>6 DEF IsTable
    <3>8. Bound \subseteq Profiles /\ Bound' = Bound
      BY <2>1 DEF Types, TypeOK, Bound
    <3>9. \A w \in Workers : At(w, "free")'
      BY <2>1, <3>6 DEF At
    <3> QED
      BY <2>1, <2>2, <3>1, <3>5, <3>6, <3>7, <3>8, <3>9 DEF Repairing
  <2> QED
    BY <2>3, <2>4
<1>10. CASE Start
  <2>1. UNCHANGED <<config, bindings, up, attach, worker, edited>> /\ ~up
    BY <1>10 DEF Start, ghosts
  <2>2. repair' = [todo |-> Bound, rev |-> rev, next |-> bindings, changed |-> {}, on |-> TRUE]
    BY <1>10 DEF Start
  <2>3. /\ repair'.next = bindings /\ repair'.changed = {} /\ repair'.on
        /\ repair' \in [todo : {repair'.todo}, rev : Nat, next : {repair'.next},
                        changed : SUBSET Profiles, on : BOOLEAN]
    BY <2>2 DEF Types, TypeOK
  <2>4. IsTable(bindings) /\ DOMAIN bindings = Bound
    BY DEF Types, Bound
  <2> QED
    BY <2>1, <2>3, <2>4 DEF Repairing, At, Bound
<1> QED
  BY <1>3, <1>4, <1>5, <1>6, <1>7, <1>8, <1>9, <1>10, NextIs DEF Others

-----------------------------------------------------------------------------
(* The configs that were checked *)

LEMMA DueUnique ==
  ASSUME Types, Migrations, NEW w \in Workers, NEW s \in Due(w), NEW t \in Due(w)
  PROVE  s = t
<1>1. s \in worker[w].todo /\ t \in worker[w].todo /\ s.p \in Nat /\ t.p \in Nat
  BY DueIs, PortsAssumption
<1>2. s.p <= t.p /\ t.p <= s.p
  BY <1>1 DEF Due
<1>3. s.p = t.p
  BY <1>1, <1>2
<1> QED
  BY <1>1, <1>3 DEF Migrations, Stepping

\* The write of one config, by a migration or by somebody else.
Touches(p, me) == (\A q \in Profiles \ {p} : config'[q] = config[q]) /\ Overtake(p, me)

LEMMA CheckedOne ==
  ASSUME Types, Migrations, Checked, NEW x \in Workers, worker'[x] = worker[x], ~spoiled',
         \/ config' = config /\ spoiled' = spoiled
         \/ \E me : x \notin me /\ \E p \in Profiles : Touches(p, me)
  PROVE  worker'[x].seen => \A s \in Due(x)' : config'[s.p] = s.from
<1> SUFFICES ASSUME worker[x].seen, NEW s \in Due(x)
             PROVE  config'[s.p] = s.from
  BY DEF Due, At
<1>1. ~spoiled
  BY DEF Touches, Overtake
<1>2. config[s.p] = s.from /\ s.p \in Profiles
  BY <1>1, DueIs DEF Checked
<1>3. CASE config' = config
  BY <1>2, <1>3
<1>4. ASSUME NEW p \in Profiles, NEW me, x \notin me, Touches(p, me)
      PROVE  config'[s.p] = s.from
  <2>1. s.p # p
    BY <1>4 DEF Touches, Overtake
  <2> QED
    BY <1>2, <1>4, <2>1 DEF Touches
<1> QED
  BY <1>3, <1>4

LEMMA MigratesSeen ==
  ASSUME Types, Migrations, NEW w \in Workers, Migrates(w), worker'[w].seen
  PROVE  CheckConfig(w) /\ ~GiveUp(w)
<1> SUFFICES ASSUME ~(CheckConfig(w) /\ ~GiveUp(w)) PROVE FALSE
  OBVIOUS
<1>1. ~RollBack(w)
  BY RollBackIs
<1>2. worker'[w] # Free
  BY FreeIs
<1>3. ~GiveUp(w)
  BY <1>1, <1>2, GiveUpIs
<1>4. ~CheckConfig(w) /\ ~RenameFails(w) /\ ~RenameUnsure(w)
  BY <1>1, <1>3 DEF RenameFails, RenameUnsure
<1>5. ~RenameConfig(w)
  BY RenameIs
<1>6. ~\E new \in Ports : PlanPort(w, new)
  BY PlanPortIs
<1>7. ~Prepare(w)
  BY <1>2, PrepareIs
<1>8. ~UndoBindings(w) /\ ~RolledBack(w)
  BY <1>1, <1>2, ToIs DEF UndoBindings, RolledBack
<1>9. worker[w].seen => worker[w].todo # NoSteps /\ worker[w].pc \in {"forth", "back"}
  BY DEF Migrations, Stepping
<1>10. ~CommitBindings(w)
  <2> SUFFICES ASSUME CommitBindings(w) PROVE FALSE
    OBVIOUS
  <2>1. rev + 1 \in Nat /\ "state" \in Pcs
    BY DEF Types, TypeOK, Pcs
  <2>2. To(w, [worker[w] EXCEPT !.pc = "state", !.rev = rev + 1]) /\ worker[w].todo = NoSteps
    BY <1>1 DEF CommitBindings
  <2>3. worker'[w].seen = worker[w].seen
    BY <2>1, <2>2, TurnIs
  <2> QED
    BY <1>9, <2>2, <2>3
<1>11. ~CommitPort(w)
  <2> SUFFICES ASSUME CommitPort(w) PROVE FALSE
    OBVIOUS
  <2>1. worker'[w].seen = worker[w].seen
    BY <1>2, CommitPortIs
  <2>2. worker[w].pc = "state"
    BY DEF CommitPort, At
  <2> QED
    BY <1>9, <2>1, <2>2
<1> QED
  BY <1>4, <1>5, <1>6, <1>7, <1>8, <1>10, <1>11 DEF Migrates

LEMMA MigratesTouches ==
  ASSUME Types, Migrations, NEW w \in Workers, Migrates(w)
  PROVE  \/ config' = config /\ spoiled' = spoiled
         \/ /\ RenameConfig(w) \/ RenameUnsure(w)
            /\ worker[w].seen
            /\ \E s \in Due(w) : Renamed(w, s) /\ Touches(s.p, {w}) /\ s.p \in Profiles
<1>1. \/ config' = config /\ spoiled' = spoiled
      \/ /\ RenameConfig(w) \/ RenameUnsure(w)
         /\ worker[w].seen /\ \E s \in Due(w) : Renamed(w, s)
  BY DEF Migrates, PlanPort, Prepare, CheckConfig, RenameConfig, RenameFails, RenameUnsure,
         CommitBindings, CommitPort, UndoBindings, RolledBack, disk, ghosts
<1>2. ASSUME NEW s \in Due(w), Renamed(w, s)
      PROVE  Touches(s.p, {w}) /\ s.p \in Profiles
  BY <1>2, RenamedIs, DueIs DEF Touches, Renamed
<1> QED
  BY <1>1, <1>2

LEMMA OthersTouch ==
  ASSUME Types, Attaching, Others, ~RepairConfig, ~Dies
  PROVE  /\ worker' = worker
         /\ \/ config' = config /\ spoiled' = spoiled
            \/ \E p \in Profiles : Touches(p, {})
<1>1. CASE \E p \in Profiles : PlanAttach(p)
  BY <1>1 DEF PlanAttach, disk, ghosts
<1>2. ASSUME NEW p \in Profiles, Detach(p) PROVE worker' = worker /\ Touches(p, {})
  BY <1>2, DetachIs DEF Touches, Detach
<1>3. ASSUME NEW p \in Profiles, Edit(p) PROVE worker' = worker /\ Touches(p, {})
  BY <1>3, EditIs DEF Touches, Edit
<1>4. CASE ExecuteAttach
  <2>1. worker' = worker
    BY <1>4 DEF ExecuteAttach
  <2>2. CASE Attached
    <3>1. attach.p \in Profiles /\ Touches(attach.p, {})
      BY <2>2, AttachedIs DEF Touches, Attached
    <3> QED
      BY <2>1, <3>1
  <2> QED
    BY <1>4, <2>1, <2>2, ExecuteIs DEF ghosts
<1>5. CASE Start \/ RepairEnds \/ OtherCommit
  BY <1>5 DEF Start, RepairEnds, OtherCommit, ghosts
<1> QED
  BY <1>1, <1>2, <1>3, <1>4, <1>5 DEF Others

LEMMA CheckedStays ==
  ASSUME Types, Migrations, Attaching, Repairing, Checked, Next
  PROVE  Checked'
<1> SUFFICES ASSUME ~spoiled', NEW x \in Workers, worker'[x].seen, NEW t \in Due(x)'
             PROVE  config'[t.p] = t.from
  BY DEF Checked
<1>1. ASSUME NEW w \in Workers, Migrates(w) PROVE config'[t.p] = t.from
  <2>1. CASE x # w
    <3>1. worker'[x] = worker[x]
      BY <1>1, <2>1, MigratesWorker
    <3>2. \/ config' = config /\ spoiled' = spoiled
          \/ \E me : x \notin me /\ \E p \in Profiles : Touches(p, me)
      BY <1>1, <2>1, MigratesTouches
    <3> QED
      BY <3>1, <3>2, CheckedOne
  <2>2. CASE x = w
    <3>1. CheckConfig(w) /\ ~GiveUp(w)
      BY <1>1, <2>2, MigratesSeen
    <3>2. PICK s \in Due(w) : config[s.p] = s.from
      BY <3>1, CheckIs
    <3>3. Due(w)' = Due(w)
      <4>1. worker'[w].pc = worker[w].pc /\ worker'[w].todo = worker[w].todo
        BY <3>1, CheckIs
      <4> QED
        BY <4>1 DEF Due, At
    <3>4. t = s
      BY <2>2, <3>3, DueUnique
    <3>5. config' = config
      BY <3>1 DEF CheckConfig, disk
    <3> QED
      BY <3>2, <3>4, <3>5
  <2> QED
    BY <2>1, <2>2
<1>2. ~Dies
  BY FreeIs DEF Dies
<1>3. ~RepairConfig
  <2> SUFFICES ASSUME RepairConfig PROVE FALSE
    OBVIOUS
  <2>1. repair.on /\ worker' = worker
    BY RepairConfigIs DEF RepairConfig
  <2>2. worker[x].pc = "free"
    BY <2>1 DEF Repairing, At
  <2> QED
    BY <2>1, <2>2 DEF Migrations, Stepping
<1>4. CASE Others
  <2>1. /\ worker' = worker
        /\ \/ config' = config /\ spoiled' = spoiled
           \/ \E p \in Profiles : Touches(p, {})
    BY <1>2, <1>3, <1>4, OthersTouch
  <2>2. \/ config' = config /\ spoiled' = spoiled
        \/ \E me : x \notin me /\ \E p \in Profiles : Touches(p, me)
    <3>1. x \notin {}
      OBVIOUS
    <3> QED
      BY <2>1, <3>1
  <2> QED
    BY <2>1, <2>2, CheckedOne
<1> QED
  BY <1>1, <1>4, NextIs

\* What a step does to what the user wrote.
LEMMA EditsStay ==
  ASSUME Types, Migrations, Attaching, Repairing, Checked, Next
  PROVE  \A p \in Profiles : config'[p].note >= config[p].note \/ spoiled'
<1> SUFFICES ASSUME ~spoiled', NEW p \in Profiles
             PROVE  config'[p].note >= config[p].note
  OBVIOUS
<1>1. config[p].note \in Nat /\ config[p].note <= used.others /\ used.others \in Nat
  BY Bounds DEF Types, TypeOK, Contents
<1>2. CASE config'[p].note = config[p].note
  BY <1>1, <1>2
<1>3. ASSUME NEW w \in Workers, Migrates(w) PROVE config'[p].note = config[p].note
  <2>1. CASE config' = config
    BY <2>1
  <2>2. CASE config' # config
    <3>1. PICK s \in Due(w) : Renamed(w, s) /\ Touches(s.p, {w}) /\ worker[w].seen
      BY <1>3, <2>2, MigratesTouches
    <3>2. ~spoiled
      BY <3>1 DEF Touches, Overtake
    <3>3. config[s.p] = s.from /\ config'[s.p] = s.to
      BY <3>1, <3>2, RenamedIs DEF Checked
    <3>4. s.from.note = s.to.note
      BY DueIs DEF Migrations, Stepping
    <3> QED
      BY <3>1, <3>3, <3>4, DueIs DEF Touches
  <2> QED
    BY <2>1, <2>2
<1>4. ASSUME NEW q \in Profiles, Detach(q) PROVE config'[p].note = config[p].note
  BY <1>4, DetachIs
<1>5. ASSUME NEW q \in Profiles, Edit(q) PROVE config'[p].note >= config[p].note
  <2>1. CASE p = q
    BY <1>1, <1>5, <2>1, EditIs
  <2>2. CASE p # q
    BY <1>1, <1>5, <2>2, EditIs
  <2> QED
    BY <2>1, <2>2
<1>6. CASE ExecuteAttach
  <2>1. config'[p].note = config[p].note
    <3>1. CASE Attached
      BY <3>1, AttachedIs
    <3> QED
      BY <1>6, <3>1, ExecuteIs
  <2> QED
    BY <1>2, <2>1
<1>7. CASE RepairConfig
  <2>1. config'[p].note = config[p].note
    BY <1>7, RepairConfigIs
  <2> QED
    BY <1>2, <2>1
<1>8. ASSUME (\E q \in Profiles : PlanAttach(q)) \/ Start \/ RepairEnds \/ OtherCommit \/ Dies
      PROVE  config'[p].note = config[p].note
  BY <1>8 DEF PlanAttach, Start, RepairEnds, OtherCommit, Dies, disk
<1> QED
  BY <1>2, <1>3, <1>4, <1>5, <1>6, <1>7, <1>8, NextIs DEF Others

-----------------------------------------------------------------------------
(* The stable port and the bindings *)

\* A migration that does not enter or leave its commits, and one that does not
\* begin to move either.
Aside(w) ==
  \/ worker'[w] = worker[w]
  \/ Keeps(w) /\ worker'[w].pc = worker[w].pc
  \/ worker[w].pc \notin {"state", "unbind"} /\ worker'[w].pc \notin {"state", "unbind"}
Stays(w) ==
  worker'[w].pc = "forth" => worker'[w] = worker[w] \/ (Keeps(w) /\ worker'[w].pc = worker[w].pc)

\* What leaves the urls of the bindings and the stable port as they are.
LEMMA PortsFrame ==
  ASSUME Types, Types', Migrations, PortsAgree, port' = port, Sound' \subseteq Sound,
         rev' = rev \/ rev < rev',
         \A p \in Sound' : bindings'[p].url = bindings[p].url,
         \A w \in Workers : Aside(w)
  PROVE  /\ Between' = Between /\ BetweenAgree' /\ StoredAgree'
         /\ \A w \in Workers : Stays(w) => MoveAgrees(w)'
         /\ Attaching /\ attach' \in {attach, NoAttach} => AttachAgrees'
<1>1. rev \in Nat /\ rev' \in Nat
  BY DEF Types, TypeOK
<1>2. Between' = Between
  BY DEF Between, Aside, At, Keeps
<1>3. \A w \in Between : worker'[w].plan = worker[w].plan /\ worker'[w].next = worker[w].next
  BY DEF Between, Aside, At, Keeps
<1>4. BetweenAgree'
  <2> SUFFICES ASSUME NEW w \in Between, Sound' # {}
               PROVE  /\ port' = worker'[w].plan.old /\ Between' = {w}
                      /\ \A p \in Sound' : p \in DOMAIN worker'[w].next
                                           /\ bindings'[p].url = worker'[w].plan.new
    BY <1>2 DEF BetweenAgree
  <2>1. Sound # {}
    OBVIOUS
  <2> QED
    BY <1>2, <1>3, <2>1 DEF PortsAgree, BetweenAgree
<1>5. StoredAgree'
  <2> SUFFICES ASSUME Between = {}, NEW p \in Sound'
               PROVE  \/ bindings'[p].url = port'
                      \/ \E w \in Workers : worker'[w].pc = "unbind" /\ p \in DOMAIN worker'[w].next
    BY <1>2 DEF StoredAgree, At
  <2>1. CASE bindings[p].url = port
    BY <2>1
  <2>2. ASSUME NEW w \in Workers, At(w, "unbind"), p \in DOMAIN worker[w].next
        PROVE  worker'[w].pc = "unbind" /\ p \in DOMAIN worker'[w].next
    BY <2>2 DEF Aside, At, Keeps
  <2> QED
    BY <2>1, <2>2 DEF PortsAgree, StoredAgree
<1>6. ASSUME NEW w \in Workers, Stays(w) PROVE MoveAgrees(w)'
  <2> SUFFICES ASSUME worker'[w].pc \in {"forth", "unbind"}, worker'[w].rev = rev', Sound' # {}
               PROVE  port' = worker'[w].plan.old /\ Between' = {}
    BY DEF MoveAgrees
  <2>1. /\ worker[w].pc = worker'[w].pc /\ worker[w].plan = worker'[w].plan
        /\ worker[w].rev = worker'[w].rev
    BY <1>6 DEF Aside, Stays, Keeps
  <2>2. worker[w].rev <= rev /\ worker[w].rev \in Nat
    BY <2>1 DEF Migrations, Moving, Types, WorkerType
  <2>3. rev' = rev
    BY <1>1, <2>1, <2>2
  <2> QED
    BY <1>2, <2>1, <2>3 DEF PortsAgree, MovesAgree, MoveAgrees
<1>7. ASSUME Attaching, attach' \in {attach, NoAttach} PROVE AttachAgrees'
  <2> SUFFICES ASSUME attach' = attach, attach # NoAttach, ~attach.crossed, attach.rev = rev'
               PROVE  attach.url = port /\ Between = {}
    BY <1>2, <1>7 DEF AttachAgrees
  <2>1. attach.rev <= rev /\ attach.rev \in Nat
    BY <1>7 DEF Attaching
  <2>2. rev' = rev
    BY <1>1, <2>1
  <2> QED
    BY <2>2 DEF PortsAgree, AttachAgrees
<1> QED
  BY <1>2, <1>4, <1>5, <1>6, <1>7

\* When nothing is left that nothing is known against.
LEMMA NothingSound ==
  ASSUME Types, Types', Migrations, Attaching, PortsAgree, Sound' = {}, attach' = attach,
         rev' = rev \/ rev < rev',
         rev' = rev => (port' = port \/ Between # {}) /\ Between' \subseteq Between
  PROVE  PortsAgree'
<1>1. rev \in Nat /\ rev' \in Nat
  BY DEF Types, TypeOK
<1>2. AttachAgrees'
  <2> SUFFICES ASSUME attach # NoAttach, ~attach.crossed, attach.rev = rev'
               PROVE  attach.url = port' /\ Between' = {}
    BY DEF AttachAgrees
  <2>1. attach.rev <= rev /\ attach.rev \in Nat
    BY DEF Attaching
  <2>2. rev' = rev
    BY <1>1, <2>1
  <2> QED
    BY <2>2 DEF PortsAgree, AttachAgrees
<1> QED
  BY <1>2 DEF PortsAgree, BetweenAgree, StoredAgree, MovesAgree, MoveAgrees

LEMMA RevsMove ==
  ASSUME Types, Migrations, NEW x \in Workers, worker[x].pc \in {"forth", "unbind"}
  PROVE  worker[x].rev # rev + 1
<1>1. worker[x].rev <= rev /\ worker[x].rev \in Nat /\ rev \in Nat
  BY DEF Migrations, Moving, Types, TypeOK, WorkerType
<1> QED
  BY <1>1

\* Another migration that is unchanged, and has not seen this commit.
LEMMA MovesPast ==
  ASSUME Types, Migrations, NEW x \in Workers, worker'[x] = worker[x], rev' = rev + 1
  PROVE  MoveAgrees(x)'
BY RevsMove DEF MoveAgrees

LEMMA AttachPast ==
  ASSUME Types, Attaching, attach' = attach, rev' = rev + 1
  PROVE  AttachAgrees'
<1>1. attach # NoAttach => attach.rev <= rev /\ attach.rev \in Nat /\ rev \in Nat
  BY DEF Attaching, Types, TypeOK
<1> QED
  BY <1>1 DEF AttachAgrees

LEMMA CommitPorts ==
  ASSUME Types, Types', Migrations, Attaching, PortsAgree, NEW w \in Workers, CommitBindings(w)
  PROVE  PortsAgree'
<1>1. Migrates(w)
  BY DEF Migrates
<1>2. /\ attach' = attach /\ crossed' = crossed /\ adrift \subseteq adrift'
      /\ \A x \in Workers \ {w} : worker'[x] = worker[x]
      /\ rev \in Nat
  BY <1>1, MigratesIs, MigratesWorker DEF Types, TypeOK
<1>3. worker[w].pc = "forth" /\ UNCHANGED <<port, portRev>>
  BY DEF CommitBindings, At
<1>4. CASE RollBack(w) /\ UNCHANGED <<bindings, rev, adrift>>
  <2>1. worker'[w].pc = "back"
    BY <1>4, RollBackIs
  <2>2. \A x \in Workers : Aside(x) /\ Stays(x)
    BY <1>2, <1>3, <2>1 DEF Aside, Stays
  <2>3. Sound' = Sound
    BY <1>2, <1>4 DEF Sound, Bound
  <2> QED
    BY <1>2, <1>3, <1>4, <2>2, <2>3, PortsFrame DEF PortsAgree, MovesAgree
<1>5. CASE Fits(worker[w].rev) /\ Put(worker[w].next)
  <2>1. rev' = rev + 1 /\ bindings' = worker[w].next /\ worker[w].rev = rev /\ rev < rev'
    BY <1>5, PutIs DEF Fits
  <2>2. /\ Bound = DOMAIN worker[w].next /\ Bound' = Bound
        /\ \A p \in Bound : worker[w].next[p].url = worker[w].plan.new
    BY <1>3, <2>1 DEF Migrations, Moving, At, Bound
  <2>3. Sound' \subseteq Sound
    BY <1>2, <2>2 DEF Sound
  <2>4. CASE RollBack(w) /\ adrift' = adrift \cup DOMAIN worker[w].next
    <3>1. Sound' = {}
      BY <2>2, <2>4 DEF Sound
    <3> QED
      BY <1>2, <2>1, <3>1, NothingSound
  <2>5. CASE /\ adrift' = adrift
             /\ To(w, [worker[w] EXCEPT !.pc = "state", !.rev = rev + 1])
    <3>1. Sound' = Sound
      BY <1>2, <2>2, <2>5 DEF Sound
    <3>2. CASE Sound = {}
      BY <1>2, <2>1, <3>1, <3>2, NothingSound
    <3>3. CASE Sound # {}
      <4>1. port = worker[w].plan.old /\ Between = {}
        BY <1>3, <2>1, <3>3 DEF PortsAgree, MovesAgree, MoveAgrees
      <4>2. rev + 1 \in Nat /\ "state" \in Pcs
        BY <1>2 DEF Pcs
      <4>3. /\ worker'[w].pc = "state" /\ worker'[w].plan = worker[w].plan
            /\ worker'[w].next = worker[w].next
        BY <2>5, <4>2, TurnIs
      <4>4. Between' = {w}
        BY <1>2, <4>1, <4>3 DEF Between, At
      <4>5. BetweenAgree' /\ StoredAgree'
        BY <1>3, <2>1, <2>2, <3>1, <4>1, <4>3, <4>4 DEF BetweenAgree, StoredAgree, Sound
      <4>6. MovesAgree'
        BY <1>2, <2>1, <4>3, MovesPast DEF MovesAgree, MoveAgrees
      <4>7. AttachAgrees'
        BY <1>2, <2>1, AttachPast
      <4> QED
        BY <4>5, <4>6, <4>7 DEF PortsAgree
    <3> QED
      BY <3>2, <3>3
  <2> QED
    BY <1>4, <2>4, <2>5 DEF CommitBindings
<1> QED
  BY <1>4, <1>5 DEF CommitBindings

LEMMA CommitPortPorts ==
  ASSUME Types, Types', Migrations, Attaching, PortsAgree, NEW w \in Workers, CommitPort(w)
  PROVE  PortsAgree'
<1>1. Migrates(w)
  BY DEF Migrates
<1>2. /\ attach' = attach /\ crossed' = crossed /\ adrift \subseteq adrift'
      /\ \A x \in Workers \ {w} : worker'[x] = worker[x]
  BY <1>1, MigratesIs, MigratesWorker
<1>3. worker[w].pc = "state" /\ UNCHANGED <<bindings, rev>>
  BY DEF CommitPort, At
<1>4. w \in Between
  BY <1>3 DEF Between, At
<1>5. Sound' \subseteq Sound /\ Bound' = Bound
  BY <1>2, <1>3 DEF Sound, Bound
<1>6. worker'[w] = Free \/ (worker'[w].pc = "unbind" /\ Keeps(w))
  BY CommitPortIs
<1>7. worker'[w].pc \in {"free", "unbind"}
  BY <1>6, FreeIs
<1>8. Between' = Between \ {w}
  BY <1>2, <1>7 DEF Between, At
<1>9. CASE Sound' = {}
  BY <1>2, <1>3, <1>4, <1>8, <1>9, NothingSound
<1>10. CASE Sound' # {}
  <2>1. Sound # {}
    BY <1>5, <1>10
  <2>2. /\ port = worker[w].plan.old /\ Between = {w}
        /\ \A p \in Sound : p \in DOMAIN worker[w].next /\ bindings[p].url = worker[w].plan.new
    BY <1>4, <2>1 DEF PortsAgree, BetweenAgree
  <2>3. Between' = {}
    BY <1>8, <2>2
  <2>4. BetweenAgree'
    BY <2>3 DEF BetweenAgree
  <2>5. AttachAgrees'
    BY <1>2, <1>3, <1>4 DEF PortsAgree, AttachAgrees
  <2>6. ASSUME NEW x \in Workers \ {w} PROVE MoveAgrees(x)'
    BY <1>2, <1>3, <1>4, <2>1, <2>6 DEF PortsAgree, MovesAgree, MoveAgrees
  <2>7. CASE worker'[w] = Free /\ port' = worker[w].plan.new
    <3>1. StoredAgree'
      BY <1>3, <1>5, <2>2, <2>7 DEF StoredAgree
    <3>2. MoveAgrees(w)'
      BY <2>7, FreeIs DEF MoveAgrees
    <3> QED
      BY <2>4, <2>5, <2>6, <3>1, <3>2 DEF PortsAgree, MovesAgree
  <2>8. CASE To(w, [worker[w] EXCEPT !.pc = "unbind"]) /\ port' = port
    <3>1. worker'[w].pc = "unbind" /\ Keeps(w)
      <4>1. PICK k : k = worker[w]
        OBVIOUS
      <4>2. WorkerType(k) /\ worker'[w] = [k EXCEPT !.pc = "unbind"]
        BY <2>8, <4>1, ToIs DEF Types
      <4> QED
        BY <4>1, <4>2 DEF WorkerType, Keeps
    <3>2. StoredAgree'
      BY <1>3, <1>5, <2>2, <3>1 DEF StoredAgree, At, Keeps
    <3>3. MoveAgrees(w)'
      BY <2>2, <2>3, <2>8, <3>1 DEF MoveAgrees, Keeps
    <3> QED
      BY <2>4, <2>5, <2>6, <3>2, <3>3 DEF PortsAgree, MovesAgree
  <2>9. CASE adrift' = adrift \cup DOMAIN worker[w].next
    BY <1>5, <1>10, <2>2, <2>9 DEF Sound
  <2> QED
    BY <2>7, <2>8, <2>9, ToIs DEF CommitPort
<1> QED
  BY <1>9, <1>10

LEMMA UndoPorts ==
  ASSUME Types, Types', Migrations, Attaching, PortsAgree, NEW w \in Workers, UndoBindings(w)
  PROVE  PortsAgree'
<1>1. Migrates(w)
  BY DEF Migrates
<1>2. /\ attach' = attach /\ crossed' = crossed /\ adrift \subseteq adrift'
      /\ \A x \in Workers \ {w} : worker'[x] = worker[x]
      /\ rev \in Nat
  BY <1>1, MigratesIs, MigratesWorker DEF Types, TypeOK
<1>3. worker[w].pc = "unbind" /\ UNCHANGED <<port, portRev>>
  BY DEF UndoBindings, At
<1>4. RollBack(w) \/ worker'[w] = Free
  BY ToIs DEF UndoBindings
<1>5. worker'[w].pc \in {"back", "free"}
  BY <1>4, RollBackIs, FreeIs
<1>6. Between' = Between
  BY <1>2, <1>3, <1>5 DEF Between, At
<1>7. CASE Fits(worker[w].rev) /\ Put(worker[w].old)
  <2>1. rev' = rev + 1 /\ bindings' = worker[w].old /\ worker[w].rev = rev /\ rev < rev'
    BY <1>7, PutIs DEF Fits
  <2>2. /\ Bound = DOMAIN worker[w].next /\ Bound' = Bound
        /\ \A p \in Bound : worker[w].old[p].url = worker[w].plan.old
    BY <1>3, <2>1 DEF Migrations, Moving, At, Bound
  <2>3. Sound' \subseteq Sound
    BY <1>2, <2>2 DEF Sound
  <2>4. CASE Sound' = {}
    BY <1>2, <2>1, <2>4, NothingSound
  <2>5. CASE Sound' # {}
    <3>1. port = worker[w].plan.old /\ Between = {}
      BY <1>3, <2>1, <2>3, <2>5 DEF PortsAgree, MovesAgree, MoveAgrees
    <3>2. BetweenAgree' /\ StoredAgree'
      BY <1>3, <1>6, <2>1, <2>2, <3>1 DEF BetweenAgree, StoredAgree, Sound
    <3>3. MovesAgree'
      BY <1>2, <1>5, <2>1, MovesPast DEF MovesAgree, MoveAgrees
    <3>4. AttachAgrees'
      BY <1>2, <2>1, AttachPast
    <3> QED
      BY <3>2, <3>3, <3>4 DEF PortsAgree
  <2> QED
    BY <2>4, <2>5
<1>8. CASE /\ worker'[w] = Free /\ adrift' = adrift \cup DOMAIN worker[w].next
           /\ UNCHANGED <<bindings, rev>>
  <2>1. Sound' \subseteq Sound \ DOMAIN worker[w].next
    BY <1>2, <1>8 DEF Sound, Bound
  <2>2. \A x \in Between : x # w
    BY <1>3 DEF Between, At
  <2>3. BetweenAgree'
    <3> SUFFICES ASSUME NEW x \in Between, Sound' # {}
                 PROVE  /\ port = worker'[x].plan.old /\ Between = {x}
                        /\ \A p \in Sound' : p \in DOMAIN worker'[x].next
                                             /\ bindings[p].url = worker'[x].plan.new
      BY <1>3, <1>6, <1>8 DEF BetweenAgree
    <3>1. worker'[x] = worker[x] /\ Sound # {}
      BY <1>2, <2>1, <2>2 DEF Between
    <3> QED
      BY <2>1, <3>1 DEF PortsAgree, BetweenAgree
  <2>4. StoredAgree'
    <3> SUFFICES ASSUME Between = {}, NEW p \in Sound', bindings[p].url # port
                 PROVE  \E x \in Workers : worker'[x].pc = "unbind" /\ p \in DOMAIN worker'[x].next
      BY <1>3, <1>6, <1>8 DEF StoredAgree, At
    <3>1. PICK x \in Workers : At(x, "unbind") /\ p \in DOMAIN worker[x].next
      BY <2>1 DEF PortsAgree, StoredAgree
    <3>2. x # w
      BY <2>1, <3>1
    <3> QED
      BY <1>2, <3>1, <3>2 DEF At
  <2>5. ASSUME NEW x \in Workers \ {w} PROVE MoveAgrees(x)'
    BY <1>2, <1>3, <1>6, <1>8, <2>1, <2>5 DEF PortsAgree, MovesAgree, MoveAgrees
  <2>6. MoveAgrees(w)'
    BY <1>8, FreeIs DEF MoveAgrees
  <2>7. AttachAgrees'
    BY <1>2, <1>3, <1>6, <1>8 DEF PortsAgree, AttachAgrees
  <2> QED
    BY <2>3, <2>4, <2>5, <2>6, <2>7 DEF PortsAgree, MovesAgree
<1> QED
  BY <1>7, <1>8, ToIs DEF UndoBindings

LEMMA PreparePorts ==
  ASSUME Types, Types', Migrations, Attaching, PortsAgree, NEW w \in Workers, Prepare(w)
  PROVE  PortsAgree'
<1>1. Migrates(w)
  BY DEF Migrates
<1>2. /\ \A x \in Workers \ {w} : worker'[x] = worker[x]
      /\ UNCHANGED <<attach, crossed, adrift, bindings, rev, port, portRev>>
  BY <1>1, MigratesWorker DEF Prepare, disk, ghosts
<1>3. Sound' = Sound /\ worker[w].pc = "planned"
  BY <1>2 DEF Sound, Bound, Prepare, At
<1>4. worker'[w].pc \in {"free", "forth"}
  BY PrepareIs, FreeIs
<1>5. \A x \in Workers : Aside(x)
  BY <1>2, <1>3, <1>4 DEF Aside
<1>6. \A x \in Workers \ {w} : Stays(x)
  BY <1>2 DEF Stays
<1>7. MoveAgrees(w)'
  <2> SUFFICES ASSUME worker'[w] # Free, Sound # {}
               PROVE  port = worker'[w].plan.old /\ Between' = {}
    BY <1>2, <1>3, FreeIs DEF MoveAgrees
  <2>1. worker'[w].plan = worker[w].plan /\ StillPlanned(w)
    BY PrepareIs
  <2>2. port = worker[w].plan.old
    BY <1>3, <2>1 DEF StillPlanned, Migrations, Planned, At
  <2>3. \A p \in Sound : bindings[p].url = port
    BY <2>1, <2>2 DEF StillPlanned, Sound
  <2>4. ASSUME NEW x \in Between PROVE FALSE
    <3>1. port = worker[x].plan.old /\ \A p \in Sound : bindings[p].url = worker[x].plan.new
      BY <2>4 DEF PortsAgree, BetweenAgree
    <3>2. worker[x].plan.new # worker[x].plan.old
      BY <2>4 DEF Between, Migrations, Planned, At
    <3> QED
      BY <2>3, <3>1, <3>2
  <2>5. Between' = Between
    BY <1>2, <1>3, <1>4 DEF Between, At
  <2> QED
    BY <2>1, <2>2, <2>4, <2>5
<1> QED
  BY <1>2, <1>3, <1>5, <1>6, <1>7, PortsFrame DEF PortsAgree, MovesAgree

LEMMA MigratesPorts ==
  ASSUME Types, Types', Migrations, Attaching, PortsAgree, NEW w \in Workers, Migrates(w)
  PROVE  PortsAgree'
<1>1. /\ UNCHANGED <<attach, crossed>> /\ adrift \subseteq adrift'
      /\ \A x \in Workers \ {w} : worker'[x] = worker[x]
  BY MigratesIs, MigratesWorker
<1>2. ASSUME UNCHANGED <<bindings, rev, port, portRev>>, worker[w].pc \notin {"state", "unbind"},
             worker'[w].pc \notin {"forth", "state", "unbind"} \/ (Keeps(w) /\ worker'[w].pc = worker[w].pc)
      PROVE  PortsAgree'
  <2>1. Sound' \subseteq Sound
    BY <1>1, <1>2 DEF Sound, Bound
  <2>2. \A x \in Workers : Aside(x) /\ Stays(x)
    BY <1>1, <1>2 DEF Aside, Stays
  <2> QED
    BY <1>1, <1>2, <2>1, <2>2, PortsFrame DEF PortsAgree, MovesAgree
<1>3. CASE \E new \in Ports : PlanPort(w, new)
  <2>1. worker[w].pc = "free" /\ worker'[w].pc = "planned"
    BY <1>3, PlanPortIs DEF PlanPort, At
  <2> QED
    BY <1>2, <1>3, <2>1 DEF PlanPort, disk
<1>4. worker[w].todo # NoSteps \/ worker[w].seen => worker[w].pc \in {"forth", "back"}
  BY DEF Migrations, Stepping
<1>5. GiveUp(w) => worker'[w].pc \in {"free", "back"}
  BY GiveUpIs, RollBackIs, FreeIs
<1>6. CASE CheckConfig(w)
  <2>1. UNCHANGED <<bindings, rev, port, portRev>>
    BY <1>6 DEF CheckConfig, disk
  <2>2. PICK s : s \in Due(w)
    BY <1>6 DEF CheckConfig
  <2>3. worker[w].todo # NoSteps
    BY <2>2 DEF Due, NoSteps
  <2>4. GiveUp(w) \/ (Keeps(w) /\ worker'[w].pc = worker[w].pc)
    BY <1>6, CheckIs
  <2> QED
    BY <1>2, <1>4, <1>5, <2>1, <2>3, <2>4
<1>7. CASE RenameConfig(w)
  BY <1>2, <1>4, <1>7, RenameIs DEF RenameConfig
<1>8. CASE RenameFails(w)
  BY <1>2, <1>4, <1>5, <1>8 DEF RenameFails, disk
<1>9. CASE RenameUnsure(w)
  <2>1. RollBack(w) => worker'[w].pc = "back"
    BY RollBackIs
  <2> QED
    BY <1>2, <1>4, <1>5, <1>9, <2>1 DEF RenameUnsure
<1>10. CASE RolledBack(w)
  <2>1. worker[w].pc = "back" /\ worker'[w].pc = "free" /\ UNCHANGED <<bindings, rev, port, portRev>>
    BY <1>10, ToIs, FreeIs DEF RolledBack, At, disk
  <2> QED
    BY <1>2, <2>1
<1> QED
  BY <1>3, <1>6, <1>7, <1>8, <1>9, <1>10, PreparePorts, CommitPorts, CommitPortPorts, UndoPorts
     DEF Migrates

LEMMA AttachedPorts ==
  ASSUME Types, Types', Migrations, Attaching, PortsAgree, ExecuteAttach
  PROVE  PortsAgree'
<1>1. UNCHANGED <<port, portRev, worker>> /\ attach' = NoAttach
  BY DEF ExecuteAttach
<1>2. \A x \in Workers : Aside(x) /\ Stays(x)
  BY <1>1 DEF Aside, Stays
<1>3. CASE UNCHANGED <<config, bindings, rev, ghosts>>
  <2>1. Sound' = Sound /\ rev' = rev /\ bindings' = bindings
    BY <1>3 DEF Sound, Bound, ghosts
  <2> QED
    BY <1>1, <1>2, <2>1, PortsFrame DEF PortsAgree, MovesAgree
<1>4. CASE Attached
  <2> DEFINE p == attach.p
  <2>1. /\ p \in Profiles /\ Bound' = Bound \cup {p}
        /\ AttachedAs.url = attach.url /\ bindings'[p] = BindingOf(AttachedAs)
        /\ \A q \in Bound \ {p} : bindings'[q] = bindings[q]
        /\ rev' = rev + 1 /\ rev \in Nat
    BY <1>4, AttachedIs DEF Types, TypeOK
  <2>2. rev < rev'
    BY <2>1
  <2>3. /\ crossed' = IF attach.crossed THEN crossed \cup {p} ELSE crossed \ {p}
        /\ attach # NoAttach /\ rev = attach.rev
        /\ adrift \ {p} \subseteq adrift'
    BY <1>4 DEF Attached, Settle
  <2>4. Sound' \ {p} \subseteq Sound
    BY <2>1, <2>3 DEF Sound
  <2>5. CASE attach.crossed
    <3>1. p \notin Sound'
      BY <2>3, <2>5 DEF Sound
    <3>2. Sound' \subseteq Sound /\ \A q \in Sound' : bindings'[q].url = bindings[q].url
      BY <2>1, <2>4, <3>1 DEF Sound
    <3> QED
      BY <1>1, <1>2, <2>2, <3>2, PortsFrame DEF PortsAgree, MovesAgree
  <2>6. CASE ~attach.crossed
    <3>1. attach.url = port /\ Between = {}
      BY <2>3, <2>6 DEF PortsAgree, AttachAgrees
    <3>2. Between' = {}
      BY <1>1, <3>1 DEF Between, At
    <3>3. bindings'[p].url = port
      BY <2>1, <3>1, BindingIs
    <3>4. StoredAgree'
      <4> SUFFICES ASSUME NEW q \in Sound', bindings'[q].url # port
                   PROVE  \E x \in Workers : worker'[x].pc = "unbind" /\ q \in DOMAIN worker'[x].next
        BY <1>1 DEF StoredAgree, At
      <4>1. q \in Sound /\ bindings'[q].url = bindings[q].url
        BY <2>1, <2>4, <3>3 DEF Sound
      <4> QED
        BY <1>1, <3>1, <4>1 DEF PortsAgree, StoredAgree, At
    <3>5. MovesAgree'
      BY <1>1, <2>1, MovesPast DEF MovesAgree
    <3> QED
      BY <1>1, <3>2, <3>4, <3>5 DEF PortsAgree, BetweenAgree, AttachAgrees
  <2> QED
    BY <2>5, <2>6
<1> QED
  BY <1>3, <1>4, ExecuteIs

LEMMA DiesPorts ==
  ASSUME Types, Types', Migrations, PortsAgree, Dies
  PROVE  PortsAgree'
<1>1. /\ \A w \in Workers : worker'[w].pc = "free"
      /\ attach' = NoAttach /\ UNCHANGED <<bindings, port, crossed>>
  BY FreeIs DEF Dies, disk
<1>2. \A w \in Workers : Unfinished(w) \subseteq adrift'
  BY DEF Dies
<1>3. \A w \in Workers : worker[w].pc \in {"state", "unbind"} => DOMAIN worker[w].next \subseteq adrift'
  BY <1>2 DEF Unfinished
<1>4. Sound' \subseteq Sound /\ adrift \subseteq adrift'
  BY <1>1 DEF Sound, Bound, Dies
<1>5. Between' = {}
  BY <1>1 DEF Between, At
<1>6. ASSUME NEW p \in Sound' PROVE bindings[p].url = port
  <2>1. p \in Sound /\ p \notin adrift'
    BY <1>4 DEF Sound
  <2>2. ASSUME NEW w \in Between PROVE FALSE
    BY <1>3, <2>1, <2>2 DEF PortsAgree, BetweenAgree, Between, At
  <2>3. Between = {}
    BY <2>2
  <2> QED
    BY <1>3, <2>1, <2>3 DEF PortsAgree, StoredAgree, At
<1> QED
  BY <1>1, <1>5, <1>6 DEF PortsAgree, BetweenAgree, StoredAgree, MovesAgree, MoveAgrees, AttachAgrees

LEMMA OthersPorts ==
  ASSUME Types, Types', Migrations, Attaching, Repairing, PortsAgree, Others
  PROVE  PortsAgree'
<1>1. ASSUME worker' = worker, port' = port, attach' \in {attach, NoAttach}, rev' = rev \/ rev < rev',
             Sound' \subseteq Sound, \A q \in Sound' : bindings'[q].url = bindings[q].url
      PROVE  PortsAgree'
  <2>1. \A x \in Workers : Aside(x) /\ Stays(x)
    BY <1>1 DEF Aside, Stays
  <2> QED
    BY <1>1, <2>1, PortsFrame DEF PortsAgree, MovesAgree
<1>2. rev \in Nat
  BY DEF Types, TypeOK
<1>3. ASSUME NEW p \in Profiles, PlanAttach(p) PROVE PortsAgree'
  <2>1. UNCHANGED <<bindings, rev, port, worker, adrift, crossed>>
    BY <1>3 DEF PlanAttach, disk, ghosts
  <2>2. Sound' = Sound
    BY <2>1 DEF Sound, Bound
  <2>3. \A x \in Workers : Aside(x) /\ Stays(x)
    BY <2>1 DEF Aside, Stays
  <2>4. Between' = Between /\ BetweenAgree' /\ StoredAgree' /\ MovesAgree'
    BY <2>1, <2>2, <2>3, PortsFrame DEF MovesAgree
  <2>5. PICK b, c : b = (\E w \in Workers : At(w, "state")) /\ c = config[p]
    OBVIOUS
  <2>6. attach' = [p |-> p, url |-> port, rev |-> rev, before |-> c, crossed |-> b]
    BY <1>3, <2>5 DEF PlanAttach
  <2>7. attach'.url = port /\ attach'.crossed = b
    BY <2>6
  <2>8. ~b => Between = {}
    BY <2>5 DEF Between
  <2>9. AttachAgrees'
    BY <2>1, <2>4, <2>7, <2>8 DEF AttachAgrees
  <2> QED
    BY <2>4, <2>9 DEF PortsAgree
<1>4. ASSUME NEW p \in Profiles, Detach(p) PROVE PortsAgree'
  <2>1. /\ Bound' = Bound \ {p} /\ rev' = rev + 1
        /\ \A q \in Bound \ {p} : bindings'[q] = bindings[q]
    BY <1>4, DetachIs
  <2>2. UNCHANGED <<port, worker, attach>> /\ crossed' = crossed \ {p} /\ adrift \ {p} \subseteq adrift'
    BY <1>4 DEF Detach, Settle
  <2>3. Sound' \subseteq Sound /\ \A q \in Sound' : bindings'[q].url = bindings[q].url
    BY <2>1, <2>2 DEF Sound
  <2>4. rev < rev'
    BY <1>2, <2>1
  <2> QED
    BY <1>1, <2>2, <2>3, <2>4
<1>5. CASE (\E p \in Profiles : Edit(p)) \/ OtherCommit \/ Start \/ RepairConfig
  <2>1. UNCHANGED <<bindings, port, worker, attach, adrift, crossed>>
    BY <1>5 DEF Edit, OtherCommit, Start, RepairConfig, ghosts
  <2>2. rev' = rev \/ rev' = rev + 1
    BY <1>5 DEF Edit, OtherCommit, Start, RepairConfig
  <2>3. Sound' = Sound
    BY <2>1 DEF Sound, Bound
  <2> QED
    BY <1>1, <1>2, <2>1, <2>2, <2>3
<1>6. CASE RepairEnds
  <2>1. /\ repair.on /\ DOMAIN repair.next = Bound
        /\ \A p \in Bound : repair.next[p].url = bindings[p].url
    BY <1>6 DEF RepairEnds, Repairing
  <2>2. UNCHANGED <<port, worker, attach, crossed>> /\ adrift \subseteq adrift'
    BY <1>6 DEF RepairEnds
  <2>3. UNCHANGED <<bindings, rev>> \/ Put(repair.next)
    BY <1>6 DEF RepairEnds
  <2>4. Bound' = Bound /\ (rev' = rev \/ rev < rev') /\ \A q \in Bound : bindings'[q].url = bindings[q].url
    BY <1>2, <2>1, <2>3 DEF Put, Bound
  <2>5. Sound' \subseteq Sound /\ Sound' \subseteq Bound
    BY <2>2, <2>4 DEF Sound
  <2> QED
    BY <1>1, <2>2, <2>4, <2>5
<1> QED
  BY <1>3, <1>4, <1>5, <1>6, AttachedPorts, DiesPorts DEF Others

LEMMA PortsStay ==
  ASSUME Types, Types', Migrations, Attaching, Repairing, PortsAgree, Next
  PROVE  PortsAgree'
BY MigratesPorts, OthersPorts, NextIs

-----------------------------------------------------------------------------
(* Counting the writes that may be put back *)

EdgesAt(w, p) == {s \in Edges(w) : s.p = p}

LEMMA EdgesAre ==
  ASSUME Types, Migrations, NEW w \in Workers
  PROVE  /\ Edges(w) \in SUBSET Steps
         /\ \A p, s, t : s \in EdgesAt(w, p) /\ t \in EdgesAt(w, p) => s = t
         /\ \A p : p \notin Written(w) => EdgesAt(w, p) = {}
         /\ worker[w].pc \notin {"forth", "back"} => Edges(w) = {}
<1>1. worker[w].todo \in SUBSET Steps /\ worker[w].done \in SUBSET Steps
  BY DEF Types, WorkerType
<1>2. Edges(w) \in SUBSET Steps
  BY <1>1, Undone DEF Edges, NoSteps
<1>3. ASSUME NEW s \in Edges(w), NEW t \in Edges(w), s.p = t.p PROVE s = t
  <2>1. CASE At(w, "back")
    <3>1. Edges(w) = Undo(worker[w].todo)
      BY <2>1 DEF Edges, At
    <3>2. PICK a \in worker[w].todo : s.p = a.p /\ s.from = a.to /\ s.to = a.from
      BY <1>1, <3>1, Undone
    <3>3. PICK b \in worker[w].todo : t.p = b.p /\ t.from = b.to /\ t.to = b.from
      BY <1>1, <3>1, Undone
    <3>4. a = b
      <4>1. Stepping(w) /\ a.p = b.p
        BY <1>3, <3>2, <3>3 DEF Migrations
      <4> QED
        BY <4>1 DEF Stepping
    <3>5. s \in Steps /\ t \in Steps /\ s.p = t.p /\ s.from = t.from /\ s.to = t.to
      BY <1>2, <3>2, <3>3, <3>4
    <3> QED
      BY <3>5 DEF Steps
  <2>2. CASE ~At(w, "back")
    <3>1. s \in worker[w].done /\ t \in worker[w].done
      BY <2>2 DEF Edges, NoSteps
    <3> QED
      BY <1>3, <3>1 DEF Migrations, Stepping
  <2> QED
    BY <2>1, <2>2
<1>4. Written(w) = {s.p : s \in Edges(w)}
  BY UnfinishedIs
<1> QED
  BY <1>2, <1>3, <1>4 DEF EdgesAt, Edges, At, NoSteps

LEMMA Counts ==
  ASSUME NEW p, NEW c
  PROVE  /\ IsFiniteSet(Out(p, c)) /\ IsFiniteSet(In(p, c))
         /\ Cardinality(Out(p, c)) \in Nat /\ Cardinality(In(p, c)) \in Nat
         /\ Out(p, c) = {w \in Workers : \E s \in EdgesAt(w, p) : s.from = c}
         /\ In(p, c) = {w \in Workers : \E s \in EdgesAt(w, p) : s.to = c}
<1>1. IsFiniteSet(Workers)
  BY PortsAssumption
<1>2. Out(p, c) \in SUBSET Workers /\ In(p, c) \in SUBSET Workers
  BY DEF Out, In
<1>3. IsFiniteSet(Out(p, c)) /\ IsFiniteSet(In(p, c))
  BY <1>1, <1>2, FS_Subset
<1> QED
  BY <1>3, FS_CardinalityType DEF Out, In, EdgesAt

SameEdges(p) == \A w \in Workers : EdgesAt(w, p)' = EdgesAt(w, p)

LEMMA SameCounts ==
  ASSUME NEW p, SameEdges(p)
  PROVE  \A c : Out(p, c)' = Out(p, c) /\ In(p, c)' = In(p, c)
<1> TAKE c
<1>1. /\ Out(p, c) = {w \in Workers : \E s \in EdgesAt(w, p) : s.from = c}
      /\ In(p, c) = {w \in Workers : \E s \in EdgesAt(w, p) : s.to = c}
  BY Counts
<1>2. /\ Out(p, c)' = {w \in Workers : \E s \in EdgesAt(w, p)' : s.from = c}
      /\ In(p, c)' = {w \in Workers : \E s \in EdgesAt(w, p)' : s.to = c}
  BY DEF Out, In, EdgesAt
<1>3. Out(p, c)' = Out(p, c)
  BY <1>1, <1>2 DEF SameEdges
<1>4. In(p, c)' = In(p, c)
  BY <1>1, <1>2 DEF SameEdges
<1> QED
  BY <1>3, <1>4

\* A migration writes a config, or puts one back or commits it.
Gains(w, p, e) ==
  /\ EdgesAt(w, p) = {} /\ EdgesAt(w, p)' = {e}
  /\ \A x \in Workers \ {w} : EdgesAt(x, p)' = EdgesAt(x, p)
Loses(w, p, e) ==
  /\ EdgesAt(w, p) = {e} /\ EdgesAt(w, p)' = {}
  /\ \A x \in Workers \ {w} : EdgesAt(x, p)' = EdgesAt(x, p)

LEMMA OneMore ==
  ASSUME NEW S, IsFiniteSet(S), NEW T, NEW w, NEW b \in BOOLEAN, w \notin S,
         T = IF b THEN S \cup {w} ELSE S
  PROVE  Cardinality(T) = Cardinality(S) + One(b) /\ Cardinality(S) \in Nat
<1>1. Cardinality(S) \in Nat
  BY FS_CardinalityType
<1>2. CASE b
  BY <1>1, <1>2, FS_AddElement DEF One
<1>3. CASE ~b
  BY <1>1, <1>3 DEF One
<1> QED
  BY <1>1, <1>2, <1>3

LEMMA GainCounts ==
  ASSUME NEW w \in Workers, NEW p, NEW e, Gains(w, p, e)
  PROVE  \A c : /\ Cardinality(Out(p, c)') = Cardinality(Out(p, c)) + One(e.from = c)
                /\ Cardinality(In(p, c)') = Cardinality(In(p, c)) + One(e.to = c)
<1> SUFFICES ASSUME NEW c
             PROVE  /\ Cardinality(Out(p, c)') = Cardinality(Out(p, c)) + One(e.from = c)
                    /\ Cardinality(In(p, c)') = Cardinality(In(p, c)) + One(e.to = c)
  OBVIOUS
<1>1. /\ Out(p, c) = {x \in Workers : \E s \in EdgesAt(x, p) : s.from = c}
      /\ In(p, c) = {x \in Workers : \E s \in EdgesAt(x, p) : s.to = c}
      /\ IsFiniteSet(Out(p, c)) /\ IsFiniteSet(In(p, c))
  BY Counts
<1>2. /\ Out(p, c)' = {x \in Workers : \E s \in EdgesAt(x, p)' : s.from = c}
      /\ In(p, c)' = {x \in Workers : \E s \in EdgesAt(x, p)' : s.to = c}
  BY DEF Out, In, EdgesAt
<1>3. w \notin Out(p, c) /\ Out(p, c)' = IF e.from = c THEN Out(p, c) \cup {w} ELSE Out(p, c)
  BY <1>1, <1>2 DEF Gains
<1>4. w \notin In(p, c) /\ In(p, c)' = IF e.to = c THEN In(p, c) \cup {w} ELSE In(p, c)
  BY <1>1, <1>2 DEF Gains
<1>5. (e.from = c) \in BOOLEAN /\ (e.to = c) \in BOOLEAN
  OBVIOUS
<1> QED
  BY <1>1, <1>3, <1>4, <1>5, OneMore

LEMMA LoseCounts ==
  ASSUME NEW w \in Workers, NEW p, NEW e, Loses(w, p, e)
  PROVE  \A c : /\ Cardinality(Out(p, c)) = Cardinality(Out(p, c)') + One(e.from = c)
                /\ Cardinality(In(p, c)) = Cardinality(In(p, c)') + One(e.to = c)
                /\ Cardinality(Out(p, c)') \in Nat /\ Cardinality(In(p, c)') \in Nat
<1> SUFFICES ASSUME NEW c
             PROVE  /\ Cardinality(Out(p, c)) = Cardinality(Out(p, c)') + One(e.from = c)
                    /\ Cardinality(In(p, c)) = Cardinality(In(p, c)') + One(e.to = c)
                    /\ Cardinality(Out(p, c)') \in Nat /\ Cardinality(In(p, c)') \in Nat
  OBVIOUS
<1>1. /\ Out(p, c) = {x \in Workers : \E s \in EdgesAt(x, p) : s.from = c}
      /\ In(p, c) = {x \in Workers : \E s \in EdgesAt(x, p) : s.to = c}
      /\ IsFiniteSet(Out(p, c)) /\ IsFiniteSet(In(p, c))
  BY Counts
<1>2. /\ Out(p, c)' = {x \in Workers : \E s \in EdgesAt(x, p)' : s.from = c}
      /\ In(p, c)' = {x \in Workers : \E s \in EdgesAt(x, p)' : s.to = c}
  BY DEF Out, In, EdgesAt
<1>3. w \notin Out(p, c)' /\ Out(p, c) = IF e.from = c THEN Out(p, c)' \cup {w} ELSE Out(p, c)'
  BY <1>1, <1>2 DEF Loses
<1>4. w \notin In(p, c)' /\ In(p, c) = IF e.to = c THEN In(p, c)' \cup {w} ELSE In(p, c)'
  BY <1>1, <1>2 DEF Loses
<1>5. (e.from = c) \in BOOLEAN /\ (e.to = c) \in BOOLEAN
  OBVIOUS
<1>6. Out(p, c)' \subseteq Out(p, c) /\ In(p, c)' \subseteq In(p, c)
  BY <1>3, <1>4
<1>7. IsFiniteSet(Out(p, c)') /\ IsFiniteSet(In(p, c)')
  BY <1>1, <1>6, FS_Subset
<1> QED
  BY <1>3, <1>4, <1>5, <1>7, OneMore

-----------------------------------------------------------------------------
(* What a step does to the writes that may be put back *)

LEMMA EdgesOther ==
  ASSUME NEW x \in Workers, worker'[x] = worker[x], NEW p
  PROVE  EdgesAt(x, p)' = EdgesAt(x, p)
BY DEF EdgesAt, Edges, At

\* A rollback may put back what the migration had written.
LEMMA RollBackEdges ==
  ASSUME Types, NEW w \in Workers, RollBack(w)
  PROVE  Edges(w)' = worker[w].done
<1>1. worker'[w].pc = "back" /\ worker'[w].todo = Undo(worker[w].done)
  BY RollBackIs
<1>2. worker[w].done \in SUBSET Steps
  BY DEF Types, WorkerType
<1>3. Edges(w)' = Undo(worker'[w].todo)
  BY <1>1 DEF Edges, At
<1> QED
  BY <1>1, <1>2, <1>3, Undone

LEMMA FreeEdges ==
  ASSUME NEW w \in Workers, worker'[w].pc \notin {"forth", "back"}
  PROVE  Edges(w)' = {}
BY DEF Edges, At, NoSteps

LEMMA GiveUpEdges ==
  ASSUME Types, Migrations, NEW w \in Workers, GiveUp(w), worker[w].pc \in {"forth", "back"},
         NEW p, p \notin adrift'
  PROVE  EdgesAt(w, p)' = EdgesAt(w, p)
<1>1. CASE RollBack(w) /\ ~At(w, "back")
  <2>1. Edges(w)' = worker[w].done /\ Edges(w) = worker[w].done
    BY <1>1, RollBackEdges DEF Edges, At
  <2> QED
    BY <2>1 DEF EdgesAt
<1>2. CASE At(w, "back") /\ worker'[w] = Free /\ adrift' = adrift \cup {s.p : s \in worker[w].todo}
  <2>1. Written(w) \subseteq adrift'
    BY <1>2 DEF Written, At
  <2>2. EdgesAt(w, p) = {}
    BY <2>1, EdgesAre
  <2>3. Edges(w)' = {}
    BY <1>2, FreeIs, FreeEdges
  <2> QED
    BY <2>2, <2>3 DEF EdgesAt
<1> QED
  BY <1>1, <1>2, GiveUpIs

LEMMA RenameEdges ==
  ASSUME Types, Migrations, NEW w \in Workers, RenameConfig(w)
  PROVE  \E s \in Due(w), e \in Steps :
           /\ Renamed(w, s) /\ worker[w].seen /\ e.p = s.p
           /\ \A p : p # s.p => SameEdges(p)
           /\ \/ Gains(w, s.p, e) /\ e.from = s.from /\ e.to = s.to
              \/ Loses(w, s.p, e) /\ e.from = s.to /\ e.to = s.from
<1>1. PICK s \in Due(w) :
        /\ s \in worker[w].todo /\ Renamed(w, s)
        /\ worker'[w].pc = worker[w].pc /\ worker'[w].todo = worker[w].todo \ {s}
        /\ worker'[w].done = worker[w].done \cup {s}
  BY RenameIs
<1>2. /\ worker[w].todo \in SUBSET Steps /\ worker[w].done \in SUBSET Steps /\ s \in Steps
      /\ \A x \in Workers \ {w} : worker'[x] = worker[x]
  BY <1>1, MigratesWorker DEF Types, WorkerType, Migrates
<1>3. \A p, x : x \in Workers \ {w} => EdgesAt(x, p)' = EdgesAt(x, p)
  BY <1>2, EdgesOther
<1>4. worker[w].pc \in {"forth", "back"} /\ worker[w].seen
  BY <1>1 DEF Migrations, Stepping, RenameConfig, NoSteps
<1>5. /\ \A t \in worker[w].todo \cup worker[w].done : t.p = s.p => t = s
      /\ s \notin worker[w].done
  <2>1. Stepping(w)
    BY DEF Migrations
  <2> QED
    BY <1>1, <2>1 DEF Stepping
<1>6. CASE At(w, "forth")
  <2>1. Edges(w) = worker[w].done /\ Edges(w)' = worker[w].done \cup {s}
    BY <1>1, <1>6 DEF Edges, At
  <2>2. \A p : p # s.p => EdgesAt(w, p)' = EdgesAt(w, p)
    BY <2>1 DEF EdgesAt
  <2>3. EdgesAt(w, s.p) = {} /\ EdgesAt(w, s.p)' = {s}
    BY <1>1, <1>5, <2>1 DEF EdgesAt
  <2>4. Gains(w, s.p, s)
    BY <1>3, <2>3 DEF Gains
  <2>5. \A p : p # s.p => SameEdges(p)
    BY <1>3, <2>2 DEF SameEdges
  <2> QED
    BY <1>1, <1>2, <1>4, <2>4, <2>5
<1>7. CASE At(w, "back")
  <2> DEFINE e == [p |-> s.p, from |-> s.to, to |-> s.from]
  <2>1. e \in Steps /\ e.p = s.p /\ e.from = s.to /\ e.to = s.from
    BY <1>2 DEF Steps
  <2>2. Edges(w) = Undo(worker[w].todo) /\ Edges(w)' = Undo(worker[w].todo \ {s})
    BY <1>1, <1>7 DEF Edges, At
  <2>3. \A t : t \in Edges(w)' <=> \E r \in worker[w].todo : r # s /\ t = [p |-> r.p, from |-> r.to, to |-> r.from]
    BY <2>2 DEF Undo
  <2>4. \A t : t \in Edges(w) <=> \E r \in worker[w].todo : t = [p |-> r.p, from |-> r.to, to |-> r.from]
    BY <2>2 DEF Undo
  <2>5. \A p : p # s.p => EdgesAt(w, p)' = EdgesAt(w, p)
    <3> SUFFICES ASSUME NEW p, p # s.p, NEW t, t.p = p
                 PROVE  t \in Edges(w)' <=> t \in Edges(w)
      BY DEF EdgesAt
    <3>1. ASSUME NEW r \in worker[w].todo, t = [p |-> r.p, from |-> r.to, to |-> r.from]
          PROVE  r # s
      BY <3>1
    <3> QED
      BY <2>3, <2>4, <3>1
  <2>6. EdgesAt(w, s.p)' = {}
    <3> SUFFICES ASSUME NEW t \in Edges(w)', t.p = s.p PROVE FALSE
      BY DEF EdgesAt
    <3>1. PICK r \in worker[w].todo : r # s /\ t = [p |-> r.p, from |-> r.to, to |-> r.from]
      BY <2>3
    <3>2. r.p = s.p
      BY <3>1
    <3> QED
      BY <1>5, <3>1, <3>2
  <2>7. e \in EdgesAt(w, s.p)
    BY <1>1, <2>1, <2>4 DEF EdgesAt
  <2>8. EdgesAt(w, s.p) = {e}
    BY <2>7, EdgesAre
  <2>9. Loses(w, s.p, e)
    BY <1>3, <2>6, <2>8 DEF Loses
  <2>10. \A p : p # s.p => SameEdges(p)
    BY <1>3, <2>5 DEF SameEdges
  <2> QED
    BY <1>1, <1>4, <2>1, <2>9, <2>10
<1> QED
  BY <1>4, <1>6, <1>7 DEF At

\* The bindings that are committed take the writes with them.
LEMMA CommitEdges ==
  ASSUME Types, Migrations, NEW w \in Workers, NEW p \in Profiles,
         At(w, "forth"), worker[w].todo = NoSteps, worker[w].rev = rev,
         worker'[w].pc = "state", \A x \in Workers \ {w} : worker'[x] = worker[x]
  PROVE  /\ p \notin DOMAIN worker[w].next => SameEdges(p)
         /\ p \in DOMAIN worker[w].next =>
              \E e \in Steps : /\ Loses(w, p, e) /\ e.from.note = e.to.note /\ e.from.root = e.to.root
                               /\ e.from = bindings[p].applied /\ e.to = worker[w].next[p].applied
<1>1. \A x \in Workers \ {w} : EdgesAt(x, p)' = EdgesAt(x, p)
  BY EdgesOther
<1>2. EdgesAt(w, p)' = {} /\ Edges(w) = worker[w].done
  BY FreeEdges DEF EdgesAt, Edges, At
<1>3. Stepping(w) /\ Moving(w) /\ worker[w].pc = "forth"
  BY DEF Migrations, At
<1>4. /\ \A q \in DOMAIN worker[w].next : \E s \in worker[w].done : s.p = q
      /\ \A s \in worker[w].done : /\ s.p \in DOMAIN worker[w].next /\ s.to = worker[w].next[s.p].applied
                                   /\ s.from = worker[w].old[s.p].applied
                                   /\ s.from.note = s.to.note /\ s.from.root = s.to.root
      /\ bindings = worker[w].old
  BY <1>3 DEF Stepping, Moving, At, NoSteps
<1>5. CASE p \notin DOMAIN worker[w].next
  <2>1. EdgesAt(w, p) = {}
    BY <1>2, <1>4, <1>5 DEF EdgesAt
  <2> QED
    BY <1>1, <1>2, <1>5, <2>1 DEF SameEdges
<1>6. CASE p \in DOMAIN worker[w].next
  <2>1. PICK e \in worker[w].done : e.p = p
    BY <1>4, <1>6
  <2>2. e \in Steps /\ e \in EdgesAt(w, p)
    BY <1>2, <2>1, EdgesAre DEF EdgesAt
  <2>3. EdgesAt(w, p) = {e}
    BY <2>2, EdgesAre
  <2>4. Loses(w, p, e)
    BY <1>1, <1>2, <2>3 DEF Loses
  <2> QED
    BY <1>4, <1>6, <2>1, <2>2, <2>4
<1> QED
  BY <1>5, <1>6

\* The bindings that are put back bring the writes again.
LEMMA UndoEdges ==
  ASSUME Types, Migrations, NEW w \in Workers, NEW p \in Profiles,
         At(w, "unbind"), worker[w].rev = rev, RollBack(w),
         \A x \in Workers \ {w} : worker'[x] = worker[x]
  PROVE  /\ p \notin DOMAIN worker[w].next => SameEdges(p)
         /\ p \in DOMAIN worker[w].next =>
              \E e \in Steps : /\ Gains(w, p, e) /\ e.from.note = e.to.note /\ e.from.root = e.to.root
                               /\ e.to = bindings[p].applied /\ e.from = worker[w].old[p].applied
<1>1. \A x \in Workers \ {w} : EdgesAt(x, p)' = EdgesAt(x, p)
  BY EdgesOther
<1>2. Edges(w)' = worker[w].done /\ Edges(w) = {} /\ worker[w].done \in SUBSET Steps
  BY RollBackEdges DEF Edges, At, NoSteps, Types, WorkerType
<1>3. Stepping(w) /\ Moving(w) /\ worker[w].pc = "unbind" /\ worker[w].todo = NoSteps
  BY DEF Migrations, Stepping, At
<1>4. /\ \A q \in DOMAIN worker[w].next : \E s \in worker[w].done : s.p = q
      /\ \A s \in worker[w].done : /\ s.p \in DOMAIN worker[w].next /\ s.to = worker[w].next[s.p].applied
                                   /\ s.from = worker[w].old[s.p].applied
                                   /\ s.from.note = s.to.note /\ s.from.root = s.to.root
      /\ bindings = worker[w].next
      /\ \A s, t \in worker[w].done : s.p = t.p => s = t
  BY <1>3 DEF Stepping, Moving, At, NoSteps
<1>5. CASE p \notin DOMAIN worker[w].next
  <2>1. EdgesAt(w, p) = {} /\ EdgesAt(w, p)' = {}
    BY <1>2, <1>4, <1>5 DEF EdgesAt
  <2> QED
    BY <1>1, <1>5, <2>1 DEF SameEdges
<1>6. CASE p \in DOMAIN worker[w].next
  <2>1. PICK e \in worker[w].done : e.p = p
    BY <1>4, <1>6
  <2>2. EdgesAt(w, p)' = {e}
    BY <1>2, <1>4, <2>1 DEF EdgesAt
  <2>3. EdgesAt(w, p) = {}
    BY <1>2 DEF EdgesAt
  <2>4. Gains(w, p, e)
    BY <1>1, <2>2, <2>3 DEF Gains
  <2> QED
    BY <1>2, <1>4, <1>6, <2>1, <2>4
<1> QED
  BY <1>5, <1>6

-----------------------------------------------------------------------------
(* The bindings and the configs *)

LEMMA OneIs == One(TRUE) = 1 /\ One(FALSE) = 0 /\ \A b \in BOOLEAN : One(b) \in Nat
BY DEF One

\* Where nothing may be put back, the binding has the content of the config.
LEMMA Unwritten ==
  ASSUME Types, NEW p \in Profiles, p \in Bound, Balanced(p), \A w \in Workers : EdgesAt(w, p) = {}
  PROVE  config[p] = bindings[p].applied
<1> DEFINE c == config[p]
<1>1. c \in Contents
  BY DEF Types, TypeOK
<1>2. Out(p, c) = {} /\ In(p, c) = {}
  BY Counts
<1>3. Cardinality(Out(p, c)) = 0 /\ Cardinality(In(p, c)) = 0
  BY <1>2, FS_EmptySet
<1>4. Cardinality(Out(p, c)) + One(p \in Bound /\ config[p] = c)
        = Cardinality(In(p, c)) + One(p \in Bound /\ bindings[p].applied = c)
  BY <1>1 DEF Balanced
<1>5. 0 + 1 = 0 + One(bindings[p].applied = c)
  BY <1>3, <1>4 DEF One
<1> QED
  BY <1>5 DEF One

LEMMA EvenNow ==
  ASSUME Types, NEW p \in Profiles, Balanced(p), p \in Bound => config[p] = bindings[p].applied
  PROVE  \A c \in Contents : Cardinality(Out(p, c)) = Cardinality(In(p, c))
<1> TAKE c \in Contents
<1>1. Cardinality(Out(p, c)) \in Nat /\ Cardinality(In(p, c)) \in Nat
  BY Counts
<1>2. Cardinality(Out(p, c)) + One(p \in Bound /\ config[p] = c)
        = Cardinality(In(p, c)) + One(p \in Bound /\ bindings[p].applied = c)
  BY DEF Balanced
<1> QED
  BY <1>1, <1>2 DEF One

\* The config and the binding of a profile change together.
LEMMA EvenNext ==
  ASSUME NEW p \in Profiles, SameEdges(p), p \in Bound' => config'[p] = bindings'[p].applied,
         \/ \A c \in Contents : Cardinality(Out(p, c)) = Cardinality(In(p, c))
         \/ \A w \in Workers : EdgesAt(w, p) = {}
  PROVE  Balanced(p)'
<1> SUFFICES ASSUME NEW c \in Contents
             PROVE  Cardinality(Out(p, c)') + One((p \in Bound /\ config[p] = c)')
                      = Cardinality(In(p, c)') + One((p \in Bound /\ bindings[p].applied = c)')
  BY DEF Balanced
<1>1. Out(p, c)' = Out(p, c) /\ In(p, c)' = In(p, c)
  BY SameCounts
<1>2. CASE \A w \in Workers : EdgesAt(w, p) = {}
  <2>1. Out(p, c) = {} /\ In(p, c) = {}
    BY <1>2, Counts
  <2> QED
    BY <1>1, <2>1 DEF One
<1>3. CASE \A d \in Contents : Cardinality(Out(p, d)) = Cardinality(In(p, d))
  BY <1>1, <1>3 DEF One
<1> QED
  BY <1>2, <1>3

\* A profile that the step does not touch.
LEMMA ConfigFrame ==
  ASSUME NEW p \in Profiles, ConfigAgrees(p), Clean(p)' => Clean(p) /\ SameEdges(p),
         p \in Bound' <=> p \in Bound, config'[p] = config[p],
         p \in Bound => bindings'[p].applied = bindings[p].applied
  PROVE  ConfigAgrees(p)'
<1>1. p \notin Bound' => config'[p].url \notin Ports
  BY DEF ConfigAgrees
<1>2. ASSUME Clean(p)' PROVE Balanced(p)'
  <2> SUFFICES ASSUME NEW c \in Contents
               PROVE  Cardinality(Out(p, c)') + One((p \in Bound /\ config[p] = c)')
                        = Cardinality(In(p, c)') + One((p \in Bound /\ bindings[p].applied = c)')
    BY DEF Balanced
  <2>1. Out(p, c)' = Out(p, c) /\ In(p, c)' = In(p, c)
    BY <1>2, SameCounts
  <2>2. Cardinality(Out(p, c)) + One(p \in Bound /\ config[p] = c)
          = Cardinality(In(p, c)) + One(p \in Bound /\ bindings[p].applied = c)
    BY <1>2 DEF ConfigAgrees, Balanced
  <2> QED
    BY <2>1, <2>2 DEF One
<1> QED
  BY <1>1, <1>2 DEF ConfigAgrees

\* Sums of ones, for the three ways in which a write is counted.
LEMMA Sums ==
  ASSUME NEW o \in Nat, NEW i \in Nat, NEW a \in Nat, NEW b \in Nat, NEW d \in Nat
  PROVE  /\ o + a = i + d => (o + a) + b = (i + b) + d
         /\ (o + b) + a = (i + a) + d => o + b = i + d
         /\ (o + b) + d = (i + a) + b => o + d = i + a
         /\ o + d = i + a => (o + b) + d = (i + a) + b
OBVIOUS

LEMMA RenameAgrees ==
  ASSUME Types, Migrations, Checked, ConfigsAgree, NEW w \in Workers, RenameConfig(w), ~spoiled',
         NEW p \in Profiles
  PROVE  ConfigAgrees(p)'
<1>1. PICK s \in Due(w), e \in Steps :
        /\ Renamed(w, s) /\ worker[w].seen /\ e.p = s.p
        /\ \A q : q # s.p => SameEdges(q)
        /\ \/ Gains(w, s.p, e) /\ e.from = s.from /\ e.to = s.to
           \/ Loses(w, s.p, e) /\ e.from = s.to /\ e.to = s.from
  BY RenameEdges
<1>2. ~spoiled
  BY <1>1 DEF Renamed, Overtake
<1>3. ConfigAgrees(p) /\ ConfigAgrees(s.p) /\ s.p \in Profiles /\ s.from \in Hosted /\ s.to \in Hosted
  BY <1>2, DueIs DEF ConfigsAgree
<1>4. UNCHANGED <<bindings, repair, edited, adrift>>
  BY DEF RenameConfig
<1>5. (Clean(p)' <=> Clean(p)) /\ Bound' = Bound
  BY <1>4 DEF Clean, Bound
<1>6. CASE p # s.p
  <2>1. config'[p] = config[p]
    BY <1>1, <1>6, RenamedIs
  <2> QED
    BY <1>1, <1>3, <1>4, <1>5, <1>6, <2>1, ConfigFrame
<1>7. CASE p = s.p
  <2>1. config[p] = s.from /\ config'[p] = s.to
    BY <1>1, <1>2, <1>7, RenamedIs DEF Checked
  <2>2. p \in Bound
    BY <1>3, <2>1 DEF ConfigAgrees, Hosted
  <2>3. s.from.note = s.to.note /\ s.from.root = s.to.root
    <3>1. s \in worker[w].todo
      BY DueIs
    <3> QED
      BY <3>1 DEF Migrations, Stepping
  <2>4. ASSUME Clean(p) PROVE Balanced(p)'
    <3> SUFFICES ASSUME NEW c \in Contents
                 PROVE  Cardinality(Out(p, c)') + One((p \in Bound /\ config[p] = c)')
                          = Cardinality(In(p, c)') + One((p \in Bound /\ bindings[p].applied = c)')
      BY DEF Balanced
    <3>1. Cardinality(Out(p, c)) + One(p \in Bound /\ config[p] = c)
            = Cardinality(In(p, c)) + One(p \in Bound /\ bindings[p].applied = c)
      BY <1>3, <2>4 DEF ConfigAgrees, Balanced
    <3> DEFINE A == One(s.from = c)
               B == One(s.to = c)
               D == One(bindings[p].applied = c)
    <3>2. One((p \in Bound /\ config[p] = c)') = B /\ One((p \in Bound /\ bindings[p].applied = c)') = D
      BY <1>4, <1>5, <2>1, <2>2 DEF One
    <3>3. One(p \in Bound /\ config[p] = c) = A /\ One(p \in Bound /\ bindings[p].applied = c) = D
      BY <2>1, <2>2 DEF One
    <3>4. A \in Nat /\ B \in Nat /\ D \in Nat
      BY DEF One
    <3>5. CASE Gains(w, p, e) /\ e.from = s.from /\ e.to = s.to
      <4>1. /\ Cardinality(Out(p, c)') = Cardinality(Out(p, c)) + A
            /\ Cardinality(In(p, c)') = Cardinality(In(p, c)) + B
        BY <3>5, GainCounts
      <4>2. Cardinality(Out(p, c)) \in Nat /\ Cardinality(In(p, c)) \in Nat
        BY Counts
      <4>3. Cardinality(Out(p, c)) + A = Cardinality(In(p, c)) + D
        BY <3>1, <3>3
      <4> HIDE DEF A, B, D
      <4> QED
        BY <3>2, <3>4, <4>1, <4>2, <4>3, Sums
    <3>6. CASE Loses(w, p, e) /\ e.from = s.to /\ e.to = s.from
      <4>1. /\ Cardinality(Out(p, c)) = Cardinality(Out(p, c)') + B
            /\ Cardinality(In(p, c)) = Cardinality(In(p, c)') + A
            /\ Cardinality(Out(p, c)') \in Nat /\ Cardinality(In(p, c)') \in Nat
        BY <3>6, LoseCounts
      <4>2. Cardinality(Out(p, c)) + A = Cardinality(In(p, c)) + D
        BY <3>1, <3>3
      <4> HIDE DEF A, B, D
      <4> QED
        BY <3>2, <3>4, <4>1, <4>2, Sums
    <3> QED
      BY <1>1, <1>7, <3>5, <3>6
  <2> QED
    BY <1>3, <1>4, <1>5, <1>7, <2>1, <2>2, <2>3, <2>4 DEF ConfigAgrees
<1> QED
  BY <1>6, <1>7


\* A profile whose config and binding a migration leaves as they are.
LEMMA MigratesFrame ==
  ASSUME ConfigsAgree, ~spoiled, NEW w \in Workers, NEW p \in Profiles,
         UNCHANGED <<edited, repair>>, adrift \subseteq adrift',
         \A x \in Workers \ {w} : worker'[x] = worker[x],
         p \notin adrift' => EdgesAt(w, p)' = EdgesAt(w, p),
         config'[p] = config[p], p \in Bound' <=> p \in Bound,
         p \in Bound => bindings'[p] = bindings[p]
  PROVE  ConfigAgrees(p)'
<1>1. Clean(p)' => Clean(p) /\ p \notin adrift'
  BY DEF Clean
<1>2. Clean(p)' => SameEdges(p)
  BY <1>1, EdgesOther DEF SameEdges
<1>3. ConfigAgrees(p)
  BY DEF ConfigsAgree
<1> QED
  BY <1>1, <1>2, <1>3, ConfigFrame

\* A profile that the step leaves a mark on.
LEMMA MarkAgrees ==
  ASSUME NEW p \in Profiles, ~Clean(p)', p \in Bound' \/ config'[p].url \notin Ports
  PROVE  ConfigAgrees(p)'
BY DEF ConfigAgrees

LEMMA UnsureAgrees ==
  ASSUME Types, Migrations, Checked, ConfigsAgree, NEW w \in Workers, RenameUnsure(w), ~spoiled',
         NEW p \in Profiles
  PROVE  ConfigAgrees(p)'
<1>1. PICK s \in Due(w) :
        /\ Renamed(w, s)
        /\ IF At(w, "back") THEN GiveUp(w) ELSE RollBack(w) /\ adrift' = adrift \cup {s.p}
  BY DEF RenameUnsure
<1>2. Migrates(w) /\ worker[w].seen /\ UNCHANGED <<bindings, repair, edited>>
  BY DEF Migrates, RenameUnsure
<1>3. ~spoiled /\ config[s.p] = s.from
  BY <1>1, <1>2 DEF Renamed, Overtake, Checked
<1>4. /\ s \in worker[w].todo /\ s.p \in Profiles /\ s.from \in Hosted
      /\ worker[w].pc \in {"forth", "back"}
      /\ \A x \in Workers \ {w} : worker'[x] = worker[x]
      /\ adrift \subseteq adrift'
  <2>1. Stepping(w) /\ s \in worker[w].todo
    BY DueIs DEF Migrations
  <2>2. worker[w].pc \in {"forth", "back"}
    BY <2>1 DEF Stepping, NoSteps
  <2> QED
    BY <1>2, <2>1, <2>2, DueIs, MigratesIs, MigratesWorker
<1>5. CASE p = s.p
  <2>1. p \in Bound'
    <3>1. ConfigAgrees(p) /\ config[p].url \in Ports
      BY <1>3, <1>4, <1>5 DEF ConfigsAgree, Hosted
    <3> QED
      BY <1>2, <3>1 DEF ConfigAgrees, Bound
  <2>2. p \in adrift'
    <3>1. GiveUp(w) /\ At(w, "back") => s.p \in adrift'
      BY <1>4 DEF GiveUp
    <3> QED
      BY <1>1, <1>5, <3>1
  <2> QED
    BY <2>1, <2>2, MarkAgrees DEF Clean
<1>6. CASE p # s.p
  <2>1. config'[p] = config[p]
    BY <1>1, <1>6, RenamedIs
  <2>2. ASSUME p \notin adrift' PROVE EdgesAt(w, p)' = EdgesAt(w, p)
    <3>1. CASE At(w, "back")
      BY <1>1, <1>4, <2>2, <3>1, GiveUpEdges
    <3>2. CASE ~At(w, "back")
      <4>1. Edges(w) = worker[w].done
        BY <1>4, <3>2 DEF Edges, At
      <4> QED
        BY <1>1, <3>2, <4>1, RollBackEdges DEF EdgesAt
    <3> QED
      BY <3>1, <3>2
  <2> QED
    BY <1>2, <1>3, <1>4, <2>1, <2>2, MigratesFrame DEF Bound
<1> QED
  BY <1>5, <1>6

LEMMA CommitAgrees ==
  ASSUME Types, Migrations, ConfigsAgree, NEW w \in Workers, CommitBindings(w), ~spoiled,
         NEW p \in Profiles
  PROVE  ConfigAgrees(p)'
<1>1. Migrates(w) /\ At(w, "forth") /\ worker[w].todo = NoSteps
      /\ UNCHANGED <<config, repair, edited>> /\ worker[w].pc = "forth"
  BY DEF Migrates, CommitBindings, At
<1>2. /\ \A x \in Workers \ {w} : worker'[x] = worker[x]
      /\ adrift \subseteq adrift'
      /\ Moving(w)
  BY <1>1, MigratesIs, MigratesWorker DEF Migrations
<1>3. ConfigAgrees(p)
  BY DEF ConfigsAgree
<1>4. RollBack(w) => EdgesAt(w, p)' = EdgesAt(w, p)
  <2>1. Edges(w) = worker[w].done
    BY <1>1 DEF Edges, At
  <2> QED
    BY <2>1, RollBackEdges DEF EdgesAt
<1>5. CASE RollBack(w) /\ UNCHANGED <<bindings, rev, adrift>>
  BY <1>1, <1>2, <1>4, <1>5, MigratesFrame DEF Bound
<1>6. CASE Fits(worker[w].rev) /\ Put(worker[w].next)
  <2>1. worker[w].rev = rev /\ bindings' = worker[w].next
    BY <1>6 DEF Fits, Put
  <2>2. Bound = DOMAIN worker[w].next /\ Bound' = Bound
    BY <1>1, <1>2, <2>1 DEF Moving, Bound
  <2>3. CASE RollBack(w) /\ adrift' = adrift \cup DOMAIN worker[w].next
    <3>1. CASE p \in Bound
      BY <2>2, <2>3, <3>1, MarkAgrees DEF Clean
    <3>2. CASE p \notin Bound
      BY <1>1, <1>2, <1>4, <2>2, <2>3, <3>2, MigratesFrame
    <3> QED
      BY <3>1, <3>2
  <2>4. CASE /\ adrift' = adrift
             /\ To(w, [worker[w] EXCEPT !.pc = "state", !.rev = rev + 1])
    <3>1. worker'[w].pc = "state"
      <4>1. rev + 1 \in Nat /\ "state" \in Pcs
        BY DEF Pcs, Types, TypeOK
      <4> QED
        BY <2>4, <4>1, TurnIs
    <3>2. CASE p \notin Bound
      <4>1. SameEdges(p)
        BY <1>1, <1>2, <2>1, <2>2, <3>1, <3>2, CommitEdges
      <4>2. EdgesAt(w, p)' = EdgesAt(w, p)
        BY <4>1 DEF SameEdges
      <4> QED
        BY <1>1, <1>2, <2>2, <3>2, <4>2, MigratesFrame
    <3>3. CASE p \in Bound
      <4>1. PICK e \in Steps : /\ Loses(w, p, e) /\ e.from.note = e.to.note /\ e.from.root = e.to.root
                               /\ e.from = bindings[p].applied /\ e.to = worker[w].next[p].applied
        BY <1>1, <1>2, <2>1, <2>2, <3>1, <3>3, CommitEdges
      <4>2. bindings'[p].applied = e.to
        BY <2>1, <4>1
      <4>3. ASSUME Clean(p) PROVE Balanced(p)'
        <5> SUFFICES ASSUME NEW c \in Contents
                     PROVE  Cardinality(Out(p, c)') + One((p \in Bound /\ config[p] = c)')
                              = Cardinality(In(p, c)') + One((p \in Bound /\ bindings[p].applied = c)')
          BY DEF Balanced
        <5>1. Cardinality(Out(p, c)) + One(p \in Bound /\ config[p] = c)
                = Cardinality(In(p, c)) + One(p \in Bound /\ bindings[p].applied = c)
          BY <1>3, <4>3 DEF ConfigAgrees, Balanced
        <5> DEFINE A == One(e.to = c)
                   B == One(e.from = c)
                   D == One(config[p] = c)
        <5>2. One((p \in Bound /\ config[p] = c)') = D /\ One((p \in Bound /\ bindings[p].applied = c)') = A
          BY <1>1, <2>2, <3>3, <4>2 DEF One
        <5>3. One(p \in Bound /\ config[p] = c) = D /\ One(p \in Bound /\ bindings[p].applied = c) = B
          BY <3>3, <4>1 DEF One
        <5>4. A \in Nat /\ B \in Nat /\ D \in Nat
          BY DEF One
        <5>5. /\ Cardinality(Out(p, c)) = Cardinality(Out(p, c)') + B
              /\ Cardinality(In(p, c)) = Cardinality(In(p, c)') + A
              /\ Cardinality(Out(p, c)') \in Nat /\ Cardinality(In(p, c)') \in Nat
          BY <4>1, LoseCounts
        <5>6. Cardinality(Out(p, c)) + D = Cardinality(In(p, c)) + B
          BY <5>1, <5>3
        <5> HIDE DEF A, B, D
        <5> QED
          BY <5>2, <5>4, <5>5, <5>6, Sums
      <4>4. Clean(p)' <=> Clean(p)
        BY <1>1, <2>4 DEF Clean
      <4> QED
        BY <1>1, <1>3, <2>2, <3>3, <4>1, <4>2, <4>3, <4>4 DEF ConfigAgrees
    <3> QED
      BY <3>2, <3>3
  <2> QED
    BY <1>5, <2>3, <2>4 DEF CommitBindings
<1> QED
  BY <1>5, <1>6 DEF CommitBindings

LEMMA UndoAgrees ==
  ASSUME Types, Migrations, ConfigsAgree, NEW w \in Workers, UndoBindings(w), ~spoiled,
         NEW p \in Profiles
  PROVE  ConfigAgrees(p)'
<1>1. Migrates(w) /\ At(w, "unbind") /\ UNCHANGED <<config, repair, edited>> /\ worker[w].pc = "unbind"
  BY DEF Migrates, UndoBindings, At
<1>2. /\ \A x \in Workers \ {w} : worker'[x] = worker[x]
      /\ adrift \subseteq adrift'
      /\ Moving(w)
  BY <1>1, MigratesIs, MigratesWorker DEF Migrations
<1>3. ConfigAgrees(p)
  BY DEF ConfigsAgree
<1>4. CASE Fits(worker[w].rev) /\ Put(worker[w].old) /\ RollBack(w) /\ UNCHANGED adrift
  <2>1. worker[w].rev = rev /\ bindings' = worker[w].old
    BY <1>4 DEF Fits, Put
  <2>2. Bound = DOMAIN worker[w].next /\ Bound' = Bound
    BY <1>1, <1>2, <2>1 DEF Moving, Bound, At
  <2>3. CASE p \notin Bound
    <3>1. SameEdges(p)
      BY <1>1, <1>2, <1>4, <2>1, <2>2, <2>3, UndoEdges
    <3>2. EdgesAt(w, p)' = EdgesAt(w, p)
      BY <3>1 DEF SameEdges
    <3> QED
      BY <1>1, <1>2, <2>2, <2>3, <3>2, MigratesFrame
  <2>4. CASE p \in Bound
    <3>1. PICK e \in Steps : /\ Gains(w, p, e) /\ e.from.note = e.to.note /\ e.from.root = e.to.root
                             /\ e.to = bindings[p].applied /\ e.from = worker[w].old[p].applied
      BY <1>1, <1>2, <1>4, <2>1, <2>2, <2>4, UndoEdges
    <3>2. bindings'[p].applied = e.from
      BY <2>1, <3>1
    <3>3. ASSUME Clean(p) PROVE Balanced(p)'
      <4> SUFFICES ASSUME NEW c \in Contents
                   PROVE  Cardinality(Out(p, c)') + One((p \in Bound /\ config[p] = c)')
                            = Cardinality(In(p, c)') + One((p \in Bound /\ bindings[p].applied = c)')
        BY DEF Balanced
      <4>1. Cardinality(Out(p, c)) + One(p \in Bound /\ config[p] = c)
              = Cardinality(In(p, c)) + One(p \in Bound /\ bindings[p].applied = c)
        BY <1>3, <3>3 DEF ConfigAgrees, Balanced
      <4> DEFINE A == One(e.to = c)
                 B == One(e.from = c)
                 D == One(config[p] = c)
      <4>2. One((p \in Bound /\ config[p] = c)') = D /\ One((p \in Bound /\ bindings[p].applied = c)') = B
        BY <1>1, <2>2, <2>4, <3>2 DEF One
      <4>3. One(p \in Bound /\ config[p] = c) = D /\ One(p \in Bound /\ bindings[p].applied = c) = A
        BY <2>4, <3>1 DEF One
      <4>4. A \in Nat /\ B \in Nat /\ D \in Nat
        BY DEF One
      <4>5. /\ Cardinality(Out(p, c)') = Cardinality(Out(p, c)) + B
            /\ Cardinality(In(p, c)') = Cardinality(In(p, c)) + A
        BY <3>1, GainCounts
      <4>6. Cardinality(Out(p, c)) \in Nat /\ Cardinality(In(p, c)) \in Nat
        BY Counts
      <4>7. Cardinality(Out(p, c)) + D = Cardinality(In(p, c)) + A
        BY <4>1, <4>3
      <4> HIDE DEF A, B, D
      <4> QED
        BY <4>2, <4>4, <4>5, <4>6, <4>7, Sums
    <3>4. Clean(p)' <=> Clean(p)
      BY <1>1, <1>4 DEF Clean
    <3> QED
      BY <1>1, <1>3, <2>2, <2>4, <3>1, <3>2, <3>3, <3>4 DEF ConfigAgrees
  <2> QED
    BY <2>3, <2>4
<1>5. CASE worker'[w] = Free /\ adrift' = adrift \cup DOMAIN worker[w].next
  <2>1. EdgesAt(w, p)' = EdgesAt(w, p)
    <3>1. Edges(w)' = {} /\ Edges(w) = {}
      BY <1>1, <1>5, FreeIs, FreeEdges, EdgesAre
    <3> QED
      BY <3>1 DEF EdgesAt
  <2>2. CASE UNCHANGED <<bindings, rev>>
    BY <1>1, <1>2, <2>1, <2>2, MigratesFrame DEF Bound
  <2>3. CASE Fits(worker[w].rev) /\ Put(worker[w].old)
    <3>1. worker[w].rev = rev /\ bindings' = worker[w].old
      BY <2>3 DEF Fits, Put
    <3>2. Bound = DOMAIN worker[w].next /\ Bound' = Bound
      BY <1>1, <1>2, <3>1 DEF Moving, Bound, At
    <3>3. CASE p \in Bound
      BY <1>5, <3>2, <3>3, MarkAgrees DEF Clean
    <3>4. CASE p \notin Bound
      BY <1>1, <1>2, <2>1, <3>2, <3>4, MigratesFrame
    <3> QED
      BY <3>3, <3>4
  <2> QED
    BY <1>5, <2>2, <2>3 DEF UndoBindings
<1> QED
  BY <1>4, <1>5, ToIs DEF UndoBindings

LEMMA MigratesAgrees ==
  ASSUME Types, Migrations, Checked, ConfigsAgree, NEW w \in Workers, Migrates(w), ~spoiled',
         NEW p \in Profiles
  PROVE  ConfigAgrees(p)'
<1>1. /\ UNCHANGED <<repair, edited>> /\ adrift \subseteq adrift'
      /\ \A x \in Workers \ {w} : worker'[x] = worker[x]
  <2>1. UNCHANGED repair
    BY DEF Migrates, PlanPort, Prepare, CheckConfig, RenameConfig, RenameFails, RenameUnsure,
           CommitBindings, CommitPort, UndoBindings, RolledBack
  <2> QED
    BY <2>1, MigratesIs, MigratesWorker
<1>2. ~spoiled
  <2>1. spoiled' = spoiled \/ \E s \in Due(w) : Renamed(w, s)
    BY MigratesTouches
  <2> QED
    BY <2>1 DEF Renamed, Overtake
<1>3. ASSUME UNCHANGED <<config, bindings>>, p \notin adrift' => EdgesAt(w, p)' = EdgesAt(w, p)
      PROVE  ConfigAgrees(p)'
  BY <1>1, <1>2, <1>3, MigratesFrame DEF Bound
<1>4. ASSUME worker[w].pc \notin {"forth", "back"}, worker'[w].pc \notin {"forth", "back"}
      PROVE  EdgesAt(w, p)' = EdgesAt(w, p)
  <2>1. Edges(w)' = {} /\ Edges(w) = {}
    BY <1>4, FreeEdges, EdgesAre
  <2> QED
    BY <2>1 DEF EdgesAt
<1>5. CASE \E new \in Ports : PlanPort(w, new)
  <2>1. worker[w].pc = "free" /\ worker'[w].pc = "planned" /\ UNCHANGED <<config, bindings>>
    BY <1>5, PlanPortIs DEF PlanPort, At, disk
  <2> QED
    BY <1>3, <1>4, <2>1
<1>6. CASE Prepare(w)
  <2>1. worker[w].pc = "planned" /\ UNCHANGED <<config, bindings>>
    BY <1>6 DEF Prepare, At, disk
  <2>2. CASE worker'[w] = Free
    BY <1>3, <1>4, <2>1, <2>2, FreeIs
  <2>3. CASE worker'[w] # Free
    <3>1. worker'[w].pc = "forth" /\ worker'[w].done = NoSteps
      BY <1>6, <2>3, PrepareIs
    <3>2. Edges(w)' = {} /\ Edges(w) = {}
      BY <2>1, <3>1, EdgesAre DEF Edges, At, NoSteps
    <3> QED
      BY <1>3, <2>1, <3>2 DEF EdgesAt
  <2> QED
    BY <2>2, <2>3
<1>7. worker[w].todo # NoSteps \/ worker[w].seen => worker[w].pc \in {"forth", "back"}
  BY DEF Migrations, Stepping
<1>8. CASE CheckConfig(w)
  <2>1. UNCHANGED <<config, bindings>>
    BY <1>8 DEF CheckConfig, disk
  <2>2. PICK s : s \in Due(w)
    BY <1>8 DEF CheckConfig
  <2>3. worker[w].pc \in {"forth", "back"}
    BY <1>7, <2>2 DEF Due, NoSteps
  <2>4. CASE GiveUp(w)
    BY <1>3, <2>1, <2>3, <2>4, GiveUpEdges
  <2>5. CASE ~GiveUp(w)
    <3>1. /\ worker'[w].pc = worker[w].pc /\ worker'[w].todo = worker[w].todo
          /\ worker'[w].done = worker[w].done
      BY <1>8, <2>5, CheckIs
    <3>2. Edges(w)' = Edges(w)
      BY <3>1 DEF Edges, At
    <3> QED
      BY <1>3, <2>1, <3>2 DEF EdgesAt
  <2> QED
    BY <2>4, <2>5
<1>9. CASE RenameFails(w)
  <2>1. UNCHANGED <<config, bindings>> /\ GiveUp(w) /\ worker[w].seen
    BY <1>9 DEF RenameFails, disk
  <2> QED
    BY <1>3, <1>7, <2>1, GiveUpEdges
<1>10. CASE CommitPort(w)
  <2>1. worker[w].pc = "state" /\ UNCHANGED <<config, bindings>>
    BY <1>10 DEF CommitPort, At
  <2>2. worker'[w].pc \in {"free", "unbind"}
    BY <1>10, CommitPortIs, FreeIs
  <2> QED
    BY <1>3, <1>4, <2>1, <2>2
<1>11. CASE RolledBack(w)
  <2>1. At(w, "back") /\ worker[w].todo = NoSteps /\ worker'[w] = Free /\ UNCHANGED <<config, bindings>>
    BY <1>11, ToIs DEF RolledBack, disk
  <2>2. Edges(w) = {} /\ Edges(w)' = {}
    BY <2>1, FreeIs, FreeEdges DEF Edges, At, Undo, NoSteps
  <2> QED
    BY <1>3, <2>1, <2>2 DEF EdgesAt
<1> QED
  BY <1>2, <1>5, <1>6, <1>8, <1>9, <1>10, <1>11, RenameAgrees, UnsureAgrees, CommitAgrees, UndoAgrees
     DEF Migrates

\* A profile that a step of the others leaves as it is.
LEMMA OthersFrame ==
  ASSUME ConfigsAgree, ~spoiled, NEW p \in Profiles, worker' = worker, Clean(p)' => Clean(p),
         config'[p] = config[p], p \in Bound' <=> p \in Bound,
         p \in Bound => bindings'[p].applied = bindings[p].applied
  PROVE  ConfigAgrees(p)'
<1>1. SameEdges(p)
  BY EdgesOther DEF SameEdges
<1>2. ConfigAgrees(p)
  BY DEF ConfigsAgree
<1> QED
  BY <1>1, <1>2, ConfigFrame

\* A new binding settles what went before, unless a write may still be put back.
LEMMA SettledIs ==
  ASSUME Types, Migrations, NEW p \in Profiles, Settle(p), repair' = repair, Clean(p)'
  PROVE  Clean(p) \/ \A w \in Workers : EdgesAt(w, p) = {}
<1>1. CASE p \in UNION {Written(w) : w \in Workers}
  BY <1>1 DEF Settle, Clean
<1>2. CASE p \notin UNION {Written(w) : w \in Workers}
  BY <1>2, EdgesAre
<1> QED
  BY <1>1, <1>2

\* The config and the binding of a profile are replaced together.
LEMMA ReplacedAgrees ==
  ASSUME Types, Migrations, NEW p \in Profiles, ConfigAgrees(p), worker' = worker,
         Clean(p) /\ p \in Bound => config[p] = bindings[p].applied,
         Clean(p)' => Clean(p) \/ \A w \in Workers : EdgesAt(w, p) = {},
         p \in Bound' => config'[p] = bindings'[p].applied,
         p \notin Bound' => config'[p].url \notin Ports
  PROVE  ConfigAgrees(p)'
<1>1. SameEdges(p)
  BY EdgesOther DEF SameEdges
<1>2. ASSUME Clean(p)' PROVE Balanced(p)'
  <2>1. CASE Clean(p)
    <3>1. \A c \in Contents : Cardinality(Out(p, c)) = Cardinality(In(p, c))
      BY <2>1, EvenNow DEF ConfigAgrees
    <3> QED
      BY <1>1, <3>1, EvenNext
  <2>2. CASE \A w \in Workers : EdgesAt(w, p) = {}
    BY <1>1, <2>2, EvenNext
  <2> QED
    BY <1>2, <2>1, <2>2
<1> QED
  BY <1>2 DEF ConfigAgrees

LEMMA AttachedAgrees ==
  ASSUME Types, Migrations, Attaching, ConfigsAgree, ~spoiled, ExecuteAttach, NEW q \in Profiles
  PROVE  ConfigAgrees(q)'
<1>1. UNCHANGED <<worker, repair>>
  BY DEF ExecuteAttach
<1>2. CASE UNCHANGED <<config, bindings, rev, ghosts>>
  BY <1>1, <1>2, OthersFrame DEF Clean, Bound, ghosts
<1>3. CASE Attached
  <2> DEFINE p == attach.p
  <2>1. /\ p \in Profiles /\ config'[p] = AttachedAs
        /\ \A r \in Profiles \ {p} : config'[r] = config[r]
        /\ Bound' = Bound \cup {p} /\ bindings'[p] = BindingOf(AttachedAs)
        /\ \A r \in Bound \ {p} : bindings'[r] = bindings[r]
    BY <1>3, AttachedIs
  <2>2. CASE q = p
    <3>1. q \in Bound => config[q] = bindings[q].applied
      BY <1>3, <2>2 DEF Attached, Attaching
    <3>2. config'[q] = bindings'[q].applied /\ q \in Bound'
      BY <2>1, <2>2, BindingIs
    <3>3. Clean(q)' => Clean(q) \/ \A w \in Workers : EdgesAt(w, q) = {}
      <4>1. Settle(q)
        BY <1>3, <2>2 DEF Attached
      <4> QED
        BY <1>1, <4>1, SettledIs
    <3> QED
      BY <1>1, <3>1, <3>2, <3>3, ReplacedAgrees DEF ConfigsAgree
  <2>3. CASE q # p
    <3>1. Clean(q)' => Clean(q)
      BY <1>1, <1>3, <2>3 DEF Clean, Attached, Settle
    <3> QED
      BY <1>1, <2>1, <2>3, <3>1, OthersFrame
  <2> QED
    BY <2>2, <2>3
<1> QED
  BY <1>2, <1>3, ExecuteIs

LEMMA DetachAgrees ==
  ASSUME Types, Migrations, ConfigsAgree, ~spoiled, NEW p \in Profiles, Detach(p), NEW q \in Profiles
  PROVE  ConfigAgrees(q)'
<1>1. UNCHANGED <<worker, repair>> /\ Settle(p)
  BY DEF Detach
<1>2. /\ p \in Bound /\ Owns(p) /\ config'[p].url = NoUrl
      /\ \A r \in Profiles \ {p} : config'[r] = config[r]
      /\ Bound' = Bound \ {p} /\ \A r \in Bound \ {p} : bindings'[r] = bindings[r]
  BY DetachIs
<1>3. CASE q = p
  <2>1. ASSUME Clean(p) PROVE config[p] = bindings[p].applied
    <3>1. PICK a : a = bindings[p].applied
      OBVIOUS
    <3>2. /\ a \in Contents /\ config[p] \in Contents
          /\ bindings[p].url = a.url /\ bindings[p].root = a.root
      BY <1>2, <3>1, BindingIs DEF Types, TypeOK
    <3>3. config[p].url = a.url /\ config[p].root = a.root /\ config[p].note = a.note
      BY <1>2, <2>1, <3>1, <3>2 DEF ConfigsAgree, ConfigAgrees, Owns
    <3> QED
      BY <3>1, <3>2, <3>3 DEF Contents
  <2>2. Clean(p)' => Clean(p) \/ \A w \in Workers : EdgesAt(w, p) = {}
    BY <1>1, SettledIs
  <2>3. NoUrl \notin Ports
    BY PortsAssumption
  <2> QED
    BY <1>1, <1>2, <1>3, <2>1, <2>2, <2>3, ReplacedAgrees DEF ConfigsAgree
<1>4. CASE q # p
  <2>1. Clean(q)' => Clean(q)
    BY <1>1, <1>4 DEF Clean, Settle
  <2> QED
    BY <1>1, <1>2, <1>4, <2>1, OthersFrame
<1> QED
  BY <1>3, <1>4

LEMMA EditAgrees ==
  ASSUME Types, Migrations, ConfigsAgree, ~spoiled, NEW p \in Profiles, Edit(p), NEW q \in Profiles
  PROVE  ConfigAgrees(q)'
<1>1. UNCHANGED <<worker, repair, bindings, adrift>>
      /\ edited' = IF p \in Bound THEN edited \cup {p} ELSE edited
  BY DEF Edit
<1>2. /\ config'[p].url \in {config[p].url, Foreign}
      /\ \A r \in Profiles \ {p} : config'[r] = config[r]
  BY EditIs
<1>3. Bound' = Bound /\ (Clean(q)' => Clean(q))
  BY <1>1 DEF Bound, Clean
<1>4. CASE q # p
  BY <1>1, <1>2, <1>3, <1>4, OthersFrame
<1>5. CASE q = p /\ p \in Bound
  BY <1>1, <1>3, <1>5, MarkAgrees DEF Clean
<1>6. CASE q = p /\ p \notin Bound
  <2>1. Foreign \notin Ports /\ config[p].url \notin Ports
    BY <1>6, PortsAssumption DEF ConfigsAgree, ConfigAgrees
  <2> QED
    BY <1>1, <1>2, <1>3, <1>6, <2>1, ReplacedAgrees DEF ConfigsAgree
<1> QED
  BY <1>4, <1>5, <1>6

LEMMA RepairConfigAgrees ==
  ASSUME Types, Migrations, Repairing, ConfigsAgree, ~spoiled, RepairConfig, NEW q \in Profiles
  PROVE  ConfigAgrees(q)'
<1>1. UNCHANGED <<worker, bindings, edited, adrift>>
  BY DEF RepairConfig, ghosts
<1>2. CASE config' = config /\ repair'.changed = repair.changed
  BY <1>1, <1>2, OthersFrame DEF Clean, Bound
<1>3. ASSUME NEW p \in Bound, \A r \in Profiles \ {p} : config'[r] = config[r],
             repair'.changed = repair.changed \cup {p}
      PROVE  ConfigAgrees(q)'
  <2>1. CASE q = p
    BY <1>1, <1>3, <2>1, MarkAgrees DEF Clean, Bound
  <2>2. CASE q # p
    BY <1>1, <1>3, <2>2, OthersFrame DEF Clean, Bound
  <2> QED
    BY <2>1, <2>2
<1> QED
  BY <1>2, <1>3, RepairConfigIs

LEMMA RepairEndsAgrees ==
  ASSUME Types, Migrations, Repairing, ConfigsAgree, ~spoiled, RepairEnds, NEW q \in Profiles
  PROVE  ConfigAgrees(q)'
<1>1. /\ UNCHANGED <<worker, config, edited>> /\ adrift \subseteq adrift' /\ repair' = NoRepair
      /\ repair.on
  BY DEF RepairEnds
<1>2. /\ \A w \in Workers : At(w, "free")
      /\ DOMAIN repair.next = Bound
      /\ \A p \in Bound \ repair.changed : repair.next[p] = bindings[p]
      /\ \A p \in Bound \cap repair.changed : p \in edited \/ config[p] = repair.next[p].applied
  BY <1>1 DEF Repairing
<1>3. Bound' = Bound /\ (bindings' = bindings \/ bindings' = repair.next)
  BY <1>2 DEF RepairEnds, Put, Bound
<1>4. ConfigAgrees(q)
  BY DEF ConfigsAgree
<1>5. CASE q \notin repair.changed
  <2>1. Clean(q)' => Clean(q)
    BY <1>1, <1>5 DEF Clean
  <2>2. q \in Bound => bindings'[q].applied = bindings[q].applied
    BY <1>2, <1>3, <1>5
  <2> QED
    BY <1>1, <1>3, <2>1, <2>2, OthersFrame
<1>6. CASE q \in repair.changed
  <2>1. \A w \in Workers : EdgesAt(w, q) = {}
    <3>1. \A w \in Workers : Edges(w) = {}
      BY <1>2, EdgesAre DEF At
    <3> QED
      BY <3>1 DEF EdgesAt
  <2>2. CASE q \in Bound /\ (q \in edited \/ adrift' = adrift \cup repair.changed)
    BY <1>1, <1>3, <1>6, <2>2, MarkAgrees DEF Clean
  <2>3. CASE q \in Bound /\ q \notin edited /\ bindings' = repair.next
    <3>1. config'[q] = bindings'[q].applied
      BY <1>1, <1>2, <1>6, <2>3
    <3>2. ~Clean(q)
      BY <1>6 DEF Clean
    <3> QED
      BY <1>1, <1>3, <1>4, <2>1, <2>3, <3>1, <3>2, ReplacedAgrees
  <2>4. CASE q \notin Bound
    <3>1. ~Clean(q) /\ config'[q].url \notin Ports
      BY <1>1, <1>4, <1>6, <2>4 DEF Clean, ConfigAgrees
    <3> QED
      BY <1>1, <1>3, <1>4, <2>1, <2>4, <3>1, ReplacedAgrees
  <2>5. adrift' = adrift \cup repair.changed \/ bindings' = repair.next
    BY <1>6 DEF RepairEnds, Put
  <2> QED
    BY <2>2, <2>3, <2>4, <2>5
<1> QED
  BY <1>5, <1>6

LEMMA DiesAgrees ==
  ASSUME Types, Migrations, ConfigsAgree, ~spoiled, Dies, NEW q \in Profiles
  PROVE  ConfigAgrees(q)'
<1>1. /\ UNCHANGED <<config, bindings, edited>> /\ \A w \in Workers : worker'[w] = Free
      /\ adrift \subseteq adrift' /\ repair.changed \subseteq adrift'
      /\ \A w \in Workers : Unfinished(w) \subseteq adrift'
  BY DEF Dies, disk
<1>2. Clean(q)' => Clean(q) /\ q \notin adrift'
  BY <1>1 DEF Clean
<1>3. ASSUME q \notin adrift' PROVE SameEdges(q)
  <2>1. \A w \in Workers : EdgesAt(w, q) = {}
    BY <1>1, <1>3, UnfinishedIs, EdgesAre
  <2>2. \A w \in Workers : Edges(w)' = {}
    BY <1>1, FreeIs, FreeEdges
  <2> QED
    BY <2>1, <2>2 DEF SameEdges, EdgesAt
<1> QED
  BY <1>1, <1>2, <1>3, ConfigFrame DEF Bound, ConfigsAgree

LEMMA OthersAgree ==
  ASSUME Types, Migrations, Attaching, Repairing, ConfigsAgree, Others, ~spoiled', NEW q \in Profiles
  PROVE  ConfigAgrees(q)'
<1>1. ~spoiled
  BY ExecuteIs DEF Others, PlanAttach, Detach, Edit, Start, RepairConfig, RepairEnds, OtherCommit, Dies,
                   Attached, Overtake, ghosts
<1>2. CASE (\E p \in Profiles : PlanAttach(p)) \/ OtherCommit
  BY <1>1, <1>2, OthersFrame DEF PlanAttach, OtherCommit, Clean, Bound, disk, ghosts
<1>3. CASE Start
  <2>1. repair.changed = {} /\ repair'.changed = {}
    BY <1>3 DEF Start, Repairing
  <2> QED
    BY <1>1, <1>3, <2>1, OthersFrame DEF Start, Clean, Bound, ghosts
<1> QED
  BY <1>1, <1>2, <1>3, AttachedAgrees, DetachAgrees, EditAgrees, RepairConfigAgrees, RepairEndsAgrees,
     DiesAgrees DEF Others

LEMMA ConfigsStay ==
  ASSUME Types, Migrations, Attaching, Repairing, Checked, ConfigsAgree, Next
  PROVE  ConfigsAgree'
<1> SUFFICES ASSUME ~spoiled', NEW p \in Profiles PROVE ConfigAgrees(p)'
  BY DEF ConfigsAgree
<1> QED
  BY NextIs, MigratesAgrees, OthersAgree

-----------------------------------------------------------------------------
(* The start *)

LEMMA InitHolds == Init => IInv
<1> SUFFICES ASSUME Init PROVE IInv
  OBVIOUS
<1>1. PICK start \in Ports, S \in SUBSET Profiles :
       /\ port = start
       /\ config = [p \in Profiles |-> [url |-> IF p \in S THEN start ELSE NoUrl,
                                        root |-> IF p \in S THEN 1 ELSE 0, note |-> 0]]
       /\ bindings = [p \in S |-> BindingOf([url |-> start, root |-> 1, note |-> 0])]
  BY DEF Init
<1>2. /\ rev = 0 /\ portRev = 0 /\ root = 1
      /\ attach = NoAttach /\ repair = NoRepair /\ up = FALSE
      /\ used = [ops |-> 0, others |-> 0, faults |-> 0]
      /\ edited = {} /\ adrift = {} /\ crossed = {} /\ spoiled = FALSE
      /\ \A w \in Workers : worker[w] = Free
      /\ DOMAIN worker = Workers
  BY DEF Init
<1>3. MaxOthers \in Nat
  BY Bounds
<1>4. PICK c : c = [url |-> start, root |-> 1, note |-> 0]
  OBVIOUS
<1>5. PICK d : d = [url |-> NoUrl, root |-> 0, note |-> 0]
  OBVIOUS
<1>6. c \in Hosted /\ c \in Contents /\ d \in Contents /\ c.note = 0 /\ d.note = 0 /\ d.url = NoUrl
  BY <1>3, <1>4, <1>5 DEF Contents, Hosted
<1>7. \A p \in Profiles : config[p] = IF p \in S THEN c ELSE d
  BY <1>1, <1>4, <1>5
<1>8. DOMAIN config = Profiles /\ config = [p \in Profiles |-> config[p]] /\ Bound = S
  BY <1>1 DEF Bound
<1>9. \A p \in S : bindings[p] = BindingOf(c)
  BY <1>1, <1>4
<1>10. IsTable(bindings)
  BY <1>6, <1>8, <1>9, BindingIs DEF IsTable, Bound
<1>11. \A w \in Workers : WorkerType(worker[w]) /\ Planned(w) /\ Stepping(w) /\ Moving(w)
  <2> SUFFICES ASSUME NEW w \in Workers
               PROVE  WorkerType(worker[w]) /\ Planned(w) /\ Stepping(w) /\ Moving(w)
    OBVIOUS
  <2>1. worker[w] = Free
    BY <1>2
  <2> QED
    BY <2>1 DEF Free, WorkerType, Planned, Stepping, Moving, At, Pcs, NoSteps
<1>12. Types
  <2>1. config \in [Profiles -> Contents]
    BY <1>6, <1>7, <1>8
  <2>2. TypeOK
    BY <1>1, <1>2, <1>6, <1>8, <1>9, <2>1, BindingIs DEF TypeOK
  <2>3. used \in [ops : Nat, others : 0..MaxOthers, faults : Nat]
    BY <1>2, <1>3
  <2>4. \A p \in Profiles : config[p].note <= used.others
    BY <1>2, <1>6, <1>7
  <2> QED
    BY <1>2, <1>10, <1>11, <2>2, <2>3, <2>4 DEF Types
<1>13. Attaching /\ Repairing /\ Checked
  <2>1. \A w \in Workers : At(w, "free") /\ ~worker[w].seen
    BY <1>2 DEF At, Free
  <2> QED
    BY <1>2, <2>1 DEF Attaching, Repairing, Checked, NoRepair
<1>14. PortsAgree
  <2>1. \A w \in Workers : worker[w].pc = "free"
    BY <1>2 DEF Free
  <2>2. \A p \in S : bindings[p].url = port
    BY <1>1, <1>4, <1>9, BindingIs
  <2> QED
    BY <1>2, <1>8, <2>1, <2>2
       DEF PortsAgree, BetweenAgree, StoredAgree, MovesAgree, MoveAgrees, AttachAgrees, Between, At, Sound
<1>15. ASSUME NEW p \in Profiles PROVE ConfigAgrees(p)
  <2>1. \A w \in Workers : EdgesAt(w, p) = {}
    <3>1. \A w \in Workers : worker[w].pc = "free"
      BY <1>2 DEF Free
    <3> QED
      BY <3>1 DEF EdgesAt, Edges, At, NoSteps
  <2>2. \A e : Out(p, e) = {} /\ In(p, e) = {}
    BY <2>1, Counts
  <2>3. p \in Bound => config[p] = bindings[p].applied
    BY <1>7, <1>8, <1>9, BindingIs
  <2>4. Balanced(p)
    BY <2>2, <2>3 DEF Balanced
  <2>5. p \notin Bound => config[p].url \notin Ports
    BY <1>6, <1>7, <1>8, PortsAssumption
  <2> QED
    BY <2>3, <2>4, <2>5 DEF ConfigAgrees
<1> QED
  BY <1>11, <1>12, <1>13, <1>14, <1>15 DEF IInv, Migrations, ConfigsAgree

-----------------------------------------------------------------------------
(* The steps, and what they add up to *)

LEMMA NextHolds == IInv /\ Next => IInv'
<1> SUFFICES ASSUME Types, Migrations, Attaching, Repairing, Checked, PortsAgree, ConfigsAgree, Next
             PROVE  IInv'
  BY DEF IInv
<1>1. Onwards
  BY Advances
<1>2. Types'
  BY NextIs, MigratesTypes, OthersTypes
<1>3. Migrations'
  BY <1>1, <1>2, NextIs, MigratesStays, OthersStay
<1>4. Attaching' /\ Repairing' /\ Checked'
  BY <1>1, <1>2, AttachingStays, RepairingStays, CheckedStays
<1>5. PortsAgree' /\ ConfigsAgree'
  BY <1>2, PortsStay, ConfigsStay
<1> QED
  BY <1>2, <1>3, <1>4, <1>5 DEF IInv

LEMMA StepHolds == IInv /\ [Next]_vars => IInv'
<1>1. CASE Next
  BY <1>1, NextHolds
<1>2. CASE UNCHANGED vars
  <2>1. /\ UNCHANGED <<config, bindings, rev, port, portRev, root>>
        /\ UNCHANGED <<worker, attach, repair, up, used, edited, adrift, crossed, spoiled>>
    BY <1>2 DEF vars, disk, ghosts
  <2>2. Types => Types'
    BY <2>1 DEF Types, TypeOK, Bound
  <2>3. Migrations => Migrations'
    BY <2>1 DEF Migrations, Planned, Stepping, Moving, At
  <2>4. (Attaching => Attaching') /\ (Repairing => Repairing')
    BY <2>1 DEF Attaching, Repairing, Bound, At
  <2>5. Checked => Checked'
    BY <2>1 DEF Checked, Due, At
  <2>6. PortsAgree => PortsAgree'
    BY <2>1 DEF PortsAgree, BetweenAgree, StoredAgree, MovesAgree, MoveAgrees, AttachAgrees, Between, Sound,
                Bound, At
  <2>7. Types /\ Migrations /\ ConfigsAgree => ConfigsAgree'
    <3> SUFFICES ASSUME ConfigsAgree, ~spoiled, NEW p \in Profiles PROVE ConfigAgrees(p)'
      BY <2>1 DEF ConfigsAgree
    <3> QED
      BY <2>1, OthersFrame DEF Clean, Bound
  <2> QED
    BY <2>2, <2>3, <2>4, <2>5, <2>6, <2>7 DEF IInv
<1> QED
  BY <1>1, <1>2

\* When nothing is under way there is nothing left that may be put back.
LEMMA WholeHolds == IInv => MigrationIsWhole
<1> SUFFICES ASSUME IInv, Quiet, ~spoiled, NEW p \in Bound \ adrift
             PROVE  /\ p \notin crossed => bindings[p].url = port
                    /\ p \notin edited => config[p] = bindings[p].applied
  BY DEF MigrationIsWhole, IInv, Types
<1>1. Types /\ Migrations /\ Repairing /\ PortsAgree /\ ConfigsAgree
  BY DEF IInv
<1>2. \A w \in Workers : worker[w].pc \in {"free", "planned"}
  BY DEF Quiet
<1>3. ASSUME p \notin crossed PROVE bindings[p].url = port
  <2>1. Between = {} /\ p \in Sound
    BY <1>2, <1>3 DEF Between, At, Sound
  <2> QED
    BY <1>1, <1>2, <2>1 DEF PortsAgree, StoredAgree, At
<1>4. ASSUME p \notin edited PROVE config[p] = bindings[p].applied
  <2>1. \A w \in Workers : EdgesAt(w, p) = {}
    BY <1>2 DEF EdgesAt, Edges, At, NoSteps
  <2>2. p \in Profiles /\ Clean(p)
    BY <1>1, <1>4 DEF Repairing, Quiet, Clean, Types, TypeOK
  <2>3. Balanced(p)
    BY <1>1, <2>2 DEF ConfigsAgree, ConfigAgrees
  <2> QED
    BY <1>1, <2>1, <2>2, <2>3, Unwritten
<1> QED
  BY <1>3, <1>4

\* Every reachable state is one of the invariant, whatever the profiles, the
\* ports, the bounds and the number of migrations that overlap
\* (provider_api_v2.rs, the port migration and its rollback).
THEOREM IInvHolds == Spec => []IInv
<1>1. Init => IInv
  BY InitHolds
<1>2. IInv /\ [Next]_vars => IInv'
  BY StepHolds
<1> QED
  BY <1>1, <1>2, PTL DEF Spec

\* Whatever overlaps, fails or is put back: when no migration and no repair is
\* under way, the bindings are on the stable port and have the hashes of their
\* configs, but for the profiles that MigrationIsWhole leaves out.
THEOREM MigrationsAreWhole == Spec => []MigrationIsWhole
<1>1. IInv => MigrationIsWhole
  BY WholeHolds
<1> QED
  BY <1>1, IInvHolds, PTL

\* No migration, rollback or repair writes over what the user has put into a
\* config since it was read (replace_config_file compares the hash first).
THEOREM EditsAreKept == Spec => EditsSurvive
<1>1. IInv /\ [Next]_vars => [\A p \in Profiles : config'[p].note >= config[p].note \/ spoiled']_vars
  <2>1. ASSUME IInv, Next PROVE \A p \in Profiles : config'[p].note >= config[p].note \/ spoiled'
    BY <2>1, EditsStay DEF IInv
  <2> QED
    BY <2>1
<1> QED
  BY <1>1, IInvHolds, PTL DEF Spec, EditsSurvive
===============================================================================
