--------------------------- MODULE ApiAccountProofs ---------------------------
(***************************************************************************)
(* A reported success is whole, a record is cleared only when its operation *)
(* is over, and no compensation and no recovery removes a conversation that *)
(* was there when it looked, for any accounts, operations, launches,        *)
(* failures and crashes.                                                    *)
(***************************************************************************)
EXTENDS ApiAccount, TLAPS

Workers == {"app", "lam"}
Resting == {"idle", "down", "off"}
Creating == {"home", "marker", "wrapper", "config", "key", "provider", "attach", "catalog",
             "undo provider", "undo account", "undo home", "undo wrapper"}
Deleting == {"detach", "stop", "remove", "verify", "release", "restore"}
Ending == {"done", "clear"}

Records == [id : Nat \ {0}, kind : {"create", "delete"}, account : Accounts,
            provider : Providers, exclusive : BOOLEAN]

Processes == [at : Resting \cup Creating \cup Deleting \cup Ending \cup Recovering,
              rec : Records \cup {NoRecord}, made : BOOLEAN, todo : SUBSET Records]

\* A process that works has a record, and one of the kind of its work.
Employed(k) ==
  /\ k \in Processes
  /\ k.at \notin Resting \cup {"look"} => k.rec \in Records
  /\ k.at \in Creating => k.rec.kind = "create"
  /\ k.at \in Deleting => k.rec.kind = "delete"

StoresOK ==
  /\ home \in [Accounts -> SUBSET Files]
  /\ wrapper \subseteq Accounts /\ live \subseteq Accounts
  /\ providers \subseteq Providers
  /\ binding \in [Accounts -> Providers \cup {None}]

Types ==
  /\ StoresOK
  /\ journal \subseteq Records
  /\ proc \in [Workers -> Processes] /\ \A w \in Workers : Employed(proc[w])
  /\ proc["app"].at # "off" /\ proc["lam"].at \in Recovering \cup {"off"}
  /\ used \in [ops : Nat, faults : Nat, launches : Nat, writes : Nat]
  /\ raced \in BOOLEAN

\* An id names one record, wherever it is known, and a new id names none yet.
Known == journal \cup UNION {proc[w].todo \cup {proc[w].rec} : w \in Workers}
OneOfEach ==
  /\ \A r, q \in Known : r.id = q.id => r = q
  /\ \A r \in Known : r.id <= used.ops

\* An exclusive Provider that is not there.
NotThere(r) == r.exclusive => r.provider \notin providers

\* What holds of the stores at each step of a creation, ...
Created(k) ==
  LET r == k.rec
      a == r.account IN
  /\ k.at \in {"wrapper", "config", "key", "provider", "attach", "catalog"} =>
       "marker" \in home[a]
  /\ k.at \in {"key", "provider", "attach", "catalog"} => "config" \in home[a]
  /\ k.at \in {"home", "marker", "wrapper", "config", "key", "provider",
               "undo account", "undo home", "undo wrapper"} => NotThere(r)
  /\ k.at \in {"attach", "catalog"} => (r.exclusive => k.made)
  /\ k.at = "catalog" => binding[a] = r.provider /\ Ready(r.provider)

\* ... of a deletion, ...
Deleted(k) ==
  LET r == k.rec
      a == r.account IN
  /\ k.at = "detach" => binding[a] # None
  /\ k.at \in {"stop", "remove", "verify", "release"} => binding[a] = None
  /\ k.at \in {"verify", "release"} => ~Managed(a)
  /\ k.at = "release" => a \notin wrapper

\* ... at the end of both, ...
Ended(k) ==
  LET r == k.rec
      a == r.account IN
  /\ k.at = "done" /\ r.kind = "create" =>
       {"marker", "config"} \subseteq home[a] /\ binding[a] = r.provider /\ Ready(r.provider)
  /\ k.at = "done" /\ r.kind = "delete" =>
       /\ binding[a] = None /\ ~Managed(a) /\ a \notin wrapper
       /\ r.exclusive /\ r.provider \in providers => UsedBy(r.provider) # {}
  /\ k.at = "clear" => Settled(r)

\* ... and of a recovery.
Recovery(k) ==
  LET r == k.rec
      a == r.account IN
  /\ k.at = "drop" => (r.kind = "delete" => ~(Managed(a) /\ "config" \in home[a]))
  /\ k.at \in {"roll back", "clear home", "unwrap"} => r.kind = "create" /\ NotThere(r)
  /\ k.at = "forget" => Settled(r)

Progress(k) == Created(k) /\ Deleted(k) /\ Ended(k) /\ Recovery(k)

\* As long as the processes have not met, one at a time works on the journal
\* and finds everything as it left it.
Alone ==
  ~raced => /\ \E w \in Workers : proc[w].at \in Resting
            /\ \A w \in Workers : Progress(proc[w])

IInv == Types /\ OneOfEach /\ Alone

-----------------------------------------------------------------------------
(* How a step moves a process *)

Same(w) ==
  /\ \A v \in Workers \ {w} : proc'[v] = proc[v]
  /\ proc' = [proc EXCEPT ![w] = proc'[w]]
Moves(w, at) == Same(w) /\ proc'[w] = [proc[w] EXCEPT !.at = at]
Ends(w) == Same(w) /\ \E at \in Resting : proc'[w] = Process(at) /\ (at = "off" <=> w = "lam")

LEMMA GoMoves ==
  ASSUME Types, NEW w \in Workers, NEW at, Go(w, at)
  PROVE  Moves(w, at)
BY DEF Types, Go, Moves, Same

\* A process that has ended, and one that goes on, has the record of its work.
LEMMA EndedIsEmployed ==
  ASSUME NEW at \in Resting \cup {"look"}
  PROVE  Employed(Process(at)) /\ Process(at).at = at /\ Process(at).rec = NoRecord
         /\ Process(at).todo = {}
<1>1. Process(at).at = at /\ Process(at).rec = NoRecord /\ Process(at).todo = {}
  BY DEF Process
<1>2. Process(at) \in Processes
  BY DEF Process, Processes, Recovering
<1>3. at \notin Creating \cup Deleting
  BY DEF Resting, Creating, Deleting
<1> QED
  BY <1>1, <1>2, <1>3 DEF Employed

LEMMA AbandonEnds ==
  ASSUME Types, NEW w \in Workers, Abandon(w)
  PROVE  Ends(w)
<1>1. proc \in [Workers -> Processes]
  BY DEF Types
<1>2. PICK at : at = IF w = "lam" THEN "off" ELSE IF proc[w].at \in Recovering THEN "down" ELSE "idle"
  OBVIOUS
<1>3. proc' = [proc EXCEPT ![w] = Process(at)]
  BY <1>1, <1>2 DEF Abandon
<1>4. at \in Resting /\ (at = "off" <=> w = "lam")
  BY <1>2 DEF Workers, Resting
<1> QED
  BY <1>1, <1>3, <1>4 DEF Ends, Same

LEMMA FaultUses ==
  ASSUME Types, Fault \/ UNCHANGED used
  PROVE  /\ used' \in [ops : Nat, faults : Nat, launches : Nat, writes : Nat]
         /\ used'.ops = used.ops
BY DEF Types, Fault, Use

\* What is known after a step was known before it.
LEMMA KnownStays ==
  ASSUME Types, OneOfEach, NEW w \in Workers, Same(w), journal' \subseteq journal,
         proc'[w].rec \in {proc[w].rec, NoRecord} \cup proc[w].todo,
         proc'[w].todo \subseteq proc[w].todo \cup journal,
         used'.ops \in Nat, used'.ops >= used.ops
  PROVE  OneOfEach'
<1>1. Known' \subseteq Known \cup {NoRecord}
  <2>1. \A v \in Workers \ {w} : proc'[v].todo \cup {proc'[v].rec} \subseteq Known
    BY DEF Same, Known
  <2>2. proc'[w].todo \cup {proc'[w].rec} \subseteq Known \cup {NoRecord}
    BY DEF Known
  <2> QED
    BY <2>1, <2>2 DEF Known
<1>2. \A r \in Known : r \in Records \cup {NoRecord}
  BY DEF Types, Known, Employed, Processes
<1>3. \A r \in Records : r.id \in Nat /\ r.id # 0
  BY DEF Records
<1>4. NoRecord.id = 0
  BY DEF NoRecord
<1>5. \A r, q \in Known \cup {NoRecord} : r.id = q.id => r = q
  BY <1>2, <1>3, <1>4 DEF OneOfEach
<1>6. used.ops \in Nat
  BY DEF Types
<1>7. \A r \in Known \cup {NoRecord} : r.id <= used'.ops
  BY <1>2, <1>3, <1>4, <1>6 DEF OneOfEach
<1> QED
  BY <1>1, <1>5, <1>7 DEF OneOfEach

\* Of a process that rests nothing is said.
LEMMA RestingProgress ==
  ASSUME NEW k, k.at \in Resting \cup {"look"}
  PROVE  Progress(k)
BY DEF Progress, Created, Deleted, Ended, Recovery, Resting

\* A step of a process that works, or begins to recover.
LEMMA WorkStep ==
  ASSUME IInv, NEW w \in Workers, proc[w].at \notin Resting, Same(w),
         StoresOK', journal' \subseteq journal, UNCHANGED raced, Fault \/ UNCHANGED used,
         Employed(proc'[w]),
         w = "app" => proc'[w].at # "off",
         w = "lam" => proc'[w].at \in Recovering \cup {"off"},
         proc'[w].rec \in {proc[w].rec, NoRecord} \cup proc[w].todo,
         proc'[w].todo \subseteq proc[w].todo,
         ~raced => Progress(proc[w])'
  PROVE  IInv'
<1>1. Types'
  <2>1. used' \in [ops : Nat, faults : Nat, launches : Nat, writes : Nat]
    BY FaultUses DEF IInv
  <2>2. \A v \in Workers : Employed(proc'[v])
    BY DEF IInv, Types, Same
  <2>3. proc'["app"].at # "off" /\ proc'["lam"].at \in Recovering \cup {"off"}
    BY DEF IInv, Types, Same, Workers
  <2>4. journal' \subseteq Records /\ raced' \in BOOLEAN
    BY DEF IInv, Types
  <2>5. proc' \in [Workers -> Processes]
    BY DEF IInv, Types, Same, Employed
  <2> QED
    BY <2>1, <2>2, <2>3, <2>4, <2>5 DEF Types
<1>2. OneOfEach'
  <2>1. used'.ops = used.ops /\ used.ops \in Nat
    BY FaultUses DEF IInv, Types
  <2> QED
    BY <2>1, KnownStays DEF IInv
<1>3. ASSUME ~raced
      PROVE  /\ \E v \in Workers : proc'[v].at \in Resting
             /\ \A v \in Workers : Progress(proc[v])'
  <2>1. PICK v \in Workers : proc[v].at \in Resting
    BY <1>3 DEF IInv, Alone
  <2>2. v # w /\ proc'[v] = proc[v]
    BY <2>1 DEF Same
  <2>3. \A u \in Workers : u = v \/ u = w
    BY <2>2 DEF Workers
  <2>4. Progress(proc[v])'
    BY <2>1, <2>2 DEF Progress, Created, Deleted, Ended, Recovery, Resting
  <2> QED
    BY <1>3, <2>1, <2>2, <2>3, <2>4
<1> QED
  BY <1>1, <1>2, <1>3 DEF IInv, Alone

\* It goes on at another step of its work ...
LEMMA MoveInv ==
  ASSUME IInv, NEW w \in Workers, NEW at, Moves(w, at),
         proc[w].at \notin Resting \cup {"look"},
         at \in Creating \cup Deleting \cup Ending \cup Recovering, w = "lam" => at \in Recovering,
         at \in Creating => proc[w].rec.kind = "create",
         at \in Deleting => proc[w].rec.kind = "delete",
         StoresOK', UNCHANGED <<journal, raced>>, Fault \/ UNCHANGED used,
         ~raced => Progress(proc[w])'
  PROVE  IInv'
<1>1. proc[w] \in Processes /\ proc[w].rec \in Records /\ proc \in [Workers -> Processes]
  BY DEF IInv, Types, Employed
<1>2. /\ proc'[w].at = at /\ proc'[w].rec = proc[w].rec /\ proc'[w].todo = proc[w].todo
      /\ proc'[w] \in Processes
  BY <1>1 DEF Moves, Processes
<1>3. Employed(proc'[w])
  BY <1>1, <1>2 DEF Employed
<1>4. at # "off" /\ Same(w)
  BY DEF Moves, Creating, Deleting, Ending, Recovering
<1> QED
  BY <1>1, <1>2, <1>3, <1>4, WorkStep

\* ... or ends.
LEMMA EndInv ==
  ASSUME IInv, NEW w \in Workers, Ends(w), proc[w].at \notin Resting,
         StoresOK', journal' \subseteq journal, UNCHANGED raced, Fault \/ UNCHANGED used
  PROVE  IInv'
<1>1. PICK at \in Resting : proc'[w] = Process(at) /\ (at = "off" <=> w = "lam")
  BY DEF Ends
<1>2. /\ proc'[w].at = at /\ proc'[w].rec = NoRecord /\ proc'[w].todo = {}
      /\ Employed(proc'[w])
  BY <1>1, EndedIsEmployed
<1>3. Progress(proc[w])'
  BY <1>2 DEF Progress, Created, Deleted, Ended, Recovery, Resting
<1>4. Same(w)
  BY DEF Ends
<1>5. (w = "app" => proc'[w].at # "off") /\ (w = "lam" => proc'[w].at \in Recovering \cup {"off"})
  BY <1>1, <1>2
<1>6. proc'[w].rec \in {proc[w].rec, NoRecord} \cup proc[w].todo /\ proc'[w].todo \subseteq proc[w].todo
  BY <1>2
<1> QED
  BY <1>2, <1>3, <1>4, <1>5, <1>6, WorkStep

-----------------------------------------------------------------------------
(* The application at work *)

\* The process keeps its record, one of accounts and Providers that there are.
LEMMA AppMoves ==
  ASSUME IInv, proc["app"].at \notin Resting \cup {"look"}
  PROVE  /\ StoresOK /\ Busy \in Records /\ Account \in Accounts /\ Provider \in Providers
         /\ Account = Busy.account /\ Provider = Busy.provider
         /\ ~raced => Progress(proc["app"])
         /\ \A at : Moves("app", at) =>
              /\ proc'["app"].at = at /\ proc'["app"].rec = Busy
              /\ proc'["app"].made = proc["app"].made
<1>1. /\ "app" \in Workers /\ proc["app"] \in Processes /\ proc["app"].rec \in Records
      /\ StoresOK
      /\ ~raced => Progress(proc["app"])
  BY DEF IInv, Types, Alone, Employed, Workers
<1>2. \A at : Moves("app", at) => /\ proc'["app"].at = at /\ proc'["app"].rec = proc["app"].rec
                                  /\ proc'["app"].made = proc["app"].made
  BY <1>1 DEF Moves, Processes
<1> QED
  BY <1>1, <1>2 DEF Busy, Account, Provider, Records

\* It moves from one step of a creation to another, ...
LEMMA CreatingInv ==
  ASSUME IInv, NEW at \in Creating, Moves("app", at), proc["app"].at \in Creating,
         StoresOK', UNCHANGED <<journal, raced>>, Fault \/ UNCHANGED used,
         ~raced => Created(proc["app"])'
  PROVE  IInv'
<1>1. proc["app"].at \notin Resting \cup {"look"} /\ "app" \in Workers
  BY DEF Creating, Resting, Workers
<1>2. proc'["app"].at = at
  BY <1>1, AppMoves
<1>3. ~raced => Progress(proc["app"])'
  BY <1>2 DEF Progress, Creating, Deleted, Ended, Recovery
<1>4. proc["app"].rec.kind = "create"
  BY <1>1 DEF IInv, Types, Employed
<1>5. at \notin Deleting
  BY DEF Creating, Deleting
<1> QED
  BY <1>1, <1>3, <1>4, <1>5, MoveInv

\* ... of a deletion to another, ...
LEMMA DeletingInv ==
  ASSUME IInv, NEW at \in Deleting, Moves("app", at), proc["app"].at \in Deleting,
         StoresOK', UNCHANGED <<journal, raced>>, Fault \/ UNCHANGED used,
         ~raced => Deleted(proc["app"])'
  PROVE  IInv'
<1>1. proc["app"].at \notin Resting \cup {"look"} /\ "app" \in Workers
  BY DEF Deleting, Resting, Workers
<1>2. proc'["app"].at = at
  BY <1>1, AppMoves
<1>3. ~raced => Progress(proc["app"])'
  BY <1>2 DEF Progress, Deleting, Created, Ended, Recovery
<1>4. proc["app"].rec.kind = "delete"
  BY <1>1 DEF IInv, Types, Employed
<1>5. at \notin Creating
  BY DEF Creating, Deleting
<1> QED
  BY <1>1, <1>3, <1>4, <1>5, MoveInv

\* ... or comes to the end of its work.
LEMMA EndingInv ==
  ASSUME IInv, NEW at \in Ending, Moves("app", at), proc["app"].at \in Creating \cup Deleting,
         StoresOK', UNCHANGED <<journal, raced>>, Fault \/ UNCHANGED used,
         ~raced => Ended(proc["app"])'
  PROVE  IInv'
<1>1. proc["app"].at \notin Resting \cup {"look"} /\ "app" \in Workers
  BY DEF Creating, Deleting, Resting, Workers
<1>2. proc'["app"].at = at
  BY <1>1, AppMoves
<1>3. ~raced => Progress(proc["app"])'
  BY <1>2 DEF Progress, Ending, Created, Deleted, Recovery
<1>4. at \notin Creating \cup Deleting
  BY DEF Creating, Deleting, Ending
<1> QED
  BY <1>1, <1>3, <1>4, MoveInv

LEMMA StopInv ==
  ASSUME IInv, Abandon("app"), proc["app"].at \notin Resting,
         StoresOK', journal' \subseteq journal, UNCHANGED raced, Fault \/ UNCHANGED used
  PROVE  IInv'
<1>1. "app" \in Workers /\ Ends("app")
  BY AbandonEnds DEF IInv, Workers
<1> QED
  BY <1>1, EndInv

\* A home of which something goes is still one.
LEMMA HomeShrinks ==
  ASSUME IInv, NEW a \in Accounts,
         UNCHANGED home \/ \E kept \in SUBSET home[a] : home' = [home EXCEPT ![a] = kept],
         UNCHANGED <<wrapper, providers, binding, live>>
  PROVE  StoresOK'
<1>1. home \in [Accounts -> SUBSET Files] /\ home[a] \in SUBSET Files
  BY DEF IInv, Types, StoresOK
<1>2. home' \in [Accounts -> SUBSET Files]
  <2>1. CASE UNCHANGED home
    BY <1>1, <2>1
  <2>2. ASSUME NEW kept \in SUBSET home[a], home' = [home EXCEPT ![a] = kept]
        PROVE  home' \in [Accounts -> SUBSET Files]
    <3>1. kept \in SUBSET Files
      BY <1>1
    <3> QED
      BY <1>1, <2>2, <3>1
  <2> QED
    BY <2>1, <2>2
<1> QED
  BY <1>2 DEF IInv, Types, StoresOK

\* What the removal of a home does to it, and where the process goes.
LEMMA Removes ==
  ASSUME NEW w \in Workers, NEW a, NEW next, RemoveHome(w, a, next, Abandon(w))
  PROVE  /\ UNCHANGED home \/ \E kept \in SUBSET home[a] : home' = [home EXCEPT ![a] = kept]
         /\ \/ Go(w, next) /\ UNCHANGED used
            \/ Abandon(w) /\ (Fault \/ UNCHANGED used)
<1>1. {} \in SUBSET home[a]
  OBVIOUS
<1> QED
  BY <1>1 DEF RemoveHome

LEMMA GoApp ==
  ASSUME IInv, NEW at, Go("app", at)
  PROVE  Moves("app", at)
BY GoMoves DEF IInv, Workers

LEMMA AdvanceGoes ==
  ASSUME NEW at, Advance(at)
  PROVE  /\ Go("app", at) \/ Abandon("app")
         /\ Fault \/ UNCHANGED used
BY DEF Advance

-----------------------------------------------------------------------------
(* Creation *)

LEMMA MakeHomeInv ==
  ASSUME IInv, MakeHome
  PROVE  IInv'
<1>1. /\ UNCHANGED <<providers, binding, journal, live, raced>>
      /\ proc["app"].at \in {"home", "marker", "wrapper"}
  BY DEF MakeHome
<1>2. proc["app"].at \in Creating /\ proc["app"].at \notin Resting \cup {"look"}
  BY <1>1 DEF Creating, Resting
<1>3. PICK r \in Records : /\ r = Busy /\ r.account = Account /\ r.provider = Provider
                           /\ r.account \in Accounts
  BY <1>2, AppMoves
<1>4. ~raced => Created(proc["app"]) /\ NotThere(r)
  BY <1>1, <1>2, <1>3, AppMoves DEF Progress, Created, Busy
<1>5. CASE /\ Fails("clear") /\ UNCHANGED <<home, wrapper>>
  <2>1. Moves("app", "clear") /\ Fault
    BY <1>5, GoApp DEF Fails
  <2>2. proc'["app"].at = "clear" /\ proc'["app"].rec = r /\ r.kind = "create"
    BY <1>2, <1>3, <2>1, AppMoves DEF IInv, Types, Employed, Busy, Workers
  <2>3. ASSUME ~raced PROVE Ended(proc["app"])'
    BY <1>1, <1>4, <2>2, <2>3 DEF Ended, Settled, NotThere
  <2>4. StoresOK'
    BY <1>1, <1>5 DEF IInv, Types, StoresOK
  <2> QED
    BY <1>1, <1>2, <2>1, <2>3, <2>4, EndingInv DEF Ending
<1>6. ASSUME NEW at \in {"marker", "wrapper", "config"}, StoresOK', Then(at),
             home[r.account] \subseteq home'[r.account],
             at \in {"wrapper", "config"} => "marker" \in home'[r.account] \/ raced
      PROVE  IInv'
  <2>1. Moves("app", at) /\ UNCHANGED used
    BY <1>6, GoApp DEF Then
  <2>2. proc'["app"].at = at /\ proc'["app"].rec = r
    BY <1>2, <1>3, <2>1, AppMoves
  <2>3. ASSUME ~raced PROVE Created(proc["app"])'
    BY <1>1, <1>4, <1>6, <2>2, <2>3 DEF Created, NotThere
  <2> QED
    BY <1>1, <1>2, <1>6, <2>1, <2>3, CreatingInv DEF Creating
<1>7. CASE /\ proc["app"].at = "home" /\ home' = [home EXCEPT ![Account] = @ \cup {"tree"}]
           /\ wrapper' = wrapper \cup {} /\ Then("marker")
  <2>1. StoresOK' /\ home'[r.account] = home[r.account] \cup {"tree"}
    BY <1>1, <1>3, <1>7 DEF IInv, Types, StoresOK, Files
  <2> QED
    BY <1>6, <1>7, <2>1
<1>8. CASE /\ proc["app"].at = "marker" /\ home' = [home EXCEPT ![Account] = @ \cup {"marker"}]
           /\ wrapper' = wrapper \cup {} /\ Then("wrapper")
  <2>1. StoresOK' /\ home'[r.account] = home[r.account] \cup {"marker"}
    BY <1>1, <1>3, <1>8 DEF IInv, Types, StoresOK, Files
  <2> QED
    BY <1>6, <1>8, <2>1
<1>9. CASE /\ proc["app"].at = "wrapper" /\ home' = [home EXCEPT ![Account] = @ \cup {}]
            /\ wrapper' = wrapper \cup {Account} /\ Then("config")
  <2>1. StoresOK' /\ home'[r.account] = home[r.account] \cup {}
    BY <1>1, <1>3, <1>9 DEF IInv, Types, StoresOK
  <2>2. "marker" \in home[r.account] \/ raced
    BY <1>3, <1>4, <1>9 DEF Created, Busy
  <2> QED
    BY <1>6, <1>9, <2>1, <2>2
<1> QED
  BY <1>5, <1>7, <1>8, <1>9 DEF MakeHome

\* A creation that gives up undoes the account, if no Provider is left to undo.
LEMMA GiveUpInv ==
  ASSUME IInv, NEW at \in {"undo account", "undo provider"}, Go("app", at),
         proc["app"].at \in Creating, Fault \/ UNCHANGED used,
         ~raced /\ at = "undo account" => NotThere(Busy),
         UNCHANGED <<home, wrapper, providers, binding, journal, live, raced>>
  PROVE  IInv'
<1>1. Moves("app", at) /\ at \in Creating /\ proc["app"].at \notin Resting \cup {"look"}
  BY GoApp DEF Creating, Resting
<1>2. proc'["app"].at = at /\ proc'["app"].rec = Busy
  BY <1>1, AppMoves
<1>3. ASSUME ~raced PROVE Created(proc["app"])'
  BY <1>2, <1>3 DEF Created, NotThere
<1>4. StoresOK'
  BY DEF IInv, Types, StoresOK
<1> QED
  BY <1>1, <1>3, <1>4, CreatingInv

LEMMA WriteConfigInv ==
  ASSUME IInv, WriteConfig
  PROVE  IInv'
<1>1. /\ UNCHANGED <<wrapper, providers, binding, journal, live, raced>>
      /\ proc["app"].at = "config"
  BY DEF WriteConfig
<1>2. proc["app"].at \in Creating /\ proc["app"].at \notin Resting \cup {"look"}
  BY <1>1 DEF Creating, Resting
<1>3. PICK r \in Records : /\ r = Busy /\ r.account = Account /\ r.provider = Provider
                           /\ r.account \in Accounts
  BY <1>2, AppMoves
<1>4. ~raced => "marker" \in home[r.account] /\ NotThere(r)
  BY <1>1, <1>2, <1>3, AppMoves DEF Progress, Created, Busy
<1>5. CASE Fails("undo account") /\ UNCHANGED home
  BY <1>1, <1>2, <1>3, <1>4, <1>5, GiveUpInv DEF Fails
<1>6. CASE home' = [home EXCEPT ![Account] = @ \cup {"config"}] /\ Advance("key")
  <2>1. StoresOK' /\ home'[r.account] = home[r.account] \cup {"config"}
    BY <1>1, <1>3, <1>6 DEF IInv, Types, StoresOK, Files
  <2>2. CASE Abandon("app")
    BY <1>1, <1>2, <1>6, <2>1, <2>2, StopInv, AdvanceGoes
  <2>3. CASE Go("app", "key")
    <3>1. Moves("app", "key")
      BY <2>3, GoApp
    <3>2. proc'["app"].at = "key" /\ proc'["app"].rec = r
      BY <1>2, <1>3, <3>1, AppMoves
    <3>3. ASSUME ~raced PROVE Created(proc["app"])'
      BY <1>1, <1>4, <2>1, <3>2, <3>3 DEF Created, NotThere
    <3> QED
      BY <1>1, <1>2, <1>6, <2>1, <3>1, <3>3, CreatingInv, AdvanceGoes DEF Creating
  <2> QED
    BY <1>6, <2>2, <2>3, AdvanceGoes
<1> QED
  BY <1>5, <1>6 DEF WriteConfig

LEMMA WriteKeyInv ==
  ASSUME IInv, WriteKey
  PROVE  IInv'
<1>1. /\ UNCHANGED <<wrapper, providers, binding, journal, live, raced>>
      /\ proc["app"].at = "key"
  BY DEF WriteKey
<1>2. proc["app"].at \in Creating /\ proc["app"].at \notin Resting \cup {"look"}
  BY <1>1 DEF Creating, Resting
<1>3. PICK r \in Records : /\ r = Busy /\ r.account = Account /\ r.provider = Provider
                           /\ r.account \in Accounts
  BY <1>2, AppMoves
<1>4. ~raced => {"marker", "config"} \subseteq home[r.account] /\ NotThere(r)
  BY <1>1, <1>2, <1>3, AppMoves DEF Progress, Created, Busy
<1>5. CASE Fails("undo account") /\ UNCHANGED home
  BY <1>1, <1>2, <1>3, <1>4, <1>5, GiveUpInv DEF Fails
<1>6. CASE Abandon("app") /\ UNCHANGED <<home, used>>
  <2>1. StoresOK'
    BY <1>1, <1>6 DEF IInv, Types, StoresOK
  <2> QED
    BY <1>1, <1>2, <1>6, <2>1, StopInv
<1>7. ASSUME StoresOK', home[r.account] \subseteq home'[r.account], Then("provider")
      PROVE  IInv'
  <2>1. Moves("app", "provider") /\ UNCHANGED used
    BY <1>7, GoApp DEF Then
  <2>2. proc'["app"].at = "provider" /\ proc'["app"].rec = r
    BY <1>2, <1>3, <2>1, AppMoves
  <2>3. ASSUME ~raced PROVE Created(proc["app"])'
    BY <1>1, <1>4, <1>7, <2>2, <2>3 DEF Created, NotThere
  <2> QED
    BY <1>1, <1>2, <1>7, <2>1, <2>3, CreatingInv DEF Creating
<1>8. CASE Then("provider") /\ UNCHANGED home
  <2>1. StoresOK'
    BY <1>1, <1>8 DEF IInv, Types, StoresOK
  <2> QED
    BY <1>7, <1>8, <2>1
<1>9. CASE home' = [home EXCEPT ![Account] = @ \cup {"key"}] /\ Then("provider")
  <2>1. StoresOK' /\ home'[r.account] = home[r.account] \cup {"key"}
    BY <1>1, <1>3, <1>9 DEF IInv, Types, StoresOK, Files
  <2> QED
    BY <1>7, <1>9, <2>1
<1> QED
  BY <1>5, <1>6, <1>8, <1>9 DEF WriteKey

LEMMA MakeProviderInv ==
  ASSUME IInv, MakeProvider
  PROVE  IInv'
<1>1. /\ UNCHANGED <<home, wrapper, binding, journal, live, raced>>
      /\ proc["app"].at = "provider"
  BY DEF MakeProvider
<1>2. proc["app"].at \in Creating /\ proc["app"].at \notin Resting \cup {"look"}
  BY <1>1 DEF Creating, Resting
<1>3. PICK r \in Records : /\ r = Busy /\ r.account = Account /\ r.provider = Provider
                           /\ r.account \in Accounts /\ r.provider \in Providers
                           /\ r = proc["app"].rec
  BY <1>2, AppMoves DEF Busy
<1>4. ~raced => {"marker", "config"} \subseteq home[r.account] /\ NotThere(r)
  BY <1>1, <1>2, <1>3, AppMoves DEF Progress, Created, Busy
<1>5. CASE (Fails("undo account") \/ Then("undo account")) /\ UNCHANGED providers
  BY <1>1, <1>2, <1>3, <1>4, <1>5, GiveUpInv DEF Fails, Then
<1>6. CASE providers' = providers \cup {Provider}
  <2>1. StoresOK'
    BY <1>1, <1>3, <1>6 DEF IInv, Types, StoresOK
  <2>2. CASE Abandon("app") /\ (Fault \/ UNCHANGED used)
    BY <1>1, <1>2, <2>1, <2>2, StopInv
  <2>3. CASE /\ UNCHANGED used
             /\ proc' = [proc EXCEPT !.app.at = "attach", !.app.made = Busy.exclusive]
    <3>1. proc["app"] \in Processes /\ proc \in [Workers -> Processes] /\ "app" \in Workers
      BY DEF IInv, Types, Workers
    <3>2. /\ proc'["app"] = [proc["app"] EXCEPT !.at = "attach", !.made = r.exclusive]
          /\ Same("app")
      BY <1>3, <2>3, <3>1 DEF Same
    <3>3. PICK k \in Processes : k = proc["app"]
      BY <3>1
    <3>4. /\ proc'["app"].at = "attach" /\ proc'["app"].rec = r /\ proc'["app"].made = r.exclusive
          /\ proc'["app"].todo = proc["app"].todo
      BY <1>3, <3>2, <3>3 DEF Processes
    <3>5. proc'["app"] \in Processes
      BY <3>2, <3>3 DEF Processes, Records, Creating
    <3>6. Employed(proc'["app"])
      <4>1. r.kind = "create"
        BY <1>2, <1>3, <3>1 DEF IInv, Types, Employed
      <4> QED
        BY <3>4, <3>5, <4>1 DEF Employed, Deleting
    <3>7. ASSUME ~raced PROVE Progress(proc["app"])'
      BY <1>1, <1>4, <3>4, <3>7 DEF Progress, Created, Deleted, Ended, Recovery
    <3> QED
      BY <1>1, <1>2, <1>3, <2>1, <2>3, <3>1, <3>2, <3>4, <3>6, <3>7, WorkStep
  <2> QED
    BY <1>5, <1>6, <2>2, <2>3 DEF MakeProvider
<1> QED
  BY <1>5, <1>6 DEF MakeProvider

LEMMA AttachNewInv ==
  ASSUME IInv, AttachNew
  PROVE  IInv'
<1>1. /\ UNCHANGED <<home, wrapper, providers, journal, live, raced>>
      /\ proc["app"].at = "attach"
  BY DEF AttachNew
<1>2. proc["app"].at \in Creating /\ proc["app"].at \notin Resting \cup {"look"}
  BY <1>1 DEF Creating, Resting
<1>3. PICK r \in Records : /\ r = Busy /\ r.account = Account /\ r.provider = Provider
                           /\ r.account \in Accounts /\ r.provider \in Providers
  BY <1>2, AppMoves
<1>4. ~raced => /\ {"marker", "config"} \subseteq home[r.account]
                /\ r.exclusive => proc["app"].made
  BY <1>1, <1>2, <1>3, AppMoves DEF Progress, Created, Busy
<1>5. CASE (Fails(Undo) \/ Then(Undo)) /\ UNCHANGED binding
  <2>1. Undo \in {"undo account", "undo provider"} /\ Go("app", Undo)
    BY <1>5 DEF Undo, Fails, Then
  <2>2. ~raced /\ Undo = "undo account" => NotThere(Busy)
    BY <1>3, <1>4 DEF Undo, NotThere
  <2> QED
    BY <1>1, <1>2, <1>5, <2>1, <2>2, GiveUpInv DEF Fails, Then
<1>6. CASE /\ CanAttach(Account, Provider)
           /\ binding' = [binding EXCEPT ![Account] = Provider] /\ Then("catalog")
  <2>1. StoresOK' /\ binding'[r.account] = r.provider
    BY <1>1, <1>3, <1>6 DEF IInv, Types, StoresOK
  <2>2. Moves("app", "catalog") /\ UNCHANGED used
    BY <1>6, GoApp DEF Then
  <2>3. /\ proc'["app"].at = "catalog" /\ proc'["app"].rec = r
        /\ proc'["app"].made = proc["app"].made
    BY <1>2, <1>3, <2>2, AppMoves
  <2>4. Ready(r.provider)'
    BY <1>1, <1>3, <1>6 DEF CanAttach, Ready
  <2>5. ASSUME ~raced PROVE Created(proc["app"])'
    BY <1>1, <1>4, <2>1, <2>3, <2>4, <2>5 DEF Created
  <2> QED
    BY <1>1, <1>2, <2>1, <2>2, <2>5, CreatingInv DEF Creating
<1> QED
  BY <1>5, <1>6 DEF AttachNew

LEMMA WriteCatalogInv ==
  ASSUME IInv, WriteCatalog
  PROVE  IInv'
<1>1. /\ UNCHANGED <<home, wrapper, providers, binding, journal, live, raced>>
      /\ proc["app"].at = "catalog"
  BY DEF WriteCatalog
<1>2. proc["app"].at \in Creating /\ proc["app"].at \notin Resting \cup {"look"}
  BY <1>1 DEF Creating, Resting
<1>3. PICK r \in Records : /\ r = Busy /\ r.account = Account /\ r.provider = Provider
                           /\ r.account \in Accounts /\ r.provider \in Providers
  BY <1>2, AppMoves
<1>4. ~raced => /\ {"marker", "config"} \subseteq home[r.account]
                /\ r.exclusive => proc["app"].made
                /\ binding[r.account] = r.provider /\ Ready(r.provider)
  BY <1>1, <1>2, <1>3, AppMoves DEF Progress, Created, Busy
<1>5. CASE Fails(Undo)
  <2>1. Undo \in {"undo account", "undo provider"} /\ Go("app", Undo)
    BY <1>5 DEF Undo, Fails
  <2>2. ~raced /\ Undo = "undo account" => NotThere(Busy)
    BY <1>3, <1>4 DEF Undo, NotThere
  <2> QED
    BY <1>1, <1>2, <1>5, <2>1, <2>2, GiveUpInv DEF Fails
<1>6. CASE Then("done")
  <2>1. StoresOK'
    BY <1>1 DEF IInv, Types, StoresOK
  <2>2. Moves("app", "done") /\ UNCHANGED used
    BY <1>6, GoApp DEF Then
  <2>3. proc'["app"].at = "done" /\ proc'["app"].rec = r /\ r.kind = "create"
    BY <1>2, <1>3, <2>2, AppMoves DEF IInv, Types, Employed, Busy, Workers
  <2>4. Ready(r.provider)' <=> Ready(r.provider)
    BY <1>1 DEF Ready
  <2>5. ASSUME ~raced PROVE Ended(proc["app"])'
    BY <1>1, <1>4, <2>3, <2>4, <2>5 DEF Ended
  <2> QED
    BY <1>1, <1>2, <2>1, <2>2, <2>5, EndingInv DEF Ending
<1>7. CASE Abandon("app") /\ (Fault \/ UNCHANGED used)
  <2>1. StoresOK'
    BY <1>1 DEF IInv, Types, StoresOK
  <2> QED
    BY <1>1, <1>2, <1>7, <2>1, StopInv
<1> QED
  BY <1>5, <1>6, <1>7 DEF WriteCatalog

LEMMA UndoCreationInv ==
  ASSUME IInv, UndoCreation
  PROVE  IInv'
<1>1. /\ UNCHANGED <<binding, journal, live, raced>>
      /\ proc["app"].at \in {"undo provider", "undo account", "undo home", "undo wrapper"}
  BY DEF UndoCreation
<1>2. proc["app"].at \in Creating /\ proc["app"].at \notin Resting \cup {"look"}
  BY <1>1 DEF Creating, Resting
<1>3. PICK r \in Records : /\ r = Busy /\ r.account = Account /\ r.provider = Provider
                           /\ r.account \in Accounts /\ r.provider \in Providers
  BY <1>2, AppMoves
<1>4. ~raced => (proc["app"].at # "undo provider" => NotThere(r))
  BY <1>1, <1>2, <1>3, AppMoves DEF Progress, Created, Busy
<1>5. ASSUME Abandon("app"), StoresOK', Fault \/ UNCHANGED used
      PROVE  IInv'
  BY <1>1, <1>2, <1>5, StopInv
<1>6. ASSUME NEW at \in {"undo account", "undo home", "undo wrapper"}, Go("app", at), StoresOK', UNCHANGED used,
             ~raced => NotThere(r)'
      PROVE  IInv'
  <2>1. Moves("app", at) /\ at \in Creating
    BY <1>6, GoApp DEF Creating
  <2>2. proc'["app"].at = at /\ proc'["app"].rec = r
    BY <1>2, <1>3, <2>1, AppMoves
  <2>3. ASSUME ~raced PROVE Created(proc["app"])'
    BY <1>6, <2>2, <2>3 DEF Created, NotThere
  <2> QED
    BY <1>1, <1>2, <1>6, <2>1, <2>3, CreatingInv
<1>7. CASE /\ proc["app"].at = "undo provider" /\ DropProvider("app", Provider, "undo account")
           /\ UNCHANGED <<home, wrapper>>
  <2>1. providers' \in {providers, providers \ {r.provider}} /\ StoresOK'
    BY <1>1, <1>3, <1>7 DEF DropProvider, IInv, Types, StoresOK
  <2>2. CASE providers' = providers \ {Provider} /\ Go("app", "undo account") /\ UNCHANGED used
    BY <1>3, <1>6, <2>1, <2>2 DEF NotThere
  <2> QED
    BY <1>5, <1>7, <2>1, <2>2 DEF DropProvider
<1>8. CASE /\ proc["app"].at = "undo account" /\ RollBack("app", Account, "undo home")
           /\ UNCHANGED <<home, wrapper, providers>>
  <2>1. StoresOK'
    BY <1>1, <1>8 DEF IInv, Types, StoresOK
  <2>2. ~raced => NotThere(r)'
    BY <1>4, <1>8 DEF NotThere
  <2> QED
    BY <1>5, <1>6, <1>8, <2>1, <2>2 DEF RollBack
<1>10. CASE /\ proc["app"].at = "undo home"
            /\ RemoveHome("app", Account, "undo wrapper", Abandon("app"))
            /\ UNCHANGED <<wrapper, providers>>
  <2>1. StoresOK'
    BY <1>1, <1>3, <1>10, Removes, HomeShrinks DEF Workers
  <2>2. ~raced => NotThere(r)'
    BY <1>4, <1>10 DEF NotThere
  <2> QED
    BY <1>5, <1>6, <1>10, <2>1, <2>2, Removes DEF Workers
<1>9. CASE /\ proc["app"].at = "undo wrapper" /\ DropWrapper("app", Account, "clear")
           /\ UNCHANGED <<home, providers>>
  <2>1. StoresOK'
    BY <1>1, <1>9 DEF DropWrapper, IInv, Types, StoresOK
  <2>2. CASE Go("app", "clear") /\ UNCHANGED used
    <3>1. Moves("app", "clear")
      BY <2>2, GoApp
    <3>2. proc'["app"].at = "clear" /\ proc'["app"].rec = r /\ r.kind = "create"
      BY <1>2, <1>3, <3>1, AppMoves DEF IInv, Types, Employed, Busy, Workers
    <3>3. ASSUME ~raced PROVE Ended(proc["app"])'
      BY <1>4, <1>9, <3>2, <3>3 DEF Ended, Settled, NotThere
    <3> QED
      BY <1>1, <1>2, <2>1, <2>2, <3>1, <3>3, EndingInv DEF Ending
  <2> QED
    BY <1>5, <1>9, <2>1, <2>2 DEF DropWrapper
<1> QED
  BY <1>7, <1>8, <1>9, <1>10 DEF UndoCreation

\* What is cleared is one record, and its operation is over.
LEMMA ClearRecordInv ==
  ASSUME IInv, ClearRecord
  PROVE  /\ IInv'
         /\ ~raced => \A r \in journal \ journal' : Settled(r)'
<1>1. /\ UNCHANGED <<home, wrapper, providers, binding, live, raced>>
      /\ proc["app"].at \in {"done", "clear"} /\ Abandon("app")
      /\ \/ Forget(Busy.id) /\ UNCHANGED used
         \/ Fault /\ UNCHANGED journal
  BY DEF ClearRecord
<1>2. proc["app"].at \notin Resting \cup {"look"}
  BY <1>1 DEF Resting
<1>3. journal' \subseteq journal /\ \A r \in journal \ journal' : r.id = Busy.id
  BY <1>1 DEF Forget
<1>4. StoresOK'
  BY <1>1 DEF IInv, Types, StoresOK
<1>5. IInv'
  BY <1>1, <1>2, <1>3, <1>4, StopInv
<1>6. ASSUME ~raced, NEW r \in journal \ journal'
      PROVE  Settled(r)'
  <2>1. Busy \in Records /\ Busy = proc["app"].rec
    BY <1>2, AppMoves DEF Busy
  <2>2. r = Busy
    <3>1. r \in Known /\ Busy \in Known
      BY <2>1 DEF Known, Workers
    <3> QED
      BY <1>3, <3>1 DEF IInv, OneOfEach
  <2>3. Ended(proc["app"])
    BY <1>2, <1>6, AppMoves DEF Progress
  <2>4. r.kind \in {"create", "delete"} /\ r.provider \in Providers
    BY <2>1, <2>2 DEF Records
  <2>5. Settled(r)
    BY <1>1, <2>1, <2>2, <2>3, <2>4, AccountAssumption DEF Ended, Settled, Providers
  <2> QED
    BY <1>1, <2>5 DEF Settled, UsedBy, Managed
<1> QED
  BY <1>3, <1>5, <1>6

-----------------------------------------------------------------------------
(* Deletion *)

\* It goes on at a step that asks for nothing but what holds already.
LEMMA RestoreNext ==
  ASSUME IInv, Go("app", "restore"), proc["app"].at \in Deleting, Fault \/ UNCHANGED used,
         StoresOK', UNCHANGED <<journal, raced>>
  PROVE  IInv'
<1>1. Moves("app", "restore") /\ proc["app"].at \notin Resting \cup {"look"}
  BY GoApp DEF Deleting, Resting
<1>2. proc'["app"].at = "restore"
  BY <1>1, AppMoves
<1>3. Deleted(proc["app"])'
  BY <1>2 DEF Deleted
<1> QED
  BY <1>1, <1>3, DeletingInv DEF Deleting

LEMMA DetachOldInv ==
  ASSUME IInv, DetachOld
  PROVE  IInv'
<1>1. /\ UNCHANGED <<home, wrapper, providers, journal, live, raced>>
      /\ proc["app"].at = "detach"
  BY DEF DetachOld
<1>2. proc["app"].at \in Deleting /\ proc["app"].at \notin Resting \cup {"look"}
  BY <1>1 DEF Deleting, Resting
<1>3. PICK r \in Records : /\ r = Busy /\ r.account = Account /\ r.provider = Provider
                           /\ r.account \in Accounts /\ r.provider \in Providers
  BY <1>2, AppMoves
<1>4. ~raced => binding[r.account] # None
  BY <1>1, <1>2, <1>3, AppMoves DEF Progress, Deleted, Busy
<1>5. CASE Fails("clear") /\ UNCHANGED binding
  <2>1. Moves("app", "clear") /\ Fault
    BY <1>5, GoApp DEF Fails
  <2>2. proc'["app"].at = "clear" /\ proc'["app"].rec = r
    BY <1>2, <1>3, <2>1, AppMoves
  <2>3. ASSUME ~raced PROVE Ended(proc["app"])'
    BY <1>4, <1>5, <2>2, <2>3 DEF Ended, Settled
  <2>4. StoresOK'
    BY <1>1, <1>5 DEF IInv, Types, StoresOK
  <2> QED
    BY <1>1, <1>2, <2>1, <2>3, <2>4, EndingInv DEF Ending
<1>6. CASE binding' = [binding EXCEPT ![Account] = None] /\ Advance("stop")
  <2>1. StoresOK' /\ binding'[r.account] = None
    BY <1>1, <1>3, <1>6 DEF IInv, Types, StoresOK
  <2>2. CASE Abandon("app")
    BY <1>1, <1>2, <1>6, <2>1, <2>2, StopInv, AdvanceGoes
  <2>3. CASE Go("app", "stop")
    <3>1. Moves("app", "stop")
      BY <2>3, GoApp
    <3>2. proc'["app"].at = "stop" /\ proc'["app"].rec = r
      BY <1>2, <1>3, <3>1, AppMoves
    <3>3. Deleted(proc["app"])'
      BY <2>1, <3>2 DEF Deleted
    <3> QED
      BY <1>1, <1>2, <1>6, <2>1, <3>1, <3>3, DeletingInv, AdvanceGoes DEF Deleting
  <2> QED
    BY <1>6, <2>2, <2>3, AdvanceGoes
<1> QED
  BY <1>5, <1>6 DEF DetachOld

LEMMA StopCodexInv ==
  ASSUME IInv, StopCodex
  PROVE  IInv'
<1>1. /\ UNCHANGED <<home, wrapper, providers, binding, journal, raced>>
      /\ proc["app"].at = "stop"
  BY DEF StopCodex
<1>2. proc["app"].at \in Deleting /\ proc["app"].at \notin Resting \cup {"look"}
  BY <1>1 DEF Deleting, Resting
<1>3. PICK r \in Records : r = Busy /\ r.account = Account
  BY <1>2, AppMoves
<1>4. StoresOK'
  BY <1>1 DEF StopCodex, IInv, Types, StoresOK
<1>5. CASE Then("restore") \/ Fails("restore")
  BY <1>1, <1>2, <1>4, <1>5, RestoreNext DEF Then, Fails
<1>6. CASE binding[Account] = None /\ Then("remove")
  <2>1. Moves("app", "remove") /\ UNCHANGED used
    BY <1>6, GoApp DEF Then
  <2>2. proc'["app"].at = "remove" /\ proc'["app"].rec = r
    BY <1>2, <1>3, <2>1, AppMoves
  <2>3. Deleted(proc["app"])'
    BY <1>1, <1>3, <1>6, <2>2 DEF Deleted
  <2> QED
    BY <1>1, <1>2, <1>4, <2>1, <2>3, DeletingInv DEF Deleting
<1> QED
  BY <1>5, <1>6 DEF StopCodex

LEMMA RemoveOldInv ==
  ASSUME IInv, RemoveOld
  PROVE  IInv'
<1>1. /\ UNCHANGED <<wrapper, providers, binding, journal, live, raced>>
      /\ proc["app"].at = "remove"
  BY DEF RemoveOld
<1>2. proc["app"].at \in Deleting /\ proc["app"].at \notin Resting \cup {"look"}
  BY <1>1 DEF Deleting, Resting
<1>3. PICK r \in Records : r = Busy /\ r.account = Account /\ r.account \in Accounts
  BY <1>2, AppMoves
<1>4. ~raced => binding[r.account] = None
  BY <1>1, <1>2, <1>3, AppMoves DEF Progress, Deleted, Busy
<1>5. StoresOK'
  <2>1. {} \in SUBSET home[Account]
    OBVIOUS
  <2>2. \E kept \in SUBSET home[Account] : home' = [home EXCEPT ![Account] = kept]
    BY <2>1 DEF RemoveOld, RemoveHome
  <2> QED
    BY <1>1, <1>3, <2>2, HomeShrinks
<1>6. CASE Go("app", "restore") /\ Fault
  BY <1>1, <1>2, <1>5, <1>6, RestoreNext
<1>7. CASE home' = [home EXCEPT ![Account] = {}] /\ Go("app", "verify") /\ UNCHANGED used
  <2>1. Moves("app", "verify") /\ home'[r.account] = {}
    BY <1>3, <1>7, GoApp DEF IInv, Types, StoresOK
  <2>2. proc'["app"].at = "verify" /\ proc'["app"].rec = r
    BY <1>2, <1>3, <2>1, AppMoves
  <2>3. ASSUME ~raced PROVE Deleted(proc["app"])'
    BY <1>1, <1>4, <2>1, <2>2, <2>3 DEF Deleted, Managed
  <2> QED
    BY <1>1, <1>2, <1>5, <1>7, <2>1, <2>3, DeletingInv DEF Deleting
<1> QED
  BY <1>6, <1>7 DEF RemoveOld, RemoveHome

LEMMA VerifyInv ==
  ASSUME IInv, Verify
  PROVE  IInv'
<1>1. /\ UNCHANGED <<home, providers, binding, journal, live, raced>>
      /\ proc["app"].at = "verify"
  BY DEF Verify
<1>2. proc["app"].at \in Deleting /\ proc["app"].at \notin Resting \cup {"look"}
  BY <1>1 DEF Deleting, Resting
<1>3. PICK r \in Records : r = Busy /\ r.account = Account /\ r.account \in Accounts
  BY <1>2, AppMoves
<1>4. ~raced => binding[r.account] = None /\ ~Managed(r.account)
  BY <1>1, <1>2, <1>3, AppMoves DEF Progress, Deleted, Busy
<1>5. StoresOK'
  BY <1>1, <1>3 DEF Verify, IInv, Types, StoresOK
<1>6. CASE Then("restore") \/ Fails("restore")
  BY <1>1, <1>2, <1>5, <1>6, RestoreNext DEF Then, Fails
<1>7. CASE wrapper' = wrapper \ {Account} /\ Advance("release")
  <2>1. CASE Abandon("app")
    BY <1>1, <1>2, <1>5, <1>7, <2>1, StopInv, AdvanceGoes
  <2>2. CASE Go("app", "release")
    <3>1. Moves("app", "release")
      BY <2>2, GoApp
    <3>2. proc'["app"].at = "release" /\ proc'["app"].rec = r
      BY <1>2, <1>3, <3>1, AppMoves
    <3>3. ASSUME ~raced PROVE Deleted(proc["app"])'
      BY <1>1, <1>3, <1>4, <1>7, <3>2, <3>3 DEF Deleted, Managed
    <3> QED
      BY <1>1, <1>2, <1>5, <1>7, <3>1, <3>3, DeletingInv, AdvanceGoes DEF Deleting
  <2> QED
    BY <1>7, <2>1, <2>2, AdvanceGoes
<1> QED
  BY <1>6, <1>7 DEF Verify

LEMMA ReleaseInv ==
  ASSUME IInv, Release
  PROVE  IInv'
<1>1. /\ UNCHANGED <<home, wrapper, binding, journal, live, raced>>
      /\ proc["app"].at = "release"
  BY DEF Release
<1>2. proc["app"].at \in Deleting /\ proc["app"].at \notin Resting \cup {"look"}
  BY <1>1 DEF Deleting, Resting
<1>3. PICK r \in Records : /\ r = Busy /\ r.account = Account /\ r.provider = Provider
                           /\ r.kind = "delete"
  BY <1>2, AppMoves DEF IInv, Types, Employed, Busy, Workers
<1>4. ~raced => binding[r.account] = None /\ ~Managed(r.account) /\ r.account \notin wrapper
  BY <1>1, <1>2, <1>3, AppMoves DEF Progress, Deleted, Busy
<1>5. StoresOK'
  BY <1>1, <1>3 DEF Release, DropProvider, IInv, Types, StoresOK
<1>6. CASE Abandon("app") /\ (Fault \/ UNCHANGED used)
  BY <1>1, <1>2, <1>5, <1>6, StopInv
<1>7. CASE /\ Go("app", "done") /\ UNCHANGED used
           /\ \/ providers' = providers \ {Provider}
              \/ ~(Busy.exclusive /\ UsedBy(Provider) = {}) /\ UNCHANGED providers
  <2>1. Moves("app", "done")
    BY <1>7, GoApp
  <2>2. proc'["app"].at = "done" /\ proc'["app"].rec = r
    BY <1>2, <1>3, <2>1, AppMoves
  <2>3. r.exclusive /\ r.provider \in providers' => UsedBy(r.provider)' # {}
    BY <1>1, <1>3, <1>7 DEF UsedBy
  <2>4. ASSUME ~raced PROVE Ended(proc["app"])'
    BY <1>1, <1>3, <1>4, <2>2, <2>3, <2>4 DEF Ended, Managed
  <2> QED
    BY <1>1, <1>2, <1>5, <1>7, <2>1, <2>4, EndingInv DEF Ending
<1> QED
  BY <1>6, <1>7 DEF Release, DropProvider, Then

LEMMA RestoreInv ==
  ASSUME IInv, Restore
  PROVE  IInv'
<1>1. /\ UNCHANGED <<home, wrapper, providers, journal, live, raced>>
      /\ proc["app"].at = "restore"
  BY DEF Restore
<1>2. proc["app"].at \in Deleting /\ proc["app"].at \notin Resting \cup {"look"}
  BY <1>1 DEF Deleting, Resting
<1>3. PICK r \in Records : r = Busy /\ r.account \in Accounts /\ r.provider \in Providers
  BY <1>2, AppMoves
<1>4. StoresOK'
  BY <1>1, <1>3 DEF Restore, Reattach, IInv, Types, StoresOK
<1>5. CASE Abandon("app") /\ (Fault \/ UNCHANGED used)
  BY <1>1, <1>2, <1>4, <1>5, StopInv
<1>6. CASE /\ binding' = [binding EXCEPT ![r.account] = r.provider]
           /\ Go("app", "clear") /\ UNCHANGED used
  <2>1. Moves("app", "clear") /\ binding'[r.account] = r.provider
    BY <1>3, <1>6, GoApp DEF IInv, Types, StoresOK
  <2>2. proc'["app"].at = "clear" /\ proc'["app"].rec = r
    BY <1>2, <1>3, <2>1, AppMoves
  <2>3. r.provider # None
    BY <1>3, AccountAssumption DEF Providers
  <2>4. Ended(proc["app"])'
    BY <2>1, <2>2, <2>3 DEF Ended, Settled
  <2> QED
    BY <1>1, <1>2, <1>4, <1>6, <2>1, <2>4, EndingInv DEF Ending
<1> QED
  BY <1>3, <1>5, <1>6 DEF Restore, Reattach

-----------------------------------------------------------------------------
(* Recovery *)

LEMMA RecoveryMoves ==
  ASSUME IInv, NEW w \in Workers, proc[w].at \in Recovering \ {"look"}
  PROVE  /\ StoresOK /\ proc[w].at \notin Resting \cup {"look"} /\ proc[w].rec \in Records
         /\ proc[w].rec.account \in Accounts /\ proc[w].rec.provider \in Providers
         /\ ~raced => Recovery(proc[w])
         /\ \A at : Moves(w, at) => proc'[w].at = at /\ proc'[w].rec = proc[w].rec
<1>1. proc[w].at \notin Resting \cup {"look"}
  BY DEF Recovering, Resting
<1>2. /\ proc[w] \in Processes /\ proc[w].rec \in Records
      /\ StoresOK
      /\ ~raced => Recovery(proc[w])
  BY <1>1 DEF IInv, Types, Alone, Employed, Progress
<1>3. \A at : Moves(w, at) => proc'[w].at = at /\ proc'[w].rec = proc[w].rec
  BY <1>2 DEF Moves, Processes
<1> QED
  BY <1>1, <1>2, <1>3 DEF Records

LEMMA RecoveringInv ==
  ASSUME IInv, NEW w \in Workers, proc[w].at \in Recovering \ {"look"},
         NEW at \in Recovering \ {"look"}, Go(w, at),
         StoresOK', UNCHANGED <<journal, raced>>, Fault \/ UNCHANGED used,
         ~raced => Recovery(proc[w])'
  PROVE  IInv'
<1>1. Moves(w, at)
  BY GoMoves DEF IInv
<1>2. proc'[w].at = at
  BY <1>1, RecoveryMoves
<1>3. ~raced => Progress(proc[w])'
  BY <1>2 DEF Progress, Recovering, Created, Deleted, Ended
<1>4. at \notin Creating \cup Deleting
  BY DEF Creating, Deleting, Recovering
<1> QED
  BY <1>1, <1>3, <1>4, RecoveryMoves, MoveInv

LEMMA LeaveInv ==
  ASSUME IInv, NEW w \in Workers, Abandon(w), proc[w].at \notin Resting,
         StoresOK', journal' \subseteq journal, UNCHANGED raced, Fault \/ UNCHANGED used
  PROVE  IInv'
BY AbandonEnds, EndInv DEF IInv

LEMMA LookInv ==
  ASSUME IInv, NEW w \in Workers, Look(w)
  PROVE  IInv'
<1>1. /\ UNCHANGED <<home, wrapper, providers, binding, journal, live, used, raced>>
      /\ proc[w].at = "look"
  BY DEF Look
<1>2. proc[w] \in Processes /\ proc \in [Workers -> Processes]
  BY DEF IInv, Types
<1>3. PICK k \in Processes : k = proc[w]
  BY <1>2
<1>4. PICK r \in k.todo :
        proc' = [proc EXCEPT ![w].at = StepFor(r), ![w].rec = r, ![w].todo = @ \ {r}]
  BY <1>3 DEF Look
<1>5. r \in Records
  BY <1>4 DEF Processes
<1>6. StepFor(r) \in {"forget", "reattach", "drop"}
  BY DEF StepFor
<1>7. /\ proc'[w] = [k EXCEPT !.at = StepFor(r), !.rec = r, !.todo = k.todo \ {r}]
      /\ Same(w)
  BY <1>2, <1>3, <1>4 DEF Same
<1>8. /\ proc'[w].at = StepFor(r) /\ proc'[w].rec = r /\ proc'[w].todo = k.todo \ {r}
      /\ proc'[w] \in Processes
  BY <1>5, <1>6, <1>7 DEF Processes, Recovering
<1>9. Employed(proc'[w])
  BY <1>5, <1>6, <1>8 DEF Employed, Creating, Deleting
<1>10. Progress(proc[w])'
  <2>1. Recovery(proc[w])'
    BY <1>1, <1>8 DEF Recovery, StepFor, Settled, Managed
  <2> QED
    BY <1>6, <1>8, <2>1 DEF Progress, Created, Deleted, Ended
<1>11. StoresOK'
  BY <1>1 DEF IInv, Types, StoresOK
<1>12. proc'[w].at \in Recovering /\ proc'[w].at # "off" /\ proc[w].at \notin Resting
  BY <1>1, <1>6, <1>8 DEF Recovering, Resting
<1> QED
  BY <1>1, <1>3, <1>4, <1>7, <1>8, <1>9, <1>10, <1>11, <1>12, WorkStep

LEMMA RecoverInv ==
  ASSUME IInv, NEW w \in Workers, Recover(w)
  PROVE  IInv'
<1>1. /\ UNCHANGED <<journal, live, raced>>
      /\ proc[w].at \in {"drop", "roll back", "clear home", "unwrap", "reattach"}
  BY DEF Recover
<1>2. proc[w].at \in Recovering \ {"look"} /\ proc[w].at \notin Resting
  BY <1>1 DEF Recovering, Resting
<1>3. PICK r \in Records : /\ r = proc[w].rec
                           /\ r.account \in Accounts /\ r.provider \in Providers
                           /\ r.kind \in {"create", "delete"}
  BY <1>2, RecoveryMoves DEF Records
<1>4. ~raced =>
        /\ proc[w].at = "drop" =>
             (r.kind = "delete" => ~(Managed(r.account) /\ "config" \in home[r.account]))
        /\ proc[w].at \in {"roll back", "clear home", "unwrap"} => r.kind = "create" /\ NotThere(r)
  BY <1>2, <1>3, RecoveryMoves DEF Recovery
<1>5. ASSUME Abandon(w), StoresOK', Fault \/ UNCHANGED used
      PROVE  IInv'
  BY <1>1, <1>2, <1>5, LeaveInv
<1>6. ASSUME NEW at \in {"roll back", "clear home", "unwrap"}, Go(w, at), StoresOK', UNCHANGED used,
             ~raced => r.kind = "create" /\ NotThere(r)'
      PROVE  IInv'
  <2>1. Moves(w, at) /\ at \in Recovering \ {"look"}
    BY <1>6, GoMoves DEF IInv, Recovering
  <2>2. proc'[w].at = at /\ proc'[w].rec = r
    BY <1>2, <1>3, <2>1, RecoveryMoves
  <2>3. ASSUME ~raced PROVE Recovery(proc[w])'
    BY <1>6, <2>2, <2>3 DEF Recovery, NotThere
  <2> QED
    BY <1>1, <1>2, <1>6, <2>1, <2>3, RecoveringInv
<1>7. ASSUME Go(w, "forget"), StoresOK', UNCHANGED used, ~raced => Settled(r)'
      PROVE  IInv'
  <2>1. Moves(w, "forget")
    BY <1>7, GoMoves DEF IInv
  <2>2. proc'[w].at = "forget" /\ proc'[w].rec = r
    BY <1>2, <1>3, <2>1, RecoveryMoves
  <2>3. ASSUME ~raced PROVE Recovery(proc[w])'
    BY <1>7, <2>2, <2>3 DEF Recovery, Settled, UsedBy, Managed
  <2> QED
    BY <1>1, <1>2, <1>7, <2>1, <2>3, RecoveringInv DEF Recovering
<1>8. CASE /\ proc[w].at = "drop" /\ UNCHANGED <<home, wrapper, binding>>
           /\ IF r.exclusive /\ r.provider \in providers
              THEN DropProvider(w, r.provider, IF r.kind = "create" THEN "roll back" ELSE "forget")
              ELSE Go(w, IF r.kind = "create" THEN "roll back" ELSE "forget")
                   /\ UNCHANGED <<providers, used>>
  <2>1. StoresOK'
    BY <1>1, <1>8 DEF DropProvider, IInv, Types, StoresOK
  <2>2. CASE /\ Go(w, IF r.kind = "create" THEN "roll back" ELSE "forget") /\ UNCHANGED used
             /\ NotThere(r)'
    <3>1. CASE r.kind = "create"
      BY <1>6, <2>1, <2>2, <3>1
    <3>2. CASE r.kind = "delete"
      <4>1. ~raced => Settled(r)'
        BY <1>4, <1>8, <2>2, <3>2 DEF Settled, NotThere, Managed
      <4> QED
        BY <1>7, <2>1, <2>2, <3>2, <4>1
    <3> QED
      BY <1>3, <3>1, <3>2
  <2> QED
    BY <1>5, <1>8, <2>1, <2>2 DEF DropProvider, NotThere
<1>9. CASE /\ proc[w].at = "roll back" /\ UNCHANGED <<home, wrapper, providers, binding>>
           /\ IF Listed(r.account) THEN RollBack(w, r.account, "clear home")
              ELSE Go(w, "forget") /\ UNCHANGED used
  <2>1. StoresOK'
    BY <1>1, <1>9 DEF IInv, Types, StoresOK
  <2>2. ~raced => r.kind = "create" /\ NotThere(r)' /\ Settled(r)'
    BY <1>4, <1>9 DEF NotThere, Settled
  <2> QED
    BY <1>5, <1>6, <1>7, <1>9, <2>1, <2>2 DEF RollBack
<1>12. CASE /\ proc[w].at = "clear home" /\ UNCHANGED <<wrapper, providers, binding>>
            /\ RemoveHome(w, r.account, "unwrap", Abandon(w))
  <2>1. StoresOK'
    BY <1>1, <1>3, <1>12, Removes, HomeShrinks
  <2>2. ~raced => r.kind = "create" /\ NotThere(r)'
    BY <1>4, <1>12 DEF NotThere
  <2> QED
    BY <1>5, <1>6, <1>12, <2>1, <2>2, Removes
<1>10. CASE /\ proc[w].at = "unwrap" /\ DropWrapper(w, r.account, "forget")
            /\ UNCHANGED <<home, providers, binding>>
  <2>1. StoresOK'
    BY <1>1, <1>10 DEF DropWrapper, IInv, Types, StoresOK
  <2>2. ~raced => Settled(r)'
    BY <1>4, <1>10 DEF NotThere, Settled
  <2> QED
    BY <1>5, <1>7, <1>10, <2>1, <2>2 DEF DropWrapper
<1>11. CASE /\ proc[w].at = "reattach" /\ Reattach(w, r, "forget")
            /\ UNCHANGED <<home, wrapper, providers>>
  <2>1. StoresOK'
    BY <1>1, <1>3, <1>11 DEF Reattach, IInv, Types, StoresOK
  <2>2. CASE /\ binding' = [binding EXCEPT ![r.account] = r.provider]
             /\ Go(w, "forget") /\ UNCHANGED used
    <3>1. binding'[r.account] # None
      BY <1>3, <2>2, AccountAssumption DEF IInv, Types, StoresOK, Providers
    <3> QED
      BY <1>7, <2>1, <2>2, <3>1 DEF Settled
  <2> QED
    BY <1>5, <1>11, <2>1, <2>2 DEF Reattach
<1> QED
  BY <1>3, <1>8, <1>9, <1>10, <1>11, <1>12 DEF Recover

LEMMA ForgetRecordInv ==
  ASSUME IInv, NEW w \in Workers, ForgetRecord(w)
  PROVE  /\ IInv'
         /\ ~raced => \A r \in journal \ journal' : Settled(r)'
<1>1. /\ UNCHANGED <<home, wrapper, providers, binding, live, raced>>
      /\ proc[w].at = "forget"
  BY DEF ForgetRecord
<1>2. proc[w].at \in Recovering \ {"look"} /\ proc[w].at \notin Resting
  BY <1>1 DEF Recovering, Resting
<1>3. StoresOK'
  BY <1>1 DEF IInv, Types, StoresOK
<1>4. journal' \subseteq journal /\ \A r \in journal \ journal' : r.id = proc[w].rec.id
  BY DEF ForgetRecord, Forget
<1>5. IInv'
  <2>1. CASE Abandon(w) /\ Fault
    BY <1>1, <1>2, <1>3, <1>4, <2>1, LeaveInv
  <2>2. CASE /\ proc' = [proc EXCEPT ![w].at = "look", ![w].rec = NoRecord]
             /\ UNCHANGED used
    <3>1. proc[w] \in Processes /\ proc \in [Workers -> Processes]
      BY DEF IInv, Types
    <3>2. PICK k \in Processes : k = proc[w]
      BY <3>1
    <3>3. proc'[w] = [k EXCEPT !.at = "look", !.rec = NoRecord] /\ Same(w)
      BY <2>2, <3>1, <3>2 DEF Same
    <3>4. /\ proc'[w].at = "look" /\ proc'[w].rec = NoRecord /\ proc'[w].todo = k.todo
          /\ proc'[w] \in Processes
      BY <3>3 DEF Processes, Recovering
    <3>5. Employed(proc'[w])
      BY <3>4 DEF Employed, Creating, Deleting
    <3>6. Progress(proc[w])'
      BY <3>4 DEF Progress, Created, Deleted, Ended, Recovery
    <3> QED
      BY <1>1, <1>2, <1>3, <1>4, <2>2, <3>2, <3>3, <3>4, <3>5, <3>6, WorkStep DEF Recovering
  <2> QED
    BY <2>1, <2>2 DEF ForgetRecord
<1>6. ASSUME ~raced, NEW r \in journal \ journal'
      PROVE  Settled(r)'
  <2>1. r = proc[w].rec
    <3>1. r \in Known /\ proc[w].rec \in Known
      BY DEF Known
    <3> QED
      BY <1>4, <3>1 DEF IInv, OneOfEach
  <2>2. Settled(r)
    BY <1>1, <1>2, <1>6, <2>1, RecoveryMoves DEF Recovery
  <2> QED
    BY <1>1, <2>2 DEF Settled, UsedBy, Managed
<1> QED
  BY <1>5, <1>6

LEMMA RecoveredInv ==
  ASSUME IInv, NEW w \in Workers, Recovered(w)
  PROVE  IInv'
<1>1. /\ UNCHANGED <<home, wrapper, providers, binding, journal, used, raced>>
      /\ proc[w].at = "look"
  BY DEF Recovered
<1>2. PICK at \in {"idle", "off"} : Go(w, at) /\ (at = "off" <=> w = "lam")
  BY DEF Recovered
<1>3. Moves(w, at) /\ proc[w] \in Processes
  BY <1>2, GoMoves DEF IInv, Types
<1>4. /\ proc'[w].at = at /\ proc'[w].rec = proc[w].rec /\ proc'[w].todo = proc[w].todo
      /\ proc'[w] \in Processes
  BY <1>3 DEF Moves, Processes, Resting
<1>5. Employed(proc'[w])
  BY <1>4 DEF Employed, Creating, Deleting, Resting
<1>6. Progress(proc[w])'
  BY <1>4 DEF Progress, Created, Deleted, Ended, Recovery
<1>7. StoresOK'
  BY <1>1 DEF Recovered, IInv, Types, StoresOK
<1>8. (w = "app" => proc'[w].at # "off") /\ (w = "lam" => proc'[w].at \in Recovering \cup {"off"})
  BY <1>2, <1>4
<1>9. proc[w].at \notin Resting /\ Same(w)
  BY <1>1, <1>3 DEF Resting, Moves
<1> QED
  BY <1>1, <1>4, <1>5, <1>6, <1>7, <1>8, <1>9, WorkStep

-----------------------------------------------------------------------------
(* The beginning of an operation or a recovery, and what happens meanwhile *)

UsedOK == used \in [ops : Nat, faults : Nat, launches : Nat, writes : Nat]

LEMMA Uses ==
  ASSUME Types, NEW what \in {"ops", "faults", "launches", "writes"}, Use(what)
  PROVE  /\ UsedOK' /\ used.ops \in Nat /\ used'.ops \in Nat
         /\ used'.ops = IF what = "ops" THEN used.ops + 1 ELSE used.ops
BY DEF Types, UsedOK, Use

\* A process that begins while the other rests is alone.
LEMMA BeginInv ==
  ASSUME IInv, NEW w \in Workers, NEW v \in Workers \ {w}, Same(w), Meets(v),
         proc[w].at \in Resting, StoresOK', journal' \subseteq Records, UsedOK', OneOfEach',
         Employed(proc'[w]), proc'["app"].at # "off", proc'["lam"].at \in Recovering \cup {"off"},
         ~raced' => Progress(proc[w])'
  PROVE  IInv'
<1>1. \A u \in Workers : u = v \/ u = w
  BY DEF Workers
<1>2. proc'[v] = proc[v]
  BY DEF Same
<1>3. Types'
  <2>1. proc' \in [Workers -> Processes] /\ \A u \in Workers : Employed(proc'[u])
    BY <1>1, <1>2 DEF IInv, Types, Same, Employed
  <2>2. raced' \in BOOLEAN
    BY DEF Meets, IInv, Types
  <2> QED
    BY <2>1, <2>2 DEF Types, UsedOK
<1>4. ASSUME ~raced'
      PROVE  /\ \E u \in Workers : proc'[u].at \in Resting
             /\ \A u \in Workers : Progress(proc[u])'
  <2>1. proc'[v].at \in Resting
    BY <1>2, <1>4 DEF Meets, Resting
  <2>2. Progress(proc[v])'
    BY <2>1 DEF Progress, Created, Deleted, Ended, Recovery, Resting
  <2> QED
    BY <1>1, <1>4, <2>1, <2>2
<1> QED
  BY <1>3, <1>4 DEF IInv, Alone

LEMMA StartInv ==
  ASSUME IInv, NEW kind \in {"create", "delete"}, NEW a \in Accounts, NEW p \in Providers,
         NEW exclusive \in BOOLEAN, NEW at \in {"home", "detach"}, Start(kind, a, p, exclusive, at),
         IF at = "home" THEN kind = "create" /\ (exclusive => p \notin providers)
         ELSE kind = "delete" /\ binding[a] # None
  PROVE  IInv'
<1>1. /\ UNCHANGED <<home, wrapper, providers, binding, live>>
      /\ Use("ops") /\ Meets("lam") /\ proc["app"].at = "idle"
  BY DEF Start, Idle
<1>2. PICK r : r = [id |-> used.ops + 1, kind |-> kind, account |-> a, provider |-> p,
                    exclusive |-> exclusive]
  OBVIOUS
<1>3. /\ journal' = journal \cup {r}
      /\ proc' = [proc EXCEPT !["app"] = [Process(at) EXCEPT !.rec = r]]
  BY <1>2 DEF Start
<1>4. /\ UsedOK' /\ used.ops \in Nat /\ used'.ops \in Nat /\ used'.ops = used.ops + 1
  BY <1>1, Uses DEF IInv
<1>5. r \in Records /\ r.id = used.ops + 1 /\ r.kind = kind /\ r.account = a /\ r.provider = p
      /\ r.exclusive = exclusive
  BY <1>2, <1>4 DEF Records
<1>6. /\ "app" \in Workers /\ "lam" \in Workers \ {"app"} /\ proc \in [Workers -> Processes]
  BY DEF Workers, IInv, Types
<1>7. /\ proc'["app"] = [at |-> at, rec |-> r, made |-> FALSE, todo |-> {}]
      /\ Same("app")
  BY <1>3, <1>6 DEF Same, Process
<1>8. proc'["app"].at = at /\ proc'["app"].rec = r /\ proc'["app"].todo = {}
  BY <1>7
<1>9. Employed(proc'["app"])
  <2>1. proc'["app"] \in Processes
    <3>1. at \in Creating \cup Deleting
      BY DEF Creating, Deleting
    <3> QED
      BY <1>5, <1>7, <3>1 DEF Processes
  <2> QED
    BY <1>5, <1>8, <2>1 DEF Employed, Creating, Deleting
<1>10. Progress(proc["app"])'
  BY <1>1, <1>5, <1>8 DEF Progress, Created, Deleted, Ended, Recovery, NotThere
<1>11. OneOfEach'
  <2>1. Known' \subseteq Known \cup {r}
    <3>1. proc'["lam"] = proc["lam"]
      BY <1>6, <1>7 DEF Same
    <3> QED
      BY <1>3, <1>8, <3>1 DEF Known, Workers
  <2>2. \A q \in Known : q.id <= used.ops /\ q.id \in Nat
    <3>1. \A q \in Known : q \in Records \cup {NoRecord}
      BY DEF IInv, Types, Known, Employed, Processes
    <3> QED
      BY <3>1 DEF IInv, OneOfEach, Records, NoRecord
  <2>3. \A q \in Known \cup {r} : q.id <= used'.ops
    BY <1>4, <1>5, <2>2
  <2>4. \A q, s \in Known \cup {r} : q.id = s.id => q = s
    <3>1. \A q \in Known : q.id # r.id
      BY <1>4, <1>5, <2>2
    <3>2. \A q, s \in Known : q.id = s.id => q = s
      BY DEF IInv, OneOfEach
    <3> QED
      BY <3>1, <3>2
  <2> QED
    BY <2>1, <2>3, <2>4 DEF OneOfEach
<1>12. StoresOK' /\ journal' \subseteq Records
  BY <1>1, <1>3, <1>5 DEF IInv, Types, StoresOK
<1>13. proc'["app"].at # "off" /\ proc'["lam"].at \in Recovering \cup {"off"}
  BY <1>6, <1>7, <1>8 DEF IInv, Types, Same
<1> QED
  BY <1>1, <1>4, <1>6, <1>7, <1>9, <1>10, <1>11, <1>12, <1>13, BeginInv DEF Resting

LEMMA CreateInv ==
  ASSUME IInv, NEW a \in Accounts, NEW p \in Providers, NEW new \in BOOLEAN, Create(a, p, new)
  PROVE  IInv'
<1>1. Start("create", a, p, new, "home") /\ (new => p \notin providers)
  BY DEF Create, CanCreate
<1> QED
  BY <1>1, StartInv

LEMMA DeleteInv ==
  ASSUME IInv, NEW a \in Accounts, Delete(a)
  PROVE  IInv'
<1>1. /\ binding[a] # None /\ binding[a] \in Providers /\ (binding[a] = a) \in BOOLEAN
      /\ Start("delete", a, binding[a], binding[a] = a, "detach")
  BY DEF Delete, IInv, Types, StoresOK
<1>2. PICK p \in Providers : p = binding[a]
  BY <1>1
<1>3. PICK exclusive \in BOOLEAN : exclusive = (binding[a] = a)
  BY <1>1
<1>4. Start("delete", a, p, exclusive, "detach")
  BY <1>1, <1>2, <1>3
<1> QED
  BY <1>1, <1>4, StartInv

\* Both recoveries begin with the records of the journal.
LEMMA RecoveryBegins ==
  ASSUME IInv, NEW w \in Workers, NEW v \in Workers \ {w}, Meets(v), proc[w].at \in Resting,
         proc' = [proc EXCEPT ![w] = [Process("look") EXCEPT !.todo = journal]],
         UNCHANGED <<home, wrapper, providers, binding, journal, live>>,
         UsedOK', used'.ops = used.ops
  PROVE  IInv'
<1>1. proc \in [Workers -> Processes] /\ journal \subseteq Records /\ used.ops \in Nat
  BY DEF IInv, Types
<1>2. /\ proc'[w] = [at |-> "look", rec |-> NoRecord, made |-> FALSE, todo |-> journal]
      /\ Same(w)
  BY <1>1 DEF Same, Process
<1>3. proc'[w].at = "look" /\ proc'[w].rec = NoRecord /\ proc'[w].todo = journal
  BY <1>2
<1>4. Employed(proc'[w])
  <2>1. proc'[w] \in Processes
    BY <1>1, <1>2 DEF Processes, Recovering
  <2> QED
    BY <1>3, <2>1 DEF Employed, Creating, Deleting
<1>5. Progress(proc[w])'
  BY <1>3 DEF Progress, Created, Deleted, Ended, Recovery
<1>6. OneOfEach'
  BY <1>1, <1>2, <1>3, KnownStays DEF IInv
<1>7. StoresOK' /\ journal' \subseteq Records
  BY <1>1 DEF IInv, Types, StoresOK
<1>8. proc'["app"].at # "off" /\ proc'["lam"].at \in Recovering \cup {"off"}
  BY <1>2, <1>3 DEF IInv, Types, Same, Workers, Recovering
<1> QED
  BY <1>2, <1>4, <1>5, <1>6, <1>7, <1>8, BeginInv

LEMMA StartAppInv ==
  ASSUME IInv, StartApp
  PROVE  IInv'
<1>1. /\ proc["app"].at \in Resting /\ Meets("lam")
      /\ "app" \in Workers /\ "lam" \in Workers \ {"app"}
      /\ proc' = [proc EXCEPT !["app"] = [Process("look") EXCEPT !.todo = journal]]
      /\ UNCHANGED <<home, wrapper, providers, binding, journal, live>> /\ UNCHANGED used
  BY DEF StartApp, Resting, Workers
<1>2. UsedOK' /\ used'.ops = used.ops
  BY <1>1 DEF UsedOK, IInv, Types
<1> QED
  BY <1>1, <1>2, RecoveryBegins

LEMMA LaunchInv ==
  ASSUME IInv, Launch
  PROVE  IInv'
<1>1. /\ proc["lam"].at \in Resting /\ Meets("app")
      /\ "lam" \in Workers /\ "app" \in Workers \ {"lam"}
      /\ proc' = [proc EXCEPT !["lam"] = [Process("look") EXCEPT !.todo = journal]]
      /\ UNCHANGED <<home, wrapper, providers, binding, journal, live>> /\ Use("launches")
  BY DEF Launch, Resting, Workers
<1>2. UsedOK' /\ used'.ops = used.ops
  BY <1>1, Uses DEF IInv
<1> QED
  BY <1>1, <1>2, RecoveryBegins

\* A command without a journal, of an application that does nothing else.
LEMMA CommandInv ==
  ASSUME IInv, Idle, Use("ops"), Meets("lam"), StoresOK', UNCHANGED <<journal, proc>>
  PROVE  IInv'
<1>1. /\ "app" \in Workers /\ "lam" \in Workers \ {"app"} /\ proc["app"].at \in Resting
      /\ proc["app"].at = "idle" /\ proc \in [Workers -> Processes]
  BY DEF Idle, Resting, Workers, IInv, Types
<1>2. UsedOK' /\ used.ops \in Nat /\ used'.ops \in Nat /\ used'.ops = used.ops + 1
  BY Uses DEF IInv
<1>3. Same("app") /\ Employed(proc'["app"]) /\ journal' \subseteq Records
      /\ proc'["app"].at # "off" /\ proc'["lam"].at \in Recovering \cup {"off"}
  BY <1>1 DEF Same, IInv, Types
<1>4. OneOfEach'
  BY <1>1, <1>2, <1>3, KnownStays DEF IInv
<1>5. Progress(proc["app"])'
  BY <1>1 DEF Progress, Created, Deleted, Ended, Recovery
<1> QED
  BY <1>1, <1>2, <1>3, <1>4, <1>5, BeginInv

LEMMA CommandsInv ==
  ASSUME IInv, \/ \E a \in Accounts : \/ Detach(a) \/ DeleteAccount(a)
                                      \/ \E p \in Providers : Attach(a, p)
               \/ \E p \in Providers : DeleteProvider(p)
  PROVE  IInv'
<1>1. Idle /\ Use("ops") /\ Meets("lam") /\ UNCHANGED <<journal, proc>>
  BY DEF Detach, DeleteAccount, Attach, DeleteProvider
<1>2. ASSUME NEW a \in Accounts, NEW p \in Providers, Attach(a, p) PROVE StoresOK'
  BY <1>2 DEF Attach, IInv, Types, StoresOK
<1>3. ASSUME NEW a \in Accounts, Detach(a) PROVE StoresOK'
  BY <1>3 DEF Detach, IInv, Types, StoresOK
<1>4. ASSUME NEW a \in Accounts, DeleteAccount(a) PROVE StoresOK'
  BY <1>4 DEF DeleteAccount, IInv, Types, StoresOK
<1>5. ASSUME NEW p \in Providers, DeleteProvider(p) PROVE StoresOK'
  BY <1>5 DEF DeleteProvider, IInv, Types, StoresOK
<1> QED
  BY <1>1, <1>2, <1>3, <1>4, <1>5, CommandInv

\* What a process has achieved lasts if nothing but conversations changes.
LEMMA ProgressLasts ==
  ASSUME IInv, NEW w \in Workers, proc'[w] = proc[w], Progress(proc[w]),
         UNCHANGED <<wrapper, providers, binding>>,
         \A a \in Accounts : \A f \in {"marker", "config", "key"} : f \in home'[a] <=> f \in home[a]
  PROVE  Progress(proc[w])'
<1>1. CASE proc[w].at \in Resting \cup {"look"}
  BY <1>1 DEF Progress, Created, Deleted, Ended, Recovery, Resting
<1>2. CASE proc[w].at \notin Resting \cup {"look"}
  <2>1. PICK r \in Records : /\ r = proc[w].rec /\ r.account \in Accounts
                             /\ r.provider \in Providers
    BY <1>2 DEF IInv, Types, Employed, Records
  <2>2. /\ Managed(r.account)' <=> Managed(r.account)
        /\ "config" \in home'[r.account] <=> "config" \in home[r.account]
    BY <2>1 DEF Managed
  <2>3. Ready(r.provider)' <=> Ready(r.provider)
    <3>1. Native \subseteq Accounts
      BY AccountAssumption
    <3> QED
      BY <3>1 DEF Ready
  <2>4. UsedBy(r.provider)' = UsedBy(r.provider)
    BY DEF UsedBy
  <2>5. Settled(r)' <=> Settled(r)
    BY <2>2, <2>4 DEF Settled
  <2>6. Created(proc[w])'
    BY <2>1, <2>2, <2>3 DEF Progress, Created, NotThere, Managed
  <2>7. Deleted(proc[w])'
    BY <2>1, <2>2 DEF Progress, Deleted
  <2>8. Ended(proc[w])'
    BY <2>1, <2>2, <2>3, <2>4, <2>5 DEF Progress, Ended, Managed
  <2>9. Recovery(proc[w])'
    BY <2>1, <2>2, <2>5 DEF Progress, Recovery, NotThere
  <2> QED
    BY <2>6, <2>7, <2>8, <2>9 DEF Progress
<1> QED
  BY <1>1, <1>2

LEMMA CodexWritesInv ==
  ASSUME IInv, NEW a \in Accounts, CodexWrites(a)
  PROVE  IInv'
<1>1. /\ UNCHANGED <<wrapper, providers, binding, journal, proc, live, raced>>
      /\ Use("writes") /\ home' = [home EXCEPT ![a] = @ \cup {"tree", Written(a)}]
      /\ Written(a) \in {"chats", "late"}
  BY DEF CodexWrites, Written
<1>2. UsedOK' /\ used.ops \in Nat /\ used'.ops \in Nat /\ used'.ops = used.ops
  BY <1>1, Uses DEF IInv
<1>3. \A b \in Accounts : \A f \in {"marker", "config", "key"} : f \in home'[b] <=> f \in home[b]
  BY <1>1 DEF IInv, Types, StoresOK
<1>4. StoresOK'
  BY <1>1 DEF IInv, Types, StoresOK, Files
<1>5. Types'
  BY <1>1, <1>2, <1>4 DEF IInv, Types, UsedOK
<1>6. OneOfEach'
  BY <1>1, <1>2 DEF IInv, OneOfEach, Known
<1>7. Alone'
  BY <1>1, <1>3, ProgressLasts DEF IInv, Alone
<1> QED
  BY <1>5, <1>6, <1>7 DEF IInv

LEMMA CrashInv ==
  ASSUME IInv, NEW w \in Workers, Crash(w)
  PROVE  IInv'
<1>1. /\ UNCHANGED <<home, wrapper, providers, binding, journal, live, raced>>
      /\ proc[w].at \notin {"down", "off"} /\ Fault
  BY DEF Crash
<1>2. PICK at \in {"down", "off"} :
        /\ proc' = [proc EXCEPT ![w] = Process(at)] /\ (at = "off" <=> w = "lam")
  BY DEF Crash, Workers
<1>3. proc \in [Workers -> Processes]
  BY DEF IInv, Types
<1>4. Ends(w) /\ proc'[w] = Process(at)
  BY <1>2, <1>3 DEF Ends, Same, Resting
<1>5. StoresOK'
  BY <1>1 DEF IInv, Types, StoresOK
<1>6. CASE proc[w].at \notin Resting
  BY <1>1, <1>4, <1>5, <1>6, EndInv
<1>7. CASE proc[w].at \in Resting
  <2>1. w = "app"
    BY <1>1, <1>7 DEF IInv, Types, Workers, Resting, Recovering
  <2>2. /\ proc'[w].at = at /\ proc'[w].rec = NoRecord /\ proc'[w].todo = {}
        /\ Employed(proc'[w]) /\ at \in Resting /\ Same(w)
    BY <1>4, EndedIsEmployed DEF Resting, Ends
  <2>3. UsedOK' /\ used.ops \in Nat /\ used'.ops = used.ops
    BY <1>1, FaultUses DEF IInv, Types, UsedOK
  <2>4. Types'
    <3>1. proc' \in [Workers -> Processes] /\ \A v \in Workers : Employed(proc'[v])
      BY <1>3, <2>2 DEF IInv, Types, Same, Employed
    <3>2. proc'["app"].at # "off" /\ proc'["lam"].at \in Recovering \cup {"off"}
      BY <1>2, <2>1, <2>2 DEF IInv, Types, Same, Workers
    <3> QED
      BY <1>1, <1>5, <2>3, <3>1, <3>2 DEF IInv, Types, UsedOK
  <2>5. OneOfEach'
    BY <1>1, <2>2, <2>3, KnownStays DEF IInv
  <2>6. ASSUME ~raced PROVE \A v \in Workers : Progress(proc[v])'
    <3>1. Progress(proc[w])'
      BY <2>2 DEF Progress, Created, Deleted, Ended, Recovery, Resting
    <3>2. ASSUME NEW v \in Workers \ {w} PROVE Progress(proc[v])'
      BY <1>1, <2>2, <2>6, <3>2, ProgressLasts DEF IInv, Alone, Same
    <3> QED
      BY <3>1, <3>2
  <2>7. Alone'
    BY <1>1, <2>2, <2>6 DEF Alone
  <2> QED
    BY <2>4, <2>5, <2>7 DEF IInv
<1> QED
  BY <1>6, <1>7

-----------------------------------------------------------------------------
(* Every step *)

LEMMA InitInv ==
  ASSUME Init
  PROVE  IInv
<1>1. /\ proc["app"] = Process("idle") /\ proc["lam"] = Process("off")
      /\ DOMAIN proc = Workers
  BY DEF Init, Workers
<1>2. /\ proc["app"].at = "idle" /\ proc["lam"].at = "off"
      /\ \A w \in Workers : /\ proc[w].at \in Resting /\ Employed(proc[w])
                            /\ proc[w].rec = NoRecord /\ proc[w].todo = {}
  BY <1>1, EndedIsEmployed DEF Workers, Resting
<1>3. StoresOK /\ journal \subseteq Records /\ raced \in BOOLEAN
  BY DEF Init, StoresOK, Providers
<1>4. proc \in [Workers -> Processes]
  <2>1. proc = [w \in Workers |-> IF w = "app" THEN Process("idle") ELSE Process("off")]
    BY DEF Init, Workers
  <2>2. Process("idle") \in Processes /\ Process("off") \in Processes
    BY EndedIsEmployed DEF Employed, Resting
  <2> QED
    BY <2>1, <2>2
<1>5. used \in [ops : Nat, faults : Nat, launches : Nat, writes : Nat] /\ used.ops = 0
  BY DEF Init
<1>6. Types
  BY <1>2, <1>3, <1>4, <1>5 DEF Types
<1>7. OneOfEach
  <2>1. Known \subseteq {NoRecord}
    BY <1>2 DEF Known, Init
  <2>2. NoRecord.id = 0
    BY DEF NoRecord
  <2> QED
    BY <1>5, <2>1, <2>2 DEF OneOfEach
<1>8. \A w \in Workers : Progress(proc[w])
  BY <1>2, RestingProgress
<1> QED
  BY <1>2, <1>6, <1>7, <1>8 DEF IInv, Alone, Workers

LEMMA IInvStep ==
  ASSUME IInv, [Next]_vars
  PROVE  IInv'
<1>1. CASE UNCHANGED vars
  <2>1. UNCHANGED <<home, wrapper, providers, binding, journal, proc, live, used, raced>>
    BY <1>1 DEF vars
  <2>2. Types'
    BY <2>1 DEF IInv, Types, StoresOK
  <2>3. OneOfEach'
    BY <2>1 DEF IInv, OneOfEach, Known
  <2>4. Alone'
    BY <2>1, ProgressLasts DEF IInv, Alone
  <2> QED
    BY <2>2, <2>3, <2>4 DEF IInv
<1>2. CASE Work
  BY <1>2, MakeHomeInv, WriteConfigInv, WriteKeyInv, MakeProviderInv, AttachNewInv, WriteCatalogInv,
     ClearRecordInv, UndoCreationInv, DetachOldInv, StopCodexInv, RemoveOldInv, VerifyInv, ReleaseInv,
     RestoreInv DEF Work
<1>3. CASE StartApp \/ Launch
  BY <1>3, StartAppInv, LaunchInv
<1>4. CASE \E a \in Accounts : \/ Detach(a) \/ DeleteAccount(a)
                               \/ \E p \in Providers : Attach(a, p)
  BY <1>4, CommandsInv
<1>5. CASE \E p \in Providers : DeleteProvider(p)
  BY <1>5, CommandsInv
<1>6. CASE \E a \in Accounts : \/ Delete(a) \/ CodexWrites(a)
                               \/ \E p \in Providers, new \in BOOLEAN : Create(a, p, new)
  BY <1>6, DeleteInv, CodexWritesInv, CreateInv
<1>7. CASE \E w \in Workers : RecoveryStep(w) \/ Crash(w)
  BY <1>7, LookInv, RecoverInv, ForgetRecordInv, RecoveredInv, CrashInv DEF RecoveryStep
<1> QED
  BY <1>1, <1>2, <1>3, <1>4, <1>5, <1>6, <1>7 DEF Next, Workers

LEMMA IInvHolds == Spec => []IInv
BY InitInv, IInvStep, PTL DEF Spec

-----------------------------------------------------------------------------
(* What follows *)

\* Whoever is told that an account was created, or deleted, finds it so, for any
\* accounts and any numbers of operations, launches, failures and crashes
\* (execute_api_account, delete_api_account).
THEOREM SuccessHolds == Spec => []SuccessIsWhole
<1>1. ASSUME IInv PROVE SuccessIsWhole
  <2>1. TypeOK
    <3>1. journal \subseteq Known
      BY DEF Known
    <3> QED
      BY <1>1, <3>1 DEF TypeOK, IInv, Types, StoresOK, OneOfEach
  <2>2. ASSUME ~raced, proc.app.at = "done"
        PROVE  Ended(proc["app"]) /\ proc["app"].at = "done" /\ Busy = proc["app"].rec
    BY <1>1, <2>2 DEF IInv, Alone, Progress, Busy, Workers
  <2> QED
    BY <2>1, <2>2 DEF SuccessIsWhole, Ended, Account, Provider
<1> QED
  BY <1>1, IInvHolds, PTL

\* A record is cleared only when its operation is over: the account is attached,
\* or no exclusive Provider and no account to be deleted is left behind
\* (compensate_api_account_creation, recover_api_account_transactions_at_root).
THEOREM RecordsSettle == Spec => RecordsEndSettled
<1>1. ASSUME IInv, [Next]_vars
      PROVE  [~raced => \A r \in journal \ journal' : Settled(r)']_vars
  <2>1. CASE UNCHANGED vars
    BY <2>1 DEF vars
  <2>2. CASE ClearRecord
    BY <1>1, <2>2, ClearRecordInv
  <2>3. CASE \E w \in Workers : ForgetRecord(w)
    BY <1>1, <2>3, ForgetRecordInv
  <2>4. CASE journal \subseteq journal'
    BY <2>4
  <2>5. ASSUME Work, ~ClearRecord PROVE journal \subseteq journal'
    BY <2>5 DEF Work, MakeHome, WriteConfig, WriteKey, MakeProvider, AttachNew, WriteCatalog,
                UndoCreation, DetachOld, StopCodex, RemoveOld, Verify, Release, Restore
  <2>6. ASSUME StartApp \/ Launch PROVE journal \subseteq journal'
    BY <2>6 DEF StartApp, Launch
  <2>7. ASSUME NEW a \in Accounts, \/ Delete(a) \/ Detach(a) \/ DeleteAccount(a) \/ CodexWrites(a)
                                   \/ \E p \in Providers : Attach(a, p)
                                   \/ \E p \in Providers, new \in BOOLEAN : Create(a, p, new)
        PROVE  journal \subseteq journal'
    BY <2>7 DEF Delete, Create, Start, Detach, DeleteAccount, CodexWrites, Attach
  <2>8. ASSUME NEW p \in Providers, DeleteProvider(p) PROVE journal \subseteq journal'
    BY <2>8 DEF DeleteProvider
  <2>9. ASSUME NEW w \in Workers, RecoveryStep(w) \/ Crash(w), ~ForgetRecord(w)
        PROVE  journal \subseteq journal'
    BY <2>9 DEF RecoveryStep, Look, Recover, Recovered, Crash
  <2> QED
    BY <1>1, <2>1, <2>2, <2>3, <2>4, <2>5, <2>6, <2>7, <2>8, <2>9 DEF Next, Workers
<1> QED
  BY <1>1, IInvHolds, PTL DEF Spec, RecordsEndSettled

-----------------------------------------------------------------------------
(* What Codex has written                                                    *)

\* A process that is about to remove a home has found no conversation in it, and
\* what Codex has written since is late.
Removals == {"undo home", "clear home"}
Looked == \A w \in Workers : proc[w].at \in Removals => "chats" \notin home[proc[w].rec.account]

\* The home of a process that removes one is an account's.
LEMMA RemovalsAreOfAccounts ==
  ASSUME IInv, NEW w \in Workers, proc[w].at \in Removals
  PROVE  proc[w].rec.account \in Accounts
<1>1. proc[w].at \notin Resting \cup {"look"}
  BY DEF Removals, Resting
<1> QED
  BY <1>1 DEF IInv, Types, Employed, Records

\* Only Codex writes conversations.
LEMMA OnlyCodexWrites ==
  ASSUME IInv, Next, NEW a \in Accounts, "chats" \in home'[a], "chats" \notin home[a]
  PROVE  CodexWrites(a) /\ ~Removing(a)
<1>0. home \in [Accounts -> SUBSET Files]
  BY DEF IInv, Types, StoresOK
<1>1. ASSUME NEW b, NEW files, home' = [home EXCEPT ![b] = @ \cup files], "chats" \notin files
      PROVE  FALSE
  BY <1>0, <1>1
<1>10. ASSUME MakeHome \/ WriteConfig \/ WriteKey PROVE FALSE
  <2>1. CASE MakeHome
    BY <1>1, <2>1 DEF MakeHome
  <2>2. CASE WriteConfig \/ WriteKey
    BY <1>1, <2>2 DEF WriteConfig, WriteKey
  <2> QED
    BY <1>10, <2>1, <2>2
<1>2. ASSUME NEW w, NEW b, NEW next, NEW Fail, RemoveHome(w, b, next, Fail) PROVE FALSE
  BY <1>0, <1>2 DEF RemoveHome
<1>3. ASSUME UndoCreation \/ RemoveOld PROVE FALSE
  BY <1>2, <1>3 DEF UndoCreation, RemoveOld
<1>4. ASSUME NEW w \in Workers, RecoveryStep(w) \/ Crash(w) PROVE FALSE
  BY <1>2, <1>4 DEF RecoveryStep, Look, Recover, ForgetRecord, Recovered, Crash
<1>5. ASSUME NEW b \in Accounts, DeleteAccount(b) PROVE FALSE
  BY <1>0, <1>5 DEF DeleteAccount
<1>6. ASSUME \/ MakeProvider \/ AttachNew \/ WriteCatalog \/ ClearRecord \/ DetachOld \/ StopCodex
             \/ Verify \/ Release \/ Restore \/ StartApp \/ Launch
      PROVE  FALSE
  BY <1>6 DEF MakeProvider, AttachNew, WriteCatalog, ClearRecord, DetachOld, StopCodex, Verify,
              Release, Restore, StartApp, Launch
<1>7. ASSUME \/ \E b \in Accounts : \/ Delete(b) \/ Detach(b)
                                    \/ \E p \in Providers : Attach(b, p)
                                    \/ \E p \in Providers, new \in BOOLEAN : Create(b, p, new)
             \/ \E p \in Providers : DeleteProvider(p)
      PROVE  FALSE
  BY <1>7 DEF Delete, Create, Start, Detach, Attach, DeleteProvider
<1>8. PICK b \in Accounts : CodexWrites(b)
  BY <1>3, <1>4, <1>5, <1>6, <1>7, <1>10 DEF Next, Work, Workers
<1>9. a = b /\ Written(a) = "chats"
  BY <1>0, <1>8 DEF CodexWrites
<1> QED
  BY <1>8, <1>9 DEF Written

\* A process gets to the removal of a home from the checks before it.
LEMMA RemovalsAreChecked ==
  ASSUME IInv, [Next]_vars, NEW w \in Workers, proc'[w].at \in Removals
  PROVE  \/ proc'[w] = proc[w]
         \/ /\ proc'[w].rec = proc[w].rec /\ UNCHANGED home
            /\ "chats" \notin home[proc[w].rec.account]
<1>0. proc \in [Workers -> Processes] /\ "app" \in Workers
  BY DEF IInv, Types, Workers
<1>1. ASSUME NEW v \in Workers, Abandon(v), v = w PROVE FALSE
  <2>1. PICK at \in Resting : proc'[w] = Process(at)
    BY <1>1, AbandonEnds DEF IInv, Ends
  <2> QED
    BY <2>1, EndedIsEmployed DEF Resting, Removals
<1>2. ASSUME NEW v \in Workers, NEW at, Go(v, at), at \notin Removals, v = w PROVE FALSE
  BY <1>0, <1>2 DEF Go
<1>3. ASSUME NEW v \in Workers, NEW at, Go(v, at) \/ Abandon(v), v # w PROVE proc'[w] = proc[w]
  BY <1>0, <1>3 DEF Go, Abandon
<1>4. ASSUME NEW v \in Workers, NEW at, Go(v, at) \/ Abandon(v), at \notin Removals
      PROVE  proc'[w] = proc[w]
  BY <1>1, <1>2, <1>3, <1>4
<1>16. ASSUME NEW v \in Workers, Abandon(v) PROVE proc'[w] = proc[w]
  <2>1. "look" \notin Removals
    BY DEF Removals
  <2> QED
    BY <1>4, <1>16, <2>1
<1>5. ASSUME NEW v \in Workers, NEW at, RollBack(v, proc[v].rec.account, at), UNCHANGED home
      PROVE  \/ proc'[w] = proc[w]
             \/ /\ proc'[w].rec = proc[w].rec /\ UNCHANGED home
                /\ "chats" \notin home[proc[w].rec.account]
  <2>1. CASE Go(v, at) /\ CanRollBack(proc[v].rec.account) /\ v = w
    BY <1>0, <1>5, <2>1 DEF Go, CanRollBack, Processes
  <2>2. CASE (Go(v, at) \/ Abandon(v)) /\ v # w
    BY <1>3, <2>2
  <2>3. CASE Abandon(v) /\ v = w
    BY <1>1, <2>3
  <2> QED
    BY <1>5, <2>1, <2>2, <2>3 DEF RollBack
<1>6. ASSUME NEW at, at \notin Removals, Go("app", at) \/ Abandon("app") PROVE proc'[w] = proc[w]
  BY <1>0, <1>4, <1>6
<1>7. ASSUME \/ MakeHome \/ WriteConfig \/ WriteKey \/ AttachNew \/ WriteCatalog
             \/ ClearRecord \/ DetachOld \/ StopCodex \/ RemoveOld \/ Verify \/ Release \/ Restore
      PROVE  \E at : at \notin Removals /\ (Go("app", at) \/ Abandon("app"))
  <2>1. CASE MakeHome
    BY <2>1 DEF MakeHome, Then, Fails, Removals
  <2>2. CASE WriteConfig
    BY <2>2 DEF WriteConfig, Advance, Fails, Removals
  <2>3. CASE WriteKey
    BY <2>3 DEF WriteKey, Then, Fails, Removals
  <2>4. CASE AttachNew
    BY <2>4 DEF AttachNew, Then, Fails, Undo, Removals
  <2>5. CASE WriteCatalog
    BY <2>5 DEF WriteCatalog, Then, Fails, Undo, Removals
  <2>6. CASE ClearRecord
    BY <2>6 DEF ClearRecord, Removals
  <2>7. CASE DetachOld
    BY <2>7 DEF DetachOld, Advance, Fails, Removals
  <2>8. CASE StopCodex
    BY <2>8 DEF StopCodex, Then, Fails, Removals
  <2>9. CASE RemoveOld
    BY <2>9 DEF RemoveOld, RemoveHome, Removals
  <2>10. CASE Verify
    BY <2>10 DEF Verify, Then, Fails, Advance, Removals
  <2>11. CASE Release
    BY <2>11 DEF Release, Then, DropProvider, Removals
  <2>12. CASE Restore
    BY <2>12 DEF Restore, Reattach, Removals
  <2> QED
    BY <1>7, <2>1, <2>2, <2>3, <2>4, <2>5, <2>6, <2>7, <2>8, <2>9, <2>10, <2>11, <2>12
<1>8. ASSUME MakeProvider PROVE proc'[w] = proc[w]
  <2>1. CASE proc' = [proc EXCEPT !.app.at = "attach", !.app.made = Busy.exclusive]
    BY <1>0, <2>1 DEF Processes, Removals
  <2>2. \/ proc' = [proc EXCEPT !.app.at = "attach", !.app.made = Busy.exclusive]
        \/ Abandon("app") \/ Go("app", "undo account")
    BY <1>8 DEF MakeProvider, Then, Fails
  <2>3. "undo account" \notin Removals
    BY DEF Removals
  <2> QED
    BY <1>0, <1>6, <1>16, <2>1, <2>2, <2>3
<1>9. CASE UndoCreation
  <2>1. CASE proc.app.at = "undo account"
    BY <1>0, <1>5, <1>9, <2>1 DEF UndoCreation, Account, Busy
  <2>2. CASE proc.app.at # "undo account"
    <3>1. \E at : at \notin Removals /\ (Go("app", at) \/ Abandon("app"))
      BY <1>9, <2>2 DEF UndoCreation, DropProvider, RemoveHome, DropWrapper, Removals
    <3> QED
      BY <1>6, <3>1
  <2> QED
    BY <2>1, <2>2
<1>10. CASE \E v \in Workers : Recover(v)
  <2>1. PICK v \in Workers : Recover(v)
    BY <1>10
  <2>2. CASE proc[v].at = "roll back" /\ Listed(proc[v].rec.account)
    BY <1>5, <2>1, <2>2 DEF Recover
  <2>3. CASE ~(proc[v].at = "roll back" /\ Listed(proc[v].rec.account))
    <3>1. \E at : at \notin Removals /\ (Go(v, at) \/ Abandon(v))
      BY <2>1, <2>3 DEF Recover, DropProvider, RemoveHome, DropWrapper, Reattach, Removals
    <3> QED
      BY <1>4, <3>1
  <2> QED
    BY <2>2, <2>3
<1>11. ASSUME NEW v \in Workers, Look(v) \/ ForgetRecord(v) \/ Recovered(v) \/ Crash(v)
       PROVE  proc'[w] = proc[w]
  <2>1. CASE Look(v)
    <3>1. PICK r : proc' = [proc EXCEPT ![v].at = StepFor(r), ![v].rec = r, ![v].todo = @ \ {r}]
      BY <2>1 DEF Look
    <3>2. StepFor(r) \notin Removals
      BY DEF StepFor, Removals
    <3> QED
      BY <1>0, <3>1, <3>2 DEF Processes
  <2>2. CASE ForgetRecord(v)
    <3>1. CASE Abandon(v)
      BY <1>16, <3>1
    <3>2. CASE proc' = [proc EXCEPT ![v].at = "look", ![v].rec = NoRecord]
      BY <1>0, <3>2 DEF Processes, Removals
    <3> QED
      BY <2>2, <3>1, <3>2 DEF ForgetRecord
  <2>3. CASE Recovered(v)
    <3>1. \E at : at \notin Removals /\ (Go(v, at) \/ Abandon(v))
      BY <2>3 DEF Recovered, Removals
    <3> QED
      BY <1>4, <3>1
  <2>4. CASE Crash(v)
    BY <1>0, <2>4 DEF Crash, Process, Removals
  <2> QED
    BY <1>11, <2>1, <2>2, <2>3, <2>4
<1>12. ASSUME StartApp \/ Launch PROVE proc'[w] = proc[w]
  BY <1>0, <1>12 DEF StartApp, Launch, Process, Removals
<1>13. ASSUME NEW a \in Accounts, Delete(a) \/ \E p \in Providers, new \in BOOLEAN : Create(a, p, new)
       PROVE  proc'[w] = proc[w]
  BY <1>0, <1>13 DEF Delete, Create, Start, Process, Removals
<1>14. ASSUME \/ \E a \in Accounts : \/ Detach(a) \/ DeleteAccount(a) \/ CodexWrites(a)
                                     \/ \E p \in Providers : Attach(a, p)
              \/ \E p \in Providers : DeleteProvider(p)
       PROVE  proc'[w] = proc[w]
  BY <1>14 DEF Detach, DeleteAccount, CodexWrites, Attach, DeleteProvider
<1>15. CASE UNCHANGED vars
  BY <1>15 DEF vars
<1> QED
  BY <1>6, <1>7, <1>8, <1>9, <1>10, <1>11, <1>12, <1>13, <1>14, <1>15
     DEF Next, Work, RecoveryStep, Workers

LEMMA LookedStep ==
  ASSUME IInv, Looked, [Next]_vars
  PROVE  Looked'
<1> SUFFICES ASSUME NEW w \in Workers, proc'[w].at \in Removals
             PROVE  "chats" \notin home'[proc'[w].rec.account]
  BY DEF Looked
<1>1. CASE proc'[w] = proc[w]
  <2>1. "chats" \notin home[proc[w].rec.account] /\ proc[w].rec.account \in Accounts
    BY <1>1, RemovalsAreOfAccounts DEF Looked
  <2>2. Removing(proc[w].rec.account)
    BY <1>1 DEF Removing, Removals, Workers
  <2>3. CASE UNCHANGED vars
    BY <1>1, <2>1, <2>3 DEF vars
  <2> QED
    BY <1>1, <2>1, <2>2, <2>3, OnlyCodexWrites
<1> QED
  BY <1>1, RemovalsAreChecked

LEMMA LookedHolds == Spec => []Looked
<1>1. ASSUME Init PROVE Looked
  <2>1. proc["app"] = Process("idle") /\ proc["lam"] = Process("off")
    BY <1>1 DEF Init
  <2>2. \A w \in Workers : proc[w].at \in {"idle", "off"}
    BY <2>1 DEF Process, Workers
  <2> QED
    BY <2>2 DEF Looked, Removals
<1> QED
  BY <1>1, IInvHolds, LookedStep, PTL DEF Spec

\* A conversation is lost only when its account is deleted on request, or when
\* Codex wrote it after the check of the process that removes the home
\* (rollback_created_account looks once, delete_account is asked to).
THEOREM ChatsLast == Spec => ChatsAreKept
<1>1. ASSUME IInv, Looked, [Next]_vars
      PROVE  [\A a \in Accounts : \A chat \in {"chats", "late"} \cap (home[a] \ home'[a]) :
                \/ proc.app.at = "remove" /\ Account = a
                \/ DeleteAccount(a)
                \/ chat = "late" /\ Removing(a)]_vars
  <2> DEFINE Lost(a) == {"chats", "late"} \cap (home[a] \ home'[a]) # {}
             OnlyLate(a) == Removing(a) /\ ~("chats" \in home[a] /\ "chats" \notin home'[a])
  <2>0. home \in [Accounts -> SUBSET Files] /\ "app" \in Workers
    BY <1>1 DEF IInv, Types, StoresOK, Workers
  <2>1. ASSUME MakeHome \/ WriteConfig \/ WriteKey PROVE \A a \in Accounts : ~Lost(a)
    BY <2>0, <2>1 DEF MakeHome, WriteConfig, WriteKey
  <2>2. ASSUME NEW w \in Workers, proc[w].at \in Removals, NEW next, NEW Fail,
               RemoveHome(w, proc[w].rec.account, next, Fail)
        PROVE  \A a \in Accounts : Lost(a) => OnlyLate(a)
    <3>1. Removing(proc[w].rec.account) /\ "chats" \notin home[proc[w].rec.account]
      BY <1>1, <2>2 DEF Removing, Removals, Workers, Looked
    <3> QED
      BY <2>0, <2>2, <3>1 DEF RemoveHome
  <2>3. ASSUME UndoCreation PROVE \A a \in Accounts : Lost(a) => OnlyLate(a)
    <3>1. CASE proc.app.at = "undo home"
      BY <2>0, <2>2, <2>3, <3>1 DEF UndoCreation, Account, Busy, Removals
    <3>2. CASE UNCHANGED home
      BY <3>2
    <3> QED
      BY <2>3, <3>1, <3>2 DEF UndoCreation
  <2>4. ASSUME NEW w \in Workers, RecoveryStep(w) \/ Crash(w)
        PROVE  \A a \in Accounts : Lost(a) => OnlyLate(a)
    <3>1. CASE Recover(w) /\ proc[w].at = "clear home"
      BY <2>2, <3>1 DEF Recover, Removals
    <3>2. CASE UNCHANGED home
      BY <3>2
    <3> QED
      BY <2>4, <3>1, <3>2 DEF RecoveryStep, Look, Recover, ForgetRecord, Recovered, Crash
  <2>5. ASSUME RemoveOld, NEW a \in Accounts, Lost(a) PROVE proc.app.at = "remove" /\ Account = a
    BY <2>0, <2>5 DEF RemoveOld, RemoveHome
  <2>6. ASSUME NEW b \in Accounts, DeleteAccount(b), NEW a \in Accounts, Lost(a) PROVE a = b
    BY <2>0, <2>6 DEF DeleteAccount
  <2>7. ASSUME NEW b \in Accounts, CodexWrites(b) PROVE \A a \in Accounts : ~Lost(a)
    BY <2>0, <2>7 DEF CodexWrites
  <2>8. ASSUME \/ MakeProvider \/ AttachNew \/ WriteCatalog \/ ClearRecord \/ DetachOld \/ StopCodex
               \/ Verify \/ Release \/ Restore \/ StartApp \/ Launch
        PROVE  UNCHANGED home
    BY <2>8 DEF MakeProvider, AttachNew, WriteCatalog, ClearRecord, DetachOld, StopCodex, Verify,
                Release, Restore, StartApp, Launch
  <2>9. ASSUME \/ \E a \in Accounts : \/ Delete(a) \/ Detach(a)
                                      \/ \E p \in Providers : Attach(a, p)
                                      \/ \E p \in Providers, new \in BOOLEAN : Create(a, p, new)
               \/ \E p \in Providers : DeleteProvider(p)
        PROVE  UNCHANGED home
    BY <2>9 DEF Delete, Create, Start, Detach, Attach, DeleteProvider
  <2>10. CASE UNCHANGED vars
    BY <2>10 DEF vars
  <2>11. ASSUME Next, NEW a \in Accounts, Lost(a)
         PROVE  \/ proc.app.at = "remove" /\ Account = a
                \/ DeleteAccount(a)
                \/ OnlyLate(a)
    <3>1. CASE \E b \in Accounts : DeleteAccount(b)
      BY <2>6, <2>11, <3>1
    <3>2. CASE RemoveOld
      BY <2>5, <2>11, <3>2
    <3> QED
      BY <2>1, <2>3, <2>4, <2>7, <2>8, <2>9, <2>11, <3>1, <3>2 DEF Next, Work, Workers
  <2> QED
    BY <1>1, <2>10, <2>11
<1> QED
  BY <1>1, IInvHolds, LookedHolds, PTL DEF Spec, ChatsAreKept
=============================================================================
