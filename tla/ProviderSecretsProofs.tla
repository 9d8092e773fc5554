------------------------- MODULE ProviderSecretsProofs -------------------------
(* Proofs about ProviderSecrets, for any Providers, any numbers of operations,   *)
(* launches, reads and failures: no key is lost and none is left behind, and a   *)
(* connection update happens as a whole or not at all.                           *)
EXTENDS ProviderSecrets, FiniteSetTheorems, FunctionTheorems, TLAPS

-----------------------------------------------------------------------------
(* The inductive invariant *)

Editing == {"load", "temp", "rename"}
KeySteps == {"write auth", "delete item", "adopt", "rebind native", "disown",
             "restore item", "remove auth"}
Migrating == KeySteps \cup {"next"}
Ats == Resting \cup Editing \cup Migrating \cup Updating \cup {"repoint", "reproject", "hash"}

Total == Cardinality(Providers)
Firsts == 1..Total
Items == [p : Native, key : Keys \cup {Gone}]
Edits == [add : SUBSET Keys, del : SUBSET Keys]
Olds == [auth : Keys \cup {None}, url : Nat, bound : Nat]
Records == [at : Ats, p : Providers \cup {None}, key : Keys \cup {0, None},
            old : Keys \cup {Gone, Profile}, seen : SUBSET Keys, edit : Edits,
            next : Ats, fail : Ats, todo : SUBSET Items, was : Olds]

\* Where each process can be, and what its record then holds.
AppRecord ==
  LET k == proc["app"] IN
  /\ k.at \in Editing => /\ k.next \in {"repoint", "idle"} /\ k.fail = "idle" /\ k.p \in Providers
                         /\ k.next = "idle" => k.edit.add = {}
  /\ k.at = "repoint" \/ (k.at \in Editing /\ k.next = "repoint") =>
       /\ k.p \in Providers /\ k.key \in Keys \ Firsts /\ k.key <= Total + used.ops
       /\ \A p \in Providers : source[p] # k.key
       /\ k.at \in Editing => k.edit = [add |-> {k.key}, del |-> {}]
  /\ k.at \in Updating \cup {"reproject", "hash"} => k.p \in Native
  /\ k.at \in Updating => k.key \in Keys \cup {None}
SidecarRecord ==
  LET k == proc["sidecar"] IN
  /\ k.at \in Editing \cup {"off"}
  /\ k.at \in Editing => k.edit.del = {} /\ k.next = "off" /\ k.fail = "off"
MigrationRecord(w) ==
  LET k == proc[w] IN
  /\ \A i, j \in k.todo : i.p = j.p => i = j
  /\ k.at \in KeySteps => k.p \in Native /\ k.key \in Firsts /\ \A item \in k.todo : item.p # k.p
LamPlaces == Migrating \cup {"off"}
Counts == [ops : 0..MaxOps, faults : 0..MaxFaults, launches : Nat, reads : Nat]

Types ==
  /\ TypeOK
  /\ proc \in [Workers -> Records]
  /\ used \in Counts
  /\ chain \subseteq Firsts
  /\ \A p \in Plain : source[p] # Profile
  /\ \A p \in Providers : source[p] \in Keys => source[p] <= Total + used.ops
  /\ AppRecord /\ SidecarRecord
  /\ proc["lam"].at \in LamPlaces /\ proc["app"].at # "off"
  /\ \A w \in {"app", "lam"} : MigrationRecord(w)

\* One process at a time rewrites the file, so it knows what is in it.
FileIsSeen ==
  ~raced \/ used.reads = 0 =>
    /\ used.reads = 0 => proc["sidecar"].at = "off"
    /\ ~(proc["app"].at \in {"temp", "rename"} /\ proc["sidecar"].at \in {"temp", "rename"})
    /\ \A w \in {"app", "sidecar"} : LET k == proc[w] IN
         /\ k.at = "temp" => k.seen = file
         /\ k.at = "rename" => temp # None /\ temp = (file \ k.edit.del) \cup k.edit.add

\* No two Providers have the same key, the entry that is taken out is nobody's,
\* and the one that is about to be referred to is there.
KeysAreKept ==
  /\ \A p, q \in Providers : source[p] = source[q] /\ source[p] \in Keys => p = q
  /\ \A p \in Providers : Somewhere(p)
  /\ proc["app"].at \in Editing => \A p \in Providers : source[p] \notin proc["app"].edit.del
  /\ proc["app"].at = "repoint" => proc["app"].key \in file

\* What a migration knows of the key it moves, and of those left to move.
KeyIsKnown(w) ==
  LET k == proc[w] IN
  /\ k.at \in KeySteps => \A item \in k.todo : item.key # k.key
  /\ k.at \in {"write auth", "delete item", "remove auth"} =>
       source[k.p] = k.key /\ k.key \in chain
  /\ k.at \in {"delete item", "adopt", "rebind native", "disown", "restore item"} =>
       auth[k.p] = k.key
  /\ k.at \in {"adopt", "restore item"} => source[k.p] = k.key
  /\ k.at \in {"rebind native", "disown"} =>
       source[k.p] = Profile /\ \A q \in Providers : source[q] # k.key
TodoIsKnown(w) ==
  proc[w].at \in Migrating =>
    \A item \in proc[w].todo : item.key \in chain => source[item.p] = item.key

\* While one process migrates the other does not work; after the start of the
\* application no account has its key in the Keychain.
OneMigrates ==
  /\ proc["app"].at \in Migrating =>
       /\ proc["lam"].at = "off" /\ KeyIsKnown("app") /\ TodoIsKnown("app")
       /\ \A p \in Native : source[p] \in chain =>
            \/ [p |-> p, key |-> source[p]] \in proc["app"].todo
            \/ proc["app"].at \in KeySteps /\ p = proc["app"].p
  /\ proc["app"].at = "down" => KeyIsKnown("lam") /\ TodoIsKnown("lam")
  /\ proc["app"].at \notin {"down"} \cup Migrating =>
       /\ \A p \in Native : source[p] \notin chain
       /\ proc["lam"].at \in {"off", "next"}
       /\ proc["lam"].at = "next" => \A item \in proc["lam"].todo : item.key \notin chain

\* How far a connection update has come, whose record is k: what is stored of its
\* Provider, key, settings and binding, whether the page's revision is still the
\* latest, whether config.toml has its hash, and how many steps have failed.
UpdateFits(k, src, key, settings, binding, latest, same, faults) ==
  /\ k.at \in Updating =>
       /\ src = Profile /\ k.was.auth # None /\ k.key \in Keys
       /\ settings = IF k.at \in {"rebind", "unsave"} THEN k.was.url + 1 ELSE k.was.url
       /\ binding = k.was.bound /\ latest
  /\ k.at \in {"refresh", "stage"} => key = k.was.auth
  /\ k.at \in {"save", "rebind", "unsave"} => key = k.key
  /\ k.at \in {"stage", "save", "rebind"} /\ ~same => faults > 0
  /\ k.at \in {"unsave", "restore key"} => faults > 0
UpdateIsKnown ==
  LET k == proc["app"] p == k.p IN
  UpdateFits(k, source[p], auth[p], url[p], bound[p], "app" \in current, p \in synced, used.faults)

Alone == ~raced => KeysAreKept /\ OneMigrates /\ UpdateIsKnown

\* While nothing has failed and nobody has read, an entry without a Provider is
\* one that is being added or taken out, and no key is in both stores.
Pending(key) ==
  LET k == proc["app"] IN
  \/ k.at \in Editing /\ key \in k.edit.del
  \/ k.at = "repoint" /\ key = k.key
NothingStray ==
  used.faults = 0 /\ used.reads = 0 =>
    /\ \A key \in file : Pending(key) \/ \E p \in Providers : source[p] = key
    /\ file \cap chain = {}
    /\ \A w \in {"app", "lam"} : proc[w].at \in KeySteps => proc[w].key \notin file

IInv == Types /\ FileIsSeen /\ Alone /\ NothingStray

-----------------------------------------------------------------------------
(* Keys and records *)

LEMMA KeysAre ==
  /\ Total \in Nat /\ Firsts \subseteq Keys /\ Keys \subseteq Nat \ {0}
  /\ Keys \cap {None, Gone, Profile} = {} /\ Profile \notin {None, Gone}
  /\ \A n \in 0..MaxOps : n < MaxOps =>
       /\ Total + n + 1 \in Keys \ Firsts
       /\ \A m \in Keys : m <= Total + n => m # Total + n + 1
<1>1. Total \in Nat
  BY SecretsAssumption, FS_CardinalityType DEF Total, Providers
<1> QED
  BY <1>1, SecretsAssumption DEF Keys, Firsts, Total

LEMMA Later ==
  ASSUME NEW m \in Nat, NEW n \in Nat, n <= m
  PROVE  \A k \in Keys : k <= Total + n => k <= Total + m
BY KeysAre

LEMMA WorkerIs ==
  ASSUME NEW at \in Ats
  PROVE  /\ Worker(at) \in Records
         /\ Worker(at).at = at /\ Worker(at).todo = {} /\ Worker(at).p = None
         /\ Worker(at).edit = [add |-> {}, del |-> {}]
BY DEF Worker, Nothing, Records, Edits, Olds

LEMMA MovedIs ==
  ASSUME proc \in [Workers -> Records], NEW w \in Workers, NEW at \in Ats
  PROVE  /\ Moved(w, at) \in Records /\ Moved(w, at).at = at
         /\ at \notin Resting => Moved(w, at) = [proc[w] EXCEPT !.at = at]
         /\ at \in Resting => Moved(w, at) = Worker(at)
<1>1. proc[w] \in Records
  OBVIOUS
<1>2. [proc[w] EXCEPT !.at = at] \in Records /\ [proc[w] EXCEPT !.at = at].at = at
  BY <1>1 DEF Records
<1> QED
  BY <1>2, WorkerIs DEF Moved

\* Two records that differ in their place at most.
SameWork(q, r) ==
  /\ q.p = r.p /\ q.key = r.key /\ q.old = r.old /\ q.seen = r.seen /\ q.edit = r.edit
  /\ q.next = r.next /\ q.fail = r.fail /\ q.todo = r.todo /\ q.was = r.was

LEMMA MovedKeeps ==
  ASSUME NEW r \in Records, NEW at \in Ats
  PROVE  [r EXCEPT !.at = at] \in Records /\ SameWork([r EXCEPT !.at = at], r)
BY DEF Records, SameWork

LEMMA GoIs ==
  ASSUME proc \in [Workers -> Records], NEW w \in Workers, NEW at \in Ats, Go(w, at)
  PROVE  /\ proc' \in [Workers -> Records] /\ proc'[w].at = at
         /\ \A v \in Workers \ {w} : proc'[v] = proc[v]
         /\ at \in Resting => proc'[w] = Worker(at)
         /\ at \notin Resting => SameWork(proc'[w], proc[w])
<1>1. proc' = [proc EXCEPT ![w] = Moved(w, at)] /\ proc'[w] = Moved(w, at)
  BY DEF Go
<1>2. proc' \in [Workers -> Records]
  BY <1>1, MovedIs
<1>3. at \notin Resting => proc'[w] = [proc[w] EXCEPT !.at = at]
  BY <1>1, MovedIs
<1>4. proc[w] \in Records
  OBVIOUS
<1>5. at \notin Resting => SameWork(proc'[w], proc[w])
  BY <1>3, <1>4, MovedKeeps
<1> QED
  BY <1>1, <1>2, <1>5, MovedIs

LEMMA BeginIs ==
  ASSUME proc \in [Workers -> Records], NEW w \in Workers, NEW r \in Records, Begin(w, r)
  PROVE  /\ proc' \in [Workers -> Records] /\ proc'[w] = r
         /\ \A v \in Workers \ {w} : proc'[v] = proc[v]
BY DEF Begin

LEMMA UseIs ==
  ASSUME Types, NEW what \in {"ops", "faults", "launches", "reads"}, Use(what)
  PROVE  /\ used'[what] = used[what] + 1
         /\ \A x \in {"ops", "faults", "launches", "reads"} \ {what} : used'[x] = used[x]
         /\ used' = [used EXCEPT ![what] = used[what] + 1]
BY DEF Types, Use, Counts

LEMMA FaultIs ==
  ASSUME Types, Fault
  PROVE  /\ used'.faults = used.faults + 1 /\ used'.faults > 0 /\ used'.faults # 0
         /\ used'.ops = used.ops /\ used'.reads = used.reads
         /\ used' \in Counts
BY SecretsAssumption DEF Types, Fault, Use, Counts

-----------------------------------------------------------------------------
(* What a step that leaves the file alone preserves *)

\* Nobody else is in the middle of rewriting the file.
LEMMA FileIsSeenKept ==
  ASSUME FileIsSeen, UNCHANGED <<file, temp>>, raced => raced',
         used'.reads = 0 => used.reads = 0 /\ (proc["sidecar"].at = "off" => proc'["sidecar"].at = "off"),
         \A w \in {"app", "sidecar"} : proc'[w].at \in {"temp", "rename"} =>
           proc'[w].at = proc[w].at /\ proc'[w].seen = proc[w].seen /\ proc'[w].edit = proc[w].edit
  PROVE  FileIsSeen'
BY DEF FileIsSeen

\* No entry appears, and none that has a Provider, or is about to go, loses that.
LEMMA NothingStrayKept ==
  ASSUME NothingStray, file' = file, chain' \subseteq chain,
         used'.faults = 0 => used.faults = 0, used'.reads = 0 => used.reads = 0,
         \A key \in file : Pending(key) => Pending(key)',
         \A p \in Providers : source[p] \in file => source'[p] = source[p],
         \A w \in {"app", "lam"} : proc'[w].at \in KeySteps =>
            proc[w].at \in KeySteps /\ proc'[w].key = proc[w].key
  PROVE  NothingStray'
BY DEF NothingStray

\* Where the application does not touch the stores of keys but auth.json.
QuietAt == {"idle", "reproject", "hash"} \cup Updating

\* Its steps there change nothing the keys depend on.
LEMMA QuietStep ==
  ASSUME IInv, UNCHANGED <<source, file, temp, chain, raced>>,
         used'.reads = used.reads, used'.faults = 0 => used.faults = 0,
         proc["app"].at \in QuietAt, proc'["app"].at \in QuietAt,
         proc'["lam"] = proc["lam"], proc'["sidecar"] = proc["sidecar"],
         ~raced => \A p \in Native : auth'[p] = auth[p] \/ (source[p] = Profile /\ auth'[p] # None)
  PROVE  FileIsSeen' /\ NothingStray' /\ (~raced' => KeysAreKept' /\ OneMigrates')
<1>1. proc["app"].at \notin Editing \cup Migrating \cup {"down", "repoint"}
      /\ proc'["app"].at \notin Editing \cup Migrating \cup {"down", "repoint"}
  BY DEF QuietAt, Editing, Migrating, KeySteps, Updating
<1>2. FileIsSeen'
  BY <1>1, FileIsSeenKept DEF IInv, Editing
<1>3. NothingStray'
  BY <1>1, NothingStrayKept DEF IInv, Pending, Migrating
<1>4. ASSUME ~raced PROVE KeysAreKept'
  <2>1. \A p \in Providers : Somewhere(p) => Somewhere(p)'
    <3> TAKE p \in Providers
    <3>1. CASE p \in Native /\ auth'[p] # auth[p]
      BY <1>4, <3>1 DEF Somewhere
    <3>2. CASE ~(p \in Native /\ auth'[p] # auth[p])
      <4>1. p \in Plain => source[p] # Profile
        BY DEF IInv, Types
      <4> QED
        BY <3>2, <4>1 DEF Somewhere, Providers
    <3> QED
      BY <3>1, <3>2
  <2> QED
    BY <1>1, <1>4, <2>1 DEF IInv, Alone, KeysAreKept
<1>5. ASSUME ~raced PROVE OneMigrates'
  BY <1>1, <1>5 DEF IInv, Alone, OneMigrates
<1> QED
  BY <1>2, <1>3, <1>4, <1>5

-----------------------------------------------------------------------------
(* Updates of a connection, and edits of a Provider in use *)

\* Its record there is that of an update, an edit or none.
LEMMA QuietTypes ==
  ASSUME IInv, UNCHANGED <<source, file, temp, chain, raced>>,
         proc' \in [Workers -> Records], used' \in Counts, used.ops <= used'.ops,
         auth' \in [Native -> Keys \cup {None}], synced' \subseteq Native, current' \subseteq Workers,
         url' \in [Native -> Nat], bound' \in [Native -> Nat], catalog' \in [Native -> Nat],
         proc'["app"].at \in QuietAt, proc'["lam"] = proc["lam"], proc'["sidecar"] = proc["sidecar"],
         proc'["app"].at # "idle" => proc'["app"].p \in Native,
         proc'["app"].at \in Updating => proc'["app"].key \in Keys \cup {None},
         proc'["app"].todo \in {{}, proc["app"].todo}
  PROVE  Types'
<1> USE DEF IInv, Types
<1>1. proc'["app"].at \notin Editing \cup Migrating \cup {"down", "repoint", "off"}
  BY DEF QuietAt, Editing, Migrating, KeySteps, Updating
<1>2. TypeOK'
  BY DEF TypeOK
<1>3. AppRecord' /\ SidecarRecord'
  BY <1>1 DEF AppRecord, SidecarRecord, Updating
<1>4. MigrationRecord("app")' /\ MigrationRecord("lam")'
  BY <1>1 DEF MigrationRecord, Migrating
<1>5. \A p \in Providers : source'[p] \in Keys => source'[p] <= Total + used'.ops
  <2>1. used.ops \in Nat /\ used'.ops \in Nat
    BY DEF Counts
  <2> QED
    BY <2>1, Later
<1> QED
  BY <1>1, <1>2, <1>3, <1>4, <1>5 DEF Counts

\* The record an update begins with.
LEMMA RefreshIs ==
  ASSUME NEW p \in Providers, NEW key \in Keys \cup {0, None}, NEW was \in Olds
  PROVE  LET r == [Worker("refresh") EXCEPT !.p = p, !.key = key, !.was = was] IN
         /\ r \in Records /\ r.at = "refresh" /\ r.p = p /\ r.key = key /\ r.was = was /\ r.todo = {}
<1>1. PICK k : k = Worker("refresh")
  OBVIOUS
<1>2. k \in Records /\ k.at = "refresh" /\ k.todo = {}
  BY <1>1, WorkerIs DEF Ats, Updating
<1> QED
  BY <1>1, <1>2 DEF Records

\* An operation begins with a key nobody has.
LEMMA OperationIs ==
  ASSUME IInv, Operation
  PROVE  /\ proc["app"].at = "idle" /\ used.ops <= used'.ops /\ used' \in Counts
         /\ used'.faults = used.faults /\ used'.reads = used.reads
         /\ NewKey \in Keys \ Firsts /\ NewKey <= Total + used'.ops
         /\ \A p \in Providers : source[p] # NewKey
<1>1. used.ops \in 0..MaxOps /\ used.ops < MaxOps /\ used'.ops = used.ops + 1
      /\ used' \in Counts /\ used'.faults = used.faults /\ used'.reads = used.reads
  BY SecretsAssumption DEF IInv, Types, Operation, Use, Counts
<1>2. NewKey = Total + used.ops + 1
  BY DEF NewKey, Total
<1>3. NewKey \in Keys \ Firsts /\ \A m \in Keys : m <= Total + used.ops => m # NewKey
  BY <1>1, <1>2, KeysAre
<1>4. \A p \in Providers : source[p] # NewKey
  BY <1>3 DEF IInv, Types
<1>5. used.ops <= used'.ops /\ NewKey <= Total + used'.ops
  BY <1>1, <1>2, KeysAre
<1> QED
  BY <1>1, <1>3, <1>4, <1>5 DEF Operation, At

LEMMA UpdateInv ==
  ASSUME IInv, NEW p \in Native, Update(p)
  PROVE  IInv'
<1>0. Operation
  BY DEF Update
<1>1. PICK key \in {NewKey, auth[p]} :
        Begin("app", [Worker("refresh") EXCEPT !.p = p, !.key = key,
           !.was = [auth |-> auth[p], url |-> url[p], bound |-> bound[p]]])
  BY DEF Update
<1> DEFINE was == [auth |-> auth[p], url |-> url[p], bound |-> bound[p]]
           r == [Worker("refresh") EXCEPT !.p = p, !.key = key, !.was = was]
<1>2. was \in Olds
  BY DEF IInv, Types, TypeOK, Olds
<1>3. key \in Keys \cup {None} /\ p \in Providers
  BY <1>0, OperationIs DEF IInv, Types, TypeOK, Providers
<1>4. r \in Records /\ r.at = "refresh" /\ r.p = p /\ r.key = key /\ r.was = was /\ r.todo = {}
  BY <1>2, <1>3, RefreshIs
<1>5. proc' \in [Workers -> Records] /\ proc'["app"] = r /\ \A v \in Workers \ {"app"} : proc'[v] = proc[v]
  <2> HIDE DEF r
  <2>1. Begin("app", r)
    BY <1>1 DEF r
  <2> QED
    BY <1>4, <2>1, BeginIs DEF IInv, Types, Workers
<1> HIDE DEF r
<1>6. UNCHANGED <<stores, raced>> /\ source[p] = Profile /\ current' = current \cup {"app"}
  BY DEF Update, Page
<1>7. proc["app"].at \in QuietAt /\ proc'["app"].at \in QuietAt
  BY <1>0, <1>4, <1>5, OperationIs DEF QuietAt, Updating
<1>8. FileIsSeen' /\ NothingStray' /\ (~raced' => KeysAreKept' /\ OneMigrates')
  BY <1>0, <1>5, <1>6, <1>7, OperationIs, QuietStep DEF Workers, stores
<1>9. Types'
  BY <1>0, <1>3, <1>4, <1>5, <1>6, <1>7, OperationIs, QuietTypes DEF Workers, stores, IInv, Types, TypeOK
<1>10. ASSUME ~raced PROVE UpdateIsKnown'
  <2>1. auth[p] \in Keys
    <3>1. Somewhere(p)
      BY <1>3, <1>10 DEF IInv, Alone, KeysAreKept
    <3>2. file \cup chain \subseteq Keys /\ auth[p] \in Keys \cup {None}
      BY DEF IInv, Types, TypeOK
    <3> QED
      BY <1>6, <3>1, <3>2, KeysAre DEF Somewhere
  <2>2. key \in Keys /\ auth[p] # None
    BY <1>0, <2>1, OperationIs, KeysAre
  <2>3. r.was.auth = auth[p] /\ r.was.url = url[p] /\ r.was.bound = bound[p]
    BY <1>4
  <2>4. UNCHANGED <<source, auth, url, bound>>
    BY <1>6 DEF stores
  <2> HIDE DEF was
  <2> QED
    BY <1>4, <1>5, <1>6, <2>2, <2>3, <2>4 DEF UpdateIsKnown, UpdateFits, Updating
<1> QED
  BY <1>6, <1>8, <1>9, <1>10 DEF IInv, Alone

\* A step of an update or an edit: what is left is how far the update has come.
LEMMA QuietGo ==
  ASSUME IInv, NEW at \in QuietAt, Go("app", at), proc["app"].at \in QuietAt \ {"idle"},
         at \in Updating => proc["app"].at \in Updating,
         UNCHANGED <<source, file, temp, chain, raced>>, UNCHANGED used \/ Fault,
         auth' \in [Native -> Keys \cup {None}], synced' \subseteq Native, current' \subseteq Workers,
         url' \in [Native -> Nat], bound' \in [Native -> Nat], catalog' \in [Native -> Nat],
         ~raced => \A p \in Native : auth'[p] = auth[p] \/ (source[p] = Profile /\ auth'[p] # None)
  PROVE  /\ Types' /\ FileIsSeen' /\ NothingStray' /\ (~raced' => KeysAreKept' /\ OneMigrates')
         /\ proc'["app"].at = at /\ (at # "idle" => SameWork(proc'["app"], proc["app"]))
         /\ proc["app"].p \in Native
         /\ (used.faults > 0 => used'.faults > 0) /\ (Fault => used'.faults > 0)
<1>1. at \in Ats /\ (at \in Resting => at = "idle") /\ "idle" \in Resting
  BY DEF Ats, QuietAt, Updating, Resting
<1>2. proc["app"].p \in Native
  BY DEF IInv, Types, AppRecord, QuietAt
<1>3. /\ proc' \in [Workers -> Records] /\ proc'["app"].at = at
      /\ \A v \in Workers \ {"app"} : proc'[v] = proc[v]
      /\ at = "idle" => proc'["app"] = Worker(at)
      /\ at # "idle" => SameWork(proc'["app"], proc["app"])
  BY <1>1, GoIs DEF IInv, Types, Workers
<1>4. proc'["app"].todo \in {{}, proc["app"].todo} /\ (at # "idle" => proc'["app"].p \in Native)
      /\ (at \in Updating => proc'["app"].key \in Keys \cup {None})
  <2>1. at \in Updating => at # "idle" /\ proc["app"].key \in Keys \cup {None}
    BY DEF IInv, Types, AppRecord, Updating
  <2> QED
    BY <1>1, <1>2, <1>3, <2>1, WorkerIs DEF SameWork
<1>5. /\ used' \in Counts /\ used.ops <= used'.ops /\ used'.reads = used.reads
      /\ (used.faults > 0 => used'.faults > 0) /\ (Fault => used'.faults > 0)
      /\ used'.faults = 0 => used.faults = 0
  <2>1. CASE UNCHANGED used
    <3>1. ~Fault
      BY <2>1 DEF Fault, Use, IInv, Types, Counts
    <3> QED
      BY <2>1, <3>1 DEF IInv, Types, Counts
  <2>2. CASE Fault
    BY <2>2, FaultIs DEF IInv, Types, Counts
  <2> QED
    BY <2>1, <2>2
<1>6. FileIsSeen' /\ NothingStray' /\ (~raced' => KeysAreKept' /\ OneMigrates')
  BY <1>3, <1>5, QuietStep DEF Workers
<1>7. Types'
  BY <1>3, <1>4, <1>5, QuietTypes DEF Workers
<1> QED
  BY <1>2, <1>3, <1>5, <1>6, <1>7

LEMMA RefreshInv ==
  ASSUME IInv, Refresh
  PROVE  IInv'
<1>1. PICK at \in {"idle", "save", "stage"} :
        /\ Go("app", at) /\ (UNCHANGED used \/ Fault)
        /\ at = "save" => Mine.key = Mine.was.auth
        /\ at # "idle" => synced' = synced \cup {Mine.p}
        /\ synced' \in {synced, synced \cup {Mine.p}}
  BY DEF Refresh, Stop, Rest
<1>2. proc["app"].at = "refresh" /\ at \in QuietAt /\ proc["app"].at \in QuietAt \ {"idle"}
      /\ proc["app"].at \in Updating
  BY DEF Refresh, At, QuietAt, Updating
<1>3. UNCHANGED <<source, file, temp, chain, auth, url, bound, catalog, current, raced>>
  BY DEF Refresh
<1>4. Mine.p \in Native
  BY <1>2 DEF IInv, Types, AppRecord, Updating, Mine
<1>5. /\ auth' \in [Native -> Keys \cup {None}] /\ synced' \subseteq Native /\ current' \subseteq Workers
      /\ url' \in [Native -> Nat] /\ bound' \in [Native -> Nat] /\ catalog' \in [Native -> Nat]
  BY <1>1, <1>3, <1>4 DEF IInv, Types, TypeOK
<1>6. /\ Types' /\ FileIsSeen' /\ NothingStray' /\ (~raced' => KeysAreKept' /\ OneMigrates')
      /\ proc'["app"].at = at /\ (at # "idle" => SameWork(proc'["app"], proc["app"]))
  BY <1>1, <1>2, <1>3, <1>5, QuietGo
<1>7. ASSUME ~raced PROVE UpdateIsKnown'
  BY <1>1, <1>2, <1>3, <1>6, <1>7 DEF IInv, Alone, UpdateIsKnown, UpdateFits, Updating, SameWork, Mine
<1> QED
  BY <1>3, <1>6, <1>7 DEF IInv, Alone

\* What the record of an update or an edit holds.
LEMMA UpdatingIs ==
  ASSUME IInv, proc["app"].at \in Updating \cup {"reproject", "hash"}
  PROVE  /\ Mine.p \in Native /\ Mine = proc["app"]
         /\ Mine.was.url \in Nat /\ Mine.was.bound \in Nat /\ Mine.was.auth \in Keys \cup {None}
         /\ NewSettings = Mine.was.url + 1 /\ NewSettings \in Nat
         /\ proc["app"].at \in Updating => Mine.key \in Keys \cup {None}
<1>1. PICK k \in Records : k = proc["app"] /\ k = Mine
  BY DEF IInv, Types, Workers, Mine
<1>2. k.was.url \in Nat /\ k.was.bound \in Nat /\ k.was.auth \in Keys \cup {None}
  BY DEF Records, Olds
<1>3. k.p \in Native /\ (k.at \in Updating => k.key \in Keys \cup {None})
  BY <1>1 DEF IInv, Types, AppRecord
<1>4. NewSettings = k.was.url + 1
  BY <1>1 DEF NewSettings
<1> QED
  BY <1>1, <1>2, <1>3, <1>4

LEMMA SaveSettingsInv ==
  ASSUME IInv, SaveSettings
  PROVE  IInv'
<1>1. PICK at \in {"rebind", "restore key"} :
        /\ Go("app", at) /\ (UNCHANGED used \/ Fault)
        /\ \/ /\ at = "rebind" /\ current' = {"app"} /\ UNCHANGED used
              /\ url' = [url EXCEPT ![Mine.p] = NewSettings]
           \/ /\ at = "restore key" /\ UNCHANGED <<url, current>>
              /\ "app" \in current => Fault
  BY DEF SaveSettings, Stop, Rest
<1>2. /\ proc["app"].at = "save" /\ at \in QuietAt /\ proc["app"].at \in QuietAt \ {"idle"}
      /\ proc["app"].at \in Updating \cup {"reproject", "hash"}
      /\ (at \in Updating => proc["app"].at \in Updating)
  BY DEF SaveSettings, At, QuietAt, Updating
<1>3. UNCHANGED <<source, file, temp, chain, auth, bound, catalog, synced, raced>>
  BY DEF SaveSettings
<1>4. /\ Mine.p \in Native /\ Mine = proc["app"] /\ Mine.was.url \in Nat
      /\ Mine.was.auth \in Keys \cup {None} /\ NewSettings = Mine.was.url + 1 /\ NewSettings \in Nat
      /\ (proc["app"].at \in Updating => Mine.key \in Keys \cup {None})
  BY <1>2, UpdatingIs
<1>5. /\ auth' \in [Native -> Keys \cup {None}] /\ synced' \subseteq Native /\ current' \subseteq Workers
      /\ url' \in [Native -> Nat] /\ bound' \in [Native -> Nat] /\ catalog' \in [Native -> Nat]
  <2>1. /\ auth \in [Native -> Keys \cup {None}] /\ synced \subseteq Native /\ current \subseteq Workers
        /\ url \in [Native -> Nat] /\ bound \in [Native -> Nat] /\ catalog \in [Native -> Nat]
        /\ "app" \in Workers /\ (proc["app"].at = "stage" => proc["app"].at \in Updating)
    BY DEF IInv, Types, TypeOK, Workers, Updating
  <2> QED
    BY <1>1, <1>2, <1>3, <1>4, <2>1
<1>6. /\ Types' /\ FileIsSeen' /\ NothingStray' /\ (~raced' => KeysAreKept' /\ OneMigrates')
      /\ proc'["app"].at = at /\ (at # "idle" => SameWork(proc'["app"], proc["app"]))
      /\ (used.faults > 0 => used'.faults > 0) /\ (Fault => used'.faults > 0)
  BY <1>1, <1>2, <1>3, <1>5, QuietGo
<1>7. ASSUME ~raced PROVE UpdateIsKnown'
  <2>1. CASE at = "idle"
    BY <1>6, <2>1 DEF UpdateIsKnown, UpdateFits, Updating
  <2>2. CASE at # "idle"
    <3> DEFINE k == proc["app"]  q == proc'["app"]  p == Mine.p
    <3>1. UpdateFits(k, source[p], auth[p], url[p], bound[p], "app" \in current, p \in synced, used.faults)
      BY <1>4, <1>7 DEF IInv, Alone, UpdateIsKnown
    <3>2. q.p = p /\ q.key = k.key /\ q.was = k.was /\ q.at = at /\ k.at = "save"
      BY <1>2, <1>4, <1>6, <2>2 DEF SameWork
    <3>3. /\ source'[p] = source[p] /\ auth'[p] = auth[p] /\ bound'[p] = bound[p] /\ synced' = synced
          /\ url'[p] = IF at = "rebind" THEN NewSettings ELSE url[p]
          /\ "app" \in current => "app" \in current' 
      BY <1>1, <1>3, <1>4, <2>2 DEF IInv, Types, TypeOK
    <3>4. used'.faults > 0 \/ ~(used.faults > 0)
      BY <1>6
    <3>5. k.was.url \in Nat /\ NewSettings = k.was.url + 1 /\ (Fault => used'.faults > 0)
          /\ k.key = Mine.key /\ k.was = Mine.was
      BY <1>4, <1>6
    <3>6. UpdateFits(q, source'[p], auth'[p], url'[p], bound'[p], "app" \in current', p \in synced', used'.faults)
      <4> HIDE DEF k, q, p
      <4> QED
        BY <1>1, <2>2, <3>1, <3>2, <3>3, <3>4, <3>5 DEF UpdateFits, Updating
    <3> QED
      BY <3>2, <3>6 DEF UpdateIsKnown
  <2> QED
    BY <2>1, <2>2
<1> QED
  BY <1>3, <1>6, <1>7 DEF IInv, Alone

LEMMA UnsaveSettingsInv ==
  ASSUME IInv, UnsaveSettings
  PROVE  IInv'
<1>1. PICK at \in {"idle", "restore key"} :
        /\ Go("app", at) /\ (UNCHANGED used \/ Fault)
        /\ \/ /\ at = "restore key" /\ current' = {"app"} /\ UNCHANGED used
              /\ url' = [url EXCEPT ![Mine.p] = Mine.was.url]
           \/ at = "idle" /\ UNCHANGED <<url, current>>
  BY DEF UnsaveSettings, Stop, Rest
<1>2. /\ proc["app"].at = "unsave" /\ at \in QuietAt /\ proc["app"].at \in QuietAt \ {"idle"}
      /\ proc["app"].at \in Updating \cup {"reproject", "hash"}
      /\ (at \in Updating => proc["app"].at \in Updating)
  BY DEF UnsaveSettings, At, QuietAt, Updating
<1>3. UNCHANGED <<source, file, temp, chain, auth, bound, catalog, synced, raced>>
  BY DEF UnsaveSettings
<1>4. /\ Mine.p \in Native /\ Mine = proc["app"] /\ Mine.was.url \in Nat
      /\ Mine.was.auth \in Keys \cup {None} /\ NewSettings = Mine.was.url + 1 /\ NewSettings \in Nat
      /\ (proc["app"].at \in Updating => Mine.key \in Keys \cup {None})
  BY <1>2, UpdatingIs
<1>5. /\ auth' \in [Native -> Keys \cup {None}] /\ synced' \subseteq Native /\ current' \subseteq Workers
      /\ url' \in [Native -> Nat] /\ bound' \in [Native -> Nat] /\ catalog' \in [Native -> Nat]
  <2>1. /\ auth \in [Native -> Keys \cup {None}] /\ synced \subseteq Native /\ current \subseteq Workers
        /\ url \in [Native -> Nat] /\ bound \in [Native -> Nat] /\ catalog \in [Native -> Nat]
        /\ "app" \in Workers /\ (proc["app"].at = "stage" => proc["app"].at \in Updating)
    BY DEF IInv, Types, TypeOK, Workers, Updating
  <2> QED
    BY <1>1, <1>2, <1>3, <1>4, <2>1
<1>6. /\ Types' /\ FileIsSeen' /\ NothingStray' /\ (~raced' => KeysAreKept' /\ OneMigrates')
      /\ proc'["app"].at = at /\ (at # "idle" => SameWork(proc'["app"], proc["app"]))
      /\ (used.faults > 0 => used'.faults > 0) /\ (Fault => used'.faults > 0)
  BY <1>1, <1>2, <1>3, <1>5, QuietGo
<1>7. ASSUME ~raced PROVE UpdateIsKnown'
  <2>1. CASE at = "idle"
    BY <1>6, <2>1 DEF UpdateIsKnown, UpdateFits, Updating
  <2>2. CASE at # "idle"
    <3> DEFINE k == proc["app"]  q == proc'["app"]  p == Mine.p
    <3>1. UpdateFits(k, source[p], auth[p], url[p], bound[p], "app" \in current, p \in synced, used.faults)
      BY <1>4, <1>7 DEF IInv, Alone, UpdateIsKnown
    <3>2. q.p = p /\ q.key = k.key /\ q.was = k.was /\ q.at = at /\ k.at = "unsave"
      BY <1>2, <1>4, <1>6, <2>2 DEF SameWork
    <3>3. /\ source'[p] = source[p] /\ auth'[p] = auth[p] /\ bound'[p] = bound[p] /\ synced' = synced
          /\ url'[p] = Mine.was.url /\ "app" \in current' 
      BY <1>1, <1>3, <1>4, <2>2 DEF IInv, Types, TypeOK
    <3>4. used'.faults > 0 \/ ~(used.faults > 0)
      BY <1>6
    <3>5. k.was.url \in Nat /\ NewSettings = k.was.url + 1 /\ (Fault => used'.faults > 0)
          /\ k.key = Mine.key /\ k.was = Mine.was
      BY <1>4, <1>6
    <3>6. UpdateFits(q, source'[p], auth'[p], url'[p], bound'[p], "app" \in current', p \in synced', used'.faults)
      <4> HIDE DEF k, q, p
      <4> QED
        BY <1>1, <2>2, <3>1, <3>2, <3>3, <3>4, <3>5 DEF UpdateFits, Updating
    <3> QED
      BY <3>2, <3>6 DEF UpdateIsKnown
  <2> QED
    BY <2>1, <2>2
<1> QED
  BY <1>3, <1>6, <1>7 DEF IInv, Alone

LEMMA RebindInv ==
  ASSUME IInv, Rebind
  PROVE  IInv'
<1>1. PICK at \in {"idle", "unsave"} :
        /\ Go("app", at) /\ (UNCHANGED used \/ Fault)
        /\ \/ /\ at = "idle" /\ bound' = [bound EXCEPT ![Mine.p] = url[Mine.p]]
              /\ catalog' = [catalog EXCEPT ![Mine.p] = url[Mine.p]]
           \/ /\ at = "unsave" /\ UNCHANGED bound
              /\ catalog' \in {catalog, [catalog EXCEPT ![Mine.p] = url[Mine.p]]}
              /\ Mine.p \in synced => Fault
              /\ Mine.p \notin synced => UNCHANGED used
  BY DEF Rebind, Stop, Rest, Rebound, NotRebound
<1>2. /\ proc["app"].at = "rebind" /\ at \in QuietAt /\ proc["app"].at \in QuietAt \ {"idle"}
      /\ proc["app"].at \in Updating \cup {"reproject", "hash"}
      /\ (at \in Updating => proc["app"].at \in Updating)
  BY DEF Rebind, At, QuietAt, Updating
<1>3. UNCHANGED <<source, file, temp, chain, auth, url, synced, current, raced>>
  BY DEF Rebind
<1>4. /\ Mine.p \in Native /\ Mine = proc["app"] /\ Mine.was.url \in Nat
      /\ Mine.was.auth \in Keys \cup {None} /\ NewSettings = Mine.was.url + 1 /\ NewSettings \in Nat
      /\ (proc["app"].at \in Updating => Mine.key \in Keys \cup {None})
  BY <1>2, UpdatingIs
<1>5. /\ auth' \in [Native -> Keys \cup {None}] /\ synced' \subseteq Native /\ current' \subseteq Workers
      /\ url' \in [Native -> Nat] /\ bound' \in [Native -> Nat] /\ catalog' \in [Native -> Nat]
  <2>1. /\ auth \in [Native -> Keys \cup {None}] /\ synced \subseteq Native /\ current \subseteq Workers
        /\ url \in [Native -> Nat] /\ bound \in [Native -> Nat] /\ catalog \in [Native -> Nat]
        /\ "app" \in Workers /\ (proc["app"].at = "stage" => proc["app"].at \in Updating)
    BY DEF IInv, Types, TypeOK, Workers, Updating
  <2> QED
    BY <1>1, <1>2, <1>3, <1>4, <2>1
<1>6. /\ Types' /\ FileIsSeen' /\ NothingStray' /\ (~raced' => KeysAreKept' /\ OneMigrates')
      /\ proc'["app"].at = at /\ (at # "idle" => SameWork(proc'["app"], proc["app"]))
      /\ (used.faults > 0 => used'.faults > 0) /\ (Fault => used'.faults > 0)
  BY <1>1, <1>2, <1>3, <1>5, QuietGo
<1>7. ASSUME ~raced PROVE UpdateIsKnown'
  <2>1. CASE at = "idle"
    BY <1>6, <2>1 DEF UpdateIsKnown, UpdateFits, Updating
  <2>2. CASE at # "idle"
    <3> DEFINE k == proc["app"]  q == proc'["app"]  p == Mine.p
    <3>1. UpdateFits(k, source[p], auth[p], url[p], bound[p], "app" \in current, p \in synced, used.faults)
      BY <1>4, <1>7 DEF IInv, Alone, UpdateIsKnown
    <3>2. q.p = p /\ q.key = k.key /\ q.was = k.was /\ q.at = at /\ k.at = "rebind"
      BY <1>2, <1>4, <1>6, <2>2 DEF SameWork
    <3>3. /\ source'[p] = source[p] /\ auth'[p] = auth[p] /\ bound'[p] = bound[p] /\ synced' = synced
          /\ url'[p] = url[p] /\ current' = current /\ (p \in synced => Fault)
      BY <1>1, <1>3, <1>4, <2>2 DEF IInv, Types, TypeOK
    <3>4. used'.faults > 0 \/ ~(used.faults > 0)
      BY <1>6
    <3>5. k.was.url \in Nat /\ NewSettings = k.was.url + 1 /\ (Fault => used'.faults > 0)
          /\ k.key = Mine.key /\ k.was = Mine.was
      BY <1>4, <1>6
    <3>6. UpdateFits(q, source'[p], auth'[p], url'[p], bound'[p], "app" \in current', p \in synced', used'.faults)
      <4> HIDE DEF k, q, p
      <4> QED
        BY <1>1, <2>2, <3>1, <3>2, <3>3, <3>4, <3>5 DEF UpdateFits, Updating
    <3> QED
      BY <3>2, <3>6 DEF UpdateIsKnown
  <2> QED
    BY <2>1, <2>2
<1> QED
  BY <1>3, <1>6, <1>7 DEF IInv, Alone

LEMMA WriteConfigInv ==
  ASSUME IInv, WriteConfig
  PROVE  IInv'
<1>1. PICK at \in {"idle", "hash"} :
        /\ Go("app", at) /\ (UNCHANGED used \/ Fault)
        /\ \/ bound' = [bound EXCEPT ![Mine.p] = url[Mine.p]] /\ synced' = synced \ {Mine.p}
           \/ UNCHANGED <<bound, synced>>
  BY DEF WriteConfig, Stop, Rest
<1>2. /\ proc["app"].at = "reproject" /\ at \in QuietAt /\ proc["app"].at \in QuietAt \ {"idle"}
      /\ proc["app"].at \in Updating \cup {"reproject", "hash"}
      /\ (at \in Updating => proc["app"].at \in Updating)
  BY DEF WriteConfig, At, QuietAt, Updating
<1>3. UNCHANGED <<source, file, temp, chain, auth, url, catalog, current, raced>>
  BY DEF WriteConfig
<1>4. /\ Mine.p \in Native /\ Mine = proc["app"] /\ Mine.was.url \in Nat
      /\ Mine.was.auth \in Keys \cup {None} /\ NewSettings = Mine.was.url + 1 /\ NewSettings \in Nat
      /\ (proc["app"].at \in Updating => Mine.key \in Keys \cup {None})
  BY <1>2, UpdatingIs
<1>5. /\ auth' \in [Native -> Keys \cup {None}] /\ synced' \subseteq Native /\ current' \subseteq Workers
      /\ url' \in [Native -> Nat] /\ bound' \in [Native -> Nat] /\ catalog' \in [Native -> Nat]
  <2>1. /\ auth \in [Native -> Keys \cup {None}] /\ synced \subseteq Native /\ current \subseteq Workers
        /\ url \in [Native -> Nat] /\ bound \in [Native -> Nat] /\ catalog \in [Native -> Nat]
        /\ "app" \in Workers /\ (proc["app"].at = "stage" => proc["app"].at \in Updating)
    BY DEF IInv, Types, TypeOK, Workers, Updating
  <2> QED
    BY <1>1, <1>2, <1>3, <1>4, <2>1
<1>6. /\ Types' /\ FileIsSeen' /\ NothingStray' /\ (~raced' => KeysAreKept' /\ OneMigrates')
      /\ proc'["app"].at = at /\ (at # "idle" => SameWork(proc'["app"], proc["app"]))
      /\ (used.faults > 0 => used'.faults > 0) /\ (Fault => used'.faults > 0)
  BY <1>1, <1>2, <1>3, <1>5, QuietGo
<1>7. ASSUME ~raced PROVE UpdateIsKnown'
  BY <1>1, <1>6 DEF UpdateIsKnown, UpdateFits, Updating
<1> QED
  BY <1>3, <1>6, <1>7 DEF IInv, Alone

LEMMA SaveHashInv ==
  ASSUME IInv, SaveHash
  PROVE  IInv'
<1>1. PICK at \in {"idle"} :
        /\ Go("app", at) /\ (UNCHANGED used \/ Fault)
        /\ synced' \in {synced, synced \cup {Mine.p}}
  BY DEF SaveHash, Stop, Rest
<1>2. /\ proc["app"].at = "hash" /\ at \in QuietAt /\ proc["app"].at \in QuietAt \ {"idle"}
      /\ proc["app"].at \in Updating \cup {"reproject", "hash"}
      /\ (at \in Updating => proc["app"].at \in Updating)
  BY DEF SaveHash, At, QuietAt, Updating
<1>3. UNCHANGED <<source, file, temp, chain, auth, url, bound, catalog, current, raced>>
  BY DEF SaveHash
<1>4. /\ Mine.p \in Native /\ Mine = proc["app"] /\ Mine.was.url \in Nat
      /\ Mine.was.auth \in Keys \cup {None} /\ NewSettings = Mine.was.url + 1 /\ NewSettings \in Nat
      /\ (proc["app"].at \in Updating => Mine.key \in Keys \cup {None})
  BY <1>2, UpdatingIs
<1>5. /\ auth' \in [Native -> Keys \cup {None}] /\ synced' \subseteq Native /\ current' \subseteq Workers
      /\ url' \in [Native -> Nat] /\ bound' \in [Native -> Nat] /\ catalog' \in [Native -> Nat]
  <2>1. /\ auth \in [Native -> Keys \cup {None}] /\ synced \subseteq Native /\ current \subseteq Workers
        /\ url \in [Native -> Nat] /\ bound \in [Native -> Nat] /\ catalog \in [Native -> Nat]
        /\ "app" \in Workers /\ (proc["app"].at = "stage" => proc["app"].at \in Updating)
    BY DEF IInv, Types, TypeOK, Workers, Updating
  <2> QED
    BY <1>1, <1>2, <1>3, <1>4, <2>1
<1>6. /\ Types' /\ FileIsSeen' /\ NothingStray' /\ (~raced' => KeysAreKept' /\ OneMigrates')
      /\ proc'["app"].at = at /\ (at # "idle" => SameWork(proc'["app"], proc["app"]))
      /\ (used.faults > 0 => used'.faults > 0) /\ (Fault => used'.faults > 0)
  BY <1>1, <1>2, <1>3, <1>5, QuietGo
<1>7. ASSUME ~raced PROVE UpdateIsKnown'
  BY <1>1, <1>6 DEF UpdateIsKnown, UpdateFits, Updating
<1> QED
  BY <1>3, <1>6, <1>7 DEF IInv, Alone

LEMMA StageKeyInv ==
  ASSUME IInv, StageKey
  PROVE  IInv'
<1>1. PICK at \in {"idle", "save"} :
        /\ Go("app", at) /\ (UNCHANGED used \/ Fault)
        /\ \/ /\ at = "save" /\ auth[Mine.p] # None
              /\ auth' = [auth EXCEPT ![Mine.p] = Mine.key]
           \/ at = "idle" /\ UNCHANGED auth
  BY DEF StageKey, Stop, Rest
<1>2. /\ proc["app"].at = "stage" /\ at \in QuietAt /\ proc["app"].at \in QuietAt \ {"idle"}
      /\ proc["app"].at \in Updating \cup {"reproject", "hash"}
      /\ (at \in Updating => proc["app"].at \in Updating)
  BY DEF StageKey, At, QuietAt, Updating
<1>3. UNCHANGED <<source, file, temp, chain, url, bound, catalog, synced, current, raced>>
  BY DEF StageKey
<1>4. /\ Mine.p \in Native /\ Mine = proc["app"] /\ Mine.was.url \in Nat
      /\ Mine.was.auth \in Keys \cup {None} /\ NewSettings = Mine.was.url + 1 /\ NewSettings \in Nat
      /\ (proc["app"].at \in Updating => Mine.key \in Keys \cup {None})
  BY <1>2, UpdatingIs
<1>5. /\ auth' \in [Native -> Keys \cup {None}] /\ synced' \subseteq Native /\ current' \subseteq Workers
      /\ url' \in [Native -> Nat] /\ bound' \in [Native -> Nat] /\ catalog' \in [Native -> Nat]
  <2>1. /\ auth \in [Native -> Keys \cup {None}] /\ synced \subseteq Native /\ current \subseteq Workers
        /\ url \in [Native -> Nat] /\ bound \in [Native -> Nat] /\ catalog \in [Native -> Nat]
        /\ "app" \in Workers /\ (proc["app"].at = "stage" => proc["app"].at \in Updating)
    BY DEF IInv, Types, TypeOK, Workers, Updating
  <2> QED
    BY <1>1, <1>2, <1>3, <1>4, <2>1
<1>8. ~raced => \A p \in Native : auth'[p] = auth[p] \/ (source[p] = Profile /\ auth'[p] # None)
  <2>1. auth' \in {auth, [auth EXCEPT ![Mine.p] = Mine.key]}
    BY <1>1
  <2>2. \A p \in Native \ {Mine.p} : auth'[p] = auth[p]
    BY <2>1 DEF IInv, Types, TypeOK
  <2>3. auth'[Mine.p] \in {auth[Mine.p], Mine.key}
    BY <1>4, <2>1 DEF IInv, Types, TypeOK
  <2>4. ~raced => source[Mine.p] = Profile /\ Mine.key # None
    BY <1>2, <1>4, KeysAre DEF IInv, Alone, UpdateIsKnown, UpdateFits, Updating
  <2> QED
    BY <2>2, <2>3, <2>4
<1>6. /\ Types' /\ FileIsSeen' /\ NothingStray' /\ (~raced' => KeysAreKept' /\ OneMigrates')
      /\ proc'["app"].at = at /\ (at # "idle" => SameWork(proc'["app"], proc["app"]))
      /\ (used.faults > 0 => used'.faults > 0) /\ (Fault => used'.faults > 0)
  BY <1>1, <1>2, <1>3, <1>5, <1>8, QuietGo
<1>7. ASSUME ~raced PROVE UpdateIsKnown'
  <2>1. CASE at = "idle"
    BY <1>6, <2>1 DEF UpdateIsKnown, UpdateFits, Updating
  <2>2. CASE at # "idle"
    <3> DEFINE k == proc["app"]  q == proc'["app"]  p == Mine.p
    <3>1. UpdateFits(k, source[p], auth[p], url[p], bound[p], "app" \in current, p \in synced, used.faults)
      BY <1>4, <1>7 DEF IInv, Alone, UpdateIsKnown
    <3>2. q.p = p /\ q.key = k.key /\ q.was = k.was /\ q.at = at /\ k.at = "stage"
      BY <1>2, <1>4, <1>6, <2>2 DEF SameWork
    <3>3. /\ source'[p] = source[p] /\ bound'[p] = bound[p] /\ synced' = synced
          /\ url'[p] = url[p] /\ current' = current /\ auth'[p] = Mine.key
      BY <1>1, <1>3, <1>4, <2>2 DEF IInv, Types, TypeOK
    <3>4. used'.faults > 0 \/ ~(used.faults > 0)
      BY <1>6
    <3>5. k.was.url \in Nat /\ NewSettings = k.was.url + 1 /\ (Fault => used'.faults > 0)
          /\ k.key = Mine.key /\ k.was = Mine.was
      BY <1>4, <1>6
    <3>6. UpdateFits(q, source'[p], auth'[p], url'[p], bound'[p], "app" \in current', p \in synced', used'.faults)
      <4> HIDE DEF k, q, p
      <4> QED
        BY <1>1, <2>2, <3>1, <3>2, <3>3, <3>4, <3>5 DEF UpdateFits, Updating
    <3> QED
      BY <3>2, <3>6 DEF UpdateIsKnown
  <2> QED
    BY <2>1, <2>2
<1> QED
  BY <1>3, <1>6, <1>7 DEF IInv, Alone

LEMMA RestoreKeyInv ==
  ASSUME IInv, RestoreKey
  PROVE  IInv'
<1>1. PICK at \in {"idle"} :
        /\ Go("app", at) /\ (UNCHANGED used \/ Fault)
        /\ auth' \in {auth, [auth EXCEPT ![Mine.p] = Mine.was.auth]}
  BY DEF RestoreKey, Stop, Rest
<1>2. /\ proc["app"].at = "restore key" /\ at \in QuietAt /\ proc["app"].at \in QuietAt \ {"idle"}
      /\ proc["app"].at \in Updating \cup {"reproject", "hash"}
      /\ (at \in Updating => proc["app"].at \in Updating)
  BY DEF RestoreKey, At, QuietAt, Updating
<1>3. UNCHANGED <<source, file, temp, chain, url, bound, catalog, synced, current, raced>>
  BY DEF RestoreKey
<1>4. /\ Mine.p \in Native /\ Mine = proc["app"] /\ Mine.was.url \in Nat
      /\ Mine.was.auth \in Keys \cup {None} /\ NewSettings = Mine.was.url + 1 /\ NewSettings \in Nat
      /\ (proc["app"].at \in Updating => Mine.key \in Keys \cup {None})
  BY <1>2, UpdatingIs
<1>5. /\ auth' \in [Native -> Keys \cup {None}] /\ synced' \subseteq Native /\ current' \subseteq Workers
      /\ url' \in [Native -> Nat] /\ bound' \in [Native -> Nat] /\ catalog' \in [Native -> Nat]
  <2>1. /\ auth \in [Native -> Keys \cup {None}] /\ synced \subseteq Native /\ current \subseteq Workers
        /\ url \in [Native -> Nat] /\ bound \in [Native -> Nat] /\ catalog \in [Native -> Nat]
        /\ "app" \in Workers /\ (proc["app"].at = "stage" => proc["app"].at \in Updating)
    BY DEF IInv, Types, TypeOK, Workers, Updating
  <2> QED
    BY <1>1, <1>2, <1>3, <1>4, <2>1
<1>8. ~raced => \A p \in Native : auth'[p] = auth[p] \/ (source[p] = Profile /\ auth'[p] # None)
  <2>1. auth' \in {auth, [auth EXCEPT ![Mine.p] = Mine.was.auth]}
    BY <1>1
  <2>2. \A p \in Native \ {Mine.p} : auth'[p] = auth[p]
    BY <2>1 DEF IInv, Types, TypeOK
  <2>3. auth'[Mine.p] \in {auth[Mine.p], Mine.was.auth}
    BY <1>4, <2>1 DEF IInv, Types, TypeOK
  <2>4. ~raced => source[Mine.p] = Profile /\ Mine.was.auth # None
    BY <1>2, <1>4, KeysAre DEF IInv, Alone, UpdateIsKnown, UpdateFits, Updating
  <2> QED
    BY <2>2, <2>3, <2>4
<1>6. /\ Types' /\ FileIsSeen' /\ NothingStray' /\ (~raced' => KeysAreKept' /\ OneMigrates')
      /\ proc'["app"].at = at /\ (at # "idle" => SameWork(proc'["app"], proc["app"]))
      /\ (used.faults > 0 => used'.faults > 0) /\ (Fault => used'.faults > 0)
  BY <1>1, <1>2, <1>3, <1>5, <1>8, QuietGo
<1>7. ASSUME ~raced PROVE UpdateIsKnown'
  BY <1>1, <1>6 DEF UpdateIsKnown, UpdateFits, Updating
<1> QED
  BY <1>3, <1>6, <1>7 DEF IInv, Alone

LEMMA EditAttachedIs ==
  ASSUME NEW p \in Native
  PROVE  LET r == [Worker("reproject") EXCEPT !.p = p] IN
         r \in Records /\ r.at = "reproject" /\ r.p = p /\ r.todo = {}
<1>1. PICK k : k = Worker("reproject")
  OBVIOUS
<1>2. k \in Records /\ k.at = "reproject" /\ k.todo = {}
  BY <1>1, WorkerIs DEF Ats
<1> QED
  BY <1>1, <1>2 DEF Records, Providers

LEMMA EditAttachedInv ==
  ASSUME IInv, NEW p \in Native, EditAttached(p)
  PROVE  IInv'
<1>1. Operation
  BY DEF EditAttached
<1> DEFINE r == [Worker("reproject") EXCEPT !.p = p]
<1>2. r \in Records /\ r.at = "reproject" /\ r.p = p /\ r.todo = {}
  BY EditAttachedIs
<1>3. Begin("app", r)
  BY DEF EditAttached
<1> HIDE DEF r
<1>4. proc' \in [Workers -> Records] /\ proc'["app"] = r /\ \A v \in Workers \ {"app"} : proc'[v] = proc[v]
  BY <1>2, <1>3, BeginIs DEF IInv, Types, Workers
<1>5. UNCHANGED <<source, file, temp, chain, auth, bound, catalog, synced, raced>> /\ current' = {"app"}
      /\ url' = [url EXCEPT ![p] = @ + 1]
  BY DEF EditAttached
<1>6. proc["app"].at \in QuietAt /\ proc'["app"].at \in QuietAt /\ proc'["app"].at \notin Updating
  BY <1>1, <1>2, <1>4, OperationIs DEF QuietAt, Updating
<1>7. FileIsSeen' /\ NothingStray' /\ (~raced' => KeysAreKept' /\ OneMigrates')
  BY <1>1, <1>4, <1>5, <1>6, OperationIs, QuietStep DEF Workers
<1>8. url' \in [Native -> Nat] /\ current' \subseteq Workers
  BY <1>5 DEF IInv, Types, TypeOK, Workers
<1>9. Types'
  BY <1>1, <1>2, <1>4, <1>5, <1>6, <1>8, OperationIs, QuietTypes DEF Workers, IInv, Types, TypeOK
<1>10. UpdateIsKnown'
  BY <1>2, <1>4 DEF UpdateIsKnown, UpdateFits, Updating
<1> QED
  BY <1>5, <1>7, <1>9, <1>10 DEF IInv, Alone

\* A step that may fail uses up at most a failure.
LEMMA FaultOrNot ==
  ASSUME IInv, UNCHANGED used \/ Fault
  PROVE  /\ used' \in Counts /\ used'.ops = used.ops /\ used'.reads = used.reads
         /\ (used.faults > 0 => used'.faults > 0) /\ (Fault => used'.faults > 0)
         /\ used'.faults = 0 => used.faults = 0
<1>1. CASE UNCHANGED used
  <2>1. ~Fault
    BY <1>1 DEF Fault, Use, IInv, Types, Counts
  <2> QED
    BY <1>1, <2>1 DEF IInv, Types
<1>2. CASE Fault
  BY <1>2, FaultIs DEF IInv, Types, Counts
<1> QED
  BY <1>1, <1>2

LEMMA UserEditsInv ==
  ASSUME IInv, NEW p \in Native, UserEdits(p)
  PROVE  IInv'
<1>1. UNCHANGED <<source, file, temp, chain, auth, url, bound, catalog, proc, current, raced>>
      /\ synced' = synced \ {p}
  BY DEF UserEdits
<1>2. UNCHANGED used \/ Fault
  BY DEF UserEdits
<1>3. proc["app"].at \in Updating => Fault
  BY DEF UserEdits, Updating, Resting
<1>4. /\ used' \in Counts /\ used'.ops = used.ops /\ used'.reads = used.reads
      /\ (used.faults > 0 => used'.faults > 0) /\ (Fault => used'.faults > 0)
      /\ used'.faults = 0 => used.faults = 0
  BY <1>2, FaultOrNot
<1>5. Types'
  BY <1>1, <1>4 DEF IInv, Types, TypeOK, AppRecord, SidecarRecord, MigrationRecord
<1>6. FileIsSeen'
  BY <1>1, <1>4, FileIsSeenKept DEF IInv
<1>7. NothingStray'
  BY <1>1, <1>4, NothingStrayKept DEF IInv, Pending
<1>8. ASSUME ~raced PROVE KeysAreKept' /\ OneMigrates'
  BY <1>1, <1>8 DEF IInv, Alone, KeysAreKept, OneMigrates, Somewhere, KeyIsKnown, TodoIsKnown
<1>9. ASSUME ~raced PROVE UpdateIsKnown'
  BY <1>1, <1>3, <1>4, <1>9 DEF IInv, Alone, UpdateIsKnown, UpdateFits, Updating
<1> QED
  BY <1>1, <1>5, <1>6, <1>7, <1>8, <1>9 DEF IInv, Alone

-----------------------------------------------------------------------------
(* The credential file *)

\* The record an edit of the file begins with.
LEMMA EditIs ==
  ASSUME NEW r \in Records, NEW add, NEW del, add \subseteq Keys, del \subseteq Keys,
         NEW next \in Ats, NEW fail \in Ats, NEW q, q = Edit(r, add, del, next, fail)
  PROVE  /\ q \in Records /\ q.at = "load" /\ q.edit = [add |-> add, del |-> del]
         /\ q.next = next /\ q.fail = fail /\ q.p = r.p /\ q.key = r.key /\ q.todo = r.todo
<1>1. PICK e \in Edits : e = [add |-> add, del |-> del]
  BY DEF Edits
<1>2. q = [r EXCEPT !.at = "load", !.edit = e, !.next = next, !.fail = fail]
  BY <1>1 DEF Edit
<1>3. "load" \in Ats
  BY DEF Ats, Editing
<1> QED
  BY <1>1, <1>2, <1>3 DEF Records

\* The record an operation begins with.
LEMMA OperatingIs ==
  ASSUME IInv, NEW p \in Providers, NewKey \in Keys
  PROVE  /\ Operating(p) \in Records /\ Operating(p).p = p /\ Operating(p).key = NewKey
         /\ Operating(p).todo = {}
<1>1. PICK k : k = Worker("idle")
  OBVIOUS
<1>2. k \in Records /\ k.todo = {}
  BY <1>1, WorkerIs DEF Ats, Resting
<1>3. PICK s \in Keys \cup {Gone, Profile} : s = source[p]
  BY DEF IInv, Types, TypeOK
<1>4. Operating(p) = [k EXCEPT !.p = p, !.key = NewKey, !.old = s]
  BY <1>1, <1>3 DEF Operating
<1> QED
  BY <1>2, <1>4 DEF Records

\* Steps of the application that neither begin nor continue a migration.
LEMMA AppTypes ==
  ASSUME IInv, TypeOK', proc' \in [Workers -> Records], used' \in Counts, chain' = chain, AppRecord',
         \A p \in Plain : source'[p] # Profile,
         \A p \in Providers : source'[p] \in Keys => source'[p] <= Total + used'.ops,
         proc'["lam"] = proc["lam"], proc'["sidecar"] = proc["sidecar"],
         proc'["app"].at \notin KeySteps \cup {"off"}, proc'["app"].todo \in {{}, proc["app"].todo}
  PROVE  Types'
BY DEF IInv, Types, SidecarRecord, MigrationRecord

\* An operation leaves no key of an account in the Keychain.
LEMMA AppOneMigrates ==
  ASSUME IInv, ~raced, chain' = chain, proc'["lam"] = proc["lam"],
         proc["app"].at \notin {"down"} \cup Migrating, proc'["app"].at \notin {"down"} \cup Migrating,
         \A p \in Native : source'[p] \in {source[p], Gone} \cup (Keys \ Firsts)
  PROVE  OneMigrates'
BY KeysAre DEF IInv, Types, Alone, OneMigrates

\* rotate_provider and create_provider_with_keychain: the new key goes into the file first.
LEMMA AddInv ==
  ASSUME IInv, Operation, NEW p \in Providers, UNCHANGED <<stores, raced>>, current' \subseteq Workers,
         Begin("app", Edit(Operating(p), {NewKey}, {}, "repoint", "idle"))
  PROVE  IInv'
<1>1. PICK q : q = Edit(Operating(p), {NewKey}, {}, "repoint", "idle")
  OBVIOUS
<1>2. /\ NewKey \in Keys \ Firsts /\ NewKey <= Total + used'.ops /\ used' \in Counts /\ used.ops <= used'.ops
      /\ \A s \in Providers : source[s] # NewKey
      /\ proc["app"].at = "idle" /\ used'.faults = used.faults /\ used'.reads = used.reads
  BY OperationIs
<1>3. /\ q \in Records /\ q.at = "load" /\ q.edit = [add |-> {NewKey}, del |-> {}]
      /\ q.next = "repoint" /\ q.fail = "idle" /\ q.p = p /\ q.key = NewKey /\ q.todo = {}
  <2>1. PICK r \in Records : r = Operating(p) /\ r.p = p /\ r.key = NewKey /\ r.todo = {}
    BY <1>2, OperatingIs
  <2>2. PICK add, del : add = {NewKey} /\ del = {}
    OBVIOUS
  <2>3. q = Edit(r, add, del, "repoint", "idle") /\ "repoint" \in Ats /\ "idle" \in Ats
    BY <1>1, <2>1, <2>2 DEF Ats, Resting
  <2>4. add \subseteq Keys /\ del \subseteq Keys
    BY <1>2, <2>2
  <2>5. /\ q \in Records /\ q.at = "load" /\ q.edit = [add |-> add, del |-> del] /\ q.next = "repoint"
        /\ q.fail = "idle" /\ q.p = r.p /\ q.key = r.key /\ q.todo = r.todo
    BY <2>3, <2>4, EditIs
  <2> QED
    BY <2>1, <2>2, <2>5
<1>4. proc' \in [Workers -> Records] /\ proc'["app"] = q /\ \A v \in Workers \ {"app"} : proc'[v] = proc[v]
  BY <1>1, <1>3, BeginIs DEF IInv, Types, Workers
<1>5. UNCHANGED <<source, file, temp, chain, auth, url, bound, catalog, synced>>
  BY DEF stores
<1>6. AppRecord'
  <2>1. \A s \in Providers : source'[s] # NewKey
    BY <1>2, <1>5
  <2> QED
    BY <1>2, <1>3, <1>4, <2>1 DEF AppRecord, Editing, Updating
<1>7. \A s \in Providers : source'[s] \in Keys => source'[s] <= Total + used'.ops
  <2>1. used.ops \in Nat /\ used'.ops \in Nat
    BY <1>2 DEF IInv, Types, Counts
  <2> QED
    BY <1>2, <1>5, <2>1, Later DEF IInv, Types
<1>8. Types'
  <2>1. TypeOK'
    BY <1>5 DEF IInv, Types, TypeOK
  <2>2. \A s \in Plain : source'[s] # Profile
    BY <1>5 DEF IInv, Types
  <2> QED
    BY <1>2, <1>3, <1>4, <1>5, <1>6, <1>7, <2>1, <2>2, AppTypes DEF KeySteps, Workers
<1>9. FileIsSeen'
  BY <1>2, <1>3, <1>4, <1>5, FileIsSeenKept DEF IInv, Workers
<1>10. NothingStray'
  BY <1>2, <1>3, <1>4, <1>5, NothingStrayKept DEF IInv, Workers, KeySteps, Pending, Editing
<1>11. ASSUME ~raced PROVE KeysAreKept'
  BY <1>3, <1>4, <1>5, <1>11 DEF IInv, Alone, KeysAreKept, Somewhere
<1>12. ASSUME ~raced PROVE OneMigrates'
  BY <1>2, <1>3, <1>4, <1>5, <1>12, AppOneMigrates DEF Workers, Migrating, KeySteps
<1>13. UpdateIsKnown'
  BY <1>3, <1>4 DEF UpdateIsKnown, UpdateFits, Updating
<1> QED
  BY <1>8, <1>9, <1>10, <1>11, <1>12, <1>13 DEF IInv, Alone

LEMMA RotateInv ==
  ASSUME IInv, NEW p \in Providers, Rotate(p) \/ Create(p)
  PROVE  IInv'
<1>1. current' \subseteq Workers
  BY DEF Rotate, Create, Page, IInv, Types, TypeOK, Workers
<1> QED
  BY <1>1, AddInv DEF Rotate, Create

\* The Provider goes first, then the entry that is nobody's any more.
LEMMA DeleteInv ==
  ASSUME IInv, NEW p \in Plain, Delete(p)
  PROVE  IInv'
<1>1. PICK q : q = Edit(Operating(p), {}, {source[p]}, "idle", "idle")
  OBVIOUS
<1>2. /\ NewKey \in Keys \ Firsts /\ used' \in Counts /\ used.ops <= used'.ops
      /\ proc["app"].at = "idle" /\ used'.faults = used.faults /\ used'.reads = used.reads
  BY OperationIs DEF Delete
<1>3. p \in Providers /\ source[p] \in Keys
  BY DEF Delete, IInv, Types, TypeOK, Providers
<1>4. /\ q \in Records /\ q.at = "load" /\ q.edit = [add |-> {}, del |-> {source[p]}]
      /\ q.next = "idle" /\ q.fail = "idle" /\ q.p = p /\ q.todo = {}
  <2>1. PICK r \in Records : r = Operating(p) /\ r.p = p /\ r.todo = {}
    BY <1>2, <1>3, OperatingIs
  <2>2. PICK add, del : add = {} /\ del = {source[p]}
    OBVIOUS
  <2>3. q = Edit(r, add, del, "idle", "idle") /\ "idle" \in Ats
    BY <1>1, <2>1, <2>2 DEF Ats, Resting
  <2>4. add \subseteq Keys /\ del \subseteq Keys
    BY <1>3, <2>2
  <2>5. /\ q \in Records /\ q.at = "load" /\ q.edit = [add |-> add, del |-> del] /\ q.next = "idle"
        /\ q.fail = "idle" /\ q.p = r.p /\ q.key = r.key /\ q.todo = r.todo
    BY <2>3, <2>4, EditIs
  <2> QED
    BY <2>1, <2>2, <2>5
<1>5. proc' \in [Workers -> Records] /\ proc'["app"] = q /\ \A v \in Workers \ {"app"} : proc'[v] = proc[v]
  BY <1>1, <1>4, BeginIs DEF IInv, Types, Workers, Delete
<1>6. /\ UNCHANGED <<file, temp, chain, auth, url, bound, catalog, synced, raced>>
      /\ source' = [source EXCEPT ![p] = Gone] /\ current' = {"app"}
  BY DEF Delete
<1>7. source'[p] = Gone /\ \A s \in Providers \ {p} : source'[s] = source[s]
  BY <1>3, <1>6 DEF IInv, Types, TypeOK
<1>8. AppRecord'
  <2>1. q.edit.add = {} /\ "load" \in Editing /\ "load" \notin Updating \cup {"repoint", "reproject", "hash"}
    BY <1>4 DEF Editing, Updating
  <2> QED
    BY <1>3, <1>4, <1>5, <2>1 DEF AppRecord
<1>9. \A s \in Providers : source'[s] \in Keys => source'[s] <= Total + used'.ops
  <2>1. used.ops \in Nat /\ used'.ops \in Nat
    BY <1>2 DEF IInv, Types, Counts
  <2> QED
    BY <1>2, <1>7, <2>1, Later, KeysAre DEF IInv, Types
<1>10. Types'
  <2>1. TypeOK'
    BY <1>3, <1>6 DEF IInv, Types, TypeOK, Workers
  <2>2. \A s \in Plain : source'[s] # Profile
    BY <1>7, KeysAre DEF IInv, Types, Providers
  <2> QED
    BY <1>2, <1>4, <1>5, <1>6, <1>8, <1>9, <2>1, <2>2, AppTypes DEF KeySteps, Workers
<1>11. FileIsSeen'
  BY <1>2, <1>4, <1>5, <1>6, FileIsSeenKept DEF IInv, Workers
<1>12. NothingStray'
  <2>1. used'.faults = 0 /\ used'.reads = 0 => \A key \in file : Pending(key)' \/ \E s \in Providers : source'[s] = key
    BY <1>2, <1>4, <1>5, <1>7 DEF IInv, NothingStray, Pending, Editing
  <2>2. \A w \in {"app", "lam"} : proc'[w].at \in KeySteps => proc'[w] = proc[w]
    BY <1>4, <1>5 DEF KeySteps, Workers
  <2> QED
    BY <1>2, <1>6, <2>1, <2>2 DEF IInv, NothingStray
<1>13. ASSUME ~raced PROVE KeysAreKept'
  <2>1. \A s, t \in Providers : source[s] = source[t] /\ source[s] \in Keys => s = t
    BY <1>13 DEF IInv, Alone, KeysAreKept
  <2>2. \A s \in Providers : Somewhere(s)
    BY <1>13 DEF IInv, Alone, KeysAreKept
  <2>3. \A s \in Providers : Somewhere(s)'
    BY <1>6, <1>7, <2>2 DEF Somewhere
  <2>4. \A s \in Providers : source'[s] \notin proc'["app"].edit.del
    BY <1>3, <1>4, <1>5, <1>7, <2>1, KeysAre
  <2>5. \A s, t \in Providers : source'[s] = source'[t] /\ source'[s] \in Keys => s = t
    BY <1>7, <2>1, KeysAre
  <2> QED
    BY <1>4, <1>5, <2>3, <2>4, <2>5 DEF KeysAreKept
<1>14. ASSUME ~raced PROVE OneMigrates'
  BY <1>2, <1>4, <1>5, <1>6, <1>7, <1>14, AppOneMigrates DEF Workers, Migrating, KeySteps, Providers
<1>15. UpdateIsKnown'
  BY <1>4, <1>5 DEF UpdateIsKnown, UpdateFits, Updating
<1> QED
  BY <1>6, <1>10, <1>11, <1>12, <1>13, <1>14, <1>15 DEF IInv, Alone

\* The application begins to take an entry out, or rests.
Removes(q, del) ==
  /\ q \in Records /\ q.at = "load" /\ q.edit = [add |-> {}, del |-> del]
  /\ q.next = "idle" /\ q.fail = "idle" /\ q.p \in Providers
Rests(q) == q = Worker("idle")

\* Either way nothing is known of an update, and nothing is added.
LEMMA RemovesRecord ==
  ASSUME NEW del, Removes(proc'["app"], del) \/ Rests(proc'["app"])
  PROVE  /\ AppRecord' /\ UpdateIsKnown'
         /\ proc'["app"].at \notin KeySteps \cup {"off", "repoint", "temp", "rename", "down"} \cup Migrating
<1>1. CASE Removes(proc'["app"], del)
  <2>1. proc'["app"].edit.add = {} /\ "load" \in Editing
        /\ "load" \notin Updating \cup {"repoint", "reproject", "hash"}
    BY <1>1 DEF Removes, Editing, Updating
  <2> QED
    BY <1>1, <2>1 DEF Removes, AppRecord, UpdateIsKnown, UpdateFits, Updating, KeySteps, Migrating
<1>2. CASE Rests(proc'["app"])
  <2>1. proc'["app"].at = "idle"
    BY <1>2, WorkerIs DEF Rests, Ats, Resting
  <2> QED
    BY <2>1 DEF AppRecord, UpdateIsKnown, UpdateFits, Updating, KeySteps, Migrating, Editing
<1> QED
  BY <1>1, <1>2

\* Which entry goes: the old one if the reference is saved, else the new one.
LEMMA RepointIs ==
  ASSUME IInv, Repoint
  PROVE  \E del \in SUBSET Keys :
    /\ proc["app"].at = "repoint" /\ proc' \in [Workers -> Records]
    /\ \A v \in Workers \ {"app"} : proc'[v] = proc[v]
    /\ proc'["app"].todo \in {{}, proc["app"].todo} /\ (UNCHANGED used \/ Fault)
    /\ Mine.p \in Providers /\ Mine.key \in Keys
    /\ \/ /\ source[Mine.p] = Mine.old /\ UNCHANGED used /\ current' = {"app"}
          /\ source' = [source EXCEPT ![Mine.p] = Mine.key]
          /\ \/ source[Mine.p] \notin Keys /\ Rests(proc'["app"])
             \/ del = {source[Mine.p]} /\ Removes(proc'["app"], del)
       \/ /\ UNCHANGED <<source, current>>
          /\ del = {Mine.key} /\ Removes(proc'["app"], del)
<1>1. PICK k \in Records : k = Mine /\ k = proc["app"]
  BY DEF IInv, Types, Mine, Workers
<1>2. k.at = "repoint" /\ k.p \in Providers /\ k.key \in Keys /\ k.old \in Keys \cup {Gone, Profile}
  BY <1>1 DEF Repoint, At, IInv, Types, AppRecord, Records
<1>3. "idle" \in Ats /\ "app" \in Workers /\ proc \in [Workers -> Records]
  BY DEF Ats, Resting, Workers, IInv, Types
<1>4. \A key \in Keys : Begin("app", Edit(Mine, {}, {key}, "idle", "idle")) =>
        /\ proc' \in [Workers -> Records] /\ \A v \in Workers \ {"app"} : proc'[v] = proc[v]
        /\ proc'["app"].todo = proc["app"].todo /\ Removes(proc'["app"], {key})
  <2> SUFFICES ASSUME NEW key \in Keys, Begin("app", Edit(Mine, {}, {key}, "idle", "idle"))
               PROVE  /\ proc' \in [Workers -> Records] /\ \A v \in Workers \ {"app"} : proc'[v] = proc[v]
                      /\ proc'["app"].todo = proc["app"].todo /\ Removes(proc'["app"], {key})
    OBVIOUS
  <2>1. PICK add, del, q : add = {} /\ del = {key} /\ q = Edit(k, add, del, "idle", "idle")
    OBVIOUS
  <2>2. add \subseteq Keys /\ del \subseteq Keys
    BY <2>1
  <2>3. /\ q \in Records /\ q.at = "load" /\ q.edit = [add |-> add, del |-> del] /\ q.next = "idle"
        /\ q.fail = "idle" /\ q.p = k.p /\ q.todo = k.todo
    <3>1. q = Edit(k, add, del, "idle", "idle") /\ "idle" \in Ats
      BY <1>3, <2>1
    <3> QED
      BY <2>2, <3>1, EditIs
  <2>4. Begin("app", q)
    BY <1>1, <2>1
  <2>5. proc' \in [Workers -> Records] /\ proc'["app"] = q /\ \A v \in Workers \ {"app"} : proc'[v] = proc[v]
    BY <1>3, <2>3, <2>4, BeginIs
  <2> QED
    BY <1>1, <1>2, <2>1, <2>3, <2>5 DEF Removes
<1>5. Stop("app") => /\ proc' \in [Workers -> Records] /\ \A v \in Workers \ {"app"} : proc'[v] = proc[v]
                     /\ proc'["app"].todo = {} /\ Rests(proc'["app"])
  BY <1>3, GoIs, WorkerIs DEF Stop, Rest, Rests, Resting
<1>6. CASE source[Mine.p] = Mine.old /\ Save("app", Mine.p, Mine.key) /\ UNCHANGED used
           /\ Mine.old \in {Gone, Profile} /\ Stop("app")
  BY <1>1, <1>2, <1>5, <1>6, KeysAre DEF Save
<1>7. CASE source[Mine.p] = Mine.old /\ Save("app", Mine.p, Mine.key) /\ UNCHANGED used
           /\ Mine.old \notin {Gone, Profile} /\ Begin("app", Edit(Mine, {}, {Mine.old}, "idle", "idle"))
  <2>1. Mine.old \in Keys
    BY <1>1, <1>2, <1>7
  <2> QED
    BY <1>1, <1>2, <1>4, <1>7, <2>1 DEF Save
<1>8. CASE Begin("app", Edit(Mine, {}, {Mine.key}, "idle", "idle")) /\ UNCHANGED <<source, current>>
           /\ (UNCHANGED used \/ Fault)
  BY <1>1, <1>2, <1>4, <1>8
<1> QED
  BY <1>6, <1>7, <1>8 DEF Repoint

LEMMA RepointInv ==
  ASSUME IInv, Repoint
  PROVE  IInv'
<1>1. PICK del \in SUBSET Keys :
    /\ proc["app"].at = "repoint" /\ proc' \in [Workers -> Records]
    /\ \A v \in Workers \ {"app"} : proc'[v] = proc[v]
    /\ proc'["app"].todo \in {{}, proc["app"].todo} /\ (UNCHANGED used \/ Fault)
    /\ Mine.p \in Providers /\ Mine.key \in Keys
    /\ \/ /\ source[Mine.p] = Mine.old /\ UNCHANGED used /\ current' = {"app"}
          /\ source' = [source EXCEPT ![Mine.p] = Mine.key]
          /\ \/ source[Mine.p] \notin Keys /\ Rests(proc'["app"])
             \/ del = {source[Mine.p]} /\ Removes(proc'["app"], del)
       \/ /\ UNCHANGED <<source, current>>
          /\ del = {Mine.key} /\ Removes(proc'["app"], del)
  BY RepointIs
<1>2. UNCHANGED <<file, temp, chain, auth, url, bound, catalog, synced, raced>>
  BY DEF Repoint
<1>3. PICK p \in Providers, key \in Keys \ Firsts : p = proc["app"].p /\ key = proc["app"].key /\ p = Mine.p /\ key = Mine.key
  BY <1>1 DEF IInv, Types, AppRecord, Mine
<1>4. key <= Total + used.ops /\ \A q \in Providers : source[q] # key
  BY <1>1, <1>3 DEF IInv, Types, AppRecord
<1>5. /\ \A q \in Providers \ {p} : source'[q] = source[q]
      /\ source'[p] \in {source[p], key}
      /\ source'[p] = key \/ source' = source
  BY <1>1, <1>3 DEF IInv, Types, TypeOK
<1>6. /\ used' \in Counts /\ used'.ops = used.ops /\ used'.reads = used.reads
      /\ (used.faults > 0 => used'.faults > 0) /\ (used'.faults = 0 => used.faults = 0)
  BY <1>1, FaultOrNot
<1>7. AppRecord' /\ UpdateIsKnown'
      /\ proc'["app"].at \notin KeySteps \cup {"off", "repoint", "temp", "rename", "down"} \cup Migrating
  BY <1>1, RemovesRecord
<1>8. Types'
  <2>1. TypeOK'
    <3>1. source' \in [Providers -> Keys \cup {Profile, Gone}] /\ current' \subseteq Workers
      BY <1>1, <1>3 DEF IInv, Types, TypeOK, Workers
    <3> QED
      BY <1>2, <3>1 DEF IInv, Types, TypeOK
  <2>2. \A q \in Plain : source'[q] # Profile
    BY <1>5, KeysAre DEF IInv, Types, Providers
  <2>3. \A q \in Providers : source'[q] \in Keys => source'[q] <= Total + used'.ops
    BY <1>4, <1>5, <1>6 DEF IInv, Types
  <2> QED
    BY <1>1, <1>2, <1>6, <1>7, <2>1, <2>2, <2>3, AppTypes DEF Workers
<1>9. FileIsSeen'
  BY <1>1, <1>2, <1>6, <1>7, FileIsSeenKept DEF IInv, Workers
<1>10. NothingStray'
  <2>1. ASSUME used'.faults = 0, used'.reads = 0, NEW n \in file
        PROVE  Pending(n)' \/ \E q \in Providers : source'[q] = n
    <3>1. n = key \/ \E q \in Providers : source[q] = n
      BY <1>1, <1>3, <1>6, <2>1 DEF IInv, NothingStray, Pending, Editing
    <3>2. \A d : Removes(proc'["app"], d) => \A m \in d : Pending(m)'
      BY DEF Removes, Pending, Editing
    <3>3. n \in Keys
      BY DEF IInv, Types, TypeOK
    <3>4. \A q \in Providers \ {p} : source[q] = n => source'[q] = n
      BY <1>5
    <3>5. CASE source' = source /\ del = {key} /\ Removes(proc'["app"], del)
      BY <3>1, <3>2, <3>5
    <3>6. CASE source'[p] = key /\ source[p] \notin Keys
      BY <3>1, <3>3, <3>4, <3>6
    <3>7. CASE source'[p] = key /\ del = {source[p]} /\ Removes(proc'["app"], del)
      BY <3>1, <3>2, <3>4, <3>7
    <3>8. source' = [source EXCEPT ![p] = key] => source'[p] = key
      BY DEF IInv, Types, TypeOK
    <3> QED
      BY <1>1, <1>3, <3>5, <3>6, <3>7, <3>8
  <2>2. \A w \in {"app", "lam"} : proc'[w].at \in KeySteps => proc'[w] = proc[w]
    BY <1>1, <1>7 DEF Workers
  <2> QED
    BY <1>2, <1>6, <2>1, <2>2 DEF IInv, NothingStray
<1>11. ASSUME ~raced PROVE KeysAreKept'
  <2>1. \A s, t \in Providers : source[s] = source[t] /\ source[s] \in Keys => s = t
    BY <1>11 DEF IInv, Alone, KeysAreKept
  <2>2. (\A s \in Providers : Somewhere(s)) /\ key \in file
    BY <1>1, <1>3, <1>11 DEF IInv, Alone, KeysAreKept
  <2>3. \A s \in Providers : Somewhere(s)'
    BY <1>2, <1>5, <2>2 DEF Somewhere
  <2>4. proc'["app"].at \in Editing => \A s \in Providers : source'[s] \notin proc'["app"].edit.del
    <3>1. CASE Rests(proc'["app"])
      BY <3>1, WorkerIs DEF Rests, Ats, Resting, Editing
    <3>2. CASE del = {source[p]} /\ source'[p] = key /\ Removes(proc'["app"], del)
      BY <1>4, <1>5, <2>1, <3>2 DEF Removes
    <3>3. CASE del = {key} /\ source' = source /\ Removes(proc'["app"], del)
      BY <1>4, <3>3 DEF Removes
    <3> QED
      BY <1>1, <1>3, <3>1, <3>2, <3>3 DEF IInv, Types, TypeOK
  <2>5. \A s, t \in Providers : source'[s] = source'[t] /\ source'[s] \in Keys => s = t
    BY <1>4, <1>5, <2>1
  <2> QED
    BY <1>7, <2>3, <2>4, <2>5 DEF KeysAreKept
<1>12. ASSUME ~raced PROVE OneMigrates'
  BY <1>1, <1>2, <1>5, <1>7, <1>12, AppOneMigrates DEF Workers, Migrating, KeySteps, Providers
<1> QED
  BY <1>2, <1>7, <1>8, <1>9, <1>10, <1>11, <1>12 DEF IInv, Alone

SameEdit(q, r) ==
  /\ q.p = r.p /\ q.key = r.key /\ q.edit = r.edit /\ q.next = r.next /\ q.fail = r.fail
  /\ q.todo = r.todo

\* A step of w on the file: it goes on with its edit, or to what follows it.
Edited(w) ==
  /\ proc' \in [Workers -> Records] /\ \A v \in Workers \ {w} : proc'[v] = proc[v]
  /\ proc[w].at \in Editing
  /\ \/ proc'[w].at \in Editing /\ SameEdit(proc'[w], proc[w])
     \/ proc'[w].at = "repoint" /\ proc[w].next = "repoint" /\ SameEdit(proc'[w], proc[w])
     \/ proc'[w] = Worker(proc[w].fail)
  /\ used' \in Counts /\ used'.ops = used.ops /\ used'.reads = used.reads
  /\ used'.faults = 0 => used.faults = 0
  /\ UNCHANGED <<source, chain, auth, url, bound, catalog, synced, current>>

\* Only the application and the sidecar rewrite the file, and only the application takes entries out.
LEMMA EditorIs ==
  ASSUME IInv, NEW w \in Workers, proc[w].at \in Editing
  PROVE  /\ w \in {"app", "sidecar"} /\ proc[w] \in Records
         /\ proc[w].fail = (IF w = "app" THEN "idle" ELSE "off")
         /\ proc[w].next \in {proc[w].fail} \cup (IF w = "app" THEN {"repoint"} ELSE {})
         /\ proc[w].fail \in Resting /\ proc[w].fail \in Ats
         /\ (w = "sidecar" => proc[w].edit.del = {})
<1>1. w # "lam"
  BY DEF IInv, Types, LamPlaces, Migrating, KeySteps, Editing
<1>2. w \in {"app", "sidecar"}
  BY <1>1 DEF Workers
<1>3. CASE w = "app"
  BY <1>3 DEF IInv, Types, AppRecord, Resting, Ats
<1>4. CASE w = "sidecar"
  BY <1>4 DEF IInv, Types, SidecarRecord, Resting, Ats
<1> QED
  BY <1>2, <1>3, <1>4 DEF IInv, Types

\* A step on the file keeps the records.
LEMMA EditedTypes ==
  ASSUME IInv, NEW w \in Workers, Edited(w),
         file' \subseteq Keys, temp' = None \/ temp' \subseteq Keys, raced' \in BOOLEAN
  PROVE  Types' /\ proc'[w].at \notin Updating \cup Migrating \cup KeySteps \cup {"down"}
<1>1. proc[w].at \in Editing
  BY DEF Edited
<1>2. /\ w \in {"app", "sidecar"} /\ proc[w].fail = (IF w = "app" THEN "idle" ELSE "off")
      /\ proc[w].next \in {proc[w].fail} \cup (IF w = "app" THEN {"repoint"} ELSE {})
      /\ (w = "sidecar" => proc[w].edit.del = {}) /\ proc[w].fail \in Ats
  BY <1>1, EditorIs
<1>3. /\ Worker(proc[w].fail).at = proc[w].fail /\ Worker(proc[w].fail).todo = {}
  BY <1>2, WorkerIs
<1>4. TypeOK'
  BY DEF Edited, IInv, Types, TypeOK
<1>5. proc'[w].at \in Editing \cup {"repoint", proc[w].fail} /\ proc'[w].todo \in {{}, proc[w].todo}
      /\ (proc'[w].at = "repoint" => w = "app")
  BY <1>2, <1>3 DEF Edited, SameEdit, Editing
<1>6. proc'[w].at \notin Updating \cup Migrating \cup KeySteps \cup {"down", "reproject", "hash"}
  BY <1>2, <1>5 DEF Editing, Updating, Migrating, KeySteps
<1>7. AppRecord'
  <2>1. CASE w = "app"
    <3>1. proc'["app"].at = "idle" \/ SameEdit(proc'["app"], proc["app"])
      BY <1>2, <1>3, <2>1 DEF Edited
    <3>2. proc'["app"].at = "idle" => AppRecord'
      BY DEF AppRecord, Updating, Editing
    <3>3. proc'["app"].at = "repoint" => proc["app"].next = "repoint"
      BY <1>2, <1>3, <2>1 DEF Edited, Editing
    <3> QED
      BY <1>1, <1>5, <1>6, <2>1, <3>1, <3>2, <3>3 DEF AppRecord, SameEdit, Edited, IInv, Types
  <2>2. CASE w = "sidecar"
    BY <2>2 DEF Edited, AppRecord, IInv, Types, Workers
  <2> QED
    BY <1>2, <2>1, <2>2
<1>8. SidecarRecord'
  <2>1. CASE w = "sidecar"
    BY <1>1, <1>2, <1>3, <1>5, <2>1 DEF SidecarRecord, Edited, SameEdit, IInv, Types, Editing
  <2>2. CASE w = "app"
    BY <2>2 DEF Edited, SidecarRecord, IInv, Types, Workers
  <2> QED
    BY <1>2, <2>1, <2>2
<1>9. MigrationRecord("app")' /\ MigrationRecord("lam")'
  BY <1>2, <1>5, <1>6 DEF Edited, MigrationRecord, IInv, Types, Workers
<1>10. proc'["lam"].at \in LamPlaces /\ proc'["app"].at # "off"
  BY <1>2, <1>5 DEF Edited, IInv, Types, Workers, Editing
<1>11. /\ chain' \subseteq Firsts /\ \A p \in Plain : source'[p] # Profile
       /\ \A p \in Providers : source'[p] \in Keys => source'[p] <= Total + used'.ops
  BY DEF Edited, IInv, Types
<1>12. proc' \in [Workers -> Records] /\ used' \in Counts
  BY DEF Edited
<1> QED
  BY <1>4, <1>6, <1>7, <1>8, <1>9, <1>10, <1>11, <1>12 DEF Types

\* It concerns neither a migration nor an update.
LEMMA EditedAlone ==
  ASSUME IInv, NEW w \in Workers, Edited(w), ~raced,
         proc'[w].at \notin Updating \cup Migrating \cup KeySteps \cup {"down"},
         used.faults > 0 => used'.faults > 0
  PROVE  OneMigrates' /\ UpdateIsKnown'
<1>1. w \in {"app", "sidecar"} /\ proc[w].at \in Editing
  BY EditorIs DEF Edited
<1>2. CASE w = "app"
  <2>1. OneMigrates'
    BY <1>1, <1>2, AppOneMigrates DEF Edited, Workers, Editing, Migrating, KeySteps
  <2>2. UpdateIsKnown'
    BY <1>2 DEF UpdateIsKnown, UpdateFits, Updating
  <2> QED
    BY <2>1, <2>2
<1>3. CASE w = "sidecar"
  <2>1. proc'["app"] = proc["app"] /\ proc'["lam"] = proc["lam"] /\ UNCHANGED <<source, chain, auth>>
    BY <1>3 DEF Edited, Workers
  <2>2. OneMigrates'
    BY <2>1 DEF IInv, Alone, OneMigrates, KeyIsKnown, TodoIsKnown
  <2>3. UpdateIsKnown'
    BY <2>1 DEF IInv, Alone, UpdateIsKnown, UpdateFits, Edited
  <2> QED
    BY <2>2, <2>3
<1> QED
  BY <1>1, <1>2, <1>3

\* What is taken out is nobody's key, so every key stays where it was.
LEMMA EditedKeys ==
  ASSUME IInv, NEW w \in Workers, Edited(w), ~raced,
         \/ file' = file /\ proc'[w].at # "repoint"
         \/ file' = (file \ proc[w].edit.del) \cup proc[w].edit.add
  PROVE  KeysAreKept'
<1>1. /\ w \in {"app", "sidecar"} /\ proc[w].at \in Editing /\ (w = "sidecar" => proc[w].edit.del = {})
  BY EditorIs DEF Edited
<1>2. UNCHANGED <<source, chain, auth>> /\ KeysAreKept
  BY DEF Edited, IInv, Alone
<1>3. w = "app" => \A p \in Providers : source[p] \notin proc["app"].edit.del
  BY <1>1, <1>2 DEF KeysAreKept
<1>4. \A p \in Providers : Somewhere(p)'
  <2>1. \A p \in Providers : source[p] \in file => source[p] \in file'
    BY <1>1, <1>3
  <2> QED
    BY <1>2, <2>1 DEF KeysAreKept, Somewhere
<1>5. CASE w = "app"
  <2>1. proc'["app"].at \in Editing \/ proc'["app"].at = "repoint" \/ proc'["app"].at = "idle"
    <3>1. proc["app"].fail = "idle" /\ Worker("idle").at = "idle"
      BY <1>1, <1>5, EditorIs, WorkerIs DEF Ats, Resting
    <3> QED
      BY <1>5, <3>1 DEF Edited
  <2>2. proc'["app"].at \in Editing => proc'["app"].edit = proc["app"].edit
    <3>1. proc["app"].fail = "idle" /\ Worker("idle").at = "idle"
      BY <1>1, <1>5, EditorIs, WorkerIs DEF Ats, Resting
    <3> QED
      BY <1>5, <3>1 DEF Edited, SameEdit, Editing
  <2>3. proc'["app"].at = "repoint" => proc'["app"].key \in file'
    <3>1. ASSUME proc'["app"].at = "repoint" PROVE proc["app"].next = "repoint" /\ proc'["app"].key = proc["app"].key
      <4>1. proc["app"].fail = "idle" /\ Worker("idle").at = "idle"
        BY <1>1, <1>5, EditorIs, WorkerIs DEF Ats, Resting
      <4> QED
        BY <1>5, <3>1, <4>1 DEF Edited, SameEdit, Editing
    <3>2. proc["app"].next = "repoint" => proc["app"].edit = [add |-> {proc["app"].key}, del |-> {}]
      BY <1>1, <1>5 DEF IInv, Types, AppRecord
    <3> QED
      BY <1>5, <3>1, <3>2
  <2> QED
    BY <1>2, <1>3, <1>4, <1>5, <2>2, <2>3 DEF KeysAreKept
<1>6. CASE w = "sidecar"
  <2>1. proc'["app"] = proc["app"] /\ file \subseteq file'
    BY <1>1, <1>6 DEF Edited, Workers
  <2> QED
    BY <1>2, <1>4, <2>1 DEF KeysAreKept
<1> QED
  BY <1>1, <1>5, <1>6

\* What is put in is about to get a Provider.
LEMMA EditedStray ==
  ASSUME IInv, NEW w \in Workers, Edited(w), used'.faults > 0 => used'.faults # 0,
         used'.faults = 0 /\ used'.reads = 0 =>
           \/ file' = file /\ proc'[w].at \in Editing
           \/ /\ file' = (file \ proc[w].edit.del) \cup proc[w].edit.add
              /\ proc'[w].at = proc[w].next
  PROVE  NothingStray'
<1> SUFFICES ASSUME used'.faults = 0, used'.reads = 0
             PROVE  /\ \A key \in file' : Pending(key)' \/ \E p \in Providers : source'[p] = key
                    /\ file' \cap chain' = {}
                    /\ \A v \in {"app", "lam"} : proc'[v].at \in KeySteps => proc'[v].key \notin file'
  BY DEF NothingStray
<1>1. used.faults = 0 /\ used.reads = 0 /\ proc[w].at \in Editing /\ proc'["lam"] = proc["lam"]
      /\ UNCHANGED <<source, chain>>
  <2>1. w # "lam"
    BY EditorIs DEF Edited
  <2> QED
    BY <2>1 DEF Edited, Workers
<1>2. w = "app"
  BY <1>1, EditorIs DEF IInv, FileIsSeen, Editing
<1>3. /\ \A key \in file : Pending(key) \/ \E p \in Providers : source[p] = key
      /\ file \cap chain = {}
      /\ proc["lam"].at \in KeySteps => proc["lam"].key \notin file /\ proc["lam"].key \in Firsts
  BY <1>1 DEF IInv, NothingStray, Types, MigrationRecord
<1>4. /\ proc["app"].next \in {"repoint", "idle"} /\ (proc["app"].next = "idle" => proc["app"].edit.add = {})
      /\ proc["app"].next = "repoint" =>
           proc["app"].edit.add = {proc["app"].key} /\ proc["app"].key \in Keys \ Firsts
  BY <1>1, <1>2 DEF IInv, Types, AppRecord
<1>5. \A key \in file : Pending(key) <=> key \in proc["app"].edit.del
  BY <1>1, <1>2 DEF Pending, Editing
<1>6. proc'["app"].at \notin KeySteps
  BY <1>2, <1>4 DEF KeySteps, Editing
<1>7. CASE file' = file /\ proc'["app"].at \in Editing
  <2>1. proc'["app"].edit = proc["app"].edit
    <3>1. proc["app"].fail = "idle" /\ Worker("idle").at = "idle"
      BY <1>1, <1>2, EditorIs, WorkerIs DEF Ats, Resting
    <3> QED
      BY <1>2, <1>7, <3>1 DEF Edited, SameEdit, Editing
  <2>2. \A key \in file : Pending(key) => Pending(key)'
    BY <1>5, <1>7, <2>1 DEF Pending
  <2> QED
    BY <1>1, <1>3, <1>6, <1>7, <2>2
<1>8. CASE /\ file' = (file \ proc["app"].edit.del) \cup proc["app"].edit.add
           /\ proc'["app"].at = proc["app"].next
  <2>1. \A key \in file \ proc["app"].edit.del : \E p \in Providers : source'[p] = key
    BY <1>1, <1>3, <1>5
  <2>2. \A key \in proc["app"].edit.add : Pending(key)'
    <3>1. proc["app"].next = "repoint" => proc'["app"].key = proc["app"].key
      <4>1. proc["app"].fail = "idle" /\ Worker("idle").at = "idle"
        BY <1>1, <1>2, EditorIs, WorkerIs DEF Ats, Resting
      <4> QED
        BY <1>2, <1>8, <4>1 DEF Edited, SameEdit, Editing
    <3> QED
      BY <1>4, <1>8, <3>1 DEF Pending
  <2>3. proc["app"].edit.add \cap Firsts = {}
    BY <1>4
  <2>4. chain \subseteq Firsts
    BY DEF IInv, Types
  <2> QED
    BY <1>1, <1>3, <1>6, <1>8, <2>1, <2>2, <2>3, <2>4
<1> QED
  BY <1>2, <1>7, <1>8

LEMMA LoadFileInv ==
  ASSUME IInv, NEW w \in Workers, LoadFile(w)
  PROVE  IInv'
<1>1. /\ proc[w].at = "load" /\ proc[w].at \in Editing
      /\ UNCHANGED <<source, file, temp, chain, auth, url, bound, catalog, synced, current, used>>
      /\ raced' = (raced \/ \E v \in Workers \ {w} : proc[v].at \in {"temp", "rename"})
  BY DEF LoadFile, stores, Editing
<1>2. /\ proc' \in [Workers -> Records] /\ \A v \in Workers \ {w} : proc'[v] = proc[v]
      /\ proc'[w].at = "temp" /\ proc'[w].seen = file /\ SameEdit(proc'[w], proc[w])
  <2>1. PICK k \in Records : k = proc[w]
    BY DEF IInv, Types
  <2>2. PICK q : q = [k EXCEPT !.at = "temp", !.seen = file]
    OBVIOUS
  <2>3. file \in SUBSET Keys /\ "temp" \in Ats
    BY DEF IInv, Types, TypeOK, Ats, Editing
  <2>4. q \in Records /\ q.at = "temp" /\ q.seen = file /\ SameEdit(q, k)
    BY <2>2, <2>3 DEF Records, SameEdit
  <2>5. proc' = [proc EXCEPT ![w] = q]
    BY <2>1, <2>2 DEF LoadFile
  <2> QED
    BY <2>1, <2>4, <2>5 DEF IInv, Types
<1>3. w \in {"app", "sidecar"} /\ proc'[w].at \in Editing
  BY <1>1, <1>2, EditorIs DEF Editing
<1>4. Edited(w)
  BY <1>1, <1>2, <1>3 DEF Edited, IInv, Types
<1>5. Types' /\ proc'[w].at \notin Updating \cup Migrating \cup KeySteps \cup {"down"}
  BY <1>1, <1>4, EditedTypes DEF IInv, Types, TypeOK
<1>6. FileIsSeen'
  <2>1. CASE ~raced'
    BY <1>1, <1>2, <1>3, <2>1 DEF IInv, FileIsSeen, Workers
  <2>2. CASE used.reads = 0
    BY <1>1, <1>2, <1>3, <2>2 DEF IInv, FileIsSeen, Workers
  <2> QED
    BY <1>1, <2>1, <2>2 DEF FileIsSeen
<1>7. NothingStray'
  BY <1>1, <1>3, <1>4, EditedStray DEF IInv, Types, Counts
<1>8. ASSUME ~raced PROVE KeysAreKept' /\ OneMigrates' /\ UpdateIsKnown'
  BY <1>1, <1>2, <1>4, <1>5, <1>8, EditedKeys, EditedAlone
<1> QED
  BY <1>1, <1>5, <1>6, <1>7, <1>8 DEF IInv, Alone

\* A migration notices nothing of a step on other stores.
LEMMA OneMigratesSame ==
  ASSUME OneMigrates, UNCHANGED <<source, chain, auth>>, proc'["app"] = proc["app"], proc'["lam"] = proc["lam"]
  PROVE  OneMigrates'
BY DEF OneMigrates, KeyIsKnown, TodoIsKnown

\* From its place an editor goes on, or rests.
LEMMA EditGoes ==
  ASSUME IInv, NEW w \in Workers, proc[w].at \in Editing,
         NEW at \in {"rename", proc[w].next, proc[w].fail}, Go(w, at)
  PROVE  /\ proc' \in [Workers -> Records] /\ \A v \in Workers \ {w} : proc'[v] = proc[v]
         /\ proc'[w].at = at
         /\ at \in {"rename", "repoint"} => SameWork(proc'[w], proc[w])
         /\ at \notin {"rename", "repoint"} => proc'[w] = Worker(proc[w].fail) /\ at = proc[w].fail
         /\ at = "repoint" => proc[w].next = "repoint"
<1>1. /\ w \in {"app", "sidecar"} /\ proc[w].fail \in {"idle", "off"}
      /\ proc[w].next \in {proc[w].fail, "repoint"}
  BY EditorIs
<1>2. at \in Ats /\ "rename" \notin Resting /\ "repoint" \notin Resting /\ proc[w].fail \in Resting
  BY <1>1 DEF Ats, Editing, Resting
<1> QED
  BY <1>1, <1>2, GoIs DEF IInv, Types

LEMMA WriteTempInv ==
  ASSUME IInv, NEW w \in Workers, WriteTemp(w)
  PROVE  IInv'
<1>1. PICK at \in {"rename", proc[w].fail} :
        /\ Go(w, at) /\ (UNCHANGED used \/ Fault)
        /\ \/ at = "rename" /\ temp' = (proc[w].seen \ proc[w].edit.del) \cup proc[w].edit.add
           \/ at = proc[w].fail /\ UNCHANGED temp /\ Fault
  BY DEF WriteTemp
<1>2. /\ proc[w].at = "temp" /\ proc[w].at \in Editing
      /\ UNCHANGED <<source, file, chain, auth, url, bound, catalog, synced, current, raced>>
  BY DEF WriteTemp, Editing
<1>3. /\ w \in {"app", "sidecar"} /\ proc[w].fail \in {"idle", "off"} /\ proc[w].fail \in Ats
  BY <1>2, EditorIs
<1>4. /\ proc' \in [Workers -> Records] /\ \A v \in Workers \ {w} : proc'[v] = proc[v]
      /\ proc'[w].at = at /\ (at = "rename" => SameWork(proc'[w], proc[w]))
      /\ (at # "rename" => proc'[w] = Worker(proc[w].fail))
  BY <1>1, <1>2, <1>3, EditGoes
<1>5. /\ used' \in Counts /\ used'.ops = used.ops /\ used'.reads = used.reads
      /\ (used.faults > 0 => used'.faults > 0) /\ (Fault => used'.faults > 0)
      /\ used'.faults = 0 => used.faults = 0
  BY <1>1, FaultOrNot
<1>6. used'.faults > 0 => used'.faults # 0
  BY <1>5 DEF Counts
<1>7. Edited(w)
  BY <1>2, <1>3, <1>4, <1>5 DEF Edited, SameEdit, SameWork, Editing
<1>8. temp' = None \/ temp' \subseteq Keys
  <2>1. PICK k \in Records : k = proc[w]
    BY DEF IInv, Types
  <2>2. k.seen \subseteq Keys /\ k.edit.add \subseteq Keys
    BY DEF Records, Edits
  <2> QED
    BY <1>1, <2>1, <2>2 DEF IInv, Types, TypeOK
<1>9. Types' /\ proc'[w].at \notin Updating \cup Migrating \cup KeySteps \cup {"down"}
  BY <1>2, <1>7, <1>8, EditedTypes DEF IInv, Types, TypeOK
<1>10. FileIsSeen'
  <2> SUFFICES ASSUME ~raced \/ used.reads = 0 PROVE FileIsSeen'
    BY <1>2, <1>5 DEF FileIsSeen
  <2>1. /\ used.reads = 0 => proc["sidecar"].at = "off"
        /\ ~(proc["app"].at \in {"temp", "rename"} /\ proc["sidecar"].at \in {"temp", "rename"})
        /\ \A v \in {"app", "sidecar"} : LET k == proc[v] IN
             /\ k.at = "temp" => k.seen = file
             /\ k.at = "rename" => temp # None /\ temp = (file \ k.edit.del) \cup k.edit.add
    BY DEF IInv, FileIsSeen
  <2>2. proc'[w].at = "rename" =>
          temp' # None /\ temp' = (file \ proc'[w].edit.del) \cup proc'[w].edit.add
    <3> SUFFICES ASSUME proc'[w].at = "rename" 
                 PROVE  temp' # None /\ temp' = (file \ proc'[w].edit.del) \cup proc'[w].edit.add
      OBVIOUS
    <3>1. proc[w].seen = file /\ at = "rename" /\ proc'[w].edit = proc[w].edit
      BY <1>2, <1>3, <1>4, <2>1 DEF SameWork
    <3>2. temp' = (file \ proc[w].edit.del) \cup proc[w].edit.add
      BY <1>1, <1>3, <3>1
    <3>3. temp' \in SUBSET Keys
      <4>1. PICK k \in Records : k = proc[w]
        BY DEF IInv, Types
      <4>2. k.seen \subseteq Keys /\ k.edit.add \subseteq Keys
        BY DEF Records, Edits
      <4> QED
        BY <3>1, <3>2, <4>1, <4>2
    <3> QED
      BY <3>1, <3>2, <3>3, NoFileAssumption
  <2>3. \A v \in {"app", "sidecar"} \ {w} : proc'[v].at # "rename" /\ proc'[v] = proc[v] /\ proc'[v].at # "temp"
    BY <1>2, <1>3, <1>4, <2>1 DEF Workers
  <2>4. used'.reads = 0 => proc'["sidecar"].at = "off"
    BY <1>2, <1>5, <2>1, <2>3, <1>3
  <2>5. \A v \in {"app", "sidecar"} : proc'[v].at # "temp"
    BY <1>2, <1>3, <1>4, <2>3
  <2>6. file' = file
    BY <1>2
  <2>7. \A v \in {"app", "sidecar"} : proc'[v].at = "rename" =>
          temp' # None /\ temp' = (file \ proc'[v].edit.del) \cup proc'[v].edit.add
    BY <1>3, <2>2, <2>3
  <2>8. ~(proc'["app"].at \in {"temp", "rename"} /\ proc'["sidecar"].at \in {"temp", "rename"})
    BY <1>3, <2>3
  <2> QED
    BY <2>4, <2>5, <2>6, <2>7, <2>8 DEF FileIsSeen
<1>11. NothingStray'
  BY <1>1, <1>2, <1>4, <1>5, <1>6, <1>7, EditedStray DEF Editing
<1>12. ASSUME ~raced PROVE KeysAreKept' /\ OneMigrates' /\ UpdateIsKnown'
  BY <1>2, <1>3, <1>4, <1>5, <1>7, <1>9, <1>12, EditedKeys, EditedAlone
<1> QED
  BY <1>2, <1>9, <1>10, <1>11, <1>12 DEF IInv, Alone

LEMMA RenameInv ==
  ASSUME IInv, NEW w \in Workers, Rename(w)
  PROVE  IInv'
<1>1. PICK at \in {proc[w].next, proc[w].fail} :
        /\ Go(w, at) /\ (UNCHANGED used \/ Fault)
        /\ \/ at = proc[w].next /\ temp # None /\ file' = temp /\ temp' = None
           \/ at = proc[w].fail /\ UNCHANGED <<file, temp>> /\ (temp # None => Fault)
  BY DEF Rename
<1>2. /\ proc[w].at = "rename" /\ proc[w].at \in Editing
      /\ UNCHANGED <<source, chain, auth, url, bound, catalog, synced, current, raced>>
  BY DEF Rename, Editing
<1>3. /\ w \in {"app", "sidecar"} /\ proc[w].fail \in {"idle", "off"} /\ proc[w].fail \in Ats
      /\ proc[w].next \in {proc[w].fail, "repoint"}
  BY <1>2, EditorIs
<1>4. /\ proc' \in [Workers -> Records] /\ \A v \in Workers \ {w} : proc'[v] = proc[v]
      /\ proc'[w].at = at /\ (at = "repoint" => SameWork(proc'[w], proc[w]) /\ proc[w].next = "repoint")
      /\ (at # "repoint" => proc'[w] = Worker(proc[w].fail))
  BY <1>1, <1>2, <1>3, EditGoes
<1>5. /\ used' \in Counts /\ used'.ops = used.ops /\ used'.reads = used.reads
      /\ (used.faults > 0 => used'.faults > 0) /\ (Fault => used'.faults > 0)
      /\ used'.faults = 0 => used.faults = 0
  BY <1>1, FaultOrNot
<1>6. used'.faults > 0 => used'.faults # 0
  BY <1>5 DEF Counts
<1>7. Edited(w)
  BY <1>1, <1>2, <1>3, <1>4, <1>5 DEF Edited, SameEdit, SameWork
<1>8. file' \subseteq Keys /\ (temp' = None \/ temp' \subseteq Keys)
  BY <1>1 DEF IInv, Types, TypeOK
<1>9. Types' /\ proc'[w].at \notin Updating \cup Migrating \cup KeySteps \cup {"down"}
  BY <1>2, <1>7, <1>8, EditedTypes DEF IInv, Types, TypeOK
<1>10. ASSUME ~raced \/ used.reads = 0
       PROVE  /\ temp # None /\ temp = (file \ proc[w].edit.del) \cup proc[w].edit.add
              /\ used.reads = 0 => proc["sidecar"].at = "off"
              /\ \A v \in {"app", "sidecar"} \ {w} : proc[v].at \notin {"temp", "rename"}
  BY <1>2, <1>3, <1>10 DEF IInv, FileIsSeen
<1>11. FileIsSeen'
  <2> SUFFICES ASSUME ~raced \/ used.reads = 0 PROVE FileIsSeen'
    BY <1>2, <1>5 DEF FileIsSeen
  <2>1. \A v \in {"app", "sidecar"} : proc'[v].at \notin {"temp", "rename"}
    BY <1>3, <1>4, <1>10 DEF Workers
  <2>2. used'.reads = 0 => proc'["sidecar"].at = "off"
    BY <1>2, <1>3, <1>4, <1>5, <1>10 DEF Workers
  <2> QED
    BY <2>1, <2>2 DEF FileIsSeen
<1>12. NothingStray'
  <2>1. used'.faults = 0 /\ used'.reads = 0 =>
          /\ file' = (file \ proc[w].edit.del) \cup proc[w].edit.add
          /\ proc'[w].at = proc[w].next
    BY <1>1, <1>4, <1>5, <1>6, <1>10
  <2> QED
    BY <1>6, <1>7, <2>1, EditedStray
<1>13. ASSUME ~raced PROVE KeysAreKept' /\ OneMigrates' /\ UpdateIsKnown'
  <2>1. \/ file' = file /\ proc'[w].at # "repoint"
        \/ file' = (file \ proc[w].edit.del) \cup proc[w].edit.add
    BY <1>1, <1>3, <1>4, <1>10, <1>13
  <2> QED
    BY <1>5, <1>7, <1>9, <1>13, <2>1, EditedKeys, EditedAlone
<1> QED
  BY <1>2, <1>9, <1>11, <1>12, <1>13 DEF IInv, Alone

\* The sidecar copies a key that is somewhere already.
LEMMA ReadInv ==
  ASSUME IInv, NEW p \in Plain, Read(p)
  PROVE  IInv'
<1>1. /\ proc["sidecar"].at = "off" /\ source[p] \in chain
      /\ UNCHANGED <<source, file, temp, chain, auth, url, bound, catalog, synced, current, raced>>
      /\ Begin("sidecar", Edit([Worker("off") EXCEPT !.p = p], {source[p]}, {}, "off", "off"))
  BY DEF Read, stores
<1>2. source[p] \in Keys /\ p \in Providers
  BY <1>1 DEF IInv, Types, TypeOK, Providers
<1>3. PICK add, del, r, q : /\ add = {source[p]} /\ del = {} /\ r = [Worker("off") EXCEPT !.p = p]
                            /\ q = Edit(r, add, del, "off", "off")
  OBVIOUS
<1>4. r \in Records /\ r.todo = {}
  <2>1. PICK k : k = Worker("off")
    OBVIOUS
  <2>2. k \in Records /\ k.todo = {}
    BY <2>1, WorkerIs DEF Ats, Resting
  <2> QED
    BY <1>2, <1>3, <2>1, <2>2 DEF Records
<1>5. /\ q \in Records /\ q.at = "load" /\ q.edit = [add |-> add, del |-> del]
      /\ q.next = "off" /\ q.fail = "off"
  <2>1. add \subseteq Keys /\ del \subseteq Keys /\ "off" \in Ats
    BY <1>2, <1>3 DEF Ats, Resting
  <2>2. q = Edit(r, add, del, "off", "off")
    BY <1>3
  <2> QED
    BY <1>4, <2>1, <2>2, EditIs
<1>6. proc' \in [Workers -> Records] /\ proc'["sidecar"] = q /\ \A v \in Workers \ {"sidecar"} : proc'[v] = proc[v]
  <2>1. Begin("sidecar", q)
    BY <1>1, <1>3
  <2> QED
    BY <1>5, <2>1, BeginIs DEF IInv, Types, Workers
<1>7. used' \in Counts /\ used'.ops = used.ops /\ used'.faults = used.faults /\ used'.reads # 0
  BY UseIs DEF Read, IInv, Types, Counts
<1>8. proc'["app"] = proc["app"] /\ proc'["lam"] = proc["lam"]
  BY <1>6 DEF Workers
<1>9. Types'
  <2>1. TypeOK'
    BY <1>1 DEF IInv, Types, TypeOK
  <2>3. SidecarRecord'
    BY <1>3, <1>5, <1>6 DEF SidecarRecord, Editing
  <2>2. AppRecord' /\ MigrationRecord("app")' /\ MigrationRecord("lam")'
    BY <1>1, <1>7, <1>8 DEF IInv, Types, AppRecord, MigrationRecord
  <2> QED
    BY <1>1, <1>6, <1>7, <1>8, <2>1, <2>2, <2>3 DEF IInv, Types
<1>10. FileIsSeen'
  BY <1>1, <1>5, <1>6, <1>7, <1>8 DEF IInv, FileIsSeen
<1>11. NothingStray'
  BY <1>7 DEF NothingStray
<1>12. ASSUME ~raced PROVE KeysAreKept' /\ OneMigrates' /\ UpdateIsKnown'
  <2>1. KeysAreKept'
    BY <1>1, <1>8, <1>12 DEF IInv, Alone, KeysAreKept, Somewhere
  <2>2. OneMigrates'
    BY <1>1, <1>8, <1>12 DEF IInv, Alone, OneMigrates, KeyIsKnown, TodoIsKnown
  <2>3. UpdateIsKnown'
    BY <1>1, <1>7, <1>8, <1>12 DEF IInv, Alone, UpdateIsKnown, UpdateFits
  <2> QED
    BY <2>1, <2>2, <2>3
<1> QED
  BY <1>1, <1>9, <1>10, <1>11, <1>12 DEF IInv, Alone

\* At whatever step a process ends, the keys are where they were.
LEMMA CrashInv ==
  ASSUME IInv, NEW w \in Workers, Crash(w)
  PROVE  IInv'
<1> DEFINE at == IF w = "app" THEN "down" ELSE "off"
<1>1. /\ proc' = [v \in Workers |-> IF v = w THEN Worker(at) ELSE proc[v]] /\ Fault
      /\ UNCHANGED <<source, file, temp, chain, auth, url, bound, catalog, synced, current, raced>>
  BY DEF Crash, stores
<1>2. at \in Ats /\ at \in {"down", "off"} /\ (w = "app" => at = "down") /\ (w # "app" => at = "off")
  BY DEF Ats, Resting
<1> HIDE DEF at
<1>3. Worker(at) \in Records /\ Worker(at).at = at /\ Worker(at).todo = {}
  BY <1>2, WorkerIs
<1>4. /\ proc' \in [Workers -> Records] /\ \A v \in Workers \ {w} : proc'[v] = proc[v]
      /\ proc'[w].at = at /\ proc'[w].todo = {}
  BY <1>1, <1>3 DEF IInv, Types
<1>5. used' \in Counts /\ used'.ops = used.ops /\ used'.reads = used.reads /\ used'.faults > 0 /\ used'.faults # 0
  BY <1>1, FaultIs DEF IInv
<1>6. proc'[w].at \notin Editing \cup Migrating \cup KeySteps \cup Updating \cup {"repoint", "reproject", "hash"}
  BY <1>2, <1>4 DEF Editing, Migrating, KeySteps, Updating
<1>7. Types'
  <2>1. TypeOK'
    BY <1>1 DEF IInv, Types, TypeOK
  <2>2. AppRecord'
    <3>1. CASE w = "app"
      BY <1>6, <3>1 DEF AppRecord
    <3>2. CASE w # "app"
      BY <1>1, <1>4, <1>5, <3>2 DEF AppRecord, IInv, Types, Workers
    <3> QED
      BY <3>1, <3>2
  <2>3. SidecarRecord'
    BY <1>2, <1>4, <1>6 DEF SidecarRecord, IInv, Types, Workers
  <2>4. MigrationRecord("app")' /\ MigrationRecord("lam")'
    BY <1>4, <1>6 DEF MigrationRecord, IInv, Types, Workers
  <2>5. proc'["lam"].at \in LamPlaces /\ proc'["app"].at # "off"
    BY <1>2, <1>4 DEF LamPlaces, IInv, Types, Workers
  <2> QED
    BY <1>1, <1>4, <1>5, <2>1, <2>2, <2>3, <2>4, <2>5 DEF IInv, Types
<1>8. FileIsSeen'
  <2>1. proc["sidecar"].at = "off" => proc'["sidecar"].at = "off"
    BY <1>2, <1>4 DEF Workers
  <2>2. \A v \in {"app", "sidecar"} : proc'[v].at \in {"temp", "rename"} => proc'[v] = proc[v]
    BY <1>4, <1>6 DEF Editing, Workers
  <2> QED
    BY <1>1, <1>5, <2>1, <2>2, FileIsSeenKept DEF IInv
<1>9. NothingStray'
  BY <1>5 DEF NothingStray
<1>11. UNCHANGED <<source, chain, auth>>
  BY <1>1
<1>10. ASSUME ~raced PROVE KeysAreKept' /\ OneMigrates' /\ UpdateIsKnown'
  <2>1. KeysAreKept'
    <3>1. proc'["app"].at \in Editing \cup {"repoint"} => proc'["app"] = proc["app"]
      BY <1>4, <1>6 DEF Workers
    <3> QED
      BY <1>1, <1>10, <3>1 DEF IInv, Alone, KeysAreKept, Somewhere
  <2>2. OneMigrates'
    <3>0. OneMigrates
      BY <1>10 DEF IInv, Alone
    <3>1. CASE w = "app"
      <4>1. proc'["lam"] = proc["lam"] /\ proc'["app"].at = "down"
        BY <1>2, <1>4, <3>1 DEF Workers
      <4>2. KeyIsKnown("lam") /\ TodoIsKnown("lam")
        BY <3>0 DEF OneMigrates, KeyIsKnown, TodoIsKnown, Migrating, KeySteps
      <4>3. KeyIsKnown("lam")' /\ TodoIsKnown("lam")'
        BY <1>11, <4>1, <4>2 DEF KeyIsKnown, TodoIsKnown
      <4> QED
        BY <4>1, <4>3 DEF OneMigrates, Migrating, KeySteps
    <3>2. CASE w = "lam"
      <4>1. proc'["app"] = proc["app"] /\ proc'["lam"].at = "off"
        BY <1>2, <1>4, <3>2 DEF Workers
      <4>2. OneMigrates /\ proc'["lam"].at \notin KeySteps \cup Migrating
        BY <3>0, <4>1 DEF KeySteps, Migrating
      <4>3. /\ KeyIsKnown("app") <=> KeyIsKnown("app")'
            /\ TodoIsKnown("app") <=> TodoIsKnown("app")'
        BY <1>11, <4>1 DEF KeyIsKnown, TodoIsKnown
      <4>4. KeyIsKnown("lam")' /\ TodoIsKnown("lam")'
        BY <4>2 DEF KeyIsKnown, TodoIsKnown, KeySteps
      <4> QED
        BY <1>11, <4>1, <4>2, <4>3, <4>4 DEF OneMigrates
    <3>3. CASE w = "sidecar"
      <4>1. proc'["app"] = proc["app"] /\ proc'["lam"] = proc["lam"]
        BY <1>4, <3>3 DEF Workers
      <4> QED
        BY <1>11, <3>0, <4>1, OneMigratesSame
    <3> QED
      BY <3>1, <3>2, <3>3 DEF Workers
  <2>3. UpdateIsKnown'
    <3>1. CASE w = "app"
      BY <1>6, <3>1 DEF UpdateIsKnown, UpdateFits, Updating
    <3>2. CASE w # "app"
      <4>1. proc'["app"] = proc["app"]
        BY <1>4, <3>2 DEF Workers
      <4> QED
        BY <1>1, <1>5, <1>10, <4>1 DEF IInv, Alone, UpdateIsKnown, UpdateFits
    <3> QED
      BY <3>1, <3>2
  <2> QED
    BY <2>1, <2>2, <2>3
<1> QED
  BY <1>1, <1>7, <1>8, <1>9, <1>10 DEF IInv, Alone

-----------------------------------------------------------------------------
(* Migrations *)

\* A step of w in a migration: it goes on with its work, or gives up.
Aborted(w) == IF w = "app" THEN "down" ELSE "off"
MovesOn(w, at) ==
  /\ proc' \in [Workers -> Records] /\ \A v \in Workers \ {w} : proc'[v] = proc[v]
  /\ proc'[w].at = at
  /\ \/ at \in Migrating /\ SameWork(proc'[w], proc[w])
     \/ at = Aborted(w) /\ proc'[w].todo = {}

Left(w) ==
  \A p \in Native : source[p] \in chain =>
    \/ [p |-> p, key |-> source[p]] \in proc[w].todo
    \/ proc[w].at \in KeySteps /\ p = proc[w].p
Injective == \A p, q \in Providers : source[p] = source[q] /\ source[p] \in Keys => p = q

\* The sidecar does not migrate.
LEMMA MigratorIs ==
  ASSUME IInv, NEW w \in Workers, proc[w].at \in Migrating
  PROVE  w \in {"app", "lam"} /\ MigrationRecord(w)
<1>1. w # "sidecar"
  BY DEF IInv, Types, SidecarRecord, Migrating, KeySteps, Editing
<1> QED
  BY <1>1 DEF Workers, IInv, Types

\* A process that moves a key knows it, and is alone.
LEMMA KeyStepKnows ==
  ASSUME IInv, ~raced, NEW w \in Workers, proc[w].at \in KeySteps
  PROVE  /\ w \in {"app", "lam"} /\ KeyIsKnown(w) /\ TodoIsKnown(w) /\ Injective
         /\ \A p \in Providers : Somewhere(p)
         /\ (w = "app" => Left("app") /\ proc["lam"].at = "off")
         /\ (w = "lam" => proc["app"].at = "down")
<1>1. w \in {"app", "lam"}
  BY MigratorIs DEF Migrating
<1>2. OneMigrates /\ KeysAreKept
  BY DEF IInv, Alone
<1>3. CASE w = "app"
  BY <1>2, <1>3 DEF OneMigrates, KeysAreKept, Migrating, Left, Injective
<1>4. CASE w = "lam"
  <2>1. proc["app"].at = "down"
    BY <1>2, <1>4 DEF OneMigrates, Migrating, KeySteps
  <2> QED
    BY <1>2, <1>4, <2>1 DEF OneMigrates, KeysAreKept, Injective
<1> QED
  BY <1>1, <1>3, <1>4

\* A step of a migration goes on, or gives up.
LEMMA KeyStepMoves ==
  ASSUME IInv, NEW w \in Workers, NEW at \in Migrating \cup {Aborted(w)}, Go(w, at)
  PROVE  MovesOn(w, at)
<1>1. at \in Ats /\ (at \in Resting <=> at \notin Migrating) /\ (at \in Resting => at = Aborted(w))
  BY DEF Ats, Migrating, KeySteps, Resting, Aborted
<1> QED
  BY <1>1, GoIs, WorkerIs DEF IInv, Types, MovesOn

\* What any step of a migration preserves: nothing else knows what it moves.
LEMMA MigrationTypes ==
  ASSUME IInv, NEW w \in {"app", "lam"}, MigrationRecord(w)',
         proc' \in [Workers -> Records], \A v \in Workers \ {w} : proc'[v] = proc[v],
         proc'[w].at \in Migrating \cup {Aborted(w), Rest(w)},
         used' \in Counts, used'.ops = used.ops, used'.reads = used.reads,
         UNCHANGED <<file, temp>>, raced => raced', TypeOK', chain' \subseteq Firsts,
         \A p \in Providers : source'[p] = source[p] \/ (p \in Native /\ source'[p] \in Firsts \cup {Profile})
  PROVE  Types' /\ FileIsSeen'
<1> DEFINE at == proc'[w].at
<1>4. at \notin Editing \cup Updating \cup {"repoint", "reproject", "hash"}
      /\ (w = "app" => at # "off") /\ (w = "lam" => at \in LamPlaces)
  BY DEF Editing, Updating, Migrating, KeySteps, Aborted, Rest, LamPlaces
<1> HIDE DEF at
<1>3. proc'[w].at = at
  BY DEF at
<1>5. AppRecord'
  <2>1. CASE w = "app"
    BY <1>3, <1>4, <2>1 DEF AppRecord
  <2>2. CASE w = "lam"
    <3>1. proc'["app"] = proc["app"]
      BY <2>2 DEF Workers
    <3>2. ASSUME proc["app"].key \in Keys \ Firsts, \A p \in Providers : source[p] # proc["app"].key
          PROVE  \A p \in Providers : source'[p] # proc["app"].key
      BY <3>2, KeysAre
    <3> QED
      BY <3>1, <3>2 DEF AppRecord, IInv, Types
  <2> QED
    BY <2>1, <2>2
<1>6. SidecarRecord' /\ proc'["sidecar"] = proc["sidecar"]
  <2>1. proc'["sidecar"] = proc["sidecar"]
    BY DEF Workers
  <2> QED
    BY <2>1 DEF SidecarRecord, IInv, Types
<1>7. MigrationRecord("app")' /\ MigrationRecord("lam")'
  BY DEF MigrationRecord, IInv, Types, Workers
<1>8. \A p \in Plain : source'[p] # Profile
  BY SecretsAssumption DEF IInv, Types, Providers
<1>9. \A p \in Providers : source'[p] \in Keys => source'[p] <= Total + used'.ops
  <2>1. \A n \in Firsts : n <= Total + used.ops
    BY KeysAre DEF Firsts, IInv, Types, Counts
  <2> QED
    BY <2>1, KeysAre DEF IInv, Types
<1>10. proc'["lam"].at \in LamPlaces /\ proc'["app"].at # "off"
  BY <1>3, <1>4 DEF IInv, Types, Workers
<1>11. Types'
  BY <1>5, <1>6, <1>7, <1>8, <1>9, <1>10 DEF Types
<1>12. FileIsSeen'
  BY <1>3, <1>4, <1>6, FileIsSeenKept DEF IInv, Editing, Workers
<1> QED
  BY <1>11, <1>12

\* The same, of a step on the key that is moved.
LEMMA KeyStepTypes ==
  ASSUME IInv, NEW w \in Workers, proc[w].at \in KeySteps, NEW at, MovesOn(w, at),
         UNCHANGED used \/ Fault, UNCHANGED <<file, temp, raced>>, TypeOK', chain' \subseteq Firsts,
         \A p \in Providers : source'[p] = source[p] \/ (p \in Native /\ source'[p] \in Firsts \cup {Profile})
  PROVE  Types' /\ FileIsSeen'
<1>1. w \in {"app", "lam"} /\ MigrationRecord(w)
  BY MigratorIs DEF Migrating
<1>2. /\ used' \in Counts /\ used'.ops = used.ops /\ used'.reads = used.reads
  BY FaultOrNot
<1>3. at \in Migrating \cup {Aborted(w)} /\ proc'[w].at = at /\ proc' \in [Workers -> Records]
      /\ \A v \in Workers \ {w} : proc'[v] = proc[v]
  BY DEF MovesOn
<1>4. MigrationRecord(w)'
  <2>1. CASE proc'[w].todo = {} /\ at = Aborted(w)
    BY <1>3, <2>1 DEF MigrationRecord, Aborted, KeySteps
  <2>2. CASE SameWork(proc'[w], proc[w])
    BY <1>1, <2>2 DEF MigrationRecord, SameWork, Migrating
  <2> QED
    BY <2>1, <2>2 DEF MovesOn
<1> QED
  BY <1>1, <1>2, <1>3, <1>4, MigrationTypes

\* The key that is moved is not in the file, wherever it goes.
LEMMA KeyStepStray ==
  ASSUME IInv, NEW w \in Workers, proc[w].at \in KeySteps, NEW at, MovesOn(w, at),
         UNCHANGED used \/ Fault, file' = file, chain' \subseteq chain \cup {proc[w].key},
         \A p \in Providers : source'[p] = source[p] \/ source[p] \in {Profile, proc[w].key}
  PROVE  NothingStray'
<1>1. w \in {"app", "lam"}
  BY MigratorIs DEF Migrating
<1>2. /\ used'.reads = used.reads /\ (used'.faults = 0 => used.faults = 0)
  BY FaultOrNot
<1> SUFFICES ASSUME used.faults = 0, used.reads = 0
             PROVE  /\ \A key \in file : Pending(key)' \/ \E p \in Providers : source'[p] = key
                    /\ file \cap chain' = {}
                    /\ \A v \in {"app", "lam"} : proc'[v].at \in KeySteps => proc'[v].key \notin file
  BY <1>2 DEF NothingStray
<1>3. /\ \A key \in file : Pending(key) \/ \E p \in Providers : source[p] = key
      /\ file \cap chain = {}
      /\ \A v \in {"app", "lam"} : proc[v].at \in KeySteps => proc[v].key \notin file
  BY DEF IInv, NothingStray
<1>4. \A key \in file : Pending(key) => Pending(key)'
  <2>1. CASE w = "app"
    BY <2>1 DEF Pending, KeySteps, Editing
  <2>2. CASE w = "lam"
    BY <2>2 DEF MovesOn, Pending, Workers
  <2> QED
    BY <1>1, <2>1, <2>2
<1>5. file \subseteq Keys /\ Profile \notin Keys
  BY KeysAre DEF IInv, Types, TypeOK
<1>6. \A v \in {"app", "lam"} : proc'[v].at \in KeySteps => proc[v].at \in KeySteps /\ proc'[v].key = proc[v].key
  <2>1. proc'[w].at \in KeySteps => proc'[w].key = proc[w].key
    BY DEF MovesOn, SameWork, Aborted, KeySteps
  <2> QED
    BY <2>1 DEF MovesOn, Workers
<1> QED
  BY <1>1, <1>3, <1>4, <1>5, <1>6

\* What is left to show of such a step: the key is known where it is afterwards.
LEMMA KeyStepAlone ==
  ASSUME IInv, ~raced, NEW w \in Workers, proc[w].at \in KeySteps, NEW at, MovesOn(w, at),
         at \in Migrating => KeyIsKnown(w)' /\ TodoIsKnown(w)' /\ (w = "app" => Left("app")'),
         Injective', \A p \in Providers : Somewhere(p)'
  PROVE  KeysAreKept' /\ OneMigrates' /\ UpdateIsKnown'
<1>1. /\ w \in {"app", "lam"}
      /\ (w = "app" => proc["lam"].at = "off") /\ (w = "lam" => proc["app"].at = "down")
  BY KeyStepKnows
<1>2. /\ proc'[w].at = at /\ at \in Migrating \cup {Aborted(w)}
      /\ \A v \in Workers \ {w} : proc'[v] = proc[v]
  BY DEF MovesOn
<1>3. proc'["app"].at \in Migrating \cup {"down"}
  BY <1>1, <1>2 DEF Workers, Aborted
<1>4. proc'["app"].at \notin Editing \cup Updating \cup {"repoint"}
  BY <1>3 DEF Migrating, KeySteps, Editing, Updating
<1>5. KeysAreKept'
  BY <1>4 DEF KeysAreKept, Injective
<1>6. UpdateIsKnown'
  BY <1>4 DEF UpdateIsKnown, UpdateFits, Updating
<1>7. OneMigrates'
  <2>1. CASE w = "app"
    <3>1. proc'["lam"].at = "off" /\ KeyIsKnown("lam")' /\ TodoIsKnown("lam")'
      BY <1>1, <1>2, <2>1 DEF Workers, KeyIsKnown, TodoIsKnown, KeySteps, Migrating
    <3> QED
      BY <1>2, <1>3, <2>1, <3>1 DEF OneMigrates, Left
  <2>2. CASE w = "lam"
    <3>1. proc'["app"].at = "down" /\ "down" \notin Migrating
      BY <1>1, <1>2, <2>2 DEF Workers, Migrating, KeySteps
    <3>2. KeyIsKnown("lam")' /\ TodoIsKnown("lam")'
      <4>1. CASE at \in Migrating
        BY <2>2, <4>1
      <4>2. CASE at = Aborted(w)
        BY <1>2, <2>2, <4>2 DEF KeyIsKnown, TodoIsKnown, KeySteps, Migrating, Aborted
      <4> QED
        BY <1>2, <4>1, <4>2
    <3> QED
      BY <3>1, <3>2 DEF OneMigrates
  <2> QED
    BY <1>1, <2>1, <2>2
<1> QED
  BY <1>5, <1>6, <1>7

\* What the record of such a process holds.
LEMMA KeyStepIs ==
  ASSUME IInv, NEW w \in Workers, proc[w].at \in KeySteps
  PROVE  /\ w \in {"app", "lam"} /\ proc[w].p \in Native /\ proc[w].p \in Providers
         /\ proc[w].key \in Firsts /\ proc[w].key \in Keys
         /\ proc[w].key \notin {None, Profile, Gone}
         /\ \A item \in proc[w].todo : item \in Items /\ item.p # proc[w].p
<1>1. PICK k \in Records : k = proc[w]
  BY DEF IInv, Types
<1>2. w \in {"app", "lam"} /\ MigrationRecord(w)
  BY MigratorIs DEF Migrating
<1>3. k.todo \subseteq Items
  BY DEF Records
<1> QED
  BY <1>1, <1>2, <1>3, KeysAre DEF MigrationRecord, Providers

\* A step that fails, or gives up, and leaves the keys as they are.
LEMMA AbortInv ==
  ASSUME IInv, NEW w \in Workers, proc[w].at \in KeySteps, Abort(w), UNCHANGED used \/ Fault,
         UNCHANGED <<source, file, temp, chain, auth, url, bound, catalog, synced, current, raced>>
  PROVE  IInv'
<1>1. MovesOn(w, Aborted(w))
  BY KeyStepMoves DEF Abort, Aborted
<1>2. Types' /\ FileIsSeen'
  <2>1. TypeOK' /\ chain' \subseteq Firsts
    BY DEF IInv, Types, TypeOK
  <2> QED
    BY <1>1, <2>1, KeyStepTypes
<1>3. NothingStray'
  BY <1>1, KeyStepStray
<1>4. ASSUME ~raced PROVE KeysAreKept' /\ OneMigrates' /\ UpdateIsKnown'
  <2>1. Injective' /\ \A p \in Providers : Somewhere(p)'
    BY <1>4, KeyStepKnows DEF Injective, Somewhere
  <2>2. Aborted(w) \notin Migrating
    BY DEF Aborted, Migrating, KeySteps
  <2> QED
    BY <1>1, <1>4, <2>1, <2>2, KeyStepAlone
<1> QED
  BY <1>2, <1>3, <1>4 DEF IInv, Alone

\* The key is in the Keychain still when auth.json gets it.
LEMMA WriteAuthInv ==
  ASSUME IInv, NEW w \in Workers, WriteAuth(w)
  PROVE  IInv'
<1>1. /\ proc[w].at = "write auth" /\ proc[w].at \in KeySteps
      /\ UNCHANGED <<source, file, temp, chain, url, bound, catalog, synced, current, raced>>
  BY DEF WriteAuth, KeySteps
<1>2. CASE Fault /\ Abort(w) /\ UNCHANGED auth
  BY <1>1, <1>2, AbortInv
<1>3. CASE /\ auth' = [auth EXCEPT ![proc[w].p] = proc[w].key]
           /\ Go(w, "delete item") /\ UNCHANGED used
  <2>1. PICK p \in Native, key \in Firsts : p = proc[w].p /\ key = proc[w].key /\ p \in Providers /\ key \in Keys
    BY <1>1, KeyStepIs
  <2>2. MovesOn(w, "delete item") /\ proc'[w].at = "delete item" /\ SameWork(proc'[w], proc[w])
    <3>1. "delete item" \in Migrating
      BY DEF Migrating, KeySteps
    <3>2. MovesOn(w, "delete item")
      BY <1>3, <3>1, KeyStepMoves
    <3> QED
      BY <3>1, <3>2 DEF MovesOn, Aborted
  <2>3. auth'[p] = key /\ \A q \in Native \ {p} : auth'[q] = auth[q]
    BY <1>3, <2>1 DEF IInv, Types, TypeOK
  <2>4. Types' /\ FileIsSeen'
    <3>1. TypeOK' /\ chain' \subseteq Firsts
      <4>1. auth' \in [Native -> Keys \cup {None}]
        BY <1>3, <2>1 DEF IInv, Types, TypeOK
      <4> QED
        BY <1>1, <4>1 DEF IInv, Types, TypeOK
    <3> QED
      BY <1>1, <1>3, <2>2, <3>1, KeyStepTypes
  <2>5. NothingStray'
    BY <1>1, <1>3, <2>2, KeyStepStray
  <2>6. ASSUME ~raced PROVE KeysAreKept' /\ OneMigrates' /\ UpdateIsKnown'
    <3>1. /\ KeyIsKnown(w) /\ TodoIsKnown(w) /\ Injective /\ (\A q \in Providers : Somewhere(q))
          /\ (w = "app" => Left("app"))
      BY <1>1, <2>6, KeyStepKnows
    <3>2. source[p] = key /\ key \in chain
      BY <1>1, <2>1, <3>1 DEF KeyIsKnown
    <3>3. Injective' /\ \A q \in Providers : Somewhere(q)'
      <4>1. Injective'
        BY <1>1, <3>1 DEF Injective
      <4>2. \A q \in Providers \ {p} : Somewhere(q)'
        <5>1. \A q \in Plain : source[q] # Profile
          BY DEF IInv, Types
        <5>2. UNCHANGED <<source, file, chain>>
          BY <1>1
        <5> QED
          BY <2>3, <3>1, <5>1, <5>2 DEF Somewhere, Providers
      <4>3. Somewhere(p)'
        BY <1>1, <3>2 DEF Somewhere
      <4> QED
        BY <4>1, <4>2, <4>3
    <3>4. KeyIsKnown(w)'
      BY <1>1, <2>1, <2>2, <2>3, <3>1, <3>2 DEF KeyIsKnown, SameWork
    <3>5. TodoIsKnown(w)'
      BY <1>1, <2>2, <3>1 DEF TodoIsKnown, SameWork, Migrating
    <3>6. w = "app" => Left("app")'
      BY <1>1, <2>2, <3>1 DEF Left, SameWork, KeySteps
    <3> QED
      BY <1>1, <2>2, <2>6, <3>3, <3>4, <3>5, <3>6, KeyStepAlone
  <2> QED
    BY <1>1, <2>4, <2>5, <2>6 DEF IInv, Alone
<1> QED
  BY <1>2, <1>3 DEF WriteAuth

\* It is in auth.json when it leaves the Keychain.
LEMMA DeleteItemInv ==
  ASSUME IInv, NEW w \in Workers, DeleteItem(w)
  PROVE  IInv'
<1>1. /\ proc[w].at = "delete item" /\ proc[w].at \in KeySteps
      /\ UNCHANGED <<source, file, temp, auth, url, bound, catalog, synced, current, raced>>
  BY DEF DeleteItem, KeySteps
<1>2. PICK p \in Native, key \in Firsts : p = proc[w].p /\ key = proc[w].key /\ p \in Providers /\ key \in Keys
  BY <1>1, KeyStepIs
<1>3. PICK at \in {"adopt", "remove auth"} :
        /\ Go(w, at) /\ (UNCHANGED used \/ Fault)
        /\ \/ at = "adopt" /\ chain' = chain \ {key}
           \/ at = "remove auth" /\ UNCHANGED chain
  BY <1>2 DEF DeleteItem
<1>4. MovesOn(w, at) /\ proc'[w].at = at /\ SameWork(proc'[w], proc[w]) /\ at \in KeySteps
  <2>1. at \in Migrating /\ at \in KeySteps
    BY DEF Migrating, KeySteps
  <2>2. MovesOn(w, at)
    BY <1>3, <2>1, KeyStepMoves
  <2> QED
    BY <2>1, <2>2 DEF MovesOn, Aborted
<1>5. Types' /\ FileIsSeen'
  <2>1. TypeOK' /\ chain' \subseteq Firsts
    BY <1>1, <1>3 DEF IInv, Types, TypeOK
  <2> QED
    BY <1>1, <1>3, <1>4, <2>1, KeyStepTypes
<1>6. NothingStray'
  BY <1>1, <1>3, <1>4, KeyStepStray
<1>7. ASSUME ~raced PROVE KeysAreKept' /\ OneMigrates' /\ UpdateIsKnown'
  <2>1. /\ KeyIsKnown(w) /\ TodoIsKnown(w) /\ Injective /\ (\A q \in Providers : Somewhere(q))
        /\ (w = "app" => Left("app"))
    BY <1>1, <1>7, KeyStepKnows
  <2>2. source[p] = key /\ key \in chain /\ auth[p] = key
    BY <1>1, <1>2, <2>1 DEF KeyIsKnown
  <2>3. Injective' /\ \A q \in Providers : Somewhere(q)'
    <3>1. \A q \in Providers \ {p} : source[q] # key
      BY <1>2, <2>1, <2>2 DEF Injective
    <3>2. \A q \in Providers \ {p} : Somewhere(q)'
      BY <1>1, <1>3, <2>1, <3>1 DEF Somewhere
    <3>3. Somewhere(p)'
      BY <1>1, <2>2 DEF Somewhere
    <3>4. Injective'
      BY <1>1, <2>1 DEF Injective
    <3> QED
      BY <3>2, <3>3, <3>4
  <2>4. KeyIsKnown(w)'
    BY <1>1, <1>2, <1>3, <1>4, <2>1, <2>2 DEF KeyIsKnown, SameWork
  <2>5. TodoIsKnown(w)'
    BY <1>1, <1>3, <1>4, <2>1 DEF TodoIsKnown, SameWork, Migrating
  <2>6. w = "app" => Left("app")'
    BY <1>1, <1>3, <1>4, <2>1 DEF Left, SameWork
  <2> QED
    BY <1>1, <1>4, <1>7, <2>3, <2>4, <2>5, <2>6, KeyStepAlone
<1> QED
  BY <1>1, <1>5, <1>6, <1>7 DEF IInv, Alone

\* It is in auth.json when the Provider refers to that.
LEMMA AdoptInv ==
  ASSUME IInv, NEW w \in Workers, Adopt(w)
  PROVE  IInv'
<1>1. /\ proc[w].at = "adopt" /\ proc[w].at \in KeySteps
      /\ UNCHANGED <<file, temp, chain, auth, url, bound, catalog, synced, raced>>
  BY DEF Adopt, KeySteps
<1>2. PICK p \in Native, key \in Firsts : /\ p = proc[w].p /\ key = proc[w].key /\ p \in Providers /\ key \in Keys
                                          /\ \A item \in proc[w].todo : item \in Items /\ item.p # p
  BY <1>1, KeyStepIs
<1>3. PICK at \in {"rebind native", "restore item"} :
        /\ Go(w, at) /\ (UNCHANGED used \/ Fault)
        /\ \/ /\ at = "rebind native" /\ source[p] = key
              /\ source' = [source EXCEPT ![p] = Profile] /\ current' = {w}
           \/ at = "restore item" /\ UNCHANGED <<source, current>>
  BY <1>2 DEF Adopt
<1>4. MovesOn(w, at) /\ proc'[w].at = at /\ SameWork(proc'[w], proc[w]) /\ at \in KeySteps
  <2>1. at \in Migrating /\ at \in KeySteps
    BY DEF Migrating, KeySteps
  <2>2. MovesOn(w, at)
    BY <1>3, <2>1, KeyStepMoves
  <2> QED
    BY <2>1, <2>2 DEF MovesOn, Aborted
<1>5. /\ \A q \in Providers \ {p} : source'[q] = source[q]
      /\ (at = "restore item" => source' = source)
      /\ (at = "rebind native" => source'[p] = Profile /\ source[p] = key)
  BY <1>2, <1>3 DEF IInv, Types, TypeOK
<1>6. Types' /\ FileIsSeen'
  <2>1. TypeOK' /\ chain' \subseteq Firsts
    <3>1. source' \in [Providers -> Keys \cup {Profile, Gone}] /\ current' \subseteq Workers
      BY <1>3 DEF IInv, Types, TypeOK
    <3> QED
      BY <1>1, <3>1 DEF IInv, Types, TypeOK
  <2> QED
    BY <1>1, <1>2, <1>3, <1>4, <1>5, <2>1, KeyStepTypes
<1>7. NothingStray'
  BY <1>1, <1>2, <1>3, <1>4, <1>5, KeyStepStray
<1>8. ASSUME ~raced PROVE KeysAreKept' /\ OneMigrates' /\ UpdateIsKnown'
  <2>1. /\ KeyIsKnown(w) /\ TodoIsKnown(w) /\ Injective /\ (\A q \in Providers : Somewhere(q))
        /\ (w = "app" => Left("app"))
    BY <1>1, <1>8, KeyStepKnows
  <2>2. source[p] = key /\ auth[p] = key /\ key \notin {None, Profile, Gone}
    BY <1>1, <1>2, <2>1, KeysAre DEF KeyIsKnown
  <2>3. \A q \in Providers \ {p} : source[q] # key
    BY <1>2, <2>1, <2>2 DEF Injective
  <2>4. Injective'
    BY <1>3, <1>5, <2>1, KeysAre DEF Injective
  <2>5. \A q \in Providers : Somewhere(q)'
    <3>1. \A q \in Providers \ {p} : Somewhere(q)'
      BY <1>1, <1>5, <2>1 DEF Somewhere
    <3>2. Somewhere(p)'
      BY <1>1, <1>3, <1>5, <2>1, <2>2 DEF Somewhere
    <3> QED
      BY <3>1, <3>2
  <2>6. KeyIsKnown(w)'
    BY <1>1, <1>2, <1>3, <1>4, <1>5, <2>1, <2>2, <2>3 DEF KeyIsKnown, SameWork
  <2>7. TodoIsKnown(w)'
    <3>1. \A item \in proc[w].todo : source'[item.p] = source[item.p]
      BY <1>2, <1>5 DEF Items, Providers
    <3> QED
      BY <1>1, <1>4, <2>1, <3>1 DEF TodoIsKnown, SameWork, Migrating
  <2>8. w = "app" => Left("app")'
    <3>1. chain \subseteq Keys /\ Profile \notin Keys
      BY KeysAre DEF IInv, Types
    <3> QED
      BY <1>1, <1>2, <1>3, <1>4, <1>5, <2>1, <3>1 DEF Left, SameWork, Providers
  <2> QED
    BY <1>1, <1>4, <1>8, <2>4, <2>5, <2>6, <2>7, <2>8, KeyStepAlone
<1> QED
  BY <1>1, <1>6, <1>7, <1>8 DEF IInv, Alone

LEMMA RebindNativeInv ==
  ASSUME IInv, NEW w \in Workers, RebindNative(w)
  PROVE  IInv'
<1>1. /\ proc[w].at = "rebind native" /\ proc[w].at \in KeySteps
      /\ UNCHANGED <<source, file, temp, chain, auth, url, synced, current, raced>>
  BY DEF RebindNative, KeySteps
<1>2. PICK p \in Native, key \in Firsts : /\ p = proc[w].p /\ key = proc[w].key /\ p \in Providers /\ key \in Keys
                                          /\ key \notin {None, Profile, Gone}
  BY <1>1, KeyStepIs
<1>3. PICK at \in {"next", "disown"} :
        /\ Go(w, at) /\ (UNCHANGED used \/ Fault)
        /\ bound' \in {bound, [bound EXCEPT ![p] = url[p]]}
        /\ catalog' \in {catalog, [catalog EXCEPT ![p] = url[p]]}
  BY <1>2 DEF RebindNative, Rebound, NotRebound
<1>4. MovesOn(w, at) /\ proc'[w].at = at /\ SameWork(proc'[w], proc[w])
  <2>1. at \in Migrating
    BY DEF Migrating, KeySteps
  <2>2. MovesOn(w, at)
    BY <1>3, <2>1, KeyStepMoves
  <2> QED
    BY <2>1, <2>2 DEF MovesOn, Aborted
<1>5. Types' /\ FileIsSeen'
  <2>1. TypeOK' /\ chain' \subseteq Firsts
    <3>1. url \in [Native -> Nat] /\ bound \in [Native -> Nat] /\ catalog \in [Native -> Nat]
      BY DEF IInv, Types, TypeOK
    <3>2. bound' \in [Native -> Nat] /\ catalog' \in [Native -> Nat]
      BY <1>3, <3>1
    <3> QED
      BY <1>1, <3>2 DEF IInv, Types, TypeOK
  <2> QED
    BY <1>1, <1>3, <1>4, <2>1, KeyStepTypes
<1>6. NothingStray'
  BY <1>1, <1>3, <1>4, KeyStepStray
<1>7. ASSUME ~raced PROVE KeysAreKept' /\ OneMigrates' /\ UpdateIsKnown'
  <2>1. /\ KeyIsKnown(w) /\ TodoIsKnown(w) /\ Injective /\ (\A q \in Providers : Somewhere(q))
        /\ (w = "app" => Left("app"))
    BY <1>1, <1>7, KeyStepKnows
  <2>2. source[p] = Profile /\ auth[p] = key
    BY <1>1, <1>2, <2>1 DEF KeyIsKnown
  <2>3. Injective' /\ \A q \in Providers : Somewhere(q)'
    BY <1>1, <2>1 DEF Injective, Somewhere
  <2>4. KeyIsKnown(w)'
    <3>1. proc'[w].p = p /\ proc'[w].key = key /\ proc'[w].todo = proc[w].todo /\ proc'[w].at \in {"next", "disown"}
      BY <1>2, <1>3, <1>4 DEF SameWork
    <3>2. /\ \A item \in proc[w].todo : item.key # key
          /\ \A q \in Providers : source[q] # key
      BY <1>1, <1>2, <2>1 DEF KeyIsKnown
    <3>3. source' = source /\ auth' = auth
      BY <1>1
    <3> QED
      BY <2>2, <3>1, <3>2, <3>3 DEF KeyIsKnown
  <2>5. TodoIsKnown(w)'
    BY <1>1, <1>3, <1>4, <2>1 DEF TodoIsKnown, SameWork, Migrating
  <2>6. w = "app" => Left("app")'
    <3>1. chain \subseteq Keys /\ Profile \notin Keys
      BY KeysAre DEF IInv, Types
    <3> QED
      BY <1>1, <1>2, <1>4, <2>1, <2>2, <3>1 DEF Left, SameWork
  <2> QED
    BY <1>1, <1>4, <1>7, <2>3, <2>4, <2>5, <2>6, KeyStepAlone
<1> QED
  BY <1>1, <1>5, <1>6, <1>7 DEF IInv, Alone

\* Undone: it is in auth.json still, and the Provider refers to the Keychain again.
LEMMA DisownInv ==
  ASSUME IInv, NEW w \in Workers, Disown(w)
  PROVE  IInv'
<1>1. /\ proc[w].at = "disown" /\ proc[w].at \in KeySteps
      /\ UNCHANGED <<file, temp, chain, auth, url, bound, catalog, synced, raced>>
  BY DEF Disown, KeySteps
<1>2. PICK p \in Native, key \in Firsts : /\ p = proc[w].p /\ key = proc[w].key /\ p \in Providers /\ key \in Keys
                                          /\ \A item \in proc[w].todo : item \in Items /\ item.p # p
  BY <1>1, KeyStepIs
<1>3. CASE (UNCHANGED used \/ Fault) /\ Abort(w) /\ UNCHANGED <<source, current>>
  BY <1>1, <1>3, AbortInv
<1>4. CASE /\ source[p] = Profile /\ source' = [source EXCEPT ![p] = key] /\ current' = {w}
           /\ Go(w, "restore item") /\ UNCHANGED used
  <2>1. MovesOn(w, "restore item") /\ proc'[w].at = "restore item" /\ SameWork(proc'[w], proc[w])
    <3>1. "restore item" \in Migrating
      BY DEF Migrating, KeySteps
    <3>2. MovesOn(w, "restore item")
      BY <1>4, <3>1, KeyStepMoves
    <3> QED
      BY <3>1, <3>2 DEF MovesOn, Aborted
  <2>2. source'[p] = key /\ \A q \in Providers \ {p} : source'[q] = source[q]
    BY <1>2, <1>4 DEF IInv, Types, TypeOK
  <2>3. Types' /\ FileIsSeen'
    <3>1. TypeOK' /\ chain' \subseteq Firsts
      <4>1. source' \in [Providers -> Keys \cup {Profile, Gone}] /\ current' \subseteq Workers
        BY <1>2, <1>4 DEF IInv, Types, TypeOK
      <4> QED
        BY <1>1, <4>1 DEF IInv, Types, TypeOK
    <3> QED
      BY <1>1, <1>2, <1>4, <2>1, <2>2, <3>1, KeyStepTypes
  <2>4. NothingStray'
    BY <1>1, <1>2, <1>4, <2>1, <2>2, KeyStepStray
  <2>5. ASSUME ~raced PROVE KeysAreKept' /\ OneMigrates' /\ UpdateIsKnown'
    <3>1. /\ KeyIsKnown(w) /\ TodoIsKnown(w) /\ Injective /\ (\A q \in Providers : Somewhere(q))
          /\ (w = "app" => Left("app"))
      BY <1>1, <2>5, KeyStepKnows
    <3>2. auth[p] = key /\ \A q \in Providers : source[q] # key
      BY <1>1, <1>2, <3>1 DEF KeyIsKnown
    <3>3. Injective'
      BY <2>2, <3>1, <3>2 DEF Injective
    <3>4. \A q \in Providers : Somewhere(q)'
      <4>1. \A q \in Providers \ {p} : Somewhere(q)'
        BY <1>1, <2>2, <3>1 DEF Somewhere
      <4>2. Somewhere(p)'
        BY <1>1, <2>2, <3>2 DEF Somewhere
      <4> QED
        BY <4>1, <4>2
    <3>5. KeyIsKnown(w)'
      BY <1>1, <1>2, <2>1, <2>2, <3>1, <3>2 DEF KeyIsKnown, SameWork
    <3>6. TodoIsKnown(w)'
      <4>1. \A item \in proc[w].todo : source'[item.p] = source[item.p]
        BY <1>2, <2>2 DEF Items, Providers
      <4> QED
        BY <1>1, <2>1, <3>1, <4>1 DEF TodoIsKnown, SameWork, Migrating
    <3>7. w = "app" => Left("app")'
      BY <1>1, <1>2, <2>1, <2>2, <3>1 DEF Left, SameWork, KeySteps, Providers
    <3> QED
      BY <1>1, <2>1, <2>5, <3>3, <3>4, <3>5, <3>6, <3>7, KeyStepAlone
  <2> QED
    BY <1>1, <2>3, <2>4, <2>5 DEF IInv, Alone
<1> QED
  BY <1>2, <1>3, <1>4 DEF Disown

\* It is back in the Keychain before auth.json loses it.
LEMMA RestoreItemInv ==
  ASSUME IInv, NEW w \in Workers, RestoreItem(w)
  PROVE  IInv'
<1>1. /\ proc[w].at = "restore item" /\ proc[w].at \in KeySteps
      /\ UNCHANGED <<source, file, temp, auth, url, bound, catalog, synced, current, raced>>
  BY DEF RestoreItem, KeySteps
<1>2. CASE Fault /\ Abort(w) /\ UNCHANGED chain
  BY <1>1, <1>2, AbortInv
<1>3. CASE chain' = chain \cup {proc[w].key} /\ Go(w, "remove auth") /\ UNCHANGED used
  <2>1. PICK p \in Native, key \in Firsts : p = proc[w].p /\ key = proc[w].key /\ p \in Providers /\ key \in Keys
    BY <1>1, KeyStepIs
  <2>2. MovesOn(w, "remove auth") /\ proc'[w].at = "remove auth" /\ SameWork(proc'[w], proc[w])
    <3>1. "remove auth" \in Migrating
      BY DEF Migrating, KeySteps
    <3>2. MovesOn(w, "remove auth")
      BY <1>3, <3>1, KeyStepMoves
    <3> QED
      BY <3>1, <3>2 DEF MovesOn, Aborted
  <2>3. Types' /\ FileIsSeen'
    <3>1. TypeOK' /\ chain' \subseteq Firsts
      BY <1>1, <1>3, <2>1 DEF IInv, Types, TypeOK
    <3> QED
      BY <1>1, <1>3, <2>2, <3>1, KeyStepTypes
  <2>4. NothingStray'
    BY <1>1, <1>3, <2>2, KeyStepStray
  <2>5. ASSUME ~raced PROVE KeysAreKept' /\ OneMigrates' /\ UpdateIsKnown'
    <3>1. /\ KeyIsKnown(w) /\ TodoIsKnown(w) /\ Injective /\ (\A q \in Providers : Somewhere(q))
          /\ (w = "app" => Left("app"))
      BY <1>1, <2>5, KeyStepKnows
    <3>2. source[p] = key /\ (\A item \in proc[w].todo : item.key # key)
      BY <1>1, <2>1, <3>1 DEF KeyIsKnown
    <3>3. Injective' /\ \A q \in Providers : Somewhere(q)'
      BY <1>1, <1>3, <3>1 DEF Injective, Somewhere
    <3>4. KeyIsKnown(w)'
      BY <1>1, <1>3, <2>1, <2>2, <3>2 DEF KeyIsKnown, SameWork
    <3>5. TodoIsKnown(w)'
      BY <1>1, <1>3, <2>1, <2>2, <3>1, <3>2 DEF TodoIsKnown, SameWork, Migrating
    <3>6. w = "app" => Left("app")'
      <4>1. \A q \in Native : source[q] = key => q = p
        BY <2>1, <3>1, <3>2 DEF Injective, Providers
      <4> QED
        BY <1>1, <1>3, <2>1, <2>2, <3>1, <4>1 DEF Left, SameWork, KeySteps
    <3> QED
      BY <1>1, <2>2, <2>5, <3>3, <3>4, <3>5, <3>6, KeyStepAlone
  <2> QED
    BY <1>1, <2>3, <2>4, <2>5 DEF IInv, Alone
<1> QED
  BY <1>2, <1>3 DEF RestoreItem

\* auth.json loses it when the Keychain has it.
LEMMA RemoveAuthInv ==
  ASSUME IInv, NEW w \in Workers, RemoveAuth(w)
  PROVE  IInv'
<1>1. /\ proc[w].at = "remove auth" /\ proc[w].at \in KeySteps /\ Abort(w)
      /\ UNCHANGED <<source, file, temp, chain, url, bound, catalog, synced, current, raced>>
  BY DEF RemoveAuth, KeySteps
<1>2. CASE Fault /\ UNCHANGED auth
  BY <1>1, <1>2, AbortInv
<1>3. CASE auth' = [auth EXCEPT ![proc[w].p] = None] /\ UNCHANGED used
  <2>1. PICK p \in Native : p = proc[w].p /\ p \in Providers
    BY <1>1, KeyStepIs
  <2>2. MovesOn(w, Aborted(w))
    BY <1>1, KeyStepMoves DEF Abort, Aborted
  <2>3. Types' /\ FileIsSeen'
    <3>1. TypeOK' /\ chain' \subseteq Firsts
      <4>1. auth' \in [Native -> Keys \cup {None}]
        BY <1>3, <2>1 DEF IInv, Types, TypeOK
      <4> QED
        BY <1>1, <4>1 DEF IInv, Types, TypeOK
    <3> QED
      BY <1>1, <1>3, <2>2, <3>1, KeyStepTypes
  <2>4. NothingStray'
    BY <1>1, <1>3, <2>2, KeyStepStray
  <2>5. ASSUME ~raced PROVE KeysAreKept' /\ OneMigrates' /\ UpdateIsKnown'
    <3>1. KeyIsKnown(w) /\ Injective /\ (\A q \in Providers : Somewhere(q))
      BY <1>1, <2>5, KeyStepKnows
    <3>2. source[p] \in chain
      BY <1>1, <2>1, <3>1 DEF KeyIsKnown
    <3>3. Injective'
      BY <1>1, <3>1 DEF Injective
    <3>4. \A q \in Providers : Somewhere(q)'
      <4>1. \A q \in Native \ {p} : auth'[q] = auth[q]
        BY <1>3, <2>1 DEF IInv, Types, TypeOK
      <4>2. \A q \in Plain : source[q] # Profile
        BY DEF IInv, Types
      <4>3. UNCHANGED <<source, file, chain>>
        BY <1>1
      <4>4. \A q \in Providers \ {p} : Somewhere(q)'
        BY <3>1, <4>1, <4>2, <4>3 DEF Somewhere, Providers
      <4>5. Somewhere(p)'
        BY <3>2, <4>3 DEF Somewhere
      <4> QED
        BY <4>4, <4>5
    <3>5. Aborted(w) \notin Migrating
      BY DEF Aborted, Migrating, KeySteps
    <3> QED
      BY <1>1, <2>2, <2>5, <3>3, <3>4, <3>5, KeyStepAlone
  <2> QED
    BY <1>1, <2>3, <2>4, <2>5 DEF IInv, Alone
<1> QED
  BY <1>1, <1>2, <1>3 DEF RemoveAuth

\* Between the keys of a migration nothing is moved.
LEMMA BetweenKeys ==
  ASSUME IInv, NEW w \in {"app", "lam"}, \A v \in Workers \ {w} : proc'[v] = proc[v],
         proc'[w].at \in Migrating \cup {Aborted(w), Rest(w)}, proc[w].at \in {"next", "down", "off"},
         UNCHANGED <<source, file, chain, auth, url, bound, current>>,
         used'.faults = used.faults, used'.reads = used.reads,
         synced' = synced \/ w = "app" \/ proc["app"].at \notin Updating,
         proc'[w].at \in KeySteps => proc'[w].key \in chain
  PROVE  NothingStray' /\ (~raced => KeysAreKept' /\ UpdateIsKnown')
<1>1. proc'[w].at \notin Editing \cup Updating \cup {"repoint"}
  BY DEF Migrating, KeySteps, Editing, Updating, Aborted, Rest
<1>2. w = "lam" => proc'["app"] = proc["app"]
  BY DEF Workers
<1>3. NothingStray'
  <2> SUFFICES ASSUME used.faults = 0, used.reads = 0
               PROVE  /\ \A key \in file : Pending(key)' \/ \E p \in Providers : source[p] = key
                      /\ file \cap chain = {}
                      /\ \A v \in {"app", "lam"} : proc'[v].at \in KeySteps => proc'[v].key \notin file
    BY DEF NothingStray
  <2>1. /\ \A key \in file : Pending(key) \/ \E p \in Providers : source[p] = key
        /\ file \cap chain = {}
        /\ \A v \in {"app", "lam"} : proc[v].at \in KeySteps => proc[v].key \notin file
    BY DEF IInv, NothingStray
  <2>2. \A key \in file : Pending(key) => Pending(key)'
    <3>1. CASE w = "app"
      BY <3>1 DEF Pending, Editing
    <3>2. CASE w = "lam"
      BY <1>2, <3>2 DEF Pending
    <3> QED
      BY <3>1, <3>2
  <2>3. \A v \in {"app", "lam"} : proc'[v].at \in KeySteps => proc'[v].key \notin file
    BY <2>1 DEF Workers
  <2> QED
    BY <2>1, <2>2, <2>3
<1>4. ASSUME ~raced PROVE KeysAreKept'
  <2>1. KeysAreKept
    BY <1>4 DEF IInv, Alone
  <2>2. proc'["app"].at \in Editing \cup {"repoint"} => proc'["app"] = proc["app"]
    BY <1>1, <1>2
  <2> QED
    BY <2>1, <2>2 DEF KeysAreKept, Somewhere
<1>5. ASSUME ~raced PROVE UpdateIsKnown'
  <2>1. CASE w = "app"
    BY <1>1, <2>1 DEF UpdateIsKnown, UpdateFits, Updating
  <2>2. CASE w = "lam" /\ proc["app"].at \notin Updating
    BY <1>2, <2>2 DEF UpdateIsKnown, UpdateFits, Updating
  <2>3. CASE w = "lam" /\ synced' = synced
    BY <1>2, <1>5, <2>3 DEF IInv, Alone, UpdateIsKnown, UpdateFits
  <2> QED
    BY <2>1, <2>2, <2>3
<1> QED
  BY <1>3, <1>4, <1>5

\* What a process knows between two keys: the rest are as it read them, or no
\* longer in the Keychain because the application has moved them.
LEMMA NextKnows ==
  ASSUME IInv, ~raced, NEW w \in {"app", "lam"}, proc[w].at = "next"
  PROVE  /\ Injective
         /\ w = "app" => proc["lam"].at = "off" /\ Left("app")
         /\ w = "app" \/ proc["app"].at = "down" => TodoIsKnown(w)
         /\ w = "lam" /\ proc["app"].at # "down" =>
              /\ proc["app"].at \notin {"down"} \cup Migrating
              /\ \A p \in Native : source[p] \notin chain
              /\ \A item \in proc["lam"].todo : item.key \notin chain
<1>1. OneMigrates /\ KeysAreKept
  BY DEF IInv, Alone
<1>2. proc[w].at \in Migrating /\ proc[w].at # "off"
  BY DEF Migrating
<1>3. CASE w = "app"
  BY <1>1, <1>2, <1>3 DEF OneMigrates, KeysAreKept, Injective, Left
<1>4. CASE w = "lam"
  BY <1>1, <1>2, <1>4 DEF OneMigrates, KeysAreKept, Injective
<1> QED
  BY <1>3, <1>4

LEMMA NextKeyInv ==
  ASSUME IInv, NEW w \in Workers, NextKey(w)
  PROVE  IInv'
<1>1. /\ proc[w].at = "next"
      /\ UNCHANGED <<source, file, temp, chain, auth, url, bound, synced, current, used, raced>>
  BY DEF NextKey
<1>2. w \in {"app", "lam"} /\ MigrationRecord(w)
  BY <1>1, MigratorIs DEF Migrating
<1>3. PICK k \in Records : k = proc[w]
  BY DEF IInv, Types
<1>4. used' \in Counts /\ used'.ops = used.ops /\ used'.reads = used.reads /\ used'.faults = used.faults
  BY <1>1 DEF IInv, Types
<1>5. ASSUME catalog' \in {catalog, url}
      PROVE  TypeOK' /\ chain' \subseteq Firsts
  BY <1>1, <1>5 DEF IInv, Types, TypeOK
\* It is done, or gives up.
<1>6. ASSUME NEW at \in {Aborted(w), Rest(w)}, Go(w, at), catalog' \in {catalog, url},
             at = "idle" => k.todo = {}
      PROVE  IInv'
  <2>1. at \in {"idle", "down", "off"} /\ at \in Resting /\ at \in Ats /\ at \notin Migrating \cup KeySteps
        /\ (w = "app" => at \in {"idle", "down"}) /\ (w = "lam" => at = "off")
    BY <1>2 DEF Aborted, Rest, Resting, Ats, Migrating, KeySteps
  <2>2. /\ proc' \in [Workers -> Records] /\ \A v \in Workers \ {w} : proc'[v] = proc[v]
        /\ proc'[w].at = at /\ proc'[w].todo = {}
    BY <1>6, <2>1, GoIs, WorkerIs DEF IInv, Types
  <2>3. MigrationRecord(w)'
    BY <2>1, <2>2 DEF MigrationRecord
  <2>4. Types' /\ FileIsSeen'
    BY <1>1, <1>2, <1>4, <1>5, <1>6, <2>2, <2>3, MigrationTypes
  <2>5. NothingStray' /\ (~raced => KeysAreKept' /\ UpdateIsKnown')
    BY <1>1, <1>2, <1>4, <2>1, <2>2, BetweenKeys
  <2>6. ASSUME ~raced PROVE OneMigrates'
    <3>1. CASE w = "app" /\ at = "down"
      <4>1. proc'["lam"].at = "off"
        BY <1>1, <1>2, <2>2, <2>6, <3>1, NextKnows DEF Workers
      <4>2. KeyIsKnown("lam")' /\ TodoIsKnown("lam")'
        BY <4>1 DEF KeyIsKnown, TodoIsKnown, KeySteps, Migrating
      <4> QED
        BY <2>1, <2>2, <3>1, <4>2 DEF OneMigrates
    <3>2. CASE w = "app" /\ at = "idle"
      <4>1. proc'["lam"].at = "off" /\ proc'["app"].at = "idle"
        BY <1>1, <1>2, <2>2, <2>6, <3>2, NextKnows DEF Workers
      <4>2. \A p \in Native : source[p] \notin chain
        <5>1. Left("app") /\ proc["app"].todo = {} /\ proc["app"].at \notin KeySteps
          BY <1>1, <1>2, <1>3, <1>6, <2>6, <3>2, NextKnows DEF KeySteps
        <5> QED
          BY <5>1 DEF Left
      <4>3. "idle" \notin Migrating /\ UNCHANGED <<source, chain>>
        BY <1>1 DEF Migrating, KeySteps
      <4> QED
        BY <4>1, <4>2, <4>3 DEF OneMigrates
    <3>3. CASE w = "lam"
      <4>1. proc'["lam"].at = "off" /\ proc'["app"] = proc["app"] /\ proc["app"].at \notin Migrating
        <5>1. proc["app"].at \notin Migrating
          BY <1>1, <1>2, <2>6, <3>3, NextKnows DEF Migrating, KeySteps
        <5> QED
          BY <2>1, <2>2, <3>3, <5>1 DEF Workers
      <4>2. KeyIsKnown("lam")' /\ TodoIsKnown("lam")'
        BY <4>1 DEF KeyIsKnown, TodoIsKnown, KeySteps, Migrating
      <4>3. proc["app"].at # "down" => \A p \in Native : source[p] \notin chain
        BY <1>1, <1>2, <2>6, <3>3, NextKnows
      <4>4. UNCHANGED <<source, chain>>
        BY <1>1
      <4> QED
        BY <4>1, <4>2, <4>3, <4>4 DEF OneMigrates
    <3> QED
      BY <1>2, <2>1, <3>1, <3>2, <3>3
  <2> QED
    BY <1>1, <2>4, <2>5, <2>6 DEF IInv, Alone
\* It takes one of the keys that are left.
<1>7. ASSUME NEW item \in k.todo, item.key \in chain, UNCHANGED catalog,
             Begin(w, [k EXCEPT !.at = "write auth", !.p = item.p,
                                !.key = item.key, !.todo = @ \ {item}])
      PROVE  IInv'
  <2>1. item \in Items /\ item.p \in Native /\ item.p \in Providers /\ item.key \in Firsts /\ item.key \in Keys
    <3>1. item \in Items /\ item.key \in Firsts
      BY <1>3, <1>7 DEF Records, IInv, Types
    <3> QED
      BY <3>1, KeysAre DEF Items, Providers
  <2>2. PICK p, key, rest, r : /\ p = item.p /\ key = item.key /\ rest = k.todo \ {item}
                               /\ r = [k EXCEPT !.at = "write auth", !.p = p, !.key = key, !.todo = rest]
    OBVIOUS
  <2>3. rest \subseteq Items /\ "write auth" \in Ats
    BY <1>3, <2>2 DEF Records, Ats, Migrating, KeySteps
  <2>4. r \in Records /\ r.at = "write auth" /\ r.p = p /\ r.key = key /\ r.todo = rest
    BY <2>1, <2>2, <2>3 DEF Records
  <2>5. proc' \in [Workers -> Records] /\ proc'[w] = r /\ \A v \in Workers \ {w} : proc'[v] = proc[v]
    <3>1. Begin(w, r)
      BY <1>7, <2>2
    <3> QED
      BY <2>4, <3>1, BeginIs DEF IInv, Types
  <2>6. \A i, j \in k.todo : i.p = j.p => i = j
    BY <1>2, <1>3 DEF MigrationRecord
  <2>7. MigrationRecord(w)'
    <3>1. \A i \in rest : i.p # p
      BY <1>7, <2>2, <2>6
    <3> QED
      BY <2>1, <2>2, <2>4, <2>5, <2>6, <3>1 DEF MigrationRecord
  <2>8. proc'[w].at \in Migrating /\ proc'[w].at \in KeySteps /\ proc'[w].at = "write auth"
    BY <2>4, <2>5 DEF Migrating, KeySteps
  <2>9. Types' /\ FileIsSeen'
    BY <1>1, <1>2, <1>4, <1>5, <1>7, <2>5, <2>7, <2>8, MigrationTypes
  <2>10. NothingStray' /\ (~raced => KeysAreKept' /\ UpdateIsKnown')
    BY <1>1, <1>2, <1>4, <1>7, <2>2, <2>4, <2>5, <2>8, BetweenKeys
  <2>11. ASSUME ~raced PROVE OneMigrates'
    <3>1. TodoIsKnown(w) /\ Injective /\ (w = "app" => Left("app") /\ proc["lam"].at = "off")
          /\ (w = "lam" => proc["app"].at = "down")
      BY <1>1, <1>2, <1>3, <1>7, <2>11, NextKnows
    <3>2. source[p] = key /\ \A i \in rest : i.key # key
      <4>1. \A i \in k.todo : i.key \in chain => source[i.p] = i.key
        BY <1>1, <1>3, <3>1 DEF TodoIsKnown, Migrating
      <4>2. \A i \in k.todo : i.p \in Providers
        BY <1>3 DEF Records, Items, Providers
      <4>3. ASSUME NEW i \in rest, i.key = key PROVE FALSE
        <5>1. i \in k.todo /\ i # item
          BY <2>2, <4>3
        <5>2. source[i.p] = source[p] /\ source[i.p] \in Keys
          BY <1>7, <2>1, <2>2, <4>1, <4>3, <5>1
        <5>3. i.p = item.p
          BY <2>2, <4>2, <3>1, <5>1, <5>2 DEF Injective
        <5> QED
          BY <1>7, <2>6, <5>1, <5>3
      <4> QED
        BY <1>7, <2>2, <4>1, <4>3
    <3>3. UNCHANGED <<source, chain, auth>>
      BY <1>1
    <3>4. KeyIsKnown(w)'
      BY <1>7, <2>2, <2>4, <2>5, <3>2, <3>3 DEF KeyIsKnown
    <3>5. TodoIsKnown(w)'
      BY <1>1, <1>3, <2>2, <2>4, <2>5, <3>1, <3>3 DEF TodoIsKnown, Migrating
    <3>6. CASE w = "app"
      <4>1. proc'["lam"].at = "off" /\ KeyIsKnown("lam")' /\ TodoIsKnown("lam")'
        BY <2>5, <3>1, <3>6 DEF KeyIsKnown, TodoIsKnown, KeySteps, Migrating, Workers
      <4>2. Left("app")'
        <5> SUFFICES ASSUME NEW q \in Native, source[q] \in chain
                     PROVE  [p |-> q, key |-> source[q]] \in rest \/ q = p
          BY <2>4, <2>5, <2>8, <3>3, <3>6 DEF Left
        <5>1. [p |-> q, key |-> source[q]] \in k.todo
          BY <1>1, <1>3, <3>1, <3>6 DEF Left, KeySteps
        <5> QED
          BY <2>2, <5>1
      <4>3. "write auth" # "down"
        OBVIOUS
      <4> QED
        BY <2>8, <3>4, <3>5, <3>6, <4>1, <4>2, <4>3 DEF OneMigrates, Left
    <3>7. CASE w = "lam"
      <4>1. proc'["app"].at = "down" /\ "down" \notin Migrating
        BY <2>5, <3>1, <3>7 DEF Workers, Migrating, KeySteps
      <4> QED
        BY <3>4, <3>5, <3>7, <4>1 DEF OneMigrates
    <3> QED
      BY <1>2, <3>6, <3>7
  <2> QED
    BY <1>1, <2>9, <2>10, <2>11 DEF IInv, Alone
<1>8. CASE proc[w].todo = {} /\ catalog' = url /\ Go(w, Rest(w))
  BY <1>3, <1>6, <1>8
<1>9. CASE \E item \in proc[w].todo :
             /\ UNCHANGED catalog
             /\ IF item.key \in chain
                THEN Begin(w, [proc[w] EXCEPT !.at = "write auth", !.p = item.p,
                       !.key = item.key, !.todo = @ \ {item}])
                ELSE Go(w, Aborted(w))
  <2>1. Aborted(w) # "idle"
    BY DEF Aborted
  <2> QED
    BY <1>3, <1>6, <1>7, <1>9, <2>1
<1> QED
  BY <1>8, <1>9 DEF NextKey, SyncCatalogs, Stop, Abort, Aborted

\* The record a migration begins with.
LEMMA StartIs ==
  ASSUME IInv, NEW todo \in SUBSET Items, NEW q, q = [Worker("next") EXCEPT !.todo = todo]
  PROVE  q \in Records /\ q.at = "next" /\ q.todo = todo
<1>1. PICK k : k = Worker("next")
  OBVIOUS
<1>2. k \in Records /\ k.at = "next"
  BY <1>1, WorkerIs DEF Ats, Migrating
<1> QED
  BY <1>1, <1>2 DEF Records

\* What is left to migrate is what providers.json says.
LEMMA StartMigrationInv ==
  ASSUME IInv, NEW w \in Workers, StartMigration(w)
  PROVE  IInv'
<1> DEFINE left == {[p |-> p, key |-> source[p]] : p \in {q \in Native : source[q] # Profile}}
<1>1. /\ w \in {"app", "lam"} /\ proc[w].at \in {"down", "off"} /\ synced' = Native
      /\ UNCHANGED <<source, file, temp, chain, auth, url, bound, catalog, current>>
      /\ raced' = (raced \/ \E v \in {"app", "lam"} \ {w} : proc[v].at \notin Resting)
  BY DEF StartMigration
<1>2. used' \in Counts /\ used'.ops = used.ops /\ used'.reads = used.reads /\ used'.faults = used.faults
  BY UseIs DEF StartMigration, IInv, Types, Counts
<1>3. PICK todo, r : todo = left /\ r = [Worker("next") EXCEPT !.todo = todo]
  OBVIOUS
<1>4. todo \in SUBSET Items
  <2>1. \A p \in Native : source[p] # Profile => [p |-> p, key |-> source[p]] \in Items
    BY DEF IInv, Types, TypeOK, Items, Providers
  <2> QED
    BY <1>3, <2>1
<1>5. r \in Records /\ r.at = "next" /\ r.todo = todo
  BY <1>3, <1>4, StartIs
<1>6. proc' \in [Workers -> Records] /\ proc'[w] = r /\ \A v \in Workers \ {w} : proc'[v] = proc[v]
  <2>1. Begin(w, r)
    BY <1>3 DEF StartMigration
  <2> QED
    BY <1>5, <2>1, BeginIs DEF IInv, Types
<1>7. \A item \in todo : item.p \in Native /\ item.key = source[item.p]
  BY <1>3
<1>8. \A p \in Native : source[p] # Profile => [p |-> p, key |-> source[p]] \in todo
  BY <1>3
<1>9. \A i, j \in todo : i.p = j.p => i = j
  BY <1>3
<1> HIDE DEF left
<1>10. proc'[w].at \in Migrating /\ proc'[w].at \notin KeySteps /\ proc'[w].at = "next"
  BY <1>5, <1>6 DEF Migrating, KeySteps
<1>11. Types' /\ FileIsSeen'
  <2>1. MigrationRecord(w)'
    BY <1>5, <1>6, <1>9, <1>10 DEF MigrationRecord
  <2>2. TypeOK' /\ chain' \subseteq Firsts
    BY <1>1 DEF IInv, Types, TypeOK
  <2> QED
    BY <1>1, <1>2, <1>6, <1>10, <2>1, <2>2, MigrationTypes
<1>12. ASSUME ~raced' PROVE ~raced /\ \A v \in {"app", "lam"} \ {w} : proc[v].at \in Resting
  BY <1>1, <1>12
<1>13. ASSUME ~raced' PROVE KeysAreKept' /\ UpdateIsKnown'
  <2>1. w = "app" \/ proc["app"].at \notin Updating
    BY <1>1, <1>12, <1>13 DEF Resting, Updating
  <2> QED
    BY <1>1, <1>2, <1>6, <1>10, <1>12, <1>13, <2>1, BetweenKeys
<1>14. NothingStray'
  <2>1. \A v \in {"app", "lam"} : proc'[v].at \in KeySteps => proc[v].at \in KeySteps /\ proc'[v].key = proc[v].key
    BY <1>6, <1>10 DEF Workers
  <2>2. \A key \in file : Pending(key) => Pending(key)'
    <3>1. CASE w = "app"
      BY <1>1, <3>1 DEF Pending, Editing
    <3>2. CASE w = "lam"
      <4>1. proc'["app"] = proc["app"]
        BY <1>6, <3>2 DEF Workers
      <4> QED
        BY <4>1 DEF Pending
    <3> QED
      BY <1>1, <3>1, <3>2
  <2> QED
    BY <1>1, <1>2, <2>1, <2>2, NothingStrayKept DEF IInv
<1>15. ASSUME ~raced' PROVE OneMigrates'
  <2>1. OneMigrates /\ UNCHANGED <<source, chain>>
    BY <1>1, <1>12, <1>15 DEF IInv, Alone
  <2>2. chain \subseteq Keys /\ Profile \notin Keys
    BY KeysAre DEF IInv, Types
  <2>3. KeyIsKnown(w)'
    BY <1>10 DEF KeyIsKnown, KeySteps
  <2>4. TodoIsKnown(w)'
    BY <1>5, <1>6, <1>7, <2>1 DEF TodoIsKnown
  <2>5. CASE w = "app"
    <3>1. proc'["lam"].at = "off"
      <4>1. proc["lam"].at \in Resting /\ proc["lam"].at \in LamPlaces
        BY <1>12, <1>15, <2>5 DEF IInv, Types
      <4> QED
        BY <1>6, <2>5, <4>1 DEF Resting, LamPlaces, Migrating, KeySteps, Workers
    <3>2. KeyIsKnown("lam")' /\ TodoIsKnown("lam")'
      BY <3>1 DEF KeyIsKnown, TodoIsKnown, KeySteps, Migrating
    <3>3. \A p \in Native : source'[p] \in chain' => [p |-> p, key |-> source'[p]] \in proc'["app"].todo
      BY <1>5, <1>6, <1>8, <2>1, <2>2, <2>5
    <3>4. proc'["app"].at = "next" /\ proc'["app"].at \in Migrating
      BY <1>10, <2>5
    <3> QED
      BY <2>3, <2>4, <2>5, <3>1, <3>2, <3>3, <3>4 DEF OneMigrates
  <2>6. CASE w = "lam"
    <3>1. proc'["app"] = proc["app"] /\ proc["app"].at \in {"down", "idle"}
      <4>1. proc["app"].at \in Resting /\ proc["app"].at # "off"
        BY <1>12, <1>15, <2>6 DEF IInv, Types
      <4> QED
        BY <1>6, <2>6, <4>1 DEF Resting, Workers
    <3>2. {"down", "idle"} \cap Migrating = {}
      BY DEF Migrating, KeySteps
    <3>3. CASE proc["app"].at = "down"
      BY <2>3, <2>4, <2>6, <3>1, <3>2, <3>3 DEF OneMigrates
    <3>4. CASE proc["app"].at = "idle"
      <4>1. \A p \in Native : source[p] \notin chain
        BY <2>1, <3>2, <3>4 DEF OneMigrates
      <4>2. proc'["lam"].at = "next" /\ \A item \in proc'["lam"].todo : item.key \notin chain
        BY <1>5, <1>6, <1>7, <2>6, <4>1
      <4> QED
        BY <2>1, <3>1, <3>2, <3>4, <4>1, <4>2 DEF OneMigrates
    <3> QED
      BY <3>1, <3>3, <3>4
  <2> QED
    BY <1>1, <2>5, <2>6
<1> QED
  BY <1>11, <1>13, <1>14, <1>15 DEF IInv, Alone

-----------------------------------------------------------------------------
(* The theorems *)

\* Every Provider can have a key of its own to begin with.
LEMMA FirstsExist ==
  \E f \in [Providers -> 1..Cardinality(Providers)] : \A p, q \in Providers : f[p] = f[q] => p = q
<1>1. ExistsBijection(Providers, 1..Cardinality(Providers))
  BY SecretsAssumption, FS_CardinalityType, Fun_ExistsBijSymmetric DEF Providers
<1> QED
  BY <1>1 DEF ExistsBijection, Bijection, Injection, IsInjective

LEMMA InitInv ==
  ASSUME Init
  PROVE  IInv
<1> DEFINE chosen == CHOOSE f \in [Providers -> 1..Cardinality(Providers)] :
                       \A p, q \in Providers : f[p] = f[q] => p = q
<1>1. chosen \in [Providers -> Firsts] /\ \A p, q \in Providers : chosen[p] = chosen[q] => p = q
  BY FirstsExist DEF Firsts, Total
<1>2. PICK migrated \in SUBSET Native, stored \in SUBSET Plain :
        /\ source = [p \in Providers |-> IF p \in migrated THEN Profile ELSE chosen[p]]
        /\ file = {chosen[p] : p \in stored}
        /\ chain = {chosen[p] : p \in Providers \ (migrated \cup stored)}
        /\ auth = [p \in Native |-> IF p \in migrated THEN chosen[p] ELSE None]
        /\ temp = None
        /\ url = [p \in Native |-> 0] /\ bound = url /\ catalog = url
        /\ synced = Native
        /\ proc = [w \in Workers |-> Worker(IF w = "app" THEN "down" ELSE "off")]
        /\ current = {} /\ raced = FALSE
        /\ used = [ops |-> 0, faults |-> 0, launches |-> 0, reads |-> 0]
  BY DEF Init
<1>3. PICK first : first = chosen
  OBVIOUS
<1> HIDE DEF chosen
<1>4. /\ \A p \in Providers : first[p] \in Firsts /\ first[p] \in Keys
      /\ \A p, q \in Providers : first[p] = first[q] => p = q
      /\ migrated \subseteq Providers /\ stored \subseteq Providers /\ migrated \cap stored = {}
      /\ Plain \subseteq Providers /\ Native \subseteq Providers
      /\ \A p \in Plain : p \notin migrated
  BY <1>1, <1>3, KeysAre, SecretsAssumption DEF Providers
<1>5. /\ \A p \in Providers : source[p] = IF p \in migrated THEN Profile ELSE first[p]
      /\ \A p \in Native : auth[p] = IF p \in migrated THEN first[p] ELSE None
      /\ file = {first[p] : p \in stored}
      /\ chain = {first[p] : p \in Providers \ (migrated \cup stored)}
  BY <1>2, <1>3, <1>4
<1>6. TypeOK
  <2>1. source \in [Providers -> Keys \cup {Profile, Gone}]
    BY <1>2, <1>3, <1>4
  <2>2. auth \in [Native -> Keys \cup {None}]
    BY <1>2, <1>3, <1>4
  <2>3. file \subseteq Keys /\ chain \subseteq Keys
    BY <1>4, <1>5
  <2> QED
    BY <1>2, <2>1, <2>2, <2>3 DEF TypeOK
<1>7. /\ "down" \in Ats /\ "off" \in Ats
  BY DEF Ats, Resting
<1>8. /\ proc \in [Workers -> Records] /\ proc["app"].at = "down" /\ proc["lam"].at = "off"
      /\ proc["sidecar"].at = "off" /\ proc["app"].todo = {} /\ proc["lam"].todo = {}
  BY <1>2, <1>7, WorkerIs DEF Workers
<1>9. /\ {"down", "off"} \cap (Editing \cup Updating \cup KeySteps \cup Migrating \cup {"repoint", "reproject", "hash"}) = {}
  BY DEF Editing, Updating, KeySteps, Migrating
<1>10. used \in Counts
  BY <1>2, SecretsAssumption DEF Counts
<1>11. Types
  <2>1. chain \subseteq Firsts
    BY <1>4, <1>5
  <2>2. \A p \in Plain : source[p] # Profile
    BY <1>4, <1>5, KeysAre
  <2>3. \A p \in Providers : source[p] \in Keys => source[p] <= Total + used.ops
    <3>1. used.ops = 0
      BY <1>2
    <3> QED
      BY <1>4, <1>5, <3>1, KeysAre DEF Firsts
  <2>4. AppRecord /\ SidecarRecord /\ MigrationRecord("app") /\ MigrationRecord("lam")
    BY <1>8, <1>9 DEF AppRecord, SidecarRecord, MigrationRecord
  <2> QED
    BY <1>6, <1>8, <1>10, <2>1, <2>2, <2>3, <2>4 DEF Types, LamPlaces
<1>12. FileIsSeen
  BY <1>8 DEF FileIsSeen
<1>13. KeysAreKept
  <2>1. \A p, q \in Providers : source[p] = source[q] /\ source[p] \in Keys => p = q
    BY <1>4, <1>5, KeysAre
  <2>2. \A p \in Providers : Somewhere(p)
    <3> SUFFICES ASSUME NEW p \in Providers PROVE Somewhere(p)
      OBVIOUS
    <3>1. CASE p \in migrated
      BY <1>4, <1>5, <3>1, KeysAre DEF Somewhere
    <3>2. CASE p \notin migrated
      BY <1>5, <3>2 DEF Somewhere
    <3> QED
      BY <3>1, <3>2
  <2> QED
    BY <1>8, <1>9, <2>1, <2>2 DEF KeysAreKept
<1>14. OneMigrates /\ UpdateIsKnown
  BY <1>8, <1>9 DEF OneMigrates, KeyIsKnown, TodoIsKnown, UpdateIsKnown, UpdateFits
<1>15. NothingStray
  <2>1. \A key \in file : \E p \in Providers : source[p] = key
    BY <1>4, <1>5
  <2>2. file \cap chain = {}
    BY <1>4, <1>5
  <2> QED
    BY <1>8, <1>9, <2>1, <2>2 DEF NothingStray
<1> QED
  BY <1>11, <1>12, <1>13, <1>14, <1>15 DEF IInv, Alone

LEMMA StutterInv ==
  ASSUME IInv, UNCHANGED vars
  PROVE  IInv'
<1>1. UNCHANGED <<source, file, temp, chain, auth, url, bound, catalog, synced, proc, current, used, raced>>
  BY DEF vars, stores
<1>2. Types'
  BY <1>1 DEF IInv, Types, TypeOK, AppRecord, SidecarRecord, MigrationRecord
<1>3. FileIsSeen' /\ NothingStray'
  BY <1>1 DEF IInv, FileIsSeen, NothingStray, Pending
<1>4. ASSUME ~raced PROVE KeysAreKept' /\ OneMigrates' /\ UpdateIsKnown'
  <2>1. KeysAreKept'
    BY <1>1, <1>4 DEF IInv, Alone, KeysAreKept, Somewhere
  <2>2. OneMigrates'
    BY <1>1, <1>4, OneMigratesSame DEF IInv, Alone
  <2>3. UpdateIsKnown'
    BY <1>1, <1>4 DEF IInv, Alone, UpdateIsKnown, UpdateFits
  <2> QED
    BY <2>1, <2>2, <2>3
<1> QED
  BY <1>1, <1>2, <1>3, <1>4 DEF IInv, Alone

\* Whatever the operations, failures and crashes: processes find their records as
\* they left them, one at a time changes a store, keys are kept while none race,
\* and no entry is left behind while nothing fails.
THEOREM IInvHolds == Spec => []IInv
<1>1. Init => IInv
  BY InitInv
<1>2. IInv /\ [Next]_vars => IInv'
  <2> SUFFICES ASSUME IInv, [Next]_vars PROVE IInv'
    OBVIOUS
  <2>1. CASE UNCHANGED vars
    BY <2>1, StutterInv
  <2>2. CASE \E p \in Providers : Rotate(p)
    BY <2>2, RotateInv
  <2>3. CASE \E p \in Plain : Create(p) \/ Delete(p) \/ Read(p)
    <3>1. Plain \subseteq Providers
      BY DEF Providers
    <3> QED
      BY <2>3, <3>1, RotateInv, DeleteInv, ReadInv
  <2>4. CASE \E p \in Native : Update(p) \/ EditAttached(p) \/ UserEdits(p)
    BY <2>4, UpdateInv, EditAttachedInv, UserEditsInv
  <2>5. CASE \/ Repoint \/ Refresh \/ StageKey \/ SaveSettings \/ Rebind
             \/ UnsaveSettings \/ RestoreKey \/ WriteConfig \/ SaveHash
    BY <2>5, RepointInv, RefreshInv, StageKeyInv, SaveSettingsInv, RebindInv,
       UnsaveSettingsInv, RestoreKeyInv, WriteConfigInv, SaveHashInv
  <2>6. CASE \E w \in Workers : LoadFile(w) \/ WriteTemp(w) \/ Rename(w) \/ Crash(w)
    BY <2>6, LoadFileInv, WriteTempInv, RenameInv, CrashInv
  <2>7. CASE \E w \in Workers :
               \/ StartMigration(w) \/ NextKey(w) \/ WriteAuth(w) \/ DeleteItem(w)
               \/ Adopt(w) \/ RebindNative(w) \/ Disown(w) \/ RestoreItem(w) \/ RemoveAuth(w)
    BY <2>7, StartMigrationInv, NextKeyInv, WriteAuthInv, DeleteItemInv, AdoptInv,
       RebindNativeInv, DisownInv, RestoreItemInv, RemoveAuthInv
  <2> QED
    BY <2>1, <2>2, <2>3, <2>4, <2>5, <2>6, <2>7 DEF Next
<1> QED
  BY <1>1, <1>2, PTL DEF Spec

\* No Provider without its key and no key without its Provider, for any
\* Providers and any numbers of operations, launches, reads and failures
\* (credential_store.rs, codex_api_key_auth.rs).
THEOREM SecretsMatch == Spec => []KeysMatchProviders
<1>1. IInv => KeysMatchProviders
  <2> SUFFICES ASSUME IInv PROVE KeysMatchProviders
    OBVIOUS
  <2>1. SecretSurvives
    BY DEF IInv, Types, Alone, KeysAreKept, SecretSurvives
  <2>2. NoStraySecret
    <3> SUFFICES ASSUME used.faults = 0, used.reads = 0, \A w \in Workers : proc[w].at \in Resting
                 PROVE  \A key \in file : \E p \in Providers : source[p] = key
      BY DEF NoStraySecret
    <3>1. proc["app"].at \notin Editing \cup {"repoint"}
      BY DEF Workers, Resting, Editing
    <3> QED
      BY <3>1 DEF IInv, NothingStray, Pending
  <2> QED
    BY <2>1, <2>2 DEF KeysMatchProviders
<1> QED
  BY <1>1, IInvHolds, PTL

\* A connection update that ends is whole, or undone.
Ended ==
  At("idle")' /\ proc["app"].at \in Updating /\ ~raced =>
    LET p == proc["app"].p  was == proc["app"].was IN
    \/ auth'[p] = proc["app"].key /\ url'[p] = was.url + 1
         /\ bound'[p] = url'[p] /\ catalog'[p] = url'[p]
    \/ auth'[p] = was.auth /\ url'[p] = was.url /\ bound'[p] = was.bound

\* When a step has failed, and one may, no other does.
LEMMA OneFailure ==
  ASSUME IInv, MaxFaults <= 1, used.faults > 0
  PROVE  ~Fault
BY SecretsAssumption DEF IInv, Types, Counts, Fault

\* Only the steps of an update end it.
LEMMA OthersGoOn ==
  ASSUME IInv, proc["app"].at \in Updating, NEW w \in Workers,
         \/ LoadFile(w) \/ WriteTemp(w) \/ Rename(w) \/ Crash(w)
         \/ StartMigration(w) \/ NextKey(w) \/ WriteAuth(w) \/ DeleteItem(w)
         \/ Adopt(w) \/ RebindNative(w) \/ Disown(w) \/ RestoreItem(w) \/ RemoveAuth(w)
  PROVE  ~At("idle")'
<1>0. proc \in [Workers -> Records] /\ "app" \in Workers /\ proc["app"].at # "idle"
  BY DEF IInv, Types, Workers, Updating
<1>1. CASE w # "app"
  <2>1. proc'["app"] = proc["app"]
    <3>1. CASE \/ LoadFile(w) \/ WriteTemp(w) \/ Rename(w)
      BY <1>0, <1>1, <3>1 DEF LoadFile, WriteTemp, Rename, Go
    <3>2. CASE Crash(w)
      BY <1>0, <1>1, <3>2 DEF Crash
    <3>3. CASE StartMigration(w) \/ NextKey(w)
      BY <1>0, <1>1, <3>3 DEF StartMigration, NextKey, Begin, Stop, Abort, Go
    <3>4. CASE \/ WriteAuth(w) \/ DeleteItem(w) \/ Adopt(w) \/ RebindNative(w) \/ Disown(w)
               \/ RestoreItem(w) \/ RemoveAuth(w)
      BY <1>0, <1>1, <3>4 DEF WriteAuth, DeleteItem, Adopt, RebindNative, Disown, RestoreItem, RemoveAuth, Abort, Go
    <3> QED
      BY <3>1, <3>2, <3>3, <3>4
  <2> QED
    BY <1>0, <2>1 DEF At
<1>2. CASE w = "app"
  <2>1. Crash(w)
    BY <1>2 DEF LoadFile, WriteTemp, Rename, StartMigration, NextKey, WriteAuth, DeleteItem, Adopt,
                RebindNative, Disown, RestoreItem, RemoveAuth, Updating
  <2>2. proc'["app"] = Worker("down")
    BY <1>0, <1>2, <2>1 DEF Crash
  <2> QED
    BY <2>2, WorkerIs DEF At, Ats, Resting
<1> QED
  BY <1>1, <1>2

\* An update ends by its last step, by a failure before its first change, or by
\* the undoing of what it had changed.
LEMMA UpdateEnds ==
  ASSUME IInv, MaxFaults <= 1, [Next]_vars
  PROVE  Ended
<1> SUFFICES ASSUME At("idle")', proc["app"].at \in Updating, ~raced
             PROVE  LET p == proc["app"].p  was == proc["app"].was IN
                    \/ auth'[p] = proc["app"].key /\ url'[p] = was.url + 1
                         /\ bound'[p] = url'[p] /\ catalog'[p] = url'[p]
                    \/ auth'[p] = was.auth /\ url'[p] = was.url /\ bound'[p] = was.bound
  BY DEF Ended
<1>1. PICK k \in Records : k = proc["app"] /\ k = Mine
  BY DEF IInv, Types, Workers, Mine
<1>2. PICK p \in Native, was \in Olds : p = k.p /\ was = k.was
  BY <1>1 DEF IInv, Types, AppRecord, Records
<1>3. /\ k.at \in Updating /\ was.url \in Nat /\ was.bound \in Nat
      /\ url[p] = (IF k.at \in {"rebind", "unsave"} THEN was.url + 1 ELSE was.url)
      /\ bound[p] = was.bound /\ "app" \in current
      /\ k.at \in {"refresh", "stage"} => auth[p] = was.auth
      /\ k.at \in {"save", "rebind", "unsave"} => auth[p] = k.key
      /\ k.at \in {"unsave", "restore key"} => used.faults > 0
  BY <1>1, <1>2 DEF IInv, Alone, UpdateIsKnown, UpdateFits, Olds
<1>4. /\ auth \in [Native -> Keys \cup {None}] /\ url \in [Native -> Nat] /\ bound \in [Native -> Nat]
      /\ catalog \in [Native -> Nat] /\ proc \in [Workers -> Records] /\ "app" \in Workers
  BY DEF IInv, Types, TypeOK, Workers
<1>5. \A at \in Ats : Go("app", at) => at = "idle"
  BY <1>4, GoIs DEF At
<1> SUFFICES \/ auth'[p] = k.key /\ url'[p] = was.url + 1 /\ bound'[p] = url'[p] /\ catalog'[p] = url'[p]
             \/ auth'[p] = was.auth /\ url'[p] = was.url /\ bound'[p] = was.bound
  BY <1>1, <1>2
<1>6. CASE Refresh \/ StageKey
  <2>1. UNCHANGED <<url, bound>> /\ k.at \in {"refresh", "stage"}
    BY <1>1, <1>6 DEF Refresh, StageKey, At
  <2>2. UNCHANGED auth
    BY <1>5, <1>6 DEF Refresh, StageKey, Ats, Updating
  <2> QED
    BY <1>3, <2>1, <2>2
<1>7. CASE Rebind
  <2>1. k.at = "rebind" /\ UNCHANGED <<auth, url>>
    BY <1>1, <1>7 DEF Rebind, At
  <2>2. Rebound("app", Mine.p)
    BY <1>5, <1>7 DEF Rebind, Ats, Updating
  <2>3. bound'[p] = url[p] /\ catalog'[p] = url[p]
    BY <1>1, <1>2, <1>4, <2>2 DEF Rebound
  <2> QED
    BY <1>3, <2>1, <2>3
<1>8. CASE SaveSettings
  BY <1>5, <1>8 DEF SaveSettings, Ats, Updating
<1>9. CASE UnsaveSettings
  <2>1. k.at = "unsave" /\ ~Fault
    BY <1>1, <1>3, <1>9, OneFailure DEF UnsaveSettings, At
  <2> QED
    BY <1>3, <1>5, <1>9, <2>1 DEF UnsaveSettings, Ats, Updating
<1>10. CASE RestoreKey
  <2>1. k.at = "restore key" /\ ~Fault /\ UNCHANGED <<url, bound>>
    BY <1>1, <1>3, <1>10, OneFailure DEF RestoreKey, At
  <2>2. auth' = [auth EXCEPT ![Mine.p] = Mine.was.auth]
    BY <1>10, <2>1 DEF RestoreKey
  <2> QED
    BY <1>1, <1>2, <1>3, <1>4, <2>1, <2>2
<1>11. CASE \E w \in Workers :
       \/ LoadFile(w) \/ WriteTemp(w) \/ Rename(w) \/ Crash(w)
       \/ StartMigration(w) \/ NextKey(w) \/ WriteAuth(w) \/ DeleteItem(w)
       \/ Adopt(w) \/ RebindNative(w) \/ Disown(w) \/ RestoreItem(w) \/ RemoveAuth(w)
  BY <1>11, OthersGoOn
<1>12. proc["app"].at \notin {"idle", "repoint", "reproject", "hash"}
  BY DEF Updating
<1>13. CASE Repoint \/ WriteConfig \/ SaveHash
  BY <1>12, <1>13 DEF Repoint, WriteConfig, SaveHash, At
<1>14. ASSUME NEW q, Rotate(q) \/ Create(q) \/ Delete(q) \/ Update(q) \/ EditAttached(q) PROVE FALSE
  BY <1>12, <1>14 DEF Rotate, Create, Delete, Update, EditAttached, Operation, At
<1>15. ASSUME NEW q \in Plain, Read(q) PROVE FALSE
  <2>1. proc'["app"] = proc["app"]
    BY <1>4, <1>15 DEF Read, Begin
  <2> QED
    BY <1>12, <2>1 DEF At
<1>16. ASSUME NEW q \in Native, UserEdits(q) PROVE FALSE
  BY <1>12, <1>16 DEF UserEdits, At
<1>17. ~UNCHANGED vars
  BY <1>12 DEF vars, At
<1> QED
  BY <1>6, <1>7, <1>8, <1>9, <1>10, <1>11, <1>13, <1>14, <1>15, <1>16, <1>17 DEF Next

\* A connection update of which at most one step fails ends as a whole or not at
\* all (update_api_account_connection).  A second failure, of the undoing, can
\* leave it in between.
THEOREM UpdatesAreWhole == MaxFaults <= 1 => (Spec => UpdateIsAllOrNothing)
<1> SUFFICES ASSUME MaxFaults <= 1 PROVE Spec => UpdateIsAllOrNothing
  OBVIOUS
<1>1. IInv /\ [Next]_vars => [Ended]_vars
  BY UpdateEnds
<1>2. [][Ended]_vars => UpdateIsAllOrNothing
  BY PTL DEF Ended, UpdateIsAllOrNothing
<1> QED
  BY <1>1, <1>2, IInvHolds, PTL DEF Spec
=============================================================================
