------------------------------ MODULE UsageProofs ------------------------------
(***************************************************************************)
(* What LAM tells the user of the use of an account.                       *)
(*                                                                         *)
(* The usage index says what the logs say, for any logs, homes, sessions,  *)
(* models and names, and whatever Codex, a relay or a deletion does to the *)
(* logs between two steps of a refresh.                                    *)
(*                                                                         *)
(* The quota: the id of a reset is kept until its outcome is known, and    *)
(* not repeated afterwards, for any number of callers, attempts, credits   *)
(* and crashes; and what a read of the quota returns, saves and leaves     *)
(* behind, for any number of reads that overlap.                           *)
(***************************************************************************)
EXTENDS UsageIndex, QuotaReads, SequenceTheorems, FiniteSetTheorems, WellFoundedInduction,
        TLAPS

-----------------------------------------------------------------------------
(* The usage index (UsageIndex) *)

\* What the first n lines of a log say, read at once.
SaidBy(lines, n) ==
  {[line |-> i, at |-> lines[i].at, model |-> ModelAt(lines, 0, None, i)] :
     i \in {j \in 1..n : lines[j].kind = "token"}}

Plans   == [from : Nat, model : Models \cup {None}, whole : BOOLEAN]
Parses  == [calls : SUBSET Calls, line : Nat, model : Models \cup {None}, seen : Nat]
Titles  == [Sessions -> Names \cup {None}]
Partial(V) == UNION {[S -> V] : S \in SUBSET Paths}

Refreshes == [stage : {"idle", "listed", "planned", "parsed"}, archived : BOOLEAN,
              by : {None, "deletion"}, logs : SUBSET Paths, index : {<<>>} \cup Titles,
              plans : Partial(Plans), parsed : Partial(Parses)]

\* A deletion whose logs still have their rows, and one that has set aside all.
Unclear  == {"staging", "staged", "unnamed", "undo"}
Complete == {"staged", "unnamed", "cleared", "undo", "undo and index"}
Undoing  == {"unstage", "undo", "undo and index"}
Deleting == {"staging", "unstage"} \cup Complete
Jobs == [stage : Settled \cup Deleting \cup {"index", "indexing"},
         home : Homes \cup {None}, paths : SUBSET Paths,
         names : {<<>>} \cup Titles, indexed : SUBSET Paths, failed : BOOLEAN]

Types ==
  /\ disk \in [Paths -> Files \cup {None}] /\ staged \in [Paths -> Files \cup {None}]
  /\ last \in [Paths -> Seq(Line) \cup {None}]
  /\ names \in [Homes -> Titles]
  /\ clock \in 1..MaxWrites /\ moves \in 0..MaxMoves /\ work \in 0..MaxWork
  /\ index.rows \in [Paths -> Rows \cup {None}] /\ index.calls \subseteq Calls
  /\ refresh \in Refreshes /\ job \in Jobs
  /\ gone \subseteq Paths /\ loose \subseteq Paths /\ raced \subseteq Paths
  /\ refresh.stage = "idle" => refresh = Calm
  /\ refresh.stage # "idle" => refresh.index \in Titles

\* The logs: a file holds the last content of its path, and none is younger
\* than the clock; what is archived stays.
LogsFit ==
  \A p \in Paths :
    /\ disk[p] # None => last[p] = disk[p].lines /\ disk[p].stamp <= clock
    /\ staged[p] # None => last[p] # None /\ staged[p].stamp <= clock
    /\ staged[p] # None /\ disk[p] # None => staged[p].stamp # disk[p].stamp
    /\ index.rows[p] # None => last[p] # None /\ index.rows[p].stamp <= clock
    /\ p \in refresh.logs => last[p] # None
    /\ p.archived /\ last[p] # None => disk[p] # None
    /\ p \in gone => disk[p] = None

\* The deletion in progress.
JobFits ==
  /\ job.stage \in Settled => job.paths = {}
  /\ job.stage \in Deleting => job.home \in Homes /\ job.names \in Titles
  /\ \A p \in Paths : staged[p] # None => job.stage \in Deleting /\ p \in job.paths
  /\ \A p \in job.paths \cup gone : ~p.archived
  /\ job.stage \in {"index", "indexing"} => job.paths \cap gone = {}
  /\ job.stage \in Unclear => \A p \in job.indexed : index.rows[p] # None
  /\ job.stage \in Complete => \A p \in job.paths : staged[p] # None
  /\ refresh.by # None => job.stage = "indexing"

\* What a refresh plans, against the row it was planned by.
Follows(plan, row) ==
  IF plan.whole THEN plan.from = 0 /\ plan.model = None
  ELSE row # None /\ plan.from = row.line /\ plan.model = row.model

PlansFit ==
  refresh.stage \in {"planned", "parsed"} =>
    /\ DOMAIN refresh.plans \subseteq refresh.logs
    /\ \A p \in refresh.logs \ DOMAIN refresh.plans : index.rows[p] # None
    /\ \A p \in DOMAIN refresh.plans : Follows(refresh.plans[p], index.rows[p])

\* A parse gives what the first n of these lines say after the lines that had
\* been parsed before.
Gives(plan, parse, lines, n) ==
  /\ plan.from <= n /\ parse.line = n
  /\ parse.model = ModelAt(lines, 0, None, n)
  /\ Said(parse.calls) = {s \in SaidBy(lines, n) : s.line > plan.from}

\* It gives all of a file, if that is the file that was parsed.
GivesFile(plan, parse, f) ==
  f # None /\ f.stamp = parse.seen => Gives(plan, parse, f.lines, Len(f.lines))

OneCallALine(p, calls) ==
  \A c \in calls : c.path = p /\ \A d \in calls : d.line = c.line => d = c

ParsesFit ==
  refresh.stage = "parsed" =>
    /\ DOMAIN refresh.parsed = DOMAIN refresh.plans
    /\ \A p \in DOMAIN refresh.parsed :
         LET plan  == refresh.plans[p]
             parse == refresh.parsed[p]
         IN  /\ parse.seen <= clock
             /\ OneCallALine(p, parse.calls)
             /\ p \notin loose => \E n \in 0..Len(last[p]) : Gives(plan, parse, last[p], n)
             /\ plan.whole \/ p \notin loose =>
                  GivesFile(plan, parse, disk[p]) /\ GivesFile(plan, parse, staged[p])

\* The rows of the index, against the logs.
RowIs(row, calls, lines) ==
  /\ row.line <= Len(lines)
  /\ Said(calls) = SaidBy(lines, row.line)
  /\ row.model = ModelAt(lines, 0, None, row.line)

RowsFit ==
  \A p \in Paths : index.rows[p] # None /\ p \notin loose =>
    RowIs(index.rows[p], CallsOf(p), last[p])

StampIs(row, f) ==
  f # None /\ f.stamp = row.stamp => row.line = Len(f.lines)

StampsFit ==
  \A p \in Paths : index.rows[p] # None /\ p \notin loose /\ p \notin raced =>
    StampIs(index.rows[p], disk[p]) /\ StampIs(index.rows[p], staged[p])

\* The part of AggregatesMatchCalls that is not about types.
Tallied ==
  /\ index.threads = AllThreads(index.calls)
  /\ index.chains  = AllChains(index.calls)
  /\ index.facts   = AllFacts(index.calls)

OneCallEach == \A c, d \in index.calls : Id(c) = Id(d) => c = d

\* What was deleted is not on its way back.
NoGhost ==
  \A p \in gone : (p \in job.paths => job.stage = "cleared") =>
    index.rows[p] = None /\ CallsOf(p) = {} /\ p \notin refresh.logs

IInv ==
  /\ Types
  /\ LogsFit
  /\ JobFits
  /\ PlansFit
  /\ ParsesFit
  /\ RowsFit
  /\ StampsFit
  /\ OneCallEach
  /\ Tallied
  /\ NoGhost
-----------------------------------------------------------------------------
(* The parser. *)

LEMMA HasMax ==
  ASSUME NEW n \in Nat, NEW S, S \subseteq 1..n, S # {}
  PROVE  Max(S) \in S /\ \A x \in S : x <= Max(S)
<1> DEFINE T == {n - x : x \in S}
<1>1. T \subseteq Nat /\ T # {}
  <2>1. \A x \in S : n - x \in Nat
    OBVIOUS
  <2>2. PICK x \in S : TRUE
    OBVIOUS
  <2> QED
    BY <2>1, <2>2
<1> DEFINE Less == {pair \in Nat \X Nat : pair[1] < pair[2]}
<1>2. IsWellFoundedOn(Less, Nat)
  BY NatLessThanWellFounded DEF OpToRel
<1>3. PICK y \in T : \A z \in T : ~(z < y)
  <2>1. PICK y \in T : \A z \in T : ~(<<z, y>> \in Less)
    BY <1>1, <1>2, WFMin
  <2> QED
    BY <1>1, <2>1
<1>4. PICK m \in S : y = n - m
  OBVIOUS
<1>5. \A x \in S : m >= x
  <2>1. \A x \in S : ~(n - x < n - m)
    BY <1>3, <1>4
  <2> QED
    BY <2>1
<1> QED
  BY <1>5 DEF Max

LEMMA MaxOfTwo ==
  ASSUME NEW a \in Nat, NEW b \in Nat
  PROVE  Max({a, b}) \in Nat /\ (a <= b => Max({a, b}) = b) /\ (b <= a => Max({a, b}) = a)
<1> DEFINE c == IF a <= b THEN b ELSE a
<1>1. c \in {a, b} /\ \A y \in {a, b} : c >= y
  OBVIOUS
<1>2. Max({a, b}) \in {a, b} /\ \A y \in {a, b} : Max({a, b}) >= y
  BY <1>1 DEF Max
<1> QED
  BY <1>2

LEMMA ModelAtType ==
  ASSUME NEW lines \in Seq(Line), NEW from \in Nat, NEW i \in Nat, i <= Len(lines),
         NEW state \in Models \cup {None}
  PROVE  ModelAt(lines, from, state, i) \in Models \cup {None}
<1> DEFINE T == {j \in from + 1 .. i : lines[j].kind = "turn"}
<1>1. CASE T = {}
  BY <1>1 DEF ModelAt
<1>2. CASE T # {}
  <2>1. T \subseteq 1..i
    OBVIOUS
  <2> HIDE DEF T
  <2>2. Max(T) \in 1..i
    BY <1>2, <2>1, HasMax
  <2>3. lines[Max(T)] \in Line
    BY <2>2
  <2> USE DEF T
  <2> QED
    BY <1>2, <2>3 DEF ModelAt, Line
<1> QED
  BY <1>1, <1>2

LEMMA ModelAtSame ==
  ASSUME NEW lines, NEW more, NEW from \in Nat, NEW i \in Nat, NEW state,
         \A j \in 1..i : more[j] = lines[j]
  PROVE  ModelAt(more, from, state, i) = ModelAt(lines, from, state, i)
<1> DEFINE T == {j \in from + 1 .. i : lines[j].kind = "turn"}
<1>1. {j \in from + 1 .. i : more[j].kind = "turn"} = T
  OBVIOUS
<1>2. CASE T = {}
  BY <1>1, <1>2 DEF ModelAt
<1>3. CASE T # {}
  <2>1. T \subseteq 1..i
    OBVIOUS
  <2>2. Max(T) \in 1..i
    <3> HIDE DEF T
    <3> QED
      BY <1>3, <2>1, HasMax
  <2>3. more[Max(T)] = lines[Max(T)]
    BY <2>2
  <2> QED
    BY <1>1, <1>3, <2>3 DEF ModelAt
<1> QED
  BY <1>2, <1>3

\* Going on from where the parser stopped is the same as starting again.
LEMMA ModelAtOnward ==
  ASSUME NEW lines, NEW from \in Nat, NEW i \in Nat, from <= i
  PROVE  ModelAt(lines, from, ModelAt(lines, 0, None, from), i) = ModelAt(lines, 0, None, i)
<1> DEFINE A == {j \in 0 + 1 .. from : lines[j].kind = "turn"}
           B == {j \in from + 1 .. i : lines[j].kind = "turn"}
           C == {j \in 0 + 1 .. i : lines[j].kind = "turn"}
<1>1. C = A \cup B
  OBVIOUS
<1>2. CASE B = {}
  <2>1. C = A
    BY <1>1, <1>2
  <2> QED
    BY <1>2, <2>1 DEF ModelAt
<1>3. CASE B # {}
  <2>1. C # {} /\ C \subseteq 1..i /\ B \subseteq 1..i
    BY <1>1, <1>3
  <2>2. /\ Max(C) \in C /\ \A x \in C : x <= Max(C)
        /\ Max(B) \in B /\ \A x \in B : x <= Max(B)
    <3> HIDE DEF A, B, C
    <3> QED
      BY <1>3, <2>1, HasMax
  <2>3. Max(B) \in C /\ Max(B) > from
    BY <1>1, <2>2
  <2>4. Max(C) \in B
    BY <2>2, <2>3
  <2>5. Max(C) = Max(B)
    <3> HIDE DEF A, B, C
    <3>1. Max(B) <= Max(C) /\ Max(C) <= Max(B)
      BY <2>2, <2>3, <2>4
    <3>2. Max(B) \in 1..i /\ Max(C) \in 1..i
      BY <2>1, <2>2
    <3> QED
      BY <3>1, <3>2
  <2> QED
    BY <1>3, <2>1, <2>5 DEF ModelAt
<1> QED
  BY <1>2, <1>3

LEMMA SaidBySame ==
  ASSUME NEW lines, NEW more, NEW n \in Nat, \A j \in 1..n : more[j] = lines[j]
  PROVE  SaidBy(more, n) = SaidBy(lines, n)
<1>1. \A i \in 1..n : ModelAt(more, 0, None, i) = ModelAt(lines, 0, None, i)
  <2> TAKE i \in 1..n
  <2>1. \A j \in 1..i : more[j] = lines[j]
    OBVIOUS
  <2> QED
    BY <2>1, ModelAtSame
<1>2. {j \in 1..n : more[j].kind = "token"} = {j \in 1..n : lines[j].kind = "token"}
  OBVIOUS
<1> QED
  BY <1>1, <1>2 DEF SaidBy

LEMMA SaidUpTo ==
  ASSUME NEW lines, NEW from \in Nat, NEW n \in Nat, from <= n
  PROVE  SaidBy(lines, from) = {s \in SaidBy(lines, n) : ~(s.line > from)}
<1>1. ASSUME NEW s \in SaidBy(lines, from)
      PROVE  s \in SaidBy(lines, n) /\ ~(s.line > from)
  BY DEF SaidBy
<1>2. ASSUME NEW s \in SaidBy(lines, n), ~(s.line > from)
      PROVE  s \in SaidBy(lines, from)
  BY <1>2 DEF SaidBy
<1> QED
  BY <1>1, <1>2

LEMMA SaidParsed ==
  ASSUME NEW p, NEW lines \in Seq(Line), NEW from, NEW state, NEW titles
  PROVE  Said(Parsed(p, lines, from, state, titles)) =
           {[line |-> i, at |-> lines[i].at, model |-> ModelAt(lines, from, state, i)] :
              i \in {j \in from + 1 .. Len(lines) : lines[j].kind = "token"}}
<1> DEFINE Read == {j \in from + 1 .. Len(lines) : lines[j].kind = "token"}
           Call(i) == [path |-> p, line |-> i, at |-> lines[i].at,
                       model |-> ModelAt(lines, from, state, i), name |-> titles[p.session],
                       home |-> p.home, archived |-> p.archived]
<1>1. Parsed(p, lines, from, state, titles) = {Call(i) : i \in Read}
  BY DEF Parsed
<1>2. \A i \in Read : /\ Call(i).line = i /\ Call(i).at = lines[i].at
                      /\ Call(i).model = ModelAt(lines, from, state, i)
  OBVIOUS
<1> HIDE DEF Read, Call
<1>3. Said({Call(i) : i \in Read}) =
        {[line |-> Call(i).line, at |-> Call(i).at, model |-> Call(i).model] : i \in Read}
  BY DEF Said
<1> QED
  BY <1>1, <1>2, <1>3 DEF Read

\* A whole parse says what the log says, and one that goes on what it says
\* after the lines before.
LEMMA ParsedOnward ==
  ASSUME NEW p, NEW lines \in Seq(Line), NEW from \in Nat, from <= Len(lines), NEW titles
  PROVE  Said(Parsed(p, lines, from, ModelAt(lines, 0, None, from), titles)) =
           {s \in SaidBy(lines, Len(lines)) : s.line > from}
<1> DEFINE state == ModelAt(lines, 0, None, from)
           new == {j \in from + 1 .. Len(lines) : lines[j].kind = "token"}
           all == {j \in 1 .. Len(lines) : lines[j].kind = "token"}
<1>1. \A i \in new : ModelAt(lines, from, state, i) = ModelAt(lines, 0, None, i)
  BY ModelAtOnward
<1>2. Said(Parsed(p, lines, from, state, titles)) =
        {[line |-> i, at |-> lines[i].at, model |-> ModelAt(lines, 0, None, i)] : i \in new}
  <2> HIDE DEF state
  <2>1. Said(Parsed(p, lines, from, state, titles)) =
          {[line |-> i, at |-> lines[i].at, model |-> ModelAt(lines, from, state, i)] : i \in new}
    BY SaidParsed
  <2> HIDE DEF new
  <2> QED
    BY <1>1, <2>1
<1>3. new = {i \in all : i > from}
  OBVIOUS
<1> HIDE DEF new, all
<1>4. {[line |-> i, at |-> lines[i].at, model |-> ModelAt(lines, 0, None, i)] :
         i \in {j \in all : j > from}} =
      {s \in {[line |-> i, at |-> lines[i].at, model |-> ModelAt(lines, 0, None, i)] :
                i \in all} : s.line > from}
  OBVIOUS
<1> QED
  BY <1>2, <1>3, <1>4 DEF SaidBy, all

LEMMA ModelAtStart ==
  ASSUME NEW lines
  PROVE  ModelAt(lines, 0, None, 0) = None
BY DEF ModelAt

LEMMA ParsedWhole ==
  ASSUME NEW p, NEW lines \in Seq(Line), NEW titles
  PROVE  Said(Parsed(p, lines, 0, None, titles)) = SaidBy(lines, Len(lines))
<1>1. Said(Parsed(p, lines, 0, None, titles)) = {s \in SaidBy(lines, Len(lines)) : s.line > 0}
  BY ParsedOnward, ModelAtStart
<1>2. \A s \in SaidBy(lines, Len(lines)) : s.line > 0
  BY DEF SaidBy
<1> QED
  BY <1>1, <1>2

\* What Whole says of a log.
LEMMA WholeIs ==
  ASSUME NEW p, NEW lines \in Seq(Line), NEW n \in 0..Len(lines), NEW titles
  PROVE  Said(Parsed(p, SubSeq(lines, 1, n), 0, None, titles)) = SaidBy(lines, n)
<1> DEFINE part == SubSeq(lines, 1, n)
<1>1. part \in Seq(Line) /\ Len(part) = n /\ \A j \in 1..n : part[j] = lines[j]
  OBVIOUS
<1> HIDE DEF part
<1>2. Said(Parsed(p, part, 0, None, titles)) = SaidBy(part, n)
  BY <1>1, ParsedWhole
<1>3. SaidBy(part, n) = SaidBy(lines, n)
  BY <1>1, SaidBySame
<1> QED
  BY <1>2, <1>3 DEF part

LEMMA ParsedType ==
  ASSUME NEW p \in Paths, NEW lines \in Seq(Line), NEW from \in Nat,
         NEW state \in Models \cup {None}, NEW titles \in Titles
  PROVE  /\ Parsed(p, lines, from, state, titles) \subseteq Calls
         /\ \A c \in Parsed(p, lines, from, state, titles) :
              /\ c.path = p
              /\ \A d \in Parsed(p, lines, from, state, titles) : d.line = c.line => d = c
<1> DEFINE Read == {j \in from + 1 .. Len(lines) : lines[j].kind = "token"}
           Call(i) == [path |-> p, line |-> i, at |-> lines[i].at,
                       model |-> ModelAt(lines, from, state, i), name |-> titles[p.session],
                       home |-> p.home, archived |-> p.archived]
<1>1. Parsed(p, lines, from, state, titles) = {Call(i) : i \in Read}
  BY DEF Parsed
<1>2. \A i \in Read : Call(i) \in Calls
  <2> TAKE i \in Read
  <2>1. i \in Nat /\ lines[i] \in Line
    OBVIOUS
  <2>2. ModelAt(lines, from, state, i) \in Models \cup {None}
    BY ModelAtType
  <2>3. titles[p.session] \in Names \cup {None} /\ p.home \in Homes /\ p.archived \in BOOLEAN
    BY DEF Titles, Paths
  <2> QED
    BY <2>1, <2>2, <2>3 DEF Calls, Line
<1>3. \A i, j \in Read : Call(i).path = p /\ (Call(j).line = Call(i).line => Call(j) = Call(i))
  OBVIOUS
<1> HIDE DEF Read, Call
<1> QED
  BY <1>1, <1>2, <1>3
-----------------------------------------------------------------------------
(* The aggregates: making again the partitions and the models in which calls *)
(* came, went or moved makes all of them right.                              *)

LEMMA RebuiltThreadsIs ==
  ASSUME NEW old, NEW new, NEW touched,
         \A c : ThreadOf(c) \notin touched => (c \in new <=> c \in old)
  PROVE  RebuiltThreads(AllThreads(old), new, touched) = AllThreads(new)
<1> DEFINE Was == {ThreadOf(c) : c \in old}
           Now == {ThreadOf(c) : c \in new}
           made == Now \cap touched
<1>1. AllThreads(old) = [t \in Was |-> ThreadRow(old, t)]
  BY DEF AllThreads
<1>2. AllThreads(new) = [t \in Now |-> ThreadRow(new, t)]
  BY DEF AllThreads
<1>3. (Was \ touched) \cup made = Now
  OBVIOUS
<1>4. \A t : t \notin touched => ThreadRow(old, t) = ThreadRow(new, t)
  <2> TAKE t
  <2> HAVE t \notin touched
  <2>1. {c \in old : ThreadOf(c) = t} = {c \in new : ThreadOf(c) = t}
    OBVIOUS
  <2> QED
    BY <2>1 DEF ThreadRow
<1>5. RebuiltThreads(AllThreads(old), new, touched) =
        [t \in (Was \ touched) \cup made |->
           IF t \in made THEN ThreadRow(new, t) ELSE AllThreads(old)[t]]
  BY <1>1 DEF RebuiltThreads
<1>6. \A t \in Now : t \notin made => t \in Was /\ AllThreads(old)[t] = ThreadRow(new, t)
  <2> TAKE t \in Now
  <2> HAVE t \notin made
  <2>1. t \in Was /\ t \notin touched
    BY <1>3
  <2> HIDE DEF Was, Now, made
  <2> QED
    BY <1>1, <1>4, <2>1
<1> HIDE DEF Was, Now, made
<1> QED
  BY <1>2, <1>3, <1>5, <1>6

LEMMA RebuiltChainsIs ==
  ASSUME NEW old, NEW new, NEW touched,
         \A c : ThreadOf(c) \notin touched => (c \in new <=> c \in old),
         \A c, d \in old : Id(c) = Id(d) => c = d
  PROVE  RebuiltChains(AllChains(old), new, touched) = AllChains(new)
<1> DEFINE Was == {Id(c) : c \in old}
           Now == {Id(c) : c \in new}
           Old(i) == CHOOSE c \in old : Id(c) = i
           New(i) == CHOOSE c \in new : Id(c) = i
<1>1. AllChains(old) = [i \in Was |-> ChainOf(old, Old(i))]
  BY DEF AllChains
<1>2. AllChains(new) = [i \in Now |-> ChainOf(new, New(i))]
  BY DEF AllChains
<1>3. RebuiltChains(AllChains(old), new, touched) =
        [i \in Now |-> IF ThreadOf(New(i)) \in touched THEN ChainOf(new, New(i))
                       ELSE IF i \in DOMAIN AllChains(old) THEN AllChains(old)[i] ELSE NoLink]
  BY DEF RebuiltChains
<1>4. \A i \in Now : New(i) \in new /\ Id(New(i)) = i
  OBVIOUS
<1>5. \A i \in Was : Old(i) \in old /\ Id(Old(i)) = i
  OBVIOUS
<1>6. \A c : ThreadOf(c) \notin touched => ChainOf(old, c) = ChainOf(new, c)
  <2> TAKE c
  <2> HAVE ThreadOf(c) \notin touched
  <2>1. {d \in old : ThreadOf(d) = ThreadOf(c)} = {d \in new : ThreadOf(d) = ThreadOf(c)}
    OBVIOUS
  <2> QED
    BY <2>1 DEF ChainOf
<1> HIDE DEF Old, New
<1>7. \A i \in Now : ThreadOf(New(i)) \notin touched =>
        i \in Was /\ AllChains(old)[i] = ChainOf(new, New(i))
  <2> TAKE i \in Now
  <2> HAVE ThreadOf(New(i)) \notin touched
  <2>1. New(i) \in old /\ Id(New(i)) = i
    BY <1>4
  <2>2. i \in Was
    BY <2>1
  <2>3. Old(i) = New(i)
    BY <1>5, <2>1, <2>2
  <2> HIDE DEF Was
  <2> QED
    BY <1>1, <1>6, <2>2, <2>3
<1>8. DOMAIN AllChains(old) = Was
  BY <1>1
<1> HIDE DEF Was, Now
<1> QED
  BY <1>2, <1>3, <1>7, <1>8

LEMMA RebuiltFactsIs ==
  ASSUME NEW old, NEW new, NEW touched,
         \A c : c.model \notin touched => (c \in new <=> c \in old)
  PROVE  RebuiltFacts(AllFacts(old), new, touched) = AllFacts(new)
<1> DEFINE Was == {c.model : c \in {d \in old : Unpriced(d)}}
           Now == {c.model : c \in {d \in new : Unpriced(d)}}
           made == Now \cap touched
<1>1. AllFacts(old) = [m \in Was |-> ModelFact(old, m)]
  BY DEF AllFacts
<1>2. AllFacts(new) = [m \in Now |-> ModelFact(new, m)]
  BY DEF AllFacts
<1>3. (Was \ touched) \cup made = Now
  OBVIOUS
<1>4. \A m : m \notin touched => ModelFact(old, m) = ModelFact(new, m)
  <2> TAKE m
  <2> HAVE m \notin touched
  <2>1. {c \in old : c.model = m /\ Unpriced(c)} = {c \in new : c.model = m /\ Unpriced(c)}
    OBVIOUS
  <2> QED
    BY <2>1 DEF ModelFact
<1>5. RebuiltFacts(AllFacts(old), new, touched) =
        [m \in (Was \ touched) \cup made |->
           IF m \in made THEN ModelFact(new, m) ELSE AllFacts(old)[m]]
  BY <1>1 DEF RebuiltFacts
<1>6. \A m \in Now : m \notin made => m \in Was /\ AllFacts(old)[m] = ModelFact(new, m)
  <2> TAKE m \in Now
  <2> HAVE m \notin made
  <2>1. m \in Was /\ m \notin touched
    BY <1>3
  <2> HIDE DEF Was, Now, made
  <2> QED
    BY <1>1, <1>4, <2>1
<1> HIDE DEF Was, Now, made
<1> QED
  BY <1>2, <1>3, <1>5, <1>6
-----------------------------------------------------------------------------
(* The logs get longer. *)

LEMMA TypesHold == Types => TypeOK
BY DEF Types, TypeOK, Refreshes, Jobs, Deleting, Complete, Titles

LEMMA IsPrefixIs ==
  ASSUME NEW s \in Seq(Line), NEW t \in Seq(Line), IsPrefix(s, t)
  PROVE  Len(s) <= Len(t) /\ \A j \in 1..Len(s) : t[j] = s[j]
BY DEF IsPrefix

LEMMA GivesSame ==
  ASSUME NEW plan, NEW parse, NEW lines, NEW more, NEW n \in Nat,
         \A j \in 1..n : more[j] = lines[j],
         Gives(plan, parse, lines, n)
  PROVE  Gives(plan, parse, more, n)
<1>1. SaidBy(more, n) = SaidBy(lines, n)
  BY SaidBySame
<1>2. ModelAt(more, 0, None, n) = ModelAt(lines, 0, None, n)
  BY ModelAtSame
<1> QED
  BY <1>1, <1>2 DEF Gives

LEMMA RowIsSame ==
  ASSUME NEW row \in Rows, NEW calls, NEW lines \in Seq(Line), NEW more \in Seq(Line),
         IsPrefix(lines, more), RowIs(row, calls, lines)
  PROVE  RowIs(row, calls, more)
<1>1. row.line \in Nat /\ row.line <= Len(lines) /\ Len(lines) <= Len(more)
  BY IsPrefixIs DEF Rows, RowIs
<1>2. \A j \in 1..row.line : more[j] = lines[j]
  BY <1>1, IsPrefixIs
<1>3. SaidBy(more, row.line) = SaidBy(lines, row.line)
  BY <1>1, <1>2, SaidBySame
<1>4. ModelAt(more, 0, None, row.line) = ModelAt(lines, 0, None, row.line)
  BY <1>1, <1>2, ModelAtSame
<1> QED
  BY <1>1, <1>3, <1>4 DEF RowIs

\* A log that was parsed has contents.
LEMMA ParsedIsKnown ==
  ASSUME IInv, refresh.stage = "parsed", NEW p \in DOMAIN refresh.parsed
  PROVE  /\ p \in Paths /\ p \in refresh.logs /\ last[p] \in Seq(Line)
         /\ refresh.parsed[p] \in Parses /\ refresh.plans[p] \in Plans
<1>1. refresh \in Refreshes
  BY DEF IInv, Types
<1>2. PICK S \in SUBSET Paths : refresh.parsed \in [S -> Parses]
  BY <1>1 DEF Refreshes, Partial
<1>3. PICK T \in SUBSET Paths : refresh.plans \in [T -> Plans]
  BY <1>1 DEF Refreshes, Partial
<1>4. p \in DOMAIN refresh.plans /\ p \in refresh.logs
  BY DEF IInv, ParsesFit, PlansFit
<1>5. p \in Paths
  BY <1>2
<1>6. last[p] # None
  BY <1>4, <1>5 DEF IInv, LogsFit
<1> QED
  BY <1>2, <1>3, <1>4, <1>5, <1>6 DEF IInv, Types

LEMMA WriteInv ==
  ASSUME IInv, NEW p \in Paths, ~p.archived, NEW lines \in Seq(Line), NEW tail \in BOOLEAN,
         Write(p, lines, tail)
  PROVE  IInv'
<1> USE DEF Write
<1> DEFINE f == [lines |-> lines, tail |-> tail, stamp |-> clock + 1]
<1>1. clock \in Nat /\ clock' = clock + 1 /\ f \in Files
  BY IndexAssumption DEF IInv, Types, Files
<1>2. \A q \in Paths : disk'[q] = IF q = p THEN f ELSE disk[q]
  BY DEF IInv, Types
<1>3. \A q \in Paths : last'[q] = IF q = p THEN lines ELSE last[q]
  BY DEF IInv, Types
<1>4. \A q : q \notin loose' => q \notin loose
  OBVIOUS
<1>5. p \notin loose' /\ last[p] # None => IsPrefix(last[p], lines)
  OBVIOUS
<1>6. Types'
  <2>1. disk' \in [Paths -> Files \cup {None}] /\ last' \in [Paths -> Seq(Line) \cup {None}]
    BY <1>1 DEF IInv, Types
  <2>2. clock' \in 1..MaxWrites
    BY IndexAssumption DEF IInv, Types
  <2>3. gone' \subseteq Paths /\ loose' \subseteq Paths
    BY DEF IInv, Types
  <2> QED
    BY <2>1, <2>2, <2>3 DEF IInv, Types
<1> HIDE DEF Write
<1>7. LogsFit'
  <2> SUFFICES ASSUME NEW q \in Paths
               PROVE  /\ disk'[q] # None => last'[q] = disk'[q].lines /\ disk'[q].stamp <= clock'
                      /\ staged'[q] # None => last'[q] # None /\ staged'[q].stamp <= clock'
                      /\ staged'[q] # None /\ disk'[q] # None =>
                           staged'[q].stamp # disk'[q].stamp
                      /\ index'.rows[q] # None =>
                           last'[q] # None /\ index'.rows[q].stamp <= clock'
                      /\ q \in refresh'.logs => last'[q] # None
                      /\ q.archived /\ last'[q] # None => disk'[q] # None
                      /\ q \in gone' => disk'[q] = None
    BY DEF LogsFit
  <2>1. lines # None
    BY NoneIsNoValue
  <2>2. /\ staged[q] # None => staged[q].stamp \in Nat /\ staged[q].stamp <= clock
        /\ index.rows[q] # None => index.rows[q].stamp \in Nat /\ index.rows[q].stamp <= clock
        /\ disk[q] # None => disk[q].stamp \in Nat /\ disk[q].stamp <= clock
    BY DEF IInv, Types, LogsFit, Files, Rows
  <2>3. /\ staged' = staged /\ index' = index /\ refresh' = refresh /\ gone' = gone \ {p}
    BY DEF Write
  <2> QED
    BY <1>1, <1>2, <1>3, <2>1, <2>2, <2>3 DEF IInv, LogsFit
<1>8. JobFits'
  BY DEF IInv, JobFits, Write
<1>9. PlansFit'
  BY DEF IInv, PlansFit, Write
<1>10. ParsesFit'
  <2> SUFFICES ASSUME refresh.stage = "parsed", NEW q \in DOMAIN refresh.parsed
               PROVE  /\ refresh.parsed[q].seen <= clock'
                      /\ OneCallALine(q, refresh.parsed[q].calls)
                      /\ q \notin loose' => \E n \in 0..Len(last'[q]) :
                           Gives(refresh.plans[q], refresh.parsed[q], last'[q], n)
                      /\ refresh.plans[q].whole \/ q \notin loose' =>
                           /\ GivesFile(refresh.plans[q], refresh.parsed[q], disk'[q])
                           /\ GivesFile(refresh.plans[q], refresh.parsed[q], staged[q])
    BY DEF IInv, ParsesFit, Write
  <2>1. /\ q \in Paths /\ last[q] \in Seq(Line)
        /\ refresh.parsed[q].seen \in Nat /\ refresh.parsed[q].seen <= clock
    BY ParsedIsKnown DEF IInv, ParsesFit, Parses
  <2>2. q \notin loose' => \E n \in 0..Len(last'[q]) :
          Gives(refresh.plans[q], refresh.parsed[q], last'[q], n)
    <3> HAVE q \notin loose'
    <3>1. PICK n \in 0..Len(last[q]) :
            Gives(refresh.plans[q], refresh.parsed[q], last[q], n)
      BY <1>4 DEF IInv, ParsesFit
    <3>2. CASE q # p
      BY <1>3, <2>1, <3>1, <3>2
    <3>3. CASE q = p
      <4>1. IsPrefix(last[p], lines)
        BY <1>5, <2>1, <3>3, NoneIsNoValue
      <4>2. Len(last[p]) <= Len(lines) /\ \A j \in 1..Len(last[p]) : lines[j] = last[p][j]
        BY <2>1, <3>3, <4>1, IsPrefixIs
      <4>3. n \in 0..Len(lines) /\ \A j \in 1..n : lines[j] = last[p][j]
        BY <2>1, <3>3, <4>2
      <4>4. Gives(refresh.plans[p], refresh.parsed[p], lines, n)
        BY <3>1, <3>3, <4>3, GivesSame
      <4> QED
        BY <1>3, <3>3, <4>3, <4>4
    <3> QED
      BY <3>2, <3>3
  <2>3. refresh.plans[q].whole \/ q \notin loose' =>
          /\ GivesFile(refresh.plans[q], refresh.parsed[q], disk'[q])
          /\ GivesFile(refresh.plans[q], refresh.parsed[q], staged[q])
    <3> HAVE refresh.plans[q].whole \/ q \notin loose'
    <3>1. /\ GivesFile(refresh.plans[q], refresh.parsed[q], disk[q])
          /\ GivesFile(refresh.plans[q], refresh.parsed[q], staged[q])
      BY <1>4 DEF IInv, ParsesFit
    <3>2. GivesFile(refresh.plans[q], refresh.parsed[q], f)
      BY <1>1, <2>1 DEF GivesFile
    <3> QED
      BY <1>2, <2>1, <3>1, <3>2
  <2> QED
    BY <1>1, <2>1, <2>2, <2>3 DEF IInv, ParsesFit
<1>11. RowsFit'
  <2> SUFFICES ASSUME NEW q \in Paths, index.rows[q] # None, q \notin loose'
               PROVE  RowIs(index.rows[q], CallsOf(q), last'[q])
    BY DEF RowsFit, CallsOf, Write
  <2>1. RowIs(index.rows[q], CallsOf(q), last[q])
    BY <1>4 DEF IInv, RowsFit
  <2>2. last[q] \in Seq(Line) /\ index.rows[q] \in Rows
    BY DEF IInv, Types, LogsFit
  <2>3. CASE q # p
    BY <1>3, <2>1, <2>3
  <2>4. CASE q = p
    <3>1. IsPrefix(last[q], lines)
      BY <1>5, <2>2, <2>4, NoneIsNoValue
    <3>2. RowIs(index.rows[q], CallsOf(q), lines)
      BY <2>1, <2>2, <3>1, RowIsSame
    <3> QED
      BY <1>3, <2>4, <3>2
  <2> QED
    BY <2>3, <2>4
<1>12. StampsFit'
  <2> SUFFICES ASSUME NEW q \in Paths, index.rows[q] # None, q \notin loose', q \notin raced
               PROVE  StampIs(index.rows[q], disk'[q]) /\ StampIs(index.rows[q], staged[q])
    BY DEF StampsFit, Write
  <2>1. StampIs(index.rows[q], disk[q]) /\ StampIs(index.rows[q], staged[q])
    BY <1>4 DEF IInv, StampsFit
  <2>2. index.rows[q].stamp \in Nat /\ index.rows[q].stamp <= clock
    BY DEF IInv, Types, LogsFit, Rows
  <2>3. StampIs(index.rows[q], f)
    BY <1>1, <2>2 DEF StampIs
  <2> QED
    BY <1>2, <2>1, <2>3
<1>13. OneCallEach' /\ Tallied'
  BY DEF IInv, OneCallEach, Tallied, Write
<1>14. NoGhost'
  BY DEF IInv, NoGhost, CallsOf, Write
<1> QED
  BY <1>6, <1>7, <1>8, <1>9, <1>10, <1>11, <1>12, <1>13, <1>14 DEF IInv

LEMMA CodexWritesInv ==
  ASSUME IInv, NEW p \in Paths, CodexWrites(p)
  PROVE  IInv'
<1> DEFINE before == IF disk[p] = None THEN <<>> ELSE disk[p].lines
<1>1. before \in Seq(Line) /\ ~p.archived
  BY DEF IInv, Types, Files, CodexWrites
<1>2. clock + 1 \in Nat
  BY IndexAssumption DEF IInv, Types
<1> HIDE DEF before
<1>3. CASE \E k \in {"turn", "token"}, m \in Models \cup {None} :
             Write(p, Append(before, [kind |-> k, model |-> m, at |-> clock + 1]), FALSE)
  <2>1. PICK k \in {"turn", "token"}, m \in Models \cup {None} :
               Write(p, Append(before, [kind |-> k, model |-> m, at |-> clock + 1]), FALSE)
    BY <1>3
  <2>2. [kind |-> k, model |-> m, at |-> clock + 1] \in Line
    BY <1>2 DEF Line
  <2>3. Append(before, [kind |-> k, model |-> m, at |-> clock + 1]) \in Seq(Line)
    BY <1>1, <2>2
  <2> QED
    BY <1>1, <2>1, <2>3, WriteInv
<1>4. CASE Write(p, before, TRUE)
  BY <1>1, <1>4, WriteInv
<1> QED
  BY <1>3, <1>4 DEF CodexWrites, before

LEMMA RelayInv ==
  ASSUME IInv, NEW p \in Paths, NEW q \in Paths, Relay(p, q)
  PROVE  IInv'
<1>1. disk[p].lines \in Seq(Line) /\ ~q.archived /\ disk[p].tail \in BOOLEAN
      /\ Write(q, disk[p].lines, disk[p].tail)
  BY DEF IInv, Types, Files, Relay
<1> QED
  BY <1>1, WriteInv

\* A session is archived once, where nothing was before.
LEMMA ArchivesInv ==
  ASSUME IInv, NEW p \in Paths, CodexArchives(p)
  PROVE  IInv'
<1> DEFINE q == [p EXCEPT !.archived = TRUE]
           f == disk[p]
<1> USE DEF CodexArchives, logs, history
<1>1. q \in Paths /\ q.archived /\ ~p.archived /\ q # p /\ disk[p] # None /\ disk[q] = None
  BY DEF Paths
<1>2. f \in Files /\ f.lines \in Seq(Line) /\ last[p] = f.lines
  BY <1>1 DEF IInv, Types, LogsFit, Files
<1>3. \A r \in Paths : disk'[r] = IF r = p THEN None ELSE IF r = q THEN f ELSE disk[r]
  BY <1>1 DEF IInv, Types
<1>4. \A r \in Paths : last'[r] = IF r = q THEN f.lines ELSE last[r]
  BY DEF IInv, Types
<1>5. /\ last[q] = None /\ index.rows[q] = None /\ q \notin refresh.logs /\ q \notin gone
      /\ staged[q] = None
  BY <1>1 DEF IInv, LogsFit, JobFits
<1>6. Types'
  <2>1. disk' \in [Paths -> Files \cup {None}] /\ last' \in [Paths -> Seq(Line) \cup {None}]
    BY <1>1, <1>2 DEF IInv, Types
  <2>2. moves' \in 0..MaxMoves
    BY IndexAssumption DEF IInv, Types
  <2> QED
    BY <2>1, <2>2 DEF IInv, Types
<1>u. UNCHANGED <<names, clock, index, work, refresh, job, staged, gone, loose, raced>>
  OBVIOUS
<1> HIDE DEF q, f, CodexArchives
<1>7. LogsFit'
  <2> SUFFICES ASSUME NEW r \in Paths
               PROVE  /\ disk'[r] # None => last'[r] = disk'[r].lines /\ disk'[r].stamp <= clock
                      /\ staged[r] # None => last'[r] # None /\ staged[r].stamp <= clock
                      /\ staged[r] # None /\ disk'[r] # None =>
                           staged[r].stamp # disk'[r].stamp
                      /\ index.rows[r] # None =>
                           last'[r] # None /\ index.rows[r].stamp <= clock
                      /\ r \in refresh.logs => last'[r] # None
                      /\ r.archived /\ last'[r] # None => disk'[r] # None
                      /\ r \in gone => disk'[r] = None
    BY <1>u DEF LogsFit
  <2>1. f.lines # None /\ f # None /\ f.stamp <= clock
    BY <1>1, <1>2, NoneIsNoValue DEF IInv, LogsFit, f
  <2>2. CASE r = q
    BY <1>1, <1>3, <1>4, <1>5, <2>1, <2>2
  <2>3. CASE r = p
    BY <1>1, <1>3, <1>4, <2>3 DEF IInv, LogsFit
  <2>4. CASE r # q /\ r # p
    BY <1>3, <1>4, <2>4 DEF IInv, LogsFit
  <2> QED
    BY <2>2, <2>3, <2>4
<1>8. JobFits'
  BY <1>u DEF IInv, JobFits
<1>9. PlansFit'
  BY <1>u DEF IInv, PlansFit
<1>10. ParsesFit'
  <2> SUFFICES ASSUME refresh.stage = "parsed", NEW r \in DOMAIN refresh.parsed
               PROVE  /\ r \notin loose => \E n \in 0..Len(last'[r]) :
                           Gives(refresh.plans[r], refresh.parsed[r], last'[r], n)
                      /\ refresh.plans[r].whole \/ r \notin loose =>
                           GivesFile(refresh.plans[r], refresh.parsed[r], disk'[r])
    BY <1>u DEF IInv, ParsesFit
  <2>1. r \in Paths /\ r # q
    BY <1>5, ParsedIsKnown
  <2>2. GivesFile(refresh.plans[r], refresh.parsed[r], None)
    BY DEF GivesFile
  <2> QED
    BY <1>3, <1>4, <2>1, <2>2 DEF IInv, ParsesFit
<1>11. RowsFit'
  BY <1>4, <1>5, <1>u DEF IInv, RowsFit, CallsOf
<1>12. StampsFit'
  <2> SUFFICES ASSUME NEW r \in Paths, index.rows[r] # None, r \notin loose, r \notin raced
               PROVE  StampIs(index.rows[r], disk'[r]) /\ StampIs(index.rows[r], staged[r])
    BY <1>u DEF StampsFit
  <2>1. r # q
    BY <1>5
  <2>2. StampIs(index.rows[r], None)
    BY DEF StampIs
  <2> QED
    BY <1>3, <2>1, <2>2 DEF IInv, StampsFit
<1>13. OneCallEach' /\ Tallied'
  BY <1>u DEF IInv, OneCallEach, Tallied
<1>14. NoGhost'
  BY <1>u DEF IInv, NoGhost, CallsOf
<1> QED
  BY <1>6, <1>7, <1>8, <1>9, <1>10, <1>11, <1>12, <1>13, <1>14 DEF IInv

\* Names of threads are typed, and nothing else is said of them.
LEMMA NamesInv ==
  ASSUME IInv, names' \in [Homes -> Titles], moves' \in 0..MaxMoves,
         UNCHANGED <<disk, clock, index, work, refresh, job, staged, last, gone, loose, raced>>
  PROVE  IInv'
<1>1. Types' /\ LogsFit' /\ JobFits'
  BY DEF IInv, Types, LogsFit, JobFits
<1>2. PlansFit'
  BY DEF IInv, PlansFit
<1>3. ParsesFit'
  BY DEF IInv, ParsesFit
<1>4. RowsFit' /\ StampsFit'
  BY DEF IInv, RowsFit, StampsFit, CallsOf
<1>5. OneCallEach' /\ Tallied' /\ NoGhost'
  BY DEF IInv, OneCallEach, Tallied, NoGhost, CallsOf
<1> QED
  BY <1>1, <1>2, <1>3, <1>4, <1>5 DEF IInv

LEMMA CodexNamesInv ==
  ASSUME IInv, NEW h \in Homes, NEW s \in Sessions, NEW n \in Names, CodexNames(h, s, n)
  PROVE  IInv'
<1>1. names' \in [Homes -> Titles]
  BY DEF IInv, Types, Titles, CodexNames
<1>2. moves' \in 0..MaxMoves
  BY IndexAssumption DEF IInv, Types, CodexNames
<1> QED
  BY <1>1, <1>2, NamesInv DEF CodexNames, history
-----------------------------------------------------------------------------
(* A refresh, up to its transaction. *)

LEMMA NothingIsPartial ==
  ASSUME NEW V
  PROVE  <<>> \in Partial(V)
<1>1. <<>> \in [{} -> V]
  OBVIOUS
<1>2. {} \in SUBSET Paths
  OBVIOUS
<1> QED
  BY <1>1, <1>2 DEF Partial

LEMMA CalmIsTyped == Calm \in Refreshes /\ Calm.stage = "idle" /\ Calm.by = None /\ Calm.logs = {}
BY NothingIsPartial DEF Calm, Refreshes

LEMMA NoJobIsTyped ==
  /\ NoJob \in Jobs /\ NoJob.stage = "idle" /\ NoJob.paths = {} /\ NoJob.indexed = {}
BY DEF NoJob, Jobs, Settled

LEMMA EndedIsTyped ==
  ASSUME NEW r \in BOOLEAN
  PROVE  /\ Ended(r) \in Jobs /\ Ended(r).paths = {} /\ Ended(r).indexed = {}
         /\ Ended(r).stage = (IF r THEN "unrecovered" ELSE "idle")
         /\ Ended(r).stage \in Settled /\ Ended(r).stage \notin Deleting
         /\ Ended(r).stage \notin Unclear /\ Ended(r).stage \notin Complete
BY DEF Ended, NoJob, Jobs, Settled, Deleting, Unclear, Complete

LEMMA SessionIndexType ==
  ASSUME Types, NEW s \in Sessions
  PROVE  SessionIndex(s) \in Names \cup {None}
<1> DEFINE named == {i \in DOMAIN HomeOrder : names[HomeOrder[i]][s] # None}
<1>1. CASE named = {}
  BY <1>1 DEF SessionIndex
<1>2. CASE named # {}
  <2>1. named \subseteq 1..Len(HomeOrder) /\ Len(HomeOrder) \in Nat
    BY IndexAssumption
  <2>2. Max(named) \in 1..Len(HomeOrder)
    <3> HIDE DEF named
    <3> QED
      BY <1>2, <2>1, HasMax
  <2>3. HomeOrder[Max(named)] \in Homes
    BY <2>2, IndexAssumption
  <2>4. names[HomeOrder[Max(named)]][s] \in Names \cup {None}
    BY <2>3 DEF Types, Titles
  <2> QED
    BY <1>2, <2>4 DEF SessionIndex
<1> QED
  BY <1>1, <1>2

\* A refresh begins, on its own or for a deletion that is undone.
LEMMA ListInv ==
  ASSUME IInv, NEW a \in BOOLEAN, NEW by \in {None, "deletion"}, List(a, by),
         \/ by = None /\ job' = job
         \/ job.stage = "index" /\ job' = [job EXCEPT !.stage = "indexing"],
         UNCHANGED <<disk, names, clock, moves, index, staged, last, gone, loose, raced>>
  PROVE  IInv'
<1>1. /\ refresh'.stage = "listed" /\ refresh'.by = by
      /\ refresh'.logs = {p \in Paths : disk[p] # None /\ (a \/ ~p.archived)}
  BY DEF List, Calm
<1>2. refresh' \in Refreshes /\ refresh'.index \in Titles
  <2>1. [s \in Sessions |-> SessionIndex(s)] \in Titles
    BY SessionIndexType DEF IInv, Titles
  <2> QED
    BY <2>1, NothingIsPartial DEF List, Calm, Refreshes
<1>3. work' \in 0..MaxWork
  BY IndexAssumption DEF List, IInv, Types
<1>4. job' \in Jobs /\ job'.paths = job.paths /\ job'.indexed = job.indexed
  BY DEF IInv, Types, Jobs
<1>5. job' = job \/ (job.stage = "index" /\ job'.stage = "indexing")
  BY DEF IInv, Types, Jobs
<1>6. Types'
  BY <1>1, <1>2, <1>3, <1>4 DEF IInv, Types
<1>7. LogsFit'
  <2>1. \A p \in Paths : p \in refresh'.logs => last[p] # None
    <3> SUFFICES ASSUME NEW p \in Paths, disk[p] # None
                 PROVE  last[p] # None
      BY <1>1
    <3>1. disk[p].lines \in Seq(Line) /\ last[p] = disk[p].lines
      BY DEF IInv, Types, LogsFit, Files
    <3> QED
      BY <3>1, NoneIsNoValue
  <2> QED
    BY <2>1 DEF IInv, LogsFit
<1>8. JobFits'
  <2>1. by # None => job'.stage = "indexing"
    BY DEF IInv, Types, Jobs
  <2>2. CASE job' = job
    BY <1>1, <2>1, <2>2 DEF IInv, JobFits
  <2>3. CASE job.stage = "index" /\ job'.stage = "indexing"
    <3>1. \A p \in Paths : staged[p] = None
      BY <2>3 DEF IInv, JobFits, Deleting, Complete
    <3>2. /\ job'.stage \notin Settled /\ job'.stage \notin Deleting
          /\ job'.stage \notin Unclear /\ job'.stage \notin Complete
      BY <2>3 DEF Settled, Deleting, Unclear, Complete
    <3> QED
      BY <1>1, <1>4, <2>3, <3>1, <3>2 DEF IInv, JobFits
  <2> QED
    BY <1>5, <2>2, <2>3
<1>9. PlansFit' /\ ParsesFit'
  BY <1>1 DEF PlansFit, ParsesFit
<1>10. RowsFit' /\ StampsFit' /\ OneCallEach' /\ Tallied'
  BY DEF IInv, RowsFit, StampsFit, CallsOf, OneCallEach, Tallied
<1>11. NoGhost'
  <2> SUFFICES ASSUME NEW p \in gone, p \in job.paths => job'.stage = "cleared"
               PROVE  index.rows[p] = None /\ CallsOf(p) = {} /\ p \notin refresh'.logs
    BY <1>4 DEF NoGhost, CallsOf
  <2>1. p \in job.paths => job.stage = "cleared"
    BY <1>5
  <2>2. p \in Paths /\ disk[p] = None
    BY DEF IInv, Types, LogsFit
  <2> QED
    BY <1>1, <2>1, <2>2 DEF IInv, NoGhost
<1> QED
  BY <1>6, <1>7, <1>8, <1>9, <1>10, <1>11 DEF IInv

LEMMA RefreshListsInv ==
  ASSUME IInv, RefreshLists
  PROVE  IInv'
<1>1. PICK a \in BOOLEAN : List(a, None)
  BY DEF RefreshLists
<1> QED
  BY <1>1, ListInv DEF RefreshLists, logs, history

LEMMA DeleteIndexesInv ==
  ASSUME IInv, DeleteIndexes
  PROVE  IInv'
BY ListInv DEF DeleteIndexes, logs, history

\* What is left when a refresh ends without its transaction.
LEMMA FailsInv ==
  ASSUME IInv, Fails
  PROVE  IInv'
<1> USE DEF Fails, logs, history
<1>1. refresh' = Calm /\ refresh' \in Refreshes /\ refresh'.stage = "idle" /\ refresh'.by = None
      /\ refresh'.logs = {}
  BY CalmIsTyped
<1>2. \/ job' = job
      \/ /\ job.stage = "indexing" /\ job'.stage = "unrecovered" /\ job'.paths = {}
         /\ job' \in Jobs
  BY EndedIsTyped DEF IInv, JobFits
<1>3. Types'
  BY <1>1, <1>2 DEF IInv, Types
<1>4. LogsFit'
  BY <1>1 DEF IInv, LogsFit
<1>5. JobFits'
  <2>1. CASE job' = job
    BY <1>1, <2>1 DEF IInv, JobFits
  <2>2. CASE job.stage = "indexing" /\ job'.stage = "unrecovered" /\ job'.paths = {}
    <3>1. \A p \in Paths : staged[p] = None
      BY <2>2 DEF IInv, JobFits, Deleting, Complete
    <3>2. /\ job'.stage \in Settled /\ job'.stage \notin Deleting
          /\ job'.stage \notin Unclear /\ job'.stage \notin Complete
      BY <2>2 DEF Settled, Deleting, Unclear, Complete
    <3> QED
      BY <1>1, <2>2, <3>1, <3>2 DEF IInv, JobFits
  <2> QED
    BY <1>2, <2>1, <2>2
<1>6. PlansFit' /\ ParsesFit'
  BY <1>1 DEF PlansFit, ParsesFit
<1>7. RowsFit' /\ StampsFit' /\ OneCallEach' /\ Tallied'
  BY DEF IInv, RowsFit, StampsFit, CallsOf, OneCallEach, Tallied
<1>8. NoGhost'
  <2> SUFFICES ASSUME NEW p \in gone, p \in job'.paths => job'.stage = "cleared"
               PROVE  index.rows[p] = None /\ CallsOf(p) = {}
    BY <1>1 DEF NoGhost, CallsOf
  <2>1. p \in job.paths => job.stage = "cleared"
    BY <1>2 DEF IInv, JobFits
  <2> QED
    BY <2>1 DEF IInv, NoGhost
<1> QED
  BY <1>3, <1>4, <1>5, <1>6, <1>7, <1>8 DEF IInv

LEMMA PlanOfIs ==
  ASSUME IInv, NEW p \in Paths
  PROVE  PlanOf(p) \in Plans /\ Follows(PlanOf(p), index.rows[p])
<1>1. index.rows[p] # None => index.rows[p] \in Rows
  BY DEF IInv, Types
<1> QED
  BY <1>1 DEF PlanOf, Plans, Follows, Rows

LEMMA RefreshPlansInv ==
  ASSUME IInv, RefreshPlans
  PROVE  IInv'
<1>1. CASE Fails
  BY <1>1, FailsInv
<1>2. CASE ~ Fails
  <2> DEFINE Stale == {q \in refresh.logs : ~Current(q)}
             plans == [p \in Stale |-> PlanOf(p)]
  <2>1. /\ refresh.stage = "listed" /\ \A p \in refresh.logs : disk[p] # None
        /\ refresh' = [refresh EXCEPT !.stage = "planned", !.plans = plans]
        /\ UNCHANGED <<disk, names, clock, moves, last, index, work, job, staged,
                       gone, loose, raced>>
    BY <1>2 DEF RefreshPlans, logs, history
  <2>2. refresh \in Refreshes /\ refresh.logs \subseteq Paths
    BY DEF IInv, Types, Refreshes
  <2>3. Stale \subseteq Paths
    BY <2>2
  <2>4. plans \in [Stale -> Plans]
    BY <2>3, PlanOfIs
  <2>5. plans \in Partial(Plans)
    BY <2>3, <2>4 DEF Partial
  <2>6. \A p \in refresh.logs \ Stale : index.rows[p] # None
    BY DEF Current
  <2>7. \A p \in Stale : Follows(plans[p], index.rows[p])
    BY <2>3, PlanOfIs
  <2>8. DOMAIN plans = Stale /\ Stale \subseteq refresh.logs
    OBVIOUS
  <2> HIDE DEF plans, Stale
  <2>9. /\ refresh' \in Refreshes /\ refresh'.stage = "planned" /\ refresh'.plans = plans
        /\ refresh'.logs = refresh.logs /\ refresh'.by = refresh.by
        /\ refresh'.index = refresh.index
    BY <2>1, <2>2, <2>5 DEF Refreshes
  <2>10. Types'
    BY <2>1, <2>9 DEF IInv, Types
  <2>11. LogsFit' /\ JobFits'
    BY <2>1, <2>9 DEF IInv, LogsFit, JobFits
  <2>12. PlansFit'
    BY <2>1, <2>6, <2>7, <2>8, <2>9 DEF PlansFit
  <2>13. ParsesFit'
    BY <2>9 DEF ParsesFit
  <2>14. RowsFit' /\ StampsFit' /\ OneCallEach' /\ Tallied'
    BY <2>1 DEF IInv, RowsFit, StampsFit, CallsOf, OneCallEach, Tallied
  <2>15. NoGhost'
    BY <2>1, <2>9 DEF IInv, NoGhost, CallsOf
  <2> QED
    BY <2>10, <2>11, <2>12, <2>13, <2>14, <2>15 DEF IInv
<1> QED
  BY <1>1, <1>2

LEMMA PlannedIsKnown ==
  ASSUME IInv, refresh.stage \in {"planned", "parsed"}, NEW p \in DOMAIN refresh.plans
  PROVE  /\ p \in Paths /\ p \in refresh.logs
         /\ refresh.plans[p] \in Plans /\ Follows(refresh.plans[p], index.rows[p])
         /\ index.rows[p] # None => index.rows[p] \in Rows
<1>1. refresh \in Refreshes
  BY DEF IInv, Types
<1>2. PICK S \in SUBSET Paths : refresh.plans \in [S -> Plans]
  BY <1>1 DEF Refreshes, Partial
<1> QED
  BY <1>2 DEF IInv, PlansFit, Types

\* A parse that goes on from what the index has, or begins anew, gives what
\* the file says.
LEMMA ParseGives ==
  ASSUME IInv, refresh.stage = "planned", NEW p \in DOMAIN refresh.plans, disk[p] # None,
         refresh.plans[p].whole \/ p \notin loose
  PROVE  Gives(refresh.plans[p], ParseOf(p, refresh.plans[p]), disk[p].lines,
               Len(disk[p].lines))
<1> DEFINE lines == disk[p].lines
           plan  == refresh.plans[p]
           n     == Len(lines)
<1>1. p \in Paths /\ plan \in Plans /\ Follows(plan, index.rows[p])
  BY PlannedIsKnown
<1>2. lines \in Seq(Line) /\ last[p] = lines /\ n \in Nat
  BY <1>1 DEF IInv, Types, Files, LogsFit
<1> HIDE DEF lines, n, plan
<1>3. plan.from \in Nat /\ plan.from <= n /\ plan.model = ModelAt(lines, 0, None, plan.from)
  <2>1. CASE plan.whole
    BY <1>1, <1>2, <2>1, ModelAtStart DEF Follows
  <2>2. CASE ~plan.whole
    <3>1. /\ index.rows[p] # None /\ plan.from = index.rows[p].line
          /\ plan.model = index.rows[p].model
      BY <1>1, <2>2 DEF Follows
    <3>2. RowIs(index.rows[p], CallsOf(p), lines)
      BY <1>1, <1>2, <2>2, <3>1 DEF IInv, RowsFit, plan
    <3> QED
      BY <1>1, <3>1, <3>2 DEF RowIs, Plans, n
  <2> QED
    BY <2>1, <2>2
<1>4. Max({plan.from, n}) = n
  BY <1>2, <1>3, MaxOfTwo
<1>5. ModelAt(lines, plan.from, plan.model, n) = ModelAt(lines, 0, None, n)
  BY <1>2, <1>3, ModelAtOnward
<1>6. Said(Parsed(p, lines, plan.from, plan.model, refresh.index)) =
        {s \in SaidBy(lines, n) : s.line > plan.from}
  BY <1>2, <1>3, ParsedOnward DEF n
<1>7. ParseOf(p, plan) =
        [calls |-> Parsed(p, lines, plan.from, plan.model, refresh.index),
         line  |-> n,
         model |-> ModelAt(lines, 0, None, n),
         seen  |-> disk[p].stamp]
  BY <1>4, <1>5 DEF ParseOf, lines, n
<1>8. Gives(plan, ParseOf(p, plan), lines, n)
  BY <1>3, <1>6, <1>7 DEF Gives
<1> QED
  BY <1>8 DEF plan, lines, n

LEMMA ParseOfType ==
  ASSUME IInv, refresh.stage = "planned", NEW p \in DOMAIN refresh.plans, disk[p] # None
  PROVE  /\ ParseOf(p, refresh.plans[p]) \in Parses
         /\ ParseOf(p, refresh.plans[p]).seen = disk[p].stamp
         /\ OneCallALine(p, ParseOf(p, refresh.plans[p]).calls)
<1> DEFINE lines == disk[p].lines
           plan  == refresh.plans[p]
<1>1. p \in Paths /\ plan.from \in Nat /\ plan.model \in Models \cup {None}
  BY PlannedIsKnown DEF Plans
<1>2. lines \in Seq(Line) /\ disk[p].stamp \in Nat /\ Len(lines) \in Nat
  BY <1>1 DEF IInv, Types, Files
<1>3. refresh.index \in Titles
  BY DEF IInv, Types
<1> HIDE DEF lines, plan
<1>4. /\ Parsed(p, lines, plan.from, plan.model, refresh.index) \subseteq Calls
      /\ OneCallALine(p, Parsed(p, lines, plan.from, plan.model, refresh.index))
  BY <1>1, <1>2, <1>3, ParsedType DEF OneCallALine
<1>5. Max({plan.from, Len(lines)}) \in Nat
  BY <1>1, <1>2, MaxOfTwo
<1>6. ModelAt(lines, plan.from, plan.model, Len(lines)) \in Models \cup {None}
  BY <1>1, <1>2, ModelAtType
<1>7. ParseOf(p, plan) =
        [calls |-> Parsed(p, lines, plan.from, plan.model, refresh.index),
         line  |-> Max({plan.from, Len(lines)}),
         model |-> ModelAt(lines, plan.from, plan.model, Len(lines)),
         seen  |-> disk[p].stamp]
  BY DEF ParseOf, lines
<1> QED
  BY <1>2, <1>4, <1>5, <1>6, <1>7 DEF Parses, plan

LEMMA RefreshParsesInv ==
  ASSUME IInv, RefreshParses
  PROVE  IInv'
<1>1. CASE Fails
  BY <1>1, FailsInv
<1>2. CASE ~ Fails
  <2> DEFINE Planned == DOMAIN refresh.plans
             parsed == [p \in Planned |-> ParseOf(p, refresh.plans[p])]
  <2>1. /\ refresh.stage = "planned" /\ \A p \in Planned : disk[p] # None
        /\ refresh' = [refresh EXCEPT !.stage = "parsed", !.parsed = parsed]
        /\ UNCHANGED <<disk, names, clock, moves, last, index, work, job, staged,
                       gone, loose, raced>>
    BY <1>2 DEF RefreshParses, logs, history
  <2>2. refresh \in Refreshes
    BY DEF IInv, Types
  <2>3. Planned \subseteq Paths
    BY <2>1, PlannedIsKnown
  <2>4. parsed \in [Planned -> Parses]
    BY <2>1, ParseOfType
  <2>5. parsed \in Partial(Parses)
    BY <2>3, <2>4 DEF Partial
  <2>6. DOMAIN parsed = Planned /\ \A p \in Planned : parsed[p] = ParseOf(p, refresh.plans[p])
    OBVIOUS
  <2> HIDE DEF parsed
  <2>7. /\ refresh' \in Refreshes /\ refresh'.stage = "parsed" /\ refresh'.plans = refresh.plans
        /\ refresh'.logs = refresh.logs /\ refresh'.by = refresh.by
        /\ refresh'.index = refresh.index /\ refresh'.parsed = parsed
    BY <2>1, <2>2, <2>5 DEF Refreshes
  <2>8. Types'
    BY <2>1, <2>7 DEF IInv, Types
  <2>9. LogsFit' /\ JobFits'
    BY <2>1, <2>7 DEF IInv, LogsFit, JobFits
  <2>10. PlansFit'
    BY <2>1, <2>7 DEF IInv, PlansFit
  <2>11. ParsesFit'
    <3> SUFFICES ASSUME NEW p \in Planned
                 PROVE  /\ parsed[p].seen <= clock
                        /\ OneCallALine(p, parsed[p].calls)
                        /\ p \notin loose => \E n \in 0..Len(last[p]) :
                             Gives(refresh.plans[p], parsed[p], last[p], n)
                        /\ refresh.plans[p].whole \/ p \notin loose =>
                             /\ GivesFile(refresh.plans[p], parsed[p], disk[p])
                             /\ GivesFile(refresh.plans[p], parsed[p], staged[p])
      BY <2>1, <2>6, <2>7 DEF ParsesFit
    <3> DEFINE parse == ParseOf(p, refresh.plans[p])
               n == Len(disk[p].lines)
    <3>1. parsed[p] = parse /\ disk[p] # None /\ p \in Paths
      BY <2>1, <2>3, <2>6
    <3>2. parse.seen = disk[p].stamp /\ OneCallALine(p, parse.calls)
      BY <2>1, <3>1, ParseOfType
    <3>3. /\ last[p] = disk[p].lines /\ disk[p].stamp <= clock
          /\ staged[p] # None => staged[p].stamp # disk[p].stamp
      BY <3>1 DEF IInv, LogsFit
    <3>4. disk[p].lines \in Seq(Line)
      BY <3>1 DEF IInv, Types, Files
    <3>5. n \in 0..n
      BY <3>4
    <3>6. refresh.plans[p].whole \/ p \notin loose =>
            Gives(refresh.plans[p], parse, disk[p].lines, n)
      BY <2>1, <3>1, ParseGives
    <3> HIDE DEF parse
    <3>7. refresh.plans[p].whole \/ p \notin loose =>
            GivesFile(refresh.plans[p], parse, disk[p])
      BY <3>6 DEF GivesFile
    <3>8. GivesFile(refresh.plans[p], parse, staged[p])
      BY <3>2, <3>3 DEF GivesFile
    <3> QED
      BY <3>1, <3>2, <3>3, <3>5, <3>6, <3>7, <3>8
  <2>12. RowsFit' /\ StampsFit' /\ OneCallEach' /\ Tallied'
    BY <2>1 DEF IInv, RowsFit, StampsFit, CallsOf, OneCallEach, Tallied
  <2>13. NoGhost'
    BY <2>1, <2>7 DEF IInv, NoGhost, CallsOf
  <2> QED
    BY <2>8, <2>9, <2>10, <2>11, <2>12, <2>13 DEF IInv
<1> QED
  BY <1>1, <1>2
-----------------------------------------------------------------------------
(* The transaction of a refresh. *)

Settle(c) == IF c \in Misplaced THEN Placed(c) ELSE c

LEMMA SettleIs ==
  ASSUME NEW c \in Calls
  PROVE  /\ Settle(c) \in Calls /\ Settle(c).path = c.path /\ Settle(c).line = c.line
         /\ Settle(c).at = c.at /\ Settle(c).model = c.model /\ Id(Settle(c)) = Id(c)
BY DEF Settle, Placed, Calls, Paths, Id

\* Which calls there are after the transaction.
LEMMA AppliedIs ==
  ASSUME NEW e
  PROVE  e \in Applied <=>
           \/ e \in Fresh
           \/ \E c \in index.calls : /\ e = Settle(c) /\ e.path \notin Replaced
                                     /\ Id(e) \notin {Id(d) : d \in Fresh}
<1> DEFINE Moved == (index.calls \ Misplaced) \cup {Placed(c) : c \in Misplaced}
<1>1. Misplaced \subseteq index.calls
  BY DEF Misplaced
<1>2. e \in Moved <=> \E c \in index.calls : e = Settle(c)
  BY <1>1 DEF Settle
<1>3. Applied = {c \in {d \in Moved : d.path \notin Replaced} :
                   Id(c) \notin {Id(d) : d \in Fresh}} \cup Fresh
  BY DEF Applied
<1> HIDE DEF Moved
<1> QED
  BY <1>2, <1>3

LEMMA FreshIs ==
  ASSUME IInv, refresh.stage = "parsed"
  PROVE  /\ \A c \in Fresh : /\ c \in Calls /\ c.path \in DOMAIN refresh.parsed
                             /\ c \in refresh.parsed[c.path].calls
         /\ \A p \in DOMAIN refresh.parsed : refresh.parsed[p].calls \subseteq Fresh
         /\ \A c, d \in Fresh : Id(c) = Id(d) => c = d
<1>1. \A p \in DOMAIN refresh.parsed :
        refresh.parsed[p].calls \subseteq Calls /\ OneCallALine(p, refresh.parsed[p].calls)
  BY ParsedIsKnown DEF IInv, ParsesFit, Parses
<1>2. \A c : c \in Fresh <=> \E p \in DOMAIN refresh.parsed : c \in refresh.parsed[p].calls
  BY DEF Fresh
<1>3. \A c \in Fresh : /\ c \in Calls /\ c.path \in DOMAIN refresh.parsed
                       /\ c \in refresh.parsed[c.path].calls
  BY <1>1, <1>2 DEF OneCallALine
<1>4. \A c, d \in Fresh : Id(c) = Id(d) => c = d
  <2> TAKE c, d \in Fresh
  <2> HAVE Id(c) = Id(d)
  <2>1. c.path = d.path /\ c.line = d.line
    BY DEF Id
  <2> QED
    BY <1>1, <1>3, <2>1 DEF OneCallALine
<1> QED
  BY <1>2, <1>3, <1>4

LEMMA AppliedUnique ==
  ASSUME IInv, refresh.stage = "parsed"
  PROVE  /\ Applied \subseteq Calls
         /\ \A c, d \in Applied : Id(c) = Id(d) => c = d
<1>1. index.calls \subseteq Calls /\ \A c, d \in index.calls : Id(c) = Id(d) => c = d
  BY DEF IInv, Types, OneCallEach
<1>2. Applied \subseteq Calls
  BY <1>1, AppliedIs, FreshIs, SettleIs
<1>3. ASSUME NEW c \in Applied, NEW d \in Applied, Id(c) = Id(d)
      PROVE  c = d
  <2>1. CASE c \in Fresh /\ d \in Fresh
    BY <1>3, <2>1, FreshIs
  <2>2. CASE c \in Fresh /\ d \notin Fresh
    BY <1>3, <2>2, AppliedIs
  <2>3. CASE c \notin Fresh /\ d \in Fresh
    BY <1>3, <2>3, AppliedIs
  <2>4. CASE c \notin Fresh /\ d \notin Fresh
    <3>1. PICK c0 \in index.calls : c = Settle(c0)
      BY <2>4, AppliedIs
    <3>2. PICK d0 \in index.calls : d = Settle(d0)
      BY <2>4, AppliedIs
    <3>3. Id(c0) = Id(c) /\ Id(d0) = Id(d)
      BY <1>1, <3>1, <3>2, SettleIs
    <3> QED
      BY <1>1, <1>3, <3>1, <3>2, <3>3
  <2> QED
    BY <2>1, <2>2, <2>3, <2>4
<1> QED
  BY <1>2, <1>3

\* A thread, or a model, in which a call came, went or moved is made again.
LEMMA UntouchedThread ==
  ASSUME NEW c, ThreadOf(c) \notin TouchedThreads
  PROVE  c \in Applied <=> c \in index.calls
<1>1. /\ c \in index.calls => c \notin Changed(index.calls) /\ c \notin Misplaced
      /\ c \in Applied => c \notin Changed(Applied)
      /\ \A d \in Misplaced : c # Placed(d)
  BY DEF TouchedThreads, Changed
<1>2. ASSUME c \in index.calls
      PROVE  c \in Applied
  <2>1. c = Settle(c)
    BY <1>1, <1>2 DEF Settle
  <2>2. c.path \notin Replaced /\ Id(c) \notin {Id(d) : d \in Fresh}
    BY <1>1, <1>2 DEF Changed
  <2> QED
    BY <1>2, <2>1, <2>2, AppliedIs
<1>3. ASSUME c \in Applied
      PROVE  c \in index.calls
  <2>1. c \notin Fresh
    BY <1>1, <1>3 DEF Changed
  <2>2. PICK d \in index.calls : c = Settle(d)
    BY <1>3, <2>1, AppliedIs
  <2> QED
    BY <1>1, <2>2 DEF Settle
<1> QED
  BY <1>2, <1>3

LEMMA UntouchedModel ==
  ASSUME IInv, NEW c, c.model \notin TouchedModels
  PROVE  c \in Applied <=> c \in index.calls
<1>1. /\ c \in index.calls => c \notin Changed(index.calls) /\ c \notin Misplaced
      /\ c \in Applied => c \notin Changed(Applied)
      /\ \A d \in Misplaced : c.model # d.model
  BY DEF TouchedModels, Changed
<1>2. ASSUME c \in index.calls
      PROVE  c \in Applied
  <2>1. c = Settle(c)
    BY <1>1, <1>2 DEF Settle
  <2>2. c.path \notin Replaced /\ Id(c) \notin {Id(d) : d \in Fresh}
    BY <1>1, <1>2 DEF Changed
  <2> QED
    BY <1>2, <2>1, <2>2, AppliedIs
<1>3. ASSUME c \in Applied
      PROVE  c \in index.calls
  <2>1. c \notin Fresh
    BY <1>1, <1>3 DEF Changed
  <2>2. PICK d \in index.calls : c = Settle(d)
    BY <1>3, <2>1, AppliedIs
  <2>3. d \in Calls
    BY DEF IInv, Types
  <2>4. c.model = d.model
    BY <2>2, <2>3, SettleIs
  <2> QED
    BY <1>1, <2>2, <2>4 DEF Settle
<1> QED
  BY <1>2, <1>3

\* What the calls of one log say after the transaction.
AppliedTo(p) == {c \in Applied : c.path = p}

LEMMA SaidOfAll ==
  ASSUME NEW A, NEW B
  PROVE  Said(A \cup B) = Said(A) \cup Said(B)
BY DEF Said

LEMMA SaidHas ==
  ASSUME NEW S, NEW c \in S
  PROVE  \E s \in Said(S) : s.line = c.line
<1>1. [line |-> c.line, at |-> c.at, model |-> c.model] \in Said(S)
  BY DEF Said
<1> QED
  BY <1>1

LEMMA SaidOfSettled ==
  ASSUME NEW S \in SUBSET Calls
  PROVE  Said({Settle(c) : c \in S}) = Said(S)
<1>1. \A c \in S : /\ Settle(c).line = c.line /\ Settle(c).at = c.at
                   /\ Settle(c).model = c.model
  BY SettleIs
<1>2. Said({Settle(c) : c \in S}) =
        {[line |-> Settle(c).line, at |-> Settle(c).at, model |-> Settle(c).model] : c \in S}
  BY DEF Said
<1> QED
  BY <1>1, <1>2 DEF Said

LEMMA AppliedToOther ==
  ASSUME IInv, refresh.stage = "parsed", NEW p \in Paths, p \notin DOMAIN refresh.parsed
  PROVE  AppliedTo(p) = {Settle(c) : c \in CallsOf(p)}
<1>1. DOMAIN refresh.parsed = DOMAIN refresh.plans
  BY DEF IInv, ParsesFit
<1>2. p \notin Replaced
  BY <1>1 DEF Replaced
<1>3. \A c \in Fresh : c.path # p
  BY FreshIs
<1>4. \A c \in index.calls : Settle(c).path = c.path
  BY SettleIs DEF IInv, Types
<1>5. \A c \in index.calls : c.path = p => Id(Settle(c)) \notin {Id(d) : d \in Fresh}
  BY <1>3, <1>4 DEF Id
<1>6. \A e : e \in AppliedTo(p) <=> \E c \in CallsOf(p) : e = Settle(c)
  BY <1>2, <1>3, <1>4, <1>5, AppliedIs DEF AppliedTo, CallsOf
<1> QED
  BY <1>6

LEMMA AppliedToReplaced ==
  ASSUME IInv, refresh.stage = "parsed", NEW p \in DOMAIN refresh.parsed, refresh.plans[p].whole
  PROVE  AppliedTo(p) = refresh.parsed[p].calls
<1>1. DOMAIN refresh.parsed = DOMAIN refresh.plans /\ OneCallALine(p, refresh.parsed[p].calls)
  BY DEF IInv, ParsesFit
<1>2. p \in Replaced
  BY <1>1 DEF Replaced
<1>3. \A e : e \in AppliedTo(p) <=> e \in Fresh /\ e.path = p
  BY <1>2, AppliedIs DEF AppliedTo
<1>4. \A e : e \in Fresh /\ e.path = p <=> e \in refresh.parsed[p].calls
  BY <1>1, FreshIs DEF OneCallALine
<1> QED
  BY <1>3, <1>4

LEMMA AppliedToGrown ==
  ASSUME IInv, refresh.stage = "parsed", NEW p \in DOMAIN refresh.parsed,
         ~refresh.plans[p].whole,
         \A c \in CallsOf(p), d \in refresh.parsed[p].calls : c.line # d.line
  PROVE  AppliedTo(p) = {Settle(c) : c \in CallsOf(p)} \cup refresh.parsed[p].calls
<1>1. DOMAIN refresh.parsed = DOMAIN refresh.plans /\ OneCallALine(p, refresh.parsed[p].calls)
  BY DEF IInv, ParsesFit
<1>2. p \notin Replaced
  BY <1>1 DEF Replaced
<1>3. \A c \in index.calls : Settle(c).path = c.path /\ Settle(c).line = c.line
  BY SettleIs DEF IInv, Types
<1>4. \A e : e \in Fresh /\ e.path = p <=> e \in refresh.parsed[p].calls
  BY <1>1, FreshIs DEF OneCallALine
<1>5. ASSUME NEW c \in CallsOf(p), NEW d \in Fresh
      PROVE  Id(Settle(c)) # Id(d)
  <2>1. Settle(c).path = p /\ Settle(c).line = c.line
    BY <1>3 DEF CallsOf
  <2>2. d.path = p => d.line # c.line
    BY <1>4
  <2> QED
    BY <2>1, <2>2 DEF Id
<1>6. \A e : e \in AppliedTo(p) <=>
        e \in refresh.parsed[p].calls \/ \E c \in CallsOf(p) : e = Settle(c)
  BY <1>2, <1>3, <1>4, <1>5, AppliedIs DEF AppliedTo, CallsOf
<1> QED
  BY <1>6

LEMMA SizeType ==
  ASSUME NEW f \in Files
  PROVE  Size(f) \in Nat
<1>1. Len(f.lines) \in Nat
  BY DEF Files
<1> DEFINE n == Len(f.lines)
<1>2. 2 * n \in Nat /\ 2 * n + 1 \in Nat /\ 2 * n + 0 \in Nat
  BY <1>1
<1>3. Size(f) = 2 * n + 1 \/ Size(f) = 2 * n + 0
  BY DEF Size
<1> HIDE DEF n
<1> QED
  BY <1>2, <1>3

LEMMA RowOfIs ==
  ASSUME IInv, refresh.stage = "parsed", NEW p \in DOMAIN refresh.parsed, disk[p] # None
  PROVE  /\ RowOf(p) \in Rows /\ RowOf(p) # None
         /\ RowOf(p).stamp = disk[p].stamp /\ RowOf(p).line = refresh.parsed[p].line
         /\ RowOf(p).model = refresh.parsed[p].model
<1>1. p \in Paths /\ refresh.parsed[p] \in Parses
  BY ParsedIsKnown
<1>2. disk[p] \in Files
  BY <1>1 DEF IInv, Types
<1>3. Size(disk[p]) \in Nat
  BY <1>2, SizeType
<1>4. RowOf(p) \in Rows
  BY <1>1, <1>2, <1>3 DEF RowOf, Rows, Parses, Files, Paths
<1> QED
  BY <1>4, NoneIsNoValue DEF RowOf

\* What a parse gives makes the row and the calls of its log right.
LEMMA RowIsAfterParse ==
  ASSUME IInv, refresh.stage = "parsed", NEW p \in DOMAIN refresh.parsed, disk[p] # None,
         NEW n \in 0..Len(last[p]),
         Gives(refresh.plans[p], refresh.parsed[p], last[p], n),
         refresh.plans[p].whole \/ p \notin loose
  PROVE  RowIs(RowOf(p), AppliedTo(p), last[p])
<1> DEFINE plan == refresh.plans[p]
           parse == refresh.parsed[p]
           row == index.rows[p]
<1>1. /\ p \in Paths /\ plan \in Plans /\ parse \in Parses /\ last[p] \in Seq(Line)
      /\ Follows(plan, row)
  BY ParsedIsKnown, PlannedIsKnown DEF IInv, ParsesFit
<1>2. /\ RowOf(p).line = n /\ RowOf(p).model = ModelAt(last[p], 0, None, n)
      /\ plan.from <= n /\ n \in Nat /\ n <= Len(last[p]) /\ plan.from \in Nat
      /\ Said(parse.calls) = {s \in SaidBy(last[p], n) : s.line > plan.from}
  BY <1>1, RowOfIs DEF Gives, Plans
<1>3. Said(AppliedTo(p)) = SaidBy(last[p], n)
  <2>1. CASE plan.whole
    <3>1. Said(AppliedTo(p)) = {s \in SaidBy(last[p], n) : s.line > 0}
      BY <1>1, <1>2, <2>1, AppliedToReplaced DEF Follows
    <3>2. \A s \in SaidBy(last[p], n) : s.line > 0
      BY DEF SaidBy
    <3> QED
      BY <3>1, <3>2
  <2>2. CASE ~plan.whole
    <3>1. row # None /\ plan.from = row.line /\ p \notin loose
      BY <1>1, <2>2 DEF Follows
    <3>2. Said(CallsOf(p)) = SaidBy(last[p], plan.from)
      BY <1>1, <3>1 DEF IInv, RowsFit, RowIs
    <3>3. SaidBy(last[p], plan.from) = {s \in SaidBy(last[p], n) : ~(s.line > plan.from)}
      BY <1>2, SaidUpTo
    <3>4. \A c \in CallsOf(p), d \in parse.calls : c.line # d.line
      <4> TAKE c \in CallsOf(p), d \in parse.calls
      <4>1. PICK s \in SaidBy(last[p], n) : ~(s.line > plan.from) /\ s.line = c.line
        <5>1. PICK s \in Said(CallsOf(p)) : s.line = c.line
          BY SaidHas
        <5> QED
          BY <3>2, <3>3, <5>1
      <4>2. PICK t \in SaidBy(last[p], n) : t.line > plan.from /\ t.line = d.line
        <5>1. PICK t \in Said(parse.calls) : t.line = d.line
          BY SaidHas
        <5> QED
          BY <1>2, <5>1
      <4> QED
        BY <4>1, <4>2
    <3>5. AppliedTo(p) = {Settle(c) : c \in CallsOf(p)} \cup parse.calls
      BY <2>2, <3>4, AppliedToGrown
    <3>6. Said({Settle(c) : c \in CallsOf(p)}) = Said(CallsOf(p))
      BY SaidOfSettled DEF CallsOf, IInv, Types
    <3>7. Said(AppliedTo(p)) = SaidBy(last[p], plan.from) \cup Said(parse.calls)
      BY <3>2, <3>5, <3>6, SaidOfAll
    <3> QED
      BY <1>2, <3>3, <3>7
  <2> QED
    BY <2>1, <2>2
<1> QED
  BY <1>2, <1>3 DEF RowIs

LEMMA RefreshAppliesInv ==
  ASSUME IInv, RefreshApplies
  PROVE  IInv'
<1>1. CASE Fails
  BY <1>1, FailsInv
<1>2. CASE ~ Fails
  <2> DEFINE Read == DOMAIN refresh.parsed
             late == {p \in Read : refresh.parsed[p].seen # disk[p].stamp}
             row(p) == IF p \in Read THEN RowOf(p)
                       ELSE IF p \in refresh.logs /\ index.rows[p] # None
                       THEN [index.rows[p] EXCEPT !.home = p.home]
                       ELSE index.rows[p]
  <2>1. /\ refresh.stage = "parsed" /\ \A p \in Read : disk[p] # None
        /\ index'.rows = [p \in Paths |-> row(p)]
        /\ index'.calls = Applied
        /\ index'.threads = RebuiltThreads(index.threads, Applied, TouchedThreads)
        /\ index'.chains = RebuiltChains(index.chains, Applied, TouchedThreads)
        /\ index'.facts = RebuiltFacts(index.facts, Applied, TouchedModels)
        /\ refresh' = Calm
        /\ job' = IF refresh.by = None THEN job ELSE Ended(job.failed)
        /\ raced' = (raced \ Read) \cup late
        /\ loose' = loose \ (Replaced \ late)
        /\ UNCHANGED <<disk, names, clock, moves, last, work, staged, gone>>
    BY <1>2 DEF RefreshApplies, logs
  <2>2. /\ refresh' \in Refreshes /\ refresh'.stage = "idle" /\ refresh'.by = None
        /\ refresh'.logs = {}
    BY <2>1, CalmIsTyped
  <2>3. \/ job' = job
        \/ /\ job.stage = "indexing" /\ job'.stage \in Settled /\ job'.paths = {}
           /\ job'.indexed = {} /\ job' \in Jobs
    <3>1. job.failed \in BOOLEAN
      BY DEF IInv, Types, Jobs
    <3> QED
      BY <2>1, <3>1, EndedIsTyped DEF IInv, JobFits
  <2>4. \A p \in Read : p \in Paths
    BY <2>1, ParsedIsKnown
  <2>5. \A p \in Paths :
          /\ index'.rows[p] = row(p)
          /\ index.rows[p] # None => index.rows[p] \in Rows
          /\ row(p) # None => row(p) \in Rows
          /\ p \notin Read /\ row(p) # None =>
               /\ index.rows[p] # None /\ row(p).line = index.rows[p].line
               /\ row(p).stamp = index.rows[p].stamp /\ row(p).model = index.rows[p].model
          /\ index.rows[p] # None => row(p) # None
    <3> TAKE p \in Paths
    <3>1. index'.rows[p] = row(p)
      BY <2>1
    <3>2. index.rows[p] # None => index.rows[p] \in Rows
      BY DEF IInv, Types
    <3>3. CASE p \in Read
      BY <2>1, <3>1, <3>2, <3>3, RowOfIs
    <3>4. CASE p \notin Read /\ p \in refresh.logs /\ index.rows[p] # None
      <4>1. row(p) = [index.rows[p] EXCEPT !.home = p.home]
        BY <3>4
      <4>2. p.home \in Homes
        BY DEF Paths
      <4> HIDE DEF row
      <4>3. /\ row(p) \in Rows /\ row(p).line = index.rows[p].line
            /\ row(p).stamp = index.rows[p].stamp /\ row(p).model = index.rows[p].model
        BY <3>2, <3>4, <4>1, <4>2 DEF Rows
      <4> QED
        BY <3>1, <3>2, <3>4, <4>3, NoneIsNoValue
    <3>5. CASE p \notin Read /\ ~(p \in refresh.logs /\ index.rows[p] # None)
      BY <3>1, <3>2, <3>5
    <3> QED
      BY <3>3, <3>4, <3>5
  <2> HIDE DEF row
  <2>6. Types'
    <3>1. index'.rows \in [Paths -> Rows \cup {None}]
      BY <2>1, <2>5
    <3>2. index'.calls \subseteq Calls
      BY <2>1, AppliedUnique
    <3>3. raced' \subseteq Paths /\ loose' \subseteq Paths
      BY <2>1, <2>4 DEF IInv, Types
    <3>4. job' \in Jobs
      BY <2>3 DEF IInv, Types
    <3> QED
      BY <2>1, <2>2, <3>1, <3>2, <3>3, <3>4 DEF IInv, Types
  <2>7. \A p \in Paths : p \in Read =>
          /\ row(p) # None /\ last[p] # None /\ row(p).stamp = disk[p].stamp
          /\ disk[p].stamp <= clock
    <3> TAKE p \in Paths
    <3> HAVE p \in Read
    <3>1. p \in refresh.logs /\ disk[p] # None
      BY <2>1, ParsedIsKnown
    <3> QED
      BY <2>1, <3>1, RowOfIs DEF IInv, LogsFit, row
  <2>8. LogsFit'
    <3>1. \A p \in Paths : index'.rows[p] # None =>
            last[p] # None /\ index'.rows[p].stamp <= clock
      BY <2>5, <2>7 DEF IInv, LogsFit
    <3> QED
      BY <2>1, <2>2, <3>1 DEF IInv, LogsFit
  <2>9. JobFits'
    <3>1. CASE job' = job
      <4>1. job.stage \in Unclear =>
              \A p \in job.indexed : index'.rows[p] # None
        <5>1. job.indexed \subseteq Paths
          BY DEF IInv, Types, Jobs
        <5> QED
          BY <2>5, <5>1 DEF IInv, JobFits
      <4> QED
        BY <2>1, <2>2, <3>1, <4>1 DEF IInv, JobFits
    <3>2. CASE /\ job.stage = "indexing" /\ job'.stage \in Settled
               /\ job'.paths = {} /\ job'.indexed = {}
      <4>1. \A p \in Paths : staged[p] = None
        BY <3>2 DEF IInv, JobFits, Deleting, Complete
      <4>2. job'.stage \in Settled /\ job'.stage \notin Deleting
        BY <3>2 DEF Settled, Deleting, Complete
      <4> QED
        BY <2>1, <2>2, <3>2, <4>1, <4>2 DEF IInv, JobFits
    <3> QED
      BY <2>3, <3>1, <3>2
  <2>10. PlansFit' /\ ParsesFit'
    BY <2>2 DEF PlansFit, ParsesFit
  <2>11. \A p \in Paths : CallsOf(p)' = AppliedTo(p)
    BY <2>1 DEF CallsOf, AppliedTo
  <2>12. \A p \in Read : p \notin loose' =>
           /\ refresh.plans[p].whole \/ p \notin loose
           /\ p \in loose => refresh.parsed[p].seen = disk[p].stamp
    BY <2>1 DEF Replaced, IInv, ParsesFit
  <2>13. RowsFit'
    <3> SUFFICES ASSUME NEW p \in Paths, row(p) # None, p \notin loose'
                 PROVE  RowIs(row(p), AppliedTo(p), last[p])
      BY <2>1, <2>5, <2>11 DEF RowsFit
    <3>1. CASE p \in Read
      <4>1. \E n \in 0..Len(last[p]) : Gives(refresh.plans[p], refresh.parsed[p], last[p], n)
        <5>1. CASE p \notin loose
          BY <2>1, <3>1, <5>1 DEF IInv, ParsesFit
        <5>2. CASE p \in loose
          <6>1. GivesFile(refresh.plans[p], refresh.parsed[p], disk[p])
            BY <2>1, <2>12, <3>1 DEF IInv, ParsesFit
          <6>2. last[p] = disk[p].lines /\ last[p] \in Seq(Line)
            BY <2>1, <3>1, ParsedIsKnown DEF IInv, LogsFit
          <6>3. Gives(refresh.plans[p], refresh.parsed[p], last[p], Len(last[p]))
            BY <2>1, <2>12, <3>1, <5>2, <6>1, <6>2 DEF GivesFile
          <6>4. Len(last[p]) \in 0..Len(last[p])
            BY <6>2
          <6> QED
            BY <6>3, <6>4
        <5> QED
          BY <5>1, <5>2
      <4>2. RowIs(RowOf(p), AppliedTo(p), last[p])
        BY <2>1, <2>12, <3>1, <4>1, RowIsAfterParse
      <4> QED
        BY <3>1, <4>2 DEF row
    <3>2. CASE p \notin Read
      <4>1. index.rows[p] # None /\ p \notin loose
        BY <2>1, <2>5, <3>2 DEF Replaced, IInv, ParsesFit
      <4>2. RowIs(index.rows[p], CallsOf(p), last[p])
        BY <4>1 DEF IInv, RowsFit
      <4>3. Said(AppliedTo(p)) = Said(CallsOf(p))
        BY <2>1, <3>2, AppliedToOther, SaidOfSettled DEF CallsOf, IInv, Types
      <4> QED
        BY <2>5, <3>2, <4>2, <4>3 DEF RowIs
    <3> QED
      BY <3>1, <3>2
  <2>14. StampsFit'
    <3> SUFFICES ASSUME NEW p \in Paths, row(p) # None, p \notin loose', p \notin raced'
                 PROVE  StampIs(row(p), disk[p]) /\ StampIs(row(p), staged[p])
      BY <2>1, <2>5 DEF StampsFit
    <3>1. CASE p \in Read
      <4>1. refresh.parsed[p].seen = disk[p].stamp
        BY <2>1, <3>1
      <4>2. /\ GivesFile(refresh.plans[p], refresh.parsed[p], disk[p])
            /\ GivesFile(refresh.plans[p], refresh.parsed[p], staged[p])
        BY <2>1, <2>12, <3>1 DEF IInv, ParsesFit
      <4>3. row(p).stamp = disk[p].stamp /\ row(p).line = refresh.parsed[p].line
        BY <2>1, <3>1, RowOfIs DEF row
      <4> QED
        BY <4>1, <4>2, <4>3 DEF GivesFile, Gives, StampIs
    <3>2. CASE p \notin Read
      <4>1. index.rows[p] # None /\ p \notin loose /\ p \notin raced
        BY <2>1, <2>5, <3>2 DEF Replaced, IInv, ParsesFit
      <4>2. StampIs(index.rows[p], disk[p]) /\ StampIs(index.rows[p], staged[p])
        BY <4>1 DEF IInv, StampsFit
      <4> QED
        BY <2>5, <3>2, <4>2 DEF StampIs
    <3> QED
      BY <3>1, <3>2
  <2>15. OneCallEach'
    BY <2>1, AppliedUnique DEF OneCallEach
  <2>16. Tallied'
    <3>1. /\ index.threads = AllThreads(index.calls) /\ index.chains = AllChains(index.calls)
          /\ index.facts = AllFacts(index.calls)
          /\ \A c, d \in index.calls : Id(c) = Id(d) => c = d
      BY DEF IInv, Tallied, OneCallEach
    <3>2. /\ index'.threads = AllThreads(Applied) /\ index'.chains = AllChains(Applied)
      BY <2>1, <3>1, UntouchedThread, RebuiltThreadsIs, RebuiltChainsIs
    <3>3. index'.facts = AllFacts(Applied)
      BY <2>1, <3>1, UntouchedModel, RebuiltFactsIs
    <3> QED
      BY <2>1, <3>2, <3>3 DEF Tallied
  <2>17. NoGhost'
    <3> SUFFICES ASSUME NEW p \in gone, p \in job'.paths => job'.stage = "cleared"
                 PROVE  row(p) = None /\ AppliedTo(p) = {}
      BY <2>1, <2>2, <2>5, <2>11 DEF NoGhost, IInv, Types
    <3>1. p \in job.paths => job.stage = "cleared"
      BY <2>3 DEF IInv, JobFits
    <3>2. index.rows[p] = None /\ CallsOf(p) = {} /\ p \notin refresh.logs /\ p \in Paths
      BY <3>1 DEF IInv, NoGhost, Types
    <3>3. p \notin Read
      BY <2>1, <3>2, ParsedIsKnown
    <3>4. AppliedTo(p) = {Settle(c) : c \in CallsOf(p)}
      BY <2>1, <3>2, <3>3, AppliedToOther
    <3> QED
      BY <3>2, <3>3, <3>4 DEF row
  <2> QED
    BY <2>6, <2>8, <2>9, <2>10, <2>13, <2>14, <2>15, <2>16, <2>17 DEF IInv
<1> QED
  BY <1>1, <1>2
-----------------------------------------------------------------------------
(* Resets and deletions. *)

LEMMA EmptyIs ==
  /\ Empty.rows \in [Paths -> Rows \cup {None}] /\ \A p \in Paths : Empty.rows[p] = None
  /\ Empty.calls = {} /\ Empty.threads = AllThreads({}) /\ Empty.chains = AllChains({})
  /\ Empty.facts = AllFacts({})
<1>1. AllThreads({}) = <<>>
  <2>1. {ThreadOf(c) : c \in {}} = {}
    OBVIOUS
  <2> QED
    BY <2>1 DEF AllThreads
<1>2. AllChains({}) = <<>>
  <2>1. {Id(c) : c \in {}} = {}
    OBVIOUS
  <2> QED
    BY <2>1 DEF AllChains
<1>3. AllFacts({}) = <<>>
  <2>1. {c.model : c \in {d \in {} : Unpriced(d)}} = {}
    OBVIOUS
  <2> QED
    BY <2>1 DEF AllFacts
<1> QED
  BY <1>1, <1>2, <1>3 DEF Empty

LEMMA ResetInv ==
  ASSUME IInv, Reset
  PROVE  IInv'
<1> USE DEF Reset, logs
<1>1. refresh' = Calm /\ refresh = Calm
  OBVIOUS
<1>2. /\ index'.rows \in [Paths -> Rows \cup {None}] /\ \A p \in Paths : index'.rows[p] = None
      /\ index'.calls = {} /\ index'.threads = AllThreads({}) /\ index'.chains = AllChains({})
      /\ index'.facts = AllFacts({})
  BY EmptyIs
<1>3. /\ job' \in Jobs /\ job'.stage = job.stage /\ job'.paths = job.paths
      /\ job'.home = job.home /\ job'.names = job.names /\ job'.indexed = {}
  BY DEF IInv, Types, Jobs
<1>4. work' \in 0..MaxWork
  BY IndexAssumption DEF IInv, Types
<1>5. Types'
  BY <1>2, <1>3, <1>4 DEF IInv, Types
<1>6. LogsFit'
  BY <1>2 DEF IInv, LogsFit
<1>7. JobFits'
  BY <1>3 DEF IInv, JobFits
<1>8. PlansFit' /\ ParsesFit'
  BY <1>1, CalmIsTyped DEF PlansFit, ParsesFit
<1>9. RowsFit' /\ StampsFit'
  BY <1>2 DEF RowsFit, StampsFit
<1>10. OneCallEach' /\ Tallied'
  BY <1>2 DEF OneCallEach, Tallied
<1>11. NoGhost'
  BY <1>1, <1>2, <1>3 DEF IInv, Types, NoGhost, CallsOf
<1> QED
  BY <1>5, <1>6, <1>7, <1>8, <1>9, <1>10, <1>11 DEF IInv

LEMMA DeleteBeginsInv ==
  ASSUME IInv, NEW h \in Homes, NEW P \in SUBSET Paths, DeleteBegins(h, P)
  PROVE  IInv'
<1> USE DEF DeleteBegins, logs, history
<1>1. /\ job'.stage = "staging" /\ job'.home = h /\ job'.paths = P /\ job'.names = names[h]
      /\ job'.indexed = {p \in P : index.rows[p] # None}
      /\ \A p \in P : ~p.archived /\ disk[p] # None
      /\ UNCHANGED <<disk, names, clock, moves, last, index, refresh, staged, gone, loose, raced>>
  OBVIOUS
<1>2. names[h] \in Titles /\ job' \in Jobs
  BY DEF IInv, Types, Jobs, Deleting
<1>3. /\ job.stage \in Settled /\ job.paths = {} /\ refresh.by = None
      /\ \A p \in Paths : staged[p] = None
  BY DEF IInv, JobFits, Settled, Deleting, Complete
<1>4. work' \in 0..MaxWork
  BY IndexAssumption DEF IInv, Types
<1> HIDE DEF DeleteBegins
<1>5. Types'
  BY <1>1, <1>2, <1>4 DEF IInv, Types
<1>6. LogsFit' /\ PlansFit' /\ RowsFit' /\ StampsFit' /\ OneCallEach' /\ Tallied'
  BY <1>1 DEF IInv, LogsFit, PlansFit, RowsFit, StampsFit, CallsOf, OneCallEach, Tallied
<1>7. ParsesFit'
  BY <1>1 DEF IInv, ParsesFit
<1>8. JobFits'
  <2>1. job'.stage \notin Settled /\ job'.stage \notin Complete
    BY <1>1 DEF Settled, Complete
  <2> QED
    BY <1>1, <1>2, <1>3, <2>1 DEF IInv, JobFits
<1>9. NoGhost'
  BY <1>1, <1>3 DEF IInv, NoGhost, CallsOf
<1> QED
  BY <1>5, <1>6, <1>7, <1>8, <1>9 DEF IInv

\* A step of a deletion that neither moves a file nor changes the index.
LEMMA DeletionGoesOn ==
  ASSUME IInv, job.stage \in Deleting,
         job' \in Jobs, job'.stage \in Deleting, job'.stage # "cleared",
         job'.paths = job.paths, job'.home = job.home, job'.names = job.names,
         job'.indexed = job.indexed,
         job'.stage \in Unclear => job.stage \in Unclear,
         job'.stage \in Complete => job.stage \in Complete,
         names' \in [Homes -> Titles],
         UNCHANGED <<disk, clock, moves, last, index, work, refresh, staged,
                     gone, loose, raced>>
  PROVE  IInv'
<1>1. Types'
  BY DEF IInv, Types
<1>2. LogsFit' /\ PlansFit' /\ RowsFit' /\ StampsFit' /\ OneCallEach' /\ Tallied'
  BY DEF IInv, LogsFit, PlansFit, RowsFit, StampsFit, CallsOf, OneCallEach, Tallied
<1>3. ParsesFit'
  BY DEF IInv, ParsesFit
<1>4. JobFits'
  <2>1. \A s \in Deleting : s \notin Settled /\ s \notin {"index", "indexing"}
    BY DEF Settled, Deleting, Complete
  <2> QED
    BY <2>1 DEF IInv, JobFits
<1>5. NoGhost'
  BY DEF IInv, NoGhost, CallsOf
<1> QED
  BY <1>1, <1>2, <1>3, <1>4, <1>5 DEF IInv

LEMMA JobGoesOn ==
  ASSUME job \in Jobs, NEW s \in Deleting
  PROVE  /\ [job EXCEPT !.stage = s] \in Jobs /\ [job EXCEPT !.stage = s].stage = s
         /\ [job EXCEPT !.stage = s].paths = job.paths
         /\ [job EXCEPT !.stage = s].home = job.home
         /\ [job EXCEPT !.stage = s].names = job.names
         /\ [job EXCEPT !.stage = s].indexed = job.indexed
BY DEF Jobs

\* A file is set aside, or the deletion stops.
LEMMA DeleteStagesInv ==
  ASSUME IInv, NEW p \in Paths, DeleteStages(p)
  PROVE  IInv'
<1>1. /\ job.stage = "staging" /\ job \in Jobs /\ job.stage \in Deleting
      /\ p \in job.paths /\ staged[p] = None /\ ~p.archived
      /\ UNCHANGED <<names, clock, moves, last, index, work, refresh, loose, raced>>
  BY DEF IInv, Types, JobFits, Deleting, DeleteStages, SetAside
<1>2. CASE job' = [job EXCEPT !.stage = "unstage"] /\ UNCHANGED <<staged, disk, gone>>
  <2>1. "unstage" \in Deleting /\ "unstage" \notin Unclear /\ "unstage" \notin Complete
    BY DEF Deleting, Unclear, Complete
  <2>2. names' \in [Homes -> Titles]
    BY <1>1 DEF IInv, Types
  <2> QED
    BY <1>1, <1>2, <2>1, <2>2, JobGoesOn, DeletionGoesOn
<1>3. CASE /\ disk[p] # None
           /\ job' = [job EXCEPT !.stage = IF job.paths \ SetAside = {p} THEN "staged" ELSE @]
           /\ staged' = [staged EXCEPT ![p] = disk[p]]
           /\ disk' = [disk EXCEPT ![p] = None]
           /\ gone' = gone \cup {p}
  <2>1. \A q \in Paths : /\ staged'[q] = IF q = p THEN disk[p] ELSE staged[q]
                         /\ disk'[q] = IF q = p THEN None ELSE disk[q]
    BY <1>3 DEF IInv, Types
  <2>2. /\ job' \in Jobs /\ job'.paths = job.paths /\ job'.home = job.home
        /\ job'.names = job.names /\ job'.indexed = job.indexed
        /\ job'.stage \in {"staging", "staged"}
        /\ job'.stage = "staged" => job.paths \ SetAside = {p}
    BY <1>1, <1>3 DEF Jobs, Deleting, Complete
  <2>3. Types'
    <3>1. disk' \in [Paths -> Files \cup {None}] /\ staged' \in [Paths -> Files \cup {None}]
      BY <1>3 DEF IInv, Types
    <3>2. gone' \subseteq Paths
      BY <1>3 DEF IInv, Types
    <3> QED
      BY <1>1, <2>2, <3>1, <3>2 DEF IInv, Types
  <2>4. LogsFit'
    <3>1. last[p] # None /\ disk[p].stamp <= clock
      <4>1. disk[p].lines \in Seq(Line) /\ last[p] = disk[p].lines
        BY <1>3 DEF IInv, Types, LogsFit, Files
      <4> QED
        BY <1>3, <4>1, NoneIsNoValue DEF IInv, LogsFit
    <3> QED
      BY <1>1, <1>3, <2>1, <3>1 DEF IInv, LogsFit
  <2>5. JobFits'
    <3>1. job'.stage \notin Settled /\ job'.stage \in Deleting
      BY <2>2 DEF Settled, Deleting, Complete
    <3>2. job'.stage \in Complete => \A q \in job.paths : staged'[q] # None
      <4> SUFFICES ASSUME job'.stage = "staged", NEW q \in job.paths
                   PROVE  staged'[q] # None
        BY <2>2 DEF Complete
      <4>1. q = p \/ q \in SetAside
        BY <2>2
      <4>2. job.paths \subseteq Paths
        BY <1>1 DEF Jobs
      <4> QED
        BY <1>3, <2>1, <4>1, <4>2 DEF SetAside
    <3>3. job.stage \in Unclear /\ refresh.by = None
      BY <1>1 DEF IInv, JobFits, Unclear
    <3>4. \A q \in Paths : staged'[q] # None => q \in job.paths
      BY <1>1, <2>1 DEF IInv, JobFits
    <3>5. job.home \in Homes /\ job.names \in Titles /\ \A q \in job.paths \cup gone : ~q.archived
      BY <1>1 DEF IInv, JobFits
    <3> QED
      BY <1>1, <1>3, <2>2, <3>1, <3>2, <3>3, <3>4, <3>5 DEF IInv, JobFits
  <2>6. PlansFit' /\ RowsFit' /\ OneCallEach' /\ Tallied'
    BY <1>1 DEF IInv, PlansFit, RowsFit, CallsOf, OneCallEach, Tallied
  <2>7. ParsesFit'
    <3> SUFFICES ASSUME refresh.stage = "parsed", NEW q \in DOMAIN refresh.parsed,
                        refresh.plans[q].whole \/ q \notin loose
                 PROVE  /\ GivesFile(refresh.plans[q], refresh.parsed[q], disk'[q])
                        /\ GivesFile(refresh.plans[q], refresh.parsed[q], staged'[q])
      BY <1>1 DEF IInv, ParsesFit
    <3>1. q \in Paths
      BY ParsedIsKnown
    <3>2. GivesFile(refresh.plans[q], refresh.parsed[q], None)
      BY DEF GivesFile
    <3> QED
      BY <2>1, <3>1, <3>2 DEF IInv, ParsesFit
  <2>8. StampsFit'
    <3> SUFFICES ASSUME NEW q \in Paths, index.rows[q] # None, q \notin loose, q \notin raced
                 PROVE  StampIs(index.rows[q], disk'[q]) /\ StampIs(index.rows[q], staged'[q])
      BY <1>1 DEF StampsFit
    <3>1. StampIs(index.rows[q], None)
      BY DEF StampIs
    <3> QED
      BY <2>1, <3>1 DEF IInv, StampsFit
  <2>9. NoGhost'
    <3> SUFFICES ASSUME NEW q \in gone, q \in job.paths => job'.stage = "cleared"
                 PROVE  index.rows[q] = None /\ CallsOf(q) = {} /\ q \notin refresh.logs
      BY <1>1, <1>3, <2>2 DEF NoGhost, CallsOf
    <3> QED
      BY <2>2 DEF IInv, NoGhost
  <2> QED
    BY <2>3, <2>4, <2>5, <2>6, <2>7, <2>8, <2>9 DEF IInv
<1> QED
  BY <1>2, <1>3 DEF DeleteStages

LEMMA DeleteUnnamesInv ==
  ASSUME IInv, DeleteUnnames
  PROVE  IInv'
<1>1. job.stage = "staged" /\ job \in Jobs /\ job.stage \in Deleting /\ job.home \in Homes
  BY DEF IInv, Types, JobFits, Deleting, Complete, DeleteUnnames
<1>2. /\ {"unnamed", "undo"} \subseteq Deleting
      /\ job.stage \in Unclear /\ job.stage \in Complete
  BY <1>1 DEF Deleting, Unclear, Complete
<1>3. names' \in [Homes -> Titles]
  <2> DEFINE cut == [s \in Sessions |-> IF \E p \in job.paths : p.session = s
                                       THEN None ELSE names[job.home][s]]
  <2>1. names \in [Homes -> Titles] /\ names[job.home] \in Titles
    BY <1>1 DEF IInv, Types
  <2>2. cut \in Titles
    BY <2>1 DEF Titles
  <2>3. names' = [names EXCEPT ![job.home] = cut] \/ names' = names
    BY DEF DeleteUnnames
  <2> HIDE DEF cut
  <2> QED
    BY <2>1, <2>2, <2>3
<1>4. UNCHANGED <<disk, clock, moves, last, index, work, refresh, staged, gone, loose, raced>>
  BY DEF DeleteUnnames, history
<1>5. CASE job' = [job EXCEPT !.stage = "unnamed"]
  BY <1>1, <1>2, <1>3, <1>4, <1>5, JobGoesOn, DeletionGoesOn
<1>6. CASE job' = [job EXCEPT !.stage = "undo"]
  BY <1>1, <1>2, <1>3, <1>4, <1>6, JobGoesOn, DeletionGoesOn
<1> QED
  BY <1>5, <1>6 DEF DeleteUnnames

LEMMA WithoutIs ==
  ASSUME IInv, NEW P \in SUBSET Paths
  PROVE  /\ Without(P).rows \in [Paths -> Rows \cup {None}]
         /\ \A p \in Paths : Without(P).rows[p] = IF p \in P THEN None ELSE index.rows[p]
         /\ Without(P).calls = {c \in index.calls : c.path \notin P}
         /\ Without(P).threads = AllThreads(Without(P).calls)
         /\ Without(P).chains = AllChains(Without(P).calls)
         /\ Without(P).facts = AllFacts(Without(P).calls)
<1> DEFINE calls == {c \in index.calls : c.path \notin P}
           lost == {c \in index.calls : c.path \in P}
           touched == {ThreadOf(c) : c \in lost}
           models == {c.model : c \in lost}
<1>1. Without(P) =
        [rows    |-> [p \in Paths |-> IF p \in P THEN None ELSE index.rows[p]],
         calls   |-> calls,
         threads |-> RebuiltThreads(index.threads, calls, touched),
         chains  |-> RebuiltChains(index.chains, calls, touched),
         facts   |-> RebuiltFacts(index.facts, calls, models)]
  BY DEF Without
<1>2. \A c : ThreadOf(c) \notin touched => (c \in calls <=> c \in index.calls)
  OBVIOUS
<1>3. \A c : c.model \notin models => (c \in calls <=> c \in index.calls)
  OBVIOUS
<1> HIDE DEF calls, touched, models
<1>4. RebuiltThreads(index.threads, calls, touched) = AllThreads(calls)
  BY <1>2, RebuiltThreadsIs DEF IInv, Tallied
<1>5. RebuiltChains(index.chains, calls, touched) = AllChains(calls)
  BY <1>2, RebuiltChainsIs DEF IInv, Tallied, OneCallEach
<1>6. RebuiltFacts(index.facts, calls, models) = AllFacts(calls)
  BY <1>3, RebuiltFactsIs DEF IInv, Tallied
<1>7. index.rows \in [Paths -> Rows \cup {None}]
  BY DEF IInv, Types
<1> QED
  BY <1>1, <1>4, <1>5, <1>6, <1>7 DEF calls

LEMMA DeleteClearsInv ==
  ASSUME IInv, DeleteClears
  PROVE  IInv'
<1>1. /\ job.stage = "unnamed" /\ job \in Jobs /\ job.stage \in Deleting
      /\ job.paths \in SUBSET Paths /\ refresh = Calm
  BY DEF IInv, Types, Deleting, Complete, DeleteClears, Jobs
<1>2. /\ {"cleared", "undo"} \subseteq Deleting
      /\ job.stage \in Unclear /\ job.stage \in Complete
  BY <1>1 DEF Deleting, Unclear, Complete
<1>3. UNCHANGED <<disk, names, clock, moves, last, work, refresh, staged, gone, loose, raced>>
  BY DEF DeleteClears, history, logs
<1>4. CASE index' = Without(job.paths) /\ job' = [job EXCEPT !.stage = "cleared"]
  <2>1. /\ job' \in Jobs /\ job'.stage = "cleared" /\ job'.paths = job.paths
        /\ job'.home = job.home /\ job'.names = job.names /\ job'.indexed = job.indexed
    BY <1>1, <1>2, <1>4, JobGoesOn
  <2>2. /\ index'.rows \in [Paths -> Rows \cup {None}]
        /\ \A p \in Paths :
             index'.rows[p] = IF p \in job.paths THEN None ELSE index.rows[p]
        /\ index'.calls = {c \in index.calls : c.path \notin job.paths}
        /\ index'.threads = AllThreads(index'.calls)
        /\ index'.chains = AllChains(index'.calls)
        /\ index'.facts = AllFacts(index'.calls)
    BY <1>1, <1>4, WithoutIs
  <2>3. \A p \in Paths : /\ p \in job.paths => CallsOf(p)' = {}
                         /\ p \notin job.paths => CallsOf(p)' = CallsOf(p)
    BY <2>2 DEF CallsOf
  <2>4. Types'
    BY <1>3, <2>1, <2>2 DEF IInv, Types
  <2>5. LogsFit'
    BY <1>3, <2>2 DEF IInv, LogsFit
  <2>6. JobFits'
    <3>1. job'.stage \in Deleting \ Settled /\ job'.stage \notin Unclear
      BY <1>2, <2>1 DEF Settled, Unclear
    <3> QED
      BY <1>1, <1>2, <1>3, <2>1, <3>1 DEF IInv, JobFits
  <2>7. PlansFit' /\ ParsesFit'
    BY <1>1, <1>3, CalmIsTyped DEF PlansFit, ParsesFit
  <2>8. RowsFit'
    BY <1>3, <2>2, <2>3 DEF IInv, RowsFit
  <2>9. StampsFit'
    BY <1>3, <2>2 DEF IInv, StampsFit
  <2>10. OneCallEach' /\ Tallied'
    BY <2>2 DEF IInv, OneCallEach, Tallied
  <2>11. NoGhost'
    <3> SUFFICES ASSUME NEW p \in gone
                 PROVE  index'.rows[p] = None /\ CallsOf(p)' = {} /\ p \notin refresh.logs
      BY <1>3 DEF NoGhost
    <3>1. p \in Paths /\ refresh.logs = {}
      BY <1>1, CalmIsTyped DEF IInv, Types
    <3> QED
      BY <2>2, <2>3, <3>1 DEF IInv, NoGhost
  <2> QED
    BY <2>4, <2>5, <2>6, <2>7, <2>8, <2>9, <2>10, <2>11 DEF IInv
<1>5. CASE index' = index /\ job' = [job EXCEPT !.stage = "undo"]
  <2>1. names' \in [Homes -> Titles]
    BY <1>3 DEF IInv, Types
  <2> QED
    BY <1>1, <1>2, <1>3, <1>5, <2>1, JobGoesOn, DeletionGoesOn
<1> QED
  BY <1>4, <1>5 DEF DeleteClears

LEMMA DeleteForgetsInv ==
  ASSUME IInv, DeleteForgets
  PROVE  IInv'
<1>1. job.stage = "cleared" /\ job \in Jobs /\ job.stage \in Deleting
  BY DEF IInv, Types, Deleting, Complete, DeleteForgets
<1>2. UNCHANGED <<disk, names, clock, moves, last, index, work, refresh, gone, loose, raced>>
  BY DEF DeleteForgets, history, logs
<1>3. CASE staged' = [p \in Paths |-> None] /\ job' = NoJob
  <2>1. /\ job' \in Jobs /\ job'.stage = "idle" /\ job'.paths = {} /\ job'.indexed = {}
    BY <1>3, NoJobIsTyped
  <2>2. \A p \in Paths : staged'[p] = None
    BY <1>3
  <2>3. Types'
    BY <1>2, <1>3, <2>1 DEF IInv, Types
  <2>4. LogsFit'
    BY <1>2, <2>2 DEF IInv, LogsFit
  <2>5. JobFits'
    BY <1>1, <1>2, <2>1, <2>2 DEF IInv, JobFits, Settled, Deleting, Complete, Unclear
  <2>6. PlansFit' /\ RowsFit' /\ OneCallEach' /\ Tallied'
    BY <1>2 DEF IInv, PlansFit, RowsFit, CallsOf, OneCallEach, Tallied
  <2>7. ParsesFit'
    <3>1. ASSUME refresh.stage = "parsed", NEW p \in DOMAIN refresh.parsed
          PROVE  GivesFile(refresh.plans[p], refresh.parsed[p], staged'[p])
      BY <2>2, <3>1, ParsedIsKnown DEF GivesFile
    <3> QED
      BY <1>2, <3>1 DEF IInv, ParsesFit
  <2>8. StampsFit'
    <3>1. \A p \in Paths : StampIs(index.rows[p], staged'[p])
      BY <2>2 DEF StampIs
    <3> QED
      BY <1>2, <3>1 DEF IInv, StampsFit
  <2>9. NoGhost'
    BY <1>1, <1>2, <2>1 DEF IInv, NoGhost, CallsOf
  <2> QED
    BY <2>3, <2>4, <2>5, <2>6, <2>7, <2>8, <2>9 DEF IInv
<1>4. CASE staged' = staged /\ job' = [job EXCEPT !.stage = "undo and index"]
  <2>1. /\ "undo and index" \in Deleting /\ "undo and index" \notin Unclear
        /\ job.stage \in Complete
    BY <1>1 DEF Deleting, Unclear, Complete
  <2>2. names' \in [Homes -> Titles]
    BY <1>2 DEF IInv, Types
  <2> QED
    BY <1>1, <1>2, <1>4, <2>1, <2>2, JobGoesOn, DeletionGoesOn
<1> QED
  BY <1>3, <1>4 DEF DeleteForgets

\* What was set aside is put back, over whatever came in the meantime, or lost.
LEMMA PutBackInv ==
  ASSUME IInv, job.stage \in Undoing,
         NEW P \in SUBSET SetAside, PutBack(P), names' \in [Homes -> Titles], job' \in Jobs,
         \/ job'.stage \in Settled /\ job'.paths = {}
         \/ job'.stage = "index" /\ job'.paths = job.paths,
         UNCHANGED <<clock, moves, index, work, refresh, raced>>
  PROVE  IInv'
<1> USE DEF PutBack
<1>1. P \subseteq Paths /\ \A p \in P : staged[p] # None
  BY DEF SetAside
<1>2. \A p \in Paths :
        /\ staged'[p] = None
        /\ disk'[p] = IF p \in P THEN staged[p] ELSE disk[p]
        /\ last'[p] = IF p \in P THEN staged[p].lines ELSE last[p]
        /\ staged[p] # None => p \in job.paths /\ ~p.archived
        /\ p \notin loose' => p \notin loose
        /\ p \notin loose' /\ p \in P => IsPrefix(last[p], staged[p].lines)
  BY DEF IInv, JobFits
<1>3. \A p \in Paths : staged[p] # None =>
        /\ staged[p] \in Files /\ staged[p].lines \in Seq(Line) /\ staged[p].lines # None
        /\ last[p] \in Seq(Line) /\ staged[p].stamp <= clock
  BY NoneIsNoValue DEF IInv, Types, LogsFit, Files
<1>5. Types'
  <2>1. disk' \in [Paths -> Files \cup {None}] /\ staged' \in [Paths -> Files \cup {None}]
    BY <1>1, <1>3 DEF IInv, Types
  <2>2. last' \in [Paths -> Seq(Line) \cup {None}]
    BY <1>1, <1>3 DEF IInv, Types
  <2>3. gone' \subseteq Paths /\ loose' \subseteq Paths
    BY <1>1 DEF IInv, Types
  <2> QED
    BY <2>1, <2>2, <2>3 DEF IInv, Types
<1>u. /\ gone' = gone \ job.paths
      /\ UNCHANGED <<clock, moves, index, work, refresh, raced>>
  OBVIOUS
<1> HIDE DEF PutBack
<1>6. LogsFit'
  <2> SUFFICES ASSUME NEW p \in Paths
               PROVE  /\ disk'[p] # None => last'[p] = disk'[p].lines /\ disk'[p].stamp <= clock
                      /\ index.rows[p] # None =>
                           last'[p] # None /\ index.rows[p].stamp <= clock
                      /\ p \in refresh.logs => last'[p] # None
                      /\ p.archived /\ last'[p] # None => disk'[p] # None
                      /\ p \in gone' => disk'[p] = None
    BY <1>2, <1>u DEF LogsFit
  <2>1. CASE p \in P
    BY <1>1, <1>2, <1>3, <1>u, <2>1 DEF IInv, LogsFit
  <2>2. CASE p \notin P
    BY <1>2, <1>u, <2>2 DEF IInv, LogsFit
  <2> QED
    BY <2>1, <2>2
<1>7. JobFits'
  <2>1. refresh.by = None
    BY DEF IInv, JobFits, Undoing
  <2>2. job'.stage \notin Deleting /\ job'.stage \notin Unclear /\ job'.stage \notin Complete
    BY DEF Settled, Deleting, Unclear, Complete
  <2>3. "index" \notin Settled /\ "index" \notin {"indexing"} /\ \A t \in Settled : t \notin {"index", "indexing"}
    BY DEF Settled
  <2> QED
    BY <1>2, <1>u, <2>1, <2>2, <2>3 DEF IInv, JobFits
<1>8. PlansFit'
  BY <1>u DEF IInv, PlansFit
<1>9. ParsesFit'
  <2> SUFFICES ASSUME refresh.stage = "parsed", NEW p \in DOMAIN refresh.parsed
               PROVE  /\ p \notin loose' => \E n \in 0..Len(last'[p]) :
                           Gives(refresh.plans[p], refresh.parsed[p], last'[p], n)
                      /\ refresh.plans[p].whole \/ p \notin loose' =>
                           /\ GivesFile(refresh.plans[p], refresh.parsed[p], disk'[p])
                           /\ GivesFile(refresh.plans[p], refresh.parsed[p], staged'[p])
    BY <1>u DEF IInv, ParsesFit
  <2>1. p \in Paths
    BY ParsedIsKnown
  <2>2. GivesFile(refresh.plans[p], refresh.parsed[p], None)
    BY DEF GivesFile
  <2>3. refresh.plans[p].whole \/ p \notin loose =>
          /\ GivesFile(refresh.plans[p], refresh.parsed[p], disk[p])
          /\ GivesFile(refresh.plans[p], refresh.parsed[p], staged[p])
    BY DEF IInv, ParsesFit
  <2>4. ASSUME p \notin loose'
        PROVE  \E n \in 0..Len(last'[p]) :
                 Gives(refresh.plans[p], refresh.parsed[p], last'[p], n)
    <3>1. PICK n \in 0..Len(last[p]) :
            Gives(refresh.plans[p], refresh.parsed[p], last[p], n)
      BY <1>2, <2>1, <2>4 DEF IInv, ParsesFit
    <3>2. CASE p \notin P
      BY <1>2, <2>1, <3>1, <3>2
    <3>3. CASE p \in P
      <4> DEFINE lines == staged[p].lines
      <4>1. lines \in Seq(Line) /\ last[p] \in Seq(Line) /\ IsPrefix(last[p], lines)
        BY <1>1, <1>2, <1>3, <2>1, <2>4, <3>3
      <4>2. last'[p] = lines
        BY <1>2, <2>1, <3>3
      <4> HIDE DEF lines
      <4>3. Len(last[p]) <= Len(lines) /\ \A j \in 1..Len(last[p]) : lines[j] = last[p][j]
        BY <4>1, IsPrefixIs
      <4>4. n \in 0..Len(lines) /\ \A j \in 1..n : lines[j] = last[p][j]
        BY <4>1, <4>3
      <4>5. Gives(refresh.plans[p], refresh.parsed[p], lines, n)
        BY <3>1, <4>4, GivesSame
      <4> QED
        BY <4>2, <4>4, <4>5
    <3> QED
      BY <3>2, <3>3
  <2> QED
    BY <1>2, <2>1, <2>2, <2>3, <2>4
<1>10. RowsFit'
  <2> SUFFICES ASSUME NEW p \in Paths, index.rows[p] # None, p \notin loose'
               PROVE  RowIs(index.rows[p], CallsOf(p), last'[p])
    BY <1>u DEF RowsFit, CallsOf
  <2>1. RowIs(index.rows[p], CallsOf(p), last[p]) /\ index.rows[p] \in Rows
    BY <1>2 DEF IInv, RowsFit, Types
  <2>2. CASE p \notin P
    BY <1>2, <2>1, <2>2
  <2>3. CASE p \in P
    <3> DEFINE lines == staged[p].lines
    <3>1. lines \in Seq(Line) /\ last[p] \in Seq(Line) /\ IsPrefix(last[p], lines)
      BY <1>1, <1>2, <1>3, <2>3
    <3>2. last'[p] = lines
      BY <1>2, <2>3
    <3> HIDE DEF lines
    <3>3. RowIs(index.rows[p], CallsOf(p), lines)
      BY <2>1, <3>1, RowIsSame
    <3> QED
      BY <3>2, <3>3
  <2> QED
    BY <2>2, <2>3
<1>11. StampsFit'
  <2> SUFFICES ASSUME NEW p \in Paths, index.rows[p] # None, p \notin loose', p \notin raced
               PROVE  StampIs(index.rows[p], disk'[p]) /\ StampIs(index.rows[p], staged'[p])
    BY <1>u DEF StampsFit
  <2>1. StampIs(index.rows[p], None)
    BY DEF StampIs
  <2>2. StampIs(index.rows[p], disk[p]) /\ StampIs(index.rows[p], staged[p])
    BY <1>2 DEF IInv, StampsFit
  <2> QED
    BY <1>2, <2>1, <2>2
<1>12. OneCallEach' /\ Tallied'
  BY <1>u DEF IInv, OneCallEach, Tallied
<1>13. NoGhost'
  BY <1>u DEF IInv, NoGhost, CallsOf
<1> QED
  BY <1>5, <1>6, <1>7, <1>8, <1>9, <1>10, <1>11, <1>12, <1>13 DEF IInv

LEMMA DeleteUndoesInv ==
  ASSUME IInv, DeleteUndoes
  PROVE  IInv'
<1>1. /\ job.stage \in {"undo", "undo and index"} /\ job \in Jobs
      /\ job.home \in Homes /\ job.names \in Titles
  BY DEF IInv, Types, JobFits, Deleting, Complete, DeleteUndoes
<1>2. PICK P \in SUBSET SetAside, named \in BOOLEAN, report \in BOOLEAN :
        /\ PutBack(P)
        /\ names' = IF named THEN [names EXCEPT ![job.home] = job.names] ELSE names
        /\ job' = IF job.stage = "undo" THEN Ended(report)
                  ELSE [job EXCEPT !.stage = "index", !.failed = report]
  BY DEF DeleteUndoes
<1>3. names' \in [Homes -> Titles]
  BY <1>1, <1>2 DEF IInv, Types
<1>4. /\ job' \in Jobs
      /\ \/ job'.stage \in Settled /\ job'.paths = {}
         \/ job'.stage = "index" /\ job'.paths = job.paths
  <2>1. CASE job' = Ended(report)
    BY <2>1, EndedIsTyped
  <2>2. CASE job' = [job EXCEPT !.stage = "index", !.failed = report]
    BY <1>1, <2>2 DEF Jobs
  <2> QED
    BY <1>2, <2>1, <2>2
<1>5. job.stage \in Undoing /\ UNCHANGED <<clock, moves, index, work, refresh, raced>>
  BY <1>1 DEF DeleteUndoes, Undoing
<1> QED
  BY <1>1, <1>2, <1>3, <1>4, <1>5, PutBackInv

LEMMA DeleteUnstagesInv ==
  ASSUME IInv, DeleteUnstages
  PROVE  IInv'
<1>1. PICK P \in SUBSET SetAside : PutBack(P)
  BY DEF DeleteUnstages
<1>2. job' \in Jobs /\ job'.stage \in Settled /\ job'.paths = {}
  BY NoJobIsTyped DEF DeleteUnstages, Settled
<1>3. /\ job.stage \in Undoing /\ names' \in [Homes -> Titles]
      /\ UNCHANGED <<clock, moves, index, work, refresh, raced>>
  BY DEF DeleteUnstages, Undoing, IInv, Types
<1> QED
  BY <1>1, <1>2, <1>3, PutBackInv

LEMMA CrashInv ==
  ASSUME IInv, Crash
  PROVE  IInv'
<1> USE DEF Crash, logs
<1>1. refresh' = Calm /\ refresh' \in Refreshes /\ refresh'.stage = "idle" /\ refresh'.by = None
      /\ refresh'.logs = {}
  BY CalmIsTyped
<1>2. job'.stage = "unrecovered" /\ job'.paths = {} /\ job' \in Jobs
  BY EndedIsTyped
<1>3. \A p \in Paths : staged'[p] = None
  OBVIOUS
<1>4. Types'
  <2>1. staged' \in [Paths -> Files \cup {None}]
    OBVIOUS
  <2> QED
    BY <1>1, <1>2, <2>1 DEF IInv, Types
<1>5. LogsFit'
  BY <1>1, <1>3 DEF IInv, LogsFit
<1>6. JobFits'
  BY <1>1, <1>2, <1>3 DEF IInv, JobFits, Settled, Deleting, Complete, Unclear
<1>7. PlansFit' /\ ParsesFit'
  BY <1>1 DEF PlansFit, ParsesFit
<1>8. RowsFit' /\ OneCallEach' /\ Tallied'
  BY DEF IInv, RowsFit, CallsOf, OneCallEach, Tallied
<1>9. StampsFit'
  <2>1. \A p \in Paths : StampIs(index.rows[p], None)
    BY DEF StampIs
  <2> QED
    BY <1>3, <2>1 DEF IInv, StampsFit
<1>10. NoGhost'
  BY <1>1, <1>2 DEF IInv, NoGhost, CallsOf
<1> QED
  BY <1>4, <1>5, <1>6, <1>7, <1>8, <1>9, <1>10 DEF IInv
-----------------------------------------------------------------------------
(* The beginning, and what follows. *)

\* The index of an older version has the calls of its log, in no workspace.
LEMMA LegacyIs ==
  ASSUME NEW p \in Paths
  PROVE  LET old == Legacy(p, FirstLine)
         IN  /\ old.rows \in [Paths -> Rows \cup {None}]
             /\ old.rows[p] \in Rows /\ old.rows[p].stamp = 1 /\ old.rows[p].line = 1
             /\ RowIs(old.rows[p], old.calls, <<FirstLine>>)
             /\ \A q \in Paths : q # p => old.rows[q] = None
             /\ old.calls \subseteq Calls
             /\ \A c \in old.calls : c.path = p /\ \A d \in old.calls : Id(c) = Id(d) => c = d
             /\ old.threads = AllThreads(old.calls) /\ old.chains = AllChains(old.calls)
             /\ old.facts = AllFacts(old.calls)
<1> DEFINE old == Legacy(p, FirstLine)
           untitled == [s \in Sessions |-> None]
           read == Parsed(p, <<FirstLine>>, 0, None, untitled)
           row == [size |-> 2, stamp |-> 1, line |-> 1, model |-> None,
                   home |-> None, archived |-> p.archived]
           moved(c) == [c EXCEPT !.home = None]
<1>1. <<FirstLine>> \in Seq(Line) /\ Len(<<FirstLine>>) = 1 /\ untitled \in Titles
  BY DEF FirstLine, Line, Titles
<1>2. read \subseteq Calls /\ \A c \in read : c.path = p /\ \A d \in read : d.line = c.line => d = c
  BY <1>1, ParsedType
<1>3. Said(read) = SaidBy(<<FirstLine>>, 1)
  BY <1>1, ParsedWhole
<1>4. old = [rows    |-> [Empty.rows EXCEPT ![p] = row],
             calls   |-> {moved(c) : c \in read},
             threads |-> AllThreads({moved(c) : c \in read}),
             chains  |-> AllChains({moved(c) : c \in read}),
             facts   |-> AllFacts({moved(c) : c \in read})]
  BY DEF Legacy
<1>5. row \in Rows /\ row # None
  <2>1. row \in Rows
    BY DEF Rows, Paths
  <2> QED
    BY <2>1, NoneIsNoValue
<1>6. \A c \in Calls : /\ moved(c) \in Calls /\ moved(c).path = c.path /\ moved(c).line = c.line
                       /\ moved(c).at = c.at /\ moved(c).model = c.model
  BY DEF Calls
<1> HIDE DEF read, moved
<1>7. Said({moved(c) : c \in read}) = Said(read)
  <2>1. Said({moved(c) : c \in read}) =
          {[line |-> moved(c).line, at |-> moved(c).at, model |-> moved(c).model] : c \in read}
    BY DEF Said
  <2> QED
    BY <1>2, <1>6, <2>1 DEF Said
<1>8. ModelAt(<<FirstLine>>, 0, None, 1) = None
  BY DEF ModelAt, FirstLine
<1>9. RowIs(row, {moved(c) : c \in read}, <<FirstLine>>)
  BY <1>1, <1>3, <1>7, <1>8 DEF RowIs
<1>10. \A c, d \in read : Id(moved(c)) = Id(moved(d)) => c = d
  BY <1>2, <1>6 DEF Id
<1>11. [Empty.rows EXCEPT ![p] = row] = [q \in Paths |-> IF q = p THEN row ELSE None]
  BY DEF Empty
<1> HIDE DEF row
<1> DEFINE calls == {moved(c) : c \in read}
<1>12. calls \subseteq Calls /\ \A c \in calls : c.path = p
  BY <1>2, <1>6
<1>13. \A c, d \in calls : Id(c) = Id(d) => c = d
  BY <1>10
<1>14. /\ old.rows = [q \in Paths |-> IF q = p THEN row ELSE None] /\ old.calls = calls
       /\ old.threads = AllThreads(calls) /\ old.chains = AllChains(calls)
       /\ old.facts = AllFacts(calls)
  BY <1>4, <1>11
<1>15. row.stamp = 1 /\ row.line = 1
  BY DEF row
<1>16. RowIs(row, calls, <<FirstLine>>)
  BY <1>9
<1>17. old.rows \in [Paths -> Rows \cup {None}] /\ old.rows[p] = row
       /\ \A q \in Paths : q # p => old.rows[q] = None
  BY <1>5, <1>14
<1> HIDE DEF old, calls
<1> QED
  BY <1>5, <1>12, <1>13, <1>14, <1>15, <1>16, <1>17 DEF old

LEMMA InitInv == Init => IInv
<1> SUFFICES ASSUME Init
             PROVE  IInv
  OBVIOUS
<1> DEFINE f == [lines |-> <<FirstLine>>, tail |-> FALSE, stamp |-> 1]
<1>1. PICK p \in {q \in Paths : ~q.archived} :
        /\ disk = [q \in Paths |-> IF q = p THEN f ELSE None]
        /\ last = [q \in Paths |-> IF q = p THEN <<FirstLine>> ELSE None]
        /\ index \in {Empty, Legacy(p, FirstLine)}
  BY DEF Init
<1>2. <<FirstLine>> \in Seq(Line) /\ Len(<<FirstLine>>) = 1 /\ f \in Files
  BY DEF FirstLine, Line, Files
<1>3. <<FirstLine>> # None
  BY <1>2, NoneIsNoValue
<1>4. /\ names = [h \in Homes |-> [s \in Sessions |-> None]]
      /\ clock = 1 /\ moves = 0 /\ work = 0 /\ refresh = Calm /\ job = NoJob
      /\ staged = [q \in Paths |-> None] /\ gone = {} /\ loose = {} /\ raced = {}
  BY DEF Init
<1>5. /\ \A q \in Paths : /\ disk[q] = IF q = p THEN f ELSE None
                          /\ last[q] = IF q = p THEN <<FirstLine>> ELSE None
                          /\ staged[q] = None
      /\ p \in Paths /\ ~p.archived
  BY <1>1, <1>4
<1>6. /\ index.rows \in [Paths -> Rows \cup {None}] /\ index.calls \subseteq Calls
      /\ \A q \in Paths : index.rows[q] # None =>
           /\ q = p /\ index.rows[q].stamp = 1 /\ index.rows[q].line = 1
           /\ RowIs(index.rows[q], CallsOf(q), <<FirstLine>>)
      /\ OneCallEach /\ Tallied
  <2>1. CASE index = Empty
    BY <2>1, EmptyIs DEF OneCallEach, Tallied
  <2>2. CASE index = Legacy(p, FirstLine)
    <3>1. /\ index.rows \in [Paths -> Rows \cup {None}] /\ index.calls \subseteq Calls
          /\ \A c \in index.calls :
               c.path = p /\ \A d \in index.calls : Id(c) = Id(d) => c = d
          /\ index.rows[p].stamp = 1 /\ index.rows[p].line = 1
          /\ RowIs(index.rows[p], index.calls, <<FirstLine>>)
          /\ \A q \in Paths : q # p => index.rows[q] = None
          /\ index.threads = AllThreads(index.calls) /\ index.chains = AllChains(index.calls)
          /\ index.facts = AllFacts(index.calls)
      BY <1>5, <2>2, LegacyIs
    <3>2. CallsOf(p) = index.calls
      BY <3>1 DEF CallsOf
    <3> QED
      BY <3>1, <3>2 DEF OneCallEach, Tallied
  <2> QED
    BY <1>1, <2>1, <2>2
<1>7. Types
  <2>1. names \in [Homes -> Titles]
    BY <1>4 DEF Titles
  <2>2. clock \in 1..MaxWrites /\ moves \in 0..MaxMoves /\ work \in 0..MaxWork
    BY <1>4, IndexAssumption
  <2>3. disk \in [Paths -> Files \cup {None}] /\ staged \in [Paths -> Files \cup {None}]
        /\ last \in [Paths -> Seq(Line) \cup {None}]
    BY <1>1, <1>2, <1>4
  <2> QED
    BY <1>4, <1>6, <2>1, <2>2, <2>3, CalmIsTyped, NoJobIsTyped DEF Types
<1>8. LogsFit
  BY <1>3, <1>4, <1>5, <1>6, CalmIsTyped DEF LogsFit
<1>9. JobFits
  BY <1>4, <1>5, CalmIsTyped, NoJobIsTyped DEF JobFits, Deleting, Complete, Unclear
<1>10. PlansFit /\ ParsesFit /\ NoGhost
  BY <1>4, CalmIsTyped DEF PlansFit, ParsesFit, NoGhost
<1>11. RowsFit
  BY <1>5, <1>6 DEF RowsFit
<1>12. StampsFit
  <2> SUFFICES ASSUME NEW q \in Paths, index.rows[q] # None
               PROVE  StampIs(index.rows[q], disk[q]) /\ StampIs(index.rows[q], staged[q])
    BY DEF StampsFit
  <2>1. index.rows[q].line = 1 /\ disk[q] = f /\ staged[q] = None
    BY <1>5, <1>6
  <2>2. Len(f.lines) = 1
    BY <1>2
  <2> QED
    BY <2>1, <2>2 DEF StampIs
<1> QED
  BY <1>6, <1>7, <1>8, <1>9, <1>10, <1>11, <1>12 DEF IInv

LEMMA StepInv ==
  ASSUME IInv, [Next]_vars
  PROVE  IInv'
<1>1. CASE UNCHANGED vars
  BY <1>1, NamesInv DEF vars, IInv, Types
<1>2. CASE \E p \in Paths : CodexWrites(p) \/ CodexArchives(p)
  BY <1>2, CodexWritesInv, ArchivesInv
<1>3. CASE \E h \in Homes, s \in Sessions, n \in Names : CodexNames(h, s, n)
  BY <1>3, CodexNamesInv
<1>4. CASE \E p, q \in Paths : Relay(p, q)
  BY <1>4, RelayInv
<1>5. CASE RefreshLists \/ RefreshPlans \/ RefreshParses \/ RefreshApplies
  BY <1>5, RefreshListsInv, RefreshPlansInv, RefreshParsesInv, RefreshAppliesInv
<1>6. CASE Reset
  BY <1>6, ResetInv
<1>7. CASE \/ \E h \in Homes, P \in SUBSET {p \in Paths : disk[p] # None} : DeleteBegins(h, P)
           \/ \E p \in Paths : DeleteStages(p)
           \/ DeleteUnstages
  BY <1>7, DeleteBeginsInv, DeleteStagesInv, DeleteUnstagesInv
<1>8. CASE DeleteUnnames \/ DeleteClears \/ DeleteForgets
  BY <1>8, DeleteUnnamesInv, DeleteClearsInv, DeleteForgetsInv
<1>9. CASE DeleteUndoes \/ DeleteIndexes \/ Crash
  BY <1>9, DeleteUndoesInv, DeleteIndexesInv, CrashInv
<1> QED
  BY <1>1, <1>2, <1>3, <1>4, <1>5, <1>6, <1>7, <1>8, <1>9 DEF Next

LEMMA IInvHolds == Spec => []IInv
BY InitInv, StepInv, PTL DEF Spec

-----------------------------------------------------------------------------
(* Induction over the data: a set that is closed holds everything.         *)

LEMMA HoldsAllNaturals ==
  ASSUME NEW T, 0 \in T, \A n \in Nat : n \in T => n + 1 \in T
  PROVE  Nat \subseteq T
<1> DEFINE Less == {pair \in Nat \X Nat : pair[1] < pair[2]}
<1>1. IsWellFoundedOn(Less, Nat)
  BY NatLessThanWellFounded DEF OpToRel
<1> SUFFICES ASSUME Nat \ T # {}
             PROVE  FALSE
  OBVIOUS
<1> DEFINE Rest == Nat \ T
<1>2. PICK n \in Rest : \A m \in Rest : ~(<<m, n>> \in Less)
  <2> Rest \subseteq Nat /\ Rest # {}
    OBVIOUS
  <2> HIDE DEF Rest, Less
  <2> QED
    BY <1>1, WFMin
<1>3. n # 0 /\ n - 1 \in Nat /\ (n - 1) + 1 = n
  BY <1>2
<1>4. n - 1 \in T
  <2>1. <<n - 1, n>> \in Less
    BY <1>3
  <2> QED
    BY <1>2, <1>3, <2>1
<1> QED
  BY <1>2, <1>3, <1>4

LEMMA HoldsAllSubsets ==
  ASSUME NEW S, IsFiniteSet(S), NEW T, {} \in T,
         \A A \in SUBSET S : A # {} /\ (\A x \in A : A \ {x} \in T) => A \in T
  PROVE  SUBSET S \subseteq T
<1> DEFINE Sizes == {n \in Nat : \A A \in SUBSET S : Cardinality(A) = n => A \in T}
<1>1. \A A \in SUBSET S : IsFiniteSet(A) /\ Cardinality(A) \in Nat
  BY FS_Subset, FS_CardinalityType
<1>2. 0 \in Sizes
  BY <1>1, FS_EmptySet
<1>3. ASSUME NEW n \in Nat, n \in Sizes
      PROVE  n + 1 \in Sizes
  <2> SUFFICES ASSUME NEW A \in SUBSET S, Cardinality(A) = n + 1
               PROVE  A \in T
    OBVIOUS
  <2>1. A # {}
    <3>1. n + 1 # 0 /\ Cardinality({}) = 0
      BY FS_EmptySet
    <3> QED
      BY <3>1
  <2>2. ASSUME NEW x \in A
        PROVE  A \ {x} \in T
    <3>1. IsFiniteSet(A) /\ x \in A
      BY <1>1
    <3>2. Cardinality(A \ {x}) = Cardinality(A) - 1
      BY <3>1, FS_RemoveElement
    <3> QED
      BY <1>3, <3>2
  <2> QED
    BY <2>1, <2>2
<1> HIDE DEF Sizes
<1>4. Nat \subseteq Sizes
  BY <1>2, <1>3, HoldsAllNaturals
<1> QED
  BY <1>1, <1>4 DEF Sizes

-----------------------------------------------------------------------------
(* Sums over finite sets.                                                  *)

\* The sums of the weights of the subsets of a set.
Sums(sum, w, S) ==
  /\ sum \in [SUBSET S -> Nat]
  /\ sum[{}] = 0
  /\ \A A \in SUBSET S : \A x \in S \ A : sum[A \cup {x}] = sum[A] + w[x]

LEMMA SumsExist ==
  ASSUME NEW S, IsFiniteSet(S), NEW w, \A x \in S : w[x] \in Nat
  PROVE  \E sum : Sums(sum, w, S)
<1> DEFINE T == {A \in SUBSET S : \E sum : Sums(sum, w, A)}
<1>1. {} \in T
  <2> DEFINE sum == [A \in SUBSET {} |-> 0]
  <2>1. Sums(sum, w, {})
    BY DEF Sums
  <2> QED
    BY <2>1
<1>2. ASSUME NEW B \in SUBSET S, B # {}, \A x \in B : B \ {x} \in T
      PROVE  B \in T
  <2> PICK x \in B : TRUE
    BY <1>2
  <2> DEFINE A == B \ {x}
  <2>1. PICK old : Sums(old, w, A)
    BY <1>2
  <2> DEFINE sum == [C \in SUBSET B |-> IF x \in C THEN old[C \ {x}] + w[x] ELSE old[C]]
  <2>2. sum \in [SUBSET B -> Nat]
    <3> SUFFICES ASSUME NEW C \in SUBSET B
                 PROVE  (IF x \in C THEN old[C \ {x}] + w[x] ELSE old[C]) \in Nat
      OBVIOUS
    <3>1. C \ {x} \in SUBSET A /\ (x \notin C => C \in SUBSET A)
      OBVIOUS
    <3> QED
      BY <2>1, <3>1 DEF Sums
  <2>3. sum[{}] = 0
    BY <2>1 DEF Sums
  <2>4. ASSUME NEW C \in SUBSET B, NEW y \in B \ C
        PROVE  sum[C \cup {y}] = sum[C] + w[y]
    <3>1. CASE y = x
      <4>1. C \in SUBSET A /\ (C \cup {y}) \ {x} = C /\ x \in C \cup {y} /\ x \notin C
        BY <3>1, <2>4
      <4> QED
        BY <3>1, <4>1
    <3>2. CASE y # x /\ x \in C
      <4>1. /\ (C \cup {y}) \ {x} = (C \ {x}) \cup {y} /\ C \ {x} \in SUBSET A
            /\ y \in A \ (C \ {x}) /\ x \in C \cup {y}
        BY <3>2
      <4>2. old[(C \ {x}) \cup {y}] = old[C \ {x}] + w[y]
        BY <2>1, <4>1 DEF Sums
      <4>3. old[C \ {x}] \in Nat /\ w[x] \in Nat /\ w[y] \in Nat
        BY <2>1, <4>1 DEF Sums
      <4>4. sum[C \cup {y}] = old[(C \ {x}) \cup {y}] + w[x] /\ sum[C] = old[C \ {x}] + w[x]
        BY <3>2, <4>1
      <4> QED
        BY <4>2, <4>3, <4>4
    <3>3. CASE y # x /\ x \notin C
      <4>1. C \in SUBSET A /\ y \in A \ C /\ x \notin C \cup {y}
        BY <3>3
      <4> QED
        BY <2>1, <3>3, <4>1 DEF Sums
    <3> QED
      BY <3>1, <3>2, <3>3
  <2> HIDE DEF sum
  <2>5. Sums(sum, w, B)
    BY <2>2, <2>3, <2>4 DEF Sums
  <2> QED
    BY <2>5
<1> HIDE DEF T
<1>3. S \in T
  BY <1>1, <1>2, HoldsAllSubsets
<1> QED
  BY <1>3 DEF T

LEMMA SumsOnSubset ==
  ASSUME NEW S, NEW w, NEW sum, Sums(sum, w, S), NEW A \in SUBSET S
  PROVE  Sums([B \in SUBSET A |-> sum[B]], w, A)
BY DEF Sums

\* A fold of such weights, in whatever order, is their sum.
Folds(fold, w, S) ==
  fold = [A \in SUBSET S |->
            IF A = {} THEN 0
            ELSE LET x == CHOOSE y \in A : TRUE IN w[x] + fold[A \ {x}]]

LEMMA FoldIsSum ==
  ASSUME NEW S, IsFiniteSet(S), NEW w, \A x \in S : w[x] \in Nat,
         NEW sum, Sums(sum, w, S)
  PROVE  /\ Folds(sum, w, S)
         /\ \A fold : Folds(fold, w, S) => fold[S] = sum[S]
<1> DEFINE x(A) == CHOOSE y \in A : TRUE
<1>1. \A A \in SUBSET S : A # {} =>
        x(A) \in A /\ sum[A] = w[x(A)] + sum[A \ {x(A)}]
  <2> SUFFICES ASSUME NEW A \in SUBSET S, A # {}
               PROVE  x(A) \in A /\ sum[A] = w[x(A)] + sum[A \ {x(A)}]
    OBVIOUS
  <2>1. x(A) \in A
    OBVIOUS
  <2> HIDE DEF x
  <2>2. A \ {x(A)} \in SUBSET S /\ x(A) \in S \ (A \ {x(A)}) /\ (A \ {x(A)}) \cup {x(A)} = A
    BY <2>1
  <2>3. sum[A] = sum[A \ {x(A)}] + w[x(A)] /\ sum[A \ {x(A)}] \in Nat /\ w[x(A)] \in Nat
    BY <2>2 DEF Sums
  <2> QED
    BY <2>1, <2>3
<1>2. Folds(sum, w, S)
  <2>1. sum = [A \in SUBSET S |-> sum[A]] /\ sum[{}] = 0
    BY DEF Sums
  <2>2. \A A \in SUBSET S : sum[A] = IF A = {} THEN 0 ELSE w[x(A)] + sum[A \ {x(A)}]
    <3> HIDE DEF x
    <3> QED
      BY <1>1, <2>1
  <2> QED
    BY <2>1, <2>2 DEF Folds
<1>3. ASSUME NEW fold, Folds(fold, w, S)
      PROVE  fold[S] = sum[S]
  <2>1. \A A \in SUBSET S : fold[A] = IF A = {} THEN 0 ELSE w[x(A)] + fold[A \ {x(A)}]
    BY <1>3 DEF Folds
  <2> HIDE DEF x
  <2> DEFINE T == {A \in SUBSET S : fold[A] = sum[A]}
  <2>2. {} \in T
    BY <2>1 DEF Sums
  <2>3. \A A \in SUBSET S : A # {} /\ (\A y \in A : A \ {y} \in T) => A \in T
    BY <1>1, <2>1
  <2> HIDE DEF T
  <2>4. S \in T
    BY <2>2, <2>3, HoldsAllSubsets
  <2> QED
    BY <2>4 DEF T
<1> QED
  BY <1>2, <1>3

\* The sums the model makes.
AtSum(calls)       == MapThenSumSet(LAMBDA c : c.at, calls)
RowSum(rows, S)    == MapThenSumSet(LAMBDA t : rows[t].tokens, S)
BucketSum(buckets) == FoldFunction(LAMBDA b, n : b.calls + n, 0, buckets)

LEMMA TokensSummed ==
  ASSUME NEW S, IsFiniteSet(S), NEW w, \A c \in S : c.at \in Nat /\ w[c] = c.at,
         NEW sum, Sums(sum, w, S)
  PROVE  AtSum(S) = sum[S]
<1> DEFINE x(A) == CHOOSE y \in A : TRUE
           Eq(f) == f = [A \in SUBSET S |-> IF A = {} THEN 0 ELSE x(A).at + f[A \ {x(A)}]]
           f == CHOOSE g : Eq(g)
<1>1. AtSum(S) = f[S]
  BY DEF AtSum, MapThenSumSet, MapThenFoldSet
<1>2. \A A \in SUBSET S : A # {} => x(A) \in S
  OBVIOUS
<1>3. \A g : Eq(g) <=> Folds(g, w, S)
  BY <1>2 DEF Folds
<1> HIDE DEF x, Eq
<1> QED
  BY <1>1, <1>3, FoldIsSum

LEMMA ThreadsSummed ==
  ASSUME NEW S, IsFiniteSet(S), NEW rows, NEW w,
         \A t \in S : rows[t].tokens \in Nat /\ w[t] = rows[t].tokens,
         NEW sum, Sums(sum, w, S)
  PROVE  RowSum(rows, S) = sum[S]
<1> DEFINE x(A) == CHOOSE y \in A : TRUE
           Eq(f) == f = [A \in SUBSET S |->
                           IF A = {} THEN 0 ELSE rows[x(A)].tokens + f[A \ {x(A)}]]
           f == CHOOSE g : Eq(g)
<1>1. RowSum(rows, S) = f[S]
  BY DEF RowSum, MapThenSumSet, MapThenFoldSet
<1>2. \A A \in SUBSET S : A # {} => x(A) \in S
  OBVIOUS
<1>3. \A g : Eq(g) <=> Folds(g, w, S)
  BY <1>2 DEF Folds
<1> HIDE DEF x, Eq
<1> QED
  BY <1>1, <1>3, FoldIsSum

LEMMA BucketsSummed ==
  ASSUME NEW S, IsFiniteSet(S), NEW buckets, DOMAIN buckets = S, NEW w,
         \A i \in S : buckets[i].calls \in Nat /\ w[i] = buckets[i].calls,
         NEW sum, Sums(sum, w, S)
  PROVE  BucketSum(buckets) = sum[S]
<1> DEFINE x(A) == CHOOSE y \in A : TRUE
           Eq(f) == f = [A \in SUBSET S |->
                           IF A = {} THEN 0 ELSE buckets[x(A)].calls + f[A \ {x(A)}]]
           f == CHOOSE g : Eq(g)
<1>1. BucketSum(buckets) = f[S]
  BY DEF BucketSum, FoldFunction, FoldFunctionOnSet, MapThenFoldSet
<1>2. \A A \in SUBSET S : A # {} => x(A) \in S
  OBVIOUS
<1>3. \A g : Eq(g) <=> Folds(g, w, S)
  BY <1>2 DEF Folds
<1> HIDE DEF x, Eq
<1> QED
  BY <1>1, <1>3, FoldIsSum

LEMMA SumOfTwo ==
  ASSUME NEW S, IsFiniteSet(S), NEW w, \A x \in S : w[x] \in Nat,
         NEW sum, Sums(sum, w, S),
         NEW A \in SUBSET S, NEW B \in SUBSET S, A \cap B = {}
  PROVE  sum[A \cup B] = sum[A] + sum[B]
<1> DEFINE T == {C \in SUBSET B : sum[A \cup C] = sum[A] + sum[C]}
<1>1. {} \in T
  BY DEF Sums
<1>2. ASSUME NEW C \in SUBSET B, C # {}, \A x \in C : C \ {x} \in T
      PROVE  C \in T
  <2> PICK x \in C : TRUE
    BY <1>2
  <2>1. sum[A \cup (C \ {x})] = sum[A] + sum[C \ {x}]
    BY <1>2
  <2> DEFINE D == C \ {x}
  <2>2. /\ D \in SUBSET S /\ x \in S \ D /\ D \cup {x} = C
        /\ A \cup D \in SUBSET S /\ x \in S \ (A \cup D) /\ (A \cup D) \cup {x} = A \cup C
    OBVIOUS
  <2> HIDE DEF D
  <2>3. sum[C] = sum[D] + w[x]
    BY <2>2 DEF Sums
  <2>4. sum[A \cup C] = sum[A \cup D] + w[x]
    BY <2>2 DEF Sums
  <2>5. sum[A] \in Nat /\ sum[D] \in Nat /\ w[x] \in Nat
    BY <2>2 DEF Sums
  <2> QED
    BY <2>1, <2>3, <2>4, <2>5 DEF D
<1> HIDE DEF T
<1>3. IsFiniteSet(B)
  BY FS_Subset
<1>4. B \in T
  BY <1>1, <1>2, <1>3, HoldsAllSubsets
<1> QED
  BY <1>4 DEF T

-----------------------------------------------------------------------------
(* The figures of the Usage page.                                          *)

LEMMA Extremes ==
  ASSUME NEW S \in SUBSET Nat, IsFiniteSet(S), S # {}
  PROVE  /\ Max(S) \in S /\ \A x \in S : x <= Max(S)
         /\ Min(S) \in S /\ \A x \in S : Min(S) <= x
<1> DEFINE T == {A \in SUBSET S : A = {} \/ ((\E m \in A : \A x \in A : x <= m)
                                           /\ (\E m \in A : \A x \in A : m <= x))}
<1>1. {} \in T
  OBVIOUS
<1>2. ASSUME NEW A \in SUBSET S, A # {}, \A x \in A : A \ {x} \in T
      PROVE  A \in T
  <2> PICK x \in A : TRUE
    BY <1>2
  <2>1. A \ {x} \in T
    BY <1>2
  <2>2. CASE A \ {x} = {}
    <3>1. \A y \in A : y = x
      BY <2>2
    <3> QED
      BY <3>1
  <2>3. CASE A \ {x} # {}
    <3>1. PICK m \in A \ {x} : \A y \in A \ {x} : y <= m
      BY <2>1, <2>3
    <3>2. PICK n \in A \ {x} : \A y \in A \ {x} : n <= y
      BY <2>1, <2>3
    <3>3. \E k \in A : \A y \in A : y <= k
      <4>1. CASE x <= m
        BY <3>1, <4>1
      <4>2. CASE m <= x
        BY <3>1, <4>2
      <4> QED
        BY <4>1, <4>2
    <3>4. \E k \in A : \A y \in A : k <= y
      <4>1. CASE n <= x
        BY <3>2, <4>1
      <4>2. CASE x <= n
        BY <3>2, <4>2
      <4> QED
        BY <4>1, <4>2
    <3> QED
      BY <3>3, <3>4
  <2> QED
    BY <2>2, <2>3
<1> HIDE DEF T
<1>3. S \in T
  BY <1>1, <1>2, HoldsAllSubsets
<1>4. (\E m \in S : \A x \in S : m >= x) /\ (\E m \in S : \A x \in S : m <= x)
  BY <1>3 DEF T
<1> QED
  BY <1>4 DEF Max, Min

Run(dates, d, n) == d - n + 1 .. d \subseteq dates

LEMMA StreakIs ==
  ASSUME NEW dates \in SUBSET Nat, IsFiniteSet(dates), NEW d \in dates
  PROVE  /\ StreakTo(dates, d) \in 1..Cardinality(dates) /\ Run(dates, d, StreakTo(dates, d))
         /\ \A n \in Nat \ {0} : Run(dates, d, n) => n <= StreakTo(dates, d)
<1> DEFINE k == Cardinality(dates)
           T == {n \in 1..k : d - n + 1 .. d \subseteq dates}
<1>1. k \in Nat /\ k # 0
  BY FS_CardinalityType, FS_EmptySet
<1>2. ASSUME NEW n \in Nat \ {0}, Run(dates, d, n)
      PROVE  n \in T
  <2>1. d \in Int /\ d - n + 1 \in Int
    OBVIOUS
  <2>2. Cardinality(d - n + 1 .. d) = d - (d - n + 1) + 1
    <3>1. ~(d - n + 1 > d)
      OBVIOUS
    <3> QED
      BY <2>1, <3>1, FS_Interval
  <2>3. Cardinality(d - n + 1 .. d) <= k
    BY <1>2, FS_Subset DEF Run
  <2>4. n <= k
    BY <1>1, <2>1, <2>2, <2>3
  <2> QED
    BY <1>1, <1>2, <2>4 DEF Run
<1>3. Run(dates, d, 1)
  BY DEF Run
<1>4. T \in SUBSET Nat /\ T # {} /\ IsFiniteSet(T)
  <2>1. 1 \in T
    BY <1>2, <1>3
  <2>2. T \in SUBSET Nat
    BY <1>1
  <2>3. IsFiniteSet(1..k)
    BY <1>1, FS_Interval
  <2>4. T \in SUBSET (1..k)
    OBVIOUS
  <2> HIDE DEF T
  <2> QED
    BY <2>1, <2>2, <2>3, <2>4, FS_Subset
<1>5. StreakTo(dates, d) = Max(T)
  BY DEF StreakTo
<1> HIDE DEF T
<1>6. Max(T) \in T /\ \A x \in T : x <= Max(T)
  BY <1>4, Extremes
<1> QED
  BY <1>2, <1>5, <1>6 DEF Run, T

LEMMA LongestIs ==
  ASSUME NEW dates \in SUBSET Nat, IsFiniteSet(dates), dates # {}
  PROVE  /\ \E d \in dates : LongestStreak(dates) = StreakTo(dates, d)
         /\ \A d \in dates : StreakTo(dates, d) <= LongestStreak(dates)
         /\ Max(dates) \in dates
<1> DEFINE T == {StreakTo(dates, d) : d \in dates}
<1>1. \A d \in dates : StreakTo(dates, d) \in 1..Cardinality(dates)
  BY StreakIs
<1>2. Cardinality(dates) \in Nat
  BY FS_CardinalityType
<1>3. T \in SUBSET Nat /\ T # {} /\ IsFiniteSet(T)
  <2>1. T \in SUBSET (1..Cardinality(dates))
    BY <1>1
  <2>2. IsFiniteSet(1..Cardinality(dates))
    <3>1. 1 \in Int /\ Cardinality(dates) \in Int
      BY <1>2
    <3> QED
      BY <3>1, FS_Interval
  <2>3. T # {}
    OBVIOUS
  <2>4. T \in SUBSET Nat
    BY <1>1
  <2> HIDE DEF T
  <2>5. IsFiniteSet(T)
    BY <2>1, <2>2, FS_Subset
  <2> QED
    BY <2>3, <2>4, <2>5
<1>4. LongestStreak(dates) = Max(T)
  BY DEF LongestStreak
<1> HIDE DEF T
<1>5. Max(T) \in T /\ \A x \in T : x <= Max(T)
  BY <1>3, Extremes
<1>6. \A d \in dates : StreakTo(dates, d) \in T
  BY DEF T
<1>7. \E d \in dates : Max(T) = StreakTo(dates, d)
  BY <1>5 DEF T
<1> QED
  BY <1>4, <1>5, <1>6, <1>7, Extremes

\* The streaks are runs of the days, and the longest is the longest.
LEMMA StreaksAgree ==
  ASSUME NEW dates \in SUBSET Nat, IsFiniteSet(dates)
  PROVE  /\ CurrentStreak(dates) <= LongestStreak(dates)
         /\ dates # {} => \E d \in dates : d .. d + LongestStreak(dates) - 1 \subseteq dates
         /\ ~\E d \in dates : d .. d + (LongestStreak(dates) + 1) - 1 \subseteq dates
<1>1. CASE dates = {}
  BY <1>1 DEF CurrentStreak, LongestStreak
<1>2. CASE dates # {}
  <2> DEFINE n == LongestStreak(dates)
  <2>1. PICK d \in dates : n = StreakTo(dates, d)
    BY <1>2, LongestIs
  <2>2. Cardinality(dates) \in Nat
    BY FS_CardinalityType
  <2>3. n \in Nat /\ n > 0 /\ Run(dates, d, n)
    BY <2>1, <2>2, StreakIs
  <2>4. CurrentStreak(dates) <= n
    BY <1>2, LongestIs DEF CurrentStreak
  <2> HIDE DEF n
  <2>5. \E e \in dates : e .. e + n - 1 \subseteq dates
    <3> DEFINE e == d - n + 1
    <3>1. d \in Int /\ e \in Int /\ e <= d /\ e + n - 1 = d
      BY <2>3
    <3>2. e \in dates
      BY <2>3, <3>1 DEF Run
    <3> QED
      BY <2>3, <3>1, <3>2 DEF Run
  <2>6. ASSUME NEW e \in dates, e .. e + (n + 1) - 1 \subseteq dates
        PROVE  FALSE
    <3>1. e + n \in Int /\ e \in Int /\ (e + n) - (n + 1) + 1 = e /\ e + (n + 1) - 1 = e + n
      BY <2>3
    <3>2. Run(dates, e + n, n + 1)
      BY <2>6, <3>1 DEF Run
    <3>3. e + n \in dates
      BY <2>3, <2>6, <3>1
    <3>4. n + 1 \in Nat \ {0}
      BY <2>3
    <3>5. n + 1 <= StreakTo(dates, e + n)
      BY <3>2, <3>3, <3>4, StreakIs
    <3>6. StreakTo(dates, e + n) <= n /\ StreakTo(dates, e + n) \in Nat
      BY <1>2, <2>2, <3>3, LongestIs, StreakIs DEF n
    <3> QED
      BY <2>3, <3>5, <3>6
  <2> QED
    BY <2>4, <2>5, <2>6 DEF n
<1> QED
  BY <1>1, <1>2

\* The calls the page counts, with the archived ones or without.
Counted(calls, a) == {c \in calls : a \/ ~c.archived}

\* The buckets of a period add up to its calls.
LEMMA BucketsAgree ==
  ASSUME NEW calls \in SUBSET Calls, IsFiniteSet(calls), NEW a \in BOOLEAN
  PROVE  LET mine    == Selected(calls, Total, a)
             buckets == ActivityBuckets(calls, Total, a)
         IN  /\ mine # {} => buckets[Len(buckets)].sum = Cardinality(mine)
             /\ BucketSum(buckets) = Cardinality(mine)
<1> DEFINE mine    == Counted(calls, a)
           dates   == ActivityDates(calls, Total, a)
           buckets == ActivityBuckets(calls, Total, a)
<1>1. Selected(calls, Total, a) = mine
  BY DEF Selected, Counted
<1>2. dates = {c.at : c \in mine} /\ dates \in SUBSET Nat /\ IsFiniteSet(mine)
  <2>1. dates = {c.at : c \in mine}
    BY DEF ActivityDates, Counted
  <2>2. \A c \in mine : c.at \in Nat
    BY DEF Counted, Calls
  <2>3. mine \in SUBSET calls
    BY DEF Counted
  <2>4. IsFiniteSet(mine)
    BY <2>3, FS_Subset
  <2> QED
    BY <2>1, <2>2, <2>4
<1>3. IsFiniteSet(dates)
  <2> DEFINE f == [c \in mine |-> c.at]
  <2>1. f \in Surjection(mine, dates)
    BY <1>2 DEF Surjection
  <2> QED
    BY <1>2, <2>1, FS_Surjection
<1>4. CASE mine = {}
  <2>1. buckets = <<>>
    BY <1>2, <1>4 DEF ActivityBuckets
  <2> DEFINE w == <<>>
             sum == [A \in SUBSET {} |-> 0]
  <2>2. Sums(sum, w, {})
    BY DEF Sums
  <2>3. DOMAIN buckets = {} /\ IsFiniteSet({})
    BY <2>1, FS_EmptySet
  <2> HIDE DEF sum
  <2>4. BucketSum(buckets) = sum[{}]
    <3> HIDE DEF buckets, w
    <3> QED
      BY <2>2, <2>3, BucketsSummed
  <2>5. Cardinality(mine) = 0
    BY <1>4, FS_EmptySet
  <2> QED
    BY <1>1, <1>4, <2>2, <2>4, <2>5 DEF Sums
<1>5. CASE mine # {}
  <2> DEFINE k       == Max(dates) - Min(dates) + 1
             day(i)  == Min(dates) + i - 1
             on(A)   == {c \in mine : c.at - Min(dates) + 1 \in A}
             w       == [i \in 1..k |-> Cardinality(on({i}))]
             sum     == [A \in SUBSET (1..k) |-> Cardinality(on(A))]
  <2>1. dates # {}
    BY <1>2, <1>5
  <2>2. /\ Max(dates) \in dates /\ Min(dates) \in dates
        /\ \A c \in mine : c.at \in Nat /\ c.at <= Max(dates) /\ Min(dates) <= c.at
    <3>1. \A c \in mine : c.at \in dates
      BY <1>2
    <3> HIDE DEF mine, dates
    <3>2. /\ Max(dates) \in dates /\ \A d \in dates : d <= Max(dates)
          /\ Min(dates) \in dates /\ \A d \in dates : Min(dates) <= d
      BY <1>2, <1>3, <2>1, Extremes
    <3> QED
      BY <1>2, <3>1, <3>2
  <2>3. Max(dates) \in Nat /\ Min(dates) \in Nat /\ k \in Nat \ {0}
    BY <1>2, <2>2
  <2> HIDE DEF mine, dates
  <2>4. /\ buckets = [i \in 1..k |->
                        [date  |-> day(i),
                         calls |-> Cardinality({c \in mine : c.at = day(i)}),
                         sum   |-> Cardinality({c \in mine : c.at <= day(i)})]]
    <3>1. \A d : /\ {c \in calls : (a \/ ~c.archived) /\ c.at = d} = {c \in mine : c.at = d}
                 /\ {c \in calls : (a \/ ~c.archived) /\ c.at <= d} = {c \in mine : c.at <= d}
      BY DEF mine, Counted
    <3> QED
      BY <2>1, <3>1 DEF ActivityBuckets, dates
  <2>5. Len(buckets) = k /\ DOMAIN buckets = 1..k
    BY <2>3, <2>4
  <2> HIDE DEF buckets
  <2>6. buckets[k].sum = Cardinality(mine)
    <3>1. k \in 1..k /\ day(k) = Max(dates)
      BY <2>3
    <3>2. {c \in mine : c.at <= day(k)} = mine
      BY <2>2, <3>1
    <3> QED
      BY <2>4, <3>1, <3>2
  <2>7. \A A : IsFiniteSet(on(A)) /\ Cardinality(on(A)) \in Nat
    <3>1. \A A : on(A) \in SUBSET mine
      OBVIOUS
    <3> QED
      BY <1>2, <3>1, FS_Subset, FS_CardinalityType
  <2>8. \A i \in 1..k : on({i}) = {c \in mine : c.at = day(i)}
    BY <2>2, <2>3
  <2>9. \A i \in 1..k : buckets[i].calls \in Nat /\ w[i] = buckets[i].calls
    BY <2>4, <2>7, <2>8
  <2>10. Sums(sum, w, 1..k)
    <3>1. sum \in [SUBSET (1..k) -> Nat]
      BY <2>7
    <3>2. sum[{}] = 0
      <4>1. on({}) = {}
        OBVIOUS
      <4> QED
        BY <4>1, FS_EmptySet
    <3>3. ASSUME NEW A \in SUBSET (1..k), NEW i \in (1..k) \ A
          PROVE  sum[A \cup {i}] = sum[A] + w[i]
      <4>1. on(A \cup {i}) = on(A) \cup on({i}) /\ on(A) \cap on({i}) = {}
        OBVIOUS
      <4> HIDE DEF on
      <4>2. Cardinality(on(A) \cup on({i})) = Cardinality(on(A)) + Cardinality(on({i}))
        <5>1. IsFiniteSet(on(A)) /\ IsFiniteSet(on({i}))
          BY <2>7
        <5>2. Cardinality(on(A) \cup on({i})) = Cardinality(on(A)) + Cardinality(on({i}))
                                                  - Cardinality({})
          BY <4>1, <5>1, FS_Union
        <5> QED
          BY <2>7, <5>2, FS_EmptySet
      <4> QED
        BY <4>1, <4>2
    <3> QED
      BY <3>1, <3>2, <3>3 DEF Sums
  <2>11. sum[1..k] = Cardinality(mine)
    <3>1. on(1..k) = mine
      BY <2>2, <2>3
    <3> QED
      BY <3>1
  <2>12. IsFiniteSet(1..k)
    BY <2>3, FS_Interval
  <2> DEFINE S == 1..k
  <2> HIDE DEF sum, w, S
  <2>13. BucketSum(buckets) = sum[S]
    <3>1. DOMAIN buckets = S /\ IsFiniteSet(S) /\ Sums(sum, w, S)
          /\ \A i \in S : buckets[i].calls \in Nat /\ w[i] = buckets[i].calls
      BY <2>5, <2>9, <2>10, <2>12 DEF S
    <3> QED
      BY <3>1, BucketsSummed
  <2> QED
    BY <1>1, <2>5, <2>6, <2>11, <2>13 DEF buckets, S
<1> QED
  BY <1>4, <1>5

\* The threads that are listed account for every token.
LEMMA ThreadsAgree ==
  ASSUME NEW calls \in SUBSET Calls, IsFiniteSet(calls), NEW scope
  PROVE  LET threads == AllThreads(calls)
             listed  == ListedThreads(threads, scope, TRUE)
         IN  RowSum(threads, listed) = TotalTokens(calls, scope, TRUE)
<1> DEFINE threads == AllThreads(calls)
           listed  == ListedThreads(threads, scope, TRUE)
           mine    == Selected(calls, scope, TRUE)
           at      == [c \in calls |-> c.at]
           of(A)   == {c \in calls : ThreadOf(c) \in A}
<1>1. \A c \in calls : c.at \in Nat /\ at[c] = c.at /\ ThreadOf(c).home = c.home
  BY DEF Calls, ThreadOf
<1>2. PICK sum : Sums(sum, at, calls)
  BY <1>1, SumsExist
<1>3. ASSUME NEW A \in SUBSET calls
      PROVE  AtSum(A) = sum[A]
  <2> DEFINE part == [B \in SUBSET A |-> sum[B]]
  <2>1. Sums(part, at, A)
    BY <1>2, SumsOnSubset
  <2>2. IsFiniteSet(A) /\ \A c \in A : c.at \in Nat /\ at[c] = c.at
    BY <1>1, FS_Subset
  <2>3. part[A] = sum[A]
    OBVIOUS
  <2> HIDE DEF part, at
  <2> QED
    BY <2>1, <2>2, <2>3, TokensSummed
<1>4. DOMAIN threads = {ThreadOf(c) : c \in calls}
      /\ \A t \in DOMAIN threads : threads[t].tokens = AtSum(of({t}))
  <2>1. \A t : {c \in calls : ThreadOf(c) = t} = of({t})
    OBVIOUS
  <2> HIDE DEF of
  <2>2. \A t : ThreadRow(calls, t).tokens = AtSum(of({t}))
    BY <2>1 DEF ThreadRow, Summary, AtSum
  <2> QED
    BY <2>2 DEF AllThreads
<1>5. /\ listed \in SUBSET DOMAIN threads /\ of(listed) = mine
      /\ mine \in SUBSET calls
  BY <1>1, <1>4 DEF ListedThreads, Selected
<1>6. IsFiniteSet(listed)
  <2> DEFINE f == [c \in mine |-> ThreadOf(c)]
  <2>1. listed = {ThreadOf(c) : c \in mine}
    BY <1>4, <1>5
  <2>2. f \in Surjection(mine, listed)
    BY <2>1 DEF Surjection
  <2>3. IsFiniteSet(mine)
    BY <1>5, FS_Subset
  <2> QED
    BY <2>2, <2>3, FS_Surjection
<1> DEFINE w     == [t \in listed |-> sum[of({t})]]
           total == [A \in SUBSET listed |-> sum[of(A)]]
<1>7. \A A : of(A) \in SUBSET calls /\ sum[of(A)] \in Nat
  BY <1>2 DEF Sums
<1> HIDE DEF listed, mine, threads, at
<1>8. Sums(total, w, listed)
  <2>1. total \in [SUBSET listed -> Nat]
    BY <1>7
  <2>2. total[{}] = 0
    <3>1. of({}) = {}
      OBVIOUS
    <3> QED
      BY <1>2, <3>1 DEF Sums
  <2>3. ASSUME NEW A \in SUBSET listed, NEW t \in listed \ A
        PROVE  total[A \cup {t}] = total[A] + w[t]
    <3>1. of(A \cup {t}) = of(A) \cup of({t}) /\ of(A) \cap of({t}) = {}
      OBVIOUS
    <3> HIDE DEF of
    <3>2. sum[of(A) \cup of({t})] = sum[of(A)] + sum[of({t})]
      <4>1. \A c \in calls : at[c] \in Nat
        BY <1>1
      <4>2. of(A) \in SUBSET calls /\ of({t}) \in SUBSET calls
        BY <1>7
      <4> DEFINE C == of(A)
                 D == of({t})
      <4>3. C \in SUBSET calls /\ D \in SUBSET calls /\ C \cap D = {}
        BY <3>1, <4>2
      <4> HIDE DEF C, D
      <4>4. sum[C \cup D] = sum[C] + sum[D]
        BY <1>2, <4>1, <4>3, SumOfTwo
      <4> QED
        BY <4>4 DEF C, D
    <3> QED
      BY <3>1, <3>2
  <2> QED
    BY <2>1, <2>2, <2>3 DEF Sums
<1>9. \A t \in listed : threads[t].tokens \in Nat /\ w[t] = threads[t].tokens
  BY <1>3, <1>4, <1>5, <1>7
<1>10. total[listed] = sum[mine]
  BY <1>5
<1> HIDE DEF total, w
<1>11. RowSum(threads, listed) = total[listed]
  BY <1>6, <1>8, <1>9, ThreadsSummed
<1>12. AtSum(mine) = sum[mine]
  BY <1>3, <1>5
<1>13. TotalTokens(calls, scope, TRUE) = AtSum(mine)
  BY DEF TotalTokens, AtSum, mine
<1> QED
  BY <1>10, <1>11, <1>12, <1>13 DEF listed, threads

-----------------------------------------------------------------------------
(* There are only so many calls.                                           *)

Logged == {p \in Paths : last[p] # None}

Finite ==
  /\ IsFiniteSet(Logged) /\ IsFiniteSet(index.calls)
  /\ refresh.stage = "parsed" =>
       \A p \in DOMAIN refresh.parsed : IsFiniteSet(refresh.parsed[p].calls)

LEMMA ParsedFinite ==
  ASSUME NEW p \in Paths, NEW lines \in Seq(Line), NEW from \in Nat,
         NEW state \in Models \cup {None}, NEW titles \in Titles
  PROVE  IsFiniteSet(Parsed(p, lines, from, state, titles))
<1> DEFINE Read == {j \in from + 1 .. Len(lines) : lines[j].kind = "token"}
           read == Parsed(p, lines, from, state, titles)
           f == [i \in Read |-> [path |-> p, line |-> i, at |-> lines[i].at,
                  model |-> ModelAt(lines, from, state, i), name |-> titles[p.session],
                  home |-> p.home, archived |-> p.archived]]
<1>1. f \in Surjection(Read, read)
  BY DEF Parsed, Surjection
<1>2. IsFiniteSet(Read)
  <2>1. from + 1 \in Int /\ Len(lines) \in Int
    OBVIOUS
  <2>2. IsFiniteSet(from + 1 .. Len(lines))
    BY <2>1, FS_Interval
  <2>3. Read \in SUBSET (from + 1 .. Len(lines))
    OBVIOUS
  <2> QED
    BY <2>2, <2>3, FS_Subset
<1> HIDE DEF f, Read, read
<1>3. IsFiniteSet(read)
  BY <1>1, <1>2, FS_Surjection
<1> QED
  BY <1>3 DEF read

LEMMA AppliedFinite ==
  ASSUME IInv, Finite, refresh.stage = "parsed"
  PROVE  IsFiniteSet(Applied)
<1>1. IsFiniteSet(Fresh)
  <2> DEFINE Read == DOMAIN refresh.parsed
             Parts == {refresh.parsed[p].calls : p \in Read}
             f == [p \in Read |-> refresh.parsed[p].calls]
  <2>1. Read \in SUBSET Logged
    BY DEF IInv, ParsesFit, PlansFit, LogsFit, Types, Refreshes, Logged
  <2>2. IsFiniteSet(Read)
    BY <2>1, FS_Subset DEF Finite
  <2>3. f \in Surjection(Read, Parts)
    BY DEF Surjection
  <2>4. \A T \in Parts : IsFiniteSet(T)
    BY DEF Finite
  <2>5. Fresh = UNION Parts
    BY DEF Fresh
  <2> HIDE DEF f, Parts, Read
  <2>6. IsFiniteSet(Parts)
    BY <2>2, <2>3, FS_Surjection
  <2> QED
    BY <2>4, <2>5, <2>6, FS_UNION
<1>2. IsFiniteSet({Settle(c) : c \in index.calls})
  <2> DEFINE f == [c \in index.calls |-> Settle(c)]
             T == {Settle(c) : c \in index.calls}
  <2>1. f \in Surjection(index.calls, T)
    BY DEF Surjection
  <2> HIDE DEF f, T
  <2>2. IsFiniteSet(T)
    BY <2>1, FS_Surjection DEF Finite
  <2> QED
    BY <2>2 DEF T
<1>3. Applied \in SUBSET (Fresh \cup {Settle(c) : c \in index.calls})
  BY AppliedIs
<1>4. IsFiniteSet(Fresh \cup {Settle(c) : c \in index.calls})
  BY <1>1, <1>2, FS_Union
<1> QED
  BY <1>3, <1>4, FS_Subset

\* A step gives a content to at most one more path.
LEMMA LoggedGrowsByOne ==
  ASSUME IInv, [Next]_vars
  PROVE  \E q : Logged' \subseteq Logged \cup {q}
<1>1. CASE UNCHANGED last
  BY <1>1 DEF Logged
<1>2. ASSUME NEW q \in Paths, NEW v, last' = [last EXCEPT ![q] = v]
      PROVE  Logged' \subseteq Logged \cup {q}
  BY <1>2 DEF Logged, IInv, Types
<1>3. CASE \E p \in Paths : CodexWrites(p)
  <2> PICK p \in Paths : CodexWrites(p)
    BY <1>3
  <2>1. \E v : last' = [last EXCEPT ![p] = v]
    BY DEF CodexWrites, Write
  <2> QED
    BY <1>2, <2>1
<1>4. CASE \E p \in Paths : CodexArchives(p)
  <2> PICK p \in Paths : CodexArchives(p)
    BY <1>4
  <2>1. [p EXCEPT !.archived = TRUE] \in Paths
    BY DEF Paths
  <2> QED
    BY <1>2, <2>1 DEF CodexArchives
<1>5. CASE \E p, q \in Paths : Relay(p, q)
  <2> PICK p \in Paths, q \in Paths : Relay(p, q)
    BY <1>5
  <2>1. \E v : last' = [last EXCEPT ![q] = v]
    BY DEF Relay, Write
  <2> QED
    BY <1>2, <2>1
<1>6. CASE \E P \in SUBSET SetAside : PutBack(P)
  <2> PICK P \in SUBSET SetAside : PutBack(P)
    BY <1>6
  <2>1. \A p \in P : last[p] # None
    BY DEF IInv, LogsFit, SetAside
  <2>2. \A p \in Paths : last'[p] = IF p \in P THEN staged[p].lines ELSE last[p]
    BY DEF PutBack
  <2> QED
    BY <2>1, <2>2 DEF Logged
<1>7. CASE DeleteUndoes \/ DeleteUnstages
  BY <1>6, <1>7 DEF DeleteUndoes, DeleteUnstages
<1> QED
  BY <1>1, <1>3, <1>4, <1>5, <1>7
     DEF Next, vars, CodexNames, RefreshLists, RefreshPlans, RefreshParses, RefreshApplies,
         Fails, Reset, DeleteBegins, DeleteStages, DeleteUnnames, DeleteClears, DeleteForgets, DeleteIndexes,
         Crash, logs

LEMMA CallsStayFinite ==
  ASSUME IInv, Finite, [Next]_vars
  PROVE  IsFiniteSet(index'.calls)
<1>1. CASE UNCHANGED index
  BY <1>1 DEF Finite
<1>2. CASE index' = Empty
  BY <1>2, EmptyIs, FS_EmptySet
<1>3. CASE refresh.stage = "parsed" /\ index'.calls = Applied
  BY <1>3, AppliedFinite
<1>4. CASE index' = Without(job.paths)
  <2>1. Without(job.paths).calls \in SUBSET index.calls
    BY DEF Without
  <2> QED
    BY <1>4, <2>1, FS_Subset DEF Finite
<1>5. CASE RefreshApplies
  <2>1. Fails => UNCHANGED index
    BY DEF Fails
  <2>2. CASE ~Fails
    <3>1. refresh.stage = "parsed" /\ index'.calls = Applied
      BY <1>5, <2>2 DEF RefreshApplies
    <3> QED
      BY <1>3, <3>1
  <2> QED
    BY <1>1, <2>1, <2>2
<1>6. CASE Reset \/ DeleteClears
  BY <1>1, <1>2, <1>4, <1>6 DEF Reset, DeleteClears
<1>7. CASE \/ \E h \in Homes, P \in SUBSET {p \in Paths : disk[p] # None} : DeleteBegins(h, P)
           \/ \E p \in Paths : DeleteStages(p)
           \/ DeleteUnstages \/ DeleteUndoes
  BY <1>1, <1>7 DEF DeleteBegins, DeleteStages, DeleteUnstages, DeleteUndoes
<1> QED
  BY <1>1, <1>5, <1>6, <1>7
     DEF Next, vars, CodexWrites, CodexArchives, Relay, Write, CodexNames, RefreshLists,
         RefreshPlans, RefreshParses, Fails, DeleteUnnames, DeleteForgets, DeleteIndexes, Crash,
         logs

LEMMA PartsStayFinite ==
  ASSUME IInv, Finite, [Next]_vars, refresh'.stage = "parsed", NEW p \in DOMAIN refresh'.parsed
  PROVE  IsFiniteSet(refresh'.parsed[p].calls)
<1>1. CASE UNCHANGED refresh
  BY <1>1 DEF Finite
<1>2. CASE RefreshParses
  <2>1. /\ refresh.stage = "planned" /\ p \in DOMAIN refresh.plans /\ disk[p] # None
        /\ refresh'.parsed[p] = ParseOf(p, refresh.plans[p])
    <3>1. ~Fails
      BY CalmIsTyped DEF Fails
    <3>2. /\ \A q \in DOMAIN refresh.plans : disk[q] # None
          /\ refresh' = [refresh EXCEPT !.stage = "parsed",
               !.parsed = [q \in DOMAIN refresh.plans |-> ParseOf(q, refresh.plans[q])]]
      BY <1>2, <3>1 DEF RefreshParses
    <3>3. refresh'.parsed = [q \in DOMAIN refresh.plans |-> ParseOf(q, refresh.plans[q])]
      <4>1. refresh \in Refreshes
        BY DEF IInv, Types
      <4> QED
        BY <3>2, <4>1 DEF Refreshes
    <3> QED
      BY <1>2, <3>2, <3>3 DEF RefreshParses
  <2>2. p \in Paths /\ refresh.plans[p].from \in Nat
        /\ refresh.plans[p].model \in Models \cup {None}
    BY <2>1, PlannedIsKnown DEF Plans
  <2>3. disk[p].lines \in Seq(Line) /\ refresh.index \in Titles
    BY <2>1, <2>2 DEF IInv, Types, Files
  <2>4. refresh'.parsed[p].calls = Parsed(p, disk[p].lines, refresh.plans[p].from,
                                          refresh.plans[p].model, refresh.index)
    BY <2>1 DEF ParseOf
  <2> QED
    BY <2>2, <2>3, <2>4, ParsedFinite
<1>3. CASE refresh' = Calm \/ refresh'.stage \in {"listed", "planned"}
  BY <1>3, CalmIsTyped
<1>4. CASE RefreshLists \/ RefreshPlans \/ RefreshApplies \/ DeleteIndexes
  <2>1. refresh' = Calm \/ refresh'.stage \in {"listed", "planned"}
    BY <1>4 DEF RefreshLists, RefreshPlans, RefreshApplies, DeleteIndexes, List, Fails, Calm,
                IInv, Types, Refreshes
  <2> QED
    BY <1>3, <2>1
<1> QED
  BY <1>1, <1>2, <1>3, <1>4
     DEF Next, vars, CodexWrites, CodexArchives, Relay, Write, CodexNames, Reset, DeleteBegins, DeleteStages, DeleteUnstages,
         DeleteUnnames, DeleteClears, DeleteForgets, DeleteUndoes, Crash

LEMMA FiniteHolds == Spec => []Finite
<1>1. Init => Finite
  <2> SUFFICES ASSUME Init
               PROVE  Finite
    OBVIOUS
  <2>1. PICK p \in Paths : /\ last = [q \in Paths |-> IF q = p THEN <<FirstLine>> ELSE None]
                           /\ index \in {Empty, Legacy(p, FirstLine)}
    BY DEF Init
  <2>2. IsFiniteSet(Logged)
    <3>1. Logged \in SUBSET {p} /\ IsFiniteSet({p})
      BY <2>1, FS_Singleton DEF Logged
    <3> QED
      BY <3>1, FS_Subset
  <2>3. IsFiniteSet(index.calls)
    <3>1. CASE index = Empty
      BY <3>1, EmptyIs, FS_EmptySet
    <3>2. CASE index = Legacy(p, FirstLine)
      <4> DEFINE untitled == [s \in Sessions |-> None]
                 read == Parsed(p, <<FirstLine>>, 0, None, untitled)
                 f == [c \in read |-> [c EXCEPT !.home = None]]
      <4>1. index.calls = {[c EXCEPT !.home = None] : c \in read}
        BY <3>2 DEF Legacy
      <4>2. untitled \in Titles /\ <<FirstLine>> \in Seq(Line)
        BY DEF Titles, FirstLine, Line
      <4>3. IsFiniteSet(read)
        BY <4>2, ParsedFinite
      <4> HIDE DEF read
      <4>4. f \in Surjection(read, index.calls)
        BY <4>1 DEF Surjection
      <4> HIDE DEF f
      <4> QED
        BY <4>3, <4>4, FS_Surjection
    <3> QED
      BY <2>1, <3>1, <3>2
  <2>4. refresh.stage # "parsed"
    BY CalmIsTyped DEF Init
  <2> QED
    BY <2>2, <2>3, <2>4 DEF Finite
<1>2. ASSUME IInv, Finite, [Next]_vars
      PROVE  Finite'
  <2>1. PICK q : Logged' \subseteq Logged \cup {q}
    BY <1>2, LoggedGrowsByOne
  <2>2. IsFiniteSet(Logged \cup {q})
    BY <1>2, FS_AddElement DEF Finite
  <2>3. IsFiniteSet(Logged')
    BY <2>1, <2>2, FS_Subset
  <2> QED
    BY <1>2, <2>3, CallsStayFinite, PartsStayFinite DEF Finite
<1> QED
  BY <1>1, <1>2, IInvHolds, PTL DEF Spec

\* The aggregates the index keeps are what all its calls give, although a
\* refresh and a deletion make again only the partitions they touched
\* (rebuild_usage_aggregates, collect_changed_usage_partitions).
THEOREM AggregatesFit == Spec => []AggregatesMatchCalls
<1>1. IInv => AggregatesMatchCalls
  BY TypesHold DEF IInv, Tallied, AggregatesMatchCalls
<1> QED
  BY <1>1, IInvHolds, PTL

\* What the Usage page shows agrees with the calls and with itself: the figures
\* that are kept and those that are worked out, the buckets of a period, the
\* streaks of days and the tokens of the threads (query_activity_buckets,
\* longest_streak_len, query_threads_page).
THEOREM FiguresFit == Spec => []FiguresMatchCalls
<1>1. IInv /\ Finite => FiguresAgree
  <2> SUFFICES ASSUME IInv, Finite
               PROVE  FiguresAgree
    OBVIOUS
  <2> DEFINE calls == index.calls
  <2>1. calls \in SUBSET Calls /\ IsFiniteSet(calls) /\ index.threads = AllThreads(calls)
    BY DEF IInv, Types, Tallied, Finite
  <2> HIDE DEF calls
  <2>2. ASSUME NEW a \in BOOLEAN
        PROVE  LET mine    == Selected(calls, Total, a)
                   dates   == ActivityDates(calls, Total, a)
                   buckets == ActivityBuckets(calls, Total, a)
               IN  /\ mine # {} => buckets[Len(buckets)].sum = Cardinality(mine)
                   /\ BucketSum(buckets) = Cardinality(mine)
                   /\ CurrentStreak(dates) <= LongestStreak(dates)
                   /\ dates # {} => RunOfDays(dates, LongestStreak(dates))
                   /\ ~RunOfDays(dates, LongestStreak(dates) + 1)
    <3> DEFINE dates == ActivityDates(calls, Total, a)
    <3>1. dates \in SUBSET Nat /\ IsFiniteSet(dates)
      <4> DEFINE mine == {d \in calls : a \/ ~d.archived}
                 f == [c \in mine |-> c.at]
      <4>1. dates = {c.at : c \in mine}
        BY DEF ActivityDates
      <4>2. f \in Surjection(mine, dates)
        BY <4>1 DEF Surjection
      <4>3. IsFiniteSet(mine)
        BY <2>1, FS_Subset
      <4>4. \A c \in calls : c.at \in Nat
        BY <2>1 DEF Calls
      <4>5. dates \in SUBSET Nat
        BY <4>1, <4>4
      <4> HIDE DEF f, mine, dates
      <4> QED
        BY <4>2, <4>3, <4>5, FS_Surjection
    <3> HIDE DEF dates
    <3>2. /\ CurrentStreak(dates) <= LongestStreak(dates)
          /\ dates # {} => RunOfDays(dates, LongestStreak(dates))
          /\ ~RunOfDays(dates, LongestStreak(dates) + 1)
      BY <3>1, StreaksAgree DEF RunOfDays
    <3> QED
      BY <2>1, <3>2, BucketsAgree DEF dates
  <2>3. ASSUME NEW scope \in Scopes
        PROVE  LET listed == ListedThreads(index.threads, scope, TRUE)
               IN  RowSum(index.threads, listed) = TotalTokens(calls, scope, TRUE)
    BY <2>1, ThreadsAgree
  <2> QED
    BY <2>2, <2>3 DEF FiguresAgree, BucketSum, RowSum, calls
<1>2. IInv => AggregatesMatchCalls
  BY TypesHold DEF IInv, Tallied, AggregatesMatchCalls
<1> QED
  BY <1>1, <1>2, IInvHolds, FiniteHolds, PTL DEF FiguresMatchCalls

\* Parsing a log in pieces gives the calls of one parse from the beginning, as
\* long as the log was only appended to (parse_source_file).
THEOREM PiecesAreWhole == Spec => []PiecesMakeTheWhole
<1>1. IInv => PiecesMakeTheWhole
  <2> SUFFICES ASSUME IInv, NEW p \in Paths, index.rows[p] # None, p \notin loose
               PROVE  /\ index.rows[p].line <= Len(last[p])
                      /\ Said(CallsOf(p)) = Whole(p, index.rows[p].line)
                      /\ index.rows[p].model = ModelAt(last[p], 0, None, index.rows[p].line)
    BY DEF PiecesMakeTheWhole
  <2>1. RowIs(index.rows[p], CallsOf(p), last[p])
    BY DEF IInv, RowsFit
  <2>2. last[p] \in Seq(Line) /\ index.rows[p] \in Rows
    BY DEF IInv, Types, LogsFit
  <2>3. index.rows[p].line \in 0..Len(last[p])
    BY <2>1, <2>2 DEF RowIs, Rows
  <2>4. Whole(p, index.rows[p].line) = SaidBy(last[p], index.rows[p].line)
    BY <2>2, <2>3, WholeIs DEF Whole
  <2> QED
    BY <2>1, <2>4 DEF RowIs
<1> QED
  BY <1>1, IInvHolds, PTL

\* A log that the next refresh will skip has been parsed to its last complete
\* line, unless it grew between its parse and the commit
\* (source_logs_requiring_parse, apply_parsed_sources).
THEOREM SkippedAreComplete == Spec => []SkippedIsComplete
<1>1. IInv => SkippedIsComplete
  <2> SUFFICES ASSUME IInv, NEW p \in Paths, p \notin loose, p \notin raced, Skippable(p)
               PROVE  Said(CallsOf(p)) = Whole(p, Len(disk[p].lines))
    BY DEF SkippedIsComplete
  <2>1. disk[p] # None /\ index.rows[p] # None /\ index.rows[p].stamp = disk[p].stamp
    BY DEF Skippable, Current
  <2>2. index.rows[p].line = Len(disk[p].lines)
    BY <2>1 DEF IInv, StampsFit, StampIs
  <2>3. last[p] = disk[p].lines /\ last[p] \in Seq(Line)
    BY <2>1 DEF IInv, Types, LogsFit, Files
  <2>4. Said(CallsOf(p)) = SaidBy(last[p], Len(last[p]))
    BY <2>1, <2>2, <2>3 DEF IInv, RowsFit, RowIs
  <2>5. Len(last[p]) \in 0..Len(last[p])
    BY <2>3
  <2>6. Whole(p, Len(last[p])) = SaidBy(last[p], Len(last[p]))
    BY <2>3, <2>5, WholeIs DEF Whole
  <2> QED
    BY <2>3, <2>4, <2>6
<1> QED
  BY <1>1, IInvHolds, PTL

\* No refresh brings back a row or a call of a log whose deletion has cleared
\* the index, whether it was on its way before or begins during the deletion
\* (delete_sessions, delete_usage_sources).
THEOREM DeletedStaysDeleted == Spec => []DeletedLeavesNoGhost
<1>1. IInv => DeletedLeavesNoGhost
  BY DEF IInv, NoGhost, DeletedLeavesNoGhost
<1> QED
  BY <1>1, IInvHolds, PTL

\* A deletion that fails and is rolled back without a report has put back every
\* log it had set aside, as it was, and the names; and in the end every log the
\* index knew is in the index again, unless Codex took it away before the
\* refresh of the rollback saw it (rollback_session_delete).
THEOREM UndoneAreWhole == Spec => UndoneIsWhole
<1>1. ASSUME IInv, [Next]_vars, job.stage \in {"undo", "undo and index", "indexing"},
             job'.stage \in {"idle", "index"}
      PROVE  \/ DeleteUndoes
             \/ RefreshApplies /\ ~Fails /\ job.stage = "indexing"
  <2>1. job \in Jobs /\ job.stage \notin Settled /\ job' # job /\ job'.stage # "unrecovered"
    BY <1>1 DEF IInv, Types, Settled
  <2>2. ~Fails
    BY <2>1, EndedIsTyped DEF Fails
  <2>3. ~RefreshPlans /\ ~RefreshParses /\ ~RefreshLists
    BY <2>1, <2>2 DEF RefreshPlans, RefreshParses, RefreshLists
  <2>4. ~Reset
    BY <1>1, <2>1 DEF Reset, Jobs
  <2>5. \A h \in Homes, P \in SUBSET {p \in Paths : disk[p] # None} : ~DeleteBegins(h, P)
    BY <2>1 DEF DeleteBegins
  <2>6. /\ \A p \in Paths : ~DeleteStages(p)
        /\ ~DeleteUnstages /\ ~DeleteUnnames /\ ~DeleteClears /\ ~DeleteForgets /\ ~DeleteIndexes
    BY <1>1 DEF DeleteStages, DeleteUnstages, DeleteUnnames, DeleteClears, DeleteForgets,
                DeleteIndexes
  <2>7. ~Crash
    BY <2>1, EndedIsTyped DEF Crash
  <2>8. /\ \A p \in Paths : ~CodexWrites(p) /\ ~CodexArchives(p)
        /\ \A p, q \in Paths : ~Relay(p, q)
    BY <2>1 DEF CodexWrites, CodexArchives, Relay, Write
  <2>9. \A h \in Homes, s \in Sessions, n \in Names : ~CodexNames(h, s, n)
    BY <2>1 DEF CodexNames
  <2>10. ~ UNCHANGED vars
    BY <2>1 DEF vars
  <2>11. RefreshApplies => job.stage = "indexing"
    BY <1>1, <2>1, <2>2 DEF IInv, JobFits, RefreshApplies
  <2> QED
    BY <1>1, <2>2, <2>3, <2>4, <2>5, <2>6, <2>7, <2>8, <2>9, <2>10, <2>11 DEF Next
<1>2. ASSUME IInv, [Next]_vars, RolledBack
      PROVE  /\ \A p \in job.paths : staged[p] # None /\ disk'[p] = staged[p]
             /\ names'[job.home] = job.names
  <2>1. /\ job.stage \in {"undo", "undo and index"} /\ job'.stage \in {"idle", "index"}
        /\ ~job'.failed
    BY <1>2 DEF RolledBack
  <2>2. PICK P \in SUBSET SetAside, named \in BOOLEAN, report \in BOOLEAN :
          /\ P # SetAside \/ ~named => report
          /\ PutBack(P)
          /\ names' = IF named THEN [names EXCEPT ![job.home] = job.names] ELSE names
          /\ job' = IF job.stage = "undo" THEN Ended(report)
                    ELSE [job EXCEPT !.stage = "index", !.failed = report]
    BY <1>1, <1>2, <2>1 DEF DeleteUndoes
  <2>3. ~report
    <3>1. CASE job.stage = "undo"
      BY <2>1, <2>2, <3>1, EndedIsTyped
    <3>2. CASE job.stage # "undo"
      BY <1>2, <2>1, <2>2, <3>2 DEF IInv, Types, Jobs
    <3> QED
      BY <3>1, <3>2
  <2>4. /\ job.paths \subseteq Paths /\ job.home \in Homes /\ names \in [Homes -> Titles]
        /\ \A p \in job.paths : staged[p] # None
    BY <1>2, <2>1 DEF IInv, Types, Jobs, JobFits, Deleting, Complete
  <2>5. P = SetAside /\ names' = [names EXCEPT ![job.home] = job.names]
    BY <2>2, <2>3
  <2>6. \A p \in job.paths : p \in SetAside /\ disk'[p] = staged[p]
    BY <2>2, <2>4, <2>5 DEF PutBack, SetAside
  <2> QED
    BY <2>4, <2>5, <2>6
<1>3. ASSUME IInv, [Next]_vars, Undone
      PROVE  \A p \in job.indexed :
               disk'[p] # None /\ (job.stage = "indexing" => p \in refresh.logs)
                 => index'.rows[p] # None
  <2>1. job.stage \in {"undo", "undo and index", "indexing"} /\ job'.stage = "idle"
    BY <1>3 DEF Undone
  <2>2. job.indexed \subseteq Paths
    BY <1>3 DEF IInv, Types, Jobs
  <2>3. CASE DeleteUndoes
    <3>1. job.stage = "undo" /\ index' = index
      BY <1>3, <2>1, <2>3 DEF DeleteUndoes, IInv, Types, Jobs
    <3> QED
      BY <1>3, <3>1 DEF IInv, JobFits, Unclear
  <2>4. CASE RefreshApplies /\ ~Fails /\ job.stage = "indexing"
    <3>3. /\ refresh.stage = "parsed" /\ \A p \in DOMAIN refresh.parsed : disk[p] # None
          /\ \A p \in Paths : index'.rows[p] =
               IF p \in DOMAIN refresh.parsed THEN RowOf(p)
               ELSE IF p \in refresh.logs /\ index.rows[p] # None
               THEN [index.rows[p] EXCEPT !.home = p.home]
               ELSE index.rows[p]
      BY <2>4 DEF RefreshApplies
    <3>4. ASSUME NEW p \in job.indexed, p \in refresh.logs
          PROVE  index'.rows[p] # None
      <4>1. p \in Paths
        BY <2>2
      <4>2. CASE p \in DOMAIN refresh.parsed
        BY <1>3, <3>3, <4>1, <4>2, RowOfIs
      <4>3. CASE p \notin DOMAIN refresh.parsed
        <5>1. index.rows[p] # None
          BY <1>3, <3>3, <3>4, <4>3 DEF IInv, PlansFit, ParsesFit
        <5>2. index.rows[p] \in Rows /\ p.home \in Homes
          BY <1>3, <4>1, <5>1 DEF IInv, Types, Paths
        <5>3. [index.rows[p] EXCEPT !.home = p.home] \in Rows
          BY <5>2 DEF Rows
        <5>4. index'.rows[p] = [index.rows[p] EXCEPT !.home = p.home]
          BY <3>3, <3>4, <4>1, <4>3, <5>1
        <5> QED
          BY <5>3, <5>4, NoneIsNoValue
      <4> QED
        BY <4>2, <4>3
    <3> QED
      BY <2>4, <3>4
  <2> QED
    BY <1>1, <1>3, <2>1, <2>3, <2>4
<1>4. IInv /\ [Next]_vars => WholeAgain
  BY <1>2, <1>3 DEF WholeAgain
<1> QED
  BY <1>4, IInvHolds, PTL DEF Spec, UndoneIsWhole

-----------------------------------------------------------------------------
(* The reset of a quota (QuotaReset) and its reads (QuotaReads) *)

USE DEF Locals

\* Taking the guard touches nothing but the guard and its taker.
LEMMA AcquireStep ==
  ASSUME NEW c \in Callers, QuotaInv, Acquire(c)
  PROVE  QuotaInv'
<1> USE DEF Acquire, At, GoTo, QuotaInv
<1>1. QuotaTypeOK' BY DEF QuotaTypeOK
<1>2. Guarded' BY DEF QuotaTypeOK, Guarded
<1>3. WorkIsNamed' BY DEF QuotaTypeOK, WorkIsNamed, Retriable
<1>4. WireIsAttended' BY DEF QuotaTypeOK, WireIsAttended
<1>5. SentIdIsKept' BY DEF SentIdIsKept, Retriable
<1>6. NamedIsOpen' BY DEF NamedIsOpen, Retriable
<1> QED BY <1>1, <1>2, <1>3, <1>4, <1>5, <1>6

\* A caller that reads a retriable operation works on the id that the file names.
LEMMA ReuseStep ==
  ASSUME NEW c \in Callers, QuotaInv, Reuse(c)
  PROVE  QuotaInv'
<1> USE DEF Reuse, At, QuotaInv
<1>1. file.id \in Ids BY DEF Retriable, QuotaTypeOK, Operations, Missing, Torn
<1>2. QuotaTypeOK' BY <1>1 DEF QuotaTypeOK
<1>3. Guarded' BY DEF QuotaTypeOK, Guarded
<1>4. WorkIsNamed' BY DEF QuotaTypeOK, WorkIsNamed, Retriable
<1>5. WireIsAttended' BY DEF QuotaTypeOK, WireIsAttended
<1>6. SentIdIsKept' BY DEF SentIdIsKept, Retriable
<1>7. NamedIsOpen' BY DEF NamedIsOpen, Retriable
<1> QED BY <1>2, <1>3, <1>4, <1>5, <1>6, <1>7

\* A new id replaces a file that names nothing that could have cost a credit.
LEMMA CreateStep ==
  ASSUME NEW c \in Callers, NEW id \in Ids, QuotaInv, Create(c, id)
  PROVE  QuotaInv'
<1> USE DEF Create, At, QuotaInv
<1>1. QuotaTypeOK' BY DEF QuotaTypeOK, Torn
<1>2. Guarded' BY DEF QuotaTypeOK, Guarded
<1>3. WorkIsNamed' BY DEF QuotaTypeOK, Guarded, WorkIsNamed, NamedIsOpen
<1>4. WireIsAttended' BY DEF QuotaTypeOK, WireIsAttended
<1>5. SentIdIsKept' BY DEF SentIdIsKept
<1>6. NamedIsOpen' BY DEF NamedIsOpen, Retriable, Torn
<1> QED BY <1>1, <1>2, <1>3, <1>4, <1>5, <1>6

\* Writing the file names the caller's operation again, or marks it rejected.
LEMMA WriteStep ==
  ASSUME NEW c \in Callers, QuotaInv, WriteOperation(c)
  PROVE  QuotaInv'
<1> USE DEF WriteOperation, At, GoTo, Return, Idle, QuotaInv
<1>1. caller[c].id \in used \ settled /\ caller[c].status # "none" /\ file = Torn
  BY DEF WorkIsNamed
<1>2. file' \in Operations BY <1>1 DEF QuotaTypeOK, Operations
<1>3. QuotaTypeOK'
  <2>1. caller' \in [Callers -> Locals]
    BY DEF QuotaTypeOK
  <2> QED BY <1>2, <2>1 DEF QuotaTypeOK
<1>4. Guarded' BY DEF QuotaTypeOK, Guarded
<1>5. WorkIsNamed' BY DEF QuotaTypeOK, Guarded, WorkIsNamed, Retriable
<1>6. WireIsAttended' BY DEF QuotaTypeOK, WireIsAttended, Guarded
<1>7. SentIdIsKept' BY <1>1 DEF SentIdIsKept, Retriable, Torn
<1>8. NamedIsOpen' BY <1>1 DEF NamedIsOpen
<1> QED BY <1>3, <1>4, <1>5, <1>6, <1>7, <1>8

\* What is sent is what the file names.
LEMMA SendStep ==
  ASSUME NEW c \in Callers, NEW via \in Vias, QuotaInv, Send(c, via)
  PROVE  QuotaInv'
<1> USE DEF Send, At, QuotaInv
<1>1. Retriable(file) /\ file.id = caller[c].id BY DEF WorkIsNamed
<1>2. caller[c].id \in Ids BY <1>1 DEF Retriable, QuotaTypeOK, Operations, Missing, Torn
<1>3. QuotaTypeOK' BY <1>2 DEF QuotaTypeOK
<1>4. Guarded' BY DEF QuotaTypeOK, Guarded
<1>5. WorkIsNamed' BY DEF QuotaTypeOK, WorkIsNamed, Retriable
<1>6. WireIsAttended' BY DEF QuotaTypeOK, WireIsAttended
<1>7. SentIdIsKept' BY <1>1 DEF SentIdIsKept, Retriable
<1>8. NamedIsOpen' BY DEF NamedIsOpen, Retriable
<1> QED BY <1>3, <1>4, <1>5, <1>6, <1>7, <1>8

\* An attempt that cannot start is marked like one that gives up.
LEMMA CannotSendStep ==
  ASSUME NEW c \in Callers, NEW via \in Vias, NEW status, QuotaInv, CannotSend(c, via, status)
  PROVE  QuotaInv'
<1> USE DEF CannotSend, Unanswered, At, QuotaInv
<1>1. QuotaTypeOK' BY DEF QuotaTypeOK
<1>2. Guarded' BY DEF QuotaTypeOK, Guarded
<1>3. WorkIsNamed' BY DEF QuotaTypeOK, WorkIsNamed, Retriable
<1>4. WireIsAttended' BY DEF QuotaTypeOK, WireIsAttended
<1>5. SentIdIsKept' BY DEF SentIdIsKept, Retriable
<1>6. NamedIsOpen' BY DEF NamedIsOpen, Retriable
<1> QED BY <1>1, <1>2, <1>3, <1>4, <1>5, <1>6

\* An answer takes the caller on with the operation that the file names.
LEMMA AnsweredStep ==
  ASSUME NEW c \in Callers, QuotaInv, Answered(c) \/ Refused(c)
  PROVE  QuotaInv'
<1> USE DEF Answered, Refused, At, GoTo, QuotaInv
<1>1. QuotaTypeOK' BY DEF QuotaTypeOK
<1>2. Guarded' BY DEF QuotaTypeOK, Guarded
<1>3. WorkIsNamed' BY DEF QuotaTypeOK, WorkIsNamed, Retriable
<1>4. WireIsAttended' BY DEF QuotaTypeOK, WireIsAttended
<1>5. SentIdIsKept' BY DEF SentIdIsKept, Retriable
<1>6. NamedIsOpen' BY DEF NamedIsOpen, Retriable
<1> QED BY <1>1, <1>2, <1>3, <1>4, <1>5, <1>6

\* Giving up takes nothing off the wire but the one who waits for it.
LEMMA UnattendedWire ==
  ASSUME NEW S, S \subseteq Callers, QuotaTypeOK
  PROVE  /\ Unattended(S) \subseteq [id : Ids, to : Callers \cup {Nobody}]
         /\ {r.id : r \in Unattended(S)} = {r.id : r \in wire}
         /\ \A r \in Unattended(S) : r.to # Nobody => r \in wire /\ r.to \notin S
<1>1. \A r \in wire : r \in [id : Ids, to : Callers \cup {Nobody}] BY DEF QuotaTypeOK
<1>2. Unattended(S) \subseteq [id : Ids, to : Callers \cup {Nobody}] BY <1>1 DEF Unattended
<1>3. {r.id : r \in Unattended(S)} = {r.id : r \in wire}
  <2>1. \A r \in Unattended(S) : \E q \in wire : q.id = r.id BY DEF Unattended
  <2>2. ASSUME NEW q \in wire PROVE \E r \in Unattended(S) : r.id = q.id
    <3>1. [id |-> q.id, to |-> IF q.to \in S THEN Nobody ELSE q.to] \in Unattended(S)
      BY DEF Unattended
    <3> QED BY <3>1
  <2> QED BY <2>1, <2>2
<1>4. ASSUME NEW r \in Unattended(S), r.to # Nobody PROVE r \in wire /\ r.to \notin S
  <2>1. PICK q \in wire : r = [id |-> q.id, to |-> IF q.to \in S THEN Nobody ELSE q.to]
    BY DEF Unattended
  <2>2. q.to \notin S /\ r = [id |-> q.id, to |-> q.to] BY <2>1, <1>4
  <2>3. r = q BY <1>1, <2>2
  <2> QED BY <2>2, <2>3
<1> QED BY <1>2, <1>3, <1>4

\* An attempt without an answer leaves the file to be marked, and its request
\* to whatever becomes of it.
LEMMA GiveUpStep ==
  ASSUME NEW c \in Callers, NEW status, QuotaInv, GiveUp(c, status)
  PROVE  QuotaInv'
<1> USE DEF GiveUp, Unanswered, At, QuotaInv
<1> DEFINE W == Unattended({c})
<1>1. /\ W \subseteq [id : Ids, to : Callers \cup {Nobody}]
      /\ {r.id : r \in W} = {r.id : r \in wire}
      /\ \A r \in W : r.to # Nobody => r \in wire /\ r.to # c
  BY UnattendedWire DEF QuotaTypeOK
<1> HIDE DEF W
<1>2. wire' = W BY DEF W
<1>3. QuotaTypeOK' BY <1>1, <1>2 DEF QuotaTypeOK
<1>4. Guarded' BY DEF QuotaTypeOK, Guarded
<1>5. WorkIsNamed' BY DEF QuotaTypeOK, WorkIsNamed, Retriable
<1>6. WireIsAttended'
  <2>1. ASSUME NEW r \in wire', r.to # Nobody
        PROVE  At(r.to, "await")' /\ r.id = caller'[r.to].id
    BY <1>1, <1>2, <2>1, QuotaAssumption DEF QuotaTypeOK, WireIsAttended
  <2>2. ASSUME NEW d \in Callers, answer'[d] # "none"
        PROVE  At(d, "await")' /\ \A r \in wire' : r.to # d
    BY <1>1, <1>2, <2>2, QuotaAssumption DEF QuotaTypeOK, WireIsAttended
  <2> QED BY <2>1, <2>2 DEF WireIsAttended
<1>7. SentIdIsKept' BY <1>1, <1>2 DEF SentIdIsKept, Retriable
<1>8. NamedIsOpen' BY DEF NamedIsOpen, Retriable
<1> QED BY <1>3, <1>4, <1>5, <1>6, <1>7, <1>8

\* A file that is about to be rewritten has named its id until now.
LEMMA MarkStep ==
  ASSUME NEW c \in Callers, QuotaInv, Mark(c)
  PROVE  QuotaInv'
<1> USE DEF Mark, At, GoTo, QuotaInv
<1>1. Retriable(file) /\ file.id = caller[c].id BY DEF WorkIsNamed
<1>2. QuotaTypeOK'
  <2>1. caller[c].id \in Ids BY <1>1 DEF Retriable, QuotaTypeOK, Operations, Missing, Torn
  <2> QED BY <2>1 DEF QuotaTypeOK
<1>3. Guarded' BY DEF QuotaTypeOK, Guarded
<1>4. WorkIsNamed' BY <1>1 DEF QuotaTypeOK, Guarded, WorkIsNamed, NamedIsOpen
<1>5. WireIsAttended' BY DEF QuotaTypeOK, WireIsAttended
<1>6. SentIdIsKept' BY <1>1 DEF SentIdIsKept
<1>7. NamedIsOpen' BY DEF NamedIsOpen, Retriable, Torn
<1> QED BY <1>2, <1>3, <1>4, <1>5, <1>6, <1>7

\* The file is removed when the outcome of its id is known.
LEMMA ClearStep ==
  ASSUME NEW c \in Callers, QuotaInv, Clear(c)
  PROVE  QuotaInv'
<1> USE DEF Clear, Return, Idle, At, QuotaInv
<1>1. Retriable(file) /\ file.id = caller[c].id BY DEF WorkIsNamed
<1>2. QuotaTypeOK'
  <2>1. caller[c].id \in Ids BY <1>1 DEF Retriable, QuotaTypeOK, Operations, Missing, Torn
  <2> QED BY <2>1 DEF QuotaTypeOK
<1>3. Guarded' BY DEF QuotaTypeOK, Guarded
<1>4. WorkIsNamed' BY DEF QuotaTypeOK, Guarded, WorkIsNamed
<1>5. WireIsAttended' BY DEF QuotaTypeOK, WireIsAttended
<1>6. SentIdIsKept' BY <1>1 DEF SentIdIsKept
<1>7. NamedIsOpen' BY <1>1 DEF NamedIsOpen, Retriable, Missing
<1> QED BY <1>2, <1>3, <1>4, <1>5, <1>6, <1>7

\* A failing file operation leaves the file as it is.
LEMMA FileFailsStep ==
  ASSUME NEW c \in Callers, QuotaInv, FileFails(c)
  PROVE  QuotaInv'
<1> USE DEF FileFails, Return, Idle, At, QuotaInv
<1>1. QuotaTypeOK' BY DEF QuotaTypeOK
<1>2. Guarded' BY DEF QuotaTypeOK, Guarded
<1>3. WorkIsNamed' BY DEF QuotaTypeOK, WorkIsNamed, Retriable
<1>4. WireIsAttended' BY DEF QuotaTypeOK, WireIsAttended
<1>5. SentIdIsKept' BY DEF SentIdIsKept, Retriable
<1>6. NamedIsOpen' BY DEF NamedIsOpen, Retriable
<1> QED BY <1>1, <1>2, <1>3, <1>4, <1>5, <1>6

\* The server redeems only what was sent, and answers only who waits.
LEMMA ServeStep ==
  ASSUME NEW r \in wire, NEW spends \in BOOLEAN, NEW result \in {"outcome", "error"},
         QuotaInv, Serve(r, spends, result)
  PROVE  QuotaInv'
<1> USE DEF Serve, At, QuotaInv
<1>1. \A q \in wire : q \in [id : Ids, to : Callers \cup {Nobody}] BY DEF QuotaTypeOK
<1>2. QuotaTypeOK' BY <1>1 DEF QuotaTypeOK
<1>3. Guarded' BY DEF Guarded
<1>4. WorkIsNamed' BY DEF WorkIsNamed, Retriable
<1>5. WireIsAttended'
  <2>1. ASSUME NEW d \in Callers, answer'[d] # "none"
        PROVE  At(d, "await")' /\ \A q \in wire' : q.to # d
    <3>1. CASE d # r.to BY <1>1, <2>1, <3>1 DEF QuotaTypeOK, WireIsAttended
    <3>2. CASE d = r.to
      <4>1. At(d, "await") /\ r.id = caller[d].id
        BY <3>2, QuotaAssumption DEF WireIsAttended
      <4>2. ASSUME NEW q \in wire', q.to = d PROVE FALSE
        <5>1. q.id = r.id /\ q.to = r.to
          BY <3>2, <4>1, <4>2, QuotaAssumption DEF WireIsAttended
        <5> QED BY <1>1, <5>1
      <4> QED BY <4>1, <4>2
    <3> QED BY <3>1, <3>2
  <2> QED BY <2>1 DEF WireIsAttended
<1>6. SentIdIsKept' BY DEF SentIdIsKept, Retriable
<1>7. NamedIsOpen' BY DEF NamedIsOpen, Retriable
<1> QED BY <1>2, <1>3, <1>4, <1>5, <1>6, <1>7

\* A crash leaves the file, and what was sent.
LEMMA CrashStep ==
  ASSUME QuotaInv, LamCrashes
  PROVE  QuotaInv'
<1> USE DEF LamCrashes, Idle, At, QuotaInv
<1> DEFINE W == Unattended(Callers)
<1>1. /\ W \subseteq [id : Ids, to : Callers \cup {Nobody}]
      /\ {r.id : r \in W} = {r.id : r \in wire}
      /\ \A r \in W : r.to # Nobody => r \in wire /\ r.to \notin Callers
  BY UnattendedWire DEF QuotaTypeOK
<1> HIDE DEF W
<1>2. wire' = W BY DEF W
<1>3. QuotaTypeOK'
  <2>1. wire' \subseteq [id : Ids, to : Callers \cup {Nobody}] BY <1>1, <1>2
  <2>2. Idle \in Locals
    OBVIOUS
  <2> HIDE DEF Idle
  <2>3. caller' \in [Callers -> Locals]
    BY <2>2
  <2>4. answer' \in [Callers -> {"none", "outcome", "error"}] /\ guard' \in BOOLEAN
    OBVIOUS
  <2>5. crashes' \in Nat BY DEF QuotaTypeOK
  <2>6. /\ file' \in Operations \cup {Missing, Torn}
        /\ used' \subseteq Ids /\ redeemed' \subseteq Ids
        /\ settled' \subseteq Ids /\ dropped' \subseteq Ids
    BY DEF QuotaTypeOK
  <2> QED BY <2>1, <2>3, <2>4, <2>5, <2>6 DEF QuotaTypeOK
<1>4. Guarded' BY DEF Guarded
<1>5. WorkIsNamed' BY DEF WorkIsNamed
<1>6. WireIsAttended' BY <1>1, <1>2 DEF QuotaTypeOK, WireIsAttended
<1>7. SentIdIsKept' BY <1>1, <1>2 DEF SentIdIsKept, Retriable
<1>8. NamedIsOpen' BY DEF NamedIsOpen, Retriable
<1> QED BY <1>3, <1>4, <1>5, <1>6, <1>7, <1>8

\* Nothing is named, sent or known at first.
LEMMA InitOK == QuotaInit => QuotaInv
<1> SUFFICES ASSUME QuotaInit PROVE QuotaInv OBVIOUS
<1> USE DEF QuotaInit, At
<1>1. QuotaTypeOK
  <2>1. Idle \in Locals
    BY DEF Idle
  <2> QED BY <2>1 DEF QuotaTypeOK
<1>2. Guarded /\ WorkIsNamed /\ WireIsAttended
  BY DEF Guarded, WorkIsNamed, WireIsAttended, Idle
<1>3. SentIdIsKept /\ NamedIsOpen BY DEF SentIdIsKept, NamedIsOpen, Missing, Retriable
<1> QED BY <1>1, <1>2, <1>3 DEF QuotaInv

\* The invariant is about the variables only.
LEMMA StutterStep ==
  ASSUME QuotaInv, UNCHANGED quotaVars
  PROVE  QuotaInv'
BY DEF quotaVars, QuotaInv, QuotaTypeOK, Guarded, WorkIsNamed, WireIsAttended, SentIdIsKept, NamedIsOpen,
       At, Retriable

\* Every step preserves the invariant.
LEMMA NextStep ==
  ASSUME QuotaInv, [QuotaNext]_quotaVars
  PROVE  QuotaInv'
<1>1. ASSUME NEW c \in Callers, Acquire(c) PROVE QuotaInv' BY <1>1, AcquireStep
<1>2. ASSUME NEW c \in Callers, Reuse(c) PROVE QuotaInv' BY <1>2, ReuseStep
<1>3. ASSUME NEW c \in Callers, NEW id \in Ids, Create(c, id) PROVE QuotaInv'
  BY <1>3, CreateStep
<1>4. ASSUME NEW c \in Callers, WriteOperation(c) PROVE QuotaInv' BY <1>4, WriteStep
<1>5. ASSUME NEW c \in Callers, NEW via \in Vias, Send(c, via) PROVE QuotaInv' BY <1>5, SendStep
<1>6. ASSUME NEW c \in Callers, NEW via \in Vias, NEW status \in Unanswered(via),
             CannotSend(c, via, status)
      PROVE  QuotaInv'
  BY <1>6, CannotSendStep
<1>7. ASSUME NEW c \in Callers, Answered(c) \/ Refused(c) PROVE QuotaInv' BY <1>7, AnsweredStep
<1>8. ASSUME NEW c \in Callers, NEW status, GiveUp(c, status) PROVE QuotaInv' BY <1>8, GiveUpStep
<1>9. ASSUME NEW c \in Callers, Mark(c) PROVE QuotaInv' BY <1>9, MarkStep
<1>10. ASSUME NEW c \in Callers, Clear(c) PROVE QuotaInv' BY <1>10, ClearStep
<1>11. ASSUME NEW c \in Callers, FileFails(c) PROVE QuotaInv' BY <1>11, FileFailsStep
<1>12. ASSUME NEW r \in wire, NEW spends \in BOOLEAN, NEW result \in {"outcome", "error"},
              Serve(r, spends, result)
       PROVE  QuotaInv'
  BY <1>12, ServeStep
<1>13. CASE LamCrashes BY <1>13, CrashStep
<1>14. CASE UNCHANGED quotaVars BY <1>14, StutterStep
<1> QED
  BY <1>1, <1>2, <1>3, <1>4, <1>5, <1>6, <1>7, <1>8, <1>9, <1>10, <1>11, <1>12, <1>13, <1>14
  DEF QuotaNext

\* The inductive invariant: who holds the guard, what the file names and what
\* is on the wire fit together.
THEOREM QuotaInvariance == QuotaSpec => []QuotaInv
<1>1. QuotaInit => QuotaInv BY InitOK
<1>2. QuotaInv /\ [QuotaNext]_quotaVars => QuotaInv' BY NextStep
<1> QED BY <1>1, <1>2, PTL DEF QuotaSpec

\* No id that may have cost a credit is forgotten.
THEOREM SpentIdStays == QuotaSpec => []SpentIdIsKept
<1>1. QuotaInv => SpentIdIsKept BY DEF QuotaInv, SentIdIsKept, SpentIdIsKept
<1> QED BY <1>1, QuotaInvariance, PTL

\* No id whose outcome is known is sent again.
THEOREM SettledIdStaysSettled == QuotaSpec => SettledIdIsNotRepeated
<1> DEFINE NothingSettled == \A r \in wire' \ wire : r.to # Nobody => r.id \notin settled
<1>1. QuotaInv /\ [QuotaNext]_quotaVars => [NothingSettled]_quotaVars
  <2> SUFFICES ASSUME QuotaInv, QuotaNext PROVE NothingSettled BY DEF quotaVars
  <2> USE DEF QuotaInv
  <2>1. ASSUME NEW c \in Callers, NEW via \in Vias, Send(c, via) PROVE NothingSettled
    <3>1. caller[c].id \notin settled BY <2>1 DEF Send, At, WorkIsNamed, NamedIsOpen
    <3> QED BY <2>1, <3>1 DEF Send
  <2>2. ASSUME NEW c \in Callers, NEW status, GiveUp(c, status) PROVE NothingSettled
    BY <2>2, UnattendedWire DEF GiveUp
  <2>3. CASE LamCrashes BY <2>3, UnattendedWire DEF LamCrashes
  <2>4. ASSUME wire' \subseteq wire PROVE NothingSettled BY <2>4
  <2> QED
    BY <2>1, <2>2, <2>3, <2>4
    DEF QuotaNext, Acquire, Reuse, Create, WriteOperation, CannotSend, Answered, Refused, Mark, Clear,
        FileFails, Serve
<1> QED BY <1>1, QuotaInvariance, PTL DEF QuotaSpec, SettledIdIsNotRepeated
-----------------------------------------------------------------------------
(* Reads. *)

HIDE DEF Locals

ReadsSpec == QuotaInit /\ ReadsInit /\ [][ReadsNext]_<<quotaVars, readVars>>

HasAnswer == {"save", "details", "sources", "manual", "write"}

\* A read that has an answer, or has returned one as fresh, asked after all
\* the credits were spent that had been when it began.
Asked(q) == q.pc \in HasAnswer \/ q.told = "fresh" => q.got >= q.since

Clean(q) == q.holds # {} => q.stuck \/ q.pc \in {"spawn", "ask"}

\* The credits spent are counted by a number within the bound.
LevelIsKnown ==
  /\ IsFiniteSet(redeemed) /\ redeemed \subseteq used
  /\ Level \in 0..Credits

ReadersOK ==
  /\ reader \in [Readers -> ReaderLocals]
  /\ \A r \in Readers : reader[r].since <= Level /\ Asked(reader[r]) /\ Clean(reader[r])

CacheOK == cache \in Caches /\ saved \in Caches /\ excused \in BOOLEAN

\* The cache is what was saved, while no one writes it and nothing excuses it.
Kept == excused \/ (\E r \in Readers : Is(r, "write")) \/ cache = saved

ReadsInv == LevelIsKnown /\ ReadersOK /\ CacheOK /\ Kept
-----------------------------------------------------------------------------
LEMMA Update ==
  ASSUME LevelIsKnown, ReadersOK, NEW r \in Readers, NEW q \in ReaderLocals,
         reader' = [reader EXCEPT ![r] = q], redeemed' = redeemed, used' = used,
         q.since <= Level, Asked(q), Clean(q)
  PROVE  LevelIsKnown' /\ ReadersOK'
<1>1. LevelIsKnown' /\ Level' = Level
  BY DEF LevelIsKnown, Level
<1>2. /\ reader' \in [Readers -> ReaderLocals] /\ reader'[r] = q
      /\ \A s \in Readers \ {r} : reader'[s] = reader[s]
  BY DEF ReadersOK
<1>3. ASSUME NEW s \in Readers
      PROVE  reader'[s].since <= Level /\ Asked(reader'[s]) /\ Clean(reader'[s])
  BY <1>2 DEF ReadersOK
<1>4. ReadersOK'
  BY <1>1, <1>2, <1>3 DEF ReadersOK, Asked, Clean
<1> QED
  BY <1>1, <1>4

LEMMA RestingFits ==
  ASSUME LevelIsKnown, NEW what \in {"nothing", "cached", "no_quota"},
         NEW holds \in SUBSET {"home", "server"},
         NEW stuck, stuck \in BOOLEAN, holds # {} => stuck,
         NEW q, q = [pc |-> "idle", since |-> 0, got |-> 0, told |-> what, holds |-> holds,
                     stuck |-> stuck, met |-> "no"]
  PROVE  q \in ReaderLocals /\ q.pc = "idle" /\ q.since <= Level /\ Asked(q) /\ Clean(q)
<1>1. 0 \in 0..Credits /\ 0 <= Level
  BY QuotaAssumption DEF LevelIsKnown
<1>2. /\ q.pc = "idle" /\ q.since = 0 /\ q.got = 0 /\ q.told = what /\ q.holds = holds
      /\ q.stuck = stuck
  OBVIOUS
<1>3. q \in ReaderLocals
  BY <1>1 DEF ReaderLocals
<1>4. Asked(q)
  BY <1>2 DEF Asked, HasAnswer
<1>5. Clean(q)
  BY <1>2 DEF Clean
<1> QED
  BY <1>1, <1>2, <1>3, <1>4, <1>5

\* The end of a read that has nothing fresh to tell.
LEMMA TellStep ==
  ASSUME LevelIsKnown, ReadersOK, NEW r \in Readers, NEW what \in {"cached", "no_quota"},
         Tell(r, what), reader[r].pc \notin {"spawn", "ask"},
         redeemed' = redeemed, used' = used
  PROVE  /\ LevelIsKnown' /\ ReadersOK'
         /\ \A s \in Readers : Is(s, "write")' <=> s # r /\ Is(s, "write")
<1> DEFINE q == [Resting EXCEPT !.told = what, !.holds = reader[r].holds,
                                !.stuck = reader[r].stuck]
<1>1. /\ reader[r].holds \in SUBSET {"home", "server"} /\ reader[r].stuck \in BOOLEAN
      /\ reader[r].holds # {} => reader[r].stuck
  BY DEF ReadersOK, ReaderLocals, Clean
<1>2. reader' = [reader EXCEPT ![r] = q]
  BY DEF Tell
<1>3. ASSUME NEW p, p = q
      PROVE  p \in ReaderLocals /\ p.pc = "idle" /\ p.since <= Level /\ Asked(p) /\ Clean(p)
  <2> DEFINE holds == reader[r].holds
             stuck == reader[r].stuck
  <2>1. p = [Resting EXCEPT !.told = what, !.holds = holds, !.stuck = stuck]
    BY <1>3
  <2> HIDE DEF holds, stuck
  <2>2. p = [pc |-> "idle", since |-> 0, got |-> 0, told |-> what, holds |-> holds,
             stuck |-> stuck, met |-> "no"]
    BY <2>1 DEF Resting
  <2> QED
    BY <1>1, <2>2, RestingFits DEF holds, stuck
<1> HIDE DEF q
<1>4. \A s \in Readers : reader'[s] = IF s = r THEN q ELSE reader[s]
  BY <1>2 DEF ReadersOK
<1> QED
  BY <1>2, <1>3, <1>4, Update DEF Is
-----------------------------------------------------------------------------
\* The steps between the begin of a read and its answer.
LEMMA ProbeStep ==
  ASSUME ReadsInv, NEW r \in Readers, UNCHANGED <<used, redeemed, settled>>,
         \/ Begin(r) \/ UsageFails(r) \/ ApplyManual(r)
         \/ Spawn(r) \/ SpawnFails(r) \/ ServerFails(r) \/ WaitFails(r)
         \/ \E b \in BOOLEAN : Stage(r, b) \/ StageFails(r, b)
         \/ \E next \in {"save", "details", "sources", "manual"} :
              \/ UsageAnswers(r, next) \/ AskDetails(r, next) \/ AskSources(r, next)
              \/ ServerAnswers(r, next)
  PROVE  ReadsInv'
<1> DEFINE p == reader[r]
           q == reader'[r]
<1>1. p \in ReaderLocals /\ p.since <= Level /\ Asked(p) /\ Clean(p) /\ Level \in 0..Credits
  BY DEF ReadsInv, ReadersOK, LevelIsKnown
<1>2. reader \in [Readers -> ReaderLocals] /\ UNCHANGED <<cache, saved, excused, used, redeemed>>
  BY DEF ReadsInv, ReadersOK, Begin, UsageFails, ApplyManual, Spawn, SpawnFails, ServerFails,
         WaitFails, Stage, StageFails, UsageAnswers, AskDetails, AskSources, ServerAnswers
<1>3. /\ reader' = [reader EXCEPT ![r] = q]
      /\ q \in ReaderLocals /\ q.since <= Level /\ Asked(q) /\ Clean(q)
      /\ p.pc # "write" /\ q.pc # "write"
  <2>1. CASE Begin(r)
    <3>1. reader' = [reader EXCEPT ![r] = q] /\ q = [Resting EXCEPT !.pc = "usage", !.since = Level]
          /\ p.pc # "write"
      BY <1>2, <2>1 DEF Begin, Is
    <3>2. q = [pc |-> "usage", since |-> Level, got |-> 0, told |-> "nothing", holds |-> {},
               stuck |-> FALSE, met |-> "no"]
      BY <3>1 DEF Resting
    <3>3. 0 \in 0..Credits
      BY QuotaAssumption
    <3>4. q \in ReaderLocals
      BY <1>1, <3>2, <3>3 DEF ReaderLocals
    <3>5. q.pc = "usage" /\ q.since = Level /\ q.told = "nothing" /\ q.holds = {}
      BY <3>2
    <3> QED
      BY <1>1, <3>1, <3>4, <3>5 DEF Asked, Clean, HasAnswer
  <2>2. CASE UsageFails(r) \/ ApplyManual(r)
             \/ \E next \in {"save", "details", "sources", "manual"} :
                  AskDetails(r, next) \/ AskSources(r, next)
    BY <1>1, <1>2, <2>2
       DEF UsageFails, ApplyManual, AskDetails, AskSources, Go, Is, ReaderLocals, Asked, Clean,
           HasAnswer
  <2>3. CASE Spawn(r)
    BY <1>1, <1>2, <2>3 DEF Spawn, Is, ReaderLocals, Asked, Clean, HasAnswer
  <2>4. CASE SpawnFails(r)
    BY <1>1, <1>2, <2>4 DEF SpawnFails, Is, ReaderLocals, Asked, Clean, HasAnswer
  <2>5. CASE WaitFails(r)
    BY <1>1, <1>2, <2>5 DEF WaitFails, Is, ReaderLocals, Asked, Clean, HasAnswer
  <2>6. CASE ServerFails(r)
    BY <1>1, <1>2, <2>6 DEF ServerFails, EndProbe, Is, ReaderLocals, Asked, Clean, HasAnswer
  <2>7. CASE \E b \in BOOLEAN : Stage(r, b) \/ StageFails(r, b)
    <3>1. PICK b \in BOOLEAN : Stage(r, b) \/ StageFails(r, b)
      BY <2>7
    <3> DEFINE h == IF b THEN {"home"} ELSE {}
    <3>2. h \in SUBSET {"home", "server"} /\ (h # {} => b)
      OBVIOUS
    <3> HIDE DEF h
    <3>3. CASE reader' = [reader EXCEPT ![r].pc = "spawn", ![r].holds = h]
      BY <1>1, <1>2, <3>1, <3>2, <3>3 DEF Stage, StageFails, Is, ReaderLocals, Asked, Clean, HasAnswer
    <3>4. CASE reader' = [reader EXCEPT ![r].pc = "fallback", ![r].stuck = b, ![r].holds = h]
      BY <1>1, <1>2, <3>1, <3>2, <3>4 DEF Stage, StageFails, Is, ReaderLocals, Asked, Clean, HasAnswer
    <3> QED
      BY <3>1, <3>3, <3>4 DEF Stage, StageFails, h
  <2>9. CASE \E next \in {"save", "details", "sources", "manual"} : UsageAnswers(r, next)
    BY <1>1, <1>2, <2>9 DEF UsageAnswers, AfterAnswer, Is, ReaderLocals, Asked, Clean, HasAnswer
  <2>10. CASE \E next \in {"save", "details", "sources", "manual"} : ServerAnswers(r, next)
    <3>1. PICK next \in {"save", "details", "sources", "manual"} : ServerAnswers(r, next)
      BY <2>10
    <3>2. /\ reader' = [reader EXCEPT ![r] = q] /\ p.pc # "write"
          /\ q = [[p EXCEPT !.pc = next, !.holds = {}] EXCEPT !.got = Level]
      BY <1>2, <3>1 DEF ServerAnswers, EndProbe, Is
    <3>3. q = [pc |-> next, since |-> p.since, got |-> Level, told |-> p.told, holds |-> {},
               stuck |-> p.stuck, met |-> p.met]
      BY <1>1, <3>2 DEF ReaderLocals
    <3> QED
      BY <1>1, <3>2, <3>3 DEF ReaderLocals, Asked, Clean, HasAnswer
  <2> QED
    BY <2>1, <2>2, <2>3, <2>4, <2>5, <2>6, <2>7, <2>9, <2>10
<1> HIDE DEF q
<1>4. LevelIsKnown' /\ ReadersOK'
  BY <1>2, <1>3, Update DEF ReadsInv
<1>5. \A s \in Readers : Is(s, "write")' <=> Is(s, "write")
  BY <1>2, <1>3 DEF Is
<1>6. CacheOK' /\ Kept'
  BY <1>2, <1>5 DEF ReadsInv, CacheOK, Kept
<1> QED
  BY <1>4, <1>6 DEF ReadsInv

LEMMA CachedStep ==
  ASSUME ReadsInv, NEW r \in Readers, UNCHANGED <<used, redeemed, settled>>,
         ReadCache(r) \/ ReadExternal(r) \/ Fallback(r) \/ SaveFails(r)
  PROVE  ReadsInv'
<1>1. PICK what \in {"cached", "no_quota"} : Tell(r, what)
  BY DEF ReadCache, ReadExternal, Fallback, SaveFails, TellCached
<1>2. reader[r].pc \notin {"spawn", "ask"} /\ UNCHANGED <<cache, saved>>
  BY DEF ReadCache, ReadExternal, Fallback, SaveFails, Is
<1>3. excused' = (excused \/ Is(r, "write"))
  BY DEF ReadCache, ReadExternal, Fallback, SaveFails, Is, ReadsInv, CacheOK
<1>4. /\ LevelIsKnown' /\ ReadersOK'
      /\ \A s \in Readers : Is(s, "write")' <=> s # r /\ Is(s, "write")
  BY <1>1, <1>2, TellStep DEF ReadsInv
<1>5. CacheOK' /\ Kept'
  BY <1>2, <1>3, <1>4 DEF ReadsInv, CacheOK, Kept
<1> QED
  BY <1>4, <1>5 DEF ReadsInv

LEMMA TruncateStep ==
  ASSUME ReadsInv, NEW r \in Readers, UNCHANGED <<used, redeemed, settled>>, Truncate(r)
  PROVE  ReadsInv'
<1> DEFINE q == [reader[r] EXCEPT !.pc = "write"]
<1>1. reader[r] \in ReaderLocals /\ reader[r].since <= Level /\ Asked(reader[r]) /\ Clean(reader[r])
      /\ reader[r].pc = "save"
  BY DEF ReadsInv, ReadersOK, Truncate, Is
<1>2. q \in ReaderLocals /\ q.since <= Level /\ Asked(q) /\ Clean(q) /\ q.pc = "write"
  BY <1>1 DEF ReaderLocals, Asked, Clean, HasAnswer
<1>3. reader' = [reader EXCEPT ![r] = q]
  BY DEF Truncate
<1> HIDE DEF q
<1>4. LevelIsKnown' /\ ReadersOK' /\ Is(r, "write")'
  BY <1>2, <1>3, Update DEF ReadsInv, ReadersOK, Is
<1>5. CacheOK' /\ Kept'
  BY <1>4 DEF Truncate, ReadsInv, CacheOK, Kept, Caches
<1> QED
  BY <1>4, <1>5 DEF ReadsInv

\* A save is clean, or it is excused.
LEMMA SaveStep ==
  ASSUME ReadsInv, NEW r \in Readers, UNCHANGED <<used, redeemed, settled>>,
         NEW mixed \in BOOLEAN, NEW told \in {"fresh", "no_quota"}, Save(r, mixed, told)
  PROVE  ReadsInv'
<1>1. /\ reader \in [Readers -> ReaderLocals] /\ reader[r].pc = "write"
      /\ Level' = Level /\ Level \in 0..Credits
      /\ \A s \in Readers : /\ reader[s] \in ReaderLocals /\ reader[s].since <= Level
                            /\ Asked(reader[s]) /\ Clean(reader[s])
  BY DEF ReadsInv, ReadersOK, LevelIsKnown, Level, Save, Is
<1> DEFINE q == [reader[r] EXCEPT !.pc = "idle", !.told = told, !.met = "no",
                                  !.since = IF told = "fresh" THEN @ ELSE 0,
                                  !.got = IF told = "fresh" THEN @ ELSE 0]
           o(s) == [reader[s] EXCEPT !.met = Met(s, r)]
<1>2. reader' = [s \in Readers |-> IF s = r THEN q ELSE o(s)]
  BY DEF Save
<1> DEFINE since == IF told = "fresh" THEN reader[r].since ELSE 0
           got == IF told = "fresh" THEN reader[r].got ELSE 0
<1>3. ASSUME NEW p, p = q
      PROVE  p \in ReaderLocals /\ p.since <= Level /\ Asked(p) /\ Clean(p)
  <2>1. since \in 0..Credits /\ got \in 0..Credits /\ since <= Level /\ got >= since
    BY <1>1, QuotaAssumption DEF ReaderLocals, Asked, HasAnswer
  <2> HIDE DEF since, got
  <2>2. p = [reader[r] EXCEPT !.pc = "idle", !.told = told, !.met = "no",
                              !.since = since, !.got = got]
    BY <1>3 DEF since, got
  <2>3. p = [pc |-> "idle", since |-> since, got |-> got, told |-> told,
             holds |-> reader[r].holds, stuck |-> reader[r].stuck, met |-> "no"]
    BY <1>1, <2>2 DEF ReaderLocals
  <2> QED
    BY <1>1, <2>1, <2>3 DEF ReaderLocals, Asked, Clean
<1>4. ASSUME NEW s \in Readers
      PROVE  o(s) \in ReaderLocals /\ o(s).since <= Level /\ Asked(o(s)) /\ Clean(o(s))
  <2>1. Met(s, r) \in {"no", "reading", "writing"} /\ reader[s] \in ReaderLocals
    BY <1>1 DEF Met, ReaderLocals
  <2> QED
    BY <1>1, <2>1 DEF ReaderLocals, Asked, Clean
<1> HIDE DEF q, o
<1>5. LevelIsKnown'
  BY <1>1 DEF ReadsInv, LevelIsKnown
<1>6. ReadersOK'
  BY <1>1, <1>2, <1>3, <1>4 DEF ReadersOK, Asked, Clean
<1>7. CacheOK' /\ Kept'
  <2>1. reader[r].got \in 0..Credits /\ reader[r].met \in {"no", "reading", "writing"}
    BY <1>1 DEF ReaderLocals
  <2>2. CacheOK'
    BY <2>1 DEF Save, CacheOK, Caches
  <2>3. excused' \/ cache' = saved'
    BY <2>1 DEF Save
  <2> QED
    BY <2>2, <2>3 DEF Kept
<1> QED
  BY <1>5, <1>6, <1>7 DEF ReadsInv

LEMMA DeathStep ==
  ASSUME ReadsInv, UNCHANGED <<used, redeemed, settled>>, ReadersDie
  PROVE  ReadsInv'
<1>1. Level' = Level /\ LevelIsKnown /\ LevelIsKnown'
  BY DEF ReadsInv, LevelIsKnown, Level
<1> DEFINE q(r) == [Resting EXCEPT !.holds = reader[r].holds, !.stuck = reader[r].holds # {}]
<1>2. ASSUME NEW r \in Readers
      PROVE  q(r) \in ReaderLocals /\ q(r).since <= Level /\ Asked(q(r)) /\ Clean(q(r))
  <2>1. reader[r].holds \in SUBSET {"home", "server"}
    BY DEF ReadsInv, ReadersOK, ReaderLocals
  <2>2. ASSUME NEW p, p = q(r)
        PROVE  p \in ReaderLocals /\ p.since <= Level /\ Asked(p) /\ Clean(p)
    <3> DEFINE h == reader[r].holds
    <3>1. p = [Resting EXCEPT !.holds = h, !.stuck = (h # {})]
      BY <2>2
    <3> HIDE DEF h
    <3>2. PICK stuck : stuck \in BOOLEAN /\ stuck = (h # {})
      OBVIOUS
    <3>3. p = [Resting EXCEPT !.holds = h, !.stuck = stuck]
      BY Zenon, <3>1, <3>2
    <3>4. p = [pc |-> "idle", since |-> 0, got |-> 0, told |-> "nothing", holds |-> h,
               stuck |-> stuck, met |-> "no"]
      BY <3>3 DEF Resting
    <3> QED
      BY <1>1, <2>1, <3>2, <3>4, RestingFits DEF h
  <2> QED
    BY <2>2
<1>3. reader' = [r \in Readers |-> q(r)]
  BY DEF ReadersDie
<1> HIDE DEF q
<1>4. ReadersOK'
  BY <1>1, <1>2, <1>3 DEF ReadersOK, Asked, Clean
<1>5. CacheOK' /\ Kept'
  BY DEF ReadersDie, ReadsInv, CacheOK, Kept
<1> QED
  BY <1>1, <1>4, <1>5 DEF ReadsInv

\* A credit is spent: what a read learns only grows.
LEMMA SpendStep ==
  ASSUME ReadsInv, NEW id \in Ids, Spend(id)
  PROVE  ReadsInv'
<1>1. id \notin redeemed /\ redeemed' = redeemed \cup {id} /\ used' = used \cup {id}
  BY DEF Spend, ReadsInv, LevelIsKnown
<1>2. IsFiniteSet(redeemed') /\ Cardinality(redeemed') = Cardinality(redeemed) + 1
  BY <1>1, FS_AddElement DEF ReadsInv, LevelIsKnown
<1>3. Level' = Level + 1 /\ Level < Credits /\ Level \in 0..Credits
  BY <1>2 DEF Level, Spend, ReadsInv, LevelIsKnown
<1>4. LevelIsKnown'
  BY <1>1, <1>2, <1>3, QuotaAssumption DEF ReadsInv, LevelIsKnown
<1>5. reader' = reader /\ cache' = cache /\ saved' = saved /\ excused' = excused
  BY DEF Spend, readVars
<1>6. \A r \in Readers : reader[r].since \in 0..Credits
  BY DEF ReadsInv, ReadersOK, ReaderLocals
<1>7. ReadersOK'
  BY <1>3, <1>5, <1>6 DEF ReadsInv, ReadersOK
<1> QED
  BY <1>4, <1>5, <1>7 DEF ReadsInv, CacheOK, Kept, Is
-----------------------------------------------------------------------------
LEMMA ReadsInvariance == ReadsSpec => []ReadsInv
<1>1. QuotaInit /\ ReadsInit => ReadsInv
  <2> SUFFICES ASSUME QuotaInit, ReadsInit PROVE ReadsInv
    OBVIOUS
  <2>1. LevelIsKnown
    BY FS_EmptySet, QuotaAssumption DEF QuotaInit, LevelIsKnown, Level
  <2>2. ReadersOK
    BY <2>1, QuotaAssumption
       DEF ReadsInit, ReadersOK, Resting, ReaderLocals, Asked, Clean, HasAnswer, LevelIsKnown
  <2> QED
    BY <2>1, <2>2 DEF ReadsInit, ReadsInv, CacheOK, Kept, Caches
<1>2. ReadsInv /\ [ReadsNext]_<<quotaVars, readVars>> => ReadsInv'
  <2> SUFFICES ASSUME ReadsInv, [ReadsNext]_<<quotaVars, readVars>> PROVE ReadsInv'
    OBVIOUS
  <2>1. CASE UNCHANGED <<quotaVars, readVars>>
    BY <2>1 DEF quotaVars, readVars, ReadsInv, LevelIsKnown, Level, ReadersOK, CacheOK, Kept, Is
  <2>2. CASE \E r \in Readers : ReadStep(r) /\ UNCHANGED <<used, redeemed, settled>>
    BY <2>2, ProbeStep, CachedStep, TruncateStep, SaveStep DEF ReadStep
  <2> QED
    BY <2>1, <2>2, DeathStep, SpendStep DEF ReadsNext
<1> QED
  BY <1>1, <1>2, PTL DEF ReadsSpec

\* get_profile_quota returns as fresh only what the server said after the read
\* began, and the cache is the last text that write_quota_cache finished,
\* whichever reads overlap, fail on the way or die, but for those that the
\* property names.
THEOREM ReadsAreCurrent == ReadsSpec => []QuotaIsCurrent
<1>1. ReadsInv => QuotaIsCurrent
  BY DEF ReadsInv, ReadersOK, CacheOK, Kept, QuotaIsCurrent, FreshIsCurrent, CacheKeepsUp,
         ReadsTypeOK, Asked
<1> QED
  BY <1>1, ReadsInvariance, PTL

\* A read leaves neither its copy of the auth file nor its app-server, on every
\* way out of read_quota_from_app_server that can end them.
THEOREM ReadsLeaveNothing == ReadsSpec => []NothingIsLeft
<1>1. ReadsInv => NothingIsLeft
  BY DEF ReadsInv, ReadersOK, NothingIsLeft, Clean
<1> QED
  BY <1>1, ReadsInvariance, PTL
=============================================================================
