-------------------------- MODULE ResponseStreamProofs --------------------------
(***************************************************************************)
(* What Codex may rely on in an answer of the Gateway: the answer ends     *)
(* once, with a word, and an answer that is said to be complete is whole,  *)
(* whatever the upstream sends, however it is cut into reads, and whoever  *)
(* breaks off when; and the reasoning of a turn that calls tools outlives  *)
(* the turns of other conversations.  What the upstream may rely on: the   *)
(* messages it is sent name every call once, and carry the reasoning it    *)
(* asks for.                                                               *)
(*                                                                         *)
(* The proof goes from the inside out.  What one call of the adapter       *)
(* (ChatStream) does to the view Codex has of the answer; what one frame   *)
(* of the upstream does; what a read of several frames does, by induction  *)
(* over its frames; and what each step of the task and of Codex does to    *)
(* what is on its way between them.  For the messages: what each item of a *)
(* conversation does to the translation, then the folds over the items.    *)
(***************************************************************************)
EXTENDS ResponseStream, SequenceTheorems, FiniteSetTheorems, WellFoundedInduction, TLAPS

-----------------------------------------------------------------------------
(* Induction over the data: a set that is closed holds everything.         *)

LEMMA HoldsAllNaturals ==
  ASSUME NEW T, 0 \in T, \A n \in Nat : n \in T => n + 1 \in T
  PROVE  Nat \subseteq T
<1> DEFINE Less == {pair \in Nat \X Nat : pair[1] < pair[2]}
<1>1. IsWellFoundedOn(Less, Nat)
  BY NatLessThanWellFounded DEF OpToRel
<1> SUFFICES ASSUME Nat \ T # {}
             PROVE  FALSE
  OBVIOUS
<1> DEFINE Rest == Nat \ T
<1>2. PICK n \in Rest : \A m \in Rest : ~(<<m, n>> \in Less)
  <2> Rest \subseteq Nat /\ Rest # {}
    OBVIOUS
  <2> HIDE DEF Rest, Less
  <2> QED
    BY <1>1, WFMin
<1>3. n # 0 /\ n - 1 \in Nat /\ (n - 1) + 1 = n
  BY <1>2
<1>4. n - 1 \in T
  <2>1. <<n - 1, n>> \in Less
    BY <1>3
  <2> QED
    BY <1>2, <1>3, <2>1
<1> QED
  BY <1>2, <1>3, <1>4

LEMMA HoldsAllSubsets ==
  ASSUME NEW S, IsFiniteSet(S), NEW T, {} \in T,
         \A A \in SUBSET S : A # {} /\ (\A x \in A : A \ {x} \in T) => A \in T
  PROVE  SUBSET S \subseteq T
<1> DEFINE Sizes == {n \in Nat : \A A \in SUBSET S : Cardinality(A) = n => A \in T}
<1>1. \A A \in SUBSET S : IsFiniteSet(A) /\ Cardinality(A) \in Nat
  BY FS_Subset, FS_CardinalityType
<1>2. 0 \in Sizes
  BY <1>1, FS_EmptySet
<1>3. ASSUME NEW n \in Nat, n \in Sizes
      PROVE  n + 1 \in Sizes
  <2> SUFFICES ASSUME NEW A \in SUBSET S, Cardinality(A) = n + 1
               PROVE  A \in T
    OBVIOUS
  <2>1. A # {}
    <3>1. n + 1 # 0 /\ Cardinality({}) = 0
      BY FS_EmptySet
    <3> QED
      BY <3>1
  <2>2. ASSUME NEW x \in A
        PROVE  A \ {x} \in T
    <3>1. IsFiniteSet(A) /\ x \in A
      BY <1>1
    <3>2. Cardinality(A \ {x}) = Cardinality(A) - 1
      BY <3>1, FS_RemoveElement
    <3> QED
      BY <1>3, <3>2
  <2> QED
    BY <2>1, <2>2
<1> HIDE DEF Sizes
<1>4. Nat \subseteq Sizes
  BY <1>2, <1>3, HoldsAllNaturals
<1> QED
  BY <1>1, <1>4 DEF Sizes

-----------------------------------------------------------------------------
(* Folds over sequences.                                                   *)

LEMMA EmptyRange ==
  1..0 = {} /\ SUBSET (1..0) = {{}}
<1>1. 1..0 = {}
  OBVIOUS
<1> QED
  BY <1>1

LEMMA MaxIs ==
  ASSUME NEW n \in Nat, NEW A \in SUBSET (1..n), A # {}
  PROVE  Max(A) \in A /\ \A x \in A : x <= Max(A)
<1> DEFINE T == {k \in Nat : \A B \in SUBSET (1..k) :
                               B # {} => \E m \in B : \A x \in B : m >= x}
<1>1. 0 \in T
  BY EmptyRange
<1>2. ASSUME NEW k \in Nat, k \in T
      PROVE  k + 1 \in T
  <2> SUFFICES ASSUME NEW B \in SUBSET (1..(k + 1)), B # {}
               PROVE  \E m \in B : \A x \in B : m >= x
    OBVIOUS
  <2>1. CASE k + 1 \in B
    BY <2>1
  <2>2. CASE k + 1 \notin B
    <3>1. B \in SUBSET (1..k)
      BY <2>2
    <3> QED
      BY <1>2, <3>1
  <2> QED
    BY <2>1, <2>2
<1> HIDE DEF T
<1>3. n \in T
  BY <1>1, <1>2, HoldsAllNaturals
<1>4. \E m \in A : \A x \in A : m >= x
  BY <1>3 DEF T
<1> QED
  BY <1>4 DEF Max

LEMMA NextMax ==
  ASSUME NEW k \in Nat, NEW A \in SUBSET (1..(k + 1)), A # {}
  PROVE  IF k + 1 \in A THEN Max(A) = k + 1 /\ A \ {k + 1} \in SUBSET (1..k)
         ELSE A \in SUBSET (1..k) /\ Max(A) \in A
<1> DEFINE m == k + 1
<1>1. m \in Nat
  OBVIOUS
<1> HIDE DEF m
<1>2. A \in SUBSET (1..m)
  BY DEF m
<1>3. Max(A) \in A /\ \A x \in A : x <= Max(A)
  BY <1>1, <1>2, MaxIs
<1>4. ASSUME m \in A
      PROVE  Max(A) = k + 1 /\ A \ {k + 1} \in SUBSET (1..k)
  <2>1. Max(A) \in 1..(k + 1) /\ k + 1 <= Max(A)
    BY <1>3, <1>4 DEF m
  <2>2. Max(A) = k + 1
    BY <2>1
  <2> QED
    BY <2>2
<1>5. ASSUME m \notin A
      PROVE  A \in SUBSET (1..k)
  BY <1>2, <1>5 DEF m
<1> QED
  BY <1>3, <1>4, <1>5 DEF m

LEMMA RangeMax ==
  ASSUME NEW n \in Nat, NEW i \in 1..n
  PROVE  /\ 1..i \in SUBSET (1..n) /\ 1..i # {} /\ (1..i) \ {i} = 1..(i - 1)
         /\ Max(1..i) = i
<1>1. i \in Nat /\ 1..i \in SUBSET (1..i) /\ i \in 1..i
  OBVIOUS
<1>2. Max(1..i) \in 1..i /\ \A x \in 1..i : x <= Max(1..i)
  BY <1>1, MaxIs
<1>3. Max(1..i) = i
  BY <1>1, <1>2
<1> QED
  BY <1>3


\* FoldLeft(View, b, s) goes through s from its first element to its last.
ViewIter(g, b, s, n) ==
  g = [A \in SUBSET (1..n) |->
         IF A = {} THEN b ELSE View(g[A \ {Max(A)}], s[Max(A)])]

LEMMA ViewIterates ==
  ASSUME NEW b, NEW s, NEW n \in Nat
  PROVE  \E g : ViewIter(g, b, s, n)
<1> DEFINE T == {k \in Nat : \E g : ViewIter(g, b, s, k)}
<1>1. 0 \in T
  <2>1. ViewIter([A \in SUBSET (1..0) |-> b], b, s, 0)
    BY EmptyRange DEF ViewIter
  <2> QED
    BY <2>1
<1>2. ASSUME NEW k \in Nat, k \in T
      PROVE  k + 1 \in T
  <2>1. PICK g : ViewIter(g, b, s, k)
    BY <1>2
  <2> DEFINE h == [A \in SUBSET (1..(k + 1)) |->
                     IF k + 1 \in A THEN View(g[A \ {k + 1}], s[k + 1]) ELSE g[A]]
  <2>2. ASSUME NEW A \in SUBSET (1..(k + 1)), A # {}
        PROVE  h[A] = View(h[A \ {Max(A)}], s[Max(A)])
    <3>1. CASE k + 1 \in A
      BY <2>2, <3>1, NextMax
    <3>2. CASE k + 1 \notin A
      <4>1. A \in SUBSET (1..k) /\ A \ {Max(A)} \in SUBSET (1..k) /\ k + 1 \notin A \ {Max(A)}
        BY <3>2, NextMax
      <4>2. g[A] = View(g[A \ {Max(A)}], s[Max(A)])
        BY <2>1, <2>2, <4>1 DEF ViewIter
      <4> QED
        BY <3>2, <4>1, <4>2
    <3> QED
      BY <3>1, <3>2
  <2>3. h[{}] = b
    BY <2>1 DEF ViewIter
  <2>4. ViewIter(h, b, s, k + 1)
    BY <2>2, <2>3 DEF ViewIter
  <2> QED
    BY <2>4
<1> HIDE DEF T
<1>3. Nat \subseteq T
  BY <1>1, <1>2, HoldsAllNaturals
<1> QED
  BY <1>3 DEF T

ViewTraces(f, b, s, n) ==
  f[0] = b /\ \A i \in 1..n : f[i] = View(f[i - 1], s[i])

LEMMA ViewTrace ==
  ASSUME NEW b, NEW s, NEW n \in Nat, DOMAIN s = 1..n
  PROVE  \E f : ViewTraces(f, b, s, n) /\ FoldLeft(View, b, s) = f[n]
<1> DEFINE g == CHOOSE g : ViewIter(g, b, s, n)
<1>1. ViewIter(g, b, s, n)
  BY ViewIterates
<1>2. FoldLeft(View, b, s) = g[1..n]
  BY DEF FoldLeft, MapThenFoldSet, ViewIter
<1> HIDE DEF g
<1> DEFINE f == [i \in 0..n |-> g[1..i]]
<1>3. f[0] = b
  BY <1>1, EmptyRange DEF ViewIter
<1>4. ASSUME NEW i \in 1..n
      PROVE  f[i] = View(f[i - 1], s[i])
  <2>1. 1..i \in SUBSET (1..n) /\ 1..i # {} /\ Max(1..i) = i /\ (1..i) \ {i} = 1..(i - 1)
    BY RangeMax
  <2>2. g[1..i] = View(g[(1..i) \ {Max(1..i)}], s[Max(1..i)])
    BY <1>1, <2>1 DEF ViewIter
  <2>3. i \in 0..n /\ i - 1 \in 0..n
    OBVIOUS
  <2> QED
    BY <2>1, <2>2, <2>3
<1>5. f[n] = g[1..n]
  OBVIOUS
<1> HIDE DEF f
<1> QED
  BY <1>2, <1>3, <1>4, <1>5 DEF ViewTraces

LEMMA ViewFolds ==
  ASSUME NEW b, NEW s, NEW n \in Nat, DOMAIN s = 1..n, NEW f, ViewTraces(f, b, s, n)
  PROVE  FoldLeft(View, b, s) = f[n]
<1>1. PICK g : ViewTraces(g, b, s, n) /\ FoldLeft(View, b, s) = g[n]
  BY ViewTrace
<1> DEFINE T == {i \in Nat : i <= n => f[i] = g[i]}
<1>2. 0 \in T
  BY <1>1 DEF ViewTraces
<1>3. ASSUME NEW i \in Nat, i \in T
      PROVE  i + 1 \in T
  <2> SUFFICES ASSUME i + 1 <= n
               PROVE  f[i + 1] = g[i + 1]
    OBVIOUS
  <2>1. i + 1 \in 1..n /\ (i + 1) - 1 = i /\ f[i] = g[i]
    BY <1>3
  <2> QED
    BY <1>1, <2>1 DEF ViewTraces
<1> HIDE DEF T
<1>4. n \in T
  BY <1>2, <1>3, HoldsAllNaturals
<1> QED
  BY <1>1, <1>4 DEF T

LEMMA ViewEmpty ==
  \A b : FoldLeft(View, b, <<>>) = b
<1> TAKE b
<1>1. DOMAIN <<>> = 1..0
  OBVIOUS
<1>2. ViewTraces([i \in {0} |-> b], b, <<>>, 0)
  BY EmptyRange DEF ViewTraces
<1>3. FoldLeft(View, b, <<>>) = [i \in {0} |-> b][0]
  BY <1>1, <1>2, ViewFolds
<1> QED
  BY <1>3

LEMMA ViewAppend ==
  \A b, S : \A s \in Seq(S), x \in S :
      FoldLeft(View, b, Append(s, x)) = View(FoldLeft(View, b, s), x)
<1> TAKE b, S
<1> TAKE s \in Seq(S), x \in S
<1> DEFINE n == Len(s)
           t == Append(s, x)
<1>1. /\ n \in Nat /\ n + 1 \in Nat /\ DOMAIN s = 1..n /\ DOMAIN t = 1..(n + 1)
      /\ t[n + 1] = x /\ \A i \in 1..n : t[i] = s[i]
  OBVIOUS
<1> HIDE DEF t, n
<1>2. PICK f : ViewTraces(f, b, t, n + 1) /\ FoldLeft(View, b, t) = f[n + 1]
  BY <1>1, ViewTrace
<1>3. ViewTraces(f, b, s, n)
  BY <1>1, <1>2 DEF ViewTraces
<1>4. FoldLeft(View, b, s) = f[n]
  BY <1>1, <1>3, ViewFolds
<1>5. n + 1 \in 1..(n + 1) /\ (n + 1) - 1 = n
  BY <1>1
<1>6. FoldLeft(View, b, t) = View(f[n], x)
  BY <1>1, <1>2, <1>5 DEF ViewTraces
<1> QED
  BY <1>4, <1>6 DEF t

LEMMA ViewConcat ==
  \A b, S : \A s, t \in Seq(S) :
      FoldLeft(View, b, s \o t) = FoldLeft(View, FoldLeft(View, b, s), t)
<1> TAKE b, S
<1> TAKE s, t \in Seq(S)
<1> DEFINE n == Len(s)
           m == Len(t)
           w == s \o t
<1>1. /\ n \in Nat /\ m \in Nat /\ DOMAIN s = 1..n /\ DOMAIN t = 1..m /\ DOMAIN w = 1..(n + m)
      /\ \A i \in 1..n : w[i] = s[i]
      /\ \A i \in 1..m : w[n + i] = t[i]
  OBVIOUS
<1> HIDE DEF w, n, m
<1>2. PICK f : ViewTraces(f, b, w, n + m) /\ FoldLeft(View, b, w) = f[n + m]
  BY <1>1, ViewTrace
<1>3. ViewTraces(f, b, s, n)
  BY <1>1, <1>2 DEF ViewTraces
<1>4. FoldLeft(View, b, s) = f[n]
  BY <1>1, <1>3, ViewFolds
<1> DEFINE g == [i \in 0..m |-> f[n + i]]
<1>5. ViewTraces(g, f[n], t, m)
  <2>1. g[0] = f[n]
    BY <1>1
  <2>2. ASSUME NEW i \in 1..m
        PROVE  g[i] = View(g[i - 1], t[i])
    <3>1. n + i \in 1..(n + m) /\ (n + i) - 1 = n + (i - 1) /\ i - 1 \in 0..m /\ i \in 0..m
      BY <1>1
    <3> QED
      BY <1>1, <1>2, <3>1 DEF ViewTraces
  <2> HIDE DEF g
  <2> QED
    BY <2>1, <2>2 DEF ViewTraces
<1>6. g[m] = f[n + m]
  BY <1>1
<1> HIDE DEF g
<1>7. FoldLeft(View, f[n], t) = g[m]
  BY <1>1, <1>5, ViewFolds
<1> QED
  BY <1>2, <1>4, <1>6, <1>7 DEF w

-----------------------------------------------------------------------------
(* What Codex makes of events.                                             *)

Endings == Terminals \cup {"error"}
EventTypes == {"created", "added", "part", "delta", "closing", "done", "event", "DONE", "head"}
                \cup Endings
Somewhat == StreamItems \cup {None}
Events == [type : EventTypes, seq : Nat, item : Somewhat, size : Nat]
Views == [last : Int, added : SUBSET Somewhat, done : Seq(Somewhat), terminals : Seq(Endings)]

Quiet(events) == \A i \in DOMAIN events : events[i].type \notin Endings

LEMMA ViewOfEvent ==
  ASSUME NEW v \in Views, NEW e \in Events
  PROVE  /\ View(v, e) \in Views
         /\ View(v, e).added = IF e.type = "added" THEN v.added \cup {e.item} ELSE v.added
         /\ View(v, e).done = IF e.type = "done" THEN Append(v.done, e.item) ELSE v.done
         /\ View(v, e).terminals = IF e.type \in Endings THEN Append(v.terminals, e.type)
                                   ELSE v.terminals
<1>1. /\ e.type \in EventTypes /\ e.seq \in Int /\ e.item \in Somewhat
      /\ v.added \in SUBSET Somewhat /\ v.done \in Seq(Somewhat) /\ v.terminals \in Seq(Endings)
  BY DEF Events, Views
<1>2. Append(v.done, e.item) \in Seq(Somewhat)
  BY <1>1
<1>3. ASSUME e.type \in Endings
      PROVE  Append(v.terminals, e.type) \in Seq(Endings)
  BY <1>1, <1>3
<1> DEFINE n == IF e.type = "added" THEN v.added \cup {e.item} ELSE v.added
           d == IF e.type = "done" THEN Append(v.done, e.item) ELSE v.done
           t == IF e.type \in Endings THEN Append(v.terminals, e.type) ELSE v.terminals
<1>4. n \in SUBSET Somewhat /\ d \in Seq(Somewhat) /\ t \in Seq(Endings)
  BY <1>1, <1>2, <1>3
<1>5. View(v, e) = [last |-> e.seq, added |-> n, done |-> d, terminals |-> t]
  BY DEF View, Endings
<1> HIDE DEF n, d, t
<1>6. View(v, e) \in Views /\ View(v, e).added = n /\ View(v, e).done = d
      /\ View(v, e).terminals = t
  BY <1>1, <1>4, <1>5 DEF Views
<1> QED
  BY <1>6 DEF n, d, t

LEMMA ViewOfEvents ==
  ASSUME NEW v \in Views, NEW s \in Seq(Events)
  PROVE  /\ FoldLeft(View, v, s) \in Views
         /\ Quiet(s) => FoldLeft(View, v, s).terminals = v.terminals
         /\ Len(FoldLeft(View, v, s).terminals) >= Len(v.terminals)
<1>1. DOMAIN s = 1..Len(s) /\ Len(s) \in Nat
  OBVIOUS
<1>2. PICK f : ViewTraces(f, v, s, Len(s)) /\ FoldLeft(View, v, s) = f[Len(s)]
  BY <1>1, ViewTrace
<1> DEFINE T == {i \in Nat : i <= Len(s) =>
                               /\ f[i] \in Views
                               /\ Quiet(s) => f[i].terminals = v.terminals
                               /\ Len(f[i].terminals) >= Len(v.terminals)}
<1>3. 0 \in T
  <2>1. Len(v.terminals) \in Nat
    BY DEF Views
  <2> QED
    BY <1>2, <2>1 DEF ViewTraces
<1>4. ASSUME NEW i \in Nat, i \in T
      PROVE  i + 1 \in T
  <2> SUFFICES ASSUME i + 1 <= Len(s)
               PROVE  /\ f[i + 1] \in Views
                      /\ Quiet(s) => f[i + 1].terminals = v.terminals
                      /\ Len(f[i + 1].terminals) >= Len(v.terminals)
    OBVIOUS
  <2>1. i + 1 \in 1..Len(s) /\ (i + 1) - 1 = i /\ i <= Len(s)
    BY <1>4
  <2>2. s[i + 1] \in Events
    BY <2>1
  <2>3. f[i + 1] = View(f[i], s[i + 1])
    BY <1>2, <2>1 DEF ViewTraces
  <2>4. f[i] \in Views /\ Len(f[i].terminals) >= Len(v.terminals)
        /\ (Quiet(s) => f[i].terminals = v.terminals)
    BY <1>4, <2>1
  <2>5. f[i + 1] \in Views
        /\ f[i + 1].terminals = IF s[i + 1].type \in Endings
                                THEN Append(f[i].terminals, s[i + 1].type) ELSE f[i].terminals
    <3> DEFINE e == s[i + 1]
               g == f[i]
    <3>1. e \in Events /\ g \in Views
      BY <2>2, <2>4
    <3> HIDE DEF e, g
    <3>2. /\ View(g, e) \in Views
          /\ View(g, e).terminals = IF e.type \in Endings THEN Append(g.terminals, e.type)
                                    ELSE g.terminals
      BY <3>1, ViewOfEvent
    <3> QED
      BY <2>3, <3>2 DEF e, g
  <2>6. Len(f[i + 1].terminals) >= Len(f[i].terminals) /\ Len(f[i + 1].terminals) \in Nat
        /\ Len(f[i].terminals) \in Nat /\ Len(v.terminals) \in Nat
    <3>1. f[i].terminals \in Seq(Endings) /\ v.terminals \in Seq(Endings)
          /\ f[i + 1].terminals \in Seq(Endings)
      BY <2>4, <2>5 DEF Views
    <3> QED
      BY <2>5, <3>1
  <2>7. Quiet(s) => f[i + 1].terminals = v.terminals
    BY <1>1, <2>1, <2>4, <2>5 DEF Quiet
  <2> QED
    BY <2>4, <2>5, <2>6, <2>7
<1> HIDE DEF T
<1>5. Len(s) \in T
  BY <1>1, <1>3, <1>4, HoldsAllNaturals
<1> QED
  BY <1>1, <1>2, <1>5 DEF T

-----------------------------------------------------------------------------
(* The adapter (ChatStream), and what Codex sees of a call after it saw v. *)

States == {"new", "open", "item", "awaiting", "completed", "failed"}
ToolNames == {f.name : f \in ToolFrames}
Indices == {f.index : f \in ToolFrames}
CallRecords == [id : CallIds \cup {None}, name : ToolNames \cup {None}, halves : Nat,
                item : Somewhat]
CallTables == UNION {[D -> CallRecords] : D \in {D \in SUBSET Indices : IsFiniteSet(D)}}
Declarations == {ToolsOf(r) : r \in Requests} \cup {<<>>}

Adapters ==
  [state : States, seq : Nat, text : 0..MaxText, open : BOOLEAN, output : Seq(Somewhat),
   calls : CallTables, ids : SUBSET (CallIds \cup {None}), captures : BOOLEAN, thought : Nat,
   reasoning : Somewhat, thinking : BOOLEAN, status : {"completed", "incomplete"},
   declared : Declarations, out : Seq(Events), failures : Seq(Events), err : BOOLEAN]

Seen(v, a) == FoldLeft(View, v, a.out)

\* A call that goes on: it adds events, and none that ends the answer.
Goes(a, b) ==
  /\ b \in Adapters
  /\ ~b.err /\ b.failures = a.failures /\ b.declared = a.declared
  /\ IsOver(b) => IsOver(a)
  /\ Quiet(a.out) => Quiet(b.out)

\* A call that fails.
Breaks(a, b) ==
  /\ b \in Adapters
  /\ b.err /\ b.out = <<>>
  /\ ~IsOver(a) /\ a.failures = <<>> =>
        /\ b.state = "failed"
        /\ \E e \in Events : e.type = "failed" /\ b.failures = <<e>>

\* All but the events is the same.
SameBut(a, b) ==
  /\ b.state = a.state /\ b.text = a.text /\ b.open = a.open /\ b.output = a.output
  /\ b.calls = a.calls /\ b.ids = a.ids /\ b.captures = a.captures /\ b.thought = a.thought
  /\ b.reasoning = a.reasoning /\ b.thinking = a.thinking /\ b.status = a.status

\* The events of a call open or close one item, or none.
Shows(v, a, b, opened, closed) ==
  /\ Seen(v, b) \in Views
  /\ Seen(v, b).added = Seen(v, a).added \cup opened
  /\ Seen(v, b).done = Seen(v, a).done \o closed

LEMMA Message0IsItem ==
  Message0 \in StreamItems /\ Message0 \in Somewhat /\ Message0 # None
BY AnswerAssumption DEF Message0, StreamItems, Somewhat

LEMMA EventIsTyped ==
  ASSUME NEW a \in Adapters, NEW type \in EventTypes, NEW item \in Somewhat
  PROVE  Event(a, type, item) \in Events /\ Event(a, type, item).type = type
         /\ Event(a, type, item).item = item
<1> DEFINE size == IF Repeats(a, type, item) /\ a.text > 1 THEN a.text ELSE 1
<1>1. a.seq \in Nat /\ size \in Nat
  BY TextAssumption DEF Adapters
<1>2. Event(a, type, item) = [type |-> type, seq |-> a.seq, item |-> item, size |-> size]
  BY DEF Event
<1> HIDE DEF size
<1> QED
  BY <1>1, <1>2 DEF Events

WithEvent(a, e) == [a EXCEPT !.seq = @ + 1, !.out = Append(@, e)]

LEMMA AppendOut ==
  ASSUME NEW a \in Adapters, NEW e \in Events
  PROVE  /\ WithEvent(a, e) \in Adapters
         /\ WithEvent(a, e).out = Append(a.out, e)
         /\ WithEvent(a, e).err = a.err /\ WithEvent(a, e).failures = a.failures
         /\ WithEvent(a, e).declared = a.declared /\ SameBut(a, WithEvent(a, e))
<1> DEFINE s == a.seq + 1
           o == Append(a.out, e)
<1>1. s \in Nat /\ o \in Seq(Events)
  BY DEF Adapters
<1>2. WithEvent(a, e) = [a EXCEPT !.seq = s, !.out = o]
  BY DEF Adapters, WithEvent
<1> HIDE DEF s, o
<1>3. [a EXCEPT !.seq = s, !.out = o] \in Adapters /\ [a EXCEPT !.seq = s, !.out = o].out = o
  BY <1>1 DEF Adapters
<1> QED
  BY <1>2, <1>3 DEF o, SameBut, Adapters

LEMMA EmitIs ==
  ASSUME NEW v \in Views, NEW a \in Adapters, ~a.err,
         NEW type \in EventTypes \ Endings, NEW item \in Somewhat
  PROVE  /\ Goes(a, Emit(a, type, item)) /\ SameBut(a, Emit(a, type, item))
         /\ Shows(v, a, Emit(a, type, item), IF type = "added" THEN {item} ELSE {},
                  IF type = "done" THEN <<item>> ELSE <<>>)
<1> DEFINE e == Event(a, type, item)
           b == Emit(a, type, item)
<1>1. e \in Events /\ e.type = type /\ e.item = item
  BY EventIsTyped
<1> HIDE DEF e
<1>2. b = WithEvent(a, e)
  BY DEF Emit, e, WithEvent
<1>3. a.out \in Seq(Events)
  BY DEF Adapters
<1>4. b \in Adapters
  BY <1>1, <1>2, AppendOut
<1> HIDE DEF b
<1>5. b.out = Append(a.out, e) /\ ~b.err /\ b.failures = a.failures /\ b.declared = a.declared
      /\ SameBut(a, b)
  BY <1>1, <1>2, AppendOut
<1>6. Goes(a, b)
  <2>1. ASSUME NEW i \in DOMAIN b.out
        PROVE  IF i = Len(a.out) + 1 THEN b.out[i] = e ELSE i \in DOMAIN a.out /\ b.out[i] = a.out[i]
    BY <1>1, <1>3, <1>5
  <2>2. Quiet(a.out) => Quiet(b.out)
    BY <1>1, <2>1 DEF Quiet
  <2> QED
    BY <1>4, <1>5, <2>2 DEF Goes, IsOver, SameBut
<1>7. Shows(v, a, b, IF type = "added" THEN {item} ELSE {}, IF type = "done" THEN <<item>> ELSE <<>>)
  <2>1. Seen(v, a) \in Views
    BY <1>3, ViewOfEvents DEF Seen
  <2>2. Seen(v, b) = View(Seen(v, a), e)
    <3>1. FoldLeft(View, v, Append(a.out, e)) = View(FoldLeft(View, v, a.out), e)
      <4> DEFINE s == a.out
      <4>1. s \in Seq(Events) /\ e \in Events
        BY <1>1, <1>3
      <4> HIDE DEF s
      <4>2. FoldLeft(View, v, Append(s, e)) = View(FoldLeft(View, v, s), e)
        BY <4>1, ViewAppend
      <4> QED
        BY <4>2 DEF s
    <3> QED
      BY <1>5, <3>1 DEF Seen
  <2>3. /\ Seen(v, b) \in Views
        /\ Seen(v, b).added = IF type = "added" THEN Seen(v, a).added \cup {item} ELSE Seen(v, a).added
        /\ Seen(v, b).done = IF type = "done" THEN Append(Seen(v, a).done, item) ELSE Seen(v, a).done
    BY <1>1, <2>1, <2>2, ViewOfEvent
  <2>4. Seen(v, a).done \in Seq(Somewhat)
    BY <2>1 DEF Views
  <2>5. Append(Seen(v, a).done, item) = Seen(v, a).done \o <<item>>
        /\ Seen(v, a).done = Seen(v, a).done \o <<>>
    BY <2>4
  <2> QED
    BY <2>3, <2>5 DEF Shows
<1> QED
  BY <1>5, <1>6, <1>7 DEF b

LEMMA FailBreaks ==
  ASSUME NEW a \in Adapters
  PROVE  Breaks(a, Fail(a))
<1>1. CASE IsOver(a)
  <2>1. Fail(a) = [a EXCEPT !.err = TRUE, !.out = <<>>]
    BY <1>1 DEF Fail
  <2>2. Fail(a) \in Adapters /\ Fail(a).err /\ Fail(a).out = <<>>
    <3>1. <<>> \in Seq(Events)
      OBVIOUS
    <3> QED
      BY <2>1, <3>1 DEF Adapters
  <2> QED
    BY <1>1, <2>2 DEF Breaks
<1>2. CASE ~IsOver(a)
  <2> DEFINE e == Event(a, "failed", None)
             s == a.seq + 1
             o == Append(a.failures, e)
  <2>1. e \in Events /\ e.type = "failed"
    BY EventIsTyped DEF EventTypes, Endings, Terminals, Somewhat
  <2>2. Fail(a) = [a EXCEPT !.state = "failed", !.seq = s, !.err = TRUE, !.out = <<>>,
                            !.failures = o]
    BY <1>2 DEF Fail, Adapters
  <2> HIDE DEF e
  <2>3. s \in Nat /\ o \in Seq(Events) /\ <<>> \in Seq(Events)
    BY <2>1 DEF Adapters
  <2>5. a.failures = <<>> => o = <<e>>
    OBVIOUS
  <2> HIDE DEF s, o
  <2>4. /\ Fail(a) \in Adapters
        /\ Fail(a).err /\ Fail(a).state = "failed" /\ Fail(a).out = <<>> /\ Fail(a).failures = o
    BY <2>2, <2>3 DEF Adapters, States
  <2> QED
    BY <2>1, <2>4, <2>5 DEF Breaks
<1> QED
  BY <1>1, <1>2

-----------------------------------------------------------------------------
(* The operators of the adapter, one after the other.                      *)

LEMMA GoesOn ==
  ASSUME NEW a, NEW b, NEW c, Goes(a, b)
  PROVE  /\ Goes(b, c) => Goes(a, c)
         /\ Breaks(b, c) => Breaks(a, c)
BY DEF Goes, Breaks

LEMMA ShowsOn ==
  ASSUME NEW v, NEW a, NEW b, NEW c, NEW o, NEW p, NEW s \in Seq(Somewhat), NEW t \in Seq(Somewhat),
         Seen(v, a) \in Views, Shows(v, a, b, o, s), Shows(v, b, c, p, t)
  PROVE  Shows(v, a, c, o \cup p, s \o t)
<1>1. Seen(v, a).done \in Seq(Somewhat)
  BY DEF Views
<1> DEFINE d == Seen(v, a).done
<1>2. (d \o s) \o t = d \o (s \o t)
  <2>1. d \in Seq(Somewhat)
    BY <1>1
  <2> HIDE DEF d
  <2> QED
    BY <2>1, ConcatAssociative
<1>3. /\ Seen(v, c).added = (Seen(v, a).added \cup o) \cup p
      /\ Seen(v, c).done = (d \o s) \o t /\ Seen(v, c) \in Views
  BY DEF Shows
<1> QED
  BY <1>2, <1>3 DEF Shows

\* Setting fields adds no event.
LEMMA SetsFields ==
  ASSUME NEW v \in Views, NEW a \in Adapters, NEW b \in Adapters, ~a.err,
         b.out = a.out, b.err = a.err, b.failures = a.failures, b.declared = a.declared,
         IsOver(b) => IsOver(a)
  PROVE  Goes(a, b) /\ Seen(v, a) \in Views /\ Shows(v, a, b, {}, <<>>)
<1>1. Seen(v, a) \in Views
  BY ViewOfEvents DEF Seen, Adapters
<1>2. Seen(v, a).done \in Seq(Somewhat)
  BY <1>1 DEF Views
<1>3. Seen(v, a).done = Seen(v, a).done \o <<>>
  BY <1>2
<1> QED
  BY <1>1, <1>3 DEF Goes, Shows, Seen

\* Two events, neither of which opens or closes an item.
LEMMA TwoEvents ==
  ASSUME NEW v \in Views, NEW a \in Adapters, ~a.err, NEW item \in Somewhat,
         NEW k \in {"added", "delta", "closing"}, NEW l \in {"part", "closing"}
  PROVE  LET b == Emit(Emit(a, k, item), l, item)
         IN  /\ Goes(a, b) /\ SameBut(a, b)
             /\ Shows(v, a, b, IF k = "added" THEN {item} ELSE {}, <<>>)
<1> DEFINE b == Emit(a, k, item)
           c == Emit(b, l, item)
<1>1. {k, l} \subseteq EventTypes \ Endings /\ k # "done" /\ l # "done" /\ l # "added"
  BY DEF EventTypes, Endings, Terminals
<1>2. Goes(a, b) /\ SameBut(a, b) /\ Shows(v, a, b, IF k = "added" THEN {item} ELSE {}, <<>>)
  BY <1>1, EmitIs
<1>3. b \in Adapters /\ ~b.err
  BY <1>2 DEF Goes
<1> HIDE DEF b
<1>4. Goes(b, c) /\ SameBut(b, c) /\ Shows(v, b, c, {}, <<>>)
  BY <1>1, <1>3, EmitIs
<1>5. Seen(v, a) \in Views
  BY ViewOfEvents DEF Seen, Adapters
<1> HIDE DEF c
<1>6. Shows(v, a, c, (IF k = "added" THEN {item} ELSE {}) \cup {}, <<>> \o <<>>)
  <2>1. <<>> \in Seq(Somewhat)
    OBVIOUS
  <2> QED
    BY <1>2, <1>4, <1>5, <2>1, ShowsOn
<1>7. <<>> \o <<>> = <<>>
  OBVIOUS
<1>8. Shows(v, a, c, IF k = "added" THEN {item} ELSE {}, <<>>)
  BY <1>6, <1>7
<1>9. Goes(a, c) /\ SameBut(a, c)
  BY <1>2, <1>4, GoesOn DEF SameBut
<1> QED
  BY <1>8, <1>9 DEF b, c

LEMMA OpenTextIs ==
  ASSUME NEW v \in Views, NEW a \in Adapters, ~a.err
  PROVE  /\ Goes(a, OpenText(a)) /\ Shows(v, a, OpenText(a), {Message0}, <<>>)
         /\ SameBut([a EXCEPT !.open = TRUE, !.state = "item"], OpenText(a))
<1> DEFINE b == [a EXCEPT !.open = TRUE, !.state = "item"]
           c == OpenText(a)
<1>1. /\ b \in Adapters /\ b.out = a.out /\ b.err = a.err /\ b.failures = a.failures
      /\ b.declared = a.declared /\ b.state = "item"
  BY DEF Adapters, States
<1>2. ~IsOver(b)
  BY <1>1 DEF IsOver
<1>3. Goes(a, b) /\ Shows(v, a, b, {}, <<>>) /\ Seen(v, a) \in Views
  BY <1>1, <1>2, SetsFields
<1>4. c = Emit(Emit(b, "added", Message0), "part", Message0)
  BY DEF OpenText
<1> HIDE DEF b, c
<1>5. Goes(b, c) /\ SameBut(b, c) /\ Shows(v, b, c, {Message0}, <<>>)
  BY <1>1, <1>4, TwoEvents, Message0IsItem
<1>6. <<>> \in Seq(Somewhat) /\ <<>> \o <<>> = <<>>
  OBVIOUS
<1>7. Shows(v, a, c, {} \cup {Message0}, <<>> \o <<>>)
  BY <1>3, <1>5, <1>6, ShowsOn
<1>8. Shows(v, a, c, {Message0}, <<>>)
  BY <1>6, <1>7
<1> QED
  BY <1>3, <1>5, <1>8, GoesOn DEF b, c

LEMMA TextDeltaIs ==
  ASSUME NEW v \in Views, NEW a \in Adapters, ~a.err
  PROVE  LET b == TextDelta(a)
         IN  \/ Breaks(a, b)
             \/ /\ Goes(a, b) /\ Shows(v, a, b, IF a.open THEN {} ELSE {Message0}, <<>>)
                /\ SameBut([a EXCEPT !.open = TRUE, !.text = @ + 1,
                                     !.state = IF a.open THEN @ ELSE "item"], b)
<1> DEFINE o == IF a.open THEN a ELSE OpenText(a)
           p == [o EXCEPT !.text = @ + 1]
           b == Emit(p, "delta", Message0)
<1>1. CASE a.text >= MaxText
  BY <1>1, FailBreaks DEF TextDelta
<1>2. CASE ~(a.text >= MaxText)
  <2>1. TextDelta(a) = b
    BY <1>2 DEF TextDelta
  <2>2. a.text \in 0..MaxText /\ a.text + 1 \in 0..MaxText
    BY <1>2, TextAssumption DEF Adapters
  <2>3. /\ o \in Adapters /\ ~o.err /\ Goes(a, o)
        /\ Shows(v, a, o, IF a.open THEN {} ELSE {Message0}, <<>>) /\ Seen(v, a) \in Views
    <3>1. Seen(v, a) \in Views /\ Goes(a, a) /\ Shows(v, a, a, {}, <<>>)
      BY SetsFields
    <3>2. CASE a.open
      BY <3>1, <3>2
    <3>3. CASE ~a.open
      BY <3>1, <3>3, OpenTextIs DEF Goes
    <3> QED
      BY <3>2, <3>3
  <2>4. SameBut([a EXCEPT !.open = TRUE, !.state = IF a.open THEN @ ELSE "item"], o)
    <3>1. CASE a.open
      BY <3>1 DEF SameBut, Adapters
    <3>2. CASE ~a.open
      BY <3>2, OpenTextIs DEF SameBut, Adapters
    <3> QED
      BY <3>1, <3>2
  <2> HIDE DEF o
  <2>5. o.text = a.text
    BY <2>4 DEF SameBut, Adapters
  <2>6. /\ p \in Adapters /\ p.out = o.out /\ p.err = o.err /\ p.failures = o.failures
        /\ p.declared = o.declared /\ p.state = o.state
    BY <2>2, <2>3, <2>5 DEF Adapters
  <2>7. Goes(o, p) /\ Shows(v, o, p, {}, <<>>)
    BY <2>3, <2>6, SetsFields DEF IsOver
  <2>8. SameBut([a EXCEPT !.open = TRUE, !.text = @ + 1, !.state = IF a.open THEN @ ELSE "item"], p)
    BY <2>3, <2>4 DEF SameBut, Adapters
  <2> HIDE DEF p
  <2>9. Goes(p, b) /\ SameBut(p, b) /\ Shows(v, p, b, {}, <<>>)
    BY <2>3, <2>6, EmitIs, Message0IsItem DEF EventTypes, Endings, Terminals
  <2> HIDE DEF b
  <2>10. Goes(a, b)
    BY <2>3, <2>7, <2>9, GoesOn
  <2>11. Shows(v, a, b, IF a.open THEN {} ELSE {Message0}, <<>>)
    <3>1. <<>> \in Seq(Somewhat) /\ <<>> \o <<>> = <<>>
      OBVIOUS
    <3>2. Shows(v, a, p, (IF a.open THEN {} ELSE {Message0}) \cup {}, <<>> \o <<>>)
      BY <2>3, <2>7, <3>1, ShowsOn
    <3>3. Shows(v, a, b, ((IF a.open THEN {} ELSE {Message0}) \cup {}) \cup {}, <<>> \o <<>>)
      BY <2>3, <2>9, <3>1, <3>2, ShowsOn
    <3> QED
      BY <3>1, <3>3
  <2> QED
    BY <2>1, <2>8, <2>9, <2>10, <2>11 DEF SameBut
<1> QED
  BY <1>1, <1>2

LEMMA DoneIs ==
  ASSUME NEW v \in Views, NEW a \in Adapters, ~a.err, NEW item \in Somewhat
  PROVE  /\ Goes(a, Emit(a, "done", item)) /\ SameBut(a, Emit(a, "done", item))
         /\ Shows(v, a, Emit(a, "done", item), {}, <<item>>)
BY EmitIs DEF EventTypes, Endings, Terminals

LEMMA FinishTextIs ==
  ASSUME NEW v \in Views, NEW a \in Adapters, ~a.err
  PROVE  LET b == FinishText(a)
         IN  /\ Goes(a, b) /\ Shows(v, a, b, IF a.open THEN {} ELSE {Message0}, <<Message0>>)
             /\ SameBut([a EXCEPT !.open = FALSE, !.output = Append(@, Message0),
                                  !.state = IF a.open THEN @ ELSE "item"], b)
<1> DEFINE o == IF a.open THEN a ELSE OpenText(a)
           c == Emit(Emit(o, "closing", Message0), "closing", Message0)
           p == [c EXCEPT !.output = Append(@, Message0), !.open = FALSE]
           b == Emit(p, "done", Message0)
<1>1. FinishText(a) = b
  BY DEF FinishText
<1>2. /\ o \in Adapters /\ ~o.err /\ Goes(a, o)
      /\ Shows(v, a, o, IF a.open THEN {} ELSE {Message0}, <<>>) /\ Seen(v, a) \in Views
  <2>1. Seen(v, a) \in Views /\ Goes(a, a) /\ Shows(v, a, a, {}, <<>>)
    BY SetsFields
  <2>2. CASE a.open
    BY <2>1, <2>2
  <2>3. CASE ~a.open
    BY <2>1, <2>3, OpenTextIs DEF Goes
  <2> QED
    BY <2>2, <2>3
<1>3. SameBut([a EXCEPT !.open = TRUE, !.state = IF a.open THEN @ ELSE "item"], o)
  <2>1. CASE a.open
    BY <2>1 DEF SameBut, Adapters
  <2>2. CASE ~a.open
    BY <2>2, OpenTextIs DEF SameBut, Adapters
  <2> QED
    BY <2>1, <2>2
<1> HIDE DEF o
<1>4. Goes(o, c) /\ SameBut(o, c) /\ Shows(v, o, c, {}, <<>>) /\ c \in Adapters /\ ~c.err
  BY <1>2, TwoEvents, Message0IsItem DEF Goes
<1> HIDE DEF c
<1>5. /\ p \in Adapters /\ p.out = c.out /\ p.err = c.err /\ p.failures = c.failures
      /\ p.declared = c.declared /\ p.state = c.state
  <2>1. Append(c.output, Message0) \in Seq(Somewhat)
    BY <1>4, Message0IsItem DEF Adapters
  <2> QED
    BY <1>4, <2>1 DEF Adapters
<1>6. Goes(c, p) /\ Shows(v, c, p, {}, <<>>)
  BY <1>4, <1>5, SetsFields DEF IsOver
<1>7. SameBut([a EXCEPT !.open = FALSE, !.output = Append(@, Message0),
                        !.state = IF a.open THEN @ ELSE "item"], p)
  BY <1>2, <1>3, <1>4 DEF SameBut, Adapters
<1> HIDE DEF p
<1>8. Goes(p, b) /\ SameBut(p, b) /\ Shows(v, p, b, {}, <<Message0>>)
  BY <1>4, <1>5, DoneIs, Message0IsItem
<1> HIDE DEF b
<1>9. Goes(a, b)
  BY <1>2, <1>4, <1>6, <1>8, GoesOn
<1>10. Shows(v, a, b, IF a.open THEN {} ELSE {Message0}, <<Message0>>)
  <2> DEFINE new == IF a.open THEN {} ELSE {Message0}
  <2>1. /\ <<>> \in Seq(Somewhat) /\ <<>> \o <<>> = <<>> /\ <<Message0>> \in Seq(Somewhat)
        /\ <<>> \o <<Message0>> = <<Message0>>
    BY Message0IsItem
  <2> HIDE DEF new
  <2>2. Shows(v, a, o, new, <<>>)
    BY <1>2 DEF new
  <2>3. Shows(v, a, c, new \cup {}, <<>> \o <<>>)
    BY <1>2, <1>4, <2>1, <2>2, ShowsOn
  <2>4. Shows(v, a, p, (new \cup {}) \cup {}, (<<>> \o <<>>) \o <<>>)
    BY <1>2, <1>6, <2>1, <2>3, ShowsOn
  <2>5. Shows(v, a, b, ((new \cup {}) \cup {}) \cup {}, <<>> \o <<Message0>>)
    BY <1>2, <1>8, <2>1, <2>4, ShowsOn
  <2>6. ((new \cup {}) \cup {}) \cup {} = new
    OBVIOUS
  <2>7. Shows(v, a, b, new, <<Message0>>)
    BY <2>1, <2>5, <2>6
  <2> QED
    BY <2>7 DEF new
<1> QED
  BY <1>1, <1>7, <1>8, <1>9, <1>10 DEF SameBut

\* A step that shows nothing may come before or after one that does.
LEMMA ShowsAlso ==
  ASSUME NEW v, NEW a, NEW b, NEW c, NEW o, NEW s \in Seq(Somewhat), Seen(v, a) \in Views
  PROVE  /\ Shows(v, a, b, {}, <<>>) /\ Shows(v, b, c, o, s) => Shows(v, a, c, o, s)
         /\ Shows(v, a, b, o, s) /\ Shows(v, b, c, {}, <<>>) => Shows(v, a, c, o, s)
<1>1. <<>> \in Seq(Somewhat) /\ <<>> \o s = s /\ s \o <<>> = s /\ {} \cup o = o /\ o \cup {} = o
  OBVIOUS
<1>2. ASSUME Shows(v, a, b, {}, <<>>), Shows(v, b, c, o, s)
      PROVE  Shows(v, a, c, o, s)
  <2>1. Shows(v, a, c, {} \cup o, <<>> \o s)
    BY <1>1, <1>2, ShowsOn
  <2> QED
    BY <1>1, <2>1
<1>3. ASSUME Shows(v, a, b, o, s), Shows(v, b, c, {}, <<>>)
      PROVE  Shows(v, a, c, o, s)
  <2>1. Shows(v, a, c, o \cup {}, s \o <<>>)
    BY <1>1, <1>3, ShowsOn
  <2> QED
    BY <1>1, <2>1
<1> QED
  BY <1>2, <1>3

LEMMA ReasoningDeltaIs ==
  ASSUME NEW v \in Views, NEW a \in Adapters, ~a.err
  PROVE  LET b == ReasoningDelta(a)
         IN  \/ ~a.captures /\ b = a
             \/ \E r \in StreamItems \cup {a.reasoning} :
                  /\ IF a.reasoning = None THEN r # None /\ r.kind = "reasoning" /\ r.id = None
                     ELSE r = a.reasoning
                  /\ Goes(a, b) /\ Shows(v, a, b, IF a.reasoning = None THEN {r} ELSE {}, <<>>)
                  /\ SameBut([a EXCEPT !.reasoning = r, !.thought = @ + 1,
                                       !.thinking = IF a.reasoning = None THEN TRUE ELSE @], b)
<1> DEFINE item == [kind |-> "reasoning", id |-> None, index |-> Len(a.output), tool |-> None]
           s == [a EXCEPT !.reasoning = item, !.thinking = TRUE]
           o == IF a.reasoning # None THEN a ELSE Emit(Emit(s, "added", item), "part", item)
           p == [o EXCEPT !.thought = @ + 1]
           b == Emit(p, "delta", o.reasoning)
           new == IF a.reasoning = None THEN {item} ELSE {}
<1>1. CASE ~a.captures
  BY <1>1 DEF ReasoningDelta
<1>2. CASE a.captures
  <2>1. ReasoningDelta(a) = b
    BY <1>2 DEF ReasoningDelta
  <2>2. item \in StreamItems /\ item # None /\ item.kind = "reasoning" /\ item.id = None
    <3>1. Len(a.output) \in Nat
      BY DEF Adapters
    <3> QED
      BY <3>1, AnswerAssumption DEF StreamItems
  <2> HIDE DEF item
  <2>3. /\ o \in Adapters /\ ~o.err /\ Goes(a, o) /\ Shows(v, a, o, new, <<>>) /\ Seen(v, a) \in Views
        /\ SameBut([a EXCEPT !.reasoning = IF a.reasoning = None THEN item ELSE a.reasoning,
                             !.thinking = IF a.reasoning = None THEN TRUE ELSE @], o)
    <3>1. Seen(v, a) \in Views /\ Goes(a, a) /\ Shows(v, a, a, {}, <<>>)
      BY SetsFields
    <3>2. CASE a.reasoning # None
      BY <3>1, <3>2 DEF SameBut, Adapters
    <3>3. CASE a.reasoning = None
      <4>1. /\ s \in Adapters /\ s.out = a.out /\ s.err = a.err /\ s.failures = a.failures
            /\ s.declared = a.declared /\ s.state = a.state
        BY <2>2 DEF Adapters, Somewhat
      <4>2. Goes(a, s) /\ Shows(v, a, s, {}, <<>>)
        BY <4>1, SetsFields DEF IsOver
      <4>3. SameBut([a EXCEPT !.reasoning = IF a.reasoning = None THEN item ELSE a.reasoning,
                              !.thinking = IF a.reasoning = None THEN TRUE ELSE @], s)
        BY <3>3 DEF SameBut, Adapters
      <4> HIDE DEF s
      <4>4. Goes(s, o) /\ SameBut(s, o) /\ Shows(v, s, o, {item}, <<>>)
        BY <2>2, <3>3, <4>1, TwoEvents DEF Somewhat
      <4> HIDE DEF o
      <4>5. Shows(v, a, o, {item}, <<>>)
        <5>1. <<>> \in Seq(Somewhat)
          OBVIOUS
        <5> QED
          BY <3>1, <4>2, <4>4, <5>1, ShowsAlso
      <4> QED
        BY <3>1, <3>3, <4>2, <4>3, <4>4, <4>5, GoesOn DEF SameBut, Goes
    <3> QED
      BY <3>2, <3>3
  <2> HIDE DEF o
  <2>4. /\ p \in Adapters /\ p.out = o.out /\ p.err = o.err /\ p.failures = o.failures
        /\ p.declared = o.declared /\ p.state = o.state
    <3> DEFINE n == o.thought + 1
    <3>1. n \in Nat /\ p = [o EXCEPT !.thought = n]
      BY <2>3 DEF Adapters
    <3> HIDE DEF n, p
    <3> QED
      BY <2>3, <3>1 DEF Adapters
  <2>5. Goes(o, p) /\ Shows(v, o, p, {}, <<>>)
    BY <2>3, <2>4, SetsFields DEF IsOver
  <2>6. SameBut([a EXCEPT !.reasoning = IF a.reasoning = None THEN item ELSE a.reasoning,
                          !.thought = @ + 1,
                          !.thinking = IF a.reasoning = None THEN TRUE ELSE @], p)
    BY <2>3 DEF SameBut, Adapters
  <2> HIDE DEF p
  <2>7. Goes(p, b) /\ SameBut(p, b) /\ Shows(v, p, b, {}, <<>>)
    <3>1. o.reasoning \in Somewhat
      BY <2>3 DEF Adapters
    <3> QED
      BY <2>3, <2>4, <3>1, EmitIs DEF EventTypes, Endings, Terminals
  <2> HIDE DEF b
  <2>8. Goes(a, b)
    BY <2>3, <2>5, <2>7, GoesOn
  <2>9. Shows(v, a, b, new, <<>>)
    <3> HIDE DEF new
    <3>1. <<>> \in Seq(Somewhat)
      OBVIOUS
    <3>2. Shows(v, a, p, new, <<>>)
      BY <2>3, <2>5, <3>1, ShowsAlso
    <3> QED
      BY <2>3, <2>7, <3>1, <3>2, ShowsAlso
  <2> DEFINE r == IF a.reasoning = None THEN item ELSE a.reasoning
  <2>10. r \in StreamItems \cup {a.reasoning}
    BY <2>2
  <2>11. SameBut([a EXCEPT !.reasoning = r, !.thought = @ + 1,
                           !.thinking = IF a.reasoning = None THEN TRUE ELSE @], b)
    BY <2>6, <2>7 DEF SameBut
  <2>12. Shows(v, a, b, IF a.reasoning = None THEN {r} ELSE {}, <<>>)
    BY <2>9
  <2>13. IF a.reasoning = None THEN r # None /\ r.kind = "reasoning" /\ r.id = None
         ELSE r = a.reasoning
    BY <2>2
  <2> HIDE DEF r
  <2> QED
    BY <2>1, <2>8, <2>10, <2>11, <2>12, <2>13
<1> QED
  BY <1>1, <1>2

LEMMA FinishReasoningIs ==
  ASSUME NEW v \in Views, NEW a \in Adapters, ~a.err
  PROVE  LET b == FinishReasoning(a)
         IN  IF ~a.thinking THEN b = a
             ELSE /\ Goes(a, b) /\ Shows(v, a, b, {}, <<a.reasoning>>)
                  /\ SameBut([a EXCEPT !.thinking = FALSE, !.output = Append(@, a.reasoning)], b)
<1> DEFINE s == [a EXCEPT !.thinking = FALSE]
           o == Emit(s, "closing", a.reasoning)
           p == [o EXCEPT !.output = Append(@, o.reasoning)]
           b == Emit(p, "done", o.reasoning)
<1>1. CASE ~a.thinking
  BY <1>1 DEF FinishReasoning
<1>2. CASE a.thinking
  <2>1. FinishReasoning(a) = b
    BY <1>2 DEF FinishReasoning
  <2>2. a.reasoning \in Somewhat
    BY DEF Adapters
  <2>3. /\ s \in Adapters /\ s.out = a.out /\ s.err = a.err /\ s.failures = a.failures
        /\ s.declared = a.declared /\ s.state = a.state /\ s.reasoning = a.reasoning
        /\ s.output = a.output
    BY DEF Adapters
  <2>4. Goes(a, s) /\ Shows(v, a, s, {}, <<>>) /\ Seen(v, a) \in Views
    BY <2>3, SetsFields DEF IsOver
  <2>5. SameBut([a EXCEPT !.thinking = FALSE], s)
    BY DEF SameBut, Adapters
  <2> HIDE DEF s
  <2>6. Goes(s, o) /\ SameBut(s, o) /\ Shows(v, s, o, {}, <<>>)
    BY <2>2, <2>3, EmitIs DEF EventTypes, Endings, Terminals
  <2>7. o \in Adapters /\ ~o.err /\ o.reasoning = a.reasoning /\ o.output = a.output
    BY <2>3, <2>6 DEF Goes, SameBut
  <2> HIDE DEF o
  <2>8. /\ p \in Adapters /\ p.out = o.out /\ p.err = o.err /\ p.failures = o.failures
        /\ p.declared = o.declared /\ p.state = o.state
    <3>1. Append(o.output, o.reasoning) \in Seq(Somewhat)
      BY <2>2, <2>7 DEF Adapters
    <3> QED
      BY <2>7, <3>1 DEF Adapters
  <2>9. Goes(o, p) /\ Shows(v, o, p, {}, <<>>)
    BY <2>7, <2>8, SetsFields DEF IsOver
  <2>10. SameBut([a EXCEPT !.thinking = FALSE, !.output = Append(@, a.reasoning)], p)
    BY <2>5, <2>6, <2>7 DEF SameBut, Adapters
  <2> HIDE DEF p
  <2>11. Goes(p, b) /\ SameBut(p, b) /\ Shows(v, p, b, {}, <<a.reasoning>>)
    BY <2>2, <2>7, <2>8, DoneIs
  <2> HIDE DEF b
  <2>12. Goes(a, b)
    BY <2>4, <2>6, <2>9, <2>11, GoesOn
  <2>13. Shows(v, a, b, {}, <<a.reasoning>>)
    <3>1. <<>> \in Seq(Somewhat) /\ <<a.reasoning>> \in Seq(Somewhat)
      BY <2>2
    <3>2. Shows(v, a, o, {}, <<>>)
      BY <2>4, <2>6, <3>1, ShowsAlso
    <3>3. Shows(v, a, p, {}, <<>>)
      BY <2>4, <2>9, <3>1, <3>2, ShowsAlso
    <3> QED
      BY <2>4, <2>11, <3>1, <3>3, ShowsAlso
  <2> QED
    BY <1>2, <2>1, <2>10, <2>11, <2>12, <2>13 DEF SameBut
<1> QED
  BY <1>1, <1>2

-----------------------------------------------------------------------------
(* Tool calls.                                                             *)

Old(a, d) == IF d.index \in DOMAIN a.calls THEN a.calls[d.index] ELSE NoCall

LEMMA OldIs ==
  ASSUME NEW a \in Adapters, NEW d \in ToolFrames
  PROVE  /\ Old(a, d) \in CallRecords
         /\ d.id \in CallIds \cup {None} /\ d.name \in ToolNames /\ d.index \in Indices
         /\ d.halves \in Nat /\ d.k = "tool"
<1>1. a.calls \in CallTables
  BY DEF Adapters
<1>2. d.index \in DOMAIN a.calls => a.calls[d.index] \in CallRecords
  BY <1>1 DEF CallTables
<1>3. NoCall \in CallRecords
  BY DEF NoCall, CallRecords, Somewhat
<1> QED
  BY <1>2, <1>3, AnswerAssumption DEF Old, ToolNames, Indices

LEMMA ToolsAreStreamed ==
  ASSUME NEW declared \in Declarations, NEW name \in ToolNames
  PROVE  Identity(declared, name) \in StreamTools
<1>1. ToSet(declared) \subseteq Identities
  <2>1. ToSet(<<>>) = {}
    BY DEF ToSet
  <2> QED
    BY <2>1, RequestAssumption DEF Declarations
<1>2. CASE \E t \in ToSet(declared) : ChatName[t] = name
  BY <1>1, <1>2 DEF Identity, StreamTools
<1>3. CASE ~\E t \in ToSet(declared) : ChatName[t] = name
  BY <1>3 DEF Identity, StreamTools, ToolNames
<1> QED
  BY <1>2, <1>3

LEMMA IndexIsNatural ==
  ASSUME NEW a \in Adapters
  PROVE  NextIndex(a) \in Nat
<1> DEFINE D == {i \in DOMAIN a.calls : a.calls[i].item # None}
<1>1. IsFiniteSet(DOMAIN a.calls)
  BY DEF Adapters, CallTables
<1>2. Cardinality(D) \in Nat
  BY <1>1, FS_Subset, FS_CardinalityType
<1>3. Len(a.output) \in Nat
  BY DEF Adapters
<1> HIDE DEF D
<1>4. NextIndex(a) = Len(a.output) + Cardinality(D) + (IF a.thinking THEN 1 ELSE 0)
  BY DEF NextIndex, D
<1> QED
  BY <1>2, <1>3, <1>4

LEMMA CallsGrow ==
  ASSUME NEW calls \in CallTables, NEW i \in Indices, NEW c \in CallRecords
  PROVE  [j \in DOMAIN calls \cup {i} |-> IF j = i THEN c ELSE calls[j]] \in CallTables
<1>1. IsFiniteSet(DOMAIN calls) /\ DOMAIN calls \subseteq Indices
  BY DEF CallTables
<1>2. IsFiniteSet(DOMAIN calls \cup {i}) /\ DOMAIN calls \cup {i} \subseteq Indices
  BY <1>1, FS_AddElement
<1>3. \A j \in DOMAIN calls : calls[j] \in CallRecords
  BY DEF CallTables
<1>4. [j \in DOMAIN calls \cup {i} |-> IF j = i THEN c ELSE calls[j]]
        \in [DOMAIN calls \cup {i} -> CallRecords]
  BY <1>3
<1> QED
  BY <1>2, <1>4 DEF CallTables

\* What a delta makes of a call.
CallAfter(a, d, c) ==
  /\ c \in CallRecords
  /\ c.halves = Old(a, d).halves + d.halves
  /\ c.id = IF Old(a, d).id = None THEN d.id ELSE Old(a, d).id
  /\ c.name = IF Old(a, d).name = None THEN d.name ELSE Old(a, d).name
  /\ d.id # None /\ Old(a, d).id = None => d.id \notin a.ids
  /\ IF Old(a, d).item = None /\ c.id # None /\ c.name # None
     THEN c.item # None /\ c.item.id = c.id ELSE c.item = Old(a, d).item

LEMMA ToolDeltaIs ==
  ASSUME NEW v \in Views, NEW a \in Adapters, ~a.err, NEW d \in ToolFrames
  PROVE  LET b == ToolDelta(a, d)
         IN  \/ Breaks(a, b)
             \/ \E c : /\ CallAfter(a, d, c)
                       /\ Goes(a, b)
                       /\ Shows(v, a, b, IF c.item # Old(a, d).item THEN {c.item} ELSE {}, <<>>)
                       /\ SameBut([a EXCEPT !.ids = IF d.id = None THEN @ ELSE @ \cup {d.id},
                                            !.calls = [i \in DOMAIN @ \cup {d.index} |->
                                                        IF i = d.index THEN c ELSE @[i]]], b)
<1> DEFINE old == Old(a, d)
           wrong == \/ d.id # None /\ old.id = None /\ d.id \in a.ids
                    \/ d.id # None /\ old.id \notin {None, d.id}
                    \/ d.name # None /\ old.name \notin {None, d.name}
           id == IF old.id = None THEN d.id ELSE old.id
           name == IF old.name = None THEN d.name ELSE old.name
           fresh == old.item = None /\ id # None /\ name # None
           tool == Identity(a.declared, name)
           item == IF fresh
                   THEN [kind |-> tool.kind, id |-> id, index |-> NextIndex(a), tool |-> tool]
                   ELSE old.item
           call == [id |-> id, name |-> name, halves |-> old.halves + d.halves, item |-> item]
           ids == IF d.id = None THEN a.ids ELSE a.ids \cup {d.id}
           calls == [i \in DOMAIN a.calls \cup {d.index} |->
                       IF i = d.index THEN call ELSE a.calls[i]]
           s == [a EXCEPT !.ids = ids, !.calls = calls]
           t == IF fresh THEN Emit(s, "added", item) ELSE s
           grown == IF fresh THEN call.halves > 0 ELSE item # None /\ d.halves > 0
           b == IF grown /\ item.kind # "custom" THEN Emit(t, "delta", item) ELSE t
<1>1. ToolDelta(a, d) = IF wrong THEN Fail(a) ELSE b
  BY DEF ToolDelta, Old, Adapters
<1>2. CASE wrong
  BY <1>1, <1>2, FailBreaks
<1>3. CASE ~wrong
  <2>1. /\ old \in CallRecords /\ d.id \in CallIds \cup {None} /\ d.name \in ToolNames
        /\ d.index \in Indices /\ d.halves \in Nat
    BY OldIs
  <2>2. /\ d.id # None /\ old.id = None => d.id \notin a.ids
    BY <1>3
  <2> HIDE DEF old
  <2>3. id \in CallIds \cup {None} /\ name \in ToolNames \cup {None}
        /\ old.item \in Somewhat /\ old.halves \in Nat
    BY <2>1 DEF CallRecords
  <2>4. ASSUME fresh
        PROVE  item \in StreamItems /\ item # None /\ item.id = id
    <3>1. name \in ToolNames /\ id \in CallIds
      BY <2>3, <2>4
    <3>2. a.declared \in Declarations
      BY DEF Adapters
    <3> HIDE DEF name, id
    <3>3. tool \in StreamTools
      BY <3>1, <3>2, ToolsAreStreamed
    <3>4. NextIndex(a) \in Nat
      BY IndexIsNatural
    <3> HIDE DEF tool
    <3>5. item = [kind |-> tool.kind, id |-> id, index |-> NextIndex(a), tool |-> tool]
      BY <2>4
    <3> HIDE DEF item
    <3>6. item \in StreamItems
      BY <3>1, <3>3, <3>4, <3>5 DEF StreamItems
    <3> QED
      BY <3>5, <3>6, AnswerAssumption
  <2>5. item \in Somewhat /\ (~fresh => item = old.item)
    BY <2>3, <2>4 DEF Somewhat
  <2>6. call \in CallRecords /\ CallAfter(a, d, call)
    <3>1. call \in CallRecords
      <4> HIDE DEF item, id, name
      <4> QED
        BY <2>1, <2>3, <2>5 DEF CallRecords
    <3>2. /\ call.halves = old.halves + d.halves /\ call.id = id /\ call.name = name
          /\ call.item = item
      OBVIOUS
    <3>3. IF fresh THEN item # None /\ item.id = id ELSE item = old.item
      BY <2>4, <2>5
    <3> QED
      BY <2>2, <3>1, <3>2, <3>3 DEF CallAfter, old
  <2>7. /\ s \in Adapters /\ s.out = a.out /\ s.err = a.err /\ s.failures = a.failures
        /\ s.declared = a.declared /\ s.state = a.state
    <3>1. ids \in SUBSET (CallIds \cup {None})
      BY <2>1 DEF Adapters
    <3>2. calls \in CallTables
      <4>1. a.calls \in CallTables
        BY DEF Adapters
      <4> HIDE DEF call
      <4> QED
        BY <2>1, <2>6, <4>1, CallsGrow
    <3> HIDE DEF ids, calls
    <3> QED
      BY <3>1, <3>2 DEF Adapters
  <2>8. Goes(a, s) /\ Shows(v, a, s, {}, <<>>) /\ Seen(v, a) \in Views
    BY <2>7, SetsFields DEF IsOver
  <2>9. s = [a EXCEPT !.ids = IF d.id = None THEN @ ELSE @ \cup {d.id},
                      !.calls = [i \in DOMAIN @ \cup {d.index} |->
                                   IF i = d.index THEN call ELSE @[i]]]
    BY DEF Adapters
  <2> HIDE DEF s, item, call
  <2> DEFINE new == IF fresh THEN {item} ELSE {}
  <2>10. /\ t \in Adapters /\ ~t.err /\ Goes(s, t) /\ SameBut(s, t) /\ Shows(v, s, t, new, <<>>)
    <3>1. CASE fresh
      BY <2>5, <2>7, <3>1, EmitIs DEF EventTypes, Endings, Terminals, Goes
    <3>2. CASE ~fresh
      <4>1. Goes(s, s) /\ Shows(v, s, s, {}, <<>>) /\ SameBut(s, s)
        BY <2>7, SetsFields DEF SameBut
      <4> QED
        BY <2>7, <3>2, <4>1
    <3> QED
      BY <3>1, <3>2
  <2> HIDE DEF t, new
  <2>11. Goes(t, b) /\ SameBut(t, b) /\ Shows(v, t, b, {}, <<>>)
    <3>1. CASE grown /\ item.kind # "custom"
      BY <2>5, <2>10, <3>1, EmitIs DEF EventTypes, Endings, Terminals
    <3>2. CASE ~(grown /\ item.kind # "custom")
      BY <2>10, <3>2, SetsFields DEF SameBut
    <3> QED
      BY <3>1, <3>2
  <2> HIDE DEF b
  <2>12. Goes(a, b) /\ SameBut(s, b)
    BY <2>8, <2>10, <2>11, GoesOn DEF SameBut
  <2>13. Shows(v, a, b, new, <<>>)
    <3>1. <<>> \in Seq(Somewhat)
      OBVIOUS
    <3>2. Shows(v, a, t, new, <<>>)
      BY <2>8, <2>10, <3>1, ShowsAlso
    <3> QED
      BY <2>8, <2>11, <3>1, <3>2, ShowsAlso
  <2>14. new = IF call.item # old.item THEN {call.item} ELSE {}
    <3>1. call.item = item
      BY DEF call
    <3>2. fresh <=> item # old.item
      BY <2>4, <2>5
    <3> QED
      BY <3>1, <3>2 DEF new
  <2> QED
    BY <1>1, <1>3, <2>6, <2>9, <2>12, <2>13, <2>14 DEF old
<1> QED
  BY <1>2, <1>3

-----------------------------------------------------------------------------
(* The calls are finished, the last one last.                              *)

LEMMA FinishCallIs ==
  ASSUME NEW v \in Views, NEW a \in Adapters, ~a.err, NEW c \in CallRecords
  PROVE  LET b == FinishCall(a, c)
         IN  IF c.item = None \/ c.halves # 2 THEN Breaks(a, b)
             ELSE /\ Goes(a, b) /\ Shows(v, a, b, {}, <<c.item>>)
                  /\ SameBut([a EXCEPT !.output = Append(@, c.item)], b)
<1> DEFINE s == CASE c.item.kind = "custom" -> Emit(Emit(a, "delta", c.item), "closing", c.item)
                  [] c.item.kind = "function" -> Emit(a, "closing", c.item)
                  [] OTHER -> a
           p == [s EXCEPT !.output = Append(@, c.item)]
           b == Emit(p, "done", c.item)
<1>1. CASE c.item = None \/ c.halves # 2
  BY <1>1, FailBreaks DEF FinishCall
<1>2. CASE ~(c.item = None \/ c.halves # 2)
  <2>1. FinishCall(a, c) = b
    BY <1>2 DEF FinishCall
  <2>2. c.item \in Somewhat
    BY DEF CallRecords
  <2>3. Seen(v, a) \in Views /\ Goes(a, a) /\ Shows(v, a, a, {}, <<>>) /\ SameBut(a, a)
    BY SetsFields DEF SameBut
  <2>4. Goes(a, s) /\ SameBut(a, s) /\ Shows(v, a, s, {}, <<>>)
    <3>1. CASE c.item.kind = "custom"
      <4>1. s = Emit(Emit(a, "delta", c.item), "closing", c.item)
        BY <3>1
      <4> HIDE DEF s
      <4> QED
        BY <2>2, <4>1, TwoEvents
    <3>2. CASE c.item.kind # "custom" /\ c.item.kind = "function"
      <4>1. s = Emit(a, "closing", c.item)
        BY <3>2
      <4> HIDE DEF s
      <4> QED
        BY <2>2, <4>1, EmitIs DEF EventTypes, Endings, Terminals
    <3>3. CASE c.item.kind # "custom" /\ c.item.kind # "function"
      BY <2>3, <3>3
    <3> QED
      BY <3>1, <3>2, <3>3
  <2>5. s \in Adapters /\ ~s.err
    BY <2>4 DEF Goes
  <2> HIDE DEF s
  <2>6. /\ p \in Adapters /\ p.out = s.out /\ p.err = s.err /\ p.failures = s.failures
        /\ p.declared = s.declared /\ p.state = s.state
    <3>1. Append(s.output, c.item) \in Seq(Somewhat)
      BY <2>2, <2>5 DEF Adapters
    <3> QED
      BY <2>5, <3>1 DEF Adapters
  <2>7. Goes(s, p) /\ Shows(v, s, p, {}, <<>>)
    BY <2>5, <2>6, SetsFields DEF IsOver
  <2>8. SameBut([a EXCEPT !.output = Append(@, c.item)], p)
    BY <2>4, <2>5 DEF SameBut, Adapters
  <2> HIDE DEF p
  <2>9. Goes(p, b) /\ SameBut(p, b) /\ Shows(v, p, b, {}, <<c.item>>)
    BY <2>2, <2>5, <2>6, DoneIs
  <2> HIDE DEF b
  <2>10. Goes(a, b)
    BY <2>4, <2>7, <2>9, GoesOn
  <2>11. Shows(v, a, b, {}, <<c.item>>)
    <3>1. <<>> \in Seq(Somewhat) /\ <<c.item>> \in Seq(Somewhat)
      BY <2>2
    <3>2. Shows(v, a, p, {}, <<>>)
      BY <2>3, <2>4, <2>7, <3>1, ShowsAlso
    <3> QED
      BY <2>3, <2>9, <3>1, <3>2, ShowsAlso
  <2> QED
    BY <1>2, <2>1, <2>8, <2>9, <2>10, <2>11 DEF SameBut
<1> QED
  BY <1>1, <1>2

LEMMA LastIsThere ==
  ASSUME NEW R, IsFiniteSet(R), R \subseteq CallRecords
  PROVE  \A A \in SUBSET R : A # {} => LastOf(A) \in A
<1> DEFINE T == {A \in SUBSET R : A # {} => \E c \in A : \A d \in A : NoLater(d, c)}
<1>1. \A c, d, e \in R :
        /\ NoLater(c, c)
        /\ NoLater(c, d) \/ NoLater(d, c)
        /\ NoLater(c, d) /\ NoLater(d, e) => NoLater(c, e)
  <2>1. \A c \in R : c.item # None => c.item.index \in Nat
    BY DEF CallRecords, Somewhat, StreamItems
  <2> QED
    BY <2>1 DEF NoLater
<1>2. ASSUME NEW A \in SUBSET R, A # {}, \A x \in A : A \ {x} \in T
      PROVE  A \in T
  <2>1. PICK x \in A : TRUE
    BY <1>2
  <2>2. CASE A \ {x} = {}
    <3>1. A = {x}
      BY <2>1, <2>2
    <3> QED
      BY <1>1, <3>1
  <2>3. CASE A \ {x} # {}
    <3>1. PICK c \in A \ {x} : \A d \in A \ {x} : NoLater(d, c)
      BY <1>2, <2>3
    <3>2. CASE NoLater(x, c)
      BY <3>1, <3>2
    <3>3. CASE NoLater(c, x)
      <4>1. \A d \in A : NoLater(d, x)
        BY <1>1, <3>1, <3>3
      <4> QED
        BY <4>1
    <3> QED
      BY <1>1, <3>2, <3>3
  <2> QED
    BY <2>2, <2>3
<1>3. {} \in T
  OBVIOUS
<1> HIDE DEF T
<1>4. SUBSET R \subseteq T
  BY <1>2, <1>3, HoldsAllSubsets
<1> QED
  BY <1>4 DEF T, LastOf

ToolIter(g, a, R) ==
  g = [A \in SUBSET R |-> IF A = {} THEN a ELSE FinishCall(g[A \ {LastOf(A)}], LastOf(A))]

LEMMA ToolIterAgrees ==
  ASSUME NEW R, IsFiniteSet(R), \A A \in SUBSET R : A # {} => LastOf(A) \in A,
         NEW a, NEW A \in SUBSET R, NEW B \in SUBSET R, NEW g, NEW h,
         ToolIter(g, a, A), ToolIter(h, a, B)
  PROVE  \A C \in SUBSET R : C \subseteq A /\ C \subseteq B => g[C] = h[C]
<1> DEFINE T == {C \in SUBSET R : C \subseteq A /\ C \subseteq B => g[C] = h[C]}
<1>1. {} \in T
  BY DEF ToolIter
<1>2. ASSUME NEW C \in SUBSET R, C # {}, \A x \in C : C \ {x} \in T
      PROVE  C \in T
  <2> SUFFICES ASSUME C \subseteq A, C \subseteq B
               PROVE  g[C] = h[C]
    OBVIOUS
  <2>1. LastOf(C) \in C /\ g[C \ {LastOf(C)}] = h[C \ {LastOf(C)}]
    BY <1>2
  <2>2. g[C] = FinishCall(g[C \ {LastOf(C)}], LastOf(C))
    BY <1>2 DEF ToolIter
  <2>3. h[C] = FinishCall(h[C \ {LastOf(C)}], LastOf(C))
    BY <1>2 DEF ToolIter
  <2> QED
    BY <2>1, <2>2, <2>3
<1> HIDE DEF T
<1>3. SUBSET R \subseteq T
  BY <1>1, <1>2, HoldsAllSubsets
<1> QED
  BY <1>3 DEF T

LEMMA ToolsIterate ==
  ASSUME NEW R, IsFiniteSet(R), \A A \in SUBSET R : A # {} => LastOf(A) \in A, NEW a
  PROVE  \E g : ToolIter(g, a, R)
<1> DEFINE T == {A \in SUBSET R : \E g : ToolIter(g, a, A)}
           G(A) == CHOOSE g : ToolIter(g, a, A)
<1>1. ASSUME NEW A \in SUBSET R, NEW g, ToolIter(g, a, A), NEW B \in SUBSET A
      PROVE  ToolIter([C \in SUBSET B |-> g[C]], a, B)
  <2> DEFINE h == [C \in SUBSET B |-> g[C]]
  <2>1. ASSUME NEW C \in SUBSET B
        PROVE  h[C] = IF C = {} THEN a ELSE FinishCall(h[C \ {LastOf(C)}], LastOf(C))
    <3>1. C \in SUBSET A /\ C \ {LastOf(C)} \in SUBSET B
      BY <1>1
    <3>2. g[C] = IF C = {} THEN a ELSE FinishCall(g[C \ {LastOf(C)}], LastOf(C))
      BY <1>1, <3>1 DEF ToolIter
    <3> QED
      BY <3>1, <3>2
  <2> QED
    BY <2>1 DEF ToolIter
<1>2. {} \in T
  <2>1. ToolIter([C \in SUBSET {} |-> a], a, {})
    BY DEF ToolIter
  <2> QED
    BY <2>1
<1>3. ASSUME NEW B \in SUBSET R, B # {}, \A x \in B : B \ {x} \in T
      PROVE  B \in T
  <2>1. ASSUME NEW C \in SUBSET B, C # B
        PROVE  ToolIter(G(C), a, C)
    <3>1. PICK x \in B \ C : TRUE
      BY <2>1
    <3>2. PICK g : ToolIter(g, a, B \ {x})
      BY <1>3
    <3>3. B \ {x} \in SUBSET R /\ C \in SUBSET (B \ {x})
      BY <2>1, <3>1
    <3>4. ToolIter([D \in SUBSET C |-> g[D]], a, C)
      BY <1>1, <3>2, <3>3
    <3> QED
      BY <3>4
  <2> HIDE DEF G
  <2> DEFINE h == [C \in SUBSET B |->
                     IF C = B THEN FinishCall(G(B \ {LastOf(B)})[B \ {LastOf(B)}], LastOf(B))
                     ELSE G(C)[C]]
  <2>2. ASSUME NEW C \in SUBSET B
        PROVE  h[C] = IF C = {} THEN a ELSE FinishCall(h[C \ {LastOf(C)}], LastOf(C))
    <3>1. CASE C = B
      <4>1. LastOf(B) \in B
        BY <1>3
      <4>2. B \ {LastOf(B)} \in SUBSET B /\ B \ {LastOf(B)} # B
        BY <4>1
      <4> QED
        BY <1>3, <3>1, <4>2
    <3>2. CASE C # B /\ C = {}
      BY <2>1, <3>2 DEF ToolIter
    <3>3. CASE C # B /\ C # {}
      <4> DEFINE l == LastOf(C)
      <4>1. l \in C /\ C \in SUBSET R /\ C \ {l} \in SUBSET R /\ C \ {l} \in SUBSET B
        BY <3>3
      <4>2. C \ {l} # B
        BY <3>3, <4>1
      <4>3. G(C)[C] = FinishCall(G(C)[C \ {l}], l)
        BY <2>1, <3>3 DEF ToolIter
      <4>4. G(C)[C \ {l}] = G(C \ {l})[C \ {l}]
        BY <2>1, <3>3, <4>1, <4>2, ToolIterAgrees
      <4> QED
        BY <3>3, <4>1, <4>2, <4>3, <4>4
    <3> QED
      BY <3>1, <3>2, <3>3
  <2> HIDE DEF h
  <2>3. h = [C \in SUBSET B |-> h[C]]
    BY DEF h
  <2>4. ToolIter(h, a, B)
    BY <2>2, <2>3 DEF ToolIter
  <2> QED
    BY <2>4
<1> HIDE DEF T
<1>4. R \in T
  BY <1>2, <1>3, HoldsAllSubsets
<1> QED
  BY <1>4 DEF T

\* No element of a sequence is there twice.
Once(s) == \A i, j \in DOMAIN s : s[i] = s[j] => i = j

LEMMA OneMore ==
  ASSUME NEW S, NEW s \in Seq(S), NEW x \in S
  PROVE  /\ s \o <<x>> \in Seq(S) /\ ToSet(s \o <<x>>) = ToSet(s) \cup {x}
         /\ Once(s) /\ x \notin ToSet(s) => Once(s \o <<x>>)
<1> DEFINE t == s \o <<x>>
<1>1. /\ Len(s) \in Nat /\ DOMAIN s = 1..Len(s) /\ t \in Seq(S) /\ DOMAIN t = 1..(Len(s) + 1)
      /\ \A i \in DOMAIN s : t[i] = s[i]
      /\ t[Len(s) + 1] = x
  OBVIOUS
<1> HIDE DEF t
<1>2. DOMAIN t = DOMAIN s \cup {Len(s) + 1} /\ Len(s) + 1 \notin DOMAIN s
  BY <1>1
<1>3. ToSet(t) = ToSet(s) \cup {x}
  BY <1>1, <1>2 DEF ToSet
<1>4. Once(s) /\ x \notin ToSet(s) => Once(t)
  BY <1>1, <1>2 DEF Once, ToSet
<1> QED
  BY <1>1, <1>3, <1>4 DEF t

Distinct(calls) == \A c, d \in calls : c.item = d.item => c = d

\* The calls of a set have been finished.
Finished(v, a, calls, b) ==
  \/ Breaks(a, b)
  \/ \E s, o \in Seq(Somewhat) :
       /\ Goes(a, b) /\ Shows(v, a, b, {}, s) /\ SameBut([a EXCEPT !.output = o], b)
       /\ ToSet(s) = {c.item : c \in calls} /\ None \notin ToSet(s)
       /\ Distinct(calls) => Once(s)

LEMMA OneMoreFinished ==
  ASSUME NEW v \in Views, NEW a \in Adapters, ~a.err, NEW calls \in SUBSET CallRecords,
         NEW c \in CallRecords, c \notin calls, NEW b, Finished(v, a, calls, b)
  PROVE  Finished(v, a, calls \cup {c}, FinishCall(b, c))
<1> DEFINE d == FinishCall(b, c)
<1>1. CASE Breaks(a, b)
  BY <1>1 DEF Finished, FinishCall, Breaks
<1>2. CASE ~Breaks(a, b)
  <2>1. PICK s \in Seq(Somewhat), o \in Seq(Somewhat) :
          /\ Goes(a, b) /\ Shows(v, a, b, {}, s) /\ SameBut([a EXCEPT !.output = o], b)
          /\ ToSet(s) = {k.item : k \in calls} /\ None \notin ToSet(s)
          /\ Distinct(calls) => Once(s)
    BY <1>2 DEF Finished
  <2>2. b \in Adapters /\ ~b.err
    BY <2>1 DEF Goes
  <2>3. CASE c.item = None \/ c.halves # 2
    BY <2>1, <2>2, <2>3, FinishCallIs, GoesOn DEF Finished
  <2>4. CASE ~(c.item = None \/ c.halves # 2)
    <3>1. /\ Goes(b, d) /\ Shows(v, b, d, {}, <<c.item>>)
          /\ SameBut([b EXCEPT !.output = Append(@, c.item)], d)
      BY <2>2, <2>4, FinishCallIs
    <3> HIDE DEF d
    <3>2. c.item \in Somewhat /\ b.output \in Seq(Somewhat)
      BY <2>2 DEF CallRecords, Adapters
    <3> DEFINE t == s \o <<c.item>>
               p == Append(b.output, c.item)
    <3>3. t \in Seq(Somewhat) /\ p \in Seq(Somewhat) /\ ToSet(t) = ToSet(s) \cup {c.item}
      BY <3>2, OneMore
    <3>4. Goes(a, d)
      BY <2>1, <3>1, GoesOn
    <3>5. Shows(v, a, d, {}, t)
      <4>1. Seen(v, a) \in Views /\ <<c.item>> \in Seq(Somewhat) /\ {} \cup {} = {}
        BY <3>2, SetsFields
      <4>2. Shows(v, a, d, {} \cup {}, t)
        BY <2>1, <3>1, <4>1, ShowsOn
      <4> QED
        BY <4>1, <4>2
    <3>6. SameBut([a EXCEPT !.output = p], d)
      BY <2>1, <2>2, <3>1 DEF SameBut, Adapters
    <3>7. Distinct(calls \cup {c}) => Once(t)
      <4> SUFFICES ASSUME Distinct(calls \cup {c})
                   PROVE  Once(t)
        OBVIOUS
      <4>1. Distinct(calls) /\ \A k \in calls : k.item # c.item
        BY DEF Distinct
      <4>2. Once(s) /\ c.item \notin ToSet(s)
        BY <2>1, <4>1
      <4> QED
        BY <3>2, <4>2, OneMore
    <3>8. ToSet(t) = {k.item : k \in calls \cup {c}} /\ None \notin ToSet(t)
      BY <2>1, <2>4, <3>3
    <3> HIDE DEF t, p
    <3>9. Finished(v, a, calls \cup {c}, d)
      BY <3>3, <3>4, <3>5, <3>6, <3>7, <3>8 DEF Finished
    <3> QED
      BY <3>9 DEF d
  <2> QED
    BY <2>3, <2>4
<1> QED
  BY <1>1, <1>2

LEMMA FinishToolsIs ==
  ASSUME NEW v \in Views, NEW a \in Adapters, ~a.err
  PROVE  LET b == FinishTools(a)
         IN  \/ Breaks(a, b)
             \/ \E s, o \in Seq(Somewhat) :
                  /\ Goes(a, b) /\ Shows(v, a, b, {}, s)
                  /\ SameBut([a EXCEPT !.calls = <<>>, !.output = o], b)
                  /\ ToSet(s) = {a.calls[i].item : i \in DOMAIN a.calls} /\ None \notin ToSet(s)
                  /\ Distinct(Range(a.calls)) => Once(s)
<1> DEFINE R == Range(a.calls)
           z == [a EXCEPT !.calls = <<>>]
<1>1. CASE a.calls = <<>>
  BY <1>1, FailBreaks DEF FinishTools
<1>2. CASE a.calls # <<>>
  <2>1. R \in SUBSET CallRecords /\ IsFiniteSet(R)
    <3>1. IsFiniteSet(DOMAIN a.calls) /\ \A i \in DOMAIN a.calls : a.calls[i] \in CallRecords
      BY DEF Adapters, CallTables
    <3>2. R = {a.calls[i] : i \in DOMAIN a.calls}
      BY DEF Range
    <3>3. a.calls \in Surjection(DOMAIN a.calls, R)
      BY <3>2 DEF Surjection, Adapters, CallTables
    <3>4. IsFiniteSet(R)
      BY <3>1, <3>3, FS_Surjection
    <3> QED
      BY <3>1, <3>2, <3>4
  <2>2. \A A \in SUBSET R : A # {} => LastOf(A) \in A
    <3> HIDE DEF R
    <3> QED
      BY <2>1, LastIsThere
  <2>3. /\ z \in Adapters /\ z.out = a.out /\ z.err = a.err /\ z.failures = a.failures
        /\ z.declared = a.declared /\ z.state = a.state
    <3>1. <<>> \in CallTables
      <4>1. <<>> \in [{} -> CallRecords] /\ IsFiniteSet({})
        BY FS_EmptySet
      <4> QED
        BY <4>1 DEF CallTables
    <3> QED
      BY <3>1 DEF Adapters
  <2>4. Goes(a, z) /\ Shows(v, a, z, {}, <<>>) /\ Seen(v, a) \in Views
    BY <2>3, SetsFields DEF IsOver
  <2> DEFINE g == CHOOSE g : ToolIter(g, z, R)
  <2>5. FinishTools(a) = g[R]
    BY <1>2 DEF FinishTools, MapThenFoldSet, ToolIter
  <2>6. ToolIter(g, z, R)
    <3> HIDE DEF R, z
    <3>1. \E h : ToolIter(h, z, R)
      BY <2>1, <2>2, ToolsIterate
    <3> QED
      BY <3>1
  <2> HIDE DEF g
  <2> DEFINE T == {A \in SUBSET R : Finished(v, z, A, g[A])}
  <2>7. {} \in T
    <3>1. g[{}] = z
      BY <2>6 DEF ToolIter
    <3>2. Goes(z, z) /\ Shows(v, z, z, {}, <<>>)
      BY <2>3, SetsFields
    <3>3. SameBut([z EXCEPT !.output = z.output], z) /\ z.output \in Seq(Somewhat)
      BY <2>3 DEF SameBut, Adapters
    <3>4. <<>> \in Seq(Somewhat) /\ ToSet(<<>>) = {} /\ Once(<<>>)
      BY DEF ToSet, Once
    <3> HIDE DEF z
    <3>5. Finished(v, z, {}, z)
      BY <3>2, <3>3, <3>4 DEF Finished
    <3> QED
      BY <3>1, <3>5
  <2>8. ASSUME NEW A \in SUBSET R, A # {}, \A x \in A : A \ {x} \in T
        PROVE  A \in T
    <3> DEFINE l == LastOf(A)
    <3>1. l \in A /\ A \ {l} \in T
      BY <2>2, <2>8
    <3>2. g[A] = FinishCall(g[A \ {l}], l)
      BY <2>6, <2>8 DEF ToolIter
    <3> HIDE DEF l, R, z
    <3>3. /\ A \ {l} \in SUBSET CallRecords /\ l \in CallRecords /\ l \notin A \ {l}
          /\ (A \ {l}) \cup {l} = A
      BY <2>1, <3>1
    <3>4. Finished(v, z, A, g[A])
      BY <2>3, <3>1, <3>2, <3>3, OneMoreFinished
    <3> QED
      BY <3>4
  <2> HIDE DEF T
  <2>9. R \in T
    <3> HIDE DEF R
    <3>1. SUBSET R \subseteq T
      BY <2>1, <2>7, <2>8, HoldsAllSubsets
    <3> QED
      BY <3>1
  <2> DEFINE b == FinishTools(a)
  <2>10. Finished(v, z, R, b)
    BY <2>5, <2>9 DEF T
  <2> HIDE DEF b
  <2>11. CASE Breaks(z, b)
    BY <2>4, <2>11, GoesOn DEF b
  <2>12. CASE ~Breaks(z, b)
    <3>1. PICK s \in Seq(Somewhat), o \in Seq(Somewhat) :
            /\ Goes(z, b) /\ Shows(v, z, b, {}, s) /\ SameBut([z EXCEPT !.output = o], b)
            /\ ToSet(s) = {c.item : c \in R} /\ None \notin ToSet(s)
            /\ Distinct(R) => Once(s)
      <4> HIDE DEF z, R
      <4> QED
        BY <2>10, <2>12 DEF Finished
    <3>2. {c.item : c \in R} = {a.calls[i].item : i \in DOMAIN a.calls}
      BY DEF Range
    <3>3. SameBut([a EXCEPT !.calls = <<>>, !.output = o], b)
      <4>1. [z EXCEPT !.output = o] = [a EXCEPT !.calls = <<>>, !.output = o]
        BY DEF Adapters
      <4> QED
        BY <3>1, <4>1
    <3> HIDE DEF z
    <3>4. Goes(a, b) /\ Shows(v, a, b, {}, s)
      BY <2>4, <3>1, GoesOn, ShowsAlso
    <3> QED
      BY <3>1, <3>2, <3>3, <3>4 DEF b
  <2> QED
    BY <2>11, <2>12
<1> QED
  BY <1>1, <1>2

-----------------------------------------------------------------------------
(* The finish reason, [DONE], and any frame.                               *)

Thought(a) == IF a.thinking THEN <<a.reasoning>> ELSE <<>>

\* The first steps of Finish: the status, and the end of the reasoning.
LEMMA ThoughtEnds ==
  ASSUME NEW v \in Views, NEW a \in Adapters, ~a.err, NEW status \in {"incomplete", a.status}
  PROVE  LET b == FinishReasoning([a EXCEPT !.status = status])
         IN  /\ Goes(a, b) /\ Shows(v, a, b, {}, Thought(a)) /\ Thought(a) \in Seq(Somewhat)
             /\ b.open = a.open /\ ~b.thinking /\ b.calls = a.calls
<1> DEFINE z == [a EXCEPT !.status = status]
           b == FinishReasoning(z)
<1>1. /\ z \in Adapters /\ z.out = a.out /\ z.err = a.err /\ z.failures = a.failures
      /\ z.declared = a.declared /\ z.state = a.state /\ z.open = a.open
      /\ z.thinking = a.thinking /\ z.reasoning = a.reasoning /\ z.calls = a.calls
  BY DEF Adapters
<1>2. Goes(a, z) /\ Shows(v, a, z, {}, <<>>) /\ Seen(v, a) \in Views
  BY <1>1, SetsFields DEF IsOver
<1> HIDE DEF z
<1>3. <<>> \in Seq(Somewhat) /\ Thought(a) \in Seq(Somewhat) /\ a.thinking \in BOOLEAN
  BY DEF Thought, Adapters
<1>4. CASE ~a.thinking
  <2>1. b = z
    BY <1>1, <1>4, FinishReasoningIs
  <2> QED
    BY <1>1, <1>2, <1>3, <1>4, <2>1 DEF Thought, z
<1>5. CASE a.thinking
  <2>1. /\ Goes(z, b) /\ Shows(v, z, b, {}, <<a.reasoning>>)
        /\ SameBut([z EXCEPT !.thinking = FALSE, !.output = Append(@, z.reasoning)], b)
    BY <1>1, <1>5, FinishReasoningIs
  <2> HIDE DEF b
  <2>2. b.open = a.open /\ ~b.thinking /\ b.calls = a.calls
    BY <1>1, <2>1 DEF SameBut, Adapters
  <2>3. Goes(a, b)
    BY <1>2, <2>1, GoesOn
  <2>4. Shows(v, a, b, {}, Thought(a))
    <3>1. Thought(a) = <<a.reasoning>>
      BY <1>5 DEF Thought
    <3> QED
      BY <1>2, <1>3, <2>1, <3>1, ShowsAlso
  <2> QED
    BY <1>3, <2>2, <2>3, <2>4 DEF b, z
<1> QED
  BY <1>3, <1>4, <1>5

Reasons == {"stop", "length", "tool_calls"}

LEMMA FinishIs ==
  ASSUME NEW v \in Views, NEW a \in Adapters, ~a.err, NEW reason \in Reasons
  PROVE  LET b == Finish(a, reason)
         IN  \/ Breaks(a, b)
             \/ /\ Goes(a, b) /\ b.state = "awaiting" /\ ~b.open /\ ~b.thinking
                /\ IF reason = "tool_calls"
                   THEN /\ b.calls = <<>>
                        /\ \E s \in Seq(Somewhat) :
                             /\ ~a.open => Shows(v, a, b, {}, Thought(a) \o s)
                             /\ ToSet(s) = {a.calls[i].item : i \in DOMAIN a.calls}
                             /\ Distinct(Range(a.calls)) => Once(s)
                   ELSE /\ b.calls = a.calls
                        /\ Shows(v, a, b, IF a.open THEN {} ELSE {Message0},
                                 Thought(a) \o <<Message0>>)
<1> DEFINE z == IF reason = "length" THEN [a EXCEPT !.status = "incomplete"] ELSE a
           w == FinishReasoning(z)
           t == IF w.open THEN FinishText(w) ELSE w
           c == IF reason = "tool_calls" THEN FinishTools(t) ELSE FinishText(w)
           b == Finish(a, reason)
<1>1. b = IF c.err THEN c ELSE [c EXCEPT !.state = "awaiting"]
  BY DEF Finish
<1>2. /\ Goes(a, w) /\ Shows(v, a, w, {}, Thought(a)) /\ Thought(a) \in Seq(Somewhat)
      /\ w.open = a.open /\ ~w.thinking /\ w.calls = a.calls
  <2>1. PICK status \in {"incomplete", a.status} : z = [a EXCEPT !.status = status]
    BY DEF Adapters
  <2> HIDE DEF z
  <2> QED
    BY <2>1, ThoughtEnds
<1>3. w \in Adapters /\ ~w.err /\ Seen(v, a) \in Views
  BY <1>2, SetsFields DEF Goes
<1> HIDE DEF w, b
<1>4. /\ Message0 \in Somewhat /\ <<>> \in Seq(Somewhat) /\ <<Message0>> \in Seq(Somewhat)
      /\ \A o : {} \cup o = o
  BY Message0IsItem
<1>5. ASSUME ~c.err, c \in Adapters
      PROVE  /\ Goes(c, b) /\ Shows(v, c, b, {}, <<>>) /\ b.state = "awaiting"
             /\ b.open = c.open /\ b.thinking = c.thinking /\ b.calls = c.calls
  <2> HIDE DEF c
  <2>1. /\ b \in Adapters /\ b.out = c.out /\ b.err = c.err /\ b.failures = c.failures
        /\ b.declared = c.declared /\ b.state = "awaiting"
        /\ b.open = c.open /\ b.thinking = c.thinking /\ b.calls = c.calls
    BY <1>1, <1>5 DEF Adapters, States
  <2> QED
    BY <1>5, <2>1, SetsFields DEF IsOver
<1>6. CASE reason = "tool_calls"
  <2> DEFINE m == IF a.open THEN <<Message0>> ELSE <<>>
  <2>1. m \in Seq(Somewhat) /\ a.open \in BOOLEAN
    BY <1>4 DEF Adapters
  <2>2. /\ Goes(w, t) /\ Shows(v, w, t, {}, m) /\ ~t.open /\ ~t.thinking /\ t.calls = a.calls
        /\ t \in Adapters /\ ~t.err
    <3>1. CASE w.open
      <4>1. /\ Goes(w, t) /\ Shows(v, w, t, {}, <<Message0>>)
            /\ SameBut([w EXCEPT !.open = FALSE, !.output = Append(@, Message0),
                                 !.state = IF w.open THEN @ ELSE "item"], t)
        BY <1>3, <3>1, FinishTextIs
      <4> HIDE DEF t
      <4>2. ~t.open /\ t.thinking = w.thinking /\ t.calls = w.calls
        BY <1>3, <4>1 DEF SameBut, Adapters
      <4> QED
        BY <1>2, <3>1, <4>1, <4>2 DEF Goes
    <3>2. CASE ~w.open
      BY <1>2, <1>3, <3>2, SetsFields
    <3> QED
      BY <3>1, <3>2
  <2>3. c = FinishTools(t)
    BY <1>6
  <2> HIDE DEF t, m
  <2>4. Goes(a, t) /\ Shows(v, a, t, {}, Thought(a) \o m)
    <3>1. Shows(v, a, t, {} \cup {}, Thought(a) \o m)
      BY <1>2, <1>3, <2>1, <2>2, ShowsOn
    <3> QED
      BY <1>2, <1>4, <2>2, <3>1, GoesOn
  <2>5. CASE Breaks(t, c)
    <3>1. Breaks(a, c)
      BY <2>4, <2>5, GoesOn
    <3> HIDE DEF c
    <3>2. b = c
      BY <1>1, <3>1 DEF Breaks
    <3> QED
      BY <3>1, <3>2 DEF b
  <2>6. CASE ~Breaks(t, c)
    <3>1. PICK s \in Seq(Somewhat), o \in Seq(Somewhat) :
            /\ Goes(t, c) /\ Shows(v, t, c, {}, s)
            /\ SameBut([t EXCEPT !.calls = <<>>, !.output = o], c)
            /\ ToSet(s) = {t.calls[i].item : i \in DOMAIN t.calls} /\ None \notin ToSet(s)
            /\ Distinct(Range(t.calls)) => Once(s)
      BY <2>2, <2>3, <2>6, FinishToolsIs
    <3> HIDE DEF c
    <3>2. ~c.err /\ c \in Adapters /\ ~c.open /\ ~c.thinking /\ c.calls = <<>>
      BY <2>2, <3>1 DEF Goes, SameBut, Adapters
    <3>3. /\ Goes(c, b) /\ Shows(v, c, b, {}, <<>>) /\ b.state = "awaiting"
          /\ b.open = c.open /\ b.thinking = c.thinking /\ b.calls = c.calls
      BY <1>5, <3>2
    <3>4. Goes(a, b)
      BY <2>4, <3>1, <3>3, GoesOn
    <3>5. ~a.open => Shows(v, a, b, {}, Thought(a) \o s)
      <4> SUFFICES ASSUME ~a.open
                   PROVE  Shows(v, a, b, {}, Thought(a) \o s)
        OBVIOUS
      <4>1. Thought(a) \o m = Thought(a)
        BY <1>2 DEF m
      <4>2. Thought(a) \o s \in Seq(Somewhat)
        BY <1>2, <3>1
      <4>3. Shows(v, a, c, {} \cup {}, Thought(a) \o s)
        BY <1>2, <1>3, <2>4, <3>1, <4>1, ShowsOn
      <4> QED
        BY <1>3, <1>4, <3>3, <4>2, <4>3, ShowsAlso
    <3> QED
      BY <1>6, <2>2, <3>1, <3>2, <3>3, <3>4, <3>5 DEF b
  <2> QED
    BY <2>5, <2>6
<1>7. CASE reason # "tool_calls"
  <2> DEFINE new == IF a.open THEN {} ELSE {Message0}
             all == Thought(a) \o <<Message0>>
  <2>1. /\ Goes(w, c) /\ Shows(v, w, c, new, <<Message0>>)
        /\ SameBut([w EXCEPT !.open = FALSE, !.output = Append(@, Message0),
                             !.state = IF w.open THEN @ ELSE "item"], c)
    BY <1>2, <1>3, <1>7, FinishTextIs
  <2> HIDE DEF c
  <2>2. ~c.err /\ c \in Adapters /\ ~c.open /\ ~c.thinking /\ c.calls = a.calls
    BY <1>2, <1>3, <2>1 DEF Goes, SameBut, Adapters
  <2>3. /\ Goes(c, b) /\ Shows(v, c, b, {}, <<>>) /\ b.state = "awaiting"
        /\ b.open = c.open /\ b.thinking = c.thinking /\ b.calls = c.calls
    BY <1>5, <2>2
  <2>4. Goes(a, b)
    BY <1>2, <2>1, <2>3, GoesOn
  <2>5. Shows(v, a, b, new, all)
    <3>1. all \in Seq(Somewhat)
      BY <1>2, <1>4
    <3> HIDE DEF new
    <3>2. Shows(v, a, c, {} \cup new, all)
      BY <1>2, <1>3, <1>4, <2>1, ShowsOn
    <3> QED
      BY <1>3, <1>4, <2>3, <3>1, <3>2, ShowsAlso
  <2> QED
    BY <1>7, <2>2, <2>3, <2>4, <2>5 DEF b
<1> QED
  BY <1>6, <1>7

\* A call that ends the answer.
Closes(v, a, b) ==
  /\ b \in Adapters
  /\ ~b.err /\ b.failures = a.failures /\ b.declared = a.declared /\ ~IsOver(a) /\ ~a.open
  /\ b.state = "completed"
  /\ SameBut([a EXCEPT !.state = "completed"], b)
  /\ Seen(v, b) \in Views
  /\ Seen(v, b).added = Seen(v, a).added /\ Seen(v, b).done = Seen(v, a).done
  /\ Seen(v, b).terminals = Append(Seen(v, a).terminals, b.status)
  /\ \A i \in DOMAIN b.out : i # Len(b.out) => i \in DOMAIN a.out /\ b.out[i] = a.out[i]

LEMMA CompleteIs ==
  ASSUME NEW v \in Views, NEW a \in Adapters, ~a.err
  PROVE  LET b == Complete(a)
         IN  \/ Breaks(a, b)
             \/ Closes(v, a, b) /\ b.status = a.status /\ a.state # "open"
<1> DEFINE z == [a EXCEPT !.state = "completed"]
           e == Event(z, a.status, None)
           b == Complete(a)
<1>1. CASE IsOver(a)
  <2>1. b = [a EXCEPT !.err = TRUE, !.out = <<>>]
    BY <1>1 DEF Complete
  <2>2. b \in Adapters /\ b.err /\ b.out = <<>>
    <3>1. <<>> \in Seq(Events)
      OBVIOUS
    <3> QED
      BY <2>1, <3>1 DEF Adapters
  <2> QED
    BY <1>1, <2>2 DEF Breaks
<1>2. CASE ~IsOver(a) /\ (a.open \/ a.state = "open")
  BY <1>2, FailBreaks DEF Complete
<1>3. CASE ~IsOver(a) /\ ~(a.open \/ a.state = "open")
  <2>1. b = WithEvent(z, e)
    BY <1>3 DEF Complete, Emit, WithEvent
  <2>2. /\ z \in Adapters /\ z.out = a.out /\ z.err = a.err /\ z.failures = a.failures
        /\ z.declared = a.declared /\ z.state = "completed" /\ z.status = a.status
        /\ a.status \in {"completed", "incomplete"} /\ a.out \in Seq(Events)
    BY DEF Adapters, States
  <2>3. a.status \in EventTypes /\ a.status \in Endings /\ None \in Somewhat
        /\ a.status # "added" /\ a.status # "done"
    BY <2>2 DEF EventTypes, Endings, Terminals, Somewhat
  <2>4. e \in Events /\ e.type = a.status
    BY <2>2, <2>3, EventIsTyped
  <2>5. SameBut([a EXCEPT !.state = "completed"], z)
    BY DEF SameBut
  <2> HIDE DEF z, e, b
  <2>6. /\ b \in Adapters /\ b.out = Append(a.out, e) /\ ~b.err /\ b.failures = a.failures
        /\ b.declared = a.declared /\ SameBut(z, b)
    BY <2>1, <2>2, <2>4, AppendOut
  <2>7. b.state = "completed" /\ SameBut([a EXCEPT !.state = "completed"], b)
        /\ b.status = a.status
    BY <2>2, <2>5, <2>6 DEF SameBut
  <2>8. Seen(v, b) = View(Seen(v, a), e)
    <3>1. FoldLeft(View, v, Append(a.out, e)) = View(FoldLeft(View, v, a.out), e)
      <4> DEFINE s == a.out
      <4>1. s \in Seq(Events) /\ e \in Events
        BY <2>2, <2>4
      <4> HIDE DEF s
      <4>2. FoldLeft(View, v, Append(s, e)) = View(FoldLeft(View, v, s), e)
        BY <4>1, ViewAppend
      <4> QED
        BY <4>2 DEF s
    <3> QED
      BY <2>6, <3>1 DEF Seen
  <2>9. Seen(v, a) \in Views
    BY <2>2, ViewOfEvents DEF Seen
  <2>10. /\ Seen(v, b) \in Views
         /\ Seen(v, b).added = Seen(v, a).added /\ Seen(v, b).done = Seen(v, a).done
         /\ Seen(v, b).terminals = Append(Seen(v, a).terminals, b.status)
    <3> DEFINE g == Seen(v, a)
    <3>1. g \in Views
      BY <2>9
    <3> HIDE DEF g
    <3>2. /\ View(g, e) \in Views /\ View(g, e).added = g.added /\ View(g, e).done = g.done
          /\ View(g, e).terminals = Append(g.terminals, e.type)
      BY <2>3, <2>4, <3>1, ViewOfEvent
    <3> QED
      BY <2>4, <2>7, <2>8, <3>2 DEF g
  <2>11. \A i \in DOMAIN b.out : i # Len(b.out) => i \in DOMAIN a.out /\ b.out[i] = a.out[i]
    BY <2>2, <2>4, <2>6
  <2> QED
    BY <1>3, <2>6, <2>7, <2>10, <2>11 DEF Closes, b
<1> QED
  BY <1>1, <1>2, <1>3

LEMMA AcceptIs ==
  ASSUME NEW v \in Views, NEW a \in Adapters, ~a.err, NEW f \in ChatFrames
  PROVE  LET b == Accept(a, f)
         IN  \/ Breaks(a, b)
             \/ Goes(a, b) /\ Seen(v, b) \in Views /\ f.k # "DONE"
             \/ Closes(v, a, b) /\ f.k = "DONE"
<1> DEFINE b == Accept(a, f)
<1>1. /\ Goes(a, a) /\ Seen(v, a) \in Views
      /\ f.k \in {"content", "reasoning", "tool", "finish", "DONE", "junk", "malformed"}
      /\ f.k = "finish" => f.reason \in Reasons
      /\ f.k = "tool" => f \in ToolFrames
      /\ \A c : Goes(a, c) => Seen(v, c) \in Views
  <2>1. Goes(a, a) /\ Seen(v, a) \in Views
    BY SetsFields
  <2>2. \A d \in ToolFrames : d.k = "tool"
    BY AnswerAssumption
  <2>3. \A c : Goes(a, c) => Seen(v, c) \in Views
    BY ViewOfEvents DEF Seen, Goes, Adapters
  <2> QED
    BY <2>1, <2>2, <2>3 DEF ChatFrames, Finishes, Frame, Reasons
<1>2. CASE f.k = "content"
  <2>1. b = TextDelta(a)
    BY <1>2 DEF Accept
  <2> HIDE DEF b
  <2>2. Breaks(a, b) \/ Goes(a, b)
    BY <2>1, TextDeltaIs
  <2> QED
    BY <1>1, <1>2, <2>2 DEF b
<1>3. CASE f.k = "reasoning"
  <2>1. b = ReasoningDelta(a)
    BY <1>3 DEF Accept
  <2> HIDE DEF b
  <2>2. Breaks(a, b) \/ Goes(a, b)
    BY <1>1, <2>1, ReasoningDeltaIs
  <2> QED
    BY <1>1, <1>3, <2>2 DEF b
<1>4. CASE f.k = "tool"
  <2> DEFINE o == IF a.open THEN FinishText(a) ELSE a
  <2>1. b = ToolDelta(o, f)
    BY <1>4 DEF Accept
  <2>2. Goes(a, o)
    BY <1>1, FinishTextIs
  <2>3. o \in Adapters /\ ~o.err
    BY <2>2 DEF Goes
  <2> HIDE DEF b, o
  <2>4. Breaks(o, b) \/ Goes(o, b)
    <3>1. f \in ToolFrames
      BY <1>1, <1>4
    <3> QED
      BY <2>1, <2>3, <3>1, ToolDeltaIs
  <2>5. Breaks(a, b) \/ Goes(a, b)
    BY <2>2, <2>4, GoesOn
  <2> QED
    BY <1>1, <1>4, <2>5 DEF b
<1>5. CASE f.k = "finish"
  <2>1. b = Finish(a, f.reason)
    BY <1>5 DEF Accept
  <2> HIDE DEF b
  <2>2. Breaks(a, b) \/ Goes(a, b)
    BY <1>1, <1>5, <2>1, FinishIs
  <2> QED
    BY <1>1, <1>5, <2>2 DEF b
<1>6. CASE f.k = "DONE"
  <2>1. b = Complete(a)
    BY <1>6 DEF Accept
  <2> HIDE DEF b
  <2>2. Breaks(a, b) \/ Closes(v, a, b)
    BY <2>1, CompleteIs
  <2> QED
    BY <1>6, <2>2 DEF b
<1>7. CASE f.k \in {"junk", "malformed"}
  <2>1. b = Fail(a)
    BY <1>7 DEF Accept
  <2> QED
    BY <2>1, FailBreaks
<1> QED
  BY <1>1, <1>2, <1>3, <1>4, <1>5, <1>6, <1>7

-----------------------------------------------------------------------------
(* A stream in order leaves a view in order.                               *)

Upstreams == [n : Nat, rank : 0..5, tools : UNION {[D -> Nat] : D \in SUBSET Indices},
              odd : BOOLEAN, overrun : BOOLEAN]

\* The items an adapter has opened and not closed.
Opened(a) == {x \in {Message0} : a.open} \cup {x \in {a.reasoning} : a.thinking}
               \cup {a.calls[i].item : i \in DOMAIN a.calls}

\* The calls of the adapter are those of the stream, each with an item of its own.
CallsMatch(u, a) ==
  /\ DOMAIN a.calls = DOMAIN u.tools
  /\ \A i \in DOMAIN a.calls :
       /\ a.calls[i].id # None /\ a.calls[i].id \in a.ids
       /\ a.calls[i].item # None /\ a.calls[i].item.id = a.calls[i].id
  /\ \A i, j \in DOMAIN a.calls : a.calls[i].id = a.calls[j].id => i = j

\* The adapter a is in step with a stream u that kept the protocol, and w is what
\* Codex makes of it: an item Codex saw opened is closed, or the adapter has it open.
Orderly(u, a, w) ==
  /\ w.added = ToSet(w.done) \cup Opened(a) /\ Once(w.done)
  /\ a.open => u.rank = 2
  /\ u.rank <= 3 =>
       /\ a.reasoning # None <=> a.thinking
       /\ a.reasoning # None => a.reasoning.kind = "reasoning" /\ a.reasoning.id = None
  /\ u.rank <= 2 => w.done = <<>> /\ a.calls = <<>>
  /\ u.rank = 3 => ToSet(w.done) \subseteq {Message0}
  /\ u.rank <= 3 => CallsMatch(u, a)
  /\ u.rank >= 4 => Opened(a) = {}

LEMMA StreamedIs ==
  ASSUME NEW u \in Upstreams, NEW f \in ChatFrames
  PROVE  /\ Streamed(u, f) \in Upstreams
         /\ Streamed(u, f).n = u.n + 1
         /\ Streamed(u, f).odd <=> u.odd \/ ~InOrder(u, f)
         /\ Streamed(u, f).overrun <=> u.overrun \/ u.rank = 5
         /\ Streamed(u, f).rank = IF Rank(f) > u.rank THEN Rank(f) ELSE u.rank
         /\ f.k # "tool" => Streamed(u, f).tools = u.tools
         /\ f.k = "tool" => DOMAIN Streamed(u, f).tools = DOMAIN u.tools \cup {f.index}
<1>1. u.n \in Nat /\ u.rank \in 0..5 /\ u.odd \in BOOLEAN /\ u.overrun \in BOOLEAN
  BY DEF Upstreams
<1>2. PICK D \in SUBSET Indices : u.tools \in [D -> Nat]
  BY DEF Upstreams
<1>3. Rank(f) \in 0..5
  BY DEF Rank
<1>4. f.k = "tool" => f \in ToolFrames
  BY AnswerAssumption DEF ChatFrames, Finishes, Frame
<1> DEFINE n == u.n + 1
           rank == IF Rank(f) > u.rank THEN Rank(f) ELSE u.rank
           tools == IF f.k = "tool"
                    THEN [i \in DOMAIN u.tools \cup {f.index} |->
                            Halves(u, i) + (IF i = f.index THEN f.halves ELSE 0)]
                    ELSE u.tools
           odd == u.odd \/ ~InOrder(u, f)
           overrun == u.overrun \/ u.rank = 5
<1>5. Streamed(u, f) = [n |-> n, rank |-> rank, tools |-> tools, odd |-> odd, overrun |-> overrun]
  BY DEF Streamed
<1>6. n \in Nat /\ rank \in 0..5 /\ odd \in BOOLEAN /\ overrun \in BOOLEAN
  BY <1>1, <1>3
<1>7. /\ tools \in UNION {[E -> Nat] : E \in SUBSET Indices}
      /\ f.k = "tool" => DOMAIN tools = DOMAIN u.tools \cup {f.index}
      /\ f.k # "tool" => tools = u.tools
  <2>1. CASE f.k = "tool"
    <3>1. f.index \in Indices /\ f.halves \in Nat
      BY <1>4, <2>1, AnswerAssumption DEF Indices
    <3>2. \A i \in D \cup {f.index} : Halves(u, i) + (IF i = f.index THEN f.halves ELSE 0) \in Nat
      BY <1>2, <3>1 DEF Halves
    <3>3. tools = [i \in D \cup {f.index} |->
                     Halves(u, i) + (IF i = f.index THEN f.halves ELSE 0)]
      BY <1>2, <2>1
    <3> HIDE DEF tools
    <3>4. tools \in [D \cup {f.index} -> Nat] /\ D \cup {f.index} \in SUBSET Indices
      BY <3>1, <3>2, <3>3
    <3>5. DOMAIN tools = DOMAIN u.tools \cup {f.index}
      BY <1>2, <3>4
    <3> QED
      BY <2>1, <3>4, <3>5
  <2>2. CASE f.k # "tool"
    BY <1>2, <2>2
  <2> QED
    BY <2>1, <2>2
<1> HIDE DEF n, rank, tools, odd, overrun
<1>8. /\ Streamed(u, f) \in Upstreams /\ Streamed(u, f).n = n /\ Streamed(u, f).rank = rank
      /\ Streamed(u, f).tools = tools /\ Streamed(u, f).odd = odd
      /\ Streamed(u, f).overrun = overrun
  BY <1>5, <1>6, <1>7 DEF Upstreams
<1> QED
  BY <1>7, <1>8 DEF n, rank, odd, overrun

LEMMA InOrderIs ==
  ASSUME NEW u \in Upstreams, NEW f \in ChatFrames, InOrder(u, f)
  PROVE  /\ f.k = "reasoning" => u.rank <= 1 /\ Streamed(u, f).rank = 1
         /\ f.k = "content" => u.rank <= 2 /\ Streamed(u, f).rank = 2
         /\ f.k = "tool" => /\ u.rank <= 3 /\ Streamed(u, f).rank = 3
                            /\ (f.id # None /\ f.name # None) <=> f.index \notin DOMAIN u.tools
         /\ f.k = "finish" => /\ Streamed(u, f).rank = 4
                              /\ IF f.reason = "tool_calls" THEN u.rank = 3 ELSE u.rank <= 2
         /\ f.k = "DONE" => u.rank = 4 /\ Streamed(u, f).rank = 5
         /\ f.k \in {"reasoning", "content", "tool", "finish", "DONE"}
<1>1. u.rank \in 0..5
  BY DEF Upstreams
<1>2. Streamed(u, f).rank = IF Rank(f) > u.rank THEN Rank(f) ELSE u.rank
  BY StreamedIs
<1>3. f.k \in {"reasoning", "content", "tool", "finish", "DONE"}
  BY DEF InOrder
<1>4. CASE f.k = "reasoning"
  BY <1>1, <1>2, <1>4 DEF InOrder, Rank
<1>5. CASE f.k = "content"
  BY <1>1, <1>2, <1>5 DEF InOrder, Rank
<1>6. CASE f.k = "tool"
  BY <1>1, <1>2, <1>6 DEF InOrder, Rank
<1>7. CASE f.k = "finish"
  BY <1>1, <1>2, <1>7 DEF InOrder, Rank
<1>8. CASE f.k = "DONE"
  BY <1>1, <1>2, <1>8 DEF InOrder, Rank
<1> QED
  BY <1>3, <1>4, <1>5, <1>6, <1>7, <1>8

LEMMA OnceConcat ==
  ASSUME NEW S, NEW s \in Seq(S), NEW t \in Seq(S)
  PROVE  /\ s \o t \in Seq(S) /\ ToSet(s \o t) = ToSet(s) \cup ToSet(t)
         /\ Once(s) /\ Once(t) /\ ToSet(s) \cap ToSet(t) = {} => Once(s \o t)
<1> DEFINE n == Len(s)
           m == Len(t)
           w == s \o t
<1>1. /\ n \in Nat /\ m \in Nat /\ DOMAIN s = 1..n /\ DOMAIN t = 1..m /\ DOMAIN w = 1..(n + m)
      /\ \A i \in 1..n : w[i] = s[i]
      /\ \A i \in 1..m : w[n + i] = t[i]
      /\ w \in Seq(S)
  OBVIOUS
<1> HIDE DEF w, n, m
<1>2. \A i \in 1..(n + m) : i \notin 1..n => i - n \in 1..m /\ n + (i - n) = i
  BY <1>1
<1>3. \A i \in DOMAIN w : \/ i \in DOMAIN s /\ w[i] = s[i]
                          \/ \E k \in DOMAIN t : i = n + k /\ w[i] = t[k]
  <2> TAKE i \in DOMAIN w
  <2>1. CASE i \in 1..n
    BY <1>1, <2>1
  <2>2. CASE i \notin 1..n
    <3>1. i - n \in DOMAIN t /\ i = n + (i - n)
      BY <1>1, <1>2, <2>2
    <3>2. w[i] = t[i - n]
      BY <1>1, <3>1
    <3> QED
      BY <3>1, <3>2
  <2> QED
    BY <2>1, <2>2
<1>4. ToSet(w) = ToSet(s) \cup ToSet(t)
  <2>1. \A i \in DOMAIN t : n + i \in DOMAIN w /\ w[n + i] = t[i]
    BY <1>1
  <2>2. \A i \in DOMAIN s : i \in DOMAIN w /\ w[i] = s[i]
    BY <1>1
  <2>3. ToSet(w) \subseteq ToSet(s) \cup ToSet(t)
    BY <1>3 DEF ToSet
  <2>4. ToSet(s) \subseteq ToSet(w)
    BY <2>2 DEF ToSet
  <2>5. ToSet(t) \subseteq ToSet(w)
    BY <2>1 DEF ToSet
  <2> QED
    BY <2>3, <2>4, <2>5
<1>5. ASSUME Once(s), Once(t), ToSet(s) \cap ToSet(t) = {}
      PROVE  Once(w)
  <2> SUFFICES ASSUME NEW i \in DOMAIN w, NEW j \in DOMAIN w, w[i] = w[j]
               PROVE  i = j
    BY DEF Once
  <2>1. \A k \in DOMAIN s, l \in DOMAIN t : s[k] # t[l]
    BY <1>5 DEF ToSet
  <2> QED
    BY <1>3, <1>5, <2>1 DEF Once
<1> QED
  BY <1>1, <1>4, <1>5 DEF w

LEMMA OneOnce ==
  ASSUME NEW S, NEW x \in S
  PROVE  <<x>> \in Seq(S) /\ ToSet(<<x>>) = {x} /\ Once(<<x>>) /\ ToSet(<<>>) = {} /\ Once(<<>>)
<1>1. DOMAIN <<x>> = {1} /\ DOMAIN <<>> = {}
  OBVIOUS
<1> QED
  BY <1>1 DEF ToSet, Once

LEMMA OrderlyContent ==
  ASSUME NEW v \in Views, NEW a \in Adapters, ~a.err, NEW u \in Upstreams, NEW f \in ChatFrames,
         InOrder(u, f), f.k = "content", Orderly(u, a, Seen(v, a)), ~Accept(a, f).err
  PROVE  Orderly(Streamed(u, f), Accept(a, f), Seen(v, Accept(a, f)))
<1> DEFINE b == Accept(a, f)
           s == Streamed(u, f)
<1>1. u.rank <= 2 /\ s.rank = 2 /\ s.tools = u.tools /\ u.rank \in 0..5
  BY InOrderIs, StreamedIs DEF Upstreams
<1>2. b = TextDelta(a)
  BY DEF Accept
<1> HIDE DEF b, s
<1>3. /\ Shows(v, a, b, IF a.open THEN {} ELSE {Message0}, <<>>)
      /\ SameBut([a EXCEPT !.open = TRUE, !.text = @ + 1, !.state = IF a.open THEN @ ELSE "item"], b)
  <2>1. ~b.err
    BY DEF b
  <2> QED
    BY <1>2, <2>1, TextDeltaIs DEF Breaks
<1>4. /\ b.open /\ b.thinking = a.thinking /\ b.reasoning = a.reasoning /\ b.calls = a.calls
      /\ b.ids = a.ids /\ a.open \in BOOLEAN
  BY <1>3 DEF SameBut, Adapters
<1>5. Seen(v, a).done = <<>> /\ a.calls = <<>> /\ DOMAIN u.tools = {}
  BY <1>1 DEF Orderly, CallsMatch
<1>6. Seen(v, b).done = <<>>
  BY <1>3, <1>5 DEF Shows
<1>7. Seen(v, b).added = ToSet(Seen(v, b).done) \cup Opened(b)
  BY <1>3, <1>4, <1>5, <1>6 DEF Shows, Orderly, Opened
<1> QED
  BY <1>1, <1>4, <1>5, <1>6, <1>7 DEF Orderly, CallsMatch, b, s

LEMMA OrderlyReasoning ==
  ASSUME NEW v \in Views, NEW a \in Adapters, ~a.err, NEW u \in Upstreams, NEW f \in ChatFrames,
         InOrder(u, f), f.k = "reasoning", Orderly(u, a, Seen(v, a)), ~Accept(a, f).err
  PROVE  Orderly(Streamed(u, f), Accept(a, f), Seen(v, Accept(a, f)))
<1> DEFINE b == Accept(a, f)
           s == Streamed(u, f)
<1>1. u.rank <= 1 /\ s.rank = 1 /\ s.tools = u.tools /\ u.rank \in 0..5
  BY InOrderIs, StreamedIs DEF Upstreams
<1>2. b = ReasoningDelta(a)
  BY DEF Accept
<1> HIDE DEF b, s
<1>3. Seen(v, a).done = <<>> /\ a.calls = <<>> /\ DOMAIN u.tools = {} /\ ~a.open
  BY <1>1 DEF Orderly, CallsMatch
<1>6. /\ (a.reasoning # None) <=> a.thinking
      /\ a.reasoning # None => a.reasoning.kind = "reasoning" /\ a.reasoning.id = None
      /\ Seen(v, a).added = ToSet(<<>>) \cup Opened(a)
  BY <1>1, <1>3 DEF Orderly
<1>4. CASE b = a
  BY <1>1, <1>3, <1>4 DEF Orderly, CallsMatch, b, s
<1>5. CASE b # a
  <2>1. PICK r \in StreamItems \cup {a.reasoning} :
          /\ IF a.reasoning = None THEN r # None /\ r.kind = "reasoning" /\ r.id = None
             ELSE r = a.reasoning
          /\ Shows(v, a, b, IF a.reasoning = None THEN {r} ELSE {}, <<>>)
          /\ SameBut([a EXCEPT !.reasoning = r, !.thought = @ + 1,
                               !.thinking = IF a.reasoning = None THEN TRUE ELSE @], b)
    BY <1>2, <1>5, ReasoningDeltaIs
  <2>2. /\ b.open = a.open /\ b.reasoning = r /\ b.calls = a.calls /\ b.ids = a.ids
        /\ b.thinking = (IF a.reasoning = None THEN TRUE ELSE a.thinking)
        /\ a.thinking \in BOOLEAN
    BY <2>1 DEF SameBut, Adapters
  <2>3. b.thinking /\ (a.reasoning # None => a.thinking /\ r = a.reasoning)
        /\ (a.reasoning = None => ~a.thinking)
    BY <1>6, <2>1, <2>2
  <2>4. Seen(v, b).done = <<>>
    BY <1>3, <2>1 DEF Shows
  <2>5. Seen(v, b).added = ToSet(Seen(v, b).done) \cup Opened(b)
    <3>2. Opened(b) = {r} /\ Opened(a) = IF a.reasoning = None THEN {} ELSE {r}
      BY <1>3, <2>2, <2>3 DEF Opened
    <3> QED
      BY <1>6, <2>1, <2>4, <3>2 DEF Shows
  <2>6. b.reasoning # None /\ b.reasoning.kind = "reasoning" /\ b.reasoning.id = None
    BY <1>6, <2>1, <2>2
  <2>7. Once(<<>>)
    BY DEF Once
  <2>8. Orderly(s, b, Seen(v, b))
    BY <1>1, <1>3, <2>2, <2>3, <2>4, <2>5, <2>6, <2>7 DEF Orderly, CallsMatch
  <2> QED
    BY <2>8 DEF b, s
<1> QED
  BY <1>4, <1>5

LEMMA OrderlyTool ==
  ASSUME NEW v \in Views, NEW a \in Adapters, ~a.err, NEW u \in Upstreams, NEW f \in ChatFrames,
         InOrder(u, f), f.k = "tool", Orderly(u, a, Seen(v, a)), ~Accept(a, f).err
  PROVE  Orderly(Streamed(u, f), Accept(a, f), Seen(v, Accept(a, f)))
<1> DEFINE b == Accept(a, f)
           s == Streamed(u, f)
           o == IF a.open THEN FinishText(a) ELSE a
<1>1. /\ u.rank <= 3 /\ s.rank = 3 /\ DOMAIN s.tools = DOMAIN u.tools \cup {f.index}
      /\ (f.id # None /\ f.name # None) <=> f.index \notin DOMAIN u.tools
      /\ u.rank \in 0..5
  BY InOrderIs, StreamedIs DEF Upstreams
<1>2. b = ToolDelta(o, f)
  BY DEF Accept
<1>3. f \in ToolFrames
  BY AnswerAssumption DEF ChatFrames, Finishes, Frame
<1>4. /\ (a.reasoning # None) <=> a.thinking
      /\ a.reasoning # None => a.reasoning.kind = "reasoning" /\ a.reasoning.id = None
      /\ Seen(v, a).added = ToSet(Seen(v, a).done) \cup Opened(a) /\ Once(Seen(v, a).done)
      /\ ToSet(Seen(v, a).done) \subseteq {Message0}
      /\ CallsMatch(u, a)
      /\ a.open => Seen(v, a).done = <<>>
  <2>1. u.rank <= 2 => ToSet(Seen(v, a).done) = {}
    BY DEF Orderly, ToSet
  <2> QED
    BY <1>1, <2>1 DEF Orderly
<1>5. /\ o \in Adapters /\ ~o.err /\ Seen(v, o) \in Views
      /\ ~o.open /\ o.reasoning = a.reasoning /\ o.thinking = a.thinking
      /\ o.calls = a.calls /\ o.ids = a.ids
      /\ Seen(v, o).added = ToSet(Seen(v, o).done) \cup Opened(o) /\ Once(Seen(v, o).done)
      /\ ToSet(Seen(v, o).done) \subseteq {Message0}
  <2>1. CASE a.open
    <3>1. /\ Goes(a, o) /\ Shows(v, a, o, {}, <<Message0>>)
          /\ SameBut([a EXCEPT !.open = FALSE, !.output = Append(@, Message0),
                               !.state = IF a.open THEN @ ELSE "item"], o)
      BY <2>1, FinishTextIs
    <3> HIDE DEF o
    <3>2. /\ o \in Adapters /\ ~o.err /\ ~o.open /\ o.reasoning = a.reasoning
          /\ o.thinking = a.thinking /\ o.calls = a.calls /\ o.ids = a.ids
      BY <3>1 DEF SameBut, Adapters, Goes
    <3>3. Seen(v, o) \in Views /\ Seen(v, o).done = <<Message0>>
          /\ Seen(v, o).added = Seen(v, a).added
      BY <1>4, <2>1, <3>1, Message0IsItem DEF Shows
    <3>4. ToSet(<<Message0>>) = {Message0} /\ Once(<<Message0>>) /\ ToSet(<<>>) = {}
      BY OneOnce, Message0IsItem
    <3>5. Opened(a) = {Message0} \cup Opened(o)
      BY <2>1, <3>2 DEF Opened
    <3> QED
      BY <1>4, <2>1, <3>2, <3>3, <3>4, <3>5
  <2>2. CASE ~a.open
    <3>1. Seen(v, a) \in Views
      BY SetsFields
    <3> QED
      BY <1>4, <2>2, <3>1
  <2> QED
    BY <2>1, <2>2
<1> HIDE DEF b, s, o
<1>6. PICK c : /\ CallAfter(o, f, c)
               /\ Goes(o, b)
               /\ Shows(v, o, b, IF c.item # Old(o, f).item THEN {c.item} ELSE {}, <<>>)
               /\ SameBut([o EXCEPT !.ids = IF f.id = None THEN @ ELSE @ \cup {f.id},
                                    !.calls = [i \in DOMAIN @ \cup {f.index} |->
                                                 IF i = f.index THEN c ELSE @[i]]], b)
  <2>1. ~b.err
    BY DEF b
  <2> QED
    BY <1>2, <1>3, <1>5, <2>1, ToolDeltaIs DEF Breaks
<1>7. /\ b.open = o.open /\ b.reasoning = o.reasoning /\ b.thinking = o.thinking
      /\ b.ids = IF f.id = None THEN o.ids ELSE o.ids \cup {f.id}
      /\ b.calls = [i \in DOMAIN o.calls \cup {f.index} |-> IF i = f.index THEN c ELSE o.calls[i]]
  BY <1>5, <1>6 DEF SameBut, Adapters
<1>8. /\ Seen(v, b).done = Seen(v, o).done
      /\ Seen(v, b).added = Seen(v, o).added
                              \cup (IF c.item # Old(o, f).item THEN {c.item} ELSE {})
  <2>1. Seen(v, o).done \in Seq(Somewhat)
    BY <1>5 DEF Views
  <2>2. Seen(v, o).done \o <<>> = Seen(v, o).done
    BY <2>1
  <2> QED
    BY <1>6, <2>2 DEF Shows
<1>9. /\ DOMAIN b.calls = DOMAIN o.calls \cup {f.index} /\ b.calls[f.index] = c
      /\ \A i \in DOMAIN o.calls : i # f.index => b.calls[i] = o.calls[i]
      /\ DOMAIN o.calls = DOMAIN u.tools /\ o.ids \subseteq b.ids
      /\ f.id # None => f.id \in b.ids
  BY <1>4, <1>5, <1>7 DEF CallsMatch
<1>10. \A i \in DOMAIN o.calls :
         /\ o.calls[i].id # None /\ o.calls[i].id \in o.ids
         /\ o.calls[i].item # None /\ o.calls[i].item.id = o.calls[i].id
  BY <1>4, <1>5 DEF CallsMatch
<1>11. \A i, j \in DOMAIN o.calls : o.calls[i].id = o.calls[j].id => i = j
  BY <1>4, <1>5 DEF CallsMatch
<1>12. /\ CallsMatch(s, b)
       /\ {b.calls[i].item : i \in DOMAIN b.calls}
            = {o.calls[i].item : i \in DOMAIN o.calls}
                \cup (IF c.item # Old(o, f).item THEN {c.item} ELSE {})
  <2>1. CASE f.index \in DOMAIN o.calls
    <3>1. Old(o, f) = o.calls[f.index]
      BY <2>1 DEF Old
    <3>2. c.id = o.calls[f.index].id /\ c.item = o.calls[f.index].item
      BY <1>6, <1>10, <2>1, <3>1 DEF CallAfter
    <3>3. \A i \in DOMAIN b.calls : i \in DOMAIN o.calls /\ b.calls[i].id = o.calls[i].id
                                    /\ b.calls[i].item = o.calls[i].item
      BY <1>9, <2>1, <3>2
    <3>4. DOMAIN b.calls = DOMAIN o.calls
      BY <1>9, <2>1
    <3>5. {b.calls[i].item : i \in DOMAIN b.calls} = {o.calls[i].item : i \in DOMAIN o.calls}
      BY <3>3, <3>4
    <3>6. CallsMatch(s, b)
      BY <1>1, <1>9, <1>10, <1>11, <3>3, <3>4 DEF CallsMatch
    <3> QED
      BY <3>1, <3>2, <3>5, <3>6
  <2>2. CASE f.index \notin DOMAIN o.calls
    <3>1. Old(o, f) = NoCall /\ f.id # None /\ f.name # None
      BY <1>1, <1>9, <2>2 DEF Old
    <3>2. NoCall.id = None /\ NoCall.name = None /\ NoCall.item = None
      BY DEF NoCall
    <3>3. c.id = f.id /\ c.name = f.name /\ f.id \notin o.ids
      BY <1>6, <3>1, <3>2 DEF CallAfter
    <3>4. c.item # None /\ c.item.id = c.id
      BY <1>6, <3>1, <3>2, <3>3 DEF CallAfter
    <3>5. \A i \in DOMAIN o.calls : b.calls[i] = o.calls[i] /\ i # f.index
      BY <1>9, <2>2
    <3>6. {b.calls[i].item : i \in DOMAIN b.calls}
            = {o.calls[i].item : i \in DOMAIN o.calls} \cup {c.item}
      BY <1>9, <3>5
    <3>7. \A i \in DOMAIN b.calls :
            /\ b.calls[i].id # None /\ b.calls[i].id \in b.ids
            /\ b.calls[i].item # None /\ b.calls[i].item.id = b.calls[i].id
      BY <1>9, <1>10, <3>1, <3>3, <3>4, <3>5
    <3>8. \A i \in DOMAIN o.calls : o.calls[i].id # c.id
      BY <1>10, <3>3
    <3>9. \A i, j \in DOMAIN b.calls : b.calls[i].id = b.calls[j].id => i = j
      BY <1>9, <1>11, <3>5, <3>8
    <3>10. DOMAIN b.calls = DOMAIN s.tools
      BY <1>1, <1>9
    <3>11. CallsMatch(s, b)
      BY <3>7, <3>9, <3>10 DEF CallsMatch
    <3> QED
      BY <3>1, <3>2, <3>4, <3>6, <3>11
  <2> QED
    BY <2>1, <2>2
<1>13. Seen(v, b).added = ToSet(Seen(v, b).done) \cup Opened(b)
  BY <1>5, <1>7, <1>8, <1>12 DEF Opened
<1>14. Orderly(s, b, Seen(v, b))
  BY <1>1, <1>4, <1>5, <1>7, <1>8, <1>12, <1>13 DEF Orderly
<1> QED
  BY <1>14 DEF b, s

LEMMA OrderlyFinish ==
  ASSUME NEW v \in Views, NEW a \in Adapters, ~a.err, NEW u \in Upstreams, NEW f \in ChatFrames,
         InOrder(u, f), f.k = "finish", Orderly(u, a, Seen(v, a)), ~Accept(a, f).err
  PROVE  Orderly(Streamed(u, f), Accept(a, f), Seen(v, Accept(a, f)))
<1> DEFINE b == Accept(a, f)
           s == Streamed(u, f)
           d == Seen(v, a).done
           t == Thought(a)
<1>1. /\ s.rank = 4 /\ u.rank \in 0..5 /\ f.reason \in Reasons
      /\ IF f.reason = "tool_calls" THEN u.rank = 3 ELSE u.rank <= 2
  <2>1. f.k # "tool"
    OBVIOUS
  <2>2. f.reason \in Reasons
    BY <2>1, AnswerAssumption DEF ChatFrames, Finishes, Frame, Reasons
  <2> QED
    BY <2>2, InOrderIs DEF Upstreams
<1>2. b = Finish(a, f.reason)
  BY DEF Accept
<1>3. /\ (a.reasoning # None) <=> a.thinking
      /\ a.reasoning # None => a.reasoning.kind = "reasoning" /\ a.reasoning.id = None
      /\ Seen(v, a).added = ToSet(d) \cup Opened(a) /\ Once(d)
      /\ ToSet(d) \subseteq {Message0} /\ CallsMatch(u, a)
      /\ u.rank <= 2 => d = <<>> /\ a.calls = <<>>
      /\ u.rank = 3 => ~a.open
  <2>1. u.rank <= 2 => ToSet(d) = {}
    BY DEF Orderly, ToSet
  <2> QED
    BY <1>1, <2>1 DEF Orderly
<1>4. /\ t \in Seq(Somewhat) /\ ToSet(t) = {x \in {a.reasoning} : a.thinking} /\ Once(t)
      /\ d \in Seq(Somewhat)
  <2>1. a.reasoning \in Somewhat /\ a.thinking \in BOOLEAN
    BY DEF Adapters
  <2>2. Seen(v, a) \in Views
    BY SetsFields
  <2>3. <<>> \in Seq(Somewhat)
    OBVIOUS
  <2> QED
    BY <2>1, <2>2, <2>3, OneOnce DEF Thought, Views
<1>5. Message0.kind = "message" /\ Message0.id = None /\ Message0 # None /\ Message0 \in Somewhat
  BY Message0IsItem DEF Message0
<1>6. \A x \in ToSet(t) : x.kind = "reasoning" /\ x.id = None
  BY <1>3, <1>4
<1>7. ~b.err
  OBVIOUS
<1> HIDE DEF b, s, d, t
<1>8. ToSet(<<>>) = {} /\ Once(<<>>) /\ ToSet(<<Message0>>) = {Message0} /\ Once(<<Message0>>)
      /\ <<Message0>> \in Seq(Somewhat)
  BY <1>5, OneOnce
<1>9. CASE f.reason # "tool_calls"
  <2> DEFINE m == t \o <<Message0>>
  <2>1. /\ ~b.open /\ ~b.thinking /\ b.calls = <<>>
        /\ Shows(v, a, b, IF a.open THEN {} ELSE {Message0}, m)
    BY <1>1, <1>2, <1>3, <1>7, <1>9, FinishIs DEF Breaks, t
  <2>2. m \in Seq(Somewhat) /\ ToSet(m) = ToSet(t) \cup {Message0} /\ Once(m)
    <3>1. ToSet(t) \cap ToSet(<<Message0>>) = {}
      <4>1. Message0 \notin ToSet(t)
        BY <1>5, <1>6
      <4> QED
        BY <1>8, <4>1
    <3> DEFINE l == <<Message0>>
    <3>2. l \in Seq(Somewhat) /\ ToSet(l) = {Message0} /\ Once(l) /\ ToSet(t) \cap ToSet(l) = {}
      BY <1>8, <3>1
    <3> HIDE DEF l
    <3>3. t \o l \in Seq(Somewhat) /\ ToSet(t \o l) = ToSet(t) \cup {Message0} /\ Once(t \o l)
      BY <1>4, <3>2, OnceConcat
    <3> QED
      BY <3>3 DEF l
  <2> HIDE DEF m
  <2>3. d = <<>> /\ DOMAIN a.calls = {}
    BY <1>1, <1>3, <1>9
  <2>4. Seen(v, b).done = m
    BY <2>1, <2>2, <2>3 DEF Shows, d
  <2>5. Opened(a) = {x \in {Message0} : a.open} \cup ToSet(t)
    BY <1>4, <2>3 DEF Opened
  <2>6. Opened(b) = {}
    BY <2>1 DEF Opened
  <2>7. Seen(v, b).added = ToSet(m) \cup Opened(b)
    <3>1. Seen(v, a).added = Opened(a)
      BY <1>3, <1>8, <2>3
    <3> QED
      BY <2>1, <2>2, <2>5, <2>6, <3>1 DEF Shows
  <2>8. Orderly(s, b, Seen(v, b))
    BY <1>1, <2>1, <2>2, <2>4, <2>6, <2>7 DEF Orderly
  <2> QED
    BY <2>8 DEF b, s
<1>10. CASE f.reason = "tool_calls"
  <2>1. ~a.open
    BY <1>1, <1>3, <1>10
  <2>2. PICK c \in Seq(Somewhat) :
          /\ ~b.open /\ ~b.thinking /\ b.calls = <<>>
          /\ Shows(v, a, b, {}, t \o c)
          /\ ToSet(c) = {a.calls[i].item : i \in DOMAIN a.calls}
          /\ Distinct(Range(a.calls)) => Once(c)
    BY <1>1, <1>2, <1>7, <1>10, <2>1, FinishIs DEF Breaks, t
  <2>3. Distinct(Range(a.calls))
    <3>1. \A i, j \in DOMAIN a.calls : a.calls[i].item = a.calls[j].item => i = j
      BY <1>3 DEF CallsMatch
    <3> QED
      BY <3>1 DEF Distinct, Range
  <2>4. \A x \in ToSet(c) : x.id # None
    BY <1>3, <2>2 DEF CallsMatch
  <2>5. t \o c \in Seq(Somewhat) /\ ToSet(t \o c) = ToSet(t) \cup ToSet(c) /\ Once(t \o c)
    <3>1. ToSet(t) \cap ToSet(c) = {}
      BY <1>6, <2>4
    <3> QED
      BY <1>4, <2>2, <2>3, <3>1, OnceConcat
  <2> DEFINE n == t \o c
             m == d \o n
  <2> HIDE DEF n
  <2>6. m \in Seq(Somewhat) /\ ToSet(m) = ToSet(d) \cup ToSet(n) /\ Once(m)
    <3>1. n \in Seq(Somewhat) /\ Once(n)
      BY <2>5 DEF n
    <3>2. ToSet(d) \cap ToSet(n) = {}
      BY <1>3, <1>5, <1>6, <2>4, <2>5 DEF n
    <3>3. d \in Seq(Somewhat) /\ Once(d)
      BY <1>3, <1>4
    <3> QED
      BY <3>1, <3>2, <3>3, OnceConcat
  <2>7. Seen(v, b).done = m /\ Seen(v, b).added = Seen(v, a).added
    BY <2>2 DEF Shows, d, n
  <2> HIDE DEF m
  <2>8. Opened(a) = ToSet(n)
    BY <1>4, <2>1, <2>2, <2>5 DEF Opened, n
  <2>9. Opened(b) = {}
    BY <2>2 DEF Opened
  <2>10. Seen(v, b).added = ToSet(m) \cup Opened(b)
    BY <1>3, <2>6, <2>7, <2>8, <2>9
  <2>11. Orderly(s, b, Seen(v, b))
    BY <1>1, <2>2, <2>6, <2>7, <2>9, <2>10 DEF Orderly
  <2> QED
    BY <2>11 DEF b, s
<1> QED
  BY <1>9, <1>10

LEMMA OrderlyStep ==
  ASSUME NEW v \in Views, NEW a \in Adapters, ~a.err, NEW u \in Upstreams, NEW f \in ChatFrames,
         InOrder(u, f), Orderly(u, a, Seen(v, a)), ~Accept(a, f).err
  PROVE  Orderly(Streamed(u, f), Accept(a, f), Seen(v, Accept(a, f)))
<1>1. f.k \in {"reasoning", "content", "tool", "finish", "DONE"}
  BY InOrderIs
<1>2. CASE f.k = "DONE"
  <2> DEFINE b == Accept(a, f)
             s == Streamed(u, f)
  <2>1. u.rank = 4 /\ s.rank = 5
    BY <1>2, InOrderIs
  <2>2. Closes(v, a, b)
    BY <1>2, AcceptIs DEF Breaks
  <2> HIDE DEF b, s
  <2>3. b.open = a.open /\ b.thinking = a.thinking /\ b.reasoning = a.reasoning
        /\ b.calls = a.calls
    BY <2>2 DEF Closes, SameBut, Adapters
  <2>4. Opened(b) = Opened(a)
    BY <2>3 DEF Opened
  <2>5. Orderly(s, b, Seen(v, b))
    BY <2>1, <2>2, <2>3, <2>4 DEF Closes, Orderly
  <2> QED
    BY <2>5 DEF b, s
<1> QED
  BY <1>1, <1>2, OrderlyContent, OrderlyReasoning, OrderlyTool, OrderlyFinish

-----------------------------------------------------------------------------
(* A read of the upstream, frame by frame.                                 *)


\* FoldLeft(Accept, b, s) goes through s from its first element to its last.
AcceptIter(g, b, s, n) ==
  g = [A \in SUBSET (1..n) |->
         IF A = {} THEN b ELSE Accept(g[A \ {Max(A)}], s[Max(A)])]

LEMMA AcceptIterates ==
  ASSUME NEW b, NEW s, NEW n \in Nat
  PROVE  \E g : AcceptIter(g, b, s, n)
<1> DEFINE T == {k \in Nat : \E g : AcceptIter(g, b, s, k)}
<1>1. 0 \in T
  <2>1. AcceptIter([A \in SUBSET (1..0) |-> b], b, s, 0)
    BY EmptyRange DEF AcceptIter
  <2> QED
    BY <2>1
<1>2. ASSUME NEW k \in Nat, k \in T
      PROVE  k + 1 \in T
  <2>1. PICK g : AcceptIter(g, b, s, k)
    BY <1>2
  <2> DEFINE h == [A \in SUBSET (1..(k + 1)) |->
                     IF k + 1 \in A THEN Accept(g[A \ {k + 1}], s[k + 1]) ELSE g[A]]
  <2>2. ASSUME NEW A \in SUBSET (1..(k + 1)), A # {}
        PROVE  h[A] = Accept(h[A \ {Max(A)}], s[Max(A)])
    <3>1. CASE k + 1 \in A
      BY <2>2, <3>1, NextMax
    <3>2. CASE k + 1 \notin A
      <4>1. A \in SUBSET (1..k) /\ A \ {Max(A)} \in SUBSET (1..k) /\ k + 1 \notin A \ {Max(A)}
        BY <3>2, NextMax
      <4>2. g[A] = Accept(g[A \ {Max(A)}], s[Max(A)])
        BY <2>1, <2>2, <4>1 DEF AcceptIter
      <4> QED
        BY <3>2, <4>1, <4>2
    <3> QED
      BY <3>1, <3>2
  <2>3. h[{}] = b
    BY <2>1 DEF AcceptIter
  <2>4. AcceptIter(h, b, s, k + 1)
    BY <2>2, <2>3 DEF AcceptIter
  <2> QED
    BY <2>4
<1> HIDE DEF T
<1>3. Nat \subseteq T
  BY <1>1, <1>2, HoldsAllNaturals
<1> QED
  BY <1>3 DEF T

AcceptTraces(f, b, s, n) ==
  f[0] = b /\ \A i \in 1..n : f[i] = Accept(f[i - 1], s[i])

LEMMA AcceptTrace ==
  ASSUME NEW b, NEW s, NEW n \in Nat, DOMAIN s = 1..n
  PROVE  \E f : AcceptTraces(f, b, s, n) /\ FoldLeft(Accept, b, s) = f[n]
<1> DEFINE g == CHOOSE g : AcceptIter(g, b, s, n)
<1>1. AcceptIter(g, b, s, n)
  BY AcceptIterates
<1>2. FoldLeft(Accept, b, s) = g[1..n]
  BY DEF FoldLeft, MapThenFoldSet, AcceptIter
<1> HIDE DEF g
<1> DEFINE f == [i \in 0..n |-> g[1..i]]
<1>3. f[0] = b
  BY <1>1, EmptyRange DEF AcceptIter
<1>4. ASSUME NEW i \in 1..n
      PROVE  f[i] = Accept(f[i - 1], s[i])
  <2>1. 1..i \in SUBSET (1..n) /\ 1..i # {} /\ Max(1..i) = i /\ (1..i) \ {i} = 1..(i - 1)
    BY RangeMax
  <2>2. g[1..i] = Accept(g[(1..i) \ {Max(1..i)}], s[Max(1..i)])
    BY <1>1, <2>1 DEF AcceptIter
  <2>3. i \in 0..n /\ i - 1 \in 0..n
    OBVIOUS
  <2> QED
    BY <2>1, <2>2, <2>3
<1>5. f[n] = g[1..n]
  OBVIOUS
<1> HIDE DEF f
<1> QED
  BY <1>2, <1>3, <1>4, <1>5 DEF AcceptTraces

LEMMA AcceptFolds ==
  ASSUME NEW b, NEW s, NEW n \in Nat, DOMAIN s = 1..n, NEW f, AcceptTraces(f, b, s, n)
  PROVE  FoldLeft(Accept, b, s) = f[n]
<1>1. PICK g : AcceptTraces(g, b, s, n) /\ FoldLeft(Accept, b, s) = g[n]
  BY AcceptTrace
<1> DEFINE T == {i \in Nat : i <= n => f[i] = g[i]}
<1>2. 0 \in T
  BY <1>1 DEF AcceptTraces
<1>3. ASSUME NEW i \in Nat, i \in T
      PROVE  i + 1 \in T
  <2> SUFFICES ASSUME i + 1 <= n
               PROVE  f[i + 1] = g[i + 1]
    OBVIOUS
  <2>1. i + 1 \in 1..n /\ (i + 1) - 1 = i /\ f[i] = g[i]
    BY <1>3
  <2> QED
    BY <1>1, <2>1 DEF AcceptTraces
<1> HIDE DEF T
<1>4. n \in T
  BY <1>2, <1>3, HoldsAllNaturals
<1> QED
  BY <1>1, <1>4 DEF T


\* FoldLeft(After, b, s) goes through s from its first element to its last.
AfterIter(g, b, s, n) ==
  g = [A \in SUBSET (1..n) |->
         IF A = {} THEN b ELSE After(g[A \ {Max(A)}], s[Max(A)])]

LEMMA AfterIterates ==
  ASSUME NEW b, NEW s, NEW n \in Nat
  PROVE  \E g : AfterIter(g, b, s, n)
<1> DEFINE T == {k \in Nat : \E g : AfterIter(g, b, s, k)}
<1>1. 0 \in T
  <2>1. AfterIter([A \in SUBSET (1..0) |-> b], b, s, 0)
    BY EmptyRange DEF AfterIter
  <2> QED
    BY <2>1
<1>2. ASSUME NEW k \in Nat, k \in T
      PROVE  k + 1 \in T
  <2>1. PICK g : AfterIter(g, b, s, k)
    BY <1>2
  <2> DEFINE h == [A \in SUBSET (1..(k + 1)) |->
                     IF k + 1 \in A THEN After(g[A \ {k + 1}], s[k + 1]) ELSE g[A]]
  <2>2. ASSUME NEW A \in SUBSET (1..(k + 1)), A # {}
        PROVE  h[A] = After(h[A \ {Max(A)}], s[Max(A)])
    <3>1. CASE k + 1 \in A
      BY <2>2, <3>1, NextMax
    <3>2. CASE k + 1 \notin A
      <4>1. A \in SUBSET (1..k) /\ A \ {Max(A)} \in SUBSET (1..k) /\ k + 1 \notin A \ {Max(A)}
        BY <3>2, NextMax
      <4>2. g[A] = After(g[A \ {Max(A)}], s[Max(A)])
        BY <2>1, <2>2, <4>1 DEF AfterIter
      <4> QED
        BY <3>2, <4>1, <4>2
    <3> QED
      BY <3>1, <3>2
  <2>3. h[{}] = b
    BY <2>1 DEF AfterIter
  <2>4. AfterIter(h, b, s, k + 1)
    BY <2>2, <2>3 DEF AfterIter
  <2> QED
    BY <2>4
<1> HIDE DEF T
<1>3. Nat \subseteq T
  BY <1>1, <1>2, HoldsAllNaturals
<1> QED
  BY <1>3 DEF T

AfterTraces(f, b, s, n) ==
  f[0] = b /\ \A i \in 1..n : f[i] = After(f[i - 1], s[i])

LEMMA AfterTrace ==
  ASSUME NEW b, NEW s, NEW n \in Nat, DOMAIN s = 1..n
  PROVE  \E f : AfterTraces(f, b, s, n) /\ FoldLeft(After, b, s) = f[n]
<1> DEFINE g == CHOOSE g : AfterIter(g, b, s, n)
<1>1. AfterIter(g, b, s, n)
  BY AfterIterates
<1>2. FoldLeft(After, b, s) = g[1..n]
  BY DEF FoldLeft, MapThenFoldSet, AfterIter
<1> HIDE DEF g
<1> DEFINE f == [i \in 0..n |-> g[1..i]]
<1>3. f[0] = b
  BY <1>1, EmptyRange DEF AfterIter
<1>4. ASSUME NEW i \in 1..n
      PROVE  f[i] = After(f[i - 1], s[i])
  <2>1. 1..i \in SUBSET (1..n) /\ 1..i # {} /\ Max(1..i) = i /\ (1..i) \ {i} = 1..(i - 1)
    BY RangeMax
  <2>2. g[1..i] = After(g[(1..i) \ {Max(1..i)}], s[Max(1..i)])
    BY <1>1, <2>1 DEF AfterIter
  <2>3. i \in 0..n /\ i - 1 \in 0..n
    OBVIOUS
  <2> QED
    BY <2>1, <2>2, <2>3
<1>5. f[n] = g[1..n]
  OBVIOUS
<1> HIDE DEF f
<1> QED
  BY <1>2, <1>3, <1>4, <1>5 DEF AfterTraces

LEMMA AfterFolds ==
  ASSUME NEW b, NEW s, NEW n \in Nat, DOMAIN s = 1..n, NEW f, AfterTraces(f, b, s, n)
  PROVE  FoldLeft(After, b, s) = f[n]
<1>1. PICK g : AfterTraces(g, b, s, n) /\ FoldLeft(After, b, s) = g[n]
  BY AfterTrace
<1> DEFINE T == {i \in Nat : i <= n => f[i] = g[i]}
<1>2. 0 \in T
  BY <1>1 DEF AfterTraces
<1>3. ASSUME NEW i \in Nat, i \in T
      PROVE  i + 1 \in T
  <2> SUFFICES ASSUME i + 1 <= n
               PROVE  f[i + 1] = g[i + 1]
    OBVIOUS
  <2>1. i + 1 \in 1..n /\ (i + 1) - 1 = i /\ f[i] = g[i]
    BY <1>3
  <2> QED
    BY <1>1, <2>1 DEF AfterTraces
<1> HIDE DEF T
<1>4. n \in T
  BY <1>2, <1>3, HoldsAllNaturals
<1> QED
  BY <1>1, <1>4 DEF T

\* All events but the last leave the answer open.
Leads(events) == \A i \in DOMAIN events : i # Len(events) => events[i].type \notin Endings

Failed(a) == \E e \in Events : e.type = "failed" /\ a.failures = <<e>>

\* Between two reads: w is what Codex makes of all it is sent.
Alive(u, a, w) ==
  /\ a \in Adapters /\ u \in Upstreams /\ ~a.err
  /\ ~u.overrun => /\ a.failures = <<>>
                   /\ IF u.rank = 5 THEN a.state = "completed" /\ w.terminals = <<a.status>>
                      ELSE ~IsOver(a) /\ w.terminals = <<>>
  /\ ~u.odd => ~u.overrun /\ Orderly(u, a, w)

\* Within a read, of which v is the start.
Within(v, u, a) ==
  /\ a \in Adapters /\ u \in Upstreams
  /\ a.err => a.out = <<>>
  /\ ~u.overrun => IF a.err THEN Failed(a)
                   ELSE /\ a.failures = <<>>
                        /\ IF u.rank = 5
                           THEN /\ a.state = "completed" /\ Leads(a.out)
                                /\ Seen(v, a).terminals = <<a.status>>
                           ELSE ~IsOver(a) /\ Quiet(a.out)
  /\ ~u.odd => ~u.overrun /\ (~a.err => Orderly(u, a, Seen(v, a)))

LEMMA WithinStep ==
  ASSUME NEW v \in Views, v.terminals = <<>>, NEW u, NEW a, Within(v, u, a),
         NEW f \in ChatFrames
  PROVE  /\ Within(v, Streamed(u, f), Accept(a, f))
         /\ ~Streamed(u, f).overrun => ~u.overrun /\ u.rank # 5
<1> DEFINE b == Accept(a, f)
           s == Streamed(u, f)
<1>1. a \in Adapters /\ u \in Upstreams
  BY DEF Within
<1>2. /\ s \in Upstreams /\ (s.odd <=> u.odd \/ ~InOrder(u, f))
      /\ (s.overrun <=> u.overrun \/ u.rank = 5)
      /\ s.rank = (IF Rank(f) > u.rank THEN Rank(f) ELSE u.rank)
      /\ u.rank \in 0..5
  BY <1>1, StreamedIs DEF Upstreams
<1>3. s.rank = 5 <=> u.rank = 5 \/ f.k = "DONE"
  BY <1>2 DEF Rank
<1>4. ~s.odd => ~u.odd /\ InOrder(u, f) /\ u.rank # 5 /\ ~u.overrun /\ ~s.overrun
  <2>1. ASSUME InOrder(u, f)
        PROVE  u.rank # 5
    BY <1>1, <1>2, <2>1, InOrderIs
  <2> QED
    BY <1>2, <2>1 DEF Within
<1>5. CASE a.err
  <2>1. b = a
    BY <1>5 DEF Accept
  <2> HIDE DEF b, s
  <2>2. Within(v, s, b)
    BY <1>1, <1>2, <1>4, <1>5, <2>1 DEF Within
  <2> QED
    BY <1>2, <2>2 DEF b, s
<1>6. CASE ~a.err
  <2>1. ~s.odd /\ ~b.err => Orderly(s, b, Seen(v, b))
    BY <1>1, <1>4, <1>6, OrderlyStep DEF Within
  <2>2. \/ Breaks(a, b)
        \/ Goes(a, b) /\ Seen(v, b) \in Views /\ f.k # "DONE"
        \/ Closes(v, a, b) /\ f.k = "DONE"
    BY <1>1, <1>6, AcceptIs
  <2> HIDE DEF b, s
  <2>3. ~s.overrun => ~u.overrun /\ u.rank # 5 /\ a.failures = <<>> /\ ~IsOver(a) /\ Quiet(a.out)
    BY <1>2, <1>6 DEF Within
  <2>4. CASE Breaks(a, b)
    <3>1. ~s.overrun => Failed(b)
      BY <2>3, <2>4 DEF Breaks, Failed
    <3> QED
      BY <1>2, <1>4, <2>4, <3>1 DEF Within, Breaks, b, s
  <2>5. CASE Goes(a, b) /\ f.k # "DONE"
    <3>1. ~s.overrun => s.rank # 5 /\ b.failures = <<>> /\ ~IsOver(b) /\ Quiet(b.out)
      BY <1>3, <2>3, <2>5 DEF Goes
    <3>2. b \in Adapters /\ ~b.err
      BY <2>5 DEF Goes
    <3>3. Within(v, s, b)
      BY <1>2, <1>4, <2>1, <3>1, <3>2 DEF Within
    <3> QED
      BY <1>2, <3>3 DEF b, s
  <2>6. CASE Closes(v, a, b) /\ f.k = "DONE"
    <3>1. ~s.overrun => s.rank = 5 /\ b.failures = <<>>
      BY <1>3, <2>3, <2>6 DEF Closes
    <3>2. b \in Adapters /\ ~b.err /\ b.state = "completed"
      BY <2>6 DEF Closes
    <3>3. ~s.overrun => Leads(b.out)
      BY <2>3, <2>6 DEF Closes, Leads, Quiet
    <3>4. ~s.overrun => Seen(v, b).terminals = <<b.status>>
      <4>1. ~s.overrun => Seen(v, a).terminals = <<>>
        <5> DEFINE o == a.out
        <5>1. o \in Seq(Events)
          BY <1>1 DEF Adapters
        <5> HIDE DEF o
        <5>2. Quiet(o) => FoldLeft(View, v, o).terminals = v.terminals
          BY <5>1, ViewOfEvents
        <5> QED
          BY <2>3, <5>2 DEF o, Seen
      <4>2. Append(<<>>, b.status) = <<b.status>>
        OBVIOUS
      <4> QED
        BY <2>6, <4>1, <4>2 DEF Closes
    <3>5. Within(v, s, b)
      BY <1>2, <1>4, <2>1, <3>1, <3>2, <3>3, <3>4 DEF Within
    <3> QED
      BY <1>2, <3>5 DEF b, s
  <2> QED
    BY <2>2, <2>4, <2>5, <2>6
<1> QED
  BY <1>5, <1>6

LEMMA ReadIs ==
  ASSUME NEW u, NEW a, NEW v \in Views, Alive(u, a, v), req.route # "passthrough",
         NEW frames \in Seq(ChatFrames), frames # <<>>
  PROVE  LET b == PushBytes(a, frames)
             w == Upstream(u, frames)
         IN  /\ b \in Adapters /\ w \in Upstreams
             /\ w.odd \/ ~w.overrun
             /\ ~w.overrun => ~u.overrun /\ u.rank # 5 /\ v.terminals = <<>>
             /\ IF b.err THEN ~w.overrun => Failed(b)
                ELSE Alive(w, b, Seen(v, b)) /\ (~w.overrun => Leads(b.out))
<1> DEFINE n == Len(frames)
           c == [a EXCEPT !.out = <<>>]
           b == PushBytes(a, frames)
           w == Upstream(u, frames)
<1>1. /\ n \in Nat /\ n >= 1 /\ DOMAIN frames = 1..n /\ n \in 1..n
      /\ \A i \in 1..n : frames[i] \in ChatFrames
  OBVIOUS
<1>2. a \in Adapters /\ u \in Upstreams /\ ~a.err
  BY DEF Alive
<1>3. /\ c \in Adapters /\ ~c.err /\ c.out = <<>> /\ c.failures = a.failures
      /\ c.state = a.state /\ c.status = a.status /\ c.open = a.open
      /\ c.thinking = a.thinking /\ c.reasoning = a.reasoning /\ c.calls = a.calls
      /\ c.ids = a.ids
  <2>1. <<>> \in Seq(Events)
    OBVIOUS
  <2> QED
    BY <1>2, <2>1 DEF Adapters
<1> HIDE DEF c, n
<1>4. Seen(v, c) = v
  BY <1>3, ViewEmpty DEF Seen
<1>5. ~u.overrun /\ u.rank # 5 => Within(v, u, c) /\ v.terminals = <<>> /\ ~IsOver(a)
  <2>1. Opened(c) = Opened(a)
    BY <1>3 DEF Opened
  <2>2. ~u.odd => Orderly(u, c, v)
    BY <1>3, <2>1 DEF Alive, Orderly, CallsMatch
  <2>3. Quiet(c.out)
    BY <1>3 DEF Quiet
  <2> QED
    BY <1>2, <1>3, <1>4, <2>2, <2>3 DEF Alive, Within, IsOver
<1>6. PICK x : AfterTraces(x, u, frames, n) /\ FoldLeft(After, u, frames) = x[n]
  BY <1>1, AfterTrace
<1>7. PICK y : AcceptTraces(y, c, frames, n) /\ FoldLeft(Accept, c, frames) = y[n]
  BY <1>1, AcceptTrace
<1>8. x[0] = u /\ y[0] = c /\ w = x[n]
  BY <1>6, <1>7 DEF AfterTraces, AcceptTraces, Upstream
<1>9. ASSUME NEW i \in Nat, i + 1 <= n
      PROVE  /\ i + 1 \in 1..n /\ (i + 1) - 1 = i /\ frames[i + 1] \in ChatFrames
             /\ x[i + 1] = Streamed(x[i], frames[i + 1])
             /\ y[i + 1] = Accept(y[i], frames[i + 1])
  <2>1. i + 1 \in 1..n /\ (i + 1) - 1 = i
    BY <1>1, <1>9
  <2> QED
    BY <1>1, <1>6, <1>7, <2>1 DEF AfterTraces, AcceptTraces, After
<1> DEFINE S == {i \in Nat : i <= n =>
                    /\ x[i] \in Upstreams
                    /\ i > 0 => x[i].odd \/ ~x[i].overrun
                    /\ i > 0 /\ ~x[i].overrun => ~u.overrun /\ u.rank # 5}
<1>10. 0 \in S
  BY <1>2, <1>8
<1>11. ASSUME NEW i \in Nat, i \in S
       PROVE  i + 1 \in S
  <2> SUFFICES ASSUME i + 1 <= n
               PROVE  /\ x[i + 1] \in Upstreams
                      /\ x[i + 1].odd \/ ~x[i + 1].overrun
                      /\ ~x[i + 1].overrun => ~u.overrun /\ u.rank # 5
    OBVIOUS
  <2> DEFINE f == frames[i + 1]
             p == x[i]
             s == x[i + 1]
  <2>1. p \in Upstreams /\ f \in ChatFrames /\ s = Streamed(p, f)
    BY <1>1, <1>9, <1>11
  <2>2. (i > 0 => p.odd \/ ~p.overrun) /\ (i > 0 /\ ~p.overrun => ~u.overrun /\ u.rank # 5)
    BY <1>1, <1>11
  <2>3. i = 0 => p = u
    BY <1>8
  <2> HIDE DEF f, p, s
  <2>4. /\ s \in Upstreams /\ (s.odd <=> p.odd \/ ~InOrder(p, f))
        /\ (s.overrun <=> p.overrun \/ p.rank = 5)
    BY <2>1, StreamedIs
  <2>5. InOrder(p, f) => p.rank # 5
    BY <2>1, InOrderIs DEF Upstreams
  <2>6. u.odd \/ ~u.overrun
    BY DEF Alive
  <2> QED
    BY <2>2, <2>3, <2>4, <2>5, <2>6 DEF s
<1> HIDE DEF S
<1>12. n \in S
  BY <1>1, <1>10, <1>11, HoldsAllNaturals
<1>13. w \in Upstreams /\ (w.odd \/ ~w.overrun) /\ (~w.overrun => ~u.overrun /\ u.rank # 5)
  BY <1>1, <1>8, <1>12 DEF S
<1> HIDE DEF b, w
<1>14. CASE IsOver(a)
  <2>1. b = [a EXCEPT !.err = TRUE, !.out = <<>>]
    BY <1>14 DEF PushBytes, b
  <2>2. b \in Adapters /\ b.err
    <3>1. <<>> \in Seq(Events)
      OBVIOUS
    <3> QED
      BY <1>2, <2>1, <3>1 DEF Adapters
  <2> QED
    BY <1>5, <1>13, <1>14, <2>2 DEF b, w
<1>15. CASE ~IsOver(a) /\ \E i \in DOMAIN frames : frames[i].k = "malformed"
  <2>1. b = Fail(c)
    BY <1>15 DEF PushBytes, b, c
  <2>2. Breaks(c, b)
    BY <1>3, <2>1, FailBreaks
  <2>3. ~w.overrun => Failed(b)
    <3>1. ~w.overrun => ~IsOver(c) /\ c.failures = <<>>
      BY <1>3, <1>13, <1>15 DEF IsOver, Alive
    <3> QED
      BY <2>2, <3>1 DEF Breaks, Failed
  <2> QED
    BY <1>5, <1>13, <2>2, <2>3 DEF Breaks, b, w
<1>16. CASE ~IsOver(a) /\ ~\E i \in DOMAIN frames : frames[i].k = "malformed"
  <2>1. b = y[n]
    BY <1>7, <1>16 DEF PushBytes, b, c
  <2>2. CASE u.overrun \/ u.rank = 5
    \* Nothing but its type is said of such a read.
    <3> DEFINE R == {i \in Nat : i <= n => y[i] \in Adapters}
    <3>1. 0 \in R
      BY <1>3, <1>8
    <3>2. ASSUME NEW i \in Nat, i \in R
          PROVE  i + 1 \in R
      <4> SUFFICES ASSUME i + 1 <= n
                   PROVE  y[i + 1] \in Adapters
        OBVIOUS
      <4> DEFINE f == frames[i + 1]
                 p == y[i]
      <4>1. p \in Adapters /\ f \in ChatFrames /\ y[i + 1] = Accept(p, f)
        BY <1>1, <1>9, <3>2
      <4> HIDE DEF f, p
      <4>2. CASE p.err
        BY <4>1, <4>2 DEF Accept
      <4>3. CASE ~p.err
        <5> DEFINE q == Accept(p, f)
        <5>1. \/ Breaks(p, q)
              \/ Goes(p, q) /\ Seen(v, q) \in Views /\ f.k # "DONE"
              \/ Closes(v, p, q) /\ f.k = "DONE"
          BY <4>1, <4>3, AcceptIs
        <5> HIDE DEF q
        <5>2. q \in Adapters
          BY <5>1 DEF Breaks, Goes, Closes
        <5> QED
          BY <4>1, <5>2 DEF q
      <4> QED
        BY <4>2, <4>3
    <3> HIDE DEF R
    <3>3. n \in R
      BY <1>1, <3>1, <3>2, HoldsAllNaturals
    <3>4. b \in Adapters
      BY <1>1, <2>1, <3>3 DEF R
    <3> QED
      BY <1>13, <2>2, <3>4 DEF Alive, b, w
  <2>3. CASE ~u.overrun /\ u.rank # 5
    <3> DEFINE R == {i \in Nat : i <= n => Within(v, x[i], y[i])}
    <3>1. 0 \in R
      BY <1>5, <1>8, <2>3
    <3>2. ASSUME NEW i \in Nat, i \in R
          PROVE  i + 1 \in R
      <4> SUFFICES ASSUME i + 1 <= n
                   PROVE  Within(v, x[i + 1], y[i + 1])
        OBVIOUS
      <4>1. Within(v, x[i], y[i])
        BY <1>1, <3>2
      <4> QED
        BY <1>5, <1>9, <2>3, <4>1, WithinStep
    <3> HIDE DEF R
    <3>3. n \in R
      BY <1>1, <3>1, <3>2, HoldsAllNaturals
    <3>4. Within(v, w, b)
      BY <1>1, <1>8, <2>1, <3>3 DEF R
    <3>5. v.terminals = <<>> /\ (Quiet(b.out) => Seen(v, b).terminals = <<>>)
      <4> DEFINE o == b.out
      <4>1. o \in Seq(Events)
        BY <3>4 DEF Within, Adapters
      <4> HIDE DEF o
      <4>2. Quiet(o) => FoldLeft(View, v, o).terminals = v.terminals
        BY <4>1, ViewOfEvents
      <4> QED
        BY <1>5, <2>3, <4>2 DEF o, Seen
    <3>6. Quiet(b.out) => Leads(b.out)
      BY DEF Quiet, Leads
    <3>7. ~b.err => Alive(w, b, Seen(v, b)) /\ (~w.overrun => Leads(b.out))
      BY <3>4, <3>5, <3>6 DEF Within, Alive
    <3> QED
      BY <1>13, <3>4, <3>5, <3>7 DEF Within, b, w
  <2> QED
    BY <2>2, <2>3
<1> QED
  BY <1>14, <1>15, <1>16

-----------------------------------------------------------------------------
(* The reads of an upstream.                                               *)

LEMMA ReadsAre ==
  ASSUME NEW u, NEW frames \in Reads(u)
  PROVE  /\ frames \in Seq(Frames) /\ frames # <<>> /\ Len(frames) <= MaxRead
         /\ \E x : /\ AfterTraces(x, u, frames, Len(frames))
                   /\ Upstream(u, frames) = x[Len(frames)]
                   /\ \A i \in 1..Len(frames) : MayFollow(x[i - 1], frames[i])
<1>1. PICK n \in 1..MaxRead : frames \in [1..n -> Frames]
  BY DEF Reads
<1>2. frames \in Seq(Frames) /\ Len(frames) = n /\ n \in Nat /\ n >= 1 /\ n <= MaxRead
  <2>1. n \in Nat /\ n >= 1 /\ n <= MaxRead
    BY StreamAssumption
  <2>2. frames \in Seq(Frames)
    BY <1>1, <2>1, SeqDef
  <2>3. DOMAIN frames = 1..n /\ DOMAIN frames = 1..Len(frames) /\ Len(frames) \in Nat
    BY <1>1, <2>2
  <2> QED
    BY <2>1, <2>2, <2>3
<1>3. PICK x : AfterTraces(x, u, frames, n) /\ FoldLeft(After, u, frames) = x[n]
  BY <1>1, <1>2, AfterTrace
<1>4. ASSUME NEW i \in 1..n
      PROVE  MayFollow(x[i - 1], frames[i])
  <2> DEFINE s == SubSeq(frames, 1, i - 1)
             m == i - 1
  <2>1. MayFollow(Upstream(u, s), frames[i])
    BY <1>1 DEF Reads
  <2>2. m \in Nat /\ DOMAIN s = 1..m /\ \A j \in 1..m : s[j] = frames[j] /\ j \in 1..n
    BY <1>2
  <2> HIDE DEF s
  <2>3. AfterTraces(x, u, s, m)
    BY <1>3, <2>2 DEF AfterTraces
  <2> HIDE DEF m
  <2>4. FoldLeft(After, u, s) = x[m]
    BY <2>2, <2>3, AfterFolds
  <2> QED
    BY <2>1, <2>4 DEF Upstream, m
<1>5. frames # <<>>
  BY <1>2
<1> QED
  BY <1>2, <1>3, <1>4, <1>5 DEF Upstream

LEMMA NativeIs ==
  ASSUME NEW u \in Upstreams, NEW f \in NativeFrames
  PROVE  LET s == StreamedNative(u, f)
         IN  /\ s \in Upstreams /\ s.n = u.n + 1
             /\ f.k = "event" => s.rank = 1
             /\ f.k = "head" => s.rank = 2
             /\ f.k \in {"terminal", "tail"} => s.rank = 3
             /\ f.k = "DONE" => s.rank = 4
             /\ s.odd <=> (u.odd \/ f.k = "tail")
             /\ s.overrun <=> (u.overrun \/ u.rank = 3)
             /\ f.k \in {"event", "terminal", "DONE", "head", "tail"}
<1>1. f.k \in {"event", "terminal", "DONE", "head", "tail"}
  BY DEF NativeFrames, Frame
<1> DEFINE n == u.n + 1
           rank == CASE f.k = "event" -> 1 [] f.k = "head" -> 2
                     [] f.k \in {"terminal", "tail"} -> 3 [] OTHER -> 4
           odd == u.odd \/ f.k = "tail"
           overrun == u.overrun \/ u.rank = 3
<1>2. StreamedNative(u, f)
        = [u EXCEPT !.n = n, !.rank = rank, !.odd = odd, !.overrun = overrun]
  BY DEF StreamedNative, Upstreams
<1>3. n \in Nat /\ odd \in BOOLEAN /\ overrun \in BOOLEAN
  BY DEF Upstreams
<1>4. /\ f.k = "event" => rank = 1
      /\ f.k = "head" => rank = 2
      /\ f.k \in {"terminal", "tail"} => rank = 3
      /\ f.k = "DONE" => rank = 4
  OBVIOUS
<1>5. rank \in 0..5
  BY <1>1, <1>4
<1> HIDE DEF n, rank, odd, overrun
<1>6. /\ StreamedNative(u, f) \in Upstreams /\ StreamedNative(u, f).n = n
      /\ StreamedNative(u, f).rank = rank /\ StreamedNative(u, f).odd = odd
      /\ StreamedNative(u, f).overrun = overrun
  BY <1>2, <1>3, <1>5 DEF Upstreams
<1> QED
  BY <1>1, <1>4, <1>6 DEF n, odd, overrun

\* The upstream never streams more than it may.
LEMMA UpstreamIsBounded ==
  ASSUME NEW u \in Upstreams, NEW frames \in Reads(u)
  PROVE  Upstream(u, frames) \in Upstreams /\ Upstream(u, frames).n <= MaxFrames
<1> DEFINE n == Len(frames)
<1>1. frames \in Seq(Frames) /\ frames # <<>>
  BY ReadsAre
<1>2. n \in Nat /\ n >= 1 /\ n - 1 \in Nat /\ (n - 1) + 1 = n /\ n \in 1..n
      /\ \A i \in 1..n : frames[i] \in Frames
  BY <1>1
<1>3. PICK x : /\ AfterTraces(x, u, frames, n) /\ Upstream(u, frames) = x[n]
               /\ \A i \in 1..n : MayFollow(x[i - 1], frames[i])
  BY ReadsAre
<1> HIDE DEF n
<1> DEFINE T == {i \in Nat : i <= n => x[i] \in Upstreams /\ x[i].n = u.n + i}
<1>4. u.n \in Nat
  BY DEF Upstreams
<1>5. 0 \in T
  BY <1>3, <1>4 DEF AfterTraces
<1>6. ASSUME NEW i \in Nat, i \in T
      PROVE  i + 1 \in T
  <2> SUFFICES ASSUME i + 1 <= n
               PROVE  x[i + 1] \in Upstreams /\ x[i + 1].n = u.n + (i + 1)
    OBVIOUS
  <2> DEFINE p == x[i]
             f == frames[i + 1]
  <2>1. i + 1 \in 1..n /\ (i + 1) - 1 = i /\ p \in Upstreams /\ p.n = u.n + i
    BY <1>2, <1>6
  <2>2. f \in Frames /\ x[i + 1] = After(p, f)
    BY <1>2, <1>3, <2>1 DEF AfterTraces
  <2> HIDE DEF p, f
  <2>3. After(p, f) \in Upstreams /\ After(p, f).n = p.n + 1
    <3>1. CASE req.route = "passthrough"
      BY <2>1, <2>2, <3>1, NativeIs DEF After, Frames
    <3>2. CASE req.route # "passthrough"
      BY <2>1, <2>2, <3>2, StreamedIs DEF After, Frames
    <3> QED
      BY <3>1, <3>2
  <2>4. (u.n + i) + 1 = u.n + (i + 1)
    BY <1>4
  <2> QED
    BY <2>1, <2>2, <2>3, <2>4
<1> HIDE DEF T
<1>7. Nat \subseteq T
  BY <1>5, <1>6, HoldsAllNaturals
<1>8. x[n] \in Upstreams /\ x[n].n = u.n + n /\ x[n - 1].n = u.n + (n - 1)
  BY <1>2, <1>7 DEF T
<1>9. x[n - 1].n < MaxFrames
  BY <1>2, <1>3 DEF MayFollow
<1> QED
  BY <1>2, <1>3, <1>4, <1>8, <1>9, StreamAssumption

\* A read of a native upstream, as the events of one frame.
LEMMA NativeReadIs ==
  ASSUME NEW u \in Upstreams, NEW frames \in Reads(u), req.route = "passthrough",
         ~u.odd /\ ~u.overrun => u.rank <= 3
  PROVE  LET w == Upstream(u, frames)
             n == Len(frames)
         IN  ~w.odd /\ ~w.overrun =>
               /\ ~u.odd /\ ~u.overrun /\ u.rank < 3
               /\ \A i \in 1..(n - 1) : frames[i].k \notin {"terminal", "tail"}
               /\ IF w.rank = 3 THEN frames[n].k = "terminal"
                  ELSE w.rank < 3 /\ frames[n].k \notin {"terminal", "tail"}
<1> DEFINE n == Len(frames)
           Ordinary(i) == frames[i].k \notin {"terminal", "tail"}
<1>1. frames \in Seq(NativeFrames) /\ frames # <<>>
  BY ReadsAre DEF Frames
<1>2. n \in Nat /\ n >= 1 /\ \A i \in 1..n : frames[i] \in NativeFrames
  BY <1>1
<1>3. PICK x : /\ AfterTraces(x, u, frames, n) /\ Upstream(u, frames) = x[n]
               /\ \A i \in 1..n : MayFollow(x[i - 1], frames[i])
  BY ReadsAre
<1> HIDE DEF n
<1> DEFINE T == {i \in Nat : i <= n =>
                    /\ x[i] \in Upstreams
                    /\ ~x[i].odd /\ ~x[i].overrun =>
                         /\ ~u.odd /\ ~u.overrun
                         /\ IF i = 0 THEN x[i].rank <= 3
                            ELSE /\ u.rank < 3
                                 /\ \A j \in 1..(i - 1) : Ordinary(j)
                                 /\ IF x[i].rank = 3 THEN frames[i].k = "terminal"
                                    ELSE x[i].rank < 3 /\ Ordinary(i)}
<1>4. x[0] = u
  BY <1>3 DEF AfterTraces
<1>5. 0 \in T
  BY <1>4
<1>6. ASSUME NEW i \in Nat, i \in T
      PROVE  i + 1 \in T
  <2> DEFINE p == x[i]
             f == frames[i + 1]
             s == x[i + 1]
  <2> SUFFICES ASSUME i + 1 <= n
               PROVE  /\ s \in Upstreams
                      /\ ~s.odd /\ ~s.overrun =>
                           /\ ~u.odd /\ ~u.overrun /\ u.rank < 3
                           /\ \A j \in 1..i : Ordinary(j)
                           /\ IF s.rank = 3 THEN f.k = "terminal"
                              ELSE s.rank < 3 /\ f.k \notin {"terminal", "tail"}
    OBVIOUS
  <2>1. i + 1 \in 1..n /\ (i + 1) - 1 = i /\ i <= n
    BY <1>2
  <2>2. p \in Upstreams
    BY <1>6, <2>1
  <2>3. f \in NativeFrames /\ s = StreamedNative(p, f) /\ f \in NativeNext(p)
    BY <1>2, <1>3, <2>1 DEF AfterTraces, After, MayFollow
  <2>4. ~p.odd /\ ~p.overrun =>
          /\ ~u.odd /\ ~u.overrun
          /\ i = 0 => p = u /\ p.rank <= 3
          /\ i > 0 => /\ u.rank < 3
                      /\ \A j \in 1..(i - 1) : Ordinary(j)
                      /\ p.rank # 3 => p.rank < 3 /\ Ordinary(i)
    BY <1>4, <1>6, <2>1
  <2> HIDE DEF p, f, s, Ordinary
  <2>5. /\ s \in Upstreams
        /\ f.k = "event" => s.rank = 1
        /\ f.k = "head" => s.rank = 2
        /\ f.k \in {"terminal", "tail"} => s.rank = 3
        /\ f.k = "DONE" => s.rank = 4
        /\ s.odd <=> (p.odd \/ f.k = "tail")
        /\ s.overrun <=> (p.overrun \/ p.rank = 3)
        /\ f.k \in {"event", "terminal", "DONE", "head", "tail"}
    BY <2>2, <2>3, NativeIs
  <2>6. p.rank \in 0..5 /\ u.rank \in 0..5
    BY <2>2 DEF Upstreams
  <2>7. f.k = "DONE" => p.rank = 3
    BY <2>3, <2>6 DEF NativeNext, Frame
  <2>8. ASSUME ~s.odd, ~s.overrun
        PROVE  /\ ~u.odd /\ ~u.overrun /\ u.rank < 3
               /\ \A j \in 1..i : Ordinary(j)
               /\ IF s.rank = 3 THEN f.k = "terminal"
                  ELSE s.rank < 3 /\ f.k \notin {"terminal", "tail"}
    <3>1. ~p.odd /\ ~p.overrun /\ p.rank # 3 /\ f.k # "tail" /\ f.k # "DONE"
      BY <2>5, <2>7, <2>8
    <3>2. ~u.odd /\ ~u.overrun /\ u.rank < 3
      BY <2>4, <2>6, <3>1
    <3>3. \A j \in 1..i : Ordinary(j)
      <4> TAKE j \in 1..i
      <4>1. i > 0 /\ (j = i \/ j \in 1..(i - 1))
        OBVIOUS
      <4> QED
        BY <2>4, <3>1, <4>1
    <3> QED
      BY <2>5, <3>1, <3>2, <3>3
  <2> QED
    BY <2>5, <2>8
<1> HIDE DEF T
<1>7. n \in T
  BY <1>2, <1>5, <1>6, HoldsAllNaturals
<1> QED
  BY <1>2, <1>3, <1>7 DEF T, n

-----------------------------------------------------------------------------
(* The queue of frames, in events and in bytes.                            *)

\* Only the last event of a frame ends the answer, and what ends it is told.
LEMMA EndsAreTold ==
  ASSUME NEW v \in Views, NEW s \in Seq(Events)
  PROVE  /\ Leads(s) => Len(FoldLeft(View, v, s).terminals) <= Len(v.terminals) + 1
         /\ (\E i \in DOMAIN s : s[i].type \in Endings) => FoldLeft(View, v, s).terminals # <<>>
<1> DEFINE n == Len(s)
<1>1. n \in Nat /\ DOMAIN s = 1..n /\ \A i \in 1..n : s[i] \in Events
  OBVIOUS
<1>2. PICK f : ViewTraces(f, v, s, n) /\ FoldLeft(View, v, s) = f[n]
  BY <1>1, ViewTrace
<1> HIDE DEF n
<1>3. \A w \in Views : w.terminals \in Seq(Endings) /\ Len(w.terminals) \in Nat
  BY DEF Views
<1> DEFINE T == {k \in Nat : k <= n =>
                    /\ f[k] \in Views
                    /\ Leads(s) => IF k = n THEN Len(f[k].terminals) <= Len(v.terminals) + 1
                                   ELSE f[k].terminals = v.terminals
                    /\ (\E i \in 1..k : s[i].type \in Endings) => Len(f[k].terminals) >= 1}
<1>4. 0 \in T
  <2>1. f[0] = v /\ 1..0 = {}
    BY <1>2 DEF ViewTraces
  <2> QED
    BY <1>3, <2>1
<1>5. ASSUME NEW k \in Nat, k \in T
      PROVE  k + 1 \in T
  <2> DEFINE g == f[k]
             h == f[k + 1]
             e == s[k + 1]
  <2> SUFFICES ASSUME k + 1 <= n
               PROVE  /\ h \in Views
                      /\ Leads(s) => IF k + 1 = n THEN Len(h.terminals) <= Len(v.terminals) + 1
                                     ELSE h.terminals = v.terminals
                      /\ (\E i \in 1..(k + 1) : s[i].type \in Endings) => Len(h.terminals) >= 1
    OBVIOUS
  <2>1. k + 1 \in 1..n /\ (k + 1) - 1 = k /\ k <= n /\ k # n
    BY <1>1
  <2>2. /\ g \in Views
        /\ Leads(s) => g.terminals = v.terminals
        /\ (\E i \in 1..k : s[i].type \in Endings) => Len(g.terminals) >= 1
    BY <1>5, <2>1
  <2>3. e \in Events /\ h = View(g, e)
    BY <1>1, <1>2, <2>1 DEF ViewTraces
  <2>4. Leads(s) /\ k + 1 # n => e.type \notin Endings
    BY <1>1, <2>1 DEF Leads, n
  <2>5. (\E i \in 1..(k + 1) : s[i].type \in Endings)
          => e.type \in Endings \/ (\E i \in 1..k : s[i].type \in Endings)
    <3>1. \A i \in 1..(k + 1) : i = k + 1 \/ i \in 1..k
      OBVIOUS
    <3> QED
      BY <3>1
  <2> HIDE DEF g, h, e
  <2>6. h \in Views /\ h.terminals = IF e.type \in Endings THEN Append(g.terminals, e.type)
                                     ELSE g.terminals
    BY <2>2, <2>3, ViewOfEvent
  <2>7. /\ Len(g.terminals) \in Nat /\ Len(v.terminals) \in Nat
        /\ e.type \in Endings => Len(h.terminals) = Len(g.terminals) + 1
    BY <1>3, <2>2, <2>6
  <2>8. CASE e.type \in Endings
    BY <2>2, <2>4, <2>6, <2>7, <2>8
  <2>9. CASE e.type \notin Endings
    BY <2>2, <2>5, <2>6, <2>7, <2>9
  <2> QED
    BY <2>8, <2>9
<1> HIDE DEF T
<1>6. n \in T
  BY <1>1, <1>4, <1>5, HoldsAllNaturals
<1>7. /\ f[n] \in Views
      /\ Leads(s) => Len(f[n].terminals) <= Len(v.terminals) + 1
      /\ (\E i \in 1..n : s[i].type \in Endings) => Len(f[n].terminals) >= 1
  BY <1>1, <1>6 DEF T
<1>8. Len(f[n].terminals) >= 1 => f[n].terminals # <<>>
  OBVIOUS
<1> QED
  BY <1>1, <1>2, <1>7, <1>8

ViewFrame(w, frame) == FoldLeft(View, w, frame)


\* FoldLeft(ViewFrame, b, s) goes through s from its first element to its last.
ViewFrameIter(g, b, s, n) ==
  g = [A \in SUBSET (1..n) |->
         IF A = {} THEN b ELSE ViewFrame(g[A \ {Max(A)}], s[Max(A)])]

LEMMA ViewFrameIterates ==
  ASSUME NEW b, NEW s, NEW n \in Nat
  PROVE  \E g : ViewFrameIter(g, b, s, n)
<1> DEFINE T == {k \in Nat : \E g : ViewFrameIter(g, b, s, k)}
<1>1. 0 \in T
  <2>1. ViewFrameIter([A \in SUBSET (1..0) |-> b], b, s, 0)
    BY EmptyRange DEF ViewFrameIter
  <2> QED
    BY <2>1
<1>2. ASSUME NEW k \in Nat, k \in T
      PROVE  k + 1 \in T
  <2>1. PICK g : ViewFrameIter(g, b, s, k)
    BY <1>2
  <2> DEFINE h == [A \in SUBSET (1..(k + 1)) |->
                     IF k + 1 \in A THEN ViewFrame(g[A \ {k + 1}], s[k + 1]) ELSE g[A]]
  <2>2. ASSUME NEW A \in SUBSET (1..(k + 1)), A # {}
        PROVE  h[A] = ViewFrame(h[A \ {Max(A)}], s[Max(A)])
    <3>1. CASE k + 1 \in A
      BY <2>2, <3>1, NextMax
    <3>2. CASE k + 1 \notin A
      <4>1. A \in SUBSET (1..k) /\ A \ {Max(A)} \in SUBSET (1..k) /\ k + 1 \notin A \ {Max(A)}
        BY <3>2, NextMax
      <4>2. g[A] = ViewFrame(g[A \ {Max(A)}], s[Max(A)])
        BY <2>1, <2>2, <4>1 DEF ViewFrameIter
      <4> QED
        BY <3>2, <4>1, <4>2
    <3> QED
      BY <3>1, <3>2
  <2>3. h[{}] = b
    BY <2>1 DEF ViewFrameIter
  <2>4. ViewFrameIter(h, b, s, k + 1)
    BY <2>2, <2>3 DEF ViewFrameIter
  <2> QED
    BY <2>4
<1> HIDE DEF T
<1>3. Nat \subseteq T
  BY <1>1, <1>2, HoldsAllNaturals
<1> QED
  BY <1>3 DEF T

ViewFrameTraces(f, b, s, n) ==
  f[0] = b /\ \A i \in 1..n : f[i] = ViewFrame(f[i - 1], s[i])

LEMMA ViewFrameTrace ==
  ASSUME NEW b, NEW s, NEW n \in Nat, DOMAIN s = 1..n
  PROVE  \E f : ViewFrameTraces(f, b, s, n) /\ FoldLeft(ViewFrame, b, s) = f[n]
<1> DEFINE g == CHOOSE g : ViewFrameIter(g, b, s, n)
<1>1. ViewFrameIter(g, b, s, n)
  BY ViewFrameIterates
<1>2. FoldLeft(ViewFrame, b, s) = g[1..n]
  BY DEF FoldLeft, MapThenFoldSet, ViewFrameIter
<1> HIDE DEF g
<1> DEFINE f == [i \in 0..n |-> g[1..i]]
<1>3. f[0] = b
  BY <1>1, EmptyRange DEF ViewFrameIter
<1>4. ASSUME NEW i \in 1..n
      PROVE  f[i] = ViewFrame(f[i - 1], s[i])
  <2>1. 1..i \in SUBSET (1..n) /\ 1..i # {} /\ Max(1..i) = i /\ (1..i) \ {i} = 1..(i - 1)
    BY RangeMax
  <2>2. g[1..i] = ViewFrame(g[(1..i) \ {Max(1..i)}], s[Max(1..i)])
    BY <1>1, <2>1 DEF ViewFrameIter
  <2>3. i \in 0..n /\ i - 1 \in 0..n
    OBVIOUS
  <2> QED
    BY <2>1, <2>2, <2>3
<1>5. f[n] = g[1..n]
  OBVIOUS
<1> HIDE DEF f
<1> QED
  BY <1>2, <1>3, <1>4, <1>5 DEF ViewFrameTraces

LEMMA ViewFrameFolds ==
  ASSUME NEW b, NEW s, NEW n \in Nat, DOMAIN s = 1..n, NEW f, ViewFrameTraces(f, b, s, n)
  PROVE  FoldLeft(ViewFrame, b, s) = f[n]
<1>1. PICK g : ViewFrameTraces(g, b, s, n) /\ FoldLeft(ViewFrame, b, s) = g[n]
  BY ViewFrameTrace
<1> DEFINE T == {i \in Nat : i <= n => f[i] = g[i]}
<1>2. 0 \in T
  BY <1>1 DEF ViewFrameTraces
<1>3. ASSUME NEW i \in Nat, i \in T
      PROVE  i + 1 \in T
  <2> SUFFICES ASSUME i + 1 <= n
               PROVE  f[i + 1] = g[i + 1]
    OBVIOUS
  <2>1. i + 1 \in 1..n /\ (i + 1) - 1 = i /\ f[i] = g[i]
    BY <1>3
  <2> QED
    BY <1>1, <2>1 DEF ViewFrameTraces
<1> HIDE DEF T
<1>4. n \in T
  BY <1>2, <1>3, HoldsAllNaturals
<1> QED
  BY <1>1, <1>4 DEF T

LEMMA ViewFrameEmpty ==
  \A b : FoldLeft(ViewFrame, b, <<>>) = b
<1> TAKE b
<1>1. DOMAIN <<>> = 1..0
  OBVIOUS
<1>2. ViewFrameTraces([i \in {0} |-> b], b, <<>>, 0)
  BY EmptyRange DEF ViewFrameTraces
<1>3. FoldLeft(ViewFrame, b, <<>>) = [i \in {0} |-> b][0]
  BY <1>1, <1>2, ViewFrameFolds
<1> QED
  BY <1>3

LEMMA ViewFrameAppend ==
  \A b, S : \A s \in Seq(S), x \in S :
      FoldLeft(ViewFrame, b, Append(s, x)) = ViewFrame(FoldLeft(ViewFrame, b, s), x)
<1> TAKE b, S
<1> TAKE s \in Seq(S), x \in S
<1> DEFINE n == Len(s)
           t == Append(s, x)
<1>1. /\ n \in Nat /\ n + 1 \in Nat /\ DOMAIN s = 1..n /\ DOMAIN t = 1..(n + 1)
      /\ t[n + 1] = x /\ \A i \in 1..n : t[i] = s[i]
  OBVIOUS
<1> HIDE DEF t, n
<1>2. PICK f : ViewFrameTraces(f, b, t, n + 1) /\ FoldLeft(ViewFrame, b, t) = f[n + 1]
  BY <1>1, ViewFrameTrace
<1>3. ViewFrameTraces(f, b, s, n)
  BY <1>1, <1>2 DEF ViewFrameTraces
<1>4. FoldLeft(ViewFrame, b, s) = f[n]
  BY <1>1, <1>3, ViewFrameFolds
<1>5. n + 1 \in 1..(n + 1) /\ (n + 1) - 1 = n
  BY <1>1
<1>6. FoldLeft(ViewFrame, b, t) = ViewFrame(f[n], x)
  BY <1>1, <1>2, <1>5 DEF ViewFrameTraces
<1> QED
  BY <1>4, <1>6 DEF t

LEMMA ViewFrameConcat ==
  \A b, S : \A s, t \in Seq(S) :
      FoldLeft(ViewFrame, b, s \o t) = FoldLeft(ViewFrame, FoldLeft(ViewFrame, b, s), t)
<1> TAKE b, S
<1> TAKE s, t \in Seq(S)
<1> DEFINE n == Len(s)
           m == Len(t)
           w == s \o t
<1>1. /\ n \in Nat /\ m \in Nat /\ DOMAIN s = 1..n /\ DOMAIN t = 1..m /\ DOMAIN w = 1..(n + m)
      /\ \A i \in 1..n : w[i] = s[i]
      /\ \A i \in 1..m : w[n + i] = t[i]
  OBVIOUS
<1> HIDE DEF w, n, m
<1>2. PICK f : ViewFrameTraces(f, b, w, n + m) /\ FoldLeft(ViewFrame, b, w) = f[n + m]
  BY <1>1, ViewFrameTrace
<1>3. ViewFrameTraces(f, b, s, n)
  BY <1>1, <1>2 DEF ViewFrameTraces
<1>4. FoldLeft(ViewFrame, b, s) = f[n]
  BY <1>1, <1>3, ViewFrameFolds
<1> DEFINE g == [i \in 0..m |-> f[n + i]]
<1>5. ViewFrameTraces(g, f[n], t, m)
  <2>1. g[0] = f[n]
    BY <1>1
  <2>2. ASSUME NEW i \in 1..m
        PROVE  g[i] = ViewFrame(g[i - 1], t[i])
    <3>1. n + i \in 1..(n + m) /\ (n + i) - 1 = n + (i - 1) /\ i - 1 \in 0..m /\ i \in 0..m
      BY <1>1
    <3> QED
      BY <1>1, <1>2, <3>1 DEF ViewFrameTraces
  <2> HIDE DEF g
  <2> QED
    BY <2>1, <2>2 DEF ViewFrameTraces
<1>6. g[m] = f[n + m]
  BY <1>1
<1> HIDE DEF g
<1>7. FoldLeft(ViewFrame, f[n], t) = g[m]
  BY <1>1, <1>5, ViewFrameFolds
<1> QED
  BY <1>2, <1>4, <1>6, <1>7 DEF w

LEMMA ViewFrameHead ==
  \A b, S : \A s \in Seq(S) :
      s # <<>> => FoldLeft(ViewFrame, b, s) = FoldLeft(ViewFrame, ViewFrame(b, Head(s)), Tail(s))
<1> TAKE b, S
<1> TAKE s \in Seq(S)
<1> HAVE s # <<>>
<1> DEFINE m == Len(s) - 1
           t == Tail(s)
<1>1. /\ m \in Nat /\ DOMAIN t = 1..m /\ DOMAIN s = 1..(m + 1) /\ Head(s) = s[1]
      /\ \A i \in 1..m : s[i + 1] = t[i]
  OBVIOUS
<1> HIDE DEF t, m
<1>2. PICK f : ViewFrameTraces(f, b, s, m + 1) /\ FoldLeft(ViewFrame, b, s) = f[m + 1]
  BY <1>1, ViewFrameTrace
<1>3. f[1] = ViewFrame(b, Head(s))
  <2>1. 1 \in 1..(m + 1) /\ 1 - 1 = 0
    BY <1>1
  <2> QED
    BY <1>1, <1>2, <2>1 DEF ViewFrameTraces
<1> DEFINE g == [i \in 0..m |-> f[i + 1]]
<1>4. ViewFrameTraces(g, f[1], t, m)
  <2>1. g[0] = f[1]
    BY <1>1
  <2>2. ASSUME NEW i \in 1..m
        PROVE  g[i] = ViewFrame(g[i - 1], t[i])
    <3>1. i + 1 \in 1..(m + 1) /\ (i + 1) - 1 = (i - 1) + 1 /\ i - 1 \in 0..m /\ i \in 0..m
      BY <1>1
    <3> QED
      BY <1>1, <1>2, <3>1 DEF ViewFrameTraces
  <2> HIDE DEF g
  <2> QED
    BY <2>1, <2>2 DEF ViewFrameTraces
<1>5. g[m] = f[m + 1]
  BY <1>1
<1> HIDE DEF g
<1>6. FoldLeft(ViewFrame, f[1], t) = g[m]
  BY <1>1, <1>4, ViewFrameFolds
<1> QED
  BY <1>2, <1>3, <1>5, <1>6 DEF t

LEMMA FramesAreViewed ==
  ASSUME NEW v \in Views, NEW q \in Seq(Seq(Events))
  PROVE  /\ FoldLeft(ViewFrame, v, q) \in Views
         /\ (\A i \in DOMAIN q : Quiet(q[i])) => FoldLeft(ViewFrame, v, q).terminals = v.terminals
         /\ Len(FoldLeft(ViewFrame, v, q).terminals) >= Len(v.terminals)
<1> DEFINE n == Len(q)
<1>1. n \in Nat /\ DOMAIN q = 1..n /\ \A i \in 1..n : q[i] \in Seq(Events)
  OBVIOUS
<1>2. PICK f : ViewFrameTraces(f, v, q, n) /\ FoldLeft(ViewFrame, v, q) = f[n]
  BY <1>1, ViewFrameTrace
<1> HIDE DEF n
<1>3. \A w \in Views : Len(w.terminals) \in Nat
  BY DEF Views
<1> DEFINE T == {i \in Nat : i <= n =>
                    /\ f[i] \in Views
                    /\ (\A j \in DOMAIN q : Quiet(q[j])) => f[i].terminals = v.terminals
                    /\ Len(f[i].terminals) >= Len(v.terminals)}
<1>4. 0 \in T
  BY <1>2, <1>3 DEF ViewFrameTraces
<1>5. ASSUME NEW i \in Nat, i \in T
      PROVE  i + 1 \in T
  <2> DEFINE g == f[i]
             h == f[i + 1]
             e == q[i + 1]
  <2> SUFFICES ASSUME i + 1 <= n
               PROVE  /\ h \in Views
                      /\ (\A j \in DOMAIN q : Quiet(q[j])) => h.terminals = v.terminals
                      /\ Len(h.terminals) >= Len(v.terminals)
    OBVIOUS
  <2>1. i + 1 \in 1..n /\ (i + 1) - 1 = i /\ i <= n
    BY <1>1
  <2>2. /\ g \in Views
        /\ (\A j \in DOMAIN q : Quiet(q[j])) => g.terminals = v.terminals
        /\ Len(g.terminals) >= Len(v.terminals)
    BY <1>5, <2>1
  <2>3. e \in Seq(Events) /\ h = FoldLeft(View, g, e)
    BY <1>1, <1>2, <2>1 DEF ViewFrameTraces, ViewFrame
  <2>4. (\A j \in DOMAIN q : Quiet(q[j])) => Quiet(e)
    BY <1>1, <2>1
  <2> HIDE DEF g, h, e
  <2>5. /\ h \in Views /\ (Quiet(e) => h.terminals = g.terminals)
        /\ Len(h.terminals) >= Len(g.terminals)
    BY <2>2, <2>3, ViewOfEvents
  <2>6. Len(h.terminals) >= Len(v.terminals)
    BY <1>3, <2>2, <2>5
  <2> QED
    BY <2>2, <2>4, <2>5, <2>6
<1> HIDE DEF T
<1>6. n \in T
  BY <1>1, <1>4, <1>5, HoldsAllNaturals
<1> QED
  BY <1>1, <1>2, <1>6 DEF T


\* FoldLeft(PlusEvent, b, s) goes through s from its first element to its last.
PlusEventIter(g, b, s, n) ==
  g = [A \in SUBSET (1..n) |->
         IF A = {} THEN b ELSE PlusEvent(g[A \ {Max(A)}], s[Max(A)])]

LEMMA PlusEventIterates ==
  ASSUME NEW b, NEW s, NEW n \in Nat
  PROVE  \E g : PlusEventIter(g, b, s, n)
<1> DEFINE T == {k \in Nat : \E g : PlusEventIter(g, b, s, k)}
<1>1. 0 \in T
  <2>1. PlusEventIter([A \in SUBSET (1..0) |-> b], b, s, 0)
    BY EmptyRange DEF PlusEventIter
  <2> QED
    BY <2>1
<1>2. ASSUME NEW k \in Nat, k \in T
      PROVE  k + 1 \in T
  <2>1. PICK g : PlusEventIter(g, b, s, k)
    BY <1>2
  <2> DEFINE h == [A \in SUBSET (1..(k + 1)) |->
                     IF k + 1 \in A THEN PlusEvent(g[A \ {k + 1}], s[k + 1]) ELSE g[A]]
  <2>2. ASSUME NEW A \in SUBSET (1..(k + 1)), A # {}
        PROVE  h[A] = PlusEvent(h[A \ {Max(A)}], s[Max(A)])
    <3>1. CASE k + 1 \in A
      BY <2>2, <3>1, NextMax
    <3>2. CASE k + 1 \notin A
      <4>1. A \in SUBSET (1..k) /\ A \ {Max(A)} \in SUBSET (1..k) /\ k + 1 \notin A \ {Max(A)}
        BY <3>2, NextMax
      <4>2. g[A] = PlusEvent(g[A \ {Max(A)}], s[Max(A)])
        BY <2>1, <2>2, <4>1 DEF PlusEventIter
      <4> QED
        BY <3>2, <4>1, <4>2
    <3> QED
      BY <3>1, <3>2
  <2>3. h[{}] = b
    BY <2>1 DEF PlusEventIter
  <2>4. PlusEventIter(h, b, s, k + 1)
    BY <2>2, <2>3 DEF PlusEventIter
  <2> QED
    BY <2>4
<1> HIDE DEF T
<1>3. Nat \subseteq T
  BY <1>1, <1>2, HoldsAllNaturals
<1> QED
  BY <1>3 DEF T

PlusEventTraces(f, b, s, n) ==
  f[0] = b /\ \A i \in 1..n : f[i] = PlusEvent(f[i - 1], s[i])

LEMMA PlusEventTrace ==
  ASSUME NEW b, NEW s, NEW n \in Nat, DOMAIN s = 1..n
  PROVE  \E f : PlusEventTraces(f, b, s, n) /\ FoldLeft(PlusEvent, b, s) = f[n]
<1> DEFINE g == CHOOSE g : PlusEventIter(g, b, s, n)
<1>1. PlusEventIter(g, b, s, n)
  BY PlusEventIterates
<1>2. FoldLeft(PlusEvent, b, s) = g[1..n]
  BY DEF FoldLeft, MapThenFoldSet, PlusEventIter
<1> HIDE DEF g
<1> DEFINE f == [i \in 0..n |-> g[1..i]]
<1>3. f[0] = b
  BY <1>1, EmptyRange DEF PlusEventIter
<1>4. ASSUME NEW i \in 1..n
      PROVE  f[i] = PlusEvent(f[i - 1], s[i])
  <2>1. 1..i \in SUBSET (1..n) /\ 1..i # {} /\ Max(1..i) = i /\ (1..i) \ {i} = 1..(i - 1)
    BY RangeMax
  <2>2. g[1..i] = PlusEvent(g[(1..i) \ {Max(1..i)}], s[Max(1..i)])
    BY <1>1, <2>1 DEF PlusEventIter
  <2>3. i \in 0..n /\ i - 1 \in 0..n
    OBVIOUS
  <2> QED
    BY <2>1, <2>2, <2>3
<1>5. f[n] = g[1..n]
  OBVIOUS
<1> HIDE DEF f
<1> QED
  BY <1>2, <1>3, <1>4, <1>5 DEF PlusEventTraces

LEMMA PlusEventFolds ==
  ASSUME NEW b, NEW s, NEW n \in Nat, DOMAIN s = 1..n, NEW f, PlusEventTraces(f, b, s, n)
  PROVE  FoldLeft(PlusEvent, b, s) = f[n]
<1>1. PICK g : PlusEventTraces(g, b, s, n) /\ FoldLeft(PlusEvent, b, s) = g[n]
  BY PlusEventTrace
<1> DEFINE T == {i \in Nat : i <= n => f[i] = g[i]}
<1>2. 0 \in T
  BY <1>1 DEF PlusEventTraces
<1>3. ASSUME NEW i \in Nat, i \in T
      PROVE  i + 1 \in T
  <2> SUFFICES ASSUME i + 1 <= n
               PROVE  f[i + 1] = g[i + 1]
    OBVIOUS
  <2>1. i + 1 \in 1..n /\ (i + 1) - 1 = i /\ f[i] = g[i]
    BY <1>3
  <2> QED
    BY <1>1, <2>1 DEF PlusEventTraces
<1> HIDE DEF T
<1>4. n \in T
  BY <1>2, <1>3, HoldsAllNaturals
<1> QED
  BY <1>1, <1>4 DEF T

LEMMA BytesAre ==
  ASSUME NEW s \in Seq(Events)
  PROVE  /\ Bytes(s) \in Nat
         /\ (\A i \in DOMAIN s : s[i].size = 1) => Bytes(s) = Len(s)
<1> DEFINE n == Len(s)
<1>1. n \in Nat /\ DOMAIN s = 1..n /\ \A i \in 1..n : s[i] \in Events
  OBVIOUS
<1>2. PICK f : PlusEventTraces(f, 0, s, n) /\ FoldLeft(PlusEvent, 0, s) = f[n]
  BY <1>1, PlusEventTrace
<1> HIDE DEF n
<1> DEFINE T == {i \in Nat : i <= n =>
                    f[i] \in Nat /\ ((\A j \in DOMAIN s : s[j].size = 1) => f[i] = i)}
<1>3. 0 \in T
  BY <1>2 DEF PlusEventTraces
<1>4. ASSUME NEW i \in Nat, i \in T
      PROVE  i + 1 \in T
  <2> SUFFICES ASSUME i + 1 <= n
               PROVE  f[i + 1] \in Nat /\ ((\A j \in DOMAIN s : s[j].size = 1) => f[i + 1] = i + 1)
    OBVIOUS
  <2>1. i + 1 \in 1..n /\ (i + 1) - 1 = i /\ i <= n
    BY <1>1
  <2>2. f[i] \in Nat /\ ((\A j \in DOMAIN s : s[j].size = 1) => f[i] = i)
    BY <1>4, <2>1
  <2>3. f[i + 1] = f[i] + s[i + 1].size
    BY <1>2, <2>1 DEF PlusEventTraces, PlusEvent
  <2>4. s[i + 1].size \in Nat
    BY <1>1, <2>1 DEF Events
  <2> QED
    BY <1>1, <2>1, <2>2, <2>3, <2>4
<1> HIDE DEF T
<1>5. n \in T
  BY <1>1, <1>3, <1>4, HoldsAllNaturals
<1> QED
  BY <1>1, <1>2, <1>5 DEF T, Bytes, n


\* FoldLeft(PlusFrame, b, s) goes through s from its first element to its last.
PlusFrameIter(g, b, s, n) ==
  g = [A \in SUBSET (1..n) |->
         IF A = {} THEN b ELSE PlusFrame(g[A \ {Max(A)}], s[Max(A)])]

LEMMA PlusFrameIterates ==
  ASSUME NEW b, NEW s, NEW n \in Nat
  PROVE  \E g : PlusFrameIter(g, b, s, n)
<1> DEFINE T == {k \in Nat : \E g : PlusFrameIter(g, b, s, k)}
<1>1. 0 \in T
  <2>1. PlusFrameIter([A \in SUBSET (1..0) |-> b], b, s, 0)
    BY EmptyRange DEF PlusFrameIter
  <2> QED
    BY <2>1
<1>2. ASSUME NEW k \in Nat, k \in T
      PROVE  k + 1 \in T
  <2>1. PICK g : PlusFrameIter(g, b, s, k)
    BY <1>2
  <2> DEFINE h == [A \in SUBSET (1..(k + 1)) |->
                     IF k + 1 \in A THEN PlusFrame(g[A \ {k + 1}], s[k + 1]) ELSE g[A]]
  <2>2. ASSUME NEW A \in SUBSET (1..(k + 1)), A # {}
        PROVE  h[A] = PlusFrame(h[A \ {Max(A)}], s[Max(A)])
    <3>1. CASE k + 1 \in A
      BY <2>2, <3>1, NextMax
    <3>2. CASE k + 1 \notin A
      <4>1. A \in SUBSET (1..k) /\ A \ {Max(A)} \in SUBSET (1..k) /\ k + 1 \notin A \ {Max(A)}
        BY <3>2, NextMax
      <4>2. g[A] = PlusFrame(g[A \ {Max(A)}], s[Max(A)])
        BY <2>1, <2>2, <4>1 DEF PlusFrameIter
      <4> QED
        BY <3>2, <4>1, <4>2
    <3> QED
      BY <3>1, <3>2
  <2>3. h[{}] = b
    BY <2>1 DEF PlusFrameIter
  <2>4. PlusFrameIter(h, b, s, k + 1)
    BY <2>2, <2>3 DEF PlusFrameIter
  <2> QED
    BY <2>4
<1> HIDE DEF T
<1>3. Nat \subseteq T
  BY <1>1, <1>2, HoldsAllNaturals
<1> QED
  BY <1>3 DEF T

PlusFrameTraces(f, b, s, n) ==
  f[0] = b /\ \A i \in 1..n : f[i] = PlusFrame(f[i - 1], s[i])

LEMMA PlusFrameTrace ==
  ASSUME NEW b, NEW s, NEW n \in Nat, DOMAIN s = 1..n
  PROVE  \E f : PlusFrameTraces(f, b, s, n) /\ FoldLeft(PlusFrame, b, s) = f[n]
<1> DEFINE g == CHOOSE g : PlusFrameIter(g, b, s, n)
<1>1. PlusFrameIter(g, b, s, n)
  BY PlusFrameIterates
<1>2. FoldLeft(PlusFrame, b, s) = g[1..n]
  BY DEF FoldLeft, MapThenFoldSet, PlusFrameIter
<1> HIDE DEF g
<1> DEFINE f == [i \in 0..n |-> g[1..i]]
<1>3. f[0] = b
  BY <1>1, EmptyRange DEF PlusFrameIter
<1>4. ASSUME NEW i \in 1..n
      PROVE  f[i] = PlusFrame(f[i - 1], s[i])
  <2>1. 1..i \in SUBSET (1..n) /\ 1..i # {} /\ Max(1..i) = i /\ (1..i) \ {i} = 1..(i - 1)
    BY RangeMax
  <2>2. g[1..i] = PlusFrame(g[(1..i) \ {Max(1..i)}], s[Max(1..i)])
    BY <1>1, <2>1 DEF PlusFrameIter
  <2>3. i \in 0..n /\ i - 1 \in 0..n
    OBVIOUS
  <2> QED
    BY <2>1, <2>2, <2>3
<1>5. f[n] = g[1..n]
  OBVIOUS
<1> HIDE DEF f
<1> QED
  BY <1>2, <1>3, <1>4, <1>5 DEF PlusFrameTraces

LEMMA PlusFrameFolds ==
  ASSUME NEW b, NEW s, NEW n \in Nat, DOMAIN s = 1..n, NEW f, PlusFrameTraces(f, b, s, n)
  PROVE  FoldLeft(PlusFrame, b, s) = f[n]
<1>1. PICK g : PlusFrameTraces(g, b, s, n) /\ FoldLeft(PlusFrame, b, s) = g[n]
  BY PlusFrameTrace
<1> DEFINE T == {i \in Nat : i <= n => f[i] = g[i]}
<1>2. 0 \in T
  BY <1>1 DEF PlusFrameTraces
<1>3. ASSUME NEW i \in Nat, i \in T
      PROVE  i + 1 \in T
  <2> SUFFICES ASSUME i + 1 <= n
               PROVE  f[i + 1] = g[i + 1]
    OBVIOUS
  <2>1. i + 1 \in 1..n /\ (i + 1) - 1 = i /\ f[i] = g[i]
    BY <1>3
  <2> QED
    BY <1>1, <2>1 DEF PlusFrameTraces
<1> HIDE DEF T
<1>4. n \in T
  BY <1>2, <1>3, HoldsAllNaturals
<1> QED
  BY <1>1, <1>4 DEF T

LEMMA PlusFrameEmpty ==
  \A b : FoldLeft(PlusFrame, b, <<>>) = b
<1> TAKE b
<1>1. DOMAIN <<>> = 1..0
  OBVIOUS
<1>2. PlusFrameTraces([i \in {0} |-> b], b, <<>>, 0)
  BY EmptyRange DEF PlusFrameTraces
<1>3. FoldLeft(PlusFrame, b, <<>>) = [i \in {0} |-> b][0]
  BY <1>1, <1>2, PlusFrameFolds
<1> QED
  BY <1>3

LEMMA PlusFrameAppend ==
  \A b, S : \A s \in Seq(S), x \in S :
      FoldLeft(PlusFrame, b, Append(s, x)) = PlusFrame(FoldLeft(PlusFrame, b, s), x)
<1> TAKE b, S
<1> TAKE s \in Seq(S), x \in S
<1> DEFINE n == Len(s)
           t == Append(s, x)
<1>1. /\ n \in Nat /\ n + 1 \in Nat /\ DOMAIN s = 1..n /\ DOMAIN t = 1..(n + 1)
      /\ t[n + 1] = x /\ \A i \in 1..n : t[i] = s[i]
  OBVIOUS
<1> HIDE DEF t, n
<1>2. PICK f : PlusFrameTraces(f, b, t, n + 1) /\ FoldLeft(PlusFrame, b, t) = f[n + 1]
  BY <1>1, PlusFrameTrace
<1>3. PlusFrameTraces(f, b, s, n)
  BY <1>1, <1>2 DEF PlusFrameTraces
<1>4. FoldLeft(PlusFrame, b, s) = f[n]
  BY <1>1, <1>3, PlusFrameFolds
<1>5. n + 1 \in 1..(n + 1) /\ (n + 1) - 1 = n
  BY <1>1
<1>6. FoldLeft(PlusFrame, b, t) = PlusFrame(f[n], x)
  BY <1>1, <1>2, <1>5 DEF PlusFrameTraces
<1> QED
  BY <1>4, <1>6 DEF t

LEMMA PlusFrameHead ==
  \A b, S : \A s \in Seq(S) :
      s # <<>> => FoldLeft(PlusFrame, b, s) = FoldLeft(PlusFrame, PlusFrame(b, Head(s)), Tail(s))
<1> TAKE b, S
<1> TAKE s \in Seq(S)
<1> HAVE s # <<>>
<1> DEFINE m == Len(s) - 1
           t == Tail(s)
<1>1. /\ m \in Nat /\ DOMAIN t = 1..m /\ DOMAIN s = 1..(m + 1) /\ Head(s) = s[1]
      /\ \A i \in 1..m : s[i + 1] = t[i]
  OBVIOUS
<1> HIDE DEF t, m
<1>2. PICK f : PlusFrameTraces(f, b, s, m + 1) /\ FoldLeft(PlusFrame, b, s) = f[m + 1]
  BY <1>1, PlusFrameTrace
<1>3. f[1] = PlusFrame(b, Head(s))
  <2>1. 1 \in 1..(m + 1) /\ 1 - 1 = 0
    BY <1>1
  <2> QED
    BY <1>1, <1>2, <2>1 DEF PlusFrameTraces
<1> DEFINE g == [i \in 0..m |-> f[i + 1]]
<1>4. PlusFrameTraces(g, f[1], t, m)
  <2>1. g[0] = f[1]
    BY <1>1
  <2>2. ASSUME NEW i \in 1..m
        PROVE  g[i] = PlusFrame(g[i - 1], t[i])
    <3>1. i + 1 \in 1..(m + 1) /\ (i + 1) - 1 = (i - 1) + 1 /\ i - 1 \in 0..m /\ i \in 0..m
      BY <1>1
    <3> QED
      BY <1>1, <1>2, <3>1 DEF PlusFrameTraces
  <2> HIDE DEF g
  <2> QED
    BY <2>1, <2>2 DEF PlusFrameTraces
<1>5. g[m] = f[m + 1]
  BY <1>1
<1> HIDE DEF g
<1>6. FoldLeft(PlusFrame, f[1], t) = g[m]
  BY <1>1, <1>4, PlusFrameFolds
<1> QED
  BY <1>2, <1>3, <1>5, <1>6 DEF t

\* A queue that starts with more holds more.
LEMMA FramesAdd ==
  ASSUME NEW b \in Nat, NEW q \in Seq(Seq(Events))
  PROVE  /\ FoldLeft(PlusFrame, b, q) \in Nat /\ FoldLeft(PlusFrame, 0, q) \in Nat
         /\ FoldLeft(PlusFrame, 0, q) <= FoldLeft(PlusFrame, b, q)
<1> DEFINE n == Len(q)
<1>1. n \in Nat /\ DOMAIN q = 1..n /\ \A i \in 1..n : q[i] \in Seq(Events)
  OBVIOUS
<1>2. PICK f : PlusFrameTraces(f, b, q, n) /\ FoldLeft(PlusFrame, b, q) = f[n]
  BY <1>1, PlusFrameTrace
<1>3. PICK g : PlusFrameTraces(g, 0, q, n) /\ FoldLeft(PlusFrame, 0, q) = g[n]
  BY <1>1, PlusFrameTrace
<1> HIDE DEF n
<1> DEFINE T == {i \in Nat : i <= n => f[i] \in Nat /\ g[i] \in Nat /\ g[i] <= f[i]}
<1>4. 0 \in T
  BY <1>2, <1>3 DEF PlusFrameTraces
<1>5. ASSUME NEW i \in Nat, i \in T
      PROVE  i + 1 \in T
  <2> SUFFICES ASSUME i + 1 <= n
               PROVE  f[i + 1] \in Nat /\ g[i + 1] \in Nat /\ g[i + 1] <= f[i + 1]
    OBVIOUS
  <2>1. i + 1 \in 1..n /\ (i + 1) - 1 = i /\ i <= n
    BY <1>1
  <2>2. f[i] \in Nat /\ g[i] \in Nat /\ g[i] <= f[i]
    BY <1>5, <2>1
  <2>3. f[i + 1] = f[i] + Bytes(q[i + 1]) /\ g[i + 1] = g[i] + Bytes(q[i + 1])
    BY <1>2, <1>3, <2>1 DEF PlusFrameTraces, PlusFrame
  <2>4. Bytes(q[i + 1]) \in Nat
    BY <1>1, <2>1, BytesAre
  <2> QED
    BY <2>2, <2>3, <2>4
<1> HIDE DEF T
<1>6. n \in T
  BY <1>1, <1>4, <1>5, HoldsAllNaturals
<1> QED
  BY <1>1, <1>2, <1>3, <1>6 DEF T

\* Frames that leave the answer open are quiet.
LEMMA FramesAreQuiet ==
  ASSUME NEW v \in Views, NEW q \in Seq(Seq(Events)), FoldLeft(ViewFrame, v, q).terminals = <<>>
  PROVE  v.terminals = <<>> /\ \A i \in DOMAIN q : Quiet(q[i])
<1> DEFINE n == Len(q)
<1>1. n \in Nat /\ DOMAIN q = 1..n /\ \A i \in 1..n : q[i] \in Seq(Events)
  OBVIOUS
<1>2. PICK f : ViewFrameTraces(f, v, q, n) /\ FoldLeft(ViewFrame, v, q) = f[n]
  BY <1>1, ViewFrameTrace
<1> HIDE DEF n
<1>3. \A w \in Views : w.terminals \in Seq(Endings) /\ Len(w.terminals) \in Nat
  BY DEF Views
<1> DEFINE T == {i \in Nat : i <= n =>
                    /\ f[i] \in Views
                    /\ f[i].terminals = <<>> => /\ v.terminals = <<>>
                                               /\ \A j \in 1..i : Quiet(q[j])}
<1>4. 0 \in T
  <2>1. f[0] = v /\ 1..0 = {}
    BY <1>2 DEF ViewFrameTraces
  <2> QED
    BY <2>1
<1>5. ASSUME NEW i \in Nat, i \in T
      PROVE  i + 1 \in T
  <2> DEFINE g == f[i]
             h == f[i + 1]
             e == q[i + 1]
  <2> SUFFICES ASSUME i + 1 <= n
               PROVE  /\ h \in Views
                      /\ h.terminals = <<>> => /\ v.terminals = <<>>
                                              /\ \A j \in 1..(i + 1) : Quiet(q[j])
    OBVIOUS
  <2>1. i + 1 \in 1..n /\ (i + 1) - 1 = i /\ i <= n
    BY <1>1
  <2>2. /\ g \in Views
        /\ g.terminals = <<>> => v.terminals = <<>> /\ \A j \in 1..i : Quiet(q[j])
    BY <1>5, <2>1
  <2>3. e \in Seq(Events) /\ h = FoldLeft(View, g, e)
    BY <1>1, <1>2, <2>1 DEF ViewFrameTraces, ViewFrame
  <2>4. \A j \in 1..(i + 1) : j \in 1..i \/ q[j] = e
    <3>1. \A j \in 1..(i + 1) : j \in 1..i \/ j = i + 1
      OBVIOUS
    <3> QED
      BY <3>1
  <2> HIDE DEF g, h, e
  <2>5. h \in Views /\ Len(h.terminals) >= Len(g.terminals) /\ (h.terminals = <<>> => Quiet(e))
    BY <2>2, <2>3, ViewOfEvents, EndsAreTold DEF Quiet
  <2>6. h.terminals = <<>> => g.terminals = <<>>
    <3>1. g.terminals \in Seq(Endings) /\ h.terminals \in Seq(Endings)
      BY <1>3, <2>2, <2>5
    <3> QED
      BY <2>5, <3>1
  <2> QED
    BY <2>2, <2>4, <2>5, <2>6
<1> HIDE DEF T
<1>6. n \in T
  BY <1>1, <1>4, <1>5, HoldsAllNaturals
<1> QED
  BY <1>1, <1>2, <1>6 DEF T

\* A frame per event.
LEMMA SinglesAre ==
  ASSUME NEW s \in Seq(Events)
  PROVE  /\ Single(s) \in Seq(Seq(Events)) /\ Len(Single(s)) = Len(s)
         /\ DOMAIN Single(s) = DOMAIN s
         /\ \A i \in DOMAIN s : Single(s)[i] = <<s[i]>>
         /\ \A v : FoldLeft(ViewFrame, v, Single(s)) = FoldLeft(View, v, s)
<1> DEFINE n == Len(s)
           q == Single(s)
<1>1. n \in Nat /\ DOMAIN s = 1..n /\ \A i \in 1..n : s[i] \in Events
  OBVIOUS
<1>2. q = [i \in 1..n |-> <<s[i]>>]
  BY <1>1 DEF Single
<1>3. q \in Seq(Seq(Events)) /\ Len(q) = n /\ DOMAIN q = 1..n /\ \A i \in 1..n : q[i] = <<s[i]>>
  <2>1. \A i \in 1..n : <<s[i]>> \in Seq(Events)
    BY <1>1
  <2>2. q \in [1..n -> Seq(Events)]
    BY <1>2, <2>1
  <2>3. DOMAIN q = 1..n /\ \A i \in 1..n : q[i] = <<s[i]>>
    BY <1>2
  <2> HIDE DEF n, q
  <2>4. q \in Seq(Seq(Events))
    BY <1>1, <2>2, SeqDef
  <2>5. Len(q) = n
    BY <1>1, <2>3, <2>4
  <2> QED
    BY <2>3, <2>4, <2>5
<1> HIDE DEF n, q
<1>4. ASSUME NEW v
      PROVE  FoldLeft(ViewFrame, v, q) = FoldLeft(View, v, s)
  <2>1. PICK f : ViewTraces(f, v, s, n) /\ FoldLeft(View, v, s) = f[n]
    BY <1>1, ViewTrace
  <2>2. \A w, e : ViewFrame(w, <<e>>) = View(w, e)
    <3> TAKE w, e
    <3>1. <<>> \in Seq({e}) /\ e \in {e} /\ Append(<<>>, e) = <<e>>
      OBVIOUS
    <3>2. FoldLeft(View, w, Append(<<>>, e)) = View(FoldLeft(View, w, <<>>), e)
      BY <3>1, ViewAppend
    <3> QED
      BY <3>1, <3>2, ViewEmpty DEF ViewFrame
  <2>3. ViewFrameTraces(f, v, q, n)
    BY <1>3, <2>1, <2>2 DEF ViewTraces, ViewFrameTraces
  <2> QED
    BY <1>1, <1>3, <2>1, <2>3, ViewFrameFolds
<1> QED
  BY <1>1, <1>3, <1>4 DEF n, q

\* Two queues, one after the other.
LEMMA QueuesJoin ==
  ASSUME NEW v \in Views, NEW p \in Seq(Seq(Events)), NEW q \in Seq(Seq(Events))
  PROVE  /\ p \o q \in Seq(Seq(Events)) /\ Len(p \o q) = Len(p) + Len(q)
         /\ DOMAIN (p \o q) = 1..(Len(p) + Len(q))
         /\ \A i \in 1..(Len(p) + Len(q)) :
              IF i <= Len(p) THEN i \in DOMAIN p /\ (p \o q)[i] = p[i]
              ELSE i - Len(p) \in DOMAIN q /\ (p \o q)[i] = q[i - Len(p)]
         /\ FoldLeft(ViewFrame, v, p \o q) = FoldLeft(ViewFrame, FoldLeft(ViewFrame, v, p), q)
<1>1. FoldLeft(ViewFrame, v, p \o q) = FoldLeft(ViewFrame, FoldLeft(ViewFrame, v, p), q)
  BY ViewFrameConcat
<1>2. p \o q \in Seq(Seq(Events)) /\ Len(p \o q) = Len(p) + Len(q)
      /\ DOMAIN (p \o q) = 1..(Len(p) + Len(q))
  OBVIOUS
<1>3. ASSUME NEW i \in 1..(Len(p) + Len(q))
      PROVE  IF i <= Len(p) THEN i \in DOMAIN p /\ (p \o q)[i] = p[i]
             ELSE i - Len(p) \in DOMAIN q /\ (p \o q)[i] = q[i - Len(p)]
  OBVIOUS
<1> QED
  BY <1>1, <1>2, <1>3

\* The frame that is sent moves from the one to the other.
LEMMA QueuesMove ==
  ASSUME NEW S, NEW p \in Seq(S), NEW q \in Seq(S)
  PROVE  /\ q # <<>> => /\ Append(p, Head(q)) \o Tail(q) = p \o q /\ Head(q) \in S
                        /\ Append(p, Head(q)) \in Seq(S) /\ Tail(q) \in Seq(S)
                        /\ Len(Append(p, Head(q))) = Len(p) + 1
                        /\ \A i \in DOMAIN Tail(q) : i + 1 \in DOMAIN q /\ Tail(q)[i] = q[i + 1]
         /\ p # <<>> => /\ Head(p \o q) = Head(p) /\ Tail(p \o q) = Tail(p) \o q
                        /\ p \o q # <<>> /\ Head(p) \in S /\ Tail(p) \in Seq(S)
                        /\ Len(Tail(p)) <= Len(p)
         /\ <<>> \o q = q /\ p \o <<>> = p /\ <<>> \in Seq(S)
<1>1. ASSUME q # <<>>
      PROVE  /\ Append(p, Head(q)) \o Tail(q) = p \o q /\ Head(q) \in S
             /\ Append(p, Head(q)) \in Seq(S) /\ Tail(q) \in Seq(S)
             /\ Len(Append(p, Head(q))) = Len(p) + 1
             /\ \A i \in DOMAIN Tail(q) : i + 1 \in DOMAIN q /\ Tail(q)[i] = q[i + 1]
  <2>1. Head(q) \in S /\ Tail(q) \in Seq(S)
    BY <1>1
  <2>2. Append(p, Head(q)) \o Tail(q) = p \o q
    BY <1>1, <2>1
  <2>3. \A i \in DOMAIN Tail(q) : i + 1 \in DOMAIN q /\ Tail(q)[i] = q[i + 1]
    BY <1>1
  <2>4. Append(p, Head(q)) \in Seq(S) /\ Len(Append(p, Head(q))) = Len(p) + 1
    BY <2>1
  <2> QED
    BY <2>1, <2>2, <2>3, <2>4
<1>2. ASSUME p # <<>>
      PROVE  /\ Head(p \o q) = Head(p) /\ Tail(p \o q) = Tail(p) \o q
             /\ p \o q # <<>> /\ Head(p) \in S /\ Tail(p) \in Seq(S)
             /\ Len(Tail(p)) <= Len(p)
  <2>1. Head(p) \in S /\ Tail(p) \in Seq(S) /\ Len(Tail(p)) <= Len(p)
    BY <1>2
  <2>2. p \o q # <<>>
    BY <1>2
  <2>3. Head(p \o q) = Head(p)
    BY <1>2
  <2>4. Tail(p \o q) = Tail(p) \o q
    <3> DEFINE n == Len(p) - 1
               m == Len(q)
               s == Tail(p \o q)
               t == Tail(p) \o q
    <3>1. n \in Nat /\ m \in Nat /\ Len(p) = n + 1
      BY <1>2
    <3>2. s \in Seq(S) /\ Len(s) = n + m /\ \A i \in 1..(n + m) : s[i] = (p \o q)[i + 1]
      BY <1>2, <2>2
    <3>3. t \in Seq(S) /\ Len(t) = n + m /\ \A i \in 1..(n + m) : t[i] = (p \o q)[i + 1]
      BY <1>2, <2>1
    <3> HIDE DEF s, t, n, m
    <3>4. s = t
      BY <3>1, <3>2, <3>3, SeqEqual
    <3> QED
      BY <3>4 DEF s, t
  <2> QED
    BY <2>1, <2>2, <2>3, <2>4
<1>3. <<>> \o q = q /\ p \o <<>> = p /\ <<>> \in Seq(S)
  OBVIOUS
<1> QED
  BY <1>1, <1>2, <1>3, Zenon

-----------------------------------------------------------------------------
(* The inductive invariant.                                                *)

\* What is on its way to Codex, and what Codex will make of it.
Ahead == channel \o outbox
Total == FoldLeft(ViewFrame, got, Ahead)

Streaming == stage \in {"streaming", "ended"}
Listening == client \in {"reading", "ended"}
Whole(w) == w.added = ToSet(w.done) /\ Once(w.done)
Succeeds(w) == w.terminals \in {<<"completed">>, <<"incomplete">>}

\* Types, and the limits of the channel.
Typed ==
  /\ req \in Requests
  /\ stage \in {"arrived", "open", "resolve", "send", "streaming", "answered", "dropped", "ended"}
  /\ exchange \in {None, "open", "completed", "cancelled"}
  /\ up \in Upstreams /\ up.n <= MaxFrames
  /\ up.odd \/ ~up.overrun \/ IsPassthrough
  /\ adapter \in Adapters /\ watch \in BOOLEAN
  /\ outbox \in Seq(Seq(Events)) /\ channel \in Seq(Seq(Events))
  /\ Len(channel) <= Capacity /\ Queued <= MaxBytes
  /\ client \in {"waiting", "reading", "ended", "left"}
  /\ others \in 0..MaxOthers

\* The store keeps its size, and a conversation has one entry.
Remembers ==
  /\ memory \in Seq(ToSet(memory)) /\ Len(memory) <= MaxSessions
  /\ \A i, j \in DOMAIN memory : memory[i].key = memory[j].key => i = j

\* An attempt is paid for by one budget or the other.
Retries ==
  /\ attempts \in Nat /\ tardy \in Nat
  /\ stage \in {"arrived", "open"} => attempts = 0 /\ tardy = 0
  /\ stage = "resolve" => tardy <= FirstByteRetries /\ attempts <= ConnectRetries + tardy
  /\ stage = "send" => tardy <= FirstByteRetries /\ attempts <= 1 + ConnectRetries + tardy
  /\ tardy <= 1 + FirstByteRetries /\ attempts <= 1 + ConnectRetries + FirstByteRetries

\* What the place of the task says of Codex, and the other way round.
Phases ==
  /\ stage \in {"arrived", "open", "resolve", "send"} =>
       client = "waiting" /\ got = NoView /\ channel = <<>> /\ outbox = <<>>
  /\ ~Streaming => ~watch /\ up = NoFrames
  /\ stage = "answered" =>
       /\ client = "waiting" /\ channel = <<>> /\ outbox = <<>>
       /\ got = NoView \/ (Whole(got) /\ got.terminals = <<"completed">>)
       /\ got.done \in Seq(ToSet(got.done))
  /\ stage = "dropped" <=> (client = "left" /\ ~Streaming)
  /\ Listening => Streaming /\ got \in Views
  /\ client = "waiting" => ~Streaming
  /\ client = "ended" => stage = "ended" /\ channel = <<>>
  /\ client = "left" => got = NoView /\ channel = <<>>
  /\ stage = "streaming" => rest \in {"read", "end"}
  /\ stage = "ended" => rest = "end" /\ outbox = <<>>

\* While the task reads on, the adapter is in step with what Codex will have seen
\* when all that is on its way has arrived.
Adapts ==
  (stage = "streaming" /\ rest = "read") =>
    \E w \in Views : Alive(up, adapter, w) /\ (client # "left" => w = Total)

\* For one who listens: no event is behind the last one, a task that finished told
\* so, one that ended otherwise told why, and a success is whole.
Translates ==
  Listening =>
    /\ ~up.overrun =>
         /\ Ahead # <<>> => got.terminals = <<>>
         /\ \A i \in DOMAIN Ahead : i # Len(Ahead) => Quiet(Ahead[i])
         /\ Len(Total.terminals) <= 1
         /\ (rest = "end" /\ ending = "finished") => Succeeds(Total) /\ outbox = <<>>
    /\ rest = "end" => \/ Total.terminals # <<>>
                       \/ ending \in {"transport", "oversized"}
                       \/ up.overrun
    /\ (~up.odd /\ rest = "end" /\ Succeeds(Total)) => Whole(Total)

\* The answer of a native upstream: the observer knows whether its last event was sent.
Observes ==
  /\ \A i \in DOMAIN outbox : Bytes(outbox[i]) <= MaxBytes
  /\ Listening =>
       /\ (watch \/ rest = "end") => Total.terminals # <<>>
       /\ ~up.odd /\ ~up.overrun =>
            /\ Len(Total.terminals) <= 1
            /\ rest = "read" => (IF up.rank = 3 THEN watch
                                ELSE up.rank < 3 /\ Total.terminals = <<>>)

Serves == IF IsPassthrough THEN Observes ELSE Adapts /\ Translates

IInv == Typed /\ Remembers /\ Retries /\ Phases /\ Serves

-----------------------------------------------------------------------------
(* The reasoning histories.                                                *)

LEMMA RemovedIs ==
  ASSUME NEW S, NEW s \in Seq(S), NEW p \in 1..Len(s)
  PROVE  /\ RemoveAt(s, p) \in Seq(S) /\ Len(RemoveAt(s, p)) = Len(s) - 1
         /\ \A i \in 1..(Len(s) - 1) : RemoveAt(s, p)[i] = s[IF i < p THEN i ELSE i + 1]
<1> DEFINE n == Len(s)
           a == SubSeq(s, 1, p - 1)
           b == SubSeq(s, p + 1, n)
<1>1. n \in Nat /\ p \in Nat /\ p >= 1 /\ p <= n
  OBVIOUS
<1>2. a \in Seq(S) /\ Len(a) = p - 1 /\ \A i \in 1..(p - 1) : a[i] = s[i]
  OBVIOUS
<1>3. b \in Seq(S) /\ Len(b) = n - p /\ \A i \in 1..(n - p) : b[i] = s[i + p]
  OBVIOUS
<1> HIDE DEF a, b, n
<1>4. /\ a \o b \in Seq(S) /\ Len(a \o b) = n - 1
      /\ \A i \in 1..(n - 1) : (a \o b)[i] = IF i <= p - 1 THEN a[i] ELSE b[i - (p - 1)]
  <2>1. a \o b \in Seq(S) /\ Len(a \o b) = (p - 1) + (n - p) /\ (p - 1) + (n - p) = n - 1
    <3>1. (p - 1) + (n - p) = n - 1
      BY <1>1
    <3>2. a \o b \in Seq(S) /\ Len(a \o b) = Len(a) + Len(b)
      <4>1. a \in Seq(S) /\ b \in Seq(S)
        BY <1>2, <1>3
      <4> QED
        BY <4>1, ConcatProperties
    <3> QED
      BY <1>2, <1>3, <3>1, <3>2
  <2>2. \A i \in 1..(Len(a) + Len(b)) :
          (a \o b)[i] = IF i <= Len(a) THEN a[i] ELSE b[i - Len(a)]
    BY <1>2, <1>3
  <2> QED
    BY <1>2, <1>3, <2>1, <2>2
<1>5. ASSUME NEW i \in 1..(n - 1)
      PROVE  (a \o b)[i] = s[IF i < p THEN i ELSE i + 1]
  <2>1. CASE i < p
    <3>1. i <= p - 1 /\ i \in 1..(p - 1)
      BY <1>1, <2>1
    <3> QED
      BY <1>2, <1>4, <2>1, <3>1
  <2>2. CASE ~(i < p)
    <3>1. ~(i <= p - 1) /\ i - (p - 1) \in 1..(n - p) /\ (i - (p - 1)) + p = i + 1
      BY <1>1, <2>2
    <3> QED
      BY <1>3, <1>4, <2>2, <3>1
  <2> QED
    BY <2>1, <2>2
<1>6. RemoveAt(s, p) = a \o b
  BY DEF RemoveAt, a, b, n
<1> QED
  BY <1>4, <1>5, <1>6 DEF n

LEMMA UsedIs ==
  ASSUME Remembers, NEW key, NEW calls
  PROVE  /\ Used(key, calls) \in Seq(ToSet(Used(key, calls)))
         /\ Len(Used(key, calls)) <= MaxSessions
         /\ \A i, j \in DOMAIN Used(key, calls) :
              Used(key, calls)[i].key = Used(key, calls)[j].key => i = j
         /\ Len(Used(key, calls)) \in DOMAIN Used(key, calls)
         /\ Used(key, calls)[Len(Used(key, calls))] = [key |-> key, calls |-> calls]
         /\ \A i \in DOMAIN Used(key, calls) :
              Used(key, calls)[i].key = key \/ \E j \in DOMAIN memory : memory[j] = Used(key, calls)[i]
<1> DEFINE e == [key |-> key, calls |-> calls]
           S == ToSet(memory) \cup {e}
           n == Len(memory)
           room == IF Known(key) THEN RemoveAt(memory, Place(key))
                   ELSE IF n >= MaxSessions THEN Tail(memory) ELSE memory
           u == Used(key, calls)
<1>1. /\ memory \in Seq(S) /\ n \in Nat /\ n <= MaxSessions /\ DOMAIN memory = 1..n
      /\ MaxSessions \in Nat /\ MaxSessions >= 1
      /\ \A i, j \in 1..n : memory[i].key = memory[j].key => i = j
  <2>1. memory \in Seq(ToSet(memory)) /\ n <= MaxSessions
        /\ \A i, j \in DOMAIN memory : memory[i].key = memory[j].key => i = j
    BY DEF Remembers
  <2>2. memory \in Seq(S) /\ n \in Nat /\ DOMAIN memory = 1..n
    BY <2>1
  <2> QED
    BY <2>1, <2>2, StreamAssumption
<1>2. u = Append(room, e)
  BY DEF Used
<1>3. e.key = key
  OBVIOUS
<1> HIDE DEF S, e, u
<1>4. /\ room \in Seq(S) /\ Len(room) < MaxSessions
      /\ \E d \in Nat : Len(room) = n - d /\
           \E p \in Nat : \A i \in 1..Len(room) : room[i] = memory[IF i < p THEN i ELSE i + d]
      /\ \A i \in 1..Len(room) : room[i].key # key
  <2>1. CASE Known(key)
    <3> DEFINE p == Place(key)
    <3>1. p \in 1..n /\ memory[p].key = key
      BY <1>1, <2>1 DEF Known, Place
    <3> HIDE DEF p, n
    <3>2. /\ room \in Seq(S) /\ Len(room) = n - 1
          /\ \A i \in 1..(n - 1) : room[i] = memory[IF i < p THEN i ELSE i + 1]
      BY <1>1, <2>1, <3>1, RemovedIs DEF p, n
    <3> HIDE DEF room
    <3>3. \A i \in 1..(n - 1) : room[i].key # key
      <4> TAKE i \in 1..(n - 1)
      <4> DEFINE j == IF i < p THEN i ELSE i + 1
      <4>1. j \in 1..n /\ j # p
        BY <1>1, <3>1
      <4> QED
        BY <1>1, <3>1, <3>2, <4>1
    <3>4. p \in Nat /\ 1 \in Nat /\ n - 1 < MaxSessions
      BY <1>1, <3>1
    <3> QED
      BY <3>2, <3>3, <3>4
  <2>2. CASE ~Known(key)
    <3>1. \A i \in 1..n : memory[i].key # key
      BY <1>1, <2>2 DEF Known
    <3>2. CASE n >= MaxSessions
      <4>1. room = Tail(memory) /\ memory # <<>>
        BY <1>1, <2>2, <3>2
      <4>2. /\ room \in Seq(S) /\ Len(room) = n - 1
            /\ \A i \in 1..(n - 1) : room[i] = memory[i + 1]
        <5>1. /\ Tail(memory) \in Seq(S) /\ Len(Tail(memory)) = n - 1
              /\ \A i \in 1..(n - 1) : Tail(memory)[i] = memory[i + 1]
          <6> HIDE DEF room
          <6>1. memory \in Seq(S) /\ memory # <<>>
            BY <1>1, <4>1
          <6>2. Tail(memory) \in Seq(S) /\ Len(Tail(memory)) = n - 1
            BY <6>1, HeadTailProperties
          <6> QED
            BY <6>1, <6>2, HeadTailProperties
        <5> QED
          BY <4>1, <5>1
      <4> HIDE DEF room, n
      <4>3. \A i \in 1..(n - 1) : i + 1 \in 1..n /\ ~(i < 0)
        BY <1>1
      <4>4. n - 1 < MaxSessions /\ 0 \in Nat /\ 1 \in Nat
        BY <1>1
      <4>5. \A i \in 1..(n - 1) : room[i] = memory[IF i < 0 THEN i ELSE i + 1]
        BY <4>2, <4>3
      <4> QED
        BY <3>1, <4>2, <4>3, <4>4, <4>5
    <3>3. CASE ~(n >= MaxSessions)
      <4>1. room = memory
        BY <2>2, <3>3
      <4> HIDE DEF room
      <4>2. n - 0 = n /\ 0 \in Nat /\ n < MaxSessions /\ \A i \in 1..n : i + 0 = i
        BY <1>1, <3>3
      <4>3. \A i \in 1..n : room[i] = memory[IF i < 0 THEN i ELSE i + 0]
        BY <4>1, <4>2
      <4> QED
        <5>1. room \in Seq(S) /\ Len(room) = n - 0 /\ Len(room) < MaxSessions
          BY <1>1, <4>1, <4>2 DEF n
        <5>2. \A i \in 1..Len(room) : room[i] = memory[IF i < 0 THEN i ELSE i + 0]
          BY <4>2, <4>3, <5>1
        <5>3. \A i \in 1..Len(room) : room[i].key # key
          BY <3>1, <4>1, <4>2, <5>1
        <5> QED
          BY <4>2, <5>1, <5>2, <5>3
    <3> QED
      BY <3>2, <3>3
  <2> QED
    BY <2>1, <2>2
<1> HIDE DEF room, n
<1> DEFINE m == Len(room)
<1>5. PICK d \in Nat : m = n - d /\
           \E p \in Nat : \A i \in 1..m : room[i] = memory[IF i < p THEN i ELSE i + d]
  BY <1>4
<1>6. PICK p \in Nat : \A i \in 1..m : room[i] = memory[IF i < p THEN i ELSE i + d]
  BY <1>5
<1>7. /\ u \in Seq(S \cup {e}) /\ Len(u) = m + 1 /\ DOMAIN u = 1..(m + 1) /\ m \in Nat
      /\ u[m + 1] = e /\ \A i \in 1..m : u[i] = room[i]
  <2>1. room \in Seq(S \cup {e}) /\ e \in S \cup {e}
    BY <1>4
  <2> QED
    BY <1>2, <2>1
<1> HIDE DEF m
<1>8. ASSUME NEW i \in 1..(m + 1), NEW j \in 1..(m + 1), u[i].key = u[j].key
      PROVE  i = j
  <2> DEFINE x == IF i < p THEN i ELSE i + d
             y == IF j < p THEN j ELSE j + d
  <2>1. CASE i \in 1..m /\ j \in 1..m
    <3>1. x \in 1..n /\ y \in 1..n /\ u[i] = memory[x] /\ u[j] = memory[y]
      BY <1>1, <1>5, <1>6, <1>7, <2>1
    <3>2. x = y
      BY <1>1, <1>8, <3>1
    <3> QED
      BY <1>7, <2>1, <3>2
  <2>2. CASE i = m + 1 /\ j \in 1..m
    BY <1>3, <1>4, <1>7, <1>8, <2>2 DEF m
  <2>3. CASE i \in 1..m /\ j = m + 1
    BY <1>3, <1>4, <1>7, <1>8, <2>3 DEF m
  <2> QED
    BY <1>7, <2>1, <2>2, <2>3
<1>9. m + 1 <= MaxSessions
  BY <1>1, <1>4, <1>7 DEF m
<1>10. u \in Seq(ToSet(u))
  BY <1>7 DEF ToSet
<1>11. ASSUME NEW i \in 1..(m + 1)
       PROVE  u[i].key = key \/ \E j \in DOMAIN memory : memory[j] = u[i]
  <2>1. CASE i \in 1..m
    <3> DEFINE x == IF i < p THEN i ELSE i + d
    <3>1. x \in 1..n
      BY <1>1, <1>5, <1>7, <2>1
    <3>2. u[i] = memory[x]
      BY <1>6, <1>7, <2>1
    <3> HIDE DEF x
    <3>3. x \in DOMAIN memory /\ memory[x] = u[i]
      BY <1>1, <3>1, <3>2
    <3> QED
      BY <3>3
  <2>2. CASE i = m + 1
    BY <1>3, <1>7, <2>2
  <2> QED
    BY <1>7, <2>1, <2>2
<1>12. m + 1 \in DOMAIN u /\ Len(u) = m + 1 /\ u[Len(u)] = [key |-> key, calls |-> calls]
  BY <1>7 DEF e
<1> QED
  BY <1>7, <1>8, <1>9, <1>10, <1>11, <1>12 DEF u

LEMMA RemembersUsed ==
  ASSUME Remembers, memory' = memory \/ \E key, calls : memory' = Used(key, calls)
  PROVE  Remembers'
<1>1. CASE memory' = memory
  BY <1>1 DEF Remembers
<1>2. ASSUME NEW key, NEW calls, memory' = Used(key, calls)
      PROVE  Remembers'
  <2> DEFINE u == Used(key, calls)
  <2>1. /\ u \in Seq(ToSet(u)) /\ Len(u) <= MaxSessions
        /\ \A i, j \in DOMAIN u : u[i].key = u[j].key => i = j
    BY UsedIs
  <2> HIDE DEF u
  <2>2. memory' = u
    BY <1>2 DEF u
  <2> QED
    BY <2>1, <2>2 DEF Remembers
<1> QED
  BY <1>1, <1>2

-----------------------------------------------------------------------------
(* The initial states, and the steps before there is an answer.            *)

LEMMA NewAdapterIs ==
  ASSUME NEW captures \in BOOLEAN, NEW declared \in Declarations
  PROVE  NewAdapter(captures, declared) \in Adapters
<1>1. /\ <<>> \in Seq(Events) /\ <<>> \in Seq(Somewhat) /\ None \in Somewhat /\ 0 \in Nat
      /\ 0 \in 0..MaxText /\ {} \in SUBSET (CallIds \cup {None}) /\ "new" \in States
  BY TextAssumption DEF Somewhat, States
<1>2. <<>> \in CallTables
  <2>1. <<>> \in [{} -> CallRecords] /\ IsFiniteSet({}) /\ {} \in SUBSET Indices
    BY FS_EmptySet
  <2> QED
    BY <2>1 DEF CallTables
<1> QED
  BY <1>1, <1>2 DEF NewAdapter, Adapters

LEMMA NothingIsThere ==
  /\ NoFrames \in Upstreams /\ NoFrames.n = 0 /\ NoFrames.rank = 0 /\ NoFrames.tools = <<>>
  /\ ~NoFrames.odd /\ ~NoFrames.overrun
  /\ NoView \in Views /\ NoView.terminals = <<>> /\ NoView.done = <<>> /\ NoView.added = {}
<1>1. <<>> \in [{} -> Nat] /\ {} \in SUBSET Indices /\ -1 \in Int
  OBVIOUS
<1> QED
  BY <1>1 DEF NoFrames, NoView, Upstreams, Views

LEMMA ServesNobody ==
  ASSUME outbox' = <<>>, client' \notin {"reading", "ended"}, stage' # "streaming"
  PROVE  Serves'
<1>1. ~Listening' /\ DOMAIN outbox' = {}
  BY DEF Listening
<1> QED
  BY <1>1 DEF Serves, Observes, Adapts, Translates

LEMMA InitIsInvariant ==
  ASSUME Init
  PROVE  IInv
<1>1. Typed
  <2>1. adapter \in Adapters
    <3>1. FALSE \in BOOLEAN /\ <<>> \in Declarations
      BY DEF Declarations
    <3> QED
      BY <3>1, NewAdapterIs DEF Init
  <2>2. up \in Upstreams /\ up.n <= MaxFrames /\ ~up.overrun
    BY NothingIsThere, StreamAssumption DEF Init
  <2>3. Len(channel) <= Capacity /\ Queued <= MaxBytes
    <3>1. Queued = 0
      BY PlusFrameEmpty DEF Init, Queued
    <3> QED
      BY <3>1, StreamAssumption DEF Init
  <2>4. <<>> \in Seq(Seq(Events)) /\ others \in 0..MaxOthers
    BY StreamAssumption DEF Init
  <2> QED
    BY <2>1, <2>2, <2>3, <2>4 DEF Init, Typed
<1>2. Remembers
  <2>1. memory = <<>>
    BY DEF Init
  <2>2. <<>> \in Seq(ToSet(<<>>)) /\ Len(<<>>) = 0 /\ DOMAIN <<>> = {} /\ 0 <= MaxSessions
    BY StreamAssumption
  <2> QED
    BY <2>1, <2>2 DEF Remembers
<1>3. Retries
  BY StreamAssumption DEF Init, Retries
<1>4. Phases
  BY DEF Init, Phases, Streaming, Listening
<1>5. Serves
  <2>1. outbox = <<>> /\ client \notin {"reading", "ended"} /\ stage # "streaming"
    BY DEF Init
  <2>2. ~Listening /\ DOMAIN outbox = {}
    BY <2>1 DEF Listening
  <2> QED
    BY <2>1, <2>2 DEF Serves, Observes, Adapts, Translates
<1> QED
  BY <1>1, <1>2, <1>3, <1>4, <1>5 DEF IInv

Early == {"arrived", "open", "resolve", "send"}

LEMMA EarlyStep ==
  ASSUME IInv, stage \in Early, stage' \in Early \cup {"answered"},
         UNCHANGED <<req, up, adapter, watch, outbox, rest, codex, others>>,
         exchange' \in {None, "open", "completed", "cancelled"}, Remembers', Retries'
  PROVE  IInv'
<1>1. /\ client = "waiting" /\ got = NoView /\ channel = <<>> /\ outbox = <<>> /\ ~watch
      /\ up = NoFrames
  BY DEF IInv, Phases, Early, Streaming
<1>2. /\ client' = client /\ got' = got /\ channel' = channel /\ outbox' = outbox
      /\ watch' = watch /\ up' = up /\ adapter' = adapter /\ req' = req /\ others' = others
  BY DEF codex
<1>3. Typed'
  <2>1. Queued' = Queued
    BY <1>2 DEF Queued
  <2>2. IsPassthrough' = IsPassthrough
    BY <1>2 DEF IsPassthrough
  <2>3. Typed
    BY DEF IInv
  <2> QED
    BY <1>2, <2>1, <2>2, <2>3 DEF Typed, Early
<1>4. Phases'
  <2>1. got.done \in Seq(ToSet(got.done))
    <3>1. got.done = <<>>
      BY <1>1, NothingIsThere
    <3> QED
      BY <3>1
  <2>2. ~Streaming /\ ~Listening /\ ~Streaming' /\ ~Listening'
    BY <1>1, <1>2 DEF Early, Streaming, Listening
  <2> QED
    BY <1>1, <1>2, <2>1, <2>2 DEF Phases, Early
<1>5. Serves'
  BY <1>1, <1>2, ServesNobody DEF Early
<1> QED
  BY <1>3, <1>4, <1>5 DEF IInv

LEMMA AnswerKeeps ==
  ASSUME IInv, NEW code, Answer(code)
  PROVE  stage' = "answered" /\ exchange' \in {None, "open", "completed", "cancelled"}
BY DEF Answer, IInv, Typed

LEMMA ReceiveKeeps ==
  ASSUME IInv, Receive
  PROVE  IInv'
<1>1. stage = "arrived" /\ stage' \in {"open", "answered"} /\ UNCHANGED <<attempts, tardy>>
      /\ UNCHANGED <<req, up, adapter, watch, outbox, rest, codex, others>>
  BY DEF Receive
<1>2. exchange' \in {None, "open", "completed", "cancelled"}
  BY DEF Receive, IInv, Typed
<1>3. Remembers'
  <2>1. memory' = memory \/ memory' = Used(Mine, Entry(Mine))
    BY DEF Receive
  <2> QED
    BY <2>1, RemembersUsed DEF IInv
<1>4. Retries'
  BY <1>1, StreamAssumption DEF IInv, Retries
<1> QED
  BY <1>1, <1>2, <1>3, <1>4, EarlyStep DEF Early

LEMMA RefuseKeeps ==
  ASSUME IInv, Refuse
  PROVE  IInv'
<1>1. /\ stage \in {"arrived", "open"} /\ Answer("refused") /\ UNCHANGED <<attempts, tardy, memory>>
      /\ UNCHANGED <<req, up, adapter, watch, outbox, rest, codex, others>>
  BY DEF Refuse, history
<1>2. stage' = "answered" /\ exchange' \in {None, "open", "completed", "cancelled"}
  BY <1>1, AnswerKeeps
<1>3. Remembers'
  BY <1>1, RemembersUsed DEF IInv
<1>4. Retries'
  BY <1>1, <1>2 DEF IInv, Retries
<1> QED
  BY <1>1, <1>2, <1>3, <1>4, EarlyStep DEF Early

LEMMA OpenKeeps ==
  ASSUME IInv, Open
  PROVE  IInv'
<1>1. /\ stage = "open" /\ stage' = "resolve"
      /\ UNCHANGED <<exchange, attempts, tardy, memory>>
      /\ UNCHANGED <<req, up, adapter, watch, outbox, rest, codex, others>>
  BY DEF Open, handling, reading, history
<1>2. exchange' \in {None, "open", "completed", "cancelled"}
  BY <1>1 DEF IInv, Typed
<1>3. Remembers'
  BY <1>1, RemembersUsed DEF IInv
<1>4. Retries'
  BY <1>1, StreamAssumption DEF IInv, Retries
<1> QED
  BY <1>1, <1>2, <1>3, <1>4, EarlyStep DEF Early

LEMMA ResolveKeeps ==
  ASSUME IInv, Resolve
  PROVE  IInv'
<1>1. /\ stage = "resolve" /\ attempts' = attempts + 1 /\ tardy' = tardy /\ memory' = memory
      /\ UNCHANGED <<req, up, adapter, watch, outbox, rest, codex, others>>
      /\ \/ stage' = "send" /\ UNCHANGED <<exchange, ending>>
         \/ attempts' <= ConnectRetries /\ UNCHANGED <<stage, exchange, ending>>
         \/ Answer("unreachable")
  BY DEF Resolve, history
<1>2. /\ stage' \in {"resolve", "send", "answered"}
      /\ stage' = "resolve" => attempts' <= ConnectRetries
      /\ exchange' \in {None, "open", "completed", "cancelled"}
  <2>1. exchange \in {None, "open", "completed", "cancelled"}
    BY DEF IInv, Typed
  <2>2. CASE stage' = "send" /\ UNCHANGED <<exchange, ending>>
    BY <2>1, <2>2
  <2>3. CASE attempts' <= ConnectRetries /\ UNCHANGED <<stage, exchange, ending>>
    BY <1>1, <2>1, <2>3
  <2>4. CASE Answer("unreachable")
    BY <2>4, AnswerKeeps
  <2> QED
    BY <1>1, <2>2, <2>3, <2>4
<1>3. Remembers'
  BY <1>1, RemembersUsed DEF IInv
<1>4. Retries'
  <2>1. /\ attempts \in Nat /\ tardy \in Nat /\ tardy <= FirstByteRetries
        /\ attempts <= ConnectRetries + tardy
        /\ ConnectRetries \in Nat /\ FirstByteRetries \in Nat
    BY <1>1, StreamAssumption DEF IInv, Retries
  <2>2. /\ attempts' \in Nat /\ tardy' \in Nat /\ tardy' <= FirstByteRetries
        /\ attempts' <= 1 + ConnectRetries + tardy' /\ tardy' <= 1 + FirstByteRetries
        /\ attempts' <= 1 + ConnectRetries + FirstByteRetries
        /\ attempts' <= ConnectRetries => attempts' <= ConnectRetries + tardy'
    BY <1>1, <2>1
  <2> QED
    BY <1>2, <2>2 DEF Retries
<1> QED
  BY <1>1, <1>2, <1>3, <1>4, EarlyStep DEF Early

LEMMA ConnectFailsKeeps ==
  ASSUME IInv, ConnectFails
  PROVE  IInv'
<1>1. /\ stage = "send" /\ UNCHANGED <<attempts, tardy, memory>>
      /\ UNCHANGED <<req, up, adapter, watch, outbox, rest, codex, others>>
  BY DEF ConnectFails, history
<1>2. /\ stage' \in {"resolve", "answered"} /\ (stage' = "resolve" => attempts <= ConnectRetries)
      /\ exchange' \in {None, "open", "completed", "cancelled"}
  <2>1. exchange \in {None, "open", "completed", "cancelled"}
    BY DEF IInv, Typed
  <2>2. CASE attempts <= ConnectRetries
    BY <2>1, <2>2 DEF ConnectFails
  <2>3. CASE ~(attempts <= ConnectRetries)
    BY <2>3, AnswerKeeps DEF ConnectFails
  <2> QED
    BY <2>2, <2>3
<1>3. Remembers'
  BY <1>1, RemembersUsed DEF IInv
<1>4. Retries'
  BY <1>1, <1>2, StreamAssumption DEF IInv, Retries
<1> QED
  BY <1>1, <1>2, <1>3, <1>4, EarlyStep DEF Early

LEMMA FirstByteIsLateKeeps ==
  ASSUME IInv, FirstByteIsLate
  PROVE  IInv'
<1>1. /\ stage = "send" /\ UNCHANGED <<attempts, memory>> /\ tardy' = tardy + 1
      /\ UNCHANGED <<req, up, adapter, watch, outbox, rest, codex, others>>
  BY DEF FirstByteIsLate, history
<1>2. /\ stage' \in {"resolve", "answered"} /\ (stage' = "resolve" => tardy' <= FirstByteRetries)
      /\ exchange' \in {None, "open", "completed", "cancelled"}
  <2>1. exchange \in {None, "open", "completed", "cancelled"}
    BY DEF IInv, Typed
  <2>2. CASE tardy' <= FirstByteRetries
    BY <2>1, <2>2 DEF FirstByteIsLate
  <2>3. CASE ~(tardy' <= FirstByteRetries)
    BY <2>3, AnswerKeeps DEF FirstByteIsLate
  <2> QED
    BY <2>2, <2>3
<1>3. Remembers'
  BY <1>1, RemembersUsed DEF IInv
<1>4. Retries'
  <2>1. /\ attempts \in Nat /\ tardy \in Nat /\ tardy <= FirstByteRetries
        /\ attempts <= 1 + ConnectRetries + tardy
        /\ ConnectRetries \in Nat /\ FirstByteRetries \in Nat
    BY <1>1, StreamAssumption DEF IInv, Retries
  <2>2. /\ tardy' \in Nat /\ tardy' <= 1 + FirstByteRetries
        /\ attempts' \in Nat /\ attempts' <= ConnectRetries + tardy'
        /\ attempts' <= 1 + ConnectRetries + FirstByteRetries
    BY <1>1, <2>1
  <2> QED
    BY <1>2, <2>2 DEF Retries
<1> QED
  BY <1>1, <1>2, <1>3, <1>4, EarlyStep DEF Early

LEMMA UpstreamRefusesKeeps ==
  ASSUME IInv, UpstreamRefuses
  PROVE  IInv'
<1>1. /\ stage = "send" /\ Answer("upstream") /\ UNCHANGED <<attempts, tardy, memory>>
      /\ UNCHANGED <<req, up, adapter, watch, outbox, rest, codex, others>>
  BY DEF UpstreamRefuses, history
<1>2. stage' = "answered" /\ exchange' \in {None, "open", "completed", "cancelled"}
  BY <1>1, AnswerKeeps
<1>3. Remembers'
  BY <1>1, RemembersUsed DEF IInv
<1>4. Retries'
  BY <1>1, <1>2 DEF IInv, Retries
<1> QED
  BY <1>1, <1>2, <1>3, <1>4, EarlyStep DEF Early

-----------------------------------------------------------------------------
(* The answer begins, or is there as a whole.                              *)

LEMMA RecordedKeeps ==
  ASSUME NEW ids, NEW thought, Recorded(ids, thought)
  PROVE  memory' = memory \/ \E key, calls : memory' = Used(key, calls)
BY DEF Recorded

LEMMA AnswerWholeKeeps ==
  ASSUME IInv, NEW answer \in Answers, AnswerWhole(answer)
  PROVE  IInv'
<1>1. /\ stage = "send" /\ stage' = "answered"
      /\ UNCHANGED <<req, attempts, tardy, up, adapter, watch, outbox, rest, channel, client, others>>
  BY DEF AnswerWhole
<1>2. /\ client = "waiting" /\ got = NoView /\ channel = <<>> /\ outbox = <<>> /\ ~watch
      /\ up = NoFrames
  BY <1>1 DEF IInv, Phases, Streaming
<1>3. exchange' \in {None, "open", "completed", "cancelled"}
      /\ (memory' = memory \/ \E key, calls : memory' = Used(key, calls))
      /\ (got' = got \/ got' = [got EXCEPT !.done = answer, !.added = ToSet(answer),
                                           !.terminals = <<"completed">>])
  <2>1. CASE req.route = "passthrough"
    BY <2>1 DEF AnswerWhole, IInv, Typed
  <2>2. CASE req.route # "passthrough"
    <3>1. exchange' = "completed" /\ got' = [got EXCEPT !.done = answer, !.added = ToSet(answer),
                                                       !.terminals = <<"completed">>]
      BY <2>2 DEF AnswerWhole
    <3>2. \E ids, thought : Recorded(ids, thought)
      BY <2>2 DEF AnswerWhole
    <3> QED
      BY <3>1, <3>2, RecordedKeeps
  <2> QED
    BY <2>1, <2>2
<1>4. Typed'
  <2>1. Queued' = Queued
    BY <1>1 DEF Queued
  <2>2. IsPassthrough' = IsPassthrough
    BY <1>1 DEF IsPassthrough
  <2>3. Typed
    BY DEF IInv
  <2> QED
    BY <1>1, <1>3, <2>1, <2>2, <2>3 DEF Typed
<1>5. Remembers'
  BY <1>3, RemembersUsed DEF IInv
<1>6. Retries'
  BY <1>1 DEF IInv, Retries
<1>7. Phases'
  <2>1. /\ got' = NoView \/ (Whole(got') /\ got'.terminals = <<"completed">>)
        /\ got'.done \in Seq(ToSet(got'.done))
    <3>1. CASE got' = got
      <4>1. got' = NoView /\ got'.done = <<>>
        BY <1>2, <3>1, NothingIsThere
      <4> QED
        BY <4>1
    <3>2. CASE got' = [got EXCEPT !.done = answer, !.added = ToSet(answer),
                                  !.terminals = <<"completed">>]
      <4>1. answer \in Seq(ToSet(answer)) /\ Once(answer)
        BY AnswerAssumption DEF Once, IsInjective
      <4>2. got'.done = answer /\ got'.added = ToSet(answer) /\ got'.terminals = <<"completed">>
        BY <1>2, <3>2 DEF NoView
      <4> QED
        BY <4>1, <4>2 DEF Whole
    <3> QED
      BY <1>3, <3>1, <3>2
  <2>2. ~Streaming' /\ ~Listening'
    BY <1>1, <1>2 DEF Streaming, Listening
  <2>3. ~watch' /\ up' = NoFrames /\ client' = "waiting" /\ channel' = <<>> /\ outbox' = <<>>
    BY <1>1, <1>2
  <2> QED
    BY <1>1, <2>1, <2>2, <2>3 DEF Phases
<1>8. Serves'
  BY <1>1, <1>2, ServesNobody
<1> QED
  BY <1>4, <1>5, <1>6, <1>7, <1>8 DEF IInv

LEMMA QuietFrame ==
  ASSUME NEW e \in Events
  PROVE  /\ <<e>> \in Seq(Events) /\ (Quiet(<<e>>) <=> e.type \notin Endings)
         /\ \A v : FoldLeft(View, v, <<e>>) = View(v, e)
<1>1. <<>> \in Seq({e}) /\ e \in {e} /\ Append(<<>>, e) = <<e>> /\ <<e>> \in Seq(Events)
  OBVIOUS
<1>2. ASSUME NEW v
      PROVE  FoldLeft(View, v, <<e>>) = View(v, e)
  <2>1. FoldLeft(View, v, Append(<<>>, e)) = View(FoldLeft(View, v, <<>>), e)
    <3> DEFINE z == <<>>
    <3>1. z \in Seq({e}) /\ e \in {e}
      BY <1>1
    <3> HIDE DEF z
    <3>2. FoldLeft(View, v, Append(z, e)) = View(FoldLeft(View, v, z), e)
      BY <3>1, ViewAppend
    <3> QED
      BY <3>2 DEF z
  <2> QED
    BY <1>1, <2>1, ViewEmpty
<1>3. Quiet(<<e>>) <=> e.type \notin Endings
  <2>1. DOMAIN <<e>> = {1} /\ <<e>>[1] = e
    OBVIOUS
  <2> QED
    BY <2>1 DEF Quiet
<1> QED
  BY <1>1, <1>2, <1>3

\* The first event of an answer.
LEMMA StartedIs ==
  ASSUME NEW captures \in BOOLEAN, NEW declared \in Declarations
  PROVE  LET a == Started(NewAdapter(captures, declared))
         IN  /\ a \in Adapters /\ Len(a.out) = 1 /\ Quiet(a.out)
             /\ Alive(NoFrames, a, Seen(NoView, a))
<1> DEFINE z == NewAdapter(captures, declared)
           o == [z EXCEPT !.state = "open"]
           a == Emit(o, "created", None)
           w == Seen(NoView, a)
<1>1. Started(z) = a
  BY DEF Started
<1>2. /\ o \in Adapters /\ ~o.err /\ o.out = <<>> /\ o.failures = <<>> /\ ~IsOver(o)
      /\ ~o.open /\ ~o.thinking /\ o.calls = <<>> /\ o.reasoning = None /\ o.state = "open"
  <2>1. z \in Adapters
    BY NewAdapterIs
  <2>2. /\ ~z.err /\ z.out = <<>> /\ z.failures = <<>> /\ ~z.open /\ ~z.thinking
        /\ z.calls = <<>> /\ z.reasoning = None
    BY DEF NewAdapter
  <2> HIDE DEF z
  <2> QED
    BY <2>1, <2>2 DEF Adapters, States, IsOver
<1>3. NoView \in Views /\ Seen(NoView, o) = NoView
  BY <1>2, NothingIsThere, ViewEmpty DEF Seen
<1>4. Len(a.out) = 1
  <2> DEFINE e == Event(o, "created", None)
  <2>1. a.out = Append(o.out, e)
    BY <1>2 DEF Emit, Adapters
  <2> HIDE DEF e, a, o
  <2> QED
    BY <1>2, <2>1
<1> HIDE DEF o
<1>5. /\ Goes(o, a) /\ SameBut(o, a) /\ Shows(NoView, o, a, {}, <<>>)
  BY <1>2, <1>3, EmitIs DEF EventTypes, Endings, Terminals, Somewhat
<1> HIDE DEF a
<1>6. /\ a \in Adapters /\ ~a.err /\ a.failures = <<>> /\ ~IsOver(a) /\ Quiet(a.out)
      /\ ~a.open /\ ~a.thinking /\ a.calls = <<>> /\ a.reasoning = None
  BY <1>2, <1>5 DEF Goes, SameBut, IsOver, Quiet
<1>7. w \in Views /\ w.added = {} /\ w.done = <<>>
  <2>1. <<>> \o <<>> = <<>>
    OBVIOUS
  <2> QED
    BY <1>3, <1>5, <2>1, NothingIsThere DEF Shows
<1>8. w.terminals = <<>>
  <2> DEFINE out == a.out
  <2>1. out \in Seq(Events)
    BY <1>6 DEF Adapters
  <2> HIDE DEF out
  <2>2. Quiet(out) => FoldLeft(View, NoView, out).terminals = NoView.terminals
    BY <1>3, <2>1, ViewOfEvents
  <2> QED
    BY <1>6, <2>2, NothingIsThere DEF out, Seen
<1> HIDE DEF w
<1>9. Orderly(NoFrames, a, w)
  <2>1. Opened(a) = {}
    BY <1>6 DEF Opened
  <2>2. ToSet(w.done) = {} /\ Once(w.done)
    BY <1>7 DEF ToSet, Once
  <2>3. CallsMatch(NoFrames, a)
    BY <1>6, NothingIsThere DEF CallsMatch
  <2> QED
    BY <1>6, <1>7, <2>1, <2>2, <2>3, NothingIsThere DEF Orderly
<1>10. Alive(NoFrames, a, w)
  BY <1>6, <1>8, <1>9, NothingIsThere DEF Alive
<1> QED
  BY <1>1, <1>4, <1>6, <1>10 DEF w

LEMMA StartStreamKeeps ==
  ASSUME IInv, StartStream
  PROVE  IInv'
<1>1. /\ stage = "send" /\ stage' = "streaming" /\ client' = "reading" /\ rest' = "read"
      /\ attempts' = 0 /\ tardy' = 0
      /\ UNCHANGED <<req, exchange, up, watch, channel, got, memory, others>>
  BY DEF StartStream, history
<1>2. /\ client = "waiting" /\ got = NoView /\ channel = <<>> /\ outbox = <<>> /\ ~watch
      /\ up = NoFrames
  BY <1>1 DEF IInv, Phases, Streaming
<1> DEFINE a == Started(NewAdapter(req.thinking, ToolsOf(req)))
<1>3. IF IsPassthrough THEN adapter' = adapter /\ outbox' = <<>>
      ELSE adapter' = a /\ outbox' = Single(a.out)
  BY <1>2 DEF StartStream, IsPassthrough, Single
<1>4. /\ a \in Adapters /\ Len(a.out) = 1 /\ Quiet(a.out)
      /\ Alive(NoFrames, a, Seen(NoView, a))
  <2>1. req.thinking \in BOOLEAN /\ ToolsOf(req) \in Declarations
    BY RequestAssumption DEF IInv, Typed, Declarations
  <2> QED
    BY <2>1, StartedIs
<1> HIDE DEF a
<1> DEFINE o == a.out
<1>5. /\ Single(o) \in Seq(Seq(Events)) /\ Len(Single(o)) = 1 /\ DOMAIN Single(o) = {1}
      /\ \A v : FoldLeft(ViewFrame, v, Single(o)) = FoldLeft(View, v, o)
  <2>1. o \in Seq(Events) /\ Len(o) = 1
    BY <1>4 DEF Adapters
  <2> HIDE DEF o
  <2>2. DOMAIN o = {1}
    BY <2>1
  <2> QED
    BY <2>1, <2>2, SinglesAre
<1>6. Typed'
  <2>1. Queued' = Queued
    BY <1>1 DEF Queued
  <2>2. IsPassthrough' = IsPassthrough
    BY <1>1 DEF IsPassthrough
  <2>3. outbox' \in Seq(Seq(Events)) /\ adapter' \in Adapters
    <3>1. <<>> \in Seq(Seq(Events)) /\ adapter \in Adapters
      BY DEF IInv, Typed
    <3> QED
      BY <1>3, <1>4, <1>5, <3>1
  <2>4. Typed
    BY DEF IInv
  <2> QED
    BY <1>1, <2>1, <2>2, <2>3, <2>4 DEF Typed
<1>7. Remembers'
  BY <1>1, RemembersUsed DEF IInv
<1>8. Retries'
  BY <1>1, StreamAssumption DEF IInv, Retries
<1>9. Phases'
  <2>1. Streaming' /\ got' \in Views
    BY <1>1, <1>2, NothingIsThere DEF Streaming
  <2> QED
    BY <1>1, <2>1 DEF Phases
<1>10. CASE IsPassthrough
  <2>1. outbox' = <<>> /\ IsPassthrough'
    BY <1>1, <1>3, <1>10 DEF IsPassthrough
  <2>2. Total' = NoView
    <3>1. Ahead' = <<>>
      BY <1>1, <1>2, <2>1 DEF Ahead
    <3> QED
      BY <1>1, <1>2, <3>1, ViewFrameEmpty DEF Total
  <2>3. Observes'
    BY <1>1, <1>2, <2>1, <2>2, NothingIsThere DEF Observes
  <2> QED
    BY <1>6, <1>7, <1>8, <1>9, <2>1, <2>3 DEF IInv, Serves
<1>11. CASE ~IsPassthrough
  <2>1. outbox' = Single(o) /\ adapter' = a /\ ~IsPassthrough'
    BY <1>1, <1>3, <1>11 DEF IsPassthrough
  <2>2. Ahead' = Single(o)
    <3> HIDE DEF o
    <3>1. <<>> \o Single(o) = Single(o)
      BY <1>5
    <3> QED
      BY <1>1, <1>2, <2>1, <3>1 DEF Ahead
  <2>3. Total' = Seen(NoView, a)
    BY <1>1, <1>2, <1>5, <2>2 DEF Total, Seen
  <2>4. Seen(NoView, a) \in Views /\ Seen(NoView, a).terminals = <<>>
    <3>1. o \in Seq(Events) /\ Quiet(o)
      BY <1>4 DEF Adapters
    <3> HIDE DEF o
    <3>2. FoldLeft(View, NoView, o) \in Views /\ FoldLeft(View, NoView, o).terminals = <<>>
      BY <3>1, ViewOfEvents, NothingIsThere
    <3> QED
      BY <3>2 DEF Seen, o
  <2>5. Adapts'
    BY <1>1, <1>2, <1>4, <2>1, <2>3, <2>4 DEF Adapts
  <2>6. Translates'
    <3>1. got'.terminals = <<>> /\ Len(Total'.terminals) <= 1
      <4>1. Len(<<>>) = 0
        OBVIOUS
      <4> QED
        BY <1>1, <1>2, <2>3, <2>4, <4>1, NothingIsThere
    <3>2. \A i \in DOMAIN Ahead' : i = Len(Ahead')
      BY <1>5, <2>2
    <3> QED
      BY <1>1, <3>1, <3>2 DEF Translates
  <2> QED
    BY <1>6, <1>7, <1>8, <1>9, <2>1, <2>5, <2>6 DEF IInv, Serves
<1> QED
  BY <1>10, <1>11

-----------------------------------------------------------------------------
(* The task reads.                                                         *)

\* What the task leaves alone.
TaskStep == UNCHANGED <<req, attempts, tardy, codex, others>>

LEMMA TaskStepKeeps ==
  ASSUME IInv, stage = "streaming", stage' = "streaming", TaskStep,
         exchange' \in {None, "open", "completed", "cancelled"},
         up' \in Upstreams, up'.n <= MaxFrames, up'.odd \/ ~up'.overrun \/ IsPassthrough,
         adapter' \in Adapters, watch' \in BOOLEAN, outbox' \in Seq(Seq(Events)),
         rest' \in {"read", "end"}, Remembers', Serves'
  PROVE  IInv'
<1>1. /\ req' = req /\ attempts' = attempts /\ tardy' = tardy /\ channel' = channel
      /\ client' = client /\ got' = got /\ others' = others
  BY DEF TaskStep, codex
<1>2. Typed'
  <2>1. Queued' = Queued
    BY <1>1 DEF Queued
  <2>2. IsPassthrough' = IsPassthrough
    BY <1>1 DEF IsPassthrough
  <2>3. Typed
    BY DEF IInv
  <2> QED
    BY <1>1, <2>1, <2>2, <2>3 DEF Typed
<1>3. Retries'
  BY <1>1 DEF IInv, Retries
<1>4. Phases'
  <2>1. Streaming /\ Streaming' /\ (Listening' <=> Listening)
    BY <1>1 DEF Streaming, Listening
  <2>2. /\ client # "waiting" /\ client # "ended" /\ (Listening => got \in Views)
        /\ client = "left" => got = NoView /\ channel = <<>>
    BY <2>1 DEF IInv, Phases
  <2> QED
    BY <1>1, <2>1, <2>2 DEF Phases
<1> QED
  BY <1>2, <1>3, <1>4 DEF IInv

LEMMA Pumps ==
  ASSUME IInv, Pumping
  PROVE  /\ stage = "streaming" /\ rest = "read" /\ outbox = <<>> /\ Ahead = channel
         /\ client \in {"reading", "left"} /\ (Listening <=> client # "left")
         /\ got \in Views /\ channel \in Seq(Seq(Events)) /\ Total \in Views
         /\ ~IsPassthrough => \E w \in Views : Alive(up, adapter, w) /\ (Listening => w = Total)
<1>1. stage = "streaming" /\ rest = "read" /\ outbox = <<>>
  BY DEF Pumping
<1>2. /\ client \in {"reading", "left"} /\ (Listening <=> client # "left")
  BY <1>1 DEF IInv, Typed, Phases, Streaming, Listening
<1>3. got \in Views
  BY <1>2, NothingIsThere DEF IInv, Phases
<1>4. channel \in Seq(Seq(Events))
  BY DEF IInv, Typed
<1>5. Ahead = channel
  BY <1>1, <1>4, QueuesMove DEF Ahead
<1>6. Total \in Views
  BY <1>3, <1>4, <1>5, FramesAreViewed DEF Total
<1>7. ~IsPassthrough => \E w \in Views : Alive(up, adapter, w) /\ (Listening => w = Total)
  BY <1>1, <1>2 DEF IInv, Serves, Adapts
<1> QED
  BY <1>1, <1>2, <1>3, <1>4, <1>5, <1>6, <1>7

\* What a read adds to what Codex is sent.
LEMMA Appended ==
  ASSUME IInv, Pumping, NEW q \in Seq(Seq(Events)), outbox' = q, UNCHANGED codex
  PROVE  /\ Ahead' = channel \o q /\ Total' = FoldLeft(ViewFrame, Total, q) /\ Total' \in Views
         /\ Len(Total'.terminals) >= Len(Total.terminals)
         /\ q = <<>> => Ahead' = Ahead /\ Total' = Total
         /\ (Listening' <=> Listening)
         /\ Total.terminals = <<>> =>
              /\ got.terminals = <<>> /\ \A i \in DOMAIN channel : Quiet(channel[i])
<1>1. /\ got \in Views /\ channel \in Seq(Seq(Events)) /\ Total \in Views /\ Ahead = channel
  BY Pumps
<1>2. Ahead' = channel \o q /\ got' = got /\ client' = client
  BY DEF Ahead, codex
<1>3. Total = FoldLeft(ViewFrame, got, channel)
  BY <1>1 DEF Total
<1>4. Total' = FoldLeft(ViewFrame, Total, q)
  BY <1>1, <1>2, <1>3, QueuesJoin DEF Total
<1>5. Total' \in Views /\ Len(Total'.terminals) >= Len(Total.terminals)
  BY <1>1, <1>4, FramesAreViewed
<1>6. q = <<>> => Ahead' = Ahead /\ Total' = Total
  <2>1. channel \o <<>> = channel
    BY <1>1, QueuesMove
  <2> QED
    BY <1>1, <1>2, <1>4, <2>1, ViewFrameEmpty
<1>7. Total.terminals = <<>> =>
        got.terminals = <<>> /\ \A i \in DOMAIN channel : Quiet(channel[i])
  BY <1>1, <1>3, FramesAreQuiet
<1> QED
  BY <1>2, <1>4, <1>5, <1>6, <1>7 DEF Listening

\* The frames before the last stay quiet.
LEMMA QuietAhead ==
  ASSUME NEW p \in Seq(Seq(Events)), \A i \in DOMAIN p : Quiet(p[i]),
         NEW q \in Seq(Seq(Events)), \A i \in DOMAIN q : i # Len(q) => Quiet(q[i])
  PROVE  \A i \in DOMAIN (p \o q) : i # Len(p \o q) => Quiet((p \o q)[i])
<1> SUFFICES ASSUME NEW i \in DOMAIN (p \o q), i # Len(p \o q)
             PROVE  Quiet((p \o q)[i])
  OBVIOUS
<1>1. /\ Len(p) \in Nat /\ Len(q) \in Nat /\ i \in 1..(Len(p) + Len(q)) /\ i # Len(p) + Len(q)
      /\ NoView \in Views
  BY QueuesJoin, NothingIsThere
<1>2. IF i <= Len(p) THEN i \in DOMAIN p /\ (p \o q)[i] = p[i]
      ELSE i - Len(p) \in DOMAIN q /\ (p \o q)[i] = q[i - Len(p)]
  BY <1>1, QueuesJoin
<1>3. i - Len(p) # Len(q)
  <2> DEFINE n == Len(p)
             m == Len(q)
  <2>1. n \in Nat /\ m \in Nat /\ i \in Int /\ i # n + m
    BY <1>1
  <2>2. \A a, b, c \in Int : a # b + c => a - b # c
    OBVIOUS
  <2> HIDE DEF n, m
  <2>3. n \in Int /\ m \in Int
    BY <2>1
  <2>4. i - n # m
    BY <2>1, <2>2, <2>3, Zenon
  <2> QED
    BY <2>4 DEF n, m
<1> QED
  BY <1>2, <1>3

\* The frames of one event each.
LEMMA LeadsAhead ==
  ASSUME NEW s \in Seq(Events), Leads(s)
  PROVE  \A i \in DOMAIN Single(s) : i # Len(Single(s)) => Quiet(Single(s)[i])
<1> SUFFICES ASSUME NEW i \in DOMAIN Single(s), i # Len(Single(s))
             PROVE  Quiet(Single(s)[i])
  OBVIOUS
<1>1. i \in DOMAIN s /\ i # Len(s) /\ Single(s)[i] = <<s[i]>> /\ s[i] \in Events
  <2>1. /\ DOMAIN Single(s) = DOMAIN s /\ Len(Single(s)) = Len(s)
        /\ \A j \in DOMAIN s : Single(s)[j] = <<s[j]>>
    BY SinglesAre
  <2>2. i \in DOMAIN s
    BY <2>1
  <2> QED
    BY <2>1, <2>2
<1> QED
  BY <1>1, QuietFrame DEF Leads

\* A failure is the only word on how the answer ended.
LEMMA FailureServes ==
  ASSUME IInv, Pumping, ~IsPassthrough, UNCHANGED <<req, stage, codex>>,
         NEW a \in Adapters, outbox' = Single(a.failures), rest' = "end",
         ending' # "finished", up'.odd \/ ~up'.overrun, up'.overrun \in BOOLEAN,
         ~up'.overrun => Failed(a) /\ (Listening => Total.terminals = <<>>)
  PROVE  Serves' /\ outbox' \in Seq(Seq(Events))
<1> DEFINE f == a.failures
           q == Single(f)
<1>1. f \in Seq(Events)
  BY DEF Adapters
<1> HIDE DEF f
<1>2. /\ q \in Seq(Seq(Events)) /\ Len(q) = Len(f) /\ DOMAIN q = DOMAIN f
      /\ \A i \in DOMAIN f : q[i] = <<f[i]>>
      /\ \A v : FoldLeft(ViewFrame, v, q) = FoldLeft(View, v, f)
  BY <1>1, SinglesAre
<1>3. outbox' = q /\ ~IsPassthrough'
  BY DEF f, IsPassthrough
<1> HIDE DEF q
<1>4. /\ Ahead' = channel \o q /\ Total' = FoldLeft(View, Total, f) /\ Total' \in Views
      /\ (Listening' <=> Listening) /\ Total \in Views /\ channel \in Seq(Seq(Events))
      /\ got' = got
      /\ Total.terminals = <<>> =>
              got.terminals = <<>> /\ \A i \in DOMAIN channel : Quiet(channel[i])
  BY <1>2, <1>3, Appended, Pumps DEF codex
<1>5. ASSUME Listening, ~up'.overrun
      PROVE  /\ got.terminals = <<>> /\ Total'.terminals = <<"failed">>
             /\ \A i \in DOMAIN Ahead' : i # Len(Ahead') => Quiet(Ahead'[i])
  <2>1. PICK e \in Events : e.type = "failed" /\ f = <<e>>
    BY <1>5 DEF Failed, f
  <2>2. Total.terminals = <<>>
    BY <1>5
  <2>3. Total' = View(Total, e)
    BY <1>4, <2>1, QuietFrame
  <2>4. Total'.terminals = Append(<<>>, "failed")
    BY <1>4, <2>1, <2>2, <2>3, ViewOfEvent DEF Endings, Terminals
  <2>5. Append(<<>>, "failed") = <<"failed">>
    OBVIOUS
  <2>6. \A i \in DOMAIN q : i # Len(q) => Quiet(q[i])
    <3>1. DOMAIN f = {1} /\ Len(f) = 1
      BY <2>1
    <3> QED
      BY <1>2, <3>1
  <2>7. \A i \in DOMAIN channel : Quiet(channel[i])
    BY <1>4, <2>2
  <2> QED
    BY <1>2, <1>4, <2>2, <2>4, <2>5, <2>6, <2>7, QuietAhead
<1>6. Adapts'
  BY DEF Adapts
<1>7. Translates'
  <2>1. <<"failed">> # <<>> /\ Len(<<"failed">>) = 1 /\ <<"failed">> # <<"completed">>
        /\ <<"failed">> # <<"incomplete">>
    OBVIOUS
  <2>2. ASSUME Listening, ~up'.overrun
        PROVE  /\ got'.terminals = <<>> /\ Len(Total'.terminals) <= 1 /\ Total'.terminals # <<>>
               /\ ~Succeeds(Total')
               /\ \A i \in DOMAIN Ahead' : i # Len(Ahead') => Quiet(Ahead'[i])
    <3>1. /\ got.terminals = <<>> /\ Total'.terminals = <<"failed">>
          /\ \A i \in DOMAIN Ahead' : i # Len(Ahead') => Quiet(Ahead'[i])
      BY <1>5, <2>2
    <3>2. Len(Total'.terminals) <= 1 /\ Total'.terminals # <<>>
      BY <2>1, <3>1
    <3>3. ~Succeeds(Total')
      BY <2>1, <3>1 DEF Succeeds
    <3> QED
      BY <1>4, <3>1, <3>2, <3>3
  <2> QED
    BY <1>4, <2>2 DEF Translates
<1> QED
  BY <1>2, <1>3, <1>6, <1>7 DEF Serves

-----------------------------------------------------------------------------
(* The task reads a native upstream.                                       *)

LEMMA OneFrame ==
  ASSUME NEW s \in Seq(Events)
  PROVE  /\ <<s>> \in Seq(Seq(Events)) /\ DOMAIN <<s>> = {1} /\ <<s>>[1] = s /\ Len(<<s>>) = 1
         /\ \A v : FoldLeft(ViewFrame, v, <<s>>) = FoldLeft(View, v, s)
<1>1. /\ <<>> \in Seq({s}) /\ s \in {s} /\ Append(<<>>, s) = <<s>> /\ <<s>> \in Seq(Seq(Events))
      /\ DOMAIN <<s>> = {1} /\ <<s>>[1] = s /\ Len(<<s>>) = 1
  OBVIOUS
<1>2. ASSUME NEW v
      PROVE  FoldLeft(ViewFrame, v, <<s>>) = FoldLeft(View, v, s)
  <2>1. FoldLeft(ViewFrame, v, Append(<<>>, s)) = ViewFrame(FoldLeft(ViewFrame, v, <<>>), s)
    <3> DEFINE z == <<>>
    <3>1. z \in Seq({s}) /\ s \in {s}
      BY <1>1
    <3> HIDE DEF z
    <3>2. FoldLeft(ViewFrame, v, Append(z, s)) = ViewFrame(FoldLeft(ViewFrame, v, z), s)
      BY <3>1, ViewFrameAppend
    <3> QED
      BY <3>2 DEF z
  <2> QED
    BY <1>1, <2>1, ViewFrameEmpty DEF ViewFrame
<1> QED
  BY <1>1, <1>2

\* The error that the task tells itself.
LEMMA ErrorIsTold ==
  ASSUME up \in Upstreams, NEW v \in Views
  PROVE  /\ ErrorFrame \in Seq(Events) /\ Bytes(ErrorFrame) = 1
         /\ FoldLeft(View, v, ErrorFrame).terminals = Append(v.terminals, "error")
<1> DEFINE e == [type |-> "error", seq |-> up.n, item |-> None, size |-> 1]
<1>1. e \in Events /\ e.type = "error" /\ e.size = 1
  BY DEF Upstreams, Events, EventTypes, Endings, Somewhat
<1>2. ErrorFrame = <<e>>
  BY DEF ErrorFrame
<1> HIDE DEF e
<1>3. <<e>> \in Seq(Events) /\ DOMAIN <<e>> = {1} /\ <<e>>[1] = e /\ Len(<<e>>) = 1
  BY <1>1
<1>4. Bytes(<<e>>) = 1
  BY <1>1, <1>3, BytesAre
<1>5. FoldLeft(View, v, <<e>>).terminals = Append(v.terminals, "error")
  <2>1. FoldLeft(View, v, <<e>>) = View(v, e)
    BY <1>1, QuietFrame
  <2>2. e.type \in Endings
    BY <1>1 DEF Endings
  <2> QED
    BY <1>1, <2>1, <2>2, ViewOfEvent
<1> QED
  BY <1>2, <1>3, <1>4, <1>5

LEMMA NativeEndServes ==
  ASSUME IInv, Pumping, IsPassthrough, UNCHANGED <<req, stage, up, watch, codex>>,
         outbox' = (IF watch THEN <<>> ELSE <<ErrorFrame>>), rest' = "end"
  PROVE  Serves' /\ outbox' \in Seq(Seq(Events))
<1>1. /\ IsPassthrough' /\ rest = "read" /\ Total \in Views /\ Len(Total.terminals) \in Nat
      /\ up \in Upstreams
  BY Pumps DEF IsPassthrough, Views, IInv, Typed
<1>2. Listening =>
        /\ watch => Total.terminals # <<>>
        /\ ~up.odd /\ ~up.overrun =>
             /\ Len(Total.terminals) <= 1
             /\ IF up.rank = 3 THEN watch ELSE up.rank < 3 /\ Total.terminals = <<>>
  BY <1>1 DEF IInv, Serves, Observes
<1>3. CASE watch
  <2>1. outbox' = <<>> /\ <<>> \in Seq(Seq(Events)) /\ DOMAIN <<>> = {}
    BY <1>3
  <2>2. Total' = Total /\ (Listening' <=> Listening)
    BY <2>1, Appended
  <2>3. Observes'
    BY <1>2, <1>3, <2>1, <2>2 DEF Observes
  <2> QED
    BY <1>1, <2>1, <2>3 DEF Serves
<1>4. CASE ~watch
  <2>1. /\ ErrorFrame \in Seq(Events) /\ Bytes(ErrorFrame) = 1
        /\ FoldLeft(View, Total, ErrorFrame).terminals = Append(Total.terminals, "error")
    BY <1>1, ErrorIsTold
  <2> DEFINE q == <<ErrorFrame>>
  <2>2. /\ q \in Seq(Seq(Events)) /\ DOMAIN q = {1} /\ q[1] = ErrorFrame /\ outbox' = q
        /\ \A v : FoldLeft(ViewFrame, v, q) = FoldLeft(View, v, ErrorFrame)
    BY <1>4, <2>1, OneFrame
  <2> HIDE DEF q
  <2>3. (Listening' <=> Listening) /\ Total'.terminals = Append(Total.terminals, "error")
    BY <2>1, <2>2, Appended
  <2>4. Total'.terminals # <<>> /\ (Total.terminals = <<>> => Len(Total'.terminals) = 1)
    <3>1. Total.terminals \in Seq(Endings)
      BY <1>1 DEF Views
    <3> QED
      BY <2>3, <3>1
  <2>5. \A i \in DOMAIN outbox' : Bytes(outbox'[i]) <= MaxBytes
    BY <2>1, <2>2, StreamAssumption
  <2>6. up' = up
    OBVIOUS
  <2>7. Observes'
    BY <1>2, <1>4, <2>3, <2>4, <2>5, <2>6 DEF Observes
  <2> QED
    BY <1>1, <2>2, <2>7 DEF Serves
<1> QED
  BY <1>3, <1>4

LEMMA NativeFrameIs ==
  ASSUME up \in Upstreams, NEW frames \in Seq(NativeFrames), Len(frames) <= MaxBytes
  PROVE  /\ Native(frames) \in Seq(Events) /\ Bytes(Native(frames)) <= MaxBytes
         /\ Len(Native(frames)) = Len(frames)
         /\ \A i \in 1..Len(frames) :
              Native(frames)[i].type \in Endings <=> frames[i].k \in {"terminal", "tail"}
<1> DEFINE n == Len(frames)
           s == Native(frames)
           Type(i) == IF frames[i].k \in {"terminal", "tail"} THEN "completed" ELSE frames[i].k
<1>1. n \in Nat /\ DOMAIN frames = 1..n /\ \A i \in 1..n : frames[i] \in NativeFrames
  OBVIOUS
<1>2. s = [i \in 1..n |-> [type |-> Type(i), seq |-> up.n + i - 1, item |-> None, size |-> 1]]
  BY <1>1 DEF Native
<1>3. \A i \in 1..n : /\ Type(i) \in EventTypes
                      /\ Type(i) \in Endings <=> frames[i].k \in {"terminal", "tail"}
  <2>1. \A f \in NativeFrames : f.k \in {"event", "terminal", "DONE", "head", "tail"}
    BY DEF NativeFrames, Frame
  <2> QED
    BY <1>1, <2>1 DEF EventTypes, Endings, Terminals
<1>4. \A i \in 1..n : up.n + i - 1 \in Nat
  BY DEF Upstreams
<1> HIDE DEF Type, n, s
<1>5. \A i \in 1..n : s[i] \in Events /\ s[i].type = Type(i) /\ s[i].size = 1
  BY <1>2, <1>3, <1>4 DEF Events, Somewhat
<1>6. s \in [1..n -> Events]
  BY <1>2, <1>5
<1>7. s \in Seq(Events) /\ Len(s) = n /\ DOMAIN s = 1..n
  <2>1. s \in Seq(Events) /\ DOMAIN s = 1..n
    BY <1>1, <1>6, SeqDef
  <2>2. Len(s) = n
    BY <1>1, <2>1
  <2> QED
    BY <2>1, <2>2
<1>8. Bytes(s) = n
  BY <1>5, <1>7, BytesAre
<1> QED
  BY <1>3, <1>5, <1>7, <1>8 DEF n, s

LEMMA NativeReadServes ==
  ASSUME IInv, Pumping, IsPassthrough, NEW frames \in Reads(up), up' = Upstream(up, frames),
         watch' = Observed(frames), outbox' = <<Native(frames)>>,
         UNCHANGED <<req, stage, rest, codex>>
  PROVE  Serves' /\ outbox' \in Seq(Seq(Events))
<1> DEFINE n == Len(frames)
           s == Native(frames)
<1>1. /\ IsPassthrough' /\ rest = "read" /\ Total \in Views /\ up \in Upstreams
      /\ Len(Total.terminals) \in Nat
  BY Pumps DEF IsPassthrough, Views, IInv, Typed
<1>2. Listening =>
        /\ watch => Total.terminals # <<>>
        /\ ~up.odd /\ ~up.overrun =>
             /\ Len(Total.terminals) <= 1
             /\ IF up.rank = 3 THEN watch ELSE up.rank < 3 /\ Total.terminals = <<>>
  BY <1>1 DEF IInv, Serves, Observes
<1>3. frames \in Seq(NativeFrames) /\ n >= 1 /\ n <= MaxBytes /\ n \in Nat /\ DOMAIN frames = 1..n
  <2>1. frames \in Seq(Frames) /\ frames # <<>> /\ Len(frames) <= MaxRead
    BY ReadsAre
  <2>2. Frames = NativeFrames
    BY DEF Frames, IsPassthrough
  <2> HIDE DEF n
  <2>3. frames \in Seq(NativeFrames) /\ n >= 1 /\ n \in Nat /\ DOMAIN frames = 1..n /\ n <= MaxRead
    BY <2>1, <2>2 DEF n
  <2> QED
    BY <2>3, StreamAssumption
<1>4. /\ s \in Seq(Events) /\ Bytes(s) <= MaxBytes /\ Len(s) = n
      /\ \A i \in 1..n : s[i].type \in Endings <=> frames[i].k \in {"terminal", "tail"}
  BY <1>1, <1>3, NativeFrameIs
<1> HIDE DEF s
<1>5. DOMAIN s = 1..n
  BY <1>4
<1>6. /\ outbox' = <<s>> /\ <<s>> \in Seq(Seq(Events)) /\ DOMAIN <<s>> = {1} /\ <<s>>[1] = s
      /\ \A v : FoldLeft(ViewFrame, v, <<s>>) = FoldLeft(View, v, s)
  BY <1>4, OneFrame DEF s
<1> HIDE DEF n
<1>7. (Listening' <=> Listening) /\ Total' = FoldLeft(View, Total, s) /\ Total' \in Views
      /\ Len(Total'.terminals) >= Len(Total.terminals)
  BY <1>6, Appended
<1>8. \A i \in DOMAIN outbox' : Bytes(outbox'[i]) <= MaxBytes
  BY <1>4, <1>6
<1>9. ASSUME Listening, watch'
      PROVE  Total'.terminals # <<>>
  <2>1. CASE watch
    <3>1. Total.terminals # <<>> /\ Total.terminals \in Seq(Endings) /\ Total'.terminals \in Seq(Endings)
      BY <1>1, <1>2, <1>7, <1>9, <2>1 DEF Views
    <3> QED
      BY <1>7, <3>1
  <2>2. CASE ~watch
    <3>1. PICK i \in 1..n : frames[i].k = "terminal"
      BY <1>3, <1>9, <2>2 DEF Observed
    <3>2. \E j \in DOMAIN s : s[j].type \in Endings
      BY <1>4, <1>5, <3>1
    <3> QED
      BY <1>1, <1>4, <1>7, <3>2, EndsAreTold
  <2> QED
    BY <2>1, <2>2
<1>10. ASSUME Listening, ~up'.odd, ~up'.overrun
       PROVE  /\ Len(Total'.terminals) <= 1
              /\ IF up'.rank = 3 THEN watch' ELSE up'.rank < 3 /\ Total'.terminals = <<>>
  <2>1. ~up.odd /\ ~up.overrun => up.rank <= 3
    BY <1>1, <1>2, <1>10 DEF Upstreams
  <2>2. /\ ~up.odd /\ ~up.overrun /\ up.rank < 3
        /\ \A i \in 1..(n - 1) : frames[i].k \notin {"terminal", "tail"}
        /\ IF up'.rank = 3 THEN frames[n].k = "terminal"
           ELSE up'.rank < 3 /\ frames[n].k \notin {"terminal", "tail"}
    BY <1>1, <1>10, <2>1, NativeReadIs DEF n, IsPassthrough
  <2>3. Total.terminals = <<>> /\ Len(Total.terminals) = 0
    BY <1>2, <1>10, <2>2
  <2>4. Leads(s)
    <3>1. \A i \in 1..n : i # n => i \in 1..(n - 1)
      BY <1>3
    <3> QED
      BY <1>4, <1>5, <2>2, <3>1 DEF Leads
  <2>5. Len(Total'.terminals) <= 1
    BY <1>1, <1>4, <1>7, <2>3, <2>4, EndsAreTold
  <2>6. up'.rank = 3 => watch'
    <3>1. n \in DOMAIN frames /\ (n + 1)..Len(frames) = {}
      BY <1>3 DEF n
    <3> QED
      BY <2>2, <3>1 DEF Observed
  <2>7. up'.rank # 3 => up'.rank < 3 /\ Total'.terminals = <<>>
    <3>1. ASSUME up'.rank # 3
          PROVE  Quiet(s)
      <4>1. \A i \in 1..n : i = n \/ i \in 1..(n - 1)
        BY <1>3
      <4> QED
        BY <1>4, <1>5, <2>2, <3>1, <4>1 DEF Quiet
    <3> QED
      BY <1>1, <1>4, <1>7, <2>2, <2>3, <3>1, ViewOfEvents
  <2> QED
    BY <2>5, <2>6, <2>7
<1>11. Observes'
  <2>1. rest' = "read"
    BY <1>1
  <2> QED
    BY <1>7, <1>8, <1>9, <1>10, <2>1 DEF Observes
<1> QED
  BY <1>1, <1>6, <1>11 DEF Serves

-----------------------------------------------------------------------------
(* The task reads an upstream that is translated.                          *)

LEMMA AliveSilent ==
  ASSUME NEW u, NEW b, NEW w, Alive(u, b, w)
  PROVE  [b EXCEPT !.out = <<>>] \in Adapters /\ Alive(u, [b EXCEPT !.out = <<>>], w)
<1> DEFINE c == [b EXCEPT !.out = <<>>]
<1>1. b \in Adapters
  BY DEF Alive
<1>2. /\ c \in Adapters /\ c.err = b.err /\ c.failures = b.failures /\ c.state = b.state
      /\ c.status = b.status /\ c.open = b.open /\ c.thinking = b.thinking
      /\ c.reasoning = b.reasoning /\ c.calls = b.calls /\ c.ids = b.ids
  <2>1. <<>> \in Seq(Events)
    OBVIOUS
  <2> QED
    BY <1>1, <2>1 DEF Adapters
<1> HIDE DEF c
<1>3. Opened(c) = Opened(b)
  BY <1>2 DEF Opened
<1>4. CallsMatch(u, b) <=> CallsMatch(u, c)
  BY <1>2 DEF CallsMatch
<1>5. Orderly(u, b, w) => Orderly(u, c, w)
  BY <1>2, <1>3, <1>4 DEF Orderly
<1>6. IsOver(c) <=> IsOver(b)
  BY <1>2 DEF IsOver
<1>7. Alive(u, c, w)
  BY <1>2, <1>5, <1>6 DEF Alive
<1> QED
  BY <1>2, <1>7 DEF c

LEMMA ReadServes ==
  ASSUME IInv, Pumping, ~IsPassthrough, NEW frames \in Reads(up), up' = Upstream(up, frames),
         NEW b, b = PushBytes(adapter, frames), ~b.err, adapter' = [b EXCEPT !.out = <<>>],
         outbox' = Single(b.out), rest' = "read", UNCHANGED <<req, stage, codex>>
  PROVE  Serves' /\ outbox' \in Seq(Seq(Events)) /\ adapter' \in Adapters
<1>1. PICK w \in Views : Alive(up, adapter, w) /\ (Listening => w = Total)
  BY Pumps
<1>2. frames \in Seq(ChatFrames) /\ frames # <<>>
  BY ReadsAre DEF Frames, IsPassthrough
<1>3. /\ b \in Adapters /\ (~up'.overrun => w.terminals = <<>> /\ Leads(b.out))
      /\ Alive(up', b, Seen(w, b))
  BY <1>1, <1>2, ReadIs DEF IsPassthrough
<1>4. adapter' \in Adapters /\ Alive(up', adapter', Seen(w, b))
  BY <1>3, AliveSilent
<1> DEFINE o == b.out
<1>5. o \in Seq(Events)
  BY <1>3 DEF Adapters
<1> HIDE DEF o
<1>6. FoldLeft(View, w, o) \in Views
  BY <1>5, ViewOfEvents
<1>7. Single(o) \in Seq(Seq(Events)) /\ \A v : FoldLeft(ViewFrame, v, Single(o)) = FoldLeft(View, v, o)
  BY <1>5, SinglesAre
<1>8. outbox' = Single(o) /\ ~IsPassthrough' /\ got' = got
  BY DEF o, IsPassthrough, codex
<1>9. /\ Ahead' = channel \o Single(o) /\ Total' = FoldLeft(View, Total, o) /\ (Listening' <=> Listening)
      /\ Total.terminals = <<>> =>
              got.terminals = <<>> /\ \A i \in DOMAIN channel : Quiet(channel[i])
  BY <1>7, <1>8, Appended
<1>10. Adapts'
  <2>1. client' # "left" <=> Listening'
    <3>1. client' = client
      BY DEF codex
    <3> QED
      BY <1>9, <3>1, Pumps
  <2>2. Seen(w, b) \in Views
    BY <1>6 DEF Seen, o
  <2>3. Listening' => Seen(w, b) = Total'
    BY <1>1, <1>9 DEF Seen, o
  <2> QED
    BY <1>4, <2>1, <2>2, <2>3 DEF Adapts
<1>11. ASSUME Listening, ~up'.overrun
       PROVE  /\ got.terminals = <<>> /\ Len(Total'.terminals) <= 1
              /\ \A i \in DOMAIN Ahead' : i # Len(Ahead') => Quiet(Ahead'[i])
  <2>1. Total.terminals = <<>> /\ Total \in Views /\ Leads(o) /\ Len(<<>>) = 0
    BY <1>1, <1>3, <1>11 DEF o
  <2>2. Len(Total'.terminals) <= 1
    <3>1. Len(FoldLeft(View, Total, o).terminals) <= Len(Total.terminals) + 1
      BY <1>5, <2>1, EndsAreTold
    <3> QED
      BY <1>9, <2>1, <3>1
  <2>3. \A i \in DOMAIN Single(o) : i # Len(Single(o)) => Quiet(Single(o)[i])
    BY <1>5, <2>1, LeadsAhead
  <2>4. channel \in Seq(Seq(Events)) /\ \A i \in DOMAIN channel : Quiet(channel[i])
    BY <1>9, <2>1, Pumps
  <2> QED
    BY <1>7, <1>9, <2>1, <2>2, <2>3, <2>4, QuietAhead
<1>12. Translates'
  BY <1>8, <1>9, <1>11 DEF Translates
<1> QED
  BY <1>4, <1>7, <1>8, <1>10, <1>12 DEF Serves

LEMMA ReadBreaks ==
  ASSUME IInv, Pumping, ~IsPassthrough, NEW frames \in Reads(up), up' = Upstream(up, frames),
         NEW b, b = PushBytes(adapter, frames), b.err, adapter' = [b EXCEPT !.out = <<>>],
         outbox' = Single(b.failures), rest' = "end", ending' = "malformed",
         UNCHANGED <<req, stage, codex>>
  PROVE  Serves' /\ outbox' \in Seq(Seq(Events)) /\ adapter' \in Adapters
<1>1. PICK w \in Views : Alive(up, adapter, w) /\ (Listening => w = Total)
  BY Pumps
<1>2. frames \in Seq(ChatFrames) /\ frames # <<>>
  BY ReadsAre DEF Frames, IsPassthrough
<1>3. /\ b \in Adapters /\ up' \in Upstreams /\ (up'.odd \/ ~up'.overrun)
      /\ (~up'.overrun => w.terminals = <<>> /\ Failed(b))
  BY <1>1, <1>2, ReadIs DEF IsPassthrough
<1>4. adapter' \in Adapters
  <2>1. <<>> \in Seq(Events)
    OBVIOUS
  <2> QED
    BY <1>3, <2>1 DEF Adapters
<1>5. up'.overrun \in BOOLEAN
  BY <1>3 DEF Upstreams
<1> QED
  BY <1>1, <1>3, <1>4, <1>5, FailureServes

\* The adapter has nothing more to say, or the upstream went on after its end.
LEMMA SilenceServes ==
  ASSUME IInv, Pumping, ~IsPassthrough, UNCHANGED <<req, stage, up, codex>>, rest' = "end",
         outbox' \in Seq(Seq(Events)), up.overrun \/ outbox' = <<>>,
         \/ ending' = "transport"
         \/ ending' = "finished" /\ outbox' = <<>> /\ (~up.overrun => up.rank = 5)
  PROVE  Serves'
<1>1. PICK w \in Views : Alive(up, adapter, w) /\ (Listening => w = Total)
  BY Pumps
<1>2. up' = up /\ got' = got /\ ~IsPassthrough' /\ (Listening' <=> Listening)
      /\ (outbox' = <<>> => Ahead' = Ahead /\ Total' = Total)
  BY Appended DEF codex, IsPassthrough
<1>3. Adapts'
  BY DEF Adapts
<1>4. up.overrun \in BOOLEAN /\ (~up.odd => ~up.overrun)
      /\ adapter.status \in {"completed", "incomplete"}
  BY <1>1 DEF Alive, Upstreams, Adapters
<1>5. ASSUME Listening, ~up.overrun
      PROVE  /\ Ahead' = Ahead /\ Total' = Total /\ outbox' = <<>>
             /\ Ahead # <<>> => got.terminals = <<>>
             /\ \A i \in DOMAIN Ahead : i # Len(Ahead) => Quiet(Ahead[i])
             /\ Len(Total.terminals) <= 1
             /\ ending' = "finished" => Succeeds(Total)
             /\ ~up.odd /\ Succeeds(Total) => Whole(Total)
  <2>1. outbox' = <<>> /\ Ahead' = Ahead /\ Total' = Total
    BY <1>2, <1>5
  <2>2. /\ Ahead # <<>> => got.terminals = <<>>
        /\ \A i \in DOMAIN Ahead : i # Len(Ahead) => Quiet(Ahead[i])
        /\ Len(Total.terminals) <= 1
    BY <1>5 DEF IInv, Serves, Translates
  <2>3. ending' = "finished" => Succeeds(Total)
    <3>1. ASSUME ending' = "finished"
          PROVE  up.rank = 5
      BY <1>5, <3>1
    <3> QED
      BY <1>1, <1>4, <1>5, <3>1 DEF Alive, Succeeds
  <2>4. ASSUME ~up.odd, Succeeds(Total)
        PROVE  Whole(Total)
    <3>1. Total.terminals # <<>>
      <4>1. <<"completed">> # <<>> /\ <<"incomplete">> # <<>>
        OBVIOUS
      <4> QED
        BY <2>4, <4>1 DEF Succeeds
    <3>2. up.rank = 5 /\ Orderly(up, adapter, Total)
      BY <1>1, <1>5, <2>4, <3>1 DEF Alive
    <3>3. Opened(adapter) = {}
      BY <3>2 DEF Orderly
    <3> QED
      BY <3>2, <3>3 DEF Orderly, Whole
  <2> QED
    BY <2>1, <2>2, <2>3, <2>4
<1>6. Translates'
  <2>1. ~Listening => ~Listening'
    BY <1>2
  <2>2. Succeeds(Total) => Total.terminals # <<>>
    <3>1. <<"completed">> # <<>> /\ <<"incomplete">> # <<>>
      OBVIOUS
    <3> QED
      BY <3>1 DEF Succeeds
  <2>3. ~up.overrun /\ Listening => (ending' = "transport" \/ Total'.terminals # <<>>)
    BY <1>5, <2>2
  <2> QED
    BY <1>2, <1>4, <1>5, <2>1, <2>3 DEF Translates
<1> QED
  BY <1>2, <1>3, <1>6 DEF Serves

LEMMA EndsIs ==
  ASSUME IInv, NEW cause, NEW frames, Ends(cause, frames)
  PROVE  /\ rest' = "end" /\ outbox' = frames /\ ending' = cause
         /\ exchange' \in {None, "open", "completed", "cancelled"}
BY DEF Ends, IInv, Typed

LEMMA ReadChunkKeeps ==
  ASSUME IInv, ReadChunk
  PROVE  IInv'
<1>1. /\ Pumping /\ UNCHANGED <<req, stage, codex>> /\ memory' = memory
      /\ UNCHANGED <<attempts, tardy, others>>
  BY DEF ReadChunk, history
<1>2. PICK frames \in Reads(up) :
        /\ up' = Upstream(up, frames)
        /\ IF req.route = "passthrough"
           THEN /\ watch' = Observed(frames)
                /\ outbox' = <<Native(frames)>>
                /\ UNCHANGED <<adapter, rest, ending, exchange>>
           ELSE LET a == PushBytes(adapter, frames)
                IN /\ adapter' = [a EXCEPT !.out = <<>>]
                   /\ IF a.err
                      THEN Ends("malformed", Single(a.failures))
                      ELSE outbox' = Single(a.out) /\ UNCHANGED <<rest, ending, exchange>>
                   /\ UNCHANGED watch
  BY DEF ReadChunk
<1>3. stage = "streaming" /\ rest = "read" /\ TaskStep
  BY <1>1, Pumps DEF TaskStep
<1>4. /\ up \in Upstreams /\ adapter \in Adapters /\ watch \in BOOLEAN
      /\ exchange \in {None, "open", "completed", "cancelled"}
  BY DEF IInv, Typed
<1>5. up' \in Upstreams /\ up'.n <= MaxFrames
  BY <1>2, <1>4, UpstreamIsBounded
<1>6. Remembers'
  BY <1>1, RemembersUsed DEF IInv
<1>7. CASE IsPassthrough
  <2>1. /\ watch' = Observed(frames) /\ outbox' = <<Native(frames)>>
        /\ adapter' = adapter /\ rest' = rest /\ exchange' = exchange
    BY <1>2, <1>7 DEF IsPassthrough
  <2>2. Serves' /\ outbox' \in Seq(Seq(Events))
    BY <1>1, <1>2, <1>7, <2>1, NativeReadServes
  <2>3. watch' \in BOOLEAN
    BY <1>4, <2>1 DEF Observed
  <2> QED
    BY <1>1, <1>3, <1>4, <1>5, <1>6, <1>7, <2>1, <2>2, <2>3, TaskStepKeeps
<1>8. CASE ~IsPassthrough
  <2> DEFINE b == PushBytes(adapter, frames)
  <2>1. /\ adapter' = [b EXCEPT !.out = <<>>] /\ watch' = watch
        /\ IF b.err THEN Ends("malformed", Single(b.failures))
           ELSE outbox' = Single(b.out) /\ UNCHANGED <<rest, exchange>>
    BY <1>2, <1>8 DEF IsPassthrough
  <2>2. up'.odd \/ ~up'.overrun
    <3>1. PICK w \in Views : Alive(up, adapter, w)
      BY <1>1, <1>8, Pumps
    <3>2. frames \in Seq(ChatFrames) /\ frames # <<>>
      BY <1>2, <1>8, ReadsAre DEF Frames, IsPassthrough
    <3> QED
      BY <1>2, <1>8, <3>1, <3>2, ReadIs DEF IsPassthrough
  <2> HIDE DEF b
  <2>3. CASE b.err
    <3>1. /\ rest' = "end" /\ outbox' = Single(b.failures) /\ ending' = "malformed"
          /\ exchange' \in {None, "open", "completed", "cancelled"}
      BY <2>1, <2>3, EndsIs
    <3>2. Serves' /\ outbox' \in Seq(Seq(Events)) /\ adapter' \in Adapters
      BY <1>1, <1>2, <1>8, <2>1, <2>3, <3>1, ReadBreaks DEF b
    <3> QED
      BY <1>1, <1>3, <1>4, <1>5, <1>6, <2>1, <2>2, <3>1, <3>2, TaskStepKeeps
  <2>4. CASE ~b.err
    <3>1. rest' = "read" /\ outbox' = Single(b.out) /\ exchange' = exchange
      BY <1>3, <2>1, <2>4
    <3>2. Serves' /\ outbox' \in Seq(Seq(Events)) /\ adapter' \in Adapters
      BY <1>1, <1>2, <1>8, <2>1, <2>4, <3>1, ReadServes DEF b
    <3> QED
      BY <1>1, <1>3, <1>4, <1>5, <1>6, <2>1, <2>2, <3>1, <3>2, TaskStepKeeps
  <2> QED
    BY <2>3, <2>4
<1> QED
  BY <1>7, <1>8

LEMMA EndOfStreamIs ==
  ASSUME NEW u, NEW a, NEW w, Alive(u, a, w)
  PROVE  LET b == EndOfStream(a)
         IN  /\ b \in Adapters
             /\ IF b.err THEN ~u.overrun => w.terminals = <<>> /\ Failed(b)
                ELSE ~u.overrun => u.rank = 5
<1> DEFINE b == EndOfStream(a)
<1>1. a \in Adapters /\ ~a.err /\ <<>> \in Seq(Events)
  BY DEF Alive
<1>2. CASE a.state = "completed"
  <2>1. b = [a EXCEPT !.out = <<>>]
    BY <1>2 DEF EndOfStream
  <2>2. b \in Adapters /\ ~b.err
    BY <1>1, <2>1 DEF Adapters
  <2>3. ~u.overrun => u.rank = 5
    BY <1>2 DEF Alive, IsOver
  <2> QED
    BY <2>2, <2>3
<1>3. CASE a.state # "completed" /\ IsOver(a)
  <2>1. b = [a EXCEPT !.err = TRUE, !.out = <<>>]
    BY <1>3 DEF EndOfStream
  <2>2. b \in Adapters
    BY <1>1, <2>1 DEF Adapters
  <2>3. u.overrun
    BY <1>3 DEF Alive
  <2> QED
    BY <2>2, <2>3
<1>4. CASE ~IsOver(a)
  <2>1. b = Fail(a)
    BY <1>4 DEF EndOfStream, IsOver
  <2>2. Breaks(a, b)
    BY <1>1, <2>1, FailBreaks
  <2>3. ~u.overrun => a.failures = <<>> /\ w.terminals = <<>>
    BY <1>4 DEF Alive, IsOver
  <2> HIDE DEF b
  <2>4. b \in Adapters /\ b.err
    BY <2>2 DEF Breaks
  <2>5. ~u.overrun => w.terminals = <<>> /\ Failed(b)
    BY <1>4, <2>2, <2>3 DEF Breaks, Failed
  <2> QED
    BY <2>4, <2>5 DEF b
<1> QED
  BY <1>2, <1>3, <1>4

LEMMA ReadEndKeeps ==
  ASSUME IInv, ReadEnd
  PROVE  IInv'
<1>1. /\ Pumping /\ UNCHANGED <<req, stage, up, watch, codex>>
      /\ UNCHANGED <<attempts, tardy, others>>
  BY DEF ReadEnd
<1>2. stage = "streaming" /\ rest = "read" /\ TaskStep
  BY <1>1, Pumps DEF TaskStep
<1>3. /\ up \in Upstreams /\ up.n <= MaxFrames /\ adapter \in Adapters /\ watch \in BOOLEAN
      /\ up.odd \/ ~up.overrun \/ IsPassthrough
      /\ up' = up /\ watch' = watch
  BY <1>1 DEF IInv, Typed
<1>4. CASE IsPassthrough
  <2>1. Ends("eof", IF watch THEN <<>> ELSE <<ErrorFrame>>) /\ adapter' = adapter /\ memory' = memory
    BY <1>4 DEF ReadEnd, IsPassthrough
  <2>2. /\ rest' = "end" /\ outbox' = (IF watch THEN <<>> ELSE <<ErrorFrame>>)
        /\ exchange' \in {None, "open", "completed", "cancelled"}
    BY <2>1, EndsIs
  <2>3. Serves' /\ outbox' \in Seq(Seq(Events))
    BY <1>1, <1>4, <2>2, NativeEndServes
  <2>4. Remembers'
    BY <2>1, RemembersUsed DEF IInv
  <2> QED
    BY <1>1, <1>2, <1>3, <2>1, <2>2, <2>3, <2>4, TaskStepKeeps
<1>5. CASE ~IsPassthrough
  <2> DEFINE b == EndOfStream(adapter)
  <2>1. /\ adapter' = b
        /\ IF b.err THEN Ends("eof", Single(b.failures)) /\ memory' = memory
           ELSE Ends("finished", <<>>) /\ Recorded(ToolCallIds(b), b.thought > 0)
    BY <1>5 DEF ReadEnd, IsPassthrough
  <2>2. PICK w \in Views : Alive(up, adapter, w) /\ (Listening => w = Total)
    BY <1>1, <1>5, Pumps
  <2>3. /\ b \in Adapters
        /\ IF b.err THEN ~up.overrun => w.terminals = <<>> /\ Failed(b)
           ELSE ~up.overrun => up.rank = 5
    BY <2>2, EndOfStreamIs
  <2> HIDE DEF b
  <2>4. CASE b.err
    <3>1. /\ rest' = "end" /\ outbox' = Single(b.failures) /\ ending' = "eof"
          /\ exchange' \in {None, "open", "completed", "cancelled"}
      BY <2>1, <2>4, EndsIs
    <3>2. /\ up'.odd \/ ~up'.overrun
          /\ up'.overrun \in BOOLEAN
          /\ ~up'.overrun => Failed(b) /\ (Listening => Total.terminals = <<>>)
      BY <1>3, <1>5, <2>2, <2>3, <2>4 DEF Upstreams
    <3>3. up'.overrun \in BOOLEAN /\ (up'.odd \/ ~up'.overrun)
      BY <1>3, <1>5 DEF Upstreams
    <3>4. Serves' /\ outbox' \in Seq(Seq(Events))
      BY <1>1, <1>5, <2>3, <3>1, <3>2, <3>3, FailureServes
    <3>5. Remembers'
      BY <2>1, <2>4, RemembersUsed DEF IInv
    <3> QED
      BY <1>1, <1>2, <1>3, <2>1, <2>3, <3>1, <3>4, <3>5, TaskStepKeeps
  <2>5. CASE ~b.err
    <3>1. /\ rest' = "end" /\ outbox' = <<>> /\ ending' = "finished"
          /\ exchange' \in {None, "open", "completed", "cancelled"}
      BY <2>1, <2>5, EndsIs
    <3>2. outbox' \in Seq(Seq(Events))
      BY <3>1
    <3>3. Serves'
      BY <1>1, <1>5, <2>3, <2>5, <3>1, <3>2, SilenceServes
    <3>4. Remembers'
      BY <2>1, <2>5, RecordedKeeps, RemembersUsed DEF IInv
    <3> QED
      BY <1>1, <1>2, <1>3, <2>1, <2>3, <3>1, <3>2, <3>3, <3>4, TaskStepKeeps
  <2> QED
    BY <2>4, <2>5
<1> QED
  BY <1>4, <1>5

LEMMA ReadFailsKeeps ==
  ASSUME IInv, ReadFails
  PROVE  IInv'
<1>1. /\ Pumping /\ UNCHANGED <<req, stage, up, adapter, watch, codex>>
      /\ UNCHANGED <<attempts, tardy, others, memory>>
      /\ Ends("transport", IF req.route = "passthrough"
                           THEN IF watch THEN <<>> ELSE <<ErrorFrame>>
                           ELSE Single(adapter.failures))
  BY DEF ReadFails, history
<1>2. stage = "streaming" /\ rest = "read" /\ TaskStep
  BY <1>1, Pumps DEF TaskStep
<1>3. /\ up \in Upstreams /\ up.n <= MaxFrames /\ adapter \in Adapters /\ watch \in BOOLEAN
      /\ up.odd \/ ~up.overrun \/ IsPassthrough
      /\ up' = up /\ watch' = watch /\ adapter' = adapter
  BY <1>1 DEF IInv, Typed
<1>4. Remembers'
  BY <1>1, RemembersUsed DEF IInv
<1>5. /\ rest' = "end" /\ ending' = "transport"
      /\ exchange' \in {None, "open", "completed", "cancelled"}
      /\ IF IsPassthrough THEN outbox' = (IF watch THEN <<>> ELSE <<ErrorFrame>>)
         ELSE outbox' = Single(adapter.failures)
  BY <1>1, EndsIs DEF IsPassthrough
<1>6. Serves' /\ outbox' \in Seq(Seq(Events))
  <2>1. CASE IsPassthrough
    BY <1>1, <1>5, <2>1, NativeEndServes
  <2>2. CASE ~IsPassthrough
    <3> DEFINE f == adapter.failures
    <3>1. f \in Seq(Events)
      BY <1>3 DEF Adapters
    <3>2. ~up.overrun => f = <<>>
      <4>1. PICK w \in Views : Alive(up, adapter, w)
        BY <1>1, <2>2, Pumps
      <4> QED
        BY <4>1 DEF Alive
    <3> HIDE DEF f
    <3>3. outbox' = Single(f)
      BY <1>5, <2>2 DEF f
    <3>4. outbox' \in Seq(Seq(Events)) /\ (up.overrun \/ outbox' = <<>>)
      <4>1. Single(f) \in Seq(Seq(Events)) /\ Len(Single(f)) = Len(f)
        BY <3>1, SinglesAre
      <4>2. f = <<>> => Single(f) = <<>>
        BY <4>1
      <4>3. up.overrun \in BOOLEAN
        BY <1>3 DEF Upstreams
      <4> QED
        BY <3>2, <3>3, <4>1, <4>2, <4>3
    <3> QED
      BY <1>1, <1>5, <2>2, <3>4, SilenceServes
  <2> QED
    BY <2>1, <2>2
<1> QED
  BY <1>1, <1>2, <1>3, <1>4, <1>5, <1>6, TaskStepKeeps

-----------------------------------------------------------------------------
(* The task sends.                                                         *)

LEMMA ServesStill ==
  ASSUME Serves, UNCHANGED <<req, up, adapter, watch, outbox, rest, ending, channel, client, got>>,
         stage' = "streaming" => stage = "streaming"
  PROVE  Serves'
<1>1. /\ (IsPassthrough' <=> IsPassthrough) /\ (Listening' <=> Listening) /\ Ahead' = Ahead
  BY DEF IsPassthrough, Listening, Ahead
<1>2. Total' = Total
  BY <1>1 DEF Total
<1>3. CASE IsPassthrough
  <2>1. Observes
    BY <1>3 DEF Serves
  <2>2. Observes'
    BY <1>1, <1>2, <2>1 DEF Observes
  <2> QED
    BY <1>1, <1>3, <2>2 DEF Serves
<1>4. CASE ~IsPassthrough
  <2>1. Adapts /\ Translates
    BY <1>4 DEF Serves
  <2>2. Adapts'
    BY <1>1, <1>2, <2>1 DEF Adapts
  <2>3. Translates'
    BY <1>1, <1>2, <2>1 DEF Translates
  <2> QED
    BY <1>1, <1>4, <2>2, <2>3 DEF Serves
<1> QED
  BY <1>3, <1>4

\* Who has a task that sends.
LEMMA Sends ==
  ASSUME IInv, Sending
  PROVE  /\ stage = "streaming" /\ outbox # <<>> /\ rest \in {"read", "end"}
         /\ client \in {"reading", "left"} /\ (Listening <=> ~Gone) /\ got \in Views
         /\ channel \in Seq(Seq(Events)) /\ outbox \in Seq(Seq(Events))
         /\ Head(outbox) \in Seq(Events) /\ DOMAIN channel = 1..Len(channel)
<1>1. stage = "streaming" /\ outbox # <<>>
  BY DEF Sending
<1>2. client \in {"reading", "left"} /\ (Listening <=> ~Gone) /\ rest \in {"read", "end"}
  BY <1>1 DEF IInv, Typed, Phases, Streaming, Listening, Gone
<1>3. got \in Views
  BY <1>2, NothingIsThere DEF IInv, Phases, Gone
<1>4. channel \in Seq(Seq(Events)) /\ outbox \in Seq(Seq(Events))
  BY DEF IInv, Typed
<1>5. Head(outbox) \in Seq(Events) /\ DOMAIN channel = 1..Len(channel)
  BY <1>1, <1>4
<1> QED
  BY <1>1, <1>2, <1>3, <1>4, <1>5

LEMMA SendKeeps ==
  ASSUME IInv, Send
  PROVE  IInv'
<1> DEFINE h == Head(outbox)
<1>1. /\ Sending /\ ~Gone /\ Queued + Bytes(h) <= MaxBytes /\ Len(channel) < Capacity
      /\ channel' = Append(channel, h) /\ outbox' = Tail(outbox)
      /\ UNCHANGED <<req, stage, exchange, attempts, tardy, up, adapter, watch, rest, ending,
                     client, got, memory, others>>
  BY DEF Send, handling, history
<1>2. /\ stage = "streaming" /\ outbox # <<>> /\ rest \in {"read", "end"} /\ client = "reading"
      /\ Listening /\ got \in Views /\ channel \in Seq(Seq(Events)) /\ outbox \in Seq(Seq(Events))
      /\ h \in Seq(Events)
  BY <1>1, Sends DEF Gone
<1>3. /\ Append(channel, h) \o Tail(outbox) = channel \o outbox
      /\ Append(channel, h) \in Seq(Seq(Events)) /\ Tail(outbox) \in Seq(Seq(Events))
      /\ Len(Append(channel, h)) = Len(channel) + 1
      /\ \A i \in DOMAIN Tail(outbox) : i + 1 \in DOMAIN outbox /\ Tail(outbox)[i] = outbox[i + 1]
  BY <1>2, QueuesMove
<1> HIDE DEF h
<1>4. /\ Ahead' = Ahead /\ (Listening' <=> Listening) /\ (IsPassthrough' <=> IsPassthrough)
  BY <1>1, <1>3 DEF Ahead, Listening, IsPassthrough
<1>5. Total' = Total
  BY <1>1, <1>4 DEF Total
<1>6. Typed'
  <2>1. Queued' <= MaxBytes
    <3>1. FoldLeft(PlusFrame, 0, Append(channel, h)) = PlusFrame(FoldLeft(PlusFrame, 0, channel), h)
      BY <1>2, PlusFrameAppend
    <3>2. \A n : PlusFrame(n, h) = n + Bytes(h)
      BY DEF PlusFrame
    <3> QED
      BY <1>1, <3>1, <3>2 DEF Queued
  <2>2. Len(channel') <= Capacity
    <3>1. Len(channel) \in Nat
      BY <1>2
    <3> QED
      BY <1>1, <1>3, <3>1, StreamAssumption
  <2>3. Typed
    BY DEF IInv
  <2> QED
    BY <1>1, <1>3, <1>4, <2>1, <2>2, <2>3 DEF Typed
<1>7. Remembers'
  BY <1>1, RemembersUsed DEF IInv
<1>8. Retries'
  BY <1>1 DEF IInv, Retries
<1>9. Phases'
  BY <1>1, <1>2 DEF Phases, Streaming, Listening
<1>10. Serves'
  <2>1. CASE IsPassthrough
    <3>1. Observes
      BY <2>1 DEF IInv, Serves
    <3>2. \A i \in DOMAIN outbox' : Bytes(outbox'[i]) <= MaxBytes
      BY <1>1, <1>3, <3>1 DEF Observes
    <3>3. Observes'
      BY <1>1, <1>4, <1>5, <3>1, <3>2 DEF Observes
    <3> QED
      BY <1>4, <2>1, <3>3 DEF Serves
  <2>2. CASE ~IsPassthrough
    <3>1. Adapts /\ Translates
      BY <2>2 DEF IInv, Serves
    <3>2. Adapts'
      BY <1>1, <1>5, <3>1 DEF Adapts
    <3>3. Translates'
      BY <1>1, <1>2, <1>4, <1>5, <3>1 DEF Translates
    <3> QED
      BY <1>4, <2>2, <3>2, <3>3 DEF Serves
  <2> QED
    BY <2>1, <2>2
<1> QED
  BY <1>6, <1>7, <1>8, <1>9, <1>10 DEF IInv

\* A frame that is not sent takes those behind it along, the last one with them.
LEMMA SendFailsKeeps ==
  ASSUME IInv, SendFails
  PROVE  IInv'
<1>1. /\ Sending /\ (Gone \/ Bytes(Head(outbox)) > MaxBytes)
      /\ UNCHANGED <<req, stage, attempts, tardy, up, adapter, watch, codex, memory, others>>
  BY DEF SendFails, history
<1>2. /\ stage = "streaming" /\ outbox # <<>> /\ client \in {"reading", "left"}
      /\ (Listening <=> ~Gone) /\ got \in Views /\ channel \in Seq(Seq(Events))
      /\ outbox \in Seq(Seq(Events)) /\ Head(outbox) \in Seq(Events)
      /\ DOMAIN channel = 1..Len(channel)
  BY <1>1, Sends
<1>3. /\ rest' = "end" /\ outbox' = <<>> /\ (~Gone => ending' = "oversized")
      /\ exchange' \in {None, "open", "completed", "cancelled"}
  <2>1. CASE rest = "end"
    BY <2>1 DEF SendFails, IInv, Typed
  <2>2. CASE rest # "end"
    <3>1. Ends(IF Gone THEN "gone" ELSE "oversized", <<>>)
      BY <2>2 DEF SendFails
    <3> QED
      BY <3>1, EndsIs
  <2> QED
    BY <2>1, <2>2
<1>4. TaskStep
  BY <1>1 DEF TaskStep
<1>5. /\ up \in Upstreams /\ up.n <= MaxFrames /\ adapter \in Adapters /\ watch \in BOOLEAN
      /\ (up.odd \/ ~up.overrun \/ IsPassthrough) /\ up.overrun \in BOOLEAN
      /\ up' = up /\ watch' = watch /\ adapter' = adapter /\ got' = got /\ channel' = channel
      /\ (Listening' <=> Listening) /\ (IsPassthrough' <=> IsPassthrough)
      /\ outbox' \in Seq(Seq(Events)) /\ DOMAIN outbox' = {}
  BY <1>1, <1>3 DEF IInv, Typed, Upstreams, codex, Listening, IsPassthrough
<1>6. Remembers'
  BY <1>1, RemembersUsed DEF IInv
<1>7. ASSUME IsPassthrough
      PROVE  Serves'
  <2>1. ~Listening
    <3>1. 1 \in DOMAIN outbox /\ Head(outbox) = outbox[1] /\ Bytes(Head(outbox)) \in Nat
          /\ MaxBytes \in Nat
      BY <1>2, BytesAre, StreamAssumption
    <3>2. Bytes(Head(outbox)) <= MaxBytes
      BY <1>7, <3>1 DEF IInv, Serves, Observes
    <3> QED
      BY <1>1, <1>2, <3>1, <3>2
  <2>2. ~Listening' /\ DOMAIN outbox' = {}
    BY <1>5, <2>1
  <2>3. Observes'
    BY <2>2 DEF Observes
  <2>4. IsPassthrough'
    BY <1>5, <1>7
  <2> QED
    BY <2>3, <2>4 DEF Serves
<1>8. ASSUME ~IsPassthrough
      PROVE  Serves'
  <2>1. Adapts'
    BY <1>3 DEF Adapts
  <2>2. ASSUME Listening
        PROVE  Ahead' = channel /\ Total' \in Views
               /\ (~up.overrun => /\ got.terminals = <<>> /\ Total'.terminals = <<>>
                                  /\ \A i \in DOMAIN channel : Quiet(channel[i]))
    <3>1. Ahead' = channel /\ Total' = FoldLeft(ViewFrame, got, channel)
      <4>1. channel \o <<>> = channel
        BY <1>2, QueuesMove
      <4>2. Ahead' = channel
        BY <1>3, <1>5, <4>1 DEF Ahead
      <4> QED
        BY <1>5, <4>2 DEF Total
    <3>2. /\ Len(channel) \in Nat /\ Len(outbox) \in Nat /\ Len(outbox) >= 1
          /\ Len(Ahead) = Len(channel) + Len(outbox)
          /\ DOMAIN Ahead = 1..(Len(channel) + Len(outbox))
          /\ \A i \in 1..(Len(channel) + Len(outbox)) :
               i <= Len(channel) => Ahead[i] = channel[i]
      <4>1. Len(channel) \in Nat /\ Len(outbox) \in Nat /\ Len(outbox) >= 1
        BY <1>2
      <4> QED
        BY <1>2, <4>1, QueuesJoin DEF Ahead
    <3>3. ASSUME ~up.overrun
          PROVE  got.terminals = <<>> /\ \A i \in DOMAIN channel : Quiet(channel[i])
      <4>1. /\ Ahead # <<>> => got.terminals = <<>>
            /\ \A i \in DOMAIN Ahead : i # Len(Ahead) => Quiet(Ahead[i])
        BY <1>8, <2>2, <3>3 DEF IInv, Serves, Translates
      <4>2. Ahead # <<>>
        BY <3>2
      <4>3. ASSUME NEW i \in DOMAIN channel
            PROVE  Quiet(channel[i])
        <5> DEFINE n == Len(channel)
                   m == Len(outbox)
        <5>1. n \in Nat /\ m \in Nat /\ m >= 1 /\ i \in 1..n
          BY <1>2, <3>2
        <5> HIDE DEF n, m
        <5>2. i \in 1..(n + m) /\ i # n + m /\ i <= n
          BY <5>1
        <5> QED
          BY <3>2, <4>1, <5>2 DEF n, m
      <4> QED
        BY <4>1, <4>2, <4>3
    <3> QED
      BY <1>2, <3>1, <3>3, FramesAreViewed
  <2>3. Len(<<>>) = 0 /\ <<>> # <<"completed">> /\ <<>> # <<"incomplete">>
    OBVIOUS
  <2>4. ASSUME Listening, ~up.overrun
        PROVE  /\ got.terminals = <<>> /\ Len(Total'.terminals) <= 1 /\ ~Succeeds(Total')
               /\ \A i \in DOMAIN Ahead' : Quiet(Ahead'[i])
    BY <2>2, <2>3, <2>4 DEF Succeeds
  <2>5. Listening => ending' = "oversized"
    BY <1>2, <1>3
  <2>6. Translates'
    <3>1. CASE ~Listening
      BY <1>5, <3>1 DEF Translates
    <3>2. CASE Listening /\ ~up.overrun
      <4>1. /\ got'.terminals = <<>> /\ Len(Total'.terminals) <= 1 /\ ~Succeeds(Total')
            /\ \A i \in DOMAIN Ahead' : Quiet(Ahead'[i])
            /\ ending' = "oversized" /\ up' = up
        BY <1>5, <2>4, <2>5, <3>2
      <4> QED
        BY <3>2, <4>1 DEF Translates
    <3>3. CASE up.overrun
      BY <1>5, <1>8, <3>3 DEF Translates
    <3> QED
      BY <1>5, <3>1, <3>2, <3>3
  <2>7. ~IsPassthrough'
    BY <1>5, <1>8
  <2> QED
    BY <2>1, <2>6, <2>7 DEF Serves
<1> QED
  BY <1>1, <1>2, <1>3, <1>4, <1>5, <1>6, <1>7, <1>8, TaskStepKeeps

LEMMA TaskEndsKeeps ==
  ASSUME IInv, TaskEnds
  PROVE  IInv'
<1>1. /\ stage = "streaming" /\ rest = "end" /\ outbox = <<>> /\ stage' = "ended"
      /\ UNCHANGED <<req, exchange, attempts, tardy, up, adapter, watch, outbox, rest, ending,
                     channel, client, got, memory, others>>
  BY DEF TaskEnds, handling, reading, codex, history
<1>2. Typed'
  <2>1. Queued' = Queued /\ (IsPassthrough' <=> IsPassthrough)
    BY <1>1 DEF Queued, IsPassthrough
  <2>2. Typed
    BY DEF IInv
  <2> QED
    BY <1>1, <2>1, <2>2 DEF Typed
<1>3. Remembers'
  BY <1>1, RemembersUsed DEF IInv
<1>4. Retries'
  BY <1>1 DEF IInv, Retries
<1>5. Phases'
  BY <1>1 DEF IInv, Phases, Streaming, Listening
<1>6. Serves'
  BY <1>1, ServesStill DEF IInv
<1> QED
  BY <1>2, <1>3, <1>4, <1>5, <1>6 DEF IInv

-----------------------------------------------------------------------------
(* Codex reads, sees the end, leaves, or asks again.                       *)

LEMMA ClientReadsKeeps ==
  ASSUME IInv, ClientReads
  PROVE  IInv'
<1> DEFINE h == Head(channel)
<1>1. /\ client = "reading" /\ channel # <<>> /\ got' = ViewFrame(got, h)
      /\ channel' = Tail(channel)
      /\ UNCHANGED <<req, stage, exchange, attempts, tardy, up, adapter, watch, outbox, rest, ending,
                     client, memory, others>>
  BY DEF ClientReads, ViewFrame, handling, reading, history
<1>2. /\ Listening /\ Listening' /\ Streaming /\ Streaming' /\ got \in Views
      /\ channel \in Seq(Seq(Events)) /\ outbox \in Seq(Seq(Events))
      /\ (IsPassthrough' <=> IsPassthrough)
  BY <1>1 DEF IInv, Typed, Phases, Listening, Streaming, IsPassthrough
<1>3. /\ Head(channel \o outbox) = h /\ Tail(channel \o outbox) = Tail(channel) \o outbox
      /\ channel \o outbox # <<>> /\ h \in Seq(Events) /\ Tail(channel) \in Seq(Seq(Events))
      /\ Len(Tail(channel)) <= Len(channel) /\ channel \o outbox \in Seq(Seq(Events))
  BY <1>1, <1>2, QueuesMove, QueuesJoin
<1> HIDE DEF h
<1>4. got' \in Views
  BY <1>1, <1>2, <1>3, ViewOfEvents DEF ViewFrame
<1>5. /\ Ahead \in Seq(Seq(Events)) /\ Ahead # <<>> /\ Ahead' = Tail(Ahead) /\ Head(Ahead) = h
      /\ Total' = Total
  <2>1. Ahead' = Tail(Ahead) /\ Ahead \in Seq(Seq(Events)) /\ Ahead # <<>> /\ Head(Ahead) = h
    BY <1>1, <1>3 DEF Ahead
  <2>2. FoldLeft(ViewFrame, got, Ahead) = FoldLeft(ViewFrame, ViewFrame(got, h), Tail(Ahead))
    BY <2>1, ViewFrameHead
  <2>3. Total' = Total
    BY <1>1, <2>1, <2>2 DEF Total
  <2> QED
    BY <2>1, <2>3
<1>6. Typed'
  <2>1. Queued' <= MaxBytes
    <3>1. FoldLeft(PlusFrame, 0, channel) = FoldLeft(PlusFrame, PlusFrame(0, h), Tail(channel))
      BY <1>1, <1>2, PlusFrameHead DEF h
    <3>2. PlusFrame(0, h) \in Nat
      BY <1>3, BytesAre DEF PlusFrame
    <3>3. /\ Queued' = FoldLeft(PlusFrame, 0, Tail(channel)) /\ Queued = FoldLeft(PlusFrame, 0, channel)
          /\ Queued <= MaxBytes
      BY <1>1 DEF Queued, IInv, Typed
    <3>4. /\ FoldLeft(PlusFrame, PlusFrame(0, h), Tail(channel)) \in Nat
          /\ FoldLeft(PlusFrame, 0, Tail(channel)) \in Nat
          /\ FoldLeft(PlusFrame, 0, Tail(channel))
               <= FoldLeft(PlusFrame, PlusFrame(0, h), Tail(channel))
      BY <1>3, <3>2, FramesAdd
    <3>5. Queued' \in Nat /\ Queued \in Nat /\ Queued' <= Queued
      BY <3>1, <3>3, <3>4
    <3> QED
      BY <3>3, <3>5, StreamAssumption
  <2>2. Len(channel') <= Capacity
    <3>1. Len(channel) \in Nat /\ Len(Tail(channel)) \in Nat /\ Len(channel) <= Capacity
      BY <1>2, <1>3 DEF IInv, Typed
    <3> QED
      BY <1>1, <1>3, <3>1, StreamAssumption
  <2>3. Typed
    BY DEF IInv
  <2> QED
    BY <1>1, <1>2, <1>3, <2>1, <2>2, <2>3 DEF Typed
<1>7. Remembers'
  BY <1>1, RemembersUsed DEF IInv
<1>8. Retries'
  BY <1>1 DEF IInv, Retries
<1>9. Phases'
  <2>1. Phases
    BY DEF IInv
  <2> QED
    BY <1>1, <1>2, <1>4, <2>1 DEF Phases, Streaming, Listening
<1>10. Serves'
  <2>1. CASE IsPassthrough
    <3>1. Observes
      BY <2>1 DEF IInv, Serves
    <3>2. Observes'
      BY <1>1, <1>2, <1>5, <3>1 DEF Observes
    <3> QED
      BY <1>2, <2>1, <3>2 DEF Serves
  <2>2. CASE ~IsPassthrough
    <3>1. Adapts /\ Translates
      BY <2>2 DEF IInv, Serves
    <3>2. Adapts'
      BY <1>1, <1>5, <3>1 DEF Adapts
    <3>3. ASSUME ~up.overrun
          PROVE  /\ Ahead' # <<>> => got'.terminals = <<>>
                 /\ \A i \in DOMAIN Ahead' : i # Len(Ahead') => Quiet(Ahead'[i])
      <4>1. /\ got.terminals = <<>>
            /\ \A i \in DOMAIN Ahead : i # Len(Ahead) => Quiet(Ahead[i])
        BY <1>2, <1>5, <3>1, <3>3 DEF Translates
      <4>2. /\ Len(Ahead') \in Nat /\ Len(Ahead) = Len(Ahead') + 1 /\ DOMAIN Ahead' = 1..Len(Ahead')
            /\ DOMAIN Ahead = 1..(Len(Ahead') + 1) /\ Ahead[1] = h
            /\ \A i \in DOMAIN Ahead' : Ahead'[i] = Ahead[i + 1]
        BY <1>5
      <4>3. ASSUME NEW i \in DOMAIN Ahead', i # Len(Ahead')
            PROVE  Quiet(Ahead'[i])
        <5>1. i + 1 \in DOMAIN Ahead /\ i + 1 # Len(Ahead)
          BY <4>2, <4>3
        <5> QED
          BY <4>1, <4>2, <5>1
      <4>4. ASSUME Ahead' # <<>>
            PROVE  got'.terminals = <<>>
        <5>1. Len(Ahead') # 0
          <6>1. Ahead' \in Seq(Seq(Events))
            BY <1>5
          <6> QED
            BY <4>4, <6>1
        <5>2. 1 \in DOMAIN Ahead /\ 1 # Len(Ahead)
          BY <4>2, <5>1
        <5>3. Quiet(h)
          BY <4>1, <4>2, <5>2
        <5> QED
          BY <1>1, <1>2, <1>3, <4>1, <5>3, ViewOfEvents DEF ViewFrame
      <4> QED
        BY <4>3, <4>4
    <3>4. Translates'
      <4>1. (rest = "end" /\ ending = "finished") /\ ~up.overrun => outbox = <<>>
        BY <1>2, <3>1 DEF Translates
      <4> QED
        BY <1>1, <1>2, <1>5, <3>1, <3>3 DEF Translates
    <3> QED
      BY <1>2, <2>2, <3>2, <3>4 DEF Serves
  <2> QED
    BY <2>1, <2>2
<1> QED
  BY <1>6, <1>7, <1>8, <1>9, <1>10 DEF IInv

LEMMA ClientSeesEndKeeps ==
  ASSUME IInv, ClientSeesEnd
  PROVE  IInv'
<1>1. /\ client = "reading" /\ stage = "ended" /\ channel = <<>> /\ client' = "ended"
      /\ UNCHANGED <<req, stage, exchange, attempts, tardy, up, adapter, watch, outbox, rest, ending,
                     channel, got, memory, others>>
  BY DEF ClientSeesEnd, handling, reading, history
<1>2. /\ Listening /\ Listening' /\ (IsPassthrough' <=> IsPassthrough) /\ Ahead' = Ahead
      /\ Streaming /\ Streaming'
  BY <1>1 DEF Listening, IsPassthrough, Ahead, Streaming
<1>3. Total' = Total
  BY <1>1, <1>2 DEF Total
<1>4. Typed'
  <2>1. Queued' = Queued
    BY <1>1 DEF Queued
  <2>2. Typed
    BY DEF IInv
  <2> QED
    BY <1>1, <1>2, <2>1, <2>2 DEF Typed
<1>5. Remembers'
  BY <1>1, RemembersUsed DEF IInv
<1>6. Retries'
  BY <1>1 DEF IInv, Retries
<1>7. Phases'
  <2>1. Phases
    BY DEF IInv
  <2> QED
    BY <1>1, <1>2, <2>1 DEF Phases
<1>8. Serves'
  <2>1. CASE IsPassthrough
    <3>1. Observes
      BY <2>1 DEF IInv, Serves
    <3>2. Observes'
      BY <1>1, <1>2, <1>3, <3>1 DEF Observes
    <3> QED
      BY <1>2, <2>1, <3>2 DEF Serves
  <2>2. CASE ~IsPassthrough
    <3>1. Translates
      BY <2>2 DEF IInv, Serves
    <3>2. Adapts'
      BY <1>1 DEF Adapts
    <3>3. Translates'
      BY <1>1, <1>2, <1>3, <3>1 DEF Translates
    <3> QED
      BY <1>2, <2>2, <3>2, <3>3 DEF Serves
  <2> QED
    BY <2>1, <2>2
<1> QED
  BY <1>4, <1>5, <1>6, <1>7, <1>8 DEF IInv

LEMMA ClientLeavesKeeps ==
  ASSUME IInv, ClientLeaves
  PROVE  IInv'
<1>1. /\ client \in {"waiting", "reading"} /\ stage # "answered" /\ client' = "left"
      /\ channel' = <<>> /\ got' = NoView
      /\ stage' = (IF client = "waiting" THEN "dropped" ELSE stage)
      /\ UNCHANGED <<req, exchange, attempts, tardy, up, adapter, watch, outbox, rest, ending,
                     memory, others>>
  BY DEF ClientLeaves, handling, reading, history
<1>2. /\ client = "waiting" => ~Streaming
      /\ client = "reading" => Streaming
  BY DEF IInv, Phases, Listening
<1>3. ~Listening' /\ (IsPassthrough' <=> IsPassthrough)
      /\ (Streaming' <=> Streaming)
  BY <1>1, <1>2 DEF Listening, IsPassthrough, Streaming
<1>4. Typed'
  <2>1. Queued' <= MaxBytes /\ Len(channel') <= Capacity /\ channel' \in Seq(Seq(Events))
    <3>1. FoldLeft(PlusFrame, 0, <<>>) = 0
      BY PlusFrameEmpty
    <3>2. Queued' = 0
      BY <1>1, <3>1 DEF Queued
    <3>3. <<>> \in Seq(Seq(Events)) /\ Len(<<>>) = 0
      OBVIOUS
    <3> QED
      BY <1>1, <3>2, <3>3, StreamAssumption
  <2>2. Typed
    BY DEF IInv
  <2> QED
    BY <1>1, <1>3, <2>1, <2>2 DEF Typed
<1>5. Remembers'
  BY <1>1, RemembersUsed DEF IInv
<1>6. Retries'
  BY <1>1 DEF IInv, Retries
<1>7. Phases'
  <2>1. stage' \notin {"arrived", "open", "resolve", "send", "answered"}
    BY <1>1, <1>2 DEF Streaming
  <2>2. /\ ~Streaming' => ~watch' /\ up' = NoFrames
        /\ stage' = "streaming" => rest' \in {"read", "end"}
        /\ stage' = "ended" => rest' = "end" /\ outbox' = <<>>
    BY <1>1, <1>3 DEF IInv, Phases
  <2>3. stage' = "dropped" <=> ~Streaming'
    BY <1>1, <1>2 DEF Streaming
  <2> QED
    BY <1>1, <1>3, <2>1, <2>2, <2>3 DEF Phases
<1>8. Serves'
  <2>1. CASE IsPassthrough
    <3>1. Observes
      BY <2>1 DEF IInv, Serves
    <3>2. Observes'
      BY <1>1, <1>3, <3>1 DEF Observes
    <3> QED
      BY <1>3, <2>1, <3>2 DEF Serves
  <2>2. CASE ~IsPassthrough
    <3>1. Adapts
      BY <2>2 DEF IInv, Serves
    <3>2. stage' = "streaming" => stage = "streaming"
      BY <1>1
    <3>3. Adapts'
      BY <1>1, <3>1, <3>2 DEF Adapts
    <3>4. Translates'
      BY <1>3 DEF Translates
    <3> QED
      BY <1>3, <2>2, <3>3, <3>4 DEF Serves
  <2> QED
    BY <2>1, <2>2
<1> QED
  BY <1>4, <1>5, <1>6, <1>7, <1>8 DEF IInv

\* The steps that concern the store of histories only.
LEMMA StoreStepKeeps ==
  ASSUME IInv, UNCHANGED <<req, stage, exchange, attempts, tardy, up, adapter, watch, outbox, rest,
                           ending, channel, client, got>>,
         others' \in 0..MaxOthers,
         memory' = memory \/ \E key, calls : memory' = Used(key, calls)
  PROVE  IInv'
<1>1. Typed'
  <2>1. Queued' = Queued /\ (IsPassthrough' <=> IsPassthrough)
    BY DEF Queued, IsPassthrough
  <2>2. Typed
    BY DEF IInv
  <2> QED
    BY <2>1, <2>2 DEF Typed
<1>2. Remembers'
  BY RemembersUsed DEF IInv
<1>3. Retries'
  BY DEF IInv, Retries
<1>4. Phases'
  BY DEF IInv, Phases, Streaming, Listening
<1>5. Serves'
  BY ServesStill DEF IInv
<1> QED
  BY <1>1, <1>2, <1>3, <1>4, <1>5 DEF IInv

LEMMA FollowUpKeeps ==
  ASSUME IInv, NEW echoes \in BOOLEAN, FollowUp(echoes)
  PROVE  IInv'
<1>1. /\ UNCHANGED <<req, stage, exchange, attempts, tardy, up, adapter, watch, outbox, rest,
                     ending, channel, client, got, others>>
      /\ memory' = memory \/ memory' = Used(Mine, Entry(Mine))
  BY DEF FollowUp, handling, reading, codex
<1>2. others' \in 0..MaxOthers
  BY <1>1 DEF IInv, Typed
<1> QED
  BY <1>1, <1>2, StoreStepKeeps

LEMMA OtherTurnKeeps ==
  ASSUME IInv, OtherTurn
  PROVE  IInv'
<1>1. /\ UNCHANGED <<req, stage, exchange, attempts, tardy, up, adapter, watch, outbox, rest,
                     ending, channel, client, got>>
      /\ memory' = Used(others', <<>>) /\ others' = others + 1 /\ others < MaxOthers
  BY DEF OtherTurn, handling, reading, codex
<1>2. others' \in 0..MaxOthers
  BY <1>1, StreamAssumption DEF IInv, Typed
<1> QED
  BY <1>1, <1>2, StoreStepKeeps

LEMMA StutterKeeps ==
  ASSUME IInv, UNCHANGED vars
  PROVE  IInv'
<1>1. /\ UNCHANGED <<req, stage, exchange, attempts, tardy, up, adapter, watch, outbox, rest,
                     ending, channel, client, got, others, memory>>
  BY DEF vars
<1>2. others' \in 0..MaxOthers
  BY <1>1 DEF IInv, Typed
<1> QED
  BY <1>1, <1>2, StoreStepKeeps

-----------------------------------------------------------------------------
(* What the invariant says of the ends of an answer.                       *)

LEMMA WholeIsCounted ==
  ASSUME NEW w, Whole(w), NEW S, w.done \in Seq(S)
  PROVE  Len(w.done) = Cardinality(w.added)
<1> DEFINE d == w.done
           n == Len(d)
<1>1. n \in Nat /\ DOMAIN d = 1..n /\ Once(d) /\ w.added = {d[i] : i \in 1..n}
  <2>1. d \in Seq(S) /\ Once(d) /\ w.added = ToSet(d)
    BY DEF Whole
  <2> HIDE DEF d
  <2> QED
    BY <2>1 DEF ToSet
<1> HIDE DEF d, n
<1>2. [i \in 1..n |-> d[i]] \in Bijection(1..n, w.added)
  BY <1>1 DEF Once, Bijection, Injection, Surjection, IsInjective
<1>3. IsFiniteSet(1..n) /\ Cardinality(1..n) = n
  <2>1. IsFiniteSet(1..n) /\ Cardinality(1..n) = IF 1 > n THEN 0 ELSE n - 1 + 1
    BY <1>1, FS_Interval
  <2> QED
    BY <1>1, <2>1
<1>4. Cardinality(1..n) = Cardinality(w.added)
  <2>1. \E f : f \in Bijection(1..n, w.added)
    BY <1>2
  <2> QED
    BY <1>3, <2>1, FS_Bijection DEF ExistsBijection
<1> QED
  BY <1>3, <1>4 DEF n, d

LEMMA TypeOKHolds ==
  ASSUME IInv
  PROVE  TypeOK
<1>1. RetriesAreBounded
  <2>1. /\ attempts \in Nat /\ tardy \in Nat /\ tardy <= 1 + FirstByteRetries
        /\ stage = "send" => tardy <= FirstByteRetries
        /\ attempts <= 1 + ConnectRetries + FirstByteRetries
        /\ FirstByteRetries \in Nat
    BY StreamAssumption DEF IInv, Retries
  <2> QED
    BY <2>1 DEF RetriesAreBounded, Sent
<1>2. adapter.text \in 0..MaxText
      /\ adapter.state \in {"new", "open", "item", "awaiting", "completed", "failed"}
      /\ up.n \in 0..MaxFrames
  BY StreamAssumption DEF IInv, Typed, Adapters, States, Upstreams
<1> QED
  BY <1>1, <1>2 DEF IInv, Typed, Remembers, TypeOK

\* What Codex has read is not more than what it will make of it all.
LEMMA GotIs ==
  ASSUME IInv, Listening
  PROVE  /\ got \in Views /\ Total \in Views /\ Len(got.terminals) <= Len(Total.terminals)
         /\ Ahead = <<>> => got = Total
<1>1. got \in Views /\ channel \in Seq(Seq(Events)) /\ outbox \in Seq(Seq(Events))
  BY DEF IInv, Typed, Phases
<1>2. Ahead \in Seq(Seq(Events))
  BY <1>1, QueuesJoin DEF Ahead
<1>3. Total \in Views /\ Len(got.terminals) <= Len(Total.terminals)
  <2>1. /\ FoldLeft(ViewFrame, got, Ahead) \in Views
        /\ Len(FoldLeft(ViewFrame, got, Ahead).terminals) >= Len(got.terminals)
    BY <1>1, <1>2, FramesAreViewed
  <2>2. Len(got.terminals) \in Nat /\ Len(FoldLeft(ViewFrame, got, Ahead).terminals) \in Nat
    BY <1>1, <2>1 DEF Views
  <2> QED
    BY <2>1, <2>2 DEF Total
<1>4. Ahead = <<>> => got = Total
  BY ViewFrameEmpty DEF Total
<1> QED
  BY <1>1, <1>3, <1>4

\* Who does not listen has nothing, or a whole answer.
LEMMA NotListening ==
  ASSUME IInv, ~Listening
  PROVE  \/ got = NoView
         \/ Whole(got) /\ got.terminals = <<"completed">> /\ got.done \in Seq(ToSet(got.done))
<1>1. client \in {"waiting", "left"}
  BY DEF IInv, Typed, Listening
<1>2. CASE client = "left"
  BY <1>2 DEF IInv, Phases
<1>3. CASE client = "waiting"
  <2>1. stage \in {"arrived", "open", "resolve", "send", "answered"}
    BY <1>3 DEF IInv, Typed, Phases, Streaming
  <2> QED
    BY <2>1 DEF IInv, Phases
<1> QED
  BY <1>1, <1>2, <1>3

LEMMA EndIsToldOnceHolds ==
  ASSUME IInv
  PROVE  EndIsToldOnce
<1>1. OrderlyEndsOnce
  <2> SUFFICES ASSUME ~up.overrun, IsPassthrough => ~up.odd
               PROVE  Len(got.terminals) <= 1
    BY DEF OrderlyEndsOnce
  <2>1. CASE Listening
    <3>1. Len(Total.terminals) <= 1
      BY <2>1 DEF IInv, Serves, Observes, Translates
    <3>2. Len(got.terminals) \in Nat /\ Len(Total.terminals) \in Nat
      BY <2>1, GotIs DEF Views
    <3> QED
      BY <2>1, <3>1, <3>2, GotIs
  <2>2. CASE ~Listening
    <3>1. got.terminals = <<>> \/ got.terminals = <<"completed">>
      BY <2>2, NotListening, NothingIsThere
    <3>2. CASE got.terminals = <<>>
      BY <3>2
    <3>3. CASE got.terminals = <<"completed">>
      BY <3>3
    <3> QED
      BY <3>1, <3>2, <3>3
  <2> QED
    BY <2>1, <2>2
<1>2. EndIsTold
  <2> SUFFICES ASSUME client = "ended"
               PROVE  \/ Told
                      \/ ~IsPassthrough /\ (ending \in {"transport", "oversized"} \/ up.overrun)
    BY DEF EndIsTold
  <2>1. Listening /\ rest = "end" /\ got = Total
    <3>1. Listening /\ stage = "ended" /\ channel = <<>>
      BY DEF IInv, Phases, Listening
    <3>2. rest = "end" /\ outbox = <<>>
      BY <3>1 DEF IInv, Phases
    <3>3. <<>> \o <<>> = <<>>
      OBVIOUS
    <3>4. Ahead = <<>>
      BY <3>1, <3>2, <3>3 DEF Ahead
    <3> QED
      BY <3>1, <3>2, <3>4, GotIs
  <2>2. CASE IsPassthrough
    BY <2>1, <2>2 DEF IInv, Serves, Observes, Told
  <2>3. CASE ~IsPassthrough
    BY <2>1, <2>3 DEF IInv, Serves, Translates, Told
  <2> QED
    BY <2>2, <2>3
<1> QED
  BY <1>1, <1>2 DEF EndIsToldOnce

LEMMA CompleteIsWholeHolds ==
  ASSUME IInv
  PROVE  CompleteIsWhole
<1> SUFFICES ASSUME ~IsPassthrough, ~up.odd
             PROVE  /\ client = "ended" /\ ending = "finished" => Succeeded
                    /\ Succeeded => /\ got.added = ToSet(got.done)
                                    /\ Len(got.done) = Cardinality(got.added)
  BY DEF CompleteIsWhole
<1>1. ~up.overrun /\ Adapts /\ Translates
  BY DEF IInv, Typed, Serves
<1>2. ASSUME client = "ended", ending = "finished"
      PROVE  Succeeded
  <2>1. Listening /\ stage = "ended" /\ channel = <<>>
    BY <1>2 DEF IInv, Phases, Listening
  <2>2. rest = "end" /\ outbox = <<>>
    BY <2>1 DEF IInv, Phases
  <2>3. <<>> \o <<>> = <<>>
    OBVIOUS
  <2>4. got = Total
    BY <2>1, <2>2, <2>3, GotIs DEF Ahead
  <2>5. Succeeds(Total)
    BY <1>1, <1>2, <2>1, <2>2 DEF Translates
  <2> QED
    BY <2>4, <2>5 DEF Succeeds, Succeeded
<1>3. ASSUME Succeeded
      PROVE  Whole(got) /\ \E S : got.done \in Seq(S)
  <2>1. got.terminals # <<>>
    <3>1. <<"completed">> # <<>> /\ <<"incomplete">> # <<>>
      OBVIOUS
    <3> QED
      BY <1>3, <3>1 DEF Succeeded
  <2>2. CASE Listening
    <3>1. got = Total /\ got \in Views
      BY <1>1, <2>1, <2>2, GotIs DEF Translates
    <3>2. CASE rest = "end"
      <4>1. Whole(Total)
        BY <1>1, <1>3, <2>2, <3>1, <3>2 DEF Translates, Succeeds, Succeeded
      <4> QED
        BY <3>1, <4>1 DEF Views
    <3>3. CASE rest # "end"
      <4>1. stage = "streaming" /\ rest = "read" /\ client # "left"
        BY <2>2, <3>3 DEF IInv, Phases, Streaming, Listening
      <4>2. Alive(up, adapter, got)
        BY <1>1, <3>1, <4>1 DEF Adapts
      <4>3. up.rank = 5 /\ Orderly(up, adapter, got)
        BY <1>1, <2>1, <4>2 DEF Alive
      <4>4. Opened(adapter) = {}
        BY <4>3 DEF Orderly
      <4> QED
        BY <3>1, <4>3, <4>4 DEF Orderly, Whole, Views
    <3> QED
      BY <3>2, <3>3
  <2>3. CASE ~Listening
    BY <2>1, <2>3, NotListening, NothingIsThere
  <2> QED
    BY <2>2, <2>3
<1>4. ASSUME Succeeded
      PROVE  got.added = ToSet(got.done) /\ Len(got.done) = Cardinality(got.added)
  <2>1. PICK S : got.done \in Seq(S)
    BY <1>3, <1>4
  <2>2. Whole(got)
    BY <1>3, <1>4
  <2>3. Len(got.done) = Cardinality(got.added)
    BY <2>1, <2>2, WholeIsCounted
  <2> QED
    BY <2>2, <2>3 DEF Whole
<1> QED
  BY <1>2, <1>4

LEMMA EndsHold ==
  ASSUME IInv
  PROVE  EndsAreWhole
BY TypeOKHolds, EndIsToldOnceHolds, CompleteIsWholeHolds DEF EndsAreWhole

LEMMA StepKeeps ==
  ASSUME IInv, [Next]_vars
  PROVE  IInv'
<1>1. CASE Receive
  BY <1>1, ReceiveKeeps
<1>2. CASE Refuse
  BY <1>2, RefuseKeeps
<1>3. CASE Open
  BY <1>3, OpenKeeps
<1>4. CASE Resolve
  BY <1>4, ResolveKeeps
<1>5. CASE ConnectFails
  BY <1>5, ConnectFailsKeeps
<1>6. CASE FirstByteIsLate
  BY <1>6, FirstByteIsLateKeeps
<1>7. CASE UpstreamRefuses
  BY <1>7, UpstreamRefusesKeeps
<1>8. CASE \E answer \in Answers : AnswerWhole(answer)
  BY <1>8, AnswerWholeKeeps
<1>9. CASE StartStream
  BY <1>9, StartStreamKeeps
<1>10. CASE ReadChunk
  BY <1>10, ReadChunkKeeps
<1>11. CASE ReadEnd
  BY <1>11, ReadEndKeeps
<1>12. CASE ReadFails
  BY <1>12, ReadFailsKeeps
<1>13. CASE Send
  BY <1>13, SendKeeps
<1>14. CASE SendFails
  BY <1>14, SendFailsKeeps
<1>15. CASE TaskEnds
  BY <1>15, TaskEndsKeeps
<1>16. CASE ClientReads
  BY <1>16, ClientReadsKeeps
<1>17. CASE ClientSeesEnd
  BY <1>17, ClientSeesEndKeeps
<1>18. CASE ClientLeaves
  BY <1>18, ClientLeavesKeeps
<1>19. CASE \E echoes \in BOOLEAN : FollowUp(echoes)
  BY <1>19, FollowUpKeeps
<1>20. CASE OtherTurn
  BY <1>20, OtherTurnKeeps
<1>21. CASE Done \/ UNCHANGED vars
  BY <1>21, StutterKeeps DEF Done
<1> QED
  BY <1>1, <1>2, <1>3, <1>4, <1>5, <1>6, <1>7, <1>8, <1>9, <1>10, <1>11, <1>12, <1>13, <1>14,
     <1>15, <1>16, <1>17, <1>18, <1>19, <1>20, <1>21 DEF Next

\* Whatever Codex asks and the upstream answers, however the stream is cut into
\* reads, and whenever the connection, the channel or Codex gives up: the state
\* keeps its types and its bounds, Codex is told once how the answer ended, and
\* an answer that is said to be complete is whole (routes.rs, sse.rs).
THEOREM EndsAreAlwaysWhole == Spec => []EndsAreWhole
<1>1. Init => IInv
  BY InitIsInvariant
<1>2. IInv /\ [Next]_vars => IInv'
  BY StepKeeps
<1>3. IInv => EndsAreWhole
  BY EndsHold
<1> QED
  BY <1>1, <1>2, <1>3, PTL DEF Spec

-----------------------------------------------------------------------------
(* The reasoning of a conversation outlives the turns of others.           *)

\* The entries behind ours in the store are those of the conversations that came
\* since, each of which has a key of its own.
Recent ==
  /\ since \in SUBSET (1..others)
  /\ \A i \in DOMAIN memory : memory[i].key \in 0..others
  /\ Known(Mine) => Len(memory) - Place(Mine) <= Cardinality(since)
  /\ (Known(Mine) /\ ~next.asked) => Cardinality(since) <= Len(memory) - Place(Mine)

\* An answer has reasoning only when it is streamed, and a task that finished has
\* nothing left to send.
Settled ==
  /\ stage \in {"arrived", "open", "resolve", "send"} => ending = None
  /\ ~Streaming => adapter.thought = 0
  /\ (Streaming /\ ending = "finished") => rest = "end" /\ outbox = <<>>

Lasts == Recent /\ Settled /\ ReasoningIsKept

LEMMA OnlyPlace ==
  ASSUME NEW s, \A i, j \in DOMAIN s : s[i].key = s[j].key => i = j,
         NEW p \in DOMAIN s
  PROVE  (CHOOSE i \in DOMAIN s : s[i].key = s[p].key) = p
<1> DEFINE q == CHOOSE i \in DOMAIN s : s[i].key = s[p].key
<1>1. q \in DOMAIN s /\ s[q].key = s[p].key
  OBVIOUS
<1> QED
  BY <1>1

LEMMA SinceIsCounted ==
  ASSUME Recent, others \in Nat
  PROVE  /\ IsFiniteSet(since) /\ Cardinality(since) \in Nat
         /\ others + 1 \notin since
         /\ Cardinality(since \cup {others + 1}) = Cardinality(since) + 1
<1>1. IsFiniteSet(1..others)
  <2>1. 1 \in Int /\ others \in Int
    OBVIOUS
  <2> QED
    BY <2>1, FS_Interval
<1>2. IsFiniteSet(since)
  BY <1>1, FS_Subset DEF Recent
<1>3. others + 1 \notin since
  BY DEF Recent
<1> HIDE DEF Recent
<1> QED
  BY <1>2, <1>3, FS_CardinalityType, FS_AddElement

\* Our entry is used: it is the last one.
LEMMA OursIsUsed ==
  ASSUME IInv, Recent, NEW calls, memory' = Used(Mine, calls), others' = others,
         since' = {} \/ (since' = since /\ ~Known(Mine) /\ next'.asked)
  PROVE  Recent' /\ Entry(Mine)' = calls
<1> DEFINE u == Used(Mine, calls)
           e == [key |-> Mine, calls |-> calls]
           n == Len(u)
<1>1. /\ \A i, j \in DOMAIN u : u[i].key = u[j].key => i = j
      /\ n \in DOMAIN u /\ u[n] = e
      /\ \A i \in DOMAIN u : u[i].key = Mine \/ \E j \in DOMAIN memory : memory[j] = u[i]
  BY UsedIs DEF IInv
<1>2. n \in Nat
  <2>1. u \in Seq(ToSet(u))
    BY UsedIs DEF IInv
  <2> HIDE DEF u
  <2> QED
    BY <2>1
<1>3. memory' = u
  OBVIOUS
<1>4. others \in Nat
  BY StreamAssumption DEF IInv, Typed
<1> HIDE DEF u, n, e
<1>5. u[n].key = Mine /\ u[n].calls = calls
  BY <1>1 DEF e
<1>6. (CHOOSE i \in DOMAIN u : u[i].key = Mine) = n
  BY <1>1, <1>5, OnlyPlace
<1>7. Known(Mine)' /\ Place(Mine)' = n /\ Entry(Mine)' = calls
  BY <1>1, <1>3, <1>5, <1>6 DEF Known, Place, Entry
<1>8. \A i \in DOMAIN memory' : memory'[i].key \in 0..others
  <2> TAKE i \in DOMAIN memory'
  <2>1. CASE u[i].key = Mine
    BY <1>3, <1>4, <2>1 DEF Mine
  <2>2. CASE \E j \in DOMAIN memory : memory[j] = u[i]
    BY <1>3, <2>2 DEF Recent
  <2> QED
    BY <1>1, <1>3, <2>1, <2>2
<1>9. since' \in SUBSET (1..others) /\ Cardinality(since') \in Nat
      /\ (since' = {} => Cardinality(since') = 0)
  <2>1. /\ since' = {} \/ since' = since
        /\ Cardinality(since) \in Nat /\ Cardinality({}) = 0
    BY <1>4, SinceIsCounted, FS_EmptySet
  <2>2. since' \in SUBSET (1..others)
    BY <2>1 DEF Recent
  <2>3. CASE since' = {}
    BY <2>1, <2>2, <2>3
  <2>4. CASE since' = since
    <3>1. Cardinality(since') = Cardinality(since)
      BY <2>4
    <3> QED
      BY <2>1, <2>2, <2>4, <3>1
  <2> QED
    BY <2>1, <2>3, <2>4
<1>10. Len(memory') - Place(Mine)' = 0
  BY <1>2, <1>3, <1>7 DEF n
<1>11. Known(Mine)' => Len(memory') - Place(Mine)' <= Cardinality(since')
  BY <1>9, <1>10
<1>12. (Known(Mine)' /\ ~next'.asked) => Cardinality(since') <= Len(memory') - Place(Mine)'
  BY <1>9, <1>10
<1>13. Recent'
  BY <1>8, <1>9, <1>11, <1>12 DEF Recent
<1> QED
  BY <1>7, <1>13

\* Another conversation is served: our entry moves on, or goes when as many
\* others came as the store has places.
LEMMA AnotherIsUsed ==
  ASSUME IInv, Recent, memory' = Used(others + 1, <<>>), others' = others + 1,
         since' = since \cup {others + 1}, next' = next
  PROVE  /\ Recent'
         /\ Cardinality(since') < MaxSessions =>
              Entry(Mine)' = Entry(Mine) /\ Cardinality(since) < MaxSessions
<1> DEFINE n == Len(memory)
           k == others + 1
           e == [key |-> k, calls |-> <<>>]
           room == IF n >= MaxSessions THEN Tail(memory) ELSE memory
           c == Cardinality(since)
           u == Used(k, <<>>)
<1>1. /\ memory \in Seq(ToSet(memory)) /\ n <= MaxSessions /\ n \in Nat
      /\ DOMAIN memory = 1..n /\ MaxSessions \in Nat /\ MaxSessions >= 1
      /\ \A i, j \in DOMAIN memory : memory[i].key = memory[j].key => i = j
  <2>1. memory \in Seq(ToSet(memory)) /\ n <= MaxSessions
        /\ \A i, j \in DOMAIN memory : memory[i].key = memory[j].key => i = j
    BY DEF IInv, Remembers
  <2> QED
    BY <2>1, StreamAssumption
<1>2. others \in Nat /\ k \in Nat /\ k # Mine /\ ~(k \in 0..others)
  BY StreamAssumption DEF IInv, Typed, Mine
<1>3. \A i \in 1..n : memory[i].key \in 0..others
  BY <1>1 DEF Recent
<1>4. ~Known(k)
  BY <1>1, <1>2, <1>3 DEF Known
<1>5. u = Append(room, e)
  BY <1>4 DEF Used
<1>6. c \in Nat /\ Cardinality(since') = c + 1
  BY <1>2, SinceIsCounted
<1>7. since' \in SUBSET (1..others')
  BY <1>2 DEF Recent
<1>8. memory' = u
  OBVIOUS
<1>9. \A i \in DOMAIN memory' : memory'[i].key \in 0..others'
  <2> TAKE i \in DOMAIN memory'
  <2>1. u[i].key = k \/ \E j \in DOMAIN memory : memory[j] = u[i]
    <3>1. \A x \in DOMAIN u : u[x].key = k \/ \E j \in DOMAIN memory : memory[j] = u[x]
      BY UsedIs DEF IInv
    <3> HIDE DEF u
    <3> QED
      BY <1>8, <3>1
  <2>2. CASE u[i].key = k
    BY <1>2, <1>8, <2>2
  <2>3. CASE \E j \in DOMAIN memory : memory[j] = u[i]
    <3>1. PICK j \in DOMAIN memory : memory[j] = u[i]
      BY <2>3
    <3> QED
      BY <1>1, <1>2, <1>3, <1>8, <3>1
  <2> QED
    BY <2>1, <2>2, <2>3
<1>10. \A i, j \in DOMAIN u : u[i].key = u[j].key => i = j
  BY UsedIs DEF IInv
<1> HIDE DEF u, e
<1>11. /\ n >= MaxSessions => n = MaxSessions /\ room \in Seq(ToSet(memory)) /\ Len(room) = n - 1
                              /\ \A i \in 1..(n - 1) : room[i] = memory[i + 1]
       /\ ~(n >= MaxSessions) => room = memory
  <2>1. CASE n >= MaxSessions
    <3>1. room = Tail(memory) /\ n = MaxSessions /\ n # 0
      <4>1. room = Tail(memory)
        BY <2>1
      <4> HIDE DEF room, n
      <4>2. n = MaxSessions /\ n # 0
        BY <1>1, <2>1
      <4> QED
        BY <4>1, <4>2
    <3>4. memory # <<>>
      BY <3>1
    <3>2. Tail(memory) \in Seq(ToSet(memory)) /\ Len(Tail(memory)) = n - 1
      BY <1>1, <3>4, HeadTailProperties
    <3>3. \A i \in 1..(n - 1) : Tail(memory)[i] = memory[i + 1]
      BY <1>1, <3>2, <3>4, HeadTailProperties
    <3> QED
      BY <2>1, <3>1, <3>2, <3>3
  <2>2. CASE ~(n >= MaxSessions)
    BY <2>2
  <2> QED
    BY <2>1, <2>2
<1> HIDE DEF room
<1> DEFINE m == Len(room)
<1>12. /\ room \in Seq(ToSet(memory)) /\ m \in Nat /\ DOMAIN u = 1..(m + 1) /\ Len(u) = m + 1
       /\ u[m + 1] = e /\ \A i \in 1..m : u[i] = room[i]
  <2>1. room \in Seq(ToSet(memory))
    BY <1>1, <1>11
  <2>2. room \in Seq(ToSet(memory) \cup {e})
    BY <2>1
  <2> HIDE DEF n
  <2> QED
    BY <1>5, <2>1, <2>2
<1>13. u[m + 1].key # Mine
  BY <1>2, <1>12 DEF e
\* Where our entry is afterwards, if it is there.
<1>14. ASSUME NEW q \in DOMAIN u, u[q].key = Mine
       PROVE  /\ Known(Mine) /\ Known(Mine)' /\ Place(Mine)' = q
              /\ Entry(Mine)' = Entry(Mine)
              /\ Len(u) - q = n - Place(Mine) + 1
  <2>1. q \in 1..m /\ u[q] = room[q]
    BY <1>12, <1>13, <1>14
  <2> DEFINE p == IF n >= MaxSessions THEN q + 1 ELSE q
  <2>2. p \in 1..n /\ memory[p] = u[q] /\ m + 1 - q = n - p + 1
    <3>1. CASE n >= MaxSessions
      <4>1. m = n - 1 /\ p = q + 1 /\ room[q] = memory[q + 1]
        BY <1>11, <2>1, <3>1
      <4> HIDE DEF p, m, n
      <4> QED
        BY <1>1, <2>1, <4>1
    <3>2. CASE ~(n >= MaxSessions)
      <4>1. m = n /\ p = q /\ room = memory
        BY <1>11, <3>2
      <4> HIDE DEF p, m, n
      <4> QED
        BY <1>1, <2>1, <4>1
    <3> QED
      BY <3>1, <3>2
  <2> HIDE DEF p
  <2>3. p \in DOMAIN memory /\ memory[p].key = Mine
    BY <1>1, <1>14, <2>2
  <2>4. Known(Mine) /\ Place(Mine) = p
    BY <1>1, <2>3, OnlyPlace DEF Known, Place
  <2>5. Known(Mine)' /\ Place(Mine)' = q
    <3>1. (CHOOSE i \in DOMAIN u : u[i].key = u[q].key) = q
      BY <1>10, OnlyPlace
    <3> QED
      BY <1>8, <1>14, <3>1 DEF Known, Place
  <2>6. Entry(Mine)' = u[q].calls /\ Entry(Mine) = memory[p].calls
    BY <1>8, <2>4, <2>5 DEF Entry
  <2> QED
    BY <1>12, <2>2, <2>4, <2>5, <2>6
<1>15. ASSUME ~\E q \in DOMAIN u : u[q].key = Mine
       PROVE  /\ ~Known(Mine)' /\ Entry(Mine)' = <<>>
              /\ ~Known(Mine) \/ MaxSessions <= c + 1
  <2>1. ~Known(Mine)'
    BY <1>8, <1>15 DEF Known
  <2>2. ASSUME Known(Mine)
        PROVE  MaxSessions <= c + 1
    <3> DEFINE p == Place(Mine)
    <3>1. p \in 1..n /\ memory[p].key = Mine
      BY <1>1, <2>2 DEF Known, Place
    <3>2. n - p <= c
      BY <2>2 DEF Recent
    <3> HIDE DEF p
    <3>3. n >= MaxSessions
      <4> SUFFICES ASSUME ~(n >= MaxSessions) PROVE FALSE
        OBVIOUS
      <4>1. room = memory
        BY <1>11
      <4>2. p \in 1..m /\ u[p] = memory[p] /\ p \in DOMAIN u
        BY <1>12, <3>1, <4>1
      <4> QED
        BY <1>15, <3>1, <4>2
    <3>4. p = 1
      <4> SUFFICES ASSUME p # 1 PROVE FALSE
        OBVIOUS
      <4>1. p - 1 \in 1..(n - 1) /\ (p - 1) + 1 = p /\ m = n - 1
        <5>1. m = n - 1
          BY <1>11, <3>3
        <5> HIDE DEF m, n
        <5> QED
          BY <1>1, <3>1, <5>1
      <4>2. room[p - 1] = memory[p]
        BY <1>11, <3>3, <4>1
      <4>3. p - 1 \in 1..m /\ p - 1 \in DOMAIN u /\ u[p - 1] = memory[p]
        BY <1>12, <4>1, <4>2
      <4> QED
        BY <1>15, <3>1, <4>3
    <3>5. n = MaxSessions
      BY <1>11, <3>3
    <3> HIDE DEF n, c
    <3> QED
      BY <1>1, <1>6, <3>2, <3>4, <3>5
  <2>3. Entry(Mine)' = <<>>
    BY <2>1 DEF Entry
  <2> QED
    BY <2>1, <2>2, <2>3
<1>16. Known(Mine) => n - Place(Mine) \in Int
  <2> SUFFICES ASSUME Known(Mine) PROVE n - Place(Mine) \in Int
    OBVIOUS
  <2>1. Place(Mine) \in 1..n
    BY <1>1 DEF Known, Place
  <2> QED
    BY <1>1, <2>1
<1>17. CASE \E q \in DOMAIN u : u[q].key = Mine
  <2>1. PICK q \in DOMAIN u : u[q].key = Mine
    BY <1>17
  <2>2. /\ Known(Mine) /\ Known(Mine)' /\ Place(Mine)' = q
        /\ Entry(Mine)' = Entry(Mine)
        /\ Len(u) - q = n - Place(Mine) + 1
    BY <1>14, <2>1
  <2>3. /\ n - Place(Mine) <= c
        /\ ~next.asked => c <= n - Place(Mine)
    BY <2>2 DEF Recent
  <2> DEFINE d == n - Place(Mine)
             b == Len(memory') - Place(Mine)'
  <2>4. b = d + 1 /\ d \in Int /\ d <= c /\ (~next.asked => c <= d)
    BY <1>8, <1>16, <2>2, <2>3
  <2> HIDE DEF d, b, c
  <2>5. b <= c + 1 /\ (~next.asked => c + 1 <= b)
    BY <1>6, <2>4
  <2>6. Recent'
    <3> USE DEF b
    <3> QED
      BY <1>6, <1>7, <1>9, <2>5 DEF Recent, c
  <2>7. c + 1 < MaxSessions => c < MaxSessions
    BY <1>1, <1>6
  <2> QED
    BY <1>6, <2>2, <2>6, <2>7 DEF c
<1>18. CASE ~\E q \in DOMAIN u : u[q].key = Mine
  <2>1. ~Known(Mine)' /\ Entry(Mine)' = <<>> /\ (~Known(Mine) \/ MaxSessions <= c + 1)
    BY <1>15, <1>18
  <2>2. Recent'
    BY <1>7, <1>9, <2>1 DEF Recent
  <2>3. ~Known(Mine) => Entry(Mine) = <<>>
    BY DEF Entry
  <2> HIDE DEF c
  <2>4. c + 1 < MaxSessions => c < MaxSessions /\ ~(MaxSessions <= c + 1)
    BY <1>1, <1>6
  <2> QED
    BY <1>6, <2>1, <2>2, <2>3, <2>4 DEF c
<1> QED
  BY <1>17, <1>18

LEMMA RecentStill ==
  ASSUME Recent, UNCHANGED <<memory, since, others, next>>
  PROVE  Recent'
<1>1. (Known(Mine)' <=> Known(Mine)) /\ Place(Mine)' = Place(Mine)
  BY DEF Known, Place
<1> QED
  BY <1>1 DEF Recent

\* No answer with reasoning has ended: there is nothing to keep.
LEMMA NothingToKeep ==
  ASSUME Recent', Settled', adapter'.thought = 0 \/ ending' # "finished"
  PROVE  Lasts'
<1>1. ~(ending' = "finished" /\ adapter'.thought > 0)
  BY StreamAssumption
<1> QED
  BY <1>1 DEF Lasts, ReasoningIsKept

LEMMA KeptAside ==
  ASSUME Lasts, UNCHANGED <<req, adapter, rest, outbox, ending, memory, since, others, next>>,
         stage' = stage \/ (Streaming /\ Streaming')
  PROVE  Lasts'
<1>1. Recent'
  BY RecentStill DEF Lasts
<1>2. Settled'
  BY DEF Lasts, Settled, Streaming
<1>3. ReasoningIsKept'
  <2>1. Entry(Mine)' = Entry(Mine)
    BY DEF Known, Place, Entry
  <2>2. IsPassthrough' = IsPassthrough
    BY DEF IsPassthrough
  <2> QED
    BY <2>1, <2>2 DEF Lasts, ReasoningIsKept
<1> QED
  BY <1>1, <1>2, <1>3 DEF Lasts

\* The reasoning of a turn is recorded, or there is none to record.
LEMMA RecordedIs ==
  ASSUME IInv, Recent, NEW ids, NEW thought \in BOOLEAN, Recorded(ids, thought),
         UNCHANGED <<others, next>>
  PROVE  Recent' /\ (req.thinking /\ thought => ids \subseteq DOMAIN Entry(Mine)')
<1>1. CASE ~req.thinking \/ ids = {} \/ ~thought
  <2>1. UNCHANGED <<memory, since>>
    BY <1>1 DEF Recorded
  <2> QED
    BY <1>1, <2>1, RecentStill
<1>2. CASE ~(~req.thinking \/ ids = {} \/ ~thought)
  <2> DEFINE calls == With(Entry(Mine), ids, Reasoning)
  <2>1. memory' = Used(Mine, calls) /\ since' = {}
    BY <1>2 DEF Recorded
  <2>2. ids \subseteq DOMAIN calls
    BY DEF With
  <2> HIDE DEF calls
  <2>3. Recent' /\ Entry(Mine)' = calls
    BY <2>1, OursIsUsed
  <2> QED
    BY <2>2, <2>3
<1> QED
  BY <1>1, <1>2

LEMMA BeforeTheAnswerLasts ==
  ASSUME Lasts, stage \in {"arrived", "open", "resolve", "send"},
         stage' \in {"arrived", "open", "resolve", "send", "answered"}, adapter' = adapter,
         stage' # "answered" => ending' = ending, UNCHANGED <<memory, since, others, next>>
  PROVE  Lasts'
<1>1. ~Streaming /\ ~Streaming'
  BY DEF Streaming
<1>2. adapter'.thought = 0 /\ ending = None
  BY <1>1 DEF Lasts, Settled
<1>3. Settled'
  BY <1>1, <1>2 DEF Settled
<1>4. Recent'
  BY RecentStill DEF Lasts
<1> QED
  BY <1>2, <1>3, <1>4, NothingToKeep

LEMMA ReceiveLasts ==
  ASSUME IInv, Lasts, Receive
  PROVE  Lasts'
<1>1. /\ stage = "arrived" /\ UNCHANGED <<req, adapter, others, next>>
      /\ stage' \in {"open", "answered"} /\ (stage' = "open" => ending' = ending)
  BY DEF Receive
<1>2. ~Streaming /\ ~Streaming'
  BY <1>1 DEF Streaming
<1>3. adapter'.thought = 0 /\ ending = None
  BY <1>1, <1>2 DEF Lasts, Settled
<1>4. Settled'
  BY <1>1, <1>2, <1>3 DEF Settled
<1>5. \/ UNCHANGED <<memory, since>>
      \/ memory' = Used(Mine, Entry(Mine)) /\ since' = {}
  BY DEF Receive
<1>6. Recent'
  BY <1>1, <1>5, OursIsUsed, RecentStill DEF Lasts
<1> QED
  BY <1>3, <1>4, <1>6, NothingToKeep

LEMMA AnswerWholeLasts ==
  ASSUME IInv, Lasts, NEW answer \in Answers, AnswerWhole(answer)
  PROVE  Lasts'
<1>1. stage = "send" /\ stage' = "answered" /\ UNCHANGED <<adapter, others, next>>
  BY DEF AnswerWhole
<1>2. ~Streaming /\ ~Streaming'
  BY <1>1 DEF Streaming
<1>3. adapter'.thought = 0
  BY <1>1, <1>2 DEF Lasts, Settled
<1>4. Settled'
  BY <1>1, <1>2, <1>3 DEF Settled
<1>5. UNCHANGED <<memory, since>> \/ \E ids : \E thought \in BOOLEAN : Recorded(ids, thought)
  BY DEF AnswerWhole
<1>6. Recent'
  BY <1>1, <1>5, RecordedIs, RecentStill DEF Lasts
<1> QED
  BY <1>3, <1>4, <1>6, NothingToKeep

LEMMA StartStreamLasts ==
  ASSUME Lasts, StartStream
  PROVE  Lasts'
<1>1. /\ stage = "send" /\ stage' = "streaming"
      /\ UNCHANGED <<ending, memory, since, others, next>>
      /\ \/ adapter' = adapter
         \/ adapter' = Started(NewAdapter(req.thinking, ToolsOf(req)))
  BY DEF StartStream, history
<1>2. ~Streaming
  BY <1>1 DEF Streaming
<1>3. adapter.thought = 0 /\ ending = None
  BY <1>1, <1>2 DEF Lasts, Settled
<1>4. ending' # "finished"
  <2>1. None # "finished"
    BY AnswerAssumption
  <2> QED
    BY <1>1, <1>3, <2>1
<1>5. Settled'
  BY <1>1, <1>4 DEF Settled, Streaming
<1>6. Recent'
  BY <1>1, RecentStill DEF Lasts
<1> QED
  BY <1>4, <1>5, <1>6, NothingToKeep

LEMMA ReadingLasts ==
  ASSUME Lasts, stage = "streaming", stage' = stage, ending' # "finished",
         UNCHANGED <<memory, since, others, next>>
  PROVE  Lasts'
<1>1. Settled'
  BY DEF Settled, Streaming
<1>2. Recent'
  BY RecentStill DEF Lasts
<1> QED
  BY <1>1, <1>2, NothingToKeep

LEMMA ReadsOn ==
  ASSUME Lasts, Pumping
  PROVE  stage = "streaming" /\ ending # "finished"
BY DEF Lasts, Settled, Pumping, Streaming

LEMMA ReadChunkLasts ==
  ASSUME Lasts, ReadChunk
  PROVE  Lasts'
<1>1. Pumping /\ UNCHANGED <<stage, memory, since, others, next>>
  BY DEF ReadChunk, history
<1>2. ending' = ending \/ ending' = "malformed"
  BY DEF ReadChunk, Ends
<1> QED
  BY <1>1, <1>2, ReadsOn, ReadingLasts

LEMMA ReadEndLasts ==
  ASSUME IInv, Lasts, ReadEnd
  PROVE  Lasts'
<1>1. Pumping /\ UNCHANGED <<req, stage, others, next>>
  BY DEF ReadEnd
<1>2. stage = "streaming"
  BY <1>1, ReadsOn
<1> DEFINE b == EndOfStream(adapter)
           ids == ToolCallIds(b)
           thought == b.thought > 0
<1>3. \/ ending' = "eof" /\ UNCHANGED <<memory, since>>
      \/ /\ adapter' = b /\ rest' = "end" /\ outbox' = <<>> /\ ending' = "finished"
         /\ Recorded(ids, thought)
  BY DEF ReadEnd, Ends
<1>4. CASE ending' = "eof" /\ UNCHANGED <<memory, since>>
  BY <1>1, <1>2, <1>4, ReadingLasts
<1>5. CASE /\ adapter' = b /\ rest' = "end" /\ outbox' = <<>> /\ ending' = "finished"
           /\ Recorded(ids, thought)
  <2>1. Settled'
    BY <1>1, <1>2, <1>5 DEF Settled, Streaming
  <2> HIDE DEF b
  <2>2. ToolCallIds(adapter)' = ids /\ (adapter'.thought > 0 <=> thought)
    BY <1>5 DEF ToolCallIds
  <2>3. thought \in BOOLEAN
    OBVIOUS
  <2> HIDE DEF ids, thought
  <2>4. Recent' /\ (req.thinking /\ thought => ids \subseteq DOMAIN Entry(Mine)')
    BY <1>1, <1>5, <2>3, RecordedIs DEF Lasts
  <2>5. ReasoningIsKept'
    BY <1>1, <2>2, <2>4 DEF ReasoningIsKept
  <2> QED
    BY <2>1, <2>4, <2>5 DEF Lasts
<1> QED
  BY <1>3, <1>4, <1>5

LEMMA ReadFailsLasts ==
  ASSUME Lasts, ReadFails
  PROVE  Lasts'
<1>1. Pumping /\ UNCHANGED <<stage, memory, since, others, next>> /\ ending' = "transport"
  BY DEF ReadFails, history, Ends
<1> QED
  BY <1>1, ReadsOn, ReadingLasts

LEMMA SendLasts ==
  ASSUME Lasts, Send \/ SendFails
  PROVE  Lasts'
<1>1. Sending /\ UNCHANGED <<stage, memory, since, others, next>>
  BY DEF Send, SendFails, history
<1>2. ending' \in {ending, "gone", "oversized"}
  BY DEF Send, SendFails, Ends
<1>3. stage = "streaming" /\ ending # "finished"
  BY <1>1 DEF Sending, Lasts, Settled, Streaming
<1> QED
  BY <1>1, <1>2, <1>3, ReadingLasts

LEMMA ClientLeavesLasts ==
  ASSUME IInv, Lasts, ClientLeaves
  PROVE  Lasts'
<1>1. UNCHANGED <<req, adapter, rest, outbox, ending, memory, since, others, next>>
  BY DEF ClientLeaves, reading, history
<1>2. CASE client = "waiting"
  <2>1. ~Streaming /\ stage' = "dropped" /\ ~Streaming'
    BY <1>2 DEF ClientLeaves, IInv, Phases, Streaming
  <2>2. adapter'.thought = 0
    BY <1>1, <2>1 DEF Lasts, Settled
  <2>3. Settled'
    BY <2>1, <2>2 DEF Settled
  <2>4. Recent'
    BY <1>1, RecentStill DEF Lasts
  <2> QED
    BY <2>2, <2>3, <2>4, NothingToKeep
<1>3. CASE client # "waiting"
  <2>1. stage' = stage
    BY <1>3 DEF ClientLeaves
  <2> QED
    BY <1>1, <2>1, KeptAside
<1> QED
  BY <1>2, <1>3

LEMMA FollowUpLasts ==
  ASSUME IInv, Lasts, NEW echoes \in BOOLEAN, FollowUp(echoes)
  PROVE  Lasts'
<1>1. UNCHANGED <<req, stage, adapter, rest, outbox, ending, others>>
      /\ ~next.asked /\ next'.asked
  BY DEF FollowUp, reading
<1>2. Settled'
  BY <1>1 DEF Lasts, Settled, Streaming
<1>3. CASE ~req.thinking
  <2>1. UNCHANGED <<memory, since>>
    BY <1>3 DEF FollowUp
  <2>2. Recent'
    <3>1. (Known(Mine)' <=> Known(Mine)) /\ Place(Mine)' = Place(Mine)
      BY <2>1 DEF Known, Place
    <3> QED
      BY <1>1, <2>1, <3>1 DEF Lasts, Recent
  <2>3. ReasoningIsKept'
    BY <1>1, <1>3 DEF ReasoningIsKept
  <2> QED
    BY <1>2, <2>2, <2>3 DEF Lasts
<1>4. CASE req.thinking
  <2>1. memory' = Used(Mine, Entry(Mine)) /\ since' = (IF Known(Mine) THEN {} ELSE since)
    BY <1>4 DEF FollowUp
  <2>2. Recent' /\ Entry(Mine)' = Entry(Mine)
    BY <1>1, <2>1, OursIsUsed DEF Lasts
  <2>3. Cardinality(since') < MaxSessions => Cardinality(since) < MaxSessions
    <3>1. CASE Known(Mine)
      <4> DEFINE n == Len(memory)
                 p == Place(Mine)
                 c == Cardinality(since)
      <4>1. c <= n - p
        BY <1>1, <3>1 DEF Lasts, Recent
      <4>2. n \in Nat /\ n <= MaxSessions /\ p \in 1..n
        <5>1. memory \in Seq(ToSet(memory)) /\ n <= MaxSessions
          BY DEF IInv, Remembers
        <5>2. n \in Nat /\ DOMAIN memory = 1..n
          BY <5>1
        <5> QED
          BY <3>1, <5>1, <5>2 DEF Known, Place
      <4>3. c \in Nat /\ MaxSessions \in Nat
        <5>1. others \in Nat
          BY StreamAssumption DEF IInv, Typed
        <5> QED
          BY <5>1, SinceIsCounted, StreamAssumption DEF Lasts
      <4> HIDE DEF n, p, c
      <4>4. c < MaxSessions
        BY <4>1, <4>2, <4>3
      <4> QED
        BY <4>4 DEF c
    <3>2. CASE ~Known(Mine)
      BY <2>1, <3>2
    <3> QED
      BY <3>1, <3>2
  <2>4. ReasoningIsKept'
    <3>1. (IsPassthrough' <=> IsPassthrough) /\ ToolCallIds(adapter)' = ToolCallIds(adapter)
      BY <1>1 DEF IsPassthrough, ToolCallIds
    <3> QED
      BY <1>1, <2>2, <2>3, <3>1 DEF Lasts, ReasoningIsKept
  <2> QED
    BY <1>2, <2>2, <2>4 DEF Lasts
<1> QED
  BY <1>3, <1>4

LEMMA OtherTurnLasts ==
  ASSUME IInv, Lasts, OtherTurn
  PROVE  Lasts'
<1>1. /\ UNCHANGED <<req, stage, adapter, rest, outbox, ending, next>>
      /\ others' = others + 1 /\ memory' = Used(others + 1, <<>>)
      /\ since' = since \cup {others + 1}
  BY DEF OtherTurn, reading
<1>2. Settled'
  BY <1>1 DEF Lasts, Settled, Streaming
<1>3. /\ Recent'
      /\ Cardinality(since') < MaxSessions =>
           Entry(Mine)' = Entry(Mine) /\ Cardinality(since) < MaxSessions
  BY <1>1, AnotherIsUsed DEF Lasts
<1>4. (IsPassthrough' <=> IsPassthrough) /\ ToolCallIds(adapter)' = ToolCallIds(adapter)
  BY <1>1 DEF IsPassthrough, ToolCallIds
<1>5. ReasoningIsKept'
  BY <1>1, <1>3, <1>4 DEF Lasts, ReasoningIsKept
<1> QED
  BY <1>2, <1>3, <1>5 DEF Lasts

LEMMA StepLasts ==
  ASSUME IInv, Lasts, [Next]_vars
  PROVE  Lasts'
<1>1. CASE Receive
  BY <1>1, ReceiveLasts
<1>2. CASE Refuse \/ Open \/ Resolve \/ ConnectFails \/ FirstByteIsLate \/ UpstreamRefuses
  <2>1. /\ stage \in {"arrived", "open", "resolve", "send"}
        /\ stage' \in {"arrived", "open", "resolve", "send", "answered"}
        /\ adapter' = adapter /\ (stage' # "answered" => ending' = ending)
        /\ UNCHANGED <<memory, since, others, next>>
    BY <1>2 DEF Refuse, Open, Resolve, ConnectFails, FirstByteIsLate, UpstreamRefuses, Answer,
                reading, history
  <2> QED
    BY <2>1, BeforeTheAnswerLasts
<1>3. CASE \E answer \in Answers : AnswerWhole(answer)
  BY <1>3, AnswerWholeLasts
<1>4. CASE StartStream
  BY <1>4, StartStreamLasts
<1>5. CASE ReadChunk
  BY <1>5, ReadChunkLasts
<1>6. CASE ReadEnd
  BY <1>6, ReadEndLasts
<1>7. CASE ReadFails
  BY <1>7, ReadFailsLasts
<1>8. CASE Send \/ SendFails
  BY <1>8, SendLasts
<1>9. CASE TaskEnds \/ ClientReads \/ ClientSeesEnd \/ Done \/ UNCHANGED vars
  <2>1. /\ UNCHANGED <<req, adapter, rest, outbox, ending, memory, since, others, next>>
        /\ stage' = stage \/ (Streaming /\ Streaming')
    BY <1>9 DEF TaskEnds, ClientReads, ClientSeesEnd, Done, vars, reading, history, Streaming
  <2> QED
    BY <2>1, KeptAside
<1>10. CASE ClientLeaves
  BY <1>10, ClientLeavesLasts
<1>11. CASE \E echoes \in BOOLEAN : FollowUp(echoes)
  BY <1>11, FollowUpLasts
<1>12. CASE OtherTurn
  BY <1>12, OtherTurnLasts
<1> QED
  BY <1>1, <1>2, <1>3, <1>4, <1>5, <1>6, <1>7, <1>8, <1>9, <1>10, <1>11, <1>12 DEF Next

LEMMA InitLasts ==
  ASSUME Init
  PROVE  Lasts
<1>1. stage = "arrived" /\ ending = None /\ adapter.thought = 0 /\ ~Streaming
  BY DEF Init, NewAdapter, Streaming
<1>2. memory = <<>> /\ since = {}
  BY DEF Init
<1>3. ~Known(Mine)
  BY <1>2 DEF Known
<1>4. Recent
  BY <1>2, <1>3 DEF Recent
<1>5. Settled
  BY <1>1 DEF Settled
<1>6. ReasoningIsKept
  BY <1>1 DEF ReasoningIsKept
<1> QED
  BY <1>4, <1>5, <1>6 DEF Lasts

\* However many conversations share the store of reasoning histories, and in
\* whatever order they are served: the reasoning of an answer that calls tools is
\* there for each of its calls until as many others came since as the store has
\* places (routes.rs).
THEOREM ReasoningOutlivesOthers == Spec => []ReasoningIsKept
<1>1. Init => IInv /\ Lasts
  BY InitIsInvariant, InitLasts
<1>2. IInv /\ Lasts /\ [Next]_vars => (IInv /\ Lasts)'
  BY StepKeeps, StepLasts
<1>3. IInv /\ Lasts => ReasoningIsKept
  BY DEF Lasts
<1> QED
  BY <1>1, <1>2, <1>3, PTL DEF Spec

-----------------------------------------------------------------------------
(* The messages that are sent upstream (ChatRequest): their folds.         *)


\* Grouped(s, policy, declared, known) goes through s from its first element to its last.
TranslateIter(g, b, s, n, policy, declared, known) ==
  g = [A \in SUBSET (1..n) |->
         IF A = {} THEN b ELSE Translate(g[A \ {Max(A)}], s[Max(A)], policy, declared, known)]

LEMMA TranslateIterates ==
  ASSUME NEW policy, NEW declared, NEW known, NEW b, NEW s, NEW n \in Nat
  PROVE  \E g : TranslateIter(g, b, s, n, policy, declared, known)
<1> DEFINE T == {k \in Nat : \E g : TranslateIter(g, b, s, k, policy, declared, known)}
<1>1. 0 \in T
  <2>1. TranslateIter([A \in SUBSET (1..0) |-> b], b, s, 0, policy, declared, known)
    BY EmptyRange DEF TranslateIter
  <2> QED
    BY <2>1
<1>2. ASSUME NEW k \in Nat, k \in T
      PROVE  k + 1 \in T
  <2>1. PICK g : TranslateIter(g, b, s, k, policy, declared, known)
    BY <1>2
  <2> DEFINE h == [A \in SUBSET (1..(k + 1)) |->
                     IF k + 1 \in A
                     THEN Translate(g[A \ {k + 1}], s[k + 1], policy, declared, known)
                     ELSE g[A]]
  <2>2. ASSUME NEW A \in SUBSET (1..(k + 1)), A # {}
        PROVE  h[A] = Translate(h[A \ {Max(A)}], s[Max(A)], policy, declared, known)
    <3>1. CASE k + 1 \in A
      BY <2>2, <3>1, NextMax
    <3>2. CASE k + 1 \notin A
      <4>1. A \in SUBSET (1..k) /\ A \ {Max(A)} \in SUBSET (1..k) /\ k + 1 \notin A \ {Max(A)}
        BY <3>2, NextMax
      <4>2. g[A] = Translate(g[A \ {Max(A)}], s[Max(A)], policy, declared, known)
        BY <2>1, <2>2, <4>1 DEF TranslateIter
      <4> QED
        BY <3>2, <4>1, <4>2
    <3> QED
      BY <3>1, <3>2
  <2>3. h[{}] = b
    BY <2>1 DEF TranslateIter
  <2>4. TranslateIter(h, b, s, k + 1, policy, declared, known)
    BY <2>2, <2>3 DEF TranslateIter
  <2> QED
    BY <2>4
<1> HIDE DEF T
<1>3. Nat \subseteq T
  BY <1>1, <1>2, HoldsAllNaturals
<1> QED
  BY <1>3 DEF T

TranslateTraces(f, b, s, n, policy, declared, known) ==
  f[0] = b /\ \A i \in 1..n : f[i] = Translate(f[i - 1], s[i], policy, declared, known)

LEMMA TranslateTrace ==
  ASSUME NEW policy, NEW declared, NEW known, NEW s, NEW n \in Nat, DOMAIN s = 1..n
  PROVE  \E f : /\ TranslateTraces(f, NothingYet, s, n, policy, declared, known)
               /\ Grouped(s, policy, declared, known) = f[n]
<1> DEFINE g == CHOOSE g : TranslateIter(g, NothingYet, s, n, policy, declared, known)
<1>1. TranslateIter(g, NothingYet, s, n, policy, declared, known)
  BY TranslateIterates
<1>2. Grouped(s, policy, declared, known) = g[1..n]
  BY DEF Grouped, FoldLeft, MapThenFoldSet, TranslateIter
<1> HIDE DEF g
<1> DEFINE f == [i \in 0..n |-> g[1..i]]
<1>3. f[0] = NothingYet
  BY <1>1, EmptyRange DEF TranslateIter
<1>4. ASSUME NEW i \in 1..n
      PROVE  f[i] = Translate(f[i - 1], s[i], policy, declared, known)
  <2>1. 1..i \in SUBSET (1..n) /\ 1..i # {} /\ Max(1..i) = i /\ (1..i) \ {i} = 1..(i - 1)
    BY RangeMax
  <2>2. g[1..i] = Translate(g[(1..i) \ {Max(1..i)}], s[Max(1..i)], policy, declared, known)
    BY <1>1, <2>1 DEF TranslateIter
  <2>3. i \in 0..n /\ i - 1 \in 0..n
    OBVIOUS
  <2> QED
    BY <2>1, <2>2, <2>3
<1>5. f[n] = g[1..n]
  OBVIOUS
<1> HIDE DEF f
<1> QED
  BY <1>2, <1>3, <1>4, <1>5 DEF TranslateTraces


\* Echoed(echoes) goes through got.done from its first element to its last.
EchoIter(g, b, s, n, echoes) ==
  g = [A \in SUBSET (1..n) |->
         IF A = {} THEN b ELSE Echo(g[A \ {Max(A)}], s[Max(A)], echoes)]

LEMMA EchoIterates ==
  ASSUME NEW echoes, NEW b, NEW s, NEW n \in Nat
  PROVE  \E g : EchoIter(g, b, s, n, echoes)
<1> DEFINE T == {k \in Nat : \E g : EchoIter(g, b, s, k, echoes)}
<1>1. 0 \in T
  <2>1. EchoIter([A \in SUBSET (1..0) |-> b], b, s, 0, echoes)
    BY EmptyRange DEF EchoIter
  <2> QED
    BY <2>1
<1>2. ASSUME NEW k \in Nat, k \in T
      PROVE  k + 1 \in T
  <2>1. PICK g : EchoIter(g, b, s, k, echoes)
    BY <1>2
  <2> DEFINE h == [A \in SUBSET (1..(k + 1)) |->
                     IF k + 1 \in A THEN Echo(g[A \ {k + 1}], s[k + 1], echoes) ELSE g[A]]
  <2>2. ASSUME NEW A \in SUBSET (1..(k + 1)), A # {}
        PROVE  h[A] = Echo(h[A \ {Max(A)}], s[Max(A)], echoes)
    <3>1. CASE k + 1 \in A
      BY <2>2, <3>1, NextMax
    <3>2. CASE k + 1 \notin A
      <4>1. A \in SUBSET (1..k) /\ A \ {Max(A)} \in SUBSET (1..k) /\ k + 1 \notin A \ {Max(A)}
        BY <3>2, NextMax
      <4>2. g[A] = Echo(g[A \ {Max(A)}], s[Max(A)], echoes)
        BY <2>1, <2>2, <4>1 DEF EchoIter
      <4> QED
        BY <3>2, <4>1, <4>2
    <3> QED
      BY <3>1, <3>2
  <2>3. h[{}] = b
    BY <2>1 DEF EchoIter
  <2>4. EchoIter(h, b, s, k + 1, echoes)
    BY <2>2, <2>3 DEF EchoIter
  <2> QED
    BY <2>4
<1> HIDE DEF T
<1>3. Nat \subseteq T
  BY <1>1, <1>2, HoldsAllNaturals
<1> QED
  BY <1>3 DEF T

EchoTraces(f, b, s, n, echoes) ==
  f[0] = b /\ \A i \in 1..n : f[i] = Echo(f[i - 1], s[i], echoes)

LEMMA EchoTrace ==
  ASSUME NEW echoes, NEW n \in Nat, DOMAIN got.done = 1..n
  PROVE  \E f : /\ EchoTraces(f, req.items, got.done, n, echoes)
               /\ Echoed(echoes) = f[n]
<1> DEFINE g == CHOOSE g : EchoIter(g, req.items, got.done, n, echoes)
<1>1. EchoIter(g, req.items, got.done, n, echoes)
  BY EchoIterates
<1>2. Echoed(echoes) = g[1..n]
  BY DEF Echoed, FoldLeft, MapThenFoldSet, EchoIter
<1> HIDE DEF g
<1> DEFINE f == [i \in 0..n |-> g[1..i]]
<1>3. f[0] = req.items
  BY <1>1, EmptyRange DEF EchoIter
<1>4. ASSUME NEW i \in 1..n
      PROVE  f[i] = Echo(f[i - 1], got.done[i], echoes)
  <2>1. 1..i \in SUBSET (1..n) /\ 1..i # {} /\ Max(1..i) = i /\ (1..i) \ {i} = 1..(i - 1)
    BY RangeMax
  <2>2. g[1..i] = Echo(g[(1..i) \ {Max(1..i)}], got.done[Max(1..i)], echoes)
    BY <1>1, <2>1 DEF EchoIter
  <2>3. i \in 0..n /\ i - 1 \in 0..n
    OBVIOUS
  <2> QED
    BY <2>1, <2>2, <2>3
<1>5. f[n] = g[1..n]
  OBVIOUS
<1> HIDE DEF f
<1> QED
  BY <1>2, <1>3, <1>4, <1>5 DEF EchoTraces


\* FoldLeft(Hoist, b, s) goes through s from its first element to its last.
HoistIter(g, b, s, n) ==
  g = [A \in SUBSET (1..n) |->
         IF A = {} THEN b ELSE Hoist(g[A \ {Max(A)}], s[Max(A)])]

LEMMA HoistIterates ==
  ASSUME NEW b, NEW s, NEW n \in Nat
  PROVE  \E g : HoistIter(g, b, s, n)
<1> DEFINE T == {k \in Nat : \E g : HoistIter(g, b, s, k)}
<1>1. 0 \in T
  <2>1. HoistIter([A \in SUBSET (1..0) |-> b], b, s, 0)
    BY EmptyRange DEF HoistIter
  <2> QED
    BY <2>1
<1>2. ASSUME NEW k \in Nat, k \in T
      PROVE  k + 1 \in T
  <2>1. PICK g : HoistIter(g, b, s, k)
    BY <1>2
  <2> DEFINE h == [A \in SUBSET (1..(k + 1)) |->
                     IF k + 1 \in A THEN Hoist(g[A \ {k + 1}], s[k + 1]) ELSE g[A]]
  <2>2. ASSUME NEW A \in SUBSET (1..(k + 1)), A # {}
        PROVE  h[A] = Hoist(h[A \ {Max(A)}], s[Max(A)])
    <3>1. CASE k + 1 \in A
      BY <2>2, <3>1, NextMax
    <3>2. CASE k + 1 \notin A
      <4>1. A \in SUBSET (1..k) /\ A \ {Max(A)} \in SUBSET (1..k) /\ k + 1 \notin A \ {Max(A)}
        BY <3>2, NextMax
      <4>2. g[A] = Hoist(g[A \ {Max(A)}], s[Max(A)])
        BY <2>1, <2>2, <4>1 DEF HoistIter
      <4> QED
        BY <3>2, <4>1, <4>2
    <3> QED
      BY <3>1, <3>2
  <2>3. h[{}] = b
    BY <2>1 DEF HoistIter
  <2>4. HoistIter(h, b, s, k + 1)
    BY <2>2, <2>3 DEF HoistIter
  <2> QED
    BY <2>4
<1> HIDE DEF T
<1>3. Nat \subseteq T
  BY <1>1, <1>2, HoldsAllNaturals
<1> QED
  BY <1>3 DEF T

HoistTraces(f, b, s, n) ==
  f[0] = b /\ \A i \in 1..n : f[i] = Hoist(f[i - 1], s[i])

LEMMA HoistTrace ==
  ASSUME NEW b, NEW s, NEW n \in Nat, DOMAIN s = 1..n
  PROVE  \E f : HoistTraces(f, b, s, n) /\ FoldLeft(Hoist, b, s) = f[n]
<1> DEFINE g == CHOOSE g : HoistIter(g, b, s, n)
<1>1. HoistIter(g, b, s, n)
  BY HoistIterates
<1>2. FoldLeft(Hoist, b, s) = g[1..n]
  BY DEF FoldLeft, MapThenFoldSet, HoistIter
<1> HIDE DEF g
<1> DEFINE f == [i \in 0..n |-> g[1..i]]
<1>3. f[0] = b
  BY <1>1, EmptyRange DEF HoistIter
<1>4. ASSUME NEW i \in 1..n
      PROVE  f[i] = Hoist(f[i - 1], s[i])
  <2>1. 1..i \in SUBSET (1..n) /\ 1..i # {} /\ Max(1..i) = i /\ (1..i) \ {i} = 1..(i - 1)
    BY RangeMax
  <2>2. g[1..i] = Hoist(g[(1..i) \ {Max(1..i)}], s[Max(1..i)])
    BY <1>1, <2>1 DEF HoistIter
  <2>3. i \in 0..n /\ i - 1 \in 0..n
    OBVIOUS
  <2> QED
    BY <2>1, <2>2, <2>3
<1>5. f[n] = g[1..n]
  OBVIOUS
<1> HIDE DEF f
<1> QED
  BY <1>2, <1>3, <1>4, <1>5 DEF HoistTraces


\* FoldLeft(Result, b, s) goes through s from its first element to its last.
ResultIter(g, b, s, n) ==
  g = [A \in SUBSET (1..n) |->
         IF A = {} THEN b ELSE Result(g[A \ {Max(A)}], s[Max(A)])]

LEMMA ResultIterates ==
  ASSUME NEW b, NEW s, NEW n \in Nat
  PROVE  \E g : ResultIter(g, b, s, n)
<1> DEFINE T == {k \in Nat : \E g : ResultIter(g, b, s, k)}
<1>1. 0 \in T
  <2>1. ResultIter([A \in SUBSET (1..0) |-> b], b, s, 0)
    BY EmptyRange DEF ResultIter
  <2> QED
    BY <2>1
<1>2. ASSUME NEW k \in Nat, k \in T
      PROVE  k + 1 \in T
  <2>1. PICK g : ResultIter(g, b, s, k)
    BY <1>2
  <2> DEFINE h == [A \in SUBSET (1..(k + 1)) |->
                     IF k + 1 \in A THEN Result(g[A \ {k + 1}], s[k + 1]) ELSE g[A]]
  <2>2. ASSUME NEW A \in SUBSET (1..(k + 1)), A # {}
        PROVE  h[A] = Result(h[A \ {Max(A)}], s[Max(A)])
    <3>1. CASE k + 1 \in A
      BY <2>2, <3>1, NextMax
    <3>2. CASE k + 1 \notin A
      <4>1. A \in SUBSET (1..k) /\ A \ {Max(A)} \in SUBSET (1..k) /\ k + 1 \notin A \ {Max(A)}
        BY <3>2, NextMax
      <4>2. g[A] = Result(g[A \ {Max(A)}], s[Max(A)])
        BY <2>1, <2>2, <4>1 DEF ResultIter
      <4> QED
        BY <3>2, <4>1, <4>2
    <3> QED
      BY <3>1, <3>2
  <2>3. h[{}] = b
    BY <2>1 DEF ResultIter
  <2>4. ResultIter(h, b, s, k + 1)
    BY <2>2, <2>3 DEF ResultIter
  <2> QED
    BY <2>4
<1> HIDE DEF T
<1>3. Nat \subseteq T
  BY <1>1, <1>2, HoldsAllNaturals
<1> QED
  BY <1>3 DEF T

ResultTraces(f, b, s, n) ==
  f[0] = b /\ \A i \in 1..n : f[i] = Result(f[i - 1], s[i])

LEMMA ResultTrace ==
  ASSUME NEW b, NEW s, NEW n \in Nat, DOMAIN s = 1..n
  PROVE  \E f : ResultTraces(f, b, s, n) /\ FoldLeft(Result, b, s) = f[n]
<1> DEFINE g == CHOOSE g : ResultIter(g, b, s, n)
<1>1. ResultIter(g, b, s, n)
  BY ResultIterates
<1>2. FoldLeft(Result, b, s) = g[1..n]
  BY DEF FoldLeft, MapThenFoldSet, ResultIter
<1> HIDE DEF g
<1> DEFINE f == [i \in 0..n |-> g[1..i]]
<1>3. f[0] = b
  BY <1>1, EmptyRange DEF ResultIter
<1>4. ASSUME NEW i \in 1..n
      PROVE  f[i] = Result(f[i - 1], s[i])
  <2>1. 1..i \in SUBSET (1..n) /\ 1..i # {} /\ Max(1..i) = i /\ (1..i) \ {i} = 1..(i - 1)
    BY RangeMax
  <2>2. g[1..i] = Result(g[(1..i) \ {Max(1..i)}], s[Max(1..i)])
    BY <1>1, <2>1 DEF ResultIter
  <2>3. i \in 0..n /\ i - 1 \in 0..n
    OBVIOUS
  <2> QED
    BY <2>1, <2>2, <2>3
<1>5. f[n] = g[1..n]
  OBVIOUS
<1> HIDE DEF f
<1> QED
  BY <1>2, <1>3, <1>4, <1>5 DEF ResultTraces


-----------------------------------------------------------------------------
(* What the items of a request are made into.                              *)

\* The reasoning that Codex or an upstream may give.
Asked == UNION {ToSet(r.items) : r \in Requests}
Fragments == ToSet(Reasoning)
               \cup UNION {ToSet(item.text) : item \in {item \in Asked : item.kind = "reasoning"}}
Texts == Seq(Fragments)

\* A message that may be sent.
Fit(m, policy) ==
  /\ m.reasoning \in Texts
  /\ IsSystem(m) => m.calls = <<>>
  /\ policy.reasoning /\ m.calls # <<>> => m.reasoning # <<>>

Apart(c, d) == \A i \in DOMAIN c, j \in DOMAIN d : c[i].id # d[j].id
IdsOnce(c) == \A i, j \in DOMAIN c : c[i].id = c[j].id => i = j
IdsIn(c, ids) == \A i \in DOMAIN c : c[i].id \in ids

\* Messages that name every call once.
Sound(ms, policy) ==
  /\ ms \in Seq(ToSet(ms))
  /\ \A i \in DOMAIN ms : Fit(ms[i], policy)
  /\ NoCallTwice(ms)

\* The calls that are pending are those of no message, and all are known.
Parts(ms, ids, pending, text, policy) ==
  /\ Sound(ms, policy)
  /\ pending \in Seq(ToSet(pending)) /\ text \in Texts
  /\ IdsOnce(pending) /\ IdsIn(pending, ids)
  /\ \A i \in DOMAIN ms : Apart(ms[i].calls, pending) /\ IdsIn(ms[i].calls, ids)

Built(b, policy) ==
  /\ b = [messages |-> b.messages, calls |-> b.calls, pending |-> b.pending,
          reasoning |-> b.reasoning, error |-> b.error]
  /\ Parts(b.messages, b.calls, b.pending, b.reasoning, policy)

LEMMA AppendIs ==
  ASSUME NEW s, s \in Seq(ToSet(s)), NEW x
  PROVE  /\ Append(s, x) \in Seq(ToSet(Append(s, x)))
         /\ Len(s) \in Nat /\ DOMAIN s = 1..Len(s)
         /\ DOMAIN Append(s, x) = 1..(Len(s) + 1)
         /\ Append(s, x)[Len(s) + 1] = x
         /\ \A i \in DOMAIN s : Append(s, x)[i] = s[i]
<1> DEFINE S == ToSet(s) \cup {x}
           u == Append(s, x)
<1>1. s \in Seq(S) /\ x \in S
  <2>1. s \in Seq(ToSet(s)) /\ ToSet(s) \subseteq S
    OBVIOUS
  <2> HIDE DEF S
  <2>2. \A i \in 1..Len(s) : s[i] \in S
    BY <2>1
  <2>3. s \in Seq(S)
    BY <2>1, <2>2
  <2> QED
    BY <2>3 DEF S
<1> HIDE DEF S
<1>2. /\ u \in Seq(S) /\ Len(s) \in Nat /\ DOMAIN s = 1..Len(s)
      /\ DOMAIN u = 1..(Len(s) + 1) /\ Len(u) = Len(s) + 1
      /\ u[Len(s) + 1] = x /\ \A i \in DOMAIN s : u[i] = s[i]
  BY <1>1
<1>3. u \in Seq(ToSet(u))
  <2> HIDE DEF u
  <2>1. \A i \in 1..Len(u) : u[i] \in ToSet(u)
    BY <1>2 DEF ToSet
  <2> QED
    BY <1>2, <2>1
<1> QED
  BY <1>2, <1>3

LEMMA TextsJoin ==
  ASSUME NEW t \in Texts, NEW u \in Texts
  PROVE  /\ Joined(t, u) \in Texts
         /\ t # <<>> => Joined(t, u) # <<>>
<1>1. CASE u = <<>> \/ t = u
  BY <1>1 DEF Joined
<1>2. CASE ~(u = <<>> \/ t = u)
  <2>1. t \o u \in Seq(Fragments) /\ (t # <<>> => t \o u # <<>>)
    <3>1. t \o u \in Seq(Fragments) /\ Len(t \o u) = Len(t) + Len(u)
      BY DEF Texts
    <3>2. t # <<>> => Len(t) > 0
      BY DEF Texts
    <3>3. Len(<<>>) = 0 /\ Len(t) \in Nat /\ Len(u) \in Nat
      BY DEF Texts
    <3> QED
      BY <3>1, <3>2, <3>3
  <2> QED
    BY <1>2, <2>1 DEF Joined, Texts
<1> QED
  BY <1>1, <1>2

\* A message that calls nothing.
LEMMA PartsSay ==
  ASSUME NEW ms, NEW ids, NEW pending, NEW text, NEW policy,
         Parts(ms, ids, pending, text, policy),
         NEW m, Fit(m, policy), m.calls = <<>>
  PROVE  Parts(Append(ms, m), ids, pending, text, policy)
<1> DEFINE u == Append(ms, m)
           n == Len(ms) + 1
<1>1. /\ u \in Seq(ToSet(u)) /\ Len(ms) \in Nat /\ DOMAIN ms = 1..Len(ms)
      /\ DOMAIN u = 1..n /\ u[n] = m /\ \A i \in DOMAIN ms : u[i] = ms[i]
  BY AppendIs DEF Parts, Sound
<1> HIDE DEF u
<1>2. \A i \in DOMAIN u : (i \in DOMAIN ms /\ u[i] = ms[i]) \/ (i = n /\ u[i] = m)
  BY <1>1
<1>3. DOMAIN m.calls = {}
  OBVIOUS
<1> HIDE DEF n
<1>4. \A i \in DOMAIN u : Fit(u[i], policy) /\ Apart(u[i].calls, pending) /\ IdsIn(u[i].calls, ids)
  BY <1>2, <1>3 DEF Parts, Sound, Apart, IdsIn
<1>5. NoCallTwice(u)
  BY <1>2, <1>3 DEF Parts, Sound, NoCallTwice
<1> QED
  BY <1>1, <1>4, <1>5 DEF Parts, Sound, u

\* u is ms but for the message n, which is m.
PlacedAt(u, ms, n, m) ==
  /\ u \in Seq(ToSet(u))
  /\ \A i \in DOMAIN u : \/ i = n /\ u[i] = m
                         \/ i # n /\ i \in DOMAIN ms /\ u[i] = ms[i]

\* The pending calls become those of one message.
LEMMA PartsFlush ==
  ASSUME NEW ms, NEW ids, NEW pending, NEW text, NEW policy,
         Parts(ms, ids, pending, text, policy),
         NEW m, Fit(m, policy), m.calls = pending,
         NEW u, NEW n, PlacedAt(u, ms, n, m)
  PROVE  Parts(u, ids, <<>>, <<>>, policy)
<1>1. \A i \in DOMAIN u : Fit(u[i], policy) /\ IdsIn(u[i].calls, ids)
  BY DEF Parts, Sound, PlacedAt
<1>2. NoCallTwice(u)
  <2> SUFFICES ASSUME NEW i \in DOMAIN u, NEW j \in DOMAIN u,
                      NEW k \in DOMAIN u[i].calls, NEW l \in DOMAIN u[j].calls,
                      u[i].calls[k].id = u[j].calls[l].id
               PROVE  i = j /\ k = l
    BY DEF NoCallTwice
  <2>1. CASE i = n /\ j = n
    BY <2>1 DEF Parts, IdsOnce, PlacedAt
  <2>2. CASE i = n /\ j # n
    BY <2>2 DEF Parts, Apart, PlacedAt
  <2>3. CASE i # n /\ j = n
    BY <2>3 DEF Parts, Apart, PlacedAt
  <2>4. CASE i # n /\ j # n
    BY <2>4 DEF Parts, Sound, NoCallTwice, PlacedAt
  <2> QED
    BY <2>1, <2>2, <2>3, <2>4
<1>3. DOMAIN <<>> = {} /\ <<>> \in Seq(ToSet(<<>>)) /\ <<>> \in Texts
  BY DEF Texts
<1>4. \A i \in DOMAIN u : Apart(u[i].calls, <<>>)
  BY <1>3 DEF Apart
<1>5. IdsOnce(<<>>) /\ IdsIn(<<>>, ids)
  BY <1>3 DEF IdsOnce, IdsIn
<1> QED
  BY <1>1, <1>2, <1>3, <1>4, <1>5 DEF Parts, Sound, PlacedAt

\* A call that is not known yet is pending.
LEMMA PartsCall ==
  ASSUME NEW ms, NEW ids, NEW pending, NEW text, NEW policy,
         Parts(ms, ids, pending, text, policy),
         NEW id, id \notin ids, NEW name, NEW more \in Texts
  PROVE  Parts(ms, ids \cup {id}, Append(pending, [id |-> id, name |-> name]),
               Joined(text, more), policy)
<1> DEFINE x == [id |-> id, name |-> name]
           u == Append(pending, x)
           n == Len(pending) + 1
<1>1. x.id = id
  OBVIOUS
<1> HIDE DEF x
<1>2. /\ u \in Seq(ToSet(u)) /\ Len(pending) \in Nat /\ DOMAIN pending = 1..Len(pending)
      /\ DOMAIN u = 1..n /\ u[n] = x /\ \A i \in DOMAIN pending : u[i] = pending[i]
  BY AppendIs DEF Parts
<1> HIDE DEF u
<1>3. \A i \in DOMAIN u : \/ i \in DOMAIN pending /\ u[i].id = pending[i].id /\ u[i].id \in ids
                          \/ i = n /\ u[i].id = id
  BY <1>1, <1>2 DEF Parts, IdsIn
<1> HIDE DEF n
<1>4. IdsOnce(u) /\ IdsIn(u, ids \cup {id})
  BY <1>3 DEF Parts, IdsOnce, IdsIn
<1>5. \A i \in DOMAIN ms : Apart(ms[i].calls, u) /\ IdsIn(ms[i].calls, ids \cup {id})
  BY <1>3 DEF Parts, Apart, IdsIn
<1>6. Joined(text, more) \in Texts
  BY TextsJoin DEF Parts
<1> QED
  BY <1>2, <1>4, <1>5, <1>6 DEF Parts, u, x

LEMMA ErrorIs ==
  ASSUME NEW b, NEW policy, Built(b, policy), NEW e
  PROVE  Built([b EXCEPT !.error = e], policy)
BY DEF Built

LEMMA ReasoningIs ==
  ASSUME NEW b, NEW policy, Built(b, policy), NEW t \in Texts
  PROVE  Built([b EXCEPT !.reasoning = t], policy)
<1> DEFINE c == [b EXCEPT !.reasoning = t]
<1>1. /\ c = [messages |-> b.messages, calls |-> b.calls, pending |-> b.pending,
              reasoning |-> t, error |-> b.error]
      /\ Parts(b.messages, b.calls, b.pending, b.reasoning, policy)
  BY DEF Built
<1> HIDE DEF c
<1>2. Parts(b.messages, b.calls, b.pending, t, policy)
  BY <1>1 DEF Parts
<1> QED
  BY <1>1, <1>2 DEF Built, c

LEMMA NoTexts ==
  <<>> \in Texts
BY DEF Texts

LEMMA SayBuilt ==
  ASSUME NEW b, NEW policy, Built(b, policy), NEW m, Fit(m, policy), m.calls = <<>>
  PROVE  Built(Say(b, m), policy)
<1> SUFFICES ASSUME b.error = None
             PROVE  Built(Say(b, m), policy)
  BY DEF Say
<1> DEFINE c == [b EXCEPT !.messages = Append(@, m)]
<1>1. /\ c = [messages |-> Append(b.messages, m), calls |-> b.calls, pending |-> b.pending,
              reasoning |-> b.reasoning, error |-> b.error]
      /\ Parts(b.messages, b.calls, b.pending, b.reasoning, policy)
  BY DEF Built
<1>2. Say(b, m) = c
  BY DEF Say
<1> HIDE DEF c
<1>3. Parts(Append(b.messages, m), b.calls, b.pending, b.reasoning, policy)
  BY <1>1, PartsSay
<1> QED
  BY <1>1, <1>2, <1>3 DEF Built

LEMMA FlushBuilt ==
  ASSUME NEW b, NEW policy, Built(b, policy)
  PROVE  Built(Flush(b, policy), policy)
<1>1. CASE b.error # None \/ b.pending = <<>>
  BY <1>1 DEF Flush
<1>2. CASE ~(b.error # None \/ b.pending = <<>>) /\ Lacks(b, policy)
  BY <1>2, ErrorIs DEF Flush
<1>3. CASE ~(b.error # None \/ b.pending = <<>>) /\ ~Lacks(b, policy)
  <2> DEFINE ms == b.messages
             n == Len(ms)
             joins == n > 0 /\ ms[n].role = "assistant" /\ ms[n].calls = <<>>
             text == IF joins /\ ms[n].reasoning # <<>>
                     THEN Joined(ms[n].reasoning, b.reasoning) ELSE b.reasoning
             m == Assistant(IF joins THEN ms[n].content ELSE None, text, b.pending)
             u == IF joins THEN [ms EXCEPT ![n] = m] ELSE Append(ms, m)
             c == [b EXCEPT !.messages = u, !.pending = <<>>, !.reasoning = <<>>]
  <2>1. Flush(b, policy) = c
    BY <1>3 DEF Flush
  <2> HIDE DEF u
  <2>2. c = [messages |-> u, calls |-> b.calls, pending |-> <<>>,
             reasoning |-> <<>>, error |-> b.error]
    <3>1. b \in [messages : {b.messages}, calls : {b.calls}, pending : {b.pending},
                reasoning : {b.reasoning}, error : {b.error}]
      BY DEF Built
    <3>2. c \in [messages : {u}, calls : {b.calls}, pending : {<<>>},
                reasoning : {<<>>}, error : {b.error}]
      BY <3>1
    <3> HIDE DEF c
    <3> QED
      BY <3>2
  <2>3. Parts(ms, b.calls, b.pending, b.reasoning, policy)
    BY DEF Built
  <2> HIDE DEF c, ms
  <2>4. ms \in Seq(ToSet(ms)) /\ n \in Nat /\ DOMAIN ms = 1..n /\ n + 1 \notin DOMAIN ms
    BY <2>3 DEF Parts, Sound
  <2>5. text \in Texts /\ (policy.reasoning => text # <<>>)
    <3>1. b.reasoning \in Texts /\ (policy.reasoning => b.reasoning # <<>>)
      BY <1>3, <2>3 DEF Parts, Lacks
    <3>2. CASE joins /\ ms[n].reasoning # <<>>
      <4>1. ms[n].reasoning \in Texts
        BY <2>3, <2>4, <3>2 DEF Parts, Sound, Fit
      <4> QED
        BY <3>1, <3>2, <4>1, TextsJoin
    <3> QED
      BY <3>1, <3>2
  <2>6. m.role = "assistant" /\ m.reasoning = text /\ m.calls = b.pending
    BY DEF Assistant
  <2> HIDE DEF m, text
  <2>7. Fit(m, policy)
    BY <2>5, <2>6 DEF Fit, IsSystem
  <2>8. u = IF joins THEN [ms EXCEPT ![n] = m] ELSE Append(ms, m)
    BY DEF u
  <2>9. \E k : PlacedAt(u, ms, k, m)
    <3>1. CASE joins
      <4>1. u = [ms EXCEPT ![n] = m]
        BY <2>8, <3>1
      <4> HIDE DEF n, joins
      <4>2. /\ DOMAIN u = 1..n /\ u = [i \in 1..n |-> u[i]]
            /\ \A i \in DOMAIN u : \/ i = n /\ u[i] = m
                                   \/ i # n /\ i \in DOMAIN ms /\ u[i] = ms[i]
        BY <2>4, <4>1
      <4>3. \A i \in 1..n : u[i] \in ToSet(u)
        BY <4>2 DEF ToSet
      <4>4. u \in Seq(ToSet(u))
        BY <2>4, <4>2, <4>3
      <4> QED
        BY <4>2, <4>4 DEF PlacedAt
    <3>2. CASE ~joins
      <4>1. u = Append(ms, m)
        BY <2>8, <3>2
      <4> HIDE DEF joins
      <4>2. /\ u \in Seq(ToSet(u)) /\ DOMAIN u = 1..(n + 1) /\ u[n + 1] = m
            /\ \A i \in DOMAIN ms : u[i] = ms[i]
        BY <2>4, <4>1, AppendIs
      <4> HIDE DEF n
      <4>3. \A i \in DOMAIN u : \/ i = n + 1 /\ u[i] = m
                                \/ i # n + 1 /\ i \in DOMAIN ms /\ u[i] = ms[i]
        BY <2>4, <4>2
      <4> QED
        BY <4>2, <4>3 DEF PlacedAt
    <3> QED
      BY <3>1, <3>2
  <2>10. Parts(u, b.calls, <<>>, <<>>, policy)
    <3> HIDE DEF n, joins
    <3>1. PICK k : PlacedAt(u, ms, k, m)
      BY <2>9
    <3> QED
      BY <2>3, <2>6, <2>7, <3>1, PartsFlush
  <2> QED
    BY <2>1, <2>2, <2>10 DEF Built
<1> QED
  BY <1>1, <1>2, <1>3

\* What is said without calls, in the role of the assistant or in another.
LEMMA Remarks ==
  ASSUME NEW policy, NEW content, NEW role, NEW t \in Texts
  PROVE  /\ Fit(Assistant(content, t, <<>>), policy) /\ Assistant(content, t, <<>>).calls = <<>>
         /\ Fit(Plain(role, content), policy) /\ Plain(role, content).calls = <<>>
         /\ Fit(Tool(content), policy) /\ Tool(content).calls = <<>>
BY NoTexts DEF Fit, Assistant, Plain, Tool, IsSystem

LEMMA MessageBuilt ==
  ASSUME NEW b, NEW policy, Built(b, policy), NEW item
  PROVE  Built(Message(b, item, policy), policy)
<1> DEFINE c == Flush(b, policy)
           left == [c EXCEPT !.reasoning = <<>>]
<1>1. Built(c, policy)
  BY FlushBuilt
<1> HIDE DEF c
<1>2. Built(left, policy)
  BY <1>1, NoTexts, ReasoningIs
<1>3. c.reasoning \in Texts
  BY <1>1 DEF Built, Parts
<1> HIDE DEF left
<1>4. Built(Say(left, Assistant(item.text, c.reasoning, <<>>)), policy)
  BY <1>2, <1>3, Remarks, SayBuilt
<1>5. Built(Say(left, Assistant(None, c.reasoning, <<>>)), policy)
  BY <1>2, <1>3, Remarks, SayBuilt
<1>6. Built(Say(Say(left, Assistant(None, c.reasoning, <<>>)), Plain(item.kind, item.text)), policy)
  BY <1>3, <1>5, Remarks, SayBuilt
<1>7. Built(Say(c, Plain(item.kind, item.text)), policy)
  BY <1>1, <1>3, Remarks, SayBuilt
<1> QED
  BY <1>1, <1>4, <1>6, <1>7 DEF Message, c, left

\* The reasoning the Gateway remembers of the calls of a conversation.
Thoughts(known) == \A id \in DOMAIN known : known[id] \in Texts

LEMMA CallBuilt ==
  ASSUME NEW b, NEW policy, Built(b, policy), NEW item, NEW declared, NEW known, Thoughts(known)
  PROVE  Built(Call(b, item, declared, known), policy)
<1>1. CASE item.id = None \/ ~item.json \/ item.id \in b.calls
  BY <1>1, ErrorIs DEF Call
<1>2. CASE ~(item.id = None \/ ~item.json \/ item.id \in b.calls)
  <2> DEFINE more == IF item.kind = "function" /\ item.id \in DOMAIN known
                     THEN known[item.id] ELSE <<>>
             x == [id |-> item.id, name |-> NameOf(declared, item)]
             c == [b EXCEPT !.calls = @ \cup {item.id}, !.reasoning = Joined(@, more),
                            !.pending = Append(@, x)]
  <2>1. Call(b, item, declared, known) = c
    BY <1>2 DEF Call
  <2>2. more \in Texts
    BY NoTexts DEF Thoughts
  <2> HIDE DEF more
  <2>3. Parts(b.messages, b.calls, b.pending, b.reasoning, policy)
    BY DEF Built
  <2>4. Parts(b.messages, b.calls \cup {item.id}, Append(b.pending, x),
              Joined(b.reasoning, more), policy)
    BY <1>2, <2>2, <2>3, PartsCall
  <2> HIDE DEF x
  <2>5. c = [messages |-> b.messages, calls |-> b.calls \cup {item.id},
             pending |-> Append(b.pending, x), reasoning |-> Joined(b.reasoning, more),
             error |-> b.error]
    <3>1. b \in [messages : {b.messages}, calls : {b.calls}, pending : {b.pending},
                reasoning : {b.reasoning}, error : {b.error}]
      BY DEF Built
    <3>2. c \in [messages : {b.messages}, calls : {b.calls \cup {item.id}},
                pending : {Append(b.pending, x)}, reasoning : {Joined(b.reasoning, more)},
                error : {b.error}]
      BY <3>1
    <3> HIDE DEF c
    <3> QED
      BY <3>2
  <2> HIDE DEF c
  <2> QED
    BY <2>1, <2>4, <2>5 DEF Built
<1> QED
  BY <1>1, <1>2

LEMMA OutputBuilt ==
  ASSUME NEW b, NEW policy, Built(b, policy), NEW item
  PROVE  Built(Output(b, item, policy), policy)
<1> DEFINE c == Flush(b, policy)
<1>1. Built(c, policy)
  BY FlushBuilt
<1> HIDE DEF c
<1>2. Built([c EXCEPT !.error = "UnknownCallId"], policy)
  BY <1>1, ErrorIs
<1>3. Built(Say(c, Tool(item.id)), policy)
  BY <1>1, NoTexts, Remarks, SayBuilt
<1> QED
  BY <1>1, <1>2, <1>3 DEF Output, c

\* An item, as far as the messages depend on it.
Sane(item) == item.kind = "reasoning" => item.text \in Texts

LEMMA TranslateBuilt ==
  ASSUME NEW b, NEW policy, Built(b, policy), NEW item, Sane(item),
         NEW declared, NEW known, Thoughts(known)
  PROVE  Built(Translate(b, item, policy, declared, known), policy)
<1> DEFINE c == Flush(b, policy)
<1>1. Built(c, policy)
  BY FlushBuilt
<1> HIDE DEF c
<1>2. Built([c EXCEPT !.error = "UnsupportedInput"], policy)
  BY <1>1, ErrorIs
<1>3. Built(Say(c, Assistant(item.text, <<>>, <<>>)), policy)
  BY <1>1, NoTexts, Remarks, SayBuilt
<1>4. ASSUME item.kind = "reasoning"
      PROVE  Built([b EXCEPT !.reasoning = Joined(@, item.text)], policy)
  <2>1. Joined(b.reasoning, item.text) \in Texts
    BY <1>4, TextsJoin DEF Sane, Built, Parts
  <2>2. Built([b EXCEPT !.reasoning = Joined(b.reasoning, item.text)], policy)
    BY <2>1, ReasoningIs
  <2> QED
    BY <2>2
<1>5. /\ Built(Message(b, item, policy), policy)
      /\ Built(Call(b, item, declared, known), policy)
      /\ Built(Output(b, item, policy), policy)
  BY MessageBuilt, CallBuilt, OutputBuilt
<1>6. \/ Translate(b, item, policy, declared, known) = b
      \/ Translate(b, item, policy, declared, known) = Message(b, item, policy)
      \/ Translate(b, item, policy, declared, known) = Call(b, item, declared, known)
      \/ Translate(b, item, policy, declared, known) = Output(b, item, policy)
      \/ /\ item.kind = "reasoning"
         /\ Translate(b, item, policy, declared, known)
              = [b EXCEPT !.reasoning = Joined(@, item.text)]
      \/ Translate(b, item, policy, declared, known) = Say(c, Assistant(item.text, <<>>, <<>>))
      \/ Translate(b, item, policy, declared, known) = c
      \/ Translate(b, item, policy, declared, known) = [c EXCEPT !.error = "UnsupportedInput"]
  BY DEF Translate, Kinds, c
<1> QED
  BY <1>1, <1>2, <1>3, <1>4, <1>5, <1>6

LEMMA EndedBuilt ==
  ASSUME NEW b, NEW policy, Built(b, policy)
  PROVE  Built(Ended(b, policy), policy)
<1> DEFINE c == Flush(b, policy)
           left == [c EXCEPT !.reasoning = <<>>]
<1>1. Built(c, policy)
  BY FlushBuilt
<1> HIDE DEF c
<1>2. Built(left, policy) /\ c.reasoning \in Texts
  BY <1>1, NoTexts, ReasoningIs DEF Built, Parts
<1> HIDE DEF left
<1>3. Built(Say(left, Assistant(None, c.reasoning, <<>>)), policy)
  BY <1>2, Remarks, SayBuilt
<1> QED
  BY <1>1, <1>3 DEF Ended, c, left

LEMMA NothingBuilt ==
  ASSUME NEW policy
  PROVE  Built(NothingYet, policy)
<1>1. DOMAIN <<>> = {} /\ <<>> \in Seq(ToSet(<<>>))
  OBVIOUS
<1> QED
  BY <1>1, NoTexts DEF Built, Parts, Sound, NothingYet, NoCallTwice, IdsOnce, IdsIn

LEMMA GroupedBuilt ==
  ASSUME NEW items, items \in Seq(ToSet(items)), \A i \in DOMAIN items : Sane(items[i]),
         NEW policy, NEW declared, NEW known, Thoughts(known)
  PROVE  Built(Grouped(items, policy, declared, known), policy)
<1> DEFINE n == Len(items)
<1>1. n \in Nat /\ DOMAIN items = 1..n
  OBVIOUS
<1> HIDE DEF n
<1>2. PICK f : /\ TranslateTraces(f, NothingYet, items, n, policy, declared, known)
               /\ Grouped(items, policy, declared, known) = f[n]
  BY <1>1, TranslateTrace
<1> DEFINE T == {i \in Nat : i <= n => Built(f[i], policy)}
<1>3. 0 \in T
  BY <1>2, NothingBuilt DEF TranslateTraces
<1>4. ASSUME NEW i \in Nat, i \in T
      PROVE  i + 1 \in T
  <2> SUFFICES ASSUME i + 1 <= n
               PROVE  Built(f[i + 1], policy)
    OBVIOUS
  <2>1. i + 1 \in 1..n /\ (i + 1) - 1 = i /\ Built(f[i], policy)
    BY <1>1, <1>4
  <2>2. f[i + 1] = Translate(f[i], items[i + 1], policy, declared, known)
    BY <1>2, <2>1 DEF TranslateTraces
  <2> QED
    BY <1>1, <2>1, <2>2, TranslateBuilt
<1> HIDE DEF T
<1>5. n \in T
  BY <1>1, <1>3, <1>4, HoldsAllNaturals
<1> QED
  BY <1>1, <1>2, <1>5 DEF T

\* Where the first k messages are, after they were sorted.
Sorted(acc, ms, k, policy) ==
  /\ acc \in [front : {acc.front}, rest : {acc.rest}]
  /\ acc.front \in Seq(ToSet(acc.front))
  /\ \A i \in DOMAIN acc.front : Fit(acc.front[i], policy) /\ acc.front[i].calls = <<>>
  /\ Sound(acc.rest, policy)
  /\ \A i \in DOMAIN acc.rest, j \in DOMAIN ms :
       j > k => Apart(acc.rest[i].calls, ms[j].calls)

LEMMA HoistSorts ==
  ASSUME NEW ms, NEW policy, Sound(ms, policy), NEW k \in Nat, k + 1 \in DOMAIN ms,
         DOMAIN ms \subseteq Nat, NEW acc, Sorted(acc, ms, k, policy)
  PROVE  Sorted(Hoist(acc, ms[k + 1]), ms, k + 1, policy)
<1> DEFINE m == ms[k + 1]
<1>1. Fit(m, policy)
  BY DEF Sound
<1>2. CASE ~IsSystem(m)
  <2> DEFINE u == Append(acc.rest, m)
             b == [acc EXCEPT !.rest = u]
             n == Len(acc.rest) + 1
  <2>1. Hoist(acc, m) = [acc EXCEPT !.rest = Append(@, m)]
    BY <1>2 DEF Hoist
  <2>2. b \in [front : {acc.front}, rest : {u}] /\ Hoist(acc, m) = b
    BY <2>1 DEF Sorted
  <2>3. /\ u \in Seq(ToSet(u)) /\ Len(acc.rest) \in Nat /\ DOMAIN acc.rest = 1..Len(acc.rest)
        /\ DOMAIN u = 1..n /\ u[n] = m /\ \A i \in DOMAIN acc.rest : u[i] = acc.rest[i]
    BY AppendIs DEF Sorted, Sound
  <2> HIDE DEF u, b
  <2>4. \A i \in DOMAIN u : \/ i \in DOMAIN acc.rest /\ u[i] = acc.rest[i]
                            \/ i = n /\ u[i] = m
    BY <2>3
  <2> HIDE DEF n
  <2>5. \A i \in DOMAIN acc.rest : Apart(acc.rest[i].calls, m.calls)
    <3>1. k + 1 > k
      OBVIOUS
    <3> QED
      BY <3>1 DEF Sorted
  <2>6. \A i \in DOMAIN u : Fit(u[i], policy)
    BY <1>1, <2>4 DEF Sorted, Sound
  <2>7. NoCallTwice(u)
    <3> SUFFICES ASSUME NEW i \in DOMAIN u, NEW j \in DOMAIN u,
                        NEW p \in DOMAIN u[i].calls, NEW q \in DOMAIN u[j].calls,
                        u[i].calls[p].id = u[j].calls[q].id
                 PROVE  i = j /\ p = q
      BY DEF NoCallTwice
    <3> HIDE DEF m
    <3>1. CASE i \in DOMAIN acc.rest /\ u[i] = acc.rest[i] /\ j \in DOMAIN acc.rest /\ u[j] = acc.rest[j]
      BY <3>1 DEF Sorted, Sound, NoCallTwice
    <3>2. CASE i \in DOMAIN acc.rest /\ u[i] = acc.rest[i] /\ j = n /\ u[j] = m
      BY <2>5, <3>2 DEF Apart
    <3>3. CASE i = n /\ u[i] = m /\ j \in DOMAIN acc.rest /\ u[j] = acc.rest[j]
      BY <2>5, <3>3 DEF Apart
    <3>4. CASE i = n /\ u[i] = m /\ j = n /\ u[j] = m
      <4>1. p = q
        BY <3>4 DEF Sound, NoCallTwice, m
      <4> QED
        BY <3>4, <4>1
    <3> QED
      BY <2>4, <3>1, <3>2, <3>3, <3>4
  <2>8. \A i \in DOMAIN u, j \in DOMAIN ms : j > k + 1 => Apart(u[i].calls, ms[j].calls)
    <3> SUFFICES ASSUME NEW i \in DOMAIN u, NEW j \in DOMAIN ms, j > k + 1
                 PROVE  Apart(u[i].calls, ms[j].calls)
      OBVIOUS
    <3>1. j > k /\ j # k + 1
      OBVIOUS
    <3>2. CASE i \in DOMAIN acc.rest /\ u[i] = acc.rest[i]
      BY <3>1, <3>2 DEF Sorted
    <3>3. CASE u[i] = m
      BY <3>1, <3>3 DEF Sound, NoCallTwice, Apart
    <3> QED
      BY <2>4, <3>2, <3>3
  <2>9. Sound(u, policy)
    BY <2>3, <2>6, <2>7 DEF Sound
  <2>10. b.front = acc.front /\ b.rest = u
    BY <2>2
  <2> QED
    BY <2>2, <2>8, <2>9, <2>10 DEF Sorted
<1>3. CASE IsSystem(m) /\ \E i \in DOMAIN acc.front : acc.front[i].content = m.content
  <2>1. Hoist(acc, m) = acc
    BY <1>3 DEF Hoist
  <2>2. \A j \in DOMAIN ms : j > k + 1 => j > k
    OBVIOUS
  <2> QED
    BY <2>1, <2>2 DEF Sorted
<1>4. CASE IsSystem(m) /\ ~\E i \in DOMAIN acc.front : acc.front[i].content = m.content
  <2> DEFINE u == Append(acc.front, m)
             b == [acc EXCEPT !.front = u]
             n == Len(acc.front) + 1
  <2>1. Hoist(acc, m) = [acc EXCEPT !.front = Append(@, m)]
    BY <1>4 DEF Hoist
  <2>2. b \in [front : {u}, rest : {acc.rest}] /\ Hoist(acc, m) = b
    BY <2>1 DEF Sorted
  <2>3. /\ u \in Seq(ToSet(u)) /\ Len(acc.front) \in Nat /\ DOMAIN acc.front = 1..Len(acc.front)
        /\ DOMAIN u = 1..n /\ u[n] = m /\ \A i \in DOMAIN acc.front : u[i] = acc.front[i]
    BY AppendIs DEF Sorted
  <2> HIDE DEF u, b
  <2>4. m.calls = <<>>
    BY <1>1, <1>4 DEF Fit
  <2>5. \A i \in DOMAIN u : Fit(u[i], policy) /\ u[i].calls = <<>>
    <3>1. \A i \in DOMAIN u : (i \in DOMAIN acc.front /\ u[i] = acc.front[i]) \/ u[i] = m
      BY <2>3
    <3> QED
      BY <1>1, <2>4, <3>1 DEF Sorted
  <2>6. \A j \in DOMAIN ms : j > k + 1 => j > k
    OBVIOUS
  <2>7. b.front = u /\ b.rest = acc.rest
    BY <2>2
  <2> QED
    BY <2>2, <2>3, <2>5, <2>6, <2>7 DEF Sorted
<1> QED
  BY <1>2, <1>3, <1>4

LEMMA HoistedIsSound ==
  ASSUME NEW ms, NEW policy, Sound(ms, policy)
  PROVE  Sound(Hoisted(ms), policy)
<1> DEFINE n == Len(ms)
           start == [front |-> <<>>, rest |-> <<>>]
           acc == FoldLeft(Hoist, start, ms)
<1>1. n \in Nat /\ DOMAIN ms = 1..n
  BY DEF Sound
<1> HIDE DEF n
<1>2. PICK f : HoistTraces(f, start, ms, n) /\ acc = f[n]
  BY <1>1, HoistTrace
<1>3. Sorted(start, ms, 0, policy)
  <2>1. start.front = <<>> /\ start.rest = <<>> /\ start \in [front : {<<>>}, rest : {<<>>}]
    OBVIOUS
  <2>2. DOMAIN <<>> = {} /\ <<>> \in Seq(ToSet(<<>>))
    OBVIOUS
  <2> HIDE DEF start
  <2> QED
    BY <2>1, <2>2 DEF Sorted, Sound, NoCallTwice
<1> DEFINE T == {i \in Nat : i <= n => Sorted(f[i], ms, i, policy)}
<1> HIDE DEF acc, start
<1>4. 0 \in T
  BY <1>2, <1>3 DEF HoistTraces
<1>5. ASSUME NEW i \in Nat, i \in T
      PROVE  i + 1 \in T
  <2> SUFFICES ASSUME i + 1 <= n
               PROVE  Sorted(f[i + 1], ms, i + 1, policy)
    OBVIOUS
  <2>1. i + 1 \in 1..n /\ (i + 1) - 1 = i /\ Sorted(f[i], ms, i, policy)
    BY <1>1, <1>5
  <2>2. f[i + 1] = Hoist(f[i], ms[i + 1])
    BY <1>2, <2>1 DEF HoistTraces
  <2>3. DOMAIN ms \subseteq Nat
    BY <1>1
  <2> QED
    BY <1>1, <2>1, <2>2, <2>3, HoistSorts
<1> HIDE DEF T
<1>6. Sorted(acc, ms, n, policy)
  <2>1. n \in T
    BY <1>1, <1>4, <1>5, HoldsAllNaturals
  <2> QED
    BY <1>1, <1>2, <2>1 DEF T
<1> DEFINE s == acc.front
           t == acc.rest
           u == s \o t
           p == Len(s)
<1>7. s \in Seq(ToSet(s)) /\ t \in Seq(ToSet(t))
  BY <1>6 DEF Sorted, Sound
<1>8. Hoisted(ms) = u
  BY DEF Hoisted, acc, start
<1> HIDE DEF s, t
<1>9. /\ p \in Nat /\ Len(t) \in Nat /\ DOMAIN s = 1..p /\ DOMAIN t = 1..Len(t)
      /\ u \in Seq(ToSet(s) \cup ToSet(t)) /\ DOMAIN u = 1..(p + Len(t)) /\ Len(u) = p + Len(t)
      /\ \A i \in 1..(p + Len(t)) : u[i] = IF i <= p THEN s[i] ELSE t[i - p]
  <2> DEFINE S == ToSet(s) \cup ToSet(t)
  <2>1. (\A i \in 1..Len(s) : s[i] \in S) /\ (\A i \in 1..Len(t) : t[i] \in S)
    BY <1>7
  <2> HIDE DEF S
  <2>2. s \in Seq(S) /\ t \in Seq(S)
    BY <1>7, <2>1
  <2>3. /\ p \in Nat /\ Len(t) \in Nat /\ DOMAIN s = 1..p /\ DOMAIN t = 1..Len(t)
        /\ u \in Seq(S) /\ DOMAIN u = 1..(p + Len(t)) /\ Len(u) = p + Len(t)
        /\ \A i \in 1..(p + Len(t)) : u[i] = IF i <= p THEN s[i] ELSE t[i - p]
    BY <2>2
  <2> QED
    BY <2>3 DEF S
<1> HIDE DEF u, p
<1>10. \A i \in DOMAIN u : \/ i \in DOMAIN s /\ u[i] = s[i]
                           \/ i - p \in DOMAIN t /\ u[i] = t[i - p]
  BY <1>9
<1>11. /\ \A i \in DOMAIN s : Fit(s[i], policy) /\ s[i].calls = <<>>
       /\ \A i \in DOMAIN t : Fit(t[i], policy)
       /\ NoCallTwice(t)
  BY <1>6 DEF Sorted, Sound, s, t
<1>12. u \in Seq(ToSet(u))
  <2>1. \A i \in 1..Len(u) : u[i] \in ToSet(u)
    BY <1>9 DEF ToSet
  <2> QED
    BY <1>9, <2>1
<1>13. \A i \in DOMAIN u : Fit(u[i], policy)
  BY <1>10, <1>11
<1>14. NoCallTwice(u)
  <2> SUFFICES ASSUME NEW i \in DOMAIN u, NEW j \in DOMAIN u,
                      NEW k \in DOMAIN u[i].calls, NEW l \in DOMAIN u[j].calls,
                      u[i].calls[k].id = u[j].calls[l].id
               PROVE  i = j /\ k = l
    BY DEF NoCallTwice
  <2>1. i - p \in DOMAIN t /\ u[i] = t[i - p] /\ j - p \in DOMAIN t /\ u[j] = t[j - p]
    <3>1. DOMAIN <<>> = {}
      OBVIOUS
    <3> QED
      BY <1>10, <1>11, <3>1
  <2>2. i - p = j - p /\ k = l
    BY <1>11, <2>1 DEF NoCallTwice
  <2>3. i \in Int /\ j \in Int /\ p \in Int
    BY <1>9
  <2> QED
    BY <2>2, <2>3
<1> QED
  BY <1>8, <1>12, <1>13, <1>14 DEF Sound

\* A request that is translated, or refused, is sent as messages that name every
\* call once.
LEMMA TranslatedIsSound ==
  ASSUME NEW request, request.items \in Seq(ToSet(request.items)),
         \A i \in DOMAIN request.items : Sane(request.items[i]),
         NEW policy, NEW known, Thoughts(known)
  PROVE  Sound(Translated(request, policy, known).messages, policy)
<1> DEFINE declared == ToolsOf(request)
           grouped == Grouped(request.items, policy, declared, known)
           body == Ended(grouped, policy)
<1>1. Built(grouped, policy)
  BY GroupedBuilt
<1> HIDE DEF grouped, declared
<1>2. Built(body, policy)
  BY <1>1, EndedBuilt
<1>3. Sound(Hoisted(body.messages), policy)
  BY <1>2, HoistedIsSound DEF Built, Parts
<1>4. body = Items(request.items, policy, declared, known)
  BY DEF Items, grouped
<1> HIDE DEF body
<1>5. Sound(<<>>, policy)
  <2>1. DOMAIN <<>> = {} /\ <<>> \in Seq(ToSet(<<>>))
    OBVIOUS
  <2> QED
    BY <2>1 DEF Sound, NoCallTwice
<1>6. \/ Translated(request, policy, known).messages = <<>>
      \/ Translated(request, policy, known).messages = Hoisted(body.messages)
  BY <1>4 DEF Translated, Refused, declared
<1> QED
  BY <1>3, <1>5, <1>6

\* The items of the next request.
AreItems(items) ==
  items \in Seq(ToSet(items)) /\ \A i \in DOMAIN items : Sane(items[i])

LEMMA ItemsGrow ==
  ASSUME NEW items, AreItems(items), NEW item, Sane(item)
  PROVE  AreItems(Append(items, item))
<1> DEFINE u == Append(items, item)
<1>1. /\ u \in Seq(ToSet(u)) /\ Len(items) \in Nat /\ DOMAIN items = 1..Len(items)
      /\ DOMAIN u = 1..(Len(items) + 1) /\ u[Len(items) + 1] = item
      /\ \A i \in DOMAIN items : u[i] = items[i]
  BY AppendIs DEF AreItems
<1> HIDE DEF u
<1>2. \A i \in DOMAIN u : (i \in DOMAIN items /\ u[i] = items[i]) \/ u[i] = item
  BY <1>1
<1> QED
  BY <1>1, <1>2 DEF AreItems, u

LEMMA ReasoningIsText ==
  Reasoning \in Texts
<1>1. \A S : \A x \in S : <<x>> \in Seq(S)
  OBVIOUS
<1>2. "why" \in Fragments
  BY DEF Fragments, Reasoning, ToSet
<1> QED
  BY <1>1, <1>2 DEF Reasoning, Texts

LEMMA EchoIsItem ==
  ASSUME NEW item
  PROVE  Sane(Codexs(item)) /\ Sane([kind |-> "output", id |-> item.id])
<1>1. Reasoning \in Texts
  BY ReasoningIsText
<1>2. CASE item.kind = "message"
  BY <1>2 DEF Codexs, Sane
<1>3. CASE item.kind = "reasoning"
  BY <1>1, <1>3 DEF Codexs, Sane
<1>4. CASE item.kind # "message" /\ item.kind # "reasoning"
  BY <1>4 DEF Codexs, Sane
<1>5. Sane([kind |-> "output", id |-> item.id])
  BY DEF Sane
<1> QED
  BY <1>2, <1>3, <1>4, <1>5

LEMMA NextItemsAre ==
  ASSUME got.done \in Seq(ToSet(got.done)), AreItems(req.items), NEW echoes
  PROVE  AreItems(NextItems(echoes))
<1> DEFINE n == Len(got.done)
<1>1. n \in Nat /\ DOMAIN got.done = 1..n
  OBVIOUS
<1> HIDE DEF n
<1>2. AreItems(Echoed(echoes))
  <2>1. PICK f : EchoTraces(f, req.items, got.done, n, echoes) /\ Echoed(echoes) = f[n]
    BY <1>1, EchoTrace
  <2> DEFINE T == {i \in Nat : i <= n => AreItems(f[i])}
  <2>2. 0 \in T
    BY <2>1 DEF EchoTraces
  <2>3. ASSUME NEW i \in Nat, i \in T
        PROVE  i + 1 \in T
    <3> SUFFICES ASSUME i + 1 <= n
                 PROVE  AreItems(f[i + 1])
      OBVIOUS
    <3>1. i + 1 \in 1..n /\ (i + 1) - 1 = i /\ AreItems(f[i])
      BY <1>1, <2>3
    <3>2. f[i + 1] = Echo(f[i], got.done[i + 1], echoes)
      BY <2>1, <3>1 DEF EchoTraces
    <3>3. AreItems(Append(f[i], Codexs(got.done[i + 1])))
      BY <3>1, EchoIsItem, ItemsGrow
    <3> QED
      BY <3>1, <3>2, <3>3 DEF Echo
  <2> HIDE DEF T
  <2>4. n \in T
    BY <1>1, <2>2, <2>3, HoldsAllNaturals
  <2> QED
    BY <1>1, <2>1, <2>4 DEF T
<1>3. PICK f : /\ ResultTraces(f, Echoed(echoes), got.done, n)
               /\ FoldLeft(Result, Echoed(echoes), got.done) = f[n]
  BY <1>1, ResultTrace
<1> DEFINE T == {i \in Nat : i <= n => AreItems(f[i])}
<1>4. 0 \in T
  BY <1>2, <1>3 DEF ResultTraces
<1>5. ASSUME NEW i \in Nat, i \in T
      PROVE  i + 1 \in T
  <2> SUFFICES ASSUME i + 1 <= n
               PROVE  AreItems(f[i + 1])
    OBVIOUS
  <2>1. i + 1 \in 1..n /\ (i + 1) - 1 = i /\ AreItems(f[i])
    BY <1>1, <1>5
  <2>2. f[i + 1] = Result(f[i], got.done[i + 1])
    BY <1>3, <2>1 DEF ResultTraces
  <2>3. AreItems(Append(f[i], [kind |-> "output", id |-> got.done[i + 1].id]))
    BY <2>1, EchoIsItem, ItemsGrow
  <2> QED
    BY <2>1, <2>2, <2>3 DEF Result
<1> HIDE DEF T
<1>6. n \in T
  BY <1>1, <1>4, <1>5, HoldsAllNaturals
<1> QED
  BY <1>1, <1>3, <1>6 DEF T, NextItems

-----------------------------------------------------------------------------
(* What is sent upstream, in every state.                                  *)

\* What the store keeps are texts.
Thoughtful == \A i \in DOMAIN memory : Thoughts(memory[i].calls)

SendsSound ==
  /\ Sound(messages, Policy)
  /\ next.asked => Sound(next.messages, Policy)
  /\ Thoughtful

LEMMA EntryIsThoughts ==
  ASSUME Thoughtful, NEW key
  PROVE  Thoughts(Entry(key))
<1>1. CASE Known(key)
  <2>1. Place(key) \in DOMAIN memory
    BY <1>1 DEF Known, Place
  <2> QED
    BY <1>1, <2>1 DEF Entry, Thoughtful
<1>2. CASE ~Known(key)
  <2>1. DOMAIN <<>> = {}
    OBVIOUS
  <2> QED
    BY <1>2, <2>1 DEF Entry, Thoughts
<1> QED
  BY <1>1, <1>2

LEMMA UsedIsThoughtful ==
  ASSUME Remembers, Thoughtful, NEW key, NEW calls, Thoughts(calls), memory' = Used(key, calls)
  PROVE  Thoughtful'
<1> DEFINE u == Used(key, calls)
<1>1. /\ \A i, j \in DOMAIN u : u[i].key = u[j].key => i = j
      /\ Len(u) \in DOMAIN u /\ u[Len(u)] = [key |-> key, calls |-> calls]
      /\ \A i \in DOMAIN u : u[i].key = key \/ \E j \in DOMAIN memory : memory[j] = u[i]
  BY UsedIs
<1> HIDE DEF u
<1>2. ASSUME NEW i \in DOMAIN u
      PROVE  Thoughts(u[i].calls)
  <2>1. u[Len(u)].key = key /\ u[Len(u)].calls = calls
    BY <1>1
  <2>2. CASE u[i].key = key
    <3>1. i = Len(u)
      BY <1>1, <2>1, <2>2
    <3> QED
      BY <2>1, <3>1
  <2>3. CASE \E j \in DOMAIN memory : memory[j] = u[i]
    BY <2>3 DEF Thoughtful
  <2> QED
    BY <1>1, <2>2, <2>3
<1>3. memory' = u
  BY DEF u
<1> QED
  BY <1>2, <1>3 DEF Thoughtful

LEMMA RecordedIsThoughtful ==
  ASSUME Remembers, Thoughtful, NEW ids, NEW thought, Recorded(ids, thought)
  PROVE  Thoughtful'
<1>1. CASE UNCHANGED memory
  BY <1>1 DEF Thoughtful
<1>2. CASE memory' = Used(Mine, With(Entry(Mine), ids, Reasoning))
  <2> DEFINE calls == With(Entry(Mine), ids, Reasoning)
  <2>1. Thoughts(Entry(Mine)) /\ Reasoning \in Texts
    BY EntryIsThoughts, ReasoningIsText
  <2>2. Thoughts(calls)
    BY <2>1 DEF Thoughts, With
  <2> HIDE DEF calls
  <2> QED
    BY <1>2, <2>2, UsedIsThoughtful DEF calls
<1> QED
  BY <1>1, <1>2 DEF Recorded

LEMMA RequestIsItems ==
  ASSUME IInv
  PROVE  AreItems(req.items)
<1>1. req \in Requests
  BY DEF IInv, Typed
<1>2. req.items \in Seq(ToSet(req.items))
  BY <1>1, RequestAssumption
<1>3. ASSUME NEW item \in ToSet(req.items), item.kind = "reasoning"
      PROVE  item.text \in Texts
  <2>1. item.text \in Seq(ToSet(item.text))
    BY <1>1, <1>3, RequestAssumption
  <2>2. item \in Asked
    BY <1>1 DEF Asked
  <2>3. ToSet(item.text) \subseteq Fragments
    BY <1>3, <2>2 DEF Fragments
  <2>4. \A i \in 1..Len(item.text) : item.text[i] \in Fragments
    BY <2>1, <2>3
  <2> QED
    BY <2>1, <2>4 DEF Texts
<1>4. \A i \in DOMAIN req.items : req.items[i] \in ToSet(req.items)
  BY DEF ToSet
<1> QED
  BY <1>2, <1>3, <1>4 DEF AreItems, Sane

LEMMA ReceiveSends ==
  ASSUME IInv, SendsSound, Receive
  PROVE  SendsSound'
<1>1. UNCHANGED <<req, next>> /\ Policy' = Policy
  BY DEF Receive, Policy
<1>2. Remembers /\ Thoughts(Entry(Mine))
  BY EntryIsThoughts DEF IInv, SendsSound
<1>3. Thoughtful'
  <2>1. UNCHANGED memory \/ memory' = Used(Mine, Entry(Mine))
    BY DEF Receive
  <2> QED
    BY <1>2, <2>1, UsedIsThoughtful DEF SendsSound, Thoughtful
<1>4. Sound(messages, Policy)'
  <2> DEFINE t == Translated(req, Policy, Entry(Mine))
  <2>1. Sound(t.messages, Policy)
    BY <1>2, RequestIsItems, TranslatedIsSound DEF AreItems
  <2> HIDE DEF t
  <2>2. UNCHANGED messages \/ messages' = t.messages
    BY DEF Receive, t
  <2>3. Sound(messages', Policy)
    BY <2>1, <2>2 DEF SendsSound
  <2> QED
    BY <1>1, <2>3
<1> QED
  BY <1>1, <1>3, <1>4 DEF SendsSound

LEMMA FollowUpSends ==
  ASSUME IInv, SendsSound, NEW echoes \in BOOLEAN, FollowUp(echoes)
  PROVE  SendsSound'
<1>1. UNCHANGED <<req, messages>> /\ Policy' = Policy
  BY DEF FollowUp, Policy, handling
<1>2. Remembers /\ Thoughts(Entry(Mine))
  BY EntryIsThoughts DEF IInv, SendsSound
<1>3. Thoughtful'
  <2>1. UNCHANGED memory \/ memory' = Used(Mine, Entry(Mine))
    BY DEF FollowUp
  <2> QED
    BY <1>2, <2>1, UsedIsThoughtful DEF SendsSound, Thoughtful
<1>4. got.done \in Seq(ToSet(got.done))
  <2>1. CASE Listening
    <3>1. got.done \in Seq(Somewhat)
      BY <2>1 DEF IInv, Phases, Views
    <3>2. \A i \in 1..Len(got.done) : got.done[i] \in ToSet(got.done)
      BY <3>1 DEF ToSet
    <3> QED
      BY <3>1, <3>2
  <2>2. CASE ~Listening
    <3>1. got # NoView
      <4>1. "completed" \in ToSet(got.terminals)
        BY DEF FollowUp
      <4>2. ToSet(<<>>) = {}
        BY DEF ToSet
      <4> QED
        BY <4>1, <4>2 DEF NoView
    <3> QED
      BY <2>2, <3>1, NotListening
  <2> QED
    BY <2>1, <2>2
<1> DEFINE request == [items |-> NextItems(echoes), tools |-> req.tools]
           t == Translated(request, Policy, Entry(Mine))
<1>5. AreItems(NextItems(echoes))
  BY <1>4, NextItemsAre, RequestIsItems
<1>6. request.items = NextItems(echoes)
  OBVIOUS
<1> HIDE DEF request
<1>7. Sound(t.messages, Policy)
  BY <1>2, <1>5, <1>6, TranslatedIsSound DEF AreItems
<1>8. next'.messages = t.messages
  BY DEF FollowUp, request
<1> HIDE DEF t
<1> QED
  BY <1>1, <1>3, <1>7, <1>8 DEF SendsSound

LEMMA MemoryOnly ==
  ASSUME SendsSound, UNCHANGED <<req, messages, next>>, Thoughtful'
  PROVE  SendsSound'
<1>1. Policy' = Policy
  BY DEF Policy
<1> QED
  BY <1>1 DEF SendsSound

LEMMA StepSends ==
  ASSUME IInv, SendsSound, [Next]_vars
  PROVE  SendsSound'
<1>1. CASE Receive
  BY <1>1, ReceiveSends
<1>2. CASE \/ Refuse \/ Open \/ Resolve \/ ConnectFails \/ FirstByteIsLate \/ UpstreamRefuses
           \/ StartStream \/ ReadChunk \/ ReadFails \/ Send \/ SendFails \/ TaskEnds
           \/ ClientReads \/ ClientSeesEnd \/ ClientLeaves \/ Done \/ UNCHANGED vars
  <2>1. UNCHANGED <<req, messages, next, memory>>
    BY <1>2 DEF Refuse, Open, Resolve, ConnectFails, FirstByteIsLate, UpstreamRefuses,
                StartStream, ReadChunk, ReadFails, Send, SendFails, TaskEnds,
                ClientReads, ClientSeesEnd, ClientLeaves, Done, vars, handling, history
  <2> QED
    BY <2>1, MemoryOnly DEF SendsSound, Thoughtful
<1>3. ASSUME NEW answer \in Answers, AnswerWhole(answer)
      PROVE  SendsSound'
  <2>1. UNCHANGED <<req, messages, next>>
    BY <1>3 DEF AnswerWhole
  <2>2. UNCHANGED memory \/ \E ids, thought : Recorded(ids, thought)
    BY <1>3 DEF AnswerWhole
  <2> QED
    BY <2>1, <2>2, MemoryOnly, RecordedIsThoughtful DEF IInv, SendsSound, Thoughtful
<1>4. CASE ReadEnd
  <2>1. UNCHANGED <<req, messages, next>>
    BY <1>4 DEF ReadEnd
  <2>2. UNCHANGED memory \/ \E ids, thought : Recorded(ids, thought)
    BY <1>4 DEF ReadEnd
  <2> QED
    BY <2>1, <2>2, MemoryOnly, RecordedIsThoughtful DEF IInv, SendsSound, Thoughtful
<1>5. CASE \E echoes \in BOOLEAN : FollowUp(echoes)
  BY <1>5, FollowUpSends
<1>6. CASE OtherTurn
  <2>1. UNCHANGED <<req, messages, next>> /\ memory' = Used(others + 1, <<>>)
    BY <1>6 DEF OtherTurn, handling
  <2>2. Thoughts(<<>>)
    <3>1. DOMAIN <<>> = {}
      OBVIOUS
    <3> QED
      BY <3>1 DEF Thoughts
  <2> QED
    BY <2>1, <2>2, MemoryOnly, UsedIsThoughtful DEF IInv, SendsSound
<1> QED
  BY <1>1, <1>2, <1>3, <1>4, <1>5, <1>6 DEF Next

LEMMA InitSends ==
  ASSUME Init
  PROVE  SendsSound
<1>1. messages = <<>> /\ ~next.asked /\ memory = <<>>
  BY DEF Init, NoNext
<1>2. DOMAIN <<>> = {} /\ <<>> \in Seq(ToSet(<<>>))
  OBVIOUS
<1> QED
  BY <1>1, <1>2 DEF SendsSound, Sound, NoCallTwice, Thoughtful

\* Whatever conversation Codex sends, and whatever the upstream answered before:
\* the messages that are sent name every call once, and where the provider wants
\* it every turn that calls tools has its reasoning (request.rs); and that of the
\* answer is kept for the next request, whoever else is served (routes.rs).
THEOREM TurnsAreAlwaysComplete == Spec => []TurnsAreComplete
<1>1. Init => IInv /\ SendsSound
  BY InitIsInvariant, InitSends
<1>2. IInv /\ SendsSound /\ [Next]_vars => (IInv /\ SendsSound)'
  BY StepKeeps, StepSends
<1>3. SendsSound => TurnsAreWhole
  <2>1. ASSUME NEW ms, Sound(ms, Policy)
        PROVE  NoCallTwice(ms) /\ (req.thinking => TurnsCarryReasoning(ms))
    BY <2>1 DEF Sound, Fit, Policy, TurnsCarryReasoning
  <2> QED
    BY <2>1 DEF SendsSound, TurnsAreWhole, SentMessages
<1>4. TurnsAreWhole /\ ReasoningIsKept => TurnsAreComplete
  BY DEF TurnsAreComplete
<1>5. Spec => []ReasoningIsKept
  BY ReasoningOutlivesOthers
<1> QED
  BY <1>1, <1>2, <1>3, <1>4, <1>5, PTL DEF Spec
================================================================================
