----------------------------- MODULE GatewayProofs -----------------------------
(***************************************************************************)
(* Three protocols of the Gateway.                                         *)
(*                                                                         *)
(* Admission: the server neither loses nor makes a permit or a place in a  *)
(* queue, and no request waits while there is room for it, for any number  *)
(* of requests, bindings, permits and places.                              *)
(*                                                                         *)
(* The claim: an attended sidecar keeps its claim, for any number of       *)
(* processes and launchers, whoever dies, moves the port or reuses a pid.  *)
(* The only one who takes a claim away from a process is an agent that has *)
(* found it dead, orphaned or replaced, and whose snapshot of the state is *)
(* still the last.                                                         *)
(*                                                                         *)
(* The tokens: the bindings of the Gateway and their tokens fit together   *)
(* whatever runs beside a call, fails in it or cuts it short, and no call  *)
(* undoes what another has stored.  Both rest on the revision check: a     *)
(* call that gets through it has read what is stored.                      *)
(***************************************************************************)
EXTENDS GatewayAdmission, GatewayClaim, GatewayTokens, FiniteSetTheorems,
        WellFoundedInduction, TLAPS

-----------------------------------------------------------------------------
(* Admission (GatewayAdmission) *)

InLine(line) == {line[i] : i \in DOMAIN line}
Distinct(line) == \A i, j \in DOMAIN line : line[i] = line[j] => i = j

\* Those who wait for a permit of the pool, or were given one and do not know.
Around(pool) == InLine(waiters[pool]) \cup granted[pool]

\* Where the future of r waits for a permit of the pool.
WaitsFor(r, pool) ==
  \/ At(r, "wait_1") /\ pool = QueuedOrder(r)[1]
  \/ At(r, "wait_2") /\ pool = QueuedOrder(r)[2]

\* Nobody waits while a permit is free, nobody waits twice, and who was given
\* a permit is out of the line.
Sound(pool) ==
  /\ waiters[pool] # <<>> => free[pool] = 0
  /\ Distinct(waiters[pool])
  /\ InLine(waiters[pool]) \cap granted[pool] = {}

SemaphoreTypes ==
  /\ free \in [Pools -> Nat]
  /\ waiters \in [Pools -> Seq(Requests)]
  /\ granted \in [Pools -> SUBSET Requests]

\* The permits that no future owns.
Spare(pool) == free[pool] + Cardinality(granted[pool])
Owners(pool) == {r \in Requests : pool \in Owned(r)}
Holders(pool) == {r \in Requests : pool \in Counted(r)}

Conserved(pool) ==
  /\ Spare(pool) + Cardinality(Owners(pool)) = Permits(pool)
  /\ queued[pool] = Cardinality(Holders(pool))
  /\ queued[pool] <= Places(pool)

Inv ==
  /\ pc \in [Requests -> Steps] /\ queued \in [Pools -> Nat]
  /\ SemaphoreTypes
  /\ \A pool \in Pools :
       /\ Sound(pool)
       /\ Around(pool) = {r \in Requests : WaitsFor(r, pool)}
       /\ Conserved(pool)
-----------------------------------------------------------------------------
(* Lines *)

LEMMA JoinLine ==
  ASSUME NEW S, NEW line \in Seq(S), Distinct(line), NEW r \in S, r \notin InLine(line)
  PROVE  /\ Append(line, r) \in Seq(S)
         /\ Distinct(Append(line, r))
         /\ InLine(Append(line, r)) = InLine(line) \cup {r}
<1> DEFINE new == Append(line, r)
<1>1. /\ new \in Seq(S) /\ Len(line) \in Nat
      /\ DOMAIN line = 1..Len(line) /\ DOMAIN new = 1..(Len(line) + 1)
      /\ new[Len(line) + 1] = r
      /\ \A i \in 1..Len(line) : new[i] = line[i]
  OBVIOUS
<1> HIDE DEF new
<1>2. \A i \in 1..(Len(line) + 1) : i \in 1..Len(line) \/ i = Len(line) + 1
  BY <1>1
<1>3. \A i \in 1..Len(line) : i \in 1..(Len(line) + 1) /\ line[i] # r
  BY <1>1 DEF InLine
<1>4. Len(line) + 1 \in 1..(Len(line) + 1)
  BY <1>1
<1>5. Distinct(new)
  BY <1>1, <1>2, <1>3 DEF Distinct
<1>6. InLine(new) = InLine(line) \cup {r}
  BY <1>1, <1>2, <1>3, <1>4 DEF InLine
<1> QED
  BY <1>1, <1>5, <1>6 DEF new

LEMMA LeaveFront ==
  ASSUME NEW S, NEW line \in Seq(S), Distinct(line), line # <<>>
  PROVE  /\ Head(line) \in S /\ Head(line) \in InLine(line)
         /\ Tail(line) \in Seq(S)
         /\ Distinct(Tail(line))
         /\ InLine(Tail(line)) = InLine(line) \ {Head(line)}
<1> DEFINE new == Tail(line)
<1>1. /\ new \in Seq(S) /\ Len(line) \in Nat \ {0}
      /\ DOMAIN line = 1..Len(line) /\ DOMAIN new = 1..(Len(line) - 1)
      /\ Head(line) = line[1] /\ Head(line) \in S
      /\ \A i \in 1..(Len(line) - 1) : new[i] = line[i + 1]
  OBVIOUS
<1> HIDE DEF new
<1>2. \A i \in 1..(Len(line) - 1) : i + 1 \in 1..Len(line) /\ i + 1 # 1
  BY <1>1
<1>3. \A i \in 1..Len(line) : i # 1 => i - 1 \in 1..(Len(line) - 1) /\ new[i - 1] = line[i]
  <2> SUFFICES ASSUME NEW i \in 1..Len(line), i # 1
               PROVE  i - 1 \in 1..(Len(line) - 1) /\ new[i - 1] = line[i]
    OBVIOUS
  <2>1. i - 1 \in 1..(Len(line) - 1) /\ (i - 1) + 1 = i
    BY <1>1
  <2> QED
    BY <1>1, <2>1
<1>4. 1 \in 1..Len(line)
  BY <1>1
<1>5. Distinct(new)
  <2> SUFFICES ASSUME NEW i \in 1..(Len(line) - 1), NEW j \in 1..(Len(line) - 1), new[i] = new[j]
               PROVE  i = j
    BY <1>1 DEF Distinct
  <2>1. line[i + 1] = line[j + 1] /\ i + 1 \in DOMAIN line /\ j + 1 \in DOMAIN line
    BY <1>1, <1>2
  <2>2. i + 1 = j + 1
    BY <2>1 DEF Distinct
  <2> QED
    BY <1>1, <2>2
<1>6. \A i \in 1..Len(line) : i # 1 => line[i] # line[1]
  BY <1>1, <1>4 DEF Distinct
<1>7. InLine(new) \subseteq InLine(line) \ {line[1]}
  BY <1>1, <1>2, <1>6 DEF InLine
<1>8. InLine(line) \ {line[1]} \subseteq InLine(new)
  BY <1>1, <1>3 DEF InLine
<1> QED
  BY <1>1, <1>4, <1>5, <1>7, <1>8 DEF new, InLine

LEMMA LeaveLine ==
  ASSUME NEW S, NEW line \in Seq(S), Distinct(line), NEW r \in InLine(line)
  PROVE  /\ Without(line, r) \in Seq(S)
         /\ Distinct(Without(line, r))
         /\ InLine(Without(line, r)) = InLine(line) \ {r}
<1> DEFINE k == CHOOSE i \in DOMAIN line : line[i] = r
           new == Without(line, r)
           Old(j) == IF j < k THEN j ELSE j + 1
<1>1. k \in DOMAIN line /\ line[k] = r
  BY DEF InLine
<1>2. new = [j \in 1..(Len(line) - 1) |-> IF j < k THEN line[j] ELSE line[j + 1]]
  BY DEF Without
<1> HIDE DEF k, new
<1>3. /\ Len(line) \in Nat \ {0} /\ DOMAIN line = 1..Len(line)
      /\ k \in 1..Len(line) /\ k \in Nat
      /\ \A i \in 1..Len(line) : line[i] \in S
  BY <1>1
<1>4. \A j \in 1..(Len(line) - 1) : j \in 1..Len(line) /\ j + 1 \in 1..Len(line)
  BY <1>3
<1>5. \A j \in 1..(Len(line) - 1) : /\ Old(j) \in 1..Len(line) /\ Old(j) # k
                                    /\ new[j] = line[Old(j)] /\ new[j] \in S
  BY <1>2, <1>3, <1>4
<1>6. new \in [1..(Len(line) - 1) -> S] /\ Len(line) - 1 \in Nat
  BY <1>2, <1>3, <1>5
<1>7. new \in Seq(S) /\ DOMAIN new = 1..(Len(line) - 1)
  BY <1>6
<1>8. \A i, j \in 1..(Len(line) - 1) : Old(i) = Old(j) => i = j
  BY <1>3
<1>9. \A i \in 1..Len(line) : i # k => \E j \in 1..(Len(line) - 1) : Old(j) = i
  <2> SUFFICES ASSUME NEW i \in 1..Len(line), i # k
               PROVE  \E j \in 1..(Len(line) - 1) : Old(j) = i
    OBVIOUS
  <2>1. CASE i < k
    <3>1. i \in 1..(Len(line) - 1) /\ Old(i) = i
      BY <1>3, <2>1
    <3> QED
      BY <3>1
  <2>2. CASE ~(i < k)
    <3>1. i - 1 \in 1..(Len(line) - 1) /\ Old(i - 1) = i
      BY <1>3, <2>2
    <3> QED
      BY <3>1
  <2> QED
    BY <2>1, <2>2
<1> HIDE DEF Old
<1>10. Distinct(new)
  <2> SUFFICES ASSUME NEW i \in 1..(Len(line) - 1), NEW j \in 1..(Len(line) - 1), new[i] = new[j]
               PROVE  i = j
    BY <1>7 DEF Distinct
  <2>1. Old(i) = Old(j)
    BY <1>3, <1>5 DEF Distinct
  <2> QED
    BY <1>8, <2>1
<1>11. \A i \in 1..Len(line) : i # k => line[i] # r
  BY <1>1, <1>3 DEF Distinct
<1>12. InLine(new) \subseteq InLine(line) \ {r}
  BY <1>3, <1>5, <1>7, <1>11 DEF InLine
<1>13. InLine(line) \ {r} \subseteq InLine(new)
  <2> SUFFICES ASSUME NEW i \in 1..Len(line), line[i] # r
               PROVE  line[i] \in InLine(new)
    BY <1>3 DEF InLine
  <2>1. i # k
    BY <1>1
  <2>2. PICK j \in 1..(Len(line) - 1) : Old(j) = i
    BY <1>9, <2>1
  <2> QED
    BY <1>5, <1>7, <2>2 DEF InLine
<1> QED
  BY <1>7, <1>10, <1>12, <1>13 DEF new
-----------------------------------------------------------------------------
(* Semaphores: what each operation does to the permits and to those around *)
(* them.                                                                   *)

One(b) == IF b THEN 1 ELSE 0

LEMMA GrantedFinite ==
  ASSUME SemaphoreTypes, NEW pool \in Pools
  PROVE  IsFiniteSet(granted[pool]) /\ Cardinality(granted[pool]) \in Nat
<1>1. granted[pool] \in SUBSET Requests
  BY DEF SemaphoreTypes
<1> QED
  BY <1>1, AdmissionAssumption, FS_Subset, FS_CardinalityType

LEMMA TakeEffect ==
  ASSUME SemaphoreTypes, \A q \in Pools : Sound(q), NEW pool \in Pools, Take(pool)
  PROVE  /\ SemaphoreTypes'
         /\ \A q \in Pools : /\ Sound(q)' /\ Around(q)' = Around(q)
                             /\ Spare(q)' = Spare(q) - One(q = pool)
<1>1. /\ UNCHANGED <<waiters, granted>>
      /\ \A q \in Pools : free[q] \in Nat /\ free'[q] = free[q] - One(q = pool)
      /\ free[pool] > 0
      /\ SemaphoreTypes'
  BY DEF Take, SemaphoreTypes, One
<1>2. ASSUME NEW q \in Pools
      PROVE  Sound(q)' /\ Around(q)' = Around(q) /\ Spare(q)' = Spare(q) - One(q = pool)
  <2>1. free'[q] # 0 => free[q] # 0
    BY <1>1 DEF One
  <2>2. Cardinality(granted[q]) \in Nat
    BY GrantedFinite
  <2>3. waiters[q] # <<>> => q # pool
    BY <1>1 DEF Sound
  <2> QED
    BY <1>1, <2>1, <2>2, <2>3 DEF Sound, Around, Spare, One
<1> QED
  BY <1>1, <1>2

LEMMA WaitEffect ==
  ASSUME SemaphoreTypes, \A q \in Pools : Sound(q), NEW pool \in Pools,
         NEW r \in Requests, r \notin Around(pool), Wait(r, pool)
  PROVE  /\ SemaphoreTypes'
         /\ \A q \in Pools : /\ Sound(q)'
                             /\ Around(q)' = Around(q) \cup (IF q = pool THEN {r} ELSE {})
                             /\ Spare(q)' = Spare(q)
<1>1. /\ waiters[pool] \in Seq(Requests) /\ Distinct(waiters[pool]) /\ r \notin InLine(waiters[pool])
  BY DEF SemaphoreTypes, Sound, Around
<1>2. LET line == Append(waiters[pool], r) IN
      /\ line \in Seq(Requests) /\ Distinct(line)
      /\ InLine(line) = InLine(waiters[pool]) \cup {r}
  BY <1>1, JoinLine
<1>3. /\ free[pool] = 0 /\ UNCHANGED <<free, granted>>
      /\ waiters' \in [Pools -> Seq(Requests)]
      /\ waiters'[pool] = Append(waiters[pool], r)
      /\ \A q \in Pools : q # pool => waiters'[q] = waiters[q]
  BY <1>2 DEF Wait, SemaphoreTypes
<1>4. ASSUME NEW q \in Pools
      PROVE  /\ Sound(q)'
             /\ Around(q)' = Around(q) \cup (IF q = pool THEN {r} ELSE {})
             /\ Spare(q)' = Spare(q)
  <2>1. CASE q = pool
    BY <1>2, <1>3, <2>1 DEF Sound, Around, Spare
  <2>2. CASE q # pool
    BY <1>3, <2>2 DEF Sound, Around, Spare
  <2> QED
    BY <2>1, <2>2
<1> QED
  BY <1>3, <1>4 DEF SemaphoreTypes

\* A permit that comes back is free or on its way to a request.
LEMMA GiveBackEffect ==
  ASSUME SemaphoreTypes, \A q \in Pools : Sound(q), NEW pool \in Pools,
         NEW from \in SUBSET granted[pool], GiveBack(pool, from)
  PROVE  /\ SemaphoreTypes'
         /\ \A q \in Pools :
              /\ Sound(q)'
              /\ Around(q)' = Around(q) \ (IF q = pool THEN from ELSE {})
              /\ q # pool => Spare(q)' = Spare(q)
         /\ Spare(pool)' = free[pool] + Cardinality(granted[pool] \ from) + 1
<1> DEFINE line == waiters[pool]
           rest == granted[pool] \ from
<1>1. /\ line \in Seq(Requests) /\ free[pool] \in Nat
      /\ Distinct(line) /\ InLine(line) \cap granted[pool] = {}
      /\ line # <<>> => free[pool] = 0
      /\ rest \in SUBSET Requests
      /\ InLine(<<>>) = {}
  BY DEF SemaphoreTypes, Sound, InLine
<1>2. IsFiniteSet(rest) /\ Cardinality(rest) \in Nat
  BY <1>1, AdmissionAssumption, FS_Subset, FS_CardinalityType
<1>3. \A q \in Pools : q # pool =>
        free'[q] = free[q] /\ waiters'[q] = waiters[q] /\ granted'[q] = granted[q]
  BY DEF GiveBack, SemaphoreTypes
<1>4. \A q \in Pools : q # pool =>
        Sound(q)' /\ Around(q)' = Around(q) /\ Spare(q)' = Spare(q)
  BY <1>3 DEF Sound, Around, Spare
<1>5. CASE line = <<>>
  <2>1. /\ free' \in [Pools -> Nat] /\ granted' \in [Pools -> SUBSET Requests]
        /\ waiters' = waiters
        /\ free'[pool] = free[pool] + 1 /\ granted'[pool] = rest
    <3>1. /\ free' = [free EXCEPT ![pool] = free[pool] + 1]
          /\ granted' = [granted EXCEPT ![pool] = rest]
          /\ waiters' = waiters
      BY <1>5 DEF GiveBack
    <3>2. free \in [Pools -> Nat] /\ granted \in [Pools -> SUBSET Requests]
      BY DEF SemaphoreTypes
    <3> HIDE DEF rest
    <3> QED
      BY <1>1, <3>1, <3>2
  <2> HIDE DEF rest
  <2>2. Around(pool)' = rest /\ Around(pool) = granted[pool]
    BY <1>1, <1>5, <2>1 DEF Around
  <2>3. Sound(pool)'
    BY <1>1, <1>5, <2>1 DEF Sound
  <2>4. Spare(pool)' = free[pool] + Cardinality(rest) + 1
    BY <1>1, <1>2, <2>1 DEF Spare
  <2> QED
    BY <1>4, <2>1, <2>2, <2>3, <2>4 DEF rest, SemaphoreTypes
<1>6. CASE line # <<>>
  <2>1. /\ Head(line) \in Requests /\ Head(line) \in InLine(line)
        /\ Tail(line) \in Seq(Requests) /\ Distinct(Tail(line))
        /\ InLine(Tail(line)) = InLine(line) \ {Head(line)}
    BY <1>1, <1>6, LeaveFront
  <2>2. /\ granted' \in [Pools -> SUBSET Requests]
        /\ waiters' \in [Pools -> Seq(Requests)]
        /\ free' = free
        /\ granted'[pool] = rest \cup {Head(line)} /\ waiters'[pool] = Tail(line)
    <3>1. /\ granted' = [granted EXCEPT ![pool] = rest \cup {Head(line)}]
          /\ waiters' = [waiters EXCEPT ![pool] = Tail(line)]
          /\ free' = free
      BY <1>6 DEF GiveBack
    <3>2. waiters \in [Pools -> Seq(Requests)] /\ granted \in [Pools -> SUBSET Requests]
      BY DEF SemaphoreTypes
    <3> DEFINE first == Head(line)
               others == Tail(line)
    <3>3. first \in Requests /\ others \in Seq(Requests)
      BY <2>1
    <3> HIDE DEF rest, line, first, others
    <3>4. granted' = [granted EXCEPT ![pool] = rest \cup {first}]
      BY <3>1 DEF first
    <3>5. waiters' = [waiters EXCEPT ![pool] = others]
      BY <3>1 DEF others
    <3>6. granted' \in [Pools -> SUBSET Requests] /\ granted'[pool] = rest \cup {first}
      BY <1>1, <3>2, <3>3, <3>4
    <3>7. waiters' \in [Pools -> Seq(Requests)] /\ waiters'[pool] = others
      BY <3>2, <3>3, <3>5
    <3> QED
      BY <3>1, <3>6, <3>7 DEF first, others
  <2>3. Head(line) \notin rest
    BY <1>1, <2>1
  <2>4. Cardinality(rest \cup {Head(line)}) = Cardinality(rest) + 1
    BY <1>2, <2>3, FS_AddElement
  <2>5. InLine(line) \cap rest = {} /\ InLine(line) \cap from = {}
    BY <1>1
  <2> HIDE DEF rest, line
  <2>6. Around(pool)' = InLine(line) \cup rest
    BY <2>1, <2>2 DEF Around
  <2>7. Sound(pool)'
    BY <1>1, <1>6, <2>1, <2>2, <2>3, <2>5 DEF Sound
  <2>8. Spare(pool)' = free[pool] + Cardinality(rest) + 1
    BY <1>1, <1>2, <2>2, <2>4 DEF Spare
  <2>9. Around(pool)' = Around(pool) \ from
    BY <2>5, <2>6 DEF Around, rest, line
  <2> QED
    BY <1>4, <2>2, <2>7, <2>8, <2>9 DEF rest, SemaphoreTypes
<1> QED
  BY <1>5, <1>6

\* The permit of a request that owns one comes back ...
LEMMA ReturnEffect ==
  ASSUME SemaphoreTypes, \A q \in Pools : Sound(q), NEW pool \in Pools, GiveBack(pool, {})
  PROVE  /\ SemaphoreTypes'
         /\ \A q \in Pools : /\ Sound(q)' /\ Around(q)' = Around(q)
                             /\ Spare(q)' = Spare(q) + One(q = pool)
<1>1. granted[pool] \ {} = granted[pool] /\ {} \in SUBSET granted[pool]
  OBVIOUS
<1>2. Cardinality(granted[pool]) \in Nat /\ free[pool] \in Nat
  BY GrantedFinite DEF SemaphoreTypes
<1>3. \A q \in Pools : free[q] \in Nat /\ Cardinality(granted[q]) \in Nat
  BY GrantedFinite DEF SemaphoreTypes
<1>4. Spare(pool)' = Spare(pool) + 1
  BY <1>1, <1>2, GiveBackEffect DEF Spare
<1>5. \A q \in Pools : Spare(q) \in Nat
  BY <1>3 DEF Spare
<1>6. ASSUME NEW q \in Pools
      PROVE  /\ Sound(q)' /\ Around(q)' = Around(q)
             /\ Spare(q)' = Spare(q) + One(q = pool)
  <2>1. /\ Sound(q)'
        /\ Around(q)' = Around(q) \ (IF q = pool THEN {} ELSE {})
        /\ q # pool => Spare(q)' = Spare(q)
    BY <1>1, GiveBackEffect
  <2>2. Spare(q)' = Spare(q) + One(q = pool)
    BY <1>4, <1>5, <2>1 DEF One
  <2> QED
    BY <2>1, <2>2
<1>7. SemaphoreTypes'
  BY <1>1, GiveBackEffect
<1> QED
  BY <1>6, <1>7

\* ... or that of one which withdraws, if it was on its way to it.
LEMMA WithdrawEffect ==
  ASSUME SemaphoreTypes, \A q \in Pools : Sound(q), NEW pool \in Pools,
         NEW r \in Around(pool), Withdraw(r, pool)
  PROVE  /\ SemaphoreTypes'
         /\ \A q \in Pools : /\ Sound(q)'
                             /\ Around(q)' = Around(q) \ (IF q = pool THEN {r} ELSE {})
                             /\ Spare(q)' = Spare(q)
<1>1. CASE r \in granted[pool]
  <2>1. GiveBack(pool, {r}) /\ {r} \in SUBSET granted[pool]
    BY <1>1 DEF Withdraw
  <2>2. Cardinality(granted[pool] \ {r}) = Cardinality(granted[pool]) - 1
    BY <1>1, GrantedFinite, FS_RemoveElement
  <2>3. Cardinality(granted[pool]) \in Nat /\ free[pool] \in Nat
    BY GrantedFinite DEF SemaphoreTypes
  <2>4. Spare(pool)' = Spare(pool)
    BY <2>1, <2>2, <2>3, GiveBackEffect DEF Spare
  <2> QED
    BY <2>1, <2>4, GiveBackEffect
<1>2. CASE r \notin granted[pool]
  <2>1. /\ waiters[pool] \in Seq(Requests) /\ Distinct(waiters[pool])
        /\ r \in InLine(waiters[pool])
    BY <1>2 DEF SemaphoreTypes, Sound, Around
  <2>2. LET line == Without(waiters[pool], r) IN
        /\ line \in Seq(Requests) /\ Distinct(line)
        /\ InLine(line) = InLine(waiters[pool]) \ {r}
    BY <2>1, LeaveLine
  <2>3. /\ UNCHANGED <<free, granted>>
        /\ waiters' \in [Pools -> Seq(Requests)]
        /\ waiters'[pool] = Without(waiters[pool], r)
        /\ \A q \in Pools : q # pool => waiters'[q] = waiters[q]
    BY <1>2, <2>2 DEF Withdraw, SemaphoreTypes
  <2>4. waiters[pool] # <<>>
    BY <2>1 DEF InLine
  <2>5. Sound(pool)' /\ Around(pool)' = Around(pool) \ {r} /\ Spare(pool)' = Spare(pool)
    BY <1>2, <2>2, <2>3, <2>4 DEF Sound, Around, Spare
  <2>6. \A q \in Pools : q # pool =>
          Sound(q)' /\ Around(q)' = Around(q) /\ Spare(q)' = Spare(q)
    BY <2>3 DEF Sound, Around, Spare
  <2> QED
    BY <2>3, <2>5, <2>6 DEF SemaphoreTypes
<1> QED
  BY <1>1, <1>2

\* A request that was given a permit is polled.
LEMMA PollEffect ==
  ASSUME SemaphoreTypes, \A q \in Pools : Sound(q), NEW pool \in Pools,
         NEW r \in granted[pool],
         granted' = [granted EXCEPT ![pool] = @ \ {r}], UNCHANGED <<free, waiters>>
  PROVE  /\ SemaphoreTypes'
         /\ \A q \in Pools : /\ Sound(q)'
                             /\ Around(q)' = Around(q) \ (IF q = pool THEN {r} ELSE {})
                             /\ Spare(q)' = Spare(q) - One(q = pool)
<1>1. /\ granted' \in [Pools -> SUBSET Requests]
      /\ granted'[pool] = granted[pool] \ {r}
      /\ \A q \in Pools : q # pool => granted'[q] = granted[q]
  BY DEF SemaphoreTypes
<1>2. Cardinality(granted[pool] \ {r}) = Cardinality(granted[pool]) - 1
  BY GrantedFinite, FS_RemoveElement
<1>3. \A q \in Pools : free[q] \in Nat /\ Cardinality(granted[q]) \in Nat
  BY GrantedFinite DEF SemaphoreTypes
<1>4. Sound(pool)' /\ Around(pool)' = Around(pool) \ {r} /\ Spare(pool)' = Spare(pool) - 1
  BY <1>1, <1>2, <1>3 DEF Sound, Around, Spare
<1>5. \A q \in Pools : q # pool =>
        Sound(q)' /\ Around(q)' = Around(q) /\ Spare(q)' = Spare(q) - 0
  BY <1>1, <1>3 DEF Sound, Around, Spare
<1> QED
  BY <1>1, <1>4, <1>5 DEF SemaphoreTypes, One
-----------------------------------------------------------------------------
(* One request goes a step: what it owns, where it is counted and what it  *)
(* waits for follow from where it is.                                      *)

OwnedAt(r, step) ==
  CASE step = "try_global" -> {BindingOf[r]}
    [] step \in {"want_2", "wait_2", "drop_first"} -> {BindingOf[r]}
    [] step \in {"admitted", "admitted_binding", "running"} -> {BindingOf[r], Global}
    [] step = "drop_global" -> {Global}
    [] OTHER -> {}

CountedAt(r, step) ==
  CASE step \in {"enter_binding", "unenter"} -> {Global}
    [] step \in {"want_1", "wait_1", "want_2", "wait_2", "drop_first", "admitted", "leave"} ->
         {BindingOf[r], Global}
    [] step \in {"admitted_binding", "leave_binding"} -> {BindingOf[r]}
    [] OTHER -> {}

WaitsAt(r, step) ==
  CASE step = "wait_1" -> {BindingOf[r]}
    [] step = "wait_2" -> {Global}
    [] OTHER -> {}

LEMMA WhereItIs ==
  ASSUME NEW r \in Requests
  PROVE  /\ Owned(r) = OwnedAt(r, pc[r])
         /\ Counted(r) = CountedAt(r, pc[r])
         /\ \A pool : WaitsFor(r, pool) <=> pool \in WaitsAt(r, pc[r])
<1>1. Owned(r) = OwnedAt(r, pc[r])
  BY DEF Owned, OwnedAt, At, QueuedOrder
<1>2. Counted(r) = CountedAt(r, pc[r])
  BY DEF Counted, CountedAt
<1>3. \A pool : WaitsFor(r, pool) <=> pool \in WaitsAt(r, pc[r])
  BY DEF WaitsFor, WaitsAt, At, QueuedOrder
<1> QED
  BY <1>1, <1>2, <1>3

LEMMA SetStep ==
  ASSUME NEW S \in SUBSET Requests, NEW T \in SUBSET Requests, NEW r \in Requests,
         \A s \in Requests : s # r => (s \in S <=> s \in T)
  PROVE  /\ Cardinality(S) \in Nat /\ Cardinality(T) \in Nat
         /\ Cardinality(T) + One(r \in S) = Cardinality(S) + One(r \in T)
<1>1. IsFiniteSet(S) /\ IsFiniteSet(T)
  BY AdmissionAssumption, FS_Subset
<1>2. Cardinality(S) \in Nat /\ Cardinality(T) \in Nat
  BY <1>1, FS_CardinalityType
<1>3. CASE r \in S /\ r \notin T
  <2>1. T = S \ {r}
    BY <1>3
  <2>2. Cardinality(T) = Cardinality(S) - 1
    BY <1>1, <1>3, <2>1, FS_RemoveElement
  <2> QED
    BY <1>2, <1>3, <2>2 DEF One
<1>4. CASE r \notin S /\ r \in T
  <2>1. T = S \cup {r}
    BY <1>4
  <2>2. Cardinality(T) = Cardinality(S) + 1
    BY <1>1, <1>4, <2>1, FS_AddElement
  <2> QED
    BY <1>2, <1>4, <2>2 DEF One
<1>5. CASE r \in S <=> r \in T
  <2>1. S = T
    BY <1>5
  <2> QED
    BY <1>2, <1>5, <2>1 DEF One
<1> QED
  BY <1>3, <1>4, <1>5

LEMMA Advance ==
  ASSUME Inv, NEW r \in Requests, NEW from, from = pc[r], NEW step \in Steps, GoTo(r, step),
         SemaphoreTypes', queued' \in [Pools -> Nat],
         \A q \in Pools :
           /\ Sound(q)'
           /\ Spare(q)' + One(q \in OwnedAt(r, step)) = Spare(q) + One(q \in OwnedAt(r, from))
           /\ queued'[q] + One(q \in CountedAt(r, from)) = queued[q] + One(q \in CountedAt(r, step))
           /\ queued'[q] <= Places(q)
           /\ Around(q)' = (Around(q) \ {r}) \cup (IF q \in WaitsAt(r, step) THEN {r} ELSE {})
  PROVE  Inv'
<1>1. /\ pc' \in [Requests -> Steps] /\ pc'[r] = step
      /\ \A s \in Requests : s # r => pc'[s] = pc[s]
  BY DEF Inv, GoTo
<1>2. /\ Owned(r)' = OwnedAt(r, step) /\ Counted(r)' = CountedAt(r, step)
      /\ \A pool : WaitsFor(r, pool)' <=> pool \in WaitsAt(r, step)
  <2>1. Owned(r)' = OwnedAt(r, step)
    BY <1>1 DEF Owned, OwnedAt, At, QueuedOrder
  <2>2. Counted(r)' = CountedAt(r, step)
    BY <1>1 DEF Counted, CountedAt
  <2>3. \A pool : WaitsFor(r, pool)' <=> pool \in WaitsAt(r, step)
    BY <1>1 DEF WaitsFor, WaitsAt, At, QueuedOrder
  <2> QED
    BY <2>1, <2>2, <2>3
<1>3. \A s \in Requests : s # r =>
        /\ Owned(s)' = Owned(s) /\ Counted(s)' = Counted(s)
        /\ \A pool : WaitsFor(s, pool)' <=> WaitsFor(s, pool)
  BY <1>1 DEF Owned, Counted, WaitsFor, At, QueuedOrder
<1>4. /\ Owned(r) = OwnedAt(r, from) /\ Counted(r) = CountedAt(r, from)
  BY WhereItIs
<1>5. ASSUME NEW q \in Pools
      PROVE  Around(q)' = {s \in Requests : WaitsFor(s, q)'} /\ Conserved(q)'
  <2>1. /\ Around(q) = {s \in Requests : WaitsFor(s, q)}
        /\ Spare(q) + Cardinality(Owners(q)) = Permits(q)
        /\ queued[q] = Cardinality(Holders(q))
        /\ queued[q] \in Nat /\ queued'[q] \in Nat
    BY DEF Inv, Conserved
  <2>2. Around(q)' = {s \in Requests : WaitsFor(s, q)'}
    BY <1>2, <1>3, <2>1
  <2>3. /\ Cardinality(Owners(q)) \in Nat /\ Cardinality(Owners(q)') \in Nat
        /\ Cardinality(Owners(q)') + One(q \in OwnedAt(r, from))
             = Cardinality(Owners(q)) + One(q \in OwnedAt(r, step))
    <3>1. /\ Owners(q) \in SUBSET Requests /\ Owners(q)' \in SUBSET Requests
          /\ \A s \in Requests : s # r => (s \in Owners(q) <=> s \in Owners(q)')
          /\ r \in Owners(q) <=> q \in OwnedAt(r, from)
          /\ r \in Owners(q)' <=> q \in OwnedAt(r, step)
      BY <1>2, <1>3, <1>4 DEF Owners
    <3> QED
      BY <3>1, SetStep DEF One
  <2>4. /\ Cardinality(Holders(q)) \in Nat /\ Cardinality(Holders(q)') \in Nat
        /\ Cardinality(Holders(q)') + One(q \in CountedAt(r, from))
             = Cardinality(Holders(q)) + One(q \in CountedAt(r, step))
    <3>1. /\ Holders(q) \in SUBSET Requests /\ Holders(q)' \in SUBSET Requests
          /\ \A s \in Requests : s # r => (s \in Holders(q) <=> s \in Holders(q)')
          /\ r \in Holders(q) <=> q \in CountedAt(r, from)
          /\ r \in Holders(q)' <=> q \in CountedAt(r, step)
      BY <1>2, <1>3, <1>4 DEF Holders
    <3> QED
      BY <3>1, SetStep DEF One
  <2>5. Spare(q) \in Nat /\ Spare(q)' \in Nat
    <3>1. free[q] \in Nat /\ free'[q] \in Nat
      BY DEF Inv, SemaphoreTypes
    <3>2. granted[q] \in SUBSET Requests /\ granted'[q] \in SUBSET Requests
      BY DEF Inv, SemaphoreTypes
    <3>3. Cardinality(granted[q]) \in Nat /\ Cardinality(granted'[q]) \in Nat
      BY <3>2, AdmissionAssumption, FS_Subset, FS_CardinalityType
    <3> QED
      BY <3>1, <3>3 DEF Spare
  <2>6. \A b : One(b) \in {0, 1}
    BY DEF One
  <2>7. Spare(q)' + Cardinality(Owners(q)') = Permits(q)
    BY <2>1, <2>3, <2>5, <2>6
  <2>8. queued'[q] = Cardinality(Holders(q)')
    BY <2>1, <2>4, <2>6
  <2> QED
    BY <2>2, <2>7, <2>8 DEF Conserved
<1> QED
  BY <1>1, <1>5 DEF Inv
-----------------------------------------------------------------------------
(* Every step keeps the invariant. *)

LEMMA Facts ==
  ASSUME Inv, NEW r \in Requests
  PROVE  /\ SemaphoreTypes
         /\ BindingOf[r] \in Pools /\ Global \in Pools /\ BindingOf[r] # Global
         /\ QueuedOrder(r)[1] = BindingOf[r] /\ QueuedOrder(r)[2] = Global
         /\ queued \in [Pools -> Nat]
         /\ \A q \in Pools :
              /\ Sound(q) /\ Spare(q) \in Nat
              /\ queued[q] \in Nat /\ queued[q] <= Places(q)
              /\ r \in Around(q) <=> q \in WaitsAt(r, pc[r])
<1>1. ASSUME NEW q \in Pools PROVE Spare(q) \in Nat
  BY <1>1, GrantedFinite DEF Inv, SemaphoreTypes, Spare
<1>2. BindingOf[r] \in Bindings /\ Global \notin Bindings
  BY AdmissionAssumption
<1>3. \A q \in Pools : r \in Around(q) <=> q \in WaitsAt(r, pc[r])
  BY WhereItIs DEF Inv
<1> QED
  BY <1>1, <1>2, <1>3 DEF Inv, Conserved, Pools, QueuedOrder

\* The request goes on and leaves the semaphores alone.
LEMMA SemaphoresStay ==
  ASSUME Inv, UNCHANGED semaphores
  PROVE  /\ SemaphoreTypes'
         /\ \A q \in Pools : Sound(q)' /\ Around(q)' = Around(q) /\ Spare(q)' = Spare(q)
BY DEF Inv, semaphores, SemaphoreTypes, Sound, Around, Spare

LEMMA TryInv ==
  ASSUME Inv, NEW r \in Requests, TryBinding(r) \/ TryGlobal(r)
  PROVE  Inv'
<1> USE DEF OwnedAt, CountedAt, WaitsAt, Steps, One
<1>1. CASE TryBinding(r) /\ Take(BindingOf[r]) /\ GoTo(r, "try_global")
  <2>1. pc[r] = "new" /\ UNCHANGED queued
    BY <1>1 DEF TryBinding, At
  <2>2. /\ SemaphoreTypes'
        /\ \A q \in Pools : /\ Sound(q)' /\ Around(q)' = Around(q)
                            /\ Spare(q)' = Spare(q) - One(q = BindingOf[r])
    BY <1>1, Facts, TakeEffect
  <2> QED
    BY <1>1, <2>1, <2>2, Facts, Advance
<1>2. CASE TryBinding(r) /\ GoTo(r, "enter") /\ UNCHANGED semaphores
  <2>1. pc[r] = "new" /\ UNCHANGED queued
    BY <1>2 DEF TryBinding, At
  <2> QED
    BY <1>2, <2>1, SemaphoresStay, Facts, Advance
<1>3. CASE TryGlobal(r) /\ Take(Global) /\ GoTo(r, "running")
  <2>1. pc[r] = "try_global" /\ UNCHANGED queued
    BY <1>3 DEF TryGlobal, At
  <2>2. /\ SemaphoreTypes'
        /\ \A q \in Pools : /\ Sound(q)' /\ Around(q)' = Around(q)
                            /\ Spare(q)' = Spare(q) - One(q = Global)
    BY <1>3, Facts, TakeEffect
  <2> QED
    BY <1>3, <2>1, <2>2, Facts, Advance
<1>4. CASE TryGlobal(r) /\ GoTo(r, "enter") /\ GiveBack(BindingOf[r], {})
  <2>1. pc[r] = "try_global" /\ UNCHANGED queued
    BY <1>4 DEF TryGlobal, At
  <2>2. /\ SemaphoreTypes'
        /\ \A q \in Pools : /\ Sound(q)' /\ Around(q)' = Around(q)
                            /\ Spare(q)' = Spare(q) + One(q = BindingOf[r])
    BY <1>4, Facts, ReturnEffect
  <2> QED
    BY <1>4, <2>1, <2>2, Facts, Advance
<1> QED
  BY <1>1, <1>2, <1>3, <1>4 DEF TryBinding, TryGlobal

\* The counter of a queue in which a request has a place is not zero.
LEMMA HasPlace ==
  ASSUME Inv, NEW r \in Requests, NEW pool \in Pools, pool \in CountedAt(r, pc[r])
  PROVE  queued[pool] >= 1
<1>1. r \in Holders(pool)
  BY WhereItIs DEF Holders
<1>2. Holders(pool) \in SUBSET Requests
  BY DEF Holders
<1>3. Cardinality(Holders(pool)) + One(r \in {}) = Cardinality(Holders(pool) \ {r}) + One(r \in Holders(pool))
      /\ Cardinality(Holders(pool) \ {r}) \in Nat
  BY <1>1, <1>2, SetStep DEF One
<1>4. queued[pool] = Cardinality(Holders(pool)) /\ queued[pool] \in Nat
  BY DEF Inv, Conserved
<1> QED
  BY <1>1, <1>3, <1>4 DEF One

LEMMA CountEffect ==
  ASSUME Inv, NEW pool \in Pools, queued[pool] < Places(pool),
         queued' = [queued EXCEPT ![pool] = @ + 1]
  PROVE  /\ queued' \in [Pools -> Nat]
         /\ \A q \in Pools : queued'[q] = queued[q] + One(q = pool) /\ queued'[q] <= Places(q)
<1>1. queued \in [Pools -> Nat]
  BY DEF Inv
<1>2. \A q \in Pools : queued[q] \in Nat /\ queued[q] <= Places(q) /\ Places(q) \in Nat
  BY AdmissionAssumption DEF Inv, Conserved, Places
<1> QED
  BY <1>1, <1>2 DEF One

LEMMA UncountEffect ==
  ASSUME Inv, NEW pool \in Pools, queued[pool] >= 1,
         queued' = [queued EXCEPT ![pool] = @ - 1]
  PROVE  /\ queued' \in [Pools -> Nat]
         /\ \A q \in Pools : queued'[q] = queued[q] - One(q = pool) /\ queued'[q] <= Places(q)
<1>1. queued \in [Pools -> Nat]
  BY DEF Inv
<1>2. \A q \in Pools : queued[q] \in Nat /\ queued[q] <= Places(q) /\ Places(q) \in Nat
  BY AdmissionAssumption DEF Inv, Conserved, Places
<1> QED
  BY <1>1, <1>2 DEF One

\* A request enters a queue, or finds it full.
LEMMA EnterInv ==
  ASSUME Inv, NEW r \in Requests, Enter(r) \/ EnterBinding(r)
  PROVE  Inv'
<1> USE DEF OwnedAt, CountedAt, WaitsAt, Steps, One
<1>1. CASE Enter(r)
  <2>1. pc[r] = "enter" /\ UNCHANGED semaphores /\ Count(r, Global, "enter_binding", "rejected")
    BY <1>1 DEF Enter, At
  <2>2. CASE queued[Global] < Places(Global)
    <3>1. GoTo(r, "enter_binding") /\ queued' = [queued EXCEPT ![Global] = @ + 1]
      BY <2>1, <2>2, Facts, AdmissionAssumption DEF Count, Places
    <3>2. /\ queued' \in [Pools -> Nat]
          /\ \A q \in Pools : queued'[q] = queued[q] + One(q = Global) /\ queued'[q] <= Places(q)
      BY <2>2, <3>1, Facts, CountEffect
    <3> QED
      BY <2>1, <3>1, <3>2, SemaphoresStay, Facts, Advance
  <2>3. CASE ~(queued[Global] < Places(Global))
    <3>1. GoTo(r, "rejected") /\ UNCHANGED queued
      BY <2>1, <2>3 DEF Count
    <3> QED
      BY <2>1, <3>1, SemaphoresStay, Facts, Advance
  <2> QED
    BY <2>2, <2>3
<1>2. CASE EnterBinding(r)
  <2> DEFINE B == BindingOf[r]
  <2>1. pc[r] = "enter_binding" /\ UNCHANGED semaphores /\ Count(r, B, "want_1", "unenter")
    BY <1>2 DEF EnterBinding, At
  <2>2. CASE queued[B] < Places(B)
    <3>1. GoTo(r, "want_1") /\ queued' = [queued EXCEPT ![B] = @ + 1]
      BY <2>1, <2>2, Facts, AdmissionAssumption DEF Count, Places
    <3>2. /\ queued' \in [Pools -> Nat]
          /\ \A q \in Pools : queued'[q] = queued[q] + One(q = B) /\ queued'[q] <= Places(q)
      BY <2>2, <3>1, Facts, CountEffect
    <3> QED
      BY <2>1, <3>1, <3>2, SemaphoresStay, Facts, Advance
  <2>3. CASE ~(queued[B] < Places(B))
    <3>1. GoTo(r, "unenter") /\ UNCHANGED queued
      BY <2>1, <2>3 DEF Count
    <3> QED
      BY <2>1, <3>1, SemaphoresStay, Facts, Advance
  <2> QED
    BY <2>2, <2>3
<1> QED
  BY <1>1, <1>2

\* A request gives up its place in a queue.
LEMMA LeaveInv ==
  ASSUME Inv, NEW r \in Requests, Unenter(r) \/ Leave(r)
  PROVE  Inv'
<1> USE DEF OwnedAt, CountedAt, WaitsAt, Steps, One
<1>1. ASSUME NEW pool \in {Global, BindingOf[r]}, NEW step \in Steps, UNCHANGED semaphores,
             Uncount(r, pool, step), pool \in CountedAt(r, pc[r]),
             CountedAt(r, step) = CountedAt(r, pc[r]) \ {pool},
             OwnedAt(r, step) = OwnedAt(r, pc[r]),
             WaitsAt(r, step) = {}, WaitsAt(r, pc[r]) = {}
      PROVE  Inv'
  <2> USE DEF One
  <2>1. pool \in Pools
    BY Facts
  <2>2. GoTo(r, step) /\ queued' = [queued EXCEPT ![pool] = @ - 1]
    BY <1>1 DEF Uncount
  <2>3. /\ queued' \in [Pools -> Nat]
        /\ \A q \in Pools : queued'[q] = queued[q] - One(q = pool) /\ queued'[q] <= Places(q)
    BY <1>1, <2>1, <2>2, HasPlace, UncountEffect
  <2> HIDE DEF OwnedAt, CountedAt, WaitsAt, Steps
  <2>4. \A q \in Pools : queued'[q] + One(q \in CountedAt(r, pc[r])) = queued[q] + One(q \in CountedAt(r, step))
    BY <1>1, <2>1, <2>3, Facts
  <2> QED
    BY <1>1, <2>2, <2>3, <2>4, SemaphoresStay, Facts, Advance
<1>2. CASE Unenter(r)
  BY <1>1, <1>2, Facts DEF Unenter, At
<1>3. CASE Leave(r)
  <2>1. CASE At(r, "admitted") /\ Uncount(r, Global, "admitted_binding")
    BY <1>1, <1>3, <2>1, Facts DEF Leave, At
  <2>2. CASE At(r, "admitted_binding") /\ Uncount(r, BindingOf[r], "running")
    BY <1>1, <1>3, <2>2, Facts DEF Leave, At
  <2>3. CASE At(r, "leave") /\ Uncount(r, Global, "leave_binding")
    BY <1>1, <1>3, <2>3, Facts DEF Leave, At
  <2>4. CASE At(r, "leave_binding") /\ Uncount(r, BindingOf[r], "expired")
    BY <1>1, <1>3, <2>4, Facts DEF Leave, At
  <2> QED
    BY <1>3, <2>1, <2>2, <2>3, <2>4 DEF Leave
<1> QED
  BY <1>2, <1>3

\* A queued request takes its permits, or waits for them.
LEMMA WantInv ==
  ASSUME Inv, NEW r \in Requests, WantFirst(r) \/ WantSecond(r)
  PROVE  Inv'
<1> USE DEF OwnedAt, CountedAt, WaitsAt, Steps, One
<1> DEFINE B == BindingOf[r]
<1>1. CASE WantFirst(r)
  <2>1. pc[r] = "want_1" /\ UNCHANGED queued
    BY <1>1 DEF WantFirst, At
  <2>2. CASE Take(B) /\ GoTo(r, "want_2")
    <3>1. /\ SemaphoreTypes'
          /\ \A q \in Pools : /\ Sound(q)' /\ Around(q)' = Around(q)
                              /\ Spare(q)' = Spare(q) - One(q = B)
      BY <2>2, Facts, TakeEffect
    <3> QED
      BY <2>1, <2>2, <3>1, Facts, Advance
  <2>3. CASE Wait(r, B) /\ GoTo(r, "wait_1")
    <3>1. /\ SemaphoreTypes'
          /\ \A q \in Pools : /\ Sound(q)' /\ Spare(q)' = Spare(q)
                              /\ Around(q)' = Around(q) \cup (IF q = B THEN {r} ELSE {})
      BY <2>1, <2>3, Facts, WaitEffect
    <3> QED
      BY <2>1, <2>3, <3>1, Facts, Advance
  <2> QED
    BY <1>1, <2>2, <2>3, Facts DEF WantFirst
<1>2. CASE WantSecond(r)
  <2>1. pc[r] = "want_2" /\ UNCHANGED queued
    BY <1>2 DEF WantSecond, At
  <2>2. CASE Take(Global) /\ GoTo(r, "admitted")
    <3>1. /\ SemaphoreTypes'
          /\ \A q \in Pools : /\ Sound(q)' /\ Around(q)' = Around(q)
                              /\ Spare(q)' = Spare(q) - One(q = Global)
      BY <2>2, Facts, TakeEffect
    <3> QED
      BY <2>1, <2>2, <3>1, Facts, Advance
  <2>3. CASE Wait(r, Global) /\ GoTo(r, "wait_2")
    <3>1. /\ SemaphoreTypes'
          /\ \A q \in Pools : /\ Sound(q)' /\ Spare(q)' = Spare(q)
                              /\ Around(q)' = Around(q) \cup (IF q = Global THEN {r} ELSE {})
      BY <2>1, <2>3, Facts, WaitEffect
    <3> QED
      BY <2>1, <2>3, <3>1, Facts, Advance
  <2> QED
    BY <1>2, <2>2, <2>3, Facts DEF WantSecond
<1> QED
  BY <1>1, <1>2

\* A request is woken, or gives up.
LEMMA WaitEndsInv ==
  ASSUME Inv, NEW r \in Requests, Wake(r) \/ Abandon(r)
  PROVE  Inv'
<1> USE DEF OwnedAt, CountedAt, WaitsAt, Steps, One
<1>1. ASSUME NEW pool \in {BindingOf[r], Global}, NEW step \in Steps, Polled(r, pool, step),
             WaitsAt(r, pc[r]) = {pool}, WaitsAt(r, step) = {}, pool \notin OwnedAt(r, pc[r]),
             OwnedAt(r, step) = OwnedAt(r, pc[r]) \cup {pool},
             CountedAt(r, step) = CountedAt(r, pc[r])
      PROVE  Inv'
  <2>1. /\ r \in granted[pool] /\ granted' = [granted EXCEPT ![pool] = @ \ {r}]
        /\ GoTo(r, step) /\ UNCHANGED <<free, waiters, queued>>
    BY <1>1 DEF Polled
  <2>2. pool \in Pools
    BY Facts
  <2>3. /\ SemaphoreTypes'
        /\ \A q \in Pools : /\ Sound(q)'
                            /\ Around(q)' = Around(q) \ (IF q = pool THEN {r} ELSE {})
                            /\ Spare(q)' = Spare(q) - One(q = pool)
    BY <2>1, <2>2, Facts, PollEffect
  <2> HIDE DEF OwnedAt, CountedAt, WaitsAt, Steps
  <2>4. \A q \in Pools :
          /\ Spare(q)' + One(q \in OwnedAt(r, step)) = Spare(q) + One(q \in OwnedAt(r, pc[r]))
          /\ Around(q)' = (Around(q) \ {r}) \cup (IF q \in WaitsAt(r, step) THEN {r} ELSE {})
    BY <1>1, <2>3, Facts
  <2> QED
    BY <1>1, <2>1, <2>3, <2>4, Facts, Advance
<1>2. CASE Wake(r)
  BY <1>1, <1>2, Facts DEF Wake, At
<1>3. ASSUME NEW pool \in {BindingOf[r], Global}, NEW step \in Steps, Withdraw(r, pool),
             GoTo(r, step), UNCHANGED queued,
             WaitsAt(r, pc[r]) = {pool}, WaitsAt(r, step) = {},
             OwnedAt(r, step) = OwnedAt(r, pc[r]),
             CountedAt(r, step) = CountedAt(r, pc[r])
      PROVE  Inv'
  <2>1. pool \in Pools /\ r \in Around(pool)
    BY <1>3, Facts
  <2>2. /\ SemaphoreTypes'
        /\ \A q \in Pools : /\ Sound(q)'
                            /\ Around(q)' = Around(q) \ (IF q = pool THEN {r} ELSE {})
                            /\ Spare(q)' = Spare(q)
    BY <1>3, <2>1, Facts, WithdrawEffect
  <2> HIDE DEF OwnedAt, CountedAt, WaitsAt, Steps
  <2>3. \A q \in Pools :
          Around(q)' = (Around(q) \ {r}) \cup (IF q \in WaitsAt(r, step) THEN {r} ELSE {})
    BY <1>3, <2>2, Facts
  <2> QED
    BY <1>3, <2>2, <2>3, Facts, Advance
<1>4. CASE Abandon(r)
  BY <1>3, <1>4, Facts DEF Abandon, At
<1> QED
  BY <1>2, <1>4

\* A request gives back a permit.
LEMMA DropInv ==
  ASSUME Inv, NEW r \in Requests, DropFirst(r) \/ Finish(r) \/ DropGlobal(r)
  PROVE  Inv'
<1> USE DEF OwnedAt, CountedAt, WaitsAt, Steps, One
<1>1. ASSUME NEW pool \in {BindingOf[r], Global}, NEW step \in Steps, GiveBack(pool, {}),
             GoTo(r, step), UNCHANGED queued,
             WaitsAt(r, pc[r]) = {}, WaitsAt(r, step) = {}, pool \in OwnedAt(r, pc[r]),
             OwnedAt(r, step) = OwnedAt(r, pc[r]) \ {pool},
             CountedAt(r, step) = CountedAt(r, pc[r])
      PROVE  Inv'
  <2>1. pool \in Pools
    BY Facts
  <2>2. /\ SemaphoreTypes'
        /\ \A q \in Pools : /\ Sound(q)' /\ Around(q)' = Around(q)
                            /\ Spare(q)' = Spare(q) + One(q = pool)
    BY <1>1, <2>1, Facts, ReturnEffect
  <2> HIDE DEF OwnedAt, CountedAt, WaitsAt, Steps
  <2>3. \A q \in Pools :
          /\ Spare(q)' + One(q \in OwnedAt(r, step)) = Spare(q) + One(q \in OwnedAt(r, pc[r]))
          /\ Around(q)' = (Around(q) \ {r}) \cup (IF q \in WaitsAt(r, step) THEN {r} ELSE {})
    BY <1>1, <2>2, Facts
  <2> QED
    BY <1>1, <2>2, <2>3, Facts, Advance
<1>2. CASE DropFirst(r)
  BY <1>1, <1>2, Facts DEF DropFirst, At
<1>3. CASE Finish(r)
  BY <1>1, <1>3, Facts DEF Finish, At
<1>4. CASE DropGlobal(r)
  BY <1>1, <1>4, Facts DEF DropGlobal, At
<1> QED
  BY <1>2, <1>3, <1>4
-----------------------------------------------------------------------------
(* The theorems *)

LEMMA InitInv ==
  ASSUME AdmissionInit
  PROVE  Inv
<1>1. /\ pc \in [Requests -> Steps] /\ \A r \in Requests : pc[r] = "new"
      /\ \A q \in Pools : /\ free[q] = Permits(q) /\ waiters[q] = <<>> /\ granted[q] = {}
                          /\ queued[q] = 0
      /\ waiters \in [Pools -> Seq(Requests)] /\ granted \in [Pools -> SUBSET Requests]
      /\ queued \in [Pools -> Nat]
  BY DEF AdmissionInit, Steps
<1>2. free \in [Pools -> Nat] /\ \A q \in Pools : Permits(q) \in Nat /\ Places(q) \in Nat
  BY AdmissionAssumption DEF AdmissionInit, Permits, Places
<1>3. \A r \in Requests, q \in Pools :
        ~WaitsFor(r, q) /\ q \notin Owned(r) /\ q \notin Counted(r)
  BY <1>1, WhereItIs DEF OwnedAt, CountedAt, WaitsAt
<1>4. \A q \in Pools : Owners(q) = {} /\ Holders(q) = {} /\ {r \in Requests : WaitsFor(r, q)} = {}
  BY <1>3 DEF Owners, Holders
<1>5. ASSUME NEW q \in Pools
      PROVE  Sound(q) /\ Around(q) = {} /\ Conserved(q)
  <2>1. InLine(<<>>) = {} /\ Distinct(<<>>)
    BY DEF InLine, Distinct
  <2>2. Cardinality({}) = 0
    BY FS_EmptySet
  <2>3. free[q] = Permits(q) /\ waiters[q] = <<>> /\ granted[q] = {} /\ queued[q] = 0
    BY <1>1
  <2>4. Permits(q) \in Nat /\ Places(q) \in Nat
    BY <1>2
  <2>5. Sound(q)
    BY <2>1, <2>3 DEF Sound
  <2>6. Around(q) = {}
    BY <2>1, <2>3 DEF Around
  <2>7. Spare(q) = Permits(q)
    BY <2>2, <2>3, <2>4 DEF Spare
  <2>8. Cardinality(Owners(q)) = 0 /\ Cardinality(Holders(q)) = 0
    BY <1>4, <2>2
  <2>9. Conserved(q)
    BY <2>3, <2>4, <2>7, <2>8 DEF Conserved
  <2> QED
    BY <2>5, <2>6, <2>9
<1> QED
  BY <1>1, <1>2, <1>4, <1>5 DEF Inv, SemaphoreTypes

LEMMA InductiveStep ==
  ASSUME Inv, [AdmissionNext]_admissionVars
  PROVE  Inv'
<1>1. CASE UNCHANGED admissionVars
  BY <1>1 DEF admissionVars, Inv, SemaphoreTypes, Sound, Around, Conserved, Spare, Owners, Holders,
              Owned, Counted, WaitsFor, At, QueuedOrder
<1>2. ASSUME NEW r \in Requests, Proceed(r) \/ Abandon(r)
      PROVE  Inv'
  BY <1>2, TryInv, EnterInv, LeaveInv, WantInv, WaitEndsInv, DropInv DEF Proceed
<1> QED
  BY <1>1, <1>2 DEF AdmissionNext

LEMMA Invariance == AdmissionSpec => []Inv
<1>1. AdmissionInit => Inv
  BY InitInv
<1>2. Inv /\ [AdmissionNext]_admissionVars => Inv'
  BY InductiveStep
<1> QED
  BY <1>1, <1>2, PTL DEF AdmissionSpec

\* Permits and places in the queues are neither lost nor made, whoever is
\* cancelled, times out or is woken between two steps of another: the guards
\* and permits of server.rs give back what they hold, once.
THEOREM NothingIsLost == AdmissionSpec => []PermitsConserved
<1>1. ASSUME Inv PROVE PermitsConserved
  <2>1. AdmissionTypeOK
    BY <1>1 DEF Inv, SemaphoreTypes, AdmissionTypeOK
  <2>2. ASSUME NEW pool \in Pools
        PROVE  /\ free[pool] + Cardinality(granted[pool])
                    + Cardinality({r \in Requests : pool \in Owned(r)}) = Permits(pool)
               /\ queued[pool] = Cardinality({r \in Requests : pool \in Counted(r)})
               /\ queued[pool] <= Places(pool)
    BY <1>1 DEF Inv, Conserved, Spare, Owners, Holders
  <2> QED
    BY <2>1, <2>2 DEF PermitsConserved
<1> QED
  BY <1>1, Invariance, PTL

\* In a state where nothing moves by itself, no permit of a pool that
\* somebody waits for is free or on its way.
LEMMA AllIsOwned ==
  ASSUME Inv, Quiet, NEW r \in Requests, Waiting(r), NEW pool \in Pools, WaitsFor(r, pool)
  PROVE  Cardinality(Owners(pool)) = Permits(pool)
<1>1. /\ r \in Around(pool) /\ Sound(pool) /\ Conserved(pool)
      /\ granted[pool] \subseteq Requests
      /\ \A s \in granted[pool] : WaitsFor(s, pool)
  BY DEF Inv, SemaphoreTypes, Around
<1>2. granted[pool] = {}
  <2> SUFFICES ASSUME NEW s \in granted[pool] PROVE FALSE
    OBVIOUS
  <2>1. WaitsFor(s, pool) /\ s \in Requests
    BY <1>1
  <2>2. Waiting(s)
    BY <2>1 DEF WaitsFor, Quiet, At
  <2>3. \/ At(s, "wait_1") /\ s \notin granted[QueuedOrder(s)[1]]
        \/ At(s, "wait_2") /\ s \notin granted[QueuedOrder(s)[2]]
    BY <2>2 DEF Waiting
  <2> QED
    BY <2>1, <2>3 DEF WaitsFor, At
<1>3. r \in InLine(waiters[pool])
  BY <1>1, <1>2 DEF Around
<1>4. waiters[pool] # <<>>
  BY <1>3 DEF InLine
<1>5. free[pool] = 0
  BY <1>1, <1>4 DEF Sound
<1>6. Cardinality(granted[pool]) = 0
  BY <1>2, FS_EmptySet
<1>7. Cardinality(Owners(pool)) \in Nat
  BY AdmissionAssumption, FS_Subset, FS_CardinalityType DEF Owners
<1> QED
  BY <1>1, <1>5, <1>6, <1>7 DEF Conserved, Spare

\* A request waits only while its binding or the whole Gateway runs as many
\* requests as it may: no permit is kept by one that waits for another, and
\* none is free while somebody waits (GatewayAdmissionPermits::acquire).
THEOREM NobodyWaitsInVain == AdmissionSpec => []WaitsOnlyWhenBusy
<1>1. ASSUME Inv, Quiet, NEW r \in Requests, Waiting(r)
      PROVE  \/ Running({q \in Requests : BindingOf[q] = BindingOf[r]}) = MaxInflightPerBinding
             \/ Running(Requests) = MaxInflight
  <2>1. /\ BindingOf[r] \in Pools /\ Global \in Pools /\ BindingOf[r] # Global
        /\ \A s \in Requests : BindingOf[s] # Global
    BY AdmissionAssumption DEF Pools
  <2>2. \A s \in Requests : Waiting(s) => WaitsFor(s, BindingOf[s]) \/ WaitsFor(s, Global)
    BY DEF Waiting, WaitsFor, QueuedOrder, At
  <2>3. \A s \in Requests : \/ pc[s] \in {"wait_1", "wait_2"}
                            \/ pc[s] \in {"new", "running", "served", "expired", "rejected"}
    BY <1>1 DEF Quiet, Waiting, At
  <2>4. \A s \in Requests : Global \in Owned(s) <=> At(s, "running")
    BY <2>1, <2>3, WhereItIs DEF OwnedAt, At
  <2>5. CASE \E s \in Requests : Waiting(s) /\ WaitsFor(s, Global)
    <3>1. Cardinality(Owners(Global)) = MaxInflight
      BY <1>1, <2>1, <2>5, AllIsOwned DEF Permits
    <3>2. Owners(Global) = {s \in Requests : At(s, "running")}
      BY <2>4 DEF Owners
    <3> QED
      BY <3>1, <3>2 DEF Running
  <2>6. CASE \A s \in Requests : Waiting(s) => ~WaitsFor(s, Global)
    <3>1. Cardinality(Owners(BindingOf[r])) = MaxInflightPerBinding
      BY <1>1, <2>1, <2>2, <2>6, AllIsOwned DEF Permits
    <3>2. \A s \in Requests : pc[s] # "wait_2"
      <4> SUFFICES ASSUME NEW s \in Requests, pc[s] = "wait_2" PROVE FALSE
        OBVIOUS
      <4>1. Waiting(s) /\ WaitsFor(s, Global)
        BY <1>1 DEF Quiet, WaitsFor, At, QueuedOrder
      <4> QED
        BY <2>6, <4>1
    <3>3. \A s \in Requests :
            BindingOf[r] \in Owned(s) <=> At(s, "running") /\ BindingOf[s] = BindingOf[r]
      BY <2>1, <2>3, <3>2, WhereItIs DEF OwnedAt, At
    <3>4. Owners(BindingOf[r])
            = {s \in {q \in Requests : BindingOf[q] = BindingOf[r]} : At(s, "running")}
      BY <3>3 DEF Owners
    <3> QED
      BY <3>1, <3>4 DEF Running
  <2> QED
    BY <2>5, <2>6
<1>2. Inv => WaitsOnlyWhenBusy
  BY <1>1 DEF WaitsOnlyWhenBusy
<1> QED
  BY <1>2, Invariance, PTL

-----------------------------------------------------------------------------
(* The claim (GatewayClaim) *)

Holding == {"claimed", "listening", "serving", "draining", "closed"}
Attended(p) == procs[p].phase \in Holding /\ ~Orphan(p)

Claims == [port : Ports \cup {None}, pid : Pids \cup {None}]

Processes == [phase : {"gone", "stranger", "spawned", "loaded"} \cup Holding,
              parent : Agents \cup {System, None}, tracked : BOOLEAN,
              port : Ports \cup {None}, nonce : {"none", "some", "max"}, asked : BOOLEAN]

AgentLocals == [phase : {"idle", "off", "failed", "loaded", "clearing", "validating", "reserved",
                         "verifying", "codex", "stopping"},
                failures : 0..(MaxRestarts + 1), tries : Nat,
                child : Pids \cup {None}, seen : Claims]

ProcsOK == procs \in [Pids -> Processes]

\* failure_delay: whoever failed too often has ended.
EndsInTime(q) == q.failures > MaxRestarts => q.phase \in {"failed", "off"}

AgentsOK == agents \in [Agents -> AgentLocals] /\ \A a \in Agents : EndsInTime(agents[a])

StateOK ==
  /\ state \in Claims /\ state.port \in Ports
  /\ current \subseteq Pids \cup Agents /\ socket \in Pids \cup {None}

\* What an agent is about to clear with a current snapshot is not the claim of
\* an attended sidecar.
ClearsNoneAttended ==
  \A a \in Agents :
    agents[a].phase = "clearing" /\ a \in current /\ agents[a].seen.pid # None =>
      ~Attended(agents[a].seen.pid)

AttendedHasClaim == \A p \in Pids : Attended(p) => state.pid = p

ClaimInv == ProcsOK /\ AgentsOK /\ StateOK /\ AttendedHasClaim /\ ClearsNoneAttended
-----------------------------------------------------------------------------
(* Processes *)

\* No sidecar becomes an attended one.
NoneNew ==
  \A p \in Pids : procs'[p].phase \in Holding /\ procs'[p].parent # System => Attended(p)

LEMMA PutProcess ==
  ASSUME ProcsOK, NEW p, NEW q \in Processes, procs' = [procs EXCEPT ![p] = q],
         p \in Pids /\ q.phase \in Holding /\ q.parent # System => Attended(p)
  PROVE  ProcsOK' /\ NoneNew
BY DEF ProcsOK, NoneNew, Attended, Orphan

LEMMA BecomeKeeps ==
  ASSUME ProcsOK, NEW p \in Pids, Become(p, "loaded") \/ \E h \in Holding : Become(p, h),
         procs[p].phase \in Holding \/ procs'[p].phase = "loaded"
  PROVE  ProcsOK' /\ NoneNew
<1>1. PICK h \in {"loaded"} \cup Holding : procs' = [procs EXCEPT ![p].phase = h]
  BY DEF Become
<1> DEFINE q == [procs[p] EXCEPT !.phase = h]
<1>2. procs[p] \in Processes /\ procs' = [procs EXCEPT ![p] = q]
  BY <1>1 DEF ProcsOK
<1>3. q \in Processes /\ q.phase = h /\ q.parent = procs[p].parent
  BY <1>2 DEF Processes
<1>4. procs'[p] = q
  BY <1>2 DEF ProcsOK
<1>5. q.phase \in Holding /\ q.parent # System => Attended(p)
  BY <1>3, <1>4 DEF Attended, Orphan, Holding
<1> HIDE DEF q
<1> QED
  BY <1>2, <1>3, <1>5, PutProcess

LEMMA NoProcessIsOne == NoProcess \in Processes /\ NoProcess.phase = "gone"
BY DEF NoProcess, Processes, Holding

LEMMA EndKeeps ==
  ASSUME ProcsOK, NEW p, \/ End(p) /\ p \in Pids
                         \/ Waited(p)
  PROVE  ProcsOK' /\ NoneNew
<1>1. CASE End(p) /\ p \in Pids
  <2> DEFINE q == [NoProcess EXCEPT !.parent = procs[p].parent]
  <2>1. procs' = [procs EXCEPT ![p] = q]
    BY <1>1 DEF End
  <2>2. procs[p].parent \in Agents \cup {System, None}
    BY <1>1 DEF ProcsOK, Processes
  <2>3. q \in Processes /\ q.phase = "gone"
    BY <2>2 DEF NoProcess, Processes
  <2> HIDE DEF q
  <2> QED
    BY <2>1, <2>3, PutProcess DEF Holding
<1>2. CASE Waited(p)
  BY <1>2, NoProcessIsOne, PutProcess DEF Waited, Holding
<1> QED
  BY <1>1, <1>2

LEMMA HeardKeeps ==
  ASSUME ProcsOK, NEW nonce \in {"some", "max"}, NEW shutdown \in BOOLEAN, Heard(nonce, shutdown),
         socket \in Pids
  PROVE  ProcsOK' /\ NoneNew
<1>1. procs[socket] \in Processes
  BY DEF ProcsOK
<1>2. PICK asked : asked \in BOOLEAN /\ asked = (procs[socket].asked \/ shutdown)
  OBVIOUS
<1> DEFINE q == [procs[socket] EXCEPT !.nonce = nonce, !.asked = asked]
<1>3. procs' = [procs EXCEPT ![socket] = q]
  BY <1>2 DEF Heard
<1>4. q \in Processes /\ q.phase = procs[socket].phase /\ q.parent = procs[socket].parent
  BY <1>1, <1>2 DEF Processes
<1> HIDE DEF q
<1> QED
  BY <1>3, <1>4, PutProcess DEF Attended, Orphan

LEMMA OrphanedKeeps ==
  ASSUME ProcsOK, NEW a \in Agents, procs' = Orphaned(a)
  PROVE  ProcsOK' /\ NoneNew
<1> DEFINE q(p) == [procs[p] EXCEPT !.parent = System]
<1>1. \A p \in Pids : procs[p] \in Processes
  BY DEF ProcsOK
<1>2. \A p \in Pids : q(p) \in Processes /\ q(p).parent = System
  BY <1>1 DEF Processes
<1>3. procs' = [p \in Pids |-> IF procs[p].parent = a THEN q(p) ELSE procs[p]]
  BY DEF Orphaned
<1> HIDE DEF q
<1> QED
  BY <1>1, <1>2, <1>3 DEF ProcsOK, NoneNew, Attended, Orphan

LEMMA UnchangedKeeps ==
  ASSUME ProcsOK, UNCHANGED procs
  PROVE  ProcsOK' /\ NoneNew
BY DEF ProcsOK, NoneNew, Attended, Orphan

\* The step that makes a sidecar an attended one, unless it is an orphan.
Claiming(p) == SidecarClaim(p) /\ procs[p].phase = "loaded" /\ Claim(p) /\ Become(p, "claimed")

LEMMA SidecarProcs ==
  ASSUME ClaimInv, NEW p \in Pids, SidecarStep(p) \/ SidecarDies(p) \/ PidReused(p)
  PROVE  (ProcsOK' /\ NoneNew) \/ Claiming(p)
<1>1. ProcsOK /\ procs[p] \in Processes
  BY DEF ClaimInv, ProcsOK
<1>2. CASE SidecarLoad(p)
  <2>1. Become(p, "loaded") \/ End(p)
    BY <1>2 DEF SidecarLoad
  <2>2. Become(p, "loaded") => procs'[p].phase = "loaded"
    BY <1>1 DEF Become, ProcsOK, Processes
  <2> QED
    BY <1>1, <2>1, <2>2, BecomeKeeps, EndKeeps
<1>3. CASE SidecarClaim(p)
  BY <1>1, <1>3, EndKeeps DEF SidecarClaim, Claiming
<1>4. CASE SidecarListen(p) \/ SidecarStop(p) \/ SidecarClose(p)
  <2>1. procs[p].phase \in Holding
    BY <1>4 DEF SidecarListen, SidecarStop, SidecarClose, Holding
  <2>2. End(p) \/ \E h \in Holding : Become(p, h)
    BY <1>4 DEF SidecarListen, SidecarStop, SidecarClose, Holding
  <2> QED
    BY <1>1, <2>1, <2>2, BecomeKeeps, EndKeeps
<1>5. CASE SidecarServe(p)
  <2>1. PICK t : t \in BOOLEAN /\ t = ~Orphan(p)
    BY DEF Orphan
  <2> DEFINE q == [procs[p] EXCEPT !.phase = "serving", !.tracked = t]
  <2>2. procs' = [procs EXCEPT ![p] = q]
    BY <1>1, <1>5, <2>1 DEF SidecarServe, ProcsOK
  <2>3. q \in Processes /\ q.parent = procs[p].parent
    BY <1>1, <2>1 DEF Processes, Holding
  <2>4. procs[p].phase \in Holding
    BY <1>5 DEF SidecarServe, Holding
  <2> HIDE DEF q
  <2> QED
    BY <1>1, <2>2, <2>3, <2>4, PutProcess DEF Attended, Orphan
<1>6. CASE SidecarRelease(p) \/ SidecarDies(p)
  BY <1>1, <1>6, EndKeeps DEF SidecarRelease, SidecarDies
<1>7. CASE PidReused(p)
  <2> DEFINE q == [NoProcess EXCEPT !.phase = "stranger", !.parent = None]
  <2>1. procs' = [procs EXCEPT ![p] = q]
    BY <1>7 DEF PidReused
  <2>2. q \in Processes /\ q.phase = "stranger"
    BY DEF NoProcess, Processes
  <2> HIDE DEF q
  <2> QED
    BY <1>1, <2>1, <2>2, PutProcess DEF Holding
<1> QED
  BY <1>2, <1>3, <1>4, <1>5, <1>6, <1>7 DEF SidecarStep

LEMMA AgentProcs ==
  ASSUME ClaimInv, NEW a \in Agents,
         AgentStep(a) \/ CodexEnds(a) \/ Launch(a) \/ LauncherDies(a)
  PROVE  ProcsOK' /\ NoneNew
<1>1. ProcsOK /\ agents[a] \in AgentLocals /\ socket \in Pids \cup {None}
  BY DEF ClaimInv, AgentsOK, StateOK
<1>2. CASE UNCHANGED procs
  BY <1>1, <1>2, UnchangedKeeps
<1>3. CASE Spawn(a) /\ procs' # procs
  <2>1. PICK p \in Pids :
          procs' = [procs EXCEPT ![p] = [NoProcess EXCEPT !.phase = "spawned", !.parent = a,
                                                          !.port = agents[a].seen.port]]
    BY <1>3 DEF Spawn, FreePids
  <2> DEFINE q == [NoProcess EXCEPT !.phase = "spawned", !.parent = a,
                                    !.port = agents[a].seen.port]
  <2>2. agents[a].seen.port \in Ports \cup {None}
    BY <1>1 DEF AgentLocals, Claims
  <2>3. q \in Processes /\ q.phase = "spawned"
    BY <2>2 DEF NoProcess, Processes
  <2> HIDE DEF q
  <2> QED
    BY <1>1, <2>1, <2>3, PutProcess DEF Holding, q
<1>4. CASE \E nonce \in {"some", "max"}, shutdown \in BOOLEAN :
             Accepts(nonce) /\ Heard(nonce, shutdown)
  BY <1>1, <1>4, HeardKeeps DEF Accepts, ControlLive
<1>5. CASE \E p : Waited(p)
  BY <1>1, <1>5, EndKeeps
<1>6. CASE LauncherDies(a)
  BY <1>1, <1>6, OrphanedKeeps DEF LauncherDies
<1>7. \/ UNCHANGED procs \/ Spawn(a) \/ LauncherDies(a) \/ \E p : Waited(p)
      \/ \E nonce \in {"some", "max"}, shutdown \in BOOLEAN : Accepts(nonce) /\ Heard(nonce, shutdown)
  BY DEF AgentStep, Load, Inspect, Clear, Validate, Verify, GiveUp, ChildEnds, CodexEnds, Launch
<1> QED
  BY <1>2, <1>3, <1>4, <1>5, <1>6, <1>7

LEMMA ExitProcs ==
  ASSUME ClaimInv, ExitBegins \/ ExitStep \/ AppEnds \/ AppStarts
  PROVE  ProcsOK' /\ NoneNew
<1>1. ProcsOK /\ socket \in Pids \cup {None}
  BY DEF ClaimInv, StateOK
<1>2. CASE ExitBegins \/ AppStarts \/ ExitWaits
  BY <1>1, <1>2, UnchangedKeeps DEF ExitBegins, AppStarts, ExitWaits
<1>3. CASE ExitAsks
  <2>1. UNCHANGED procs \/ (socket \in Pids /\ Heard("some", TRUE))
    BY <1>1, <1>3 DEF ExitAsks, Accepts, ControlLive
  <2> QED
    BY <1>1, <2>1, UnchangedKeeps, HeardKeeps
<1>4. CASE ExitTerminates
  <2>1. UNCHANGED procs \/ End(leaving.pid)
    BY <1>4 DEF ExitTerminates
  <2>2. leaving.pid \notin Pids /\ End(leaving.pid) => UNCHANGED procs
    BY <1>1 DEF End, ProcsOK
  <2> QED
    BY <1>1, <2>1, <2>2, UnchangedKeeps, EndKeeps
<1>5. CASE AppEnds
  BY <1>1, <1>5, OrphanedKeeps DEF AppEnds, Agents
<1> QED
  BY <1>2, <1>3, <1>4, <1>5 DEF ExitStep

\* Whoever acts, no sidecar becomes an attended one but by claiming the state.
LEMMA ProcsStep ==
  ASSUME ClaimInv, [Next]_vars
  PROVE  (ProcsOK' /\ NoneNew) \/ \E p \in Pids : Claiming(p)
<1>1. CASE \/ UNCHANGED vars \/ ChangeNeed \/ \E port \in Ports : MovePort(port)
  BY <1>1, UnchangedKeeps DEF vars, ChangeNeed, MovePort, ClaimInv
<1> QED
  BY <1>1, SidecarProcs, AgentProcs, ExitProcs DEF Next
-----------------------------------------------------------------------------
(* Supervisor and launchers *)

LEMMA PutAgent ==
  ASSUME AgentsOK, NEW a \in Agents, NEW q \in AgentLocals, EndsInTime(q), Put(a, q)
  PROVE  AgentsOK' /\ \A b \in Agents : agents'[b] = IF b = a THEN q ELSE agents[b]
BY DEF AgentsOK, Put

\* An agent that starts anew, or has ended.
LEMMA AnewIsLocals ==
  ASSUME NEW phase \in {"idle", "off", "codex"}, NEW child \in Pids \cup {None},
         NEW failures \in 0..(MaxRestarts + 1), failures > MaxRestarts => phase = "off",
         NEW q, q = [phase |-> phase, failures |-> failures, tries |-> 0, child |-> child,
                     seen |-> Nothing]
  PROVE  q \in AgentLocals /\ EndsInTime(q) /\ q.phase = phase
<1>1. Nothing \in Claims
  BY DEF Nothing, Claims
<1> QED
  BY <1>1, ClaimAssumption DEF AgentLocals, EndsInTime

LEMMA FailedIsLocals ==
  ASSUME AgentsOK, NEW a \in Agents, agents[a].phase \notin {"failed", "off"}
  PROVE  /\ Failed(a) \in AgentLocals /\ EndsInTime(Failed(a))
         /\ Failed(a).phase \in {"idle", "off", "failed"}
<1>1. agents[a] \in AgentLocals /\ EndsInTime(agents[a]) /\ Nothing \in Claims
  BY DEF AgentsOK, Nothing, Claims
<1>2. agents[a].failures <= MaxRestarts /\ agents[a].failures \in Nat /\ MaxRestarts \in Nat
  BY <1>1, ClaimAssumption DEF EndsInTime, AgentLocals
<1>3. CASE a # Supervisor
  <2>1. Failed(a) = [phase |-> "off", failures |-> 0, tries |-> 0, child |-> None,
                     seen |-> Nothing]
    BY <1>3 DEF Failed, Idle
  <2> QED
    BY <1>2, <2>1, AnewIsLocals
<1>4. CASE a = Supervisor
  <2> DEFINE phase == IF agents[a].failures >= MaxRestarts THEN "failed" ELSE "idle"
             failures == agents[a].failures + 1
  <2>1. Failed(a) = [agents[a] EXCEPT !.failures = failures, !.seen = Nothing, !.phase = phase]
    BY <1>1, <1>4 DEF Failed, AgentLocals
  <2>2. /\ failures \in 0..(MaxRestarts + 1) /\ phase \in {"idle", "failed"}
        /\ failures > MaxRestarts => phase = "failed"
    BY <1>2
  <2> HIDE DEF phase, failures
  <2> QED
    BY <1>1, <2>1, <2>2 DEF AgentLocals, EndsInTime
<1> QED
  BY <1>3, <1>4

LEMMA HeldIsLocals ==
  ASSUME AgentsOK, NEW a \in Agents, agents[a].phase \notin {"failed", "off"}, NEW seen
  PROVE  /\ Held(a, seen) \in AgentLocals /\ EndsInTime(Held(a, seen))
         /\ Held(a, seen).phase \in {"idle", "off", "codex"}
<1>1. agents[a] \in AgentLocals /\ EndsInTime(agents[a]) /\ Nothing \in Claims
  BY DEF AgentsOK, Nothing, Claims
<1>2. agents[a].failures <= MaxRestarts /\ agents[a].failures \in Nat /\ MaxRestarts \in Nat
  BY <1>1, ClaimAssumption DEF EndsInTime, AgentLocals
<1>3. CASE a = Supervisor
  <2> DEFINE failures == IF seen = "IdentityHealthy" THEN 0 ELSE agents[a].failures
  <2>1. Held(a, seen) = [agents[a] EXCEPT !.phase = "idle", !.seen = Nothing, !.failures = failures]
    BY <1>1, <1>3 DEF Held, AgentLocals
  <2>2. failures \in 0..(MaxRestarts + 1) /\ failures <= MaxRestarts
    BY <1>2
  <2> HIDE DEF failures
  <2>3. Held(a, seen).phase = "idle" /\ Held(a, seen).failures = failures
    BY <1>1, <2>1 DEF AgentLocals
  <2>4. Held(a, seen) \in AgentLocals
    BY <1>1, <2>1, <2>2 DEF AgentLocals
  <2> QED
    BY <1>2, <2>2, <2>3, <2>4, ClaimAssumption DEF EndsInTime
<1>4. CASE a # Supervisor /\ seen = "IdentityHealthy"
  <2>1. Held(a, seen) = [phase |-> "codex", failures |-> 0, tries |-> 0, child |-> None,
                         seen |-> Nothing]
    BY <1>4 DEF Held, Idle
  <2> QED
    BY <1>2, <2>1, AnewIsLocals
<1>5. CASE a # Supervisor /\ seen # "IdentityHealthy" /\ agents[a].tries + 1 >= Attempts
  <2>1. Held(a, seen) = [phase |-> "off", failures |-> 0, tries |-> 0, child |-> None,
                         seen |-> Nothing]
    BY <1>5 DEF Held, HeldByLauncher, Idle
  <2> QED
    BY <1>2, <2>1, AnewIsLocals
<1>6. CASE a # Supervisor /\ seen # "IdentityHealthy" /\ ~(agents[a].tries + 1 >= Attempts)
  <2>1. Held(a, seen) = [agents[a] EXCEPT !.phase = "idle", !.seen = Nothing,
                                          !.tries = agents[a].tries + 1]
    BY <1>1, <1>6 DEF Held, HeldByLauncher, AgentLocals
  <2>2. agents[a].tries + 1 \in Nat
    BY <1>1 DEF AgentLocals
  <2> QED
    BY <1>1, <1>2, <2>1, <2>2 DEF AgentLocals, EndsInTime
<1> QED
  BY <1>3, <1>4, <1>5, <1>6

\* What an agent finds of an attended sidecar is nothing to clear.
LEMMA FoundUnattended ==
  ASSUME NEW s, s.pid # None, ActionOn(Observation(s)) # "Hold"
  PROVE  ~Attended(s.pid)
<1>1. Observation(s) \in {"ProcessMissing", "ProcessIdentityMismatch"}
  BY DEF Observation, ActionOn
<1>2. ~Alive(s.pid) \/ ~Sidecar(s.pid) \/ Orphan(s.pid)
  BY <1>1 DEF Observation
<1> QED
  BY <1>2 DEF Attended, Alive, Sidecar, Holding

\* A claim that an agent turns to clearing is not that of an attended sidecar.
Fair(a) ==
  agents'[a].phase = "clearing" /\ agents'[a].seen.pid # None =>
    agents'[a] = agents[a] \/ (~Attended(agents'[a].seen.pid) /\ UNCHANGED procs)

LEMMA PutIsFair ==
  ASSUME AgentsOK, NEW a \in Agents, NEW q, q \in AgentLocals, EndsInTime(q), Put(a, q),
         q.phase # "clearing"
  PROVE  AgentsOK' /\ \A b \in Agents : Fair(b)
BY PutAgent DEF Fair

\* An agent that goes on, with the same claim before it or another.
LEMMA PutOn ==
  ASSUME AgentsOK, NEW a \in Agents, agents[a].phase \notin {"failed", "off"},
         NEW phase \in {"idle", "loaded", "validating", "reserved", "stopping"},
         NEW seen \in Claims,
         Put(a, [agents[a] EXCEPT !.phase = phase, !.seen = seen])
  PROVE  AgentsOK' /\ \A b \in Agents : Fair(b)
<1>1. PICK q : q = [agents[a] EXCEPT !.phase = phase, !.seen = seen]
  OBVIOUS
<1>2. agents[a] \in AgentLocals /\ EndsInTime(agents[a])
  BY DEF AgentsOK
<1>3. agents[a].failures <= MaxRestarts
  BY <1>2, ClaimAssumption DEF EndsInTime, AgentLocals
<1>4. q \in AgentLocals /\ EndsInTime(q) /\ q.phase = phase
  BY <1>1, <1>2, <1>3, ClaimAssumption DEF AgentLocals, EndsInTime
<1>5. Put(a, q)
  BY <1>1
<1> QED
  BY <1>4, <1>5, PutIsFair

\* An agent that starts anew, or has ended.
LEMMA PutAnew ==
  ASSUME AgentsOK, NEW a \in Agents, NEW phase \in {"idle", "off"},
         Put(a, [Idle EXCEPT !.phase = phase])
  PROVE  AgentsOK' /\ \A b \in Agents : Fair(b)
<1>1. PICK q : q = [Idle EXCEPT !.phase = phase]
  OBVIOUS
<1>2. q = [phase |-> phase, failures |-> 0, tries |-> 0, child |-> None, seen |-> Nothing]
  BY <1>1 DEF Idle
<1>3. q \in AgentLocals /\ EndsInTime(q) /\ q.phase = phase
  BY <1>2, AnewIsLocals, ClaimAssumption
<1>4. Put(a, q)
  BY <1>1
<1> QED
  BY <1>3, <1>4, PutIsFair

LEMMA OneAgentStep ==
  ASSUME ClaimInv, NEW a \in Agents,
         AgentStep(a) \/ CodexEnds(a) \/ Launch(a) \/ LauncherDies(a)
  PROVE  AgentsOK' /\ \A b \in Agents : Fair(b)
<1>1. /\ AgentsOK /\ agents[a] \in AgentLocals /\ EndsInTime(agents[a]) /\ state \in Claims
      /\ Nothing \in Claims /\ agents[a].seen \in Claims
  BY DEF ClaimInv, AgentsOK, StateOK, AgentLocals, Nothing, Claims
<1>2. \A q : Set(a, q) => Put(a, q)
  BY DEF Set
<1>3. Idle = [Idle EXCEPT !.phase = "idle"]
  BY DEF Idle
<1>4. CASE Load(a)
  <2>1. agents[a].phase = "idle"
    BY <1>4 DEF Load
  <2>2. CASE Put(a, [agents[a] EXCEPT !.phase = "loaded", !.seen = state])
    BY <1>1, <2>1, <2>2, PutOn
  <2>3. CASE Put(a, [agents[a] EXCEPT !.failures = 0])
    <3> DEFINE q == [agents[a] EXCEPT !.failures = 0]
    <3>1. q \in AgentLocals /\ q.failures = 0 /\ q.phase = "idle"
      BY <1>1, <2>1, ClaimAssumption DEF AgentLocals
    <3>2. EndsInTime(q)
      BY <3>1, ClaimAssumption DEF EndsInTime
    <3> HIDE DEF q
    <3> QED
      BY <1>1, <2>3, <3>1, <3>2, PutIsFair DEF q
  <2>4. CASE Put(a, [Idle EXCEPT !.phase = "off"])
    BY <1>1, <2>4, PutAnew
  <2> QED
    BY <1>2, <1>4, <2>2, <2>3, <2>4 DEF Load
<1>5. CASE Inspect(a)
  <2> DEFINE now == Observation(agents[a].seen)
  <2>1. PICK seen \in {now} \cup {"IdentityUnavailable" : x \in {now} \cap {"IdentityHealthy"}} :
          Set(a, IF ActionOn(seen) = "Hold" THEN Held(a, seen)
                 ELSE [agents[a] EXCEPT !.phase = "clearing"])
    BY <1>5 DEF Inspect
  <2>2. agents[a].phase = "loaded" /\ UNCHANGED procs
    BY <1>5 DEF Inspect
  <2>3. CASE ActionOn(seen) = "Hold"
    BY <1>1, <1>2, <2>1, <2>2, <2>3, HeldIsLocals, PutIsFair
  <2>4. CASE ActionOn(seen) # "Hold"
    <3> DEFINE q == [agents[a] EXCEPT !.phase = "clearing"]
    <3>1. q \in AgentLocals /\ EndsInTime(q) /\ q.seen = agents[a].seen
      BY <1>1, <2>2 DEF AgentLocals, EndsInTime
    <3>2. ActionOn(now) # "Hold"
      <4>1. ActionOn("IdentityUnavailable") = "Hold"
        BY DEF ActionOn
      <4> QED
        BY <2>4, <4>1
    <3>3. q.seen.pid # None => ~Attended(q.seen.pid)
      BY <3>1, <3>2, FoundUnattended
    <3>4. Put(a, q)
      BY <1>2, <2>1, <2>4
    <3> HIDE DEF q, now
    <3>5. AgentsOK' /\ \A b \in Agents : agents'[b] = IF b = a THEN q ELSE agents[b]
      BY <1>1, <3>1, <3>4, PutAgent
    <3> QED
      BY <2>2, <3>3, <3>5 DEF Fair
  <2> QED
    BY <2>3, <2>4
<1>6. CASE Clear(a)
  <2>1. agents[a].phase = "clearing"
    BY <1>6 DEF Clear
  <2>2. CASE Put(a, [agents[a] EXCEPT !.phase = "validating"])
    <3>1. [agents[a] EXCEPT !.phase = "validating"]
            = [agents[a] EXCEPT !.phase = "validating", !.seen = agents[a].seen]
      BY <1>1 DEF AgentLocals
    <3> QED
      BY <1>1, <2>1, <2>2, <3>1, PutOn
  <2>3. CASE Release(a) /\ Put(a, [agents[a] EXCEPT !.phase = "validating", !.seen = state'])
    <3>1. state' \in Claims
      BY <1>1, <2>3 DEF Release, Claims
    <3> QED
      BY <1>1, <2>1, <2>3, <3>1, PutOn
  <2>4. CASE Put(a, Failed(a))
    BY <1>1, <2>1, <2>4, FailedIsLocals, PutIsFair
  <2> QED
    BY <1>2, <1>6, <2>2, <2>3, <2>4 DEF Clear
<1>7. CASE Validate(a)
  <2>1. agents[a].phase = "validating"
    BY <1>7 DEF Validate
  <2>2. CASE Put(a, [agents[a] EXCEPT !.phase = "reserved", !.seen = state])
    BY <1>1, <2>1, <2>2, PutOn
  <2>3. CASE Put(a, Failed(a))
    BY <1>1, <2>1, <2>3, FailedIsLocals, PutIsFair
  <2> QED
    BY <1>2, <1>7, <2>2, <2>3 DEF Validate
<1>8. CASE Spawn(a)
  <2>1. agents[a].phase = "reserved"
    BY <1>8 DEF Spawn
  <2>2. CASE Put(a, Failed(a))
    BY <1>1, <2>1, <2>2, FailedIsLocals, PutIsFair
  <2>3. CASE Put(a, [agents[a] EXCEPT !.phase = "idle", !.seen = Nothing, !.failures = 0])
    <3> DEFINE q == [agents[a] EXCEPT !.phase = "idle", !.seen = Nothing, !.failures = 0]
    <3>0. 0 \in 0..(MaxRestarts + 1)
      BY ClaimAssumption
    <3>1. q \in AgentLocals /\ q.failures = 0 /\ q.phase = "idle"
      BY <1>1, <3>0 DEF AgentLocals
    <3>2. EndsInTime(q)
      BY <3>1, ClaimAssumption DEF EndsInTime
    <3> HIDE DEF q
    <3> QED
      BY <1>1, <2>3, <3>1, <3>2, PutIsFair DEF q
  <2>4. CASE \E p \in Pids :
               Put(a, [agents[a] EXCEPT !.phase = "verifying", !.seen = Nothing, !.child = p])
    <3>1. PICK p \in Pids :
               Put(a, [agents[a] EXCEPT !.phase = "verifying", !.seen = Nothing, !.child = p])
      BY <2>4
    <3> DEFINE q == [agents[a] EXCEPT !.phase = "verifying", !.seen = Nothing, !.child = p]
    <3>2. q \in AgentLocals /\ q.failures = agents[a].failures /\ q.phase = "verifying"
      BY <1>1 DEF AgentLocals
    <3>3. EndsInTime(q)
      BY <1>1, <2>1, <3>2 DEF EndsInTime
    <3> HIDE DEF q
    <3> QED
      BY <1>1, <3>1, <3>2, <3>3, PutIsFair DEF q
  <2> QED
    BY <1>2, <1>8, <2>2, <2>3, <2>4 DEF Spawn, FreePids
<1>9. CASE Verify(a)
  <2>0. PICK q : q = [Idle EXCEPT !.phase = "codex", !.child = agents[a].child]
    OBVIOUS
  <2>1. q = [phase |-> "codex", failures |-> 0, tries |-> 0, child |-> agents[a].child,
             seen |-> Nothing]
    BY <2>0 DEF Idle
  <2>2. agents[a].child \in Pids \cup {None}
    BY <1>1 DEF AgentLocals
  <2>3. Put(a, q)
    BY <1>2, <1>9, <2>0 DEF Verify
  <2>4. q \in AgentLocals /\ EndsInTime(q) /\ q.phase = "codex"
    BY <2>1, <2>2, AnewIsLocals, ClaimAssumption
  <2> QED
    BY <1>1, <2>3, <2>4, PutIsFair
<1>10. CASE GiveUp(a)
  <2> DEFINE phase == IF agents[a].failures >= MaxRestarts THEN "off" ELSE "idle"
             failures == agents[a].failures + 1
  <2>1. agents[a].phase = "verifying" /\ Put(a, [Idle EXCEPT !.failures = failures, !.phase = phase])
    BY <1>2, <1>10 DEF GiveUp
  <2>0. PICK q : q = [Idle EXCEPT !.failures = failures, !.phase = phase]
    OBVIOUS
  <2>2. agents[a].failures <= MaxRestarts /\ agents[a].failures \in Nat
    BY <1>1, <2>1, ClaimAssumption DEF EndsInTime, AgentLocals
  <2>3. /\ failures \in 0..(MaxRestarts + 1) /\ phase \in {"off", "idle"}
        /\ failures > MaxRestarts => phase = "off"
    BY <2>2, ClaimAssumption
  <2> HIDE DEF phase, failures
  <2>4. q = [phase |-> phase, failures |-> failures, tries |-> 0, child |-> None,
             seen |-> Nothing]
    BY <2>0 DEF Idle
  <2>5. q \in AgentLocals /\ EndsInTime(q) /\ q.phase = phase
    BY <2>3, <2>4, AnewIsLocals
  <2>6. Put(a, q)
    BY <2>0, <2>1
  <2> QED
    BY <1>1, <2>3, <2>5, <2>6, PutIsFair
<1>11. CASE CodexEnds(a)
  <2> DEFINE phase == IF agents[a].child = None THEN "off" ELSE "stopping"
             q == [agents[a] EXCEPT !.phase = phase]
  <2>1. agents[a].phase = "codex" /\ Put(a, q)
    BY <1>2, <1>11 DEF CodexEnds
  <2>2. phase \in {"off", "stopping"}
    OBVIOUS
  <2> HIDE DEF phase
  <2>3. q \in AgentLocals /\ q.failures = agents[a].failures /\ q.phase = phase
    BY <1>1, <2>2 DEF AgentLocals
  <2>4. EndsInTime(q)
    BY <1>1, <2>1, <2>3 DEF EndsInTime
  <2> HIDE DEF q
  <2> QED
    BY <1>1, <2>1, <2>2, <2>3, <2>4, PutIsFair
<1>12. CASE ChildEnds(a) \/ LauncherDies(a)
  BY <1>1, <1>2, <1>12, PutAnew DEF ChildEnds, LauncherDies
<1>13. CASE Launch(a)
  BY <1>1, <1>2, <1>3, <1>13, PutAnew DEF Launch
<1> QED
  BY <1>4, <1>5, <1>6, <1>7, <1>8, <1>9, <1>10, <1>11, <1>12, <1>13 DEF AgentStep

LEMMA AgentsStep ==
  ASSUME ClaimInv, [Next]_vars
  PROVE  AgentsOK' /\ \A b \in Agents : Fair(b)
<1>1. AgentsOK
  BY DEF ClaimInv
<1>2. CASE UNCHANGED agents
  BY <1>1, <1>2 DEF AgentsOK, Fair
<1>3. CASE AppEnds \/ AppStarts
  <2>1. Idle = [Idle EXCEPT !.phase = "idle"]
    BY DEF Idle
  <2>2. \E phase \in {"idle", "off"} : Put(Supervisor, [Idle EXCEPT !.phase = phase])
    BY <1>3, <2>1 DEF AppEnds, AppStarts, Set
  <2> QED
    BY <1>1, <2>2, PutAnew DEF Agents
<1>4. CASE \E a \in Agents : AgentStep(a) \/ CodexEnds(a) \/ Launch(a) \/ LauncherDies(a)
  BY <1>4, OneAgentStep
<1>5. UNCHANGED agents \/ AppEnds \/ AppStarts
      \/ \E a \in Agents : AgentStep(a) \/ CodexEnds(a) \/ Launch(a) \/ LauncherDies(a)
  BY DEF Next, SidecarStep, SidecarLoad, SidecarClaim, SidecarListen, SidecarServe, SidecarStop,
         SidecarClose, SidecarRelease, SidecarDies, PidReused, MovePort, ExitBegins, ExitStep,
         ExitAsks, ExitWaits, ExitTerminates, ChangeNeed, vars
<1> QED
  BY <1>2, <1>3, <1>4, <1>5
-----------------------------------------------------------------------------
(* The claim *)

\* The claim is released, and its process is no attended sidecar (any longer).
Released ==
  /\ state'.pid = None
  /\ state.pid \in Pids =>
       ~(procs'[state.pid].phase \in Holding /\ procs'[state.pid].parent # System)

\* Nobody who turns to clearing has had his snapshot renewed in the same step.
NoneRenewed == \A b \in Agents : b \in current' /\ agents'[b].phase = "clearing" => b \in current

ClaimMoves ==
  /\ StateOK' /\ NoneRenewed
  /\ state'.pid = state.pid \/ Released \/ \E p \in Pids : Claiming(p)

LEMMA StateKept ==
  ASSUME StateOK, UNCHANGED <<state, socket>>, current' \subseteq current
  PROVE  ClaimMoves
BY DEF StateOK, ClaimMoves, NoneRenewed

LEMMA PidPut ==
  ASSUME StateOK, NEW pid \in Pids \cup {None}, NEW port \in Ports,
         \/ state' = [state EXCEPT !.pid = pid]
         \/ pid = state.pid /\ state' = [state EXCEPT !.port = port]
  PROVE  state' \in Claims /\ state'.port \in Ports /\ state'.pid = pid
BY DEF StateOK, Claims

LEMMA ReleasedNow ==
  ASSUME StateOK, NEW p, ReleaseNow(p), socket' \in {socket, None},
         p \in Pids => procs'[p].phase \notin Holding
  PROVE  ClaimMoves
<1>1. state.port \in Ports
  BY DEF StateOK
<1>2. CASE state.pid = p
  <2>1. state' = [state EXCEPT !.pid = None] /\ current' = {}
    BY <1>2 DEF ReleaseNow
  <2>2. state' \in Claims /\ state'.port \in Ports /\ state'.pid = None
    BY <1>1, <2>1, PidPut
  <2> QED
    BY <1>2, <2>1, <2>2 DEF StateOK, ClaimMoves, NoneRenewed, Released
<1>3. CASE state.pid # p
  BY <1>3 DEF ReleaseNow, StateOK, ClaimMoves, NoneRenewed
<1> QED
  BY <1>2, <1>3

LEMMA Ended ==
  ASSUME ProcsOK, NEW p \in Pids, End(p)
  PROVE  procs'[p].phase \notin Holding
BY DEF ProcsOK, End, NoProcess, Holding

LEMMA SidecarClaims ==
  ASSUME ClaimInv, NEW p \in Pids, SidecarStep(p) \/ SidecarDies(p) \/ PidReused(p)
  PROVE  ClaimMoves
<1>1. StateOK /\ ProcsOK /\ p \notin Agents /\ state.port \in Ports
  BY ClaimAssumption DEF ClaimInv, Agents, StateOK
<1>2. CASE SidecarLoad(p)
  BY <1>1, <1>2 DEF SidecarLoad, StateOK, ClaimMoves, NoneRenewed
<1>3. CASE SidecarClaim(p)
  <2>1. CASE UNCHANGED <<state, current>>
    BY <1>1, <1>3, <2>1, StateKept DEF SidecarClaim
  <2>2. CASE Claim(p) /\ Become(p, "claimed")
    <3>1. state' \in Claims /\ state'.port \in Ports
      BY <1>1, <2>2, PidPut DEF Claim
    <3>2. Claiming(p)
      BY <1>3, <2>2 DEF Claiming, SidecarClaim
    <3> QED
      BY <1>1, <1>3, <2>2, <3>1, <3>2 DEF Claim, SidecarClaim, StateOK, ClaimMoves, NoneRenewed
  <2> QED
    BY <1>3, <2>1, <2>2 DEF SidecarClaim
<1>4. CASE SidecarListen(p)
  <2>1. CASE End(p) /\ CanRelease(p, p) /\ Release(p) /\ UNCHANGED socket
    <3>1. state' \in Claims /\ state'.port \in Ports /\ state'.pid = None
      BY <1>1, <2>1, PidPut DEF Release
    <3>2. Released
      BY <1>1, <2>1, <3>1, Ended DEF Released, CanRelease
    <3> QED
      BY <1>1, <2>1, <3>1, <3>2 DEF Release, StateOK, ClaimMoves, NoneRenewed
  <2>2. CASE UNCHANGED <<state, current, socket>>
    BY <1>1, <2>2, StateKept
  <2>3. CASE UNCHANGED state /\ socket' = p /\ current' = current \ {p}
    BY <1>1, <2>3 DEF StateOK, ClaimMoves, NoneRenewed
  <2> QED
    BY <1>4, <2>1, <2>2, <2>3 DEF SidecarListen
<1>5. CASE SidecarServe(p) \/ SidecarStop(p) \/ SidecarClose(p) \/ SidecarDies(p) \/ PidReused(p)
  BY <1>1, <1>5, StateKept DEF SidecarServe, SidecarStop, SidecarClose, SidecarDies, PidReused
<1>6. CASE SidecarRelease(p)
  BY <1>1, <1>6, Ended, ReleasedNow DEF SidecarRelease
<1> QED
  BY <1>2, <1>3, <1>4, <1>5, <1>6 DEF SidecarStep

LEMMA AgentClaims ==
  ASSUME ClaimInv, NEW a \in Agents,
         AgentStep(a) \/ CodexEnds(a) \/ Launch(a) \/ LauncherDies(a)
  PROVE  ClaimMoves
<1>1. StateOK /\ AgentsOK /\ state.port \in Ports /\ agents[a] \in AgentLocals
  BY DEF ClaimInv, StateOK, AgentsOK
<1>2. \A q : Set(a, q) => current' \subseteq current
  BY DEF Set
<1>3. CASE Load(a) /\ Put(a, [agents[a] EXCEPT !.phase = "loaded", !.seen = state])
                   /\ current' = current \cup {a}
  <2>1. agents'[a].phase = "loaded"
    BY <1>1, <1>3 DEF Put, AgentsOK, AgentLocals
  <2> QED
    BY <1>1, <1>3, <2>1 DEF Load, StateOK, ClaimMoves, NoneRenewed
<1>4. CASE Clear(a) /\ CanRelease(a, agents[a].seen.pid) /\ Release(a) /\ agents[a].seen.pid # None
           /\ Put(a, [agents[a] EXCEPT !.phase = "validating", !.seen = state'])
  <2>1. state' \in Claims /\ state'.port \in Ports /\ state'.pid = None
    BY <1>1, <1>4, PidPut DEF Release
  <2>2. agents'[a].phase = "validating"
    BY <1>1, <1>4 DEF Put, AgentsOK, AgentLocals
  <2>3. ~Attended(state.pid) /\ UNCHANGED <<procs, socket>>
    BY <1>4 DEF Clear, CanRelease, ClaimInv, ClearsNoneAttended
  <2>4. Released
    BY <2>1, <2>3 DEF Released, Attended, Orphan
  <2> QED
    BY <1>1, <1>4, <2>1, <2>2, <2>3, <2>4 DEF Release, StateOK, ClaimMoves, NoneRenewed
<1>5. CASE UNCHANGED <<state, socket>> /\ \E q : Set(a, q)
  BY <1>1, <1>2, <1>5, StateKept
<1>6. CASE Clear(a)
  BY <1>4, <1>5, <1>6 DEF Clear
<1>7. CASE Load(a)
  BY <1>3, <1>5, <1>7 DEF Load
<1>8. CASE Inspect(a) \/ Validate(a) \/ Spawn(a) \/ Verify(a) \/ GiveUp(a) \/ ChildEnds(a)
           \/ CodexEnds(a) \/ Launch(a) \/ LauncherDies(a)
  BY <1>5, <1>8 DEF Inspect, Validate, Spawn, Verify, GiveUp, ChildEnds, CodexEnds, Launch, LauncherDies
<1> QED
  BY <1>6, <1>7, <1>8 DEF AgentStep

LEMMA ExitClaims ==
  ASSUME ClaimInv, ExitBegins \/ ExitStep \/ AppEnds \/ AppStarts
  PROVE  ClaimMoves
<1>1. StateOK /\ ProcsOK
  BY DEF ClaimInv
<1>2. CASE ExitBegins \/ ExitAsks
  BY <1>1, <1>2, StateKept DEF ExitBegins, ExitAsks
<1>3. CASE AppEnds \/ AppStarts
  BY <1>1, <1>3, StateKept DEF AppEnds, AppStarts, Set
<1>4. CASE ExitWaits
  <2>1. CASE UNCHANGED <<state, current>>
    BY <1>1, <1>4, <2>1, StateKept DEF ExitWaits
  <2>2. CASE ~Alive(leaving.pid) /\ ReleaseNow(leaving.pid)
    <3>1. procs'[leaving.pid].phase \notin Holding
      BY <1>4, <2>2 DEF ExitWaits, Alive, Holding
    <3> QED
      BY <1>1, <1>4, <2>2, <3>1, ReleasedNow DEF ExitWaits
  <2> QED
    BY <1>4, <2>1, <2>2 DEF ExitWaits
<1>5. CASE ExitTerminates
  <2>1. leaving.pid \in Pids => procs'[leaving.pid].phase \notin Holding
    <3>1. CASE End(leaving.pid)
      BY <1>1, <3>1, Ended
    <3>2. CASE ~Alive(leaving.pid) /\ UNCHANGED procs
      BY <3>2 DEF Alive, Holding
    <3> QED
      BY <1>5, <3>1, <3>2 DEF ExitTerminates
  <2> QED
    BY <1>1, <1>5, <2>1, ReleasedNow DEF ExitTerminates
<1> QED
  BY <1>2, <1>3, <1>4, <1>5 DEF ExitStep

LEMMA ClaimStep ==
  ASSUME ClaimInv, [Next]_vars
  PROVE  ClaimMoves
<1>1. StateOK
  BY DEF ClaimInv
<1>2. CASE UNCHANGED vars \/ ChangeNeed
  BY <1>1, <1>2, StateKept DEF vars, ChangeNeed
<1>3. CASE \E port \in Ports : MovePort(port)
  <2>1. PICK port \in Ports : MovePort(port)
    BY <1>3
  <2>2. state' \in Claims /\ state'.port \in Ports /\ state'.pid = state.pid
    BY <1>1, <2>1, PidPut DEF MovePort, StateOK, Claims
  <2> QED
    BY <1>1, <2>1, <2>2 DEF MovePort, StateOK, ClaimMoves, NoneRenewed
<1> QED
  BY <1>2, <1>3, SidecarClaims, AgentClaims, ExitClaims DEF Next
-----------------------------------------------------------------------------
(* The invariant *)

LEMMA AttendedStep ==
  ASSUME ClaimInv, [Next]_vars
  PROVE  AttendedHasClaim'
<1>1. AttendedHasClaim /\ ClaimMoves
  BY ClaimStep DEF ClaimInv
<1>2. CASE \E p \in Pids : Claiming(p)
  <2>1. PICK p \in Pids : Claiming(p)
    BY <1>2
  <2>2. state.pid = None \/ ~Alive(state.pid)
    <3>1. ~End(p)
      <4>1. procs'[p].phase = "claimed"
        BY <2>1 DEF Claiming, Become, ClaimInv, ProcsOK, Processes
      <4> QED
        BY <4>1, Ended DEF ClaimInv, End, ProcsOK, NoProcess
    <3> QED
      BY <2>1, <3>1 DEF Claiming, SidecarClaim, CanClaim
  <2>3. \A q \in Pids : ~Attended(q)
    BY <1>1, <2>2, ClaimAssumption DEF AttendedHasClaim, Attended, Alive, Holding
  <2>4. \A q \in Pids \ {p} : procs'[q] = procs[q]
    BY <2>1 DEF Claiming, Become, ClaimInv, ProcsOK
  <2>5. state'.pid = p
    BY <2>1 DEF Claiming, Claim, ClaimInv, StateOK, Claims
  <2> QED
    BY <2>3, <2>4, <2>5 DEF AttendedHasClaim, Attended, Orphan
<1>3. CASE ~\E p \in Pids : Claiming(p)
  <2>1. NoneNew
    BY <1>3, ProcsStep
  <2> QED
    BY <1>1, <1>3, <2>1 DEF NoneNew, AttendedHasClaim, ClaimMoves, Released, Attended, Orphan
<1> QED
  BY <1>2, <1>3

LEMMA ClearsStep ==
  ASSUME ClaimInv, [Next]_vars
  PROVE  ClearsNoneAttended'
<1> SUFFICES ASSUME NEW a \in Agents, agents'[a].phase = "clearing", a \in current',
                    agents'[a].seen.pid # None
             PROVE  ~(Attended(agents[a].seen.pid))'
  BY DEF ClearsNoneAttended
<1>1. Fair(a) /\ AgentsOK'
  BY AgentsStep
<1>2. CASE ~Attended(agents'[a].seen.pid) /\ UNCHANGED procs
  BY <1>2 DEF Attended, Orphan
<1>3. CASE agents'[a] = agents[a]
  <2>1. a \in current /\ ClaimMoves
    BY ClaimStep DEF ClaimMoves, NoneRenewed
  <2>2. ~Attended(agents[a].seen.pid) /\ agents[a].seen.pid \in Pids
    BY <1>3, <2>1 DEF ClaimInv, ClearsNoneAttended, AgentsOK, AgentLocals, Claims
  <2>3. ~\E p \in Pids : Claiming(p)
    BY <2>1, ClaimAssumption DEF Claiming, Claim, Agents
  <2> QED
    BY <1>3, <2>2, <2>3, ProcsStep DEF NoneNew, Attended, Orphan
<1> QED
  BY <1>1, <1>2, <1>3 DEF Fair

LEMMA ClaimInvStep == ClaimInv /\ [Next]_vars => ClaimInv'
<1> SUFFICES ASSUME ClaimInv, [Next]_vars
             PROVE  ClaimInv'
  OBVIOUS
<1>1. ProcsOK'
  <2>1. CASE \E p \in Pids : Claiming(p)
    <3>1. PICK p \in Pids : Claiming(p)
      BY <2>1
    <3> DEFINE q == [procs[p] EXCEPT !.phase = "claimed"]
    <3>2. procs[p] \in Processes /\ procs' = [procs EXCEPT ![p] = q]
      BY <3>1 DEF Claiming, Become, ClaimInv, ProcsOK
    <3>3. q \in Processes
      BY <3>2 DEF Processes, Holding
    <3> HIDE DEF q
    <3> QED
      BY <3>2, <3>3 DEF ClaimInv, ProcsOK
  <2> QED
    BY <2>1, ProcsStep
<1>2. AgentsOK' /\ StateOK'
  BY AgentsStep, ClaimStep DEF ClaimMoves
<1> QED
  BY <1>1, <1>2, AttendedStep, ClearsStep DEF ClaimInv

LEMMA ClaimInvInit == Init => ClaimInv
<1> SUFFICES ASSUME Init
             PROVE  ClaimInv
  OBVIOUS
<1>1. ProcsOK
  BY NoProcessIsOne DEF Init, ProcsOK
<1>2. \A p \in Pids : ~Attended(p)
  BY NoProcessIsOne DEF Init, Attended, Holding
<1>3. \A a \in Agents : agents[a] \in AgentLocals /\ EndsInTime(agents[a])
                        /\ agents[a].phase \in {"idle", "off"}
  <2> SUFFICES ASSUME NEW a \in Agents
               PROVE  agents[a] \in AgentLocals /\ EndsInTime(agents[a])
                      /\ agents[a].phase \in {"idle", "off"}
    OBVIOUS
  <2>1. PICK q : q = agents[a]
    OBVIOUS
  <2>2. q = Idle \/ q = [Idle EXCEPT !.phase = "off"]
    BY <2>1 DEF Init
  <2>3. PICK phase \in {"idle", "off"} :
          q = [phase |-> phase, failures |-> 0, tries |-> 0, child |-> None, seen |-> Nothing]
    BY <2>2 DEF Idle
  <2> QED
    BY <2>1, <2>3, AnewIsLocals, ClaimAssumption
<1>4. agents = [a \in Agents |-> agents[a]]
  BY DEF Init
<1>5. AgentsOK
  BY <1>3, <1>4 DEF AgentsOK
<1>6. StateOK
  BY DEF Init, StateOK, Claims
<1> QED
  BY <1>1, <1>2, <1>3, <1>5, <1>6 DEF ClaimInv, AttendedHasClaim, ClearsNoneAttended

LEMMA ClaimInvHolds == Spec => []ClaimInv
BY ClaimInvInit, ClaimInvStep, PTL DEF Spec

LEMMA ClaimInvImplies == ClaimInv => AttendedGatewayKeepsClaim
<1> SUFFICES ASSUME ClaimInv
             PROVE  AttendedGatewayKeepsClaim
  OBVIOUS
<1>1. \A p \in Pids : procs[p].parent \in Agents \cup {System, None}
  BY DEF ClaimInv, ProcsOK, Processes
<1>2. \A a \in Agents : agents[a] \in AgentLocals /\ EndsInTime(agents[a])
  BY DEF ClaimInv, AgentsOK
<1>3. TypeOK
  BY <1>1, <1>2 DEF TypeOK, ClaimInv, StateOK, Claims, AgentLocals, EndsInTime
<1> QED
  BY <1>3 DEF AttendedGatewayKeepsClaim, ClaimInv, AttendedHasClaim, Attended, Holding

\* A sidecar whose parent lives keeps the claim that it made
\* (claim_process, release_process, inspect_gateway_claim and
\* clear_stale_gateway_claim): for any number of processes and launchers,
\* whatever dies, however often, and whoever moves the port.
THEOREM AttendedKeepsClaim == Spec => []AttendedGatewayKeepsClaim
BY ClaimInvHolds, ClaimInvImplies, PTL
-----------------------------------------------------------------------------
(* Who is ended *)

\* The child that a launcher remembers is one that it started and has not
\* waited for: its pid is nobody else's.
ChildIsOwn ==
  \A a \in Agents : agents[a].child \in Pids =>
    procs[agents[a].child].parent = a /\ procs[agents[a].child].phase # "stranger"

\* A process that keeps its parent, and stays a stranger or stays none.
Calm(p) ==
  /\ procs'[p].parent = procs[p].parent
  /\ procs'[p].phase = "stranger" <=> procs[p].phase = "stranger"

\* A step in which no agent gets a child.
NoChildNew ==
  \A b \in Agents : agents'[b].child \in Pids => agents'[b].child = agents[b].child

LEMMA KeptChildIsOwn ==
  ASSUME ChildIsOwn, NoChildNew,
         \A b \in Agents : agents'[b].child \in Pids => Calm(agents'[b].child)
  PROVE  ChildIsOwn'
BY DEF ChildIsOwn, NoChildNew, Calm

LEMMA PutIs ==
  ASSUME AgentsOK, NEW a \in Agents, NEW q, Put(a, q)
  PROVE  agents'[a] = q
BY DEF AgentsOK, Put

LEMMA PutChild ==
  ASSUME AgentsOK, NEW a \in Agents, NEW q, Put(a, q), q.child \in {agents[a].child, None}
  PROVE  NoChildNew
BY ClaimAssumption DEF AgentsOK, Put, NoChildNew

LEMMA IdleChild == \A phase : [Idle EXCEPT !.phase = phase].child = None
BY DEF Idle

LEMMA AgentChild ==
  ASSUME ClaimInv, NEW a \in Agents,
         \/ Load(a) \/ Inspect(a) \/ Clear(a) \/ Validate(a) \/ Verify(a) \/ GiveUp(a)
         \/ ChildEnds(a) \/ CodexEnds(a) \/ Launch(a) \/ LauncherDies(a)
  PROVE  NoChildNew
<1>1. AgentsOK /\ agents[a] \in AgentLocals /\ \A r : Set(a, r) => Put(a, r)
  BY DEF ClaimInv, AgentsOK, Set
<1>2. \A phase : [agents[a] EXCEPT !.phase = phase].child = agents[a].child
  BY <1>1 DEF AgentLocals
<1>3. \A phase, seen : [agents[a] EXCEPT !.phase = phase, !.seen = seen].child = agents[a].child
  BY <1>1 DEF AgentLocals
<1>4. Failed(a).child \in {agents[a].child, None}
  BY <1>1 DEF Failed, Idle, AgentLocals
<1>5. \A seen : Held(a, seen).child \in {agents[a].child, None}
  BY <1>1 DEF Held, HeldByLauncher, Idle, AgentLocals
<1>6. CASE Load(a)
  <2>1. [agents[a] EXCEPT !.failures = 0].child = agents[a].child
    BY <1>1 DEF AgentLocals
  <2> QED
    BY <1>1, <1>3, <1>6, <2>1, IdleChild, PutChild DEF Load
<1>7. CASE Inspect(a)
  BY <1>1, <1>2, <1>5, <1>7, PutChild DEF Inspect
<1>8. CASE Clear(a) \/ Validate(a)
  BY <1>1, <1>2, <1>3, <1>4, <1>8, PutChild DEF Clear, Validate
<1>9. CASE Verify(a)
  <2>1. [Idle EXCEPT !.phase = "codex", !.child = agents[a].child].child = agents[a].child
    BY DEF Idle
  <2> QED
    BY <1>1, <1>9, <2>1, PutChild DEF Verify
<1>10. CASE GiveUp(a)
  <2>1. \A failures, phase : [Idle EXCEPT !.failures = failures, !.phase = phase].child = None
    BY DEF Idle
  <2> QED
    BY <1>1, <1>10, <2>1, PutChild DEF GiveUp
<1>11. CASE CodexEnds(a)
  BY <1>1, <1>2, <1>11, PutChild DEF CodexEnds
<1>12. CASE ChildEnds(a) \/ Launch(a) \/ LauncherDies(a)
  <2>1. Idle.child = None
    BY DEF Idle
  <2> QED
    BY <1>1, <1>12, <2>1, IdleChild, PutChild DEF ChildEnds, Launch, LauncherDies
<1> QED
  BY <1>6, <1>7, <1>8, <1>9, <1>10, <1>11, <1>12

LEMMA BecomeCalm ==
  ASSUME ProcsOK, NEW p \in Pids, procs[p].phase # "stranger", End(p) \/ \E h : Become(p, h) /\ h # "stranger"
  PROVE  \A q \in Pids : Calm(q)
<1>1. procs[p] \in Processes
  BY DEF ProcsOK
<1>2. CASE End(p)
  <2>1. procs'[p].parent = procs[p].parent /\ procs'[p].phase = "gone"
    BY <1>2 DEF End, ProcsOK, NoProcess
  <2> QED
    BY <1>2, <2>1 DEF End, ProcsOK, Calm
<1>3. CASE \E h : Become(p, h) /\ h # "stranger"
  <2>1. procs'[p].parent = procs[p].parent /\ procs'[p].phase # "stranger"
    BY <1>1, <1>3 DEF Become, ProcsOK, Processes
  <2> QED
    BY <1>3, <2>1 DEF Become, ProcsOK, Calm
<1> QED
  BY <1>2, <1>3

LEMMA SidecarCalm ==
  ASSUME ClaimInv, NEW p \in Pids, SidecarStep(p) \/ SidecarDies(p)
  PROVE  \A q \in Pids : Calm(q)
<1>1. ProcsOK /\ procs[p] \in Processes /\ procs[p].phase # "stranger"
  BY DEF ClaimInv, ProcsOK, SidecarStep, SidecarLoad, SidecarClaim, SidecarListen, SidecarServe,
         SidecarStop, SidecarClose, SidecarRelease, SidecarDies, Sidecar
<1>2. CASE SidecarServe(p)
  <2> DEFINE t == ~Orphan(p)
             q == [procs[p] EXCEPT !.phase = "serving", !.tracked = t]
  <2>1. procs' = [procs EXCEPT ![p] = q]
    BY <1>1, <1>2 DEF SidecarServe, ProcsOK
  <2> HIDE DEF t
  <2>2. q.parent = procs[p].parent /\ q.phase = "serving"
    BY <1>1 DEF Processes
  <2> HIDE DEF q
  <2> QED
    BY <1>1, <2>1, <2>2 DEF ProcsOK, Calm
<1>3. CASE SidecarLoad(p) \/ SidecarClaim(p) \/ SidecarListen(p) \/ SidecarStop(p) \/ SidecarClose(p)
           \/ SidecarRelease(p) \/ SidecarDies(p)
  <2>1. End(p) \/ \E h : Become(p, h) /\ h # "stranger"
    BY <1>3 DEF SidecarLoad, SidecarClaim, SidecarListen, SidecarStop, SidecarClose,
                SidecarRelease, SidecarDies
  <2> QED
    BY <1>1, <2>1, BecomeCalm
<1> QED
  BY <1>2, <1>3 DEF SidecarStep

LEMMA HeardCalm ==
  ASSUME ClaimInv, NEW nonce, NEW shutdown, Heard(nonce, shutdown)
  PROVE  \A q \in Pids : Calm(q)
<1> DEFINE asked == procs[socket].asked \/ shutdown
           new == [procs[socket] EXCEPT !.nonce = nonce, !.asked = asked]
<1>1. procs' = [procs EXCEPT ![socket] = new]
  BY DEF Heard
<1> HIDE DEF asked
<1>2. socket \in Pids => new.parent = procs[socket].parent /\ new.phase = procs[socket].phase
  BY DEF ClaimInv, ProcsOK, Processes
<1> HIDE DEF new
<1> QED
  BY <1>1, <1>2 DEF ClaimInv, ProcsOK, Calm

\* A pid that the system may give away is remembered as nobody's child.
LEMMA FreeIsNoChild ==
  ASSUME ChildIsOwn, NEW p \in Pids, ~Alive(p), ~Zombie(p)
  PROVE  \A b \in Agents : agents[b].child # p
BY ClaimAssumption DEF ChildIsOwn, Zombie, Orphan, Agents

LEMMA SpawnChild ==
  ASSUME ClaimInv, ChildIsOwn, NEW a \in Agents, Spawn(a)
  PROVE  /\ ChildIsOwn'
         /\ \A q \in Pids : procs[q].phase = "stranger" => procs'[q].phase = "stranger"
<1>1. AgentsOK /\ agents[a] \in AgentLocals /\ (\A q : Set(a, q) => Put(a, q)) /\ ProcsOK
  BY DEF ClaimInv, AgentsOK, Set
<1>2. Failed(a).child \in {agents[a].child, None}
  BY <1>1 DEF Failed, Idle, AgentLocals
<1>3. CASE Set(a, Failed(a)) /\ UNCHANGED procs
  BY <1>1, <1>2, <1>3, PutChild, KeptChildIsOwn DEF Calm
<1>4. CASE ~(Set(a, Failed(a)) /\ UNCHANGED procs)
  <2>1. PICK p \in FreePids :
          /\ procs' = [procs EXCEPT ![p] = [NoProcess EXCEPT !.phase = "spawned", !.parent = a,
                                                             !.port = agents[a].seen.port]]
          /\ Set(a, IF a = Supervisor
                    THEN [agents[a] EXCEPT !.phase = "idle", !.seen = Nothing, !.failures = 0]
                    ELSE [agents[a] EXCEPT !.phase = "verifying", !.seen = Nothing, !.child = p])
    BY <1>4 DEF Spawn
  <2>2. p \in Pids /\ ~Alive(p) /\ (~Zombie(p) \/ ~Referred(p))
    BY <2>1 DEF FreePids
  <2>3. \A b \in Agents : agents[b].child # p
    BY <2>2, FreeIsNoChild DEF Referred
  <2>4. procs'[p].parent = a /\ procs'[p].phase = "spawned"
    BY <1>1, <2>1, <2>2 DEF ProcsOK, NoProcess
  <2>5. \A q \in Pids \ {p} : procs'[q] = procs[q]
    BY <1>1, <2>1, <2>2 DEF ProcsOK
  <2>6. agents'[a].child \in {agents[a].child, p}
    <3> DEFINE supervisor == [agents[a] EXCEPT !.phase = "idle", !.seen = Nothing, !.failures = 0]
               launcher == [agents[a] EXCEPT !.phase = "verifying", !.seen = Nothing, !.child = p]
    <3>1. supervisor.child = agents[a].child /\ launcher.child = p
      BY <1>1 DEF AgentLocals
    <3>2. Put(a, IF a = Supervisor THEN supervisor ELSE launcher)
      BY <2>1 DEF Set
    <3> HIDE DEF supervisor, launcher
    <3>3. agents'[a] = IF a = Supervisor THEN supervisor ELSE launcher
      BY <1>1, <3>2, PutIs
    <3> QED
      BY <3>1, <3>3
  <2>7. \A b \in Agents \ {a} : agents'[b] = agents[b]
    BY <1>1, <2>1 DEF AgentsOK, Put
  <2> QED
    BY <2>2, <2>3, <2>4, <2>5, <2>6, <2>7 DEF ChildIsOwn, Alive
<1> QED
  BY <1>3, <1>4

LEMMA WaitedChild ==
  ASSUME ClaimInv, ChildIsOwn, NEW a \in Agents, GiveUp(a) \/ ChildEnds(a)
  PROVE  /\ ChildIsOwn'
         /\ \A q \in Pids : procs[q].phase = "stranger" => procs'[q].phase = "stranger"
<1>1. NoChildNew /\ ProcsOK /\ AgentsOK /\ Waited(agents[a].child)
  BY AgentChild DEF GiveUp, ChildEnds, ClaimInv
<1>2. agents'[a].child = None
  <2>1. PICK q : Put(a, q) /\ q.child = None
    <3>1. \A failures, phase : [Idle EXCEPT !.failures = failures, !.phase = phase].child = None
      BY DEF Idle
    <3>2. Idle.child = None
      BY DEF Idle
    <3>3. CASE GiveUp(a)
      BY <3>1, <3>3 DEF GiveUp, Set
    <3>4. CASE ChildEnds(a)
      BY <3>2, <3>4, IdleChild DEF ChildEnds, Set
    <3> QED
      BY <3>3, <3>4
  <2> QED
    BY <1>1, <2>1, PutIs
<1>3. \A q \in Pids \ {agents[a].child} : procs'[q] = procs[q]
  BY <1>1 DEF Waited, ProcsOK
<1>4. \A b \in Agents : agents'[b].child \in Pids => agents'[b].child # agents[a].child
  BY <1>1, <1>2, ClaimAssumption DEF NoChildNew, ChildIsOwn
<1>5. ChildIsOwn'
  BY <1>1, <1>3, <1>4, KeptChildIsOwn DEF Calm
<1> QED
  BY <1>3, <1>5 DEF ChildIsOwn

LEMMA OrphanedChild ==
  ASSUME ClaimInv, ChildIsOwn, NoChildNew, NEW a \in Agents, procs' = Orphaned(a),
         agents'[a].child \notin Pids
  PROVE  /\ ChildIsOwn'
         /\ \A q \in Pids : procs[q].phase = "stranger" => procs'[q].phase = "stranger"
<1> DEFINE new(p) == [procs[p] EXCEPT !.parent = System]
<1>1. \A p \in Pids : new(p).phase = procs[p].phase
  BY DEF ClaimInv, ProcsOK, Processes
<1>2. \A p \in Pids : procs'[p] = IF procs[p].parent = a THEN new(p) ELSE procs[p]
  BY DEF Orphaned
<1> HIDE DEF new
<1> QED
  BY <1>1, <1>2 DEF ChildIsOwn, NoChildNew

\* Whoever acts, only the fallback of the exit hook ends a stranger.
LEMMA StrangersStep ==
  ASSUME ClaimInv, ChildIsOwn, [Next]_vars
  PROVE  /\ ChildIsOwn'
         /\ leaving.phase # "fallback" =>
              \A q \in Pids : procs[q].phase = "stranger" => procs'[q].phase = "stranger"
<1>1. ProcsOK /\ AgentsOK /\ \A a \in Agents : \A q : Set(a, q) => Put(a, q)
  BY DEF ClaimInv, Set
<1>2. CASE UNCHANGED agents /\ \A q \in Pids : Calm(q)
  BY <1>2, KeptChildIsOwn DEF NoChildNew, Calm
<1>3. CASE \E p \in Pids : PidReused(p)
  <2>1. PICK p \in Pids : PidReused(p)
    BY <1>3
  <2>2. \A q \in Pids \ {p} : procs'[q] = procs[q]
    BY <1>1, <2>1 DEF PidReused, ProcsOK
  <2>3. \A b \in Agents : agents[b].child # p
    BY <2>1, FreeIsNoChild DEF PidReused
  <2>4. procs[p].phase # "stranger" /\ UNCHANGED agents
    BY <2>1 DEF PidReused, Alive
  <2>5. ChildIsOwn'
    BY <2>2, <2>3, <2>4 DEF ChildIsOwn
  <2> QED
    BY <2>2, <2>4, <2>5
<1>4. CASE \E p \in Pids : SidecarStep(p) \/ SidecarDies(p)
  BY <1>2, <1>4, SidecarCalm DEF SidecarStep, SidecarLoad, SidecarClaim, SidecarListen, SidecarServe,
         SidecarStop, SidecarClose, SidecarRelease, SidecarDies
<1>5. CASE \E a \in Agents : Spawn(a) \/ GiveUp(a) \/ ChildEnds(a)
  BY <1>5, SpawnChild, WaitedChild
<1>6. CASE \E a \in Agents : LauncherDies(a)
  <2>1. PICK a \in Agents : LauncherDies(a)
    BY <1>6
  <2>2. agents'[a].child = None
    <3>1. Put(a, [Idle EXCEPT !.phase = "off"])
      BY <2>1 DEF LauncherDies, Set
    <3> QED
      BY <1>1, <3>1, IdleChild, PutIs
  <2> QED
    BY <2>1, <2>2, AgentChild, OrphanedChild, ClaimAssumption DEF LauncherDies
<1>7. CASE \E a \in Agents : Load(a) \/ Inspect(a) \/ Clear(a) \/ Validate(a) \/ Verify(a)
                            \/ CodexEnds(a) \/ Launch(a)
  <2>1. PICK a \in Agents : Load(a) \/ Inspect(a) \/ Clear(a) \/ Validate(a) \/ Verify(a)
                            \/ CodexEnds(a) \/ Launch(a)
    BY <1>7
  <2>2. NoChildNew
    BY <2>1, AgentChild
  <2>3. UNCHANGED procs \/ \E nonce, shutdown : Heard(nonce, shutdown)
    BY <2>1 DEF Load, Inspect, Clear, Validate, Verify, CodexEnds, Launch
  <2>4. \A q \in Pids : Calm(q)
    BY <2>3, HeardCalm DEF Calm
  <2> QED
    BY <2>2, <2>4, KeptChildIsOwn DEF Calm
<1>8. CASE AppStarts
  <2>1. Idle.child = None /\ Put(Supervisor, Idle)
    BY <1>1, <1>8 DEF Idle, AppStarts, Agents
  <2> QED
    BY <1>1, <1>8, <2>1, PutChild, KeptChildIsOwn DEF AppStarts, Agents, Calm
<1>9. CASE AppEnds
  <2>1. [Idle EXCEPT !.phase = "off"].child = None /\ Put(Supervisor, [Idle EXCEPT !.phase = "off"])
    BY <1>1, <1>9, IdleChild DEF AppEnds, Agents
  <2>2. NoChildNew /\ agents'[Supervisor].child = None
    BY <1>1, <2>1, PutChild DEF Agents, Put, AgentsOK
  <2> QED
    BY <1>9, <2>2, OrphanedChild, ClaimAssumption DEF AppEnds, Agents
<1>10. CASE ExitAsks \/ ExitWaits \/ ExitBegins
  BY <1>2, <1>10, HeardCalm DEF ExitAsks, ExitWaits, ExitBegins, Calm
<1>11. CASE ExitTerminates
  <2>1. \A q \in Pids : procs'[q].parent = procs[q].parent
                         /\ (procs'[q].phase = "stranger" => procs[q].phase = "stranger")
    BY <1>1, <1>11 DEF ExitTerminates, End, ProcsOK, NoProcess
  <2> QED
    BY <1>11, <2>1 DEF ExitTerminates, ChildIsOwn
<1>12. CASE UNCHANGED vars \/ ChangeNeed \/ \E port \in Ports : MovePort(port)
  BY <1>2, <1>12 DEF vars, ChangeNeed, MovePort, Calm
<1> QED
  BY <1>3, <1>4, <1>5, <1>6, <1>7, <1>8, <1>9, <1>10, <1>11, <1>12 DEF Next, AgentStep, ExitStep

\* Outside the exit hook nobody ends a process that took over the pid of a
\* sidecar: sidecars end themselves, agents end only the child they have not
\* waited for, whose pid the system cannot have given away
\* (reconcile_gateway_claim, stop_owned_child).
THEOREM StrangersAreSpared == Spec => ReconcileSparesOthers
<1> DEFINE Spared == \A p \in Pids : procs[p].phase = "stranger" /\ leaving.phase # "fallback"
                                    => procs'[p].phase = "stranger"
<1>1. Init => ChildIsOwn
  <2>1. \A a \in Agents : Init => agents[a].child = None
    BY IdleChild DEF Init, Idle
  <2> QED
    BY <2>1, ClaimAssumption DEF ChildIsOwn
<1>2. ClaimInv /\ ChildIsOwn /\ [Next]_vars => ChildIsOwn' /\ [Spared]_vars
  BY StrangersStep
<1> QED
  BY <1>1, <1>2, ClaimInvHolds, PTL DEF Spec, ReconcileSparesOthers
-----------------------------------------------------------------------------
(* The tokens (GatewayTokens) *)

Workings == [at : {"idle", "write", "commit", "unwind", "revoke", "mark"},
             base : SUBSET TokenBindings, rev : 0..MaxRev,
             new : TokenBindings \cup {Nil}, old : Ids \cup {Nil}]

TokensTypes ==
  /\ TokensTypeOK
  /\ store \in [rev : Nat, bindings : SUBSET TokenBindings]
  /\ proc \in [Workers -> Workings]

\* What a worker holds where it is.
Shape(w) ==
  /\ proc[w].at = "idle" => proc[w].new = Nil /\ proc[w].old = Nil
  /\ proc[w].at \in {"write", "unwind"} => proc[w].new # Nil
  /\ proc[w].at \in {"write", "commit"} => proc[w].rev < MaxRev
  /\ proc[w].at \in {"revoke", "mark"} => proc[w].old # Nil /\ proc[w].rev > 0
  /\ proc[w].new # Nil => ~proc[w].new.revoked /\ ~proc[w].new.pending

\* A worker whose revision is the store's has read what is stored.
ReadWhatIsStored(w) ==
  proc[w].at # "idle" =>
    /\ proc[w].rev <= store.rev
    /\ proc[w].rev = store.rev => proc[w].base = store.bindings

\* Generations are drawn no faster than revisions.
GenerationsFit ==
  /\ \A b \in store.bindings : b.generation <= store.rev
  /\ \A w \in Workers : proc[w].at \in {"write", "commit"} /\ proc[w].new # Nil =>
       proc[w].new.generation <= proc[w].rev + 1

\* No two workers add the same binding, and none one that is stored, unless
\* its own commit was reported as failed.
NewIsNew ==
  \A w \in Workers, i \in Ids : Adds(w, i) =>
    /\ \A v \in Workers : Adds(v, i) => v = w
    /\ proc[w].at \in {"write", "commit"} => ~InStore(i)
    /\ proc[w].at = "unwind" /\ InStore(i) => i \in unsure
    /\ proc[w].at = "commit" => i \in secrets

\* What a worker revokes is stored, and stays revoked once it has stored that.
OldIsStored ==
  \A w \in Workers : proc[w].old # Nil =>
    /\ InStore(proc[w].old)
    /\ proc[w].at \in {"revoke", "mark"} =>
         \A b \in store.bindings : b.id = proc[w].old => b.revoked

TokensInv ==
  /\ TokensTypes
  /\ \A w \in Workers : Shape(w) /\ ReadWhatIsStored(w)
  /\ GenerationsFit
  /\ NewIsNew
  /\ OldIsStored
  /\ LiveBindingHasToken
  /\ NoStrayToken
-----------------------------------------------------------------------------
(* The greatest generation exists, so that the next one is a number. *)

LEMMA HasGreatest ==
  ASSUME NEW S, S \subseteq 1..MaxRev, S # {}
  PROVE  \E g \in S : \A h \in S : h <= g
<1> DEFINE T == {MaxRev - g : g \in S}
<1>1. MaxRev \in Nat
  BY TokensAssumption
<1>2. T \subseteq Nat /\ T # {}
  <2>1. \A g \in S : MaxRev - g \in Nat
    BY <1>1
  <2>2. PICK g \in S : TRUE
    OBVIOUS
  <2> QED
    BY <2>1, <2>2
<1> DEFINE Less == {pair \in Nat \X Nat : pair[1] < pair[2]}
<1>3. IsWellFoundedOn(Less, Nat)
  BY NatLessThanWellFounded DEF OpToRel
<1>4. PICK x \in T : \A y \in T : ~(y < x)
  <2>1. PICK x \in T : \A y \in T : ~(<<y, x>> \in Less)
    BY <1>2, <1>3, WFMin
  <2> QED
    BY <1>2, <2>1
<1>5. PICK g \in S : x = MaxRev - g
  OBVIOUS
<1>6. \A h \in S : ~(MaxRev - h < MaxRev - g)
  BY <1>4, <1>5
<1> QED
  BY <1>1, <1>6

LEMMA NextGenerationType ==
  ASSUME TokensInv, NEW p \in Profiles, store.rev < MaxRev
  PROVE  NextGeneration(p) \in 1..MaxRev /\ NextGeneration(p) <= store.rev + 1
<1> DEFINE taken == {b.generation : b \in {c \in store.bindings : c.profile = p}}
<1>1. MaxRev \in Nat /\ store.rev \in Nat
  BY TokensAssumption DEF TokensInv, TokensTypes
<1>2. taken \subseteq 1..MaxRev
  BY DEF TokensInv, TokensTypes, TokenBindings
<1>3. \A g \in taken : g <= store.rev
  BY DEF TokensInv, GenerationsFit
<1>4. CASE taken = {}
  BY <1>1, <1>4 DEF NextGeneration
<1>5. CASE taken # {}
  <2> DEFINE top == CHOOSE g \in taken : \A h \in taken : h <= g
  <2>1. top \in taken
    BY <1>2, <1>5, HasGreatest
  <2>2. NextGeneration(p) = 1 + top
    BY <1>5 DEF NextGeneration
  <2> HIDE DEF top
  <2> QED
    BY <1>1, <1>2, <1>3, <2>1, <2>2
<1> QED
  BY <1>4, <1>5
-----------------------------------------------------------------------------
(* Every call begins in the same way. *)

Begins(w, at, new, old) ==
  /\ Start(w, at, new, old)
  /\ at \in {"write", "commit"}
  /\ new \in TokenBindings \cup {Nil} /\ old \in Ids \cup {Nil}
  /\ at = "write" => new # Nil
  /\ at = "commit" => new = Nil
  /\ new # Nil =>
       /\ ~new.revoked /\ ~new.pending /\ new.generation <= store.rev + 1
       /\ ~InStore(new.id) /\ new.id \notin Drawn
  /\ old # Nil => InStore(old)

Call(w) ==
  \/ Provision(w) \/ Rotate(w) \/ Revoke(w) \/ PrepareCandidate(w)
  \/ PrepareLocked(w) \/ RevokeLocked(w)

LEMMA CandidateType ==
  ASSUME NEW i \in Ids, NEW p \in Profiles, NEW g \in 1..MaxRev, NEW o \in Ops \cup {Nil}
  PROVE  LET c == Candidate(i, p, g, o) IN
         /\ c \in TokenBindings /\ c # Nil /\ ~c.revoked /\ ~c.pending
         /\ c.id = i /\ c.generation = g
<1>1. Candidate(i, p, g, o) \in TokenBindings
  BY DEF Candidate, TokenBindings
<1> QED
  BY <1>1, NoneIsNoBinding DEF Candidate

LEMMA CallBegins ==
  ASSUME TokensInv, NEW w \in Workers, Call(w)
  PROVE  \E at, new, old : Begins(w, at, new, old)
<1>0. store.rev \in Nat /\ MaxRev \in Nat
  BY TokensAssumption DEF TokensInv, TokensTypes
<1>1. CASE Provision(w)
  <2>1. PICK i \in Ids, p \in Profiles :
          /\ ~InStore(i) /\ i \notin Drawn
          /\ Start(w, "write", Candidate(i, p, NextGeneration(p), Nil), Nil)
    BY <1>1 DEF Provision, Fresh
  <2>2. store.rev < MaxRev
    BY <2>1 DEF Start
  <2> QED
    BY <2>1, <2>2, NextGenerationType, CandidateType DEF Begins
<1>2. CASE Rotate(w)
  <2>1. PICK i \in Ids, b \in store.bindings :
          /\ ~InStore(i) /\ i \notin Drawn /\ b.generation < MaxRev
          /\ Start(w, "write", Candidate(i, b.profile, b.generation + 1, Nil), b.id)
    BY <1>2 DEF Rotate, Fresh
  <2>2. b \in TokenBindings /\ b.generation <= store.rev
    BY DEF TokensInv, TokensTypes, GenerationsFit
  <2>3. b.id \in Ids /\ b.profile \in Profiles /\ b.generation + 1 \in 1..MaxRev
        /\ b.generation \in Nat
    BY <1>0, <2>1, <2>2 DEF TokenBindings
  <2>4. InStore(b.id)
    BY DEF InStore
  <2>5. b.generation + 1 <= store.rev + 1
    BY <1>0, <2>2, <2>3
  <2> QED
    BY <2>1, <2>3, <2>4, <2>5, CandidateType DEF Begins
<1>3. CASE Revoke(w) \/ RevokeLocked(w)
  <2>1. PICK b \in store.bindings : Start(w, "commit", Nil, b.id)
    BY <1>3 DEF Revoke, RevokeLocked
  <2>2. b.id \in Ids /\ InStore(b.id)
    BY DEF TokensInv, TokensTypes, TokenBindings, InStore
  <2> QED
    BY <2>1, <2>2 DEF Begins
<1>4. CASE PrepareCandidate(w) \/ PrepareLocked(w)
  <2>1. PICK i \in Ids, p \in Profiles, o \in Ops :
          /\ ~InStore(i) /\ i \notin Drawn
          /\ Start(w, "write", Candidate(i, p, NextGeneration(p), o), Nil)
    BY <1>4 DEF PrepareCandidate, PrepareLocked, Fresh
  <2>2. store.rev < MaxRev
    BY <2>1 DEF Start
  <2> QED
    BY <2>1, <2>2, NextGenerationType, CandidateType DEF Begins
<1> QED
  BY <1>1, <1>2, <1>3, <1>4 DEF Call
-----------------------------------------------------------------------------
(* What is stored when a call gets through the revision check. *)

\* c is what a commit that revokes `old` makes of b.
Keeps(b, c) ==
  /\ c.id = b.id /\ c.profile = b.profile /\ c.generation = b.generation
  /\ (b.revoked => c.revoked) /\ (b.pending => c.pending)

LEMMA FieldTypes ==
  ASSUME TokensInv, NEW w \in Workers
  PROVE  /\ proc[w] \in Workings /\ proc[w].rev \in Nat /\ store.rev \in Nat /\ MaxRev \in Nat
         /\ \A b \in store.bindings : b \in TokenBindings /\ b.id \in Ids
         /\ proc[w].new # Nil => proc[w].new \in TokenBindings /\ proc[w].new.id \in Ids
BY TokensAssumption DEF TokensInv, TokensTypes, Workings, TokenBindings

LEMMA WhatIsCommitted ==
  ASSUME TokensInv, NEW w \in Workers, proc[w].at = "commit", Current(w)
  PROVE  /\ proc[w].rev < MaxRev
         /\ Edited(proc[w]) \subseteq TokenBindings
         /\ proc[w].new # Nil => proc[w].new \in Edited(proc[w])
         /\ \A b \in store.bindings : \E c \in Edited(proc[w]) :
              /\ Keeps(b, c) /\ c.pending = b.pending
              /\ c = b \/ (b.id = proc[w].old /\ c.revoked)
         /\ \A c \in Edited(proc[w]) :
              \/ proc[w].new # Nil /\ c = proc[w].new
              \/ \E b \in store.bindings :
                   /\ Keeps(b, c) /\ c.pending = b.pending
                   /\ c = b \/ (b.id = proc[w].old /\ c.revoked)
                   /\ b.id = proc[w].old => c.revoked
<1> DEFINE q == proc[w]
           Edit(b) == IF b.id = q.old THEN [b EXCEPT !.revoked = TRUE] ELSE b
<1>1. q.base = store.bindings /\ q.rev < MaxRev
  BY DEF TokensInv, ReadWhatIsStored, Shape, Current
<1>2. Edited(q) = {Edit(b) : b \in store.bindings} \cup (IF q.new = Nil THEN {} ELSE {q.new})
  BY <1>1 DEF Edited
<1>3. \A b \in store.bindings :
        /\ Edit(b) \in TokenBindings
        /\ Keeps(b, Edit(b)) /\ Edit(b).pending = b.pending
        /\ Edit(b) = b \/ (b.id = q.old /\ Edit(b).revoked)
        /\ b.id = q.old => Edit(b).revoked
  BY FieldTypes DEF TokenBindings, Keeps
<1>4. q.new # Nil => q.new \in TokenBindings
  BY FieldTypes
<1> HIDE DEF Edit
<1> QED
  BY <1>1, <1>2, <1>3, <1>4

Marked(q) == {IF b.id = q.old THEN [b EXCEPT !.pending = TRUE] ELSE b : b \in q.base}

LEMMA WhatIsMarked ==
  ASSUME TokensInv, NEW w \in Workers, proc[w].at = "mark", Current(w)
  PROVE  /\ Marked(proc[w]) \subseteq TokenBindings
         /\ \A b \in store.bindings : \E c \in Marked(proc[w]) :
              /\ Keeps(b, c) /\ c.revoked = b.revoked
              /\ b.id = proc[w].old => c.pending
         /\ \A c \in Marked(proc[w]) : \E b \in store.bindings :
              /\ Keeps(b, c) /\ c.revoked = b.revoked
              /\ c = b \/ c.pending
<1> DEFINE q == proc[w]
           Mark(b) == IF b.id = q.old THEN [b EXCEPT !.pending = TRUE] ELSE b
<1>1. q.base = store.bindings
  BY DEF TokensInv, ReadWhatIsStored, Current
<1>2. Marked(q) = {Mark(b) : b \in store.bindings}
  BY <1>1 DEF Marked
<1>3. \A b \in store.bindings :
        /\ Mark(b) \in TokenBindings
        /\ Keeps(b, Mark(b)) /\ Mark(b).revoked = b.revoked
        /\ Mark(b) = b \/ Mark(b).pending
        /\ b.id = q.old => Mark(b).pending
  BY FieldTypes DEF TokenBindings, Keeps
<1> HIDE DEF Mark
<1> QED
  BY <1>2, <1>3
-----------------------------------------------------------------------------
(* Every step keeps the invariant. *)

LEMMA CallInv ==
  ASSUME TokensInv, NEW w \in Workers, Call(w)
  PROVE  TokensInv'
<1>1. PICK at, new, old : Begins(w, at, new, old)
  BY CallBegins
<1> DEFINE q == [at |-> at, base |-> store.bindings, rev |-> store.rev, new |-> new, old |-> old]
<1>2. /\ proc[w].at = "idle" /\ store.rev < MaxRev
      /\ proc' = [proc EXCEPT ![w] = q]
      /\ UNCHANGED <<holder, store, secrets, faults, unsure, spoiled>>
  BY <1>1 DEF Begins, Start
<1>3. proc[w].new = Nil /\ proc[w].old = Nil
  BY <1>2 DEF TokensInv, Shape
<1>4. q \in Workings
  BY <1>1, <1>2, FieldTypes DEF Begins, Workings, TokensInv, TokensTypes
<1>5. proc' \in [Workers -> Workings] /\ \A v \in Workers : proc'[v] = IF v = w THEN q ELSE proc[v]
  BY <1>2, <1>4 DEF TokensInv, TokensTypes
<1>6. \A i \in Ids : /\ InStore(i)' <=> InStore(i)
                     /\ \A v \in Workers : Adds(v, i)' <=> IF v = w THEN new # Nil /\ new.id = i ELSE Adds(v, i)
  BY <1>2, <1>5 DEF InStore, Adds
<1>7. TokensTypes'
  BY <1>2, <1>5 DEF TokensInv, TokensTypes, TokensTypeOK, Workings
<1>8. ASSUME NEW v \in Workers PROVE Shape(v)' /\ ReadWhatIsStored(v)'
  <2>1. Shape(v) /\ ReadWhatIsStored(v)
    BY DEF TokensInv
  <2> QED
    BY <1>1, <1>2, <1>5, <2>1 DEF Shape, ReadWhatIsStored, Begins, TokensInv, TokensTypes
<1>9. GenerationsFit'
  BY <1>1, <1>2, <1>5 DEF GenerationsFit, Begins, TokensInv
<1>10. NewIsNew'
  <2>1. new # Nil => \A v \in Workers : ~Adds(v, new.id)
    BY <1>1, <1>4 DEF Begins, Drawn, Workings, TokenBindings
  <2>2. new # Nil => at = "write" /\ ~InStore(new.id)
    BY <1>1 DEF Begins
  <2> QED
    BY <1>2, <1>5, <1>6, <2>1, <2>2 DEF NewIsNew, TokensInv
<1>11. OldIsStored'
  <2>1. at \notin {"revoke", "mark"} /\ (old # Nil => InStore(old) /\ old \in Ids)
    BY <1>1 DEF Begins
  <2>2. \A v \in Workers : proc[v].old # Nil => proc[v].old \in Ids
    BY FieldTypes DEF Workings
  <2> QED
    BY <1>2, <1>5, <1>6, <2>1, <2>2 DEF OldIsStored, TokensInv
<1>12. LiveBindingHasToken'
  BY <1>2 DEF TokensInv, LiveBindingHasToken, AcceptsToken, Serves
<1>13. NoStrayToken'
  BY <1>2, <1>3, <1>5, <1>6, <1>7 DEF TokensInv, NoStrayToken, TokensTypes, TokensTypeOK
<1> QED
  BY <1>7, <1>8, <1>9, <1>10, <1>11, <1>12, <1>13 DEF TokensInv
-----------------------------------------------------------------------------
(* Where a worker goes on to while the binding store stays as it is. *)

Onward(w, at) ==
  /\ proc[w].at # "idle"
  /\ \/ at = "idle"
     \/ proc[w].at = "write" /\ at = "commit"
     \/ proc[w].at = "commit" /\ at = "unwind" /\ proc[w].new # Nil
     \/ proc[w].at = "revoke" /\ at = "mark"

LEMMA Moves ==
  ASSUME TokensInv, NEW w \in Workers, NEW at, Go(w, at),
         at \in {"idle", "write", "commit", "unwind", "revoke", "mark"}
  PROVE  /\ proc' \in [Workers -> Workings]
         /\ \A v \in Workers : v # w => proc'[v] = proc[v]
         /\ proc'[w].at = at
         /\ at = "idle" => proc'[w] = NoWork
         /\ at # "idle" => /\ proc'[w].base = proc[w].base /\ proc'[w].rev = proc[w].rev
                           /\ proc'[w].new = proc[w].new /\ proc'[w].old = proc[w].old
         /\ \A v \in Workers, i \in Ids :
              Adds(v, i)' <=> Adds(v, i) /\ (v = w => at # "idle")
<1> DEFINE q == IF at = "idle" THEN NoWork ELSE [proc[w] EXCEPT !.at = at]
<1>1. proc \in [Workers -> Workings] /\ proc' = [proc EXCEPT ![w] = q]
  BY DEF TokensInv, TokensTypes, Go
<1>2. NoWork \in Workings
  BY FieldTypes DEF NoWork, Workings
<1>3. q \in Workings /\ q.at = at
  BY <1>1, <1>2 DEF Workings, NoWork
<1>4. at # "idle" => /\ q.base = proc[w].base /\ q.rev = proc[w].rev
                     /\ q.new = proc[w].new /\ q.old = proc[w].old
  BY <1>1 DEF Workings
<1>5. at = "idle" => q = NoWork
  OBVIOUS
<1> HIDE DEF q
<1>6. proc' \in [Workers -> Workings] /\ \A v \in Workers : proc'[v] = IF v = w THEN q ELSE proc[v]
  BY <1>1, <1>3
<1>7. NoWork.new = Nil
  BY DEF NoWork
<1> QED
  BY <1>3, <1>4, <1>5, <1>6, <1>7 DEF Adds

LEMMA OnwardKeeps ==
  ASSUME TokensInv, NEW w \in Workers, NEW at, Onward(w, at), Go(w, at), UNCHANGED store
  PROVE  /\ \A v \in Workers : Shape(v)' /\ ReadWhatIsStored(v)'
         /\ GenerationsFit'
         /\ OldIsStored'
         /\ \A i \in Ids : InStore(i)' <=> InStore(i)
<1>1. at \in {"idle", "write", "commit", "unwind", "revoke", "mark"}
  BY DEF Onward
<1>2. /\ \A v \in Workers : v # w => proc'[v] = proc[v]
      /\ proc'[w].at = at
      /\ at = "idle" => proc'[w] = NoWork
      /\ at # "idle" => /\ proc'[w].base = proc[w].base /\ proc'[w].rev = proc[w].rev
                        /\ proc'[w].new = proc[w].new /\ proc'[w].old = proc[w].old
  BY <1>1, Moves
<1>3. NoWork.new = Nil /\ NoWork.old = Nil
  BY DEF NoWork
<1>4. \A v \in Workers : Shape(v) /\ ReadWhatIsStored(v)
  BY DEF TokensInv
<1>5. ASSUME NEW v \in Workers PROVE Shape(v)' /\ ReadWhatIsStored(v)'
  <2>1. CASE v = w
    BY <1>2, <1>3, <1>4, <2>1 DEF Shape, ReadWhatIsStored, Onward
  <2>2. CASE v # w
    BY <1>2, <1>4, <2>2 DEF Shape, ReadWhatIsStored
  <2> QED
    BY <2>1, <2>2
<1>6. GenerationsFit'
  BY <1>2, <1>3 DEF GenerationsFit, TokensInv, Onward
<1>7. \A i \in Ids : InStore(i)' <=> InStore(i)
  BY DEF InStore
<1>8. OldIsStored'
  <2>1. \A v \in Workers : /\ proc'[v].old # Nil => proc'[v].old = proc[v].old
                           /\ proc'[v].at \in {"revoke", "mark"} => proc[v].at \in {"revoke", "mark"}
    BY <1>2, <1>3 DEF Onward
  <2> QED
    BY <2>1 DEF OldIsStored, InStore, TokensInv
<1> QED
  BY <1>5, <1>6, <1>7, <1>8
-----------------------------------------------------------------------------
(* The token is written, the commit refused, the token taken back. *)

LEMMA WriteSecretInv ==
  ASSUME TokensInv, NEW w \in Workers, WriteSecret(w)
  PROVE  TokensInv'
<1>1. proc[w].at = "write" /\ proc[w].new # Nil /\ proc[w].new.id \in Ids
  BY FieldTypes DEF WriteSecret, TokensInv, Shape
<1>2. PICK at \in {"idle", "commit"} :
        /\ Go(w, at) /\ Onward(w, at)
        /\ secrets \subseteq secrets' /\ secrets' \subseteq secrets \cup {proc[w].new.id}
        /\ at = "commit" => proc[w].new.id \in secrets'
        /\ at = "idle" => secrets' = secrets
  BY <1>1 DEF WriteSecret, Onward
<1>3. UNCHANGED <<holder, store, unsure, spoiled>>
  BY DEF WriteSecret
<1>4. /\ \A v \in Workers : Shape(v)' /\ ReadWhatIsStored(v)'
      /\ GenerationsFit' /\ OldIsStored'
      /\ \A i \in Ids : InStore(i)' <=> InStore(i)
  BY <1>2, <1>3, OnwardKeeps
<1>5. /\ proc' \in [Workers -> Workings]
      /\ \A v \in Workers : v # w => proc'[v] = proc[v]
      /\ proc'[w].at = at
      /\ \A v \in Workers, i \in Ids :
              Adds(v, i)' <=> Adds(v, i) /\ (v = w => at # "idle")
  BY <1>2, Moves
<1>6. TokensTypes'
  BY <1>1, <1>2, <1>3, <1>5 DEF TokensInv, TokensTypes, TokensTypeOK, Workings
<1>7. NewIsNew'
  <2> SUFFICES ASSUME NEW v \in Workers, NEW i \in Ids, Adds(v, i)'
               PROVE  /\ \A u \in Workers : Adds(u, i)' => u = v
                      /\ proc'[v].at \in {"write", "commit"} => ~InStore(i)'
                      /\ proc'[v].at = "unwind" /\ InStore(i)' => i \in unsure'
                      /\ proc'[v].at = "commit" => i \in secrets'
    BY DEF NewIsNew
  <2>1. /\ Adds(v, i)
        /\ \A u \in Workers : Adds(u, i) => u = v
        /\ proc[v].at \in {"write", "commit"} => ~InStore(i)
        /\ proc[v].at = "unwind" /\ InStore(i) => i \in unsure
        /\ proc[v].at = "commit" => i \in secrets
    BY <1>5 DEF NewIsNew, TokensInv
  <2>2. v = w => i = proc[w].new.id /\ at = "commit"
    BY <1>2, <1>5, <2>1 DEF Adds
  <2> QED
    BY <1>1, <1>2, <1>3, <1>4, <1>5, <2>1, <2>2
<1>8. LiveBindingHasToken'
  BY <1>2, <1>3 DEF TokensInv, LiveBindingHasToken, AcceptsToken, Serves
<1>9. NoStrayToken'
  <2> SUFFICES ASSUME NEW i \in secrets', i \notin spoiled
               PROVE  \/ \E b \in store.bindings : b.id = i /\ (~b.revoked \/ b.pending)
                      \/ \E v \in Workers : Adds(v, i)' /\ proc'[v].at \in {"commit", "unwind"}
                      \/ \E v \in Workers : proc'[v].old = i /\ proc'[v].at \in {"revoke", "mark"}
    BY <1>3, <1>6 DEF NoStrayToken, TokensTypes
  <2>1. CASE i \notin secrets
    <3>1. i = proc[w].new.id /\ i \in Ids /\ at = "commit"
      BY <1>1, <1>2, <2>1
    <3>2. Adds(w, i)
      BY <1>1, <3>1 DEF Adds
    <3> QED
      BY <1>5, <3>1, <3>2
  <2>2. CASE i \in secrets
    <3>1. i \in Ids
      BY <2>2 DEF TokensInv, TokensTypes, TokensTypeOK
    <3> QED
      BY <1>1, <1>5, <2>2, <3>1 DEF TokensInv, NoStrayToken
  <2> QED
    BY <2>1, <2>2
<1> QED
  BY <1>4, <1>6, <1>7, <1>8, <1>9 DEF TokensInv

\* What a worker leaves behind when it goes on or ends.
LEMMA LeavesInv ==
  ASSUME TokensInv, NEW w \in Workers, NEW at, Onward(w, at), at # "commit", Go(w, at),
         UNCHANGED <<store, unsure>>, holder' \in Workers \cup {Nil},
         secrets' \subseteq secrets, spoiled \subseteq spoiled', spoiled' \subseteq Ids,
         \A i \in secrets \ secrets' :
           \/ proc[w].at = "unwind" /\ Adds(w, i)
           \/ proc[w].at = "revoke" /\ proc[w].old = i,
         at = "idle" => \A i \in secrets' \ spoiled' :
           /\ ~(proc[w].at \in {"commit", "unwind"} /\ Adds(w, i))
           /\ ~(proc[w].at \in {"revoke", "mark"} /\ proc[w].old = i)
  PROVE  TokensInv'
<1>1. /\ \A v \in Workers : Shape(v)' /\ ReadWhatIsStored(v)'
      /\ GenerationsFit' /\ OldIsStored'
      /\ \A i \in Ids : InStore(i)' <=> InStore(i)
  BY OnwardKeeps
<1>2. at \in {"idle", "write", "commit", "unwind", "revoke", "mark"}
  BY DEF Onward
<1>3. /\ proc' \in [Workers -> Workings]
      /\ \A v \in Workers : v # w => proc'[v] = proc[v]
      /\ proc'[w].at = at
      /\ at # "idle" => proc'[w].old = proc[w].old
      /\ \A v \in Workers, i \in Ids :
              Adds(v, i)' <=> Adds(v, i) /\ (v = w => at # "idle")
  BY <1>2, Moves
<1>4. secrets \subseteq Ids
  BY DEF TokensInv, TokensTypes, TokensTypeOK
<1>5. TokensTypes'
  BY <1>3, <1>4 DEF TokensInv, TokensTypes, TokensTypeOK, Workings
<1>6. NewIsNew'
  <2> SUFFICES ASSUME NEW v \in Workers, NEW i \in Ids, Adds(v, i)'
               PROVE  /\ \A u \in Workers : Adds(u, i)' => u = v
                      /\ proc'[v].at \in {"write", "commit"} => ~InStore(i)'
                      /\ proc'[v].at = "unwind" /\ InStore(i)' => i \in unsure'
                      /\ proc'[v].at = "commit" => i \in secrets'
    BY DEF NewIsNew
  <2>1. /\ Adds(v, i)
        /\ \A u \in Workers : Adds(u, i) => u = v
        /\ proc[v].at \in {"write", "commit"} => ~InStore(i)
        /\ proc[v].at = "unwind" /\ InStore(i) => i \in unsure
        /\ proc[v].at = "commit" => i \in secrets
    BY <1>3 DEF NewIsNew, TokensInv
  <2>2. CASE v = w
    BY <1>1, <1>3, <2>1, <2>2 DEF Onward
  <2>3. CASE v # w
    <3>1. ~Adds(w, i)
      BY <2>1, <2>3
    <3>2. proc[w].at = "revoke" /\ proc[w].old = i => InStore(i)
      <4>1. Nil # i
        BY TokensAssumption
      <4> QED
        BY <4>1 DEF OldIsStored, TokensInv
    <3> QED
      BY <1>1, <1>3, <2>1, <2>3, <3>1, <3>2
  <2> QED
    BY <2>2, <2>3
<1>7. LiveBindingHasToken'
  <2> SUFFICES ASSUME NEW b \in store.bindings, AcceptsToken(b), b.id \notin unsure
               PROVE  b.id \in secrets'
    BY DEF LiveBindingHasToken, Serves, AcceptsToken
  <2>1. b.id \in secrets /\ b.id \in Ids
    BY FieldTypes DEF TokensInv, LiveBindingHasToken, Serves
  <2>2. ~(proc[w].at = "unwind" /\ Adds(w, b.id))
    BY <2>1 DEF TokensInv, NewIsNew, InStore
  <2>3. ~(proc[w].at = "revoke" /\ proc[w].old = b.id)
    <3>1. b.id # Nil
      BY <2>1, TokensAssumption
    <3> QED
      BY <3>1 DEF TokensInv, OldIsStored, AcceptsToken
  <2> QED
    BY <2>1, <2>2, <2>3
<1>8. NoStrayToken'
  <2> SUFFICES ASSUME NEW i \in secrets', i \notin spoiled'
               PROVE  \/ \E b \in store.bindings : b.id = i /\ (~b.revoked \/ b.pending)
                      \/ \E v \in Workers : Adds(v, i)' /\ proc'[v].at \in {"commit", "unwind"}
                      \/ \E v \in Workers : proc'[v].old = i /\ proc'[v].at \in {"revoke", "mark"}
    BY <1>5 DEF NoStrayToken, TokensTypes
  <2>1. i \in secrets \ spoiled /\ i \in Ids
    BY <1>4
  <2>2. CASE \E b \in store.bindings : b.id = i /\ (~b.revoked \/ b.pending)
    BY <2>2
  <2>3. CASE \E v \in Workers : Adds(v, i) /\ proc[v].at \in {"commit", "unwind"}
    <3>1. PICK v \in Workers : Adds(v, i) /\ proc[v].at \in {"commit", "unwind"}
      BY <2>3
    <3>2. v = w => at = "unwind"
      BY <3>1 DEF Onward
    <3> QED
      BY <1>3, <2>1, <3>1, <3>2
  <2>4. CASE \E v \in Workers : proc[v].old = i /\ proc[v].at \in {"revoke", "mark"}
    <3>1. PICK v \in Workers : proc[v].old = i /\ proc[v].at \in {"revoke", "mark"}
      BY <2>4
    <3>2. v = w => at = "mark"
      BY <3>1 DEF Onward
    <3> QED
      BY <1>3, <3>1, <3>2
  <2> QED
    BY <2>1, <2>2, <2>3, <2>4 DEF TokensInv, NoStrayToken
<1> QED
  BY <1>1, <1>5, <1>6, <1>7, <1>8 DEF TokensInv

LEMMA TokensLeaveInv ==
  ASSUME TokensInv, NEW w \in Workers,
         CommitRefused(w) \/ Unwind(w) \/ RevokeOld(w) \/ MarkRefused(w) \/ Die(w)
  PROVE  TokensInv'
<1>1. /\ holder \in Workers \cup {Nil} /\ spoiled \subseteq Ids
      /\ proc[w].old \in Ids \cup {Nil}
      /\ proc[w].new # Nil => proc[w].new.id \in Ids
  BY FieldTypes DEF TokensInv, TokensTypes, TokensTypeOK, Workings
<1>2. proc[w].at \in {"revoke", "mark"} => proc[w].old \in Ids
  BY <1>1 DEF TokensInv, Shape
<1>3. proc[w].at = "unwind" => proc[w].new # Nil
  BY DEF TokensInv, Shape
<1>4. CASE CommitRefused(w)
  <2>1. Onward(w, AfterRefusal(w)) /\ AfterRefusal(w) # "commit"
    BY <1>4 DEF CommitRefused, AfterRefusal, Onward
  <2>2. AfterRefusal(w) = "idle" => \A i : ~Adds(w, i)
    BY DEF AfterRefusal, Adds
  <2>3. /\ proc[w].at = "commit" /\ Go(w, AfterRefusal(w))
        /\ UNCHANGED <<holder, store, secrets, unsure, spoiled>>
    BY <1>4 DEF CommitRefused
  <2> HIDE DEF AfterRefusal
  <2> QED
    BY <1>1, <2>1, <2>2, <2>3, LeavesInv
<1>5. CASE Unwind(w)
  <2>1. Onward(w, "idle")
    BY <1>5 DEF Unwind, Onward
  <2>2. \A i : Adds(w, i) <=> i = proc[w].new.id
    BY <1>3, <1>5 DEF Unwind, Adds
  <2>3. /\ proc[w].at = "unwind" /\ Go(w, "idle")
        /\ UNCHANGED <<holder, store, unsure>>
        /\ \/ secrets' = secrets \ {proc[w].new.id} /\ spoiled' = spoiled
           \/ spoiled' = spoiled \cup {proc[w].new.id} /\ secrets' = secrets
    BY <1>5 DEF Unwind
  <2> QED
    BY <1>1, <1>3, <2>1, <2>2, <2>3, LeavesInv
<1>6. CASE RevokeOld(w)
  <2>1. PICK at \in {"idle", "mark"} :
          /\ Go(w, at)
          /\ at = "idle" => secrets' = secrets \ {proc[w].old}
          /\ at = "mark" => secrets' = secrets
    BY <1>6 DEF RevokeOld
  <2>2. /\ proc[w].at = "revoke" /\ UNCHANGED <<holder, store, unsure, spoiled>>
    BY <1>6 DEF RevokeOld
  <2>3. Onward(w, at) /\ at # "commit"
    BY <2>1, <2>2 DEF Onward
  <2> QED
    BY <1>1, <2>1, <2>2, <2>3, LeavesInv
<1>7. CASE MarkRefused(w)
  <2>1. /\ proc[w].at = "mark" /\ Go(w, "idle") /\ Onward(w, "idle")
        /\ UNCHANGED <<holder, store, secrets, unsure>>
        /\ spoiled' = spoiled \cup {proc[w].old}
    BY <1>7 DEF MarkRefused, Onward
  <2> QED
    BY <1>1, <1>2, <2>1, LeavesInv
<1>8. CASE Die(w)
  <2>1. /\ Go(w, "idle") /\ Onward(w, "idle")
        /\ UNCHANGED <<store, secrets, unsure>>
        /\ spoiled' = spoiled \cup {i \in Ids : Adds(w, i) \/ proc[w].old = i}
        /\ holder' \in {Nil, holder}
    BY <1>8 DEF Die, Onward
  <2>2. secrets \subseteq Ids
    BY DEF TokensInv, TokensTypes, TokensTypeOK
  <2> QED
    BY <1>1, <2>1, <2>2, LeavesInv
<1> QED
  BY <1>4, <1>5, <1>6, <1>7, <1>8
-----------------------------------------------------------------------------
(* A commit gets through: what is stored is what was read, and edited. *)

Stored(value) == store' = [rev |-> store.rev + 1, bindings |-> value]

\* The worker whose commit got through goes on to p.
LEMMA CommittedInv ==
  ASSUME TokensInv, NEW w \in Workers, proc[w].at = "commit", Current(w),
         Stored(Edited(proc[w])),
         NEW p \in Workings, proc' = [proc EXCEPT ![w] = p],
         UNCHANGED <<holder, secrets>>,
         unsure \subseteq unsure', spoiled \subseteq spoiled', unsure' \cup spoiled' \subseteq Ids,
         p.new \in {Nil, proc[w].new} /\ p.old \in {Nil, proc[w].old},
         \/ p.at = "idle" /\ p.new = Nil /\ p.old = Nil
         \/ /\ p.at = "unwind" /\ p.new # Nil
            /\ \A i \in Ids : Adds(w, i) => i \in unsure'
            /\ p.rev = proc[w].rev
         \/ /\ p.at = "revoke" /\ p.old # Nil
            /\ p.rev = store.rev + 1 /\ p.base = store'.bindings,
         proc[w].old # Nil => (p.at = "revoke" /\ p.old = proc[w].old) \/ proc[w].old \in spoiled'
  PROVE  TokensInv'
<1> DEFINE r == proc[w]
<1>1. /\ r.rev < MaxRev
      /\ Edited(r) \subseteq TokenBindings
      /\ r.new # Nil => r.new \in Edited(r)
      /\ \A b \in store.bindings : \E c \in Edited(r) :
           /\ Keeps(b, c) /\ c.pending = b.pending
           /\ c = b \/ (b.id = r.old /\ c.revoked)
      /\ \A c \in Edited(r) :
           \/ r.new # Nil /\ c = r.new
           \/ \E b \in store.bindings :
                /\ Keeps(b, c) /\ c.pending = b.pending
                /\ c = b \/ (b.id = r.old /\ c.revoked)
                /\ b.id = r.old => c.revoked
  BY WhatIsCommitted
<1> HIDE DEF r
<1>2. /\ store.rev \in Nat /\ MaxRev \in Nat /\ store.rev = r.rev
      /\ \A v \in Workers : proc[v] \in Workings /\ proc[v].rev \in Nat
                            /\ (proc[v].new # Nil => proc[v].new.id \in Ids)
      /\ \A i \in Ids : i # Nil
  BY FieldTypes, TokensAssumption DEF Current, r
<1>3. /\ store'.rev = store.rev + 1 /\ store'.bindings = Edited(r)
      /\ store' \in [rev : Nat, bindings : SUBSET TokenBindings]
  BY <1>1, <1>2 DEF Stored, r
<1>4. proc' \in [Workers -> Workings] /\ \A v \in Workers : proc'[v] = IF v = w THEN p ELSE proc[v]
  BY DEF TokensInv, TokensTypes
<1>5. /\ r.at = "commit" /\ r = proc[w]
      /\ r.new # Nil => /\ r.new.id \in Ids /\ ~r.new.revoked /\ ~r.new.pending
                        /\ Adds(w, r.new.id) /\ r.new.id \in secrets /\ ~InStore(r.new.id)
                        /\ r.new.generation <= store.rev + 1
  <2>1. r.new # Nil => r.new.id \in Ids /\ Adds(w, r.new.id)
    BY <1>2 DEF r, Adds
  <2>2. r.new # Nil => ~r.new.revoked /\ ~r.new.pending /\ r.new.generation <= store.rev + 1
    BY <1>2 DEF r, TokensInv, Shape, GenerationsFit
  <2>3. r.new # Nil => r.new.id \in secrets /\ ~InStore(r.new.id)
    BY <2>1 DEF r, TokensInv, NewIsNew
  <2> QED
    BY <2>1, <2>2, <2>3 DEF r
<1>6. \A i \in Ids : /\ InStore(i) => InStore(i)'
                     /\ InStore(i)' => InStore(i) \/ (r.new # Nil /\ i = r.new.id)
  BY <1>1, <1>3 DEF InStore, Keeps
<1>7. \A v \in Workers, i \in Ids :
        Adds(v, i)' => Adds(v, i) /\ (v = w => p.new = r.new /\ p.at # "idle")
  BY <1>4, <1>5 DEF Adds
<1>8. TokensTypes'
  BY <1>2, <1>1, <1>3, <1>4 DEF TokensInv, TokensTypes, TokensTypeOK, Workings
<1>9. ASSUME NEW v \in Workers PROVE Shape(v)' /\ ReadWhatIsStored(v)'
  <2>1. Shape(v) /\ ReadWhatIsStored(v) /\ proc[v].rev \in Nat
    BY <1>2 DEF TokensInv
  <2>2. CASE v # w
    BY <1>2, <1>3, <1>4, <2>1, <2>2 DEF Shape, ReadWhatIsStored
  <2>3. CASE v = w
    BY <1>2, <1>3, <1>4, <1>5, <2>1, <2>3 DEF Shape, ReadWhatIsStored
  <2> QED
    BY <2>2, <2>3
<1>10. GenerationsFit'
  <2>1. \A b \in store.bindings : b.generation <= store.rev /\ b.generation \in Nat
    BY FieldTypes DEF TokensInv, GenerationsFit, TokenBindings
  <2>2. \A c \in store'.bindings : c.generation <= store'.rev
    BY <1>1, <1>2, <1>3, <1>5, <2>1 DEF Keeps
  <2>3. p.at \notin {"write", "commit"}
    OBVIOUS
  <2>4. \A v \in Workers : proc[v].at \in {"write", "commit"} /\ proc[v].new # Nil =>
          proc[v].new.generation <= proc[v].rev + 1
    BY DEF TokensInv, GenerationsFit
  <2> QED
    BY <1>4, <2>2, <2>3, <2>4 DEF GenerationsFit
<1>11. NewIsNew'
  <2> SUFFICES ASSUME NEW v \in Workers, NEW i \in Ids, Adds(v, i)'
               PROVE  /\ \A u \in Workers : Adds(u, i)' => u = v
                      /\ proc'[v].at \in {"write", "commit"} => ~InStore(i)'
                      /\ proc'[v].at = "unwind" /\ InStore(i)' => i \in unsure'
                      /\ proc'[v].at = "commit" => i \in secrets'
    BY DEF NewIsNew
  <2>1. /\ Adds(v, i)
        /\ \A u \in Workers : Adds(u, i) => u = v
        /\ proc[v].at \in {"write", "commit"} => ~InStore(i)
        /\ proc[v].at = "unwind" /\ InStore(i) => i \in unsure
        /\ proc[v].at = "commit" => i \in secrets
    BY <1>7 DEF NewIsNew, TokensInv
  <2>2. CASE v = w
    BY <1>4, <1>7, <2>1, <2>2
  <2>3. CASE v # w
    <3>1. r.new # Nil => i # r.new.id
      BY <1>5, <2>1, <2>3
    <3> QED
      BY <1>4, <1>6, <1>7, <2>1, <2>3, <3>1
  <2> QED
    BY <2>2, <2>3
<1>12. OldIsStored'
  <2> SUFFICES ASSUME NEW v \in Workers, proc'[v].old # Nil
               PROVE  /\ \E b \in store'.bindings : b.id = proc'[v].old
                      /\ proc'[v].at \in {"revoke", "mark"} =>
                           \A b \in store'.bindings : b.id = proc'[v].old => b.revoked
    BY DEF OldIsStored, InStore
  <2>1. /\ proc'[v].old = proc[v].old /\ proc[v].old \in Ids
        /\ v # w => proc'[v] = proc[v]
    BY <1>2, <1>4, <1>5 DEF Workings
  <2>2. /\ InStore(proc[v].old)
        /\ proc[v].at \in {"revoke", "mark"} =>
             \A b \in store.bindings : b.id = proc[v].old => b.revoked
    BY <2>1 DEF OldIsStored, TokensInv
  <2>3. \E b \in store'.bindings : b.id = proc'[v].old
    BY <1>6, <2>1, <2>2 DEF InStore
  <2>4. ASSUME proc'[v].at \in {"revoke", "mark"}, NEW c \in store'.bindings, c.id = proc'[v].old
        PROVE  c.revoked
    <3>1. ~(r.new # Nil /\ c = r.new)
      BY <1>5, <2>1, <2>2, <2>4
    <3>2. PICK b \in store.bindings : Keeps(b, c) /\ (b.id = r.old => c.revoked)
      BY <1>1, <1>3, <3>1
    <3>3. b.id = proc[v].old
      BY <2>1, <2>4, <3>2 DEF Keeps
    <3>4. v = w => b.id = r.old
      BY <1>5, <3>3
    <3>5. v # w => b.revoked
      BY <2>1, <2>2, <2>4, <3>3
    <3> QED
      BY <3>2, <3>4, <3>5 DEF Keeps
  <2> QED
    BY <2>3, <2>4
<1>13. LiveBindingHasToken'
  <2> SUFFICES ASSUME NEW c \in store'.bindings, ~c.revoked, ~c.pending, c.id \notin unsure'
               PROVE  c.id \in secrets'
    BY DEF LiveBindingHasToken, Serves, AcceptsToken
  <2>1. CASE r.new # Nil /\ c = r.new
    BY <1>5, <2>1
  <2>2. CASE c \in store.bindings
    BY <2>2 DEF TokensInv, LiveBindingHasToken, Serves, AcceptsToken
  <2> QED
    BY <1>1, <1>3, <2>1, <2>2
<1>14. NoStrayToken'
  <2> SUFFICES ASSUME NEW i \in secrets, i \notin spoiled'
               PROVE  \/ \E c \in store'.bindings : c.id = i /\ (~c.revoked \/ c.pending)
                      \/ \E v \in Workers : Adds(v, i)' /\ proc'[v].at \in {"commit", "unwind"}
                      \/ \E v \in Workers : proc'[v].old = i /\ proc'[v].at \in {"revoke", "mark"}
    BY <1>8 DEF NoStrayToken, TokensTypes
  <2>1. i \in secrets \ spoiled /\ i \in Ids
    BY DEF TokensInv, TokensTypes, TokensTypeOK
  <2>2. CASE \E b \in store.bindings : b.id = i /\ (~b.revoked \/ b.pending)
    <3>1. PICK b \in store.bindings : b.id = i /\ (~b.revoked \/ b.pending)
      BY <2>2
    <3>2. PICK c \in store'.bindings :
            /\ Keeps(b, c) /\ c.pending = b.pending
            /\ c = b \/ (b.id = r.old /\ c.revoked)
      BY <1>1, <1>3
    <3>3. CASE c = b
      BY <3>1, <3>2, <3>3
    <3>4. CASE b.id = r.old
      <4>1. r.old # Nil
        BY <1>2, <2>1, <3>1, <3>4
      <4>2. p.at = "revoke" /\ p.old = i
        BY <1>5, <3>1, <3>4, <4>1
      <4> QED
        BY <1>4, <4>2
    <3> QED
      BY <3>2, <3>3, <3>4
  <2>3. CASE \E v \in Workers : Adds(v, i) /\ proc[v].at \in {"commit", "unwind"}
    <3>1. PICK v \in Workers : Adds(v, i) /\ proc[v].at \in {"commit", "unwind"}
      BY <2>3
    <3>2. CASE v = w
      <4>1. r.new # Nil /\ r.new.id = i
        BY <1>5, <3>1, <3>2 DEF Adds
      <4> QED
        BY <1>1, <1>3, <1>5, <4>1
    <3>3. CASE v # w
      <4>1. proc'[v] = proc[v]
        BY <1>4, <3>3
      <4> QED
        BY <3>1, <4>1 DEF Adds
    <3> QED
      BY <3>2, <3>3
  <2>4. CASE \E v \in Workers : proc[v].old = i /\ proc[v].at \in {"revoke", "mark"}
    BY <1>4, <1>5, <2>4
  <2> QED
    BY <2>1, <2>2, <2>3, <2>4 DEF TokensInv, NoStrayToken
<1> QED
  BY <1>8, <1>9, <1>10, <1>11, <1>12, <1>13, <1>14 DEF TokensInv

LEMMA CommitInv ==
  ASSUME TokensInv, NEW w \in Workers, Commit(w) \/ CommitUnsynced(w)
  PROVE  TokensInv'
<1> DEFINE r == proc[w]
           done == [r EXCEPT !.at = "revoke", !.rev = store.rev + 1, !.base = store'.bindings]
           undo == [r EXCEPT !.at = "unwind"]
<1>1. /\ r.at = "commit" /\ Current(w) /\ Stored(Edited(r))
      /\ UNCHANGED <<holder, secrets>>
  BY DEF Commit, CommitUnsynced, Swap, Stored
<1>2. /\ r \in Workings /\ r.rev < MaxRev /\ Edited(r) \subseteq TokenBindings
      /\ MaxRev \in Nat /\ r.rev \in Nat /\ store.rev = r.rev
  BY <1>1, FieldTypes, WhatIsCommitted DEF Current
<1>3. store'.bindings = Edited(r)
  BY <1>1 DEF Stored
<1>4. /\ NoWork \in Workings /\ NoWork.at = "idle" /\ NoWork.new = Nil /\ NoWork.old = Nil
      /\ done \in Workings /\ done.at = "revoke" /\ done.new = r.new /\ done.old = r.old
      /\ done.rev = store.rev + 1 /\ done.base = store'.bindings
      /\ undo \in Workings /\ undo.at = "unwind" /\ undo.new = r.new /\ undo.old = r.old
      /\ undo.rev = r.rev
  <2>1. store.rev + 1 \in 0..MaxRev /\ store'.bindings \in SUBSET TokenBindings
    BY <1>2, <1>3
  <2>2. /\ NoWork \in Workings /\ NoWork.at = "idle" /\ NoWork.new = Nil /\ NoWork.old = Nil
    BY <1>2 DEF NoWork, Workings
  <2>3. /\ done \in Workings /\ done.at = "revoke" /\ done.new = r.new /\ done.old = r.old
        /\ done.rev = store.rev + 1 /\ done.base = store'.bindings
    BY <1>2, <2>1 DEF Workings
  <2>4. /\ undo \in Workings /\ undo.at = "unwind" /\ undo.new = r.new /\ undo.old = r.old
        /\ undo.rev = r.rev
    BY <1>2 DEF Workings
  <2> QED
    BY <2>2, <2>3, <2>4
<1>5. unsure \subseteq Ids /\ spoiled \subseteq Ids /\ r.old \in Ids \cup {Nil}
  BY <1>2 DEF TokensInv, TokensTypes, TokensTypeOK, Workings
<1>6. CASE Commit(w)
  <2>1. unsure' = unsure /\ spoiled' = spoiled
        /\ proc' = [proc EXCEPT ![w] = IF r.old = Nil THEN NoWork ELSE done]
    BY <1>6 DEF Commit, AfterCommit
  <2> HIDE DEF done, undo
  <2>2. CASE r.old = Nil
    BY <1>1, <1>4, <1>5, <2>1, <2>2, CommittedInv
  <2>3. CASE r.old # Nil
    BY <1>1, <1>4, <1>5, <2>1, <2>3, CommittedInv
  <2> QED
    BY <2>2, <2>3
<1>7. CASE CommitUnsynced(w)
  <2>1. /\ unsure' = unsure \cup {i \in Ids : Adds(w, i)}
        /\ spoiled' = spoiled \cup {i \in Ids : r.old = i}
        /\ proc' = [proc EXCEPT ![w] = IF r.new = Nil THEN NoWork ELSE undo]
    BY <1>7 DEF CommitUnsynced, AfterRefusal, Go
  <2>2. unsure' \cup spoiled' \subseteq Ids /\ (r.old # Nil => r.old \in spoiled')
    BY <1>5, <2>1
  <2> HIDE DEF done, undo
  <2>3. CASE r.new = Nil
    BY <1>1, <1>4, <2>1, <2>2, <2>3, CommittedInv
  <2>4. CASE r.new # Nil
    BY <1>1, <1>4, <2>1, <2>2, <2>4, CommittedInv
  <2> QED
    BY <2>3, <2>4
<1> QED
  BY <1>6, <1>7

LEMMA MarkPendingInv ==
  ASSUME TokensInv, NEW w \in Workers, MarkPending(w)
  PROVE  TokensInv'
<1> DEFINE r == proc[w]
<1>1. /\ r.at = "mark" /\ Current(w) /\ Stored(Marked(r)) /\ Go(w, "idle")
      /\ UNCHANGED <<holder, secrets, unsure, spoiled>>
  BY DEF MarkPending, Swap, Stored, Marked
<1>2. /\ Marked(r) \subseteq TokenBindings
      /\ \A b \in store.bindings : \E c \in Marked(r) :
           /\ Keeps(b, c) /\ c.revoked = b.revoked
           /\ b.id = r.old => c.pending
      /\ \A c \in Marked(r) : \E b \in store.bindings :
           /\ Keeps(b, c) /\ c.revoked = b.revoked
           /\ c = b \/ c.pending
  BY <1>1, WhatIsMarked
<1>3. /\ store.rev \in Nat /\ MaxRev \in Nat /\ store.rev = r.rev /\ r.rev <= MaxRev /\ r.rev > 0
      /\ r.old \in Ids /\ InStore(r.old)
      /\ \A v \in Workers : proc[v].rev \in Nat /\ (proc[v].new # Nil => proc[v].new.id \in Ids)
                            /\ proc[v].old \in Ids \cup {Nil}
  <2>1. \A v \in Workers : /\ proc[v] \in Workings /\ proc[v].rev \in Nat
                           /\ (proc[v].new # Nil => proc[v].new.id \in Ids)
    BY FieldTypes
  <2>2. r.old # Nil /\ r.rev > 0
    BY <1>1 DEF TokensInv, Shape
  <2>3. InStore(r.old)
    BY <2>2 DEF TokensInv, OldIsStored
  <2> QED
    BY <1>1, <2>1, <2>2, <2>3, FieldTypes DEF Workings, Current
<1> HIDE DEF r
<1>4. /\ store'.rev = store.rev + 1 /\ store'.bindings = Marked(r)
      /\ store' \in [rev : Nat, bindings : SUBSET TokenBindings]
  BY <1>1, <1>2, <1>3 DEF Stored, r
<1>5. /\ proc' \in [Workers -> Workings]
      /\ \A v \in Workers : v # w => proc'[v] = proc[v]
      /\ proc'[w] = NoWork
      /\ \A v \in Workers, i \in Ids : Adds(v, i)' <=> Adds(v, i) /\ v # w
  BY <1>1, Moves
<1>6. NoWork.at = "idle" /\ NoWork.new = Nil /\ NoWork.old = Nil
  BY DEF NoWork
<1>7. \A i \in Ids : InStore(i)' <=> InStore(i)
  BY <1>2, <1>4 DEF InStore, Keeps
<1>8. TokensTypes'
  BY <1>1, <1>2, <1>3, <1>4, <1>5 DEF TokensInv, TokensTypes, TokensTypeOK, Workings
<1>9. ASSUME NEW v \in Workers PROVE Shape(v)' /\ ReadWhatIsStored(v)'
  <2>1. Shape(v) /\ ReadWhatIsStored(v) /\ proc[v].rev \in Nat
    BY <1>3 DEF TokensInv
  <2> QED
    BY <1>3, <1>4, <1>5, <1>6, <2>1 DEF Shape, ReadWhatIsStored
<1>10. GenerationsFit'
  <2>1. \A b \in store.bindings : b.generation <= store.rev /\ b.generation \in Nat
    BY FieldTypes DEF TokensInv, GenerationsFit, TokenBindings
  <2>2. \A c \in store'.bindings : c.generation <= store'.rev
    BY <1>2, <1>3, <1>4, <2>1 DEF Keeps
  <2> QED
    BY <1>5, <1>6, <2>2 DEF GenerationsFit, TokensInv
<1>11. NewIsNew'
  BY <1>1, <1>5, <1>7 DEF NewIsNew, TokensInv
<1>12. OldIsStored'
  <2> SUFFICES ASSUME NEW v \in Workers, proc'[v].old # Nil
               PROVE  /\ \E b \in store'.bindings : b.id = proc'[v].old
                      /\ proc'[v].at \in {"revoke", "mark"} =>
                           \A b \in store'.bindings : b.id = proc'[v].old => b.revoked
    BY DEF OldIsStored, InStore
  <2>1. proc'[v] = proc[v] /\ proc[v].old \in Ids
    BY <1>3, <1>5, <1>6
  <2>2. /\ InStore(proc[v].old)
        /\ proc[v].at \in {"revoke", "mark"} =>
             \A b \in store.bindings : b.id = proc[v].old => b.revoked
    BY <2>1 DEF OldIsStored, TokensInv
  <2> QED
    BY <1>2, <1>4, <1>7, <2>1, <2>2 DEF InStore, Keeps
<1>13. LiveBindingHasToken'
  BY <1>1, <1>2, <1>4 DEF LiveBindingHasToken, Serves, AcceptsToken, TokensInv
<1>14. NoStrayToken'
  <2> SUFFICES ASSUME NEW i \in secrets, i \notin spoiled
               PROVE  \/ \E c \in store'.bindings : c.id = i /\ (~c.revoked \/ c.pending)
                      \/ \E v \in Workers : Adds(v, i)' /\ proc'[v].at \in {"commit", "unwind"}
                      \/ \E v \in Workers : proc'[v].old = i /\ proc'[v].at \in {"revoke", "mark"}
    BY <1>1, <1>8 DEF NoStrayToken, TokensTypes
  <2>1. i \in Ids
    BY DEF TokensInv, TokensTypes, TokensTypeOK
  <2>2. CASE \E b \in store.bindings : b.id = i /\ (~b.revoked \/ b.pending)
    BY <1>2, <1>4, <2>2 DEF Keeps
  <2>3. CASE \E v \in Workers : Adds(v, i) /\ proc[v].at \in {"commit", "unwind"}
    BY <1>1, <1>5, <2>1, <2>3 DEF r
  <2>4. CASE i = r.old
    <3>1. PICK b \in store.bindings : b.id = i
      BY <1>3, <2>4 DEF InStore
    <3>2. PICK c \in store'.bindings : Keeps(b, c) /\ c.pending
      BY <1>2, <1>4, <2>4, <3>1
    <3> QED
      BY <3>1, <3>2 DEF Keeps
  <2>5. CASE \E v \in Workers : proc[v].old = i /\ proc[v].at \in {"revoke", "mark"} /\ v # w
    BY <1>5, <2>5
  <2> QED
    BY <2>2, <2>3, <2>4, <2>5 DEF TokensInv, NoStrayToken, r
<1> QED
  BY <1>8, <1>9, <1>10, <1>11, <1>12, <1>13, <1>14 DEF TokensInv
-----------------------------------------------------------------------------
(* The invariant holds throughout. *)

LEMMA LockInv ==
  ASSUME TokensInv, UNCHANGED <<store, secrets, proc, unsure, spoiled>>,
         holder' \in Workers \cup {Nil}
  PROVE  TokensInv'
<1>1. TokensTypes'
  BY DEF TokensInv, TokensTypes, TokensTypeOK
<1>2. /\ \A i : InStore(i)' <=> InStore(i)
      /\ \A v \in Workers, i \in Ids : Adds(v, i)' <=> Adds(v, i)
  BY DEF InStore, Adds
<1>3. ASSUME NEW v \in Workers PROVE Shape(v)' /\ ReadWhatIsStored(v)'
  BY DEF TokensInv, Shape, ReadWhatIsStored
<1>4. GenerationsFit' /\ OldIsStored'
  BY DEF TokensInv, GenerationsFit, OldIsStored, InStore
<1>5. NewIsNew'
  BY <1>2 DEF TokensInv, NewIsNew
<1>6. LiveBindingHasToken'
  BY DEF TokensInv, LiveBindingHasToken, AcceptsToken, Serves
<1>7. NoStrayToken'
  BY <1>1 DEF TokensInv, NoStrayToken, TokensTypes, Adds
<1> QED
  BY <1>1, <1>3, <1>4, <1>5, <1>6, <1>7 DEF TokensInv

LEMMA TokensInitInv ==
  TokensInit => TokensInv
<1> SUFFICES ASSUME TokensInit PROVE TokensInv
  OBVIOUS
<1>1. MaxRev \in Nat
  BY TokensAssumption
<1>2. /\ holder = Nil /\ store.rev = 0 /\ store.bindings = {} /\ secrets = {}
      /\ store \in [rev : Nat, bindings : SUBSET TokenBindings]
      /\ unsure = {} /\ spoiled = {}
  BY DEF TokensInit
<1>3. NoWork \in Workings /\ NoWork.at = "idle" /\ NoWork.new = Nil /\ NoWork.old = Nil
  BY <1>1 DEF NoWork, Workings
<1>4. proc \in [Workers -> Workings] /\ \A w \in Workers : proc[w] = NoWork
  BY <1>3 DEF TokensInit
<1>5. TokensTypes
  BY <1>1, <1>2, <1>4 DEF TokensTypes, TokensTypeOK, Workings
<1> QED
  BY <1>2, <1>3, <1>4, <1>5
     DEF TokensInv, TokensTypes, Shape, ReadWhatIsStored, GenerationsFit, NewIsNew, OldIsStored,
         LiveBindingHasToken, NoStrayToken, Adds

LEMMA TokensStepInv ==
  TokensInv /\ [TokensNext]_tokenVars => TokensInv'
<1> SUFFICES ASSUME TokensInv, [TokensNext]_tokenVars PROVE TokensInv'
  OBVIOUS
<1>1. ASSUME NEW w \in Workers, AcquireLock(w) \/ ReleaseLock(w)
      PROVE  TokensInv'
  BY <1>1, LockInv DEF AcquireLock, ReleaseLock
<1>2. ASSUME NEW w \in Workers, Call(w)
      PROVE  TokensInv'
  BY <1>2, CallInv
<1>3. ASSUME NEW w \in Workers, WriteSecret(w)
      PROVE  TokensInv'
  BY <1>3, WriteSecretInv
<1>4. ASSUME NEW w \in Workers, Commit(w) \/ CommitUnsynced(w)
      PROVE  TokensInv'
  BY <1>4, CommitInv
<1>5. ASSUME NEW w \in Workers,
             CommitRefused(w) \/ Unwind(w) \/ RevokeOld(w) \/ MarkRefused(w) \/ Die(w)
      PROVE  TokensInv'
  BY <1>5, TokensLeaveInv
<1>6. ASSUME NEW w \in Workers, MarkPending(w)
      PROVE  TokensInv'
  BY <1>6, MarkPendingInv
<1>7. CASE UNCHANGED tokenVars
  BY <1>7, LockInv DEF tokenVars, TokensInv, TokensTypes, TokensTypeOK
<1> QED
  BY <1>1, <1>2, <1>3, <1>4, <1>5, <1>6, <1>7 DEF TokensNext, Call

LEMMA TokensInvariant == TokensSpec => []TokensInv
<1> QED
  BY TokensInitInv, TokensStepInv, PTL DEF TokensSpec

\* A token and its binding fit together in every state: a binding the Gateway
\* would accept has its token, and a token without a live or marked binding
\* belongs to a call under way, up to what the failures kept in unsure and
\* spoiled leave.  The calls of gateway/binding.rs write the token first and
\* take it back when the compare-and-swap of the store fails.
THEOREM TokensFit == TokensSpec => []TokensMatchBindings
<1>1. TokensInv => TokensMatchBindings
  BY DEF TokensInv, TokensMatchBindings
<1> QED
  BY <1>1, TokensInvariant, PTL

LEMMA StoreStays ==
  ASSUME NEW w \in Workers,
         \/ AcquireLock(w) \/ ReleaseLock(w) \/ Call(w) \/ WriteSecret(w) \/ CommitRefused(w)
         \/ Unwind(w) \/ RevokeOld(w) \/ MarkRefused(w) \/ Die(w)
  PROVE  store' = store
BY DEF AcquireLock, ReleaseLock, Call, Provision, Rotate, Revoke, PrepareCandidate,
       PrepareLocked, RevokeLocked, Start, WriteSecret, CommitRefused, Unwind,
       RevokeOld, MarkRefused, Die

LEMMA StepUndoesNothing ==
  TokensInv /\ [TokensNext]_tokenVars =>
    \A b \in store.bindings : \E c \in store'.bindings : Keeps(b, c)
<1> SUFFICES ASSUME TokensInv, [TokensNext]_tokenVars,
                    NEW b \in store.bindings
             PROVE  \E c \in store'.bindings : Keeps(b, c)
  OBVIOUS
<1>1. CASE store' = store
  BY <1>1 DEF Keeps
<1>2. ASSUME NEW w \in Workers, Commit(w) \/ CommitUnsynced(w)
      PROVE  \E c \in store'.bindings : Keeps(b, c)
  <2>1. proc[w].at = "commit" /\ Current(w) /\ store'.bindings = Edited(proc[w])
    BY <1>2 DEF Commit, CommitUnsynced, Swap
  <2> QED
    BY <2>1, WhatIsCommitted
<1>3. ASSUME NEW w \in Workers, MarkPending(w)
      PROVE  \E c \in store'.bindings : Keeps(b, c)
  <2>1. proc[w].at = "mark" /\ Current(w) /\ store'.bindings = Marked(proc[w])
    BY <1>3 DEF MarkPending, Swap, Marked
  <2> QED
    BY <2>1, WhatIsMarked
<1>4. ASSUME NEW w \in Workers,
             \/ AcquireLock(w) \/ ReleaseLock(w) \/ Call(w) \/ WriteSecret(w) \/ CommitRefused(w)
             \/ Unwind(w) \/ RevokeOld(w) \/ MarkRefused(w) \/ Die(w)
      PROVE  store' = store
  BY <1>4, StoreStays
<1> QED
  BY <1>1, <1>2, <1>3, <1>4 DEF TokensNext, Call, tokenVars

\* No step drops a stored binding, brings a revoked one back or takes a mark
\* away: what a call writes is the whole collection, and the revision check
\* lets it through only when what it read is what is stored.
THEOREM NothingUndone == TokensSpec => NothingIsUndone
<1>1. TokensInv /\ [TokensNext]_tokenVars =>
        [\A b \in store.bindings : \E c \in store'.bindings :
           /\ c.id = b.id /\ c.profile = b.profile /\ c.generation = b.generation
           /\ (b.revoked => c.revoked) /\ (b.pending => c.pending)]_tokenVars
  BY StepUndoesNothing DEF Keeps
<1> QED
  BY <1>1, TokensInvariant, PTL DEF TokensSpec, NothingIsUndone
-----------------------------------------------------------------------------
(* Every call takes effect at once (BindingRegister): what it checked when  *)
(* it read the store holds of the store that takes its write.              *)

FollowsIn(base, g, p) ==
  LET older == {b.generation : b \in {c \in base : c.profile = p}} IN
  /\ \A h \in older : h < g
  /\ g = 1 \/ \E h \in older : g = h + 1

IsBorn(b) == b = Candidate(b.id, b.profile, b.generation, b.op)

\* q, a worker's call, checked the bindings it read.
ProvidesIn(base, b) ==
  /\ IsBorn(b) /\ FollowsIn(base, b.generation, b.profile)
  /\ IF b.op = Nil THEN \A c \in base : c.profile = b.profile => c.revoked
                   ELSE \A c \in base : c.op # b.op
ReplacesIn(base, i, b) ==
  \E c \in base : /\ c.id = i /\ ~c.revoked
                  /\ b = Candidate(b.id, c.profile, c.generation + 1, Nil)
HasChecked(q) ==
  q.new # Nil => IF q.old = Nil THEN ProvidesIn(q.base, q.new)
                                ELSE ReplacesIn(q.base, q.old, q.new)

CallsHaveChecked ==
  \A w \in Workers : proc[w].at \in {"write", "commit"} => HasChecked(proc[w])

LEMMA NextGenerationFollows ==
  ASSUME TokensInv, NEW p \in Profiles
  PROVE  FollowsIn(store.bindings, NextGeneration(p), p)
<1> DEFINE taken == {b.generation : b \in {c \in store.bindings : c.profile = p}}
<1>1. taken \subseteq 1..MaxRev /\ MaxRev \in Nat
  BY TokensAssumption DEF TokensInv, TokensTypes, TokenBindings
<1>2. CASE taken = {}
  <2>1. NextGeneration(p) = 1
    BY <1>2 DEF NextGeneration
  <2> QED
    BY <1>2, <2>1 DEF FollowsIn
<1>3. CASE taken # {}
  <2> DEFINE top == CHOOSE g \in taken : \A h \in taken : h <= g
  <2>1. top \in taken /\ \A h \in taken : h <= top
    BY <1>1, <1>3, HasGreatest
  <2>2. NextGeneration(p) = 1 + top
    BY <1>3 DEF NextGeneration
  <2> HIDE DEF top
  <2> HIDE DEF taken
  <2>3. \A h \in taken : h < 1 + top
    BY <1>1, <2>1
  <2>4. 1 + top = top + 1
    BY <1>1, <2>1
  <2> QED
    BY <2>1, <2>2, <2>3, <2>4 DEF FollowsIn, taken
<1> QED
  BY <1>2, <1>3

LEMMA CandidateIsBorn ==
  ASSUME NEW i, NEW p, NEW g, NEW o
  PROVE  LET c == Candidate(i, p, g, o) IN
         IsBorn(c) /\ c.id = i /\ c.profile = p /\ c.generation = g /\ c.op = o
BY DEF IsBorn, Candidate

LEMMA CallHasChecked ==
  ASSUME TokensInv, NEW w \in Workers, Call(w)
  PROVE  \E q : /\ proc' = [proc EXCEPT ![w] = q]
                /\ HasChecked(q)
<1> DEFINE Opens(new, old) == [at |-> "write", base |-> store.bindings, rev |-> store.rev,
                               new |-> new, old |-> old]
<1>1. CASE Provision(w)
  <2>1. PICK i \in Ids, p \in Profiles :
          /\ LiveOf(p) = {}
          /\ Start(w, "write", Candidate(i, p, NextGeneration(p), Nil), Nil)
    BY <1>1 DEF Provision
  <2> DEFINE new == Candidate(i, p, NextGeneration(p), Nil)
  <2>2. ProvidesIn(store.bindings, new)
    BY <2>1, NextGenerationFollows, CandidateIsBorn DEF ProvidesIn, LiveOf
  <2>3. proc' = [proc EXCEPT ![w] = Opens(new, Nil)]
    BY <2>1 DEF Start
  <2> HIDE DEF new
  <2>4. HasChecked(Opens(new, Nil))
    BY <2>2 DEF HasChecked
  <2> QED
    BY <2>3, <2>4
<1>2. CASE Rotate(w)
  <2>1. PICK i \in Ids, b \in store.bindings :
          /\ ~b.revoked
          /\ Start(w, "write", Candidate(i, b.profile, b.generation + 1, Nil), b.id)
    BY <1>2 DEF Rotate
  <2> DEFINE new == Candidate(i, b.profile, b.generation + 1, Nil)
  <2>2. new = Candidate(new.id, b.profile, b.generation + 1, Nil)
    BY CandidateIsBorn
  <2>3. b.id # Nil
    BY TokensAssumption DEF TokensInv, TokensTypes, TokenBindings
  <2>4. proc' = [proc EXCEPT ![w] = Opens(new, b.id)]
    BY <2>1 DEF Start
  <2> HIDE DEF new
  <2>5. ReplacesIn(store.bindings, b.id, new)
    BY <2>1, <2>2 DEF ReplacesIn
  <2>6. HasChecked(Opens(new, b.id))
    BY <2>3, <2>5 DEF HasChecked
  <2> QED
    BY <2>4, <2>6
<1>3. CASE Revoke(w) \/ RevokeLocked(w)
  <2>1. PICK b \in store.bindings : Start(w, "commit", Nil, b.id)
    BY <1>3 DEF Revoke, RevokeLocked
  <2> DEFINE q == [at |-> "commit", base |-> store.bindings, rev |-> store.rev,
                   new |-> Nil, old |-> b.id]
  <2>2. proc' = [proc EXCEPT ![w] = q]
    BY <2>1 DEF Start
  <2>3. HasChecked(q)
    BY DEF HasChecked
  <2> HIDE DEF q
  <2> QED
    BY <2>2, <2>3
<1>4. CASE PrepareCandidate(w) \/ PrepareLocked(w)
  <2>1. PICK i \in Ids, p \in Profiles, o \in Ops :
          /\ \A b \in store.bindings : b.op # o
          /\ Start(w, "write", Candidate(i, p, NextGeneration(p), o), Nil)
    BY <1>4 DEF PrepareCandidate, PrepareLocked
  <2> DEFINE new == Candidate(i, p, NextGeneration(p), o)
  <2>2. ProvidesIn(store.bindings, new)
    BY <2>1, NextGenerationFollows, CandidateIsBorn, TokensAssumption DEF ProvidesIn
  <2>3. proc' = [proc EXCEPT ![w] = Opens(new, Nil)]
    BY <2>1 DEF Start
  <2> HIDE DEF new
  <2>4. HasChecked(Opens(new, Nil))
    BY <2>2 DEF HasChecked
  <2> QED
    BY <2>3, <2>4
<1> QED
  BY <1>1, <1>2, <1>3, <1>4 DEF Call

LEMMA CheckedStep ==
  ASSUME TokensInv, CallsHaveChecked, [TokensNext]_tokenVars
  PROVE  CallsHaveChecked'
<1> SUFFICES ASSUME NEW v \in Workers, proc'[v].at \in {"write", "commit"}
             PROVE  HasChecked(proc'[v])
  BY DEF CallsHaveChecked, HasChecked
<1>1. proc[v] \in Workings /\ proc \in [Workers -> Workings]
  BY DEF TokensInv, TokensTypes
<1>2. CASE proc' = proc
  BY <1>2 DEF CallsHaveChecked
<1>3. ASSUME NEW w \in Workers, Call(w)
      PROVE  HasChecked(proc'[v])
  <2>1. PICK q : proc' = [proc EXCEPT ![w] = q] /\ HasChecked(q)
    BY <1>3, CallHasChecked
  <2>2. CASE v = w
    BY <1>1, <2>1, <2>2
  <2>3. CASE v # w
    BY <1>1, <2>1, <2>3 DEF CallsHaveChecked
  <2> QED
    BY <2>2, <2>3
<1>4. ASSUME NEW w \in Workers, proc[w].at = "write", Go(w, "commit")
      PROVE  HasChecked(proc'[v])
  <2>1. proc'[v] = IF v = w THEN [proc[w] EXCEPT !.at = "commit"] ELSE proc[v]
    BY <1>1, <1>4 DEF Go
  <2>2. HasChecked(proc[v])
    BY <1>4, <2>1 DEF CallsHaveChecked
  <2> DEFINE q == [proc[v] EXCEPT !.at = "commit"]
  <2>3. q.base = proc[v].base /\ q.new = proc[v].new /\ q.old = proc[v].old
    BY <1>1 DEF Workings
  <2> HIDE DEF q
  <2>4. HasChecked(q)
    BY <2>2, <2>3 DEF HasChecked
  <2> QED
    BY <2>1, <2>2, <2>4 DEF q
<1>5. ASSUME NEW w \in Workers, NEW q,
             proc' = [proc EXCEPT ![w] = q], q.at \notin {"write", "commit"}
      PROVE  HasChecked(proc'[v])
  <2>1. v # w /\ proc'[v] = proc[v]
    BY <1>1, <1>5
  <2> QED
    BY <2>1 DEF CallsHaveChecked
<1>6. ASSUME NEW w \in Workers, NEW at \in {"idle", "unwind", "revoke", "mark"}, Go(w, at)
      PROVE  HasChecked(proc'[v])
  <2> DEFINE q == IF at = "idle" THEN NoWork ELSE [proc[w] EXCEPT !.at = at]
  <2>1. proc' = [proc EXCEPT ![w] = q]
    BY <1>6 DEF Go
  <2>2. q.at \notin {"write", "commit"}
    BY <1>1 DEF NoWork, Workings, TokensInv, TokensTypes
  <2> HIDE DEF q
  <2> QED
    BY <1>5, <2>1, <2>2
<1>7. ASSUME NEW w \in Workers, Commit(w)
      PROVE  HasChecked(proc'[v])
  <2> DEFINE q == IF AfterCommit(w) = "idle" THEN NoWork
                  ELSE [proc[w] EXCEPT !.at = "revoke", !.rev = store.rev + 1,
                                       !.base = store'.bindings]
  <2>1. proc' = [proc EXCEPT ![w] = q]
    BY <1>7 DEF Commit
  <2>2. q.at \notin {"write", "commit"}
    BY <1>1 DEF NoWork, Workings, TokensInv, TokensTypes
  <2> HIDE DEF q
  <2> QED
    BY <1>5, <2>1, <2>2
<1>8. ASSUME NEW w \in Workers, AcquireLock(w) \/ ReleaseLock(w)
      PROVE  proc' = proc
  BY <1>8 DEF AcquireLock, ReleaseLock
<1>9. ASSUME NEW w \in Workers, WriteSecret(w)
      PROVE  HasChecked(proc'[v])
  BY <1>4, <1>6, <1>9 DEF WriteSecret
<1>10. ASSUME NEW w \in Workers,
              \/ CommitRefused(w) \/ CommitUnsynced(w) \/ Unwind(w) \/ RevokeOld(w)
              \/ MarkPending(w) \/ MarkRefused(w) \/ Die(w)
       PROVE  HasChecked(proc'[v])
  BY <1>6, <1>10 DEF CommitRefused, CommitUnsynced, Unwind, RevokeOld, MarkPending,
                     MarkRefused, Die, AfterRefusal
<1> QED
  BY <1>2, <1>3, <1>7, <1>8, <1>9, <1>10 DEF TokensNext, Call, tokenVars

LEMMA CommitTakesEffect ==
  ASSUME TokensInv, CallsHaveChecked, NEW w \in Workers,
         proc[w].at = "commit", Current(w), store'.bindings = Edited(proc[w])
  PROVE  Register!RegisterNext \/ UNCHANGED store.bindings
<1> DEFINE q == proc[w]
<1>1. q.base = store.bindings /\ HasChecked(q)
  BY DEF TokensInv, ReadWhatIsStored, Current, CallsHaveChecked
<1>2. /\ \A b \in store.bindings : b.id \in Ids
      /\ Nil \notin Ids /\ q.old \in Ids \cup {Nil}
      /\ q.new # Nil => q.new.id \in Ids
  BY FieldTypes, TokensAssumption DEF Workings
<1>3. q.new # Nil => ~InStore(q.new.id)
  BY <1>2 DEF TokensInv, NewIsNew, Adds
<1>4. q.old # Nil => InStore(q.old)
  BY DEF TokensInv, OldIsStored
<1>5. store'.bindings = {IF b.id = q.old THEN [b EXCEPT !.revoked = TRUE] ELSE b : b \in store.bindings}
                          \cup (IF q.new = Nil THEN {} ELSE {q.new})
  BY <1>1 DEF Edited
<1>6. q.old # Nil =>
        store'.bindings = Register!Revoked(q.old) \cup (IF q.new = Nil THEN {} ELSE {q.new})
  BY <1>5 DEF Register!Revoked
<1>7. q.old = Nil =>
        store'.bindings = store.bindings \cup (IF q.new = Nil THEN {} ELSE {q.new})
  BY <1>2, <1>5
<1> HIDE DEF q
<1>8. CASE q.new = Nil /\ q.old = Nil
  BY <1>7, <1>8
<1>9. CASE q.new = Nil /\ q.old # Nil
  <2>1. Register!Revoke(q.old)
    BY <1>4, <1>6, <1>9 DEF Register!Revoke, Register!Taken, InStore
  <2> QED
    BY <1>2, <1>9, <2>1 DEF Register!RegisterNext
<1>10. CASE q.new # Nil /\ q.old = Nil
  <2>1. ProvidesIn(store.bindings, q.new)
    BY <1>1, <1>10 DEF HasChecked
  <2>2. Register!IsNext(q.new.generation, q.new.profile)
    BY <2>1 DEF ProvidesIn, FollowsIn, Register!IsNext
  <2>3. q.new = Register!Born(q.new.id, q.new.profile, q.new.generation, q.new.op)
    BY <2>1 DEF ProvidesIn, IsBorn, Candidate, Register!Born
  <2>4. ~Register!Taken(q.new.id)
    BY <1>3, <1>10 DEF Register!Taken, InStore
  <2>5. store'.bindings = store.bindings \cup {q.new}
    BY <1>7, <1>10
  <2>6. Register!Provide(q.new)
    BY <2>1, <2>2, <2>3, <2>4, <2>5 DEF ProvidesIn, Register!Provide
  <2>7. q.new \in store'.bindings
    BY <2>5
  <2> QED
    BY <2>6, <2>7 DEF Register!RegisterNext
<1>11. CASE q.new # Nil /\ q.old # Nil
  <2>1. PICK c \in store.bindings :
          /\ c.id = q.old /\ ~c.revoked
          /\ q.new = Candidate(q.new.id, c.profile, c.generation + 1, Nil)
    BY <1>1, <1>11 DEF HasChecked, ReplacesIn
  <2>2. q.new = Register!Born(q.new.id, c.profile, c.generation + 1, Nil)
    BY <2>1 DEF Candidate, Register!Born
  <2>3. ~Register!Taken(q.new.id)
    BY <1>3, <1>11 DEF Register!Taken, InStore
  <2>4. store'.bindings = Register!Revoked(q.old) \cup {q.new}
    BY <1>6, <1>11
  <2>5. Register!Replace(q.old, q.new)
    BY <2>1, <2>2, <2>3, <2>4 DEF Register!Replace
  <2>6. q.new \in store'.bindings /\ q.old \in Ids
    BY <1>2, <1>11, <2>4
  <2> QED
    BY <2>5, <2>6 DEF Register!RegisterNext
<1> QED
  BY <1>8, <1>9, <1>10, <1>11

LEMMA MarkTakesEffect ==
  ASSUME TokensInv, NEW w \in Workers,
         proc[w].at = "mark", Current(w), store'.bindings = Marked(proc[w])
  PROVE  Register!RegisterNext
<1>1. proc[w].base = store.bindings
  BY DEF TokensInv, ReadWhatIsStored, Current
<1>2. proc[w].old # Nil /\ proc[w].old \in Ids
  BY FieldTypes DEF TokensInv, Shape, Workings
<1>3. /\ InStore(proc[w].old)
      /\ \A b \in store.bindings : b.id = proc[w].old => b.revoked
  BY <1>2 DEF TokensInv, OldIsStored
<1>4. store'.bindings = Register!Marked(proc[w].old)
  BY <1>1 DEF Marked, Register!Marked
<1>5. Register!Mark(proc[w].old)
  BY <1>3, <1>4 DEF Register!Mark, Register!Taken, InStore
<1> QED
  BY <1>2, <1>5 DEF Register!RegisterNext

\* Every call takes effect at once: the bindings change as if each call had
\* read, checked and written them in one step, whoever else changes them in
\* between, with the lock or without it, and however the call ends
\* (compare_and_swap of storage.rs, under the calls of gateway/binding.rs).
THEOREM CallsAreAtomic == TokensSpec => CallsTakeEffectAtOnce
<1>1. TokensInit => CallsHaveChecked
  BY DEF TokensInit, CallsHaveChecked, NoWork
<1>2. TokensInit => Register!RegisterInit
  BY DEF TokensInit, Register!RegisterInit
<1>3. TokensInv /\ CallsHaveChecked /\ [TokensNext]_tokenVars =>
        [Register!RegisterNext]_(store.bindings)
  <2> SUFFICES ASSUME TokensInv, CallsHaveChecked, [TokensNext]_tokenVars
               PROVE  Register!RegisterNext \/ UNCHANGED store.bindings
    OBVIOUS
  <2>1. CASE store' = store
    BY <2>1
  <2>2. ASSUME NEW w \in Workers, Commit(w) \/ CommitUnsynced(w)
        PROVE  Register!RegisterNext \/ UNCHANGED store.bindings
    <3>1. proc[w].at = "commit" /\ Current(w) /\ store'.bindings = Edited(proc[w])
      BY <2>2 DEF Commit, CommitUnsynced, Swap
    <3> QED
      BY <3>1, CommitTakesEffect
  <2>3. ASSUME NEW w \in Workers, MarkPending(w)
        PROVE  Register!RegisterNext
    <3>1. proc[w].at = "mark" /\ Current(w) /\ store'.bindings = Marked(proc[w])
      BY <2>3 DEF MarkPending, Swap, Marked
    <3> QED
      BY <3>1, MarkTakesEffect
  <2>4. ASSUME NEW w \in Workers,
               \/ AcquireLock(w) \/ ReleaseLock(w) \/ Call(w) \/ WriteSecret(w)
               \/ CommitRefused(w) \/ Unwind(w) \/ RevokeOld(w) \/ MarkRefused(w) \/ Die(w)
        PROVE  store' = store
    BY <2>4, StoreStays
  <2> QED
    BY <2>1, <2>2, <2>3, <2>4 DEF TokensNext, Call, tokenVars
<1>4. TokensInv /\ CallsHaveChecked /\ [TokensNext]_tokenVars => CallsHaveChecked'
  BY CheckedStep
<1> QED
  BY <1>1, <1>2, <1>3, <1>4, TokensInvariant, PTL
     DEF TokensSpec, CallsTakeEffectAtOnce, Register!RegisterSpec
===============================================================================
