--------------------------- MODULE AccountHomesProofs ---------------------------
(* Proofs about AccountHomes, for any names and any bounds: no account is lost,  *)
(* a switch that is reported is whole, and a start repairs the scripts.          *)
EXTENDS AccountHomes, TLAPS

-----------------------------------------------------------------------------
(* The inductive invariant *)

Steps ==
  {"mkdir", "tree", "f", "auth", "config", "mark", "meta", "bad date", "wrapper", "move", "unwrap",
   "unmark", "list", "end processes", "remove home", "drop note", "drop meta", "note",
   "main auth", "timeline", "main f", "repair"}
Kinds == {"none", "add", "upload", "create", "rename", "delete", "note", "switch", "session", "start"}
Operations == [kind : Kinds, n : Names \cup {""}, m : Names \cup {""}, owner : Owners,
               todo : Seq(Steps), raced : BOOLEAN]
SwitchEvents == [account : Names, open : BOOLEAN]

Types ==
  /\ TypeOK
  /\ op \in Operations
  /\ timeline \in Seq(SwitchEvents)
  /\ used \in [ops : Nat, faults : Nat]

HasStep(kind, step) ==
  \/ kind = "add" /\ step \in {"mkdir", "tree", "f", "auth", "config", "mark", "meta", "bad date", "wrapper"}
  \/ kind = "upload" /\ step \in {"auth", "meta"}
  \/ kind = "create" /\ step \in {"mkdir", "tree", "mark", "wrapper"}
  \/ kind = "rename" /\ step \in {"move", "wrapper", "unwrap", "mark", "unmark", "list"}
  \/ kind = "delete" /\ step \in {"end processes", "remove home", "unwrap", "drop note", "drop meta", "list"}
  \/ kind = "note" /\ step \in {"note", "list"}
  \/ kind = "switch" /\ step \in {"main auth", "timeline", "main f"}
  \/ kind = "session" /\ step = "f"
  \/ kind = "start" /\ step = "repair"

\* What is left of a command: a home is made or moved first, and a rename
\* marks the home as LAM's before the old mark goes.
Fits(todo, kind) ==
  /\ todo \in Seq(Steps)
  /\ \A i \in DOMAIN todo : HasStep(kind, todo[i])
  /\ \A i \in DOMAIN todo : todo[i] \in {"mkdir", "move"} => i = 1
  /\ \A i, j \in DOMAIN todo : todo[i] = "unmark" /\ todo[j] = "mark" => j < i
  /\ kind = "switch" => \A i \in DOMAIN todo :
       /\ todo[i] = "main auth" => Len(todo) = i + 2
       /\ todo[i] = "timeline" => Len(todo) = i + 1
       /\ todo[i] = "main f" => Len(todo) = i

Remains(step) == \E i \in DOMAIN op.todo : op.todo[i] = step
HomeKinds == {"add", "create", "rename", "upload", "session"}

\* The running command, and the homes it works in.
Commands ==
  /\ op # Idle => op.todo # <<>> /\ Fits(op.todo, op.kind) /\ last = Nothing
  /\ op.kind \notin {"none", "start"} =>
       op.n \in Names /\ op.m \in Names /\ (op.kind # "rename" => op.n = op.m)
  /\ op.kind \in HomeKinds => At("mkdir") \/ At("move") \/ Exists(op.m)
  /\ At("move") => op.n # op.m /\ Exists(op.n) /\ ~Exists(op.m)

\* No two homes have the same account, every account that counts is whole in
\* one, and an account that is being added is new.
Accounts ==
  /\ \A n, m \in Names : home[n].auth = home[m].auth /\ home[n].auth # 0 => n = m
  /\ \A k \in kept : k # 0 /\ \E n \in Names : home[n].auth = k /\ Whole(n)
  /\ used.ops \in 0..MaxOps
  /\ \A n \in Names : home[n].auth <= used.ops + 1
  /\ marked \subseteq 1..(used.ops + 1)
  /\ op.kind \in {"add", "upload"} =>
       /\ op.owner \in 1..(used.ops + 1) /\ home[op.n].auth \in {0, op.owner}
       /\ \A n \in Names \ {op.n} : home[n].auth # op.owner
       /\ op.owner \in marked => home[op.n].auth = op.owner
       /\ home[op.n].auth = op.owner => At("auth") \/ Whole(op.n)
  /\ op.kind = "delete" => home[op.n].auth \notin kept \cup marked

\* A home that was marked as LAM's stays marked.
Marks ==
  /\ \A n \in Names : home[n].auth \in marked => home[n].marker # {}
  /\ op.kind = "rename" => Remains("mark") \/ "new" \in home[op.m].marker

\* How far a switch has come.
Switches ==
  /\ \A i \in 1..(Len(timeline) - 1) : ~timeline[i].open
  /\ op.kind = "switch" =>
       /\ op.owner = home[op.n].auth /\ op.owner # 0 /\ Whole(op.n)
       /\ Len(op.todo) < 3 /\ ~op.raced => main.auth = op.owner
       /\ Len(op.todo) = 1 =>
            timeline # <<>> /\ timeline[Len(timeline)] = [account |-> op.n, open |-> TRUE]

IInv ==
  /\ Types /\ Commands /\ Accounts /\ Marks /\ Switches
  /\ SwitchIsWhole /\ StartRepairsWrappers

-----------------------------------------------------------------------------
(* What is left of a command *)

LEMMA EmptyLen == Len(<<>>) = 0
OBVIOUS

LEMMA TailFacts ==
  ASSUME NEW s \in Seq(Steps), s # <<>>
  PROVE  /\ Len(s) \in Nat \ {0} /\ DOMAIN s = 1..Len(s) /\ Head(s) = s[1]
         /\ Tail(s) \in Seq(Steps) /\ Len(Tail(s)) = Len(s) - 1 /\ DOMAIN Tail(s) = 1..(Len(s) - 1)
         /\ \A i \in DOMAIN Tail(s) : i + 1 \in DOMAIN s /\ Tail(s)[i] = s[i + 1]
         /\ Len(s) # 1 => Tail(s) # <<>>
<1>1. Len(s) \in Nat \ {0} /\ DOMAIN s = 1..Len(s) /\ Head(s) = s[1]
  OBVIOUS
<1>2. Tail(s) \in Seq(Steps) /\ Len(Tail(s)) = Len(s) - 1
  OBVIOUS
<1>3. DOMAIN Tail(s) = 1..(Len(s) - 1)
  BY <1>2
<1>4. \A i \in 1..(Len(s) - 1) : Tail(s)[i] = s[i + 1]
  BY <1>1
<1>5. Len(s) # 1 => Tail(s) # <<>>
  <2> DEFINE t == Tail(s)
  <2>1. Len(s) # 1 => Len(t) # 0
    BY <1>1, <1>2
  <2> HIDE DEF t
  <2>2. Len(s) # 1 => t # <<>>
    BY <2>1, EmptyLen
  <2> QED
    BY <2>2 DEF t
<1> QED
  BY <1>1, <1>2, <1>3, <1>4, <1>5

LEMMA Shifted ==
  ASSUME NEW n \in Nat, NEW i \in Nat
  PROVE  /\ n = (i + 1) + 2 => n - 1 = i + 2
         /\ n = (i + 1) + 1 => n - 1 = i + 1
         /\ n = i + 1 => n - 1 = i
OBVIOUS

LEMMA TailFits ==
  ASSUME NEW kind, NEW s, s # <<>>, Fits(s, kind), Len(s) # 1
  PROVE  /\ Fits(Tail(s), kind) /\ Tail(s) # <<>> /\ Head(Tail(s)) \notin {"mkdir", "move"}
         /\ Head(s) = "unmark" => \A i \in DOMAIN s : s[i] # "mark"
<1>1. s \in Seq(Steps)
  BY DEF Fits
<1>2. Tail(s) \in Seq(Steps) /\ Tail(s) # <<>>
  BY <1>1, TailFacts
<1>3. Head(Tail(s)) = s[2] /\ 2 \in DOMAIN s
  <2>1. Head(Tail(s)) = Tail(s)[1] /\ 1 \in DOMAIN Tail(s)
    BY <1>2, TailFacts
  <2> QED
    BY <1>1, <2>1, TailFacts
<1>4. \A i \in DOMAIN Tail(s) : HasStep(kind, Tail(s)[i]) /\ Tail(s)[i] \notin {"mkdir", "move"}
  <2> TAKE i \in DOMAIN Tail(s)
  <2>1. i \in Nat /\ i # 0 /\ i + 1 \in DOMAIN s /\ Tail(s)[i] = s[i + 1]
    BY <1>1, TailFacts
  <2>2. i + 1 # 1
    BY <2>1
  <2> QED
    BY <2>1, <2>2 DEF Fits
<1>5. \A i, j \in DOMAIN Tail(s) : Tail(s)[i] = "unmark" /\ Tail(s)[j] = "mark" => j < i
  <2> TAKE i, j \in DOMAIN Tail(s)
  <2>1. i \in Nat /\ j \in Nat /\ i + 1 \in DOMAIN s /\ Tail(s)[i] = s[i + 1]
        /\ j + 1 \in DOMAIN s /\ Tail(s)[j] = s[j + 1]
    BY <1>1, TailFacts
  <2>2. s[i + 1] = "unmark" /\ s[j + 1] = "mark" => j + 1 < i + 1
    BY <2>1 DEF Fits
  <2> QED
    BY <2>1, <2>2
<1>6. kind = "switch" => \A i \in DOMAIN Tail(s) :
        /\ Tail(s)[i] = "main auth" => Len(Tail(s)) = i + 2
        /\ Tail(s)[i] = "timeline" => Len(Tail(s)) = i + 1
        /\ Tail(s)[i] = "main f" => Len(Tail(s)) = i
  <2> SUFFICES ASSUME kind = "switch", NEW i \in DOMAIN Tail(s)
               PROVE  /\ Tail(s)[i] = "main auth" => Len(Tail(s)) = i + 2
                      /\ Tail(s)[i] = "timeline" => Len(Tail(s)) = i + 1
                      /\ Tail(s)[i] = "main f" => Len(Tail(s)) = i
    OBVIOUS
  <2>1. i \in Nat /\ i + 1 \in DOMAIN s /\ Tail(s)[i] = s[i + 1]
        /\ Len(s) \in Nat /\ Len(Tail(s)) = Len(s) - 1
    BY <1>1, TailFacts
  <2>2. /\ s[i + 1] = "main auth" => Len(s) = (i + 1) + 2
        /\ s[i + 1] = "timeline" => Len(s) = (i + 1) + 1
        /\ s[i + 1] = "main f" => Len(s) = i + 1
    BY <2>1 DEF Fits
  <2> QED
    BY <2>1, <2>2, Shifted
<1>7. Head(s) = "unmark" => \A i \in DOMAIN s : s[i] # "mark"
  <2>1. Head(s) = s[1] /\ 1 \in DOMAIN s /\ \A i \in DOMAIN s : ~(i < 1)
    BY <1>1, TailFacts
  <2> QED
    BY <2>1 DEF Fits
<1>8. Fits(Tail(s), kind)
  BY <1>2, <1>4, <1>5, <1>6 DEF Fits
<1>9. Head(Tail(s)) \notin {"mkdir", "move"}
  <2>1. Head(Tail(s)) = Tail(s)[1] /\ 1 \in DOMAIN Tail(s)
    BY <1>2, TailFacts
  <2> QED
    BY <1>4, <2>1
<1> QED
  BY <1>2, <1>7, <1>8, <1>9

-----------------------------------------------------------------------------
(* How a step of a command goes on *)

LEMMA StepFacts ==
  ASSUME Types, Commands, NEW step, At(step)
  PROVE  /\ op # Idle /\ op.todo # <<>> /\ last = Nothing /\ Fits(op.todo, op.kind)
         /\ op.todo \in Seq(Steps) /\ step = op.todo[1] /\ 1 \in DOMAIN op.todo
         /\ HasStep(op.kind, step)
<1>1. Idle.todo = <<>>
  BY DEF Idle
<1>2. op # Idle /\ op.todo # <<>> /\ last = Nothing /\ Fits(op.todo, op.kind) /\ op.todo \in Seq(Steps)
  BY <1>1 DEF At, Commands, Fits
<1>3. step = op.todo[1] /\ 1 \in DOMAIN op.todo
  BY <1>2, TailFacts DEF At
<1> QED
  BY <1>2, <1>3 DEF Fits

\* The commands that have a step.
LEMMA StepKinds ==
  ASSUME Types, Commands
  PROVE  /\ At("mkdir") => op.kind \in {"add", "create"}
         /\ At("tree") => op.kind \in {"add", "create"}
         /\ At("config") => op.kind = "add"
         /\ At("auth") => op.kind \in {"add", "upload"}
         /\ At("f") => op.kind \in {"add", "session"}
         /\ At("bad date") => op.kind = "add"
         /\ At("mark") => op.kind \in {"add", "create", "rename"}
         /\ At("unmark") => op.kind = "rename"
         /\ At("move") => op.kind = "rename"
         /\ At("wrapper") => op.kind \in {"add", "create", "rename"}
         /\ At("unwrap") => op.kind \in {"rename", "delete"}
         /\ At("end processes") => op.kind = "delete"
         /\ At("remove home") => op.kind = "delete"
         /\ At("drop note") => op.kind = "delete"
         /\ At("drop meta") => op.kind = "delete"
         /\ At("meta") => op.kind \in {"add", "upload"}
         /\ At("note") => op.kind = "note"
         /\ At("list") => op.kind \in {"rename", "delete", "note"}
         /\ At("main auth") => op.kind = "switch"
         /\ At("timeline") => op.kind = "switch"
         /\ At("main f") => op.kind = "switch"
         /\ At("repair") => op.kind = "start"
<1>1. op.kind \in Kinds
  BY DEF Types, Operations
<1>2. op.todo # <<>> => HasStep(op.kind, Head(op.todo))
  <2> SUFFICES ASSUME op.todo # <<>> PROVE HasStep(op.kind, Head(op.todo))
    OBVIOUS
  <2>1. At(Head(op.todo))
    BY DEF At
  <2> QED
    BY <2>1, StepFacts
<1>3. At("mkdir") => op.kind \in {"add", "create"}
  BY <1>1, <1>2 DEF At, HasStep
<1>4. At("tree") => op.kind \in {"add", "create"}
  BY <1>1, <1>2 DEF At, HasStep
<1>5. At("config") => op.kind = "add"
  BY <1>1, <1>2 DEF At, HasStep
<1>6. At("auth") => op.kind \in {"add", "upload"}
  BY <1>1, <1>2 DEF At, HasStep
<1>7. At("f") => op.kind \in {"add", "session"}
  BY <1>1, <1>2 DEF At, HasStep
<1>8. At("bad date") => op.kind = "add"
  BY <1>1, <1>2 DEF At, HasStep
<1>9. At("mark") => op.kind \in {"add", "create", "rename"}
  BY <1>1, <1>2 DEF At, HasStep
<1>10. At("unmark") => op.kind = "rename"
  BY <1>1, <1>2 DEF At, HasStep
<1>11. At("move") => op.kind = "rename"
  BY <1>1, <1>2 DEF At, HasStep
<1>12. At("wrapper") => op.kind \in {"add", "create", "rename"}
  BY <1>1, <1>2 DEF At, HasStep
<1>13. At("unwrap") => op.kind \in {"rename", "delete"}
  BY <1>1, <1>2 DEF At, HasStep
<1>14. At("end processes") => op.kind = "delete"
  BY <1>1, <1>2 DEF At, HasStep
<1>15. At("remove home") => op.kind = "delete"
  BY <1>1, <1>2 DEF At, HasStep
<1>16. At("drop note") => op.kind = "delete"
  BY <1>1, <1>2 DEF At, HasStep
<1>17. At("drop meta") => op.kind = "delete"
  BY <1>1, <1>2 DEF At, HasStep
<1>18. At("meta") => op.kind \in {"add", "upload"}
  BY <1>1, <1>2 DEF At, HasStep
<1>19. At("note") => op.kind = "note"
  BY <1>1, <1>2 DEF At, HasStep
<1>20. At("list") => op.kind \in {"rename", "delete", "note"}
  BY <1>1, <1>2 DEF At, HasStep
<1>21. At("main auth") => op.kind = "switch"
  BY <1>1, <1>2 DEF At, HasStep
<1>22. At("timeline") => op.kind = "switch"
  BY <1>1, <1>2 DEF At, HasStep
<1>23. At("main f") => op.kind = "switch"
  BY <1>1, <1>2 DEF At, HasStep
<1>24. At("repair") => op.kind = "start"
  BY <1>1, <1>2 DEF At, HasStep
<1> QED
  BY <1>3, <1>4, <1>5, <1>6, <1>7, <1>8, <1>9, <1>10, <1>11, <1>12,
     <1>13, <1>14, <1>15, <1>16, <1>17, <1>18, <1>19, <1>20, <1>21, <1>22, <1>23, <1>24

LEMMA IdleFacts ==
  /\ Idle \in Operations /\ Idle.kind = "none" /\ Idle.todo = <<>> /\ Idle.owner = 0
BY AccountsAssumption DEF Idle, Operations, Kinds, Owners, Login

Proceeds == Len(op.todo) # 1 /\ Continues
Stops == \E ok \in BOOLEAN : Ends(ok)
Goes == Proceeds \/ Stops

LEMMA Outcomes ==
  (Failed => Stops /\ Ends(FALSE)) /\ (Succeeds => Goes /\ NoFault)
BY DEF Failed, Succeeds, Done, Stops, Goes, Proceeds, NoFault

LEMMA ProceedsIs ==
  ASSUME Types, Commands, op # Idle, Proceeds
  PROVE  /\ op' \in Operations /\ op'.todo = Tail(op.todo) /\ op'.kind = op.kind /\ op'.n = op.n
         /\ op'.m = op.m /\ op'.owner = op.owner /\ op'.raced = op.raced
         /\ op' # Idle /\ op'.todo # <<>> /\ Fits(op'.todo, op'.kind)
         /\ last' = last /\ kept' = kept /\ last = Nothing
         /\ ~(At("mkdir")') /\ ~(At("move")')
         /\ Remains("mark") /\ ~At("mark") => Remains("mark")'
         /\ Len(op'.todo) = Len(op.todo) - 1 /\ Len(op.todo) \in Nat
         /\ At("unmark") => ~Remains("mark")
<1>1. op.todo # <<>> /\ Fits(op.todo, op.kind) /\ last = Nothing /\ op.todo \in Seq(Steps)
  BY DEF Commands, Fits
<1>2. op \in Operations /\ Tail(op.todo) \in Seq(Steps)
  BY <1>1, TailFacts DEF Types
<1>3. op' = [op EXCEPT !.todo = Tail(op.todo)] /\ last' = last /\ kept' = kept
  BY DEF Proceeds, Continues
<1>4. op' \in Operations /\ op'.todo = Tail(op.todo) /\ op'.kind = op.kind /\ op'.n = op.n
      /\ op'.m = op.m /\ op'.owner = op.owner /\ op'.raced = op.raced
  BY <1>2, <1>3 DEF Operations
<1>5. Fits(op'.todo, op'.kind) /\ op'.todo # <<>> /\ Head(op'.todo) \notin {"mkdir", "move"}
      /\ (At("unmark") => ~Remains("mark"))
  <2>1. Len(op.todo) # 1
    BY DEF Proceeds
  <2> QED
    BY <1>1, <1>4, <2>1, TailFits DEF At, Remains
<1>6. op' # Idle
  BY <1>5, IdleFacts
<1>7. ASSUME Remains("mark"), ~At("mark") PROVE Remains("mark")'
  <2>1. PICK i \in DOMAIN op.todo : op.todo[i] = "mark"
    BY <1>7 DEF Remains
  <2>2. i # 1
    BY <1>1, <1>7, <2>1, TailFacts DEF At
  <2>3. i - 1 \in DOMAIN Tail(op.todo) /\ (i - 1) + 1 = i
    BY <1>1, <2>1, <2>2, TailFacts
  <2>4. Tail(op.todo)[i - 1] = "mark"
    BY <1>1, <2>1, <2>3, TailFacts
  <2> QED
    BY <1>4, <2>3, <2>4 DEF Remains
<1>8. ~(At("mkdir")') /\ ~(At("move")')
  BY <1>5 DEF At
<1> QED
  BY <1>1, <1>3, <1>4, <1>5, <1>6, <1>7, <1>8, TailFacts

LEMMA StopsIs ==
  ASSUME Stops
  PROVE  /\ op' = Idle /\ op' \in Operations /\ op'.kind = "none" /\ op'.todo = <<>>
         /\ last'.kind = op.kind /\ last'.n = op.n
         /\ kept' = Counted
BY IdleFacts DEF Stops, Ends, Report

LEMMA IdleCommands ==
  ASSUME op' = Idle
  PROVE  Commands'
BY IdleFacts DEF Commands, At, HomeKinds

\* However a step goes on, the command stays one.
LEMMA CommandsGo ==
  ASSUME Types, Commands, op # Idle, Goes, op.kind \in HomeKinds => Exists(op.m)'
  PROVE  Commands'
<1>1. CASE Stops
  BY <1>1, StopsIs, IdleCommands
<1>2. CASE Proceeds
  <2>1. op.kind \notin {"none", "start"} =>
          op.n \in Names /\ op.m \in Names /\ (op.kind # "rename" => op.n = op.m)
    BY DEF Commands
  <2> QED
    BY <1>2, <2>1, ProceedsIs DEF Commands
<1> QED
  BY <1>1, <1>2 DEF Goes

-----------------------------------------------------------------------------
(* What a step leaves alone *)

LEMMA UsedFaults ==
  ASSUME Types, Fault \/ NoFault
  PROVE  used' \in [ops : Nat, faults : Nat] /\ used'.ops = used.ops
BY DEF Types, Fault, NoFault, Use

LEMMA AbsentFacts ==
  /\ Absent.auth = 0 /\ Absent \notin Homes
  /\ \A n \in Names : Types /\ Exists(n) => home[n] \in Homes
<1>1. Absent.auth = 0 /\ Absent.marker = {"none"}
  BY DEF Absent
<1>2. Absent \notin Homes
  BY <1>1 DEF Homes
<1> QED
  BY <1>1, <1>2 DEF Types, TypeOK, Exists

Waits == UNCHANGED <<op, last, kept>>

\* What an unfinished command reports.
LEMMA NothingReported ==
  ASSUME last' = Nothing
  PROVE  SwitchIsWhole' /\ StartRepairsWrappers'
<1>1. last'.kind = "none"
  BY DEF Nothing, Report
<1> QED
  BY <1>1 DEF SwitchIsWhole, StartRepairsWrappers

LEMMA FailureReported ==
  ASSUME Ends(FALSE)
  PROVE  SwitchIsWhole' /\ StartRepairsWrappers'
<1>1. last'.ok = FALSE
  BY DEF Ends, Report
<1> QED
  BY <1>1 DEF SwitchIsWhole, StartRepairsWrappers

LEMMA OthersReported ==
  ASSUME Types, Commands, op # Idle, Goes \/ Waits, op.kind \notin {"switch", "start"}
  PROVE  SwitchIsWhole' /\ StartRepairsWrappers'
<1>1. CASE Stops
  BY <1>1, StopsIs DEF SwitchIsWhole, StartRepairsWrappers
<1>2. CASE Proceeds \/ Waits
  <2>1. last' = Nothing
    BY <1>2, ProceedsIs DEF Waits, Commands
  <2> QED
    BY <2>1, NothingReported
<1> QED
  BY <1>1, <1>2 DEF Goes

LEMMA NoSwitch ==
  ASSUME Types, Commands, Switches, op # Idle, Goes \/ Waits, op.kind # "switch", UNCHANGED timeline
  PROVE  Switches'
<1>1. op'.kind # "switch"
  BY StopsIs, ProceedsIs DEF Goes, Waits
<1> QED
  BY <1>1 DEF Switches

\* The accounts that count when a command ends.
LEMMA CountedFacts ==
  ASSUME Commands, Accounts
  PROVE  /\ \A k \in Counted : k # 0 /\ \E n \in Names : home[n].auth = k /\ Whole(n)
         /\ op.kind \notin {"add", "upload"} => Counted \subseteq kept
<1>1. ~At("auth") => \A k \in Added : k # 0 /\ \E n \in Names : home[n].auth = k /\ Whole(n)
  BY DEF Added, Accounts, Commands
<1>2. op.kind \notin {"add", "upload"} => Added = {}
  BY DEF Added
<1> QED
  BY <1>1, <1>2 DEF Counted, Accounts

\* Who has which account, when no home gets or loses one.
LEMMA AccountsKept ==
  ASSUME Types, Commands, Accounts, op # Idle, Goes \/ Waits, used'.ops = used.ops,
         \A n \in Names : home'[n].auth = home[n].auth /\ (Whole(n) => Whole(n)'),
         Proceeds => ~At("auth"),
         marked' = marked \/ (op.kind \in {"add", "create", "rename"}
                               /\ marked' = marked \cup ({home[op.m].auth} \ {0}))
  PROVE  Accounts'
<1>1. /\ used'.ops \in 0..MaxOps
      /\ \A n, m \in Names : home'[n].auth = home'[m].auth /\ home'[n].auth # 0 => n = m
      /\ \A n \in Names : home'[n].auth <= used'.ops + 1
  BY DEF Accounts
<1>2. marked' \subseteq 1..(used'.ops + 1)
  <2>1. op.kind \in {"add", "create", "rename"} => op.m \in Names
    BY DEF Commands
  <2>2. \A n \in Names : home[n].auth \in Nat
    BY AccountsAssumption, AbsentFacts DEF Types, TypeOK, Homes, Owners, Login
  <2>3. used.ops \in Nat /\ marked \subseteq 1..(used.ops + 1)
    BY DEF Accounts, Types
  <2>4. ASSUME NEW k \in Nat \ {0}, op.kind \in {"add", "create", "rename"}, k = home[op.m].auth
        PROVE  k \in 1..(used.ops + 1)
    BY <2>1, <2>3, <2>4 DEF Accounts
  <2> QED
    BY <2>1, <2>2, <2>3, <2>4
<1>3. \A k \in kept' : k # 0 /\ \E n \in Names : home'[n].auth = k /\ Whole(n)'
  <2>1. kept' = kept \/ kept' = Counted
    BY ProceedsIs, StopsIs DEF Goes, Waits
  <2> QED
    BY <2>1, CountedFacts DEF Accounts
<1>4. CASE Stops
  BY <1>1, <1>2, <1>3, <1>4, StopsIs DEF Accounts
<1>5. CASE Proceeds \/ Waits
  <2>1. op'.kind = op.kind /\ op'.n = op.n /\ op'.owner = op.owner /\ kept' = kept
    BY <1>5, ProceedsIs DEF Waits
  <2>2. ASSUME op.kind \in {"add", "upload"}
        PROVE  /\ op.owner \in 1..(used.ops + 1) /\ home'[op.n].auth \in {0, op.owner}
               /\ \A n \in Names \ {op.n} : home'[n].auth # op.owner
               /\ op.owner \in marked' => home'[op.n].auth = op.owner
               /\ home'[op.n].auth = op.owner => At("auth")' \/ "auth" \notin home'[op.n].cut
    <3>1. op.n \in Names /\ op.m = op.n
      BY <2>2 DEF Commands
    <3>2. Waits => (At("auth")' <=> At("auth"))
      BY DEF Waits, At
    <3>3. home'[op.n].auth = op.owner => At("auth")' \/ "auth" \notin home'[op.n].cut
      <4>1. home[op.n].auth = op.owner => At("auth") \/ Whole(op.n)
        BY <2>2 DEF Accounts
      <4>2. Whole(op.n) => "auth" \notin home'[op.n].cut
        BY <3>1 DEF Whole
      <4> QED
        BY <1>5, <3>1, <3>2, <4>1, <4>2
    <3> QED
      BY <2>2, <3>1, <3>3 DEF Accounts
  <2>3. ASSUME op.kind = "delete" PROVE home'[op.n].auth \notin kept' \cup marked'
    <3>1. op.n \in Names
      BY <2>3 DEF Commands
    <3> QED
      BY <2>1, <2>3, <3>1 DEF Accounts
  <2> QED
    BY <1>1, <1>2, <1>3, <2>1, <2>2, <2>3 DEF Accounts, Whole
<1> QED
  BY <1>4, <1>5 DEF Goes

LEMMA HomesKept ==
  ASSUME IInv, op # Idle, UNCHANGED <<home, marked>>, used'.ops = used.ops,
         Stops \/ ((Proceeds \/ Waits) /\ ~At("mkdir") /\ ~At("move") /\ ~At("mark") /\ ~At("auth"))
  PROVE  Commands' /\ Accounts' /\ Marks'
<1> USE DEF IInv
<1>1. Goes \/ Waits
  BY DEF Goes
<1>2. Accounts'
  <2>1. Proceeds => ~At("auth")
    BY ProceedsIs, StopsIs
  <2> QED
    BY <1>1, <2>1, AccountsKept DEF Whole
<1>3. Commands'
  <2>1. CASE Waits
    BY <2>1 DEF Waits, Commands, At, Exists
  <2>2. CASE Stops
    BY <2>2, StopsIs, IdleCommands
  <2>3. CASE Proceeds /\ ~At("mkdir") /\ ~At("move")
    <3>1. op.kind \in HomeKinds => Exists(op.m)'
      BY <2>3, ProceedsIs DEF Commands, Exists
    <3> QED
      BY <2>3, <3>1, CommandsGo DEF Goes
  <2> QED
    BY <2>1, <2>2, <2>3
<1>4. Marks'
  <2>1. CASE Waits
    BY <2>1 DEF Waits, Marks, Remains
  <2>2. CASE Stops
    BY <2>2, StopsIs DEF Marks
  <2>3. CASE Proceeds /\ ~At("mark")
    BY <2>3, ProceedsIs DEF Marks
  <2> QED
    BY <2>1, <2>2, <2>3
<1> QED
  BY <1>2, <1>3, <1>4

-----------------------------------------------------------------------------
(* The steps *)

LEMMA GoesOperation ==
  ASSUME Types, Commands, op # Idle, Goes \/ Waits
  PROVE  op' \in Operations
BY ProceedsIs, StopsIs DEF Goes, Waits, Types

\* The steps that leave the homes, their marks and a switch alone.
RestStep ==
  \/ RefuseDate \/ WriteWrapper \/ DropWrapper \/ EndProcesses
  \/ WriteNote \/ DropNote \/ WriteMeta \/ DropMeta \/ List

LEMMA RestOutcome ==
  ASSUME RestStep
  PROVE  /\ Goes /\ (Fault \/ NoFault) /\ UNCHANGED <<home, marked, timeline, main>>
         /\ \/ At("bad date") \/ At("wrapper") \/ At("unwrap") \/ At("end processes") \/ At("note")
            \/ At("drop note") \/ At("meta") \/ At("drop meta") \/ At("list")
<1>1. CASE RefuseDate
  BY <1>1, Outcomes DEF RefuseDate, Goes, NoFault, files
<1>2. CASE WriteWrapper
  BY <1>2, Outcomes DEF WriteWrapper, Goes
<1>3. CASE DropWrapper
  BY <1>3, Outcomes DEF DropWrapper, Goes
<1>4. CASE EndProcesses
  BY <1>4, Outcomes DEF EndProcesses, Goes, files
<1>5. CASE WriteNote
  BY <1>5, Outcomes DEF WriteNote, SetNote, Goes
<1>6. CASE DropNote
  BY <1>6, Outcomes DEF DropNote, SetNote, Goes
<1>7. CASE WriteMeta
  BY <1>7, Outcomes DEF WriteMeta, SetMeta, Goes
<1>8. CASE DropMeta
  BY <1>8, Outcomes DEF DropMeta, SetMeta, Goes
<1>9. CASE List
  BY <1>9, Outcomes DEF List, Goes, files
<1> QED
  BY <1>1, <1>2, <1>3, <1>4, <1>5, <1>6, <1>7, <1>8, <1>9 DEF RestStep

LEMMA RestTypes ==
  ASSUME Types, Commands, op.n \in Names, op.m \in Names, RestStep
  PROVE  /\ wrapper' \in [Names -> {"none", "stale", "right"}]
         /\ note' \in [Names -> Owners] /\ meta' \in [Names -> Owners]
         /\ torn' \subseteq {"notes", "timeline"} /\ running' \subseteq Names
<1> USE DEF Types, TypeOK
<1>1. op.owner \in Owners
  BY DEF Operations
<1>0. 0 \in Owners
  BY AccountsAssumption DEF Owners, Login
<1>2. CASE RefuseDate \/ EndProcesses \/ List
  BY <1>2 DEF RefuseDate, EndProcesses, List, files
<1>3. CASE WriteWrapper \/ DropWrapper
  BY <1>3 DEF WriteWrapper, DropWrapper
<1>4. ASSUME NEW who \in Owners, SetNote(who)
      PROVE  note' \in [Names -> Owners] /\ torn' \subseteq {"notes", "timeline"}
  <2>1. note' \in [Names -> Owners]
    BY <1>4 DEF SetNote
  <2>2. torn' = torn \/ torn' = torn \cup {"notes"}
    BY <1>4 DEF SetNote
  <2>3. torn \subseteq {"notes", "timeline"}
    OBVIOUS
  <2> QED
    BY <2>1, <2>2, <2>3
<1>7. ASSUME NEW who \in Owners, SetMeta(who)
      PROVE  meta' \in [Names -> Owners]
  BY <1>7 DEF SetMeta
<1>5. CASE WriteNote \/ DropNote
  BY <1>0, <1>1, <1>4, <1>5 DEF WriteNote, DropNote
<1>6. CASE WriteMeta \/ DropMeta
  <2>1. UNCHANGED <<wrapper, note, torn, running>>
    BY <1>6 DEF WriteMeta, DropMeta, SetMeta
  <2> QED
    BY <1>0, <1>1, <1>6, <1>7, <2>1 DEF WriteMeta, DropMeta
<1> QED
  BY <1>2, <1>3, <1>5, <1>6 DEF RestStep

LEMMA RestStepInv ==
  ASSUME IInv, RestStep
  PROVE  IInv'
<1> USE DEF IInv
<1>1. /\ Goes /\ (Fault \/ NoFault) /\ UNCHANGED <<home, marked, timeline, main>>
      /\ \/ At("bad date") \/ At("wrapper") \/ At("unwrap") \/ At("end processes") \/ At("note")
         \/ At("drop note") \/ At("meta") \/ At("drop meta") \/ At("list")
  BY RestOutcome
<1>2. op # Idle /\ op.kind \in {"add", "create", "rename", "delete", "upload", "note"}
  BY <1>1, StepFacts, StepKinds
<1>3. op.n \in Names /\ op.m \in Names
  BY <1>2 DEF Commands
<1>4. used' \in [ops : Nat, faults : Nat] /\ used'.ops = used.ops
  BY <1>1, UsedFaults
<1>5. Types'
  BY <1>1, <1>2, <1>3, <1>4, RestTypes, GoesOperation DEF Types, TypeOK
<1>6. ~At("mkdir") /\ ~At("move") /\ ~At("mark") /\ ~At("auth")
  BY <1>1 DEF At
<1>7. Commands' /\ Accounts' /\ Marks'
  BY <1>1, <1>2, <1>4, <1>6, HomesKept DEF Goes
<1>8. Switches'
  BY <1>1, <1>2, NoSwitch
<1>9. SwitchIsWhole' /\ StartRepairsWrappers'
  BY <1>1, <1>2, OthersReported
<1> QED
  BY <1>5, <1>7, <1>8, <1>9

\* A step that writes into the home of the command and lets it keep its account.
LEMMA HomeEdited ==
  ASSUME IInv, op # Idle, Goes, op.kind \in HomeKinds, NEW h \in Homes, HomeBecomes(op.m, h),
         h.auth = home[op.m].auth, "auth" \in h.cut => ~Whole(op.m), Proceeds => ~At("auth"),
         used'.ops = used.ops,
         marked' = marked \/ (op.kind \in {"add", "create", "rename"}
                               /\ marked' = marked \cup ({home[op.m].auth} \ {0})),
         h.auth \in marked' => h.marker # {},
         op.kind = "rename" /\ Proceeds => (Remains("mark")') \/ "new" \in h.marker
  PROVE  /\ Commands' /\ Accounts' /\ Marks'
         /\ home' \in [Names -> Homes \cup {Absent}]
<1> USE DEF IInv
<1>1. op.m \in Names
  BY DEF Commands, HomeKinds
<1>2. /\ home' = [home EXCEPT ![op.m] = h] /\ home \in [Names -> Homes \cup {Absent}]
  BY DEF HomeBecomes, Types, TypeOK
<1>3. home' \in [Names -> Homes \cup {Absent}] /\ home'[op.m] = h
      /\ \A n \in Names \ {op.m} : home'[n] = home[n]
  BY <1>1, <1>2
<1>4. \A n \in Names : home'[n].auth = home[n].auth /\ (Whole(n) => Whole(n)')
  BY <1>3 DEF Whole
<1>5. Accounts'
  BY <1>4, AccountsKept
<1>6. Commands'
  <2>1. Proceeds => Exists(op.m)'
    BY <1>3, AbsentFacts, ProceedsIs DEF Exists
  <2>2. CASE Stops
    BY <2>2, StopsIs, IdleCommands
  <2> QED
    BY <2>1, <2>2, CommandsGo DEF Goes
<1>7. \A n \in Names : home'[n].auth \in marked' => home'[n].marker # {}
  <2>1. \A n \in Names : home[n].auth \in marked => home[n].marker # {}
    BY DEF Marks
  <2>2. \A n \in Names \ {op.m} : home[n].auth # 0 => home[n].auth # home[op.m].auth
    BY <1>1 DEF Accounts
  <2> QED
    BY <1>1, <1>3, <2>1, <2>2
<1>8. Marks'
  <2>1. op'.kind = "rename" => Proceeds /\ op.kind = "rename" /\ op'.m = op.m
    BY ProceedsIs, StopsIs DEF Goes
  <2> QED
    BY <1>3, <1>7, <2>1 DEF Marks
<1> QED
  BY <1>3, <1>5, <1>6, <1>8

LEMMA FrameTypes ==
  ASSUME IInv, op # Idle, Goes, used' \in [ops : Nat, faults : Nat],
         home' \in [Names -> Homes \cup {Absent}],
         UNCHANGED <<wrapper, note, meta, main, timeline, torn, running>>
  PROVE  Types'
BY GoesOperation DEF IInv, Types, TypeOK

LEMMA ToldMarks ==
  ASSUME Types, Commands, At("unmark")
  PROVE  ~Remains("mark")
<1>1. op.todo \in Seq(Steps) /\ op.todo[1] = "unmark" /\ 1 \in DOMAIN op.todo /\ Fits(op.todo, op.kind)
  BY StepFacts
<1>2. \A j \in DOMAIN op.todo : j \in Nat /\ ~(j < 1)
  BY <1>1
<1> QED
  BY <1>1, <1>2 DEF Fits, Remains

\* A step that changes the home, and not whose credentials it has.
LEMMA EditInv ==
  ASSUME IInv, NEW step, At(step), NEW h \in Homes, HomeBecomes(op.m, h), op.kind \in HomeKinds,
         Goes, Fault \/ NoFault,
         UNCHANGED <<wrapper, note, meta, main, timeline, torn, running, marked>>,
         h.auth = home[op.m].auth, h.auth \in marked => h.marker # {},
         "auth" \in h.cut => ~Whole(op.m), step # "auth",
         op.kind = "rename" => step \notin {"mark", "move"} /\ (Remains("mark") \/ "new" \in h.marker)
  PROVE  IInv'
<1> USE DEF IInv
<1>1. op # Idle /\ ~At("auth")
  BY StepFacts DEF At
<1>2. used' \in [ops : Nat, faults : Nat] /\ used'.ops = used.ops
  BY UsedFaults
<1>3. op.kind \notin {"switch", "start"}
  BY DEF HomeKinds
<1>4. op.kind = "rename" /\ Proceeds => (Remains("mark")') \/ "new" \in h.marker
  BY <1>1, ProceedsIs DEF At
<1>5. Commands' /\ Accounts' /\ Marks' /\ home' \in [Names -> Homes \cup {Absent}]
  BY <1>1, <1>2, <1>4, HomeEdited
<1>6. Types'
  BY <1>1, <1>2, <1>5, FrameTypes
<1>7. Switches'
  <2>1. op'.kind # "switch"
    BY <1>1, <1>3, StopsIs, ProceedsIs DEF Goes
  <2> QED
    BY <2>1 DEF Switches
<1>8. SwitchIsWhole' /\ StartRepairsWrappers'
  BY <1>1, <1>3, OthersReported
<1> QED
  BY <1>5, <1>6, <1>7, <1>8

\* A step that fails and leaves the homes alone.
LEMMA FailsInv ==
  ASSUME IInv, op # Idle, op.kind \notin {"switch", "start"}, Stops, Fault \/ NoFault,
         UNCHANGED <<home, wrapper, note, meta, main, timeline, torn, running, marked>>
  PROVE  IInv'
<1> USE DEF IInv
<1>1. Goes
  BY DEF Goes
<1>2. used' \in [ops : Nat, faults : Nat] /\ used'.ops = used.ops
  BY UsedFaults
<1>3. Commands' /\ Accounts' /\ Marks'
  BY <1>2, HomesKept
<1>4. Types'
  BY <1>1, <1>2, FrameTypes DEF Types, TypeOK
<1>5. Switches' /\ SwitchIsWhole' /\ StartRepairsWrappers'
  BY <1>1, NoSwitch, OthersReported
<1> QED
  BY <1>3, <1>4, <1>5

\* A step that is written as InHome.
LEMMA InHomeInv ==
  ASSUME IInv, NEW step, NEW h \in Homes, InHome(step, h), op.kind \in HomeKinds,
         h.auth = home[op.m].auth, h.auth \in marked => h.marker # {},
         "auth" \in h.cut => ~Whole(op.m), step # "auth",
         op.kind = "rename" => step \notin {"mark", "move"} /\ (Remains("mark") \/ "new" \in h.marker)
  PROVE  IInv'
<1>1. op # Idle /\ At(step)
  BY StepFacts DEF InHome, IInv
<1>2. UNCHANGED <<wrapper, note, meta, main, timeline, torn, running, marked>>
  BY DEF InHome
<1>3. op.kind \notin {"switch", "start"}
  BY DEF HomeKinds
<1>4. \/ HomeBecomes(op.m, h) /\ Goes /\ NoFault
      \/ UNCHANGED home /\ Stops /\ Fault
  BY Outcomes DEF InHome, Goes
<1> QED
  BY <1>1, <1>2, <1>3, <1>4, EditInv, FailsInv

LEMMA HomeFields ==
  ASSUME NEW h \in Homes
  PROVE  /\ h.auth \in Owners /\ h.f \in Owners /\ h.cut \subseteq {"auth", "f"}
         /\ h.marker \subseteq {"new", "old"} /\ h.tree \in BOOLEAN
         /\ [h EXCEPT !.tree = TRUE] \in Homes /\ [h EXCEPT !.tree = TRUE].auth = h.auth
         /\ [h EXCEPT !.tree = TRUE].marker = h.marker /\ [h EXCEPT !.tree = TRUE].cut = h.cut
BY DEF Homes

LEMMA HomeMarks ==
  ASSUME NEW h \in Homes, NEW marks \in SUBSET {"new", "old"}
  PROVE  /\ [h EXCEPT !.marker = marks] \in Homes /\ [h EXCEPT !.marker = marks].auth = h.auth
         /\ [h EXCEPT !.marker = marks].cut = h.cut /\ [h EXCEPT !.marker = marks].marker = marks
BY DEF Homes

\* What a write of credentials makes of a home, got through or cut short.
LEMMA FileFacts ==
  ASSUME IInv, op.n \in Names, Exists(op.n)
  PROVE  /\ home[op.n] \in Homes
         /\ \A h \in {WithAuth, CutShort("auth", WithAuth)} :
              h \in Homes /\ h.auth = op.owner /\ h.marker = home[op.n].marker
         /\ "auth" \notin WithAuth.cut
         /\ \A h \in {WithAuthF, CutShort("f", WithAuthF)} :
              /\ h \in Homes /\ h.auth = home[op.n].auth /\ h.marker = home[op.n].marker
              /\ "auth" \in h.cut <=> "auth" \in home[op.n].cut
<1> DEFINE g == home[op.n]
<1>1. g \in Homes /\ op.owner \in Owners
  BY AbsentFacts DEF IInv, Types, Operations
<1>2. g.cut \subseteq {"auth", "f"}
  BY <1>1, HomeFields
<1> HIDE DEF g
<1>3. ASSUME NEW c, c = g.cut \ {"auth"}
      PROVE  /\ c \in SUBSET {"auth", "f"} /\ WithAuth = [g EXCEPT !.auth = op.owner, !.cut = c]
             /\ WithAuth \in Homes /\ WithAuth.auth = op.owner /\ WithAuth.marker = g.marker
             /\ WithAuth.cut = c
  <2>1. c \in SUBSET {"auth", "f"} /\ WithAuth = [g EXCEPT !.auth = op.owner, !.cut = c]
    <3>1. c \subseteq {"auth", "f"}
      BY <1>2, <1>3
    <3>2. WithAuth = [g EXCEPT !.auth = op.owner, !.cut = c]
      BY <1>1, <1>3 DEF WithAuth, g, Homes
    <3> QED
      BY <3>1, <3>2
  <2> QED
    BY <1>1, <2>1 DEF Homes
<1>4. ASSUME NEW c, c = g.cut \ {"f"}
      PROVE  /\ c \in SUBSET {"auth", "f"} /\ WithAuthF = [g EXCEPT !.f = op.owner, !.cut = c]
             /\ WithAuthF \in Homes /\ WithAuthF.auth = g.auth /\ WithAuthF.marker = g.marker
             /\ WithAuthF.cut = c
  <2>1. c \in SUBSET {"auth", "f"} /\ WithAuthF = [g EXCEPT !.f = op.owner, !.cut = c]
    <3>1. c \subseteq {"auth", "f"}
      BY <1>2, <1>4
    <3>2. WithAuthF = [g EXCEPT !.f = op.owner, !.cut = c]
      BY <1>1, <1>4 DEF WithAuthF, g, Homes
    <3> QED
      BY <3>1, <3>2
  <2> QED
    BY <1>1, <2>1 DEF Homes
<1>5. /\ WithAuth \in Homes /\ WithAuth.auth = op.owner /\ WithAuth.marker = g.marker
      /\ WithAuth.cut = g.cut \ {"auth"}
  BY <1>3
<1>6. /\ WithAuthF \in Homes /\ WithAuthF.auth = g.auth /\ WithAuthF.marker = g.marker
      /\ WithAuthF.cut = g.cut \ {"f"}
  BY <1>4
<1>7. ASSUME NEW h \in Homes, NEW file \in {"auth", "f"}
      PROVE  /\ CutShort(file, h) \in Homes /\ CutShort(file, h).auth = h.auth
             /\ CutShort(file, h).marker = h.marker /\ CutShort(file, h).cut = h.cut \cup {file}
  <2>1. h.cut \subseteq {"auth", "f"}
    BY <1>7, HomeFields
  <2>2. ASSUME NEW c, c = h.cut \cup {file}
        PROVE  CutShort(file, h) = [h EXCEPT !.cut = c] /\ c \in SUBSET {"auth", "f"}
    <3>1. c \subseteq {"auth", "f"}
      BY <1>7, <2>1, <2>2
    <3>2. CutShort(file, h) = [h EXCEPT !.cut = c]
      BY <1>7, <2>2 DEF CutShort, Homes
    <3> QED
      BY <3>1, <3>2
  <2>3. ASSUME NEW c, c = h.cut \cup {file}
        PROVE  /\ CutShort(file, h) \in Homes /\ CutShort(file, h).auth = h.auth
               /\ CutShort(file, h).marker = h.marker /\ CutShort(file, h).cut = c
    BY <1>1, <1>7, <2>2, <2>3 DEF Homes
  <2> QED
    BY <2>3
<1> QED
  BY <1>1, <1>5, <1>6, <1>7 DEF g

\* A write of auth-f.json, however it ends.
LEMMA WriteAuthFInv ==
  ASSUME IInv, WriteAuthF
  PROVE  IInv'
<1>1. /\ At("f") /\ op.kind \in HomeKinds /\ op.kind # "rename" /\ op.n = op.m /\ op.m \in Names
      /\ Exists(op.n)
  BY StepKinds DEF WriteAuthF, WriteFile, HomeKinds, Commands, At, IInv
<1>2. /\ UNCHANGED <<wrapper, note, meta, main, timeline, torn, running, marked>>
      /\ Goes /\ (Fault \/ NoFault)
  BY Outcomes DEF WriteAuthF, WriteFile, Goes
<1>3. PICK h \in {home[op.m], CutShort("f", WithAuthF), WithAuthF} : HomeBecomes(op.m, h)
  BY DEF WriteAuthF, WriteFile
<1>4. /\ h \in Homes /\ h.auth = home[op.m].auth /\ h.marker = home[op.m].marker
      /\ "auth" \in h.cut => ~Whole(op.m)
  BY <1>1, <1>3, FileFacts DEF Whole
<1>5. \A n \in Names : home[n].auth \in marked => home[n].marker # {}
  BY DEF IInv, Marks
<1> QED
  BY <1>1, <1>2, <1>3, <1>4, <1>5, EditInv

LEMMA HomeStepsInv ==
  ASSUME IInv, MakeHome \/ MakeTree \/ WriteConfig \/ DropOldMarker
  PROVE  IInv'
<1> USE DEF IInv
<1>1. 0 \notin marked
  BY DEF Accounts
<1>2. op \in Operations /\ op.owner \in Owners
  BY DEF Types, Operations
<1>3. \A n \in Names : home[n].auth \in marked => home[n].marker # {}
  BY DEF Marks
<1>4. CASE MakeHome
  <2>1. op.kind \in HomeKinds /\ op.kind # "rename" /\ op.n = op.m /\ op.m \in Names
    BY <1>4, StepKinds DEF MakeHome, InHome, HomeKinds, Commands
  <2> DEFINE h == IF Exists(op.n) THEN home[op.n] ELSE Bare
  <2>2. Bare \in Homes /\ Bare.auth = 0 /\ Bare.cut = {}
    BY AccountsAssumption DEF Bare, Homes, Owners, Login
  <2>3. h \in Homes /\ h.auth = home[op.m].auth /\ (h.auth \in marked => h.marker # {})
        /\ ("auth" \in h.cut => ~Whole(op.m))
    BY <1>1, <1>3, <2>1, <2>2, AbsentFacts DEF Exists, Whole
  <2>4. InHome("mkdir", h)
    BY <1>4 DEF MakeHome
  <2> HIDE DEF h
  <2> QED
    BY <2>1, <2>3, <2>4, InHomeInv
<1>5. CASE MakeTree
  <2>1. op.kind \in HomeKinds /\ op.kind # "rename" /\ op.n = op.m /\ op.m \in Names /\ Exists(op.n)
    BY <1>5, StepKinds DEF MakeTree, InHome, HomeKinds, Commands, At
  <2> DEFINE h == [home[op.n] EXCEPT !.tree = TRUE]
  <2>2. h \in Homes /\ h.auth = home[op.m].auth /\ h.marker = home[op.m].marker
        /\ ("auth" \in h.cut => ~Whole(op.m))
    BY <2>1, AbsentFacts, HomeFields DEF Whole
  <2>3. InHome("tree", h)
    BY <1>5 DEF MakeTree
  <2> HIDE DEF h
  <2> QED
    BY <1>3, <2>1, <2>2, <2>3, InHomeInv
<1>6. CASE WriteConfig
  <2>1. op.kind \in HomeKinds /\ op.kind # "rename" /\ op.n = op.m /\ op.m \in Names /\ Exists(op.n)
    BY <1>6, StepKinds DEF WriteConfig, InHome, HomeKinds, Commands, At
  <2> DEFINE h == [home[op.n] EXCEPT !.tree = TRUE]
  <2>2. h \in Homes /\ h.auth = home[op.m].auth /\ h.marker = home[op.m].marker
        /\ ("auth" \in h.cut => ~Whole(op.m))
    BY <2>1, AbsentFacts, HomeFields DEF Whole
  <2>3. InHome("config", h)
    BY <1>6 DEF WriteConfig
  <2> HIDE DEF h
  <2> QED
    BY <1>3, <2>1, <2>2, <2>3, InHomeInv
<1>8. CASE DropOldMarker
  <2>1. op.kind = "rename" /\ op.m \in Names /\ Exists(op.m) /\ ~Remains("mark")
    BY <1>8, StepKinds, ToldMarks DEF DropOldMarker, InHome, HomeKinds, Commands, At
  <2> DEFINE h == [home[op.m] EXCEPT !.marker = @ \ {"old"}]
  <2>2. h \in Homes /\ h.auth = home[op.m].auth /\ h.marker = home[op.m].marker \ {"old"}
        /\ ("auth" \in h.cut => ~Whole(op.m))
    <3>1. home[op.m] \in Homes
      BY <2>1, AbsentFacts
    <3>2. home[op.m].marker \ {"old"} \in SUBSET {"new", "old"}
      BY <3>1, HomeFields
    <3>3. h = [home[op.m] EXCEPT !.marker = home[op.m].marker \ {"old"}]
      OBVIOUS
    <3> HIDE DEF h
    <3> QED
      BY <3>1, <3>2, <3>3, HomeMarks DEF Whole
  <2>3. "new" \in h.marker
    BY <2>1, <2>2 DEF Marks
  <2>4. InHome("unmark", h)
    BY <1>8 DEF DropOldMarker
  <2> HIDE DEF h
  <2> QED
    BY <2>1, <2>2, <2>3, <2>4, InHomeInv DEF HomeKinds
<1> QED
  BY <1>4, <1>5, <1>6, <1>8

LEMMA WriteMarkerInv ==
  ASSUME IInv, WriteMarker
  PROVE  IInv'
<1> USE DEF IInv
<1>1. /\ op # Idle /\ op.kind \in {"add", "create", "rename"} /\ op.m \in Names /\ Exists(op.m)
      /\ ~At("move") /\ ~At("mkdir") /\ ~At("auth")
  BY StepFacts, StepKinds DEF WriteMarker, Commands, HomeKinds, At
<1>2. /\ UNCHANGED <<wrapper, note, meta, main, timeline, torn, running>>
      /\ Goes /\ (Fault \/ NoFault)
  BY Outcomes DEF WriteMarker, Goes
<1>3. used' \in [ops : Nat, faults : Nat] /\ used'.ops = used.ops
  BY <1>2, UsedFaults
<1>4. Commands' /\ Accounts' /\ Marks' /\ home' \in [Names -> Homes \cup {Absent}]
  <2> DEFINE h == [home[op.m] EXCEPT !.marker = @ \cup {"new"}]
  <2>1. h \in Homes /\ h.auth = home[op.m].auth /\ "new" \in h.marker /\ h.cut = home[op.m].cut
    <3>1. home[op.m] \in Homes
      BY <1>1, AbsentFacts
    <3>2. home[op.m].marker \cup {"new"} \in SUBSET {"new", "old"}
      BY <3>1, HomeFields
    <3> DEFINE marks == home[op.m].marker \cup {"new"}
    <3>3. h = [home[op.m] EXCEPT !.marker = marks]
      OBVIOUS
    <3> HIDE DEF h, marks
    <3>4. h \in Homes /\ h.auth = home[op.m].auth /\ h.cut = home[op.m].cut /\ h.marker = marks
      BY <3>1, <3>2, <3>3, HomeMarks DEF marks
    <3> QED
      BY <3>4 DEF marks
  <2>2. \/ HomeBecomes(op.m, h) /\ marked' = marked \cup ({home[op.m].auth} \ {0})
        \/ Stops /\ UNCHANGED <<home, marked>>
    BY Outcomes DEF WriteMarker
  <2> HIDE DEF h
  <2>3. CASE HomeBecomes(op.m, h) /\ marked' = marked \cup ({home[op.m].auth} \ {0})
    <3>1. ~At("auth") /\ ("auth" \in h.cut => ~Whole(op.m))
      BY <1>1, <2>1 DEF Whole
    <3> QED
      BY <1>1, <1>2, <1>3, <2>1, <2>3, <3>1, HomeEdited DEF HomeKinds
  <2>4. CASE Stops /\ UNCHANGED <<home, marked>>
    BY <1>1, <1>3, <2>4, HomesKept DEF Types, TypeOK
  <2> QED
    BY <2>2, <2>3, <2>4
<1>5. Types'
  BY <1>1, <1>2, <1>3, <1>4, FrameTypes
<1>6. Switches' /\ SwitchIsWhole' /\ StartRepairsWrappers'
  BY <1>1, <1>2, NoSwitch, OthersReported
<1> QED
  BY <1>4, <1>5, <1>6

\* The credentials of an account that is being added, or uploaded again.
LEMMA WriteAuthInv ==
  ASSUME IInv, WriteAuth
  PROVE  IInv'
<1> USE DEF IInv
<1>1. /\ op # Idle /\ op.kind \in {"add", "upload"} /\ op.n \in Names /\ op.n = op.m /\ Exists(op.n)
      /\ At("auth")
  BY StepFacts, StepKinds DEF WriteAuth, WriteFile, Commands, HomeKinds, At
<1>2. /\ UNCHANGED <<wrapper, note, meta, main, timeline, torn, running, marked>>
      /\ Goes /\ (Fault \/ NoFault)
  BY Outcomes DEF WriteAuth, WriteFile, Goes
<1>3. used' \in [ops : Nat, faults : Nat] /\ used'.ops = used.ops
  BY <1>2, UsedFaults
<1>4. PICK h \in Homes :
        /\ HomeBecomes(op.n, h) /\ h.auth \in {home[op.n].auth, op.owner}
        /\ h.marker = home[op.n].marker
        /\ Proceeds => h.auth = op.owner /\ "auth" \notin h.cut
  <2>1. PICK h \in {home[op.n], CutShort("auth", WithAuth), WithAuth} :
          HomeBecomes(op.n, h) /\ (h = WithAuth \/ Stops)
    BY <1>1, Outcomes DEF WriteAuth, WriteFile
  <2>2. h \in Homes /\ h.auth \in {home[op.n].auth, op.owner} /\ h.marker = home[op.n].marker
        /\ (h = WithAuth => h.auth = op.owner /\ "auth" \notin h.cut)
    BY <1>1, <2>1, FileFacts
  <2>3. Proceeds => ~Stops
    BY <1>1, ProceedsIs, StopsIs
  <2> QED
    BY <2>1, <2>2, <2>3
<1>5. home' \in [Names -> Homes \cup {Absent}] /\ home'[op.n] = h
      /\ \A n \in Names \ {op.n} : home'[n] = home[n]
  BY <1>1, <1>4 DEF HomeBecomes, Types, TypeOK
<1>6. Commands'
  <2>1. Exists(op.m)' \/ Stops
    BY <1>1, <1>2, <1>5, AbsentFacts, ProceedsIs DEF Exists, Goes
  <2>2. CASE Stops
    BY <2>2, StopsIs, IdleCommands
  <2> QED
    BY <1>1, <1>2, <2>1, <2>2, CommandsGo
<1>7. /\ op.owner \in 1..(used.ops + 1) /\ home[op.n].auth \in {0, op.owner}
      /\ \A n \in Names \ {op.n} : home[n].auth # op.owner
      /\ op.owner \in marked => home[op.n].auth = op.owner
  BY <1>1 DEF Accounts
<1>8. Accounts'
  <2>1. \A n, m \in Names : home'[n].auth = home'[m].auth /\ home'[n].auth # 0 => n = m
    BY <1>1, <1>4, <1>5, <1>7 DEF Accounts
  <2>2. \A n \in Names : home'[n].auth <= used'.ops + 1
    BY <1>3, <1>4, <1>5, <1>7 DEF Accounts, Types
  <2>3. \A k \in kept \ {op.owner} : k # 0 /\ \E n \in Names : home'[n].auth = k /\ Whole(n)'
    BY <1>1, <1>5, <1>7 DEF Accounts, Whole
  <2>4. CASE Stops
    <3>1. kept' = kept \ {op.owner}
      BY <1>1, <2>4, StopsIs DEF Counted
    <3> QED
      BY <1>2, <1>3, <2>1, <2>2, <2>3, <2>4, <3>1, StopsIs DEF Accounts
  <2>5. CASE Proceeds
    <3>1. /\ kept' = kept /\ op'.kind = op.kind /\ op'.n = op.n /\ op'.owner = op.owner
      BY <1>1, <2>5, ProceedsIs
    <3>2. home'[op.n].auth = op.owner /\ Whole(op.n)' /\ op.owner # 0
      BY <1>4, <1>5, <1>7, <2>5, <3>1 DEF Whole
    <3>3. \A k \in kept' : k # 0 /\ \E n \in Names : home'[n].auth = k /\ Whole(n)'
      <4>1. Whole(op.n)' <=> "auth" \notin home'[op.n].cut
        BY <3>1 DEF Whole
      <4> QED
        BY <1>1, <2>3, <3>1, <3>2, <4>1 DEF Whole
    <3>4. home'[op'.n].auth = op'.owner => At("auth")' \/ Whole(op.n)'
      BY <3>2
    <3>5. op'.kind # "delete"
      BY <1>1, <3>1
    <3>6. /\ op'.owner \in 1..(used'.ops + 1) /\ home'[op'.n].auth \in {0, op'.owner}
          /\ \A n \in Names \ {op'.n} : home'[n].auth # op'.owner
          /\ op'.owner \in marked' => home'[op'.n].auth = op'.owner
      BY <1>2, <1>3, <1>5, <1>7, <3>1, <3>2
    <3> QED
      BY <1>2, <1>3, <2>1, <2>2, <3>3, <3>4, <3>5, <3>6 DEF Accounts
  <2> QED
    BY <1>2, <2>4, <2>5 DEF Goes
<1>9. Marks'
  <2>1. op'.kind # "rename"
    BY <1>1, <1>2, ProceedsIs, StopsIs DEF Goes
  <2> QED
    BY <1>1, <1>2, <1>4, <1>5, <1>7, <2>1 DEF Marks
<1>10. Types'
  BY <1>1, <1>2, <1>3, <1>5, FrameTypes
<1>11. Switches' /\ SwitchIsWhole' /\ StartRepairsWrappers'
  <2>1. op'.kind # "switch"
    BY <1>1, <1>2, StopsIs, ProceedsIs DEF Goes
  <2> QED
    BY <1>1, <1>2, <2>1, OthersReported DEF Switches
<1> QED
  BY <1>6, <1>8, <1>9, <1>10, <1>11

LEMMA MoveHomeInv ==
  ASSUME IInv, MoveHome
  PROVE  IInv'
<1> USE DEF IInv
<1>1. /\ op # Idle /\ op.kind = "rename" /\ op.n \in Names /\ op.m \in Names /\ op.n # op.m
      /\ Exists(op.n) /\ ~Exists(op.m) /\ ~At("mkdir") /\ ~At("mark")
  BY StepFacts, StepKinds DEF MoveHome, Commands, At
<1>2. /\ UNCHANGED <<wrapper, note, meta, main, timeline, torn, running, marked>>
      /\ Goes /\ (Fault \/ NoFault)
  BY Outcomes DEF MoveHome, Goes
<1>3. used' \in [ops : Nat, faults : Nat] /\ used'.ops = used.ops
  BY <1>2, UsedFaults
<1>4. home' = [home EXCEPT ![op.m] = home[op.n], ![op.n] = Absent] \/ (Stops /\ UNCHANGED home)
  BY Outcomes DEF MoveHome
<1>5. CASE Stops /\ UNCHANGED home
  <2>1. Commands' /\ Accounts' /\ Marks'
    BY <1>1, <1>2, <1>3, <1>5, HomesKept
  <2>2. Types'
    BY <1>1, <1>2, <1>3, <1>5, FrameTypes DEF Types, TypeOK
  <2> QED
    BY <1>1, <1>2, <2>1, <2>2, NoSwitch, OthersReported
<1>6. CASE home' = [home EXCEPT ![op.m] = home[op.n], ![op.n] = Absent]
  <2>1. /\ home[op.n] \in Homes /\ home[op.m] = Absent /\ home' \in [Names -> Homes \cup {Absent}]
        /\ home'[op.m] = home[op.n] /\ home'[op.n] = Absent
        /\ \A n \in Names \ {op.n, op.m} : home'[n] = home[n]
    BY <1>1, <1>6, AbsentFacts DEF Types, TypeOK, Exists
  <2>2. Commands'
    <3>1. Exists(op.m)' \/ Stops
      BY <1>1, <1>2, <2>1, AbsentFacts, ProceedsIs DEF Exists, Goes
    <3>2. CASE Stops
      BY <3>2, StopsIs, IdleCommands
    <3> QED
      BY <1>1, <1>2, <3>1, <3>2, CommandsGo
  <2>3. Accounts'
    <3>1. \A n, m \in Names : home'[n].auth = home'[m].auth /\ home'[n].auth # 0 => n = m
      BY <1>1, <2>1, AbsentFacts DEF Accounts
    <3>2. \A n \in Names : home'[n].auth <= used'.ops + 1
      BY <1>1, <1>3, <2>1, AbsentFacts DEF Accounts, Types
    <3>3. \A k \in kept : k # 0 /\ \E n \in Names : home'[n].auth = k /\ Whole(n)'
      BY <1>1, <2>1, AbsentFacts DEF Accounts, Whole
    <3>4. kept' \subseteq kept /\ op'.kind \notin {"add", "upload", "delete"}
      BY <1>1, <1>2, ProceedsIs, StopsIs, CountedFacts DEF Goes
    <3> QED
      BY <1>2, <1>3, <3>1, <3>2, <3>3, <3>4 DEF Accounts
  <2>4. Marks'
    <3>1. Remains("mark")
      <4>1. "new" \notin Absent.marker
        BY DEF Absent
      <4> QED
        BY <1>1, <2>1, <4>1 DEF Marks
    <3>2. op'.kind = "rename" => Remains("mark")'
      BY <1>1, <1>2, <3>1, ProceedsIs, StopsIs DEF Goes
    <3>3. 0 \notin marked
      BY DEF Accounts
    <3>4. \A n \in Names : home'[n].auth \in marked' => home'[n].marker # {}
      BY <1>1, <1>2, <2>1, <3>3, AbsentFacts DEF Marks
    <3> QED
      BY <3>2, <3>4 DEF Marks
  <2>5. Types'
    BY <1>1, <1>2, <1>3, <2>1, FrameTypes
  <2> QED
    BY <1>1, <1>2, <2>2, <2>3, <2>4, <2>5, NoSwitch, OthersReported
<1> QED
  BY <1>4, <1>5, <1>6

LEMMA RemoveHomeInv ==
  ASSUME IInv, RemoveHome
  PROVE  IInv'
<1> USE DEF IInv
<1>1. /\ op # Idle /\ op.kind = "delete" /\ op.n \in Names /\ op.m = op.n
      /\ home[op.n].auth \notin kept \cup marked
  BY StepFacts, StepKinds DEF RemoveHome, Commands, Accounts
<1>2. /\ UNCHANGED <<wrapper, note, meta, main, timeline, torn, running, marked>>
      /\ Goes /\ (Fault \/ NoFault)
  BY Outcomes DEF RemoveHome, Goes
<1>3. used' \in [ops : Nat, faults : Nat] /\ used'.ops = used.ops
  BY <1>2, UsedFaults
<1>4. PICK h \in Homes \cup {Absent} : HomeBecomes(op.n, h) /\ h.auth \in {0, home[op.n].auth}
  BY AbsentFacts DEF RemoveHome, Less
<1>5. home' \in [Names -> Homes \cup {Absent}] /\ home'[op.n] = h
      /\ \A n \in Names \ {op.n} : home'[n] = home[n]
  BY <1>1, <1>4 DEF HomeBecomes, Types, TypeOK
<1>6. Commands'
  BY <1>1, <1>2, CommandsGo DEF HomeKinds
<1>7. 0 \notin marked /\ 0 \notin kept
  BY DEF Accounts
<1>8. kept' \subseteq kept /\ op'.kind \in {"delete", "none"} /\ (op'.kind = "delete" => op'.n = op.n)
  BY <1>1, <1>2, ProceedsIs, StopsIs, CountedFacts DEF Goes
<1>9. Accounts'
  <2>1. \A n, m \in Names : home'[n].auth = home'[m].auth /\ home'[n].auth # 0 => n = m
    BY <1>1, <1>4, <1>5 DEF Accounts
  <2>2. \A n \in Names : home'[n].auth <= used'.ops + 1
    BY <1>1, <1>3, <1>4, <1>5 DEF Accounts, Types
  <2>3. \A k \in kept : k # 0 /\ \E n \in Names : home'[n].auth = k /\ Whole(n)'
    BY <1>1, <1>4, <1>5 DEF Accounts, Whole
  <2>4. home'[op.n].auth \notin kept \cup marked
    BY <1>1, <1>4, <1>5, <1>7
  <2> QED
    BY <1>2, <1>3, <1>8, <2>1, <2>2, <2>3, <2>4 DEF Accounts
<1>10. Marks'
  BY <1>1, <1>2, <1>4, <1>5, <1>7, <1>8 DEF Marks
<1>11. Types'
  BY <1>1, <1>2, <1>3, <1>5, FrameTypes
<1> QED
  BY <1>1, <1>2, <1>6, <1>9, <1>10, <1>11, NoSwitch, OthersReported

-----------------------------------------------------------------------------
(* The steps of a switch *)

LEMMA ClosedFacts ==
  ASSUME NEW events \in Seq(SwitchEvents), \A i \in 1..(Len(events) - 1) : ~events[i].open
  PROVE  /\ Closed(events) \in Seq(SwitchEvents)
         /\ \A i \in 1..Len(Closed(events)) : ~Closed(events)[i].open
<1> DEFINE open == {i \in DOMAIN events : events[i].open}
           k == CHOOSE i \in open : \A j \in open : j <= i
<1>1. Len(events) \in Nat /\ DOMAIN events = 1..Len(events)
      /\ \A i \in DOMAIN events : events[i] \in SwitchEvents
  OBVIOUS
<1>2. \A i \in open : i = Len(events)
  BY <1>1
<1>3. CASE open = {}
  BY <1>1, <1>3 DEF Closed
<1>4. CASE open # {}
  <2>1. \E i \in open : \A j \in open : j <= i
    BY <1>1, <1>2, <1>4
  <2>2. k \in open
    BY <2>1
  <2>3. k = Len(events) /\ k \in DOMAIN events
    BY <1>2, <2>2
  <2> DEFINE e == [events[k] EXCEPT !.open = FALSE]
  <2>4. Closed(events) = [events EXCEPT ![k] = e]
    BY <1>4 DEF Closed
  <2>5. e \in SwitchEvents /\ e.open = FALSE
    BY <1>1, <2>3 DEF SwitchEvents
  <2> HIDE DEF k, e
  <2>6. Closed(events) \in Seq(SwitchEvents) /\ Len(Closed(events)) = Len(events)
    BY <1>1, <2>3, <2>4, <2>5
  <2>7. \A i \in 1..Len(events) : ~Closed(events)[i].open
    BY <1>1, <2>3, <2>4, <2>5
  <2> QED
    BY <2>6, <2>7
<1> QED
  BY <1>3, <1>4

LEMMA SucceedsIs ==
  ASSUME Succeeds
  PROVE  (Len(op.todo) = 1 => Ends(TRUE)) /\ (Len(op.todo) # 1 => Proceeds)
BY DEF Succeeds, Done, Proceeds

LEMMA SwitchStepFacts ==
  ASSUME IInv, op.kind = "switch", op # Idle
  PROVE  /\ At("main auth") => Len(op.todo) = 3
         /\ At("timeline") => Len(op.todo) = 2
         /\ At("main f") => Len(op.todo) = 1
         /\ op.n \in Names /\ op.m = op.n
<1>1. op.todo \in Seq(Steps) /\ op.todo # <<>> /\ Fits(op.todo, op.kind)
  BY DEF IInv, Commands, Fits
<1>2. 1 \in DOMAIN op.todo /\ Head(op.todo) = op.todo[1]
  BY <1>1, TailFacts
<1>3. At("main auth") => Len(op.todo) = 1 + 2
  BY <1>1, <1>2 DEF Fits, At
<1>4. At("timeline") => Len(op.todo) = 1 + 1
  BY <1>1, <1>2 DEF Fits, At
<1>5. At("main f") => Len(op.todo) = 1
  BY <1>1, <1>2 DEF Fits, At
<1>6. 1 + 2 = 3 /\ 1 + 1 = 2
  OBVIOUS
<1>7. op.n \in Names /\ op.m = op.n
  BY DEF IInv, Commands
<1> QED
  BY <1>3, <1>4, <1>5, <1>6, <1>7

SwitchStep == ReplaceMainAuth \/ RecordSwitch \/ ReplaceMainAuthF

LEMMA SwitchStepBasics ==
  ASSUME IInv, SwitchStep
  PROVE  /\ op # Idle /\ op.kind = "switch" /\ op.n \in Names
         /\ Goes /\ UNCHANGED <<home, wrapper, note, meta, running, marked>>
         /\ used' \in [ops : Nat, faults : Nat]
         /\ Commands' /\ Accounts' /\ Marks'
<1>1. /\ At("main auth") \/ At("timeline") \/ At("main f")
      /\ Goes /\ (Fault \/ NoFault) /\ UNCHANGED <<home, wrapper, note, meta, running, marked>>
  BY Outcomes DEF SwitchStep, ReplaceMainAuth, RecordSwitch, ReplaceMainAuthF, Goes
<1>2. op # Idle /\ op.kind = "switch"
  BY <1>1, StepFacts, StepKinds DEF IInv
<1>3. used' \in [ops : Nat, faults : Nat] /\ used'.ops = used.ops
  BY <1>1, UsedFaults DEF IInv
<1>4. ~At("mkdir") /\ ~At("move") /\ ~At("mark") /\ ~At("auth")
  BY <1>1 DEF At
<1>5. Commands' /\ Accounts' /\ Marks'
  BY <1>1, <1>2, <1>3, <1>4, HomesKept DEF Goes
<1> QED
  BY <1>1, <1>2, <1>3, <1>5, SwitchStepFacts

LEMMA ReplaceMainAuthInv ==
  ASSUME IInv, ReplaceMainAuth
  PROVE  IInv'
<1> USE DEF IInv
<1>1. /\ op # Idle /\ op.kind = "switch" /\ op.n \in Names
      /\ Goes /\ UNCHANGED <<home, wrapper, note, meta, running, marked, timeline, torn>>
      /\ used' \in [ops : Nat, faults : Nat]
      /\ Commands' /\ Accounts' /\ Marks'
  BY SwitchStepBasics DEF SwitchStep, ReplaceMainAuth
<1>2. Len(op.todo) = 3
  BY <1>1, SwitchStepFacts DEF ReplaceMainAuth
<1>3. op.owner \in Owners
  BY DEF Types, Operations
<1>4. \/ main' = [main EXCEPT !.auth = op.owner] /\ Proceeds
      \/ main' \in {main, [main EXCEPT !.auth = op.owner]} /\ Stops /\ Ends(FALSE)
  <2>1. Len(op.todo) # 1
    BY <1>2
  <2> QED
    BY <2>1, Outcomes, SucceedsIs DEF ReplaceMainAuth
<1>5. main' \in [auth : Owners, f : Owners] /\ (Proceeds => main'.auth = op.owner \/ Stops)
  BY <1>3, <1>4 DEF Types, TypeOK
<1>6. Types'
  BY <1>1, <1>5, GoesOperation DEF Types, TypeOK
<1>7. CASE Stops /\ Ends(FALSE)
  BY <1>1, <1>6, <1>7, StopsIs, FailureReported DEF Switches
<1>8. CASE Proceeds /\ main' = [main EXCEPT !.auth = op.owner]
  <2>1. main'.auth = op.owner
    BY <1>8 DEF Types, TypeOK
  <2>2. Len(op'.todo) = 2 /\ op'.kind = "switch" /\ op'.n = op.n /\ op'.owner = op.owner /\ last' = Nothing
    BY <1>1, <1>2, <1>8, ProceedsIs
  <2>3. Switches'
    BY <1>1, <2>1, <2>2 DEF Switches, Whole
  <2> QED
    BY <1>1, <1>6, <2>2, <2>3, NothingReported
<1> QED
  BY <1>4, <1>7, <1>8

LEMMA RecordSwitchInv ==
  ASSUME IInv, RecordSwitch
  PROVE  IInv'
<1> USE DEF IInv
<1>1. /\ op # Idle /\ op.kind = "switch" /\ op.n \in Names
      /\ Goes /\ UNCHANGED <<home, wrapper, note, meta, running, marked, main>>
      /\ used' \in [ops : Nat, faults : Nat]
      /\ Commands' /\ Accounts' /\ Marks'
  BY SwitchStepBasics DEF SwitchStep, RecordSwitch
<1>2. Len(op.todo) = 2
  BY <1>1, SwitchStepFacts DEF RecordSwitch
<1> DEFINE event == [account |-> op.n, open |-> TRUE]
           closed == Closed(Events)
<1>3. \/ timeline' = Append(closed, event) /\ torn' = torn \ {"timeline"} /\ Proceeds
      \/ UNCHANGED timeline /\ torn' = torn \cup {"timeline"} /\ Stops /\ Ends(FALSE)
  <2>1. Len(op.todo) # 1
    BY <1>2
  <2> QED
    BY <2>1, Outcomes, SucceedsIs DEF RecordSwitch
<1>4. closed \in Seq(SwitchEvents) /\ \A i \in 1..Len(closed) : ~closed[i].open
  <2>1. Events \in Seq(SwitchEvents) /\ \A i \in 1..(Len(Events) - 1) : ~Events[i].open
    BY EmptyLen DEF Events, Types, Switches
  <2> QED
    BY <2>1, ClosedFacts
<1>5. event \in SwitchEvents
  BY <1>1 DEF SwitchEvents
<1> HIDE DEF event, closed
<1>6. torn' \subseteq {"notes", "timeline"}
  <2>1. torn \subseteq {"notes", "timeline"}
    BY DEF Types, TypeOK
  <2>2. torn' = torn \ {"timeline"} \/ torn' = torn \cup {"timeline"}
    BY <1>3
  <2> QED
    BY <2>1, <2>2
<1>7. CASE Stops /\ Ends(FALSE) /\ UNCHANGED timeline
  <2>1. Types'
    BY <1>1, <1>6, <1>7, GoesOperation DEF Types, TypeOK
  <2> QED
    BY <1>1, <1>7, <2>1, StopsIs, FailureReported DEF Switches
<1>8. CASE Proceeds /\ timeline' = Append(closed, event)
  <2>1. /\ timeline' \in Seq(SwitchEvents) /\ timeline' # <<>>
        /\ timeline'[Len(timeline')] = event
        /\ \A i \in 1..(Len(timeline') - 1) : ~timeline'[i].open
    <3>1. /\ timeline' \in Seq(SwitchEvents) /\ Len(timeline') = Len(closed) + 1 /\ Len(closed) \in Nat
          /\ timeline'[Len(closed) + 1] = event
          /\ \A i \in 1..Len(closed) : timeline'[i] = closed[i]
      BY <1>4, <1>5, <1>8
    <3>2. timeline' # <<>>
      BY <3>1, EmptyLen
    <3>3. Len(timeline') - 1 = Len(closed)
      BY <3>1
    <3> QED
      BY <1>4, <3>1, <3>2, <3>3
  <2>2. Len(op'.todo) = 1 /\ op'.kind = "switch" /\ op'.n = op.n /\ op'.owner = op.owner /\ op'.raced = op.raced
        /\ last' = Nothing
    BY <1>1, <1>2, <1>8, ProceedsIs
  <2>3. Switches'
    BY <1>1, <1>2, <2>1, <2>2 DEF Switches, event, Whole
  <2>4. Types'
    BY <1>1, <1>6, <2>1, GoesOperation DEF Types, TypeOK
  <2> QED
    BY <1>1, <2>2, <2>3, <2>4, NothingReported
<1> QED
  BY <1>3, <1>7, <1>8

LEMMA ReplaceMainAuthFInv ==
  ASSUME IInv, ReplaceMainAuthF
  PROVE  IInv'
<1> USE DEF IInv
<1>1. /\ op # Idle /\ op.kind = "switch" /\ op.n \in Names
      /\ Goes /\ UNCHANGED <<home, wrapper, note, meta, running, marked, timeline, torn>>
      /\ used' \in [ops : Nat, faults : Nat]
      /\ Commands' /\ Accounts' /\ Marks'
  BY SwitchStepBasics DEF SwitchStep, ReplaceMainAuthF
<1>2. Len(op.todo) = 1
  BY <1>1, SwitchStepFacts DEF ReplaceMainAuthF
<1>3. \/ main' = [main EXCEPT !.f = home[op.n].f] /\ Ends(TRUE) /\ "f" \notin home[op.n].cut
      \/ main' \in {main, [main EXCEPT !.f = home[op.n].f]} /\ Ends(FALSE)
  BY <1>2, Outcomes, SucceedsIs DEF ReplaceMainAuthF
<1>4. Stops
  BY <1>3 DEF Stops
<1>5. op.owner # 0 /\ op.owner = home[op.n].auth /\ home[op.n] \in Homes /\ Whole(op.n)
  BY <1>1, AbsentFacts DEF Switches, Exists
<1>6. main' \in [auth : Owners, f : Owners] /\ main'.auth = main.auth
      /\ (main' = [main EXCEPT !.f = home[op.n].f] => main'.f = home[op.n].f)
  BY <1>3, <1>5 DEF Types, TypeOK, Homes
<1>7. Types'
  BY <1>1, <1>6, GoesOperation DEF Types, TypeOK
<1>8. Switches'
  BY <1>1, <1>4, StopsIs DEF Switches
<1>9. CASE Ends(FALSE)
  BY <1>1, <1>7, <1>8, <1>9, FailureReported
<1>10. CASE main' = [main EXCEPT !.f = home[op.n].f] /\ Ends(TRUE)
              /\ "f" \notin home[op.n].cut
  <2>1. last'.kind = "switch" /\ last'.n = op.n /\ (last'.ok => ~op.raced)
    BY <1>1, <1>10 DEF Ends, Report
  <2>2. StartRepairsWrappers'
    BY <2>1 DEF StartRepairsWrappers
  <2>3. ASSUME last'.ok
        PROVE  /\ main'.auth = op.owner /\ main'.f = home[op.n].f
               /\ timeline # <<>> /\ timeline[Len(timeline)] = [account |-> op.n, open |-> TRUE]
               /\ \A i \in 1..(Len(timeline) - 1) : ~timeline[i].open
    BY <1>1, <1>2, <1>6, <1>10, <2>1, <2>3 DEF Switches
  <2>4. ASSUME last'.ok
        PROVE  Active' = {op.n} \/ (Active' = {} /\ \E m \in Names \ {op.n} : m \in Matches')
    <3>1. op.n \in Matches'
      <4>1. home'[op.n] # Absent
        BY <1>1, <1>5, AbsentFacts
      <4>2. home'[op.n].auth # 0 /\ "auth" \notin home'[op.n].cut /\ home'[op.n].auth = main'.auth
        BY <1>1, <1>5, <2>3, <2>4 DEF Whole
      <4> QED
        BY <1>1, <4>1, <4>2 DEF Matches, Whole, Listed, Exists
    <3>2. Active' \subseteq {op.n}
      BY <3>1 DEF Active
    <3>3. Matches' = {op.n} => op.n \in Active'
      BY <1>1 DEF Active
    <3>4. Matches' # {op.n} => \E m \in Names \ {op.n} : m \in Matches'
      BY <3>1 DEF Matches
    <3>5. Matches' # {op.n} => Active' = {}
      BY <3>2 DEF Active
    <3> QED
      BY <3>2, <3>3, <3>4, <3>5
  <2>6. home[op.n].cut = {}
    <3>1. home[op.n].cut \subseteq {"auth", "f"}
      BY <1>5, HomeFields
    <3>2. "auth" \notin home[op.n].cut /\ "f" \notin home[op.n].cut
      BY <1>5, <1>10 DEF Whole
    <3> QED
      BY <3>1, <3>2
  <2>5. SwitchIsWhole'
    BY <1>1, <1>5, <2>1, <2>3, <2>4, <2>6 DEF SwitchIsWhole, Last
  <2> QED
    BY <1>1, <1>7, <1>8, <2>2, <2>5
<1> QED
  BY <1>3, <1>9, <1>10

-----------------------------------------------------------------------------
(* The start of the application *)

LEMMA RepairWrappersInv ==
  ASSUME IInv, RepairWrappers
  PROVE  IInv'
<1> USE DEF IInv
<1> DEFINE wrong == {n \in Names : Managed(n) /\ wrapper[n] # "right"}
<1>1. op # Idle /\ op.kind = "start" /\ last = Nothing
      /\ ~At("mkdir") /\ ~At("move") /\ ~At("mark") /\ ~At("auth")
  BY StepFacts, StepKinds DEF RepairWrappers, At
<1>2. /\ UNCHANGED <<home, note, meta, main, timeline, torn, running, marked>>
      /\ Goes \/ Waits
      /\ Fault \/ NoFault
      /\ \/ UNCHANGED wrapper /\ Ends(FALSE)
         \/ UNCHANGED wrapper /\ wrong = {} /\ (Proceeds \/ Ends(TRUE))
         \/ Waits /\ \E n \in Names : wrapper' = [wrapper EXCEPT ![n] = "right"]
  BY Outcomes, SucceedsIs DEF RepairWrappers, Waits, Goes
<1>3. used' \in [ops : Nat, faults : Nat] /\ used'.ops = used.ops
  BY <1>2, UsedFaults
<1>4. Commands' /\ Accounts' /\ Marks'
  BY <1>1, <1>2, <1>3, HomesKept DEF Goes
<1>5. Switches'
  BY <1>1, <1>2, NoSwitch
<1>6. Types'
  <2>1. wrapper' \in [Names -> {"none", "stale", "right"}]
    BY <1>2 DEF Types, TypeOK
  <2>2. op' \in Operations
    BY <1>1, <1>2, GoesOperation
  <2> QED
    BY <1>2, <1>3, <2>1, <2>2 DEF Types, TypeOK
<1>7. SwitchIsWhole' /\ StartRepairsWrappers'
  <2>1. CASE Ends(FALSE)
    BY <2>1, FailureReported
  <2>2. CASE Proceeds \/ Waits
    <3>1. last' = Nothing
      BY <1>1, <2>2, ProceedsIs DEF Waits
    <3> QED
      BY <3>1, NothingReported
  <2>3. CASE Ends(TRUE) /\ wrong = {} /\ UNCHANGED wrapper
    <3>1. last'.kind = "start"
      BY <1>1, <2>3 DEF Ends, Report
    <3>2. \A n \in Names : home[n].auth \in marked => Managed(n)
      <4>1. 0 \notin marked
        BY DEF Accounts
      <4> QED
        BY <4>1, AbsentFacts DEF Managed, Listed, Exists, Marks
    <3>3. \A n \in Names : home[n].auth \in marked => wrapper[n] = "right"
      BY <2>3, <3>2
    <3>4. \A n \in Names : home'[n].auth \in marked' => wrapper'[n] = "right"
      BY <1>2, <2>3, <3>3
    <3> QED
      BY <3>1, <3>4 DEF SwitchIsWhole, StartRepairsWrappers
  <2> QED
    BY <1>2, <2>1, <2>2, <2>3
<1> QED
  BY <1>4, <1>5, <1>6, <1>7

LEMMA StepInv ==
  ASSUME IInv, Step
  PROVE  IInv'
BY RestStepInv, HomeStepsInv, WriteMarkerInv, WriteAuthInv, WriteAuthFInv, MoveHomeInv, RemoveHomeInv,
   ReplaceMainAuthInv, RecordSwitchInv, ReplaceMainAuthFInv, RepairWrappersInv DEF Step, RestStep

-----------------------------------------------------------------------------
(* The commands *)

LEMMA Programs ==
  /\ Fits(<<"mkdir", "tree", "f", "auth", "config", "mark", "meta">>, "add")
  /\ Fits(<<"mkdir", "tree", "auth", "config", "mark", "meta">>, "add")
  /\ Fits(<<"mkdir", "tree", "bad date">>, "add")
  /\ Fits(<<"mkdir", "tree", "auth", "config", "mark", "wrapper">>, "add")
  /\ Fits(<<"auth", "meta">>, "upload")
  /\ Fits(<<"mkdir", "tree", "mark", "wrapper">>, "create")
  /\ Fits(<<"move", "wrapper", "unwrap", "mark", "unmark", "list">>, "rename")
  /\ Fits(<<"end processes", "remove home", "unwrap", "drop note", "drop meta", "list">>, "delete")
  /\ Fits(<<"note", "list">>, "note")
  /\ Fits(<<"main auth", "timeline", "main f">>, "switch")
  /\ Fits(<<"f">>, "session")
  /\ Fits(<<"repair">>, "start")
<1>1. Fits(<<"mkdir", "tree", "f", "auth", "config", "mark", "meta">>, "add")
  <2> DEFINE s == <<"mkdir", "tree", "f", "auth", "config", "mark", "meta">>
  <2>1. s \in Seq(Steps) /\ DOMAIN s = 1..7 /\ Len(s) = 7
    BY DEF Steps
  <2>2. s[1] = "mkdir" /\ s[2] = "tree" /\ s[3] = "f" /\ s[4] = "auth" /\ s[5] = "config" /\ s[6] = "mark" /\ s[7] = "meta"
    OBVIOUS
  <2>3. 1..7 = {1, 2, 3, 4, 5, 6, 7}
    OBVIOUS
  <2> HIDE DEF s
  <2>4. \A i \in DOMAIN s : HasStep("add", s[i])
    BY <2>1, <2>2, <2>3 DEF HasStep
  <2>5. \A i \in DOMAIN s : s[i] \in {"mkdir", "move"} => i = 1
    BY <2>1, <2>2, <2>3
  <2>6. \A i \in DOMAIN s : s[i] # "unmark"
    BY <2>1, <2>2, <2>3
  <2>8. Fits(s, "add")
    BY <2>1, <2>4, <2>5, <2>6 DEF Fits
  <2> QED
    BY <2>8 DEF s
<1>2. Fits(<<"mkdir", "tree", "auth", "config", "mark", "meta">>, "add")
  <2> DEFINE s == <<"mkdir", "tree", "auth", "config", "mark", "meta">>
  <2>1. s \in Seq(Steps) /\ DOMAIN s = 1..6 /\ Len(s) = 6
    BY DEF Steps
  <2>2. s[1] = "mkdir" /\ s[2] = "tree" /\ s[3] = "auth" /\ s[4] = "config" /\ s[5] = "mark" /\ s[6] = "meta"
    OBVIOUS
  <2>3. 1..6 = {1, 2, 3, 4, 5, 6}
    OBVIOUS
  <2> HIDE DEF s
  <2>4. \A i \in DOMAIN s : HasStep("add", s[i])
    BY <2>1, <2>2, <2>3 DEF HasStep
  <2>5. \A i \in DOMAIN s : s[i] \in {"mkdir", "move"} => i = 1
    BY <2>1, <2>2, <2>3
  <2>6. \A i \in DOMAIN s : s[i] # "unmark"
    BY <2>1, <2>2, <2>3
  <2>8. Fits(s, "add")
    BY <2>1, <2>4, <2>5, <2>6 DEF Fits
  <2> QED
    BY <2>8 DEF s
<1>3. Fits(<<"mkdir", "tree", "bad date">>, "add")
  <2> DEFINE s == <<"mkdir", "tree", "bad date">>
  <2>1. s \in Seq(Steps) /\ DOMAIN s = 1..3 /\ Len(s) = 3
    BY DEF Steps
  <2>2. s[1] = "mkdir" /\ s[2] = "tree" /\ s[3] = "bad date"
    OBVIOUS
  <2>3. 1..3 = {1, 2, 3}
    OBVIOUS
  <2> HIDE DEF s
  <2>4. \A i \in DOMAIN s : HasStep("add", s[i])
    BY <2>1, <2>2, <2>3 DEF HasStep
  <2>5. \A i \in DOMAIN s : s[i] \in {"mkdir", "move"} => i = 1
    BY <2>1, <2>2, <2>3
  <2>6. \A i \in DOMAIN s : s[i] # "unmark"
    BY <2>1, <2>2, <2>3
  <2>8. Fits(s, "add")
    BY <2>1, <2>4, <2>5, <2>6 DEF Fits
  <2> QED
    BY <2>8 DEF s
<1>4. Fits(<<"mkdir", "tree", "auth", "config", "mark", "wrapper">>, "add")
  <2> DEFINE s == <<"mkdir", "tree", "auth", "config", "mark", "wrapper">>
  <2>1. s \in Seq(Steps) /\ DOMAIN s = 1..6 /\ Len(s) = 6
    BY DEF Steps
  <2>2. s[1] = "mkdir" /\ s[2] = "tree" /\ s[3] = "auth" /\ s[4] = "config" /\ s[5] = "mark" /\ s[6] = "wrapper"
    OBVIOUS
  <2>3. 1..6 = {1, 2, 3, 4, 5, 6}
    OBVIOUS
  <2> HIDE DEF s
  <2>4. \A i \in DOMAIN s : HasStep("add", s[i])
    BY <2>1, <2>2, <2>3 DEF HasStep
  <2>5. \A i \in DOMAIN s : s[i] \in {"mkdir", "move"} => i = 1
    BY <2>1, <2>2, <2>3
  <2>6. \A i \in DOMAIN s : s[i] # "unmark"
    BY <2>1, <2>2, <2>3
  <2>8. Fits(s, "add")
    BY <2>1, <2>4, <2>5, <2>6 DEF Fits
  <2> QED
    BY <2>8 DEF s
<1>5. Fits(<<"auth", "meta">>, "upload")
  BY DEF Fits, HasStep, Steps
<1>6. Fits(<<"mkdir", "tree", "mark", "wrapper">>, "create")
  BY DEF Fits, HasStep, Steps
<1>7. Fits(<<"move", "wrapper", "unwrap", "mark", "unmark", "list">>, "rename")
  BY DEF Fits, HasStep, Steps
<1>8. Fits(<<"end processes", "remove home", "unwrap", "drop note", "drop meta", "list">>, "delete")
  <2> DEFINE s == <<"end processes", "remove home", "unwrap", "drop note", "drop meta", "list">>
  <2>1. s \in Seq(Steps) /\ DOMAIN s = 1..6 /\ Len(s) = 6
    BY DEF Steps
  <2>2. s[1] = "end processes" /\ s[2] = "remove home" /\ s[3] = "unwrap" /\ s[4] = "drop note" /\ s[5] = "drop meta" /\ s[6] = "list"
    OBVIOUS
  <2>3. 1..6 = {1, 2, 3, 4, 5, 6}
    OBVIOUS
  <2> HIDE DEF s
  <2>4. \A i \in DOMAIN s : HasStep("delete", s[i])
    BY <2>1, <2>2, <2>3 DEF HasStep
  <2>5. \A i \in DOMAIN s : s[i] \in {"mkdir", "move"} => i = 1
    BY <2>1, <2>2, <2>3
  <2>6. \A i \in DOMAIN s : s[i] # "unmark"
    BY <2>1, <2>2, <2>3
  <2>8. Fits(s, "delete")
    BY <2>1, <2>4, <2>5, <2>6 DEF Fits
  <2> QED
    BY <2>8 DEF s
<1>9. Fits(<<"note", "list">>, "note")
  BY DEF Fits, HasStep, Steps
<1>10. Fits(<<"main auth", "timeline", "main f">>, "switch")
  <2> DEFINE s == <<"main auth", "timeline", "main f">>
  <2>1. s \in Seq(Steps) /\ DOMAIN s = 1..3 /\ Len(s) = 3
    BY DEF Steps
  <2>2. s[1] = "main auth" /\ s[2] = "timeline" /\ s[3] = "main f"
    OBVIOUS
  <2>3. 1..3 = {1, 2, 3}
    OBVIOUS
  <2> HIDE DEF s
  <2>4. \A i \in DOMAIN s : HasStep("switch", s[i])
    BY <2>1, <2>2, <2>3 DEF HasStep
  <2>5. \A i \in DOMAIN s : s[i] \in {"mkdir", "move"} => i = 1
    BY <2>1, <2>2, <2>3
  <2>6. \A i \in DOMAIN s : s[i] # "unmark"
    BY <2>1, <2>2, <2>3
  <2>7. \A i \in DOMAIN s : /\ s[i] = "main auth" => i = 1
                            /\ s[i] = "timeline" => i = 2
                            /\ s[i] = "main f" => i = 3
    BY <2>1, <2>2, <2>3
  <2>9. 3 = 1 + 2 /\ 3 = 2 + 1
    OBVIOUS
  <2>8. Fits(s, "switch")
    BY <2>1, <2>4, <2>5, <2>6, <2>7, <2>9 DEF Fits
  <2> QED
    BY <2>8 DEF s
<1>11. Fits(<<"f">>, "session")
  BY DEF Fits, HasStep, Steps
<1>12. Fits(<<"repair">>, "start")
  BY DEF Fits, HasStep, Steps
<1> QED
  BY <1>1, <1>2, <1>3, <1>4, <1>5, <1>6, <1>7, <1>8, <1>9, <1>10, <1>11, <1>12

LEMMA ThreeSteps ==
  ASSUME NEW n, n = 3
  PROVE  ~(n < 3) /\ n # 1
OBVIOUS

\* Every command starts like this.
LEMMA BeginInv ==
  ASSUME IInv, NEW kind \in Kinds \ {"none", "start"}, NEW n \in Names, NEW m \in Names,
         NEW owner \in Owners, NEW todo, Begin(kind, n, m, owner, todo),
         Fits(todo, kind), todo # <<>>, UNCHANGED <<files, running>>,
         kind # "rename" => n = m,
         kind \in HomeKinds => Head(todo) \in {"mkdir", "move"} \/ Exists(m),
         Head(todo) = "move" => n # m /\ Exists(n) /\ ~Exists(m),
         kept' \subseteq kept, marked' \subseteq marked,
         kind \in {"add", "upload"} =>
           /\ owner \in 1..(used.ops + 2) /\ home[n].auth \in {0, owner}
           /\ \A k \in Names \ {n} : home[k].auth # owner
           /\ owner \in marked => home[n].auth = owner
           /\ home[n].auth = owner => Head(todo) = "auth" \/ Whole(n),
         kind = "delete" => home[n].auth \notin kept' \cup marked',
         kind = "rename" => \E i \in DOMAIN todo : todo[i] = "mark",
         kind = "switch" => owner = home[n].auth /\ owner # 0 /\ Whole(n) /\ Len(todo) = 3
  PROVE  IInv'
<1> USE DEF IInv
<1> DEFINE new == [kind |-> kind, n |-> n, m |-> m, owner |-> owner, todo |-> todo, raced |-> FALSE]
<1>1. op' = new /\ last' = Nothing /\ used.ops < MaxOps /\ used' = [used EXCEPT !.ops = @ + 1]
  BY DEF Begin, Use
<1>2. /\ new.kind = kind /\ new.n = n /\ new.m = m /\ new.owner = owner /\ new.todo = todo
      /\ new \in Operations
  BY DEF Operations, Fits
<1> HIDE DEF new
<1>3. UNCHANGED <<home, wrapper, note, meta, main, timeline, torn, running>>
  BY DEF files
<1>4. used' \in [ops : Nat, faults : Nat] /\ used'.ops = used.ops + 1 /\ used.ops \in Nat /\ MaxOps \in Nat
  BY <1>1, AccountsAssumption DEF Types
<1>5. Types'
  BY <1>1, <1>2, <1>3, <1>4 DEF Types, TypeOK
<1>6. Commands'
  BY <1>1, <1>2, <1>3 DEF Commands, At, Exists
<1>7. Accounts'
  <2>1. \A a, b \in Names : home[a].auth = home[b].auth /\ home[a].auth # 0 => a = b
    BY DEF Accounts
  <2>2. \A k \in kept' : k # 0 /\ \E a \in Names : home'[a].auth = k /\ Whole(a)'
    BY <1>3 DEF Accounts, Whole
  <2>3. used'.ops \in 0..MaxOps
    BY <1>1, <1>4
  <2>4. \A a \in Names : home[a].auth <= used'.ops + 1
    <3> TAKE a \in Names
    <3>1. home[a].auth <= used.ops + 1 /\ home[a].auth \in Nat
      BY AccountsAssumption, AbsentFacts DEF Accounts, Types, TypeOK, Homes, Owners, Login
    <3> QED
      BY <1>4, <3>1
  <2>5. marked' \subseteq 1..(used'.ops + 1)
    <3> SUFFICES ASSUME NEW k \in marked' PROVE k \in 1..(used'.ops + 1)
      OBVIOUS
    <3>1. k \in 1..(used.ops + 1)
      BY DEF Accounts
    <3> QED
      BY <1>4, <3>1
  <2>6. kind \in {"add", "upload"} =>
          /\ owner \in 1..(used'.ops + 1) /\ home[n].auth \in {0, owner}
          /\ \A k \in Names \ {n} : home[k].auth # owner
          /\ owner \in marked' => home[n].auth = owner
          /\ home[n].auth = owner => At("auth")' \/ "auth" \notin home[n].cut
    BY <1>1, <1>2, <1>4 DEF At, Whole
  <2> QED
    BY <1>1, <1>2, <1>3, <2>1, <2>2, <2>3, <2>4, <2>5, <2>6 DEF Accounts, Whole
<1>8. Marks'
  BY <1>1, <1>2, <1>3 DEF Marks, Remains
<1>9. Switches'
  <2>1. kind = "switch" => ~(Len(todo) < 3) /\ Len(todo) # 1
    <3> DEFINE steps == Len(todo)
    <3>1. kind = "switch" => steps = 3
      OBVIOUS
    <3> HIDE DEF IInv, steps
    <3> SUFFICES ASSUME kind = "switch" PROVE ~(steps < 3) /\ steps # 1
      BY Zenon DEF steps
    <3>2. steps = 3
      BY ONLY kind = "switch", <3>1
    <3> QED
      BY ONLY <3>2, ThreeSteps
  <2>2. timeline' = timeline /\ home' = home
    BY <1>3
  <2>3. op'.kind = kind /\ op'.n = n /\ op'.owner = owner /\ op'.todo = todo
    BY <1>1, <1>2
  <2> QED
    BY <2>1, <2>2, <2>3 DEF Switches, Whole
<1> QED
  BY <1>1, <1>5, <1>6, <1>7, <1>8, <1>9, NothingReported

\* The next account is none that is there.
LEMMA NewIsNew ==
  ASSUME IInv, used.ops < MaxOps
  PROVE  /\ NewOwner \in Owners /\ NewOwner \in 1..(used.ops + 2) /\ NewOwner \notin marked
         /\ \A n \in Names : home[n].auth # NewOwner
<1>1. used.ops \in Nat /\ MaxOps \in Nat /\ marked \subseteq 1..(used.ops + 1)
  BY AccountsAssumption DEF IInv, Types, Accounts
<1>2. \A n \in Names : home[n].auth <= used.ops + 1
  BY DEF IInv, Accounts
<1>3. ~(used.ops + 2 <= used.ops + 1)
  BY <1>1
<1> QED
  BY <1>1, <1>2, <1>3 DEF NewOwner, Owners, Login

LEMMA HomeOwner ==
  ASSUME IInv, NEW n \in Names
  PROVE  /\ home[n].auth \in Owners /\ home[n].auth <= used.ops + 2 /\ used.ops \in Nat
         /\ home[n].auth \in Nat
         /\ home[n].auth # 0 => \A k \in Names \ {n} : home[k].auth # home[n].auth
<1>1. home[n].auth \in Owners /\ home[n].auth \in Nat
  BY AccountsAssumption, AbsentFacts DEF IInv, Types, TypeOK, Homes, Owners, Login
<1>2. used.ops \in Nat /\ home[n].auth <= used.ops + 1
  BY DEF IInv, Types, Accounts
<1>3. home[n].auth <= used.ops + 2
  BY <1>1, <1>2
<1> QED
  BY <1>1, <1>2, <1>3 DEF IInv, Accounts

LEMMA ZeroOwner == 0 \in Owners
BY AccountsAssumption DEF Owners, Login

LEMMA AddPrograms ==
  /\ <<"mkdir", "tree", "f", "auth", "config", "mark", "meta">> # <<>>
  /\ <<"mkdir", "tree", "auth", "config", "mark", "meta">> # <<>>
  /\ <<"mkdir", "tree", "bad date">> # <<>>
  /\ Head(<<"mkdir", "tree", "f", "auth", "config", "mark", "meta">>) = "mkdir"
  /\ Head(<<"mkdir", "tree", "auth", "config", "mark", "meta">>) = "mkdir"
  /\ Head(<<"mkdir", "tree", "bad date">>) = "mkdir"
OBVIOUS

LEMMA AddInv ==
  ASSUME IInv, NEW n \in Names, AddPat(n) \/ AddSession(n)
  PROVE  IInv'
<1>1. PICK todo : /\ Begin("add", n, n, NewOwner, todo) /\ Fits(todo, "add")
                  /\ todo # <<>> /\ Head(todo) = "mkdir"
  <2>1. CASE AddPat(n)
    <3>1. PICK todo \in {<<"mkdir", "tree", "f", "auth", "config", "mark", "meta">>,
                         <<"mkdir", "tree", "auth", "config", "mark", "meta">>,
                         <<"mkdir", "tree", "bad date">>} : Begin("add", n, n, NewOwner, todo)
      BY <2>1 DEF AddPat
    <3>2. Fits(todo, "add")
      BY <3>1, Programs
    <3>3. todo # <<>> /\ Head(todo) = "mkdir"
      BY <3>1, AddPrograms
    <3> QED
      BY <3>1, <3>2, <3>3
  <2>2. CASE AddSession(n)
    <3> DEFINE todo == <<"mkdir", "tree", "auth", "config", "mark", "wrapper">>
    <3>1. Begin("add", n, n, NewOwner, todo) /\ Fits(todo, "add")
      BY <2>2, Programs DEF AddSession
    <3>2. todo # <<>> /\ Head(todo) = "mkdir"
      OBVIOUS
    <3> QED
      BY <3>1, <3>2
  <2> QED
    BY <2>1, <2>2
<1>2. UNCHANGED <<files, running, kept, marked>> /\ home[n].auth = 0 /\ used.ops < MaxOps
  BY <1>1, AbsentFacts DEF AddPat, AddSession, Free, Exists, Begin, Use
<1> QED
  BY <1>1, <1>2, NewIsNew, BeginInv DEF Kinds, HomeKinds

LEMMA UploadInv ==
  ASSUME IInv, NEW n \in Names, Upload(n)
  PROVE  IInv'
<1> DEFINE todo == <<"auth", "meta">>
           owner == IF home[n].auth = 0 THEN NewOwner ELSE home[n].auth
<1>1. Begin("upload", n, n, owner, todo) /\ Fits(todo, "upload")
  BY Programs DEF Upload
<1>2. todo # <<>> /\ Head(todo) = "auth"
  OBVIOUS
<1>3. UNCHANGED <<files, running, kept, marked>> /\ Exists(n) /\ used.ops < MaxOps
  BY DEF Upload, Listed, Begin, Use
<1>4. /\ owner \in Owners /\ owner \in 1..(used.ops + 2) /\ home[n].auth \in {0, owner}
      /\ \A k \in Names \ {n} : home[k].auth # owner
      /\ owner \in marked => home[n].auth = owner
  BY <1>3, NewIsNew, HomeOwner
<1> HIDE DEF todo, owner
<1> QED
  BY <1>1, <1>2, <1>3, <1>4, BeginInv DEF Kinds

LEMMA CreateInv ==
  ASSUME IInv, NEW n \in Names, Create(n)
  PROVE  IInv'
<1> DEFINE todo == <<"mkdir", "tree", "mark", "wrapper">>
<1>1. Begin("create", n, n, 0, todo) /\ Fits(todo, "create")
  BY Programs DEF Create
<1>2. todo # <<>> /\ Head(todo) = "mkdir"
  OBVIOUS
<1>3. UNCHANGED <<files, running, kept, marked>>
  BY DEF Create
<1> HIDE DEF todo
<1> QED
  BY <1>1, <1>2, <1>3, ZeroOwner, BeginInv DEF Kinds

LEMMA RenameInv ==
  ASSUME IInv, NEW n \in Names, NEW m \in Names, Rename(n, m)
  PROVE  IInv'
<1> DEFINE todo == <<"move", "wrapper", "unwrap", "mark", "unmark", "list">>
<1>1. Begin("rename", n, m, 0, todo) /\ Fits(todo, "rename")
  BY Programs DEF Rename, RenameSteps
<1>2. todo # <<>> /\ Head(todo) = "move" /\ 4 \in DOMAIN todo /\ todo[4] = "mark"
  OBVIOUS
<1>3. UNCHANGED <<files, running, kept, marked>> /\ n # m /\ Exists(n) /\ ~Exists(m)
  BY DEF Rename, Found, Listed, Free
<1> HIDE DEF todo
<1> QED
  BY <1>1, <1>2, <1>3, ZeroOwner, BeginInv DEF Kinds

LEMMA DeleteInv ==
  ASSUME IInv, NEW n \in Names, Delete(n)
  PROVE  IInv'
<1> DEFINE todo == <<"end processes", "remove home", "unwrap", "drop note", "drop meta", "list">>
<1>1. Begin("delete", n, n, 0, todo) /\ Fits(todo, "delete")
  BY Programs DEF Delete
<1>2. todo # <<>> /\ Head(todo) = "end processes"
  OBVIOUS
<1>3. /\ UNCHANGED <<files, running>> /\ kept' = kept \ {home[n].auth}
      /\ marked' = marked \ {home[n].auth}
  BY DEF Delete
<1> HIDE DEF todo
<1> QED
  BY <1>1, <1>2, <1>3, ZeroOwner, BeginInv DEF Kinds, HomeKinds

LEMMA NoteInv ==
  ASSUME IInv, NEW n \in Names, UpdateNote(n)
  PROVE  IInv'
<1> DEFINE todo == <<"note", "list">>
<1>1. Begin("note", n, n, home[n].auth, todo) /\ Fits(todo, "note")
  BY Programs DEF UpdateNote
<1>2. todo # <<>> /\ Head(todo) = "note"
  OBVIOUS
<1>3. UNCHANGED <<files, running, kept, marked>>
  BY DEF UpdateNote
<1> HIDE DEF todo
<1> QED
  BY <1>1, <1>2, <1>3, HomeOwner, BeginInv DEF Kinds, HomeKinds

LEMMA SwitchInv ==
  ASSUME IInv, NEW n \in Names, Switch(n)
  PROVE  IInv'
<1> DEFINE todo == <<"main auth", "timeline", "main f">>
<1>1. Begin("switch", n, n, home[n].auth, todo) /\ Fits(todo, "switch")
  BY Programs DEF Switch
<1>2. todo # <<>> /\ Head(todo) = "main auth" /\ Len(todo) = 3
  OBVIOUS
<1>3. UNCHANGED <<files, running, kept, marked>> /\ home[n].auth # 0 /\ Whole(n)
  BY DEF Switch
<1> HIDE DEF todo
<1> QED
  BY <1>1, <1>2, <1>3, HomeOwner, BeginInv DEF Kinds, HomeKinds

LEMMA SessionInv ==
  ASSUME IInv, NEW n \in Names, UpdateSession(n)
  PROVE  IInv'
<1> DEFINE todo == <<"f">>
<1>1. Begin("session", n, n, home[n].auth, todo) /\ Fits(todo, "session")
  BY Programs DEF UpdateSession
<1>2. todo # <<>> /\ Head(todo) = "f"
  OBVIOUS
<1>3. UNCHANGED <<files, running, kept, marked>> /\ Exists(n)
  BY DEF UpdateSession, Found, Listed
<1> HIDE DEF todo
<1> QED
  BY <1>1, <1>2, <1>3, HomeOwner, BeginInv DEF Kinds, HomeKinds

LEMMA CommandInv ==
  ASSUME IInv, Command
  PROVE  IInv'
BY AddInv, UploadInv, CreateInv, RenameInv, DeleteInv, NoteInv, SwitchInv, SessionInv DEF Command

-----------------------------------------------------------------------------
(* The application, and what happens around it *)

LEMMA StartInv ==
  ASSUME IInv, Start
  PROVE  IInv'
<1> USE DEF IInv
<1> DEFINE new == [Idle EXCEPT !.kind = "start", !.todo = <<"repair">>]
<1>1. op' = new /\ last' = Nothing /\ UNCHANGED <<files, running, used, kept, marked>>
  BY DEF Start
<1>2. new.kind = "start" /\ new.todo = <<"repair">> /\ new \in Operations
  <2>1. <<"repair">> \in Seq(Steps)
    BY DEF Steps
  <2> QED
    BY <2>1, IdleFacts DEF Idle, Operations, Kinds
<1>3. Fits(<<"repair">>, "start") /\ <<"repair">> # <<>> /\ Head(<<"repair">>) = "repair"
  <2>1. <<"repair">> # <<>> /\ Head(<<"repair">>) = "repair"
    OBVIOUS
  <2> QED
    BY <2>1, Programs
<1> HIDE DEF new
<1>4. UNCHANGED <<home, wrapper, note, meta, main, timeline, torn>>
  BY <1>1 DEF files
<1>5. Types'
  BY <1>1, <1>2, <1>4 DEF Types, TypeOK
<1>6. Commands'
  BY <1>1, <1>2, <1>3 DEF Commands, At, HomeKinds
<1>7. Accounts' /\ Marks' /\ Switches'
  BY <1>1, <1>2, <1>4 DEF Accounts, Marks, Switches, Whole
<1> QED
  BY <1>1, <1>5, <1>6, <1>7, NothingReported

LEMMA DieInv ==
  ASSUME IInv, Die
  PROVE  IInv'
<1> USE DEF IInv
<1>1. /\ op' = Idle /\ last' = Nothing /\ kept' = Counted
      /\ UNCHANGED <<wrapper, note, meta, main, timeline, running, marked>>
  BY DEF Die
<1>2. used' \in [ops : Nat, faults : Nat] /\ used'.ops = used.ops
  BY UsedFaults DEF Die
<1>3. torn' \subseteq {"notes", "timeline"}
  <2>1. torn \subseteq {"notes", "timeline"}
    BY DEF Types, TypeOK
  <2>2. torn' = torn \/ torn' = torn \cup {"notes"} \/ torn' = torn \cup {"timeline"}
    BY DEF Die
  <2> QED
    BY <2>1, <2>2
<1>4. Commands' /\ Switches'
  BY <1>1, IdleFacts, IdleCommands DEF Switches
<1>5. CASE UNCHANGED home
  <2>1. Accounts'
    BY <1>1, <1>2, <1>5, CountedFacts, IdleFacts DEF Accounts, Whole
  <2>2. Types' /\ Marks'
    BY <1>1, <1>2, <1>3, <1>5, IdleFacts DEF Types, TypeOK, Marks
  <2> QED
    BY <1>1, <1>4, <2>1, <2>2, NothingReported
<1>6. CASE At("f") /\ HomeBecomes(op.m, CutShort("f", WithAuthF))
  <2>1. op.n \in Names /\ op.m = op.n /\ Exists(op.n)
    BY <1>6, StepKinds DEF Commands, HomeKinds, At
  <2> DEFINE h == CutShort("f", WithAuthF)
  <2>2. h \in Homes /\ h.auth = home[op.n].auth /\ h.marker = home[op.n].marker
        /\ ("auth" \in h.cut <=> "auth" \in home[op.n].cut)
    BY <2>1, FileFacts
  <2>3. home' = [home EXCEPT ![op.n] = h]
    BY <1>6, <2>1 DEF HomeBecomes
  <2> HIDE DEF h
  <2>4. /\ home' \in [Names -> Homes \cup {Absent}] /\ home'[op.n] = h
        /\ \A n \in Names \ {op.n} : home'[n] = home[n]
    BY <2>1, <2>2, <2>3 DEF Types, TypeOK
  <2>5. \A n \in Names : /\ home'[n].auth = home[n].auth /\ home'[n].marker = home[n].marker
                          /\ ("auth" \notin home[n].cut => "auth" \notin home'[n].cut)
    BY <2>2, <2>4
  <2>6. Accounts'
    <3>1. \A n, m \in Names : home'[n].auth = home'[m].auth /\ home'[n].auth # 0 => n = m
      BY <2>5 DEF Accounts
    <3>2. \A n \in Names : home'[n].auth <= used'.ops + 1
      BY <1>2, <2>5 DEF Accounts
    <3>3. \A k \in kept' : k # 0 /\ \E n \in Names : home'[n].auth = k /\ "auth" \notin home'[n].cut
      <4>1. \A k \in kept' : k # 0 /\ \E n \in Names : home[n].auth = k /\ "auth" \notin home[n].cut
        BY <1>1, CountedFacts DEF Whole
      <4> QED
        BY <2>5, <4>1
    <3> QED
      BY <1>1, <1>2, <3>1, <3>2, <3>3, IdleFacts DEF Accounts, Whole
  <2>7. Types'
    BY <1>1, <1>2, <1>3, <2>4, IdleFacts DEF Types, TypeOK
  <2>8. Marks'
    <3>1. \A n \in Names : home'[n].auth \in marked => home'[n].marker # {}
      BY <2>5 DEF Marks
    <3> QED
      BY <1>1, <3>1, IdleFacts DEF Marks
  <2> QED
    BY <1>1, <1>4, <2>6, <2>7, <2>8, NothingReported
<1>7. CASE At("auth") /\ HomeBecomes(op.m, CutShort("auth", WithAuth))
  <2>1. op.n \in Names /\ op.m = op.n /\ Exists(op.n) /\ op.kind \in {"add", "upload"}
    BY <1>7, StepKinds DEF Commands, HomeKinds, At
  <2> DEFINE h == CutShort("auth", WithAuth)
  <2>2. h \in Homes /\ h.auth = op.owner /\ h.marker = home[op.n].marker
    BY <2>1, FileFacts
  <2>3. home' = [home EXCEPT ![op.n] = h]
    BY <1>7, <2>1 DEF HomeBecomes
  <2> HIDE DEF h
  <2>4. /\ home' \in [Names -> Homes \cup {Absent}] /\ home'[op.n] = h
        /\ \A n \in Names \ {op.n} : home'[n] = home[n]
    BY <2>1, <2>2, <2>3 DEF Types, TypeOK
  <2>5. /\ op.owner \in 1..(used.ops + 1) /\ home[op.n].auth \in {0, op.owner}
        /\ \A n \in Names \ {op.n} : home[n].auth # op.owner
        /\ op.owner \in marked => home[op.n].auth = op.owner
    BY <2>1 DEF Accounts
  <2>6. kept' = kept \ {op.owner}
    BY <1>1, <1>7 DEF Counted
  <2>7. \A n, m \in Names : home'[n].auth = home'[m].auth /\ home'[n].auth # 0 => n = m
    BY <2>1, <2>2, <2>4, <2>5 DEF Accounts
  <2>8. \A n \in Names : home'[n].auth <= used'.ops + 1
    BY <1>2, <2>2, <2>4, <2>5 DEF Accounts, Types
  <2>9. \A k \in kept' : k # 0 /\ \E n \in Names : home'[n].auth = k /\ Whole(n)'
    BY <2>1, <2>4, <2>5, <2>6 DEF Accounts, Whole
  <2>10. Accounts'
    BY <1>1, <1>2, <2>7, <2>8, <2>9, IdleFacts DEF Accounts
  <2>11. Types'
    BY <1>1, <1>2, <1>3, <2>4, IdleFacts DEF Types, TypeOK
  <2>12. Marks'
    BY <1>1, <2>1, <2>2, <2>4, <2>5, IdleFacts DEF Marks
  <2> QED
    BY <1>1, <1>4, <2>10, <2>11, <2>12, NothingReported
<1> QED
  BY <1>5, <1>6, <1>7 DEF Die

LEMMA SignInInv ==
  ASSUME IInv, SignIn
  PROVE  IInv'
<1> USE DEF IInv
<1> DEFINE new == IF op = Idle THEN op ELSE [op EXCEPT !.raced = TRUE]
<1>1. /\ op' = new /\ last' = Nothing /\ main' = [main EXCEPT !.auth = Login]
      /\ UNCHANGED <<home, wrapper, note, meta, timeline, torn, running, used, kept, marked>>
  BY DEF SignIn
<1>2. /\ new \in Operations /\ new.kind = op.kind /\ new.n = op.n /\ new.m = op.m
      /\ new.owner = op.owner /\ new.todo = op.todo
      /\ new.raced = TRUE \/ op = Idle
      /\ new # Idle => op # Idle
  BY DEF Types, Operations
<1> HIDE DEF new
<1>3. main' \in [auth : Owners, f : Owners]
  <2>1. Login \in Owners
    BY AccountsAssumption DEF Owners, Login
  <2> QED
    BY <1>1, <2>1 DEF Types, TypeOK
<1>4. Types'
  BY <1>1, <1>2, <1>3 DEF Types, TypeOK
<1>5. Commands'
  BY <1>1, <1>2 DEF Commands, At, Exists
<1>6. Accounts'
  BY <1>1, <1>2 DEF Accounts, At, Whole
<1>7. Marks'
  BY <1>1, <1>2 DEF Marks, Remains
<1>8. Switches'
  BY <1>1, <1>2, IdleFacts DEF Switches, Whole
<1> QED
  BY <1>1, <1>4, <1>5, <1>6, <1>7, <1>8, NothingReported

LEMMA StillInv ==
  ASSUME IInv, UNCHANGED <<files, op, last, used, kept, marked>>, running' \subseteq Names
  PROVE  IInv'
<1> USE DEF IInv
<1>1. UNCHANGED <<home, wrapper, note, meta, main, timeline, torn, op, last, used, kept, marked>>
  BY DEF files
<1>2. Types'
  BY <1>1 DEF Types, TypeOK
<1>3. Commands'
  BY <1>1 DEF Commands, At, Exists
<1>4. Accounts' /\ Marks' /\ Switches'
  BY <1>1 DEF Accounts, Marks, Switches, Remains, At, Whole
<1>5. SwitchIsWhole'
  <2>1. Active' = Active
    BY <1>1 DEF Active, Matches, Listed, Exists, Whole
  <2>2. Matches' = Matches
    BY <1>1 DEF Matches, Listed, Exists, Whole
  <2> QED
    BY <1>1, <2>1, <2>2 DEF SwitchIsWhole, Last
<1>6. StartRepairsWrappers'
  BY <1>1 DEF StartRepairsWrappers
<1> QED
  BY <1>2, <1>3, <1>4, <1>5, <1>6

LEMMA InitInv ==
  ASSUME Init
  PROVE  IInv
<1>1. PICK n \in Names, mark \in {{}, {"old"}, {"new"}} :
        /\ home = [k \in Names |->
                     IF k = n THEN [Bare EXCEPT !.auth = 1, !.tree = TRUE, !.marker = mark]
                     ELSE Absent]
        /\ wrapper = [k \in Names |-> IF k = n THEN "stale" ELSE "none"]
        /\ marked = IF mark = {} THEN {} ELSE {1}
  BY DEF Init
<1> DEFINE h == [Bare EXCEPT !.auth = 1, !.tree = TRUE, !.marker = mark]
<1>2. 0 \in Owners /\ 1 \in Owners /\ Login \in Owners /\ MaxOps \in Nat
  BY AccountsAssumption DEF Owners, Login
<1>3. h \in Homes /\ h.auth = 1 /\ h.marker = mark /\ h.cut = {}
  BY <1>1, <1>2 DEF Homes, Bare
<1>4. \A k \in Names : home[k] = IF k = n THEN h ELSE Absent
  BY <1>1
<1> HIDE DEF h
<1>5. /\ op = Idle /\ last = Nothing /\ timeline = <<>> /\ torn = {} /\ running = {} /\ kept = {1}
      /\ main = [auth |-> Login, f |-> 0] /\ used = [ops |-> 0, faults |-> 0]
      /\ note = [k \in Names |-> 0] /\ meta = note
  BY DEF Init
<1>6. used \in [ops : Nat, faults : Nat] /\ used.ops = 0 /\ main \in [auth : Owners, f : Owners]
  BY <1>2, <1>5
<1>7. Types
  <2>1. home \in [Names -> Homes \cup {Absent}]
    BY <1>1, <1>3 DEF h
  <2>2. wrapper \in [Names -> {"none", "stale", "right"}]
    BY <1>1
  <2>3. note \in [Names -> Owners] /\ meta \in [Names -> Owners]
    BY <1>2, <1>5
  <2>4. timeline \in Seq(SwitchEvents)
    BY <1>5
  <2> QED
    BY <1>5, <1>6, <2>1, <2>2, <2>3, <2>4, IdleFacts DEF Types, TypeOK
<1>8. Commands
  BY <1>5, IdleFacts DEF Commands, HomeKinds, At
<1>9. Accounts
  <2>1. marked \subseteq {1} /\ 1..(0 + 1) = {1} /\ 0 \in 0..MaxOps
    BY <1>1, <1>2
  <2>2. \A k \in Names : home[k].auth = IF k = n THEN 1 ELSE 0
    BY <1>3, <1>4, AbsentFacts
  <2>3. \A k \in Names : home[k].auth <= 0 + 1
    BY <2>2
  <2>4. home[n].auth = 1 /\ Whole(n)
    BY <1>3, <1>4 DEF Whole
  <2> QED
    BY <1>1, <1>5, <1>6, <2>1, <2>2, <2>3, <2>4, IdleFacts DEF Accounts
<1>10. Marks
  <2>1. \A k \in Names : home[k].auth \in marked => k = n /\ mark # {}
    BY <1>1, <1>3, <1>4, AbsentFacts
  <2> QED
    BY <1>3, <1>4, <1>5, <2>1, IdleFacts DEF Marks
<1>11. Switches
  BY <1>5, IdleFacts, EmptyLen DEF Switches
<1>12. SwitchIsWhole /\ StartRepairsWrappers
  BY <1>5 DEF SwitchIsWhole, StartRepairsWrappers, Nothing, Report
<1> QED
  BY <1>7, <1>8, <1>9, <1>10, <1>11, <1>12 DEF IInv

LEMMA IInvNext ==
  ASSUME IInv, [Next]_vars
  PROVE  IInv'
<1>1. CASE \E n \in Names : Launch(n) \/ Exit(n)
  <2>1. running \subseteq Names
    BY DEF IInv, Types, TypeOK
  <2> QED
    BY <1>1, <2>1, StillInv DEF Launch, Exit
<1>2. CASE UNCHANGED vars
  <2>1. running \subseteq Names
    BY DEF IInv, Types, TypeOK
  <2> QED
    BY <1>2, <2>1, StillInv DEF vars
<1> QED
  BY <1>1, <1>2, StartInv, CommandInv, StepInv, DieInv, SignInInv DEF Next

THEOREM IInvHolds == Spec => []IInv
BY InitInv, IInvNext, PTL DEF Spec

\* An account that was added and not deleted, and whose last upload got through,
\* has its credentials whole in just one home, whatever else fails, is cut short,
\* or works on another account (account.rs, add_pat_account, rename_account,
\* delete_account, process_uploaded_credentials).
THEOREM AccountsSurvive == Spec => []AccountSurvives
<1>1. IInv => AccountSurvives
  BY DEF IInv, Types, Accounts, AccountSurvives
<1> QED
  BY <1>1, IInvHolds, PTL

\* A switch that is reported as done has put both files of the account into
\* ~/.codex and ends the record, however the switches before it ended
\* (account.rs, switch_account).
THEOREM SwitchesAreWhole == Spec => []SwitchIsWhole
BY IInvHolds, PTL DEF IInv

\* Once the application has started, every account that LAM has marked as its
\* own can be launched (account.rs, repair_managed_wrappers).
THEOREM StartsRepairWrappers == Spec => []StartRepairsWrappers
BY IInvHolds, PTL DEF IInv
=============================================================================
