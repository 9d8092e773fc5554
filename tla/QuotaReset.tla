------------------------------ MODULE QuotaReset ------------------------------
(* Redeeming a reset credit of one profile (quota.rs).  The server spends a *)
(* credit once per operation id, so a retry is safe as long as it repeats   *)
(* the id: LAM keeps the id in a file until it knows what became of it.     *)
EXTENDS Naturals, FiniteSets

CONSTANTS Callers,     \* threads that run reset_profile_quota
          Ids,         \* operation ids; a new one is never a used one
          Vias,        \* how credits are consumed: "wham", "app_server"
          Credits,     \* credits that the server has (bound)
          MaxCrashes   \* crashes of LAM (bound)

Nobody == "nobody"

ASSUME QuotaAssumption ==
  /\ Nobody \notin Callers
  /\ Vias \subseteq {"wham", "app_server"}
  /\ Credits \in Nat /\ MaxCrashes \in Nat

VARIABLES
  file,      \* the operation file: missing, torn or an operation
  guard,     \* whether reset_account_locks holds the profile
  caller,    \* the step and the locals of every caller
  wire,      \* requests on their way to the server, and who waits for them
  answer,    \* the answer that a caller can read
  used,      \* the ids created so far
  redeemed,  \* the ids for which the server spent a credit
  settled,   \* the ids whose outcome was known when the file was removed
  dropped,   \* the ids that the file was made to forget without an outcome
  crashes

quotaVars == <<file, guard, caller, wire, answer, used, redeemed, settled, dropped, crashes>>

NoId == "no_id"
Missing == [status |-> "missing", id |-> NoId]
Torn == [status |-> "torn", id |-> NoId]
Operations == [status : {"pending", "outcome_unknown", "rejected"}, id : Ids]

\* The operation that the file names can be repeated.
Retriable(f) == f.status \in {"pending", "outcome_unknown"}

At(c, pc) == caller[c].pc = pc
GoTo(c, pc) == caller' = [caller EXCEPT ![c].pc = pc]
Idle == [pc |-> "idle", id |-> NoId, via |-> "none", status |-> "none"]

\* reset_profile_quota returns, and with it the guard goes.
Return(c) == caller' = [caller EXCEPT ![c] = Idle] /\ guard' = FALSE

\* The connections of the callers in S are gone, what they sent is not.
Unattended(S) == {[id |-> r.id, to |-> IF r.to \in S THEN Nobody ELSE r.to] : r \in wire}

\* What an attempt without an answer is taken for: the app-server has errors
\* that leave the outcome open and others, wham has only others.
Unanswered(via) == IF via = "wham" THEN {"rejected"} ELSE {"outcome_unknown", "rejected"}

QuotaInit ==
  /\ file = Missing
  /\ guard = FALSE
  /\ caller = [c \in Callers |-> Idle]
  /\ wire = {} /\ answer = [c \in Callers |-> "none"]
  /\ used = {} /\ redeemed = {} /\ settled = {} /\ dropped = {}
  /\ crashes = 0
-----------------------------------------------------------------------------
AcquireAnyway(c) ==
  /\ At(c, "idle")
  /\ guard' = TRUE
  /\ GoTo(c, "get")
  /\ UNCHANGED <<file, wire, answer, used, redeemed, settled, dropped, crashes>>

Acquire(c) ==
  /\ At(c, "idle") /\ ~guard
  /\ guard' = TRUE
  /\ GoTo(c, "get")
  /\ UNCHANGED <<file, wire, answer, used, redeemed, settled, dropped, crashes>>

Reuse(c) ==
  /\ At(c, "get") /\ Retriable(file)
  /\ caller' = [caller EXCEPT ![c].id = file.id, ![c].pc = "send"]
  /\ UNCHANGED <<file, guard, wire, answer, used, redeemed, settled, dropped, crashes>>

\* The file is truncated first and written afterwards.
Create(c, id) ==
  /\ At(c, "get") /\ ~Retriable(file)
  /\ id \notin used
  /\ used' = used \cup {id}
  /\ file' = Torn
  /\ caller' = [caller EXCEPT ![c].id = id, ![c].status = "pending", ![c].pc = "write"]
  /\ UNCHANGED <<guard, wire, answer, redeemed, settled, dropped, crashes>>

WriteOperation(c) ==
  /\ At(c, "write")
  /\ file' = [status |-> caller[c].status, id |-> caller[c].id]
  /\ dropped' = IF Retriable(file') THEN dropped \ {caller[c].id} ELSE dropped
  /\ IF caller[c].status = "pending" THEN GoTo(c, "send") /\ UNCHANGED guard ELSE Return(c)
  /\ UNCHANGED <<wire, answer, used, redeemed, settled, crashes>>

Send(c, via) ==
  /\ At(c, "send")
  /\ wire' = wire \cup {[id |-> caller[c].id, to |-> c]}
  /\ caller' = [caller EXCEPT ![c].via = via, ![c].pc = "await"]
  /\ UNCHANGED <<file, guard, answer, used, redeemed, settled, dropped, crashes>>

\* curl or the app-server cannot be started, or written to.
CannotSend(c, via, status) ==
  /\ At(c, "send")
  /\ status \in Unanswered(via)
  /\ caller' = [caller EXCEPT ![c].status = status, ![c].pc = "mark"]
  /\ UNCHANGED <<file, guard, wire, answer, used, redeemed, settled, dropped, crashes>>

Answered(c) ==
  /\ At(c, "await") /\ answer[c] = "outcome"
  /\ answer' = [answer EXCEPT ![c] = "none"]
  /\ GoTo(c, "clear")
  /\ UNCHANGED <<file, guard, wire, used, redeemed, settled, dropped, crashes>>

\* The server reports an error, or an outcome that LAM does not know.
Refused(c) ==
  /\ At(c, "await") /\ answer[c] = "error"
  /\ answer' = [answer EXCEPT ![c] = "none"]
  /\ caller' = [caller EXCEPT ![c].status = "rejected", ![c].pc = "mark"]
  /\ UNCHANGED <<file, guard, wire, used, redeemed, settled, dropped, crashes>>

\* The deadline passes or the connection breaks, before or after the request
\* or its answer arrived.
GiveUp(c, status) ==
  /\ At(c, "await")
  /\ status \in Unanswered(caller[c].via)
  /\ caller' = [caller EXCEPT ![c].status = status, ![c].pc = "mark"]
  /\ wire' = Unattended({c})
  /\ answer' = [answer EXCEPT ![c] = "none"]
  /\ UNCHANGED <<file, guard, used, redeemed, settled, dropped, crashes>>

\* mark_reset_operation truncates the file before it writes it.
Mark(c) ==
  /\ At(c, "mark")
  /\ file' = Torn
  /\ dropped' = dropped \cup {caller[c].id}
  /\ GoTo(c, "write")
  /\ UNCHANGED <<guard, wire, answer, used, redeemed, settled, crashes>>

ClearKeepsFile(c) ==
  /\ At(c, "clear")
  /\ file' = file
  /\ settled' = settled \cup {caller[c].id}
  /\ Return(c)
  /\ UNCHANGED <<wire, answer, used, redeemed, dropped, crashes>>

Clear(c) ==
  /\ At(c, "clear")
  /\ file' = Missing
  /\ settled' = settled \cup {caller[c].id}
  /\ Return(c)
  /\ UNCHANGED <<wire, answer, used, redeemed, dropped, crashes>>

\* The file cannot be read, created, written or removed, or its permissions
\* cannot be set once it is written: the error is returned and the file stays
\* as it is.
FileFails(c) ==
  /\ \E pc \in {"get", "write", "send", "mark", "clear"} : At(c, pc)
  /\ Return(c)
  /\ UNCHANGED <<file, wire, answer, used, redeemed, settled, dropped, crashes>>

\* External: the server handles a request, at any time after it was sent.  An
\* id that it has redeemed is alreadyRedeemed; otherwise it spends a credit,
\* or says nothingToReset or noCredit, or fails.
Serve(r, spends, result) ==
  /\ r \in wire
  /\ wire' = wire \ {r}
  /\ spends => result = "outcome" /\ r.id \notin redeemed /\ Cardinality(redeemed) < Credits
  /\ redeemed' = IF spends THEN redeemed \cup {r.id} ELSE redeemed
  /\ answer' = IF r.to = Nobody THEN answer ELSE [answer EXCEPT ![r.to] = result]
  /\ UNCHANGED <<file, guard, caller, used, settled, dropped, crashes>>

\* LAM dies and is started again.
LamCrashes ==
  /\ crashes < MaxCrashes
  /\ crashes' = crashes + 1
  /\ caller' = [c \in Callers |-> Idle]
  /\ guard' = FALSE
  /\ wire' = Unattended(Callers)
  /\ answer' = [c \in Callers |-> "none"]
  /\ UNCHANGED <<file, used, redeemed, settled, dropped>>

QuotaNext ==
  \/ \E c \in Callers :
       \/ Acquire(c) \/ Reuse(c) \/ WriteOperation(c) \/ Answered(c) \/ Refused(c)
       \/ Mark(c) \/ Clear(c) \/ FileFails(c)
       \/ \E id \in Ids : Create(c, id)
       \/ \E via \in Vias : Send(c, via)
       \/ \E via \in Vias : \E status \in Unanswered(via) : CannotSend(c, via, status)
       \/ \E status \in {"outcome_unknown", "rejected"} : GiveUp(c, status)
  \/ \E r \in wire, spends \in BOOLEAN, result \in {"outcome", "error"} :
       Serve(r, spends, result)
  \/ LamCrashes

QuotaSpec == QuotaInit /\ [][QuotaNext]_quotaVars
-----------------------------------------------------------------------------
Locals == [pc : {"idle", "get", "write", "send", "await", "mark", "clear"},
           id : Ids \cup {NoId}, via : Vias \cup {"none"},
           status : {"none", "pending", "outcome_unknown", "rejected"}]

QuotaTypeOK ==
  /\ file \in Operations \cup {Missing, Torn}
  /\ guard \in BOOLEAN
  /\ caller \in [Callers -> Locals]
  /\ wire \subseteq [id : Ids, to : Callers \cup {Nobody}]
  /\ answer \in [Callers -> {"none", "outcome", "error"}]
  /\ used \subseteq Ids /\ redeemed \subseteq Ids
  /\ settled \subseteq Ids /\ dropped \subseteq Ids
  /\ crashes \in Nat

\* An id that may have cost a credit is not forgotten: until its outcome is
\* known the file names it for the next attempt to repeat, whatever crashed,
\* failed or came late, unless LAM took the attempt for rejected or was
\* interrupted while it rewrote the file.
SpentIdIsKept ==
  \A id \in redeemed \ (settled \cup dropped) : Retriable(file) /\ file.id = id

\* An id whose outcome is known is never sent again: the next reset is a new
\* operation, which can spend another credit.
SettledIdIsNotRepeated ==
  [][\A r \in wire' \ wire : r.to # Nobody => r.id \notin settled]_quotaVars

\* A reset that the user repeats until its outcome is known spends at most one
\* credit.
OneCreditPerReset == Cardinality(redeemed \ settled) <= 1
-----------------------------------------------------------------------------
(* The inductive invariant behind them. *)

\* The guard is held by the one caller that is at work.
Guarded ==
  \A c \in Callers : ~At(c, "idle") =>
    guard /\ \A d \in Callers : ~At(d, "idle") => d = c

\* The file names the operation of the caller, except while it is rewritten.
WorkIsNamed ==
  \A c \in Callers :
    /\ caller[c].pc \in {"send", "await", "mark", "clear"} =>
         Retriable(file) /\ file.id = caller[c].id
    /\ At(c, "mark") => caller[c].status \in {"outcome_unknown", "rejected"}
    /\ At(c, "write") =>
         /\ file = Torn
         /\ caller[c].id \in used \ settled
         /\ caller[c].status # "none"

\* A request that somebody waits for is that of the caller's operation, and it
\* is gone once it is answered.
WireIsAttended ==
  /\ \A r \in wire : r.to # Nobody => At(r.to, "await") /\ r.id = caller[r.to].id
  /\ \A c \in Callers : answer[c] # "none" =>
       At(c, "await") /\ \A r \in wire : r.to # c

\* SpentIdIsKept, for the ids too that may yet cost a credit.
SentIdIsKept ==
  \A id \in redeemed \cup {r.id : r \in wire} :
    id \in settled \cup dropped \/ (Retriable(file) /\ file.id = id)

\* The file never names an id whose outcome is known.
NamedIsOpen ==
  settled \subseteq used /\ (Retriable(file) => file.id \in used \ settled)

QuotaInv ==
  /\ QuotaTypeOK
  /\ Guarded /\ WorkIsNamed /\ WireIsAttended
  /\ SentIdIsKept /\ NamedIsOpen
=============================================================================
