------------------------------ MODULE QuotaReads ------------------------------
(* Reading the quota of the profile whose credits QuotaReset redeems.  The   *)
(* usage endpoint is asked first, then a Codex app-server over a staged copy *)
(* of the auth file; an answer goes to the cache, which is what every other  *)
(* read returns.  Reads run on threads of their own, as many as the window,  *)
(* the tray and a finished reset start, and nothing keeps them apart.        *)
EXTENDS QuotaReset

CONSTANT Readers   \* threads that run get_profile_quota

VARIABLES
  reader,   \* the step and the locals of every reader
  cache,    \* the cache file: missing, torn or the credits spent that it shows
  saved,    \* what the last save that finished wrote
  excused   \* whether that save met another one, failed midway or was cut off

readVars == <<reader, cache, saved, excused>>

\* The credits that the server has spent stand for the quota that it reports.
Level == Cardinality(redeemed)
Snapshot(level) == [status |-> "whole", level |-> level]
NoCache == [status |-> "missing", level |-> 0]
TornCache == [status |-> "torn", level |-> 0]

\* told: what the last read of the thread returned.  holds: its staged home
\* and its app-server.  stuck: it could not remove them.  met: whether another
\* read saved since this one began, or since it truncated the cache.
Resting == [pc |-> "idle", since |-> 0, got |-> 0, told |-> "nothing",
            holds |-> {}, stuck |-> FALSE, met |-> "no"]

Is(r, pc) == reader[r].pc = pc
Go(r, pc) == reader' = [reader EXCEPT ![r].pc = pc]

\* Only a fresh answer is remembered with what it shows and when it was asked.
Tell(r, what) ==
  reader' = [reader EXCEPT ![r] =
    [Resting EXCEPT !.told = what, !.holds = reader[r].holds, !.stuck = reader[r].stuck]]

\* read_quota_cache: a snapshot from the cache is never a fresh one, a torn one
\* is an error, and without one the quota is unavailable.
TellCached(r) == Tell(r, IF cache.status = "whole" THEN "cached" ELSE "no_quota")

\* What follows an answer: the expiry of the credits that are left is looked
\* for, unless the answer has it.
AfterAnswer == {"save"} \cup (IF Level < Credits THEN {"details", "manual"} ELSE {})

ReadsInit ==
  /\ reader = [r \in Readers |-> Resting]
  /\ cache = NoCache /\ saved = NoCache /\ excused = FALSE
-----------------------------------------------------------------------------
\* A read that is not forced, one of an account without auth files, one with
\* the app-server disabled, and the list of all cached quotas.
ReadCache(r) ==
  /\ Is(r, "idle")
  /\ TellCached(r)
  /\ UNCHANGED <<cache, saved, excused>>

\* An account bound to an API Provider has no quota; it is not looked up.
ReadExternal(r) ==
  /\ Is(r, "idle")
  /\ Tell(r, "no_quota")
  /\ UNCHANGED <<cache, saved, excused>>

\* A forced read of an account with auth files, from refresh_all_quotas, from
\* the window, or the one that ends a reset.
Begin(r) ==
  /\ Is(r, "idle")
  /\ reader' = [reader EXCEPT ![r] = [Resting EXCEPT !.pc = "usage", !.since = Level]]
  /\ UNCHANGED <<cache, saved, excused>>

\* The usage endpoint answers.
UsageAnswers(r, next) ==
  /\ Is(r, "usage") /\ next \in AfterAnswer
  /\ reader' = [reader EXCEPT ![r].got = Level, ![r].pc = next]
  /\ UNCHANGED <<cache, saved, excused>>

\* No access token, an unreadable auth file, no curl, a status that is no
\* success, or an answer that cannot be parsed.
UsageFails(r) ==
  /\ Is(r, "usage")
  /\ Go(r, "stage")
  /\ UNCHANGED <<cache, saved, excused>>

\* The details of the credits have a date, or two more endpoints are asked.
AskDetails(r, next) ==
  /\ Is(r, "details") /\ next \in {"save", "sources"}
  /\ Go(r, next)
  /\ UNCHANGED <<cache, saved, excused>>

AskSources(r, next) ==
  /\ Is(r, "sources") /\ next \in {"save", "manual"}
  /\ Go(r, next)
  /\ UNCHANGED <<cache, saved, excused>>

\* Without a date from the server the configured one is taken, if any.
ApplyManual(r) ==
  /\ Is(r, "manual")
  /\ Go(r, "save")
  /\ UNCHANGED <<cache, saved, excused>>

\* auth-f.json is copied to a directory of the read's own; an account without
\* it, or with a personal access token, needs no copy.
Stage(r, copied) ==
  /\ Is(r, "stage")
  /\ reader' = [reader EXCEPT ![r].pc = "spawn", ![r].holds = IF copied THEN {"home"} ELSE {}]
  /\ UNCHANGED <<cache, saved, excused>>

\* The auth file is refused before the directory is made, or the directory is
\* there and nothing owns it yet.
StageFails(r, made) ==
  /\ Is(r, "stage")
  /\ reader' = [reader EXCEPT ![r].pc = "fallback", ![r].stuck = made,
                              ![r].holds = IF made THEN {"home"} ELSE {}]
  /\ UNCHANGED <<cache, saved, excused>>

Spawn(r) ==
  /\ Is(r, "spawn")
  /\ reader' = [reader EXCEPT ![r].pc = "ask", ![r].holds = @ \cup {"server"}]
  /\ UNCHANGED <<cache, saved, excused>>

SpawnFails(r) ==
  /\ Is(r, "spawn")
  /\ reader' = [reader EXCEPT ![r].pc = "fallback", ![r].holds = {}]
  /\ UNCHANGED <<cache, saved, excused>>

EndProbeKeepsServer(r, pc) == [reader[r] EXCEPT !.pc = pc, !.holds = @ \cap {"server"}]

\* terminate_child, then the drop of the staged home.
EndProbe(r, pc) == [reader[r] EXCEPT !.pc = pc, !.holds = {}]

ServerAnswers(r, next) ==
  /\ Is(r, "ask") /\ next \in AfterAnswer
  /\ reader' = [reader EXCEPT ![r] = [EndProbe(r, next) EXCEPT !.got = Level]]
  /\ UNCHANGED <<cache, saved, excused>>

\* It cannot be written to, exits early, or the deadline passes.
ServerFails(r) ==
  /\ Is(r, "ask")
  /\ reader' = [reader EXCEPT ![r] = EndProbe(r, "fallback")]
  /\ UNCHANGED <<cache, saved, excused>>

\* try_wait fails and returns at once: the app-server runs on without a home.
WaitFails(r) ==
  /\ Is(r, "ask")
  /\ reader' = [reader EXCEPT ![r].pc = "fallback", ![r].holds = {"server"}, ![r].stuck = TRUE]
  /\ UNCHANGED <<cache, saved, excused>>

FallbackSaves(r) ==
  /\ Is(r, "fallback")
  /\ TellCached(r)
  /\ cache' = NoCache
  /\ UNCHANGED <<saved, excused>>

Fallback(r) ==
  /\ Is(r, "fallback")
  /\ TellCached(r)
  /\ UNCHANGED <<cache, saved, excused>>

\* write_quota_cache truncates the file and writes it afterwards.
Truncate(r) ==
  /\ Is(r, "save")
  /\ reader' = [reader EXCEPT ![r].pc = "write"]
  /\ cache' = TornCache
  /\ UNCHANGED <<saved, excused>>

\* The other reads at work learn that this one wrote.
Met(s, r) ==
  IF s = r \/ Is(s, "idle") THEN reader[s].met
  ELSE IF Is(s, "write") THEN "writing" ELSE IF reader[s].met = "no" THEN "reading" ELSE reader[s].met

\* Over the text of another, a shorter text leaves the end of the longer one.
\* The error of the permissions is returned when the text is there.
Save(r, mixed, told) ==
  /\ Is(r, "write")
  /\ mixed => reader[r].met = "writing"
  /\ cache' = IF mixed THEN TornCache ELSE Snapshot(reader[r].got)
  /\ saved' = Snapshot(reader[r].got)
  /\ excused' = (reader[r].met # "no")
  /\ reader' = [s \in Readers |->
       IF s = r THEN [reader[r] EXCEPT !.pc = "idle", !.told = told, !.met = "no",
                                       !.since = IF told = "fresh" THEN @ ELSE 0,
                                       !.got = IF told = "fresh" THEN @ ELSE 0]
       ELSE [reader[s] EXCEPT !.met = Met(s, r)]]

\* The cache cannot be opened, or it is not written once it is truncated.
SaveFails(r) ==
  /\ Is(r, "save") \/ Is(r, "write")
  /\ Tell(r, "no_quota")
  /\ excused' = (excused \/ Is(r, "write"))
  /\ UNCHANGED <<cache, saved>>

\* The readers die with LAM, and what they hold stays.
ReadersDie ==
  /\ reader' = [r \in Readers |-> [Resting EXCEPT !.holds = reader[r].holds,
                                                  !.stuck = reader[r].holds # {}]]
  /\ excused' = (excused \/ \E r \in Readers : Is(r, "write"))
  /\ UNCHANGED <<cache, saved>>

\* A reset from its first step to its last: reads see no more of it than the
\* credit that the server spends.
Spend(id) ==
  /\ id \notin used /\ Level < Credits
  /\ used' = used \cup {id} /\ redeemed' = redeemed \cup {id} /\ settled' = settled \cup {id}
  /\ UNCHANGED readVars

ReadStep(r) ==
  \/ ReadCache(r) \/ ReadExternal(r) \/ Begin(r)
  \/ UsageFails(r) \/ ApplyManual(r)
  \/ Spawn(r) \/ SpawnFails(r) \/ ServerFails(r) \/ WaitFails(r)
  \/ Fallback(r) \/ Truncate(r) \/ SaveFails(r)
  \/ \E b \in BOOLEAN : Stage(r, b) \/ StageFails(r, b)
  \/ \E next \in {"save", "details", "sources", "manual"} :
       UsageAnswers(r, next) \/ AskDetails(r, next) \/ AskSources(r, next) \/ ServerAnswers(r, next)
  \/ \E mixed \in BOOLEAN, told \in {"fresh", "no_quota"} : Save(r, mixed, told)

ReadsNext ==
  /\ \/ /\ \/ \E r \in Readers : ReadStep(r)
           \/ ReadersDie
        /\ UNCHANGED <<used, redeemed, settled>>
     \/ \E id \in Ids : Spend(id)
  /\ UNCHANGED <<file, guard, caller, wire, answer, dropped, crashes>>
-----------------------------------------------------------------------------
ReaderLocals ==
  [pc : {"idle", "usage", "details", "sources", "manual", "stage", "spawn", "ask",
         "fallback", "save", "write"},
   since : 0..Credits, got : 0..Credits,
   told : {"nothing", "fresh", "cached", "no_quota"},
   holds : SUBSET {"home", "server"}, stuck : BOOLEAN, met : {"no", "reading", "writing"}]

Caches == {NoCache, TornCache} \cup {Snapshot(n) : n \in 0..Credits}

ReadsTypeOK ==
  /\ reader \in [Readers -> ReaderLocals]
  /\ cache \in Caches /\ saved \in Caches
  /\ excused \in BOOLEAN

\* What a read calls fresh shows every credit that was spent when it began:
\* the one that ends a reset shows that reset, whatever fails on the way to
\* the answer and whoever else reads meanwhile.
FreshIsCurrent ==
  \A r \in Readers : reader[r].told = "fresh" => reader[r].got >= reader[r].since

\* When no read is at work the cache shows the last one saved: a failed probe
\* never puts what it could not learn over what is known.  It may lag or be
\* torn only after reads that overlapped, or one that failed or died midway
\* through writing, until the next read is saved.
CacheKeepsUp ==
  ReadsTypeOK /\ (excused \/ (\E r \in Readers : Is(r, "write")) \/ cache = saved)

\* Once a read is over, its copy of the auth file is gone and its app-server
\* has ended, on every way out but those where the code cannot end them and
\* death.
NothingIsLeft ==
  \A r \in Readers : reader[r].holds # {} =>
    reader[r].stuck \/ reader[r].pc \in {"spawn", "ask"}

\* What the user sees of the quota is not older than it has to be, in what a
\* read returns and in the cache.
QuotaIsCurrent == FreshIsCurrent /\ CacheKeepsUp
=============================================================================
