---------------------------- MODULE UsageEvents ----------------------------
(***************************************************************************)
(* The pure half of LAM's usage index (services/usage.rs): what one rollout *)
(* log of Codex says when it is parsed, the aggregates the index keeps      *)
(* beside the calls, and what the Usage page reads out of them.             *)
(*                                                                         *)
(* A log is a sequence of complete lines.  A "turn" line names the model of *)
(* the calls that follow it, and a "token" line is one call of the model;   *)
(* lines that are neither, which the parser skips, are left out.  `at' is   *)
(* the instant the line was written; it stands for the timestamp, for the   *)
(* cumulative token count, which only rises, and for the day of the call.   *)
(***************************************************************************)
EXTENDS Integers, Sequences, FiniteSets, FiniteSetsExt, SequencesExt

CONSTANTS
    Homes,       \* the Codex homes, each of them a workspace
    Sessions,    \* session ids, the tail of a rollout's file name
    Models,      \* model names that a turn may carry
    Priced,      \* those of the rate card
    Names,       \* names a user gives to threads
    None         \* an absent name, model, workspace, row or file

ASSUME UsageAssumption ==
    /\ Priced \subseteq Models
    /\ None \notin Homes \cup Sessions \cup Models \cup Names

\* A rollout is found under sessions/ or archived_sessions/ of a home.
Paths == [home : Homes, archived : BOOLEAN, session : Sessions]

Line == [kind : {"turn", "token"}, model : Models \cup {None}, at : Nat]

(***************************************************************************)
(* One call of the model.  Its primary key is the path, the line and the    *)
(* cumulative total; the name of its thread and the workspace are resolved  *)
(* when it is stored, and nothing renames it afterwards.                    *)
(***************************************************************************)
Calls == [path : Paths, line : Nat, at : Nat, model : Models \cup {None},
          name : Names \cup {None}, home : Homes \cup {None}, archived : BOOLEAN]

Id(c) == [path |-> c.path, line |-> c.line, at |-> c.at]

(***************************************************************************)
(* parse_envelope: a turn_context line replaces the current turn of the     *)
(* parser state.                                                            *)
(***************************************************************************)
ModelAt(lines, from, state, i) ==
    LET turns == {j \in from + 1 .. i : lines[j].kind = "turn"}
    IN  IF turns = {} THEN state ELSE lines[Max(turns)].model

(***************************************************************************)
(* parse_source_file: the calls of the lines after `from', with the parser  *)
(* state the lines before left.  `index' gives the names of the sessions.   *)
(***************************************************************************)
Parsed(p, lines, from, state, index) ==
    {[path |-> p, line |-> i, at |-> lines[i].at,
      model |-> ModelAt(lines, from, state, i), name |-> index[p.session],
      home |-> p.home, archived |-> p.archived] :
        i \in {j \in from + 1 .. Len(lines) : lines[j].kind = "token"}}

(***************************************************************************)
(* The partition a call is aggregated in: workspace and thread, where a     *)
(* session without a name is a thread of its own.                           *)
(***************************************************************************)
ThreadOf(c) == [home |-> c.home, label |-> IF c.name = None THEN c.path.session ELSE c.name]

Unpriced(c) == c.model \notin Priced

(***************************************************************************)
(* The row of thread_summaries for one partition.                           *)
(***************************************************************************)
Summary(mine) ==
    [calls    |-> Cardinality(mine),
     sessions |-> Cardinality({c.path.session : c \in mine}),
     tokens   |-> MapThenSumSet(LAMBDA c : c.at, mine),
     first    |-> Min({c.at : c \in mine}),
     latest   |-> Max({c.at : c \in mine}),
     archived |-> Cardinality({c \in mine : c.archived})]

ThreadRow(calls, t) == Summary({c \in calls : ThreadOf(c) = t})

(***************************************************************************)
(* The order of the calls of one thread: event_timestamp, then record_id,   *)
(* which begins with the path.  A line that was copied with its file has    *)
(* one timestamp in both, and archived_sessions sorts before sessions.      *)
(***************************************************************************)
Before(c, d) == \/ c.at < d.at
                \/ c.at = d.at /\ c.path.archived /\ ~d.path.archived
                \/ c.at = d.at /\ c.path = d.path /\ c.line < d.line

LinkIn(mine, c) ==
    LET earlier == {d \in mine : Before(d, c)}
        later   == {d \in mine : Before(c, d)}
    IN  [index |-> Cardinality(earlier),
         prev  |-> IF earlier = {} THEN None
                   ELSE Id(CHOOSE d \in earlier : \A e \in earlier \ {d} : Before(e, d)),
         next  |-> IF later = {} THEN None
                   ELSE Id(CHOOSE d \in later : \A e \in later \ {d} : Before(d, e))]

ChainOf(calls, c) == LinkIn({d \in calls : ThreadOf(d) = ThreadOf(c)}, c)

(***************************************************************************)
(* The unknown_model fact of one model: how often it was called.            *)
(***************************************************************************)
ModelFact(calls, m) ==
    LET mine == {c \in calls : c.model = m /\ Unpriced(c)}
    IN  [calls |-> Cardinality(mine), first |-> Min({c.at : c \in mine})]

\* The three aggregates, each computed from all the calls.
AllThreads(calls) == [t \in {ThreadOf(c) : c \in calls} |-> ThreadRow(calls, t)]
AllChains(calls)  == [i \in {Id(c) : c \in calls} |->
                        ChainOf(calls, CHOOSE c \in calls : Id(c) = i)]
AllFacts(calls)   == [m \in {c.model : c \in {d \in calls : Unpriced(d)}} |->
                        ModelFact(calls, m)]

(***************************************************************************)
(* rebuild_usage_aggregates: the aggregates of the partitions and models    *)
(* that a refresh touched are made again from the calls, all others stay.   *)
(* A call that is new has no place in its thread until then.                *)
(***************************************************************************)
NoLink == [index |-> None, prev |-> None, next |-> None]

RebuiltThreads(old, calls, touched) ==
    LET made == {ThreadOf(c) : c \in calls} \cap touched
    IN  [t \in (DOMAIN old \ touched) \cup made |->
            IF t \in made THEN ThreadRow(calls, t) ELSE old[t]]

RebuiltChains(old, calls, touched) ==
    [i \in {Id(c) : c \in calls} |->
        LET c == CHOOSE d \in calls : Id(d) = i
        IN  IF ThreadOf(c) \in touched THEN ChainOf(calls, c)
            ELSE IF i \in DOMAIN old THEN old[i] ELSE NoLink]

RebuiltFacts(old, calls, models) ==
    LET made == {c.model : c \in {d \in calls : Unpriced(d)}} \cap models
    IN  [m \in (DOMAIN old \ models) \cup made |->
            IF m \in made THEN ModelFact(calls, m) ELSE old[m]]

----------------------------------------------------------------------------
(***************************************************************************)
(* What the Usage page reads.  A request names a scope, the whole machine   *)
(* or one workspace, and may leave the archived calls out.                  *)
(***************************************************************************)
Total  == "total"
Scopes == {Total} \cup Homes

Selected(calls, scope, withArchived) ==
    {c \in calls : /\ withArchived \/ ~c.archived
                   /\ scope = Total \/ c.home = scope}

TotalTokens(calls, scope, withArchived) ==
    MapThenSumSet(LAMBDA c : c.at, Selected(calls, scope, withArchived))

(***************************************************************************)
(* query_activity_buckets and query_activity_dates filter by the window and *)
(* the archive only: no workspace and no account reaches their SQL.         *)
(***************************************************************************)
ActivityDates(calls, scope, withArchived) ==
    {c.at : c \in {d \in calls : withArchived \/ ~d.archived}}

ActivityBuckets(calls, scope, withArchived) ==
    LET dates  == ActivityDates(calls, scope, withArchived)
        OnDay(d) == {c \in calls : (withArchived \/ ~c.archived) /\ c.at = d}
        UpTo(d)  == {c \in calls : (withArchived \/ ~c.archived) /\ c.at <= d}
    IN  IF dates = {} THEN <<>>
        ELSE [i \in 1 .. Max(dates) - Min(dates) + 1 |->
                LET day == Min(dates) + i - 1
                IN  [date |-> day, calls |-> Cardinality(OnDay(day)),
                     sum |-> Cardinality(UpTo(day))]]

(***************************************************************************)
(* current_streak_len and longest_streak_len, over the dates in order: the  *)
(* run of consecutive days that each date closes.                           *)
(***************************************************************************)
StreakTo(dates, d) == Max({n \in 1 .. Cardinality(dates) : d - n + 1 .. d \subseteq dates})
CurrentStreak(dates) == IF dates = {} THEN 0 ELSE StreakTo(dates, Max(dates))
LongestStreak(dates) == IF dates = {} THEN 0 ELSE Max({StreakTo(dates, d) : d \in dates})

(***************************************************************************)
(* The Threads list: a thread with an archived call counts as archived.     *)
(***************************************************************************)
ListedThreads(threads, scope, withArchived) ==
    {t \in DOMAIN threads : /\ withArchived \/ threads[t].archived = 0
                            /\ scope = Total \/ t.home = scope}
============================================================================
