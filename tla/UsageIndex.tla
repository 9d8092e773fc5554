----------------------------- MODULE UsageIndex -----------------------------
(***************************************************************************)
(* The usage index of LAM, a SQLite file that is brought up to date from    *)
(* the rollout logs Codex writes (services/usage.rs), with the two things   *)
(* LAM itself does to those logs: the deletion of sessions                  *)
(* (services/session.rs) and the relay of a session to another account      *)
(* (services/relay.rs).                                                     *)
(*                                                                         *)
(* A refresh lists the logs, plans what is to be parsed by comparing size   *)
(* and modification time with the row of the last refresh, parses whole     *)
(* files or what was appended, and applies everything in one transaction.   *)
(* REFRESH_LOCK lets one refresh, deletion or reset in at a time, but Codex *)
(* goes on writing, archiving and renaming between any two of these steps,  *)
(* and the steps of a deletion before and after the lock run beside it.     *)
(***************************************************************************)
EXTENDS UsageEvents

CONSTANTS
    HomeOrder,   \* the order the workspaces are read in: main first
    MaxWrites,   \* bound: how often Codex or LAM writes a log
    MaxMoves,    \* bound: how often a thread is named or a log archived
    MaxWork      \* bound: how many refreshes, deletions and resets begin

ASSUME IndexAssumption ==
    /\ HomeOrder \in Seq(Homes) /\ \A h \in Homes : h \in {HomeOrder[i] : i \in DOMAIN HomeOrder}
    /\ MaxWrites \in Nat \ {0} /\ MaxMoves \in Nat /\ MaxWork \in Nat

VARIABLES
    disk,      \* the rollout logs: complete lines, an unfinished line, mtime
    names,     \* session_index.jsonl of each home
    clock,     \* counts the writes
    moves,     \* counts the moves and the archivings
    index,     \* the database: rows of source_files, calls and aggregates
    work,      \* counts the refreshes, deletions and resets
    refresh,   \* the refresh that holds REFRESH_LOCK
    job,       \* the deletion of sessions in progress
    staged,    \* the files a deletion has set aside
    last,      \* history: the last content each path had
    gone,      \* history: the paths a deletion removed, or is removing
    loose,     \* history: logs that were replaced by something else
    raced      \* history: logs that grew between their parse and its commit

logs    == <<disk, names, clock, moves, last>>
history == <<gone, loose, raced>>
vars    == <<disk, names, clock, moves, index, work, refresh, job, staged,
             last, gone, loose, raced>>

\* Two bytes a line, and one for a line that Codex has not finished.
Size(f) == 2 * Len(f.lines) + (IF f.tail THEN 1 ELSE 0)

Calm == [stage |-> "idle", archived |-> FALSE, by |-> None, logs |-> {},
         index |-> <<>>, plans |-> <<>>, parsed |-> <<>>]
NoJob == [stage |-> "idle", home |-> None, paths |-> {}, names |-> <<>>, indexed |-> {},
          failed |-> FALSE]
Settled == {"idle", "unrecovered"}
Ended(report) == [NoJob EXCEPT !.stage = IF report THEN "unrecovered" ELSE "idle"]

Empty == [rows |-> [p \in Paths |-> None], calls |-> {},
          threads |-> <<>>, chains |-> <<>>, facts |-> <<>>]

(***************************************************************************)
(* An index of a version that did not know workspaces yet: the new columns  *)
(* of its rows and calls are NULL, and its aggregates have no workspace.    *)
(***************************************************************************)
Legacy(p, l) ==
    LET calls == {[c EXCEPT !.home = None] :
                    c \in Parsed(p, <<l>>, 0, None, [s \in Sessions |-> None])}
    IN  [rows    |-> [Empty.rows EXCEPT ![p] =
                        [size |-> 2, stamp |-> 1, line |-> 1, model |-> None,
                         home |-> None, archived |-> p.archived]],
         calls   |-> calls,
         threads |-> AllThreads(calls),
         chains  |-> AllChains(calls),
         facts   |-> AllFacts(calls)]

FirstLine == [kind |-> "token", model |-> None, at |-> 1]

Init == /\ \E p \in {q \in Paths : ~q.archived} :
              /\ disk = [q \in Paths |-> IF q = p
                          THEN [lines |-> <<FirstLine>>, tail |-> FALSE, stamp |-> 1]
                          ELSE None]
              /\ last = [q \in Paths |-> IF q = p THEN <<FirstLine>> ELSE None]
              /\ index \in {Empty, Legacy(p, FirstLine)}
        /\ names = [h \in Homes |-> [s \in Sessions |-> None]]
        /\ clock = 1
        /\ moves = 0
        /\ work = 0
        /\ refresh = Calm
        /\ job = NoJob
        /\ staged = [p \in Paths |-> None]
        /\ gone = {} /\ loose = {} /\ raced = {}

----------------------------------------------------------------------------
\* What Codex and the relay do to the logs.

(***************************************************************************)
(* A log gets new contents.  When they do not go on from the last ones the  *)
(* index is bound to mix two histories, until it reads the log whole.       *)
(***************************************************************************)
Write(p, lines, tail) ==
    /\ clock < MaxWrites
    /\ clock' = clock + 1
    /\ disk' = [disk EXCEPT ![p] = [lines |-> lines, tail |-> tail, stamp |-> clock + 1]]
    /\ last' = [last EXCEPT ![p] = lines]
    /\ loose' = IF last[p] # None /\ ~IsPrefix(last[p], lines)
                THEN loose \cup {p} ELSE loose
    /\ gone' = gone \ {p}
    /\ UNCHANGED <<names, moves, index, work, refresh, job, staged, raced>>

\* Codex starts a log, finishes a line of it, or writes the first half of one.
CodexWrites(p) ==
    /\ ~p.archived
    /\ \/ disk[p] # None
       \/ disk[p] = None /\ last[p] = None
    /\ LET lines == IF disk[p] = None THEN <<>> ELSE disk[p].lines
       IN  \/ \E k \in {"turn", "token"}, m \in Models \cup {None} :
                 /\ (k = "turn") = (m # None)
                 /\ Write(p, Append(lines, [kind |-> k, model |-> m, at |-> clock + 1]), FALSE)
           \/ /\ disk[p] # None /\ ~disk[p].tail
              /\ Write(p, lines, TRUE)

\* Codex moves a finished session to the archive.
CodexArchives(p) ==
    LET q == [p EXCEPT !.archived = TRUE]
    IN  /\ ~p.archived /\ disk[p] # None /\ disk[q] = None
        /\ moves < MaxMoves /\ moves' = moves + 1
        /\ disk' = [disk EXCEPT ![p] = None, ![q] = disk[p]]
        /\ last' = [last EXCEPT ![q] = disk[p].lines]
        /\ UNCHANGED <<names, clock, index, work, refresh, job, staged, history>>

\* A thread is named, in the session index of its home.
CodexNames(h, s, n) ==
    /\ moves < MaxMoves
    /\ moves' = moves + 1
    /\ names[h][s] # n
    /\ names' = [names EXCEPT ![h][s] = n]
    /\ UNCHANGED <<disk, clock, last, index, work, refresh, job, staged, history>>

(***************************************************************************)
(* relay_resume_session: the log goes to the other account when it is not   *)
(* there, when it continues the one there, and also, on request, when the   *)
(* two have diverged.  A target that already has everything stays; whether  *)
(* it goes on from a line that is unfinished in the source is left open.    *)
(* The backup, the fork and the handoff of the other choices are files that *)
(* neither the index nor the session list reads.                            *)
(***************************************************************************)
Relay(p, q) ==
    /\ ~p.archived /\ ~q.archived
    /\ p.session = q.session /\ p.home # q.home
    /\ disk[p] # None
    /\ ~(disk[q] # None /\ ~disk[p].tail /\ IsPrefix(disk[p].lines, disk[q].lines))
    /\ Write(q, disk[p].lines, disk[p].tail)

----------------------------------------------------------------------------
\* The refresh.

\* The names of all homes are put together: the last home that has one wins.
SessionIndex(s) ==
    LET named == {i \in DOMAIN HomeOrder : names[HomeOrder[i]][s] # None}
    IN  IF named = {} THEN None ELSE names[HomeOrder[Max(named)]][s]

(***************************************************************************)
(* The lock is taken, the workspaces are discovered, their session indexes  *)
(* are read and their logs listed.                                          *)
(***************************************************************************)
List(withArchived, by) ==
    /\ refresh = Calm
    /\ work < MaxWork \/ by # None
    /\ work' = IF by = None THEN work + 1 ELSE work
    /\ refresh' = [Calm EXCEPT !.stage = "listed", !.archived = withArchived, !.by = by,
                     !.logs = {p \in Paths : disk[p] # None /\ (withArchived \/ ~p.archived)},
                     !.index = [s \in Sessions |-> SessionIndex(s)]]

RefreshLists ==
    /\ \E withArchived \in BOOLEAN : List(withArchived, None)
    /\ UNCHANGED <<logs, index, job, staged, history>>

(***************************************************************************)
(* A file that went away fails the whole refresh.  When it is the one a     *)
(* failed deletion asked for, the deletion reports that it did not recover. *)
(***************************************************************************)
Fails ==
    /\ refresh' = Calm
    /\ job' = IF refresh.by = None THEN job ELSE Ended(TRUE)
    /\ UNCHANGED <<logs, index, work, staged, history>>

\* Mutants of the run usage_index: a piece starts without the parser state of
\* the one before, or a line too late.
PlanStateless(p) ==
    LET row == index.rows[p]
    IN  IF row # None /\ Size(disk[p]) > row.size /\ 0 < row.line
        THEN [from |-> row.line, model |-> None, whole |-> FALSE]
        ELSE [from |-> 0, model |-> None, whole |-> TRUE]

PlanTooLate(p) ==
    LET row == index.rows[p]
    IN  IF row # None /\ Size(disk[p]) > row.size /\ 0 < row.line
        THEN [from |-> row.line + 1, model |-> row.model, whole |-> FALSE]
        ELSE [from |-> 0, model |-> None, whole |-> TRUE]

\* source_logs_requiring_parse, for one log.
PlanOf(p) ==
    LET row == index.rows[p]
    IN  IF row # None /\ Size(disk[p]) > row.size /\ 0 < row.line
           /\ 2 * row.line <= row.size
        THEN [from |-> row.line, model |-> row.model, whole |-> FALSE]
        ELSE [from |-> 0, model |-> None, whole |-> TRUE]

Current(p) == /\ index.rows[p] # None
              /\ index.rows[p].size = Size(disk[p])
              /\ index.rows[p].stamp = disk[p].stamp

RefreshPlans ==
    /\ refresh.stage = "listed"
    /\ IF \E p \in refresh.logs : disk[p] = None
       THEN Fails
       ELSE /\ refresh' = [refresh EXCEPT !.stage = "planned",
                 !.plans = [p \in {q \in refresh.logs : ~Current(q)} |-> PlanOf(p)]]
            /\ UNCHANGED <<logs, index, work, job, staged, history>>

\* parse_source_file reads to the end of the file as it is now.
ParseOf(p, plan) ==
    LET lines == disk[p].lines
    IN  [calls |-> Parsed(p, lines, plan.from, plan.model, refresh.index),
         line  |-> Max({plan.from, Len(lines)}),
         model |-> ModelAt(lines, plan.from, plan.model, Len(lines)),
         seen  |-> disk[p].stamp]

RefreshParses ==
    /\ refresh.stage = "planned"
    /\ IF \E p \in DOMAIN refresh.plans : disk[p] = None
       THEN Fails
       ELSE /\ refresh' = [refresh EXCEPT !.stage = "parsed",
                 !.parsed = [p \in DOMAIN refresh.plans |-> ParseOf(p, refresh.plans[p])]]
            /\ UNCHANGED <<logs, index, work, job, staged, history>>

Replaced == {p \in DOMAIN refresh.plans : refresh.plans[p].whole}
Fresh    == UNION {refresh.parsed[p].calls : p \in DOMAIN refresh.parsed}

\* collect_changed_usage_partitions: the calls that go or come.
Changed(calls) == {c \in calls : c.path \in Replaced \/ Id(c) \in {Id(d) : d \in Fresh}}

(***************************************************************************)
(* backfill_workspace_metadata: the calls of a listed log whose row has no  *)
(* workspace, or another one, are given the workspace of the log.           *)
(***************************************************************************)
Misplaced == {c \in index.calls : /\ c.path \in refresh.logs
                                  /\ \/ index.rows[c.path] = None
                                     \/ index.rows[c.path].home # c.path.home
                                  /\ c.home # c.path.home}
Placed(c) == [c EXCEPT !.home = c.path.home]

\* The calls after the transaction: replaced logs first lose all of theirs.
Applied ==
    LET kept == {c \in (index.calls \ Misplaced) \cup {Placed(c) : c \in Misplaced} :
                    c.path \notin Replaced}
    IN  {c \in kept : Id(c) \notin {Id(d) : d \in Fresh}} \cup Fresh

\* The mutant of the run usage_index: only what the calls are put in now.
TouchedAfter == {ThreadOf(c) : c \in Changed(Applied)} \cup {ThreadOf(Placed(c)) : c \in Misplaced}

\* The partitions and the models to be aggregated again.
TouchedThreads ==
    {ThreadOf(c) : c \in Changed(index.calls)} \cup {ThreadOf(c) : c \in Misplaced}
      \cup {ThreadOf(Placed(c)) : c \in Misplaced} \cup {ThreadOf(c) : c \in Changed(Applied)}
TouchedModels ==
    {c.model : c \in Changed(index.calls) \cup Misplaced \cup Changed(Applied)}

(***************************************************************************)
(* The row of a parsed log: how far it was parsed, and the size and time    *)
(* the file has now.                                                        *)
(***************************************************************************)
RowOf(p) == [size |-> Size(disk[p]), stamp |-> disk[p].stamp,
             line |-> refresh.parsed[p].line, model |-> refresh.parsed[p].model,
             home |-> p.home, archived |-> p.archived]

\* apply_parsed_sources: one transaction, which a missing file rolls back.
RefreshApplies ==
    /\ refresh.stage = "parsed"
    /\ IF \E p \in DOMAIN refresh.parsed : disk[p] = None
       THEN Fails
       ELSE /\ index' =
                 [rows |-> [p \in Paths |->
                     IF p \in DOMAIN refresh.parsed THEN RowOf(p)
                     ELSE IF p \in refresh.logs /\ index.rows[p] # None
                     THEN [index.rows[p] EXCEPT !.home = p.home]
                     ELSE index.rows[p]],
                  calls   |-> Applied,
                  threads |-> RebuiltThreads(index.threads, Applied, TouchedThreads),
                  chains  |-> RebuiltChains(index.chains, Applied, TouchedThreads),
                  facts   |-> RebuiltFacts(index.facts, Applied, TouchedModels)]
            /\ refresh' = Calm
            /\ job' = IF refresh.by = None THEN job ELSE Ended(job.failed)
            /\ LET late == {p \in DOMAIN refresh.parsed :
                               refresh.parsed[p].seen # disk[p].stamp}
               IN  /\ raced' = (raced \ DOMAIN refresh.parsed) \cup late
                   /\ loose' = loose \ (Replaced \ late)
            /\ UNCHANGED <<logs, work, staged, gone>>

\* reset_usage_index removes the directory of the database.
Reset ==
    /\ refresh = Calm
    /\ index' = Empty
    /\ work < MaxWork /\ work' = work + 1
    /\ raced' = {} /\ loose' = {}
    /\ job' = [job EXCEPT !.indexed = {}]
    /\ UNCHANGED <<logs, refresh, staged, gone>>

----------------------------------------------------------------------------
(***************************************************************************)
(* delete_sessions.  The files are set aside, their names removed from the  *)
(* session index, their calls from the usage index and their threads from   *)
(* Codex's own database; when a step fails what was done before is undone.  *)
(* The protection of the newest sessions is a matter of age, which the      *)
(* model leaves out: any log may be old enough, and be resumed at any time. *)
(***************************************************************************)
DeleteBegins(h, P) ==
    /\ job.stage \in Settled
    /\ work < MaxWork /\ work' = work + 1
    /\ P # {} /\ \A p \in P : p.home = h /\ ~p.archived /\ disk[p] # None
    /\ job' = [stage |-> "staging", home |-> h, paths |-> P, names |-> names[h],
               indexed |-> {p \in P : index.rows[p] # None}, failed |-> FALSE]
    /\ UNCHANGED <<logs, index, refresh, staged, history>>

\* move_sessions_atomically: one file after another; a file that has gone away
\* since, or that cannot be moved, stops it.
SetAside == {p \in Paths : staged[p] # None}

DeleteStages(p) ==
    /\ job.stage = "staging" /\ p \in job.paths \ SetAside
    /\ \/ /\ disk[p] # None
          /\ job' = [job EXCEPT !.stage = IF job.paths \ SetAside = {p} THEN "staged" ELSE @]
          /\ staged' = [staged EXCEPT ![p] = disk[p]]
          /\ disk' = [disk EXCEPT ![p] = None]
          /\ gone' = gone \cup {p}
       \/ /\ job' = [job EXCEPT !.stage = "unstage"]
          /\ UNCHANGED <<staged, disk, gone>>
    /\ UNCHANGED <<names, clock, moves, last, index, work, refresh, loose, raced>>

\* The files of P go back, over what has been written in their place; what
\* else was set aside stays where nobody looks for it.
PutBack(P) ==
    /\ disk' = [p \in Paths |-> IF p \in P THEN staged[p] ELSE disk[p]]
    /\ last' = [p \in Paths |-> IF p \in P THEN staged[p].lines ELSE last[p]]
    /\ loose' = loose \cup {p \in P : ~IsPrefix(last[p], staged[p].lines)}
    /\ staged' = [p \in Paths |-> None]
    /\ gone' = gone \ job.paths

\* A file that cannot be moved back is passed over, and nobody is told.
DeleteUnstages ==
    /\ job.stage = "unstage"
    /\ \E P \in SUBSET SetAside : PutBack(P)
    /\ job' = NoJob
    /\ UNCHANGED <<names, clock, moves, index, work, refresh, raced>>

\* remove_session_index_entries: read, filter, and replace the file.
DeleteUnnames ==
    /\ job.stage = "staged"
    /\ \/ /\ names' = [names EXCEPT ![job.home] =
                         [s \in Sessions |-> IF \E p \in job.paths : p.session = s
                                             THEN None ELSE @[s]]]
          /\ job' = [job EXCEPT !.stage = "unnamed"]
       \/ /\ job' = [job EXCEPT !.stage = "undo"]
          /\ UNCHANGED names
    /\ UNCHANGED <<disk, clock, moves, last, index, work, refresh, staged, history>>

\* The mutant of the run usage_index: the calls of a log outlive its row.
WithoutRows(P) == [index EXCEPT !.rows = [p \in Paths |-> IF p \in P THEN None ELSE @[p]]]

Without(P) ==
    LET calls  == {c \in index.calls : c.path \notin P}
        lost   == {c \in index.calls : c.path \in P}
        touched == {ThreadOf(c) : c \in lost}
    IN  [rows    |-> [p \in Paths |-> IF p \in P THEN None ELSE index.rows[p]],
         calls   |-> calls,
         threads |-> RebuiltThreads(index.threads, calls, touched),
         chains  |-> RebuiltChains(index.chains, calls, touched),
         facts   |-> RebuiltFacts(index.facts, calls, {c.model : c \in lost})]

\* delete_usage_sources waits for the lock; a database error changes nothing.
DeleteClears ==
    /\ job.stage = "unnamed"
    /\ refresh = Calm
    /\ \/ /\ index' = Without(job.paths)
          /\ job' = [job EXCEPT !.stage = "cleared"]
       \/ /\ job' = [job EXCEPT !.stage = "undo"]
          /\ UNCHANGED index
    /\ UNCHANGED <<logs, work, refresh, staged, history>>

\* delete_codex_thread_records, and the end of the deletion.
DeleteForgets ==
    /\ job.stage = "cleared"
    /\ \/ /\ staged' = [p \in Paths |-> None]
          /\ job' = NoJob
       \/ /\ job' = [job EXCEPT !.stage = "undo and index"]
          /\ UNCHANGED staged
    /\ UNCHANGED <<logs, index, work, refresh, history>>

\* A bug that UndoneIsWhole finds: the rollback does not index again.
DeleteUndoesUnindexed ==
    /\ job.stage \in {"undo", "undo and index"}
    /\ PutBack(SetAside)
    /\ names' = [names EXCEPT ![job.home] = job.names]
    /\ job' = NoJob
    /\ UNCHANGED <<clock, moves, index, work, refresh, raced>>

(***************************************************************************)
(* rollback_session_delete: the files and the session index are put back as *)
(* they were read; a refresh follows when the usage index had been cleared. *)
(* It goes on after an error and reports it in the end; by then it has      *)
(* removed the staging directory, with the files it could not put back.     *)
(***************************************************************************)
DeleteUndoes ==
    /\ job.stage \in {"undo", "undo and index"}
    /\ \E P \in SUBSET SetAside, named \in BOOLEAN, report \in BOOLEAN :
          /\ P # SetAside \/ ~named => report
          /\ PutBack(P)
          /\ names' = IF named THEN [names EXCEPT ![job.home] = job.names] ELSE names
          /\ job' = IF job.stage = "undo" THEN Ended(report)
                    ELSE [job EXCEPT !.stage = "index", !.failed = report]
    /\ UNCHANGED <<clock, moves, index, work, refresh, raced>>

DeleteIndexes ==
    /\ job.stage = "index"
    /\ List(FALSE, "deletion")
    /\ job' = [job EXCEPT !.stage = "indexing"]
    /\ UNCHANGED <<logs, index, staged, history>>

\* LAM ends.  Nothing looks at the staging directory when it starts again.
Crash ==
    /\ \/ refresh # Calm
       \/ job.stage \notin Settled
    /\ refresh' = Calm
    /\ job' = Ended(TRUE)
    /\ staged' = [p \in Paths |-> None]
    /\ gone' = gone \ job.paths
    /\ UNCHANGED <<logs, index, work, loose, raced>>

Next == \/ \E p \in Paths : CodexWrites(p) \/ CodexArchives(p)
        \/ \E h \in Homes, s \in Sessions, n \in Names : CodexNames(h, s, n)
        \/ \E p, q \in Paths : Relay(p, q)
        \/ RefreshLists \/ RefreshPlans \/ RefreshParses \/ RefreshApplies
        \/ Reset
        \/ \E h \in Homes, P \in SUBSET {p \in Paths : disk[p] # None} : DeleteBegins(h, P)
        \/ \E p \in Paths : DeleteStages(p)
        \/ DeleteUnstages \/ DeleteUnnames \/ DeleteClears \/ DeleteForgets \/ DeleteUndoes \/ DeleteIndexes
        \/ Crash

Spec == Init /\ [][Next]_vars

----------------------------------------------------------------------------
Files == [lines : Seq(Line), tail : BOOLEAN, stamp : Nat]
Rows  == [size : Nat, stamp : Nat, line : Nat, model : Models \cup {None},
          home : Homes \cup {None}, archived : BOOLEAN]

\* None is none of the values it stands beside.
ASSUME NoneIsNoValue == None \notin Rows /\ None \notin Seq(Line)

TypeOK ==
    /\ \A p \in Paths : /\ disk[p] = None \/ disk[p] \in Files
                        /\ staged[p] = None \/ staged[p] \in Files
                        /\ index.rows[p] = None \/ index.rows[p] \in Rows
    /\ index.calls \subseteq Calls
    /\ names \in [Homes -> [Sessions -> Names \cup {None}]]
    /\ clock \in 1 .. MaxWrites /\ moves \in 0 .. MaxMoves
    /\ work \in 0 .. MaxWork
    /\ refresh.stage \in {"idle", "listed", "planned", "parsed"}
    /\ job.stage \in Settled \cup {"staging", "unstage", "staged", "unnamed", "cleared", "undo",
                                   "undo and index", "index", "indexing"}
    /\ gone \subseteq Paths /\ loose \subseteq Paths /\ raced \subseteq Paths

(***************************************************************************)
(* Thread summaries, the links from call to call and the unknown-model      *)
(* facts are what all the calls of the index give, although a refresh and a *)
(* deletion make only the partitions again that they believe they touched   *)
(* (rebuild_usage_aggregates, collect_changed_usage_partitions).            *)
(***************************************************************************)
AggregatesMatchCalls ==
    /\ TypeOK
    /\ index.threads = AllThreads(index.calls)
    /\ index.chains  = AllChains(index.calls)
    /\ index.facts   = AllFacts(index.calls)

\* What a call says, whatever workspace and thread it was put in.
Said(calls) == {[line |-> c.line, at |-> c.at, model |-> c.model] : c \in calls}
CallsOf(p)  == {c \in index.calls : c.path = p}
Whole(p, n) == Said(Parsed(p, SubSeq(last[p], 1, n), 0, None, [s \in Sessions |-> None]))

(***************************************************************************)
(* Parsing a log in pieces, with the offset and the parser state kept       *)
(* between two refreshes, gives the calls of one parse from the beginning:  *)
(* none is lost, repeated or given to the wrong model (parse_source_file,   *)
(* source_logs_requiring_parse), as long as the log was only appended to.   *)
(***************************************************************************)
PiecesMakeTheWhole ==
    \A p \in Paths : index.rows[p] # None /\ p \notin loose =>
        /\ index.rows[p].line <= Len(last[p])
        /\ Said(CallsOf(p)) = Whole(p, index.rows[p].line)
        /\ index.rows[p].model = ModelAt(last[p], 0, None, index.rows[p].line)

(***************************************************************************)
(* A log that the next refresh will skip, because its size and time are     *)
(* those of its row, has been parsed to its last complete line, unless it   *)
(* grew between its parse and the commit (apply_parsed_sources).            *)
(***************************************************************************)
Skippable(p) == disk[p] # None /\ Current(p)

SkippedIsComplete ==
    \A p \in Paths \ (loose \cup raced) :
        Skippable(p) => Said(CallsOf(p)) = Whole(p, Len(disk[p].lines))

\* The same without the exception: a log that is skipped was read to its end.
SkippedIsRead ==
    \A p \in Paths \ loose :
        Skippable(p) => Said(CallsOf(p)) = Whole(p, Len(disk[p].lines))

(***************************************************************************)
(* Once delete_sessions has cleared the usage index of the logs it removed, *)
(* no refresh brings a row or a call of them back, whether it was on its    *)
(* way before the deletion or begins while the deletion goes on.            *)
(***************************************************************************)
DeletedLeavesNoGhost ==
    \A p \in gone : (p \in job.paths => job.stage = "cleared")
                      => index.rows[p] = None /\ CallsOf(p) = {}

(***************************************************************************)
(* A deletion that fails and is rolled back without a report of more errors *)
(* has put back every log it had set aside, as it was, and the names; and   *)
(* in the end every log the index knew before is in the index again, when   *)
(* Codex did not take it elsewhere before the refresh of the rollback saw   *)
(* it (rollback_session_delete).                                            *)
(***************************************************************************)
RolledBack == /\ job.stage \in {"undo", "undo and index"}
              /\ job'.stage \in {"idle", "index"} /\ ~job'.failed
Undone == job.stage \in {"undo", "undo and index", "indexing"} /\ job'.stage = "idle"

WholeAgain ==
    /\ RolledBack => /\ \A p \in job.paths : staged[p] # None /\ disk'[p] = staged[p]
                     /\ names'[job.home] = job.names
    /\ Undone => \A p \in job.indexed :
          disk'[p] # None /\ (job.stage = "indexing" => p \in refresh.logs)
            => index'.rows[p] # None

UndoneIsWhole == [][WholeAgain]_vars

\* A deletion that fails while it sets logs aside has put all of them back
\* (move_sessions_atomically).
UnstagedIsWhole ==
    [][ job.stage = "unstage" /\ job'.stage = "idle" =>
          \A p \in SetAside : disk'[p] = staged[p] ]_vars

(***************************************************************************)
(* Every query of the Usage page is confined to its scope: a workspace      *)
(* shows activity on no day on which it made no call.                       *)
(***************************************************************************)
ActivityIsScoped ==
    \A h \in Homes : ActivityDates(index.calls, h, TRUE)
                       \subseteq {c.at : c \in Selected(index.calls, h, TRUE)}

(***************************************************************************)
(* The figures of the Usage page agree with each other: the buckets of a    *)
(* period add up to its calls, the streaks are runs of its days, no longer  *)
(* than the longest, and the threads listed with the archived ones account  *)
(* for every call and token (query_activity_buckets, longest_streak_len,    *)
(* query_threads_page).                                                     *)
(***************************************************************************)
RunOfDays(dates, n) == \E d \in dates : d .. d + n - 1 \subseteq dates

FiguresAgree ==
    /\ \A a \in BOOLEAN :
         LET mine    == Selected(index.calls, Total, a)
             dates   == ActivityDates(index.calls, Total, a)
             buckets == ActivityBuckets(index.calls, Total, a)
         IN  /\ mine # {} => buckets[Len(buckets)].sum = Cardinality(mine)
             /\ FoldFunction(LAMBDA b, n : b.calls + n, 0, buckets) = Cardinality(mine)
             /\ CurrentStreak(dates) <= LongestStreak(dates)
             /\ dates # {} => RunOfDays(dates, LongestStreak(dates))
             /\ ~RunOfDays(dates, LongestStreak(dates) + 1)
    /\ \A scope \in Scopes :
         LET listed == ListedThreads(index.threads, scope, TRUE)
         IN  MapThenSumSet(LAMBDA t : index.threads[t].tokens, listed)
               = TotalTokens(index.calls, scope, TRUE)

\* What is shown is what the calls say: the aggregates that are kept, and the
\* figures that are worked out from them.
FiguresMatchCalls == AggregatesMatchCalls /\ FiguresAgree
============================================================================
