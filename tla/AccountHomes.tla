----------------------------- MODULE AccountHomes ------------------------------
(* Accounts that sign in to Codex themselves (account.rs): each has a home     *)
(* ~/.codex-<name> and a launch script codex-<name>; the notes, the type of    *)
(* authentication and the record of switches are files of LAM.  ~/.codex is    *)
(* the home in use, and a switch copies an account's credentials there.  The   *)
(* commands run on the main thread, one at a time; no journal tells what a     *)
(* command that fails or is cut short has done.                                *)
EXTENDS Naturals, Sequences, SequencesExt

CONSTANTS Names,
          Short,              \* names that are a prefix of every other
          Look,               \* of each account: what the list knows it by
          MaxOps, MaxFaults   \* bounds: commands, failures

ASSUME AccountsAssumption ==
  /\ Short \subseteq Names
  /\ {MaxOps, MaxFaults} \subseteq Nat
  /\ DOMAIN Look = 1..(MaxOps + 2)

VARIABLES
  home,      \* of each name: the home, if there is one, with the account
             \* whose auth.json and auth-f.json it has, and those of the two
             \* that are cut short
  wrapper,   \* of each name: the launch script, and whether it is as written
  note,      \* of each name: whose note account-notes.json has, 0 for none
  meta,      \* of each name: whose type of authentication is recorded
  main,      \* ~/.codex: whose auth.json and auth-f.json it has
  timeline,  \* pat-usage-timeline.json
  torn,      \* the files a write left unreadable
  running,   \* the names whose home a Codex process works in
  op,        \* the command that is running
  last,      \* what the last one has reported
  up,        \* the application is running
  used,      \* how much of each bound is used up
  kept,      \* accounts that were added and not deleted, and whose last
             \* upload of credentials, if there was one, got through
  marked     \* ... and whose home has been marked as LAM's

files == <<home, wrapper, note, meta, main, timeline, torn>>
vars == <<files, running, op, last, up, used, kept, marked>>

\* An account is a number, given when it is added; 0 is none and Login what
\* the user signs in with.  A login that is added twice is two accounts that
\* look the same: Look is the last four characters of tokens.account_id or, of
\* an auth.json without it, the whole file.
Login == MaxOps + 2
Owners == 0..Login
Homes == [auth : Owners, f : Owners, cut : SUBSET {"auth", "f"},
          tree : BOOLEAN, marker : SUBSET {"new", "old"}]
Absent == [auth |-> 0, f |-> 0, cut |-> {}, tree |-> FALSE, marker |-> {"none"}]
Bare == [auth |-> 0, f |-> 0, cut |-> {}, tree |-> FALSE, marker |-> {}]
Exists(n) == home[n] # Absent
Whole(n) == "auth" \notin home[n].cut

\* has_codex_signal
Listed(n) == Exists(n) /\ (home[n].auth # 0 \/ home[n].tree \/ home[n].marker # {})
Managed(n) == Listed(n) /\ home[n].marker # {}

Idle == [kind |-> "none", n |-> "", m |-> "", owner |-> 0, todo |-> <<>>, raced |-> FALSE]
Report(kind, n, m, ok) == [kind |-> kind, n |-> n, m |-> m, ok |-> ok]
Nothing == Report("none", "", "", TRUE)

Init ==
  /\ \E n \in Names, mark \in {{}, {"old"}, {"new"}} :
       /\ home = [k \in Names |->
                    IF k = n THEN [Bare EXCEPT !.auth = 1, !.tree = TRUE, !.marker = mark]
                    ELSE Absent]
       /\ wrapper = [k \in Names |-> IF k = n THEN "stale" ELSE "none"]
       /\ marked = IF mark = {} THEN {} ELSE {1}
  /\ note = [n \in Names |-> 0] /\ meta = note
  /\ main = [auth |-> Login, f |-> 0]
  /\ timeline = <<>> /\ torn = {} /\ running = {}
  /\ op = Idle /\ last = Nothing /\ up = FALSE
  /\ used = [ops |-> 0, faults |-> 0]
  /\ kept = {1}

Use(what) == used' = [used EXCEPT ![what] = @ + 1]
Fault == used.faults < MaxFaults /\ Use("faults")
NoFault == UNCHANGED used

Begin(kind, n, m, owner, todo) ==
  /\ up /\ op = Idle
  /\ used.ops < MaxOps /\ Use("ops")
  /\ op' = [kind |-> kind, n |-> n, m |-> m, owner |-> owner, todo |-> todo, raced |-> FALSE]
  /\ last' = Nothing

\* The mutant of Free: what is there is written over.
AnyName(n) == n \in Names

Free(n) == ~Exists(n)
NewOwner == used.ops + 2

\* add_pat_account: the date is parsed after the home has been made.
AddPat(n) ==
  /\ Free(n)
  /\ \E steps \in {<<"mkdir", "tree", "f", "auth", "config", "mark", "meta">>,
                   <<"mkdir", "tree", "auth", "config", "mark", "meta">>,
                   <<"mkdir", "tree", "bad date">>} :
       Begin("add", n, n, NewOwner, steps)
  /\ UNCHANGED <<files, running, up, kept, marked>>

\* add_session_profile_account; the user may let a script be overwritten.
AddSession(n) ==
  /\ Free(n)
  /\ Begin("add", n, n, NewOwner, <<"mkdir", "tree", "auth", "config", "mark", "wrapper">>)
  /\ UNCHANGED <<files, running, up, kept, marked>>

\* process_uploaded_credentials: for an account that is there, with or without
\* credentials.
Upload(n) ==
  /\ Listed(n)
  /\ Begin("upload", n, n, IF home[n].auth = 0 THEN NewOwner ELSE home[n].auth, <<"auth", "meta">>)
  /\ UNCHANGED <<files, running, up, kept, marked>>

\* create_account and create_relay take a home that is there as it is.
Create(n) ==
  /\ Begin("create", n, n, 0, <<"mkdir", "tree", "mark", "wrapper">>)
  /\ UNCHANGED <<files, running, up, kept, marked>>

\* list_accounts reads the notes, and with it every command that looks an
\* account up.
Readable == "notes" \notin torn
Found(n) == Listed(n) /\ Readable

\* The mutant of RenameSteps: the old mark goes first.
RenameUnmarks == <<"move", "unmark", "wrapper", "unwrap", "mark", "list">>

RenameSteps == <<"move", "wrapper", "unwrap", "mark", "unmark", "list">>

Rename(n, m) ==
  /\ n # m /\ Found(n) /\ Free(m)
  /\ Begin("rename", n, m, 0, RenameSteps)
  /\ UNCHANGED <<files, running, up, kept, marked>>

Delete(n) ==
  /\ Found(n)
  /\ Begin("delete", n, n, 0,
           <<"end processes", "remove home", "unwrap", "drop note", "drop meta", "list">>)
  /\ kept' = kept \ {home[n].auth} /\ marked' = marked \ {home[n].auth}
  /\ UNCHANGED <<files, running, up>>

UpdateNote(n) ==
  /\ Found(n)
  /\ Begin("note", n, n, home[n].auth, <<"note", "list">>)
  /\ UNCHANGED <<files, running, up, kept, marked>>

\* switch_to_pat_account: auth.json must be there and must parse.
Switch(n) ==
  /\ Exists(n) /\ home[n].auth # 0 /\ Whole(n)
  /\ Begin("switch", n, n, home[n].auth, <<"main auth", "timeline", "main f">>)
  /\ UNCHANGED <<files, running, up, kept, marked>>

\* update_pat_session_auth: the session of an account with an access token.
UpdateSession(n) ==
  /\ Found(n) /\ home[n].auth # 0 /\ home[n].f # 0 /\ Whole(n)
  /\ Begin("session", n, n, home[n].auth, <<"f">>)
  /\ UNCHANGED <<files, running, up, kept, marked>>

\* The start of the application, which ends if the scripts cannot be repaired.
Start ==
  /\ ~up /\ op = Idle /\ up' = TRUE
  /\ op' = [Idle EXCEPT !.kind = "start", !.todo = <<"repair">>]
  /\ last' = Nothing
  /\ UNCHANGED <<files, running, used, kept, marked>>
--------------------------------------------------------------------------------
At(step) == op.todo # <<>> /\ Head(op.todo) = step

\* The account a command has added counts from here on; one whose upload ends
\* while its credentials are being written counts no more.
Added == IF op.kind \in {"add", "upload"} /\ home[op.n].auth = op.owner THEN {op.owner} ELSE {}
Counted == IF At("auth") THEN kept \ {op.owner} ELSE kept \cup Added

Ends(ok) ==
  /\ op' = Idle
  /\ last' = Report(op.kind, op.n, op.m, ok /\ ~op.raced)
  /\ kept' = Counted
Continues == op' = [op EXCEPT !.todo = Tail(@)] /\ UNCHANGED <<last, kept>>
Done == IF Len(op.todo) = 1 THEN Ends(TRUE) ELSE Continues
Failed == Ends(FALSE) /\ up' = (op.kind # "start")
Succeeds == NoFault /\ Done /\ UNCHANGED up

HomeBecomes(n, h) == home' = [home EXCEPT ![n] = h]
InHome(step, h) ==
  /\ At(step)
  /\ \/ HomeBecomes(op.m, h) /\ Succeeds
     \/ Fault /\ Failed /\ UNCHANGED home
  /\ UNCHANGED <<wrapper, note, meta, main, timeline, torn, running, marked>>

MakeHome == InHome("mkdir", IF Exists(op.n) THEN home[op.n] ELSE Bare)
MakeTree == InHome("tree", [home[op.n] EXCEPT !.tree = TRUE])
WriteConfig == InHome("config", [home[op.n] EXCEPT !.tree = TRUE])
DropOldMarker == InHome("unmark", [home[op.m] EXCEPT !.marker = @ \ {"old"}])

\* write_file_private empties the file, writes it and sets its permissions:
\* when it fails, the file is as it was, cut short, or written.
CutShort(file, h) == [h EXCEPT !.cut = @ \cup {file}]
WriteFile(file, h) ==
  /\ At(file)
  /\ \/ HomeBecomes(op.m, h) /\ Succeeds
     \/ \E g \in {home[op.m], CutShort(file, h), h} : HomeBecomes(op.m, g) /\ Fault /\ Failed
  /\ UNCHANGED <<wrapper, note, meta, main, timeline, torn, running, marked>>

WithAuth == [home[op.n] EXCEPT !.auth = op.owner, !.cut = @ \ {"auth"}]
WithAuthF == [home[op.n] EXCEPT !.f = op.owner, !.cut = @ \ {"f"}]
WriteAuth == WriteFile("auth", WithAuth)
WriteAuthF == WriteFile("f", WithAuthF)

RefuseDate ==
  /\ At("bad date") /\ Failed
  /\ UNCHANGED <<files, running, used, marked>>

WriteMarker ==
  /\ At("mark")
  /\ \/ /\ HomeBecomes(op.m, [home[op.m] EXCEPT !.marker = @ \cup {"new"}])
        /\ marked' = marked \cup ({home[op.m].auth} \ {0})
        /\ Succeeds
     \/ Fault /\ Failed /\ UNCHANGED <<home, marked>>
  /\ UNCHANGED <<wrapper, note, meta, main, timeline, torn, running>>

\* rename(2) takes the place of no directory that has something in it.
MoveHome ==
  /\ At("move")
  /\ \/ /\ home' = [home EXCEPT ![op.m] = home[op.n], ![op.n] = Absent]
        /\ Succeeds
     \/ Fault /\ Failed /\ UNCHANGED home
  /\ UNCHANGED <<wrapper, note, meta, main, timeline, torn, running, marked>>

\* A write that fails leaves a script that does not run.
WriteWrapper ==
  /\ At("wrapper")
  /\ \/ wrapper' = [wrapper EXCEPT ![op.m] = "right"] /\ Succeeds
     \/ Fault /\ Failed /\ wrapper' = [wrapper EXCEPT ![op.m] = "stale"]
  /\ UNCHANGED <<home, note, meta, main, timeline, torn, running, marked>>

DropWrapper ==
  /\ At("unwrap")
  /\ \/ wrapper' = [wrapper EXCEPT ![op.n] = "none"] /\ Succeeds
     \/ wrapper[op.n] # "none" /\ Fault /\ Failed /\ UNCHANGED wrapper
  /\ UNCHANGED <<home, note, meta, main, timeline, torn, running, marked>>

\* Every process whose command line contains the path of the home or of the
\* script, as far as it goes.
Matched(n) == {m \in running : n = m \/ n \in Short}

EndProcesses ==
  /\ At("end processes")
  /\ \/ running' = running \ Matched(op.n) /\ Succeeds
     \/ Fault /\ Failed /\ UNCHANGED running
  /\ UNCHANGED <<files, marked>>

\* remove_dir_all that fails has removed some of the entries.
Less(h) == {g \in Homes : /\ g.auth \in {0, h.auth} /\ g.f \in {0, h.f}
                          /\ g.cut = {file \in h.cut : g[file] # 0}
                          /\ g.tree => h.tree /\ g.marker \subseteq h.marker}
RemoveHome ==
  /\ At("remove home")
  /\ \/ HomeBecomes(op.n, Absent) /\ Succeeds
     \/ \E h \in Less(home[op.n]) : HomeBecomes(op.n, h) /\ Fault /\ Failed
  /\ UNCHANGED <<wrapper, note, meta, main, timeline, torn, running, marked>>

\* The notes are one file, which is truncated and then written.
SetNote(who) ==
  \/ note' = [note EXCEPT ![op.n] = who] /\ UNCHANGED torn /\ Succeeds
  \/ Fault /\ Failed /\ torn' = torn \cup {"notes"} /\ UNCHANGED note
WriteNote ==
  /\ At("note") /\ SetNote(op.owner)
  /\ UNCHANGED <<home, wrapper, meta, main, timeline, running, marked>>
DropNote ==
  /\ At("drop note")
  /\ IF "notes" \in torn THEN NoFault /\ Failed /\ UNCHANGED <<note, torn>>
     ELSE IF note[op.n] = 0 THEN Succeeds /\ UNCHANGED <<note, torn>>
     ELSE SetNote(0)
  /\ UNCHANGED <<home, wrapper, meta, main, timeline, running, marked>>

SetMeta(who) ==
  /\ \/ meta' = [meta EXCEPT ![op.n] = who] /\ Succeeds
     \/ Fault /\ Failed /\ UNCHANGED meta
  /\ UNCHANGED <<home, wrapper, note, main, timeline, torn, running, marked>>
WriteMeta == At("meta") /\ SetMeta(op.owner)
DropMeta == At("drop meta") /\ SetMeta(0)

List ==
  /\ At("list")
  /\ \/ Readable /\ Succeeds
     \/ ~Readable /\ NoFault /\ Failed
  /\ UNCHANGED <<files, running, marked>>

\* auth.json is replaced by a file written next to it, its permissions are set
\* and it is compared.
ReplaceMainAuth ==
  /\ At("main auth")
  /\ LET new == [main EXCEPT !.auth = op.owner] IN
     \/ main' = new /\ Succeeds
     \/ main' \in {main, new} /\ Fault /\ Failed
  /\ UNCHANGED <<home, wrapper, note, meta, timeline, torn, running, marked>>

\* What cannot be read counts as empty; the last open event is closed.
Events == IF "timeline" \in torn THEN <<>> ELSE timeline
Closed(events) ==
  LET open == {i \in DOMAIN events : events[i].open} IN
  IF open = {} THEN events
  ELSE [events EXCEPT ![CHOOSE i \in open : \A j \in open : j <= i].open = FALSE]
RecordSwitch ==
  /\ At("timeline")
  /\ \/ /\ timeline' = Append(Closed(Events), [account |-> op.n, open |-> TRUE])
        /\ torn' = torn \ {"timeline"} /\ Succeeds
     \/ Fault /\ Failed /\ torn' = torn \cup {"timeline"} /\ UNCHANGED timeline
  /\ UNCHANGED <<home, wrapper, note, meta, main, running, marked>>

\* The mutant of ReplaceMainAuthF: an account without auth-f.json leaves the
\* one of the account before.
KeepMainAuthF ==
  /\ At("main f")
  /\ main' = [main EXCEPT !.f = IF home[op.n].f = 0 THEN @ ELSE home[op.n].f] /\ Succeeds
  /\ UNCHANGED <<home, wrapper, note, meta, timeline, torn, running, marked>>

\* auth-f.json must parse if it is there.
ReplaceMainAuthF ==
  /\ At("main f")
  /\ LET new == [main EXCEPT !.f = home[op.n].f] IN
     \/ "f" \in home[op.n].cut /\ UNCHANGED main /\ NoFault /\ Failed
     \/ "f" \notin home[op.n].cut /\ main' = new /\ Succeeds
     \/ "f" \notin home[op.n].cut /\ main' \in {main, new} /\ Fault /\ Failed
  /\ UNCHANGED <<home, wrapper, note, meta, timeline, torn, running, marked>>

\* repair_managed_wrappers: a script that is not as it would be written now is
\* replaced, in one step.
RepairWrappers ==
  /\ At("repair")
  /\ LET wrong == {n \in Names : Managed(n) /\ wrapper[n] # "right"} IN
     \/ ~Readable /\ NoFault /\ Failed /\ UNCHANGED wrapper
     \/ Readable /\ wrong = {} /\ Succeeds /\ UNCHANGED wrapper
     \/ \E n \in wrong :
          /\ Readable
          /\ \/ /\ wrapper' = [wrapper EXCEPT ![n] = "right"]
                /\ NoFault /\ UNCHANGED <<op, last, kept, up>>
             \/ Fault /\ Failed /\ UNCHANGED wrapper
  /\ UNCHANGED <<home, note, meta, main, timeline, torn, running, marked>>
--------------------------------------------------------------------------------
\* The application ends, at any point.
Die ==
  /\ up /\ Fault
  /\ up' = FALSE /\ op' = Idle /\ last' = Nothing /\ kept' = Counted
  /\ \/ UNCHANGED <<home, torn>>
     \/ (At("note") \/ At("drop note")) /\ torn' = torn \cup {"notes"} /\ UNCHANGED home
     \/ At("timeline") /\ torn' = torn \cup {"timeline"} /\ UNCHANGED home
     \/ At("auth") /\ HomeBecomes(op.m, CutShort("auth", WithAuth)) /\ UNCHANGED torn
     \/ At("f") /\ HomeBecomes(op.m, CutShort("f", WithAuthF)) /\ UNCHANGED torn
  /\ UNCHANGED <<wrapper, note, meta, main, timeline, running, marked>>

\* The user signs in, in ~/.codex.
SignIn ==
  /\ main.auth # Login
  /\ main' = [main EXCEPT !.auth = Login]
  /\ op' = IF op = Idle THEN op ELSE [op EXCEPT !.raced = TRUE]
  /\ last' = Nothing
  /\ UNCHANGED <<home, wrapper, note, meta, timeline, torn, running, up, used, kept, marked>>

Launch(n) ==
  /\ Exists(n) /\ wrapper[n] = "right" /\ n \notin running
  /\ running' = running \cup {n}
  /\ UNCHANGED <<files, op, last, up, used, kept, marked>>

Exit(n) ==
  /\ n \in running /\ running' = running \ {n}
  /\ UNCHANGED <<files, op, last, up, used, kept, marked>>

Command ==
  \E n \in Names :
    \/ AddPat(n) \/ AddSession(n) \/ Upload(n) \/ Create(n) \/ \E m \in Names : Rename(n, m)
    \/ Delete(n) \/ UpdateNote(n) \/ Switch(n) \/ UpdateSession(n)

Step ==
  \/ MakeHome \/ MakeTree \/ WriteConfig \/ WriteAuth \/ WriteAuthF \/ DropOldMarker
  \/ RefuseDate \/ WriteMarker \/ MoveHome \/ WriteWrapper \/ DropWrapper
  \/ EndProcesses \/ RemoveHome \/ WriteNote \/ DropNote \/ WriteMeta \/ DropMeta
  \/ List \/ ReplaceMainAuth \/ RecordSwitch \/ ReplaceMainAuthF \/ RepairWrappers

Next ==
  \/ Start \/ Command \/ Step \/ Die \/ SignIn
  \/ \E n \in Names : Launch(n) \/ Exit(n)

Spec == Init /\ [][Next]_vars
--------------------------------------------------------------------------------
\* The account that is shown as the one in use: the one that looks like the
\* auth.json of ~/.codex, if there is just one.
Matches == {n \in Names : /\ Listed(n) /\ home[n].auth # 0 /\ Whole(n)
                          /\ Look[home[n].auth] = Look[main.auth]}
Active == {n \in Names : Matches = {n}}

TypeOK ==
  /\ home \in [Names -> Homes \cup {Absent}]
  /\ wrapper \in [Names -> {"none", "stale", "right"}]
  /\ note \in [Names -> Owners] /\ meta \in [Names -> Owners]
  /\ main \in [auth : Owners, f : Owners]
  /\ torn \subseteq {"notes", "timeline"} /\ running \subseteq Names

\* An account that was added and not deleted has its credentials, whole, in one
\* home: no command on another account and no failure or crash of one takes them
\* away, nor does a rename or a change of its session that is cut short.  Only
\* an upload for that very account can: it empties auth.json before it writes.
AccountSurvives ==
  /\ TypeOK
  /\ \A k \in kept : \E n \in Names :
       /\ home[n].auth = k /\ Whole(n)
       /\ \A m \in Names : home[m].auth = k => m = n

\* After a switch that is reported as done ~/.codex has both files of the
\* account, whole, or no auth-f.json if it has none; the list shows it as the
\* one in use, or none if another account looks the same; the record ends with
\* the switch and no other event is open, however the switches before it ended.
SwitchIsWhole ==
  last.kind = "switch" /\ last.ok =>
    /\ main.auth = home[last.n].auth /\ main.f = home[last.n].f /\ home[last.n].cut = {}
    /\ Active = {last.n} \/ (Active = {} /\ \E m \in Names \ {last.n} : m \in Matches)
    /\ timeline # <<>> /\ Last(timeline) = [account |-> last.n, open |-> TRUE]
    /\ \A i \in 1..(Len(timeline) - 1) : ~timeline[i].open

\* When the application has started, every account that LAM has marked as its
\* own can be launched by its script, wherever a rename was cut short.
StartRepairsWrappers ==
  last.kind = "start" /\ last.ok =>
    \A n \in Names : home[n].auth \in marked => wrapper[n] = "right"

\* What the test of the process matcher says: the deletion of an account ends
\* the processes of no other (account.rs:2641).
DeletionSparesOthers ==
  [][\A n \in running \ running' : At("end processes") => n = op.n]_vars
================================================================================
