------------------------------ MODULE ApiAccount ------------------------------
(* An API account is a Codex home, the Provider it uses and the binding of   *)
(* the two.  services/provider_api_v2.rs creates and deletes it in steps,    *)
(* under a record of a journal: a step that fails is compensated, and what   *)
(* the end of the process leaves half done is recovered when the application *)
(* starts (main.rs) and before every `lam codex` (bin/lam.rs).               *)
(* One attach or detach is one step here: AttachTransaction shows that it    *)
(* happens or leaves everything as it was.                                   *)
EXTENDS Naturals

CONSTANTS Accounts,
          Shared,         \* a Provider that was created by itself
          Native,         \* accounts whose Provider takes its key from the home
          None,
          MaxOps, MaxFaults, MaxLaunches, MaxWrites     \* bounds of the model

ASSUME AccountAssumption ==
  /\ Native \subseteq Accounts /\ Shared \notin Accounts
  /\ None \notin Accounts \cup {Shared}
  /\ {MaxOps, MaxFaults, MaxLaunches, MaxWrites} \subseteq Nat

\* The exclusive Provider of account a, `account-<a>`, is named a.
Providers == Accounts \cup {Shared}

VARIABLES
  home,       \* of each account: what is in its CODEX_HOME
  wrapper,    \* the accounts with a script codex-<account>
  providers,  \* the Providers that exist
  binding,    \* of each account: the Provider it is attached to
  journal,    \* the records of operations that have not ended; ids grow
  proc,       \* the application, and a `lam codex` that recovers before Codex
  live,       \* the accounts in whose home Codex runs
  used,       \* how much of each bound is used up
  raced       \* two processes have worked on the journal at once

vars == <<home, wrapper, providers, binding, journal, proc, live, used, raced>>

\* "tree" is the directory with its empty sessions/, "chats" and "late" are what
\* Codex writes (Written): a home with any of these counts as an account.
Files == {"tree", "marker", "config", "key", "chats", "late"}
Listed(a) == home[a] # {}
Managed(a) == "marker" \in home[a]

Ready(p) == p \in providers /\ (p \in Native => "key" \in home[p])
UsedBy(p) == {a \in Accounts : binding[a] = p}

NoRecord == [id |-> 0, kind |-> "none", account |-> None, provider |-> None,
             exclusive |-> FALSE]

\* at: where the process is; rec: the record it works for; made: the operation
\* has created its Provider; todo: the records a recovery has still to look at.
Process(at) == [at |-> at, rec |-> NoRecord, made |-> FALSE, todo |-> {}]

Init ==
  /\ home = [a \in Accounts |-> {}]
  /\ wrapper = {} /\ live = {}
  /\ providers = {Shared}
  /\ binding = [a \in Accounts |-> None]
  /\ journal = {}
  /\ proc = [app |-> Process("idle"), lam |-> Process("off")]
  /\ raced = FALSE
  /\ used = [ops |-> 0, faults |-> 0, launches |-> 0, writes |-> 0]

Use(what) == used' = [used EXCEPT ![what] = @ + 1]
Fault == used.faults < MaxFaults /\ Use("faults")

Recovering == {"look", "drop", "roll back", "clear home", "unwrap", "reattach", "forget"}

Go(w, at) == proc' = [proc EXCEPT ![w].at = at]

\* An error that the code hands on with `?`: nothing is undone and the record
\* stays.  In a recovery it ends the start of the application, or `lam codex`.
Abandon(w) ==
  proc' = [proc EXCEPT ![w] =
    Process(IF w = "lam" THEN "off" ELSE IF @.at \in Recovering THEN "down" ELSE "idle")]

Recorded(id) == \E r \in journal : r.id = id
Forget(id) == journal' = {r \in journal : r.id # id}

Busy == proc.app.rec
Account == Busy.account
Provider == Busy.provider

\* The stage of the record is written after each step and read by nobody:
\* what counts is that writing it fails once the record is gone.
Advance(at) ==
  \/ Recorded(Busy.id) /\ Go("app", at) /\ UNCHANGED used
  \/ ~Recorded(Busy.id) /\ Abandon("app") /\ UNCHANGED used
  \/ Abandon("app") /\ Fault

\* Step that cannot fail, and a failure that is handled at `at`.
Then(at) == Go("app", at) /\ UNCHANGED used
Fails(at) == Go("app", at) /\ Fault

-----------------------------------------------------------------------------
(* Creation.                                                                 *)

\* Plan and execution at once: the execution refuses a plan whose account or
\* Provider store has changed.
CanCreate(a, p, new) ==
  /\ home[a] = {}
  /\ IF new THEN p = a /\ p \notin providers ELSE p \in providers

Idle == proc.app.at = "idle" /\ used.ops < MaxOps

\* No lock is held over an operation or over a recovery.
Meets(w) == raced' = (raced \/ proc[w].at \notin {"idle", "down", "off"})

Start(kind, a, p, exclusive, at) ==
  LET r == [id |-> used.ops + 1, kind |-> kind, account |-> a, provider |-> p,
            exclusive |-> exclusive] IN
  /\ Idle /\ Use("ops") /\ Meets("lam")
  /\ journal' = journal \cup {r}
  /\ proc' = [proc EXCEPT !.app = [Process(at) EXCEPT !.rec = r]]
  /\ UNCHANGED <<home, wrapper, providers, binding, live>>

Create(a, p, new) == CanCreate(a, p, new) /\ Start("create", a, p, new, "home")

\* A home that cannot be completed is left as it is, and the record is cleared.
MakeHome ==
  LET Put(at, files, scripts, next) ==
        /\ proc.app.at = at
        /\ \/ /\ home' = [home EXCEPT ![Account] = @ \cup files]
              /\ wrapper' = wrapper \cup scripts
              /\ Then(next)
           \/ Fails("clear") /\ UNCHANGED <<home, wrapper>>
        /\ UNCHANGED <<providers, binding, journal, live, raced>>
  IN \/ Put("home", {"tree"}, {}, "marker")
     \/ Put("marker", {"marker"}, {}, "wrapper")
     \/ Put("wrapper", {}, {Account}, "config")

WriteConfig ==
  /\ proc.app.at = "config"
  /\ \/ /\ home' = [home EXCEPT ![Account] = @ \cup {"config"}]
        /\ Advance("key")
     \/ Fails("undo account") /\ UNCHANGED home
  /\ UNCHANGED <<wrapper, providers, binding, journal, live, raced>>

\* A request without the key it needs is refused only here.
WriteKey ==
  /\ proc.app.at = "key"
  /\ IF Busy.exclusive /\ Account \in Native
     THEN \/ home' = [home EXCEPT ![Account] = @ \cup {"key"}] /\ Then("provider")
          \/ Abandon("app") /\ UNCHANGED <<home, used>>
          \/ Fails("undo account") /\ UNCHANGED home
     ELSE Then("provider") /\ UNCHANGED home
  /\ UNCHANGED <<wrapper, providers, binding, journal, live, raced>>

\* The flag that a Provider was created is not set.
MakeProviderForgotten ==
  LET refused == Busy.exclusive <=> Provider \in providers IN
  /\ proc.app.at = "provider"
  /\ \/ /\ ~refused
        /\ providers' = providers \cup {Provider}
        /\ Advance("attach")
     \/ refused /\ Then("undo account") /\ UNCHANGED providers
     \/ Fails("undo account") /\ UNCHANGED providers
  /\ UNCHANGED <<home, wrapper, binding, journal, live, raced>>

\* Creates the exclusive Provider, or looks up the one to be reused.
MakeProvider ==
  LET refused == Busy.exclusive <=> Provider \in providers IN
  /\ proc.app.at = "provider"
  /\ \/ /\ ~refused
        /\ providers' = providers \cup {Provider}
        /\ \/ /\ Recorded(Busy.id) /\ UNCHANGED used
              /\ proc' = [proc EXCEPT !.app.at = "attach", !.app.made = Busy.exclusive]
           \/ ~Recorded(Busy.id) /\ Abandon("app") /\ UNCHANGED used
           \/ Abandon("app") /\ Fault
     \/ refused /\ Then("undo account") /\ UNCHANGED providers
     \/ Fails("undo account") /\ UNCHANGED providers
  /\ UNCHANGED <<home, wrapper, binding, journal, live, raced>>

\* What plan_attach and execute_attach need of account a and Provider p.
CanAttach(a, p) == Ready(p) /\ "config" \in home[a]

Undo == IF proc.app.made THEN "undo provider" ELSE "undo account"

\* The blockers of the attach plan are not looked at.
AttachNewBlocked ==
  /\ proc.app.at = "attach"
  /\ \/ /\ binding' = [binding EXCEPT ![Account] = Provider]
        /\ Then("catalog")
     \/ Fails(Undo) /\ UNCHANGED binding
  /\ UNCHANGED <<home, wrapper, providers, journal, live, raced>>

AttachNew ==
  /\ proc.app.at = "attach"
  /\ \/ /\ CanAttach(Account, Provider)
        /\ binding' = [binding EXCEPT ![Account] = Provider]
        /\ Then("catalog")
     \/ ~CanAttach(Account, Provider) /\ Then(Undo) /\ UNCHANGED binding
     \/ Fails(Undo) /\ UNCHANGED binding
  /\ UNCHANGED <<home, wrapper, providers, journal, live, raced>>

\* The new binding is read back first: if that fails, or finds none, nothing is
\* undone.
WriteCatalog ==
  /\ proc.app.at = "catalog"
  /\ \/ binding[Account] # None /\ Then("done")
     \/ binding[Account] # None /\ Fails(Undo)
     \/ binding[Account] = None /\ Abandon("app") /\ UNCHANGED used
     \/ Abandon("app") /\ Fault
  /\ UNCHANGED <<home, wrapper, providers, binding, journal, live, raced>>

\* The record goes after the last step, and after the last undo.
ClearRecord ==
  /\ proc.app.at \in {"done", "clear"}
  /\ Abandon("app")
  /\ \/ Forget(Busy.id) /\ UNCHANGED used
     \/ Fault /\ UNCHANGED journal
  /\ UNCHANGED <<home, wrapper, providers, binding, live, raced>>

-----------------------------------------------------------------------------
(* What creation, deletion and recovery share: process w goes on at `next`,  *)
(* or the step fails and Fail says how.                                      *)

\* delete_exclusive_provider asks nothing about bindings; it may delete the
\* Provider and then fail to revoke its key.
DropProvider(w, p, next) ==
  \/ /\ p \in providers
     /\ providers' = providers \ {p} /\ Go(w, next) /\ UNCHANGED used
  \/ p \notin providers /\ Abandon(w) /\ UNCHANGED <<providers, used>>
  \/ Fault /\ Abandon(w) /\ providers' \in {providers, providers \ {p}}

\* A directory is removed file by file, and may be left with some of them.
RemoveHome(w, a, next, Fail) ==
  \/ home' = [home EXCEPT ![a] = {}] /\ Go(w, next) /\ UNCHANGED used
  \/ \E kept \in SUBSET home[a] :
        home' = [home EXCEPT ![a] = kept] /\ Fail /\ Fault

\* The sessions of the account are not looked at.
CanRollBackAny(a) == Managed(a) /\ binding[a] = None

\* rollback_created_account removes an account that was never handed to Codex.
\* It looks at the sessions and then at the binding; what Codex writes between
\* the two it could as well write after both, so they are one step, ...
CanRollBack(a) ==
  Managed(a) /\ {"chats", "late"} \cap home[a] = {} /\ binding[a] = None

RollBack(w, a, next) ==
  \/ CanRollBack(a) /\ Go(w, next) /\ UNCHANGED used
  \/ ~CanRollBack(a) /\ Abandon(w) /\ UNCHANGED used
  \/ Abandon(w) /\ Fault

\* ... and the removal of the home is another, which does not look again.
Removing(a) ==
  \E w \in {"app", "lam"} : proc[w].at \in {"undo home", "clear home"} /\ proc[w].rec.account = a

DropWrapper(w, a, next) ==
  \/ wrapper' = wrapper \ {a} /\ Go(w, next) /\ UNCHANGED used
  \/ Abandon(w) /\ Fault /\ UNCHANGED wrapper

\* restore_detached_api_account attaches the account again.
Reattach(w, r, next) ==
  \/ /\ Listed(r.account) /\ CanAttach(r.account, r.provider)
     /\ binding' = [binding EXCEPT ![r.account] = r.provider]
     /\ Go(w, next) /\ UNCHANGED used
  \/ ~(Listed(r.account) /\ CanAttach(r.account, r.provider))
     /\ Abandon(w) /\ UNCHANGED <<binding, used>>
  \/ Abandon(w) /\ Fault /\ UNCHANGED binding

UndoCreation ==
  \/ /\ proc.app.at = "undo provider" /\ DropProvider("app", Provider, "undo account")
     /\ UNCHANGED <<home, wrapper, binding, journal, live, raced>>
  \/ /\ proc.app.at = "undo account" /\ RollBack("app", Account, "undo home")
     /\ UNCHANGED <<home, wrapper, providers, binding, journal, live, raced>>
  \/ /\ proc.app.at = "undo home"
     /\ RemoveHome("app", Account, "undo wrapper", Abandon("app"))
     /\ UNCHANGED <<wrapper, providers, binding, journal, live, raced>>
  \/ /\ proc.app.at = "undo wrapper" /\ DropWrapper("app", Account, "clear")
     /\ UNCHANGED <<home, providers, binding, journal, live, raced>>

-----------------------------------------------------------------------------
(* Deletion.                                                                 *)

Delete(a) == binding[a] # None /\ Start("delete", a, binding[a], binding[a] = a, "detach")

DetachOld ==
  /\ proc.app.at = "detach"
  /\ \/ /\ binding' = [binding EXCEPT ![Account] = None]
        /\ Advance("stop")
     \/ Fails("clear") /\ UNCHANGED binding
  /\ UNCHANGED <<home, wrapper, providers, journal, live, raced>>

\* The processes found by their command line are stopped; one may be missed.
StopCodex ==
  /\ proc.app.at = "stop"
  /\ \/ /\ binding[Account] = None /\ Listed(Account)
        /\ live' \in {live, live \ {Account}}
        /\ Then("remove")
     \/ ~(binding[Account] = None /\ Listed(Account)) /\ Then("restore") /\ UNCHANGED live
     \/ Fails("restore") /\ UNCHANGED live
  /\ UNCHANGED <<home, wrapper, providers, binding, journal, raced>>

RemoveOld ==
  /\ proc.app.at = "remove"
  /\ RemoveHome("app", Account, "verify", Go("app", "restore"))
  /\ UNCHANGED <<wrapper, providers, binding, journal, live, raced>>

\* The script goes, and the directory must still be gone.
Verify ==
  /\ proc.app.at = "verify"
  /\ \/ wrapper' = wrapper \ {Account}
        /\ IF Listed(Account) THEN Then("restore") ELSE Advance("release")
     \/ Fails("restore") /\ UNCHANGED wrapper
  /\ UNCHANGED <<home, providers, binding, journal, live, raced>>

Release ==
  /\ proc.app.at = "release"
  /\ IF Busy.exclusive /\ UsedBy(Provider) = {}
     THEN DropProvider("app", Provider, "done")
     ELSE Then("done") /\ UNCHANGED providers
  /\ UNCHANGED <<home, wrapper, binding, journal, live, raced>>

\* The restoration is tried until it succeeds.
RestoreForever ==
  /\ proc.app.at = "restore"
  /\ \/ /\ CanAttach(Account, Provider)
        /\ binding' = [binding EXCEPT ![Account] = Provider]
        /\ Then("clear")
     \/ ~CanAttach(Account, Provider) /\ Then("restore") /\ UNCHANGED binding
     \/ Fails("restore") /\ UNCHANGED binding
  /\ UNCHANGED <<home, wrapper, providers, journal, live, raced>>

Restore ==
  /\ proc.app.at = "restore" /\ Reattach("app", Busy, "clear")
  /\ UNCHANGED <<home, wrapper, providers, journal, live, raced>>

-----------------------------------------------------------------------------
(* Recovery, in the application that starts or in `lam codex`: both take the *)
(* records they find for operations that have come to an end.                *)

\* The application starts again, and again after a recovery that failed.
StartApp ==
  /\ proc.app.at = "down"
  /\ Meets("lam")
  /\ proc' = [proc EXCEPT !.app = [Process("look") EXCEPT !.todo = journal]]
  /\ UNCHANGED <<home, wrapper, providers, binding, journal, live, used>>

Launch ==
  /\ proc.lam.at = "off" /\ used.launches < MaxLaunches /\ Use("launches")
  /\ Meets("app")
  /\ proc' = [proc EXCEPT !.lam = [Process("look") EXCEPT !.todo = journal]]
  /\ UNCHANGED <<home, wrapper, providers, binding, journal, live>>

\* What is done about a record depends on what has become of its account.
StepFor(r) ==
  CASE binding[r.account] # None -> "forget"
    [] /\ binding[r.account] = None /\ r.kind = "delete"
       /\ Managed(r.account) /\ "config" \in home[r.account] -> "reattach"
    [] OTHER -> "drop"

\* The records are taken in the order of the journal.
Look(w) ==
  /\ proc[w].at = "look"
  /\ \E r \in proc[w].todo :
       /\ \A q \in proc[w].todo : r.id <= q.id
       /\ proc' = [proc EXCEPT ![w].at = StepFor(r), ![w].rec = r, ![w].todo = @ \ {r}]
  /\ UNCHANGED <<home, wrapper, providers, binding, journal, live, used, raced>>

Recover(w) ==
  LET r == proc[w].rec
      a == r.account
      next == IF r.kind = "create" THEN "roll back" ELSE "forget" IN
  \/ /\ proc[w].at = "drop"
     /\ IF r.exclusive /\ r.provider \in providers
        THEN DropProvider(w, r.provider, next)
        ELSE Go(w, next) /\ UNCHANGED <<providers, used>>
     /\ UNCHANGED <<home, wrapper, binding, journal, live, raced>>
  \/ /\ proc[w].at = "roll back"
     /\ IF Listed(a) THEN RollBack(w, a, "clear home")
                     ELSE Go(w, "forget") /\ UNCHANGED used
     /\ UNCHANGED <<home, wrapper, providers, binding, journal, live, raced>>
  \/ /\ proc[w].at = "clear home" /\ RemoveHome(w, a, "unwrap", Abandon(w))
     /\ UNCHANGED <<wrapper, providers, binding, journal, live, raced>>
  \/ /\ proc[w].at = "unwrap" /\ DropWrapper(w, a, "forget")
     /\ UNCHANGED <<home, providers, binding, journal, live, raced>>
  \/ /\ proc[w].at = "reattach" /\ Reattach(w, r, "forget")
     /\ UNCHANGED <<home, wrapper, providers, journal, live, raced>>

ForgetRecord(w) ==
  /\ proc[w].at = "forget"
  /\ \/ /\ Forget(proc[w].rec.id) /\ UNCHANGED used
        /\ proc' = [proc EXCEPT ![w].at = "look", ![w].rec = NoRecord]
     \/ Abandon(w) /\ Fault /\ UNCHANGED journal
  /\ UNCHANGED <<home, wrapper, providers, binding, live, raced>>

Recovered(w) ==
  /\ proc[w].at = "look" /\ proc[w].todo = {}
  /\ \/ w = "app" /\ Go(w, "idle") /\ UNCHANGED live
     \/ /\ w = "lam" /\ Go(w, "off")
        /\ \E a \in {b \in Accounts : Listed(b)} : live' = live \cup {a}
     \/ /\ w = "lam" /\ Go(w, "off") /\ UNCHANGED live
  /\ UNCHANGED <<home, wrapper, providers, binding, journal, used, raced>>

-----------------------------------------------------------------------------
(* What else happens: the commands without a journal, Codex, and the end of  *)
(* a process.                                                                *)

Attach(a, p) ==
  /\ Idle /\ Use("ops") /\ Meets("lam") /\ CanAttach(a, p)
  /\ binding' = [binding EXCEPT ![a] = p]
  /\ UNCHANGED <<home, wrapper, providers, journal, proc, live>>

Detach(a) ==
  /\ Idle /\ Use("ops") /\ Meets("lam") /\ binding[a] # None /\ "config" \in home[a]
  /\ binding' = [binding EXCEPT ![a] = None]
  /\ UNCHANGED <<home, wrapper, providers, journal, proc, live>>

DeleteProvider(p) ==
  /\ Idle /\ Use("ops") /\ Meets("lam") /\ p \in providers /\ UsedBy(p) = {}
  /\ providers' = providers \ {p}
  /\ UNCHANGED <<home, wrapper, binding, journal, proc, live>>

DeleteAccount(a) ==
  /\ Idle /\ Use("ops") /\ Meets("lam") /\ Listed(a) /\ binding[a] = None
  /\ home' = [home EXCEPT ![a] = {}] /\ wrapper' = wrapper \ {a}
  /\ live' \in {live, live \ {a}}
  /\ UNCHANGED <<providers, binding, journal, proc>>

\* A conversation is "late" when a process is about to remove the home in which
\* it has just found none; no code tells the two apart.
Written(a) == IF Removing(a) THEN "late" ELSE "chats"

\* Codex makes its directories anew if they are gone.  Its exit is not modelled:
\* it is a Codex that writes no more.
CodexWrites(a) ==
  /\ a \in live /\ used.writes < MaxWrites /\ Use("writes")
  /\ home' = [home EXCEPT ![a] = @ \cup {"tree", Written(a)}]
  /\ UNCHANGED <<wrapper, providers, binding, journal, proc, live, raced>>

Crash(w) ==
  /\ proc[w].at \notin {"down", "off"} /\ Fault
  /\ proc' = [proc EXCEPT ![w] = Process(IF w = "app" THEN "down" ELSE "off")]
  /\ UNCHANGED <<home, wrapper, providers, binding, journal, live, raced>>

Work ==
  \/ MakeHome \/ WriteConfig \/ WriteKey \/ MakeProvider \/ AttachNew \/ WriteCatalog
  \/ ClearRecord \/ UndoCreation
  \/ DetachOld \/ StopCodex \/ RemoveOld \/ Verify \/ Release \/ Restore

RecoveryStep(w) == Look(w) \/ Recover(w) \/ ForgetRecord(w) \/ Recovered(w)

Next ==
  \/ Work \/ StartApp \/ Launch
  \/ \E a \in Accounts : \/ Delete(a) \/ Detach(a) \/ DeleteAccount(a)
                         \/ CodexWrites(a)
                         \/ \E p \in Providers : Attach(a, p)
                         \/ \E p \in Providers, new \in BOOLEAN : Create(a, p, new)
  \/ \E p \in Providers : DeleteProvider(p)
  \/ \E w \in {"app", "lam"} : RecoveryStep(w) \/ Crash(w)

\* No step waits: an operation that has begun and a recovery go on.
Spec ==
  Init /\ [][Next]_vars
    /\ WF_vars(Work) /\ WF_vars(RecoveryStep("app")) /\ WF_vars(RecoveryStep("lam"))

-----------------------------------------------------------------------------

TypeOK ==
  /\ home \in [Accounts -> SUBSET Files]
  /\ wrapper \subseteq Accounts /\ live \subseteq Accounts
  /\ providers \subseteq Providers
  /\ binding \in [Accounts -> Providers \cup {None}]
  /\ \A r, q \in journal : r.id = q.id => r = q

\* Whoever is told that an account was created has it, marked as LAM's own,
\* with its configuration and attached to a Provider that exists; whoever is
\* told that it was deleted finds it detached, not marked, and its exclusive
\* Provider gone unless another account uses it.  An operation reports its
\* success after a dozen writes to four stores (execute_api_account,
\* delete_api_account), none of which it reads again.  A
\* recovery that `lam codex` runs meanwhile voids the promise (raced).
SuccessIsWhole ==
  /\ TypeOK
  /\ ~raced /\ proc.app.at = "done" /\ Busy.kind = "create" =>
       /\ {"marker", "config"} \subseteq home[Account]
       /\ binding[Account] = Provider /\ Ready(Provider)
  /\ ~raced /\ proc.app.at = "done" /\ Busy.kind = "delete" =>
       /\ binding[Account] = None /\ ~Managed(Account) /\ Account \notin wrapper
       /\ Busy.exclusive /\ Provider \in providers => UsedBy(Provider) # {}

\* A record is cleared only when its operation is over: the account is
\* attached, or no exclusive Provider is left behind that nobody uses, and no
\* account that should be deleted still stands (recovery, compensation).
Settled(r) ==
  \/ binding[r.account] # None
  \/ /\ r.exclusive /\ r.provider \in providers => UsedBy(r.provider) # {}
     /\ r.kind = "delete" => ~(Managed(r.account) /\ "config" \in home[r.account])

RecordsEndSettled ==
  [][~raced => \A r \in journal \ journal' : Settled(r)']_vars

\* A conversation is lost only when its account is deleted on request, or when
\* Codex wrote it after a compensation or a recovery had looked for
\* conversations and before it removed the home (rollback_created_account
\* looks once); also when two processes undo the same creation.
ChatsAreKept ==
  [][\A a \in Accounts : \A chat \in {"chats", "late"} \cap (home[a] \ home'[a]) :
       \/ proc.app.at = "remove" /\ Account = a
       \/ DeleteAccount(a)
       \/ chat = "late" /\ Removing(a)]_vars

\* Every operation and every recovery comes to an end, whatever fails in it
\* and whoever clears its record meanwhile.
OperationsEnd == \A w \in {"app", "lam"} :
  proc[w].at \notin {"idle", "down", "off"} ~> proc[w].at \in {"idle", "down", "off"}

\* The comment at account.rs:477 says that the compensation undoes an account
\* "before it has ever been handed to Codex": it never removes a conversation.
NoChatIsRolledBack ==
  [][\A a \in Accounts : {"chats", "late"} \cap (home[a] \ home'[a]) # {} => ~Removing(a)]_vars

\* docs/remote-provider-gateway-full-design.md:349 says that a Provider that
\* is still bound is not deleted.
BoundProviderIsKept ==
  [][\A p \in providers \ providers' : UsedBy(p) = {}]_vars

\* docs/todo-startup-partial-api-account-recovery.md:4 says that what an
\* interrupted deletion leaves does not abort the launch: the recovery of its
\* record does not fail by itself.
LaunchableAfterDeletion ==
  \A w \in {"app", "lam"} : proc[w].at = "reattach" =>
    CanAttach(proc[w].rec.account, proc[w].rec.provider)
=============================================================================
