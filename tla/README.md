# Verification of LAM

TLA+ modules, TLC configurations and TLAPS proofs for LAM, the desktop
application that manages Codex accounts, external API providers and the local
Gateway they are reached through. Paths are those of the repository; the Rust
services live in `apps/desktop/src-tauri/src/services/` and are named by their
file alone.

| module | models | run |
|---|---|---|
| `ConfigProjection` | `provider_config_editor.rs`: what attaching, detaching and reapplying do to the values of a `config.toml` | with the next |
| `AttachTransaction`, `AttachTransactionInv` | `provider_attach_transaction.rs` with its Gateway half, `gateway/binding.rs`, and the planning in `provider_planner.rs` and `provider_api_v2.rs`; its inductive invariant | `attach_one`, `attach_two` |
| `RouteSwitch` | abstract: what attach, rebind and detach promise about the route of a profile | `attach_two` |
| `AttachTransactionProofs` | theorems | |
| `QuotaReset`, `QuotaReads` | `quota.rs`: redeeming a reset credit, and reading the quota it changes | `quota_reset` |
| `GatewayAdmission` | `gateway/server.rs`, `dispatch`: permits and queues | `admission` |
| `GatewayClaim` | `gateway/supervisor.rs`, `gateway/sidecar.rs`, `bin/lam.rs`, `bin/lam-provider-gateway.rs`: which process is the Gateway | `gateway_claim` |
| `GatewayTokens` | `gateway/binding.rs`, `storage.rs`: bindings of the Gateway and their tokens, with and without the installation lock | `gateway_tokens` |
| `BindingRegister` | abstract: what a call that changes bindings promises | `gateway_tokens` |
| `GatewayProofs` | theorems about the Gateway | |
| `ChatRequest`, `ChatStream`, `ResponseStream` | `adapters/request.rs`, `adapters/sse.rs`, `gateway/routes.rs`, `gateway/upstream.rs`: one request through the Gateway and the next one of its conversation | `response_stream` |
| `ResponseStreamProofs` | theorems | |
| `PortMigration` | `provider_api_v2.rs`: moving the Gateway's port through its three stores, and the repair of projections at start | `port_migration` |
| `PortMigrationProofs` | theorems | |
| `ApiAccount` | `provider_api_v2.rs`, `account.rs`: creating, deleting, compensating and recovering API accounts | `api_account` |
| `ApiAccountProofs` | theorems | |
| `ProviderSecrets` | `provider_api_v2.rs`, `provider_keychain.rs`, `credential_store.rs`: where a key is, and editing a Provider in place | `provider_secrets` |
| `ProviderSecretsProofs` | theorems | |
| `AccountHomes` | `account.rs`: accounts with a login of their own, the switch between them, launch scripts | `account_homes` |
| `AccountHomesProofs` | theorems | |
| `UsageEvents`, `UsageIndex` | `usage.rs`, `session.rs`, `relay.rs`: the index of the rollout logs, the deletion and the relay of sessions | `usage_index` |
| `UsageProofs` | theorems about the usage index and the quota | |
| `MC…` | the small instances that TLC checks | |

## 1. The system

LAM keeps a number of small JSON stores under its home directory, edits the
`config.toml` of Codex profiles, keeps secrets in the system's keychain, and runs
a Gateway, a local HTTP server in a sidecar process, which authenticates the
requests of Codex by a per-profile token and forwards them to a provider.

| component | state | operations | interacts with |
|---|---|---|---|
| Installation lock and versioned stores (`storage.rs`) | a lock file; per store an envelope with a revision | take the lock; load; compare-and-swap on the revision by an atomic replacement of the file | every store below |
| Config editor (`provider_config_editor.rs`) | the text of `config.toml`, backups | apply, detach, reapply a projection; compare the hash and rename | attach transaction, start-up |
| Profile bindings (`provider_binding.rs`) | `bindings.json`: the provider, the Gateway binding and the recorded values of every bound profile | compare-and-swap, adopt, rename, detach, reconcile | attach transaction, accounts |
| Gateway bindings (`gateway/binding.rs`) | `gateway-bindings.json`: token hash, generation, `revoked_at`, `revocation_pending`; tokens in the keychain | provision, prepare, rotate, revoke, authenticate | attach transaction, Gateway server |
| Dry-run planner (`provider_planner.rs`) | plans that were shown to the user, in memory, with a time to live | plan, validate, consume | attach transaction, API accounts |
| Attach transaction (`provider_attach_transaction.rs`) | `attach-journal.json`: one record per operation, with its state | execute attach or detach, recover, compact | all of the above |
| Provider services (`provider_api_v2.rs`, `provider_v2.rs`, `provider_runtime.rs`) | provider store, API-account journal, migration markers | edit and delete providers, API accounts, migrations, Gateway port change, recovery at start-up | all of the above, the keychain, the supervisor |
| Gateway supervisor (`gateway/supervisor.rs`, `sidecar.rs`, `recovery.rs`) | `gateway-state.json`: the claim of a process on the port; the child process; a control socket | claim, release, probe, restart with backoff, shut down, sign and verify control messages | Gateway server, port change |
| Gateway server (`gateway/server.rs`) | semaphores and queue counters, in memory | authenticate, admit or queue, run the handler, stream | Gateway bindings, routes |
| Routes, upstream client, adapters (`gateway/routes.rs`, `upstream.rs`, `adapters/`) | per request: upstream permit, deadlines, cancellation, state of the SSE translation | open a stream, translate, cancel, retry | Gateway server, providers |
| Keychain and credentials (`provider_keychain.rs`, `credential_store.rs`, `provider_auth_command.rs`) | secrets and their metadata | store, rotate, resolve | provider services |
| Quota (`quota.rs`) | a cache of quotas; one reset operation per profile | read, refresh, reset with a credit | the Codex app-server, a web API |
| Sessions and relay (`session.rs`, `relay.rs`) | rollout files, an index database | list, delete with staging, relay to another profile | accounts |
| Usage index (`usage.rs`) | a SQLite index of append-only logs | incremental refresh, queries | sessions |
| API accounts (`provider_api_v2.rs`) | `api-account-journal.json`: a record per unfinished operation | create, delete, compensate, recover | accounts, attach transaction, keychain |
| Gateway port (`provider_api_v2.rs`, `gateway/listener_handoff.rs`) | the port in `gateway-state.json`, in the bindings and in every config | plan and execute a migration, roll back, repair at start | attach transaction, supervisor |
| Accounts (`account.rs`) | account directories, `auth.json`, metadata | create, rename, delete, switch to a personal access token | bindings, quota |
| Frontend stores (`stores/*.ts`) | lists and their request generations | load, load more, refresh, mutate | Tauri commands |

What is hard in it: operations over several files, each replaced atomically but
not together, with a journal to recover from; external programs that edit the
same `config.toml` without taking the lock; secrets that live in another store
than their metadata; plans that are approved at one time and executed at
another; processes (application, sidecar, Codex) that start and die
independently; asynchronous requests that are cancelled at any await; remote
calls that time out after they took effect. `hazards` in `PROJECT.json` lists
them line by line.

What makes each component correct, in a sentence: the *config editor* changes
LAM's keys only and gives back what the user had; the *attach transaction*
switches a route once or never, whatever crashes, and leaves no live token
behind; *Gateway bindings* never authenticate a revoked token; the *planner*
executes only what was shown, once; *stores* lose no committed update; the
*supervisor* never has two Gateways serving, nor stops a foreign process; the
*server* neither loses permits nor lets one binding starve the others; *quota
reset* spends one credit per reset; *session deletion* loses no session that it
reports as kept; *usage* counts each log line once; an *API account*
is whole or gone; a *key* is kept wherever its Provider says it is; *accounts* are
never lost by a command that fails; a *port migration* moves everything or
nothing; *stores of the frontend* never show the answer to a superseded request.

## 2. The attach transaction

`AttachTransaction` is the core. One process at a time holds the installation
lock; `pc` says where the holder is, `work` is the journal record it works on.
Every durable write of `execute_attach`, `execute_detach` and `recover_pending`
is an action of its own, so `Die` can strike between any two of them, `Fault` can
fail any of them, and `EditConfig` can change the file between the comparison of
its hash (`CheckConfig`) and the rename (`WriteConfig`).

| in the code | in the model |
|---|---|
| `config.toml` as a TOML document | `config[p]`: a value for each slot (a top-level key, or a key of a provider's table) and a `form`, which stands for layout and comments; hashes are compared by comparing both |
| `bindings.json`, `attach-journal.json` | `bindings`, `bindingRev`, `journal` |
| `gateway-bindings.json` and the keychain | `gateway[o]`: unused, live or revoked, whether its credential exists, whether it is marked `revocation_pending` |
| `DryRunRegistry` | `plans`: a plan fixes the config, the revisions and the provider; lost when the process dies |
| plan, operation and Gateway binding ids (UUIDs) | one id for the three |
| `execute_attach` | `BeginAttach`, `PrepareCredential`, `PrepareGatewayBinding`, `CreateJournal`, `CheckConfig`, `WriteConfig`, `MarkConfigCommitted`, `CheckDrift`, `CommitBinding`, `MarkBindingCommitted`, `Finish`, and on errors `FailConfig`, `MarkDrift` |
| `execute_detach` | `BeginDetach`, and the same steps without the Gateway's |
| `GatewayBindingService::revoke_locked` | `RevokeStore`, `RevokeCredential`, `MarkRevocationPending` |
| `recover_pending`, `recover_record` | `StartRecovery`, `RecoverNext`, `RecoverForward`, `RecoverBack`, `RecoverGiveUp`, `CheckRollback`, `WriteRollback`, `MarkRolledBack` |

`RouteSwitch` is what a client may rely on: an accepted operation changes the
route of its profile in one step or not at all, it ends as done only if the
route changed and as undone only if it did not, nothing else changes a route,
and no second operation of the profile is accepted meanwhile. The refinement
maps the binding store to the route and the journal's states to the phases: the
commit point is the write of `bindings.json`, not that of the journal.

### Runs

| run | instance | what it shows |
|---|---|---|
| `attach_one` | one profile, two operations, one foreign edit, one crash, one fault | `BoundRouteIsLive`, `FinishedLeavesNoLiveOrphan`, `KnownTextsAreReplaced`, and `EveryOperationEnds` under `FairSpec` |
| `attach_two` | two profiles with two operations, one edit, two crashes and a fault; or one profile with its user's own keys in the providers' tables, with two operations and two crashes or faults, or three and one | the inductive invariant `IInv`, `ConfigMatchesBinding`, and the refinement `RouteSwitchSpec` |

Two operations on a profile are the least that include a rebind; three include the
attach, the rebind to the other provider and the detach of `ConfigMatchesBinding`. The two
providers manage different keys, as in `managed_keys`: the one behind the Gateway a
command, the direct one a top-level key and a key of its table. `MCBound` cuts the states
of `attach_two` to those of its row. Two crashes let recovery itself be interrupted; one
fault and one crash together cover a failure whose cleanup is interrupted. One key per
kind is enough, since the editor treats the keys of a kind alike: a top-level key that
every provider manages and one that only one does, such keys of the provider's table, one
that an application clears, one that LAM leaves alone, and the authentication table. The theorems hold for any numbers of all of these.
Deadlock is not checked: ids are used once, so every instance stops when they are
spent.

*Fairness.* `FairSpec` lets the holder of the lock go on (weak fairness of
`Execute` and `Recover`: it is a thread that waits for nothing but the disk) and
recovery start again and again (strong fairness of `StartRecovery`: every start
of LAM runs it, and executions that keep the lock busy are finite, since a plan
is consumed once). Crashes, faults and edits are bounded and never forced.

### Proofs

`AttachTransactionProofs` proves, for any numbers of profiles, operations,
providers, keys, layouts, edits, crashes and faults:

- `Invariance`: `Spec => []IInv`;
- from it `TypeCorrect`, `OneOperationPerProfile`, `RecoveryKnowsBinding`
  (`BindingIsKnown`) and `RouteStaysLive` (`BoundRouteIsLive`);
- `Refinement`: `Spec => RouteSwitchSpec`.

They assume the three named assumptions on the constants (`ConfigAssumption`,
`AttachAssumption`, `SentinelAssumption`), which TLC evaluates in every run.

*The invariant.* None of the safety properties is inductive: that recovery never
revokes a bound route depends on what the interrupted operation had done, and on
no other operation having touched the profile since. `IInv` adds what the code
relies on without saying so. `HolderOK`, `WorkIsJournaled` and `WorkIsNew` relate
the step of the lock's holder to the record it works on, in memory and in the
journal. `Position` divides the steps at the commit point: before it the profile
is bound as the record's `previous`, after it as its `prepared`. `RecordsReferWell`
and `BoundByItsOperation` say that a Gateway binding is named after the operation
that prepared it and belongs to that operation's profile, so two profiles, or two
records of one profile, never refer to the same one. `PreparedIsLive` and
`RevokedIsUnbound` are the two obligations of the holder about routes. One lemma
per action shows that it preserves each conjunct; the refinement is then one
lemma per action that maps it to a step of `RouteSwitch` or a stutter.

`FinishedIsRevoked` proves `FinishedLeavesNoLiveOrphan` from `IInv` and `CleaningUp`: which
binding the holder revokes before it writes the last state of a record, and that the
binding is revoked by then. Beside it stands the lemma that nothing makes the revoked
binding of a record live again. `ForeignTextsSurvive` proves `KnownTextsAreReplaced`: from
the check to the rename the holder's texts are those of the journal (`WorkIsJournaled`),
and after the check the config is the text that was compared, unless another program
wrote in between (`CheckedIsThere`).

`ConfigsMatch` proves `ConfigMatchesBinding` for providers with any keys of their own and
users with any configs. The proof has two halves. About the editor, slot by slot, outside
`Lost`: what it applied it takes back (`UnappliedFits`), a rolled back attach or rebind
gives what there was before (`RestoredFits`, `ReappliedFits`), and a rebind records again
what the first attach did. About the transaction: `ValuesInv`, which speaks of the
profiles that only LAM has written (`Calm`: not `touched`, no record given up) and of the
values the user had at the start (`original`). Every binding, stored or waiting in an
unfinished record, records those values (`Remembers`); detaching the config from the
binding, or from the one that the unfinished operation is about to make, gives them back
(`Fits`); and what the lock's holder has seen of the config depends on its place
(`SeenAt`), so recovery decides rightly which of the two it finds. `Lost` grows only when
an operation's record is created (`AppliedGrows`), and what fits outside fewer slots fits
outside more. `ValuesInv` was checked by TLC before it was proved.

Only model-checked: `EveryOperationEnds`, because liveness is beyond the prover.

### Abstractions

Left out of the transaction: the revision check of the provider store and the
version of the endpoint; the blockers of a plan other than drift; the expiry and
the tickets of plans; `compact`, which nothing in the application calls, and the
limits of the journal (128 active records, 100 finished, 30 days), which
`create_journal_locked` does not check; whether a provider's table is present
while empty, and `provider_table_created`; the refusals of static headers and
bearer tokens; adopted bindings; the faults that only tests inject; a detach of a
profile that is not bound, which changes nothing; a missing config file; backups;
the refresh of hashes at start-up for native Responses providers. A store write
whose error the code propagates with `?` is `Die` with the plans kept: nothing more
happens and the lock is released. The layout of a rewritten text is
nondeterministic, since the printer of TOML decides it. The order in which
recovery takes up records is left open. Planning is atomic and happens while the
lock is free; what it read is compared again at execution. `ConfigMatchesBinding` says that a detached
or rolled back profile has what its user gave it in every slot but those of `Lost`,
where the code does not give it back: authentication keys of a table that an application
clears without recording them (`Cleared`, `clear_auth`), and, after a rebind to another
provider, whose binding keeps what the first attach recorded (`build_prepared_binding`),
the keys that only the new provider manages and the keys recorded of the first one's table
(`Mistaken`). `Lost` names slots, from the operations of the profile's records; a slot
outside it is given back exactly. Section 13 has the statement without exceptions.
`touched` marks a profile whose
config was changed by another program, or by a write of LAM that was reported as
failed.

## 3. Quota

*Resetting.* The server spends a credit once per operation id.
`reset_profile_quota` keeps the id in a file while the outcome is open. `QuotaReset`
models one profile (files and guards of profiles are independent): `Acquire` is the
in-memory guard, `Reuse` and `Create` read or replace the operation file, `Send` and
`CannotSend` start either way of consuming, `Answered`, `Refused` and `GiveUp` are its
ends, `Mark`, `Write` and `Clear` the updates of the file. The file is truncated and
then written (`write_file_private`), in two steps. `Serve` is the server, external,
which may handle a request at any time after it was sent, also after its sender gave
up; `Crash` drops all callers. `GiveUp` follows `is_reset_outcome_unknown`: an attempt
through the app-server ends as `outcome_unknown` or `rejected` depending on the error,
one over wham always as `rejected`.

*Reading.* `QuotaReads` has the readers: the window, the tray and the end of a reset
all call `get_profile_quota` on threads of their own. `ReadCache` is every read that
does not ask (unforced, without auth, with the app-server disabled, the list);
otherwise the usage endpoint is asked (`UsageAnswers`, `UsageFails`, then details,
sources and the manual date, which only take time), then an app-server over a staged
copy of the auth file (`Stage` … `ServerFails`), then the cache (`Fallback`,
`FallbackSaves`). The cache is truncated and written (`Truncate`, `Save`,
`SaveFails`). A snapshot is the number of credits spent when it was taken: that is
all the properties compare. A whole reset is `Spend` here.

`quota_reset` has both halves: a behaviour is one of resets (two callers, three ids,
two credits, one crash; the server may lose, delay or refuse anything) or one of
reads (two readers, deaths without bound). Two callers show the guard, three ids let a
dropped id be followed by two new ones, two credits let a second one be spent, two
readers let an older answer be saved over a newer one.

- `SpentIdIsKept`: every id that may have cost a credit is settled or named by the
  file for the next attempt, unless the code dropped it knowingly, as rejected, or was
  interrupted while it rewrote the file. `SettledIdIsNotRepeated`.
- `QuotaIsCurrent`: what a read calls fresh shows every credit spent before the read
  began, and the cache is what the last save wrote, except after saves that
  overlapped, failed midway or were cut off, until the next clean one.
- `NothingIsLeft`: no copy of an auth file and no app-server stays after a read, except
  after an error of staging past the `mkdir`, an error of `try_wait`, and death.

`UsageProofs` proves the first two for any numbers of callers, ids, credits and
crashes. The invariant (`QuotaInv`, at the end of `QuotaReset`) adds that the guard's holder
is the only caller at work (`Guarded`), that the file names the id it works on except
while it is rewritten (`WorkIsNamed`), that a request or an answer somebody waits for is
that caller's own (`WireIsAttended`), that `SpentIdIsKept` holds for every id still on the
wire, which may cost a credit yet (`SentIdIsKept`), and that a settled id is never named
again (`NamedIsOpen`).

It also proves `QuotaIsCurrent` and `NothingIsLeft` for behaviours of reads
(`ReadsSpec`), for any numbers of readers and credits. What a reader remembers is not
ahead of the server, and an answer it has was asked after every credit spent before it
began (`Asked`); it holds a copy or a server only while it asks, or is stuck with it
(`Clean`); the cache is what was saved last while nobody writes and nothing excuses it
(`Kept`).

Not modelled: the fields of a quota; expiry of ids, which the code does not have.
Not prevented by the code: an older read overwrites a newer one in the cache; two
writers mix their texts; one torn cache makes `list_cached_quotas` fail for all
profiles; the cache of an account that was deleted or renamed is shown for a new one
of that name; the app-server may refresh the login in the staged home, which is then
deleted; the error of the read that follows a reset hides its outcome (`quota.rs:226`).

## 4. Admission to the Gateway

`GatewayAdmission` models `dispatch` from authentication to the end of the handler,
for requests that run on several threads. Its step names are the suspension and
interleaving points of the future: trying both permits, the two counters of
`QueueGuard::enter`, the two awaits of `acquire`, the drop of the guard, the
handler, the drop of the permits, binding first. tokio's semaphore is external: a
counter of free permits, a first-in-first-out list of waiters, and the waiters
that were given a permit and not polled yet. `Abandon` is the deadline or a client
that went away, at either await, also at the moment a permit arrives.

`admission` (three requests of one binding that runs one, one request of another, two
running in all, two places in each queue): `PermitsConserved`, permits and places are
conserved wherever a request stops; `WaitsOnlyWhenBusy`, a request waits only while
its binding or the whole Gateway runs all it may; `EveryRequestLeaves`. Four requests
are the least that fill a binding's queue and let a permit be passed on past a waiter
that gives up, with a stranger competing for the Gateway's permits. Fairness is weak
fairness of every step but arrival and giving up; the handler ends because
`dispatch` bounds it by the rest of `request_timeout`. `EveryRequestLeaves` holds
without the queue's timeout, so no request depends on it.

`GatewayProofs` proves the first two, for any finite set of requests and any
numbers of bindings, permits and places. Of every pool the invariant says `Sound`, nobody
waits while a permit is free, nobody waits twice or after being given one; that those in
line or given a permit are exactly the requests whose future waits there; and `Conserved`,
free, granted and owned permits are what the pool has, and its counter is the number of
guards. `WaitsOnlyWhenBusy` follows: a pool with a waiter has no permit to spare, and when
nothing is about to move its owners all run, because the binding's permit is taken first.

Left out: authentication and body limits, which come before; response streams, which
outlive the permits (see `ResponseStream`); the counters that are only reported;
shutdown. Not prevented: between the two counters a request that its own binding's
queue will reject holds a place in the global queue, for which another can be
rejected (`gateway/server.rs:1170`); the running counters are given back after the
permits, so the numbers that are reported can exceed the limits for a moment (`:982`).

## 5. Which process is the Gateway

`GatewayClaim`. `gateway-state.json` (`state`) names the process that serves a port.
A sidecar loads it, claims it, listens, serves, and releases it when it stops
(`SidecarLoad` … `SidecarRelease`). The supervisor's cycle is `Load`, `Inspect` (the pid,
its executable, its parent, a probe of the control socket), `Clear`, `Validate`, `Spawn`,
`Verify`, `GiveUp`; a launcher (`lam codex`) runs the same steps with a number of
attempts. The exit hook is `ExitBegins`, `ExitAsks`, `ExitWaits`, `ExitTerminates`. What
each has read is kept in its local variables, and `current` is the set of those whose
last load or write still has the revision of the file, which is all that the
compare-and-swap looks at. Processes die, pids are reused by strangers, sidecars are
orphaned when their parent dies, the port is moved.

`gateway_claim`: three pids, one launcher, two ports, one retry of the supervisor, two
probes of the launcher, two interferences (deaths, moves, reused pids; `MaxEvents`).

- `AttendedGatewayKeepsClaim`: a sidecar that claimed the state and whose parent lives
  keeps the claim until it ends; two such sidecars never serve at once.
- `ReconcileSparesOthers`: outside the exit hook nobody ends a process that took over the
  pid of a sidecar.
- `NeedIsMet`: while a binding needs the Gateway, every crash, orphan, reused pid and
  unreachable sidecar is followed by a Gateway that proves its identity at the port of
  the state, unless the supervisor ended after its last retry or the claim is held at
  the port before a migration.
- `EveryLaunchSettles`: `lam codex` ends its preparation.

`GatewayProofs` proves the first for any numbers of processes and launchers, any
limits of retries and any number of interferences. The invariant has two parts.
`AttendedHasClaim`: an attended sidecar has the claim. No step makes an attended sidecar
but the one that claims the state (`NoneNew`), which it can only do when the state names
nobody or a process that is gone; so at most one is attended. `ClearsNoneAttended`: an
agent that turned to clearing a claim, and whose snapshot is still current, has found
its process dead, orphaned or replaced. That stays true, because a process that is not
attended becomes so only by claiming, which makes every other snapshot outdated, and
nobody renews the snapshot of an agent that clears (`NoneRenewed`). The other releases
are the process's own, or follow its end (`Released`). The pids and the agents' names
are assumed disjoint, which only says that an agent is not a sidecar.

It proves the second as well. A stranger is ended only through a remembered pid: that of
the state, which only the exit hook uses unverified, or that of a child. `ChildIsOwn` says
that the child an agent remembers is its own and no stranger: a pid is given away again
only after its parent has waited for it, and whoever waits forgets it in the same step.

Fairness: weak, of each sidecar's, agent's and exit hook's steps, which are threads
that run whenever they can. Nothing makes the user start the application or end Codex.
Left out: the recovery of a process that proves another instance, since an instance id
changes only for stale claims; signatures and nonces of control messages beyond
whether they match; a sidecar's release is one step.

## 6. Tokens of the Gateway

`GatewayTokens` has the two stores that a binding and its token live in: `store`, a
snapshot with a revision that is replaced as a whole, and `secrets`. Public operations
(`Provision`, `Rotate`, `Revoke`, `PrepareCandidate`) change both without the
installation lock and compare the revision; the transaction's (`PrepareLocked`,
`RevokeLocked`) hold it from the first read to the end. Each is cut at every durable
write (`WriteSecret`, `Commit`, `RevokeOld`, `MarkPending`, `Unwind`), where a write can
fail (`CommitRefused`, `CommitUnsynced` after the rename) and the worker can die.

`gateway_tokens`: two workers, one profile, three binding ids, three revisions, two
failures or deaths.

- `TokensMatchBindings`: a binding that the Gateway would accept has its token, and no
  token outlives its binding unless it is marked `revocation_pending`; excepted are
  bindings whose cleaning up failed a second time or was cut short (`spoiled`), and
  those a failed commit stored all the same (`unsure`).
- `CallsTakeEffectAtOnce`: the calls implement the abstract `BindingRegister`, in which a
  call reads, checks and changes the bindings in one step: the identifier is new, the
  generation is the next of the profile or of the binding that is replaced, a profile is
  provisioned only while no binding of it is live, an operation gets one candidate. The
  code checks all that against a snapshot and writes the whole collection later.

`GatewayProofs` proves both properties, for any numbers of workers, profiles,
bindings, revisions and failures, and that no call undoes what another has stored
(`NothingIsUndone`): bindings are never dropped, a revoked one never comes back, and a
mark stays. What a call checked is kept in `CallsHaveChecked`, of the snapshot it read;
when the write gets through, that snapshot is what is stored. The invariant has also `ReadWhatIsStored`: a worker
whose revision is still the store's has read what is stored, which is all that keeps a
write of the whole collection from undoing another's; `GenerationsFit`, generations are
drawn no faster than revisions; `NewIsNew`, no two workers add the same binding, nor one
that is stored, and its token is there before it is committed; `OldIsStored`, what a
worker is to revoke is stored and stays revoked once it has stored that. It assumes that
the constants are distinct from `None` and the bounds are numbers.

Left out: `expires_at`, which no caller sets; the install identity. The two revision
checks of `mark_revocation_pending` are one. A timeout of the lock is a refusal.
`provision`, `rotate` and `revoke` are public and used by tests only. Not prevented: two
rotations may hand out the same generation; a pending mark is never cleared; the id of
a plan that failed conflicts on retry until the profile is planned again.

## 7. A request through the Gateway

`ChatRequest` translates a Responses request into a Chat Completions one: names of
tools are flattened and may collide, calls must be answered, the reasoning of a turn
goes with its calls. `ChatStream` is the adapter's state machine: an operator per call,
from adapter to adapter with the events it emits. `ResponseStream` composes them with
the task that reads the upstream, the channel bounded in frames and bytes, the client,
the retries before the first byte, the observer of native streams, and the store of
reasoning histories. `ReadChunk` handles all frames of one read, as `push_bytes` does;
`ReadEnd`, `ReadFails`, `Send`, `SendFails`, `TaskEnds` are the ends of the task's
awaits; `FollowUp` is the next request of the conversation, with the results of the
tools; `OtherTurn` is another conversation's use of the history store.

`response_stream`: six requests (adapted or passed through, streamed or whole, with and
without history and reasoning, with colliding names, with repeated call ids), streams
of up to five frames with two in a read and one frame out of order, three tool deltas
that make up to two calls, a text of up to three fragments, a channel of two frames and
two units (a text may be larger than the channel, as in the code: 32 MiB against 2), two histories and two other
conversations, one retry of each kind (the code has two connects and one first byte,
16 requests in flight). Five frames hold a text, two calls, a finish reason and
`[DONE]`; two in a read let one follow the terminal frame.

- `EndsAreWhole`: Codex is told once how an answer ended, and in an answer told as
  complete every item that was opened was closed once. Excepted: frames after the
  terminal one in the same read, and on the adapted route failures of the transport and
  events that are larger than the channel (section 13). It contains `TypeOK`, with the
  limits of the channel and of the store, and the bound on the retries.
- `TurnsAreComplete`: in the messages sent upstream, those of the first request and those
  of the follow-up, no call is there twice, and every turn that calls tools has its
  reasoning where the provider wants it, also after an answer that broke the protocol
  (`TurnsAreWhole`). And the reasoning of the answer is there for the next request as long
  as fewer other conversations were served since than the store has places
  (`ReasoningIsKept`).
- `ResultsAreServed`: in the messages sent upstream a result follows its call directly, with
  only the results of other calls of that turn between (`ResultsAreInPlace`, for the
  follow-up of an orderly answer), and that follow-up is refused only for one of the causes
  that `RefusalHasCause` lists.
- `StreamEnds`: the task of a stream ends. Fairness: weak, of a read that ends by
  itself (`total_timeout` and the idle timeout), of the task's sends, and of a client
  that reads.

`ResponseStreamProofs` proves `EndsAreWhole` for any requests, answers, tools, limits and
numbers of frames, reads, retries and other conversations. `EndsAreWhole` speaks of what
Codex has received, which depends on what is still on its way; so the invariant (`IInv`,
checked by TLC first) speaks of `Total`, what Codex will have made of the answer when it
has received what is in the channel and what the task has yet to send (`Ahead`). While the
task reads, the adapter is in step with the stream and with `Total` (`Alive`): it is over
exactly if `[DONE]` came, it has kept no failure, and after a stream that kept the protocol
an item that `Total` has as opened is closed once or still open in the adapter, with the
calls of the adapter those of the stream (`Orderly`, `CallsMatch`). When the task is done,
`Total` has the terminal event that the cause of the end calls for, no event is behind it,
and a success is whole (`Translates`; `Observes` for a native stream, where the observer's
flag has to agree with `Total`). `Phases` relates the places of the task and of Codex,
`Retries` the two budgets. Underneath are lemmas about each operator of `ChatStream`: it
goes on, breaks or closes (`Goes`, `Breaks`, `Closes`), and what it adds to the view of one
who saw the rest (`Shows`). A read is any number of frames, and an answer has any number of
calls: both are inductions (`ReadIs`, over the frames; `FinishToolsIs`, over the sets of
calls).

`ReasoningOutlivesOthers` proves `ReasoningIsKept`. Its invariant counts: as long as the
store has our entry and the follow-up did not come, the entries behind it are as many as the
conversations that came since (`Recent`), so an entry that goes was overtaken by as many as
the store has places.

`TurnsAreAlwaysComplete` adds `TurnsAreWhole`, for conversations of any length, any
calls and any answer before. It goes through the translation from item to item. Its
invariant (`Built`) is that the messages so far are `Sound`, the property itself; that the
calls still pending are called once and by no message; and that the ids of both are among
those that were seen, so that an id that is new to the set is new to the messages. `Flush`
keeps it, whether the calls become a message or join the one before, and so does the fold
over the items (`GroupedBuilt`). Hoisting (`Sorted`) leaves the calls of the messages it
did not reach apart from those it kept (`HoistedIsSound`). Over the states, `SendsSound` adds that the store
holds texts (`Thoughtful`), for they become the reasoning of a turn; the follow-up is the
same translation of the items that `NextItems` folds from request and answer
(`NextItemsAre`).

Only model-checked: both parts of `ResultsAreServed`. They hold of the conversations that
Codex has, and are false of others: a result that does not come right after its call stays where it is, and a call whose id was
used in an earlier turn is refused as a duplicate.

Abstracted: contents are short sequences of words, arguments are `halves` that make up
valid JSON or not; web searches, token counts, the conversion of URLs and credentials
are left out. A client that neither reads nor leaves blocks the task beyond
`total_timeout`: the code sends without a deadline, hence the fairness of the client.
Also not prevented: `[DONE]` after text and a tool delta without a finish reason is
taken for an end (`sse.rs`, about 1217); `stop` with calls pending leaves them
unfinished; keep-alive comments fail a stream; the connect budget counts attempts that
the first-byte retries used; streams are not counted as requests in flight.

## 8. Moving the port

`PortMigration`. The port is in `gateway-state.json`, in every binding, and in every
profile's config. A migration prepares (one step, since everything is compared again
before it is written), then checks and renames each config (`CheckConfig`,
`RenameConfig`, in the order of the profiles: `Due`), commits the bindings and the port by compare-and-swap (`CommitBindings`,
`CommitPort`), and otherwise rolls back what it has done (`RollBack`, `UndoBindings`). It
holds no lock. `ExecuteAttach` and `Detach` hold the lock and are one step each; an
attach's plan keeps the port and the revision it saw. `RepairConfig`, `RepairEnds` are
the repair at start.

`port_migration`: two migrations that may overlap, two profiles, two ports, three
commands, one commit or edit of others, one failure or crash. Two profiles let one be
written and the other fail; two ports and two migrations let one undo the other.

- `MigrationIsWhole`: with no migration or repair under way, every binding is on the
  stable port and has the hash of its config, whatever failed, was rolled back, or was
  attached meanwhile: all three places moved or none did.
- `EditsSurvive`: no migration, rollback or repair writes over a config that the user
  changed since it was read, but between the check and the rename.

An attach or detach makes a profile's binding and config agree again (`Settle`), unless a
migration under way has written that config and may still put it back (`Written`): it
compares contents only, so it takes the same text, written by the attach, for its own.

`PortMigrationProofs` proves both, for any profiles, ports and numbers of migrations and
failures. `EditsSurvive` needs only that a config about to be written is as it was checked
(`Checked`) and that every step keeps what the user noted. `MigrationIsWhole` has two
halves. *Ports* (`PortsAgree`): while a migration is between its two commits no other is,
the stable port is the one it was planned for and the bindings have the new one;
otherwise the bindings have the stable port but for those somebody is about to put
back; a commit that will be accepted, by its revision, finds it so. *Configs*
(`ConfigsAgree`): the writes that migrations may still put back are edges from content to
content. Two migrations may have written the same profile one after the other, and back
again, so no order of them can be relied on; what holds is a balance (`Balanced`): every
content is left as often as it is entered, counting the binding's record as a way in and
the config as a way out. When nothing is under way there are no edges, and the two are
the same. The number of migrations must be finite for that count.

Every bound profile uses the Gateway; a direct one is `OtherCommit`. Not prevented, and
excepted by name: an attach that was planned between the two commits keeps the old port
(`crossed`), after which migrations refuse with `GATEWAY_PORT_PROJECTION_MISMATCH`; two
overlapping migrations can undo each other between the check and the rename, or after a
late commit (`spoiled`); a crash or a failed rollback leaves a profile that can neither
be attached (drifted), detached (ownership) nor migrated, as there is no journal; a
repair whose last commit fails leaves configs whose hash no binding has, and `main.rs`
ignores its error; the running sidecar keeps serving the old port. No page calls the
migration: its commands are exported by `api.ts` only.

## 9. API accounts

`ApiAccount`: a home, an exclusive or shared Provider and a binding are created in
steps under a record of a journal (`MakeHome`, `WriteConfig`, `WriteKey`, `MakeProvider`,
`AttachNew`, `WriteCatalog`, `ClearRecord`), deleted likewise (`DetachOld`, `StopCodex`,
`RemoveOld`, `Verify`, `Release`), compensated (`Undo`, `RollBack`, `RemoveHome`,
`DropWrapper`, `Reattach`, `Restore`) and recovered when the application starts and before
every `lam codex` (`Look`, `Recover`, `ForgetRecord`). `RollBack` is the check of
`rollback_created_account`, that the home has no conversation and no binding; the removal
is another step (`"undo home"`, `"clear home"`), and Codex may write in between. What it
writes then is labelled `"late"` (`Written`); the label is read by the property only. An attach or detach is one step:
`AttachTransaction` shows that it happens or leaves everything as it was.

`api_account`: two accounts, of which one takes its key from its home, a shared
Provider, three operations, one fault or crash, one `lam codex`, one write of Codex.
Three operations let an account be made, used by another one's Provider, and deleted.

- `SuccessIsWhole`: an operation that reports success leaves the account whole, or gone.
- `RecordsEndSettled`: a record is cleared only when nothing is left half done.
- `ChatsAreKept`: a conversation is lost by a deletion on request, or if Codex wrote it
  between the check of a compensation or recovery and the removal of the home
  (`account.rs:489` to `:501`), and otherwise never.
- `OperationsEnd`: every operation and recovery ends, under weak fairness of the
  application's work and of the recoveries, which wait for nothing.

`lam codex` recovers without a lock (`bin/lam.rs:71`); `raced` marks the behaviours in
which it met an operation of the application, and voids the first two. The keychain,
Codex's exit and the stage of a record are abstracted; planning and execution are one.

`ApiAccountProofs` proves the first three for any accounts and any number of operations,
launches, failures, crashes and writes. Its invariant `IInv` says that a working process
has a record of the kind of its work (`Employed`); that an id names one record wherever
it is known, in the journal, among the compensations or in a process (`OneOfEach`), so
that clearing by id clears one record; and that, as long as the processes have not met,
one at a time works and finds at every step what it left there (`Alone`, with a part for
creations, deletions, compensations and recoveries): an exclusive Provider, for one, is
not there before `MakeProvider` nor after its undoing. What Codex writes disturbs none of
it. `ChatsAreKept` holds also when the processes meet. It needs that a process about to
remove a home has found no conversation in it, and that what was written since is late
(`Looked`): nothing but Codex writes conversations (`OnlyCodexWrites`), and there is no
way to the removal but through the check (`RemovalsAreChecked`). TLC checked
`IInv` first, with one fault and with three. `OperationsEnd` is only model-checked.

## 10. Keys and connections

`ProviderSecrets`: a key is an entry of `provider-credentials.json`, an old item of the
Keychain, or `auth.json` in the home of the account that owns the Provider. `Rotate`,
`Create`, `Delete`, `Update` and `EditAttached` are the application's commands, in the order of
their writes and compensations; `StartMigration` … `RemoveAuth` the migration that the
application and `lam codex` run at start; `Read` the sidecar, which copies into the file
what it finds only in the Keychain. Every change of the shared file is a load, a write
of a temporary file and a rename, by whoever works on it.

`provider_secrets`: a native and a plain Provider, two operations, one failure or crash,
two launches, one read. `KeysMatchProviders`: the key a Provider refers to is always
somewhere it can be taken from, and when nothing has failed every entry of the file is
the key of a Provider; `UpdateIsAllOrNothing`: when a connection update ends, everything
is new, or the key, the Provider and the config are as they were. `raced` marks
behaviours in which two processes changed a store at once, which loses entries. The keys
of Gateway bindings in the same file are those of section 6; the tightening of file modes
and approved auth commands are left out.

`ProviderSecretsProofs` proves `KeysMatchProviders` for any Providers and any numbers of
operations, launches, reads and failures, and `UpdateIsAllOrNothing` for at most one
failure (`MaxFaults <= 1`): the undoing of an update is not itself undone, and TLC finds
an update that stops in between when two steps fail. The invariant knows of the file that
whoever is rewriting it has seen what is in it (`FileIsSeen`, while nobody races or the
sidecar does not read); that no two Providers have the same key, that the entry to be
taken out is nobody's, and that a new one is there before the Provider refers to it
(`KeysAreKept`); of a migration, where the key it moves is at each place (`KeyIsKnown`:
in `auth.json` when it leaves the Keychain, in the Keychain when it leaves `auth.json`),
that the keys left are as it read them (`TodoIsKnown`), and that after the start of the
application the Keychain has no account's key any more, so that a `lam codex` which was
still reading finds nothing to move (`OneMigrates`); and of an update, how far the key,
the settings and the binding have come and whether a step has failed (`UpdateFits`).

## 11. Accounts

`AccountHomes`: a command is a list of steps over homes, scripts, notes, metadata and
`~/.codex`, and can fail or be cut short before each (`op`). `write_file_private` empties a
file before it writes: a write of credentials, notes or the timeline that fails or is cut
short may leave the file unreadable (`cut`, `torn`), also over one that was whole;
the files of `~/.codex` are replaced by a rename. `Look` is what an account looks like in
the list, the last four characters of its account id: several accounts may look the same,
and `Active` is shown only if one home matches. `Matched` is the search for
Codex processes by command line. The commands are synchronous and run on the main
thread, so one at a time; no journal tells what an interrupted one has done.

`account_homes`: two names, one a prefix of the other, three commands, two failures or
crashes, accounts of which the first two look the same, and the others with the user's own
login (`MCLook`). `AccountSurvives`: the credentials of an account that was added and not
deleted are whole and in one home, whatever fails or crashes in other commands, or in a
rename or a change of its session; only an upload of credentials over the account itself,
if it fails or is cut short, may destroy them. `SwitchIsWhole`: a switch reported as done
has put both files of the account in `~/.codex`, the list shows it as the one in use, or
none if another looks the same (`integration_pat_accounts.rs:347`), and its record is the
last and only open one, however the switches before it ended. `StartRepairsWrappers`: after a
start every account that LAM marked as its own has its script, wherever a rename was cut
short.

`AccountHomesProofs` proves all three, for any names and any numbers of commands and
failures. The invariant says which steps a command of each kind can have left and in
which order (`Fits`: a home is made or moved first, a rename sets its new mark before it
takes the old one away), that no two homes have the credentials of the same account, every
account that counts is whole in one, and one being added is new (`Accounts`), that a home marked as LAM's stays so through a rename cut short
(`Marks`), and how far a switch has come by what it has left (`Switches`). A command in
its middle has its home, which is why a failure needs no journal to be survived.

Left out: the cache of the list, the conversion of tokens and sessions, the directory
of the scripts, exports. Not prevented: a torn notes file blocks every listing and
start; renaming leaves the note and the metadata under the old name; a deletion that
fails after the home is gone cannot be repeated; a switch overwrites `~/.codex/auth.json`,
and a login refreshed there is lost; a failed switch mixes two accounts' files; adding
an account parses its date after the home is made, so a retry finds it taken.

## 12. Usage and sessions

`UsageEvents` is the pure half: what a log says, parsed whole or in pieces, and what the
page computes from it. `UsageIndex` has the refresh (`RefreshLists`, `RefreshPlans`,
`RefreshParses`, `RefreshApplies`, under `REFRESH_LOCK`), `Reset`, the deletion of sessions
(`DeleteBegins` … `DeleteIndexes`, with its rollback) and the relay, beside Codex, which
writes, names and archives between any two steps, leaves unfinished lines, and may be
within one tick of the clock.

A deletion sets its files aside one by one (`DeleteStages`). Where one cannot be moved,
those before it go back, each of them or not, and an error of that is dropped
(`DeleteUnstages`). Where a later step fails, `DeleteUndoes` puts any of the files back,
restores the names or does not, and reports what failed; the staging directory goes
either way, with the files that were not put back.

`usage_index`: two homes and two pieces of work, with either one session, whose logs are
written three times, or twice and moved or named once, or two sessions that are written
once (`MCBound` cuts the rest). Three writes are a first parse, an append, and one more
between two steps; two pieces of work let a refresh meet a deletion; with two sessions a
deletion can stop between two files.

- `FiguresMatchCalls`: the aggregates kept beside the calls are what the calls give,
  although only the touched parts are made again, and the page's figures agree.
- `PiecesMakeTheWhole`: parsing in pieces loses, repeats and misattributes nothing, as
  long as the log was only appended to.
- `SkippedIsComplete`: a log that will be skipped has been read to its last line, unless
  it grew between its parse and the commit.
- `DeletedLeavesNoGhost`: no refresh brings back the calls of a deleted log.
- `UndoneIsWhole`: a deletion that fails after its files were set
  aside, and is rolled back with no report beside its first error, had set aside all of
  them and puts each back as it was, with the names; every log the index knew is in it
  again in the end, if it is still there. The rollback goes on after an error of its own,
  so what it says in the end has to cover every file, and the refresh it starts runs beside
  whatever comes meanwhile.

`UsageProofs` proves the five for any numbers of homes, sessions, models, writes
and pieces of work. The invariant follows a log from the disk to its row. A file holds the last content
of its path and no stamp is ahead of the clock (`LogsFit`); what a deletion has staged is
off the disk, and after the last of its files all of them are (`JobFits`); a plan follows the row it was made by, and what is not planned
has a row (`PlansFit`), which lasts until the commit as everything that changes rows waits
for `REFRESH_LOCK`; a parse gives what its log says after the lines the plan skips, up to
some line, which is the last one if the file still has the stamp that was seen
(`ParsesFit`); a row's calls are those of its first `line` lines (`RowsFit`), all of
them if its stamp is the file's (`StampsFit`). `loose` and `raced` are the logs that were
rewritten, or grew between parse and commit: nothing is claimed of their calls. For the
aggregates the proof shows that a partition no touched call is in has the same calls
before and after, and that no two calls have one identifier (`OneCallEach`), on which the
links rest. The figures of the page are folds over the calls, of which there are finitely many
(`Finite`, an invariant of its own); what such a fold gives is proved by induction over
the size of its set. `NoGhost` adds to `DeletedLeavesNoGhost` that no deleted log is on the list
of a refresh. The assumption that `None` is no row and no content of a log is about the
model's own value.

Left out: prices and windows of time, rate limits, insights, the snapshot of the
account; listing and search; forks and the handoff of a relay. Not prevented: a relay
over a longer diverged target is read as an append; an archived log leaves the calls of
its old path; a crash during a deletion leaves staged files that nothing restores;
rewriting `session_index.jsonl` can lose a name Codex writes meanwhile; the thread list
hides a thread with any archived call; the diagnostics of a row are those of its last
piece.

## 13. Where the code and its documents disagree

Met while modelling. Where the statement has a name, it is a definition in the module,
kept as a description: TLC finds it violated, and no run checks it. The runs check what
holds, with these cases excepted by name.

| statement | module | what happens |
|---|---|---|
| `DetachRestoresAll` | `AttachTransaction` | attach, rebind to a provider that manages other keys, detach: a key that LAM wrote stays, or a value goes to another table, because the binding records what the first attach did (`provider_attach_transaction.rs:1101`); an application clears an authentication key of the user's that no detach restores (`provider_config_editor.rs:381`) |
| `RolledBackIsUndone` | `AttachTransaction` | the rename of the config succeeds and the sync of its directory fails: the attach is reported as rolled back, the config keeps LAM's values (`provider_config_editor.rs:264`) |
| `ManualNeedsForeignEdit` | `AttachTransaction` | recovery dies between its config write and its journal write: the next one does not know the text and gives the record up (`provider_attach_transaction.rs:1007`) |
| `CompletedLeavesNoCredential` | `AttachTransaction` | a crash between the commit of a revocation and the deletion of its credential: recovery returns early, the credential stays (`gateway/binding.rs:618`) |
| `PendingIsRetried` | `AttachTransaction` | a credential marked `revocation_pending` is never looked at again (`gateway/binding.rs:634`) |
| `OneCreditPerReset` | `QuotaReset` | over wham a timeout counts as a rejection, and the retry with a new id spends a second credit (`quota.rs:912`) |
| `SkippedIsRead` | `UsageIndex` | the size stored is that at the commit, not at the parse: a line appended in between is skipped until the log grows again (`usage.rs:2238`) |
| `UnstagedIsWhole` | `UsageIndex` | a file cannot be set aside, and one before it cannot be moved back: the log stays in the staging directory, and the error does not say so (`session.rs:661`) |
| `ActivityIsScoped` | `UsageIndex` | the activity queries ignore workspace and account (`usage.rs:2619`) |
| `AtMostOneTerminal` | `ResponseStream` | a frame after the last one in the same read: a second terminal event (`sse.rs:534`, `routes.rs:145`) |
| `FailureIsTold` | `ResponseStream` | the transport fails in an adapted stream: the body ends without an event (`routes.rs:896`); so it does after a text of more than `MAX_EVENT_CHANNEL_BYTES`, whose closing events and whose failure repeat it in one event that is dropped (`routes.rs:1036`) |
| `FollowUpIsServed` | `ResponseStream` | the follow-up overtakes the record of the turn's reasoning, or a call was of a custom tool, whose reasoning is not kept: the results are refused (`routes.rs:863`) |
| `OnlyGatewaysAreEnded` | `GatewayClaim` | the exit hook signals the pid of the state unverified (`supervisor.rs:148`) |
| `DeletionSparesOthers` | `AccountHomes` | deleting `c` ends the Codex of `c1`, whose path begins with it (`account.rs:786`) |
| `BoundProviderIsKept` | `ApiAccount` | the catalog fails after the attach committed: the compensation deletes the Provider of a bound account (`provider_api_v2.rs:4157`) |
| `NoChatIsRolledBack` | `ApiAccount` | the compensation checks that the account has no session, Codex writes one, the home is removed (`account.rs:489`, `:501`) |
| `LaunchableAfterDeletion` | `ApiAccount` | a deletion interrupted while the home goes: the recovery that attaches it again fails at every start (`provider_api_v2.rs:4003`) |
| `SecretIsReadByAll` | `ProviderSecrets` | two processes rewrite the credential file: the entry one of them added is lost (`credential_store.rs:50`) |

Without a definition of their own: after a rolled back rebind the config
has another layout than the binding recorded, so planning reports drift until the
profile is detached (`provider_api_v2.rs:4390`); an edit between the comparison of the
hash and the rename is overwritten (`provider_config_editor.rs:286`); the revocation of a
new binding after a failed config write is best effort
(`provider_attach_transaction.rs:532`), and a crash before the journal record exists
leaves a live binding nothing refers to (`:447`); recovery stops at the first error
(`:915`). A comment at `supervisor.rs:485` says that an orphan is terminated: only its
claim is cleared. A creation that crashes between `sessions/` and its marker is refused
by `rollback_created_account` at every start; a failed creation clears its record without
rollback; the recovery of a deletion removes an exclusive Provider that another account
uses by then (`provider_api_v2.rs:4034`); a detach by the user is undone by the recovery
of an abandoned deletion. Rotating the credential of a native API account makes the next
start read the Keychain, find nothing and abort (`:1536`); a crash between the deletion
of a Keychain item and the commit does the same (`:1577`); revoking removes only the
file's entry, and a later read brings the Keychain's copy back; a failed connection
update does not restore the model catalog; an edit of an attached Provider writes the
config before its hash (`:2262`). An upload of credentials over an account empties its `auth.json` first
(`account.rs:1373`, `types.rs:62`): if the write fails, or the application ends, the old
ones are gone. `docs/todo-session-direct-delete.md` says that
`session_index.jsonl` is not rewritten, and it is.

## 14. What is proved, what is only checked

`theorems` in `PROJECT.json` lists the results of TLAPS: nine about the attach transaction
(`AttachTransactionProofs`), five about quota (`UsageProofs`: three about resets, two
about reads), two about admission, two about the claim and three about tokens
(`GatewayProofs`), three about accounts (`AccountHomesProofs`), two about the move of the
port (`PortMigrationProofs`), three about API accounts (`ApiAccountProofs`), three about
keys (`ProviderSecretsProofs`), six about the usage index (`UsageProofs`) and three about
a request through the Gateway (`ResponseStreamProofs`). Each rests on an inductive invariant that
the section of its module describes, and on the named assumptions of the modules, which
TLC evaluates in the runs; `UpdatesAreWhole` has a hypothesis of its own.
None assumes anything about the numbers of actors or of values; bounds and limits of
retries are natural numbers.

The induction theorems of the library take an operator as a parameter, which the provers
cannot instantiate. Where a proof needs induction over data it goes through a set: the
numbers, or the subsets of a finite set, for which the claim holds (`HoldsAllNaturals`,
`HoldsAllSubsets`, from `WFMin`).

TLC alone covers liveness under fairness (`EveryOperationEnds`, `EveryRequestLeaves`,
`NeedIsMet`, `EveryLaunchSettles`, `StreamEnds`, `OperationsEnd`), which is beyond the
prover, and `ResultsAreServed` of `ResponseStream`, which holds of the requests that Codex
makes and is false of others (section 7).

## 15. Not modelled

- *Moving old directories* (`lam_paths.rs`, `provider_runtime.rs`): both `lam` and the
  application run it at start. A failed step is not repeated once `.lam/config` exists,
  so what it left behind is skipped for good; backups are pruned by count at each start.
- *Frontend stores* (`stores/*.ts`): state of the window, made anew at every start. Their
  overlapping requests are the readers of `QuotaReads`.
- *Antigravity, terminals, tray, exports, model discovery, views*: input and output with
  hardly any state that outlives a call.
- *Journal compaction and store limits*: nothing in the application calls `compact`; the
  journal grows up to the size limit of its store.
- The components listed as partly modelled in `PROJECT.json` name what each leaves out.

## 16. Next

The migration of model catalogs; which requests Codex makes, as an assumption from which
`ResultsAreServed` follows.
