---------------------------- MODULE ProviderSecrets ----------------------------
(* Where the key of a Provider is, and what changes a Provider in place.     *)
(* A key is an entry of provider-credentials.json (credential_store.rs), an  *)
(* item of the macOS Keychain from before that file (provider_keychain.rs),  *)
(* or auth.json in the home of the API account that owns the Provider        *)
(* (codex_api_key_auth.rs).  The application rotates, creates, deletes and   *)
(* edits; its start and `lam codex` migrate; the sidecar reads, and copies   *)
(* what it finds only in the Keychain into the file.                         *)
EXTENDS Naturals, FiniteSets

CONSTANTS Native,    \* Providers of API accounts: Responses, attached, direct
          Plain,     \* other Providers with a key
          None,
          Gone,      \* there is no such Provider
          Profile,   \* the key is in auth.json of the account that owns it
          MaxOps, MaxFaults, MaxLaunches, MaxReads   \* bounds of the model

ASSUME SecretsAssumption ==
  /\ Native \cap Plain = {} /\ None \notin Native \cup Plain
  /\ IsFiniteSet(Native \cup Plain)
  /\ {None, Gone, Profile} \cap Nat = {} /\ Profile \notin {None, Gone}
  /\ {MaxOps, MaxFaults, MaxLaunches, MaxReads} \subseteq Nat

Providers == Native \cup Plain

\* A key is the number of its entry: every key that is written gets a new one.
Keys == 1..(Cardinality(Providers) + MaxOps)

\* temp is None or a set of entries.
ASSUME NoFileAssumption == \A entries \in SUBSET Keys : entries # None

VARIABLES
  source,   \* of each Provider: the entry it refers to, Profile or Gone
  file,     \* the entries of provider-credentials.json
  temp,     \* the file it is replaced with, of which there is one name
  chain,    \* the items of the Keychain
  auth,     \* of each API account: the key in auth.json, or None
  url,      \* of each API account's Provider: its settings
  bound,    \* of each API account: the settings its config.toml is made for
  catalog,  \* of each API account: the settings its model catalog is made for
  synced,   \* the accounts whose config.toml has the hash of the binding
  proc,     \* the application, one `lam codex` and the sidecar
  current,  \* those whose last load or write of providers.json is the latest
  used,     \* how much of each bound is used up
  raced     \* two processes have changed the same store at once

stores == <<source, file, temp, chain, auth, url, bound, catalog, synced>>
vars == <<stores, proc, current, used, raced>>

Workers == {"app", "lam", "sidecar"}
Resting == {"idle", "down", "off"}

\* p, key, old: the Provider, the new and the old key; seen: the entries it
\* has read, edit: what it does to them, next, fail: where it goes after that;
\* todo: the Providers left to migrate; was: what it would restore.
Nothing == [add |-> {}, del |-> {}]
Worker(at) == [at |-> at, p |-> None, key |-> 0, old |-> Gone, seen |-> {},
               edit |-> Nothing, next |-> at, fail |-> at, todo |-> {},
               was |-> [auth |-> None, url |-> 0, bound |-> 0]]

Init ==
  LET first == CHOOSE f \in [Providers -> 1..Cardinality(Providers)] :
                 \A p, q \in Providers : f[p] = f[q] => p = q IN
  \E migrated \in SUBSET Native, stored \in SUBSET Plain :
    /\ source = [p \in Providers |-> IF p \in migrated THEN Profile ELSE first[p]]
    /\ file = {first[p] : p \in stored}
    /\ chain = {first[p] : p \in Providers \ (migrated \cup stored)}
    /\ auth = [p \in Native |-> IF p \in migrated THEN first[p] ELSE None]
    /\ temp = None
    /\ url = [p \in Native |-> 0] /\ bound = url /\ catalog = url
    /\ synced = Native
    /\ proc = [w \in Workers |-> Worker(IF w = "app" THEN "down" ELSE "off")]
    /\ current = {} /\ raced = FALSE
    /\ used = [ops |-> 0, faults |-> 0, launches |-> 0, reads |-> 0]

Use(what) == used' = [used EXCEPT ![what] = @ + 1]
Fault == used.faults < MaxFaults /\ Use("faults")

Rest(w) == IF w = "app" THEN "idle" ELSE "off"
Moved(w, at) == IF at \in Resting THEN Worker(at) ELSE [proc[w] EXCEPT !.at = at]
Go(w, at) == proc' = [proc EXCEPT ![w] = Moved(w, at)]
Stop(w) == Go(w, Rest(w))

\* A migration that fails ends the start of the application, or `lam codex`.
Abort(w) == Go(w, IF w = "app" THEN "down" ELSE "off")

Begin(w, record) == proc' = [proc EXCEPT ![w] = record]

\* Saves providers.json if nobody has saved it since the worker loaded it.
Save(w, p, value) ==
  /\ w \in current
  /\ source' = [source EXCEPT ![p] = value] /\ current' = {w}

-----------------------------------------------------------------------------
(* credential_store.rs: read all entries, write them to the temporary file,  *)
(* rename it.  No lock is held.                                              *)

Edit(record, add, del, next, fail) ==
  [record EXCEPT !.at = "load", !.edit = [add |-> add, del |-> del],
                 !.next = next, !.fail = fail]

LoadFile(w) ==
  /\ proc[w].at = "load"
  /\ proc' = [proc EXCEPT ![w].at = "temp", ![w].seen = file]
  /\ raced' = (raced \/ \E v \in Workers \ {w} : proc[v].at \in {"temp", "rename"})
  /\ UNCHANGED <<stores, current, used>>

WriteTemp(w) ==
  /\ proc[w].at = "temp"
  /\ \/ /\ temp' = (proc[w].seen \ proc[w].edit.del) \cup proc[w].edit.add
        /\ Go(w, "rename") /\ UNCHANGED used
     \/ Fault /\ Go(w, proc[w].fail) /\ UNCHANGED temp
  /\ UNCHANGED <<source, file, chain, auth, url, bound, catalog, synced, current, raced>>

\* Another worker may have renamed the only temporary file already.
Rename(w) ==
  /\ proc[w].at = "rename"
  /\ \/ /\ temp # None
        /\ file' = temp /\ temp' = None
        /\ Go(w, proc[w].next) /\ UNCHANGED used
     \/ /\ IF temp = None THEN UNCHANGED used ELSE Fault
        /\ Go(w, proc[w].fail) /\ UNCHANGED <<file, temp>>
  /\ UNCHANGED <<source, chain, auth, url, bound, catalog, synced, current, raced>>

-----------------------------------------------------------------------------
(* The application: one command at a time.                                   *)

At(step) == proc["app"].at = step
Mine == proc["app"]
Operation == At("idle") /\ used.ops < MaxOps /\ Use("ops")
NewKey == Cardinality(Providers) + used.ops + 1
Operating(p) == [Worker("idle") EXCEPT !.p = p, !.key = NewKey, !.old = source[p]]

\* The page's revision of providers.json, fresh or not.
Page(fresh) == current' = IF fresh THEN current \cup {"app"} ELSE current \ {"app"}

\* rotate_provider refuses a stale page before it writes the new key.
Rotate(p) ==
  /\ Operation /\ source[p] # Gone /\ Page(TRUE)
  /\ Begin("app", Edit(Operating(p), {NewKey}, {}, "repoint", "idle"))
  /\ UNCHANGED <<stores, raced>>

\* create_provider_with_keychain writes the key before the page is compared.
Create(p) ==
  /\ Operation /\ source[p] = Gone /\ \E fresh \in BOOLEAN : Page(fresh)
  /\ Begin("app", Edit(Operating(p), {NewKey}, {}, "repoint", "idle"))
  /\ UNCHANGED <<stores, raced>>

\* The new reference is saved; the old key's entry goes, as far as it can, or
\* the new one's when providers.json has changed or cannot be written.
Repoint ==
  /\ At("repoint")
  /\ \/ /\ source[Mine.p] = Mine.old /\ Save("app", Mine.p, Mine.key)
        /\ UNCHANGED used
        /\ IF Mine.old \in {Gone, Profile} THEN Stop("app")
           ELSE Begin("app", Edit(Mine, {}, {Mine.old}, "idle", "idle"))
     \/ /\ IF source[Mine.p] = Mine.old /\ "app" \in current THEN Fault ELSE UNCHANGED used
        /\ Begin("app", Edit(Mine, {}, {Mine.key}, "idle", "idle"))
        /\ UNCHANGED <<source, current>>
  /\ UNCHANGED <<file, temp, chain, auth, url, bound, catalog, synced, raced>>

\* Only a Provider that no account uses is deleted.
Delete(p) ==
  /\ Operation /\ source[p] # Gone
  /\ source' = [source EXCEPT ![p] = Gone] /\ current' = {"app"}
  /\ Begin("app", Edit(Operating(p), {}, {source[p]}, "idle", "idle"))
  /\ UNCHANGED <<file, temp, chain, auth, url, bound, catalog, synced, raced>>

-----------------------------------------------------------------------------
(* update_api_account_connection: new settings, and a new key or none.       *)

Update(p) ==
  /\ Operation /\ source[p] = Profile /\ Page(TRUE)
  /\ \E key \in {NewKey, auth[p]} :
       Begin("app", [Worker("refresh") EXCEPT !.p = p, !.key = key,
         !.was = [auth |-> auth[p], url |-> url[p], bound |-> bound[p]]])
  /\ UNCHANGED <<stores, raced>>

\* The user's own edits of config.toml are adopted first.
Refresh ==
  /\ At("refresh")
  /\ \/ /\ synced' = synced \cup {Mine.p}
        /\ Go("app", IF Mine.key = Mine.was.auth THEN "save" ELSE "stage")
        /\ UNCHANGED used
     \/ Fault /\ Stop("app") /\ UNCHANGED synced
  /\ UNCHANGED <<source, file, temp, chain, auth, url, bound, catalog, current, raced>>

StageKey ==
  /\ At("stage")
  /\ \/ /\ auth[Mine.p] # None
        /\ auth' = [auth EXCEPT ![Mine.p] = Mine.key]
        /\ Go("app", "save") /\ UNCHANGED used
     \/ /\ IF auth[Mine.p] # None THEN Fault ELSE UNCHANGED used
        /\ Stop("app") /\ UNCHANGED auth
  /\ UNCHANGED <<source, file, temp, chain, url, bound, catalog, synced, current, raced>>

NewSettings == Mine.was.url + 1

SaveSettings ==
  /\ At("save")
  /\ \/ /\ "app" \in current /\ current' = {"app"}
        /\ url' = [url EXCEPT ![Mine.p] = NewSettings]
        /\ Go("app", "rebind") /\ UNCHANGED used
     \/ /\ IF "app" \in current THEN Fault ELSE UNCHANGED used
        /\ Go("app", "restore key") /\ UNCHANGED <<url, current>>
  /\ UNCHANGED <<source, file, temp, chain, auth, bound, catalog, synced, raced>>

\* rebind_api_account: the attach transaction, which compares the hash of
\* config.toml; the model catalog is written before it.
Rebound(w, p) ==
  /\ p \in synced
  /\ bound' = [bound EXCEPT ![p] = url[p]] /\ catalog' = [catalog EXCEPT ![p] = url[p]]
NotRebound(p) ==
  /\ IF p \in synced THEN Fault ELSE UNCHANGED used
  /\ catalog' \in {catalog, [catalog EXCEPT ![p] = url[p]]}
  /\ UNCHANGED bound

Rebind ==
  /\ At("rebind")
  /\ \/ Rebound("app", Mine.p) /\ Stop("app") /\ UNCHANGED used
     \/ NotRebound(Mine.p) /\ Go("app", "unsave")
  /\ UNCHANGED <<source, file, temp, chain, auth, url, synced, current, raced>>

\* The mutant of UnsaveSettings: the old settings with the new key.
UnsaveKeepsKey ==
  /\ At("unsave") /\ Stop("app")
  /\ \/ /\ "app" \in current /\ current' = {"app"}
        /\ url' = [url EXCEPT ![Mine.p] = Mine.was.url] /\ UNCHANGED used
     \/ /\ IF "app" \in current THEN Fault ELSE UNCHANGED used
        /\ UNCHANGED <<url, current>>
  /\ UNCHANGED <<source, file, temp, chain, auth, bound, catalog, synced, raced>>

\* When the old settings cannot be saved the old key is not restored either.
UnsaveSettings ==
  /\ At("unsave")
  /\ \/ /\ "app" \in current /\ current' = {"app"}
        /\ url' = [url EXCEPT ![Mine.p] = Mine.was.url]
        /\ Go("app", "restore key") /\ UNCHANGED used
     \/ /\ IF "app" \in current THEN Fault ELSE UNCHANGED used
        /\ Stop("app") /\ UNCHANGED <<url, current>>
  /\ UNCHANGED <<source, file, temp, chain, auth, bound, catalog, synced, raced>>

RestoreKey ==
  /\ At("restore key")
  /\ \/ auth' = [auth EXCEPT ![Mine.p] = Mine.was.auth] /\ UNCHANGED used
     \/ Mine.key # Mine.was.auth /\ Fault /\ UNCHANGED auth
  /\ Stop("app")
  /\ UNCHANGED <<source, file, temp, chain, url, bound, catalog, synced, current, raced>>

-----------------------------------------------------------------------------
(* update_provider of a Provider in use: the context window or the reasoning *)
(* effort; config.toml is written again, then the hash in the binding.       *)

EditAttached(p) ==
  /\ Operation /\ source[p] # Gone
  /\ url' = [url EXCEPT ![p] = @ + 1] /\ current' = {"app"}
  /\ Begin("app", [Worker("reproject") EXCEPT !.p = p])
  /\ UNCHANGED <<source, file, temp, chain, auth, bound, catalog, synced, raced>>

WriteConfig ==
  /\ At("reproject")
  /\ \/ /\ bound' = [bound EXCEPT ![Mine.p] = url[Mine.p]] /\ synced' = synced \ {Mine.p}
        /\ Go("app", "hash") /\ UNCHANGED used
     \/ Fault /\ Stop("app") /\ UNCHANGED <<bound, synced>>
  /\ UNCHANGED <<source, file, temp, chain, auth, url, catalog, current, raced>>

SaveHash ==
  /\ At("hash") /\ Stop("app")
  /\ \/ synced' = synced \cup {Mine.p} /\ UNCHANGED used
     \/ Fault /\ UNCHANGED synced
  /\ UNCHANGED <<source, file, temp, chain, auth, url, bound, catalog, current, raced>>

\* In the middle of an operation an edit counts as its one failure.
UserEdits(p) ==
  /\ p \in synced /\ synced' = synced \ {p}
  /\ IF \E w \in {"app", "lam"} : proc[w].at \notin Resting THEN Fault ELSE UNCHANGED used
  /\ UNCHANGED <<source, file, temp, chain, auth, url, bound, catalog, proc, current, raced>>

-----------------------------------------------------------------------------
(* migrate_native_responses_bindings: the start of the application and every *)
(* `lam codex` move the keys of API accounts from the Keychain to auth.json. *)

StartMigration(w) ==
  /\ w \in {"app", "lam"} /\ proc[w].at \in {"down", "off"}
  /\ used.launches < MaxLaunches /\ Use("launches")
  /\ synced' = Native
  /\ Begin(w, [Worker("next") EXCEPT !.todo =
       {[p |-> p, key |-> source[p]] : p \in {q \in Native : source[q] # Profile}}])
  /\ raced' = (raced \/ \E v \in {"app", "lam"} \ {w} : proc[v].at \notin Resting)
  /\ UNCHANGED <<source, file, temp, chain, auth, url, bound, catalog, current>>

\* The Keychain is read itself, not the file; after the last key the model
\* catalogs of the accounts are written.
SyncCatalogs == catalog' = url

NextKey(w) ==
  /\ proc[w].at = "next"
  /\ \/ /\ proc[w].todo = {}
        /\ SyncCatalogs /\ Stop(w)
     \/ \E item \in proc[w].todo :
          /\ UNCHANGED catalog
          /\ IF item.key \in chain
             THEN Begin(w, [proc[w] EXCEPT !.at = "write auth", !.p = item.p,
                    !.key = item.key, !.todo = @ \ {item}])
             ELSE Abort(w)
  /\ UNCHANGED <<source, file, temp, chain, auth, url, bound, synced, current, used, raced>>

WriteAuth(w) ==
  /\ proc[w].at = "write auth"
  /\ \/ /\ auth' = [auth EXCEPT ![proc[w].p] = proc[w].key]
        /\ Go(w, "delete item") /\ UNCHANGED used
     \/ Fault /\ Abort(w) /\ UNCHANGED auth
  /\ UNCHANGED <<source, file, temp, chain, url, bound, catalog, synced, current, raced>>

DeleteItem(w) ==
  /\ proc[w].at = "delete item"
  /\ \/ /\ proc[w].key \in chain /\ chain' = chain \ {proc[w].key}
        /\ Go(w, "adopt") /\ UNCHANGED used
     \/ /\ IF proc[w].key \in chain THEN Fault ELSE UNCHANGED used
        /\ Go(w, "remove auth") /\ UNCHANGED chain
  /\ UNCHANGED <<source, file, temp, auth, url, bound, catalog, synced, current, raced>>

\* replace_provider_credential loads providers.json itself.
Adopt(w) ==
  /\ proc[w].at = "adopt"
  /\ \/ /\ source[proc[w].p] = proc[w].key
        /\ source' = [source EXCEPT ![proc[w].p] = Profile] /\ current' = {w}
        /\ Go(w, "rebind native") /\ UNCHANGED used
     \/ /\ IF source[proc[w].p] = proc[w].key THEN Fault ELSE UNCHANGED used
        /\ Go(w, "restore item") /\ UNCHANGED <<source, current>>
  /\ UNCHANGED <<file, temp, chain, auth, url, bound, catalog, synced, raced>>

RebindNative(w) ==
  /\ proc[w].at = "rebind native"
  /\ \/ Rebound(w, proc[w].p) /\ Go(w, "next") /\ UNCHANGED used
     \/ NotRebound(proc[w].p) /\ Go(w, "disown")
  /\ UNCHANGED <<source, file, temp, chain, auth, url, synced, current, raced>>

Disown(w) ==
  /\ proc[w].at = "disown"
  /\ \/ /\ source[proc[w].p] = Profile
        /\ source' = [source EXCEPT ![proc[w].p] = proc[w].key] /\ current' = {w}
        /\ Go(w, "restore item") /\ UNCHANGED used
     \/ /\ IF source[proc[w].p] = Profile THEN Fault ELSE UNCHANGED used
        /\ Abort(w) /\ UNCHANGED <<source, current>>
  /\ UNCHANGED <<file, temp, chain, auth, url, bound, catalog, synced, raced>>

\* The mutant of RestoreItem.
RestoreNothing(w) ==
  /\ proc[w].at = "restore item" /\ Go(w, "remove auth")
  /\ UNCHANGED <<stores, current, used, raced>>

RestoreItem(w) ==
  /\ proc[w].at = "restore item"
  /\ \/ chain' = chain \cup {proc[w].key} /\ Go(w, "remove auth") /\ UNCHANGED used
     \/ Fault /\ Abort(w) /\ UNCHANGED chain
  /\ UNCHANGED <<source, file, temp, auth, url, bound, catalog, synced, current, raced>>

RemoveAuth(w) ==
  /\ proc[w].at = "remove auth" /\ Abort(w)
  /\ \/ auth' = [auth EXCEPT ![proc[w].p] = None] /\ UNCHANGED used
     \/ Fault /\ UNCHANGED auth
  /\ UNCHANGED <<source, file, temp, chain, url, bound, catalog, synced, current, raced>>

-----------------------------------------------------------------------------
(* The sidecar: with_secret copies a key that is only in the Keychain.       *)

Read(p) ==
  /\ proc["sidecar"].at = "off"
  /\ used.reads < MaxReads /\ Use("reads")
  /\ source[p] \in chain \ file
  /\ Begin("sidecar", Edit([Worker("off") EXCEPT !.p = p], {source[p]}, {}, "off", "off"))
  /\ UNCHANGED <<stores, current, raced>>

\* A process ends at any step; the sidecar ends with the application.
Crash(w) ==
  /\ proc[w].at \notin {"down", "off"} /\ Fault
  /\ proc' = [v \in Workers |-> IF v = w
                THEN Worker(IF v = "app" THEN "down" ELSE "off") ELSE proc[v]]
  /\ UNCHANGED <<stores, current, raced>>

Next ==
  \/ \E p \in Providers : Rotate(p)
  \/ \E p \in Plain : Create(p) \/ Delete(p) \/ Read(p)
  \/ \E p \in Native : Update(p) \/ EditAttached(p) \/ UserEdits(p)
  \/ Repoint \/ Refresh \/ StageKey \/ SaveSettings \/ Rebind
  \/ UnsaveSettings \/ RestoreKey \/ WriteConfig \/ SaveHash
  \/ \E w \in Workers :
       \/ LoadFile(w) \/ WriteTemp(w) \/ Rename(w) \/ Crash(w)
       \/ StartMigration(w) \/ NextKey(w) \/ WriteAuth(w) \/ DeleteItem(w)
       \/ Adopt(w) \/ RebindNative(w) \/ Disown(w) \/ RestoreItem(w) \/ RemoveAuth(w)

Spec == Init /\ [][Next]_vars

-----------------------------------------------------------------------------
TypeOK ==
  /\ source \in [Providers -> Keys \cup {Profile, Gone}]
  /\ file \subseteq Keys /\ (temp = None \/ temp \subseteq Keys) /\ chain \subseteq Keys
  /\ auth \in [Native -> Keys \cup {None}] /\ synced \subseteq Native
  /\ url \in [Native -> Nat] /\ bound \in [Native -> Nat] /\ catalog \in [Native -> Nat]
  /\ current \subseteq Workers /\ raced \in BOOLEAN

\* The key a Provider refers to is always somewhere it can be taken from: in
\* the file, in the Keychain, or, when its account is being migrated, in
\* auth.json.  No failure or crash at any step of any operation changes that.
Somewhere(p) ==
  \/ source[p] = Gone
  \/ source[p] = Profile /\ auth[p] # None
  \/ source[p] \in file \cup chain
  \/ p \in Native /\ source[p] = auth[p]
SecretSurvives == TypeOK /\ (~raced => \A p \in Providers : Somewhere(p))

\* "a secret written by one is read by all" (credential_store.rs): also when
\* the sidecar copies a key while the application stores another one.
SecretIsReadByAll ==
  \A p \in Plain : proc["app"].at = "idle" => Somewhere(p)

\* Of a connection update either everything is new when it ends or everything
\* is as it was: the key Codex sends, the Provider and config.toml agree, also
\* when one of its steps fails.
Updating == {"refresh", "stage", "save", "rebind", "unsave", "restore key"}
UpdateIsAllOrNothing ==
  [][At("idle")' /\ proc["app"].at \in Updating /\ ~raced =>
       LET p == proc["app"].p  was == proc["app"].was IN
       \/ auth'[p] = proc["app"].key /\ url'[p] = was.url + 1
            /\ bound'[p] = url'[p] /\ catalog'[p] = url'[p]
       \/ auth'[p] = was.auth /\ url'[p] = was.url /\ bound'[p] = was.bound]_vars

\* When nothing has failed, every entry of the file is the key of a Provider:
\* rotations, creations from a stale page and deletions take out what they
\* put in or replace.
NoStraySecret ==
  (used.faults = 0 /\ used.reads = 0 /\ \A w \in Workers : proc[w].at \in Resting)
    => \A key \in file : \E p \in Providers : source[p] = key

\* No Provider without its key, no key without its Provider.
KeysMatchProviders == SecretSurvives /\ NoStraySecret
=============================================================================
