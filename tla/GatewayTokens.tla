----------------------------- MODULE GatewayTokens -----------------------------
(* The tokens Codex presents to the Gateway (gateway/binding.rs): a binding in *)
(* gateway-bindings.json holds the hash of its token, the token itself is in   *)
(* the credential store.  The service changes both without holding the         *)
(* installation lock, with a compare-and-swap on the store's revision; the     *)
(* attach transaction changes both under the lock, which it holds from its     *)
(* first read to its end (storage.rs).  No caller sets an expiry.              *)
EXTENDS Naturals, FiniteSets

CONSTANTS Workers,   \* the threads and processes that change bindings
          Profiles, Ids, Ops,
          Nil,
          MaxRev, MaxFaults   \* bounds: revisions of the store, failures

ASSUME TokensAssumption ==
  Nil \notin Workers \cup Profiles \cup Ids \cup Ops /\ {MaxRev, MaxFaults} \subseteq Nat

VARIABLES
  holder,    \* who holds the installation lock exclusively for several steps
  store,     \* gateway-bindings.json: its revision and the bindings
  secrets,   \* the bindings whose token is in the credential store
  proc,      \* of each worker: what it does
  faults,
  unsure,    \* bindings stored by a commit that was reported as failed
  spoiled    \* bindings whose cleaning up failed or was cut short

tokenVars == <<holder, store, secrets, proc, faults, unsure, spoiled>>

TokenBindings == [id : Ids, profile : Profiles, generation : 1..MaxRev,
             op : Ops \cup {Nil}, revoked : BOOLEAN, pending : BOOLEAN]

\* Nil is none of the values it stands beside.
ASSUME NoneIsNoBinding == Nil \notin TokenBindings

\* base: the snapshot it has read; new, old: the binding it adds and the one
\* it revokes.
NoWork == [at |-> "idle", base |-> {}, rev |-> 0, new |-> Nil, old |-> Nil]

TokensInit ==
  /\ holder = Nil
  /\ store = [rev |-> 0, bindings |-> {}]
  /\ secrets = {}
  /\ proc = [w \in Workers |-> NoWork]
  /\ faults = 0 /\ unsure = {} /\ spoiled = {}

Fault == faults < MaxFaults /\ faults' = faults + 1
NoFault == UNCHANGED faults

Shared == holder = Nil                  \* flock(LOCK_SH) is granted
Exclusive(w) == holder \in {Nil, w}     \* ... and flock(LOCK_EX)

AcquireLock(w) ==
  /\ holder = Nil /\ proc[w].at = "idle"
  /\ holder' = w
  /\ UNCHANGED <<store, secrets, proc, faults, unsure, spoiled>>

ReleaseLock(w) ==
  /\ holder = w /\ proc[w].at = "idle"
  /\ holder' = Nil
  /\ UNCHANGED <<store, secrets, proc, faults, unsure, spoiled>>

InStore(i) == \E b \in store.bindings : b.id = i
Adds(w, i) == proc[w].new # Nil /\ proc[w].new.id = i
Drawn == {i \in Ids : \E w \in Workers : Adds(w, i)}
\* Uuid::new_v4: an identifier that is nowhere yet.
Fresh(i) == ~InStore(i) /\ i \notin secrets \cup Drawn

NextGeneration(p) ==
  LET taken == {b.generation : b \in {c \in store.bindings : c.profile = p}} IN
  IF taken = {} THEN 1 ELSE 1 + CHOOSE g \in taken : \A h \in taken : h <= g

Candidate(i, p, g, o) ==
  [id |-> i, profile |-> p, generation |-> g, op |-> o, revoked |-> FALSE, pending |-> FALSE]

Start(w, at, new, old) ==
  /\ proc[w].at = "idle" /\ store.rev < MaxRev
  /\ proc' = [proc EXCEPT ![w] = [at |-> at, base |-> store.bindings, rev |-> store.rev,
                                  new |-> new, old |-> old]]
  /\ UNCHANGED <<holder, store, secrets, faults, unsure, spoiled>>

LiveOf(p) == {b \in store.bindings : b.profile = p /\ ~b.revoked}

\* A call whose expected revision is not the store's changes nothing.
Provision(w) ==
  \E i \in Ids, p \in Profiles :
    /\ Shared /\ Fresh(i)
    /\ LiveOf(p) = {}
    /\ Start(w, "write", Candidate(i, p, NextGeneration(p), Nil), Nil)

Rotate(w) ==
  \E i \in Ids, b \in store.bindings :
    /\ Shared /\ Fresh(i)
    /\ ~b.revoked /\ b.generation < MaxRev
    /\ Start(w, "write", Candidate(i, b.profile, b.generation + 1, Nil), b.id)

\* One that is revoked is left as it is.
Revoke(w) ==
  \E b \in store.bindings :
    Shared /\ ~b.revoked /\ Start(w, "commit", Nil, b.id)

\* An operation that has a candidate gets that one again.
PrepareCandidate(w) ==
  \E i \in Ids, p \in Profiles, o \in Ops :
    /\ Shared /\ Fresh(i)
    /\ \A b \in store.bindings : b.op # o
    /\ Start(w, "write", Candidate(i, p, NextGeneration(p), o), Nil)

\* Every attach draws a new operation, while the identifier is the plan's: a
\* plan that failed may be executed again, and its identifier is taken then.
PrepareLocked(w) ==
  \E i \in Ids, p \in Profiles, o \in Ops :
    /\ holder = w
    /\ \A b \in store.bindings : b.op # o
    /\ ~InStore(i) /\ i \notin Drawn
    /\ Start(w, "write", Candidate(i, p, NextGeneration(p), o), Nil)

RevokeLocked(w) ==
  \E b \in store.bindings :
    holder = w /\ (b.revoked => b.pending) /\ Start(w, "commit", Nil, b.id)

Go(w, at) == proc' = [proc EXCEPT ![w] = IF at = "idle" THEN NoWork ELSE [@ EXCEPT !.at = at]]

WriteSecret(w) ==
  /\ proc[w].at = "write"
  /\ \/ /\ NoFault
        /\ secrets' = secrets \cup {proc[w].new.id}
        /\ Go(w, "commit")
     \/ Fault /\ UNCHANGED secrets /\ Go(w, "idle")
  /\ UNCHANGED <<holder, store, unsure, spoiled>>

\* What is written is the snapshot that was read, with the old binding revoked
\* and the new one added.
Edited(q) ==
  {IF b.id = q.old THEN [b EXCEPT !.revoked = TRUE] ELSE b : b \in q.base}
    \cup (IF q.new = Nil THEN {} ELSE {q.new})

\* The mutant of Current: any revision is accepted.
AnyRevision(w) == store.rev >= proc[w].rev

Current(w) == store.rev = proc[w].rev
Swap(value) == store' = [rev |-> store.rev + 1, bindings |-> value]

AfterCommit(w) == IF proc[w].old = Nil THEN "idle" ELSE "revoke"
AfterRefusal(w) == IF proc[w].new = Nil THEN "idle" ELSE "unwind"

Commit(w) ==
  /\ proc[w].at = "commit" /\ Exclusive(w)
  /\ Current(w)
  /\ NoFault
  /\ Swap(Edited(proc[w]))
  /\ proc' = [proc EXCEPT ![w] =
       IF AfterCommit(w) = "idle" THEN NoWork
       ELSE [@ EXCEPT !.at = "revoke", !.rev = store.rev + 1, !.base = store'.bindings]]
  /\ UNCHANGED <<holder, secrets, unsure, spoiled>>

\* The revision has moved on, the lock was not to be had for five seconds, or
\* the file was not replaced.
CommitRefused(w) ==
  /\ proc[w].at = "commit"
  /\ \/ ~Exclusive(w) /\ NoFault
     \/ Exclusive(w) /\ ~Current(w) /\ NoFault
     \/ Exclusive(w) /\ Fault
  /\ Go(w, AfterRefusal(w))
  /\ UNCHANGED <<holder, store, secrets, unsure, spoiled>>

\* The file was replaced, and syncing its directory failed.
CommitUnsynced(w) ==
  /\ proc[w].at = "commit" /\ Exclusive(w) /\ Current(w)
  /\ Fault
  /\ Swap(Edited(proc[w]))
  /\ unsure' = unsure \cup {i \in Ids : Adds(w, i)}
  /\ spoiled' = spoiled \cup {i \in Ids : proc[w].old = i}
  /\ Go(w, AfterRefusal(w))
  /\ UNCHANGED <<holder, secrets>>

\* The mutant of Unwind: the error is returned at once.
UnwindNothing(w) ==
  /\ proc[w].at = "unwind" /\ Go(w, "idle")
  /\ UNCHANGED <<holder, store, secrets, faults, unsure, spoiled>>

\* let _ = self.credentials.revoke(..)
Unwind(w) ==
  /\ proc[w].at = "unwind"
  /\ \/ NoFault /\ secrets' = secrets \ {proc[w].new.id} /\ UNCHANGED spoiled
     \/ Fault /\ spoiled' = spoiled \cup {proc[w].new.id} /\ UNCHANGED secrets
  /\ Go(w, "idle")
  /\ UNCHANGED <<holder, store, unsure>>

RevokeOld(w) ==
  /\ proc[w].at = "revoke"
  /\ \/ NoFault /\ secrets' = secrets \ {proc[w].old} /\ Go(w, "idle")
     \/ Fault /\ UNCHANGED secrets /\ Go(w, "mark")
  /\ UNCHANGED <<holder, store, unsure, spoiled>>

\* mark_revocation_pending, which checks the revision when it loads and when
\* it writes: the second check implies the first.
MarkPending(w) ==
  /\ proc[w].at = "mark" /\ Exclusive(w)
  /\ Current(w) /\ NoFault
  /\ Swap({IF b.id = proc[w].old THEN [b EXCEPT !.pending = TRUE] ELSE b
             : b \in proc[w].base})
  /\ Go(w, "idle")
  /\ UNCHANGED <<holder, secrets, unsure, spoiled>>

MarkRefused(w) ==
  /\ proc[w].at = "mark"
  /\ \/ ~(Exclusive(w) /\ Current(w)) /\ NoFault
     \/ Fault
  /\ spoiled' = spoiled \cup {proc[w].old}
  /\ Go(w, "idle")
  /\ UNCHANGED <<holder, store, secrets, unsure>>

\* The kernel releases the lock of a process that ends.
Die(w) ==
  /\ proc[w].at # "idle" /\ Fault
  /\ holder' = IF holder = w THEN Nil ELSE holder
  /\ spoiled' = spoiled \cup {i \in Ids : Adds(w, i) \/ proc[w].old = i}
  /\ Go(w, "idle")
  /\ UNCHANGED <<store, secrets, unsure>>

TokensNext ==
  \E w \in Workers :
    \/ AcquireLock(w) \/ ReleaseLock(w)
    \/ Provision(w) \/ Rotate(w) \/ Revoke(w) \/ PrepareCandidate(w)
    \/ PrepareLocked(w) \/ RevokeLocked(w)
    \/ WriteSecret(w) \/ Commit(w) \/ CommitRefused(w) \/ CommitUnsynced(w)
    \/ Unwind(w) \/ RevokeOld(w) \/ MarkPending(w) \/ MarkRefused(w)
    \/ Die(w)

TokensSpec == TokensInit /\ [][TokensNext]_tokenVars
-------------------------------------------------------------------------------
\* authenticate: the token of the binding is accepted.
AcceptsToken(b) == ~b.revoked /\ ~b.pending

\* token_for_helper: what lam-auth-helper and `lam codex` get for a binding.
Serves(b, p) == b.profile = p /\ AcceptsToken(b) /\ b.id \in secrets

TokensTypeOK ==
  /\ holder \in Workers \cup {Nil}
  /\ store.rev \in 0..(2 * MaxRev) /\ store.bindings \subseteq TokenBindings
  /\ secrets \cup unsure \cup spoiled \subseteq Ids
  /\ \A w \in Workers :
       /\ proc[w].at \in {"idle", "write", "commit", "unwind", "revoke", "mark"}
       /\ proc[w].base \subseteq TokenBindings
       /\ proc[w].new \in TokenBindings \cup {Nil} /\ proc[w].old \in Ids \cup {Nil}

\* A binding the Gateway would accept has its token, so that Codex can present
\* it: the token is written before the binding is committed, and the old one
\* goes only after the new one is there.  The exception is a commit whose
\* directory could not be synced: its token is removed though the binding is
\* stored.  The model keeps that case apart in unsure.
LiveBindingHasToken ==
  \A b \in store.bindings : AcceptsToken(b) => Serves(b, b.profile) \/ b.id \in unsure

\* A token in the credential store belongs to a live binding, to one that is
\* marked as awaiting its revocation, or to a call that is under way: a call
\* that fails takes its token back, one that succeeds removes the old token or
\* marks it.  What a second failure or the end of a process leaves is not
\* known to any store; the model keeps it apart in spoiled.
NoStrayToken ==
  /\ TokensTypeOK
  /\ \A i \in secrets \ spoiled :
       \/ \E b \in store.bindings : b.id = i /\ (~b.revoked \/ b.pending)
       \/ \E w \in Workers : Adds(w, i) /\ proc[w].at \in {"commit", "unwind"}
       \/ \E w \in Workers : proc[w].old = i /\ proc[w].at \in {"revoke", "mark"}

\* The credential store and the binding store fit together.
TokensMatchBindings == LiveBindingHasToken /\ NoStrayToken

\* No call undoes what another has stored: bindings are never dropped, a
\* revoked one never comes back, and a mark stays.  Every call writes the whole
\* collection as it read it, so this rests on the revision check.
NothingIsUndone ==
  [][\A b \in store.bindings : \E c \in store'.bindings :
       /\ c.id = b.id /\ c.profile = b.profile /\ c.generation = b.generation
       /\ (b.revoked => c.revoked) /\ (b.pending => c.pending)]_tokenVars

\* Checked against one state of the store and carried out on a later one, every
\* call takes effect at once all the same (BindingRegister): what it checked
\* still holds when the store takes its write.
Register == INSTANCE BindingRegister WITH bindings <- store.bindings
CallsTakeEffectAtOnce == Register!RegisterSpec
===============================================================================
