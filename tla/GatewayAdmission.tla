--------------------------- MODULE GatewayAdmission ---------------------------
(* Admission of requests by the Gateway's server (gateway/server.rs): how    *)
(* dispatch takes a permit of the request's binding and a global one, or     *)
(* queues for them, while other requests do the same on other threads.       *)
EXTENDS Naturals, FiniteSets, Sequences

CONSTANTS Requests, Bindings,
          BindingOf,               \* the binding a request authenticates as
          MaxInflight, MaxInflightPerBinding,
          MaxQueue, MaxQueuePerBinding,
          Global                   \* what the global limits are counted for

ASSUME AdmissionAssumption ==
  /\ BindingOf \in [Requests -> Bindings]
  /\ Global \notin Bindings /\ IsFiniteSet(Requests)
  /\ MaxInflight \in Nat \ {0} /\ MaxInflightPerBinding \in Nat \ {0}
  /\ MaxQueue \in Nat /\ MaxQueuePerBinding \in Nat

Pools == Bindings \cup {Global}

VARIABLES
  pc,       \* where the future of each request is
  free,     \* the permits of each semaphore that nobody has
  waiters,  \* the requests that wait for a permit of it, in their order
  granted,  \* those that were given one and have not been polled since
  queued    \* the counters of queued requests

admissionVars == <<pc, free, waiters, granted, queued>>
semaphores == <<free, waiters, granted>>

Permits(pool) == IF pool = Global THEN MaxInflight ELSE MaxInflightPerBinding
Places(pool) == IF pool = Global THEN MaxQueue ELSE MaxQueuePerBinding

QueuedOrderGlobalFirst(r) == <<Global, BindingOf[r]>>

\* The order in which a queued request waits for its permits: a request that
\* waits for its binding keeps nothing from the others.
QueuedOrder(r) == <<BindingOf[r], Global>>

At(r, step) == pc[r] = step
GoTo(r, step) == pc' = [pc EXCEPT ![r] = step]

AdmissionInit ==
  /\ pc = [r \in Requests |-> "new"]
  /\ free = [pool \in Pools |-> Permits(pool)]
  /\ waiters = [pool \in Pools |-> <<>>]
  /\ granted = [pool \in Pools |-> {}]
  /\ queued = [pool \in Pools |-> 0]
-----------------------------------------------------------------------------
(* External: tokio's semaphore.  A permit that comes back goes to the first  *)
(* waiter, so there are free ones only when nobody waits.                    *)

Take(pool) ==
  /\ free[pool] > 0
  /\ free' = [free EXCEPT ![pool] = @ - 1]
  /\ UNCHANGED <<waiters, granted>>

\* A permit comes back, from the given requests if it was on its way to them.
GiveBack(pool, from) ==
  IF waiters[pool] = <<>>
  THEN /\ free' = [free EXCEPT ![pool] = @ + 1]
       /\ granted' = [granted EXCEPT ![pool] = @ \ from]
       /\ UNCHANGED waiters
  ELSE /\ granted' = [granted EXCEPT ![pool] = (@ \ from) \cup {Head(waiters[pool])}]
       /\ waiters' = [waiters EXCEPT ![pool] = Tail(@)]
       /\ UNCHANGED free

Wait(r, pool) ==
  /\ free[pool] = 0
  /\ waiters' = [waiters EXCEPT ![pool] = Append(@, r)]
  /\ UNCHANGED <<free, granted>>

\* Those who wait, in their order, without r, which waits once.
Without(line, r) ==
  LET i == CHOOSE i \in DOMAIN line : line[i] = r
  IN [j \in 1..(Len(line) - 1) |-> IF j < i THEN line[j] ELSE line[j + 1]]

\* The future that waits for the permit is dropped.
Withdraw(r, pool) ==
  IF r \in granted[pool]
  THEN GiveBack(pool, {r})
  ELSE /\ waiters' = [waiters EXCEPT ![pool] = Without(@, r)]
       /\ UNCHANGED <<free, granted>>
-----------------------------------------------------------------------------
(* GatewayAdmissionPermits::try_acquire *)

TryBinding(r) ==
  /\ At(r, "new")
  /\ \/ Take(BindingOf[r]) /\ GoTo(r, "try_global")
     \/ free[BindingOf[r]] = 0 /\ GoTo(r, "enter") /\ UNCHANGED semaphores
  /\ UNCHANGED queued

TryGlobalKeepsBinding(r) ==
  /\ At(r, "try_global")
  /\ \/ Take(Global) /\ GoTo(r, "running")
     \/ free[Global] = 0 /\ GoTo(r, "enter") /\ UNCHANGED semaphores
  /\ UNCHANGED queued

TryGlobal(r) ==
  /\ At(r, "try_global")
  /\ \/ Take(Global) /\ GoTo(r, "running")
     \/ free[Global] = 0 /\ GoTo(r, "enter") /\ GiveBack(BindingOf[r], {})
  /\ UNCHANGED queued

(* QueueGuard *)

Count(r, pool, step, full) ==
  \/ /\ queued[pool] < Places(pool)
     /\ queued' = [queued EXCEPT ![pool] = @ + 1]
     /\ GoTo(r, step)
  \/ /\ queued[pool] >= Places(pool)
     /\ GoTo(r, full)
     /\ UNCHANGED queued

Uncount(r, pool, step) ==
  /\ queued' = [queued EXCEPT ![pool] = @ - 1]
  /\ GoTo(r, step)

Enter(r) ==
  /\ At(r, "enter")
  /\ Count(r, Global, "enter_binding", "rejected")
  /\ UNCHANGED semaphores

EnterBinding(r) ==
  /\ At(r, "enter_binding")
  /\ Count(r, BindingOf[r], "want_1", "unenter")
  /\ UNCHANGED semaphores

\* The queue of the binding is full, the place in the global one is given up.
Unenter(r) ==
  /\ At(r, "unenter")
  /\ Uncount(r, Global, "rejected")
  /\ UNCHANGED semaphores

\* The guard is dropped, by a request that was admitted or has given up.
Leave(r) ==
  /\ \/ At(r, "admitted") /\ Uncount(r, Global, "admitted_binding")
     \/ At(r, "admitted_binding") /\ Uncount(r, BindingOf[r], "running")
     \/ At(r, "leave") /\ Uncount(r, Global, "leave_binding")
     \/ At(r, "leave_binding") /\ Uncount(r, BindingOf[r], "expired")
  /\ UNCHANGED semaphores

(* GatewayAdmissionPermits::acquire *)

WantFirst(r) ==
  /\ At(r, "want_1")
  /\ \/ Take(QueuedOrder(r)[1]) /\ GoTo(r, "want_2")
     \/ Wait(r, QueuedOrder(r)[1]) /\ GoTo(r, "wait_1")
  /\ UNCHANGED queued

WantSecond(r) ==
  /\ At(r, "want_2")
  /\ \/ Take(QueuedOrder(r)[2]) /\ GoTo(r, "admitted")
     \/ Wait(r, QueuedOrder(r)[2]) /\ GoTo(r, "wait_2")
  /\ UNCHANGED queued

Polled(r, pool, step) ==
  /\ r \in granted[pool]
  /\ granted' = [granted EXCEPT ![pool] = @ \ {r}]
  /\ GoTo(r, step)
  /\ UNCHANGED <<free, waiters, queued>>

Wake(r) ==
  \/ At(r, "wait_1") /\ Polled(r, QueuedOrder(r)[1], "want_2")
  \/ At(r, "wait_2") /\ Polled(r, QueuedOrder(r)[2], "admitted")

AbandonKeepsFirst(r) ==
  /\ \/ At(r, "wait_1") /\ Withdraw(r, QueuedOrder(r)[1]) /\ GoTo(r, "leave")
     \/ At(r, "wait_2") /\ Withdraw(r, QueuedOrder(r)[2]) /\ GoTo(r, "leave")
  /\ UNCHANGED queued

\* The time for the request is over, or its client is gone: the future that
\* waits is dropped, and then the permit that it has.
Abandon(r) ==
  /\ \/ At(r, "wait_1") /\ Withdraw(r, QueuedOrder(r)[1]) /\ GoTo(r, "leave")
     \/ At(r, "wait_2") /\ Withdraw(r, QueuedOrder(r)[2]) /\ GoTo(r, "drop_first")
  /\ UNCHANGED queued

DropFirst(r) ==
  /\ At(r, "drop_first")
  /\ GiveBack(QueuedOrder(r)[1], {})
  /\ GoTo(r, "leave")
  /\ UNCHANGED queued

(* The handler returns, times out or is dropped with its client, and the     *)
(* permits go, that of the binding first.                                    *)

Finish(r) ==
  /\ At(r, "running")
  /\ GiveBack(BindingOf[r], {})
  /\ GoTo(r, "drop_global")
  /\ UNCHANGED queued

DropGlobal(r) ==
  /\ At(r, "drop_global")
  /\ GiveBack(Global, {})
  /\ GoTo(r, "served")
  /\ UNCHANGED queued

Proceed(r) ==
  \/ TryBinding(r) \/ TryGlobal(r)
  \/ Enter(r) \/ EnterBinding(r) \/ Unenter(r) \/ Leave(r)
  \/ WantFirst(r) \/ WantSecond(r) \/ Wake(r) \/ DropFirst(r)
  \/ Finish(r) \/ DropGlobal(r)

AdmissionNext == \E r \in Requests : Proceed(r) \/ Abandon(r)

AdmissionSpec == AdmissionInit /\ [][AdmissionNext]_admissionVars

\* The runtime polls every future that can go on, and the deadline of the
\* request ends a handler that does not return.  No deadline is needed to end
\* the waiting.
FairAdmission == AdmissionSpec /\ \A r \in Requests : WF_admissionVars(~At(r, "new") /\ Proceed(r))
-----------------------------------------------------------------------------
Steps == {"new", "try_global", "enter", "enter_binding", "unenter", "want_1", "wait_1",
          "want_2", "wait_2", "admitted", "admitted_binding", "running", "drop_global",
          "drop_first", "leave", "leave_binding", "served", "expired", "rejected"}

\* In particular no counter, which is a usize, wraps below zero.
AdmissionTypeOK ==
  /\ pc \in [Requests -> Steps]
  /\ free \in [Pools -> Nat]
  /\ waiters \in [Pools -> Seq(Requests)]
  /\ granted \in [Pools -> SUBSET Requests]
  /\ queued \in [Pools -> Nat]

\* The permits that the future of r owns where it is suspended.
Owned(r) ==
  CASE At(r, "try_global") -> {BindingOf[r]}
    [] pc[r] \in {"want_2", "wait_2", "drop_first"} -> {QueuedOrder(r)[1]}
    [] pc[r] \in {"admitted", "admitted_binding", "running"} -> {BindingOf[r], Global}
    [] At(r, "drop_global") -> {Global}
    [] OTHER -> {}

\* The queues in which r has a place.
Counted(r) ==
  CASE pc[r] \in {"enter_binding", "unenter"} -> {Global}
    [] pc[r] \in {"want_1", "wait_1", "want_2", "wait_2", "drop_first", "admitted", "leave"} ->
         {BindingOf[r], Global}
    [] pc[r] \in {"admitted_binding", "leave_binding"} -> {BindingOf[r]}
    [] OTHER -> {}

\* Permits are neither lost nor made, wherever a request is cancelled: each is
\* free, on its way to a waiter, or owned by a request that gives it back.  The
\* queue counters count the requests that have a place, and never exceed the
\* limits: a rejected or cancelled request leaves its places.
PermitsConserved ==
  /\ AdmissionTypeOK
  /\ \A pool \in Pools :
       /\ free[pool] + Cardinality(granted[pool])
            + Cardinality({r \in Requests : pool \in Owned(r)}) = Permits(pool)
       /\ queued[pool] = Cardinality({r \in Requests : pool \in Counted(r)})
       /\ queued[pool] <= Places(pool)

Waiting(r) == \E i \in {1, 2} : At(r, <<"wait_1", "wait_2">>[i]) /\ r \notin granted[QueuedOrder(r)[i]]
Running(S) == Cardinality({r \in S : At(r, "running")})

\* All that can happen next is that a request arrives, ends or gives up.
Quiet ==
  \A r \in Requests : Waiting(r) \/ pc[r] \in {"new", "running", "served", "expired", "rejected"}

\* A request waits only as long as its own binding runs as many requests as it
\* may, or the whole Gateway does: the requests that wait for another binding
\* hold nothing it needs, and no wake-up is lost.
WaitsOnlyWhenBusy ==
  Quiet => \A r \in Requests : Waiting(r) =>
    \/ Running({q \in Requests : BindingOf[q] = BindingOf[r]}) = MaxInflightPerBinding
    \/ Running(Requests) = MaxInflight

Arrived(r) == pc[r] \notin {"new", "served", "expired", "rejected"}

\* Every request is answered, although others come, are cancelled or time out
\* around it, and although it need not time out itself.
EveryRequestLeaves == \A r \in Requests : Arrived(r) ~> ~Arrived(r)
=============================================================================
