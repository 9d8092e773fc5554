----------------------------- MODULE GatewayClaim -----------------------------
(* Who runs the Gateway.  The sidecar claims gateway-state.json              *)
(* (bin/lam-provider-gateway.rs, gateway/sidecar.rs); the supervisor of the  *)
(* application (gateway/supervisor.rs) and `lam codex` (bin/lam.rs) watch    *)
(* the claim, take it away from processes that are gone, and start sidecars. *)
(* Time is abstract: a delay ends and a deadline passes at any moment.       *)
EXTENDS Naturals, FiniteSets

CONSTANTS Pids, Launchers, Supervisor, System, None, Ports,
          MaxRestarts,             \* failures that are retried
          Attempts,                \* probes of a launcher before it gives up
          MaxEvents                \* bound of the model

ASSUME ClaimAssumption ==
  /\ MaxRestarts \in Nat /\ Attempts \in Nat \ {0} /\ MaxEvents \in Nat
  /\ Supervisor \notin Launchers /\ System \notin Launchers \cup {Supervisor}
  /\ None \notin Pids \cup Ports /\ Pids \cap (Launchers \cup {Supervisor}) = {}

Agents == Launchers \cup {Supervisor}

VARIABLES
  state,    \* gateway-state.json
  current,  \* those whose last load or write has the revision of the file
  procs,    \* the processes: sidecars, and strangers that reuse a pid
  socket,   \* the sidecar the control socket's path leads to
  agents,   \* the supervisor and the launchers, with their local variables
  leaving,  \* the exit hook of the application
  needed,   \* some active binding requires the Gateway
  budget    \* what the environment may still do

vars == <<state, current, procs, socket, agents, leaving, needed, budget>>

Alive(p) == procs[p].phase # "gone"
Sidecar(p) == Alive(p) /\ procs[p].phase # "stranger"
Orphan(p) == procs[p].parent = System

\* A dead process keeps its pid until its parent has waited for it or is gone
\* (the supervisor never waits); inspections see through such a zombie, and
\* the sidecar's process_exists does not.
Zombie(p) == ~Alive(p) /\ ~Orphan(p)

Referred(p) ==
  \/ p \in {state.pid, leaving.pid}
  \/ \E a \in Agents : p \in {agents[a].seen.pid, agents[a].child}

\* The pids a new process may get: one that is free again although somebody
\* remembers it, or one that nobody remembers, whichever that is.
FreePids ==
  LET fresh == {p \in Pids : ~Alive(p) /\ ~Referred(p)} IN
  {p \in Pids : ~Alive(p) /\ ~Zombie(p) /\ Referred(p)}
    \cup {p \in fresh : p = CHOOSE q \in fresh : TRUE}

\* The phases in which a sidecar has its listener, and those in which its
\* control socket is open: the server closes first.
HasListener == {"spawned", "loaded", "claimed", "listening", "serving"}
HasControl == {"listening", "serving", "draining"}

PortTaken(port) ==
  \/ \E p \in Pids : procs[p].phase \in HasListener /\ procs[p].port = port
  \/ \E a \in Agents : agents[a].phase = "reserved" /\ agents[a].seen.port = port

ControlLive == socket # None /\ procs[socket].phase \in HasControl

NoProcess == [phase |-> "gone", parent |-> System, tracked |-> FALSE, port |-> None,
              nonce |-> "none", asked |-> FALSE]

Nothing == [port |-> None, pid |-> None]

Idle == [phase |-> "idle", failures |-> 0, tries |-> 0, child |-> None,
         seen |-> Nothing]

NotLeaving == [phase |-> "no", pid |-> None]

Init ==
  /\ \E port \in Ports :
       state = [port |-> port, pid |-> None]
  /\ current = {}
  /\ procs = [p \in Pids |-> NoProcess]
  /\ socket = None
  /\ agents = [a \in Agents |-> IF a = Supervisor THEN Idle ELSE [Idle EXCEPT !.phase = "off"]]
  /\ leaving = NotLeaving
  /\ needed = TRUE
  /\ budget = MaxEvents

\* One of the things that the environment does at most MaxEvents times: it is
\* the bound of the model.
Interferes == budget > 0 /\ budget' = budget - 1

-----------------------------------------------------------------------------
(* GatewayStateRepository.  A write compares the revision of the writer's    *)
(* snapshot with the file's and leaves nobody else with a current one.       *)

CanClaim(p, stale) == p \in current /\ (state.pid = None \/ stale)

Claim(p) ==
  /\ state' = [state EXCEPT !.pid = p]
  /\ current' = {p}

CanReleaseAnything(who, p) == TRUE

CanRelease(who, p) == who \in current /\ state.pid = p

Release(who) == state' = [state EXCEPT !.pid = None] /\ current' = {who}

\* load, then release_process: no other write comes in between.
ReleaseNow(p) ==
  IF state.pid = p THEN state' = [state EXCEPT !.pid = None] /\ current' = {}
  ELSE UNCHANGED <<state, current>>

\* commit_port_change: the plan's port and revision are compared with the file.
MovePort(port) ==
  /\ port # state.port
  /\ Interferes
  /\ state' = [state EXCEPT !.port = port] /\ current' = {}
  /\ UNCHANGED <<procs, socket, agents, leaving, needed>>

-----------------------------------------------------------------------------
(* The sidecar *)

Become(p, phase) == procs' = [procs EXCEPT ![p].phase = phase]
End(p) == procs' = [procs EXCEPT ![p] = [NoProcess EXCEPT !.parent = procs[p].parent]]

\* The state is loaded and the inherited listener compared with its port.
SidecarLoad(p) ==
  /\ procs[p].phase = "spawned"
  /\ IF procs[p].port = state.port
     THEN Become(p, "loaded") /\ current' = current \cup {p}
     ELSE End(p) /\ UNCHANGED current
  /\ UNCHANGED <<state, socket, agents, leaving, needed, budget>>

SidecarClaim(p) ==
  LET stale == state.pid # None /\ ~Alive(state.pid) /\ ~Zombie(state.pid) IN
  /\ procs[p].phase = "loaded"
  /\ IF CanClaim(p, stale)
     THEN Claim(p) /\ Become(p, "claimed")
     ELSE End(p) /\ UNCHANGED <<state, current>>
  /\ UNCHANGED <<socket, agents, leaving, needed, budget>>

\* ControlSocketServer::start: the path is taken over from whatever is there.
SidecarListen(p) ==
  /\ procs[p].phase = "claimed"
  /\ \/ Become(p, "listening") /\ socket' = p /\ current' = current \ {p}
        /\ UNCHANGED <<state, budget>>
     \/ /\ Interferes
        /\ End(p)
        /\ IF CanRelease(p, p) THEN Release(p) ELSE UNCHANGED <<state, current>>
        /\ UNCHANGED socket
  /\ UNCHANGED <<agents, leaving, needed>>

SidecarServe(p) ==
  /\ procs[p].phase = "listening"
  /\ procs' = [procs EXCEPT ![p].phase = "serving", ![p].tracked = ~Orphan(p)]
  /\ UNCHANGED <<state, current, socket, agents, leaving, needed, budget>>

\* The loop of the sidecar ends: asked over the control socket, its parent is
\* gone, or nothing needs it and it was idle for long enough.  Its server is
\* shut down, and the listener closed.
SidecarStop(p) ==
  /\ procs[p].phase = "serving"
  /\ procs[p].asked \/ (procs[p].tracked /\ Orphan(p)) \/ ~needed
  /\ Become(p, "draining")
  /\ UNCHANGED <<state, current, socket, agents, leaving, needed, budget>>

\* control.shutdown: the socket closes, and its path is removed afterwards,
\* whoever has it by then.  The claim is released if it is still there.
SidecarClose(p) ==
  /\ procs[p].phase = "draining"
  /\ Become(p, "closed")
  /\ UNCHANGED <<state, current, socket, agents, leaving, needed, budget>>

SidecarRelease(p) ==
  /\ procs[p].phase = "closed"
  /\ socket' = None
  /\ ReleaseNow(p)
  /\ End(p)
  /\ UNCHANGED <<agents, leaving, needed, budget>>

\* A panic, an error of the loop, or a kill by the user.
SidecarDies(p) ==
  /\ Sidecar(p)
  /\ Interferes
  /\ End(p)
  /\ UNCHANGED <<state, current, socket, agents, leaving, needed>>

\* External: the system gives the pid of a dead sidecar to another process.
PidReused(p) ==
  /\ ~Alive(p) /\ ~Zombie(p) /\ Referred(p)
  /\ Interferes
  /\ procs' = [procs EXCEPT ![p] = [NoProcess EXCEPT !.phase = "stranger", !.parent = None]]
  /\ UNCHANGED <<state, current, socket, agents, leaving, needed>>

-----------------------------------------------------------------------------
(* What an agent observes *)

\* The identity probe at the port of the state.  Whoever serves there has the
\* identity of the state: instance_id is the same from one claim to the next
\* unless a sidecar takes over the claim of a dead one, and the agents clear
\* such a claim before they start one.
Served(port) == \E p \in Pids : procs[p].phase = "serving" /\ procs[p].port = port

\* inspect_gateway_claim
Observation(s) ==
  CASE s.pid = None -> "ProcessMissing"
    [] s.pid # None /\ ~Alive(s.pid) -> "ProcessMissing"
    [] s.pid # None /\ Alive(s.pid) /\ (~Sidecar(s.pid) \/ Orphan(s.pid)) -> "ProcessIdentityMismatch"
    [] OTHER -> IF Served(s.port) THEN "IdentityHealthy" ELSE "IdentityUnavailable"

ActionOnAbsence(seen) == IF seen = "ProcessMissing" THEN "ValidateStart" ELSE "Hold"

\* GatewaySupervisorMachine::observe
ActionOn(seen) ==
  CASE seen = "ProcessMissing" -> "ValidateStart"
    [] seen = "ProcessIdentityMismatch" -> "ClearStaleClaim"
    [] OTHER -> "Hold"

-----------------------------------------------------------------------------
(* One cycle of the supervisor, one attempt of a launcher *)

Put(a, new) == agents' = [agents EXCEPT ![a] = new]

\* Nobody asks for the revision of an agent outside these phases.
Set(a, new) ==
  /\ Put(a, new)
  /\ current' = IF new.phase \in {"loaded", "clearing", "validating"}
                THEN current ELSE current \ {a}

\* failure_delay: the supervisor ends for good after MaxRestarts retries.  An
\* error in `lam codex` ends the command.
Failed(a) ==
  IF a # Supervisor THEN [Idle EXCEPT !.phase = "off"]
  ELSE [agents[a] EXCEPT !.failures = @ + 1, !.seen = Nothing,
                         !.phase = IF agents[a].failures >= MaxRestarts THEN "failed" ELSE "idle"]

HeldUncounted(a) == [agents[a] EXCEPT !.phase = "idle", !.seen = Nothing]

\* What Hold means: the supervisor sleeps; a launcher is ready, or tries again.
HeldByLauncher(a) ==
  IF agents[a].tries + 1 >= Attempts THEN [Idle EXCEPT !.phase = "off"]
  ELSE [agents[a] EXCEPT !.phase = "idle", !.seen = Nothing, !.tries = @ + 1]

Held(a, seen) ==
  IF a = Supervisor
  THEN [agents[a] EXCEPT !.phase = "idle", !.seen = Nothing,
                         !.failures = IF seen = "IdentityHealthy" THEN 0 ELSE @]
  ELSE IF seen = "IdentityHealthy" THEN [Idle EXCEPT !.phase = "codex"]
  ELSE HeldByLauncher(a)

\* The supervisor does nothing while no binding needs the Gateway; a launcher
\* needs an active binding of its profile.
Load(a) ==
  /\ agents[a].phase = "idle"
  /\ \/ needed /\ Put(a, [agents[a] EXCEPT !.phase = "loaded", !.seen = state])
        /\ current' = current \cup {a}
     \/ ~needed /\ a = Supervisor /\ agents[a].failures > 0
        /\ Set(a, [agents[a] EXCEPT !.failures = 0])
     \/ ~needed /\ a # Supervisor /\ Set(a, [Idle EXCEPT !.phase = "off"])
  /\ UNCHANGED <<state, procs, socket, leaving, needed, budget>>

Inspect(a) ==
  LET now == Observation(agents[a].seen) IN
  /\ agents[a].phase = "loaded"
  /\ \E seen \in {now} \cup {"IdentityUnavailable" : x \in {now} \cap {"IdentityHealthy"}} :
       /\ IF seen = now THEN UNCHANGED budget ELSE Interferes       \* a late answer
       /\ Set(a, IF ActionOn(seen) = "Hold" THEN Held(a, seen)
                 ELSE [agents[a] EXCEPT !.phase = "clearing"])
  /\ UNCHANGED <<state, procs, socket, leaving, needed>>

\* What the comment on the detection of orphans says happens to them.
ClearAndEnd(a) ==
  LET s == agents[a].seen IN
  /\ agents[a].phase = "clearing"
  /\ IF s.pid # None /\ Alive(s.pid) THEN End(s.pid) ELSE UNCHANGED procs
  /\ IF s.pid = None
     THEN Set(a, [agents[a] EXCEPT !.phase = "validating"]) /\ UNCHANGED state
     ELSE IF CanRelease(a, s.pid)
     THEN Release(a) /\ Put(a, [agents[a] EXCEPT !.phase = "validating", !.seen = state'])
     ELSE Set(a, Failed(a)) /\ UNCHANGED state
  /\ UNCHANGED <<socket, leaving, needed, budget>>

\* clear_claim_and_validate_start, its first half
Clear(a) ==
  LET s == agents[a].seen IN
  /\ agents[a].phase = "clearing"
  /\ IF s.pid = None
     THEN Set(a, [agents[a] EXCEPT !.phase = "validating"]) /\ UNCHANGED state
     ELSE IF CanRelease(a, s.pid)
     THEN Release(a) /\ Put(a, [agents[a] EXCEPT !.phase = "validating", !.seen = state'])
     ELSE Set(a, Failed(a)) /\ UNCHANGED state
  /\ UNCHANGED <<procs, socket, leaving, needed, budget>>

\* validate_gateway_start_preflight: the listener is bound here and kept.
Validate(a) ==
  /\ agents[a].phase = "validating"
  /\ Set(a, IF /\ a \in current
               /\ state.pid = None /\ ~PortTaken(state.port) /\ ~ControlLive
            THEN [agents[a] EXCEPT !.phase = "reserved", !.seen = state]
            ELSE Failed(a))
  /\ UNCHANGED <<state, procs, socket, leaving, needed, budget>>

\* start_packaged_sidecar / start_sidecar: the child inherits the listener.
Spawn(a) ==
  /\ agents[a].phase = "reserved"
  /\ \/ \E p \in FreePids :
          /\ procs' = [procs EXCEPT ![p] = [NoProcess EXCEPT !.phase = "spawned", !.parent = a,
                                                         !.port = agents[a].seen.port]]
          /\ Set(a, IF a = Supervisor THEN [agents[a] EXCEPT !.phase = "idle", !.seen = Nothing, !.failures = 0]
                    ELSE [agents[a] EXCEPT !.phase = "verifying", !.seen = Nothing, !.child = p])
          /\ UNCHANGED budget
     \/ Interferes /\ Set(a, Failed(a)) /\ UNCHANGED procs
  /\ UNCHANGED <<state, socket, leaving, needed>>

-----------------------------------------------------------------------------
(* Requests over the control socket.  A sidecar accepts growing nonces: the  *)
(* first is always accepted, a random one after it may be too small, and     *)
(* nothing is accepted after the largest, which `lam codex` uses at its end. *)

Accepts(nonce) == ControlLive /\ procs[socket].nonce # "max"
MayRefuse == ControlLive => procs[socket].nonce # "none"

Heard(nonce, shutdown) ==
  procs' = [procs EXCEPT ![socket].nonce = nonce, ![socket].asked = @ \/ shutdown]

Ready == ControlLive /\ needed /\ Served(state.port)

\* verify: the launcher's child, or whoever has the socket and the port, is up.
Verify(a) ==
  /\ agents[a].phase = "verifying"
  /\ Ready /\ Accepts("some")
  /\ Heard("some", FALSE)
  /\ Set(a, [Idle EXCEPT !.phase = "codex", !.child = agents[a].child])
  /\ UNCHANGED <<state, socket, leaving, needed, budget>>

Waited(child) == procs' = [procs EXCEPT ![child] = NoProcess]

\* The child ended, or cannot be verified, or was too slow: it is killed, and
\* the launcher prepares again with a new machine.
GiveUp(a) ==
  LET child == agents[a].child IN
  /\ agents[a].phase = "verifying"
  /\ IF ~Alive(child) \/ (procs[child].phase = "serving" /\ ~(Ready /\ Accepts("some")))
     THEN UNCHANGED budget ELSE Interferes
  /\ Waited(child)
  /\ Set(a, [Idle EXCEPT !.failures = agents[a].failures + 1,
                         !.phase = IF agents[a].failures >= MaxRestarts THEN "off" ELSE "idle"])
  /\ UNCHANGED <<state, socket, leaving, needed>>

\* Codex ends; stop_owned_child asks whoever listens at the socket's path.
CodexEnds(a) ==
  /\ agents[a].phase = "codex"
  /\ Set(a, [agents[a] EXCEPT !.phase = IF agents[a].child = None THEN "off" ELSE "stopping"])
  /\ IF agents[a].child # None /\ Accepts("max") THEN Heard("max", TRUE) ELSE UNCHANGED procs
  /\ UNCHANGED <<state, socket, leaving, needed, budget>>

\* The child ends by itself, or is killed after two seconds.
ChildEnds(a) ==
  LET child == agents[a].child IN
  /\ agents[a].phase = "stopping"
  /\ Waited(child)
  /\ Set(a, [Idle EXCEPT !.phase = "off"])
  /\ UNCHANGED <<state, socket, leaving, needed, budget>>

Launch(a) ==
  /\ a # Supervisor /\ agents[a].phase = "off" /\ needed
  /\ Interferes
  /\ Set(a, Idle)
  /\ UNCHANGED <<state, procs, socket, leaving, needed>>

\* The user attaches the first profile to the Gateway or detaches the last.
ChangeNeed ==
  /\ Interferes
  /\ needed' = ~needed
  /\ UNCHANGED <<state, current, procs, socket, agents, leaving>>

-----------------------------------------------------------------------------
(* The end of the application, and of `lam` *)

Orphaned(a) == [p \in Pids |-> IF procs[p].parent = a THEN [procs[p] EXCEPT !.parent = System]
                              ELSE procs[p]]

\* shutdown_packaged_gateway; the supervisor's task runs on meanwhile.
ExitBegins ==
  /\ leaving.phase = "no" /\ agents[Supervisor].phase # "off"
  /\ Interferes
  /\ leaving' = [phase |-> IF state.pid = None THEN "done" ELSE "ask", pid |-> state.pid]
  /\ UNCHANGED <<state, current, procs, socket, agents, needed>>

ExitAsks ==
  /\ leaving.phase = "ask"
  /\ \/ Accepts("some") /\ Heard("some", TRUE) /\ leaving' = [leaving EXCEPT !.phase = "wait"]
     \/ MayRefuse /\ leaving' = [leaving EXCEPT !.phase = "fallback"] /\ UNCHANGED procs
  /\ UNCHANGED <<state, current, socket, agents, needed, budget>>

ExitWaits ==
  /\ leaving.phase = "wait"
  /\ \/ /\ ~Alive(leaving.pid)
        /\ leaving' = [leaving EXCEPT !.phase = "done"]
        /\ ReleaseNow(leaving.pid)
     \/ /\ Alive(leaving.pid)
        /\ leaving' = [leaving EXCEPT !.phase = "fallback"]
        /\ UNCHANGED <<state, current>>
  /\ UNCHANGED <<procs, socket, agents, needed, budget>>

\* terminate_gateway_fallback: whatever has the pid.
ExitTerminates ==
  /\ leaving.phase = "fallback"
  /\ IF Alive(leaving.pid) THEN End(leaving.pid) ELSE UNCHANGED procs
  /\ ReleaseNow(leaving.pid)
  /\ leaving' = [leaving EXCEPT !.phase = "done"]
  /\ UNCHANGED <<socket, agents, needed, budget>>

AppEnds ==
  /\ \/ leaving.phase = "done" /\ UNCHANGED budget
     \/ leaving.phase # "done" /\ agents[Supervisor].phase # "off" /\ Interferes
  /\ leaving' = NotLeaving
  /\ procs' = Orphaned(Supervisor)
  /\ Set(Supervisor, [Idle EXCEPT !.phase = "off"])
  /\ UNCHANGED <<state, socket, needed>>

AppStarts ==
  /\ agents[Supervisor].phase = "off"
  /\ Set(Supervisor, Idle)
  /\ UNCHANGED <<state, procs, socket, leaving, needed, budget>>

LauncherDies(a) ==
  /\ a # Supervisor /\ agents[a].phase # "off"
  /\ Interferes
  /\ procs' = Orphaned(a)
  /\ Set(a, [Idle EXCEPT !.phase = "off"])
  /\ UNCHANGED <<state, socket, leaving, needed>>

-----------------------------------------------------------------------------
SidecarStep(p) ==
  \/ SidecarLoad(p) \/ SidecarClaim(p) \/ SidecarListen(p) \/ SidecarServe(p)
  \/ SidecarStop(p) \/ SidecarClose(p) \/ SidecarRelease(p)

AgentStep(a) ==
  \/ Load(a) \/ Inspect(a) \/ Clear(a) \/ Validate(a) \/ Spawn(a)
  \/ Verify(a) \/ GiveUp(a) \/ ChildEnds(a)

ExitStep == ExitAsks \/ ExitWaits \/ ExitTerminates \/ (leaving.phase = "done" /\ AppEnds)

Next ==
  \/ \E p \in Pids : SidecarStep(p) \/ SidecarDies(p) \/ PidReused(p)
  \/ \E a \in Agents : AgentStep(a) \/ CodexEnds(a) \/ Launch(a) \/ LauncherDies(a)
  \/ \E port \in Ports : MovePort(port)
  \/ ExitBegins \/ ExitStep \/ AppEnds \/ AppStarts \/ ChangeNeed

Spec == Init /\ [][Next]_vars

\* Processes and tasks that can run do run.  Nothing makes the user start the
\* application or end Codex.
Fairness ==
  /\ \A p \in Pids : WF_vars(SidecarStep(p))
  /\ \A a \in Agents : WF_vars(AgentStep(a))
  /\ WF_vars(ExitStep)

FairSpec == Spec /\ Fairness

-----------------------------------------------------------------------------
(* Properties *)

\* Every field has its kind of value, and a supervisor that failed too often
\* has ended (failure_delay).
TypeOK ==
  /\ current \subseteq Pids \cup Agents
  /\ state.port \in Ports /\ state.pid \in Pids \cup {None}
  /\ socket \in Pids \cup {None}
  /\ \A p \in Pids : procs[p].parent \in Agents \cup {System, None}
  /\ \A a \in Agents : /\ agents[a].failures \in 0..(MaxRestarts + 1)
                        /\ agents[a].child \in Pids \cup {None}
                        /\ agents[a].failures > MaxRestarts => agents[a].phase \in {"failed", "off"}

\* A sidecar that claimed the state and whose parent lives keeps the claim
\* until it ends: no supervisor, launcher, exit hook or other sidecar that
\* acts on what it saw earlier takes it away (the compare-and-swap of
\* gateway-state.json, the inspection of the pid and of its parent).  Two
\* such sidecars never serve at once.
AttendedGatewayKeepsClaim ==
  /\ TypeOK
  /\ \A p \in Pids :
       procs[p].phase \in {"claimed", "listening", "serving", "draining", "closed"}
         /\ ~Orphan(p) => state.pid = p

\* Outside the exit hook nobody ends a process that took over the pid of a
\* sidecar (inspect_gateway_claim, reconcile_gateway_claim).
ReconcileSparesOthers ==
  [][\A p \in Pids : procs[p].phase = "stranger" /\ leaving.phase # "fallback"
                        => procs'[p].phase = "stranger"]_vars

\* todo-provider-gateway-review-remediation.md: a process that cannot be shown
\* to be the Gateway is never ended.
OnlyGatewaysAreEnded ==
  [][\A p \in Pids : procs[p].phase = "stranger" => procs'[p].phase = "stranger"]_vars

\* The sidecar that has the claim serves another port than the one that every
\* probe asks (a port migration does not restart it).
HeldAtOldPort == state.pid # None /\ Sidecar(state.pid) /\ procs[state.pid].port # state.port

SupervisorRuns == agents[Supervisor].phase \notin {"off", "failed"}

\* While a binding needs the Gateway, every crash, orphan, reused pid and
\* unreachable sidecar is followed by a Gateway that proves its identity at
\* the port of the state, unless the supervisor ended after its last retry or
\* the claim is held at the port before a migration.
NeedIsMet ==
  (needed /\ SupervisorRuns) ~>
    \/ Served(state.port)
    \/ ~needed \/ ~SupervisorRuns \/ HeldAtOldPort

\* `lam codex` ends its preparation: Codex runs, or the command has failed.
EveryLaunchSettles ==
  \A a \in Launchers : agents[a].phase = "idle" ~> agents[a].phase \in {"codex", "off"}
=============================================================================
