------------------------------ MODULE RouteSwitch ------------------------------
(***************************************************************************)
(* What attaching, rebinding and detaching promise about the route of a    *)
(* profile: an operation is accepted, changes the route in one step or not *)
(* at all, and ends as done only if the route changed and as undone only   *)
(* if it did not; or it is handed to the user.  Nothing else ever changes  *)
(* a route, and no second operation of the profile is accepted meanwhile.  *)
(***************************************************************************)
CONSTANTS Profiles, Ids, NoRoute, NoOp

VARIABLES
  route,  \* the route of each profile: NoRoute, or any other value
  ops     \* the operations: their profile, routes and phase

Running(o) == ops[o] # NoOp /\ ops[o].phase = "running"

SInit ==
  /\ route = [p \in Profiles |-> NoRoute]
  /\ ops = [o \in Ids |-> NoOp]

\* Any route may be asked for: the new operation is read off its record.
Accept(o) ==
  LET new == ops'[o] IN
  /\ ops[o] = NoOp /\ new # NoOp
  /\ new.profile \in Profiles
  /\ \A o2 \in Ids : Running(o2) => ops[o2].profile # new.profile
  /\ new.from = route[new.profile] /\ new.to # new.from
  /\ new.phase = "running"
  /\ ops' = [ops EXCEPT ![o] = new]
  /\ UNCHANGED route

Switch(o) ==
  /\ Running(o)
  /\ route[ops[o].profile] = ops[o].from
  /\ route' = [route EXCEPT ![ops[o].profile] = ops[o].to]
  /\ UNCHANGED ops

End(o, phase) ==
  /\ Running(o)
  /\ phase = "done" => route[ops[o].profile] = ops[o].to
  /\ phase = "undone" => route[ops[o].profile] = ops[o].from
  /\ ops' = [ops EXCEPT ![o].phase = phase]
  /\ UNCHANGED route

SNext ==
  \E o \in Ids :
    Accept(o) \/ Switch(o) \/ \E phase \in {"done", "undone", "stuck"} : End(o, phase)

SSpec == SInit /\ [][SNext]_<<route, ops>>
=============================================================================
