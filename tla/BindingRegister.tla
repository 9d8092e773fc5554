---------------------------- MODULE BindingRegister ----------------------------
(***************************************************************************)
(* What a call that changes Gateway bindings promises to its caller: it    *)
(* takes effect at once, on the bindings there are at that moment.  The    *)
(* identifier is new, the generation is the next one of the profile, or of *)
(* the binding that is replaced, and a profile gets its first binding, as  *)
(* an operation its candidate, only while there is none.                   *)
(***************************************************************************)
EXTENDS Naturals

CONSTANTS Profiles, Ids, Ops, Nil

VARIABLE bindings

Taken(i) == \E b \in bindings : b.id = i

Born(i, p, g, o) ==
  [id |-> i, profile |-> p, generation |-> g, op |-> o, revoked |-> FALSE, pending |-> FALSE]

IsNext(g, p) ==
  LET older == {b.generation : b \in {c \in bindings : c.profile = p}} IN
  /\ \A h \in older : h < g
  /\ g = 1 \/ \E h \in older : g = h + 1

Revoked(i) == {IF b.id = i THEN [b EXCEPT !.revoked = TRUE] ELSE b : b \in bindings}
Marked(i) == {IF b.id = i THEN [b EXCEPT !.pending = TRUE] ELSE b : b \in bindings}

\* The new binding is read off the bindings there are then.
Provide(b) ==
  /\ ~Taken(b.id)
  /\ b = Born(b.id, b.profile, b.generation, b.op)
  /\ IsNext(b.generation, b.profile)
  /\ IF b.op = Nil THEN \A c \in bindings : c.profile = b.profile => c.revoked
                   ELSE \A c \in bindings : c.op # b.op
  /\ bindings' = bindings \cup {b}

Replace(i, b) ==
  /\ \E c \in bindings :
       /\ c.id = i /\ ~c.revoked
       /\ b = Born(b.id, c.profile, c.generation + 1, Nil)
  /\ ~Taken(b.id)
  /\ bindings' = Revoked(i) \cup {b}

Revoke(i) ==
  /\ Taken(i)
  /\ bindings' = Revoked(i)

\* Its token could not be removed, which is to be tried again.
Mark(i) ==
  /\ Taken(i) /\ \A b \in bindings : b.id = i => b.revoked
  /\ bindings' = Marked(i)

RegisterInit == bindings = {}

RegisterNext ==
  \/ \E b \in bindings' : Provide(b) \/ \E i \in Ids : Replace(i, b)
  \/ \E i \in Ids : Revoke(i) \/ Mark(i)

RegisterSpec == RegisterInit /\ [][RegisterNext]_bindings
================================================================================
