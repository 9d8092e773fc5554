--------------------------- MODULE ConfigProjection ---------------------------
(***************************************************************************)
(* The Codex config.toml of a profile and the edits LAM makes to it        *)
(* (services/provider_config_editor.rs).                                   *)
(*                                                                         *)
(* A config is what its keys hold plus the layout of its text.  A key is   *)
(* either a top-level key ("model", "model_provider", ...) or a key of the *)
(* table [model_providers.<id>]; a SLOT is a key in its place.  The        *)
(* SHA-256 that the code compares is modelled by the identity of the whole *)
(* config, layout included: equal hashes are equal texts.                  *)
(*                                                                         *)
(* Abstracted: the number of keys (a few stand for all), the text of a     *)
(* value, the presence of an empty table, and which layout the TOML        *)
(* printer gives to a rewritten document (any).                            *)
(***************************************************************************)

CONSTANTS
  Providers,    \* provider ids, the names of the tables
  TopKeys,      \* keys LAM manages at the top of the document
  TableKeys,    \* keys LAM manages in a provider table
  Managed,      \* Managed[p]: the keys a projection of provider p manages
  Written,      \* Written[p]: those of them that it sets
  AuthTable,    \* the key "auth", whose presence makes a table unmanageable
  AuthKeys,     \* the table keys that an application always clears first
  Top,          \* the place of a top-level key
  Absent,       \* the value of a slot that is not in the document
  Untracked,    \* the entry of a key that a projection does not record
  Forms         \* the layouts of a text

ASSUME ConfigAssumption ==
  /\ TopKeys \cap TableKeys = {}
  /\ Managed \in [Providers -> SUBSET (TopKeys \cup TableKeys)]
  /\ Written \in [Providers -> SUBSET (TopKeys \cup TableKeys)]
  /\ \A p \in Providers : Written[p] \subseteq Managed[p]
  /\ AuthTable \in TableKeys
  /\ AuthTable \in AuthKeys
  /\ AuthKeys \subseteq TableKeys
  /\ Top \notin Providers
  /\ Forms # {}

Keys == TopKeys \cup TableKeys

Slots == ({Top} \X TopKeys) \cup (Providers \X TableKeys)

Slot(p, k) == IF k \in TopKeys THEN <<Top, k>> ELSE <<p, k>>

\* The texts that print a document with these values.
Rendered(values) == [values : {values}, form : Forms]

-----------------------------------------------------------------------------

\* Write the recorded entries of m back into their slots (restore_item).
Restore(values, p, m) ==
  [s \in Slots |->
     IF s = Slot(p, s[2]) /\ m[s[2]] # Untracked THEN m[s[2]] ELSE values[s]]

\* A provider table that already holds "auth" is refused.
Applicable(values, p) == values[<<p, AuthTable>>] = Absent

\* Set the written keys to lam, after clearing the authentication keys.
ApplyValues(values, p, lam) ==
  [s \in Slots |->
     IF s = Slot(p, s[2]) /\ s[2] \in Written[p] THEN lam
     ELSE IF s[1] = p /\ s[2] \in AuthKeys THEN Absent
     ELSE values[s]]

\* What an application records: every managed key before it, and every
\* managed key that is in the document after it.
ProjectionOf(before, after, p) ==
  [provider |-> p,
   previous |-> [k \in Keys |-> IF k \in Managed[p] THEN before[Slot(p, k)]
                                ELSE Untracked],
   managed  |-> [k \in Keys |-> IF k \in Managed[p] /\ after[Slot(p, k)] # Absent
                                THEN after[Slot(p, k)] ELSE Untracked]]

\* Every managed key still holds what LAM wrote (detach_projection's check).
Owns(values, projection) ==
  \A k \in Keys : projection.managed[k] # Untracked =>
     values[Slot(projection.provider, k)] = projection.managed[k]

DetachValues(values, projection) ==
  Restore(values, projection.provider, projection.previous)

ReapplyValues(values, projection) ==
  Restore(values, projection.provider, projection.managed)

=============================================================================
