------------------------- MODULE MCAttachTransaction -------------------------
(* Small instances of AttachTransaction for TLC: a provider behind the      *)
(* Gateway (chat) and one that Codex talks to directly (responses).         *)
EXTENDS AttachTransactionInv, FiniteSets, TLC

CONSTANTS chat, responses, u1

MCProviders == {chat, responses}
MCGatewayProviders == {chat}
MCTopKeys == {"model", "cli_auth_credentials_store"}
MCTableKeys == {"auth", "base_url", "requires_openai_auth", "query_params"}
MCAuth == "auth"
MCAuthKeys == {"auth", "requires_openai_auth"}

\* The Gateway authenticates Codex with a command, the direct provider with
\* the API key of Codex: a key at the top, and one in its table.
MCManaged ==
  [p \in MCProviders |->
     {"model", "base_url"}
       \cup (IF p = chat THEN {"auth"}
             ELSE {"cli_auth_credentials_store", "requires_openai_auth"})]

MCUserSlots == {<<Top, "model">>, <<chat, "query_params">>}

Holding(slots) == [s \in Slots |-> IF s \in slots THEN u1 ELSE Absent]

MCEmpty == {Holding({})}
\* An empty config, and one where the user chose a model and keeps an option
\* that LAM does not manage in the table of the provider.
MCInitialValues == MCEmpty \cup {Holding(MCUserSlots)}

\* The user's own configs: also with keys that LAM manages or clears in the
\* tables of the providers, and at the top.
MCOwnValues ==
  MCEmpty
    \cup {Holding({<<Top, "cli_auth_credentials_store">>, <<responses, "base_url">>,
                   <<chat, "requires_openai_auth">>}),
          Holding({<<Top, "model">>, <<chat, "base_url">>, <<chat, "query_params">>,
                   <<responses, "requires_openai_auth">>})}

InUse ==
  {o \in Ids : plans[o] # NoPlan \/ journal[o] # NoRecord \/ gateway[o].status # "unused"}

OnlyOperatedOn(p) ==
  \A o \in Ids : /\ plans[o] # NoPlan => plans[o].profile = p
                 /\ journal[o] # NoRecord => journal[o].profile = p

\* Two operations on any profiles, with empty configs that other programs may
\* edit, two crashes and a fault; or operations on one profile only, whose user
\* had a config, which nobody else edits: two with two crashes or faults, three
\* with one.
MCBound ==
  \/ Cardinality(InUse) <= 2 /\ original \in [Profiles -> MCEmpty]
  \/ /\ edits = 0 /\ crashes + faults + Cardinality(InUse) <= 4
     /\ \E p \in Profiles :
          OnlyOperatedOn(p) /\ \A q \in Profiles \ {p} : original[q] \in MCEmpty

MCSymmetry == Permutations(Ids) \cup Permutations(Profiles) \cup Permutations(Forms)
=============================================================================
