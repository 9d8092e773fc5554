----------------------------- MODULE ChatRequest -----------------------------
(***************************************************************************)
(* How the Gateway turns a Responses request into a Chat Completions one    *)
(* (services/adapters/request.rs).  Codex sends the whole conversation with *)
(* every request; the names of its tools are flattened into the one name    *)
(* space Chat Completions has, its items become messages, and a turn that   *)
(* calls tools must carry the reasoning of that turn where the provider     *)
(* asks for it.                                                             *)
(***************************************************************************)
EXTENDS SequencesExt

CONSTANTS
    Identities,  \* the tools a request may declare: [ns, name, kind]
    ChatName,    \* the flattened name of an identity
    CallIds,     \* the ids of tool calls
    None

ASSUME ToolAssumption == DOMAIN ChatName = Identities /\ None \notin CallIds

Names == {ChatName[t] : t \in Identities}
Kinds == {"function", "custom", "tool_search", "local_shell"}

\* A refusal ends the translation and names its cause; <<>> is a request
\* that is translated.
Refused(cause) == [error |-> cause, messages |-> <<>>, tools |-> <<>>]

(***************************************************************************)
(* Tools.  Two identities with one flattened name are a collision; the same *)
(* identity twice is declared once.                                         *)
(***************************************************************************)
Collides(declared) ==
    \E i, j \in DOMAIN declared :
        declared[i] # declared[j] /\ ChatName[declared[i]] = ChatName[declared[j]]

Declared(declared) == {ChatName[t] : t \in ToSet(declared)}

\* Names the context does not know are passed as they are, and `local_shell`
\* is known without being declared.
Identity(declared, name) ==
    IF \E t \in ToSet(declared) : ChatName[t] = name
    THEN CHOOSE t \in ToSet(declared) : ChatName[t] = name
    ELSE [ns |-> None, name |-> name,
          kind |-> IF name = "local_shell" THEN "local_shell" ELSE "function"]

\* The name a call of the history is translated to.
NameOf(declared, call) ==
    IF call.kind \in {"tool_search", "local_shell"} THEN call.kind
    ELSE LET own == {t \in ToSet(declared) : t.ns = call.ns /\ t.name = call.name}
         IN IF own # {} THEN ChatName[CHOOSE t \in own : TRUE]
            ELSE LET known == {t \in Identities : t.ns = call.ns /\ t.name = call.name}
                 IN IF known # {} THEN ChatName[CHOOSE t \in known : TRUE] ELSE call.name

(***************************************************************************)
(* Items.  Texts are kept as sequences of fragments, joined by a new line   *)
(* in the code.                                                             *)
(***************************************************************************)
Joined(text, more) ==
    IF more = <<>> \/ text = more THEN text ELSE text \o more

Assistant(content, reasoning, calls) ==
    [role |-> "assistant", content |-> content, reasoning |-> reasoning, calls |-> calls]
Plain(role, content) ==
    [role |-> role, content |-> content, reasoning |-> <<>>, calls |-> <<>>]
Tool(id) == [role |-> "tool", content |-> id, reasoning |-> <<>>, calls |-> <<>>]

\* Mutant: a turn that calls tools is sent without its reasoning.
LacksNothing(b, policy) == FALSE
Lacks(b, policy) == policy.reasoning /\ b.reasoning = <<>>

\* The calls that are pending become one assistant message, or join the one
\* before them when that one calls nothing yet.
Flush(b, policy) ==
    IF b.error # None \/ b.pending = <<>> THEN b
    ELSE IF Lacks(b, policy)
         THEN [b EXCEPT !.error = "ReasoningHistoryRequired"]
    ELSE LET n == Len(b.messages)
             joins == n > 0 /\ b.messages[n].role = "assistant" /\ b.messages[n].calls = <<>>
             last == b.messages[n]
         IN [b EXCEPT
               !.messages = IF joins
                   THEN [@ EXCEPT ![n] = Assistant(last.content,
                           IF last.reasoning = <<>> THEN b.reasoning
                           ELSE Joined(last.reasoning, b.reasoning), b.pending)]
                   ELSE Append(@, Assistant(None, b.reasoning, b.pending)),
               !.pending = <<>>, !.reasoning = <<>>]

Say(b, m) == IF b.error # None THEN b ELSE [b EXCEPT !.messages = Append(@, m)]

Message(b, item, policy) ==
    LET c == Flush(b, policy)
        left == [c EXCEPT !.reasoning = <<>>]
    IN IF c.error # None THEN c
       ELSE IF item.kind = "assistant"
       THEN Say(left, Assistant(item.text, c.reasoning, <<>>))
       ELSE IF c.reasoning # <<>>
       THEN Say(Say(left, Assistant(None, c.reasoning, <<>>)), Plain(item.kind, item.text))
       ELSE Say(c, Plain(item.kind, item.text))

\* A call without an id, with arguments that are not JSON or with an id that
\* was used already is refused.  Only a function call asks the history for
\* the reasoning of its turn.
Call(b, item, declared, history) ==
    IF item.id = None THEN [b EXCEPT !.error = "UnsupportedInput"]
    ELSE IF ~item.json THEN [b EXCEPT !.error = "ToolArgumentsInvalid"]
    ELSE IF item.id \in b.calls THEN [b EXCEPT !.error = "DuplicateCallId"]
    ELSE LET known == IF item.kind = "function" /\ item.id \in DOMAIN history
                      THEN history[item.id] ELSE <<>>
         IN [b EXCEPT !.calls = @ \cup {item.id},
                      !.reasoning = Joined(@, known),
                      !.pending = Append(@, [id |-> item.id, name |-> NameOf(declared, item)])]

Output(b, item, policy) ==
    LET c == Flush(b, policy)
    IN IF c.error # None THEN c
       ELSE IF item.id \notin c.calls THEN [c EXCEPT !.error = "UnknownCallId"]
       ELSE Say(c, Tool(item.id))

\* `context` stands for the items that become a remark of the assistant:
\* agent messages, web searches, images and compactions.
Translate(b, item, policy, declared, history) ==
    IF b.error # None THEN b
    ELSE CASE item.kind \in {"user", "assistant", "system", "developer"} -> Message(b, item, policy)
           [] item.kind \in Kinds -> Call(b, item, declared, history)
           [] item.kind = "output" -> Output(b, item, policy)
           [] item.kind = "reasoning" -> [b EXCEPT !.reasoning = Joined(@, item.text)]
           [] item.kind = "context" ->
                  Say(Flush(b, policy), Assistant(item.text, <<>>, <<>>))
           [] item.kind = "additional_tools" -> b
           [] OTHER -> LET c == Flush(b, policy)
                       IN IF c.error # None THEN c
                          ELSE [c EXCEPT !.error = "UnsupportedInput"]

Ended(b, policy) ==
    LET c == Flush(b, policy)
    IN IF c.error # None \/ c.reasoning = <<>> THEN c
       ELSE Say([c EXCEPT !.reasoning = <<>>], Assistant(None, c.reasoning, <<>>))

NothingYet == [messages |-> <<>>, calls |-> {}, pending |-> <<>>, reasoning |-> <<>>,
               error |-> None]
Grouped(items, policy, declared, history) ==
    FoldLeft(LAMBDA b, item : Translate(b, item, policy, declared, history), NothingYet, items)
Items(items, policy, declared, history) ==
    Ended(Grouped(items, policy, declared, history), policy)

\* Every system and developer message goes to the front, once for each text.
IsSystem(m) == m.role \in {"system", "developer"}
\* Mutant: system messages stay where they are.
HoistedNever(messages) == messages
Hoist(acc, m) ==
    IF ~IsSystem(m) THEN [acc EXCEPT !.rest = Append(@, m)]
    ELSE IF \E i \in DOMAIN acc.front : acc.front[i].content = m.content THEN acc
    ELSE [acc EXCEPT !.front = Append(@, m)]
Hoisted(messages) ==
    LET sorted == FoldLeft(Hoist, [front |-> <<>>, rest |-> <<>>], messages)
    IN sorted.front \o sorted.rest

(***************************************************************************)
(* The whole request: its tools are the declared ones and those that items  *)
(* add on the way.                                                          *)
(***************************************************************************)
ToolsOf(request) ==
    FoldLeft(LAMBDA acc, item : IF item.kind = "additional_tools" THEN acc \o item.tools ELSE acc,
             request.tools, request.items)

Translated(request, policy, history) ==
    LET declared == ToolsOf(request)
        body == Items(request.items, policy, declared, history)
    IN IF request.items = <<>> THEN Refused("EmptyInput")
       ELSE IF Collides(declared) THEN Refused("ToolNameCollision")
       ELSE IF body.error # None THEN Refused(body.error)
       ELSE [error |-> None, messages |-> Hoisted(body.messages), tools |-> declared]

-----------------------------------------------------------------------------
(***************************************************************************)
(* What a Chat Completions upstream accepts.                                *)
(***************************************************************************)
CallsOf(m) == {m.calls[i].id : i \in DOMAIN m.calls}

\* A result follows the message that made the call, with only the results of
\* other calls of that message between them.
ResultsFollowCalls(messages) ==
    \A i \in DOMAIN messages : messages[i].role = "tool" =>
        \E j \in 1..(i - 1) :
            /\ messages[i].content \in CallsOf(messages[j])
            /\ \A k \in (j + 1)..(i - 1) : messages[k].role = "tool"

NoCallTwice(messages) ==
    \A i, j \in DOMAIN messages :
        \A m \in DOMAIN messages[i].calls, n \in DOMAIN messages[j].calls :
            messages[i].calls[m].id = messages[j].calls[n].id => i = j /\ m = n

TurnsCarryReasoning(messages) ==
    \A i \in DOMAIN messages : messages[i].calls # <<>> => messages[i].reasoning # <<>>
=============================================================================
