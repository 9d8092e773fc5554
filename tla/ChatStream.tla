----------------------------- MODULE ChatStream -----------------------------
(***************************************************************************)
(* The state machine that turns the frames of a Chat Completions stream     *)
(* into the events of a Responses stream (services/adapters/sse.rs).  An    *)
(* adapter is a record; each operator returns the adapter after a call,     *)
(* with the events of the call in `out`, or `err` when the call failed.     *)
(***************************************************************************)
EXTENDS ChatRequest, Integers, FiniteSets

CONSTANT
    MaxText      \* a streamed text of more fragments is over the limit

ASSUME TextAssumption == MaxText \in Nat

Message0 == [kind |-> "message", id |-> None, index |-> 0, tool |-> None]

NewAdapter(captures, declared) ==
    [state |-> "new", seq |-> 0, text |-> 0, open |-> FALSE, output |-> <<>>,
     calls |-> <<>>, ids |-> {}, captures |-> captures, thought |-> 0,
     reasoning |-> None, thinking |-> FALSE, status |-> "completed",
     declared |-> declared, out |-> <<>>, failures |-> <<>>, err |-> FALSE]

Terminals == {"completed", "incomplete", "failed"}
IsOver(a) == a.state \in {"completed", "failed", "cancelled"}

\* The events that close the message repeat its text, and so does the end.
Repeats(a, type, item) ==
    \/ type \in {"closing", "done"} /\ item = Message0
    \/ type \in Terminals /\ Message0 \in ToSet(a.output)

\* Every event takes the next number.
Event(a, type, item) ==
    [type |-> type, seq |-> a.seq, item |-> item,
     size |-> IF Repeats(a, type, item) /\ a.text > 1 THEN a.text ELSE 1]
Emit(a, type, item) ==
    [a EXCEPT !.seq = @ + 1, !.out = Append(@, Event(a, type, item))]

\* What the call produced so far is dropped; the failure is kept aside, and
\* an adapter that is over keeps the end it has.
Fail(a) ==
    IF IsOver(a) THEN [a EXCEPT !.err = TRUE, !.out = <<>>]
    ELSE [a EXCEPT !.state = "failed", !.seq = @ + 1, !.err = TRUE, !.out = <<>>,
                   !.failures = Append(@, Event(a, "failed", None))]

Started(a) == Emit([a EXCEPT !.state = "open"], "created", None)

(***************************************************************************)
(* The text and the reasoning of the answer.                                *)
(***************************************************************************)
OpenText(a) ==
    Emit(Emit([a EXCEPT !.open = TRUE, !.state = "item"], "added", Message0), "part", Message0)

TextDelta(a) ==
    IF a.text >= MaxText THEN Fail(a)
    ELSE Emit([IF a.open THEN a ELSE OpenText(a) EXCEPT !.text = @ + 1], "delta", Message0)

FinishText(a) ==
    LET b == IF a.open THEN a ELSE OpenText(a)
        c == Emit(Emit(b, "closing", Message0), "closing", Message0)
    IN Emit([c EXCEPT !.output = Append(@, Message0), !.open = FALSE], "done", Message0)

ReasoningDelta(a) ==
    IF ~a.captures THEN a
    ELSE LET item == [kind |-> "reasoning", id |-> None, index |-> Len(a.output), tool |-> None]
             b == IF a.reasoning # None THEN a
                  ELSE Emit(Emit([a EXCEPT !.reasoning = item, !.thinking = TRUE],
                                 "added", item), "part", item)
         IN Emit([b EXCEPT !.thought = @ + 1], "delta", b.reasoning)

FinishReasoning(a) ==
    IF ~a.thinking THEN a
    ELSE LET b == Emit([a EXCEPT !.thinking = FALSE], "closing", a.reasoning)
         IN Emit([b EXCEPT !.output = Append(@, b.reasoning)], "done", b.reasoning)

(***************************************************************************)
(* Tool calls, by the index the upstream gives them.  `halves` counts the   *)
(* pieces of the arguments: two of them are a JSON value.                   *)
(***************************************************************************)
NoCall == [id |-> None, name |-> None, halves |-> 0, item |-> None]

NextIndex(a) ==
    Len(a.output) + Cardinality({i \in DOMAIN a.calls : a.calls[i].item # None})
      + (IF a.thinking THEN 1 ELSE 0)

ToolDelta(a, d) ==
    LET old == IF d.index \in DOMAIN a.calls THEN a.calls[d.index] ELSE NoCall
        wrong == \/ d.id # None /\ old.id = None /\ d.id \in a.ids
                 \/ d.id # None /\ old.id \notin {None, d.id}
                 \/ d.name # None /\ old.name \notin {None, d.name}
        id == IF old.id = None THEN d.id ELSE old.id
        name == IF old.name = None THEN d.name ELSE old.name
        fresh == old.item = None /\ id # None /\ name # None
        tool == Identity(a.declared, name)
        item == IF fresh
                THEN [kind |-> tool.kind, id |-> id, index |-> NextIndex(a), tool |-> tool]
                ELSE old.item
        call == [id |-> id, name |-> name, halves |-> old.halves + d.halves, item |-> item]
        b == [a EXCEPT !.ids = IF d.id = None THEN @ ELSE @ \cup {d.id},
                       !.calls = [i \in DOMAIN @ \cup {d.index} |->
                                     IF i = d.index THEN call ELSE @[i]]]
        c == IF fresh THEN Emit(b, "added", item) ELSE b
        grown == IF fresh THEN call.halves > 0 ELSE item # None /\ d.halves > 0
    IN IF wrong THEN Fail(a)
       ELSE IF grown /\ item.kind # "custom" THEN Emit(c, "delta", item) ELSE c

FinishCall(a, call) ==
    IF a.err THEN a
    ELSE IF call.item = None \/ call.halves # 2 THEN Fail(a)
    ELSE LET b == CASE call.item.kind = "custom" ->
                         Emit(Emit(a, "delta", call.item), "closing", call.item)
                    [] call.item.kind = "function" -> Emit(a, "closing", call.item)
                    [] OTHER -> a
         IN Emit([b EXCEPT !.output = Append(@, call.item)], "done", call.item)

\* The calls are finished in the order their items were added, those without
\* an item last.
NoLater(c, d) == d.item = None \/ (c.item # None /\ c.item.index <= d.item.index)
LastOf(calls) == CHOOSE c \in calls : \A d \in calls : NoLater(d, c)

FinishTools(a) ==
    IF a.calls = <<>> THEN Fail(a)
    ELSE MapThenFoldSet(LAMBDA call, b : FinishCall(b, call), [a EXCEPT !.calls = <<>>],
                        LAMBDA call : call, LastOf, Range(a.calls))

(***************************************************************************)
(* A chunk of the answer, the finish reason, and [DONE].                    *)
(***************************************************************************)
Finish(a, reason) ==
    LET b == FinishReasoning(IF reason = "length" THEN [a EXCEPT !.status = "incomplete"] ELSE a)
        c == IF reason = "tool_calls"
             THEN FinishTools(IF b.open THEN FinishText(b) ELSE b)
             ELSE FinishText(b)
    IN IF c.err THEN c ELSE [c EXCEPT !.state = "awaiting"]

Complete(a) ==
    IF IsOver(a) THEN [a EXCEPT !.err = TRUE, !.out = <<>>]
    ELSE IF a.open \/ a.state = "open" THEN Fail(a)
    ELSE Emit([a EXCEPT !.state = "completed"], a.status, None)

Accept(a, frame) ==
    IF a.err THEN a
    ELSE CASE frame.k = "content" -> TextDelta(a)
           [] frame.k = "reasoning" -> ReasoningDelta(a)
           [] frame.k = "tool" -> ToolDelta(IF a.open THEN FinishText(a) ELSE a, frame)
           [] frame.k = "finish" -> Finish(a, frame.reason)
           [] frame.k = "DONE" -> Complete(a)
           [] OTHER -> Fail(a)

\* The bytes of one read.  They are cut into frames before any of them is
\* looked at; a frame of comments only, or with an unknown field, is
\* malformed, where "junk" is a frame whose JSON is refused later on.
PushBytes(a, frames) ==
    IF IsOver(a) THEN [a EXCEPT !.err = TRUE, !.out = <<>>]
    ELSE LET b == [a EXCEPT !.out = <<>>]
         IN IF \E i \in DOMAIN frames : frames[i].k = "malformed" THEN Fail(b)
            ELSE FoldLeft(Accept, b, frames)

\* Mutant: a stream may end without [DONE] once it gave its finish reason.
EndOfStreamEarly(a) ==
    IF a.state \in {"completed", "awaiting"} THEN [a EXCEPT !.out = <<>>]
    ELSE IF IsOver(a) THEN [a EXCEPT !.err = TRUE, !.out = <<>>]
    ELSE Fail(a)

EndOfStream(a) ==
    IF a.state = "completed" THEN [a EXCEPT !.out = <<>>]
    ELSE IF IsOver(a) THEN [a EXCEPT !.err = TRUE, !.out = <<>>]
    ELSE Fail(a)

\* The tool calls of the answer, for the reasoning history.
ToolCallIds(a) == {a.output[i].id : i \in DOMAIN a.output} \ {None}
=============================================================================
