--------------------------- MODULE ResponseStream ---------------------------
(***************************************************************************)
(* One request of Codex through the Gateway, from its translation to the    *)
(* last byte of the answer, and the request Codex makes next                *)
(* (services/gateway/routes.rs, upstream.rs, server.rs).                    *)
(*                                                                         *)
(* A task reads the upstream and feeds a channel that is bounded in frames  *)
(* and in bytes; the body that Codex reads is the other end.  The upstream  *)
(* cuts its stream into reads as it likes, breaks off or falls silent, and  *)
(* Codex may leave at any time.  The reasoning of a turn that calls tools   *)
(* is remembered per conversation, for the request that brings the results. *)
(***************************************************************************)
EXTENDS ChatStream

CONSTANTS
    Requests,          \* what Codex may ask: [route, stream, thinking, items, tools]
    Answers,           \* what an upstream that does not stream may answer
    ToolFrames,        \* the tool deltas of a stream
    MaxSessions,       \* MAX_REASONING_HISTORY_SESSIONS
    Capacity,          \* MAX_EVENT_CHANNEL_CAPACITY
    MaxBytes,          \* MAX_EVENT_CHANNEL_BYTES
    ConnectRetries, FirstByteRetries,
    MaxFrames,         \* bound: frames of an upstream stream
    MaxRead,           \* bound: frames in one read
    MaxOthers          \* bound: other conversations, each with one request

ASSUME StreamAssumption ==
    /\ {MaxSessions, Capacity, MaxBytes} \subseteq Nat \ {0}
    /\ MaxRead <= MaxBytes
    /\ {ConnectRetries, FirstByteRetries, MaxFrames, MaxRead, MaxOthers} \subseteq Nat

ASSUME RequestAssumption ==
    \A r \in Requests :
        /\ r.route \in {"adapted", "passthrough"} /\ {r.stream, r.thinking} \subseteq BOOLEAN
        /\ ToSet(ToolsOf(r)) \subseteq Identities
        /\ r.items \in Seq(ToSet(r.items))
        /\ \A item \in ToSet(r.items) :
              item.kind = "reasoning" => item.text \in Seq(ToSet(item.text))

\* The items of a streamed answer, which are a record each where None is none.
StreamTools == Identities \cup [ns : {None}, name : {f.name : f \in ToolFrames},
                                kind : {"local_shell", "function"}]
StreamItems ==
    [kind : {"message", "reasoning"} \cup {t.kind : t \in StreamTools},
     id : CallIds \cup {None}, index : Nat, tool : StreamTools \cup {None}]

ASSUME AnswerAssumption ==
    /\ None \notin {"finished"} \cup StreamItems
    /\ \A f \in ToolFrames : f.k = "tool" /\ f.id \in CallIds \cup {None} /\ f.halves \in Nat
    /\ \A answer \in Answers : answer \in Seq(ToSet(answer)) /\ IsInjective(answer)

VARIABLES
    req,       \* the request
    stage,     \* where its handler or its task is
    messages,  \* the messages sent upstream
    exchange,  \* the adapter's exchange
    attempts,  \* how often the upstream was tried
    tardy,     \* the attempts that ended without a first byte
    up,        \* what the upstream streamed so far
    adapter,   \* the translation (adapted), or
    watch,     \* the observer of terminal events (passthrough)
    outbox,    \* what the task is sending
    rest,      \* what the task does afterwards: reads on, or ends
    ending,    \* history: why the task ended
    channel,   \* the frames on their way to Codex
    client,    \* Codex: waiting, reading, ended or left
    got,       \* what Codex made of the frames
    memory,    \* the reasoning histories, the least recently used first
    since,     \* history: the conversations that came after ours
    others,    \* counts the other conversations
    next       \* what became of the next request

handling == <<messages, exchange, attempts, tardy>>
reading  == <<up, adapter, watch, outbox, rest, ending>>
codex    == <<channel, client, got>>
history  == <<memory, since, others>>
vars == <<req, stage, messages, exchange, attempts, tardy, up, adapter, watch,
          outbox, rest, ending, channel, client, got, memory, since, others, next>>

-----------------------------------------------------------------------------
(***************************************************************************)
(* The reasoning histories.  An entry maps the calls of a turn to the       *)
(* reasoning of that turn.                                                  *)
(***************************************************************************)
Mine == 0

Known(key) == \E i \in DOMAIN memory : memory[i].key = key
Place(key) == CHOOSE i \in DOMAIN memory : memory[i].key = key
Entry(key) == IF Known(key) THEN memory[Place(key)].calls ELSE <<>>

\* Mutant: the oldest entry goes, however recently it was used.
UsedOldest(key, calls) ==
    IF Known(key)
    THEN [i \in DOMAIN memory |->
             IF memory[i].key = key THEN [key |-> key, calls |-> calls] ELSE memory[i]]
    ELSE Append(IF Len(memory) >= MaxSessions THEN Tail(memory) ELSE memory,
                [key |-> key, calls |-> calls])

\* The entry is made if need be, in place of the least recently used one, and
\* becomes the most recently used.
Used(key, calls) ==
    LET room == IF Known(key) THEN RemoveAt(memory, Place(key))
                ELSE IF Len(memory) >= MaxSessions THEN Tail(memory) ELSE memory
    IN Append(room, [key |-> key, calls |-> calls])

With(calls, ids, reasoning) ==
    [id \in DOMAIN calls \cup ids |-> IF id \in ids THEN reasoning ELSE calls[id]]

Reasoning == <<"why">>

Recorded(ids, thought) ==
    IF ~req.thinking \/ ids = {} \/ ~thought
    THEN UNCHANGED <<memory, since>>
    ELSE /\ memory' = Used(Mine, With(Entry(Mine), ids, Reasoning))
         /\ since' = {}

-----------------------------------------------------------------------------
(***************************************************************************)
(* The handler: a request is translated, or forwarded as it is, and the     *)
(* upstream is opened.  A connection that cannot be made is tried again; a   *)
(* first byte that does not come has a budget of its own.                   *)
(***************************************************************************)
Policy == [reasoning |-> req.thinking]

NoFrames == [n |-> 0, rank |-> 0, tools |-> <<>>, odd |-> FALSE, overrun |-> FALSE]
NoNext == [asked |-> FALSE]
NoView == [last |-> -1, added |-> {}, done |-> <<>>, terminals |-> <<>>]

Init ==
    /\ req \in Requests
    /\ stage = "arrived" /\ messages = <<>> /\ exchange = None
    /\ attempts = 0 /\ tardy = 0
    /\ up = NoFrames /\ adapter = NewAdapter(FALSE, <<>>) /\ watch = FALSE
    /\ outbox = <<>> /\ rest = None /\ ending = None
    /\ channel = <<>> /\ client = "waiting" /\ got = NoView
    /\ memory = <<>> /\ since = {} /\ others = 0 /\ next = NoNext

\* An answer that is not a stream.
Answer(code) ==
    /\ stage' = "answered"
    /\ ending' = code
    /\ exchange' = IF exchange = "open" THEN "cancelled" ELSE exchange

Receive ==
    /\ stage = "arrived"
    /\ IF req.route = "passthrough"
       THEN /\ stage' = "open"
            /\ UNCHANGED <<messages, exchange, ending, memory, since>>
       ELSE LET t == Translated(req, Policy, Entry(Mine))
            IN /\ IF req.thinking
                  THEN memory' = Used(Mine, Entry(Mine)) /\ since' = {}
                  ELSE UNCHANGED <<memory, since>>
               /\ IF t.error # None
                  THEN stage' = "answered" /\ ending' = t.error /\ UNCHANGED <<messages, exchange>>
                  ELSE /\ stage' = "open" /\ messages' = t.messages /\ exchange' = "open"
                       /\ UNCHANGED ending
    /\ UNCHANGED <<req, attempts, tardy, up, adapter, watch, outbox, rest, codex,
                   others, next>>

\* The request is not one the Gateway serves: its JSON, its model, its tool
\* choice or its adapter; or no connection is free, or the key is not there.
Refuse ==
    /\ stage \in {"arrived", "open"}
    /\ Answer("refused")
    /\ UNCHANGED <<req, messages, attempts, tardy, up, adapter, watch, outbox, rest,
                   codex, history, next>>

Open ==
    /\ stage = "open"
    /\ stage' = "resolve"
    /\ UNCHANGED <<req, handling, reading, codex, history, next>>

\* The name is resolved on every attempt; this may be tried again.
Resolve ==
    /\ stage = "resolve"
    /\ attempts' = attempts + 1
    /\ \/ stage' = "send" /\ UNCHANGED <<exchange, ending>>
       \/ attempts' <= ConnectRetries /\ UNCHANGED <<stage, exchange, ending>>
       \/ Answer("unreachable")
    /\ UNCHANGED <<req, messages, tardy, up, adapter, watch, outbox, rest, codex,
                   history, next>>

ConnectFails ==
    /\ stage = "send"
    /\ IF attempts <= ConnectRetries
       THEN stage' = "resolve" /\ UNCHANGED <<exchange, ending>>
       ELSE Answer("unreachable")
    /\ UNCHANGED <<req, messages, attempts, tardy, up, adapter, watch, outbox, rest,
                   codex, history, next>>

FirstByteIsLate ==
    /\ stage = "send"
    /\ tardy' = tardy + 1
    /\ IF tardy' <= FirstByteRetries
       THEN stage' = "resolve" /\ UNCHANGED <<exchange, ending>>
       ELSE Answer("late")
    /\ UNCHANGED <<req, messages, attempts, up, adapter, watch, outbox, rest, codex,
                   history, next>>

\* Any other failure, an error status, or a content type that is not a stream.
UpstreamRefuses ==
    /\ stage = "send"
    /\ Answer("upstream")
    /\ UNCHANGED <<req, messages, attempts, tardy, up, adapter, watch, outbox, rest, codex,
                   history, next>>

\* A whole answer: the reasoning is recorded before Codex has the answer.
AnswerWhole(answer) ==
    /\ stage = "send"
    /\ ~req.stream
    /\ stage' = "answered"
    /\ IF req.route = "passthrough"
       THEN exchange' = exchange /\ ending' = "whole" /\ UNCHANGED <<memory, since, got>>
       ELSE LET calls == SelectSeq(answer, LAMBDA i : i.kind \in Kinds)
            IN /\ exchange' = "completed" /\ ending' = "whole"
               /\ Recorded({calls[i].id : i \in DOMAIN calls},
                           \E i \in DOMAIN answer : answer[i].kind = "reasoning")
               /\ got' = [got EXCEPT !.done = answer, !.added = ToSet(answer),
                                     !.terminals = <<"completed">>]
    /\ UNCHANGED <<req, messages, attempts, tardy, up, adapter, watch, outbox, rest,
                   channel, client, others, next>>

StartStream ==
    /\ stage = "send"
    /\ req.stream
    /\ stage' = "streaming"
    /\ client' = "reading"
    /\ IF req.route = "passthrough"
       THEN UNCHANGED <<adapter, outbox>>
       ELSE LET a == Started(NewAdapter(req.thinking, ToolsOf(req)))
            IN adapter' = a /\ outbox' = [i \in DOMAIN a.out |-> <<a.out[i]>>]
    /\ rest' = "read"
    /\ attempts' = 0 /\ tardy' = 0     \* they are of no use any more
    /\ UNCHANGED <<req, messages, exchange, up, watch, ending, channel, got,
                   history, next>>

-----------------------------------------------------------------------------
(***************************************************************************)
(* The upstream.  An orderly stream has reasoning, then text, then calls,   *)
(* a finish reason that fits, and [DONE]; MaxFrames bounds it and at most   *)
(* one of its frames is out of order.                                       *)
(***************************************************************************)
Frame(k) == [k |-> k]
Finishes == {[k |-> "finish", reason |-> r] : r \in {"stop", "length", "tool_calls"}}
ChatFrames == {Frame(k) : k \in {"reasoning", "content", "DONE", "junk", "malformed"}}
                \cup Finishes \cup ToolFrames
\* "head" and "tail" are the two parts of a terminal event that is larger than
\* what the observer keeps of an unfinished frame.
NativeFrames == {Frame(k) : k \in {"event", "terminal", "DONE", "head", "tail"}}

Rank(f) == CASE f.k = "reasoning" -> 1 [] f.k = "content" -> 2 [] f.k = "tool" -> 3
             [] f.k = "finish" -> 4 [] f.k = "DONE" -> 5 [] OTHER -> 0

Halves(u, i) == IF i \in DOMAIN u.tools THEN u.tools[i] ELSE 0

InOrder(u, f) ==
    CASE f.k = "reasoning" -> u.rank <= 1
      [] f.k = "content" -> u.rank <= 2
      [] f.k = "tool" -> /\ u.rank <= 3
                         /\ (f.id # None /\ f.name # None) <=> f.index \notin DOMAIN u.tools
                         /\ Halves(u, f.index) + f.halves <= 2
                         /\ f.halves > 0
      [] f.k = "finish" -> IF f.reason = "tool_calls"
                           THEN u.rank = 3 /\ \A i \in DOMAIN u.tools : u.tools[i] = 2
                           ELSE u.rank <= 2
      [] f.k = "DONE" -> u.rank = 4
      [] OTHER -> FALSE

Streamed(u, f) ==
    [n |-> u.n + 1,
     rank |-> IF Rank(f) > u.rank THEN Rank(f) ELSE u.rank,
     tools |-> IF f.k = "tool"
               THEN [i \in DOMAIN u.tools \cup {f.index} |->
                        Halves(u, i) + (IF i = f.index THEN f.halves ELSE 0)]
               ELSE u.tools,
     odd |-> u.odd \/ ~InOrder(u, f),
     overrun |-> u.overrun \/ u.rank = 5]

\* A native stream has its terminal event once, and perhaps [DONE] after it.
StreamedNative(u, f) ==
    [u EXCEPT !.n = @ + 1,
              !.rank = CASE f.k = "event" -> 1 [] f.k = "head" -> 2
                         [] f.k \in {"terminal", "tail"} -> 3 [] OTHER -> 4,
              !.odd = @ \/ f.k = "tail",
              !.overrun = @ \/ u.rank = 3]
NativeNext(u) ==
    CASE u.rank <= 1 -> {Frame("event"), Frame("terminal"), Frame("head")}
      [] u.rank = 2 -> {Frame("tail")}
      [] u.rank = 3 -> {Frame("DONE")}
      [] OTHER -> {}

Frames == IF req.route = "passthrough" THEN NativeFrames ELSE ChatFrames

MayFollow(u, f) ==
    /\ u.n < MaxFrames
    /\ IF req.route = "passthrough" THEN f \in NativeNext(u) ELSE InOrder(u, f) \/ ~u.odd

After(u, f) == IF req.route = "passthrough" THEN StreamedNative(u, f) ELSE Streamed(u, f)
Upstream(u, frames) == FoldLeft(After, u, frames)

\* The reads the upstream may produce.
Reads(u) ==
    {frames \in UNION {[1..n -> Frames] : n \in 1..MaxRead} :
        \A i \in DOMAIN frames :
            MayFollow(Upstream(u, SubSeq(frames, 1, i - 1)), frames[i])}

-----------------------------------------------------------------------------
(***************************************************************************)
(* The task that reads the upstream.                                        *)
(***************************************************************************)
Single(events) == [i \in DOMAIN events |-> <<events[i]>>]
PlusEvent(n, e) == n + e.size
Bytes(frame) == FoldLeft(PlusEvent, 0, frame)
PlusFrame(n, frame) == n + Bytes(frame)
Queued == FoldLeft(PlusFrame, 0, channel)

Gone == client = "left"
ErrorFrame == <<[type |-> "error", seq |-> up.n, item |-> None, size |-> 1]>>

\* The last the task does: it sends what it still may, and goes.
Ends(cause, frames) ==
    /\ rest' = "end"
    /\ outbox' = frames
    /\ ending' = cause
    /\ exchange' = IF req.route = "passthrough" THEN exchange
                   ELSE IF cause = "finished" THEN "completed" ELSE "cancelled"

Pumping == stage = "streaming" /\ rest = "read" /\ outbox = <<>>

\* A frame the observer sees ends the stream for it only if no other frame
\* follows in the same read: each frame sets the flag anew.
Observed(frames) ==
    \/ watch
    \/ \E i \in DOMAIN frames :
          frames[i].k = "terminal" /\ \A j \in (i + 1)..Len(frames) : frames[j].k = "head"

Native(frames) ==
    [i \in DOMAIN frames |->
        [type |-> IF frames[i].k \in {"terminal", "tail"} THEN "completed" ELSE frames[i].k,
         seq |-> up.n + i - 1, item |-> None, size |-> 1]]

ReadChunk ==
    /\ Pumping
    /\ \E frames \in Reads(up) :
        /\ up' = Upstream(up, frames)
        /\ IF req.route = "passthrough"
           THEN /\ watch' = Observed(frames)
                /\ outbox' = <<Native(frames)>>
                /\ UNCHANGED <<adapter, rest, ending, exchange>>
           ELSE LET a == PushBytes(adapter, frames)
                IN /\ adapter' = [a EXCEPT !.out = <<>>]
                   /\ IF a.err
                      THEN Ends("malformed", Single(a.failures))
                      ELSE outbox' = Single(a.out) /\ UNCHANGED <<rest, ending, exchange>>
                   /\ UNCHANGED watch
    /\ UNCHANGED <<req, stage, messages, attempts, tardy, codex, history, next>>

ReadEnd ==
    /\ Pumping
    /\ IF req.route = "passthrough"
       THEN /\ Ends("eof", IF watch THEN <<>> ELSE <<ErrorFrame>>)
            /\ UNCHANGED <<adapter, memory, since>>
       ELSE LET a == EndOfStream(adapter)
            IN /\ adapter' = a
               /\ IF a.err
                  THEN Ends("eof", Single(a.failures)) /\ UNCHANGED <<memory, since>>
                  ELSE Ends("finished", <<>>) /\ Recorded(ToolCallIds(a), a.thought > 0)
    /\ UNCHANGED <<req, stage, messages, attempts, tardy, up, watch, codex, others, next>>

\* Mutant: a read that failed is tried again.
ReadFailsRetried == Pumping /\ UNCHANGED vars

\* No byte came in time, the connection broke, too many bytes came, or the
\* request was cancelled.
ReadFails ==
    /\ Pumping
    /\ Ends("transport", IF req.route = "passthrough"
                         THEN IF watch THEN <<>> ELSE <<ErrorFrame>>
                         ELSE Single(adapter.failures))
    /\ UNCHANGED <<req, stage, messages, attempts, tardy, up, adapter, watch, codex,
                   history, next>>

\* The next frame goes into the channel when there is room for it.  A task
\* whose receiver is gone, or an event that is larger than the whole budget,
\* ends it.
Sending == stage = "streaming" /\ outbox # <<>>

Send ==
    /\ Sending
    /\ ~Gone
    /\ Bytes(Head(outbox)) <= MaxBytes
    /\ Queued + Bytes(Head(outbox)) <= MaxBytes
    /\ Len(channel) < Capacity
    /\ channel' = Append(channel, Head(outbox))
    /\ outbox' = Tail(outbox)
    /\ UNCHANGED <<req, stage, handling, up, adapter, watch, rest, ending, client, got,
                   history, next>>

SendFails ==
    /\ Sending
    /\ Gone \/ Bytes(Head(outbox)) > MaxBytes
    /\ IF rest = "end"
       THEN /\ outbox' = <<>>
            /\ ending' = IF Gone THEN ending ELSE "oversized"
            /\ UNCHANGED <<rest, exchange>>
       ELSE Ends(IF Gone THEN "gone" ELSE "oversized", <<>>)
    /\ UNCHANGED <<req, stage, messages, attempts, tardy, up, adapter, watch, codex,
                   history, next>>

TaskEnds ==
    /\ stage = "streaming" /\ rest = "end" /\ outbox = <<>>
    /\ stage' = "ended"
    /\ UNCHANGED <<req, handling, reading, codex, history, next>>

-----------------------------------------------------------------------------
(***************************************************************************)
(* Codex.                                                                   *)
(***************************************************************************)
View(g, e) ==
    [last |-> e.seq,
     added |-> IF e.type = "added" THEN g.added \cup {e.item} ELSE g.added,
     done |-> IF e.type = "done" THEN Append(g.done, e.item) ELSE g.done,
     terminals |-> IF e.type \in Terminals \cup {"error"} THEN Append(g.terminals, e.type)
                   ELSE g.terminals]

ClientReads ==
    /\ client = "reading"
    /\ channel # <<>>
    /\ got' = FoldLeft(View, got, Head(channel))
    /\ channel' = Tail(channel)
    /\ UNCHANGED <<req, stage, handling, reading, client, history, next>>

ClientSeesEnd ==
    /\ client = "reading"
    /\ stage = "ended" /\ channel = <<>>
    /\ client' = "ended"
    /\ UNCHANGED <<req, stage, handling, reading, channel, got, history, next>>

\* Before the answer began, the handler is dropped where it is; afterwards
\* the guard of the body cancels the request.
ClientLeaves ==
    /\ client \in {"waiting", "reading"}
    /\ stage # "answered"
    /\ client' = "left"
    /\ channel' = <<>> /\ got' = NoView
    /\ stage' = IF client = "waiting" THEN "dropped" ELSE stage
    /\ UNCHANGED <<req, handling, reading, history, next>>

\* Codex acts on the end of the answer as soon as it has read it: it runs the
\* tools and sends the conversation with their results, and with the reasoning
\* or without it.
Codexs(item) ==
    CASE item.kind = "message" -> [kind |-> "assistant", text |-> <<"said">>]
      [] item.kind = "reasoning" -> [kind |-> "reasoning", text |-> Reasoning]
      [] OTHER -> [kind |-> item.kind, ns |-> item.tool.ns, name |-> item.tool.name,
                   id |-> item.id, json |-> TRUE]
Echo(items, item, echoes) ==
    IF item.kind = "reasoning" /\ ~echoes THEN items ELSE Append(items, Codexs(item))
Result(items, item) ==
    IF item.kind \in Kinds THEN Append(items, [kind |-> "output", id |-> item.id]) ELSE items
Calls == SelectSeq(got.done, LAMBDA i : i.kind \in Kinds)
Echoed(echoes) ==
    FoldLeft(LAMBDA items, item : Echo(items, item, echoes), req.items, got.done)
NextItems(echoes) == FoldLeft(Result, Echoed(echoes), got.done)

FollowUp(echoes) ==
    /\ ~next.asked
    /\ req.route = "adapted"
    /\ "completed" \in ToSet(got.terminals)
    /\ Calls # <<>>
    /\ client # "left"
    /\ LET t == Translated([items |-> NextItems(echoes), tools |-> req.tools], Policy,
                           Entry(Mine))
       IN next' = [asked |-> TRUE, error |-> t.error, messages |-> t.messages,
                   \* history: what could have cost the turn its reasoning
                   echoed |-> echoes, raced |-> stage = "streaming",
                   lost |-> ~\E e \in ToSet(memory) : e.key = Mine /\ e.calls # <<>>,
                   silent |-> \A i \in DOMAIN got.done : got.done[i].kind # "reasoning",
                   declared |-> \A i \in DOMAIN Calls : Calls[i].kind = "function"]
    /\ IF req.thinking
       THEN memory' = Used(Mine, Entry(Mine)) /\ since' = IF Known(Mine) THEN {} ELSE since
       ELSE UNCHANGED <<memory, since>>
    /\ UNCHANGED <<req, stage, handling, reading, codex, others>>

\* Another conversation is served, which concerns ours if both use the store.
\* (The order of this step and of the steps that move a frame makes no
\* difference to either: it comes when no frame is on its way.)
OtherTurn ==
    /\ req.thinking /\ others < MaxOthers
    /\ outbox = <<>> /\ channel = <<>>
    /\ others' = others + 1
    /\ memory' = Used(others', <<>>)
    /\ since' = since \cup {others'}
    /\ UNCHANGED <<req, stage, handling, reading, codex, next>>

Done ==
    /\ stage \in {"answered", "dropped", "ended"}
    /\ client # "reading"
    /\ UNCHANGED vars

Next ==
    \/ Receive \/ Refuse \/ Open \/ Resolve
    \/ ConnectFails \/ FirstByteIsLate \/ UpstreamRefuses
    \/ \E answer \in Answers : AnswerWhole(answer)
    \/ StartStream
    \/ ReadChunk \/ ReadEnd \/ ReadFails \/ Send \/ SendFails \/ TaskEnds
    \/ ClientReads \/ ClientSeesEnd \/ ClientLeaves
    \/ (\E echoes \in BOOLEAN : FollowUp(echoes)) \/ OtherTurn
    \/ Done

Spec == Init /\ [][Next]_vars

(***************************************************************************)
(* A read of the upstream has a timeout, and so has the whole stream; the   *)
(* task sends as soon as there is room; Codex reads what it is sent, unless *)
(* it leaves.                                                               *)
(***************************************************************************)
FairSpec ==
    Spec /\ WF_vars(ReadFails) /\ WF_vars(Send \/ SendFails \/ TaskEnds) /\ WF_vars(ClientReads)

-----------------------------------------------------------------------------
(***************************************************************************)
(* Correctness.                                                            *)
(***************************************************************************)
IsPassthrough == req.route = "passthrough"
Told == got.terminals # <<>>

\* The attempts that the upstream may have acted on: those whose first byte
\* did not come in time, and the one under way.
Sent == tardy + (IF stage = "send" THEN 1 ELSE 0)

\* The upstream is given a request, which it may have acted on, at most once
\* more than the retries of the first byte, and a connection is tried no more
\* often than both budgets allow together.
RetriesAreBounded ==
    /\ Sent <= 1 + FirstByteRetries
    /\ attempts <= 1 + ConnectRetries + FirstByteRetries

\* Every variable has its type: the channel keeps both of its limits, the store
\* of histories its size, and the retries end.
TypeOK ==
    /\ req \in Requests
    /\ stage \in {"arrived", "open", "resolve", "send", "streaming", "answered", "dropped",
                  "ended"}
    /\ exchange \in {None, "open", "completed", "cancelled"}
    /\ RetriesAreBounded
    /\ up.n \in 0..MaxFrames
    /\ adapter.state \in {"new", "open", "item", "awaiting", "completed", "failed"}
    /\ adapter.text \in 0..MaxText
    /\ Len(channel) <= Capacity /\ Queued <= MaxBytes
    /\ client \in {"waiting", "reading", "ended", "left"}
    /\ Len(memory) <= MaxSessions
    /\ \A i, j \in DOMAIN memory : memory[i].key = memory[j].key => i = j
    /\ others \in 0..MaxOthers

\* Codex is told how an answer ended once: a stream that keeps the protocol up
\* to its last frame is never ended twice, whatever the connection, the channel
\* and the task go through afterwards (for frames after the last one see
\* AtMostOneTerminal), and no body ends untold unless the connection to the
\* upstream was lost (see FailureIsTold) or an event was larger than the channel.
OrderlyEndsOnce ==
    ~up.overrun /\ (IsPassthrough => ~up.odd) => Len(got.terminals) <= 1
EndIsTold ==
    client = "ended" =>
        \/ Told
        \/ ~IsPassthrough /\ (ending \in {"transport", "oversized"} \/ up.overrun)
EndIsToldOnce == OrderlyEndsOnce /\ EndIsTold

\* If the upstream kept the protocol, then an answer that ends without a failure
\* ends as complete, and in a complete answer every item that was opened was
\* closed, once, and nothing was closed that was not opened.
Succeeded == got.terminals \in {<<"completed">>, <<"incomplete">>}
CompleteIsWhole ==
    ~IsPassthrough /\ ~up.odd =>
        /\ client = "ended" /\ ending = "finished" => Succeeded
        /\ Succeeded => /\ got.added = ToSet(got.done)
                        /\ Len(got.done) = Cardinality(got.added)

\* An answer ends once, with a word, and whole.
EndsAreWhole == TypeOK /\ EndIsToldOnce /\ CompleteIsWhole

\* The turns that call tools stay complete, in what is sent upstream and in what
\* is kept for it.  In the first request and in the one that carries the results
\* of the answer no call is there twice, however the calls of both are grouped
\* into messages and whatever the upstream answered, and every turn has its
\* reasoning where the provider wants it.  And the reasoning of the answer is
\* there for the next request as long as fewer other conversations were served
\* since than the store has places.
SentMessages == {messages} \cup (IF next.asked THEN {next.messages} ELSE {})
TurnsAreWhole ==
    \A ms \in SentMessages :
        NoCallTwice(ms) /\ (req.thinking => TurnsCarryReasoning(ms))
ReasoningIsKept ==
    (/\ req.thinking /\ ~IsPassthrough /\ ending = "finished" /\ adapter.thought > 0
     /\ Cardinality(since) < MaxSessions)
      => ToolCallIds(adapter) \subseteq DOMAIN Entry(Mine)
TurnsAreComplete == TurnsAreWhole /\ ReasoningIsKept

\* The results of tools are served: a result comes directly after its call, in
\* the first request and in the one that brings the results of an orderly
\* answer; and that one is refused only if Codex does not send the reasoning
\* itself and the turn had none, the history was evicted, the request overtook
\* the record (see FollowUpIsServed), or a call was not one of a function.
ResultsAreInPlace ==
    \A ms \in SentMessages : ms = messages \/ ~up.odd => ResultsFollowCalls(ms)
RefusalHasCause ==
    next.asked /\ next.error # None /\ ~up.odd =>
        /\ next.error = "ReasoningHistoryRequired"
        /\ req.thinking
        /\ \/ next.silent
           \/ ~next.echoed /\ (next.lost \/ next.raced \/ ~next.declared)
ResultsAreServed == ResultsAreInPlace /\ RefusalHasCause

\* The task that serves a stream ends, for a client that reads as for one that
\* has left.
StreamEnds == (stage = "streaming") ~> (stage = "ended")

(***************************************************************************)
(* What the documents say and the code does not do.                         *)
(***************************************************************************)
\* Codex is sent at most one terminal event.
AtMostOneTerminal == Len(got.terminals) <= 1

\* A connection that breaks off, a malformed stream and an overflow are told
\* to Codex in a terminal event.
FailureIsTold == client = "ended" => Told

\* The reasoning of a turn is complete in the next request.
FollowUpIsServed ==
    next.asked /\ ~next.lost /\ ~next.silent => next.error = None
=============================================================================
