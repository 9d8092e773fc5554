-------------------------- MODULE MCResponseStream --------------------------
(***************************************************************************)
(* A small instance of ResponseStream: one function and one custom tool, a  *)
(* second identity that flattens to the name of the function, openings with *)
(* and without a history, and three tool deltas that make up to two calls.  *)
(***************************************************************************)
EXTENDS ResponseStream

Fn(ns) == [ns |-> ns, name |-> "f", kind |-> "function"]
Custom == [ns |-> None, name |-> "c", kind |-> "custom"]
Identities_ == {Fn(None), Fn("n_"), Custom}
ChatName_ == [t \in Identities_ |-> t.name]

User == [kind |-> "user", text |-> <<"ask">>]
Think == [kind |-> "reasoning", text |-> <<"why">>]
CallOf(kind, id) == [kind |-> kind, ns |-> None, name |-> "f", id |-> id, json |-> TRUE]
OutputOf(id) == [kind |-> "output", id |-> id]
System == [kind |-> "system", text |-> <<"rules">>]

Ask(route, stream, thinking, items, tools) ==
    [route |-> route, stream |-> stream, thinking |-> thinking,
     items |-> items, tools |-> tools]

\* A remark of the system between a call and its result.
Past == <<User, Think, CallOf("function", "c0"), System, OutputOf("c0")>>

Requests_ ==
    {Ask("adapted", TRUE, TRUE, Past, <<Fn(None), Custom>>),
     Ask("adapted", TRUE, FALSE, <<User>>, <<Fn(None)>>),
     Ask("adapted", FALSE, TRUE, <<User>>, <<Fn(None)>>),
     Ask("adapted", TRUE, FALSE, <<User>>, <<Fn(None), Fn("n_")>>),
     Ask("adapted", TRUE, FALSE,
         <<User, CallOf("function", "c0"), CallOf("function", "c0")>>, <<Fn(None)>>),
     Ask("passthrough", TRUE, FALSE, <<User>>, <<>>)}

Delta(index, id, name, halves) ==
    [k |-> "tool", index |-> index, id |-> id, name |-> name, halves |-> halves]
ToolFrames_ == {Delta(0, "c1", "f", 2), Delta(1, "c2", "c", 1), Delta(1, None, None, 1)}

Item(kind, id, index) ==
    [kind |-> kind, id |-> id, index |-> index,
     tool |-> IF kind = "function" THEN Fn(None) ELSE None]
Answers_ == {<<Item("message", None, 0)>>,
             <<Item("reasoning", None, 0), Item("function", "c1", 1)>>}
=============================================================================
