---------------------------- MODULE MCUsageIndex ----------------------------
(***************************************************************************)
(* Two Codex homes, one session that is relayed between them or two that    *)
(* are deleted together, a model that has a price beside the calls that     *)
(* name none, and a thread name.                                            *)
(***************************************************************************)
EXTENDS UsageIndex

CONSTANTS main, other, s1, s2, priced, title

MCHomes     == {main, other}
MCSessions  == {s1, s2}
MCModels    == {priced}
MCPriced    == {priced}
MCNames     == {title}
MCHomeOrder == <<main, other>>

Written(s) == \E p \in Paths : p.session = s /\ last[p] # None

\* One session, whose logs are written three times, or twice and moved or named
\* once; or two sessions that are written once, neither moved nor named.  Which
\* of the two comes first is all one.
MCBound ==
    /\ Written(s1)
    /\ IF Written(s2) THEN clock = 2 /\ moves = 0
       ELSE clock + moves <= MaxWrites /\ \A h \in Homes : names[h][s2] = None
=============================================================================
