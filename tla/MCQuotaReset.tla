---------------------------- MODULE MCQuotaReset ----------------------------
(* Small instances of QuotaReset and of QuotaReads for TLC: a behaviour is   *)
(* one of resets or one of reads, to which a reset is the credit it spends.  *)
EXTENDS QuotaReads, TLC

VARIABLE half

MCInit == QuotaInit /\ ReadsInit /\ half \in {"resets", "reads"}

MCNext ==
  /\ half' = half
  /\ \/ half = "resets" /\ QuotaNext /\ UNCHANGED readVars
     \/ half = "reads" /\ ReadsNext

MCSpec == MCInit /\ [][MCNext]_<<quotaVars, readVars, half>>

MCSymmetry == Permutations(Ids) \cup Permutations(Callers) \cup Permutations(Readers)
=============================================================================
