-------------------------- MODULE MCDurableProvision --------------------------
(* DurableProvision with two token ids, for TLC. *)
EXTENDS DurableProvision

CONSTANTS t1, t2

MCTokens == {t1, t2}
===============================================================================
