---------------------------- MODULE MCLocalRuntime ----------------------------
(* LocalRuntime with two agents, for TLC. *)
EXTENDS LocalRuntime, TLC

CONSTANTS a1, a2, t1, t2, p1, p2

MCAgents == {a1, a2}
OneToken == {t1}
TwoTokens == {t1, t2}
OnePort == {p1}
TwoPorts == {p1, p2}

\* Agents are interchangeable.
AgentSymmetry == Permutations(MCAgents)
===============================================================================
