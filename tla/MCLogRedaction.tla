---------------------------- MODULE MCLogRedaction ----------------------------
(***************************************************************************)
(* LogRedaction for TLC: a token that overlaps itself, one with an asterisk, *)
(* and an agent's line that may complete a token.                            *)
(***************************************************************************)
EXTENDS LogRedaction

CONSTANTS a, b

MCTokens == {<<a, b, a>>, <<a, Star>>}
MCAgentLine == <<b, a, LF>>
===============================================================================
