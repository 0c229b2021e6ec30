----------------------------- MODULE LogRedaction -----------------------------
(***************************************************************************)
(* The log writer of vaultlog.go: the output of a local Vault passes through *)
(* a lineRedactingWriter, which collects whole lines and masks the           *)
(* configured token in them.  Two goroutines write to it: the one that       *)
(* forwards the server's output, in chunks cut anywhere, and Init, whose     *)
(* waitReady adds a line of its own.  The destination may refuse a line.     *)
(*                                                                          *)
(* A byte is a symbol; only the symbols of the tokens, the asterisk and the  *)
(* line feed are told apart.  The mask is text as any other: four asterisks. *)
(***************************************************************************)
EXTENDS Naturals, Sequences, SequencesExt, FiniteSets

CONSTANTS
    Tokens,        \* the VAULT_TOKENs users may configure: sequences of symbols
    Text,          \* the symbols of a line
    LF, Star,      \* the line feed; the asterisk, one of Text
    AgentLine,     \* "waiting for vault readiness on ...": a line and its LF
    MaxOutput,     \* bound: symbols Vault prints
    MaxChunk,      \* bound: symbols of one chunk
    MaxFaults      \* bound: lines the destination refuses

ASSUME SymbolsAssumption == /\ LF \notin Text /\ Star \in Text
                            /\ Tokens \subseteq Seq(Text \cup {LF}) \ {<<>>}
                            /\ AgentLine \in Seq(Text \cup {LF}) /\ AgentLine # <<>>
                            /\ Last(AgentLine) = LF
ASSUME BoundsAssumption == MaxOutput \in Nat /\ MaxChunk \in Nat /\ MaxFaults \in Nat

VARIABLES
    token,     \* the configured token, <<>> if none
    secrets,   \* w.secrets
    buf,       \* w.buf
    mu,        \* w.mu: the writer inside Write, or "free"
    log,       \* the lines the destination took
    sent,      \* everything passed to Write, in the order the mutex gave
    refused,   \* numbers of the lines the destination refused
    agent      \* the agent's line has been written

vars == <<token, secrets, buf, mu, log, sent, refused, agent>>

Raw == Text \cup {LF}

-----------------------------------------------------------------------------

\* A pass over a sequence: piece[i] is what is written at its i-th element, if
\* the pass comes there, and skip[i] how far it goes on.  Tails: what is written
\* from each position on.
Tails(piece, skip) ==
    LET n == Len(piece)
        from[i \in 1 .. n + 1] == IF i > n THEN <<>> ELSE piece[i] \o from[i + skip[i]]
    IN  from

Pass(piece, skip) == Tails(piece, skip)[1]

\* The bytes of line from the i-th on begin with s.
OccursAt(s, line, i) == IsPrefix(s, SubSeq(line, i, Len(line)))

Mask == <<Star, Star, Star, Star>>

Pieces(line, secret) ==
    [i \in 1 .. Len(line) |-> IF OccursAt(secret, line, i) THEN Mask ELSE <<line[i]>>]
Skips(line, secret) ==
    [i \in 1 .. Len(line) |-> IF OccursAt(secret, line, i) THEN Len(secret) ELSE 1]

\* Every element is visited.
Ones(n) == [i \in 1 .. n |-> 1]

\* strings.ReplaceAll(line, secret, "****"): leftmost matches, without overlap;
\* an empty secret matches before every byte and at the end.
ReplaceAllIn(line, secret) ==
    IF secret = <<>>
    THEN Pass([i \in 1 .. Len(line) |-> Append(Mask, line[i])], Ones(Len(line))) \o Mask
    ELSE Pass(Pieces(line, secret), Skips(line, secret))

\* Mutant: unmasked lines go through as they are.
Mutant_NoReplacement(line) == line

\* The loop over w.secrets.
Redact(line) ==
    LET after[k \in 0 .. Len(secrets)] ==
            IF k = 0 THEN line ELSE ReplaceAllIn(after[k - 1], secrets[k])
    IN  after[Len(secrets)]

\* Mutant: an empty token is one of the secrets.
Mutant_KeepEmpty(list) == list

\* newLineRedactingWriter drops empty secrets.
Filtered(list) ==
    Pass([i \in 1 .. Len(list) |-> IF list[i] = <<>> THEN <<>> ELSE <<list[i]>>], Ones(Len(list)))

Init ==
    /\ token \in Tokens \cup {<<>>}
    /\ secrets = Filtered(<<token>>)
    /\ buf = <<>> /\ log = <<>> /\ sent = <<>>
    /\ mu = "free"
    /\ refused = {}
    /\ agent = FALSE

-----------------------------------------------------------------------------

\* Write, up to the loop: take the mutex and append.
Enter(writer, p) ==
    /\ mu = "free"
    /\ mu' = writer
    /\ buf' = buf \o p
    /\ sent' = sent \o p
    /\ UNCHANGED <<token, secrets, log, refused>>

\* Symbols of the agent's own line among those sent.
AgentOutput == IF agent THEN Len(AgentLine) ELSE 0

\* The forwarder passes on whatever one read returned (external).
VaultWrites ==
    /\ \E p \in BoundedSeq(Raw, MaxChunk) \ {<<>>} :
          /\ Len(sent) + Len(p) <= MaxOutput + AgentOutput
          /\ Enter("vault", p)
    /\ UNCHANGED agent

\* waitReady announces itself; it ignores what Write returns.
AgentWrites ==
    /\ ~agent
    /\ agent' = TRUE
    /\ Enter("agent", AgentLine)

\* Lines taken from the buffer so far.
Taken == Len(log) + Cardinality(refused)

\* bytes.IndexByte(q, '\n'), counting from 1 (external).
IndexByte(q) == SelectInSeq(q, LAMBDA c : c = LF)

\* One round of the loop.  A refused line is gone, and Write returns at once:
\* what else is in the buffer waits for the next Write.
EmitLine ==
    /\ mu # "free"
    /\ Contains(buf, LF)
    /\ LET i == IndexByte(buf)
           line == SubSeq(buf, 1, i - 1)
       IN  /\ buf' = SubSeq(buf, i + 1, Len(buf))
           /\ \/ log' = Append(log, Redact(line)) /\ UNCHANGED <<mu, refused>>
              \/ /\ Cardinality(refused) < MaxFaults
                 /\ refused' = refused \cup {Taken + 1}
                 /\ mu' = "free"
                 /\ UNCHANGED log
    /\ UNCHANGED <<token, secrets, sent, agent>>

\* Mutant: a last line without its line feed is flushed, so as not to lose it.
Mutant_FlushOnReturn ==
    /\ mu # "free"
    /\ ~Contains(buf, LF)
    /\ mu' = "free"
    /\ log' = IF buf = <<>> THEN log ELSE Append(log, Redact(buf))
    /\ buf' = <<>>
    /\ UNCHANGED <<token, secrets, sent, refused, agent>>

\* No complete line is left.
Return ==
    /\ mu # "free"
    /\ ~Contains(buf, LF)
    /\ mu' = "free"
    /\ UNCHANGED <<token, secrets, buf, log, sent, refused, agent>>

Next == VaultWrites \/ AgentWrites \/ EmitLine \/ Return

Spec == Init /\ [][Next]_vars

-----------------------------------------------------------------------------
(* Properties *)

\* The lines of a stream: where they end, how many have ended by position i,
\* where the k-th ends (0 before the first), and what it holds.
LineEnds(stream) == {i \in 1 .. Len(stream) : stream[i] = LF}
EndedBy(stream, i) == Cardinality({j \in LineEnds(stream) : j <= i})
EndOf(stream, k) == CHOOSE i \in {0} \cup LineEnds(stream) : EndedBy(stream, i) = k
Line(stream, k) == SubSeq(stream, EndOf(stream, k - 1) + 1, EndOf(stream, k) - 1)

\* A line as it is to be logged: with the configured token replaced, if any.
Logged(line) == IF token = <<>> THEN line ELSE ReplaceAllIn(line, token)

\* Where line n of the stream is in the log, if it was not refused.
Place(n) == n - Cardinality({r \in refused : r < n})

Position == 1 .. MaxOutput + Len(AgentLine)

\* Every variable has its type.
TypeOK ==
    /\ token \in Tokens \cup {<<>>}
    /\ secrets \in Seq(Tokens)
    /\ buf \in Seq(Raw) /\ sent \in Seq(Raw)
    /\ log \in Seq(Seq(Raw))
    /\ mu \in {"free", "vault", "agent"}
    /\ refused \subseteq Position
    /\ agent \in BOOLEAN

\* However Write's callers cut and interleave the stream, and whatever lines the
\* destination refused, the log is the stream's lines, in order, whole and once
\* each, but for the refused ones, with the token replaced and, without a token,
\* as they came; and a Write that returned without an error has left no
\* complete line behind.
LogIsTheStream ==
    LET lines == EndedBy(sent, Len(sent))
    IN  /\ Taken <= lines
        /\ \A n \in (1 .. Taken) \ refused : log[Place(n)] = Logged(Line(sent, n))
        /\ mu = "free" /\ refused = {} =>
              Taken = lines /\ buf = SubSeq(sent, EndOf(sent, lines) + 1, Len(sent))

\* A configured token without an asterisk is in no line of the log, not even when
\* its bytes came in several chunks, overlap themselves, follow a refused line or
\* stand next to asterisks.  (A token with one may reappear beside a mask: with
\* the token "a*" the line "aa*" is logged as "a****".)
NoTokenLogged ==
    token # <<>> /\ ~Contains(token, Star) =>
        \A k \in DOMAIN log : \A i \in DOMAIN log[k] : ~OccursAt(token, log[k], i)
===============================================================================
