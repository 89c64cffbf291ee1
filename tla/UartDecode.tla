----------------------------- MODULE UartDecode -----------------------------
(***************************************************************************)
(* decode_uart of decode.py: characters out of the samples of a line that  *)
(* has no clock.  The line is built from the characters that were sent, in *)
(* ticks of time, and sampled every PerSample ticks from a phase the       *)
(* capture does not choose; a bit need not be a whole number of samples.   *)
(* A character is the sequence of its data bits in the order of the wire;  *)
(* which of them weighs most is left out.                                  *)
(***************************************************************************)
EXTENDS Integers, Sequences, FiniteSets

CONSTANTS
    DataBits,  \* bits of a character (5 to 9 in the code)
    Chars,     \* the characters that are sent
    PerSample, \* ticks of a sample
    BitTimes,  \* ticks of a bit, one per baud rate
    Rests,     \* ticks between two characters
    MaxChars   \* bound: characters in a capture

ASSUME UartDecodeAssumption ==
    /\ {DataBits, PerSample, MaxChars} \subseteq Nat \ {0} /\ Rests \subseteq Nat
    /\ Chars \subseteq [1 .. DataBits -> {0, 1}]
    /\ \A b \in BitTimes : b \in Nat /\ b >= 3 * PerSample

VARIABLES
    wire,     \* what was sent and how, and the samples that were captured of it
    scanAt,   \* i
    uartSeen  \* frames

uartDecodeVars == <<wire, scanAt, uartSeen>>

Ones(c) == Cardinality({i \in DOMAIN c : c[i] = 1})
ParityBit(parity, c) == IF parity = "even" THEN Ones(c) % 2 ELSE 1 - (Ones(c) % 2)

(* What was sent *)

BitCount(how) == 1 + DataBits + (IF how.parity = "none" THEN 0 ELSE 1) + how.stop

(* The bits of character k on the wire; the last one may have a fault. *)
BitsOf(how, k) ==
    LET c == how.chars[k]
        fault == IF k = Len(how.chars) THEN how.fault ELSE "none"
        p == ParityBit(how.parity, c)
    IN  <<0>> \o c
        \o (IF how.parity = "none" THEN <<>> ELSE <<IF fault = "parity" THEN 1 - p ELSE p>>)
        \o <<IF fault = "framing" THEN 0 ELSE 1>> \o (IF how.stop = 2 THEN <<1>> ELSE <<>>)

(* A lone low sample precedes the characters, by more than a bit, if there is a glitch. *)
FirstAt(how) == how.phase + (IF how.glitch THEN how.bit + 2 * PerSample ELSE 0)
Pitch(how) == BitCount(how) * how.bit + how.rest
StartsAt(how, k) == FirstAt(how) + (k - 1) * Pitch(how)
EndsAt(how, k) == StartsAt(how, k) + BitCount(how) * how.bit

(* The line at n samples, and what happened on it. *)
Sampled(how, n) ==
    LET bits == [k \in DOMAIN how.chars |-> BitsOf(how, k)]
        first == FirstAt(how)  pitch == Pitch(how)  long == BitCount(how) * how.bit
        level(j) ==
            LET since == j * PerSample - first
                k == since \div pitch + 1
                at == since % pitch
            IN  IF how.glitch /\ j = 1 THEN 0
                ELSE IF since < 0 \/ k > Len(how.chars) \/ at >= long THEN 1
                ELSE bits[k][at \div how.bit + 1]
    IN  [j \in 0 .. n - 1 |-> level(j)]

(* What is decoded *)

(* round() of a quotient: to the nearest, a half to the even neighbour *)
Round(a, b) ==
    LET q == a \div b  twice == 2 * (a % b)
    IN  IF twice < b \/ (twice = b /\ q % 2 = 0) THEN q ELSE q + 1

(* centre_of(k): the sample in the middle of bit k of a character *)
CentreOf(edge, k) == edge + Round((2 * k + 1) * wire.how.bit, 2 * PerSample)

(* a plausible bug: the search goes on behind the stop bit, not in it *)
AdvanceBehind(edge, k) == edge + Round((2 * k + 2 * wire.how.stop) * wire.how.bit + PerSample, 2 * PerSample)

(* where the search goes on after a character whose stop bit is bit k *)
Advance(edge, k) == edge + Round((2 * k + 2 * wire.how.stop - 1) * wire.how.bit, 2 * PerSample)

Line == wire.line
Samples == Cardinality(DOMAIN Line)
Captured(j) == j < Samples
Edges == {j \in scanAt .. Samples - 2 : Line[j] = 1 /\ Line[j + 1] = 0}
NextEdge == (CHOOSE j \in Edges : \A k \in Edges : j <= k) + 1
RealStart == LET c == CentreOf(NextEdge, 0) IN Captured(c) /\ Line[c] = 0
Whole == Captured(CentreOf(NextEdge, DataBits))

(* The search reaches the end of the capture without another start. *)
NoEdge ==
    /\ scanAt < Samples /\ Edges = {}
    /\ scanAt' = Samples
    /\ UNCHANGED <<wire, uartSeen>>

Spurious ==
    /\ Edges # {} /\ ~RealStart
    /\ scanAt' = NextEdge
    /\ UNCHANGED <<wire, uartSeen>>

(* A character whose data bits the capture does not hold ends the search. *)
Truncated ==
    /\ Edges # {} /\ RealStart /\ ~Whole
    /\ scanAt' = Samples
    /\ UNCHANGED <<wire, uartSeen>>

Character ==
    LET edge == NextEdge
        centre(k) == CentreOf(edge, k)
        bits == [b \in 1 .. DataBits |-> Line[centre(b)]]
        hasParity == wire.how.parity # "none" /\ Captured(centre(1 + DataBits))
        stopBit == 1 + DataBits + (IF hasParity THEN 1 ELSE 0)
        badParity == hasParity /\ Line[centre(1 + DataBits)] # ParityBit(wire.how.parity, bits)
        badStop == Captured(centre(stopBit)) /\ Line[centre(stopBit)] # 1
        error == IF badParity THEN "parity" ELSE IF badStop THEN "framing" ELSE "none"
    IN  /\ Edges # {} /\ RealStart /\ Whole
        /\ uartSeen' = Append(uartSeen, [start |-> edge, bits |-> bits, error |-> error])
        /\ scanAt' = Advance(edge, stopBit)
        /\ UNCHANGED wire

(* The capture ends in the last character or after it; a fault, or a glitch, comes  *)
(* alone.                                                                          *)
UartDecodeInit ==
    /\ \E n \in 1 .. MaxChars :
       \E how \in [chars : [1 .. n -> Chars], bit : BitTimes, parity : {"none", "even", "odd"},
                   stop : {1, 2}, rest : Rests, phase : 1 .. PerSample, glitch : BOOLEAN,
                   fault : {"none", "parity", "framing"}] :
          /\ how.parity = "none" => how.fault # "parity"
          /\ how.glitch => n = 1 /\ how.fault = "none"
          /\ n = 1 => \A r \in Rests : how.rest <= r
          /\ \E ticks \in (IF how.fault = "none" THEN StartsAt(how, n) ELSE EndsAt(how, n))
                          .. EndsAt(how, n) + how.bit :
                /\ ticks % PerSample = 0
                /\ wire = [how |-> how, line |-> Sampled(how, ticks \div PerSample + 1)]
    /\ scanAt = 0 /\ uartSeen = <<>>

UartDecodeNext == NoEdge \/ Spurious \/ Truncated \/ Character

UartDecodeSpec == UartDecodeInit /\ [][UartDecodeNext]_uartDecodeVars
-----------------------------------------------------------------------------
UartDecodeTypeOK ==
    /\ scanAt \in Nat
    /\ \A f \in DOMAIN uartSeen :
          uartSeen[f].bits \in Chars /\ uartSeen[f].error \in {"none", "parity", "framing"}

(* What is decoded is what was sent, in order, from where it starts; an error is told  *)
(* of the character that has one, if the capture reaches to its end.                   *)
SeenAsSent ==
    /\ Len(uartSeen) <= Len(wire.how.chars)
    /\ \A f \in DOMAIN uartSeen :
          LET told == IF f = Len(wire.how.chars) THEN wire.how.fault ELSE "none"
          IN  /\ uartSeen[f].bits = wire.how.chars[f]
              /\ (uartSeen[f].start - 1) * PerSample < StartsAt(wire.how, f)
              /\ uartSeen[f].start * PerSample >= StartsAt(wire.how, f)
              /\ uartSeen[f].error \in {told, "none"}
              /\ EndsAt(wire.how, f) <= (Samples - 1) * PerSample => uartSeen[f].error = told

(* The search ends with every character that the capture holds. *)
AllSeen ==
    scanAt >= Samples =>
        \A k \in DOMAIN wire.how.chars : EndsAt(wire.how, k) <= (Samples - 1) * PerSample => k <= Len(uartSeen)

UartDecodeInv == UartDecodeTypeOK /\ SeenAsSent /\ AllSeen
=============================================================================
