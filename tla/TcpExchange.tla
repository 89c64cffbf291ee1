---------------------------- MODULE TcpExchange ----------------------------
(***************************************************************************)
(* One exchange on one TCP connection to the pod (transport/tcp.py,        *)
(* protocol.py): requests are lines of JSON, replies come as lines in a    *)
(* stream of bytes that recv() cuts anywhere and that may end anywhere.    *)
(* Every line has LineLen bytes, the last of them the newline; a JSON      *)
(* object without its newline is whole, a shorter piece of it is not.      *)
(***************************************************************************)
EXTENDS Integers, Sequences

CONSTANTS
    LineLen,   \* bytes of a line, newline included
    MaxLines,  \* bound: lines the pod sends in an exchange
    RawBytes   \* bound: raw bytes behind a mode switch

ASSUME TcpAssumption == LineLen \in Nat \ {0, 1} /\ MaxLines \in Nat \ {0} /\ RawBytes \in Nat

VARIABLES
    exchange, \* what the connection is for
    lines,    \* the kinds of the lines the pod sends
    written,  \* bytes of them it has sent
    received, \* bytes recv() has returned
    used,     \* bytes taken out of the buffer, the rest being the buffer
    ended,    \* the pod, or the network, has closed the connection
    asked,    \* requests and uploads the client has sent
    taken,    \* the lines the client has used, in order
    tcpPc     \* "reading", or how it ended

tcpVars == <<exchange, lines, written, received, used, ended, asked, taken, tcpPc>>

Exchanges == {"command", "sequence", "samples", "stream", "load", "raw"}
LineKinds == {"ok", "more", "ack", "error", "junk"}

(* The lines of an exchange, for the request they answer: the pod's acks come  *)
(* between the upload and its completion, and chunks before the last one.      *)
Stages == [command |-> 1, sequence |-> 2, samples |-> 1, stream |-> 1, load |-> 3, raw |-> 1]
Skipped == [x \in Exchanges |->
               CASE x = "load" -> {"ack"} [] x = "stream" -> {"junk"} [] OTHER -> {}]
Before == [x \in Exchanges |->
               CASE x = "load" -> {"ack"} [] x \in {"samples", "stream"} -> {"more", "junk"}
                 [] OTHER -> {}]

TcpInit ==
    /\ exchange \in Exchanges
    /\ lines = <<>>
    /\ written = 0 /\ received = 0 /\ used = 0 /\ ended = FALSE
    /\ asked = 1 /\ taken = <<>> /\ tcpPc = "reading"

-----------------------------------------------------------------------------
(* The pod *)

Answered == {i \in DOMAIN lines : lines[i] \in {"ok", "error"}}

(* The pod answers the requests in turn, an upload with acks before its end.   *)
PodSays(kind) ==
    /\ Len(lines) < MaxLines
    /\ \/ kind \in {"ok", "error"}
       \/ kind \in Before[exchange] /\ (kind = "ack" => asked = 2)
       \/ kind = "junk"
    /\ \A i \in DOMAIN lines : lines[i] # "error"
    /\ Len(SelectSeq(lines, LAMBDA k : k = "ok")) < asked
    /\ lines' = Append(lines, kind)
    /\ UNCHANGED <<exchange, written, received, used, ended, asked, taken, tcpPc>>

RawPart == IF exchange = "raw" /\ Len(lines) > 0 /\ lines[1] = "ok" THEN RawBytes ELSE 0

Arrives(n) ==
    /\ ~ended
    /\ n \in written + 1 .. Len(lines) * LineLen + RawPart
    /\ written' = n
    /\ UNCHANGED <<exchange, lines, received, used, ended, asked, taken, tcpPc>>

ConnectionEnds ==
    /\ ~ended /\ ended' = TRUE
    /\ UNCHANGED <<exchange, lines, written, received, used, asked, taken, tcpPc>>

-----------------------------------------------------------------------------
(* Reading a line *)

(* recv(4096), or recv(1) for the ack of a mode switch. *)
Recv(n) ==
    /\ tcpPc = "reading"
    /\ n \in received + 1 .. (IF exchange = "raw" THEN received + 1 ELSE written)
    /\ n <= written
    /\ received < used + LineLen       \* only when the buffer holds no line
    /\ received' = n
    /\ UNCHANGED <<exchange, lines, written, used, ended, asked, taken, tcpPc>>

(* _recv_line takes the first line of the buffer and leaves what follows it;   *)
(* at the end of the stream the rest of the buffer is a line as well.          *)
HasLine == received >= used + LineLen
AtEnd == ended /\ received = written
Number == used \div LineLen + 1
LineRead == IF HasLine \/ received = used + LineLen - 1 THEN lines[Number] ELSE "junk"

TakeLine == used' = IF HasLine THEN used + LineLen ELSE received

CanTake == HasLine \/ (AtEnd /\ received > used /\ exchange # "raw")

Fails == tcpPc' = "raised" /\ UNCHANGED <<asked, taken>>

(* parse_reply and raise_for_status *)
Finish(kind) ==
    /\ kind \in {"ok", "more"}
    /\ taken' = Append(taken, Number)
    /\ IF kind = "more" THEN UNCHANGED <<asked, tcpPc>>
       ELSE IF asked < Stages[exchange] THEN asked' = asked + 1 /\ UNCHANGED tcpPc
       ELSE tcpPc' = "returned" /\ UNCHANGED asked

UseLine ==
    LET kind == LineRead IN
    /\ tcpPc = "reading" /\ CanTake
    /\ TakeLine
    /\ \/ kind \in Skipped[exchange] /\ UNCHANGED <<asked, taken, tcpPc>>
       \/ kind \notin Skipped[exchange] /\ Finish(kind)
       \/ kind \notin Skipped[exchange] \cup {"ok", "more"} /\ Fails
    /\ UNCHANGED <<exchange, lines, written, received, ended>>

(* The stream ends without a line, or the timeout comes first. *)
Closed ==
    /\ tcpPc = "reading" /\ AtEnd
    /\ received = used \/ exchange = "raw"
    /\ ~HasLine
    /\ tcpPc' = "raised"
    /\ UNCHANGED <<exchange, lines, written, received, used, ended, asked, taken>>

TcpTimesOut ==
    /\ tcpPc = "reading" /\ ~AtEnd
    /\ tcpPc' = "raised"
    /\ UNCHANGED <<exchange, lines, written, received, used, ended, asked, taken>>

-----------------------------------------------------------------------------
TcpNext ==
    \/ \E kind \in LineKinds : PodSays(kind)
    \/ \E n \in 1 .. MaxLines * LineLen + RawBytes : Arrives(n) \/ Recv(n)
    \/ ConnectionEnds \/ UseLine \/ Closed \/ TcpTimesOut

TcpSpec == TcpInit /\ [][TcpNext]_tcpVars

-----------------------------------------------------------------------------
TcpTypeOK ==
    /\ exchange \in Exchanges
    /\ lines \in Seq(LineKinds)
    /\ written \in Nat /\ received \in 0 .. written /\ used \in 0 .. received
    /\ ended \in BOOLEAN /\ asked \in 1 .. 3 /\ taken \in Seq(Nat)
    /\ tcpPc \in {"reading", "returned", "raised"}

(* A call returns only when every request was answered, and with every line    *)
(* of the replies in order, once and whole: wherever recv() or the end of the  *)
(* connection cut the stream, a piece of a line is never taken for a reply,    *)
(* and a line that arrived with the one before it is not lost.                 *)
Counts(i) == lines[i] \notin Skipped[exchange]
WholeReplies ==
    /\ \A i, j \in DOMAIN taken : i < j => taken[i] < taken[j]
    /\ tcpPc = "returned" =>
          /\ asked = Stages[exchange]
          /\ {taken[i] : i \in DOMAIN taken} = {i \in DOMAIN lines : Counts(i) /\ i <= Number - 1}
                \cup (IF used % LineLen = 0 THEN {} ELSE {Number})
          /\ \A i \in DOMAIN taken : lines[taken[i]] \in {"ok", "more"}
          /\ lines[taken[Len(taken)]] = "ok"

(* The ack of a mode switch is read without a byte of the raw stream behind it *)
(* (tcp.py, _recv_line_exact).                                                 *)
RawUntouched == exchange = "raw" => received <= LineLen

TcpInv == TcpTypeOK /\ WholeReplies /\ RawUntouched
=============================================================================
