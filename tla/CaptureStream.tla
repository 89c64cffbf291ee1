---------------------------- MODULE CaptureStream ----------------------------
(***************************************************************************)
(* A capture put together from the chunks a pod streams (capture.py): the  *)
(* ADC's counts come densely, the logic analyzer's words as their changes  *)
(* or, from older firmware and through the server, densely behind the ADC. *)
(* A capture may end before all that was asked for.  Oversampling then     *)
(* averages the counts, which are two's complement.                        *)
(***************************************************************************)
EXTENDS Integers, Sequences

CONSTANTS
    AdcCounts,  \* raw counts that the ADC gives
    Span,       \* ADC_WRAP_SPAN, 65536 in the code: its half is the ADC_WRAP_THRESHOLD
    MaxAdc, MaxLa,  \* bounds: samples asked for
    Factors     \* conversions that are averaged

ASSUME CaptureAssumption ==
    /\ Span \in Nat \ {0} /\ Span % 2 = 0 /\ AdcCounts \subseteq 0 .. Span - 1
    /\ {MaxAdc, MaxLa} \subseteq Nat /\ Factors \subseteq Nat \ {0}

VARIABLES
    capture,  \* the call: what is captured, and how this pod sends it
    streamed, \* the pod: dense samples and analyzer words it has sent
    counts, dense, edges, upto,  \* the host: what the chunks gave
    capPc,    \* "streaming" or "done"
    words, means \* what the call returns: analyzer words, and averages times the factor

captureVars == <<capture, streamed, counts, dense, edges, upto, capPc, words, means>>

(* What the pod has to send densely, and the changes of the words from..to-1: the   *)
(* word of sample 0 is one of them.                                                 *)
DenseStream == capture.adc \o (IF capture.rle THEN <<>> ELSE capture.la)
Changes(from, to) ==
    LET runs[j \in from .. to] ==
            IF j = from THEN <<>>
            ELSE IF j = 1 \/ capture.la[j] # capture.la[j - 1]
              THEN Append(runs[j - 1], [at |-> j - 1, word |-> capture.la[j]])
            ELSE runs[j - 1]
    IN  runs[to]

(* A chunk with dense samples: capture_la takes them for words; capture_correlated  *)
(* for counts until it has as many as it asked for.                                 *)
DenseChunk ==
    /\ capPc = "streaming"
    /\ \E n \in 1 .. Len(DenseStream) - streamed.dense :
          LET data == SubSeq(DenseStream, streamed.dense + 1, streamed.dense + n)
              room == Len(capture.adc) - Len(counts)
              take == IF n < room THEN n ELSE room
          IN  /\ counts' = counts \o SubSeq(data, 1, take)
              /\ dense' = dense \o SubSeq(data, take + 1, n)
              /\ streamed' = [streamed EXCEPT !.dense = @ + n]
    /\ UNCHANGED <<capture, edges, upto, capPc, words, means>>

(* A chunk with changes, and la_upto from the pods that send it *)
LaChunk ==
    /\ capPc = "streaming" /\ capture.rle
    /\ \E to \in streamed.la + 1 .. Len(capture.la) :
          /\ edges' = edges \o Changes(streamed.la, to)
          /\ upto' = IF capture.tells /\ to > upto THEN to ELSE upto
          /\ streamed' = [streamed EXCEPT !.la = to]
    /\ UNCHANGED <<capture, counts, dense, capPc, words, means>>

(* _expand_la_edges: before the first change the word is that of the first change *)
Expand(changes, n) ==
    IF changes = <<>> THEN [j \in 1 .. n |-> 0]
    ELSE [j \in 1 .. n |->
            LET before == {i \in DOMAIN changes : changes[i].at < j}
            IN  IF before = {} THEN changes[1].word
                ELSE changes[CHOOSE i \in before : \A k \in before : k <= i].word]

CapturedWords ==
    IF edges # <<>> \/ upto # 0 THEN Expand(edges, IF upto # 0 THEN upto ELSE Len(capture.la))
    ELSE dense

(* average_conversions: sums, in the signed domain, of the blocks that are whole *)
Signed(c) == IF c >= Span \div 2 THEN c - Span ELSE c
Block(i) == SubSeq(counts, (i - 1) * capture.factor + 1, i * capture.factor)
Total(seq) ==
    LET sum[k \in 0 .. Len(seq)] == IF k = 0 THEN 0 ELSE sum[k - 1] + seq[k]
    IN  sum[Len(seq)]
Averaged == [i \in 1 .. Len(counts) \div capture.factor |->
                LET block == Block(i) IN Total([k \in DOMAIN block |-> Signed(block[k])])]

(* The last chunk has come: the whole of the counts, and of the words what the pod *)
(* got to.                                                                         *)
CaptureDone ==
    /\ capPc = "streaming" /\ streamed.dense >= Len(capture.adc)
    /\ capPc' = "done"
    /\ words' = CapturedWords /\ means' = Averaged
    /\ UNCHANGED <<capture, streamed, counts, dense, edges, upto>>

CaptureInit ==
    /\ \E n \in 0 .. MaxAdc, m \in 0 .. MaxLa :
          capture \in [adc : [1 .. n -> AdcCounts], la : [1 .. m -> {0, 1}], rle : BOOLEAN,
                       tells : BOOLEAN, factor : Factors]
    /\ capture.adc # <<>> \/ capture.la # <<>>
    /\ capture.tells => capture.rle
    /\ capture.factor > 1 => capture.la = <<>>
    /\ streamed = [dense |-> 0, la |-> 0]
    /\ counts = <<>> /\ dense = <<>> /\ edges = <<>> /\ upto = 0
    /\ capPc = "streaming" /\ words = <<>> /\ means = <<>>

CaptureNext == DenseChunk \/ LaChunk \/ CaptureDone

CaptureSpec == CaptureInit /\ [][CaptureNext]_captureVars
-----------------------------------------------------------------------------
CaptureTypeOK ==
    /\ streamed.dense \in 0 .. Len(DenseStream) /\ streamed.la \in 0 .. Len(capture.la)
    /\ upto \in 0 .. Len(capture.la) /\ capPc \in {"streaming", "done"}

(* How many words the pod has sent *)
LaSent == IF capture.rle THEN streamed.la ELSE streamed.dense - Len(capture.adc)

(* Counts are counts and words are words, each as recorded, however the chunks cut   *)
(* the two.  A capture that ended early has the words it got to; from a pod that     *)
(* does not tell how far that is, words as many as were asked for.                   *)
CapturedAsRecorded ==
    capPc = "done" =>
        /\ counts = capture.adc
        /\ Len(words) = IF capture.rle /\ ~capture.tells /\ LaSent > 0 THEN Len(capture.la) ELSE LaSent
        /\ SubSeq(words, 1, LaSent) = SubSeq(capture.la, 1, LaSent)

(* counts_to_volts with an unwrapping fit is linear in the count unwrapped like this. *)
Unwrapped(c) == IF c < Span \div 2 THEN c + Span ELSE c

(* The code an average is given: floor(mean + 1/2), in two's complement *)
CodeOf(sum) == ((2 * sum + capture.factor) \div (2 * capture.factor)) % Span

(* The volts of an average are the average of the volts of its conversions, also     *)
(* where they straddle 0 V, if the fit unwraps; and its code is the nearest one.     *)
AverageIsLinear ==
    capPc = "done" =>
        \A i \in DOMAIN means :
            LET away == capture.factor * Signed(CodeOf(means[i])) - means[i]
            IN  /\ means[i] + capture.factor * Span
                     = Total([k \in DOMAIN Block(i) |-> Unwrapped(Block(i)[k])])
                /\ -capture.factor < 2 * away /\ 2 * away <= capture.factor

CaptureInv == CaptureTypeOK /\ CapturedAsRecorded /\ AverageIsLinear
=============================================================================
