------------------------------ MODULE SpiDecode ------------------------------
(***************************************************************************)
(* decode_spi of decode.py, beside a master that sends words in one of the *)
(* four modes, with its chip select wired to the capture or not.  Each     *)
(* step of the master is the next sample.  MOSI and MISO are read at the   *)
(* same samples and put together in the same way: one data line stands for *)
(* both, and a word is the sequence of its bits in the order of the wire.  *)
(***************************************************************************)
EXTENDS Integers, Sequences, SequencesExt

CONSTANTS
    WordBits,   \* bits of a word (8, and up to 32)
    MaxClocks,  \* bound: clock cycles for the slave in a capture
    MaxSelects  \* bound: times it is selected

ASSUME SpiDecodeAssumption == WordBits \in Nat \ {0} /\ {MaxClocks, MaxSelects} \subseteq Nat

VARIABLES
    spiMode,    \* cpol, cpha, and is CS among the channels of the capture
    spiBus,     \* the levels of CS, SCLK and data (the sample before)
    spiSent,    \* what the slave was sent: the bits of each time it was selected
    wordAcc,    \* mosi_acc and cnt
    spiWords    \* frames

spiDecodeVars == <<spiMode, spiBus, spiSent, wordAcc, spiWords>>

SampleRising == spiMode.cpha = spiMode.cpol

(* One turn of the decoder's loop, for the sample now. *)
ReadSample(now) ==
    LET rising == spiBus.clk = 0 /\ now.clk = 1
        falling == spiBus.clk = 1 /\ now.clk = 0
        acc == IF spiMode.cs /\ spiBus.cs # now.cs THEN <<>> ELSE wordAcc
        gated == spiMode.cs /\ now.cs # 0
    IN  IF gated \/ ~(IF SampleRising THEN rising ELSE falling)
          THEN wordAcc' = acc /\ UNCHANGED spiWords
        ELSE IF Len(acc) + 1 = WordBits
          THEN wordAcc' = <<>> /\ spiWords' = Append(spiWords, Append(acc, now.data))
        ELSE wordAcc' = Append(acc, now.data) /\ UNCHANGED spiWords

(* The master, and the others on its bus *)

Drive(now) == spiBus' = now /\ ReadSample(now) /\ UNCHANGED spiMode
Clocks == Len(FlattenSeq(spiSent))
Sent(b) == spiSent' = [spiSent EXCEPT ![Len(spiSent)] = Append(@, b)]
Selected == spiBus.cs = 0
AtIdle == spiBus.clk = spiMode.cpol

Select ==
    /\ ~Selected /\ AtIdle /\ Len(spiSent) < MaxSelects
    /\ \E b \in {0, 1} : Drive([cs |-> 0, clk |-> spiMode.cpol, data |-> b])
    /\ spiSent' = Append(spiSent, <<>>)

(* CPHA 0: the slave reads at this edge what was there before it.  CPHA 1: the data  *)
(* moves here.                                                                       *)
LeadingEdge ==
    /\ Selected /\ AtIdle /\ Clocks < MaxClocks
    /\ IF spiMode.cpha = 0
         THEN /\ Drive([spiBus EXCEPT !.clk = 1 - spiMode.cpol])
              /\ Sent(spiBus.data)
         ELSE /\ \E b \in {0, 1} : Drive([spiBus EXCEPT !.clk = 1 - spiMode.cpol, !.data = b])
              /\ UNCHANGED spiSent
TrailingEdge ==
    /\ Selected /\ ~AtIdle
    /\ IF spiMode.cpha = 0
         THEN /\ \E b \in {0, 1} : Drive([spiBus EXCEPT !.clk = spiMode.cpol, !.data = b])
              /\ UNCHANGED spiSent
         ELSE /\ Drive([spiBus EXCEPT !.clk = spiMode.cpol])
              /\ Sent(spiBus.data)

(* A word may be left unfinished, if the capture has CS to tell. *)
Deselect ==
    /\ Selected /\ AtIdle
    /\ spiMode.cs \/ Len(Last(spiSent)) % WordBits = 0
    /\ Drive([spiBus EXCEPT !.cs = 1])
    /\ UNCHANGED spiSent

(* While the slave is not selected the clock runs for another one, or is not yet at *)
(* the idle level of the mode.                                                      *)
OtherClock ==
    /\ ~Selected /\ spiMode.cs
    /\ \E b \in {0, 1} : Drive([spiBus EXCEPT !.clk = 1 - spiBus.clk, !.data = b])
    /\ UNCHANGED spiSent

SpiDecodeInit ==
    /\ spiMode \in [cpol : {0, 1}, cpha : {0, 1}, cs : BOOLEAN]
    /\ spiBus \in [cs : {1}, clk : IF spiMode.cs THEN {0, 1} ELSE {spiMode.cpol}, data : {0, 1}]
    /\ spiSent = <<>> /\ wordAcc = <<>> /\ spiWords = <<>>

SpiDecodeNext == Select \/ LeadingEdge \/ TrailingEdge \/ Deselect \/ OtherClock

SpiDecodeSpec == SpiDecodeInit /\ [][SpiDecodeNext]_spiDecodeVars
-----------------------------------------------------------------------------
SpiDecodeTypeOK == spiBus \in [cs : {0, 1}, clk : {0, 1}, data : {0, 1}] /\ Len(wordAcc) < WordBits

WholeWords(sent) == [w \in 1 .. Len(sent) \div WordBits |-> SubSeq(sent, (w - 1) * WordBits + 1, w * WordBits)]

(* The words are those that were sent to this slave, whole, in order, and no others: *)
(* in every mode, whatever the clock does for others, and after words left           *)
(* unfinished.                                                                       *)
WordsAsSent == spiWords = FlattenSeq([s \in DOMAIN spiSent |-> WholeWords(spiSent[s])])

SpiDecodeInv == SpiDecodeTypeOK /\ WordsAsSent
=============================================================================
