------------------------------ MODULE I2cDecode ------------------------------
(***************************************************************************)
(* decode_samples of i2c.py, beside the bus it listens to.  Masters and    *)
(* slaves move SCL and SDA; each step is the next sample of the capture,   *)
(* which sees every level of SCL but not every change of SDA under a low   *)
(* SCL, and may begin in the middle of a transaction.  A byte is the       *)
(* sequence of its bits as they come.                                      *)
(***************************************************************************)
EXTENDS Integers, Sequences, SequencesExt

CONSTANTS
    ByteBits,    \* bits of a byte (8)
    MaxBusBits,  \* bound: bits in a capture
    MaxStarts    \* bound: START conditions in a capture

ASSUME I2cAssumption == ByteBits \in Nat \ {0, 1} /\ {MaxBusBits, MaxStarts} \subseteq Nat

VARIABLES
    bus,        \* the levels of SCL and SDA, and what their owners are about
    spoken,     \* transactions whose START the capture saw: the bits after each START
    stops,      \* how many of them a STOP has ended
    heard,      \* pscl and psda
    openTxn,    \* txn, its last message being msg: <<messages>>, or <<>> for None
    newMsg,     \* new_msg_pending
    byteSoFar,  \* cur_byte and bit_count
    awaitingAck,
    txns        \* the list that decode_samples returns

i2cVars == <<bus, spoken, stops, heard, openTxn, newMsg, byteSoFar, awaitingAck, txns>>

(* The decoder: one turn of its loop, for the sample (scl, sda). *)

HearStart ==
    /\ openTxn' = IF openTxn = <<>> THEN << <<>> >> ELSE openTxn
    /\ newMsg' = TRUE /\ byteSoFar' = <<>> /\ awaitingAck' = FALSE
    /\ UNCHANGED txns

HearStop ==
    /\ txns' = txns \o openTxn
    /\ openTxn' = <<>>
    /\ newMsg' = FALSE /\ byteSoFar' = <<>> /\ awaitingAck' = FALSE

HearBit(b) ==
    /\ byteSoFar' = Append(byteSoFar, b)
    /\ awaitingAck' = (Len(byteSoFar) + 1 = ByteBits)
    /\ UNCHANGED <<openTxn, newMsg, txns>>

(* new_msg_pending holds from a START to the end of its address, so that a byte of *)
(* data always has a message to go to.                                             *)
HearAck(b) ==
    LET said == [byte |-> byteSoFar, ack |-> b = 0]
        msgs == openTxn[1]
    IN  /\ openTxn' = IF newMsg THEN << Append(msgs, <<said>>) >>
                      ELSE << [msgs EXCEPT ![Len(msgs)] = Append(@, said)] >>
        /\ newMsg' = FALSE /\ byteSoFar' = <<>> /\ awaitingAck' = FALSE
        /\ UNCHANGED txns

Hear(scl, sda) ==
    /\ heard' = [scl |-> scl, sda |-> sda]
    /\ IF heard.scl = 1 /\ scl = 1 /\ heard.sda # sda
         THEN IF sda = 0 THEN HearStart ELSE HearStop
       ELSE IF heard.scl = 0 /\ scl = 1 /\ openTxn # <<>>
         THEN IF awaitingAck THEN HearAck(sda) ELSE HearBit(sda)
       ELSE UNCHANGED <<openTxn, newMsg, byteSoFar, awaitingAck, txns>>

(* The bus *)

Levels(scl, sda, doing) ==
    /\ bus' = [bus EXCEPT !.scl = scl, !.sda = sda, !.doing = doing]
    /\ Hear(scl, sda)

(* The bits since the last START, and whether they are whole bytes with their acks *)
Said == Last(Last(spoken))
AtBoundary == bus.seen => Said # <<>> /\ Len(Said) % (ByteBits + 1) = 0

I2cStart ==
    /\ bus.doing \in {"rest", "restart"} /\ Len(FlattenSeq(spoken)) < MaxStarts
    /\ bus' = [scl |-> 1, sda |-> 0, doing |-> "talk", seen |-> TRUE]
    /\ Hear(1, 0)
    /\ spoken' = IF bus.doing = "rest" \/ ~bus.seen THEN Append(spoken, << <<>> >>)
                 ELSE [spoken EXCEPT ![Len(spoken)] = Append(@, <<>>)]
    /\ UNCHANGED stops

(* SDA may move as often as it likes until SCL rises: what the decoder goes by is  *)
(* its last level under the low SCL.                                               *)
ClockFalls ==
    /\ bus.doing = "talk" /\ bus.scl = 1
    /\ \E sda \in {0, 1} : Levels(0, sda, "talk")
    /\ UNCHANGED <<spoken, stops>>

(* A bit of an address or of data, or an ack. *)
BitRises ==
    /\ bus.doing = "talk" /\ bus.scl = 0
    /\ Len(FlattenSeq(FlattenSeq(spoken))) < MaxBusBits
    /\ \E sda \in {0, 1} :
          /\ Levels(1, sda, "talk")
          /\ spoken' = IF bus.seen
                       THEN [spoken EXCEPT ![Len(spoken)][Len(spoken[Len(spoken)])] = Append(@, sda)]
                       ELSE spoken
    /\ UNCHANGED stops

(* SCL rises for a repeated START, or for a STOP: a rise that carries no bit. *)
RiseToRestart ==
    /\ bus.doing = "talk" /\ bus.scl = 0 /\ AtBoundary
    /\ Levels(1, 1, "restart")
    /\ UNCHANGED <<spoken, stops>>
RiseToStop ==
    /\ bus.doing = "talk" /\ bus.scl = 0 /\ AtBoundary
    /\ Levels(1, 0, "stopping")
    /\ UNCHANGED <<spoken, stops>>

I2cStop ==
    /\ bus.doing = "stopping"
    /\ Levels(1, 1, "rest")
    /\ stops' = IF bus.seen THEN stops + 1 ELSE stops
    /\ UNCHANGED spoken

I2cInit ==
    /\ bus \in {[scl |-> 1, sda |-> 1, doing |-> "rest", seen |-> FALSE],
                [scl |-> 1, sda |-> 1, doing |-> "restart", seen |-> FALSE],
                [scl |-> 1, sda |-> 0, doing |-> "stopping", seen |-> FALSE]}
               \cup [scl : {0, 1}, sda : {0, 1}, doing : {"talk"}, seen : {FALSE}]
    /\ heard = [scl |-> bus.scl, sda |-> bus.sda]
    /\ spoken = <<>> /\ stops = 0
    /\ openTxn = <<>> /\ txns = <<>>
    /\ newMsg = FALSE /\ byteSoFar = <<>> /\ awaitingAck = FALSE

I2cNext ==
    \/ I2cStart \/ ClockFalls \/ BitRises \/ RiseToRestart
    \/ RiseToStop \/ I2cStop

I2cSpec == I2cInit /\ [][I2cNext]_i2cVars
-----------------------------------------------------------------------------
I2cTypeOK ==
    /\ heard = [scl |-> bus.scl, sda |-> bus.sda]
    /\ Len(openTxn) <= 1 /\ newMsg \in BOOLEAN /\ Len(byteSoFar) <= ByteBits

(* What was said, byte by byte: the first byte of a message is its address and its *)
(* direction.                                                                      *)
Bytes(said) ==
    [i \in 1 .. Len(said) \div (ByteBits + 1) |->
        LET from == (i - 1) * (ByteBits + 1)
        IN  [byte |-> SubSeq(said, from + 1, from + ByteBits), ack |-> said[from + ByteBits + 1] = 0]]
(* A message of which no byte was said yet is none; only the last can be one.      *)
BegunTxn(txn) == IF Len(Last(txn)) > ByteBits THEN Len(txn) ELSE Len(txn) - 1
Messages(txn) == [m \in 1 .. BegunTxn(txn) |-> Bytes(txn[m])]

(* Every transaction that was ended in the capture is returned, in order and as it  *)
(* was said; nothing of one whose START came before the capture is.                 *)
HeardAsSaid ==
    /\ txns = [t \in 1 .. stops |-> Messages(spoken[t])]
    /\ openTxn = [t \in 1 .. Len(spoken) - stops |-> Messages(spoken[stops + t])]

I2cInv == I2cTypeOK /\ HeardAsSaid
=============================================================================
