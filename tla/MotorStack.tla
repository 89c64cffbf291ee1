----------------------------- MODULE MotorStack -----------------------------
(***************************************************************************)
(* A motor and battery emulator on the pod's SPI link (motor_emulator.py,  *)
(* open_motor_emulator of client.py): its lifetime and configuration, the  *)
(* logging stream, and the battery model.  The gateware pushes whole sets  *)
(* of words into a FIFO and drops a set that does not fit; the host reads  *)
(* words in pieces and cuts them into sets.  A command may fail before the *)
(* pod acted on it or after.  A word is the set it belongs to and its      *)
(* place there; Junk is what a board without gateware answers.             *)
(***************************************************************************)
EXTENDS Integers, Sequences, SequencesExt

CONSTANTS
    FifoWords,  \* words that the FIFO holds
    ReadWords,  \* words of one transfer
    MaxSets     \* bound: sets logged; and the words kept after reads that failed

ASSUME MotorAssumption == {FifoWords, ReadWords} \subseteq Nat \ {0} /\ MaxSets \in Nat

VARIABLES
    gates,      \* the board: "blank" or "loaded"
    spiArmed, pinsHeld,   \* the pod: its SPI master, and the pins held for the stack
    stack,      \* the MotorEmulator: "none", "opening", "open", "closing" or "closed"
    undo,       \* what opening or closing has still to release, and "spi" when that is stopped
    astray,     \* history: what was taken and the reply lost, or could not be given back
    logging,    \* board: words of a set being logged, 0 when off
    fifo,       \* board: the words waiting
    sets,       \* board: sets logged or dropped so far
    width,      \* host: set_words of its log, 0 without one
    carried,    \* host: words read and not yet a set
    toRead,     \* host: words that the read_log under way has still to read
    motorPc,    \* "idle", "starting", "reading", "configuring" or "stopped"
    given,        \* the sets that the last read_log returned
    battery,    \* board: the model in it, 0 for none
    model,      \* the model that set_battery is writing
    entryOf,    \* host: the model that _qshift is of
    slip        \* history: what failed in the log and the models: "words", "blank", "model"

podSide == <<spiArmed, pinsHeld, stack, undo, astray>>
logVars == <<logging, fifo, sets, width, carried, toRead, given>>
batteryVars == <<battery, model, entryOf>>
motorVars == <<gates, podSide, logVars, motorPc, batteryVars, slip>>

Pins == {"PROGRAMN", "DONE"}
Models == {1, 2}
Junk == <<0, 0>>
Strays(what, when) == astray' = IF when THEN astray \cup {what} ELSE astray

MotorInit ==
    /\ gates \in {"blank", "loaded"}
    /\ spiArmed = FALSE /\ pinsHeld = {} /\ stack = "none" /\ undo = {} /\ astray = {}
    /\ logging = 0 /\ fifo = <<>> /\ sets = 0 /\ width = 0 /\ carried = <<>> /\ toRead = 0 /\ given = <<>>
    /\ motorPc = "idle" /\ battery = 0 /\ model = 1 /\ entryOf = 0 /\ slip = {}

-----------------------------------------------------------------------------
(* open_motor_emulator and close *)

OpenStack(did, ok) ==
    /\ stack = "none" /\ (ok => did)
    /\ spiArmed' = did /\ Strays("spi", did /\ ~ok)
    /\ stack' = IF ok THEN "opening" ELSE "closed"
    /\ UNCHANGED <<gates, pinsHeld, undo, logVars, motorPc, batteryVars, slip>>

(* PROGRAMN, then DONE; a failure gives up what is held so far. *)
TakePin(did, ok) ==
    LET pin == IF "PROGRAMN" \in undo THEN "DONE" ELSE "PROGRAMN"
    IN  /\ stack = "opening" /\ (ok => did)
        /\ pinsHeld' = IF did THEN pinsHeld \cup {pin} ELSE pinsHeld
        /\ Strays(pin, did /\ ~ok)
        /\ undo' = IF ok THEN undo \cup {pin} ELSE undo
        /\ stack' = CASE ~ok -> "closing" [] ok /\ pin = "DONE" -> "open" [] OTHER -> "opening"
        /\ UNCHANGED <<gates, spiArmed, logVars, motorPc, batteryVars, slip>>

CloseStack ==
    /\ stack = "open" /\ motorPc = "idle" /\ stack' = "closing"
    /\ UNCHANGED <<gates, spiArmed, pinsHeld, undo, astray, logVars, motorPc, batteryVars, slip>>

(* spi_stop first.  close() releases the pins all the same when it fails; opening  *)
(* that gave up does not.                                                          *)
StopSpi(did, ok) ==
    /\ stack = "closing" /\ spiArmed /\ "spi" \notin undo /\ (ok => did)
    /\ spiArmed' = ~did /\ Strays("spi", ~ok)
    /\ IF ~ok /\ undo # Pins THEN stack' = "closed" /\ UNCHANGED undo
       ELSE undo' = undo \cup {"spi"} /\ UNCHANGED stack
    /\ UNCHANGED <<gates, pinsHeld, logVars, motorPc, batteryVars, slip>>

(* The first release that fails ends it. *)
ReleasePins(did, ok) ==
    LET pin == IF "PROGRAMN" \in undo THEN "PROGRAMN" ELSE "DONE"
    IN  /\ stack = "closing" /\ "spi" \in undo /\ (ok => did)
        /\ IF undo \cap Pins = {} THEN ok /\ stack' = "closed" /\ UNCHANGED <<pinsHeld, undo, astray>>
           ELSE /\ pinsHeld' = IF did THEN pinsHeld \ {pin} ELSE pinsHeld
                /\ undo' = undo \ {pin}
                /\ stack' = IF ok THEN stack ELSE "closed"
                /\ Strays(pin, ~ok)
        /\ UNCHANGED <<gates, spiArmed, logVars, motorPc, batteryVars, slip>>

-----------------------------------------------------------------------------
(* configure: PROGRAMN wipes the board, the bitstream loads it, DONE says so.      *)

Wiped == logging' = 0 /\ fifo' = <<>> /\ battery' = 0

ConfigureMotor ==
    /\ stack = "open" /\ motorPc = "idle" /\ motorPc' = "configuring"
    /\ gates' = "blank" /\ Wiped /\ given' = <<>>
    /\ UNCHANGED <<podSide, sets, width, carried, toRead, model, entryOf, slip>>

(* The host forgets its log and models when DONE rose, and not when it raises.     *)
Configured(loaded, ok) ==
    /\ motorPc = "configuring" /\ motorPc' = "idle" /\ (ok => loaded)
    /\ gates' = IF loaded THEN "loaded" ELSE "blank"
    /\ IF ok THEN width' = 0 /\ carried' = <<>> /\ entryOf' = 0 /\ slip' = slip \ {"words", "blank", "model"}
       ELSE slip' = slip \cup {"blank", "model"} /\ UNCHANGED <<width, carried, entryOf>>
    /\ UNCHANGED <<podSide, logging, fifo, sets, toRead, given, battery, model>>

-----------------------------------------------------------------------------
(* The logging stream *)

Words(set, n) == [i \in 1 .. n |-> <<set, i>>]

(* The gateware logs a set, or drops it whole. *)
LogSet ==
    /\ logging > 0 /\ sets < MaxSets /\ sets' = sets + 1
    /\ fifo' = IF Len(fifo) + logging <= FifoWords THEN fifo \o Words(sets + 1, logging) ELSE fifo
    /\ UNCHANGED <<gates, podSide, logging, width, carried, toRead, given, motorPc, batteryVars, slip>>

(* start_log stops and empties the log, ... *)
StartLog(did, ok) ==
    /\ stack = "open" /\ motorPc = "idle" /\ (ok => did)
    /\ IF did /\ gates = "loaded" THEN logging' = 0 /\ fifo' = <<>> ELSE UNCHANGED <<logging, fifo>>
    /\ motorPc' = IF ok THEN "starting" ELSE "idle"
    /\ UNCHANGED <<gates, podSide, sets, width, carried, toRead, given, batteryVars, slip>>

(* ... notes the set's words, and starts it. *)
LogStarts(n, did, ok) ==
    /\ motorPc = "starting" /\ motorPc' = "idle" /\ (ok => did)
    /\ width' = n /\ carried' = <<>>
    /\ logging' = IF did /\ gates = "loaded" THEN n ELSE logging
    /\ given' = <<>>
    /\ slip' = (slip \ {"words", "blank"}) \cup (IF gates = "blank" THEN {"blank"} ELSE {})
    /\ UNCHANGED <<gates, podSide, fifo, sets, toRead, batteryVars>>

StopLog(did, ok) ==
    /\ stack = "open" /\ motorPc = "idle" /\ (ok => did)
    /\ logging' = IF did THEN 0 ELSE logging
    /\ UNCHANGED <<gates, podSide, fifo, sets, width, carried, toRead, given, motorPc, batteryVars, slip>>

(* read_log: how many words wait, ... *)
ReadLog(asked) ==
    /\ stack = "open" /\ motorPc = "idle" /\ width > 0
    /\ Len(carried) < MaxSets
    /\ LET level == IF gates = "loaded" THEN Len(fifo) ELSE FifoWords
       IN  toRead' = IF asked < level THEN asked ELSE level
    /\ motorPc' = "reading" /\ given' = <<>>
    /\ UNCHANGED <<gates, podSide, logging, fifo, sets, width, carried, batteryVars, slip>>

(* ... piece after piece, which the FIFO gives once, ... *)
ReadPiece(did, ok) ==
    LET k == IF toRead < ReadWords THEN toRead ELSE ReadWords
        loaded == gates = "loaded"
    IN  /\ motorPc = "reading" /\ toRead > 0 /\ (ok => did)
        /\ fifo' = IF did /\ loaded THEN SubSeq(fifo, k + 1, Len(fifo)) ELSE fifo
        /\ carried' = IF ~ok THEN carried
                      ELSE carried \o (IF loaded THEN SubSeq(fifo, 1, k) ELSE [i \in 1 .. k |-> Junk])
        /\ toRead' = IF ok THEN toRead - k ELSE 0
        /\ motorPc' = IF ok THEN "reading" ELSE "idle"
        /\ slip' = IF ~ok /\ did /\ loaded THEN slip \cup {"words"} ELSE slip
        /\ UNCHANGED <<gates, podSide, logging, sets, width, given, batteryVars>>

(* ... and what makes whole sets is returned, the rest kept for the next read. *)
ReadDone ==
    LET n == Len(carried) \div width
    IN  /\ motorPc = "reading" /\ toRead = 0 /\ motorPc' = "idle"
        /\ given' = [i \in 1 .. n |-> SubSeq(carried, (i - 1) * width + 1, i * width)]
        /\ carried' = SubSeq(carried, n * width + 1, Len(carried))
        /\ UNCHANGED <<gates, podSide, logging, fifo, sets, width, toRead, batteryVars, slip>>

-----------------------------------------------------------------------------
(* set_battery: stop, write the model, note its scale, run. *)

SetBattery(m, ok) ==
    /\ stack = "open" /\ motorPc = "idle" /\ model' = m
    /\ motorPc' = IF ok THEN "stopped" ELSE "idle"
    /\ UNCHANGED <<gates, podSide, logVars, battery, entryOf, slip>>
WriteModel(did, ok) ==
    /\ motorPc = "stopped" /\ (ok => did)
    /\ battery' = IF did /\ gates = "loaded" THEN model ELSE battery
    /\ entryOf' = IF ok THEN model ELSE entryOf
    /\ motorPc' = "idle"
    /\ slip' = IF ~ok THEN slip \cup {"model"} ELSE IF gates = "loaded" THEN slip \ {"model"} ELSE slip \cup {"model"}
    /\ UNCHANGED <<gates, podSide, logVars, model>>

MotorNext ==
    \/ \E did, ok \in BOOLEAN :
         \/ OpenStack(did, ok) \/ TakePin(did, ok) \/ StopSpi(did, ok) \/ ReleasePins(did, ok)
         \/ Configured(did, ok) \/ StartLog(did, ok) \/ StopLog(did, ok) \/ ReadPiece(did, ok) \/ WriteModel(did, ok)
         \/ \E n \in 1 .. 2 : LogStarts(n, did, ok)
    \/ CloseStack \/ ConfigureMotor \/ LogSet \/ ReadDone
    \/ \E asked \in 1 .. FifoWords : ReadLog(asked)
    \/ \E m \in Models, ok \in BOOLEAN : SetBattery(m, ok)

MotorSpec == MotorInit /\ [][MotorNext]_motorVars

-----------------------------------------------------------------------------
MotorTypeOK ==
    /\ gates \in {"blank", "loaded"} /\ spiArmed \in BOOLEAN /\ pinsHeld \subseteq Pins
    /\ stack \in {"none", "opening", "open", "closing", "closed"} /\ {undo, astray} \subseteq SUBSET (Pins \cup {"spi"})
    /\ {logging, width} \subseteq 0 .. 2 /\ Len(fifo) <= FifoWords /\ sets \in 0 .. MaxSets
    /\ toRead \in 0 .. FifoWords
    /\ motorPc \in {"idle", "starting", "reading", "configuring", "stopped"}
    /\ {battery, entryOf} \subseteq Models \cup {0} /\ model \in Models
    /\ slip \subseteq {"words", "blank", "model"}

(* Every set that read_log returns is one that the gateware logged, whole and in   *)
(* order, however the reads cut the stream: unless the words of a transfer were    *)
(* lost in this log, or the board has no gateware (a failed configure keeps the    *)
(* host's log, and the next read takes what a blank board answers for sets).       *)
SetsAreWhole ==
    slip \cap {"words", "blank"} = {} =>
        /\ \A i \in DOMAIN given : \E s \in 1 .. sets : given[i] = Words(s, Len(given[i]))
        /\ \A i, j \in DOMAIN given : i < j => given[i][1][1] < given[j][1][1]

(* ... and what read_log leaves is less than a set, the beginning of the next one. *)
RestIsTheBeginning ==
    motorPc = "idle" /\ carried # <<>> /\ slip \cap {"words", "blank"} = {} => carried[1][2] = 1

(* The charge that battery_state tells is in the scale of the model in the board,  *)
(* unless writing a model or configuring failed since the last one.                *)
ChargeIsOfTheModel == motorPc = "idle" /\ "model" \notin slip => entryOf = battery

(* A stack that is closed, or that could not be opened, leaves a thing taken only    *)
(* when the reply to the very command that took it was lost or the one that gives   *)
(* it back failed; and a pin that it never came to release, only when the command   *)
(* before that failed: spi_stop for PROGRAMN, and PROGRAMN's release for DONE.      *)
StackLetsGo ==
    stack = "closed" =>
        /\ spiArmed => "spi" \in astray
        /\ "PROGRAMN" \in pinsHeld => "PROGRAMN" \in astray \/ ("PROGRAMN" \in undo /\ "spi" \in astray)
        /\ "DONE" \in pinsHeld => "DONE" \in astray \/ ("DONE" \in undo /\ "PROGRAMN" \in astray)

MotorInv == MotorTypeOK /\ SetsAreWhole /\ RestIsTheBeginning /\ ChargeIsOfTheModel /\ StackLetsGo
=============================================================================
