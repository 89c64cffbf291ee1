------------------------ MODULE UnreliableLinkProofs ------------------------
(* What holds of what goes over a link that may fail under it.  The UART     *)
(* console, for any callers, stream, chunk and buffer: text comes out once   *)
(* and in order, no wakeup is lost, and the end is told from a failure.      *)
(* flash(), for any number of attempts, window and frames: what it leaves    *)
(* behind, what counts as a dropped link, and that a run that came out well  *)
(* is the last.  A cloud command, for any number of calls, retry delays and  *)
(* tokens: a command that does not merely read reaches the pod at most once  *)
(* per call, and no call sends a rejected token again.                       *)
EXTENDS UartSession, FlashBridge, CloudCommand, FiniteSetTheorems, TLAPS

-----------------------------------------------------------------------------
(* The UART console (uart.py). *)

(* The decoder returns a number of characters. *)
LEMMA CharsAreCounted ==
    ASSUME NEW from \in Nat, NEW to \in Nat
    PROVE  CharsIn(from, to) \in Nat
<1>1. IsFiniteSet(CharEnds \cap (from + 1)..to)
    BY FS_Interval, FS_Subset, from + 1 \in Int, to \in Int
<1> QED BY <1>1, FS_CardinalityType DEF CharsIn

(* _append_locked keeps the buffer within max_buffer and the cursor in it. *)
LEMMA AppendTyped ==
    ASSUME NEW n \in Nat, Append(n),
           received \in Nat, dropped \in 0..received, consumed \in 0..(received - dropped),
           received - dropped <= MaxBuffer
    PROVE  /\ received' \in Nat /\ dropped' \in 0..received'
           /\ consumed' \in 0..(received' - dropped')
           /\ received' - dropped' <= MaxBuffer
BY StreamAssumption DEF Append

(* ... and loses unread characters only when max_buffer are not enough. *)
LEMMA AppendStreams ==
    ASSUME NEW n \in Nat, Append(n),
           received \in Nat, dropped \in 0..received, consumed \in 0..(received - dropped),
           received - dropped <= MaxBuffer
    PROVE  Stream!Arrive \/ UNCHANGED <<received, Cursor>>
<1>1. CASE n = 0
    BY <1>1, StreamAssumption DEF Append, Cursor
<1>2. CASE n > 0
  <2>1. received' \in Nat /\ received' > received
    BY <1>2 DEF Append
  <2>2. Cursor' = Cursor + Stream!Room(received' - Cursor)
    BY <1>2, StreamAssumption DEF Append, Cursor, Stream!Room
  <2> QED BY <2>1, <2>2 DEF Stream!Arrive
<1> QED BY <1>1, <1>2

(* The session only ever holds values of these types; in particular the text  *)
(* kept is at most max_buffer characters and the read cursor lies within it.  *)
THEOREM ConsoleIsTyped == SafetySpec => []TypeOK
<1>1. Init => TypeOK
  <2> SUFFICES ASSUME Init PROVE TypeOK
    OBVIOUS
  <2>1. /\ sent \in Nat /\ taken \in 0..sent /\ hand \in 0..taken
        /\ received \in Nat /\ dropped \in 0..received
        /\ consumed \in 0..(received - dropped) /\ received - dropped <= MaxBuffer
    BY StreamAssumption DEF Init
  <2>2. call \in [Callers -> Waits \cup {"idle"}] /\ woken \in [Callers -> BOOLEAN]
    BY Zenon DEF Init
  <2> QED BY <2>1, <2>2 DEF Init, TypeOK
<1>2. TypeOK /\ [Next]_vars => TypeOK'
  <2> SUFFICES ASSUME TypeOK, [Next]_vars PROVE TypeOK'
    OBVIOUS
  <2> USE DEF input, reader, buffer, callers
  <2>1. CASE DutSends \/ LinkEnds("eof") \/ LinkEnds("failed")
    BY <2>1 DEF DutSends, LinkEnds, TypeOK
  <2>2. CASE TestStop \/ LinkReadEnds \/ LinkReadRaises \/ NoteError
    BY <2>2 DEF TestStop, LinkReadEnds, LinkReadRaises, NoteError, TypeOK
  <2>3. CASE LinkRead
    BY <2>3, StreamAssumption DEF LinkRead, TypeOK
  <2>4. CASE AppendChunk
    <3>1. CharsIn(taken - hand, taken) \in Nat
      <4>1. taken - hand \in Nat /\ taken \in Nat
        BY DEF TypeOK
      <4> QED BY <4>1, CharsAreCounted
    <3>2. /\ received' \in Nat /\ dropped' \in 0..received'
          /\ consumed' \in 0..(received' - dropped')
          /\ received' - dropped' <= MaxBuffer
      BY <2>4, <3>1, AppendTyped DEF AppendChunk, TypeOK
    <3>3. woken' \in [Callers -> BOOLEAN] /\ call' = call
      BY <2>4, Zenon DEF AppendChunk, NotifyAll
    <3>4. /\ hand' = 0 /\ thread' = "test"
          /\ UNCHANGED <<input, stop, cause, closing>>
      BY <2>4, Zenon DEF AppendChunk
    <3>5. closed' \in BOOLEAN /\ error' \in BOOLEAN
      BY <2>4, Zenon DEF AppendChunk, TypeOK
    <3>6. hand' \in 0..taken' /\ thread' \in {"test", "reading", "got", "ended", "ending", "dead"}
      BY <3>4 DEF TypeOK
    <3> QED BY <3>2, <3>3, <3>4, <3>5, <3>6 DEF TypeOK
  <2>5. CASE AppendEnd
    <3>1. CutShort \in Nat
      BY DEF CutShort
    <3>2. /\ received' \in Nat /\ dropped' \in 0..received'
          /\ consumed' \in 0..(received' - dropped')
          /\ received' - dropped' <= MaxBuffer
      BY <2>5, <3>1, AppendTyped DEF AppendEnd, TypeOK
    <3>3. woken' \in [Callers -> BOOLEAN] /\ call' = call
      BY <2>5, Zenon DEF AppendEnd, NotifyAll
    <3>4. /\ closed' \in BOOLEAN /\ error' \in BOOLEAN /\ thread' = "dead"
          /\ UNCHANGED <<input, stop, hand, cause, closing>>
      BY <2>5, Zenon DEF AppendEnd
    <3> QED BY <3>2, <3>3, <3>4 DEF TypeOK
  <2>6. ASSUME NEW c \in Callers, Call(c) \/ Resume(c) \/ TimeOut(c) PROVE TypeOK'
    <3>1. PICK timedOut \in BOOLEAN : TurnUntil(c, timedOut) \/ TurnRead(c, timedOut)
      BY <2>6 DEF Call, Resume, TimeOut
    <3>2. UNCHANGED <<input, stop, reader, closed, error, closing>>
      BY <2>6 DEF Call, Resume, TimeOut
    <3>3. /\ call' \in [Callers -> Waits \cup {"idle"}] /\ woken' \in [Callers -> BOOLEAN]
      BY <3>1 DEF TurnUntil, TurnRead, Return, Wait, TypeOK, Waits
    <3>4. received' = received /\ dropped' = dropped /\ consumed' \in 0..(received - dropped)
      <4>1. CASE TurnUntil(c, timedOut)
        <5>1. CASE UNCHANGED buffer
          BY <5>1 DEF TypeOK
        <5>2. CASE \E m \in Found : First(m) /\ Deliver(m)
          BY <5>2, StreamAssumption DEF Found, Deliver, Cursor, TypeOK
        <5> QED BY <4>1, <5>1, <5>2 DEF TurnUntil
      <4>2. CASE TurnRead(c, timedOut)
        BY <4>2 DEF TurnRead, Deliver, TypeOK
      <4> QED BY <3>1, <4>1, <4>2
    <3> QED BY <3>2, <3>3, <3>4 DEF TypeOK
  <2>7. CASE Close \/ CloseLink \/ CloseReturns
    BY <2>7 DEF Close, CloseLink, CloseReturns, TypeOK
  <2>8. CASE UNCHANGED vars
    BY <2>8 DEF vars, TypeOK
  <2> QED BY <2>1, <2>2, <2>3, <2>4, <2>5, <2>6, <2>7, <2>8 DEF Next, ReaderThread
<1> QED BY <1>1, <1>2, PTL DEF SafetySpec

-----------------------------------------------------------------------------
(* A caller that delivers or gives up moves the cursor forward, never past    *)
(* the end of the text, and leaves everything else of the buffer alone.       *)
LEMMA TurnAdvances ==
    ASSUME TypeOK, NEW c \in Callers, Call(c) \/ Resume(c) \/ TimeOut(c)
    PROVE  /\ received' = received /\ dropped' = dropped
           /\ Cursor' \in Nat /\ Cursor' >= Cursor /\ Cursor' <= received
<1>1. PICK timedOut \in BOOLEAN : TurnUntil(c, timedOut) \/ TurnRead(c, timedOut)
  BY DEF Call, Resume, TimeOut
<1>2. CASE UNCHANGED buffer
  BY <1>2 DEF buffer, Cursor, TypeOK
<1>3. CASE \E m \in Found : First(m) /\ Deliver(m)
  BY <1>3, StreamAssumption DEF Found, Deliver, Cursor, TypeOK
<1>4. CASE Deliver(received)
  BY <1>4 DEF Deliver, Cursor, TypeOK
<1> QED BY <1>1, <1>2, <1>3, <1>4 DEF TurnUntil, TurnRead

(* A cursor further on finds no occurrence that it did not find before. *)
LEMMA FoundShrinks ==
    ASSUME TypeOK, received' = received, Cursor' \in Nat, Cursor' >= Cursor
    PROVE  Found' \subseteq Found
<1>1. Cursor \in Nat /\ received \in Nat
  BY DEF Cursor, TypeOK
<1>2. ASSUME NEW m \in Marks, Cursor' + PatLen <= m
      PROVE  Cursor + PatLen <= m
  <2>1. m \in Nat /\ PatLen \in Nat
    BY StreamAssumption
  <2>2. \A a, b \in Nat : a <= b /\ b + PatLen <= m => a + PatLen <= m
    BY <2>1
  <2> QED BY <1>1, <1>2, <2>2
<1> QED BY <1>2 DEF Found

(* Everything else that changes the buffer is an append. *)
LEMMA BufferSteps ==
    ASSUME TypeOK, [Next]_vars
    PROVE  \/ UNCHANGED buffer
           \/ \E n \in Nat : Append(n)
           \/ \E c \in Callers : Call(c) \/ Resume(c) \/ TimeOut(c)
<1>1. CASE AppendChunk
  <2>1. taken - hand \in Nat /\ taken \in Nat
    BY DEF TypeOK
  <2> QED BY <1>1, <2>1, CharsAreCounted DEF AppendChunk
<1>2. CASE AppendEnd
  <2>1. CutShort \in Nat
    BY DEF CutShort
  <2> QED BY <1>2, <2>1 DEF AppendEnd
<1>3. CASE DutSends \/ LinkEnds("eof") \/ LinkEnds("failed") \/ TestStop \/ LinkRead
           \/ LinkReadEnds \/ LinkReadRaises \/ NoteError \/ Close \/ CloseLink
           \/ CloseReturns \/ UNCHANGED vars
  BY <1>3 DEF DutSends, LinkEnds, TestStop, LinkRead, LinkReadEnds, LinkReadRaises,
              NoteError, Close, CloseLink, CloseReturns, vars, buffer
<1> QED BY <1>1, <1>2, <1>3 DEF Next, ReaderThread

(* The console implements the stream: no character of the DUT is returned     *)
(* twice, out of order or skipped, and unread text is lost only to overflow.  *)
THEOREM ConsoleStreams == SafetySpec => InOrderOnce
<1>1. Init => Stream!Init
  BY DEF Init, Cursor, Stream!Init
<1>2. TypeOK /\ [Next]_vars => [Stream!Next]_<<received, Cursor>>
  <2> SUFFICES ASSUME TypeOK, [Next]_vars
               PROVE  Stream!Next \/ UNCHANGED <<received, Cursor>>
    OBVIOUS
  <2>1. CASE UNCHANGED buffer
    BY <2>1 DEF buffer, Cursor
  <2>2. ASSUME NEW n \in Nat, Append(n)
        PROVE  Stream!Next \/ UNCHANGED <<received, Cursor>>
    <3>1. Stream!Arrive \/ UNCHANGED <<received, Cursor>>
      BY <2>2, AppendStreams DEF TypeOK
    <3> QED BY <3>1 DEF Stream!Next
  <2>3. ASSUME NEW c \in Callers, Call(c) \/ Resume(c) \/ TimeOut(c)
        PROVE  Stream!Next \/ UNCHANGED <<received, Cursor>>
    <3>1. /\ received' = received
          /\ Cursor' \in Nat /\ Cursor' >= Cursor /\ Cursor' <= received
      BY <2>3, TurnAdvances
    <3>2. Cursor \in Nat
      BY DEF Cursor, TypeOK
    <3> QED BY <3>1, <3>2 DEF Stream!Next, Stream!Deliver
  <2> QED BY <2>1, <2>2, <2>3, BufferSteps
<1> QED BY <1>1, <1>2, ConsoleIsTyped, PTL DEF SafetySpec, InOrderOnce, Stream!Spec

-----------------------------------------------------------------------------
(* Callers only fall asleep on a buffer that has nothing for them, and every   *)
(* change that could satisfy one of them has notified them all.                *)
THEOREM NoWakeupIsLost == SafetySpec => []NoLostWakeup
<1>1. Init => NoLostWakeup
  BY DEF Init, NoLostWakeup
<1>2. TypeOK /\ NoLostWakeup /\ [Next]_vars => NoLostWakeup'
  <2> SUFFICES ASSUME TypeOK, NoLostWakeup, [Next]_vars,
                      NEW d \in Callers, call'[d] # "idle", ~woken'[d]
               PROVE  /\ ~closed'
                      /\ call'[d] = "until" => Found' = {}
                      /\ call'[d] = "read" => Cursor' = received'
    BY DEF NoLostWakeup
  <2>1. CASE AppendChunk \/ AppendEnd
    BY <2>1 DEF AppendChunk, AppendEnd, NotifyAll
  <2>2. CASE UNCHANGED <<buffer, closed, callers>>
    BY <2>2 DEF NoLostWakeup, buffer, callers, Found, Cursor
  <2>3. ASSUME NEW c \in Callers, Call(c) \/ Resume(c) \/ TimeOut(c)
        PROVE  /\ ~closed'
               /\ call'[d] = "until" => Found' = {}
               /\ call'[d] = "read" => Cursor' = received'
    <3>1. /\ received' = received
          /\ Cursor' \in Nat /\ Cursor' >= Cursor /\ Cursor' <= received
      BY <2>3, TurnAdvances
    <3>0. closed' = closed
      BY <2>3 DEF Call, Resume, TimeOut
    <3>2. Found' \subseteq Found
      BY <3>1, FoundShrinks
    <3>3. PICK timedOut \in BOOLEAN : TurnUntil(c, timedOut) \/ TurnRead(c, timedOut)
      BY <2>3 DEF Call, Resume, TimeOut
    <3>4. CASE d # c
      <4>1. call'[d] = call[d] /\ woken'[d] = woken[d]
        BY <3>3, <3>4 DEF TurnUntil, TurnRead, Return, Wait, TypeOK
      <4>2. Cursor = received => Cursor' = received'
        BY <3>1 DEF Cursor, TypeOK
      <4> QED BY <3>0, <3>1, <3>2, <4>1, <4>2 DEF NoLostWakeup
    <3>5. CASE d = c
      <4>1. ~Return(c)
        BY <3>5 DEF Return, TypeOK
      <4>2. CASE Found = {} /\ ~closed /\ Wait(c, "until")
        BY <3>0, <3>1, <3>2, <3>5, <4>2 DEF Wait, TypeOK
      <4>3. CASE Cursor = received /\ ~closed /\ Wait(c, "read")
        <5>1. call'[d] = "read"
          BY <3>5, <4>3 DEF Wait, TypeOK
        <5> QED BY <3>0, <3>1, <4>3, <5>1 DEF Cursor, TypeOK
      <4> QED BY <3>3, <4>1, <4>2, <4>3 DEF TurnUntil, TurnRead
    <3> QED BY <3>4, <3>5
  <2>4. CASE DutSends \/ LinkEnds("eof") \/ LinkEnds("failed") \/ TestStop \/ LinkRead
             \/ LinkReadEnds \/ LinkReadRaises \/ NoteError \/ Close \/ CloseLink
             \/ CloseReturns \/ UNCHANGED vars
    BY <2>2, <2>4 DEF DutSends, LinkEnds, TestStop, LinkRead, LinkReadEnds, LinkReadRaises,
                NoteError, Close, CloseLink, CloseReturns, vars, buffer, callers
  <2> QED BY <2>1, <2>3, <2>4 DEF Next, ReaderThread
<1> QED BY <1>1, <1>2, ConsoleIsTyped, PTL DEF SafetySpec

-----------------------------------------------------------------------------
(* What the reader thread knows of the end of the link: a link is closed only   *)
(* after close() asked to stop; a cause is a failure; a reader that has left    *)
(* its loop by itself has seen the end, and a failure is then its cause.        *)
EndKnown ==
    /\ closing # "no" \/ linkClosed => stop
    /\ cause # "none" => link = "failed"
    /\ thread \in {"ended", "ending", "dead"} /\ ~stop
          => link # "up" /\ (link = "failed" => cause # "none")
    /\ closed => thread = "dead" /\ (error => cause # "none") /\ (cause # "none" => error)

LEMMA EndKnownStep == TypeOK /\ EndKnown /\ [Next]_vars => EndKnown'
<1> SUFFICES ASSUME TypeOK, EndKnown, [Next]_vars PROVE EndKnown'
  OBVIOUS
<1> USE DEF EndKnown, input, reader, buffer, callers
<1>1. CASE DutSends \/ LinkEnds("eof") \/ LinkEnds("failed")
  BY <1>1 DEF DutSends, LinkEnds
<1>2. CASE TestStop \/ LinkRead \/ LinkReadEnds \/ LinkReadRaises \/ NoteError
  BY <1>2 DEF TestStop, LinkRead, LinkReadEnds, LinkReadRaises, NoteError
<1>3. CASE AppendChunk
  BY <1>3 DEF AppendChunk
<1>4. CASE AppendEnd
  <2>1. closed' /\ (error' => cause # "none") /\ (cause # "none" => error')
    BY <1>4, Zenon DEF AppendEnd
  <2> QED BY <1>4, <2>1 DEF AppendEnd
<1>5. ASSUME NEW c \in Callers, Call(c) \/ Resume(c) \/ TimeOut(c) PROVE EndKnown'
  <2>1. UNCHANGED <<closing, linkClosed, stop, cause, link, thread, closed, error>>
    BY <1>5, Zenon DEF Call, Resume, TimeOut
  <2> QED BY <2>1, Zenon
<1>6. CASE Close \/ CloseLink \/ CloseReturns
  BY <1>6 DEF Close, CloseLink, CloseReturns
<1>7. CASE UNCHANGED vars
  BY <1>7 DEF vars
<1> QED BY <1>1, <1>2, <1>3, <1>4, <1>5, <1>6, <1>7 DEF Next, ReaderThread

(* A clean end and close() are never taken for a failure of the link, and a     *)
(* failure before close() is never taken for a clean end, wherever the reader   *)
(* thread was when either came.                                                 *)
THEOREM FailuresAreTold == SafetySpec => []FailureIsTold
<1>1. Init => EndKnown
  BY DEF Init, EndKnown
<1>2. EndKnown => FailureIsTold
  BY DEF EndKnown, FailureIsTold
<1> QED BY <1>1, <1>2, EndKnownStep, ConsoleIsTyped, PTL DEF SafetySpec

-----------------------------------------------------------------------------
(* The flash bridge (flash.py). *)

(* The stages of a run in which the bridge has the link, and OpenOCD may run. *)
LinkStages == {"spawning", "accepting", "waiting", "killing", "reaped", "exited"}
RunStages == {"accepting", "waiting", "killing"}

(* Where the caller is tells what is open and what runs, and the verdict a     *)
(* pause before the next run was decided on.                                   *)
CallerKnows ==
    /\ open <=> main \in LinkStages
    /\ oc = "running" => main \in RunStages
    /\ main = "spawning" => oc = "none"
    /\ main = "exited" => exited
    /\ main = "pausing" => ~(Bridged /\ rc = "ok") /\ attemptNo # Attempts

(* What the two pumps know where they are: a request that is being written was *)
(* not written before; the bridge closes the link only after                   *)
(* openocd_exited is set, so a link found closed before that was not closed by *)
(* the bridge; a send that fails leaves an answer that OpenOCD never got.      *)
PumpKnows ==
    /\ p1 = "writing" => forwarded < asked
    /\ main \in {"spawning", "accepting"} => p2 = "off"
    /\ p2 # "off" /\ ~open => exited
    /\ p2 = "sending" => delivered < answered
    /\ p2 = "ending" => exited \/ swdLink = "dropped" \/ delivered < answered
    /\ p2 = "dropping" \/ podDropped => swdLink = "dropped" \/ delivered < answered
    /\ podDropped => p2 = "ended"

FlashInv == BridgeTypeOK /\ CallerKnows /\ PumpKnows

LEMMA BridgeStarts == BridgeInit => FlashInv
<1> SUFFICES ASSUME BridgeInit PROVE FlashInv
  OBVIOUS
<1>1. BridgeTypeOK
  <2>1. /\ attemptNo \in 1..Attempts
        /\ asked \in 0..MaxFrames /\ forwarded \in 0..asked
        /\ answered \in 0..forwarded /\ delivered \in 0..answered
    BY FlashAssumption DEF FlashAssumption, BridgeInit
  <2> QED BY <2>1, Zenon DEF BridgeInit, BridgeTypeOK
<1>2. CallerKnows /\ PumpKnows
  BY DEF BridgeInit, CallerKnows, Bridged, PumpKnows, LinkStages, RunStages
<1> QED BY <1>1, <1>2 DEF FlashInv

-----------------------------------------------------------------------------
(* The steps of the caller's thread. *)
LEMMA CallerHolds ==
    ASSUME FlashInv, Caller \/ Timeout
    PROVE  FlashInv'
<1>1. BridgeTypeOK /\ CallerKnows /\ PumpKnows
  BY DEF FlashInv
<1> USE DEF process, network, threads, frames, events
<1>2. CASE Arm
  <2>1. BridgeTypeOK'
    <3>1. /\ attemptNo' \in 1..Attempts
          /\ asked' \in 0..MaxFrames /\ forwarded' \in 0..asked'
          /\ answered' \in 0..forwarded' /\ delivered' \in 0..answered'
      BY <1>1, <1>2, FlashAssumption DEF FlashAssumption, Arm, BridgeTypeOK
    <3> QED BY <1>2, <3>1, Zenon DEF Arm, BridgeTypeOK
  <2>2. CallerKnows' /\ PumpKnows'
    BY <1>1, <1>2 DEF Arm, CallerKnows, Bridged, PumpKnows, LinkStages, RunStages
  <2> QED BY <2>1, <2>2 DEF FlashInv
<1>3. CASE ArmFails \/ Spawn \/ SpawnFails \/ Accept \/ AcceptGivesUp
  <2> USE DEF ArmFails, Spawn, SpawnFails, Accept, AcceptGivesUp
  <2>1. BridgeTypeOK'
    BY <1>1, <1>3 DEF BridgeTypeOK
  <2>2. CallerKnows'
    BY <1>1, <1>3 DEF CallerKnows, Bridged, LinkStages, RunStages
  <2>3. PumpKnows'
    BY <1>1, <1>3 DEF CallerKnows, Bridged, PumpKnows, LinkStages, BridgeTypeOK
  <2> QED BY <2>1, <2>2, <2>3 DEF FlashInv
<1>4. CASE Timeout \/ Reap \/ SetExited \/ CloseBoth
  <2> USE DEF Timeout, Reap, SetExited, CloseBoth
  <2>1. BridgeTypeOK'
    BY <1>1, <1>4 DEF BridgeTypeOK
  <2>2. CallerKnows'
    BY <1>1, <1>4 DEF CallerKnows, Bridged, LinkStages, RunStages
  <2>3. PumpKnows'
    BY <1>1, <1>4 DEF CallerKnows, Bridged, PumpKnows, LinkStages, BridgeTypeOK
  <2> QED BY <2>1, <2>2, <2>3 DEF FlashInv
<1>5. CASE Judge \/ NextAttempt
  <2>1. \/ main = "judging" /\ main' \in {"pausing", "returned"} /\ attemptNo' = attemptNo
        \/ main = "pausing" /\ main' = "arming" /\ attemptNo' = attemptNo + 1
    BY <1>5 DEF Judge, NextAttempt
  <2>2. UNCHANGED <<process, network, threads, frames, events>>
    BY <1>5 DEF Judge, NextAttempt
  <2>3. main' = "pausing" => ~(Bridged /\ rc = "ok") /\ attemptNo # Attempts
    BY <1>5 DEF Judge, NextAttempt, RunAgain
  <2>4. attemptNo' \in 1..Attempts
    BY <1>1, <2>1, FlashAssumption DEF FlashAssumption, BridgeTypeOK, CallerKnows
  <2>5. BridgeTypeOK'
    BY <1>1, <2>1, <2>2, <2>4 DEF BridgeTypeOK
  <2>6. CallerKnows' /\ PumpKnows'
    BY <1>1, <2>1, <2>2, <2>3 DEF CallerKnows, Bridged, PumpKnows, LinkStages, RunStages
  <2> QED BY <2>5, <2>6 DEF FlashInv
<1> QED BY <1>2, <1>3, <1>4, <1>5 DEF Caller

(* OpenOCD and the pod: the process runs only while the caller waits for it, so   *)
(* its exit status cannot change once the caller judges it.                       *)
LEMMA OthersHold ==
    ASSUME FlashInv, OpenOCD \/ Pod
    PROVE  FlashInv'
<1>1. BridgeTypeOK /\ CallerKnows /\ PumpKnows
  BY DEF FlashInv
<1> USE DEF process, network, threads, frames, events
<1>2. CASE OpenOCD
  <2> USE DEF OpenOCD, OcConnects, OcAsks, DrainSees, OcExits, OcDies
  <2>1. BridgeTypeOK'
    <3>1. CASE OcConnects
      BY <1>1, <3>1 DEF BridgeTypeOK
    <3>2. CASE OcAsks
      BY <1>1, <3>2, FlashAssumption DEF FlashAssumption, BridgeTypeOK
    <3>3. CASE DrainSees
      <4>1. unreachable' \in BOOLEAN
        BY <3>3, Zenon
      <4> QED BY <1>1, <3>3, <4>1 DEF BridgeTypeOK
    <3>4. CASE OcExits
      BY <1>1, <3>4 DEF BridgeTypeOK
    <3>5. CASE OcDies
      BY <1>1, <3>5 DEF BridgeTypeOK
    <3> QED BY <1>2, <3>1, <3>2, <3>3, <3>4, <3>5
  <2>2. CallerKnows'
    BY <1>1, <1>2 DEF CallerKnows, Bridged, LinkStages, RunStages
  <2>3. PumpKnows'
    BY <1>1, <1>2 DEF PumpKnows, BridgeTypeOK
  <2> QED BY <2>1, <2>2, <2>3 DEF FlashInv
<1>3. CASE Pod
  <2>1. BridgeTypeOK'
    BY <1>1, <1>3 DEF Pod, PodAnswers, LinkDrops, BridgeTypeOK
  <2>2. CallerKnows'
    BY <1>1, <1>3 DEF Pod, PodAnswers, LinkDrops, CallerKnows, Bridged, LinkStages, RunStages
  <2>3. PumpKnows'
    BY <1>1, <1>3 DEF Pod, PodAnswers, LinkDrops, PumpKnows, BridgeTypeOK
  <2> QED BY <2>1, <2>2, <2>3 DEF FlashInv
<1> QED BY <1>2, <1>3

(* The bridge's threads: none of them opens or closes anything, and pod_to_oc     *)
(* calls a run dropped only after it looked at openocd_exited.                    *)
LEMMA ThreadsHold ==
    ASSUME FlashInv, OcToPod \/ PodToOc \/ StallMonitor
    PROVE  FlashInv'
<1>1. BridgeTypeOK /\ CallerKnows /\ PumpKnows
  BY DEF FlashInv
<1> USE DEF process, network, threads, frames, events
<1>2. UNCHANGED <<attemptNo, main, oc, conn, rc, open, swdLink, exited, asked, answered, unreachable>>
  BY DEF OcToPod, P1Reads, P1Ends, P1Writes, P1WriteFails, PodToOc, P2Reads, P2LinkEnds, P2Sends,
         P2SendFails, P2Looks, P2Drops, StallMonitor, PmLooks, PmSeesFrames, PmKills
<1>3. CallerKnows'
  <2>1. pm # "off" <=> pm' # "off"
    BY DEF OcToPod, P1Reads, P1Ends, P1Writes, P1WriteFails, PodToOc, P2Reads, P2LinkEnds, P2Sends,
           P2SendFails, P2Looks, P2Drops, StallMonitor, PmLooks, PmSeesFrames, PmKills
  <2> QED BY <1>1, <1>2, <2>1 DEF CallerKnows, Bridged
<1>4. CASE OcToPod
  <2>1. UNCHANGED <<p2, pm, signal, podDropped, stalled, delivered>>
    BY <1>4 DEF OcToPod, P1Reads, P1Ends, P1Writes, P1WriteFails
  <2>2. p1' \in {"off", "reading", "writing", "ended"}
    BY <1>1, <1>4 DEF OcToPod, P1Reads, P1Ends, P1Writes, P1WriteFails, BridgeTypeOK
  <2>3. \/ forwarded' = forwarded /\ (p1' = "writing" => forwarded < asked)
        \/ p1 = "writing" /\ p1' = "reading" /\ forwarded' = forwarded + 1
    BY <1>4 DEF OcToPod, P1Reads, P1Ends, P1Writes, P1WriteFails
  <2>4. PumpKnows'
    BY <1>1, <1>2, <2>1, <2>3 DEF PumpKnows
  <2>5. BridgeTypeOK'
    <3>1. forwarded' \in 0..asked' /\ answered' \in 0..forwarded'
      BY <1>1, <1>2, <2>3 DEF PumpKnows, BridgeTypeOK
    <3> QED BY <1>1, <1>2, <2>1, <2>2, <3>1 DEF BridgeTypeOK
  <2> QED BY <1>3, <2>4, <2>5 DEF FlashInv
<1>5. CASE PodToOc
  <2> USE DEF PodToOc, P2Reads, P2LinkEnds, P2Sends, P2SendFails, P2Looks, P2Drops
  <2>1. PumpKnows'
    BY <1>1, <1>5 DEF PumpKnows, BridgeTypeOK
  <2>2. BridgeTypeOK'
    <3>1. delivered' \in 0..answered'
      BY <1>1, <1>2, <1>5 DEF PumpKnows, BridgeTypeOK
    <3>2. /\ UNCHANGED <<p1, pm, forwarded, stalled>>
          /\ p2' \in {"off", "reading", "sending", "ending", "dropping", "ended"}
          /\ signal' \in {"none", "term", "kill"}
      BY <1>1, <1>5 DEF BridgeTypeOK
    <3>3. podDropped' \in BOOLEAN
      BY <1>1, <1>5 DEF BridgeTypeOK
    <3> QED BY <1>1, <1>2, <3>1, <3>2, <3>3 DEF BridgeTypeOK
  <2> QED BY <1>3, <2>1, <2>2 DEF FlashInv
<1>6. CASE StallMonitor
  <2> USE DEF StallMonitor, PmLooks, PmSeesFrames, PmKills
  <2>1. PumpKnows'
    BY <1>1, <1>6 DEF PumpKnows
  <2>2. BridgeTypeOK'
    BY <1>1, <1>6 DEF BridgeTypeOK
  <2> QED BY <1>3, <2>1, <2>2 DEF FlashInv
<1> QED BY <1>4, <1>5, <1>6

LEMMA BridgeSteps == FlashInv /\ [BridgeNext]_bridgeVars => FlashInv'
<1> SUFFICES ASSUME FlashInv, [BridgeNext]_bridgeVars PROVE FlashInv'
  OBVIOUS
<1>1. CASE UNCHANGED bridgeVars
  BY <1>1 DEF bridgeVars, process, network, threads, frames, events, FlashInv, BridgeTypeOK, CallerKnows, Bridged, PumpKnows
<1> QED BY <1>1, CallerHolds, OthersHold, ThreadsHold DEF BridgeNext

-----------------------------------------------------------------------------
(* Every value has its type; each side has handed on what the other gave it.      *)
THEOREM BridgeIsTyped == BridgeSpec => []BridgeTypeOK
<1>1. FlashInv => BridgeTypeOK
  BY DEF FlashInv
<1> QED BY <1>1, BridgeStarts, BridgeSteps, PTL DEF BridgeSpec

(* Whatever fails and however often flash() tries again: between two runs and      *)
(* after the last the link is closed and no OpenOCD runs.                         *)
THEOREM LeavesNothingRunning == BridgeSpec => []NothingLeftRunning
<1>1. FlashInv => NothingLeftRunning
  BY DEF FlashInv, CallerKnows, NothingLeftRunning, LinkStages, RunStages
<1> QED BY <1>1, BridgeStarts, BridgeSteps, PTL DEF BridgeSpec

(* The bridge's own closing of the link is never reported as a drop, wherever the *)
(* two pumps and the caller are when OpenOCD exits.                               *)
THEOREM OnlyDropsAreDrops == BridgeSpec => []CleanEndIsNotADrop
<1>1. FlashInv => CleanEndIsNotADrop
  BY DEF FlashInv, PumpKnows, CleanEndIsNotADrop
<1> QED BY <1>1, BridgeStarts, BridgeSteps, PTL DEF BridgeSpec

(* A run that was accepted and ended with 0 is the last, however many attempts    *)
(* are left and whatever the pumps, the stall monitor and the scan of stderr were *)
(* doing when it ended.                                                           *)
THEOREM VerdictStands == BridgeSpec => NeverReflashed
<1>1. FlashInv /\ [BridgeNext]_bridgeVars => (Bridged /\ rc = "ok" => attemptNo' = attemptNo)
  <2> SUFFICES ASSUME FlashInv, [BridgeNext]_bridgeVars, Bridged, rc = "ok" PROVE attemptNo' = attemptNo
    OBVIOUS
  <2>1. CASE NextAttempt
    BY <2>1 DEF NextAttempt, FlashInv, CallerKnows
  <2>2. CASE Caller /\ ~NextAttempt
    BY <2>2 DEF Caller, Arm, ArmFails, Spawn, SpawnFails, Accept, AcceptGivesUp, Reap, SetExited,
                CloseBoth, Judge
  <2>3. CASE OcToPod \/ PodToOc \/ StallMonitor
    BY <2>3 DEF OcToPod, P1Reads, P1Ends, P1Writes, P1WriteFails, PodToOc, P2Reads, P2LinkEnds, P2Sends,
                P2SendFails, P2Looks, P2Drops, StallMonitor, PmLooks, PmSeesFrames, PmKills
  <2>4. CASE OpenOCD \/ Pod \/ Timeout \/ UNCHANGED bridgeVars
    BY <2>4 DEF OpenOCD, OcConnects, OcAsks, DrainSees, OcExits, OcDies, Pod, PodAnswers, LinkDrops,
                Timeout, bridgeVars
  <2> QED BY <2>1, <2>2, <2>3, <2>4 DEF BridgeNext
<1> QED BY <1>1, BridgeStarts, BridgeSteps, PTL DEF BridgeSpec, NeverReflashed

-----------------------------------------------------------------------------
(* The cloud command channel (transport/cloud.py). *)

USE CloudAssumption

LEMMA CloudStarts == CloudInit => CloudTypeOK
<1> SUFFICES ASSUME CloudInit PROVE CloudTypeOK
  OBVIOUS
<1>1. /\ token \in 0..minted /\ minted \in 0..MaxTokens /\ valid \subseteq 1..minted
      /\ renewable \in BOOLEAN
  BY DEF CloudInit
<1>2. /\ renewed \in [Calls -> BOOLEAN] /\ lock \in Calls \cup {None}
      /\ kind \in [Calls -> Kinds]
  BY Zenon DEF CloudInit
<1>3. /\ pc \in [Calls -> {"token", "minting", "waiting"} \cup Outcomes]
      /\ net \in [Calls -> {"none"} \cup Travelling \cup Answers]
  BY DEF CloudInit
<1>4. /\ attempt \in [Calls -> 0..Delays] /\ carried \in [Calls -> 0..minted]
      /\ late \in [Calls -> Nat] /\ runs \in [Calls -> Nat] /\ rejected \in [Calls -> 0..minted]
  BY <1>1 DEF CloudInit
<1> QED BY <1>1, <1>2, <1>3, <1>4 DEF CloudTypeOK

(* The client's own steps keep the state typed. *)
LEMMA ClientTyped ==
    ASSUME CloudTypeOK, NEW c \in Calls, Client(c)
    PROVE  CloudTypeOK'
<1> USE DEF CloudTypeOK, tokens, request, retry, fixed, Goto, AtServer, Kinds, Travelling,
            Answers, Outcomes
<1>1. CASE Send(c)      BY <1>1 DEF Send
<1>2. CASE Mint(c)      BY <1>2 DEF Mint
<1>3. CASE Minted(c)    BY <1>3 DEF Minted
<1>4. CASE MintFails(c) BY <1>4 DEF MintFails
<1>5. CASE Renew(c)     BY <1>5 DEF Renew
<1>6. CASE Retry(c)     BY <1>6 DEF Retry, Retried
<1>7. CASE ReturnAnswer(c)    BY <1>7 DEF ReturnAnswer
<1>8. CASE Lose(c)      BY <1>8 DEF Lose, GiveUp
<1> QED BY <1>1, <1>2, <1>3, <1>4, <1>5, <1>6, <1>7, <1>8 DEF Client

(* So do those of the server, the edge and the pod. *)
LEMMA NetworkTyped ==
    ASSUME CloudTypeOK, NEW c \in Calls, Network(c)
    PROVE  CloudTypeOK'
<1> USE DEF CloudTypeOK, tokens, request, retry, fixed, AtServer, Kinds, Travelling,
            Answers, Outcomes
<1>1. CASE ServerReceives(c) BY <1>1 DEF ServerReceives
<1>2. CASE PodRuns(c)        BY <1>2 DEF PodRuns
<1>3. CASE Reply(c)          BY <1>3 DEF Reply
<1>4. CASE EdgeFails(c)      BY <1>4 DEF EdgeFails, GiveUp
<1>5. CASE LateRun(c)        BY <1>5 DEF LateRun
<1> QED BY <1>1, <1>2, <1>3, <1>4, <1>5 DEF Network

(* Every value has its type; no call outlives its _RETRY_DELAYS, and none      *)
(* carries a token that was never minted.                                      *)
THEOREM CloudIsTyped == CloudSafetySpec => []CloudTypeOK
<1>1. CloudTypeOK /\ [CloudNext]_cloudVars => CloudTypeOK'
  <2> SUFFICES ASSUME CloudTypeOK, [CloudNext]_cloudVars PROVE CloudTypeOK'
    OBVIOUS
  <2>1. ASSUME NEW t \in 1..MaxTokens, Expire(t) PROVE CloudTypeOK'
    BY <2>1 DEF Expire, CloudTypeOK, request, retry, fixed
  <2>2. CASE UNCHANGED cloudVars
    BY <2>2 DEF cloudVars, CloudTypeOK
  <2> QED BY <2>1, <2>2, ClientTyped, NetworkTyped DEF CloudNext
<1> QED BY <1>1, CloudStarts, PTL DEF CloudSafetySpec

-----------------------------------------------------------------------------
(* OnceInv for one call; a step of another call does not touch it. *)
Once(c) ==
    /\ ~Repeatable(c) => runs[c] + late[c] + Pending(c) <= 1
    /\ ~Repeatable(c) /\ pc[c] \in {"token", "minting"} => runs[c] + late[c] = 0
    /\ ~Repeatable(c) /\ net[c] \in {"sent", "forwarded", "unauthorized", "notForwarded"}
          => runs[c] + late[c] = 0
    /\ net[c] # "none" => pc[c] \notin {"token", "minting"}

LEMMA OnceOthers ==
    ASSUME CloudTypeOK, NEW c \in Calls, NEW d \in Calls, d # c, Client(c) \/ Network(c), Once(d)
    PROVE  Once(d)'
<1>1. /\ pc'[d] = pc[d] /\ net'[d] = net[d] /\ kind'[d] = kind[d]
      /\ late'[d] = late[d] /\ runs'[d] = runs[d]
  BY DEF CloudTypeOK, Client, Network, Send, Mint, Minted, MintFails, Renew, Retry, ReturnAnswer, Lose,
         ServerReceives, PodRuns, Reply, EdgeFails, LateRun, GiveUp, Goto, AtServer,
         tokens, request, retry, fixed
<1> QED BY <1>1 DEF Once, Pending, Repeatable

(* A call's own step: a request follows only an answer given before the pod    *)
(* saw the last one, and what is given up on is still counted.                 *)
LEMMA OnceClient ==
    ASSUME CloudTypeOK, NEW c \in Calls, Client(c), Once(c)
    PROVE  Once(c)'
<1> USE DEF CloudTypeOK, tokens, request, retry, fixed, Goto, AtServer, Once, Pending, Repeatable
<1>1. CASE Send(c)      BY <1>1 DEF Send
<1>2. CASE Mint(c)      BY <1>2 DEF Mint
<1>3. CASE Minted(c)    BY <1>3 DEF Minted
<1>4. CASE MintFails(c) BY <1>4 DEF MintFails
<1>5. CASE Renew(c)     BY <1>5 DEF Renew
<1>6. CASE Retry(c)     BY <1>6 DEF Retry, Retried
<1>7. CASE ReturnAnswer(c)    BY <1>7 DEF ReturnAnswer
<1>8. CASE Lose(c)      BY <1>8 DEF Lose, GiveUp, Travelling
<1> QED BY <1>1, <1>2, <1>3, <1>4, <1>5, <1>6, <1>7, <1>8 DEF Client

(* The network moves the one request there is, or loses it. *)
LEMMA OnceNetwork ==
    ASSUME CloudTypeOK, NEW c \in Calls, Network(c), Once(c)
    PROVE  Once(c)'
<1> USE DEF CloudTypeOK, tokens, request, retry, fixed, AtServer, Once, Pending, Repeatable
<1>1. CASE ServerReceives(c) BY <1>1 DEF ServerReceives
<1>2. CASE PodRuns(c)        BY <1>2 DEF PodRuns
<1>3. CASE Reply(c)          BY <1>3 DEF Reply
<1>4. CASE EdgeFails(c)      BY <1>4 DEF EdgeFails, GiveUp, Travelling
<1>5. CASE LateRun(c)        BY <1>5 DEF LateRun
<1> QED BY <1>1, <1>2, <1>3, <1>4, <1>5 DEF Network

(* The runs a call has had, the one the pod may still make after the client   *)
(* gave up, and the request under way are together at most one; and only an    *)
(* answer that shows the pod has run nothing is followed by another request    *)
(* (cloud.py, _ws_request and command).                                        *)
THEOREM RunIsPendingOrDone == CloudSafetySpec => []OnceInv
<1>1. CloudInit => OnceInv
  BY DEF CloudInit, OnceInv, Pending
<1>2. CloudTypeOK /\ OnceInv /\ [CloudNext]_cloudVars => OnceInv'
  <2> SUFFICES ASSUME CloudTypeOK, OnceInv, [CloudNext]_cloudVars, NEW d \in Calls PROVE Once(d)'
    BY DEF OnceInv, Once
  <2>1. Once(d)
    BY DEF OnceInv, Once
  <2>2. ASSUME NEW c \in Calls, Client(c) \/ Network(c) PROVE Once(d)'
    BY <2>1, <2>2, OnceOthers, OnceClient, OnceNetwork
  <2>3. ASSUME NEW t \in 1..MaxTokens, Expire(t) PROVE Once(d)'
    BY <2>1, <2>3 DEF Expire, Once, Pending, Repeatable, request, fixed
  <2>4. CASE UNCHANGED cloudVars
    BY <2>1, <2>4 DEF cloudVars, Once, Pending, Repeatable
  <2> QED BY <2>2, <2>3, <2>4 DEF CloudNext
<1> QED BY <1>1, <1>2, CloudIsTyped, PTL DEF CloudSafetySpec

(* A command that is not a plain read, and a tunnel, reaches the pod at most    *)
(* once per call: whatever the server, the edge and the token do.              *)
THEOREM RunsAtMostOnce == CloudSafetySpec => []AtMostOnce
<1>1. CloudTypeOK /\ OnceInv => AtMostOnce
  BY DEF CloudTypeOK, OnceInv, AtMostOnce, Pending
<1> QED BY <1>1, RunIsPendingOrDone, CloudIsTyped, PTL

-----------------------------------------------------------------------------
(* Why a second token is new: a call that has had a 401 finds a newer token, or *)
(* none, in the shared place, and carries a newer one.                          *)
Newer(c) ==
    renewed[c] =>
        /\ rejected[c] <= minted
        /\ token = 0 \/ token > rejected[c]
        /\ pc[c] \in {"waiting", "unauthorized"} => carried[c] > rejected[c]

NewerInv == \A c \in Calls : Newer(c)

LEMMA NewerStep == CloudTypeOK /\ NewerInv /\ [CloudNext]_cloudVars => NewerInv'
<1> SUFFICES ASSUME CloudTypeOK, NewerInv, [CloudNext]_cloudVars, NEW d \in Calls PROVE Newer(d)'
  BY DEF NewerInv
<1>1. Newer(d)
  BY DEF NewerInv
<1> USE DEF CloudTypeOK, tokens, request, retry, fixed, Goto, AtServer, Newer
<1>2. ASSUME NEW c \in Calls, Client(c) PROVE Newer(d)'
  <2>1. CASE Send(c)      BY <1>1, <2>1 DEF Send
  <2>2. CASE Mint(c)      BY <1>1, <2>2 DEF Mint
  <2>3. CASE Minted(c)    BY <1>1, <2>3 DEF Minted
  <2>4. CASE MintFails(c) BY <1>1, <2>4 DEF MintFails
  <2>5. CASE Renew(c)     BY <1>1, <2>5 DEF Renew
  <2>6. CASE Retry(c)     BY <1>1, <2>6 DEF Retry
  <2>7. CASE ReturnAnswer(c)    BY <1>1, <2>7 DEF ReturnAnswer
  <2>8. CASE Lose(c)      BY <1>1, <2>8 DEF Lose
  <2> QED BY <1>2, <2>1, <2>2, <2>3, <2>4, <2>5, <2>6, <2>7, <2>8 DEF Client
<1>3. ASSUME NEW c \in Calls, Network(c) PROVE Newer(d)'
  BY <1>1, <1>3 DEF Network, ServerReceives, PodRuns, Reply, EdgeFails, LateRun
<1>4. ASSUME NEW t \in 1..MaxTokens, Expire(t) PROVE Newer(d)'
  BY <1>1, <1>4 DEF Expire
<1>5. CASE UNCHANGED cloudVars
  BY <1>1, <1>5 DEF cloudVars
<1> QED BY <1>2, <1>3, <1>4, <1>5 DEF CloudNext

(* No call sends a token again that was rejected: a call fails over its         *)
(* authorization only on a token minted after its first 401, for any number of  *)
(* calls on the shared token (cloud.py, _invalidate_token).                     *)
THEOREM RejectedTokenIsDropped == CloudSafetySpec => []SecondTokenIsNew
<1>1. CloudInit => NewerInv
  BY DEF CloudInit, NewerInv, Newer
<1>2. NewerInv => SecondTokenIsNew
  BY DEF NewerInv, Newer, SecondTokenIsNew
<1> QED BY <1>1, <1>2, NewerStep, CloudIsTyped, PTL DEF CloudSafetySpec
=============================================================================
