---------------------------- MODULE UartSession ----------------------------
(***************************************************************************)
(* The event-based UART console of embeddedci/benchpod/uart.py.            *)
(*                                                                         *)
(* A reader thread drains the proxy link into a bounded text buffer; any   *)
(* thread may wait in read, read_until or expect on the condition          *)
(* variable; another may close the session.  Every block of the code under *)
(* the lock is one action, and so is every link operation and every look   *)
(* at _stop, which the reader thread reads without the lock.               *)
(*                                                                         *)
(* Bytes and characters are known by their position in the stream, so the  *)
(* buffer, which is always the newest part of it, is two counters, and     *)
(* the read cursor a third.                                                *)
(***************************************************************************)
EXTENDS Integers, FiniteSets

CONSTANTS
    Callers,        \* threads that read
    MaxBytes,       \* bound: bytes the DUT sends
    CharEnds,       \* the bytes that complete a character
    Chunk,          \* bytes a link.read returns at most
    MaxBuffer,      \* max_buffer, in characters
    PatLen,         \* length of the pattern the callers wait for
    Marks           \* the characters at which an occurrence of it ends

ASSUME StreamAssumption ==
    /\ MaxBytes \in Nat /\ CharEnds \subseteq 1..MaxBytes
    /\ Chunk \in Nat \ {0} /\ MaxBuffer \in Nat \ {0}
    /\ PatLen \in Nat \ {0} /\ Marks \subseteq Nat

VARIABLES
    sent,       \* bytes the pod put on the link
    taken,      \* bytes link.read returned
    link,       \* the link as the network has it: up, eof (clean end), failed
    linkClosed, \* RawLink.close() was called
    stop,       \* UartSession._stop
    thread,     \* the reader thread: at the loop test, in link.read, ..., dead
    hand,       \* bytes the reader thread read and has not appended
    cause,      \* the failure it saw: none, link.error, or an exception of read
    received,   \* characters appended to the buffer so far
    dropped,    \* characters dropped from its front
    consumed,   \* UartSession._consumed
    closed,     \* UartSession._closed
    error,      \* UartSession._error is set
    call,       \* what each caller waits for
    woken,      \* is it past its wait(), by a notify or by its timeout?
    closing     \* close(): not called, called, joining, returned

input == <<sent, taken, link, linkClosed>>
buffer == <<received, dropped, consumed>>
reader == <<thread, hand, cause>>
callers == <<call, woken>>
vars == <<sent, taken, link, linkClosed, stop, thread, hand, cause, received, dropped,
          consumed, closed, error, call, woken, closing>>

Waits == {"read", "until"}

TypeOK ==
    /\ sent \in Nat /\ taken \in 0..sent
    /\ link \in {"up", "eof", "failed"} /\ linkClosed \in BOOLEAN
    /\ stop \in BOOLEAN
    /\ thread \in {"test", "reading", "got", "ended", "ending", "dead"}
    /\ hand \in 0..taken /\ cause \in {"none", "link", "raised"}
    /\ received \in Nat /\ dropped \in 0..received /\ consumed \in 0..(received - dropped)
    /\ received - dropped <= MaxBuffer
    /\ closed \in BOOLEAN /\ error \in BOOLEAN
    /\ call \in [Callers -> Waits \cup {"idle"}] /\ woken \in [Callers -> BOOLEAN]
    /\ closing \in {"no", "called", "joining", "returned"}

Init ==
    /\ sent = 0 /\ taken = 0 /\ link = "up" /\ linkClosed = FALSE
    /\ stop = FALSE /\ closing = "no"
    /\ thread = "test" /\ hand = 0 /\ cause = "none"
    /\ received = 0 /\ dropped = 0 /\ consumed = 0
    /\ closed = FALSE /\ error = FALSE
    /\ call = [c \in Callers |-> "idle"] /\ woken = [c \in Callers |-> FALSE]

-----------------------------------------------------------------------------
(* The link (external): bytes arrive, and it ends by itself. *)

DutSends ==
    /\ link = "up" /\ sent < MaxBytes
    /\ sent' = sent + 1
    /\ UNCHANGED <<taken, link, linkClosed, stop, reader, buffer, closed, error, callers, closing>>

LinkEnds(how) ==
    /\ link = "up" /\ link' = how
    /\ UNCHANGED <<sent, taken, linkClosed, stop, reader, buffer, closed, error, callers, closing>>

-----------------------------------------------------------------------------
(* The reader thread *)

TestStop ==
    /\ thread = "test"
    /\ thread' = IF stop THEN "dead" ELSE "reading"
    /\ UNCHANGED <<input, stop, hand, cause, buffer, closed, error, callers, closing>>

LinkRead ==
    /\ thread = "reading" /\ taken < sent
    /\ \E n \in 1..Chunk :
          /\ taken + n <= sent
          /\ taken' = taken + n /\ hand' = n
    /\ thread' = "got"
    /\ UNCHANGED <<sent, link, linkClosed, stop, cause, buffer, closed, error, callers, closing>>

(* link.read returned b"": the link failed (whatever it still held is lost),  *)
(* ended after all its bytes, or is closed.  The link keeps the failure in    *)
(* .error unless it was closed first.                                         *)
LinkReadEnds ==
    /\ thread = "reading"
    /\ \/ link = "failed" \/ linkClosed \/ (link = "eof" /\ taken = sent)
    /\ thread' = "ended"
    /\ cause' = IF link = "failed" /\ ~linkClosed THEN "link" ELSE "none"
    /\ UNCHANGED <<input, stop, hand, buffer, closed, error, callers, closing>>

(* link.read raised what RawLink does not translate. *)
LinkReadRaises ==
    /\ thread = "reading" /\ link = "failed"
    /\ thread' = "ended" /\ cause' = "raised"
    /\ UNCHANGED <<input, stop, hand, buffer, closed, error, callers, closing>>

(* a plausible bug: the condition the wrong way round *)
NoteErrorOfClose ==
    /\ thread = "ended" /\ thread' = "ending"
    /\ cause' = IF cause = "link" /\ ~stop THEN "none" ELSE cause
    /\ UNCHANGED <<input, stop, hand, buffer, closed, error, callers, closing>>

(* the link's error counts only if nobody has asked the session to stop *)
NoteError ==
    /\ thread = "ended" /\ thread' = "ending"
    /\ cause' = IF cause = "link" /\ stop THEN "none" ELSE cause
    /\ UNCHANGED <<input, stop, hand, buffer, closed, error, callers, closing>>

(* the characters of the incremental decoder: bytes from+1..to complete these *)
CharsIn(from, to) == Cardinality(CharEnds \cap (from + 1)..to)
(* decode(b"", final=True): a character cut short becomes U+FFFD *)
CutShort == IF taken > 0 /\ taken \notin CharEnds THEN 1 ELSE 0

(* a plausible bug: the cursor does not move with the trimmed buffer *)
AppendCursorLeft(n) ==
    LET size == received + n - dropped
        drop == IF size > MaxBuffer THEN size - MaxBuffer ELSE 0
    IN  received' = received + n /\ dropped' = dropped + drop /\ consumed' = consumed

Append(n) ==
    LET size == received + n - dropped
        drop == IF size > MaxBuffer THEN size - MaxBuffer ELSE 0
    IN  /\ received' = received + n
        /\ dropped' = dropped + drop
        /\ consumed' = IF consumed > drop THEN consumed - drop ELSE 0

(* a plausible bug: notify() for notify_all() *)
NotifyOne ==
    /\ \/ \E c \in Callers : call[c] # "idle" /\ ~woken[c] /\ woken' = [woken EXCEPT ![c] = TRUE]
       \/ UNCHANGED woken /\ \A c \in Callers : call[c] = "idle" \/ woken[c]
    /\ UNCHANGED call

NotifyAll == woken' = [c \in Callers |-> call[c] # "idle"] /\ UNCHANGED call

AppendChunk ==
    /\ thread = "got"
    /\ Append(CharsIn(taken - hand, taken))
    /\ NotifyAll
    /\ hand' = 0 /\ thread' = "test"
    /\ UNCHANGED <<input, stop, cause, closed, error, closing>>

(* a plausible bug: the end is appended and not marked *)
AppendEndUnmarked ==
    /\ thread = "ending"
    /\ Append(CutShort)
    /\ error' = (cause # "none")
    /\ NotifyAll
    /\ thread' = "dead"
    /\ UNCHANGED <<input, stop, hand, cause, closed, closing>>

AppendEnd ==
    /\ thread = "ending"
    /\ Append(CutShort)
    /\ closed' = TRUE /\ error' = (cause # "none")
    /\ NotifyAll
    /\ thread' = "dead"
    /\ UNCHANGED <<input, stop, hand, cause, closing>>

-----------------------------------------------------------------------------
(* read, read_until and expect *)

Cursor == dropped + consumed
(* the occurrences of the pattern that lie in the unread text *)
Found == { m \in Marks : Cursor + PatLen <= m /\ m <= received }
First(m) == m \in Found /\ \A n \in Found : m <= n
Deliver(upto) == consumed' = upto - dropped /\ UNCHANGED <<received, dropped>>

Return(c) == call' = [call EXCEPT ![c] = "idle"] /\ woken' = [woken EXCEPT ![c] = FALSE]
Wait(c, what) == call' = [call EXCEPT ![c] = what] /\ woken' = [woken EXCEPT ![c] = FALSE]

(* One turn of the wait loop, with the lock held; late: the deadline passed.  *)
(* A call returns the text it found, or, with the cursor where it was, fails. *)
TurnUntil(c, late) ==
    \/ /\ Found # {}
       /\ \E m \in Found : First(m) /\ Deliver(m)
       /\ Return(c)
    \/ Found = {} /\ (closed \/ late) /\ Return(c) /\ UNCHANGED buffer
    \/ Found = {} /\ ~closed /\ ~late /\ Wait(c, "until") /\ UNCHANGED buffer

TurnRead(c, late) ==
    \/ (Cursor < received \/ closed \/ late) /\ Deliver(received) /\ Return(c)
    \/ Cursor = received /\ ~closed /\ ~late /\ Wait(c, "read") /\ UNCHANGED buffer

Call(c) ==
    /\ call[c] = "idle"
    /\ \E late \in BOOLEAN : TurnUntil(c, late) \/ TurnRead(c, late)
    /\ UNCHANGED <<input, stop, reader, closed, error, closing>>

Resume(c) ==
    /\ call[c] # "idle" /\ woken[c]
    /\ \E late \in BOOLEAN :
          \/ call[c] = "until" /\ TurnUntil(c, late)
          \/ call[c] = "read" /\ TurnRead(c, late)
    /\ UNCHANGED <<input, stop, reader, closed, error, closing>>

(* wait(remaining) timed out: the caller looks once more, then gives up *)
TimeOut(c) ==
    /\ call[c] # "idle" /\ ~woken[c]
    /\ \/ call[c] = "until" /\ TurnUntil(c, TRUE)
       \/ call[c] = "read" /\ TurnRead(c, TRUE)
    /\ UNCHANGED <<input, stop, reader, closed, error, closing>>

-----------------------------------------------------------------------------
(* close() *)

Close ==
    /\ closing = "no"
    /\ stop' = TRUE /\ closing' = "called"
    /\ UNCHANGED <<input, reader, buffer, closed, error, callers>>

(* a plausible bug: the link is left open *)
CloseNotLink ==
    /\ closing = "called" /\ closing' = "joining"
    /\ UNCHANGED <<sent, taken, link, linkClosed, stop, reader, buffer, closed, error, callers>>

CloseLink ==
    /\ closing = "called"
    /\ linkClosed' = TRUE /\ closing' = "joining"
    /\ UNCHANGED <<sent, taken, link, stop, reader, buffer, closed, error, callers>>

(* join(timeout=2) returns when the thread is dead, or does not wait longer *)
CloseReturns ==
    /\ closing = "joining" /\ closing' = "returned"
    /\ UNCHANGED <<input, stop, reader, buffer, closed, error, callers>>

-----------------------------------------------------------------------------
ReaderThread ==
    \/ TestStop \/ LinkRead \/ LinkReadEnds \/ LinkReadRaises \/ NoteError
    \/ AppendChunk \/ AppendEnd

Next ==
    \/ DutSends \/ LinkEnds("eof") \/ LinkEnds("failed")
    \/ ReaderThread
    \/ \E c \in Callers : Call(c) \/ Resume(c) \/ TimeOut(c)
    \/ Close \/ CloseLink \/ CloseReturns

(* The reader thread runs, a notified caller gets the lock, and a close() that *)
(* has begun goes on.  Nothing is assumed of timeouts, nor of the DUT.         *)
SafetySpec == Init /\ [][Next]_vars
Spec == /\ SafetySpec
        /\ WF_vars(ReaderThread)
        /\ \A c \in Callers : WF_vars(Resume(c))
        /\ WF_vars(CloseLink)
-----------------------------------------------------------------------------
(* The buffer is a LossyStream of max_buffer characters: whatever the chunks,  *)
(* the callers and the overflows, no character is returned twice, out of order *)
(* or skipped, and unread text is lost only when more than max_buffer of it    *)
(* waits (read text is dropped first).                                         *)
Stream == INSTANCE LossyStream WITH MaxUnread <- MaxBuffer, arrived <- received, next <- Cursor
InOrderOnce == Stream!Spec

(* A caller sleeps only while there is nothing for it: text that satisfies it, *)
(* or the end of the link, has always notified it, though another caller may   *)
(* have taken the text meanwhile.                                              *)
NoLostWakeup ==
    \A c \in Callers : call[c] # "idle" /\ ~woken[c] =>
        /\ ~closed
        /\ call[c] = "until" => Found = {}
        /\ call[c] = "read" => Cursor = received

(* The end of the link is told from its failure: an error is recorded only for *)
(* a link that failed, and always for one that failed before close() was asked *)
(* for: neither a clean end nor close() itself is ever taken for a failure.    *)
FailureIsTold ==
    closed => /\ error => link = "failed"
              /\ link = "failed" /\ ~stop => error

(* However long its timeout, a caller hears that the link has ended by itself. *)
EndIsHeard ==
    \A c \in Callers :
        call[c] # "idle" /\ link # "up" ~> call[c] = "idle" \/ stop

(* close() ends the reader thread, whether it was in link.read or not. *)
CloseStopsReader == closing = "joining" ~> thread = "dead"

(* "True once the proxy link has ended (EOF or :meth:`close`)." *)
ClosedOnceEnded == closing = "returned" /\ thread = "dead" => closed
=============================================================================
