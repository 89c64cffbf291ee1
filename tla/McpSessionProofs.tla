-------------------------- MODULE McpSessionProofs --------------------------
(* What the MCP server's session guarantees for any number of tool threads,  *)
(* timer threads and UART links and any idle timeout: its types, a tool that *)
(* holds the lock keeps its pod, a lease nobody uses is watched by a timer,  *)
(* the session reopens what the user left connected, and no UART link is     *)
(* left behind.                                                              *)
EXTENDS McpSession, TLAPS

(* An armed timer has a delay to wait for; what the clocks' types rest on.   *)
ArmedWaits == \A t \in Timers : timer[t] = "armed" => delay[t] > 0

(* The flags of the session, and everything else it holds. *)
FlagsOK == reconnect \in BOOLEAN /\ idleClosed \in BOOLEAN /\ can \in BOOLEAN /\ wanted \in BOOLEAN
DataOK ==
    /\ pod \in {"none", "leased", "local"}
    /\ idle \in 0..IdleTimeout /\ field \in Timers \cup {None}
    /\ timer \in [Timers -> {"free", "armed", "fired", "busy"}]
    /\ delay \in [Timers -> 0..IdleTimeout] /\ ArmedWaits
    /\ uart \in Links \cup {None} /\ links \subseteq Links
    /\ lock \in Workers \cup {None}
    /\ kind \in [Workers -> Kinds]
    /\ stage \in [Workers -> {"none", "opening", "running"}]
    /\ using \in [Workers -> Links \cup {None}]
    /\ quiet \in 0..IdleTimeout

LEMMA FlagsStep == FlagsOK /\ [SessionNext]_sessionVars => FlagsOK'
<1> SUFFICES ASSUME FlagsOK, [SessionNext]_sessionVars PROVE FlagsOK'
  OBVIOUS
<1> USE DEF FlagsOK, device
<1>1. ASSUME NEW w \in Workers, ToolCall(w) PROVE FlagsOK'
  BY <1>1, Zenon DEF ToolCall, Require, ConnectTool, Disconnect, UartClose, CanClose, CanUse, UartUse,
     Forget, CloseDevice
<1>2. ASSUME NEW w \in Workers, ToolEnds(w) PROVE FlagsOK'
  BY <1>2, Zenon DEF ToolEnds, Opened, OpenFails, UartUsed, Connected, UartOpened, CanOpened,
     ToolDone, Forget, CloseDevice
<1>3. ASSUME NEW t \in Timers, TimerThread(t) PROVE FlagsOK'
  BY <1>3, Zenon DEF TimerThread, CheckIdle, CheckIdleBusy, Rearm, CloseDevice
<1>4. CASE TimePasses
  BY <1>4, Zenon DEF TimePasses
<1>5. CASE UNCHANGED sessionVars
  BY <1>5, Zenon DEF sessionVars
<1> QED BY <1>1, <1>2, <1>3, <1>4, <1>5 DEF SessionNext

LEMMA TouchTyped ==
    ASSUME DataOK, NEW p, Touch(p)
    PROVE  /\ idle' \in 0..IdleTimeout /\ field' \in Timers \cup {None}
           /\ timer' \in [Timers -> {"free", "armed", "fired", "busy"}]
           /\ delay' \in [Timers -> 0..IdleTimeout]
           /\ ArmedWaits'
BY IdleAssumption DEF DataOK, ArmedWaits, Touch, Schedule

LEMMA CancelTyped ==
    ASSUME DataOK, CancelTimer
    PROVE  /\ idle' \in 0..IdleTimeout /\ field' \in Timers \cup {None}
           /\ timer' \in [Timers -> {"free", "armed", "fired", "busy"}]
           /\ delay' \in [Timers -> 0..IdleTimeout]
           /\ ArmedWaits'
BY IdleAssumption DEF DataOK, ArmedWaits, CancelTimer

LEMMA TimerTyped ==
    ASSUME DataOK, NEW t \in Timers, TimerThread(t)
    PROVE  DataOK'
<1> USE IdleAssumption DEF DataOK, ArmedWaits, device, uarts, calls
<1>1. CASE CheckIdle(t)
  BY <1>1 DEF CheckIdle, CloseDevice, CloseUart, Remaining
<1>2. CASE CheckIdleBusy(t)
  BY <1>2 DEF CheckIdleBusy
<1>3. CASE Rearm(t)
  BY <1>3 DEF Rearm
<1> QED BY <1>1, <1>2, <1>3 DEF TimerThread

LEMMA CallTyped ==
    ASSUME DataOK, NEW w \in Workers, ToolCall(w)
    PROVE  DataOK'
<1> USE IdleAssumption DEF DataOK, device, uarts, calls, clocks, Enter, Brief, Kinds
<1>1. ASSUME NEW k \in Kinds, Require(w, k) PROVE DataOK'
  <2>1. CASE Touch(pod)
    BY <1>1, <2>1, TouchTyped DEF Require
  <2>2. CASE UNCHANGED clocks
    BY <1>1, <2>2 DEF Require, ArmedWaits
  <2> QED BY <1>1, <2>1, <2>2 DEF Require
<1>2. CASE ConnectTool(w)
  BY <1>2, CancelTyped DEF ConnectTool, Forget, CloseDevice, CloseUart
<1>3. CASE Disconnect(w)
  BY <1>3, CancelTyped DEF Disconnect, Forget, CloseDevice, CloseUart
<1>4. CASE UartClose(w)
  BY <1>4 DEF UartClose, CloseUart, ArmedWaits
<1>5. CASE CanClose(w)
  BY <1>5 DEF CanClose, ArmedWaits
<1>6. CASE CanUse(w)
  BY <1>6 DEF CanUse, ArmedWaits
<1>7. CASE UartUse(w)
  BY <1>7 DEF UartUse, ArmedWaits
<1> QED BY <1>1, <1>2, <1>3, <1>4, <1>5, <1>6, <1>7 DEF ToolCall

LEMMA EndTyped ==
    ASSUME DataOK, NEW w \in Workers, ToolEnds(w)
    PROVE  DataOK'
<1> USE IdleAssumption DEF DataOK, device, uarts, calls, clocks, Leave, Kinds
<1>1. CASE Opened(w)
  BY <1>1, TouchTyped DEF Opened
<1>2. CASE OpenFails(w)
  BY <1>2 DEF OpenFails, ArmedWaits
<1>3. CASE UartUsed(w)
  BY <1>3 DEF UartUsed, ArmedWaits
<1>4. CASE Connected(w)
  <2>1. CASE UNCHANGED clocks
    BY <1>4, <2>1, CancelTyped DEF Connected, Forget, CloseDevice, CloseUart, ArmedWaits
  <2>2. CASE Forget
    BY <1>4, <2>2, CancelTyped DEF Connected, Forget, CloseDevice, CloseUart
  <2> QED BY <1>4, <2>1, <2>2 DEF Connected
<1>5. CASE UartOpened(w)
  BY <1>5 DEF UartOpened, CloseUart, ArmedWaits
<1>6. CASE CanOpened(w)
  BY <1>6 DEF CanOpened, ArmedWaits
<1>7. CASE ToolDone(w)
  BY <1>7 DEF ToolDone, ArmedWaits
<1> QED BY <1>1, <1>2, <1>3, <1>4, <1>5, <1>6, <1>7 DEF ToolEnds

LEMMA DataStep == DataOK /\ [SessionNext]_sessionVars => DataOK'
<1> SUFFICES ASSUME DataOK, [SessionNext]_sessionVars PROVE DataOK'
  OBVIOUS
<1>1. CASE TimePasses
  BY <1>1, IdleAssumption DEF TimePasses, DataOK, ArmedWaits, device, uarts, calls
<1>2. CASE UNCHANGED sessionVars
  BY <1>2 DEF sessionVars, DataOK, ArmedWaits
<1> QED BY <1>1, <1>2, TimerTyped, CallTyped, EndTyped DEF SessionNext

(* The session only ever holds values of these types: in particular a timer's  *)
(* delay never falls below zero and is never longer than the idle timeout.     *)
THEOREM Typed == SessionSafetySpec => [](SessionTypeOK /\ ArmedWaits)
<1>1. SessionInit => FlagsOK
  BY Zenon DEF SessionInit, FlagsOK
<1>2. SessionInit => DataOK
  BY IdleAssumption DEF SessionInit, DataOK, ArmedWaits, Kinds
<1>3. FlagsOK /\ DataOK => SessionTypeOK /\ ArmedWaits
  BY Zenon DEF FlagsOK, DataOK, SessionTypeOK
<1> QED BY <1>1, <1>2, <1>3, FlagsStep, DataStep, PTL DEF SessionSafetySpec

-----------------------------------------------------------------------------
(* A call that opens the pod, or a tool other than uart_read and uart_write,   *)
(* has Session.lock: at most one at a time.                                    *)
Locking(w) == stage[w] = "opening" \/ (stage[w] = "running" /\ kind[w] # "uart_use")
LockIsHeld == \A w \in Workers : Locking(w) => lock = w

LEMMA LockStep == SessionTypeOK /\ LockIsHeld /\ [SessionNext]_sessionVars => LockIsHeld'
<1> SUFFICES ASSUME SessionTypeOK, LockIsHeld, [SessionNext]_sessionVars PROVE LockIsHeld'
  OBVIOUS
<1> USE NoneAssumption DEF SessionTypeOK, LockIsHeld, Locking, calls
<1>1. ASSUME NEW w \in Workers, ToolCall(w) PROVE LockIsHeld'
  BY <1>1 DEF ToolCall, Require, ConnectTool, Disconnect, UartClose, CanClose, CanUse, UartUse,
     Ready, Enter, Brief
<1>2. ASSUME NEW w \in Workers, ToolEnds(w) PROVE LockIsHeld'
  BY <1>2 DEF ToolEnds, Opened, OpenFails, UartUsed, Connected, UartOpened, CanOpened,
     ToolDone, Leave
<1>3. ASSUME NEW t \in Timers, TimerThread(t) PROVE LockIsHeld'
  BY <1>3 DEF TimerThread, CheckIdle, CheckIdleBusy, Rearm
<1>4. CASE TimePasses
  BY <1>4 DEF TimePasses
<1>5. CASE UNCHANGED sessionVars
  BY <1>5 DEF sessionVars
<1> QED BY <1>1, <1>2, <1>3, <1>4, <1>5 DEF SessionNext

(* Only somebody who gets the lock closes the pod, and a tool that needs it has  *)
(* opened it or seen it open with the lock held.                                 *)
LEMMA PodStep == SessionTypeOK /\ LockIsHeld /\ LockedToolKeepsPod /\ [SessionNext]_sessionVars => LockedToolKeepsPod'
<1> SUFFICES ASSUME SessionTypeOK, LockIsHeld, LockedToolKeepsPod, [SessionNext]_sessionVars PROVE LockedToolKeepsPod'
  OBVIOUS
<1> USE NoneAssumption DEF SessionTypeOK, LockIsHeld, Locking, LockedToolKeepsPod, NeedsPod, calls, device
<1>1. ASSUME NEW w \in Workers, ToolCall(w) PROVE LockedToolKeepsPod'
  BY <1>1 DEF ToolCall, Require, ConnectTool, Disconnect, UartClose, CanClose, CanUse, UartUse,
     Ready, Enter, Brief
<1>2. ASSUME NEW w \in Workers, ToolEnds(w) PROVE LockedToolKeepsPod'
  BY <1>2 DEF ToolEnds, Opened, OpenFails, UartUsed, Connected, UartOpened, CanOpened,
     ToolDone, Leave, Forget, CloseDevice
<1>3. ASSUME NEW t \in Timers, TimerThread(t) PROVE LockedToolKeepsPod'
  BY <1>3 DEF TimerThread, CheckIdle, CheckIdleBusy, Rearm, LockIsFree
<1>4. CASE TimePasses
  BY <1>4 DEF TimePasses
<1>5. CASE UNCHANGED sessionVars
  BY <1>5 DEF sessionVars
<1> QED BY <1>1, <1>2, <1>3, <1>4, <1>5 DEF SessionNext

(* The pod is never closed under a tool that asked require() for it, however    *)
(* many timers, of this connection or of an earlier one, check for idleness     *)
(* (session.py, _check_idle; server.py, the tools' "with session.lock").        *)
THEOREM ToolsKeepThePod == SessionSafetySpec => [](LockIsHeld /\ LockedToolKeepsPod)
<1>1. SessionInit => LockIsHeld /\ LockedToolKeepsPod
  BY DEF SessionInit, LockIsHeld, Locking, LockedToolKeepsPod
<1> QED BY <1>1, LockStep, PodStep, Typed, PTL DEF SessionSafetySpec

-----------------------------------------------------------------------------
(* Why a lease is watched: _idle_timer names a timer that is still to run, and  *)
(* is None only while no lease is held.                                         *)
TimerIsKept ==
    /\ field # None => timer[field] # "free"
    /\ pod = "leased" => field # None

LEMMA WatchStep == SessionTypeOK /\ TimerIsKept /\ [SessionNext]_sessionVars => TimerIsKept'
<1> SUFFICES ASSUME SessionTypeOK, TimerIsKept, [SessionNext]_sessionVars PROVE TimerIsKept'
  OBVIOUS
<1> USE NoneAssumption DEF SessionTypeOK, TimerIsKept, calls, device, clocks
<1>1. ASSUME NEW w \in Workers, ToolCall(w) PROVE TimerIsKept'
  BY <1>1 DEF ToolCall, Require, ConnectTool, Disconnect, UartClose, CanClose, CanUse, UartUse,
     Touch, Schedule, Forget, CancelTimer, CloseDevice
<1>2. ASSUME NEW w \in Workers, ToolEnds(w) PROVE TimerIsKept'
  BY <1>2 DEF ToolEnds, Opened, OpenFails, UartUsed, Connected, UartOpened, CanOpened,
     ToolDone, Touch, Schedule, Forget, CancelTimer, CloseDevice
<1>3. ASSUME NEW t \in Timers, TimerThread(t) PROVE TimerIsKept'
  BY <1>3 DEF TimerThread, CheckIdle, CheckIdleBusy, Rearm, CloseDevice
<1>4. CASE TimePasses
  BY <1>4 DEF TimePasses
<1>5. CASE UNCHANGED sessionVars
  BY <1>5 DEF sessionVars
<1> QED BY <1>1, <1>2, <1>3, <1>4, <1>5 DEF SessionNext

(* A leased connection that no tool is using has a timer thread that will look  *)
(* at it: neither a cancel that comes too late, nor a re-arm without the lock,  *)
(* nor the timer of an earlier connection leaves a lease to itself              *)
(* (session.py, _touch, _cancel_idle_timer and _check_idle).                    *)
THEOREM LeasesAreWatched == SessionSafetySpec => []LeaseIsWatched
<1>1. SessionInit => TimerIsKept
  BY NoneAssumption DEF SessionInit, TimerIsKept
<1>2. SessionTypeOK /\ TimerIsKept => LeaseIsWatched
  BY DEF SessionTypeOK, TimerIsKept, LeaseIsWatched
<1> QED BY <1>1, <1>2, WatchStep, Typed, PTL DEF SessionSafetySpec

-----------------------------------------------------------------------------
(* What the user left connected is open or can be reopened, even while a tool   *)
(* holds the lock; an open pod can always be reopened after an idle release.    *)
WantedIsKept ==
    /\ wanted <=> (pod # "none" \/ Reconnectable)
    /\ pod # "none" => reconnect

(* All that ever happens to the connection and to what the user wants of it.    *)
Forgotten == pod' = "none" /\ reconnect' = FALSE /\ idleClosed' = FALSE /\ wanted' = FALSE
OpenedForUser == pod' # "none" /\ reconnect' = TRUE /\ wanted' = TRUE
ReleasedIdle == pod # "none" /\ pod' = "none" /\ idleClosed' = TRUE /\ UNCHANGED <<reconnect, wanted>>
LeftAlone == UNCHANGED <<pod, reconnect, idleClosed, wanted>>

LEMMA ConnectionSteps == [SessionNext]_sessionVars => Forgotten \/ OpenedForUser \/ ReleasedIdle \/ LeftAlone
<1> SUFFICES ASSUME [SessionNext]_sessionVars PROVE Forgotten \/ OpenedForUser \/ ReleasedIdle \/ LeftAlone
  OBVIOUS
<1> USE DEF device
<1>1. ASSUME NEW w \in Workers, ToolCall(w) PROVE Forgotten \/ LeftAlone
  BY <1>1, Zenon DEF ToolCall, Require, ConnectTool, Disconnect, UartClose, CanClose, CanUse, UartUse,
     Forget, CloseDevice, Forgotten, LeftAlone
<1>2. ASSUME NEW w \in Workers, Opened(w) PROVE OpenedForUser
  BY <1>2, Zenon DEF Opened, OpenedForUser
<1>3. ASSUME NEW w \in Workers, Connected(w) PROVE Forgotten \/ LeftAlone
  BY <1>3, Zenon DEF Connected, Forget, CloseDevice, Forgotten, LeftAlone
<1>4. ASSUME NEW w \in Workers,
             OpenFails(w) \/ UartUsed(w) \/ UartOpened(w) \/ CanOpened(w) \/ ToolDone(w)
      PROVE LeftAlone
  BY <1>4, Zenon DEF OpenFails, UartUsed, UartOpened, CanOpened, ToolDone, LeftAlone
<1>5. ASSUME NEW t \in Timers, CheckIdle(t) PROVE ReleasedIdle \/ LeftAlone
  <2>1. UNCHANGED wanted
    BY <1>5, Zenon DEF CheckIdle
  <2>2. CASE pod = "none"
    BY <1>5, <2>1, <2>2, Zenon DEF CheckIdle, LeftAlone
  <2>3. CASE pod # "none" /\ idle < IdleTimeout
    BY <1>5, <2>1, <2>3, Zenon DEF CheckIdle, LeftAlone
  <2>4. CASE pod # "none" /\ ~(idle < IdleTimeout)
    BY <1>5, <2>1, <2>4, Zenon DEF CheckIdle, CloseDevice, ReleasedIdle
  <2> QED BY <2>2, <2>3, <2>4
<1>6. ASSUME NEW t \in Timers, CheckIdleBusy(t) \/ Rearm(t) PROVE LeftAlone
  BY <1>6, Zenon DEF CheckIdleBusy, Rearm, LeftAlone
<1>7. CASE TimePasses
  BY <1>7, Zenon DEF TimePasses, LeftAlone
<1>8. CASE UNCHANGED sessionVars
  BY <1>8, Zenon DEF sessionVars, LeftAlone
<1> QED BY <1>1, <1>2, <1>3, <1>4, <1>5, <1>6, <1>7, <1>8, Zenon DEF SessionNext, ToolEnds, TimerThread

LEMMA WantedStep == WantedIsKept /\ [SessionNext]_sessionVars => WantedIsKept'
<1> SUFFICES ASSUME WantedIsKept, [SessionNext]_sessionVars PROVE WantedIsKept'
  OBVIOUS
<1>1. CASE Forgotten
  BY <1>1, Zenon DEF Forgotten, WantedIsKept, Reconnectable
<1>2. CASE OpenedForUser
  BY <1>2, Zenon DEF OpenedForUser, WantedIsKept
<1>3. CASE ReleasedIdle
  BY <1>3, Zenon DEF ReleasedIdle, WantedIsKept, Reconnectable
<1>4. CASE LeftAlone
  BY <1>4, Zenon DEF LeftAlone, WantedIsKept, Reconnectable
<1> QED BY <1>1, <1>2, <1>3, <1>4, ConnectionSteps

(* An idle release is not a disconnect, and nothing brings back a pod the user  *)
(* disconnected (session.py, require, connect, disconnect and _check_idle).     *)
THEOREM ReopensTheWanted == SessionSafetySpec => []ReopensWhatWasWanted
<1>1. SessionInit => WantedIsKept
  BY Zenon DEF SessionInit, WantedIsKept, Reconnectable
<1>2. WantedIsKept => ReopensWhatWasWanted
  BY Zenon DEF WantedIsKept, ReopensWhatWasWanted
<1> QED BY <1>1, <1>2, WantedStep, PTL DEF SessionSafetySpec

-----------------------------------------------------------------------------
LEMMA LinkStep ==
    SessionTypeOK /\ LockedToolKeepsPod /\ NoStrayLink /\ [SessionNext]_sessionVars => NoStrayLink'
<1> SUFFICES ASSUME SessionTypeOK, LockedToolKeepsPod, NoStrayLink, [SessionNext]_sessionVars PROVE NoStrayLink'
  OBVIOUS
<1> USE NoneAssumption DEF SessionTypeOK, LockedToolKeepsPod, NeedsPod, NoStrayLink, calls, device, uarts
<1>1. ASSUME NEW w \in Workers, ToolCall(w) PROVE NoStrayLink'
  BY <1>1 DEF ToolCall, Require, ConnectTool, Disconnect, UartClose, CanClose, CanUse, UartUse,
     Enter, Brief, Forget, CloseDevice, CloseUart
<1>2. ASSUME NEW w \in Workers, ToolEnds(w) PROVE NoStrayLink'
  BY <1>2 DEF ToolEnds, Opened, OpenFails, UartUsed, Connected, UartOpened, CanOpened,
     ToolDone, Leave, Forget, CloseDevice, CloseUart
<1>3. ASSUME NEW t \in Timers, TimerThread(t) PROVE NoStrayLink'
  BY <1>3 DEF TimerThread, CheckIdle, CheckIdleBusy, Rearm, CloseDevice, CloseUart
<1>4. CASE TimePasses
  BY <1>4 DEF TimePasses
<1>5. CASE UNCHANGED sessionVars
  BY <1>5 DEF sessionVars
<1> QED BY <1>1, <1>2, <1>3, <1>4, <1>5 DEF SessionNext

(* At most one UART link is open, the session's, and only on an open pod: a     *)
(* handle that a uart_read without the lock kept over a uart_close, uart_open,  *)
(* disconnect or idle release is a closed one (server.py, uart_read and         *)
(* uart_open; session.py, _close_device).                                       *)
THEOREM NoLinkIsLeftOpen == SessionSafetySpec => []NoStrayLink
<1>1. SessionInit => NoStrayLink
  BY NoneAssumption DEF SessionInit, NoStrayLink
<1> QED BY <1>1, LinkStep, ToolsKeepThePod, Typed, PTL DEF SessionSafetySpec
=============================================================================
