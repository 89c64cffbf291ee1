---------------------------- MODULE McpSession -----------------------------
(***************************************************************************)
(* The MCP server's one BenchPod connection (embeddedci_mcp/session.py) and *)
(* the tools that use it (embeddedci_mcp/server.py).                        *)
(*                                                                         *)
(* Tool calls run on worker threads.  Most hold Session.lock for their     *)
(* whole body; uart_read and uart_write take the UART handle and use it    *)
(* without the lock.  threading.Timer threads check for idleness: one      *)
(* tries the lock without blocking and, when a tool holds it, re-arms      *)
(* itself without the lock.  A call starts when it gets the lock, may have *)
(* to open the pod first, runs, and is over.                               *)
(***************************************************************************)
EXTENDS Integers, FiniteSets

CONSTANTS
    Workers,        \* threads that run tool calls
    Timers,         \* bound: timer threads alive at once
    Links,          \* bound: UART links alive at once
    None,           \* no timer / no link / no worker
    IdleTimeout,    \* Session.idle_timeout, in ticks (> 0)
    Retry           \* min(5.0, idle_timeout)

ASSUME IdleAssumption ==
    IdleTimeout \in Nat \ {0} /\ Retry \in 1..IdleTimeout
ASSUME NoneAssumption == None \notin Workers \cup Timers \cup Links

VARIABLES
    pod,        \* Session._pod: none, or open and leased (cloud) or not
    reconnect,  \* Session._reconnect is set
    idleClosed, \* Session._idle_closed
    idle,       \* ticks since Session._last_used, up to IdleTimeout
    field,      \* Session._idle_timer
    timer,      \* each timer thread: free, armed, fired, busy (found the lock taken)
    delay,      \* ticks until an armed timer fires
    uart,       \* Session.uart
    links,      \* the UART links not yet closed
    can,        \* Session.can is open
    lock,       \* who holds Session.lock
    kind,       \* the tool each worker runs
    stage,      \* and how far it is
    using,      \* the link a uart_read or uart_write works on
    quiet,      \* history: ticks since a tool call was last in progress
    wanted      \* history: the user connected and has not disconnected since

device == <<pod, reconnect, idleClosed, can>>
clocks == <<idle, field, timer, delay>>
uarts == <<uart, links>>
calls == <<kind, stage, using>>
sessionVars == <<pod, reconnect, idleClosed, idle, field, timer, delay, uart, links, can,
                 lock, kind, stage, using, quiet, wanted>>

(* tool: any tool that calls require() under the lock; can_use: can_write and *)
(* can_respond, which do not; uart_use: uart_read and uart_write.             *)
Kinds == {"connect", "disconnect", "tool", "uart_open", "uart_use", "uart_close",
          "can_open", "can_use", "can_close"}
NeedsPod == {"connect", "tool", "uart_open", "can_open"}

SessionTypeOK ==
    /\ pod \in {"none", "leased", "local"} /\ reconnect \in BOOLEAN /\ idleClosed \in BOOLEAN
    /\ idle \in 0..IdleTimeout /\ field \in Timers \cup {None}
    /\ timer \in [Timers -> {"free", "armed", "fired", "busy"}]
    /\ delay \in [Timers -> 0..IdleTimeout]
    /\ uart \in Links \cup {None} /\ links \subseteq Links /\ can \in BOOLEAN
    /\ lock \in Workers \cup {None}
    /\ kind \in [Workers -> Kinds]
    /\ stage \in [Workers -> {"none", "opening", "running"}]
    /\ using \in [Workers -> Links \cup {None}]
    /\ quiet \in 0..IdleTimeout /\ wanted \in BOOLEAN

SessionInit ==
    /\ pod = "none" /\ reconnect = FALSE /\ idleClosed = FALSE
    /\ idle = 0 /\ field = None
    /\ timer = [t \in Timers |-> "free"] /\ delay = [t \in Timers |-> 0]
    /\ uart = None /\ links = {} /\ can = FALSE
    /\ lock = None
    /\ kind = [w \in Workers |-> "tool"] /\ stage = [w \in Workers |-> "none"]
    /\ using = [w \in Workers |-> None]
    /\ quiet = IdleTimeout /\ wanted = FALSE

Reconnectable == pod = "none" /\ idleClosed /\ reconnect

-----------------------------------------------------------------------------
(* The timer *)

(* _schedule_idle_check; the previous timer, if any, is left to itself *)
Schedule(d) ==
    \E t \in Timers :
        /\ timer[t] = "free"
        /\ timer' = [timer EXCEPT ![t] = "armed"]
        /\ delay' = [delay EXCEPT ![t] = d]
        /\ field' = t

(* _touch, for a connection p *)
Touch(p) ==
    /\ idle' = 0
    /\ IF field = None /\ p = "leased"
         THEN Schedule(IdleTimeout)
         ELSE UNCHANGED <<field, timer, delay>>

(* a plausible bug: the cancelled timer stays in _idle_timer *)
CancelTimerKeptInField ==
    /\ timer' = [t \in Timers |-> IF t = field /\ timer[t] = "armed" THEN "free" ELSE timer[t]]
    /\ delay' = [t \in Timers |-> IF t = field /\ timer[t] = "armed" THEN 0 ELSE delay[t]]
    /\ UNCHANGED <<idle, field>>

(* _cancel_idle_timer: a timer that fired already is past cancelling *)
CancelTimer ==
    /\ field' = None
    /\ timer' = [t \in Timers |-> IF t = field /\ timer[t] = "armed" THEN "free" ELSE timer[t]]
    /\ delay' = [t \in Timers |-> IF t = field /\ timer[t] = "armed" THEN 0 ELSE delay[t]]
    /\ UNCHANGED idle

CloseUart == links' = links \ {uart} /\ uart' = None
(* a plausible bug: the connection is closed without its UART session *)
CloseDeviceNotUart == UNCHANGED uarts /\ can' = FALSE /\ pod' = "none"
CloseDevice == CloseUart /\ can' = FALSE /\ pod' = "none"

(* a plausible bug: a disconnect that may still be undone by a reconnect *)
ForgetDeviceOnly == CancelTimer /\ CloseDevice /\ UNCHANGED <<reconnect, idleClosed>>
(* Session.disconnect() *)
Forget == CancelTimer /\ CloseDevice /\ reconnect' = FALSE /\ idleClosed' = FALSE

(* a plausible bug: the check does not ask for the lock *)
LockNotTried == TRUE
(* lock.acquire(blocking=False) *)
LockIsFree == lock = None

Remaining == IdleTimeout - idle

(* A fired timer and _check_idle, with the lock taken without waiting. *)
CheckIdle(t) ==
    /\ timer[t] = "fired" /\ LockIsFree
    /\ IF pod = "none"
         THEN /\ field' = None
              /\ timer' = [timer EXCEPT ![t] = "free"]
              /\ UNCHANGED <<device, uarts, delay>>
         ELSE IF idle < IdleTimeout
         THEN /\ field' = t                 \* a new Timer, in the slot of this one
              /\ timer' = [timer EXCEPT ![t] = "armed"]
              /\ delay' = [delay EXCEPT ![t] = Remaining]
              /\ UNCHANGED <<device, uarts>>
         ELSE /\ field' = None
              /\ timer' = [timer EXCEPT ![t] = "free"]
              /\ CloseDevice /\ idleClosed' = TRUE
              /\ UNCHANGED <<reconnect, delay>>
    /\ UNCHANGED <<idle, lock, calls, quiet, wanted>>

(* The lock is taken: "a tool is running: that counts as activity". *)
CheckIdleBusy(t) ==
    /\ timer[t] = "fired" /\ ~LockIsFree
    /\ timer' = [timer EXCEPT ![t] = "busy"]
    /\ UNCHANGED <<device, idle, field, delay, uarts, lock, calls, quiet, wanted>>

(* a plausible bug: the check that found the lock taken is the last one *)
RearmNot(t) ==
    /\ timer[t] = "busy"
    /\ timer' = [timer EXCEPT ![t] = "free"]
    /\ UNCHANGED <<device, idle, field, delay, uarts, lock, calls, quiet, wanted>>

Rearm(t) ==
    /\ timer[t] = "busy"
    /\ timer' = [timer EXCEPT ![t] = "armed"]
    /\ delay' = [delay EXCEPT ![t] = Retry]
    /\ field' = t
    /\ UNCHANGED <<device, idle, uarts, lock, calls, quiet, wanted>>
-----------------------------------------------------------------------------
(* Tool calls *)

Enter(w, k, s) ==
    /\ kind' = [kind EXCEPT ![w] = k] /\ stage' = [stage EXCEPT ![w] = s]
    /\ lock' = w /\ quiet' = 0 /\ UNCHANGED using
(* the call is over as soon as it has begun *)
Brief == UNCHANGED <<calls, lock>> /\ quiet' = 0
Leave(w) ==
    /\ stage' = [stage EXCEPT ![w] = "none"]
    /\ lock' = None /\ quiet' = 0 /\ UNCHANGED <<kind, using>>

Ready(w) == stage[w] = "none" /\ lock = None

(* Session.require() for a tool of kind k: the live pod, a transparent        *)
(* reconnect, or NotConnectedError.                                           *)
Require(w, k) ==
    /\ Ready(w) /\ k \in NeedsPod \ {"connect"}
    /\ \/ pod # "none" /\ Touch(pod) /\ Enter(w, k, "running")
       \/ Reconnectable /\ Enter(w, k, "opening") /\ UNCHANGED clocks
       \/ pod = "none" /\ ~Reconnectable /\ Brief /\ UNCHANGED clocks
    /\ UNCHANGED <<device, uarts, wanted>>

(* Session.connect() first disconnects. *)
ConnectTool(w) ==
    /\ Ready(w)
    /\ Forget /\ Enter(w, "connect", "opening")
    /\ wanted' = FALSE

Opened(w) ==
    /\ stage[w] = "opening"
    /\ \E p \in {"leased", "local"} : pod' = p /\ Touch(p)
    /\ idleClosed' = FALSE /\ reconnect' = TRUE /\ wanted' = TRUE
    /\ stage' = [stage EXCEPT ![w] = "running"]
    /\ UNCHANGED <<uarts, can, lock, kind, using, quiet>>

OpenFails(w) ==
    /\ stage[w] = "opening"
    /\ Leave(w)
    /\ UNCHANGED <<device, clocks, uarts, wanted>>

Disconnect(w) ==
    /\ Ready(w)
    /\ Forget /\ Brief
    /\ wanted' = FALSE

UartClose(w) ==
    /\ Ready(w)
    /\ CloseUart /\ Brief
    /\ UNCHANGED <<device, clocks, wanted>>

CanClose(w) ==
    /\ Ready(w)
    /\ can' = FALSE /\ Brief
    /\ UNCHANGED <<pod, reconnect, idleClosed, clocks, uarts, wanted>>

(* can_write and can_respond: require_can() under the lock, no require() *)
CanUse(w) ==
    /\ Ready(w) /\ can
    /\ Enter(w, "can_use", "running")
    /\ UNCHANGED <<device, clocks, uarts, wanted>>

(* uart_read and uart_write: require_uart() and no lock *)
UartUse(w) ==
    /\ stage[w] = "none" /\ uart # None
    /\ kind' = [kind EXCEPT ![w] = "uart_use"]
    /\ stage' = [stage EXCEPT ![w] = "running"]
    /\ using' = [using EXCEPT ![w] = uart]
    /\ quiet' = 0
    /\ UNCHANGED <<device, clocks, uarts, lock, wanted>>

UartUsed(w) ==
    /\ stage[w] = "running" /\ kind[w] = "uart_use"
    /\ stage' = [stage EXCEPT ![w] = "none"]
    /\ using' = [using EXCEPT ![w] = None]
    /\ quiet' = 0
    /\ UNCHANGED <<device, clocks, uarts, lock, kind, wanted>>

(* connect ends with _status(); when that raises, connect disconnects. *)
Connected(w) ==
    /\ stage[w] = "running" /\ kind[w] = "connect"
    /\ \/ UNCHANGED <<device, clocks, uarts, wanted>>
       \/ Forget /\ wanted' = FALSE
    /\ Leave(w)

(* uart_open closes the session it replaces before it opens its own *)
UartOpened(w) ==
    /\ stage[w] = "running" /\ kind[w] = "uart_open"
    /\ \/ CloseUart                                           \* the pod refused
       \/ \E l \in Links \ (links \cup {using[v] : v \in Workers}) :
             uart' = l /\ links' = (links \ {uart}) \cup {l}
    /\ Leave(w)
    /\ UNCHANGED <<device, clocks, wanted>>

CanOpened(w) ==
    /\ stage[w] = "running" /\ kind[w] = "can_open"
    /\ can' \in BOOLEAN
    /\ Leave(w)
    /\ UNCHANGED <<pod, reconnect, idleClosed, clocks, uarts, wanted>>

ToolDone(w) ==
    /\ stage[w] = "running" /\ kind[w] \in {"tool", "can_use"}
    /\ Leave(w)
    /\ UNCHANGED <<device, clocks, uarts, wanted>>

-----------------------------------------------------------------------------
InProgress == \E w \in Workers : stage[w] # "none"

(* A tick of time; an armed timer whose delay is over fires with it. *)
TimePasses ==
    /\ idle' = IF idle < IdleTimeout THEN idle + 1 ELSE idle
    /\ quiet' = IF InProgress THEN 0 ELSE IF quiet < IdleTimeout THEN quiet + 1 ELSE quiet
    /\ timer' = [t \in Timers |-> IF timer[t] = "armed" /\ delay[t] = 1 THEN "fired" ELSE timer[t]]
    /\ delay' = [t \in Timers |-> IF timer[t] = "armed" THEN delay[t] - 1 ELSE delay[t]]
    /\ UNCHANGED <<device, field, uarts, lock, calls, wanted>>

TimerThread(t) == CheckIdle(t) \/ CheckIdleBusy(t) \/ Rearm(t)
ToolEnds(w) ==
    \/ Opened(w) \/ OpenFails(w) \/ UartUsed(w) \/ Connected(w) \/ UartOpened(w)
    \/ CanOpened(w) \/ ToolDone(w)
ToolCall(w) ==
    \/ \E k \in Kinds : Require(w, k)
    \/ ConnectTool(w) \/ Disconnect(w) \/ UartClose(w) \/ CanClose(w) \/ CanUse(w) \/ UartUse(w)

SessionNext ==
    \/ \E w \in Workers : ToolCall(w) \/ ToolEnds(w)
    \/ \E t \in Timers : TimerThread(t)
    \/ TimePasses

(* Time passes and timer threads run; no agent has to call a tool, and a call *)
(* need not end.                                                              *)
SessionSafetySpec == SessionInit /\ [][SessionNext]_sessionVars
SessionSpec ==
    SessionSafetySpec /\ WF_sessionVars(TimePasses) /\ \A t \in Timers : WF_sessionVars(TimerThread(t))
-----------------------------------------------------------------------------
(* A tool that asked require() for the pod keeps it until the tool ends: no    *)
(* idle check, of this timer or of one a reconnect left behind, closes the     *)
(* connection under it.                                                        *)
LockedToolKeepsPod ==
    \A w \in Workers : stage[w] = "running" /\ kind[w] \in NeedsPod => pod # "none"

(* Whoever races with whom, a leased connection that no tool is using is       *)
(* watched: some timer thread will look at it.  (disconnect cancels a timer    *)
(* that may have fired, _touch arms one only when _idle_timer is None, and a   *)
(* check that found the lock taken re-arms without the lock.)                  *)
LeaseIsWatched ==
    pod = "leased" /\ lock = None => \E t \in Timers : timer[t] # "free"

(* The session reopens by itself exactly what the user left connected: an idle *)
(* release is not a disconnect, and nothing brings back a disconnected pod.    *)
ReopensWhatWasWanted ==
    lock = None => (wanted <=> (pod # "none" \/ Reconnectable))

(* At most one UART link is open, the session's own, and only on an open pod:  *)
(* a handle a concurrent uart_read still holds after uart_close, uart_open,    *)
(* disconnect or an idle release is a closed one.                              *)
NoStrayLink ==
    /\ links \subseteq {uart}
    /\ uart # None => pod # "none"
    /\ \A w \in Workers : using[w] # uart => using[w] \notin links

(* A session nobody uses any more gives the shared device back. *)
IdleLeaseComesFree == <>[]~InProgress => <>[](pod # "leased")

(* session.py: "after ``idle_timeout`` seconds without a tool call the session *)
(* closes the connection (releasing the lease)".                               *)
ReleasedOnlyWithoutCalls ==
    [][pod # "none" /\ idleClosed' /\ pod' = "none" => ~InProgress /\ quiet = IdleTimeout]_sessionVars
=============================================================================
