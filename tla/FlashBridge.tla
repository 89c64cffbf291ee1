---------------------------- MODULE FlashBridge ----------------------------
(***************************************************************************)
(* Flashing over SWD, of embeddedci/benchpod/flash.py: flash() arms the    *)
(* pod's CMSIS-DAP probe, runs OpenOCD against a loopback bridge and tries *)
(* again after a transient failure.                                        *)
(*                                                                         *)
(* A run has three threads beside the caller's: oc_to_pod (p1) and         *)
(* pod_to_oc (p2) move frames between OpenOCD and the pod's link, and      *)
(* stall_monitor (pm) kills OpenOCD when no frame moves.  They meet only   *)
(* in the events openocd_exited, pod_dropped and stalled, in the OpenOCD   *)
(* process and in the two sockets, and each step below is one operation on *)
(* these.  Events and threads belong to one run: a thread that outlives    *)
(* its run holds a closed link and an exited process, and touches nothing  *)
(* of the next run.                                                        *)
(*                                                                         *)
(* Frames go through the bridge in order and are known by their number.    *)
(* Time is not modelled: the stall and the timeout may come at any moment  *)
(* of the wait.                                                            *)
(***************************************************************************)
EXTENDS Integers

CONSTANTS
    Attempts,   \* max(1, connect_attempts)
    Window,     \* requests OpenOCD keeps in flight (packet_count)
    MaxFrames   \* bound: requests OpenOCD sends in a run

ASSUME FlashAssumption ==
    Attempts \in Nat \ {0} /\ Window \in Nat \ {0} /\ MaxFrames \in Nat

VARIABLES
    attemptNo,    \* of flash()'s loop
    main,       \* where the caller's thread is
    oc,         \* the OpenOCD process: none, running, gone
    conn,       \* has it connected to the listener?
    rc,         \* its exit status
    signal,     \* the strongest signal sent to it
    open,       \* the pod's link as the bridge has it: not yet closed by close()
    swdLink,    \* ... and as the network has it: up, dropped
    p1, p2, pm, \* the threads
    asked, forwarded, answered, delivered,  \* frames each side has handed on
    exited,     \* openocd_exited
    podDropped, \* pod_dropped
    stalled,    \* stalled
    unreachable \* target_unreachable

process == <<oc, conn, rc, signal>>
network == <<open, swdLink>>
threads == <<p1, p2, pm>>
frames == <<asked, forwarded, answered, delivered>>
events == <<exited, podDropped, stalled, unreachable>>
bridgeVars == <<attemptNo, main, process, network, threads, frames, events>>

BridgeTypeOK ==
    /\ attemptNo \in 1..Attempts
    /\ main \in {"arming", "spawning", "accepting", "waiting", "killing", "reaped",
                 "exited", "judging", "pausing", "returned", "raised"}
    /\ oc \in {"none", "running", "gone"} /\ conn \in BOOLEAN
    /\ rc \in {"none", "ok", "error", "killed"} /\ signal \in {"none", "term", "kill"}
    /\ open \in BOOLEAN /\ swdLink \in {"up", "dropped"}
    /\ p1 \in {"off", "reading", "writing", "ended"}
    /\ p2 \in {"off", "reading", "sending", "ending", "dropping", "ended"}
    /\ pm \in {"off", "watching", "firing", "done"}
    /\ asked \in 0..MaxFrames /\ forwarded \in 0..asked
    /\ answered \in 0..forwarded /\ delivered \in 0..answered
    /\ exited \in BOOLEAN /\ podDropped \in BOOLEAN
    /\ stalled \in BOOLEAN /\ unreachable \in BOOLEAN

BridgeInit ==
    /\ attemptNo = 1 /\ main = "arming"
    /\ oc = "none" /\ conn = FALSE /\ rc = "none" /\ signal = "none"
    /\ open = FALSE /\ swdLink = "up"
    /\ p1 = "off" /\ p2 = "off" /\ pm = "off"
    /\ asked = 0 /\ forwarded = 0 /\ answered = 0 /\ delivered = 0
    /\ exited = FALSE /\ podDropped = FALSE /\ stalled = FALSE /\ unreachable = FALSE

-----------------------------------------------------------------------------
(* The caller: arm the probe and start OpenOCD *)

(* dap_start, and what is local to the run starts anew. *)
Arm ==
    /\ main = "arming" /\ main' = "spawning"
    /\ open' = TRUE /\ swdLink' = "up"
    /\ oc' = "none" /\ conn' = FALSE /\ rc' = "none" /\ signal' = "none"
    /\ p1' = "off" /\ p2' = "off" /\ pm' = "off"
    /\ asked' = 0 /\ forwarded' = 0 /\ answered' = 0 /\ delivered' = 0
    /\ exited' = FALSE /\ podDropped' = FALSE /\ stalled' = FALSE /\ unreachable' = FALSE
    /\ UNCHANGED attemptNo

ArmFails ==
    /\ main = "arming" /\ main' = "raised"
    /\ UNCHANGED <<attemptNo, process, network, threads, frames, events>>

Spawn ==
    /\ main = "spawning" /\ main' = "accepting"
    /\ oc' = "running"
    /\ UNCHANGED <<attemptNo, conn, rc, signal, network, threads, frames, events>>

(* No listener or no process: the exception passes through flash()'s finally. *)
SpawnFails ==
    /\ main = "spawning" /\ main' = "raised"
    /\ open' = FALSE
    /\ UNCHANGED <<attemptNo, process, swdLink, threads, frames, events>>

Accept ==
    /\ main = "accepting" /\ conn
    /\ main' = "waiting"
    /\ p1' = "reading" /\ p2' = "reading" /\ pm' = "watching"
    /\ UNCHANGED <<attemptNo, process, network, frames, events>>

(* accept() timed out and then poll() found OpenOCD gone, whether or not it   *)
(* connected in between.                                                      *)
AcceptGivesUp ==
    /\ main = "accepting" /\ oc = "gone"
    /\ main' = "judging"
    /\ open' = FALSE
    /\ UNCHANGED <<attemptNo, process, swdLink, threads, frames, events>>

-----------------------------------------------------------------------------
(* The caller: wait for OpenOCD and judge the run *)

(* a plausible bug: the timeout is noticed and OpenOCD left alone *)
TimeoutWithoutKill ==
    /\ main = "waiting" /\ oc = "running"
    /\ main' = "killing"
    /\ UNCHANGED <<attemptNo, process, network, threads, frames, events>>

Timeout ==
    /\ main = "waiting" /\ oc = "running"
    /\ main' = "killing" /\ signal' = "kill"
    /\ UNCHANGED <<attemptNo, oc, conn, rc, network, threads, frames, events>>

(* a plausible bug: no second wait() after the kill *)
ReapUnwaited ==
    /\ main = "killing" \/ (main = "waiting" /\ oc = "gone")
    /\ main' = "reaped"
    /\ UNCHANGED <<attemptNo, process, network, threads, frames, events>>

Reap ==
    /\ main \in {"waiting", "killing"} /\ oc = "gone"
    /\ main' = "reaped"
    /\ UNCHANGED <<attemptNo, process, network, threads, frames, events>>

(* a plausible bug: the pumps are not told before their sockets close *)
SetExitedForgotten ==
    /\ main = "reaped" /\ main' = "exited"
    /\ UNCHANGED <<attemptNo, process, network, threads, frames, events>>

SetExited ==
    /\ main = "reaped" /\ main' = "exited"
    /\ exited' = TRUE
    /\ UNCHANGED <<attemptNo, process, network, threads, frames, podDropped, stalled, unreachable>>

(* Close both sockets.  The joins that follow are bounded and assure nothing. *)
CloseBoth ==
    /\ main = "exited" /\ main' = "judging"
    /\ open' = FALSE
    /\ UNCHANGED <<attemptNo, process, swdLink, threads, frames, events>>

(* accept() returned: only then are the threads of the run started. *)
Bridged == pm # "off"

(* a plausible bug: the verdict not looked at *)
RunAgainWhateverCameOut == (unreachable \/ stalled) /\ attemptNo # Attempts

(* A run whose OpenOCD ended before it was accepted has failed, whatever its   *)
(* exit code.                                                                 *)
RunAgain == ~(Bridged /\ rc = "ok") /\ (unreachable \/ stalled) /\ attemptNo # Attempts

Judge ==
    /\ main = "judging"
    /\ main' = IF RunAgain THEN "pausing" ELSE "returned"
    /\ UNCHANGED <<attemptNo, process, network, threads, frames, events>>

NextAttempt ==
    /\ main = "pausing" /\ main' = "arming"
    /\ attemptNo' = attemptNo + 1
    /\ UNCHANGED <<process, network, threads, frames, events>>

-----------------------------------------------------------------------------
(* OpenOCD (external) and the scan of its stderr *)

OcConnects ==
    /\ oc = "running" /\ main = "accepting" /\ ~conn
    /\ conn' = TRUE
    /\ UNCHANGED <<attemptNo, main, oc, rc, signal, network, threads, frames, events>>

OcAsks ==
    /\ oc = "running" /\ conn
    /\ asked < MaxFrames /\ asked - delivered < Window
    /\ asked' = asked + 1
    /\ UNCHANGED <<attemptNo, main, process, network, threads, forwarded, answered, delivered, events>>

(* It printed that no target answers, and drain() finds it whole in one read    *)
(* of 4096 bytes, perhaps the one that ends with the process.                   *)
DrainSees ==
    /\ main \in {"accepting", "waiting", "killing", "reaped", "exited", "judging"}
    /\ unreachable' = TRUE
    /\ UNCHANGED <<attemptNo, main, process, network, threads, frames, exited, podDropped, stalled>>

OcExits ==
    /\ oc = "running" /\ oc' = "gone"
    /\ rc' \in {"ok", "error"}
    /\ UNCHANGED <<attemptNo, main, conn, signal, network, threads, frames, events>>

OcDies ==
    /\ oc = "running" /\ signal # "none"
    /\ oc' = "gone" /\ rc' = "killed"
    /\ UNCHANGED <<attemptNo, main, conn, signal, network, threads, frames, events>>

-----------------------------------------------------------------------------
(* The pod's end of the link (external) *)

PodAnswers ==
    /\ open /\ swdLink = "up" /\ answered < forwarded
    /\ answered' = answered + 1
    /\ UNCHANGED <<attemptNo, main, process, network, threads, asked, forwarded, delivered, events>>

LinkDrops ==
    /\ open /\ swdLink = "up" /\ swdLink' = "dropped"
    /\ UNCHANGED <<attemptNo, main, process, open, threads, frames, events>>

-----------------------------------------------------------------------------
(* oc_to_pod *)

(* A whole request; one with a bad signature ends the thread. *)
P1Reads ==
    /\ p1 = "reading" /\ forwarded < asked /\ main \in {"waiting", "killing", "reaped", "exited"}
    /\ p1' \in {"writing", "ended"}
    /\ UNCHANGED <<attemptNo, main, process, network, p2, pm, frames, events>>

(* OpenOCD's socket ends, or the bridge closed it. *)
P1Ends ==
    /\ p1 = "reading" /\ (oc = "gone" \/ ~open)
    /\ p1' = "ended"
    /\ UNCHANGED <<attemptNo, main, process, network, p2, pm, frames, events>>

P1Writes ==
    /\ p1 = "writing" /\ open
    /\ p1' = "reading" /\ forwarded' = forwarded + 1
    /\ UNCHANGED <<attemptNo, main, process, network, p2, pm, asked, answered, delivered, events>>

P1WriteFails ==
    /\ p1 = "writing" /\ (swdLink = "dropped" \/ ~open)
    /\ p1' = "ended"
    /\ UNCHANGED <<attemptNo, main, process, network, p2, pm, frames, events>>

-----------------------------------------------------------------------------
(* pod_to_oc *)

P2Reads ==
    /\ p2 = "reading" /\ open /\ delivered < answered
    /\ p2' = "sending"
    /\ UNCHANGED <<attemptNo, main, process, network, p1, pm, frames, events>>

P2LinkEnds ==
    /\ p2 = "reading" /\ (swdLink = "dropped" \/ ~open)
    /\ p2' = "ending"
    /\ UNCHANGED <<attemptNo, main, process, network, p1, pm, frames, events>>

(* The send to an OpenOCD that has gone may still be taken by the socket. *)
P2Sends ==
    /\ p2 = "sending" /\ open
    /\ p2' = "reading" /\ delivered' = delivered + 1
    /\ UNCHANGED <<attemptNo, main, process, network, p1, pm, asked, forwarded, answered, events>>

P2SendFails ==
    /\ p2 = "sending" /\ (oc = "gone" \/ ~open)
    /\ p2' = "ending"
    /\ UNCHANGED <<attemptNo, main, process, network, p1, pm, frames, events>>

(* Has OpenOCD exited?  If not, as far as the event tells, the link dropped. *)
P2Looks ==
    /\ p2 = "ending"
    /\ p2' = IF exited THEN "ended" ELSE "dropping"
    /\ UNCHANGED <<attemptNo, main, process, network, p1, pm, frames, events>>

(* a plausible bug: OpenOCD is left to find out by itself *)
P2DropsQuietly ==
    /\ p2 = "dropping" /\ p2' = "ended"
    /\ podDropped' = TRUE
    /\ UNCHANGED <<attemptNo, main, process, network, p1, pm, frames, exited, stalled, unreachable>>

P2Drops ==
    /\ p2 = "dropping" /\ p2' = "ended"
    /\ podDropped' = TRUE
    /\ signal' = IF signal = "kill" THEN "kill" ELSE "term"
    /\ UNCHANGED <<attemptNo, main, oc, conn, rc, network, p1, pm, frames, exited, stalled, unreachable>>

-----------------------------------------------------------------------------
(* stall_monitor *)

PmLooks ==
    /\ pm = "watching"
    /\ pm' = IF exited THEN "done" ELSE "firing"
    /\ UNCHANGED <<attemptNo, main, process, network, p1, p2, frames, events>>

PmSeesFrames ==
    /\ pm = "firing" /\ pm' = "watching"
    /\ UNCHANGED <<attemptNo, main, process, network, p1, p2, frames, events>>

PmKills ==
    /\ pm = "firing" /\ pm' = "done"
    /\ stalled' = TRUE /\ signal' = "kill"
    /\ UNCHANGED <<attemptNo, main, oc, conn, rc, network, p1, p2, frames, exited, podDropped, unreachable>>

-----------------------------------------------------------------------------
Caller ==
    Arm \/ ArmFails \/ Spawn \/ SpawnFails \/ Accept \/ AcceptGivesUp
        \/ Reap \/ SetExited \/ CloseBoth \/ Judge \/ NextAttempt
OpenOCD == OcConnects \/ OcAsks \/ DrainSees \/ OcExits \/ OcDies
Pod == PodAnswers \/ LinkDrops
OcToPod == P1Reads \/ P1Ends \/ P1Writes \/ P1WriteFails
PodToOc == P2Reads \/ P2LinkEnds \/ P2Sends \/ P2SendFails \/ P2Looks \/ P2Drops
StallMonitor == PmLooks \/ PmSeesFrames \/ PmKills

BridgeNext == Caller \/ Timeout \/ OpenOCD \/ Pod \/ OcToPod \/ PodToOc \/ StallMonitor

(* The threads run and a signalled OpenOCD dies.  Nothing else is promised:   *)
(* OpenOCD may hang, the pod may stay silent, the stall may never be seen.    *)
BridgeFairness ==
    /\ WF_bridgeVars(Caller) /\ WF_bridgeVars(OcToPod) /\ WF_bridgeVars(PodToOc)
    /\ WF_bridgeVars(OcDies)

BridgeSpec == BridgeInit /\ [][BridgeNext]_bridgeVars /\ BridgeFairness

-----------------------------------------------------------------------------
(* Whenever flash() is between two runs or over, the link is closed and no    *)
(* OpenOCD runs: the next run, and the next tool, find the pod's one client   *)
(* slot free (the finally of flash(), the wait of _run_bridge).               *)
NothingLeftRunning ==
    main \in {"arming", "pausing", "returned", "raised"} => ~open /\ oc # "running"

(* A run is reported as a dropped SWD link, and OpenOCD terminated, only when *)
(* the link did drop or an answer found OpenOCD gone: never because the       *)
(* bridge closed the link itself after a run that ended in order.             *)
CleanEndIsNotADrop ==
    podDropped => swdLink = "dropped" \/ delivered < answered

(* OpenOCD's exit code is the verdict of a run that got as far as the bridge: *)
(* once one ended with 0 there is no other, even when the stall monitor fired, *)
(* or the complaint that no target answers was printed, while OpenOCD was     *)
(* finishing.  (A run that ended before accept() is a failure even with 0, and *)
(* one that complained of its target is repeated.)                            *)
NeverReflashed == [][Bridged /\ rc = "ok" => attemptNo' = attemptNo]_bridgeVars

(* A link that drops under a running OpenOCD ends it, without the timeout and *)
(* without the stall monitor (pod_to_oc terminates it).                       *)
DropEndsRun == (main = "waiting" /\ swdLink = "dropped") ~> (oc = "gone")

Over == main \in {"pausing", "returned"}

(* Once OpenOCD has connected, the timeout bounds the run, whatever OpenOCD   *)
(* and the pod do.                                                            *)
ConnectedRunEnds == WF_bridgeVars(Timeout) => (main = "waiting" ~> Over)

(* "timeout=300 bounds one OpenOCD run" (the SDK's README): the same of every *)
(* run from the moment OpenOCD is started.                                    *)
TimeoutBoundsRun == WF_bridgeVars(Timeout) => (oc = "running" ~> Over)
=============================================================================
