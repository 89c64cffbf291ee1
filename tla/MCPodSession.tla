---------------------------- MODULE MCPodSession ----------------------------
(***************************************************************************)
(* How a session holds a pod: one client's lease beside the web UI, the    *)
(* MCP server's connection with its idle timer, and the image and outputs  *)
(* of the pod it is connected to.  They share no state: a behaviour is a   *)
(* behaviour of one of them, chosen at the start, and the variables of the *)
(* others stay.                                                            *)
(***************************************************************************)
EXTENDS DeviceLease, McpSession, GatewareImage

VARIABLE part \* what runs

podSessionVars == <<part, vars, sessionVars, imageVars>>

PodSessionInit ==
    /\ part \in {"lease", "mcp", "image"}
    /\ Init /\ (part # "lease" => supported)
    /\ SessionInit
    /\ ImageInit /\ (part # "image" => image = "loop" /\ hasServer)

LeaseRuns == part = "lease" /\ UNCHANGED <<part, sessionVars, imageVars>>
McpRuns == part = "mcp" /\ UNCHANGED <<part, vars, imageVars>>
ImageRuns == part = "image" /\ UNCHANGED <<part, vars, sessionVars>>

PodSessionNext == (LeaseRuns /\ Next) \/ (McpRuns /\ SessionNext) \/ (ImageRuns /\ ImageNext)

(* Each part's own fairness. *)
PodSessionFairness ==
    /\ WF_podSessionVars(LeaseRuns /\ Tick)
    /\ \A c \in Clients : WF_podSessionVars(LeaseRuns /\ (Acquire(c) \/ Heartbeat(c) \/ Release(c)))
    /\ WF_podSessionVars(LeaseRuns /\ \E c \in Clients, op \in Ops : ServeLate(c, op))
    /\ WF_podSessionVars(McpRuns /\ TimePasses)
    /\ \A t \in Timers : WF_podSessionVars(McpRuns /\ TimerThread(t))
    /\ WF_podSessionVars(ImageRuns /\ Working)

PodSessionSpec == PodSessionInit /\ [][PodSessionNext]_podSessionVars /\ PodSessionFairness
=============================================================================
