--------------------------- MODULE WiringProfile ---------------------------
(***************************************************************************)
(* The wiring profile of a bench: the one stored on the server for a       *)
(* device, edited there by others; the one a connection resolved once and  *)
(* goes by (BenchPod.wiring of client.py); and what an agent of the MCP    *)
(* server was told, through connects, idle releases and reconnects         *)
(* (session.py, the wiring and set_wiring tools of server.py).             *)
(***************************************************************************)
EXTENDS Integers

CONSTANTS
    Profiles,   \* profiles that are not the defaults
    MaxEdits    \* bound: edits in the web UI

ASSUME WiringAssumption == MaxEdits \in Nat

VARIABLES
    setting,    \* where a profile is looked up: "file" (the environment's), "local" or "server"
    named,      \* is the pod reached as a cloud device?
    stored,     \* the profile on the server
    edits,      \* edits so far
    podLink,    \* the session: "open", "idle" (reopens when used) or "closed"
    wired,      \* BenchPod._wiring
    wiredFrom,  \* its source
    told,       \* what the agent was last told of the profile
    reopened,   \* history: the connection was opened again since
    halfSet,    \* history: since then a set_wiring assigned the profile and then failed
    editedSince,\* history: the server's profile was edited since the connection has its own
    goneBy      \* history: the profile that the last omitted argument was taken from

wiringVars == <<setting, named, stored, edits, podLink, wired, wiredFrom, told, reopened, halfSet, editedSince, goneBy>>
agentVars == <<told, reopened, halfSet>>

Default == "defaults"
None == "none"
AnyProfile == Profiles \cup {Default}

WiringInit ==
    /\ setting \in {"file", "local", "server"} /\ named \in BOOLEAN
    /\ stored \in AnyProfile /\ edits = 0
    /\ podLink = "closed" /\ wired = None /\ wiredFrom = None
    /\ told = None /\ reopened = FALSE /\ halfSet = FALSE /\ editedSince = FALSE /\ goneBy = None

WebEdit(p) ==
    /\ edits < MaxEdits /\ edits' = edits + 1
    /\ stored' = p /\ editedSince' = TRUE
    /\ UNCHANGED <<setting, named, podLink, wired, wiredFrom, agentVars, goneBy>>

-----------------------------------------------------------------------------
(* The session *)

(* A new BenchPod has resolved nothing. *)
Fresh == podLink' = "open" /\ wired' = None /\ wiredFrom' = None /\ reopened' = TRUE

ConnectSession ==
    /\ Fresh
    /\ UNCHANGED <<setting, named, stored, edits, told, halfSet, editedSince, goneBy>>

(* _check_idle keeps the connection's address, not its profile. *)
IdleRelease ==
    /\ podLink = "open" /\ podLink' = "idle" /\ wired' = None /\ wiredFrom' = None
    /\ UNCHANGED <<setting, named, stored, edits, agentVars, editedSince, goneBy>>

DisconnectPod ==
    /\ podLink' = "closed" /\ wired' = None /\ wiredFrom' = None
    /\ UNCHANGED <<setting, named, stored, edits, agentVars, editedSince, goneBy>>

(* require() on a released connection opens it again. *)
RequirePod ==
    /\ podLink = "idle" /\ Fresh
    /\ UNCHANGED <<setting, named, stored, edits, told, halfSet, editedSince, goneBy>>

-----------------------------------------------------------------------------
(* BenchPod.wiring *)

(* _resolve_wiring: a lookup that fails in any way gives the defaults, and they    *)
(* stay for the connection.                                                        *)
ResolveProfile(reached) ==
    IF setting = "file" THEN wired' = "p_file" /\ wiredFrom' = "file"
    ELSE IF setting = "local" \/ ~reached THEN wired' = Default /\ wiredFrom' = "defaults"
    ELSE wired' = stored /\ wiredFrom' = "server"

Wiring(reached) ==
    IF wired = None
    THEN ResolveProfile(reached) /\ editedSince' = FALSE
    ELSE UNCHANGED <<wired, wiredFrom, editedSince>>

(* A tool with a channel, rail or rate left out takes it from the profile. *)
OmittedArgument(reached) ==
    /\ podLink = "open" /\ Wiring(reached)
    /\ goneBy' = wired'
    /\ UNCHANGED <<setting, named, stored, edits, podLink, agentVars>>

(* The wiring tool tells the agent. *)
WiringTool(reached) ==
    /\ podLink = "open" /\ Wiring(reached)
    /\ told' = wired' /\ reopened' = FALSE /\ halfSet' = FALSE /\ goneBy' = None
    /\ UNCHANGED <<setting, named, stored, edits, podLink>>

(* set_wiring assigns, ... *)
SetWiring(p) ==
    /\ podLink = "open"
    /\ wired' = p /\ wiredFrom' = "dict"
    /\ told' = p /\ reopened' = FALSE /\ halfSet' = FALSE /\ goneBy' = None
    /\ UNCHANGED <<setting, named, stored, edits, podLink, editedSince>>

(* ... and with save=true stores the profile on the server, which needs a device   *)
(* known there by name; a failure leaves what it assigned in use, and the PUT may  *)
(* have been served all the same.                                                  *)
SaveWiring(p, served, heard) ==
    /\ podLink = "open"
    /\ (served => named) /\ (heard => served)
    /\ wired' = p /\ wiredFrom' = IF heard THEN "server" ELSE "dict"
    /\ IF served THEN stored' = p /\ editedSince' = FALSE ELSE UNCHANGED <<stored, editedSince>>
    /\ IF heard THEN told' = p /\ reopened' = FALSE /\ halfSet' = FALSE
       ELSE halfSet' = TRUE /\ UNCHANGED <<told, reopened>>
    /\ goneBy' = None
    /\ UNCHANGED <<setting, named, edits, podLink>>

WiringNext ==
    \/ \E p \in AnyProfile : WebEdit(p) \/ SetWiring(p) \/ \E served, heard \in BOOLEAN : SaveWiring(p, served, heard)
    \/ \E reached \in BOOLEAN : OmittedArgument(reached) \/ WiringTool(reached)
    \/ ConnectSession \/ IdleRelease \/ DisconnectPod \/ RequirePod

WiringSpec == WiringInit /\ [][WiringNext]_wiringVars

-----------------------------------------------------------------------------
WiringsSeen == AnyProfile \cup {"p_file", None}

WiringTypeOK ==
    /\ setting \in {"file", "local", "server"} /\ named \in BOOLEAN /\ stored \in AnyProfile /\ edits \in 0 .. MaxEdits
    /\ podLink \in {"open", "idle", "closed"} /\ {wired, told, goneBy} \subseteq WiringsSeen
    /\ wiredFrom \in {"none", "file", "defaults", "server", "dict"}
    /\ {reopened, halfSet, editedSince} \subseteq BOOLEAN

(* An argument that an agent leaves out means what the agent was last told of the  *)
(* profile, whatever is edited on the server meanwhile: unless the connection was  *)
(* opened again since (an idle release drops a profile that set_wiring gave), or a *)
(* set_wiring(save=true) reported a failure after it had assigned the profile.     *)
UsedAsTold == goneBy # None /\ told # None => goneBy = told \/ reopened \/ halfSet

(* A profile that says it is the server's is the one stored there, if nobody       *)
(* edited it since, whatever became of a save before or between.                   *)
ServerMeansStored == wiredFrom = "server" /\ ~editedSince => wired = stored

WiringInv == WiringTypeOK /\ UsedAsTold /\ ServerMeansStored
=============================================================================
