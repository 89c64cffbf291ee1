--------------------------- MODULE GatewareImage ---------------------------
(***************************************************************************)
(* The FPGA image of a pod, what the client and the server believe of it,  *)
(* and the DAC outputs that need one image or the other                    *)
(* (BenchPod.capabilities, fpga_image, _ensure_image, control_loop, replay *)
(* and replay_waveform of embeddedci/benchpod/client.py, merge of          *)
(* capabilities.py, the handles of replay.py and control_loop.py).         *)
(*                                                                         *)
(* One client thread makes one call at a time.  Every command it sends can *)
(* fail, before the pod acted on it or after.  The server's parameters     *)
(* follow the pod when the pod announces itself again, at any later time.  *)
(* A capability is a flag; a set of flags is what a Capabilities object    *)
(* says.                                                                   *)
(***************************************************************************)
EXTENDS Integers

CONSTANT MaxHandles \* bound: outputs armed

Images == {"loop", "deep"}
(* What the pod's status reports on each image; "single" is a pod with one   *)
(* image, which announces neither feature.                                   *)
Flag(i) == IF i = "loop" THEN "dac_control_loop" ELSE "dac_deep_replay"
Flags(i) == {"dac_replay"} \cup (IF i = "single" THEN {} ELSE {Flag(i)})
AllFlags == {"dac_replay", "dac_control_loop", "dac_deep_replay"}
(* BenchPod._caps is None. *)
NotRead == {"not read"}

ASSUME GatewareAssumption == MaxHandles \in Nat

VARIABLES
    image,      \* what the pod's FPGA runs
    hasServer,  \* is there a server, and is the pod known to it by name?
    announced,  \* server: the capability flags it holds for the pod
    caps,       \* BenchPod._caps
    callPc,     \* where the client is in its call
    purpose,    \* loop, deep, short, library (replay_waveform), image (fpga_image)
    target,     \* the image it wants
    allowed,    \* switch_image
    playing,    \* pod: the output that is armed, 0 for none
    plays,      \* ... and what it plays: short, deep or loop
    handle,     \* what became of each output's handle
    stale,      \* history: _caps was read from a server that lagged, or outlived a switch
    unsure,     \* history: the flags the call went by were such, or of a failed status
    doubt       \* history: the armed output was armed on doubtful flags

podState == <<image, playing, plays, doubt>>
beliefs == <<caps, stale, unsure>>
request == <<purpose, target, allowed>>
imageVars == <<image, hasServer, announced, caps, callPc, purpose, target, allowed, playing, plays, handle,
               stale, unsure, doubt>>

Handles == 1..MaxHandles
Purposes == {"loop", "deep", "short", "library"}

ImageTypeOK ==
    /\ image \in Images \cup {"single"} /\ hasServer \in BOOLEAN
    /\ announced \subseteq AllFlags
    /\ caps \in (SUBSET AllFlags) \cup {NotRead}
    /\ callPc \in {"idle", "look", "ensure", "switching", "waiting", "arming"}
    /\ purpose \in Purposes \cup {"image"} /\ target \in Images /\ allowed \in BOOLEAN
    /\ playing \in Handles \cup {0} /\ plays \in {"short", "deep", "loop"}
    /\ handle \in [Handles -> {"none", "live", "lost", "stopped", "failed"}]
    /\ stale \in BOOLEAN /\ unsure \in BOOLEAN /\ doubt \in BOOLEAN

ImageInit ==
    /\ image \in Images \cup {"single"} /\ hasServer \in BOOLEAN
    /\ announced = Flags(image) /\ caps = NotRead
    /\ callPc = "idle" /\ purpose = "short" /\ target = "loop" /\ allowed = TRUE
    /\ playing = 0 /\ plays = "short"
    /\ handle = [h \in Handles |-> "none"]
    /\ stale = FALSE /\ unsure = FALSE /\ doubt = FALSE

-----------------------------------------------------------------------------
(* Capabilities *)

(* merge overlays what is not a default: a False flag of the server's does not *)
(* take back the status's True.                                                *)
Merge(own, other) == own \cup other

(* A status and the server's parameters, either of which may fail.  Without a *)
(* status nothing is kept.                                                    *)
FreshCaps(flags) ==
    \E status \in BOOLEAN, params \in BOOLEAN :
        LET lag == params /\ announced # Flags(image) IN
        /\ params => hasServer
        /\ flags = Merge(IF status THEN Flags(image) ELSE {},
                         IF params THEN announced ELSE {})
        /\ caps' = IF status THEN flags ELSE NotRead
        /\ stale' = (status /\ lag)
        /\ unsure' = (lag \/ ~status)

(* What the property `capabilities` returns. *)
ReadCaps(flags) ==
    \/ caps # NotRead /\ flags = caps /\ unsure' = stale /\ UNCHANGED <<caps, stale>>
    \/ caps = NotRead /\ FreshCaps(flags)

(* refresh_capabilities. *)
Refresh ==
    /\ callPc = "idle"
    /\ \E flags \in SUBSET AllFlags : FreshCaps(flags)
    /\ UNCHANGED <<podState, hasServer, announced, callPc, request, handle>>

Switchable(flags) == "dac_control_loop" \in flags \/ "dac_deep_replay" \in flags
(* The loop image accepts a deep replay and then outputs nothing. *)
NeedsDeep(flags) == "dac_replay" \in flags /\ "dac_deep_replay" \notin flags

(* The pod tells the server what it runs. *)
Announce ==
    /\ announced # Flags(image)
    /\ announced' = Flags(image)
    /\ UNCHANGED <<podState, hasServer, beliefs, callPc, request, handle>>

-----------------------------------------------------------------------------
(* A call, up to the image it needs *)

Call(k, switch) ==
    /\ callPc = "idle" /\ handle[MaxHandles] = "none"
    /\ k = "library" => hasServer
    /\ callPc' = IF k = "loop" THEN "ensure" ELSE "look"
    /\ purpose' = k /\ allowed' = switch
    /\ target' = IF k = "loop" THEN "loop" ELSE "deep"
    /\ UNCHANGED <<podState, hasServer, announced, beliefs, handle>>

(* fpga_image called by the user. *)
CallImage(i) ==
    /\ callPc = "idle"
    /\ callPc' = "switching" /\ purpose' = "image" /\ target' = i /\ allowed' = TRUE
    /\ UNCHANGED <<podState, hasServer, announced, beliefs, handle>>

(* _arm_replay, and replay_waveform before it asks the server. *)
AfterLook(flags) ==
    CASE purpose = "deep" /\ NeedsDeep(flags) ->
            IF Switchable(flags) THEN "ensure" ELSE "idle"
      [] purpose = "library" /\ NeedsDeep(flags) /\ allowed -> "ensure"
      [] OTHER -> "arming"
Look ==
    /\ callPc = "look"
    /\ \E flags \in SUBSET AllFlags : ReadCaps(flags) /\ callPc' = AfterLook(flags)
    /\ UNCHANGED <<podState, hasServer, announced, request, handle>>

Ensure ==
    /\ callPc = "ensure"
    /\ \E flags \in SUBSET AllFlags :
          /\ ReadCaps(flags)
          /\ callPc' = IF Flag(target) \in flags \/ ~Switchable(flags) THEN "arming"
                   ELSE IF allowed THEN "switching" ELSE "idle"
    /\ UNCHANGED <<podState, hasServer, announced, request, handle>>

(* The FPGA is reprogrammed with image i and reset, which ends any output. *)
Boot(i) ==
    /\ image # "single" /\ image' = i
    /\ playing' = 0 /\ UNCHANGED <<plays, doubt>>

(* a plausible bug: the old image's capabilities stay cached *)
ForgetNothing == UNCHANGED <<caps, stale>>

ForgetCaps == caps' = NotRead /\ stale' = FALSE

(* The reply's feature bits say that the image asked for has booted. *)
SwitchDone ==
    /\ callPc = "switching" /\ Boot(target)
    /\ ForgetCaps /\ unsure' = FALSE
    /\ callPc' = IF purpose = "image" THEN "idle" ELSE IF hasServer THEN "waiting" ELSE "arming"
    /\ UNCHANGED <<hasServer, announced, request, handle>>

(* a plausible bug: the feature bits are not looked at *)
SwitchWrongUnnoticed ==
    /\ callPc = "switching" /\ (\E i \in Images \ {target} : Boot(i))
    /\ ForgetCaps
    /\ callPc' = IF purpose = "image" THEN "idle" ELSE IF hasServer THEN "waiting" ELSE "arming"
    /\ UNCHANGED <<hasServer, announced, unsure, request, handle>>

(* They say that it has not: _ensure_image raises. *)
SwitchWrong ==
    /\ callPc = "switching" /\ (\E i \in Images \ {target} : Boot(i))
    /\ ForgetCaps
    /\ callPc' = "idle"
    /\ UNCHANGED <<hasServer, announced, unsure, request, handle>>

(* The command fails, before the pod switched or after: _caps is kept. *)
SwitchFails ==
    /\ callPc = "switching" /\ callPc' = "idle"
    /\ \/ UNCHANGED <<podState, stale>>
       \/ Boot(target) /\ stale' = (stale \/ image # target)
    /\ UNCHANGED <<hasServer, announced, caps, unsure, request, handle>>

(* _wait_for_server_caps: until the server shows the flag, or its deadline. *)
ServerSees ==
    /\ callPc = "waiting" /\ Flag(target) \in announced
    /\ ForgetCaps /\ callPc' = "arming"
    /\ UNCHANGED <<podState, hasServer, announced, unsure, request, handle>>

(* a plausible bug: no deadline *)
WaitForEver == FALSE

WaitEnds ==
    /\ callPc = "waiting"
    /\ ForgetCaps /\ callPc' = "arming"
    /\ UNCHANGED <<podState, hasServer, announced, unsure, request, handle>>

-----------------------------------------------------------------------------
(* The output *)

(* A pod off the loop image refuses a loop; one off the deep image accepts a   *)
(* deep replay all the same.                                                   *)
Accepts == purpose = "loop" => "dac_control_loop" \in Flags(image)

(* The server streams a whole recording only to a pod it believes deep. *)
Played ==
    IF purpose # "library" THEN purpose
    ELSE IF "dac_deep_replay" \in announced THEN "deep" ELSE "short"

(* The pod plays output h from now on, in place of any other. *)
Play(h) ==
    /\ Accepts
    /\ playing' = h /\ plays' = Played
    /\ doubt' = (unsure \/ (purpose = "library" /\ announced # Flags(image)))
    /\ UNCHANGED image

NextHandle(h) == handle[h] = "none" /\ \A g \in Handles : g < h => handle[g] # "none"

(* replay_waveform reads the capabilities once more for its handle. *)
Arm ==
    /\ callPc = "arming" /\ callPc' = "idle"
    /\ \E h \in Handles :
          NextHandle(h) /\ Play(h) /\ handle' = [handle EXCEPT ![h] = "live"]
    /\ IF purpose = "library" THEN \E flags \in SUBSET AllFlags : ReadCaps(flags)
                           ELSE UNCHANGED beliefs
    /\ UNCHANGED <<hasServer, announced, request>>

(* The pod refuses, or a command on the way fails; or it plays and only the    *)
(* reply is lost, and the caller has no handle.                                *)
ArmFails ==
    /\ callPc = "arming" /\ callPc' = "idle"
    /\ \/ UNCHANGED <<podState, handle>>
       \/ \E h \in Handles :
             NextHandle(h) /\ Play(h) /\ handle' = [handle EXCEPT ![h] = "lost"]
    /\ UNCHANGED <<hasServer, announced, beliefs, request>>

Silence == playing' = 0 /\ UNCHANGED <<image, plays, doubt>>

(* stop() of a handle silences the pod, whoever's output plays. *)
Stop(h) ==
    /\ callPc = "idle" /\ handle[h] = "live"
    /\ Silence /\ handle' = [handle EXCEPT ![h] = "stopped"]
    /\ UNCHANGED <<hasServer, announced, beliefs, callPc, request>>

(* a plausible bug: stop() swallows the error *)
StopFailsQuietly(h) ==
    /\ callPc = "idle" /\ handle[h] = "live"
    /\ Silence \/ UNCHANGED podState
    /\ handle' = [handle EXCEPT ![h] = "stopped"]
    /\ UNCHANGED <<hasServer, announced, beliefs, callPc, request>>

(* dac_stop raises.  The handle counts as stopped: another stop() does nothing *)
(* and sends nothing.                                                          *)
StopFails(h) ==
    /\ callPc = "idle" /\ handle[h] = "live"
    /\ Silence \/ UNCHANGED podState
    /\ handle' = [handle EXCEPT ![h] = "failed"]
    /\ UNCHANGED <<hasServer, announced, beliefs, callPc, request>>

-----------------------------------------------------------------------------
Working ==
    \/ Look \/ Ensure \/ SwitchDone \/ SwitchWrong \/ SwitchFails
    \/ ServerSees \/ WaitEnds \/ Arm \/ ArmFails

ImageNext ==
    \/ \E k \in Purposes, switch \in BOOLEAN : Call(k, switch)
    \/ \E i \in Images : CallImage(i)
    \/ Working \/ Announce \/ Refresh
    \/ \E h \in Handles : Stop(h) \/ StopFails(h)

(* The client's thread runs, and every command returns or times out.  The pod  *)
(* need not announce itself, and nobody has to stop an output.                 *)
ImageSafetySpec == ImageInit /\ [][ImageNext]_imageVars
ImageSpec == ImageSafetySpec /\ WF_imageVars(Working)
-----------------------------------------------------------------------------
(* Cached capabilities are those of the image that runs, however switches,     *)
(* failed reads and wrong boots follow each other, unless the server lagged    *)
(* when they were read or a switch's reply was lost: a failed status is never  *)
(* kept, and every switch the client knows of drops them.                      *)
CapsFollowImage == caps # NotRead /\ ~stale => caps = Flags(image)

(* A deep replay that plays on a pod off the deep image (which outputs         *)
(* nothing) was armed on flags that a lagging server, a lost reply or a failed *)
(* status gave: no order of calls, switches and stops leads there otherwise.   *)
Silent == playing # 0 /\ plays = "deep" /\ "dac_deep_replay" \notin Flags(image)
ArmedSuitsImage == Silent => doubt

(* Whatever was armed after it, an output whose handle's stop() returned is    *)
(* off, and an output that plays is known to its caller as live or by an error.*)
StoppedIsOff == playing # 0 => handle[playing] \in {"live", "lost", "failed"}

(* Every call returns or raises, also when the server never sees the image. *)
CallsReturn == callPc # "idle" ~> callPc = "idle"

(* "switch to the deep-replay image - or refuse - rather than arm a silent     *)
(* DAC" (_arm_replay).                                                         *)
NeverSilent == ~Silent
=============================================================================
