------------------------ MODULE GatewareImageProofs ------------------------
(***************************************************************************)
(* For any number of outputs: GatewareImage's type invariant, its cached   *)
(* capabilities follow the image, a deep replay is silent only when it was *)
(* armed on doubtful flags, and a stopped output is off.                   *)
(***************************************************************************)
EXTENDS GatewareImage, TLAPS

(* A pod with one image never offers the other one, to server or client. *)
OneImage ==
    image = "single" =>
        /\ announced = {"dac_replay"}
        /\ caps = NotRead \/ caps \subseteq {"dac_replay"}
        /\ ~(callPc = "ensure" /\ purpose = "deep")

(* What the steps of a call have established when the next one starts. *)
DeepTarget ==
    /\ purpose = "deep" => target = "deep"
    /\ purpose = "image" => callPc \in {"idle", "switching"}
WaitsOnTarget == callPc = "waiting" => image = target
ArmsOnDeep == callPc = "arming" /\ purpose = "deep" /\ ~unsure => image = "deep"

IInv ==
    /\ ImageTypeOK /\ CapsFollowImage /\ ArmedSuitsImage
    /\ OneImage /\ DeepTarget /\ WaitsOnTarget /\ ArmsOnDeep

LEMMA InitIInv == ImageInit => IInv
<1> SUFFICES ASSUME ImageInit PROVE IInv
  OBVIOUS
<1>1. ImageTypeOK
  <2>1. hasServer \in BOOLEAN /\ allowed \in BOOLEAN /\ stale \in BOOLEAN /\ unsure \in BOOLEAN
        /\ doubt \in BOOLEAN
    BY Zenon DEF ImageInit
  <2>2. handle \in [Handles -> {"none", "live", "lost", "stopped", "failed"}]
    BY DEF ImageInit
  <2>3. announced \subseteq AllFlags
    BY DEF ImageInit, Images, AllFlags, Flags, Flag
  <2> QED BY <2>1, <2>2, <2>3 DEF ImageInit, ImageTypeOK, Images, Purposes
<1>2. CapsFollowImage /\ ArmedSuitsImage
  BY DEF ImageInit, CapsFollowImage, ArmedSuitsImage, Silent
<1>3. OneImage /\ DeepTarget /\ WaitsOnTarget /\ ArmsOnDeep
  BY DEF ImageInit, OneImage, DeepTarget, WaitsOnTarget, ArmsOnDeep, Flags, Flag
<1> QED BY <1>1, <1>2, <1>3 DEF IInv

(* Reading the capabilities: what they are when nothing cast doubt on them. *)
LEMMA FreshCapsLemma ==
    ASSUME OneImage, NEW flags \in SUBSET AllFlags, FreshCaps(flags)
    PROVE  /\ caps' \in (SUBSET AllFlags) \cup {NotRead}
           /\ stale' \in BOOLEAN /\ unsure' \in BOOLEAN
           /\ caps' # NotRead /\ ~stale' => caps' = Flags(image)
           /\ ~unsure' => flags = Flags(image)
           /\ image = "single" => /\ flags \subseteq {"dac_replay"}
                                  /\ caps' = NotRead \/ caps' \subseteq {"dac_replay"}
<1>1. PICK status \in BOOLEAN, params \in BOOLEAN :
             /\ flags = Merge(IF status THEN Flags(image) ELSE {},
                              IF params THEN announced ELSE {})
             /\ caps' = IF status THEN flags ELSE NotRead
             /\ stale' = (status /\ params /\ announced # Flags(image))
             /\ unsure' = ((params /\ announced # Flags(image)) \/ ~status)
  BY DEF FreshCaps
<1>2. caps' \in (SUBSET AllFlags) \cup {NotRead} /\ stale' \in BOOLEAN /\ unsure' \in BOOLEAN
  BY <1>1
<1>3. status /\ ~(params /\ announced # Flags(image)) => flags = Flags(image)
  BY <1>1 DEF Merge
<1>4. image = "single" => flags \subseteq {"dac_replay"}
  BY <1>1 DEF Merge, Flags, OneImage
<1> QED BY <1>1, <1>2, <1>3, <1>4

LEMMA ReadCapsLemma ==
    ASSUME ImageTypeOK, CapsFollowImage, OneImage, NEW flags \in SUBSET AllFlags, ReadCaps(flags)
    PROVE  /\ caps' \in (SUBSET AllFlags) \cup {NotRead}
           /\ stale' \in BOOLEAN /\ unsure' \in BOOLEAN
           /\ caps' # NotRead /\ ~stale' => caps' = Flags(image)
           /\ ~unsure' => flags = Flags(image)
           /\ image = "single" => /\ flags \subseteq {"dac_replay"}
                                  /\ caps' = NotRead \/ caps' \subseteq {"dac_replay"}
<1>1. CASE caps # NotRead /\ flags = caps /\ unsure' = stale /\ UNCHANGED <<caps, stale>>
  BY <1>1 DEF ImageTypeOK, CapsFollowImage, OneImage
<1>2. CASE caps = NotRead /\ FreshCaps(flags)
  BY <1>2, FreshCapsLemma
<1> QED BY <1>1, <1>2 DEF ReadCaps

-----------------------------------------------------------------------------
(* What a step leaves as it was when it neither switches, reads nor arms. *)
LEMMA IdleIInv ==
    ASSUME IInv, UNCHANGED <<image, caps, stale, unsure, playing, plays, doubt>>,
           UNCHANGED <<hasServer, announced, handle>>,
           callPc' = "idle" \/ callPc' \in {"look", "switching"} \/ (callPc' = "ensure" /\ purpose' # "deep"),
           purpose' \in Purposes \cup {"image"}, target' \in Images, allowed' \in BOOLEAN,
           DeepTarget'
    PROVE  IInv'
<1>1. ImageTypeOK'
  BY DEF IInv, ImageTypeOK
<1>2. CapsFollowImage' /\ ArmedSuitsImage'
  BY DEF IInv, CapsFollowImage, ArmedSuitsImage, Silent
<1>3. OneImage' /\ WaitsOnTarget' /\ ArmsOnDeep'
  BY DEF IInv, OneImage, WaitsOnTarget, ArmsOnDeep
<1> QED BY <1>1, <1>2, <1>3 DEF IInv

LEMMA CallIInv ==
    ASSUME IInv, NEW k \in Purposes, NEW switch \in BOOLEAN, Call(k, switch)
    PROVE  IInv'
BY IdleIInv DEF Call, podState, beliefs, Purposes, Images, DeepTarget

LEMMA CallImageIInv ==
    ASSUME IInv, NEW i \in Images, CallImage(i)
    PROVE  IInv'
BY IdleIInv DEF CallImage, podState, beliefs, DeepTarget

LEMMA AnnounceIInv ==
    ASSUME IInv, Announce
    PROVE  IInv'
<1> USE DEF IInv, Announce, podState, beliefs, request
<1>1. ImageTypeOK'
  BY DEF ImageTypeOK, Flags, Flag, AllFlags
<1>2. CapsFollowImage' /\ ArmedSuitsImage'
  BY DEF CapsFollowImage, ArmedSuitsImage, Silent
<1>3. OneImage' /\ DeepTarget' /\ WaitsOnTarget' /\ ArmsOnDeep'
  BY DEF OneImage, DeepTarget, WaitsOnTarget, ArmsOnDeep, Flags
<1> QED BY <1>1, <1>2, <1>3

LEMMA RefreshIInv ==
    ASSUME IInv, Refresh
    PROVE  IInv'
<1>1. PICK flags \in SUBSET AllFlags : FreshCaps(flags)
  BY DEF Refresh
<1> USE DEF IInv, Refresh, podState, request
<1>2. /\ caps' \in (SUBSET AllFlags) \cup {NotRead} /\ stale' \in BOOLEAN /\ unsure' \in BOOLEAN
      /\ caps' # NotRead /\ ~stale' => caps' = Flags(image)
      /\ image = "single" => caps' = NotRead \/ caps' \subseteq {"dac_replay"}
  BY <1>1, FreshCapsLemma
<1>3. ImageTypeOK'
  BY <1>2 DEF ImageTypeOK
<1>4. CapsFollowImage' /\ ArmedSuitsImage'
  BY <1>2 DEF CapsFollowImage, ArmedSuitsImage, Silent
<1>5. OneImage' /\ DeepTarget' /\ WaitsOnTarget' /\ ArmsOnDeep'
  BY <1>2 DEF OneImage, DeepTarget, WaitsOnTarget, ArmsOnDeep
<1> QED BY <1>3, <1>4, <1>5

(* The flags are the image's, so a deep replay that needs no switch, or cannot *)
(* have one, finds the deep image or is refused.                               *)
LEMMA LookIInv ==
    ASSUME IInv, Look
    PROVE  IInv'
<1>1. PICK flags \in SUBSET AllFlags : ReadCaps(flags) /\ callPc' = AfterLook(flags)
  BY DEF Look
<1> USE DEF IInv, Look, podState, request
<1>2. /\ caps' \in (SUBSET AllFlags) \cup {NotRead} /\ stale' \in BOOLEAN /\ unsure' \in BOOLEAN
      /\ caps' # NotRead /\ ~stale' => caps' = Flags(image)
      /\ ~unsure' => flags = Flags(image)
      /\ image = "single" => /\ flags \subseteq {"dac_replay"}
                             /\ caps' = NotRead \/ caps' \subseteq {"dac_replay"}
  BY <1>1, ReadCapsLemma
<1>3. ImageTypeOK'
  BY <1>1, <1>2 DEF ImageTypeOK, AfterLook
<1>4. CapsFollowImage' /\ ArmedSuitsImage'
  BY <1>2 DEF CapsFollowImage, ArmedSuitsImage, Silent
<1>5. OneImage'
  BY <1>1, <1>2 DEF OneImage, AfterLook, Switchable
<1>6. DeepTarget' /\ WaitsOnTarget'
  BY <1>1 DEF DeepTarget, WaitsOnTarget, AfterLook
<1>7. ArmsOnDeep'
  BY <1>1, <1>2 DEF ArmsOnDeep, AfterLook, NeedsDeep, Flags, Flag, ImageTypeOK, Images
<1> QED BY <1>3, <1>4, <1>5, <1>6, <1>7

LEMMA EnsureIInv ==
    ASSUME IInv, Ensure
    PROVE  IInv'
<1>1. PICK flags \in SUBSET AllFlags :
          /\ ReadCaps(flags)
          /\ callPc' = IF Flag(target) \in flags \/ ~Switchable(flags) THEN "arming"
                   ELSE IF allowed THEN "switching" ELSE "idle"
  BY DEF Ensure
<1> USE DEF IInv, Ensure, podState, request
<1>2. /\ caps' \in (SUBSET AllFlags) \cup {NotRead} /\ stale' \in BOOLEAN /\ unsure' \in BOOLEAN
      /\ caps' # NotRead /\ ~stale' => caps' = Flags(image)
      /\ ~unsure' => flags = Flags(image)
      /\ image = "single" => caps' = NotRead \/ caps' \subseteq {"dac_replay"}
  BY <1>1, ReadCapsLemma
<1>3. ImageTypeOK'
  BY <1>1, <1>2 DEF ImageTypeOK
<1>4. CapsFollowImage' /\ ArmedSuitsImage'
  BY <1>2 DEF CapsFollowImage, ArmedSuitsImage, Silent
<1>5. OneImage' /\ DeepTarget' /\ WaitsOnTarget'
  BY <1>1, <1>2 DEF OneImage, DeepTarget, WaitsOnTarget
<1>6. ArmsOnDeep'
  BY <1>1, <1>2 DEF ArmsOnDeep, DeepTarget, OneImage, Switchable, Flags, Flag, ImageTypeOK, Images
<1> QED BY <1>3, <1>4, <1>5, <1>6

LEMMA SwitchIInv ==
    ASSUME IInv, SwitchDone \/ SwitchWrong \/ SwitchFails
    PROVE  IInv'
<1> USE DEF IInv, podState, request, Boot, ForgetCaps
<1>1. CASE SwitchDone
  <2>1. ImageTypeOK' /\ CapsFollowImage'
    BY <1>1 DEF SwitchDone, ImageTypeOK, CapsFollowImage
  <2>2. ArmedSuitsImage' /\ OneImage' /\ DeepTarget' /\ WaitsOnTarget' /\ ArmsOnDeep'
    BY <1>1 DEF SwitchDone, ImageTypeOK, Images, ArmedSuitsImage, Silent, OneImage, DeepTarget,
                WaitsOnTarget, ArmsOnDeep
  <2> QED BY <2>1, <2>2
<1>2. CASE SwitchWrong
  <2>1. ImageTypeOK' /\ CapsFollowImage'
    BY <1>2 DEF SwitchWrong, ImageTypeOK, CapsFollowImage
  <2>2. ArmedSuitsImage' /\ OneImage' /\ DeepTarget' /\ WaitsOnTarget' /\ ArmsOnDeep'
    BY <1>2 DEF SwitchWrong, ImageTypeOK, Images, ArmedSuitsImage, Silent, OneImage, DeepTarget,
                WaitsOnTarget, ArmsOnDeep
  <2> QED BY <2>1, <2>2
<1>3. CASE SwitchFails
  <2>1. ImageTypeOK'
    BY <1>3 DEF SwitchFails, ImageTypeOK
  <2>2. CapsFollowImage'
    BY <1>3 DEF SwitchFails, ImageTypeOK, CapsFollowImage
  <2>3. ArmedSuitsImage' /\ OneImage' /\ DeepTarget' /\ WaitsOnTarget' /\ ArmsOnDeep'
    BY <1>3 DEF SwitchFails, ImageTypeOK, Images, ArmedSuitsImage, Silent, OneImage, DeepTarget,
                WaitsOnTarget, ArmsOnDeep
  <2> QED BY <2>1, <2>2, <2>3
<1> QED BY <1>1, <1>2, <1>3

LEMMA WaitIInv ==
    ASSUME IInv, ServerSees \/ WaitEnds
    PROVE  IInv'
<1> USE DEF IInv, podState, request, ForgetCaps, ServerSees, WaitEnds
<1>1. ImageTypeOK' /\ CapsFollowImage'
  BY DEF ImageTypeOK, CapsFollowImage
<1>2. ArmedSuitsImage' /\ OneImage' /\ DeepTarget' /\ WaitsOnTarget' /\ ArmsOnDeep'
  BY DEF ArmedSuitsImage, Silent, OneImage, DeepTarget, WaitsOnTarget, ArmsOnDeep
<1> QED BY <1>1, <1>2

(* What plays from now on: a deep replay off the deep image is a doubtful one. *)
LEMMA PlayLemma ==
    ASSUME IInv, callPc = "arming", NEW h \in Handles, Play(h)
    PROVE  /\ playing' \in Handles /\ plays' \in {"short", "deep", "loop"} /\ doubt' \in BOOLEAN
           /\ image' = image
           /\ plays' = "deep" /\ ~doubt' => image = "deep"
<1>1. doubt' = (unsure \/ (purpose = "library" /\ announced # Flags(image))) /\ plays' = Played
      /\ playing' = h /\ image' = image
  BY DEF Play
<1>2. doubt' \in BOOLEAN
  BY <1>1
<1>3. plays' \in {"short", "deep", "loop"}
  BY <1>1 DEF Played, IInv, ImageTypeOK, Purposes, DeepTarget
<1>4. plays' = "deep" /\ ~doubt' => image = "deep"
  <2>1. CASE purpose = "library"
    <3>1. ~doubt' => announced = Flags(image)
      BY <1>1, <2>1, Zenon
    <3>2. plays' = "deep" => "dac_deep_replay" \in announced
      BY <1>1, <2>1 DEF Played
    <3>3. "dac_deep_replay" \in Flags(image) => image = "deep"
      BY DEF Flags, Flag, IInv, ImageTypeOK, Images
    <3> QED BY <3>1, <3>2, <3>3
  <2>2. CASE purpose # "library"
    BY <1>1, <2>2 DEF Played, IInv, ArmsOnDeep
  <2> QED BY <2>1, <2>2
<1> QED BY <1>1, <1>2, <1>3, <1>4

LEMMA ArmIInv ==
    ASSUME IInv, Arm
    PROVE  IInv'
<1>1. PICK h \in Handles :
          NextHandle(h) /\ Play(h) /\ handle' = [handle EXCEPT ![h] = "live"]
  BY DEF Arm
<1>2. /\ playing' \in Handles /\ plays' \in {"short", "deep", "loop"} /\ doubt' \in BOOLEAN
      /\ image' = image
      /\ plays' = "deep" /\ ~doubt' => image = "deep"
  BY <1>1, PlayLemma DEF Arm
<1>3. /\ caps' \in (SUBSET AllFlags) \cup {NotRead} /\ stale' \in BOOLEAN /\ unsure' \in BOOLEAN
      /\ caps' # NotRead /\ ~stale' => caps' = Flags(image)
      /\ image = "single" => caps' = NotRead \/ caps' \subseteq {"dac_replay"}
  <2>1. CASE purpose = "library"
    BY <2>1, ReadCapsLemma DEF Arm, IInv
  <2>2. CASE purpose # "library"
    BY <2>2 DEF Arm, beliefs, IInv, ImageTypeOK, CapsFollowImage, OneImage
  <2> QED BY <2>1, <2>2
<1> USE DEF IInv, Arm, request
<1>4. ImageTypeOK'
  BY <1>1, <1>2, <1>3 DEF ImageTypeOK
<1>5. CapsFollowImage' /\ OneImage' /\ DeepTarget' /\ WaitsOnTarget' /\ ArmsOnDeep'
  BY <1>2, <1>3 DEF CapsFollowImage, OneImage, DeepTarget, WaitsOnTarget, ArmsOnDeep
<1>6. ArmedSuitsImage'
  BY <1>2 DEF ArmedSuitsImage, Silent, Flags, Flag
<1> QED BY <1>4, <1>5, <1>6

LEMMA ArmFailsIInv ==
    ASSUME IInv, ArmFails
    PROVE  IInv'
<1>1. /\ playing' \in Handles \cup {0} /\ plays' \in {"short", "deep", "loop"}
      /\ doubt' \in BOOLEAN /\ image' = image
      /\ playing' # 0 /\ plays' = "deep" /\ ~doubt' => image = "deep"
      /\ handle' \in [Handles -> {"none", "live", "lost", "stopped", "failed"}]
  <2>1. CASE UNCHANGED <<podState, handle>>
    BY <2>1 DEF podState, IInv, ImageTypeOK, ArmedSuitsImage, Silent, Flags, Flag, Images
  <2>2. CASE \E h \in Handles :
                NextHandle(h) /\ Play(h) /\ handle' = [handle EXCEPT ![h] = "lost"]
    BY <2>2, PlayLemma DEF ArmFails, IInv, ImageTypeOK
  <2> QED BY <2>1, <2>2 DEF ArmFails
<1> USE DEF IInv, ArmFails, request, beliefs
<1>2. ImageTypeOK'
  BY <1>1 DEF ImageTypeOK
<1>3. CapsFollowImage' /\ OneImage' /\ DeepTarget' /\ WaitsOnTarget' /\ ArmsOnDeep'
  BY <1>1 DEF CapsFollowImage, OneImage, DeepTarget, WaitsOnTarget, ArmsOnDeep
<1>4. ArmedSuitsImage'
  BY <1>1 DEF ArmedSuitsImage, Silent, Flags, Flag
<1> QED BY <1>2, <1>3, <1>4

LEMMA StopIInv ==
    ASSUME IInv, NEW h \in Handles, Stop(h) \/ StopFails(h)
    PROVE  IInv'
<1> USE DEF IInv, Stop, StopFails, request, beliefs, podState, Silence
<1>1. ImageTypeOK'
  BY DEF ImageTypeOK
<1>2. CapsFollowImage' /\ ArmedSuitsImage'
  BY DEF CapsFollowImage, ArmedSuitsImage, Silent
<1>3. OneImage' /\ DeepTarget' /\ WaitsOnTarget' /\ ArmsOnDeep'
  BY DEF OneImage, DeepTarget, WaitsOnTarget, ArmsOnDeep
<1> QED BY <1>1, <1>2, <1>3

LEMMA StutterIInv == IInv /\ UNCHANGED imageVars => IInv'
BY DEF IInv, imageVars, ImageTypeOK, CapsFollowImage, ArmedSuitsImage, Silent, OneImage, DeepTarget,
       WaitsOnTarget, ArmsOnDeep

(* The strengthening above is inductive. *)
THEOREM Inductive == ImageSafetySpec => []IInv
<1>1. IInv /\ [ImageNext]_imageVars => IInv'
  BY CallIInv, CallImageIInv, AnnounceIInv, RefreshIInv, LookIInv, EnsureIInv, SwitchIInv,
     WaitIInv, ArmIInv, ArmFailsIInv, StopIInv, StutterIInv DEF ImageNext, Working
<1> QED BY <1>1, InitIInv, PTL DEF ImageSafetySpec

-----------------------------------------------------------------------------
(* Every value has its type; only outputs play. *)
THEOREM Typed == ImageSafetySpec => []ImageTypeOK
<1>1. IInv => ImageTypeOK
  BY DEF IInv
<1> QED BY <1>1, Inductive, PTL

(* The flags BenchPod keeps are those of the image that runs, unless a lagging *)
(* server gave them or a switch whose reply was lost outdated them.            *)
THEOREM CachedCapsFollow == ImageSafetySpec => []CapsFollowImage
<1>1. IInv => CapsFollowImage
  BY DEF IInv
<1> QED BY <1>1, Inductive, PTL

(* A deep replay plays on a pod off the deep image only when _arm_replay, or    *)
(* the server, went by flags that were not the image's own.                     *)
THEOREM DeepReplayIsHeard == ImageSafetySpec => []ArmedSuitsImage
<1>1. IInv => ArmedSuitsImage
  BY DEF IInv
<1> QED BY <1>1, Inductive, PTL

(* Stopping and arming keep StoppedIsOff, and nothing else starts an output or  *)
(* touches a handle.                                                            *)
LEMMA OutputStep == IInv /\ StoppedIsOff /\ [ImageNext]_imageVars => StoppedIsOff'
<1> SUFFICES ASSUME ImageTypeOK, StoppedIsOff, [ImageNext]_imageVars PROVE StoppedIsOff'
  BY DEF IInv
<1>1. ASSUME NEW h \in Handles, handle' = [handle EXCEPT ![h] = "live"] \/ handle' = [handle EXCEPT ![h] = "lost"],
             playing' = h
      PROVE  StoppedIsOff'
  BY <1>1 DEF StoppedIsOff, ImageTypeOK
<1>2. CASE Arm \/ ArmFails
  BY <1>1, <1>2 DEF Arm, ArmFails, Play, StoppedIsOff, podState
<1>3. ASSUME NEW h \in Handles, Stop(h) \/ StopFails(h) PROVE StoppedIsOff'
  BY <1>3 DEF Stop, StopFails, Silence, StoppedIsOff, ImageTypeOK, podState, Handles
<1>4. CASE SwitchDone \/ SwitchWrong \/ SwitchFails
  BY <1>4 DEF SwitchDone, SwitchWrong, SwitchFails, Boot, StoppedIsOff, podState
<1>5. CASE \/ Look \/ Ensure \/ ServerSees \/ WaitEnds \/ Announce \/ Refresh \/ UNCHANGED imageVars
           \/ (\E k \in Purposes, switch \in BOOLEAN : Call(k, switch)) \/ (\E i \in Images : CallImage(i))
  BY <1>5 DEF Look, Ensure, ServerSees, WaitEnds, Announce, Refresh, imageVars, Call, CallImage, podState, StoppedIsOff
<1> QED BY <1>2, <1>3, <1>4, <1>5 DEF ImageNext, Working

(* An output whose stop() returned is off, and one that plays is known to its  *)
(* caller, for any number of outputs armed over one another (ReplayHandle and  *)
(* LoopHandle).                                                                *)
THEOREM StoppedOutputsAreOff == ImageSafetySpec => []StoppedIsOff
<1>1. ImageInit => StoppedIsOff
  BY DEF ImageInit, StoppedIsOff
<1> QED BY <1>1, OutputStep, Inductive, PTL DEF ImageSafetySpec
=============================================================================
