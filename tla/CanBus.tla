------------------------------- MODULE CanBus -------------------------------
(***************************************************************************)
(* The CAN session of can.py, as the MCP tools can_open, can_read,         *)
(* can_respond and can_close drive it.  The pod keeps received frames in a *)
(* ring that can_read empties; what a call does not want stays in the      *)
(* handle's own buffer.  Frames are numbered in the order they arrive, so  *)
(* a buffer is a set and its order is the order of the numbers.            *)
(***************************************************************************)
EXTENDS Integers, FiniteSets

CONSTANTS
    MaxArrived, \* bound: frames on the bus in a run
    Wanted,     \* the frames that carry the id a call asks for
    RingSize,   \* the pod's ring
    PullMax,    \* max_frames of one can_read command (8 in the code)
    MaxRules    \* bound: responder rules in the pod's table

ASSUME CanAssumption ==
    /\ MaxArrived \in Nat /\ MaxRules \in Nat
    /\ RingSize \in Nat \ {0} /\ PullMax \in Nat \ {0}
    /\ Wanted \subseteq 1 .. MaxArrived

VARIABLES
    arrived,   \* frames that came from the bus
    ring,      \* the pod's software RX ring
    pending,   \* CanBus._pending
    out,       \* the list collect() is building
    returned,  \* frames handed to the caller
    gone,      \* history: frames nobody will see, by what became of them
    fdcan,     \* is FDCAN1 up
    rules,     \* number of responder rules on the pod
    leaked,    \* history: a clear of the rules failed, and none has worked since
    canPc,     \* where the one calling thread is
    canCall    \* filter and max_frames of the call under way

canVars == <<arrived, ring, pending, out, returned, gone, fdcan, rules, leaked, canPc, canCall>>

Frames == 1 .. MaxArrived
Fates == {"ring full", "reply lost", "filtered", "over max_frames", "raised", "closed"}

(* The n oldest frames of a buffer. *)
Oldest(buffer, n) == {f \in buffer : Cardinality({g \in buffer : g < f}) < n}

CanInit ==
    /\ arrived = 0 /\ ring = {} /\ pending = {} /\ out = {} /\ returned = {}
    /\ gone = [w \in Fates |-> {}]
    /\ fdcan = FALSE /\ rules = 0 /\ leaked = FALSE
    /\ canPc = "closed"
    /\ canCall = [filter |-> FALSE, max |-> 0]

Buffers == <<arrived, ring, pending, out, returned, gone>>
PodSide == <<fdcan, rules, leaked>>

-----------------------------------------------------------------------------
(* The pod *)

(* A frame arrives; a full ring drops it. *)
Arrive ==
    /\ fdcan /\ arrived < MaxArrived
    /\ arrived' = arrived + 1
    /\ IF Cardinality(ring) < RingSize
       THEN ring' = ring \cup {arrived + 1} /\ UNCHANGED gone
       ELSE gone' = [gone EXCEPT !["ring full"] = @ \cup {arrived + 1}] /\ UNCHANGED ring
    /\ UNCHANGED <<pending, out, returned, PodSide, canPc, canCall>>

(* A command is answered, or was run and its reply lost, or never got there. *)
Outcomes == {"ok", "lost", "failed"}
Ran(outcome) == outcome # "failed"

-----------------------------------------------------------------------------
(* Reading *)

Drained == Oldest(ring, PullMax)

(* A plausible bug: the drained frames take the place of the buffer. *)
PullReplaces(picked) ==
    /\ ring' = ring \ Drained
    /\ pending' = Drained \ picked

(* _pull: what the pod drained is put in the buffer. *)
Pull(picked) ==
    /\ ring' = ring \ Drained
    /\ pending' = (pending \cup Drained) \ picked

(* A call that raises; frames drained for a reply that is lost are gone, and   *)
(* so is what collect() had.                                                   *)
PullRaises(outcome) ==
    /\ outcome # "ok"
    /\ ring' = IF Ran(outcome) THEN ring \ Drained ELSE ring
    /\ gone' = [gone EXCEPT !["reply lost"] = @ \cup (ring \ ring'),
                            !["raised"] = @ \cup out]
    /\ out' = {}
    /\ canPc' = "open"
    /\ UNCHANGED <<arrived, pending, returned, PodSide, canCall>>

CallRead(pc, filter, max) ==
    /\ canPc = "open"
    /\ canPc' = pc
    /\ canCall' = [filter |-> filter, max |-> max]
    /\ UNCHANGED <<Buffers, PodSide>>

(* read(max_frames) *)
Read ==
    LET first == Oldest(pending \cup Drained, canCall.max) IN
    /\ canPc = "read"
    /\ Pull(first)
    /\ returned' = returned \cup first
    /\ canPc' = "open"
    /\ UNCHANGED <<arrived, out, gone, PodSide, canCall>>

(* read_until: the first match of the buffer leaves it. *)
Match ==
    LET match == Oldest(pending \cap Wanted, 1) IN
    /\ canPc = "until" /\ match # {}
    /\ pending' = pending \ match
    /\ returned' = returned \cup match
    /\ canPc' = "open"
    /\ UNCHANGED <<arrived, ring, out, gone, PodSide, canCall>>

(* ... and without one it pulls and looks again, *)
PullAgain ==
    /\ canPc = "until" /\ pending \cap Wanted = {}
    /\ Pull({})
    /\ UNCHANGED <<arrived, out, returned, gone, PodSide, canPc, canCall>>

(* ... or its time is up. *)
UntilTimesOut ==
    /\ canPc = "until" /\ pending \cap Wanted = {}
    /\ canPc' = "open"
    /\ UNCHANGED <<Buffers, PodSide, canCall>>

(* One turn of collect(): a read() of PullMax frames, of which it keeps those  *)
(* that match.                                                                 *)
Gather ==
    LET first == Oldest(pending \cup Drained, PullMax)
        kept == IF canCall.filter THEN first \cap Wanted ELSE first IN
    /\ canPc = "collect"
    /\ Pull(first)
    /\ out' = out \cup kept
    /\ gone' = [gone EXCEPT !["filtered"] = @ \cup (first \ kept)]
    /\ UNCHANGED <<arrived, returned, PodSide, canPc, canCall>>

(* collect() returns; the tool can_read cuts the list to max_frames. *)
Collected ==
    LET shown == Oldest(out, canCall.max) IN
    /\ canPc = "collect"
    /\ returned' = returned \cup shown
    /\ gone' = [gone EXCEPT !["over max_frames"] = @ \cup (out \ shown)]
    /\ out' = {}
    /\ canPc' = "open"
    /\ UNCHANGED <<arrived, ring, pending, PodSide, canCall>>

-----------------------------------------------------------------------------
(* Responder rules *)

(* can_respond: one rule more, though its reply may be lost. *)
AddResponder(outcome) ==
    /\ canPc \in {"open", "ecu"} /\ rules < MaxRules
    /\ rules' = IF Ran(outcome) THEN rules + 1 ELSE rules
    /\ canPc' = IF outcome = "ok" THEN canPc ELSE "open"
    /\ UNCHANGED <<Buffers, fdcan, leaked, canCall>>

Clear(outcome) ==
    /\ rules' = IF Ran(outcome) THEN 0 ELSE rules
    /\ leaked' = (leaked /\ ~Ran(outcome))

ClearResponders(outcome) ==
    /\ canPc = "open"
    /\ Clear(outcome)
    /\ UNCHANGED <<Buffers, fdcan, canPc, canCall>>

(* simulate_ecu clears the table, then adds rule by rule. *)
SimulateEcu(outcome) ==
    /\ canPc = "open"
    /\ Clear(outcome)
    /\ canPc' = IF outcome = "ok" THEN "ecu" ELSE "open"
    /\ UNCHANGED <<Buffers, fdcan, canCall>>

EcuDone ==
    /\ canPc = "ecu"
    /\ canPc' = "open"
    /\ UNCHANGED <<Buffers, PodSide, canCall>>

-----------------------------------------------------------------------------
(* Opening and closing *)

(* close_can, and can_open, which closes the session that is open first. *)
CanClose(then) ==
    /\ canPc = "open"
    /\ canPc' = then
    /\ UNCHANGED <<Buffers, PodSide, canCall>>

AfterDisable == [clear |-> "disable", reclear |-> "redisable",
                 disable |-> "closed", redisable |-> "config"]

(* close() clears the rules first, and goes on whatever came of it. *)
CloseClears(outcome) ==
    /\ canPc \in {"clear", "reclear"}
    /\ rules' = IF Ran(outcome) THEN 0 ELSE rules
    /\ leaked' = ((leaked \/ rules > 0) /\ ~Ran(outcome))
    /\ canPc' = AfterDisable[canPc]
    /\ UNCHANGED <<Buffers, fdcan, canCall>>

(* can_disable; the handle, and the frames in its buffer, are dropped. *)
CloseDisables(outcome) ==
    /\ canPc \in {"disable", "redisable"}
    /\ fdcan' = (fdcan /\ ~Ran(outcome))
    /\ gone' = [gone EXCEPT !["closed"] = @ \cup pending]
    /\ pending' = {}
    /\ canPc' = AfterDisable[canPc]
    /\ UNCHANGED <<arrived, ring, out, returned, rules, leaked, canCall>>

CanOpen ==
    /\ canPc = "closed"
    /\ canPc' = "config"
    /\ UNCHANGED <<Buffers, PodSide, canCall>>

(* can_config brings FDCAN up; the ring may or may not start empty. *)
Configure(outcome) ==
    /\ canPc = "config"
    /\ fdcan' = (fdcan \/ Ran(outcome))
    /\ ring' \in IF Ran(outcome) THEN {ring, {}} ELSE {ring}
    /\ gone' = [gone EXCEPT !["closed"] = @ \cup (ring \ ring')]
    /\ canPc' = IF outcome = "ok" THEN "open" ELSE "closed"
    /\ UNCHANGED <<arrived, pending, out, returned, rules, leaked, canCall>>

-----------------------------------------------------------------------------
CanRead ==
    \/ \E max \in {1, PullMax, MaxArrived} : CallRead("read", FALSE, max)
    \/ CallRead("until", TRUE, 1)
    \/ \E filter \in BOOLEAN, max \in {1, MaxArrived} : CallRead("collect", filter, max)
    \/ Read \/ Match \/ PullAgain \/ UntilTimesOut \/ Gather \/ Collected
    \/ \E o \in Outcomes :
          \/ canPc \in {"read", "collect"} /\ PullRaises(o)
          \/ canPc = "until" /\ pending \cap Wanted = {} /\ PullRaises(o)

CanSession ==
    \/ CanOpen \/ CanClose("clear") \/ CanClose("reclear") \/ EcuDone
    \/ \E o \in Outcomes :
          AddResponder(o) \/ ClearResponders(o) \/ SimulateEcu(o)
              \/ CloseClears(o) \/ CloseDisables(o) \/ Configure(o)

CanNext == Arrive \/ CanRead \/ CanSession

CanSpec == CanInit /\ [][CanNext]_canVars

-----------------------------------------------------------------------------
CanTypeOK ==
    /\ arrived \in 0 .. MaxArrived
    /\ ring \in SUBSET Frames /\ pending \in SUBSET Frames
    /\ out \in SUBSET Frames /\ returned \in SUBSET Frames
    /\ gone \in [Fates -> SUBSET Frames]
    /\ fdcan \in BOOLEAN /\ rules \in 0 .. MaxRules /\ leaked \in BOOLEAN
    /\ canPc \in {"closed", "config", "open", "read", "until", "collect", "ecu",
                  "clear", "reclear", "disable", "redisable"}
    /\ canCall \in [filter : BOOLEAN, max : Nat]

Lost == UNION {gone[w] : w \in Fates}

(* A destructive can_read loses nothing by itself: every frame that came is in *)
(* the ring, in the buffer, in the list being collected or with the caller, or *)
(* was lost in one of the ways named in Fates, and it is in one place only, so *)
(* that no frame is returned twice (can.py, the comment on _pending).          *)
FramesAccounted ==
    /\ 1 .. arrived = ring \cup pending \cup out \cup returned \cup Lost
    /\ ring \cap (pending \cup out \cup returned \cup Lost) = {}
    /\ pending \cap (out \cup returned \cup Lost) = {}
    /\ out \cap (returned \cup Lost) = {}
    /\ returned \cap Lost = {}

(* Frames come out in the order they came in: only one that a call asked for   *)
(* by its id passes older ones, and the buffer is older than the ring.         *)
NoOvertaking ==
    /\ \A p \in pending, r \in ring : p < r
    /\ \A f \in out \cup returned, older \in pending \cup ring :
          older < f => f \in Wanted

(* A session leaves no responder rule to whoever uses the pod next, unless the *)
(* clear in close() failed (can.py, the comment in close).                     *)
Shut == {"closed", "config", "disable", "redisable"}
RulesGoWithBus == canPc \in Shut /\ ~leaked => rules = 0

(* What a session on the bus keeps, inductive as it stands.                    *)
CanInv == CanTypeOK /\ FramesAccounted /\ NoOvertaking /\ RulesGoWithBus
=============================================================================
