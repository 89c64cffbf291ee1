---------------------------- MODULE BenchFixtures ----------------------------
(***************************************************************************)
(* A pytest session on a bench (pytest_plugin.py): the session fixtures    *)
(* that lift the DAC limits and connect the pod, the fixtures of a test,   *)
(* and their teardown, with commands that fail or whose reply is lost and  *)
(* sessions that are killed.  What may be left behind on the pod is the    *)
(* state: its DAC limits, driven pins, the target's rail, a running DAC    *)
(* output, an emulated sensor, a waveform in the cloud library that the    *)
(* fixture knows of, and litter: one that it does not.                     *)
(***************************************************************************)
EXTENDS Integers, FiniteSets

CONSTANTS MaxSessions, MaxTests \* bounds: sessions in a run, tests in a session

ASSUME FixtureAssumption == MaxSessions \in Nat /\ MaxTests \in Nat

VARIABLES
    left,     \* what is not as the bench was found
    excused,  \* history: of it, what a failed command or a kill explains
    saved,    \* _benchpod_lift_dac_limits remembers the limits
    released, \* history: this session's first release_gpio worked
    inUse,    \* the fixtures of the test under way, still to be torn down
    sessions, tests,
    fixPc

fixVars == <<left, excused, saved, released, inUse, sessions, tests, fixPc>>

Things == {"limits", "pin", "rail", "dac", "sensor", "waveform", "litter"}
Fixtures == {"target", "sensor", "dac", "waveforms"}
Undoes == [target |-> "rail", sensor |-> "sensor", dac |-> "dac", waveforms |-> "waveform"]

FixturesInit ==
    /\ left = {} /\ excused = {} /\ saved = FALSE /\ released = FALSE
    /\ inUse = {} /\ sessions = 0 /\ tests = 0 /\ fixPc = "idle"

(* The pod runs a command, with its answer or without, or it never gets there. *)
Replies == {"ok", "lost", "failed"}
Runs(reply) == reply # "failed"
To(pc) == fixPc' = pc
Excuse(thing, reply) == excused' = IF reply = "ok" THEN excused \ {thing} ELSE excused \cup {thing}

-----------------------------------------------------------------------------
(* A session begins: with BENCHPOD_LIFT_DAC_LIMITS the limits are read first. *)
StartSession(lift) ==
    /\ fixPc = "idle" /\ sessions < MaxSessions
    /\ sessions' = sessions + 1 /\ tests' = 0
    /\ saved' = FALSE /\ released' = FALSE
    /\ To(IF lift THEN "limits" ELSE "connect")
    /\ UNCHANGED <<left, excused, inUse>>

(* Limits that are off, or that cannot be read, are left alone. *)
ReadLimits(reply) ==
    /\ fixPc = "limits"
    /\ To(IF reply = "ok" /\ "limits" \notin left THEN "lift" ELSE "connect")
    /\ UNCHANGED <<left, excused, saved, released, inUse, sessions, tests>>

(* They are remembered once the pod has answered that they are off. *)
LiftLimits(reply) ==
    /\ fixPc = "lift"
    /\ left' = IF Runs(reply) THEN left \cup {"limits"} ELSE left
    /\ saved' = (reply = "ok")
    /\ excused' = IF reply = "lost" THEN excused \cup {"limits"} ELSE excused
    /\ To("connect")
    /\ UNCHANGED <<released, inUse, sessions, tests>>

(* The benchpod fixture, for the first test that wants it; when it fails, the  *)
(* tests end in errors.                                                        *)
ConnectPod(works) ==
    /\ fixPc = "connect"
    /\ To(IF works THEN "release" ELSE "restore")
    /\ UNCHANGED <<left, excused, saved, released, inUse, sessions, tests>>

(* _release_gpio swallows a failure. *)
ReleaseGpio(reply) ==
    /\ fixPc \in {"release", "endRelease"}
    /\ left' = IF Runs(reply) THEN left \ {"pin"} ELSE left
    /\ Excuse("pin", IF Runs(reply) THEN "ok" ELSE reply)
    /\ released' = IF fixPc = "release" THEN Runs(reply) ELSE released
    /\ To(IF fixPc = "release" THEN "tests" ELSE "close")
    /\ UNCHANGED <<saved, inUse, sessions, tests>>

-----------------------------------------------------------------------------
(* A test, after the capability gate let it run: the gate may skip it before   *)
(* any other fixture is set up.                                                *)
SetUpTest(wanted, runs) ==
    /\ fixPc = "tests" /\ tests < MaxTests
    /\ tests' = tests + 1
    /\ IF ~runs THEN UNCHANGED <<inUse, fixPc>>
       ELSE /\ inUse' = wanted \ {"target"}
            /\ To(IF "target" \in wanted THEN "powerOn" ELSE "test")
    /\ UNCHANGED <<left, excused, saved, released, sessions>>

(* benchpod_target powers the rail on before its try: when that fails, there   *)
(* is nothing to tear down.                                                    *)
PowerOn(reply) ==
    /\ fixPc = "powerOn"
    /\ left' = IF Runs(reply) THEN left \cup {"rail"} ELSE left
    /\ IF reply = "ok"
       THEN inUse' = inUse \cup {"target"} /\ To("test") /\ UNCHANGED excused
       ELSE /\ excused' = IF Runs(reply) THEN excused \cup {"rail"} ELSE excused
            /\ To("teardown") /\ UNCHANGED inUse
    /\ UNCHANGED <<saved, released, sessions, tests>>

(* The test drives a pin, and uses what its fixtures give it: with or without  *)
(* the answer the pod does it.  A waveform that was saved is known by its      *)
(* answer only.                                                                *)
TestDoes(thing, reply) ==
    /\ fixPc = "test" /\ Runs(reply)
    /\ thing = "pin" \/ \E f \in inUse : Undoes[f] = thing
    /\ IF thing = "waveform" /\ reply = "lost"
       THEN left' = left \cup {"litter"} /\ excused' = excused \cup {"litter"}
       ELSE left' = left \cup {thing} /\ UNCHANGED excused
    /\ UNCHANGED <<saved, released, inUse, sessions, tests, fixPc>>

(* It passes, fails or raises: the fixtures are torn down all the same. *)
TestIsOver ==
    /\ fixPc = "test"
    /\ To("teardown")
    /\ UNCHANGED <<left, excused, saved, released, inUse, sessions, tests>>

(* One fixture's teardown; one that raises does not keep the others from it.   *)
TearDownFixture(f, reply) ==
    /\ fixPc = "teardown" /\ f \in inUse
    /\ inUse' = inUse \ {f}
    /\ left' = IF Runs(reply) THEN left \ {Undoes[f]} ELSE left
    /\ Excuse(Undoes[f], IF Runs(reply) THEN "ok" ELSE reply)
    /\ UNCHANGED <<saved, released, sessions, tests, fixPc>>

TestTornDown ==
    /\ fixPc = "teardown" /\ inUse = {}
    /\ To("tests")
    /\ UNCHANGED <<left, excused, saved, released, inUse, sessions, tests>>

-----------------------------------------------------------------------------
(* The session ends: pins, connection, limits. *)
EndSession ==
    /\ fixPc = "tests"
    /\ To("endRelease")
    /\ UNCHANGED <<left, excused, saved, released, inUse, sessions, tests>>

ClosePod ==
    /\ fixPc = "close"
    /\ To("restore")
    /\ UNCHANGED <<left, excused, saved, released, inUse, sessions, tests>>

(* A connection of its own puts the remembered limits back. *)
RestoreLimits(reply) ==
    /\ fixPc = "restore"
    /\ IF saved
       THEN /\ left' = IF Runs(reply) THEN left \ {"limits"} ELSE left
            /\ Excuse("limits", IF Runs(reply) THEN "ok" ELSE reply)
       ELSE UNCHANGED <<left, excused>>
    /\ saved' = FALSE
    /\ To("idle")
    /\ UNCHANGED <<released, inUse, sessions, tests>>

(* The process is killed: nothing is torn down. *)
SessionKilled ==
    /\ fixPc # "idle"
    /\ excused' = excused \cup left
    /\ saved' = FALSE /\ inUse' = {}
    /\ To("idle")
    /\ UNCHANGED <<left, released, sessions, tests>>

-----------------------------------------------------------------------------
FixturesNext ==
    \/ \E lift \in BOOLEAN : StartSession(lift)
    \/ \E r \in Replies :
          \/ ReadLimits(r) \/ LiftLimits(r) \/ ReleaseGpio(r) \/ PowerOn(r) \/ RestoreLimits(r)
          \/ \E f \in Fixtures : TearDownFixture(f, r)
          \/ \E thing \in Things : TestDoes(thing, r)
    \/ \E works \in BOOLEAN : ConnectPod(works)
    \/ \E wanted \in SUBSET Fixtures, runs \in BOOLEAN : SetUpTest(wanted, runs)
    \/ TestIsOver \/ TestTornDown \/ EndSession \/ ClosePod \/ SessionKilled

FixturesSpec == FixturesInit /\ [][FixturesNext]_fixVars

-----------------------------------------------------------------------------
FixturesTypeOK ==
    /\ left \in SUBSET Things /\ excused \in SUBSET Things
    /\ saved \in BOOLEAN /\ released \in BOOLEAN /\ inUse \in SUBSET Fixtures
    /\ sessions \in 0 .. MaxSessions /\ tests \in 0 .. MaxTests
    /\ fixPc \in {"idle", "limits", "lift", "connect", "release", "tests", "powerOn", "test",
                  "teardown", "endRelease", "close", "restore"}

(* What a test's fixtures promise to switch off is off when the next test      *)
(* begins, whatever the test did and however it ended, unless the command that *)
(* switched it on or off failed or lost its answer, or a process was killed     *)
(* (pytest_plugin.py, the fixtures' docstrings).                               *)
TestLeavesNothing ==
    fixPc = "tests" => left \ {"pin", "limits"} \subseteq excused

(* The DAC limits lifted for a session are back when it has ended, even when   *)
(* tests fail; the pins are released; and a session that could release them at *)
(* its start begins with no pin driven, whatever a crashed run left.           *)
SessionLeavesNothing ==
    /\ fixPc = "idle" => left \subseteq excused
    /\ fixPc = "tests" /\ tests = 0 /\ released => "pin" \notin left

(* "any waveform saved through it ... is tracked and deleted at teardown so a   *)
(* test never leaves library litter behind" (the docstring of                   *)
(* benchpod_waveforms): after a test no waveform is there that its fixture did  *)
(* not know of.                                                                *)
NoLitter == fixPc = "tests" => "litter" \notin left

(* While tests run the limits are remembered if they are off. *)
LimitsRemembered == "limits" \in left => saved \/ "limits" \in excused

FixturesInv == FixturesTypeOK /\ TestLeavesNothing /\ SessionLeavesNothing /\ LimitsRemembered
=============================================================================
