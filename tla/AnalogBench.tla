---------------------------- MODULE AnalogBench ----------------------------
(***************************************************************************)
(* The analog front end of a pod as client.py drives it: the ADC input     *)
(* range and the fit that captures are scaled with, the output a waveform  *)
(* is routed to and scaled for, and the 4-20 mA loop.  One client makes    *)
(* one call at a time; other clients of the pod, and its restarts, come    *)
(* between any two commands.  What a command does on the pod is taken from *)
(* the client's docstrings.  With a server, what it last heard of the pod  *)
(* is laid over the pod's own status when the capabilities are read.       *)
(***************************************************************************)
EXTENDS Integers

CONSTANTS
    Volts,      \* the voltage outputs in use, of "3v3", "5v" and "12v"
    MaxWaves    \* bound: handles at a time

ASSUME AnalogAssumption == Volts \subseteq {"3v3", "5v", "12v"} /\ MaxWaves \in Nat

VARIABLES
    podRange,   \* relay K5: the range the ADC input is in
    output,     \* the voltage output the DAC is connected to, or "off"
    loopAt,     \* J9: "zero", "busy" (held, or following the DAC), or "left" where a
                \* waveform for it was stopped by its handle
    serverCaps, \* the server's cap.*: the range its fit is for and the one it names
    fit,        \* the range that the cached adc_affine is for, "none" without _caps
    fitFor,     \* the cached adc_range, "none" without _caps
    lagged,     \* history: the server's cap.* put another range than the pod's there
    rangeDoubt, \* history: the range moved and no reply said so
    routed,     \* _routed_dac_path
    routeDoubt, \* history: the output moved and no reply said so
    handles,    \* the DacHandle of each waveform
    misread,    \* history: a capture was scaled for another range with no reason to
    strayed,    \* history: a waveform with no output named went to another one
    benchPc, benchCall

cached == <<fit, fitFor, lagged>>
range == <<podRange, serverCaps, cached, rangeDoubt>>
routing == <<output, routed, routeDoubt>>
waves == <<loopAt, handles>>
bench == <<benchPc, benchCall>>
verdicts == <<misread, strayed>>
benchVars == <<range, routing, waves, verdicts, bench>>

AdcRanges == {"normal", "low"}
Outputs == Volts \cup {"off"}
DacPaths == Volts \cup {"current_out"}
(* analog_path's paths (dac_5v is "5v"), and what it remembers as routed. *)
AdcPaths == {"adc_ext", "current_in"}
Loopback(path) == CASE path = "cal1" -> "5v" [] path = "cal2" -> "12v" [] OTHER -> path
AnalogPaths == AdcPaths \cup DacPaths \cup {"off"} \cup {p \in {"cal1", "cal2"} : Loopback(p) \in Volts}
MovesDac(path) == path \notin AdcPaths \cup {"keep"}
RoutedBy(path) == CASE ~MovesDac(path) -> routed [] path = "off" -> "none" [] OTHER -> Loopback(path)

NoHandle == [loop |-> FALSE, state |-> "none"]
LiveHandle(path) == [loop |-> path = "current_out", state |-> "live"]
FailedHandle(handle) == [handle EXCEPT !.state = "failed"]
NoBenchCall == [path |-> "off", then |-> "idle", told |-> "normal", own |-> "none",
                handle |-> 0, named |-> FALSE]

(* What a server tells nothing of, or no server. *)
NoBlock == [fit |-> "none", range |-> "none"]

BenchInit ==
    /\ podRange = "normal" /\ serverCaps = NoBlock /\ fit = "none" /\ fitFor = "none" /\ lagged = FALSE
    /\ rangeDoubt = FALSE
    /\ output = "off" /\ routed = "none" /\ routeDoubt = FALSE
    /\ loopAt = "zero" /\ handles = [w \in 1 .. MaxWaves |-> NoHandle]
    /\ misread = FALSE /\ strayed = FALSE /\ benchPc = "idle" /\ benchCall = NoBenchCall

(* A command is answered, or is run and its reply lost, or is not run. *)
WireOutcomes == {"ok", "lost", "failed"}
Ready == benchPc = "idle"
Returns == benchPc' = "idle" /\ benchCall' = NoBenchCall
(* The pod's side of a command that puts the range to rng, or the output to volts. *)
PodRange(rng, reply) == podRange' = IF reply = "failed" THEN podRange ELSE rng
PodOutput(volts, reply) == output' = IF reply = "failed" THEN output ELSE volts
(* The loop is held, or follows what plays; a waveform that ends by itself or by    *)
(* dac_stop leaves it there.                                                       *)
LoopBusy(reply) == loopAt' = IF reply = "failed" THEN loopAt ELSE "busy"
(* What the client then does not know. *)
RangeUntold == rangeDoubt' = (rangeDoubt \/ podRange' # podRange)
RouteUntold == routeDoubt' = (routeDoubt \/ output' # output)

-----------------------------------------------------------------------------
(* The range and the paths *)

(* A reply tells of the range, and of the output when the path moves it. *)
PathAnswered(path, then, reply) ==
    IF reply = "ok"
    THEN /\ rangeDoubt' = FALSE /\ routeDoubt' = (routeDoubt /\ ~MovesDac(path))
         /\ benchPc' = "follow"
         /\ benchCall' = [NoBenchCall EXCEPT !.path = path, !.then = then, !.told = podRange']
    ELSE RangeUntold /\ RouteUntold /\ Returns

(* analog_path, on its own or as the first step of a capture (then = "take"), in  *)
(* the range asked for; when none is, in the one in use, or back in the normal one *)
(* for "off" and "cal2".  A reply with another range than the cached one is       *)
(* followed up before the path is remembered.                                     *)
AnalogPath(path, rng, then, reply) ==
    /\ Ready
    /\ path = "cal2" /\ rng = "low" => reply = "failed"
    /\ PodRange(rng, reply)
    /\ PodOutput(CASE path \in AdcPaths -> output [] path = "current_out" -> "off"
                   [] OTHER -> Loopback(path), reply)
    /\ PathAnswered(path, then, reply)
    /\ UNCHANGED <<serverCaps, cached, routed, waves, verdicts>>

(* The capabilities property: the pod's status with the server's block over it    *)
(* (Capabilities.merge: the other wins), field by field.                          *)
CapsBlocks == {NoBlock, serverCaps}
Merged(field) == IF field = "none" THEN podRange ELSE field
CapsRead(block) ==
    /\ fit' = Merged(block.fit) /\ fitFor' = Merged(block.range)
    /\ lagged' = (fit' # podRange \/ fitFor' # podRange)

(* The pod announces itself and the server keeps what it says: the range and its  *)
(* fit, or, when it does not know of ranges, the board, whose fit is the normal    *)
(* range's.                                                                       *)
Announce ==
    /\ serverCaps' \in {[fit |-> podRange, range |-> podRange], [fit |-> "normal", range |-> "none"]}
    /\ UNCHANGED <<podRange, cached, rangeDoubt, routing, waves, verdicts, bench>>

(* adc_range(): a switch, or a read (rng is podRange); its reply carries the fit.  Without cached   *)
(* capabilities, and with a status that fails, the fit goes into an object that   *)
(* nobody keeps.                                                                  *)
Learnt == \/ fit' = podRange' /\ fitFor' = podRange' /\ lagged' = FALSE /\ rangeDoubt' = FALSE
          \/ fit = "none" /\ UNCHANGED cached /\ RangeUntold

AdcRange(rng, then, reply) ==
    /\ Ready
    /\ PodRange(rng, reply)
    /\ IF reply = "ok"
       THEN Learnt /\ benchPc' = then /\ UNCHANGED benchCall
       ELSE RangeUntold /\ Returns /\ UNCHANGED cached
    /\ UNCHANGED <<serverCaps, routing, waves, verdicts>>

(* A plausible bug: only the route is remembered, the range is not followed. *)
FollowRouteOnly(reply, read, block) ==
    /\ benchPc = "follow" /\ reply = "ok"
    /\ routed' = RoutedBy(benchCall.path)
    /\ benchPc' = benchCall.then
    /\ benchCall' = IF benchCall.then = "take" THEN benchCall ELSE NoBenchCall
    /\ UNCHANGED <<range, output, routeDoubt, waves, verdicts>>

(* _follow_adc_range and what comes after it in analog_path: a status when there *)
(* are no capabilities, and adc_range when the cached range is another one.      *)
Follow(reply, read, block) ==
    /\ benchPc = "follow" /\ UNCHANGED <<podRange, serverCaps>>
    /\ LET fresh == fit = "none" /\ read
           known == IF fresh THEN Merged(block.range) ELSE fitFor
       IN  \/ /\ known = benchCall.told /\ reply = "ok"
              /\ IF fresh THEN CapsRead(block) /\ rangeDoubt' = FALSE
                 ELSE lagged' = (lagged /\ fit # fitFor) /\ UNCHANGED <<fit, fitFor, rangeDoubt>>
           \/ known # benchCall.told /\ reply = "ok" /\ Learnt
           \/ /\ known # benchCall.told /\ reply # "ok" /\ rangeDoubt' = TRUE
              /\ IF fresh THEN CapsRead(block) ELSE UNCHANGED cached
    /\ IF reply = "ok"
       THEN /\ routed' = RoutedBy(benchCall.path) /\ UNCHANGED routeDoubt
            /\ benchPc' = benchCall.then
            /\ benchCall' = IF benchCall.then = "take" THEN benchCall ELSE NoBenchCall
       ELSE routeDoubt' = (routeDoubt \/ MovesDac(benchCall.path)) /\ Returns /\ UNCHANGED routed
    /\ UNCHANGED <<output, waves, verdicts>>

(* adc_read, which switches the range first, and adc_range_test and the low       *)
(* range's calibrate_adc_gain, which leave it normal and the outputs off.  They   *)
(* follow the range and remember no output.                                       *)
Measure(rng, volts, reply) ==
    /\ Ready
    /\ PodRange(rng, reply) /\ PodOutput(volts, reply)
    /\ PathAnswered("keep", "idle", reply)
    /\ UNCHANGED <<serverCaps, cached, routed, waves, verdicts>>
AdcRead(rng, reply) == Measure(rng, output, reply)
AdcRangeTest(reply) == Measure("normal", "off", reply)

(* refresh_capabilities: the cache is dropped, then read from a status. *)
RefreshCapabilities(reply, block) ==
    /\ Ready
    /\ IF reply = "ok" THEN CapsRead(block) /\ rangeDoubt' = FALSE
       ELSE fit' = "none" /\ fitFor' = "none" /\ lagged' = FALSE /\ UNCHANGED rangeDoubt
    /\ UNCHANGED <<podRange, serverCaps, routing, waves, verdicts, bench>>

(* The calibration that a current_in capture reads before it starts. *)
OwnFit(reply) ==
    /\ benchPc = "take" /\ benchCall.path = "current_in" /\ benchCall.own = "none"
    /\ IF reply = "ok" THEN benchCall' = [benchCall EXCEPT !.own = podRange] /\ UNCHANGED benchPc
       ELSE Returns
    /\ UNCHANGED <<range, routing, waves, verdicts>>

(* capture_adc and capture_correlated: the capabilities are taken before the      *)
(* capture runs, from the cache or from a status; when that fails, what the server *)
(* says serves this once, and without it the default fit.                         *)
Take(read, block) ==
    LET own == benchCall.own # "none"
        fresh == fit = "none" /\ read
        scaled == IF own THEN benchCall.own ELSE IF fit' = "none" THEN block.fit ELSE fit'
        told == IF own THEN ~rangeDoubt ELSE fit' # "none" /\ ~lagged' /\ (fresh \/ ~rangeDoubt)
    IN  /\ benchPc = "take" \/ Ready
        /\ benchCall.path = "current_in" => own
        /\ IF fresh THEN CapsRead(block) /\ rangeDoubt' = FALSE ELSE UNCHANGED <<cached, rangeDoubt>>
        /\ misread' = (misread \/ (scaled \notin {"none", podRange} /\ told))
        /\ Returns
        /\ UNCHANGED <<podRange, serverCaps, routing, waves, strayed>>

-----------------------------------------------------------------------------
(* The outputs *)

(* dac_out, by dac_output. *)
DacOutput(path, reply) ==
    /\ Ready
    /\ PodOutput(path, reply)
    /\ IF reply = "ok" THEN routed' = (IF path = "off" THEN "none" ELSE path) /\ routeDoubt' = FALSE
       ELSE RouteUntold /\ UNCHANGED routed
    /\ UNCHANGED <<range, waves, verdicts, bench>>

(* current_out: the loop is held, a waveform ends, the outputs are off; what was *)
(* routed stays remembered.                                                      *)
CurrentOut(reply) ==
    /\ Ready
    /\ PodOutput("off", reply) /\ routeDoubt' = (routeDoubt \/ (reply = "lost" /\ output' # output))
    /\ LoopBusy(reply)
    /\ UNCHANGED <<range, routed, handles, verdicts, bench>>

(* _route_output; the loop only switches the voltage outputs off. *)
Route(path, reply) ==
    /\ PodOutput(IF path = "current_out" THEN "off" ELSE path, reply)
    /\ IF reply = "ok" THEN routed' = path /\ routeDoubt' = FALSE
       ELSE RouteUntold /\ UNCHANGED routed

(* generate and replay: the output that the volts are scaled for. *)
DefaultDacPath(route) == IF route THEN "3v3" ELSE IF routed = "none" THEN "5v" ELSE routed

(* The first step of a waveform.  An older firmware's generate, and replay, route *)
(* with a command of its own (_route_output); generate16 leaves it to the pod.    *)
Generate(w, path, route, whole, reply) ==
    LET to == IF path = "omitted" THEN DefaultDacPath(route) ELSE path
    IN  /\ Ready /\ to \in DacPaths
        /\ handles[w].state = "none"
        /\ IF route /\ ~whole THEN Route(to, reply) ELSE reply = "ok" /\ UNCHANGED routing
        /\ IF reply = "ok"
           THEN /\ benchPc' = (IF route /\ whole THEN "routeplay" ELSE "play")
                /\ benchCall' = [NoBenchCall EXCEPT !.path = to, !.handle = w,
                                                   !.named = path # "omitted" /\ ~route]
           ELSE Returns
        /\ UNCHANGED <<range, waves, verdicts>>

(* The command that plays it, and routes it first for generate16. *)
Play(reply) ==
    /\ benchPc \in {"play", "routeplay"}
    /\ IF benchPc = "routeplay" THEN Route(benchCall.path, reply) ELSE UNCHANGED routing
    /\ LoopBusy(reply)
    /\ strayed' = (strayed \/ (reply # "failed" /\ output' \notin {"off", benchCall.path}
                               /\ ~benchCall.named /\ ~routeDoubt))
    /\ handles' = IF reply = "ok" THEN [handles EXCEPT ![benchCall.handle] = LiveHandle(benchCall.path)] ELSE handles
    /\ Returns
    /\ UNCHANGED <<range, misread>>

(* replay_waveform on the server: it routes the output and plays, and nothing says *)
(* so to _routed_dac_path.  For the loop the client routes first (Generate).      *)
ServerReplay(w, path, reply) ==
    /\ Ready /\ handles[w].state = "none"
    /\ PodOutput(path, reply) /\ RouteUntold
    /\ LoopBusy(reply)
    /\ handles' = IF reply = "ok" THEN [handles EXCEPT ![w] = LiveHandle(path)] ELSE handles
    /\ UNCHANGED <<range, routed, verdicts, bench>>

(* DacHandle.stop: the first call counts, whatever comes of it.  A waveform on    *)
(* the loop is stopped and then the loop put back to its live zero.               *)
Stop(w, reply) ==
    /\ Ready /\ handles[w].state = "live"
    /\ handles' = [handles EXCEPT ![w] = IF reply = "ok" THEN NoHandle ELSE FailedHandle(handles[w])]
    /\ loopAt' = IF reply # "failed" /\ handles[w].loop THEN "left" ELSE loopAt
    /\ IF reply = "ok" /\ handles[w].loop
       THEN benchPc' = "zero" /\ benchCall' = [NoBenchCall EXCEPT !.handle = w]
       ELSE Returns
    /\ UNCHANGED <<range, routing, verdicts>>

(* _stop_current_out's second command, a current_out: the outputs are off too. *)
Zero(reply) ==
    /\ benchPc = "zero"
    /\ PodOutput("off", reply) /\ routeDoubt' = (routeDoubt \/ (reply = "lost" /\ output' # output))
    /\ loopAt' = IF reply = "failed" THEN loopAt ELSE "zero"
    /\ handles' = IF reply = "ok" THEN handles ELSE [handles EXCEPT ![benchCall.handle] = FailedHandle(LiveHandle("current_out"))]
    /\ Returns
    /\ UNCHANGED <<range, routed, verdicts>>

(* Another client of the pod, or a restart of it, moves a relay. *)
Foreign ==
    /\ \/ podRange' \in AdcRanges \ {podRange} /\ rangeDoubt' = TRUE /\ UNCHANGED <<output, routeDoubt>>
       \/ output' \in Outputs \ {output} /\ routeDoubt' = TRUE /\ UNCHANGED <<podRange, rangeDoubt>>
    /\ UNCHANGED <<serverCaps, cached, routed, waves, verdicts, bench>>

BenchNext ==
    \/ \E reply \in WireOutcomes :
         \/ \E path \in AnalogPaths, rng \in AdcRanges :
              \/ AnalogPath(path, rng, "idle", reply)
              \/ path \in AdcPaths \cup {"cal1", "cal2"} /\ AnalogPath(path, rng, "take", reply)
         \/ \E rng \in AdcRanges :
              AdcRange(rng, "idle", reply) \/ AdcRange(rng, "take", reply) \/ AdcRead(rng, reply)
         \/ \E block \in CapsBlocks :
              RefreshCapabilities(reply, block) \/ \E read \in BOOLEAN : Follow(reply, read, block)
         \/ AdcRangeTest(reply) \/ OwnFit(reply)
         \/ \E path \in Outputs : DacOutput(path, reply)
         \/ CurrentOut(reply) \/ Play(reply) \/ Zero(reply)
         \/ \E w \in 1 .. MaxWaves :
              \/ Stop(w, reply)
              \/ \E path \in DacPaths \cup {"omitted"}, route, whole \in BOOLEAN :
                   Generate(w, path, route, whole, reply)
              \/ \E path \in Volts : ServerReplay(w, path, reply)
    \/ \E read \in BOOLEAN, block \in CapsBlocks : Take(read, block)
    \/ Announce \/ Foreign

BenchSpec == BenchInit /\ [][BenchNext]_benchVars

-----------------------------------------------------------------------------
BenchTypeOK ==
    /\ podRange \in AdcRanges /\ fit \in AdcRanges \cup {"none"} /\ fitFor \in AdcRanges \cup {"none"}
    /\ serverCaps \in [fit : AdcRanges \cup {"none"}, range : AdcRanges \cup {"none"}] /\ lagged \in BOOLEAN
    /\ output \in Outputs /\ routed \in DacPaths \cup {"none"}
    /\ rangeDoubt \in BOOLEAN /\ routeDoubt \in BOOLEAN
    /\ loopAt \in {"zero", "busy", "left"}
    /\ benchPc \in {"idle", "follow", "take", "play", "routeplay", "zero"}

(* The cached fit is the pod's range whenever every reply so far told of it, and  *)
(* the server's word did not go over the pod's: a range that differs from the one  *)
(* cached is followed up.                                                         *)
RangeFollowed == Ready /\ fit \notin {"none", podRange} => rangeDoubt \/ lagged

(* The volts of a capture are scaled for the range it was taken in, unless the   *)
(* range moved unseen, no status could be read, or the server's word went over it.*)
ShotScaled == ~misread

(* The output remembered is the one that is on, whenever the replies told of it: *)
(* also through loopbacks, refused routes and a current that switched it off.    *)
RoutedFollowed == Ready /\ output # "off" /\ ~routeDoubt => routed = output

(* A waveform whose output was left out reaches no other voltage output than the *)
(* one its volts were scaled for.                                                *)
WaveSuits == ~strayed

(* The loop stays where a stopped waveform left it only when the stop failed. *)
LoopReturns ==
    loopAt = "left" => \/ benchPc = "zero"
                       \/ \E w \in 1 .. MaxWaves : handles[w].loop /\ handles[w].state = "failed"

BenchInv == BenchTypeOK /\ RangeFollowed /\ ShotScaled /\ RoutedFollowed /\ WaveSuits /\ LoopReturns
=============================================================================
