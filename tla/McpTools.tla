------------------------------ MODULE McpTools ------------------------------
(***************************************************************************)
(* The tools of the MCP server (embeddedci_mcp/server.py): what each one   *)
(* changes on the scene, command by command, beside the hints it is        *)
(* published with (_ann: readOnlyHint, destructiveHint, idempotentHint),   *)
(* which tell an agent what it may repeat and what it may call unasked.    *)
(*                                                                         *)
(* A tool is a row of a table: its name, its hint and its steps.  A step   *)
(* is what one command does on the pod, or what the tool then stores; a    *)
(* tool whose link fails has done the first of its steps and no more.      *)
(* Arguments that differ in nothing but a number are one row.              *)
(***************************************************************************)
EXTENDS Integers, Sequences, SequencesExt

CONSTANT MaxCalls \* bound: tool calls

ASSUME ToolsAssumption == MaxCalls \in Nat

VARIABLES
    scene,  \* the session, the pod, the target and the library, by field
    toolCalls   \* calls so far

toolVars == <<scene, toolCalls>>

Switches == {"link", "console", "unread", "can", "queue", "rules", "profile", "lastLa", "lastAdc", "given",
             "stored", "power", "reset", "pull", "armed", "usbNet", "httpsOnly", "volts", "routed", "driven",
             "current", "loop", "calibrated", "measured", "moved", "sent"}
Values == [bank |-> {"none", "v1", "v3"}, pin |-> {"free", "in", "low", "high"}, sensor |-> {"off", "first", "next"},
           fix |-> {"off", "first", "next"}, firmware |-> {"old", "torn", "new"}, chip |-> {"old", "torn", "new"},
           cert |-> {"old", "new"}, route |-> {"ext", "other"}, range |-> {"normal", "low"},
           output |-> {"off", "wave", "replay"}, code |-> {"start", "next"}, image |-> {"loop", "deep"},
           library |-> {"empty", "some", "more"}]

(* Two assignments of fields together: the first wins. *)
s ++ t == [f \in DOMAIN s \cup DOMAIN t |-> IF f \in DOMAIN s THEN s[f] ELSE t[f]]
Quiet == [s \in Switches |-> s \in {"stored"}]
ToolsInit ==
    /\ \E linked, deep \in BOOLEAN :
         scene = [bank |-> "none", pin |-> "free", sensor |-> "off", fix |-> "off", firmware |-> "old",
                  chip |-> "old", cert |-> "old", route |-> "ext", range |-> "normal", output |-> "off",
                  code |-> "start", image |-> IF deep THEN "deep" ELSE "loop", library |-> "empty"]
                 ++ [Quiet EXCEPT !.link = linked]
    /\ toolCalls = 0

-----------------------------------------------------------------------------
(* Rows and steps *)

Hints == {"reads", "repeats", "plain", "drives", "drivesAgain"}
Row(name, arg, hint, steps) == [call |-> <<name, arg>>, hint |-> hint, steps |-> steps]
Put(field, value) == [f \in {field} |-> value]
On(field) == Put(field, TRUE)
Off(field) == Put(field, FALSE)

(* The scene after the first n steps: a field is what the last of them to put it put. *)
After(b, steps, n) ==
    LET puts(f) == {i \in 1 .. n : f \in DOMAIN steps[i]}
    IN  [f \in DOMAIN b |-> IF puts(f) = {} THEN b[f] ELSE steps[Max(puts(f))][f]]
Done(b, row) == After(b, row.steps, Len(row.steps))

-----------------------------------------------------------------------------
(* What the SDK's calls do *)

TargetPower(on) == <<Put("power", on)>>
ResetLine(action) ==
    CASE action = "hold" -> <<On("reset")>>
      [] action \in {"release", "pulse"} -> <<Off("reset")>>
      [] action = "status" -> <<>>
SetBank(v) == <<Put("bank", v)>>
SetPull(on) == <<Put("pull", on)>>
UsbNetworkOff(set) == IF set = "off" THEN <<Off("usbNet"), Off("link")>> ELSE <<>>
LanTls(what) ==
    CASE what = "regenerate" -> <<Put("cert", "new")>>
      [] what = "only" -> <<On("httpsOnly")>>
      [] what = "read" -> <<>>
(* Starting a sensor gives it its first readings; readings asked for are a      *)
(* command of their own.                                                        *)
EnableSensor(values) == <<Put("sensor", "first")>> \o (IF values THEN <<Put("sensor", "next")>> ELSE <<>>)
SetSensor(b) == IF b.sensor = "off" THEN <<>> ELSE <<Put("sensor", "next")>>
EnableGps == <<Put("fix", "first")>>
SetGps(b) == IF b.fix = "off" THEN <<>> ELSE <<Put("fix", "next")>>
Gpio(mode) == <<Put("pin", mode)>>
SetGpio(b, level) == IF b.pin \in {"free", "in"} THEN <<>> ELSE <<Put("pin", level)>>
LaStep == <<On("moved")>>

RouteAdc(path, range) == <<Put("route", path) ++ Put("range", range)>>
(* The DAC on a voltage output: the relays of a loopback open. *)
OnOutput == On("routed") ++ Put("route", "ext")
OutputsOff == Off("routed") ++ Off("volts")
(* A loopback (cal1, cal2) connects the DAC too; adc_ext and current_in move the  *)
(* ADC's side alone.                                                              *)
ToolPaths == {"dac", "adc_ext", "current_in", "cal1", "cal2", "current_out", "off"}
ApplyPath(path, range) ==
    (CASE path = "dac" -> OnOutput
       [] path = "adc_ext" -> Put("route", "ext")
       [] path = "current_in" -> Put("route", "other")
       [] path \in {"cal1", "cal2"} -> On("routed") ++ Put("route", "other")
       [] path = "current_out" -> Off("routed")
       [] path = "off" -> OutputsOff ++ Put("route", "ext"))
    ++ Put("range", IF path \in {"cal2", "off"} THEN "normal" ELSE range)
(* The pod drives its output for the measurement and leaves the outputs off. *)
DrivesItself == On("driven") ++ OutputsOff ++ Put("range", "normal")
RangeTest == <<DrivesItself>>
Calibrate(clear) == <<Put("calibrated", ~clear)>>
GainFromLoop == <<On("measured") ++ DrivesItself>>
HoldOutput(what) ==
    CASE what = "volts" -> <<On("volts") ++ OnOutput>>
      [] what = "route" -> <<OnOutput>>
      [] what = "off" -> <<OutputsOff>>
HoldCurrent == <<On("current") ++ OutputsOff>>
DacStop == <<Put("output", "off") ++ Off("loop")>>
(* What plays goes to an output, to the 4-20 mA one or where the DAC is; since   *)
(* firmware 3.9.1 the pod routes a wave itself, in the same command.             *)
PlaysTo == {"dac", "current_out", "kept"}
RouteOutput(to) ==
    CASE to = "dac" -> <<OnOutput>>
      [] to = "current_out" -> <<Off("routed")>>
      [] to = "kept" -> <<>>
Waveform(to) == RouteOutput(to) \o <<Put("output", "wave") ++ Off("loop")>>

(* _ensure_image; a switch resets the FPGA. *)
Switched(b, image) ==
    IF b.image = image THEN <<>>
    ELSE <<Put("image", image) ++ Put("output", "off") ++ Off("loop") ++ Put("sensor", "off")>>
ArmReplay(b, deep, to) ==
    (IF deep THEN Switched(b, "deep") ELSE <<>>) \o RouteOutput(to) \o <<Put("output", "replay") ++ Off("loop")>>
(* Over the cloud the server arms the replay, when it gets to it. *)
LibraryReplay(b, deep, to) == ArmReplay(b, deep, to)
ArmLoop(b) == Switched(b, "loop") \o <<On("loop") ++ Put("output", "off") ++ Put("code", "start")>>
LoopInput(b) == IF b.loop THEN <<Put("code", "next")>> ELSE <<>>

SaveRecording(b) ==
    IF b.lastAdc THEN <<Put("library", IF b.library = "empty" THEN "some" ELSE "more")>> ELSE <<>>

(* spi_start and spi_stop around the work; a job may hold the target in reset. *)
OverSpi(work) == <<On("armed")>> \o work \o <<Off("armed")>>
ProgramChip(hold) ==
    (IF hold THEN <<On("reset")>> ELSE <<>>)
    \o OverSpi(<<Put("chip", "torn"), Put("chip", "new")>>)
    \o (IF hold THEN <<Off("reset")>> ELSE <<>>)
Flash(power) == (IF power THEN TargetPower(TRUE) ELSE <<>>) \o <<Put("firmware", "torn"), Put("firmware", "new")>>

(* A UART capture has a link of its own, a power-cycling one switches twice. *)
CaptureUart == <<>>
PowerCycle == TargetPower(FALSE) \o TargetPower(TRUE)
Command == <<On("power")>>

-----------------------------------------------------------------------------
(* What the session keeps *)

CloseUart == Off("console") ++ Off("unread")
(* close() clears the rules on the pod and goes on when that fails. *)
CloseCan(heard) == Off("can") ++ (IF heard THEN Off("rules") ++ Off("queue") ELSE Off("queue"))
Forgotten(heard) ==
    CloseUart ++ CloseCan(heard) ++ Off("profile") ++ Off("lastLa") ++ Off("lastAdc") ++ Off("given") ++ Off("link")

Connect(b) ==
    {Row("connect", bank, "repeats",
         <<Forgotten(TRUE)>> \o (IF bank = "asked" THEN SetBank("v3") ELSE <<>>) \o <<On("link")>>)
       : bank \in {"asked", "kept"}}
Disconnect == {Row("disconnect", heard, "repeats", <<Forgotten(heard)>>) : heard \in BOOLEAN}

WiringTools ==
    {Row("set_la_voltage", v, "repeats", SetBank(v)) : v \in {"v1", "v3"}} \cup
    {Row("wiring", "", "reads", <<>>),
     Row("set_wiring", "use", "repeats", <<On("given")>>),
     Row("set_wiring", "save", "repeats", <<On("given"), On("stored")>>)}

-----------------------------------------------------------------------------
(* The tools that need no pod, and those that do, by their place in server.py *)

Unconnected(b) ==
    Connect(b) \cup Disconnect \cup
    {Row("status", "", "reads", <<>>), Row("uart_close", "", "repeats", <<CloseUart>>),
     Row("la_timing", "", "reads", <<>>), Row("cloud_list_devices", "", "reads", <<>>)}
    \cup {Row("can_close", heard, "repeats", <<IF b.can THEN CloseCan(heard) ELSE CloseCan(FALSE)>>)
            : heard \in BOOLEAN}

PowerTools ==
    {Row("power_on", "", "drivesAgain", TargetPower(TRUE)),
     Row("power_off", "", "drivesAgain", TargetPower(FALSE)), Row("measure_power", "", "plain", <<>>)}
ProfileTools(b) ==
    {Row("power_profile_start", "", "plain", <<On("profile")>>), Row("power_status", "", "reads", <<>>)}
    \cup (IF b.profile THEN {Row("power_profile_stop", "", "plain", <<Off("profile")>>)} ELSE {})
ResetTools == {Row("reset_target", a, "drives", ResetLine(a)) : a \in {"hold", "release", "pulse", "status"}}

SpiTools ==
    {Row("spi_flash_info", "", "reads", OverSpi(<<>>)), Row("spi_flash_read", "", "reads", OverSpi(<<>>)),
     Row("spi_transfer", "", "drives", OverSpi(<<On("sent")>>))}
    \cup {Row("spi_flash_program", hold, "drives", ProgramChip(hold)) : hold \in BOOLEAN}
FlashTools == {Row("flash", power, "drives", Flash(power)) : power \in BOOLEAN}

UartTools(b) ==
    {Row("capture_uart", "", "plain", CaptureUart), Row("power_cycle_and_capture", "", "drives", PowerCycle),
     Row("uart_open", "", "plain", <<CloseUart, On("console")>>)}
    \cup (IF b.console THEN {Row("uart_write", "", "plain", <<On("sent")>>),
                             Row("uart_read", "", "reads", <<Off("unread")>>)} ELSE {})

SensorTools(b) ==
    {Row("enable_i2c_sensor", values, "plain", EnableSensor(values)) : values \in BOOLEAN}
    \cup {Row("set_i2c_sensor", "", "repeats", SetSensor(b)),
          Row("disable_i2c_sensor", "", "repeats", <<Put("sensor", "off")>>),
          Row("i2c_sensor_types", "", "reads", <<>>), Row("i2c_sensor_status", "", "reads", <<>>),
          Row("i2c_sensor_regs", "", "reads", <<>>), Row("i2c_sensor_capture", "", "plain", <<>>)}
GpsTools(b) ==
    {Row("enable_gps", "", "plain", EnableGps), Row("set_gps", "", "repeats", SetGps(b)),
     Row("disable_gps", "", "repeats", <<Put("fix", "off")>>), Row("gps_status", "", "reads", <<>>)}

PullTools ==
    {Row("set_pull", on, "repeats", SetPull(on)) : on \in BOOLEAN} \cup {Row("pull_status", "", "reads", <<>>)}
NetworkTools ==
    {Row("usb_network", set, "drives", UsbNetworkOff(set)) : set \in {"read", "off"}}
    \cup {Row("lan_tls", what, "drives", LanTls(what)) : what \in {"read", "regenerate", "only"}}

GpioTools(b) ==
    {Row("gpio_mode", mode, "drivesAgain", Gpio(mode)) : mode \in {"in", "low", "high"}}
    \cup {Row("gpio_write", level, "drivesAgain", SetGpio(b, level)) : level \in {"low", "high"}}
    \cup {Row("gpio_release", "", "repeats", Gpio("free")), Row("gpio_pulse", "", "drives", LaStep),
          Row("la_pins", "", "reads", <<>>), Row("gpio_read", "", "reads", <<>>),
          Row("gpio_wait", "", "reads", <<>>)}

AnalogTools(b) ==
    {Row("analog_path", a, "repeats", <<ApplyPath(a[1], a[2])>>) : a \in ToolPaths \X {"normal", "low", b.range}}
    \cup {Row("adc_range", r, "repeats", <<Put("range", r)>>) : r \in {"normal", "low", b.range}}
    \cup {Row("adc_range", "test", "repeats", RangeTest),
          Row("adc_read", "", "reads", RouteAdc("ext", b.range)),
          Row("adc_read", "range", "reads", RouteAdc("ext", "low")),
          Row("adc_read", "other", "reads", RouteAdc("other", "normal"))}
OutputTools ==
    {Row("dac_output", what, "drivesAgain", HoldOutput(what)) : what \in {"volts", "route", "off"}}
    \cup {Row("current_out", "", "drivesAgain", HoldCurrent), Row("current_out", "limits", "drivesAgain", <<>>)}
CalibrationTools ==
    {Row("calibrate", clear, "drivesAgain", Calibrate(clear)) : clear \in BOOLEAN}
    \cup {Row("calibration", "", "reads", <<>>), Row("calibrate_dac", "", "drivesAgain", Calibrate(FALSE)),
          Row("calibrate_adc_gain", "", "drivesAgain", GainFromLoop)}

(* A capture from a named source applies that source's path first. *)
CaptureSources == {"adc_ext", "current_in", "cal1", "cal2"}
CaptureTools(b) ==
    {Row("capture_adc", "kept", "plain", <<On("lastAdc")>>),
     Row("capture_la", "", "plain", <<On("lastLa")>>),
     Row("capture_la", "stop_dac", "plain", DacStop \o <<On("lastLa")>>),
     Row("capture_correlated", "kept", "plain", <<On("lastAdc") ++ On("lastLa")>>)}
    \cup {Row("capture_adc", s, "plain", <<ApplyPath(s, b.range), On("lastAdc")>>) : s \in CaptureSources}
    \cup {Row("capture_correlated", s, "plain", <<ApplyPath(s, b.range), On("lastAdc") ++ On("lastLa")>>)
            : s \in CaptureSources}
(* A plausible bug: the decoder is published as read-only. *)
DecodeToolsReadOnly(b) ==
    {Row("decode_la", "new", "reads", <<On("lastLa")>>),
     Row("decode_la", "last", "reads", IF b.lastLa THEN <<>> ELSE <<On("lastLa")>>)}
DecodeTools(b) ==
    {Row("decode_la", "new", "plain", <<On("lastLa")>>),
     Row("decode_la", "last", "plain", IF b.lastLa THEN <<>> ELSE <<On("lastLa")>>)}

ReplayTools(b) ==
    {Row("dac_stop", "", "repeats", DacStop)}
    \cup {Row("generate", to, "drives", Waveform(to)) : to \in PlaysTo}
    \cup {Row("replay", a, "drives", ArmReplay(b, a[1], a[2])) : a \in BOOLEAN \X PlaysTo}
LibraryTools(b) ==
    {Row("list_waveforms", "", "reads", <<>>), Row("save_capture_as_recording", "", "plain", SaveRecording(b))}
    \cup {Row("replay_waveform", a, "drives", LibraryReplay(b, a[1], a[2]))
            : a \in BOOLEAN \X (PlaysTo \ {"kept"})}
LoopTools(b) ==
    {Row("control_loop", "", "drives", ArmLoop(b)), Row("loop_input", "", "drives", LoopInput(b)),
     Row("loop_probe", "", "reads", <<>>)}
ImageTools(b) == {Row("fpga_image", i, "drives", Switched(b, i)) : i \in {"loop", "deep"}}

CanTools(b) ==
    {Row("can_open", "", "plain", <<CloseCan(TRUE), On("can")>>), Row("can_status", "", "reads", <<>>)}
    \cup (IF b.can THEN {Row("can_write", "", "drives", <<On("sent")>>), Row("can_read", "", "reads", <<Off("queue")>>),
                         Row("can_respond", "", "drives", <<On("rules")>>),
                         Row("can_respond", "clear", "drives", <<Off("rules")>>)} ELSE {})
OtherTools == {Row("la_step", "", "drives", LaStep), Row("command", "", "drives", Command)}

Connected(b) ==
    WiringTools \cup PowerTools \cup ProfileTools(b) \cup ResetTools \cup SpiTools \cup FlashTools
    \cup UartTools(b) \cup SensorTools(b) \cup GpsTools(b) \cup PullTools \cup NetworkTools \cup GpioTools(b)
    \cup AnalogTools(b) \cup OutputTools \cup CalibrationTools \cup CaptureTools(b) \cup DecodeTools(b)
    \cup ReplayTools(b) \cup LibraryTools(b) \cup LoopTools(b) \cup ImageTools(b) \cup CanTools(b) \cup OtherTools

(* A tool that needs the pod raises without one, before it does anything. *)
Table(b) == Unconnected(b) \cup (IF b.link THEN Connected(b) ELSE {})

-----------------------------------------------------------------------------
CallTool(row, n) ==
    /\ toolCalls < MaxCalls /\ toolCalls' = toolCalls + 1
    /\ scene' = After(scene, row.steps, n)

(* The target prints, or another node on the bus sends. *)
DutTalks ==
    /\ scene.console \/ scene.can
    /\ scene' = Put("unread", scene.console) ++ Put("queue", scene.can) ++ scene
    /\ UNCHANGED toolCalls

ToolsNext == (\E row \in Table(scene) : \E n \in 0 .. Len(row.steps) : CallTool(row, n)) \/ DutTalks

ToolsSpec == ToolsInit /\ [][ToolsNext]_toolVars
-----------------------------------------------------------------------------
ToolsTypeOK ==
    /\ DOMAIN scene = Switches \cup DOMAIN Values
    /\ \A s \in Switches : scene[s] \in BOOLEAN
    /\ \A f \in DOMAIN Values : scene[f] \in Values[f]
    /\ toolCalls \in 0 .. MaxCalls

(* What a tool published as read-only may change: where the ADC is, how far a     *)
(* console or a bus has been heard, and the SPI master's lines.                   *)
Heard == {"route", "range", "unread", "queue", "armed"}
Same(b, c, fields) == \A f \in fields : b[f] = c[f]
ReadOnlyKeeps ==
    \A row \in {r \in Table(scene) : r.hint = "reads"} : \A n \in 0 .. Len(row.steps) :
        Same(scene, After(scene, row.steps, n), DOMAIN scene \ Heard)

(* An agent may call a tool again after an error when the tool is published as    *)
(* idempotent: the second call ends where an undisturbed one would have, however  *)
(* far the first came; and a call after a whole one changes nothing.              *)
RetryIsSafe ==
    \A row \in {r \in Table(scene) : r.hint \in {"repeats", "drivesAgain"}} : \A n \in 1 .. Len(row.steps) :
        LET cut == After(scene, row.steps, n)
        IN  cut # scene =>
              \A again \in {r \in Table(cut) : r.call = row.call} : Done(cut, again) = Done(scene, row)

(* A tool that is not published as destructive never switches the target's power  *)
(* or reset, writes its memories or moves it, never changes the pod's image,      *)
(* network settings or calibration, starts nothing on the DAC and holds no        *)
(* voltage.  Only analog_path and a capture from a named source connect the DAC,  *)
(* and only the range's self-test drives an output of itself.                     *)
Driven == {"power", "reset", "firmware", "chip", "moved", "image", "usbNet", "httpsOnly", "cert", "calibrated",
           "measured", "current", "code"}
Gentle(row) == row.hint \in {"reads", "repeats", "plain"}
Routes(row) == row.call[1] \in {"analog_path", "capture_adc", "capture_correlated"}
IsSelfTest(row) == row.call[1] = "adc_range" /\ row.call[2] = "test"
GentleKeeps ==
    \A row \in {r \in Table(scene) : Gentle(r)} : \A n \in 0 .. Len(row.steps) :
        LET later == After(scene, row.steps, n)
        IN  /\ Same(scene, later, Driven)
            /\ later.output \in {scene.output, "off"}
            /\ later.loop => scene.loop
            /\ later.volts => scene.volts
            /\ later.routed => scene.routed \/ Routes(row)
            /\ later.driven => scene.driven \/ IsSelfTest(row)

(* What the README says of the hints (embeddedci-mcp/README.md:460-461): "tools   *)
(* that power, flash or drive voltages are marked destructive".  So no other tool *)
(* puts a voltage on an output, be it what the DAC plays or holds or a            *)
(* measurement of the pod's own.                                                  *)
OutputLive(b) == b.routed /\ (b.volts \/ b.loop \/ b.output # "off")
DrivingIsMarked ==
    \A row \in {r \in Table(scene) : Gentle(r)} : \A n \in 0 .. Len(row.steps) :
        LET later == After(scene, row.steps, n)
        IN  /\ OutputLive(later) => OutputLive(scene)
            /\ later.driven => scene.driven

ToolsInv == ToolsTypeOK /\ ReadOnlyKeeps /\ RetryIsSafe /\ GentleKeeps
=============================================================================
