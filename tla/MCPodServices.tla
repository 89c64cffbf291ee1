--------------------------- MODULE MCPodServices ---------------------------
(***************************************************************************)
(* The parts of the SDK that share nothing with each other but the calls   *)
(* they make: small instances of all of them for one run of TLC.  A        *)
(* behaviour is a behaviour of one part, chosen at the start; the          *)
(* variables of the others stay as they began, so that the reachable       *)
(* states are the sum of the parts' and not their product.                 *)
(***************************************************************************)
EXTENDS CanBus, PinStore, SerialConsole, TcpExchange, PodConnection, PodPool, BuildReport, BenchFixtures,
        LoginSession, AnalogBench, VisionBoard, McpTools, SpiFlash, WiringProfile, MotorStack, UartDecode, I2cDecode,
        SpiDecode, CaptureStream

Parts == {"can", "pin", "con", "tcp", "open", "pool", "build", "fixtures", "login", "analog", "vision", "tools",
          "spi", "wiring", "motor", "uart line", "i2c bus", "spi bus", "capture"}

VARIABLE part \* the part that runs

(* Two pods: one changes its certificate once. *)
MaxCertOf == [pod \in Pods |-> IF pod = "a" THEN 2 ELSE 1]

(* The MCP server is one process: its threads take the lock of their own      *)
(* module, and those that go through the SDK the SDK's.                        *)
Lock == [c \in Callers |-> IF c = "c3" THEN "sdk" ELSE "mcp"]
Process == [c \in Callers |-> "mcp server"]

(* Bit patterns with an edge in them, without one, and of each parity. *)
SomeChars == {<<0, 1>>, <<1, 1>>, <<0, 0>>}

PServicesInit ==
    /\ part \in Parts
    /\ CanInit
    /\ PinInit
    /\ part # "pin" => file = NoPins
    /\ ConInit
    /\ part # "con" => raw = "text"
    /\ TcpInit
    /\ part # "tcp" => exchange = "command"
    /\ OpenInit
    /\ PoolInit
    /\ BuildInit
    /\ FixturesInit
    /\ LoginInit
    /\ BenchInit
    /\ VisionInit
    /\ ToolsInit
    /\ part # "tools" => scene.link /\ scene.image = "deep"
    /\ SpiInit
    /\ part # "spi" => job = (CHOOSE j \in Jobs : TRUE) /\ before = "old"
    /\ WiringInit
    /\ part # "wiring" => setting = "file" /\ named /\ stored = Default
    /\ MotorInit
    /\ part # "motor" => gates = "blank"
    /\ IF part = "uart line" THEN UartDecodeInit ELSE wire = <<>> /\ scanAt = 0 /\ uartSeen = <<>>
    /\ I2cInit
    /\ part # "i2c bus" => bus.doing = "rest"
    /\ SpiDecodeInit
    /\ part # "spi bus" => spiMode = [cpol |-> 0, cpha |-> 0, cs |-> FALSE] /\ spiBus.data = 0
    /\ IF part = "capture" THEN CaptureInit
       ELSE /\ capture = <<>> /\ streamed = <<>> /\ counts = <<>> /\ dense = <<>> /\ edges = <<>>
            /\ upto = 0 /\ words = <<>> /\ means = <<>> /\ capPc = "done"

(* What does not belong to the part p stays. *)
OthersStay(p) ==
    /\ IF p = "can" THEN TRUE ELSE UNCHANGED canVars
    /\ IF p = "pin" THEN TRUE ELSE UNCHANGED pinVars
    /\ IF p = "con" THEN TRUE ELSE UNCHANGED conVars
    /\ IF p = "tcp" THEN TRUE ELSE UNCHANGED tcpVars
    /\ IF p = "open" THEN TRUE ELSE UNCHANGED connVars
    /\ IF p = "pool" THEN TRUE ELSE UNCHANGED poolVars
    /\ IF p = "build" THEN TRUE ELSE UNCHANGED buildVars
    /\ IF p = "fixtures" THEN TRUE ELSE UNCHANGED fixVars
    /\ IF p = "login" THEN TRUE ELSE UNCHANGED loginVars
    /\ IF p = "analog" THEN TRUE ELSE UNCHANGED benchVars
    /\ IF p = "vision" THEN TRUE ELSE UNCHANGED visionVars
    /\ IF p = "tools" THEN TRUE ELSE UNCHANGED toolVars
    /\ IF p = "spi" THEN TRUE ELSE UNCHANGED spiVars
    /\ IF p = "wiring" THEN TRUE ELSE UNCHANGED wiringVars
    /\ IF p = "motor" THEN TRUE ELSE UNCHANGED motorVars
    /\ IF p = "uart line" THEN TRUE ELSE UNCHANGED uartDecodeVars
    /\ IF p = "i2c bus" THEN TRUE ELSE UNCHANGED i2cVars
    /\ IF p = "spi bus" THEN TRUE ELSE UNCHANGED spiDecodeVars
    /\ IF p = "capture" THEN TRUE ELSE UNCHANGED captureVars
    /\ UNCHANGED part

PServicesNext ==
    \/ part = "can" /\ OthersStay("can") /\ CanNext
    \/ part = "pin" /\ OthersStay("pin") /\ PinNext
    \/ part = "con" /\ OthersStay("con") /\ ConNext
    \/ part = "tcp" /\ OthersStay("tcp") /\ TcpNext
    \/ part = "open" /\ OthersStay("open") /\ OpenNext
    \/ part = "pool" /\ OthersStay("pool") /\ PoolNext
    \/ part = "build" /\ OthersStay("build") /\ BuildNext
    \/ part = "fixtures" /\ OthersStay("fixtures") /\ FixturesNext
    \/ part = "login" /\ OthersStay("login") /\ LoginNext
    \/ part = "analog" /\ OthersStay("analog") /\ BenchNext
    \/ part = "vision" /\ OthersStay("vision") /\ VisionNext
    \/ part = "tools" /\ OthersStay("tools") /\ ToolsNext
    \/ part = "spi" /\ OthersStay("spi") /\ SpiNext
    \/ part = "wiring" /\ OthersStay("wiring") /\ WiringNext
    \/ part = "motor" /\ OthersStay("motor") /\ MotorNext
    \/ part = "uart line" /\ OthersStay("uart line") /\ UartDecodeNext
    \/ part = "i2c bus" /\ OthersStay("i2c bus") /\ I2cNext
    \/ part = "spi bus" /\ OthersStay("spi bus") /\ SpiDecodeNext
    \/ part = "capture" /\ OthersStay("capture") /\ CaptureNext

pServicesVars ==
    <<part, canVars, pinVars, conVars, tcpVars, connVars, poolVars, buildVars, fixVars, loginVars, benchVars,
      visionVars, toolVars, spiVars, wiringVars, motorVars, uartDecodeVars, i2cVars, spiDecodeVars, captureVars>>

(* The variables of the running part tell two of its states apart. *)
RunningVars ==
    CASE part = "can" -> canVars [] part = "pin" -> pinVars [] part = "con" -> conVars
      [] part = "tcp" -> tcpVars [] part = "open" -> connVars [] part = "pool" -> poolVars
      [] part = "build" -> buildVars [] part = "fixtures" -> fixVars [] part = "login" -> loginVars
      [] part = "analog" -> benchVars [] part = "vision" -> visionVars [] part = "tools" -> toolVars
      [] part = "spi" -> spiVars [] part = "wiring" -> wiringVars [] part = "motor" -> motorVars
      [] part = "uart line" -> uartDecodeVars [] part = "i2c bus" -> i2cVars
      [] part = "spi bus" -> spiDecodeVars [] part = "capture" -> captureVars
RunningState == <<part, RunningVars>>

PServicesSpec == PServicesInit /\ [][PServicesNext]_pServicesVars
-----------------------------------------------------------------------------
(* CanInv, PinInv, LoginInv and VisionInv are checked as they are; these are the   *)
(* invariants of the other parts, each while its part runs.                        *)

(* The answer a command on the serial console returns is its own, and a console    *)
(* that failed to enter or leave a raw mode is not left deaf; a TCP command takes  *)
(* the lines of its own reply, and a raw link gets every byte after the "ready".   *)
LinkHolds == (part = "con" => ConInv) /\ (part = "tcp" => TcpInv)

(* The pod that is opened is the one the connection string names, none is picked   *)
(* by guess, and no serial port stays open behind a connection that went another   *)
(* way (open_transport, _open_usb, autodetect_port).                               *)
OpenHolds == part = "open" => OpenInv

(* What the test harnesses promise: a plug gets a connection of its own settings,  *)
(* one per pod and open (plug.py); a build reported as passed has everything that  *)
(* was uploaded, under one build (ci.py); and neither a test nor a session leaves  *)
(* power, outputs or lifted limits behind (pytest_plugin.py).                      *)
HarnessHolds == (part = "pool" => PoolInv) /\ (part = "build" => BuildInv) /\ (part = "fixtures" => FixturesInv)

(* A sample is scaled by the fit of the range it was taken in, and a waveform goes *)
(* to the output it was made for, as far as replies told of the pod's relays       *)
(* (the analog calls of client.py).                                                *)
BenchHolds == part = "analog" => BenchInv

(* An agent may call a read-only tool unasked, repeat an idempotent one and trust  *)
(* a non-destructive one (server.py), and a wiring argument it leaves out is what  *)
(* it was told of the profile (client.py, session.py).                             *)
AgentHolds == (part = "tools" => ToolsInv) /\ (part = "wiring" => WiringInv)

(* A verified image is in the flash and nothing else was touched (spi.py); the     *)
(* logged sets come out whole and in order (motor_emulator.py); and neither job    *)
(* leaves a pin or the SPI master held.                                            *)
JobsHold == (part = "spi" => SpiInv) /\ (part = "motor" => MotorInv)

(* What a decoder says was on the line is what was sent over it, whatever the      *)
(* phase, the rests, other traffic and the ends of the capture (decode.py,         *)
(* i2c.py), and a capture is what the pod recorded, however it was cut into chunks *)
(* (capture.py).                                                                   *)
DecodersHold ==
    /\ part = "uart line" => UartDecodeInv
    /\ part = "i2c bus" => I2cInv
    /\ part = "spi bus" => SpiDecodeInv
    /\ part = "capture" => CaptureInv
=============================================================================
