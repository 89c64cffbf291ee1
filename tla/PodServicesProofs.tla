------------------------- MODULE PodServicesProofs -------------------------
(* What holds of the parts of the SDK when any of them may run: what is proved *)
(* of each by itself (HostAndBenchProofs, LinksAndJobsProofs, DecoderProofs)   *)
(* stays true next to the others.                                             *)
EXTENDS MCPodServices, HostAndBenchProofs, LinksAndJobsProofs, DecoderProofs, TLAPS

(* A step of the parts is a step of the one that runs, and leaves each of the  *)
(* others as it was: to every part it is a step of its own or none.            *)
LEMMA EachPartSteps ==
    ASSUME [PServicesNext]_pServicesVars
    PROVE  /\ [OpenNext]_connVars /\ [BenchNext]_benchVars
           /\ [PoolNext]_poolVars /\ [BuildNext]_buildVars /\ [FixturesNext]_fixVars
           /\ [WiringNext]_wiringVars /\ [ToolsNext]_toolVars
           /\ [CanNext]_canVars /\ [PinNext]_pinVars /\ [LoginNext]_loginVars /\ [VisionNext]_visionVars
           /\ [ConNext]_conVars /\ [TcpNext]_tcpVars /\ [SpiNext]_spiVars /\ [MotorNext]_motorVars
           /\ [UartDecodeNext]_uartDecodeVars /\ [I2cNext]_i2cVars
           /\ [SpiDecodeNext]_spiDecodeVars /\ [CaptureNext]_captureVars
           /\ part' = part
<1>1. CASE UNCHANGED pServicesVars
  BY <1>1 DEF pServicesVars
<1>2. CASE PServicesNext
  <2>1. CASE OthersStay("can") /\ CanNext
    BY <2>1 DEF OthersStay
  <2>2. CASE OthersStay("pin") /\ PinNext
    BY <2>2 DEF OthersStay
  <2>3. CASE OthersStay("con") /\ ConNext
    BY <2>3 DEF OthersStay
  <2>4. CASE OthersStay("tcp") /\ TcpNext
    BY <2>4 DEF OthersStay
  <2>5. CASE OthersStay("open") /\ OpenNext
    BY <2>5 DEF OthersStay
  <2>6. CASE OthersStay("pool") /\ PoolNext
    BY <2>6 DEF OthersStay
  <2>7. CASE OthersStay("build") /\ BuildNext
    BY <2>7 DEF OthersStay
  <2>8. CASE OthersStay("fixtures") /\ FixturesNext
    BY <2>8 DEF OthersStay
  <2>9. CASE OthersStay("login") /\ LoginNext
    BY <2>9 DEF OthersStay
  <2>10. CASE OthersStay("analog") /\ BenchNext
    BY <2>10 DEF OthersStay
  <2>11. CASE OthersStay("vision") /\ VisionNext
    BY <2>11 DEF OthersStay
  <2>12. CASE OthersStay("tools") /\ ToolsNext
    BY <2>12 DEF OthersStay
  <2>13. CASE OthersStay("spi") /\ SpiNext
    BY <2>13 DEF OthersStay
  <2>14. CASE OthersStay("wiring") /\ WiringNext
    BY <2>14 DEF OthersStay
  <2>15. CASE OthersStay("motor") /\ MotorNext
    BY <2>15 DEF OthersStay
  <2>16. CASE OthersStay("uart line") /\ UartDecodeNext
    BY <2>16 DEF OthersStay
  <2>17. CASE OthersStay("i2c bus") /\ I2cNext
    BY <2>17 DEF OthersStay
  <2>18. CASE OthersStay("spi bus") /\ SpiDecodeNext
    BY <2>18 DEF OthersStay
  <2>19. CASE OthersStay("capture") /\ CaptureNext
    BY <2>19 DEF OthersStay
  <2> QED
    BY <1>2, <2>1, <2>2, <2>3, <2>4, <2>5, <2>6, <2>7, <2>8, <2>9, <2>10,
       <2>11, <2>12, <2>13, <2>14, <2>15, <2>16, <2>17, <2>18, <2>19, Zenon DEF PServicesNext
<1> QED BY <1>1, <1>2

(* The pod that is opened is the one the connection string names, and no serial  *)
(* port stays open behind another connection (open_transport, _open_usb), next   *)
(* to whatever other part of the SDK runs.                                       *)
THEOREM NamedPodIsOpenedAmongOthers == PServicesSpec => []OpenHolds
<1>1. PServicesSpec => OpenSpec
  <2>1. PServicesInit => OpenInit
    BY DEF PServicesInit
  <2> QED BY <2>1, EachPartSteps, PTL DEF PServicesSpec, OpenSpec
<1>2. OpenInv => OpenHolds
  BY DEF OpenHolds
<1> QED BY <1>1, <1>2, NamedPodIsOpened, PTL

(* A plug gets a connection of its own settings (plug.py), a build reported as   *)
(* passed is whole (ci.py), and the fixtures leave nothing behind                *)
(* (pytest_plugin.py), next to whatever other part of the SDK runs.              *)
THEOREM HarnessesKeepTheirPromises == PServicesSpec => []HarnessHolds
<1>1. PServicesInit => PoolInit /\ BuildInit /\ FixturesInit
  BY DEF PServicesInit
<1>2. PServicesSpec => PoolSpec /\ BuildSpec /\ FixturesSpec
  BY <1>1, EachPartSteps, PTL DEF PServicesSpec, PoolSpec, BuildSpec, FixturesSpec
<1>3. PoolInv /\ BuildInv /\ FixturesInv => HarnessHolds
  BY DEF HarnessHolds
<1> QED BY <1>2, <1>3, OnePooledConnection, PassedBuildsAreWhole, FixturesTidyUp, PTL

(* A sample is scaled by the range it was taken in, and a waveform goes to the   *)
(* output it was made for (the analog calls of client.py), next to whatever      *)
(* other part of the SDK runs.                                                   *)
THEOREM BenchFollowsThePodAmongOthers == PServicesSpec => []BenchHolds
<1>1. PServicesSpec => BenchSpec
  <2>1. PServicesInit => BenchInit
    BY DEF PServicesInit
  <2> QED BY <2>1, EachPartSteps, PTL DEF PServicesSpec, BenchSpec
<1>2. BenchInv => BenchHolds
  BY DEF BenchHolds
<1> QED BY <1>1, <1>2, BenchFollowsThePod, PTL

(* A command on the console or over TCP gets its own answer and a raw link every  *)
(* byte after the "ready" (transport/serial.py, transport/tcp.py), next to        *)
(* whatever other part of the SDK runs.                                           *)
THEOREM LinksAnswerAmongOthers == PServicesSpec => []LinkHolds
<1>1. PServicesInit => ConInit /\ TcpInit
  BY DEF PServicesInit
<1>2. PServicesSpec => ConSpec /\ TcpSpec
  BY <1>1, EachPartSteps, PTL DEF PServicesSpec, ConSpec, TcpSpec
<1>3. ConInv /\ TcpInv => LinkHolds
  BY DEF LinkHolds
<1> QED BY <1>2, <1>3, OutputIsItsOwn, RepliesAreWhole, PTL

(* A verified image is in the flash and its neighbours are as they were (spi.py), *)
(* the logged sets come out whole (motor_emulator.py), and neither job leaves a   *)
(* pin or the SPI master held, next to whatever other part of the SDK runs.       *)
THEOREM JobsAreDoneAmongOthers == PServicesSpec => []JobsHold
<1>1. PServicesInit => SpiInit /\ MotorInit
  BY DEF PServicesInit
<1>2. PServicesSpec => SpiSpec /\ MotorSpec
  BY <1>1, EachPartSteps, PTL DEF PServicesSpec, SpiSpec, MotorSpec
<1>3. SpiInv /\ MotorInv => JobsHold
  BY DEF JobsHold
<1> QED BY <1>2, <1>3, ImageIsInPlace, LoggedSetsAreWhole, PTL

(* An agent may call a read-only tool unasked, repeat an idempotent one and trust *)
(* a non-destructive one (server.py), and a wiring argument it leaves out is what *)
(* it was told of the profile (client.py, session.py), next to whatever other     *)
(* part of the SDK runs.                                                          *)
THEOREM AgentIsServedAmongOthers == PServicesSpec => []AgentHolds
<1>1. PServicesInit => ToolsInit /\ WiringInit
  BY DEF PServicesInit
<1>2. PServicesSpec => ToolsSpec /\ WiringSpec
  BY <1>1, EachPartSteps, PTL DEF PServicesSpec, ToolsSpec, WiringSpec
<1>3. ToolsInv /\ WiringInv => AgentHolds
  BY DEF AgentHolds
<1> QED BY <1>2, <1>3, ToolsAsPublished, WiringIsAsTold, PTL

(* A CAN session loses and repeats no frame unnoticed (can.py), a readable pin    *)
(* keeps a dial from plaintext (transport/tls.py), a login outlives refreshes and *)
(* crashes (cli_login.py), and no board stays leased (aivision/client.py), next   *)
(* to whatever other part of the SDK runs.                                        *)
THEOREM SessionsKeepAmongOthers == PServicesSpec => [](CanInv /\ PinInv /\ LoginInv /\ VisionInv)
<1>1. PServicesInit => CanInit /\ PinInit /\ LoginInit /\ VisionInit
  BY DEF PServicesInit
<1>2. PServicesSpec => CanSpec /\ PinSpec /\ LoginSpec /\ VisionSpec
  BY <1>1, EachPartSteps, PTL DEF PServicesSpec, CanSpec, PinSpec, LoginSpec, VisionSpec
<1> QED BY <1>2, CanSessionKeeps, PinsFollow, LoginSurvives, BoardLeaseFollows, PTL

(* A line and a capture are set up only where their own part runs: there what is   *)
(* kept of them holds from the start.                                              *)
RecordedKept == (part = "uart line" => UartKept) /\ (part = "capture" => CaptureKept)

(* A decoder reports what was sent over its line (decode.py, i2c.py), and a capture *)
(* is what the pod recorded, averaged to the nearest count (capture.py), next to    *)
(* whatever other part of the SDK runs.                                             *)
THEOREM DecodersHoldAmongOthers == PServicesSpec => []DecodersHold
<1>1. PServicesInit => RecordedKept
  BY UartStarts, CaptureStarts DEF PServicesInit, RecordedKept
<1>2. RecordedKept /\ [PServicesNext]_pServicesVars => RecordedKept'
  BY EachPartSteps, UartStep, CaptureSteps DEF RecordedKept
<1>3. PServicesSpec => I2cSpec /\ SpiDecodeSpec
  <2>1. PServicesInit => I2cInit /\ SpiDecodeInit
    BY DEF PServicesInit
  <2> QED BY <2>1, EachPartSteps, PTL DEF PServicesSpec, I2cSpec, SpiDecodeSpec
<1>4. RecordedKept /\ I2cInv /\ SpiDecodeInv => DecodersHold
  BY UartIsSafe, CaptureIsSafe DEF RecordedKept, DecodersHold
<1> QED BY <1>1, <1>2, <1>3, <1>4, I2cHeardAsSaid, SpiWordsAsSent, PTL DEF PServicesSpec
=============================================================================
