# Formal models of embeddedci-python

TLA+ models of the Python SDK for the embeddedci BenchPod (`src/packages/embeddedci`),
its MCP server (`embeddedci-mcp`) and its OpenHTF plug (`embeddedci-openhtf`), the TLC
configurations that check them on small instances, and TLAPS proofs of the results that
matter most. File names below are relative to `embeddedci/benchpod/` unless another package is
named.

## 1. Inventory

The SDK lets a test drive a hardware pod (power, GPIO, UART, CAN, analog replay, SWD) over
USB serial, LAN TCP or the embeddedci.com cloud. The firmware and the cloud server are not in
this repository; they appear in the models only as the client code sees them.

| Component | State | Operations | What is hard | What makes it correct |
|---|---|---|---|---|
| Device lease (`lease.py`, `client.py` open/close) | lease id, `_held`, `_stop`, heartbeat thread; the server's table | acquire with polling, renew every `max(10, ttl/3)` s, release | two threads and the server; a `_post` that timed out and is served later; crash; server rollback | who may rely on the lease is alone; a gone client frees the device |
| MCP session (`embeddedci_mcp/session.py`, `server.py`) | one pod, idle timers, reconnect parameters, UART and CAN handles, one lock | every tool; connect, disconnect, idle release, transparent reconnect | timer threads beside tool threads; a timer that fired cannot be cancelled; `uart_read` works outside the lock | no tool loses its pod; a leased idle pod is given back; no link is left open |
| UART console (`uart.py`) | bounded text buffer, cursor, `_stop`, `_closed`, `error`, condition variable | reader thread; `read`, `read_until`, `expect`; `close` | several waiters for different things on one condition; overflow under a cursor; link failure against close | in order, once, no lost wake-up, end is heard, failure is told from close |
| Cloud command channel (`transport/cloud.py`) | shared session token, token lock | `command`, `_dial`, mint, renew after 401, retry after edge failure | retry of something already done; threads sharing a token; late requests | no write runs twice; a renewed token is a newer one |
| SWD flash bridge (`flash.py`) | OpenOCD process, loopback socket, pod link, three events, attempts | arm, spawn, accept, two pumps, stall monitor, timeout, judge, retry | five threads of control and a process ending in any order | nothing left running; a clean end is not a drop; a success is not repeated; a run ends |
| CAN bus (`can.py`, MCP CAN tools) | the pod's ring, a local buffer, responder rules | `read`, `read_until`, `collect`, `add_responder`, `close` | destructive reads, partial failures | a drained frame is delivered, still buffered or lost in a way with a name; rules go with the session |
| Gateware image and outputs (`client.py`, `capabilities.py`, `replay.py`, `control_loop.py`) | the running FPGA image, cached capabilities, running outputs | image switch, arm, stop | stale and merged caches, lost replies | what is armed suits the image that runs |
| Analog path (`client.py`) | ADC range and fit, the routed output, the current loop, waveform handles | `capture_adc`, `adc_range`, `dac_route`, `dac_play`, `adc_dc`, calibrations | several clients; the fit of a range that moved unseen | samples are scaled for the range they were taken in; a waveform reaches the output it was made for |
| LAN TLS and pins (`transport/tls.py`, `tcp.py`, certificate install in `client.py`) | `known_pods.json`, per-process cache | pin on first use, check, re-pin | two processes on a file, crash between pod and file | a pod that was pinned is never talked to unverified, and the pin follows the certificate |
| Connections (`connection.py`, `transport/__init__.py`, `serial.py`, `usblink.py`) | the port list, open ports | resolve a string, probe ports and links, upgrade a console to TCP | cables moved meanwhile; pods that do not answer | the named pod, and no guess |
| TCP protocol, serial console (`transport/tcp.py`, `serial.py`) | one exchange at a time; text mode or raw mode | command, query, upload, raw links | replies cut anywhere; a reply that comes after its timeout; a handshake that fails half way | an answer is the command's own; no console is left deaf |
| OpenHTF plug (`embeddedci_openhtf/plug.py`) | pool of persistent pods | acquire, tearDown, close all | pool emptied while a pod is handed out; the `id()` of an object that is gone | a plug's pod is open, and its own settings' |
| CI reporting, pytest fixtures (`ci.py`, `upload_build.py`, `pytest_plugin.py`) | a build on the server; what a test switched on | create, upload, finish; fixtures | lost answers, killed runs, failing teardowns | a passed build is whole; nothing is left on for the next test |
| Login session (`cli_login.py`, twice) | the token file, a lock per module | `access_token`, refresh with rotation | processes and modules without a common lock; crash between answer and save | the login survives its refreshes |
| MCP tools and their hints (`server.py`), wiring profiles (`wiring.py`, `client.py`) | the pod's switches; the profile a connection goes by | every tool; `set_wiring`, `save_wiring` | retries of what was half done; profiles edited elsewhere | a read-only, idempotent or gentle tool is one; an argument left out means what the agent was told |
| SPI flash, motor stack (`spi.py`, `motor_emulator.py`) | chip, reset line, SPI master; log FIFO, battery model | erase, program, verify; open, configure, log | chunk and sector boundaries; undoing after a failure | the image is in place, whole log sets, nothing left held |
| Decoders, captures (`decode.py`, `i2c.py`, `capture.py`) | none that outlives a call | `decode_uart`, `decode_spi`, `decode_samples`, chunks to captures, averaging | fractional bit times, truncated ends, other traffic, chunk boundaries, two's complement | what is decoded is what was sent; a capture is what was recorded |
| AI Vision client (`aivision/client.py`) | the board's lease, a renewal thread, the cloud token | acquire, renew, release, requests | a renewal that outlives its release | a released board is free |
| Power profile, DSP, GPS and waveforms, sensors, server API, MCP models, OpenHTF phases | no shared mutable state worth a state machine | floating point, request builders, HTTP reads, schemas | | see the notes in `PROJECT.json` |

How they interact: `BenchPod.__init__` opens a transport and acquires the lease; its heartbeat
and every command use the same `CloudTransport` token. UART and flash open a raw link through
the transport. The MCP session owns one `BenchPod` and closes it (and so releases the lease)
from tools and from timers. The OpenHTF plug keeps `BenchPod`s in a process-wide pool.

The hazards, each at its line and with the properties that cover it, are in `PROJECT.json`
(`hazards`); a note says why one has no property, or what the property excuses of it.

## 2. Modules

| Module | Models | State and actions against the code |
|---|---|---|
| `DeviceLease` | `lease.py` and its use in `client.py` | `_post` is three actions: sent (`Send` inside `Connect`, `PollAgain`, `HbRenew`, `SendRelease`), served (`ServeMain`, `ServeRenewal`, `ServeLate`), and answered or abandoned. `Acquire*`, `Hb*`, `Release*` are the branches of `acquire`, of the heartbeat loop and of `release`. The server's table is `holder` and `left`. |
| `ExclusiveDevice` | the abstract promise of the lease | one user at a time |
| `DeviceLeaseProofs` | proofs about `DeviceLease` | |
| `McpSession` | `session.py` and the tools of `server.py`, as `Kinds` | a tool call is entry under the lock, an optional opening of the pod, a body, an end. `CheckIdle`, `CheckIdleBusy` and `Rearm` are `_check_idle`; `Touch`, `CancelTimer`, `Schedule`, `CloseDevice`, `Forget` are the methods of those names. |
| `McpSessionProofs` | proofs about `McpSession` | |
| `UartSession` | `uart.py` | one action per block under the lock, per link operation and per unlocked look at `_stop`. `Append` is `_append_locked` with the trim; `TurnUntil` and `TurnRead` one turn of the waiting loops. |
| `LossyStream` | the abstract promise of the console | in order, once, lossy only beyond the buffer |
| `CloudCommand` | `CloudTransport.command`, `_dial`, `_session_token`, `_invalidate_token` | `Send`, `Mint*`, `Renew`, `Retry`, `ReturnAnswer`, `Lose` are the client; `Network` is the server, the edge and the pod. |
| `FlashBridge` | `flash()` and `_run_bridge` | the caller (`Arm` ... `NextAttempt`), `oc_to_pod` (`P1*`), `pod_to_oc` (`P2*`), `stall_monitor` (`Pm*`), OpenOCD (`Oc*`) and the pod. |
| `GatewareImage` | the image, the capability cache and the outputs of `client.py`, `merge`, the handles of `replay.py` and `control_loop.py` | `FreshCaps` and `ReadCaps` are the property `capabilities`; `Call`, `Look`, `Ensure`, `Switch*`, `ServerSees`, `WaitEnds`, `Arm*` are the steps of `control_loop`, `_arm_replay` and `replay_waveform` through `_ensure_image` and `_wait_for_server_caps`; `Stop*` the handles. `Announce`, `Boot`, `Accepts` and `Play` are the pod. |
| `GatewareImageProofs` | proofs about `GatewareImage` | |
| `CanBus` | `can.py` and the CAN tools of `server.py` | frames are numbered as they arrive, so buffers are sets. `Pull`, `Read`, `Match`, `Gather`, `Collected` are the reads; `CloseClears` and `CloseDisables` the two halves of `close()`. |
| `PinStore` | `tls.py`, `TcpTransport._dial` and `_connect`, `set_lan_tls_cert`, `regenerate_lan_tls` | each process's call is a record with a `pc`; reading the file and replacing it are two actions, as in the code. |
| `SerialConsole` | text commands and the two raw modes of `serial.py` | the two directions of the wire and the pod's output buffer are sequences of tokens; a timeout leaves them as they are. Each raw mode has its quit byte, which means nothing to the other (`QuitOf`); any text may have a ">" in it, at which a read may end (`EndsInPrompt`). |
| `TcpExchange` | `command`, `query`, `upload`, raw mode of `tcp.py` | a stream of lines of `LineLen` bytes, cut anywhere by `recv()`. |
| `PodConnection` | `connection.py`, `open_transport`, `_open_usb`, `autodetect_port` | one action per probe, per link asked and per step of the console, beside `Replug`. |
| `PodPool` | the pool of `plug.py` | `Release`, `TearDown` and `close_persistent_benchpods` against each other; `idOf` is Python's `id()`. |
| `BuildReport` | `ci.py`, `upload_build.py` | each POST has the outcomes done, failed, and done with a lost answer. |
| `BenchFixtures` | the fixtures of `pytest_plugin.py` | what is switched on, or saved, is a set, `left`; a command or a save may fail, or run and lose its reply ("litter" is a waveform that its fixture does not know of); a process may be killed. |
| `LoginSession` | `access_token` of both `cli_login.py` | the file, the server's rotation, and callers with the lock of their module. |
| `AnalogBench` | the analog calls of `client.py` | relays and ranges at the pod, what the server says of them (`serverCaps`), and what the client remembers. `CapsRead` is `capabilities` with `merge`; `Follow` is `_follow_adc_range`. |
| `VisionBoard` | `aivision/client.py`, `aivision/cloud.py` | the board's lease, the renewal threads, a request with one retry. |
| `McpTools` | every tool of `server.py` that commands the pod | a table: a tool, its hint, its commands in order. `After` is the pod after the first n of them. That an output is connected to the DAC (`routed`) and that a measurement of the pod's own drove one (`driven`) are switches of their own. |
| `SpiFlash` | `spi.py` and `open_spi`, `spi_flash` of `client.py` | a chip of cells; one action per erase command and per chunk. |
| `WiringProfile` | the wiring calls of `client.py`, `session.py` and `server.py` | the server's stored profile, the connection's, and what the agent was told. |
| `MotorStack` | `motor_emulator.py`, `open_motor_emulator` | the undo list of the opening and what strayed from it (`astray`), the log FIFO read in pieces, the battery model and its scale. |
| `UartDecode` | `decode_uart` | the line is built from the characters that were sent, in ticks, and sampled from any phase; one action per turn of the outer loop. |
| `I2cDecode` | `decode_samples` of `i2c.py` | a bus that may do anything legal, one sample per step, and `Hear`, one turn of the decoder's loop. |
| `SpiDecode` | `decode_spi` | a master in one of the four modes and the traffic of others; `ReadSample` is one turn. |
| `CaptureStream` | `capture_la`, `capture_correlated`, `_expand_la_edges`, `average_conversions` | a pod that sends dense samples and changes in chunks of any size. |
| `MCPodServices` | the nineteen modules from `CanBus` to `CaptureStream`, side by side | see section 3 |
| `MCPodSession` | `DeviceLease`, `McpSession` and `GatewareImage`, side by side | see section 3 |
| `MCUnreliableLink` | `UartSession` and `FlashBridge`, side by side | see section 3 |
| `UnreliableLinkProofs` | proofs about `UartSession`, `FlashBridge` and `CloudCommand`, each by itself | |
| `HostAndBenchProofs` | proofs about `LoginSession`, `PinStore`, `BenchFixtures`, `WiringProfile`, `PodPool`, `BuildReport`, `CanBus`, `PodConnection`, `VisionBoard`, `AnalogBench`, each by itself | |
| `LinksAndJobsProofs` | proofs about `SerialConsole`, `TcpExchange`, `SpiFlash`, `MotorStack`, `McpTools`, each by itself | |
| `DecoderProofs` | proofs about `UartDecode`, `I2cDecode`, `SpiDecode`, `CaptureStream`, each by itself | |
| `PodServicesProofs` | what those three prove, in the composition `MCPodServices` | |
| `MC*` | instances for TLC | |

Operators preceded by the comment "a plausible bug" are variants of one definition with a bug in
it. No specification uses them; they are kept to show that each property notices the bug
(`mutants` in `PROJECT.json` pairs them).

Where data was abstracted: characters and bytes of the console are positions in the stream, so
the buffer is three counters; SWD frames are numbers; a command is a plain read, something else,
or a tunnel; a token is the order in which it was minted; times are ticks. A `Capabilities` object
is the set of its flags that are True. The history variables `stale`, `unsure` and `doubt` of
`GatewareImage` record when flags came from a lagging server, a failed status or before a switch
whose reply was lost; no guard reads them.

## 3. What the runs check

| Run | Instance | Shows |
|---|---|---|
| `lease` | 2 clients, TTL 4, everything else 1 tick, 1 abandoned request, a server that may lack or lose the routes, a renew that does not revive | safety of the lease and its inductive invariant; the refinement of `ExclusiveDevice` |
| `pod_session` | below | the liveness of the lease; the MCP session's safety, and that an unused session gives the lease back; images, flags and outputs |
| `mcp_idle` | `McpSession` as in `pod_session`, with 3 timers | finding 1 |
| `unreliable_link` | below | the console's safety and liveness and its refinement of `LossyStream`; the bridge's safety and liveness |
| `uart_closed` | `UartSession` as in `unreliable_link` | finding 2 |
| `cloud` | 2 calls, 1 retry delay, 2 tokens | at most once, tokens and termination |
| `flash_hang` | `FlashBridge`, 1 attempt, 1 frame | finding 3 |
| `gateware_silent` | `GatewareImage` as in `pod_session` | finding 4 |
| `fixtures_litter` | `BenchFixtures` as in `pod_services` | finding 5 |
| `tools_drive` | `McpTools`, 2 calls | finding 6 |
| `spi_reset` | `SpiFlash` as in `pod_services` | finding 7 |
| `pod_services` | below | the invariants of the nineteen modules from `CanBus` to `CaptureStream` |

`pod_session`, `unreliable_link` and `pod_services` put parts of the SDK that share no variable into one
state space: `part` is chosen at the start, one part moves, the others stay as they began (one of their
initial states, where they have many), so that the reachable states are the sum of the parts' and not
their product. In `pod_services` the `VIEW` `RunningState` is the part and the variables of that part:
the variables of the others are constant, whatever they are. The fairness of a part is that of its
own specification, restricted to the behaviours in which it runs.

| Run and part | Instance | Properties |
|---|---|---|
| `pod_session`, "lease" | 1 client and the web UI, TTL 5, interval and waiting time 2, 2 abandoned requests, a server where a renew revives a lapsed lease | `DeviceComesFree`, `AcquireReturns` |
| `pod_session`, "mcp" | 2 tool threads, 2 timer threads, 2 links, idle timeout 2, retry 1 | `LockedToolKeepsPod`, `LeaseIsWatched`, `ReopensWhatWasWanted`, `NoStrayLink`, `IdleLeaseComesFree` |
| `pod_session`, "image" | 2 outputs, pods with one image and with two, with and without a server | `CapsFollowImage`, `ArmedSuitsImage`, `StoppedIsOff`, `CallsReturn` |
| `unreliable_link`, "uart" | 2 callers, 5 bytes in 4 characters, chunks of 2, a buffer of 3, a pattern of 2 that occurs twice | `NoLostWakeup`, `FailureIsTold`, `InOrderOnce`, `EndIsHeard`, `CloseStopsReader` |
| `unreliable_link`, "flash" | 2 attempts, up to 3 frames, 2 in flight | `NothingLeftRunning`, `CleanEndIsNotADrop`, `NeverReflashed`, `DropEndsRun`, `ConnectedRunEnds` |

Each property of `pod_services` is the invariant of one part or of a few related ones; it names what it
consists of:

| Property | Parts and instance |
|---|---|
| `CanInv` | 3 frames, a ring of 2, pulls of 2, 1 responder rule |
| `PinInv` | 2 processes, 2 pods of which one changes its certificate, 2 operations |
| `LinkHolds` | `SerialConsole` with 2 commands; `TcpExchange` with 4 lines of 3 bytes and 2 raw bytes |
| `OpenHolds` | 2 pods, 3 ports, cables moved once |
| `HarnessHolds` | `PodPool` with 2 tests, 2 settings objects, 2 ids, 3 connections; `BuildReport` with 2 artifacts; `BenchFixtures` with 2 sessions of 1 test |
| `LoginInv` | 3 callers under 2 locks in one process, 3 tokens, 4 refreshes |
| `BenchHolds` | 2 voltage outputs, 1 waveform |
| `VisionInv` | 2 renewal threads, 3 leases |
| `AgentHolds` | `McpTools` with 2 calls one after the other from any state of the pod they reach; `WiringProfile` with 2 profiles and 2 edits from elsewhere |
| `JobsHold` | `SpiFlash` with 8 cells, sectors of 2, chunks and erase steps of 3, every place and size of an image; `MotorStack` with a FIFO of 4 words read in threes, 2 sets |
| `DecodersHold` | `UartDecode` with 2 characters of 2 bits at 3 and 3.5 samples a bit, every phase, parity, stop and end; `I2cDecode` with bytes of 2 bits, 9 bits, 3 STARTs; `SpiDecode` with words of 2 bits, 5 clocks, 2 selections, the four modes; `CaptureStream` with 3 counts and 3 words |

Their bounds: a second frame, process, caller, thread, command or selection meets what the first left
behind, and the sizes are chosen so that the boundaries do not coincide (chunks of 3 in sectors
of 2, reads of 3 words in sets of 2, bits of 3.5 samples). Three certificates, tokens or leases tell the
newest from the one before and the one before that. Deadlock is not checked in this run because most
parts come to an end: a job, a session or a capture is over, or its bound is used up.

Why the bounds are enough. *Lease*: exclusion is a matter of two contenders, and the times satisfy
`2 * PostTime + Interval < TTL` with the smallest TTL that does, so a slower heartbeat shows at
once. One abandoned request at a time is a stale renew, lease or release of either client; the
liveness run has two. *MCP*: two workers give
a locked tool beside an unlocked one; two timers give the one left behind by a reconnect and the
new one; when every timer thread of the bound is in use no call that would arm another starts.
*UART*: five bytes with a split character, in chunks of two, overflow a buffer of three both
before and after the cursor; two callers wait for different things. *Cloud*: a token can be
renewed by one call while the other is at the server, and one delay gives the first try, the
retry and the giving up. *Flash*: the second attempt is the last, three frames with two in flight
put a frame in each of the pumps while one is at the pod. *Gateware*: the second output
replaces the first; image switches and reads are not bounded. Deadlock is checked except in `cloud`
(the calls end), `unreliable_link` and `flash_hang` (`flash()` returns or raises) and `pod_services`
(its jobs end).

Every module has a type invariant. Those of `DeviceLease`, `McpSession`, `UartSession`,
`GatewareImage` (`Typed`, of `UartSession` `ConsoleIsTyped`), `FlashBridge` (`BridgeIsTyped`) and `CloudCommand` (`CloudIsTyped`) are
theorems; those of the parts of `pod_services` are conjuncts of the invariants it checks, and proved
with them.

Symmetry is used in `lease` only, whose properties are all safety properties.

### Fairness, and why the code justifies it

* `DeviceLease`: time passes; each client's own threads take their enabled steps; a request that
  lingers in the network arrives or is lost. `_post` has an HTTP timeout, which the guard of
  `Tick` turns into a deadline. Nothing obliges a user to connect or close, or the server to
  answer.
* `McpSession`: time and the `threading.Timer` threads. No tool call need be made, and none that
  was made need end: a call in progress is excluded by the property, not by fairness.
* `UartSession`: the reader thread runs, a notified caller gets the lock, `close()` goes on past
  the setting of `_stop`. Timeouts and the DUT are not fair, so nothing is shown by running out
  of time.
* `CloudCommand`: the calling threads. `Lose` is among their steps because `urlopen` and the
  upgrade have timeouts; a client step never waits for the network.
* `FlashBridge`: the caller, the two pumps, and a signalled OpenOCD dies. OpenOCD may hang, the
  pod may be silent, the stall monitor may never fire. That `timeout` fires at last is the
  antecedent of `ConnectedRunEnds` and `TimeoutBoundsRun`, and of nothing else.
* `GatewareImage`: the client's thread, whose commands return or time out. The pod need not
  announce its new image; `_wait_for_server_caps` has a deadline.

## 4. Findings

1. **The idle check releases a session that is in use** (`mcp_idle`). `session.py:12` promises a
   release "after `idle_timeout` seconds without a tool call". `_last_used` is set only when a
   call through `require` or `connect` begins: after a locked tool that lasted longer than the
   timeout the next check releases at once, and `uart_read`, `uart_write`, `can_write` and
   `can_respond` do not count, so a waiting `uart_read` loses its link.
2. **`closed` may stay `False` after `close()`** (`uart_closed`). `close()` sets `_stop` before it
   closes the link; a reader thread that is at its loop test leaves the loop without setting
   `_closed` or notifying. The property docstring (`uart.py:237`) says otherwise, and a caller in
   `read_until` then sleeps to its own timeout.
3. **`timeout` does not bound an OpenOCD that never connects** (`flash_hang`). The accept loop
   ends only when OpenOCD connects or exits, and `timeout` is applied after it.
   `packages/embeddedci/README.md:654` says that it "bounds one OpenOCD run".
4. **A deep replay may be armed on an image that cannot play it** (`gateware_silent`). The comment
   at `client.py:2236` promises to switch or refuse "rather than arm a silent DAC". The guard reads
   `caps.dac_replay` first, and after a failed status read all flags are False. A merge with a
   server that lags, after a switch made by `fpga_image` itself or a wait that ran out, and an
   `fpga_image` whose reply was lost lead to the same state. `ArmedSuitsImage` shows that nothing
   else does.
5. **A waveform may stay in the library** (`fixtures_litter`). `benchpod_waveforms` notes what a save
   returned; one that was stored and whose answer was lost is not deleted, where the docstring
   (`pytest_plugin.py:588-590`) promises that a test "never leaves library litter behind".
6. **Tools that drive an output are not marked destructive** (`tools_drive`).
   `packages/embeddedci-mcp/README.md:460-461` says that "tools that power, flash or drive voltages are
   marked destructive". `adc_range(test=True)` drives the 5 V output at 1 V and 3.5 V; `analog_path` and
   the captures from `cal1` and `cal2` connect the DAC, and what it plays or holds, to an output.
7. **A target may stay in reset after `spi_flash`** (`spi_reset`). It "is released again afterwards, also on
   failure" (`client.py:1634-1635`), but the command that holds it is sent before the `try`: with its
   reply lost nothing releases it.

### What the models show besides

These are facts about the code that the properties take as their exceptions; each is a history variable
or a named cause in its module, so that the property says that nothing else leads there. Three of them
contradict what the repository says of itself, though no run of its own shows it:

* **A raw mode is quit with the other mode's byte.** `_console_raw_handshake_inner` sends the quit byte of
  the mode it is about to enter, "so the pod leaves raw mode, then this command is parsed by the console
  rather than swallowed as protocol bytes" (`transport/serial.py:556-560`). A pod that a lost quit left in
  the other mode takes both as data, until its watchdog ends the mode (`SerialConsole`, `QuitOf`, `unquit`).
* **A console reply is cut at a ">".** `_read_until_prompt` reads "until the trailing `"> "` prompt"
  (`transport/serial.py:431`), but ends at any text that ends in ">" after some read. What follows stays on
  the wire; the flush of the next command drops it, if it has come by then (`AnswerIsOwn`).
* **The server's word goes over the pod's.** `capabilities` merges the server's `cap.*` over the status it
  has just read. A server that has not heard of a range switch puts the old fit back, and captures are
  scaled with it, where `client.py:1262` says that the fit is kept "on the range in use" (`AnalogBench`,
  `lagged`).

The others are not spoken of:

* `can_read` of the MCP server with a timeout collects every frame and returns `max_frames` of
  them; the others are gone (`CanBus`, fate "over max_frames"). `close()` goes on when clearing the
  responder rules fails (`leaked`).
* A pin just set by one process is lost in the write of another (`PinStore`, `overwritten`).
* A reply that comes after its timeout may end the next console command's reply when the pod was
  busy, or in a raw mode, while the input was thrown away (`SerialConsole`, `late`). A quit that could not
  be sent leaves its mode on (`unquit`, `NotWedged`).
* A run of OpenOCD that ends before it connects is a failure even with exit code 0, and is repeated when it
  complained of the target (`FlashBridge`, `Bridged`): `NeverReflashed` is about the runs that connected.
* `replay_waveform` through the server moves an output without a word to `_routed_dac_path`, as
  `analog_path` does from another client (`AnalogBench`, `ServerReplay`, `routeDoubt`).
* `upload_artifact` drops an artifact without a word when no build could be created
  (`BuildReport`, `skipped`); a lost answer may leave a second build (`uncreated`).
* The reply to the command that lifts the DAC limits is lost: the teardown does not restore them
  (`BenchFixtures`, `excused`).
* The SDK and the MCP server each have a lock of their own for "one refresh at a time"
  (`LoginSession`, `LockOf`); a caller can be refused because of the other.
* `release()` of a vision client waits two seconds for a renewal; one answered later stores a
  lease in a client that has released (`VisionBoard`, `overlap`).
* A wiring profile given by `set_wiring` is gone after an idle reconnect (`WiringProfile`, `reopened`).
* `open_spi` has no session to close when its reply is lost, so the SPI master stays armed (`SpiFlash`,
  `missed`). `PROGRAMN` is kept by a motor stack whose SPI close fails while it opens, and `DONE` by one
  whose release of `PROGRAMN` fails (`MotorStack`, `astray`). `NothingHeld` and `StackLetsGo` name for each
  thing that is left the command whose loss leaves it.
* A transfer of log words that is lost shifts every later set (`MotorStack`, "words").
* `decode_uart` accepts two samples a bit. It reads every phase and every run of characters right
  from three on: the start edge is seen up to a sample late, and rounding adds half a sample.
  `UartDecodeAssumption` asks for three. A lone low sample is passed over only when it comes more than a bit
  before a character: the line is looked at again half a bit behind its edge, and the search goes on from
  the sample after the edge (`FirstAt`).
* An I2C transaction that no STOP ends is not returned, so `complete` is always True and a message
  without an address does not occur (`I2cDecode`).
* `average_conversions` adds the wrap span to every mean, which is right for a fit that unwraps; with
  another fit the volts of an average are off by the span (`AverageIsLinear` says for which).

## 5. What is proved

The theorems hold for all values of the constants that meet the named assumptions. Each is
about the specification without fairness (`SafetySpec`, `SessionSafetySpec` or `ImageSafetySpec` where there is one),
and so about the one with it too; those about `FlashBridge` and `CloudCommand` do not use the fairness in `BridgeSpec` and
`CloudSpec`.

* `DeviceLeaseProofs`, from `NamesAssumption`, `TimesAssumption`, `ServerAssumption`,
  `BoundAssumption` and `HeartbeatOutrunsTTL`: `Typed`, `LeaseInvariant`, `HoldsWhatItBelieves`,
  `OneUser`. `HeldIsExclusive` is not inductive: a renewal that was granted may be read a `_post`
  later, when part of the TTL is gone. `LeaseInv` strengthens it by what each stage knows.
  `GrantKnown`: an acquire that was answered "ok" and not yet read still has `TTL` less the time
  the call has lasted. `RenewalKnown`: the same of a renewal. `TrustedKnown`: a trusted client's
  lease has lost at most one interval and two posts. `Stages`: the clocks are within the
  code's deadlines, a call is under way only where the code makes one, and no late release
  exists before the client asked to release. The proof has one lemma per group of actions; a step of
  another client cannot take a table entry that is neither expired nor its own. `OneUser` maps a
  step to the entry or leaving of the client that moved, or to a stutter. `ReleasedForGood` adds
  `FinalKnown`: an acquire that is still on its way belongs to a client that never got a lease.
* `UnreliableLinkProofs`, about `UartSession`, from `StreamAssumption`: `ConsoleIsTyped`;
  `ConsoleStreams`, that every action is an arrival, a delivery or a stutter of `LossyStream`;
  `NoWakeupIsLost`, which is inductive given the types, because every change of what a caller waits for happens in `AppendChunk` or
  `AppendEnd`, which notify all; `FailuresAreTold`, by what the reader thread knows of the end
  (`EndKnown`).
* `GatewareImageProofs`, from `GatewareAssumption`: `Typed`, `CachedCapsFollow` and
  `DeepReplayIsHeard`. `CapsFollowImage` and `ArmedSuitsImage` become inductive with what the
  steps of a call hand on: a deep replay wants the deep image (`DeepTarget`), a call that waits
  for the server runs on the image it asked for (`WaitsOnTarget`), one about to arm on undoubted
  flags is on the deep image (`ArmsOnDeep`), and a pod with one image never gets as far as a switch
  for a deep replay (`OneImage`). `StoppedOutputsAreOff` is inductive given `Typed`.
* `McpSessionProofs`, from `IdleAssumption` and `NoneAssumption`: `Typed`, with `ArmedWaits` (an armed
  timer has time left, which a tick needs to stay within its type). `ToolsKeepThePod` rests on
  `LockIsHeld`: whoever is in a locked tool is the lock's owner, so neither `CheckIdle` nor another
  tool closes under it. `LeasesAreWatched` rests on `TimerIsKept`: `_idle_timer` names a timer still to
  run, and is None only without a lease. That is what `LeaseIsWatched` needs of `_check_idle`, which
  re-arms after it looked. `ReopensTheWanted` rests on `WantedIsKept`, the same fact without the
  exception for a tool at work: opening, forgetting and the idle release are the only three things that
  happen to it. `NoLinkIsLeftOpen`: `NoStrayLink` is inductive given `Typed` and `LockedToolKeepsPod`.
* `UnreliableLinkProofs` again, about `FlashBridge`, from `FlashAssumption`: `BridgeIsTyped`,
  `LeavesNothingRunning`, `OnlyDropsAreDrops` and `VerdictStands` (of the runs that OpenOCD took through the
  bridge: one that ended before is a failure whatever its code). `FlashInv` says what the caller's place
  tells of the link, the process and the verdict (`CallerKnows`), and that a pump which finds the link
  closed finds `openocd_exited` set (`PumpKnows`): the order of `SetExited` and `CloseBoth` is what the
  second theorem rests on. About `CloudCommand`, from `CloudAssumption`: `CloudIsTyped`;
  `RunIsPendingOrDone`, that `OnceInv` is inductive: runs, late requests and the pending one of a call
  that is no plain read add up to at most one, and only an answer that proves the pod has not seen the
  request leads to another; `RunsAtMostOnce` from it; `RejectedTokenIsDropped`, because after a 401 the
  shared token is newer than the rejected one, or none (`Newer`).

`HeartbeatOutrunsTTL` is a real assumption: the defaults (TTL 120 s, interval 40 s, post 15 s)
meet it, the smallest `lease_ttl` the code accepts (15 s, with an interval of 10 s) does not, and
then a lease may lapse between two renewals that succeed.

`HostAndBenchProofs`, `LinksAndJobsProofs` and `DecoderProofs` prove the invariants of the parts of
`pod_services`, each about the part's own specification. The invariant that a run checks is `...Inv`; where it is not
inductive as it stands, the one that is (`...Kept` for most parts) has the conjuncts named here. The
proofs have one lemma per action or per group of actions that touch the same variables.

* `CanBus`, from `CanAssumption`: `CanSessionKeeps`. `CanInv` is inductive as it stands. What a
  pull drains is the oldest part of the ring, which is a matter of cardinalities (`OldestComeFirst`),
  so the buffer stays older than the ring (`PullKeepsOrder`); then one lemma per action that reads.
* `LoginSession`, from `LoginAssumption`: `LoginSurvives`. `LoginKept` and `OneRefreshPerLock`
  are inductive with `CallersKnow`: while the newest tokens are with a caller nobody else can have
  them, because the server refreshes no others and one caller at a time is inside a lock. A timeout
  and the end of a process share a lemma (`LeavingHolds`).
* `PinStore`, from `PinAssumption`: `PinsFollow`. `NeverDowngraded` and `PinFollows` are
  inductive with `CallKnows`: what a call remembers of the pin is still so, and the certificate it
  was shown is the pod's or it is marked outdated. A step of one call that leaves the file alone goes
  through `OneCallMoves`; `PinSaveHolds` and `NewCertHolds` are the two steps that touch what others see.
* `BenchFixtures`, from `FixtureAssumption`: `FixturesTidyUp`. Whatever is switched on is excused, or
  `MayBeLeft` at this place of a session: the limits while they are remembered, pins while tests run, and
  what the fixtures of the test under way will undo (`Accounted`). The invariant that is checked speaks
  of the places between tests and sessions, where the last two are empty.
* `WiringProfile`, from `WiringAssumption`: `WiringIsAsTold`, with `ToldIsWired`: as long as the agent's
  connection is the one it was told of, the connection's own profile is what it was told.
* `PodPool`, from `PoolAssumption`: `OnePooledConnection`. `PoolKept` joins the two sides that a race
  could part: what a key names is live, shared and made with the object that has that `id()`
  (`PoolIs`), and no shared live connection is without a key or a closer (`SharedIsNamed`). That a
  plug holds its settings object keeps the `id()` from being given to another (`PlugsHave`, `IdsDiffer`).
* `BuildReport`, from `BuildAssumption`: `PassedBuildsAreWhole`. `BuildIsWhole` counts: the build has the
  artifacts asked for so far, but the one on its way and the skipped; `Shape` says what each place of the
  run has come to, `OwnBuild` that the other builds are untouched remains of lost answers.
* `PodConnection`, from `ConnectionAssumption`: `NamedPodIsOpened`. At each step of the route (`RouteTaken`)
  exactly one port, or none, is held (`PortsHeld`), and the pod at the chosen port is the named one unless a
  cable was moved since (`NamedIsOpened`).
* `VisionBoard`, from `VisionAssumption`: `BoardLeaseFollows`. Unless an answer was lost or a renewal
  outlived its release, the board's lease is the one held or the one a renewal brings (`LeaseIsKnown`),
  and the only thread that is not ended is the client's (`OnlyOurs`).
* `AnalogBench`, from `AnalogAssumption`: `BenchFollowsThePod`. `RangeKept` and `RouteKept` say what the
  client remembers while a reply has not been followed up: the reply knows, the cache does not yet. The fit
  and the range in the cache are one unless the server's block came between (`CacheIs`); what it put there
  while it lagged is the exception that the theorem states.
* `SerialConsole`, from `ConsoleAssumption`: `OutputIsItsOwn`. `ReplyComes`: while a call reads, its command
  is all that is on the way to the pod, or what was read, what is on the wire and what the pod holds back
  make up its own reply, and an answer is a beginning of it that ends in the prompt or in a ">"; `TextIsText`: no raw mode is on its way to a pod that is to read text. The lemmas
  are about queues that hand on their heads.
* `TcpExchange`, from `TcpAssumption`: `RepliesAreWhole`. What was used is a number of whole lines, or the
  rest of the stream (`BytesAre`); the lines taken are the ones read that count, in order (`TakenAre`).
* `SpiFlash`, from `SpiAssumption`: `ImageIsInPlace`. Erasing has covered the sectors before `erasePos`
  (`EraseGoesOn`), writing has put the image before `off` (`WriteGoesOn`), whatever the sizes of a sector, a
  chunk and an erase step are to each other; the lemmas are about the sectors that an interval touches. `HeldIs`
  says until which step the master and the reset line are still to be given back.
* `MotorStack`, from `MotorAssumption`: `LoggedSetsAreWhole`. While no words were lost, what the host
  carries over and what is in the FIFO are together one stream of sets (`Framed` in `LogIs`): a log that is
  appended at its end and cut at whole sets in front stays one, which takes the lemmas on sequences
  (`CutOff`, `SetsTaken`, `SetLogged`, `SetsOut`). `HeldOfStack` keeps the order in which the pins and the
  master are given back, from which `StackLetsGo` follows.
* `McpTools`, from `ToolsAssumption`: `ToolsAsPublished`, about every row of the table and so every tool of
  `server.py` that commands the pod. What a tool's hint allows its commands to put is a set (`StepsOf`), and
  one lemma per group of tools says that its rows are in it (`...Fit`); from there `ReadersKeep` and
  `GentleOnesKeep` follow for a call that comes any number of commands far (`AfterIs`: a field has what
  the last command that puts it put). `RetriesAreSafe` needs more, because the second call may find another
  pod than the first: `AgainSteps` says what the commands of an idempotent tool are at a given pod, and the
  only four that depend on it (`can_close`, `set_i2c_sensor`, `set_gps`, `gpio_write`) are looked at one by one.
* `I2cDecode`, from `I2cAssumption`: `I2cHeardAsSaid`. Of the open transaction the decoder has the whole
  bytes as messages and the bits over them as the byte so far (`OpenIs`, by `RestOf`); a bus that rests or
  starts again has said whole bytes since its START. `MessagesAre` is what one bit more does to the messages.
* `SpiDecode`, from `SpiDecodeAssumption`: `SpiWordsAsSent`. The same of words: what was sent since the
  slave was selected is the words that came out and the bits in the accumulator (`SpiDecodeKept`); while no
  slave is selected and CS is not captured, the clock is where the mode has it rest, so that no edge counts.
* `CaptureStream`, from `CaptureAssumption`: `CapturedAndAveraged`. At any time the host has a beginning of
  the samples and of the fill behind them (`CutStream`: a chunk may straddle the two), and a list of changes
  that tells the words so far (`Told`); lists of two chunks tell what both do (`ToldJoin`). That
  `_expand_la_edges` gives the words back is `ExpandIs`. An average is a sum: `TotalWithin` and
  `TotalShifted` bound and shift it, so that the code of a mean is the nearest one (`NearestCode`) and
  unwrapping each conversion or their mean is the same.
* `UartDecode`, from `UartDecodeAssumption`: `CharactersAsSent`. After m characters the search stands in the
  last bit of the m-th (`SearchedTo`), from where the line is high until the next starts (`QuietBefore`,
  `QuietAfter`); the edge found is the first sample of the next start bit, and the sample that the decoder
  rounds to for the centre of each bit lies in that bit (`CentreIs`, from three samples a bit on), so the
  bits it reads are the bits that were sent (`Assembled`). A search that ended has found every character
  that is complete in the capture (`NoneLeft`).

`SpiDecode` and `CaptureStream` need induction over data. The library's induction theorems are out of
the provers' reach here, but the principle is not: that a set with 0 and every successor has all
naturals (`NatInd`) follows from the least element of a set (`LeastOf`), and a fact about n is then a
fact about the set of those n it holds for. That gives the partial sums, joins and lists of changes that
a recursive function is made of (`SumFound`, `JoinsFound`, `RunsFound`) and what they add up to.

`PodServicesProofs` proves that what holds of the parts holds of them together. `EachPartSteps`: a
step of `PServicesNext` is a step of the part that runs and a stutter of every other, so
`PServicesSpec` implements each part's specification, and the parts' theorems give every property of
the run as the run checks it. A UART line and a capture are set up only where their own part runs
(anywhere else they would multiply the initial states), so `DecodersHoldAmongOthers` carries what is kept
of them under the condition on `part` (`RecordedKept`).

So every safety property that a run checks is a theorem too. Only model-checked: every liveness
property, because fairness and ENABLED are out of the prover's reach; and the seven violations of section 4,
which TLC shows on an instance. What the proofs do not reach in the models is what the models leave out
(section 6), and that the definitions are those of the code.

## 6. Not modelled, and why

* Lease: the commands a client sends while it holds the lease; a token's life (in
  `CloudCommand`).
* MCP: the captures and the power profile a session keeps; what a tool answers.
* UART: `write` (it does not touch the buffer), `text` and `lines` (views), the one-shot capture.
* Cloud: the frames and the upload pacing of a tunnel, wording of errors, and the lease routes,
  whose `_post` uses the same token with one renewal.
* Flash: how OpenOCD is found and its arguments; a marker split over two reads of its output;
  `KeyboardInterrupt`.
* Analog path and replay: the numbers of a calibration and the DSP of a replay; an ADC trigger.
* TLS: session resumption, a CA instead of a pin. TCP and serial: the encoding of requests, SWD
  packets. USB choice: mDNS itself.
* Decoders: which bit of a character weighs most, the times a frame carries, the packing of
  samples, the clamping of odd parameters. Captures: triggers and rates.
* SPI and motor: plain transfers, the numbers of the motor model. Vision: frames, detections,
  settings. pytest: options and reports. Wiring: the validation of a profile.
* Not at all: the power profile (a thin handle), signal processing, GPS and waveforms (floating
  point over arrays), sensor and GPIO builders (numbers into requests), the server API and the CLI
  settings (HTTP reads and a file), the MCP models, guide and header check (schemas and text),
  OpenHTF phases (factories over the SDK's calls). None of them keeps a state that an interleaving
  or a failure could harm.

## 7. Plan

Written, in this order: what shares a device between people (lease), what shares a process (MCP,
UART, cloud), the longest orchestration (flash), the caches (gateware); then the stores and links
(`CanBus`, `PinStore`, the wire protocols, connections), the harnesses, the tools and jobs, and the
pure decoders.

To come, in the models: the session's captures in `McpSession`; `write` and the one-shot capture in
`UartSession`; the frames of a tunnel; an abstract queue for `CanBus` to implement.

Theorems to come: the refinement of the abstract queue, once `CanBus` has it.
