---------------------------- MODULE PodConnection ----------------------------
(***************************************************************************)
(* From a connection string to a transport: connection.py resolves it,     *)
(* transport/__init__.py opens it.  For a pod on USB that means the local  *)
(* ends of USB network links, the probing of every serial port             *)
(* (transport/serial.py, autodetect_port), the console's status and the    *)
(* network address it names, one after the other, while cables may be      *)
(* moved.  An address is derived from its pod's identity, so it names the  *)
(* pod; a serial port names whatever is plugged in there.                  *)
(***************************************************************************)
EXTENDS Integers, Sequences, FiniteSets

CONSTANTS
    UsbPods,  \* pods, by their identity
    PortCount,\* bound: serial ports of the computer
    MaxMoves  \* bound: times the cables are moved

ASSUME ConnectionAssumption ==
    /\ UsbPods \subseteq Nat \ {0}
    /\ PortCount \in Nat /\ MaxMoves \in Nat

VARIABLES
    plugged,  \* what is on each serial port: a pod, or 0 for another device
    podVid,   \* the ports with a vendor id of POD_VIDS
    links,    \* pods with a USB network link to this computer
    spec,     \* ConnSpec: the kind, and the pod of usb:<name> (0 without one)
    scanned,  \* ports autodetect_port has been through
    found,    \* its list: [port, sid], where sid = 0 is no identity
    askedLinks, \* links pick_usb_pod has been through
    openPorts,\* serial ports this process holds open
    lan,      \* usb_lan_fallback_address of the status read
    transport,\* the result: [kind, pod, port]
    openPc,
    moves,    \* times the cables were moved
    stale     \* history: they were moved between the choice of a port and its use

chooseVars == <<spec, scanned, found, askedLinks, openPorts, lan, transport, openPc>>
cableVars == <<plugged, podVid, links, moves, stale>>
connVars == <<chooseVars, cableVars>>

SerialPorts == 1 .. PortCount
SpecKinds == {"usb", "device", "discover", "tcp", "embeddedci"}
NoTransport == [kind |-> "none", pod |-> 0, port |-> 0]

OpenInit ==
    /\ plugged = [d \in SerialPorts |-> 0] /\ podVid = {} /\ links = {}
    /\ spec = [kind |-> "none", pod |-> 0]
    /\ scanned = 0 /\ found = <<>> /\ askedLinks = {} /\ openPorts = {} /\ lan = 0
    /\ transport = NoTransport
    /\ openPc = "off" /\ moves = 0 /\ stale = FALSE

(* What is plugged in when the program starts; a pod may show as two ports,    *)
(* the second of them without its vendor id.                                   *)
Arrange(hidden) ==
    /\ openPc = "off"
    /\ plugged' \in [SerialPorts -> UsbPods \cup {0}]
    /\ podVid' = {d \in SerialPorts : plugged'[d] # 0} \ hidden
    /\ links' \in SUBSET {plugged'[d] : d \in SerialPorts} /\ 0 \notin links'
    /\ openPc' = "start"
    /\ UNCHANGED <<spec, scanned, found, askedLinks, openPorts, lan, transport, moves, stale>>

(* A cable is moved to another port; a port that has been chosen and not been  *)
(* opened yet is then another device's.                                        *)
Replug(d, e) ==
    /\ moves < MaxMoves /\ openPc # "off" /\ plugged[d] # plugged[e]
    /\ moves' = moves + 1
    /\ plugged' = [plugged EXCEPT ![d] = plugged[e], ![e] = plugged[d]]
    /\ podVid' = {c \in SerialPorts : plugged'[c] # 0}
    /\ stale' = (stale \/ openPc = "open")
    /\ UNCHANGED <<links, chooseVars>>

Goto(pc) == openPc' = pc
Opened(kind, pod, port) ==
    /\ transport' = [kind |-> kind, pod |-> pod, port |-> port]
    /\ Goto("opened")

-----------------------------------------------------------------------------
(* resolve_connection: the argument, else the environment, else what           *)
(* benchpod-cli saved; "saved" names the last, which may not be "saved".       *)
Unset == "unset"
Sources == SpecKinds \cup {"saved", Unset}
Effective(argument, environment, lastPod) ==
    LET given == IF argument # Unset THEN argument ELSE environment
        rawSpec == IF given \in {Unset, "saved"} THEN lastPod ELSE given IN
    IF rawSpec = "saved" THEN Unset ELSE rawSpec

Resolve(argument, environment, lastPod, pod) ==
    LET rawSpec == Effective(argument, environment, lastPod) IN
    /\ openPc = "start"
    /\ pod # 0 => rawSpec = "usb"
    /\ IF rawSpec = Unset
       THEN Goto("raised") /\ UNCHANGED spec
       ELSE /\ spec' = [kind |-> rawSpec, pod |-> pod]
            /\ Goto([usb |-> "links", device |-> "open", discover |-> "discover",
                     tcp |-> "address", embeddedci |-> "address"][rawSpec])
    /\ UNCHANGED <<scanned, found, askedLinks, openPorts, lan, transport, cableVars>>

(* A host, or a device of the cloud: dialled per command, so nothing to open. *)
OpenAddress ==
    /\ openPc = "address"
    /\ Opened(spec.kind, 0, 0)
    /\ UNCHANGED <<spec, scanned, found, askedLinks, openPorts, lan, cableVars>>

(* _discover_one: the only pod that answers on mDNS. *)
DiscoverOne(heard) ==
    /\ openPc = "discover"
    /\ IF Cardinality(heard) = 1
       THEN Opened("tcp", CHOOSE p \in heard : TRUE, 0)
       ELSE Goto("raised") /\ UNCHANGED transport
    /\ UNCHANGED <<spec, scanned, found, askedLinks, openPorts, lan, cableVars>>

-----------------------------------------------------------------------------
(* _open_usb, without a console: the local ends of USB network links *)

(* pick_usb_pod without a name: the only link there is. *)
PickOnlyLink(reachable) ==
    /\ openPc = "links" /\ spec.pod = 0
    /\ IF Cardinality(links) = 1 /\ reachable
       THEN Opened("tcp", CHOOSE p \in links : TRUE, 0)
       ELSE Goto("scan") /\ UNCHANGED transport
    /\ UNCHANGED <<spec, scanned, found, askedLinks, openPorts, lan, cableVars>>

(* ... and with one: the pod on each link is asked who it is, until it is the       *)
(* one; it may not answer.                                                     *)
PickNamedLink(p, answers, reachable) ==
    /\ openPc = "links" /\ spec.pod # 0
    /\ p \in links \ askedLinks
    /\ askedLinks' = askedLinks \cup {p}
    /\ IF answers /\ p = spec.pod
       THEN IF reachable THEN Opened("tcp", p, 0) ELSE Goto("scan") /\ UNCHANGED transport
       ELSE UNCHANGED <<transport, openPc>>
    /\ UNCHANGED <<spec, scanned, found, openPorts, lan, cableVars>>

NoLinkIsIt ==
    /\ openPc = "links" /\ spec.pod # 0 /\ links \subseteq askedLinks
    /\ Goto("scan")
    /\ UNCHANGED <<spec, scanned, found, askedLinks, openPorts, lan, transport, cableVars>>

-----------------------------------------------------------------------------
(* autodetect_port *)

NextPort == scanned + 1

(* Once one pod is found, only a port with a pod's vendor id is probed. *)
SkipPort ==
    /\ openPc = "scan" /\ NextPort \in SerialPorts
    /\ found # <<>> /\ NextPort \notin podVid
    /\ scanned' = NextPort
    /\ UNCHANGED <<spec, found, askedLinks, openPorts, lan, transport, openPc, cableVars>>

ProbeOpens ==
    /\ openPc = "scan" /\ NextPort \in SerialPorts
    /\ found = <<>> \/ NextPort \in podVid
    /\ openPorts' = openPorts \cup {NextPort}
    /\ Goto("probe")
    /\ UNCHANGED <<spec, scanned, found, askedLinks, lan, transport, cableVars>>

(* _probe_pod: no pod here, a pod without a name, or its name; closed again.   *)
ProbeSays(port) == IF plugged[port] = 0 THEN {-1} ELSE {-1, 0, plugged[port]}
Keep(sid) == sid >= 0 /\ (sid # 0 => \A i \in DOMAIN found : found[i].sid # sid)
Probed(sid) ==
    /\ openPc = "probe" /\ sid \in ProbeSays(NextPort)
    /\ openPorts' = openPorts \ {NextPort}
    /\ scanned' = NextPort
    /\ found' = IF Keep(sid) THEN Append(found, [port |-> NextPort, sid |-> sid]) ELSE found
    /\ IF spec.pod # 0 /\ sid = spec.pod
       THEN transport' = [NoTransport EXCEPT !.port = NextPort] /\ Goto("open")
       ELSE Goto("scan") /\ UNCHANGED transport
    /\ UNCHANGED <<spec, askedLinks, lan, cableVars>>

(* Every port has been probed: the only pod's, when no name was given. *)
ScanDone ==
    /\ openPc = "scan" /\ scanned = PortCount
    /\ IF spec.pod = 0 /\ Len(found) = 1
       THEN transport' = [NoTransport EXCEPT !.port = found[1].port] /\ Goto("open")
       ELSE Goto("raised") /\ UNCHANGED transport
    /\ UNCHANGED <<spec, scanned, found, askedLinks, openPorts, lan, cableVars>>

-----------------------------------------------------------------------------
(* The console *)

(* SerialTransport opens the port; an explicit device path stays the console.  *)
OpenConsole(port, opens) ==
    /\ openPc = "open" /\ (spec.kind = "usb" => port = transport.port)
    /\ IF ~opens THEN Goto("raised") /\ UNCHANGED <<openPorts, transport>>
       ELSE /\ openPorts' = openPorts \cup {port}
            /\ IF spec.kind = "device"
               THEN Opened("serial", plugged[port], port)
               ELSE Goto("status") /\ transport' = [transport EXCEPT !.pod = plugged[port]]
    /\ UNCHANGED <<spec, scanned, found, askedLinks, lan, cableVars>>

(* The status names the pod's USB network address, its LAN address, or none.   *)
ConsoleStatus(usbNet, hasLan) ==
    /\ openPc = "status"
    /\ lan' = IF hasLan THEN transport.pod ELSE 0
    /\ Goto(IF usbNet THEN "upgrade" ELSE "fallback")
    /\ UNCHANGED <<spec, scanned, found, askedLinks, openPorts, transport, cableVars>>

KeepConsole ==
    /\ openPc \in {"status", "fallback"}
    /\ Opened("serial", transport.pod, transport.port)
    /\ UNCHANGED <<spec, scanned, found, askedLinks, openPorts, lan, cableVars>>

(* A plausible bug: the console's port is not closed. *)
GiveWayUnclosed(kind, pod) ==
    /\ Opened(kind, pod, 0)
    /\ UNCHANGED <<spec, scanned, found, askedLinks, lan, openPorts, cableVars>>

(* The console gives way to TCP over the USB link, or to the LAN address.      *)
GiveWay(kind, pod) ==
    /\ openPorts' = openPorts \ {transport.port}
    /\ Opened(kind, pod, 0)
    /\ UNCHANGED <<spec, scanned, found, askedLinks, lan, cableVars>>

Upgrade == openPc = "upgrade" /\ GiveWay("tcp", transport.pod)

LinkUnreachable ==
    /\ openPc = "upgrade" /\ Goto("fallback")
    /\ UNCHANGED <<spec, scanned, found, askedLinks, openPorts, lan, transport, cableVars>>

Fallback == openPc = "fallback" /\ lan # 0 /\ GiveWay("tcp", lan)

-----------------------------------------------------------------------------
(* close(), of BenchPod or of its __init__ when a later step of it fails. *)
CloseTransport ==
    /\ openPc = "opened"
    /\ openPorts' = openPorts \ {transport.port}
    /\ transport' = NoTransport
    /\ Goto("closed")
    /\ UNCHANGED <<spec, scanned, found, askedLinks, lan, cableVars>>

-----------------------------------------------------------------------------
UsbNetwork ==
    \/ \E reachable \in BOOLEAN :
          \/ PickOnlyLink(reachable)
          \/ \E p \in links, answers \in BOOLEAN : PickNamedLink(p, answers, reachable)
    \/ NoLinkIsIt

ChoosePort == SkipPort \/ ProbeOpens \/ ScanDone \/ \E sid \in UsbPods \cup {-1, 0} : Probed(sid)

Console ==
    \/ \E port \in SerialPorts, opens \in BOOLEAN : OpenConsole(port, opens)
    \/ \E usbNet, hasLan \in BOOLEAN : ConsoleStatus(usbNet, hasLan)
    \/ KeepConsole \/ Upgrade \/ LinkUnreachable \/ Fallback

OpenNext ==
    \/ \E hidden \in {{}} \cup {{d} : d \in SerialPorts} : Arrange(hidden)
    \/ \E d, e \in SerialPorts : Replug(d, e)
    \/ openPc = "start" /\ \E a, e, s \in Sources, p \in UsbPods \cup {0} : Resolve(a, e, s, p)
    \/ OpenAddress \/ (\E heard \in SUBSET UsbPods : DiscoverOne(heard)) \/ UsbNetwork \/ ChoosePort \/ Console \/ CloseTransport

OpenSpec == OpenInit /\ [][OpenNext]_connVars

-----------------------------------------------------------------------------
ConnectionTypeOK ==
    /\ plugged \in [SerialPorts -> UsbPods \cup {0}]
    /\ podVid \in SUBSET SerialPorts /\ links \in SUBSET UsbPods
    /\ spec \in [kind : SpecKinds \cup {"none"}, pod : UsbPods \cup {0}]
    /\ scanned \in 0 .. PortCount
    /\ found \in Seq([port : SerialPorts, sid : UsbPods \cup {0}])
    /\ askedLinks \in SUBSET UsbPods /\ openPorts \in SUBSET SerialPorts
    /\ lan \in UsbPods \cup {0}
    /\ transport \in [kind : {"none", "serial", "tcp", "embeddedci"},
                      pod : UsbPods \cup {0}, port : SerialPorts \cup {0}]
    /\ openPc \in {"off", "start", "address", "discover", "links", "scan", "probe", "open", "status",
                   "upgrade", "fallback", "opened", "raised", "closed"}
    /\ moves \in 0 .. MaxMoves /\ stale \in BOOLEAN

(* usb:<name> opens the pod with that name and no other, whichever of the      *)
(* routes it takes (serial.py, autodetect_port), unless the cables are moved   *)
(* between the answer and the use of the port.                                 *)
NamedPodOpened ==
    openPc = "opened" /\ spec.pod # 0 /\ ~stale => transport.pod = spec.pod

(* Two pods are never told apart by chance: without a name, a port is opened   *)
(* only if no port answered as a second pod (serial.py, autodetect_port).      *)
NoGuess ==
    openPc = "opened" /\ spec.kind = "usb" /\ spec.pod = 0 /\ scanned > 0 => Len(found) = 1

(* Every probed console is closed again, and the console that gave way to a    *)
(* TCP transport too: the process holds a port only while it uses it.          *)
PortsReleased ==
    /\ openPc \in {"off", "start", "links", "scan", "open", "raised", "closed"} => openPorts = {}
    /\ openPc = "opened" =>
          openPorts = (IF transport.kind = "serial" THEN {transport.port} ELSE {})

OpenInv == ConnectionTypeOK /\ NamedPodOpened /\ NoGuess /\ PortsReleased
=============================================================================
