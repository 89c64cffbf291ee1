------------------------------ MODULE PinStore ------------------------------
(***************************************************************************)
(* LAN TLS: how tcp.py chooses between TLS and plaintext, the pins that    *)
(* transport/tls.py keeps in known_pods.json, and the certificate changes  *)
(* of client.py whose pin is to follow.  The processes that share the file *)
(* (scripts, the MCP server, benchpod-cli) read it, change their copy and  *)
(* replace it; the lock of tls.py is one process's.  A certificate is the  *)
(* order in which its pod began to use it, and 0 is no pin.  Sessions that *)
(* resume, and a CA instead of the pin, are left out.                      *)
(***************************************************************************)
EXTENDS Integers, FiniteSets

CONSTANTS
    Procs,    \* processes of this user
    Pods,     \* addresses, the keys of the file
    MaxCert,  \* bound: certificates of a pod
    MaxOps    \* bound: dials, changes and pin commands in a run

ASSUME PinAssumption ==
    /\ Pods # {}
    /\ MaxCert \in [Pods -> Nat \ {0}]
    /\ MaxOps \in Nat

VARIABLES
    podCert,    \* the certificate each pod serves
    file,       \* known_pods.json: the pin of each pod
    noTls,      \* _no_tls of each process
    call,       \* the call each process is in, with its local variables
    owed,       \* history: pods whose pin did not follow their certificate
    overwritten,\* history: pods whose pin somebody else's write replaced
    ops

pinVars == <<podCert, file, noTls, call, owed, overwritten, ops>>
Store == <<podCert, file, owed, overwritten>>

(* plan(host, port, mode): is TLS tried, and is plaintext its fallback.        *)
Modes == {"auto", "on", "off"}
Ports == {"8080", "8443", "other"}
Plan(mode, port, usb) ==
    [tls      |-> mode # "off"
                  /\ (port = "8443" \/ mode = "on" \/ (port = "8080" /\ ~usb)),
     fallback |-> mode = "auto" /\ port = "8080" /\ ~usb,
     usb      |-> usb]
Plans == {Plan(m, p, u) : m \in Modes, p \in Ports, u \in BOOLEAN}

(* The locals of a call: its pod and plan, the file as it read it, the         *)
(* certificate it was shown; and two history fields: whether the file has had  *)
(* a pin, and could be read, since the call began, and whether the pod changed *)
(* its certificate after it was shown.                                         *)
PinPcs == {"idle", "known", "ask", "probe", "connect", "check", "tls", "plain", "peer",
           "trust", "repin", "forget", "changed",
           "saveFirst", "saveTrust", "saveRepin", "saveForget"}
NoPins == [pod \in Pods |-> 0]
NoCall == [pc |-> "idle", pod |-> CHOOSE pod \in Pods : TRUE, plan |-> Plan("off", "8080", FALSE),
           copy |-> NoPins,
           seen |-> 0, pinned |-> FALSE, outdated |-> FALSE]

PinInit ==
    /\ podCert = [pod \in Pods |-> 1]
    /\ file \in [Pods -> {0, 1}]
    /\ noTls = [p \in Procs |-> {}]
    /\ call = [p \in Procs |-> NoCall]
    /\ owed = {} /\ overwritten = {} /\ ops = 0

-----------------------------------------------------------------------------
(* A call of the process p about one pod begins, goes on, ends. *)
Begin(p, pod, pc, plan) ==
    /\ call[p].pc = "idle" /\ ops < MaxOps
    /\ ops' = ops + 1
    /\ call' = [call EXCEPT ![p] = [NoCall EXCEPT !.pc = pc, !.pod = pod, !.plan = plan,
                                                 !.pinned = file[pod] # 0]]
    /\ UNCHANGED <<Store, noTls>>

At(p, pcs) == call[p].pc \in pcs
Goes(p, pc) == call' = [call EXCEPT ![p].pc = pc]
Ends(p) == call' = [call EXCEPT ![p] = NoCall]
Pod(p) == call[p].pod
Shown(p, pc) ==
    call' = [call EXCEPT ![p].pc = pc, ![p].seen = podCert[Pod(p)], ![p].outdated = FALSE]

(* _dial: plaintext or TLS by the plan alone, or the fallback's questions. *)
Dial(p, pod, plan) ==
    Begin(p, pod, IF ~plan.tls THEN "plain"
                  ELSE IF ~plan.fallback THEN "connect"
                  ELSE IF pod \in noTls[p] THEN "known" ELSE "ask", plan)

(* get_pin, which takes a file that it cannot read for one without the pin. *)
GetPin(p, readable) == IF readable THEN file[Pod(p)] ELSE 0

Asked(p, readable, pc) ==
    /\ call' = [call EXCEPT ![p].pc = pc, ![p].pinned = @ /\ readable]
    /\ UNCHANGED <<Store, noTls, ops>>

(* A pod known not to speak TLS is dialled in plaintext when it has no pin; *)
AskKnown(p, readable) ==
    /\ At(p, {"known"})
    /\ Asked(p, readable, IF GetPin(p, readable) = 0 THEN "plain" ELSE "ask")

(* A plausible bug: the pin is not looked for before the probe. *)
AskNobody(p, readable) == At(p, {"ask"}) /\ Asked(p, readable, "probe")

(* ... another is probed when it has none. *)
Ask(p, readable) ==
    /\ At(p, {"ask"})
    /\ Asked(p, readable, IF GetPin(p, readable) = 0 THEN "probe" ELSE "connect")

(* The probe of 8443 fails: remembered when it was refused or timed out. *)
ProbeFails(p, remember) ==
    /\ At(p, {"probe"})
    /\ noTls' = IF remember THEN [noTls EXCEPT ![p] = @ \cup {Pod(p)}] ELSE noTls
    /\ Goes(p, "plain")
    /\ UNCHANGED <<Store, ops>>

(* The TLS handshake is made, and the pod shows its certificate. *)
Handshake(p) ==
    /\ At(p, {"probe", "connect"})
    /\ Shown(p, "check")
    /\ UNCHANGED <<Store, noTls, ops>>

(* _check_pin: the pin must be the certificate; without one it is recorded. *)
CheckPin(p) ==
    /\ At(p, {"check"})
    /\ IF file[Pod(p)] = 0
       THEN call' = [call EXCEPT ![p].pc = "saveFirst", ![p].copy = file]
       ELSE IF file[Pod(p)] = call[p].seen THEN Goes(p, "tls") ELSE Ends(p)
    /\ UNCHANGED <<Store, noTls, ops>>

(* A connect, a handshake, a command or a read of the file fails: it raises. *)
CallFails(p) ==
    /\ At(p, {"connect", "probe", "check", "peer", "trust", "repin", "forget"})
    /\ owed' = IF At(p, {"repin"}) THEN owed \cup {Pod(p)} ELSE owed
    /\ Ends(p)
    /\ UNCHANGED <<podCert, file, overwritten, noTls, ops>>

(* The connection has served its command, or broke. *)
HangUp(p) ==
    /\ At(p, {"tls", "plain"})
    /\ Ends(p)
    /\ UNCHANGED <<Store, noTls, ops>>

-----------------------------------------------------------------------------
(* Writing the file *)

(* trust_lan_tls reads the certificate without checking it, then pins it. *)
Trust(p, pod) == Begin(p, pod, "peer", Plan("on", "8443", FALSE))
Forget(p, pod) == Begin(p, pod, "forget", Plan("off", "8080", FALSE))

PeerCertificate(p) ==
    /\ At(p, {"peer"})
    /\ Shown(p, "trust")
    /\ UNCHANGED <<Store, noTls, ops>>

(* set_pin and delete_pin read the file first. *)
Loaded == [trust |-> "saveTrust", repin |-> "saveRepin", forget |-> "saveForget"]
LoadPins(p) ==
    /\ At(p, DOMAIN Loaded)
    /\ IF At(p, {"forget"}) /\ file[Pod(p)] = 0
       THEN Ends(p)
       ELSE call' = [call EXCEPT ![p].pc = Loaded[@], ![p].copy = file]
    /\ UNCHANGED <<Store, noTls, ops>>

Saving == {"saveFirst", "saveTrust", "saveRepin", "saveForget"}
Written(p) == [call[p].copy EXCEPT ![Pod(p)] = IF At(p, {"saveForget"}) THEN 0 ELSE call[p].seen]

(* The pins of other pods that a write takes back to an older value, and its   *)
(* own pin when somebody has changed the certificate since.                    *)
Undone(p) == {pod \in Pods \ {Pod(p)} : Written(p)[pod] # file[pod]}
Late(p) == IF call[p].outdated THEN {Pod(p)} ELSE {}

(* _save puts the changed copy in the place of the file, whatever the file has *)
(* become meanwhile.                                                           *)
Save(p) ==
    LET after == IF At(p, {"saveFirst"}) THEN [call[p] EXCEPT !.pc = "tls"] ELSE NoCall
    IN
    /\ At(p, Saving)
    /\ file' = Written(p)
    /\ overwritten' = (overwritten \ {Pod(p)}) \cup Undone(p) \cup Late(p)
    /\ owed' = owed \ {Pod(p)}
    /\ call' = [q \in Procs |-> [(IF q = p THEN after ELSE call[q])
                                 EXCEPT !.pinned = @ /\ file'[Pod(q)] # 0]]
    /\ UNCHANGED <<podCert, noTls, ops>>

(* The disk is full, say: the file stays as it was. *)
SaveFails(p) ==
    /\ At(p, Saving)
    /\ owed' = IF At(p, {"saveRepin"}) THEN owed \cup {Pod(p)} ELSE owed
    /\ Ends(p)
    /\ UNCHANGED <<podCert, file, overwritten, noTls, ops>>

-----------------------------------------------------------------------------
(* Changing the certificate *)

(* A pod serves another certificate: whoever was shown the old one is late. *)
NewCert(pod, calls) ==
    /\ podCert[pod] < MaxCert[pod]
    /\ podCert' = [podCert EXCEPT ![pod] = @ + 1]
    /\ call' = [q \in Procs |-> [calls[q] EXCEPT !.outdated = @ \/ (calls[q].pc # "idle"
                                                                   /\ Pod(q) = pod)]]

(* set_lan_tls_cert (ota_begin to ota_commit on one connection) or             *)
(* regenerate_lan_tls has reached the pod.                                     *)
ChangeCert(p) ==
    /\ At(p, {"tls", "plain"})
    /\ At(p, {"plain"}) => call[p].plan.usb
    /\ NewCert(Pod(p), [call EXCEPT ![p].pc = "changed"])
    /\ UNCHANGED <<file, owed, overwritten, noTls, ops>>

(* The reply with the new certificate is there; _repin does nothing on USB. *)
Repin(p) ==
    /\ At(p, {"changed"})
    /\ IF call[p].plan.usb
       THEN Ends(p) /\ owed' = owed \cup {Pod(p)}
       ELSE Shown(p, "repin") /\ UNCHANGED owed
    /\ UNCHANGED <<podCert, file, overwritten, noTls, ops>>

(* The last reply is lost. *)
ChangeUnanswered(p) ==
    /\ At(p, {"changed"})
    /\ owed' = owed \cup {Pod(p)}
    /\ Ends(p)
    /\ UNCHANGED <<podCert, file, overwritten, noTls, ops>>

(* Somebody else changes it (another computer, the web UI). *)
ChangedElsewhere(pod) ==
    /\ NewCert(pod, call)
    /\ owed' = owed \cup {pod}
    /\ UNCHANGED <<file, overwritten, noTls, ops>>

(* The process ends where it is; what it remembered goes with it. *)
ProcEnds(p) ==
    /\ ~At(p, {"idle"})
    /\ owed' = IF At(p, {"changed", "repin", "saveRepin"}) THEN owed \cup {Pod(p)} ELSE owed
    /\ noTls' = [noTls EXCEPT ![p] = {}]
    /\ Ends(p)
    /\ UNCHANGED <<podCert, file, overwritten, ops>>

-----------------------------------------------------------------------------
Dialling(p) ==
    \/ \E pod \in Pods, plan \in Plans : Dial(p, pod, plan)
    \/ \E readable \in BOOLEAN : AskKnown(p, readable) \/ Ask(p, readable)
    \/ \E remember \in BOOLEAN : ProbeFails(p, remember)
    \/ Handshake(p) \/ CheckPin(p) \/ CallFails(p) \/ HangUp(p)

Pinning(p) ==
    \/ \E pod \in Pods : Trust(p, pod) \/ Forget(p, pod)
    \/ PeerCertificate(p) \/ LoadPins(p) \/ Save(p) \/ SaveFails(p)

Changing(p) == ChangeCert(p) \/ Repin(p) \/ ChangeUnanswered(p)

PinNext ==
    \/ \E p \in Procs : Dialling(p) \/ Pinning(p) \/ Changing(p) \/ ProcEnds(p)
    \/ \E pod \in Pods : ChangedElsewhere(pod)

PinSpec == PinInit /\ [][PinNext]_pinVars

-----------------------------------------------------------------------------
PinTypeOK ==
    /\ podCert \in [Pods -> Nat]
    /\ file \in [Pods -> Nat]
    /\ noTls \in [Procs -> SUBSET Pods]
    /\ call \in [Procs -> [pc : PinPcs, pod : Pods, copy : [Pods -> Nat], seen : Nat,
                           plan : [tls : BOOLEAN, fallback : BOOLEAN, usb : BOOLEAN],
                           pinned : BOOLEAN, outdated : BOOLEAN]]
    /\ owed \in SUBSET Pods /\ overwritten \in SUBSET Pods
    /\ ops \in Nat

(* With a pin, a pod that stops answering TLS is an error, never a silent      *)
(* downgrade (tls.py, the module's docstring): a dial that may fall back ends  *)
(* in plaintext only if the pin was missing at some moment of the dial or the  *)
(* file could not be read.                                                     *)
NeverDowngraded ==
    \A p \in Procs : At(p, {"plain"}) /\ call[p].plan.fallback => ~call[p].pinned

(* This computer's pin follows (client.py, set_lan_tls_cert and                *)
(* regenerate_lan_tls): a pin differs from the certificate, and so keeps the   *)
(* user out, only while a change is being made, or when the change lost its    *)
(* reply, came from elsewhere or could not be written, or when another         *)
(* process's write was under way at the same time.                             *)
UnderChange(pod) == \E p \in Procs : Pod(p) = pod /\ At(p, {"changed", "repin", "saveRepin"})
PinFollows ==
    \A pod \in Pods :
        \/ file[pod] \in {0, podCert[pod]}
        \/ pod \in owed \cup overwritten
        \/ UnderChange(pod)

(* What the calls under way know, which makes the two inductive. *)
CallKnows(p) ==
    /\ call[p].pinned => file[Pod(p)] # 0
    /\ At(p, {"probe"}) => ~call[p].pinned
    /\ At(p, {"check", "trust", "repin"} \cup (Saving \ {"saveForget"}))
          => call[p].seen = podCert[Pod(p)] \/ call[p].outdated

PinInv == PinTypeOK /\ NeverDowngraded /\ PinFollows /\ \A p \in Procs : CallKnows(p)
=============================================================================
