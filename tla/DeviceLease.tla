---------------------------- MODULE DeviceLease ----------------------------
(***************************************************************************)
(* The exclusive lease on a shared cloud BenchPod                          *)
(* (embeddedci/benchpod/lease.py and the part of BenchPod.__init__ and     *)
(* BenchPod.close that uses it).                                           *)
(*                                                                         *)
(* Every client is one DeviceLease object: one lease id, used once.  Its   *)
(* main thread acquires (polling while the device is busy) and releases;   *)
(* its heartbeat thread renews.  A _post is not atomic: the request is     *)
(* sent, the server answers at some later moment, the client sees the      *)
(* answer later still, and at any moment before that the call may fail     *)
(* (an HTTP error, a lost request or reply, a timeout), leaving behind a   *)
(* request the server may yet serve.  Time passes in ticks; a tick never   *)
(* overruns a deadline of the code (the heartbeat interval, the longest    *)
(* duration of a _post, the poll interval).                                *)
(***************************************************************************)
EXTENDS Integers, FiniteSets

CONSTANTS
    Clients,        \* DeviceLease objects, one per BenchPod connection
    Others,         \* consumers that are no DeviceLease (the web UI)
    NoOne,          \* what the lease table names when nobody holds the device
    TTL,            \* ttl_seconds, in ticks
    Interval,       \* the heartbeat's wait between two renewals
    PostTime,       \* the longest a _post lasts before it raises
    Poll,           \* poll_interval
    WaitTimeout,    \* wait_timeout
    RenewRevives,   \* does the server let a renew take a lease that lapsed?
    Deployments,    \* subset of BOOLEAN: may the server have / lack the lease routes?
    MaxLate         \* bound: abandoned requests under way at once

ASSUME NamesAssumption == NoOne \notin Clients \cup Others /\ Clients \cap Others = {}
ASSUME TimesAssumption ==
    /\ TTL \in Nat \ {0} /\ Interval \in Nat \ {0} /\ PostTime \in Nat \ {0}
    /\ Poll \in Nat \ {0} /\ WaitTimeout \in Nat
ASSUME ServerAssumption == RenewRevives \in BOOLEAN /\ Deployments \subseteq BOOLEAN
ASSUME BoundAssumption == MaxLate \in Nat
(* A renewal every Interval, each answered within PostTime, outruns the TTL. *)
(* The defaults (120 s, 40 s, 15 s) satisfy it; lease_ttl=15 would not.      *)
ASSUME HeartbeatOutrunsTTL == 2 * PostTime + Interval < TTL

VARIABLES
    holder,     \* server: whose lease id the table names
    left,       \* server: ticks until that lease expires
    supported,  \* server: has the lease routes
    late,       \* requests whose client gave up on them, still under way
    pc,         \* main thread of each client
    call,       \* the main thread's _post: none, sent, or answered
    clock,      \* ticks the main thread has spent in its _post or its poll sleep
    waited,     \* ticks since acquire() began, up to WaitTimeout
    held,       \* DeviceLease._held
    hb,         \* heartbeat thread
    renewal,    \* the heartbeat's _post
    hbclock,    \* ticks the heartbeat has spent in its wait or its _post
    missed      \* history: no renewal was acknowledged since the last failed one

server == <<holder, left, supported>>
main == <<pc, call, clock, waited>>
beat == <<hb, renewal, hbclock, missed>>
vars == <<holder, left, supported, late, pc, call, clock, waited, held,
          hb, renewal, hbclock, missed>>

Answers == {"ok", "busy", "unsupported"}
Ops == {"lease", "renew", "release"}
MainStates == {"new", "acquiring", "polling", "open", "joining", "releasing",
               "released", "closed", "raised", "crashed"}
HbStates == {"none", "waiting", "renewing", "done"}

TypeOK ==
    /\ holder \in Clients \cup Others \cup {NoOne}
    /\ left \in 0..TTL
    /\ supported \in BOOLEAN
    /\ late \subseteq Clients \X Ops
    /\ pc \in [Clients -> MainStates]
    /\ call \in [Clients -> Answers \cup {"none", "sent"}]
    /\ clock \in [Clients -> 0..(PostTime + Poll)]
    /\ waited \in [Clients -> 0..WaitTimeout]
    /\ held \in [Clients -> BOOLEAN]
    /\ hb \in [Clients -> HbStates]
    /\ renewal \in [Clients -> Answers \cup {"none", "sent"}]
    /\ hbclock \in [Clients -> 0..(Interval + PostTime)]
    /\ missed \in [Clients -> BOOLEAN]

Init ==
    /\ holder = NoOne /\ left = 0 /\ supported \in Deployments /\ late = {}
    /\ pc = [c \in Clients |-> "new"]
    /\ call = [c \in Clients |-> "none"]
    /\ clock = [c \in Clients |-> 0]
    /\ waited = [c \in Clients |-> 0]
    /\ held = [c \in Clients |-> FALSE]
    /\ hb = [c \in Clients |-> "none"]
    /\ renewal = [c \in Clients |-> "none"]
    /\ hbclock = [c \in Clients |-> 0]
    /\ missed = [c \in Clients |-> FALSE]

(* a plausible bug: release() does not set _stop *)
StopNotSet(c) == FALSE

(* DeviceLease._stop, set by the first release() *)
Stopped(c) == pc[c] \notin {"new", "acquiring", "polling", "open"}
(* the request the main thread has under way *)
MainOp(c) == IF pc[c] = "acquiring" THEN "lease" ELSE "release"
Posting(c) == pc[c] \in {"acquiring", "releasing"}
-----------------------------------------------------------------------------
(* The server's lease table (external; from how _post reads its answers).   *)

Take(c) == holder' = c /\ left' = TTL
Keep == UNCHANGED <<holder, left>>

ServerAnswers(c, op, answer) ==
    \/ ~supported /\ answer = "unsupported" /\ Keep
    \/ /\ supported /\ op = "lease"
       /\ \/ holder \in {c, NoOne} /\ answer = "ok" /\ Take(c)
          \/ holder \notin {c, NoOne} /\ answer = "busy" /\ Keep
    \/ /\ supported /\ op = "renew"
       /\ \/ holder = c /\ answer = "ok" /\ Take(c)
          \/ holder = NoOne /\ RenewRevives /\ answer = "ok" /\ Take(c)
          \/ holder = NoOne /\ ~RenewRevives /\ answer = "busy" /\ Keep
          \/ holder \notin {c, NoOne} /\ answer = "busy" /\ Keep
    \/ /\ supported /\ op = "release" /\ answer = "ok"
       /\ \/ holder = c /\ holder' = NoOne /\ left' = 0
          \/ holder # c /\ Keep

ServeMain(c) ==
    /\ call[c] = "sent"
    /\ \E answer \in Answers :
          /\ ServerAnswers(c, MainOp(c), answer)
          /\ call' = [call EXCEPT ![c] = answer]
    /\ UNCHANGED <<supported, late, pc, clock, waited, held, beat>>

ServeRenewal(c) ==
    /\ renewal[c] = "sent"
    /\ \E answer \in Answers :
          /\ ServerAnswers(c, "renew", answer)
          /\ renewal' = [renewal EXCEPT ![c] = answer]
    /\ UNCHANGED <<supported, late, main, held, hb, hbclock, missed>>

(* A request its client no longer waits for reaches the server, or is lost. *)
ServeLate(c, op) ==
    /\ <<c, op>> \in late
    /\ late' = late \ {<<c, op>>}
    /\ \/ \E answer \in Answers : ServerAnswers(c, op, answer)
       \/ Keep
    /\ UNCHANGED <<supported, main, held, beat>>

(* Another consumer takes, keeps or gives back the device. *)
OtherTakes(o) ==
    /\ holder \in {o, NoOne} /\ supported
    /\ Take(o)
    /\ UNCHANGED <<supported, late, main, held, beat>>

OtherReleases(o) ==
    /\ holder = o /\ supported
    /\ holder' = NoOne /\ left' = 0
    /\ UNCHANGED <<supported, late, main, held, beat>>

(* A deploy rolls the server back to a version without the lease routes. *)
Rollback ==
    /\ supported /\ FALSE \in Deployments
    /\ supported' = FALSE
    /\ UNCHANGED <<holder, left, late, main, held, beat>>

-----------------------------------------------------------------------------
(* acquire() *)

Send(c) == call' = [call EXCEPT ![c] = "sent"] /\ clock' = [clock EXCEPT ![c] = 0]
Answered(c) == call' = [call EXCEPT ![c] = "none"] /\ clock' = [clock EXCEPT ![c] = 0]
Goto(c, s) == pc' = [pc EXCEPT ![c] = s]
(* a _post that failed with request op under way may still be served *)
Abandon(c, op, post) ==
    \/ late' = late
    \/ post = "sent" /\ late' = late \cup {<<c, op>>} /\ Cardinality(late') <= MaxLate

Connect(c) ==
    /\ pc[c] = "new"
    /\ Goto(c, "acquiring") /\ Send(c)
    /\ UNCHANGED <<server, late, waited, held, beat>>

(* a plausible bug: the thread is made and not started *)
HeartbeatNotStarted(c) == UNCHANGED beat

StartHeartbeat(c) ==
    /\ hb' = [hb EXCEPT ![c] = "waiting"]
    /\ hbclock' = [hbclock EXCEPT ![c] = 0]
    /\ UNCHANGED <<renewal, missed>>

AcquireGranted(c) ==
    /\ pc[c] = "acquiring" /\ call[c] = "ok"
    /\ held' = [held EXCEPT ![c] = TRUE]
    /\ StartHeartbeat(c)
    /\ Goto(c, "open") /\ Answered(c)
    /\ UNCHANGED <<server, late, waited>>

(* No lease routes: warn and run without a lock. *)
AcquireUnsupported(c) ==
    /\ pc[c] = "acquiring" /\ call[c] = "unsupported"
    /\ Goto(c, "open") /\ Answered(c)
    /\ UNCHANGED <<server, late, waited, held, beat>>

(* plausible bugs: a 409 taken for a grant; a poll without deadline *)
AcquireBusyGranted(c) ==
    /\ pc[c] = "acquiring" /\ call[c] = "busy"
    /\ held' = [held EXCEPT ![c] = TRUE]
    /\ StartHeartbeat(c)
    /\ Goto(c, "open") /\ Answered(c)
    /\ UNCHANGED <<server, late, waited>>
AcquireBusyForEver(c) ==
    /\ pc[c] = "acquiring" /\ call[c] = "busy"
    /\ Goto(c, "polling") /\ Answered(c)
    /\ UNCHANGED <<server, late, waited, held, beat>>

AcquireBusy(c) ==
    /\ pc[c] = "acquiring" /\ call[c] = "busy"
    /\ IF waited[c] >= WaitTimeout
         THEN Goto(c, "closed")          \* DeviceBusyError
         ELSE Goto(c, "polling")
    /\ Answered(c)
    /\ UNCHANGED <<server, late, waited, held, beat>>

PollAgain(c) ==
    /\ pc[c] = "polling" /\ clock[c] = Poll
    /\ Goto(c, "acquiring") /\ Send(c)
    /\ UNCHANGED <<server, late, waited, held, beat>>

(* a plausible bug: a _post that failed is taken for a busy device and polled *)
AcquireFailsPolls(c) ==
    /\ pc[c] = "acquiring"
    /\ Abandon(c, "lease", call[c])
    /\ Goto(c, "polling") /\ Answered(c)
    /\ UNCHANGED <<server, waited, held, beat>>

(* CloudAuthError or ConnectionConfigError leaves acquire(); BenchPod.__init__ *)
(* closes, and release() finds _held False and no thread: nothing is sent.     *)
AcquireFails(c) ==
    /\ pc[c] = "acquiring"
    /\ Abandon(c, "lease", call[c])
    /\ Goto(c, "closed") /\ Answered(c)
    /\ UNCHANGED <<server, waited, held, beat>>

-----------------------------------------------------------------------------
(* The heartbeat thread *)

HbWait(c) == hb' = [hb EXCEPT ![c] = "waiting"] /\ hbclock' = [hbclock EXCEPT ![c] = 0]
HbEnd(c) == hb' = [hb EXCEPT ![c] = "done"] /\ hbclock' = [hbclock EXCEPT ![c] = 0]
RenewalRead(c) == renewal' = [renewal EXCEPT ![c] = "none"]

HbRenew(c) ==
    /\ hb[c] = "waiting" /\ ~Stopped(c) /\ hbclock[c] = Interval
    /\ hb' = [hb EXCEPT ![c] = "renewing"]
    /\ renewal' = [renewal EXCEPT ![c] = "sent"]
    /\ hbclock' = [hbclock EXCEPT ![c] = 0]
    /\ UNCHANGED <<server, late, main, held, missed>>

HbStop(c) ==
    /\ hb[c] = "waiting" /\ Stopped(c)
    /\ HbEnd(c)
    /\ UNCHANGED <<server, late, main, held, renewal, missed>>

HbRenewed(c) ==
    /\ hb[c] = "renewing" /\ renewal[c] = "ok"
    /\ HbWait(c) /\ RenewalRead(c)
    /\ missed' = [missed EXCEPT ![c] = FALSE]
    /\ UNCHANGED <<server, late, main, held>>

(* a plausible bug: the heartbeat does not look at the status *)
HbLostUnseen(c) ==
    /\ hb[c] = "renewing" /\ renewal[c] = "busy"
    /\ HbWait(c) /\ RenewalRead(c)
    /\ missed' = [missed EXCEPT ![c] = FALSE]
    /\ UNCHANGED <<server, late, main, held>>

(* HTTP 409: another consumer has the device; the thread gives up for good. *)
HbLost(c) ==
    /\ hb[c] = "renewing" /\ renewal[c] = "busy"
    /\ held' = [held EXCEPT ![c] = FALSE]
    /\ HbEnd(c) /\ RenewalRead(c)
    /\ UNCHANGED <<server, late, main, missed>>

HbFails(c) ==
    /\ hb[c] = "renewing"
    /\ Abandon(c, "renew", renewal[c])
    /\ HbWait(c) /\ RenewalRead(c)
    /\ missed' = [missed EXCEPT ![c] = TRUE]
    /\ UNCHANGED <<server, main, held>>

(* _LeaseUnsupported is not caught: the thread dies, _held stays True. *)
HbDies(c) ==
    /\ hb[c] = "renewing" /\ renewal[c] = "unsupported"
    /\ HbEnd(c) /\ RenewalRead(c)
    /\ missed' = [missed EXCEPT ![c] = TRUE]
    /\ UNCHANGED <<server, late, main, held>>
-----------------------------------------------------------------------------
(* release(), the end of the process, and time *)

Close(c) ==
    /\ pc[c] = "open"
    /\ Goto(c, "joining")
    /\ UNCHANGED <<server, late, call, clock, waited, held, beat>>

(* join(timeout=2.0): the thread ends, or its renewal outlives the wait; then *)
(* the lease is given back if _held still says it is ours.  After a release   *)
(* that raised, close() may run again: there is no thread left to join.       *)
SendRelease(c) ==
    /\ \/ pc[c] = "joining" /\ hb[c] # "waiting"
       \/ pc[c] = "raised"
    /\ IF held[c]
         THEN Goto(c, "releasing") /\ Send(c)
         ELSE Goto(c, "closed") /\ Answered(c)
    /\ UNCHANGED <<server, late, waited, held, beat>>

ReleaseAnswered(c) ==
    /\ pc[c] = "releasing" /\ call[c] = "ok"
    /\ held' = [held EXCEPT ![c] = FALSE]
    /\ Goto(c, "released") /\ Answered(c)
    /\ UNCHANGED <<server, late, waited, beat>>

ReleaseFails(c) ==
    /\ pc[c] = "releasing"
    /\ Abandon(c, "release", call[c])
    /\ held' = [held EXCEPT ![c] = FALSE]
    /\ Goto(c, "closed") /\ Answered(c)
    /\ UNCHANGED <<server, waited, beat>>

(* _LeaseUnsupported leaves release() and close(); _held stays True. *)
ReleaseRaises(c) ==
    /\ pc[c] = "releasing" /\ call[c] = "unsupported"
    /\ Goto(c, "raised") /\ Answered(c)
    /\ UNCHANGED <<server, late, waited, held, beat>>

(* The process dies; what it had sent may still arrive. *)
Crash(c) ==
    /\ pc[c] \in {"acquiring", "polling", "open", "joining", "releasing", "raised"}
    /\ LET sent == { <<c, MainOp(c)>> : x \in {call[c]} \cap {"sent"} }
                   \cup { <<c, "renew">> : x \in {renewal[c]} \cap {"sent"} }
       IN  \E arriving \in SUBSET sent : late' = late \cup arriving
    /\ Cardinality(late') <= MaxLate
    /\ Goto(c, "crashed") /\ Answered(c) /\ RenewalRead(c) /\ HbEnd(c)
    /\ held' = [held EXCEPT ![c] = FALSE]
    /\ UNCHANGED <<server, waited, missed>>

(* No client is at a deadline: its main thread has nothing to do but wait, and *)
(* neither its _post, its poll sleep nor its heartbeat is due.                 *)
MayWait(c) ==
    /\ pc[c] # "joining"
    /\ Posting(c) => clock[c] < PostTime
    /\ pc[c] = "polling" => clock[c] < Poll
    /\ hb[c] = "waiting" => ~Stopped(c) /\ hbclock[c] < Interval
    /\ hb[c] = "renewing" => hbclock[c] < PostTime

Tick ==
    /\ \A c \in Clients : MayWait(c)
    /\ left' = IF left = 0 THEN 0 ELSE left - 1
    /\ holder' = IF left' = 0 THEN NoOne ELSE holder
    /\ clock' = [c \in Clients |->
                    IF Posting(c) \/ pc[c] = "polling" THEN clock[c] + 1 ELSE clock[c]]
    /\ waited' = [c \in Clients |->
                    IF pc[c] \in {"acquiring", "polling"} /\ waited[c] < WaitTimeout
                    THEN waited[c] + 1 ELSE waited[c]]
    /\ hbclock' = [c \in Clients |->
                    IF hb[c] \in {"waiting", "renewing"} THEN hbclock[c] + 1 ELSE hbclock[c]]
    /\ UNCHANGED <<supported, late, pc, call, held, hb, renewal, missed>>

-----------------------------------------------------------------------------
(* What a client's own threads do without being asked again. *)
Acquire(c) ==
    \/ AcquireGranted(c) \/ AcquireUnsupported(c) \/ AcquireBusy(c)
    \/ PollAgain(c) \/ AcquireFails(c)
Heartbeat(c) ==
    \/ HbRenew(c) \/ HbStop(c) \/ HbRenewed(c) \/ HbLost(c) \/ HbFails(c) \/ HbDies(c)
Release(c) ==
    \/ SendRelease(c) \/ ReleaseAnswered(c) \/ ReleaseFails(c) \/ ReleaseRaises(c)

Next ==
    \/ \E c \in Clients :
          \/ Connect(c) \/ Acquire(c) \/ Heartbeat(c) \/ Close(c) \/ Release(c)
          \/ Crash(c) \/ ServeMain(c) \/ ServeRenewal(c)
          \/ \E op \in Ops : ServeLate(c, op)
    \/ \E o \in Others : OtherTakes(o) \/ OtherReleases(o)
    \/ Rollback
    \/ Tick

(* Time passes, threads run, and a request that lingers arrives or is lost. *)
(* Nothing makes a user connect or close, a process crash or a deploy roll. *)
Fairness ==
    /\ WF_vars(Tick)
    /\ \A c \in Clients : WF_vars(Acquire(c) \/ Heartbeat(c) \/ Release(c))
    /\ WF_vars(\E c \in Clients, op \in Ops : ServeLate(c, op))

SafetySpec == Init /\ [][Next]_vars
Spec == SafetySpec /\ Fairness

-----------------------------------------------------------------------------
(* The client that may rely on the device being its own: it is open, believes *)
(* it holds the lease, and no renewal has failed since the last acknowledged. *)
Trusted(c) == pc[c] = "open" /\ held[c] /\ ~missed[c]

(* As long as no renewal fails, the server's table names the client that      *)
(* believes it holds the lease, and has not let it expire: the heartbeat is   *)
(* fast enough, a 409 is believed, and nobody else's late request undoes it.  *)
HeldIsExclusive == \A c \in Clients : Trusted(c) => holder = c /\ left > 0

(* Hence the device is used by one client at a time: DeviceLease implements   *)
(* the abstract ExclusiveDevice, its users being the clients that may rely on *)
(* the lease.                                                                 *)
Device == INSTANCE ExclusiveDevice
            WITH Consumers <- Clients, users <- {c \in Clients : Trusted(c)}
OneUserAtATime == Device!Spec

(* Why HeldIsExclusive is inductive: what each stage of a client's two threads *)
(* knows of the lease's remaining time, and of requests that are still under   *)
(* way.  RenewalKnown holds the other half of the argument: an answer that was *)
(* given and not yet read is still true when it is read.                       *)
GrantKnown(c) ==
    pc[c] = "acquiring" /\ call[c] = "ok" => holder = c /\ left >= TTL - clock[c]
RenewalKnown(c) ==
    pc[c] = "open" /\ hb[c] = "renewing" /\ renewal[c] = "ok"
        => holder = c /\ left >= TTL - hbclock[c]
TrustedKnown(c) ==
    Trusted(c) =>
        /\ holder = c
        /\ hb[c] = "waiting" => left >= TTL - PostTime - hbclock[c]
        /\ hb[c] = "renewing" => /\ renewal[c] # "busy"
                                 /\ left >= TTL - PostTime - Interval - hbclock[c]
        /\ hb[c] \in {"waiting", "renewing"}
Stages(c) ==
    /\ call[c] # "none" => Posting(c)
    /\ Posting(c) => clock[c] <= PostTime
    /\ hb[c] = "waiting" => hbclock[c] <= Interval
    /\ hb[c] = "renewing" => hbclock[c] <= PostTime
    /\ renewal[c] # "none" <=> hb[c] = "renewing"
    /\ pc[c] = "polling" => clock[c] <= Poll
    /\ pc[c] \in {"new", "acquiring", "polling"} => hb[c] = "none" /\ ~held[c] /\ ~missed[c]
    /\ ~Stopped(c) => <<c, "release">> \notin late
ClientInv(c) == Stages(c) /\ GrantKnown(c) /\ RenewalKnown(c) /\ TrustedKnown(c)
LeaseInv == \A c \in Clients : ClientInv(c)

(* release() that the server acknowledged is final: no renewal the heartbeat   *)
(* still had under way when join() timed out brings the lease back.  It is the *)
(* server's choice: it holds when a renew does not revive a lapsed lease.      *)
ReleaseIsFinal ==
    \A c \in Clients : pc[c] = "released" /\ ~RenewRevives => holder # c

(* The client that stopped renewing, by crashing, by a release that failed or  *)
(* because the grant never reached it, does not keep the device for ever.      *)
Gone(c) == pc[c] \in {"released", "closed", "crashed"}
DeviceComesFree == \A c \in Clients : Gone(c) ~> holder # c

(* acquire() ends: with the lease, without one, or with an error. *)
AcquireReturns ==
    \A c \in Clients : pc[c] = "acquiring" ~> pc[c] \notin {"acquiring", "polling"}
=============================================================================
