-------------------------- MODULE DeviceLeaseProofs --------------------------
(* For every set of clients and all times that satisfy HeartbeatOutrunsTTL:   *)
(* the type invariant, HeldIsExclusive, the abstract specification, and that  *)
(* a release is final.                                                        *)
EXTENDS DeviceLease, TLAPS

USE NamesAssumption, TimesAssumption, ServerAssumption

(* Init types the state; every action keeps it typed. *)
LEMMA InitTyped == Init => TypeOK
BY DEF Init, TypeOK, Answers, Ops, MainStates, HbStates

LEMMA AcquireTyped ==
    ASSUME TypeOK, NEW c \in Clients, Acquire(c) \/ Connect(c)
    PROVE  TypeOK'
<1> USE DEF TypeOK, Answers, Ops, MainStates, HbStates, server, main, beat,
            Goto, Send, Answered, Abandon, StartHeartbeat
<1>1. CASE Connect(c)             BY <1>1 DEF Connect
<1>2. CASE AcquireGranted(c)      BY <1>2 DEF AcquireGranted
<1>3. CASE AcquireUnsupported(c)  BY <1>3 DEF AcquireUnsupported
<1>4. CASE AcquireBusy(c)         BY <1>4 DEF AcquireBusy
<1>5. CASE PollAgain(c)           BY <1>5 DEF PollAgain
<1>6. CASE AcquireFails(c)        BY <1>6 DEF AcquireFails
<1> QED BY <1>1, <1>2, <1>3, <1>4, <1>5, <1>6 DEF Acquire
LEMMA HeartbeatTyped ==
    ASSUME TypeOK, NEW c \in Clients, Heartbeat(c)
    PROVE  TypeOK'
<1> USE DEF TypeOK, Answers, Ops, MainStates, HbStates, server, main, beat,
            Goto, Abandon, HbWait, HbEnd, RenewalRead
<1>1. CASE HbRenew(c)   BY <1>1 DEF HbRenew
<1>2. CASE HbStop(c)    BY <1>2 DEF HbStop
<1>3. CASE HbRenewed(c) BY <1>3 DEF HbRenewed
<1>4. CASE HbLost(c)    BY <1>4 DEF HbLost
<1>5. CASE HbFails(c)   BY <1>5 DEF HbFails
<1>6. CASE HbDies(c)    BY <1>6 DEF HbDies
<1> QED BY <1>1, <1>2, <1>3, <1>4, <1>5, <1>6 DEF Heartbeat

LEMMA ReleaseTyped ==
    ASSUME TypeOK, NEW c \in Clients, Release(c) \/ Close(c) \/ Crash(c)
    PROVE  TypeOK'
<1> USE DEF TypeOK, Answers, Ops, MainStates, HbStates, server, main, beat,
            Goto, Send, Answered, Abandon, HbEnd, RenewalRead
<1>1. CASE Close(c)           BY <1>1 DEF Close
<1>2. CASE SendRelease(c)     BY <1>2 DEF SendRelease
<1>3. CASE ReleaseAnswered(c) BY <1>3 DEF ReleaseAnswered
<1>4. CASE ReleaseFails(c)    BY <1>4 DEF ReleaseFails
<1>5. CASE ReleaseRaises(c)   BY <1>5 DEF ReleaseRaises
<1>6. CASE Crash(c)           BY <1>6 DEF Crash, MainOp
<1> QED BY <1>1, <1>2, <1>3, <1>4, <1>5, <1>6 DEF Release

LEMMA ServerTyped ==
    ASSUME TypeOK, NEW c \in Clients,
           ServeMain(c) \/ ServeRenewal(c) \/ \E op \in Ops : ServeLate(c, op)
    PROVE  TypeOK'
<1> USE DEF TypeOK, server, main, beat, ServerAnswers, Take, Keep, Answers, Ops
<1>1. CASE ServeMain(c)                   BY <1>1 DEF ServeMain
<1>2. CASE ServeRenewal(c)                BY <1>2 DEF ServeRenewal
<1>3. CASE \E op \in Ops : ServeLate(c, op) BY <1>3 DEF ServeLate
<1> QED BY <1>1, <1>2, <1>3

LEMMA OthersTyped ==
    ASSUME TypeOK,
           Rollback \/ \E o \in Others : OtherTakes(o) \/ OtherReleases(o)
    PROVE  TypeOK'
<1> USE DEF TypeOK, main, beat, Answers, Ops, MainStates, HbStates
<1>1. CASE Rollback BY <1>1 DEF Rollback
<1>2. ASSUME NEW o \in Others, OtherTakes(o) PROVE TypeOK'
  BY <1>2 DEF OtherTakes, Take
<1>3. ASSUME NEW o \in Others, OtherReleases(o) PROVE TypeOK'
  BY <1>3 DEF OtherReleases
<1> QED BY <1>1, <1>2, <1>3

(* A clock stays in its range because MayWait stops time at every deadline. *)
LEMMA TickTyped == ASSUME TypeOK, Tick PROVE TypeOK'
<1>1. left' \in 0..TTL /\ holder' \in Clients \cup Others \cup {NoOne}
  BY DEF Tick, TypeOK
<1>2. clock' \in [Clients -> 0..(PostTime + Poll)]
  <2>1. ASSUME NEW c \in Clients, Posting(c) \/ pc[c] = "polling"
        PROVE  clock[c] + 1 \in 0..(PostTime + Poll)
    BY <2>1 DEF Tick, MayWait, TypeOK, Posting
  <2> QED BY <2>1 DEF Tick, TypeOK
<1>3. waited' \in [Clients -> 0..WaitTimeout]
  BY DEF Tick, TypeOK
<1>4. hbclock' \in [Clients -> 0..(Interval + PostTime)]
  <2>1. ASSUME NEW c \in Clients, hb[c] \in {"waiting", "renewing"}
        PROVE  hbclock[c] + 1 \in 0..(Interval + PostTime)
    BY <2>1 DEF Tick, MayWait, TypeOK
  <2> QED BY <2>1 DEF Tick, TypeOK
<1> QED BY <1>1, <1>2, <1>3, <1>4 DEF Tick, TypeOK
-----------------------------------------------------------------------------
(* LeaseInv is inductive. *)
LEMMA InitLease == Init => LeaseInv
<1> SUFFICES ASSUME Init, NEW c \in Clients PROVE ClientInv(c)
  BY DEF LeaseInv
<1> QED
  BY DEF Init, ClientInv, Stages, GrantKnown, RenewalKnown, TrustedKnown, Trusted, Posting, Stopped

(* A step that is not client d's preserves what is known of d, provided it    *)
(* neither takes the lease from d nor shortens it.                            *)
Untouched(d) ==
    /\ pc'[d] = pc[d] /\ call'[d] = call[d] /\ clock'[d] = clock[d]
    /\ held'[d] = held[d] /\ hb'[d] = hb[d] /\ renewal'[d] = renewal[d]
    /\ hbclock'[d] = hbclock[d] /\ missed'[d] = missed[d]
    /\ holder = d => holder' = d /\ left' >= left
    /\ <<d, "release">> \in late' => <<d, "release">> \in late

Alone(c) == \A d \in Clients \ {c} : Untouched(d)

LEMMA OthersUntouched ==
    ASSUME TypeOK, TypeOK', NEW d \in Clients, ClientInv(d), Untouched(d)
    PROVE  ClientInv(d)'
BY DEF TypeOK, Untouched, ClientInv, Stages, GrantKnown, RenewalKnown, TrustedKnown, Trusted,
       Posting, Stopped

LEMMA AcquireLease ==
    ASSUME TypeOK, TypeOK', LeaseInv, NEW c \in Clients, Acquire(c) \/ Connect(c)
    PROVE  LeaseInv' /\ Alone(c)
<1> USE DEF TypeOK, server, main, beat, Goto, Send, Answered, Abandon, StartHeartbeat
<1>a. Alone(c)
    BY DEF Alone, Untouched, Acquire, Connect, AcquireGranted, AcquireUnsupported, AcquireBusy,
           PollAgain, AcquireFails
<1>c. ASSUME NEW d \in Clients \ {c} PROVE ClientInv(d)'
  BY <1>a, OthersUntouched DEF Alone, LeaseInv
<1>b. ClientInv(c)'
  <2>0. ClientInv(c) BY DEF LeaseInv
  <2> USE <2>0 DEF ClientInv, Stages, GrantKnown, RenewalKnown, TrustedKnown, Trusted, Posting, Stopped
  <2>1. CASE Connect(c)             BY <2>1 DEF Connect
  <2>2. CASE AcquireGranted(c)      BY <2>2 DEF AcquireGranted
  <2>3. CASE AcquireUnsupported(c)  BY <2>3 DEF AcquireUnsupported
  <2>4. CASE AcquireBusy(c)         BY <2>4 DEF AcquireBusy
  <2>5. CASE PollAgain(c)           BY <2>5 DEF PollAgain
  <2>6. CASE AcquireFails(c)        BY <2>6 DEF AcquireFails
  <2> QED BY <2>1, <2>2, <2>3, <2>4, <2>5, <2>6 DEF Acquire
<1> QED BY <1>a, <1>b, <1>c DEF LeaseInv
LEMMA HeartbeatLease ==
    ASSUME TypeOK, TypeOK', LeaseInv, NEW c \in Clients, Heartbeat(c)
    PROVE  LeaseInv' /\ Alone(c) /\ Alone(c)
<1> USE DEF TypeOK, server, main, beat, Goto, Abandon, HbWait, HbEnd, RenewalRead
<1>a. Alone(c)
    BY DEF Alone, Untouched, Heartbeat, HbRenew, HbStop, HbRenewed, HbLost, HbFails, HbDies
<1>c. ASSUME NEW d \in Clients \ {c} PROVE ClientInv(d)'
  BY <1>a, OthersUntouched DEF Alone, LeaseInv
<1>b. ClientInv(c)'
  <2>0. ClientInv(c) BY DEF LeaseInv
  <2> USE <2>0 DEF ClientInv, Stages, GrantKnown, RenewalKnown, TrustedKnown, Trusted, Posting, Stopped
  <2>1. CASE HbRenew(c) BY <2>1 DEF HbRenew
  <2>2. CASE HbStop(c) BY <2>2 DEF HbStop
  <2>3. CASE HbRenewed(c) BY <2>3 DEF HbRenewed
  <2>4. CASE HbLost(c) BY <2>4 DEF HbLost
  <2>5. CASE HbFails(c) BY <2>5 DEF HbFails
  <2>6. CASE HbDies(c) BY <2>6 DEF HbDies
  <2> QED BY <2>1, <2>2, <2>3, <2>4, <2>5, <2>6 DEF Heartbeat
<1> QED BY <1>a, <1>b, <1>c DEF LeaseInv

LEMMA ReleaseLease ==
    ASSUME TypeOK, TypeOK', LeaseInv, NEW c \in Clients, Release(c) \/ Close(c) \/ Crash(c)
    PROVE  LeaseInv' /\ Alone(c)
<1> USE DEF TypeOK, server, main, beat, Goto, Send, Answered, Abandon, HbEnd, RenewalRead
<1>a. Alone(c)
    BY DEF Alone, Untouched, Release, Close, SendRelease, ReleaseAnswered, ReleaseFails, ReleaseRaises, Crash, MainOp
<1>c. ASSUME NEW d \in Clients \ {c} PROVE ClientInv(d)'
  BY <1>a, OthersUntouched DEF Alone, LeaseInv
<1>b. ClientInv(c)'
  <2>0. ClientInv(c) BY DEF LeaseInv
  <2> USE <2>0 DEF ClientInv, Stages, GrantKnown, RenewalKnown, TrustedKnown, Trusted, Posting, Stopped
  <2>1. CASE Close(c) BY <2>1 DEF Close
  <2>2. CASE SendRelease(c) BY <2>2 DEF SendRelease
  <2>3. CASE ReleaseAnswered(c) BY <2>3 DEF ReleaseAnswered
  <2>4. CASE ReleaseFails(c) BY <2>4 DEF ReleaseFails
  <2>5. CASE ReleaseRaises(c) BY <2>5 DEF ReleaseRaises
  <2>6. CASE Crash(c) BY <2>6 DEF Crash, MainOp
  <2> QED BY <2>1, <2>2, <2>3, <2>4, <2>5, <2>6 DEF Release
<1> QED BY <1>a, <1>b, <1>c DEF LeaseInv

LEMMA ServerLease ==
    ASSUME TypeOK, TypeOK', LeaseInv, NEW c \in Clients,
           ServeMain(c) \/ ServeRenewal(c) \/ \E op \in Ops : ServeLate(c, op)
    PROVE  LeaseInv' /\ Alone(c)
<1> USE DEF TypeOK, server, main, beat, ServerAnswers, Take, Keep, Answers, Ops, MainOp
<1>a. Alone(c)
  <2>1. CASE ServeMain(c) BY <2>1 DEF Alone, Untouched, ServeMain
  <2>2. CASE ServeRenewal(c) BY <2>2 DEF Alone, Untouched, ServeRenewal
  <2>3. CASE \E op \in Ops : ServeLate(c, op) BY <2>3 DEF Alone, Untouched, ServeLate
  <2> QED BY <2>1, <2>2, <2>3
<1>c. ASSUME NEW d \in Clients \ {c} PROVE ClientInv(d)'
  BY <1>a, OthersUntouched DEF Alone, LeaseInv
<1>b. ClientInv(c)'
  <2>0. ClientInv(c) BY DEF LeaseInv
  <2> USE <2>0 DEF ClientInv, Stages, GrantKnown, RenewalKnown, TrustedKnown, Trusted, Posting, Stopped
  <2>1. CASE ServeMain(c) BY <2>1 DEF ServeMain
  <2>2. CASE ServeRenewal(c) BY <2>2 DEF ServeRenewal
  <2>3. CASE \E op \in Ops : ServeLate(c, op) BY <2>3 DEF ServeLate
  <2> QED BY <2>1, <2>2, <2>3
<1> QED BY <1>a, <1>b, <1>c DEF LeaseInv

LEMMA OthersLease ==
    ASSUME TypeOK, TypeOK', LeaseInv,
           Rollback \/ \E o \in Others : OtherTakes(o) \/ OtherReleases(o)
    PROVE  LeaseInv'
<1> SUFFICES ASSUME NEW d \in Clients PROVE ClientInv(d)'
  BY DEF LeaseInv
<1>1. Untouched(d)
  <2>1. CASE Rollback BY <2>1 DEF TypeOK, Untouched, Rollback, main, beat
  <2>2. ASSUME NEW o \in Others, OtherTakes(o) PROVE Untouched(d)
    BY <2>2 DEF TypeOK, Untouched, OtherTakes, Take, main, beat
  <2>3. ASSUME NEW o \in Others, OtherReleases(o) PROVE Untouched(d)
    BY <2>3 DEF TypeOK, Untouched, OtherReleases, main, beat
  <2> QED BY <2>1, <2>2, <2>3
<1> QED BY <1>1, OthersUntouched DEF LeaseInv

LEMMA TickLease == ASSUME TypeOK, TypeOK', LeaseInv, Tick PROVE LeaseInv'
<1> SUFFICES ASSUME NEW c \in Clients PROVE ClientInv(c)'
  BY DEF LeaseInv
<1>0. ClientInv(c) /\ MayWait(c) BY DEF LeaseInv, Tick
<1> QED
  BY <1>0, HeartbeatOutrunsTTL
     DEF TypeOK, Tick, MayWait, ClientInv, Stages, GrantKnown, RenewalKnown, TrustedKnown,
         Trusted, Posting, Stopped
-----------------------------------------------------------------------------
IInv == TypeOK /\ LeaseInv

LEMMA StepInv == IInv /\ [Next]_vars => IInv'
<1> SUFFICES ASSUME TypeOK, LeaseInv, [Next]_vars PROVE TypeOK' /\ LeaseInv'
  BY DEF IInv
<1>1. ASSUME NEW c \in Clients, Acquire(c) \/ Connect(c) PROVE TypeOK' /\ LeaseInv'
  BY <1>1, AcquireTyped, AcquireLease
<1>2. ASSUME NEW c \in Clients, Heartbeat(c) PROVE TypeOK' /\ LeaseInv'
  BY <1>2, HeartbeatTyped, HeartbeatLease
<1>3. ASSUME NEW c \in Clients, Release(c) \/ Close(c) \/ Crash(c)
      PROVE  TypeOK' /\ LeaseInv'
  BY <1>3, ReleaseTyped, ReleaseLease
<1>4. ASSUME NEW c \in Clients,
             ServeMain(c) \/ ServeRenewal(c) \/ \E op \in Ops : ServeLate(c, op)
      PROVE  TypeOK' /\ LeaseInv'
  BY <1>4, ServerTyped, ServerLease
<1>5. CASE Rollback \/ \E o \in Others : OtherTakes(o) \/ OtherReleases(o)
  BY <1>5, OthersTyped, OthersLease
<1>6. CASE Tick
  BY <1>6, TickTyped, TickLease
<1>7. CASE UNCHANGED vars
  BY <1>7 DEF vars, TypeOK, LeaseInv, ClientInv, Stages, GrantKnown, RenewalKnown,
              TrustedKnown, Trusted, Posting, Stopped
<1> QED BY <1>1, <1>2, <1>3, <1>4, <1>5, <1>6, <1>7 DEF Next

(* Every behaviour, fair or not, keeps the type invariant and LeaseInv. *)
THEOREM Typed == SafetySpec => []TypeOK
<1>1. Init => IInv BY InitTyped, InitLease DEF IInv
<1>2. IInv => TypeOK BY DEF IInv
<1> QED BY <1>1, <1>2, StepInv, PTL DEF SafetySpec

THEOREM LeaseInvariant == SafetySpec => []LeaseInv
<1>1. Init => IInv BY InitTyped, InitLease DEF IInv
<1>2. IInv => LeaseInv BY DEF IInv
<1> QED BY <1>1, <1>2, StepInv, PTL DEF SafetySpec

LEMMA InvExclusive == IInv => HeldIsExclusive
<1> SUFFICES ASSUME IInv, NEW c \in Clients, Trusted(c) PROVE holder = c /\ left > 0
  BY DEF HeldIsExclusive
<1>1. TypeOK /\ Stages(c) /\ TrustedKnown(c) BY DEF IInv, LeaseInv, ClientInv
<1> QED
  BY <1>1, HeartbeatOutrunsTTL DEF TypeOK, Stages, TrustedKnown, Trusted

(* While no renewal fails, a client that believes it holds the lease is the   *)
(* one the server names, whatever the others, the network and late requests   *)
(* do.                                                                        *)
THEOREM HoldsWhatItBelieves == SafetySpec => []HeldIsExclusive
<1>1. Init => IInv BY InitTyped, InitLease DEF IInv
<1> QED BY <1>1, StepInv, InvExclusive, PTL DEF SafetySpec

(* A step changes at most one client, or it is time, the server or another    *)
(* consumer that moves: then no client's reliance on the lease changes.       *)
LEMMA OneMoves ==
    ASSUME TypeOK, TypeOK', LeaseInv, [Next]_vars
    PROVE  \/ \E c \in Clients : \A d \in Clients \ {c} : Trusted(d)' = Trusted(d)
           \/ \A d \in Clients : Trusted(d)' = Trusted(d)
<1>0. ASSUME NEW c \in Clients, Alone(c)
      PROVE  \A d \in Clients \ {c} : Trusted(d)' = Trusted(d)
  BY <1>0 DEF Alone, Untouched, Trusted
<1>1. ASSUME NEW c \in Clients, Acquire(c) \/ Connect(c) PROVE Alone(c)
  BY <1>1, AcquireLease
<1>2. ASSUME NEW c \in Clients, Heartbeat(c) PROVE Alone(c)
  BY <1>2, HeartbeatLease
<1>3. ASSUME NEW c \in Clients, Release(c) \/ Close(c) \/ Crash(c) PROVE Alone(c)
  BY <1>3, ReleaseLease
<1>4. ASSUME NEW c \in Clients,
             ServeMain(c) \/ ServeRenewal(c) \/ \E op \in Ops : ServeLate(c, op)
      PROVE  Alone(c)
  BY <1>4, ServerLease
<1>5. ASSUME Rollback \/ (\E o \in Others : OtherTakes(o) \/ OtherReleases(o)) \/ Tick
             \/ UNCHANGED vars
      PROVE  \A d \in Clients : Trusted(d)' = Trusted(d)
  BY <1>5 DEF Rollback, OtherTakes, OtherReleases, Tick, Trusted, vars, main, beat
<1> QED BY <1>0, <1>1, <1>2, <1>3, <1>4, <1>5 DEF Next
Users == {c \in Clients : Trusted(c)}

LEMMA StepUses == ASSUME IInv, IInv', [Next]_vars PROVE [Device!Next]_Users
<1> USE DEF Users
<1>0. HeldIsExclusive /\ HeldIsExclusive'
  BY InvExclusive, PTL
<1>1. /\ \A c, d \in Users : c = d
      /\ \A c, d \in Users' : c = d
  BY <1>0 DEF HeldIsExclusive
<1>2. CASE \A d \in Clients : Trusted(d)' = Trusted(d)
  BY <1>2
<1>3. ASSUME NEW c \in Clients, \A d \in Clients \ {c} : Trusted(d)' = Trusted(d)
      PROVE  [Device!Next]_Users
  <2>1. CASE Trusted(c)' = Trusted(c) BY <1>3, <2>1
  <2>2. CASE Trusted(c) /\ ~Trusted(c)'
    <3>1. c \in Users /\ Users' = Users \ {c} BY <1>3, <2>2
    <3> QED BY <3>1 DEF Device!Next, Device!Leave
  <2>3. CASE ~Trusted(c) /\ Trusted(c)'
    <3>1. Users' = Users \cup {c} /\ c \in Users' /\ c \notin Users BY <1>3, <2>3
    <3>2. Users = {} BY <1>1, <3>1
    <3> QED BY <3>1, <3>2 DEF Device!Next, Device!Enter
  <2> QED BY <2>1, <2>2, <2>3 DEF Trusted, IInv, TypeOK
<1> QED BY <1>2, <1>3, OneMoves DEF IInv

(* The lease implements the abstract exclusive device: the clients that may   *)
(* rely on it use it one at a time.                                           *)
THEOREM OneUser == SafetySpec => OneUserAtATime
<1>1. Init => IInv BY InitTyped, InitLease DEF IInv
<1>2. Init => Device!Init
  BY DEF Init, Device!Init, Trusted
<1>3. IInv /\ IInv' /\ [Next]_vars => [Device!Next]_Users
  BY StepUses
<1> QED BY <1>1, <1>2, <1>3, StepInv, PTL DEF SafetySpec, OneUserAtATime, Device!Spec, Users

-----------------------------------------------------------------------------
(* Why a release is final: an acquire that may still arrive belongs to a client *)
(* that never got as far, and a renewal that may still arrive finds no lease.   *)
FinalKnown(c) ==
    /\ <<c, "lease">> \in late => pc[c] \in {"closed", "crashed"}
    /\ ~RenewRevives /\ (pc[c] = "released" \/ (pc[c] = "releasing" /\ call[c] = "ok")) => holder # c
FinalInv == \A c \in Clients : FinalKnown(c)

LEMMA FinalStep ==
    ASSUME TypeOK, LeaseInv, [Next]_vars, NEW d \in Clients, FinalKnown(d)
    PROVE  FinalKnown(d)'
<1> USE NamesAssumption DEF TypeOK, FinalKnown, server, main, beat, Goto, Send, Answered, Abandon
<1>0. Stages(d)
  BY DEF LeaseInv, ClientInv
<1>1. ASSUME NEW c \in Clients, Acquire(c) \/ Connect(c) PROVE FinalKnown(d)'
  BY <1>1 DEF Acquire, Connect, AcquireGranted, AcquireUnsupported, AcquireBusy, PollAgain, AcquireFails, StartHeartbeat
<1>2. ASSUME NEW c \in Clients, Heartbeat(c) PROVE FinalKnown(d)'
  BY <1>2 DEF Heartbeat, HbRenew, HbStop, HbRenewed, HbLost, HbFails, HbDies, HbWait, HbEnd, RenewalRead
<1>3. ASSUME NEW c \in Clients, Release(c) \/ Close(c) \/ Crash(c) PROVE FinalKnown(d)'
  <2>1. CASE Release(c)
    BY <1>0, <2>1 DEF Release, SendRelease, ReleaseAnswered, ReleaseFails, ReleaseRaises, Stages, Posting
  <2>2. CASE Close(c) \/ Crash(c)
    BY <2>2 DEF Close, Crash, MainOp, RenewalRead, HbEnd
  <2> QED BY <1>3, <2>1, <2>2
<1>4. ASSUME NEW c \in Clients,
             ServeMain(c) \/ ServeRenewal(c) \/ \E op \in Ops : ServeLate(c, op)
      PROVE  FinalKnown(d)'
  <2> USE DEF ServerAnswers, Take, Keep, Answers, Ops
  <2>1. CASE ServeMain(c)
    BY <1>0, <2>1 DEF ServeMain, MainOp, Stages, Posting
  <2>2. CASE ServeRenewal(c)
    BY <2>2 DEF ServeRenewal
  <2>3. CASE \E op \in Ops : ServeLate(c, op)
    BY <2>3 DEF ServeLate
  <2> QED BY <1>4, <2>1, <2>2, <2>3
<1>5. CASE Rollback \/ \E o \in Others : OtherTakes(o) \/ OtherReleases(o)
  <2>1. CASE Rollback
    BY <2>1 DEF Rollback
  <2>2. ASSUME NEW o \in Others, OtherTakes(o) \/ OtherReleases(o) PROVE FinalKnown(d)'
    <3>1. o # d /\ NoOne # d
      BY DEF NamesAssumption
    <3> QED BY <2>2, <3>1 DEF OtherTakes, OtherReleases, Take
  <2> QED BY <1>5, <2>1, <2>2
<1>6. CASE Tick
  BY <1>6 DEF Tick
<1>7. CASE UNCHANGED vars
  BY <1>7 DEF vars
<1> QED BY <1>1, <1>2, <1>3, <1>4, <1>5, <1>6, <1>7 DEF Next

(* A release that the server acknowledged is final, whatever renewals, acquires *)
(* and releases of this client and of others are still on their way, on a       *)
(* server whose renew does not revive a lapsed lease (cloud_lock.py, release).  *)
THEOREM ReleasedForGood == SafetySpec => []ReleaseIsFinal
<1>1. Init => FinalInv
  BY DEF Init, FinalInv, FinalKnown
<1>2. TypeOK /\ LeaseInv /\ FinalInv /\ [Next]_vars => FinalInv'
  BY FinalStep DEF FinalInv
<1>3. FinalInv => ReleaseIsFinal
  BY DEF FinalInv, FinalKnown, ReleaseIsFinal
<1> QED BY <1>1, <1>2, <1>3, Typed, LeaseInvariant, PTL DEF SafetySpec
=============================================================================
