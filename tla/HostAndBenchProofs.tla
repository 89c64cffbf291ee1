------------------------- MODULE HostAndBenchProofs -------------------------
(* What the SDK keeps on the host: the saved login, the pins of the pods'    *)
(* certificates, the wiring profiles, and what the test harnesses keep of    *)
(* their connections, fixtures and builds; and how it uses the bench: the    *)
(* choice of the pod, the CAN session, the analog calls and the AI Vision    *)
(* board.  Each part by itself.                                              *)
EXTENDS LoginSession, PinStore, BenchFixtures, WiringProfile, PodPool, BuildReport, CanBus, PodConnection,
        VisionBoard, AnalogBench, FiniteSetTheorems, SequenceTheorems, TLAPS

-----------------------------------------------------------------------------
(* The login session (login.py): any callers, locks and processes. *)

Progress == NotAsking \cup {"asked", "reply"}
RefreshRequest == [by : Callers, tok : 1 .. issued, live : BOOLEAN]

LEMMA LoginStarts == LoginInit => LoginInv
<1> SUFFICES ASSUME LoginInit PROVE LoginInv
  OBVIOUS
<1>1. LoginTypeOK
  <2>1. issued \in 1 .. MaxIssued /\ tokenFile \in 1 .. issued /\ askCount \in 0 .. MaxAsked
    BY LoginAssumption DEF LoginInit, LoginAssumption
  <2>2. asking \in [Callers -> [pc : Progress, tok : 0 .. issued]]
    BY DEF LoginInit, Progress, NotAsking
  <2>3. requests \in SUBSET RefreshRequest /\ beaten \in [Callers -> SUBSET Locks]
    BY DEF LoginInit
  <2>4. loginLost \in BOOLEAN /\ expired \in SUBSET (1 .. issued)
    BY DEF LoginInit
  <2> QED BY <2>1, <2>2, <2>3, <2>4, Zenon DEF LoginTypeOK, Progress, RefreshRequest
<1>2. \A c \in Callers : asking[c].pc = "idle"
  BY DEF LoginInit
<1>3. LoginKept /\ OneRefreshPerLock
  BY <1>2 DEF LoginInit, LoginKept, OneRefreshPerLock
<1>4. CallersKnow
  BY <1>2 DEF LoginInit, CallersKnow, NotAsking
<1> QED BY <1>1, <1>3, <1>4 DEF LoginInv

(* What the types say of a caller and of a request *)
LEMMA Shapes ==
    ASSUME LoginTypeOK
    PROVE  /\ issued \in 1 .. MaxIssued /\ tokenFile \in 1 .. issued /\ loginLost \in BOOLEAN
           /\ \A c \in Callers : asking[c] \in [pc : Progress, tok : 0 .. issued]
           /\ \A r \in requests : r \in RefreshRequest
  BY DEF LoginTypeOK, Progress, RefreshRequest

LEMMA OneMoves ==
    ASSUME LoginTypeOK, NEW c \in Callers, NEW pc \in Progress, NEW tok, Now(c, pc, tok)
    PROVE  /\ asking'[c] = [pc |-> pc, tok |-> tok]
           /\ \A d \in Callers : d # c => asking'[d] = asking[d]
           /\ (issued' >= issued /\ issued' \in Nat /\ tok \in 0 .. issued') =>
                 asking' \in [Callers -> [pc : Progress, tok : 0 .. issued']]
<1>1. /\ asking'[c] = [pc |-> pc, tok |-> tok]
      /\ \A d \in Callers : d # c => asking'[d] = asking[d]
      /\ asking' = [asking EXCEPT ![c] = [pc |-> pc, tok |-> tok]]
  BY DEF Now, LoginTypeOK
<1>2. ASSUME issued' >= issued, issued' \in Nat, tok \in 0 .. issued'
      PROVE  asking' \in [Callers -> [pc : Progress, tok : 0 .. issued']]
  <2>1. issued \in Nat /\ \A n \in 0 .. issued : n \in 0 .. issued'
    BY <1>2, Shapes
  <2>2. \A d \in Callers : asking[d] \in [pc : Progress, tok : 0 .. issued']
    BY <2>1, Shapes
  <2>3. [pc |-> pc, tok |-> tok] \in [pc : Progress, tok : 0 .. issued']
    BY <1>2
  <2>4. asking \in [Callers -> [pc : Progress, tok : 0 .. issued']]
    BY <2>2 DEF LoginTypeOK
  <2> QED BY <1>1, <2>3, <2>4
<1> QED BY <1>1, <1>2

LEMMA LiveCallersWait ==
    ASSUME CallersKnow
    PROVE  \A r \in requests : r.live => asking[r.by].pc = "asked"
<1> SUFFICES ASSUME NEW r \in requests, r.live PROVE asking[r.by].pc = "asked"
  OBVIOUS
<1>1. asking[r.by] = [pc |-> "asked", tok |-> r.tok]
  BY DEF CallersKnow
<1> QED BY <1>1

LEMMA TakeSavedHolds == ASSUME LoginInv, NEW c \in Callers, TakeSaved(c) PROVE LoginInv'
<1> USE DEF LoginInv
<1>1. /\ issued' = issued /\ tokenFile' = tokenFile /\ expired' = expired /\ requests' = requests
      /\ loginLost' = loginLost /\ asking[c].pc \in NotAsking
      /\ beaten' = [beaten EXCEPT ![c] = {}] /\ Now(c, "served", tokenFile)
      /\ askCount < MaxAsked /\ askCount' = askCount + 1
  BY DEF TakeSaved, LockFree
<1>2. /\ asking'[c] = [pc |-> "served", tok |-> tokenFile]
      /\ \A d \in Callers : d # c => asking'[d] = asking[d]
      /\ asking' \in [Callers -> [pc : Progress, tok : 0 .. issued']]
  BY <1>1, OneMoves, Shapes DEF Progress, NotAsking
<1>3. beaten' \in [Callers -> SUBSET Locks] /\ \A d \in Callers : d # c => beaten'[d] = beaten[d]
  BY <1>1 DEF LoginTypeOK
<1>4. askCount' \in 0 .. MaxAsked
  BY <1>1, LoginAssumption DEF LoginTypeOK, LoginAssumption
<1>5. LoginTypeOK'
  BY <1>1, <1>2, <1>3, <1>4, Zenon DEF LoginTypeOK, Progress
<1>6. LoginKept'
  BY <1>1, <1>2 DEF LoginKept, NotAsking
<1>7. OneRefreshPerLock'
  BY <1>1, <1>2, <1>3 DEF OneRefreshPerLock
<1>8. CallersKnow'
  BY <1>1, <1>2, <1>3, Shapes DEF CallersKnow, NotAsking, RefreshRequest
<1> QED BY <1>5, <1>6, <1>7, <1>8

LEMMA AskRefreshHolds == ASSUME LoginInv, NEW c \in Callers, AskRefresh(c) PROVE LoginInv'
<1> DEFINE mine == [by |-> c, tok |-> tokenFile, live |-> TRUE]
           ahead == {LockOf[d] : d \in {e \in Callers : asking[e].pc = "reply"}}
<1> USE DEF LoginInv
<1>1. /\ issued' = issued /\ tokenFile' = tokenFile /\ expired' = expired
      /\ requests' = requests \cup {mine} /\ loginLost' = loginLost
      /\ beaten' = [beaten EXCEPT ![c] = ahead] /\ Now(c, "asked", tokenFile)
      /\ askCount < MaxAsked /\ askCount' = askCount + 1
  BY DEF AskRefresh
<1>2. \A d \in Callers : LockOf[d] = LockOf[c] => asking[d].pc \in NotAsking
  BY DEF AskRefresh, LockFree
<1>3. /\ asking'[c] = [pc |-> "asked", tok |-> tokenFile]
      /\ \A d \in Callers : d # c => asking'[d] = asking[d]
      /\ asking' \in [Callers -> [pc : Progress, tok : 0 .. issued']]
  BY <1>1, OneMoves, Shapes DEF Progress, NotAsking
<1>4. /\ beaten' \in [Callers -> SUBSET Locks] /\ beaten'[c] = ahead
      /\ \A d \in Callers : d # c => beaten'[d] = beaten[d]
  <2>1. ahead \in SUBSET Locks
    BY DEF Locks
  <2> HIDE DEF ahead
  <2> QED BY <1>1, <2>1 DEF LoginTypeOK
<1>5. LoginTypeOK'
  <2>1. askCount' \in 0 .. MaxAsked
    BY <1>1, LoginAssumption DEF LoginTypeOK, LoginAssumption
  <2>2. mine \in RefreshRequest
    BY Shapes DEF RefreshRequest
  <2>3. requests' \in SUBSET [by : Callers, tok : 1 .. issued', live : BOOLEAN]
    BY <1>1, <2>2 DEF LoginTypeOK, RefreshRequest
  <2> QED BY <1>1, <1>3, <1>4, <2>1, <2>3, Zenon DEF LoginTypeOK, Progress
<1>6. \A d \in Callers : asking[d].pc = "reply" => d # c
  BY <1>2 DEF NotAsking
<1>7. LoginKept'
  BY <1>1, <1>3, <1>6 DEF LoginKept
<1>8. OneRefreshPerLock'
  BY <1>1, <1>3, <1>4 DEF OneRefreshPerLock
<1>9. tokenFile = issued \/ loginLost \/ ahead \ {LockOf[c]} # {}
  <2>1. ASSUME NEW d \in Callers, asking[d].pc = "reply" PROVE LockOf[d] \in ahead \ {LockOf[c]}
    BY <1>2, <2>1 DEF NotAsking
  <2> QED BY <2>1 DEF LoginKept
<1>10. CallersKnow'
  <2>1. \A d \in Callers : asking'[d].pc = "reply" =>
          /\ asking'[d].tok = issued' /\ tokenFile' # issued'
          /\ \A r \in requests' : r.tok # issued'
          /\ \A e \in Callers : asking'[e].pc = "reply" => e = d
    BY <1>1, <1>3 DEF CallersKnow
  <2>2. \A r \in requests' : r.live => asking'[r.by] = [pc |-> "asked", tok |-> r.tok]
    <3>1. \A r \in requests : r.live => r.by # c
      <4>1. asking[c].pc # "asked"
        BY <1>2 DEF NotAsking
      <4> QED BY <4>1, LiveCallersWait
    <3> QED BY <1>1, <1>3, <3>1, Shapes DEF CallersKnow, RefreshRequest
  <2>3. \A d \in Callers : asking'[d].pc = "asked" /\ ~loginLost'
          => asking'[d].tok = issued' \/ beaten'[d] \ {LockOf[d]} # {}
    <3> HIDE DEF ahead
    <3> QED BY <1>1, <1>3, <1>4, <1>9 DEF CallersKnow
  <2>4. \A d, e \in Callers : d # e /\ LockOf[d] = LockOf[e]
          => asking'[d].pc \in NotAsking \/ asking'[e].pc \in NotAsking
    BY <1>2, <1>3 DEF CallersKnow
  <2> QED BY <2>1, <2>2, <2>3, <2>4 DEF CallersKnow
<1> QED BY <1>5, <1>7, <1>8, <1>10

LEMMA RefreshHolds ==
    ASSUME LoginInv, NEW r \in requests, NEW arrives \in BOOLEAN, Refresh(r, arrives)
    PROVE  LoginInv'
<1> DEFINE c == r.by
<1> USE DEF LoginInv
<1>1. /\ r.tok = issued /\ issued < MaxIssued /\ issued' = issued + 1 /\ requests' = requests \ {r}
      /\ tokenFile' = tokenFile /\ expired' = expired /\ askCount' = askCount
      /\ beaten' = [d \in Callers |-> IF d # c /\ asking[d].pc = "asked"
                                      THEN beaten[d] \cup {LockOf[c]} ELSE beaten[d]]
  BY DEF Refresh
<1>2. c \in Callers /\ r.live \in BOOLEAN
  BY Shapes DEF RefreshRequest
<1>3. (loginLost' <=> loginLost \/ ~(r.live /\ arrives)) /\ loginLost' \in BOOLEAN
  BY <1>2, Zenon DEF Refresh
<1>4. issued' \in 1 .. MaxIssued /\ issued' >= issued /\ issued \in Nat /\ tokenFile \in 1 .. issued
      /\ issued' \in Nat /\ issued' \in 0 .. issued' /\ 0 \in 0 .. issued'
      /\ (\A n \in 0 .. issued : n \in 0 .. issued') /\ (\A n \in 1 .. issued : n \in 1 .. issued')
  BY <1>1, LoginAssumption, Shapes DEF LoginAssumption
<1>5. /\ \A d \in Callers : asking[d].pc # "reply"
      /\ r.live => asking[c] = [pc |-> "asked", tok |-> issued]
  BY <1>1 DEF CallersKnow
<1>6. /\ r.live /\ arrives => asking'[c] = [pc |-> "reply", tok |-> issued']
      /\ r.live /\ ~arrives => asking'[c] = [pc |-> "raised", tok |-> 0]
      /\ ~r.live => asking'[c] = asking[c]
      /\ \A d \in Callers : d # c => asking'[d] = asking[d]
      /\ asking' \in [Callers -> [pc : Progress, tok : 0 .. issued']]
  <2>1. CASE r.live /\ arrives
    <3>1. Now(c, "reply", issued')
      BY <1>1, <2>1 DEF Refresh
    <3> QED BY <1>2, <1>4, <2>1, <3>1, OneMoves DEF Progress, NotAsking
  <2>2. CASE r.live /\ ~arrives
    <3>1. Now(c, "raised", 0)
      BY <2>2 DEF Refresh
    <3> QED BY <1>2, <1>4, <2>2, <3>1, OneMoves DEF Progress, NotAsking
  <2>3. CASE ~r.live
    <3>1. asking' = asking
      BY <2>3 DEF Refresh
    <3>2. \A d \in Callers : asking[d] \in [pc : Progress, tok : 0 .. issued']
      BY <1>4, Shapes
    <3>3. asking \in [Callers -> [pc : Progress, tok : 0 .. issued']]
      BY <3>2 DEF LoginTypeOK
    <3> QED BY <2>3, <3>1, <3>3
  <2> QED BY <1>2, <2>1, <2>2, <2>3
<1>7. \A d \in Callers : beaten[d] \subseteq beaten'[d] /\ beaten'[d] \in SUBSET Locks
  BY <1>1, <1>2 DEF LoginTypeOK, Locks
<1>8. LoginTypeOK'
  <2>1. beaten' \in [Callers -> SUBSET Locks]
    BY <1>1, <1>7
  <2>2. requests' \in SUBSET [by : Callers, tok : 1 .. issued', live : BOOLEAN]
    BY <1>1, <1>4 DEF LoginTypeOK
  <2>3. expired' \in SUBSET (1 .. issued') /\ tokenFile' \in 1 .. issued' /\ askCount' \in 0 .. MaxAsked
    BY <1>1, <1>4 DEF LoginTypeOK
  <2> QED BY <1>3, <1>4, <1>6, <2>1, <2>2, <2>3, Zenon DEF LoginTypeOK, Progress
<1>9. LoginKept'
  BY <1>2, <1>3, <1>6 DEF LoginKept
<1>10. OneRefreshPerLock'
  <2>1. ASSUME NEW d \in Callers, asking'[d].pc = "refused" PROVE asking[d].pc = "refused"
    BY <1>2, <1>6, <2>1
  <2> QED BY <1>3, <1>7, <2>1 DEF OneRefreshPerLock
<1>11. CallersKnow'
  <2>1. \A d \in Callers : asking'[d].pc = "reply" =>
          /\ asking'[d].tok = issued' /\ tokenFile' # issued'
          /\ \A s \in requests' : s.tok # issued'
          /\ \A e \in Callers : asking'[e].pc = "reply" => e = d
    <3>1. \A d \in Callers : asking'[d].pc = "reply" => d = c /\ r.live /\ arrives
      BY <1>2, <1>5, <1>6
    <3>2. tokenFile' # issued' /\ \A s \in requests' : s.tok # issued'
      BY <1>1, <1>4, Shapes DEF RefreshRequest
    <3> QED BY <1>6, <3>1, <3>2
  <2>2. \A s \in requests' : s.live => asking'[s.by] = [pc |-> "asked", tok |-> s.tok]
    <3>1. ASSUME NEW s \in requests', s.live, s.by = c PROVE ~r.live
      <4>1. asking[c] = [pc |-> "asked", tok |-> s.tok]
        BY <1>1, <3>1 DEF CallersKnow
      <4>2. ASSUME r.live PROVE s = r
        <5>1. s.tok = r.tok
          BY <1>1, <1>5, <4>1, <4>2
        <5>2. s \in RefreshRequest /\ r \in RefreshRequest
          BY <1>1, Shapes
        <5>3. s.live = r.live
          BY <3>1, <4>2, <5>2, Zenon DEF RefreshRequest
        <5> QED BY <3>1, <5>1, <5>2, <5>3 DEF RefreshRequest
      <4> QED BY <1>1, <3>1, <4>2
    <3> QED BY <1>1, <1>6, <3>1, Shapes DEF CallersKnow, RefreshRequest
  <2>3. \A d \in Callers : asking'[d].pc = "asked" /\ ~loginLost'
          => asking'[d].tok = issued' \/ beaten'[d] \ {LockOf[d]} # {}
    <3>1. SUFFICES ASSUME NEW d \in Callers, asking'[d].pc = "asked", ~loginLost'
                   PROVE  beaten'[d] \ {LockOf[d]} # {}
      OBVIOUS
    <3>2. r.live /\ arrives /\ d # c /\ asking[d].pc = "asked"
      BY <1>2, <1>3, <1>6, <3>1
    <3>3. LockOf[c] \in beaten'[d]
      BY <1>1, <3>2
    <3>4. LockOf[c] # LockOf[d]
      BY <1>2, <1>5, <3>2 DEF CallersKnow, NotAsking
    <3> QED BY <3>3, <3>4
  <2>4. \A d, e \in Callers : d # e /\ LockOf[d] = LockOf[e]
          => asking'[d].pc \in NotAsking \/ asking'[e].pc \in NotAsking
    <3>1. \A d \in Callers : asking[d].pc \in NotAsking => asking'[d].pc \in NotAsking
      BY <1>2, <1>5, <1>6 DEF NotAsking
    <3> QED BY <3>1 DEF CallersKnow
  <2> QED BY <2>1, <2>2, <2>3, <2>4 DEF CallersKnow
<1> QED BY <1>8, <1>9, <1>10, <1>11

LEMMA RefuseHolds == ASSUME LoginInv, NEW r \in requests, Refuse(r) PROVE LoginInv'
<1> DEFINE c == r.by
<1> USE DEF LoginInv
<1>1. /\ r.tok # issued /\ requests' = requests \ {r}
      /\ issued' = issued /\ tokenFile' = tokenFile /\ expired' = expired /\ beaten' = beaten
      /\ loginLost' = loginLost /\ askCount' = askCount
  BY DEF Refuse
<1>2. c \in Callers /\ r.live \in BOOLEAN /\ r.tok \in 0 .. issued /\ r \in RefreshRequest
  BY Shapes DEF RefreshRequest
<1>3. r.live => asking[c] = [pc |-> "asked", tok |-> r.tok]
  BY DEF CallersKnow
<1>4. /\ r.live => asking'[c] = [pc |-> "refused", tok |-> r.tok]
      /\ ~r.live => asking'[c] = asking[c]
      /\ \A d \in Callers : d # c => asking'[d] = asking[d]
      /\ asking' \in [Callers -> [pc : Progress, tok : 0 .. issued']]
  <2>1. CASE r.live
    <3>1. Now(c, "refused", r.tok)
      BY <2>1 DEF Refuse
    <3> QED BY <1>1, <1>2, <2>1, <3>1, OneMoves, Shapes DEF Progress, NotAsking
  <2>2. CASE ~r.live
    <3>1. asking' = asking
      BY <2>2 DEF Refuse
    <3> QED BY <1>1, <2>2, <3>1 DEF LoginTypeOK, Progress
  <2> QED BY <1>2, <2>1, <2>2
<1>5. LoginTypeOK'
  <2>1. requests' \in SUBSET [by : Callers, tok : 1 .. issued', live : BOOLEAN]
    BY <1>1 DEF LoginTypeOK
  <2> QED BY <1>1, <1>4, <2>1, Zenon DEF LoginTypeOK, Progress
<1>6. \A d \in Callers : asking'[d].pc = "reply" <=> asking[d].pc = "reply"
  BY <1>2, <1>3, <1>4
<1>7. \A d \in Callers : asking[d].pc = "reply" => asking'[d] = asking[d]
  BY <1>2, <1>3, <1>4
<1>8. LoginKept'
  BY <1>1, <1>6, <1>7 DEF LoginKept
<1>9. OneRefreshPerLock'
  BY <1>1, <1>2, <1>3, <1>4 DEF OneRefreshPerLock, CallersKnow
<1>10. CallersKnow'
  <2>1. \A d \in Callers : asking'[d].pc = "reply" =>
          /\ asking'[d].tok = issued' /\ tokenFile' # issued'
          /\ \A s \in requests' : s.tok # issued'
          /\ \A e \in Callers : asking'[e].pc = "reply" => e = d
    BY <1>1, <1>6, <1>7 DEF CallersKnow
  <2>2. \A s \in requests' : s.live => asking'[s.by] = [pc |-> "asked", tok |-> s.tok]
    <3>1. ASSUME NEW s \in requests', s.live, s.by = c PROVE ~r.live
      <4>1. asking[c] = [pc |-> "asked", tok |-> s.tok] /\ s \in RefreshRequest
        BY <1>1, <3>1, Shapes DEF CallersKnow
      <4>2. ASSUME r.live PROVE s = r
        <5>1. s.tok = r.tok
          BY <1>3, <4>1, <4>2
        <5>2. s.live = r.live
          BY <1>2, <3>1, <4>1, <4>2, Zenon DEF RefreshRequest
        <5> QED BY <1>2, <3>1, <4>1, <5>1, <5>2 DEF RefreshRequest
      <4> QED BY <1>1, <3>1, <4>2
    <3> QED BY <1>1, <1>4, <3>1, Shapes DEF CallersKnow, RefreshRequest
  <2>3. \A d \in Callers : asking'[d].pc = "asked" /\ ~loginLost'
          => asking'[d].tok = issued' \/ beaten'[d] \ {LockOf[d]} # {}
    BY <1>1, <1>2, <1>4 DEF CallersKnow
  <2>4. \A d, e \in Callers : d # e /\ LockOf[d] = LockOf[e]
          => asking'[d].pc \in NotAsking \/ asking'[e].pc \in NotAsking
    <3>1. \A d \in Callers : asking[d].pc \in NotAsking => asking'[d].pc \in NotAsking
      BY <1>2, <1>3, <1>4 DEF NotAsking
    <3> QED BY <3>1 DEF CallersKnow
  <2> QED BY <2>1, <2>2, <2>3, <2>4 DEF CallersKnow
<1> QED BY <1>5, <1>8, <1>9, <1>10

(* The reply is saved, or is not. *)
LEMMA TokensSaveHolds ==
    ASSUME LoginInv, NEW c \in Callers, SaveTokens(c) \/ SaveTokensFails(c)
    PROVE  LoginInv'
<1> USE DEF LoginInv
<1>1. /\ asking[c].pc = "reply" /\ asking[c].tok = issued
      /\ \A d \in Callers : d # c => asking[d].pc # "reply"
  BY DEF SaveTokens, SaveTokensFails, CallersKnow
<1>2. /\ issued' = issued /\ expired' = expired /\ requests' = requests /\ beaten' = beaten
      /\ askCount' = askCount /\ tokenFile' \in 1 .. issued
      /\ tokenFile' = issued' \/ loginLost'
  BY <1>1, Shapes DEF SaveTokens, SaveTokensFails
<1>3. loginLost' \in BOOLEAN /\ (loginLost => loginLost')
  BY Zenon DEF SaveTokens, SaveTokensFails, LoginTypeOK
<1>4. /\ asking'[c].pc \in {"served", "raised"}
      /\ \A d \in Callers : d # c => asking'[d] = asking[d]
      /\ asking' \in [Callers -> [pc : Progress, tok : 0 .. issued']]
  <2>1. CASE SaveTokens(c)
    <3>1. Now(c, "served", issued) /\ issued \in 0 .. issued' /\ issued' >= issued /\ issued' \in Nat
      BY <1>1, <1>2, <2>1, Shapes DEF SaveTokens
    <3>2. "served" \in Progress
      BY DEF Progress, NotAsking
    <3>3. /\ asking'[c] = [pc |-> "served", tok |-> issued]
          /\ \A d \in Callers : d # c => asking'[d] = asking[d]
          /\ asking' \in [Callers -> [pc : Progress, tok : 0 .. issued']]
      BY <3>1, <3>2, OneMoves
    <3> QED BY <3>3
  <2>2. CASE SaveTokensFails(c)
    <3>1. Now(c, "raised", 0) /\ 0 \in 0 .. issued' /\ issued' >= issued /\ issued' \in Nat
      BY <1>2, <2>2, Shapes DEF SaveTokensFails
    <3>2. "raised" \in Progress
      BY DEF Progress, NotAsking
    <3>3. /\ asking'[c] = [pc |-> "raised", tok |-> 0]
          /\ \A d \in Callers : d # c => asking'[d] = asking[d]
          /\ asking' \in [Callers -> [pc : Progress, tok : 0 .. issued']]
      BY <3>1, <3>2, OneMoves
    <3> QED BY <3>3
  <2> QED BY <2>1, <2>2
<1>5. LoginTypeOK'
  <2>1. tokenFile' \in 1 .. issued'
    BY <1>2
  <2> QED BY <1>2, <1>3, <1>4, <2>1, Zenon DEF LoginTypeOK, Progress
<1>6. LoginKept'
  BY <1>2 DEF LoginKept
<1>7. OneRefreshPerLock'
  BY <1>2, <1>3, <1>4 DEF OneRefreshPerLock
<1>8. CallersKnow'
  <2>1. \A d \in Callers : asking'[d].pc # "reply"
    BY <1>1, <1>4
  <2>2. \A r \in requests : r.live => r.by # c
    BY <1>1, LiveCallersWait
  <2> QED BY <1>2, <1>3, <1>4, <2>1, <2>2, Shapes DEF CallersKnow, NotAsking, RefreshRequest
<1> QED BY <1>5, <1>6, <1>7, <1>8

(* What is left of the requests once some callers have gone *)
LEMMA AbandonedAre ==
    ASSUME LoginTypeOK, NEW cs, NEW r \in Abandoned(cs)
    PROVE  /\ r \in RefreshRequest
           /\ \E s \in requests : s.tok = r.tok
           /\ r.live => r \in requests /\ r.by \notin cs
<1>1. PICK s \in requests : r = IF s.by \in cs THEN [s EXCEPT !.live = FALSE] ELSE s
  BY DEF Abandoned
<1>2. s \in RefreshRequest
  BY Shapes
<1>3. CASE s.by \in cs
  <2>1. r = [by |-> s.by, tok |-> s.tok, live |-> FALSE]
    BY <1>1, <1>2, <1>3 DEF RefreshRequest
  <2> QED BY <1>2, <2>1 DEF RefreshRequest
<1>4. CASE s.by \notin cs
  BY <1>1, <1>2, <1>4
<1> QED BY <1>3, <1>4

(* Callers that stop waiting: by the timeout, or with their process. *)
LEMMA LeavingHolds ==
    ASSUME LoginInv, NEW cs \in SUBSET Callers, requests' = Abandoned(cs),
           asking' \in [Callers -> [pc : Progress, tok : 0 .. issued]],
           \A d \in cs : asking'[d].pc \in {"idle", "raised"},
           \A d \in Callers \ cs : asking'[d] = asking[d],
           UNCHANGED <<issued, tokenFile, expired, beaten, askCount>>,
           loginLost' \in BOOLEAN, loginLost => loginLost',
           \A d \in cs : asking[d].pc = "reply" => loginLost'
    PROVE  LoginInv'
<1> USE DEF LoginInv
<1>1. LoginTypeOK'
  <2>1. requests' \in SUBSET [by : Callers, tok : 1 .. issued', live : BOOLEAN]
    BY AbandonedAre DEF RefreshRequest
  <2> QED BY <2>1, Zenon DEF LoginTypeOK, Progress
<1>2. LoginKept'
  BY DEF LoginKept
<1>3. OneRefreshPerLock'
  BY DEF OneRefreshPerLock
<1>4. CallersKnow'
  <2>1. \A d \in Callers : asking'[d].pc = "reply" => d \notin cs /\ asking[d].pc = "reply"
    OBVIOUS
  <2>2. \A r \in requests' : \E s \in requests : s.tok = r.tok
    BY AbandonedAre
  <2>3. \A r \in requests' : r.live => r \in requests /\ r.by \in Callers \ cs
    BY AbandonedAre DEF RefreshRequest
  <2>4. \A d \in Callers : asking'[d].pc = "reply" =>
          /\ asking'[d].tok = issued' /\ tokenFile' # issued'
          /\ \A r \in requests' : r.tok # issued'
          /\ \A e \in Callers : asking'[e].pc = "reply" => e = d
    BY <2>1, <2>2 DEF CallersKnow
  <2>5. \A r \in requests' : r.live => asking'[r.by] = [pc |-> "asked", tok |-> r.tok]
    BY <2>3 DEF CallersKnow
  <2>6. \A d \in Callers : asking'[d].pc = "asked" => d \notin cs /\ asking'[d] = asking[d]
    OBVIOUS
  <2>7. \A d \in Callers : asking'[d].pc = "asked" /\ ~loginLost'
          => asking'[d].tok = issued' \/ beaten'[d] \ {LockOf[d]} # {}
    BY <2>6 DEF CallersKnow
  <2>8. \A d \in Callers : asking[d].pc \in NotAsking => asking'[d].pc \in NotAsking
    BY DEF NotAsking
  <2> QED BY <2>4, <2>5, <2>7, <2>8 DEF CallersKnow
<1> QED BY <1>1, <1>2, <1>3, <1>4

LEMMA TimesOutHolds == ASSUME LoginInv, NEW c \in Callers, RefreshTimesOut(c) PROVE LoginInv'
<1>1. LoginTypeOK /\ issued \in Nat /\ issued' = issued /\ 0 \in 0 .. issued'
  BY Shapes, LoginAssumption DEF LoginInv, RefreshTimesOut, LoginAssumption
<1>2. /\ asking'[c] = [pc |-> "raised", tok |-> 0]
      /\ \A d \in Callers : d # c => asking'[d] = asking[d]
      /\ asking' \in [Callers -> [pc : Progress, tok : 0 .. issued]]
  BY <1>1, OneMoves DEF RefreshTimesOut, Progress, NotAsking
<1>3. loginLost' = loginLost /\ loginLost \in BOOLEAN /\ asking[c].pc = "asked"
  BY <1>1, Zenon DEF RefreshTimesOut, LoginTypeOK
<1> QED BY <1>2, <1>3, LeavingHolds DEF RefreshTimesOut

LEMMA ProcessEndsHolds == ASSUME LoginInv, NEW c \in Callers, ProcessEnds(c) PROVE LoginInv'
<1> DEFINE with == {d \in Callers : ProcessOf[d] = ProcessOf[c]}
<1>1. LoginTypeOK /\ 0 \in 0 .. issued
  BY Shapes, LoginAssumption DEF LoginInv, LoginAssumption
<1>2. asking' = [d \in Callers |-> IF d \in with THEN [pc |-> "idle", tok |-> 0] ELSE asking[d]]
  BY DEF ProcessEnds
<1>3. with \in SUBSET Callers
  OBVIOUS
<1>4. loginLost' \in BOOLEAN /\ (loginLost => loginLost')
      /\ \A d \in with : asking[d].pc = "reply" => loginLost'
  BY Zenon DEF ProcessEnds
<1>5. requests' = Abandoned(with) /\ UNCHANGED <<issued, tokenFile, expired, beaten, askCount>>
  BY DEF ProcessEnds
<1> HIDE DEF with
<1>6. /\ \A d \in with : asking'[d].pc \in {"idle", "raised"}
      /\ \A d \in Callers \ with : asking'[d] = asking[d]
  BY <1>2, <1>3
<1>7. asking' \in [Callers -> [pc : Progress, tok : 0 .. issued]]
  <2>1. [pc |-> "idle", tok |-> 0] \in [pc : Progress, tok : 0 .. issued]
    BY <1>1 DEF Progress, NotAsking
  <2> QED BY <1>1, <1>2, <2>1, Shapes
<1> QED BY <1>3, <1>4, <1>5, <1>6, <1>7, LeavingHolds

(* Whoever refreshes at the same time, in one process or in several, and whatever *)
(* requests, replies, saves or processes are lost: as long as none was lost, the  *)
(* newest tokens are in token.json or about to be written there, and a caller is  *)
(* refused only because of a refresh under another lock.                          *)
THEOREM LoginSurvives == LoginSpec => []LoginInv
<1>1. LoginInv /\ [LoginNext]_loginVars => LoginInv'
  <2> SUFFICES ASSUME LoginInv, [LoginNext]_loginVars PROVE LoginInv'
    OBVIOUS
  <2>1. ASSUME NEW c \in Callers,
               TakeSaved(c) \/ AskRefresh(c) \/ SaveTokens(c) \/ SaveTokensFails(c)
                  \/ RefreshTimesOut(c) \/ ProcessEnds(c)
        PROVE  LoginInv'
    BY <2>1, TakeSavedHolds, AskRefreshHolds, TokensSaveHolds, TimesOutHolds, ProcessEndsHolds
  <2>2. ASSUME NEW r \in requests, Refuse(r) \/ \E arrives \in BOOLEAN : Refresh(r, arrives)
        PROVE  LoginInv'
    BY <2>2, RefuseHolds, RefreshHolds
  <2>3. CASE AccessExpires
    <3>1. PICK tok \in (1 .. issued) \ expired : expired' = expired \cup {tok}
      BY <2>3 DEF AccessExpires
    <3>2. UNCHANGED <<issued, tokenFile, asking, requests, beaten, loginLost, askCount>>
      BY <2>3 DEF AccessExpires
    <3>3. LoginTypeOK'
      <4>1. expired' \in SUBSET (1 .. issued')
        BY <3>1, <3>2 DEF LoginInv, LoginTypeOK
      <4> QED BY <3>2, <4>1, Zenon DEF LoginInv, LoginTypeOK
    <3> QED BY <3>2, <3>3 DEF LoginInv, LoginKept, OneRefreshPerLock, CallersKnow
  <2>4. CASE UNCHANGED loginVars
    BY <2>4, Zenon DEF loginVars, LoginInv, LoginTypeOK, LoginKept, OneRefreshPerLock, CallersKnow
  <2> QED BY <2>1, <2>2, <2>3, <2>4 DEF LoginNext
<1> QED BY <1>1, LoginStarts, PTL DEF LoginSpec

-----------------------------------------------------------------------------
(* The pins of the pods' certificates (tls.py): any processes and pods. *)

PlanType == [tls : BOOLEAN, fallback : BOOLEAN, usb : BOOLEAN]
CallType == [pc : PinPcs, pod : Pods, copy : [Pods -> Nat], seen : Nat, plan : PlanType,
             pinned : BOOLEAN, outdated : BOOLEAN]

(* What is known of one process: its part of NeverDowngraded, and CallKnows. *)
Knows(p) == CallKnows(p) /\ (At(p, {"plain"}) /\ call[p].plan.fallback => ~call[p].pinned)

LEMMA InvIs ==
    PinInv <=> PinTypeOK /\ PinFollows /\ \A p \in Procs : Knows(p)
  BY DEF PinInv, NeverDowngraded, Knows

(* A dial that may fall back to plaintext begins with TLS. *)
LEMMA PlansAreSound ==
    /\ Plans \subseteq PlanType
    /\ \A plan \in Plans : plan.fallback => plan.tls
    /\ Plan("on", "8443", FALSE) \in PlanType /\ Plan("off", "8080", FALSE) \in PlanType
<1>1. ASSUME NEW mode, NEW port, NEW usb \in BOOLEAN
      PROVE  /\ Plan(mode, port, usb) \in PlanType
             /\ Plan(mode, port, usb).fallback => Plan(mode, port, usb).tls
  <2>1. Plan(mode, port, usb) \in PlanType
    BY Zenon DEF Plan, PlanType
  <2>2. Plan(mode, port, usb).fallback => Plan(mode, port, usb).tls
    BY DEF Plan
  <2> QED BY <2>1, <2>2
<1>2. ASSUME NEW plan \in Plans PROVE plan \in PlanType /\ (plan.fallback => plan.tls)
  <2>1. PICK mode \in Modes, port \in Ports, usb \in BOOLEAN : plan = Plan(mode, port, usb)
    BY DEF Plans
  <2> QED BY <1>1, <2>1
<1> QED BY <1>1, <1>2

LEMMA NoCallIs ==
    /\ NoCall \in CallType
    /\ NoCall.pc = "idle" /\ NoCall.pinned = FALSE
<1>1. (CHOOSE pod \in Pods : TRUE) \in Pods
  BY PinAssumption DEF PinAssumption
<1>2. NoPins \in [Pods -> Nat] /\ "idle" \in PinPcs
  BY DEF NoPins, PinPcs
<1> QED BY <1>1, <1>2, PlansAreSound DEF NoCall, CallType

LEMMA PinStarts == PinInit => PinInv
<1> SUFFICES ASSUME PinInit PROVE PinInv
  OBVIOUS
<1>1. \A p \in Procs : call[p] = NoCall
  BY DEF PinInit
<1>2. PinTypeOK
  <2>1. call \in [Procs -> CallType]
    BY NoCallIs DEF PinInit
  <2>2. podCert \in [Pods -> Nat] /\ file \in [Pods -> Nat] /\ noTls \in [Procs -> SUBSET Pods]
    BY DEF PinInit
  <2> QED BY <2>1, <2>2 DEF PinInit, PinTypeOK, CallType, PlanType
<1>3. PinFollows
  BY DEF PinInit, PinFollows
<1>4. \A p \in Procs : Knows(p)
  BY <1>1, NoCallIs DEF Knows, CallKnows, At, Saving
<1> QED BY <1>2, <1>3, <1>4, InvIs

(* A step of one process that leaves the certificates and the file alone: it      *)
(* keeps the invariant if it keeps what is known of that process, and if a change *)
(* that ends is written down.                                                     *)
LEMMA OneCallMoves ==
    ASSUME PinInv, NEW p \in Procs, NEW after \in CallType,
           call' = [call EXCEPT ![p] = after],
           UNCHANGED <<podCert, file, overwritten>>,
           noTls' \in [Procs -> SUBSET Pods], ops' \in Nat,
           owed' \in SUBSET Pods, owed \subseteq owed',
           Knows(p)',
           At(p, {"changed", "repin", "saveRepin"})
              => Pod(p) \in owed' \/ (after.pod = Pod(p) /\ after.pc \in {"changed", "repin", "saveRepin"})
    PROVE  PinInv'
<1>1. PinTypeOK /\ PinFollows /\ \A q \in Procs : Knows(q)
  BY InvIs
<1>2. call \in [Procs -> CallType]
  BY <1>1 DEF PinTypeOK, CallType, PlanType
<1>3. call'[p] = after /\ \A q \in Procs : q # p => call'[q] = call[q]
  BY <1>2
<1>4. PinTypeOK'
  <2>1. call' \in [Procs -> CallType]
    BY <1>2
  <2> QED BY <1>1, <2>1, Zenon DEF PinTypeOK, CallType, PlanType
<1>5. ASSUME NEW q \in Procs PROVE Knows(q)'
  <2>1. CASE q = p
    BY <2>1
  <2>2. CASE q # p
    BY <1>1, <1>3, <2>2 DEF Knows, CallKnows, At, Pod
  <2> QED BY <2>1, <2>2
<1>6. PinFollows'
  <2> SUFFICES ASSUME NEW pod \in Pods, ~(file[pod] \in {0, podCert[pod]}), pod \notin owed' \cup overwritten
               PROVE  UnderChange(pod)'
    BY DEF PinFollows
  <2>1. pod \notin owed \cup overwritten
    OBVIOUS
  <2>2. PICK q \in Procs : Pod(q) = pod /\ At(q, {"changed", "repin", "saveRepin"})
    BY <1>1, <2>1 DEF PinFollows, UnderChange
  <2>3. Pod(q)' = pod /\ At(q, {"changed", "repin", "saveRepin"})'
    BY <1>3, <2>2 DEF Pod, At
  <2> QED BY <2>3 DEF UnderChange
<1> QED BY <1>4, <1>5, <1>6 DEF PinInv, NeverDowngraded, Knows

(* The locals a call begins with. *)
First(pc, pod, plan, pinned) ==
    [NoCall EXCEPT !.pc = pc, !.pod = pod, !.plan = plan, !.pinned = pinned]

LEMMA FirstLocals ==
    ASSUME NEW pc \in PinPcs, NEW pod \in Pods, NEW plan \in PlanType, NEW b \in BOOLEAN
    PROVE  LET after == First(pc, pod, plan, b)
           IN  after \in CallType /\ after.pc = pc /\ after.pod = pod /\ after.plan = plan /\ after.pinned = b
<1> DEFINE c == [NoCall EXCEPT !.pc = pc, !.pod = pod, !.plan = plan]
<1> DEFINE after == [c EXCEPT !.pinned = b]
<1>1. NoCall \in CallType
  BY NoCallIs
<1>2. c \in CallType /\ c.pc = pc /\ c.pod = pod /\ c.plan = plan
  BY <1>1 DEF CallType
<1>3. First(pc, pod, plan, b) = after
  BY Zenon DEF First
<1> HIDE DEF c
<1>4. after \in CallType
  BY <1>2 DEF CallType
<1>5. after.pc = pc /\ after.pod = pod /\ after.plan = plan
  BY <1>2 DEF CallType
<1>6. after.pinned = b
  BY <1>2, Zenon DEF CallType
<1> QED BY <1>3, <1>4, <1>5, <1>6, Zenon

(* A call begins. *)
LEMMA BeginHolds ==
    ASSUME PinInv, NEW p \in Procs, NEW pod \in Pods, NEW plan \in PlanType,
           NEW pc \in {"plain", "connect", "known", "ask", "peer", "forget"},
           pc = "plain" => ~plan.fallback, Begin(p, pod, pc, plan)
    PROVE  PinInv'
<1> DEFINE after == [NoCall EXCEPT !.pc = pc, !.pod = pod, !.plan = plan, !.pinned = file[pod] # 0]
<1>1. /\ after \in CallType /\ after.pc = pc /\ after.pod = pod /\ after.plan = plan
      /\ after.pinned <=> file[pod] # 0
  <2>1. pc \in PinPcs
    BY DEF PinPcs
  <2>2. PICK b \in BOOLEAN : b = (file[pod] # 0)
    BY Zenon
  <2>3. after = First(pc, pod, plan, b)
    BY <2>2, Zenon DEF First
  <2> HIDE DEF after
  <2>4. after \in CallType /\ after.pc = pc /\ after.pod = pod /\ after.plan = plan /\ after.pinned = b
    BY <2>1, <2>3, FirstLocals
  <2> QED BY <2>2, <2>4, Zenon
<1> HIDE DEF after
<1>2. /\ call' = [call EXCEPT ![p] = after] /\ call[p].pc = "idle" /\ UNCHANGED <<Store, noTls>>
      /\ ops' \in Nat
  BY DEF Begin, after, PinInv, PinTypeOK
<1>3. noTls' \in [Procs -> SUBSET Pods] /\ owed' \in SUBSET Pods
  BY <1>2 DEF Store, PinInv, PinTypeOK
<1>4. call'[p] = after
  BY <1>2 DEF PinInv, PinTypeOK
<1>5. Knows(p)'
  BY <1>1, <1>2, <1>4 DEF Knows, CallKnows, At, Pod, Saving, Store
<1>6. ~At(p, {"changed", "repin", "saveRepin"})
  BY <1>2 DEF At
<1> QED BY <1>1, <1>2, <1>3, <1>5, <1>6, OneCallMoves DEF Store

(* A call ends. *)
LEMMA EndHolds ==
    ASSUME PinInv, NEW p \in Procs, Ends(p), UNCHANGED <<podCert, file, overwritten, ops>>,
           noTls' \in [Procs -> SUBSET Pods], owed' \in SUBSET Pods, owed \subseteq owed',
           At(p, {"changed", "repin", "saveRepin"}) => Pod(p) \in owed'
    PROVE  PinInv'
<1>1. call' = [call EXCEPT ![p] = NoCall] /\ ops' \in Nat
  BY DEF Ends, PinInv, PinTypeOK
<1>2. call'[p] = NoCall
  BY <1>1 DEF PinInv, PinTypeOK
<1>3. Knows(p)'
  BY <1>2, NoCallIs DEF Knows, CallKnows, At, Saving
<1> QED BY <1>1, <1>3, NoCallIs, OneCallMoves

(* A call goes on, perhaps with another view of the file or of the certificate. *)
LEMMA GoesOnHolds ==
    ASSUME PinInv, NEW p \in Procs, NEW after \in CallType,
           call' = [call EXCEPT ![p] = after], after.pod = Pod(p),
           UNCHANGED <<Store, ops>>, noTls' \in [Procs -> SUBSET Pods],
           after.pinned => call[p].pinned,
           after.pc \in {"probe", "plain"} => ~after.pinned,
           after.pc \in {"check", "trust", "repin", "saveFirst", "saveTrust", "saveRepin"}
              => after.seen = podCert[Pod(p)] \/ after.outdated,
           At(p, {"changed", "repin", "saveRepin"}) => after.pc \in {"changed", "repin", "saveRepin"}
    PROVE  PinInv'
<1>1. call'[p] = after /\ UNCHANGED <<podCert, file, owed, overwritten>>
  BY DEF PinInv, PinTypeOK, Store
<1>2. ops' \in Nat /\ owed' \in SUBSET Pods /\ owed \subseteq owed'
  BY <1>1 DEF PinInv, PinTypeOK
<1>3. Knows(p)'
  BY <1>1 DEF Knows, CallKnows, At, Pod, Saving, PinInv
<1> QED BY <1>1, <1>2, <1>3, OneCallMoves

-----------------------------------------------------------------------------
(* The actions, one lemma for each group of them. *)

LEMMA CallsTyped == PinInv => call \in [Procs -> CallType]
  BY DEF PinInv, PinTypeOK, CallType, PlanType

(* Dial, trust and forget. *)
LEMMA BeginningHolds ==
    ASSUME PinInv, NEW p \in Procs, NEW pod \in Pods,
           (\E plan \in Plans : Dial(p, pod, plan)) \/ Trust(p, pod) \/ Forget(p, pod)
    PROVE  PinInv'
<1>1. CASE \E plan \in Plans : Dial(p, pod, plan)
  <2>1. PICK plan \in Plans : Dial(p, pod, plan)
    BY <1>1
  <2>2. plan \in PlanType /\ (plan.fallback => plan.tls)
    BY PlansAreSound
  <2>3. CASE ~plan.tls
    BY <2>1, <2>2, <2>3, BeginHolds DEF Dial
  <2>4. CASE plan.tls /\ ~plan.fallback
    BY <2>1, <2>2, <2>4, BeginHolds DEF Dial
  <2>5. CASE plan.tls /\ plan.fallback /\ pod \in noTls[p]
    BY <2>1, <2>2, <2>5, BeginHolds DEF Dial
  <2>6. CASE plan.tls /\ plan.fallback /\ pod \notin noTls[p]
    BY <2>1, <2>2, <2>6, BeginHolds DEF Dial
  <2> QED BY <2>3, <2>4, <2>5, <2>6
<1>2. CASE Trust(p, pod)
  BY <1>2, PlansAreSound, BeginHolds DEF Trust
<1>3. CASE Forget(p, pod)
  BY <1>3, PlansAreSound, BeginHolds DEF Forget
<1> QED BY <1>1, <1>2, <1>3

(* The two questions of a dial that may fall back: a pin in a file that can be    *)
(* read takes it to TLS.                                                          *)
LEMMA AskingHolds ==
    ASSUME PinInv, NEW p \in Procs, NEW readable \in BOOLEAN,
           AskKnown(p, readable) \/ Ask(p, readable)
    PROVE  PinInv'
<1> DEFINE pc == IF At(p, {"known"})
                 THEN IF GetPin(p, readable) = 0 THEN "plain" ELSE "ask"
                 ELSE IF GetPin(p, readable) = 0 THEN "probe" ELSE "connect"
<1>1. /\ At(p, {"known", "ask"}) /\ Asked(p, readable, pc)
      /\ pc \in {"plain", "ask", "probe", "connect"}
  BY DEF AskKnown, Ask, At
<1> DEFINE c == [call[p] EXCEPT !.pc = pc]
<1> DEFINE after == [c EXCEPT !.pinned = @ /\ readable]
<1>2. call[p] \in CallType /\ pc \in PinPcs
  BY <1>1, CallsTyped DEF PinPcs
<1>3. pc \in {"plain", "probe"} => GetPin(p, readable) = 0
  BY DEF At
<1> HIDE DEF pc
<1>4. c \in CallType /\ c.pc = pc /\ c.pod = Pod(p) /\ c.pinned = call[p].pinned
  BY <1>2 DEF CallType, Pod
<1>5. call' = [call EXCEPT ![p] = [call[p] EXCEPT !.pc = pc, !.pinned = @ /\ readable]]
  BY <1>1, Zenon DEF Asked
<1>6. call' = [call EXCEPT ![p] = after]
  BY <1>5, Zenon
<1> HIDE DEF c
<1>7. after.pc = c.pc /\ after.pod = c.pod
  BY <1>4 DEF CallType
<1>8. after.pinned = (c.pinned /\ readable)
  BY <1>4, Zenon DEF CallType
<1>9. after \in CallType
  <2>1. (c.pinned /\ readable) \in BOOLEAN
    OBVIOUS
  <2> QED BY <1>4, <2>1, Zenon DEF CallType
<1> HIDE DEF after
<1>10. after.pinned => call[p].pinned /\ readable
  BY <1>4, <1>8, Zenon
<1>11. call[p].pinned => file[Pod(p)] # 0
  BY DEF PinInv, CallKnows
<1>12. after.pc \in {"probe", "plain"} => ~after.pinned
  BY <1>3, <1>4, <1>7, <1>10, <1>11 DEF GetPin
<1>13. UNCHANGED <<Store, ops>> /\ noTls' \in [Procs -> SUBSET Pods]
  BY <1>1 DEF Asked, PinInv, PinTypeOK
<1>14. /\ after.pc \notin {"check", "trust", "repin", "saveFirst", "saveTrust", "saveRepin"}
       /\ ~At(p, {"changed", "repin", "saveRepin"})
  BY <1>1, <1>4, <1>7 DEF At
<1> QED BY <1>4, <1>6, <1>7, <1>9, <1>10, <1>12, <1>13, <1>14, GoesOnHolds

(* ProbeFails: only a pod without a pin was probed. *)
LEMMA ProbeFailsHolds ==
    ASSUME PinInv, NEW p \in Procs, NEW remember \in BOOLEAN, ProbeFails(p, remember)
    PROVE  PinInv'
<1> DEFINE after == [call[p] EXCEPT !.pc = "plain"]
<1>1. call[p] \in CallType /\ "plain" \in PinPcs
  BY CallsTyped DEF PinPcs
<1>2. /\ after \in CallType /\ after.pc = "plain" /\ after.pod = Pod(p)
      /\ after.pinned = call[p].pinned
  BY <1>1 DEF CallType, Pod
<1>3. call' = [call EXCEPT ![p] = after] /\ UNCHANGED <<Store, ops>>
  BY DEF ProbeFails, Goes
<1>4. noTls' \in [Procs -> SUBSET Pods]
  BY <1>1 DEF ProbeFails, PinInv, PinTypeOK, CallType, Pod
<1>5. call[p].pinned = FALSE /\ ~At(p, {"changed", "repin", "saveRepin"})
  <2>1. At(p, {"probe"}) /\ call[p].pinned \in BOOLEAN
    BY <1>1 DEF ProbeFails, CallType
  <2>2. ~call[p].pinned
    BY <2>1 DEF PinInv, CallKnows
  <2>3. ~At(p, {"changed", "repin", "saveRepin"})
    BY <2>1 DEF At
  <2> QED BY <2>1, <2>2, <2>3
<1> HIDE DEF after
<1>6. after.pinned = FALSE
  BY <1>2, <1>5
<1> QED BY <1>2, <1>3, <1>4, <1>5, <1>6, GoesOnHolds

(* Handshake, PeerCertificate, and Repin on a network: the certificate is read. *)
LEMMA ShownHolds ==
    ASSUME PinInv, NEW p \in Procs, NEW pc \in {"check", "trust", "repin"}, Shown(p, pc),
           At(p, {"changed"}) => pc = "repin", ~At(p, {"repin", "saveRepin"}),
           UNCHANGED <<Store, noTls, ops>>
    PROVE  PinInv'
<1> DEFINE c == [call[p] EXCEPT !.pc = pc, !.seen = podCert[Pod(p)]]
<1> DEFINE after == [c EXCEPT !.outdated = FALSE]
<1>1. call[p] \in CallType /\ pc \in PinPcs /\ podCert[Pod(p)] \in Nat
  BY CallsTyped DEF PinPcs, PinInv, PinTypeOK, CallType, Pod
<1>2. /\ c \in CallType /\ c.pc = pc /\ c.pod = Pod(p) /\ c.seen = podCert[Pod(p)]
      /\ c.pinned = call[p].pinned
  BY <1>1 DEF CallType, Pod
<1>3. call' = [call EXCEPT ![p] = after]
  BY Zenon DEF Shown
<1> HIDE DEF c
<1>4. /\ after \in CallType /\ after.pc = pc /\ after.pod = Pod(p) /\ after.seen = podCert[Pod(p)]
      /\ after.pinned = c.pinned
  BY <1>2 DEF CallType
<1> HIDE DEF after
<1>5. /\ after.pinned => call[p].pinned
      /\ after.pc \notin {"probe", "plain"}
      /\ At(p, {"changed", "repin", "saveRepin"}) => after.pc \in {"changed", "repin", "saveRepin"}
  BY <1>2, <1>4 DEF At
<1>6. noTls' \in [Procs -> SUBSET Pods]
  BY DEF PinInv, PinTypeOK
<1> QED BY <1>3, <1>4, <1>5, <1>6, GoesOnHolds

(* CheckPin and LoadPins: the file is read into the copy. *)
LEMMA PinReadingHolds ==
    ASSUME PinInv, NEW p \in Procs, CheckPin(p) \/ LoadPins(p)
    PROVE  PinInv'
<1>1. UNCHANGED <<Store, noTls, ops>> /\ At(p, {"check", "trust", "repin", "forget"})
  BY DEF CheckPin, LoadPins, Loaded, At
<1>2. call[p] \in CallType /\ file \in [Pods -> Nat]
  BY CallsTyped DEF PinInv, PinTypeOK
<1>3. noTls' \in [Procs -> SUBSET Pods] /\ owed' \in SUBSET Pods /\ owed \subseteq owed'
  BY <1>1 DEF Store, PinInv, PinTypeOK
<1>4. CASE Ends(p) /\ ~At(p, {"repin"})
  BY <1>1, <1>3, <1>4, EndHolds DEF Store, At
<1>5. ASSUME NEW pc \in {"tls", "saveFirst", "saveTrust", "saveRepin", "saveForget"},
             NEW copy \in [Pods -> Nat],
             call' = [call EXCEPT ![p] = [call[p] EXCEPT !.pc = pc, !.copy = copy]],
             At(p, {"repin"}) => pc = "saveRepin", At(p, {"forget"}) => pc = "saveForget"
      PROVE  PinInv'
  <2> DEFINE after == [call[p] EXCEPT !.pc = pc, !.copy = copy]
  <2>1. pc \in PinPcs
    BY DEF PinPcs
  <2>2. /\ after \in CallType /\ after.pc = pc /\ after.pod = Pod(p) /\ after.seen = call[p].seen
        /\ after.pinned = call[p].pinned /\ after.outdated = call[p].outdated
    BY <1>2, <2>1 DEF CallType, Pod
  <2>3. call' = [call EXCEPT ![p] = after]
    BY <1>5
  <2> HIDE DEF after
  <2>4. after.pinned => call[p].pinned
    BY <2>2, Zenon
  <2>5. after.pc \in {"check", "trust", "repin", "saveFirst", "saveTrust", "saveRepin"}
           => after.seen = podCert[Pod(p)] \/ after.outdated
    <3>1. ~At(p, {"forget"}) => call[p].seen = podCert[Pod(p)] \/ call[p].outdated
      BY <1>1 DEF PinInv, CallKnows, At
    <3>2. At(p, {"forget"}) => after.pc = "saveForget"
      BY <1>5, <2>2
    <3> QED BY <2>2, <3>1, <3>2
  <2>6. /\ after.pc \notin {"probe", "plain"}
        /\ At(p, {"changed", "repin", "saveRepin"}) => after.pc \in {"changed", "repin", "saveRepin"}
    BY <1>1, <1>5, <2>2 DEF At
  <2> QED BY <1>1, <1>3, <2>2, <2>3, <2>4, <2>5, <2>6, GoesOnHolds
<1>6. CASE CheckPin(p)
  <2>1. At(p, {"check"})
    BY <1>6 DEF CheckPin
  <2>2. CASE file[Pod(p)] = 0
    <3>1. call' = [call EXCEPT ![p] = [call[p] EXCEPT !.pc = "saveFirst", !.copy = file]]
      BY <1>6, <2>2 DEF CheckPin
    <3> QED BY <1>2, <1>5, <2>1, <3>1 DEF At
  <2>3. CASE file[Pod(p)] # 0 /\ file[Pod(p)] = call[p].seen
    <3>1. call' = [call EXCEPT ![p] = [call[p] EXCEPT !.pc = "tls"]]
      BY <1>6, <2>3 DEF CheckPin, Goes
    <3>2. call[p].copy \in [Pods -> Nat]
      BY <1>2 DEF CallType
    <3>3. [call[p] EXCEPT !.pc = "tls"] = [call[p] EXCEPT !.pc = "tls", !.copy = call[p].copy]
      BY <1>2 DEF CallType
    <3> QED BY <1>5, <2>1, <3>1, <3>2, <3>3 DEF At
  <2>4. CASE file[Pod(p)] # 0 /\ file[Pod(p)] # call[p].seen
    <3>1. Ends(p)
      BY <1>6, <2>4 DEF CheckPin
    <3> QED BY <1>4, <2>1, <3>1 DEF At
  <2> QED BY <2>2, <2>3, <2>4
<1>7. CASE LoadPins(p)
  <2>1. CASE At(p, {"forget"}) /\ file[Pod(p)] = 0
    BY <1>4, <1>7, <2>1 DEF LoadPins, At
  <2>2. CASE ~(At(p, {"forget"}) /\ file[Pod(p)] = 0)
    <3>1. /\ At(p, {"trust", "repin", "forget"})
          /\ call' = [call EXCEPT ![p] = [call[p] EXCEPT !.pc = Loaded[call[p].pc], !.copy = file]]
      BY <1>7, <2>2 DEF LoadPins, Loaded, At
    <3>2. Loaded[call[p].pc] = IF At(p, {"trust"}) THEN "saveTrust"
                               ELSE IF At(p, {"repin"}) THEN "saveRepin" ELSE "saveForget"
      BY <3>1 DEF Loaded, At
    <3>3. /\ Loaded[call[p].pc] \in {"tls", "saveFirst", "saveTrust", "saveRepin", "saveForget"}
          /\ At(p, {"repin"}) => Loaded[call[p].pc] = "saveRepin"
          /\ At(p, {"forget"}) => Loaded[call[p].pc] = "saveForget"
      BY <3>1, <3>2 DEF At
    <3> QED BY <1>2, <1>5, <3>1, <3>3
  <2> QED BY <2>1, <2>2
<1> QED BY <1>6, <1>7

(* The steps that end a call, the end of its process among them: a change that     *)
(* is not written down is owed.                                                   *)
LEMMA EndingHolds ==
    ASSUME PinInv, NEW p \in Procs,
           CallFails(p) \/ HangUp(p) \/ SaveFails(p) \/ ChangeUnanswered(p) \/ ProcEnds(p)
             \/ (Repin(p) /\ call[p].plan.usb)
    PROVE  PinInv'
<1>1. call[p] \in CallType /\ noTls \in [Procs -> SUBSET Pods] /\ owed \in SUBSET Pods
  BY CallsTyped DEF PinInv, PinTypeOK
<1>2. Pod(p) \in Pods
  BY <1>1 DEF CallType, Pod
<1>3. Ends(p) /\ UNCHANGED <<podCert, file, overwritten, ops>>
  BY DEF CallFails, HangUp, SaveFails, ChangeUnanswered, ProcEnds, Repin, Store
<1>4. noTls' \in [Procs -> SUBSET Pods]
  BY <1>1 DEF CallFails, HangUp, SaveFails, ChangeUnanswered, ProcEnds, Repin
<1>5. /\ owed' \in {owed, owed \cup {Pod(p)}}
      /\ At(p, {"changed", "repin", "saveRepin"}) => owed' = owed \cup {Pod(p)}
  BY DEF CallFails, HangUp, SaveFails, ChangeUnanswered, ProcEnds, Repin, Store, Saving, At
<1>6. owed' \in SUBSET Pods /\ owed \subseteq owed'
  BY <1>1, <1>2, <1>5
<1> QED BY <1>3, <1>4, <1>5, <1>6, EndHolds

(* Save, which only its own pod and the ones it takes back can disturb. *)
LEMMA PinSaveHolds ==
    ASSUME PinInv, NEW p \in Procs, Save(p)
    PROVE  PinInv'
<1> DEFINE after == IF At(p, {"saveFirst"}) THEN [call[p] EXCEPT !.pc = "tls"] ELSE NoCall
           from(q) == IF q = p THEN after ELSE call[q]
<1>1. /\ call \in [Procs -> CallType] /\ file \in [Pods -> Nat] /\ podCert \in [Pods -> Nat]
      /\ At(p, Saving) /\ file' = Written(p)
      /\ overwritten' = (overwritten \ {Pod(p)}) \cup Undone(p) \cup Late(p)
      /\ owed' = owed \ {Pod(p)}
      /\ UNCHANGED <<podCert, noTls, ops>>
  BY CallsTyped DEF PinInv, PinTypeOK, Save
<1>2. call' = [q \in Procs |-> [from(q) EXCEPT !.pinned = @ /\ file'[Pod(q)] # 0]]
  BY Zenon DEF Save
<1>3. /\ after \in CallType /\ after.pc \in {"tls", "idle"}
      /\ after.pc = "tls" => after.pod = Pod(p)
  BY <1>1, NoCallIs DEF CallType, PinPcs, Pod
<1> HIDE DEF after
<1>4. \A q \in Procs : from(q) \in CallType
  BY <1>1, <1>3
<1>5. Pod(p) \in Pods /\ call[p].copy \in [Pods -> Nat] /\ call[p].seen \in Nat
  BY <1>1 DEF CallType, Pod
<1>6. file' \in [Pods -> Nat]
  BY <1>1, <1>5 DEF Written
<1> DEFINE now(q) == file'[Pod(q)] # 0
<1>7. ASSUME NEW q \in Procs
      PROVE  /\ call'[q] = [from(q) EXCEPT !.pinned = @ /\ now(q)]
             /\ call'[q] \in CallType
             /\ call'[q].pc = from(q).pc /\ call'[q].pod = from(q).pod /\ call'[q].seen = from(q).seen
             /\ call'[q].plan = from(q).plan /\ call'[q].outdated = from(q).outdated
             /\ call'[q].pinned = (from(q).pinned /\ now(q))
  <2> DEFINE c == from(q)
             d == [c EXCEPT !.pinned = @ /\ now(q)]
  <2>1. call'[q] = d
    BY <1>2, Zenon
  <2>2. c \in CallType
    BY <1>4
  <2>3. (c.pinned /\ now(q)) \in BOOLEAN
    OBVIOUS
  <2> HIDE DEF c, now
  <2>4. d \in CallType
    BY <2>2, <2>3, Zenon DEF CallType
  <2>5. /\ d.pc = c.pc /\ d.pod = c.pod /\ d.seen = c.seen
        /\ d.plan = c.plan /\ d.outdated = c.outdated
    BY <2>2 DEF CallType
  <2>6. d.pinned = (c.pinned /\ now(q))
    BY <2>2, Zenon DEF CallType
  <2> HIDE DEF d
  <2> USE DEF c
  <2> QED BY <2>1, <2>4, <2>5, <2>6, Zenon DEF d
<1>8. call' \in [Procs -> CallType]
  BY <1>2, <1>7
<1>9. PinTypeOK'
  <2>1. noTls' \in [Procs -> SUBSET Pods] /\ podCert' \in [Pods -> Nat] /\ ops' \in Nat
    BY <1>1 DEF PinInv, PinTypeOK
  <2>2. owed' \in SUBSET Pods /\ overwritten' \in SUBSET Pods
    BY <1>1, <1>5 DEF PinInv, PinTypeOK, Undone, Late
  <2> QED BY <1>6, <1>8, <2>1, <2>2, Zenon DEF PinTypeOK, CallType, PlanType
<1>10. ASSUME NEW q \in Procs PROVE Knows(q)'
  <2>1. /\ call'[q].pinned => from(q).pinned /\ now(q)
        /\ Pod(q)' = from(q).pod
    BY <1>7 DEF Pod
  <2>2. CASE q = p
    <3>1. call'[q].pc \in {"tls", "idle"} /\ (call'[q].pc = "tls" => Pod(q)' = Pod(q))
      BY <1>3, <1>7, <2>1, <2>2
    <3>2. call'[q].pc = "idle" => call'[q].pinned = FALSE
      <4>1. from(q) = after
        BY <2>2
      <4>2. after.pc = "idle" => after = NoCall
        BY <1>1 DEF after, CallType
      <4> SUFFICES ASSUME call'[q].pc = "idle" PROVE call'[q].pinned = FALSE
        OBVIOUS
      <4>3. after.pc = "idle"
        BY <1>7, <4>1, Zenon
      <4>4. from(q).pinned = FALSE
        BY <4>1, <4>2, <4>3, NoCallIs, Zenon
      <4> QED BY <1>7, <4>4, Zenon
    <3>3. call'[q].pinned => (file[Pod(q)] # 0)'
      BY <2>1, <3>1, <3>2
    <3> QED BY <3>1, <3>3 DEF Knows, CallKnows, At, Saving
  <2>3. CASE q # p
    <3>1. from(q) = call[q] /\ Knows(q)
      BY <2>3, InvIs
    <3>2. call'[q].pinned => call[q].pinned /\ (file[Pod(q)] # 0)'
      BY <2>1, <3>1 DEF Pod
    <3>3. /\ call'[q].pc = call[q].pc /\ Pod(q)' = Pod(q) /\ call'[q].seen = call[q].seen
          /\ call'[q].plan = call[q].plan /\ call'[q].outdated = call[q].outdated
          /\ podCert' = podCert
      BY <1>1, <1>7, <3>1 DEF Pod
    <3> QED BY <3>1, <3>2, <3>3 DEF Knows, CallKnows, At
  <2> QED BY <2>2, <2>3
<1>11. PinFollows'
  <2> SUFFICES ASSUME NEW pod \in Pods, pod \notin owed' \cup overwritten',
                      ~(file'[pod] \in {0, podCert'[pod]})
               PROVE  UnderChange(pod)'
    BY DEF PinFollows
  <2>1. pod # Pod(p)
    <3> SUFFICES ASSUME pod = Pod(p) PROVE FALSE
      OBVIOUS
    <3>1. file'[pod] = IF At(p, {"saveForget"}) THEN 0 ELSE call[p].seen
      BY <1>1, <1>5 DEF Written
    <3>2. ~At(p, {"saveForget"}) /\ call[p].seen # podCert[pod]
      BY <1>1, <3>1
    <3>3. call[p].outdated
      BY <1>1, <3>2 DEF PinInv, CallKnows, Saving, At
    <3> QED BY <1>1, <3>3 DEF Late
  <2>2. file'[pod] = file[pod]
    BY <1>1, <2>1 DEF Undone
  <2>3. pod \notin owed \cup overwritten /\ ~(file[pod] \in {0, podCert[pod]})
    BY <1>1, <2>1, <2>2
  <2>4. PICK q \in Procs : Pod(q) = pod /\ At(q, {"changed", "repin", "saveRepin"})
    BY <2>3 DEF PinInv, PinFollows, UnderChange
  <2>5. q # p /\ from(q) = call[q]
    BY <2>1, <2>4
  <2>6. Pod(q)' = pod /\ At(q, {"changed", "repin", "saveRepin"})'
    BY <1>7, <2>4, <2>5 DEF Pod, At
  <2> QED BY <2>6 DEF UnderChange
<1> QED BY <1>9, <1>10, <1>11 DEF PinInv, NeverDowngraded, Knows

(* A pod has a new certificate: everybody who was shown the old one is late.      *)
LEMMA NewCertHolds ==
    ASSUME PinInv, NEW pod \in Pods, NEW calls \in [Procs -> CallType], NewCert(pod, calls),
           \A q \in Procs :
              /\ calls[q].pod = call[q].pod /\ calls[q].seen = call[q].seen
              /\ calls[q].plan = call[q].plan
              /\ calls[q].pinned = call[q].pinned /\ calls[q].outdated = call[q].outdated
              /\ calls[q].pc \in {call[q].pc, "changed"}
              /\ At(q, {"changed", "repin", "saveRepin"}) => calls[q].pc = call[q].pc,
           UNCHANGED <<file, overwritten, noTls, ops>>,
           owed' \in {owed, owed \cup {pod}},
           pod \in owed' \/ \E q \in Procs : Pod(q) = pod /\ calls[q].pc = "changed"
    PROVE  PinInv'
<1>1. /\ podCert \in [Pods -> Nat] /\ podCert' = [podCert EXCEPT ![pod] = @ + 1]
      /\ call' = [q \in Procs |-> [calls[q] EXCEPT !.outdated = @ \/ (calls[q].pc # "idle"
                                                                    /\ Pod(q) = pod)]]
  BY Zenon DEF NewCert, PinInv, PinTypeOK
<1> DEFINE late(q) == calls[q].pc # "idle" /\ Pod(q) = pod
<1>2. ASSUME NEW q \in Procs
      PROVE  /\ call'[q] \in CallType
             /\ call'[q].pc = calls[q].pc /\ call'[q].pod = call[q].pod /\ call'[q].seen = call[q].seen
             /\ call'[q].plan = call[q].plan /\ call'[q].pinned = call[q].pinned
             /\ call'[q].outdated = (call[q].outdated \/ late(q))
  <2> DEFINE c == calls[q]
             d == [c EXCEPT !.outdated = @ \/ late(q)]
  <2>1. call'[q] = d
    BY <1>1, Zenon
  <2>2. c \in CallType
    OBVIOUS
  <2>3. (c.outdated \/ late(q)) \in BOOLEAN
    OBVIOUS
  <2>4. c.pod = call[q].pod /\ c.seen = call[q].seen /\ c.plan = call[q].plan /\ c.pc = calls[q].pc
    OBVIOUS
  <2>5. c.pinned = call[q].pinned /\ c.outdated = call[q].outdated
    BY Zenon
  <2> HIDE DEF c, late
  <2>6. d \in CallType
    BY <2>2, <2>3, Zenon DEF CallType
  <2>7. d.pc = c.pc /\ d.pod = c.pod /\ d.seen = c.seen /\ d.plan = c.plan /\ d.pinned = c.pinned
    BY <2>2 DEF CallType
  <2>8. d.outdated = (c.outdated \/ late(q))
    BY <2>2, Zenon DEF CallType
  <2> HIDE DEF d
  <2>9. d.pinned = call[q].pinned /\ d.outdated = (call[q].outdated \/ late(q))
    BY <2>5, <2>7, <2>8, Zenon
  <2>10. d.pc = calls[q].pc /\ d.pod = call[q].pod /\ d.seen = call[q].seen /\ d.plan = call[q].plan
    BY <2>4, <2>7, Zenon
  <2> QED BY <2>1, <2>6, <2>9, <2>10, Zenon
<1>3. PinTypeOK'
  <2>1. call' \in [Procs -> CallType]
    BY <1>1, <1>2
  <2>2. /\ podCert' \in [Pods -> Nat] /\ file' \in [Pods -> Nat] /\ noTls' \in [Procs -> SUBSET Pods]
        /\ owed' \in SUBSET Pods /\ overwritten' \in SUBSET Pods /\ ops' \in Nat
    BY <1>1 DEF PinInv, PinTypeOK
  <2> QED BY <2>1, <2>2, Zenon DEF PinTypeOK, CallType, PlanType
<1>4. ASSUME NEW q \in Procs PROVE Knows(q)'
  <2>1. Knows(q) /\ Pod(q)' = Pod(q) /\ file' = file
    BY <1>2, InvIs DEF Pod
  <2>2. /\ call'[q].pc \in {call[q].pc, "changed"} /\ call'[q].seen = call[q].seen
        /\ call'[q].plan = call[q].plan
    BY <1>2
  <2>3. (call'[q].pinned => call[q].pinned) /\ (call[q].outdated => call'[q].outdated)
    BY <1>2, Zenon
  <2>4. call'[q].pc # "idle" => podCert'[Pod(q)] = podCert[Pod(q)] \/ call'[q].outdated
    <3>1. CASE Pod(q) = pod
      BY <1>2, <3>1
    <3>2. CASE Pod(q) # pod
      BY <1>1, <3>2 DEF Pod, CallType, PinInv, PinTypeOK
    <3> QED BY <3>1, <3>2
  <2>5. (call[q].pinned => file[Pod(q)] # 0) /\ (At(q, {"probe", "plain"}) /\ (At(q, {"plain"}) => call[q].plan.fallback) => ~call[q].pinned)
    BY <2>1 DEF Knows, CallKnows, At
  <2>6. At(q, {"check", "trust", "repin", "saveFirst", "saveTrust", "saveRepin"})
           => call[q].seen = podCert[Pod(q)] \/ call[q].outdated
    BY <2>1 DEF Knows, CallKnows, At, Saving
  <2> QED BY <2>1, <2>2, <2>3, <2>4, <2>5, <2>6 DEF Knows, CallKnows, At, Saving
<1>5. PinFollows'
  <2> SUFFICES ASSUME NEW other \in Pods, other \notin owed' \cup overwritten',
                      ~(file'[other] \in {0, podCert'[other]})
               PROVE  UnderChange(other)'
    BY DEF PinFollows
  <2>1. CASE other = pod
    <3>1. PICK q \in Procs : Pod(q) = pod /\ calls[q].pc = "changed"
      BY <2>1
    <3>2. Pod(q)' = pod /\ At(q, {"changed", "repin", "saveRepin"})'
      BY <1>2, <3>1 DEF Pod, At
    <3> QED BY <2>1, <3>2 DEF UnderChange
  <2>2. CASE other # pod
    <3>1. podCert'[other] = podCert[other] /\ file' = file /\ other \notin owed \cup overwritten
      BY <1>1, <2>2
    <3>2. PICK q \in Procs : Pod(q) = other /\ At(q, {"changed", "repin", "saveRepin"})
      BY <3>1 DEF PinInv, PinFollows, UnderChange
    <3>3. Pod(q)' = other /\ At(q, {"changed", "repin", "saveRepin"})'
      BY <1>2, <3>2 DEF Pod, At
    <3> QED BY <3>3 DEF UnderChange
  <2> QED BY <2>1, <2>2
<1> QED BY <1>3, <1>4, <1>5 DEF PinInv, NeverDowngraded, Knows

(* ChangeCert reaches the pod: until its reply is read the pin may differ. *)
LEMMA ChangeCertHolds ==
    ASSUME PinInv, NEW p \in Procs, ChangeCert(p)
    PROVE  PinInv'
<1> DEFINE calls == [call EXCEPT ![p].pc = "changed"]
<1>1. call \in [Procs -> CallType] /\ "changed" \in PinPcs /\ Pod(p) \in Pods
  BY CallsTyped DEF PinPcs, CallType, Pod
<1>2. ASSUME NEW q \in Procs
      PROVE  /\ calls[q].pod = call[q].pod /\ calls[q].seen = call[q].seen
             /\ calls[q].plan = call[q].plan
             /\ calls[q].pinned = call[q].pinned /\ calls[q].outdated = call[q].outdated
             /\ calls[q].pc = IF q = p THEN "changed" ELSE call[q].pc
  BY <1>1 DEF CallType
<1>3. calls \in [Procs -> CallType]
  BY <1>1 DEF CallType
<1>4. /\ NewCert(Pod(p), calls) /\ UNCHANGED <<file, owed, overwritten, noTls, ops>>
      /\ At(p, {"tls", "plain"})
  BY DEF ChangeCert
<1> HIDE DEF calls
<1>5. \A q \in Procs : At(q, {"changed", "repin", "saveRepin"}) => calls[q].pc = call[q].pc
  BY <1>2, <1>4 DEF At
<1>6. \E q \in Procs : Pod(q) = Pod(p) /\ calls[q].pc = "changed"
  BY <1>2
<1>7. \A q \in Procs : calls[q].pc \in {call[q].pc, "changed"}
  BY <1>2
<1>8. \A q \in Procs : /\ calls[q].pod = call[q].pod /\ calls[q].seen = call[q].seen
                       /\ calls[q].plan = call[q].plan
                       /\ calls[q].pinned = call[q].pinned /\ calls[q].outdated = call[q].outdated
  BY <1>2, Zenon
<1> QED BY <1>1, <1>3, <1>4, <1>5, <1>6, <1>7, <1>8, NewCertHolds

LEMMA ChangedElsewhereHolds ==
    ASSUME PinInv, NEW pod \in Pods, ChangedElsewhere(pod)
    PROVE  PinInv'
  BY CallsTyped, NewCertHolds DEF ChangedElsewhere

LEMMA NextHolds == PinInv /\ [PinNext]_pinVars => PinInv'
<1> SUFFICES ASSUME PinInv, [PinNext]_pinVars PROVE PinInv'
  OBVIOUS
<1>1. ASSUME NEW p \in Procs, Dialling(p) PROVE PinInv'
  <2>1. CASE \E pod \in Pods, plan \in Plans : Dial(p, pod, plan)
    BY <2>1, BeginningHolds
  <2>2. CASE \E readable \in BOOLEAN : AskKnown(p, readable) \/ Ask(p, readable)
    BY <2>2, AskingHolds
  <2>3. CASE \E remember \in BOOLEAN : ProbeFails(p, remember)
    BY <2>3, ProbeFailsHolds
  <2>4. CASE Handshake(p)
    BY <2>4, ShownHolds DEF Handshake, At
  <2>5. CASE CheckPin(p)
    BY <2>5, PinReadingHolds
  <2>6. CASE CallFails(p) \/ HangUp(p)
    BY <2>6, EndingHolds
  <2> QED BY <1>1, <2>1, <2>2, <2>3, <2>4, <2>5, <2>6 DEF Dialling
<1>2. ASSUME NEW p \in Procs, Pinning(p) PROVE PinInv'
  <2>1. CASE \E pod \in Pods : Trust(p, pod) \/ Forget(p, pod)
    BY <2>1, BeginningHolds
  <2>2. CASE PeerCertificate(p)
    BY <2>2, ShownHolds DEF PeerCertificate, At
  <2>3. CASE LoadPins(p)
    BY <2>3, PinReadingHolds
  <2>4. CASE Save(p)
    BY <2>4, PinSaveHolds
  <2>5. CASE SaveFails(p)
    BY <2>5, EndingHolds
  <2> QED BY <1>2, <2>1, <2>2, <2>3, <2>4, <2>5 DEF Pinning
<1>3. ASSUME NEW p \in Procs, Changing(p) PROVE PinInv'
  <2>1. CASE ChangeCert(p)
    BY <2>1, ChangeCertHolds
  <2>2. CASE Repin(p) /\ call[p].plan.usb
    BY <2>2, EndingHolds
  <2>3. CASE Repin(p) /\ ~call[p].plan.usb
    BY <2>3, ShownHolds DEF Repin, At, Store
  <2>4. CASE ChangeUnanswered(p)
    BY <2>4, EndingHolds
  <2> QED BY <1>3, <2>1, <2>2, <2>3, <2>4 DEF Changing
<1>4. ASSUME NEW p \in Procs, ProcEnds(p) PROVE PinInv'
  BY <1>4, EndingHolds
<1>5. ASSUME NEW pod \in Pods, ChangedElsewhere(pod) PROVE PinInv'
  BY <1>5, ChangedElsewhereHolds
<1>6. CASE UNCHANGED pinVars
  BY <1>6 DEF pinVars, PinInv, PinTypeOK, NeverDowngraded, PinFollows, UnderChange, CallKnows, At, Pod
<1> QED BY <1>1, <1>2, <1>3, <1>4, <1>5, <1>6 DEF PinNext

-----------------------------------------------------------------------------
(* However processes, pods, certificate changes and crashes interleave: a dial     *)
(* with a readable pin never ends in plaintext, and a pin that differs from its    *)
(* pod's certificate is one that a change is about to write, that a change or its  *)
(* end left behind, or that another process's write took back (tls.py, client.py). *)
THEOREM PinsFollow == PinSpec => []PinInv
<1>1. PinInit => PinInv
  BY PinStarts
<1>2. PinInv /\ [PinNext]_pinVars => PinInv'
  BY NextHolds
<1> QED BY <1>1, <1>2, PTL DEF PinSpec

-----------------------------------------------------------------------------
(* The pytest fixtures (pytest_plugin.py): any number of sessions and tests. *)

(* What may be changed on the bench, without an excuse, at each place of a      *)
(* session: the remembered limits, pins while tests run, and what the fixtures  *)
(* of the test under way will undo.                                             *)
MayBeLeft(thing) ==
    \/ thing = "limits" /\ saved
    \/ thing = "pin" /\ fixPc \in {"tests", "powerOn", "test", "teardown", "endRelease"}
    \/ fixPc \in {"test", "teardown"} /\ \E f \in inUse : Undoes[f] = thing

Accounted == \A thing \in left : thing \in excused \/ MayBeLeft(thing)
Between ==
    /\ fixPc \in {"idle", "limits", "lift"} => ~saved
    /\ fixPc \in {"powerOn", "test", "teardown"} => tests # 0
    /\ fixPc = "tests" /\ tests = 0 /\ released => "pin" \notin left

FixturesKept == Accounted /\ Between

FixtureFlags == saved \in BOOLEAN /\ released \in BOOLEAN
FixtureData ==
    /\ left \in SUBSET Things /\ excused \in SUBSET Things /\ inUse \in SUBSET Fixtures
    /\ sessions \in 0 .. MaxSessions /\ tests \in 0 .. MaxTests
    /\ fixPc \in {"idle", "limits", "lift", "connect", "release", "tests", "powerOn", "test",
                  "teardown", "endRelease", "close", "restore"}

LEMMA FlagsOfFixtures == FixtureFlags /\ [FixturesNext]_fixVars => FixtureFlags'
BY Zenon DEF FixtureFlags, FixturesNext, fixVars, StartSession, ReadLimits, LiftLimits, ReleaseGpio, PowerOn,
   RestoreLimits, TearDownFixture, ConnectPod, SetUpTest, TestDoes, TestIsOver, TestTornDown, EndSession,
   ClosePod, SessionKilled, Runs

(* Each fixture undoes a thing of its own, and none of them pins or limits.     *)
LEMMA EachUndoesItsOwn ==
    /\ Undoes["target"] = "rail"
    /\ \A f \in Fixtures : Undoes[f] \in {"rail", "sensor", "dac", "waveform"}
    /\ \A f, g \in Fixtures : Undoes[f] = Undoes[g] => f = g
BY DEF Undoes, Fixtures

LEMMA FixturesStep ==
    FixtureData /\ FixturesKept /\ [FixturesNext]_fixVars => FixtureData' /\ FixturesKept'
<1> SUFFICES ASSUME FixtureData, FixturesKept, [FixturesNext]_fixVars PROVE FixtureData' /\ FixturesKept'
  OBVIOUS
<1> USE FixtureAssumption, EachUndoesItsOwn DEF FixtureData, FixturesKept, Accounted, Between, MayBeLeft, To, Excuse, Runs,
        Things, Replies
<1>1. ASSUME NEW lift \in BOOLEAN, StartSession(lift) PROVE FixtureData' /\ FixturesKept'
  BY <1>1 DEF StartSession
<1>2. ASSUME NEW r \in Replies, ReadLimits(r) PROVE FixtureData' /\ FixturesKept'
  BY <1>2 DEF ReadLimits
<1>3. ASSUME NEW r \in Replies, LiftLimits(r) PROVE FixtureData' /\ FixturesKept'
  <2>1. CASE r = "ok"
    <3>1. saved' = TRUE
      BY <1>3, <2>1, Zenon DEF LiftLimits
    <3> QED BY <1>3, <2>1, <3>1 DEF LiftLimits
  <2>2. CASE r # "ok"
    <3>1. saved' = FALSE
      BY <1>3, <2>2, Zenon DEF LiftLimits
    <3>2. "limits" \in left' => "limits" \in excused'
      BY <1>3, <2>2 DEF LiftLimits
    <3> QED BY <1>3, <2>2, <3>1, <3>2 DEF LiftLimits
  <2> QED BY <2>1, <2>2
<1>4. ASSUME NEW r \in Replies, ReleaseGpio(r) PROVE FixtureData' /\ FixturesKept'
  BY <1>4 DEF ReleaseGpio
<1>5. ASSUME NEW r \in Replies, PowerOn(r) PROVE FixtureData' /\ FixturesKept'
  <2>1. CASE r = "ok"
    BY <1>5, <2>1 DEF PowerOn, Fixtures
  <2>2. CASE r # "ok"
    BY <1>5, <2>2 DEF PowerOn
  <2> QED BY <2>1, <2>2
<1>6. ASSUME NEW r \in Replies, RestoreLimits(r) PROVE FixtureData' /\ FixturesKept'
  BY <1>6 DEF RestoreLimits
<1>7. ASSUME NEW r \in Replies, NEW f \in Fixtures, TearDownFixture(f, r)
      PROVE FixtureData' /\ FixturesKept'
  <2>1. FixtureData'
    BY <1>7 DEF TearDownFixture
  <2>2. Between'
    BY <1>7 DEF TearDownFixture
  <2>3. ASSUME NEW thing \in left' PROVE thing \in excused' \/ MayBeLeft(thing)'
    BY <1>7, <2>3 DEF TearDownFixture
  <2> QED BY <2>1, <2>2, <2>3
<1>8. ASSUME NEW works \in BOOLEAN, ConnectPod(works) PROVE FixtureData' /\ FixturesKept'
  BY <1>8 DEF ConnectPod
<1>9. ASSUME NEW wanted \in SUBSET Fixtures, NEW runs \in BOOLEAN, SetUpTest(wanted, runs)
      PROVE FixtureData' /\ FixturesKept'
  <2>1. CASE runs
    BY <1>9, <2>1 DEF SetUpTest
  <2>2. CASE ~runs
    BY <1>9, <2>2 DEF SetUpTest
  <2> QED BY <2>1, <2>2
<1>10. ASSUME NEW r \in Replies, NEW thing \in Things, TestDoes(thing, r) PROVE FixtureData' /\ FixturesKept'
  <2>1. CASE thing = "waveform" /\ r = "lost"
    BY <1>10, <2>1 DEF TestDoes
  <2>2. CASE ~(thing = "waveform" /\ r = "lost")
    <3>1. /\ left' = left \cup {thing} /\ excused' = excused /\ fixPc = "test"
          /\ thing = "pin" \/ \E f \in inUse : Undoes[f] = thing
          /\ UNCHANGED <<saved, released, inUse, sessions, tests, fixPc>>
      BY <1>10, <2>2, Zenon DEF TestDoes
    <3>2. FixtureData' /\ Between'
      BY <3>1
    <3>3. MayBeLeft(thing)'
      BY <3>1
    <3>4. ASSUME NEW other \in left PROVE other \in excused' \/ MayBeLeft(other)'
      BY <3>1, <3>4
    <3> QED BY <3>1, <3>2, <3>3, <3>4
  <2> QED BY <2>1, <2>2
<1>11. CASE TestIsOver \/ TestTornDown \/ EndSession \/ ClosePod
  <2>1. CASE TestIsOver   BY <2>1 DEF TestIsOver
  <2>2. CASE TestTornDown BY <2>2 DEF TestTornDown
  <2>3. CASE EndSession   BY <2>3 DEF EndSession
  <2>4. CASE ClosePod     BY <2>4 DEF ClosePod
  <2> QED BY <1>11, <2>1, <2>2, <2>3, <2>4
<1>12. CASE SessionKilled
  BY <1>12 DEF SessionKilled
<1>13. CASE UNCHANGED fixVars
  BY <1>13 DEF fixVars
<1> QED BY <1>1, <1>2, <1>3, <1>4, <1>5, <1>6, <1>7, <1>8, <1>9, <1>10, <1>11, <1>12, <1>13 DEF FixturesNext

(* No test and no session leaves power, an output, a sensor or a lifted limit   *)
(* behind, whatever fails and wherever the process is killed, but what the      *)
(* command that failed or lost its answer, or the kill itself explains; among   *)
(* that is a waveform whose save lost its answer (pytest_plugin.py, the fixtures *)
(* and _benchpod_lift_dac_limits).                                              *)
THEOREM FixturesTidyUp == FixturesSpec => []FixturesInv
<1>1. FixturesInit => FixtureFlags
  BY Zenon DEF FixturesInit, FixtureFlags
<1>2. FixturesInit => FixtureData /\ FixturesKept
  BY FixtureAssumption DEF FixturesInit, FixtureData, FixturesKept, Accounted, Between
<1>3. FixtureFlags /\ FixtureData /\ FixturesKept => FixturesInv
  <2> SUFFICES ASSUME FixtureFlags, FixtureData, FixturesKept PROVE FixturesInv
    OBVIOUS
  <2>1. FixturesTypeOK
    BY Zenon DEF FixtureFlags, FixtureData, FixturesTypeOK
  <2>2. TestLeavesNothing /\ SessionLeavesNothing /\ LimitsRemembered
    BY EachUndoesItsOwn DEF FixturesKept, Accounted, Between, MayBeLeft, FixtureData,
       TestLeavesNothing, SessionLeavesNothing, LimitsRemembered
  <2> QED BY <2>1, <2>2 DEF FixturesInv
<1> QED BY <1>1, <1>2, <1>3, FlagsOfFixtures, FixturesStep, PTL DEF FixturesSpec

-----------------------------------------------------------------------------
(* The wiring profiles: any profiles, any number of edits. *)

(* While the connection is the one the agent was told of, it goes by what the   *)
(* agent was told.                                                              *)
ToldIsWired == told # None /\ ~reopened /\ ~halfSet /\ podLink = "open" => wired = told

WiringKept == UsedAsTold /\ ServerMeansStored /\ ToldIsWired

LEMMA WiringResolves ==
    ASSUME WiringTypeOK, NEW reached \in BOOLEAN, Wiring(reached), ServerMeansStored
    PROVE  /\ wired' \in WiringsSeen /\ wiredFrom' \in {"none", "file", "defaults", "server", "dict"}
           /\ editedSince' \in BOOLEAN
           /\ wired # None => wired' = wired
           /\ wiredFrom' = "server" /\ ~editedSince' => wired' = stored
<1>1. CASE wired = None
  <2>1. ResolveProfile(reached) /\ editedSince' = FALSE
    BY <1>1, Zenon DEF Wiring
  <2>2. /\ wired' \in WiringsSeen /\ wiredFrom' \in {"none", "file", "defaults", "server", "dict"}
        /\ wiredFrom' = "server" => wired' = stored
    BY <2>1, Zenon DEF ResolveProfile, WiringTypeOK, WiringsSeen, AnyProfile
  <2> QED BY <1>1, <2>1, <2>2, Zenon
<1>2. CASE wired # None
  BY <1>2, Zenon DEF Wiring, WiringTypeOK, ServerMeansStored
<1> QED BY <1>1, <1>2

LEMMA WiringStep == WiringTypeOK /\ WiringKept /\ [WiringNext]_wiringVars => WiringTypeOK' /\ WiringKept'
<1> SUFFICES ASSUME WiringTypeOK, WiringKept, [WiringNext]_wiringVars PROVE WiringTypeOK' /\ WiringKept'
  OBVIOUS
<1> USE DEF WiringKept, UsedAsTold, ServerMeansStored, ToldIsWired, agentVars
<1>1. ASSUME NEW p \in AnyProfile, WebEdit(p) PROVE WiringTypeOK' /\ WiringKept'
  <2>1. WiringKept' 
    BY <1>1, Zenon DEF WebEdit
  <2>2. edits' \in 0 .. MaxEdits
    BY <1>1, WiringAssumption DEF WebEdit, WiringTypeOK
  <2>3. WiringTypeOK'
    BY <1>1, <2>2, Zenon DEF WebEdit, WiringTypeOK
  <2> QED BY <2>1, <2>3
<1>2. ASSUME NEW p \in AnyProfile, SetWiring(p) PROVE WiringTypeOK' /\ WiringKept'
  BY <1>2, Zenon DEF SetWiring, WiringTypeOK, WiringsSeen
<1>3. ASSUME NEW p \in AnyProfile, NEW served \in BOOLEAN, NEW heard \in BOOLEAN, SaveWiring(p, served, heard)
      PROVE WiringTypeOK' /\ WiringKept'
  BY <1>3, Zenon DEF SaveWiring, WiringTypeOK, WiringsSeen
<1>4. ASSUME NEW reached \in BOOLEAN, OmittedArgument(reached) PROVE WiringTypeOK' /\ WiringKept'
  BY <1>4, WiringResolves, Zenon DEF OmittedArgument, WiringTypeOK
<1>5. ASSUME NEW reached \in BOOLEAN, WiringTool(reached) PROVE WiringTypeOK' /\ WiringKept'
  BY <1>5, WiringResolves, Zenon DEF WiringTool, WiringTypeOK, WiringsSeen
<1>6. CASE ConnectSession \/ IdleRelease \/ DisconnectPod \/ RequirePod
  BY <1>6, Zenon DEF ConnectSession, IdleRelease, DisconnectPod, RequirePod, Fresh, WiringTypeOK, WiringsSeen,
     None
<1>7. CASE UNCHANGED wiringVars
  BY <1>7, Zenon DEF wiringVars, WiringTypeOK
<1> QED BY <1>1, <1>2, <1>3, <1>4, <1>5, <1>6, <1>7, Zenon DEF WiringNext

(* An argument an agent leaves out means what the agent was last told of the    *)
(* profile, and a profile that says it is the server's is the one stored there, *)
(* through reconnects, idle releases, edits by others and saves that failed or  *)
(* whose answer was lost (client.py, wiring and _resolve_wiring; session.py).   *)
THEOREM WiringIsAsTold == WiringSpec => []WiringInv
<1>1. WiringInit => WiringTypeOK /\ WiringKept
  <2> SUFFICES ASSUME WiringInit PROVE WiringTypeOK /\ WiringKept
    OBVIOUS
  <2>1. edits \in 0 .. MaxEdits
    BY WiringAssumption DEF WiringInit
  <2>2. WiringTypeOK
    BY <2>1, Zenon DEF WiringInit, WiringTypeOK, WiringsSeen, None
  <2>3. WiringKept
    BY Zenon DEF WiringInit, WiringKept, UsedAsTold, ServerMeansStored, ToldIsWired, None
  <2> QED BY <2>2, <2>3
<1>2. WiringTypeOK /\ WiringKept => WiringInv
  BY Zenon DEF WiringKept, WiringInv
<1> QED BY <1>1, <1>2, WiringStep, PTL DEF WiringSpec

-----------------------------------------------------------------------------
(* The pool of the OpenHTF plug (plug.py): any threads, settings and keys. *)

ConnRecord == [obj : Settings, live : BOOLEAN, shared : BOOLEAN]
PlugPcs == {"idle", "acquire", "locked", "own", "using", "usingOwn"}

(* Closing connections changes nothing else of any connection, ...              *)
LEMMA AfterCloseIs ==
    ASSUME conns \in Seq(ConnRecord), NEW cs
    PROVE  /\ AfterClose(cs) \in Seq(ConnRecord) /\ Len(AfterClose(cs)) = Len(conns)
           /\ \A c \in DOMAIN conns :
                 /\ AfterClose(cs)[c].obj = conns[c].obj /\ AfterClose(cs)[c].shared = conns[c].shared
                 /\ AfterClose(cs)[c].live <=> conns[c].live /\ c \notin cs
<1>1. conns \in [1 .. Len(conns) -> ConnRecord] /\ Len(conns) \in Nat /\ DOMAIN conns = 1 .. Len(conns)
  BY SeqDef, LenProperties
<1>2. ASSUME NEW c \in DOMAIN conns
      PROVE  /\ AfterClose(cs)[c] \in ConnRecord
             /\ AfterClose(cs)[c].obj = conns[c].obj /\ AfterClose(cs)[c].shared = conns[c].shared
             /\ AfterClose(cs)[c].live <=> conns[c].live /\ c \notin cs
  <2>1. conns[c] \in ConnRecord
    BY <1>1, Zenon
  <2>2. CASE c \notin cs
    <3>1. AfterClose(cs)[c] = conns[c]
      BY <2>2, Zenon DEF AfterClose
    <3> QED BY <2>1, <2>2, <3>1, Zenon
  <2>3. CASE c \in cs
    <3>1. AfterClose(cs)[c] = [conns[c] EXCEPT !.live = FALSE]
      BY <2>3, Zenon DEF AfterClose
    <3> QED BY <2>1, <2>3, <3>1, Zenon DEF ConnRecord
  <2> QED BY <2>2, <2>3
<1>3. AfterClose(cs) \in [1 .. Len(conns) -> ConnRecord]
  BY <1>1, <1>2, Zenon DEF AfterClose
<1>4. AfterClose(cs) \in Seq(ConnRecord) /\ Len(AfterClose(cs)) = Len(conns)
  BY <1>1, <1>3, SeqDef, LenProperties
<1> QED BY <1>2, <1>4

(* ... and a new one comes after those there are. *)
LEMMA NewConnIs ==
    ASSUME conns \in Seq(ConnRecord), NEW t \in Tests, test[t].obj \in Settings
    PROVE  /\ NewConn(t) \in Seq(ConnRecord) /\ Len(NewConn(t)) = Len(conns) + 1
           /\ \A c \in DOMAIN conns : NewConn(t)[c] = conns[c]
           /\ LET n == NewConn(t)[Len(conns) + 1] IN
                n.obj = test[t].obj /\ n.live /\ (n.shared <=> test[t].pc = "locked")
<1> DEFINE new == [obj |-> test[t].obj, live |-> TRUE, shared |-> test[t].pc = "locked"]
<1>1. new \in ConnRecord /\ new.obj = test[t].obj /\ new.live /\ (new.shared <=> test[t].pc = "locked")
  BY Zenon DEF ConnRecord
<1>2. NewConn(t) = Append(conns, new)
  BY Zenon DEF NewConn
<1> HIDE DEF new
<1>3. /\ NewConn(t) \in Seq(ConnRecord) /\ Len(NewConn(t)) = Len(conns) + 1
      /\ \A c \in 1 .. Len(conns) : NewConn(t)[c] = conns[c]
      /\ NewConn(t)[Len(conns) + 1] = new
  BY <1>1, <1>2, AppendProperties
<1>4. DOMAIN conns = 1 .. Len(conns)
  BY LenProperties
<1> QED BY <1>1, <1>3, <1>4

-----------------------------------------------------------------------------
PlugState == [pc : PlugPcs, obj : Settings \cup {NoSettings}, conn : 0 .. MaxConns]
PoolData ==
    /\ idOf \in [Settings -> Ids \cup {0}] /\ pool \in [Ids -> 0 .. MaxConns]
    /\ lockedBy \in Tests \cup {Nobody} /\ test \in [Tests -> PlugState]
    /\ conns \in Seq(ConnRecord) /\ Len(conns) <= MaxConns /\ doomed \subseteq 1 .. Len(conns)

(* An id() is of one object that is alive, and one thread is in the pool's lock. *)
IdsDiffer == \A o, p \in Settings : idOf[o] = idOf[p] /\ idOf[o] # 0 => o = p
LockIsMutual == \A t \in Tests : test[t].pc = "locked" => lockedBy = t

(* A plug has a settings object, which its connection was made with.             *)
PlugHas(t) ==
    IF test[t].pc = "idle" THEN test[t].obj = NoSettings /\ test[t].conn = 0
    ELSE /\ test[t].obj \in Settings /\ idOf[test[t].obj] # 0
         /\ test[t].pc \in {"using", "usingOwn"} => test[t].conn # 0
         /\ test[t].conn # 0 => test[t].conn \in 1 .. Len(conns) /\ conns[test[t].conn].obj = test[t].obj
PlugsHave == \A t \in Tests : PlugHas(t)

(* A pooled connection is open, shared, and made with the object that has the id.  *)
PoolNames(i) ==
    pool[i] # 0 => /\ pool[i] \in 1 .. Len(conns) /\ pool[i] \notin doomed
                   /\ conns[pool[i]].live /\ conns[pool[i]].shared
                   /\ idOf[conns[pool[i]].obj] = i
DoomedAre == \A c \in doomed : conns[c].shared /\ idOf[conns[c].obj] # 0
PoolIs == (\A i \in Ids : PoolNames(i)) /\ DoomedAre

(* No shared connection that is open is forgotten.                                 *)
SharedIsNamed ==
    \A c \in 1 .. Len(conns) :
        conns[c].live /\ conns[c].shared => c \in doomed \/ \E i \in Ids : pool[i] = c

(* A plug's own connection is open and nobody else's.                              *)
OwnIsOpen ==
    \A t \in Tests : test[t].pc = "usingOwn" =>
        /\ conns[test[t].conn].live /\ ~conns[test[t].conn].shared
        /\ \A u \in Tests : test[u].pc = "usingOwn" /\ test[u].conn = test[t].conn => u = t

(* What every step of the pool and its plugs keeps.                                *)
PoolKept == PoolData /\ IdsDiffer /\ LockIsMutual /\ PlugsHave /\ PoolIs /\ SharedIsNamed /\ OwnIsOpen

LEMMA ConnsAre ==
    ASSUME conns \in Seq(ConnRecord)
    PROVE  /\ Len(conns) \in Nat /\ DOMAIN conns = 1 .. Len(conns)
           /\ \A c \in 1 .. Len(conns) : conns[c] \in ConnRecord /\ conns[c].obj \in Settings
<1>1. Len(conns) \in Nat /\ DOMAIN conns = 1 .. Len(conns)
  BY LenProperties
<1>2. \A c \in 1 .. Len(conns) : conns[c] \in ConnRecord
  BY ElementOfSeq
<1> QED BY <1>1, <1>2, Zenon DEF ConnRecord

LEMMA SettingsComeAndGo ==
    ASSUME PoolKept, NEW o \in Settings, Free(o) \/ \E i \in Ids : Create(o, i)
    PROVE  PoolKept'
<1> USE PoolAssumption DEF PoolKept, PoolData
<1>1. CASE \E i \in Ids : Create(o, i)
  <2>1. PICK i \in Ids : Create(o, i)
    BY <1>1
  <2>2. /\ idOf' \in [Settings -> Ids \cup {0}]
        /\ \A p \in Settings : idOf[p] # 0 => idOf'[p] = idOf[p]
        /\ IdsDiffer'
    BY <2>1 DEF Create, IdsDiffer
  <2>3. UNCHANGED <<pool, lockedBy, test, doomed, conns>>
    BY <2>1 DEF Create
  <2>4. PlugsHave'
    BY <2>2, <2>3 DEF PlugsHave, PlugHas, PlugState
  <2>5. PoolIs'
    <3>1. ASSUME NEW k \in Ids PROVE PoolNames(k)'
      BY <2>2, <2>3, ConnsAre, k # 0 DEF PoolIs, PoolNames
    <3>2. DoomedAre'
      BY <2>2, <2>3, ConnsAre DEF PoolIs, DoomedAre
    <3> QED BY <3>1, <3>2 DEF PoolIs
  <2> QED BY <2>2, <2>3, <2>4, <2>5 DEF LockIsMutual, SharedIsNamed, OwnIsOpen
<1>2. CASE Free(o)
  <2>1. /\ idOf' \in [Settings -> Ids \cup {0}] /\ idOf'[o] = 0
        /\ \A p \in Settings : p # o => idOf'[p] = idOf[p]
        /\ IdsDiffer'
    BY <1>2 DEF Free, IdsDiffer
  <2>2. UNCHANGED <<pool, lockedBy, test, doomed, conns>> /\ ~Held(o)
    BY <1>2 DEF Free
  <2>3. /\ \A t \in Tests : test[t].obj # o
        /\ \A i \in Ids : pool[i] \in DOMAIN conns => conns[pool[i]].obj # o
        /\ \A c \in doomed : c \in DOMAIN conns => conns[c].obj # o
    BY <2>2 DEF Held
  <2>4. DOMAIN conns = 1 .. Len(conns)
    BY LenProperties
  <2>5. PlugsHave'
    BY <2>1, <2>2, <2>3 DEF PlugsHave, PlugHas, PlugState
  <2>6. PoolIs'
    <3>1. ASSUME NEW k \in Ids PROVE PoolNames(k)'
      BY <2>1, <2>2, <2>3, <2>4, ConnsAre DEF PoolIs, PoolNames
    <3>2. DoomedAre'
      BY <2>1, <2>2, <2>3, <2>4, ConnsAre DEF PoolIs, DoomedAre
    <3> QED BY <3>1, <3>2 DEF PoolIs
  <2> QED BY <2>1, <2>2, <2>5, <2>6 DEF LockIsMutual, SharedIsNamed, OwnIsOpen
<1> QED BY <1>1, <1>2

(* What a thread does under the lock is to the key of the settings of its plug.   *)
LEMMA KeyIs ==
    ASSUME PoolKept, NEW t \in Tests, test[t].pc # "idle"
    PROVE  /\ test[t] \in PlugState /\ test[t].obj \in Settings
           /\ Key(t) \in Ids /\ Key(t) # 0 /\ pool[Key(t)] \in 0 .. MaxConns
<1>1. test[t] \in PlugState /\ test[t].obj \in Settings /\ idOf[test[t].obj] # 0
  BY DEF PoolKept, PoolData, PlugsHave, PlugHas
<1> QED BY <1>1, PoolAssumption DEF PoolKept, PoolData, Key

(* The steps that leave the connections and the pool alone.                       *)
LEMMA PlugsMove ==
    ASSUME PoolKept, NEW t \in Tests,
           \/ \E o \in Settings, persistent \in BOOLEAN : MakePlug(t, o, persistent)
           \/ EnterPool(t) \/ Reuse(t) \/ OpenFails(t)
    PROVE  PoolKept'
<1> USE PoolAssumption DEF PoolKept, PoolData
<1>1. UNCHANGED <<idOf, pool, doomed, conns>>
  BY Zenon DEF MakePlug, EnterPool, Reuse, OpenFails
<1>2. ASSUME test' = [test EXCEPT ![t] = test'[t]], test'[t] \in PlugState, PlugHas(t)',
             test'[t].pc # "usingOwn", lockedBy' \in Tests \cup {Nobody},
             LockIsMutual'
      PROVE  PoolKept'
  <2>1. \A u \in Tests : u # t => test'[u] = test[u]
    BY <1>2
  <2>2. test' \in [Tests -> PlugState]
    BY <1>2
  <2>3. PlugsHave'
    <3>1. ASSUME NEW u \in Tests, u # t PROVE PlugHas(u)'
      BY <1>1, <2>1, <3>1 DEF PlugsHave, PlugHas
    <3> QED BY <1>2, <3>1 DEF PlugsHave
  <2>4. OwnIsOpen'
    BY <1>1, <1>2, <2>1 DEF OwnIsOpen
  <2> QED BY <1>1, <1>2, <2>2, <2>3, <2>4 DEF IdsDiffer, PoolIs, PoolNames, DoomedAre, SharedIsNamed
<1>3. CASE \E o \in Settings, persistent \in BOOLEAN : MakePlug(t, o, persistent)
  <2>1. PICK o \in Settings, persistent \in BOOLEAN : MakePlug(t, o, persistent)
    BY <1>3
  <2>2. /\ test' = [test EXCEPT ![t] = test'[t]] /\ test'[t].obj = o /\ test'[t].conn = 0
        /\ test'[t] \in PlugState /\ test'[t].pc \in {"acquire", "own"}
    BY <2>1 DEF MakePlug, PlugState, PlugPcs
  <2>3. idOf'[o] # 0 /\ lockedBy' = lockedBy
    BY <2>1 DEF MakePlug
  <2>4. LockIsMutual'
    BY <2>2, <2>3 DEF LockIsMutual
  <2>5. PlugHas(t)'
    BY <2>2, <2>3 DEF PlugHas
  <2> QED BY <1>2, <2>2, <2>3, <2>4, <2>5
<1>4. CASE EnterPool(t)
  <2>1. test[t].pc = "acquire" /\ lockedBy = Nobody /\ lockedBy' = t
    BY <1>4 DEF EnterPool
  <2>2. test[t] \in PlugState
    BY Zenon
  <2>3. test' = [test EXCEPT ![t].pc = "locked"]
    BY <1>4 DEF EnterPool, Step
  <2>4. /\ test' = [test EXCEPT ![t] = test'[t]] /\ test'[t] \in PlugState /\ test'[t].pc = "locked"
        /\ test'[t].obj = test[t].obj /\ test'[t].conn = test[t].conn
    BY <2>2, <2>3 DEF PlugState, PlugPcs
  <2>5. LockIsMutual'
    BY <2>1, <2>4 DEF LockIsMutual, Nobody
  <2>6. PlugHas(t)'
    BY <1>1, <2>1, <2>4 DEF PlugsHave, PlugHas
  <2> QED BY <1>2, <2>1, <2>4, <2>5, <2>6
<1>5. CASE Reuse(t)
  <2>1. test[t].pc = "locked" /\ pool[Key(t)] # 0 /\ lockedBy' = Nobody
    BY <1>5 DEF Reuse
  <2>2. /\ test[t] \in PlugState /\ test[t].obj \in Settings
        /\ Key(t) \in Ids /\ Key(t) # 0 /\ pool[Key(t)] \in 0 .. MaxConns
    BY <2>1, KeyIs
  <2>3. test' = [test EXCEPT ![t].pc = "using", ![t].conn = pool[Key(t)]]
    BY <1>5 DEF Reuse
  <2>4. /\ test' = [test EXCEPT ![t] = test'[t]] /\ test'[t] \in PlugState /\ test'[t].pc = "using"
        /\ test'[t].obj = test[t].obj /\ test'[t].conn = pool[Key(t)]
    BY <2>2, <2>3 DEF PlugState, PlugPcs
  <2>5. LockIsMutual'
    BY <2>1, <2>4 DEF LockIsMutual, Nobody
  <2>6. PoolNames(Key(t))
    BY <2>2 DEF PoolIs
  <2>7. pool[Key(t)] \in 1 .. Len(conns) /\ idOf[conns[pool[Key(t)]].obj] = Key(t)
    BY <2>1, <2>6 DEF PoolNames
  <2>8. conns[pool[Key(t)]].obj = test[t].obj
    BY <2>2, <2>7, ConnsAre DEF IdsDiffer, Key
  <2>9. PlugHas(t)'
    BY <1>1, <2>1, <2>2, <2>4, <2>7, <2>8 DEF PlugHas, Key
  <2> QED BY <1>2, <2>1, <2>4, <2>5, <2>9
<1>6. CASE OpenFails(t)
  <2>1. test' = [test EXCEPT ![t] = NoTest] /\ lockedBy' = IF lockedBy = t THEN Nobody ELSE lockedBy
    BY <1>6 DEF OpenFails
  <2>2. /\ test' = [test EXCEPT ![t] = test'[t]] /\ test'[t] = NoTest /\ test'[t] \in PlugState
        /\ test'[t].pc = "idle" /\ PlugHas(t)'
    BY <2>1 DEF NoTest, PlugState, PlugPcs, PlugHas
  <2>3. LockIsMutual'
    BY <2>1, <2>2 DEF LockIsMutual, Nobody
  <2> QED BY <1>2, <2>1, <2>2, <2>3
<1> QED BY <1>3, <1>4, <1>5, <1>6

(* Closing connections that no key of the pool and no plug of its own uses, and   *)
(* forgetting them in the list of a close.                                        *)
LEMMA ClosingKeeps ==
    ASSUME PoolKept, NEW cs, conns' = AfterClose(cs), idOf' = idOf, test' = test,
           lockedBy' = lockedBy,
           doomed' \subseteq doomed, doomed \ doomed' \subseteq cs, 
           \A i \in Ids : pool'[i] = IF pool[i] \in cs THEN 0 ELSE pool[i],
           pool' \in [Ids -> 0 .. MaxConns],
           \A c \in cs : c \in 1 .. Len(conns) => conns[c].shared
    PROVE  PoolKept'
<1> USE PoolAssumption DEF PoolKept, PoolData
<1>1. DOMAIN conns = 1 .. Len(conns) /\ Len(conns) \in Nat
  BY LenProperties
<1>2. /\ conns' \in Seq(ConnRecord) /\ Len(conns') = Len(conns)
      /\ \A c \in 1 .. Len(conns) :
            /\ conns'[c].obj = conns[c].obj /\ conns'[c].shared = conns[c].shared
            /\ conns'[c].live <=> conns[c].live /\ c \notin cs
  BY <1>1, AfterCloseIs, SMTT(20)
<1>3. PoolData'
  BY <1>2, Zenon
<1>4. IdsDiffer' /\ LockIsMutual'
  BY Zenon DEF IdsDiffer, LockIsMutual
<1>5. PlugsHave'
  <2> SUFFICES ASSUME NEW u \in Tests PROVE PlugHas(u)'
    BY Zenon DEF PlugsHave
  <2>1. PlugHas(u)
    BY Zenon DEF PlugsHave
  <2> QED BY <1>2, <2>1 DEF PlugHas
<1>6. ASSUME NEW i \in Ids PROVE PoolNames(i)'
  BY <1>2 DEF PoolIs, PoolNames
<1>7. DoomedAre'
  BY <1>2 DEF PoolIs, DoomedAre
<1>8. SharedIsNamed'
  <2> SUFFICES ASSUME NEW c \in 1 .. Len(conns), conns'[c].live, conns'[c].shared
               PROVE  c \in doomed' \/ \E i \in Ids : pool'[i] = c
    BY <1>2 DEF SharedIsNamed
  <2>1. conns[c].live /\ conns[c].shared /\ c \notin cs
    BY <1>2
  <2>2. c \in doomed \/ \E i \in Ids : pool[i] = c
    BY <2>1 DEF SharedIsNamed
  <2> QED BY <2>1, <2>2
<1>9. OwnIsOpen'
  <2> SUFFICES ASSUME NEW u \in Tests, test[u].pc = "usingOwn"
               PROVE  conns'[test[u].conn].live /\ ~conns'[test[u].conn].shared
    BY DEF OwnIsOpen
  <2>1. test[u].conn \in 1 .. Len(conns)
    BY DEF PlugsHave, PlugHas
  <2> QED BY <1>2, <2>1 DEF OwnIsOpen
<1> QED BY <1>3, <1>4, <1>5, <1>6, <1>7, <1>8, <1>9 DEF PoolIs

LEMMA PingFailsKeeps ==
    ASSUME PoolKept, NEW t \in Tests, PingFails(t)
    PROVE  PoolKept'
<1> USE PoolAssumption
<1>1. /\ Key(t) \in Ids /\ pool[Key(t)] # 0 /\ PoolNames(Key(t))
      /\ pool' = [pool EXCEPT ![Key(t)] = 0] /\ conns' = AfterClose({pool[Key(t)]})
      /\ UNCHANGED <<idOf, lockedBy, test, doomed>>
  BY KeyIs DEF PingFails, PoolKept, PoolIs
<1>2. \A i \in Ids : pool[i] # 0 => idOf[conns[pool[i]].obj] = i
  BY DEF PoolKept, PoolIs, PoolNames
<1>3. \A i \in Ids : i # Key(t) => pool[i] # pool[Key(t)]
  BY <1>1, <1>2
<1>4. pool \in [Ids -> 0 .. MaxConns]
  BY DEF PoolKept, PoolData
<1>5. \A i \in Ids : pool'[i] = IF pool[i] \in {pool[Key(t)]} THEN 0 ELSE pool[i]
  BY <1>1, <1>3, <1>4
<1>6. pool' \in [Ids -> 0 .. MaxConns]
  BY <1>1, <1>4
<1>7. \A c \in {pool[Key(t)]} : c \in 1 .. Len(conns) => conns[c].shared
  BY <1>1 DEF PoolNames
<1> QED BY <1>1, <1>5, <1>6, <1>7, ClosingKeeps

LEMMA CloseTakenKeeps ==
    ASSUME PoolKept, NEW c \in doomed, CloseTaken(c)
    PROVE  PoolKept'
<1> USE PoolAssumption
<1>1. pool \in [Ids -> 0 .. MaxConns] /\ doomed \subseteq 1 .. Len(conns) /\ 0 \notin 1 .. Len(conns)
  BY ConnsAre DEF PoolKept, PoolData
<1>2. \A i \in Ids : pool[i] # c
  BY <1>1 DEF PoolKept, PoolIs, PoolNames
<1>3. conns[c].shared
  BY DEF PoolKept, PoolIs, DoomedAre
<1>4. conns' = AfterClose({c}) /\ doomed' = doomed \ {c} /\ UNCHANGED <<idOf, pool, lockedBy, test>>
  BY DEF CloseTaken
<1> QED BY <1>1, <1>2, <1>3, <1>4, ClosingKeeps

LEMMA TakePoolKeeps ==
    ASSUME PoolKept, TakePool
    PROVE  PoolKept'
<1> USE PoolAssumption DEF PoolKept, PoolData
<1>1. /\ doomed' = doomed \cup ({pool[i] : i \in Ids} \ {0}) /\ pool' = [i \in Ids |-> 0]
      /\ UNCHANGED <<idOf, lockedBy, test, conns>>
  BY DEF TakePool
<1>2. \A i \in Ids : pool'[i] = 0
  BY <1>1
<1>3. \A i \in Ids : pool[i] # 0 =>
         /\ pool[i] \in 1 .. Len(conns) /\ conns[pool[i]].shared /\ idOf[conns[pool[i]].obj] = i
  BY DEF PoolIs, PoolNames
<1>4. \A c \in doomed' : c \in doomed \/ \E i \in Ids : pool[i] = c /\ pool[i] # 0
  BY <1>1
<1>5. doomed' \subseteq 1 .. Len(conns)
  <2> SUFFICES ASSUME NEW c \in doomed' PROVE c \in 1 .. Len(conns)
    BY Zenon
  <2>1. CASE c \in doomed
    BY <2>1
  <2>2. CASE \E i \in Ids : pool[i] = c /\ pool[i] # 0
    BY <1>3, <2>2
  <2> QED BY <1>4, <2>1, <2>2, Zenon
<1>6. DoomedAre'
  <2> SUFFICES ASSUME NEW c \in doomed' PROVE conns[c].shared /\ idOf[conns[c].obj] # 0
    BY <1>1, Zenon DEF DoomedAre
  <2>1. CASE c \in doomed
    BY <2>1, Zenon DEF PoolIs, DoomedAre
  <2>2. CASE \E i \in Ids : pool[i] = c /\ pool[i] # 0
    <3>1. PICK i \in Ids : pool[i] = c /\ pool[i] # 0
      BY <2>2, Zenon
    <3>2. i # 0
      BY Zenon DEF PoolAssumption
    <3> QED BY <1>3, <3>1, <3>2, Zenon
  <2> QED BY <1>4, <2>1, <2>2, Zenon
<1>7. SharedIsNamed'
  <2> SUFFICES ASSUME NEW c \in 1 .. Len(conns), conns[c].live, conns[c].shared
               PROVE  c \in doomed'
    BY <1>1 DEF SharedIsNamed
  <2>1. c \in doomed \/ \E i \in Ids : pool[i] = c
    BY DEF SharedIsNamed
  <2>2. c # 0
    BY ConnsAre
  <2> QED BY <1>1, <2>1, <2>2, Zenon
<1> QED BY <1>1, <1>2, <1>5, <1>6, <1>7
        DEF IdsDiffer, LockIsMutual, PlugsHave, PlugHas, PoolIs, PoolNames, OwnIsOpen

LEMMA TearDownKeeps ==
    ASSUME PoolKept, NEW t \in Tests, TearDown(t)
    PROVE  PoolKept'
<1> USE PoolAssumption DEF PoolKept, PoolData
<1>1. /\ test' = [test EXCEPT ![t] = NoTest] /\ UNCHANGED <<idOf, pool, lockedBy, doomed>>
      /\ test[t].pc \in {"using", "usingOwn"}
      /\ conns' = IF test[t].pc = "usingOwn" THEN AfterClose({test[t].conn}) ELSE conns
  BY Zenon DEF TearDown
<1>2. test' \in [Tests -> PlugState] /\ test'[t] = NoTest /\ \A u \in Tests : u # t => test'[u] = test[u]
  BY <1>1 DEF NoTest, PlugState, PlugPcs
<1>3. DOMAIN conns = 1 .. Len(conns) /\ Len(conns) \in Nat
  BY LenProperties
<1>4. /\ conns' \in Seq(ConnRecord) /\ Len(conns') = Len(conns)
      /\ \A c \in 1 .. Len(conns) :
            /\ conns'[c].obj = conns[c].obj /\ conns'[c].shared = conns[c].shared
            /\ conns'[c].live => conns[c].live
            /\ conns[c].live => conns'[c].live \/ (test[t].pc = "usingOwn" /\ c = test[t].conn)
  <2>1. CASE test[t].pc = "usingOwn"
    BY <1>1, <1>3, <2>1, AfterCloseIs, SMTT(20)
  <2>2. CASE test[t].pc # "usingOwn"
    BY <1>1, <2>2
  <2> QED BY <2>1, <2>2
<1>5. PoolData'
  BY <1>1, <1>2, <1>4, Zenon
<1>6. IdsDiffer' /\ LockIsMutual'
  BY <1>1, <1>2 DEF IdsDiffer, LockIsMutual, NoTest
<1>7. PlugsHave'
  <2>1. PlugHas(t)'
    BY <1>2 DEF PlugHas, NoTest
  <2>2. ASSUME NEW u \in Tests, u # t PROVE PlugHas(u)'
    BY <1>1, <1>2, <1>4, <2>2, ZenonT(30) DEF PlugsHave, PlugHas
  <2> QED BY <2>1, <2>2 DEF PlugsHave
<1>8. ASSUME NEW i \in Ids PROVE PoolNames(i)'
  <2>1. PoolNames(i)
    BY DEF PoolIs
  <2>2. test[t].pc = "usingOwn" => ~conns[test[t].conn].shared
    BY DEF OwnIsOpen
  <2> QED BY <1>1, <1>4, <2>1, <2>2 DEF PoolNames
<1>9. DoomedAre' /\ SharedIsNamed'
  BY <1>1, <1>4 DEF PoolIs, DoomedAre, SharedIsNamed
<1>10. OwnIsOpen'
  <2> SUFFICES ASSUME NEW u \in Tests, test'[u].pc = "usingOwn"
               PROVE  /\ conns'[test'[u].conn].live /\ ~conns'[test'[u].conn].shared
                      /\ \A w \in Tests : test'[w].pc = "usingOwn" /\ test'[w].conn = test'[u].conn => w = u
    BY DEF OwnIsOpen
  <2>1. u # t /\ test'[u] = test[u] /\ test[u].pc = "usingOwn"
    BY <1>2 DEF NoTest
  <2>2. test[u].conn \in 1 .. Len(conns)
    BY <2>1 DEF PlugsHave, PlugHas
  <2>3. /\ conns[test[u].conn].live /\ ~conns[test[u].conn].shared
        /\ \A w \in Tests : test[w].pc = "usingOwn" /\ test[w].conn = test[u].conn => w = u
    BY <2>1 DEF OwnIsOpen
  <2>4. conns'[test[u].conn].live /\ ~conns'[test[u].conn].shared
    BY <1>4, <2>1, <2>2, <2>3
  <2>5. \A w \in Tests : test'[w].pc = "usingOwn" => w # t /\ test'[w] = test[w]
    BY <1>2 DEF NoTest
  <2> QED BY <2>1, <2>3, <2>4, <2>5, Zenon
<1> QED BY <1>5, <1>6, <1>7, <1>8, <1>9, <1>10 DEF PoolIs

(* A new connection is in the pool, or a plug's own.                              *)
LEMMA OpeningKeeps ==
    ASSUME PoolKept, NEW t \in Tests, OpenPooled(t) \/ OpenOwn(t)
    PROVE  PoolKept'
<1> USE PoolAssumption DEF PoolKept, PoolData
<1> DEFINE n == Len(conns) + 1
<1>1. /\ test[t].pc \in {"locked", "own"} /\ conns' = NewConn(t) /\ UNCHANGED <<idOf, doomed>>
      /\ Len(conns) < MaxConns
  BY Zenon DEF OpenPooled, OpenOwn
<1>2. /\ test[t] \in PlugState /\ test[t].obj \in Settings /\ idOf[test[t].obj] # 0
      /\ Key(t) = idOf[test[t].obj] /\ Key(t) \in Ids
  BY <1>1, KeyIs DEF Key
<1>3. /\ conns' \in Seq(ConnRecord) /\ Len(conns') = n
      /\ \A c \in 1 .. Len(conns) : conns'[c] = conns[c]
      /\ conns'[n].obj = test[t].obj /\ conns'[n].live /\ (conns'[n].shared <=> test[t].pc = "locked")
  BY <1>1, <1>2, NewConnIs, ConnsAre
<1>4. Len(conns) \in Nat
  BY LenProperties
<1>5. n \in 0 .. MaxConns /\ n # 0 /\ n \notin 1 .. Len(conns) /\ 1 .. n = (1 .. Len(conns)) \cup {n}
  BY <1>1, <1>4
<1>6. \A u \in Tests : test[u].conn # 0 => test[u].conn \in 1 .. Len(conns)
  BY DEF PlugsHave, PlugHas
<1>7. CASE OpenPooled(t)
  <2>1. /\ test[t].pc = "locked" /\ pool[Key(t)] = 0 /\ lockedBy' = Nobody
        /\ pool' = [pool EXCEPT ![Key(t)] = n]
        /\ test' = [test EXCEPT ![t].pc = "using", ![t].conn = n]
    BY <1>7, Zenon DEF OpenPooled
  <2>2. /\ test'[t] \in PlugState /\ test'[t].pc = "using" /\ test'[t].obj = test[t].obj /\ test'[t].conn = n
        /\ test' \in [Tests -> PlugState] /\ \A u \in Tests : u # t => test'[u] = test[u]
    BY <1>2, <1>5, <2>1 DEF PlugState, PlugPcs
  <2>3. /\ pool' \in [Ids -> 0 .. MaxConns] /\ pool'[Key(t)] = n
        /\ \A i \in Ids : i # Key(t) => pool'[i] = pool[i]
    BY <1>2, <1>5, <2>1
  <2>4. PoolData'
    BY <1>1, <1>3, <1>4, <1>5, <2>1, <2>2, <2>3
  <2>5. IdsDiffer' /\ LockIsMutual'
    BY <1>1, <2>1, <2>2 DEF IdsDiffer, LockIsMutual, Nobody
  <2>6. PlugsHave'
    <3>1. PlugHas(t)'
      BY <1>1, <1>2, <1>3, <1>5, <2>2 DEF PlugHas
    <3>2. ASSUME NEW u \in Tests, u # t PROVE PlugHas(u)'
      BY <1>1, <1>3, <1>5, <2>2, <3>2 DEF PlugsHave, PlugHas
    <3> QED BY <3>1, <3>2 DEF PlugsHave
  <2>7. ASSUME NEW i \in Ids PROVE PoolNames(i)'
    <3>1. CASE i = Key(t)
      BY <1>1, <1>2, <1>3, <1>5, <2>1, <2>3, <3>1 DEF PoolNames
    <3>2. CASE i # Key(t)
      BY <1>1, <1>3, <1>5, <2>3, <3>2 DEF PoolIs, PoolNames
    <3> QED BY <3>1, <3>2
  <2>8. DoomedAre'
    BY <1>1, <1>3 DEF PoolIs, DoomedAre
  <2>9. SharedIsNamed'
    <3> SUFFICES ASSUME NEW c \in 1 .. n, conns'[c].live, conns'[c].shared
                 PROVE  c \in doomed' \/ \E i \in Ids : pool'[i] = c
      BY <1>3 DEF SharedIsNamed
    <3>1. CASE c = n
      BY <1>2, <2>3, <3>1
    <3>2. CASE c # n
      <4>1. c \in doomed \/ \E i \in Ids : pool[i] = c
        BY <1>3, <1>5, <3>2 DEF SharedIsNamed
      <4>2. c # 0 /\ pool[Key(t)] = 0
        BY <1>4, <2>1
      <4> QED BY <1>1, <2>3, <4>1, <4>2
    <3> QED BY <3>1, <3>2
  <2>10. OwnIsOpen'
    <3>1. \A u \in Tests : test'[u].pc = "usingOwn" => u # t /\ test'[u] = test[u]
      BY <2>2
    <3>2. \A u \in Tests : test[u].pc = "usingOwn" => test[u].conn \in 1 .. Len(conns)
      BY DEF PlugsHave, PlugHas
    <3> QED BY <1>3, <3>1, <3>2 DEF OwnIsOpen
  <2> QED BY <2>4, <2>5, <2>6, <2>7, <2>8, <2>9, <2>10 DEF PoolIs
<1>8. CASE OpenOwn(t)
  <2>1. /\ test[t].pc = "own" /\ UNCHANGED <<pool, lockedBy>>
        /\ test' = [test EXCEPT ![t].pc = "usingOwn", ![t].conn = n]
    BY <1>8, Zenon DEF OpenOwn
  <2>2. /\ test'[t] \in PlugState /\ test'[t].pc = "usingOwn" /\ test'[t].obj = test[t].obj /\ test'[t].conn = n
        /\ test' \in [Tests -> PlugState] /\ \A u \in Tests : u # t => test'[u] = test[u]
    BY <1>2, <1>5, <2>1 DEF PlugState, PlugPcs
  <2>4. PoolData'
    BY <1>1, <1>3, <1>4, <1>5, <2>1, <2>2
  <2>5. IdsDiffer' /\ LockIsMutual'
    BY <1>1, <2>1, <2>2 DEF IdsDiffer, LockIsMutual
  <2>6. PlugsHave'
    <3>1. PlugHas(t)'
      BY <1>1, <1>2, <1>3, <1>5, <2>2 DEF PlugHas
    <3>2. ASSUME NEW u \in Tests, u # t PROVE PlugHas(u)'
      BY <1>1, <1>3, <1>5, <2>2, <3>2 DEF PlugsHave, PlugHas
    <3> QED BY <3>1, <3>2 DEF PlugsHave
  <2>7. ASSUME NEW i \in Ids PROVE PoolNames(i)'
    BY <1>1, <1>3, <1>5, <2>1 DEF PoolIs, PoolNames
  <2>8. DoomedAre'
    BY <1>1, <1>3 DEF PoolIs, DoomedAre
  <2>9. SharedIsNamed'
    BY <1>1, <1>3, <1>5, <2>1 DEF SharedIsNamed
  <2>10. OwnIsOpen'
    <3> SUFFICES ASSUME NEW u \in Tests, test'[u].pc = "usingOwn"
                 PROVE  /\ conns'[test'[u].conn].live /\ ~conns'[test'[u].conn].shared
                        /\ \A w \in Tests : test'[w].pc = "usingOwn" /\ test'[w].conn = test'[u].conn => w = u
      BY DEF OwnIsOpen
    <3>1. \A w \in Tests : w # t /\ test[w].pc = "usingOwn" => test'[w].conn \in 1 .. Len(conns)
      BY <2>2 DEF PlugsHave, PlugHas
    <3>2. CASE u = t
      BY <1>3, <1>5, <2>1, <2>2, <3>1, <3>2
    <3>3. CASE u # t
      <4>1. test'[u] = test[u] /\ test[u].conn \in 1 .. Len(conns) /\ test[u].pc = "usingOwn"
        BY <2>2, <3>1, <3>3
      <4>2. /\ conns[test[u].conn].live /\ ~conns[test[u].conn].shared
            /\ \A w \in Tests : test[w].pc = "usingOwn" /\ test[w].conn = test[u].conn => w = u
        BY <4>1 DEF OwnIsOpen
      <4>3. ASSUME NEW w \in Tests, test'[w].pc = "usingOwn", test'[w].conn = test'[u].conn
            PROVE  w = u
        <5>1. w # t
          BY <1>5, <2>2, <4>1, <4>3
        <5> QED BY <2>2, <4>1, <4>2, <4>3, <5>1
      <4> QED BY <1>3, <4>1, <4>2, <4>3
    <3> QED BY <3>2, <3>3
  <2> QED BY <2>4, <2>5, <2>6, <2>7, <2>8, <2>9, <2>10 DEF PoolIs
<1> QED BY <1>7, <1>8

-----------------------------------------------------------------------------
LEMMA PoolStarts ==
    ASSUME PoolInit
    PROVE  PoolKept
<1> USE PoolAssumption DEF PoolInit
<1>1. conns \in Seq(ConnRecord) /\ Len(conns) = 0
  BY EmptySeq
<1>2. PoolData
  BY <1>1 DEF PoolData, NoTest, PlugState, PlugPcs
<1> QED BY <1>1, <1>2 DEF PoolKept, IdsDiffer, LockIsMutual, PlugsHave, PlugHas, NoTest, PoolIs,
           PoolNames, DoomedAre, SharedIsNamed, OwnIsOpen

LEMMA PoolStep ==
    ASSUME PoolKept, PoolNext \/ UNCHANGED poolVars
    PROVE  PoolKept'
<1>1. CASE UNCHANGED poolVars
  BY <1>1 DEF poolVars, PoolKept, PoolData, IdsDiffer, LockIsMutual, PlugsHave, PlugHas, PoolIs,
              PoolNames, DoomedAre, SharedIsNamed, OwnIsOpen
<1>2. CASE PoolNext
  BY <1>2, SettingsComeAndGo, PlugsMove, PingFailsKeeps, OpeningKeeps, TearDownKeeps, TakePoolKeeps,
     CloseTakenKeeps DEF PoolNext, PlugSteps
<1> QED BY <1>1, <1>2

LEMMA KeptIsSafe ==
    ASSUME PoolKept
    PROVE  PoolInv
<1> USE PoolAssumption DEF PoolKept, PoolData
<1>1. DOMAIN conns = 1 .. Len(conns) /\ Len(conns) \in Nat
  BY LenProperties
<1>2. PoolTypeOK
  BY <1>1 DEF PoolTypeOK, PlugState, PlugPcs
<1>3. OwnSettings
  BY DEF OwnSettings, PlugsHave, PlugHas
<1>4. OneConnection
  BY <1>1 DEF OneConnection, SharedIsNamed, PoolIs, PoolNames
<1>5. PooledIsOpen
  BY DEF PooledIsOpen, Live, PoolIs, PoolNames, OwnIsOpen, PlugsHave, PlugHas
<1> QED BY <1>2, <1>3, <1>4, <1>5 DEF PoolInv

(* A plug gets a connection made with its own settings, there is one per key and  *)
(* it is open, whatever the threads that make plugs, tear them down and close the *)
(* pool do between one another's steps (plug.py, _acquire_persistent and          *)
(* close_persistent_benchpods).                                                   *)
THEOREM OnePooledConnection == PoolSpec => []PoolInv
<1>1. PoolInit => PoolKept
  BY PoolStarts
<1>2. PoolKept /\ [PoolNext]_poolVars => PoolKept'
  BY PoolStep
<1>3. PoolKept => PoolInv
  BY KeptIsSafe
<1> QED BY <1>1, <1>2, <1>3, PTL DEF PoolSpec

-----------------------------------------------------------------------------
(* The build report (ci.py): any artifacts. *)

BuildRecord == [artifacts : SUBSET (1 .. MaxArtifacts), status : {"none", "passed", "failed"}]

BuildFlags == reporting \in BOOLEAN /\ uncreated \in BOOLEAN
ReportData ==
    /\ program \in {"none", "pytest", "upload"}
    /\ builds \in Seq(BuildRecord) /\ buildId \in 0 .. Len(builds)
    /\ result \in {"none", "passed", "failed"}
    /\ verdict \in {"none", "passed", "failed", "setup failed", "not run"}
    /\ uploads \in 0 .. MaxArtifacts /\ skipped \in SUBSET (1 .. MaxArtifacts)
    /\ statusPosts \in 0 .. 1
    /\ repPc \in {"start", "running", "artifact", "teardown", "log", "finalize", "status",
                  "end", "killed"}

(* What the steps of a run have come to at each place: who reports, the verdict,    *)
(* the result and the status posted.                                                *)
Shape ==
    /\ repPc \in {"artifact", "log", "finalize", "status"} => reporting
    /\ repPc = "running" /\ program = "upload" => reporting
    /\ repPc \in {"start", "running", "artifact"} => verdict = "none"
    /\ repPc \in {"start", "running", "artifact", "teardown"} => result = "none"
    /\ repPc \in {"log", "finalize", "status", "end"} /\ result = "passed" => verdict = "passed"
    /\ repPc \notin {"end", "killed"} => statusPosts = 0
    /\ repPc = "start" => Len(builds) = 0 /\ uploads = 0

(* The artifacts asked for so far, but for the one that is on its way, are in the   *)
(* run's build or were skipped for want of one.                                     *)
AskedFor == IF repPc = "artifact" THEN 1 .. (uploads - 1) ELSE 1 .. uploads
Carried == IF buildId = 0 THEN {} ELSE builds[buildId].artifacts
BuildIsWhole ==
    /\ repPc = "artifact" => uploads # 0
    /\ skipped \subseteq AskedFor
    /\ reporting /\ (repPc \in {"start", "running", "artifact"} \/ verdict = "passed") =>
          Carried = AskedFor \ skipped

(* Only the run's own build is anything but new, and it has a status at the end     *)
(* only; a run without its build, or with two, had a creation go wrong.             *)
OwnBuild ==
    /\ \A b \in 1 .. Len(builds) : b # buildId => builds[b] = NewBuild
    /\ buildId # 0 /\ builds[buildId].status # "none" =>
          /\ reporting /\ repPc = "end" /\ builds[buildId].status = result
    /\ ~reporting => Len(builds) = 0
    /\ Len(builds) > 1 \/ skipped # {} => uncreated
    /\ buildId = 0 /\ (Len(builds) > 0 \/ repPc = "artifact") => uncreated

(* What every step of a run and of the server keeps.                                *)
BuildKept == ReportData /\ Shape /\ BuildIsWhole /\ OwnBuild

LEMMA FlagsOfBuild == BuildFlags /\ [BuildNext]_buildVars => BuildFlags'
BY Zenon DEF BuildFlags, BuildNext, buildVars, MakeReporter, EnsureBuild, Ensures, Upload, SendArtifact, TestEnds,
   SetResult, UploadsDone, UploadLogs, NoLogs, Finalize, PostStatus, RunKilled

(* What the numbers of uploads and builds are.                                      *)
LEMMA OneMoreCounted ==
    ASSUME BuildKept
    PROVE  /\ uploads \in Nat /\ uploads <= MaxArtifacts /\ MaxArtifacts \in Nat
           /\ Len(builds) \in Nat /\ buildId \in Nat /\ buildId <= Len(builds)
           /\ builds \in Seq(BuildRecord) /\ skipped \in SUBSET (1 .. MaxArtifacts)
           /\ 1 .. (uploads - 1) \subseteq 1 .. uploads
           /\ uploads = 0 => 1 .. uploads = {}
           /\ Len(builds) = 0 => buildId = 0
<1>1. /\ uploads \in 0 .. MaxArtifacts /\ buildId \in 0 .. Len(builds) /\ builds \in Seq(BuildRecord)
      /\ skipped \in SUBSET (1 .. MaxArtifacts)
  BY Zenon DEF BuildKept, ReportData
<1>2. Len(builds) \in Nat
  BY <1>1, LenProperties
<1> QED BY <1>1, <1>2, BuildAssumption DEF BuildAssumption

(* A creation that is answered gives the run its build, and every other outcome is  *)
(* remembered.                                                                      *)
LEMMA EnsureBuildIs ==
    ASSUME BuildKept, NEW o \in Requests, EnsureBuild(o), buildId # 0 => o = "ok"
    PROVE  /\ builds' \in Seq(BuildRecord) /\ buildId' \in 0 .. Len(builds')
           /\ uncreated => uncreated'
           /\ buildId' = 0 => uncreated' /\ buildId = 0
           /\ buildId # 0 => buildId' = buildId /\ builds' = builds
           /\ buildId = 0 /\ buildId' # 0 => builds'[buildId'] = NewBuild
           /\ \A b \in 1 .. Len(builds') : b # buildId' => builds'[b] = NewBuild
           /\ Len(builds') > 1 => uncreated'
<1> USE BuildAssumption DEF BuildAssumption
<1>1. Len(builds) \in Nat /\ buildId \in 0 .. Len(builds) /\ builds \in Seq(BuildRecord)
  BY LenProperties DEF BuildKept, ReportData
<1>2. CASE buildId # 0
  BY <1>1, <1>2 DEF EnsureBuild, BuildKept, OwnBuild
<1>3. CASE buildId = 0 /\ o = "failed"
  <2>1. builds' = builds /\ buildId' = 0 /\ (uncreated' <=> TRUE)
    BY <1>3, Zenon DEF EnsureBuild
  <2> QED BY <1>1, <1>3, <2>1 DEF BuildKept, OwnBuild
<1>4. CASE buildId = 0 /\ o # "failed"
  <2>1. /\ builds' = Append(builds, NewBuild)
        /\ buildId' = IF o = "ok" THEN Len(builds) + 1 ELSE 0
    BY <1>4, Zenon DEF EnsureBuild
  <2>2. (uncreated => uncreated') /\ (o # "ok" => uncreated')
    BY <1>4, Zenon DEF EnsureBuild
  <2>3. NewBuild \in BuildRecord
    BY DEF NewBuild, BuildRecord
  <2>4. /\ builds' \in Seq(BuildRecord) /\ Len(builds') = Len(builds) + 1
        /\ \A b \in 1 .. Len(builds) : builds'[b] = builds[b]
        /\ builds'[Len(builds) + 1] = NewBuild
    BY <1>1, <2>1, <2>3, AppendProperties
  <2>5. \A b \in 1 .. Len(builds) : builds[b] = NewBuild
    BY <1>4 DEF BuildKept, OwnBuild
  <2>6. \A b \in 1 .. Len(builds') : b \in 1 .. Len(builds) \/ b = Len(builds) + 1
    BY <1>1, <2>4
  <2>7. Len(builds) > 0 => uncreated
    BY <1>4 DEF BuildKept, OwnBuild
  <2> QED BY <1>1, <1>4, <2>1, <2>2, <2>4, <2>5, <2>6, <2>7
<1> QED BY <1>2, <1>3, <1>4

(* A request about the run's build changes that one only.                           *)
LEMMA UpdateIs ==
    ASSUME builds \in Seq(BuildRecord), buildId \in 1 .. Len(builds), NEW r \in BuildRecord,
           builds' = [builds EXCEPT ![buildId] = r]
    PROVE  /\ builds' \in Seq(BuildRecord) /\ Len(builds') = Len(builds) /\ builds'[buildId] = r
           /\ \A b \in 1 .. Len(builds) : b # buildId => builds'[b] = builds[b]
<1>1. Len(builds) \in Nat /\ builds \in [1 .. Len(builds) -> BuildRecord] /\ DOMAIN builds = 1 .. Len(builds)
  BY LenProperties, SeqDef
<1>2. builds' \in [1 .. Len(builds) -> BuildRecord]
  BY <1>1
<1>3. builds' \in Seq(BuildRecord) /\ Len(builds') = Len(builds)
  BY <1>1, <1>2, SeqDef, LenProperties
<1> QED BY <1>1, <1>3

(* The steps that ask the server for nothing.                                       *)
LEMMA QuietSteps ==
    ASSUME BuildKept,
           \/ \E by \in {"pytest", "upload"}, live \in BOOLEAN : MakeReporter(by, live)
           \/ \E how \in {"passed", "failed", "setup failed", "not run"} : TestEnds(how)
           \/ SetResult \/ UploadsDone \/ NoLogs \/ RunKilled \/ UNCHANGED buildVars
    PROVE  BuildKept'
<1> USE BuildAssumption DEF BuildAssumption, BuildKept
<1>1. UNCHANGED <<builds, buildId, uploads, skipped, uncreated, statusPosts>>
  BY Zenon DEF MakeReporter, TestEnds, SetResult, UploadsDone, NoLogs, RunKilled, buildVars
<1>2. Len(builds) \in Nat
  BY LenProperties DEF ReportData
<1>3. ReportData'
  BY <1>1 DEF ReportData, MakeReporter, TestEnds, SetResult, UploadsDone, NoLogs, RunKilled, buildVars
<1>4. Carried' = Carried
  BY <1>1, Zenon DEF Carried
<1>12. repPc # "artifact" => AskedFor = 1 .. uploads
  BY DEF AskedFor
<1>13. repPc' # "artifact" => AskedFor' = 1 .. uploads
  BY <1>1 DEF AskedFor
<1>14. AskedFor \subseteq 1 .. uploads
  <2>1. 1 .. (uploads - 1) \subseteq 1 .. uploads
    BY OneMoreCounted, Zenon
  <2> QED BY <2>1, Zenon DEF AskedFor
<1>5. ASSUME NEW by \in {"pytest", "upload"}, NEW live \in BOOLEAN, MakeReporter(by, live)
      PROVE  BuildKept'
  <2>1. /\ repPc = "start" /\ program' = by /\ (reporting' <=> live) /\ UNCHANGED <<result, verdict>>
        /\ repPc' \in {"running", "end"} /\ (repPc' = "running" /\ by = "upload" => live)
        /\ (repPc' = "end" => ~live)
    BY <1>5, Zenon DEF MakeReporter
  <2>2. Len(builds) = 0 /\ uploads = 0
    BY <2>1 DEF Shape
  <2>3. 1 .. uploads = {} /\ buildId = 0 /\ skipped = {}
    <3>1. 1 .. uploads = {} /\ buildId = 0
      BY <2>2, OneMoreCounted, Zenon
    <3>2. skipped \subseteq 1 .. uploads
      BY <1>12, <2>1 DEF BuildIsWhole
    <3> QED BY <3>1, <3>2
  <2>4. Carried = {} /\ AskedFor' = {}
    BY <1>13, <2>1, <2>3 DEF Carried
  <2> QED BY <1>1, <1>3, <1>4, <2>1, <2>2, <2>3, <2>4 DEF Shape, BuildIsWhole, OwnBuild
<1>6. ASSUME UNCHANGED <<program, reporting>>, repPc \notin {"start", "end", "killed"},
             repPc' \notin {"start", "running", "artifact"},
             repPc = "artifact" => verdict' = "none",
             verdict' = "passed" => repPc = "running" \/ verdict = "passed", Shape'
      PROVE  BuildKept'
  <2>1. BuildIsWhole'
    BY <1>1, <1>4, <1>6, <1>12, <1>13, <1>14 DEF Shape, BuildIsWhole
  <2>2. OwnBuild'
    BY <1>1, <1>2, <1>6 DEF OwnBuild
  <2> QED BY <1>3, <1>6, <2>1, <2>2
<1>7. CASE SetResult
  <2>1. /\ repPc = "teardown" /\ UNCHANGED <<program, reporting, verdict>>
        /\ result' \in {"passed", "failed"} /\ (result' = "passed" => verdict = "passed")
        /\ repPc' \in {"log", "end"} /\ (repPc' = "log" => reporting)
    BY <1>7, Zenon DEF SetResult
  <2>2. Shape'
    BY <1>1, <2>1 DEF Shape
  <2> QED BY <1>6, <2>1, <2>2
<1>8. CASE \E how \in {"passed", "failed", "setup failed", "not run"} : TestEnds(how)
  <2>1. /\ repPc = "running" /\ repPc' = "teardown" /\ UNCHANGED <<program, reporting, result>>
    BY <1>8, Zenon DEF TestEnds
  <2>2. Shape'
    BY <1>1, <2>1 DEF Shape
  <2> QED BY <1>6, <2>1, <2>2
<1>9. CASE UploadsDone
  <2>1. /\ repPc = "running" /\ repPc' = "finalize" /\ verdict' = "passed" /\ program = "upload"
        /\ UNCHANGED <<program, reporting>>
    BY <1>9, Zenon DEF UploadsDone
  <2>2. Shape'
    BY <1>1, <2>1 DEF Shape
  <2> QED BY <1>6, <2>1, <2>2
<1>10. CASE NoLogs
  <2>1. /\ repPc = "log" /\ repPc' = "finalize" /\ UNCHANGED <<program, reporting, result, verdict>>
    BY <1>10, Zenon DEF NoLogs
  <2>2. Shape'
    BY <1>1, <2>1 DEF Shape
  <2> QED BY <1>6, <2>1, <2>2
<1>11. CASE RunKilled
  <2>1. /\ repPc \notin {"start", "end"} /\ repPc' = "killed" /\ UNCHANGED <<program, reporting, result, verdict>>
    BY <1>11, Zenon DEF RunKilled
  <2>2. Shape' /\ (repPc = "artifact" => verdict = "none")
    BY <1>1, <2>1 DEF Shape
  <2>3. CASE repPc = "killed"
    BY <1>1, <1>3, <1>4, <2>1, <2>2, <2>3 DEF BuildIsWhole, OwnBuild, AskedFor
  <2> QED BY <1>6, <2>1, <2>2, <2>3
<1>15. CASE UNCHANGED buildVars
  <2>1. UNCHANGED <<program, reporting, result, verdict, repPc>>
    BY <1>15, Zenon DEF buildVars
  <2> QED BY <1>1, <1>3, <1>4, <2>1 DEF Shape, BuildIsWhole, OwnBuild, AskedFor
<1> QED BY <1>5, <1>7, <1>8, <1>9, <1>10, <1>11, <1>15

(* A call that needs the build.                                                     *)
LEMMA EnsuringSteps ==
    ASSUME BuildKept, NEW o \in Requests, Upload(o) \/ UploadLogs(o) \/ Finalize(o)
    PROVE  BuildKept'
<1> USE BuildAssumption DEF BuildAssumption, BuildKept
<1>1. Len(builds) \in Nat
  BY LenProperties DEF ReportData
<1>2. CASE Upload(o) /\ ~reporting
  <2>1. /\ repPc = "running" /\ uploads < MaxArtifacts /\ uploads' = uploads + 1
        /\ UNCHANGED <<program, reporting, builds, buildId, result, verdict, skipped, uncreated, statusPosts, repPc>>
    BY <1>2, Zenon DEF Upload
  <2>2. AskedFor = 1 .. uploads /\ AskedFor' = 1 .. (uploads + 1) /\ uploads \in Nat
    BY <2>1, OneMoreCounted DEF AskedFor
  <2>3. skipped' \subseteq AskedFor'
    BY <2>1, <2>2 DEF BuildIsWhole
  <2> QED BY <1>1, <1>2, <2>1, <2>3 DEF ReportData, Shape, BuildIsWhole, OwnBuild
<1>3. CASE reporting /\ (Upload(o) \/ UploadLogs(o) \/ Finalize(o))
  <2>1. /\ EnsureBuild(o) /\ (buildId # 0 => o = "ok")
        /\ UNCHANGED <<program, reporting, result, verdict, skipped, statusPosts>>
        /\ \/ repPc = "running" /\ repPc' = "artifact" /\ uploads' = uploads + 1 /\ uploads < MaxArtifacts
           \/ repPc = "log" /\ repPc' = "finalize" /\ uploads' = uploads
           \/ repPc = "finalize" /\ repPc' = "status" /\ uploads' = uploads
    BY <1>3, Zenon DEF Upload, UploadLogs, Finalize, Ensures
  <2>2. /\ builds' \in Seq(BuildRecord) /\ buildId' \in 0 .. Len(builds')
        /\ (uncreated => uncreated') /\ (Len(builds') > 1 => uncreated')
        /\ (buildId' = 0 => uncreated' /\ buildId = 0)
        /\ (buildId # 0 => buildId' = buildId /\ builds' = builds)
        /\ (buildId = 0 /\ buildId' # 0 => builds'[buildId'] = NewBuild)
        /\ \A b \in 1 .. Len(builds') : b # buildId' => builds'[b] = NewBuild
    BY <2>1, EnsureBuildIs
  <2>3. ReportData'
    <3>1. uploads' \in 0 .. MaxArtifacts
      BY <2>1, OneMoreCounted
    <3> QED BY <2>1, <2>2, <3>1 DEF ReportData
  <2>4. Shape'
    BY <1>3, <2>1 DEF Shape
  <2>5. NewBuild.artifacts = {} /\ NewBuild.status = "none"
    BY DEF NewBuild
  <2>6. Carried' = Carried
    <3>1. CASE buildId # 0
      BY <2>2, <3>1 DEF Carried
    <3>2. CASE buildId = 0
      BY <2>2, <2>5, <3>2 DEF Carried
    <3> QED BY <3>1, <3>2
  <2>11. uploads \in Nat
    BY OneMoreCounted
  <2>7. AskedFor' = AskedFor
    BY <2>1, <2>11 DEF AskedFor
  <2>8. uploads' # 0 \/ repPc' # "artifact"
    BY <2>1, <2>11
  <2>9. BuildIsWhole'
    BY <1>3, <2>1, <2>6, <2>7, <2>8 DEF BuildIsWhole
  <2>10. OwnBuild'
    <3>1. buildId' # 0 => builds'[buildId'].status = "none"
      BY <2>1, <2>2, <2>5 DEF OwnBuild
    <3>2. skipped # {} => uncreated'
      BY <2>2 DEF OwnBuild
    <3> QED BY <1>3, <2>1, <2>2, <3>1, <3>2 DEF OwnBuild
  <2> QED BY <2>3, <2>4, <2>9, <2>10
<1>4. ~reporting => Upload(o)
  BY DEF UploadLogs, Finalize, Shape
<1> QED BY <1>2, <1>3, <1>4

(* An artifact goes into the run's build, or is skipped for want of one.            *)
LEMMA SendArtifactKeeps ==
    ASSUME BuildKept, NEW o \in Requests, SendArtifact(o)
    PROVE  BuildKept'
<1> USE BuildAssumption DEF BuildAssumption, BuildKept
<1>1. Len(builds) \in Nat /\ uploads \in 0 .. MaxArtifacts /\ uploads # 0 /\ repPc = "artifact" /\ reporting
  BY LenProperties DEF ReportData, SendArtifact, BuildIsWhole, Shape
<1>2. UNCHANGED <<program, reporting, buildId, result, uploads, uncreated, statusPosts>>
  BY Zenon DEF SendArtifact
<1>3. AskedFor = 1 .. (uploads - 1) /\ uploads \notin AskedFor /\ 1 .. uploads = AskedFor \cup {uploads}
  BY <1>1 DEF AskedFor
<1>4. skipped \subseteq AskedFor /\ Carried = AskedFor \ skipped /\ verdict = "none"
  BY <1>1 DEF BuildIsWhole, Shape
<1>5. CASE buildId = 0
  <2>1. skipped' = skipped \cup {uploads} /\ repPc' = "running" /\ UNCHANGED <<builds, verdict>>
    BY <1>5, Zenon DEF SendArtifact
  <2>2. AskedFor' = 1 .. uploads
    BY <1>2, <2>1 DEF AskedFor
  <2>3. uncreated
    BY <1>1, <1>5 DEF OwnBuild
  <2>4. Carried' = {} /\ Carried = {}
    BY <1>2, <1>5 DEF Carried
  <2>5. BuildIsWhole'
    BY <1>3, <1>4, <2>1, <2>2, <2>4 DEF BuildIsWhole
  <2> QED BY <1>1, <1>2, <1>5, <2>1, <2>3, <2>5 DEF ReportData, Shape, OwnBuild
<1>6. CASE buildId # 0
  <2> DEFINE r == [builds[buildId] EXCEPT !.artifacts = @ \cup {uploads}]
  <2>1. /\ builds' = IF o = "failed" THEN builds ELSE [builds EXCEPT ![buildId].artifacts = @ \cup {uploads}]
        /\ skipped' = skipped
        /\ (o = "ok" => repPc' = "running" /\ verdict' = verdict)
        /\ (o # "ok" => verdict' = "failed" /\ repPc' \in {"teardown", "end"})
    BY <1>6, Zenon DEF SendArtifact
  <2>2. buildId \in 1 .. Len(builds) /\ builds \in Seq(BuildRecord)
    BY <1>6, OneMoreCounted
  <2>3. builds[buildId] \in BuildRecord /\ uploads \in 1 .. MaxArtifacts
    BY <1>1, <2>2, ElementOfSeq
  <2>4. /\ r \in BuildRecord /\ r.artifacts = builds[buildId].artifacts \cup {uploads}
        /\ r.status = builds[buildId].status
    BY <2>3 DEF BuildRecord
  <2>5. o # "failed" => builds' = [builds EXCEPT ![buildId] = r]
    BY <2>1, Zenon
  <2> HIDE DEF r
  <2>6. /\ builds' \in Seq(BuildRecord) /\ Len(builds') = Len(builds)
        /\ \A b \in 1 .. Len(builds) : b # buildId => builds'[b] = builds[b]
        /\ builds'[buildId].status = builds[buildId].status
        /\ o # "failed" => builds'[buildId].artifacts = builds[buildId].artifacts \cup {uploads}
    <3>1. CASE o = "failed"
      BY <2>1, <2>2, <3>1
    <3>2. CASE o # "failed"
      BY <2>2, <2>4, <2>5, <3>2, UpdateIs
    <3> QED BY <3>1, <3>2
  <2>7. ReportData' /\ Shape'
    <3>1. result = "none"
      BY <1>1 DEF Shape
    <3> QED BY <1>1, <1>2, <2>1, <2>6, <3>1 DEF ReportData, Shape
  <2>8. BuildIsWhole'
    <3>1. AskedFor' = 1 .. uploads
      BY <1>2, <2>1 DEF AskedFor
    <3>2. CASE o = "ok"
      <4>1. Carried' = Carried \cup {uploads}
        BY <1>2, <1>6, <2>6, <3>2 DEF Carried
      <4>2. (1 .. uploads) \ skipped = Carried \cup {uploads}
        BY <1>3, <1>4
      <4> QED BY <1>2, <1>3, <1>4, <2>1, <3>1, <3>2, <4>1, <4>2 DEF BuildIsWhole
    <3>3. CASE o # "ok"
      BY <1>3, <1>4, <2>1, <3>1, <3>3 DEF BuildIsWhole
    <3> QED BY <3>2, <3>3
  <2>9. OwnBuild'
    <3>1. builds[buildId].status = "none"
      BY <1>1, <1>6 DEF OwnBuild
    <3> QED BY <1>1, <1>2, <1>6, <2>1, <2>6, <3>1 DEF OwnBuild
  <2> QED BY <2>7, <2>8, <2>9
<1> QED BY <1>5, <1>6

LEMMA PostStatusKeeps ==
    ASSUME BuildKept, NEW o \in Requests, PostStatus(o)
    PROVE  BuildKept'
<1> USE BuildAssumption DEF BuildAssumption, BuildKept
<1>1. Len(builds) \in Nat /\ repPc = "status" /\ reporting /\ statusPosts = 0 /\ repPc' = "end"
  BY LenProperties DEF ReportData, PostStatus, Shape
<1>2. UNCHANGED <<program, reporting, buildId, result, verdict, uploads, skipped, uncreated>>
  BY Zenon DEF PostStatus
<1>3. AskedFor' = AskedFor
  BY <1>1, <1>2 DEF AskedFor
<1>4. CASE buildId = 0
  <2>1. UNCHANGED <<builds, statusPosts>>
    BY <1>4, Zenon DEF PostStatus
  <2>2. Carried' = Carried
    BY <1>2, <2>1 DEF Carried
  <2> QED BY <1>1, <1>2, <1>3, <1>4, <2>1, <2>2 DEF ReportData, Shape, BuildIsWhole, OwnBuild
<1>5. CASE buildId # 0
  <2> DEFINE r == [builds[buildId] EXCEPT !.status = result]
  <2>1. /\ builds' = IF o = "failed" THEN builds ELSE [builds EXCEPT ![buildId].status = result]
        /\ statusPosts' = statusPosts + 1
    BY <1>5, Zenon DEF PostStatus
  <2>2. buildId \in 1 .. Len(builds) /\ builds \in Seq(BuildRecord)
    BY <1>5, OneMoreCounted
  <2>3. builds[buildId] \in BuildRecord
    BY <2>2, ElementOfSeq
  <2>4. r \in BuildRecord /\ r.artifacts = builds[buildId].artifacts /\ r.status = result
    BY <2>3 DEF BuildRecord, ReportData
  <2>5. o # "failed" => builds' = [builds EXCEPT ![buildId] = r]
    BY <2>1, Zenon
  <2> HIDE DEF r
  <2>6. /\ builds' \in Seq(BuildRecord) /\ Len(builds') = Len(builds)
        /\ \A b \in 1 .. Len(builds) : b # buildId => builds'[b] = builds[b]
        /\ builds'[buildId].status \in {builds[buildId].status, result}
        /\ builds'[buildId].artifacts = builds[buildId].artifacts
    <3>1. CASE o = "failed"
      BY <2>1, <2>2, <3>1
    <3>2. CASE o # "failed"
      BY <2>2, <2>4, <2>5, <3>2, UpdateIs
    <3> QED BY <3>1, <3>2
  <2>7. ReportData' /\ Shape'
    <3>1. statusPosts' \in 0 .. 1
      BY <1>1, <2>1
    <3>2. ReportData'
      BY <1>1, <1>2, <2>6, <3>1 DEF ReportData
    <3>3. Shape'
      BY <1>1, <1>2 DEF Shape
    <3> QED BY <3>2, <3>3
  <2>8. Carried' = Carried
    BY <1>2, <1>5, <2>6 DEF Carried
  <2>9. BuildIsWhole'
    BY <1>1, <1>2, <1>3, <2>8 DEF BuildIsWhole
  <2>10. OwnBuild'
    <3>1. builds[buildId].status = "none"
      BY <1>1, <1>5 DEF OwnBuild
    <3> QED BY <1>1, <1>2, <1>5, <2>6, <3>1 DEF OwnBuild
  <2> QED BY <2>7, <2>9, <2>10
<1> QED BY <1>4, <1>5

-----------------------------------------------------------------------------
LEMMA BuildStarts ==
    ASSUME BuildInit
    PROVE  BuildFlags /\ BuildKept
<1> USE BuildAssumption DEF BuildAssumption, BuildInit
<1>1. Len(builds) = 0 /\ builds \in Seq(BuildRecord) /\ 1 .. uploads = {}
  BY EmptySeq
<1>2. BuildFlags
  BY Zenon DEF BuildFlags
<1> QED BY <1>1, <1>2 DEF BuildKept, ReportData, Shape, BuildIsWhole, AskedFor, Carried, OwnBuild

LEMMA BuildStep ==
    ASSUME BuildKept, BuildNext \/ UNCHANGED buildVars
    PROVE  BuildKept'
BY QuietSteps, EnsuringSteps, SendArtifactKeeps, PostStatusKeeps DEF BuildNext

LEMMA BuildKeptIsSafe ==
    ASSUME BuildFlags, BuildKept
    PROVE  BuildInv
<1> USE BuildAssumption DEF BuildAssumption, BuildKept
<1>1. DOMAIN builds = 1 .. Len(builds) /\ Len(builds) \in Nat /\ NewBuild.status = "none"
  BY LenProperties DEF ReportData, NewBuild
<1>2. BuildTypeOK
  BY Zenon DEF BuildTypeOK, BuildFlags, ReportData, BuildRecord
<1>3. ASSUME NEW b \in 1 .. Len(builds), builds[b].status # "none"
      PROVE  b = buildId /\ reporting /\ repPc = "end" /\ builds[b].status = result
  BY <1>1, <1>3 DEF OwnBuild
<1>4. PassedBuildIsWhole
  <2> SUFFICES ASSUME NEW b \in 1 .. Len(builds), builds[b].status = "passed"
               PROVE  verdict = "passed" /\ (1 .. uploads) \ skipped = builds[b].artifacts
    BY <1>1 DEF PassedBuildIsWhole
  <2>1. b = buildId /\ reporting /\ repPc = "end" /\ result = "passed" /\ b # 0
    BY <1>1, <1>3
  <2>2. verdict = "passed"
    BY <2>1 DEF Shape
  <2> QED BY <2>1, <2>2 DEF BuildIsWhole, AskedFor, Carried
<1>5. OneBuildOfRun
  BY <1>1, <1>3 DEF OneBuildOfRun, OwnBuild
<1> QED BY <1>2, <1>4, <1>5 DEF BuildInv

(* A build that says the run passed is about a run that passed, with every        *)
(* artifact asked for but those skipped for want of a build, and a run shows as   *)
(* one build unless a creation or its answer was lost: for any number of          *)
(* artifacts and whatever request fails (ci.py).                                  *)
THEOREM PassedBuildsAreWhole == BuildSpec => []BuildInv
<1>1. BuildInit => BuildFlags /\ BuildKept
  BY BuildStarts
<1>2. BuildFlags /\ [BuildNext]_buildVars => BuildFlags'
  BY FlagsOfBuild
<1>3. BuildKept /\ [BuildNext]_buildVars => BuildKept'
  BY BuildStep
<1>4. BuildFlags /\ BuildKept => BuildInv
  BY BuildKeptIsSafe
<1> QED BY <1>1, <1>2, <1>3, <1>4, PTL DEF BuildSpec

-----------------------------------------------------------------------------
(* The CAN session: any number of frames, any ring and any pull. *)

USE CanAssumption

(* The oldest frames of a buffer come before all the others. *)
LEMMA OldestComeFirst ==
    ASSUME NEW b \in SUBSET Frames, NEW n \in Nat,
           NEW f \in Oldest(b, n), NEW g \in b \ Oldest(b, n)
    PROVE  f < g
<1> DEFINE olderThan(x) == {h \in b : h < x}
<1>1. f \in Int /\ g \in Int /\ f \in b
  BY DEF Frames, Oldest
<1>2. IsFiniteSet(b)
  <2>1. IsFiniteSet(Frames)
    BY FS_Interval, SMT DEF Frames, CanAssumption
  <2> QED BY <2>1, FS_Subset
<1>3. IsFiniteSet(olderThan(f)) /\ IsFiniteSet(olderThan(g))
  BY <1>2, FS_Subset
<1>4. Cardinality(olderThan(f)) < n /\ ~(Cardinality(olderThan(g)) < n)
  BY DEF Oldest
<1>5. f # g
  BY <1>4
<1>6. ASSUME g < f PROVE FALSE
  <2>1. olderThan(g) \subseteq olderThan(f)
    <3>1. \A h \in b : h \in Int
      BY DEF Frames
    <3>2. \A h \in b : h < g => h < f
      BY <1>1, <1>6, <3>1
    <3> QED BY <3>2
  <2>2. Cardinality(olderThan(g)) <= Cardinality(olderThan(f))
    BY <2>1, <1>3, FS_Subset
  <2>3. Cardinality(olderThan(g)) \in Nat /\ Cardinality(olderThan(f)) \in Nat
    BY <1>3, FS_CardinalityType
  <2> QED BY <2>2, <2>3, <1>4
<1> QED BY <1>1, <1>5, <1>6

(* What is put to one fate is lost. *)
LEMMA LostGrows ==
    ASSUME gone \in [Fates -> SUBSET Frames], NEW w \in Fates, NEW X,
           gone' = [gone EXCEPT ![w] = @ \cup X]
    PROVE  Lost' = Lost \cup X
<1>1. ASSUME NEW v \in Fates PROVE gone'[v] = IF v = w THEN gone[w] \cup X ELSE gone[v]
  OBVIOUS
<1>2. ASSUME NEW f PROVE f \in Lost' <=> f \in Lost \cup X
  BY <1>1 DEF Lost
<1> QED BY <1>2

(* Of what a pull drains, and of the buffer it goes to, the oldest can be taken:  *)
(* they come before what stays, and what stays is in order.                       *)
LEMMA PullKeepsOrder ==
    ASSUME CanTypeOK, FramesAccounted, NoOvertaking, NEW n \in Nat
    PROVE  LET first == Oldest(pending \cup Drained, n)
               buffer == pending \cup Drained
           IN  /\ first \subseteq buffer /\ Drained \subseteq ring
               /\ \A p \in buffer, r \in ring \ Drained : p < r
               /\ \A f \in first, older \in (buffer \ first) \cup (ring \ Drained) : ~(older < f)
<1> DEFINE buffer == pending \cup Drained
           first == Oldest(buffer, n)
<1>1. Drained \subseteq ring /\ ring \subseteq Frames /\ pending \subseteq Frames /\ first \subseteq buffer
  BY DEF Drained, Oldest, CanTypeOK
<1>2. \A f \in Frames : f \in Int
  BY DEF Frames
<1>3. \A p \in Drained, r \in ring \ Drained : p < r
  BY <1>1, OldestComeFirst DEF Drained
<1>4. \A p \in buffer, r \in ring \ Drained : p < r
  BY <1>3 DEF NoOvertaking
<1>5. \A f \in first, g \in buffer \ first : f < g
  BY <1>1, OldestComeFirst
<1>6. \A f \in first, older \in (buffer \ first) \cup (ring \ Drained) : ~(older < f)
  BY <1>1, <1>2, <1>4, <1>5
<1> QED BY <1>1, <1>4, <1>6

LEMMA CanStarts == CanInit => CanInv
<1> SUFFICES ASSUME CanInit PROVE CanInv
  OBVIOUS
<1>1. CanTypeOK
  <2>1. arrived \in 0 .. MaxArrived /\ rules \in 0 .. MaxRules
    BY DEF CanInit, CanAssumption
  <2>2. gone \in [Fates -> SUBSET Frames]
    BY DEF CanInit
  <2>3. canCall \in [filter : BOOLEAN, max : Nat]
    BY DEF CanInit
  <2> QED BY <2>1, <2>2, <2>3, Zenon DEF CanInit, CanTypeOK
<1>2. Lost = {}
  BY DEF CanInit, Lost
<1> QED BY <1>1, <1>2 DEF CanInit, CanInv, FramesAccounted, NoOvertaking, RulesGoWithBus

(* Frames arrive, and calls of can_read, can_read_until and collect move them. *)
LEMMA ArriveHolds == ASSUME CanInv, Arrive PROVE CanInv'
<1> USE DEF CanInv, PodSide
<1>1. CanTypeOK'
  <2>1. arrived' \in 0 .. MaxArrived /\ arrived + 1 \in Frames
    <3>1. arrived \in 0 .. MaxArrived /\ arrived < MaxArrived /\ arrived' = arrived + 1
      BY DEF Arrive, CanTypeOK
    <3> QED BY <3>1 DEF Frames, CanAssumption
  <2>2. ring' \in SUBSET Frames
    BY <2>1 DEF Arrive, CanTypeOK
  <2>3. gone' \in [Fates -> SUBSET Frames]
    <3>1. {arrived + 1} \in SUBSET Frames
      BY <2>1
    <3>2. CASE gone' = [gone EXCEPT !["ring full"] = @ \cup {arrived + 1}]
      BY <3>1, <3>2 DEF CanTypeOK, Fates
    <3>3. CASE gone' = gone
      BY <3>3 DEF CanTypeOK
    <3> QED BY <3>2, <3>3 DEF Arrive
  <2> QED BY <2>1, <2>2, <2>3, Zenon DEF Arrive, CanTypeOK
<1>2. arrived \in Nat /\ arrived' = arrived + 1 /\ 1 .. arrived' = (1 .. arrived) \cup {arrived + 1}
      /\ arrived + 1 \notin 1 .. arrived
  <2>1. arrived \in 0 .. MaxArrived /\ arrived' = arrived + 1
    BY DEF Arrive, CanTypeOK
  <2> QED BY <2>1 DEF CanAssumption
<1>3. \/ ring' = ring \cup {arrived + 1} /\ Lost' = Lost
      \/ ring' = ring /\ Lost' = Lost \cup {arrived + 1}
  <2>1. CASE gone' = gone /\ ring' = ring \cup {arrived + 1}
    BY <2>1 DEF Lost
  <2>2. CASE gone' = [gone EXCEPT !["ring full"] = @ \cup {arrived + 1}] /\ ring' = ring
    BY <2>2, LostGrows DEF CanTypeOK, Fates
  <2> QED BY <2>1, <2>2 DEF Arrive
<1>4. pending' = pending /\ out' = out /\ returned' = returned
  BY DEF Arrive
<1>5. FramesAccounted'
  BY <1>2, <1>3, <1>4 DEF FramesAccounted
<1>6. NoOvertaking'
  <2>1. \A f \in pending \cup out \cup returned : f \in 1 .. arrived
    BY DEF FramesAccounted
  <2>2. \A r \in ring' : r \in ring \/ r = arrived + 1
    BY <1>3
  <2> QED BY <1>2, <1>4, <2>1, <2>2 DEF NoOvertaking
<1>7. RulesGoWithBus'
  BY DEF Arrive, RulesGoWithBus
<1> QED BY <1>1, <1>5, <1>6, <1>7

LEMMA ReadHolds == ASSUME CanInv, Read PROVE CanInv'
<1> DEFINE first == Oldest(pending \cup Drained, canCall.max)
<1> USE DEF CanInv, PodSide
<1>1. canCall.max \in Nat
  BY DEF CanTypeOK
<1>2. /\ first \subseteq pending \cup Drained /\ Drained \subseteq ring
      /\ \A p \in pending \cup Drained, r \in ring \ Drained : p < r
      /\ \A f \in first, older \in ((pending \cup Drained) \ first) \cup (ring \ Drained) : ~(older < f)
  BY <1>1, PullKeepsOrder
<1>3. /\ ring' = ring \ Drained /\ pending' = (pending \cup Drained) \ first
      /\ returned' = returned \cup first /\ canPc' = "open"
      /\ arrived' = arrived /\ out' = out /\ gone' = gone /\ canCall' = canCall
      /\ fdcan' = fdcan /\ rules' = rules /\ leaked' = leaked
  BY DEF Read, Pull
<1> HIDE DEF first
<1>4. CanTypeOK'
  <2>1. ring' \in SUBSET Frames /\ pending' \in SUBSET Frames /\ returned' \in SUBSET Frames
    BY <1>2, <1>3 DEF CanTypeOK
  <2> QED BY <2>1, <1>3, Zenon DEF CanTypeOK
<1>5. FramesAccounted'
  <2>1. Lost' = Lost
    BY <1>3 DEF Lost
  <2> QED BY <1>2, <1>3, <2>1 DEF FramesAccounted
<1>6. NoOvertaking'
  BY <1>2, <1>3 DEF NoOvertaking
<1>7. RulesGoWithBus'
  BY <1>3 DEF RulesGoWithBus, Shut
<1> QED BY <1>4, <1>5, <1>6, <1>7

LEMMA MatchHolds == ASSUME CanInv, Match PROVE CanInv'
<1> DEFINE match == Oldest(pending \cap Wanted, 1)
<1> USE DEF CanInv, PodSide
<1>1. match \subseteq pending /\ match \subseteq Wanted
  BY DEF Oldest
<1>2. /\ pending' = pending \ match /\ returned' = returned \cup match /\ canPc' = "open"
      /\ arrived' = arrived /\ ring' = ring /\ out' = out /\ gone' = gone /\ canCall' = canCall
      /\ fdcan' = fdcan /\ rules' = rules /\ leaked' = leaked
  BY DEF Match
<1> HIDE DEF match
<1>3. CanTypeOK'
  <2>1. pending' \in SUBSET Frames /\ returned' \in SUBSET Frames
    BY <1>1, <1>2 DEF CanTypeOK
  <2> QED BY <2>1, <1>2, Zenon DEF CanTypeOK
<1>4. FramesAccounted'
  <2>1. Lost' = Lost
    BY <1>2 DEF Lost
  <2> QED BY <1>1, <1>2, <2>1 DEF FramesAccounted
<1>5. NoOvertaking'
  BY <1>1, <1>2 DEF NoOvertaking
<1>6. RulesGoWithBus'
  BY <1>2 DEF RulesGoWithBus, Shut
<1> QED BY <1>3, <1>4, <1>5, <1>6

LEMMA PullAgainHolds == ASSUME CanInv, PullAgain PROVE CanInv'
<1> USE DEF CanInv, PodSide
<1>1. /\ Drained \subseteq ring
      /\ \A p \in pending \cup Drained, r \in ring \ Drained : p < r
  BY PullKeepsOrder
<1>2. /\ ring' = ring \ Drained /\ pending' = pending \cup Drained /\ canPc' = canPc
      /\ arrived' = arrived /\ out' = out /\ returned' = returned /\ gone' = gone
      /\ canCall' = canCall /\ fdcan' = fdcan /\ rules' = rules /\ leaked' = leaked
  BY DEF PullAgain, Pull
<1>3. CanTypeOK'
  <2>1. ring' \in SUBSET Frames /\ pending' \in SUBSET Frames
    BY <1>1, <1>2 DEF CanTypeOK
  <2> QED BY <2>1, <1>2, Zenon DEF CanTypeOK
<1>4. FramesAccounted'
  <2>1. Lost' = Lost
    BY <1>2 DEF Lost
  <2> QED BY <1>1, <1>2, <2>1 DEF FramesAccounted
<1>5. NoOvertaking'
  <2>1. pending' \cup ring' = pending \cup ring
    BY <1>1, <1>2
  <2> QED BY <1>1, <1>2, <2>1 DEF NoOvertaking
<1>6. RulesGoWithBus'
  BY <1>2 DEF RulesGoWithBus
<1> QED BY <1>3, <1>4, <1>5, <1>6

LEMMA GatherHolds == ASSUME CanInv, Gather PROVE CanInv'
<1> DEFINE first == Oldest(pending \cup Drained, PullMax)
           kept == IF canCall.filter THEN first \cap Wanted ELSE first
<1> USE DEF CanInv, PodSide
<1>1. /\ first \subseteq pending \cup Drained /\ Drained \subseteq ring
      /\ \A p \in pending \cup Drained, r \in ring \ Drained : p < r
      /\ \A f \in first, older \in ((pending \cup Drained) \ first) \cup (ring \ Drained) : ~(older < f)
  BY PullKeepsOrder
<1>2. kept \subseteq first
  OBVIOUS
<1>3. /\ ring' = ring \ Drained /\ pending' = (pending \cup Drained) \ first
      /\ out' = out \cup kept /\ gone' = [gone EXCEPT !["filtered"] = @ \cup (first \ kept)]
      /\ arrived' = arrived /\ returned' = returned /\ canPc' = canPc /\ canCall' = canCall
      /\ fdcan' = fdcan /\ rules' = rules /\ leaked' = leaked
  BY DEF Gather, Pull
<1> HIDE DEF first, kept
<1>4. CanTypeOK'
  <2>1. ring' \in SUBSET Frames /\ pending' \in SUBSET Frames /\ out' \in SUBSET Frames
    BY <1>1, <1>2, <1>3 DEF CanTypeOK
  <2>2. gone' \in [Fates -> SUBSET Frames]
    <3>1. first \ kept \in SUBSET Frames
      BY <1>1 DEF CanTypeOK
    <3> QED BY <3>1, <1>3 DEF CanTypeOK, Fates
  <2> QED BY <2>1, <2>2, <1>3, Zenon DEF CanTypeOK
<1>5. FramesAccounted'
  <2>1. Lost' = Lost \cup (first \ kept)
    BY <1>3, LostGrows DEF CanTypeOK, Fates
  <2> QED BY <1>1, <1>2, <1>3, <2>1 DEF FramesAccounted
<1>6. NoOvertaking'
  BY <1>1, <1>2, <1>3 DEF NoOvertaking
<1>7. RulesGoWithBus'
  BY <1>3 DEF RulesGoWithBus
<1> QED BY <1>4, <1>5, <1>6, <1>7

LEMMA CollectedHolds == ASSUME CanInv, Collected PROVE CanInv'
<1> DEFINE shown == Oldest(out, canCall.max)
<1> USE DEF CanInv, PodSide
<1>1. shown \subseteq out
  BY DEF Oldest
<1>2. /\ returned' = returned \cup shown /\ out' = {} /\ canPc' = "open"
      /\ gone' = [gone EXCEPT !["over max_frames"] = @ \cup (out \ shown)]
      /\ arrived' = arrived /\ ring' = ring /\ pending' = pending /\ canCall' = canCall
      /\ fdcan' = fdcan /\ rules' = rules /\ leaked' = leaked
  BY DEF Collected
<1> HIDE DEF shown
<1>3. CanTypeOK'
  <2>1. returned' \in SUBSET Frames /\ out' \in SUBSET Frames
    BY <1>1, <1>2 DEF CanTypeOK
  <2>2. gone' \in [Fates -> SUBSET Frames]
    <3>1. out \ shown \in SUBSET Frames
      BY DEF CanTypeOK
    <3> QED BY <3>1, <1>2 DEF CanTypeOK, Fates
  <2> QED BY <2>1, <2>2, <1>2, Zenon DEF CanTypeOK
<1>4. FramesAccounted'
  <2>1. Lost' = Lost \cup (out \ shown)
    BY <1>2, LostGrows DEF CanTypeOK, Fates
  <2> QED BY <1>1, <1>2, <2>1 DEF FramesAccounted
<1>5. NoOvertaking'
  BY <1>1, <1>2 DEF NoOvertaking
<1>6. RulesGoWithBus'
  BY <1>2 DEF RulesGoWithBus, Shut
<1> QED BY <1>3, <1>4, <1>5, <1>6

(* A call that raises loses what the pod drained for it and what collect() had. *)
LEMMA PullRaisesHolds ==
    ASSUME CanInv, NEW o \in Outcomes, PullRaises(o)
    PROVE  CanInv'
<1> DEFINE drained == ring \ ring'
<1> USE DEF CanInv, PodSide
<1>1. /\ ring' \subseteq ring /\ out' = {} /\ canPc' = "open"
      /\ gone' = [gone EXCEPT !["reply lost"] = @ \cup drained, !["raised"] = @ \cup out]
      /\ arrived' = arrived /\ pending' = pending /\ returned' = returned /\ canCall' = canCall
      /\ fdcan' = fdcan /\ rules' = rules /\ leaked' = leaked
  BY DEF PullRaises
<1> HIDE DEF drained
<1>2. CanTypeOK'
  <2>1. ring' \in SUBSET Frames /\ out' \in SUBSET Frames /\ drained \in SUBSET Frames
    BY <1>1 DEF CanTypeOK, drained
  <2>2. gone' \in [Fates -> SUBSET Frames]
    BY <2>1, <1>1 DEF CanTypeOK, Fates
  <2> QED BY <2>1, <2>2, <1>1, Zenon DEF CanTypeOK
<1>3. FramesAccounted'
  <2>1. ASSUME NEW w \in Fates
        PROVE  gone'[w] = IF w = "reply lost" THEN gone[w] \cup drained
                          ELSE IF w = "raised" THEN gone[w] \cup out ELSE gone[w]
    BY <1>1 DEF CanTypeOK
  <2>2. "reply lost" \in Fates /\ "raised" \in Fates
    BY DEF Fates
  <2>3. ASSUME NEW f PROVE f \in Lost' <=> f \in Lost \/ f \in drained \/ f \in out
    BY <2>1, <2>2 DEF Lost
  <2>4. Lost' = Lost \cup drained \cup out
    BY <2>3
  <2> QED BY <1>1, <2>4 DEF FramesAccounted, drained
<1>4. NoOvertaking'
  BY <1>1 DEF NoOvertaking
<1>5. RulesGoWithBus'
  BY <1>1 DEF RulesGoWithBus, Shut
<1> QED BY <1>2, <1>3, <1>4, <1>5

(* Steps that touch neither the frames nor the pod. *)
LEMMA CallsHold ==
    ASSUME CanInv, UNCHANGED <<Buffers, PodSide>>,
           canCall' \in [filter : BOOLEAN, max : Nat],
           canPc' \in {"open", "read", "until", "collect", "config", "clear", "reclear"},
           canPc' \in Shut => canPc \in Shut
    PROVE  CanInv'
<1> USE DEF CanInv, Buffers, PodSide
<1>1. CanTypeOK'
  BY Zenon DEF CanTypeOK
<1>2. FramesAccounted' /\ NoOvertaking'
  BY DEF FramesAccounted, NoOvertaking, Lost
<1>3. RulesGoWithBus'
  BY DEF RulesGoWithBus, Shut
<1> QED BY <1>1, <1>2, <1>3

(* Steps that touch the responder rules only. *)
LEMMA RulesHold ==
    ASSUME CanInv, UNCHANGED <<Buffers, fdcan, canCall>>,
           rules' \in 0 .. MaxRules, leaked' \in BOOLEAN,
           canPc' \in {"open", "ecu", "disable", "redisable"},
           canPc' \in Shut /\ ~leaked' => rules' = 0
    PROVE  CanInv'
<1> USE DEF CanInv, Buffers
<1>1. CanTypeOK'
  BY Zenon DEF CanTypeOK
<1>2. FramesAccounted' /\ NoOvertaking'
  BY DEF FramesAccounted, NoOvertaking, Lost
<1>3. RulesGoWithBus'
  BY Zenon DEF RulesGoWithBus
<1> QED BY <1>1, <1>2, <1>3

LEMMA CanReadingHolds == ASSUME CanInv, CanRead PROVE CanInv'
<1> USE DEF CanInv
<1>1. ASSUME NEW pc \in {"read", "until", "collect"}, NEW filter \in BOOLEAN, NEW max \in Nat,
             CallRead(pc, filter, max)
      PROVE  CanInv'
  <2>1. canCall' \in [filter : BOOLEAN, max : Nat]
    BY <1>1 DEF CallRead
  <2> QED BY <1>1, <2>1, CallsHold DEF CallRead, Shut
<1>2. CASE \E max \in {1, PullMax, MaxArrived} : CallRead("read", FALSE, max)
  BY <1>1, <1>2 DEF CanAssumption
<1>3. CASE CallRead("until", TRUE, 1)
  BY <1>1, <1>3
<1>4. CASE \E filter \in BOOLEAN, max \in {1, MaxArrived} : CallRead("collect", filter, max)
  BY <1>1, <1>4 DEF CanAssumption
<1>5. CASE UntilTimesOut
  <2>1. canCall' \in [filter : BOOLEAN, max : Nat]
    BY <1>5 DEF UntilTimesOut, CanTypeOK
  <2> QED BY <1>5, <2>1, CallsHold DEF UntilTimesOut, Shut
<1>6. CASE \E o \in Outcomes : PullRaises(o)
  BY <1>6, PullRaisesHolds
<1> QED BY <1>2, <1>3, <1>4, <1>5, <1>6, ReadHolds, MatchHolds, PullAgainHolds, GatherHolds, CollectedHolds
        DEF CanRead

LEMMA CloseDisablesHolds ==
    ASSUME CanInv, NEW o \in Outcomes, CloseDisables(o)
    PROVE  CanInv'
<1> USE DEF CanInv
<1>1. /\ pending' = {} /\ gone' = [gone EXCEPT !["closed"] = @ \cup pending]
      /\ canPc \in {"disable", "redisable"} /\ canPc' \in {"closed", "config"}
      /\ arrived' = arrived /\ ring' = ring /\ out' = out /\ returned' = returned
      /\ rules' = rules /\ leaked' = leaked /\ canCall' = canCall
  BY DEF CloseDisables, AfterDisable
<1>2. fdcan' \in BOOLEAN
  BY Zenon DEF CloseDisables
<1>3. CanTypeOK'
  <2>1. gone' \in [Fates -> SUBSET Frames]
    BY <1>1 DEF CanTypeOK, Fates
  <2> QED BY <2>1, <1>1, <1>2, Zenon DEF CanTypeOK
<1>4. FramesAccounted'
  <2>1. Lost' = Lost \cup pending
    BY <1>1, LostGrows DEF CanTypeOK, Fates
  <2> QED BY <1>1, <2>1 DEF FramesAccounted
<1>5. NoOvertaking'
  BY <1>1 DEF NoOvertaking
<1>6. RulesGoWithBus'
  BY <1>1 DEF RulesGoWithBus, Shut
<1> QED BY <1>3, <1>4, <1>5, <1>6

LEMMA ConfigureHolds ==
    ASSUME CanInv, NEW o \in Outcomes, Configure(o)
    PROVE  CanInv'
<1> DEFINE cut == ring \ ring'
<1> USE DEF CanInv
<1>1. /\ ring' \subseteq ring /\ gone' = [gone EXCEPT !["closed"] = @ \cup cut]
      /\ canPc = "config" /\ canPc' \in {"open", "closed"}
      /\ arrived' = arrived /\ pending' = pending /\ out' = out /\ returned' = returned
      /\ rules' = rules /\ leaked' = leaked /\ canCall' = canCall
  BY DEF Configure
<1>2. fdcan' \in BOOLEAN
  BY Zenon DEF Configure
<1> HIDE DEF cut
<1>3. CanTypeOK'
  <2>1. cut \in SUBSET Frames /\ ring' \in SUBSET Frames
    BY <1>1 DEF CanTypeOK, cut
  <2>2. gone' \in [Fates -> SUBSET Frames]
    BY <1>1, <2>1 DEF CanTypeOK, Fates
  <2> QED BY <2>1, <2>2, <1>1, <1>2, Zenon DEF CanTypeOK
<1>4. FramesAccounted'
  <2>1. Lost' = Lost \cup cut
    BY <1>1, LostGrows DEF CanTypeOK, Fates
  <2> QED BY <1>1, <2>1 DEF FramesAccounted, cut
<1>5. NoOvertaking'
  BY <1>1 DEF NoOvertaking
<1>6. RulesGoWithBus'
  BY <1>1 DEF RulesGoWithBus, Shut
<1> QED BY <1>3, <1>4, <1>5, <1>6

LEMMA SessionHolds == ASSUME CanInv, CanSession PROVE CanInv'
<1> USE DEF CanInv
<1>1. /\ rules \in 0 .. MaxRules /\ leaked \in BOOLEAN /\ 0 \in 0 .. MaxRules
      /\ canCall \in [filter : BOOLEAN, max : Nat]
  BY DEF CanTypeOK, CanAssumption
<1>2. CASE CanOpen \/ CanClose("clear") \/ CanClose("reclear") \/ EcuDone
  BY <1>1, <1>2, CallsHold DEF CanOpen, CanClose, EcuDone, Shut
<1>3. ASSUME NEW o \in Outcomes, AddResponder(o) PROVE CanInv'
  <2>1. rules' \in 0 .. MaxRules
    BY <1>1, <1>3 DEF AddResponder
  <2> QED BY <1>1, <1>3, <2>1, RulesHold DEF AddResponder, Shut
<1>4. ASSUME NEW o \in Outcomes, ClearResponders(o) PROVE CanInv'
  <2>1. rules' \in 0 .. MaxRules
    BY <1>1, <1>4 DEF ClearResponders, Clear
  <2>2. leaked' \in BOOLEAN
    BY <1>4, Zenon DEF ClearResponders, Clear
  <2> QED BY <1>4, <2>1, <2>2, RulesHold DEF ClearResponders, Shut
<1>5. ASSUME NEW o \in Outcomes, SimulateEcu(o) PROVE CanInv'
  <2>1. rules' \in 0 .. MaxRules
    BY <1>1, <1>5 DEF SimulateEcu, Clear
  <2>2. leaked' \in BOOLEAN
    BY <1>5, Zenon DEF SimulateEcu, Clear
  <2> QED BY <1>5, <2>1, <2>2, RulesHold DEF SimulateEcu, Shut
<1>6. ASSUME NEW o \in Outcomes, CloseClears(o) PROVE CanInv'
  <2>1. rules' \in 0 .. MaxRules /\ canPc' \in {"disable", "redisable"}
    BY <1>1, <1>6 DEF CloseClears, AfterDisable
  <2>2. leaked' \in BOOLEAN
    BY <1>6, Zenon DEF CloseClears
  <2>3. ~leaked' => rules' = 0
    <3>1. CASE Ran(o)
      BY <1>6, <3>1 DEF CloseClears
    <3>2. CASE ~Ran(o)
      <4>1. rules' = rules
        BY <1>6, <3>2 DEF CloseClears
      <4>2. ~leaked' => ~(rules > 0)
        BY <1>6, <3>2, Zenon DEF CloseClears
      <4> QED BY <1>1, <4>1, <4>2
    <3> QED BY <3>1, <3>2
  <2> QED BY <1>6, <2>1, <2>2, <2>3, RulesHold DEF CloseClears
<1> QED BY <1>2, <1>3, <1>4, <1>5, <1>6, CloseDisablesHolds, ConfigureHolds DEF CanSession

(* No frame that the pod drained is forgotten or returned twice, frames keep  *)
(* their order, and the responder rules go with the session, for every length *)
(* of a run, ring and pull, and whichever commands fail or lose their reply.  *)
THEOREM CanSessionKeeps == CanSpec => []CanInv
<1>1. CanInv /\ [CanNext]_canVars => CanInv'
  <2> SUFFICES ASSUME CanInv, [CanNext]_canVars PROVE CanInv'
    OBVIOUS
  <2>1. CASE UNCHANGED canVars
    BY <2>1 DEF canVars, CanInv, CanTypeOK, FramesAccounted, NoOvertaking, RulesGoWithBus, Lost
  <2> QED BY <2>1, ArriveHolds, CanReadingHolds, SessionHolds DEF CanNext
<1> QED BY <1>1, CanStarts, PTL DEF CanSpec

HIDE CanAssumption

-----------------------------------------------------------------------------
(* The pod that a connection string opens: any pods and ports. *)

FoundRecord == [port : SerialPorts, sid : UsbPods \cup {0}]
ConnKinds == {"none", "serial", "tcp", "embeddedci"}
TransportRecord == [kind : ConnKinds, pod : UsbPods \cup {0}, port : SerialPorts \cup {0}]
OpenPcs == {"off", "start", "address", "discover", "links", "scan", "probe", "open", "status",
            "upgrade", "fallback", "opened", "raised", "closed"}

CablesAre ==
    /\ plugged \in [SerialPorts -> UsbPods \cup {0}]
    /\ podVid \in SUBSET SerialPorts /\ links \in SUBSET UsbPods
    /\ moves \in 0 .. MaxMoves
StaleIs == stale \in BOOLEAN
ChoiceIs ==
    /\ spec \in [kind : SpecKinds \cup {"none"}, pod : UsbPods \cup {0}]
    /\ scanned \in 0 .. PortCount /\ found \in Seq(FoundRecord)
    /\ askedLinks \in SUBSET UsbPods /\ openPorts \in SUBSET SerialPorts
    /\ lan \in UsbPods \cup {0} /\ transport \in TransportRecord /\ openPc \in OpenPcs

(* Which connection strings get to which step, and the port that is held there.  *)
RouteTaken ==
    /\ spec.pod # 0 => spec.kind = "usb"
    /\ openPc \in {"links", "scan", "probe", "status", "upgrade", "fallback"} => spec.kind = "usb"
    /\ openPc = "open" => spec.kind \in {"usb", "device"}
    /\ openPc = "address" => spec.kind \in {"tcp", "embeddedci"}
    /\ openPc = "discover" => spec.kind = "discover"
    /\ openPc \in {"off", "start", "address", "discover", "links"} => scanned = 0
    /\ openPc = "probe" => NextPort \in SerialPorts
PortsHeld ==
    /\ openPc \notin {"probe", "status", "upgrade", "fallback", "opened"} => openPorts = {}
    /\ openPc = "probe" => openPorts = {NextPort}
    /\ openPc \in {"status", "upgrade", "fallback"} => openPorts = {transport.port}
    /\ openPc = "opened" =>
          openPorts = (IF transport.kind = "serial" THEN {transport.port} ELSE {})

(* A named pod is at the port that was chosen, and then at the other end of the   *)
(* console, unless a cable was moved in between; no port is chosen by guess.      *)
NamedIsOpened ==
    spec.pod # 0 /\ ~stale =>
        /\ openPc = "open" => plugged[transport.port] = spec.pod
        /\ openPc \in {"status", "upgrade", "fallback", "opened"} => transport.pod = spec.pod
LanIs == openPc \in {"upgrade", "fallback"} => lan \in {0, transport.pod}
Only ==
    /\ openPc \in {"open", "status", "upgrade", "fallback"} /\ spec.kind = "usb" =>
          /\ transport.port \in SerialPorts
          /\ spec.pod = 0 => Len(found) = 1
    /\ openPc = "opened" /\ spec.kind = "usb" /\ spec.pod = 0 /\ scanned > 0 => Len(found) = 1

(* What every step of the choice keeps, and with the cables every step there is.  *)
Choosing == ChoiceIs /\ RouteTaken /\ PortsHeld /\ NamedIsOpened /\ LanIs /\ Only
ConnKept == CablesAre /\ Choosing

LEMMA StaleStays == StaleIs /\ [OpenNext]_connVars => StaleIs'
<1> SUFFICES ASSUME StaleIs, [OpenNext]_connVars PROVE StaleIs'
  OBVIOUS
<1>1. stale' = stale \/ stale' = (stale \/ openPc = "open")
  BY Zenon DEF OpenNext, connVars, chooseVars, cableVars, Arrange, Replug, Resolve, OpenAddress, DiscoverOne,
     UsbNetwork, PickOnlyLink, PickNamedLink, NoLinkIsIt, ChoosePort, SkipPort, ProbeOpens, ScanDone, Probed,
     Console, OpenConsole, ConsoleStatus, KeepConsole, Upgrade, LinkUnreachable, Fallback, GiveWay, CloseTransport
<1> QED BY <1>1, Zenon DEF StaleIs

LEMMA ChosenIs ==
    ASSUME ChoiceIs
    PROVE  /\ transport.kind \in ConnKinds /\ transport.pod \in UsbPods \cup {0}
           /\ transport.port \in SerialPorts \cup {0}
           /\ spec.kind \in SpecKinds \cup {"none"} /\ spec.pod \in UsbPods \cup {0}
           /\ Len(found) \in Nat /\ scanned \in Nat /\ scanned <= PortCount
           /\ PortCount \in Nat /\ 0 \notin UsbPods /\ -1 \notin UsbPods /\ 0 \notin SerialPorts
<1>1. transport \in TransportRecord /\ found \in Seq(FoundRecord) /\ scanned \in 0 .. PortCount
  BY DEF ChoiceIs
<1>2. spec \in [kind : SpecKinds \cup {"none"}, pod : UsbPods \cup {0}]
  BY DEF ChoiceIs
<1>3. PortCount \in Nat /\ 0 \notin UsbPods /\ -1 \notin UsbPods /\ 0 \notin SerialPorts
  BY ConnectionAssumption DEF ConnectionAssumption, SerialPorts
<1>4. Len(found) \in Nat
  BY <1>1, LenProperties
<1>5. transport.kind \in ConnKinds /\ transport.pod \in UsbPods \cup {0} /\ transport.port \in SerialPorts \cup {0}
  BY <1>1, Zenon DEF TransportRecord
<1>6. spec.kind \in SpecKinds \cup {"none"} /\ spec.pod \in UsbPods \cup {0}
  BY <1>2, Zenon
<1> QED BY <1>1, <1>3, <1>4, <1>5, <1>6

(* A transport that has been opened.                                              *)
LEMMA OpenedIs ==
    ASSUME NEW kind \in ConnKinds, NEW pod \in UsbPods \cup {0}, NEW port \in SerialPorts \cup {0},
           Opened(kind, pod, port)
    PROVE  /\ transport' \in TransportRecord /\ openPc' = "opened"
           /\ transport'.kind = kind /\ transport'.pod = pod /\ transport'.port = port
BY DEF Opened, Goto, TransportRecord

(* The cables.                                                                    *)
LEMMA CablesMove ==
    ASSUME ConnKept, (\E hidden : Arrange(hidden)) \/ \E d, e \in SerialPorts : Replug(d, e)
    PROVE  ConnKept'
<1> USE ConnectionAssumption DEF ConnectionAssumption, ConnKept
<1>1. CASE \E hidden : Arrange(hidden)
  <2>1. /\ openPc = "off" /\ openPc' = "start" /\ plugged' \in [SerialPorts -> UsbPods \cup {0}]
        /\ podVid' \in SUBSET SerialPorts
        /\ links' \in SUBSET {plugged'[d] : d \in SerialPorts} /\ 0 \notin links'
        /\ UNCHANGED <<spec, scanned, found, askedLinks, openPorts, lan, transport, moves, stale>>
    BY <1>1 DEF Arrange
  <2>2. links' \in SUBSET UsbPods
    BY <2>1
  <2> QED BY <2>1, <2>2 DEF CablesAre, Choosing, ChoiceIs, RouteTaken, NextPort, PortsHeld, NamedIsOpened, LanIs, Only, OpenPcs
<1>2. CASE \E d, e \in SerialPorts : Replug(d, e)
  <2>1. PICK d, e \in SerialPorts : Replug(d, e)
    BY <1>2
  <2>2. /\ moves < MaxMoves /\ moves' = moves + 1
        /\ plugged' = [plugged EXCEPT ![d] = plugged[e], ![e] = plugged[d]]
        /\ podVid' \in SUBSET SerialPorts
        /\ UNCHANGED <<links, spec, scanned, found, askedLinks, openPorts, lan, transport, openPc>>
    BY <2>1 DEF Replug, chooseVars
  <2>3. (stale => stale') /\ (openPc = "open" => stale')
    BY <2>1, Zenon DEF Replug
  <2>4. plugged' \in [SerialPorts -> UsbPods \cup {0}]
    BY <2>2 DEF CablesAre
  <2>5. moves' \in 0 .. MaxMoves
    BY <2>2 DEF CablesAre
  <2> QED BY <2>2, <2>3, <2>4, <2>5
          DEF CablesAre, Choosing, ChoiceIs, RouteTaken, NextPort, PortsHeld, NamedIsOpened, LanIs, Only
<1> QED BY <1>1, <1>2

LEMMA CablesStay ==
    ASSUME ConnKept, UNCHANGED cableVars, Choosing'
    PROVE  ConnKept'
BY DEF ConnKept, CablesAre, cableVars

LEMMA ResolveKeeps ==
    ASSUME ConnKept, NEW a \in Sources, NEW e \in Sources, NEW s \in Sources, NEW p \in UsbPods \cup {0},
           Resolve(a, e, s, p)
    PROVE  ConnKept'
<1> USE ConnectionAssumption DEF ConnectionAssumption, ConnKept, Choosing
<1> DEFINE k == Effective(a, e, s)
<1>1. k \in SpecKinds \cup {Unset} /\ Unset \notin SpecKinds
  BY DEF Effective, Sources, Unset, SpecKinds
<1>2. /\ openPc = "start" /\ (p # 0 => k = "usb")
      /\ IF k = Unset THEN openPc' = "raised" /\ UNCHANGED spec
         ELSE /\ spec' = [kind |-> k, pod |-> p]
              /\ openPc' = [usb |-> "links", device |-> "open", discover |-> "discover",
                            tcp |-> "address", embeddedci |-> "address"][k]
      /\ UNCHANGED <<scanned, found, askedLinks, openPorts, lan, transport, cableVars>>
  BY Zenon DEF Resolve, Goto
<1> HIDE DEF k
<1>3. CASE k = Unset
  BY <1>2, <1>3, CablesStay DEF ChoiceIs, RouteTaken, NextPort, PortsHeld, NamedIsOpened, LanIs, Only, OpenPcs
<1>4. CASE k # Unset
  <2>1. spec' = [kind |-> k, pod |-> p] /\ k \in SpecKinds
    BY <1>1, <1>2, <1>4
  <2>2. /\ k = "usb" => openPc' = "links"
        /\ k = "device" => openPc' = "open"
        /\ k = "discover" => openPc' = "discover"
        /\ k \in {"tcp", "embeddedci"} => openPc' = "address"
    BY <1>2, <1>4
  <2>3. spec' \in [kind : SpecKinds \cup {"none"}, pod : UsbPods \cup {0}] /\ spec'.kind = k /\ spec'.pod = p
    BY <2>1
  <2>4. openPc' \in {"links", "open", "discover", "address"}
    BY <2>1, <2>2 DEF SpecKinds
  <2>5. scanned = 0 /\ openPorts = {}
    BY <1>2 DEF RouteTaken, PortsHeld
  <2>6. k \in {"usb", "device", "discover", "tcp", "embeddedci"}
    BY <2>1 DEF SpecKinds
  <2> QED BY <1>2, <2>2, <2>3, <2>4, <2>5, <2>6, CablesStay
          DEF ChoiceIs, RouteTaken, NextPort, PortsHeld, NamedIsOpened, LanIs, Only, OpenPcs
<1> QED BY <1>3, <1>4

(* A transport without a console.                                                 *)
LEMMA AddressKeeps ==
    ASSUME ConnKept, NEW kind \in ConnKinds \ {"serial"}, NEW pod \in UsbPods \cup {0}, Opened(kind, pod, 0),
           openPc \in {"address", "discover", "links"},
           spec.pod # 0 => pod = spec.pod,
           askedLinks' \in SUBSET UsbPods,
           UNCHANGED <<spec, scanned, found, openPorts, lan, cableVars>>
    PROVE  ConnKept'
<1> USE DEF ConnKept, Choosing
<1>1. /\ transport' \in TransportRecord /\ openPc' = "opened"
      /\ transport'.kind = kind /\ transport'.pod = pod /\ transport'.port = 0
  BY OpenedIs
<1>2. scanned = 0 /\ openPorts = {}
  BY DEF RouteTaken, PortsHeld
<1> QED BY <1>1, <1>2, CablesStay DEF ChoiceIs, RouteTaken, NextPort, PortsHeld, NamedIsOpened, LanIs, Only, OpenPcs

LEMMA TheOnlyOne ==
    ASSUME NEW S, Cardinality(S) = 1
    PROVE  (CHOOSE x \in S : TRUE) \in S
<1>1. S # {}
  BY FS_EmptySet
<1> QED BY <1>1

(* Going on without one.                                                          *)
LEMMA GoingOn ==
    ASSUME ConnKept, NEW pc \in {"scan", "raised", "links"}, openPc' = pc,
           pc \in {"scan", "links"} => openPc \in {"links", "scan"},
           openPc = "scan" => pc # "links",
           openPc \notin {"probe", "status", "upgrade", "fallback", "opened"},
           askedLinks' \in SUBSET UsbPods, scanned' \in scanned .. PortCount,
           scanned' # scanned => openPc = "scan",
           UNCHANGED <<spec, found, openPorts, lan, transport, cableVars>>
    PROVE  ConnKept'
<1> USE DEF ConnKept, Choosing
<1>1. scanned' \in 0 .. PortCount
  BY ChosenIs
<1> QED BY <1>1, CablesStay DEF ChoiceIs, RouteTaken, NextPort, PortsHeld, NamedIsOpened, LanIs, Only, OpenPcs

LEMMA NetworkKeeps ==
    ASSUME ConnKept, OpenAddress \/ (\E answering \in SUBSET UsbPods : DiscoverOne(answering)) \/ UsbNetwork
    PROVE  ConnKept'
<1> USE DEF ConnKept, Choosing
<1>1. CASE OpenAddress
  <2>1. openPc = "address" /\ Opened(spec.kind, 0, 0) /\ spec.kind \in {"tcp", "embeddedci"} /\ spec.pod = 0
        /\ UNCHANGED <<spec, scanned, found, askedLinks, openPorts, lan, cableVars>>
    BY <1>1 DEF OpenAddress, RouteTaken
  <2> QED BY <2>1, AddressKeeps DEF ConnKinds, ChoiceIs
<1>2. CASE \E answering \in SUBSET UsbPods : DiscoverOne(answering)
  <2>1. PICK answering \in SUBSET UsbPods : DiscoverOne(answering)
    BY <1>2
  <2>2. openPc = "discover" /\ UNCHANGED <<spec, scanned, found, askedLinks, openPorts, lan, cableVars>>
    BY <2>1, Zenon DEF DiscoverOne
  <2>3. CASE Cardinality(answering) = 1
    <3>1. Opened("tcp", CHOOSE p \in answering : TRUE, 0) /\ (CHOOSE p \in answering : TRUE) \in UsbPods
      BY <2>1, <2>3, TheOnlyOne DEF DiscoverOne
    <3>2. spec.pod = 0
      BY <2>2 DEF RouteTaken
    <3> DEFINE p == CHOOSE q \in answering : TRUE
    <3>3. Opened("tcp", p, 0) /\ p \in UsbPods
      BY <3>1
    <3> HIDE DEF p
    <3> QED BY <2>2, <3>2, <3>3, AddressKeeps DEF ConnKinds, ChoiceIs
  <2>4. CASE Cardinality(answering) # 1
    <3>1. openPc' = "raised" /\ UNCHANGED transport
      BY <2>1, <2>4, Zenon DEF DiscoverOne, Goto
    <3> QED BY <2>2, <3>1, GoingOn, ChosenIs DEF ChoiceIs
  <2> QED BY <2>3, <2>4
<1>3. ASSUME NEW reachable \in BOOLEAN, PickOnlyLink(reachable) PROVE ConnKept'
  <2>1. /\ openPc = "links" /\ spec.pod = 0
        /\ UNCHANGED <<spec, scanned, found, askedLinks, openPorts, lan, cableVars>>
    BY <1>3, Zenon DEF PickOnlyLink
  <2>2. CASE Cardinality(links) = 1 /\ reachable
    <3> DEFINE p == CHOOSE q \in links : TRUE
    <3>1. Opened("tcp", p, 0)
      BY <1>3, <2>2, Zenon DEF PickOnlyLink
    <3>2. p \in UsbPods
      BY <2>2, TheOnlyOne DEF CablesAre
    <3> HIDE DEF p
    <3> QED BY <2>1, <3>1, <3>2, AddressKeeps DEF ConnKinds, ChoiceIs
  <2>3. CASE ~(Cardinality(links) = 1 /\ reachable)
    <3>1. openPc' = "scan" /\ UNCHANGED transport
      BY <1>3, <2>3, Zenon DEF PickOnlyLink, Goto
    <3> QED BY <2>1, <3>1, GoingOn, ChosenIs DEF ChoiceIs
  <2> QED BY <2>2, <2>3
<1>4. ASSUME NEW p \in links, NEW answers \in BOOLEAN, NEW reachable \in BOOLEAN,
             PickNamedLink(p, answers, reachable)
      PROVE  ConnKept'
  <2>1. /\ openPc = "links" /\ askedLinks' = askedLinks \cup {p}
        /\ UNCHANGED <<spec, scanned, found, openPorts, lan, cableVars>>
    BY <1>4, Zenon DEF PickNamedLink
  <2>2. p \in UsbPods /\ askedLinks' \in SUBSET UsbPods
    BY <2>1 DEF CablesAre, ChoiceIs
  <2>3. CASE answers /\ p = spec.pod /\ reachable
    <3>1. Opened("tcp", p, 0)
      BY <1>4, <2>3, Zenon DEF PickNamedLink
    <3> QED BY <2>1, <2>2, <2>3, <3>1, AddressKeeps DEF ConnKinds
  <2>4. CASE ~(answers /\ p = spec.pod /\ reachable)
    <3>1. openPc' \in {"scan", "links"} /\ UNCHANGED transport
      BY <1>4, <2>1, <2>4 DEF PickNamedLink, Goto
    <3> QED BY <2>1, <2>2, <3>1, GoingOn, ChosenIs DEF ChoiceIs
  <2> QED BY <2>3, <2>4
<1>5. CASE NoLinkIsIt
  <2>1. openPc = "links" /\ openPc' = "scan"
        /\ UNCHANGED <<spec, scanned, found, askedLinks, openPorts, lan, transport, cableVars>>
    BY <1>5, Zenon DEF NoLinkIsIt, Goto
  <2> QED BY <2>1, GoingOn, ChosenIs DEF ChoiceIs
<1> QED BY <1>1, <1>2, <1>3, <1>4, <1>5 DEF UsbNetwork

-----------------------------------------------------------------------------
(* Probing the serial ports.                                                      *)
LEMMA ProbingKeeps ==
    ASSUME ConnKept, ChoosePort
    PROVE  ConnKept'
<1> USE DEF ConnKept, Choosing
<1>1. CASE SkipPort
  <2>1. /\ openPc = "scan" /\ openPc' = "scan" /\ NextPort \in SerialPorts /\ scanned' = NextPort
        /\ UNCHANGED <<spec, found, askedLinks, openPorts, lan, transport, cableVars>>
    BY <1>1, Zenon DEF SkipPort
  <2>2. scanned' \in scanned .. PortCount
    BY <2>1, ChosenIs DEF NextPort, SerialPorts
  <2> QED BY <2>1, <2>2, GoingOn DEF ChoiceIs
<1>2. CASE ProbeOpens
  <2>1. /\ openPc = "scan" /\ openPc' = "probe" /\ NextPort \in SerialPorts /\ openPorts' = openPorts \cup {NextPort}
        /\ UNCHANGED <<spec, scanned, found, askedLinks, lan, transport, cableVars>>
    BY <1>2, Zenon DEF ProbeOpens, Goto
  <2>2. NextPort' = NextPort /\ openPorts' = {NextPort}
    BY <2>1 DEF PortsHeld, NextPort
  <2> QED BY <2>1, <2>2, CablesStay DEF ChoiceIs, RouteTaken, PortsHeld, NamedIsOpened, LanIs, Only, OpenPcs
<1>3. ASSUME NEW sid \in UsbPods \cup {-1, 0}, Probed(sid) PROVE ConnKept'
  <2>1. /\ openPc = "probe" /\ sid \in ProbeSays(NextPort) /\ openPorts' = openPorts \ {NextPort}
        /\ scanned' = NextPort
        /\ found' = IF Keep(sid) THEN Append(found, [port |-> NextPort, sid |-> sid]) ELSE found
        /\ IF spec.pod # 0 /\ sid = spec.pod
           THEN transport' = [NoTransport EXCEPT !.port = NextPort] /\ openPc' = "open"
           ELSE openPc' = "scan" /\ UNCHANGED transport
        /\ UNCHANGED <<spec, askedLinks, lan, cableVars>>
    BY <1>3, Zenon DEF Probed, Goto
  <2>2. NextPort \in SerialPorts /\ openPorts = {NextPort} /\ spec.kind = "usb"
    BY <2>1 DEF RouteTaken, PortsHeld
  <2>3. openPorts' = {} /\ scanned' \in 0 .. PortCount
    BY <2>1, <2>2, ChosenIs DEF NextPort, SerialPorts
  <2>4. found' \in Seq(FoundRecord)
    <3>1. CASE Keep(sid)
      <4>1. sid \in UsbPods \cup {0}
        BY <3>1 DEF Keep
      <4> DEFINE r == [port |-> NextPort, sid |-> sid]
      <4>2. r \in FoundRecord
        BY <2>2, <4>1, Zenon DEF FoundRecord
      <4>3. found' = Append(found, r)
        BY <2>1, <3>1
      <4> HIDE DEF r
      <4> QED BY <4>2, <4>3, AppendProperties DEF ChoiceIs
    <3>2. CASE ~Keep(sid)
      BY <2>1, <3>2 DEF ChoiceIs
    <3> QED BY <3>1, <3>2
  <2>5. CASE spec.pod # 0 /\ sid = spec.pod
    <3>1. openPc' = "open" /\ transport' \in TransportRecord /\ transport'.port = NextPort
      BY <2>1, <2>2, <2>5 DEF NoTransport, TransportRecord, ConnKinds
    <3>2. plugged[NextPort] = spec.pod
      BY <2>1, <2>5, ChosenIs DEF ProbeSays
    <3>3. plugged' = plugged
      BY <2>1 DEF cableVars
    <3> QED BY <2>1, <2>2, <2>3, <2>4, <2>5, <3>1, <3>2, <3>3, CablesStay
            DEF ChoiceIs, RouteTaken, PortsHeld, NamedIsOpened, LanIs, Only, OpenPcs
  <2>6. CASE ~(spec.pod # 0 /\ sid = spec.pod)
    <3>1. openPc' = "scan" /\ UNCHANGED transport
      BY <2>1, <2>6
    <3> QED BY <2>1, <2>2, <2>3, <2>4, <3>1, CablesStay
            DEF ChoiceIs, RouteTaken, PortsHeld, NamedIsOpened, LanIs, Only, OpenPcs
  <2> QED BY <2>5, <2>6
<1>4. CASE ScanDone
  <2>1. /\ openPc = "scan" /\ UNCHANGED <<spec, scanned, found, askedLinks, openPorts, lan, cableVars>>
    BY <1>4, Zenon DEF ScanDone
  <2>2. CASE spec.pod = 0 /\ Len(found) = 1
    <3>1. transport' = [NoTransport EXCEPT !.port = found[1].port] /\ openPc' = "open"
      BY <1>4, <2>2, Zenon DEF ScanDone, Goto
    <3>2. found[1] \in FoundRecord
      <4>1. found \in Seq(FoundRecord) /\ 1 \in 1 .. Len(found)
        BY <2>2 DEF ChoiceIs
      <4> QED BY <4>1, ElementOfSeq
    <3>3. found[1].port \in SerialPorts
      BY <3>2, Zenon DEF FoundRecord
    <3>4. transport' \in TransportRecord /\ transport'.port \in SerialPorts
      BY <3>1, <3>3 DEF NoTransport, TransportRecord, ConnKinds
    <3> QED BY <2>1, <2>2, <3>1, <3>4, CablesStay DEF ChoiceIs, RouteTaken, PortsHeld, NamedIsOpened, LanIs, Only, OpenPcs
  <2>3. CASE ~(spec.pod = 0 /\ Len(found) = 1)
    <3>1. openPc' = "raised" /\ UNCHANGED transport
      BY <1>4, <2>3, Zenon DEF ScanDone, Goto
    <3> QED BY <2>1, <3>1, GoingOn, ChosenIs DEF ChoiceIs
  <2> QED BY <2>2, <2>3
<1> QED BY <1>1, <1>2, <1>3, <1>4 DEF ChoosePort

-----------------------------------------------------------------------------
(* The console, and the end.                                                      *)
LEMMA OpenConsoleKeeps ==
    ASSUME ConnKept, NEW port \in SerialPorts, NEW opens \in BOOLEAN, OpenConsole(port, opens)
    PROVE  ConnKept'
<1> USE DEF ConnKept, Choosing
<1>1. /\ openPc = "open" /\ (spec.kind = "usb" => port = transport.port)
      /\ UNCHANGED <<spec, scanned, found, askedLinks, lan, cableVars>>
  BY Zenon DEF OpenConsole
<1>2. openPorts = {} /\ spec.kind \in {"usb", "device"} /\ plugged[port] \in UsbPods \cup {0}
  BY <1>1 DEF PortsHeld, RouteTaken, CablesAre
<1>3. CASE ~opens
  <2>1. openPc' = "raised" /\ UNCHANGED <<openPorts, transport>>
    BY <1>3, Zenon DEF OpenConsole, Goto
  <2> QED BY <1>1, <2>1, GoingOn, ChosenIs DEF ChoiceIs
<1>4. CASE opens /\ spec.kind = "device"
  <2>1. openPorts' = openPorts \cup {port} /\ Opened("serial", plugged[port], port)
    BY <1>4, Zenon DEF OpenConsole
  <2>2. /\ transport' \in TransportRecord /\ openPc' = "opened"
        /\ transport'.kind = "serial" /\ transport'.port = port
    BY <1>2, <2>1, OpenedIs DEF ConnKinds
  <2>3. openPorts' = {port} /\ port \in SerialPorts
    BY <1>2, <2>1
  <2> QED BY <1>1, <1>4, <2>2, <2>3, CablesStay DEF ChoiceIs, RouteTaken, NextPort, PortsHeld, NamedIsOpened, LanIs, Only, OpenPcs
<1>5. CASE opens /\ spec.kind = "usb"
  <2>1. /\ openPorts' = openPorts \cup {port} /\ openPc' = "status"
        /\ transport' = [transport EXCEPT !.pod = plugged[port]]
    BY <1>5 DEF OpenConsole, Goto
  <2>2. transport \in TransportRecord
    BY DEF ChoiceIs
  <2>3. transport' \in TransportRecord /\ transport'.pod = plugged[port] /\ transport'.port = transport.port
    BY <1>2, <2>1, <2>2 DEF TransportRecord
  <2>4. openPorts' = {port} /\ port = transport.port
    BY <1>1, <1>2, <1>5, <2>1
  <2>5. UNCHANGED stale
    BY <1>1 DEF cableVars
  <2> QED BY <1>1, <1>5, <2>1, <2>3, <2>4, <2>5, CablesStay
          DEF ChoiceIs, RouteTaken, NextPort, PortsHeld, NamedIsOpened, LanIs, Only, OpenPcs
<1> QED BY <1>2, <1>3, <1>4, <1>5

LEMMA ConsoleKeeps ==
    ASSUME ConnKept,
           \/ \E usbNet, hasLan \in BOOLEAN : ConsoleStatus(usbNet, hasLan)
           \/ KeepConsole \/ Upgrade \/ LinkUnreachable \/ Fallback
    PROVE  ConnKept'
<1> USE DEF ConnKept, Choosing
<1> USE ChosenIs
<1>1. ASSUME NEW usbNet \in BOOLEAN, NEW hasLan \in BOOLEAN, ConsoleStatus(usbNet, hasLan) PROVE ConnKept'
  <2>1. /\ openPc = "status" /\ lan' \in {0, transport.pod} /\ openPc' \in {"upgrade", "fallback"}
        /\ UNCHANGED <<spec, scanned, found, askedLinks, openPorts, transport, cableVars>>
    BY <1>1 DEF ConsoleStatus, Goto
  <2> QED BY <2>1, CablesStay DEF ChoiceIs, RouteTaken, NextPort, PortsHeld, NamedIsOpened, LanIs, Only, OpenPcs, cableVars
<1>2. CASE LinkUnreachable
  <2>1. /\ openPc = "upgrade" /\ openPc' = "fallback"
        /\ UNCHANGED <<spec, scanned, found, askedLinks, openPorts, lan, transport, cableVars>>
    BY <1>2, Zenon DEF LinkUnreachable, Goto
  <2> QED BY <2>1, CablesStay DEF ChoiceIs, RouteTaken, NextPort, PortsHeld, NamedIsOpened, LanIs, Only, OpenPcs, cableVars
<1>3. CASE KeepConsole
  <2>1. /\ openPc \in {"status", "fallback"} /\ Opened("serial", transport.pod, transport.port)
        /\ UNCHANGED <<spec, scanned, found, askedLinks, openPorts, lan, cableVars>>
    BY <1>3, Zenon DEF KeepConsole
  <2>2. /\ transport' \in TransportRecord /\ openPc' = "opened" /\ transport'.kind = "serial"
        /\ transport'.pod = transport.pod /\ transport'.port = transport.port
    BY <2>1, OpenedIs DEF ConnKinds
  <2> QED BY <2>1, <2>2, CablesStay DEF ChoiceIs, RouteTaken, NextPort, PortsHeld, NamedIsOpened, LanIs, Only, OpenPcs, cableVars
<1>4. ASSUME Upgrade \/ Fallback PROVE ConnKept'
  <2>1. PICK pod \in UsbPods \cup {0} : GiveWay("tcp", pod) /\ pod = transport.pod
    BY <1>4 DEF Upgrade, Fallback, LanIs
  <2>2. /\ openPc \in {"upgrade", "fallback"} /\ openPorts' = openPorts \ {transport.port} /\ Opened("tcp", pod, 0)
        /\ UNCHANGED <<spec, scanned, found, askedLinks, lan, cableVars>>
    BY <1>4, <2>1, Zenon DEF Upgrade, Fallback, GiveWay
  <2>3. openPorts' = {}
    BY <2>2 DEF PortsHeld
  <2>4. transport' \in TransportRecord /\ openPc' = "opened" /\ transport'.kind = "tcp" /\ transport'.pod = pod
    BY <2>2, OpenedIs DEF ConnKinds
  <2> QED BY <2>1, <2>2, <2>3, <2>4, CablesStay
          DEF ChoiceIs, RouteTaken, NextPort, PortsHeld, NamedIsOpened, LanIs, Only, OpenPcs, cableVars
<1> QED BY <1>1, <1>2, <1>3, <1>4

LEMMA ClosingTheTransport ==
    ASSUME ConnKept, CloseTransport
    PROVE  ConnKept'
<1> USE DEF ConnKept, Choosing
<1>1. /\ openPc = "opened" /\ openPc' = "closed" /\ openPorts' = openPorts \ {transport.port}
      /\ transport' = NoTransport /\ UNCHANGED <<spec, scanned, found, askedLinks, lan, cableVars>>
  BY Zenon DEF CloseTransport, Goto
<1>2. openPorts' = {}
  BY <1>1 DEF PortsHeld
<1>3. NoTransport \in TransportRecord
  BY DEF NoTransport, TransportRecord, ConnKinds
<1> QED BY <1>1, <1>2, <1>3, CablesStay DEF ChoiceIs, RouteTaken, NextPort, PortsHeld, NamedIsOpened, LanIs, Only, OpenPcs

-----------------------------------------------------------------------------
LEMMA ConnectionStarts ==
    ASSUME OpenInit
    PROVE  StaleIs /\ ConnKept
<1> USE ConnectionAssumption DEF ConnectionAssumption, OpenInit
<1>1. found \in Seq(FoundRecord)
  BY EmptySeq
<1>2. StaleIs /\ CablesAre
  <2>1. StaleIs
    BY Zenon DEF StaleIs
  <2>2. moves \in 0 .. MaxMoves
    OBVIOUS
  <2>3. plugged \in [SerialPorts -> UsbPods \cup {0}] /\ podVid \in SUBSET SerialPorts /\ links \in SUBSET UsbPods
    OBVIOUS
  <2> QED BY <2>1, <2>2, <2>3 DEF CablesAre
<1>3. NoTransport \in TransportRecord
  BY DEF NoTransport, TransportRecord, ConnKinds
<1>4. spec \in [kind : SpecKinds \cup {"none"}, pod : UsbPods \cup {0}] /\ spec.pod = 0
  BY Zenon
<1> QED BY <1>1, <1>2, <1>3, <1>4 DEF ConnKept, Choosing, ChoiceIs, RouteTaken, PortsHeld, NamedIsOpened, LanIs, Only, OpenPcs

LEMMA ConnectionStep ==
    ASSUME ConnKept, OpenNext \/ UNCHANGED connVars
    PROVE  ConnKept'
<1>1. CASE UNCHANGED connVars
  BY <1>1 DEF connVars, chooseVars, cableVars, ConnKept, CablesAre, Choosing, ChoiceIs, RouteTaken, NextPort, PortsHeld, NamedIsOpened, LanIs, Only
<1>2. CASE OpenNext
  BY <1>2, CablesMove, ResolveKeeps, NetworkKeeps, ProbingKeeps, OpenConsoleKeeps, ConsoleKeeps, ClosingTheTransport, Zenon
     DEF OpenNext, Console
<1> QED BY <1>1, <1>2

LEMMA ConnectionIsSafe ==
    ASSUME StaleIs, ConnKept
    PROVE  OpenInv
<1> USE DEF ConnKept, Choosing
<1>1. ConnectionTypeOK
  BY Zenon DEF ConnectionTypeOK, StaleIs, CablesAre, ChoiceIs, FoundRecord, TransportRecord, ConnKinds, OpenPcs
<1>2. NamedPodOpened
  BY DEF NamedPodOpened, NamedIsOpened
<1>3. NoGuess
  BY DEF NoGuess, Only
<1>4. PortsReleased
  BY DEF PortsReleased, PortsHeld
<1> QED BY <1>1, <1>2, <1>3, <1>4 DEF OpenInv

(* The pod that is opened is the one the connection string names, none is picked  *)
(* by guess, and no serial port stays open behind a connection that went another  *)
(* way, for any pods, ports and links, unless a cable is moved while the pod is   *)
(* looked for (open_transport, _open_usb and autodetect_port).                    *)
THEOREM NamedPodIsOpened == OpenSpec => []OpenInv
<1>1. OpenInit => StaleIs /\ ConnKept
  BY ConnectionStarts
<1>2. StaleIs /\ [OpenNext]_connVars => StaleIs'
  BY StaleStays
<1>3. ConnKept /\ [OpenNext]_connVars => ConnKept'
  BY ConnectionStep
<1>4. StaleIs /\ ConnKept => OpenInv
  BY ConnectionIsSafe
<1> QED BY <1>1, <1>2, <1>3, <1>4, PTL DEF OpenSpec

-----------------------------------------------------------------------------
(* The AI Vision board (aivision/client.py): any renewers and leases. *)

ThreadStates == {"none", "waits", "posts", "served", "ended"}

(* What is known of the lease while no answer was lost and no renewal outlived    *)
(* its release: the board's lease is the one held or the one a renewal brings.    *)
Brings(t) == t \in Renewing /\ renewGot[t] # 0
LeaseIsKnown ==
    /\ holder = "us" => held = boardLease \/ \E t \in Renewers : Brings(t)
    /\ \A t \in Renewers : Brings(t) => renewGot[t] = boardLease /\ holder = "us"
    /\ held # 0 => holder = "us"
    /\ Renewing # {} => held # 0

LeaseShape ==
    /\ boardLease \in 0 .. MaxLease /\ lastLease \in 0 .. MaxLease /\ held \in 0 .. MaxLease
    /\ holder \in {"us", "others", "nobody"} /\ renewer \in Renewers \cup {"none"}
    /\ leasePc \in {"idle", "joins"}
    /\ holder = "us" => boardLease # 0
    /\ renewAt \in [Renewers -> ThreadStates] /\ renewGot \in [Renewers -> 0 .. MaxLease]
    /\ \A t \in Renewers : renewAt[t] # "served" => renewGot[t] = 0

(* Only the client's thread runs, and what it knows, but for the excused cases.   *)
OnlyOurs == ~overlap => \A t \in Renewers : renewAt[t] \notin {"none", "ended"} => t = renewer
LeaseFollowed == ~overlap /\ ~untold => LeaseIsKnown

LeaseStep == LeaseShape /\ OnlyOurs /\ LeaseFollowed

LEMMA GrantsTyped ==
    ASSUME LeaseShape, NEW id \in 1 .. MaxLease, Grants(id)
    PROVE  /\ boardLease' = id /\ holder' = "us" /\ holder # "others"
           /\ boardLease' \in 0 .. MaxLease /\ lastLease' \in 0 .. MaxLease
BY VisionAssumption DEF LeaseShape, Grants

LEMMA AcquireFollows ==
    ASSUME LeaseStep, AcquireLease
    PROVE  LeaseStep'
<1> USE VisionAssumption DEF LeaseStep, LeaseShape
<1>1. PICK id \in 1 .. MaxLease : Grants(id) /\ Taken(id)
  BY DEF AcquireLease
<1>2. /\ boardLease' = id /\ holder' = "us" /\ held' = id
      /\ boardLease' \in 0 .. MaxLease /\ lastLease' \in 0 .. MaxLease /\ held' \in 0 .. MaxLease
  BY <1>1, GrantsTyped DEF Taken
<1>3. UNCHANGED <<renewGot, leasePc, untold>>
  BY DEF AcquireLease
<1>4. ~overlap' => ~overlap /\ Renewing = {}
  BY Zenon DEF AcquireLease
<1>5. \/ renewer # "none" /\ UNCHANGED <<renewer, renewAt>>
      \/ renewer = "none" /\ \E t \in Renewers :
            /\ renewAt[t] \in {"none", "ended"} /\ renewer' = t
            /\ renewAt' = [renewAt EXCEPT ![t] = "waits"]
  BY <1>1 DEF Taken
<1>6. LeaseShape'
  BY <1>2, <1>3, <1>5 DEF ThreadStates
<1>7. OnlyOurs'
  BY <1>4, <1>5 DEF OnlyOurs
<1>8. LeaseFollowed'
  BY <1>2, <1>3, <1>4, <1>5 DEF LeaseFollowed, LeaseIsKnown, Brings, Renewing
<1> QED BY <1>6, <1>7, <1>8

LEMMA BoardFollows ==
    ASSUME LeaseStep, Expires \/ OthersTake
    PROVE  LeaseStep'
<1> USE VisionAssumption DEF LeaseStep, LeaseShape, threads
<1>1. CASE Expires
  <2>1. ~untold' => ~untold /\ holder # "us"
    BY <1>1, Zenon DEF Expires
  <2> QED BY <1>1, <2>1 DEF Expires, OnlyOurs, LeaseFollowed, LeaseIsKnown, Brings, Renewing
<1>2. CASE OthersTake
  BY <1>2 DEF OthersTake, OnlyOurs, LeaseFollowed, LeaseIsKnown, Brings, Renewing
<1> QED BY <1>1, <1>2

LEMMA UntoldFollows ==
    ASSUME LeaseStep, AcquireUntold
    PROVE  LeaseStep'
<1> USE VisionAssumption DEF LeaseStep, LeaseShape, threads
<1>1. PICK id \in 1 .. MaxLease : Grants(id)
  BY DEF AcquireUntold
<1>2. untold' /\ UNCHANGED overlap
  BY Zenon DEF AcquireUntold
<1> QED BY <1>1, <1>2, GrantsTyped DEF AcquireUntold, OnlyOurs, LeaseFollowed

LEMMA RenewFollows ==
    ASSUME LeaseStep, NEW t \in Renewers, RenewWakes(t) \/ RenewServed(t) \/ RenewStores(t)
    PROVE  LeaseStep'
<1> USE VisionAssumption DEF LeaseStep, LeaseShape, onBoard, ThreadStates
<1>1. CASE RenewWakes(t)
  <2>1. renewAt' = [renewAt EXCEPT ![t] = "ended"] \/ (held # 0 /\ renewAt' = [renewAt EXCEPT ![t] = "posts"])
    BY <1>1, Zenon DEF RenewWakes
  <2> QED BY <1>1, <2>1 DEF RenewWakes, OnlyOurs, LeaseFollowed, LeaseIsKnown, Brings, Renewing
<1>2. CASE RenewServed(t)
  <2>1. /\ renewAt[t] = "posts" /\ renewAt' = [renewAt EXCEPT ![t] = "served"]
        /\ UNCHANGED <<held, renewer, stopSet, leasePc, overlap>>
    BY <1>2 DEF RenewServed
  <2>2. CASE \E id \in 1 .. MaxLease : Grants(id) /\ renewGot' = [renewGot EXCEPT ![t] = id] /\ UNCHANGED untold
    BY <2>1, <2>2, GrantsTyped DEF OnlyOurs, LeaseFollowed, LeaseIsKnown, Brings, Renewing
  <2>3. CASE \E id \in 1 .. MaxLease : Grants(id) /\ renewGot' = [renewGot EXCEPT ![t] = 0] /\ untold' = TRUE
    BY <2>1, <2>3, GrantsTyped DEF OnlyOurs, LeaseFollowed
  <2>4. CASE renewGot' = [renewGot EXCEPT ![t] = 0] /\ UNCHANGED <<onBoard, untold>>
    BY <2>1, <2>4 DEF OnlyOurs, LeaseFollowed, LeaseIsKnown, Brings, Renewing
  <2> QED BY <1>2, <2>2, <2>3, <2>4 DEF RenewServed
<1>3. CASE RenewStores(t)
  BY <1>3 DEF RenewStores, OnlyOurs, LeaseFollowed, LeaseIsKnown, Brings, Renewing
<1> QED BY <1>1, <1>2, <1>3

LEMMA ReleaseFollows ==
    ASSUME LeaseStep, ReleaseLease \/ Joined
    PROVE  LeaseStep'
<1> USE VisionAssumption DEF LeaseStep, LeaseShape, onBoard
<1>1. CASE ReleaseLease
  BY <1>1 DEF ReleaseLease, OnlyOurs, LeaseFollowed, LeaseIsKnown, Brings, Renewing
<1>2. CASE Joined
  <2>1. ~overlap' => ~overlap /\ Thread = "ended"
    BY <1>2, Zenon DEF Joined
  <2>2. /\ renewer' = "none" /\ held' = 0
        /\ UNCHANGED <<lastLease, renewAt, renewGot>>
        /\ leasePc' = "idle"
    BY <1>2 DEF Joined
  <2>3. \/ held = 0 /\ UNCHANGED <<boardLease, holder, untold>>
        \/ held # 0 /\ boardLease = held /\ boardLease' = 0 /\ holder' = "nobody" /\ UNCHANGED untold
        \/ held # 0 /\ boardLease # held /\ UNCHANGED <<boardLease, holder, untold>>
        \/ untold' /\ UNCHANGED <<boardLease, holder>>
    BY <1>2, Zenon DEF Joined
  <2>4. LeaseShape'
    BY <2>2, <2>3
  <2>5. ~overlap' => \A t \in Renewers : renewAt[t] \in {"none", "ended"}
    BY <2>1 DEF Thread, OnlyOurs, ThreadStates
  <2>6. OnlyOurs'
    BY <2>2, <2>5 DEF OnlyOurs
  <2>7. LeaseFollowed'
    BY <2>1, <2>2, <2>3, <2>5 DEF LeaseFollowed, LeaseIsKnown, Brings, Renewing
  <2> QED BY <2>4, <2>6, <2>7
<1> QED BY <1>1, <1>2

(* A request that is sent a second time has dropped the refused token, so the     *)
(* second attempt is with a token of its own.                                     *)
TokenShape ==
    /\ attempt \in 0 .. 2
    /\ attempt = 2 => cloudToken = "none"
    /\ refused # "yes"

LEMMA RequestFollows ==
    ASSUME TokenShape, TokenDies \/ Request \/ \E renewable, minted \in BOOLEAN : Attempt(renewable, minted)
    PROVE  TokenShape' /\ UNCHANGED leaseVars
<1> USE DEF TokenShape
<1>1. CASE TokenDies \/ Request
  BY <1>1 DEF TokenDies, Request
<1>2. ASSUME NEW renewable \in BOOLEAN, NEW minted \in BOOLEAN, Attempt(renewable, minted)
      PROVE TokenShape' /\ UNCHANGED leaseVars
  <2> DEFINE usable == cloudToken = "good" \/ (cloudToken = "none" /\ minted)
  <2>1. attempt \in {1, 2} /\ UNCHANGED leaseVars /\ (~renewable => cloudToken # "none")
    BY <1>2, Zenon DEF Attempt
  <2>2. CASE usable
    <3>1. attempt' = 0 /\ refused' = "no"
      BY <1>2, <2>2, Zenon DEF Attempt
    <3> QED BY <2>1, <3>1
  <2>3. CASE ~usable /\ renewable /\ attempt = 1
    <3>1. attempt' = 2 /\ refused' = "no" /\ cloudToken' = "none"
      BY <1>2, <2>3, Zenon DEF Attempt
    <3> QED BY <2>1, <3>1
  <2>4. CASE ~usable /\ ~(renewable /\ attempt = 1)
    <3>1. /\ attempt' = 0
          /\ refused' = IF ~renewable THEN "own" ELSE IF cloudToken = "none" THEN "with_new" ELSE "yes"
      BY <1>2, <2>4, Zenon DEF Attempt
    <3>2. renewable => cloudToken = "none"
      BY <2>1, <2>4
    <3> QED BY <2>1, <3>1, <3>2
  <2> QED BY <2>2, <2>3, <2>4
<1> QED BY <1>1, <1>2

LEMMA AtMostOneRenews ==
    ASSUME LeaseShape, OnlyOurs
    PROVE  OneRenewer
<1> DEFINE active == {t \in Renewers : renewAt[t] \notin {"none", "ended"}}
<1> SUFFICES ASSUME ~overlap PROVE ~(Cardinality(active) > 1)
  BY DEF OneRenewer
<1>1. active \subseteq {renewer}
  BY DEF OnlyOurs
<1>2. IsFiniteSet({renewer}) /\ Cardinality({renewer}) = 1
  BY FS_Singleton
<1>3. Cardinality(active) <= 1
  BY <1>1, <1>2, FS_Subset
<1>4. IsFiniteSet(active)
  BY <1>1, <1>2, FS_Subset
<1>5. Cardinality(active) \in Nat
  BY <1>4, FS_CardinalityType
<1> QED BY <1>3, <1>5

LEMMA VisionShown == LeaseStep /\ TokenShape => VisionInv
<1> SUFFICES ASSUME LeaseStep, TokenShape PROVE VisionInv
  OBVIOUS
<1>1. VisionTypeOK
  BY DEF LeaseStep, LeaseShape, TokenShape, VisionTypeOK
<1>2. ReleasedBoardIsFree
  BY VisionAssumption DEF LeaseStep, LeaseFollowed, LeaseIsKnown, LeaseShape, ReleasedBoardIsFree, Brings
<1>3. CarriesTheLease
  BY VisionAssumption DEF LeaseStep, LeaseFollowed, LeaseIsKnown, LeaseShape, CarriesTheLease, Brings
<1>4. RefusedTwice
  BY DEF TokenShape, RefusedTwice
<1> QED BY <1>1, <1>2, <1>3, <1>4, AtMostOneRenews DEF VisionInv, LeaseStep

LEMMA LeaseStays ==
    ASSUME LeaseStep, UNCHANGED leaseVars
    PROVE  LeaseStep'
BY DEF leaseVars, LeaseStep, LeaseShape, OnlyOurs, LeaseFollowed, LeaseIsKnown, Brings, Renewing

LEMMA VisionStep == LeaseStep /\ TokenShape /\ [VisionNext]_visionVars => LeaseStep' /\ TokenShape'
<1> SUFFICES ASSUME LeaseStep, TokenShape, [VisionNext]_visionVars PROVE LeaseStep' /\ TokenShape'
  OBVIOUS
<1>1. CASE \/ Expires \/ OthersTake \/ AcquireLease \/ AcquireUntold \/ ReleaseLease \/ Joined
           \/ \E t \in Renewers : RenewWakes(t) \/ RenewServed(t) \/ RenewStores(t)
  <2>1. LeaseStep'
    BY <1>1, BoardFollows, AcquireFollows, UntoldFollows, ReleaseFollows, RenewFollows
  <2>2. UNCHANGED requestVars
    BY <1>1, Zenon DEF Expires, OthersTake, AcquireLease, AcquireUntold, ReleaseLease, Joined,
       RenewWakes, RenewServed, RenewStores
  <2> QED BY <2>1, <2>2 DEF TokenShape, requestVars
<1>2. CASE TokenDies \/ Request \/ \E renewable, minted \in BOOLEAN : Attempt(renewable, minted)
  <2>1. TokenShape' /\ UNCHANGED leaseVars
    BY <1>2, RequestFollows
  <2> QED BY <2>1, LeaseStays
<1>3. CASE UNCHANGED visionVars
  <2>1. UNCHANGED leaseVars /\ UNCHANGED requestVars
    BY <1>3 DEF visionVars
  <2> QED BY <2>1, LeaseStays DEF TokenShape, requestVars
<1> QED BY <1>1, <1>2, <1>3, Zenon DEF VisionNext

(* A client of an AI Vision board leaves no lease behind, carries the lease the   *)
(* board has, runs one renewal thread and gives a request up only after a token   *)
(* of its own, in every order of its threads, the board and other clients, but    *)
(* for what a lost answer or a renewal that outlives its release excuses          *)
(* (aivision/client.py, acquire_lease, _renew_loop and release_lease).            *)
THEOREM BoardLeaseFollows == VisionSpec => []VisionInv
<1>1. VisionInit => LeaseStep /\ TokenShape
  <2> SUFFICES ASSUME VisionInit PROVE LeaseStep /\ TokenShape
    OBVIOUS
  <2>1. LeaseShape /\ TokenShape
    BY VisionAssumption DEF VisionInit, LeaseShape, TokenShape, ThreadStates
  <2>2. OnlyOurs /\ LeaseFollowed
    BY DEF VisionInit, OnlyOurs, LeaseFollowed, LeaseIsKnown, Brings, Renewing
  <2> QED BY <2>1, <2>2 DEF LeaseStep
<1> QED BY <1>1, VisionStep, VisionShown, PTL DEF VisionSpec

-----------------------------------------------------------------------------
(* The analog calls: any voltages and waveforms. *)

BenchPcs == {"idle", "follow", "take", "play", "routeplay", "zero"}
CallRecord == [path : AnalogPaths \cup DacPaths \cup {"keep"}, then : {"idle", "take"}, told : AdcRanges,
               own : AdcRanges \cup {"none"}, handle : 0 .. MaxWaves, named : BOOLEAN]
HandleRecord == [loop : BOOLEAN, state : {"none", "live", "failed"}]

DoubtsAre == rangeDoubt \in BOOLEAN /\ routeDoubt \in BOOLEAN /\ lagged \in BOOLEAN

(* The call under way: the commands it has still to send, and to which waveform.  *)
CallIs ==
    /\ benchPc \in BenchPcs /\ benchCall \in CallRecord
    /\ benchPc = "idle" => benchCall = NoBenchCall
    /\ benchPc # "take" => benchCall.own = "none"
    /\ benchPc \in {"play", "routeplay"} =>
          benchCall.path \in DacPaths /\ benchCall.handle \in 1 .. MaxWaves
    /\ benchPc = "zero" => benchCall.handle \in 1 .. MaxWaves

WavesAre ==
    /\ loopAt \in {"zero", "busy", "left"}
    /\ handles \in [1 .. MaxWaves -> HandleRecord]
    /\ LoopReturns

(* The cached fit and the cached range are the same where the server did not     *)
(* come between; without a doubt that is the pod's, or while a reply is followed   *)
(* up the range it told is.                                                       *)
Fitted == AdcRanges \cup {"none"}
CacheIs ==
    /\ fit \in Fitted /\ fitFor \in Fitted /\ serverCaps \in [fit : Fitted, range : Fitted]
    /\ fit = "none" <=> fitFor = "none"
    /\ ~lagged => fit = fitFor

RangeKept ==
    /\ podRange \in AdcRanges /\ CacheIs
    /\ benchPc = "follow" /\ ~rangeDoubt => benchCall.told = podRange
    /\ benchPc # "follow" /\ ~rangeDoubt /\ ~lagged => fit \in {"none", podRange}
    /\ benchCall.own # "none" /\ ~rangeDoubt => benchCall.own = podRange
    /\ ~misread

(* Without a doubt the output that is on is remembered as routed, or will be when *)
(* the reply has been followed up; a waveform on its way has that output.         *)
Pending == benchPc = "follow" /\ MovesDac(benchCall.path)
RouteKept ==
    /\ output \in Outputs /\ routed \in DacPaths \cup {"none"}
    /\ Pending /\ ~routeDoubt /\ output # "off" => RoutedBy(benchCall.path) = output
    /\ ~Pending /\ ~routeDoubt /\ output # "off" => routed = output
    /\ benchPc = "play" /\ ~benchCall.named /\ ~routeDoubt => output \in {"off", benchCall.path}
    /\ ~strayed

(* What every step of the client, the pod and others keeps.                       *)
AnalogKept == CallIs /\ WavesAre /\ RangeKept /\ RouteKept

-----------------------------------------------------------------------------
(* The helpers of the model.                                                      *)
LEMMA DoubtsStay ==
    /\ RangeUntold => (rangeDoubt => rangeDoubt') /\ (podRange' # podRange => rangeDoubt')
    /\ RouteUntold => (routeDoubt => routeDoubt') /\ (output' # output => routeDoubt')
BY Zenon DEF RangeUntold, RouteUntold

LEMMA LoopbackIs ==
    /\ Loopback("cal1") = "5v" /\ Loopback("cal2") = "12v"
    /\ \A p : p \notin {"cal1", "cal2"} => Loopback(p) = p
BY DEF Loopback

LEMMA PathsAre ==
    /\ \A p \in AnalogPaths \cup DacPaths \cup {"keep"} :
          MovesDac(p) => p = "current_out" \/ p = "off" \/ Loopback(p) \in Volts
    /\ \A p \in AdcPaths \cup {"keep"} : ~MovesDac(p)
    /\ \A p \in DacPaths : MovesDac(p) /\ Loopback(p) = p
    /\ "off" \notin DacPaths /\ "none" \notin DacPaths /\ "off" \notin AdcPaths
    /\ AdcPaths \cup {"off"} \cup DacPaths \subseteq AnalogPaths
BY LoopbackIs, AnalogAssumption
   DEF AnalogAssumption, AnalogPaths, AdcPaths, DacPaths, MovesDac

LEMMA RoutedByIs ==
    \A p \in AnalogPaths \cup DacPaths \cup {"keep"} :
        /\ ~MovesDac(p) => RoutedBy(p) = routed
        /\ p = "off" => RoutedBy(p) = "none"
        /\ MovesDac(p) /\ p # "off" => RoutedBy(p) = Loopback(p)
<1> SUFFICES ASSUME NEW p \in AnalogPaths \cup DacPaths \cup {"keep"}
             PROVE  /\ ~MovesDac(p) => RoutedBy(p) = routed
                    /\ p = "off" => RoutedBy(p) = "none"
                    /\ MovesDac(p) /\ p # "off" => RoutedBy(p) = Loopback(p)
  BY Zenon
<1>1. p = "off" => MovesDac(p)
  BY DEF MovesDac, AdcPaths
<1>2. CASE ~MovesDac(p)
  BY <1>1, <1>2 DEF RoutedBy
<1>3. CASE MovesDac(p) /\ p = "off"
  BY <1>1, <1>3 DEF RoutedBy
<1>4. CASE MovesDac(p) /\ p # "off"
  BY <1>1, <1>4 DEF RoutedBy
<1> QED BY <1>2, <1>3, <1>4

(* The call that is begun for a path p.                                           *)
Begun(p, then, asTold) == [NoBenchCall EXCEPT !.path = p, !.then = then, !.told = asTold]

LEMMA CallsBegin ==
    /\ NoBenchCall \in CallRecord /\ NoBenchCall.own = "none" /\ NoBenchCall.path = "off"
    /\ \A p \in AnalogPaths \cup DacPaths \cup {"keep"}, then \in {"idle", "take"}, asTold \in AdcRanges :
          /\ Begun(p, then, asTold) \in CallRecord /\ Begun(p, then, asTold).path = p
          /\ Begun(p, then, asTold).told = asTold /\ Begun(p, then, asTold).own = "none"
<1>1. NoBenchCall \in CallRecord /\ NoBenchCall.own = "none" /\ NoBenchCall.path = "off"
  BY PathsAre, AnalogAssumption DEF AnalogAssumption, NoBenchCall, CallRecord, AdcRanges
<1>2. ASSUME NEW p \in AnalogPaths \cup DacPaths \cup {"keep"}, NEW then \in {"idle", "take"}, NEW asTold \in AdcRanges
      PROVE  /\ Begun(p, then, asTold) \in CallRecord /\ Begun(p, then, asTold).path = p
             /\ Begun(p, then, asTold).told = asTold /\ Begun(p, then, asTold).own = "none"
  <2> DEFINE a == [NoBenchCall EXCEPT !.path = p]
             b == [a EXCEPT !.then = then]
             c == [b EXCEPT !.told = asTold]
  <2>1. a \in CallRecord /\ a.path = p /\ a.own = "none"
    BY <1>1 DEF CallRecord
  <2>2. b \in CallRecord /\ b.path = p /\ b.then = then /\ b.own = "none"
    <3> HIDE DEF a
    <3> QED BY <2>1 DEF CallRecord
  <2>3. c \in CallRecord /\ c.path = p /\ c.then = then /\ c.told = asTold /\ c.own = "none"
    <3> HIDE DEF b
    <3> QED BY <2>2 DEF CallRecord
  <2>4. c = Begun(p, then, asTold)
    BY DEF Begun
  <2> QED BY <2>3, <2>4, Zenon
<1> QED BY <1>1, <1>2, Zenon

LEMMA FlagsOfBench ==
    ASSUME DoubtsAre, BenchNext \/ UNCHANGED benchVars
    PROVE  DoubtsAre'
<1> USE DEF DoubtsAre, range, cached, routing, waves, verdicts, bench, RangeUntold, RouteUntold
<1>1. CASE UNCHANGED benchVars \/ Foreign \/ Announce
  BY <1>1, Zenon DEF benchVars, Foreign, Announce
<1>2. ASSUME NEW reply, NEW p, NEW then, NEW rng, AnalogPath(p, rng, then, reply) PROVE DoubtsAre'
  BY <1>2, Zenon DEF AnalogPath, PathAnswered
<1>3. ASSUME NEW reply, NEW then, NEW rng, AdcRange(rng, then, reply) PROVE DoubtsAre'
  BY <1>3, Zenon DEF AdcRange, Learnt
<1>4. ASSUME NEW reply, NEW read, NEW block, Follow(reply, read, block) PROVE DoubtsAre'
  <2>1. rangeDoubt' \in BOOLEAN /\ lagged' \in BOOLEAN
    BY <1>4, Zenon DEF Follow, Learnt, CapsRead
  <2>2. routeDoubt' \in BOOLEAN
    BY <1>4, Zenon DEF Follow
  <2> QED BY <2>1, <2>2
<1>5. ASSUME NEW reply, NEW rng, NEW volts, Measure(rng, volts, reply) PROVE DoubtsAre'
  BY <1>5, Zenon DEF Measure, PathAnswered
<1>6. ASSUME NEW reply, NEW block, RefreshCapabilities(reply, block) \/ OwnFit(reply) \/ CurrentOut(reply) \/ Zero(reply)
      PROVE DoubtsAre'
  BY <1>6, Zenon DEF RefreshCapabilities, CapsRead, OwnFit, CurrentOut, Zero
<1>7. ASSUME NEW read, NEW block, Take(read, block) PROVE DoubtsAre'
  BY <1>7, Zenon DEF Take, CapsRead
<1>8. ASSUME NEW reply, NEW p, DacOutput(p, reply) PROVE DoubtsAre'
  BY <1>8, Zenon DEF DacOutput
<1>9. ASSUME NEW reply, NEW w, NEW p, NEW route, NEW whole, Generate(w, p, route, whole, reply) PROVE DoubtsAre'
  BY <1>9, Zenon DEF Generate, Route
<1>10. ASSUME NEW reply, NEW w, NEW p, Stop(w, reply) \/ Play(reply) \/ ServerReplay(w, p, reply) PROVE DoubtsAre'
  BY <1>10, Zenon DEF Stop, Play, Route, ServerReplay
<1> QED BY <1>1, <1>2, <1>3, <1>4, <1>5, <1>6, <1>7, <1>8, <1>9, <1>10, Zenon DEF BenchNext, AdcRead, AdcRangeTest

LEMMA Returned ==
    ASSUME Returns
    PROVE  CallIs' /\ benchPc' = "idle" /\ benchCall' = NoBenchCall /\ benchCall'.own = "none"
BY CallsBegin DEF Returns, CallIs, BenchPcs

(* What comes of a path's reply.                                                  *)
LEMMA SampleIsOurs ==
    ASSUME NEW p \in AnalogPaths \cup DacPaths \cup {"keep"}, NEW then \in {"idle", "take"}, NEW reply,
           PathAnswered(p, then, reply), podRange' \in AdcRanges
    PROVE  /\ CallIs' /\ benchCall'.own = "none"
           /\ \/ /\ reply = "ok" /\ benchPc' = "follow" /\ benchCall'.path = p /\ benchCall'.told = podRange'
                 /\ routeDoubt' => routeDoubt
                 /\ routeDoubt /\ ~MovesDac(p) => routeDoubt'
              \/ RangeUntold /\ RouteUntold /\ benchPc' = "idle" /\ benchCall' = NoBenchCall
<1>1. CASE reply = "ok"
  <2>1. /\ benchPc' = "follow"
        /\ benchCall' = [NoBenchCall EXCEPT !.path = p, !.then = then, !.told = podRange']
        /\ (routeDoubt' <=> routeDoubt /\ ~MovesDac(p))
    BY <1>1, Zenon DEF PathAnswered
  <2>2. /\ benchCall' \in CallRecord /\ benchCall'.path = p /\ benchCall'.told = podRange'
        /\ benchCall'.own = "none"
    <3>1. benchCall' = Begun(p, then, podRange')
      BY <2>1, Zenon DEF Begun
    <3> QED BY <3>1, CallsBegin
  <2>3. CallIs'
    BY <2>1, <2>2 DEF CallIs, BenchPcs
  <2> QED BY <1>1, <2>1, <2>2, <2>3, Zenon
<1>2. CASE reply # "ok"
  <2>1. RangeUntold /\ RouteUntold /\ Returns
    BY <1>2, Zenon DEF PathAnswered
  <2> QED BY <2>1, Returned
<1> QED BY <1>1, <1>2

-----------------------------------------------------------------------------
(* The calls that go to the paths and the range.                                  *)
LEMMA RangeOrPathCall ==
    ASSUME AnalogKept, NEW p \in AnalogPaths \cup DacPaths \cup {"keep"}, NEW then \in {"idle", "take"}, NEW reply,
           Ready, PathAnswered(p, then, reply), podRange' \in AdcRanges, output' \in Outputs,
           MovesDac(p) => output' \in {"off", Loopback(p)} \/ reply # "ok",
           ~MovesDac(p) => output' \in {output, "off"},
           UNCHANGED <<serverCaps, cached, routed, waves, verdicts>>
    PROVE  AnalogKept'
<1> USE DEF AnalogKept
<1>1. /\ CallIs' /\ benchCall'.own = "none"
      /\ \/ /\ reply = "ok" /\ benchPc' = "follow" /\ benchCall'.path = p /\ benchCall'.told = podRange'
            /\ (routeDoubt' => routeDoubt) /\ (routeDoubt /\ ~MovesDac(p) => routeDoubt')
         \/ RangeUntold /\ RouteUntold /\ benchPc' = "idle" /\ benchCall' = NoBenchCall
  BY SampleIsOurs
<1>2. /\ UNCHANGED <<serverCaps, fit, fitFor, lagged, routed, loopAt, handles, misread, strayed>>
      /\ benchPc = "idle"
  BY Zenon DEF waves, verdicts, cached, Ready
<1>3. WavesAre'
  BY <1>2 DEF WavesAre, LoopReturns
<1>4. RangeKept'
  BY <1>1, <1>2, DoubtsStay DEF RangeKept, CacheIs
<1>5. RoutedBy(p)' = RoutedBy(p) /\ ~Pending
  BY <1>2 DEF RoutedBy, Pending
<1>6. RouteKept'
  <2>1. CASE reply = "ok" /\ benchPc' = "follow"
    <3>1. benchCall'.path = p /\ (Pending' <=> MovesDac(p))
      BY <1>1, <2>1 DEF Pending
    <3>2. CASE MovesDac(p)
      <4>1. p = "off" => RoutedBy(p) = "none"
        BY RoutedByIs
      <4>2. p # "off" => RoutedBy(p) = Loopback(p)
        BY <3>2, RoutedByIs
      <4>3. RoutedBy(benchCall.path)' = RoutedBy(p)
        BY <1>2, <3>1 DEF RoutedBy
      <4> QED BY <1>1, <1>2, <2>1, <3>1, <3>2, <4>1, <4>2, <4>3, LoopbackIs DEF RouteKept
    <3>3. CASE ~MovesDac(p)
      BY <1>1, <1>2, <1>5, <2>1, <3>1, <3>3 DEF RouteKept
    <3> QED BY <3>2, <3>3
  <2>2. CASE RouteUntold /\ benchPc' = "idle"
    BY <1>2, <1>5, <2>2, DoubtsStay DEF RouteKept, Pending
  <2> QED BY <1>1, <2>1, <2>2
<1> QED BY <1>1, <1>3, <1>4, <1>6

LEMMA AnalogPathKeeps ==
    ASSUME AnalogKept, NEW p \in AnalogPaths, NEW rng \in AdcRanges, NEW then \in {"idle", "take"},
           NEW reply \in WireOutcomes, AnalogPath(p, rng, then, reply)
    PROVE  AnalogKept'
<1>1. /\ Ready /\ PathAnswered(p, then, reply) /\ UNCHANGED <<serverCaps, cached, routed, waves, verdicts>>
      /\ PodRange(rng, reply)
      /\ PodOutput(CASE p \in AdcPaths -> output [] p = "current_out" -> "off"
                     [] OTHER -> Loopback(p), reply)
  BY Zenon DEF AnalogPath
<1>2. podRange' \in AdcRanges
  <2>1. podRange \in AdcRanges
    BY DEF AnalogKept, RangeKept
  <2> QED BY <1>1, <2>1 DEF PodRange
<1>3. output \in Outputs /\ "off" \in Outputs
  BY DEF AnalogKept, RouteKept, Outputs
<1>4. CASE p \in AdcPaths
  <2>1. output' = output /\ ~MovesDac(p)
    BY <1>1, <1>4 DEF PodOutput, MovesDac, AdcPaths
  <2> QED BY <1>1, <1>2, <1>3, <2>1, RangeOrPathCall
<1>5. CASE p = "current_out"
  <2>1. output' = "off" \/ (output' = output /\ reply = "failed")
    <3> DEFINE to == CASE p \in AdcPaths -> output [] p = "current_out" -> "off" [] OTHER -> Loopback(p)
    <3>1. to = "off"
      BY <1>5 DEF AdcPaths
    <3>2. PodOutput(to, reply)
      BY <1>1
    <3> HIDE DEF to
    <3> QED BY <3>1, <3>2 DEF PodOutput
  <2>2. MovesDac(p)
    BY <1>5 DEF MovesDac, AdcPaths
  <2> QED BY <1>1, <1>2, <1>3, <2>1, <2>2, RangeOrPathCall
<1>6. CASE p \notin AdcPaths /\ p # "current_out"
  <2>1. output' = Loopback(p) \/ (output' = output /\ reply = "failed")
    BY <1>1, <1>6 DEF PodOutput
  <2>2. p # "keep"
    BY AnalogAssumption DEF AnalogAssumption, AnalogPaths, AdcPaths, DacPaths
  <2>3. MovesDac(p)
    BY <1>6, <2>2 DEF MovesDac
  <2>4. Loopback(p) \in Outputs
    BY <1>6, <2>3, PathsAre, LoopbackIs DEF Outputs
  <2> QED BY <1>1, <1>2, <1>3, <2>1, <2>3, <2>4, RangeOrPathCall
<1> QED BY <1>4, <1>5, <1>6

LEMMA MeasureKeeps ==
    ASSUME AnalogKept, NEW rng \in AdcRanges, NEW volts \in {output, "off"}, NEW reply \in WireOutcomes,
           Measure(rng, volts, reply)
    PROVE  AnalogKept'
<1>1. /\ Ready /\ PathAnswered("keep", "idle", reply) /\ UNCHANGED <<serverCaps, cached, routed, waves, verdicts>>
      /\ PodRange(rng, reply) /\ PodOutput(volts, reply)
  BY Zenon DEF Measure
<1>2. podRange' \in AdcRanges /\ output' \in Outputs /\ output' \in {output, "off"}
  <2>1. podRange \in AdcRanges /\ output \in Outputs /\ "off" \in Outputs
    BY DEF AnalogKept, RangeKept, RouteKept, Outputs
  <2> QED BY <1>1, <2>1 DEF PodRange, PodOutput
<1>3. ~MovesDac("keep")
  BY DEF MovesDac
<1> QED BY <1>1, <1>2, <1>3, RangeOrPathCall

(* What a step leaves alone, stays as it was.                                     *)
LEMMA RangeStays ==
    ASSUME RangeKept, UNCHANGED <<range, misread>>, benchPc # "follow", benchPc' # "follow",
           benchCall'.own \in {"none", benchCall.own}
    PROVE  RangeKept'
BY DEF RangeKept, CacheIs, range, cached

LEMMA RoutingStays ==
    ASSUME RouteKept, UNCHANGED <<routing, strayed>>, benchPc # "follow", benchPc' \notin {"follow", "play"}
    PROVE  RouteKept'
BY DEF RouteKept, routing, Pending

LEMMA WavesStay ==
    ASSUME WavesAre, UNCHANGED waves, benchPc # "zero"
    PROVE  WavesAre'
BY DEF WavesAre, waves, LoopReturns

(* The handles of a waveform that is live, or whose stop failed.                  *)
LEMMA HandlesAre ==
    /\ NoHandle \in HandleRecord
    /\ \A path : LiveHandle(path) \in HandleRecord
    /\ LiveHandle("current_out").loop
    /\ \A h \in HandleRecord : /\ FailedHandle(h) \in HandleRecord
                              /\ FailedHandle(h).loop = h.loop /\ FailedHandle(h).state = "failed"
<1>1. NoHandle \in HandleRecord
  BY DEF NoHandle, HandleRecord
<1>2. ASSUME NEW path PROVE LiveHandle(path) \in HandleRecord
  <2>1. (path = "current_out") \in BOOLEAN
    BY Zenon
  <2> QED BY <2>1, Zenon DEF LiveHandle, HandleRecord
<1>3. LiveHandle("current_out").loop
  BY DEF LiveHandle
<1>4. ASSUME NEW h \in HandleRecord
      PROVE  /\ FailedHandle(h) \in HandleRecord
             /\ FailedHandle(h).loop = h.loop /\ FailedHandle(h).state = "failed"
  BY DEF FailedHandle, HandleRecord
<1> QED BY <1>1, <1>2, <1>3, <1>4

LEMMA AdcRangeKeeps ==
    ASSUME AnalogKept, NEW rng \in AdcRanges, NEW then \in {"idle", "take"},
           NEW reply \in WireOutcomes, AdcRange(rng, then, reply)
    PROVE  AnalogKept'
<1> USE DEF AnalogKept
<1>1. /\ benchPc = "idle" /\ benchCall = NoBenchCall /\ PodRange(rng, reply)
      /\ UNCHANGED <<serverCaps, routing, waves, misread, strayed>>
  BY DEF AdcRange, Ready, CallIs, verdicts
<1>2. podRange' \in AdcRanges
  BY <1>1 DEF PodRange, RangeKept, AdcRanges
<1>3. CASE reply = "ok"
  <2>1. Learnt /\ benchPc' = then /\ benchCall' = benchCall
    BY <1>3, Zenon DEF AdcRange
  <2>2. CallIs'
    BY <1>1, <2>1, CallsBegin DEF CallIs, BenchPcs
  <2>3. RangeKept'
    <3>1. CASE fit' = podRange' /\ fitFor' = podRange' /\ lagged' = FALSE /\ rangeDoubt' = FALSE
      BY <1>1, <1>2, <2>1, <3>1, CallsBegin DEF RangeKept, CacheIs, Fitted, AdcRanges
    <3>2. CASE fit = "none" /\ UNCHANGED cached /\ RangeUntold
      BY <1>1, <1>2, <2>1, <3>2, CallsBegin DEF RangeKept, CacheIs, cached
    <3> QED BY <2>1, <3>1, <3>2, Zenon DEF Learnt
  <2> QED BY <1>1, <2>1, <2>2, <2>3, RoutingStays, WavesStay
<1>4. CASE reply # "ok"
  <2>1. RangeUntold /\ Returns /\ UNCHANGED cached
    BY <1>4, Zenon DEF AdcRange
  <2>2. CallIs' /\ benchPc' = "idle" /\ benchCall' = NoBenchCall /\ benchCall'.own = "none"
    BY <2>1, Returned
  <2>3. RangeKept'
    BY <1>1, <1>2, <2>1, <2>2, DoubtsStay DEF RangeKept, CacheIs, cached
  <2> QED BY <1>1, <2>2, <2>3, RoutingStays, WavesStay
<1> QED BY <1>3, <1>4

(* Capabilities that are read are of the pod's range, or the server's word went   *)
(* over it.                                                                       *)
LEMMA ReadIs ==
    ASSUME NEW block \in CapsBlocks, CapsRead(block), podRange \in AdcRanges, CacheIs
    PROVE  /\ fit' \in AdcRanges /\ fitFor' \in AdcRanges
           /\ ~lagged' => fit' = podRange /\ fitFor' = podRange
<1>1. block.fit \in Fitted /\ block.range \in Fitted
  BY DEF CapsBlocks, NoBlock, CacheIs, Fitted
<1>2. fit' = Merged(block.fit) /\ fitFor' = Merged(block.range) /\ lagged' = (fit' # podRange \/ fitFor' # podRange)
  BY Zenon DEF CapsRead
<1> QED BY <1>1, <1>2 DEF Merged, Fitted, AdcRanges

LEMMA RefreshKeeps ==
    ASSUME AnalogKept, NEW reply \in WireOutcomes, NEW block \in CapsBlocks, RefreshCapabilities(reply, block)
    PROVE  AnalogKept'
<1> USE DEF AnalogKept
<1>1. /\ benchPc = "idle" /\ benchCall = NoBenchCall
      /\ UNCHANGED <<podRange, serverCaps, routing, waves, misread, strayed, benchPc, benchCall>>
  BY DEF RefreshCapabilities, Ready, CallIs, verdicts, bench
<1>2. \/ CapsRead(block) /\ ~rangeDoubt'
      \/ fit' = "none" /\ fitFor' = "none" /\ lagged' = FALSE
  BY Zenon DEF RefreshCapabilities
<1>3. RangeKept'
  <2>1. CASE CapsRead(block)
    BY <1>1, <2>1, ReadIs, CallsBegin DEF RangeKept, CacheIs, Fitted, AdcRanges
  <2>2. CASE fit' = "none" /\ fitFor' = "none" /\ lagged' = FALSE
    BY <1>1, <2>2, CallsBegin DEF RangeKept, CacheIs, Fitted
  <2> QED BY <1>2, <2>1, <2>2
<1>4. CallIs'
  BY <1>1 DEF CallIs
<1> QED BY <1>1, <1>3, <1>4, RoutingStays, WavesStay

LEMMA FollowKeeps ==
    ASSUME AnalogKept, NEW reply \in WireOutcomes, NEW read \in BOOLEAN, NEW block \in CapsBlocks,
           Follow(reply, read, block)
    PROVE  AnalogKept'
<1> USE DEF AnalogKept
<1>1. /\ benchPc = "follow" /\ UNCHANGED <<podRange, serverCaps, output, waves, misread, strayed>>
      /\ benchCall \in CallRecord /\ benchCall.own = "none"
  BY DEF Follow, CallIs, verdicts
<1>2. benchCall.path \in AnalogPaths \cup DacPaths \cup {"keep"} /\ benchCall.then \in {"idle", "take"}
  BY <1>1 DEF CallRecord
<1>3. \/ CapsRead(block)
      \/ /\ fitFor = benchCall.told /\ UNCHANGED <<fit, fitFor, rangeDoubt>>
         /\ lagged' = (lagged /\ fit # fitFor)
      \/ fit' = podRange /\ fitFor' = podRange /\ lagged' = FALSE
      \/ fit = "none" /\ UNCHANGED <<fit, fitFor, lagged>>
      \/ rangeDoubt' /\ UNCHANGED <<fit, fitFor, lagged>>
  BY <1>1, Zenon DEF Follow, Learnt, cached
<1>4. CacheIs' /\ (~rangeDoubt' /\ ~lagged' => fit' \in {"none", podRange})
  <2>1. CASE CapsRead(block)
    BY <1>1, <2>1, ReadIs DEF RangeKept, CacheIs, Fitted, AdcRanges
  <2>2. CASE /\ fitFor = benchCall.told /\ UNCHANGED <<fit, fitFor, rangeDoubt>>
             /\ lagged' = (lagged /\ fit # fitFor)
    BY <1>1, <2>2 DEF RangeKept, CacheIs
  <2>3. CASE fit' = podRange /\ fitFor' = podRange /\ lagged' = FALSE
    BY <1>1, <2>3 DEF RangeKept, CacheIs, Fitted, AdcRanges
  <2>4. CASE (fit = "none" \/ rangeDoubt') /\ UNCHANGED <<fit, fitFor, lagged>>
    BY <1>1, <2>4 DEF RangeKept, CacheIs
  <2> QED BY <1>3, <2>1, <2>2, <2>3, <2>4
<1>5. CASE reply = "ok"
  <2>1. /\ routed' = RoutedBy(benchCall.path) /\ routeDoubt' = routeDoubt
        /\ benchPc' = benchCall.then
        /\ benchCall' = IF benchCall.then = "take" THEN benchCall ELSE NoBenchCall
    BY <1>5, Zenon DEF Follow
  <2>2. CallIs' /\ benchCall'.own = "none"
    BY <1>1, <1>2, <2>1, CallsBegin DEF CallIs, BenchPcs
  <2>3. RangeKept'
    BY <1>1, <1>2, <1>4, <2>1, <2>2 DEF RangeKept
  <2>4. RouteKept'
    <3>1. routed' \in DacPaths \cup {"none"}
      <4>1. CASE ~MovesDac(benchCall.path)
        BY <1>2, <2>1, <4>1, RoutedByIs DEF RouteKept
      <4>2. CASE MovesDac(benchCall.path)
        <5>1. \/ benchCall.path = "off" \/ benchCall.path = "current_out" \/ Loopback(benchCall.path) \in Volts
          BY <1>2, <4>2, PathsAre
        <5> QED BY <1>2, <2>1, <4>2, <5>1, RoutedByIs, LoopbackIs DEF DacPaths
      <4> QED BY <4>1, <4>2
    <3>2. ~routeDoubt' /\ output # "off" => routed' = output
      BY <1>1, <1>2, <2>1, RoutedByIs DEF RouteKept, Pending
    <3> QED BY <1>1, <1>2, <2>1, <3>1, <3>2 DEF RouteKept, Pending
  <2> QED BY <1>1, <2>2, <2>3, <2>4, WavesStay
<1>6. CASE reply # "ok"
  <2>1. Returns /\ routed' = routed
    BY <1>6, Zenon DEF Follow
  <2>2. (routeDoubt => routeDoubt') /\ (MovesDac(benchCall.path) => routeDoubt')
    BY <1>6, Zenon DEF Follow
  <2>3. CallIs' /\ benchPc' = "idle" /\ benchCall' = NoBenchCall /\ benchCall'.own = "none"
    BY <2>1, Returned
  <2>4. RangeKept'
    BY <1>1, <1>4, <2>3 DEF RangeKept
  <2>5. RouteKept'
    BY <1>1, <2>1, <2>2, <2>3 DEF RouteKept, Pending
  <2> QED BY <1>1, <2>3, <2>4, <2>5, WavesStay
<1> QED BY <1>5, <1>6

LEMMA TakeKeeps ==
    ASSUME AnalogKept, NEW reply \in WireOutcomes, NEW read \in BOOLEAN, NEW block \in CapsBlocks,
           OwnFit(reply) \/ Take(read, block)
    PROVE  AnalogKept'
<1> USE DEF AnalogKept
<1>1. CASE OwnFit(reply) /\ reply = "ok"
  <2>1. /\ benchPc = "take" /\ benchPc' = "take" /\ benchCall' = [benchCall EXCEPT !.own = podRange]
        /\ UNCHANGED <<range, routing, waves, misread, strayed>>
    BY <1>1, Zenon DEF OwnFit, verdicts
  <2>2. benchCall \in CallRecord /\ podRange \in AdcRanges
    BY DEF CallIs, RangeKept
  <2>3. benchCall' \in CallRecord /\ benchCall'.own = podRange
    BY <2>1, <2>2 DEF CallRecord
  <2>4. CallIs'
    BY <2>1, <2>3 DEF CallIs, BenchPcs
  <2>5. RangeKept'
    BY <2>1, <2>3 DEF RangeKept, CacheIs, range, cached
  <2> QED BY <2>1, <2>4, <2>5, RoutingStays, WavesStay
<1>2. CASE OwnFit(reply) /\ reply # "ok"
  <2>1. benchPc = "take" /\ Returns /\ UNCHANGED <<range, routing, waves, misread, strayed>>
    BY <1>2, Zenon DEF OwnFit, verdicts
  <2> QED BY <2>1, Returned, RangeStays, RoutingStays, WavesStay
<1>3. CASE Take(read, block)
  <2> DEFINE own == benchCall.own # "none"
             fresh == fit = "none" /\ read
             scaled == IF own THEN benchCall.own ELSE IF fit' = "none" THEN block.fit ELSE fit'
             said == IF own THEN ~rangeDoubt ELSE fit' # "none" /\ ~lagged' /\ (fresh \/ ~rangeDoubt)
  <2>1. /\ benchPc \in {"take", "idle"} /\ Returns /\ UNCHANGED <<podRange, serverCaps, routing, waves, strayed>>
        /\ \/ fresh /\ CapsRead(block) /\ rangeDoubt' = FALSE
           \/ ~fresh /\ UNCHANGED <<fit, fitFor, lagged, rangeDoubt>>
    BY <1>3, Zenon DEF Take, Ready, cached
  <2>2. misread' => misread \/ (scaled \notin {"none", podRange} /\ said)
    BY <1>3, Zenon DEF Take
  <2>3. CallIs' /\ benchPc' = "idle" /\ benchCall' = NoBenchCall /\ benchCall'.own = "none"
    BY <2>1, Returned
  <2>4. CASE fresh /\ CapsRead(block) /\ rangeDoubt' = FALSE
    <3>1. /\ fit' \in AdcRanges /\ fitFor' \in AdcRanges
          /\ ~lagged' => fit' = podRange /\ fitFor' = podRange
      BY <2>4, ReadIs DEF RangeKept
    <3>2. ~misread'
      BY <2>1, <2>2, <3>1 DEF RangeKept
    <3> QED BY <2>1, <2>3, <2>4, <3>1, <3>2, RoutingStays, WavesStay DEF RangeKept, CacheIs, Fitted, AdcRanges
  <2>5. CASE ~fresh /\ UNCHANGED <<fit, fitFor, lagged, rangeDoubt>>
    <3>1. ~misread'
      BY <2>1, <2>2, <2>5 DEF RangeKept
    <3>2. RangeKept'
      BY <2>1, <2>3, <2>5, <3>1 DEF RangeKept, CacheIs
    <3> QED BY <2>1, <2>3, <3>2, RoutingStays, WavesStay
  <2> QED BY <2>1, <2>4, <2>5
<1> QED BY <1>1, <1>2, <1>3

-----------------------------------------------------------------------------
(* The calls that go to the outputs.                                              *)
LEMMA DacOutputKeeps ==
    ASSUME AnalogKept, NEW p \in Outputs, NEW reply \in WireOutcomes, DacOutput(p, reply)
    PROVE  AnalogKept'
<1> USE DEF AnalogKept
<1>1. /\ benchPc = "idle" /\ UNCHANGED <<range, waves, misread, strayed, benchPc, benchCall>>
      /\ PodOutput(p, reply)
  BY Zenon DEF DacOutput, Ready, verdicts, bench
<1>2. output' \in Outputs
  BY <1>1 DEF PodOutput, RouteKept
<1>3. CallIs'
  BY <1>1 DEF CallIs, waves
<1>4. RouteKept'
  <2>1. CASE reply = "ok"
    <3>1. routed' = (IF p = "off" THEN "none" ELSE p) /\ output' = p
      BY <1>1, <2>1 DEF DacOutput, PodOutput
    <3>2. p = "off" \/ p \in DacPaths
      BY DEF Outputs, DacPaths
    <3> QED BY <1>1, <1>2, <3>1, <3>2 DEF RouteKept, Pending
  <2>2. CASE reply # "ok"
    <3>1. RouteUntold /\ routed' = routed
      BY <2>2, Zenon DEF DacOutput
    <3> QED BY <1>1, <1>2, <3>1, DoubtsStay DEF RouteKept, Pending
  <2> QED BY <2>1, <2>2
<1> QED BY <1>1, <1>3, <1>4, RangeStays, WavesStay

LEMMA CurrentOutKeeps ==
    ASSUME AnalogKept, NEW reply \in WireOutcomes, CurrentOut(reply)
    PROVE  AnalogKept'
<1> USE DEF AnalogKept
<1>1. /\ benchPc = "idle" /\ UNCHANGED <<range, misread, strayed, benchPc, benchCall, handles, routed>>
      /\ PodOutput("off", reply)
  BY Zenon DEF CurrentOut, Ready, verdicts, bench
<1>2. output' = "off" \/ (output' = output /\ reply = "failed")
  BY <1>1, Zenon DEF PodOutput
<1>3. (routeDoubt => routeDoubt') /\ "off" \in Outputs
  BY Zenon DEF CurrentOut, Outputs
<1>4. CallIs' /\ RouteKept'
  BY <1>1, <1>2, <1>3 DEF CallIs, RouteKept, Pending
<1>5. loopAt' \in {loopAt, "busy"}
  BY Zenon DEF CurrentOut, LoopBusy
<1>6. WavesAre'
  BY <1>1, <1>5 DEF WavesAre, LoopReturns
<1> QED BY <1>1, <1>4, <1>6, RangeStays

(* A route that is answered is remembered, and is where the output is.            *)
LEMMA RouteIs ==
    ASSUME NEW p \in DacPaths, NEW reply, Route(p, reply), output \in Outputs, routed \in DacPaths \cup {"none"}
    PROVE  /\ output' \in Outputs /\ routed' \in DacPaths \cup {"none"}
           /\ reply # "failed" => output' \in {"off", p}
           /\ reply = "ok" => routed' = p
           /\ reply # "ok" => routed' = routed
           /\ reply # "ok" /\ (routeDoubt \/ output' # output) => routeDoubt'
<1>1. "off" \in Outputs /\ (p # "current_out" => p \in Outputs)
  BY DEF Outputs, DacPaths
<1>2. PodOutput(IF p = "current_out" THEN "off" ELSE p, reply)
  BY Zenon DEF Route
<1>3. reply = "ok" => routed' = p
  BY Zenon DEF Route
<1>4. reply # "ok" => RouteUntold /\ routed' = routed
  BY Zenon DEF Route
<1> QED BY <1>1, <1>2, <1>3, <1>4, DoubtsStay DEF PodOutput

LEMMA GenerateKeeps ==
    ASSUME AnalogKept, NEW w \in 1 .. MaxWaves, NEW p \in DacPaths \cup {"omitted"}, NEW route \in BOOLEAN,
           NEW whole \in BOOLEAN, NEW reply \in WireOutcomes, Generate(w, p, route, whole, reply)
    PROVE  AnalogKept'
<1> USE DEF AnalogKept
<1> DEFINE to == IF p = "omitted" THEN DefaultDacPath(route) ELSE p
           begun == [NoBenchCall EXCEPT !.path = to, !.handle = w, !.named = p # "omitted" /\ ~route]
<1>1. /\ benchPc = "idle" /\ to \in DacPaths /\ UNCHANGED <<range, waves, misread, strayed>>
      /\ IF route /\ ~whole THEN Route(to, reply) ELSE reply = "ok" /\ UNCHANGED routing
      /\ IF reply = "ok"
         THEN benchPc' = (IF route /\ whole THEN "routeplay" ELSE "play") /\ benchCall' = begun
         ELSE Returns
  BY Zenon DEF Generate, Ready, verdicts
<1>2. p = "omitted" /\ ~route => to = IF routed = "none" THEN "5v" ELSE routed
  BY <1>1, PathsAre DEF DefaultDacPath, DacPaths, AnalogAssumption
<1> HIDE DEF to
<1>3. /\ begun \in CallRecord /\ begun.path = to /\ begun.handle = w /\ begun.own = "none"
      /\ (begun.named <=> p # "omitted" /\ ~route)
  <2> DEFINE a == [NoBenchCall EXCEPT !.path = to]
             b == [a EXCEPT !.handle = w]
             n == p # "omitted" /\ ~route
             c == [b EXCEPT !.named = n]
  <2>1. a \in CallRecord /\ a.path = to /\ a.own = "none"
    BY <1>1, CallsBegin DEF CallRecord
  <2>2. b \in CallRecord /\ b.path = to /\ b.own = "none" /\ b.handle = w
    <3> HIDE DEF a
    <3>1. w \in 0 .. MaxWaves
      BY AnalogAssumption DEF AnalogAssumption
    <3> QED BY <2>1, <3>1 DEF CallRecord
  <2>3. n \in BOOLEAN
    BY Zenon
  <2>4. c \in CallRecord /\ c.path = to /\ c.own = "none" /\ c.handle = w /\ c.named = n
    <3> HIDE DEF b, n
    <3> QED BY <2>2, <2>3 DEF CallRecord
  <2>5. c = begun
    OBVIOUS
  <2>6. begun.named = n
    BY <2>4, <2>5, Zenon
  <2> HIDE DEF c, begun
  <2> QED BY <2>4, <2>5, <2>6, Zenon
<1> HIDE DEF begun
<1>5. WavesAre'
  BY <1>1, WavesStay
<1>6. output \in Outputs /\ routed \in DacPaths \cup {"none"}
  BY DEF RouteKept
<1>7. CASE reply = "ok"
  <2>1. benchPc' = (IF route /\ whole THEN "routeplay" ELSE "play") /\ benchCall' = begun
    BY <1>1, <1>7
  <2>2. CallIs'
    BY <1>1, <1>3, <2>1 DEF CallIs, BenchPcs
  <2>3. RangeKept'
    BY <1>1, <1>3, <2>1, RangeStays
  <2>4. CASE route /\ ~whole
    <3>1. Route(to, reply)
      BY <1>1, <2>4
    <3>2. output' \in Outputs /\ output' \in {"off", to} /\ routed' = to
      BY <1>1, <1>6, <1>7, <3>1, RouteIs
    <3> QED BY <1>1, <1>3, <1>5, <2>1, <2>2, <2>3, <2>4, <3>2 DEF RouteKept, Pending
  <2>5. CASE ~(route /\ ~whole)
    <3>1. UNCHANGED routing
      BY <1>1, <2>5
    <3>2. output # "off" /\ ~routeDoubt => routed = output /\ routed # "none"
      BY <1>1, <1>6, AnalogAssumption DEF RouteKept, Pending, Outputs, AnalogAssumption
    <3>3. benchPc' = "play" => ~route
      BY <2>1, <2>5
    <3>4. benchPc' = "play" /\ ~begun.named => p = "omitted" /\ ~route
      BY <1>3, <3>3
    <3>5. RouteKept'
      BY <1>1, <1>2, <1>3, <1>6, <2>1, <3>1, <3>2, <3>4 DEF RouteKept, Pending, routing
    <3> QED BY <1>5, <2>2, <2>3, <3>5
  <2> QED BY <2>4, <2>5
<1>8. CASE reply # "ok"
  <2>1. Route(to, reply) /\ Returns
    BY <1>1, <1>8
  <2>2. CallIs' /\ benchPc' = "idle" /\ benchCall' = NoBenchCall /\ benchCall'.own = "none"
    BY <2>1, Returned
  <2>3. RouteKept'
    BY <1>1, <1>6, <1>8, <2>1, <2>2, RouteIs DEF RouteKept, Pending
  <2> QED BY <1>1, <1>5, <2>2, <2>3, RangeStays
<1> QED BY <1>7, <1>8

LEMMA PlayKeeps ==
    ASSUME AnalogKept, NEW reply \in WireOutcomes, Play(reply)
    PROVE  AnalogKept'
<1> USE DEF AnalogKept
<1>1. /\ benchPc \in {"play", "routeplay"} /\ Returns /\ UNCHANGED <<range, misread>>
      /\ benchCall.path \in DacPaths /\ benchCall.handle \in 1 .. MaxWaves
  BY DEF Play, CallIs
<1>2. CallIs' /\ benchPc' = "idle" /\ benchCall' = NoBenchCall /\ benchCall'.own = "none"
  BY <1>1, Returned
<1>3. output \in Outputs /\ routed \in DacPaths \cup {"none"} /\ ~Pending /\ ~Pending'
  BY <1>1, <1>2 DEF RouteKept, Pending
<1>4. \/ benchPc = "routeplay" /\ Route(benchCall.path, reply)
      \/ benchPc = "play" /\ UNCHANGED routing
  BY <1>1, Zenon DEF Play
<1>5. strayed' => strayed \/ (reply # "failed" /\ output' \notin {"off", benchCall.path}
                              /\ ~benchCall.named /\ ~routeDoubt)
  BY Zenon DEF Play
<1>6. ~strayed'
  <2>1. CASE benchPc = "routeplay"
    BY <1>1, <1>3, <1>4, <1>5, <2>1, RouteIs DEF RouteKept
  <2>2. CASE benchPc = "play"
    BY <1>4, <1>5, <2>2 DEF RouteKept, routing
  <2> QED BY <1>1, <2>1, <2>2
<1>7. RouteKept'
  <2>1. CASE Route(benchCall.path, reply)
    <3>1. CASE reply = "ok"
      BY <1>1, <1>2, <1>3, <1>6, <2>1, <3>1, RouteIs DEF RouteKept
    <3>2. CASE reply # "ok"
      BY <1>1, <1>2, <1>3, <1>6, <2>1, <3>2, RouteIs DEF RouteKept
    <3> QED BY <3>1, <3>2
  <2>2. CASE UNCHANGED routing
    BY <1>2, <1>3, <1>6, <2>2 DEF RouteKept, routing
  <2> QED BY <1>4, <2>1, <2>2
<1>8. WavesAre'
  <2>1. loopAt' \in {loopAt, "busy"} /\ (reply = "ok" => loopAt' = "busy")
    BY Zenon DEF Play, LoopBusy
  <2>2. CASE reply # "ok"
    <3>1. handles' = handles
      BY <2>2, Zenon DEF Play
    <3> QED BY <1>1, <2>1, <3>1 DEF WavesAre, LoopReturns
  <2>3. CASE reply = "ok"
    <3> DEFINE h == LiveHandle(benchCall.path)
    <3>1. handles \in [1 .. MaxWaves -> HandleRecord]
      BY DEF WavesAre
    <3>2. h \in HandleRecord
      BY HandlesAre
    <3>3. handles' = [handles EXCEPT ![benchCall.handle] = h]
      BY <2>3, Zenon DEF Play
    <3> HIDE DEF h
    <3>4. handles' \in [1 .. MaxWaves -> HandleRecord]
      BY <1>1, <3>1, <3>2, <3>3
    <3> QED BY <2>1, <2>3, <3>4 DEF WavesAre, LoopReturns
  <2> QED BY <2>2, <2>3
<1> QED BY <1>1, <1>2, <1>7, <1>8, RangeStays

LEMMA ServerReplayKeeps ==
    ASSUME AnalogKept, NEW w \in 1 .. MaxWaves, NEW p \in Volts, NEW reply \in WireOutcomes,
           ServerReplay(w, p, reply)
    PROVE  AnalogKept'
<1> USE DEF AnalogKept
<1>1. /\ benchPc = "idle" /\ UNCHANGED <<range, routed, misread, strayed, benchPc, benchCall>>
      /\ PodOutput(p, reply) /\ RouteUntold /\ handles[w].state = "none"
  BY Zenon DEF ServerReplay, Ready, verdicts, bench
<1>2. output' \in Outputs
  BY <1>1 DEF PodOutput, RouteKept, Outputs
<1>3. RouteKept'
  BY <1>1, <1>2, DoubtsStay DEF RouteKept, Pending
<1>4. CallIs'
  BY <1>1 DEF CallIs
<1>5. loopAt' \in {loopAt, "busy"}
  BY Zenon DEF ServerReplay, LoopBusy
<1>6. /\ handles' \in [1 .. MaxWaves -> HandleRecord]
      /\ \A v \in 1 .. MaxWaves : v # w => handles'[v] = handles[v]
  <2> DEFINE h == LiveHandle(p)
  <2>1. h \in HandleRecord
    BY HandlesAre
  <2>2. handles' = [handles EXCEPT ![w] = h] \/ handles' = handles
    BY Zenon DEF ServerReplay
  <2> HIDE DEF h
  <2> QED BY <2>1, <2>2 DEF WavesAre
<1>7. WavesAre'
  BY <1>1, <1>5, <1>6 DEF WavesAre, LoopReturns
<1> QED BY <1>1, <1>3, <1>4, <1>7, RangeStays

LEMMA StopKeeps ==
    ASSUME AnalogKept, NEW w \in 1 .. MaxWaves, NEW reply \in WireOutcomes, Stop(w, reply)
    PROVE  AnalogKept'
<1> USE DEF AnalogKept
<1> DEFINE h == IF reply = "ok" THEN NoHandle ELSE FailedHandle(handles[w])
           begun == [NoBenchCall EXCEPT !.handle = w]
<1>1. /\ benchPc = "idle" /\ handles[w].state = "live"
      /\ handles' = [handles EXCEPT ![w] = h]
      /\ UNCHANGED <<range, routing, misread, strayed>>
      /\ loopAt' = IF reply # "failed" /\ handles[w].loop THEN "left" ELSE loopAt
      /\ IF reply = "ok" /\ handles[w].loop THEN benchPc' = "zero" /\ benchCall' = begun ELSE Returns
  BY Zenon DEF Stop, Ready, verdicts
<1>2. handles \in [1 .. MaxWaves -> HandleRecord] /\ handles[w] \in HandleRecord
  BY DEF WavesAre
<1>3. h \in HandleRecord /\ (reply # "ok" => h.loop = handles[w].loop /\ h.state = "failed")
  BY <1>2, HandlesAre
<1>4. handles' = [handles EXCEPT ![w] = h]
  BY <1>1
<1>5. begun \in CallRecord /\ begun.handle = w /\ begun.own = "none"
  <2>1. w \in 0 .. MaxWaves
    BY AnalogAssumption DEF AnalogAssumption
  <2> QED BY <2>1, CallsBegin DEF CallRecord
<1> HIDE DEF h, begun
<1>6. handles' \in [1 .. MaxWaves -> HandleRecord] /\ handles'[w] = h
      /\ \A v \in 1 .. MaxWaves : v # w => handles'[v] = handles[v]
  BY <1>2, <1>3, <1>4
<1>7. /\ loopAt' \in {"zero", "busy", "left"}
      /\ loopAt' = loopAt \/ (handles[w].loop /\ reply # "failed")
  BY <1>1, AnalogAssumption DEF AnalogAssumption, WavesAre
<1>8. LoopReturns'
  <2>1. CASE reply = "ok" /\ handles[w].loop
    BY <1>1, <2>1 DEF LoopReturns
  <2>2. CASE reply # "ok" /\ handles[w].loop
    <3>1. handles'[w].loop /\ handles'[w].state = "failed"
      BY <1>3, <1>6, <2>2
    <3> QED BY <3>1 DEF LoopReturns
  <2>3. CASE ~handles[w].loop
    BY <1>1, <1>6, <1>7, <2>3 DEF WavesAre, LoopReturns
  <2> QED BY <2>1, <2>2, <2>3
<1>9. CallIs' /\ benchCall'.own = "none" /\ benchPc' \in {"zero", "idle"}
  <2>1. CASE reply = "ok" /\ handles[w].loop
    BY <1>1, <1>3, <1>5, <1>6, <2>1 DEF CallIs, BenchPcs
  <2>2. CASE ~(reply = "ok" /\ handles[w].loop)
    <3>1. Returns
      BY <1>1, <2>2, Zenon
    <3> QED BY <3>1, Returned
  <2> QED BY <2>1, <2>2
<1> QED BY <1>1, <1>6, <1>7, <1>8, <1>9, RangeStays, RoutingStays DEF WavesAre

LEMMA ZeroKeeps ==
    ASSUME AnalogKept, NEW reply \in WireOutcomes, Zero(reply)
    PROVE  AnalogKept'
<1> USE DEF AnalogKept
<1>1. /\ benchPc = "zero" /\ Returns /\ UNCHANGED <<range, routed, misread, strayed>>
      /\ PodOutput("off", reply)
      /\ loopAt' = IF reply = "failed" THEN loopAt ELSE "zero"
      /\ handles' = IF reply = "ok" THEN handles ELSE [handles EXCEPT ![benchCall.handle] = FailedHandle(LiveHandle("current_out"))]
  BY Zenon DEF Zero, verdicts
<1>2. CallIs' /\ benchPc' = "idle" /\ benchCall' = NoBenchCall /\ benchCall'.own = "none"
  BY <1>1, Returned
<1>3. output' = "off" \/ (output' = output /\ reply = "failed")
  BY <1>1, Zenon DEF PodOutput
<1>4. (routeDoubt => routeDoubt') /\ "off" \in Outputs
  BY Zenon DEF Zero, Outputs
<1>5. RouteKept'
  BY <1>1, <1>2, <1>3, <1>4 DEF RouteKept, Pending
<1>6. /\ handles \in [1 .. MaxWaves -> HandleRecord] /\ benchCall.handle \in 1 .. MaxWaves
  BY <1>1 DEF WavesAre, CallIs
<1>7. WavesAre'
  <2>1. CASE reply = "ok"
    BY <1>1, <2>1 DEF WavesAre, LoopReturns
  <2>2. CASE reply # "ok"
    <3> DEFINE h == FailedHandle(LiveHandle("current_out"))
    <3>1. h \in HandleRecord /\ h.loop /\ h.state = "failed"
      BY HandlesAre
    <3>2. handles' = [handles EXCEPT ![benchCall.handle] = h]
      BY <1>1, <2>2, Zenon
    <3> HIDE DEF h
    <3>3. /\ handles' \in [1 .. MaxWaves -> HandleRecord]
          /\ handles'[benchCall.handle].loop /\ handles'[benchCall.handle].state = "failed"
      BY <1>6, <3>1, <3>2
    <3> QED BY <1>1, <1>6, <3>3 DEF WavesAre, LoopReturns
  <2> QED BY <2>1, <2>2
<1> QED BY <1>1, <1>2, <1>5, <1>7, RangeStays

LEMMA ForeignKeeps ==
    ASSUME AnalogKept, Foreign \/ Announce \/ UNCHANGED benchVars
    PROVE  AnalogKept'
<1> USE DEF AnalogKept
<1>1. UNCHANGED <<fit, fitFor, lagged, routed, loopAt, handles, misread, strayed, benchPc, benchCall>>
  BY Zenon DEF Foreign, Announce, benchVars, range, cached, routing, waves, verdicts, bench
<1>2. CallIs'
  BY <1>1 DEF CallIs
<1>4. WavesAre'
  BY <1>1 DEF WavesAre, LoopReturns
<1>5. RangeKept'
  <2>1. \/ podRange' \in AdcRanges /\ rangeDoubt'
        \/ UNCHANGED <<podRange, rangeDoubt>>
    BY Zenon DEF Foreign, Announce, benchVars, range
  <2>2. serverCaps' \in [fit : Fitted, range : Fitted]
    <3>1. CASE Announce
      <4>1. podRange \in AdcRanges
        BY DEF RangeKept
      <4> QED BY <3>1, <4>1 DEF Announce, Fitted, AdcRanges
    <3>2. CASE ~Announce
      <4>1. serverCaps' = serverCaps
        BY <3>2, Zenon DEF Foreign, benchVars, range
      <4> QED BY <4>1 DEF RangeKept, CacheIs
    <3> QED BY <3>1, <3>2
  <2> QED BY <1>1, <2>1, <2>2 DEF RangeKept, CacheIs
<1>6. RouteKept'
  <2>1. \/ output' \in Outputs /\ routeDoubt'
        \/ UNCHANGED <<output, routeDoubt>>
    BY Zenon DEF Foreign, Announce, benchVars, routing
  <2>2. Pending' = Pending /\ RoutedBy(benchCall.path)' = RoutedBy(benchCall.path)
    BY <1>1 DEF Pending, RoutedBy
  <2> QED BY <1>1, <2>1, <2>2 DEF RouteKept
<1> QED BY <1>2, <1>4, <1>5, <1>6

-----------------------------------------------------------------------------
LEMMA BenchStarts ==
    ASSUME BenchInit
    PROVE  DoubtsAre /\ AnalogKept
<1> USE AnalogAssumption, CallsBegin DEF AnalogAssumption, BenchInit
<1>1. DoubtsAre /\ CallIs
  BY DEF DoubtsAre, CallIs, BenchPcs
<1>2. NoHandle \in HandleRecord
  BY DEF NoHandle, HandleRecord
<1>3. WavesAre
  BY <1>2 DEF WavesAre, LoopReturns
<1>4. RangeKept /\ RouteKept
  BY DEF RangeKept, CacheIs, Fitted, NoBlock, RouteKept, Pending, AdcRanges, Outputs
<1> QED BY <1>1, <1>3, <1>4 DEF AnalogKept

LEMMA BenchStep ==
    ASSUME AnalogKept, BenchNext \/ UNCHANGED benchVars
    PROVE  AnalogKept'
<1>1. \A path \in AdcPaths \cup {"cal1", "cal2"} : \A rng \in AdcRanges, reply \in WireOutcomes :
         path \in AnalogPaths /\ AnalogPath(path, rng, "take", reply) => AnalogKept'
  BY AnalogPathKeeps
<1>2. \A path \in AnalogPaths, rng \in AdcRanges, reply \in WireOutcomes :
         AnalogPath(path, rng, "idle", reply) => AnalogKept'
  BY AnalogPathKeeps
<1>3. \A rng \in AdcRanges, reply \in WireOutcomes :
         AdcRange(rng, "idle", reply) \/ AdcRange(rng, "take", reply) => AnalogKept'
  BY AdcRangeKeeps
<1>4. \A rng \in AdcRanges, reply \in WireOutcomes : AdcRead(rng, reply) \/ AdcRangeTest(reply) => AnalogKept'
  BY MeasureKeeps DEF AdcRead, AdcRangeTest, AdcRanges
<1>5. \A reply \in WireOutcomes : AdcRangeTest(reply) => AnalogKept'
  BY <1>4 DEF AdcRanges
<1>6. CASE Foreign \/ Announce \/ UNCHANGED benchVars
  BY <1>6, ForeignKeeps
<1>7. CASE \E read \in BOOLEAN, block \in CapsBlocks : Take(read, block)
  BY <1>7, TakeKeeps DEF WireOutcomes
<1>8. ASSUME NEW reply \in WireOutcomes,
             \/ \E path \in AnalogPaths, rng \in AdcRanges :
                  \/ AnalogPath(path, rng, "idle", reply)
                  \/ path \in AdcPaths \cup {"cal1", "cal2"} /\ AnalogPath(path, rng, "take", reply)
             \/ \E rng \in AdcRanges :
                  AdcRange(rng, "idle", reply) \/ AdcRange(rng, "take", reply) \/ AdcRead(rng, reply)
             \/ \E block \in CapsBlocks :
                  RefreshCapabilities(reply, block) \/ \E read \in BOOLEAN : Follow(reply, read, block)
             \/ AdcRangeTest(reply) \/ OwnFit(reply)
      PROVE  AnalogKept'
  <2>1. \A read \in BOOLEAN, block \in CapsBlocks : OwnFit(reply) => AnalogKept'
    BY TakeKeeps
  <2>2. OwnFit(reply) => AnalogKept'
    BY <2>1 DEF CapsBlocks
  <2> QED BY <1>1, <1>2, <1>3, <1>4, <1>5, <1>8, <2>2, FollowKeeps, RefreshKeeps, Zenon
<1>9. ASSUME NEW reply \in WireOutcomes,
             \/ \E path \in Outputs : DacOutput(path, reply)
             \/ CurrentOut(reply) \/ Play(reply) \/ Zero(reply)
             \/ \E w \in 1 .. MaxWaves :
                  \/ Stop(w, reply)
                  \/ \E path \in DacPaths \cup {"omitted"}, route, whole \in BOOLEAN :
                       Generate(w, path, route, whole, reply)
                  \/ \E path \in Volts : ServerReplay(w, path, reply)
      PROVE  AnalogKept'
  BY <1>9, DacOutputKeeps, CurrentOutKeeps, PlayKeeps, ZeroKeeps, StopKeeps, GenerateKeeps, ServerReplayKeeps, Zenon
<1> QED BY <1>6, <1>7, <1>8, <1>9, Zenon DEF BenchNext

LEMMA BenchKeptIsSafe ==
    ASSUME DoubtsAre, AnalogKept
    PROVE  BenchInv
<1> USE DEF AnalogKept
<1>1. BenchTypeOK
  BY Zenon DEF BenchTypeOK, DoubtsAre, CallIs, BenchPcs, WavesAre, RangeKept, CacheIs, Fitted, RouteKept
<1>2. RangeFollowed /\ ShotScaled
  BY DEF RangeFollowed, ShotScaled, Ready, RangeKept
<1>3. RoutedFollowed /\ WaveSuits
  BY DEF RoutedFollowed, WaveSuits, Ready, RouteKept, Pending
<1> QED BY <1>1, <1>2, <1>3 DEF BenchInv, WavesAre

(* A sample is scaled by the fit of the range it was taken in, and a waveform     *)
(* goes to the output it was made for, unless a reply was lost, somebody else     *)
(* moved the relays, or the server's older word on the range went over the pod's   *)
(* own: for any outputs and any number of waveforms                               *)
(* (measure, adc_range, analog_path, dac_output, generate and play in client.py). *)
THEOREM BenchFollowsThePod == BenchSpec => []BenchInv
<1>1. BenchInit => DoubtsAre /\ AnalogKept
  BY BenchStarts
<1>2. DoubtsAre /\ [BenchNext]_benchVars => DoubtsAre'
  BY FlagsOfBench
<1>3. AnalogKept /\ [BenchNext]_benchVars => AnalogKept'
  BY BenchStep
<1>4. DoubtsAre /\ AnalogKept => BenchInv
  BY BenchKeptIsSafe
<1> QED BY <1>1, <1>2, <1>3, <1>4, PTL DEF BenchSpec
=============================================================================
