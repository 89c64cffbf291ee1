---------------------------- MODULE VisionBoard ----------------------------
(***************************************************************************)
(* A client of an AI Vision board on the LAN (aivision/client.py): the     *)
(* lease it takes, the thread that renews it, and the requests that carry  *)
(* it; and over the cloud the session token of a request, minted again     *)
(* once when the server refuses it.  The threads share _lease without a    *)
(* lock.                                                                   *)
(***************************************************************************)
EXTENDS Integers, FiniteSets

CONSTANTS
    Renewers,   \* the renewal threads that a client may start
    MaxLease    \* bound: leases the board grants

ASSUME VisionAssumption == IsFiniteSet(Renewers) /\ "none" \notin Renewers /\ MaxLease \in Nat

VARIABLES
    boardLease, \* the board's lease, 0 without one
    holder,     \* whose it is: "us", "others" or "nobody"
    lastLease,  \* the last lease that the board gave out
    held,       \* the client's _lease, 0 for None
    renewer,    \* _lease_thread
    renewAt,    \* each thread: "none", "waits", "posts" (in flight), "served", "ended"
    renewGot,   \* what a thread's POST was answered: a lease, 0 for an error
    stopSet,    \* the _lease_stop event
    leasePc,    \* what the main thread is in
    overlap,    \* history: a renewal outlived its release, or crossed an acquire
    untold,     \* history: the lease expired, or an answer was lost
    cloudToken, \* the session token: "none", "good" or "stale"
    attempt,    \* of the request under way: 0, 1 or 2
    refused     \* the last request's outcome: "no", "yes", "with_new" or "own"

leaseVars == <<boardLease, holder, lastLease, held, renewer, renewAt, renewGot, stopSet, leasePc, overlap,
               untold>>
requestVars == <<cloudToken, attempt, refused>>
visionVars == <<leaseVars, requestVars>>
onBoard == <<boardLease, holder, lastLease>>
threads == <<renewer, renewAt, renewGot, stopSet>>

VisionInit ==
    /\ boardLease = 0 /\ holder = "nobody" /\ lastLease = 0 /\ held = 0
    /\ renewer = "none" /\ renewAt = [t \in Renewers |-> "none"] /\ renewGot = [t \in Renewers |-> 0]
    /\ stopSet = FALSE /\ leasePc = "idle" /\ overlap = FALSE /\ untold = FALSE
    /\ cloudToken = "none" /\ attempt = 0 /\ refused = "no"

(* The threads with a POST under way. *)
Renewing == {t \in Renewers : renewAt[t] \in {"posts", "served"}}

-----------------------------------------------------------------------------
(* The board *)

(* POST /lease under our name: a new lease, or the one we have, unless others hold it. *)
Grants(id) ==
    /\ holder # "others"
    /\ \/ id = boardLease /\ holder = "us" /\ UNCHANGED lastLease
       \/ id = lastLease + 1 /\ id <= MaxLease /\ lastLease' = id
    /\ boardLease' = id /\ holder' = "us"

Expires ==
    /\ holder # "nobody" /\ boardLease' = 0 /\ holder' = "nobody"
    /\ untold' = (untold \/ holder = "us")
    /\ UNCHANGED <<lastLease, held, threads, leasePc, overlap, requestVars>>
OthersTake ==
    /\ holder = "nobody" /\ lastLease < MaxLease
    /\ lastLease' = lastLease + 1 /\ boardLease' = lastLease + 1 /\ holder' = "others"
    /\ UNCHANGED <<held, threads, leasePc, overlap, untold, requestVars>>

-----------------------------------------------------------------------------
(* acquire_lease *)

(* A lease taken; a thread is started unless the client has one.  Clearing the    *)
(* event also keeps a thread that outlived its release.                           *)
Taken(id) ==
    /\ held' = id
    /\ IF renewer = "none"
       THEN \E t \in Renewers :
              /\ renewAt[t] \in {"none", "ended"}
              /\ renewer' = t /\ renewAt' = [renewAt EXCEPT ![t] = "waits"] /\ stopSet' = FALSE
       ELSE UNCHANGED <<renewer, renewAt, stopSet>>

AcquireLease ==
    /\ leasePc = "idle"
    /\ \E id \in 1 .. MaxLease : Grants(id) /\ Taken(id)
    /\ overlap' = (overlap \/ Renewing # {})
    /\ UNCHANGED <<renewGot, leasePc, untold, requestVars>>
AcquireUntold ==
    /\ leasePc = "idle" /\ (\E id \in 1 .. MaxLease : Grants(id)) /\ untold' = TRUE
    /\ UNCHANGED <<held, threads, leasePc, overlap, requestVars>>

-----------------------------------------------------------------------------
(* _renew_loop *)

RenewWakes(t) ==
    /\ renewAt[t] = "waits"
    /\ renewAt' = [renewAt EXCEPT ![t] = IF stopSet \/ held = 0 THEN "ended" ELSE "posts"]
    /\ UNCHANGED <<onBoard, held, renewer, renewGot, stopSet, leasePc, overlap, untold, requestVars>>

(* The POST reaches the board, or fails on the way; and its answer may be lost. *)
RenewServed(t) ==
    /\ renewAt[t] = "posts"
    /\ renewAt' = [renewAt EXCEPT ![t] = "served"]
    /\ \/ \E id \in 1 .. MaxLease : Grants(id) /\
            \/ renewGot' = [renewGot EXCEPT ![t] = id] /\ UNCHANGED untold
            \/ renewGot' = [renewGot EXCEPT ![t] = 0] /\ untold' = TRUE
       \/ renewGot' = [renewGot EXCEPT ![t] = 0] /\ UNCHANGED <<onBoard, untold>>
    /\ UNCHANGED <<held, renewer, stopSet, leasePc, overlap, requestVars>>

(* The thread stores what it got; an error is left to the next driving call. *)
RenewStores(t) ==
    /\ renewAt[t] = "served"
    /\ held' = IF renewGot[t] = 0 THEN held ELSE renewGot[t]
    /\ renewAt' = [renewAt EXCEPT ![t] = "waits"] /\ renewGot' = [renewGot EXCEPT ![t] = 0]
    /\ UNCHANGED <<onBoard, renewer, stopSet, leasePc, overlap, untold, requestVars>>

-----------------------------------------------------------------------------
(* release_lease, also by close when there is a lease *)

Thread == IF renewer = "none" THEN "ended" ELSE renewAt[renewer]

ReleaseLease ==
    /\ leasePc = "idle" /\ stopSet' = TRUE /\ leasePc' = "joins"
    /\ UNCHANGED <<onBoard, held, renewer, renewAt, renewGot, overlap, untold, requestVars>>

(* A plausible bug: the lease is forgotten and not deleted. *)
JoinedUndeleted ==
    /\ leasePc = "joins"
    /\ Thread \in {"ended", "posts", "served"}
    /\ overlap' = (overlap \/ Thread # "ended")
    /\ renewer' = "none" /\ leasePc' = "idle" /\ held' = 0
    /\ UNCHANGED <<onBoard, untold, renewAt, renewGot, stopSet, requestVars>>

(* The thread is joined for two seconds, a POST may take thirty; then the lease   *)
(* that the client has is deleted.                                                *)
Joined ==
    /\ leasePc = "joins"
    /\ Thread \in {"ended", "posts", "served"}
    /\ overlap' = (overlap \/ Thread # "ended")
    /\ renewer' = "none"
    /\ leasePc' = "idle" /\ held' = 0 /\ UNCHANGED lastLease
    /\ IF held = 0 THEN UNCHANGED <<boardLease, holder, untold>>
       ELSE \/ /\ IF boardLease = held THEN boardLease' = 0 /\ holder' = "nobody"
                  ELSE UNCHANGED <<boardLease, holder>>
               /\ UNCHANGED untold
            \/ untold' = TRUE /\ UNCHANGED <<boardLease, holder>>
    /\ UNCHANGED <<renewAt, renewGot, stopSet, requestVars>>

-----------------------------------------------------------------------------
(* A request over the cloud: _open, _open_once and CloudSession *)

TokenDies == cloudToken = "good" /\ cloudToken' = "stale" /\ UNCHANGED <<leaseVars, attempt, refused>>

(* The first attempt uses the session's token, or mints one. *)
Request ==
    /\ attempt = 0 /\ attempt' = 1 /\ refused' = "no"
    /\ UNCHANGED <<leaseVars, cloudToken>>

(* An attempt is answered, or refused for its token: then the token is dropped    *)
(* and the request sent once more, unless the token is the caller's own.          *)
Attempt(renewable, minted) ==
    /\ attempt \in {1, 2}
    /\ ~renewable => cloudToken # "none"
    /\ LET usable == cloudToken = "good" \/ (cloudToken = "none" /\ minted)
       IN  IF usable
           THEN cloudToken' = "good" /\ attempt' = 0 /\ refused' = "no"
           ELSE /\ cloudToken' = IF renewable /\ attempt = 1 THEN "none" ELSE cloudToken
                /\ attempt' = IF renewable /\ attempt = 1 THEN 2 ELSE 0
                /\ refused' = IF renewable /\ attempt = 1 THEN "no"
                              ELSE IF ~renewable THEN "own" ELSE IF cloudToken = "none" THEN "with_new" ELSE "yes"
    /\ UNCHANGED leaseVars

VisionNext ==
    \/ Expires \/ OthersTake \/ AcquireLease \/ AcquireUntold \/ ReleaseLease \/ Joined
    \/ \E t \in Renewers : RenewWakes(t) \/ RenewServed(t) \/ RenewStores(t)
    \/ TokenDies \/ Request \/ \E renewable, minted \in BOOLEAN : Attempt(renewable, minted)

VisionSpec == VisionInit /\ [][VisionNext]_visionVars

-----------------------------------------------------------------------------
VisionTypeOK ==
    /\ {boardLease, lastLease, held} \subseteq 0 .. MaxLease
    /\ holder \in {"us", "others", "nobody"} /\ renewer \in Renewers \cup {"none"}
    /\ leasePc \in {"idle", "joins"} /\ attempt \in 0 .. 2

(* Once a client has released, nothing of its is left on the board: unless an     *)
(* answer was lost, or a renewal outlived the two seconds that release waits (or  *)
(* crossed an acquire).                                                           *)
ReleasedBoardIsFree == leasePc = "idle" /\ held = 0 /\ holder = "us" => untold \/ overlap

(* The lease that requests carry is the one on the board, but for a renewal that  *)
(* the board has answered and the thread has not stored.                          *)
CarriesTheLease == held # 0 /\ held # boardLease => untold \/ overlap \/ \E t \in Renewing : renewGot[t] # 0

(* Two threads renew only when one outlived its release. *)
OneRenewer == Cardinality({t \in Renewers : renewAt[t] \notin {"none", "ended"}}) > 1 => overlap

(* A request is given up as refused only with the caller's own token, or after a  *)
(* try with a token that was minted for it.                                       *)
RefusedTwice == refused # "yes"

VisionInv == VisionTypeOK /\ ReleasedBoardIsFree /\ CarriesTheLease /\ OneRenewer /\ RefusedTwice
=============================================================================
