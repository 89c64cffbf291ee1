---------------------------- MODULE CloudCommand ----------------------------
(***************************************************************************)
(* One command to a pod behind the cloud: CloudTransport.command, the dial *)
(* of a tunnel, and the session token they share                           *)
(* (embeddedci/benchpod/transport/cloud.py).                               *)
(*                                                                         *)
(* Each call runs on a thread of its own (the test, the lease heartbeat,   *)
(* an MCP tool).  A request travels to the server, which may refuse it, is *)
(* forwarded to the pod, runs there, and its reply travels back; anywhere  *)
(* on the way the edge may fail it, or the caller may time out or lose the *)
(* connection, and the request it gave up on may still run.                *)
(***************************************************************************)
EXTENDS Integers, FiniteSets

CONSTANTS
    Calls,          \* the calls, each made once
    None,           \* nobody holds _token_lock
    Delays,         \* len(_RETRY_DELAYS)
    MaxTokens       \* bound: tokens minted

ASSUME CloudAssumption ==
    /\ None \notin Calls
    /\ Delays \in Nat /\ MaxTokens \in Nat \ {0}

VARIABLES
    renewable,  \* CloudTransport._renewable: no token was given, it mints them
    token,      \* CloudTransport._token, 0 for None
    minted,     \* tokens issued so far; each new one gets the next number
    valid,      \* server: the tokens it still accepts
    lock,       \* holder of _token_lock while it mints
    kind,       \* what each call does
    pc,         \* how far it is
    attempt,    \* retries it has slept for
    renewed,    \* it has had one 401
    carried,    \* the token of its request
    net,        \* where that request is, or how it was answered
    late,       \* requests the call gave up on that are still on their way
    runs,       \* history: how often the pod ran the call's command
    rejected    \* history: the token its first 401 was about, 0 for none

fixed == <<renewable, kind>>
tokens == <<token, minted, valid, lock>>
request == <<carried, net, late, runs>>
retry == <<attempt, renewed, rejected>>
cloudVars == <<renewable, token, minted, valid, lock, kind, pc, attempt, renewed, carried, net, late, runs,
               rejected>>

(* read: a command that only reads; write: any other; tunnel: _dial *)
Kinds == {"read", "write", "tunnel"}
Travelling == {"sent", "forwarded", "ran"}
Answers == {"ok", "unauthorized", "notForwarded", "edge", "refused"}
Outcomes == {"ok", "unauthorized", "failed", "lost", "unminted"}
Done(c) == pc[c] \in Outcomes

CloudTypeOK ==
    /\ renewable \in BOOLEAN
    /\ token \in 0..minted /\ minted \in 0..MaxTokens /\ valid \subseteq 1..minted
    /\ lock \in Calls \cup {None}
    /\ kind \in [Calls -> Kinds]
    /\ pc \in [Calls -> {"token", "minting", "waiting"} \cup Outcomes]
    /\ attempt \in [Calls -> 0..Delays] /\ renewed \in [Calls -> BOOLEAN]
    /\ carried \in [Calls -> 0..minted]
    /\ net \in [Calls -> {"none"} \cup Travelling \cup Answers]
    /\ late \in [Calls -> Nat] /\ runs \in [Calls -> Nat]
    /\ rejected \in [Calls -> 0..minted]

(* A token the caller gave was minted elsewhere. *)
CloudInit ==
    /\ renewable \in BOOLEAN
    /\ token = (IF renewable THEN 0 ELSE 1) /\ minted = token /\ valid = 1..minted
    /\ lock = None
    /\ kind \in [Calls -> Kinds]
    /\ pc = [c \in Calls |-> "token"]
    /\ attempt = [c \in Calls |-> 0] /\ renewed = [c \in Calls |-> FALSE]
    /\ carried = [c \in Calls |-> 0] /\ net = [c \in Calls |-> "none"]
    /\ late = [c \in Calls |-> 0] /\ runs = [c \in Calls |-> 0]
    /\ rejected = [c \in Calls |-> 0]

Goto(c, s) == pc' = [pc EXCEPT ![c] = s]
AtServer(c, s) == net' = [net EXCEPT ![c] = s]
-----------------------------------------------------------------------------
(* The token *)

(* _session_token with a token that is not due, then the request goes out *)
Send(c) ==
    /\ pc[c] = "token" /\ lock = None /\ token # 0
    /\ carried' = [carried EXCEPT ![c] = token]
    /\ AtServer(c, "sent") /\ Goto(c, "waiting")
    /\ UNCHANGED <<tokens, late, runs, retry, fixed>>

(* ... with none, or one that expires within _RENEW_MARGIN *)
Mint(c) ==
    /\ pc[c] = "token" /\ lock = None /\ renewable
    /\ lock' = c /\ Goto(c, "minting")
    /\ UNCHANGED <<token, minted, valid, request, retry, fixed>>

Minted(c) ==
    /\ pc[c] = "minting" /\ minted < MaxTokens
    /\ minted' = minted + 1 /\ token' = minted' /\ valid' = valid \cup {minted'}
    /\ lock' = None /\ Goto(c, "token")
    /\ UNCHANGED <<request, retry, fixed>>

(* CloudAuthError, even when the token in use has not expired yet *)
MintFails(c) ==
    /\ pc[c] = "minting"
    /\ lock' = None /\ Goto(c, "unminted")
    /\ UNCHANGED <<token, minted, valid, request, retry, fixed>>

Expire(t) ==
    /\ t \in valid /\ t \in {token} \cup {carried[c] : c \in Calls}
    /\ valid' = valid \ {t}
    /\ UNCHANGED <<token, minted, lock, request, retry, fixed, pc>>

-----------------------------------------------------------------------------
(* The server, the edge and the pod (external: from how command and _dial     *)
(* read their answers).                                                       *)

ServerReceives(c) ==
    /\ net[c] = "sent"
    /\ \/ carried[c] \notin valid /\ AtServer(c, "unauthorized")
       \/ carried[c] \in valid
          /\ \E s \in {"forwarded", "notForwarded", "refused"} : AtServer(c, s)
    /\ UNCHANGED <<tokens, carried, late, runs, retry, fixed, pc>>

PodRuns(c) ==
    /\ net[c] = "forwarded"
    /\ runs' = [runs EXCEPT ![c] = @ + 1]
    /\ AtServer(c, "ran")
    /\ UNCHANGED <<tokens, carried, late, retry, fixed, pc>>

(* the pod's reply, or its error *)
Reply(c) ==
    /\ net[c] = "ran"
    /\ \E s \in {"ok", "refused"} : AtServer(c, s)
    /\ UNCHANGED <<tokens, carried, late, runs, retry, fixed, pc>>

(* An edge failure does not prove the pod never ran the command. *)
Repeatable(c) == kind[c] = "read"

(* a request nobody waits for any more may still reach the pod (of a command  *)
(* that only reads, nobody would know)                                        *)
GiveUp(c) ==
    \/ late' = late
    \/ ~Repeatable(c) /\ net[c] \in {"sent", "forwarded"} /\ late' = [late EXCEPT ![c] = @ + 1]

EdgeFails(c) ==
    /\ net[c] \in Travelling
    /\ GiveUp(c) /\ AtServer(c, "edge")
    /\ UNCHANGED <<tokens, carried, runs, retry, fixed, pc>>

LateRun(c) ==
    /\ late[c] > 0 /\ late' = [late EXCEPT ![c] = @ - 1]
    /\ \/ runs' = [runs EXCEPT ![c] = @ + 1]
       \/ UNCHANGED runs
    /\ UNCHANGED <<tokens, carried, net, retry, fixed, pc>>
-----------------------------------------------------------------------------
(* The answers *)

(* plausible bugs: every command retried after an edge failure; the pod's own *)
(* error retried                                                              *)
RetriedWhateverItDoes(c) ==
    /\ kind[c] # "tunnel" /\ attempt[c] < Delays
    /\ net[c] \in {"notForwarded", "edge"}
RetriedWhenRefused(c) ==
    /\ kind[c] # "tunnel" /\ attempt[c] < Delays
    /\ net[c] \in {"notForwarded", "refused"} \/ (net[c] = "edge" /\ Repeatable(c))

(* the answers after which command() sleeps and goes round again *)
Retried(c) ==
    /\ kind[c] # "tunnel" /\ attempt[c] < Delays
    /\ net[c] = "notForwarded" \/ (net[c] = "edge" /\ Repeatable(c))

(* a plausible bug: the rejected token stays *)
RenewKeepsToken(c) ==
    /\ pc[c] = "waiting" /\ net[c] = "unauthorized" /\ renewable /\ ~renewed[c]
    /\ lock = None
    /\ renewed' = [renewed EXCEPT ![c] = TRUE]
    /\ rejected' = [rejected EXCEPT ![c] = carried[c]]
    /\ AtServer(c, "none") /\ Goto(c, "token")
    /\ UNCHANGED <<tokens, attempt, carried, late, runs, fixed>>

(* the first 401: drop the token, whosever it is by now, and go round again *)
Renew(c) ==
    /\ pc[c] = "waiting" /\ net[c] = "unauthorized" /\ renewable /\ ~renewed[c]
    /\ lock = None /\ token' = 0
    /\ renewed' = [renewed EXCEPT ![c] = TRUE]
    /\ rejected' = [rejected EXCEPT ![c] = carried[c]]
    /\ AtServer(c, "none") /\ Goto(c, "token")
    /\ UNCHANGED <<minted, valid, lock, attempt, carried, late, runs, fixed>>

(* a plausible bug: the attempts are not counted *)
RetryUncounted(c) ==
    /\ pc[c] = "waiting" /\ Retried(c)
    /\ AtServer(c, "none") /\ Goto(c, "token")
    /\ UNCHANGED <<tokens, carried, late, runs, retry, fixed>>

Retry(c) ==
    /\ pc[c] = "waiting" /\ Retried(c)
    /\ attempt' = [attempt EXCEPT ![c] = @ + 1]
    /\ AtServer(c, "none") /\ Goto(c, "token")
    /\ UNCHANGED <<tokens, carried, late, runs, renewed, rejected, fixed>>

ReturnAnswer(c) ==
    /\ pc[c] = "waiting"
    /\ \/ net[c] = "ok" /\ Goto(c, "ok")
       \/ net[c] = "unauthorized" /\ (~renewable \/ renewed[c]) /\ Goto(c, "unauthorized")
       \/ net[c] \in {"notForwarded", "edge", "refused"} /\ ~Retried(c) /\ Goto(c, "failed")
    /\ UNCHANGED <<tokens, request, retry, fixed>>

(* No answer within the timeout, a lost connection or a reply that cannot be   *)
(* read: never sent again, whatever the command.                               *)
Lose(c) ==
    /\ pc[c] = "waiting"
    /\ net[c] \in Travelling \cup {"ok"}
    /\ GiveUp(c) /\ AtServer(c, "none") /\ Goto(c, "lost")
    /\ UNCHANGED <<tokens, carried, runs, retry, fixed>>

-----------------------------------------------------------------------------
Client(c) ==
    \/ Send(c) \/ Mint(c) \/ Minted(c) \/ MintFails(c)
    \/ Renew(c) \/ Retry(c) \/ ReturnAnswer(c) \/ Lose(c)
Network(c) ==
    ServerReceives(c) \/ PodRuns(c) \/ Reply(c) \/ EdgeFails(c) \/ LateRun(c)

CloudNext ==
    \/ \E c \in Calls : Client(c) \/ Network(c)
    \/ \E t \in 1..MaxTokens : Expire(t)

(* The threads run; urlopen and the upgrade have timeouts, so a wait ends     *)
(* (Lose), whatever the network does.  The token exchange answers or fails.   *)
CloudSafetySpec == CloudInit /\ [][CloudNext]_cloudVars
CloudSpec == CloudSafetySpec /\ \A c \in Calls : WF_cloudVars(Client(c))
-----------------------------------------------------------------------------
(* A command that is not a plain read, and a tunnel, reaches the pod at most    *)
(* once per call, through every retry, timeout and late arrival.               *)
AtMostOnce == \A c \in Calls : ~Repeatable(c) => runs[c] <= 1

(* Why: what may still run it is what has not run it, and only an answer that  *)
(* proves the pod did not see the request is followed by another request.      *)
Pending(c) == IF net[c] \in {"sent", "forwarded"} THEN 1 ELSE 0
OnceInv ==
    \A c \in Calls :
        /\ ~Repeatable(c) => runs[c] + late[c] + Pending(c) <= 1
        /\ ~Repeatable(c) /\ pc[c] \in {"token", "minting"}
              => runs[c] + late[c] = 0
        /\ ~Repeatable(c) /\ net[c] \in {"sent", "forwarded", "unauthorized", "notForwarded"}
              => runs[c] + late[c] = 0
        /\ net[c] # "none" => pc[c] \notin {"token", "minting"}

(* A call gives up over its authorization only when a second token, minted      *)
(* after the first was rejected, is rejected too: however the calls interleave  *)
(* on the shared token, none of them sends a rejected token again.              *)
SecondTokenIsNew ==
    \A c \in Calls :
        renewed[c] /\ pc[c] \in {"waiting", "unauthorized"} => carried[c] > rejected[c]

(* Every call returns or raises. *)
CallsEnd == \A c \in Calls : pc[c] = "token" ~> Done(c)
=============================================================================
