---------------------------- MODULE LoginSession ----------------------------
(***************************************************************************)
(* The `benchpod login` session of cli_login.py: callers take an access    *)
(* token from token.json and refresh it when it has expired, each under    *)
(* the lock of its module and process (embeddedci_mcp/cli_login.py has the *)
(* same code and a lock of its own).  The server rotates the refresh token *)
(* at every refresh.  The tokens issued together are numbered in order.    *)
(***************************************************************************)
EXTENDS Integers, FiniteSets

CONSTANTS
    Callers,    \* threads that ask for an access token
    LockOf,     \* the _lock each one takes
    ProcessOf,  \* the process each one runs in
    MaxIssued,  \* bound: tokens issued in a run
    MaxAsked    \* bound: calls of access_token in a run

ASSUME LoginAssumption ==
    /\ MaxIssued \in Nat \ {0} /\ MaxAsked \in Nat
    /\ \A c, d \in Callers : LockOf[c] = LockOf[d] => ProcessOf[c] = ProcessOf[d]

VARIABLES
    issued,     \* the newest tokens of the server; it refreshes no others
    tokenFile,  \* the tokens in token.json
    expired,    \* tokens whose access token has expired
    asking,     \* the call each caller is in
    requests,   \* refresh requests on their way to the server
    beaten,     \* history: locks whose refresh was under way, and came before the caller's own
    loginLost,  \* history: a refresh went through and its tokens were not saved
    askCount

loginVars == <<issued, tokenFile, expired, asking, requests, beaten, loginLost, askCount>>

Locks == {LockOf[c] : c \in Callers}
NotAsking == {"idle", "served", "raised", "refused"}

LoginInit ==
    /\ issued = 1 /\ tokenFile = 1 /\ expired = {}
    /\ asking = [c \in Callers |-> [pc |-> "idle", tok |-> 0]]
    /\ requests = {}
    /\ beaten = [c \in Callers |-> {}]
    /\ loginLost = FALSE
    /\ askCount = 0

(* A plausible bug: no lock is taken. *)
LockIgnored(lock) == lock \in Locks

LockFree(lock) == \A c \in Callers : LockOf[c] = lock => asking[c].pc \in NotAsking
Now(c, pc, tok) == asking' = [asking EXCEPT ![c] = [pc |-> pc, tok |-> tok]]

-----------------------------------------------------------------------------
(* The tokens still count as valid, *)
TakeSaved(c) ==
    /\ LockFree(LockOf[c]) /\ askCount < MaxAsked
    /\ tokenFile \notin expired
    /\ askCount' = askCount + 1
    /\ Now(c, "served", tokenFile)
    /\ beaten' = [beaten EXCEPT ![c] = {}]
    /\ UNCHANGED <<issued, tokenFile, expired, requests, loginLost>>

(* ... or a refresh is asked for, with the lock held until it is saved. *)
AskRefresh(c) ==
    /\ LockFree(LockOf[c]) /\ askCount < MaxAsked
    /\ tokenFile \in expired
    /\ askCount' = askCount + 1
    /\ Now(c, "asked", tokenFile)
    /\ requests' = requests \cup {[by |-> c, tok |-> tokenFile, live |-> TRUE]}
    /\ beaten' = [beaten EXCEPT ![c] = {LockOf[d] : d \in {e \in Callers : asking[e].pc = "reply"}}]
    /\ UNCHANGED <<issued, tokenFile, expired, loginLost>>

(* The server rotates the newest tokens.  A reply that nobody waits for any    *)
(* longer is lost, as one without the tokens is.                               *)
Refresh(r, arrives) ==
    /\ r.tok = issued /\ issued < MaxIssued
    /\ issued' = issued + 1
    /\ requests' = requests \ {r}
    /\ beaten' = [c \in Callers |-> IF c # r.by /\ asking[c].pc = "asked"
                                    THEN beaten[c] \cup {LockOf[r.by]} ELSE beaten[c]]
    /\ IF r.live
       THEN IF arrives THEN Now(r.by, "reply", issued + 1)
                       ELSE Now(r.by, "raised", 0)
       ELSE UNCHANGED asking
    /\ loginLost' = (loginLost \/ ~(r.live /\ arrives))
    /\ UNCHANGED <<tokenFile, expired, askCount>>

(* Older tokens are refused: the caller holds a revoked token. *)
Refuse(r) ==
    /\ r.tok # issued
    /\ requests' = requests \ {r}
    /\ IF r.live THEN Now(r.by, "refused", r.tok) ELSE UNCHANGED asking
    /\ UNCHANGED <<issued, tokenFile, expired, beaten, loginLost, askCount>>

(* _save, and the caller has its token; *)
SaveTokens(c) ==
    /\ asking[c].pc = "reply"
    /\ tokenFile' = asking[c].tok
    /\ Now(c, "served", asking[c].tok)
    /\ UNCHANGED <<issued, expired, requests, beaten, loginLost, askCount>>

(* ... or the file stays as it was, and the call raises. *)
SaveTokensFails(c) ==
    /\ asking[c].pc = "reply"
    /\ loginLost' = TRUE
    /\ Now(c, "raised", 0)
    /\ UNCHANGED <<issued, tokenFile, expired, requests, beaten, askCount>>

(* The requests of callers that do not wait for them any longer. *)
Abandoned(cs) == {IF r.by \in cs THEN [r EXCEPT !.live = FALSE] ELSE r : r \in requests}

(* The timeout of urlopen; the request may still get there. *)
RefreshTimesOut(c) ==
    /\ asking[c].pc = "asked"
    /\ requests' = Abandoned({c})
    /\ Now(c, "raised", 0)
    /\ UNCHANGED <<issued, tokenFile, expired, beaten, loginLost, askCount>>

(* The process of a caller ends, with every call in it. *)
ProcessEnds(c) ==
    LET with == {d \in Callers : ProcessOf[d] = ProcessOf[c]} IN
    /\ asking[c].pc \in {"asked", "reply"}
    /\ asking' = [d \in Callers |-> IF d \in with THEN [pc |-> "idle", tok |-> 0] ELSE asking[d]]
    /\ requests' = Abandoned(with)
    /\ loginLost' = (loginLost \/ \E d \in with : asking[d].pc = "reply")
    /\ UNCHANGED <<issued, tokenFile, expired, beaten, askCount>>

AccessExpires ==
    \E tok \in (1 .. issued) \ expired :
        /\ expired' = expired \cup {tok}
        /\ UNCHANGED <<issued, tokenFile, asking, requests, beaten, loginLost, askCount>>

LoginNext ==
    \/ \E c \in Callers :
          TakeSaved(c) \/ AskRefresh(c) \/ SaveTokens(c) \/ SaveTokensFails(c)
              \/ RefreshTimesOut(c) \/ ProcessEnds(c)
    \/ \E r \in requests : Refuse(r) \/ \E arrives \in BOOLEAN : Refresh(r, arrives)
    \/ AccessExpires

LoginSpec == LoginInit /\ [][LoginNext]_loginVars

-----------------------------------------------------------------------------
LoginTypeOK ==
    /\ issued \in 1 .. MaxIssued /\ tokenFile \in 1 .. issued
    /\ expired \in SUBSET (1 .. issued)
    /\ asking \in [Callers -> [pc : NotAsking \cup {"asked", "reply"}, tok : 0 .. issued]]
    /\ requests \in SUBSET [by : Callers, tok : 1 .. issued, live : BOOLEAN]
    /\ beaten \in [Callers -> SUBSET Locks]
    /\ loginLost \in BOOLEAN /\ askCount \in 0 .. MaxAsked

(* The login survives its refreshes, whoever makes them at the same time: the  *)
(* server's newest tokens are in the file, or a caller is about to put them    *)
(* there, unless a reply, a save or a process was lost in between.             *)
LoginKept ==
    \/ tokenFile = issued
    \/ \E c \in Callers : asking[c].pc = "reply" /\ asking[c].tok = issued
    \/ loginLost

(* One refresh at a time (cli_login.py, the comment on _lock): no caller is    *)
(* refused because of another one of its lock; while the login is kept it is   *)
(* refused only when a refresh under another lock came before its own.         *)
OneRefreshPerLock ==
    \A c \in Callers : asking[c].pc = "refused" /\ ~loginLost
        => beaten[c] \ {LockOf[c]} # {}

(* What makes the two inductive: a caller that waits has asked with tokens     *)
(* that are the newest or were overtaken; one caller holds a lock; and while   *)
(* the newest tokens are with a caller, nobody else can have them.             *)
CallersKnow ==
    /\ \A c \in Callers : asking[c].pc = "reply" =>
          /\ asking[c].tok = issued /\ tokenFile # issued
          /\ \A r \in requests : r.tok # issued
          /\ \A d \in Callers : asking[d].pc = "reply" => d = c
    /\ \A r \in requests : r.live => asking[r.by] = [pc |-> "asked", tok |-> r.tok]
    /\ \A c \in Callers : asking[c].pc = "asked" /\ ~loginLost
          => asking[c].tok = issued \/ beaten[c] \ {LockOf[c]} # {}
    /\ \A c, d \in Callers :
          c # d /\ LockOf[c] = LockOf[d] => asking[c].pc \in NotAsking \/ asking[d].pc \in NotAsking

LoginInv == LoginTypeOK /\ LoginKept /\ OneRefreshPerLock /\ CallersKnow
=============================================================================
