------------------------------- MODULE PodPool -------------------------------
(***************************************************************************)
(* The process-wide pool of persistent connections of the OpenHTF plug     *)
(* (plug.py): plugs of several test threads that have the same settings    *)
(* share one BenchPod, checked with a ping before it is used again, and    *)
(* close_persistent_benchpods closes them all.  A settings object that is  *)
(* no plain value stands in the pool's key by its id(), which Python gives *)
(* to another object once the first is gone.                               *)
(***************************************************************************)
EXTENDS Integers, Sequences

CONSTANTS
    Tests,    \* threads, each running one test at a time
    Settings, \* settings objects (a Wiring, an injected transport)
    Ids,      \* what id() returns
    MaxConns  \* bound: connections opened in a run

ASSUME PoolAssumption ==
    /\ MaxConns \in Nat /\ 0 \notin Ids
    /\ "nobody" \notin Tests /\ "none" \notin Settings

VARIABLES
    idOf,     \* id() of each object that is alive, 0 for the others
    pool,     \* _PERSISTENT_POOL: the connection of each key, 0 for none
    lockedBy, \* who has _PERSISTENT_LOCK, if anybody
    test,     \* each thread: its step, its settings object and its connection
    doomed,   \* connections close_persistent_benchpods has taken and not closed
    conns     \* every connection so far: its settings, and is it open

poolVars == <<idOf, pool, lockedBy, test, doomed, conns>>

Nobody == "nobody"
NoSettings == "none"
NoTest == [pc |-> "idle", obj |-> NoSettings, conn |-> 0]

PoolInit ==
    /\ idOf = [o \in Settings |-> 0]
    /\ pool = [i \in Ids |-> 0]
    /\ lockedBy = Nobody
    /\ test = [t \in Tests |-> NoTest]
    /\ doomed = {}
    /\ conns = <<>>

Live(c) == c # 0 /\ conns[c].live
Step(t, pc) == test' = [test EXCEPT ![t].pc = pc]
AfterClose(cs) == [c \in DOMAIN conns |-> IF c \in cs THEN [conns[c] EXCEPT !.live = FALSE] ELSE conns[c]]

-----------------------------------------------------------------------------
(* Settings objects come and go; a BenchPod keeps those it was made with, and  *)
(* is kept by the pool, by a plug and by the list of a close.                  *)
Held(o) ==
    \/ \E t \in Tests : test[t].obj = o
    \/ \E c \in DOMAIN conns :
          /\ conns[c].obj = o
          /\ c \in {pool[i] : i \in Ids} \cup {test[t].conn : t \in Tests} \cup doomed

Create(o, i) ==
    /\ idOf[o] = 0 /\ \A other \in Settings : idOf[other] # i
    /\ idOf' = [idOf EXCEPT ![o] = i]
    /\ UNCHANGED <<pool, lockedBy, test, doomed, conns>>

Free(o) ==
    /\ idOf[o] # 0 /\ ~Held(o)
    /\ idOf' = [idOf EXCEPT ![o] = 0]
    /\ UNCHANGED <<pool, lockedBy, test, doomed, conns>>

-----------------------------------------------------------------------------
(* A plug is made for a test. *)
MakePlug(t, o, persistent) ==
    /\ test[t].pc = "idle" /\ idOf[o] # 0
    /\ test' = [test EXCEPT ![t] = [pc |-> IF persistent THEN "acquire" ELSE "own",
                                    obj |-> o, conn |-> 0]]
    /\ UNCHANGED <<idOf, pool, lockedBy, doomed, conns>>

Key(t) == idOf[test[t].obj]

(* _acquire_persistent holds the lock to its end, pings included. *)
EnterPool(t) ==
    /\ test[t].pc = "acquire" /\ lockedBy = Nobody
    /\ lockedBy' = t
    /\ Step(t, "locked")
    /\ UNCHANGED <<idOf, pool, doomed, conns>>

(* The pooled connection answers, or is used unasked (health_check=False). *)
Reuse(t) ==
    /\ test[t].pc = "locked" /\ pool[Key(t)] # 0
    /\ test' = [test EXCEPT ![t].pc = "using", ![t].conn = pool[Key(t)]]
    /\ lockedBy' = Nobody
    /\ UNCHANGED <<idOf, pool, doomed, conns>>

(* The ping fails: the connection is closed and dropped from the pool. *)
PingFails(t) ==
    /\ test[t].pc = "locked" /\ pool[Key(t)] # 0
    /\ conns' = AfterClose({pool[Key(t)]})
    /\ pool' = [pool EXCEPT ![Key(t)] = 0]
    /\ UNCHANGED <<idOf, lockedBy, test, doomed>>

NewConn(t) == Append(conns, [obj |-> test[t].obj, live |-> TRUE, shared |-> test[t].pc = "locked"])

OpenPooled(t) ==
    /\ test[t].pc = "locked" /\ pool[Key(t)] = 0 /\ Len(conns) < MaxConns
    /\ conns' = NewConn(t)
    /\ pool' = [pool EXCEPT ![Key(t)] = Len(conns) + 1]
    /\ test' = [test EXCEPT ![t].pc = "using", ![t].conn = Len(conns) + 1]
    /\ lockedBy' = Nobody
    /\ UNCHANGED <<idOf, doomed>>

(* A plug that is not persistent has a connection of its own. *)
OpenOwn(t) ==
    /\ test[t].pc = "own" /\ Len(conns) < MaxConns
    /\ conns' = NewConn(t)
    /\ test' = [test EXCEPT ![t].pc = "usingOwn", ![t].conn = Len(conns) + 1]
    /\ UNCHANGED <<idOf, pool, lockedBy, doomed>>

OpenFails(t) ==
    /\ \/ test[t].pc = "own" \/ (test[t].pc = "locked" /\ pool[Key(t)] = 0)
    /\ test' = [test EXCEPT ![t] = NoTest]
    /\ lockedBy' = IF lockedBy = t THEN Nobody ELSE lockedBy
    /\ UNCHANGED <<idOf, pool, doomed, conns>>

(* A plausible bug: tearDown closes a pooled connection too. *)
TearDownPooled(t) ==
    /\ test[t].pc \in {"using", "usingOwn"}
    /\ conns' = AfterClose({test[t].conn})
    /\ test' = [test EXCEPT ![t] = NoTest]
    /\ UNCHANGED <<idOf, pool, lockedBy, doomed>>

(* tearDown closes the plug's own connection and leaves a pooled one. *)
TearDown(t) ==
    /\ test[t].pc \in {"using", "usingOwn"}
    /\ conns' = IF test[t].pc = "usingOwn" THEN AfterClose({test[t].conn}) ELSE conns
    /\ test' = [test EXCEPT ![t] = NoTest]
    /\ UNCHANGED <<idOf, pool, lockedBy, doomed>>

-----------------------------------------------------------------------------
(* close_persistent_benchpods empties the pool under the lock, ... *)
TakePool ==
    /\ lockedBy = Nobody
    /\ doomed' = doomed \cup ({pool[i] : i \in Ids} \ {0})
    /\ pool' = [i \in Ids |-> 0]
    /\ UNCHANGED <<idOf, lockedBy, test, conns>>

(* ... and closes what it took without it. *)
CloseTaken(c) ==
    /\ c \in doomed
    /\ doomed' = doomed \ {c}
    /\ conns' = AfterClose({c})
    /\ UNCHANGED <<idOf, pool, lockedBy, test>>

-----------------------------------------------------------------------------
PlugSteps(t) ==
    \/ \E o \in Settings, persistent \in BOOLEAN : MakePlug(t, o, persistent)
    \/ EnterPool(t) \/ Reuse(t) \/ PingFails(t) \/ OpenPooled(t) \/ OpenOwn(t) \/ OpenFails(t)
    \/ TearDown(t)

PoolNext ==
    \/ \E o \in Settings : Free(o) \/ \E i \in Ids : Create(o, i)
    \/ \E t \in Tests : PlugSteps(t)
    \/ TakePool \/ \E c \in doomed : CloseTaken(c)

PoolSpec == PoolInit /\ [][PoolNext]_poolVars

-----------------------------------------------------------------------------
PoolTypeOK ==
    /\ idOf \in [Settings -> Ids \cup {0}]
    /\ pool \in [Ids -> 0 .. MaxConns]
    /\ lockedBy \in Tests \cup {Nobody}
    /\ test \in [Tests -> [pc : {"idle", "acquire", "locked", "own", "using", "usingOwn"},
                           obj : Settings \cup {NoSettings}, conn : 0 .. MaxConns]]
    /\ doomed \in SUBSET DOMAIN conns
    /\ Len(conns) <= MaxConns

(* A plug gets a connection made with its own settings, never one made with an *)
(* object that is gone and whose id() another has now (plug.py, _key_part).    *)
OwnSettings ==
    \A t \in Tests : test[t].conn # 0 => conns[test[t].conn].obj = test[t].obj

(* One connection to a pod that serves one client at a time (plug.py, the      *)
(* comment on _PERSISTENT_POOL): a shared connection that is open is the one   *)
(* in the pool for its settings, or is about to be closed.                     *)
OneConnection ==
    \A c \in DOMAIN conns :
        conns[c].live /\ conns[c].shared => c \in doomed \/ pool[idOf[conns[c].obj]] = c

(* Nobody else closes the connection a plug of its own uses, and the pool      *)
(* names open connections only.                                                *)
PooledIsOpen ==
    /\ \A i \in Ids : pool[i] # 0 => Live(pool[i])
    /\ \A t \in Tests : test[t].pc = "usingOwn" => Live(test[t].conn)

PoolInv == PoolTypeOK /\ OwnSettings /\ OneConnection /\ PooledIsOpen
=============================================================================
