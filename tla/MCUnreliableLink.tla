-------------------------- MODULE MCUnreliableLink --------------------------
(***************************************************************************)
(* What holds a link to the pod that may fail under it: the UART console   *)
(* with two callers, and flash() with its bridge.  They share no state: a  *)
(* behaviour is a behaviour of one of them, chosen at the start, and the   *)
(* variables of the other stay.                                            *)
(***************************************************************************)
EXTENDS UartSession, FlashBridge

VARIABLE part \* what runs

linkVars == <<part, vars, bridgeVars>>

LinkInit ==
    /\ part \in {"uart", "flash"}
    /\ Init /\ BridgeInit

UartRuns == part = "uart" /\ UNCHANGED <<part, bridgeVars>>
FlashRuns == part = "flash" /\ UNCHANGED <<part, vars>>

LinkNext == (UartRuns /\ Next) \/ (FlashRuns /\ BridgeNext)

(* Each part's own fairness. *)
LinkFairness ==
    /\ WF_linkVars(UartRuns /\ ReaderThread) /\ \A c \in Callers : WF_linkVars(UartRuns /\ Resume(c))
    /\ WF_linkVars(UartRuns /\ CloseLink)
    /\ WF_linkVars(FlashRuns /\ Caller) /\ WF_linkVars(FlashRuns /\ OcToPod)
    /\ WF_linkVars(FlashRuns /\ PodToOc) /\ WF_linkVars(FlashRuns /\ OcDies)

LinkSpec == LinkInit /\ [][LinkNext]_linkVars /\ LinkFairness
=============================================================================
