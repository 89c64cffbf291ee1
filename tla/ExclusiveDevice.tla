-------------------------- MODULE ExclusiveDevice --------------------------
(* What the lease promises: at any moment at most one consumer drives the   *)
(* device, and it drives it only after whoever did before has stopped.      *)


CONSTANT Consumers
VARIABLE users

Init == users = {}
Enter(c) == users = {} /\ users' = {c}
Leave(c) == c \in users /\ users' = users \ {c}
Next == \E c \in Consumers : Enter(c) \/ Leave(c)
Spec == Init /\ [][Next]_users
=============================================================================
