---------------------------- MODULE LossyStream ----------------------------
(* What a console promises its readers: the characters come out in order,   *)
(* none twice, and one is lost unread only to make room for newer ones when *)
(* more than MaxUnread of them wait.                                        *)
EXTENDS Integers

CONSTANT MaxUnread
VARIABLES
    arrived,    \* characters that came in so far
    next        \* of those, the characters that were delivered or lost

Room(n) == IF n > MaxUnread THEN n - MaxUnread ELSE 0

Init == arrived = 0 /\ next = 0
Arrive ==
    /\ arrived' \in Nat /\ arrived' > arrived
    /\ next' = next + Room(arrived' - next)
Deliver ==
    /\ next' \in Nat /\ next' > next /\ next' <= arrived
    /\ UNCHANGED arrived
Next == Arrive \/ Deliver
Spec == Init /\ [][Next]_<<arrived, next>>
=============================================================================
