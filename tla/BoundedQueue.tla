--------------------------- MODULE BoundedQueue ---------------------------
(***************************************************************************)
(* What fifo_put and fifo_get promise: a queue of at most Size entries, in *)
(* which each value put is entered once and each entry is handed to one    *)
(* consumer, in order.                                                     *)
(***************************************************************************)
EXTENDS Integers, Sequences

CONSTANTS Producer, Consumer, Size, Value, NULL

VARIABLES
    queue,
    hand    \* the value a producer offers, or a consumer has taken

vars == <<queue, hand>>

Init == queue = <<>> /\ hand = [t \in Producer \cup Consumer |-> NULL]

Offer(p) ==
    /\ hand[p] = NULL
    /\ \E v \in Value : hand' = [hand EXCEPT ![p] = v]
    /\ UNCHANGED queue

Enter(p) ==
    /\ hand[p] # NULL /\ Len(queue) < Size
    /\ queue' = Append(queue, hand[p])
    /\ hand' = [hand EXCEPT ![p] = NULL]

Take(c) ==
    /\ hand[c] = NULL /\ queue # <<>>
    /\ hand' = [hand EXCEPT ![c] = Head(queue)]
    /\ queue' = Tail(queue)

Use(c) ==
    /\ hand[c] # NULL
    /\ hand' = [hand EXCEPT ![c] = NULL]
    /\ UNCHANGED queue

Next ==
    \/ \E p \in Producer : Offer(p) \/ Enter(p)
    \/ \E c \in Consumer : Take(c) \/ Use(c)

Spec == Init /\ [][Next]_vars
=============================================================================
