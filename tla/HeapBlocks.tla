---------------------------- MODULE HeapBlocks ----------------------------
(***************************************************************************)
(* What malloc, free and heap_stats promise (heap.h): a set of disjoint    *)
(* blocks, each of a power of two in size and at a multiple of its size.   *)
(* A request is refused only if no such block is free.                     *)
(***************************************************************************)
EXTENDS Integers, FiniteSets, FiniteSetsExt, Powers

CONSTANTS
    HEAP_ADDR_LEN, HEAP_ADDR_MIN_LEN,
    Request,   \* the sizes asked for
    NULL

HEAP_SIZE == Pow2[HEAP_ADDR_LEN]
HEAP_SIZE_MIN == Pow2[HEAP_ADDR_MIN_LEN]

\* The pointers free may be given.
Pointer == {a \in 0 .. HEAP_SIZE - 1 : a % HEAP_SIZE_MIN = 0} \cup {NULL}

\* The calls: what is asked of the heap, and of which argument.
Idle == [op |-> "none", arg |-> NULL]
Call == {[op |-> "malloc", arg |-> n] : n \in Request}
        \cup {[op |-> "free", arg |-> p] : p \in Pointer}
        \cup {[op |-> "stats", arg |-> NULL]}

\* Rounded up to a power of two, and to the least size there is.
Rounded(n) == CHOOSE m \in {Pow2[k] : k \in HEAP_ADDR_MIN_LEN .. HEAP_ADDR_LEN} :
                 m >= n /\ (m > HEAP_SIZE_MIN => m \div 2 < n)

VARIABLES
    blocks,  \* the blocks in use, as [addr, size]
    call,    \* the call in progress
    ret      \* what the last call returned

vars == <<blocks, call, ret>>

Overlap(b, c) == b.addr < c.addr + c.size /\ c.addr < b.addr + b.size

Free(size) ==
    {b \in [addr : {k * size : k \in 0 .. (HEAP_SIZE \div size) - 1}, size : {size}] :
        \A c \in blocks : ~Overlap(b, c)}

Init == blocks = {} /\ call = Idle /\ ret = NULL

Begin == /\ call = Idle
         /\ call' \in Call
         /\ ret' = NULL
         /\ UNCHANGED blocks

Fits == call.op = "malloc" /\ call.arg <= HEAP_SIZE

Grant == /\ Fits
         /\ \E b \in Free(Rounded(call.arg)) : blocks' = blocks \cup {b} /\ ret' = b.addr
         /\ call' = Idle

Refuse == /\ call.op = "malloc"
          /\ Fits => Free(Rounded(call.arg)) = {}
          /\ ret' = NULL
          /\ call' = Idle
          /\ UNCHANGED blocks

\* A pointer that is no block's is ignored.
Release == /\ call.op = "free"
           /\ blocks' = {b \in blocks : b.addr # call.arg}
           /\ UNCHANGED <<call, ret>>

Return == /\ call.op = "free"
          /\ \A b \in blocks : b.addr # call.arg
          /\ call' = Idle
          /\ UNCHANGED <<blocks, ret>>

TotalSize(B) == MapThenSumSet(LAMBDA b : b.size, B)

Report == /\ call.op = "stats"
          /\ ret' = TotalSize(blocks)
          /\ call' = Idle
          /\ UNCHANGED blocks

Next == Begin \/ Grant \/ Refuse \/ Release \/ Return \/ Report

Spec == Init /\ [][Next]_vars
=============================================================================
