------------------------------- MODULE Heap -------------------------------
(***************************************************************************)
(* The buddy allocator of heap.c: a complete binary tree of nodes, walked  *)
(* without a stack. A walk remembers where it is and which child it has    *)
(* just come back from (skip); one step is one turn of a loop.             *)
(*                                                                         *)
(* heap_lock is held from the first step of a call to the last, so that    *)
(* there is one call at a time.                                            *)
(***************************************************************************)
EXTENDS Integers, Powers

CONSTANTS HEAP_ADDR_LEN, HEAP_ADDR_MIN_LEN, Request, NULL,
    BRANCH_NODE

ASSUME HeapAssumption ==
    /\ HEAP_ADDR_LEN \in Nat /\ HEAP_ADDR_MIN_LEN \in 0 .. HEAP_ADDR_LEN - 1
    /\ Request \subseteq Nat
    /\ NULL # BRANCH_NODE /\ NULL \notin Nat /\ BRANCH_NODE \notin Nat

VARIABLES
    heap_tree,
    call, ret, \* the call in progress, what the last one returned
    walk       \* locals of the call: i, skip, block_size and used, and whether
               \* free is past find_ptr and gives nodes back (merging)

vars == <<heap_tree, call, ret, walk>>

Level == 0 .. HEAP_ADDR_LEN - HEAP_ADDR_MIN_LEN
HEAP_TREE_NODE_CNT == Pow2[HEAP_ADDR_LEN - HEAP_ADDR_MIN_LEN + 1] - 1
Node == 0 .. HEAP_TREE_NODE_CNT - 1
LevelOf(i) == CHOOSE d \in Level : Pow2[d] <= i + 1 /\ i + 1 < Pow2[d + 1]

\* The blocks of the abstract heap are the leaves.
Leaf(i) == heap_tree[i] \notin {NULL, BRANCH_NODE}
Blocks == {[addr |-> heap_tree[i], size |-> Pow2[HEAP_ADDR_LEN - LevelOf(i)]]
              : i \in {j \in Node : Leaf(j)}}

Abstract == INSTANCE HeapBlocks WITH blocks <- Blocks

HEAP_SIZE == Abstract!HEAP_SIZE
HEAP_SIZE_MIN == Abstract!HEAP_SIZE_MIN
Idle == Abstract!Idle

AtRoot == [i |-> 0, skip |-> 0, block_size |-> HEAP_SIZE, used |-> 0, merging |-> FALSE]

Init ==
    /\ heap_tree = [i \in Node |-> NULL]
    /\ call = Idle /\ ret = NULL
    /\ walk = AtRoot

-----------------------------------------------------------------------------
(* Moves of a walk.                                                          *)

Left(i) == 2 * i + 1
Right(i) == 2 * i + 2

\* In C (0 - 1) / 2 is 0.
Parent(i) == IF i = 0 THEN 0 ELSE (i - 1) \div 2

UpForgetful(w) == [w EXCEPT !.block_size = 2 * @, !.i = Parent(@)]

Up(w) == [w EXCEPT !.skip = w.i, !.block_size = 2 * @, !.i = Parent(@)]
DownLeft(w) == [w EXCEPT !.block_size = @ \div 2, !.i = Left(@)]
DownRight(w) == [w EXCEPT !.block_size = @ \div 2, !.i = Right(@)]

\* next_pow2: one bit above the highest bit of x - 1.
next_pow2(x) == IF x <= 2 THEN x ELSE CHOOSE p \in {Pow2[k] : k \in 2 .. HEAP_ADDR_LEN} :
                                         (p \div 2) <= x - 1 /\ x - 1 < p

SizeOf(n) == IF next_pow2(n) < HEAP_SIZE_MIN THEN HEAP_SIZE_MIN ELSE next_pow2(n)

Done(r) ==
    /\ ret' = r
    /\ call' = Idle
    /\ walk' = AtRoot

Goto(w) == walk' = w /\ UNCHANGED <<call, ret>>

-----------------------------------------------------------------------------
Begin ==
    /\ call = Idle
    /\ call' \in Abstract!Call
    /\ ret' = NULL
    /\ UNCHANGED <<heap_tree, walk>>

\* malloc refuses what cannot fit before it takes the lock.
MallocTooLarge ==
    /\ call.op = "malloc" /\ call.arg > HEAP_SIZE
    /\ Done(NULL)
    /\ UNCHANGED heap_tree

Mallocs == call.op = "malloc" /\ call.arg <= HEAP_SIZE

\* malloc at a node of the size asked for that is not free.
MallocOccupied ==
    /\ Mallocs /\ walk.block_size = SizeOf(call.arg)
    /\ heap_tree[walk.i] # NULL
    /\ Goto(Up(walk))
    /\ UNCHANGED heap_tree

AddressUnmasked(i, size) == (i + 1) * size
AddressOfIndex(i, size) == (i * size) % HEAP_SIZE

Address(i, size) == ((i + 1) * size) % HEAP_SIZE

MallocTake ==
    /\ Mallocs /\ walk.block_size = SizeOf(call.arg)
    /\ heap_tree[walk.i] = NULL
    /\ heap_tree' = [heap_tree EXCEPT ![walk.i] = Address(walk.i, walk.block_size)]
    /\ Done(Address(walk.i, walk.block_size))

\* The node the walk is at becomes a branch. Where the walk goes from a larger
\* node: into the left child unless that is in use or done with, else into the
\* right one on the same condition, else up.
MallocDescend ==
    LET i == walk.i
        leftDone == Leaf(Left(i)) \/ Left(i) = walk.skip
        rightDone == Right(i) = walk.skip \/ (leftDone /\ Leaf(Right(i)))
    IN  /\ Mallocs /\ walk.block_size # SizeOf(call.arg)
        /\ heap_tree' = [heap_tree EXCEPT ![i] = BRANCH_NODE]
        /\ \/ rightDone /\ i = 0 /\ Done(NULL)
           \/ rightDone /\ i # 0 /\ Goto(Up(walk))
           \/ ~rightDone /\ leftDone /\ Goto(DownRight(walk))
           \/ ~rightDone /\ ~leftDone /\ Goto(DownLeft(walk))

-----------------------------------------------------------------------------
\* There is no such child, or nothing of it is in use.
Absent(j) == j \in Node => heap_tree[j] = NULL

\* free on an empty heap returns before it takes the lock.
FreeEmpty ==
    /\ call.op = "free" /\ ~walk.merging /\ walk = AtRoot
    /\ heap_tree[0] = NULL
    /\ Done(ret)
    /\ UNCHANGED heap_tree

\* find_ptr has the node. It returns its index, and 0 stands for "not found".
FreeFound ==
    /\ call.op = "free" /\ ~walk.merging /\ heap_tree[0] # NULL
    /\ heap_tree[walk.i] = call.arg
    /\ IF walk.i = 0 THEN Done(ret) /\ UNCHANGED heap_tree
       ELSE /\ heap_tree' = [heap_tree EXCEPT ![walk.i] = NULL]
            /\ Goto([walk EXCEPT !.merging = TRUE])

\* find_ptr goes on with the search, or ends it at the root.
FreeSearch ==
    LET i == walk.i
        leftDone == Absent(Left(i)) \/ Left(i) = walk.skip
        rightDone == Right(i) = walk.skip \/ (leftDone /\ Absent(Right(i)))
    IN  /\ call.op = "free" /\ ~walk.merging /\ heap_tree[0] # NULL
        /\ heap_tree[i] # call.arg
        /\ \/ rightDone /\ i = 0 /\ Done(ret)
           \/ rightDone /\ i # 0 /\ Goto(Up(walk))
           \/ ~rightDone /\ leftDone /\ Goto(DownRight(walk))
           \/ ~rightDone /\ ~leftDone /\ Goto(DownLeft(walk))
        /\ UNCHANGED heap_tree

\* free gives back the parents of which neither child is in use.
LeftChildFree(p) == heap_tree[Left(p)] = NULL

BothChildrenFree(p) == heap_tree[Left(p)] = NULL /\ heap_tree[Right(p)] = NULL

FreeMerge ==
    LET p == Parent(walk.i)
    IN  /\ call.op = "free" /\ walk.merging
        /\ \/ walk.i > 0 /\ BothChildrenFree(p)
              /\ heap_tree' = [heap_tree EXCEPT ![p] = NULL]
              /\ Goto([walk EXCEPT !.i = p])
           \/ (walk.i = 0 \/ ~BothChildrenFree(p)) /\ Done(ret) /\ UNCHANGED heap_tree

-----------------------------------------------------------------------------
\* heap_stats: the rest of a turn of its loop, from walk w.
StatsGoOn(w) ==
    LET i == w.i
        leftDone == heap_tree[Left(i)] = NULL \/ Left(i) = w.skip
        rightDone == Right(i) = w.skip \/ (leftDone /\ heap_tree[Right(i)] = NULL)
    IN  \/ rightDone /\ i = 0 /\ Done(w.used)
        \/ rightDone /\ i # 0 /\ Goto(Up(w))
        \/ ~rightDone /\ leftDone /\ Goto(DownRight(w))
        \/ ~rightDone /\ ~leftDone /\ Goto(DownLeft(w))

\* A leaf is added up, and the same turn goes on at its parent.
StatsLeaf ==
    LET w == [walk EXCEPT !.used = @ + walk.block_size]
    IN  /\ call.op = "stats" /\ Leaf(walk.i)
        /\ IF walk.i = 0 THEN Done(w.used) ELSE StatsGoOn(Up(w))
        /\ UNCHANGED heap_tree

StatsInner ==
    /\ call.op = "stats" /\ ~Leaf(walk.i)
    /\ StatsGoOn(walk)
    /\ UNCHANGED heap_tree

Malloc == MallocTooLarge \/ MallocOccupied \/ MallocTake \/ MallocDescend
FreeCall == FreeEmpty \/ FreeFound \/ FreeSearch \/ FreeMerge
Stats == StatsLeaf \/ StatsInner

Next == Begin \/ Malloc \/ FreeCall \/ Stats

Spec == Init /\ [][Next]_vars

\* A call that has begun goes on: its caller is scheduled, and holds the lock.
FairSpec == Spec /\ WF_vars(Malloc \/ FreeCall \/ Stats)

-----------------------------------------------------------------------------
TypeOK ==
    /\ heap_tree \in [Node -> 0 .. HEAP_SIZE - 1 \cup {NULL, BRANCH_NODE}]
    /\ call \in Abstract!Call \cup {Idle}
    /\ ret \in 0 .. HEAP_SIZE \cup {NULL}
    /\ walk \in [i : Node, skip : Node, block_size : {Pow2[k] : k \in HEAP_ADDR_MIN_LEN .. HEAP_ADDR_LEN},
                 used : 0 .. HEAP_SIZE, merging : BOOLEAN]

\* Between calls the tree says which parts are in use and nothing else: a node
\* is a branch exactly if one of its children is in use, and below a leaf or a
\* free node everything is free. A stale branch would never be given out whole
\* again, a stale leaf never found (heap.c:51, 109-117).
TreeExact ==
    call = Idle =>
        \A i \in Node : heap_tree[i] = BRANCH_NODE <=>
            (Left(i) \in Node /\ (heap_tree[Left(i)] # NULL \/ heap_tree[Right(i)] # NULL))

\* No two blocks in use overlap (heap.c:45-47).
BlocksDisjoint ==
    \A b, c \in Blocks : b # c => ~Abstract!Overlap(b, c)

\* Every call is one of the abstract heap's: it grants an aligned free block of
\* the size asked for if there is one, refuses only if there is none, frees the
\* block it is given and no other, and reports the sum of the sizes in use.
ImplementsBlocks == Abstract!Spec

\* Every walk of the tree ends: none goes round between two nodes it takes in
\* turn for unvisited (malloc, find_ptr and heap_stats).
CallsReturn == call # Idle ~> call = Idle
=============================================================================
