------------------------------ MODULE HeapProofs ------------------------------
(***************************************************************************)
(* Proofs about the heap, for every size of it, every smallest block and   *)
(* every set of requests of which none needs the whole heap.               *)
(*                                                                         *)
(* First the invariant of the tree and of the walk in it (HeapInv), from   *)
(* which the types and TreeExact follow. Then where the parts of the heap  *)
(* lie that the nodes stand for, what a walk has found out about those it  *)
(* has passed (PassedInv), and that each step is one of the abstract heap  *)
(* or none.                                                                *)
(***************************************************************************)
EXTENDS Heap, FiniteSetTheorems, NaturalsInduction, WellFoundedInduction, TLAPS

\* The program's requests: none is rounded up to the whole heap, but it may be
\* for more than there is. Without it the walk of malloc leaves the tree at the
\* root (heap.c:40).
ModestRequests == \A n \in Request : n > HEAP_SIZE \/ 2 * SizeOf(n) <= HEAP_SIZE

Children(i) == {Left(i), Right(i)}

\* The size of the part of the heap a node stands for.
SizeAt(i) == Pow2[HEAP_ADDR_LEN - LevelOf(i)]

\* A branch has children, and what is no branch has nothing in use below it.
TreeShape ==
    \A i \in Node :
        /\ heap_tree[i] = BRANCH_NODE => Left(i) \in Node
        /\ heap_tree[i] # BRANCH_NODE /\ Left(i) \in Node =>
               heap_tree[Left(i)] = NULL /\ heap_tree[Right(i)] = NULL

\* The one branch below which nothing is in use, if there is one, is the parent
\* of the node that malloc is about to take or free has just given back.
Descending == call.op = "malloc" \/ walk.merging
OneStale ==
    \A i \in Node :
        heap_tree[i] = BRANCH_NODE /\ BothChildrenFree(i) => Descending /\ walk.i \in Children(i)

\* There is none.
AllExact == \A i \in Node : heap_tree[i] = BRANCH_NODE => ~BothChildrenFree(i)

\* The heap is never given out as a whole.
RootInner == heap_tree[0] \in {NULL, BRANCH_NODE}

\* The node last left is a child of the one the walk is at, or one that comes
\* before its children: that it is not taken for a child yet to be visited.
SkipBehind == walk.skip < Left(walk.i) \/ walk.skip \in Children(walk.i)

AtSize == walk.block_size = SizeAt(walk.i)

\* malloc is at a node as large as asked for or larger, under a branch, and at a
\* block in use only if it is of that size; it has not been below a free node.
WalkMalloc == Mallocs =>
    /\ AtSize /\ SkipBehind /\ ~walk.merging /\ walk.used = 0
    /\ SizeOf(call.arg) <= walk.block_size
    /\ Leaf(walk.i) => walk.block_size = SizeOf(call.arg)
    /\ heap_tree[walk.i] = NULL => walk.skip < Left(walk.i)
    /\ walk.i # 0 => heap_tree[Parent(walk.i)] = BRANCH_NODE

\* find_ptr stays at nodes in use; free, past it, is at one that it has freed.
WalkFree == call.op = "free" =>
    /\ walk.used = 0
    /\ IF walk.merging THEN heap_tree[walk.i] = NULL
       ELSE AtSize /\ (heap_tree[0] # NULL => heap_tree[walk.i] # NULL)
                   /\ (heap_tree[0] = NULL => walk = AtRoot)

\* Where the part of the heap a node stands for begins.
Base(i) == (i + 1) * SizeAt(i) - HEAP_SIZE

\* How much of the part it is at a walk is done with.
Past(w) == IF w.skip = Right(w.i) THEN w.block_size
           ELSE IF w.skip = Left(w.i) THEN w.block_size \div 2 ELSE 0

\* heap_stats stays at nodes in use, or the root, and has not counted more than
\* there is in what it has passed.
StatsWalk(w) ==
    /\ w.block_size = SizeAt(w.i)
    /\ w.skip < Left(w.i) \/ w.skip \in Children(w.i)
    /\ ~w.merging
    /\ w.i # 0 => heap_tree[w.i] # NULL
    /\ Leaf(w.i) => w.skip < Left(w.i)
    /\ w.used <= Base(w.i) + Past(w)

WalkStats == call.op = "stats" => StatsWalk(walk)

WalkRest == call = Idle \/ (call.op = "malloc" /\ ~Mallocs) => walk = AtRoot

\* The inductive invariant of the tree and the walk.
HeapInv ==
    /\ TypeOK /\ TreeShape /\ OneStale /\ RootInner
    /\ WalkMalloc /\ WalkFree /\ WalkStats /\ WalkRest

-----------------------------------------------------------------------------
(* Powers of two                                                             *)
\* Induction over the naturals, for a set rather than a predicate.
LEMMA NatSetInduction ==
    ASSUME NEW S, 0 \in S, \A n \in Nat : n \in S => n + 1 \in S
    PROVE  Nat \subseteq S
<1> DEFINE T == Nat \ S
<1>. SUFFICES ASSUME T # {} PROVE FALSE
    OBVIOUS
<1>1. IsWellFoundedOn(OpToRel(<, Nat), Nat)
    BY NatLessThanWellFounded
<1>2. PICK m \in T : \A k \in T : ~ (<<k, m>> \in OpToRel(<, Nat))
    BY <1>1, WFMin
<1>3. m # 0 /\ m \in Nat
    OBVIOUS
<1>4. m - 1 \in Nat /\ m - 1 < m /\ (m - 1) + 1 = m
    BY <1>3
<1>5. m - 1 \in T
    BY <1>4, <1>2
<1>6. <<m - 1, m>> \in OpToRel(<, Nat)
    <2>1. <<m - 1, m>> \in Nat \X Nat /\ <<m - 1, m>>[1] < <<m - 1, m>>[2]
        BY <1>3, <1>4
    <2>. QED BY <2>1, Zenon DEF OpToRel
<1>. QED BY <1>2, <1>5, <1>6

\* The first powers, as a function on 0 .. n.
Approximates(f, n) ==
    /\ f \in [0 .. n -> Nat]
    /\ f[0] = 1
    /\ \A k \in 1 .. n : f[k] = 2 * f[k - 1]

\* There is one for every n, and they agree.
LEMMA ApproximationExists ==
    \A n \in Nat : \E f : Approximates(f, n)
<1> DEFINE S == {n \in Nat : \E f : Approximates(f, n)}
<1>1. 0 \in S
    <2>1. Approximates([k \in 0 .. 0 |-> 1], 0)
        BY DEF Approximates
    <2>. QED BY <2>1
<1>2. ASSUME NEW n \in Nat, n \in S PROVE n + 1 \in S
    <2>1. PICK f : Approximates(f, n)
        BY <1>2
    <2> DEFINE g == [k \in 0 .. n + 1 |-> IF k = n + 1 THEN 2 * f[n] ELSE f[k]]
    <2>2. g \in [0 .. n + 1 -> Nat] /\ g[0] = 1
        BY <2>1 DEF Approximates
    <2>3. ASSUME NEW k \in 1 .. n + 1 PROVE g[k] = 2 * g[k - 1]
        BY <2>1 DEF Approximates
    <2>4. Approximates(g, n + 1)
        BY <2>2, <2>3 DEF Approximates
    <2>. QED BY <2>4
<1>. HIDE DEF S
<1>3. Nat \subseteq S
    BY <1>1, <1>2, NatSetInduction
<1>. QED BY <1>3 DEF S

LEMMA ApproximationsAgree ==
    ASSUME NEW m \in Nat, NEW n \in Nat, NEW f, NEW g, Approximates(f, m), Approximates(g, n)
    PROVE  \A k \in Nat : k <= m /\ k <= n => f[k] = g[k]
<1> DEFINE S == {k \in Nat : k <= m /\ k <= n => f[k] = g[k]}
<1>1. 0 \in S
    BY DEF Approximates
<1>2. ASSUME NEW k \in Nat, k \in S PROVE k + 1 \in S
    <2>. SUFFICES ASSUME k + 1 <= m, k + 1 <= n PROVE f[k + 1] = g[k + 1]
        OBVIOUS
    <2>1. f[k] = g[k]
        BY <1>2
    <2>2. k + 1 \in 1 .. m /\ k + 1 \in 1 .. n /\ (k + 1) - 1 = k
        OBVIOUS
    <2>. QED BY <2>1, <2>2 DEF Approximates
<1>. HIDE DEF S
<1>3. Nat \subseteq S
    BY <1>1, <1>2, NatSetInduction
<1>. QED BY <1>3 DEF S

\* Pow2 is the function its definition describes.
LEMMA PowersDefined ==
    Pow2 = [n \in Nat |-> IF n = 0 THEN 1 ELSE 2 * Pow2[n - 1]]
<1> DEFINE f(n) == CHOOSE f : Approximates(f, n)
           P == [n \in Nat |-> f(n)[n]]
<1>1. \A n \in Nat : Approximates(f(n), n)
    BY ApproximationExists
<1>. HIDE DEF f
<1>2. P = [n \in Nat |-> IF n = 0 THEN 1 ELSE 2 * P[n - 1]]
    <2>1. ASSUME NEW n \in Nat PROVE P[n] = IF n = 0 THEN 1 ELSE 2 * P[n - 1]
        <3>1. CASE n = 0
            BY <1>1, <3>1 DEF Approximates
        <3>2. CASE n # 0
            <4>1. n - 1 \in Nat /\ n \in 1 .. n
                BY <3>2
            <4>2. f(n)[n] = 2 * f(n)[n - 1]
                BY <1>1, <4>1 DEF Approximates
            <4>3. f(n)[n - 1] = f(n - 1)[n - 1]
                BY <1>1, <4>1, ApproximationsAgree
            <4>. QED BY <3>2, <4>1, <4>2, <4>3
        <3>. QED BY <3>1, <3>2
    <2>. QED BY <2>1
<1>. HIDE DEF P
<1>3. \E Q : Q = [n \in Nat |-> IF n = 0 THEN 1 ELSE 2 * Q[n - 1]]
    BY <1>2
<1>. QED BY <1>3, Zenon DEF Pow2

\* What Pow2 is used for.
LEMMA PowersStep ==
    /\ Pow2[0] = 1
    /\ \A n \in Nat : Pow2[n + 1] = 2 * Pow2[n]
<1>1. Pow2[0] = 1
    BY PowersDefined
<1>2. ASSUME NEW n \in Nat PROVE Pow2[n + 1] = 2 * Pow2[n]
    <2>1. n + 1 \in Nat /\ n + 1 # 0 /\ (n + 1) - 1 = n
        OBVIOUS
    <2>. QED BY <2>1, PowersDefined
<1>. QED BY <1>1, <1>2

\* Every power is a number but 0, and the powers grow with the exponent.
LEMMA PowersPositive ==
    \A n \in Nat : Pow2[n] \in Nat \ {0}
<1> DEFINE S == {n \in Nat : Pow2[n] \in Nat \ {0}}
<1>1. 0 \in S
    BY PowersStep
<1>2. \A n \in Nat : n \in S => n + 1 \in S
    BY PowersStep
<1>. HIDE DEF S
<1>3. Nat \subseteq S
    BY <1>1, <1>2, NatSetInduction
<1>. QED BY <1>3 DEF S

LEMMA PowersMonotone ==
    \A m, n \in Nat : m <= n => Pow2[m] <= Pow2[n]
<1>. SUFFICES ASSUME NEW m \in Nat PROVE \A n \in Nat : m <= n => Pow2[m] <= Pow2[n]
    OBVIOUS
<1> DEFINE S == {n \in Nat : m <= n => Pow2[m] <= Pow2[n]}
<1>1. 0 \in S
    BY PowersPositive
<1>2. ASSUME NEW n \in Nat, n \in S PROVE n + 1 \in S
    <2>1. CASE m <= n
        BY <2>1, <1>2, PowersStep, PowersPositive
    <2>2. CASE m = n + 1
        BY <2>2, PowersPositive
    <2>3. CASE m > n + 1
        BY <2>3
    <2>. QED BY <2>1, <2>2, <2>3
<1>. HIDE DEF S
<1>3. Nat \subseteq S
    BY <1>1, <1>2, NatSetInduction
<1>. QED BY <1>3 DEF S

\* The powers of two multiply by adding exponents.
LEMMA PowersProduct ==
    \A m, n \in Nat : Pow2[m] * Pow2[n] = Pow2[m + n]
<1>. SUFFICES ASSUME NEW m \in Nat PROVE \A n \in Nat : Pow2[m] * Pow2[n] = Pow2[m + n]
    OBVIOUS
<1> DEFINE S == {n \in Nat : Pow2[m] * Pow2[n] = Pow2[m + n]}
<1>1. 0 \in S
    BY PowersStep, PowersPositive
<1>2. ASSUME NEW n \in Nat, n \in S PROVE n + 1 \in S
    <2>1. Pow2[n + 1] = 2 * Pow2[n] /\ Pow2[m + (n + 1)] = 2 * Pow2[m + n]
        <3>1. m + n \in Nat /\ m + (n + 1) = (m + n) + 1
            OBVIOUS
        <3>. QED BY <3>1, PowersStep
    <2>2. Pow2[m] \in Nat /\ Pow2[n] \in Nat
        BY PowersPositive
    <2>3. Pow2[m] * (2 * Pow2[n]) = 2 * (Pow2[m] * Pow2[n])
        BY <2>2
    <2>. QED BY <2>1, <2>3, <1>2
<1>. HIDE DEF S
<1>3. Nat \subseteq S
    BY <1>1, <1>2, NatSetInduction
<1>. QED BY <1>3 DEF S

\* Of two powers the smaller is at most half of the larger.
LEMMA PowersApart ==
    \A m, n \in Nat : Pow2[m] < Pow2[n] => 2 * Pow2[m] <= Pow2[n]
<1>. SUFFICES ASSUME NEW m \in Nat, NEW n \in Nat, Pow2[m] < Pow2[n]
              PROVE  2 * Pow2[m] <= Pow2[n]
    OBVIOUS
<1>1. m + 1 <= n
    BY PowersMonotone, PowersPositive
<1>2. Pow2[m + 1] <= Pow2[n]
    BY <1>1, PowersMonotone
<1>. QED BY <1>2, PowersStep

-----------------------------------------------------------------------------
(* Nodes, their levels and their sizes                                       *)

\* That node i is on level d, counted from the root.
AtLevel(i, d) == Pow2[d] <= i + 1 /\ i + 1 < Pow2[d + 1]

Bottom == HEAP_ADDR_LEN - HEAP_ADDR_MIN_LEN

\* The levels, from the root to the smallest blocks.
LEMMA LevelsNat ==
    /\ Bottom \in Nat \ {0} /\ Level = 0 .. Bottom
    /\ HEAP_ADDR_LEN \in Nat /\ HEAP_ADDR_MIN_LEN \in Nat
    /\ \A d \in Level : d \in Nat /\ d + 1 \in Nat /\ HEAP_ADDR_LEN - d \in Nat
BY HeapAssumption DEF Bottom, Level

\* The nodes are the numbers below one less than a power of two.
LEMMA NodeRange ==
    /\ Node \subseteq Nat /\ 0 \in Node
    /\ \A i \in Nat : i \in Node <=> i + 1 < Pow2[Bottom + 1]
    /\ \A i \in Node, j \in Nat : j < i => j \in Node
<1>1. Pow2[Bottom + 1] \in Nat /\ Pow2[Bottom + 1] > 1
    <2>1. Pow2[Bottom + 1] = 2 * Pow2[Bottom]
        BY LevelsNat, PowersStep
    <2>2. Pow2[Bottom] \in Nat \ {0}
        BY LevelsNat, PowersPositive
    <2>. QED BY <2>1, <2>2
<1>2. HEAP_TREE_NODE_CNT = Pow2[Bottom + 1] - 1
    BY DEF HEAP_TREE_NODE_CNT, Bottom
<1>. QED BY <1>1, <1>2 DEF Node

\* A number but 0 is between two successive powers.
LEMMA BetweenPowers ==
    \A n, i \in Nat : i + 1 < Pow2[n] => \E d \in 0 .. n - 1 : AtLevel(i, d)
<1> DEFINE S == {n \in Nat : \A i \in Nat : i + 1 < Pow2[n] => \E d \in 0 .. n - 1 : AtLevel(i, d)}
<1>1. 0 \in S
    BY PowersStep
<1>2. ASSUME NEW n \in Nat, n \in S PROVE n + 1 \in S
    <2>. SUFFICES ASSUME NEW i \in Nat, i + 1 < Pow2[n + 1]
                  PROVE  \E d \in 0 .. n : AtLevel(i, d)
        OBVIOUS
    <2>1. Pow2[n] \in Nat
        BY PowersPositive
    <2>2. CASE i + 1 < Pow2[n]
        BY <1>2, <2>2
    <2>3. CASE Pow2[n] <= i + 1
        BY <2>3 DEF AtLevel
    <2>. QED BY <2>1, <2>2, <2>3
<1>. HIDE DEF S
<1>3. Nat \subseteq S
    BY <1>1, <1>2, NatSetInduction
<1>. QED BY <1>3 DEF S

\* Every node is on exactly one level, and LevelOf tells which.
LEMMA LevelExists ==
    \A i \in Node : \E d \in Level : AtLevel(i, d)
<1>. SUFFICES ASSUME NEW i \in Node PROVE \E d \in Level : AtLevel(i, d)
    OBVIOUS
<1>1. i \in Nat /\ i + 1 < Pow2[Bottom + 1] /\ Bottom + 1 \in Nat
    BY NodeRange, LevelsNat
<1>2. \E d \in 0 .. (Bottom + 1) - 1 : AtLevel(i, d)
    BY <1>1, BetweenPowers
<1>. QED BY <1>2, LevelsNat

LEMMA LevelUnique ==
    \A i, d, e \in Nat : AtLevel(i, d) /\ AtLevel(i, e) => d = e
<1>. SUFFICES ASSUME NEW i \in Nat, NEW d \in Nat, NEW e \in Nat, AtLevel(i, d), AtLevel(i, e), d < e
              PROVE  FALSE
    OBVIOUS
<1>1. Pow2[d + 1] <= Pow2[e]
    BY PowersMonotone
<1>2. Pow2[d + 1] \in Nat /\ Pow2[e] \in Nat
    BY PowersPositive
<1>. QED BY <1>1, <1>2 DEF AtLevel

LEMMA LevelOfNode ==
    \A i \in Node : LevelOf(i) \in Level /\ AtLevel(i, LevelOf(i))
<1>. SUFFICES ASSUME NEW i \in Node PROVE LevelOf(i) \in Level /\ AtLevel(i, LevelOf(i))
    OBVIOUS
<1>1. LevelOf(i) = CHOOSE d \in Level : AtLevel(i, d)
    BY DEF LevelOf, AtLevel
<1>. QED BY <1>1, LevelExists

LEMMA LevelOfIs ==
    \A i \in Node, d \in Level : AtLevel(i, d) => LevelOf(i) = d
BY LevelOfNode, LevelUnique, NodeRange, LevelsNat

\* The places round a node. A node has both children or neither.
LEMMA ParentOfChild ==
    \A i \in Nat : /\ Left(i) \in Nat /\ Right(i) \in Nat
                   /\ Left(i) # 0 /\ Right(i) # 0 /\ Left(i) # Right(i)
                   /\ i < Left(i) /\ i < Right(i)
                   /\ Parent(Left(i)) = i /\ Parent(Right(i)) = i
BY DEF Left, Right, Parent

LEMMA ChildOfParent ==
    \A i \in Nat \ {0} : /\ Parent(i) \in Nat /\ Parent(i) < i
                         /\ i = Left(Parent(i)) \/ i = Right(Parent(i))
BY DEF Left, Right, Parent

LEMMA BothChildren ==
    \A i \in Nat : Left(i) \in Node <=> Right(i) \in Node
<1>. SUFFICES ASSUME NEW i \in Nat PROVE Left(i) \in Node <=> Right(i) \in Node
    OBVIOUS
<1>1. Pow2[Bottom + 1] = 2 * Pow2[Bottom] /\ Pow2[Bottom] \in Nat
    BY PowersStep, PowersPositive, LevelsNat
<1>2. /\ Left(i) \in Node <=> Left(i) + 1 < 2 * Pow2[Bottom]
      /\ Right(i) \in Node <=> Right(i) + 1 < 2 * Pow2[Bottom]
    BY <1>1, NodeRange, ParentOfChild
<1>. QED BY <1>1, <1>2 DEF Left, Right

\* A child is one level below its parent.
LEMMA LevelOfChild ==
    ASSUME NEW i \in Node, NEW j \in Children(i), j \in Node
    PROVE  LevelOf(j) = LevelOf(i) + 1
<1>1. LevelOf(i) \in Level /\ AtLevel(i, LevelOf(i)) /\ i \in Nat /\ LevelOf(i) \in Nat
    BY LevelOfNode, NodeRange, LevelsNat
<1>2. /\ Pow2[LevelOf(i) + 1] = 2 * Pow2[LevelOf(i)]
      /\ Pow2[(LevelOf(i) + 1) + 1] = 2 * Pow2[LevelOf(i) + 1]
      /\ Pow2[LevelOf(i)] \in Nat
    BY <1>1, PowersStep, PowersPositive
<1>3. AtLevel(j, LevelOf(i) + 1)
    BY <1>1, <1>2 DEF AtLevel, Children, Left, Right
<1>4. LevelOf(j) \in Nat /\ AtLevel(j, LevelOf(j)) /\ j \in Nat
    BY LevelOfNode, NodeRange, LevelsNat
<1>. QED BY <1>1, <1>3, <1>4, LevelUnique

\* What the proofs use of sizes: the root's, the smallest, and that a node is
\* twice as large as a child. A node has children unless it is of the smallest
\* size.
Sizes == {Pow2[k] : k \in HEAP_ADDR_MIN_LEN .. HEAP_ADDR_LEN}

\* The abstract heap counts with the same powers.
LEMMA SizesAgree ==
    /\ HEAP_SIZE = Pow2[HEAP_ADDR_LEN] /\ HEAP_SIZE_MIN = Pow2[HEAP_ADDR_MIN_LEN]
    /\ Abstract!HEAP_SIZE = HEAP_SIZE /\ Abstract!HEAP_SIZE_MIN = HEAP_SIZE_MIN
<1>1. Abstract!Pow2 = Pow2
    BY Zenon DEF Pow2, Abstract!Pow2
<1>. QED BY <1>1 DEF HEAP_SIZE, HEAP_SIZE_MIN, Abstract!HEAP_SIZE, Abstract!HEAP_SIZE_MIN

\* The sizes from the smallest to the whole heap; a larger one is at least double.
LEMMA SizesNat ==
    /\ Sizes \subseteq Nat \ {0}
    /\ HEAP_SIZE \in Sizes /\ HEAP_SIZE_MIN \in Sizes
    /\ \A x \in Sizes : HEAP_SIZE_MIN <= x /\ x <= HEAP_SIZE
    /\ \A x, y \in Sizes : x < y => 2 * x <= y
<1>1. /\ HEAP_SIZE = Pow2[HEAP_ADDR_LEN] /\ HEAP_SIZE_MIN = Pow2[HEAP_ADDR_MIN_LEN]
    BY SizesAgree
<1>2. HEAP_ADDR_MIN_LEN .. HEAP_ADDR_LEN \subseteq Nat
    BY HeapAssumption
<1>3. Sizes \subseteq Nat \ {0}
    BY <1>2, PowersPositive DEF Sizes
<1>4. HEAP_SIZE \in Sizes /\ HEAP_SIZE_MIN \in Sizes
    BY <1>1, HeapAssumption DEF Sizes
<1>5. \A x \in Sizes : HEAP_SIZE_MIN <= x /\ x <= HEAP_SIZE
    BY <1>1, PowersMonotone, HeapAssumption DEF Sizes
<1>6. \A x, y \in Sizes : x < y => 2 * x <= y
    BY <1>2, PowersApart DEF Sizes
<1>. QED BY <1>3, <1>4, <1>5, <1>6

\* The root is as large as the heap.
LEMMA SizeAtType ==
    /\ SizeAt(0) = HEAP_SIZE
    /\ \A i \in Node : SizeAt(i) \in Sizes
<1>1. LevelOf(0) = 0
    <2>1. AtLevel(0, 0) /\ 0 \in Level /\ 0 \in Node
        BY PowersStep, LevelsNat, NodeRange DEF AtLevel
    <2>. QED BY <2>1, LevelOfIs
<1>2. \A i \in Node : HEAP_ADDR_LEN - LevelOf(i) \in HEAP_ADDR_MIN_LEN .. HEAP_ADDR_LEN
    BY LevelOfNode, HeapAssumption DEF Level
<1>. QED BY <1>1, <1>2, HeapAssumption, SizesAgree DEF SizeAt, Sizes

\* A child is half as large as its parent.
LEMMA SizeOfChild ==
    ASSUME NEW i \in Node, NEW j \in Children(i), j \in Node
    PROVE  SizeAt(i) = 2 * SizeAt(j)
<1>1. LevelOf(j) = LevelOf(i) + 1 /\ LevelOf(j) \in Level /\ LevelOf(i) \in Level
    BY LevelOfChild, LevelOfNode
<1>2. HEAP_ADDR_LEN - LevelOf(j) \in Nat
    BY <1>1, LevelsNat
<1>3. HEAP_ADDR_LEN - LevelOf(i) = (HEAP_ADDR_LEN - LevelOf(j)) + 1
    BY <1>1, LevelsNat
<1>. QED BY <1>2, <1>3, PowersStep DEF SizeAt

\* The nodes without children are those of the smallest size.
LEMMA ChildrenUnlessSmallest ==
    \A i \in Node : Left(i) \in Node <=> SizeAt(i) # HEAP_SIZE_MIN
<1>. SUFFICES ASSUME NEW i \in Node PROVE Left(i) \in Node <=> SizeAt(i) # HEAP_SIZE_MIN
    OBVIOUS
<1>1. CASE Left(i) \in Node
    <2>1. Left(i) \in Children(i)
        BY DEF Children
    <2>2. SizeAt(i) = 2 * SizeAt(Left(i))
        BY <1>1, <2>1, SizeOfChild
    <2>3. SizeAt(Left(i)) \in Nat \ {0} /\ SizeAt(Left(i)) >= HEAP_SIZE_MIN /\ HEAP_SIZE_MIN \in Nat
        BY <1>1, SizeAtType, SizesNat
    <2>. QED BY <1>1, <2>2, <2>3
<1>2. CASE Left(i) \notin Node
    <2> DEFINE d == LevelOf(i)
    <2>1. d \in Level /\ AtLevel(i, d) /\ i \in Nat /\ d \in Nat /\ d <= Bottom
        BY LevelOfNode, NodeRange, LevelsNat
    <2>2. ~ (Left(i) + 1 < Pow2[Bottom + 1])
        BY <1>2, NodeRange, ParentOfChild
    <2>3. Pow2[Bottom + 1] = 2 * Pow2[Bottom] /\ Pow2[Bottom] \in Nat /\ Pow2[d + 1] \in Nat
        <3>1. Bottom \in Nat /\ d + 1 \in Nat
            BY <2>1, LevelsNat
        <3>. QED BY <3>1, PowersStep, PowersPositive
    <2>4. ~ (d + 1 <= Bottom)
        <3>. SUFFICES ASSUME d + 1 <= Bottom PROVE FALSE
            OBVIOUS
        <3>1. Pow2[d + 1] <= Pow2[Bottom]
            BY <2>1, LevelsNat, PowersMonotone
        <3>. HIDE DEF d
        <3>. QED BY <2>1, <2>2, <2>3, <3>1 DEF AtLevel, Left
    <2>5. d = Bottom
        BY <2>1, <2>4, LevelsNat
    <2>6. HEAP_ADDR_LEN - d = HEAP_ADDR_MIN_LEN
        BY <2>5, LevelsNat DEF Bottom
    <2>. QED BY <1>2, <2>6, SizesAgree DEF SizeAt
<1>. QED BY <1>1, <1>2

-----------------------------------------------------------------------------
(* The size a request is rounded up to                                       *)

\* It is the least size that is large enough.
LEMMA SizeOfLeast ==
    ASSUME NEW n \in Nat, n <= HEAP_SIZE
    PROVE  /\ SizeOf(n) \in Sizes
           /\ n <= SizeOf(n)
           /\ SizeOf(n) > HEAP_SIZE_MIN => SizeOf(n) \div 2 < n
<1>1. /\ HEAP_SIZE_MIN \in Sizes /\ HEAP_SIZE_MIN \in Nat \ {0}
      /\ HEAP_ADDR_LEN \in Nat /\ HEAP_ADDR_MIN_LEN \in Nat /\ HEAP_ADDR_MIN_LEN < HEAP_ADDR_LEN
      /\ HEAP_SIZE_MIN = Pow2[HEAP_ADDR_MIN_LEN] /\ HEAP_SIZE = Pow2[HEAP_ADDR_LEN]
    BY SizesNat, SizesAgree, HeapAssumption
<1>2. Pow2[0] = 1 /\ Pow2[1] = 2
    <2>1. Pow2[0 + 1] = 2 * Pow2[0]
        BY PowersStep
    <2>. QED BY <2>1, PowersStep
<1>3. \A k \in 0 .. HEAP_ADDR_LEN : Pow2[k] >= HEAP_SIZE_MIN => Pow2[k] \in Sizes
    <2>. SUFFICES ASSUME NEW k \in 0 .. HEAP_ADDR_LEN, Pow2[k] >= HEAP_SIZE_MIN
                  PROVE  k \in HEAP_ADDR_MIN_LEN .. HEAP_ADDR_LEN
        BY DEF Sizes
    <2>1. Pow2[k + 1] = 2 * Pow2[k] /\ Pow2[k] \in Nat \ {0}
        BY PowersStep, PowersPositive
    <2>2. k + 1 <= HEAP_ADDR_MIN_LEN => Pow2[k + 1] <= Pow2[HEAP_ADDR_MIN_LEN]
        BY <1>1, PowersMonotone
    <2>. QED BY <1>1, <2>1, <2>2
<1>4. CASE n <= 2
    <2>1. next_pow2(n) = n
        BY <1>4 DEF next_pow2
    <2>2. CASE n < HEAP_SIZE_MIN
        BY <1>1, <2>1, <2>2 DEF SizeOf
    <2>3. CASE n >= HEAP_SIZE_MIN
        <3>1. n \in {1, 2} /\ n >= 1
            BY <1>1, <1>4, <2>3
        <3>2. n \in Sizes
            BY <1>1, <1>2, <1>3, <2>3, <3>1
        <3>3. SizeOf(n) = n
            BY <1>1, <2>1, <2>3 DEF SizeOf
        <3>4. n \div 2 < n
            BY <3>1
        <3>. QED BY <3>2, <3>3, <3>4
    <2>. QED BY <1>1, <2>2, <2>3
<1>5. CASE n > 2
    <2> DEFINE Up2(p) == (p \div 2) <= n - 1 /\ n - 1 < p
    <2>1. PICK d \in 0 .. HEAP_ADDR_LEN - 1 : AtLevel(n - 2, d)
        <3>1. n - 2 \in Nat /\ (n - 2) + 1 < Pow2[HEAP_ADDR_LEN]
            <4>1. Pow2[HEAP_ADDR_LEN] \in Nat
                BY <1>1, PowersPositive
            <4>. QED BY <1>1, <1>5, <4>1
        <3>. QED BY <1>1, <3>1, BetweenPowers
    <2>2. Pow2[d + 1] = 2 * Pow2[d] /\ Pow2[d] \in Nat
        BY <1>1, PowersStep, PowersPositive
    <2>3. d # 0
        BY <1>2, <1>5, <2>1 DEF AtLevel
    <2>4. Up2(Pow2[d + 1]) /\ d + 1 \in 2 .. HEAP_ADDR_LEN
        <3>1. Pow2[d] <= n - 1 /\ n - 1 < Pow2[d + 1]
            BY <2>1, <1>5 DEF AtLevel
        <3>2. (2 * Pow2[d]) \div 2 = Pow2[d]
            BY <2>2
        <3>. QED BY <1>1, <2>2, <2>3, <3>1, <3>2
    <2>5. PICK k \in 2 .. HEAP_ADDR_LEN : next_pow2(n) = Pow2[k] /\ Up2(Pow2[k])
        <3>1. next_pow2(n) = CHOOSE p \in {Pow2[j] : j \in 2 .. HEAP_ADDR_LEN} : Up2(p)
            BY <1>5 DEF next_pow2
        <3>. HIDE DEF Up2
        <3>2. next_pow2(n) \in {Pow2[j] : j \in 2 .. HEAP_ADDR_LEN} /\ Up2(next_pow2(n))
            BY <2>4, <3>1
        <3>. QED BY <3>2
    <2>6. Pow2[k] \in Nat \ {0} /\ k \in 0 .. HEAP_ADDR_LEN
        BY <1>1, PowersPositive
    <2>7. CASE Pow2[k] < HEAP_SIZE_MIN
        BY <1>1, <2>5, <2>6, <2>7 DEF SizeOf
    <2>8. CASE Pow2[k] >= HEAP_SIZE_MIN
        <3>1. SizeOf(n) = Pow2[k]
            BY <1>1, <2>5, <2>6, <2>8 DEF SizeOf
        <3>. QED BY <1>3, <2>5, <2>6, <2>8, <3>1
    <2>. QED BY <1>1, <2>6, <2>7, <2>8
<1>. QED BY <1>4, <1>5

-----------------------------------------------------------------------------
(* Moves                                                                     *)

\* What a walk may be, and where its moves lead.
WalkType == [i : Node, skip : Node, block_size : Sizes, used : 0 .. HEAP_SIZE, merging : BOOLEAN]

LEMMA MoveDown ==
    ASSUME NEW w \in WalkType, w.block_size = SizeAt(w.i), Left(w.i) \in Node
    PROVE  /\ DownLeft(w) \in WalkType /\ DownRight(w) \in WalkType
           /\ DownLeft(w).i = Left(w.i) /\ DownRight(w).i = Right(w.i)
           /\ DownLeft(w).block_size = SizeAt(Left(w.i))
           /\ DownRight(w).block_size = SizeAt(Right(w.i))
           /\ w.block_size = 2 * SizeAt(Left(w.i)) /\ w.block_size = 2 * SizeAt(Right(w.i))
           /\ DownLeft(w).skip = w.skip /\ DownRight(w).skip = w.skip
           /\ DownLeft(w).used = w.used /\ DownRight(w).used = w.used
           /\ DownLeft(w).merging = w.merging /\ DownRight(w).merging = w.merging
<1>1. w.i \in Node /\ w.i \in Nat
    BY NodeRange DEF WalkType
<1>2. Right(w.i) \in Node
    BY <1>1, BothChildren
<1>3. SizeAt(w.i) = 2 * SizeAt(Left(w.i)) /\ SizeAt(w.i) = 2 * SizeAt(Right(w.i))
    BY <1>1, <1>2, SizeOfChild DEF Children
<1>4. /\ SizeAt(Left(w.i)) \in Sizes /\ SizeAt(Right(w.i)) \in Sizes
      /\ SizeAt(Left(w.i)) \in Nat /\ SizeAt(Right(w.i)) \in Nat
    BY <1>2, SizeAtType, SizesNat
<1>5. w.block_size \div 2 = SizeAt(Left(w.i)) /\ w.block_size \div 2 = SizeAt(Right(w.i))
    BY <1>3, <1>4
<1>. QED BY <1>2, <1>3, <1>4, <1>5 DEF WalkType, DownLeft, DownRight

LEMMA MoveUp ==
    ASSUME NEW w \in WalkType, w.block_size = SizeAt(w.i), w.i # 0
    PROVE  /\ Up(w) \in WalkType
           /\ Up(w).i = Parent(w.i) /\ Up(w).skip = w.i
           /\ Up(w).i \in Node /\ w.i \in Children(Up(w).i) /\ Left(Up(w).i) \in Node
           /\ Up(w).block_size = SizeAt(Parent(w.i)) /\ Up(w).block_size = 2 * w.block_size
           /\ Up(w).used = w.used /\ Up(w).merging = w.merging
<1>1. w.i \in Node /\ w.i \in Nat \ {0}
    BY NodeRange DEF WalkType
<1>2. /\ Parent(w.i) \in Nat /\ Parent(w.i) < w.i /\ w.i \in Children(Parent(w.i))
    BY <1>1, ChildOfParent DEF Children
<1>3. Parent(w.i) \in Node
    BY <1>1, <1>2, NodeRange
<1>4. Left(Parent(w.i)) \in Node
    BY <1>1, <1>2, BothChildren DEF Children
<1>5. SizeAt(Parent(w.i)) = 2 * SizeAt(w.i) /\ SizeAt(Parent(w.i)) \in Sizes
    BY <1>1, <1>2, <1>3, SizeOfChild, SizeAtType
<1>. QED BY <1>2, <1>3, <1>4, <1>5 DEF WalkType, Up

\* A walk begins at the root.
LEMMA AtRootType ==
    AtRoot \in WalkType /\ AtRoot.block_size = SizeAt(AtRoot.i)
BY NodeRange, SizesNat, SizeAtType DEF AtRoot, WalkType

\* TypeOK in these terms, now and after a step.
LEMMA TypeParts ==
    TypeOK <=> /\ heap_tree \in [Node -> 0 .. HEAP_SIZE - 1 \cup {NULL, BRANCH_NODE}]
               /\ call \in Abstract!Call \cup {Idle}
               /\ ret \in 0 .. HEAP_SIZE \cup {NULL}
               /\ walk \in WalkType
BY DEF TypeOK, WalkType, Sizes

LEMMA TypeNext ==
    ASSUME heap_tree' \in [Node -> 0 .. HEAP_SIZE - 1 \cup {NULL, BRANCH_NODE}],
           call' \in Abstract!Call \cup {Idle}, ret' \in 0 .. HEAP_SIZE \cup {NULL},
           walk' \in WalkType
    PROVE  TypeOK'
BY DEF TypeOK, WalkType, Sizes

\* A call is known by its op.
LEMMA CallParts ==
    \A c \in Abstract!Call \cup {Idle} :
        /\ c.op \in {"none", "malloc", "free", "stats"}
        /\ c.op = "none" <=> c = Idle
        /\ c.op = "malloc" => c.arg \in Request /\ c.arg \in Nat
        /\ c.op = "free" => c.arg \in Abstract!Pointer
BY HeapAssumption DEF Abstract!Call, Idle, Abstract!Idle

-----------------------------------------------------------------------------
(* The tree                                                                  *)

\* What writing one node must respect.
LEMMA WriteNode ==
    ASSUME NEW i \in Node, NEW v,
           heap_tree \in [Node -> 0 .. HEAP_SIZE - 1 \cup {NULL, BRANCH_NODE}],
           v \in 0 .. HEAP_SIZE - 1 \cup {NULL, BRANCH_NODE},
           heap_tree' = [heap_tree EXCEPT ![i] = v],
           TreeShape, RootInner, i = 0 => v \in {NULL, BRANCH_NODE},
           v # NULL /\ i # 0 => heap_tree[Parent(i)] = BRANCH_NODE,
           v = BRANCH_NODE => Left(i) \in Node,
           v # BRANCH_NODE /\ Left(i) \in Node => BothChildrenFree(i)
    PROVE  /\ heap_tree' \in [Node -> 0 .. HEAP_SIZE - 1 \cup {NULL, BRANCH_NODE}]
           /\ heap_tree'[i] = v
           /\ \A j \in Node : j # i => heap_tree'[j] = heap_tree[j]
           /\ TreeShape' /\ RootInner'
<1>1. /\ heap_tree' \in [Node -> 0 .. HEAP_SIZE - 1 \cup {NULL, BRANCH_NODE}]
      /\ heap_tree'[i] = v
      /\ \A j \in Node : j # i => heap_tree'[j] = heap_tree[j]
    OBVIOUS
<1>2. RootInner'
    BY <1>1, NodeRange DEF RootInner
<1>3. ASSUME NEW j \in Node, heap_tree'[j] = BRANCH_NODE PROVE Left(j) \in Node
    BY <1>1, <1>3 DEF TreeShape
<1>4. ASSUME NEW j \in Node, heap_tree'[j] # BRANCH_NODE, Left(j) \in Node, NEW c \in Children(j)
      PROVE  heap_tree'[c] = NULL
    <2>1. c \in Node /\ j \in Nat /\ c # j /\ c # 0 /\ Parent(c) = j
        BY <1>4, NodeRange, BothChildren, ParentOfChild DEF Children
    <2>2. CASE j = i
        BY <1>1, <1>4, <2>1, <2>2 DEF BothChildrenFree, Children
    <2>3. CASE j # i
        <3>1. heap_tree[j] # BRANCH_NODE /\ heap_tree[c] = NULL
            BY <1>1, <1>4, <2>3 DEF TreeShape, Children
        <3>2. c = i => v = NULL
            BY <2>1, <3>1
        <3>. QED BY <1>1, <2>1, <3>1, <3>2
    <2>. QED BY <2>2, <2>3
<1>5. TreeShape'
    BY <1>3, <1>4 DEF TreeShape, Children
<1>. QED BY <1>1, <1>2, <1>5

\* Above what is in use there are branches.
LEMMA BranchAbove ==
    ASSUME TreeShape
    PROVE  \A j \in Node \ {0} : heap_tree[j] # NULL => heap_tree[Parent(j)] = BRANCH_NODE
<1>. SUFFICES ASSUME NEW j \in Node \ {0}, heap_tree[j] # NULL
              PROVE  heap_tree[Parent(j)] = BRANCH_NODE
    OBVIOUS
<1>1. j \in Nat \ {0}
    BY NodeRange
<1>2. Parent(j) \in Nat /\ Parent(j) < j /\ (j = Left(Parent(j)) \/ j = Right(Parent(j)))
    BY <1>1, ChildOfParent
<1>3. Parent(j) \in Node
    BY <1>2, NodeRange
<1>4. Left(Parent(j)) \in Node
    BY <1>2, BothChildren
<1>. QED BY <1>2, <1>3, <1>4 DEF TreeShape

\* The only node that may be a branch without need is above a free one the walk
\* is at.
LEMMA NoneStale ==
    ASSUME TypeOK, OneStale, heap_tree[walk.i] # NULL \/ ~Descending
    PROVE  AllExact
BY DEF OneStale, AllExact, BothChildrenFree, Children

\* A tree without such a branch.
LEMMA ExactOneStale ==
    ASSUME AllExact PROVE OneStale
BY DEF OneStale, AllExact

\* A call that returns leaves the tree exact.
LEMMA AtRest ==
    ASSUME TypeOK', TreeShape', AllExact', RootInner', call' = Idle, walk' = AtRoot
    PROVE  HeapInv'
<1>1. Idle.op = "none"
    BY DEF Idle, Abstract!Idle
<1>2. OneStale'
    BY DEF OneStale, AllExact
<1>. QED BY <1>1, <1>2 DEF HeapInv, WalkMalloc, WalkFree, WalkStats, WalkRest, Mallocs

\* The heap starts empty.
LEMMA InvInit == Init => HeapInv
<1>. SUFFICES ASSUME Init PROVE HeapInv
    OBVIOUS
<1>1. TypeOK
    BY AtRootType, TypeParts DEF Init
<1>2. \A i \in Node : heap_tree[i] = NULL
    BY DEF Init
<1>3. TreeShape
    <2>1. \A i \in Node : Left(i) \in Node => Right(i) \in Node
        BY BothChildren, NodeRange
    <2>. QED BY <1>2, <2>1, HeapAssumption DEF TreeShape
<1>4. AllExact /\ RootInner
    BY <1>2, NodeRange, HeapAssumption DEF AllExact, RootInner
<1>5. Idle.op = "none"
    BY DEF Idle, Abstract!Idle
<1>. QED BY <1>1, <1>3, <1>4, <1>5, ExactOneStale
      DEF HeapInv, Init, WalkMalloc, WalkFree, WalkStats, WalkRest, Mallocs

\* Nothing but the call changes when one begins.
LEMMA BeginInv ==
    ASSUME HeapInv, Begin
    PROVE  HeapInv'
<1>1. /\ call' \in Abstract!Call /\ ret' = NULL /\ heap_tree' = heap_tree /\ walk' = walk
      /\ walk = AtRoot /\ call.op = "none"
      /\ TypeOK /\ TreeShape /\ OneStale /\ RootInner
    BY DEF Begin, HeapInv, WalkRest, Idle, Abstract!Idle
<1>2. TypeOK'
    BY <1>1, TypeParts DEF TypeOK
<1>3. TreeShape' /\ RootInner'
    BY <1>1 DEF TreeShape, RootInner
<1>4. OneStale'
    <2>1. AllExact
        BY <1>1, NoneStale DEF Descending, AtRoot
    <2>. QED BY <1>1, <2>1 DEF AllExact, OneStale, BothChildrenFree
<1>5. /\ AtSize' /\ SkipBehind' /\ ~walk'.merging /\ walk'.used = 0 /\ walk'.i = 0
      /\ walk'.skip < Left(walk'.i) /\ walk'.block_size = HEAP_SIZE /\ walk'.skip = 0
    BY <1>1, SizeAtType DEF AtSize, SkipBehind, AtRoot, Left, SizeAt
<1>6. WalkMalloc'
    <2>. SUFFICES ASSUME Mallocs' PROVE SizeOf(call'.arg) <= HEAP_SIZE
        BY <1>1, <1>5 DEF WalkMalloc, RootInner, Leaf
    <2>1. call'.arg \in Request /\ call'.arg \in Nat /\ call'.arg <= HEAP_SIZE
        BY <1>1, CallParts DEF Mallocs
    <2>. QED BY <2>1, SizeOfLeast, SizesNat
<1>7. WalkFree'
    BY <1>1, <1>5 DEF WalkFree
<1>8. WalkStats'
    <2>1. HEAP_SIZE \in Nat /\ SizeAt(0) = HEAP_SIZE
        BY SizesNat, SizeAtType
    <2>2. Base(0) = 0 /\ Past(AtRoot) = 0
        BY <2>1 DEF Base, Past, Left, Right, AtRoot
    <2>3. StatsWalk(AtRoot)'
        BY <1>1, <2>1, <2>2 DEF StatsWalk, AtRoot, Left, Base, SizeAt
    <2>. QED BY <1>1, <2>3 DEF WalkStats
<1>9. WalkRest'
    BY <1>1 DEF WalkRest
<1>. QED BY <1>2, <1>3, <1>4, <1>6, <1>7, <1>8, <1>9 DEF HeapInv

-----------------------------------------------------------------------------
(* malloc                                                                    *)

\* A request beyond the heap changes nothing.
LEMMA MallocTooLargeInv ==
    ASSUME HeapInv, MallocTooLarge
    PROVE  HeapInv'
<1>1. TypeOK /\ TreeShape /\ RootInner /\ OneStale
    BY DEF HeapInv
<1>2. heap_tree' = heap_tree /\ ret' = NULL /\ call' = Idle /\ walk' = AtRoot
    BY DEF MallocTooLarge, Done
<1>3. AllExact
    <2>1. call.arg \in Nat
        BY <1>1, TypeParts, CallParts DEF MallocTooLarge
    <2>2. walk = AtRoot
        BY <2>1, SizesNat DEF HeapInv, WalkRest, MallocTooLarge, Mallocs
    <2>3. \A i \in Node : walk.i \notin Children(i)
        BY <2>2, NodeRange, ParentOfChild DEF AtRoot, Children
    <2>. QED BY <1>1, <2>3 DEF AllExact, OneStale
<1>4. TypeOK'
    BY <1>1, <1>2, AtRootType, TypeParts, TypeNext
<1>5. TreeShape' /\ RootInner' /\ AllExact'
    BY <1>1, <1>2, <1>3 DEF TreeShape, RootInner, AllExact, BothChildrenFree
<1>. QED BY <1>2, <1>4, <1>5, AtRest

\* The walk of a malloc, and what its moves need.
LEMMA MallocWalk ==
    ASSUME HeapInv, Mallocs
    PROVE  /\ walk \in WalkType /\ walk.i \in Node /\ walk.i \in Nat
           /\ AtSize /\ walk.block_size \in Sizes /\ walk.block_size = SizeAt(walk.i)
           /\ call.op = "malloc" /\ call.arg \in Request /\ call.arg \in Nat /\ call.arg <= HEAP_SIZE
           /\ call # Idle /\ call \in Abstract!Call
           /\ SizeOf(call.arg) \in Sizes /\ SizeOf(call.arg) <= walk.block_size
           /\ walk.i # 0 => /\ Parent(walk.i) \in Node /\ walk.i \in Children(Parent(walk.i))
                            /\ heap_tree[Parent(walk.i)] = BRANCH_NODE
                            /\ Left(Parent(walk.i)) \in Node
<1>1. walk \in WalkType /\ call \in Abstract!Call \cup {Idle} /\ WalkMalloc
    BY TypeParts DEF HeapInv
<1>2. walk.i \in Node /\ walk.i \in Nat /\ walk.block_size \in Sizes
    BY <1>1, NodeRange DEF WalkType
<1>3. AtSize /\ walk.block_size = SizeAt(walk.i)
    BY <1>1 DEF WalkMalloc, AtSize
<1>4. /\ call.op = "malloc" /\ call.arg \in Request /\ call.arg \in Nat /\ call.arg <= HEAP_SIZE
      /\ call # Idle /\ call \in Abstract!Call
    BY <1>1, CallParts DEF Mallocs, Idle, Abstract!Idle
<1>5. SizeOf(call.arg) \in Sizes /\ SizeOf(call.arg) <= walk.block_size
    BY <1>1, <1>4, SizeOfLeast DEF WalkMalloc
<1>6. walk.i # 0 => /\ Parent(walk.i) \in Node /\ walk.i \in Children(Parent(walk.i))
                    /\ Left(Parent(walk.i)) \in Node
    BY <1>1, <1>3, MoveUp
<1>7. walk.i # 0 => heap_tree[Parent(walk.i)] = BRANCH_NODE
    BY <1>1 DEF WalkMalloc
<1>. QED BY <1>1, <1>2, <1>3, <1>4, <1>5, <1>6, <1>7

\* No request is for the whole heap.
LEMMA ModestSize ==
    ASSUME ModestRequests, HeapInv, Mallocs
    PROVE  2 * SizeOf(call.arg) <= HEAP_SIZE /\ SizeOf(call.arg) # HEAP_SIZE
<1>1. HEAP_SIZE \in Nat \ {0} /\ Sizes \subseteq Nat
    BY SizesNat
<1>. QED BY <1>1, MallocWalk DEF ModestRequests

\* A step up from a node in use.
LEMMA MallocUp ==
    ASSUME HeapInv, Mallocs, walk.i # 0, heap_tree[walk.i] # NULL, Goto(Up(walk)),
           TypeOK', TreeShape', RootInner', AllExact',
           heap_tree'[Parent(walk.i)] = BRANCH_NODE,
           Parent(walk.i) # 0 => heap_tree'[Parent(Parent(walk.i))] = BRANCH_NODE
    PROVE  HeapInv'
<1>1. /\ walk' = Up(walk) /\ call' = call /\ Up(walk).i = Parent(walk.i)
      /\ Up(walk).skip = walk.i /\ walk.i \in Children(Up(walk).i)
      /\ Up(walk).block_size = SizeAt(Up(walk).i) /\ Up(walk).block_size = 2 * walk.block_size
      /\ Up(walk).used = walk.used /\ Up(walk).merging = walk.merging
    BY MallocWalk, MoveUp DEF Goto
<1>2. OneStale'
    BY DEF OneStale, AllExact
<1>3. /\ SizeOf(call.arg) <= Up(walk).block_size
    <2>1. SizeOf(call.arg) <= walk.block_size /\ walk.block_size \in Nat /\ SizeOf(call.arg) \in Nat
        BY MallocWalk, SizesNat
    <2>. QED BY <1>1, <2>1
<1>4. AtSize' /\ SkipBehind' /\ ~walk'.merging /\ walk'.used = 0
    BY <1>1 DEF AtSize, SkipBehind, HeapInv, WalkMalloc, SizeAt
<1>5. heap_tree'[walk'.i] = BRANCH_NODE /\ call'.op = "malloc"
    BY <1>1, MallocWalk
<1>6. WalkMalloc'
    <2>1. walk'.i # 0 => heap_tree'[Parent(walk'.i)] = BRANCH_NODE
        BY <1>1
    <2>2. SizeOf(call'.arg) <= walk'.block_size
        BY <1>1, <1>3
    <2>. QED BY <1>4, <1>5, <2>1, <2>2, HeapAssumption DEF WalkMalloc, Leaf
<1>7. WalkFree' /\ WalkStats' /\ WalkRest'
    BY <1>1, <1>5, MallocWalk DEF WalkFree, WalkStats, WalkRest, Mallocs
<1>. QED BY <1>2, <1>6, <1>7 DEF HeapInv

\* malloc passes a node of the right size that is in use.
LEMMA MallocOccupiedInv ==
    ASSUME ModestRequests, HeapInv, MallocOccupied
    PROVE  HeapInv'
<1>1. /\ Mallocs /\ walk.block_size = SizeOf(call.arg) /\ heap_tree[walk.i] # NULL
      /\ Goto(Up(walk)) /\ heap_tree' = heap_tree
      /\ TypeOK /\ TreeShape /\ OneStale /\ RootInner
    BY DEF MallocOccupied, HeapInv
<1>2. walk.i # 0
    BY <1>1, ModestSize, MallocWalk, SizeAtType
<1>3. AllExact
    BY <1>1, NoneStale
<1>4. TypeOK'
    <2>1. Up(walk) \in WalkType
        BY <1>1, <1>2, MallocWalk, MoveUp
    <2>. QED BY <1>1, <2>1, TypeParts, TypeNext DEF Goto
<1>5. TreeShape' /\ RootInner' /\ AllExact'
    BY <1>1, <1>3 DEF TreeShape, RootInner, AllExact, BothChildrenFree
<1>6. heap_tree[Parent(walk.i)] = BRANCH_NODE /\ Parent(walk.i) \in Node
    BY <1>1, <1>2, MallocWalk
<1>7. Parent(walk.i) # 0 => heap_tree[Parent(Parent(walk.i))] = BRANCH_NODE
    BY <1>1, <1>6, BranchAbove, HeapAssumption
<1>. QED BY <1>1, <1>2, <1>4, <1>5, <1>6, <1>7, MallocUp

\* Addresses are within the heap.
LEMMA AddressRange ==
    \A i, size \in Nat : Address(i, size) \in 0 .. HEAP_SIZE - 1
BY SizesNat DEF Address

\* malloc takes a free node of the right size.
LEMMA MallocTakeInv ==
    ASSUME ModestRequests, HeapInv, MallocTake
    PROVE  HeapInv'
<1> DEFINE i == walk.i
           v == Address(walk.i, walk.block_size)
<1>1. /\ Mallocs /\ walk.block_size = SizeOf(call.arg) /\ heap_tree[i] = NULL
      /\ heap_tree' = [heap_tree EXCEPT ![i] = v]
      /\ ret' = v /\ call' = Idle /\ walk' = AtRoot
      /\ TypeOK /\ TreeShape /\ OneStale /\ RootInner
    BY DEF MallocTake, HeapInv, Done
<1>2. i # 0 /\ i \in Node /\ heap_tree[Parent(i)] = BRANCH_NODE
    BY <1>1, ModestSize, MallocWalk, SizeAtType
<1>3. v \in 0 .. HEAP_SIZE - 1 /\ v # NULL /\ v # BRANCH_NODE
    <2>1. walk.i \in Nat /\ walk.block_size \in Nat /\ HEAP_SIZE \in Nat
        BY <1>1, MallocWalk, SizesNat
    <2>2. v \in 0 .. HEAP_SIZE - 1
        BY <2>1, AddressRange
    <2>. HIDE DEF v
    <2>3. v \in Nat
        BY <2>1, <2>2
    <2>. QED BY <2>2, <2>3, HeapAssumption
<1>. HIDE DEF v
<1>4. Left(i) \in Node => BothChildrenFree(i)
    BY <1>1, <1>2, HeapAssumption DEF TreeShape, BothChildrenFree
<1>5. heap_tree \in [Node -> 0 .. HEAP_SIZE - 1 \cup {NULL, BRANCH_NODE}]
    BY <1>1, TypeParts
<1>6. /\ heap_tree' \in [Node -> 0 .. HEAP_SIZE - 1 \cup {NULL, BRANCH_NODE}]
      /\ heap_tree'[i] = v
      /\ \A j \in Node : j # i => heap_tree'[j] = heap_tree[j]
      /\ TreeShape' /\ RootInner'
    BY <1>1, <1>2, <1>3, <1>4, <1>5, WriteNode
<1>7. ASSUME NEW j \in Node, heap_tree'[j] = BRANCH_NODE PROVE ~BothChildrenFree(j)'
    <2>1. j # i /\ heap_tree[j] = BRANCH_NODE
        BY <1>3, <1>6, <1>7
    <2>2. Left(j) \in Node /\ Right(j) \in Node
        BY <2>1, <1>1, BothChildren, NodeRange DEF TreeShape
    <2>3. CASE i \in Children(j)
        BY <1>3, <1>6, <2>3 DEF BothChildrenFree, Children
    <2>4. CASE i \notin Children(j)
        <3>1. ~BothChildrenFree(j)
            BY <1>1, <2>1, <2>4 DEF OneStale
        <3>2. heap_tree'[Left(j)] = heap_tree[Left(j)] /\ heap_tree'[Right(j)] = heap_tree[Right(j)]
            BY <1>6, <2>2, <2>4 DEF Children
        <3>. QED BY <3>1, <3>2 DEF BothChildrenFree
    <2>. QED BY <2>3, <2>4
<1>8. AllExact'
    BY <1>7 DEF AllExact
<1>9. TypeOK'
    BY <1>1, <1>3, <1>6, AtRootType, TypeNext, SizesNat
<1>. QED BY <1>1, <1>6, <1>8, <1>9, AtRest

\* A node larger than the size asked for becomes a branch.
LEMMA MallocMark ==
    ASSUME HeapInv, MallocDescend
    PROVE  /\ Left(walk.i) \in Node /\ Right(walk.i) \in Node
           /\ heap_tree[walk.i] \in {NULL, BRANCH_NODE}
           /\ 2 * SizeOf(call.arg) <= walk.block_size
           /\ heap_tree' \in [Node -> 0 .. HEAP_SIZE - 1 \cup {NULL, BRANCH_NODE}]
           /\ heap_tree'[walk.i] = BRANCH_NODE
           /\ \A j \in Node : j # walk.i => heap_tree'[j] = heap_tree[j]
           /\ TreeShape' /\ RootInner'
           /\ \A j \in Node : j # walk.i /\ heap_tree'[j] = BRANCH_NODE => ~BothChildrenFree(j)'
           /\ heap_tree[walk.i] = BRANCH_NODE => AllExact'
           /\ heap_tree[walk.i] = NULL =>
                  /\ heap_tree'[Left(walk.i)] = NULL /\ heap_tree'[Right(walk.i)] = NULL
                  /\ walk.skip < Left(walk.i)
<1> DEFINE i == walk.i
<1>1. /\ Mallocs /\ walk.block_size # SizeOf(call.arg)
      /\ heap_tree' = [heap_tree EXCEPT ![i] = BRANCH_NODE]
      /\ TypeOK /\ TreeShape /\ OneStale /\ RootInner /\ WalkMalloc
    BY DEF MallocDescend, HeapInv
<1>2. 2 * SizeOf(call.arg) <= walk.block_size /\ walk.block_size # HEAP_SIZE_MIN
    <2>1. /\ SizeOf(call.arg) \in Sizes /\ SizeOf(call.arg) \in Nat /\ HEAP_SIZE_MIN <= SizeOf(call.arg)
          /\ walk.block_size \in Sizes /\ walk.block_size \in Nat /\ HEAP_SIZE_MIN \in Nat
          /\ SizeOf(call.arg) <= walk.block_size
        BY <1>1, MallocWalk, SizesNat
    <2>2. SizeOf(call.arg) < walk.block_size
        BY <1>1, <2>1
    <2>. QED BY <2>1, <2>2, SizesNat
<1>3. i \in Node /\ i \in Nat /\ Left(i) \in Node /\ Right(i) \in Node
    BY <1>1, <1>2, MallocWalk, ChildrenUnlessSmallest, BothChildren
<1>4. heap_tree[i] \in {NULL, BRANCH_NODE}
    BY <1>1 DEF WalkMalloc, Leaf
<1>5. i # 0 => heap_tree[Parent(i)] = BRANCH_NODE
    BY <1>1, MallocWalk
<1>6. /\ heap_tree' \in [Node -> 0 .. HEAP_SIZE - 1 \cup {NULL, BRANCH_NODE}]
      /\ heap_tree'[i] = BRANCH_NODE
      /\ \A j \in Node : j # i => heap_tree'[j] = heap_tree[j]
      /\ TreeShape' /\ RootInner'
    BY <1>1, <1>3, <1>5, TypeParts, WriteNode
<1>7. ASSUME NEW j \in Node, j # i, heap_tree'[j] = BRANCH_NODE PROVE ~BothChildrenFree(j)'
    <2>1. heap_tree[j] = BRANCH_NODE /\ Left(j) \in Node /\ Right(j) \in Node
        BY <1>1, <1>6, <1>7, BothChildren, NodeRange DEF TreeShape
    <2>2. CASE i \in Children(j)
        BY <1>6, <2>2, HeapAssumption DEF BothChildrenFree, Children
    <2>3. CASE i \notin Children(j)
        <3>1. ~BothChildrenFree(j)
            BY <1>1, <2>1, <2>3 DEF OneStale
        <3>2. heap_tree'[Left(j)] = heap_tree[Left(j)] /\ heap_tree'[Right(j)] = heap_tree[Right(j)]
            BY <1>6, <2>1, <2>3 DEF Children
        <3>. QED BY <3>1, <3>2 DEF BothChildrenFree
    <2>. QED BY <2>2, <2>3
<1>8. Left(i) # i /\ Right(i) # i
    BY <1>3, ParentOfChild
<1>9. ASSUME heap_tree[i] = BRANCH_NODE PROVE AllExact'
    <2>1. ~BothChildrenFree(i)
        <3>1. i \notin Children(i)
            BY <1>8 DEF Children
        <3>. QED BY <1>1, <1>3, <1>9, <3>1 DEF OneStale
    <2>2. ASSUME NEW j \in Node, j = i PROVE ~BothChildrenFree(j)'
        BY <1>3, <1>6, <1>8, <2>1, <2>2 DEF BothChildrenFree
    <2>. QED BY <1>7, <2>2 DEF AllExact
<1>10. ASSUME heap_tree[i] = NULL
       PROVE  /\ heap_tree'[Left(i)] = NULL /\ heap_tree'[Right(i)] = NULL
              /\ walk.skip < Left(i)
    BY <1>1, <1>3, <1>6, <1>8, <1>10, HeapAssumption DEF TreeShape, WalkMalloc
<1>. QED BY <1>2, <1>3, <1>4, <1>6, <1>7, <1>9, <1>10

\* A step down from a node that has become a branch.
LEMMA MallocDown ==
    ASSUME HeapInv, MallocDescend, NEW c \in Children(walk.i),
           Goto([walk EXCEPT !.block_size = @ \div 2, !.i = c]),
           walk.skip < c, ~Leaf(c),
           heap_tree[walk.i] = NULL => c = Left(walk.i)
    PROVE  HeapInv'
<1> DEFINE i == walk.i
           w == [walk EXCEPT !.block_size = @ \div 2, !.i = c]
<1>1. /\ Mallocs /\ walk' = w /\ call' = call /\ ret' = ret
      /\ TypeOK /\ WalkMalloc
    BY DEF MallocDescend, HeapInv, Goto
<1>2. /\ walk \in WalkType /\ i \in Node /\ i \in Nat /\ walk.block_size = SizeAt(i)
      /\ walk.block_size \in Sizes /\ walk.block_size \in Nat
      /\ call.op = "malloc" /\ call # Idle /\ SizeOf(call.arg) \in Nat
    BY <1>1, MallocWalk, SizesNat
<1>3. /\ Left(i) \in Node /\ Right(i) \in Node
      /\ heap_tree[i] \in {NULL, BRANCH_NODE}
      /\ 2 * SizeOf(call.arg) <= walk.block_size
      /\ heap_tree' \in [Node -> 0 .. HEAP_SIZE - 1 \cup {NULL, BRANCH_NODE}]
      /\ heap_tree'[i] = BRANCH_NODE
      /\ \A j \in Node : j # i => heap_tree'[j] = heap_tree[j]
      /\ TreeShape' /\ RootInner'
      /\ \A j \in Node : j # i /\ heap_tree'[j] = BRANCH_NODE => ~BothChildrenFree(j)'
      /\ heap_tree[i] = BRANCH_NODE => AllExact'
    BY MallocMark
<1>4. /\ w \in WalkType /\ w.i = c /\ w.block_size = SizeAt(c)
      /\ walk.block_size = 2 * w.block_size /\ w.block_size \in Nat
      /\ w.skip = walk.skip /\ w.used = walk.used /\ w.merging = walk.merging
    <2>1. w = DownLeft(walk) \/ w = DownRight(walk)
        BY DEF DownLeft, DownRight, Children
    <2>2. w.i = c
        BY <1>2 DEF WalkType
    <2>. HIDE DEF w
    <2>3. Left(i) # Right(i)
        BY <1>2, ParentOfChild
    <2>4. /\ w \in WalkType /\ w.block_size = SizeAt(c) /\ walk.block_size = 2 * SizeAt(c)
          /\ w.skip = walk.skip /\ w.used = walk.used /\ w.merging = walk.merging
        BY <1>2, <1>3, <2>1, <2>2, <2>3, MoveDown DEF Children
    <2>5. w.block_size \in Nat
        BY <2>4, SizesNat DEF WalkType
    <2>. QED BY <2>2, <2>4, <2>5
<1>. HIDE DEF w
<1>5. c \in Node /\ c \in Nat /\ Parent(c) = i /\ c < Left(c) /\ c # i
    BY <1>2, <1>3, NodeRange, ParentOfChild DEF Children
<1>6. TypeOK'
    BY <1>1, <1>3, <1>4, TypeParts, TypeNext
<1>7. OneStale'
    <2>1. CASE heap_tree[i] = BRANCH_NODE
        BY <1>3, <2>1 DEF OneStale, AllExact
    <2>2. CASE heap_tree[i] = NULL
        <3>1. Descending'
            BY <1>1, <1>2 DEF Descending
        <3>2. walk'.i \in Children(i)
            BY <1>1, <1>4
        <3>. QED BY <1>3, <3>1, <3>2 DEF OneStale, Children
    <2>. QED BY <1>3, <2>1, <2>2
<1>8. walk.skip < Left(c)
    <2>1. walk.skip \in Nat /\ Left(c) \in Nat
        BY <1>2, <1>5, NodeRange, ParentOfChild DEF WalkType
    <2>. QED BY <1>5, <2>1
<1>9. WalkMalloc'
    <2>1. AtSize' /\ SkipBehind' /\ ~walk'.merging /\ walk'.used = 0 /\ walk'.skip < Left(walk'.i)
        BY <1>1, <1>4, <1>8 DEF AtSize, SkipBehind, WalkMalloc, SizeAt
    <2>2. SizeOf(call'.arg) <= walk'.block_size
        BY <1>1, <1>2, <1>3, <1>4
    <2>3. ~Leaf(walk.i)'
        BY <1>1, <1>3, <1>4, <1>5 DEF Leaf
    <2>4. heap_tree'[Parent(walk'.i)] = BRANCH_NODE
        BY <1>1, <1>3, <1>4, <1>5
    <2>. QED BY <2>1, <2>2, <2>3, <2>4 DEF WalkMalloc
<1>10. WalkFree' /\ WalkStats' /\ WalkRest'
    BY <1>1, <1>2 DEF WalkFree, WalkStats, WalkRest, Mallocs
<1>. QED BY <1>3, <1>6, <1>7, <1>9, <1>10 DEF HeapInv

\* malloc marks a node as a branch and goes on.
LEMMA MallocDescendInv ==
    ASSUME HeapInv, MallocDescend
    PROVE  HeapInv'
<1> DEFINE i == walk.i
           leftDone == Leaf(Left(i)) \/ Left(i) = walk.skip
           rightDone == Right(i) = walk.skip \/ (leftDone /\ Leaf(Right(i)))
<1>1. /\ Mallocs
      /\ \/ rightDone /\ i = 0 /\ Done(NULL)
         \/ rightDone /\ i # 0 /\ Goto(Up(walk))
         \/ ~rightDone /\ leftDone /\ Goto(DownRight(walk))
         \/ ~rightDone /\ ~leftDone /\ Goto(DownLeft(walk))
      /\ TypeOK /\ TreeShape /\ WalkMalloc
    BY DEF MallocDescend, HeapInv
<1>2. /\ walk \in WalkType /\ i \in Node /\ i \in Nat /\ walk.block_size = SizeAt(i)
      /\ i # 0 => /\ Parent(i) \in Node /\ heap_tree[Parent(i)] = BRANCH_NODE
                  /\ Parent(i) \in Nat
    BY <1>1, MallocWalk, NodeRange
<1>3. /\ Left(i) \in Node /\ Right(i) \in Node
      /\ heap_tree[i] \in {NULL, BRANCH_NODE}
      /\ heap_tree' \in [Node -> 0 .. HEAP_SIZE - 1 \cup {NULL, BRANCH_NODE}]
      /\ heap_tree'[i] = BRANCH_NODE
      /\ \A j \in Node : j # i => heap_tree'[j] = heap_tree[j]
      /\ TreeShape' /\ RootInner'
      /\ heap_tree[i] = BRANCH_NODE => AllExact'
      /\ heap_tree[i] = NULL => walk.skip < Left(i)
    BY MallocMark
<1>4. /\ Left(i) \in Nat /\ Right(i) \in Nat /\ Left(i) < Right(i) /\ walk.skip \in Nat
    <2>1. walk.skip \in Nat
        BY <1>2, NodeRange DEF WalkType
    <2>2. i \in Nat
        BY <1>2
    <2>. HIDE DEF i
    <2>. QED BY <2>1, <2>2 DEF Left, Right
<1>5. rightDone \/ leftDone => heap_tree[i] = BRANCH_NODE
    <2>. SUFFICES ASSUME heap_tree[i] = NULL PROVE ~rightDone /\ ~leftDone
        BY <1>3
    <2>1. heap_tree[Left(i)] = NULL /\ walk.skip < Left(i)
        BY <1>1, <1>2, <1>3, HeapAssumption DEF TreeShape
    <2>2. ~leftDone
        BY <1>4, <2>1 DEF Leaf
    <2>. QED BY <1>4, <2>1, <2>2
<1>6. SkipBehind
    BY <1>1 DEF WalkMalloc
<1>. HIDE DEF i
<1>7. CASE rightDone /\ i = 0 /\ Done(NULL)
    <2>1. call' = Idle /\ walk' = AtRoot /\ ret' = NULL
        BY <1>7 DEF Done
    <2>2. TypeOK'
        BY <1>3, <2>1, AtRootType, TypeNext
    <2>. QED BY <1>3, <1>5, <1>7, <2>1, <2>2, AtRest
<1>8. CASE rightDone /\ i # 0 /\ Goto(Up(walk))
    <2>1. heap_tree[i] # NULL /\ AllExact'
        BY <1>3, <1>5, <1>8, HeapAssumption
    <2>2. Up(walk) \in WalkType
        BY <1>2, <1>8, MoveUp DEF i
    <2>3. TypeOK'
        BY <1>1, <1>3, <1>8, <2>2, TypeParts, TypeNext DEF Goto
    <2>4. heap_tree'[Parent(i)] = BRANCH_NODE
        BY <1>2, <1>3, <1>8
    <2>5. Parent(i) # 0 => heap_tree'[Parent(Parent(i))] = BRANCH_NODE
        <3>. SUFFICES ASSUME Parent(i) # 0 PROVE heap_tree'[Parent(Parent(i))] = BRANCH_NODE
            OBVIOUS
        <3>1. heap_tree[Parent(Parent(i))] = BRANCH_NODE
            BY <1>1, <1>2, <1>8, BranchAbove, HeapAssumption
        <3>2. Parent(Parent(i)) \in Node
            BY <1>2, <1>8, ChildOfParent, NodeRange
        <3>. QED BY <1>3, <3>1, <3>2
    <2>. QED BY <1>1, <1>3, <1>8, <2>1, <2>3, <2>4, <2>5, MallocUp DEF i
<1>9. CASE ~rightDone /\ leftDone /\ Goto(DownRight(walk))
    <2>1. Right(i) # walk.skip /\ ~Leaf(Right(i)) /\ heap_tree[i] = BRANCH_NODE
        BY <1>5, <1>9
    <2>2. walk.skip < Right(i)
        BY <1>4, <1>6, <2>1 DEF SkipBehind, Children, i
    <2>3. Goto([walk EXCEPT !.block_size = @ \div 2, !.i = Right(i)])
        BY <1>9 DEF DownRight, i
    <2>4. Right(i) \in Children(walk.i)
        BY DEF Children, i
    <2>. QED BY <2>1, <2>2, <2>3, <2>4, HeapAssumption, MallocDown DEF i
<1>10. CASE ~rightDone /\ ~leftDone /\ Goto(DownLeft(walk))
    <2>1. Right(i) # walk.skip /\ ~Leaf(Left(i)) /\ Left(i) # walk.skip
        BY <1>10
    <2>2. walk.skip < Left(i)
        BY <1>4, <1>6, <2>1 DEF SkipBehind, Children, i
    <2>3. Goto([walk EXCEPT !.block_size = @ \div 2, !.i = Left(i)])
        BY <1>10 DEF DownLeft, i
    <2>4. Left(i) \in Children(walk.i)
        BY DEF Children, i
    <2>. QED BY <2>1, <2>2, <2>3, <2>4, MallocDown DEF i
<1>. QED BY <1>1, <1>7, <1>8, <1>9, <1>10

-----------------------------------------------------------------------------
(* free                                                                      *)

\* What leaves the tree alone keeps what is said of the tree.
LEMMA SameTree ==
    ASSUME heap_tree' = heap_tree, TreeShape, RootInner, AllExact
    PROVE  TreeShape' /\ RootInner' /\ AllExact'
BY DEF TreeShape, RootInner, AllExact, BothChildrenFree

\* A call that goes on is none.
LEMMA FreeCallIs ==
    \A c \in Abstract!Call \cup {Idle} : c.op \in {"free", "stats"} => c # Idle
BY DEF Idle, Abstract!Idle

\* free on an empty heap returns.
LEMMA FreeEmptyInv ==
    ASSUME HeapInv, FreeEmpty
    PROVE  HeapInv'
<1>1. /\ TypeOK /\ TreeShape /\ RootInner /\ OneStale
      /\ call.op = "free" /\ ~walk.merging /\ heap_tree' = heap_tree
      /\ ret' = ret /\ call' = Idle /\ walk' = AtRoot
    BY DEF HeapInv, FreeEmpty, Done
<1>2. AllExact
    BY <1>1, NoneStale DEF Descending
<1>3. TypeOK'
    BY <1>1, AtRootType, TypeParts, TypeNext
<1>. QED BY <1>1, <1>2, <1>3, SameTree, AtRest

\* find_ptr finds the node, and free clears it.
LEMMA FreeFoundInv ==
    ASSUME HeapInv, FreeFound
    PROVE  HeapInv'
<1> DEFINE i == walk.i
<1>1. /\ TypeOK /\ TreeShape /\ RootInner /\ OneStale /\ WalkFree
      /\ call.op = "free" /\ ~walk.merging /\ heap_tree[0] # NULL /\ heap_tree[i] = call.arg
    BY DEF HeapInv, FreeFound
<1>2. /\ walk \in WalkType /\ i \in Node /\ i \in Nat
      /\ call \in Abstract!Call \cup {Idle} /\ call # Idle /\ ret \in 0 .. HEAP_SIZE \cup {NULL}
      /\ heap_tree \in [Node -> 0 .. HEAP_SIZE - 1 \cup {NULL, BRANCH_NODE}]
    BY <1>1, TypeParts, FreeCallIs, NodeRange DEF WalkType
<1>3. AllExact
    BY <1>1, NoneStale DEF Descending
<1>4. CASE i = 0
    <2>1. ret' = ret /\ call' = Idle /\ walk' = AtRoot /\ heap_tree' = heap_tree
        BY <1>4 DEF FreeFound, Done
    <2>2. TypeOK'
        BY <1>2, <2>1, AtRootType, TypeNext
    <2>. QED BY <1>1, <1>3, <2>1, <2>2, SameTree, AtRest
<1>5. CASE i # 0
    <2> DEFINE w == [walk EXCEPT !.merging = TRUE]
    <2>1. /\ heap_tree' = [heap_tree EXCEPT ![i] = NULL]
          /\ walk' = w /\ call' = call /\ ret' = ret
        BY <1>5 DEF FreeFound, Goto
    <2>2. heap_tree[i] # NULL /\ heap_tree[i] # BRANCH_NODE
        <3>1. call.arg \in Abstract!Pointer
            BY <1>1, <1>2, CallParts
        <3>2. call.arg # NULL
            BY <1>1 DEF WalkFree
        <3>. QED BY <1>1, <3>1, <3>2, HeapAssumption DEF Abstract!Pointer
    <2>3. Left(i) \in Node => BothChildrenFree(i)
        BY <1>1, <1>2, <2>2 DEF TreeShape, BothChildrenFree
    <2>4. /\ heap_tree' \in [Node -> 0 .. HEAP_SIZE - 1 \cup {NULL, BRANCH_NODE}]
          /\ heap_tree'[i] = NULL
          /\ \A j \in Node : j # i => heap_tree'[j] = heap_tree[j]
          /\ TreeShape' /\ RootInner'
        BY <1>1, <1>2, <1>5, <2>1, <2>3, HeapAssumption, WriteNode
    <2>5. w \in WalkType /\ w.i = i /\ w.merging = TRUE /\ w.used = walk.used
        BY <1>2 DEF WalkType
    <2>. HIDE DEF w
    <2>6. TypeOK'
        BY <1>2, <2>1, <2>4, <2>5, TypeNext
    <2>7. ASSUME NEW j \in Node, heap_tree'[j] = BRANCH_NODE, BothChildrenFree(j)'
          PROVE  i \in Children(j)
        <3>1. heap_tree[j] = BRANCH_NODE /\ Left(j) \in Node /\ Right(j) \in Node
            BY <1>1, <2>4, <2>7, HeapAssumption, BothChildren, NodeRange DEF TreeShape
        <3>2. ~BothChildrenFree(j)
            BY <1>3, <3>1 DEF AllExact
        <3>. QED BY <2>4, <2>7, <3>1, <3>2 DEF BothChildrenFree, Children
    <2>8. OneStale'
        <3>1. Descending' /\ walk'.i = i
            BY <2>1, <2>5 DEF Descending
        <3>. QED BY <2>7, <3>1 DEF OneStale
    <2>9. WalkFree'
        BY <1>1, <2>1, <2>4, <2>5 DEF WalkFree
    <2>10. WalkMalloc' /\ WalkStats' /\ WalkRest'
        BY <1>1, <1>2, <2>1 DEF WalkMalloc, WalkStats, WalkRest, Mallocs
    <2>. QED BY <2>4, <2>6, <2>8, <2>9, <2>10 DEF HeapInv
<1>. QED BY <1>4, <1>5

\* A step of find_ptr to another node in use.
LEMMA FreeGoto ==
    ASSUME HeapInv, call.op = "free", ~walk.merging, heap_tree[0] # NULL, heap_tree' = heap_tree,
           AllExact, NEW w \in WalkType, Goto(w), w.block_size = SizeAt(w.i),
           w.used = walk.used, w.merging = walk.merging, heap_tree[w.i] # NULL
    PROVE  HeapInv'
<1>1. /\ TypeOK /\ TreeShape /\ RootInner /\ WalkFree
      /\ walk' = w /\ call' = call /\ ret' = ret /\ call # Idle
    BY TypeParts, FreeCallIs DEF HeapInv, Goto
<1>2. TypeOK'
    BY <1>1, TypeParts, TypeNext
<1>3. TreeShape' /\ RootInner' /\ OneStale'
    BY <1>1, SameTree DEF AllExact, OneStale
<1>4. WalkFree'
    <2>1. AtSize'
        BY <1>1 DEF AtSize, SizeAt
    <2>. QED BY <1>1, <2>1 DEF WalkFree
<1>5. WalkMalloc' /\ WalkStats' /\ WalkRest'
    BY <1>1 DEF WalkMalloc, WalkStats, WalkRest, Mallocs
<1>. QED BY <1>2, <1>3, <1>4, <1>5 DEF HeapInv

\* find_ptr goes on.
LEMMA FreeSearchInv ==
    ASSUME HeapInv, FreeSearch
    PROVE  HeapInv'
<1> DEFINE i == walk.i
           leftDone == Absent(Left(i)) \/ Left(i) = walk.skip
           rightDone == Right(i) = walk.skip \/ (leftDone /\ Absent(Right(i)))
<1>1. /\ call.op = "free" /\ ~walk.merging /\ heap_tree[0] # NULL /\ heap_tree' = heap_tree
      /\ \/ rightDone /\ i = 0 /\ Done(ret)
         \/ rightDone /\ i # 0 /\ Goto(Up(walk))
         \/ ~rightDone /\ leftDone /\ Goto(DownRight(walk))
         \/ ~rightDone /\ ~leftDone /\ Goto(DownLeft(walk))
      /\ TypeOK /\ TreeShape /\ RootInner /\ OneStale /\ WalkFree
    BY DEF FreeSearch, HeapInv
<1>2. /\ walk \in WalkType /\ i \in Node /\ i \in Nat /\ heap_tree[i] # NULL
      /\ walk.block_size = SizeAt(i)
    BY <1>1, TypeParts, NodeRange DEF WalkFree, AtSize, WalkType
<1>3. AllExact
    BY <1>1, NoneStale DEF Descending
<1>4. CASE rightDone /\ i = 0 /\ Done(ret)
    <2>1. ret' = ret /\ call' = Idle /\ walk' = AtRoot
        BY <1>4 DEF Done
    <2>2. TypeOK'
        BY <1>1, <2>1, AtRootType, TypeParts, TypeNext
    <2>. QED BY <1>1, <1>3, <2>1, <2>2, SameTree, AtRest
<1>5. CASE rightDone /\ i # 0 /\ Goto(Up(walk))
    <2>1. heap_tree[Parent(i)] # NULL
        BY <1>1, <1>2, <1>5, BranchAbove, HeapAssumption
    <2>2. /\ Up(walk) \in WalkType /\ Up(walk).i = Parent(i)
          /\ Up(walk).block_size = SizeAt(Parent(i))
          /\ Up(walk).used = walk.used /\ Up(walk).merging = walk.merging
        BY <1>2, <1>5, MoveUp
    <2>. QED BY <1>1, <1>3, <1>5, <2>1, <2>2, FreeGoto
<1>6. CASE ~rightDone /\ leftDone /\ Goto(DownRight(walk))
    <2>1. Right(i) \in Node /\ heap_tree[Right(i)] # NULL
        BY <1>6 DEF Absent
    <2>2. /\ DownRight(walk) \in WalkType /\ DownRight(walk).i = Right(i)
          /\ DownRight(walk).block_size = SizeAt(Right(i))
          /\ DownRight(walk).used = walk.used /\ DownRight(walk).merging = walk.merging
        BY <1>2, <2>1, BothChildren, MoveDown
    <2>. QED BY <1>1, <1>3, <1>6, <2>1, <2>2, FreeGoto
<1>7. CASE ~rightDone /\ ~leftDone /\ Goto(DownLeft(walk))
    <2>1. Left(i) \in Node /\ heap_tree[Left(i)] # NULL
        BY <1>7 DEF Absent
    <2>2. /\ DownLeft(walk) \in WalkType /\ DownLeft(walk).i = Left(i)
          /\ DownLeft(walk).block_size = SizeAt(Left(i))
          /\ DownLeft(walk).used = walk.used /\ DownLeft(walk).merging = walk.merging
        BY <1>2, <2>1, MoveDown
    <2>. QED BY <1>1, <1>3, <1>7, <2>1, <2>2, FreeGoto
<1>. QED BY <1>1, <1>4, <1>5, <1>6, <1>7

\* free gives back a parent of which neither child is in use, or returns.
LEMMA FreeMergeInv ==
    ASSUME HeapInv, FreeMerge
    PROVE  HeapInv'
<1> DEFINE i == walk.i
           p == Parent(walk.i)
<1>1. /\ TypeOK /\ TreeShape /\ RootInner /\ OneStale /\ WalkFree
      /\ call.op = "free" /\ walk.merging
    BY DEF HeapInv, FreeMerge
<1>2. /\ walk \in WalkType /\ i \in Node /\ i \in Nat
      /\ call \in Abstract!Call \cup {Idle} /\ call # Idle /\ ret \in 0 .. HEAP_SIZE \cup {NULL}
      /\ heap_tree \in [Node -> 0 .. HEAP_SIZE - 1 \cup {NULL, BRANCH_NODE}]
    BY <1>1, TypeParts, FreeCallIs, NodeRange DEF WalkType
<1>3. \A j \in Node : i \in Children(j) => i > 0 /\ j = p
    BY <1>2, NodeRange, ParentOfChild DEF Children
<1>4. CASE i > 0 /\ BothChildrenFree(p)
    <2> DEFINE w == [walk EXCEPT !.i = p]
    <2>1. heap_tree' = [heap_tree EXCEPT ![p] = NULL] /\ walk' = w /\ call' = call /\ ret' = ret
        BY <1>4 DEF FreeMerge, Goto
    <2>2. p \in Node
        BY <1>2, <1>4, ChildOfParent, NodeRange
    <2>3. /\ heap_tree' \in [Node -> 0 .. HEAP_SIZE - 1 \cup {NULL, BRANCH_NODE}]
          /\ heap_tree'[p] = NULL
          /\ \A j \in Node : j # p => heap_tree'[j] = heap_tree[j]
          /\ TreeShape' /\ RootInner'
        <3>. HIDE DEF p
        <3>. QED BY <1>1, <1>2, <1>4, <2>1, <2>2, HeapAssumption, WriteNode
    <2>4. w \in WalkType /\ w.i = p /\ w.merging /\ w.used = walk.used
        BY <1>1, <1>2, <2>2 DEF WalkType
    <2>. HIDE DEF w
    <2>5. TypeOK'
        BY <1>2, <2>1, <2>3, <2>4, TypeNext
    <2>. HIDE DEF p
    <2>6. ASSUME NEW j \in Node, heap_tree'[j] = BRANCH_NODE, BothChildrenFree(j)'
          PROVE  p \in Children(j)
        <3>1. j # p /\ heap_tree[j] = BRANCH_NODE /\ Left(j) \in Node /\ Right(j) \in Node
            BY <1>1, <2>3, <2>6, HeapAssumption, BothChildren, NodeRange DEF TreeShape
        <3>2. ~BothChildrenFree(j)
            BY <1>1, <1>3, <3>1 DEF OneStale
        <3>. QED BY <2>3, <2>6, <3>1, <3>2 DEF BothChildrenFree, Children
    <2>7. OneStale'
        <3>1. Descending' /\ walk'.i = p
            BY <2>1, <2>4 DEF Descending
        <3>. QED BY <2>6, <3>1 DEF OneStale
    <2>8. WalkFree'
        BY <1>1, <2>1, <2>3, <2>4 DEF WalkFree
    <2>9. WalkMalloc' /\ WalkStats' /\ WalkRest'
        BY <1>1, <1>2, <2>1 DEF WalkMalloc, WalkStats, WalkRest, Mallocs
    <2>. QED BY <2>3, <2>5, <2>7, <2>8, <2>9 DEF HeapInv
<1>5. CASE ~(i > 0 /\ BothChildrenFree(p))
    <2>1. ret' = ret /\ call' = Idle /\ walk' = AtRoot /\ heap_tree' = heap_tree
        BY <1>5 DEF FreeMerge, Done
    <2>2. AllExact
        BY <1>1, <1>3, <1>5 DEF AllExact, OneStale
    <2>3. TypeOK'
        BY <1>2, <2>1, AtRootType, TypeNext
    <2>. QED BY <1>1, <2>1, <2>2, <2>3, SameTree, AtRest
<1>. QED BY <1>4, <1>5

-----------------------------------------------------------------------------
(* heap_stats                                                                *)

\* Multiplying keeps the order.
LEMMA Scaling ==
    \A a, b, c \in Nat : a <= b => a * c <= b * c
<1>. SUFFICES ASSUME NEW a \in Nat, NEW b \in Nat, NEW c \in Nat, a <= b PROVE a * c <= b * c
    OBVIOUS
<1>1. PICK d \in Nat : b = a + d
    <2>1. b - a \in Nat /\ b = a + (b - a)
        OBVIOUS
    <2>. QED BY <2>1
<1>2. b * c = a * c + d * c /\ d * c \in Nat /\ a * c \in Nat
    BY <1>1
<1>. QED BY <1>2

\* The parts of the heap: those of the children are the halves of their parent's.
LEMMA Parts ==
    \A i \in Node : /\ Base(i) \in Nat
                    /\ Base(i) + SizeAt(i) <= HEAP_SIZE
<1>. SUFFICES ASSUME NEW i \in Node
              PROVE  Base(i) \in Nat /\ Base(i) + SizeAt(i) <= HEAP_SIZE
    OBVIOUS
<1> DEFINE d == LevelOf(i)
           s == SizeAt(i)
<1>1. /\ d \in Nat /\ i \in Nat /\ s \in Nat /\ HEAP_SIZE \in Nat
      /\ HEAP_ADDR_LEN - d \in Nat /\ HEAP_ADDR_LEN \in Nat
      /\ AtLevel(i, d) /\ s = Pow2[HEAP_ADDR_LEN - d] /\ HEAP_SIZE = Pow2[HEAP_ADDR_LEN]
    BY LevelOfNode, NodeRange, LevelsNat, SizeAtType, SizesNat, SizesAgree DEF SizeAt
<1>2. Pow2[d] * s = HEAP_SIZE /\ Pow2[d + 1] = 2 * Pow2[d] /\ Pow2[d] \in Nat
    <2>1. d + (HEAP_ADDR_LEN - d) = HEAP_ADDR_LEN
        BY <1>1
    <2>2. Pow2[d] * Pow2[HEAP_ADDR_LEN - d] = Pow2[d + (HEAP_ADDR_LEN - d)]
        BY <1>1, PowersProduct
    <2>3. Pow2[d + 1] = 2 * Pow2[d] /\ Pow2[d] \in Nat
        BY <1>1, PowersStep, PowersPositive
    <2>. QED BY <1>1, <2>1, <2>2, <2>3
<1>. HIDE DEF s
<1>3. Pow2[d] <= i + 1 /\ i + 2 <= 2 * Pow2[d]
    BY <1>1, <1>2 DEF AtLevel
<1>4. HEAP_SIZE <= (i + 1) * s
    BY <1>1, <1>2, <1>3, Scaling
<1>5. (i + 2) * s <= 2 * HEAP_SIZE
    <2>1. (i + 2) * s <= (2 * Pow2[d]) * s
        BY <1>1, <1>2, <1>3, Scaling
    <2>2. (2 * Pow2[d]) * s = 2 * (Pow2[d] * s)
        BY <1>1, <1>2
    <2>. QED BY <1>2, <2>1, <2>2
<1>6. (i + 2) * s = (i + 1) * s + s /\ (i + 1) * s \in Nat
    BY <1>1
<1>. QED BY <1>1, <1>4, <1>5, <1>6 DEF Base, s

\* The halves of a part.
LEMMA Halves ==
    ASSUME NEW i \in Node, Left(i) \in Node
    PROVE  /\ Base(Left(i)) = Base(i)
           /\ Base(Right(i)) = Base(i) + SizeAt(Left(i))
           /\ SizeAt(Right(i)) = SizeAt(Left(i)) /\ SizeAt(i) = 2 * SizeAt(Left(i))
           /\ SizeAt(i) \div 2 = SizeAt(Left(i)) /\ SizeAt(Left(i)) \in Nat \ {0}
<1> DEFINE s == SizeAt(Left(i))
<1>1. i \in Nat /\ Right(i) \in Node
    BY NodeRange, BothChildren
<1>2. SizeAt(i) = 2 * s /\ SizeAt(Right(i)) = s /\ s \in Nat \ {0} /\ HEAP_SIZE \in Nat
    <2>1. SizeAt(i) = 2 * SizeAt(Left(i)) /\ SizeAt(i) = 2 * SizeAt(Right(i))
        BY <1>1, SizeOfChild DEF Children
    <2>2. SizeAt(Left(i)) \in Nat \ {0} /\ SizeAt(Right(i)) \in Nat
        BY <1>1, SizeAtType, SizesNat
    <2>. QED BY <2>1, <2>2, SizesNat
<1>3. SizeAt(i) \div 2 = s
    BY <1>2
<1>. HIDE DEF s
<1>4. (Left(i) + 1) * s = (i + 1) * (2 * s) /\ (Right(i) + 1) * s = (i + 1) * (2 * s) + s
    BY <1>1, <1>2 DEF Left, Right
<1>5. (i + 1) * (2 * s) \in Nat
    BY <1>1, <1>2
<1>6. SizeAt(Left(i)) = s
    BY DEF s
<1>. QED BY <1>2, <1>3, <1>4, <1>5, <1>6 DEF Base

\* The tree is more than its root.
LEMMA RootHasChildren == Left(0) \in Node
<1>1. HEAP_SIZE # HEAP_SIZE_MIN
    <2>1. /\ Pow2[HEAP_ADDR_MIN_LEN + 1] <= Pow2[HEAP_ADDR_LEN]
          /\ Pow2[HEAP_ADDR_MIN_LEN + 1] = 2 * Pow2[HEAP_ADDR_MIN_LEN]
          /\ Pow2[HEAP_ADDR_MIN_LEN] \in Nat \ {0} /\ Pow2[HEAP_ADDR_LEN] \in Nat
        BY HeapAssumption, PowersMonotone, PowersStep, PowersPositive
    <2>. QED BY <2>1, SizesAgree
<1>. QED BY <1>1, NodeRange, SizeAtType, ChildrenUnlessSmallest

\* What is used up to a node that is done with lies before the rest of its parent.
LEMMA StatsUp ==
    ASSUME TreeShape, NEW w \in WalkType, w.block_size = SizeAt(w.i), w.i # 0,
           heap_tree[w.i] # NULL, ~w.merging, w.used <= Base(w.i) + SizeAt(w.i)
    PROVE  Up(w) \in WalkType /\ StatsWalk(Up(w)) /\ ~Leaf(Up(w).i)
<1> DEFINE p == Parent(w.i)
<1>1. /\ Up(w) \in WalkType /\ Up(w).i = p /\ Up(w).skip = w.i
      /\ p \in Node /\ w.i \in Children(p) /\ Left(p) \in Node
      /\ Up(w).block_size = SizeAt(p) /\ Up(w).used = w.used /\ ~Up(w).merging
      /\ w.i \in Node
    BY MoveUp DEF WalkType
<1>2. heap_tree[p] = BRANCH_NODE
    BY <1>1, BranchAbove
<1>3. ~Leaf(p) /\ heap_tree[p] # NULL
    BY <1>2, HeapAssumption DEF Leaf
<1>4. /\ Base(Left(p)) = Base(p) /\ Base(Right(p)) = Base(p) + SizeAt(Left(p))
      /\ SizeAt(Right(p)) = SizeAt(Left(p)) /\ SizeAt(p) = 2 * SizeAt(Left(p))
      /\ SizeAt(p) \div 2 = SizeAt(Left(p)) /\ SizeAt(Left(p)) \in Nat \ {0}
    BY <1>1, Halves
<1>5. Base(p) \in Nat /\ w.used \in Nat /\ Left(p) # Right(p)
    <2>1. w.used \in Nat
        BY SizesNat DEF WalkType
    <2>. QED BY <1>1, <2>1, Parts, NodeRange, ParentOfChild
<1>. HIDE DEF p
<1>6. w.used <= Base(p) + Past(Up(w))
    <2>1. CASE w.i = Left(p)
        BY <1>1, <1>4, <1>5, <2>1 DEF Past
    <2>2. CASE w.i = Right(p)
        BY <1>1, <1>4, <1>5, <2>2 DEF Past
    <2>. QED BY <1>1, <2>1, <2>2 DEF Children
<1>. QED BY <1>1, <1>3, <1>6 DEF StatsWalk

\* heap_stats goes to a node.
LEMMA StatsGoto ==
    ASSUME HeapInv, call.op = "stats", heap_tree' = heap_tree, AllExact,
           NEW w \in WalkType, StatsWalk(w), Goto(w)
    PROVE  HeapInv'
<1>1. /\ TypeOK /\ TreeShape /\ RootInner
      /\ walk' = w /\ call' = call /\ ret' = ret /\ call # Idle
    BY TypeParts, FreeCallIs DEF HeapInv, Goto
<1>2. TypeOK'
    BY <1>1, TypeParts, TypeNext
<1>3. TreeShape' /\ RootInner' /\ OneStale'
    BY <1>1, SameTree DEF AllExact, OneStale
<1>4. WalkStats'
    <2>1. StatsWalk(w)'
        BY DEF StatsWalk, Leaf, Base, SizeAt, Past
    <2>. QED BY <1>1, <2>1 DEF WalkStats
<1>5. WalkMalloc' /\ WalkFree' /\ WalkRest'
    BY <1>1 DEF WalkMalloc, WalkFree, WalkRest, Mallocs
<1>. QED BY <1>2, <1>3, <1>4, <1>5 DEF HeapInv

\* The rest of a turn of heap_stats.
LEMMA StatsGoOnInv ==
    ASSUME HeapInv, call.op = "stats", heap_tree' = heap_tree, AllExact,
           NEW w \in WalkType, StatsWalk(w), ~Leaf(w.i), StatsGoOn(w)
    PROVE  HeapInv'
<1> DEFINE i == w.i
           leftDone == heap_tree[Left(i)] = NULL \/ Left(i) = w.skip
           rightDone == Right(i) = w.skip \/ (leftDone /\ heap_tree[Right(i)] = NULL)
<1>1. /\ \/ rightDone /\ i = 0 /\ Done(w.used)
         \/ rightDone /\ i # 0 /\ Goto(Up(w))
         \/ ~rightDone /\ leftDone /\ Goto(DownRight(w))
         \/ ~rightDone /\ ~leftDone /\ Goto(DownLeft(w))
      /\ TypeOK /\ TreeShape /\ RootInner
    BY DEF StatsGoOn, HeapInv
<1>2. /\ i \in Node /\ i \in Nat /\ w.skip \in Nat /\ w.used \in Nat /\ w.used \in 0 .. HEAP_SIZE
      /\ w.block_size = SizeAt(i) /\ ~w.merging
      /\ w.skip < Left(i) \/ w.skip \in Children(i)
      /\ w.used <= Base(i) + Past(w)
    <2>1. w.used \in Nat
        BY SizesNat DEF WalkType
    <2>. QED BY <2>1, NodeRange DEF StatsWalk, WalkType
<1>3. Left(i) \in Node /\ Right(i) \in Node
    <2>1. CASE i = 0
        BY <2>1, RootHasChildren, BothChildren
    <2>2. CASE i # 0
        <3>1. heap_tree[i] = BRANCH_NODE
            BY <2>2 DEF StatsWalk, Leaf
        <3>. QED BY <1>1, <1>2, <3>1, BothChildren DEF TreeShape
    <2>. QED BY <2>1, <2>2
<1>4. /\ Base(Left(i)) = Base(i) /\ Base(Right(i)) = Base(i) + SizeAt(Left(i))
      /\ SizeAt(Right(i)) = SizeAt(Left(i)) /\ SizeAt(i) = 2 * SizeAt(Left(i))
      /\ SizeAt(i) \div 2 = SizeAt(Left(i)) /\ SizeAt(Left(i)) \in Nat \ {0}
    BY <1>2, <1>3, Halves
<1>5. /\ Base(i) \in Nat /\ Left(i) < Right(i) /\ Left(i) \in Nat /\ Right(i) \in Nat
      /\ Left(i) < Left(Left(i)) /\ Right(i) < Left(Right(i))
      /\ Left(Left(i)) < Right(Left(i)) /\ Left(Right(i)) < Right(Right(i))
      /\ Left(Left(i)) \in Nat /\ Left(Right(i)) \in Nat
      /\ Right(Left(i)) \in Nat /\ Right(Right(i)) \in Nat
    <2>1. Base(i) \in Nat
        BY <1>2, Parts
    <2>2. i \in Nat
        BY <1>2
    <2>. HIDE DEF i
    <2>. QED BY <2>1, <2>2 DEF Left, Right
<1>. HIDE DEF i
<1>6. CASE rightDone /\ i = 0 /\ Done(w.used)
    <2>1. ret' = w.used /\ call' = Idle /\ walk' = AtRoot
        BY <1>6 DEF Done
    <2>2. TypeOK'
        BY <1>1, <1>2, <2>1, AtRootType, TypeParts, TypeNext
    <2>. QED BY <1>1, <2>1, <2>2, SameTree, AtRest
<1>7. CASE rightDone /\ i # 0 /\ Goto(Up(w))
    <2>1. w.used <= Base(i) + SizeAt(i)
        BY <1>2, <1>4, <1>5 DEF Past, i
    <2>2. heap_tree[i] # NULL
        BY <1>7 DEF StatsWalk, i
    <2>3. Up(w) \in WalkType /\ StatsWalk(Up(w))
        BY <1>1, <1>2, <1>7, <2>1, <2>2, StatsUp DEF i
    <2>. QED BY <1>7, <2>3, StatsGoto
<1>8. CASE ~rightDone /\ leftDone /\ Goto(DownRight(w))
    <2> DEFINE r == DownRight(w)
    <2>1. Right(i) # w.skip /\ heap_tree[Right(i)] # NULL
        BY <1>8
    <2>2. /\ r \in WalkType /\ r.i = Right(i) /\ r.block_size = SizeAt(Right(i))
          /\ r.skip = w.skip /\ r.used = w.used /\ ~r.merging
        BY <1>2, <1>3, MoveDown DEF i
    <2>. HIDE DEF r
    <2>3. w.skip < Left(Right(i))
        BY <1>2, <1>5 DEF Children
    <2>4. Past(w) <= SizeAt(Left(i)) /\ Past(w) \in Nat
        BY <1>2, <1>4, <2>1 DEF Past, i
    <2>5. Past(r) = 0
        BY <1>2, <1>5, <2>2, <2>3 DEF Past
    <2>6. r.used <= Base(Right(i)) + Past(r)
        BY <1>2, <1>4, <1>5, <2>2, <2>4, <2>5
    <2>7. StatsWalk(r)
        BY <2>1, <2>2, <2>3, <2>6 DEF StatsWalk
    <2>. QED BY <1>8, <2>2, <2>7, StatsGoto DEF r
<1>9. CASE ~rightDone /\ ~leftDone /\ Goto(DownLeft(w))
    <2> DEFINE r == DownLeft(w)
    <2>1. Right(i) # w.skip /\ Left(i) # w.skip /\ heap_tree[Left(i)] # NULL
        BY <1>9
    <2>2. /\ r \in WalkType /\ r.i = Left(i) /\ r.block_size = SizeAt(Left(i))
          /\ r.skip = w.skip /\ r.used = w.used /\ ~r.merging
        BY <1>2, <1>3, MoveDown DEF i
    <2>. HIDE DEF r
    <2>3. w.skip < Left(Left(i))
        BY <1>2, <1>5, <2>1 DEF Children
    <2>4. Past(w) = 0
        BY <2>1 DEF Past, i
    <2>5. Past(r) = 0
        BY <1>2, <1>5, <2>2, <2>3 DEF Past
    <2>6. r.used <= Base(Left(i)) + Past(r)
        BY <1>2, <1>4, <1>5, <2>2, <2>4, <2>5
    <2>7. StatsWalk(r)
        BY <2>1, <2>2, <2>3, <2>6 DEF StatsWalk
    <2>. QED BY <1>9, <2>2, <2>7, StatsGoto DEF r
<1>. QED BY <1>1, <1>6, <1>7, <1>8, <1>9

\* The walk of heap_stats, which leaves the tree alone.
LEMMA StatsFacts ==
    ASSUME HeapInv, call.op = "stats"
    PROVE  walk \in WalkType /\ StatsWalk(walk) /\ AllExact
<1>1. walk \in WalkType /\ StatsWalk(walk) /\ TypeOK /\ OneStale
    BY TypeParts DEF HeapInv, WalkStats
<1>2. ~Descending
    BY <1>1 DEF Descending, StatsWalk
<1>. QED BY <1>1, <1>2, NoneStale

\* heap_stats at a node that is no block, and at one that is.
LEMMA StatsInnerInv ==
    ASSUME HeapInv, StatsInner
    PROVE  HeapInv'
BY StatsFacts, StatsGoOnInv DEF StatsInner

LEMMA StatsLeafInv ==
    ASSUME HeapInv, StatsLeaf
    PROVE  HeapInv'
<1> DEFINE w == [walk EXCEPT !.used = @ + walk.block_size]
<1>1. /\ call.op = "stats" /\ Leaf(walk.i) /\ heap_tree' = heap_tree
      /\ walk.i # 0 => StatsGoOn(Up(w))
      /\ walk \in WalkType /\ StatsWalk(walk) /\ AllExact /\ TreeShape /\ RootInner
    BY StatsFacts DEF StatsLeaf, HeapInv
<1>2. walk.i # 0 /\ walk.i \in Node
    BY <1>1 DEF RootInner, Leaf, WalkType
<1>3. /\ walk.used \in Nat /\ walk.block_size = SizeAt(walk.i) /\ SizeAt(walk.i) \in Nat
      /\ Base(walk.i) \in Nat /\ Base(walk.i) + SizeAt(walk.i) <= HEAP_SIZE /\ HEAP_SIZE \in Nat
      /\ walk.used <= Base(walk.i) + Past(walk) /\ walk.skip < Left(walk.i)
      /\ walk.skip \in Nat /\ walk.i \in Nat /\ ~walk.merging
    <2>1. walk.used \in Nat /\ HEAP_SIZE \in Nat
        BY <1>1, SizesNat DEF WalkType
    <2>2. SizeAt(walk.i) \in Nat
        BY <1>2, SizeAtType, SizesNat
    <2>. QED BY <1>1, <1>2, <2>1, <2>2, Parts, NodeRange DEF StatsWalk, WalkType
<1>4. Past(walk) = 0
    <2>1. walk.skip # Left(walk.i) /\ walk.skip # Right(walk.i)
        BY <1>3 DEF Left, Right
    <2>. QED BY <2>1 DEF Past
<1>5. walk.used + walk.block_size \in 0 .. HEAP_SIZE
    BY <1>3, <1>4
<1>6. /\ w \in WalkType /\ w.i = walk.i /\ w.block_size = walk.block_size /\ ~w.merging
      /\ w.used = walk.used + walk.block_size
    BY <1>1, <1>3, <1>5 DEF WalkType
<1>. HIDE DEF w
<1>7. Up(w) \in WalkType /\ StatsWalk(Up(w)) /\ ~Leaf(Up(w).i)
    <2>1. heap_tree[walk.i] # NULL
        BY <1>1 DEF Leaf
    <2>2. w.used <= Base(w.i) + SizeAt(w.i)
        BY <1>3, <1>4, <1>6
    <2>. QED BY <1>1, <1>2, <1>3, <1>6, <2>1, <2>2, StatsUp
<1>. QED BY <1>1, <1>2, <1>7, StatsGoOnInv

-----------------------------------------------------------------------------
\* A step of none of them.
LEMMA StutterInv ==
    ASSUME HeapInv, UNCHANGED vars
    PROVE  HeapInv'
<1>1. heap_tree' = heap_tree /\ call' = call /\ ret' = ret /\ walk' = walk
    BY DEF vars
<1>. QED BY <1>1
      DEF HeapInv, TypeOK, TreeShape, OneStale, BothChildrenFree, Descending, RootInner, WalkMalloc,
          Mallocs, AtSize, SizeAt, SkipBehind, Leaf, WalkFree, WalkStats, StatsWalk, Base, Past, WalkRest

\* The inductive invariant of every walk and of the tree it leaves: malloc, free,
\* find_ptr and heap_stats (heap.c:21-83, 93-212).
THEOREM HeapInvariant ==
    ASSUME ModestRequests
    PROVE  Spec => []HeapInv
<1>1. ASSUME HeapInv, [Next]_vars PROVE HeapInv'
    BY <1>1, BeginInv, MallocTooLargeInv, MallocOccupiedInv, MallocTakeInv, MallocDescendInv,
       FreeEmptyInv, FreeFoundInv, FreeSearchInv, FreeMergeInv, StatsLeafInv, StatsInnerInv, StutterInv
       DEF Next, Malloc, FreeCall, Stats
<1>. QED BY <1>1, InvInit, PTL DEF Spec

\* What is in the tree, the call and the walk is of its type: every walk of
\* malloc, find_ptr and heap_stats stays within the tree, at a size that is that
\* of the node it is at, and what heap_stats adds up fits in the heap
\* (heap.c:21-83, 93-212).
THEOREM HeapTypeCorrect ==
    ASSUME ModestRequests
    PROVE  Spec => []TypeOK
<1>1. HeapInv => TypeOK
    BY DEF HeapInv
<1>. QED BY <1>1, HeapInvariant, PTL

\* Between calls a node is a branch exactly if one of its children is in use,
\* and below a block or a free node everything is free: malloc leaves no branch
\* without need behind, not even when it fails, and free gives back all the
\* parents it may (heap.c:51, 109-117).
THEOREM TreeAlwaysExact ==
    ASSUME ModestRequests
    PROVE  Spec => []TreeExact
<1>1. HeapInv => TreeExact
    <2>. SUFFICES ASSUME HeapInv, call = Idle, NEW i \in Node
                  PROVE  heap_tree[i] = BRANCH_NODE <=>
                            (Left(i) \in Node /\ (heap_tree[Left(i)] # NULL \/ heap_tree[Right(i)] # NULL))
        BY DEF TreeExact
    <2>1. TypeOK /\ TreeShape /\ OneStale /\ ~Descending
        BY DEF HeapInv, WalkRest, Descending, AtRoot, Idle, Abstract!Idle
    <2>2. AllExact
        BY <2>1, NoneStale
    <2>. QED BY <2>1, <2>2 DEF TreeShape, AllExact, BothChildrenFree
<1>. QED BY <1>1, HeapInvariant, PTL

-----------------------------------------------------------------------------
(* The parts of the heap                                                     *)

\* Where it ends, and when two parts do not meet.
End(i) == Base(i) + SizeAt(i)

Apart(i, j) == End(i) <= Base(j) \/ End(j) <= Base(i)

\* Every part is a non-empty part of the heap.
LEMMA PartNat ==
    \A i \in Node : /\ Base(i) \in Nat /\ SizeAt(i) \in Nat \ {0} /\ End(i) \in Nat
                    /\ Base(i) < End(i) /\ End(i) <= HEAP_SIZE /\ HEAP_SIZE \in Nat
                    /\ SizeAt(i) <= HEAP_SIZE
<1>. SUFFICES ASSUME NEW i \in Node
              PROVE  /\ Base(i) \in Nat /\ SizeAt(i) \in Nat \ {0} /\ End(i) \in Nat
                     /\ Base(i) < End(i) /\ End(i) <= HEAP_SIZE /\ HEAP_SIZE \in Nat
                     /\ SizeAt(i) <= HEAP_SIZE
    OBVIOUS
<1>1. SizeAt(i) \in Nat \ {0} /\ SizeAt(i) <= HEAP_SIZE /\ HEAP_SIZE \in Nat
    BY SizeAtType, SizesNat
<1>2. Base(i) \in Nat /\ Base(i) + SizeAt(i) <= HEAP_SIZE
    BY Parts
<1>. QED BY <1>1, <1>2 DEF End

\* Nodes of one size stand for parts that do not meet.
LEMMA SameSizeApart ==
    \A i, j \in Node : i < j /\ SizeAt(i) = SizeAt(j) => Apart(i, j)
<1>. SUFFICES ASSUME NEW i \in Node, NEW j \in Node, i < j, SizeAt(i) = SizeAt(j)
              PROVE  End(i) <= Base(j)
    BY DEF Apart
<1> DEFINE s == SizeAt(i)
<1>1. i \in Nat /\ j \in Nat /\ s \in Nat /\ SizeAt(j) = s /\ HEAP_SIZE \in Nat
    BY NodeRange, PartNat
<1>2. Base(i) = (i + 1) * s - HEAP_SIZE /\ Base(j) = (j + 1) * s - HEAP_SIZE /\ End(i) = Base(i) + s
    BY <1>1 DEF Base, End
<1>. HIDE DEF s
<1>3. (i + 2) * s <= (j + 1) * s
    BY <1>1, Scaling
<1>4. (i + 2) * s = (i + 1) * s + s /\ (i + 1) * s \in Nat /\ (j + 1) * s \in Nat
    BY <1>1
<1>. QED BY <1>1, <1>2, <1>3, <1>4

\* The part of a node lies within its parent's.
LEMMA PartOfParent ==
    ASSUME NEW j \in Node, j # 0
    PROVE  /\ Parent(j) \in Node /\ Parent(j) < j
           /\ Base(Parent(j)) <= Base(j) /\ End(j) <= End(Parent(j))
           /\ SizeAt(Parent(j)) = 2 * SizeAt(j)
<1> DEFINE p == Parent(j)
<1>1. j \in Nat \ {0}
    BY NodeRange
<1>2. p \in Nat /\ p < j /\ (j = Left(p) \/ j = Right(p))
    BY <1>1, ChildOfParent
<1>3. p \in Node /\ Left(p) \in Node /\ Right(p) \in Node
    BY <1>2, NodeRange, BothChildren
<1>4. /\ Base(Left(p)) = Base(p) /\ Base(Right(p)) = Base(p) + SizeAt(Left(p))
      /\ SizeAt(Right(p)) = SizeAt(Left(p)) /\ SizeAt(p) = 2 * SizeAt(Left(p))
      /\ SizeAt(Left(p)) \in Nat \ {0}
    BY <1>3, Halves
<1>5. Base(p) \in Nat
    BY <1>3, PartNat
<1>. HIDE DEF p
<1>6. Base(p) <= Base(j) /\ End(j) <= End(p) /\ SizeAt(p) = 2 * SizeAt(j)
    BY <1>2, <1>4, <1>5 DEF End
<1>. QED BY <1>2, <1>3, <1>6 DEF p

\* A node that is no branch shares its part with no other that is as small or
\* smaller and under a branch.
LEMMA ApartFromSmaller ==
    ASSUME TreeShape, NEW i \in Node, heap_tree[i] # BRANCH_NODE
    PROVE  \A j \in Node : /\ j # i /\ SizeAt(j) <= SizeAt(i)
                           /\ j # 0 => heap_tree[Parent(j)] = BRANCH_NODE
                           => Apart(i, j)
<1> DEFINE Small(j) == /\ j # i /\ SizeAt(j) <= SizeAt(i)
                       /\ j # 0 => heap_tree[Parent(j)] = BRANCH_NODE
           S == {n \in Nat : \A j \in Node : j < n /\ Small(j) => Apart(i, j)}
<1>1. 0 \in S
    BY NodeRange
<1>2. ASSUME NEW n \in Nat, n \in S PROVE n + 1 \in S
    <2>. SUFFICES ASSUME NEW j \in Node, j = n, Small(j) PROVE Apart(i, j)
        BY <1>2, NodeRange
    <2>0. i \in Nat /\ j \in Nat
        BY NodeRange
    <2>1. CASE SizeAt(j) = SizeAt(i)
        <3>1. Apart(i, j) \/ Apart(j, i)
            BY <2>0, <2>1, SameSizeApart
        <3>. QED BY <3>1 DEF Apart
    <2>2. CASE SizeAt(j) # SizeAt(i)
        <3>1. SizeAt(j) \in Sizes /\ SizeAt(i) \in Sizes /\ SizeAt(j) \in Nat /\ SizeAt(i) \in Nat
            BY SizeAtType, SizesNat
        <3>2. 2 * SizeAt(j) <= SizeAt(i)
            BY <2>2, <3>1, SizesNat
        <3>3. j # 0
            BY <3>1, <3>2, SizeAtType, SizesNat
        <3>4. /\ Parent(j) \in Node /\ Parent(j) < j
              /\ Base(Parent(j)) <= Base(j) /\ End(j) <= End(Parent(j))
              /\ SizeAt(Parent(j)) = 2 * SizeAt(j)
            BY <3>3, PartOfParent
        <3>5. heap_tree[Parent(j)] = BRANCH_NODE /\ Parent(j) # i
            BY <3>3
        <3>6. Parent(j) # 0 => heap_tree[Parent(Parent(j))] = BRANCH_NODE
            BY <3>4, <3>5, BranchAbove, HeapAssumption
        <3>7. Apart(i, Parent(j))
            BY <1>2, <3>2, <3>4, <3>5, <3>6
        <3>8. /\ Base(j) \in Nat /\ End(j) \in Nat /\ Base(i) \in Nat /\ End(i) \in Nat
              /\ Base(Parent(j)) \in Nat /\ End(Parent(j)) \in Nat
            BY <3>4, PartNat
        <3>. QED BY <3>4, <3>7, <3>8 DEF Apart
    <2>. QED BY <2>1, <2>2
<1>. HIDE DEF S
<1>3. Nat \subseteq S
    BY <1>1, <1>2, NatSetInduction
<1>. SUFFICES ASSUME NEW j \in Node, Small(j) PROVE Apart(i, j)
    OBVIOUS
<1>4. j + 1 \in S /\ j < j + 1
    BY <1>3, NodeRange
<1>. QED BY <1>4 DEF S

\* A block in use meets no other part that is in use as a whole, or free below
\* a branch.
LEMMA LeafApart ==
    ASSUME TreeShape, NEW i \in Node, Leaf(i), NEW j \in Node, j # i,
           heap_tree[j] # BRANCH_NODE, j # 0 => heap_tree[Parent(j)] = BRANCH_NODE
    PROVE  Apart(i, j)
<1>1. heap_tree[i] # BRANCH_NODE /\ heap_tree[i] # NULL
    BY DEF Leaf
<1>2. i # 0 => heap_tree[Parent(i)] = BRANCH_NODE
    BY <1>1, BranchAbove
<1>3. SizeAt(i) \in Nat /\ SizeAt(j) \in Nat
    BY PartNat
<1>4. CASE SizeAt(j) <= SizeAt(i)
    BY <1>1, <1>4, ApartFromSmaller
<1>5. CASE SizeAt(i) <= SizeAt(j)
    BY <1>2, <1>5, ApartFromSmaller DEF Apart
<1>. QED BY <1>3, <1>4, <1>5

\* Two blocks in use do not meet.
LEMMA LeavesApart ==
    ASSUME TreeShape, NEW i \in Node, Leaf(i), NEW j \in Node, Leaf(j), j # i
    PROVE  Apart(i, j)
BY LeafApart, BranchAbove DEF Leaf

\* Of what is in use some block is.
LEMMA LeafWithin ==
    ASSUME TypeOK, TreeShape, AllExact
    PROVE  \A i \in Node : heap_tree[i] # NULL =>
              \E j \in Node : Leaf(j) /\ Base(i) <= Base(j) /\ End(j) <= End(i)
<1> DEFINE Within(i) == \E j \in Node : Leaf(j) /\ Base(i) <= Base(j) /\ End(j) <= End(i)
           m == Pow2[Bottom + 1]
           S == {n \in Nat : \A i \in Node : m <= i + n /\ heap_tree[i] # NULL => Within(i)}
<1>0. m \in Nat /\ \A i \in Node : i \in Nat /\ i + 1 < m
    BY NodeRange, LevelsNat, PowersPositive
<1>. HIDE DEF m
<1>1. 0 \in S
    BY <1>0
<1>2. ASSUME NEW n \in Nat, n \in S PROVE n + 1 \in S
    <2>. SUFFICES ASSUME NEW i \in Node, m <= i + (n + 1), heap_tree[i] # NULL PROVE Within(i)
        OBVIOUS
    <2>0. Base(i) \in Nat /\ End(i) \in Nat /\ i \in Nat
        BY PartNat, NodeRange
    <2>1. CASE Leaf(i)
        BY <2>0, <2>1
    <2>2. CASE ~Leaf(i)
        <3>1. heap_tree[i] = BRANCH_NODE
            BY <2>2 DEF Leaf
        <3>2. Left(i) \in Node /\ Right(i) \in Node
            BY <2>0, <3>1, BothChildren DEF TreeShape
        <3>3. PICK c \in {Left(i), Right(i)} : heap_tree[c] # NULL
            BY <3>1 DEF AllExact, BothChildrenFree
        <3>4. c \in Node /\ c \in Nat /\ c # 0 /\ i < c /\ Parent(c) = i
            BY <2>0, <3>2, <3>3, ParentOfChild
        <3>5. m <= c + n
            BY <1>0, <2>0, <3>4
        <3>6. Within(c)
            BY <1>2, <3>3, <3>4, <3>5
        <3>7. Base(i) <= Base(c) /\ End(c) <= End(i)
            BY <3>4, PartOfParent
        <3>8. PICK j \in Node : Leaf(j) /\ Base(c) <= Base(j) /\ End(j) <= End(c)
            BY <3>6
        <3>9. Base(j) \in Nat /\ End(j) \in Nat /\ Base(c) \in Nat /\ End(c) \in Nat
            BY <3>4, PartNat
        <3>10. Base(i) <= Base(j) /\ End(j) <= End(i)
            BY <2>0, <3>7, <3>8, <3>9
        <3>. QED BY <3>8, <3>10
    <2>. QED BY <2>1, <2>2
<1>. HIDE DEF S
<1>3. Nat \subseteq S
    BY <1>1, <1>2, NatSetInduction
<1>. SUFFICES ASSUME NEW i \in Node, heap_tree[i] # NULL PROVE Within(i)
    OBVIOUS
<1>4. m \in S /\ m <= i + m
    BY <1>0, <1>3
<1>. QED BY <1>4 DEF S

\* If the root is free, everything is.
LEMMA AllFree ==
    ASSUME TreeShape, heap_tree[0] = NULL
    PROVE  \A i \in Node : heap_tree[i] = NULL
<1> DEFINE S == {n \in Nat : \A i \in Node : i < n => heap_tree[i] = NULL}
<1>1. 0 \in S
    BY NodeRange
<1>2. ASSUME NEW n \in Nat, n \in S PROVE n + 1 \in S
    <2>. SUFFICES ASSUME NEW i \in Node, i = n, i # 0, heap_tree[i] # NULL PROVE FALSE
        BY <1>2, NodeRange
    <2>1. heap_tree[Parent(i)] = BRANCH_NODE
        BY BranchAbove
    <2>2. Parent(i) \in Node /\ Parent(i) < i
        BY PartOfParent
    <2>. QED BY <1>2, <2>1, <2>2, HeapAssumption
<1>. HIDE DEF S
<1>3. Nat \subseteq S
    BY <1>1, <1>2, NatSetInduction
<1>. SUFFICES ASSUME NEW i \in Node PROVE heap_tree[i] = NULL
    OBVIOUS
<1>4. i + 1 \in S /\ i < i + 1
    BY <1>3, NodeRange
<1>. QED BY <1>4 DEF S

-----------------------------------------------------------------------------
(* How far a walk has got                                                    *)

\* Up to where a walk has passed the heap, by the part it is at and the child it
\* has come back from.
Reached(w) == Base(w.i) + Past(w)

\* That a walk keeps to its types, its size and its direction.
Tracked(w) ==
    /\ w \in WalkType
    /\ w.block_size = SizeAt(w.i)
    /\ w.skip < Left(w.i) \/ w.skip \in Children(w.i)

\* Of a node with children.
LEMMA ReachedIs ==
    ASSUME NEW w, Tracked(w), Left(w.i) \in Node
    PROVE  /\ w.i \in Node /\ Left(w.i) # Right(w.i) /\ Right(w.i) \in Node
           /\ Base(Left(w.i)) = Base(w.i) /\ End(Left(w.i)) = Base(Right(w.i))
           /\ End(Right(w.i)) = End(w.i)
           /\ w.skip = Right(w.i) => Reached(w) = End(w.i)
           /\ w.skip = Left(w.i) => Reached(w) = Base(Right(w.i))
           /\ w.skip \notin Children(w.i) => Reached(w) = Base(w.i)
<1> DEFINE i == w.i
<1>1. i \in Node /\ i \in Nat /\ Left(i) # Right(i) /\ Right(i) \in Node
    BY NodeRange, BothChildren, ParentOfChild DEF Tracked, WalkType
<1>2. /\ Base(Left(i)) = Base(i) /\ Base(Right(i)) = Base(i) + SizeAt(Left(i))
      /\ SizeAt(Right(i)) = SizeAt(Left(i)) /\ SizeAt(i) = 2 * SizeAt(Left(i))
      /\ SizeAt(i) \div 2 = SizeAt(Left(i)) /\ SizeAt(Left(i)) \in Nat \ {0}
    BY <1>1, Halves
<1>3. Base(i) \in Nat /\ w.block_size = SizeAt(i)
    BY <1>1, PartNat DEF Tracked
<1>. QED BY <1>1, <1>2, <1>3 DEF Reached, Past, End, Children

\* Of one without.
LEMMA ReachedSmallest ==
    ASSUME NEW w, Tracked(w), Left(w.i) \notin Node
    PROVE  Reached(w) = Base(w.i)
<1>1. w.i \in Node /\ w.i \in Nat /\ w.skip \in Node
    BY NodeRange DEF Tracked, WalkType
<1>2. w.skip # Left(w.i) /\ w.skip # Right(w.i) /\ Base(w.i) \in Nat
    BY <1>1, BothChildren, PartNat
<1>. QED BY <1>2 DEF Reached, Past

\* It is within the part the walk is at.
LEMMA ReachedBounds ==
    ASSUME NEW w, Tracked(w)
    PROVE  Reached(w) \in Nat /\ Base(w.i) <= Reached(w) /\ Reached(w) <= End(w.i)
<1>1. w.i \in Node
    BY DEF Tracked, WalkType
<1>2. Base(w.i) \in Nat /\ Base(w.i) < End(w.i) /\ End(w.i) \in Nat
    BY <1>1, PartNat
<1>3. CASE Left(w.i) \in Node
    <2>1. /\ Right(w.i) \in Node /\ End(Right(w.i)) = End(w.i)
          /\ Base(Left(w.i)) = Base(w.i) /\ End(Left(w.i)) = Base(Right(w.i))
          /\ Reached(w) \in {End(w.i), Base(Right(w.i)), Base(w.i)}
        BY <1>3, ReachedIs DEF Children
    <2>2. /\ Base(Right(w.i)) \in Nat /\ Base(Right(w.i)) < End(Right(w.i))
          /\ Base(Left(w.i)) < End(Left(w.i))
        BY <1>3, <2>1, PartNat
    <2>. QED BY <1>2, <2>1, <2>2
<1>4. CASE Left(w.i) \notin Node
    BY <1>2, <1>4, ReachedSmallest
<1>. QED BY <1>3, <1>4

\* On the way up it is the end of the part left, on the way down the beginning of
\* the part entered.
LEMMA ReachedUp ==
    ASSUME NEW w, Tracked(w), w.i # 0
    PROVE  Tracked(Up(w)) /\ Reached(Up(w)) = End(w.i) /\ Up(w).i = Parent(w.i)
<1> DEFINE p == Parent(w.i)
<1>1. /\ Up(w) \in WalkType /\ Up(w).i = p /\ Up(w).skip = w.i
      /\ w.i \in Children(p) /\ Left(p) \in Node
      /\ Up(w).block_size = SizeAt(p)
    BY MoveUp DEF Tracked
<1>2. Tracked(Up(w))
    BY <1>1 DEF Tracked
<1>3. Reached(Up(w)) = End(w.i)
    BY <1>1, <1>2, ReachedIs DEF Children
<1>. QED BY <1>1, <1>2, <1>3

LEMMA ReachedDown ==
    ASSUME NEW w, Tracked(w), Left(w.i) \in Node, w.skip # Right(w.i)
    PROVE  /\ Tracked(DownRight(w)) /\ Reached(DownRight(w)) = Base(Right(w.i))
           /\ DownRight(w).i = Right(w.i)
           /\ DownLeft(w).i = Left(w.i)
           /\ w.skip # Left(w.i) => Tracked(DownLeft(w)) /\ Reached(DownLeft(w)) = Base(w.i)
<1> DEFINE i == w.i
<1>1. i \in Nat /\ w.skip \in Nat /\ Right(i) \in Node /\ i \in Node
    BY NodeRange, BothChildren DEF Tracked, WalkType
<1>2. /\ DownLeft(w) \in WalkType /\ DownRight(w) \in WalkType
      /\ DownLeft(w).i = Left(i) /\ DownRight(w).i = Right(i)
      /\ DownLeft(w).block_size = SizeAt(Left(i)) /\ DownRight(w).block_size = SizeAt(Right(i))
      /\ DownLeft(w).skip = w.skip /\ DownRight(w).skip = w.skip
    BY MoveDown DEF Tracked
<1>3. /\ Left(i) < Right(i) /\ Left(i) \in Nat /\ Right(i) \in Nat
      /\ Left(i) < Left(Left(i)) /\ Right(i) < Left(Right(i))
      /\ Left(Left(i)) < Right(Left(i)) /\ Left(Right(i)) < Right(Right(i))
      /\ Left(Left(i)) \in Nat /\ Left(Right(i)) \in Nat
      /\ Right(Left(i)) \in Nat /\ Right(Right(i)) \in Nat
    <2>1. i \in Nat
        BY <1>1
    <2>. HIDE DEF i
    <2>. QED BY <2>1 DEF Left, Right
<1>4. w.skip < Right(i)
    BY <1>1, <1>3 DEF Tracked, Children
<1>5. w.skip # Left(i) => w.skip < Left(i)
    BY <1>1, <1>3 DEF Tracked, Children
<1>6. Base(i) \in Nat /\ Base(Right(i)) \in Nat /\ Base(Left(i)) = Base(i)
    BY <1>1, PartNat, Halves
<1>7. Tracked(DownRight(w)) /\ Reached(DownRight(w)) = Base(Right(i))
    <2>1. w.skip < Left(Right(i)) /\ w.skip # Left(Right(i)) /\ w.skip # Right(Right(i))
        BY <1>1, <1>3, <1>4
    <2>. QED BY <1>2, <1>6, <2>1 DEF Tracked, Reached, Past
<1>8. ASSUME w.skip # Left(i) PROVE Tracked(DownLeft(w)) /\ Reached(DownLeft(w)) = Base(i)
    <2>1. w.skip < Left(Left(i)) /\ w.skip # Left(Left(i)) /\ w.skip # Right(Left(i))
        BY <1>1, <1>3, <1>5, <1>8
    <2>. QED BY <1>2, <1>6, <2>1 DEF Tracked, Reached, Past
<1>. QED BY <1>2, <1>7, <1>8

-----------------------------------------------------------------------------
(* The blocks of the abstract heap                                           *)

\* The block of a node, and the nodes that hold one.
Block(i) == [addr |-> Base(i), size |-> SizeAt(i)]

Leaves == {i \in Node : Leaf(i)}

\* A leaf holds the address of the part of the heap it stands for.
LeafAddr == \A i \in Leaves : heap_tree[i] = Base(i)

\* The blocks, now and after a step.
LEMMA BlocksAre ==
    LeafAddr => Blocks = {Block(i) : i \in Leaves}
<1>. SUFFICES ASSUME LeafAddr PROVE Blocks = {Block(i) : i \in Leaves}
    OBVIOUS
<1>1. \A i \in Leaves : [addr |-> heap_tree[i], size |-> Pow2[HEAP_ADDR_LEN - LevelOf(i)]] = Block(i)
    BY DEF LeafAddr, Block, SizeAt
<1>2. Blocks = {[addr |-> heap_tree[i], size |-> Pow2[HEAP_ADDR_LEN - LevelOf(i)]] : i \in Leaves}
    BY DEF Blocks, Leaves
<1>. QED BY <1>1, <1>2

LEMMA BlocksNext ==
    LeafAddr' => Blocks' = {Block(i) : i \in Leaves'}
<1>. SUFFICES ASSUME LeafAddr' PROVE Blocks' = {Block(i) : i \in Leaves'}
    OBVIOUS
<1>1. \A i \in Leaves' : [addr |-> heap_tree'[i], size |-> Pow2[HEAP_ADDR_LEN - LevelOf(i)]] = Block(i)
    BY DEF LeafAddr, Block, SizeAt
<1>2. Blocks' = {[addr |-> heap_tree'[i], size |-> Pow2[HEAP_ADDR_LEN - LevelOf(i)]] : i \in Leaves'}
    BY DEF Blocks, Leaves
<1>. QED BY <1>1, <1>2

\* A step that makes no leaf and clears none leaves the blocks as they are.
LEMMA SameLeaves ==
    ASSUME LeafAddr, \A i \in Node : Leaf(i) \/ Leaf(i)' => heap_tree'[i] = heap_tree[i]
    PROVE  Leaves' = Leaves /\ LeafAddr' /\ Blocks' = Blocks
<1>1. Leaves' = Leaves
    BY DEF Leaves, Leaf
<1>2. LeafAddr'
    BY <1>1 DEF LeafAddr, Leaves
<1>. QED BY <1>1, <1>2, BlocksAre, BlocksNext

\* The address malloc computes for a node is where the node's part begins.
LEMMA AddressIsBase ==
    \A i \in Node : Address(i, SizeAt(i)) = Base(i)
<1>. SUFFICES ASSUME NEW i \in Node PROVE Address(i, SizeAt(i)) = Base(i)
    OBVIOUS
<1> DEFINE n == (i + 1) * SizeAt(i)
<1>1. /\ Base(i) \in Nat /\ Base(i) < HEAP_SIZE /\ HEAP_SIZE \in Nat
      /\ i \in Nat /\ SizeAt(i) \in Nat
    BY PartNat, NodeRange
<1>2. n \in Nat /\ Base(i) = n - HEAP_SIZE /\ Address(i, SizeAt(i)) = n % HEAP_SIZE
    BY <1>1 DEF Base, Address
<1>. HIDE DEF n
<1>3. n = Base(i) + HEAP_SIZE
    BY <1>1, <1>2
<1>4. (Base(i) + HEAP_SIZE) % HEAP_SIZE = Base(i)
    BY <1>1
<1>. QED BY <1>2, <1>3, <1>4

\* A part begins at a multiple of its size.
LEMMA BaseAligned ==
    \A i \in Node : \E k \in 0 .. (HEAP_SIZE \div SizeAt(i)) - 1 : Base(i) = k * SizeAt(i)
<1>. SUFFICES ASSUME NEW i \in Node
              PROVE  \E k \in 0 .. (HEAP_SIZE \div SizeAt(i)) - 1 : Base(i) = k * SizeAt(i)
    OBVIOUS
<1> DEFINE d == LevelOf(i)
           s == SizeAt(i)
           q == Pow2[d]
<1>1. /\ d \in Nat /\ i \in Nat /\ s \in Nat \ {0} /\ HEAP_SIZE \in Nat
      /\ HEAP_ADDR_LEN - d \in Nat /\ HEAP_ADDR_LEN \in Nat
      /\ AtLevel(i, d) /\ s = Pow2[HEAP_ADDR_LEN - d] /\ HEAP_SIZE = Pow2[HEAP_ADDR_LEN]
    BY LevelOfNode, NodeRange, LevelsNat, SizeAtType, SizesNat, SizesAgree DEF SizeAt
<1>2. q * s = HEAP_SIZE /\ q \in Nat \ {0} /\ q <= i + 1 /\ i + 1 < 2 * q
    <2>1. d + (HEAP_ADDR_LEN - d) = HEAP_ADDR_LEN
        BY <1>1
    <2>2. Pow2[d] * Pow2[HEAP_ADDR_LEN - d] = Pow2[d + (HEAP_ADDR_LEN - d)]
        BY <1>1, PowersProduct
    <2>3. Pow2[d + 1] = 2 * Pow2[d] /\ Pow2[d] \in Nat \ {0}
        BY <1>1, PowersStep, PowersPositive
    <2>. QED BY <1>1, <2>1, <2>2, <2>3 DEF AtLevel
<1>3. Base(i) = (i + 1) * s - q * s
    BY <1>2 DEF Base
<1>. HIDE DEF q, s, d
<1>4. (i + 1) * s - q * s = ((i + 1) - q) * s
    BY <1>1, <1>2
<1>5. (q * s) \div s = q
    BY <1>1, <1>2
<1>6. (i + 1) - q \in 0 .. (HEAP_SIZE \div s) - 1
    BY <1>1, <1>2, <1>5
<1>. QED BY <1>3, <1>4, <1>6 DEF s

\* Every request is rounded up as the abstract heap does.
LEMMA RoundedIsSizeOf ==
    \A n \in Nat : n <= HEAP_SIZE => Abstract!Rounded(n) = SizeOf(n)
<1>. SUFFICES ASSUME NEW n \in Nat, n <= HEAP_SIZE PROVE Abstract!Rounded(n) = SizeOf(n)
    OBVIOUS
<1> DEFINE Fit(m) == m >= n /\ (m > HEAP_SIZE_MIN => m \div 2 < n)
<1>1. Abstract!Rounded(n) = CHOOSE m \in Sizes : Fit(m)
    <2>1. Abstract!Pow2 = Pow2
        BY Zenon DEF Pow2, Abstract!Pow2
    <2>. QED BY <2>1, SizesAgree DEF Abstract!Rounded, Sizes
<1>2. SizeOf(n) \in Sizes /\ Fit(SizeOf(n))
    BY SizeOfLeast, SizesNat
<1>3. ASSUME NEW x \in Sizes, NEW y \in Sizes, Fit(x), Fit(y), x < y PROVE FALSE
    <2>1. x \in Nat /\ y \in Nat /\ HEAP_SIZE_MIN <= x /\ HEAP_SIZE_MIN \in Nat /\ 2 * x <= y
        BY <1>3, SizesNat
    <2>. QED BY <1>3, <2>1
<1>4. \A x \in Sizes : Fit(x) => x = SizeOf(n)
    <2>. SUFFICES ASSUME NEW x \in Sizes, Fit(x), x # SizeOf(n) PROVE FALSE
        OBVIOUS
    <2>1. x \in Nat /\ SizeOf(n) \in Nat
        BY <1>2, SizesNat
    <2>2. x < SizeOf(n) \/ SizeOf(n) < x
        BY <2>1
    <2>. HIDE DEF Fit
    <2>. QED BY <1>2, <1>3, <2>2
<1>. HIDE DEF Fit
<1>5. Abstract!Rounded(n) \in Sizes /\ Fit(Abstract!Rounded(n))
    BY <1>1, <1>2
<1>. QED BY <1>4, <1>5

-----------------------------------------------------------------------------
(* The sum heap_stats is measured by                                         *)

\* The fold of the library over sets, as a function on the subsets of U.
Pick(s) == CHOOSE x \in s : TRUE
IsSum(f, U) == f = [s \in SUBSET U |-> IF s = {} THEN 0 ELSE (Pick(s)).size + f[s \ {Pick(s)}]]
SumOver(U) == CHOOSE f : IsSum(f, U)

\* Its value for a set.
LEMMA TotalIsSum ==
    \A B : Abstract!TotalSize(B) = SumOver(B)[B]
BY Zenon DEF Abstract!TotalSize, Abstract!MapThenSumSet, Abstract!MapThenFoldSet, SumOver, IsSum, Pick

\* Of finitely many things with a size.
SizedSet(U) == IsFiniteSet(U) /\ \A x \in U : x.size \in Nat

\* The first element to be added.
LEMMA PickIn == \A s : s # {} => Pick(s) \in s
BY DEF Pick

\* Fewer elements.
LEMMA LessOne ==
    ASSUME NEW U, IsFiniteSet(U), NEW s \in SUBSET U, NEW x \in s
    PROVE  /\ Cardinality(s) \in Nat \ {0} /\ Cardinality(s \ {x}) = Cardinality(s) - 1
           /\ s \ {x} \in SUBSET U
<1>1. IsFiniteSet(s)
    BY FS_Subset
<1>2. Cardinality(s) \in Nat /\ Cardinality(s) # 0
    BY <1>1, FS_CardinalityType, FS_EmptySet
<1>3. Cardinality(s \ {x}) = Cardinality(s) - 1
    BY <1>1, FS_RemoveElement
<1>. QED BY <1>2, <1>3

\* There is such a function, by induction on the number of elements.
LEMMA SumExists ==
    ASSUME NEW U, IsFiniteSet(U)
    PROVE  IsSum(SumOver(U), U)
<1> DEFINE Upto(n) == {s \in SUBSET U : Cardinality(s) <= n}
           Adds(f, n) == f = [s \in Upto(n) |->
                                IF s = {} THEN 0 ELSE (Pick(s)).size + f[s \ {Pick(s)}]]
           S == {n \in Nat : \E f : Adds(f, n)}
<1>0. \A s \in SUBSET U : Cardinality(s) \in Nat /\ (Cardinality(s) = 0 => s = {})
    BY FS_Subset, FS_CardinalityType, FS_EmptySet
<1>1. 0 \in S
    <2>1. \A s \in Upto(0) : s = {}
        BY <1>0
    <2>2. Adds([s \in Upto(0) |-> 0], 0)
        BY <2>1
    <2>. QED BY <2>2
<1>2. ASSUME NEW n \in Nat, n \in S PROVE n + 1 \in S
    <2>1. PICK f : Adds(f, n)
        BY <1>2
    <2> DEFINE g == [s \in Upto(n + 1) |->
                       IF s = {} THEN 0 ELSE (Pick(s)).size + f[s \ {Pick(s)}]]
    <2>2. \A s \in Upto(n) : g[s] = f[s]
        <3>. SUFFICES ASSUME NEW s \in Upto(n) PROVE g[s] = f[s]
            OBVIOUS
        <3>1. s \in Upto(n + 1)
            BY <1>0
        <3>2. f[s] = IF s = {} THEN 0 ELSE (Pick(s)).size + f[s \ {Pick(s)}]
            BY <2>1, Zenon
        <3>. QED BY <3>1, <3>2, Zenon
    <2>3. \A s \in Upto(n + 1) : s # {} => g[s \ {Pick(s)}] = f[s \ {Pick(s)}]
        <3>. SUFFICES ASSUME NEW s \in Upto(n + 1), s # {} PROVE s \ {Pick(s)} \in Upto(n)
            BY <2>2
        <3>1. Pick(s) \in s
            BY PickIn
        <3>2. /\ Cardinality(s) \in Nat \ {0} /\ Cardinality(s \ {Pick(s)}) = Cardinality(s) - 1
              /\ s \ {Pick(s)} \in SUBSET U
            BY <3>1, LessOne
        <3>. QED BY <3>2
    <2>. HIDE DEF Upto
    <2>4. g = [s \in Upto(n + 1) |->
                       IF s = {} THEN 0 ELSE (Pick(s)).size + g[s \ {Pick(s)}]]
        BY <2>3
    <2>. HIDE DEF g
    <2>5. Adds(g, n + 1)
        BY <2>4, Zenon
    <2>. QED BY <2>5
<1>. HIDE DEF S
<1>3. Nat \subseteq S
    BY <1>1, <1>2, NatSetInduction
<1>4. Cardinality(U) \in S
    BY <1>3, FS_CardinalityType
<1>5. \E f : Adds(f, Cardinality(U))
    BY <1>4 DEF S
<1>6. Upto(Cardinality(U)) = SUBSET U
    BY FS_Subset
<1>7. \E f : IsSum(f, U)
    BY <1>5, <1>6, Zenon DEF IsSum
<1>. QED BY <1>7, Zenon DEF SumOver

\* So that it is the one SumOver stands for.
LEMMA SumStep ==
    ASSUME NEW U, IsFiniteSet(U)
    PROVE  /\ SumOver(U)[{}] = 0
           /\ \A s \in SUBSET U : s # {} =>
                 SumOver(U)[s] = (Pick(s)).size + SumOver(U)[s \ {Pick(s)}]
<1> DEFINE f == SumOver(U)
<1>1. f = [s \in SUBSET U |-> IF s = {} THEN 0 ELSE (Pick(s)).size + f[s \ {Pick(s)}]]
    BY SumExists, Zenon DEF IsSum
<1>. HIDE DEF f
<1>2. f[{}] = 0
    <2>1. {} \in SUBSET U
        OBVIOUS
    <2>. QED BY <1>1, <2>1, Zenon
<1>3. \A s \in SUBSET U : s # {} => f[s] = (Pick(s)).size + f[s \ {Pick(s)}]
    BY <1>1, Zenon
<1>. QED BY <1>2, <1>3 DEF f

\* A sum does not depend on the set it is taken within, and is a number.
LEMMA SumWithin ==
    ASSUME NEW U, SizedSet(U), NEW V \in SUBSET U
    PROVE  \A s \in SUBSET V : SumOver(U)[s] = SumOver(V)[s] /\ SumOver(U)[s] \in Nat
<1> DEFINE S == {n \in Nat : \A s \in SUBSET V : Cardinality(s) <= n =>
                               SumOver(U)[s] = SumOver(V)[s] /\ SumOver(U)[s] \in Nat}
<1>0. /\ IsFiniteSet(U) /\ IsFiniteSet(V)
      /\ \A s \in SUBSET V : Cardinality(s) \in Nat /\ (Cardinality(s) = 0 => s = {})
    BY FS_Subset, FS_CardinalityType, FS_EmptySet DEF SizedSet
<1>1. 0 \in S
    <2>1. SumOver(U)[{}] = 0 /\ SumOver(V)[{}] = 0
        BY <1>0, SumStep
    <2>2. \A s \in SUBSET V : Cardinality(s) <= 0 => s = {}
        BY <1>0
    <2>. QED BY <2>1, <2>2
<1>2. ASSUME NEW n \in Nat, n \in S PROVE n + 1 \in S
    <2>. SUFFICES ASSUME NEW s \in SUBSET V, Cardinality(s) <= n + 1
                  PROVE  SumOver(U)[s] = SumOver(V)[s] /\ SumOver(U)[s] \in Nat
        OBVIOUS
    <2>1. CASE s = {}
        BY <1>0, <2>1, SumStep
    <2>2. CASE s # {}
        <3> DEFINE x == Pick(s)
        <3>1. x \in s
            BY <2>2, PickIn
        <3>. HIDE DEF x
        <3>2. /\ Cardinality(s) \in Nat \ {0} /\ Cardinality(s \ {x}) = Cardinality(s) - 1
              /\ s \ {x} \in SUBSET V
            BY <1>0, <3>1, LessOne
        <3>3. SumOver(U)[s \ {x}] = SumOver(V)[s \ {x}] /\ SumOver(U)[s \ {x}] \in Nat
            BY <1>2, <3>2
        <3>4. SumOver(U)[s] = x.size + SumOver(U)[s \ {x}]
            BY <1>0, <2>2, SumStep DEF x
        <3>5. SumOver(V)[s] = x.size + SumOver(V)[s \ {x}]
            BY <1>0, <2>2, SumStep DEF x
        <3>6. x.size \in Nat
            BY <3>1 DEF SizedSet
        <3>. QED BY <3>3, <3>4, <3>5, <3>6
    <2>. QED BY <2>1, <2>2
<1>. HIDE DEF S
<1>3. Nat \subseteq S
    BY <1>1, <1>2, NatSetInduction
<1>. SUFFICES ASSUME NEW s \in SUBSET V
              PROVE  SumOver(U)[s] = SumOver(V)[s] /\ SumOver(U)[s] \in Nat
    OBVIOUS
<1>4. Cardinality(s) \in S /\ Cardinality(s) <= Cardinality(s)
    BY <1>0, <1>3
<1>. QED BY <1>4 DEF S

\* Any element may be added last.
LEMMA SumAnyLast ==
    ASSUME NEW U, SizedSet(U)
    PROVE  \A s \in SUBSET U : \A x \in s : SumOver(U)[s] = x.size + SumOver(U)[s \ {x}]
<1> DEFINE f == SumOver(U)
           S == {n \in Nat : \A s \in SUBSET U : Cardinality(s) <= n =>
                               \A x \in s : f[s] = x.size + f[s \ {x}]}
<1>0. IsFiniteSet(U) /\ \A s \in SUBSET U : Cardinality(s) \in Nat /\ (Cardinality(s) = 0 => s = {})
    BY FS_Subset, FS_CardinalityType, FS_EmptySet DEF SizedSet
<1>t. \A s \in SUBSET U : f[s] \in Nat
    BY SumWithin
<1>1. 0 \in S
    BY <1>0
<1>2. ASSUME NEW n \in Nat, n \in S PROVE n + 1 \in S
    <2>. SUFFICES ASSUME NEW s \in SUBSET U, Cardinality(s) <= n + 1
                  PROVE  \A x \in s : f[s] = x.size + f[s \ {x}]
        OBVIOUS
    <2>. SUFFICES ASSUME NEW x \in s PROVE f[s] = x.size + f[s \ {x}]
        OBVIOUS
    <2> DEFINE y == Pick(s)
               r == (s \ {x}) \ {y}
    <2>1. y \in s
        BY PickIn
    <2>2. f[s] = y.size + f[s \ {y}]
        BY <1>0, SumStep
    <2>. HIDE DEF y, f
    <2>3. CASE x = y
        BY <2>2, <2>3
    <2>4. CASE x # y
        <3>1. /\ s \ {x} \in SUBSET U /\ s \ {y} \in SUBSET U /\ y \in s \ {x} /\ x \in s \ {y}
              /\ Cardinality(s \ {x}) <= n /\ Cardinality(s \ {y}) <= n
            BY <1>0, <2>1, <2>4, LessOne
        <3>2. f[s \ {x}] = y.size + f[(s \ {x}) \ {y}]
            BY <1>2, <3>1
        <3>3. f[s \ {y}] = x.size + f[(s \ {y}) \ {x}]
            BY <1>2, <3>1
        <3>4. (s \ {x}) \ {y} = (s \ {y}) \ {x} /\ r \in SUBSET U
            OBVIOUS
        <3>5. f[r] \in Nat /\ x.size \in Nat /\ y.size \in Nat
            BY <1>t, <2>1, <3>4 DEF SizedSet
        <3>6. \A a, b, c, d, e \in Nat : a = b + c /\ c = d + e => a = d + (b + e)
            OBVIOUS
        <3>7. f[s] \in Nat /\ f[s \ {x}] \in Nat /\ f[s \ {y}] \in Nat
            BY <1>t, <3>1
        <3>8. f[s \ {y}] = x.size + f[r] /\ f[s \ {x}] = y.size + f[r]
            BY <3>2, <3>3, <3>4, Zenon
        <3>9. f[s] = x.size + (y.size + f[r])
            BY <2>2, <3>5, <3>6, <3>7, <3>8
        <3>. QED BY <3>8, <3>9
    <2>. QED BY <2>3, <2>4
<1>. HIDE DEF S
<1>3. Nat \subseteq S
    BY <1>1, <1>2, NatSetInduction
<1>. SUFFICES ASSUME NEW s \in SUBSET U, NEW x \in s PROVE f[s] = x.size + f[s \ {x}]
    OBVIOUS
<1>4. Cardinality(s) \in S /\ Cardinality(s) <= Cardinality(s)
    BY <1>0, <1>3
<1>. QED BY <1>4 DEF S

\* The sum of nothing, and of one block more.
LEMMA TotalEmpty == Abstract!TotalSize({}) = 0
BY TotalIsSum, SumStep, FS_EmptySet

LEMMA TotalAdd ==
    ASSUME NEW B, NEW x, x \notin B, SizedSet(B \cup {x})
    PROVE  Abstract!TotalSize(B \cup {x}) = Abstract!TotalSize(B) + x.size
<1> DEFINE U == B \cup {x}
<1>1. B \in SUBSET U /\ U \in SUBSET U /\ U \ {x} = B /\ x \in U
    OBVIOUS
<1>. HIDE DEF U
<1>2. SumOver(U)[U] = x.size + SumOver(U)[U \ {x}]
    BY <1>1, SumAnyLast DEF U
<1>3. SumOver(U)[B] = SumOver(B)[B] /\ SumOver(U)[B] \in Nat
    BY <1>1, SumWithin DEF U
<1>4. x.size \in Nat
    BY <1>1 DEF SizedSet, U
<1>5. Abstract!TotalSize(U) = SumOver(U)[U] /\ Abstract!TotalSize(B) = SumOver(B)[B]
    BY TotalIsSum
<1>6. Abstract!TotalSize(U) = Abstract!TotalSize(B) + x.size
    <2>1. Abstract!TotalSize(U) = x.size + Abstract!TotalSize(B)
        BY <1>1, <1>2, <1>3, <1>5, Zenon
    <2>2. Abstract!TotalSize(B) \in Nat
        BY <1>3, <1>5, Zenon
    <2>. QED BY <1>4, <2>1, <2>2
<1>. QED BY <1>6 DEF U

-----------------------------------------------------------------------------
(* What a walk has found out                                                 *)

\* No block of size s is free up to n.
Taken(s, n) ==
    \A k \in Nat : k * s + s <= n => \E j \in Leaves : k * s < End(j) /\ Base(j) < k * s + s

\* No block that ends by n begins at p.
NotThere(p, n) == \A j \in Leaves : End(j) <= n => heap_tree[j] # p

\* The blocks that end by n.
Counted(n) == {Block(j) : j \in {k \in Leaves : End(k) <= n}}

\* malloc has passed no free block of the size it looks for; find_ptr not the one
\* it looks for, and once that is cleared it is gone; heap_stats has added up the
\* blocks it has passed.
MallocPassed == Mallocs => Taken(SizeOf(call.arg), Reached(walk))

FreePassed == call.op = "free" =>
    IF walk.merging
    THEN /\ \A j \in Leaves : heap_tree[j] # call.arg
         /\ walk.i # 0 => heap_tree[Parent(walk.i)] = BRANCH_NODE
    ELSE Tracked(walk) /\ NotThere(call.arg, Reached(walk))

StatsPassed == call.op = "stats" => walk.used = Abstract!TotalSize(Counted(Reached(walk)))

\* With HeapInv, the inductive invariant the refinement rests on.
PassedInv == LeafAddr /\ MallocPassed /\ FreePassed /\ StatsPassed

\* A step keeps that, and is one of the abstract heap or changes none of its state.
Simulates == PassedInv' /\ [Abstract!Next]_(Abstract!vars)

\* A step of a walk, which changes no block.
LEMMA GoOnPassed ==
    ASSUME HeapInv, PassedInv, \A i \in Node : Leaf(i) \/ Leaf(i)' => heap_tree'[i] = heap_tree[i],
           NEW w, Goto(w), ~w.merging,
           Mallocs => Taken(SizeOf(call.arg), Reached(w)),
           call.op = "free" => Tracked(w) /\ NotThere(call.arg, Reached(w)),
           call.op = "stats" => w.used = Abstract!TotalSize(Counted(Reached(w)))
    PROVE  Simulates
<1>1. /\ Leaves' = Leaves /\ LeafAddr' /\ Blocks' = Blocks
      /\ walk' = w /\ call' = call /\ ret' = ret
      /\ \A j \in Leaves : heap_tree'[j] = heap_tree[j]
    BY SameLeaves DEF PassedInv, Goto, Leaves
<1>2. Reached(walk)' = Reached(w) /\ SizeOf(call.arg)' = SizeOf(call.arg)
    BY <1>1 DEF Reached, Base, SizeAt, Past
<1>3. MallocPassed'
    <2>1. ASSUME NEW s, NEW n, Taken(s, n) PROVE Taken(s, n)'
        BY <1>1, <2>1 DEF Taken, End, Base, SizeAt
    <2>. SUFFICES ASSUME Mallocs' PROVE Taken(SizeOf(call.arg), Reached(walk))'
        BY DEF MallocPassed
    <2>2. Mallocs
        BY <1>1 DEF Mallocs
    <2>. QED BY <1>2, <2>1, <2>2
<1>4. FreePassed'
    <2>1. ASSUME NEW p, NEW n, NotThere(p, n) PROVE NotThere(p, n)'
        BY <1>1, <2>1 DEF NotThere, End, Base, SizeAt
    <2>. SUFFICES ASSUME call.op = "free" PROVE Tracked(walk)' /\ NotThere(call.arg, Reached(walk))'
        BY <1>1 DEF FreePassed
    <2>2. Tracked(walk)'
        BY <1>1 DEF Tracked, WalkType, SizeAt, Children
    <2>. QED BY <1>1, <1>2, <2>1, <2>2
<1>5. StatsPassed'
    <2>1. \A n : Counted(n)' = Counted(n)
        BY <1>1 DEF Counted, Block, End, Base, SizeAt
    <2>. SUFFICES ASSUME call.op = "stats"
                  PROVE  w.used = Abstract!TotalSize(Counted(Reached(walk)))'
        BY <1>1 DEF StatsPassed
    <2>2. Counted(Reached(walk))' = Counted(Reached(w))
        BY <1>2, <2>1
    <2>. QED BY <2>2
<1>6. [Abstract!Next]_(Abstract!vars)
    BY <1>1 DEF Abstract!vars
<1>. QED BY <1>1, <1>3, <1>4, <1>5, <1>6 DEF Simulates, PassedInv

\* The end of a call.
LEMMA ReturnPassed ==
    ASSUME LeafAddr', call' = Idle, Abstract!Next
    PROVE  Simulates
<1>1. Idle.op = "none"
    BY DEF Idle, Abstract!Idle
<1>. QED BY <1>1 DEF Simulates, PassedInv, MallocPassed, FreePassed, StatsPassed, Mallocs

\* The empty heap is the abstract one.
LEMMA InitPassed == Init => PassedInv /\ Abstract!Init
<1>. SUFFICES ASSUME Init PROVE PassedInv /\ Abstract!Init
    OBVIOUS
<1>1. Leaves = {}
    BY DEF Init, Leaves, Leaf
<1>2. Idle.op = "none" /\ call = Idle /\ ret = NULL
    BY DEF Idle, Abstract!Idle, Init
<1>3. PassedInv
    BY <1>1, <1>2 DEF PassedInv, LeafAddr, MallocPassed, FreePassed, StatsPassed, Mallocs
<1>4. Blocks = {}
    BY <1>1 DEF Blocks, Leaves
<1>. QED BY <1>2, <1>3, <1>4 DEF Abstract!Init, Idle

\* A call that begins has passed nothing.
LEMMA BeginPassed ==
    ASSUME HeapInv, PassedInv, Begin
    PROVE  Simulates
<1>1. /\ call' \in Abstract!Call /\ ret' = NULL /\ heap_tree' = heap_tree /\ walk' = walk
      /\ call = Idle /\ walk = AtRoot /\ TypeOK
    BY DEF Begin, HeapInv, WalkRest
<1>2. Leaves' = Leaves /\ LeafAddr' /\ Blocks' = Blocks
    BY <1>1, SameLeaves DEF PassedInv
<1>3. /\ Tracked(AtRoot) /\ Reached(AtRoot) = 0 /\ ~AtRoot.merging /\ AtRoot.used = 0
    <2>1. HEAP_SIZE \in Nat /\ SizeAt(0) = HEAP_SIZE
        BY SizesNat, SizeAtType
    <2>2. Base(0) = 0 /\ Past(AtRoot) = 0
        BY <2>1 DEF Base, Past, Left, Right, AtRoot
    <2>3. AtRoot.skip < Left(AtRoot.i) /\ AtRoot.i = 0
        BY DEF AtRoot, Left
    <2>. QED BY <2>2, <2>3, AtRootType DEF Tracked, Reached, AtRoot
<1>4. Reached(walk)' = 0
    BY <1>1, <1>3 DEF Reached, Base, SizeAt, Past
<1>5. MallocPassed'
    <2>. SUFFICES ASSUME Mallocs' PROVE Taken(SizeOf(call.arg), Reached(walk))'
        BY DEF MallocPassed
    <2>1. SizeOf(call'.arg) \in Nat \ {0}
        BY <1>1, CallParts, SizeOfLeast, SizesNat DEF Mallocs
    <2>2. ASSUME NEW s \in Nat \ {0} PROVE Taken(s, 0)'
        BY DEF Taken
    <2>. QED BY <1>4, <2>1, <2>2
<1>6. FreePassed'
    <2>1. \A p : NotThere(p, 0)'
        <3>1. \A j \in Leaves' : End(j) \in Nat \ {0}
            BY PartNat DEF Leaves
        <3>. QED BY <3>1 DEF NotThere
    <2>2. Tracked(walk)'
        BY <1>1, <1>3 DEF Tracked, WalkType, SizeAt, Children
    <2>. QED BY <1>1, <1>3, <1>4, <2>1, <2>2 DEF FreePassed
<1>7. StatsPassed'
    <2>1. Counted(0)' = {}
        <3>1. \A j \in Leaves' : End(j) \in Nat \ {0}
            BY PartNat DEF Leaves
        <3>. QED BY <3>1 DEF Counted
    <2>2. Counted(Reached(walk))' = {}
        BY <1>4, <2>1
    <2>. QED BY <1>1, <1>3, <2>2, TotalEmpty DEF StatsPassed
<1>8. Abstract!Begin
    BY <1>1, <1>2 DEF Abstract!Begin, Idle
<1>. QED BY <1>2, <1>5, <1>6, <1>7, <1>8 DEF Simulates, PassedInv, Abstract!Next

\* Past a block in use none is free, of any size.
LEMMA TakenOver ==
    ASSUME NEW s \in Nat \ {0}, NEW c \in Leaves, Taken(s, Base(c))
    PROVE  Taken(s, End(c))
<1>. SUFFICES ASSUME NEW k \in Nat, k * s + s <= End(c)
              PROVE  \E j \in Leaves : k * s < End(j) /\ Base(j) < k * s + s
    BY DEF Taken
<1>1. Base(c) \in Nat /\ End(c) \in Nat /\ k * s \in Nat
    BY PartNat DEF Leaves
<1>2. CASE k * s + s <= Base(c)
    BY <1>2 DEF Taken
<1>3. CASE Base(c) < k * s + s
    <2>1. k * s < End(c)
        BY <1>1
    <2>. QED BY <1>3, <2>1
<1>. QED BY <1>1, <1>2, <1>3

\* What holds up to n holds up to less.
LEMMA TakenLess ==
    ASSUME NEW s \in Nat, NEW n \in Nat, NEW m \in Nat, m <= n, Taken(s, n)
    PROVE  Taken(s, m)
<1>. SUFFICES ASSUME NEW k \in Nat, k * s + s <= m
              PROVE  \E j \in Leaves : k * s < End(j) /\ Base(j) < k * s + s
    BY DEF Taken
<1>1. k * s \in Nat
    OBVIOUS
<1>2. k * s + s <= n
    BY <1>1
<1>. QED BY <1>2 DEF Taken

\* Past a node of size s in use none of that size is free: the only one that
\* ends in its part is that part.
LEMMA TakenOverUsed ==
    ASSUME TypeOK, TreeShape, AllExact, NEW c \in Node, heap_tree[c] # NULL, Taken(SizeAt(c), Base(c))
    PROVE  Taken(SizeAt(c), End(c))
<1> DEFINE s == SizeAt(c)
<1>. SUFFICES ASSUME NEW k \in Nat, k * s + s <= End(c)
              PROVE  \E j \in Leaves : k * s < End(j) /\ Base(j) < k * s + s
    BY DEF Taken
<1>1. Base(c) \in Nat /\ End(c) = Base(c) + s /\ s \in Nat \ {0} /\ k * s \in Nat
    BY PartNat DEF End
<1>2. CASE k * s + s <= Base(c)
    BY <1>2 DEF Taken
<1>3. CASE Base(c) < k * s + s
    <2>1. PICK m \in Nat : Base(c) = m * s
        <3>1. HEAP_SIZE \div s \in Nat
            BY <1>1, PartNat
        <3>. QED BY <3>1, BaseAligned
    <2>. HIDE DEF s
    <2>2. k = m
        <3>1. m * s \in Nat
            BY <1>1
        <3>2. CASE k < m
            <4>1. (k + 1) * s <= m * s
                BY <1>1, <3>2, Scaling
            <4>2. (k + 1) * s = k * s + s
                BY <1>1
            <4>. QED BY <1>3, <2>1, <3>1, <4>1, <4>2, <1>1
        <3>3. CASE m < k
            <4>1. (m + 1) * s <= k * s
                BY <1>1, <3>3, Scaling
            <4>2. (m + 1) * s = m * s + s
                BY <1>1
            <4>. QED BY <1>1, <2>1, <3>1, <4>1, <4>2
        <3>. QED BY <3>2, <3>3
    <2>3. PICK j \in Node : Leaf(j) /\ Base(c) <= Base(j) /\ End(j) <= End(c)
        BY LeafWithin
    <2>4. Base(j) \in Nat /\ End(j) \in Nat /\ Base(j) < End(j)
        BY PartNat
    <2>5. k * s < End(j) /\ Base(j) < k * s + s
        BY <1>1, <2>1, <2>2, <2>3, <2>4
    <2>. QED BY <2>3, <2>5 DEF Leaves
<1>. QED BY <1>1, <1>2, <1>3

\* Two blocks overlap or their parts are apart.
LEMMA OverlapIs ==
    \A i, j \in Node : Abstract!Overlap(Block(i), Block(j)) <=> ~Apart(i, j)
<1>. SUFFICES ASSUME NEW i \in Node, NEW j \in Node
              PROVE  Abstract!Overlap(Block(i), Block(j)) <=> ~Apart(i, j)
    OBVIOUS
<1>1. /\ Base(i) \in Nat /\ Base(j) \in Nat /\ SizeAt(i) \in Nat /\ SizeAt(j) \in Nat
    BY PartNat
<1>2. /\ Block(i).addr = Base(i) /\ Block(i).size = SizeAt(i)
      /\ Block(j).addr = Base(j) /\ Block(j).size = SizeAt(j)
    BY DEF Block
<1>. QED BY <1>1, <1>2 DEF Abstract!Overlap, Apart, End

\* Once no block of the size asked for is free to the end, malloc may refuse.
LEMMA NoneFree ==
    ASSUME LeafAddr, NEW s \in Nat \ {0}, Taken(s, HEAP_SIZE)
    PROVE  Abstract!Free(s) = {}
<1>. SUFFICES ASSUME NEW b \in Abstract!Free(s) PROVE FALSE
    OBVIOUS
<1>0. HEAP_SIZE \in Nat /\ Abstract!HEAP_SIZE = HEAP_SIZE
    BY SizesNat, SizesAgree
<1>1. PICK k \in 0 .. (HEAP_SIZE \div s) - 1 : b.addr = k * s /\ b.size = s
    BY <1>0 DEF Abstract!Free
<1>2. \A c \in Blocks : ~Abstract!Overlap(b, c)
    BY DEF Abstract!Free
<1>3. k \in Nat /\ HEAP_SIZE \div s \in Nat /\ k + 1 <= HEAP_SIZE \div s
    BY <1>0
<1>4. (k + 1) * s <= (HEAP_SIZE \div s) * s
    BY <1>3, Scaling
<1>5. (HEAP_SIZE \div s) * s <= HEAP_SIZE
    <2>1. HEAP_SIZE = s * (HEAP_SIZE \div s) + (HEAP_SIZE % s) /\ (HEAP_SIZE % s) \in Nat
        BY <1>0
    <2>2. s * (HEAP_SIZE \div s) = (HEAP_SIZE \div s) * s /\ (HEAP_SIZE \div s) * s \in Nat
        BY <1>3
    <2>. QED BY <1>0, <2>1, <2>2
<1>6. k * s + s <= HEAP_SIZE
    <2>1. (k + 1) * s = k * s + s /\ k * s \in Nat /\ (HEAP_SIZE \div s) * s \in Nat
        BY <1>3
    <2>. QED BY <1>0, <1>4, <1>5, <2>1
<1>7. PICK j \in Leaves : k * s < End(j) /\ Base(j) < k * s + s
    BY <1>3, <1>6 DEF Taken
<1>8. Block(j) \in Blocks /\ Block(j).addr = Base(j) /\ Base(j) + Block(j).size = End(j)
    BY BlocksAre DEF Block, End
<1>9. Abstract!Overlap(b, Block(j))
    BY <1>1, <1>7, <1>8 DEF Abstract!Overlap
<1>. QED BY <1>2, <1>8, <1>9

\* malloc refuses what is too large.
LEMMA MallocTooLargePassed ==
    ASSUME HeapInv, PassedInv, MallocTooLarge
    PROVE  Simulates
<1>1. /\ call.op = "malloc" /\ call.arg > HEAP_SIZE /\ ret' = NULL /\ call' = Idle
      /\ heap_tree' = heap_tree
    BY DEF MallocTooLarge, Done
<1>2. LeafAddr' /\ Blocks' = Blocks
    BY <1>1, SameLeaves DEF PassedInv
<1>3. ~Abstract!Fits
    <2>1. call.arg \in Nat
        BY <1>1, CallParts, TypeParts DEF HeapInv
    <2>. QED BY <1>1, <2>1, SizesNat, SizesAgree DEF Abstract!Fits
<1>4. Abstract!Refuse
    BY <1>1, <1>2, <1>3 DEF Abstract!Refuse, Idle
<1>. QED BY <1>1, <1>2, <1>4, ReturnPassed DEF Abstract!Next

\* What a malloc knows of the part of the heap it has passed.
LEMMA MallocTracked ==
    ASSUME HeapInv, PassedInv, Mallocs
    PROVE  /\ Tracked(walk) /\ ~walk.merging /\ LeafAddr
           /\ SizeOf(call.arg) \in Nat \ {0}
           /\ Taken(SizeOf(call.arg), Reached(walk))
           /\ call.op # "free" /\ call.op # "stats"
<1>1. Tracked(walk) /\ ~walk.merging
    BY MallocWalk DEF HeapInv, WalkMalloc, Tracked, SkipBehind
<1>2. SizeOf(call.arg) \in Nat \ {0} /\ call.op = "malloc"
    BY MallocWalk, SizesNat
<1>. QED BY <1>1, <1>2 DEF PassedInv, MallocPassed

\* The steps of malloc.
LEMMA MallocOccupiedPassed ==
    ASSUME ModestRequests, HeapInv, PassedInv, MallocOccupied
    PROVE  Simulates
<1>1. /\ Mallocs /\ walk.block_size = SizeOf(call.arg) /\ heap_tree[walk.i] # NULL
      /\ Goto(Up(walk)) /\ heap_tree' = heap_tree
      /\ TypeOK /\ TreeShape /\ OneStale
    BY DEF MallocOccupied, HeapInv
<1>2. walk.i # 0 /\ walk.i \in Node /\ SizeAt(walk.i) = SizeOf(call.arg)
    BY <1>1, ModestSize, MallocWalk, SizeAtType
<1>3. AllExact
    BY <1>1, NoneStale
<1>4. /\ Tracked(walk) /\ ~walk.merging /\ SizeOf(call.arg) \in Nat \ {0}
      /\ Taken(SizeOf(call.arg), Reached(walk)) /\ call.op # "free" /\ call.op # "stats"
    BY <1>1, MallocTracked
<1>5. Taken(SizeOf(call.arg), Base(walk.i))
    <2>1. Base(walk.i) \in Nat /\ Reached(walk) \in Nat /\ Base(walk.i) <= Reached(walk)
        BY <1>2, <1>4, PartNat, ReachedBounds
    <2>. QED BY <1>4, <2>1, TakenLess
<1>6. Taken(SizeOf(call.arg), End(walk.i))
    BY <1>1, <1>2, <1>3, <1>5, TakenOverUsed
<1>7. Reached(Up(walk)) = End(walk.i) /\ ~Up(walk).merging
    BY <1>2, <1>4, ReachedUp, MoveUp DEF Tracked
<1>8. \A i \in Node : heap_tree'[i] = heap_tree[i]
    BY <1>1
<1>. QED BY <1>1, <1>4, <1>6, <1>7, <1>8, GoOnPassed

LEMMA MallocTakePassed ==
    ASSUME HeapInv, PassedInv, MallocTake
    PROVE  Simulates
<1> DEFINE i == walk.i
<1>1. /\ Mallocs /\ walk.block_size = SizeOf(call.arg) /\ heap_tree[i] = NULL
      /\ heap_tree' = [heap_tree EXCEPT ![i] = Address(i, walk.block_size)]
      /\ ret' = Address(i, walk.block_size) /\ call' = Idle
      /\ TypeOK /\ TreeShape /\ LeafAddr
    BY DEF MallocTake, HeapInv, PassedInv, Done
<1>2. /\ i \in Node /\ SizeAt(i) = SizeOf(call.arg) /\ call.op = "malloc"
      /\ call.arg \in Nat /\ call.arg <= HEAP_SIZE
      /\ i # 0 => heap_tree[Parent(i)] = BRANCH_NODE
      /\ heap_tree \in [Node -> 0 .. HEAP_SIZE - 1 \cup {NULL, BRANCH_NODE}]
    BY <1>1, MallocWalk, TypeParts
<1>3. Address(i, walk.block_size) = Base(i) /\ Base(i) \in Nat
    BY <1>1, <1>2, AddressIsBase, PartNat
<1>. HIDE DEF i
<1>4. heap_tree'[i] = Base(i) /\ \A j \in Node : j # i => heap_tree'[j] = heap_tree[j]
    BY <1>1, <1>2, <1>3
<1>5. Leaves' = Leaves \cup {i} /\ i \notin Leaves
    <2>1. Base(i) \notin {NULL, BRANCH_NODE}
        BY <1>3, HeapAssumption
    <2>. QED BY <1>1, <1>2, <1>4, <2>1 DEF Leaves, Leaf
<1>6. LeafAddr'
    <2>1. \A j \in Leaves' : heap_tree'[j] = Base(j)
        BY <1>1, <1>4, <1>5 DEF LeafAddr, Leaves
    <2>. QED BY <2>1 DEF LeafAddr, Base, SizeAt
<1>7. Blocks' = Blocks \cup {Block(i)}
    BY <1>1, <1>5, <1>6, BlocksAre, BlocksNext
<1>8. Block(i) \in Abstract!Free(Abstract!Rounded(call.arg))
    <2>1. Abstract!Rounded(call.arg) = SizeAt(i)
        BY <1>2, RoundedIsSizeOf
    <2>2. PICK k \in 0 .. (HEAP_SIZE \div SizeAt(i)) - 1 : Base(i) = k * SizeAt(i)
        BY <1>2, BaseAligned
    <2>3. Block(i) \in [addr : {n * SizeAt(i) : n \in 0 .. (HEAP_SIZE \div SizeAt(i)) - 1},
                        size : {SizeAt(i)}]
        BY <2>2 DEF Block
    <2>4. ASSUME NEW b \in Blocks PROVE ~Abstract!Overlap(Block(i), b)
        <3>1. PICK j \in Leaves : b = Block(j)
            BY <1>1, BlocksAre
        <3>2. Apart(j, i)
            BY <1>1, <1>2, <1>5, <3>1, HeapAssumption, LeafApart DEF Leaves
        <3>3. Apart(i, j)
            BY <3>2 DEF Apart
        <3>. QED BY <1>2, <3>1, <3>3, OverlapIs DEF Leaves
    <2>. QED BY <2>1, <2>3, <2>4, SizesAgree DEF Abstract!Free
<1>9. Abstract!Grant
    <2>1. Abstract!Fits
        BY <1>2, SizesAgree DEF Abstract!Fits
    <2>2. ret' = Block(i).addr
        BY <1>1, <1>3 DEF Block, i
    <2>. QED BY <1>1, <1>7, <1>8, <2>1, <2>2 DEF Abstract!Grant, Idle
<1>. QED BY <1>1, <1>6, <1>9, ReturnPassed DEF Abstract!Next

LEMMA MallocDescendPassed ==
    ASSUME HeapInv, PassedInv, MallocDescend
    PROVE  Simulates
<1> DEFINE i == walk.i
           s == SizeOf(call.arg)
           leftDone == Leaf(Left(i)) \/ Left(i) = walk.skip
           rightDone == Right(i) = walk.skip \/ (leftDone /\ Leaf(Right(i)))
<1>1. /\ Mallocs
      /\ \/ rightDone /\ i = 0 /\ Done(NULL)
         \/ rightDone /\ i # 0 /\ Goto(Up(walk))
         \/ ~rightDone /\ leftDone /\ Goto(DownRight(walk))
         \/ ~rightDone /\ ~leftDone /\ Goto(DownLeft(walk))
    BY DEF MallocDescend
<1>2. /\ Left(i) \in Node /\ heap_tree[i] \in {NULL, BRANCH_NODE} /\ heap_tree'[i] = BRANCH_NODE
      /\ \A j \in Node : j # i => heap_tree'[j] = heap_tree[j]
    BY MallocMark
<1>3. \A j \in Node : Leaf(j) \/ Leaf(j)' => heap_tree'[j] = heap_tree[j]
    <2>1. ~Leaf(i)
        BY <1>2 DEF Leaf
    <2>2. ASSUME NEW j \in Node, j = i PROVE ~Leaf(j)'
        BY <1>2, <2>2 DEF Leaf
    <2>. HIDE DEF i
    <2>. QED BY <1>2, <2>1, <2>2
<1>4. /\ Tracked(walk) /\ ~walk.merging /\ LeafAddr /\ s \in Nat \ {0} /\ Taken(s, Reached(walk))
      /\ call.op # "free" /\ call.op # "stats" /\ i \in Node
      /\ call.op = "malloc" /\ call.arg \in Nat /\ call.arg <= HEAP_SIZE
    BY <1>1, MallocTracked, MallocWalk
<1>5. /\ Right(i) \in Node
      /\ Base(Left(i)) = Base(i) /\ End(Left(i)) = Base(Right(i)) /\ End(Right(i)) = End(i)
      /\ walk.skip = Right(i) => Reached(walk) = End(i)
      /\ walk.skip = Left(i) => Reached(walk) = Base(Right(i))
    BY <1>2, <1>4, ReachedIs
<1>6. Taken(s, Base(i))
    <2>1. Base(i) \in Nat /\ Reached(walk) \in Nat /\ Base(i) <= Reached(walk)
        BY <1>4, PartNat, ReachedBounds
    <2>. HIDE DEF i, s
    <2>. QED BY <1>4, <2>1, TakenLess
<1>. HIDE DEF i, s
<1>7. leftDone => Taken(s, Base(Right(i)))
    BY <1>2, <1>4, <1>5, <1>6, TakenOver DEF Leaves
<1>8. rightDone => Taken(s, End(i))
    BY <1>2, <1>4, <1>5, <1>7, TakenOver DEF Leaves
<1>9. CASE rightDone /\ i = 0 /\ Done(NULL)
    <2>1. call' = Idle /\ ret' = NULL
        BY <1>9 DEF Done
    <2>2. End(0) = HEAP_SIZE
        BY SizeAtType, SizesNat DEF End, Base
    <2>3. Abstract!Free(Abstract!Rounded(call.arg)) = {}
        BY <1>4, <1>8, <1>9, <2>2, NoneFree, RoundedIsSizeOf DEF s
    <2>4. LeafAddr' /\ Blocks' = Blocks
        BY <1>3, <1>4, SameLeaves
    <2>5. Abstract!Refuse
        BY <1>4, <2>1, <2>3, <2>4 DEF Abstract!Refuse, Idle
    <2>. QED BY <2>1, <2>4, <2>5, ReturnPassed DEF Abstract!Next
<1>10. CASE rightDone /\ i # 0 /\ Goto(Up(walk))
    <2>1. Reached(Up(walk)) = End(i) /\ ~Up(walk).merging
        BY <1>4, <1>10, ReachedUp, MoveUp DEF Tracked, i
    <2>. QED BY <1>3, <1>4, <1>8, <1>10, <2>1, GoOnPassed DEF s
<1>11. CASE ~rightDone /\ leftDone /\ Goto(DownRight(walk))
    <2>1. Reached(DownRight(walk)) = Base(Right(i)) /\ ~DownRight(walk).merging
        BY <1>2, <1>4, <1>11, ReachedDown, MoveDown DEF Tracked, i
    <2>. QED BY <1>3, <1>4, <1>7, <1>11, <2>1, GoOnPassed DEF s
<1>12. CASE ~rightDone /\ ~leftDone /\ Goto(DownLeft(walk))
    <2>1. Reached(DownLeft(walk)) = Base(i) /\ ~DownLeft(walk).merging
        BY <1>2, <1>4, <1>12, ReachedDown, MoveDown DEF Tracked, i
    <2>. QED BY <1>3, <1>4, <1>6, <1>12, <2>1, GoOnPassed DEF s
<1>. QED BY <1>1, <1>9, <1>10, <1>11, <1>12

\* What ends by the end of a part that holds one block or none ends before the
\* part or is that block.
LEMMA EndsBefore ==
    ASSUME TreeShape, NEW c \in Node, heap_tree[c] # BRANCH_NODE,
           c # 0 => heap_tree[Parent(c)] = BRANCH_NODE
    PROVE  \A j \in Leaves : End(j) <= End(c) => j = c \/ End(j) <= Base(c)
<1>. SUFFICES ASSUME NEW j \in Leaves, End(j) <= End(c), j # c PROVE End(j) <= Base(c)
    OBVIOUS
<1>1. Apart(j, c)
    BY LeafApart DEF Leaves
<1>2. /\ Base(j) \in Nat /\ End(j) \in Nat /\ Base(j) < End(j)
      /\ Base(c) \in Nat /\ End(c) \in Nat
    BY PartNat DEF Leaves
<1>. QED BY <1>1, <1>2 DEF Apart

\* So find_ptr is done with a part it has looked at the block of.
LEMMA NotThereOver ==
    ASSUME TreeShape, NEW c \in Node, heap_tree[c] # BRANCH_NODE,
           c # 0 => heap_tree[Parent(c)] = BRANCH_NODE,
           NEW p, c \in Leaves => heap_tree[c] # p, NEW n \in Nat, Base(c) <= n, NotThere(p, n)
    PROVE  NotThere(p, End(c))
<1>. SUFFICES ASSUME NEW j \in Leaves, End(j) <= End(c) PROVE heap_tree[j] # p
    BY DEF NotThere
<1>1. CASE j = c
    BY <1>1
<1>2. CASE End(j) <= Base(c)
    <2>1. End(j) \in Nat /\ Base(c) \in Nat
        BY PartNat DEF Leaves
    <2>2. End(j) <= n
        BY <1>2, <2>1
    <2>. QED BY <2>2 DEF NotThere
<1>. QED BY <1>1, <1>2, EndsBefore

\* The addresses of blocks tell them apart.
LEMMA AddressesDiffer ==
    ASSUME TreeShape, LeafAddr, NEW i \in Leaves, NEW j \in Leaves, i # j
    PROVE  heap_tree[i] # heap_tree[j]
<1>1. heap_tree[i] = Base(i) /\ heap_tree[j] = Base(j)
    BY DEF LeafAddr
<1>2. Apart(i, j)
    BY LeavesApart DEF Leaves
<1>3. /\ Base(i) \in Nat /\ End(i) \in Nat /\ Base(i) < End(i)
      /\ Base(j) \in Nat /\ End(j) \in Nat /\ Base(j) < End(j)
    BY PartNat DEF Leaves
<1>. QED BY <1>1, <1>2, <1>3 DEF Apart

\* A pointer that is no block's: free may return.
LEMMA MayReturn ==
    ASSUME LeafAddr, call.op = "free", \A j \in Leaves : heap_tree[j] # call.arg,
           call' = Idle, ret' = ret, heap_tree' = heap_tree
    PROVE  Simulates
<1>1. LeafAddr' /\ Blocks' = Blocks
    BY SameLeaves
<1>2. \A b \in Blocks : b.addr # call.arg
    <2>. SUFFICES ASSUME NEW j \in Leaves PROVE Block(j).addr # call.arg
        BY BlocksAre
    <2>. QED BY DEF LeafAddr, Block
<1>3. Abstract!Return
    BY <1>1, <1>2 DEF Abstract!Return, Idle
<1>. QED BY <1>1, <1>3, ReturnPassed DEF Abstract!Next

\* The steps of free.
LEMMA FreeEmptyPassed ==
    ASSUME HeapInv, PassedInv, FreeEmpty
    PROVE  Simulates
<1>1. /\ TreeShape /\ LeafAddr /\ heap_tree[0] = NULL
      /\ call.op = "free" /\ heap_tree' = heap_tree /\ ret' = ret /\ call' = Idle
    BY DEF HeapInv, PassedInv, FreeEmpty, Done
<1>2. Leaves = {}
    BY <1>1, AllFree DEF Leaves, Leaf
<1>. QED BY <1>1, <1>2, MayReturn

LEMMA FreeFoundPassed ==
    ASSUME HeapInv, PassedInv, FreeFound
    PROVE  Simulates
<1> DEFINE i == walk.i
           p == call.arg
<1>1. /\ TypeOK /\ TreeShape /\ RootInner /\ WalkFree /\ LeafAddr
      /\ call.op = "free" /\ ~walk.merging /\ heap_tree[0] # NULL /\ heap_tree[i] = p
    BY DEF HeapInv, PassedInv, FreeFound
<1>2. /\ walk \in WalkType /\ i \in Node
      /\ heap_tree \in [Node -> 0 .. HEAP_SIZE - 1 \cup {NULL, BRANCH_NODE}]
      /\ call \in Abstract!Call \cup {Idle}
    BY <1>1, TypeParts DEF WalkType
<1>3. p # NULL /\ p # BRANCH_NODE
    <2>1. p \in Abstract!Pointer
        BY <1>1, <1>2, CallParts
    <2>2. p # NULL
        BY <1>1 DEF WalkFree
    <2>. QED BY <2>1, <2>2, HeapAssumption DEF Abstract!Pointer
<1>4. i # 0 /\ i \in Leaves
    BY <1>1, <1>2, <1>3 DEF RootInner, Leaves, Leaf
<1>5. /\ heap_tree' = [heap_tree EXCEPT ![i] = NULL] /\ call' = call /\ ret' = ret
      /\ walk' = [walk EXCEPT !.merging = TRUE]
    BY <1>4 DEF FreeFound, Goto
<1>6. walk'.i = i /\ walk'.merging
    BY <1>2, <1>5 DEF WalkType
<1>7. heap_tree'[i] = NULL /\ \A j \in Node : j # i => heap_tree'[j] = heap_tree[j]
    BY <1>2, <1>5
<1>8. heap_tree[Parent(i)] = BRANCH_NODE /\ Parent(i) \in Node /\ Parent(i) # i
    <2>1. Parent(i) \in Node /\ Parent(i) < i /\ i \in Nat /\ Parent(i) \in Nat
        BY <1>2, <1>4, PartOfParent, NodeRange
    <2>2. heap_tree[Parent(i)] = BRANCH_NODE
        BY <1>1, <1>2, <1>3, <1>4, BranchAbove
    <2>. QED BY <2>1, <2>2
<1>. HIDE DEF i, p
<1>9. Leaves' = Leaves \ {i}
    BY <1>7 DEF Leaves, Leaf
<1>10. LeafAddr'
    <2>1. \A j \in Leaves' : heap_tree'[j] = Base(j)
        BY <1>1, <1>7, <1>9 DEF LeafAddr, Leaves
    <2>. QED BY <2>1 DEF LeafAddr, Base, SizeAt
<1>11. \A j \in Leaves : heap_tree[j] = p <=> j = i
    BY <1>1, <1>4, AddressesDiffer
<1>12. Blocks' = {b \in Blocks : b.addr # p}
    <2>1. Blocks = {Block(j) : j \in Leaves} /\ Blocks' = {Block(j) : j \in Leaves \ {i}}
        BY <1>1, <1>9, <1>10, BlocksAre, BlocksNext
    <2>2. \A j \in Leaves : Block(j).addr = p <=> j = i
        BY <1>1, <1>11 DEF LeafAddr, Block
    <2>. QED BY <2>1, <2>2
<1>13. FreePassed'
    <2>1. \A j \in Leaves' : heap_tree'[j] # p
        BY <1>7, <1>9, <1>11 DEF Leaves
    <2>2. heap_tree'[Parent(i)] = BRANCH_NODE
        BY <1>7, <1>8
    <2>. QED BY <1>5, <1>6, <2>1, <2>2 DEF FreePassed, p
<1>14. MallocPassed' /\ StatsPassed'
    BY <1>1, <1>5 DEF MallocPassed, StatsPassed, Mallocs
<1>15. Abstract!Release
    BY <1>1, <1>5, <1>12 DEF Abstract!Release, p
<1>. QED BY <1>10, <1>13, <1>14, <1>15 DEF Simulates, PassedInv, Abstract!Next

LEMMA FreeSearchPassed ==
    ASSUME HeapInv, PassedInv, FreeSearch
    PROVE  Simulates
<1> DEFINE i == walk.i
           p == call.arg
           leftDone == Absent(Left(i)) \/ Left(i) = walk.skip
           rightDone == Right(i) = walk.skip \/ (leftDone /\ Absent(Right(i)))
<1>1. /\ call.op = "free" /\ ~walk.merging /\ heap_tree[0] # NULL /\ heap_tree' = heap_tree
      /\ heap_tree[i] # p
      /\ \/ rightDone /\ i = 0 /\ Done(ret)
         \/ rightDone /\ i # 0 /\ Goto(Up(walk))
         \/ ~rightDone /\ leftDone /\ Goto(DownRight(walk))
         \/ ~rightDone /\ ~leftDone /\ Goto(DownLeft(walk))
      /\ TypeOK /\ TreeShape /\ RootInner /\ WalkFree
      /\ Tracked(walk) /\ NotThere(p, Reached(walk)) /\ LeafAddr
    BY DEF FreeSearch, HeapInv, PassedInv, FreePassed
<1>2. /\ i \in Node /\ i \in Nat /\ heap_tree[i] # NULL /\ ~Mallocs
      /\ Reached(walk) \in Nat /\ Base(i) <= Reached(walk) /\ Base(i) \in Nat
      /\ i # 0 => heap_tree[Parent(i)] = BRANCH_NODE
    <2>1. i \in Node /\ heap_tree[i] # NULL
        BY <1>1 DEF Tracked, WalkType, WalkFree
    <2>. QED BY <1>1, <2>1, NodeRange, BranchAbove, ReachedBounds, PartNat DEF Mallocs
<1>3. ASSUME heap_tree[i] = BRANCH_NODE
      PROVE  /\ Left(i) \in Node /\ Right(i) \in Node
             /\ leftDone => NotThere(p, Base(Right(i)))
             /\ rightDone => NotThere(p, End(i))
    <2>1. Left(i) \in Node
        BY <1>1, <1>2, <1>3 DEF TreeShape
    <2>2. /\ Right(i) \in Node
          /\ Base(Left(i)) = Base(i) /\ End(Left(i)) = Base(Right(i)) /\ End(Right(i)) = End(i)
          /\ walk.skip = Right(i) => Reached(walk) = End(i)
          /\ walk.skip = Left(i) => Reached(walk) = Base(Right(i))
        BY <1>1, <2>1, ReachedIs
    <2>3. Parent(Left(i)) = i /\ Parent(Right(i)) = i
        BY <1>2, ParentOfChild
    <2>. HIDE DEF i, p
    <2>4. ASSUME NEW c \in {Left(i), Right(i)}, Absent(c), NEW n \in Nat, Base(c) <= n, NotThere(p, n)
          PROVE  NotThere(p, End(c))
        <3>1. c \in Node /\ heap_tree[c] = NULL /\ Parent(c) = i
            BY <2>1, <2>2, <2>3, <2>4 DEF Absent
        <3>2. c \notin Leaves
            BY <3>1 DEF Leaves, Leaf
        <3>. QED BY <1>1, <1>3, <2>4, <3>1, <3>2, HeapAssumption, NotThereOver
    <2>5. leftDone => NotThere(p, Base(Right(i)))
        BY <1>1, <1>2, <2>2, <2>4
    <2>6. rightDone => NotThere(p, End(i))
        <3>1. Base(Right(i)) \in Nat /\ Base(Right(i)) <= Base(Right(i))
            BY <2>2, PartNat
        <3>. QED BY <1>1, <2>2, <2>4, <2>5, <3>1
    <2>. QED BY <2>1, <2>2, <2>5, <2>6
<1>4. ASSUME heap_tree[i] # BRANCH_NODE
      PROVE  rightDone /\ NotThere(p, End(i)) /\ i # 0
    <2>1. Absent(Left(i)) /\ Absent(Right(i))
        BY <1>1, <1>2, <1>4, BothChildren DEF TreeShape, Absent
    <2>2. i # 0
        BY <1>1, <1>4 DEF RootInner
    <2>3. NotThere(p, End(i))
        <3>. HIDE DEF i, p
        <3>. QED BY <1>1, <1>2, <1>4, NotThereOver
    <2>. QED BY <2>1, <2>2, <2>3
<1>5. \A j \in Node : heap_tree'[j] = heap_tree[j]
    BY <1>1
<1>. HIDE DEF i
<1>6. CASE rightDone /\ i = 0 /\ Done(ret)
    <2>1. call' = Idle /\ ret' = ret
        BY <1>6 DEF Done
    <2>2. End(0) = HEAP_SIZE
        BY SizeAtType, SizesNat DEF End, Base
    <2>3. NotThere(p, HEAP_SIZE)
        BY <1>3, <1>4, <1>6, <2>2
    <2>4. \A j \in Leaves : heap_tree[j] # p
        <3>1. \A j \in Leaves : End(j) <= HEAP_SIZE
            BY PartNat DEF Leaves
        <3>. QED BY <2>3, <3>1 DEF NotThere
    <2>. QED BY <1>1, <2>1, <2>4, MayReturn
<1>7. CASE rightDone /\ i # 0 /\ Goto(Up(walk))
    <2>1. Tracked(Up(walk)) /\ Reached(Up(walk)) = End(i) /\ ~Up(walk).merging
        BY <1>1, <1>7, ReachedUp, MoveUp DEF Tracked, i
    <2>2. NotThere(p, End(i))
        BY <1>3, <1>4, <1>7
    <2>. QED BY <1>1, <1>2, <1>5, <1>7, <2>1, <2>2, GoOnPassed
<1>8. CASE ~rightDone /\ leftDone /\ Goto(DownRight(walk))
    <2>1. heap_tree[i] = BRANCH_NODE /\ walk.skip # Right(i)
        BY <1>4, <1>8
    <2>2. /\ Tracked(DownRight(walk)) /\ Reached(DownRight(walk)) = Base(Right(i))
          /\ ~DownRight(walk).merging
        BY <1>1, <1>3, <2>1, ReachedDown, MoveDown DEF Tracked, i
    <2>. QED BY <1>1, <1>2, <1>3, <1>5, <1>8, <2>1, <2>2, GoOnPassed
<1>9. CASE ~rightDone /\ ~leftDone /\ Goto(DownLeft(walk))
    <2>1. heap_tree[i] = BRANCH_NODE /\ walk.skip # Right(i) /\ walk.skip # Left(i)
        BY <1>4, <1>9
    <2>2. /\ Tracked(DownLeft(walk)) /\ Reached(DownLeft(walk)) = Base(i)
          /\ ~DownLeft(walk).merging
        BY <1>1, <1>3, <2>1, ReachedDown, MoveDown DEF Tracked, i
    <2>3. Reached(walk) = Base(i)
        BY <1>1, <1>3, <2>1, ReachedIs DEF Children, i
    <2>. QED BY <1>1, <1>2, <1>5, <1>9, <2>2, <2>3, GoOnPassed
<1>. QED BY <1>1, <1>6, <1>7, <1>8, <1>9

LEMMA FreeMergePassed ==
    ASSUME HeapInv, PassedInv, FreeMerge
    PROVE  Simulates
<1> DEFINE p == Parent(walk.i)
<1>1. /\ TypeOK /\ TreeShape /\ LeafAddr /\ walk \in WalkType
      /\ call.op = "free" /\ walk.merging
      /\ \A j \in Leaves : heap_tree[j] # call.arg
      /\ walk.i # 0 => heap_tree[p] = BRANCH_NODE
      /\ heap_tree \in [Node -> 0 .. HEAP_SIZE - 1 \cup {NULL, BRANCH_NODE}]
    BY TypeParts DEF HeapInv, PassedInv, FreePassed, FreeMerge
<1>2. CASE walk.i > 0 /\ BothChildrenFree(p)
    <2>1. /\ heap_tree' = [heap_tree EXCEPT ![p] = NULL] /\ walk' = [walk EXCEPT !.i = p]
          /\ call' = call /\ ret' = ret
        BY <1>2 DEF FreeMerge, Goto
    <2>2. p \in Node /\ heap_tree[p] = BRANCH_NODE
        <3>1. walk.i \in Node /\ walk.i # 0
            BY <1>1, <1>2 DEF WalkType
        <3>. QED BY <1>1, <3>1, PartOfParent
    <2>3. walk'.i = p /\ walk'.merging
        BY <1>1, <2>1 DEF WalkType
    <2>. HIDE DEF p
    <2>4. heap_tree'[p] = NULL /\ \A j \in Node : j # p => heap_tree'[j] = heap_tree[j]
        BY <1>1, <2>1, <2>2
    <2>5. \A j \in Node : Leaf(j) \/ Leaf(j)' => heap_tree'[j] = heap_tree[j]
        <3>1. ~Leaf(p)
            BY <2>2 DEF Leaf
        <3>2. ASSUME NEW j \in Node, j = p PROVE ~Leaf(j)'
            BY <2>4, <3>2 DEF Leaf
        <3>. QED BY <2>4, <3>1, <3>2
    <2>6. Leaves' = Leaves /\ LeafAddr' /\ Blocks' = Blocks
        BY <1>1, <2>5, SameLeaves
    <2>7. FreePassed'
        <3>1. \A j \in Leaves' : heap_tree'[j] # call'.arg
            BY <1>1, <2>1, <2>5, <2>6 DEF Leaves
        <3>2. ASSUME p # 0 PROVE heap_tree'[Parent(p)] = BRANCH_NODE
            <4>1. Parent(p) \in Node /\ Parent(p) < p /\ p \in Nat /\ Parent(p) \in Nat
                BY <2>2, <3>2, PartOfParent, NodeRange
            <4>2. heap_tree[Parent(p)] = BRANCH_NODE
                BY <1>1, <2>2, <3>2, BranchAbove, HeapAssumption
            <4>. QED BY <2>4, <4>1, <4>2
        <3>. QED BY <2>1, <2>3, <3>1, <3>2 DEF FreePassed
    <2>8. MallocPassed' /\ StatsPassed'
        BY <1>1, <2>1 DEF MallocPassed, StatsPassed, Mallocs
    <2>. QED BY <2>1, <2>6, <2>7, <2>8 DEF Simulates, PassedInv, Abstract!vars
<1>3. CASE ~(walk.i > 0 /\ BothChildrenFree(p))
    <2>1. ret' = ret /\ call' = Idle /\ heap_tree' = heap_tree
        BY <1>3 DEF FreeMerge, Done
    <2>. QED BY <1>1, <2>1, MayReturn
<1>. QED BY <1>2, <1>3

\* The blocks are finitely many, and each has a size.
LEMMA CountedSized ==
    \A n : SizedSet(Counted(n))
<1>. SUFFICES ASSUME NEW n PROVE SizedSet(Counted(n))
    OBVIOUS
<1> DEFINE L == {k \in Leaves : End(k) <= n}
           f == [j \in L |-> Block(j)]
<1>1. IsFiniteSet(L)
    <2>1. IsFiniteSet(Node)
        <3>1. HEAP_TREE_NODE_CNT - 1 \in Int
            <4>1. Pow2[Bottom + 1] \in Nat
                BY LevelsNat, PowersPositive
            <4>. QED BY <4>1 DEF HEAP_TREE_NODE_CNT, Bottom
        <3>. QED BY <3>1, FS_Interval DEF Node
    <2>2. L \subseteq Node
        BY DEF Leaves
    <2>. QED BY <2>1, <2>2, FS_Subset
<1>2. \A x \in Counted(n) : x.size \in Nat
    <2>. SUFFICES ASSUME NEW j \in Leaves PROVE Block(j).size \in Nat
        BY DEF Counted
    <2>. QED BY PartNat DEF Block, Leaves
<1>3. IsFiniteSet(Counted(n))
    <2>1. f \in [L -> Counted(n)] /\ \A x \in Counted(n) : \E j \in L : f[j] = x
        BY DEF Counted
    <2>. HIDE DEF L, f
    <2>2. f \in Surjection(L, Counted(n))
        BY <2>1 DEF Surjection
    <2>. QED BY <1>1, <2>2, FS_Surjection
<1>. QED BY <1>2, <1>3 DEF SizedSet

\* Past a part that holds one block or none, that block is counted too.
LEMMA CountedOver ==
    ASSUME TreeShape, NEW c \in Node, heap_tree[c] # BRANCH_NODE,
           c # 0 => heap_tree[Parent(c)] = BRANCH_NODE
    PROVE  Abstract!TotalSize(Counted(End(c))) =
             IF Leaf(c) THEN Abstract!TotalSize(Counted(Base(c))) + SizeAt(c)
             ELSE Abstract!TotalSize(Counted(Base(c)))
<1>1. /\ \A j \in Leaves : End(j) <= End(c) => j = c \/ End(j) <= Base(c)
      /\ \A j \in Leaves : End(j) <= Base(c) => End(j) <= End(c)
    <2>1. \A j \in Leaves : End(j) \in Nat
        BY PartNat DEF Leaves
    <2>2. Base(c) \in Nat /\ End(c) \in Nat /\ Base(c) < End(c)
        BY PartNat
    <2>. QED BY <2>1, <2>2, EndsBefore
<1>2. CASE Leaf(c)
    <2>1. c \in Leaves /\ End(c) <= End(c)
        BY <1>2, PartNat DEF Leaves
    <2>2. Counted(End(c)) = Counted(Base(c)) \cup {Block(c)}
        BY <1>1, <2>1 DEF Counted
    <2>3. Block(c) \notin Counted(Base(c))
        <3>. SUFFICES ASSUME NEW j \in Leaves, End(j) <= Base(c), Block(j) = Block(c) PROVE FALSE
            BY DEF Counted
        <3>1. Base(j) = Base(c)
            BY DEF Block
        <3>2. Base(j) \in Nat /\ End(j) \in Nat /\ Base(j) < End(j)
            BY PartNat DEF Leaves
        <3>. QED BY <3>1, <3>2
    <2>4. SizedSet(Counted(Base(c)) \cup {Block(c)})
        BY <2>2, CountedSized
    <2>5. Block(c).size = SizeAt(c)
        BY DEF Block
    <2>6. Abstract!TotalSize(Counted(End(c))) = Abstract!TotalSize(Counted(Base(c))) + Block(c).size
        BY <2>2, <2>3, <2>4, TotalAdd
    <2>. QED BY <1>2, <2>5, <2>6
<1>3. CASE ~Leaf(c)
    <2>1. c \notin Leaves
        BY <1>3 DEF Leaves
    <2>2. Counted(End(c)) = Counted(Base(c))
        BY <1>1, <2>1 DEF Counted
    <2>. QED BY <1>3, <2>2
<1>. QED BY <1>2, <1>3

\* heap_stats at a node that is no leaf, having added up all that it has passed.
LEMMA StatsGoOnPassed ==
    ASSUME HeapInv, PassedInv, call.op = "stats", heap_tree' = heap_tree,
           NEW w, Tracked(w), ~w.merging, ~Leaf(w.i), w.i # 0 => heap_tree[w.i] # NULL,
           w.used = Abstract!TotalSize(Counted(Reached(w))), StatsGoOn(w)
    PROVE  Simulates
<1> DEFINE i == w.i
           T(n) == Abstract!TotalSize(Counted(n))
           leftDone == heap_tree[Left(i)] = NULL \/ Left(i) = w.skip
           rightDone == Right(i) = w.skip \/ (leftDone /\ heap_tree[Right(i)] = NULL)
<1>1. /\ \/ rightDone /\ i = 0 /\ Done(w.used)
         \/ rightDone /\ i # 0 /\ Goto(Up(w))
         \/ ~rightDone /\ leftDone /\ Goto(DownRight(w))
         \/ ~rightDone /\ ~leftDone /\ Goto(DownLeft(w))
      /\ TypeOK /\ TreeShape /\ LeafAddr /\ i \in Node /\ w \in WalkType
      /\ ~Mallocs /\ call.op # "free" /\ w.block_size = SizeAt(i)
    BY DEF StatsGoOn, HeapInv, PassedInv, Tracked, WalkType, Mallocs
<1>2. i \in Nat /\ Left(i) \in Node
    <2>1. CASE i = 0
        BY <1>1, <2>1, RootHasChildren, NodeRange
    <2>2. CASE i # 0
        BY <1>1, <2>2, NodeRange DEF Leaf, TreeShape
    <2>. QED BY <2>1, <2>2
<1>3. /\ Right(i) \in Node
      /\ Base(Left(i)) = Base(i) /\ End(Left(i)) = Base(Right(i)) /\ End(Right(i)) = End(i)
      /\ w.skip = Right(i) => Reached(w) = End(i)
      /\ w.skip = Left(i) => Reached(w) = Base(Right(i))
      /\ w.skip \notin {Left(i), Right(i)} => Reached(w) = Base(i)
    BY <1>2, ReachedIs DEF Children
<1>. HIDE DEF T
<1>4. w.used = T(Reached(w))
    BY DEF T
<1>5. \A c \in {Left(i), Right(i)} : heap_tree[c] = NULL => T(End(c)) = T(Base(c))
    <2>1. CASE heap_tree[i] = BRANCH_NODE
        <3>. SUFFICES ASSUME NEW c \in {Left(i), Right(i)}, heap_tree[c] = NULL
                      PROVE  T(End(c)) = T(Base(c))
            OBVIOUS
        <3>1. c \in Node /\ Parent(c) = i
            BY <1>2, <1>3, ParentOfChild
        <3>. HIDE DEF i
        <3>2. ~Leaf(c)
            BY DEF Leaf
        <3>. QED BY <1>1, <2>1, <3>1, <3>2, HeapAssumption, CountedOver DEF T
    <2>2. CASE heap_tree[i] # BRANCH_NODE
        <3>1. heap_tree[0] = NULL
            BY <1>1, <2>2 DEF Leaf
        <3>2. Leaves = {}
            BY <1>1, <3>1, AllFree DEF Leaves, Leaf
        <3>3. \A n : Counted(n) = {}
            BY <3>2 DEF Counted
        <3>. QED BY <3>3 DEF T
    <2>. QED BY <2>1, <2>2
<1>6. leftDone /\ w.skip # Right(i) => w.used = T(Base(Right(i)))
    BY <1>3, <1>4, <1>5
<1>7. rightDone => w.used = T(End(i))
    BY <1>3, <1>4, <1>5, <1>6
<1>8. ~leftDone /\ ~rightDone => w.used = T(Base(i))
    BY <1>3, <1>4
<1>9. \A j \in Node : heap_tree'[j] = heap_tree[j]
    OBVIOUS
<1>. HIDE DEF i
<1>10. CASE rightDone /\ i = 0 /\ Done(w.used)
    <2>1. call' = Idle /\ ret' = w.used
        BY <1>10 DEF Done
    <2>2. End(0) = HEAP_SIZE
        BY SizeAtType, SizesNat DEF End, Base
    <2>3. Counted(HEAP_SIZE) = Blocks
        <3>1. \A j \in Leaves : End(j) <= HEAP_SIZE
            BY PartNat DEF Leaves
        <3>. QED BY <1>1, <3>1, BlocksAre DEF Counted
    <2>4. ret' = Abstract!TotalSize(Blocks)
        BY <1>7, <1>10, <2>1, <2>2, <2>3 DEF T
    <2>5. LeafAddr' /\ Blocks' = Blocks
        BY <1>1, SameLeaves
    <2>6. Abstract!Report
        BY <2>1, <2>4, <2>5 DEF Abstract!Report, Idle
    <2>. QED BY <2>1, <2>5, <2>6, ReturnPassed DEF Abstract!Next
<1>11. CASE rightDone /\ i # 0 /\ Goto(Up(w))
    <2>1. Reached(Up(w)) = End(i) /\ ~Up(w).merging /\ Up(w).used = w.used
        BY <1>1, <1>11, ReachedUp, MoveUp DEF i
    <2>2. Up(w).used = Abstract!TotalSize(Counted(Reached(Up(w))))
        BY <1>7, <1>11, <2>1 DEF T
    <2>. QED BY <1>1, <1>9, <1>11, <2>1, <2>2, GoOnPassed
<1>12. CASE ~rightDone /\ leftDone /\ Goto(DownRight(w))
    <2>1. w.skip # Right(i)
        BY <1>12
    <2>2. Reached(DownRight(w)) = Base(Right(i)) /\ ~DownRight(w).merging /\ DownRight(w).used = w.used
        BY <1>1, <1>2, <2>1, ReachedDown, MoveDown DEF i
    <2>3. DownRight(w).used = Abstract!TotalSize(Counted(Reached(DownRight(w))))
        BY <1>6, <1>12, <2>1, <2>2 DEF T
    <2>. QED BY <1>1, <1>9, <1>12, <2>2, <2>3, GoOnPassed
<1>13. CASE ~rightDone /\ ~leftDone /\ Goto(DownLeft(w))
    <2>1. w.skip # Right(i) /\ w.skip # Left(i)
        BY <1>13
    <2>2. Reached(DownLeft(w)) = Base(i) /\ ~DownLeft(w).merging /\ DownLeft(w).used = w.used
        BY <1>1, <1>2, <2>1, ReachedDown, MoveDown DEF i
    <2>3. DownLeft(w).used = Abstract!TotalSize(Counted(Reached(DownLeft(w))))
        BY <1>8, <1>13, <2>1, <2>2 DEF T
    <2>. QED BY <1>1, <1>9, <1>13, <2>2, <2>3, GoOnPassed
<1>. QED BY <1>1, <1>10, <1>11, <1>12, <1>13

\* The steps of heap_stats.
LEMMA StatsInnerPassed ==
    ASSUME HeapInv, PassedInv, StatsInner
    PROVE  Simulates
<1>1. /\ call.op = "stats" /\ ~Leaf(walk.i) /\ StatsGoOn(walk) /\ heap_tree' = heap_tree
      /\ walk \in WalkType /\ StatsWalk(walk)
      /\ walk.used = Abstract!TotalSize(Counted(Reached(walk)))
    BY StatsFacts DEF StatsInner, PassedInv, StatsPassed
<1>2. Tracked(walk)
    BY <1>1 DEF Tracked, StatsWalk, Children
<1>. QED BY <1>1, <1>2, StatsGoOnPassed DEF StatsWalk

LEMMA StatsLeafPassed ==
    ASSUME HeapInv, PassedInv, StatsLeaf
    PROVE  Simulates
<1> DEFINE w == [walk EXCEPT !.used = @ + walk.block_size]
           i == walk.i
<1>1. /\ call.op = "stats" /\ Leaf(i) /\ heap_tree' = heap_tree
      /\ i # 0 => StatsGoOn(Up(w))
      /\ walk \in WalkType /\ StatsWalk(walk) /\ TreeShape /\ RootInner
      /\ walk.used = Abstract!TotalSize(Counted(Reached(walk)))
    BY StatsFacts DEF StatsLeaf, HeapInv, PassedInv, StatsPassed
<1>2. /\ i # 0 /\ i \in Node /\ i \in Nat /\ walk.skip \in Nat
      /\ walk.block_size = SizeAt(i) /\ walk.skip < Left(i) /\ ~walk.merging
    BY <1>1, NodeRange DEF RootInner, Leaf, WalkType, StatsWalk
<1>3. walk.skip # Left(i) /\ walk.skip # Right(i)
    <2>. HIDE DEF i
    <2>. QED BY <1>2 DEF Left, Right
<1>4. Reached(walk) = Base(i)
    <2>1. Base(i) \in Nat
        BY <1>2, PartNat
    <2>. QED BY <1>3, <2>1 DEF Reached, Past
<1>5. heap_tree[i] # BRANCH_NODE /\ heap_tree[i] # NULL
    BY <1>1 DEF Leaf
<1>6. heap_tree[Parent(i)] = BRANCH_NODE
    BY <1>1, <1>2, <1>5, BranchAbove
<1>7. Abstract!TotalSize(Counted(End(i))) = walk.used + SizeAt(i)
    BY <1>1, <1>2, <1>4, <1>5, <1>6, CountedOver
<1>8. /\ w.i = i /\ w.skip = walk.skip /\ w.block_size = SizeAt(i) /\ ~w.merging
      /\ w.used = walk.used + SizeAt(i)
    BY <1>1, <1>2 DEF WalkType
<1>9. w \in WalkType
    <2>1. walk.used + walk.block_size \in 0 .. HEAP_SIZE
        <3>1. Past(walk) = 0
            BY <1>3 DEF Past
        <3>2. walk.used <= Base(i) /\ walk.used \in Nat
            BY <1>1, <1>2, <3>1, PartNat, SizesNat DEF StatsWalk, WalkType
        <3>3. SizeAt(i) \in Nat /\ Base(i) \in Nat /\ Base(i) + SizeAt(i) <= HEAP_SIZE /\ HEAP_SIZE \in Nat
            BY <1>2, PartNat, Parts
        <3>. QED BY <1>2, <3>2, <3>3
    <2>. QED BY <1>1, <2>1 DEF WalkType
<1>10. Tracked(w)
    <2>. HIDE DEF w, i
    <2>. QED BY <1>2, <1>8, <1>9 DEF Tracked
<1>. HIDE DEF w
<1>11. /\ Tracked(Up(w)) /\ Reached(Up(w)) = End(i) /\ Up(w).i = Parent(i)
       /\ ~Up(w).merging /\ Up(w).used = w.used
    BY <1>2, <1>8, <1>9, <1>10, ReachedUp, MoveUp
<1>12. ~Leaf(Up(w).i) /\ heap_tree[Up(w).i] # NULL
    BY <1>6, <1>11, HeapAssumption DEF Leaf
<1>. HIDE DEF i
<1>. QED BY <1>1, <1>2, <1>7, <1>8, <1>11, <1>12, StatsGoOnPassed

-----------------------------------------------------------------------------
\* A step of none of them.
LEMMA StutterPassed ==
    ASSUME PassedInv, UNCHANGED vars
    PROVE  Simulates
<1>1. heap_tree' = heap_tree /\ call' = call /\ ret' = ret /\ walk' = walk
    BY DEF vars
<1>2. Leaves' = Leaves /\ LeafAddr' /\ Blocks' = Blocks
    BY <1>1, SameLeaves DEF PassedInv
<1>3. MallocPassed'
    <2>1. \A s, n : Taken(s, n)' = Taken(s, n)
        BY <1>2 DEF Taken, End, Base, SizeAt
    <2>. QED BY <1>1, <2>1 DEF PassedInv, MallocPassed, Mallocs, Reached, Base, SizeAt, Past
<1>4. FreePassed'
    <2>1. \A p, n : NotThere(p, n)' = NotThere(p, n)
        BY <1>1, <1>2 DEF NotThere, End, Base, SizeAt
    <2>. QED BY <1>1, <1>2, <2>1
          DEF PassedInv, FreePassed, Tracked, WalkType, Children, Reached, Base, SizeAt, Past
<1>5. StatsPassed'
    <2>1. \A n : Counted(n)' = Counted(n)
        BY <1>2 DEF Counted, Block, End, Base, SizeAt
    <2>. QED BY <1>1, <2>1 DEF PassedInv, StatsPassed, Reached, Base, SizeAt, Past
<1>. QED BY <1>1, <1>2, <1>3, <1>4, <1>5 DEF Simulates, PassedInv, Abstract!vars

\* Every step.
LEMMA StepSimulates ==
    ASSUME ModestRequests, HeapInv, PassedInv, [Next]_vars
    PROVE  Simulates
BY BeginPassed, MallocTooLargePassed, MallocOccupiedPassed, MallocTakePassed, MallocDescendPassed,
   FreeEmptyPassed, FreeFoundPassed, FreeSearchPassed, FreeMergePassed, StatsLeafPassed,
   StatsInnerPassed, StutterPassed
   DEF Next, Malloc, FreeCall, Stats

LEMMA AlwaysPassed ==
    ASSUME ModestRequests
    PROVE  Spec => []PassedInv
<1>1. ASSUME HeapInv, PassedInv, [Next]_vars PROVE PassedInv'
    BY <1>1, StepSimulates DEF Simulates
<1>. QED BY <1>1, InitPassed, HeapInvariant, PTL DEF Spec

\* No two blocks in use overlap (heap.c:45-47): the address malloc computes from a
\* node's index and size is where the node's part of the heap begins, and a node
\* is in use only under branches.
THEOREM BlocksAlwaysDisjoint ==
    ASSUME ModestRequests
    PROVE  Spec => []BlocksDisjoint
<1>1. HeapInv /\ PassedInv => BlocksDisjoint
    <2>. SUFFICES ASSUME HeapInv, PassedInv, NEW b \in Blocks, NEW c \in Blocks, b # c
                  PROVE  ~Abstract!Overlap(b, c)
        BY DEF BlocksDisjoint
    <2>1. TreeShape /\ LeafAddr
        BY DEF HeapInv, PassedInv
    <2>2. PICK i \in Leaves, j \in Leaves : b = Block(i) /\ c = Block(j)
        BY <2>1, BlocksAre
    <2>3. Apart(i, j)
        BY <2>1, <2>2, LeavesApart DEF Leaves
    <2>. QED BY <2>2, <2>3, OverlapIs DEF Leaves
<1>. QED BY <1>1, HeapInvariant, AlwaysPassed, PTL

\* The walks of malloc, free and heap_stats do what the abstract heap promises:
\* malloc takes an aligned free block of the rounded size, and refuses only if
\* there is none in the whole heap; free gives back the block that begins at its
\* argument and no other; heap_stats returns the sum of the sizes in use
\* (heap.c:21-83, 93-212).
THEOREM HeapImplementsBlocks ==
    ASSUME ModestRequests
    PROVE  Spec => ImplementsBlocks
<1>1. ASSUME HeapInv, PassedInv, [Next]_vars PROVE [Abstract!Next]_(Abstract!vars)
    BY <1>1, StepSimulates DEF Simulates
<1>2. Init => Abstract!Init
    BY InitPassed
<1>. QED BY <1>1, <1>2, HeapInvariant, AlwaysPassed, PTL DEF Spec, ImplementsBlocks, Abstract!Spec
=============================================================================
