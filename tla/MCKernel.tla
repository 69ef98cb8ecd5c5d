------------------------------ MODULE MCKernel ------------------------------
(***************************************************************************)
(* Kernel on up to four threads, `u` of level 0 and the others of level 1, *)
(* with a mutex, a counting semaphore that a handler signals too, and a    *)
(* binary semaphore used as an event. A cfg chooses among them.            *)
(***************************************************************************)
EXTENDS KernelRefinement, TLC

CONSTANTS a, b, c, u, items, space, lock, burst

MCPriority == [t \in Thread |-> IF t = u THEN 0 ELSE 1]
MCInitValue == [sem \in Sem |-> IF sem = burst THEN 1 ELSE 0]
=============================================================================
