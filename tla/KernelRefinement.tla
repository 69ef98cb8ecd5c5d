-------------------------- MODULE KernelRefinement --------------------------
(* The linked lists of Kernel implement the queues of RunQueues.            *)
EXTENDS Kernel, SequencesExt

\* The threads of a list in the order a walk from its root meets them; a ring
\* is read once round.
Walk(next, root) ==
    LET node[i \in 1 .. Cardinality(Chain(next, root))] ==
            IF i = 1 THEN root ELSE next[node[i - 1]]
    IN  node

\* The ring holds the running thread too; it is the last one from the root.
WaitingTurn(state, ring) ==
    IF ring # <<>> /\ state[Last(ring)] = "RUNNING" THEN Front(ring) ELSE ring

Ready == [p \in Level |-> WaitingTurn(sch.state, Walk(sch.next_tcb, sch.ThreadSchedule[p]))]

Waiters == [sem \in Sem |-> Walk(sch.next_tcb, sch.bthreads_root[sem])]

Pending == IF sch.pendsv THEN sch.NextRunPt ELSE NULL

Queues == INSTANCE RunQueues WITH
    ready <- Ready, blocked <- Waiters, cpu <- sch.RunPt, next <- Pending

\* Every step of the list code is a step of the queues or leaves them alone: a
\* slice that ends sends a thread behind its peers, a wakeup puts it before
\* them, waiters leave by urgency and then in order of arrival.
ImplementsRunQueues == Queues!Spec
=============================================================================
