----------------------------- MODULE ListProofs -----------------------------
(***************************************************************************)
(* Lemmas about the functions of ThreadLists: what each leaves of the      *)
(* ready rings and the blocked lists, for any threads, levels and          *)
(* semaphores.                                                             *)
(***************************************************************************)
EXTENDS ThreadLists, FiniteSetTheorems, NaturalsInduction, WellFoundedInduction, TLAPS

\* The threads of a level in given states are finitely many: they can be counted.
LEMMA AtFinite ==
    \A s, st, p : IsFiniteSet(At(s, st, p)) /\ At(s, st, p) \subseteq Thread
<1>. SUFFICES ASSUME NEW s, NEW st, NEW p
              PROVE  IsFiniteSet(At(s, st, p)) /\ At(s, st, p) \subseteq Thread
    OBVIOUS
<1>1. At(s, st, p) \subseteq Thread
    BY DEF At
<1>. QED BY <1>1, FS_Subset, ThreadsAssumption

-----------------------------------------------------------------------------
(* enqueue_thread                                                            *)

\* The fields enqueue_thread writes, and that their types are kept.
LEMMA EnqueueFields ==
    ASSUME NEW s \in SchedType, NEW t \in Thread,
           LET root == s.ThreadSchedule[Priority[t]]
           IN  root # NULL => s.prev_tcb[root] \in Thread
    PROVE  LET p == Priority[t]
               root == s.ThreadSchedule[p]
               tail == s.prev_tcb[root]
               r == EnqueueThread(s, t)
           IN  /\ r \in SchedType
               /\ r.next_tcb = IF root = NULL THEN [s.next_tcb EXCEPT ![t] = t]
                               ELSE [s.next_tcb EXCEPT ![t] = root, ![tail] = t]
               /\ r.prev_tcb = IF root = NULL THEN [s.prev_tcb EXCEPT ![t] = t]
                               ELSE [s.prev_tcb EXCEPT ![t] = tail, ![root] = t]
               /\ r.state = [s.state EXCEPT ![t] = "ACTIVE"]
               /\ r.ThreadSchedule = [s.ThreadSchedule EXCEPT ![p] = t]
               /\ r.ActivePriorityCount = [s.ActivePriorityCount EXCEPT ![p] = @ + 1]
               /\ r.bthreads_root = s.bthreads_root
               /\ r.RunPt = s.RunPt /\ r.NextRunPt = s.NextRunPt /\ r.pendsv = s.pendsv
<1> DEFINE p == Priority[t]
           root == s.ThreadSchedule[p]
           tail == s.prev_tcb[root]
           r == EnqueueThread(s, t)
           n == IF root = NULL THEN [s.next_tcb EXCEPT ![t] = t]
                ELSE [s.next_tcb EXCEPT ![t] = root, ![tail] = t]
           v == IF root = NULL THEN [s.prev_tcb EXCEPT ![t] = t]
                ELSE [s.prev_tcb EXCEPT ![t] = tail, ![root] = t]
           a == [s.ThreadSchedule EXCEPT ![p] = t]
           b == [s.state EXCEPT ![t] = "ACTIVE"]
           c == [s.ActivePriorityCount EXCEPT ![p] = @ + 1]
<1>0. p \in Level
    BY ThreadsAssumption
<1>1. /\ a \in [Level -> Thread \cup {NULL}]
      /\ b \in [Thread -> ThreadState]
      /\ c \in [Level -> Nat]
    BY <1>0 DEF SchedType, ThreadState
<1>2. n \in [Thread -> Thread \cup {NULL}] /\ v \in [Thread -> Thread \cup {NULL}]
    BY <1>0 DEF SchedType
<1>3. r = [s EXCEPT !.next_tcb = n, !.prev_tcb = v, !.ThreadSchedule = a,
                    !.state = b, !.ActivePriorityCount = c]
    <2>1. CASE root = NULL BY <2>1 DEF EnqueueThread
    <2>2. CASE root # NULL BY <2>2 DEF EnqueueThread
    <2>. QED BY <2>1, <2>2
<1>4. /\ r.next_tcb = n /\ r.prev_tcb = v /\ r.state = b
      /\ r.ThreadSchedule = a /\ r.ActivePriorityCount = c
      /\ r.bthreads_root = s.bthreads_root
      /\ r.RunPt = s.RunPt /\ r.NextRunPt = s.NextRunPt /\ r.pendsv = s.pendsv
    <2>. HIDE DEF n, v, a, b, c, r
    <2>. QED BY <1>3 DEF SchedType
<1>5. r \in SchedType
    <2>. HIDE DEF n, v, a, b, c, r
    <2>. QED BY <1>1, <1>2, <1>3 DEF SchedType
<1>. QED BY <1>4, <1>5

\* A thread that was in no ring joins the ring of its level at the root.
LEMMA EnqueueRings ==
    ASSUME NEW s \in SchedType, RingsOK(s),
           NEW t \in Thread, t \notin Linked(s)
    PROVE  LET r == EnqueueThread(s, t)
           IN  /\ r \in SchedType
               /\ RingsOK(r)
               /\ Linked(r) = Linked(s) \cup {t}
               /\ r.state = [s.state EXCEPT ![t] = "ACTIVE"]
               /\ \A u \in Thread : u # t /\ u \notin Linked(s) =>
                     r.next_tcb[u] = s.next_tcb[u]
               /\ r.bthreads_root = s.bthreads_root
               /\ r.RunPt = s.RunPt /\ r.NextRunPt = s.NextRunPt /\ r.pendsv = s.pendsv
<1> DEFINE r == EnqueueThread(s, t)
           p == Priority[t]
           root == s.ThreadSchedule[p]
           tail == s.prev_tcb[root]
           L == Linked(s)
<1>1. p \in Level
    BY ThreadsAssumption
<1>2. root # NULL => /\ root \in L /\ Priority[root] = p
                     /\ tail \in L /\ s.next_tcb[tail] = root
                     /\ Priority[tail] = p
    BY <1>1 DEF RingsOK, RingRoots, RingLinks, At, Linked
<1>3. L \subseteq Thread
    BY DEF Linked
<1>4. /\ r \in SchedType
      /\ r.next_tcb = IF root = NULL THEN [s.next_tcb EXCEPT ![t] = t]
                      ELSE [s.next_tcb EXCEPT ![t] = root, ![tail] = t]
      /\ r.prev_tcb = IF root = NULL THEN [s.prev_tcb EXCEPT ![t] = t]
                      ELSE [s.prev_tcb EXCEPT ![t] = tail, ![root] = t]
      /\ r.state = [s.state EXCEPT ![t] = "ACTIVE"]
      /\ r.ThreadSchedule = [s.ThreadSchedule EXCEPT ![p] = t]
      /\ r.ActivePriorityCount = [s.ActivePriorityCount EXCEPT ![p] = @ + 1]
      /\ r.bthreads_root = s.bthreads_root
      /\ r.RunPt = s.RunPt /\ r.NextRunPt = s.NextRunPt /\ r.pendsv = s.pendsv
    <2>1. root # NULL => s.prev_tcb[root] \in Thread
        BY <1>2, <1>3
    <2>. QED BY <2>1, EnqueueFields
<1>5. /\ s.next_tcb \in [Thread -> Thread \cup {NULL}]
      /\ s.prev_tcb \in [Thread -> Thread \cup {NULL}]
      /\ s.state \in [Thread -> ThreadState]
      /\ s.ThreadSchedule \in [Level -> Thread \cup {NULL}]
      /\ s.ActivePriorityCount \in [Level -> Nat]
    BY DEF SchedType
<1>. HIDE DEF r
<1>6. Linked(r) = L \cup {t}
    BY <1>4, <1>5 DEF Linked, InRing
<1>7. \A q \in Level :
         At(r, InRing, q) = IF q = p THEN At(s, InRing, q) \cup {t} ELSE At(s, InRing, q)
    BY <1>4, <1>5 DEF At, InRing
<1>8. t \in Thread /\ t \notin L
    OBVIOUS
<1>9. ASSUME root # NULL
       PROVE  /\ t # root /\ t # tail /\ root \in Thread /\ tail \in Thread
              /\ r.next_tcb[t] = root /\ r.next_tcb[tail] = t
              /\ r.prev_tcb[t] = tail /\ r.prev_tcb[root] = t
              /\ \A u \in L : u # tail => r.next_tcb[u] = s.next_tcb[u]
              /\ \A u \in L : u # root => r.prev_tcb[u] = s.prev_tcb[u]
    <2>1. /\ r.next_tcb = [s.next_tcb EXCEPT ![t] = root, ![tail] = t]
          /\ r.prev_tcb = [s.prev_tcb EXCEPT ![t] = tail, ![root] = t]
        BY <1>4, <1>9
    <2>2. t # root /\ t # tail /\ root \in Thread /\ tail \in Thread
        BY <1>2, <1>3, <1>8, <1>9
    <2>. QED BY <2>1, <2>2, <1>3, <1>5, <1>8
<1>10. \A q \in Level : At(s, InRing, q) \subseteq L
    BY DEF At, Linked
<1>11. RingLinks(r)
    <2>1. CASE root = NULL
        <3>1. \A u \in L : Priority[u] # p
            BY <2>1, <1>1, ThreadsAssumption DEF RingsOK, RingRoots, At, Linked
        <3>. QED BY <3>1, <2>1, <1>3, <1>4, <1>5, <1>6 DEF RingsOK, RingLinks
    <2>2. CASE root # NULL
        <3>1. \A u \in L : /\ s.next_tcb[u] \in L /\ s.prev_tcb[u] \in L
                           /\ s.prev_tcb[s.next_tcb[u]] = u /\ s.next_tcb[s.prev_tcb[u]] = u
                           /\ Priority[s.next_tcb[u]] = Priority[u]
            BY DEF RingsOK, RingLinks
        <3>2. ASSUME NEW u \in L
              PROVE  /\ r.next_tcb[u] = IF u = tail THEN t ELSE s.next_tcb[u]
                     /\ r.prev_tcb[u] = IF u = root THEN t ELSE s.prev_tcb[u]
                     /\ u # tail => s.next_tcb[u] # root
                     /\ u # root => s.prev_tcb[u] # tail
            BY <3>1, <2>2, <1>2, <1>9
        <3>3. ASSUME NEW u \in L
              PROVE  /\ r.next_tcb[u] \in L \cup {t} /\ r.prev_tcb[u] \in L \cup {t}
                     /\ Priority[r.next_tcb[u]] = Priority[u]
            BY <3>1, <3>2, <2>2, <1>2
        <3>4. ASSUME NEW u \in L
              PROVE  r.prev_tcb[r.next_tcb[u]] = u
            <4>1. CASE u = tail
                BY <4>1, <3>2, <2>2, <1>9
            <4>2. CASE u # tail
                BY <4>2, <3>1, <3>2
            <4>. QED BY <4>1, <4>2
        <3>5. ASSUME NEW u \in L
              PROVE  r.next_tcb[r.prev_tcb[u]] = u
            <4>1. CASE u = root
                BY <4>1, <3>2, <2>2, <1>9
            <4>2. CASE u # root
                BY <4>2, <3>1, <3>2
            <4>. QED BY <4>1, <4>2
        <3>6. /\ r.next_tcb[t] \in L /\ r.prev_tcb[t] \in L
              /\ Priority[r.next_tcb[t]] = Priority[t]
              /\ r.prev_tcb[r.next_tcb[t]] = t /\ r.next_tcb[r.prev_tcb[t]] = t
            BY <2>2, <1>2, <1>9
        <3>. QED BY <3>3, <3>4, <3>5, <3>6, <1>6 DEF RingLinks
    <2>. QED BY <2>1, <2>2
<1>12. RingRoots(r)
    BY <1>1, <1>4, <1>5, <1>7 DEF RingsOK, RingRoots
<1>13. RingWhole(r)
    <2>. SUFFICES ASSUME NEW q \in Level, NEW S \in SUBSET At(r, InRing, q),
                         S # {}, \A u \in S : r.next_tcb[u] \in S
                  PROVE  S = At(r, InRing, q)
        BY DEF RingWhole
    <2>1. CASE q # p
        <3>1. \A u \in S : u \in Thread /\ Priority[u] # p
            BY <2>1, <1>7 DEF At
        <3>2. \A u \in S : u \in L
            BY <2>1, <1>7, <1>10
        <3>3. \A u \in S : r.next_tcb[u] = s.next_tcb[u]
            <4>1. CASE root = NULL
                <5>1. r.next_tcb = [s.next_tcb EXCEPT ![t] = t]
                    BY <4>1, <1>4
                <5>. QED BY <5>1, <3>2, <1>5, <3>1, <1>8
            <4>. QED BY <4>1, <3>1, <3>2, <1>2, <1>9
        <3>. QED BY <3>3, <2>1, <1>7 DEF RingsOK, RingWhole
    <2>2. CASE q = p /\ root = NULL
        <3>1. At(s, InRing, p) = {}
            BY <2>2, <1>1, ThreadsAssumption DEF RingsOK, RingRoots, At
        <3>. QED BY <3>1, <2>2, <1>7
    <2>3. CASE q = p /\ root # NULL
        <3> DEFINE R == S \ {t}
        <3>1. \A u \in R : u \in L /\ (u # tail => s.next_tcb[u] \in R)
            <4>1. \A u \in R : u \in L /\ u \in S /\ u # t
                BY <2>3, <1>7, <1>10, <1>1
            <4>2. \A u \in R : u # tail => s.next_tcb[u] \in S
                BY <4>1, <2>3, <1>9
            <4>3. \A u \in L : s.next_tcb[u] \in L
                BY DEF RingsOK, RingLinks
            <4>. QED BY <4>1, <4>2, <4>3, <1>8
        <3>2. t \in S => root \in R
            BY <2>3, <1>9
        <3>3. tail \in R => t \in S
            BY <2>3, <1>9
        <3>4. R # {} /\ \A u \in R : s.next_tcb[u] \in R
            <4>1. R # {}
                BY <3>2
            <4>2. tail \in R => root \in R
                BY <3>2, <3>3
            <4>. QED BY <4>1, <4>2, <3>1, <2>3, <1>2
        <3>5. R = At(s, InRing, p)
            <4>1. R \in SUBSET At(s, InRing, p)
                BY <2>3, <1>7
            <4>. QED BY <4>1, <3>4, <1>1 DEF RingsOK, RingWhole
        <3>6. tail \in R
            BY <3>5, <2>3, <1>2, <1>3 DEF At, Linked
        <3>. QED BY <3>3, <3>5, <3>6, <2>3, <1>7
    <2>. QED BY <2>1, <2>2, <2>3
<1>14. RingCounts(r)
    <2>. SUFFICES ASSUME NEW q \in Level
                  PROVE  r.ActivePriorityCount[q] = Cardinality(At(r, {"ACTIVE"}, q))
        BY DEF RingCounts
    <2>1. At(r, {"ACTIVE"}, q) = IF q = p THEN At(s, {"ACTIVE"}, q) \cup {t}
                                 ELSE At(s, {"ACTIVE"}, q)
        BY <1>4, <1>5 DEF At, Linked, InRing
    <2>2. t \notin At(s, {"ACTIVE"}, q)
        BY DEF At, Linked, InRing
    <2>3. IsFiniteSet(At(s, {"ACTIVE"}, q))
        BY AtFinite
    <2>4. Cardinality(At(s, {"ACTIVE"}, q) \cup {t}) = Cardinality(At(s, {"ACTIVE"}, q)) + 1
        BY <2>2, <2>3, FS_AddElement
    <2>. QED BY <2>1, <2>4, <1>1, <1>4, <1>5 DEF RingsOK, RingCounts
<1>15. \A u \in Thread : u # t /\ u \notin L => r.next_tcb[u] = s.next_tcb[u]
    BY <1>2, <1>3, <1>4, <1>5
<1>. QED BY <1>4, <1>6, <1>11, <1>12, <1>13, <1>14, <1>15 DEF RingsOK, r

-----------------------------------------------------------------------------
(* dequeue_thread, and the change of state that follows it                   *)

\* RingsOK speaks of the links of ring threads only: what is done to the links
\* of the others, as when they are put on a blocked or sleep list, is no matter.
LEMMA RingsFrame ==
    ASSUME NEW s, NEW r, RingsOK(s),
           r.state = s.state, r.ThreadSchedule = s.ThreadSchedule,
           r.ActivePriorityCount = s.ActivePriorityCount, r.prev_tcb = s.prev_tcb,
           \A t \in Linked(s) : r.next_tcb[t] = s.next_tcb[t]
    PROVE  RingsOK(r) /\ Linked(r) = Linked(s)
<1>1. /\ Linked(r) = Linked(s)
      /\ \A st, p : At(r, st, p) = At(s, st, p)
    BY DEF Linked, At
<1>2. \A p : At(s, InRing, p) \subseteq Linked(s)
    BY DEF Linked, At
<1>3. RingLinks(r)
    BY <1>1 DEF RingsOK, RingLinks
<1>4. RingRoots(r)
    BY <1>1 DEF RingsOK, RingRoots
<1>5. RingWhole(r)
    <2>. SUFFICES ASSUME NEW p \in Level, NEW S \in SUBSET At(r, InRing, p),
                         S # {}, \A u \in S : r.next_tcb[u] \in S
                  PROVE  S = At(r, InRing, p)
        BY DEF RingWhole
    <2>1. \A u \in S : s.next_tcb[u] \in S
        BY <1>1, <1>2
    <2>. QED BY <2>1, <1>1 DEF RingsOK, RingWhole
<1>6. RingCounts(r)
    BY <1>1 DEF RingsOK, RingCounts
<1>. QED BY <1>1, <1>3, <1>4, <1>5, <1>6 DEF RingsOK

\* The fields written, and that their types are kept.
LEMMA LeaveFields ==
    ASSUME NEW s \in SchedType, NEW t \in Thread, NEW x \in ThreadState,
           s.next_tcb[t] \in Thread, s.prev_tcb[t] \in Thread
    PROVE  LET p == Priority[t]
               n == s.next_tcb[t]
               v == s.prev_tcb[t]
               last == s.ActivePriorityCount[p] = 0
               r == Leave(s, t, x)
           IN  /\ r \in SchedType
               /\ r.next_tcb = IF last THEN [s.next_tcb EXCEPT ![t] = NULL]
                               ELSE [s.next_tcb EXCEPT ![v] = n, ![t] = NULL]
               /\ r.prev_tcb = IF last THEN s.prev_tcb ELSE [s.prev_tcb EXCEPT ![n] = v]
               /\ r.ThreadSchedule = [s.ThreadSchedule EXCEPT
                                         ![p] = IF last THEN NULL ELSE n]
               /\ r.state = [s.state EXCEPT ![t] = x]
               /\ r.ActivePriorityCount = s.ActivePriorityCount
               /\ r.bthreads_root = s.bthreads_root
               /\ r.RunPt = s.RunPt /\ r.NextRunPt = s.NextRunPt /\ r.pendsv = s.pendsv
<1> DEFINE p == Priority[t]
           n == s.next_tcb[t]
           v == s.prev_tcb[t]
           last == s.ActivePriorityCount[p] = 0
           d == DequeueThread(s, t)
           r == Leave(s, t, x)
           nx == IF last THEN [s.next_tcb EXCEPT ![t] = NULL]
                 ELSE [s.next_tcb EXCEPT ![v] = n, ![t] = NULL]
           pv == IF last THEN s.prev_tcb ELSE [s.prev_tcb EXCEPT ![n] = v]
           a == [s.ThreadSchedule EXCEPT ![p] = IF last THEN NULL ELSE n]
           b == [s.state EXCEPT ![t] = x]
<1>1. /\ nx \in [Thread -> Thread \cup {NULL}]
      /\ pv \in [Thread -> Thread \cup {NULL}]
      /\ a \in [Level -> Thread \cup {NULL}]
      /\ b \in [Thread -> ThreadState]
    BY DEF SchedType
<1>2. d = [s EXCEPT !.next_tcb = nx, !.prev_tcb = pv, !.ThreadSchedule = a]
    <2>1. CASE last BY <2>1 DEF DequeueThread, SchedType
    <2>2. CASE ~last BY <2>2 DEF DequeueThread
    <2>. QED BY <2>1, <2>2
<1>3. r = [d EXCEPT !.state = [d.state EXCEPT ![t] = x]]
    BY DEF Leave
<1>4. d.state = s.state /\ d \in SchedType
    <2>. HIDE DEF nx, pv, a, d
    <2>. QED BY <1>1, <1>2 DEF SchedType
<1>5. r = [s EXCEPT !.next_tcb = nx, !.prev_tcb = pv, !.ThreadSchedule = a, !.state = b]
    <2>. HIDE DEF nx, pv, a, d, r
    <2>. QED BY <1>2, <1>3, <1>4 DEF SchedType
<1>6. /\ r.next_tcb = nx /\ r.prev_tcb = pv /\ r.ThreadSchedule = a /\ r.state = b
      /\ r.ActivePriorityCount = s.ActivePriorityCount
      /\ r.bthreads_root = s.bthreads_root
      /\ r.RunPt = s.RunPt /\ r.NextRunPt = s.NextRunPt /\ r.pendsv = s.pendsv
    <2>. HIDE DEF nx, pv, a, b, d, r
    <2>. QED BY <1>5 DEF SchedType
<1>7. r \in SchedType
    <2>. HIDE DEF nx, pv, a, b, d, r
    <2>. QED BY <1>1, <1>5 DEF SchedType
<1>. QED BY <1>6, <1>7

\* The running thread leaves its ring. A count of zero does mean that it is
\* alone in it, because nothing else there is RUNNING.
LEMMA LeaveRings ==
    ASSUME NEW s \in SchedType, RingsOK(s),
           NEW t \in Thread, s.state[t] = "RUNNING",
           \A u \in Thread : s.state[u] = "RUNNING" => u = t,
           NEW x \in {"BLOCKED", "SLEEPING"}
    PROVE  LET r == Leave(s, t, x)
           IN  /\ r \in SchedType
               /\ RingsOK(r)
               /\ Linked(r) = Linked(s) \ {t}
               /\ r.state = [s.state EXCEPT ![t] = x]
               /\ r.next_tcb[t] = NULL
               /\ \A u \in Thread \ Linked(s) : r.next_tcb[u] = s.next_tcb[u]
               /\ r.bthreads_root = s.bthreads_root
               /\ r.RunPt = s.RunPt /\ r.NextRunPt = s.NextRunPt /\ r.pendsv = s.pendsv
<1> DEFINE r == Leave(s, t, x)
           p == Priority[t]
           n == s.next_tcb[t]
           v == s.prev_tcb[t]
           last == s.ActivePriorityCount[p] = 0
           L == Linked(s)
<1>1. p \in Level
    BY ThreadsAssumption
<1>2. /\ t \in L /\ n \in L /\ v \in L /\ L \subseteq Thread
      /\ Priority[n] = p /\ Priority[v] = p
      /\ s.prev_tcb[n] = t /\ s.next_tcb[v] = t
    BY DEF RingsOK, RingLinks, Linked, InRing
<1>3. /\ r \in SchedType
      /\ r.next_tcb = IF last THEN [s.next_tcb EXCEPT ![t] = NULL]
                      ELSE [s.next_tcb EXCEPT ![v] = n, ![t] = NULL]
      /\ r.prev_tcb = IF last THEN s.prev_tcb ELSE [s.prev_tcb EXCEPT ![n] = v]
      /\ r.ThreadSchedule = [s.ThreadSchedule EXCEPT ![p] = IF last THEN NULL ELSE n]
      /\ r.state = [s.state EXCEPT ![t] = x]
      /\ r.ActivePriorityCount = s.ActivePriorityCount
      /\ r.bthreads_root = s.bthreads_root
      /\ r.RunPt = s.RunPt /\ r.NextRunPt = s.NextRunPt /\ r.pendsv = s.pendsv
    <2>1. s.next_tcb[t] \in Thread /\ s.prev_tcb[t] \in Thread /\ x \in ThreadState
        BY <1>2 DEF ThreadState
    <2>. QED BY <2>1, LeaveFields, SMTT(30)
<1>4. /\ s.next_tcb \in [Thread -> Thread \cup {NULL}]
      /\ s.prev_tcb \in [Thread -> Thread \cup {NULL}]
      /\ s.state \in [Thread -> ThreadState]
      /\ s.ThreadSchedule \in [Level -> Thread \cup {NULL}]
      /\ s.ActivePriorityCount \in [Level -> Nat]
    BY DEF SchedType
<1>. HIDE DEF r
<1>5. Linked(r) = L \ {t}
    BY <1>3, <1>4 DEF Linked, InRing
<1>6. \A q \in Level :
         /\ At(r, InRing, q) = At(s, InRing, q) \ {t}
         /\ At(r, {"ACTIVE"}, q) = At(s, {"ACTIVE"}, q)
    BY <1>3, <1>4 DEF At, InRing
<1>7. At(s, InRing, p) = At(s, {"ACTIVE"}, p) \cup {t}
    BY DEF At, InRing
<1>8. last <=> At(s, InRing, p) = {t}
    <2>1. last <=> At(s, {"ACTIVE"}, p) = {}
        BY <1>1, AtFinite, FS_EmptySet DEF RingsOK, RingCounts
    <2>2. t \notin At(s, {"ACTIVE"}, p)
        BY DEF At
    <2>. QED BY <2>1, <2>2, <1>7
<1>9. ~last => n # t /\ v # t
    <2>1. n = t => At(s, InRing, p) = {t}
        <3>. SUFFICES ASSUME n = t PROVE At(s, InRing, p) = {t}
            OBVIOUS
        <3>1. {t} \in SUBSET At(s, InRing, p)
            BY <1>7
        <3>2. {t} # {} /\ \A u \in {t} : s.next_tcb[u] \in {t}
            OBVIOUS
        <3>3. RingWhole(s)
            BY DEF RingsOK
        <3>. HIDE DEF n
        <3>. QED BY <3>1, <3>2, <3>3, <1>1 DEF RingWhole
    <2>. QED BY <2>1, <1>2, <1>8
<1>10. \A u \in L \ {t} : last => Priority[u] # p
    BY <1>8 DEF At, Linked
<1>11. RingLinks(r)
    <2>1. CASE last
        BY <2>1, <1>2, <1>3, <1>4, <1>5, <1>10 DEF RingsOK, RingLinks
    <2>2. CASE ~last
        BY <2>2, <1>2, <1>3, <1>4, <1>5, <1>9 DEF RingsOK, RingLinks
    <2>. QED BY <2>1, <2>2
<1>12. RingRoots(r)
    <2>. SUFFICES ASSUME NEW q \in Level
                  PROVE  IF At(r, InRing, q) = {} THEN r.ThreadSchedule[q] = NULL
                         ELSE r.ThreadSchedule[q] \in At(r, InRing, q)
        BY DEF RingRoots
    <2>1. CASE q # p
        <3>1. t \notin At(s, InRing, q)
            BY <2>1 DEF At
        <3>. QED BY <3>1, <2>1, <1>3, <1>4, <1>6 DEF RingsOK, RingRoots
    <2>2. CASE q = p /\ last
        BY <2>2, <1>3, <1>4, <1>6, <1>8
    <2>3. CASE q = p /\ ~last
        <3>1. n \in At(r, InRing, p)
            BY <2>3, <1>1, <1>2, <1>6, <1>9 DEF At, Linked
        <3>. QED BY <3>1, <2>3, <1>3, <1>4
    <2>. QED BY <2>1, <2>2, <2>3
<1>13. RingWhole(r)
    <2>. SUFFICES ASSUME NEW q \in Level, NEW S \in SUBSET At(r, InRing, q),
                         S # {}, \A u \in S : r.next_tcb[u] \in S
                  PROVE  S = At(r, InRing, q)
        BY DEF RingWhole
    <2>1. CASE q # p
        <3>1. \A u \in S : r.next_tcb[u] = s.next_tcb[u]
            BY <2>1, <1>2, <1>3, <1>4, <1>6 DEF At
        <3>2. At(r, InRing, q) = At(s, InRing, q)
            BY <2>1, <1>6 DEF At
        <3>. QED BY <3>1, <3>2 DEF RingsOK, RingWhole
    <2>2. CASE q = p /\ last
        BY <2>2, <1>6, <1>8
    <2>3. CASE q = p /\ ~last
        <3> DEFINE R == IF v \in S THEN S \cup {t} ELSE S
        <3>1. t \notin S /\ S \subseteq L
            BY <2>3, <1>6 DEF At, Linked
        <3>2. \A u \in S : u # v => s.next_tcb[u] \in S
            BY <3>1, <2>3, <1>2, <1>3, <1>4, <1>9
        <3>3. v \in S => n \in S
            BY <3>1, <2>3, <1>2, <1>3, <1>4, <1>9
        <3>4. R # {} /\ \A u \in R : s.next_tcb[u] \in R
            BY <3>1, <3>2, <3>3, <1>2
        <3>5. R \in SUBSET At(s, InRing, p)
            BY <2>3, <1>6, <1>7
        <3>6. R = At(s, InRing, p)
            BY <3>4, <3>5, <1>1 DEF RingsOK, RingWhole
        <3>. QED BY <3>1, <3>6, <2>3, <1>6, <1>7
    <2>. QED BY <2>1, <2>2, <2>3
<1>14. RingCounts(r)
    BY <1>3, <1>6 DEF RingsOK, RingCounts
<1>15. /\ r.next_tcb[t] = NULL
       /\ \A u \in Thread \ L : r.next_tcb[u] = s.next_tcb[u]
    BY <1>2, <1>3, <1>4
<1>. QED BY <1>3, <1>5, <1>11, <1>12, <1>13, <1>14, <1>15 DEF RingsOK, r

-----------------------------------------------------------------------------
(* schedule                                                                  *)

\* A non-empty set of naturals has a least member.
LEMMA LeastNatural ==
    \A S \in SUBSET Nat : S # {} => \E m \in S : \A k \in S : m <= k
<1>. SUFFICES ASSUME NEW S \in SUBSET Nat, S # {}
              PROVE  \E m \in S : \A k \in S : m <= k
    OBVIOUS
<1>1. IsWellFoundedOn(OpToRel(<, Nat), Nat)
    BY NatLessThanWellFounded
<1>2. PICK m \in S : \A k \in S : ~ (<<k, m>> \in OpToRel(<, Nat))
    BY <1>1, WFMin
<1>3. ASSUME NEW k \in S, k < m PROVE FALSE
    <2>1. <<k, m>> \in Nat \X Nat
        OBVIOUS
    <2>2. <<k, m>>[1] < <<k, m>>[2]
        BY <1>3
    <2>3. <<k, m>> \in OpToRel(<, Nat)
        BY <2>1, <2>2, Zenon DEF OpToRel
    <2>. QED BY <2>3, <1>2
<1>. QED BY <1>3

\* The search of schedule() ends at the most urgent level with a ready thread,
\* or at the idle level when there is none.
LEMMA TopLevelLeast ==
    ASSUME NEW s \in SchedType
    PROVE  LET p == TopLevel(s)
           IN  /\ p \in Level => s.ActivePriorityCount[p] > 0
               /\ p \in Level \cup {PRIORITY_LVL_CNT}
               /\ \A q \in Level : s.ActivePriorityCount[q] > 0 => p \in Level /\ p <= q
<1>1. CASE ReadyLevels(s) = {}
    <2>1. PRIORITY_LVL_CNT \notin Level
        BY LevelsAssumption DEF Level
    <2>. QED BY <1>1, <2>1 DEF TopLevel, ReadyLevels
<1>2. CASE ReadyLevels(s) # {}
    <2>1. ReadyLevels(s) \in SUBSET Nat
        BY LevelsAssumption DEF ReadyLevels, Level
    <2>2. \E p \in ReadyLevels(s) : \A q \in ReadyLevels(s) : p <= q
        BY <1>2, <2>1, LeastNatural
    <2>3. /\ TopLevel(s) \in ReadyLevels(s)
          /\ \A q \in ReadyLevels(s) : TopLevel(s) <= q
        BY <1>2, <2>2 DEF TopLevel
    <2>. QED BY <2>3 DEF ReadyLevels
<1>. QED BY <1>1, <1>2

\* Counting one thread more at a level leaves every count a natural number.
LEMMA Incremented ==
    \A f \in [Level -> Nat], l \in Level : [f EXCEPT ![l] = @ + 1] \in [Level -> Nat]
    OBVIOUS

\* The running thread counts among the ready ones again; no link changes.
LEMMA RequeueRings ==
    ASSUME NEW s \in SchedType, RingsOK(s),
           \A u \in Thread : s.state[u] = "RUNNING" => u = s.RunPt
    PROVE  LET r == Requeue(s)
           IN  /\ r \in SchedType
               /\ RingsOK(r)
               /\ Linked(r) = Linked(s)
               /\ r.state = [u \in Thread |->
                     IF s.state[u] = "RUNNING" THEN "ACTIVE" ELSE s.state[u]]
               /\ r.next_tcb = s.next_tcb
               /\ r.bthreads_root = s.bthreads_root
               /\ r.RunPt = s.RunPt /\ r.NextRunPt = s.NextRunPt
<1> DEFINE r == Requeue(s)
           t == s.RunPt
           p == Priority[t]
           b == [s.state EXCEPT ![t] = "ACTIVE"]
           c == [s.ActivePriorityCount EXCEPT ![p] = @ + 1]
<1>1. CASE ~(t \in Thread /\ s.state[t] = "RUNNING")
    <2>1. r = s
        BY <1>1 DEF Requeue
    <2>2. s.state = [u \in Thread |->
                        IF s.state[u] = "RUNNING" THEN "ACTIVE" ELSE s.state[u]]
        BY <1>1 DEF SchedType
    <2>. QED BY <2>1, <2>2
<1>2. CASE t \in Thread /\ s.state[t] = "RUNNING"
    <2>1. p \in Level
        BY <1>2, ThreadsAssumption
    <2>2. /\ s.state \in [Thread -> ThreadState]
          /\ s.ActivePriorityCount \in [Level -> Nat]
          /\ b \in [Thread -> ThreadState] /\ c \in [Level -> Nat]
        <3>1. s.state \in [Thread -> ThreadState] /\ s.ActivePriorityCount \in [Level -> Nat]
            BY DEF SchedType
        <3>2. b \in [Thread -> ThreadState]
            BY <3>1 DEF ThreadState
        <3>3. c \in [Level -> Nat]
            BY <3>1, <2>1, Incremented
        <3>. QED BY <3>1, <3>2, <3>3
    <2>3. r = [s EXCEPT !.state = b, !.ActivePriorityCount = c]
        BY <1>2 DEF Requeue
    <2>4. /\ r \in SchedType /\ r.state = b /\ r.ActivePriorityCount = c
          /\ r.next_tcb = s.next_tcb /\ r.prev_tcb = s.prev_tcb
          /\ r.ThreadSchedule = s.ThreadSchedule
          /\ r.bthreads_root = s.bthreads_root
          /\ r.RunPt = s.RunPt /\ r.NextRunPt = s.NextRunPt
        <3>. HIDE DEF b, c, r
        <3>. QED BY <2>2, <2>3 DEF SchedType
    <2>. HIDE DEF r
    <2>5. r.state = [u \in Thread |->
                        IF s.state[u] = "RUNNING" THEN "ACTIVE" ELSE s.state[u]]
        BY <2>2, <2>4, <1>2
    <2>6. Linked(r) = Linked(s) /\ \A q : At(r, InRing, q) = At(s, InRing, q)
        BY <2>2, <2>4, <1>2 DEF Linked, At, InRing
    <2>7. RingLinks(r) /\ RingRoots(r) /\ RingWhole(r)
        BY <2>4, <2>6 DEF RingsOK, RingLinks, RingRoots, RingWhole
    <2>8. RingCounts(r)
        <3>. SUFFICES ASSUME NEW q \in Level
                      PROVE  r.ActivePriorityCount[q] = Cardinality(At(r, {"ACTIVE"}, q))
            BY DEF RingCounts
        <3>1. At(r, {"ACTIVE"}, q) = IF q = p THEN At(s, {"ACTIVE"}, q) \cup {t}
                                     ELSE At(s, {"ACTIVE"}, q)
            BY <2>2, <2>4, <1>2 DEF At
        <3>2. t \notin At(s, {"ACTIVE"}, q)
            BY <1>2 DEF At
        <3>3. Cardinality(At(s, {"ACTIVE"}, q) \cup {t})
                 = Cardinality(At(s, {"ACTIVE"}, q)) + 1
            BY <3>2, AtFinite, FS_AddElement
        <3>. QED BY <3>1, <3>3, <2>1, <2>2, <2>4 DEF RingsOK, RingCounts
    <2>. QED BY <2>4, <2>5, <2>6, <2>7, <2>8 DEF RingsOK, r
<1>. QED BY <1>1, <1>2

\* The root of a ring with a positive count is a thread of that ring; it becomes
\* the RUNNING one and is counted no more.
LEMMA TakeRootRings ==
    ASSUME NEW s \in SchedType, RingsOK(s),
           \A u \in Thread : s.state[u] # "RUNNING",
           NEW p \in Level, s.ActivePriorityCount[p] > 0
    PROVE  LET r == TakeRoot(s, p)
               t == s.ThreadSchedule[p]
           IN  /\ r \in SchedType
               /\ RingsOK(r)
               /\ Linked(r) = Linked(s)
               /\ t \in Thread /\ Priority[t] = p /\ s.state[t] = "ACTIVE"
               /\ r.state = [s.state EXCEPT ![t] = "RUNNING"]
               /\ r.next_tcb = s.next_tcb
               /\ r.bthreads_root = s.bthreads_root
               /\ r.RunPt = s.RunPt /\ r.NextRunPt = s.NextRunPt /\ r.pendsv = s.pendsv
<1> DEFINE r == TakeRoot(s, p)
           t == s.ThreadSchedule[p]
           a == [s.ThreadSchedule EXCEPT ![p] = s.next_tcb[t]]
           b == [s.state EXCEPT ![t] = "RUNNING"]
           c == [s.ActivePriorityCount EXCEPT ![p] = @ - 1]
<1>1. /\ s.state \in [Thread -> ThreadState]
      /\ s.next_tcb \in [Thread -> Thread \cup {NULL}]
      /\ s.ThreadSchedule \in [Level -> Thread \cup {NULL}]
      /\ s.ActivePriorityCount \in [Level -> Nat]
    BY DEF SchedType
<1>2. At(s, {"ACTIVE"}, p) # {}
    BY FS_EmptySet DEF RingsOK, RingCounts
<1>3. /\ t \in At(s, InRing, p)
      /\ t \in Thread /\ Priority[t] = p /\ s.state[t] = "ACTIVE"
    BY <1>2 DEF RingsOK, RingRoots, At, InRing
<1>4. /\ s.next_tcb[t] \in Linked(s) /\ Priority[s.next_tcb[t]] = p
    BY <1>3 DEF RingsOK, RingLinks, Linked, At
<1>5. s.next_tcb[t] \in At(s, InRing, p)
    BY <1>4 DEF Linked, At
<1>6. /\ a \in [Level -> Thread \cup {NULL}]
      /\ b \in [Thread -> ThreadState]
      /\ c \in [Level -> Nat]
    BY <1>1, <1>3 DEF ThreadState
<1>7. r = [s EXCEPT !.ThreadSchedule = a, !.state = b, !.ActivePriorityCount = c]
    BY DEF TakeRoot
<1>8. /\ r \in SchedType /\ r.ThreadSchedule = a /\ r.state = b
      /\ r.ActivePriorityCount = c
      /\ r.next_tcb = s.next_tcb /\ r.prev_tcb = s.prev_tcb
      /\ r.bthreads_root = s.bthreads_root
      /\ r.RunPt = s.RunPt /\ r.NextRunPt = s.NextRunPt /\ r.pendsv = s.pendsv
    <2>. HIDE DEF a, b, c, r, t
    <2>. QED BY <1>6, <1>7 DEF SchedType
<1>. HIDE DEF r
<1>9. Linked(r) = Linked(s) /\ \A q : At(r, InRing, q) = At(s, InRing, q)
    BY <1>1, <1>3, <1>8 DEF Linked, At, InRing
<1>10. RingLinks(r) /\ RingWhole(r)
    BY <1>8, <1>9 DEF RingsOK, RingLinks, RingWhole
<1>11. RingRoots(r)
    BY <1>1, <1>3, <1>5, <1>8, <1>9 DEF RingsOK, RingRoots
<1>12. RingCounts(r)
    <2>. SUFFICES ASSUME NEW q \in Level
                  PROVE  r.ActivePriorityCount[q] = Cardinality(At(r, {"ACTIVE"}, q))
        BY DEF RingCounts
    <2>1. At(r, {"ACTIVE"}, q) = IF q = p THEN At(s, {"ACTIVE"}, q) \ {t}
                                 ELSE At(s, {"ACTIVE"}, q)
        BY <1>1, <1>3, <1>8 DEF At
    <2>2. t \in At(s, {"ACTIVE"}, p)
        BY <1>3 DEF At
    <2>3. Cardinality(At(s, {"ACTIVE"}, p) \ {t}) = Cardinality(At(s, {"ACTIVE"}, p)) - 1
        BY <2>2, AtFinite, FS_RemoveElement
    <2>. QED BY <2>1, <2>3, <1>1, <1>8 DEF RingsOK, RingCounts
<1>. QED BY <1>3, <1>8, <1>9, <1>10, <1>11, <1>12 DEF RingsOK, r

\* schedule() chooses a ready thread no less urgent than any other, which is
\* then the only RUNNING one, or idle if there is none, and requests PendSV.
LEMMA ScheduleRings ==
    ASSUME NEW s \in SchedType, RingsOK(s),
           \A u \in Thread : s.state[u] = "RUNNING" => u = s.RunPt
    PROVE  LET r == Schedule(s)
           IN  /\ r \in SchedType
               /\ RingsOK(r)
               /\ r.pendsv
               /\ r.RunPt = s.RunPt
               /\ r.NextRunPt \in Thread \cup {IdleThread}
               /\ r.next_tcb = s.next_tcb
               /\ r.bthreads_root = s.bthreads_root
               /\ \A u \in Thread : r.state[u] = "RUNNING" <=> u = r.NextRunPt
               /\ \A u \in Thread : r.state[u] \in InRing <=> s.state[u] \in InRing
               /\ \A u \in Thread : s.state[u] \notin InRing => r.state[u] = s.state[u]
               /\ \A u \in Thread : r.state[u] = "ACTIVE" =>
                     /\ r.NextRunPt \in Thread
                     /\ Priority[r.NextRunPt] <= Priority[u]
<1> DEFINE q == Requeue(s)
           p == TopLevel(q)
           t == q.ThreadSchedule[p]
           k == TakeRoot(q, p)
           r == Schedule(s)
<1>1. /\ q \in SchedType /\ RingsOK(q)
      /\ q.state = [u \in Thread |->
                       IF s.state[u] = "RUNNING" THEN "ACTIVE" ELSE s.state[u]]
      /\ q.next_tcb = s.next_tcb
      /\ q.bthreads_root = s.bthreads_root
      /\ q.RunPt = s.RunPt
    BY RequeueRings
<1>2. /\ p \in Level => q.ActivePriorityCount[p] > 0
      /\ p \in Level \cup {PRIORITY_LVL_CNT}
      /\ \A l \in Level : q.ActivePriorityCount[l] > 0 => p \in Level /\ p <= l
    BY <1>1, TopLevelLeast
<1>3. \A u \in Thread : q.state[u] = "ACTIVE" => p \in Level /\ p <= Priority[u]
    <2>. SUFFICES ASSUME NEW u \in Thread, q.state[u] = "ACTIVE"
                  PROVE  p \in Level /\ p <= Priority[u]
        OBVIOUS
    <2>1. Priority[u] \in Level
        BY ThreadsAssumption
    <2>2. u \in At(q, {"ACTIVE"}, Priority[u])
        BY DEF At
    <2>3. q.ActivePriorityCount[Priority[u]] # 0
        BY <2>1, <2>2, <1>1, AtFinite, FS_EmptySet DEF RingsOK, RingCounts
    <2>4. q.ActivePriorityCount[Priority[u]] \in Nat
        BY <2>1, <1>1 DEF SchedType
    <2>. QED BY <2>1, <2>3, <2>4, <1>2
<1>4. PRIORITY_LVL_CNT \notin Level
    BY LevelsAssumption DEF Level
<1>. HIDE DEF q, p
<1>5. CASE p = PRIORITY_LVL_CNT
    <2>1. r = [q EXCEPT !.NextRunPt = IdleThread, !.pendsv = TRUE]
        BY <1>5 DEF Schedule, q, p
    <2>. HIDE DEF r
    <2>2. /\ r \in SchedType /\ r.pendsv /\ r.NextRunPt = IdleThread
          /\ r.RunPt = q.RunPt /\ r.state = q.state
          /\ r.next_tcb = q.next_tcb /\ r.prev_tcb = q.prev_tcb
          /\ r.ThreadSchedule = q.ThreadSchedule
          /\ r.ActivePriorityCount = q.ActivePriorityCount
          /\ r.bthreads_root = q.bthreads_root
        BY <2>1, <1>1 DEF SchedType
    <2>3. RingsOK(r)
        BY <2>2, <1>1, RingsFrame
    <2>. QED BY <2>2, <2>3, <1>1, <1>3, <1>4, <1>5, ThreadsAssumption DEF InRing, r
<1>6. CASE p # PRIORITY_LVL_CNT
    <2>1. r = [k EXCEPT !.NextRunPt = t, !.pendsv = TRUE]
        BY <1>6 DEF Schedule, q, p
    <2>2. p \in Level /\ q.ActivePriorityCount[p] > 0
        BY <1>2, <1>6
    <2>3. /\ k \in SchedType /\ RingsOK(k)
          /\ t \in Thread /\ Priority[t] = p /\ q.state[t] = "ACTIVE"
          /\ k.state = [q.state EXCEPT ![t] = "RUNNING"]
          /\ k.next_tcb = q.next_tcb
          /\ k.bthreads_root = q.bthreads_root
          /\ k.RunPt = q.RunPt
        BY <2>2, <1>1, TakeRootRings
    <2>. HIDE DEF r, k, t
    <2>4. /\ r \in SchedType /\ r.pendsv /\ r.NextRunPt = t
          /\ r.RunPt = k.RunPt /\ r.state = k.state
          /\ r.next_tcb = k.next_tcb /\ r.prev_tcb = k.prev_tcb
          /\ r.ThreadSchedule = k.ThreadSchedule
          /\ r.ActivePriorityCount = k.ActivePriorityCount
          /\ r.bthreads_root = k.bthreads_root
        BY <2>1, <2>3 DEF SchedType
    <2>5. RingsOK(r)
        BY <2>4, <2>3, RingsFrame
    <2>. QED BY <2>3, <2>4, <2>5, <1>1, <1>3 DEF InRing, r
<1>. QED BY <1>5, <1>6

\* init_scheduler chooses like schedule() and switches at once.
LEMMA LaunchRings ==
    ASSUME NEW s \in SchedType, RingsOK(s),
           \A u \in Thread : s.state[u] # "RUNNING"
    PROVE  LET r == Launch(s)
           IN  /\ r \in SchedType
               /\ RingsOK(r)
               /\ r.pendsv = s.pendsv
               /\ r.RunPt \in Thread \cup {IdleThread}
               /\ r.next_tcb = s.next_tcb
               /\ r.bthreads_root = s.bthreads_root
               /\ \A u \in Thread : r.state[u] = "RUNNING" <=> u = r.RunPt
               /\ \A u \in Thread : s.state[u] \notin InRing => r.state[u] = s.state[u]
               /\ \A u \in Thread : r.state[u] \in InRing <=> s.state[u] \in InRing
<1> DEFINE p == TopLevel(s)
           t == s.ThreadSchedule[p]
           k == TakeRoot(s, p)
           r == Launch(s)
<1>1. /\ p \in Level => s.ActivePriorityCount[p] > 0
      /\ p \in Level \cup {PRIORITY_LVL_CNT}
    BY TopLevelLeast
<1>. HIDE DEF p
<1>2. CASE p = PRIORITY_LVL_CNT
    <2>1. r = [s EXCEPT !.RunPt = IdleThread]
        BY <1>2 DEF Launch, p
    <2>. HIDE DEF r
    <2>2. /\ r \in SchedType /\ r.pendsv = s.pendsv /\ r.RunPt = IdleThread
          /\ r.state = s.state
          /\ r.next_tcb = s.next_tcb /\ r.prev_tcb = s.prev_tcb
          /\ r.ThreadSchedule = s.ThreadSchedule
          /\ r.ActivePriorityCount = s.ActivePriorityCount
          /\ r.bthreads_root = s.bthreads_root
        BY <2>1 DEF SchedType
    <2>3. RingsOK(r)
        BY <2>2, RingsFrame
    <2>. QED BY <2>2, <2>3, ThreadsAssumption DEF r
<1>3. CASE p # PRIORITY_LVL_CNT
    <2>1. r = [k EXCEPT !.RunPt = t]
        BY <1>3 DEF Launch, p
    <2>2. p \in Level /\ s.ActivePriorityCount[p] > 0
        BY <1>1, <1>3
    <2>3. /\ k \in SchedType /\ RingsOK(k)
          /\ t \in Thread /\ s.state[t] = "ACTIVE"
          /\ k.state = [s.state EXCEPT ![t] = "RUNNING"]
          /\ k.next_tcb = s.next_tcb
          /\ k.bthreads_root = s.bthreads_root
          /\ k.pendsv = s.pendsv
        BY <2>2, TakeRootRings
    <2>. HIDE DEF r, k, t
    <2>4. /\ r \in SchedType /\ r.pendsv = k.pendsv /\ r.RunPt = t
          /\ r.state = k.state
          /\ r.next_tcb = k.next_tcb /\ r.prev_tcb = k.prev_tcb
          /\ r.ThreadSchedule = k.ThreadSchedule
          /\ r.ActivePriorityCount = k.ActivePriorityCount
          /\ r.bthreads_root = k.bthreads_root
        BY <2>1, <2>3 DEF SchedType
    <2>5. RingsOK(r)
        BY <2>4, <2>3, RingsFrame
    <2>6. s.state \in [Thread -> ThreadState]
        BY DEF SchedType
    <2>. QED BY <2>3, <2>4, <2>5, <2>6 DEF InRing, r
<1>. QED BY <1>2, <1>3

-----------------------------------------------------------------------------
(* the blocked lists                                                         *)

BlockedOK(s) ==
    BlockedLinks(s) /\ BlockedApart(s) /\ BlockedEnds(s) /\ BlockedSorted(s)

\* BlockedOK speaks of the heads and of the links of blocked threads only.
LEMMA BlockedFrame ==
    ASSUME NEW s, NEW r, BlockedOK(s),
           Blocked(r) = Blocked(s), r.bthreads_root = s.bthreads_root,
           \A t \in Blocked(s) : r.next_tcb[t] = s.next_tcb[t]
    PROVE  BlockedOK(r)
<1>1. BlockedLinks(r)
    BY DEF BlockedOK, BlockedLinks
<1>2. BlockedApart(r)
    BY DEF BlockedOK, BlockedApart
<1>3. BlockedEnds(r)
    BY DEF BlockedOK, BlockedEnds
<1>4. BlockedSorted(r)
    BY DEF BlockedOK, BlockedSorted
<1>. QED BY <1>1, <1>2, <1>3, <1>4 DEF BlockedOK

\* A walk never leaves a set that is closed under next, and goes on until NULL.
LEMMA ChainClosed ==
    ASSUME NEW next, NEW root \in Thread, NEW B \in SUBSET Thread,
           root \in B, \A u \in B : next[u] \in B \cup {NULL}
    PROVE  /\ Chain(next, root) \subseteq B
           /\ root \in Chain(next, root)
           /\ \A u \in Chain(next, root) : next[u] \in Chain(next, root) \cup {NULL}
<1>0. root # NULL
    BY ThreadsAssumption
<1>1. Chain(next, root) \subseteq B
    BY <1>0 DEF Chain
<1>2. root \in Chain(next, root)
    BY <1>0 DEF Chain
<1>3. ASSUME NEW u \in Chain(next, root), next[u] # NULL
      PROVE  next[u] \in Chain(next, root)
    <2>1. next[u] \in Thread
        BY <1>1, <1>3
    <2>2. ASSUME NEW S \in SUBSET Thread,
                 root \in S, \A w \in S : next[w] \in S \cup {NULL}
          PROVE  next[u] \in S
        <3>1. u \in S
            BY <1>0, <2>2 DEF Chain
        <3>. QED BY <3>1, <2>2, <1>3
    <2>. QED BY <1>0, <2>1, <2>2 DEF Chain
<1>. QED BY <1>1, <1>2, <1>3

\* A walk round the ring of a level meets the threads of that level that are
\* ready or running, and can be taken backwards.
LEMMA RingChain ==
    ASSUME NEW s, RingsOK(s), NEW p \in Level
    PROVE  /\ Chain(s.next_tcb, s.ThreadSchedule[p]) = At(s, InRing, p)
           /\ \A t \in At(s, InRing, p) :
                 /\ s.prev_tcb[t] \in At(s, InRing, p)
                 /\ s.next_tcb[s.prev_tcb[t]] = t
                 /\ s.prev_tcb[s.next_tcb[t]] = t
<1> DEFINE R == At(s, InRing, p)
           root == s.ThreadSchedule[p]
           C == Chain(s.next_tcb, root)
<1>1. RingLinks(s) /\ RingRoots(s) /\ RingWhole(s) /\ NULL \notin Thread
    BY ThreadsAssumption DEF RingsOK
<1>2. R \subseteq Thread
    BY DEF At
<1>3. \A t \in R : /\ t \in Linked(s)
                   /\ s.next_tcb[t] \in R
    BY <1>1 DEF RingLinks, At, Linked
<1>4. \A t \in R : /\ s.prev_tcb[t] \in R
                   /\ s.next_tcb[s.prev_tcb[t]] = t
                   /\ s.prev_tcb[s.next_tcb[t]] = t
    <2>. SUFFICES ASSUME NEW t \in R
                  PROVE  /\ s.prev_tcb[t] \in R
                         /\ s.next_tcb[s.prev_tcb[t]] = t
                         /\ s.prev_tcb[s.next_tcb[t]] = t
        OBVIOUS
    <2>1. /\ s.prev_tcb[t] \in Linked(s)
          /\ s.next_tcb[s.prev_tcb[t]] = t
          /\ s.prev_tcb[s.next_tcb[t]] = t
        BY <1>1, <1>3 DEF RingLinks
    <2>2. Priority[s.prev_tcb[t]] = p
        BY <2>1, <1>1 DEF RingLinks, At
    <2>. QED BY <2>1, <2>2 DEF At, Linked
<1>5. CASE R = {}
    <2>1. root = NULL
        BY <1>5, <1>1 DEF RingRoots
    <2>. QED BY <2>1, <1>5 DEF Chain
<1>6. CASE R # {}
    <2>1. root \in R /\ root \in Thread
        BY <1>6, <1>1, <1>2 DEF RingRoots
    <2>. HIDE DEF R, root
    <2>2. /\ C \subseteq R /\ root \in C
          /\ \A u \in C : s.next_tcb[u] \in C \cup {NULL}
        BY <2>1, <1>2, <1>3, ChainClosed
    <2>3. \A u \in C : s.next_tcb[u] \in C
        BY <2>2, <1>1, <1>2, <1>3
    <2>. HIDE DEF C
    <2>4. C = R
        BY <2>2, <2>3, <1>1 DEF RingWhole, R
    <2>. QED BY <2>4, <1>4 DEF C, R, root
<1>. QED BY <1>5, <1>6

\* The nodes B of NULL-terminated lists that do not join and are sorted by key.
Forest(next, B, key) ==
    /\ \A u \in B : next[u] \in B \cup {NULL}
    /\ \A u, v \in B : next[u] = next[v] => u = v \/ next[u] = NULL
    /\ \A S \in SUBSET B : S # {} => \E u \in S : next[u] \notin S
    /\ \A u \in B : next[u] # NULL => key[u] <= key[next[u]]

\* The outcome r of InsertSorted(next, root, key, t) on nodes of B.
Inserted(r, next, root, B, key, t) ==
    \/ root = NULL /\ r.root = t /\ r.next_tcb = next
    \/ /\ root # NULL /\ key[t] < key[root]
       /\ r.root = t /\ r.next_tcb = [next EXCEPT ![t] = root]
    \/ /\ root # NULL /\ r.root = root
       /\ \E node \in B :
             /\ key[node] <= key[t]
             /\ next[node] # NULL => key[t] < key[next[node]]
             /\ r.next_tcb = [next EXCEPT ![t] = next[node], ![node] = t]

\* The node to insert after exists because the list ends: from the nodes that t
\* must follow some link leads out.
LEMMA InsertSortedEffect ==
    ASSUME NEW next \in [Thread -> Thread \cup {NULL}], NEW B \in SUBSET Thread,
           NEW root \in B \cup {NULL},
           NEW key \in [Thread -> Int], NEW t \in Thread,
           Forest(next, B, key)
    PROVE  Inserted(InsertSorted(next, root, key, t), next, root, B, key, t)
<1> DEFINE r == InsertSorted(next, root, key, t)
<1>. SUFFICES Inserted(r, next, root, B, key, t)
    OBVIOUS
<1>1. CASE root = NULL
    BY <1>1 DEF InsertSorted, Inserted
<1>2. CASE root # NULL /\ key[t] < key[root]
    BY <1>2 DEF InsertSorted, Inserted
<1>3. CASE root # NULL /\ ~(key[t] < key[root])
    <2> DEFINE Before(n) == /\ key[n] <= key[t]
                            /\ next[n] # NULL => key[t] < key[next[n]]
               C == Chain(next, root)
    <2>1. root \in B /\ root \in Thread
        BY <1>3
    <2>2. /\ C \subseteq B /\ root \in C
          /\ \A u \in C : next[u] \in C \cup {NULL}
        BY <2>1, ChainClosed DEF Forest
    <2>3. \E n \in C : Before(n)
        <3> DEFINE S == {u \in C : key[u] <= key[t]}
        <3>1. S \in SUBSET B /\ S # {}
            BY <1>3, <2>1, <2>2
        <3>2. PICK n \in S : next[n] \notin S
            BY <3>1 DEF Forest
        <3>3. next[n] # NULL => next[n] \in C /\ next[n] \in Thread /\ ~(key[next[n]] <= key[t])
            BY <3>2, <2>2
        <3>. QED BY <3>2, <3>3
    <2> DEFINE node == CHOOSE n \in C : Before(n)
    <2>4. node \in C /\ Before(node)
        BY <2>3
    <2>5. InsertSorted(next, root, key, t)
             = [next_tcb |-> [next EXCEPT ![t] = next[node], ![node] = t], root |-> root]
        BY <1>3 DEF InsertSorted
    <2>6. r.root = root /\ r.next_tcb = [next EXCEPT ![t] = next[node], ![node] = t]
        <3>. HIDE DEF node
        <3>. QED BY <2>5
    <2>7. node \in B
        BY <2>2, <2>4
    <2>. HIDE DEF node, C, r
    <2>8. \E n \in B : /\ key[n] <= key[t]
                       /\ next[n] # NULL => key[t] < key[next[n]]
                       /\ r.next_tcb = [next EXCEPT ![t] = next[n], ![n] = t]
        BY <2>4, <2>6, <2>7
    <2>. QED BY <1>3, <2>6, <2>8 DEF Inserted
<1>. QED BY <1>1, <1>2, <1>3

\* r holds the lists of B with t inserted in the one that began at root.
ForestWith(r, next, root, B, key, t) ==
    /\ r.next_tcb \in [Thread -> Thread \cup {NULL}]
    /\ Forest(r.next_tcb, B \cup {t}, key)
    /\ r.root \in B \cup {t} /\ (r.root = root \/ r.root = t)
    /\ \A u \in B \cup {t} : r.next_tcb[u] # r.root
    /\ \A u \in B \cup {t} : r.next_tcb[u] \in {next[v] : v \in B} \cup {root, t, NULL}
    /\ \A u \in Thread \ (B \cup {t}) : r.next_tcb[u] = next[u]

\* InsertSorted adds t to the list of root and keeps all that Forest says.
LEMMA InsertSortedForest ==
    ASSUME NEW next \in [Thread -> Thread \cup {NULL}], NEW B \in SUBSET Thread,
           NEW key \in [Thread -> Int], NEW t \in Thread, t \notin B,
           NEW root \in B \cup {NULL}, \A u \in B : next[u] = root => root = NULL,
           next[t] = NULL,
           Forest(next, B, key)
    PROVE  ForestWith(InsertSorted(next, root, key, t), next, root, B, key, t)
<1> DEFINE r == InsertSorted(next, root, key, t)
<1>. SUFFICES ForestWith(r, next, root, B, key, t)
    OBVIOUS
<1>0. NULL \notin Thread
    BY ThreadsAssumption
<1>1. PICK nx, head : nx = r.next_tcb /\ head = r.root
    OBVIOUS
<1>2. \/ root = NULL /\ head = t /\ nx = next
      \/ /\ root # NULL /\ key[t] < key[root]
         /\ head = t /\ nx = [next EXCEPT ![t] = root]
      \/ /\ root # NULL /\ head = root
         /\ \E node \in B :
               /\ key[node] <= key[t]
               /\ next[node] # NULL => key[t] < key[next[node]]
               /\ nx = [next EXCEPT ![t] = next[node], ![node] = t]
    <2>1. Inserted(r, next, root, B, key, t)
        BY InsertSortedEffect
    <2>. HIDE DEF r
    <2>. QED BY <1>1, <2>1 DEF Inserted
<1>. HIDE DEF r
<1> DEFINE Goal ==
        /\ nx \in [Thread -> Thread \cup {NULL}]
        /\ \A u \in B \cup {t} : nx[u] \in B \cup {t, NULL}
        /\ \A u, v \in B \cup {t} : nx[u] = nx[v] => u = v \/ nx[u] = NULL
        /\ \A u \in B \cup {t} : nx[u] # NULL => key[u] <= key[nx[u]]
        /\ head \in B \cup {t} /\ (head = root \/ head = t)
        /\ \A u \in B \cup {t} : nx[u] # head
        /\ \A u \in B \cup {t} : nx[u] \in {next[v] : v \in B} \cup {root, t, NULL}
        /\ \A u \in Thread \ (B \cup {t}) : nx[u] = next[u]
        /\ \A S \in SUBSET (B \cup {t}) : S # {} => \E u \in S : nx[u] \notin S
<1>3. CASE root = NULL /\ head = t /\ nx = next
    <2>1. ASSUME NEW S \in SUBSET (B \cup {t}), S # {}
          PROVE  \E u \in S : nx[u] \notin S
        <3>1. CASE t \in S
            BY <3>1, <1>0, <1>3
        <3>2. CASE t \notin S
            BY <2>1, <3>2, <1>3 DEF Forest
        <3>. QED BY <3>1, <3>2
    <2>2. Goal
        BY <2>1, <1>0, <1>3 DEF Forest
    <2>. QED BY <2>2, <1>1 DEF Forest, ForestWith
<1>4. CASE /\ root # NULL /\ key[t] < key[root]
           /\ head = t /\ nx = [next EXCEPT ![t] = root]
    <2>1. nx[t] = root /\ \A u \in Thread : u # t => nx[u] = next[u]
        BY <1>4
    <2>2. ASSUME NEW S \in SUBSET (B \cup {t}), S # {}
          PROVE  \E u \in S : nx[u] \notin S
        <3>1. CASE S \cap B = {}
            BY <2>1, <2>2, <3>1, <1>4
        <3>2. CASE S \cap B # {}
            <4>1. PICK u \in S \cap B : next[u] \notin S \cap B
                BY <3>2 DEF Forest
            <4>. QED BY <4>1, <2>1, <1>0 DEF Forest
        <3>. QED BY <3>1, <3>2
    <2>3. Goal
        BY <2>1, <2>2, <1>0, <1>4 DEF Forest
    <2>. QED BY <2>3, <1>1 DEF Forest, ForestWith
<1>5. CASE /\ root # NULL /\ head = root
           /\ \E node \in B :
                 /\ key[node] <= key[t]
                 /\ next[node] # NULL => key[t] < key[next[node]]
                 /\ nx = [next EXCEPT ![t] = next[node], ![node] = t]
    <2>1. PICK node \in B :
             /\ key[node] <= key[t]
             /\ next[node] # NULL => key[t] < key[next[node]]
             /\ nx = [next EXCEPT ![t] = next[node], ![node] = t]
        BY <1>5
    <2>2. /\ nx[t] = next[node] /\ nx[node] = t
          /\ \A u \in Thread : u # t /\ u # node => nx[u] = next[u]
          /\ nx \in [Thread -> Thread \cup {NULL}]
        BY <2>1
    <2>3. ASSUME NEW S \in SUBSET (B \cup {t}), S # {}
          PROVE  \E u \in S : nx[u] \notin S
        <3>1. CASE S \cap B = {}
            <4>1. nx[t] \notin S
                BY <2>2, <2>3, <3>1, <1>0 DEF Forest
            <4>. QED BY <2>3, <3>1, <4>1
        <3>2. CASE S \cap B # {}
            <4>1. PICK u \in S \cap B : next[u] \notin S \cap B
                BY <3>2 DEF Forest
            <4>2. next[u] \notin S
                BY <4>1, <1>0 DEF Forest
            <4>3. CASE u = node
                BY <4>2, <4>3, <2>2
            <4>4. CASE u # node
                BY <4>2, <4>4, <2>2
            <4>. QED BY <4>3, <4>4
        <3>. QED BY <3>1, <3>2
    <2>4. Goal
        <3>1. \A u \in B \cup {t} : nx[u] \in B \cup {t, NULL}
            BY <2>1, <2>2 DEF Forest
        <3>2. \A u, v \in B \cup {t} : nx[u] = nx[v] => u = v \/ nx[u] = NULL
            BY <2>1, <2>2, <1>0 DEF Forest
        <3>3. \A u \in B \cup {t} : nx[u] # NULL => key[u] <= key[nx[u]]
            BY <2>1, <2>2, <1>0 DEF Forest
        <3>4. \A u \in B \cup {t} : nx[u] # head
            BY <2>1, <2>2, <1>0, <1>5 DEF Forest
        <3>5. \A u \in B \cup {t} : nx[u] \in {next[v] : v \in B} \cup {root, t, NULL}
            BY <2>1, <2>2
        <3>. QED BY <2>1, <2>2, <2>3, <3>1, <3>2, <3>3, <3>4, <3>5, <1>5
    <2>. QED BY <2>4, <1>1 DEF Forest, ForestWith
<1>. QED BY <1>2, <1>3, <1>4, <1>5

\* The blocked lists are a forest with one root per semaphore.
LEMMA BlockedForest ==
    ASSUME NEW s
    PROVE  BlockedOK(s) <=>
              /\ Forest(s.next_tcb, Blocked(s), Priority)
              /\ \A i \in Sem : s.bthreads_root[i] \in Blocked(s) \cup {NULL}
              /\ \A i, j \in Sem : s.bthreads_root[i] = s.bthreads_root[j] =>
                    i = j \/ s.bthreads_root[i] = NULL
              /\ \A i \in Sem, u \in Blocked(s) : s.next_tcb[u] = s.bthreads_root[i] =>
                    s.bthreads_root[i] = NULL
    BY DEF BlockedOK, BlockedLinks, BlockedApart, BlockedEnds, BlockedSorted, Forest

\* From s to d the thread t became BLOCKED and is on no list yet.
JustBlocked(s, d, t) ==
    /\ t \notin Blocked(s) /\ Blocked(d) = Blocked(s) \cup {t}
    /\ d.bthreads_root = s.bthreads_root
    /\ d.next_tcb[t] = NULL
    /\ \A u \in Blocked(s) : d.next_tcb[u] = s.next_tcb[u]

\* From d to e the thread t was put on the list of sem.
Spliced(d, e, t, sem) ==
    LET list == InsertSorted(d.next_tcb, d.bthreads_root[sem], Priority, t)
    IN  /\ e.next_tcb = list.next_tcb
        /\ e.bthreads_root = [d.bthreads_root EXCEPT ![sem] = list.root]
        /\ e.state = d.state

\* The insertion of t, whose state is BLOCKED in d but was not in s, into the
\* list of sem: the lists of s stay apart, sorted and finite, t in one of them.
LEMMA InsertBlocked ==
    ASSUME NEW s \in SchedType, BlockedOK(s),
           NEW d \in SchedType, NEW t \in Thread, NEW sem \in Sem, NEW e,
           JustBlocked(s, d, t), Spliced(d, e, t, sem)
    PROVE  /\ e.next_tcb \in [Thread -> Thread \cup {NULL}]
           /\ e.bthreads_root \in [Sem -> Thread \cup {NULL}]
           /\ BlockedOK(e)
           /\ \A u \in Thread \ Blocked(d) : e.next_tcb[u] = d.next_tcb[u]
<1>0. PICK list :
         /\ list = InsertSorted(d.next_tcb, d.bthreads_root[sem], Priority, t)
         /\ e.next_tcb = list.next_tcb /\ e.state = d.state
         /\ e.bthreads_root = [d.bthreads_root EXCEPT ![sem] = list.root]
    BY DEF Spliced
<1>1. PICK B, root, heads, next, nx :
         /\ B = Blocked(s) /\ root = d.bthreads_root[sem] /\ heads = d.bthreads_root
         /\ next = d.next_tcb /\ nx = e.next_tcb
    OBVIOUS
<1>2. B \in SUBSET Thread /\ NULL \notin Thread
    BY <1>1, ThreadsAssumption DEF Blocked
<1>3. /\ next \in [Thread -> Thread \cup {NULL}]
      /\ heads \in [Sem -> Thread \cup {NULL}]
      /\ Priority \in [Thread -> Int]
    BY <1>1, LevelsAssumption, ThreadsAssumption DEF SchedType, Level
<1>4. /\ Forest(next, B, Priority)
      /\ \A i \in Sem : heads[i] \in B \cup {NULL}
      /\ \A i, j \in Sem : heads[i] = heads[j] => i = j \/ heads[i] = NULL
      /\ \A i \in Sem, u \in B : next[u] = heads[i] => heads[i] = NULL
    <2>1. heads = s.bthreads_root
        BY <1>1 DEF JustBlocked
    <2>2. /\ Forest(s.next_tcb, B, Priority)
          /\ \A i \in Sem : heads[i] \in B \cup {NULL}
          /\ \A i, j \in Sem : heads[i] = heads[j] => i = j \/ heads[i] = NULL
          /\ \A i \in Sem, u \in B : s.next_tcb[u] = heads[i] => heads[i] = NULL
        BY <1>1, <2>1, BlockedForest
    <2>3. \A u \in B : next[u] = s.next_tcb[u]
        BY <1>1 DEF JustBlocked
    <2>. QED BY <2>2, <2>3 DEF Forest
<1>5. /\ nx \in [Thread -> Thread \cup {NULL}]
      /\ Forest(nx, B \cup {t}, Priority)
      /\ list.root \in B \cup {t} /\ (list.root = root \/ list.root = t)
      /\ \A u \in B \cup {t} : nx[u] # list.root
      /\ \A u \in B \cup {t} : nx[u] \in {next[v] : v \in B} \cup {root, t, NULL}
      /\ \A u \in Thread \ (B \cup {t}) : nx[u] = next[u]
    <2>1. /\ t \notin B /\ next[t] = NULL
          /\ root \in B \cup {NULL}
          /\ \A u \in B : next[u] = root => root = NULL
        BY <1>1, <1>4 DEF JustBlocked
    <2>2. list = InsertSorted(next, root, Priority, t) /\ nx = list.next_tcb
        BY <1>0, <1>1
    <2>3. ForestWith(list, next, root, B, Priority, t)
        BY <1>2, <1>3, <1>4, <2>1, <2>2, InsertSortedForest
    <2>. QED BY <2>2, <2>3 DEF ForestWith
<1> DEFINE roots == [heads EXCEPT ![sem] = list.root]
<1>6. /\ roots \in [Sem -> Thread \cup {NULL}]
      /\ roots[sem] = list.root /\ \A i \in Sem : i # sem => roots[i] = heads[i]
    BY <1>2, <1>3, <1>5
<1>7. root = heads[sem]
    BY <1>1
<1>. HIDE DEF roots
<1>8. /\ \A i \in Sem : roots[i] \in B \cup {t, NULL}
      /\ \A i, j \in Sem : roots[i] = roots[j] => i = j \/ roots[i] = NULL
      /\ \A i \in Sem, u \in B \cup {t} : nx[u] = roots[i] => roots[i] = NULL
    <2>1. t \notin B
        BY <1>1 DEF JustBlocked
    <2>. QED BY <2>1, <1>4, <1>5, <1>6, <1>7
<1>9. Blocked(e) = B \cup {t} /\ e.bthreads_root = roots
    BY <1>0, <1>1 DEF Blocked, JustBlocked, roots
<1>10. BlockedOK(e)
    BY <1>1, <1>5, <1>8, <1>9, BlockedForest
<1>11. \A u \in Thread \ Blocked(d) : e.next_tcb[u] = d.next_tcb[u]
    BY <1>1, <1>5 DEF JustBlocked
<1>. QED BY <1>1, <1>5, <1>6, <1>9, <1>10, <1>11

\* When the head of a list leaves it, what the lists keep is kept.
LEMMA HeadGone ==
    ASSUME NEW s, BlockedOK(s), NEW sem \in Sem,
           NEW t \in Blocked(s), t = s.bthreads_root[sem],
           NEW r, Blocked(r) = Blocked(s) \ {t},
           \A u \in Blocked(r) : r.next_tcb[u] = s.next_tcb[u],
           r.bthreads_root[sem] = s.next_tcb[t],
           \A i \in Sem : i # sem => r.bthreads_root[i] = s.bthreads_root[i]
    PROVE  BlockedOK(r)
<1>0. t # NULL
    BY ThreadsAssumption DEF Blocked
<1>1. /\ Forest(s.next_tcb, Blocked(s), Priority)
      /\ \A i \in Sem : s.bthreads_root[i] \in Blocked(s) \cup {NULL}
      /\ \A i, j \in Sem : s.bthreads_root[i] = s.bthreads_root[j] =>
            i = j \/ s.bthreads_root[i] = NULL
      /\ \A i \in Sem, u \in Blocked(s) : s.next_tcb[u] = s.bthreads_root[i] =>
            s.bthreads_root[i] = NULL
    BY BlockedForest
<1>2. \A u \in Blocked(s) : s.next_tcb[u] # t
    BY <1>0, <1>1
<1>3. Forest(r.next_tcb, Blocked(r), Priority)
    <2>1. \A u \in Blocked(r) : r.next_tcb[u] \in Blocked(r) \cup {NULL}
        BY <1>1, <1>2 DEF Forest
    <2>2. \A u, v \in Blocked(r) : r.next_tcb[u] = r.next_tcb[v] =>
              u = v \/ r.next_tcb[u] = NULL
        BY <1>1 DEF Forest
    <2>3. \A S \in SUBSET Blocked(r) : S # {} => \E u \in S : r.next_tcb[u] \notin S
        BY <1>1 DEF Forest
    <2>4. \A u \in Blocked(r) : r.next_tcb[u] # NULL =>
              Priority[u] <= Priority[r.next_tcb[u]]
        BY <1>1 DEF Forest
    <2>. QED BY <2>1, <2>2, <2>3, <2>4 DEF Forest
<1>4. \A i \in Sem : r.bthreads_root[i] \in Blocked(r) \cup {NULL}
    BY <1>0, <1>1, <1>2 DEF Forest
<1>5. \A i, j \in Sem : r.bthreads_root[i] = r.bthreads_root[j] =>
          i = j \/ r.bthreads_root[i] = NULL
    BY <1>0, <1>1
<1>6. \A i \in Sem, u \in Blocked(r) : r.next_tcb[u] = r.bthreads_root[i] =>
          r.bthreads_root[i] = NULL
    BY <1>0, <1>1 DEF Forest
<1>. QED BY <1>3, <1>4, <1>5, <1>6, BlockedForest

-----------------------------------------------------------------------------
(* sched_block and sched_unblock                                             *)

\* What sched_block does before it calls schedule(): d after the running thread
\* has left its ring, e after it has joined the list of sem.
BlockedIn(s, sem, d, e) ==
    /\ d = Leave(s, s.RunPt, "BLOCKED") /\ RingsOK(d)
    /\ d \in SchedType /\ d.next_tcb[s.RunPt] = NULL
    /\ d.state = [s.state EXCEPT ![s.RunPt] = "BLOCKED"]
    /\ d.bthreads_root = s.bthreads_root
    /\ \A u \in Thread \ Linked(s) : d.next_tcb[u] = s.next_tcb[u]
    /\ Spliced(d, e, s.RunPt, sem)
    /\ e \in SchedType /\ RingsOK(e) /\ BlockedOK(e)
    /\ e.ThreadSchedule = d.ThreadSchedule /\ e.RunPt = s.RunPt
    /\ \A u \in Thread \ Blocked(d) : e.next_tcb[u] = d.next_tcb[u]
    /\ \A u \in Thread : e.state[u] # "RUNNING"
    /\ SchedBlock(s, sem) = Schedule(e)

\* sched_block does this and then calls schedule(), from where no thread runs.
LEMMA SchedBlockParts ==
    ASSUME NEW s \in SchedType, ListsOK(s), s.RunPt \in Thread,
           \A u \in Thread : s.state[u] = "RUNNING" <=> u = s.RunPt,
           NEW sem \in Sem
    PROVE  \E d, e : BlockedIn(s, sem, d, e)
<1> DEFINE t == s.RunPt
           d == Leave(s, t, "BLOCKED")
           list == InsertSorted(d.next_tcb, d.bthreads_root[sem], Priority, t)
           heads == [d.bthreads_root EXCEPT ![sem] = list.root]
           e == [d EXCEPT !.next_tcb = list.next_tcb, !.bthreads_root = heads]
           r == SchedBlock(s, sem)
<1>0. d = Leave(s, t, "BLOCKED")
    OBVIOUS
<1>1. BlockedOK(s) /\ RingsOK(s)
    BY DEF ListsOK, BlockedOK
<1>2. /\ t \in Linked(s) /\ t \notin Blocked(s)
      /\ \A u \in Blocked(s) : u \notin Linked(s)
      /\ Linked(s) \subseteq Thread /\ Blocked(s) \subseteq Thread
    BY DEF Linked, Blocked, InRing
<1>3. /\ d \in SchedType /\ RingsOK(d)
      /\ Linked(d) = Linked(s) \ {t}
      /\ d.next_tcb[t] = NULL
      /\ \A u \in Thread \ Linked(s) : d.next_tcb[u] = s.next_tcb[u]
      /\ d.state = [s.state EXCEPT ![t] = "BLOCKED"]
      /\ d.bthreads_root = s.bthreads_root /\ d.RunPt = s.RunPt
    <2>1. /\ t \in Thread /\ s.state[t] = "RUNNING"
          /\ \A u \in Thread : s.state[u] = "RUNNING" => u = t
          /\ "BLOCKED" \in {"BLOCKED", "SLEEPING"}
        OBVIOUS
    <2>. HIDE DEF t
    <2>. QED BY <1>1, <2>1, LeaveRings
<1>4. s.state \in [Thread -> ThreadState]
    BY DEF SchedType
<1>. HIDE DEF d, t
<1>5. t \in Thread
    BY DEF t
<1>6. Blocked(d) = Blocked(s) \cup {t}
    BY <1>3, <1>4, <1>5 DEF Blocked
<1>7. \A u \in Blocked(s) : d.next_tcb[u] = s.next_tcb[u]
    BY <1>2, <1>3
<1>. HIDE DEF list, heads
<1>8. /\ e.next_tcb = list.next_tcb /\ e.bthreads_root = heads
      /\ e.state = d.state /\ e.prev_tcb = d.prev_tcb
      /\ e.ThreadSchedule = d.ThreadSchedule
      /\ e.ActivePriorityCount = d.ActivePriorityCount
      /\ e.RunPt = d.RunPt
    BY <1>3 DEF SchedType
<1>9. e = [d EXCEPT !.next_tcb = e.next_tcb, !.bthreads_root = e.bthreads_root]
    BY <1>8
<1>10. r = Schedule(e)
    BY DEF SchedBlock, d, t, list, heads
<1>. HIDE DEF e
<1>11. /\ e.next_tcb \in [Thread -> Thread \cup {NULL}]
       /\ e.bthreads_root \in [Sem -> Thread \cup {NULL}]
       /\ BlockedOK(e)
       /\ \A u \in Thread \ Blocked(d) : e.next_tcb[u] = d.next_tcb[u]
    <2>1. Spliced(d, e, t, sem)
        BY <1>8 DEF Spliced, list, heads
    <2>2. JustBlocked(s, d, t)
        BY <1>2, <1>3, <1>6, <1>7 DEF JustBlocked
    <2>. QED BY <1>1, <1>3, <1>5, <2>1, <2>2, InsertBlocked
<1>12. e \in SchedType
    BY <1>3, <1>9, <1>11 DEF SchedType
<1>13. RingsOK(e)
    <2>1. \A u \in Linked(d) : u \in Thread \ Blocked(d)
        BY <1>2, <1>3, <1>6
    <2>. QED BY <2>1, <1>3, <1>8, <1>11, RingsFrame
<1>14. \A u \in Thread : e.state[u] # "RUNNING"
    BY <1>3, <1>4, <1>8 DEF t
<1>15. Spliced(d, e, t, sem)
    BY <1>8 DEF Spliced, list, heads
<1>. HIDE DEF r
<1>16. BlockedIn(s, sem, d, e)
    BY <1>0, <1>3, <1>8, <1>10, <1>11, <1>12, <1>13, <1>14, <1>15 DEF BlockedIn, t, r
<1>. QED BY <1>16

\* The running thread is on no ready ring but on the blocked list of sem, and
\* schedule() has chosen its successor.
LEMMA SchedBlockLists ==
    ASSUME NEW s \in SchedType, ListsOK(s), s.RunPt \in Thread,
           \A u \in Thread : s.state[u] = "RUNNING" <=> u = s.RunPt,
           NEW sem \in Sem
    PROVE  LET r == SchedBlock(s, sem)
           IN  /\ r \in SchedType /\ ListsOK(r)
               /\ r.pendsv /\ r.RunPt = s.RunPt
               /\ r.NextRunPt \in Thread \cup {IdleThread}
               /\ \A u \in Thread : r.state[u] = "RUNNING" <=> u = r.NextRunPt
               /\ \A u \in Thread : r.state[u] = "ACTIVE" =>
                     /\ r.NextRunPt \in Thread
                     /\ Priority[r.NextRunPt] <= Priority[u]
<1> DEFINE t == s.RunPt
           r == SchedBlock(s, sem)
<1>1. PICK d, e : BlockedIn(s, sem, d, e)
    BY SchedBlockParts
<1>2. /\ e \in SchedType /\ RingsOK(e) /\ BlockedOK(e)
      /\ e.RunPt = t /\ r = Schedule(e)
      /\ \A u \in Thread : e.state[u] = "RUNNING" => u = e.RunPt
    BY <1>1 DEF BlockedIn
<1>. HIDE DEF r, t
<1>3. /\ r \in SchedType /\ RingsOK(r)
      /\ r.pendsv /\ r.RunPt = e.RunPt
      /\ r.NextRunPt \in Thread \cup {IdleThread}
      /\ r.next_tcb = e.next_tcb
      /\ r.bthreads_root = e.bthreads_root
      /\ \A u \in Thread : r.state[u] = "RUNNING" <=> u = r.NextRunPt
      /\ \A u \in Thread : r.state[u] \in InRing <=> e.state[u] \in InRing
      /\ \A u \in Thread : e.state[u] \notin InRing => r.state[u] = e.state[u]
      /\ \A u \in Thread : r.state[u] = "ACTIVE" =>
            /\ r.NextRunPt \in Thread
            /\ Priority[r.NextRunPt] <= Priority[u]
    BY <1>2, ScheduleRings
<1>4. Blocked(r) = Blocked(e)
    BY <1>3 DEF Blocked, InRing
<1>5. BlockedOK(r)
    BY <1>2, <1>3, <1>4, BlockedFrame
<1>. QED BY <1>2, <1>3, <1>5 DEF ListsOK, BlockedOK, r, t

\* The first waiter leaves the list of sem for the ready ring of its level.
LEMMA SchedUnblockLists ==
    ASSUME NEW s \in SchedType, ListsOK(s), NEW sem \in Sem,
           s.bthreads_root[sem] # NULL
    PROVE  LET r == SchedUnblock(s, sem)
               t == s.bthreads_root[sem]
           IN  /\ r \in SchedType /\ ListsOK(r)
               /\ t \in Blocked(s)
               /\ r.state = [s.state EXCEPT ![t] = "ACTIVE"]
               /\ r.RunPt = s.RunPt /\ r.NextRunPt = s.NextRunPt /\ r.pendsv = s.pendsv
<1> DEFINE t == s.bthreads_root[sem]
           heads == [s.bthreads_root EXCEPT ![sem] = s.next_tcb[t]]
           x == [s EXCEPT !.bthreads_root = heads]
           r == SchedUnblock(s, sem)
<1>1. BlockedOK(s) /\ RingsOK(s)
    BY DEF ListsOK, BlockedOK
<1>2. /\ t \in Blocked(s) /\ t \in Thread /\ t \notin Linked(s)
      /\ s.next_tcb[t] \in Blocked(s) \cup {NULL}
      /\ Blocked(s) \subseteq Thread /\ NULL \notin Thread
      /\ \A u \in Blocked(s) : u \notin Linked(s)
    BY <1>1, ThreadsAssumption DEF BlockedOK, BlockedLinks, Blocked, Linked, InRing
<1>3. /\ s.next_tcb \in [Thread -> Thread \cup {NULL}]
      /\ s.bthreads_root \in [Sem -> Thread \cup {NULL}]
      /\ s.state \in [Thread -> ThreadState]
    BY DEF SchedType
<1>4. heads \in [Sem -> Thread \cup {NULL}]
    BY <1>2, <1>3
<1>5. /\ heads[sem] = s.next_tcb[t]
      /\ \A i \in Sem : i # sem => heads[i] = s.bthreads_root[i]
    BY <1>3
<1>6. r = EnqueueThread(x, t)
    BY DEF SchedUnblock
<1>. HIDE DEF heads
<1>7. /\ x \in SchedType
      /\ x.bthreads_root = heads
      /\ x.next_tcb = s.next_tcb /\ x.prev_tcb = s.prev_tcb
      /\ x.state = s.state /\ x.ThreadSchedule = s.ThreadSchedule
      /\ x.ActivePriorityCount = s.ActivePriorityCount
      /\ x.RunPt = s.RunPt /\ x.NextRunPt = s.NextRunPt /\ x.pendsv = s.pendsv
    BY <1>4 DEF SchedType
<1>. HIDE DEF x
<1>8. RingsOK(x) /\ Linked(x) = Linked(s)
    BY <1>1, <1>7, RingsFrame
<1>. HIDE DEF t
<1>9. /\ r \in SchedType /\ RingsOK(r)
      /\ r.state = [x.state EXCEPT ![t] = "ACTIVE"]
      /\ \A u \in Thread : u # t /\ u \notin Linked(s) => r.next_tcb[u] = x.next_tcb[u]
      /\ r.bthreads_root = x.bthreads_root
      /\ r.RunPt = x.RunPt /\ r.NextRunPt = x.NextRunPt /\ r.pendsv = x.pendsv
    BY <1>2, <1>6, <1>7, <1>8, EnqueueRings
<1>. HIDE DEF r
<1>10. Blocked(r) = Blocked(s) \ {t}
    BY <1>2, <1>3, <1>7, <1>9 DEF Blocked
<1>11. \A u \in Blocked(r) : r.next_tcb[u] = s.next_tcb[u]
    BY <1>2, <1>7, <1>9, <1>10
<1>12. BlockedOK(r)
    <2>1. r.bthreads_root = heads
        BY <1>7, <1>9
    <2>2. t = s.bthreads_root[sem]
        BY DEF t
    <2>. QED BY <2>1, <2>2, <1>1, <1>2, <1>5, <1>10, <1>11, HeadGone
<1>. QED BY <1>2, <1>7, <1>9, <1>12 DEF ListsOK, BlockedOK, r, t

-----------------------------------------------------------------------------
(* The ready rings when some threads that are ready have dropped out of      *)
(* them, as happens when a tick is served in front of a requested switch.    *)

OfLevel(L, p) == {t \in L : Priority[t] = p}

\* The rings hold the threads of L, all of them and no other.
RingsOn(s, L) ==
    /\ \A t \in L :
        /\ s.next_tcb[t] \in L /\ s.prev_tcb[t] \in L
        /\ Priority[s.next_tcb[t]] = Priority[t]
        /\ s.prev_tcb[s.next_tcb[t]] = t
        /\ s.next_tcb[s.prev_tcb[t]] = t
    /\ \A p \in Level :
        IF OfLevel(L, p) = {} THEN s.ThreadSchedule[p] = NULL
        ELSE s.ThreadSchedule[p] \in OfLevel(L, p)
    /\ \A p \in Level : \A S \in SUBSET OfLevel(L, p) :
        S # {} /\ (\A u \in S : s.next_tcb[u] \in S) => S = OfLevel(L, p)

\* The threads a count may count.
Backing(s, L, p) == {t \in OfLevel(L, p) : s.state[t] = "ACTIVE"}

CountsBacked(s, L) ==
    \A p \in Level : s.ActivePriorityCount[p] <= Cardinality(Backing(s, L, p))

LiveRings(s, L) == L \subseteq Linked(s) /\ RingsOn(s, L) /\ CountsBacked(s, L)

\* s as if the threads in its rings were all there are, and of them only r RUNNING.
Shown(s, L, r) ==
    [s EXCEPT !.state = [t \in Thread |-> IF t \notin L THEN "NONE"
                                          ELSE IF t = r THEN "RUNNING" ELSE "ACTIVE"],
              !.ActivePriorityCount =
                  [p \in Level |-> Cardinality({t \in OfLevel(L, p) : t # r})]]

\* RingsOn speaks of the roots and of the links of the threads in the rings.
LEMMA RingsOnFrame ==
    ASSUME NEW s, NEW x, NEW L, RingsOn(s, L),
           x.ThreadSchedule = s.ThreadSchedule,
           \A t \in L : x.next_tcb[t] = s.next_tcb[t] /\ x.prev_tcb[t] = s.prev_tcb[t]
    PROVE  RingsOn(x, L)
<1>1. \A t \in L :
        /\ x.next_tcb[t] \in L /\ x.prev_tcb[t] \in L
        /\ Priority[x.next_tcb[t]] = Priority[t]
        /\ x.prev_tcb[x.next_tcb[t]] = t
        /\ x.next_tcb[x.prev_tcb[t]] = t
    BY DEF RingsOn
<1>2. \A p \in Level : \A S \in SUBSET OfLevel(L, p) :
        S # {} /\ (\A u \in S : x.next_tcb[u] \in S) => S = OfLevel(L, p)
    BY DEF RingsOn, OfLevel
<1>. QED BY <1>1, <1>2 DEF RingsOn

\* LiveRings speaks of the states, the rings and the counts.
LEMMA LiveFrame ==
    ASSUME NEW s, NEW r, NEW L, LiveRings(s, L),
           r.state = s.state, r.ThreadSchedule = s.ThreadSchedule,
           r.ActivePriorityCount = s.ActivePriorityCount,
           \A t \in L : r.next_tcb[t] = s.next_tcb[t] /\ r.prev_tcb[t] = s.prev_tcb[t]
    PROVE  LiveRings(r, L)
<1>1. L \subseteq Linked(s) /\ RingsOn(s, L) /\ CountsBacked(s, L)
    BY DEF LiveRings
<1>2. L \subseteq Linked(r)
    BY <1>1 DEF Linked
<1>3. RingsOn(r, L)
    BY <1>1, RingsOnFrame
<1>4. CountsBacked(r, L)
    BY <1>1 DEF CountsBacked, Backing
<1>. QED BY <1>2, <1>3, <1>4 DEF LiveRings

\* They are finitely many.
LEMMA OfLevelFinite ==
    ASSUME NEW L \in SUBSET Thread, NEW p, NEW S \in SUBSET OfLevel(L, p)
    PROVE  IsFiniteSet(S) /\ Cardinality(S) \in Nat
<1>1. S \subseteq Thread
    BY DEF OfLevel
<1>. QED BY <1>1, FS_Subset, FS_CardinalityType, ThreadsAssumption

\* Lemmas about RingsOK speak of Shown too.
LEMMA ShownRings ==
    ASSUME NEW s \in SchedType, NEW L \in SUBSET Thread, RingsOn(s, L), NEW r,
           NEW x, x = Shown(s, L, r)
    PROVE  /\ x \in SchedType /\ RingsOK(x) /\ Linked(x) = L
           /\ x.next_tcb = s.next_tcb /\ x.prev_tcb = s.prev_tcb
           /\ x.ThreadSchedule = s.ThreadSchedule
           /\ \A t \in Thread : x.state[t] = IF t \notin L THEN "NONE"
                                             ELSE IF t = r THEN "RUNNING" ELSE "ACTIVE"
           /\ \A p \in Level :
                x.ActivePriorityCount[p] = Cardinality({t \in OfLevel(L, p) : t # r})
<1>. DEFINE st == [t \in Thread |-> IF t \notin L THEN "NONE"
                                    ELSE IF t = r THEN "RUNNING" ELSE "ACTIVE"]
            c == [p \in Level |-> Cardinality({t \in OfLevel(L, p) : t # r})]
<1>1. st \in [Thread -> ThreadState]
    BY DEF ThreadState
<1>2. c \in [Level -> Nat]
    <2>1. \A p \in Level : {t \in OfLevel(L, p) : t # r} \in SUBSET OfLevel(L, p)
        OBVIOUS
    <2>2. \A p \in Level : Cardinality({t \in OfLevel(L, p) : t # r}) \in Nat
        BY <2>1, OfLevelFinite
    <2>. QED BY <2>2
<1>3. x = [s EXCEPT !.state = st, !.ActivePriorityCount = c]
    BY DEF Shown
<1>4. /\ \A t \in Thread : st[t] = IF t \notin L THEN "NONE"
                                   ELSE IF t = r THEN "RUNNING" ELSE "ACTIVE"
      /\ \A p \in Level : c[p] = Cardinality({t \in OfLevel(L, p) : t # r})
    OBVIOUS
<1>. HIDE DEF st, c
<1>5. /\ x \in SchedType /\ x.state = st /\ x.ActivePriorityCount = c
      /\ x.next_tcb = s.next_tcb /\ x.prev_tcb = s.prev_tcb
      /\ x.ThreadSchedule = s.ThreadSchedule
    BY <1>1, <1>2, <1>3 DEF SchedType
<1>6. /\ Linked(x) = L
      /\ \A p : At(x, InRing, p) = OfLevel(L, p)
      /\ \A p : At(x, {"ACTIVE"}, p) = {t \in OfLevel(L, p) : t # r}
    BY <1>4, <1>5 DEF Linked, At, InRing, OfLevel
<1>7. RingLinks(x)
    BY <1>5, <1>6 DEF RingLinks, RingsOn
<1>8. RingRoots(x)
    BY <1>5, <1>6 DEF RingRoots, RingsOn
<1>9. RingWhole(x)
    BY <1>5, <1>6 DEF RingWhole, RingsOn
<1>10. RingCounts(x)
    BY <1>4, <1>5, <1>6 DEF RingCounts
<1>. QED BY <1>4, <1>5, <1>6, <1>7, <1>8, <1>9, <1>10 DEF RingsOK

\* Intact rings are rings on all the threads that are ready or running.
LEMMA RingsFrom ==
    ASSUME NEW x, RingsOK(x)
    PROVE  RingsOn(x, Linked(x))
<1>1. \A p : At(x, InRing, p) = OfLevel(Linked(x), p)
    BY DEF At, Linked, OfLevel
<1>2. RingLinks(x) /\ RingRoots(x) /\ RingWhole(x)
    BY DEF RingsOK
<1>. QED BY <1>1, <1>2 DEF RingLinks, RingRoots, RingWhole, RingsOn

\* The threads a count may count are finitely many.
LEMMA BackingFinite ==
    ASSUME NEW s, NEW L \in SUBSET Thread, NEW p
    PROVE  /\ IsFiniteSet(Backing(s, L, p)) /\ Cardinality(Backing(s, L, p)) \in Nat
           /\ Backing(s, L, p) \subseteq Thread
<1>1. Backing(s, L, p) \in SUBSET OfLevel(L, p) /\ Backing(s, L, p) \subseteq Thread
    BY DEF Backing, OfLevel
<1>. QED BY <1>1, OfLevelFinite

\* One ready thread more, counted.
LEMMA OneMoreBacked ==
    ASSUME NEW s \in SchedType, NEW L \in SUBSET Thread, CountsBacked(s, L),
           NEW t \in Thread, t \notin L \/ s.state[t] # "ACTIVE",
           NEW r, r.state = [s.state EXCEPT ![t] = "ACTIVE"],
           r.ActivePriorityCount = [s.ActivePriorityCount EXCEPT ![Priority[t]] = @ + 1]
    PROVE  CountsBacked(r, L \cup {t})
<1>. SUFFICES ASSUME NEW p \in Level
              PROVE  r.ActivePriorityCount[p] <= Cardinality(Backing(r, L \cup {t}, p))
    BY DEF CountsBacked
<1>0. Priority[t] \in Level /\ s.ActivePriorityCount \in [Level -> Nat]
      /\ s.state \in [Thread -> ThreadState]
    BY ThreadsAssumption DEF SchedType
<1>1. /\ s.ActivePriorityCount[p] \in Nat
      /\ s.ActivePriorityCount[p] <= Cardinality(Backing(s, L, p))
      /\ IsFiniteSet(Backing(s, L, p)) /\ Cardinality(Backing(s, L, p)) \in Nat
    BY <1>0, BackingFinite DEF CountsBacked
<1>2. CASE p = Priority[t]
    <2>1. Backing(r, L \cup {t}, p) = Backing(s, L, p) \cup {t}
        BY <1>0, <1>2 DEF Backing, OfLevel
    <2>2. t \notin Backing(s, L, p)
        BY DEF Backing, OfLevel
    <2>3. Cardinality(Backing(r, L \cup {t}, p)) = Cardinality(Backing(s, L, p)) + 1
        BY <1>1, <2>1, <2>2, FS_AddElement
    <2>4. r.ActivePriorityCount[p] = s.ActivePriorityCount[p] + 1
        BY <1>0, <1>2
    <2>. QED BY <1>1, <2>3, <2>4
<1>3. CASE p # Priority[t]
    <2>1. Backing(r, L \cup {t}, p) = Backing(s, L, p)
        BY <1>0, <1>3 DEF Backing, OfLevel
    <2>2. r.ActivePriorityCount[p] = s.ActivePriorityCount[p]
        BY <1>0, <1>3
    <2>. QED BY <1>1, <2>1, <2>2
<1>. QED BY <1>2, <1>3

\* enqueue_thread adds its thread to those in the rings.
LEMMA EnqueueLive ==
    ASSUME NEW s \in SchedType, NEW L \in SUBSET Thread, LiveRings(s, L),
           NEW t \in Thread, t \notin Linked(s),
           NEW r, r = EnqueueThread(s, t)
    PROVE  /\ r \in SchedType
           /\ LiveRings(r, L \cup {t})
           /\ r.state = [s.state EXCEPT ![t] = "ACTIVE"]
           /\ \A u \in Thread \ (L \cup {t}) : r.next_tcb[u] = s.next_tcb[u]
           /\ r.bthreads_root = s.bthreads_root
           /\ r.RunPt = s.RunPt /\ r.NextRunPt = s.NextRunPt /\ r.pendsv = s.pendsv
<1>0. L \subseteq Linked(s) /\ RingsOn(s, L) /\ CountsBacked(s, L) /\ t \notin L
    BY DEF LiveRings
<1>. DEFINE p == Priority[t]
            root == s.ThreadSchedule[p]
            x == Shown(s, L, NULL)
            y == EnqueueThread(x, t)
<1>1. /\ x \in SchedType /\ RingsOK(x) /\ Linked(x) = L
      /\ x.next_tcb = s.next_tcb /\ x.prev_tcb = s.prev_tcb
      /\ x.ThreadSchedule = s.ThreadSchedule
    BY <1>0, ShownRings
<1>2. root # NULL => s.prev_tcb[root] \in Thread
    <2>1. p \in Level
        BY ThreadsAssumption
    <2>2. root # NULL => root \in L
        BY <1>0, <2>1 DEF RingsOn, OfLevel
    <2>. QED BY <1>0, <2>2 DEF RingsOn
<1>. HIDE DEF x
<1>3. /\ r \in SchedType
      /\ r.next_tcb = IF root = NULL THEN [s.next_tcb EXCEPT ![t] = t]
                      ELSE [s.next_tcb EXCEPT ![t] = root, ![s.prev_tcb[root]] = t]
      /\ r.prev_tcb = IF root = NULL THEN [s.prev_tcb EXCEPT ![t] = t]
                      ELSE [s.prev_tcb EXCEPT ![t] = s.prev_tcb[root], ![root] = t]
      /\ r.state = [s.state EXCEPT ![t] = "ACTIVE"]
      /\ r.ThreadSchedule = [s.ThreadSchedule EXCEPT ![p] = t]
      /\ r.ActivePriorityCount = [s.ActivePriorityCount EXCEPT ![p] = @ + 1]
      /\ r.bthreads_root = s.bthreads_root
      /\ r.RunPt = s.RunPt /\ r.NextRunPt = s.NextRunPt /\ r.pendsv = s.pendsv
    BY <1>2, EnqueueFields
<1>4. /\ y.next_tcb = IF root = NULL THEN [s.next_tcb EXCEPT ![t] = t]
                      ELSE [s.next_tcb EXCEPT ![t] = root, ![s.prev_tcb[root]] = t]
      /\ y.prev_tcb = IF root = NULL THEN [s.prev_tcb EXCEPT ![t] = t]
                      ELSE [s.prev_tcb EXCEPT ![t] = s.prev_tcb[root], ![root] = t]
      /\ y.ThreadSchedule = [s.ThreadSchedule EXCEPT ![p] = t]
    <2>1. LET z == x.ThreadSchedule[Priority[t]]
          IN  z # NULL => x.prev_tcb[z] \in Thread
        BY <1>1, <1>2
    <2>2. /\ y.next_tcb = IF x.ThreadSchedule[p] = NULL THEN [x.next_tcb EXCEPT ![t] = t]
                          ELSE [x.next_tcb EXCEPT ![t] = x.ThreadSchedule[p],
                                                  ![x.prev_tcb[x.ThreadSchedule[p]]] = t]
          /\ y.prev_tcb = IF x.ThreadSchedule[p] = NULL THEN [x.prev_tcb EXCEPT ![t] = t]
                          ELSE [x.prev_tcb EXCEPT ![t] = x.prev_tcb[x.ThreadSchedule[p]],
                                                  ![x.ThreadSchedule[p]] = t]
          /\ y.ThreadSchedule = [x.ThreadSchedule EXCEPT ![p] = t]
        BY <1>1, <2>1, EnqueueFields
    <2>. QED BY <1>1, <2>2
<1>5. /\ RingsOK(y) /\ Linked(y) = L \cup {t}
      /\ \A u \in Thread : u # t /\ u \notin L => y.next_tcb[u] = x.next_tcb[u]
    BY <1>0, <1>1, EnqueueRings
<1>. HIDE DEF y
<1>6. r.next_tcb = y.next_tcb /\ r.prev_tcb = y.prev_tcb /\ r.ThreadSchedule = y.ThreadSchedule
    BY <1>3, <1>4
<1>7. RingsOn(r, L \cup {t})
    <2>1. RingsOn(y, L \cup {t})
        BY <1>5, RingsFrom
    <2>. QED BY <2>1, <1>6, RingsOnFrame
<1>8. CountsBacked(r, L \cup {t})
    BY <1>0, <1>3, OneMoreBacked
<1>9. L \cup {t} \subseteq Linked(r)
    <2>1. s.state \in [Thread -> ThreadState]
        BY DEF SchedType
    <2>. QED BY <1>0, <1>3, <2>1 DEF Linked, InRing
<1>. QED BY <1>1, <1>3, <1>5, <1>6, <1>7, <1>8, <1>9 DEF LiveRings

\* With a count of zero the whole ring is dropped, and with it the threads that
\* are linked there but not counted.
LEMMA LeaveDropsRing ==
    ASSUME NEW s \in SchedType, NEW L \in SUBSET Thread, RingsOn(s, L), NEW t \in L,
           NEW r, r.next_tcb = [s.next_tcb EXCEPT ![t] = NULL],
           r.prev_tcb = s.prev_tcb,
           r.ThreadSchedule = [s.ThreadSchedule EXCEPT ![Priority[t]] = NULL]
    PROVE  RingsOn(r, {u \in L : Priority[u] # Priority[t]})
<1>. DEFINE M == {u \in L : Priority[u] # Priority[t]}
<1>0. /\ s.next_tcb \in [Thread -> Thread \cup {NULL}]
      /\ s.ThreadSchedule \in [Level -> Thread \cup {NULL}]
      /\ Priority[t] \in Level
    BY ThreadsAssumption DEF SchedType
<1>1. \A u \in M : r.next_tcb[u] = s.next_tcb[u]
    BY <1>0
<1>2. \A u \in M :
        /\ r.next_tcb[u] \in M /\ r.prev_tcb[u] \in M
        /\ Priority[r.next_tcb[u]] = Priority[u]
        /\ r.prev_tcb[r.next_tcb[u]] = u
        /\ r.next_tcb[r.prev_tcb[u]] = u
    <2>. SUFFICES ASSUME NEW u \in M
                  PROVE  /\ r.next_tcb[u] \in M /\ r.prev_tcb[u] \in M
                         /\ Priority[r.next_tcb[u]] = Priority[u]
                         /\ r.prev_tcb[r.next_tcb[u]] = u
                         /\ r.next_tcb[r.prev_tcb[u]] = u
        OBVIOUS
    <2>1. /\ s.next_tcb[u] \in L /\ s.prev_tcb[u] \in L
          /\ Priority[s.next_tcb[u]] = Priority[u]
          /\ s.prev_tcb[s.next_tcb[u]] = u /\ s.next_tcb[s.prev_tcb[u]] = u
          /\ Priority[s.next_tcb[s.prev_tcb[u]]] = Priority[s.prev_tcb[u]]
        BY DEF RingsOn
    <2>2. s.next_tcb[u] \in M /\ s.prev_tcb[u] \in M
        BY <2>1
    <2>. QED BY <1>1, <2>1, <2>2
<1>3. \A p \in Level : p # Priority[t] => OfLevel(M, p) = OfLevel(L, p)
    BY DEF OfLevel
<1>4. OfLevel(M, Priority[t]) = {}
    BY DEF OfLevel
<1>5. \A p : OfLevel(M, p) \subseteq M
    BY DEF OfLevel
<1>. HIDE DEF M
<1>6. ASSUME NEW p \in Level
      PROVE  IF OfLevel(M, p) = {} THEN r.ThreadSchedule[p] = NULL
             ELSE r.ThreadSchedule[p] \in OfLevel(M, p)
    <2>1. CASE p = Priority[t]
        BY <1>0, <1>4, <2>1
    <2>2. CASE p # Priority[t]
        BY <1>0, <1>3, <2>2 DEF RingsOn
    <2>. QED BY <2>1, <2>2
<1>7. ASSUME NEW p \in Level, NEW S \in SUBSET OfLevel(M, p),
             S # {}, \A u \in S : r.next_tcb[u] \in S
      PROVE  S = OfLevel(M, p)
    <2>1. p # Priority[t]
        BY <1>4, <1>7
    <2>2. \A u \in S : s.next_tcb[u] \in S
        BY <1>1, <1>5, <1>7
    <2>. QED BY <1>3, <1>7, <2>1, <2>2 DEF RingsOn
<1>8. RingsOn(r, M)
    BY <1>2, <1>6, <1>7 DEF RingsOn
<1>. QED BY <1>8 DEF M

\* What Leave does to a ring that is kept.
LEMMA LeaveLinks ==
    ASSUME NEW s \in SchedType, NEW t \in Thread,
           s.next_tcb[t] \in Thread, s.prev_tcb[t] \in Thread,
           s.ActivePriorityCount[Priority[t]] # 0,
           NEW st, NEW r, r = Leave(s, t, st)
    PROVE  /\ r.next_tcb = [s.next_tcb EXCEPT ![s.prev_tcb[t]] = s.next_tcb[t], ![t] = NULL]
           /\ r.prev_tcb = [s.prev_tcb EXCEPT ![s.next_tcb[t]] = s.prev_tcb[t]]
           /\ r.ThreadSchedule = [s.ThreadSchedule EXCEPT ![Priority[t]] = s.next_tcb[t]]
<1>1. PICK nx, pv, a :
         /\ nx = [s.next_tcb EXCEPT ![s.prev_tcb[t]] = s.next_tcb[t], ![t] = NULL]
         /\ pv = [s.prev_tcb EXCEPT ![s.next_tcb[t]] = s.prev_tcb[t]]
         /\ a = [s.ThreadSchedule EXCEPT ![Priority[t]] = s.next_tcb[t]]
    OBVIOUS
<1>2. PICK d : d = DequeueThread(s, t)
    OBVIOUS
<1>3. d = [s EXCEPT !.next_tcb = nx, !.prev_tcb = pv, !.ThreadSchedule = a]
    BY <1>1, <1>2 DEF DequeueThread
<1>4. r = [d EXCEPT !.state = [d.state EXCEPT ![t] = st]]
    BY <1>2 DEF Leave
<1>5. d.next_tcb = nx /\ d.prev_tcb = pv /\ d.ThreadSchedule = a
    BY <1>3 DEF SchedType
<1>6. r.next_tcb = d.next_tcb /\ r.prev_tcb = d.prev_tcb
      /\ r.ThreadSchedule = d.ThreadSchedule
    BY <1>3, <1>4 DEF SchedType
<1>. QED BY <1>1, <1>5, <1>6

\* From s to r the thread t left the rings on L, alone or with the rest of its
\* level, for the state st.
LeftRings(s, L, t, st, r) ==
    /\ r \in SchedType
    /\ \E M \in SUBSET (L \ {t}) : LiveRings(r, M)
    /\ r.state = [s.state EXCEPT ![t] = st]
    /\ r.next_tcb[t] = NULL
    /\ \A u \in Thread \ L : r.next_tcb[u] = s.next_tcb[u]
    /\ r.bthreads_root = s.bthreads_root
    /\ r.RunPt = s.RunPt /\ r.NextRunPt = s.NextRunPt /\ r.pendsv = s.pendsv

\* This is how sched_block and sleep begin.
LEMMA LeaveLive ==
    ASSUME NEW s \in SchedType, NEW L \in SUBSET Thread, LiveRings(s, L),
           NEW t \in L, s.state[t] = "RUNNING",
           NEW st \in {"BLOCKED", "SLEEPING"},
           NEW r, r = Leave(s, t, st)
    PROVE  LeftRings(s, L, t, st, r)
<1>. DEFINE p == Priority[t]
            n == s.next_tcb[t]
            v == s.prev_tcb[t]
<1>0. /\ L \subseteq Linked(s) /\ RingsOn(s, L) /\ CountsBacked(s, L)
      /\ t \in Thread /\ p \in Level /\ n \in L /\ v \in L
      /\ s.next_tcb \in [Thread -> Thread \cup {NULL}]
      /\ s.state \in [Thread -> ThreadState]
      /\ s.ActivePriorityCount \in [Level -> Nat]
      /\ st \in ThreadState /\ st \notin InRing
    BY ThreadsAssumption DEF LiveRings, RingsOn, SchedType, ThreadState, InRing
<1>1. /\ r \in SchedType
      /\ r.next_tcb = IF s.ActivePriorityCount[p] = 0 THEN [s.next_tcb EXCEPT ![t] = NULL]
                      ELSE [s.next_tcb EXCEPT ![v] = n, ![t] = NULL]
      /\ r.prev_tcb = IF s.ActivePriorityCount[p] = 0 THEN s.prev_tcb
                      ELSE [s.prev_tcb EXCEPT ![n] = v]
      /\ r.ThreadSchedule = [s.ThreadSchedule EXCEPT
                                ![p] = IF s.ActivePriorityCount[p] = 0 THEN NULL ELSE n]
      /\ r.state = [s.state EXCEPT ![t] = st]
      /\ r.ActivePriorityCount = s.ActivePriorityCount
      /\ r.bthreads_root = s.bthreads_root
      /\ r.RunPt = s.RunPt /\ r.NextRunPt = s.NextRunPt /\ r.pendsv = s.pendsv
    <2>1. st \in ThreadState /\ n \in Thread /\ v \in Thread
        BY <1>0
    <2>. QED BY <1>0, <2>1, LeaveFields, SMTT(60)
<1>2. r.next_tcb[t] = NULL /\ \A u \in Thread \ L : r.next_tcb[u] = s.next_tcb[u]
    BY <1>0, <1>1
<1>3. \A M \in SUBSET (L \ {t}) : M \subseteq Linked(r)
    BY <1>0, <1>1 DEF Linked
<1>4. \A M \in SUBSET (L \ {t}) : \A q : OfLevel(M, q) = OfLevel(L \ {t}, q) =>
          Backing(r, M, q) = Backing(s, L, q)
    BY <1>0, <1>1 DEF Backing, OfLevel, InRing
<1>5. CASE s.ActivePriorityCount[p] = 0
    <2>. DEFINE M == {u \in L : Priority[u] # p}
    <2>1. RingsOn(r, M)
        BY <1>0, <1>1, <1>5, LeaveDropsRing
    <2>2. M \in SUBSET (L \ {t})
        OBVIOUS
    <2>3. \A q \in Level : q # p => OfLevel(M, q) = OfLevel(L \ {t}, q)
        BY DEF OfLevel
    <2>. HIDE DEF M
    <2>4. Cardinality(Backing(r, M, p)) \in Nat
        BY <2>2, BackingFinite
    <2>5. CountsBacked(r, M)
        <3>. SUFFICES ASSUME NEW q \in Level
                      PROVE  r.ActivePriorityCount[q] <= Cardinality(Backing(r, M, q))
            BY DEF CountsBacked
        <3>1. CASE q = p
            BY <1>1, <1>5, <2>4, <3>1
        <3>2. CASE q # p
            BY <1>0, <1>1, <1>4, <2>2, <2>3, <3>2 DEF CountsBacked
        <3>. QED BY <3>1, <3>2
    <2>. QED BY <1>1, <1>2, <1>3, <2>1, <2>2, <2>5 DEF LiveRings, LeftRings
<1>6. CASE s.ActivePriorityCount[p] # 0
    <2>. DEFINE x == Shown(s, L, t)
                y == Leave(x, t, "BLOCKED")
                others == {u \in OfLevel(L, p) : u # t}
    <2>1. /\ x \in SchedType /\ RingsOK(x) /\ Linked(x) = L
          /\ x.next_tcb = s.next_tcb /\ x.prev_tcb = s.prev_tcb
          /\ x.ThreadSchedule = s.ThreadSchedule
          /\ \A u \in Thread : x.state[u] = IF u \notin L THEN "NONE"
                                            ELSE IF u = t THEN "RUNNING" ELSE "ACTIVE"
          /\ x.ActivePriorityCount[p] = Cardinality(others)
        BY <1>0, ShownRings
    <2>2. x.ActivePriorityCount[p] # 0
        <3>1. Backing(s, L, p) \subseteq others
            BY DEF Backing
        <3>2. others \in SUBSET OfLevel(L, p)
            OBVIOUS
        <3>3. Cardinality(Backing(s, L, p)) <= Cardinality(others)
            BY <3>1, <3>2, OfLevelFinite, FS_Subset
        <3>4. /\ Cardinality(Backing(s, L, p)) \in Nat /\ Cardinality(others) \in Nat
              /\ s.ActivePriorityCount[p] <= Cardinality(Backing(s, L, p))
              /\ s.ActivePriorityCount[p] \in Nat
            BY <1>0, <3>2, BackingFinite, OfLevelFinite DEF CountsBacked
        <3>. QED BY <1>6, <2>1, <3>3, <3>4
    <2>. HIDE DEF x, others
    <2>3. /\ y.next_tcb = [s.next_tcb EXCEPT ![v] = n, ![t] = NULL]
          /\ y.prev_tcb = [s.prev_tcb EXCEPT ![n] = v]
          /\ y.ThreadSchedule = [s.ThreadSchedule EXCEPT ![p] = n]
        <3>1. x.next_tcb[t] \in Thread /\ x.prev_tcb[t] \in Thread
            BY <1>0, <2>1
        <3>2. y = Leave(x, t, "BLOCKED") /\ x \in SchedType /\ t \in Thread
            BY <1>0, <2>1
        <3>. HIDE DEF y
        <3>3. /\ y.next_tcb = [x.next_tcb EXCEPT ![x.prev_tcb[t]] = x.next_tcb[t], ![t] = NULL]
              /\ y.prev_tcb = [x.prev_tcb EXCEPT ![x.next_tcb[t]] = x.prev_tcb[t]]
              /\ y.ThreadSchedule = [x.ThreadSchedule EXCEPT ![Priority[t]] = x.next_tcb[t]]
            BY <2>2, <3>1, <3>2, LeaveLinks
        <3>. QED BY <2>1, <3>3
    <2>4. RingsOK(y) /\ Linked(y) = L \ {t}
        <3>1. x.state[t] = "RUNNING" /\ \A u \in Thread : x.state[u] = "RUNNING" => u = t
            BY <1>0, <2>1
        <3>2. x \in SchedType /\ RingsOK(x) /\ t \in Thread /\ "BLOCKED" \in {"BLOCKED", "SLEEPING"}
            BY <1>0, <2>1
        <3>3. RingsOK(y) /\ Linked(y) = Linked(x) \ {t}
            BY ONLY <3>1, <3>2, LeaveRings
        <3>. QED BY <2>1, <3>3
    <2>. HIDE DEF y
    <2>5. RingsOn(r, L \ {t})
        <3>1. RingsOn(y, L \ {t})
            BY <2>4, RingsFrom
        <3>. QED BY <1>1, <1>6, <2>3, <3>1, RingsOnFrame
    <2>6. CountsBacked(r, L \ {t})
        <3>1. \A q : Backing(r, L \ {t}, q) = Backing(s, L, q)
            BY <1>4
        <3>. QED BY <1>0, <1>1, <3>1 DEF CountsBacked
    <2>. QED BY <1>1, <1>2, <1>3, <2>5, <2>6 DEF LiveRings, LeftRings
<1>. QED BY <1>5, <1>6

\* The threads that run, or are about to, are in the rings. With PendSV pending
\* RunPt may have blocked, and another thread than the next one may be RUNNING.
RunsIn(s, L) ==
    /\ s.RunPt \in Thread /\ s.state[s.RunPt] = "RUNNING" => s.RunPt \in L
    /\ s.pendsv /\ s.NextRunPt \in Thread =>
          s.NextRunPt \in L /\ s.state[s.NextRunPt] = "RUNNING"
    /\ ~s.pendsv /\ s.RunPt \in Thread => s.state[s.RunPt] = "RUNNING"

\* The first of these is all that schedule() needs.
RunningIn(s, L) == s.RunPt \in Thread /\ s.state[s.RunPt] = "RUNNING" => s.RunPt \in L

\* From s to r no thread became ready, or ceased to be, and no list was touched.
ListsKept(s, r) ==
    /\ \A t \in Thread : r.state[t] \in InRing <=> s.state[t] \in InRing
    /\ \A t \in Thread : s.state[t] \notin InRing => r.state[t] = s.state[t]
    /\ r.next_tcb = s.next_tcb /\ r.bthreads_root = s.bthreads_root

\* Requeue counts the running thread again.
LEMMA RequeueLive ==
    ASSUME NEW s \in SchedType, NEW L \in SUBSET Thread, LiveRings(s, L), RunningIn(s, L),
           NEW r, r = Requeue(s)
    PROVE  /\ r \in SchedType /\ LiveRings(r, L) /\ ListsKept(s, r)
           /\ r.RunPt = s.RunPt
           /\ r.RunPt \in Thread => r.state[r.RunPt] # "RUNNING"
<1>. DEFINE t == s.RunPt
            b == [s.state EXCEPT ![t] = "ACTIVE"]
            c == [s.ActivePriorityCount EXCEPT ![Priority[t]] = @ + 1]
<1>1. CASE ~(t \in Thread /\ s.state[t] = "RUNNING")
    <2>1. r = s
        BY <1>1 DEF Requeue
    <2>. QED BY <1>1, <2>1 DEF ListsKept
<1>2. CASE t \in Thread /\ s.state[t] = "RUNNING"
    <2>0. /\ s.state \in [Thread -> ThreadState]
          /\ s.ActivePriorityCount \in [Level -> Nat] /\ Priority[t] \in Level
        BY <1>2, ThreadsAssumption DEF SchedType
    <2>1. /\ b \in [Thread -> ThreadState] /\ c \in [Level -> Nat]
        BY <2>0, Incremented DEF ThreadState
    <2>2. r = [s EXCEPT !.state = b, !.ActivePriorityCount = c]
        BY <1>2 DEF Requeue
    <2>3. /\ r \in SchedType /\ r.state = b /\ r.ActivePriorityCount = c
          /\ r.next_tcb = s.next_tcb /\ r.prev_tcb = s.prev_tcb
          /\ r.ThreadSchedule = s.ThreadSchedule
          /\ r.bthreads_root = s.bthreads_root /\ r.RunPt = s.RunPt
        <3>. HIDE DEF b, c
        <3>. QED BY <2>1, <2>2 DEF SchedType
    <2>4. /\ t \in L /\ L \subseteq Linked(s) /\ RingsOn(s, L) /\ CountsBacked(s, L)
        BY <1>2 DEF RunningIn, LiveRings
    <2>5. CountsBacked(r, L)
        <3>1. t \notin L \/ s.state[t] # "ACTIVE"
            BY <1>2
        <3>2. CountsBacked(r, L \cup {t})
            BY <1>2, <2>3, <2>4, <3>1, OneMoreBacked
        <3>3. L \cup {t} = L
            BY <2>4
        <3>. QED BY <3>2, <3>3
    <2>6. RingsOn(r, L)
        BY <2>3, <2>4, RingsOnFrame
    <2>7. L \subseteq Linked(r)
        BY <2>0, <2>3, <2>4 DEF Linked, InRing
    <2>8. ListsKept(s, r)
        BY <1>2, <2>0, <2>3 DEF ListsKept, InRing
    <2>. QED BY <1>2, <2>0, <2>3, <2>5, <2>6, <2>7, <2>8 DEF LiveRings
<1>. QED BY <1>1, <1>2

\* Without one thread, counted or not, at most one less is counted.
LEMMA OneLess ==
    ASSUME NEW S, IsFiniteSet(S), NEW x
    PROVE  /\ Cardinality(S) - 1 <= Cardinality(S \ {x})
           /\ Cardinality(S \ {x}) \in Nat
<1>1. Cardinality(S) \in Nat /\ IsFiniteSet(S \ {x})
    BY FS_CardinalityType, FS_RemoveElement
<1>2. Cardinality(S \ {x}) = IF x \in S THEN Cardinality(S) - 1 ELSE Cardinality(S)
    BY FS_RemoveElement
<1>3. Cardinality(S \ {x}) \in Nat
    BY <1>1, FS_CardinalityType
<1>. QED BY <1>1, <1>2, <1>3

\* The root of a ring with a positive count is a thread of that ring, although
\* it need not be one that is counted.
LEMMA TakeRootLive ==
    ASSUME NEW s \in SchedType, NEW L \in SUBSET Thread, LiveRings(s, L),
           NEW p \in Level, s.ActivePriorityCount[p] > 0,
           NEW t, t = s.ThreadSchedule[p],
           NEW r, r = TakeRoot(s, p)
    PROVE  /\ r \in SchedType /\ LiveRings(r, L) /\ ListsKept(s, r)
           /\ t \in L
           /\ r.state = [s.state EXCEPT ![t] = "RUNNING"]
           /\ r.RunPt = s.RunPt /\ r.NextRunPt = s.NextRunPt /\ r.pendsv = s.pendsv
<1>. DEFINE a == [s.ThreadSchedule EXCEPT ![p] = s.next_tcb[t]]
            b == [s.state EXCEPT ![t] = "RUNNING"]
            c == [s.ActivePriorityCount EXCEPT ![p] = @ - 1]
<1>0. /\ L \subseteq Linked(s) /\ RingsOn(s, L) /\ CountsBacked(s, L)
      /\ s.state \in [Thread -> ThreadState]
      /\ s.ActivePriorityCount \in [Level -> Nat]
      /\ s.ThreadSchedule \in [Level -> Thread \cup {NULL}]
    BY DEF LiveRings, SchedType
<1>1. /\ s.ActivePriorityCount[p] \in Nat /\ Cardinality(Backing(s, L, p)) \in Nat
      /\ s.ActivePriorityCount[p] <= Cardinality(Backing(s, L, p))
    BY <1>0, BackingFinite DEF CountsBacked
<1>2. t \in OfLevel(L, p) /\ t \in L /\ t \in Linked(s) /\ t \in Thread /\ Priority[t] = p
    <2>1. Backing(s, L, p) # {}
        BY <1>1, FS_EmptySet
    <2>2. OfLevel(L, p) # {}
        BY <2>1 DEF Backing
    <2>. QED BY <1>0, <2>2 DEF RingsOn, OfLevel
<1>3. s.next_tcb[t] \in OfLevel(L, p) /\ s.next_tcb[t] \in Thread
    BY <1>0, <1>2 DEF RingsOn, OfLevel
<1>4. /\ a \in [Level -> Thread \cup {NULL}] /\ b \in [Thread -> ThreadState]
      /\ c \in [Level -> Nat]
    <2>1. s.ActivePriorityCount[p] - 1 \in Nat
        BY <1>1
    <2>2. a \in [Level -> Thread \cup {NULL}]
        BY <1>0, <1>3
    <2>3. b \in [Thread -> ThreadState]
        BY <1>0 DEF ThreadState
    <2>4. c \in [Level -> Nat]
        BY <1>0, <2>1
    <2>. QED BY <2>2, <2>3, <2>4
<1>5. r = [s EXCEPT !.ThreadSchedule = a, !.state = b, !.ActivePriorityCount = c]
    BY DEF TakeRoot
<1>6. /\ r \in SchedType /\ r.ThreadSchedule = a /\ r.state = b
      /\ r.ActivePriorityCount = c
      /\ r.next_tcb = s.next_tcb /\ r.prev_tcb = s.prev_tcb
      /\ r.bthreads_root = s.bthreads_root
      /\ r.RunPt = s.RunPt /\ r.NextRunPt = s.NextRunPt /\ r.pendsv = s.pendsv
    <2>. HIDE DEF a, b, c
    <2>. QED BY <1>4, <1>5 DEF SchedType
<1>7. RingsOn(r, L)
    <2>1. \A q \in Level : IF OfLevel(L, q) = {} THEN r.ThreadSchedule[q] = NULL
                           ELSE r.ThreadSchedule[q] \in OfLevel(L, q)
        BY <1>0, <1>2, <1>3, <1>6 DEF RingsOn
    <2>. QED BY <1>0, <1>6, <2>1 DEF RingsOn
<1>8. CountsBacked(r, L)
    <2>. SUFFICES ASSUME NEW q \in Level
                  PROVE  r.ActivePriorityCount[q] <= Cardinality(Backing(r, L, q))
        BY DEF CountsBacked
    <2>1. CASE q = p
        <3>1. Backing(r, L, p) = Backing(s, L, p) \ {t}
            BY <1>0, <1>2, <1>6 DEF Backing, OfLevel
        <3>2. IsFiniteSet(Backing(s, L, p))
            BY BackingFinite
        <3>3. /\ Cardinality(Backing(s, L, p)) - 1 <= Cardinality(Backing(r, L, p))
              /\ Cardinality(Backing(r, L, p)) \in Nat
            BY <3>1, <3>2, OneLess
        <3>4. r.ActivePriorityCount[p] = s.ActivePriorityCount[p] - 1
            BY <1>0, <1>6
        <3>. QED BY <1>1, <2>1, <3>3, <3>4
    <2>2. CASE q # p
        <3>1. Backing(r, L, q) = Backing(s, L, q)
            BY <1>0, <1>2, <1>6, <2>2 DEF Backing, OfLevel
        <3>. QED BY <1>0, <1>6, <2>2, <3>1 DEF CountsBacked
    <2>. QED BY <2>1, <2>2
<1>9. L \subseteq Linked(r) /\ ListsKept(s, r)
    BY <1>0, <1>2, <1>6 DEF Linked, InRing, ListsKept
<1>. QED BY <1>2, <1>6, <1>7, <1>8, <1>9 DEF LiveRings

\* schedule() takes a thread from the rings, or idle, and what it leaves is as
\* before, though it may be called while another switch is pending.
LEMMA ScheduleLive ==
    ASSUME NEW s \in SchedType, NEW L \in SUBSET Thread, LiveRings(s, L), RunningIn(s, L),
           NEW r, r = Schedule(s)
    PROVE  /\ r \in SchedType /\ LiveRings(r, L) /\ RunsIn(r, L) /\ ListsKept(s, r)
           /\ r.RunPt = s.RunPt
           /\ r.pendsv /\ r.NextRunPt \in Thread \cup {IdleThread}
<1>1. PICK q : q = Requeue(s)
    OBVIOUS
<1>2. PICK p : p = TopLevel(q)
    OBVIOUS
<1>3. /\ q \in SchedType /\ LiveRings(q, L) /\ ListsKept(s, q)
      /\ q.RunPt = s.RunPt
      /\ q.RunPt \in Thread => q.state[q.RunPt] # "RUNNING"
    BY <1>1, RequeueLive
<1>4. /\ p \in Level => q.ActivePriorityCount[p] > 0
      /\ p \in Level \cup {PRIORITY_LVL_CNT}
    BY <1>2, <1>3, TopLevelLeast
<1>5. CASE p = PRIORITY_LVL_CNT
    <2>1. r = [q EXCEPT !.NextRunPt = IdleThread, !.pendsv = TRUE]
        BY <1>1, <1>2, <1>5 DEF Schedule
    <2>2. /\ r \in SchedType /\ r.pendsv /\ r.NextRunPt = IdleThread
          /\ r.RunPt = q.RunPt /\ r.state = q.state
          /\ r.next_tcb = q.next_tcb /\ r.prev_tcb = q.prev_tcb
          /\ r.ThreadSchedule = q.ThreadSchedule
          /\ r.ActivePriorityCount = q.ActivePriorityCount
          /\ r.bthreads_root = q.bthreads_root
        BY <2>1, <1>3 DEF SchedType
    <2>3. LiveRings(r, L)
        BY <1>3, <2>2, LiveFrame
    <2>4. RunsIn(r, L)
        BY <1>3, <2>2, ThreadsAssumption DEF RunsIn
    <2>. QED BY <1>3, <2>2, <2>3, <2>4 DEF ListsKept
<1>6. CASE p # PRIORITY_LVL_CNT
    <2>1. p \in Level /\ q.ActivePriorityCount[p] > 0
        BY <1>4, <1>6
    <2>2. PICK k, t : k = TakeRoot(q, p) /\ t = q.ThreadSchedule[p]
        OBVIOUS
    <2>3. r = [k EXCEPT !.NextRunPt = t, !.pendsv = TRUE]
        BY <1>1, <1>2, <1>6, <2>2 DEF Schedule
    <2>4. /\ k \in SchedType /\ LiveRings(k, L) /\ ListsKept(q, k)
          /\ t \in L /\ k.state = [q.state EXCEPT ![t] = "RUNNING"]
          /\ k.RunPt = q.RunPt
        BY <1>3, <2>1, <2>2, TakeRootLive
    <2>5. /\ r \in SchedType /\ r.pendsv /\ r.NextRunPt = t
          /\ r.RunPt = k.RunPt /\ r.state = k.state
          /\ r.next_tcb = k.next_tcb /\ r.prev_tcb = k.prev_tcb
          /\ r.ThreadSchedule = k.ThreadSchedule
          /\ r.ActivePriorityCount = k.ActivePriorityCount
          /\ r.bthreads_root = k.bthreads_root
        BY <2>3, <2>4 DEF SchedType
    <2>6. LiveRings(r, L)
        BY <2>4, <2>5, LiveFrame
    <2>7. RunsIn(r, L)
        <3>1. q.state \in [Thread -> ThreadState]
            BY <1>3 DEF SchedType
        <3>. QED BY <1>3, <2>4, <2>5, <3>1 DEF RunsIn
    <2>. QED BY <1>3, <2>4, <2>5, <2>6, <2>7 DEF ListsKept
<1>. QED BY <1>5, <1>6

\* init_scheduler takes the first thread in the same way.
LEMMA LaunchLive ==
    ASSUME NEW s \in SchedType, NEW L \in SUBSET Thread, LiveRings(s, L), RunsIn(s, L),
           NEW r, r = Launch(s)
    PROVE  /\ r \in SchedType /\ LiveRings(r, L) /\ RunsIn(r, L) /\ ListsKept(s, r)
           /\ r.RunPt \in Thread \cup {IdleThread} /\ r.pendsv = s.pendsv
<1>1. PICK p : p = TopLevel(s)
    OBVIOUS
<1>2. /\ p \in Level => s.ActivePriorityCount[p] > 0
      /\ p \in Level \cup {PRIORITY_LVL_CNT}
    BY <1>1, TopLevelLeast
<1>3. CASE p = PRIORITY_LVL_CNT
    <2>1. r = [s EXCEPT !.RunPt = IdleThread]
        BY <1>1, <1>3 DEF Launch
    <2>2. /\ r \in SchedType /\ r.RunPt = IdleThread
          /\ r.NextRunPt = s.NextRunPt /\ r.pendsv = s.pendsv /\ r.state = s.state
          /\ r.next_tcb = s.next_tcb /\ r.prev_tcb = s.prev_tcb
          /\ r.ThreadSchedule = s.ThreadSchedule
          /\ r.ActivePriorityCount = s.ActivePriorityCount
          /\ r.bthreads_root = s.bthreads_root
        BY <2>1 DEF SchedType
    <2>3. LiveRings(r, L)
        BY <2>2, LiveFrame
    <2>. QED BY <2>2, <2>3, ThreadsAssumption DEF RunsIn, ListsKept
<1>4. CASE p # PRIORITY_LVL_CNT
    <2>1. p \in Level /\ s.ActivePriorityCount[p] > 0
        BY <1>2, <1>4
    <2>2. PICK k, t : k = TakeRoot(s, p) /\ t = s.ThreadSchedule[p]
        OBVIOUS
    <2>3. r = [k EXCEPT !.RunPt = t]
        BY <1>1, <1>4, <2>2 DEF Launch
    <2>4. /\ k \in SchedType /\ LiveRings(k, L) /\ ListsKept(s, k)
          /\ t \in L /\ k.state = [s.state EXCEPT ![t] = "RUNNING"]
          /\ k.NextRunPt = s.NextRunPt /\ k.pendsv = s.pendsv
        BY <2>1, <2>2, TakeRootLive
    <2>5. /\ r \in SchedType /\ r.RunPt = t
          /\ r.NextRunPt = k.NextRunPt /\ r.pendsv = k.pendsv /\ r.state = k.state
          /\ r.next_tcb = k.next_tcb /\ r.prev_tcb = k.prev_tcb
          /\ r.ThreadSchedule = k.ThreadSchedule
          /\ r.ActivePriorityCount = k.ActivePriorityCount
          /\ r.bthreads_root = k.bthreads_root
        BY <2>3, <2>4 DEF SchedType
    <2>6. LiveRings(r, L)
        BY <2>4, <2>5, LiveFrame
    <2>7. RunsIn(r, L)
        <3>1. s.state \in [Thread -> ThreadState]
            BY DEF SchedType
        <3>. QED BY <2>4, <2>5, <3>1 DEF RunsIn
    <2>. QED BY <2>4, <2>5, <2>6, <2>7 DEF ListsKept
<1>. QED BY <1>3, <1>4

-----------------------------------------------------------------------------
(* Which list a blocked thread is on.                                        *)

\* The threads of B wait where w says: heads and links lead to threads that wait
\* for the same semaphore, and every thread is led to.
Waiting(next, heads, B, w) ==
    /\ \A t \in B :
        /\ w[t] \in Sem
        /\ next[t] # NULL => w[next[t]] = w[t]
        /\ t = heads[w[t]] \/ \E v \in B : next[v] = t
    /\ \A sem \in Sem : heads[sem] # NULL => w[heads[sem]] = sem

WaitsOn(s, w) == Waiting(s.next_tcb, s.bthreads_root, Blocked(s), w)

\* What does not touch the blocked threads does not touch their lists.
LEMMA WaitsFrame ==
    ASSUME NEW s, NEW r, NEW w, BlockedOK(s), WaitsOn(s, w),
           Blocked(r) = Blocked(s), r.bthreads_root = s.bthreads_root,
           \A t \in Blocked(s) : r.next_tcb[t] = s.next_tcb[t]
    PROVE  BlockedOK(r) /\ WaitsOn(r, w)
<1>1. BlockedOK(r)
    BY BlockedFrame
<1>. QED BY <1>1 DEF WaitsOn, Waiting

\* In particular schedule() does not.
LEMMA KeptWaits ==
    ASSUME NEW s, NEW r, NEW w, BlockedOK(s), WaitsOn(s, w), ListsKept(s, r)
    PROVE  BlockedOK(r) /\ WaitsOn(r, w) /\ Blocked(r) = Blocked(s)
<1>1. Blocked(r) = Blocked(s)
    BY DEF ListsKept, Blocked, InRing
<1>. QED BY <1>1, WaitsFrame DEF ListsKept

\* The insertion puts t on the list of the semaphore it waits for.
LEMMA InsertWaits ==
    ASSUME NEW next \in [Thread -> Thread \cup {NULL}],
           NEW heads \in [Sem -> Thread \cup {NULL}],
           NEW B \in SUBSET Thread, NEW w, Waiting(next, heads, B, w),
           \A u \in B : next[u] \in B \cup {NULL},
           \A i \in Sem : heads[i] \in B \cup {NULL},
           NEW t \in Thread, t \notin B, next[t] = NULL,
           NEW sem \in Sem, w[t] = sem,
           NEW r, Inserted(r, next, heads[sem], {u \in B : w[u] = sem}, Priority, t),
           NEW new, new = [heads EXCEPT ![sem] = r.root]
    PROVE  Waiting(r.next_tcb, new, B \cup {t}, w)
<1>0. /\ NULL \notin Thread
      /\ new[sem] = r.root /\ \A i \in Sem : i # sem => new[i] = heads[i]
    BY ThreadsAssumption
<1>1. CASE heads[sem] = NULL /\ r.root = t /\ r.next_tcb = next
    BY <1>0, <1>1 DEF Waiting
<1>2. CASE heads[sem] # NULL /\ r.root = t /\ r.next_tcb = [next EXCEPT ![t] = heads[sem]]
    <2>1. /\ r.next_tcb[t] = heads[sem]
          /\ \A u \in B : r.next_tcb[u] = next[u]
        BY <1>2
    <2>. QED BY <1>0, <1>2, <2>1 DEF Waiting
<1>3. CASE /\ heads[sem] # NULL /\ r.root = heads[sem]
           /\ \E node \in {u \in B : w[u] = sem} :
                 r.next_tcb = [next EXCEPT ![t] = next[node], ![node] = t]
    <2>1. PICK node \in B : /\ w[node] = sem
                            /\ r.next_tcb = [next EXCEPT ![t] = next[node], ![node] = t]
        BY <1>3
    <2>2. PICK nx : nx = r.next_tcb
        OBVIOUS
    <2>3. /\ nx[t] = next[node] /\ nx[node] = t
          /\ \A u \in B : u # node => nx[u] = next[u]
        BY <2>1, <2>2
    <2>4. \A i \in Sem : new[i] = heads[i]
        BY <1>0, <1>3
    <2>5. ASSUME NEW u \in B \cup {t}
          PROVE  /\ w[u] \in Sem
                 /\ nx[u] # NULL => w[nx[u]] = w[u]
                 /\ u = new[w[u]] \/ \E v \in B \cup {t} : nx[v] = u
        <3>1. CASE u = t
            BY <1>0, <2>1, <2>3, <3>1 DEF Waiting
        <3>2. CASE u \in B
            <4>1. w[u] \in Sem /\ (nx[u] # NULL => w[nx[u]] = w[u])
                BY <2>1, <2>3, <3>2 DEF Waiting
            <4>2. CASE u = heads[w[u]]
                BY <2>4, <4>1, <4>2
            <4>3. CASE u # heads[w[u]]
                <5>1. PICK v \in B : next[v] = u
                    BY <3>2, <4>3 DEF Waiting
                <5>. QED BY <2>3, <4>1, <5>1
            <4>. QED BY <4>1, <4>2, <4>3
        <3>. QED BY <3>1, <3>2
    <2>. QED BY <2>2, <2>4, <2>5 DEF Waiting
<1>. QED BY <1>1, <1>2, <1>3 DEF Inserted

\* When the first waiter leaves, the second is led to by the head.
LEMMA RemoveWaits ==
    ASSUME NEW next, NEW heads \in [Sem -> Thread \cup {NULL}],
           NEW B \in SUBSET Thread, NEW w, Waiting(next, heads, B, w),
           NEW sem \in Sem, NEW t \in B, t = heads[sem],
           \A i \in Sem : heads[i] = t => i = sem,
           NEW nx, \A u \in B \ {t} : nx[u] = next[u],
           NEW new, new = [heads EXCEPT ![sem] = next[t]]
    PROVE  Waiting(nx, new, B \ {t}, w)
<1>0. /\ NULL \notin Thread /\ w[t] = sem
      /\ new[sem] = next[t] /\ \A i \in Sem : i # sem => new[i] = heads[i]
    BY ThreadsAssumption DEF Waiting
<1>1. ASSUME NEW u \in B \ {t}
      PROVE  /\ w[u] \in Sem
             /\ nx[u] # NULL => w[nx[u]] = w[u]
             /\ u = new[w[u]] \/ \E v \in B \ {t} : nx[v] = u
    <2>1. w[u] \in Sem /\ (nx[u] # NULL => w[nx[u]] = w[u])
        BY DEF Waiting
    <2>2. CASE u = heads[w[u]]
        BY <1>0, <2>1, <2>2
    <2>3. CASE u # heads[w[u]]
        <3>1. PICK v \in B : next[v] = u
            BY <2>3 DEF Waiting
        <3>2. CASE v = t
            <4>1. u # NULL
                BY <1>0
            <4>2. w[u] = sem
                BY <1>0, <3>1, <3>2, <4>1 DEF Waiting
            <4>. QED BY <1>0, <2>1, <3>1, <3>2, <4>2
        <3>. QED BY <2>1, <3>1, <3>2
    <2>. QED BY <2>1, <2>2, <2>3
<1>2. \A i \in Sem : new[i] # NULL => w[new[i]] = i
    BY <1>0 DEF Waiting
<1>. QED BY <1>1, <1>2 DEF Waiting

\* sched_block, by a thread that waits for sem.
LEMMA SchedBlockLive ==
    ASSUME NEW s \in SchedType, BlockedOK(s), NEW w, WaitsOn(s, w),
           NEW L \in SUBSET Thread, LiveRings(s, L), RunsIn(s, L),
           ~s.pendsv, s.RunPt \in Thread,
           NEW sem \in Sem, w[s.RunPt] = sem,
           NEW r, r = SchedBlock(s, sem)
    PROVE  /\ r \in SchedType /\ BlockedOK(r) /\ WaitsOn(r, w)
           /\ \E M \in SUBSET Thread : LiveRings(r, M) /\ RunsIn(r, M)
<1>0. PICK t : t = s.RunPt
    OBVIOUS
<1>1. PICK d : d = Leave(s, t, "BLOCKED")
    OBVIOUS
<1>2. PICK list : list = InsertSorted(d.next_tcb, d.bthreads_root[sem], Priority, t)
    OBVIOUS
<1>3. PICK e : e = [d EXCEPT !.next_tcb = list.next_tcb, !.bthreads_root[sem] = list.root]
    OBVIOUS
<1>4. r = Schedule(e)
    BY <1>0, <1>1, <1>2, <1>3 DEF SchedBlock
<1>5. /\ t \in L /\ t \in Thread /\ s.state[t] = "RUNNING" /\ w[t] = sem
      /\ L \subseteq Linked(s) /\ t \notin Blocked(s)
      /\ \A u \in Blocked(s) : u \in Thread \ L
      /\ s.state \in [Thread -> ThreadState] /\ NULL \notin Thread
    BY <1>0, ThreadsAssumption DEF RunsIn, LiveRings, Linked, Blocked, InRing, SchedType
<1>6. /\ d \in SchedType
      /\ \E M \in SUBSET (L \ {t}) : LiveRings(d, M)
      /\ d.state = [s.state EXCEPT ![t] = "BLOCKED"]
      /\ d.next_tcb[t] = NULL
      /\ \A u \in Thread \ L : d.next_tcb[u] = s.next_tcb[u]
      /\ d.bthreads_root = s.bthreads_root
      /\ d.RunPt = s.RunPt
    <2>1. "BLOCKED" \in {"BLOCKED", "SLEEPING"}
        OBVIOUS
    <2>2. LeftRings(s, L, t, "BLOCKED", d)
        BY <1>1, <1>5, <2>1, LeaveLive
    <2>. QED BY <2>2 DEF LeftRings
<1>7. PICK M \in SUBSET (L \ {t}) : LiveRings(d, M)
    BY <1>6
<1>8. /\ Blocked(d) = Blocked(s) \cup {t}
      /\ \A u \in Blocked(s) : d.next_tcb[u] = s.next_tcb[u]
    BY <1>5, <1>6 DEF Blocked
<1>9. JustBlocked(s, d, t)
    BY <1>5, <1>6, <1>8 DEF JustBlocked
<1>10. PICK heads : heads = [d.bthreads_root EXCEPT ![sem] = list.root]
    OBVIOUS
<1>11. /\ e.next_tcb = list.next_tcb /\ e.bthreads_root = heads
       /\ e.state = d.state /\ e.prev_tcb = d.prev_tcb
       /\ e.ThreadSchedule = d.ThreadSchedule
       /\ e.ActivePriorityCount = d.ActivePriorityCount
       /\ e.RunPt = d.RunPt /\ e.NextRunPt = d.NextRunPt /\ e.pendsv = d.pendsv
       /\ e = [d EXCEPT !.next_tcb = e.next_tcb, !.bthreads_root = e.bthreads_root]
    BY <1>3, <1>6, <1>10 DEF SchedType
<1>12. /\ e.next_tcb \in [Thread -> Thread \cup {NULL}]
       /\ e.bthreads_root \in [Sem -> Thread \cup {NULL}]
       /\ BlockedOK(e)
       /\ \A u \in Thread \ Blocked(d) : e.next_tcb[u] = d.next_tcb[u]
    <2>1. Spliced(d, e, t, sem)
        BY <1>2, <1>10, <1>11 DEF Spliced
    <2>. QED BY <1>5, <1>6, <1>9, <2>1, InsertBlocked
<1>13. e \in SchedType
    BY <1>6, <1>11, <1>12 DEF SchedType
<1>14. WaitsOn(e, w)
    <2>1. PICK B, next, roots : B = Blocked(s) /\ next = d.next_tcb /\ roots = d.bthreads_root
        OBVIOUS
    <2>2. PICK Q : Q = {u \in B : w[u] = sem}
        OBVIOUS
    <2>3. /\ next \in [Thread -> Thread \cup {NULL}]
          /\ roots \in [Sem -> Thread \cup {NULL}]
          /\ B \in SUBSET Thread /\ Priority \in [Thread -> Int]
        BY <1>6, <2>1, LevelsAssumption, ThreadsAssumption DEF SchedType, Level, Blocked
    <2>4. /\ Forest(next, B, Priority)
          /\ \A i \in Sem : roots[i] \in B \cup {NULL}
        <3>1. Forest(s.next_tcb, B, Priority) /\ \A i \in Sem : roots[i] \in B \cup {NULL}
            BY <1>6, <2>1, BlockedForest
        <3>. QED BY <1>8, <2>1, <3>1 DEF Forest
    <2>5. Waiting(next, roots, B, w)
        BY <1>6, <1>8, <2>1 DEF WaitsOn, Waiting
    <2>6. \A u \in B : next[u] \in B \cup {NULL}
        BY <2>4 DEF Forest
    <2>7. Forest(next, Q, Priority) /\ roots[sem] \in Q \cup {NULL} /\ Q \in SUBSET Thread
        BY <2>2, <2>3, <2>4, <2>5 DEF Forest, Waiting
    <2>8. Inserted(list, next, roots[sem], Q, Priority, t)
        BY <1>2, <1>5, <2>1, <2>3, <2>7, InsertSortedEffect
    <2>9. heads = [roots EXCEPT ![sem] = list.root] /\ t \notin B /\ next[t] = NULL
        BY <1>5, <1>6, <1>10, <2>1
    <2>10. Waiting(list.next_tcb, heads, B \cup {t}, w)
        BY <1>5, <2>2, <2>3, <2>4, <2>5, <2>6, <2>8, <2>9, InsertWaits
    <2>11. Blocked(e) = B \cup {t}
        BY <1>8, <1>11, <2>1 DEF Blocked
    <2>. QED BY <1>11, <2>10, <2>11 DEF WaitsOn
<1>15. LiveRings(e, M)
    <2>1. \A u \in M : u \in Thread \ Blocked(d)
        BY <1>7, <1>8, <1>5 DEF Linked
    <2>2. \A u \in M : e.next_tcb[u] = d.next_tcb[u] /\ e.prev_tcb[u] = d.prev_tcb[u]
        BY <1>11, <1>12, <2>1
    <2>3. /\ e.state = d.state /\ e.ThreadSchedule = d.ThreadSchedule
          /\ e.ActivePriorityCount = d.ActivePriorityCount
        BY <1>11
    <2>. QED BY <1>7, <2>2, <2>3, LiveFrame
<1>16. RunningIn(e, M)
    BY <1>0, <1>5, <1>6, <1>11 DEF RunningIn
<1>17. M \in SUBSET Thread
    OBVIOUS
<1>18. r \in SchedType /\ LiveRings(r, M) /\ RunsIn(r, M) /\ ListsKept(e, r)
    BY <1>4, <1>13, <1>15, <1>16, <1>17, ScheduleLive
<1>. QED BY <1>12, <1>14, <1>17, <1>18, KeptWaits

\* sched_unblock.
LEMMA SchedUnblockLive ==
    ASSUME NEW s \in SchedType, BlockedOK(s), NEW w, WaitsOn(s, w),
           NEW L \in SUBSET Thread, LiveRings(s, L), RunsIn(s, L),
           NEW sem \in Sem, s.bthreads_root[sem] # NULL,
           NEW r, r = SchedUnblock(s, sem)
    PROVE  /\ r \in SchedType /\ BlockedOK(r) /\ WaitsOn(r, w)
           /\ \E M \in SUBSET Thread : LiveRings(r, M) /\ RunsIn(r, M)
           /\ \A u \in Thread : r.state[u] = "BLOCKED" => s.state[u] = "BLOCKED"
<1>0. PICK t, heads, x : /\ t = s.bthreads_root[sem]
                         /\ heads = [s.bthreads_root EXCEPT ![sem] = s.next_tcb[t]]
                         /\ x = [s EXCEPT !.bthreads_root = heads]
    OBVIOUS
<1>1. r = EnqueueThread(x, t)
    BY <1>0 DEF SchedUnblock
<1>2. /\ t \in Blocked(s) /\ t \in Thread /\ t \notin Linked(s)
      /\ s.next_tcb[t] \in Blocked(s) \cup {NULL}
      /\ L \subseteq Linked(s)
      /\ Blocked(s) \subseteq Thread /\ NULL \notin Thread
      /\ \A u \in Blocked(s) : u \notin L
    BY <1>0, ThreadsAssumption
    DEF BlockedOK, BlockedLinks, LiveRings, Blocked, Linked, InRing
<1>3. /\ s.next_tcb \in [Thread -> Thread \cup {NULL}]
      /\ s.bthreads_root \in [Sem -> Thread \cup {NULL}]
      /\ s.state \in [Thread -> ThreadState]
    BY DEF SchedType
<1>4. /\ heads \in [Sem -> Thread \cup {NULL}]
      /\ heads[sem] = s.next_tcb[t]
      /\ \A i \in Sem : i # sem => heads[i] = s.bthreads_root[i]
    BY <1>0, <1>2, <1>3
<1>5. /\ x \in SchedType
      /\ x.bthreads_root = heads
      /\ x.next_tcb = s.next_tcb /\ x.prev_tcb = s.prev_tcb
      /\ x.state = s.state /\ x.ThreadSchedule = s.ThreadSchedule
      /\ x.ActivePriorityCount = s.ActivePriorityCount
      /\ x.RunPt = s.RunPt /\ x.NextRunPt = s.NextRunPt /\ x.pendsv = s.pendsv
    BY <1>0, <1>4 DEF SchedType
<1>6. LiveRings(x, L) /\ Linked(x) = Linked(s)
    BY <1>5, LiveFrame DEF Linked
<1>7. /\ r \in SchedType /\ LiveRings(r, L \cup {t})
      /\ r.state = [x.state EXCEPT ![t] = "ACTIVE"]
      /\ \A u \in Thread \ (L \cup {t}) : r.next_tcb[u] = x.next_tcb[u]
      /\ r.bthreads_root = x.bthreads_root
      /\ r.RunPt = x.RunPt /\ r.NextRunPt = x.NextRunPt /\ r.pendsv = x.pendsv
    <2>1. t \notin Linked(x) /\ x \in SchedType /\ LiveRings(x, L)
        BY <1>2, <1>5, <1>6
    <2>. QED BY <1>1, <1>2, <2>1, EnqueueLive
<1>8. Blocked(r) = Blocked(s) \ {t}
    BY <1>2, <1>3, <1>5, <1>7 DEF Blocked
<1>9. \A u \in Blocked(s) \ {t} : r.next_tcb[u] = s.next_tcb[u]
    BY <1>2, <1>5, <1>7
<1>10. /\ Forest(s.next_tcb, Blocked(s), Priority)
       /\ \A i \in Sem : s.bthreads_root[i] \in Blocked(s) \cup {NULL}
       /\ \A i, j \in Sem : s.bthreads_root[i] = s.bthreads_root[j] =>
             i = j \/ s.bthreads_root[i] = NULL
       /\ \A i \in Sem, u \in Blocked(s) : s.next_tcb[u] = s.bthreads_root[i] =>
             s.bthreads_root[i] = NULL
    BY BlockedForest
<1>11. \A i \in Sem : s.bthreads_root[i] = t => i = sem
    BY <1>0, <1>2, <1>10
<1>12. BlockedOK(r)
    <2>1. \A u \in Blocked(r) : r.next_tcb[u] = s.next_tcb[u]
        BY <1>8, <1>9
    <2>2. /\ r.bthreads_root[sem] = s.next_tcb[t]
          /\ \A i \in Sem : i # sem => r.bthreads_root[i] = s.bthreads_root[i]
        BY <1>4, <1>5, <1>7
    <2>. QED BY <1>0, <1>2, <1>8, <2>1, <2>2, HeadGone
<1>13. WaitsOn(r, w)
    <2>1. Waiting(r.next_tcb, heads, Blocked(s) \ {t}, w)
        BY <1>0, <1>2, <1>3, <1>9, <1>11, RemoveWaits DEF WaitsOn
    <2>. QED BY <1>5, <1>7, <1>8, <2>1 DEF WaitsOn
<1>14. RunsIn(r, L \cup {t})
    BY <1>2, <1>3, <1>5, <1>7 DEF RunsIn, Blocked
<1>15. L \cup {t} \in SUBSET Thread
    BY <1>2
<1>16. \A u \in Thread : r.state[u] = "BLOCKED" => s.state[u] = "BLOCKED"
    BY <1>8 DEF Blocked
<1>. QED BY <1>7, <1>12, <1>13, <1>14, <1>15, <1>16

\* A walk from the head of sem meets the threads that wait for it and no other.
\* Those it missed would each be linked from another it missed: the links map a
\* proper part of these onto all of them, and they are finitely many.
LEMMA BlockedChain ==
    ASSUME NEW s \in SchedType, BlockedOK(s), NEW w, WaitsOn(s, w), NEW sem \in Sem
    PROVE  LET list == Chain(s.next_tcb, s.bthreads_root[sem])
           IN  /\ list = {t \in Blocked(s) : w[t] = sem}
               /\ \A t \in list : s.next_tcb[t] # NULL =>
                     Priority[t] <= Priority[s.next_tcb[t]]
               /\ list # {} => \E t \in list : s.next_tcb[t] = NULL
<1>. DEFINE next == s.next_tcb
            root == s.bthreads_root[sem]
            list == Chain(next, root)
            Q == {t \in Blocked(s) : w[t] = sem}
            U == Q \ list
<1>1. /\ root \in Blocked(s) \cup {NULL}
      /\ \A u \in Blocked(s) : next[u] \in Blocked(s) \cup {NULL}
      /\ \A S \in SUBSET Blocked(s) : S # {} => \E u \in S : next[u] \notin S
      /\ Blocked(s) \subseteq Thread /\ NULL \notin Thread
    BY ThreadsAssumption DEF BlockedOK, BlockedLinks, BlockedEnds, Blocked
<1>2. /\ root \in Q \cup {NULL} /\ Q \in SUBSET Thread
      /\ \A u \in Q : next[u] \in Q \cup {NULL}
      /\ \A u \in Q : u = root \/ \E v \in Q : next[v] = u
    <2>1. \A u \in Q : next[u] # NULL => next[u] \in Q
        BY <1>1 DEF WaitsOn, Waiting
    <2>2. root \in Q \cup {NULL}
        BY <1>1 DEF WaitsOn, Waiting
    <2>3. ASSUME NEW u \in Q, u # root
          PROVE  \E v \in Q : next[v] = u
        <3>1. PICK v \in Blocked(s) : next[v] = u
            BY <2>3 DEF WaitsOn, Waiting
        <3>2. w[v] = sem
            BY <1>1, <3>1 DEF WaitsOn, Waiting
        <3>. QED BY <3>1, <3>2
    <2>. QED BY <1>1, <2>1, <2>2, <2>3
<1>3. /\ list \subseteq Q
      /\ \A u \in list : next[u] \in list \cup {NULL}
      /\ root # NULL => root \in list
    <2>1. CASE root = NULL
        BY <2>1 DEF Chain
    <2>2. CASE root # NULL
        <3>1. root \in Q /\ root \in Thread
            BY <1>2, <2>2
        <3>. HIDE DEF Q, root, next
        <3>. QED BY <1>2, <3>1, ChainClosed
    <2>. QED BY <2>1, <2>2
<1>. HIDE DEF Q, list, root
<1>4. \A u \in U : u # NULL /\ \E v \in U : next[v] = u
    <2>. SUFFICES ASSUME NEW u \in U
                  PROVE  u # NULL /\ \E v \in U : next[v] = u
        OBVIOUS
    <2>1. u \in Q /\ u \notin list /\ u # NULL
        BY <1>1, <1>2
    <2>2. PICK v \in Q : next[v] = u
        BY <1>2, <1>3, <2>1
    <2>3. v \notin list
        BY <1>3, <2>1, <2>2
    <2>. QED BY <2>1, <2>2, <2>3
<1>5. U = {}
    <2>. DEFINE K == {v \in U : next[v] \in U}
                f == [v \in K |-> next[v]]
    <2>1. U \in SUBSET Thread /\ IsFiniteSet(U) /\ Cardinality(U) \in Nat
        BY <1>2, ThreadsAssumption, FS_Subset, FS_CardinalityType
    <2>2. K \in SUBSET U /\ IsFiniteSet(K) /\ Cardinality(K) \in Nat
        BY <2>1, FS_Subset, FS_CardinalityType
    <2>3. f \in Surjection(K, U)
        BY <1>4 DEF Surjection
    <2>. HIDE DEF f
    <2>4. Cardinality(U) <= Cardinality(K)
        BY <2>2, <2>3, FS_Surjection
    <2>5. Cardinality(K) <= Cardinality(U) /\ (Cardinality(U) = Cardinality(K) => U = K)
        BY <2>1, <2>2, FS_Subset
    <2>6. U = K
        BY <2>1, <2>2, <2>4, <2>5
    <2>7. U \in SUBSET Blocked(s) /\ \A u \in U : next[u] \in U
        BY <2>6 DEF Q
    <2>. QED BY <1>1, <2>7
<1>6. list = Q
    BY <1>3, <1>5
<1>7. \A t \in list : next[t] # NULL => Priority[t] <= Priority[next[t]]
    BY <1>6 DEF BlockedOK, BlockedSorted, Q
<1>8. list # {} => \E t \in list : next[t] = NULL
    <2>1. list \in SUBSET Blocked(s)
        BY <1>6 DEF Q
    <2>. QED BY <1>1, <1>3, <2>1
<1>. QED BY <1>6, <1>7, <1>8 DEF list, root, Q
=============================================================================
