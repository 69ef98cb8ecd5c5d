---------------------------- MODULE MCSleepTimer ----------------------------
(* SleepTimer on three threads, u of level 0 and the others of level 1.     *)
EXTENDS SleepTimer, TLC

CONSTANTS a, b, u

MCPriority == [t \in Thread |-> IF t = u THEN 0 ELSE 1]

\* a and b differ in nothing but their names.
PeerSymmetry == Permutations({a, b})
=============================================================================
