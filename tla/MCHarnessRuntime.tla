-------------------------- MODULE MCHarnessRuntime --------------------------
(* Instances of HarnessRuntime for TLC. *)
EXTENDS HarnessRuntime

CONSTANTS t1, t2, s1, s2, u1, u2

\* Threads, sessions and subscribers are interchangeable (no run with
\* liveness uses this).
Symmetry == Permutations(Thread) \cup Permutations(Session) \cup Permutations(Subscriber)
=============================================================================
