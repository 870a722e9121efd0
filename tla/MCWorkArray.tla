---------------------------- MODULE MCWorkArray ----------------------------
(* WorkArray with a few results for TLC: r1 and r2 are ordinary ones, n1 is *)
(* of the non-CPU-intensive application.                                    *)
EXTENDS WorkArray, TLC

CONSTANTS r1, r2, n1, j1, j2, jn

ThreeJobs == (r1 :> j1) @@ (r2 :> j2) @@ (n1 :> jn)
TwoJobs   == (r1 :> j1) @@ (n1 :> jn)

(* Processes only differ in their ids. *)
Interchangeable == Permutations(Pid)
=============================================================================
