-------------------------- MODULE MCHostedServing --------------------------
(* Model values for the model checking of HostedServing. *)
EXTENDS HostedServing, TLC

CONSTANTS k1, k2, s1, s2, i1, i2

\* The servers are interchangeable; used in the runs without liveness.
Interchangeable == Permutations(Servers)
=============================================================================
