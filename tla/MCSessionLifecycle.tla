-------------------------- MODULE MCSessionLifecycle --------------------------
(* Small instances of SessionLifecycle: one session on one host, which is   *)
(* local or reached over ssh, and API requests that can be permuted.        *)
EXTENDS SessionLifecycle, TLC

CONSTANTS sess, host

MCHostOf == [s \in Sessions |-> host]

Symmetry == Permutations(Users)
===============================================================================
