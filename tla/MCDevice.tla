------------------------------ MODULE MCDevice ------------------------------
(* The submissions are interchangeable. *)
EXTENDS Device, TLC

Resubmissions == Permutations(Posts)
=============================================================================
