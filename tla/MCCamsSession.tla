---------------------------- MODULE MCCamsSession ----------------------------
(* CamsSession for TLC: the sockets are interchangeable.                    *)
EXTENDS CamsSession, TLC

FdSymmetry == Permutations(Fds)
=============================================================================
