---------------------------- MODULE MCAuthSession ----------------------------
(* AuthSession on small instances.  Request slots are interchangeable. *)
EXTENDS AuthSession, TLC

RequestSymmetry == Permutations(Requests)
==============================================================================
