-------------------------------- MODULE MCChat --------------------------------
(* Chat on a small instance.  Users, request slots and sockets are         *)
(* interchangeable.                                                        *)
EXTENDS Chat, TLC

Symmetry == Permutations(Users) \cup Permutations(Requests) \cup Permutations(Sockets)
===============================================================================
