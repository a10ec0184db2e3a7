-------------------------------- MODULE MCOtp --------------------------------
(* Otp on small instances.  Request slots are interchangeable. *)
EXTENDS Otp, TLC

RequestSymmetry == Permutations(Requests)

(* The requests that name another purpose than login, and what is left of  *)
(* such requests.                                                          *)
Other == {r \in Requests : req[r].purpose # "login"}
Traces == {k \in Counters : k[2] # "login" /\ counter[k].n > 0}

(* Bounds: codes are sent for login only, while a verification may name    *)
(* another purpose, one at a time and as long as one code was sent.  What  *)
(* is cut off are requests that start.                                     *)
LoginCodes ==
    /\ \A i \in 1..next : payload[i][1] = "login"
    /\ Cardinality(Other) <= 1
    /\ next > 1 => Other = {} /\ Traces = {} /\ \A p \in Purposes \ {"login"} : block[p] = 0
==============================================================================
