------------------------------- MODULE MCMessage -------------------------------
(* Message on a small instance: member, who comes and goes in a room, and  *)
(* stranger, who never is a member of it but may try everything, and comes *)
(* and goes in a second one.  Sockets, keys and task slots are             *)
(* interchangeable.                                                        *)
EXTENDS Message, TLC

CONSTANTS member, stranger, c1, c2

Symmetry == Permutations(Sockets) \cup Permutations(Keys) \cup Permutations(Tasks)

Replies ==
    \/ \E m \in MessageIds : message[m].reply # 0
    \/ \E t \in Tasks : task[t].quote # 0

(* Bounds: who is ever a member of a room, how many messages have been     *)
(* marked read when anything else happens; files and receipts as long as   *)
(* there is neither the second room nor a reply.                           *)
Bounds ==
    /\ ever[c1] \subseteq {member} /\ ever[c2] \subseteq {stranger}
    /\ Cardinality(receipts) <= 1
    /\ ever[c2] # {} \/ Replies =>
          used = {} /\ receipts = {} /\ \A t \in Tasks : task[t].files = 0
===============================================================================
