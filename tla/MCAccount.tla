------------------------------- MODULE MCAccount -------------------------------
(* Account on a small instance: a Google account with an e-mail and one    *)
(* without.  Users, roles and task slots are interchangeable.              *)
EXTENDS Account, TLC

CONSTANTS m1, g1, g2

Shown == (g1 :> m1) @@ (g2 :> NoMail)

Symmetry == Permutations(People) \cup Permutations(RoleIds) \cup Permutations(Tasks)

(* The Google accounts that are linked, have created a user or log in.     *)
Used ==
    {s \in Subs : \/ account[s] # Nobody
                  \/ \E u \in People : born[u] = s
                  \/ \E t \in Tasks : task[t].sub = s}

(* The tasks that only write verification and reset tokens. *)
Mailing == {t \in Tasks : task[t].pc \in {"verify", "confirm", "issue", "reset"}}

(* Bounds: one Google account at a time; one role is posted, while nobody  *)
(* verifies or resets anything; links are made while there is one user,    *)
(* and nobody else comes.                                                  *)
Bounds ==
    /\ \A a, b \in Used : a = b
    /\ posted # {} => Cardinality(posted) = 1 /\ Mailing = {}
    /\ (\E l \in Links : issued[l] # Nobody) =>
          /\ posted = {}
          /\ \E u \in People : \A x \in People \ {u} : ~Exists(x)
          /\ \A t \in Tasks : task[t].pc = "idle" \/ t \in Mailing
===============================================================================
