---------------------------- MODULE SessionRegistry ----------------------------
(***************************************************************************)
(* What the auth service promises about refresh sessions, without tokens'  *)
(* signatures, blacklists and answers: who may open a session and how      *)
(* often, who may close one, and when.  AuthSession, the detailed          *)
(* specification, implements this one.                                     *)
(***************************************************************************)
EXTENDS Integers

CONSTANTS
    Users,
    Token,          \* the sessions there may be; t.sub is the user of session t
    Slots,          \* requests in flight at the same time
    Volatile,       \* TRUE: the registry dies with the process
    MaxTime         \* bound: the last second modelled

VARIABLES
    now,
    open,       \* session -> second it expires, 0 if it is not open
    entry,      \* slot -> the user for whom it may open a session, if any
    basis,      \* slot -> the session it was admitted on, if any
    closing     \* slot -> the sessions it may close

registry == <<now, open, entry, basis, closing>>

OpenOf(u) == {t \in Token : t.sub = u /\ open[t] # 0}
Free(r)   == entry[r] = {} /\ closing[r] = {}

RegistryInit ==
    /\ now = 0
    /\ open = [t \in Token |-> 0]
    /\ entry = [r \in Slots |-> {}]
    /\ basis = [r \in Slots |-> {}]
    /\ closing = [r \in Slots |-> {}]
--------------------------------------------------------------------------------
(* Somebody has shown to be this user by other means than a session. *)
Login(r, u) ==
    /\ Free(r)
    /\ entry' = [entry EXCEPT ![r] = {u}]
    /\ UNCHANGED <<now, open, basis, closing>>

(* Somebody presents an open session to have it renewed. *)
Present(r, t) ==
    /\ Free(r)
    /\ open[t] # 0
    /\ entry' = [entry EXCEPT ![r] = {t.sub}]
    /\ basis' = [basis EXCEPT ![r] = {t}]
    /\ UNCHANGED <<now, open, closing>>

(* One session for one admission, of the user who was admitted; only then  *)
(* may the session that was presented be closed.                           *)
Open(r, t, until) ==
    /\ t.sub \in entry[r]
    /\ until > now
    /\ open' = [open EXCEPT ![t] = until]
    /\ entry' = [entry EXCEPT ![r] = {}]
    /\ closing' = [closing EXCEPT ![r] = basis[r]]
    /\ basis' = [basis EXCEPT ![r] = {}]
    /\ UNCHANGED now

(* A revocation may close the sessions one user has now, none opened later. *)
Revoke(r, u) ==
    /\ Free(r)
    /\ closing' = [closing EXCEPT ![r] = OpenOf(u)]
    /\ UNCHANGED <<now, open, entry, basis>>

Close(r, t) ==
    /\ t \in closing[r]
    /\ open' = [open EXCEPT ![t] = 0]
    /\ closing' = [closing EXCEPT ![r] = @ \ {t}]
    /\ UNCHANGED <<now, entry, basis>>

(* A request that stops loses its rights and undoes nothing. *)
Leave(r) ==
    /\ entry' = [entry EXCEPT ![r] = {}]
    /\ basis' = [basis EXCEPT ![r] = {}]
    /\ closing' = [closing EXCEPT ![r] = {}]
    /\ UNCHANGED <<now, open>>

(* Time closes the sessions that are due, and no other. *)
Elapse ==
    /\ now < MaxTime
    /\ now' = now + 1
    /\ open' = [t \in Token |-> IF open[t] <= now + 1 THEN 0 ELSE open[t]]
    /\ UNCHANGED <<entry, basis, closing>>

Crash ==
    /\ open' = IF Volatile THEN [t \in Token |-> 0] ELSE open
    /\ entry' = [r \in Slots |-> {}]
    /\ basis' = [r \in Slots |-> {}]
    /\ closing' = [r \in Slots |-> {}]
    /\ UNCHANGED now

RegistryNext ==
    \/ \E r \in Slots : Leave(r)
    \/ Crash
    \/ \E r \in Slots, t \in Token, until \in 1..MaxTime + 1 : Open(r, t, until)
    \/ \E r \in Slots, t \in Token : Present(r, t) \/ Close(r, t)
    \/ \E r \in Slots, u \in Users : Login(r, u) \/ Revoke(r, u)
    \/ Elapse

RegistrySpec == RegistryInit /\ [][RegistryNext]_registry
================================================================================
