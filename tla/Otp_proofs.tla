------------------------------ MODULE Otp_proofs ------------------------------
(***************************************************************************)
(* Theorems about Otp, for any number of requests, codes and purposes, any *)
(* limits and lifetimes.                                                   *)
(***************************************************************************)
EXTENDS Otp, FiniteSetTheorems, TLAPS

(* The awaits of a verification that has found its code. *)
Spending == {"clear", "clear2", "delete", "deltoken", "outcome"}

(* What a handler carries from await to await: who stores a code has one,  *)
(* and only a send stores; who spends one has found it.                    *)
Shape(x) ==
    /\ x.op = "send" => x.otp \in Ids
    /\ x.pc \in {"put", "puttoken", "mail"} => x.op = "send"
    /\ x.pc \in {"incr", "expire"} /\ x.key[1] = "resend" => x.op = "send"
    /\ x.pc \in Spending => x.otp \in Ids
    /\ x.pc \in Spending \cup {"find"} => x.op # "send"

Handlers == \A r \in Requests : Shape(req[r])

Typed == TypeOK /\ Handlers

LEMMA Settings ==
    /\ MaxSends \in Nat /\ Ids \subseteq Nat /\ 0 \notin Ids /\ Ids \subseteq 0..MaxSends
    /\ OtpTTL \in Nat /\ ResetTTL \in Nat /\ BlockTTL \in Nat /\ WindowTTL \in Nat
    /\ "login" \in Purposes
    /\ (CHOOSE c \in Channels : TRUE) \in Channels
<1>1. \E c \in Channels : TRUE
  BY InputAssumption
<1>2. (CHOOSE c \in Channels : TRUE) \in Channels
  BY <1>1
<1> QED BY <1>2, InputAssumption, TTLAssumption, BoundAssumption DEF Ids

LEMMA IdleType ==
    /\ Idle \in Request /\ Shape(Idle)
    /\ Idle.pc = "idle" /\ Idle.op = "none" /\ Idle.code = 0
BY Settings DEF Idle, Request, Shape, Counters, Spending

LEMMA KeyParts ==
    ASSUME NEW k \in Counters
    PROVE  /\ k[1] \in {"resend", "invalid", "rate"} /\ k[2] \in Purposes
           /\ CounterTtl(k) \in Left
BY Settings DEF Counters, CounterTtl, TtlOf, Left

LEMMA SetType ==
    ASSUME NEW p \in Purposes
    PROVE  Set(TtlOf(p)) \in Left /\ Set(BlockTTL) \in Left
BY Settings DEF Set, TtlOf, Left, NoExpiry

(* The parts of a handler. *)
LEMMA Parts ==
    ASSUME Typed, NEW r \in Requests
    PROVE  /\ req[r] \in Request /\ Shape(req[r])
           /\ req[r].purpose \in Purposes /\ req[r].channel \in Channels
           /\ req[r].key \in Counters /\ req[r].n \in Nat
           /\ req[r].otp \in 0..MaxSends /\ req[r].code \in 0..MaxSends
           /\ req[r].token \in 0..MaxSends
BY DEF Typed, TypeOK, Handlers, Request

(* A handler that goes on with x keeps the shape of handlers. *)
LEMMA Kept ==
    ASSUME Typed, NEW r \in Requests, NEW x \in Request, Shape(x),
           req' = [req EXCEPT ![r] = x]
    PROVE  req' \in [Requests -> Request] /\ Handlers'
<1>1. req \in [Requests -> Request]
  BY DEF Typed, TypeOK
<1>2. ASSUME NEW q \in Requests PROVE Shape(req[q])'
  <2>1. req'[q] = IF q = r THEN x ELSE req[q]
    BY <1>1
  <2> QED BY <2>1 DEF Typed, Handlers, Shape
<1> QED BY <1>1, <1>2 DEF Handlers

LEMMA Ends ==
    ASSUME Typed, NEW r \in Requests, End(r)
    PROVE  req' \in [Requests -> Request] /\ Handlers'
BY Kept, IdleType DEF End

(* A handler that goes on to another await with all that it carries. *)
LEMMA GoesOn ==
    ASSUME Typed, NEW r \in Requests, NEW pc, Goto(r, pc)
    PROVE  /\ req' = [req EXCEPT ![r] = [req[r] EXCEPT !.pc = pc]]
           /\ \A x : x = [req[r] EXCEPT !.pc = pc] =>
                 /\ x.pc = pc /\ x.op = req[r].op /\ x.purpose = req[r].purpose
                 /\ x.channel = req[r].channel /\ x.code = req[r].code
                 /\ x.key = req[r].key /\ x.otp = req[r].otp
BY DEF Typed, TypeOK, Goto, Request
-------------------------------------------------------------------------------
(* How a step takes a handler from y to x: a send keeps its code, a        *)
(* verification spends the code it was given, and its deletions come in    *)
(* their order.                                                            *)
Follows(x, y) ==
    /\ x.op = "send" => /\ y.op = "send" /\ x.otp = y.otp
                        /\ x.purpose = y.purpose /\ x.channel = y.channel
    /\ x.code \in {0, y.code}
    /\ x.pc \in Spending => \/ y.pc \in Spending /\ x.otp = y.otp
                            \/ y.pc = "find" /\ x.otp = y.code
    /\ x.pc = "deltoken" => y.pc = "delete"
    /\ x.pc = "outcome" => y.pc = "deltoken"

Moves(r, x) == req' = [req EXCEPT ![r] = x] /\ Shape(x) /\ Follows(x, req[r])

(* A handler that ends, and one that goes on to an await where it needs    *)
(* no more than before.                                                    *)
LEMMA EndMoves == ASSUME NEW r \in Requests, End(r) PROVE \E x \in Request : Moves(r, x)
BY IdleType DEF End, Moves, Follows, Spending

LEMMA GotoMoves ==
    ASSUME Typed, NEW r \in Requests, NEW pc, Goto(r, pc),
           \/ pc \in {"find"} /\ req[r].op # "send"
           \/ pc \in {"put", "puttoken", "mail"} /\ req[r].op = "send"
           \/ pc = "drop"
           \/ pc = "clear2" /\ req[r].pc = "clear"
           \/ pc = "delete" /\ req[r].pc = "clear2"
           \/ pc = "deltoken" /\ req[r].pc = "delete"
           \/ pc = "outcome" /\ req[r].pc = "deltoken"
    PROVE  \E x \in Request : Moves(r, x)
<1> DEFINE x == [req[r] EXCEPT !.pc = pc]
<1>1. req' = [req EXCEPT ![r] = x]
  BY GoesOn
<1>2. x \in Request
  BY Parts DEF Request
<1>3. /\ x.pc = pc /\ x.op = req[r].op /\ x.purpose = req[r].purpose
      /\ x.channel = req[r].channel /\ x.code = req[r].code
      /\ x.key = req[r].key /\ x.otp = req[r].otp
  BY GoesOn
<1> HIDE DEF x
<1>4. Shape(req[r])
  BY Parts
<1>5. Shape(x)
  BY <1>3, <1>4 DEF Shape, Spending
<1>6. Follows(x, req[r])
  BY <1>3 DEF Follows, Spending
<1> QED BY <1>1, <1>2, <1>5, <1>6 DEF Moves

LEMMA ProceedMoves ==
    ASSUME Typed, NEW r \in Requests, NEW n \in Nat, Proceed(r, n),
           req[r].pc \in {"incr", "expire"}
    PROVE  \E x \in Request : Moves(r, x)
<1> DEFINE to == AfterBump(r, n)
<1>1. req[r] \in Request /\ Shape(req[r]) /\ req[r].key \in Counters
  BY Parts
<1>2. to \in {"idle", "check", "block", "put"} /\ (to = "put" => req[r].key[1] = "resend")
  <2>1. req[r].key[1] \in {"resend", "invalid", "rate"}
    BY <1>1, KeyParts
  <2> QED BY <2>1 DEF AfterBump
<1>3. CASE to = "idle"
  BY <1>3, EndMoves DEF Proceed
<1>4. CASE to # "idle"
  <2> DEFINE x == [req[r] EXCEPT !.pc = to, !.n = 0]
  <2>1. req' = [req EXCEPT ![r].pc = to, ![r].n = 0]
    BY <1>4 DEF Proceed
  <2> HIDE DEF to
  <2>2. x \in Request /\ req' = [req EXCEPT ![r] = x]
    BY <1>1, <1>2, <2>1 DEF Typed, TypeOK, Request
  <2>3. /\ x.pc = to /\ x.op = req[r].op /\ x.purpose = req[r].purpose
        /\ x.channel = req[r].channel /\ x.code = req[r].code
        /\ x.key = req[r].key /\ x.otp = req[r].otp
    BY <1>1 DEF Request
  <2> HIDE DEF x
  <2>4. Shape(x)
    BY <1>1, <1>2, <1>4, <2>3 DEF Shape, Spending
  <2>5. Follows(x, req[r])
    BY <1>2, <2>3 DEF Follows, Spending
  <2> QED BY <2>2, <2>4, <2>5 DEF Moves
<1> QED BY <1>3, <1>4

(* Every step moves its handler so. *)
LEMMA StepMoves ==
    ASSUME Typed, NEW r \in Requests, Step(r) \/ Abort(r)
    PROVE  \E x \in Request : Moves(r, x)
<1> DEFINE y == req[r]
           p == y.purpose
<1>t. /\ y \in Request /\ Shape(y) /\ p \in Purposes /\ y.key \in Counters /\ y.n \in Nat
      /\ counter \in [Counters -> [n : Nat, left : Left]]
  BY Parts DEF Typed, TypeOK
<1>1. ASSUME Check(r) PROVE \E x \in Request : Moves(r, x)
  <2> DEFINE x == [y EXCEPT !.pc = "incr", !.key = <<"resend", p>>]
  <2>1. CASE End(r)
    BY <2>1, EndMoves
  <2>2. CASE y.op # "send" /\ Goto(r, "find")
    BY <2>2, GotoMoves
  <2>3. CASE y.op = "send" /\ Goto(r, "put")
    BY <2>3, GotoMoves
  <2>4. CASE y.op = "send" /\ req' = [req EXCEPT ![r].pc = "incr", ![r].key = <<"resend", p>>]
    <3>1. <<"resend", p>> \in Counters
      BY <1>t DEF Counters
    <3>2. x \in Request /\ req' = [req EXCEPT ![r] = x]
      BY <1>t, <2>4, <3>1 DEF Typed, TypeOK, Request
    <3>3. /\ x.pc = "incr" /\ x.op = y.op /\ x.purpose = p /\ x.otp = y.otp
          /\ x.channel = y.channel /\ x.code = y.code
      BY <1>t DEF Request
    <3> HIDE DEF x
    <3>4. Shape(x) /\ Follows(x, y)
      BY <1>t, <2>4, <3>3 DEF Shape, Follows, Spending
    <3> QED BY <3>2, <3>4 DEF Moves
  <2> QED BY <1>1, <2>1, <2>2, <2>3, <2>4 DEF Check
<1>2. ASSUME Incr(r) PROVE \E x \in Request : Moves(r, x)
  <2> DEFINE n == counter[y.key].n + 1
             x == [y EXCEPT !.pc = "expire", !.n = n]
  <2>1. n \in Nat /\ y.pc = "incr"
    BY <1>2, <1>t DEF Incr
  <2>2. CASE Proceed(r, n)
    BY <2>1, <2>2, ProceedMoves
  <2>3. CASE req' = [req EXCEPT ![r].pc = "expire", ![r].n = n]
    <3> HIDE DEF n
    <3>1. x \in Request /\ req' = [req EXCEPT ![r] = x]
      BY <1>t, <2>1, <2>3 DEF Typed, TypeOK, Request
    <3>2. /\ x.pc = "expire" /\ x.op = y.op /\ x.purpose = p /\ x.otp = y.otp
          /\ x.channel = y.channel /\ x.code = y.code /\ x.key = y.key
      BY <1>t DEF Request
    <3> HIDE DEF x
    <3>3. Shape(x) /\ Follows(x, y)
      BY <1>t, <2>1, <3>2 DEF Shape, Follows, Spending
    <3> QED BY <3>1, <3>3 DEF Moves
  <2> QED BY <1>2, <2>2, <2>3 DEF Incr
<1>3. ASSUME Expire(r) PROVE \E x \in Request : Moves(r, x)
  BY <1>3, <1>t, ProceedMoves DEF Expire
<1>4. ASSUME SetBlock(r) PROVE \E x \in Request : Moves(r, x)
  BY <1>4, GotoMoves DEF SetBlock
<1>5. ASSUME PutOtp(r) PROVE \E x \in Request : Moves(r, x)
  BY <1>5, <1>t, GotoMoves DEF PutOtp, Shape
<1>6. ASSUME PutToken(r) PROVE \E x \in Request : Moves(r, x)
  BY <1>6, <1>t, GotoMoves DEF PutToken, Shape
<1>7. ASSUME Find(r) PROVE \E x \in Request : Moves(r, x)
  <2> DEFINE otp == Stored(p, y.token)
             right == otp # 0 /\ otp = y.code
             x == [y EXCEPT !.code = 0, !.token = 0,
                            !.pc  = IF right THEN "clear" ELSE "incr",
                            !.otp = IF right THEN otp ELSE 0,
                            !.key = IF right THEN @ ELSE <<"invalid", p>>]
  <2>1. y.pc = "find" /\ y.op # "send" /\ y.code \in 0..MaxSends
    BY <1>7, <1>t, Parts DEF Find, Shape
  <2>2. CASE End(r)
    BY <2>2, EndMoves
  <2>3. CASE req' = [req EXCEPT ![r].code = 0, ![r].token = 0,
                ![r].pc  = IF right THEN "clear" ELSE "incr",
                ![r].otp = IF right THEN otp ELSE 0,
                ![r].key = IF right THEN @ ELSE <<"invalid", p>>]
    <3>1. <<"invalid", p>> \in Counters /\ 0 \in 0..MaxSends
      BY <1>t, Settings DEF Counters
    <3> HIDE DEF otp
    <3>2. right \in BOOLEAN /\ (right => otp \in 0..MaxSends)
      BY <2>1
    <3>3. req' = [req EXCEPT ![r] = x]
      BY <1>t, <2>3 DEF Typed, TypeOK, Request
    <3>4. x \in Request
      BY <1>t, <3>1, <3>2 DEF Request
    <3>5. /\ x.pc = (IF right THEN "clear" ELSE "incr") /\ x.op = y.op /\ x.code = 0
          /\ x.otp = (IF right THEN otp ELSE 0)
          /\ ~right => x.key = <<"invalid", p>>
      BY <1>t DEF Request
    <3>6. right => x.otp = y.code /\ x.otp \in Ids
      BY <2>1, <3>5, Settings DEF Ids
    <3> HIDE DEF x, right
    <3>7. Shape(x)
      BY <2>1, <3>2, <3>5, <3>6 DEF Shape, Spending
    <3>8. Follows(x, y)
      BY <2>1, <3>2, <3>5, <3>6 DEF Follows, Spending
    <3> QED BY <3>3, <3>4, <3>7, <3>8 DEF Moves
  <2> QED BY <1>7, <2>2, <2>3 DEF Find
<1>8. ASSUME ClearResend(r) \/ ClearInvalid(r) \/ DeleteOtp(r) \/ DeleteToken(r)
      PROVE  \E x \in Request : Moves(r, x)
  BY <1>8, GotoMoves DEF ClearResend, ClearInvalid, DeleteOtp, DeleteToken
<1>9. ASSUME DropCounter(r) \/ Mail(r) \/ Outcome(r) \/ Abort(r)
      PROVE  \E x \in Request : Moves(r, x)
  BY <1>9, EndMoves DEF DropCounter, Mail, Outcome, Abort
<1> QED BY <1>1, <1>2, <1>3, <1>4, <1>5, <1>6, <1>7, <1>8, <1>9 DEF Step
-------------------------------------------------------------------------------
(* What is typed besides the handlers. *)
Cells == [n : Nat, left : Left]
Slots == [Channels -> [otp : 0..MaxSends, left : Left]]
Tables ==
    /\ counter \in [Counters -> Cells]
    /\ block \in [Purposes -> Left]
    /\ slot \in [Purposes -> Slots]
    /\ byToken \in [Ids -> Left]
Records ==
    /\ payload \in [Ids -> Purposes \X Channels]
    /\ next \in 0..MaxSends
    /\ known \subseteq Ids
    /\ verified \subseteq Channels
    /\ resetToken \in BOOLEAN
    /\ spent \subseteq Ids
    /\ leak \in [Purposes -> Nat]

LEMMA TypeParts == TypeOK <=> Tables /\ Records /\ req \in [Requests -> Request]
BY DEF TypeOK, Tables, Records, Cells, Slots

LEMMA Empties == Absent \in Cells /\ Empty \in [otp : 0..MaxSends, left : Left] /\ 0 \in Left
BY Settings DEF Absent, Empty, Cells, Left

(* Records change only by sending, mailing and spending a code. *)
LEMMA RecordsStay ==
    ASSUME Records, UNCHANGED <<codes, row, history>> PROVE Records'
BY DEF Records, codes, row, history

LEMMA StepTables == ASSUME Typed, NEW r \in Requests, Step(r) \/ Abort(r) PROVE Tables' /\ Records'
<1> DEFINE y == req[r]
           p == y.purpose
<1>t. Tables /\ Records
  BY TypeParts DEF Typed
<1>y. /\ p \in Purposes /\ y.channel \in Channels /\ y.key \in Counters
      /\ y.otp \in 0..MaxSends /\ Shape(y)
  BY Parts
<1>1. ASSUME Check(r) \/ Abort(r) PROVE Tables' /\ Records'
  BY <1>1, <1>t, RecordsStay DEF Check, Abort, Tables, keys
<1>2. ASSUME NEW k \in Counters, NEW c \in Cells, counter' = [counter EXCEPT ![k] = c],
             UNCHANGED <<block, slot, byToken, codes, row, history>>
      PROVE  Tables' /\ Records'
  BY <1>2, <1>t, RecordsStay DEF Tables
<1>3. ASSUME Incr(r) PROVE Tables' /\ Records'
  <2> DEFINE k == y.key
             n == counter[k].n + 1
             c == [n |-> n, left |-> IF n = 1 THEN NoExpiry ELSE counter[k].left]
  <2>1. c \in Cells
    BY <1>t, <1>y DEF Tables, Cells, Left
  <2>2. counter' = [counter EXCEPT ![k] = c]
    BY <1>3, <1>t, <1>y DEF Incr, Tables
  <2> HIDE DEF c
  <2> QED BY <1>2, <1>3, <1>y, <2>1, <2>2 DEF Incr
<1>4. ASSUME Expire(r) PROVE Tables' /\ Records'
  <2> DEFINE k == y.key
             c == [counter[k] EXCEPT !.left = CounterTtl(k)]
  <2>1. c \in Cells /\ [counter EXCEPT ![k].left = CounterTtl(k)] = [counter EXCEPT ![k] = c]
    BY <1>t, <1>y, KeyParts DEF Tables, Cells
  <2>2. CASE counter' = counter
    BY <1>4, <1>t, <2>2, RecordsStay DEF Expire, Tables
  <2>3. CASE counter' = [counter EXCEPT ![k].left = CounterTtl(k)]
    BY <1>2, <1>4, <1>y, <2>1, <2>3 DEF Expire
  <2> QED BY <1>4, <2>2, <2>3 DEF Expire
<1>5. ASSUME SetBlock(r) PROVE Tables' /\ Records'
  <2>1. Tables'
    BY <1>5, <1>t, <1>y, KeyParts, SetType DEF SetBlock, Tables
  <2>2. leak' \in [Purposes -> Nat]
    BY <1>5, <1>t, <1>y, KeyParts DEF SetBlock, Records
  <2> QED BY <1>5, <1>t, <2>1, <2>2 DEF SetBlock, Records, codes, row
<1>6. ASSUME DropCounter(r) PROVE Tables' /\ Records'
  BY <1>2, <1>6, <1>y, Empties DEF DropCounter
<1>7. ASSUME PutOtp(r) PROVE Tables' /\ Records'
  <2> DEFINE c == [otp |-> y.otp, left |-> Set(TtlOf(p))]
  <2>1. c \in [otp : 0..MaxSends, left : Left]
    BY <1>y, SetType
  <2> HIDE DEF c
  <2>2. slot' \in [Purposes -> Slots]
    BY <1>7, <1>t, <1>y, <2>1 DEF PutOtp, Tables, Slots, c
  <2> QED BY <1>7, <1>t, <2>2, RecordsStay DEF PutOtp, Tables
<1>8. ASSUME PutToken(r) PROVE Tables' /\ Records'
  BY <1>8, <1>t, <1>y, SetType, RecordsStay DEF PutToken, Tables
<1>9. ASSUME Mail(r) PROVE Tables' /\ Records'
  BY <1>9, <1>t, <1>y DEF Mail, Tables, Records, Shape, keys, row, history
<1>10. ASSUME Find(r) PROVE Tables' /\ Records'
  <2>1. leak' \in [Purposes -> Nat]
    BY <1>10, <1>t, <1>y DEF Find, Records
  <2> QED BY <1>10, <1>t, <2>1 DEF Find, Tables, Records, keys, codes, row
<1>11. ASSUME ClearResend(r) \/ ClearInvalid(r) PROVE Tables' /\ Records'
  <2>1. <<"resend", p>> \in Counters /\ <<"invalid", p>> \in Counters
    BY <1>y DEF Counters
  <2> QED BY <1>2, <1>11, <2>1, Empties DEF ClearResend, ClearInvalid
<1>12. ASSUME DeleteOtp(r) PROVE Tables' /\ Records'
  <2> DEFINE o == payload[y.otp]
  <2>1. o[1] \in Purposes /\ o[2] \in Channels
    BY <1>12, <1>t, <1>y DEF DeleteOtp, Shape, Spending, Records
  <2> HIDE DEF o
  <2>2. slot' \in [Purposes -> Slots]
    BY <1>12, <1>t, <2>1, Empties DEF DeleteOtp, Tables, Slots, o
  <2> QED BY <1>12, <1>t, <2>2, RecordsStay DEF DeleteOtp, Tables
<1>13. ASSUME DeleteToken(r) PROVE Tables' /\ Records'
  BY <1>13, <1>t, <1>y, Empties DEF DeleteToken, Tables, Records, Shape, Spending, codes, row
<1>14. ASSUME Outcome(r) PROVE Tables' /\ Records'
  <2> DEFINE o == payload[y.otp]
  <2>1. o[2] \in Channels
    BY <1>14, <1>t, <1>y DEF Outcome, Shape, Spending, Records
  <2>2. verified' \subseteq Channels /\ resetToken' \in BOOLEAN
    <3> HIDE DEF o
    <3>1. resetToken' = (resetToken \/ o[1] = "password_reset")
      BY <1>14 DEF Outcome, o
    <3>2. verified' = verified \/ verified' = verified \cup {o[2]}
      BY <1>14 DEF Outcome, o
    <3> QED BY <1>t, <2>1, <3>1, <3>2 DEF Records
  <2> QED BY <1>14, <1>t, <2>2 DEF Outcome, Tables, Records, keys, codes, history
<1> QED BY <1>1, <1>3, <1>4, <1>5, <1>6, <1>7, <1>8, <1>9, <1>10, <1>11, <1>12, <1>13, <1>14 DEF Step

(* A request that begins. *)
LEMMA StartMoves ==
    ASSUME Typed, NEW r \in Requests, Start(r)
    PROVE  \E x \in Request : /\ req' = [req EXCEPT ![r] = x] /\ Shape(x)
                              /\ x.code \in known \cup {0} /\ x.pc \notin Spending
                              /\ x.op = "send" =>
                                    /\ next < MaxSends /\ next' = next + 1 /\ x.otp = next + 1
                                    /\ payload' = [payload EXCEPT ![next + 1] = <<x.purpose, x.channel>>]
                                    /\ UNCHANGED <<keys, known, row, history>>
                              /\ x.op # "send" => UNCHANGED <<keys, codes, row, history>>
<1>k. known \subseteq Ids /\ next \in 0..MaxSends
  BY DEF Typed, TypeOK
<1>1. ASSUME NEW p \in Purposes, NEW c \in Channels, StartSend(r, p, c)
      PROVE  \E x \in Request : /\ req' = [req EXCEPT ![r] = x] /\ Shape(x)
                                /\ x.code \in known \cup {0} /\ x.pc \notin Spending
                                /\ x.op = "send" /\ x.otp = next + 1
                                /\ x.purpose = p /\ x.channel = c
  <2> DEFINE x == [Idle EXCEPT !.pc = "check", !.op = "send",
                               !.purpose = p, !.channel = c, !.otp = next + 1]
  <2>1. next + 1 \in Ids /\ next + 1 \in 0..MaxSends
    BY <1>1, <1>k, Settings DEF StartSend, Ids
  <2>2. x \in Request /\ x.pc = "check" /\ x.op = "send" /\ x.otp = next + 1 /\ x.code = 0
        /\ x.purpose = p /\ x.channel = c
    BY <2>1, IdleType DEF Request, Idle, Operations
  <2>3. req' = [req EXCEPT ![r] = x]
    BY <1>1 DEF StartSend
  <2> HIDE DEF x
  <2> QED BY <2>1, <2>2, <2>3 DEF Shape, Spending
<1>2. ASSUME NEW x \in Request, Begin(r, x), x.code \in known \cup {0}, x.op # "send",
             x.pc = "check" \/ (x.pc = "incr" /\ x.key = <<"rate", "login">>)
      PROVE  \E z \in Request : /\ req' = [req EXCEPT ![r] = z] /\ Shape(z)
                                /\ z.code \in known \cup {0} /\ z.pc \notin Spending
                                /\ z.op # "send" /\ UNCHANGED <<keys, codes, row, history>>
  <2>1. x.pc \notin Spending /\ Shape(x)
    BY <1>2 DEF Shape, Spending
  <2> QED BY <1>2, <2>1 DEF Begin
<1>3. ASSUME NEW p \in Purposes, NEW code \in known \cup {0}, NEW token \in known \cup {0},
             StartVerify(r, p, code, token)
      PROVE  \E x \in Request : /\ Begin(r, x) /\ x.code = code /\ x.op # "send" /\ x.pc = "check"
  <2> DEFINE x == [Idle EXCEPT !.pc = "check", !.op = "verify", !.purpose = p,
                               !.code = code, !.token = token]
  <2>1. code \in 0..MaxSends /\ token \in 0..MaxSends
    BY <1>k, Settings DEF Ids
  <2>2. x \in Request /\ x.code = code /\ x.op = "verify" /\ x.pc = "check"
    BY <2>1, IdleType DEF Request, Idle, Operations
  <2> HIDE DEF x
  <2>3. Begin(r, x)
    BY <1>3 DEF StartVerify, x
  <2> QED BY <2>2, <2>3
<1>4. ASSUME NEW op \in {"login", "password"}, NEW code \in known \cup {0},
             StartLogin(r, op, code)
      PROVE  \E x \in Request : /\ Begin(r, x) /\ x.code = code /\ x.op # "send" /\ x.pc = "incr"
                                /\ x.key = <<"rate", "login">>
  <2> DEFINE x == [Idle EXCEPT !.pc = "incr", !.op = op, !.code = code]
  <2>1. code \in 0..MaxSends
    BY <1>k, Settings DEF Ids
  <2>2. x \in Request /\ x.code = code /\ x.op = op /\ x.pc = "incr" /\ x.key = <<"rate", "login">>
    BY <2>1, IdleType DEF Request, Idle, Operations
  <2> HIDE DEF x
  <2>3. Begin(r, x)
    BY <1>4 DEF StartLogin, x
  <2> QED BY <2>2, <2>3
<1>5. ASSUME NEW p \in Purposes, NEW c \in Channels, StartSend(r, p, c)
      PROVE  /\ next < MaxSends /\ next' = next + 1
             /\ payload' = [payload EXCEPT ![next + 1] = <<p, c>>]
             /\ UNCHANGED <<keys, known, row, history>>
  BY <1>5 DEF StartSend
<1>6. CASE \E p \in Purposes, c \in Channels : StartSend(r, p, c)
  BY <1>1, <1>5, <1>6
<1>7. CASE \/ \E p \in Purposes, code, token \in known \cup {0} : StartVerify(r, p, code, token)
           \/ \E code \in known \cup {0} : StartLogin(r, "login", code)
           \/ StartLogin(r, "password", 0)
  <2>1. \E x \in Request : /\ Begin(r, x) /\ x.code \in known \cup {0} /\ x.op # "send"
                           /\ x.pc = "check" \/ (x.pc = "incr" /\ x.key = <<"rate", "login">>)
    BY <1>3, <1>4, <1>7
  <2>2. PICK z \in Request : /\ req' = [req EXCEPT ![r] = z] /\ Shape(z)
                             /\ z.code \in known \cup {0} /\ z.pc \notin Spending
                             /\ z.op # "send" /\ UNCHANGED <<keys, codes, row, history>>
    BY <1>2, <2>1
  <2> QED BY <2>2
<1> QED BY <1>6, <1>7 DEF Start

(* Time that passes keeps the types. *)
LEMMA TickTables == ASSUME Typed, Tick PROVE Tables' /\ Records'
<1>t. Tables /\ Records
  BY TypeParts DEF Typed
<1>1. ASSUME NEW left \in Left PROVE Later(left) \in Left
  BY DEF Later, Left, NoExpiry
<1>2. counter' \in [Counters -> Cells]
  <2>1. ASSUME NEW k \in Counters
        PROVE  (IF counter[k].left = 1 THEN Absent
                ELSE [counter[k] EXCEPT !.left = Later(@)]) \in Cells
    BY <1>1, <1>t, Empties DEF Tables, Cells
  <2> QED BY <2>1 DEF Tick
<1>3. block' \in [Purposes -> Left] /\ byToken' \in [Ids -> Left]
  BY <1>1, <1>t DEF Tick, Tables
<1>4. slot' \in [Purposes -> Slots]
  <2>1. ASSUME NEW p \in Purposes, NEW c \in Channels
        PROVE  (IF slot[p][c].left = 1 THEN Empty
                ELSE [slot[p][c] EXCEPT !.left = Later(@)]) \in [otp : 0..MaxSends, left : Left]
    BY <1>1, <1>t, Empties DEF Tables, Slots
  <2> QED BY <2>1 DEF Tick, Slots
<1> QED BY <1>t, <1>2, <1>3, <1>4, RecordsStay DEF Tick, Tables

(* Types are kept. *)
LEMMA TypedStep == Typed /\ [Next]_vars => Typed'
<1> SUFFICES ASSUME Typed, [Next]_vars PROVE Typed'
  OBVIOUS
<1>t. Tables /\ Records /\ req \in [Requests -> Request]
  BY TypeParts DEF Typed
<1>q. ASSUME Tables', Records', req' \in [Requests -> Request] /\ Handlers' PROVE Typed'
  BY <1>q DEF Typed, TypeOK, Tables, Records, Cells, Slots
<1>1. ASSUME NEW r \in Requests, Start(r) PROVE Typed'
  <2>1. PICK x \in Request : /\ req' = [req EXCEPT ![r] = x] /\ Shape(x)
                             /\ x.op = "send" =>
                                    /\ next < MaxSends /\ next' = next + 1
                                    /\ payload' = [payload EXCEPT ![next + 1] = <<x.purpose, x.channel>>]
                                    /\ UNCHANGED <<keys, known, row, history>>
                             /\ x.op # "send" => UNCHANGED <<keys, codes, row, history>>
    BY <1>1, StartMoves
  <2>2. x.purpose \in Purposes /\ x.channel \in Channels
    BY DEF Request
  <2>3. Tables'
    BY <1>t, <2>1 DEF Tables, keys
  <2>4. CASE x.op = "send"
    <3>1. payload' \in [Ids -> Purposes \X Channels]
      BY <1>t, <2>1, <2>2, <2>4 DEF Records
    <3>2. next' \in 0..MaxSends
      BY <1>t, <2>1, <2>4, Settings DEF Records
    <3> QED BY <1>q, <1>t, <2>1, <2>3, <2>4, <3>1, <3>2, Kept DEF Records, row, history
  <2>5. CASE x.op # "send"
    BY <1>q, <1>t, <2>1, <2>3, <2>5, Kept, RecordsStay
  <2> QED BY <2>4, <2>5
<1>2. ASSUME NEW r \in Requests, Step(r) \/ Abort(r) PROVE Typed'
  <2>1. PICK x \in Request : Moves(r, x)
    BY <1>2, StepMoves
  <2> QED BY <1>2, <1>q, <2>1, StepTables, Kept DEF Moves
<1>3. CASE Tick
  <2>1. req' = req
    BY <1>3 DEF Tick
  <2> QED BY <1>3, <1>q, <1>t, <2>1, TickTables DEF Typed, Handlers, Shape
<1>4. CASE UNCHANGED vars
  BY <1>4 DEF vars, Typed, TypeOK, Handlers, Shape, keys, codes, row, history
<1> QED BY <1>1, <1>2, <1>3, <1>4 DEF Next

LEMMA TypedInvariant == Spec => []Typed
<1>1. ASSUME Init PROVE Typed
  <2>1. Tables
    <3>1. slot \in [Purposes -> Slots]
      BY <1>1, Empties DEF Init, Slots
    <3> QED BY <1>1, <3>1, Empties DEF Init, Tables
  <2>2. Records
    <3>1. <<"login", CHOOSE c \in Channels : TRUE>> \in Purposes \X Channels
      BY Settings
    <3>2. payload \in [Ids -> Purposes \X Channels]
      BY <1>1, <3>1 DEF Init
    <3>3. next = 0 /\ known = {} /\ verified = {} /\ resetToken = FALSE /\ spent = {}
          /\ leak = [p \in Purposes |-> 0]
      BY <1>1 DEF Init
    <3>4. leak \in [Purposes -> Nat]
      BY <3>3
    <3>5. 0 \in 0..MaxSends
      BY Settings
    <3> QED BY <3>2, <3>3, <3>4, <3>5 DEF Records
  <2>3. req \in [Requests -> Request] /\ Handlers
    <3>1. req = [r \in Requests |-> Idle]
      BY <1>1 DEF Init
    <3> QED BY <3>1, IdleType DEF Handlers
  <2> QED BY <2>1, <2>2, <2>3, TypeParts DEF Typed
<1> QED BY <1>1, TypedStep, PTL DEF Spec

(* Keys, codes and handlers keep their types: no handler stores or spends  *)
(* the null code.                                                          *)
THEOREM TypeCorrect == Spec => []TypeOK
BY TypedInvariant, PTL DEF Typed
-------------------------------------------------------------------------------
(* No slot holds code i. *)
Gone(i) == \A p \in Purposes, c \in Channels : slot[p][c].otp # i

(* What a handler knows of its code: no user has the code of a send yet;   *)
(* a code to compare or to spend came from a user; when its second copy is *)
(* deleted the first is gone, and no request brings it back.               *)
Sound(x) ==
    /\ x.op = "send" => /\ x.otp <= next /\ x.otp \notin known
                        /\ payload[x.otp] = <<x.purpose, x.channel>>
    /\ x.code \in known \cup {0}
    /\ x.pc \in Spending => x.otp \in known
    /\ x.pc = "deltoken" => Gone(x.otp)
    /\ x.pc = "outcome" => x.otp \in spent

(* Two sends never share a code. *)
Apart == \A q, r \in Requests :
             q # r /\ req[q].op = "send" /\ req[r].op = "send" => req[q].otp # req[r].otp

(* A slot holds a code that was generated for it. *)
Filed == \A p \in Purposes, c \in Channels :
             slot[p][c].otp # 0 => /\ slot[p][c].otp <= next
                                   /\ payload[slot[p][c].otp] = <<p, c>>

Spendable == (\A i \in known : i <= next) /\ spent \subseteq known

CodesInv ==
    /\ \A r \in Requests : Sound(req[r])
    /\ Apart
    /\ Filed
    /\ Spendable
    /\ SpentCodesGone
    /\ ResetTakesResetCode

(* What the step of a handler may do to the codes. *)
SlotEffect(y) ==
    \A p \in Purposes, c \in Channels :
        \/ slot'[p][c].otp \in {slot[p][c].otp, 0}
        \/ y.op = "send" /\ p = y.purpose /\ c = y.channel /\ slot'[p][c].otp = y.otp
CopyEffect(y) ==
    \A i \in Ids : byToken'[i] \in {byToken[i], 0} \/ (y.op = "send" /\ i = y.otp)
KnownEffect(r, y) ==
    known' = known \/ (y.op = "send" /\ known' = known \cup {y.otp} /\ End(r))
SpentEffect(y) ==
    spent' = spent \/ (y.pc = "deltoken" /\ spent' = spent \cup {y.otp} /\ byToken'[y.otp] = 0)
ResetEffect(y) ==
    resetToken' = resetToken \/ (y.pc = "outcome" /\ payload[y.otp][1] = "password_reset")
LaterEffect(r, y) ==
    /\ req'[r].pc = "deltoken" => slot'[payload[y.otp][1]][payload[y.otp][2]].otp = 0
    /\ req'[r].pc = "outcome" => y.otp \in spent'

Effects(r, y) ==
    /\ UNCHANGED <<payload, next>>
    /\ SlotEffect(y) /\ CopyEffect(y) /\ KnownEffect(r, y)
    /\ SpentEffect(y) /\ ResetEffect(y) /\ LaterEffect(r, y)

LEMMA StepEffects ==
    ASSUME Typed, NEW r \in Requests, Step(r) \/ Abort(r)
    PROVE  Effects(r, req[r])
<1> DEFINE y == req[r]
           p == y.purpose
<1>t. Tables /\ Records /\ req \in [Requests -> Request]
  BY TypeParts DEF Typed
<1>y. p \in Purposes /\ y.channel \in Channels /\ y.otp \in 0..MaxSends /\ Shape(y)
  BY Parts
<1>e. ASSUME End(r) PROVE req'[r].pc = "idle"
  BY <1>e, <1>t, IdleType DEF End
<1>g. ASSUME NEW pc, Goto(r, pc) PROVE req'[r].pc = pc
  BY <1>g, <1>t DEF Goto, Request
<1>1. ASSUME UNCHANGED <<slot, byToken, codes, row, spent>>, req'[r].pc \notin {"deltoken", "outcome"}
      PROVE  Effects(r, y)
  BY <1>1 DEF Effects, SlotEffect, CopyEffect, KnownEffect, SpentEffect, ResetEffect,
                   LaterEffect, codes, row
<1>2. ASSUME Check(r) \/ Incr(r) \/ Expire(r) \/ Find(r) PROVE Effects(r, y)
  <2>1. req'[r].pc \notin {"deltoken", "outcome"}
    <3>1. PICK x \in Request : Moves(r, x)
      BY <1>2, StepMoves DEF Step
    <3>2. req'[r] = x
      BY <1>t, <3>1 DEF Moves
    <3> QED BY <1>2, <3>1, <3>2 DEF Moves, Follows, Check, Incr, Expire, Find
  <2> QED BY <1>1, <1>2, <2>1 DEF Check, Incr, Expire, Find, keys, history
<1>3. ASSUME SetBlock(r) \/ DropCounter(r) \/ ClearResend(r) \/ ClearInvalid(r) \/ Abort(r)
      PROVE  Effects(r, y)
  <2>1. req'[r].pc \in {"drop", "idle", "clear2", "delete"}
    BY <1>3, <1>e, <1>g DEF SetBlock, DropCounter, ClearResend, ClearInvalid, Abort
  <2> QED BY <1>1, <1>3, <2>1
      DEF SetBlock, DropCounter, ClearResend, ClearInvalid, Abort, keys, history
<1>4. ASSUME PutOtp(r) PROVE Effects(r, y)
  <2>1. req'[r].pc = "puttoken" /\ y.op = "send"
    BY <1>4, <1>g, <1>y DEF PutOtp, Shape
  <2>2. SlotEffect(y)
    BY <1>4, <1>t, <1>y, <2>1 DEF PutOtp, SlotEffect, Tables, Slots
  <2> QED BY <1>4, <2>1, <2>2 DEF PutOtp, Effects, CopyEffect, KnownEffect, SpentEffect,
                                  ResetEffect, LaterEffect, codes, row, history
<1>5. ASSUME PutToken(r) PROVE Effects(r, y)
  <2>1. req'[r].pc = "mail" /\ y.op = "send"
    BY <1>5, <1>g, <1>y DEF PutToken, Shape
  <2>2. CopyEffect(y)
    BY <1>5, <1>t, <2>1 DEF PutToken, CopyEffect, Tables
  <2> QED BY <1>5, <2>1, <2>2 DEF PutToken, Effects, SlotEffect, KnownEffect, SpentEffect,
                                  ResetEffect, LaterEffect, codes, row, history
<1>6. ASSUME Mail(r) PROVE Effects(r, y)
  <2>1. req'[r].pc = "idle" /\ y.op = "send"
    BY <1>6, <1>e, <1>y DEF Mail, Shape
  <2> QED BY <1>6, <2>1 DEF Mail, Effects, SlotEffect, CopyEffect, KnownEffect, SpentEffect,
                            ResetEffect, LaterEffect, keys, row, history
<1>7. ASSUME DeleteOtp(r) PROVE Effects(r, y)
  <2> DEFINE o == payload[y.otp]
  <2>1. req'[r].pc = "deltoken" /\ o[1] \in Purposes /\ o[2] \in Channels
    BY <1>7, <1>g, <1>t, <1>y DEF DeleteOtp, Shape, Spending, Records
  <2>2. slot' = [slot EXCEPT ![o[1]][o[2]] = Empty] /\ Empty.otp = 0
    BY <1>7 DEF DeleteOtp, Empty
  <2> HIDE DEF o
  <2>3. SlotEffect(y) /\ slot'[o[1]][o[2]].otp = 0
    BY <1>t, <2>1, <2>2 DEF SlotEffect, Tables, Slots
  <2> QED BY <1>7, <2>1, <2>3 DEF DeleteOtp, Effects, CopyEffect, KnownEffect, SpentEffect,
                                  ResetEffect, LaterEffect, codes, row, history, o
<1>8. ASSUME DeleteToken(r) PROVE Effects(r, y)
  <2>1. req'[r].pc = "outcome" /\ y.otp \in Ids
    BY <1>8, <1>g, <1>y DEF DeleteToken, Shape, Spending
  <2>2. CopyEffect(y) /\ byToken'[y.otp] = 0
    BY <1>8, <1>t, <2>1 DEF DeleteToken, CopyEffect, Tables
  <2> QED BY <1>8, <2>1, <2>2 DEF DeleteToken, Effects, SlotEffect, KnownEffect, SpentEffect,
                                  ResetEffect, LaterEffect, codes, row
<1>9. ASSUME Outcome(r) PROVE Effects(r, y)
  <2>1. req'[r].pc = "idle"
    BY <1>9, <1>e DEF Outcome
  <2>2. ResetEffect(y)
    BY <1>9, <1>t DEF Outcome, ResetEffect, Records
  <2> QED BY <1>9, <2>1, <2>2 DEF Outcome, Effects, SlotEffect, CopyEffect, KnownEffect,
                                  SpentEffect, LaterEffect, keys, codes, history
<1> QED BY <1>2, <1>3, <1>4, <1>5, <1>6, <1>7, <1>8, <1>9 DEF Step

(* The step of a handler keeps the invariant of the codes. *)
LEMMA CodesStep ==
    ASSUME Typed, CodesInv, NEW r \in Requests, Step(r) \/ Abort(r)
    PROVE  CodesInv'
<1> DEFINE y == req[r]
<1>t. /\ Records /\ req \in [Requests -> Request]
      /\ \A q \in Requests : Shape(req[q]) /\ Sound(req[q])
  BY TypeParts DEF Typed, Handlers, CodesInv
<1>e. Effects(r, y)
  BY StepEffects
<1>x. PICK x \in Request : Moves(r, x)
  BY StepMoves
<1>r. req'[r] = x /\ Shape(x) /\ Follows(x, y) /\ \A q \in Requests \ {r} : req'[q] = req[q]
  BY <1>t, <1>x DEF Moves
<1>m. ASSUME known' # known PROVE x = Idle
  BY <1>m, <1>e, <1>r, <1>t DEF Effects, KnownEffect, End
<1>k. known \subseteq known' /\ spent \subseteq spent'
  BY <1>e DEF Effects, KnownEffect, SpentEffect
<1>n. 0 \notin Ids /\ Ids \subseteq Nat
  BY Settings
(* A code that a user has keeps away from the slots. *)
<1>g. ASSUME NEW j \in known, NEW p \in Purposes, NEW c \in Channels,
             slot'[p][c].otp = j
      PROVE  slot[p][c].otp = j
  <2>1. j \in Ids
    BY <1>t DEF Records
  <2> QED BY <1>e, <1>g, <1>n, <1>t, <2>1 DEF Effects, SlotEffect, Sound
<1>1. ASSUME NEW q \in Requests PROVE Sound(req[q])'
  <2>1. CASE q # r
    <3> DEFINE z == req[q]
    <3>1. req'[q] = z /\ Shape(z) /\ Sound(z)
      BY <1>r, <1>t, <2>1
    <3>2. z.op = "send" => z.otp <= next' /\ z.otp \notin known'
                           /\ payload'[z.otp] = <<z.purpose, z.channel>>
      BY <1>e, <2>1, <3>1 DEF Effects, KnownEffect, CodesInv, Apart, Sound
    <3>3. z.pc = "deltoken" => Gone(z.otp)'
      BY <1>g, <3>1 DEF Gone, Sound, Spending
    <3> QED BY <1>k, <3>1, <3>2, <3>3 DEF Sound
  <2>2. CASE q = r /\ x = Idle
    <3>1. req'[q] = Idle /\ Idle.code = 0 /\ Idle.pc = "idle" /\ Idle.op = "none"
      BY <1>r, <2>2, IdleType
    <3> QED BY <3>1 DEF Sound, Spending
  <2>3. CASE q = r /\ x # Idle
    <3>1. known' = known /\ next' = next /\ payload' = payload /\ req'[q] = x
      BY <1>e, <1>m, <1>r, <2>3 DEF Effects
    <3>2. x.op = "send" => x.otp <= next' /\ x.otp \notin known'
                           /\ payload'[x.otp] = <<x.purpose, x.channel>>
      BY <1>r, <1>t, <3>1 DEF Follows, Sound
    <3>3. x.code \in known' \cup {0}
      BY <1>r, <1>t, <3>1 DEF Follows, Sound
    <3>4. x.pc \in Spending => x.otp \in known'
      BY <1>n, <1>r, <1>t, <3>1 DEF Follows, Sound, Shape
    <3>5. x.pc = "deltoken" => Gone(x.otp)'
      <4> SUFFICES ASSUME x.pc = "deltoken", NEW p \in Purposes, NEW c \in Channels,
                          slot'[p][c].otp = x.otp
                   PROVE  FALSE
        BY DEF Gone
      <4>1. x.otp = y.otp /\ x.otp \in known /\ x.otp \in Ids
        BY <1>r, <3>1, <3>4 DEF Follows, Spending, Shape
      <4>2. slot[p][c].otp = x.otp /\ x.otp # 0
        BY <1>g, <1>n, <4>1
      <4>3. payload[y.otp] = <<p, c>>
        BY <4>1, <4>2 DEF CodesInv, Filed
      <4>4. slot'[p][c].otp = 0
        BY <1>e, <1>r, <4>3 DEF Effects, LaterEffect
      <4> QED BY <4>2, <4>4
    <3>6. x.pc = "outcome" => x.otp \in spent'
      BY <1>e, <1>r DEF Effects, LaterEffect, Follows, Spending
    <3> QED BY <3>1, <3>2, <3>3, <3>4, <3>5, <3>6 DEF Sound
  <2> QED BY <2>1, <2>2, <2>3
<1>2. Apart'
  <2>1. ASSUME NEW q \in Requests, req'[q].op = "send"
        PROVE  req[q].op = "send" /\ req'[q].otp = req[q].otp
    BY <1>r, <2>1 DEF Follows
  <2> QED BY <2>1 DEF CodesInv, Apart
<1>3. Filed'
  BY <1>e, <1>t DEF Effects, SlotEffect, CodesInv, Filed, Sound
<1>4. y.pc = "deltoken" => y.otp \in known /\ Gone(y.otp)
  BY <1>t DEF Sound, Spending
<1>5. Spendable'
  BY <1>e, <1>k, <1>t, <1>4 DEF Effects, KnownEffect, SpentEffect, CodesInv, Spendable, Sound
<1>6. SpentCodesGone'
  <2> SUFFICES ASSUME NEW j \in spent'
               PROVE  byToken'[j] = 0
                      /\ \A p \in Purposes, c \in Channels : slot'[p][c].otp # j
    BY DEF SpentCodesGone
  <2>1. CASE j \in spent
    <3>1. j \in known /\ j \in Ids
      BY <1>t, <2>1 DEF Records, CodesInv, Spendable
    <3>2. byToken'[j] = 0
      BY <1>e, <1>t, <2>1, <3>1 DEF Effects, CopyEffect, CodesInv, SpentCodesGone, Sound
    <3> QED BY <1>g, <2>1, <3>1, <3>2 DEF CodesInv, SpentCodesGone
  <2>2. CASE j \notin spent
    <3>1. y.pc = "deltoken" /\ j = y.otp /\ byToken'[j] = 0
      BY <1>e, <2>2 DEF Effects, SpentEffect
    <3> QED BY <1>g, <1>4, <3>1 DEF Gone
  <2> QED BY <2>1, <2>2
<1>7. ResetTakesResetCode'
  <2>1. CASE resetToken' = resetToken
    BY <1>e, <1>k, <2>1 DEF Effects, CodesInv, ResetTakesResetCode
  <2>2. CASE y.pc = "outcome" /\ payload[y.otp][1] = "password_reset"
    <3>1. y.otp \in spent'
      BY <1>k, <1>t, <2>2 DEF Sound
    <3> QED BY <1>e, <2>2, <3>1 DEF Effects, ResetTakesResetCode
  <2> QED BY <1>e, <2>1, <2>2 DEF Effects, ResetEffect
<1> QED BY <1>1, <1>2, <1>3, <1>5, <1>6, <1>7 DEF CodesInv

(* So does a request that begins: its code is a new one. *)
LEMMA CodesStart ==
    ASSUME Typed, CodesInv, NEW r \in Requests, Start(r)
    PROVE  CodesInv'
<1>t. /\ Records /\ req \in [Requests -> Request]
      /\ \A q \in Requests : req[q] \in Request /\ Shape(req[q]) /\ Sound(req[q])
  BY TypeParts DEF Typed, Handlers, CodesInv
<1>x. PICK x \in Request : /\ req' = [req EXCEPT ![r] = x] /\ Shape(x)
                           /\ x.code \in known \cup {0} /\ x.pc \notin Spending
                           /\ x.op = "send" =>
                                 /\ next < MaxSends /\ next' = next + 1 /\ x.otp = next + 1
                                 /\ payload' = [payload EXCEPT ![next + 1] = <<x.purpose, x.channel>>]
                                 /\ UNCHANGED <<keys, known, row, history>>
                           /\ x.op # "send" => UNCHANGED <<keys, codes, row, history>>
  BY StartMoves
<1>r. req'[r] = x /\ \A q \in Requests \ {r} : req'[q] = req[q]
  BY <1>t, <1>x
<1>u. UNCHANGED <<slot, byToken, known, resetToken, spent>>
  BY <1>x DEF keys, codes, row, history
<1>n. next \in Nat /\ Ids \subseteq Nat /\ next' \in Nat /\ next <= next'
  BY <1>t, <1>x, Settings DEF Records, codes
<1>p. /\ \A i \in Ids : i <= next => payload'[i] = payload[i]
      /\ x.op = "send" => x.otp \in Ids /\ payload'[x.otp] = <<x.purpose, x.channel>>
  <2>1. CASE x.op = "send"
    BY <1>n, <1>t, <1>x, <2>1 DEF Records, Shape
  <2>2. CASE x.op # "send"
    BY <1>x, <2>2 DEF codes
  <2> QED BY <2>1, <2>2
<1>o. ASSUME NEW i \in Ids, i <= next PROVE i <= next' /\ payload'[i] = payload[i]
  <2>1. i \in Nat
    BY <1>n
  <2> QED BY <1>n, <1>o, <1>p, <2>1
<1>s. \A i \in spent : i \in Ids /\ i <= next
  BY <1>t DEF Records, CodesInv, Spendable
<1>1. ASSUME NEW q \in Requests PROVE Sound(req[q])'
  <2>1. CASE q # r
    <3> DEFINE z == req[q]
    <3>1. req'[q] = z /\ Shape(z) /\ Sound(z)
      BY <1>r, <1>t, <2>1
    <3>2. z.op = "send" => z.otp <= next' /\ payload'[z.otp] = payload[z.otp]
      BY <1>o, <3>1 DEF Shape, Sound
    <3> QED BY <1>u, <3>1, <3>2 DEF Sound, Gone
  <2>2. CASE q = r
    <3>1. x.op = "send" => x.otp <= next' /\ x.otp \notin known
      BY <1>n, <1>x DEF CodesInv, Spendable
    <3> QED BY <1>p, <1>r, <1>u, <1>x, <2>2, <3>1 DEF Sound, Spending
  <2> QED BY <2>1, <2>2
<1>2. Apart'
  <2>1. ASSUME NEW q \in Requests, q # r, req[q].op = "send", x.op = "send"
        PROVE  req[q].otp # x.otp
    <3>1. req[q].otp <= next /\ req[q].otp \in Ids
      BY <1>t, <2>1 DEF Sound, Shape
    <3> QED BY <1>n, <1>x, <2>1, <3>1
  <2> QED BY <1>r, <2>1 DEF CodesInv, Apart
<1>3. Filed'
  <2> SUFFICES ASSUME NEW p \in Purposes, NEW c \in Channels, slot[p][c].otp # 0
               PROVE  slot[p][c].otp <= next' /\ payload'[slot[p][c].otp] = <<p, c>>
    BY <1>u DEF Filed
  <2>1. slot[p][c].otp \in 0..MaxSends
    BY DEF Typed, TypeOK
  <2>2. slot[p][c].otp \in Ids /\ slot[p][c].otp <= next /\ payload[slot[p][c].otp] = <<p, c>>
    BY <2>1, Settings DEF CodesInv, Filed, Ids
  <2> QED BY <1>o, <2>2
<1>4. Spendable'
  BY <1>n, <1>t, <1>u DEF Records, CodesInv, Spendable
<1>5. SpentCodesGone' /\ ResetTakesResetCode'
  BY <1>p, <1>s, <1>u DEF CodesInv, SpentCodesGone, ResetTakesResetCode
<1> QED BY <1>1, <1>2, <1>3, <1>4, <1>5 DEF CodesInv

(* And time: what it takes away does not come back. *)
LEMMA CodesTick == ASSUME Typed, CodesInv, Tick PROVE CodesInv'
<1>u. UNCHANGED <<payload, next, known, resetToken, req, spent>>
  BY DEF Tick, codes, row, history
<1>1. \A p \in Purposes, c \in Channels : slot'[p][c].otp \in {slot[p][c].otp, 0}
  <2> SUFFICES ASSUME NEW p \in Purposes, NEW c \in Channels
               PROVE  slot'[p][c].otp \in {slot[p][c].otp, 0}
    OBVIOUS
  <2>1. slot'[p][c] = IF slot[p][c].left = 1 THEN Empty
                      ELSE [slot[p][c] EXCEPT !.left = Later(@)]
    BY DEF Tick
  <2>2. slot[p][c] \in [otp : 0..MaxSends, left : Left]
    BY DEF Typed, TypeOK
  <2>3. [slot[p][c] EXCEPT !.left = Later(@)].otp = slot[p][c].otp
    BY <2>2
  <2> QED BY <2>1, <2>3 DEF Empty
<1>2. \A i \in Ids : byToken[i] = 0 => byToken'[i] = 0
  BY DEF Tick, Later
<1>3. Filed' /\ Spendable' /\ Apart' /\ ResetTakesResetCode'
  BY <1>u, <1>1 DEF CodesInv, Filed, Spendable, Apart, ResetTakesResetCode
<1>4. SpentCodesGone'
  <2>1. \A i \in spent : i \in Ids /\ i # 0
    BY Settings DEF Typed, TypeOK
  <2> QED BY <1>u, <1>1, <1>2, <2>1 DEF CodesInv, SpentCodesGone
<1>5. ASSUME NEW q \in Requests PROVE Sound(req[q])'
  <2>1. Sound(req[q]) /\ Shape(req[q])
    BY DEF Typed, Handlers, CodesInv
  <2>2. req[q].pc = "deltoken" => Gone(req[q].otp)'
    <3>1. req[q].pc = "deltoken" => req[q].otp # 0
      BY <2>1, Settings DEF Shape, Spending
    <3> QED BY <1>u, <1>1, <2>1, <3>1 DEF Sound, Gone
  <2> QED BY <1>u, <2>1, <2>2 DEF Sound
<1> QED BY <1>3, <1>4, <1>5 DEF CodesInv

LEMMA CodesInvariant == Spec => []CodesInv
<1>1. Init => CodesInv
  BY IdleType DEF Init, CodesInv, Sound, Spending, Apart, Filed, Spendable, Empty,
                  SpentCodesGone, ResetTakesResetCode
<1>2. Typed /\ CodesInv /\ [Next]_vars => CodesInv'
  <2> SUFFICES ASSUME Typed, CodesInv, [Next]_vars PROVE CodesInv'
    OBVIOUS
  <2>1. CASE UNCHANGED vars
    <3>1. UNCHANGED <<slot, byToken, payload, next, known, resetToken, req, spent>>
      BY <2>1 DEF vars, keys, codes, row, history
    <3>2. \A r \in Requests : Sound(req[r])'
      BY <3>1 DEF CodesInv, Sound, Gone
    <3>3. Apart' /\ Filed' /\ Spendable'
      BY <3>1 DEF CodesInv, Apart, Filed, Spendable
    <3> QED BY <3>1, <3>2, <3>3 DEF CodesInv, SpentCodesGone, ResetTakesResetCode
  <2> QED BY <2>1, CodesStep, CodesStart, CodesTick DEF Next
<1> QED BY <1>1, <1>2, TypedInvariant, PTL DEF Spec

(* A spent code is gone: a verification deletes both its copies, and       *)
(* sendOtp, however its writes interleave with that, brings neither back,  *)
(* because a user can only spend a code whose send has ended.              *)
THEOREM SpentCorrect == Spec => []SpentCodesGone
BY CodesInvariant, PTL DEF CodesInv

(* verifyOtp hands out a reset token for a password_reset code only,       *)
(* whatever purpose the request names and whichever copy it finds.         *)
THEOREM ResetCorrect == Spec => []ResetTakesResetCode
BY CodesInvariant, PTL DEF CodesInv
-------------------------------------------------------------------------------
(* A request that is to set the block because counter k is too high. *)
Enforces(x, k) ==
    /\ x.key = k
    /\ x.pc \in {"block", "drop"} \/ (x.pc = "expire" /\ Exceeded(k, x.n))

Guarded(k) ==
    k[1] # "rate" /\ Exceeded(k, counter[k].n) => \E r \in Requests : Enforces(req[r], k)

LimitInv == \A k \in Counters : Guarded(k)

LEMMA NothingExceeds == ASSUME NEW k \in Counters PROVE k[1] # "rate" => ~Exceeded(k, 0)
BY KeyParts, LimitAssumption DEF Exceeded

(* A counter that does not grow stays guarded if its guard does not leave. *)
LEMMA StaysGuarded ==
    ASSUME NEW k \in Counters, Guarded(k), counter'[k].n \in {0, counter[k].n},
           counter'[k].n # 0 =>
               \A r \in Requests : Enforces(req[r], k) => Enforces(req'[r], k)
    PROVE  Guarded(k)'
BY NothingExceeds DEF Guarded, Enforces

(* Who bumps a counter over its limit goes on to set the block. *)
LEMMA BumpGuards ==
    ASSUME Typed, NEW r \in Requests, NEW n \in Nat, Proceed(r, n), NEW k \in Counters,
           req[r].key = k, k[1] # "rate", Exceeded(k, n)
    PROVE  Enforces(req'[r], k)
<1>1. AfterBump(r, n) = "block"
  BY DEF AfterBump
<1>2. req' = [req EXCEPT ![r].pc = "block", ![r].n = 0]
  BY <1>1 DEF Proceed
<1> QED BY <1>2 DEF Typed, TypeOK, Request, Enforces

LEMMA LimitStep ==
    ASSUME ~Faults, Typed, LimitInv, NEW r \in Requests, Step(r), NEW k \in Counters
    PROVE  Guarded(k)'
<1> DEFINE y == req[r]
<1>t. /\ Tables /\ req \in [Requests -> Request] /\ y \in Request
      /\ Guarded(k) /\ y.key \in Counters
  BY TypeParts, Parts DEF Typed, LimitInv
<1>x. PICK x \in Request : req' = [req EXCEPT ![r] = x]
  BY StepMoves DEF Moves
<1>r. req'[r] = x /\ \A q \in Requests \ {r} : req'[q] = req[q]
  BY <1>t, <1>x
<1>1. ASSUME counter'[k].n \in {0, counter[k].n}, y.pc \notin {"expire", "block", "drop"}
      PROVE  Guarded(k)'
  BY <1>1, <1>r, <1>t, StaysGuarded DEF Enforces
<1>2. ASSUME Check(r) \/ PutOtp(r) \/ PutToken(r) \/ Mail(r) \/ Find(r)
             \/ DeleteOtp(r) \/ DeleteToken(r) \/ Outcome(r)
      PROVE  Guarded(k)'
  BY <1>1, <1>2 DEF Check, PutOtp, PutToken, Mail, Find, DeleteOtp, DeleteToken, Outcome, keys
<1>3. ASSUME ClearResend(r) \/ ClearInvalid(r) PROVE Guarded(k)'
  <2>1. counter'[k].n \in {0, counter[k].n}
    BY <1>3, <1>t DEF ClearResend, ClearInvalid, Tables, Absent
  <2> QED BY <1>1, <1>3, <2>1 DEF ClearResend, ClearInvalid
<1>4. ASSUME Incr(r) PROVE Guarded(k)'
  <2>1. y.pc = "incr"
    BY <1>4 DEF Incr
  <2>2. CASE y.key # k
    <3>1. counter'[k] = counter[k]
      BY <1>4, <1>t, <2>2 DEF Incr, Tables
    <3> QED BY <1>1, <2>1, <3>1
  <2>3. CASE y.key = k
    <3> DEFINE n == counter[k].n + 1
    <3>1. n \in Nat /\ counter'[k].n = n
      BY <1>4, <1>t, <2>3 DEF Incr, Tables, Cells
    <3>2. ASSUME k[1] # "rate", Exceeded(k, n) PROVE Enforces(req'[r], k)
      <4>1. CASE Proceed(r, n)
        BY <2>3, <3>1, <3>2, <4>1, BumpGuards
      <4>2. CASE req' = [req EXCEPT ![r].pc = "expire", ![r].n = n]
        BY <1>t, <2>3, <3>1, <3>2, <4>2 DEF Request, Enforces
      <4> QED BY <1>4, <2>3, <4>1, <4>2 DEF Incr
    <3> QED BY <3>1, <3>2 DEF Guarded, Enforces
  <2> QED BY <2>2, <2>3
<1>5. ASSUME Expire(r) PROVE Guarded(k)'
  <2>1. counter'[k].n = counter[k].n
    BY <1>5, <1>t DEF Expire, Tables, Cells
  <2>2. Enforces(y, k) /\ k[1] # "rate" => Enforces(req'[r], k)
    <3> SUFFICES ASSUME Enforces(y, k), k[1] # "rate" PROVE Enforces(req'[r], k)
      OBVIOUS
    <3>1. y.key = k /\ Exceeded(k, y.n) /\ y.n \in Nat /\ Proceed(r, y.n)
      BY <1>5, <1>t DEF Expire, Enforces, Request
    <3> QED BY <3>1, BumpGuards
  <2> QED BY <1>r, <1>t, <2>1, <2>2 DEF Guarded, Enforces
<1>6. ASSUME SetBlock(r) PROVE Guarded(k)'
  <2>1. Enforces(y, k) => Enforces(req'[r], k)
    BY <1>6, <1>t DEF SetBlock, Goto, Enforces, Request
  <2> QED BY <1>6, <1>r, <1>t, <2>1, StaysGuarded DEF SetBlock
<1>7. ASSUME DropCounter(r) PROVE Guarded(k)'
  <2>1. CASE y.key = k
    <3>1. counter'[k].n = 0
      BY <1>7, <1>t, <2>1 DEF DropCounter, Tables, Absent
    <3> QED BY <1>t, <3>1, StaysGuarded
  <2>2. CASE y.key # k
    <3>1. counter'[k] = counter[k]
      BY <1>7, <1>t, <2>2 DEF DropCounter, Tables
    <3> QED BY <1>r, <1>t, <2>2, <3>1, StaysGuarded DEF Enforces
  <2> QED BY <2>1, <2>2
<1> QED BY <1>2, <1>3, <1>4, <1>5, <1>6, <1>7 DEF Step

LEMMA LimitStart ==
    ASSUME Typed, LimitInv, NEW r \in Requests, Start(r), NEW k \in Counters
    PROVE  Guarded(k)'
<1>1. PICK x \in Request : req' = [req EXCEPT ![r] = x]
  BY StartMoves
<1>2. req[r].pc = "idle" /\ counter' = counter
  BY DEF Start, StartSend, StartVerify, StartLogin, Begin, keys
<1> QED BY <1>1, <1>2, StaysGuarded DEF Typed, TypeOK, LimitInv, Enforces

LEMMA LimitTick == ASSUME Typed, LimitInv, Tick, NEW k \in Counters PROVE Guarded(k)'
<1>1. counter[k] \in Cells
  BY TypeParts DEF Typed, Tables
<1>2. counter'[k].n \in {0, counter[k].n}
  <2>1. counter'[k] = IF counter[k].left = 1 THEN Absent
                      ELSE [counter[k] EXCEPT !.left = Later(@)]
    BY DEF Tick
  <2>2. [counter[k] EXCEPT !.left = Later(@)].n = counter[k].n
    BY <1>1 DEF Cells
  <2> QED BY <2>1, <2>2 DEF Absent
<1>3. req' = req
  BY DEF Tick
<1> QED BY <1>2, <1>3, StaysGuarded DEF LimitInv

(* No counter of codes or of wrong guesses stays above its limit unseen:   *)
(* while it is, a request that bumped it is on its way to set the block -  *)
(* if no await rejects and no process dies in between (no Faults).         *)
THEOREM LimitCorrect == ASSUME ~Faults PROVE Spec => []LimitEnforced
<1>1. Init => LimitInv
  BY NothingExceeds DEF Init, LimitInv, Guarded, Absent
<1>2. Typed /\ LimitInv /\ [Next]_vars => LimitInv'
  <2> SUFFICES ASSUME Typed, LimitInv, [Next]_vars, NEW k \in Counters PROVE Guarded(k)'
    BY DEF LimitInv
  <2>1. CASE UNCHANGED vars
    BY <2>1 DEF vars, keys, LimitInv, Guarded, Enforces
  <2> QED BY <2>1, LimitStep, LimitStart, LimitTick DEF Next, Abort
<1>3. LimitInv => LimitEnforced
  BY DEF LimitInv, Guarded, Enforces, LimitEnforced
<1> QED BY <1>1, <1>2, <1>3, TypedInvariant, PTL DEF Spec
-------------------------------------------------------------------------------
(* Requests about to compare a code of purpose p: past the block already.  *)
Guessers(p) == {r \in Requests : req[r].pc = "find" /\ req[r].purpose = p}

(* While p is blocked the comparisons made since and those still to come   *)
(* leave out one request: the one that set the block.                      *)
Bounded(p) ==
    /\ leak[p] <= Cardinality(Requests) - 1
    /\ Blocked(p) => leak[p] + Cardinality(Guessers(p)) <= Cardinality(Requests) - 1

LeakInv == \A p \in Purposes : Bounded(p)

LEMMA GuessersCount ==
    ASSUME IsFiniteSet(Requests), NEW S, NEW T \in SUBSET Requests, S \subseteq T
    PROVE  Cardinality(S) \in Nat /\ Cardinality(T) \in Nat /\ Cardinality(S) <= Cardinality(T)
<1>1. IsFiniteSet(T)
  BY FS_Subset
<1> QED BY <1>1, FS_Subset, FS_CardinalityType

LEMMA OneLess ==
    ASSUME IsFiniteSet(Requests), NEW T \in SUBSET Requests, NEW r \in T, NEW S, S \subseteq T \ {r}
    PROVE  Cardinality(S) \in Nat /\ Cardinality(T) \in Nat
           /\ Cardinality(S) <= Cardinality(T) - 1
<1>1. IsFiniteSet(T)
  BY FS_Subset
<1>2. Cardinality(T \ {r}) = Cardinality(T) - 1
  BY <1>1, FS_RemoveElement
<1>3. Cardinality(S) \in Nat /\ Cardinality(S) <= Cardinality(T \ {r})
  BY GuessersCount
<1> QED BY <1>1, <1>2, <1>3, FS_CardinalityType

(* A step that neither compares nor lets a blocked request pass. *)
LEMMA StaysBounded ==
    ASSUME IsFiniteSet(Requests), Typed, NEW p \in Purposes, Bounded(p), leak'[p] = leak[p],
           Blocked(p)' => Blocked(p) /\ Guessers(p)' \subseteq Guessers(p)
    PROVE  Bounded(p)'
<1> DEFINE N == Cardinality(Requests)
           G == Cardinality(Guessers(p))
<1>1. leak[p] \in Nat /\ N \in Nat
  BY FS_CardinalityType DEF Typed, TypeOK
<1>2. CASE ~Blocked(p)'
  BY <1>2 DEF Bounded
<1>3. CASE Blocked(p)'
  <2>1. G \in Nat /\ Cardinality(Guessers(p)') \in Nat /\ Cardinality(Guessers(p)') <= G
    BY <1>3, GuessersCount DEF Guessers
  <2>2. leak[p] <= N - 1 /\ leak[p] + G <= N - 1
    BY <1>3 DEF Bounded
  <2>3. Cardinality(Guessers(p))' = Cardinality(Guessers(p)')
    OBVIOUS
  <2> HIDE DEF N, G
  <2>4. leak[p] + Cardinality(Guessers(p)') <= N - 1
    BY <1>1, <2>1, <2>2
  <2> QED BY <2>2, <2>4 DEF Bounded, N
<1> QED BY <1>2, <1>3

LEMMA LeakStep ==
    ASSUME IsFiniteSet(Requests), Typed, LeakInv, NEW r \in Requests, Step(r) \/ Abort(r),
           NEW p \in Purposes
    PROVE  Bounded(p)'
<1> DEFINE y == req[r]
           N == Cardinality(Requests)
<1>t. /\ Tables /\ Records /\ req \in [Requests -> Request] /\ y \in Request
      /\ Bounded(p) /\ y.key \in Counters
  BY TypeParts, Parts DEF Typed, LeakInv
<1>c. N \in Nat
  BY FS_CardinalityType
<1>x. PICK x \in Request : req' = [req EXCEPT ![r] = x]
  BY StepMoves DEF Moves
<1>r. req'[r] = x /\ \A q \in Requests \ {r} : req'[q] = req[q]
  BY <1>t, <1>x
<1>e. ASSUME End(r) PROVE req'[r].pc = "idle"
  BY <1>e, <1>t, IdleType DEF End
<1>g. ASSUME NEW pc, Goto(r, pc) PROVE req'[r].pc = pc /\ req'[r].purpose = y.purpose
  BY <1>g, <1>t DEF Goto, Request
<1>n. ASSUME req'[r].pc # "find" PROVE Guessers(p)' \subseteq Guessers(p) \ {r}
  BY <1>n, <1>r DEF Guessers
<1>1. ASSUME req'[r].pc # "find", leak' = leak, block' = block PROVE Bounded(p)'
  BY <1>1, <1>n, <1>t, StaysBounded DEF Blocked
<1>2. ASSUME Check(r) PROVE Bounded(p)'
  <2>1. leak' = leak /\ block' = block
    BY <1>2 DEF Check, keys, history
  <2>2. CASE req'[r].pc # "find"
    BY <1>1, <2>1, <2>2
  <2>3. CASE req'[r].pc = "find"
    <3>1. ~Blocked(y.purpose) /\ Goto(r, "find")
      <4>1. CASE End(r) \/ Goto(r, "put")
        BY <1>e, <1>g, <2>3, <4>1
      <4>2. CASE req' = [req EXCEPT ![r].pc = "incr", ![r].key = <<"resend", y.purpose>>]
        BY <1>t, <2>3, <4>2 DEF Request
      <4>3. CASE ~Blocked(y.purpose) /\ Goto(r, "find")
        BY <4>3
      <4> QED BY <1>2, <4>1, <4>2, <4>3 DEF Check
    <3>2. Blocked(p) => Guessers(p)' \subseteq Guessers(p)
      BY <1>g, <1>r, <3>1 DEF Guessers
    <3> QED BY <1>t, <2>1, <3>2, StaysBounded DEF Blocked
  <2> QED BY <2>2, <2>3
<1>3. ASSUME Incr(r) \/ Expire(r) PROVE Bounded(p)'
  <2>1. ASSUME NEW n, Proceed(r, n) PROVE req'[r].pc # "find"
    <3>1. AfterBump(r, n) \in {"idle", "block", "put", "check"}
      BY DEF AfterBump
    <3> QED BY <1>e, <1>t, <2>1, <3>1 DEF Proceed, Request
  <2>2. req'[r].pc # "find"
    BY <1>3, <1>t, <2>1 DEF Incr, Expire, Request
  <2> QED BY <1>1, <1>3, <2>2 DEF Incr, Expire, history
<1>4. ASSUME SetBlock(r) PROVE Bounded(p)'
  <2>1. y.pc = "block" /\ req'[r].pc = "drop" /\ r \notin Guessers(p)
    BY <1>4, <1>g DEF SetBlock, Guessers
  <2>2. Guessers(p)' \subseteq Guessers(p)
    BY <1>n, <2>1
  <2>3. CASE y.key[2] # p \/ block[p] # 0
    <3>1. leak'[p] = leak[p] /\ (block'[p] # 0 => block[p] # 0)
      BY <1>4, <1>t, <2>3 DEF SetBlock, Tables, Records
    <3> QED BY <1>t, <2>2, <3>1, StaysBounded DEF Blocked
  <2>4. CASE y.key[2] = p /\ block[p] = 0
    <3>1. leak'[p] = 0
      BY <1>4, <1>t, <2>4 DEF SetBlock, Records
    <3>2. Cardinality(Guessers(p)') \in Nat /\ Cardinality(Guessers(p)') <= N - 1
      <4>1. Guessers(p)' \subseteq Requests \ {r}
        BY <2>1, <2>2 DEF Guessers
      <4> QED BY <4>1, OneLess
    <3> QED BY <1>c, <3>1, <3>2 DEF Bounded
  <2> QED BY <2>3, <2>4
<1>5. ASSUME DropCounter(r) \/ PutOtp(r) \/ PutToken(r) \/ Mail(r) \/ ClearResend(r)
             \/ ClearInvalid(r) \/ DeleteOtp(r) \/ DeleteToken(r) \/ Outcome(r) \/ Abort(r)
      PROVE  Bounded(p)'
  <2>1. req'[r].pc \in {"idle", "puttoken", "mail", "clear2", "delete", "deltoken", "outcome"}
    BY <1>5, <1>e, <1>g DEF DropCounter, PutOtp, PutToken, Mail, ClearResend, ClearInvalid,
                            DeleteOtp, DeleteToken, Outcome, Abort
  <2> QED BY <1>1, <1>5, <2>1
      DEF DropCounter, PutOtp, PutToken, Mail, ClearResend, ClearInvalid, DeleteOtp,
          DeleteToken, Outcome, Abort, keys, history
<1>6. ASSUME Find(r) PROVE Bounded(p)'
  <2>1. block' = block /\ y.pc = "find"
    BY <1>6 DEF Find, keys
  <2>2. req'[r].pc # "find"
    BY <1>6, <1>e, <1>t DEF Find, Request
  <2>3. CASE y.purpose # p \/ ~Blocked(p)
    <3>1. leak'[p] = leak[p]
      BY <1>6, <1>t, <2>3 DEF Find, Records
    <3> QED BY <1>n, <1>t, <2>1, <2>2, <3>1, StaysBounded DEF Blocked
  <2>4. CASE y.purpose = p /\ Blocked(p)
    <3> DEFINE G == Cardinality(Guessers(p))
               H == Cardinality(Guessers(p)')
    <3>1. leak'[p] = leak[p] + 1 /\ leak[p] \in Nat
      BY <1>6, <1>t, <2>4 DEF Find, Records
    <3>2. r \in Guessers(p)
      BY <2>1, <2>4 DEF Guessers
    <3>3. G \in Nat /\ H \in Nat /\ H <= G - 1
      BY <1>n, <2>2, <3>2, OneLess DEF Guessers
    <3>4. leak[p] + G <= N - 1
      BY <1>t, <2>4 DEF Bounded
    <3> HIDE DEF G, H, N
    <3>5. leak'[p] + H <= N - 1 /\ leak'[p] <= N - 1
      BY <1>c, <3>1, <3>3, <3>4
    <3> QED BY <3>5 DEF Bounded, H, N
  <2> QED BY <2>3, <2>4
<1> QED BY <1>2, <1>3, <1>4, <1>5, <1>6 DEF Step

LEMMA LeakStart ==
    ASSUME IsFiniteSet(Requests), Typed, LeakInv, NEW r \in Requests, Start(r),
           NEW p \in Purposes
    PROVE  Bounded(p)'
<1>1. leak' = leak /\ block' = block
  BY DEF Start, StartSend, StartVerify, StartLogin, Begin, keys, history
<1>2. Guessers(p)' \subseteq Guessers(p)
  <2>1. \A q \in Requests \ {r} : req'[q] = req[q]
    BY StartMoves DEF Typed, TypeOK
  <2>2. req'[r].pc # "find"
    <3>i. \A x : req' = [req EXCEPT ![r] = x] => req'[r] = x
      BY DEF Typed, TypeOK
    <3>1. ASSUME NEW q \in Purposes, NEW c \in Channels, StartSend(r, q, c)
          PROVE  req'[r].pc = "check"
      <4> DEFINE x == [Idle EXCEPT !.pc = "check", !.op = "send", !.purpose = q,
                                   !.channel = c, !.otp = next + 1]
      <4>1. x.pc = "check" /\ req' = [req EXCEPT ![r] = x]
        BY <3>1, IdleType DEF StartSend, Request
      <4> HIDE DEF x
      <4> QED BY <3>i, <4>1
    <3>2. ASSUME NEW q \in Purposes, NEW code, NEW token, StartVerify(r, q, code, token)
          PROVE  req'[r].pc = "check"
      <4> DEFINE x == [Idle EXCEPT !.pc = "check", !.op = "verify", !.purpose = q,
                                   !.code = code, !.token = token]
      <4>1. x.pc = "check" /\ Begin(r, x)
        BY <3>2, IdleType DEF StartVerify, Request
      <4> HIDE DEF x
      <4> QED BY <3>i, <4>1 DEF Begin
    <3>3. ASSUME NEW op, NEW code, StartLogin(r, op, code)
          PROVE  req'[r].pc = "incr"
      <4> DEFINE x == [Idle EXCEPT !.pc = "incr", !.op = op, !.code = code]
      <4>1. x.pc = "incr" /\ Begin(r, x)
        BY <3>3, IdleType DEF StartLogin, Request
      <4> HIDE DEF x
      <4> QED BY <3>i, <4>1 DEF Begin
    <3> QED BY <3>1, <3>2, <3>3 DEF Start
  <2> QED BY <2>1, <2>2 DEF Guessers
<1> QED BY <1>1, <1>2, StaysBounded DEF LeakInv, Blocked

(* A block stops the requests that name its purpose: until it expires a    *)
(* code is compared for one of them only if it had passed                  *)
(* assertOtpNotBlocked before the block was set, at most once.  Requests   *)
(* that reach a code of the purpose by its token under another name are    *)
(* not meant.                                                              *)
THEOREM LeakCorrect ==
    ASSUME IsFiniteSet(Requests), Requests # {} PROVE Spec => []BlockStopsRequests
<1>1. Init => LeakInv
  <2>1. Cardinality(Requests) \in Nat /\ Cardinality(Requests) # 0
    BY FS_CardinalityType, FS_EmptySet
  <2> QED BY <2>1 DEF Init, LeakInv, Bounded, Blocked
<1>2. Typed /\ LeakInv /\ [Next]_vars => LeakInv'
  <2> SUFFICES ASSUME Typed, LeakInv, [Next]_vars, NEW p \in Purposes PROVE Bounded(p)'
    BY DEF LeakInv
  <2>1. CASE Tick
    <3>1. leak' = leak /\ req' = req
      BY <2>1 DEF Tick, history
    <3>2. block'[p] # 0 => block[p] # 0
      BY <2>1 DEF Tick, Later
    <3> QED BY <3>1, <3>2, StaysBounded DEF LeakInv, Blocked, Guessers
  <2>2. CASE UNCHANGED vars
    BY <2>2, StaysBounded DEF vars, keys, history, LeakInv, Blocked, Guessers
  <2> QED BY <2>1, <2>2, LeakStep, LeakStart DEF Next
<1>3. LeakInv => BlockStopsRequests
  BY DEF LeakInv, Bounded, BlockStopsRequests
<1> QED BY <1>1, <1>2, <1>3, TypedInvariant, PTL DEF Spec
-------------------------------------------------------------------------------
(* A key that is counted has an expiry, or somebody is about to set one.   *)
Young(k) ==
    counter[k].n > 0 =>
        \/ counter[k].left > 0
        \/ \E r \in Requests : req[r].key = k /\ req[r].pc = "expire"

(* What CountersExpire rests on: INCR gives a counter no expiry, but while *)
(* it has none the request that found it at 1 is about to set one,         *)
(* whatever the others delete and recreate in between.                     *)
CountersGetExpiry == \A k \in Counters : Young(k)

(* A counter that is as it was, or gone, stays young if no request has     *)
(* left its EXPIRE.                                                        *)
LEMMA StaysYoung ==
    ASSUME NEW k \in Counters, Young(k), counter'[k].n = 0 \/ counter'[k] = counter[k],
           \A r \in Requests : req[r].pc = "expire" /\ req[r].key = k =>
                                  req'[r].pc = "expire" /\ req'[r].key = k
    PROVE  Young(k)'
BY DEF Young

LEMMA YoungStep ==
    ASSUME ~Fallback, Typed, CountersGetExpiry, NEW r \in Requests, Step(r), NEW k \in Counters
    PROVE  Young(k)'
<1> DEFINE y == req[r]
<1>t. /\ Tables /\ req \in [Requests -> Request] /\ y \in Request
      /\ Young(k) /\ y.key \in Counters /\ counter[k] \in Cells
  BY TypeParts, Parts DEF Typed, CountersGetExpiry, Tables
<1>x. PICK x \in Request : req' = [req EXCEPT ![r] = x]
  BY StepMoves DEF Moves
<1>r. req'[r] = x /\ \A q \in Requests \ {r} : req'[q] = req[q]
  BY <1>t, <1>x
<1>1. ASSUME counter'[k].n = 0 \/ counter'[k] = counter[k], y.pc # "expire" \/ y.key # k
      PROVE  Young(k)'
  BY <1>1, <1>r, <1>t, StaysYoung
<1>2. ASSUME Check(r) \/ PutOtp(r) \/ PutToken(r) \/ Mail(r) \/ Find(r) \/ SetBlock(r)
             \/ DeleteOtp(r) \/ DeleteToken(r) \/ Outcome(r)
      PROVE  Young(k)'
  BY <1>1, <1>2 DEF Check, PutOtp, PutToken, Mail, Find, SetBlock, DeleteOtp, DeleteToken,
                    Outcome, keys
<1>3. ASSUME ClearResend(r) \/ ClearInvalid(r) \/ DropCounter(r) PROVE Young(k)'
  <2>1. counter'[k].n = 0 \/ counter'[k] = counter[k]
    BY <1>3, <1>t DEF ClearResend, ClearInvalid, DropCounter, Tables, Absent
  <2> QED BY <1>1, <1>3, <2>1 DEF ClearResend, ClearInvalid, DropCounter
<1>4. ASSUME Incr(r) PROVE Young(k)'
  <2>1. y.pc = "incr"
    BY <1>4 DEF Incr
  <2>2. CASE y.key # k
    <3>1. counter'[k] = counter[k]
      BY <1>4, <1>t, <2>2 DEF Incr, Tables
    <3> QED BY <1>1, <2>1, <3>1
  <2>3. CASE y.key = k /\ counter[k].n = 0
    <3>1. req' = [req EXCEPT ![r].pc = "expire", ![r].n = 1]
      BY <1>4, <2>3 DEF Incr
    <3>2. req'[r].pc = "expire" /\ req'[r].key = k
      BY <1>t, <2>3, <3>1 DEF Request
    <3> QED BY <3>2 DEF Young
  <2>4. CASE y.key = k /\ counter[k].n # 0
    <3>1. counter[k].n > 0 /\ counter'[k].left = counter[k].left
      BY <1>4, <1>t, <2>4 DEF Incr, Tables, Cells
    <3>2. \A q \in Requests : req[q].pc = "expire" => req'[q] = req[q]
      BY <1>r, <2>1
    <3> QED BY <1>t, <3>1, <3>2 DEF Young
  <2> QED BY <2>2, <2>3, <2>4
<1>5. ASSUME Expire(r) PROVE Young(k)'
  <2>1. CASE y.key # k \/ counter[k].n = 0
    <3>1. counter'[k] = counter[k]
      BY <1>5, <1>t, <2>1 DEF Expire, Tables
    <3>2. CASE counter[k].n = 0
      BY <3>1, <3>2 DEF Young
    <3> QED BY <1>1, <2>1, <3>1, <3>2
  <2>2. CASE y.key = k /\ counter[k].n # 0
    <3>1. counter'[k].left = CounterTtl(k)
      BY <1>5, <1>t, <2>2 DEF Expire, Tables, Cells
    <3>2. CounterTtl(k) > 0
      BY TTLAssumption DEF CounterTtl, TtlOf
    <3> QED BY <3>1, <3>2 DEF Young
  <2> QED BY <2>1, <2>2
<1> QED BY <1>2, <1>3, <1>4, <1>5 DEF Step

LEMMA YoungTick == ASSUME Typed, CountersGetExpiry, Tick, NEW k \in Counters PROVE Young(k)'
<1>1. counter[k] \in Cells /\ Young(k)
  BY TypeParts DEF Typed, Tables, CountersGetExpiry
<1>2. counter'[k] = IF counter[k].left = 1 THEN Absent
                    ELSE [counter[k] EXCEPT !.left = Later(@)]
  BY DEF Tick
<1>3. CASE counter[k].left = 1
  BY <1>2, <1>3 DEF Absent, Young
<1>4. CASE counter[k].left # 1
  <2>1. counter'[k].n = counter[k].n /\ counter'[k].left = Later(counter[k].left)
    BY <1>1, <1>2, <1>4 DEF Cells
  <2>2. counter[k].left > 0 => Later(counter[k].left) > 0
    BY <1>1, <1>4 DEF Later, Cells, Left, NoExpiry
  <2>3. req' = req
    BY DEF Tick
  <2> QED BY <1>1, <2>1, <2>2, <2>3 DEF Young
<1> QED BY <1>3, <1>4

(* bumpOtpResendCounter, bumpOtpInvalidAttempts, enforceLoginRateLimit: no *)
(* counter is left without an expiry - on Redis, and if no await rejects   *)
(* and no process dies between INCR and EXPIRE.                            *)
THEOREM ExpiryCorrect == ASSUME ~Faults, ~Fallback PROVE Spec => []CountersGetExpiry
<1>1. Init => CountersGetExpiry
  BY DEF Init, CountersGetExpiry, Young, Absent
<1>2. Typed /\ CountersGetExpiry /\ [Next]_vars => CountersGetExpiry'
  <2> SUFFICES ASSUME Typed, CountersGetExpiry, [Next]_vars, NEW k \in Counters PROVE Young(k)'
    BY DEF CountersGetExpiry
  <2>1. CASE UNCHANGED vars
    BY <2>1 DEF vars, keys, CountersGetExpiry, Young
  <2>2. ASSUME NEW r \in Requests, Start(r) PROVE Young(k)'
    <3>1. PICK x \in Request : req' = [req EXCEPT ![r] = x]
      BY <2>2, StartMoves
    <3>2. req[r].pc = "idle" /\ counter' = counter
      BY <2>2 DEF Start, StartSend, StartVerify, StartLogin, Begin, keys
    <3> QED BY <3>1, <3>2, StaysYoung DEF Typed, TypeOK, CountersGetExpiry
  <2> QED BY <2>1, <2>2, YoungStep, YoungTick DEF Next, Abort
<1> QED BY <1>1, <1>2, TypedInvariant, PTL DEF Spec
-------------------------------------------------------------------------------
(* verifyOtp sets emailVerified or phoneVerified for a code that was sent  *)
(* on that channel to verify the account, and that is spent by then,       *)
(* whatever purpose the request names.                                     *)
VerifiedEarned ==
    \A c \in verified : \E i \in spent : payload[i] = <<"account_verification", c>>

LEMMA EarnedStep ==
    ASSUME Typed, CodesInv, VerifiedEarned, NEW r \in Requests, Step(r) \/ Abort(r)
    PROVE  VerifiedEarned'
<1> DEFINE y == req[r]
<1>1. payload' = payload /\ spent \subseteq spent'
  BY StepEffects DEF Effects, SpentEffect
<1>2. CASE verified' = verified
  BY <1>1, <1>2 DEF VerifiedEarned
<1>3. CASE Outcome(r) /\ verified' # verified
  <2>1. y.otp \in spent /\ y.otp \in Ids
    BY <1>3, Parts DEF Outcome, CodesInv, Sound, Shape, Spending
  <2>2. payload[y.otp] \in Purposes \X Channels
    BY <2>1 DEF Typed, TypeOK
  <2>3. /\ payload[y.otp][1] = "account_verification"
        /\ verified' = verified \cup {payload[y.otp][2]}
    BY <1>3 DEF Outcome
  <2>4. payload[y.otp] = <<"account_verification", payload[y.otp][2]>>
    BY <2>2, <2>3
  <2> QED BY <1>1, <2>1, <2>3, <2>4 DEF VerifiedEarned
<1>4. Outcome(r) \/ verified' = verified
  BY DEF Step, Check, Incr, Expire, SetBlock, DropCounter, PutOtp, PutToken, Mail, Find,
         ClearResend, ClearInvalid, DeleteOtp, DeleteToken, Abort, row
<1> QED BY <1>2, <1>3, <1>4

(* verifyOtp marks a channel as verified only by a code that was sent to   *)
(* it for that purpose and is spent, for any number of sends and           *)
(* verifications at once and with failing awaits.  It speaks of verifyOtp  *)
(* alone: the mailed link, Google logins and the seed mark users too       *)
(* (module Account).                                                       *)
THEOREM VerifiedCorrect == Spec => []VerifiedEarned
<1>1. Init => VerifiedEarned
  BY DEF Init, VerifiedEarned
<1>2. Typed /\ CodesInv /\ VerifiedEarned /\ [Next]_vars => VerifiedEarned'
  <2> SUFFICES ASSUME Typed, CodesInv, VerifiedEarned, [Next]_vars PROVE VerifiedEarned'
    OBVIOUS
  <2>1. CASE UNCHANGED vars \/ Tick
    BY <2>1 DEF vars, Tick, codes, row, history, VerifiedEarned
  <2>2. ASSUME NEW r \in Requests, Start(r) PROVE VerifiedEarned'
    <3>1. PICK x \in Request :
              /\ x.op = "send" => /\ next < MaxSends
                                  /\ payload' = [payload EXCEPT ![next + 1] = <<x.purpose, x.channel>>]
                                  /\ UNCHANGED <<keys, known, row, history>>
              /\ x.op # "send" => UNCHANGED <<keys, codes, row, history>>
      BY <2>2, StartMoves
    <3>2. verified' = verified /\ spent' = spent
      BY <3>1 DEF row, history
    <3>3. \A i \in spent : i \in Ids /\ i <= next
      BY DEF CodesInv, Spendable, Typed, TypeOK
    <3>4. \A i \in spent : payload'[i] = payload[i]
      <4>1. \A i \in spent : i # next + 1
        BY <3>3, Settings DEF Typed, TypeOK
      <4> QED BY <3>1, <3>3, <4>1 DEF Typed, TypeOK, codes
    <3> QED BY <3>2, <3>4 DEF VerifiedEarned
  <2> QED BY <2>1, <2>2, EarnedStep DEF Next
<1> QED BY <1>1, <1>2, TypedInvariant, CodesInvariant, PTL DEF Spec
===============================================================================
