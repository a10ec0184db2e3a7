--------------------------------- MODULE Otp ---------------------------------
(***************************************************************************)
(* One-time codes of AuthService (modules/auth/auth.service.ts): sendOtp,  *)
(* verifyOtp, the resend and invalid-attempt counters with their block,    *)
(* and the login rate limiter in front of them, for one identifier of one  *)
(* tenant, that of a registered user.  No two identifiers share a key.     *)
(*                                                                         *)
(* A request is a process whose steps are its awaits on Redis.  INCR and   *)
(* EXPIRE are two of them: a counter is born without expiry.  Only the     *)
(* lookups of findStoredOtp, which write nothing, are one step.  A code is *)
(* its number here: two random six-digit codes are taken to differ.        *)
(* Redis drops a key whose time is up (Tick); the in-memory map of         *)
(* RedisService (Fallback) ignores every TTL.                              *)
(***************************************************************************)
EXTENDS Integers, FiniteSets

CONSTANTS
    Requests,       \* slots for requests in flight at the same time
    Purposes,       \* subset of AllPurposes
    Channels,       \* subset of {"email", "phone"}
    Traffic,        \* operations that clients use, a subset of Operations
    OtpTTL,         \* OTP_TTL_SECONDS, in ticks
    ResetTTL,       \* PASSWORD_RESET_OTP_TTL_SECONDS
    BlockTTL,       \* OTP_BLOCK_SECONDS
    WindowTTL,      \* LOGIN_LIMIT_WINDOW_SECONDS
    MaxResend,      \* OTP_MAX_RESEND_ATTEMPTS
    MaxInvalid,     \* OTP_MAX_INVALID_ATTEMPTS
    MaxLogin,       \* LOGIN_LIMIT_MAX_ATTEMPTS
    Production,     \* NODE_ENV = production: the OTP counters are kept
    Fallback,       \* RedisService runs on its in-memory map
    Faults,         \* awaits may reject
    MaxSends,       \* bound: requests for a code
    MaxAttempts     \* bound: value the login counter may reach

Operations == {"send", "verify", "login", "password"}
AllPurposes == {"login", "account_verification", "password_reset"}

ASSUME InputAssumption ==
    /\ "login" \in Purposes /\ Purposes \subseteq AllPurposes
    /\ Traffic \subseteq Operations
    /\ Channels # {} /\ Channels \subseteq {"email", "phone"}
ASSUME TTLAssumption == {OtpTTL, ResetTTL, BlockTTL, WindowTTL} \subseteq Nat \ {0}
ASSUME LimitAssumption == {MaxResend, MaxInvalid, MaxLogin} \subseteq Nat \ {0}
ASSUME ModeAssumption == {Production, Fallback, Faults} \subseteq BOOLEAN
ASSUME BoundAssumption == MaxSends \in Nat /\ MaxAttempts \in Nat

Ids == 1..MaxSends      \* codes, by the order of their generation; 0 is none

(* Counter keys: otp:<purpose>:resend, otp:<purpose>:invalid, auth:rate. *)
Counters == ({"resend", "invalid"} \X Purposes) \cup {<<"rate", "login">>}

VARIABLES
    counter,    \* counter key -> its value n (0 if absent) and time left
    block,      \* purpose -> time left of otp:<purpose>:blocked, 0 if absent
    slot,       \* purpose -> channel -> code stored there (0 if none), time left
    byToken,    \* code -> time left of its copy otp:token:<token>, 0 if absent
    payload,    \* code -> purpose and channel it was generated for
    next,       \* codes numbered so far
    known,      \* codes that reached the user
    verified,   \* the user row: channels verifyOtp has set to verified (the link,
                \* Google and the seed write that column too: module Account)
    resetToken, \* a verification has written passwordResetToken
    req         \* request slot -> the local variables of its handler

(* History variables: no action reads them. *)
VARIABLES
    spent,      \* codes whose verification has deleted both copies
    leak        \* purpose -> comparisons for requests that name it, since its block

keys    == <<counter, block, slot, byToken>>
codes   == <<payload, next, known>>
row     == <<verified, resetToken>>
history == <<spent, leak>>
vars    == <<keys, codes, row, req, history>>

(* pc names the await a handler is suspended at. *)
Request ==
    [ pc      : {"idle", "check", "incr", "expire", "block", "drop", "put",
                 "puttoken", "mail", "find", "clear", "clear2", "delete",
                 "deltoken", "outcome"},
      op      : Operations \cup {"none"},
      purpose : Purposes,
      channel : Channels,
      code    : 0..MaxSends,     \* dto.otp, 0 when it is no code of ours
      token   : 0..MaxSends,     \* dto.token, 0 when absent
      key     : Counters,        \* the counter being bumped
      n       : Nat,             \* what INCR returned
      otp     : 0..MaxSends ]    \* the code generated, or the payload found

Idle == [ pc |-> "idle", op |-> "none", purpose |-> "login",
          channel |-> CHOOSE c \in Channels : TRUE, code |-> 0, token |-> 0,
          key |-> <<"rate", "login">>, n |-> 0, otp |-> 0 ]

NoExpiry == -1
Left == {NoExpiry} \cup Nat

TypeOK ==
    /\ counter \in [Counters -> [n : Nat, left : Left]]
    /\ block \in [Purposes -> Left]
    /\ slot \in [Purposes -> [Channels -> [otp : 0..MaxSends, left : Left]]]
    /\ byToken \in [Ids -> Left]
    /\ payload \in [Ids -> Purposes \X Channels]
    /\ next \in 0..MaxSends
    /\ known \subseteq Ids
    /\ verified \subseteq Channels
    /\ resetToken \in BOOLEAN
    /\ req \in [Requests -> Request]
    /\ spent \subseteq Ids
    /\ leak \in [Purposes -> Nat]
------------------------------------------------------------------------------
Absent == [n |-> 0, left |-> 0]
Empty  == [otp |-> 0, left |-> 0]

(* Time left of a key that is SET with a TTL. *)
Set(ttl) == IF Fallback THEN NoExpiry ELSE ttl

TtlOf(p) == IF p = "password_reset" THEN ResetTTL ELSE OtpTTL
CounterTtl(k) == CASE k[1] = "resend"  -> TtlOf(k[2])
                   [] k[1] = "invalid" -> OtpTTL
                   [] OTHER            -> WindowTTL

(* bumpOtpResendCounter, bumpOtpInvalidAttempts, enforceLoginRateLimit:    *)
(* the value of the counter that is one too many.                          *)
Exceeded(k, n) == CASE k[1] = "resend"  -> n > MaxResend
                    [] k[1] = "invalid" -> n >= MaxInvalid
                    [] OTHER            -> n > MaxLogin

Blocked(p) == Production /\ block[p] # 0

Init ==
    /\ counter = [k \in Counters |-> Absent]
    /\ block = [p \in Purposes |-> 0]
    /\ slot = [p \in Purposes |-> [c \in Channels |-> Empty]]
    /\ byToken = [i \in Ids |-> 0]
    /\ payload = [i \in Ids |-> <<"login", CHOOSE c \in Channels : TRUE>>]
    /\ next = 0
    /\ known = {}
    /\ verified = {}
    /\ resetToken = FALSE
    /\ req = [r \in Requests |-> Idle]
    /\ spent = {}
    /\ leak = [p \in Purposes |-> 0]

Begin(r, local) ==
    /\ req[r].pc = "idle"
    /\ req' = [req EXCEPT ![r] = local]
    /\ UNCHANGED <<keys, codes, row, history>>

Goto(r, pc) == req' = [req EXCEPT ![r].pc = pc]
End(r) == req' = [req EXCEPT ![r] = Idle]
------------------------------------------------------------------------------
(* sendOtp, once identifier, tenant, purpose and channel are resolved.     *)
(* Its code gets a number here, even if a check then refuses the request.  *)
StartSend(r, p, c) ==
    /\ "send" \in Traffic
    /\ req[r].pc = "idle"
    /\ next < MaxSends
    /\ next' = next + 1
    /\ payload' = [payload EXCEPT ![next + 1] = <<p, c>>]
    /\ req' = [req EXCEPT ![r] = [Idle EXCEPT !.pc = "check", !.op = "send",
                                  !.purpose = p, !.channel = c, !.otp = next + 1]]
    /\ UNCHANGED <<keys, known, row, history>>

(* POST /auth/otp/verify. *)
StartVerify(r, p, code, token) ==
    /\ "verify" \in Traffic
    /\ Begin(r, [Idle EXCEPT !.pc = "check", !.op = "verify", !.purpose = p,
                             !.code = code, !.token = token])

(* POST /auth/login counts the attempt before it looks at a code (login)   *)
(* or at a password.                                                       *)
StartLogin(r, op, code) ==
    /\ op \in Traffic
    /\ counter[<<"rate", "login">>].n < MaxAttempts
    /\ Begin(r, [Idle EXCEPT !.pc = "incr", !.op = op, !.code = code])

(* Mutant of Check: a verification does not ask for the block. *)
CheckSendOnly(r) ==
    LET p == req[r].purpose
        send == req[r].op = "send"
        refused == send /\ p = "account_verification" /\ req[r].channel \in verified
    IN
    /\ req[r].pc = "check"
    /\ IF (send /\ Blocked(p)) \/ refused THEN End(r)
       ELSE IF ~send THEN Goto(r, "find")
       ELSE IF ~Production THEN Goto(r, "put")
       ELSE req' = [req EXCEPT ![r].pc = "incr", ![r].key = <<"resend", p>>]
    /\ UNCHANGED <<keys, codes, row, history>>

(* assertOtpNotBlocked; sendOtp then refuses to verify a channel again.    *)
(* Outside production there is no block and sendOtp counts nothing.        *)
Check(r) ==
    LET p == req[r].purpose
        send == req[r].op = "send"
        refused == send /\ p = "account_verification" /\ req[r].channel \in verified
    IN
    /\ req[r].pc = "check"
    /\ IF Blocked(p) \/ refused THEN End(r)
       ELSE IF ~send THEN Goto(r, "find")
       ELSE IF ~Production THEN Goto(r, "put")
       ELSE req' = [req EXCEPT ![r].pc = "incr", ![r].key = <<"resend", p>>]
    /\ UNCHANGED <<keys, codes, row, history>>

(* Mutant of AfterBump: one attempt too many before the block. *)
AfterBumpLenient(r, n) ==
    LET k == req[r].key
        over == Exceeded(k, n - 1)
    IN
    CASE k[1] # "rate" /\ over    -> "block"
      [] k[1] = "resend" /\ ~over -> "put"
      [] k[1] = "rate" /\ ~over /\ req[r].op # "password" -> "check"
      [] OTHER -> "idle"

(* Where a bump goes on after its INCR, and its EXPIRE when that is due.   *)
(* A login over its limit and a wrong code below it end in an error here.  *)
AfterBump(r, n) ==
    LET k == req[r].key
        over == Exceeded(k, n)
    IN
    CASE k[1] # "rate" /\ over    -> "block"
      [] k[1] = "resend" /\ ~over -> "put"
      [] k[1] = "rate" /\ ~over /\ req[r].op # "password" -> "check"
      [] OTHER -> "idle"

Proceed(r, n) ==
    IF AfterBump(r, n) = "idle" THEN End(r)
    ELSE req' = [req EXCEPT ![r].pc = AfterBump(r, n), ![r].n = 0]

(* Mutant of Incr: the counter never gets an expiry. *)
IncrForever(r) ==
    LET k == req[r].key
        n == counter[k].n + 1
    IN
    /\ req[r].pc = "incr"
    /\ counter' = [counter EXCEPT ![k] =
                      [n |-> n, left |-> IF n = 1 THEN NoExpiry ELSE @.left]]
    /\ Proceed(r, n)
    /\ UNCHANGED <<block, slot, byToken, codes, row, history>>

(* INCR of the counter: a new key has no expiry, an old one keeps its own. *)
Incr(r) ==
    LET k == req[r].key
        n == counter[k].n + 1
    IN
    /\ req[r].pc = "incr"
    /\ counter' = [counter EXCEPT ![k] =
                      [n |-> n, left |-> IF n = 1 THEN NoExpiry ELSE @.left]]
    /\ IF n = 1 THEN req' = [req EXCEPT ![r].pc = "expire", ![r].n = n]
                ELSE Proceed(r, n)
    /\ UNCHANGED <<block, slot, byToken, codes, row, history>>

(* EXPIRE, by the request that found the counter at 1; it does nothing to  *)
(* a key that is gone, and nothing at all in memory.                       *)
Expire(r) ==
    LET k == req[r].key IN
    /\ req[r].pc = "expire"
    /\ counter' = IF Fallback \/ counter[k].n = 0 THEN counter
                  ELSE [counter EXCEPT ![k].left = CounterTtl(k)]
    /\ Proceed(r, req[r].n)
    /\ UNCHANGED <<block, slot, byToken, codes, row, history>>

(* The limit is exceeded: set the block, ... *)
SetBlock(r) ==
    LET p == req[r].key[2] IN
    /\ req[r].pc = "block"
    /\ block' = [block EXCEPT ![p] = Set(BlockTTL)]
    /\ leak' = [leak EXCEPT ![p] = IF block[p] = 0 THEN 0 ELSE @]
    /\ Goto(r, "drop")
    /\ UNCHANGED <<counter, slot, byToken, codes, row, spent>>

(* ... then delete the counter and answer 429, or 401 for a wrong code.    *)
DropCounter(r) ==
    /\ req[r].pc = "drop"
    /\ counter' = [counter EXCEPT ![req[r].key] = Absent]
    /\ End(r)
    /\ UNCHANGED <<block, slot, byToken, codes, row, history>>
------------------------------------------------------------------------------
(* sendOtp: store the payload under purpose and channel, replacing an      *)
(* earlier one, ...                                                        *)
PutOtp(r) ==
    LET p == req[r].purpose IN
    /\ req[r].pc = "put"
    /\ slot' = [slot EXCEPT ![p][req[r].channel] =
                   [otp |-> req[r].otp, left |-> Set(TtlOf(p))]]
    /\ Goto(r, "puttoken")
    /\ UNCHANGED <<counter, block, byToken, codes, row, history>>

(* ... and under its verification token, ... *)
PutToken(r) ==
    /\ req[r].pc = "puttoken"
    /\ byToken' = [byToken EXCEPT ![req[r].otp] = Set(TtlOf(req[r].purpose))]
    /\ Goto(r, "mail")
    /\ UNCHANGED <<counter, block, slot, codes, row, history>>

(* ... and send the mail and the response. *)
Mail(r) ==
    /\ req[r].pc = "mail"
    /\ known' = known \cup {req[r].otp}
    /\ End(r)
    /\ UNCHANGED <<keys, payload, next, row, history>>

(* findStoredOtp: the copy under the token whatever its purpose, else the  *)
(* copy under purpose and email, else under purpose and phone.             *)
Stored(p, token) ==
    LET at(c) == IF c \in Channels THEN slot[p][c].otp ELSE 0 IN
    IF token # 0 /\ byToken[token] # 0 THEN token
    ELSE IF at("email") # 0 THEN at("email") ELSE at("phone")

(* verifyOtp compares the code with the payload found. *)
Find(r) ==
    LET p == req[r].purpose
        otp == Stored(p, req[r].token)
        right == otp # 0 /\ otp = req[r].code
    IN
    /\ req[r].pc = "find"
    /\ leak' = [leak EXCEPT ![p] = IF Blocked(p) THEN @ + 1 ELSE @]
    /\ IF ~right /\ ~Production THEN End(r)
       ELSE req' = [req EXCEPT ![r].code = 0, ![r].token = 0,
                ![r].pc  = IF right THEN "clear" ELSE "incr",
                ![r].otp = IF right THEN otp ELSE 0,
                ![r].key = IF right THEN @ ELSE <<"invalid", p>>]
    /\ UNCHANGED <<keys, codes, row, spent>>

(* clearOtpGuardKeys: the two counters of the purpose in the request. *)
ClearResend(r) ==
    /\ req[r].pc = "clear"
    /\ counter' = [counter EXCEPT ![<<"resend", req[r].purpose>>] = Absent]
    /\ Goto(r, "clear2")
    /\ UNCHANGED <<block, slot, byToken, codes, row, history>>

(* Mutant of ClearInvalid: the counter is decremented, not deleted. *)
ClearInvalidDecrements(r) ==
    /\ req[r].pc = "clear2"
    /\ counter' = [counter EXCEPT ![<<"invalid", req[r].purpose>>].n = @ - 1]
    /\ Goto(r, "delete")
    /\ UNCHANGED <<block, slot, byToken, codes, row, history>>

ClearInvalid(r) ==
    /\ req[r].pc = "clear2"
    /\ counter' = [counter EXCEPT ![<<"invalid", req[r].purpose>>] = Absent]
    /\ Goto(r, "delete")
    /\ UNCHANGED <<block, slot, byToken, codes, row, history>>

(* Mutant of DeleteOtp: the purpose of the request names the key. *)
DeleteOtpOfRequest(r) ==
    LET o == payload[req[r].otp] IN
    /\ req[r].pc = "delete"
    /\ slot' = [slot EXCEPT ![req[r].purpose][o[2]] = Empty]
    /\ Goto(r, "deltoken")
    /\ UNCHANGED <<counter, block, byToken, codes, row, history>>

(* deleteOtpPayload: whatever is stored under the purpose and channel of   *)
(* the payload, then its copy under the token.                             *)
DeleteOtp(r) ==
    LET o == payload[req[r].otp] IN
    /\ req[r].pc = "delete"
    /\ slot' = [slot EXCEPT ![o[1]][o[2]] = Empty]
    /\ Goto(r, "deltoken")
    /\ UNCHANGED <<counter, block, byToken, codes, row, history>>

DeleteToken(r) ==
    /\ req[r].pc = "deltoken"
    /\ byToken' = [byToken EXCEPT ![req[r].otp] = 0]
    /\ spent' = spent \cup {req[r].otp}
    /\ Goto(r, "outcome")
    /\ UNCHANGED <<counter, block, slot, codes, row, leak>>

(* Mutant of Outcome: the purpose in the request decides. *)
OutcomeOfRequest(r) ==
    LET p == req[r].purpose IN
    /\ req[r].pc = "outcome"
    /\ verified' = IF p = "account_verification"
                   THEN verified \cup {payload[req[r].otp][2]} ELSE verified
    /\ resetToken' = (resetToken \/ p = "password_reset")
    /\ End(r)
    /\ UNCHANGED <<keys, codes, history>>

(* What the code was for decides: verify the channel and activate the      *)
(* account, hand out a reset token, or go on to log in (issueTokens,       *)
(* module AuthSession).                                                    *)
Outcome(r) ==
    LET o == payload[req[r].otp] IN
    /\ req[r].pc = "outcome"
    /\ verified' = IF o[1] = "account_verification" THEN verified \cup {o[2]} ELSE verified
    /\ resetToken' = (resetToken \/ o[1] = "password_reset")
    /\ End(r)
    /\ UNCHANGED <<keys, codes, history>>
------------------------------------------------------------------------------
(* An await rejects or the process dies: what was written stays. *)
Abort(r) ==
    /\ Faults
    /\ req[r].pc # "idle"
    /\ End(r)
    /\ UNCHANGED <<keys, codes, row, history>>

(* Time passes for every key that has an expiry. *)
Later(left) == IF left > 0 THEN left - 1 ELSE left
Tick ==
    /\ counter' = [k \in Counters |->
           IF counter[k].left = 1 THEN Absent
           ELSE [counter[k] EXCEPT !.left = Later(@)]]
    /\ block' = [p \in Purposes |-> Later(block[p])]
    /\ slot' = [p \in Purposes |-> [c \in Channels |->
           IF slot[p][c].left = 1 THEN Empty
           ELSE [slot[p][c] EXCEPT !.left = Later(@)]]]
    /\ byToken' = [i \in Ids |-> Later(byToken[i])]
    /\ UNCHANGED <<codes, row, req, history>>

Step(r) ==
    \/ Check(r) \/ Incr(r) \/ Expire(r) \/ SetBlock(r) \/ DropCounter(r)
    \/ PutOtp(r) \/ PutToken(r) \/ Mail(r)
    \/ Find(r) \/ ClearResend(r) \/ ClearInvalid(r)
    \/ DeleteOtp(r) \/ DeleteToken(r) \/ Outcome(r)

Start(r) ==
    \/ \E p \in Purposes, c \in Channels : StartSend(r, p, c)
    \/ \E p \in Purposes, code, token \in known \cup {0} : StartVerify(r, p, code, token)
    \/ \E code \in known \cup {0} : StartLogin(r, "login", code)
    \/ StartLogin(r, "password", 0)

Next ==
    \/ \E r \in Requests : Start(r) \/ Step(r) \/ Abort(r)
    \/ Tick

Spec == Init /\ [][Next]_vars

(* Redis answers and time passes; clients owe nothing. *)
Fairness == WF_vars(Tick) /\ \A r \in Requests : WF_vars(Step(r))
FairSpec == Spec /\ Fairness
------------------------------------------------------------------------------
(* bumpOtpResendCounter, bumpOtpInvalidAttempts: a counter above its limit *)
(* is never left behind; some request that bumped it is still on its way   *)
(* to set the block and delete the counter (if no request dies on it).     *)
LimitEnforced ==
    \A k \in Counters :
        (k[1] # "rate" /\ Exceeded(k, counter[k].n)) =>
            \E r \in Requests : req[r].key = k /\ req[r].pc \in {"expire", "block", "drop"}

(* A block stops the requests that name its purpose: between its setting   *)
(* and its expiry a code is compared for one of them only if it was past   *)
(* assertOtpNotBlocked already, one comparison each.  That is not to say   *)
(* that the codes of the purpose rest: a token finds its code whatever     *)
(* purpose the request names, and verifyOtp asks for the block of the      *)
(* purpose that is named.                                                  *)
BlockStopsRequests ==
    \A p \in Purposes : leak[p] <= Cardinality(Requests) - 1

(* When a verification has deleted both copies of its code, neither is     *)
(* there again, in whatever order sends and verifications run.  (Two that  *)
(* found the code before either deleted it both succeed.)                  *)
SpentCodesGone ==
    \A i \in spent :
        /\ byToken[i] = 0
        /\ \A p \in Purposes, c \in Channels : slot[p][c].otp # i

(* The purpose of the stored code decides what a verification grants, not  *)
(* the purpose in the request: a reset token takes a password_reset code.  *)
ResetTakesResetCode ==
    resetToken => \E i \in spent : payload[i][1] = "password_reset"

(* Every counter dies: INCR gives it no expiry, but the request that found *)
(* it at 1 sets one, whatever the others do to the key in between.  It     *)
(* needs Redis, and that no request dies between the two commands.         *)
CountersExpire ==
    \A k \in Counters : counter[k].n > 0 ~> counter[k].n = 0
==============================================================================
