-------------------------------- MODULE Otp --------------------------------
(***************************************************************************)
(* The registration of one e-mail address: RegisterHandler makes a user    *)
(* that is not active and a code, VerifyOTPHandler activates the user, and *)
(* RequestNewOTPHandler is there to get another code.                      *)
(*                                                                         *)
(* A code lives in Redis, under otp:<email> together with the count of the *)
(* wrong attempts, and in a row of otp_codes.  The row is asked when Redis *)
(* has no code or another one.  Every access to either is a round trip of  *)
(* its own and an action here.                                             *)
(*                                                                         *)
(* Left out: the password, and the digits of a code.  A code is a number,  *)
(* used again once nothing refers to its former use; whoever does not have *)
(* it from a mail does not guess it.                                       *)
(***************************************************************************)
EXTENDS Naturals, FiniteSets

CONSTANTS
    Requests,       \* slots: how many requests are served at the same time
    MaxCodes,       \* BOUND: codes something refers to at the same time
    MaxAttempts,    \* wrong attempts a code bears (3)
    Life,           \* TTLOTP, in ticks of the clock
    Faults          \* what may go wrong in this instance

Codes  == 1 .. MaxCodes
NoCode == 0         \* also what a user types who mistypes the code

(* Calls whose failure the code survives; a mail that is lost; a request   *)
(* that ends early; "round", a TTL that loses or gains a tick, for Redis   *)
(* answers in whole seconds; "slow", requests that take long enough for a  *)
(* code to expire meanwhile; and "typo", a user who types a wrong code.    *)
FaultKinds == {"get", "set", "ttl", "round", "del", "mark", "mail", "abort", "slow",
               "typo"}

ASSUME OtpAssumption ==
    /\ MaxCodes \in Nat
    /\ MaxAttempts \in Nat \ {0}
    /\ Life \in Nat \ {0}
    /\ Faults \subseteq FaultKinds

VARIABLES
    status,         \* the row of the user: "absent", "inactive" or "active"
    hasRole,        \* the user has the role end_user
    otp,            \* otp:<email> in Redis: the code and its wrong attempts
    ttl,            \* the ticks otp has left; 0 if it is absent or has no expiry
    left,           \* the ticks until expires_at of each code
    rows,           \* codes in otp_codes
    used,           \* those with is_used
    mailed,         \* codes that reached the user
    tokenLeft,      \* the ticks the register token of the user has left
    req,            \* the requests being served
    charged,        \* history: wrong attempts counted against each code
    accepted,       \* history: codes that were accepted
    cut             \* history: codes Redis was told to drop before their time

redisVars == <<otp, ttl>>
rowVars   == <<left, rows, used>>
userVars  == <<status, hasRole>>
histVars  == <<charged, accepted, cut>>
vars == <<status, hasRole, otp, ttl, left, rows, used, mailed, tokenLeft, req,
          charged, accepted, cut>>

-----------------------------------------------------------------------------
Attempts == 0 .. MaxAttempts    \* the count is only ever compared with the limit
Ticks    == 0 .. Life
Steps    == {"idle", "insertUser", "role", "getOtp", "setOtp", "insertRow", "send",
             "token", "answer", "check", "delete", "incrGet", "incrTtl", "incrSet",
             "row", "mark", "activate"}

(* One request: its code, and what IncrementOTPAttempts has read.          *)
Request == [kind : {"none", "register", "new", "verify"}, pc : Steps,
            code : Codes \cup {NoCode}, seen : Codes \cup {NoCode},
            attempts : Attempts, ttl : Ticks]

Idle == [kind |-> "none", pc |-> "idle", code |-> NoCode, seen |-> NoCode,
         attempts |-> 0, ttl |-> 0]

Absent == [code |-> NoCode, attempts |-> 0]

TypeOK ==
    /\ status \in {"absent", "inactive", "active"}
    /\ hasRole \in BOOLEAN
    /\ otp \in [code : Codes, attempts : Attempts] \cup {Absent}
    /\ ttl \in Ticks
    /\ otp = Absent => ttl = 0
    /\ left \in [Codes -> Ticks]
    /\ rows \subseteq Codes
    /\ used \subseteq rows
    /\ mailed \subseteq Codes
    /\ tokenLeft \in Ticks
    /\ req \in [Requests -> Request]
    /\ charged \in [Codes -> Attempts]
    /\ accepted \subseteq Codes
    /\ cut \subseteq Codes

Init ==
    /\ status = "absent"
    /\ hasRole = FALSE
    /\ otp = Absent
    /\ ttl = 0
    /\ left = [c \in Codes |-> 0]
    /\ rows = {}
    /\ used = {}
    /\ mailed = {}
    /\ tokenLeft = 0
    /\ req = [r \in Requests |-> Idle]
    /\ charged = [c \in Codes |-> 0]
    /\ accepted = {}
    /\ cut = {}

-----------------------------------------------------------------------------
At(r, pc) == req[r].pc = pc

Goto(r, pc) == req' = [req EXCEPT ![r].pc = pc]

Leave(r) == req' = [req EXCEPT ![r] = Idle]

Arrive(r, kind, pc, c) ==
    /\ At(r, "idle")
    /\ req' = [req EXCEPT ![r].kind = kind, ![r].pc = pc, ![r].code = c]

Fails(call) == call \in Faults

More(n) == IF n < MaxAttempts THEN n + 1 ELSE n

(* The code would be accepted if it were typed in now and no call failed.  *)
Accepts(c) ==
    \/ otp.code = c /\ otp.attempts < MaxAttempts
    \/ otp.code # c /\ c \in rows \ used /\ left[c] > 0

-----------------------------------------------------------------------------
(* RegisterHandler, and RequestNewOTPHandler from the lookup of the code.  *)

(* Nothing refers to the code any more, whether or not it was in use.      *)
Fresh(c) ==
    /\ left[c] = 0
    /\ otp.code # c
    /\ \A r \in Requests : c \notin {req[r].code, req[r].seen}

(* BOUND: a request that may make a code arrives only when one is left.    *)
CodeLeft ==
    LET making == {r \in Requests : req[r].pc \in {"insertUser", "role", "getOtp", "setOtp"}}
    IN  Cardinality(making) < Cardinality({c \in Codes : Fresh(c)})

(* Mutant: the role is only given to a user who has just been inserted.    *)
RegisterHandlerSkipsRole(r) ==
    /\ status # "active"
    /\ CodeLeft
    /\ Arrive(r, "register", IF status = "absent" THEN "insertUser" ELSE "getOtp", NoCode)
    /\ UNCHANGED <<userVars, redisVars, rowVars, mailed, tokenLeft, histVars>>

(* Mutant: whoever has registered before is refused.                       *)
RegisterHandlerRefusesKnown(r) ==
    /\ status = "absent"
    /\ CodeLeft
    /\ Arrive(r, "register", "insertUser", NoCode)
    /\ UNCHANGED <<userVars, redisVars, rowVars, mailed, tokenLeft, histVars>>

(* An active user is told so.                                              *)
RegisterHandler(r) ==
    /\ status # "active"
    /\ CodeLeft
    /\ Arrive(r, "register", IF status = "absent" THEN "insertUser" ELSE "role", NoCode)
    /\ UNCHANGED <<userVars, redisVars, rowVars, mailed, tokenLeft, histVars>>

(* The e-mail address is unique: of two registrations one is answered 500. *)
InsertUser(r) ==
    /\ At(r, "insertUser")
    /\ IF status = "absent"
       THEN status' = "inactive" /\ Goto(r, "role")
       ELSE Leave(r) /\ UNCHANGED status
    /\ UNCHANGED <<hasRole, redisVars, rowVars, mailed, tokenLeft, histVars>>

AddRole(r) ==
    /\ At(r, "role")
    /\ hasRole' = TRUE
    /\ Goto(r, "getOtp")
    /\ UNCHANGED <<status, redisVars, rowVars, mailed, tokenLeft, histVars>>

RequestNewOTPHandler(r) ==
    /\ tokenLeft > 0
    /\ CodeLeft
    /\ Arrive(r, "new", "getOtp", NoCode)
    /\ UNCHANGED <<userVars, redisVars, rowVars, mailed, tokenLeft, histVars>>

(* A code that is in Redis is the answer, and no mail is sent.             *)
GetOTP(r) ==
    /\ At(r, "getOtp")
    /\ \/ /\ otp # Absent
          /\ req' = [req EXCEPT ![r].code = otp.code,
                                ![r].pc = IF req[r].kind = "new" THEN "answer"
                                                                 ELSE "token"]
       \/ /\ Fails("get") \/ otp = Absent
          /\ Goto(r, "setOtp")
    /\ UNCHANGED <<userVars, redisVars, rowVars, mailed, tokenLeft, histVars>>

(* Unlike the other calls to Redis, this one is not survived: an error is  *)
(* answered with 500.                                                      *)
SetOTP(r) ==
    /\ At(r, "setOtp")
    /\ \/ \E c \in Codes :
            /\ Fresh(c)
            /\ otp' = [code |-> c, attempts |-> 0] /\ ttl' = Life
            /\ left' = [left EXCEPT ![c] = Life]
            /\ rows' = rows \ {c} /\ used' = used \ {c} /\ mailed' = mailed \ {c}
            /\ charged' = [charged EXCEPT ![c] = 0] /\ accepted' = accepted \ {c}
            /\ cut' = cut \ {c}
            /\ req' = [req EXCEPT ![r].code = c, ![r].pc = "insertRow"]
       \/ /\ Fails("set")
          /\ Leave(r)
          /\ UNCHANGED <<redisVars, rowVars, mailed, histVars>>
    /\ UNCHANGED <<userVars, tokenLeft>>

InsertRow(r) ==
    /\ At(r, "insertRow")
    /\ rows' = rows \cup {req[r].code}
    /\ Goto(r, "send")
    /\ UNCHANGED <<userVars, redisVars, left, used, mailed, tokenLeft, histVars>>

(* The error of SendMail is ignored.                                       *)
SendOTP(r) ==
    /\ At(r, "send")
    /\ \/ mailed' = mailed \cup {req[r].code}
       \/ Fails("mail") /\ UNCHANGED mailed
    /\ Goto(r, IF req[r].kind = "new" THEN "answer" ELSE "token")
    /\ UNCHANGED <<userVars, redisVars, rowVars, tokenLeft, histVars>>

(* The token expires with the code, and the user keeps the better one.     *)
GenerateRegisterToken(r) ==
    /\ At(r, "token")
    /\ tokenLeft' = IF left[req[r].code] > tokenLeft THEN left[req[r].code] ELSE tokenLeft
    /\ Leave(r)
    /\ UNCHANGED <<userVars, redisVars, rowVars, mailed, histVars>>

Answer(r) ==
    /\ At(r, "answer")
    /\ Leave(r)
    /\ UNCHANGED <<userVars, redisVars, rowVars, mailed, tokenLeft, histVars>>

GettingCode(r) ==
    \/ RegisterHandler(r) \/ InsertUser(r) \/ AddRole(r) \/ RequestNewOTPHandler(r)
    \/ GetOTP(r) \/ SetOTP(r) \/ InsertRow(r) \/ SendOTP(r)
    \/ GenerateRegisterToken(r) \/ Answer(r)

-----------------------------------------------------------------------------
(* VerifyOTPHandler.                                                       *)

(* Mutant: the register token is not asked for.                            *)
VerifyOTPHandlerAnyToken(r, c) ==
    /\ c \in mailed \/ (c = NoCode /\ Fails("typo"))
    /\ Arrive(r, "verify", "check", c)
    /\ UNCHANGED <<userVars, redisVars, rowVars, mailed, tokenLeft, histVars>>

VerifyOTPHandler(r, c) ==
    /\ tokenLeft > 0
    /\ c \in mailed \/ (c = NoCode /\ Fails("typo"))
    /\ Arrive(r, "verify", "check", c)
    /\ UNCHANGED <<userVars, redisVars, rowVars, mailed, tokenLeft, histVars>>

(* Mutant: the attempts are compared with > instead of >=.                 *)
CheckOTPOffByOne(r) ==
    /\ At(r, "check")
    /\ IF otp # Absent /\ otp.code = req[r].code
       THEN Goto(r, "delete") /\ accepted' = accepted \cup {req[r].code}
       ELSE Goto(r, IF otp # Absent THEN "incrGet" ELSE "row") /\ UNCHANGED accepted
    /\ UNCHANGED <<userVars, redisVars, rowVars, mailed, tokenLeft, charged, cut>>

(* Mutant: one attempt too few.                                            *)
CheckOTPStricter(r) ==
    /\ At(r, "check")
    /\ IF otp # Absent /\ otp.code = req[r].code
       THEN IF otp.attempts < MaxAttempts - 1
            THEN Goto(r, "delete") /\ accepted' = accepted \cup {req[r].code}
            ELSE Leave(r) /\ UNCHANGED accepted
       ELSE Goto(r, IF otp # Absent THEN "incrGet" ELSE "row") /\ UNCHANGED accepted
    /\ UNCHANGED <<userVars, redisVars, rowVars, mailed, tokenLeft, charged, cut>>

(* The right code is refused once it has borne too many wrong attempts.    *)
CheckOTP(r) ==
    /\ At(r, "check")
    /\ \/ /\ otp # Absent /\ otp.code = req[r].code
          /\ IF otp.attempts < MaxAttempts
             THEN Goto(r, "delete") /\ accepted' = accepted \cup {req[r].code}
             ELSE Leave(r) /\ UNCHANGED accepted
       \/ /\ otp # Absent /\ otp.code # req[r].code
          /\ Goto(r, "incrGet")
          /\ UNCHANGED accepted
       \/ /\ Fails("get") \/ otp = Absent
          /\ Goto(r, "row")
          /\ UNCHANGED accepted
    /\ UNCHANGED <<userVars, redisVars, rowVars, mailed, tokenLeft, charged, cut>>

(* The row of the code is not marked here.                                 *)
DeleteOTP(r) ==
    /\ At(r, "delete")
    /\ \/ otp' = Absent /\ ttl' = 0
       \/ Fails("del") /\ UNCHANGED redisVars
    /\ Goto(r, "activate")
    /\ UNCHANGED <<userVars, rowVars, mailed, tokenLeft, histVars>>

(* IncrementOTPAttempts reads the code again, whichever it is by now; then *)
(* its time to live; and then it writes both back.                         *)
IncrementGet(r) ==
    /\ At(r, "incrGet")
    /\ \/ /\ otp # Absent
          /\ req' = [req EXCEPT ![r].seen = otp.code, ![r].attempts = otp.attempts,
                                ![r].pc = "incrTtl"]
          /\ charged' = [charged EXCEPT ![otp.code] = More(@)]
       \/ /\ Fails("get") \/ otp = Absent
          /\ Goto(r, "row")
          /\ UNCHANGED charged
    /\ UNCHANGED <<userVars, redisVars, rowVars, mailed, tokenLeft, accepted, cut>>

(* Mutant: a TTL below zero is written back as it is.                      *)
IncrementTTLNegative(r) ==
    /\ At(r, "incrTtl")
    /\ req' = [req EXCEPT ![r].ttl = IF ttl = 0 THEN 0 - 1 ELSE ttl, ![r].pc = "incrSet"]
    /\ UNCHANGED <<userVars, redisVars, rowVars, mailed, tokenLeft, histVars>>

(* A TTL below zero, of an absent key or of one without expiry, and an     *)
(* error count as a full life.  A TTL of zero does not: it is what Redis   *)
(* answers in the last half second of a key.                               *)
IncrementTTL(r) ==
    /\ At(r, "incrTtl")
    /\ LET answers == CASE ttl = 0                  -> {Life}
                        [] ttl > 0 /\ Fails("round") -> Ticks \cap ((ttl - 1) .. (ttl + 1))
                        [] OTHER                    -> {ttl}
       IN  \E t \in answers \cup (IF Fails("ttl") THEN {Life} ELSE {}) :
             req' = [req EXCEPT ![r].ttl = t, ![r].pc = "incrSet"]
    /\ UNCHANGED <<userVars, redisVars, rowVars, mailed, tokenLeft, histVars>>

(* SET with a time to live of zero leaves the key without any.             *)
IncrementSet(r) ==
    /\ At(r, "incrSet")
    /\ \/ /\ otp' = [code |-> req[r].seen, attempts |-> More(req[r].attempts)]
          /\ ttl' = req[r].ttl
          /\ cut' = IF req[r].ttl \in 1 .. (left[req[r].seen] - 1)
                    THEN cut \cup {req[r].seen} ELSE cut
       \/ Fails("set") /\ UNCHANGED <<redisVars, cut>>
    /\ Goto(r, "row")
    /\ UNCHANGED <<userVars, rowVars, mailed, tokenLeft, charged, accepted>>

(* The row of the code, also when Redis has another one.                   *)
CheckRow(r) ==
    /\ At(r, "row")
    /\ IF req[r].code \in rows \ used /\ left[req[r].code] > 0
       THEN Goto(r, "mark") /\ accepted' = accepted \cup {req[r].code}
       ELSE Leave(r) /\ UNCHANGED accepted
    /\ UNCHANGED <<userVars, redisVars, rowVars, mailed, tokenLeft, charged, cut>>

MarkUsed(r) ==
    /\ At(r, "mark")
    /\ \/ used' = used \cup {req[r].code}
       \/ Fails("mark") /\ UNCHANGED used
    /\ Goto(r, "activate")
    /\ UNCHANGED <<userVars, redisVars, left, rows, mailed, tokenLeft, histVars>>

Activate(r) ==
    /\ At(r, "activate")
    /\ status' = "active"
    /\ Leave(r)
    /\ UNCHANGED <<hasRole, redisVars, rowVars, mailed, tokenLeft, histVars>>

Verifying(r) ==
    \/ \E c \in Codes \cup {NoCode} : VerifyOTPHandler(r, c)
    \/ CheckOTP(r) \/ DeleteOTP(r) \/ IncrementGet(r) \/ IncrementTTL(r)
    \/ IncrementSet(r) \/ CheckRow(r) \/ MarkUsed(r) \/ Activate(r)

-----------------------------------------------------------------------------
(* Time, and requests that end early.                                      *)

(* Time passes: codes, tokens and the key in Redis lose a tick; a key      *)
(* without expiry stays.                                                   *)
Tick ==
    /\ Fails("slow") \/ \A r \in Requests : At(r, "idle")
    /\ left' = [c \in Codes |-> IF left[c] > 0 THEN left[c] - 1 ELSE 0]
    /\ tokenLeft' = IF tokenLeft > 0 THEN tokenLeft - 1 ELSE 0
    /\ ttl' = IF ttl > 0 THEN ttl - 1 ELSE 0
    /\ otp' = IF ttl = 1 THEN Absent ELSE otp
    /\ UNCHANGED <<userVars, rows, used, mailed, req, histVars>>

Abort(r) ==
    /\ Fails("abort")
    /\ ~At(r, "idle")
    /\ Leave(r)
    /\ UNCHANGED <<userVars, redisVars, rowVars, mailed, tokenLeft, histVars>>

Next ==
    \/ \E r \in Requests : GettingCode(r) \/ Verifying(r) \/ Abort(r)
    \/ Tick

Spec == Init /\ [][Next]_vars

-----------------------------------------------------------------------------
(* Fairness.  Time passes and every call returns; a mail is not lost every *)
(* time.  The last two lines are about the user, not the code: one who     *)
(* registers again and again, and sometimes types in a code he has got     *)
(* before it expires and before he has wasted its attempts on others.      *)
Serve(r) == ~At(r, "idle") /\ (GettingCode(r) \/ Verifying(r))

Fairness ==
    /\ SF_vars(Tick)
    /\ \A r \in Requests : WF_vars(Serve(r))
    /\ SF_vars(\E r \in Requests : SendOTP(r) /\ req[r].code \in mailed')

Perseverance ==
    /\ SF_vars(\E r \in Requests : RegisterHandler(r))
    /\ SF_vars(\E r \in Requests, c \in Codes :
                 VerifyOTPHandler(r, c) /\ left[c] > 0 /\ charged[c] < MaxAttempts)

FairSpec == Spec /\ Fairness /\ Perseverance
-----------------------------------------------------------------------------
(* Properties.                                                             *)

(* The step at which a code is found right.                                *)
Accepting(r) == req[r].pc \in {"check", "row"} /\ req'[r].pc \in {"delete", "mark"}

(* A code is accepted within its life only.  Redis may hold it longer, or  *)
(* for ever, as IncrementOTPAttempts can write it back; then only the      *)
(* register token, which expires with the code, stands in the way.         *)
AcceptedInTime == [][\A r \in Requests : Accepting(r) => left[req[r].code] > 0]_vars

(* A code that has borne MaxAttempts wrong attempts is not accepted, but   *)
(* for one whose key IncrementOTPAttempts wrote back with less life than   *)
(* its row has: when the key is gone, the row knows of no attempts.        *)
AttemptsEnforced ==
    [][\A r \in Requests : Accepting(r) =>
         charged[req[r].code] < MaxAttempts \/ req[r].code \in cut]_vars

(* The step at which a typed code is refused.                              *)
Refusing(r) == (CheckOTP(r) \/ CheckRow(r)) /\ req'[r].pc = "idle"

(* Nobody is locked out early: a code that was mailed is refused only once *)
(* it has expired, has borne MaxAttempts wrong attempts or was accepted,   *)
(* also when Redis lost it or an attempt against another code overwrote it.*)
NotLockedOutEarly ==
    [][\A r \in Requests : Refusing(r) /\ req[r].code \in mailed \ accepted =>
         left[req[r].code] = 0 \/ charged[req[r].code] = MaxAttempts]_vars

(* An active user has the role end_user, whichever requests ended early    *)
(* before the one that issued the token.                                   *)
ActiveHasRole == status = "active" => hasRole

(* Whoever was answered on asking for a new code has one that works.       *)
NewCodeWorks ==
    \A r \in Requests : At(r, "answer") => \E c \in mailed : Accepts(c)

(* The code in Redis has no expiry.                                        *)
WithoutExpiry == otp # Absent /\ ttl = 0

(* Whoever keeps trying gets in, whatever mails and calls to Redis are     *)
(* lost, with one exception: a code that IncrementOTPAttempts has left in  *)
(* Redis for ever.  Registering again finds that code each time and issues *)
(* a token that has expired with it.                                       *)
RegistrationSucceeds == <>(status = "active") \/ <>[]WithoutExpiry
=============================================================================
