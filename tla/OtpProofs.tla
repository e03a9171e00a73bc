----------------------------- MODULE OtpProofs -----------------------------
(***************************************************************************)
(* What holds of Otp for any number of requests, codes, attempts and ticks,*)
(* whatever fails.                                                         *)
(***************************************************************************)
EXTENDS Otp, FiniteSetTheorems, TLAPS

(* A request that writes, mails or marks a code has one, and so has one    *)
(* that is going to write back what IncrementOTPAttempts has read.         *)
WellFormed(q) ==
    /\ q.pc \in {"insertRow", "send", "token", "answer", "delete", "mark"} =>
          q.code \in Codes
    /\ q.pc \in {"incrTtl", "incrSet"} => q.seen \in Codes

Shape == \A r \in Requests : WellFormed(req[r])

(* The row that is going to be marked is there: SetOTP takes no code that  *)
(* a request refers to.                                                    *)
Marking == \A r \in Requests : req[r].pc = "mark" => req[r].code \in rows

IType == TypeOK /\ Shape /\ Marking

RowsKept == \A r \in Requests : req[r].code \in rows => req[r].code \in rows'

LEMMA IdleFacts ==
  /\ Idle \in Request /\ WellFormed(Idle)
  /\ Idle.pc = "idle"
  BY OtpAssumption DEF Idle, Request, WellFormed, Steps, Attempts, Ticks

(* The key is absent when it has no code.                                  *)
LEMMA PresentKey ==
  ASSUME TypeOK, otp # Absent
  PROVE  otp.code \in Codes /\ otp.attempts \in Attempts
  BY DEF TypeOK

LEMMA MoreType ==
  ASSUME NEW n \in Attempts
  PROVE  More(n) \in Attempts
  BY OtpAssumption DEF Attempts, More

LEMMA InitType == Init => IType
  <1> SUFFICES ASSUME Init
               PROVE  IType
    OBVIOUS
  <1>1. /\ req \in [Requests -> Request]
        /\ Shape /\ Marking
    BY IdleFacts DEF Init, Shape, Marking
  <1>2. /\ ttl \in Ticks /\ tokenLeft \in Ticks
        /\ left \in [Codes -> Ticks]
        /\ charged \in [Codes -> Attempts]
    BY OtpAssumption DEF Init, Ticks, Attempts
  <1> QED BY <1>1, <1>2 DEF Init, IType, TypeOK

(* One request is replaced by a well formed one.                           *)
LEMMA ReplaceType ==
  ASSUME IType, NEW r \in Requests, NEW q \in Request, WellFormed(q),
         q.pc = "mark" => q.code \in rows', RowsKept,
         req' = [req EXCEPT ![r] = q]
  PROVE  req' \in [Requests -> Request] /\ Shape' /\ Marking'
  <1>1. req \in [Requests -> Request]
    BY DEF IType, TypeOK
  <1>2. ASSUME NEW s \in Requests
        PROVE  WellFormed(req'[s])
    BY <1>1, <1>2 DEF IType, Shape
  <1>3. ASSUME NEW s \in Requests, req'[s].pc = "mark"
        PROVE  req'[s].code \in rows'
    BY <1>1, <1>3 DEF IType, Marking, RowsKept
  <1> QED BY <1>1, <1>2, <1>3 DEF Shape, WellFormed, Marking

(* A request is handed on to a step that asks for no more than it has.     *)
LEMMA GotoType ==
  ASSUME IType, NEW r \in Requests, NEW pc \in Steps, Goto(r, pc),
         pc \in {"insertRow", "send", "token", "answer", "delete", "mark"} =>
            req[r].code \in Codes,
         pc \notin {"incrTtl", "incrSet"},
         pc = "mark" => req[r].code \in rows, RowsKept
  PROVE  req' \in [Requests -> Request] /\ Shape' /\ Marking'
  <1> DEFINE q == [req[r] EXCEPT !.pc = pc]
  <1>1. req[r] \in Request /\ req' = [req EXCEPT ![r] = q]
    BY DEF Goto, IType, TypeOK
  <1>2. q \in Request /\ WellFormed(q)
    BY <1>1 DEF Request, WellFormed
  <1>3. q.pc = "mark" => q.code \in rows'
    BY <1>1 DEF Request, RowsKept
  <1> QED BY <1>1, <1>2, <1>3, ReplaceType

LEMMA LeaveType ==
  ASSUME IType, NEW r \in Requests, Leave(r), RowsKept
  PROVE  req' \in [Requests -> Request] /\ Shape' /\ Marking'
  BY IdleFacts, ReplaceType DEF Leave

LEMMA ArriveType ==
  ASSUME IType, NEW r \in Requests, NEW c \in Codes \cup {NoCode},
         NEW kind \in {"register", "new", "verify"},
         NEW pc \in {"insertUser", "role", "getOtp", "check"},
         Arrive(r, kind, pc, c), RowsKept
  PROVE  req' \in [Requests -> Request] /\ Shape' /\ Marking'
  <1> DEFINE q == [req[r] EXCEPT !.kind = kind, !.pc = pc, !.code = c]
  <1>1. req[r] \in Request /\ req' = [req EXCEPT ![r] = q]
    BY DEF Arrive, IType, TypeOK
  <1>2. q \in Request /\ WellFormed(q)
    BY <1>1 DEF Request, WellFormed, Steps
  <1>3. q.pc # "mark"
    BY <1>1 DEF Request
  <1> QED BY <1>1, <1>2, <1>3, ReplaceType

(* A request is handed on with the code it has made or found.              *)
LEMMA CodeType ==
  ASSUME IType, NEW r \in Requests, NEW c \in Codes,
         NEW pc \in {"insertRow", "token", "answer"},
         req' = [req EXCEPT ![r].code = c, ![r].pc = pc], RowsKept
  PROVE  req' \in [Requests -> Request] /\ Shape' /\ Marking'
  <1> DEFINE q == [req[r] EXCEPT !.code = c, !.pc = pc]
  <1>1. req[r] \in Request /\ req' = [req EXCEPT ![r] = q]
    BY DEF IType, TypeOK
  <1>2. q \in Request /\ WellFormed(q)
    BY <1>1 DEF Request, WellFormed, Steps
  <1>3. q.pc # "mark"
    BY <1>1 DEF Request
  <1> QED BY <1>1, <1>2, <1>3, ReplaceType

(* Whatever TTL answers, the time to live that is written back is one.     *)
LEMMA TTLAnswers ==
  ASSUME TypeOK, NEW r \in Requests, IncrementTTL(r)
  PROVE  \E t \in Ticks : req' = [req EXCEPT ![r].ttl = t, ![r].pc = "incrSet"]
  <1>1. ttl \in Ticks /\ Life \in Ticks
    BY OtpAssumption DEF TypeOK, Ticks
  <1> QED BY <1>1 DEF IncrementTTL

LEMMA GettingCodeType ==
  ASSUME IType, NEW r \in Requests, GettingCode(r)
  PROVE  IType'
  <1> USE DEF IType, TypeOK, userVars, redisVars, rowVars, histVars, RowsKept
  <1>1. CASE RegisterHandler(r)
    <2>1. PICK pc \in {"insertUser", "role"} : Arrive(r, "register", pc, NoCode)
      BY <1>1 DEF RegisterHandler
    <2>2. req' \in [Requests -> Request] /\ Shape' /\ Marking'
      BY <1>1, <2>1, ArriveType DEF RegisterHandler
    <2> QED BY <1>1, <2>2 DEF RegisterHandler
  <1>2. CASE InsertUser(r)
    <2>1. Goto(r, "role") \/ Leave(r)
      BY <1>2 DEF InsertUser
    <2>2. req' \in [Requests -> Request] /\ Shape' /\ Marking'
      BY <1>2, <2>1, GotoType, LeaveType DEF InsertUser, Steps
    <2> QED BY <1>2, <2>2 DEF InsertUser
  <1>3. CASE AddRole(r)
    <2>1. req' \in [Requests -> Request] /\ Shape' /\ Marking'
      BY <1>3, GotoType DEF AddRole, Steps
    <2> QED BY <1>3, <2>1 DEF AddRole
  <1>4. CASE RequestNewOTPHandler(r)
    <2>1. req' \in [Requests -> Request] /\ Shape' /\ Marking'
      BY <1>4, ArriveType DEF RequestNewOTPHandler
    <2> QED BY <1>4, <2>1 DEF RequestNewOTPHandler
  <1>5. CASE GetOTP(r)
    <2>1. \/ /\ otp # Absent
             /\ \E pc \in {"token", "answer"} :
                   req' = [req EXCEPT ![r].code = otp.code, ![r].pc = pc]
          \/ Goto(r, "setOtp")
      BY <1>5 DEF GetOTP
    <2>2. req' \in [Requests -> Request] /\ Shape' /\ Marking'
      BY <1>5, <2>1, PresentKey, CodeType, GotoType DEF GetOTP, Steps
    <2> QED BY <1>5, <2>2 DEF GetOTP
  <1>6. CASE SetOTP(r)
    <2>1. CASE Leave(r) /\ UNCHANGED <<redisVars, rowVars, mailed, histVars>>
      BY <1>6, <2>1, LeaveType DEF SetOTP
    <2>2. ASSUME NEW c \in Codes, Fresh(c),
                 otp' = [code |-> c, attempts |-> 0], ttl' = Life,
                 left' = [left EXCEPT ![c] = Life],
                 rows' = rows \ {c}, used' = used \ {c}, mailed' = mailed \ {c},
                 charged' = [charged EXCEPT ![c] = 0], accepted' = accepted \ {c},
                 cut' = cut \ {c},
                 req' = [req EXCEPT ![r].code = c, ![r].pc = "insertRow"]
          PROVE  IType'
      <3>1. RowsKept
        BY <2>2 DEF Fresh
      <3>2. req' \in [Requests -> Request] /\ Shape' /\ Marking'
        BY <2>2, <3>1, CodeType
      <3>3. /\ otp' \in [code : Codes, attempts : Attempts]
            /\ ttl' \in Ticks /\ otp' # Absent
        BY <2>2, OtpAssumption DEF Attempts, Ticks, Codes, Absent, NoCode
      <3>4. left' \in [Codes -> Ticks] /\ charged' \in [Codes -> Attempts]
        BY <2>2, OtpAssumption DEF Attempts, Ticks
      <3> QED BY <1>6, <2>2, <3>2, <3>3, <3>4 DEF SetOTP
    <2> QED BY <1>6, <2>1, <2>2 DEF SetOTP
  <1>7. CASE InsertRow(r)
    <2>1. req[r].code \in Codes
      BY <1>7 DEF InsertRow, At, Shape, WellFormed
    <2>2. req' \in [Requests -> Request] /\ Shape' /\ Marking'
      BY <1>7, <2>1, GotoType DEF InsertRow, Steps
    <2> QED BY <1>7, <2>1, <2>2 DEF InsertRow
  <1>8. CASE SendOTP(r)
    <2>1. req[r].code \in Codes
      BY <1>8 DEF SendOTP, At, Shape, WellFormed
    <2>2. Goto(r, "answer") \/ Goto(r, "token")
      BY <1>8 DEF SendOTP
    <2>3. req' \in [Requests -> Request] /\ Shape' /\ Marking'
      BY <1>8, <2>1, <2>2, GotoType DEF SendOTP, Steps
    <2> QED BY <1>8, <2>1, <2>3 DEF SendOTP
  <1>9. CASE GenerateRegisterToken(r)
    <2>1. left[req[r].code] \in Ticks
      BY <1>9 DEF GenerateRegisterToken, At, Shape, WellFormed
    <2>2. req' \in [Requests -> Request] /\ Shape' /\ Marking'
      BY <1>9, LeaveType DEF GenerateRegisterToken
    <2> QED BY <1>9, <2>1, <2>2 DEF GenerateRegisterToken
  <1>10. CASE Answer(r)
    <2>1. req' \in [Requests -> Request] /\ Shape' /\ Marking'
      BY <1>10, LeaveType DEF Answer
    <2> QED BY <1>10, <2>1 DEF Answer
  <1> QED
    BY <1>1, <1>2, <1>3, <1>4, <1>5, <1>6, <1>7, <1>8, <1>9, <1>10 DEF GettingCode

LEMMA VerifyingType ==
  ASSUME IType, NEW r \in Requests, Verifying(r)
  PROVE  IType'
  <1> USE DEF IType, TypeOK, userVars, redisVars, rowVars, histVars, RowsKept
  <1>1. ASSUME NEW c \in Codes \cup {NoCode}, VerifyOTPHandler(r, c)
        PROVE  IType'
    <2>1. req' \in [Requests -> Request] /\ Shape' /\ Marking'
      BY <1>1, ArriveType DEF VerifyOTPHandler
    <2> QED BY <1>1, <2>1 DEF VerifyOTPHandler
  <1>2. CASE CheckOTP(r)
    <2>1. \/ /\ req[r].code \in Codes
             /\ Goto(r, "delete") /\ accepted' = accepted \cup {req[r].code}
          \/ /\ Leave(r) \/ Goto(r, "incrGet") \/ Goto(r, "row")
             /\ UNCHANGED accepted
      BY <1>2, PresentKey DEF CheckOTP
    <2>2. req' \in [Requests -> Request] /\ Shape' /\ Marking'
      BY <1>2, <2>1, GotoType, LeaveType DEF CheckOTP, Steps
    <2>3. accepted' \subseteq Codes
      BY <2>1
    <2> QED BY <1>2, <2>2, <2>3 DEF CheckOTP
  <1>3. CASE DeleteOTP(r)
    <2>1. req' \in [Requests -> Request] /\ Shape' /\ Marking'
      BY <1>3, GotoType DEF DeleteOTP, Steps
    <2>2. 0 \in Ticks
      BY OtpAssumption DEF Ticks
    <2> QED BY <1>3, <2>1, <2>2 DEF DeleteOTP
  <1>4. CASE IncrementGet(r)
    <2>1. CASE /\ otp # Absent
               /\ req' = [req EXCEPT ![r].seen = otp.code, ![r].attempts = otp.attempts,
                                     ![r].pc = "incrTtl"]
               /\ charged' = [charged EXCEPT ![otp.code] = More(@)]
      <3> DEFINE q == [req[r] EXCEPT !.seen = otp.code, !.attempts = otp.attempts,
                                     !.pc = "incrTtl"]
      <3>1. req[r] \in Request /\ req' = [req EXCEPT ![r] = q]
        BY <2>1
      <3>2. q \in Request /\ WellFormed(q)
        BY <2>1, <3>1, PresentKey DEF Request, WellFormed, Steps
      <3>3. q.pc # "mark" /\ RowsKept
        BY <1>4, <3>1 DEF IncrementGet, Request
      <3>4. req' \in [Requests -> Request] /\ Shape' /\ Marking'
        BY <3>1, <3>2, <3>3, ReplaceType
      <3>5. charged' \in [Codes -> Attempts]
        BY <2>1, PresentKey, MoreType
      <3> QED BY <1>4, <3>4, <3>5 DEF IncrementGet
    <2>2. CASE Goto(r, "row") /\ UNCHANGED charged
      <3>1. req' \in [Requests -> Request] /\ Shape' /\ Marking'
        BY <1>4, <2>2, GotoType DEF IncrementGet, Steps
      <3> QED BY <1>4, <2>2, <3>1 DEF IncrementGet
    <2> QED BY <1>4, <2>1, <2>2 DEF IncrementGet
  <1>5. CASE IncrementTTL(r)
    <2>1. PICK t : t \in Ticks /\ req' = [req EXCEPT ![r].ttl = t, ![r].pc = "incrSet"]
      BY <1>5, TTLAnswers
    <2> DEFINE q == [req[r] EXCEPT !.ttl = t, !.pc = "incrSet"]
    <2>2. req[r] \in Request /\ req' = [req EXCEPT ![r] = q]
      BY <2>1
    <2>3. req[r].seen \in Codes
      BY <1>5 DEF IncrementTTL, At, Shape, WellFormed
    <2>4. q \in Request /\ WellFormed(q)
      BY <2>1, <2>2, <2>3 DEF Request, WellFormed, Steps
    <2>5. q.pc # "mark" /\ RowsKept
      BY <1>5, <2>2 DEF IncrementTTL, Request
    <2>6. req' \in [Requests -> Request] /\ Shape' /\ Marking'
      BY <2>2, <2>4, <2>5, ReplaceType
    <2> QED BY <1>5, <2>6 DEF IncrementTTL
  <1>6. CASE IncrementSet(r)
    <2>1. /\ req[r].seen \in Codes /\ req[r].ttl \in Ticks
          /\ More(req[r].attempts) \in Attempts
      BY <1>6, MoreType DEF IncrementSet, At, Shape, WellFormed, Request
    <2>2. [code |-> req[r].seen, attempts |-> More(req[r].attempts)]
             \in [code : Codes, attempts : Attempts] \ {Absent}
      BY <2>1 DEF Codes, Absent, NoCode
    <2>3. /\ otp' \in [code : Codes, attempts : Attempts] \cup {Absent}
          /\ ttl' \in Ticks
          /\ otp' = Absent => ttl' = 0
          /\ cut' \subseteq Codes
      BY <1>6, <2>1, <2>2 DEF IncrementSet
    <2>4. req' \in [Requests -> Request] /\ Shape' /\ Marking'
      BY <1>6, GotoType DEF IncrementSet, Steps
    <2> QED BY <1>6, <2>3, <2>4 DEF IncrementSet
  <1>7. CASE CheckRow(r)
    <2>1. \/ /\ req[r].code \in rows
             /\ Goto(r, "mark") /\ accepted' = accepted \cup {req[r].code}
          \/ Leave(r) /\ UNCHANGED accepted
      BY <1>7 DEF CheckRow
    <2>2. req' \in [Requests -> Request] /\ Shape' /\ Marking'
      BY <1>7, <2>1, GotoType, LeaveType DEF CheckRow, Steps
    <2>3. accepted' \subseteq Codes
      BY <2>1
    <2> QED BY <1>7, <2>2, <2>3 DEF CheckRow
  <1>8. CASE MarkUsed(r)
    <2>1. req[r].code \in rows
      BY <1>8 DEF MarkUsed, At, Marking
    <2>2. req' \in [Requests -> Request] /\ Shape' /\ Marking'
      BY <1>8, GotoType DEF MarkUsed, Steps
    <2> QED BY <1>8, <2>1, <2>2 DEF MarkUsed
  <1>9. CASE Activate(r)
    <2>1. req' \in [Requests -> Request] /\ Shape' /\ Marking'
      BY <1>9, LeaveType DEF Activate
    <2> QED BY <1>9, <2>1 DEF Activate
  <1> QED
    BY <1>1, <1>2, <1>3, <1>4, <1>5, <1>6, <1>7, <1>8, <1>9 DEF Verifying

LEMMA TypeStep == IType /\ [Next]_vars => IType'
  <1> SUFFICES ASSUME IType, [Next]_vars
               PROVE  IType'
    OBVIOUS
  <1> USE DEF IType, TypeOK, userVars, redisVars, rowVars, histVars
  <1>1. ASSUME NEW r \in Requests, GettingCode(r)
        PROVE  IType'
    BY <1>1, GettingCodeType
  <1>2. ASSUME NEW r \in Requests, Verifying(r)
        PROVE  IType'
    BY <1>2, VerifyingType
  <1>3. ASSUME NEW r \in Requests, Abort(r)
        PROVE  IType'
    <2>1. req' \in [Requests -> Request] /\ Shape' /\ Marking'
      BY <1>3, LeaveType DEF Abort, RowsKept
    <2> QED BY <1>3, <2>1 DEF Abort
  <1>4. CASE Tick
    <2>1. /\ tokenLeft' \in Ticks /\ ttl' \in Ticks
          /\ otp' \in [code : Codes, attempts : Attempts] \cup {Absent}
          /\ otp' = Absent => ttl' = 0
      BY <1>4, OtpAssumption DEF Tick, Ticks
    <2>2. left' \in [Codes -> Ticks]
      BY <1>4, OtpAssumption DEF Tick, Ticks
    <2>3. Shape' /\ Marking'
      BY <1>4 DEF Tick, Shape, WellFormed, Marking
    <2> QED BY <1>4, <2>1, <2>2, <2>3 DEF Tick
  <1>5. CASE UNCHANGED vars
    BY <1>5 DEF vars, Shape, WellFormed, Marking
  <1> QED
    BY <1>1, <1>2, <1>3, <1>4, <1>5 DEF Next

(* Every variable keeps its type; in particular IncrementOTPAttempts never *)
(* writes back a key without a code, however it and the clock interleave,  *)
(* no absent key has time to live, and no row is marked that is not there. *)
THEOREM TypeCorrect == Spec => []TypeOK
  <1>1. IType => TypeOK
    BY DEF IType
  <1> QED
    BY InitType, TypeStep, <1>1, PTL DEF Spec

-----------------------------------------------------------------------------
(* Whoever holds a register token, and every request past AddRole, has     *)
(* seen to it that the user has the role.                                  *)
RoleGiven ==
    /\ tokenLeft > 0 => hasRole
    /\ status = "active" => hasRole
    /\ \A r \in Requests :
          req[r].pc \notin {"idle", "insertUser", "role"} => hasRole

IRole == IType /\ RoleGiven

LEMMA RoleInit == Init => RoleGiven
  BY DEF Init, RoleGiven, Idle

(* Nobody loses the role; what else can go wrong is a token, an active     *)
(* user or a request past AddRole that was not there before.               *)
LEMMA RoleKept ==
  ASSUME IRole, NEW r \in Requests,
         hasRole' = hasRole,
         hasRole \/ (tokenLeft' = tokenLeft /\ status' # "active"
                     /\ req'[r].pc \in {"idle", "insertUser", "role"}),
         \A s \in Requests \ {r} : req'[s] = req[s]
  PROVE  RoleGiven'
  BY DEF IRole, RoleGiven

LEMMA RoleStep == IRole /\ [Next]_vars => RoleGiven'
  <1> SUFFICES ASSUME IRole, [Next]_vars
               PROVE  RoleGiven'
    OBVIOUS
  <1>1. ASSUME NEW r \in Requests, ~At(r, "idle"), ~At(r, "insertUser"), ~At(r, "role"),
               GettingCode(r) \/ Verifying(r) \/ Abort(r)
        PROVE  RoleGiven'
    <2>1. hasRole
      BY <1>1 DEF IRole, RoleGiven, At
    <2>2. hasRole' = hasRole
      BY <1>1 DEF GettingCode, Verifying, Abort, RegisterHandler, InsertUser, AddRole,
         RequestNewOTPHandler, GetOTP, SetOTP, InsertRow, SendOTP,
         GenerateRegisterToken, Answer, VerifyOTPHandler, CheckOTP, DeleteOTP,
         IncrementGet, IncrementTTL, IncrementSet, CheckRow, MarkUsed, Activate,
         userVars
    <2> QED BY <2>1, <2>2 DEF RoleGiven
  <1>2. ASSUME NEW r \in Requests, RegisterHandler(r)
        PROVE  RoleGiven'
    <2>1. /\ req'[r].pc \in {"insertUser", "role"}
          /\ \A s \in Requests \ {r} : req'[s] = req[s]
      BY <1>2 DEF RegisterHandler, Arrive, IRole, IType, TypeOK, Request
    <2> QED BY <1>2, <2>1, RoleKept DEF RegisterHandler, userVars
  <1>3. ASSUME NEW r \in Requests, InsertUser(r)
        PROVE  RoleGiven'
    <2>1. /\ req'[r].pc \in {"idle", "role"}
          /\ \A s \in Requests \ {r} : req'[s] = req[s]
      BY <1>3 DEF InsertUser, Goto, Leave, Idle, IRole, IType, TypeOK, Request
    <2>2. hasRole' = hasRole /\ tokenLeft' = tokenLeft
      BY <1>3 DEF InsertUser
    <2>3. status' # "active" \/ hasRole
      BY <1>3 DEF InsertUser, IRole, RoleGiven
    <2> QED BY <2>1, <2>2, <2>3, RoleKept
  <1>4. ASSUME NEW r \in Requests, AddRole(r)
        PROVE  RoleGiven'
    BY <1>4 DEF AddRole, RoleGiven
  <1>5. ASSUME NEW r \in Requests,
               RequestNewOTPHandler(r) \/ \E c \in Codes \cup {NoCode} : VerifyOTPHandler(r, c)
        PROVE  RoleGiven'
    <2>1. hasRole /\ hasRole' = hasRole
      BY <1>5 DEF RequestNewOTPHandler, VerifyOTPHandler, IRole, RoleGiven, userVars
    <2> QED BY <2>1 DEF RoleGiven
  <1>6. ASSUME NEW r \in Requests, GettingCode(r) \/ Verifying(r) \/ Abort(r)
        PROVE  RoleGiven'
    <2>1. CASE At(r, "idle")
      <3>1. \/ RegisterHandler(r) \/ RequestNewOTPHandler(r)
            \/ \E c \in Codes \cup {NoCode} : VerifyOTPHandler(r, c)
        BY <1>6, <2>1 DEF At, GettingCode, Verifying, Abort, InsertUser, AddRole,
           GetOTP, SetOTP, InsertRow, SendOTP, GenerateRegisterToken, Answer,
           CheckOTP, DeleteOTP, IncrementGet, IncrementTTL, IncrementSet, CheckRow,
           MarkUsed, Activate
      <3> QED BY <3>1, <1>2, <1>5
    <2>2. CASE At(r, "insertUser") \/ At(r, "role")
      <3>1. InsertUser(r) \/ AddRole(r) \/ Abort(r)
        BY <1>6, <2>2 DEF At, GettingCode, Verifying, RegisterHandler,
           RequestNewOTPHandler, Arrive, VerifyOTPHandler,
           GetOTP, SetOTP, InsertRow, SendOTP, GenerateRegisterToken, Answer,
           CheckOTP, DeleteOTP, IncrementGet, IncrementTTL, IncrementSet, CheckRow,
           MarkUsed, Activate
      <3>2. CASE Abort(r)
        <4>1. /\ req'[r].pc = "idle"
              /\ \A s \in Requests \ {r} : req'[s] = req[s]
          BY <3>2 DEF Abort, Leave, Idle, IRole, IType, TypeOK
        <4>2. status' # "active" \/ hasRole
          BY <3>2 DEF Abort, IRole, RoleGiven, userVars
        <4> QED BY <3>2, <4>1, <4>2, RoleKept DEF Abort, userVars
      <3> QED BY <3>1, <3>2, <1>3, <1>4
    <2> QED BY <2>1, <2>2, <1>1, <1>6
  <1>7. CASE Tick
    <2>1. tokenLeft' > 0 => tokenLeft > 0
      BY <1>7 DEF Tick, IRole, IType, TypeOK, Ticks
    <2> QED BY <1>7, <2>1 DEF Tick, userVars, IRole, RoleGiven
  <1>8. CASE UNCHANGED vars
    BY <1>8 DEF vars, IRole, RoleGiven
  <1> QED
    BY <1>6, <1>7, <1>8 DEF Next

(* No user becomes active without the role end_user, whichever requests    *)
(* end before AddRole: only a request that has passed AddRole issues the   *)
(* token that VerifyOTPHandler asks for.                                   *)
THEOREM ActiveHasRoleTheorem == Spec => []ActiveHasRole
  <1>1. RoleGiven => ActiveHasRole
    BY DEF RoleGiven, ActiveHasRole
  <1>2. IType /\ RoleGiven /\ [Next]_vars => (IType /\ RoleGiven)'
    BY TypeStep, RoleStep DEF IRole
  <1> QED
    BY InitType, RoleInit, <1>1, <1>2, PTL DEF Spec

-----------------------------------------------------------------------------
(* A code that was mailed has a row, and a row that is marked was accepted;*)
(* and the count beside a code in Redis, or on its way back to Redis, is   *)
(* never more than the wrong attempts the code has borne.                  *)
BackedRequest(q) ==
    /\ q.pc = "send" => q.code \in rows
    /\ q.pc = "mark" => q.code \in accepted
    /\ q.pc \in {"incrTtl", "incrSet"} => More(q.attempts) <= charged[q.seen]

Backed     == \A r \in Requests : BackedRequest(req[r])
KeyCounted == otp # Absent => otp.attempts <= charged[otp.code]
RowsTrue   == mailed \subseteq rows /\ used \subseteq accepted

ILock == IType /\ Backed /\ KeyCounted /\ RowsTrue

(* Nothing that a request relies on is taken back.                         *)
Kept ==
    \A r \in Requests :
        /\ req[r].code \in rows => req[r].code \in rows'
        /\ req[r].code \in accepted => req[r].code \in accepted'
        /\ req[r].seen \in Codes => charged'[req[r].seen] \in Nat
        /\ req[r].seen \in Codes => charged[req[r].seen] <= charged'[req[r].seen]

LEMMA LockInit == Init => ILock
  BY InitType DEF Init, ILock, Backed, BackedRequest, KeyCounted, RowsTrue, Idle

LEMMA KeptWhenUnchanged ==
  ASSUME IType, rows \subseteq rows', accepted \subseteq accepted', charged' = charged
  PROVE  Kept
  BY DEF Kept, IType, TypeOK, Attempts

LEMMA MoreGrows ==
  ASSUME NEW m \in Attempts, NEW n \in Attempts, m <= n
  PROVE  More(m) <= More(n) /\ n <= More(n)
  BY OtpAssumption DEF Attempts, More

(* The other requests keep what they rely on.                              *)
LEMMA BackedStep ==
  ASSUME ILock, NEW r \in Requests, Kept,
         \A s \in Requests \ {r} : req'[s] = req[s],
         BackedRequest(req[r])'
  PROVE  Backed'
  <1>1. ASSUME NEW s \in Requests, s # r
        PROVE  BackedRequest(req[s])'
    <2>1. req'[s] = req[s] /\ req[s] \in Request
      BY <1>1 DEF ILock, IType, TypeOK
    <2>2. ASSUME req[s].pc \in {"incrTtl", "incrSet"}
          PROVE  More(req[s].attempts) <= charged'[req[s].seen]
      <3>1. /\ req[s].seen \in Codes
            /\ More(req[s].attempts) <= charged[req[s].seen]
        BY <2>2 DEF ILock, IType, Shape, WellFormed, Backed, BackedRequest
      <3>2. More(req[s].attempts) \in Nat /\ charged[req[s].seen] \in Nat
        BY <2>1, <3>1, MoreType DEF ILock, IType, TypeOK, Request, Attempts
      <3>3. /\ charged'[req[s].seen] \in Nat
            /\ charged[req[s].seen] <= charged'[req[s].seen]
        BY <3>1 DEF Kept
      <3> QED BY <3>1, <3>2, <3>3
    <2> QED BY <2>1, <2>2 DEF ILock, Backed, BackedRequest, Kept
  <1> QED BY <1>1 DEF Backed, BackedRequest

LEMMA LockGettingCode ==
  ASSUME ILock, NEW r \in Requests, GettingCode(r)
  PROVE  Backed' /\ KeyCounted' /\ RowsTrue'
  <1> USE DEF userVars, redisVars, rowVars, histVars
  <1>1. req \in [Requests -> Request]
    BY DEF ILock, IType, TypeOK
  <1>2. ASSUME \/ RegisterHandler(r) \/ InsertUser(r) \/ AddRole(r)
               \/ RequestNewOTPHandler(r) \/ GetOTP(r) \/ GenerateRegisterToken(r)
               \/ Answer(r)
        PROVE  Backed' /\ KeyCounted' /\ RowsTrue'
    <2>1. UNCHANGED <<redisVars, rowVars, mailed, histVars>>
      BY <1>2 DEF RegisterHandler, InsertUser, AddRole, RequestNewOTPHandler, GetOTP,
         GenerateRegisterToken, Answer
    <2>2. /\ \A s \in Requests \ {r} : req'[s] = req[s]
          /\ req'[r].pc \in {"idle", "insertUser", "role", "getOtp", "setOtp", "token",
                             "answer"}
      BY <1>1, <1>2 DEF RegisterHandler, InsertUser, AddRole, RequestNewOTPHandler,
         GetOTP, GenerateRegisterToken, Answer, Arrive, Goto, Leave, Idle, Request
    <2>3. Backed'
      BY <2>1, <2>2, KeptWhenUnchanged, BackedStep DEF ILock, BackedRequest
    <2> QED BY <2>1, <2>3 DEF ILock, KeyCounted, RowsTrue
  <1>3. CASE SetOTP(r)
    <2>1. CASE Leave(r) /\ UNCHANGED <<redisVars, rowVars, mailed, histVars>>
      <3>1. /\ \A s \in Requests \ {r} : req'[s] = req[s]
            /\ req'[r].pc = "idle"
        BY <1>1, <2>1 DEF Leave, Idle
      <3>2. Backed'
        BY <2>1, <3>1, KeptWhenUnchanged, BackedStep DEF ILock, BackedRequest
      <3> QED BY <2>1, <3>2 DEF ILock, KeyCounted, RowsTrue
    <2>2. ASSUME NEW c \in Codes, Fresh(c),
                 otp' = [code |-> c, attempts |-> 0],
                 rows' = rows \ {c}, used' = used \ {c}, mailed' = mailed \ {c},
                 charged' = [charged EXCEPT ![c] = 0], accepted' = accepted \ {c},
                 req' = [req EXCEPT ![r].code = c, ![r].pc = "insertRow"]
          PROVE  Backed' /\ KeyCounted' /\ RowsTrue'
      <3>1. /\ \A s \in Requests \ {r} : req'[s] = req[s]
            /\ req'[r].pc = "insertRow"
        BY <1>1, <2>2 DEF Request
      <3>2. charged \in [Codes -> Nat]
        BY DEF ILock, IType, TypeOK, Attempts
      <3>3. Kept
        BY <2>2, <3>2 DEF Kept, Fresh
      <3>4. Backed'
        BY <3>1, <3>3, BackedStep DEF BackedRequest
      <3>5. KeyCounted'
        BY <2>2, <3>2 DEF KeyCounted
      <3> QED BY <2>2, <3>4, <3>5 DEF ILock, RowsTrue
    <2> QED BY <1>3, <2>1, <2>2 DEF SetOTP
  <1>4. CASE InsertRow(r)
    <2>1. /\ \A s \in Requests \ {r} : req'[s] = req[s]
          /\ req'[r].pc = "send" /\ req'[r].code = req[r].code
      BY <1>1, <1>4 DEF InsertRow, Goto, Request
    <2>2. /\ rows' = rows \cup {req[r].code}
          /\ UNCHANGED <<redisVars, used, mailed, histVars>>
      BY <1>4 DEF InsertRow
    <2>3. Backed'
      BY <2>1, <2>2, KeptWhenUnchanged, BackedStep DEF ILock, BackedRequest
    <2> QED BY <2>2, <2>3 DEF ILock, KeyCounted, RowsTrue
  <1>5. CASE SendOTP(r)
    <2>1. /\ \A s \in Requests \ {r} : req'[s] = req[s]
          /\ req'[r].pc \in {"answer", "token"}
      BY <1>1, <1>5 DEF SendOTP, Goto, Request
    <2>2. /\ mailed' \subseteq mailed \cup {req[r].code}
          /\ UNCHANGED <<redisVars, rowVars, histVars>>
      BY <1>5 DEF SendOTP
    <2>3. Backed'
      BY <2>1, <2>2, KeptWhenUnchanged, BackedStep DEF ILock, BackedRequest
    <2>4. req[r].code \in rows
      BY <1>5 DEF SendOTP, At, ILock, Backed, BackedRequest
    <2> QED BY <2>2, <2>3, <2>4 DEF ILock, KeyCounted, RowsTrue
  <1> QED
    BY <1>2, <1>3, <1>4, <1>5 DEF GettingCode

LEMMA LockVerifying ==
  ASSUME ILock, NEW r \in Requests, Verifying(r)
  PROVE  Backed' /\ KeyCounted' /\ RowsTrue'
  <1> USE DEF userVars, redisVars, rowVars, histVars
  <1>1. /\ req \in [Requests -> Request]
        /\ charged \in [Codes -> Attempts]
    BY DEF ILock, IType, TypeOK
  <1>2. ASSUME NEW c \in Codes \cup {NoCode}, VerifyOTPHandler(r, c)
        PROVE  Backed' /\ KeyCounted' /\ RowsTrue'
    <2>1. /\ \A s \in Requests \ {r} : req'[s] = req[s]
          /\ req'[r].pc = "check"
      BY <1>1, <1>2 DEF VerifyOTPHandler, Arrive, Request
    <2>2. UNCHANGED <<redisVars, rowVars, mailed, histVars>>
      BY <1>2 DEF VerifyOTPHandler
    <2>3. Backed'
      BY <2>1, <2>2, KeptWhenUnchanged, BackedStep DEF ILock, BackedRequest
    <2> QED BY <2>2, <2>3 DEF ILock, KeyCounted, RowsTrue
  <1>3. CASE CheckOTP(r)
    <2>1. /\ \A s \in Requests \ {r} : req'[s] = req[s]
          /\ req'[r].pc \in {"delete", "idle", "incrGet", "row"}
      BY <1>1, <1>3 DEF CheckOTP, Goto, Leave, Idle, Request
    <2>2. /\ accepted \subseteq accepted'
          /\ UNCHANGED <<redisVars, rowVars, mailed, charged>>
      BY <1>3 DEF CheckOTP
    <2>3. Backed'
      BY <2>1, <2>2, KeptWhenUnchanged, BackedStep DEF ILock, BackedRequest
    <2> QED BY <2>2, <2>3 DEF ILock, KeyCounted, RowsTrue
  <1>4. CASE DeleteOTP(r)
    <2>1. /\ \A s \in Requests \ {r} : req'[s] = req[s]
          /\ req'[r].pc = "activate"
      BY <1>1, <1>4 DEF DeleteOTP, Goto, Request
    <2>2. /\ otp' \in {otp, Absent}
          /\ UNCHANGED <<rowVars, mailed, histVars>>
      BY <1>4 DEF DeleteOTP
    <2>3. Backed'
      BY <2>1, <2>2, KeptWhenUnchanged, BackedStep DEF ILock, BackedRequest
    <2> QED BY <2>2, <2>3 DEF ILock, KeyCounted, RowsTrue
  <1>5. CASE IncrementGet(r)
    <2>1. UNCHANGED <<redisVars, rowVars, mailed, accepted>>
      BY <1>5 DEF IncrementGet
    <2>2. CASE /\ otp # Absent
               /\ req' = [req EXCEPT ![r].seen = otp.code, ![r].attempts = otp.attempts,
                                     ![r].pc = "incrTtl"]
               /\ charged' = [charged EXCEPT ![otp.code] = More(@)]
      <3>1. /\ otp.code \in Codes /\ otp.attempts \in Attempts
            /\ otp.attempts <= charged[otp.code]
        BY <2>2, PresentKey DEF ILock, IType, KeyCounted
      <3>2. /\ charged[otp.code] \in Attempts
            /\ charged'[otp.code] = More(charged[otp.code])
        BY <1>1, <2>2, <3>1
      <3>3. /\ More(otp.attempts) <= charged'[otp.code]
            /\ charged[otp.code] <= charged'[otp.code]
            /\ charged'[otp.code] \in Attempts
        BY <3>1, <3>2, MoreGrows, MoreType
      <3>4. \A c \in Codes : charged'[c] \in Nat /\ charged[c] <= charged'[c]
        BY <1>1, <2>2, <3>3 DEF Attempts
      <3>5. Kept
        BY <2>1, <3>4 DEF Kept
      <3>6. /\ \A s \in Requests \ {r} : req'[s] = req[s]
            /\ req'[r].pc = "incrTtl" /\ req'[r].seen = otp.code
            /\ req'[r].attempts = otp.attempts
        BY <1>1, <2>2 DEF Request
      <3>7. Backed'
        BY <3>3, <3>5, <3>6, BackedStep DEF BackedRequest
      <3>8. otp.attempts <= charged'[otp.code]
        BY <3>1, <3>2, <3>3 DEF Attempts
      <3> QED BY <2>1, <3>7, <3>8 DEF ILock, KeyCounted, RowsTrue
    <2>3. CASE Goto(r, "row") /\ UNCHANGED charged
      <3>1. /\ \A s \in Requests \ {r} : req'[s] = req[s]
            /\ req'[r].pc = "row"
        BY <1>1, <2>3 DEF Goto, Request
      <3>2. Backed'
        BY <2>1, <2>3, <3>1, KeptWhenUnchanged, BackedStep DEF ILock, BackedRequest
      <3> QED BY <2>1, <2>3, <3>2 DEF ILock, KeyCounted, RowsTrue
    <2> QED BY <1>5, <2>2, <2>3 DEF IncrementGet
  <1>6. CASE IncrementTTL(r)
    <2>1. /\ \A s \in Requests \ {r} : req'[s] = req[s]
          /\ req'[r].pc = "incrSet" /\ req'[r].seen = req[r].seen
          /\ req'[r].attempts = req[r].attempts
      BY <1>1, <1>6 DEF IncrementTTL, Request
    <2>2. UNCHANGED <<redisVars, rowVars, mailed, histVars>>
      BY <1>6 DEF IncrementTTL
    <2>3. More(req[r].attempts) <= charged[req[r].seen]
      BY <1>6 DEF IncrementTTL, At, ILock, Backed, BackedRequest
    <2>4. BackedRequest(req[r])'
      BY <2>1, <2>2, <2>3 DEF BackedRequest
    <2>5. Backed'
      BY <2>1, <2>2, <2>4, KeptWhenUnchanged, BackedStep DEF ILock
    <2> QED BY <2>2, <2>5 DEF ILock, KeyCounted, RowsTrue
  <1>7. CASE IncrementSet(r)
    <2>1. /\ \A s \in Requests \ {r} : req'[s] = req[s]
          /\ req'[r].pc = "row"
      BY <1>1, <1>7 DEF IncrementSet, Goto, Request
    <2>2. UNCHANGED <<rowVars, mailed, charged, accepted>>
      BY <1>7 DEF IncrementSet
    <2>3. Backed'
      BY <2>1, <2>2, KeptWhenUnchanged, BackedStep DEF ILock, BackedRequest
    <2>4. More(req[r].attempts) <= charged[req[r].seen]
      BY <1>7 DEF IncrementSet, At, ILock, Backed, BackedRequest
    <2>5. KeyCounted'
      BY <1>7, <2>2, <2>4 DEF IncrementSet, ILock, KeyCounted
    <2> QED BY <2>2, <2>3, <2>5 DEF ILock, RowsTrue
  <1>8. CASE CheckRow(r)
    <2>1. /\ \A s \in Requests \ {r} : req'[s] = req[s]
          /\ req'[r].pc \in {"idle", "mark"}
          /\ req'[r].pc = "mark" => req'[r].code \in accepted'
      BY <1>1, <1>8 DEF CheckRow, Goto, Leave, Idle, Request
    <2>2. /\ accepted \subseteq accepted'
          /\ UNCHANGED <<redisVars, rowVars, mailed, charged>>
      BY <1>8 DEF CheckRow
    <2>3. Backed'
      BY <2>1, <2>2, KeptWhenUnchanged, BackedStep DEF ILock, BackedRequest
    <2> QED BY <2>2, <2>3 DEF ILock, KeyCounted, RowsTrue
  <1>9. CASE MarkUsed(r)
    <2>1. /\ \A s \in Requests \ {r} : req'[s] = req[s]
          /\ req'[r].pc = "activate"
      BY <1>1, <1>9 DEF MarkUsed, Goto, Request
    <2>2. /\ used' \subseteq used \cup {req[r].code}
          /\ UNCHANGED <<redisVars, rows, mailed, histVars>>
      BY <1>9 DEF MarkUsed
    <2>3. Backed'
      BY <2>1, <2>2, KeptWhenUnchanged, BackedStep DEF ILock, BackedRequest
    <2>4. req[r].code \in accepted
      BY <1>9 DEF MarkUsed, At, ILock, Backed, BackedRequest
    <2> QED BY <2>2, <2>3, <2>4 DEF ILock, KeyCounted, RowsTrue
  <1>10. CASE Activate(r)
    <2>1. /\ \A s \in Requests \ {r} : req'[s] = req[s]
          /\ req'[r].pc = "idle"
      BY <1>1, <1>10 DEF Activate, Leave, Idle
    <2>2. UNCHANGED <<redisVars, rowVars, mailed, histVars>>
      BY <1>10 DEF Activate
    <2>3. Backed'
      BY <2>1, <2>2, KeptWhenUnchanged, BackedStep DEF ILock, BackedRequest
    <2> QED BY <2>2, <2>3 DEF ILock, KeyCounted, RowsTrue
  <1> QED
    BY <1>2, <1>3, <1>4, <1>5, <1>6, <1>7, <1>8, <1>9, <1>10 DEF Verifying

LEMMA LockStep == ILock /\ [Next]_vars => ILock'
  <1> SUFFICES ASSUME ILock, [Next]_vars
               PROVE  ILock'
    OBVIOUS
  <1>1. IType'
    BY TypeStep DEF ILock
  <1>2. ASSUME NEW r \in Requests, GettingCode(r) \/ Verifying(r)
        PROVE  Backed' /\ KeyCounted' /\ RowsTrue'
    BY <1>2, LockGettingCode, LockVerifying
  <1>3. ASSUME NEW r \in Requests, Abort(r)
        PROVE  Backed' /\ KeyCounted' /\ RowsTrue'
    <2>1. /\ \A s \in Requests \ {r} : req'[s] = req[s]
          /\ req'[r].pc = "idle"
      BY <1>3 DEF Abort, Leave, Idle, ILock, IType, TypeOK
    <2>2. UNCHANGED <<redisVars, rowVars, mailed, histVars>>
      BY <1>3 DEF Abort
    <2>3. Backed'
      BY <2>1, <2>2, KeptWhenUnchanged, BackedStep
         DEF ILock, BackedRequest, rowVars, histVars
    <2> QED BY <2>2, <2>3 DEF ILock, KeyCounted, RowsTrue, redisVars, rowVars, histVars
  <1>4. CASE Tick
    <2>1. /\ otp' \in {otp, Absent}
          /\ UNCHANGED <<rows, used, mailed, req, histVars>>
      BY <1>4 DEF Tick
    <2> QED BY <1>1, <2>1 DEF ILock, Backed, BackedRequest, KeyCounted, RowsTrue, histVars
  <1>5. CASE UNCHANGED vars
    BY <1>1, <1>5 DEF vars, ILock, Backed, BackedRequest, KeyCounted, RowsTrue
  <1> QED
    BY <1>1, <1>2, <1>3, <1>4, <1>5 DEF Next, ILock

(* A mailed code that was not accepted is refused only when it has expired *)
(* or borne MaxAttempts wrong attempts: Redis never counts more than there *)
(* were, and whoever finds Redis without the code, or with another one,    *)
(* finds its row unmarked.                                                 *)
THEOREM NotLockedOutEarlyTheorem == Spec => NotLockedOutEarly
  <1>1. ASSUME ILock, [Next]_vars, NEW r \in Requests,
               Refusing(r), req[r].code \in mailed \ accepted
        PROVE  left[req[r].code] = 0 \/ charged[req[r].code] = MaxAttempts
    <2>1. /\ req[r].code \in Codes /\ req[r].code \in rows \ used
          /\ left[req[r].code] \in Ticks /\ charged[req[r].code] \in Attempts
      BY <1>1 DEF ILock, IType, TypeOK, RowsTrue
    <2>2. req \in [Requests -> Request]
      BY <1>1 DEF ILock, IType, TypeOK
    <2>3. CASE CheckOTP(r)
      <3>1. /\ otp # Absent /\ otp.code = req[r].code
            /\ ~(otp.attempts < MaxAttempts)
        BY <1>1, <2>2, <2>3 DEF Refusing, CheckOTP, Goto, Request
      <3>2. otp.attempts \in Attempts /\ otp.attempts <= charged[req[r].code]
        BY <1>1, <3>1, PresentKey DEF ILock, IType, KeyCounted
      <3> QED BY <2>1, <3>1, <3>2, OtpAssumption DEF Attempts
    <2>4. CASE CheckRow(r)
      <3>1. ~(left[req[r].code] > 0)
        BY <1>1, <2>1, <2>2, <2>4 DEF Refusing, CheckRow, Goto, Request
      <3> QED BY <2>1, <3>1, OtpAssumption DEF Ticks
    <2> QED BY <1>1, <2>3, <2>4 DEF Refusing
  <1>2. ILock /\ [Next]_vars =>
          [\A r \in Requests : Refusing(r) /\ req[r].code \in mailed \ accepted =>
             left[req[r].code] = 0 \/ charged[req[r].code] = MaxAttempts]_vars
    BY <1>1
  <1> QED
    BY LockInit, LockStep, <1>2, PTL DEF Spec, NotLockedOutEarly


-----------------------------------------------------------------------------
(* One request at a time, of one user: what a second one could do between  *)
(* two steps of the first is what IncrementOTPAttempts does not survive.   *)
OneRequest == \A r, s \in Requests : r = s

(* Nothing but these two steps accepts a code.                             *)
LEMMA AcceptingStep ==
  ASSUME OneRequest, IType, [Next]_vars, NEW r \in Requests, Accepting(r)
  PROVE  CheckOTP(r) \/ CheckRow(r)
  <1>1. PICK s \in Requests : GettingCode(s) \/ Verifying(s) \/ Abort(s)
    BY DEF Accepting, Next, Tick, vars
  <1>2. s = r /\ req \in [Requests -> Request]
    BY DEF OneRequest, IType, TypeOK
  <1>3. ~GettingCode(r)
    BY DEF Accepting, GettingCode, RegisterHandler, InsertUser, AddRole,
       RequestNewOTPHandler, GetOTP, SetOTP, InsertRow, SendOTP,
       GenerateRegisterToken, Answer, At, Arrive
  <1>4. ~Abort(r)
    BY <1>2 DEF Accepting, Abort, Leave, Idle
  <1>5. Verifying(r)
    BY <1>1, <1>2, <1>3, <1>4
  <1> QED BY <1>5 DEF Accepting, Verifying, VerifyOTPHandler, DeleteOTP,
          IncrementGet, IncrementTTL, IncrementSet, MarkUsed, Activate, At, Arrive

(* The register token does not outlive the code that is in Redis, whatever *)
(* the time to live that was written back with it: a new code is made when *)
(* the old one is overwritten, and the token is issued against it.         *)
TokenCovered == otp # Absent => tokenLeft <= left[otp.code]

(* Until its token is issued a registration pursues the code in Redis; so  *)
(* does a wrong attempt until it is counted; and who verifies had a token. *)
Pursues(q) ==
    /\ q.pc \in {"insertRow", "send", "token"} => otp.code = q.code
    /\ q.pc \in {"incrTtl", "incrSet"} => otp.code = q.seen
    /\ q.pc = "check" => tokenLeft > 0

InTime == TokenCovered /\ \A r \in Requests : Pursues(req[r])

LEMMA InTimeInit == Init => InTime
  BY DEF Init, InTime, TokenCovered, Pursues, Idle

(* What is to be shown of a step of the only request.                      *)
LEMMA InTimeAlone ==
  ASSUME OneRequest, NEW r \in Requests, TokenCovered', Pursues(req[r])'
  PROVE  InTime'
  BY DEF OneRequest, InTime, Pursues

LEMMA InTimeKept ==
  ASSUME OneRequest, InTime, NEW r \in Requests,
         UNCHANGED <<otp, left, tokenLeft>>, Pursues(req[r])'
  PROVE  InTime'
  <1>1. TokenCovered'
    BY DEF InTime, TokenCovered
  <1> QED BY <1>1, InTimeAlone

LEMMA InTimeGettingCode ==
  ASSUME OneRequest, IType, InTime, NEW r \in Requests, GettingCode(r)
  PROVE  InTime'
  <1> USE DEF userVars, redisVars, rowVars, histVars
  <1>1. req \in [Requests -> Request] /\ Pursues(req[r]) /\ TokenCovered
    BY DEF IType, TypeOK, InTime
  <1>2. CASE \/ RegisterHandler(r) \/ InsertUser(r) \/ AddRole(r)
             \/ RequestNewOTPHandler(r) \/ Answer(r)
    <2>1. req'[r].pc \in {"idle", "insertUser", "role", "getOtp"}
      BY <1>1, <1>2 DEF RegisterHandler, InsertUser, AddRole, RequestNewOTPHandler,
         Answer, Arrive, Goto, Leave, Idle, Request
    <2>2. UNCHANGED <<otp, left, tokenLeft>>
      BY <1>2 DEF RegisterHandler, InsertUser, AddRole, RequestNewOTPHandler, Answer
    <2>3. Pursues(req[r])'
      BY <2>1 DEF Pursues
    <2> QED BY <2>2, <2>3, InTimeKept
  <1>3. CASE GetOTP(r)
    <2>1. \/ req'[r].pc \in {"answer", "token"} /\ req'[r].code = otp.code
          \/ req'[r].pc = "setOtp"
      BY <1>1, <1>3 DEF GetOTP, Goto, Request
    <2>2. UNCHANGED <<otp, left, tokenLeft>>
      BY <1>3 DEF GetOTP
    <2>3. Pursues(req[r])'
      BY <2>1, <2>2 DEF Pursues
    <2> QED BY <2>2, <2>3, InTimeKept
  <1>4. CASE SetOTP(r)
    <2>1. CASE Leave(r) /\ UNCHANGED <<redisVars, rowVars, mailed, histVars>>
      <3>1. Pursues(req[r])'
        BY <1>1, <2>1 DEF Leave, Idle, Pursues
      <3> QED BY <1>4, <2>1, <3>1, InTimeKept DEF SetOTP
    <2>2. ASSUME NEW c \in Codes,
                 otp' = [code |-> c, attempts |-> 0],
                 left' = [left EXCEPT ![c] = Life],
                 req' = [req EXCEPT ![r].code = c, ![r].pc = "insertRow"]
          PROVE  InTime'
      <3>1. tokenLeft' <= Life
        BY <1>4, OtpAssumption DEF SetOTP, IType, TypeOK, Ticks
      <3>2. otp'.code = c /\ left'[c] = Life
        BY <2>2 DEF IType, TypeOK
      <3>3. TokenCovered'
        BY <3>1, <3>2 DEF TokenCovered
      <3>4. req'[r].pc = "insertRow" /\ req'[r].code = c
        BY <1>1, <2>2 DEF Request
      <3>5. Pursues(req[r])'
        BY <3>2, <3>4 DEF Pursues
      <3> QED BY <3>3, <3>5, InTimeAlone
    <2> QED BY <1>4, <2>1, <2>2 DEF SetOTP
  <1>5. CASE InsertRow(r) \/ SendOTP(r)
    <2>1. /\ req[r].pc \in {"insertRow", "send"}
          /\ req'[r].pc \in {"send", "token", "answer"} /\ req'[r].code = req[r].code
      BY <1>1, <1>5 DEF InsertRow, SendOTP, At, Goto, Request
    <2>2. UNCHANGED <<otp, left, tokenLeft>>
      BY <1>5 DEF InsertRow, SendOTP
    <2>3. Pursues(req[r])'
      BY <1>1, <2>1, <2>2 DEF Pursues
    <2> QED BY <2>2, <2>3, InTimeKept
  <1>6. CASE GenerateRegisterToken(r)
    <2>1. otp.code = req[r].code /\ req[r].code \in Codes
      BY <1>1, <1>6 DEF GenerateRegisterToken, At, Pursues, IType, Shape, WellFormed
    <2>2. left[otp.code] \in Nat /\ tokenLeft \in Nat
      BY <2>1 DEF IType, TypeOK, Ticks
    <2>3. UNCHANGED <<otp, left>>
      BY <1>6 DEF GenerateRegisterToken
    <2>4. tokenLeft' = IF left[otp.code] > tokenLeft THEN left[otp.code] ELSE tokenLeft
      BY <1>6, <2>1 DEF GenerateRegisterToken
    <2>5. TokenCovered'
      BY <1>1, <2>2, <2>3, <2>4 DEF TokenCovered
    <2>6. Pursues(req[r])'
      BY <1>1, <1>6 DEF GenerateRegisterToken, Leave, Idle, Pursues
    <2> QED BY <2>5, <2>6, InTimeAlone
  <1> QED
    BY <1>2, <1>3, <1>4, <1>5, <1>6 DEF GettingCode

LEMMA InTimeVerifying ==
  ASSUME OneRequest, IType, InTime, NEW r \in Requests, Verifying(r)
  PROVE  InTime'
  <1> USE DEF userVars, redisVars, rowVars, histVars
  <1>1. req \in [Requests -> Request] /\ Pursues(req[r]) /\ TokenCovered
    BY DEF IType, TypeOK, InTime
  <1>2. ASSUME NEW c \in Codes \cup {NoCode}, VerifyOTPHandler(r, c)
        PROVE  InTime'
    <2>1. req'[r].pc = "check"
      BY <1>1, <1>2 DEF VerifyOTPHandler, Arrive, Request
    <2>2. Pursues(req[r])'
      BY <1>2, <2>1 DEF VerifyOTPHandler, Pursues
    <2> QED BY <1>2, <2>2, InTimeKept DEF VerifyOTPHandler
  <1>3. CASE CheckOTP(r) \/ CheckRow(r) \/ MarkUsed(r) \/ Activate(r)
    <2>1. req'[r].pc \in {"delete", "idle", "incrGet", "row", "mark", "activate"}
      BY <1>1, <1>3 DEF CheckOTP, CheckRow, MarkUsed, Activate, Goto, Leave, Idle, Request
    <2>2. UNCHANGED <<otp, left, tokenLeft>>
      BY <1>3 DEF CheckOTP, CheckRow, MarkUsed, Activate
    <2>3. Pursues(req[r])'
      BY <2>1 DEF Pursues
    <2> QED BY <2>2, <2>3, InTimeKept
  <1>4. CASE DeleteOTP(r)
    <2>1. otp' \in {otp, Absent} /\ UNCHANGED <<left, tokenLeft>>
      BY <1>4 DEF DeleteOTP
    <2>2. TokenCovered'
      BY <1>1, <2>1 DEF TokenCovered
    <2>3. req'[r].pc = "activate"
      BY <1>1, <1>4 DEF DeleteOTP, Goto, Request
    <2>4. Pursues(req[r])'
      BY <2>3 DEF Pursues
    <2> QED BY <2>2, <2>4, InTimeAlone
  <1>5. CASE IncrementGet(r)
    <2>1. \/ req'[r].pc = "incrTtl" /\ req'[r].seen = otp.code
          \/ req'[r].pc = "row"
      BY <1>1, <1>5 DEF IncrementGet, Goto, Request
    <2>2. UNCHANGED <<otp, left, tokenLeft>>
      BY <1>5 DEF IncrementGet
    <2>3. Pursues(req[r])'
      BY <2>1, <2>2 DEF Pursues
    <2> QED BY <2>2, <2>3, InTimeKept
  <1>6. CASE IncrementTTL(r)
    <2>1. /\ req[r].pc = "incrTtl"
          /\ req'[r].pc = "incrSet" /\ req'[r].seen = req[r].seen
      BY <1>1, <1>6 DEF IncrementTTL, At, Request
    <2>2. UNCHANGED <<otp, left, tokenLeft>>
      BY <1>6 DEF IncrementTTL
    <2>3. Pursues(req[r])'
      BY <1>1, <2>1, <2>2 DEF Pursues
    <2> QED BY <2>2, <2>3, InTimeKept
  <1>7. CASE IncrementSet(r)
    <2>1. otp.code = req[r].seen /\ req[r].seen \in Codes
      BY <1>1, <1>7 DEF IncrementSet, At, Pursues, IType, Shape, WellFormed
    <2>2. otp'.code = otp.code /\ otp # Absent /\ UNCHANGED <<left, tokenLeft>>
      BY <1>7, <2>1 DEF IncrementSet, Absent, NoCode, Codes
    <2>3. TokenCovered'
      BY <1>1, <2>2 DEF TokenCovered
    <2>4. req'[r].pc = "row"
      BY <1>1, <1>7 DEF IncrementSet, Goto, Request
    <2>5. Pursues(req[r])'
      BY <2>4 DEF Pursues
    <2> QED BY <2>3, <2>5, InTimeAlone
  <1> QED
    BY <1>2, <1>3, <1>4, <1>5, <1>6, <1>7 DEF Verifying

LEMMA InTimeStep ==
  ASSUME OneRequest, "slow" \notin Faults, IType, InTime, [Next]_vars
  PROVE  InTime'
  <1>1. ASSUME NEW r \in Requests, GettingCode(r) \/ Verifying(r)
        PROVE  InTime'
    BY <1>1, InTimeGettingCode, InTimeVerifying
  <1>2. ASSUME NEW r \in Requests, Abort(r)
        PROVE  InTime'
    <2>1. req'[r].pc = "idle"
      BY <1>2 DEF Abort, Leave, Idle, IType, TypeOK
    <2>2. Pursues(req[r])'
      BY <2>1 DEF Pursues
    <2> QED BY <1>2, <2>2, InTimeKept DEF Abort, redisVars, rowVars
  <1>3. CASE Tick
    <2>1. \A r \in Requests : req'[r].pc = "idle"
      BY <1>3 DEF Tick, Fails, At
    <2>2. \A r \in Requests : Pursues(req[r])'
      BY <2>1 DEF Pursues
    <2>3. ASSUME otp' # Absent
          PROVE  tokenLeft' <= left'[otp'.code]
      <3>1. otp' = otp /\ otp # Absent
        BY <1>3, <2>3 DEF Tick
      <3>2. otp.code \in Codes /\ tokenLeft <= left[otp.code]
        BY <3>1, PresentKey DEF IType, InTime, TokenCovered
      <3>3. left[otp.code] \in Nat /\ tokenLeft \in Nat
        BY <3>2 DEF IType, TypeOK, Ticks
      <3>4. /\ left'[otp.code] = IF left[otp.code] > 0 THEN left[otp.code] - 1 ELSE 0
            /\ tokenLeft' = IF tokenLeft > 0 THEN tokenLeft - 1 ELSE 0
        BY <1>3, <3>2 DEF Tick
      <3> QED BY <3>1, <3>2, <3>3, <3>4
    <2> QED BY <2>2, <2>3 DEF InTime, TokenCovered, Pursues
  <1>4. CASE UNCHANGED vars
    BY <1>4 DEF vars, InTime, TokenCovered, Pursues
  <1> QED
    BY <1>1, <1>2, <1>3, <1>4 DEF Next

(* One request at a time and none so slow that a code expires meanwhile: a *)
(* code is accepted within its life only, whatever else fails, although    *)
(* Redis may hold it longer.  Its holder would need a register token, and  *)
(* that has expired with the code.                                         *)
THEOREM AcceptedInTimeTheorem ==
  ASSUME OneRequest, "slow" \notin Faults
  PROVE  Spec => AcceptedInTime
  <1>1. ASSUME IType, InTime, [Next]_vars, NEW r \in Requests, Accepting(r)
        PROVE  left[req[r].code] > 0
    <2>1. req \in [Requests -> Request] /\ Pursues(req[r]) /\ TokenCovered
      BY <1>1 DEF IType, TypeOK, InTime
    <2>2. CheckOTP(r) \/ CheckRow(r)
      BY <1>1, AcceptingStep
    <2>3. CASE CheckOTP(r)
      <3>1. otp # Absent /\ otp.code = req[r].code /\ req[r].pc = "check"
        BY <1>1, <2>1, <2>3 DEF Accepting, CheckOTP, Goto, At, Request
      <3>2. tokenLeft > 0 /\ tokenLeft <= left[req[r].code]
        BY <2>1, <3>1 DEF Pursues, TokenCovered
      <3>3. tokenLeft \in Nat /\ left[req[r].code] \in Nat
        BY <1>1, <3>1, PresentKey DEF IType, TypeOK, Ticks
      <3> QED BY <3>2, <3>3
    <2>4. CASE CheckRow(r)
      BY <1>1, <2>1, <2>4 DEF Accepting, CheckRow, Leave, Idle
    <2> QED BY <2>2, <2>3, <2>4
  <1>2. IType /\ InTime /\ [Next]_vars => (IType /\ InTime)'
    BY TypeStep, InTimeStep
  <1>3. IType /\ InTime /\ [Next]_vars =>
          [\A r \in Requests : Accepting(r) => left[req[r].code] > 0]_vars
    BY <1>1
  <1> QED
    BY InitType, InTimeInit, <1>2, <1>3, PTL DEF Spec, AcceptedInTime


-----------------------------------------------------------------------------
(* The wrong attempts are enforced.  A code that Redis does not have any   *)
(* more has expired there, and then in its row, or was accepted in time;   *)
(* so its row does not let in whom Redis has refused, unless the key was   *)
(* written back with less life than the row had.                           *)
OutOfReach ==
    \A c \in Codes : otp.code # c /\ left[c] > 0 => charged[c] < MaxAttempts \/ c \in cut

Outlives == otp # Absent => left[otp.code] <= ttl \/ ttl = 0 \/ otp.code \in cut

Counting(q) == q.pc \in {"incrTtl", "incrSet"}

(* What the request knows of Redis: that it has no code, that it has       *)
(* another one than was typed, or the one that is being counted.  An       *)
(* attempt is counted in Redis or on its way there.                        *)
Counts(q) ==
    /\ q.pc = "setOtp" => otp = Absent
    /\ q.pc = "delete" =>
          charged[q.code] < MaxAttempts /\ otp.code \in {q.code, NoCode}
    /\ q.pc \in {"incrGet", "incrTtl", "incrSet", "row"} =>
          otp = Absent \/ otp.code # q.code
    /\ Counting(q) =>
          /\ \/ otp.code = q.seen
             \/ otp = Absent /\ (left[q.seen] = 0 \/ q.seen \in cut)
          /\ charged[q.seen] <= More(q.attempts)
          /\ q.seen # q.code
    /\ ~Counting(q) => otp = Absent \/ charged[otp.code] <= otp.attempts

Enforced == OutOfReach /\ Outlives /\ \A r \in Requests : Counts(req[r])

(* Every command is carried out, and a request that counts gets to do so.  *)
Counted == Faults \cap {"get", "set", "abort"} = {}

LEMMA EnforcedInit == Init => Enforced
  BY DEF Init, Enforced, OutOfReach, Outlives, Counts, Counting, Idle

LEMMA EnforcedAlone ==
  ASSUME OneRequest, NEW r \in Requests, OutOfReach', Outlives', Counts(req[r])'
  PROVE  Enforced'
  BY DEF OneRequest, Enforced, Counts, Counting

LEMMA EnforcedKept ==
  ASSUME OneRequest, Enforced, NEW r \in Requests,
         UNCHANGED <<redisVars, left, charged, cut>>, Counts(req[r])'
  PROVE  Enforced'
  <1>1. OutOfReach' /\ Outlives'
    BY DEF Enforced, OutOfReach, Outlives, redisVars
  <1> QED BY <1>1, EnforcedAlone

LEMMA EnforcedGettingCode ==
  ASSUME OneRequest, Counted, IType, Enforced, NEW r \in Requests, GettingCode(r)
  PROVE  Enforced'
  <1> USE DEF userVars, redisVars, rowVars, histVars
  <1>1. req \in [Requests -> Request] /\ Counts(req[r])
    BY DEF IType, TypeOK, Enforced
  <1>2. CASE \/ RegisterHandler(r) \/ InsertUser(r) \/ AddRole(r)
             \/ RequestNewOTPHandler(r) \/ GetOTP(r) \/ InsertRow(r) \/ SendOTP(r)
             \/ GenerateRegisterToken(r) \/ Answer(r)
    <2>1. /\ ~Counting(req[r])
          /\ req'[r].pc \in {"idle", "insertUser", "role", "getOtp", "setOtp", "send",
                             "token", "answer"}
      BY <1>1, <1>2 DEF RegisterHandler, InsertUser, AddRole, RequestNewOTPHandler,
         GetOTP, InsertRow, SendOTP, GenerateRegisterToken, Answer, Arrive, Goto,
         Leave, Idle, Request, At, Counting
    <2>2. UNCHANGED <<redisVars, left, charged, cut>>
      BY <1>2 DEF RegisterHandler, InsertUser, AddRole, RequestNewOTPHandler, GetOTP,
         InsertRow, SendOTP, GenerateRegisterToken, Answer
    <2>3. req'[r].pc = "setOtp" => otp = Absent
      BY <1>1, <1>2 DEF RegisterHandler, InsertUser, AddRole, RequestNewOTPHandler,
         GetOTP, InsertRow, SendOTP, GenerateRegisterToken, Answer, Arrive, Goto,
         Leave, Idle, Request, Fails, Counted
    <2>4. otp = Absent \/ charged[otp.code] <= otp.attempts
      BY <1>1, <2>1 DEF Counts
    <2>5. Counts(req[r])'
      BY <2>1, <2>2, <2>3, <2>4 DEF Counts, Counting
    <2> QED BY <2>2, <2>5, EnforcedKept
  <1>3. CASE SetOTP(r)
    <2>1. PICK c \in Codes :
            /\ otp' = [code |-> c, attempts |-> 0] /\ ttl' = Life
            /\ left' = [left EXCEPT ![c] = Life]
            /\ charged' = [charged EXCEPT ![c] = 0] /\ cut' = cut \ {c}
            /\ req' = [req EXCEPT ![r].code = c, ![r].pc = "insertRow"]
      BY <1>3 DEF SetOTP, Fails, Counted
    <2>2. /\ otp'.code = c /\ otp'.attempts = 0
          /\ left'[c] = Life /\ charged'[c] = 0
      BY <2>1 DEF IType, TypeOK
    <2>3. Outlives'
      BY <2>1, <2>2, OtpAssumption DEF Outlives
    <2>4. ASSUME NEW d \in Codes, otp'.code # d, left'[d] > 0
          PROVE  charged'[d] < MaxAttempts \/ d \in cut'
      <3>1. d # c /\ left'[d] = left[d] /\ charged'[d] = charged[d]
        BY <2>1, <2>2, <2>4 DEF IType, TypeOK
      <3>2. otp.code # d
        BY <1>1, <1>3 DEF SetOTP, At, Counts, Absent, NoCode, Codes
      <3> QED BY <2>1, <2>4, <3>1, <3>2 DEF Enforced, OutOfReach
    <2>5. req'[r].pc = "insertRow"
      BY <1>1, <2>1 DEF Request
    <2>6. Counts(req[r])'
      BY <2>2, <2>5 DEF Counts, Counting
    <2> QED BY <2>3, <2>4, <2>6, EnforcedAlone DEF OutOfReach
  <1> QED
    BY <1>2, <1>3 DEF GettingCode

(* A right code in Redis is accepted as long as its count allows, and no   *)
(* other code is accepted through Redis.                                   *)
LEMMA CheckedCode ==
  ASSUME IType, Enforced, NEW r \in Requests, CheckOTP(r), req'[r].pc = "delete"
  PROVE  /\ otp # Absent /\ otp.code = req[r].code /\ req[r].code \in Codes
         /\ charged[req[r].code] < MaxAttempts
  <1>1. req \in [Requests -> Request] /\ Counts(req[r]) /\ ~Counting(req[r])
    BY DEF IType, TypeOK, Enforced, CheckOTP, At, Counting
  <1>2. otp # Absent /\ otp.code = req[r].code /\ otp.attempts < MaxAttempts
    BY <1>1 DEF CheckOTP, Goto, Leave, Idle, Request
  <1>3. charged[otp.code] <= otp.attempts
    BY <1>1, <1>2 DEF Counts
  <1>4. /\ otp.code \in Codes /\ otp.attempts \in Nat
        /\ charged[otp.code] \in Nat
    BY <1>2, PresentKey DEF IType, TypeOK, Attempts
  <1> QED BY <1>2, <1>3, <1>4, OtpAssumption

LEMMA EnforcedVerifying ==
  ASSUME OneRequest, Counted, IType, Enforced, NEW r \in Requests, Verifying(r)
  PROVE  Enforced'
  <1> USE DEF userVars, redisVars, rowVars, histVars
  <1>1. /\ req \in [Requests -> Request] /\ Counts(req[r])
        /\ charged \in [Codes -> Attempts] /\ left \in [Codes -> Ticks]
    BY DEF IType, TypeOK, Enforced
  <1>2. CASE \/ \E c \in Codes \cup {NoCode} : VerifyOTPHandler(r, c)
             \/ CheckRow(r) \/ MarkUsed(r) \/ Activate(r)
    <2>1. /\ ~Counting(req[r])
          /\ req'[r].pc \in {"check", "idle", "mark", "activate"}
      BY <1>1, <1>2 DEF VerifyOTPHandler, CheckRow, MarkUsed, Activate, Arrive, Goto,
         Leave, Idle, Request, At, Counting
    <2>2. UNCHANGED <<redisVars, left, charged, cut>>
      BY <1>2 DEF VerifyOTPHandler, CheckRow, MarkUsed, Activate
    <2>3. Counts(req[r])'
      BY <1>1, <2>1, <2>2 DEF Counts, Counting
    <2> QED BY <2>2, <2>3, EnforcedKept
  <1>3. CASE CheckOTP(r)
    <2>1. /\ ~Counting(req[r])
          /\ req'[r].pc \in {"delete", "idle", "incrGet", "row"}
          /\ req'[r].pc # "idle" => req'[r].code = req[r].code
      BY <1>1, <1>3 DEF CheckOTP, Goto, Leave, Idle, Request, At, Counting
    <2>2. UNCHANGED <<redisVars, left, charged, cut>>
      BY <1>3 DEF CheckOTP
    <2>3. req'[r].pc \in {"incrGet", "row"} => otp = Absent \/ otp.code # req[r].code
      BY <1>1, <1>3 DEF CheckOTP, Goto, Leave, Idle, Request, Fails, Counted
    <2>4. req'[r].pc = "delete" =>
            otp.code = req[r].code /\ charged[req[r].code] < MaxAttempts
      BY <1>3, CheckedCode
    <2>5. otp = Absent \/ charged[otp.code] <= otp.attempts
      BY <1>1, <2>1 DEF Counts
    <2>6. Counts(req[r])'
      BY <2>1, <2>2, <2>3, <2>4, <2>5 DEF Counts, Counting
    <2> QED BY <2>2, <2>6, EnforcedKept
  <1>4. CASE DeleteOTP(r)
    <2>1. /\ charged[req[r].code] < MaxAttempts /\ otp.code \in {req[r].code, NoCode}
          /\ otp = Absent \/ charged[otp.code] <= otp.attempts
      BY <1>1, <1>4 DEF DeleteOTP, At, Counts, Counting
    <2>2. req'[r].pc = "activate" /\ UNCHANGED <<left, charged, cut>>
      BY <1>1, <1>4 DEF DeleteOTP, Goto, Request
    <2>3. CASE UNCHANGED redisVars
      <3>1. Counts(req[r])'
        BY <2>1, <2>2, <2>3 DEF Counts, Counting
      <3> QED BY <2>2, <2>3, <3>1, EnforcedKept
    <2>4. CASE otp' = Absent /\ ttl' = 0
      <3>1. ASSUME NEW d \in Codes, left[d] > 0
            PROVE  charged[d] < MaxAttempts \/ d \in cut
        <4>1. CASE d = otp.code
          BY <2>1, <4>1 DEF Codes, NoCode
        <4>2. CASE d # otp.code
          BY <3>1, <4>2 DEF Enforced, OutOfReach
        <4> QED BY <4>1, <4>2
      <3>2. OutOfReach' /\ Outlives'
        BY <2>2, <2>4, <3>1 DEF OutOfReach, Outlives
      <3>3. Counts(req[r])'
        BY <2>2, <2>4 DEF Counts, Counting
      <3> QED BY <3>2, <3>3, EnforcedAlone
    <2> QED BY <1>4, <2>3, <2>4 DEF DeleteOTP
  <1>5. CASE IncrementGet(r)
    <2>1. /\ UNCHANGED <<redisVars, left, cut>>
          /\ req'[r].code = req[r].code
          /\ otp = Absent \/ otp.code # req[r].code
      BY <1>1, <1>5 DEF IncrementGet, At, Goto, Counts, Request
    <2>2. CASE /\ otp # Absent
               /\ req' = [req EXCEPT ![r].seen = otp.code, ![r].attempts = otp.attempts,
                                     ![r].pc = "incrTtl"]
               /\ charged' = [charged EXCEPT ![otp.code] = More(@)]
      <3>1. /\ otp.code \in Codes /\ otp.attempts \in Attempts
            /\ charged[otp.code] \in Attempts
            /\ charged[otp.code] <= otp.attempts
        BY <1>1, <1>5, <2>2, PresentKey DEF IncrementGet, At, Counts, Counting, IType
      <3>2. charged'[otp.code] <= More(otp.attempts)
        BY <1>1, <2>2, <3>1, MoreGrows
      <3>3. /\ req'[r].pc = "incrTtl" /\ req'[r].seen = otp.code
            /\ req'[r].attempts = otp.attempts
        BY <1>1, <2>2 DEF Request
      <3>4. OutOfReach' /\ Outlives'
        BY <1>1, <2>1, <2>2 DEF Enforced, OutOfReach, Outlives
      <3>5. Counts(req[r])'
        BY <2>1, <2>2, <3>2, <3>3 DEF Counts, Counting, More
      <3> QED BY <3>4, <3>5, EnforcedAlone
    <2>3. CASE otp = Absent /\ Goto(r, "row") /\ UNCHANGED charged
      <3>1. req'[r].pc = "row"
        BY <1>1, <2>3 DEF Goto, Request
      <3>2. Counts(req[r])'
        BY <2>1, <2>3, <3>1 DEF Counts, Counting
      <3> QED BY <2>1, <2>3, <3>2, EnforcedKept
    <2> QED BY <1>5, <2>2, <2>3 DEF IncrementGet, Fails, Counted
  <1>6. CASE IncrementTTL(r)
    <2>1. /\ otp = Absent \/ otp.code # req[r].code
          /\ \/ otp.code = req[r].seen
             \/ otp = Absent /\ (left[req[r].seen] = 0 \/ req[r].seen \in cut)
          /\ charged[req[r].seen] <= More(req[r].attempts)
          /\ req[r].seen # req[r].code
      BY <1>1, <1>6 DEF IncrementTTL, At, Counts, Counting
    <2>2. PICK t : req' = [req EXCEPT ![r].ttl = t, ![r].pc = "incrSet"]
      BY <1>6, TTLAnswers DEF IType
    <2>3. /\ req'[r].pc = "incrSet" /\ req'[r].seen = req[r].seen
          /\ req'[r].attempts = req[r].attempts /\ req'[r].code = req[r].code
      BY <1>1, <2>2 DEF Request
    <2>4. UNCHANGED <<redisVars, left, charged, cut>>
      BY <1>6 DEF IncrementTTL
    <2>5. Counts(req[r])'
      BY <2>1, <2>3, <2>4 DEF Counts, Counting, More
    <2> QED BY <2>4, <2>5, EnforcedKept
  <1>7. CASE IncrementSet(r)
    <2>1. /\ otp = Absent \/ otp.code # req[r].code
          /\ \/ otp.code = req[r].seen
             \/ otp = Absent /\ (left[req[r].seen] = 0 \/ req[r].seen \in cut)
          /\ charged[req[r].seen] <= More(req[r].attempts)
          /\ req[r].seen # req[r].code /\ req[r].seen \in Codes
          /\ left[req[r].seen] \in Nat /\ req[r].ttl \in Nat
      BY <1>1, <1>7 DEF IncrementSet, At, Counts, Counting, IType, Shape, WellFormed,
         Request, Ticks
    <2>2. /\ otp' = [code |-> req[r].seen, attempts |-> More(req[r].attempts)]
          /\ ttl' = req[r].ttl /\ UNCHANGED <<left, charged>>
          /\ cut' = IF req[r].ttl \in 1 .. (left[req[r].seen] - 1)
                    THEN cut \cup {req[r].seen} ELSE cut
      BY <1>7 DEF IncrementSet, Fails, Counted
    <2>3. req'[r].pc = "row" /\ req'[r].code = req[r].code
      BY <1>1, <1>7 DEF IncrementSet, Goto, Request
    <2>4. Outlives'
      BY <2>1, <2>2 DEF Outlives
    <2>5. ASSUME NEW d \in Codes, otp'.code # d, left[d] > 0
          PROVE  charged[d] < MaxAttempts \/ d \in cut'
      <3>1. otp.code # d
        BY <2>1, <2>2, <2>5 DEF Absent, NoCode, Codes
      <3> QED BY <2>2, <2>5, <3>1 DEF Enforced, OutOfReach
    <2>6. Counts(req[r])'
      BY <2>1, <2>2, <2>3 DEF Counts, Counting
    <2> QED BY <2>2, <2>4, <2>5, <2>6, EnforcedAlone DEF OutOfReach
  <1> QED
    BY <1>2, <1>3, <1>4, <1>5, <1>6, <1>7 DEF Verifying

(* When the key of a code expires, the code has.                           *)
LEMMA EnforcedTick ==
  ASSUME IType, Enforced, Tick
  PROVE  Enforced'
  <1>1. /\ left \in [Codes -> Ticks] /\ left' = [c \in Codes |->
             IF left[c] > 0 THEN left[c] - 1 ELSE 0]
        /\ ttl \in Nat /\ UNCHANGED <<req, charged, cut>>
    BY DEF IType, TypeOK, Ticks, Tick, histVars
  <1>2. ASSUME NEW c \in Codes
        PROVE  /\ left'[c] \in Nat /\ left'[c] <= left[c]
               /\ left'[c] > 0 => left[c] > 1
               /\ left[c] = 0 => left'[c] = 0
    BY <1>1, OtpAssumption DEF Ticks
  <1>3. otp # Absent => /\ otp.code \in Codes
                        /\ left[otp.code] <= ttl \/ ttl = 0 \/ otp.code \in cut
    BY PresentKey DEF IType, Enforced, Outlives
  <1>4. \/ otp' = otp /\ ttl > 1 /\ ttl' = ttl - 1
        \/ otp' = otp /\ ttl = 0 /\ ttl' = 0
        \/ otp' = Absent /\ ttl = 1
    BY <1>1 DEF Tick
  <1>5. Outlives'
    <2>1. ASSUME otp' # Absent
          PROVE  left'[otp'.code] <= ttl' \/ ttl' = 0 \/ otp'.code \in cut'
      <3>1. otp' = otp /\ otp.code \in Codes
        BY <1>3, <1>4, <2>1
      <3> QED BY <1>1, <1>3, <1>4, <2>1, <3>1, OtpAssumption DEF Ticks
    <2> QED BY <2>1 DEF Outlives
  <1>6. ASSUME NEW c \in Codes, otp'.code # c, left'[c] > 0
        PROVE  charged'[c] < MaxAttempts \/ c \in cut'
    <2>1. left[c] > 1 /\ left[c] \in Nat
      BY <1>1, <1>2, <1>6, OtpAssumption DEF Ticks
    <2>2. otp.code # c \/ c \in cut
      <3>1. CASE otp' = otp
        BY <1>6, <3>1
      <3>2. CASE otp' = Absent /\ ttl = 1
        BY <1>1, <1>3, <2>1, <3>2 DEF Absent, NoCode, Codes
      <3> QED BY <1>4, <3>1, <3>2
    <2> QED BY <1>1, <2>1, <2>2 DEF Enforced, OutOfReach
  <1>7. ASSUME NEW r \in Requests
        PROVE  Counts(req[r])'
    <2>1. Counts(req[r]) /\ req[r] \in Request
      BY DEF Enforced, IType, TypeOK
    <2>2. ASSUME Counting(req[r])
          PROVE  \/ otp'.code = req[r].seen
                 \/ otp' = Absent /\ (left'[req[r].seen] = 0 \/ req[r].seen \in cut)
      <3>1. req[r].seen \in Codes
        BY <2>2 DEF IType, Shape, WellFormed, Counting
      <3>2. CASE otp' = otp
        BY <1>2, <2>1, <2>2, <3>1, <3>2 DEF Counts
      <3>3. CASE otp' = Absent /\ ttl = 1
        <4>1. left[req[r].seen] <= 1 \/ req[r].seen \in cut
          <5>1. CASE otp.code = req[r].seen
            BY <1>1, <1>3, <3>1, <3>3, <5>1, OtpAssumption DEF Absent, NoCode, Codes, Ticks
          <5>2. CASE left[req[r].seen] = 0
            BY <5>2
          <5> QED BY <2>1, <2>2, <5>1, <5>2 DEF Counts
        <4>2. left'[req[r].seen] = 0 \/ req[r].seen \in cut
          BY <1>1, <3>1, <4>1, OtpAssumption DEF Ticks
        <4> QED BY <3>3, <4>2
      <3> QED BY <1>4, <3>2, <3>3
    <2>3. otp'.code \in {otp.code, NoCode} /\ otp' \in {otp, Absent}
      BY <1>4 DEF Absent
    <2> QED BY <1>1, <2>1, <2>2, <2>3 DEF Counts, Counting, More
  <1> QED BY <1>5, <1>6, <1>7 DEF Enforced, OutOfReach

LEMMA EnforcedStep ==
  ASSUME OneRequest, Counted, IType, Enforced, [Next]_vars
  PROVE  Enforced'
  <1>1. ASSUME NEW r \in Requests, GettingCode(r) \/ Verifying(r)
        PROVE  Enforced'
    BY <1>1, EnforcedGettingCode, EnforcedVerifying
  <1>2. ASSUME NEW r \in Requests
        PROVE  ~Abort(r)
    BY DEF Abort, Fails, Counted
  <1>3. CASE UNCHANGED vars
    BY <1>3 DEF vars, Enforced, OutOfReach, Outlives, Counts, Counting, More
  <1> QED
    BY <1>1, <1>2, <1>3, EnforcedTick DEF Next

(* One request at a time whose reads and writes of the code are carried    *)
(* out: a code that has borne MaxAttempts wrong attempts is not accepted,  *)
(* neither through Redis nor, unless its key was cut short, through its    *)
(* row, although the time to live may be read wrong, a deletion fail and a *)
(* code expire under a request.                                            *)
THEOREM AttemptsEnforcedTheorem ==
  ASSUME OneRequest, Counted
  PROVE  Spec => AttemptsEnforced
  <1>1. ASSUME IType, Enforced, [Next]_vars, NEW r \in Requests, Accepting(r)
        PROVE  charged[req[r].code] < MaxAttempts \/ req[r].code \in cut
    <2>1. req \in [Requests -> Request] /\ Counts(req[r])
      BY <1>1 DEF IType, TypeOK, Enforced
    <2>2. CASE CheckOTP(r)
      <3>1. req'[r].pc = "delete"
        BY <1>1, <2>1, <2>2 DEF Accepting, CheckOTP, Goto, Leave, Idle, Request
      <3> QED BY <1>1, <2>2, <3>1, CheckedCode
    <2>3. CASE CheckRow(r)
      <3>1. req[r].code \in Codes /\ left[req[r].code] > 0
        BY <1>1, <2>1, <2>3 DEF Accepting, CheckRow, Leave, Idle, IType, TypeOK
      <3>2. otp.code # req[r].code
        BY <2>1, <2>3, <3>1 DEF CheckRow, At, Counts, Absent, NoCode, Codes
      <3> QED BY <1>1, <3>1, <3>2 DEF Enforced, OutOfReach
    <2> QED BY <1>1, <2>2, <2>3, AcceptingStep
  <1>2. IType /\ Enforced /\ [Next]_vars => (IType /\ Enforced)'
    BY TypeStep, EnforcedStep
  <1>3. IType /\ Enforced /\ [Next]_vars =>
          [\A r \in Requests : Accepting(r) =>
             charged[req[r].code] < MaxAttempts \/ req[r].code \in cut]_vars
    BY <1>1
  <1> QED
    BY InitType, EnforcedInit, <1>2, <1>3, PTL DEF Spec, AttemptsEnforced

=============================================================================
