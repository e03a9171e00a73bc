---------------------------- MODULE SettingsProofs ----------------------------
(***************************************************************************)
(* The settings of MCSessionsSettings meet what the theorems about         *)
(* Sessions ask for, so that what TLC checks of each follows from them.    *)
(***************************************************************************)
EXTENDS MCSessionsSettings, TLAPS

(* The values of the constants are values Sessions admits.                 *)
LEMMA SerialValues ==
  /\ {anna} \subseteq {anna, staff} /\ NoUser \notin {anna, staff}
  /\ 2 \in Nat /\ TRUE \in BOOLEAN
  /\ {"revokeOld", "setNew", "getSession", "abort"} \subseteq Serial!FaultKinds
  BY SettingsAssumption DEF Serial!FaultKinds

LEMMA ConcurrentValues ==
  /\ {anna} \subseteq {anna} /\ NoUser \notin {anna}
  /\ 2 \in Nat /\ TRUE \in BOOLEAN
  /\ {"getOld", "revokeOld", "delOld", "setNew", "getSession", "clearLookup",
      "clearDel", "clearRow", "abort"} \subseteq Concurrent!FaultKinds
  BY SettingsAssumption DEF Concurrent!FaultKinds

LEMMA WithoutRedisValues ==
  /\ {} \subseteq {staff} /\ NoUser \notin {staff}
  /\ 2 \in Nat /\ FALSE \in BOOLEAN
  /\ {"getOld", "revokeOld", "abort"} \subseteq WithoutRedis!FaultKinds
  BY SettingsAssumption DEF WithoutRedis!FaultKinds

-----------------------------------------------------------------------------
(* A behaviour stays in the setting it starts in, and is one of that       *)
(* instance of Sessions.                                                   *)
LEMMA StaysSerial ==
  Spec /\ setting = "serial" => [](setting = "serial") /\ Serial!Spec
  <1>1. Init /\ setting = "serial" => Serial!Init
    BY DEF Init
  <1>2. setting = "serial" /\ [Next]_vars
          => (setting = "serial")' /\ [Serial!Next]_(Serial!vars)
    BY DEF Next, vars, Serial!vars
  <1> QED BY <1>1, <1>2, PTL DEF Spec, Serial!Spec

LEMMA StaysConcurrent ==
  Spec /\ setting = "concurrent" => [](setting = "concurrent") /\ Concurrent!Spec
  <1>1. Init /\ setting = "concurrent" => Concurrent!Init
    BY DEF Init
  <1>2. setting = "concurrent" /\ [Next]_vars
          => (setting = "concurrent")' /\ [Concurrent!Next]_(Concurrent!vars)
    BY DEF Next, vars, Concurrent!vars
  <1> QED BY <1>1, <1>2, PTL DEF Spec, Concurrent!Spec

LEMMA StaysWithoutRedis ==
  Spec /\ setting = "withoutRedis" => [](setting = "withoutRedis") /\ WithoutRedis!Spec
  <1>1. Init /\ setting = "withoutRedis" => WithoutRedis!Init
    BY DEF Init
  <1>2. setting = "withoutRedis" /\ [Next]_vars
          => (setting = "withoutRedis")' /\ [WithoutRedis!Next]_(WithoutRedis!vars)
    BY DEF Next, vars, WithoutRedis!vars
  <1> QED BY <1>1, <1>2, PTL DEF Spec, WithoutRedis!Spec

(* There is no other setting.                                              *)
LEMMA SomeSetting ==
  Spec => setting = "serial" \/ setting = "concurrent" \/ setting = "withoutRedis"
  <1>1. Init => setting = "serial" \/ setting = "concurrent" \/ setting = "withoutRedis"
    BY DEF Init
  <1> QED BY <1>1, PTL DEF Spec

-----------------------------------------------------------------------------
(* A logged out token is never admitted again, in any setting.             *)
THEOREM LogoutInSettings == Spec => []LogoutIsFinal
  <1>1. setting = "serial" /\ Serial!LogoutIsFinal => LogoutIsFinal
    BY DEF LogoutIsFinal
  <1>2. setting = "concurrent" /\ Concurrent!LogoutIsFinal => LogoutIsFinal
    BY DEF LogoutIsFinal
  <1>3. setting = "withoutRedis" /\ WithoutRedis!LogoutIsFinal => LogoutIsFinal
    BY DEF LogoutIsFinal
  <1>4. Serial!Spec => []Serial!LogoutIsFinal
    BY SerialValues, Serial!LogoutTheorem
  <1>5. Concurrent!Spec => []Concurrent!LogoutIsFinal
    BY ConcurrentValues, Concurrent!LogoutTheorem
  <1>6. WithoutRedis!Spec => []WithoutRedis!LogoutIsFinal
    BY WithoutRedisValues, WithoutRedis!LogoutTheorem
  <1> QED
    BY <1>1, <1>2, <1>3, <1>4, <1>5, <1>6, StaysSerial, StaysConcurrent,
       StaysWithoutRedis, SomeSetting, PTL

(* Nobody is admitted on a token that was no session when the request came *)
(* to JWTProtected, in any setting.                                        *)
THEOREM AdmissionInSettings == Spec => []AdmittedWasLive
  <1>1. setting = "serial" /\ Serial!AdmittedWasLive => AdmittedWasLive
    BY DEF AdmittedWasLive
  <1>2. setting = "concurrent" /\ Concurrent!AdmittedWasLive => AdmittedWasLive
    BY DEF AdmittedWasLive
  <1>3. setting = "withoutRedis" /\ WithoutRedis!AdmittedWasLive => AdmittedWasLive
    BY DEF AdmittedWasLive
  <1>4. Serial!Spec => []Serial!AdmittedWasLive
    BY SerialValues, Serial!AdmissionTheorem
  <1>5. Concurrent!Spec => []Concurrent!AdmittedWasLive
    BY ConcurrentValues, Concurrent!AdmissionTheorem
  <1>6. WithoutRedis!Spec => []WithoutRedis!AdmittedWasLive
    BY WithoutRedisValues, WithoutRedis!AdmissionTheorem
  <1> QED
    BY <1>1, <1>2, <1>3, <1>4, <1>5, <1>6, StaysSerial, StaysConcurrent,
       StaysWithoutRedis, SomeSetting, PTL

-----------------------------------------------------------------------------
(* Where the row decides.                                                  *)

(* The serial setting serves one request at a time, and nothing fails in   *)
(* it that leaves a key behind in Redis.                                   *)
LEMMA SerialOneAtATime == Serial!OneAtATime
  BY DEF Serial!OneAtATime

(* What was ended stays ended, one request at a time or without Redis.     *)
THEOREM EndedInSettings == Spec => []EndedNeverLive
  <1>1. setting = "serial" /\ Serial!EndedNeverLive => EndedNeverLive
    BY DEF EndedNeverLive
  <1>2. setting = "concurrent" => EndedNeverLive
    BY DEF EndedNeverLive
  <1>3. setting = "withoutRedis" /\ WithoutRedis!EndedNeverLive => EndedNeverLive
    BY DEF EndedNeverLive
  <1>4. Serial!Spec => []Serial!EndedNeverLive
    BY SerialValues, SerialOneAtATime, Serial!EndedOneAtATime
  <1>5. WithoutRedis!Spec => []WithoutRedis!EndedNeverLive
    BY WithoutRedisValues, WithoutRedis!EndedWithoutRedis
  <1> QED
    BY <1>1, <1>2, <1>3, <1>4, <1>5, StaysSerial, StaysConcurrent,
       StaysWithoutRedis, SomeSetting, PTL

(* One request at a time, no session is lost.                              *)
THEOREM KeptInSettings == Spec => []SessionKept
  <1>1. setting = "serial" /\ Serial!SessionKept => SessionKept
    BY DEF SessionKept
  <1>2. setting = "concurrent" \/ setting = "withoutRedis" => SessionKept
    BY DEF SessionKept
  <1>3. Serial!Spec => []Serial!SessionKept
    BY SerialValues, SerialOneAtATime, Serial!KeptOneAtATime
  <1> QED
    BY <1>1, <1>2, <1>3, StaysSerial, StaysConcurrent, StaysWithoutRedis,
       SomeSetting, PTL

-----------------------------------------------------------------------------
(* The refinement.  The sessions of a setting are those of its instance.   *)

LEMMA SerialSteps ==
  ASSUME setting = "serial", (setting = "serial")',
         [Serial!Abstract!SpecNext]_(Serial!Abstract!specVars)
  PROVE  [OneSession!SpecNext]_(OneSession!specVars)
  BY DEF Serial!Abstract!SpecNext, Serial!Abstract!specVars, Serial!Abstract!Open,
         Serial!Abstract!Close, Serial!Abstract!Waste, Serial!Abstract!SessionsOf,
         OneSession!SpecNext, OneSession!specVars, OneSession!Open,
         OneSession!Close, OneSession!Waste, OneSession!SessionsOf, Serial!Jti

LEMMA WithoutRedisSteps ==
  ASSUME setting = "withoutRedis", (setting = "withoutRedis")',
         [WithoutRedis!Abstract!SpecNext]_(WithoutRedis!Abstract!specVars)
  PROVE  [OneSession!SpecNext]_(OneSession!specVars)
  BY DEF WithoutRedis!Abstract!SpecNext, WithoutRedis!Abstract!specVars,
         WithoutRedis!Abstract!Open, WithoutRedis!Abstract!Close,
         WithoutRedis!Abstract!Waste, WithoutRedis!Abstract!SessionsOf,
         OneSession!SpecNext, OneSession!specVars, OneSession!Open,
         OneSession!Close, OneSession!Waste, OneSession!SessionsOf, WithoutRedis!Jti

(* Of the concurrent setting nothing is claimed, so nothing is ever open.  *)
LEMMA ConcurrentSteps ==
  ASSUME setting = "concurrent", (setting = "concurrent")'
  PROVE  [OneSession!SpecNext]_(OneSession!specVars)
  BY DEF OneSession!specVars

LEMMA SettingsOpenNothing ==
  /\ setting = "serial" /\ Serial!Abstract!SpecInit => OneSession!SpecInit
  /\ setting = "concurrent" => OneSession!SpecInit
  /\ setting = "withoutRedis" /\ WithoutRedis!Abstract!SpecInit => OneSession!SpecInit
  BY DEF Serial!Abstract!SpecInit, WithoutRedis!Abstract!SpecInit, OneSession!SpecInit

(* One request at a time, and without Redis for any number of them, the    *)
(* row, the key and the revocations together behave as one session per     *)
(* user that is opened and closed in one go.                               *)
THEOREM RefinementInSettings == Spec => ImplementsSingleSession
  <1>1. Serial!Spec => Serial!ImplementsSingleSession
    BY SerialValues, SerialOneAtATime, Serial!RefinementOneAtATime
  <1>2. WithoutRedis!Spec => WithoutRedis!ImplementsSingleSession
    BY WithoutRedisValues, WithoutRedis!RefinementWithoutRedis
  <1>3. Spec /\ setting = "serial" => OneSession!SingleSessionSpec
    <2>1. /\ setting = "serial" /\ (setting = "serial")'
          /\ [Serial!Abstract!SpecNext]_(Serial!Abstract!specVars)
          => [OneSession!SpecNext]_(OneSession!specVars)
      BY SerialSteps
    <2> QED
      BY <1>1, <2>1, SettingsOpenNothing, StaysSerial, PTL
         DEF Serial!ImplementsSingleSession, Serial!Abstract!SingleSessionSpec,
             OneSession!SingleSessionSpec
  <1>4. Spec /\ setting = "withoutRedis" => OneSession!SingleSessionSpec
    <2>1. /\ setting = "withoutRedis" /\ (setting = "withoutRedis")'
          /\ [WithoutRedis!Abstract!SpecNext]_(WithoutRedis!Abstract!specVars)
          => [OneSession!SpecNext]_(OneSession!specVars)
      BY WithoutRedisSteps
    <2> QED
      BY <1>2, <2>1, SettingsOpenNothing, StaysWithoutRedis, PTL
         DEF WithoutRedis!ImplementsSingleSession,
             WithoutRedis!Abstract!SingleSessionSpec, OneSession!SingleSessionSpec
  <1>5. Spec /\ setting = "concurrent" => OneSession!SingleSessionSpec
    <2>1. setting = "concurrent" /\ (setting = "concurrent")'
          => [OneSession!SpecNext]_(OneSession!specVars)
      BY ConcurrentSteps
    <2> QED
      BY <2>1, SettingsOpenNothing, StaysConcurrent, PTL
         DEF OneSession!SingleSessionSpec
  <1> QED
    BY <1>3, <1>4, <1>5, SomeSetting, PTL DEF ImplementsSingleSession

=============================================================================
