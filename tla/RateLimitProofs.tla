--------------------------- MODULE RateLimitProofs ---------------------------
(***************************************************************************)
(* What holds of RateLimit for any limit, window, keys and requests.       *)
(***************************************************************************)
EXTENDS RateLimit, FiniteSetTheorems, TLAPS

(* The history of the ticks is not looked at here.                         *)
Counters ==
    /\ count \in [Keys -> Nat]
    /\ granted \in [Keys -> Nat]
    /\ req \in [Requests -> [pc : {"get", "set", "incr"}, key : Keys] \cup {Idle}]

(* No counter is ahead of the requests it let through.                     *)
CountedOnce == \A k \in Keys : count[k] <= granted[k]

(* Requests under a key of SerialKeys come one at a time.                  *)
OneAtATime ==
    \A r, s \in Requests : req[r].key = req[s].key /\ req[r].key \in SerialKeys => r = s

(* Under a key of SerialKeys no request got through uncounted, and one that*)
(* is about to be counted was let through below the limit.                 *)
AllCounted ==
    /\ \A k \in SerialKeys : granted[k] <= count[k] /\ granted[k] <= Max
    /\ \A r \in Requests : req[r].key \in SerialKeys =>
         /\ At(r, "set") => granted[req[r].key] = 0
         /\ At(r, "incr") => granted[req[r].key] < Max

(* Next, one disjunct per action.                                          *)
LEMMA NextCases ==
  ASSUME Next
  PROVE  \/ \E r \in Requests : GetCount(r) \/ SetFirst(r) \/ Increment(r)
         \/ \E r \in Requests, k \in Keys : Arrive(r, k)
         \/ Tick
  BY DEF Next, CheckRateLimit

(* The counters and the requests have their types.                         *)
LEMMA CountersInvariant == Spec => []Counters
  <1> USE RateLimitAssumption DEF Idle, At
  <1>1. Init => Counters
    BY DEF Init, Counters
  <1>2. Counters /\ [Next]_vars => Counters'
    <2> SUFFICES ASSUME Counters, [Next]_vars
                 PROVE  Counters'
      OBVIOUS
    <2> USE DEF Counters
    <2>1. ASSUME NEW r \in Requests, NEW k \in Keys, Arrive(r, k)
          PROVE  Counters'
      BY <2>1 DEF Arrive
    <2>2. ASSUME NEW r \in Requests, GetCount(r)
          PROVE  Counters'
      <3>1. (\E pc \in {"set", "incr"} : Goto(r, pc)) \/ Leave(r)
        BY <2>2 DEF GetCount, LeaveUncounted
      <3>2. req[r] \in [pc : {"get", "set", "incr"}, key : Keys]
        BY <2>2 DEF GetCount
      <3>3. UNCHANGED <<count, granted>>
        BY <2>2 DEF GetCount, LeaveUncounted
      <3> QED BY <3>1, <3>2, <3>3 DEF Goto, Leave
    <2>3. ASSUME NEW r \in Requests, SetFirst(r) \/ Increment(r)
          PROVE  Counters'
      <3>1. req[r].key \in Keys /\ Leave(r)
        BY <2>3 DEF SetFirst, Increment, Grant, LeaveUncounted
      <3>2. count' \in [Keys -> Nat] /\ granted' \in [Keys -> Nat]
        BY <2>3, <3>1 DEF SetFirst, Increment, Grant, LeaveUncounted
      <3> QED BY <3>1, <3>2 DEF Leave
    <2>4. CASE Tick
      BY <2>4 DEF Tick
    <2>5. CASE UNCHANGED vars
      BY <2>5 DEF vars
    <2> QED BY <2>1, <2>2, <2>3, <2>4, <2>5, NextCases
  <1> QED BY <1>1, <1>2, PTL DEF Spec

(* Types for any keys, limit and window; an absent counter has no time to  *)
(* live.                                                                   *)
THEOREM TypeCorrect == Spec => []TypeOK
  <1> USE RateLimitAssumption DEF Ages, NoTTL
  <1>1. Init => TypeOK
    <2> SUFFICES ASSUME Init
                 PROVE  TypeOK
      OBVIOUS
    <2>1. Counters
      BY DEF Init, Counters, Idle
    <2>2. /\ ttl \in [Keys -> 0 .. Window]
          /\ recent \in [SerialKeys -> [Ages -> Nat]]
          /\ \A k \in Keys : count[k] = 0 => ttl[k] = NoTTL
      BY DEF Init
    <2> QED BY <2>1, <2>2 DEF TypeOK, Counters
  <1>2. TypeOK /\ Counters' /\ [Next]_vars => TypeOK'
    <2> SUFFICES ASSUME TypeOK, Counters', [Next]_vars
                 PROVE  TypeOK'
      OBVIOUS
    <2> USE DEF TypeOK, Counters
    <2>1. ASSUME NEW r \in Requests, NEW k \in Keys, Arrive(r, k)
          PROVE  TypeOK'
      BY <2>1 DEF Arrive
    <2>2. ASSUME NEW r \in Requests, GetCount(r)
          PROVE  TypeOK'
      <3>1. UNCHANGED <<count, ttl, granted, recent>>
        BY <2>2 DEF GetCount, LeaveUncounted
      <3> QED BY <3>1
    <2>3. ASSUME NEW r \in Requests, SetFirst(r) \/ Increment(r)
          PROVE  TypeOK'
      <3>1. req[r].key \in Keys
        BY <2>3 DEF SetFirst, Increment, At, Idle
      <3>2. recent' \in [SerialKeys -> [Ages -> Nat]]
        <4>1. CASE recent' = recent
          BY <4>1
        <4>2. CASE Grant(r)
          <5>1. \A k \in SerialKeys : [a \in Ages |-> recent[k][a] + 1] \in [Ages -> Nat]
            OBVIOUS
          <5> QED BY <4>2, <5>1 DEF Grant
        <4> QED BY <2>3, <4>1, <4>2 DEF SetFirst, Increment, LeaveUncounted
      <3>3. ttl' \in [Keys -> 0 .. Window]
        <4>1. ttl' = ttl \/ ttl' = [ttl EXCEPT ![req[r].key] = Window]
          BY <2>3 DEF SetFirst, Increment
        <4>2. Window \in 0 .. Window
          OBVIOUS
        <4> QED BY <4>1, <4>2
      <3>4. \A k \in Keys : count'[k] = 0 => ttl'[k] = NoTTL
        BY <2>3, <3>1 DEF SetFirst, Increment
      <3> QED BY <3>2, <3>3, <3>4
    <2>4. CASE Tick
      <3>1. recent' \in [SerialKeys -> [Ages -> Nat]]
        BY <2>4 DEF Tick
      <3>2. ttl' \in [Keys -> 0 .. Window]
        BY <2>4 DEF Tick
      <3>3. \A k \in Keys : count'[k] = 0 => ttl'[k] = NoTTL
        BY <2>4 DEF Tick
      <3> QED BY <3>1, <3>2, <3>3
    <2>5. CASE UNCHANGED vars
      BY <2>5 DEF vars
    <2> QED BY <2>1, <2>2, <2>3, <2>4, <2>5, NextCases
  <1> QED BY <1>1, <1>2, CountersInvariant, PTL DEF Spec

(* As long as go-redis does not send an increment twice, nobody is refused *)
(* before Max requests were let through, however requests interleave and   *)
(* whichever calls fail.                                                   *)
THEOREM NotRefusedEarlyTheorem ==
  ASSUME "incrRetried" \notin Faults
  PROVE  Spec => []NotRefusedEarly
  <1> USE RateLimitAssumption
  <1>1. Init => CountedOnce
    BY DEF Init, CountedOnce
  <1>2. Counters /\ CountedOnce /\ [Next]_vars => CountedOnce'
    <2> SUFFICES ASSUME Counters, CountedOnce, [Next]_vars
                 PROVE  CountedOnce'
      OBVIOUS
    <2> USE DEF Counters, CountedOnce
    <2>1. ASSUME NEW r \in Requests, SetFirst(r)
          PROVE  CountedOnce'
      <3>1. req[r].key \in Keys
        BY <2>1 DEF SetFirst, At, Idle
      <3> QED BY <2>1, <3>1 DEF SetFirst, Grant, LeaveUncounted
    <2>2. ASSUME NEW r \in Requests, Increment(r)
          PROVE  CountedOnce'
      <3>1. req[r].key \in Keys
        BY <2>2 DEF Increment, At, Idle
      <3> QED BY <2>2, <3>1 DEF Increment, Grant, LeaveUncounted, Fails
    <2>3. CASE \/ \E r \in Requests : GetCount(r)
               \/ \E r \in Requests, k \in Keys : Arrive(r, k)
      BY <2>3 DEF GetCount, Arrive, LeaveUncounted
    <2>4. CASE Tick
      BY <2>4 DEF Tick
    <2>5. CASE UNCHANGED vars
      BY <2>5 DEF vars
    <2> QED BY <2>1, <2>2, <2>3, <2>4, <2>5, NextCases
  <1>3. Counters /\ CountedOnce => NotRefusedEarly
    BY DEF Counters, CountedOnce, NotRefusedEarly
  <1> QED BY <1>1, <1>2, <1>3, CountersInvariant, PTL DEF Spec

(* Whatever a step does to a request, it stays under its key, leaves, or   *)
(* arrives where no other request of a key of SerialKeys is.               *)
LEMMA OneAtATimeStep ==
  ASSUME Counters, OneAtATime, [Next]_vars
  PROVE  OneAtATime'
  <1> USE RateLimitAssumption DEF OneAtATime, Counters
  <1>1. ASSUME NEW r \in Requests, NEW k \in Keys, Arrive(r, k)
        PROVE  OneAtATime'
    BY <1>1 DEF Arrive
  <1>2. ASSUME NEW r \in Requests, GetCount(r) \/ SetFirst(r) \/ Increment(r)
        PROVE  OneAtATime'
    <2>1. (\E pc \in {"set", "incr"} : Goto(r, pc)) \/ Leave(r)
      BY <1>2 DEF GetCount, SetFirst, Increment, Grant, LeaveUncounted
    <2>2. req[r] \in [pc : {"get", "set", "incr"}, key : Keys]
      BY <1>2 DEF GetCount, SetFirst, Increment, At, Idle
    <2> QED BY <2>1, <2>2 DEF Goto, Leave, Idle
  <1>3. CASE UNCHANGED req
    BY <1>3
  <1> QED BY <1>1, <1>2, <1>3, NextCases DEF Tick, vars

(* One at a time, a request finds the count it read still there or expired.*)
LEMMA SerialInvariant == Spec => [](OneAtATime /\ AllCounted)
  <1> USE RateLimitAssumption
  <1>1. Init => OneAtATime /\ AllCounted
    BY DEF Init, OneAtATime, AllCounted, At, Idle
  <1>2. Counters /\ OneAtATime /\ AllCounted /\ [Next]_vars => OneAtATime' /\ AllCounted'
    <2> SUFFICES ASSUME Counters, OneAtATime, AllCounted, [Next]_vars
                 PROVE  AllCounted'
      BY OneAtATimeStep
    <2> USE DEF Counters, AllCounted
    <2>1. ASSUME NEW r \in Requests, SetFirst(r)
          PROVE  AllCounted'
      <3>1. /\ req[r].key \in Keys
            /\ req[r].key \in SerialKeys => granted[req[r].key] = 0
        BY <2>1 DEF SetFirst, At, Idle
      <3>2. \A s \in Requests : IF s = r THEN req'[s] = Idle ELSE req'[s] = req[s]
        BY <2>1 DEF SetFirst, Grant, LeaveUncounted, Leave
      <3>3. \A k \in SerialKeys : granted'[k] <= count'[k] /\ granted'[k] <= Max
        BY <2>1, <3>1 DEF SetFirst, Grant, LeaveUncounted
      <3>4. \A k \in Keys : k # req[r].key => granted'[k] = granted[k]
        BY <2>1, <3>1 DEF SetFirst, Grant, LeaveUncounted
      <3> QED BY <3>1, <3>2, <3>3, <3>4 DEF At, Idle, OneAtATime
    <2>2. ASSUME NEW r \in Requests, Increment(r)
          PROVE  AllCounted'
      <3>1. /\ req[r].key \in Keys
            /\ req[r].key \in SerialKeys => granted[req[r].key] < Max
        BY <2>2 DEF Increment, At, Idle
      <3>2. \A s \in Requests : IF s = r THEN req'[s] = Idle ELSE req'[s] = req[s]
        BY <2>2 DEF Increment, Grant, LeaveUncounted, Leave
      <3>3. \A k \in SerialKeys : granted'[k] <= count'[k] /\ granted'[k] <= Max
        BY <2>2, <3>1 DEF Increment, Grant, LeaveUncounted
      <3>4. \A k \in Keys : k # req[r].key => granted'[k] = granted[k]
        BY <2>2, <3>1 DEF Increment, Grant, LeaveUncounted
      <3> QED BY <3>1, <3>2, <3>3, <3>4 DEF At, Idle, OneAtATime
    <2>3. ASSUME NEW r \in Requests, GetCount(r)
          PROVE  AllCounted'
      <3>1. /\ req[r] \in [pc : {"get", "set", "incr"}, key : Keys]
            /\ UNCHANGED <<count, granted>>
        BY <2>3 DEF GetCount, At, Idle, LeaveUncounted
      <3>2. \/ count[req[r].key] = 0 /\ Goto(r, "set")
            \/ count[req[r].key] < Max /\ Goto(r, "incr")
            \/ Leave(r)
        BY <2>3, <3>1 DEF GetCount, LeaveUncounted
      <3> QED BY <3>1, <3>2 DEF Goto, Leave, At, Idle
    <2>4. ASSUME NEW r \in Requests, NEW k \in Keys, Arrive(r, k)
          PROVE  AllCounted'
      BY <2>4 DEF Arrive, At
    <2>5. CASE Tick
      BY <2>5 DEF Tick, At
    <2>6. CASE UNCHANGED vars
      BY <2>6 DEF vars, At
    <2> QED BY <2>1, <2>2, <2>3, <2>4, <2>5, <2>6, NextCases
  <1> QED BY <1>1, <1>2, CountersInvariant, PTL DEF Spec

(* However requests under other keys interleave, a counter lets no more    *)
(* than Max requests through in its life that come one at a time, whichever*)
(* calls fail and however slow the requests are.                           *)
THEOREM WithinLimitTheorem == Spec => []WithinLimit
  <1>1. AllCounted => WithinLimit
    BY DEF AllCounted, WithinLimit
  <1> QED BY <1>1, SerialInvariant, PTL

-----------------------------------------------------------------------------
(* What gets through in any Window ticks.                                  *)

(* The ticks since the counter was set.                                    *)
Age(k) == Window - ttl[k]

(* A counter is set anew only once the last one has run for its Window, so *)
(* the last Window ticks hold the end of at most one other life, without   *)
(* the request that began it; and of a life that began before the last a   *)
(* ticks they hold all but that request.                                   *)
Spans(k) ==
    \A a \in Ages :
        IF count[k] = 0
        THEN recent[k][a] <= Max - 1
        ELSE /\ granted[k] >= 1 /\ ttl[k] >= 1
             /\ IF a < Age(k) THEN recent[k][a] <= granted[k] - 1
                              ELSE recent[k][a] <= granted[k] + Max - 1

Spread ==
    /\ \A k \in SerialKeys : Spans(k)
    /\ \A r \in Requests : req[r].key \in SerialKeys =>
         /\ At(r, "set")  => count[req[r].key] = 0
         /\ At(r, "incr") => count[req[r].key] > 0

(* A step that changes no counter but that of k.                           *)
CountsOnly(k) ==
    \A l \in SerialKeys \ {k} :
        /\ count'[l] = count[l] /\ granted'[l] = granted[l]
        /\ ttl'[l] = ttl[l] /\ recent'[l] = recent[l]

LEMMA SpreadOfOthers ==
  ASSUME TypeOK, OneAtATime, Spread, NEW r \in Requests, NEW k \in Keys,
         req[r].key = k, CountsOnly(k), Leave(r), k \in SerialKeys => Spans(k)'
  PROVE  Spread'
  <1>1. ASSUME NEW l \in SerialKeys
        PROVE  Spans(l)'
    <2>1. CASE l = k
      BY <2>1
    <2>2. CASE l # k
      BY <2>2 DEF Spread, CountsOnly, Spans, Age
    <2> QED BY <2>1, <2>2
  <1>2. ASSUME NEW s \in Requests, req'[s].key \in SerialKeys
        PROVE  /\ At(s, "set")'  => count'[req'[s].key] = 0
               /\ At(s, "incr")' => count'[req'[s].key] > 0
    <2>1. s # r /\ req'[s] = req[s]
      BY <1>2, RateLimitAssumption DEF Leave, Idle, TypeOK
    <2>2. req[s].key # req[r].key
      BY <1>2, <2>1 DEF OneAtATime
    <2> QED BY <1>2, <2>1, <2>2 DEF Spread, CountsOnly, At
  <1> QED BY <1>1, <1>2 DEF Spread

LEMMA SpreadStep ==
  ASSUME TypeOK, Counters', OneAtATime, AllCounted, Spread, "slow" \notin Faults,
         [Next]_vars
  PROVE  Spread'
  <1> USE RateLimitAssumption DEF Ages
  <1>1. ASSUME NEW r \in Requests, SetFirst(r)
        PROVE  Spread'
    <2>1. PICK k \in Keys : k = req[r].key
      BY <1>1 DEF SetFirst, TypeOK, At, Idle
    <2>2. /\ Leave(r)
          /\ \/ UNCHANGED <<count, ttl, granted, recent>>
             \/ /\ count' = [count EXCEPT ![k] = 1]
                /\ ttl' = [ttl EXCEPT ![k] = Window]
                /\ Grant(r)
      BY <1>1, <2>1 DEF SetFirst, Grant, LeaveUncounted
    <2>3. CountsOnly(k)
      BY <2>1, <2>2 DEF Grant, CountsOnly, TypeOK
    <2>4. ASSUME k \in SerialKeys, NEW a \in Ages
          PROVE  IF count'[k] = 0
                 THEN recent'[k][a] <= Max - 1
                 ELSE /\ granted'[k] >= 1 /\ ttl'[k] >= 1
                      /\ IF a < Window - ttl'[k]
                         THEN recent'[k][a] <= granted'[k] - 1
                         ELSE recent'[k][a] <= granted'[k] + Max - 1
      <3>1. /\ count[k] = 0 /\ granted[k] = 0
            /\ recent[k][a] <= Max - 1 /\ recent[k][a] \in Nat
        BY <1>1, <2>1, <2>4 DEF SetFirst, Spread, Spans, AllCounted, TypeOK
      <3>2. CASE UNCHANGED <<count, ttl, granted, recent>>
        BY <3>1, <3>2
      <3>3. CASE /\ count' = [count EXCEPT ![k] = 1]
                 /\ ttl' = [ttl EXCEPT ![k] = Window]
                 /\ Grant(r)
        <4>1. count'[k] = 1 /\ ttl'[k] = Window
          BY <3>3 DEF TypeOK
        <4>2. granted'[k] = 1 /\ recent'[k][a] = recent[k][a] + 1
          BY <2>1, <2>4, <3>1, <3>3 DEF Grant, TypeOK
        <4> QED BY <3>1, <4>1, <4>2
      <3> QED BY <2>2, <3>2, <3>3
    <2>5. k \in SerialKeys => Spans(k)'
      BY <2>4 DEF Spans, Age
    <2> QED BY <2>1, <2>2, <2>3, <2>5, SpreadOfOthers
  <1>2. ASSUME NEW r \in Requests, Increment(r)
        PROVE  Spread'
    <2>1. PICK k \in Keys : k = req[r].key
      BY <1>2 DEF Increment, TypeOK, At, Idle
    <2>2. /\ Leave(r) /\ ttl' = ttl
          /\ \/ UNCHANGED <<count, granted, recent>>
             \/ /\ \E n \in {1, 2} : count' = [count EXCEPT ![k] = @ + n]
                /\ Grant(r)
      BY <1>2, <2>1 DEF Increment, Grant, LeaveUncounted
    <2>3. CountsOnly(k)
      BY <2>1, <2>2 DEF Grant, CountsOnly, TypeOK
    <2>4. ASSUME k \in SerialKeys, NEW a \in Ages
          PROVE  IF count'[k] = 0
                 THEN recent'[k][a] <= Max - 1
                 ELSE /\ granted'[k] >= 1 /\ ttl'[k] >= 1
                      /\ IF a < Window - ttl'[k]
                         THEN recent'[k][a] <= granted'[k] - 1
                         ELSE recent'[k][a] <= granted'[k] + Max - 1
      <3>1. /\ count[k] > 0 /\ count[k] \in Nat /\ ttl[k] \in Nat
            /\ recent[k][a] \in Nat /\ granted[k] \in Nat
        BY <1>2, <2>1, <2>4 DEF Increment, Spread, TypeOK
      <3>2. /\ granted[k] >= 1 /\ ttl[k] >= 1
            /\ IF a < Window - ttl[k] THEN recent[k][a] <= granted[k] - 1
                                      ELSE recent[k][a] <= granted[k] + Max - 1
        BY <2>4, <3>1 DEF Spread, Spans, Age
      <3>3. CASE UNCHANGED <<count, granted, recent>>
        BY <2>2, <3>1, <3>2, <3>3
      <3>4. CASE Grant(r) /\ \E n \in {1, 2} : count' = [count EXCEPT ![k] = @ + n]
        <4>1. granted'[k] = granted[k] + 1 /\ recent'[k][a] = recent[k][a] + 1
          BY <2>1, <2>4, <3>4 DEF Grant, TypeOK
        <4>2. count'[k] # 0
          BY <3>1, <3>4 DEF TypeOK
        <4> QED BY <2>2, <3>1, <3>2, <4>1, <4>2
      <3> QED BY <2>2, <3>3, <3>4
    <2>5. k \in SerialKeys => Spans(k)'
      BY <2>4 DEF Spans, Age
    <2> QED BY <2>1, <2>2, <2>3, <2>5, SpreadOfOthers
  <1>3. ASSUME NEW r \in Requests, GetCount(r)
        PROVE  Spread'
    <2>1. /\ req[r] \in [pc : {"get", "set", "incr"}, key : Keys]
          /\ UNCHANGED <<count, ttl, granted, recent>>
      BY <1>3 DEF GetCount, At, Idle, LeaveUncounted, TypeOK
    <2>2. \/ count[req[r].key] = 0 /\ Goto(r, "set")
          \/ count[req[r].key] > 0 /\ Goto(r, "incr")
          \/ Leave(r)
      BY <1>3, <2>1 DEF GetCount, LeaveUncounted, TypeOK
    <2>3. \A k \in SerialKeys : Spans(k)'
      BY <2>1 DEF Spread, Spans, Age
    <2>4. /\ \A s \in Requests \ {r} : req'[s] = req[s]
          /\ \/ req'[r].key = req[r].key /\ req'[r].pc = "set" /\ count[req[r].key] = 0
             \/ req'[r].key = req[r].key /\ req'[r].pc = "incr" /\ count[req[r].key] > 0
             \/ req'[r] = Idle
      BY <2>1, <2>2 DEF Goto, Leave, TypeOK
    <2>5. \A s \in Requests : req'[s].key \in SerialKeys =>
             /\ At(s, "set")'  => count[req'[s].key] = 0
             /\ At(s, "incr")' => count[req'[s].key] > 0
      BY <2>4 DEF Spread, At, Idle
    <2> QED BY <2>1, <2>3, <2>5 DEF Spread
  <1>4. ASSUME NEW r \in Requests, NEW k \in Keys, Arrive(r, k)
        PROVE  Spread'
    <2>1. /\ UNCHANGED <<count, ttl, granted, recent>>
          /\ req'[r].pc = "get"
          /\ \A s \in Requests \ {r} : req'[s] = req[s]
      BY <1>4 DEF Arrive, TypeOK
    <2> QED BY <2>1 DEF Spread, At, Spans, Age
  <1>5. CASE Tick
    <2>1. ASSUME NEW k \in SerialKeys, NEW a \in Ages
          PROVE  IF count'[k] = 0
                 THEN recent'[k][a] <= Max - 1
                 ELSE /\ granted'[k] >= 1 /\ ttl'[k] >= 1
                      /\ IF a < Window - ttl'[k]
                         THEN recent'[k][a] <= granted'[k] - 1
                         ELSE recent'[k][a] <= granted'[k] + Max - 1
      <3>1. /\ ttl[k] \in 0 .. Window /\ count[k] \in Nat /\ granted[k] \in Nat
            /\ granted[k] <= Max
            /\ a = 0 \/ a - 1 \in Ages
            /\ \A b \in Ages : recent[k][b] \in Nat
        BY DEF TypeOK, AllCounted
      <3>2. recent'[k][a] = IF a = 0 THEN 0 ELSE recent[k][a - 1]
        BY <1>5 DEF Tick
      <3>3. CASE ttl[k] = 1
        <4>1. count'[k] = 0
          BY <1>5, <3>3 DEF Tick
        <4>2. a = 0 \/ recent[k][a - 1] <= Max - 1
          BY <3>1, <3>3 DEF Spread, Spans, Age
        <4> QED BY <3>1, <3>2, <4>1, <4>2
      <3>4. CASE ttl[k] # 1
        <4>1. /\ count'[k] = count[k] /\ granted'[k] = granted[k]
              /\ ttl'[k] = IF ttl[k] = 0 THEN 0 ELSE ttl[k] - 1
          BY <1>5, <3>4 DEF Tick, NoTTL
        <4>2. CASE count[k] = 0
          BY <3>1, <3>2, <4>1, <4>2 DEF Spread, Spans
        <4>3. CASE count[k] # 0
          <5>1. /\ granted[k] >= 1 /\ ttl[k] >= 2
                /\ a # 0 => IF a - 1 < Window - ttl[k]
                            THEN recent[k][a - 1] <= granted[k] - 1
                            ELSE recent[k][a - 1] <= granted[k] + Max - 1
            BY <3>1, <3>4, <4>3 DEF Spread, Spans, Age
          <5> QED BY <3>1, <3>2, <4>1, <4>3, <5>1
        <4> QED BY <4>2, <4>3
      <3> QED BY <3>3, <3>4
    <2>2. ASSUME NEW r \in Requests, req[r].key \in SerialKeys
          PROVE  /\ At(r, "set")  => count'[req[r].key] = 0
                 /\ At(r, "incr") => count'[req[r].key] > 0
      <3>1. At(r, "incr") => ttl[req[r].key] # 1
        BY <1>5 DEF Tick, Fails
      <3> QED BY <1>5, <2>2, <3>1 DEF Tick, Spread
    <2>3. \A k \in SerialKeys : Spans(k)'
      BY <2>1 DEF Spans, Age
    <2> QED BY <1>5, <2>2, <2>3 DEF Tick, Spread, At
  <1>6. CASE UNCHANGED vars
    BY <1>6 DEF vars, Spread, At, Spans, Age
  <1> QED BY <1>1, <1>2, <1>3, <1>4, <1>5, <1>6, NextCases

(* Clients that send one request after the other get fewer than two limits *)
(* through in any stretch of Window ticks, wherever it begins and whatever *)
(* fails, as long as no counter expires under a request that increments it.*)
THEOREM BelowTwiceMaxTheorem ==
  ASSUME "slow" \notin Faults
  PROVE  Spec => []BelowTwiceMax
  <1> USE RateLimitAssumption
  <1>1. Init => OneAtATime /\ AllCounted /\ Spread
    BY DEF Init, OneAtATime, AllCounted, Spread, Spans, At, Idle
  <1>2. TypeOK /\ AllCounted /\ Spread => BelowTwiceMax
    <2> SUFFICES ASSUME TypeOK, AllCounted, Spread, NEW k \in SerialKeys
                 PROVE  recent[k][Window - 1] < 2 * Max
      BY DEF BelowTwiceMax
    <2>1. /\ Window - 1 \in Ages /\ recent[k][Window - 1] \in Nat
          /\ granted[k] \in Nat /\ granted[k] <= Max
      BY DEF TypeOK, Ages, AllCounted
    <2> QED BY <2>1 DEF Spread, Spans
  <1>3. /\ TypeOK /\ Counters' /\ OneAtATime /\ AllCounted /\ Spread /\ [Next]_vars
        => Spread'
    BY SpreadStep
  <1> QED
    BY <1>1, <1>2, <1>3, TypeCorrect, SerialInvariant, CountersInvariant, PTL DEF Spec

-----------------------------------------------------------------------------
(* What concurrency can cost.                                              *)

(* The sum of Max - 1 + i for i in 1..m.                                   *)
Overrun(m) == m * (Max - 1) + (m * (m + 1)) \div 2

LEMMA OverrunNext ==
  ASSUME NEW m \in Nat
  PROVE  /\ Overrun(m) \in Nat
         /\ Overrun(m + 1) = Overrun(m) + Max + m
  <1> USE RateLimitAssumption
  <1>1. /\ m * (Max - 1) \in Nat /\ m * (m + 1) \in Nat
        /\ (m + 1) * (Max - 1) = m * (Max - 1) + (Max - 1)
        /\ (m + 1) * (m + 2) = m * (m + 1) + 2 * (m + 1)
    OBVIOUS
  <1>2. ((m + 1) * (m + 2)) \div 2 = (m * (m + 1)) \div 2 + (m + 1)
    <2>1. \A x \in Nat : (x + 2 * (m + 1)) \div 2 = x \div 2 + (m + 1)
      OBVIOUS
    <2> QED BY <1>1, <2>1
  <1>3. (m * (m + 1)) \div 2 \in Nat
    BY <1>1
  <1> QED BY <1>1, <1>2, <1>3 DEF Overrun

LEMMA OverrunGrows ==
  ASSUME NEW m \in Nat, NEW n \in Nat, m <= n
  PROVE  Overrun(m) <= Overrun(n)
  <1> USE RateLimitAssumption
  <1>1. PICK d \in Nat : n = m + d
    <2>1. n - m \in Nat /\ n = m + (n - m)
      OBVIOUS
    <2> QED BY <2>1
  <1>2. /\ n * (Max - 1) = m * (Max - 1) + d * (Max - 1)
        /\ n * (n + 1) = m * (m + 1) + (2 * m * d + d * d + d)
    BY <1>1
  <1>3. d * (Max - 1) \in Nat /\ 2 * m * d + d * d + d \in Nat
    BY <1>1
  <1>4. \A x, y \in Nat : (x + y) \div 2 >= x \div 2
    OBVIOUS
  <1>5. (n * (n + 1)) \div 2 >= (m * (m + 1)) \div 2
    BY <1>2, <1>3, <1>4
  <1>6. /\ m * (Max - 1) \in Nat /\ (m * (m + 1)) \div 2 \in Nat
        /\ (n * (n + 1)) \div 2 \in Nat
    OBVIOUS
  <1> QED BY <1>2, <1>3, <1>5, <1>6 DEF Overrun

(* Requests that read "absent" and are about to set the counter, and those *)
(* that are about to increment it.                                         *)
Starting(k) == {r \in Requests : req[r].key = k /\ At(r, "set")}
Counting(k) == {r \in Requests : req[r].key = k /\ At(r, "incr")}

(* The other requests: one that is let through for the first time by a SET *)
(* has left Starting, and nobody joins it while the counter is there.      *)
Others(k) == Cardinality(Requests) - Cardinality(Starting(k))

Parts(k) ==
    /\ IsFiniteSet(Starting(k)) /\ Cardinality(Starting(k)) \in Nat
    /\ IsFiniteSet(Counting(k)) /\ Cardinality(Counting(k)) \in Nat
    /\ Cardinality(Requests) \in Nat
    /\ Others(k) \in Nat
    /\ Cardinality(Counting(k)) <= Others(k)

LEMMA FiniteParts == \A k \in Keys : Parts(k)
  <1> USE RateLimitAssumption
  <1> TAKE k \in Keys
  <1>1. /\ Starting(k) \in SUBSET Requests
        /\ Counting(k) \in SUBSET (Requests \ Starting(k))
    BY DEF Starting, Counting, At
  <1>2. /\ IsFiniteSet(Starting(k))
        /\ Cardinality(Starting(k)) <= Cardinality(Requests)
        /\ IsFiniteSet(Requests \ Starting(k))
    BY <1>1, FS_Subset
  <1>3. Cardinality(Requests \ Starting(k)) =
          Cardinality(Requests) - Cardinality(Starting(k))
    <2>1. Starting(k) \cap Requests = Starting(k)
      BY <1>1
    <2> QED BY <1>2, <2>1, FS_Difference
  <1>4. /\ IsFiniteSet(Counting(k))
        /\ Cardinality(Counting(k)) <= Cardinality(Requests \ Starting(k))
    BY <1>1, <1>2, FS_Subset
  <1>5. /\ Cardinality(Starting(k)) \in Nat /\ Cardinality(Counting(k)) \in Nat
        /\ Cardinality(Requests) \in Nat
    BY <1>2, <1>4, FS_CardinalityType
  <1> QED BY <1>2, <1>3, <1>4, <1>5 DEF Others, Parts

LEMMA FinitePartsNext == (\A k \in Keys : Parts(k))'
  BY FiniteParts, PTL

(* Of what was granted in the life of a counter, c requests were let       *)
(* through since the last SET, and those that are about to increment it    *)
(* may follow; each SET before had one Other request less beside it.       *)
Counted(k, c) ==
    /\ c <= count[k]
    /\ Others(k) >= 1
    /\ c + Cardinality(Counting(k)) <= Max - 1 + Others(k)
    /\ granted[k] <= c + Overrun(Others(k) - 1)

Contained(k) ==
    IF count[k] = 0 THEN granted[k] = 0 ELSE \E c \in Nat : Counted(k, c)

(* A request that moves, moves between the two by itself.                  *)
LEMMA Moves ==
  ASSUME NEW r \in Requests, NEW k \in Keys,
         \A s \in Requests \ {r} : req'[s] = req[s]
  PROVE  /\ Cardinality(Starting(k)') =
              Cardinality(Starting(k)) - (IF r \in Starting(k) THEN 1 ELSE 0)
                                       + (IF r \in Starting(k)' THEN 1 ELSE 0)
         /\ Cardinality(Counting(k)') =
              Cardinality(Counting(k)) - (IF r \in Counting(k) THEN 1 ELSE 0)
                                       + (IF r \in Counting(k)' THEN 1 ELSE 0)
  <1>1. /\ Starting(k)' = IF r \in Starting(k)' THEN (Starting(k) \ {r}) \cup {r}
                                                ELSE Starting(k) \ {r}
        /\ Counting(k)' = IF r \in Counting(k)' THEN (Counting(k) \ {r}) \cup {r}
                                                ELSE Counting(k) \ {r}
    BY DEF Starting, Counting, At
  <1>2. /\ IsFiniteSet(Starting(k) \ {r}) /\ IsFiniteSet(Counting(k) \ {r})
        /\ Cardinality(Starting(k) \ {r}) =
             Cardinality(Starting(k)) - (IF r \in Starting(k) THEN 1 ELSE 0)
        /\ Cardinality(Counting(k) \ {r}) =
             Cardinality(Counting(k)) - (IF r \in Counting(k) THEN 1 ELSE 0)
    BY FiniteParts, FS_RemoveElement DEF Parts
  <1>3. /\ Cardinality((Starting(k) \ {r}) \cup {r}) = Cardinality(Starting(k) \ {r}) + 1
        /\ Cardinality((Counting(k) \ {r}) \cup {r}) = Cardinality(Counting(k) \ {r}) + 1
    BY <1>2, FS_AddElement
  <1>4. /\ Cardinality(Starting(k)') = Cardinality(Starting(k) \ {r})
                                       + (IF r \in Starting(k)' THEN 1 ELSE 0)
        /\ Cardinality(Counting(k)') = Cardinality(Counting(k) \ {r})
                                       + (IF r \in Counting(k)' THEN 1 ELSE 0)
    <2>1. Cardinality(Starting(k) \ {r}) \in Nat /\ Cardinality(Counting(k) \ {r}) \in Nat
      BY <1>2, FS_CardinalityType
    <2>2. ASSUME r \in Starting(k)'
          PROVE  Cardinality(Starting(k)') = Cardinality(Starting(k) \ {r}) + 1
      BY <1>1, <1>3, <2>2
    <2>3. ASSUME r \notin Starting(k)'
          PROVE  Cardinality(Starting(k)') = Cardinality(Starting(k) \ {r})
      BY <1>1, <2>3, Zenon
    <2>4. ASSUME r \in Counting(k)'
          PROVE  Cardinality(Counting(k)') = Cardinality(Counting(k) \ {r}) + 1
      BY <1>1, <1>3, <2>4
    <2>5. ASSUME r \notin Counting(k)'
          PROVE  Cardinality(Counting(k)') = Cardinality(Counting(k) \ {r})
      BY <1>1, <2>5, Zenon
    <2> QED BY <2>1, <2>2, <2>3, <2>4, <2>5
  <1> QED BY <1>2, <1>4

(* Nothing is let through, and no request comes to increment the counter.  *)
LEMMA ContainedWhenQuiet ==
  ASSUME Counters, NEW k \in Keys, Contained(k),
         count'[k] = count[k], granted'[k] = granted[k],
         Others(k) <= Others(k)' \/ count[k] = 0,
         Cardinality(Counting(k)') <= Cardinality(Counting(k))
  PROVE  Contained(k)'
  <1> USE RateLimitAssumption
  <1>1. CASE count[k] = 0
    BY <1>1 DEF Contained
  <1>2. CASE count[k] # 0
    <2>1. PICK c \in Nat : Counted(k, c)
      BY <1>2 DEF Contained
    <2>2. Parts(k) /\ Parts(k)'
      BY FiniteParts, FinitePartsNext
    <2>3. Overrun(Others(k) - 1) <= Overrun(Others(k)' - 1)
      BY <1>2, <2>1, <2>2, OverrunGrows DEF Counted, Parts
    <2>4. Overrun(Others(k) - 1) \in Nat /\ Overrun(Others(k)' - 1) \in Nat
      BY <1>2, <2>1, <2>2, OverrunNext DEF Counted, Parts
    <2>5. Counted(k, c)'
      BY <1>2, <2>1, <2>2, <2>3, <2>4 DEF Counted, Counters, Parts
    <2> QED BY <1>2, <2>5 DEF Contained
  <1> QED BY <1>1, <1>2

LEMMA ContainedStep ==
  ASSUME Counters, Counters', \A k \in Keys : Contained(k), [Next]_vars,
         NEW k \in Keys
  PROVE  Contained(k)'
  <1> USE RateLimitAssumption
  <1>1. Parts(k) /\ Parts(k)' /\ Contained(k)
    BY FiniteParts, FinitePartsNext
  <1>2. ASSUME NEW r \in Requests, \A s \in Requests \ {r} : req'[s] = req[s],
               count'[k] = count[k], granted'[k] = granted[k],
               r \in Starting(k)' => r \in Starting(k) \/ count[k] = 0,
               r \in Counting(k)' => r \in Counting(k)
        PROVE  Contained(k)'
    <2>1. /\ Cardinality(Starting(k)') <= Cardinality(Starting(k)) \/ count[k] = 0
          /\ Cardinality(Counting(k)') <= Cardinality(Counting(k))
      BY <1>1, <1>2, Moves DEF Parts
    <2>2. Others(k) <= Others(k)' \/ count[k] = 0
      BY <1>1, <2>1 DEF Others, Parts
    <2> QED BY <1>1, <1>2, <2>1, <2>2, ContainedWhenQuiet
  <1>3. ASSUME NEW r \in Requests, NEW l \in Keys, Arrive(r, l)
        PROVE  Contained(k)'
    <2>1. /\ UNCHANGED <<count, granted>>
          /\ \A s \in Requests \ {r} : req'[s] = req[s]
          /\ req'[r].pc = "get"
      BY <1>3 DEF Arrive, Counters
    <2> QED BY <1>2, <2>1 DEF Starting, Counting, At
  <1>4. ASSUME NEW r \in Requests, GetCount(r)
        PROVE  Contained(k)'
    <2>1. /\ req[r] \in [pc : {"get", "set", "incr"}, key : Keys] /\ At(r, "get")
          /\ UNCHANGED <<count, granted>>
      BY <1>4 DEF GetCount, At, Idle, LeaveUncounted, Counters
    <2>2. \/ count[req[r].key] = 0 /\ Goto(r, "set")
          \/ count[req[r].key] \in 1 .. (Max - 1) /\ Goto(r, "incr")
          \/ Leave(r)
      BY <1>4, <2>1 DEF GetCount, LeaveUncounted
    <2>3. \A s \in Requests \ {r} : req'[s] = req[s]
      BY <2>2 DEF Goto, Leave, Counters
    <2>4. CASE count[req[r].key] = 0 /\ Goto(r, "set")
      <3>1. req'[r].pc = "set" /\ req'[r].key = req[r].key
        BY <2>1, <2>4 DEF Goto, Counters
      <3> QED BY <1>2, <2>1, <2>3, <2>4, <3>1 DEF Starting, Counting, At
    <2>5. CASE Leave(r)
      <3>1. req'[r].pc = "idle"
        BY <2>5 DEF Leave, Idle, Counters
      <3> QED BY <1>2, <2>1, <2>3, <3>1 DEF Starting, Counting, At
    <2>6. CASE count[req[r].key] \in 1 .. (Max - 1) /\ Goto(r, "incr")
      <3>1. req'[r].pc = "incr" /\ req'[r].key = req[r].key
        BY <2>1, <2>6 DEF Goto, Counters
      <3>2. CASE k # req[r].key
        BY <1>2, <2>1, <2>3, <3>1, <3>2 DEF Starting, Counting, At
      <3>3. CASE k = req[r].key
        <4>1. /\ r \notin Starting(k) /\ r \notin Starting(k)'
              /\ r \notin Counting(k) /\ r \in Counting(k)'
          BY <2>1, <3>1, <3>3 DEF Starting, Counting, At
        <4>2. /\ Cardinality(Starting(k)') = Cardinality(Starting(k))
              /\ Cardinality(Counting(k)') = Cardinality(Counting(k)) + 1
          BY <1>1, <2>3, <4>1, Moves DEF Parts
        <4>3. Others(k)' = Others(k)
          BY <4>2 DEF Others
        <4>4. PICK c \in Nat : Counted(k, c)
          BY <1>1, <2>6, <3>3 DEF Contained
        <4>5. /\ count[k] \in Nat /\ count[k] <= Max - 1
              /\ count'[k] = count[k] /\ granted'[k] = granted[k]
          BY <2>1, <2>6, <3>3
        <4>6. Counted(k, c)'
          BY <1>1, <4>3, <4>4, <4>5 DEF Counted, Parts
        <4> QED BY <2>6, <3>3, <4>5, <4>6 DEF Contained
      <3> QED BY <3>2, <3>3
    <2> QED BY <2>2, <2>4, <2>5, <2>6
  <1>5. ASSUME NEW r \in Requests, SetFirst(r) \/ Increment(r)
        PROVE  Contained(k)'
    <2>1. /\ req[r] \in [pc : {"get", "set", "incr"}, key : Keys]
          /\ \A s \in Requests \ {r} : req'[s] = req[s]
          /\ req'[r].pc = "idle"
      BY <1>5 DEF SetFirst, Increment, Grant, LeaveUncounted, Leave, At, Idle, Counters
    <2>2. r \notin Starting(k)' /\ r \notin Counting(k)'
      BY <2>1 DEF Starting, Counting, At
    <2>3. CASE k # req[r].key \/ UNCHANGED <<count, granted>>
      <3>1. count'[k] = count[k] /\ granted'[k] = granted[k]
        BY <1>5, <2>3 DEF SetFirst, Increment, Grant, LeaveUncounted, Counters
      <3> QED BY <1>2, <2>1, <2>2, <3>1
    <2>4. CASE k = req[r].key /\ SetFirst(r) /\ ~UNCHANGED <<count, granted>>
      <3>1. r \in Starting(k) /\ r \notin Counting(k)
        BY <2>4 DEF SetFirst, Starting, Counting, At
      <3>2. /\ Cardinality(Starting(k)') = Cardinality(Starting(k)) - 1
            /\ Cardinality(Counting(k)') = Cardinality(Counting(k))
        BY <1>1, <2>1, <2>2, <3>1, Moves DEF Parts
      <3>3. Others(k)' = Others(k) + 1
        BY <1>1, <3>2 DEF Others, Parts
      <3>4. count'[k] = 1 /\ granted'[k] = granted[k] + 1 /\ granted[k] \in Nat
        BY <2>4 DEF SetFirst, Grant, LeaveUncounted, Counters
      <3>5. granted[k] <= Overrun(Others(k))
        <4>1. Overrun(Others(k)) \in Nat
          BY <1>1, OverrunNext DEF Parts
        <4>2. CASE count[k] = 0
          BY <1>1, <4>1, <4>2 DEF Contained
        <4>3. CASE count[k] # 0
          <5>1. PICK c \in Nat : Counted(k, c)
            BY <1>1, <4>3 DEF Contained
          <5>2. /\ Others(k) - 1 \in Nat
                /\ Overrun(Others(k) - 1) \in Nat
                /\ Overrun(Others(k)) = Overrun(Others(k) - 1) + Max + (Others(k) - 1)
            <6> DEFINE m == Others(k) - 1
            <6>1. m \in Nat /\ m + 1 = Others(k)
              BY <1>1, <5>1 DEF Counted, Parts
            <6> QED BY <6>1, OverrunNext
          <5>3. c <= Max - 1 + Others(k)
            BY <1>1, <5>1 DEF Counted, Parts
          <5> QED BY <1>1, <3>4, <5>1, <5>2, <5>3 DEF Counted, Parts
        <4> QED BY <4>2, <4>3
      <3>6. Counted(k, 1)'
        <4>1. Others(k)' - 1 = Others(k) /\ Overrun(Others(k)) \in Nat
          BY <1>1, <3>3, OverrunNext DEF Parts
        <4> QED BY <1>1, <3>2, <3>3, <3>4, <3>5, <4>1 DEF Counted, Parts
      <3> QED BY <3>4, <3>6 DEF Contained
    <2>5. CASE k = req[r].key /\ Increment(r) /\ ~UNCHANGED <<count, granted>>
      <3>1. r \notin Starting(k) /\ r \in Counting(k)
        BY <2>5 DEF Increment, Starting, Counting, At
      <3>2. /\ Cardinality(Starting(k)') = Cardinality(Starting(k))
            /\ Cardinality(Counting(k)') = Cardinality(Counting(k)) - 1
        BY <1>1, <2>1, <2>2, <3>1, Moves DEF Parts
      <3>3. Others(k)' = Others(k)
        BY <3>2 DEF Others
      <3>4. /\ count'[k] \in {count[k] + 1, count[k] + 2} /\ count[k] \in Nat
            /\ granted'[k] = granted[k] + 1 /\ granted[k] \in Nat
        BY <2>5 DEF Increment, Grant, LeaveUncounted, Counters
      <3>5. Others(k) >= 1
        <4>1. Cardinality(Counting(k)) >= 1
          BY <1>1, <3>1, FS_EmptySet DEF Parts
        <4> QED BY <1>1, <4>1 DEF Parts
      <3>6. Overrun(Others(k) - 1) \in Nat
        BY <1>1, <3>5, OverrunNext DEF Parts
      <3>7. CASE count[k] = 0
        <4>1. Counted(k, 1)'
          BY <1>1, <3>2, <3>3, <3>4, <3>5, <3>6, <3>7 DEF Contained, Counted, Parts
        <4> QED BY <3>4, <4>1 DEF Contained
      <3>8. CASE count[k] # 0
        <4>1. PICK c \in Nat : Counted(k, c)
          BY <1>1, <3>8 DEF Contained
        <4>2. Counted(k, c + 1)'
          BY <1>1, <3>2, <3>3, <3>4, <3>5, <3>6, <4>1 DEF Counted, Parts
        <4> QED BY <3>4, <4>2 DEF Contained
      <3> QED BY <3>7, <3>8
    <2> QED BY <1>5, <2>3, <2>4, <2>5
  <1>6. CASE Tick
    <2>1. CASE ttl[k] = 1
      BY <1>6, <2>1 DEF Tick, Contained
    <2>2. CASE ttl[k] # 1
      <3>1. count'[k] = count[k] /\ granted'[k] = granted[k] /\ req' = req
        BY <1>6, <2>2 DEF Tick
      <3>2. Starting(k)' = Starting(k) /\ Counting(k)' = Counting(k)
        BY <3>1 DEF Starting, Counting, At
      <3>3. Others(k)' = Others(k)
        BY <3>2 DEF Others
      <3> QED BY <1>1, <3>1, <3>2, <3>3, ContainedWhenQuiet DEF Parts
    <2> QED BY <2>1, <2>2
  <1>7. CASE UNCHANGED vars
    <2>1. Starting(k)' = Starting(k) /\ Counting(k)' = Counting(k)
      BY <1>7 DEF vars, Starting, Counting, At
    <2> QED BY <1>1, <1>7, <2>1 DEF vars, Contained, Counted, Others
  <1> QED BY <1>3, <1>4, <1>5, <1>6, <1>7, NextCases

(* However many requests are checked at a time, whichever calls fail, are  *)
(* carried out twice or are slow: in the life of a counter no more than    *)
(* N(Max - 1) + N(N + 1)/2 requests get through.                           *)
THEOREM OverrunBoundedTheorem == Spec => []OverrunBounded
  <1> USE RateLimitAssumption
  <1>1. Init => \A k \in Keys : Contained(k)
    BY DEF Init, Contained
  <1>2. Counters /\ (\A k \in Keys : Contained(k)) => OverrunBounded
    <2> SUFFICES ASSUME Counters, NEW k \in Keys, Contained(k)
                 PROVE  granted[k] <= Overrun(Cardinality(Requests))
      BY DEF OverrunBounded, Overrun
    <2>1. Parts(k)
      BY FiniteParts
    <2>2. Overrun(Cardinality(Requests)) \in Nat /\ granted[k] \in Nat
      BY <2>1, OverrunNext DEF Parts, Counters
    <2>3. CASE count[k] = 0
      BY <2>2, <2>3 DEF Contained
    <2>4. CASE count[k] # 0
      <3>1. PICK c \in Nat : Counted(k, c)
        BY <2>4 DEF Contained
      <3>2. /\ Others(k) - 1 \in Nat
            /\ Overrun(Others(k) - 1) \in Nat
            /\ Overrun(Others(k)) = Overrun(Others(k) - 1) + Max + (Others(k) - 1)
        <4> DEFINE m == Others(k) - 1
        <4>1. m \in Nat /\ m + 1 = Others(k)
          BY <2>1, <3>1 DEF Counted, Parts
        <4> QED BY <4>1, OverrunNext
      <3>3. c <= Max - 1 + Others(k)
        BY <2>1, <3>1 DEF Counted, Parts
      <3>4. granted[k] <= Overrun(Others(k))
        BY <2>1, <2>2, <3>1, <3>2, <3>3 DEF Counted, Parts
      <3>5. Overrun(Others(k)) <= Overrun(Cardinality(Requests))
        <4>1. Others(k) <= Cardinality(Requests)
          BY <2>1 DEF Others, Parts
        <4> QED BY <2>1, <4>1, OverrunGrows DEF Parts
      <3>6. Overrun(Others(k)) \in Nat
        BY <2>1, OverrunNext DEF Parts
      <3> QED BY <2>2, <3>4, <3>5, <3>6
    <2> QED BY <2>3, <2>4
  <1>3. /\ Counters /\ Counters' /\ (\A k \in Keys : Contained(k)) /\ [Next]_vars
        => (\A k \in Keys : Contained(k))'
    BY ContainedStep
  <1> QED BY <1>1, <1>2, <1>3, CountersInvariant, PTL DEF Spec
=============================================================================
