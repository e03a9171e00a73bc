----------------------------- MODULE RateLimit -----------------------------
(***************************************************************************)
(* The rate limiter: a counter in Redis per key, with a time to live of    *)
(* one window, in front of the endpoints of the shop's application.        *)
(*                                                                         *)
(* CheckRateLimit reads the counter, and then either sets it to one with   *)
(* the window as its time to live, refuses, or increments it.  The calls   *)
(* are round trips of their own, so requests interleave between them, and  *)
(* time passes.  An error of Redis lets the request through uncounted.     *)
(*                                                                         *)
(* Left out: the form of the key (path and address of the client) and the  *)
(* X-RateLimit headers, which no later request depends on.                 *)
(***************************************************************************)
EXTENDS Naturals, FiniteSets

CONSTANTS
    Keys,           \* what requests are counted under
    SerialKeys,     \* those whose clients send one request after the other
    Requests,       \* slots: how many requests are checked at the same time
    Max,            \* cfg.Max: requests per window
    Window,         \* cfg.Window, in ticks of the clock
    Faults,         \* what may go wrong in this instance
    NoKey

(* A call that fails; a command that go-redis sends again after a network  *)
(* error although it was carried out; and "slow", requests that take long  *)
(* enough for a counter to expire while they are being checked.            *)
FaultKinds == {"get", "set", "incr", "incrRetried", "slow"}

ASSUME RateLimitAssumption ==
    /\ Max \in Nat \ {0}
    /\ Window \in Nat \ {0}
    /\ SerialKeys \subseteq Keys
    /\ Faults \subseteq FaultKinds
    /\ NoKey \notin Keys
    /\ IsFiniteSet(Requests)

VARIABLES
    count,          \* the counter of each key, 0 when the key is absent
    ttl,            \* the ticks it has left, or NoTTL
    req,            \* the requests being checked
    granted,        \* history: requests the counter let through in its life
    recent          \* history: those of SerialKeys in this tick and the last a

vars == <<count, ttl, req, granted, recent>>

NoTTL == 0
Ages == 0 .. (Window - 1)
Idle == [pc |-> "idle", key |-> NoKey]

TypeOK ==
    /\ count \in [Keys -> Nat]
    /\ ttl \in [Keys -> 0 .. Window]
    /\ \A k \in Keys : count[k] = 0 => ttl[k] = NoTTL
    /\ req \in [Requests -> [pc : {"get", "set", "incr"}, key : Keys] \cup {Idle}]
    /\ granted \in [Keys -> Nat]
    /\ recent \in [SerialKeys -> [Ages -> Nat]]

Init ==
    /\ count = [k \in Keys |-> 0]
    /\ ttl = [k \in Keys |-> NoTTL]
    /\ req = [r \in Requests |-> Idle]
    /\ granted = [k \in Keys |-> 0]
    /\ recent = [k \in SerialKeys |-> [a \in Ages |-> 0]]

-----------------------------------------------------------------------------
Fails(call) == call \in Faults

At(r, pc) == req[r].pc = pc

Goto(r, pc) == req' = [req EXCEPT ![r].pc = pc]

Leave(r) == req' = [req EXCEPT ![r] = Idle]

(* The request goes on to its handler, counted.                            *)
Grant(r) ==
    /\ granted' = [granted EXCEPT ![req[r].key] = @ + 1]
    /\ recent' = [k \in SerialKeys |->
                    IF k = req[r].key THEN [a \in Ages |-> recent[k][a] + 1]
                                      ELSE recent[k]]
    /\ Leave(r)

(* The request is refused, or goes on uncounted after an error of Redis.   *)
LeaveUncounted(r) == Leave(r) /\ UNCHANGED <<granted, recent>>

Arrive(r, k) ==
    /\ At(r, "idle")
    /\ k \in SerialKeys => \A s \in Requests : req[s].key # k
    /\ req' = [req EXCEPT ![r] = [pc |-> "get", key |-> k]]
    /\ UNCHANGED <<count, ttl, granted, recent>>

(* Mutant: the limit is compared with > instead of >=.                     *)
GetCountOffByOne(r) ==
    /\ At(r, "get")
    /\ LET n == count[req[r].key] IN
         \/ n = 0 /\ Goto(r, "set") /\ UNCHANGED <<granted, recent>>
         \/ n > Max /\ LeaveUncounted(r)
         \/ n \in 1 .. Max /\ Goto(r, "incr") /\ UNCHANGED <<granted, recent>>
    /\ UNCHANGED <<count, ttl>>

GetCount(r) ==
    /\ At(r, "get")
    /\ LET n == count[req[r].key] IN
         \/ n = 0 /\ Goto(r, "set") /\ UNCHANGED <<granted, recent>>
         \/ n >= Max /\ LeaveUncounted(r)
         \/ n \in 1 .. (Max - 1) /\ Goto(r, "incr") /\ UNCHANGED <<granted, recent>>
         \/ Fails("get") /\ LeaveUncounted(r)
    /\ UNCHANGED <<count, ttl>>

(* Mutant: the counter is set without the window as its time to live.      *)
SetFirstForever(r) ==
    /\ At(r, "set")
    /\ count' = [count EXCEPT ![req[r].key] = 1]
    /\ ttl' = [ttl EXCEPT ![req[r].key] = NoTTL]
    /\ Grant(r)

(* Mutant: the first request of a window is not counted.                   *)
SetFirstZero(r) ==
    /\ At(r, "set")
    /\ count' = [count EXCEPT ![req[r].key] = 0]
    /\ ttl' = [ttl EXCEPT ![req[r].key] = Window]
    /\ Grant(r)

(* Mutant: the time to live is TTLRateLimit, shorter than the window.      *)
SetFirstDefaultTTL(r) ==
    /\ At(r, "set")
    /\ count' = [count EXCEPT ![req[r].key] = 1]
    /\ ttl' = [ttl EXCEPT ![req[r].key] = 1]
    /\ Grant(r)

(* SET overwrites a counter that another request has set in the meantime,  *)
(* and starts its window again.                                            *)
SetFirst(r) ==
    /\ At(r, "set")
    /\ \/ /\ count' = [count EXCEPT ![req[r].key] = 1]
          /\ ttl' = [ttl EXCEPT ![req[r].key] = Window]
          /\ Grant(r)
       \/ Fails("set") /\ LeaveUncounted(r) /\ UNCHANGED <<count, ttl>>

(* Mutant: an error of Redis refuses the request; the command may have     *)
(* been carried out all the same.                                          *)
IncrementFailClosed(r) ==
    /\ At(r, "incr")
    /\ count' = [count EXCEPT ![req[r].key] = @ + 1]
    /\ \/ Grant(r)
       \/ Fails("incr") /\ LeaveUncounted(r)
    /\ UNCHANGED ttl

(* INCR makes an absent key, without a time to live.  When its reply is    *)
(* lost the request goes on too, so that is no case of its own.            *)
Increment(r) ==
    /\ At(r, "incr")
    /\ \/ /\ \E n \in {1} \cup (IF Fails("incrRetried") THEN {2} ELSE {}) :
               count' = [count EXCEPT ![req[r].key] = @ + n]
          /\ Grant(r)
       \/ Fails("incr") /\ LeaveUncounted(r) /\ UNCHANGED count
    /\ UNCHANGED ttl

CheckRateLimit(r) == GetCount(r) \/ SetFirst(r) \/ Increment(r)

(* Time passes, and Redis drops the counters whose time to live is over.   *)
Tick ==
    /\ Fails("slow") \/ ~\E r \in Requests : At(r, "incr") /\ ttl[req[r].key] = 1
    /\ LET expired(k) == ttl[k] = 1 IN
         /\ count' = [k \in Keys |-> IF expired(k) THEN 0 ELSE count[k]]
         /\ ttl' = [k \in Keys |-> IF ttl[k] = NoTTL THEN NoTTL ELSE ttl[k] - 1]
         /\ granted' = [k \in Keys |-> IF expired(k) THEN 0 ELSE granted[k]]
    /\ recent' = [k \in SerialKeys |-> [a \in Ages |-> IF a = 0 THEN 0
                                                       ELSE recent[k][a - 1]]]
    /\ UNCHANGED req

Next ==
    \/ \E r \in Requests : CheckRateLimit(r) \/ \E k \in Keys : Arrive(r, k)
    \/ Tick

Spec == Init /\ [][Next]_vars

(* Fairness.  Time passes, also when some request is always under way;     *)
(* every call to Redis returns, and not every increment fails.  Nobody is  *)
(* obliged to send a request.                                              *)
Fairness ==
    /\ SF_vars(Tick)
    /\ \A r \in Requests : WF_vars(CheckRateLimit(r))
    /\ SF_vars(\E r \in Requests : Increment(r) /\ count' # count)

FairSpec == Spec /\ Fairness
-----------------------------------------------------------------------------
(* Properties.                                                             *)

(* In the life of a counter no more than Max requests get through that     *)
(* come one at a time, whatever the other clients do.                      *)
WithinLimit == \A k \in SerialKeys : granted[k] <= Max

(* The windows are not aligned with those a client sees: at most one       *)
(* request less than two limits gets through in any Window ticks.          *)
BelowTwiceMax == \A k \in SerialKeys : recent[k][Window - 1] < 2 * Max

(* A request is refused only when the counter has let Max requests through *)
(* in its life.  Redis may have counted a request whose increment was      *)
(* answered with an error: that request must not be refused.               *)
NotRefusedEarly == \A k \in Keys : count[k] >= Max => granted[k] >= Max

(* What concurrency can cost.  Each of the N requests that read "absent"   *)
(* may start the count again, and i requests that are under way exceed the *)
(* count by i - 1; so at most the sum of Max - 1 + i for i in 1..N get     *)
(* through in the life of a counter.                                       *)
OverrunBounded ==
    LET N == Cardinality(Requests) IN
    \A k \in Keys : granted[k] <= N * (Max - 1) + (N * (N + 1)) \div 2

(* Whoever is refused is admitted again after a while: a full counter does *)
(* not stay full.                                                          *)
RefusalEnds == \A k \in Keys : count[k] >= Max ~> count[k] < Max
=============================================================================
