----------------------------- MODULE RbacProofs -----------------------------
(***************************************************************************)
(* The role super_admin is always found, system roles stay as migration    *)
(* 008 made them, deleted entries are held by nobody who did not get them  *)
(* too late, and only super admins write: for any users, roles,            *)
(* permissions and number of requests.                                     *)
(*                                                                         *)
(* A request past the check of is_system works on something else (Sound),  *)
(* and is_system never changes, so what was read stays true.  Between the  *)
(* count and the deletion it does not: Counted says what is left of it.    *)
(***************************************************************************)
EXTENDS Rbac, TLAPS

(* What a request has found out by the time it writes.                     *)
Sound(q) ==
    /\ q \in Request
    /\ q.pc \in {"checkName", "writeName", "writeScope", "count", "delete"} =>
         q.entry \in Entries \ SystemRoles
    /\ q.pc = "writeScope" => q.entry \in RoleIds
    /\ q.pc = "writeName" => q.name \in NamesOf(q.entry)
    /\ q.pc = "insert" => q.name \in Names
    /\ q.pc \in {"each", "find"} => q.holder \in RoleIds
    /\ q.pc \in {"insertAdmin", "findRole"} => q.holder \in Users
    /\ q.pc \in {"grant", "remove"} =>
         <<q.holder, q.entry>> \in (Users \X RoleIds) \cup (RoleIds \X PermIds)

Typed == TypeOK /\ \A r \in Requests : Sound(req[r])

SystemLive == \A x \in SystemRoles : Live(x)

(* Whoever is about to delete has found no holder; who holds the entry now *)
(* has got it too late.                                                    *)
Counted ==
    \A r \in Requests :
      req[r].pc = "delete" /\ Granted(req[r].entry) => req[r].entry \in late

IInv == Typed /\ SystemLive /\ SuperAdminResolves /\ Counted /\ DeletedUnassigned

(* A request whose user was no super admin is still before RoleRequired.   *)
Passed == \A s \in barred : req[s].pc = "role"

-----------------------------------------------------------------------------
(* The forms a step takes: request r goes on as q, and either reads only   *)
(* or inserts a user, writes a row, grants or revokes.                     *)
Moves(r, q) == req' = [req EXCEPT ![r] = q]

LEMMA Frame ==
  ASSUME Typed, NEW r \in Requests, NEW q, Sound(q), Moves(r, q)
  PROVE  /\ req' \in [Requests -> Request]
         /\ req'[r] = q
         /\ \A s \in Requests \ {r} : req'[s] = req[s]
         /\ \A s \in Requests : Sound(req[s])'
  <1>1. req \in [Requests -> Request] /\ q \in Request
    BY DEF Typed, TypeOK, Sound
  <1>2. /\ req' \in [Requests -> Request]
        /\ req'[r] = q
        /\ \A s \in Requests \ {r} : req'[s] = req[s]
    BY <1>1 DEF Moves
  <1>3. \A s \in Requests : Sound(req'[s])
    BY <1>2 DEF Typed
  <1>4. ASSUME NEW s \in Requests
        PROVE  Sound(req[s])'
    BY <1>3 DEF Sound, Request, NamesOf
  <1> QED BY <1>2, <1>4

LEMMA ReadStep ==
  ASSUME IInv, NEW r \in Requests, NEW q, Sound(q), Moves(r, q),
         q.pc = "delete" => ~Granted(q.entry),
         UNCHANGED <<rows, grants, late>>, users' \subseteq Users, barred' \subseteq Requests
  PROVE  IInv'
  <1>0. Typed
    BY DEF IInv
  <1>1. /\ req' \in [Requests -> Request]
        /\ req'[r] = q
        /\ \A s \in Requests \ {r} : req'[s] = req[s]
        /\ \A s \in Requests : Sound(req[s])'
    BY <1>0, Frame
  <1>2. Typed'
    BY <1>0, <1>1 DEF Typed, TypeOK
  <1>3. \A x : Granted(x)' <=> Granted(x)
    BY <1>0 DEF Granted
  <1>4. SystemLive' /\ SuperAdminResolves' /\ DeletedUnassigned'
    BY <1>0, <1>3 DEF IInv, SystemLive, SuperAdminResolves, DeletedUnassigned, Live, Granted
  <1>5. Counted'
    BY <1>0, <1>1 DEF IInv, Counted, Granted
  <1> QED BY <1>2, <1>4, <1>5 DEF IInv

LEMMA RowStep ==
  ASSUME IInv, NEW r \in Requests, NEW q, Sound(q), Moves(r, q), q.pc # "delete",
         NEW x \in Entries \ SystemRoles, NEW row \in Row,
         rows' = [rows EXCEPT ![x] = row], UNCHANGED <<users, grants, late>>,
         x \in RoleIds => row.name # SuperAdminName,
         row.status = "deleted" /\ Granted(x) => x \in late,
         barred' \subseteq Requests
  PROVE  IInv' /\ \A y \in SystemRoles : rows'[y] = rows[y]
  <1>0. Typed
    BY DEF IInv
  <1>1. /\ req' \in [Requests -> Request]
        /\ req'[r] = q
        /\ \A s \in Requests \ {r} : req'[s] = req[s]
        /\ \A s \in Requests : Sound(req[s])'
    BY <1>0, Frame
  <1>2. /\ rows' \in [Entries -> Row]
        /\ rows'[x] = row
        /\ \A y \in Entries \ {x} : rows'[y] = rows[y]
    BY <1>0 DEF Typed, TypeOK
  <1>3. Typed'
    BY <1>0, <1>1, <1>2 DEF Typed, TypeOK
  <1>4. SystemRoles \subseteq Entries \ {x} /\ SuperAdmin \in SystemRoles
    BY RbacAssumption DEF Entries
  <1>5. SystemLive' /\ \A y \in SystemRoles : rows'[y] = rows[y]
    BY <1>2, <1>4 DEF IInv, SystemLive, Live
  <1>6. SuperAdminResolves'
    BY <1>2, <1>4 DEF IInv, SuperAdminResolves, Live, Entries
  <1>7. Counted'
    BY <1>1 DEF IInv, Counted, Granted
  <1>8. DeletedUnassigned'
    BY <1>2 DEF IInv, DeletedUnassigned, Granted
  <1> QED BY <1>3, <1>5, <1>6, <1>7, <1>8 DEF IInv

LEMMA GrantStep ==
  ASSUME IInv, NEW r \in Requests, NEW q, Sound(q), Moves(r, q), q.pc # "delete",
         NEW h, NEW x, <<h, x>> \in (Users \X RoleIds) \cup (RoleIds \X PermIds),
         req[r].pc # "delete", Grant(h, x), barred' \subseteq Requests
  PROVE  IInv'
  <1>0. Typed /\ UNCHANGED <<users, rows>> /\ grants' = grants \cup {<<h, x>>}
    BY DEF IInv, Grant
  <1>1. /\ req' \in [Requests -> Request]
        /\ req'[r] = q
        /\ \A s \in Requests \ {r} : req'[s] = req[s]
        /\ \A s \in Requests : Sound(req[s])'
    BY <1>0, Frame
  <1>2. x \in Entries /\ late \subseteq late' /\ late' \subseteq late \cup {x}
    BY DEF Grant, Entries
  <1>3. \A y : Granted(y)' => Granted(y) \/ y = x
    BY <1>0 DEF Granted
  <1>4. ~Live(x) => x \in late'
    BY DEF Grant
  <1>5. \A s \in Requests : req[s].pc = "delete" /\ req[s].entry = x => x \in late'
    BY DEF Grant, At
  <1>6. Typed'
    BY <1>0, <1>1, <1>2 DEF Typed, TypeOK
  <1>7. SystemLive' /\ SuperAdminResolves'
    BY <1>0 DEF IInv, SystemLive, SuperAdminResolves, Live
  <1>8. Counted'
    <2> SUFFICES ASSUME NEW s \in Requests, req'[s].pc = "delete", Granted(req[s].entry)'
                 PROVE  req'[s].entry \in late'
      BY DEF Counted
    <2>1. req'[s] = req[s] /\ req[s].pc = "delete"
      BY <1>1
    <2>2. Granted(req[s].entry) \/ req[s].entry = x
      BY <1>3, <2>1 DEF Granted
    <2> QED BY <1>2, <1>5, <2>1, <2>2 DEF IInv, Counted
  <1>9. DeletedUnassigned'
    <2> SUFFICES ASSUME NEW y \in Entries, rows'[y].status = "deleted", Granted(y)'
                 PROVE  y \in late'
      BY DEF DeletedUnassigned
    <2>1. Granted(y) \/ y = x
      BY <1>3
    <2>2. CASE y = x
      BY <1>0, <1>4, <2>2 DEF Live
    <2>3. CASE Granted(y)
      BY <1>0, <1>2, <2>3 DEF IInv, DeletedUnassigned
    <2> QED BY <2>1, <2>2, <2>3
  <1> QED BY <1>6, <1>7, <1>8, <1>9 DEF IInv

LEMMA RevokeStep ==
  ASSUME IInv, NEW r \in Requests, NEW ids, Revoke(r, ids), Sound(Idle), barred' \subseteq Requests
  PROVE  IInv'
  <1>0. /\ Typed /\ UNCHANGED <<users, rows, late>> /\ grants' \subseteq grants
        /\ Moves(r, Idle)
    BY DEF IInv, Revoke, Leave, Moves
  <1>1. /\ req' \in [Requests -> Request]
        /\ req'[r] = Idle
        /\ \A s \in Requests \ {r} : req'[s] = req[s]
        /\ \A s \in Requests : Sound(req[s])'
    BY <1>0, Frame
  <1>2. \A y : Granted(y)' => Granted(y)
    BY <1>0 DEF Granted
  <1>3. Typed'
    BY <1>0, <1>1 DEF Typed, TypeOK
  <1>4. SystemLive' /\ SuperAdminResolves'
    BY <1>0 DEF IInv, SystemLive, SuperAdminResolves, Live
  <1>5. DeletedUnassigned'
    BY <1>0, <1>2 DEF IInv, DeletedUnassigned
  <1>6. Counted'
    <2> SUFFICES ASSUME NEW s \in Requests, req'[s].pc = "delete", Granted(req[s].entry)'
                 PROVE  req'[s].entry \in late'
      BY DEF Counted
    <2>1. req'[s] = req[s]
      BY <1>1 DEF Idle
    <2>2. Granted(req[s].entry)
      BY <1>0, <2>1 DEF Granted
    <2> QED BY <1>0, <2>1, <2>2 DEF IInv, Counted
  <1> QED BY <1>3, <1>4, <1>5, <1>6 DEF IInv

-----------------------------------------------------------------------------
(* Each action is one of these steps.                                      *)

LEMMA IdleIsSound == Sound(Idle)
  BY DEF Sound, Idle, Request, Routes, Steps, Checks

LEMMA ReqFields ==
  ASSUME Typed, NEW r \in Requests
  PROVE  /\ users \subseteq Users
         /\ req \in [Requests -> Request]
         /\ req[r] \in Request
         /\ Sound(req[r])
  BY DEF Typed, TypeOK

(* Requests that go on to another step.                                    *)
LEMMA GotoStep ==
  ASSUME IInv, NEW r \in Requests, NEW pc \in Steps, Read(r, pc), barred' \subseteq Requests,
         Sound([req[r] EXCEPT !.pc = pc]),
         pc = "delete" => ~Granted(req[r].entry)
  PROVE  IInv'
  <1>1. req[r] \in Request /\ users \subseteq Users /\ UNCHANGED <<users, rows, grants, late>>
    BY ReqFields DEF IInv, Read, tables
  <1>2. Moves(r, [req[r] EXCEPT !.pc = pc])
    BY DEF Read, Goto, Moves
  <1>3. /\ [req[r] EXCEPT !.pc = pc].pc = pc
        /\ [req[r] EXCEPT !.pc = pc].entry = req[r].entry
    BY <1>1 DEF Request
  <1> QED BY <1>1, <1>2, <1>3, ReadStep

LEMMA HoldStep ==
  ASSUME IInv, NEW r \in Requests, NEW pc \in Steps \ {"delete"},
         NEW h, NEW x, NEW n, Hold(r, pc, h, x, n), barred' \subseteq Requests,
         UNCHANGED <<rows, grants, late>>, users' \subseteq Users,
         Sound([Idle EXCEPT !.pc = pc, !.holder = h, !.entry = x, !.name = n])
  PROVE  IInv'
  <1> DEFINE q == [Idle EXCEPT !.pc = pc, !.holder = h, !.entry = x, !.name = n]
  <1>1. Moves(r, q)
    BY DEF Hold, Moves
  <1>2. q.pc = pc
    BY DEF Idle
  <1>3. Sound(q)
    OBVIOUS
  <1> HIDE DEF q
  <1> QED BY <1>1, <1>2, <1>3, ReadStep

LEMMA TakeStep ==
  ASSUME IInv, NEW r \in Requests, NEW pc \in Steps \ {"delete"},
         NEW h, NEW x, NEW n, Take(r, pc, h, x, n), barred' \subseteq Requests,
         Sound([Idle EXCEPT !.pc = pc, !.holder = h, !.entry = x, !.name = n])
  PROVE  IInv'
  <1>1. users \subseteq Users /\ UNCHANGED <<users, rows, grants, late>>
    BY ReqFields DEF IInv, Take, tables
  <1> QED BY <1>1, HoldStep DEF Take

LEMMA LeaveStep ==
  ASSUME IInv, NEW r \in Requests, Leave(r), UNCHANGED tables, barred' \subseteq Requests
  PROVE  IInv'
  <1>1. Moves(r, Idle) /\ Idle.pc = "idle"
    BY DEF Leave, Moves, Idle
  <1>2. users \subseteq Users /\ UNCHANGED <<users, rows, grants, late>>
    BY ReqFields DEF IInv, tables
  <1> QED BY <1>1, <1>2, IdleIsSound, ReadStep

(* What Take makes of an input is sound for the steps it is used for.      *)
LEMMA TakenIsSound ==
  ASSUME NEW pc \in Steps, NEW h \in Holders \cup {Nothing}, NEW x \in Entries \cup {Nothing},
         NEW n \in Names \cup {Nothing},
         pc \in {"checkName", "writeName", "count"} => x \in Entries \ SystemRoles,
         pc \notin {"writeScope", "delete"},
         pc = "writeName" => n \in NamesOf(x),
         pc = "insert" => n \in Names,
         pc \in {"each", "find"} => h \in RoleIds,
         pc \in {"insertAdmin", "findRole"} => h \in Users,
         pc \in {"grant", "remove"} => <<h, x>> \in (Users \X RoleIds) \cup (RoleIds \X PermIds)
  PROVE  Sound([Idle EXCEPT !.pc = pc, !.holder = h, !.entry = x, !.name = n])
  <1> DEFINE q == [Idle EXCEPT !.pc = pc, !.holder = h, !.entry = x, !.name = n]
  <1>1. /\ q.pc = pc
        /\ q.holder = h
        /\ q.entry = x
        /\ q.name = n
    BY DEF Idle
  <1>2. q \in Request
    BY DEF Idle, Request, Routes
  <1> HIDE DEF q
  <1>3. Sound(q)
    BY <1>1, <1>2 DEF Sound
  <1> QED BY <1>3 DEF q

LEMMA InitIInv == Init => IInv
  <1> SUFFICES ASSUME Init PROVE IInv
    OBVIOUS
  <1>1. rows \in [Entries -> Row] /\ grants = {} /\ users = {} /\ late = {}
        /\ req = [r \in Requests |-> Idle] /\ barred = {}
    BY DEF Init
  <1>2. Typed
    BY <1>1, IdleIsSound, RbacAssumption DEF Typed, TypeOK, Sound
  <1>3. SystemLive
    BY DEF Init, SystemLive, Live
  <1>4. SuperAdminResolves
    BY RbacAssumption DEF Init, SuperAdminResolves, Live, Absent, Entries
  <1>5. Counted
    BY <1>1 DEF Counted, Idle
  <1>6. DeletedUnassigned
    <2> SUFFICES ASSUME NEW x \in Entries, rows[x].status = "deleted" PROVE FALSE
      BY DEF DeletedUnassigned
    <2>1. x \in SystemRoles => rows[x].status = "live"
      BY DEF Init
    <2>2. x \notin SystemRoles => rows[x].status = "absent"
      BY DEF Init, Absent
    <2> QED BY <2>1, <2>2
  <1> QED BY <1>2, <1>3, <1>4, <1>5, <1>6 DEF IInv

LEMMA RegistrationStep ==
  ASSUME IInv, NEW r \in Requests, Registration(r), barred' \subseteq Requests
  PROVE  IInv'
  <1>0. Typed /\ users \subseteq Users /\ req[r] \in Request /\ Sound(req[r])
    BY ReqFields DEF IInv
  <1>1. CASE AdminRegister(r)
    <2>1. PICK u \in Users \ users : Take(r, "insertAdmin", u, Nothing, Nothing)
      BY <1>1 DEF AdminRegister
    <2>2. Sound([Idle EXCEPT !.pc = "insertAdmin", !.holder = u, !.entry = Nothing,
                             !.name = Nothing])
      BY TakenIsSound DEF Steps, Holders
    <2> QED BY <2>1, <2>2, TakeStep DEF Steps
  <1>2. CASE InsertAdmin(r)
    <2> DEFINE q == [req[r] EXCEPT !.pc = "findRole"]
    <2>1. req[r].holder \in Users /\ users' = users \cup {req[r].holder}
      BY <1>0, <1>2 DEF InsertAdmin, At, Sound
    <2>2. Moves(r, q) /\ UNCHANGED <<rows, grants, late>>
      BY <1>2 DEF InsertAdmin, Goto, Moves
    <2>3. Sound(q) /\ q.pc = "findRole"
      BY <1>0, <2>1 DEF Sound, Request, Steps
    <2> HIDE DEF q
    <2> QED BY <1>0, <2>1, <2>2, <2>3, ReadStep
  <1>3. CASE FindSuperAdmin(r)
    <2>1. PICK x \in RoleIds : Take(r, "grant", req[r].holder, x, Nothing)
      BY <1>3 DEF FindSuperAdmin
    <2>2. req[r].holder \in Users
      BY <1>0, <1>3 DEF FindSuperAdmin, At, Sound
    <2>3. Sound([Idle EXCEPT !.pc = "grant", !.holder = req[r].holder, !.entry = x,
                             !.name = Nothing])
      BY <2>2, TakenIsSound DEF Steps, Holders, Entries
    <2> QED BY <2>1, <2>3, TakeStep DEF Steps
  <1> QED BY <1>1, <1>2, <1>3 DEF Registration

LEMMA ProtectedStep ==
  ASSUME IInv, NEW r \in Requests, Protected(r), barred' \subseteq Requests
  PROVE  IInv'
  <1>0. Typed /\ users \subseteq Users /\ req[r] \in Request /\ Sound(req[r])
    BY ReqFields DEF IInv
  <1>1. ASSUME NEW u \in users, NEW route \in Routes, Arrive(r, u, route)
        PROVE  IInv'
    <2> DEFINE q == [req[r] EXCEPT !.pc = "role", !.by = u, !.route = route]
    <2>1. Moves(r, q) /\ UNCHANGED <<users, rows, grants, late>>
      BY <1>0, <1>1 DEF Arrive, Moves, Typed, TypeOK, tables
    <2>2. Sound(q) /\ q.pc = "role"
      BY <1>0 DEF Sound, Request, Routes, Steps, Checks
    <2> HIDE DEF q
    <2> QED BY <1>0, <2>1, <2>2, ReadStep
  <1>2. ASSUME RoleRequired(r)
        PROVE  IInv'
    <2>1. Sound([req[r] EXCEPT !.pc = "scope"]) /\ Sound([req[r] EXCEPT !.pc = "handler"])
      BY <1>0 DEF Sound, Request, Routes, Steps, Checks
    <2> QED BY <1>2, <2>1, GotoStep DEF RoleRequired, Steps, Checks
  <1>3. ASSUME ScopeRequired(r)
        PROVE  IInv'
    <2>1. Sound([req[r] EXCEPT !.pc = "group"])
      BY <1>0 DEF Sound, Request, Routes, Steps, Checks
    <2> QED BY <1>3, <2>1, GotoStep DEF ScopeRequired, Steps, Checks
  <1>4. ASSUME GroupRequired(r)
        PROVE  IInv'
    <2> DEFINE q == [req[r] EXCEPT !.pc = "handler", !.by = Nothing]
    <2>1. Moves(r, q) /\ UNCHANGED <<users, rows, grants, late>>
      BY <1>0, <1>4 DEF GroupRequired, Moves, Typed, TypeOK, tables
    <2>2. q \in Request /\ q.pc = "handler"
      BY <1>0 DEF Request, Steps
    <2> HIDE DEF q
    <2>3. Sound(q)
      BY <2>2 DEF Sound
    <2> QED BY <1>0, <2>1, <2>2, <2>3, ReadStep
  <1>5. ASSUME Refuse(r)
        PROVE  IInv'
    BY <1>5, LeaveStep DEF Refuse
  <1> QED BY <1>1, <1>2, <1>3, <1>4, <1>5 DEF Protected

LEMMA CreateStep ==
  ASSUME IInv, NEW r \in Requests, NEW names \in SUBSET Names, Create(r, names),
         barred' \subseteq Requests
  PROVE  IInv'
  <1>1. PICK n \in names : Take(r, "insert", Nothing, Nothing, n)
    BY DEF Create
  <1>2. Sound([Idle EXCEPT !.pc = "insert", !.holder = Nothing, !.entry = Nothing, !.name = n])
    BY TakenIsSound DEF Steps
  <1> QED BY <1>1, <1>2, TakeStep DEF Steps

LEMMA InsertStep ==
  ASSUME IInv, NEW r \in Requests, NEW ids \in SUBSET Entries,
         NEW scopes \in SUBSET (Scopes \cup {Nothing}), Insert(r, ids, scopes),
         barred' \subseteq Requests
  PROVE  IInv' /\ \A y \in SystemRoles : rows'[y] = rows[y]
  <1>0. Typed /\ req[r] \in Request /\ Sound(req[r])
    BY ReqFields DEF IInv
  <1>1. PICK x \in ids, s \in scopes :
           /\ rows[x].status = "absent"
           /\ rows' = [rows EXCEPT ![x] = [name |-> req[r].name, scope |-> s, status |-> "live"]]
    BY DEF Insert
  <1> DEFINE row == [name |-> req[r].name, scope |-> s, status |-> "live"]
  <1>2. req[r].name \in Names
    BY <1>0 DEF Insert, At, Sound
  <1>3. row \in Row
    BY <1>2 DEF Row
  <1>4. x \in Entries \ SystemRoles
    BY <1>1 DEF IInv, SystemLive, Live
  <1>5. SuperAdmin \in Entries \ {Nothing} /\ rows[SuperAdmin].name = SuperAdminName
    BY RbacAssumption DEF IInv, SuperAdminResolves, Entries
  <1>6. row.name # SuperAdminName /\ row.status = "live"
    BY <1>5 DEF Insert, Free
  <1>7. Moves(r, Idle) /\ Idle.pc = "idle" /\ UNCHANGED <<users, grants, late>>
    BY DEF Insert, Leave, Moves, Idle
  <1>8. rows' = [rows EXCEPT ![x] = row]
    BY <1>1
  <1> HIDE DEF row
  <1> QED BY <1>3, <1>4, <1>6, <1>7, <1>8, IdleIsSound, RowStep

LEMMA PickStep ==
  ASSUME IInv, NEW r \in Requests, NEW ids \in SUBSET (Entries \ SystemRoles),
         NEW pc \in {"checkName", "count"}, Pick(r, pc, ids), barred' \subseteq Requests
  PROVE  IInv'
  <1>1. PICK x \in ids : Take(r, pc, Nothing, x, Nothing)
    BY DEF Pick
  <1>2. Sound([Idle EXCEPT !.pc = pc, !.holder = Nothing, !.entry = x, !.name = Nothing])
    BY TakenIsSound DEF Steps
  <1> QED BY <1>1, <1>2, TakeStep DEF Steps

LEMMA CountStep ==
  ASSUME IInv, NEW r \in Requests, NEW ids, Count(r, ids), barred' \subseteq Requests
  PROVE  IInv'
  <1>1. req[r] \in Request /\ Sound(req[r]) /\ req[r].pc = "count"
    BY ReqFields DEF IInv, Count, At
  <1>2. Sound([req[r] EXCEPT !.pc = "delete"])
    BY <1>1 DEF Sound, Request, Steps
  <1> QED BY <1>2, GotoStep DEF Count, Steps

LEMMA SoftDeleteStep ==
  ASSUME IInv, NEW r \in Requests, NEW ids, SoftDelete(r, ids), barred' \subseteq Requests
  PROVE  IInv' /\ \A y \in SystemRoles : rows'[y] = rows[y]
  <1>1. Typed /\ req[r] \in Request /\ Sound(req[r]) /\ req[r].pc = "delete"
    BY ReqFields DEF IInv, SoftDelete, At
  <1> DEFINE x == req[r].entry
             row == [rows[x] EXCEPT !.status = "deleted"]
  <1>2. x \in Entries \ SystemRoles /\ rows[x] \in Row
    BY <1>1 DEF Sound, Typed, TypeOK
  <1>3. row \in Row /\ row.name = rows[x].name
    BY <1>2 DEF Row
  <1>4. x \in RoleIds => row.name # SuperAdminName
    BY <1>2, <1>3, RbacAssumption DEF IInv, SuperAdminResolves
  <1>5. Granted(x) => x \in late
    BY <1>1 DEF IInv, Counted
  <1>6. Moves(r, Idle) /\ Idle.pc = "idle"
    BY DEF SoftDelete, Leave, Moves, Idle
  <1>7. rows' = [rows EXCEPT ![x] = row] /\ UNCHANGED <<users, grants, late>>
    BY DEF SoftDelete, Set
  <1> HIDE DEF x, row
  <1> QED BY <1>2, <1>3, <1>4, <1>5, <1>6, <1>7, IdleIsSound, RowStep

LEMMA CheckNameStep ==
  ASSUME IInv, NEW r \in Requests, CheckName(r), barred' \subseteq Requests
  PROVE  IInv'
  <1>1. req[r] \in Request /\ Sound(req[r]) /\ req[r].pc = "checkName"
    BY ReqFields DEF IInv, CheckName, At
  <1>2. req[r].entry \in Entries \ SystemRoles
    BY <1>1 DEF Sound
  <1>3. ASSUME NEW n \in NamesOf(req[r].entry), Take(r, "writeName", Nothing, req[r].entry, n)
        PROVE  IInv'
    <2>1. n \in Names
      BY <1>3 DEF NamesOf, Names
    <2>2. Sound([Idle EXCEPT !.pc = "writeName", !.holder = Nothing,
                             !.entry = req[r].entry, !.name = n])
      BY <1>2, <1>3, <2>1, TakenIsSound DEF Steps
    <2> QED BY <1>3, <2>2, TakeStep DEF Steps
  <1>4. ASSUME req[r].entry \in RoleIds, Read(r, "writeScope")
        PROVE  IInv'
    <2>1. Sound([req[r] EXCEPT !.pc = "writeScope"])
      BY <1>1, <1>2, <1>4 DEF Sound, Request, Steps
    <2> QED BY <1>4, <2>1, GotoStep DEF Steps
  <1> QED BY <1>3, <1>4 DEF CheckName

LEMMA WriteNameStep ==
  ASSUME IInv, NEW r \in Requests, WriteName(r), barred' \subseteq Requests
  PROVE  IInv' /\ \A y \in SystemRoles : rows'[y] = rows[y]
  <1>1. Typed /\ req[r] \in Request /\ Sound(req[r]) /\ req[r].pc = "writeName"
    BY ReqFields DEF IInv, WriteName, At
  <1> DEFINE x == req[r].entry
             row == [rows[x] EXCEPT !.name = req[r].name]
             q == IF x \in RoleIds THEN [req[r] EXCEPT !.pc = "writeScope"] ELSE Idle
  <1>2. x \in Entries \ SystemRoles /\ rows[x] \in Row /\ req[r].name \in Names
    BY <1>1 DEF Sound, Typed, TypeOK, NamesOf, Names
  <1>3. row \in Row /\ row.name = req[r].name /\ row.status = rows[x].status
    BY <1>2 DEF Row
  <1>4. SuperAdmin \in Entries \ {x} /\ rows[SuperAdmin].name = SuperAdminName
    BY <1>2, RbacAssumption DEF IInv, SuperAdminResolves, Entries
  <1>5. row.name # SuperAdminName
    BY <1>3, <1>4 DEF WriteName, Free
  <1>6. row.status = "deleted" /\ Granted(x) => x \in late
    BY <1>2, <1>3 DEF IInv, DeletedUnassigned
  <1>7. Moves(r, q)
    BY <1>2, RbacAssumption DEF WriteName, Goto, Leave, Moves, Entries
  <1>8. Sound(q) /\ q.pc # "delete"
    <2>1. CASE x \in RoleIds
      BY <1>1, <1>2, <2>1 DEF Sound, Request, Steps
    <2>2. CASE x \notin RoleIds
      BY <2>2, IdleIsSound DEF Idle
    <2> QED BY <2>1, <2>2
  <1>9. rows' = [rows EXCEPT ![x] = row] /\ UNCHANGED <<users, grants, late>>
    BY DEF WriteName, Set
  <1> HIDE DEF x, row, q
  <1> QED BY <1>2, <1>3, <1>5, <1>6, <1>7, <1>8, <1>9, RowStep

LEMMA WriteScopeStep ==
  ASSUME IInv, NEW r \in Requests, WriteScope(r), barred' \subseteq Requests
  PROVE  IInv' /\ \A y \in SystemRoles : rows'[y] = rows[y]
  <1>1. Typed /\ req[r] \in Request /\ Sound(req[r]) /\ req[r].pc = "writeScope"
    BY ReqFields DEF IInv, WriteScope, At
  <1>2. PICK s \in Scopes : Set(req[r].entry, [rows[req[r].entry] EXCEPT !.scope = s])
    BY DEF WriteScope
  <1> DEFINE x == req[r].entry
             row == [rows[x] EXCEPT !.scope = s]
  <1>3. x \in Entries \ SystemRoles /\ x \in RoleIds /\ rows[x] \in Row
    BY <1>1 DEF Sound, Typed, TypeOK
  <1>4. row \in Row /\ row.name = rows[x].name /\ row.status = rows[x].status
    BY <1>3 DEF Row
  <1>5. row.name # SuperAdminName
    BY <1>3, <1>4, RbacAssumption DEF IInv, SuperAdminResolves
  <1>6. row.status = "deleted" /\ Granted(x) => x \in late
    BY <1>3, <1>4 DEF IInv, DeletedUnassigned
  <1>7. Moves(r, Idle) /\ Idle.pc = "idle"
    BY DEF WriteScope, Leave, Moves, Idle
  <1>8. rows' = [rows EXCEPT ![x] = row] /\ UNCHANGED <<users, grants, late>>
    BY <1>2 DEF Set
  <1> HIDE DEF x, row
  <1> QED BY <1>3, <1>4, <1>5, <1>6, <1>7, <1>8, IdleIsSound, RowStep

LEMMA AssignmentsStep ==
  ASSUME IInv, NEW r \in Requests, Assignments(r), barred' \subseteq Requests
  PROVE  IInv'
  <1>0. Typed /\ users \subseteq Users /\ req[r] \in Request /\ Sound(req[r])
    BY ReqFields DEF IInv
  <1>1. ASSUME NEW x \in RoleIds, NEW pc \in {"each", "find"}, Take(r, pc, x, Nothing, Nothing)
        PROVE  IInv'
    <2>1. Sound([Idle EXCEPT !.pc = pc, !.holder = x, !.entry = Nothing, !.name = Nothing])
      BY TakenIsSound DEF Steps, Holders
    <2> QED BY <1>1, <2>1, TakeStep DEF Steps
  <1>2. ASSUME NEW u \in Users, NEW x \in RoleIds, NEW pc \in {"grant", "remove"},
               Take(r, pc, u, x, Nothing)
        PROVE  IInv'
    <2>1. Sound([Idle EXCEPT !.pc = pc, !.holder = u, !.entry = x, !.name = Nothing])
      BY TakenIsSound DEF Steps, Holders, Entries
    <2> QED BY <1>2, <2>1, TakeStep DEF Steps
  <1>3. ASSUME NEW p \in PermIds, NEW pc \in {"grant", "remove"}, req[r].pc \in {"each", "find"},
               Take(r, pc, req[r].holder, p, Nothing)
        PROVE  IInv'
    <2>1. req[r].holder \in RoleIds
      BY <1>0, <1>3 DEF Sound
    <2>2. Sound([Idle EXCEPT !.pc = pc, !.holder = req[r].holder, !.entry = p, !.name = Nothing])
      BY <2>1, TakenIsSound DEF Steps, Holders, Entries
    <2> QED BY <1>3, <2>2, TakeStep DEF Steps
  <1>4. ASSUME InsertRolePermission(r)
        PROVE  IInv'
    <2> DEFINE q == [req[r] EXCEPT !.pc = "each"]
    <2>1. /\ req[r].pc = "grant"
          /\ req[r].entry \in PermIds
          /\ <<req[r].holder, req[r].entry>> \in (Users \X RoleIds) \cup (RoleIds \X PermIds)
      BY <1>0, <1>4 DEF InsertRolePermission, At, Sound
    <2>2. req[r].holder \in RoleIds
      BY <2>1, RbacAssumption
    <2>3. Sound(q) /\ q.pc = "each" /\ Moves(r, q)
      BY <1>0, <1>4, <2>2 DEF Sound, Request, Steps, InsertRolePermission, Goto, Moves
    <2>4. Grant(req[r].holder, req[r].entry)
      BY <1>4 DEF InsertRolePermission
    <2> HIDE DEF q
    <2> QED BY <2>1, <2>3, <2>4, GrantStep
  <1>5. ASSUME InsertUserRole(r)
        PROVE  IInv'
    <2>1. /\ req[r].pc = "grant"
          /\ <<req[r].holder, req[r].entry>> \in (Users \X RoleIds) \cup (RoleIds \X PermIds)
          /\ Grant(req[r].holder, req[r].entry)
      BY <1>0, <1>5 DEF InsertUserRole, At, Sound
    <2>2. Moves(r, Idle) /\ Idle.pc = "idle"
      BY <1>5 DEF InsertUserRole, Leave, Moves, Idle
    <2> QED BY <2>1, <2>2, IdleIsSound, GrantStep
  <1>6. ASSUME DeleteRolePermission(r) \/ DeleteUserRole(r)
        PROVE  IInv'
    BY <1>6, IdleIsSound, RevokeStep DEF DeleteRolePermission, DeleteUserRole
  <1>7. ASSUME AssignPermissions(r) \/ RemovePermission(r)
        PROVE  IInv'
    BY <1>1, <1>7 DEF AssignPermissions, RemovePermission
  <1>8. ASSUME AssignRole(r) \/ RemoveRole(r)
        PROVE  IInv'
    BY <1>0, <1>2, <1>8 DEF AssignRole, RemoveRole
  <1>9. ASSUME EachPermission(r) \/ FindPermission(r)
        PROVE  IInv'
    BY <1>3, <1>9 DEF EachPermission, FindPermission, At
  <1>10. ASSUME InviteUser(r)
         PROVE  IInv'
    <2>1. PICK u \in Users \ users, x \in RoleIds :
            users' = users \cup {u} /\ Hold(r, "grant", u, x, Nothing)
      BY <1>10 DEF InviteUser
    <2>2. Sound([Idle EXCEPT !.pc = "grant", !.holder = u, !.entry = x, !.name = Nothing])
      BY TakenIsSound DEF Steps, Holders, Entries
    <2>3. users' \subseteq Users /\ UNCHANGED <<rows, grants, late>>
      BY <1>0, <1>10, <2>1 DEF InviteUser
    <2> QED BY <2>1, <2>2, <2>3, HoldStep DEF Steps
  <1> QED BY <1>4, <1>5, <1>6, <1>7, <1>8, <1>9, <1>10 DEF Assignments

-----------------------------------------------------------------------------
(* A step of a request, and what it does to system roles.                  *)
OneStep(r) ==
    \/ Registration(r)
    \/ Protected(r)
    \/ Roles(r)
    \/ Permissions(r)
    \/ CheckName(r) \/ WriteName(r)
    \/ Assignments(r)

SystemRolesSame == \A x \in SystemRoles : rows'[x] = rows[x]

LEMMA InvariantStep ==
  ASSUME IInv, NEW r \in Requests, OneStep(r), barred' \subseteq Requests
  PROVE  IInv' /\ SystemRolesSame
  <1> USE DEF SystemRolesSame
  <1>0. ASSUME Registration(r)
        PROVE  IInv' /\ SystemRolesSame
    <2>1. UNCHANGED rows
      BY <1>0 DEF Registration, AdminRegister, InsertAdmin, FindSuperAdmin, Take, tables
    <2> QED BY <1>0, <2>1, RegistrationStep
  <1>1. ASSUME Protected(r)
        PROVE  IInv' /\ SystemRolesSame
    <2>1. UNCHANGED rows
      BY <1>1 DEF Protected, Arrive, RoleRequired, ScopeRequired, GroupRequired, Refuse,
                  Read, tables
    <2> QED BY <1>1, <2>1, ProtectedStep
  <1>2. ASSUME CreateRole(r) \/ CreatePermission(r)
        PROVE  IInv' /\ SystemRolesSame
    <2>1. UNCHANGED rows
      BY <1>2 DEF CreateRole, CreatePermission, Create, Take, tables
    <2>2. RoleNames \in SUBSET Names /\ PermNames \in SUBSET Names
      BY DEF Names
    <2> QED BY <1>2, <2>1, <2>2, CreateStep DEF CreateRole, CreatePermission
  <1>3. ASSUME InsertRole(r) \/ InsertPermission(r)
        PROVE  IInv' /\ SystemRolesSame
    <2>1. RoleIds \in SUBSET Entries /\ PermIds \in SUBSET Entries
      BY DEF Entries
    <2> QED BY <1>3, <2>1, InsertStep DEF InsertRole, InsertPermission
  <1>4. ASSUME UpdateRole(r) \/ UpdatePermission(r) \/ DeleteRole(r) \/ DeletePermission(r)
        PROVE  IInv' /\ SystemRolesSame
    <2>1. UNCHANGED rows
      BY <1>4 DEF UpdateRole, UpdatePermission, DeleteRole, DeletePermission, Pick, Take, tables
    <2>2. /\ RoleIds \ SystemRoles \in SUBSET (Entries \ SystemRoles)
          /\ PermIds \in SUBSET (Entries \ SystemRoles)
      BY RbacAssumption DEF Entries
    <2> QED BY <1>4, <2>1, <2>2, PickStep
            DEF UpdateRole, UpdatePermission, DeleteRole, DeletePermission
  <1>5. ASSUME CountUsers(r) \/ CountRoles(r)
        PROVE  IInv' /\ SystemRolesSame
    <2>1. UNCHANGED rows
      BY <1>5 DEF CountUsers, CountRoles, Count, Read, tables
    <2> QED BY <1>5, <2>1, CountStep DEF CountUsers, CountRoles
  <1>6. ASSUME SoftDeleteRole(r) \/ SoftDeletePermission(r)
        PROVE  IInv' /\ SystemRolesSame
    BY <1>6, SoftDeleteStep DEF SoftDeleteRole, SoftDeletePermission
  <1>7. ASSUME CheckName(r)
        PROVE  IInv' /\ SystemRolesSame
    <2>1. UNCHANGED rows
      BY <1>7 DEF CheckName, Take, Read, tables
    <2> QED BY <1>7, <2>1, CheckNameStep
  <1>8. ASSUME WriteName(r) \/ WriteScope(r)
        PROVE  IInv' /\ SystemRolesSame
    BY <1>8, WriteNameStep, WriteScopeStep
  <1>9. ASSUME Assignments(r)
        PROVE  IInv' /\ SystemRolesSame
    <2>1. UNCHANGED rows
      BY <1>9 DEF Assignments, AssignPermissions, EachPermission, InsertRolePermission,
                  RemovePermission, FindPermission, DeleteRolePermission, AssignRole, InviteUser,
                  InsertUserRole, RemoveRole, DeleteUserRole, Take, Grant, Revoke, tables
    <2> QED BY <1>9, <2>1, AssignmentsStep
  <1> QED BY <1>0, <1>1, <1>2, <1>3, <1>4, <1>5, <1>6, <1>7, <1>8, <1>9
          DEF OneStep, Roles, Permissions

LEMMA InvariantNext == IInv /\ [Next]_vars => IInv' /\ (SystemRolesSame \/ UNCHANGED vars)
  <1>1. ASSUME IInv, Next
        PROVE  IInv' /\ SystemRolesSame
    <2>1. barred' \subseteq Requests
      BY <1>1 DEF Next, Remember
    <2> QED BY <1>1, <2>1, InvariantStep DEF Next, OneStep
  <1>2. ASSUME IInv, UNCHANGED vars
        PROVE  IInv'
    BY <1>2 DEF vars, IInv, Typed, TypeOK, Sound, Request, NamesOf, SystemLive, Live,
                SuperAdminResolves, Counted, DeletedUnassigned, Granted
  <1> QED BY <1>1, <1>2

LEMMA Invariant == Spec => []IInv
  BY InitIInv, InvariantNext, PTL DEF Spec

(* What the tables and the requests in progress may hold.                  *)
THEOREM TypeCorrect == Spec => []TypeOK
  <1>1. IInv => TypeOK
    BY DEF IInv, Typed
  <1> QED BY <1>1, Invariant, PTL

(* The name super_admin means the seeded role, live and of the back office,*)
(* for as long as the service runs (jwt.go:109, 138).                      *)
THEOREM SuperAdminTheorem == Spec => []SuperAdminResolves
  <1>1. IInv => SuperAdminResolves
    BY DEF IInv
  <1> QED BY <1>1, Invariant, PTL

(* No step writes the row of a system role (role.go:247, 309).             *)
THEOREM SystemRolesTheorem == Spec => SystemRolesStay
  <1>1. IInv /\ [Next]_vars => [\A x \in SystemRoles : rows'[x] = rows[x]]_vars
    BY InvariantNext DEF SystemRolesSame
  <1> QED BY <1>1, Invariant, PTL DEF Spec, SystemRolesStay

(* What is deleted is held by nobody to whom it was not granted after it   *)
(* had been counted (role.go:315, permission.go:324).                      *)
THEOREM DeletedUnassignedTheorem == Spec => []DeletedUnassigned
  <1>1. IInv => DeletedUnassigned
    BY DEF IInv
  <1> QED BY <1>1, Invariant, PTL

-----------------------------------------------------------------------------
(* Who is let through.  A request is only moved on by itself, and from the *)
(* first check only by that check and by a refusal.                        *)
LEMMA OthersSame ==
  ASSUME TypeOK, NEW r \in Requests, OneStep(r)
  PROVE  \A s \in Requests \ {r} : req'[s] = req[s]
  <1>1. req \in [Requests -> Request]
    BY DEF TypeOK
  <1>2. ASSUME NEW q, req' = [req EXCEPT ![r] = q]
        PROVE  \A s \in Requests \ {r} : req'[s] = req[s]
    BY <1>1, <1>2
  <1>3. Registration(r) \/ Protected(r) => \E q : req' = [req EXCEPT ![r] = q]
    BY DEF Registration, AdminRegister, InsertAdmin, FindSuperAdmin, Take, Hold, Protected, Arrive, RoleRequired, ScopeRequired, GroupRequired, Refuse, Read, Goto, Leave
  <1>4. Roles(r) \/ Permissions(r) => \E q : req' = [req EXCEPT ![r] = q]
    BY DEF Roles, CreateRole, InsertRole, UpdateRole, WriteScope, DeleteRole, CountUsers,
           SoftDeleteRole, Permissions, CreatePermission, InsertPermission, UpdatePermission,
           DeletePermission, CountRoles, SoftDeletePermission, Create, Insert, Pick, Count,
           SoftDelete, Take, Hold, Read, Goto, Leave
  <1>5. CheckName(r) \/ WriteName(r) => \E q : req' = [req EXCEPT ![r] = q]
    BY DEF CheckName, WriteName, Take, Hold, Read, Goto, Leave
  <1>6. Assignments(r) => \E q : req' = [req EXCEPT ![r] = q]
    BY DEF Assignments, AssignPermissions, EachPermission, InsertRolePermission,
           RemovePermission, FindPermission, DeleteRolePermission, AssignRole, InviteUser,
           InsertUserRole, RemoveRole, DeleteUserRole, Revoke, Take, Hold, Goto, Leave
  <1> QED BY <1>2, <1>3, <1>4, <1>5, <1>6 DEF OneStep

LEMMA EntrySteps ==
  ASSUME NEW r \in Requests, OneStep(r), req[r].pc = "role"
  PROVE  RoleRequired(r) \/ Refuse(r)
  BY DEF OneStep, Registration, AdminRegister, InsertAdmin, FindSuperAdmin, Protected, Arrive,
         ScopeRequired, GroupRequired, Roles, CreateRole, InsertRole,
         UpdateRole, WriteScope, DeleteRole, CountUsers, SoftDeleteRole, Permissions,
         CreatePermission, InsertPermission, UpdatePermission, DeletePermission, CountRoles,
         SoftDeletePermission, CheckName, WriteName, Assignments, AssignPermissions,
         EachPermission, InsertRolePermission, RemovePermission, FindPermission,
         DeleteRolePermission, AssignRole, InviteUser, InsertUserRole, RemoveRole, DeleteUserRole,
         Create, Insert, Pick, Count, SoftDelete, Revoke, Begin, At

LEMMA PassedNext == TypeOK /\ Passed /\ [Next]_vars => Passed'
  <1>1. ASSUME TypeOK, Passed, NEW r \in Requests, OneStep(r), Remember
        PROVE  Passed'
    <2> SUFFICES ASSUME NEW s \in barred' PROVE req'[s].pc = "role"
      BY DEF Passed
    <2>1. /\ s \in Requests
          /\ req'[s].pc # "idle"
          /\ s \in barred \/ req'[s].pc = "role"
          /\ ~IsSuperAdmin(req[s].by)'
      BY <1>1 DEF Remember
    <2> SUFFICES ASSUME req'[s].pc # "role" PROVE FALSE
      OBVIOUS
    <2>2. req[s].pc = "role"
      BY <1>1, <2>1 DEF Passed
    <2>3. s = r
      BY <1>1, <2>1, <2>2, OthersSame
    <2>4. req \in [Requests -> Request] /\ req[r] \in Request
      BY <1>1 DEF TypeOK
    <2>5. ~Refuse(r)
      BY <2>1, <2>3, <2>4 DEF Refuse, Leave, Idle
    <2>6. RoleRequired(r)
      BY <1>1, <2>2, <2>3, <2>5, EntrySteps
    <2>7. IsSuperAdmin(req[r].by) /\ UNCHANGED <<rows, grants>>
      BY <2>6 DEF RoleRequired, Read, tables
    <2>8. req'[r].by = req[r].by
      BY <2>4, <2>6 DEF RoleRequired, Read, Goto, Request
    <2>9. IsSuperAdmin(req[r].by)'
      BY <2>7, <2>8 DEF IsSuperAdmin, LiveRoles, Live
    <2> QED BY <2>1, <2>3, <2>9
  <1>2. Passed /\ UNCHANGED vars => Passed'
    BY DEF Passed, vars
  <1> QED BY <1>1, <1>2 DEF Next, OneStep

(* Nobody gets to a handler that writes roles, permissions or assignments  *)
(* who was not a super admin at some time since the request arrived; for   *)
(* the assignment of roles, only because of the group before it            *)
(* (routes.go:89).                                                         *)
THEOREM SuperAdminOnlyTheorem == Spec => []SuperAdminOnly
  <1>1. Init => Passed
    BY DEF Init, Passed
  <1>2. Passed => SuperAdminOnly
    BY DEF Passed, SuperAdminOnly, Checks
  <1> QED BY <1>1, <1>2, TypeCorrect, PassedNext, PTL DEF Spec
=============================================================================
