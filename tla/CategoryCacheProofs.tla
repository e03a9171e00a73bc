------------------------ MODULE CategoryCacheProofs ------------------------
(***************************************************************************)
(* Types, the slugs of live rows, and why the list of categories in Redis  *)
(* is only out of date for the reasons StaleHasReason gives, for any       *)
(* categories, requests and failures.                                      *)
(*                                                                         *)
(* A request that lists, and one that has not written yet, has nothing to  *)
(* be excused for (Clean); a list that is on its way to Redis is the table *)
(* unless it was cut or overtaken (Fills).  Together with StaleHasReason these    *)
(* are inductive: the table only changes in Write, which marks the request *)
(* and the lists under way, and a request that is marked leaves through    *)
(* Refuse or InvalidateCategories.                                         *)
(***************************************************************************)
EXTENDS CategoryCache, TLAPS

(* The steps before the first statement of a request.                      *)
Unwritten == {"idle", "get", "query", "fill", "checkNew", "insert", "delete"}

(* What a request has read by the time it writes.                          *)
Inputs ==
    \A r \in Requests :
      /\ req[r].pc \in {"insert", "slug"} => req[r].slug \in Slugs
      /\ req[r].pc = "delete" => req[r].cat \in Categories

Typed == TypeOK /\ Inputs

Clean == \A r \in Requests : req[r].pc \in Unwritten => ~req[r].wrote

Fills ==
    \A r \in Requests :
      req[r].pc = "fill" => req[r].cut \/ req[r].overtaken \/ req[r].list = Public

IInv == Typed /\ Clean /\ Fills /\ StaleHasReason

-----------------------------------------------------------------------------
(* Lists.                                                                  *)

LEMMA ListsIntro ==
  ASSUME NEW C \in SUBSET Categories, NEW l \in [C -> Row]
  PROVE  l \in Lists
  BY DEF Lists

LEMMA ListsElim ==
  ASSUME NEW l \in Lists
  PROVE  /\ DOMAIN l \subseteq Categories
         /\ l \in [DOMAIN l -> Row]
  BY DEF Lists

LEMMA EmptyIsList == Empty \in Lists
  <1>1. Empty \in [{} -> Row]
    BY DEF Empty
  <1> QED BY <1>1 DEF Lists

LEMMA PartIsList ==
  ASSUME rows \in Lists, NEW read \in SUBSET Active
  PROVE  [c \in read |-> rows[c]] \in Lists
  <1>1. rows \in [DOMAIN rows -> Row] /\ read \subseteq DOMAIN rows
    BY ListsElim DEF Active
  <1>2. [c \in read |-> rows[c]] \in [read -> Row] /\ read \subseteq Categories
    BY <1>1, ListsElim
  <1> QED BY <1>2, ListsIntro

-----------------------------------------------------------------------------
(* The forms a step takes.  A quiet step moves one request on, without a   *)
(* word to the table or to Redis.                                          *)
Quiet(r, q) ==
    /\ req' = [req EXCEPT ![r] = q]
    /\ UNCHANGED <<rows, deleted, cache, ttl, excused>>

(* A request may move to q without having written or learnt anything.      *)
Harmless(r, q) ==
    /\ q \in Request
    /\ q.pc \in {"insert", "slug"} => q.slug \in Slugs
    /\ q.pc = "delete" => q.cat \in Categories
    /\ q.pc \in Unwritten => ~q.wrote
    /\ req[r].wrote => q.wrote
    /\ q.pc = "fill" => q.cut \/ q.overtaken \/ q.list = Public

LEMMA QuietStep ==
  ASSUME IInv, NEW r \in Requests, NEW q, Quiet(r, q), Harmless(r, q)
  PROVE  IInv'
  <1> USE DEF Quiet, Harmless
  <1>1. req \in [Requests -> Request]
    BY DEF IInv, Typed, TypeOK
  <1>2. /\ req' \in [Requests -> Request]
        /\ req'[r] = q
        /\ \A s \in Requests \ {r} : req'[s] = req[s]
    BY <1>1
  <1>3. Public' = Public /\ Stale' = Stale
    BY DEF Public, Active, Stale
  <1>4. TypeOK'
    BY <1>2 DEF IInv, Typed, TypeOK, Lists
  <1>5. Inputs'
    BY <1>2 DEF IInv, Typed, Inputs
  <1>6. Clean'
    BY <1>2 DEF IInv, Clean
  <1>7. Fills'
    BY <1>2, <1>3 DEF IInv, Fills
  <1>8. StaleHasReason'
    BY <1>2, <1>3 DEF IInv, StaleHasReason
  <1> QED BY <1>4, <1>5, <1>6, <1>7, <1>8 DEF IInv, Typed

(* A request that leaves through Refuse takes its reason with it.          *)
LEMMA RefuseStep ==
  ASSUME IInv, NEW r \in Requests, Refuse(r)
  PROVE  IInv'
  <1>1. req \in [Requests -> Request]
    BY DEF IInv, Typed, TypeOK
  <1>2. Idle \in Request
    BY EmptyIsList DEF Idle, Request, Steps
  <1>3. /\ req' \in [Requests -> Request]
        /\ req'[r] = Idle
        /\ \A s \in Requests \ {r} : req'[s] = req[s]
        /\ excused' = (excused \/ req[r].wrote)
        /\ UNCHANGED <<rows, deleted, cache, ttl>>
    BY <1>1, <1>2 DEF Refuse, Leave, Excuse, tableVars, cacheVars
  <1>4. Idle.pc = "idle" /\ Idle.wrote = FALSE
    BY DEF Idle
  <1>5. Public' = Public /\ Stale' = Stale
    BY <1>3 DEF Public, Active, Stale
  <1>6. req[r].wrote \in BOOLEAN
    BY <1>1 DEF Request
  <1>7. TypeOK'
    BY <1>3, <1>6 DEF IInv, Typed, TypeOK, Lists
  <1>8. Inputs'
    BY <1>3, <1>4 DEF IInv, Typed, Inputs
  <1>9. Clean'
    BY <1>3, <1>4 DEF IInv, Clean
  <1>10. Fills'
    BY <1>3, <1>4, <1>5 DEF IInv, Fills
  <1>11. StaleHasReason'
    BY <1>3, <1>5 DEF IInv, StaleHasReason
  <1> QED BY <1>7, <1>8, <1>9, <1>10, <1>11 DEF IInv, Typed

(* A request that writes is the reason until it leaves.                    *)
LEMMA WriteStep ==
  ASSUME IInv, NEW r \in Requests, NEW pc \in Steps \ Unwritten, pc # "slug",
         NEW new \in Lists, Write(r, pc, new),
         deleted' \subseteq Categories, DOMAIN new \cap deleted' = {}
  PROVE  IInv'
  <1>1. req \in [Requests -> Request]
    BY DEF IInv, Typed, TypeOK
  <1>2. /\ rows' = new
        /\ UNCHANGED <<cache, ttl, excused>>
        /\ req' = [s \in Requests |->
                 IF s = r THEN [req[r] EXCEPT !.pc = pc, !.wrote = TRUE]
                 ELSE IF req[s].pc = "fill" THEN [req[s] EXCEPT !.overtaken = TRUE]
                 ELSE req[s]]
    BY DEF Write, At, cacheVars
  <1>3. req' \in [Requests -> Request]
    <2>1. [req[r] EXCEPT !.pc = pc, !.wrote = TRUE] \in Request
      BY <1>1 DEF Request
    <2>2. \A s \in Requests : [req[s] EXCEPT !.overtaken = TRUE] \in Request
      BY <1>1 DEF Request
    <2> QED BY <1>1, <1>2, <2>1, <2>2
  <1>4. req'[r].pc = pc /\ req'[r].wrote = TRUE /\ req'[r].slug = req[r].slug
    BY <1>1, <1>2 DEF Request
  <1>5. ASSUME NEW s \in Requests \ {r}
        PROVE  /\ req'[s].pc = req[s].pc /\ req'[s].slug = req[s].slug
               /\ req'[s].cat = req[s].cat /\ req'[s].wrote = req[s].wrote
               /\ req[s].pc = "fill" => req'[s].overtaken
    BY <1>1, <1>2 DEF Request
  <1>6. TypeOK'
    BY <1>2, <1>3 DEF IInv, Typed, TypeOK, Lists
  <1>7. pc \notin {"insert", "slug", "delete", "fill"}
    BY DEF Unwritten
  <1>8. Inputs'
    BY <1>4, <1>5, <1>7 DEF IInv, Typed, Inputs
  <1>9. Clean'
    BY <1>4, <1>5 DEF IInv, Clean
  <1>10. Fills'
    BY <1>4, <1>5, <1>7 DEF IInv, Fills
  <1>11. StaleHasReason'
    BY <1>4 DEF StaleHasReason
  <1> QED BY <1>6, <1>8, <1>9, <1>10, <1>11 DEF IInv, Typed

(* An UPDATE of one row, be it there or not.                               *)
LEMMA UpdateStep ==
  ASSUME IInv, NEW r \in Requests, NEW pc \in Steps \ Unwritten, pc # "slug",
         NEW row, Found(r) => row \in Row, Update(r, pc, row)
  PROVE  IInv'
  <1> DEFINE new == [c \in DOMAIN rows |-> IF c = req[r].cat THEN row ELSE rows[c]]
  <1>1. rows \in Lists /\ deleted \subseteq Categories /\ DOMAIN rows \cap deleted = {}
    BY DEF IInv, Typed, TypeOK
  <1>2. DOMAIN rows \subseteq Categories /\ rows \in [DOMAIN rows -> Row]
    BY <1>1, ListsElim
  <1>3. new \in [DOMAIN rows -> Row]
    BY <1>2 DEF Found
  <1>4. new \in Lists
    BY <1>2, <1>3, ListsIntro
  <1>5. Write(r, pc, new) /\ deleted' = deleted /\ DOMAIN new = DOMAIN rows
    BY DEF Update
  <1> HIDE DEF new
  <1> QED BY <1>1, <1>4, <1>5, WriteStep

-----------------------------------------------------------------------------
(* One lemma for each of the requests.                                     *)

LEMMA StartStep ==
  ASSUME IInv, NEW r \in Requests, NEW pc \in Steps, pc \notin {"fill", "insert", "slug"},
         NEW c \in Categories \cup {NoCategory}, pc = "delete" => c \in Categories,
         Start(r, pc, c)
  PROVE  IInv'
  <1> DEFINE q == [req[r] EXCEPT !.pc = pc, !.cat = c]
  <1>1. req \in [Requests -> Request] /\ req[r].pc = "idle" /\ ~req[r].wrote
    BY DEF IInv, Typed, TypeOK, Clean, Start, At, Unwritten
  <1>2. Quiet(r, q)
    BY <1>1 DEF Quiet, Start, Request, tableVars, cacheVars
  <1>3. Harmless(r, q)
    BY <1>1 DEF Harmless, Request
  <1> HIDE DEF q
  <1> QED BY <1>2, <1>3, QuietStep

LEMMA ListingStep ==
  ASSUME IInv, NEW r \in Requests, Listing(r)
  PROVE  IInv'
  <1>1. req \in [Requests -> Request] /\ rows \in Lists
    BY DEF IInv, Typed, TypeOK
  <1>2. req[r].pc \in Unwritten => ~req[r].wrote
    BY DEF IInv, Clean
  <1>3. Idle \in Request
    BY EmptyIsList DEF Idle, Request, Steps
  <1>4. CASE ListPublicCategories(r)
    BY <1>4, StartStep DEF ListPublicCategories, Steps
  <1>5. CASE GetCategories(r)
    <2>1. req[r].pc = "get" /\ ~req[r].wrote
      BY <1>2, <1>5 DEF GetCategories, At, Unwritten
    <2>2. CASE Leave(r)
      <3>1. Quiet(r, Idle)
        BY <1>5, <2>2 DEF GetCategories, Leave, Quiet, tableVars, cacheVars
      <3>2. Harmless(r, Idle)
        BY <1>3, <2>1 DEF Harmless, Idle
      <3> QED BY <3>1, <3>2, QuietStep
    <2>3. CASE Goto(r, "query")
      <3> DEFINE q == [req[r] EXCEPT !.pc = "query"]
      <3>1. Quiet(r, q)
        BY <1>1, <1>5, <2>3 DEF GetCategories, Goto, Quiet, Request, tableVars, cacheVars
      <3>2. Harmless(r, q)
        BY <1>1, <2>1 DEF Harmless, Request, Steps
      <3> HIDE DEF q
      <3> QED BY <3>1, <3>2, QuietStep
    <2> QED BY <1>5, <2>2, <2>3 DEF GetCategories
  <1>6. CASE QueryCategories(r)
    <2>1. req[r].pc = "query" /\ ~req[r].wrote
      BY <1>2, <1>6 DEF QueryCategories, At, Unwritten
    <2>2. PICK read \in SUBSET Active :
            req' = [req EXCEPT ![r].pc = "fill", ![r].overtaken = FALSE,
                               ![r].list = [c \in read |-> rows[c]],
                               ![r].cut = (read # Active)]
      BY <1>6 DEF QueryCategories
    <2> DEFINE list == [c \in read |-> rows[c]]
               q == [req[r] EXCEPT !.pc = "fill", !.overtaken = FALSE, !.list = list,
                                   !.cut = (read # Active)]
    <2>3. list \in Lists
      BY <1>1, PartIsList
    <2>4. read # Active \/ list = Public
      BY DEF Public
    <2> HIDE DEF list
    <2>5. Quiet(r, q)
      <3>1. req' = [req EXCEPT ![r] = q]
        BY <1>1, <2>2 DEF Request, list
      <3> QED BY <1>6, <3>1 DEF QueryCategories, Quiet, tableVars, cacheVars
    <2>6. Harmless(r, q)
      <3>1. /\ q \in Request /\ q.pc = "fill" /\ q.wrote = req[r].wrote
            /\ q.list = list /\ q.cut = (read # Active)
        BY <1>1, <2>3 DEF Request, Steps
      <3> QED BY <2>1, <2>4, <3>1 DEF Harmless
    <2> HIDE DEF q
    <2> QED BY <2>5, <2>6, QuietStep
  <1>7. CASE SetCategories(r)
    <2>1. req[r].pc = "fill" /\ ~req[r].wrote
      BY <1>2, <1>7 DEF SetCategories, At, Unwritten
    <2>2. CASE UNCHANGED <<cacheVars, excused>>
      <3>1. Quiet(r, Idle)
        BY <1>7, <2>2 DEF SetCategories, Leave, Quiet, tableVars, cacheVars
      <3>2. Harmless(r, Idle)
        BY <1>3, <2>1 DEF Harmless, Idle
      <3> QED BY <3>1, <3>2, QuietStep
    <2>3. CASE /\ cache' = req[r].list /\ ttl' = Life
               /\ excused' = (req[r].cut \/ req[r].overtaken)
      <3>1. /\ req' \in [Requests -> Request]
            /\ req'[r] = Idle
            /\ \A s \in Requests \ {r} : req'[s] = req[s]
            /\ UNCHANGED <<rows, deleted>>
        BY <1>1, <1>3, <1>7 DEF SetCategories, Leave, tableVars
      <3>2. Idle.pc = "idle" /\ Idle.wrote = FALSE
        BY DEF Idle
      <3>3. req[r].list \in Lists /\ (req[r].cut \/ req[r].overtaken) \in BOOLEAN
        BY <1>1 DEF Request
      <3>4. Public' = Public
        BY <3>1 DEF Public, Active
      <3>5. TypeOK'
        BY <2>3, <3>1, <3>3, CategoryCacheAssumption DEF IInv, Typed, TypeOK, Lists
      <3>6. Inputs'
        BY <3>1, <3>2 DEF IInv, Typed, Inputs
      <3>7. Clean'
        BY <3>1, <3>2 DEF IInv, Clean
      <3>8. Fills'
        BY <3>1, <3>2, <3>4 DEF IInv, Fills
      <3>9. StaleHasReason'
        <4>1. req[r].cut \/ req[r].overtaken \/ req[r].list = Public
          BY <2>1 DEF IInv, Fills
        <4> QED BY <2>3, <3>4, <4>1 DEF StaleHasReason, Stale
      <3> QED BY <3>5, <3>6, <3>7, <3>8, <3>9 DEF IInv, Typed
    <2> QED BY <1>7, <2>2, <2>3 DEF SetCategories
  <1> QED BY <1>4, <1>5, <1>6, <1>7 DEF Listing

LEMMA CreatingStep ==
  ASSUME IInv, NEW r \in Requests, Creating(r)
  PROVE  IInv'
  <1>1. req \in [Requests -> Request] /\ rows \in Lists
    BY DEF IInv, Typed, TypeOK
  <1>2. req[r].pc \in Unwritten => ~req[r].wrote
    BY DEF IInv, Clean
  <1>3. Idle \in Request
    BY EmptyIsList DEF Idle, Request, Steps
  <1>4. CASE CreateCategory(r)
    BY <1>4, StartStep DEF CreateCategory, Steps
  <1>5. CASE CheckNewSlug(r)
    <2>1. req[r].pc = "checkNew" /\ ~req[r].wrote
      BY <1>2, <1>5 DEF CheckNewSlug, At, Unwritten
    <2>2. CASE Leave(r)
      <3>1. Quiet(r, Idle)
        BY <1>5, <2>2 DEF CheckNewSlug, Leave, Quiet, tableVars, cacheVars
      <3>2. Harmless(r, Idle)
        BY <1>3, <2>1 DEF Harmless, Idle
      <3> QED BY <3>1, <3>2, QuietStep
    <2>3. ASSUME NEW s \in Slugs, req' = [req EXCEPT ![r].pc = "insert", ![r].slug = s]
          PROVE  IInv'
      <3> DEFINE q == [req[r] EXCEPT !.pc = "insert", !.slug = s]
      <3>1. Quiet(r, q)
        BY <1>1, <1>5, <2>3 DEF CheckNewSlug, Quiet, Request, tableVars, cacheVars
      <3>2. Harmless(r, q)
        BY <1>1, <2>1 DEF Harmless, Request, Steps
      <3> HIDE DEF q
      <3> QED BY <3>1, <3>2, QuietStep
    <2> QED BY <1>5, <2>2, <2>3 DEF CheckNewSlug
  <1>6. CASE InsertCategory(r)
    <2>1. CASE Refuse(r)
      BY <2>1, RefuseStep
    <2>2. ASSUME NEW c \in Categories \ (DOMAIN rows \cup deleted), NEW n \in Names,
                 NEW a \in BOOLEAN,
                 Write(r, "invalidate",
                       [d \in DOMAIN rows \cup {c} |->
                          IF d = c THEN [name |-> n, slug |-> req[r].slug, active |-> a]
                                   ELSE rows[d]]),
                 deleted' = deleted
          PROVE  IInv'
      <3> DEFINE new == [d \in DOMAIN rows \cup {c} |->
                          IF d = c THEN [name |-> n, slug |-> req[r].slug, active |-> a]
                                   ELSE rows[d]]
      <3>1. req[r].slug \in Slugs
        BY <1>6 DEF InsertCategory, At, IInv, Typed, Inputs
      <3>2. DOMAIN rows \subseteq Categories /\ rows \in [DOMAIN rows -> Row]
        BY <1>1, ListsElim
      <3>3. new \in [DOMAIN rows \cup {c} -> Row]
        BY <3>1, <3>2 DEF Row
      <3>4. new \in Lists /\ DOMAIN new = DOMAIN rows \cup {c}
        BY <3>2, <3>3, ListsIntro
      <3>5. deleted' \subseteq Categories /\ (DOMAIN rows \cup {c}) \cap deleted' = {}
        BY <2>2 DEF IInv, Typed, TypeOK
      <3>6. Write(r, "invalidate", new)
        BY <2>2
      <3>7. "invalidate" \in Steps \ Unwritten
        BY DEF Steps, Unwritten
      <3> HIDE DEF new
      <3> QED BY <3>4, <3>5, <3>6, <3>7, WriteStep
    <2> QED BY <1>6, <2>1, <2>2 DEF InsertCategory
  <1> QED BY <1>4, <1>5, <1>6 DEF Creating

LEMMA UpdatingStep ==
  ASSUME IInv, NEW r \in Requests, Updating(r)
  PROVE  IInv'
  <1>1. req \in [Requests -> Request] /\ rows \in Lists
    BY DEF IInv, Typed, TypeOK
  <1>2. DOMAIN rows \subseteq Categories /\ rows \in [DOMAIN rows -> Row]
    BY <1>1, ListsElim
  <1>3. {"checkSlug", "active", "invalidate"} \subseteq Steps \ Unwritten /\ "slug" \in Steps
    BY DEF Steps, Unwritten
  <1>4. ASSUME NEW pc \in {"checkSlug", "active", "invalidate"}, Skip(r, pc)
        PROVE  IInv'
    <2> DEFINE q == [req[r] EXCEPT !.pc = pc]
    <2>1. Quiet(r, q)
      BY <1>1, <1>4 DEF Skip, Goto, Quiet, Request, tableVars, cacheVars
    <2>2. Harmless(r, q)
      BY <1>1, <1>3 DEF Harmless, Request
    <2> HIDE DEF q
    <2> QED BY <2>1, <2>2, QuietStep
  <1>5. ASSUME NEW c \in Categories, UpdateCategory(r, c)
        PROVE  IInv'
    BY <1>5, StartStep DEF UpdateCategory, Steps
  <1>6. CASE UpdateName(r)
    <2>1. ASSUME NEW n \in Names
          PROVE  Found(r) => [rows[req[r].cat] EXCEPT !.name = n] \in Row
      BY <1>2 DEF Found, Row
    <2> QED BY <1>3, <1>4, <1>6, <2>1, UpdateStep DEF UpdateName
  <1>7. CASE CheckSlug(r)
    <2>1. ASSUME NEW s \in Slugs, req' = [req EXCEPT ![r].pc = "slug", ![r].slug = s],
                 UNCHANGED <<tableVars, cacheVars, excused>>
          PROVE  IInv'
      <3> DEFINE q == [req[r] EXCEPT !.pc = "slug", !.slug = s]
      <3>1. Quiet(r, q)
        BY <1>1, <2>1 DEF Quiet, Request, tableVars, cacheVars
      <3>2. Harmless(r, q)
        BY <1>1, <1>3 DEF Harmless, Request, Unwritten
      <3> HIDE DEF q
      <3> QED BY <3>1, <3>2, QuietStep
    <2> QED BY <1>4, <1>7, <2>1, RefuseStep DEF CheckSlug
  <1>8. CASE UpdateSlug(r)
    <2>1. req[r].slug \in Slugs
      BY <1>8 DEF UpdateSlug, At, IInv, Typed, Inputs
    <2>2. Found(r) => [rows[req[r].cat] EXCEPT !.slug = req[r].slug] \in Row
      BY <1>2, <2>1 DEF Found, Row
    <2> QED BY <1>3, <1>8, <2>2, UpdateStep, RefuseStep DEF UpdateSlug
  <1>9. CASE UpdateActive(r)
    <2>1. ASSUME NEW a \in BOOLEAN
          PROVE  Found(r) => [rows[req[r].cat] EXCEPT !.active = a] \in Row
      BY <1>2 DEF Found, Row
    <2> QED BY <1>3, <1>4, <1>9, <2>1, UpdateStep DEF UpdateActive
  <1> QED BY <1>5, <1>6, <1>7, <1>8, <1>9 DEF Updating

(* The key is deleted: nothing is left to be excused.                      *)
LEMMA InvalidateStep ==
  ASSUME IInv, NEW r \in Requests, InvalidateCategories(r)
  PROVE  IInv'
  <1>1. CASE Excuse(r) /\ UNCHANGED cacheVars
    BY <1>1, RefuseStep DEF InvalidateCategories, Refuse
  <1>2. CASE cache' = Empty /\ ttl' = 0 /\ excused' = FALSE
    <2>1. req \in [Requests -> Request] /\ Idle \in Request
      BY EmptyIsList DEF IInv, Typed, TypeOK, Idle, Request, Steps
    <2>2. /\ req' \in [Requests -> Request]
          /\ req'[r] = Idle
          /\ \A s \in Requests \ {r} : req'[s] = req[s]
          /\ UNCHANGED <<rows, deleted>>
      BY <2>1 DEF InvalidateCategories, Leave, tableVars
    <2>3. Idle.pc = "idle" /\ Idle.wrote = FALSE
      BY DEF Idle
    <2>4. Public' = Public /\ ~Stale'
      BY <1>2, <2>2 DEF Public, Active, Stale, Empty
    <2>5. Empty' = Empty
      BY DEF Empty
    <2>6. TypeOK'
      <3>1. cache' \in Lists /\ Lists' = Lists
        BY <1>2, EmptyIsList DEF Lists
      <3>2. ttl' \in 0 .. Life
        BY <1>2, CategoryCacheAssumption
      <3>3. cache' = Empty' /\ excused' \in BOOLEAN
        BY <1>2, <2>5, Zenon
      <3> QED BY <2>2, <3>1, <3>2, <3>3 DEF IInv, Typed, TypeOK
    <2>7. Inputs'
      BY <2>2, <2>3 DEF IInv, Typed, Inputs
    <2>8. Clean'
      BY <2>2, <2>3 DEF IInv, Clean
    <2>9. Fills'
      BY <2>2, <2>3, <2>4 DEF IInv, Fills
    <2> QED BY <2>4, <2>6, <2>7, <2>8, <2>9 DEF IInv, Typed, StaleHasReason
  <1> QED BY <1>1, <1>2 DEF InvalidateCategories

LEMMA DeletingStep ==
  ASSUME IInv, NEW r \in Requests, Deleting(r)
  PROVE  IInv'
  <1>1. rows \in Lists
    BY DEF IInv, Typed, TypeOK
  <1>2. DOMAIN rows \subseteq Categories /\ rows \in [DOMAIN rows -> Row]
    BY <1>1, ListsElim
  <1>3. ASSUME NEW c \in Categories, DeleteCategory(r, c)
        PROVE  IInv'
    BY <1>3, StartStep DEF DeleteCategory, Steps
  <1>4. CASE SoftDelete(r)
    <2> DEFINE new == [c \in DOMAIN rows \ {req[r].cat} |-> rows[c]]
    <2>1. req[r].cat \in Categories
      BY <1>4 DEF SoftDelete, At, IInv, Typed, Inputs
    <2>2. new \in [DOMAIN rows \ {req[r].cat} -> Row]
      BY <1>2
    <2>3. new \in Lists /\ DOMAIN new = DOMAIN rows \ {req[r].cat}
      BY <1>2, <2>2, ListsIntro
    <2>4. deleted' = deleted \cup {req[r].cat} /\ Write(r, "invalidate", new)
      BY <1>4 DEF SoftDelete
    <2>5. deleted' \subseteq Categories /\ (DOMAIN rows \ {req[r].cat}) \cap deleted' = {}
      BY <2>1, <2>4 DEF IInv, Typed, TypeOK
    <2>6. "invalidate" \in Steps \ Unwritten
      BY DEF Steps, Unwritten
    <2> HIDE DEF new
    <2> QED BY <2>3, <2>4, <2>5, <2>6, WriteStep
  <1> QED BY <1>3, <1>4, InvalidateStep DEF Deleting

LEMMA TickStep ==
  ASSUME IInv, Tick
  PROVE  IInv'
  <1>1. /\ ttl' = ttl - 1 /\ ttl > 0
        /\ cache' \in {Empty, cache} /\ (ttl = 1 => cache' = Empty)
        /\ UNCHANGED <<rows, deleted, req, excused>>
    BY DEF Tick, tableVars
  <1>2. Empty' = Empty /\ Public' = Public
    BY <1>1 DEF Empty, Public, Active
  <1>3. TypeOK'
    BY <1>1, <1>2, EmptyIsList, CategoryCacheAssumption DEF IInv, Typed, TypeOK, Lists
  <1>4. Inputs' /\ Clean' /\ Fills'
    BY <1>1, <1>2 DEF IInv, Typed, Inputs, Clean, Fills
  <1>5. StaleHasReason'
    BY <1>1, <1>2 DEF IInv, StaleHasReason, Stale
  <1> QED BY <1>3, <1>4, <1>5 DEF IInv, Typed

-----------------------------------------------------------------------------
(* The theorems.                                                           *)

LEMMA IInvInit == Init => IInv
  <1> SUFFICES ASSUME Init PROVE IInv
    OBVIOUS
  <1>1. rows \in [WithProducts -> Row] /\ WithProducts \subseteq Categories
    BY CategoryCacheAssumption DEF Init
  <1>2. rows \in Lists
    BY <1>1, ListsIntro
  <1>3. Idle \in Request
    BY EmptyIsList DEF Idle, Request, Steps
  <1>4. TypeOK
    <2>1. cache \in Lists /\ cache = Empty /\ deleted = {} /\ excused = FALSE
      BY EmptyIsList DEF Init
    <2>2. ttl \in 0 .. Life
      BY CategoryCacheAssumption DEF Init
    <2>3. req \in [Requests -> Request]
      BY <1>3 DEF Init
    <2> QED BY <1>2, <2>1, <2>2, <2>3 DEF TypeOK
  <1>5. \A r \in Requests : req[r].pc = "idle" /\ req[r].wrote = FALSE
    BY DEF Init, Idle
  <1> QED BY <1>4, <1>5 DEF Init, IInv, Typed, Inputs, Clean, Fills, StaleHasReason, Stale

LEMMA IInvNext == IInv /\ [Next]_vars => IInv'
  <1> SUFFICES ASSUME IInv, [Next]_vars PROVE IInv'
    OBVIOUS
  <1>1. ASSUME NEW r \in Requests, Abort(r)
        PROVE  IInv'
    BY <1>1, RefuseStep DEF Abort
  <1>2. CASE UNCHANGED vars
    BY <1>2 DEF vars, IInv, Typed, TypeOK, Lists, Inputs, Clean, Fills, StaleHasReason,
                Stale, Public, Active
  <1> QED BY <1>1, <1>2, ListingStep, CreatingStep, UpdatingStep, DeletingStep, TickStep
          DEF Next

LEMMA IInvariant == Spec => []IInv
  BY IInvInit, IInvNext, PTL DEF Spec

(* The variables of the categories, their cache and the requests have      *)
(* their types (category.go).                                              *)
THEOREM TypeCorrect == Spec => []TypeOK
  <1>1. IInv => TypeOK
    BY DEF IInv, Typed
  <1> QED BY <1>1, IInvariant, PTL

(* ListPublicCategoriesHandler serves a list that is not the table's only  *)
(* while a request that wrote has not deleted the key yet, or after one of *)
(* the four events that excuse it.                                         *)
THEOREM StaleHasReasonTheorem == Spec => []StaleHasReason
  <1>1. IInv => StaleHasReason
    BY DEF IInv
  <1> QED BY <1>1, IInvariant, PTL

-----------------------------------------------------------------------------
(* The slugs.  What a statement writes is looked at by the unique index.   *)

LEMMA SlugsUpdate ==
  ASSUME SlugsDistinct, NEW r \in Requests, NEW pc, NEW row, Update(r, pc, row),
         Found(r) => \A d \in DOMAIN rows \ {req[r].cat} : rows[d].slug # row.slug
  PROVE  SlugsDistinct'
  <1>1. rows' = [c \in DOMAIN rows |-> IF c = req[r].cat THEN row ELSE rows[c]]
    BY DEF Update, Write
  <1> QED BY <1>1 DEF SlugsDistinct, Found

LEMMA SlugsNext == IInv /\ SlugsDistinct /\ [Next]_vars => SlugsDistinct'
  <1> SUFFICES ASSUME IInv, SlugsDistinct, [Next]_vars PROVE SlugsDistinct'
    OBVIOUS
  <1>1. rows \in [DOMAIN rows -> Row]
    BY ListsElim DEF IInv, Typed, TypeOK
  <1>2. CASE UNCHANGED rows
    BY <1>2 DEF SlugsDistinct
  <1>3. ASSUME NEW r \in Requests, InsertCategory(r)
        PROVE  SlugsDistinct'
    <2>1. CASE Refuse(r)
      BY <1>2, <2>1 DEF Refuse, tableVars
    <2>2. ASSUME NEW c \in Categories \ (DOMAIN rows \cup deleted), NEW n \in Names,
                 NEW a \in BOOLEAN,
                 rows' = [d \in DOMAIN rows \cup {c} |->
                            IF d = c THEN [name |-> n, slug |-> req[r].slug, active |-> a]
                                     ELSE rows[d]],
                 ~Taken(req[r].slug, NoCategory)
          PROVE  SlugsDistinct'
      <3>1. \A d \in DOMAIN rows : d # NoCategory /\ rows[d].slug # req[r].slug
        BY <2>2, ListsElim, CategoryCacheAssumption DEF Taken, IInv, Typed, TypeOK
      <3> QED BY <2>2, <3>1 DEF SlugsDistinct
    <2>3. ASSUME NEW new, Write(r, "invalidate", new)
          PROVE  rows' = new
      BY <2>3 DEF Write
    <2> QED BY <1>3, <2>1, <2>2, <2>3 DEF InsertCategory
  <1>4. ASSUME NEW r \in Requests, UpdateName(r)
        PROVE  SlugsDistinct'
    <2>1. ASSUME NEW n \in Names, Found(r)
          PROVE  \A d \in DOMAIN rows \ {req[r].cat} :
                   rows[d].slug # [rows[req[r].cat] EXCEPT !.name = n].slug
      BY <1>1, <2>1 DEF SlugsDistinct, Found, Row
    <2> QED BY <1>2, <1>4, <2>1, SlugsUpdate DEF UpdateName, Skip, tableVars
  <1>5. ASSUME NEW r \in Requests, UpdateSlug(r)
        PROVE  SlugsDistinct'
    <2>1. ASSUME Found(r), ~Taken(req[r].slug, req[r].cat)
          PROVE  \A d \in DOMAIN rows \ {req[r].cat} :
                   rows[d].slug # [rows[req[r].cat] EXCEPT !.slug = req[r].slug].slug
      BY <1>1, <2>1 DEF Taken, Found, Row
    <2> QED BY <1>2, <1>5, <2>1, SlugsUpdate DEF UpdateSlug, Refuse, tableVars
  <1>6. ASSUME NEW r \in Requests, UpdateActive(r)
        PROVE  SlugsDistinct'
    <2>1. ASSUME NEW a \in BOOLEAN, Found(r)
          PROVE  \A d \in DOMAIN rows \ {req[r].cat} :
                   rows[d].slug # [rows[req[r].cat] EXCEPT !.active = a].slug
      BY <1>1, <2>1 DEF SlugsDistinct, Found, Row
    <2> QED BY <1>2, <1>6, <2>1, SlugsUpdate DEF UpdateActive, Skip, tableVars
  <1>7. ASSUME NEW r \in Requests, SoftDelete(r)
        PROVE  SlugsDistinct'
    <2>1. rows' = [c \in DOMAIN rows \ {req[r].cat} |-> rows[c]]
      BY <1>7 DEF SoftDelete, Write
    <2> QED BY <2>1 DEF SlugsDistinct
  <1>8. ASSUME NEW r \in Requests,
               Listing(r) \/ CreateCategory(r) \/ CheckNewSlug(r)
                 \/ (\E c \in Categories : UpdateCategory(r, c) \/ DeleteCategory(r, c))
                 \/ CheckSlug(r) \/ InvalidateCategories(r) \/ Abort(r)
        PROVE  UNCHANGED rows
    BY <1>8 DEF Listing, ListPublicCategories, GetCategories, QueryCategories, SetCategories,
       CreateCategory, CheckNewSlug, UpdateCategory, DeleteCategory, CheckSlug, Skip, Refuse,
       InvalidateCategories, Abort, Start, tableVars
  <1>9. Tick \/ UNCHANGED vars => UNCHANGED rows
    BY DEF Tick, tableVars, vars
  <1> QED BY <1>2, <1>3, <1>4, <1>5, <1>6, <1>7, <1>8, <1>9
          DEF Next, Creating, Updating, Deleting

(* Live categories have different slugs: the checks of category.go:233 and *)
(* 317 are not enough, the unique index of migration 009 is.               *)
THEOREM SlugsDistinctTheorem == Spec => []SlugsDistinct
  <1>1. Init => SlugsDistinct
    BY DEF Init, SlugsDistinct
  <1> QED BY <1>1, IInvariant, SlugsNext, PTL DEF Spec
=============================================================================
