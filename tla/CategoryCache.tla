--------------------------- MODULE CategoryCache ---------------------------
(***************************************************************************)
(* The categories of products in Postgres, and the list of the active ones *)
(* that is kept in Redis under cache:categories for an hour.               *)
(*                                                                         *)
(* ListPublicCategoriesHandler serves the list from the cache, and on a    *)
(* miss reads the table and fills the cache.  Creating, updating and       *)
(* deleting a category write the table and then delete the key.  Every     *)
(* statement and every call to Redis is an action of its own.              *)
(*                                                                         *)
(* Left out: the description and the icon, which are written like the      *)
(* name, the making of a slug from a name, and the order of the list.      *)
(***************************************************************************)
EXTENDS Naturals, FiniteSets

CONSTANTS
    Categories,     \* BOUND: the UUIDs the table may ever hold
    WithProducts,   \* the categories whose products migration 009 inserts
    Names,
    Slugs,
    Requests,       \* slots: how many requests are served at the same time
    Life,           \* TTLCategories, in ticks of the clock
    NoCategory,
    Faults          \* what may go wrong in this instance

(* Calls to Redis that fail; "read", a query whose rows stop coming or do  *)
(* not scan; the query of CheckSlug; and any statement that fails or a     *)
(* request that ends early for another reason.                             *)
FaultKinds == {"get", "read", "set", "del", "check", "abort"}

ASSUME CategoryCacheAssumption ==
    /\ WithProducts \subseteq Categories
    /\ Life \in Nat \ {0}
    /\ NoCategory \notin Categories
    /\ Faults \subseteq FaultKinds

VARIABLES
    rows,           \* the live rows of product_categories
    deleted,        \* categories with deleted_at
    cache,          \* the list in Redis; an empty one is as good as none
    ttl,            \* the ticks it has left
    req,            \* the requests being served
    excused         \* history: why the cache may be out of date, see Excuse

tableVars == <<rows, deleted>>
cacheVars == <<cache, ttl>>
vars == <<rows, deleted, cache, ttl, req, excused>>

-----------------------------------------------------------------------------
Row == [name : Names, slug : Slugs, active : BOOLEAN]

Lists == UNION {[C -> Row] : C \in SUBSET Categories}

Empty == [c \in {} |-> NoCategory]

Steps == {"idle", "get", "query", "fill", "checkNew", "insert", "name",
          "checkSlug", "slug", "active", "delete", "invalidate"}

(* One request.  list is what a fill has read, cut whether rows were       *)
(* missing from it, overtaken whether the table was written since, wrote   *)
(* whether the request itself has written it.                              *)
Request == [pc : Steps, cat : Categories \cup {NoCategory}, slug : Slugs \cup {NoCategory},
            list : Lists, cut : BOOLEAN, overtaken : BOOLEAN, wrote : BOOLEAN]

Idle == [pc |-> "idle", cat |-> NoCategory, slug |-> NoCategory,
         list |-> Empty, cut |-> FALSE, overtaken |-> FALSE, wrote |-> FALSE]

TypeOK ==
    /\ rows \in Lists
    /\ deleted \subseteq Categories
    /\ DOMAIN rows \cap deleted = {}
    /\ cache \in Lists
    /\ ttl \in 0 .. Life
    /\ ttl = 0 => cache = Empty
    /\ req \in [Requests -> Request]
    /\ excused \in BOOLEAN

(* Migration 009 inserts categories, some with products.                   *)
Init ==
    /\ rows \in {seed \in [WithProducts -> Row] :
                  \A c, d \in WithProducts : /\ seed[c].active
                                             /\ c # d => seed[c].slug # seed[d].slug}
    /\ deleted = {}
    /\ cache = Empty
    /\ ttl = 0
    /\ req = [r \in Requests |-> Idle]
    /\ excused = FALSE

-----------------------------------------------------------------------------
Fails(call) == call \in Faults

At(r, pc) == req[r].pc = pc

Goto(r, pc) == req' = [req EXCEPT ![r].pc = pc]

(* A request that leaves after it has written, without having deleted the  *)
(* key, is an excuse for what is in the cache; so is a fill whose query    *)
(* was cut short, or that was overtaken by a write.                        *)
Excuse(r) == excused' = (excused \/ req[r].wrote)

Leave(r) == req' = [req EXCEPT ![r] = Idle]

Start(r, pc, c) ==
    /\ At(r, "idle")
    /\ req' = [req EXCEPT ![r].pc = pc, ![r].cat = c]
    /\ UNCHANGED <<tableVars, cacheVars, excused>>

(* The public list, and whether a live category other than c has the slug. *)
Active == {c \in DOMAIN rows : rows[c].active}
Public == [c \in Active |-> rows[c]]
Taken(s, c) == \E d \in DOMAIN rows \ {c} : rows[d].slug = s

(* A statement of request r writes the table; lists read before are old.   *)
Write(r, pc, new) ==
    /\ rows' = new
    /\ req' = [s \in Requests |->
                 IF s = r THEN [req[r] EXCEPT !.pc = pc, !.wrote = TRUE]
                 ELSE IF At(s, "fill") THEN [req[s] EXCEPT !.overtaken = TRUE]
                 ELSE req[s]]
    /\ UNCHANGED <<cacheVars, excused>>

(* UPDATE ... WHERE id = $2 also finds a row that was deleted meanwhile.   *)
Update(r, pc, row) ==
    /\ Write(r, pc, [c \in DOMAIN rows |-> IF c = req[r].cat THEN row ELSE rows[c]])
    /\ UNCHANGED deleted

Skip(r, pc) == Goto(r, pc) /\ UNCHANGED <<tableVars, cacheVars, excused>>

Refuse(r) == Leave(r) /\ Excuse(r) /\ UNCHANGED <<tableVars, cacheVars>>

-----------------------------------------------------------------------------
(* ListPublicCategoriesHandler.                                            *)

ListPublicCategories(r) == Start(r, "get", NoCategory)

GetCategories(r) ==
    /\ At(r, "get")
    /\ \/ cache # Empty /\ Leave(r)
       \/ (cache = Empty \/ Fails("get")) /\ Goto(r, "query")
    /\ UNCHANGED <<tableVars, cacheVars, excused>>

(* A row that does not scan is skipped, and nobody asks rows.Err() whether *)
(* the rows have ended or broken off: any part of the list may be taken    *)
(* for the whole of it.                                                    *)
QueryCategories(r) ==
    /\ At(r, "query")
    /\ \E read \in IF Fails("read") THEN SUBSET Active ELSE {Active} :
         req' = [req EXCEPT ![r].pc = "fill", ![r].overtaken = FALSE,
                            ![r].list = [c \in read |-> rows[c]],
                            ![r].cut = (read # Active)]
    /\ UNCHANGED <<tableVars, cacheVars, excused>>

(* Mutant: the list is stored without a time to live.                      *)
SetCategoriesForever(r) ==
    /\ At(r, "fill")
    /\ cache' = req[r].list
    /\ ttl' = 0
    /\ excused' = (req[r].cut \/ req[r].overtaken)
    /\ Leave(r)
    /\ UNCHANGED tableVars

SetCategories(r) ==
    /\ At(r, "fill")
    /\ \/ /\ cache' = req[r].list
          /\ ttl' = Life
          /\ excused' = (req[r].cut \/ req[r].overtaken)
       \/ Fails("set") /\ UNCHANGED <<cacheVars, excused>>
    /\ Leave(r)
    /\ UNCHANGED tableVars

Listing(r) ==
    \/ ListPublicCategories(r) \/ GetCategories(r) \/ QueryCategories(r)
    \/ SetCategories(r)

-----------------------------------------------------------------------------
(* CreateCategoryHandler.                                                  *)

CreateCategory(r) == Start(r, "checkNew", NoCategory)

CheckNewSlug(r) ==
    /\ At(r, "checkNew")
    /\ \E s \in Slugs :
         IF Taken(s, NoCategory)
         THEN Leave(r)
         ELSE req' = [req EXCEPT ![r].pc = "insert", ![r].slug = s]
    /\ UNCHANGED <<tableVars, cacheVars, excused>>

(* Mutant: no unique index on the slugs of live rows.                      *)
InsertCategoryUnchecked(r) ==
    /\ At(r, "insert")
    /\ \E c \in Categories \ (DOMAIN rows \cup deleted), n \in Names, a \in BOOLEAN :
         Write(r, "invalidate",
               [d \in DOMAIN rows \cup {c} |->
                  IF d = c THEN [name |-> n, slug |-> req[r].slug, active |-> a] ELSE rows[d]])
    /\ UNCHANGED deleted

(* Two requests may both find the slug free: the unique index of migration *)
(* 009 refuses the second.                                                 *)
InsertCategory(r) ==
    /\ At(r, "insert")
    /\ \/ /\ ~Taken(req[r].slug, NoCategory)
          /\ \E c \in Categories \ (DOMAIN rows \cup deleted), n \in Names, a \in BOOLEAN :
               Write(r, "invalidate",
                     [d \in DOMAIN rows \cup {c} |->
                        IF d = c THEN [name |-> n, slug |-> req[r].slug, active |-> a]
                                 ELSE rows[d]])
          /\ UNCHANGED deleted
       \/ Taken(req[r].slug, NoCategory) /\ Refuse(r)
       \/ Categories = DOMAIN rows \cup deleted /\ Refuse(r)    \* BOUND

Creating(r) == CreateCategory(r) \/ CheckNewSlug(r) \/ InsertCategory(r)

-----------------------------------------------------------------------------
(* UpdateCategoryHandler: a statement for each field that is given.        *)

UpdateCategory(r, c) == c \in DOMAIN rows /\ Start(r, "name", c)

(* The row a request updates; once it was deleted its fields are not read  *)
(* again.                                                                  *)
Found(r) == req[r].cat \in DOMAIN rows

UpdateName(r) ==
    /\ At(r, "name")
    /\ \/ \E n \in Names :
            Update(r, "checkSlug", IF Found(r) THEN [rows[req[r].cat] EXCEPT !.name = n]
                                               ELSE NoCategory)
       \/ Skip(r, "checkSlug")

(* A conflict ends the request, although the name may have been written;   *)
(* an error of the query goes unnoticed.                                   *)
CheckSlug(r) ==
    /\ At(r, "checkSlug")
    /\ \/ \E s \in Slugs :
            \/ Taken(s, req[r].cat) /\ Refuse(r)
            \/ /\ ~Taken(s, req[r].cat) \/ Fails("check")
               /\ req' = [req EXCEPT ![r].pc = "slug", ![r].slug = s]
               /\ UNCHANGED <<tableVars, cacheVars, excused>>
       \/ Skip(r, "active")

UpdateSlug(r) ==
    /\ At(r, "slug")
    /\ IF Found(r) /\ Taken(req[r].slug, req[r].cat)
       THEN Refuse(r)
       ELSE Update(r, "active", IF Found(r) THEN [rows[req[r].cat] EXCEPT !.slug = req[r].slug]
                                            ELSE NoCategory)

UpdateActive(r) ==
    /\ At(r, "active")
    /\ \/ \E a \in BOOLEAN :
            Update(r, "invalidate", IF Found(r) THEN [rows[req[r].cat] EXCEPT !.active = a]
                                                ELSE NoCategory)
       \/ Skip(r, "invalidate")

Updating(r) ==
    \/ \E c \in Categories : UpdateCategory(r, c)
    \/ UpdateName(r) \/ CheckSlug(r) \/ UpdateSlug(r) \/ UpdateActive(r)

-----------------------------------------------------------------------------
(* DeleteCategoryHandler, and the last step of all three.                  *)

(* A category with products is not deleted.  No handler that runs to its   *)
(* end adds products or removes them, so their count is read with the row. *)
DeleteCategory(r, c) ==
    /\ c \in DOMAIN rows \ WithProducts
    /\ Start(r, "delete", c)

SoftDelete(r) ==
    /\ At(r, "delete")
    /\ Write(r, "invalidate", [c \in DOMAIN rows \ {req[r].cat} |-> rows[c]])
    /\ deleted' = deleted \cup {req[r].cat}

(* Mutant: the key of a single category is deleted.                        *)
InvalidateCategoriesOther(r) ==
    /\ At(r, "invalidate")
    /\ Leave(r)
    /\ UNCHANGED <<tableVars, cacheVars, excused>>

(* The error of Redis is ignored.                                          *)
InvalidateCategories(r) ==
    /\ At(r, "invalidate")
    /\ \/ /\ cache' = Empty /\ ttl' = 0
          /\ excused' = FALSE
       \/ Fails("del") /\ Excuse(r) /\ UNCHANGED cacheVars
    /\ Leave(r)
    /\ UNCHANGED tableVars

Deleting(r) ==
    \/ \E c \in Categories : DeleteCategory(r, c)
    \/ SoftDelete(r) \/ InvalidateCategories(r)

-----------------------------------------------------------------------------
(* Redis drops the list when its time to live is over.                     *)
Tick ==
    /\ ttl > 0
    /\ ttl' = ttl - 1
    /\ cache' = IF ttl = 1 THEN Empty ELSE cache
    /\ UNCHANGED <<tableVars, req, excused>>

Abort(r) == Fails("abort") /\ ~At(r, "idle") /\ Refuse(r)

Next ==
    \/ \E r \in Requests :
         Listing(r) \/ Creating(r) \/ Updating(r) \/ Deleting(r) \/ Abort(r)
    \/ Tick

Spec == Init /\ [][Next]_vars

-----------------------------------------------------------------------------
(* Properties.                                                             *)

Stale == cache \notin {Empty, Public}

(* The cache differs from the table only while a request that has written  *)
(* is still to delete the key, or for one of four reasons: such a request  *)
(* ended before it got there, the deletion failed, a fill was overtaken by *)
(* a write between its query and its SET, or its query was cut short.      *)
StaleHasReason == Stale => excused \/ \E r \in Requests : req[r].wrote

(* Live categories have different slugs, although the handlers look first  *)
(* and write afterwards.                                                   *)
SlugsDistinct ==
    \A c, d \in DOMAIN rows : rows[c].slug = rows[d].slug => c = d
=============================================================================
