------------------------------ MODULE Catalogue ------------------------------
(* backend/src/products/products.service.ts: the tree of categories and the   *)
(* products in it.  A request looks at the rows first and writes one of them  *)
(* afterwards; between the two another admin writes, or a shopper orders.     *)
EXTENDS Integers

CONSTANTS
  Category, Good,
  Clerk,          \* requests, numbered in the order they arrive
  MaxSold,        \* bound on the order lines of a product
  Forests         \* the trees of categories a run starts from

Top  == "top"     \* a category without a parent, a product without a category
New  == "new"     \* the row is not created yet
Gone == "gone"    \* the row is deleted; its id is never used again

VARIABLES
  parent,         \* categories: the parent of each
  shelf,          \* products: the category of each
  active,         \* products that are not archived
  sold,           \* order lines of each product
  desk            \* the requests

catalogueVars == <<parent, shelf, active, sold, desk>>

Place == Category \cup {Top}
IsRow(place) == place \in Place

ASSUME CatalogueAssumption ==
  /\ Clerk \subseteq Nat /\ MaxSold \in Nat
  /\ Top \notin Category /\ New \notin Category /\ Gone \notin Category
  /\ Forests \subseteq [Category -> Place \cup {New}]
  /\ \A f \in Forests : \A c \in Category :
       f[c] \in Category => f[f[c]] = Top

TreeOps  == {"createCategory", "updateCategory", "removeCategory"}
GoodOps  == {"update", "remove", "hardDelete", "order"}
Call(op, id, to, step) ==
  [op |-> op, id |-> id, to |-> to, step |-> step, stale |-> FALSE]
Awaited == Call("none", New, Top, "awaited")
Served  == Call("none", New, Top, "served")

CatalogueTypeOK ==
  /\ parent \in [Category -> Place \cup {New, Gone}]
  /\ shelf \in [Good -> Place \cup {New, Gone}]
  /\ active \subseteq Good
  /\ sold \in [Good -> 0 .. MaxSold]
  /\ \A r \in Clerk :
       \/ desk[r] \in {Awaited, Served}
       \/ /\ desk[r].op \in TreeOps \cup GoodOps
          /\ desk[r].id \in Category \cup Good \cup {New}
          /\ desk[r].to \in Place
          /\ desk[r].step \in {"parent", "children", "write"}

Children(c) == {d \in Category : parent[d] = c}
Filed(c) == {g \in Good : shelf[g] = c}

\* The foreign keys: what a row points at is there, and what is pointed at
\* stays (ON DELETE RESTRICT).
Refers(place) == place \in {Top} \cup {c \in Category : IsRow(parent[c])}
MayDropCategory(c) == Children(c) = {} /\ Filed(c) = {}
DropsAnyway(g) == TRUE
MayDropGood(g) == sold[g] = 0

CatalogueInit ==
  /\ parent \in Forests
  /\ shelf \in [Good -> {New} \cup {place \in Place : Refers(place)}]
  /\ active = {g \in Good : IsRow(shelf[g])}
  /\ sold = [g \in Good |-> 0]
  /\ desk = [r \in Clerk |-> Awaited]

Arrives(r, call) ==
  /\ desk[r] = Awaited
  /\ \A before \in Clerk : before < r => desk[before] # Awaited
  /\ desk' = [desk EXCEPT ![r] = call]
  /\ UNCHANGED <<parent, shelf, active, sold>>

Steps(r, step) ==
  /\ desk' = [desk EXCEPT ![r].step = step]
  /\ UNCHANGED <<parent, shelf, active, sold>>

Writes(r, op) == desk[r].step = "write" /\ desk[r].op = op
Leaves(r) == desk' = [desk EXCEPT ![r] = Served]

------------------------------------------------------------------------------
(* createCategory, updateCategory: the parent must be a top-level category,   *)
(* and a category with children of its own gets none.  Names and slugs are    *)
(* checked too; a clash refuses the request.                                  *)
Reparents(op, id, to) ==
  Call(op, id, to, IF to = Top THEN "write" ELSE "parent")

CreateCategory(r, to) == Arrives(r, Reparents("createCategory", New, to))

UpdateCategory(r, c, to) ==
  /\ IsRow(parent[c]) /\ to # c
  /\ Arrives(r, Reparents("updateCategory", c, to))

AssertValidParent(r) ==
  LET q == desk[r] IN
  /\ q.step = "parent"
  /\ IF parent[q.to] # Top
     THEN Leaves(r) /\ UNCHANGED <<parent, shelf, active, sold>>
     ELSE Steps(r, IF q.op = "createCategory" THEN "write" ELSE "children")

NestsAnyway(c) == TRUE
MayNest(c) == Children(c) = {}

CountChildren(r) ==
  /\ desk[r].step = "children"
  /\ IF MayNest(desk[r].id) THEN Steps(r, "write")
     ELSE Leaves(r) /\ UNCHANGED <<parent, shelf, active, sold>>

\* The tree changed under the requests that have already looked at it.
Outdates(r) ==
  desk' = [q \in Clerk |->
             IF q = r THEN Served
             ELSE IF desk[q].step \in {"children", "write"}
                  THEN [desk[q] EXCEPT !.stale = TRUE] ELSE desk[q]]

WriteCategory(r) ==
  LET q == desk[r]
      rows == IF q.op = "createCategory"
              THEN {c \in Category : parent[c] = New}
              ELSE {c \in {q.id} : IsRow(parent[c])} IN
  /\ Writes(r, "createCategory") \/ Writes(r, "updateCategory")
  /\ \/ \E c \in rows :
          /\ Refers(q.to)
          /\ parent' = [parent EXCEPT ![c] = q.to]
          /\ Outdates(r)
     \/ /\ ~Refers(q.to) \/ rows = {}
        /\ Leaves(r) /\ UNCHANGED parent
  /\ UNCHANGED <<shelf, active, sold>>

(* removeCategory: refused while it holds anything; the key refuses it again. *)
RemoveCategory(r, c) ==
  /\ IsRow(parent[c]) /\ Children(c) = {} /\ Filed(c) = {}
  /\ Arrives(r, Call("removeCategory", c, Top, "write"))

DropCategory(r) ==
  LET c == desk[r].id IN
  /\ Writes(r, "removeCategory")
  /\ Leaves(r)
  /\ parent' = IF IsRow(parent[c]) /\ MayDropCategory(c)
               THEN [parent EXCEPT ![c] = Gone] ELSE parent
  /\ UNCHANGED <<shelf, active, sold>>

------------------------------------------------------------------------------
(* create: one transaction; the sku and the slug it checked first are unique. *)
CreateProduct(g, to, on) ==
  /\ shelf[g] = New /\ Refers(to)
  /\ shelf' = [shelf EXCEPT ![g] = to]
  /\ active' = IF on THEN active \cup {g} ELSE active
  /\ UNCHANGED <<parent, sold, desk>>

(* update, remove: the product is there, and again when it is written.        *)
Product(r, op, g, to) ==
  /\ IsRow(shelf[g])
  /\ Arrives(r, Call(op, g, to, "write"))

UpdateProduct(r) ==
  LET q == desk[r] IN
  /\ Writes(r, "update")
  /\ Leaves(r)
  /\ IF IsRow(shelf[q.id]) /\ Refers(q.to)
     THEN /\ shelf' = [shelf EXCEPT ![q.id] = q.to]
          /\ active' \in {active, active \cup {q.id}, active \ {q.id}}
     ELSE UNCHANGED <<shelf, active>>
  /\ UNCHANGED <<parent, sold>>

ArchiveProduct(r) ==
  /\ Writes(r, "remove")
  /\ Leaves(r)
  /\ active' = active \ {desk[r].id}
  /\ UNCHANGED <<parent, shelf, sold>>

(* hardDelete: only a product no order line names; so says its key.           *)
HardDelete(r, g) == sold[g] = 0 /\ Product(r, "hardDelete", g, Top)

DropProduct(r) ==
  LET g == desk[r].id IN
  /\ Writes(r, "hardDelete")
  /\ Leaves(r)
  /\ IF IsRow(shelf[g]) /\ MayDropGood(g)
     THEN shelf' = [shelf EXCEPT ![g] = Gone] /\ active' = active \ {g}
     ELSE UNCHANGED <<shelf, active>>
  /\ UNCHANGED <<parent, sold>>

(* A checkout: the product is active when it is read, and there when the      *)
(* order's lines are written.                                                 *)
OrderProduct(r, g) == g \in active /\ Product(r, "order", g, Top)

WriteLine(r) ==
  LET g == desk[r].id IN
  /\ Writes(r, "order") /\ sold[g] < MaxSold
  /\ Leaves(r)
  /\ sold' = IF IsRow(shelf[g]) THEN [sold EXCEPT ![g] = @ + 1] ELSE sold
  /\ UNCHANGED <<parent, shelf, active>>

CatalogueNext ==
  \/ \E g \in Good, to \in Place, on \in BOOLEAN : CreateProduct(g, to, on)
  \/ \E r \in Clerk :
       \/ \E to \in Place :
            \/ CreateCategory(r, to)
            \/ \E c \in Category : UpdateCategory(r, c, to)
            \/ \E g \in Good : Product(r, "update", g, to)
       \/ \E c \in Category : RemoveCategory(r, c)
       \/ \E g \in Good :
            \/ Product(r, "remove", g, Top)
            \/ HardDelete(r, g) \/ OrderProduct(r, g)
       \/ AssertValidParent(r) \/ CountChildren(r) \/ WriteCategory(r)
       \/ DropCategory(r) \/ UpdateProduct(r) \/ ArchiveProduct(r)
       \/ DropProduct(r) \/ WriteLine(r)

CatalogueSpec == CatalogueInit /\ [][CatalogueNext]_catalogueVars

------------------------------------------------------------------------------
(* Whatever is deleted between a request's check and its write, no category   *)
(* is left under a parent that is gone, no product in a category that is      *)
(* gone, and no order line for a product that is gone.                        *)
NothingDangles ==
  /\ \A c \in Category : IsRow(parent[c]) => Refers(parent[c])
  /\ \A g \in Good : IsRow(shelf[g]) => Refers(shelf[g])
  /\ \A g \in Good : sold[g] > 0 => IsRow(shelf[g])

ThirdLevel == \E c, d \in Category : parent[c] = d /\ parent[d] \in Category

(* "Depth is capped at 2": no request puts a category under a sub-category,   *)
(* or one that has children under another, unless the tree changed between    *)
(* its look at it and its write.                                              *)
TwoLevels ==
  [][ThirdLevel' => \/ ThirdLevel
                    \/ \E r \in Clerk : /\ desk[r].step = "write"
                                        /\ desk[r].stale
                                        /\ desk'[r] = Served]_catalogueVars
=============================================================================
