---------------------------- MODULE OfficeProofs -----------------------------
(* The catalogue's foreign keys, the log of posts and the stock audit, for    *)
(* any number of admins and rows.                                             *)
EXTENDS Catalogue, Social, Reconciliation, RowLocks, FiniteSetTheorems, TLAPS

------------------------------------------------------------------------------
(* The catalogue.  The keys are checked by the statement that writes, so it   *)
(* does not matter what a request saw before.                                 *)
Rooted(tree, place) ==
  \/ place = Top
  \/ place \in Category /\ tree[place] \in Place
Keyed(tree, filed, lines) ==
  /\ tree \in [Category -> Place \cup {New, Gone}]
  /\ filed \in [Good -> Place \cup {New, Gone}]
  /\ lines \in [Good -> Nat]
  /\ \A c \in Category : tree[c] \in Place => Rooted(tree, tree[c])
  /\ \A g \in Good : filed[g] \in Place => Rooted(tree, filed[g])
  /\ \A g \in Good : lines[g] > 0 => filed[g] \in Place
KeysInv == Keyed(parent, shelf, sold)

LEMMA PlacesAreRows ==
  /\ New \notin Place /\ Gone \notin Place /\ Top \in Place
  /\ \A place : Refers(place) <=> Rooted(parent, place)
  /\ \A place, tree : Rooted(tree, place) => place \in Place
BY CatalogueAssumption DEF Place, Refers, Rooted, IsRow, New, Gone, Top

LEMMA KeysStart == CatalogueInit => KeysInv
<1> SUFFICES ASSUME CatalogueInit PROVE KeysInv
  OBVIOUS
<1>1. /\ parent \in [Category -> Place \cup {New}]
      /\ shelf \in [Good -> {New} \cup {place \in Place : Refers(place)}]
      /\ sold = [g \in Good |-> 0]
  BY CatalogueAssumption DEF CatalogueInit
<1>2. \A c \in Category : parent[c] \in Place => Rooted(parent, parent[c])
  BY <1>1, PlacesAreRows, CatalogueAssumption
     DEF CatalogueInit, Rooted, Place
<1>3. \A g \in Good : shelf[g] \in Place => Rooted(parent, shelf[g])
  BY <1>1, PlacesAreRows
<1> QED BY <1>1, <1>2, <1>3 DEF KeysInv, Keyed

(* A row of the tree appears or moves under one that is there.                *)
LEMMA RowWritten ==
  ASSUME NEW tree, NEW filed, NEW lines, Keyed(tree, filed, lines),
         NEW c \in Category, NEW to, Rooted(tree, to)
  PROVE  Keyed([tree EXCEPT ![c] = to], filed, lines)
<1> DEFINE next == [tree EXCEPT ![c] = to]
<1>1. to \in Place
  BY PlacesAreRows
<1>2. /\ next \in [Category -> Place \cup {New, Gone}]
      /\ \A d \in Category : next[d] = IF d = c THEN to ELSE tree[d]
  BY <1>1 DEF Keyed
<1> HIDE DEF next
<1>3. \A place : Rooted(tree, place) => Rooted(next, place)
  BY <1>1, <1>2 DEF Rooted
<1>4. \A d \in Category : next[d] \in Place => Rooted(next, next[d])
  BY <1>2, <1>3 DEF Keyed
<1>5. Keyed(next, filed, lines)
  BY <1>2, <1>3, <1>4 DEF Keyed
<1> QED BY <1>5 DEF next

(* A category leaves only when nothing is under it and nothing in it.         *)
LEMMA RowDropped ==
  ASSUME NEW tree, NEW filed, NEW lines, Keyed(tree, filed, lines),
         NEW c \in Category, \A d \in Category : tree[d] # c,
         \A g \in Good : filed[g] # c
  PROVE  Keyed([tree EXCEPT ![c] = Gone], filed, lines)
<1> DEFINE next == [tree EXCEPT ![c] = Gone]
<1>1. /\ next \in [Category -> Place \cup {New, Gone}]
      /\ \A d \in Category : next[d] = IF d = c THEN Gone ELSE tree[d]
  BY DEF Keyed
<1> HIDE DEF next
<1>2. \A place : Rooted(tree, place) /\ place # c => Rooted(next, place)
  BY <1>1 DEF Rooted
<1>3. \A d \in Category : next[d] \in Place => Rooted(next, next[d])
  BY <1>1, <1>2, PlacesAreRows DEF Keyed
<1>4. Keyed(next, filed, lines)
  BY <1>1, <1>2, <1>3 DEF Keyed
<1> QED BY <1>4 DEF next

LEMMA WriteCategoryKeeps ==
  ASSUME KeysInv, NEW r \in Clerk, WriteCategory(r)
  PROVE  KeysInv'
<1>1. PICK to : to = desk[r].to
  OBVIOUS
<1>2. /\ shelf' = shelf /\ sold' = sold
      /\ \/ UNCHANGED parent
         \/ Refers(to) /\ \E c : parent' = [parent EXCEPT ![c] = to]
  BY <1>1, Zenon DEF WriteCategory
<1>3. CASE UNCHANGED parent
  BY <1>2, <1>3 DEF KeysInv
<1>4. ASSUME NEW c, Refers(to), parent' = [parent EXCEPT ![c] = to]
      PROVE  KeysInv'
  <2>1. CASE c \in Category
    <3>1. Keyed([parent EXCEPT ![c] = to], shelf, sold)
      BY <1>4, <2>1, PlacesAreRows, RowWritten DEF KeysInv
    <3> QED BY <1>2, <1>4, <3>1 DEF KeysInv
  <2>2. CASE c \notin Category
    BY <1>3, <1>4, <2>2 DEF KeysInv, Keyed
  <2> QED BY <2>1, <2>2
<1> QED BY <1>2, <1>3, <1>4

LEMMA DropCategoryKeeps ==
  ASSUME KeysInv, NEW r \in Clerk, DropCategory(r)
  PROVE  KeysInv'
<1>1. PICK c : c = desk[r].id
  OBVIOUS
<1>2. /\ shelf' = shelf /\ sold' = sold
      /\ \/ UNCHANGED parent
         \/ MayDropCategory(c) /\ parent' = [parent EXCEPT ![c] = Gone]
  BY <1>1, Zenon DEF DropCategory
<1>3. CASE UNCHANGED parent
  BY <1>2, <1>3 DEF KeysInv
<1>4. CASE MayDropCategory(c) /\ parent' = [parent EXCEPT ![c] = Gone]
  <2>1. CASE c \in Category
    <3>1. /\ \A d \in Category : parent[d] # c
          /\ \A g \in Good : shelf[g] # c
      BY <1>4 DEF MayDropCategory, Children, Filed
    <3>2. Keyed([parent EXCEPT ![c] = Gone], shelf, sold)
      BY <2>1, <3>1, RowDropped DEF KeysInv
    <3> QED BY <1>2, <1>4, <3>2 DEF KeysInv
  <2>2. CASE c \notin Category
    BY <1>3, <1>4, <2>2 DEF KeysInv, Keyed
  <2> QED BY <2>1, <2>2
<1> QED BY <1>2, <1>3, <1>4

(* A product appears or moves, leaves, or is ordered.                         *)
LEMMA GoodFiled ==
  ASSUME NEW tree, NEW filed, NEW lines, Keyed(tree, filed, lines),
         NEW g, NEW to, Rooted(tree, to)
  PROVE  Keyed(tree, [filed EXCEPT ![g] = to], lines)
<1> DEFINE next == [filed EXCEPT ![g] = to]
<1>1. to \in Place
  BY PlacesAreRows
<1>2. /\ next \in [Good -> Place \cup {New, Gone}]
      /\ \A h \in Good : next[h] = IF h = g THEN to ELSE filed[h]
  BY <1>1 DEF Keyed
<1> HIDE DEF next
<1>3. Keyed(tree, next, lines)
  BY <1>1, <1>2 DEF Keyed
<1> QED BY <1>3 DEF next

LEMMA GoodDropped ==
  ASSUME NEW tree, NEW filed, NEW lines, Keyed(tree, filed, lines),
         NEW g, lines[g] = 0
  PROVE  Keyed(tree, [filed EXCEPT ![g] = Gone], lines)
<1> DEFINE next == [filed EXCEPT ![g] = Gone]
<1>1. /\ next \in [Good -> Place \cup {New, Gone}]
      /\ \A h \in Good : next[h] = IF h = g THEN Gone ELSE filed[h]
  BY DEF Keyed
<1> HIDE DEF next
<1>2. Keyed(tree, next, lines)
  BY <1>1, PlacesAreRows DEF Keyed
<1> QED BY <1>2 DEF next

LEMMA LineWritten ==
  ASSUME NEW tree, NEW filed, NEW lines, Keyed(tree, filed, lines),
         NEW g, filed[g] \in Place
  PROVE  Keyed(tree, filed, [lines EXCEPT ![g] = @ + 1])
<1> DEFINE next == [lines EXCEPT ![g] = @ + 1]
<1>1. /\ next \in [Good -> Nat]
      /\ \A h \in Good : h # g => next[h] = lines[h]
  <2>1. CASE g \in Good
    <3>1. lines[g] + 1 \in Nat
      BY <2>1 DEF Keyed
    <3> QED BY <3>1 DEF Keyed
  <2>2. CASE g \notin Good
    BY <2>2 DEF Keyed
  <2> QED BY <2>1, <2>2
<1> HIDE DEF next
<1>2. Keyed(tree, filed, next)
  BY <1>1 DEF Keyed
<1> QED BY <1>2 DEF next

LEMMA GoodsKeep ==
  ASSUME KeysInv, UNCHANGED parent,
         \/ /\ UNCHANGED sold
            /\ \E g, to : Refers(to) /\ shelf' = [shelf EXCEPT ![g] = to]
         \/ /\ UNCHANGED sold
            /\ \E g : sold[g] = 0 /\ shelf' = [shelf EXCEPT ![g] = Gone]
         \/ /\ UNCHANGED shelf
            /\ \E g : IsRow(shelf[g]) /\ sold' = [sold EXCEPT ![g] = @ + 1]
         \/ UNCHANGED <<shelf, sold>>
  PROVE  KeysInv'
<1>1. ASSUME NEW g, NEW to, Refers(to), UNCHANGED sold,
             shelf' = [shelf EXCEPT ![g] = to]
      PROVE  KeysInv'
  <2>1. Keyed(parent, [shelf EXCEPT ![g] = to], sold)
    BY <1>1, PlacesAreRows, GoodFiled DEF KeysInv
  <2> QED BY <1>1, <2>1 DEF KeysInv
<1>2. ASSUME NEW g, sold[g] = 0, UNCHANGED sold,
             shelf' = [shelf EXCEPT ![g] = Gone]
      PROVE  KeysInv'
  <2>1. Keyed(parent, [shelf EXCEPT ![g] = Gone], sold)
    BY <1>2, GoodDropped DEF KeysInv
  <2> QED BY <1>2, <2>1 DEF KeysInv
<1>3. ASSUME NEW g, IsRow(shelf[g]), UNCHANGED shelf,
             sold' = [sold EXCEPT ![g] = @ + 1]
      PROVE  KeysInv'
  <2>1. Keyed(parent, shelf, [sold EXCEPT ![g] = @ + 1])
    BY <1>3, LineWritten DEF KeysInv, IsRow
  <2> QED BY <1>3, <2>1 DEF KeysInv
<1>4. CASE UNCHANGED <<shelf, sold>>
  BY <1>4 DEF KeysInv
<1> QED BY <1>1, <1>2, <1>3, <1>4

LEMMA KeysKept ==
  ASSUME KeysInv, [CatalogueNext]_catalogueVars
  PROVE  KeysInv'
<1>1. ASSUME NEW g \in Good, NEW to \in Place, NEW on \in BOOLEAN,
             CreateProduct(g, to, on)
      PROVE  KeysInv'
  BY <1>1, GoodsKeep, Zenon DEF CreateProduct
<1>2. ASSUME NEW r \in Clerk,
             \/ \E to \in Place :
                  \/ CreateCategory(r, to)
                  \/ \E c \in Category : UpdateCategory(r, c, to)
                  \/ \E g \in Good : Product(r, "update", g, to)
             \/ \E c \in Category : RemoveCategory(r, c)
             \/ \E g \in Good :
                  \/ Product(r, "remove", g, Top)
                  \/ HardDelete(r, g) \/ OrderProduct(r, g)
             \/ AssertValidParent(r) \/ CountChildren(r)
             \/ ArchiveProduct(r)
      PROVE  KeysInv'
  <2>1. UNCHANGED <<parent, shelf, sold>>
    BY <1>2, Zenon DEF CreateCategory, UpdateCategory, Product, RemoveCategory,
         HardDelete, OrderProduct, AssertValidParent, CountChildren,
         ArchiveProduct, Arrives, Steps
  <2> QED BY <2>1, GoodsKeep
<1>3. ASSUME NEW r \in Clerk, UpdateProduct(r) PROVE KeysInv'
  BY <1>3, GoodsKeep, Zenon DEF UpdateProduct
<1>4. ASSUME NEW r \in Clerk, DropProduct(r) PROVE KeysInv'
  BY <1>4, GoodsKeep, Zenon DEF DropProduct, MayDropGood
<1>5. ASSUME NEW r \in Clerk, WriteLine(r) PROVE KeysInv'
  BY <1>5, GoodsKeep, Zenon DEF WriteLine
<1>6. CASE UNCHANGED catalogueVars
  BY <1>6, GoodsKeep DEF catalogueVars
<1> QED BY <1>1, <1>2, <1>3, <1>4, <1>5, <1>6, WriteCategoryKeeps,
           DropCategoryKeeps, Zenon DEF CatalogueNext

(* Nothing dangles, for any tree, any number of products and of requests that *)
(* overlap: what a request saw of the rows it needs does not matter, because  *)
(* the foreign keys look again when it writes.                                *)
THEOREM KeysHold == CatalogueSpec => []NothingDangles
<1>1. KeysInv => NothingDangles
  BY PlacesAreRows DEF KeysInv, Keyed, NothingDangles, IsRow
<1> QED BY KeysStart, KeysKept, <1>1, PTL DEF CatalogueSpec

------------------------------------------------------------------------------
(* Posting: each share request adds at most one to what is about to be logged.*)
Step == {"none", "load", "next", "container", "publish", "record"}
ShareRow == [step : Step, left : SUBSET Channel,
             channel : Channel \cup {Nobody}, outcome : Outcome,
             posted : BOOLEAN]
OnChannel(q) ==
  q.step \in {"container", "publish", "record"} => q.channel \in Channel
ToLog(q, c) == q.step = "record" /\ q.channel = c /\ q.outcome = "POSTED"
One(b) == IF b THEN 1 ELSE 0

LogInv ==
  /\ onFile \in BOOLEAN
  /\ share \in [Share -> ShareRow]
  /\ \A r \in Share : OnChannel(share[r])
  /\ published \in [Channel -> Nat] /\ unknown \in [Channel -> Nat]
  /\ logged \in [Channel -> [Outcome -> Nat]]
  /\ LogTellsTruth

LEMMA UnrecordedCounts ==
  ASSUME NEW c
  PROVE  IsFiniteSet(Unrecorded(c)) /\ Cardinality(Unrecorded(c)) \in Nat
<1>1. Unrecorded(c) \subseteq Share
  BY DEF Unrecorded
<1> QED BY <1>1, SocialAssumption, FS_Subset, FS_CardinalityType

(* One request moves: what that does to the count.                            *)
LEMMA OneShareMoves ==
  ASSUME LogInv, NEW r \in Share, NEW q, share' = [share EXCEPT ![r] = q],
         NEW c
  PROVE  Cardinality(Unrecorded(c))' =
           Cardinality(Unrecorded(c))
             + One(ToLog(q, c)) - One(ToLog(share[r], c))
<1> DEFINE before == Unrecorded(c)
           after == Unrecorded(c)'
<1>1. \A x \in Share : share'[x] = IF x = r THEN q ELSE share[x]
  BY DEF LogInv
<1>2. \A x : x \in after <=>
        x \in Share /\ ToLog(IF x = r THEN q ELSE share[x], c)
  BY <1>1 DEF Unrecorded, ToLog
<1>3. \A x : x \in before <=> x \in Share /\ ToLog(share[x], c)
  BY DEF Unrecorded, ToLog
<1>4. IsFiniteSet(before) /\ Cardinality(before) \in Nat
  BY UnrecordedCounts
<1>5. Cardinality(Unrecorded(c))' = Cardinality(after)
  OBVIOUS
<1> HIDE DEF before, after
<1>6. CASE ToLog(q, c) /\ ~ToLog(share[r], c)
  <2>1. after = before \cup {r} /\ r \notin before
    BY <1>2, <1>3, <1>6
  <2>2. Cardinality(after) = Cardinality(before) + 1
    BY <1>4, <2>1, FS_AddElement
  <2> QED BY <1>4, <1>5, <1>6, <2>2 DEF One, before
<1>7. CASE ~ToLog(q, c) /\ ToLog(share[r], c)
  <2>1. after = before \ {r} /\ r \in before
    BY <1>2, <1>3, <1>7
  <2>2. Cardinality(after) = Cardinality(before) - 1
    BY <1>4, <2>1, FS_RemoveElement
  <2> QED BY <1>4, <1>5, <1>7, <2>2 DEF One, before
<1>8. CASE ToLog(q, c) <=> ToLog(share[r], c)
  <2>1. after = before
    BY <1>2, <1>3, <1>8
  <2> QED BY <1>4, <1>5, <1>8, <2>1 DEF One, before
<1> QED BY <1>6, <1>7, <1>8

(* So the log stays true when what it says moves by as much.                  *)
YetToLog(c) == published[c] - logged[c]["POSTED"] - unknown[c]
CountsTyped ==
  /\ published \in [Channel -> Nat] /\ unknown \in [Channel -> Nat]
  /\ logged \in [Channel -> [Outcome -> Nat]]

LEMMA LogStep ==
  ASSUME LogInv, NEW r \in Share, NEW q \in ShareRow, OnChannel(q),
         share' = [share EXCEPT ![r] = q], CountsTyped',
         onFile' = onFile, ~onFile => logged' = logged,
         \A c \in Channel :
           YetToLog(c)' =
             YetToLog(c) + One(ToLog(q, c)) - One(ToLog(share[r], c))
  PROVE  LogInv'
<1>1. share' \in [Share -> ShareRow] /\ \A x \in Share : OnChannel(share'[x])
  BY DEF LogInv
<1>2. ASSUME NEW c \in Channel, onFile
      PROVE  published'[c] = logged'[c]["POSTED"]
                               + Cardinality(Unrecorded(c))' + unknown'[c]
  <2> DEFINE n == Cardinality(Unrecorded(c))
             m == Cardinality(Unrecorded(c))'
             i == One(ToLog(q, c))
             j == One(ToLog(share[r], c))
             P == published'[c]
             L == logged'[c]["POSTED"]
             U == unknown'[c]
  <2>1. m = n + i - j
    BY OneShareMoves
  <2>2. n \in Nat /\ i \in Int /\ j \in Int
    BY UnrecordedCounts DEF One
  <2>3. YetToLog(c) = n
    <3>1. /\ published[c] \in Nat /\ unknown[c] \in Nat
          /\ logged[c]["POSTED"] \in Nat
      BY DEF LogInv, Outcome
    <3>2. published[c] = logged[c]["POSTED"] + n + unknown[c]
      BY <1>2 DEF LogInv, LogTellsTruth
    <3> HIDE DEF n
    <3> QED BY <2>2, <3>1, <3>2 DEF YetToLog
  <2>4. P - L - U = YetToLog(c) + i - j
    BY DEF YetToLog
  <2>5. P \in Nat /\ L \in Nat /\ U \in Nat
    BY DEF CountsTyped, Outcome
  <2> HIDE DEF n, m, i, j, P, L, U
  <2>6. P = L + m + U
    BY <2>1, <2>2, <2>3, <2>4, <2>5
  <2> QED BY <2>6 DEF P, L, U, m
<1>3. LogTellsTruth'
  <2>1. CASE onFile
    BY <1>2, <2>1 DEF LogTellsTruth
  <2>2. CASE ~onFile
    BY <2>2 DEF LogInv, LogTellsTruth
  <2> QED BY <2>1, <2>2
<1> QED BY <1>1, <1>3 DEF LogInv, CountsTyped

(* A step of a request that nothing was published in.                         *)
LEMMA QuietShare ==
  ASSUME LogInv, NEW r \in Share, NEW q \in ShareRow, OnChannel(q),
         share' = [share EXCEPT ![r] = q],
         UNCHANGED <<onFile, published, logged, unknown>>,
         \A c \in Channel : ~ToLog(q, c) /\ ~ToLog(share[r], c)
  PROVE  LogInv'
<1>1. CountsTyped'
  BY DEF LogInv, CountsTyped
<1>2. ASSUME NEW c \in Channel
      PROVE  YetToLog(c)' = YetToLog(c) + One(ToLog(q, c))
                                      - One(ToLog(share[r], c))
  <2>1. /\ published[c] \in Nat /\ unknown[c] \in Nat
        /\ logged[c]["POSTED"] \in Nat
    BY DEF LogInv, Outcome
  <2>2. YetToLog(c) \in Int /\ YetToLog(c)' = YetToLog(c)
    BY <2>1 DEF YetToLog
  <2> QED BY <2>2 DEF One
<1> QED BY <1>1, <1>2, LogStep

LEMMA ShareNowKeeps ==
  ASSUME LogInv, NEW r \in Share, NEW picks \in SUBSET Channel,
         ShareNow(r, picks)
  PROVE  LogInv'
<1> DEFINE q == [share[r] EXCEPT !.step = "load", !.left = picks]
<1>1. share[r] \in ShareRow /\ share[r].step = "none"
  BY DEF LogInv, ShareNow
<1>2. /\ q \in ShareRow /\ q.step = "load"
      /\ share' = [share EXCEPT ![r] = q]
      /\ UNCHANGED <<onFile, published, logged, unknown>>
  BY <1>1 DEF ShareNow, ShareRow, Step, LogInv
<1> HIDE DEF q
<1> QED BY <1>1, <1>2, QuietShare DEF OnChannel, ToLog

LEMMA ShareAnsweredKeeps ==
  ASSUME LogInv, NEW r \in Share, ShareAnswered(r)
  PROVE  LogInv'
<1> DEFINE q == NoShare
<1>1. /\ share[r].step = "next" /\ share' = [share EXCEPT ![r] = q]
      /\ UNCHANGED <<onFile, published, logged, unknown>>
  BY DEF ShareAnswered
<1>2. q \in ShareRow /\ q.step = "none"
  BY DEF NoShare, ShareRow, Step, Outcome
<1> HIDE DEF q
<1> QED BY <1>1, <1>2, QuietShare DEF OnChannel, ToLog

LEMMA LoadKeeps ==
  ASSUME LogInv, NEW r \in Share, Load(r)
  PROVE  LogInv'
<1> DEFINE q == [share[r] EXCEPT !.step = "next"]
<1>1. share[r] \in ShareRow /\ share[r].step = "load"
  BY DEF LogInv, Load
<1>2. /\ q \in ShareRow /\ q.step = "next"
      /\ share' = [share EXCEPT ![r] = q]
      /\ UNCHANGED <<onFile, published, logged, unknown>>
  BY <1>1 DEF Load, ShareRow, Step, LogInv, adminPage
<1> HIDE DEF q
<1> QED BY <1>1, <1>2, QuietShare DEF OnChannel, ToLog

LEMMA NotFoundKeeps ==
  ASSUME LogInv, NEW r \in Share, NotFound(r)
  PROVE  LogInv'
<1> DEFINE q == NoShare
<1>1. /\ share[r].step = "load" /\ share' = [share EXCEPT ![r] = q]
      /\ UNCHANGED <<onFile, published, logged, unknown>>
  BY DEF NotFound, Rejected
<1>2. q \in ShareRow /\ q.step = "none"
  BY DEF NoShare, ShareRow, Step, Outcome
<1> HIDE DEF q
<1> QED BY <1>1, <1>2, QuietShare DEF OnChannel, ToLog

LEMMA NextChannelKeeps ==
  ASSUME LogInv, NEW r \in Share, NEW c \in Channel, NextChannel(r, c)
  PROVE  LogInv'
<1> DEFINE next == IF c \in ready THEN FirstCall(c) ELSE "record"
           left == share[r].left \ {c}
           q == [share[r] EXCEPT !.left = left, !.channel = c,
                   !.outcome = "SKIPPED", !.step = next]
<1>1. share[r] \in ShareRow /\ share[r].step = "next"
  BY DEF LogInv, NextChannel
<1>2. next \in {"container", "publish", "record"}
  BY DEF FirstCall
<1>3. left \subseteq Channel
  BY <1>1 DEF ShareRow
<1>4. /\ share' = [share EXCEPT ![r] = q]
      /\ UNCHANGED <<onFile, published, logged, unknown>>
  BY <1>1 DEF NextChannel, LogInv, ShareRow, adminPage
<1> HIDE DEF next, left
<1>5. /\ q \in ShareRow /\ q.channel = c /\ q.outcome = "SKIPPED"
  BY <1>1, <1>2, <1>3 DEF ShareRow, Step, Outcome
<1> HIDE DEF q
<1> QED BY <1>1, <1>4, <1>5, QuietShare DEF OnChannel, ToLog

LEMMA ContainerMadeKeeps ==
  ASSUME LogInv, NEW r \in Share, ContainerMade(r)
  PROVE  LogInv'
<1> DEFINE q == [share[r] EXCEPT !.step = "publish"]
<1>1. share[r] \in ShareRow /\ share[r].step = "container"
      /\ share[r].channel \in Channel
  BY DEF LogInv, ContainerMade, OnChannel
<1>2. /\ share' = [share EXCEPT ![r] = q]
      /\ UNCHANGED <<onFile, published, logged, unknown>>
  BY DEF ContainerMade, ToPublish, LogInv, adminPage
<1>3. q \in ShareRow /\ q.step = "publish" /\ q.channel \in Channel
  BY <1>1 DEF ShareRow, Step
<1> HIDE DEF q
<1> QED BY <1>1, <1>2, <1>3, QuietShare DEF OnChannel, ToLog

LEMMA CallFailsKeeps ==
  ASSUME LogInv, NEW r \in Share, CallFails(r)
  PROVE  LogInv'
<1> DEFINE q == [share[r] EXCEPT !.step = "record", !.outcome = "FAILED"]
<1>1. share[r] \in ShareRow /\ share[r].step \in {"container", "publish"}
      /\ share[r].channel \in Channel
  BY DEF LogInv, CallFails, OnChannel
<1>2. /\ share' = [share EXCEPT ![r] = q]
      /\ UNCHANGED <<onFile, published, logged, unknown>>
  BY <1>1 DEF CallFails, ToRecord, LogInv, ShareRow, adminPage
<1>3. /\ q \in ShareRow /\ q.step = "record" /\ q.outcome = "FAILED"
      /\ q.channel \in Channel
  BY <1>1 DEF ShareRow, Step, Outcome
<1> HIDE DEF q
<1> QED BY <1>1, <1>2, <1>3, QuietShare DEF OnChannel, ToLog

(* Meta publishes, and says so or not.                                        *)
LEMMA PublishedKeeps ==
  ASSUME LogInv, NEW r \in Share, Published(r)
  PROVE  LogInv'
<1>1. PICK d : d = share[r].channel
  OBVIOUS
<1> DEFINE q == [share[r] EXCEPT !.step = "record", !.outcome = "POSTED"]
<1>2. share[r] \in ShareRow /\ share[r].step = "publish" /\ d \in Channel
  BY <1>1 DEF LogInv, Published, OnChannel
<1>3. /\ share' = [share EXCEPT ![r] = q]
      /\ published' = [published EXCEPT ![d] = @ + 1]
      /\ UNCHANGED <<onFile, logged, unknown>>
  BY <1>1, <1>2 DEF Published, Publishes, ToRecord, LogInv, ShareRow, adminPage
<1>4. /\ q \in ShareRow /\ q.step = "record" /\ q.outcome = "POSTED"
      /\ q.channel = d
  BY <1>1, <1>2 DEF ShareRow, Step, Outcome
<1> HIDE DEF q
<1>5. CountsTyped'
  BY <1>2, <1>3 DEF LogInv, CountsTyped
<1>6. ASSUME NEW c \in Channel
      PROVE  YetToLog(c)' = YetToLog(c) + One(ToLog(q, c))
                                      - One(ToLog(share[r], c))
  <2>1. /\ published[c] \in Nat /\ unknown[c] \in Nat
        /\ logged[c]["POSTED"] \in Nat
    BY DEF LogInv, Outcome
  <2>2. ~ToLog(share[r], c) /\ (ToLog(q, c) <=> c = d)
    BY <1>2, <1>4 DEF ToLog
  <2>3. published'[c] = published[c] + One(c = d)
    BY <1>3, <2>1 DEF LogInv, One
  <2>4. YetToLog(c)' = published'[c] - logged[c]["POSTED"] - unknown[c]
    BY <1>3 DEF YetToLog
  <2> QED BY <2>1, <2>2, <2>3, <2>4 DEF YetToLog, One
<1> QED BY <1>3, <1>4, <1>2, <1>5, <1>6, LogStep DEF OnChannel

LEMMA AnswerLostKeeps ==
  ASSUME LogInv, NEW r \in Share, AnswerLost(r)
  PROVE  LogInv'
<1>1. PICK d : d = share[r].channel
  OBVIOUS
<1> DEFINE q == [share[r] EXCEPT !.step = "record", !.outcome = "FAILED"]
<1>2. share[r] \in ShareRow /\ share[r].step = "publish" /\ d \in Channel
  BY <1>1 DEF LogInv, AnswerLost, OnChannel
<1>3. /\ share' = [share EXCEPT ![r] = q]
      /\ published' = [published EXCEPT ![d] = @ + 1]
      /\ unknown' = [unknown EXCEPT ![d] = @ + 1]
      /\ UNCHANGED <<onFile, logged>>
  BY <1>1, <1>2 DEF AnswerLost, Publishes, Untold, ToRecord, LogInv, ShareRow,
                    adminPage
<1>4. /\ q \in ShareRow /\ q.step = "record" /\ q.outcome = "FAILED"
      /\ q.channel = d
  BY <1>1, <1>2 DEF ShareRow, Step, Outcome
<1> HIDE DEF q
<1>5. CountsTyped'
  BY <1>2, <1>3 DEF LogInv, CountsTyped
<1>6. ASSUME NEW c \in Channel
      PROVE  YetToLog(c)' = YetToLog(c) + One(ToLog(q, c))
                                      - One(ToLog(share[r], c))
  <2>1. /\ published[c] \in Nat /\ unknown[c] \in Nat
        /\ logged[c]["POSTED"] \in Nat
    BY DEF LogInv, Outcome
  <2>2. ~ToLog(share[r], c) /\ ~ToLog(q, c)
    BY <1>2, <1>4 DEF ToLog
  <2>3. /\ published'[c] = published[c] + One(c = d)
        /\ unknown'[c] = unknown[c] + One(c = d)
    BY <1>3, <2>1 DEF LogInv, One
  <2>4. YetToLog(c)' = published'[c] - logged[c]["POSTED"] - unknown'[c]
    BY <1>3 DEF YetToLog
  <2> QED BY <2>1, <2>2, <2>3, <2>4 DEF YetToLog, One
<1> QED BY <1>2, <1>3, <1>4, <1>5, <1>6, LogStep DEF OnChannel

(* The row is written: what was about to be logged is.                        *)
LEMMA RecordKeeps ==
  ASSUME LogInv, NEW r \in Share, Record(r)
  PROVE  LogInv'
<1>1. PICK d, s : d = share[r].channel /\ s = share[r].outcome
  OBVIOUS
<1> DEFINE told == share[r].posted \/ s = "POSTED"
           q == [share[r] EXCEPT !.step = "next", !.posted = told]
<1>2. /\ share[r] \in ShareRow /\ share[r].step = "record"
      /\ d \in Channel /\ s \in Outcome
  BY <1>1 DEF LogInv, Record, OnChannel, ShareRow
<1>3. /\ share' = [share EXCEPT ![r] = q]
      /\ logged' = [logged EXCEPT ![d][s] = @ + 1]
      /\ onFile /\ UNCHANGED <<onFile, published, unknown>>
  BY <1>1, <1>2 DEF Record, LogInv, ShareRow, adminPage
<1>4. told \in BOOLEAN
  BY <1>2 DEF ShareRow
<1> HIDE DEF told
<1>5. q \in ShareRow /\ q.step = "next"
  BY <1>2, <1>4 DEF ShareRow, Step
<1> HIDE DEF q
<1>6. logged[d] \in [Outcome -> Nat] /\ logged[d][s] + 1 \in Nat
  BY <1>2 DEF LogInv
<1> DEFINE n == logged[d][s] + 1
           row == [logged[d] EXCEPT ![s] = n]
<1>7. logged' = [logged EXCEPT ![d] = row] /\ row \in [Outcome -> Nat]
  BY <1>3, <1>6
<1>8. row["POSTED"] = logged[d]["POSTED"] + One(s = "POSTED")
  BY <1>6 DEF One, Outcome
<1> HIDE DEF n, row
<1>9. CountsTyped'
  BY <1>2, <1>3, <1>7 DEF LogInv, CountsTyped
<1>10. ASSUME NEW c \in Channel
       PROVE  YetToLog(c)' = YetToLog(c) + One(ToLog(q, c))
                                       - One(ToLog(share[r], c))
  <2>1. /\ published[c] \in Nat /\ unknown[c] \in Nat
        /\ logged[c]["POSTED"] \in Nat
    BY DEF LogInv, Outcome
  <2>2. ~ToLog(q, c) /\ (ToLog(share[r], c) <=> c = d /\ s = "POSTED")
    BY <1>1, <1>2, <1>5 DEF ToLog
  <2>3. logged'[c]["POSTED"] =
          logged[c]["POSTED"] + One(c = d /\ s = "POSTED")
    BY <1>7, <1>8, <2>1 DEF LogInv, One
  <2>4. YetToLog(c)' = published[c] - logged'[c]["POSTED"] - unknown[c]
    BY <1>3 DEF YetToLog
  <2> QED BY <2>1, <2>2, <2>3, <2>4 DEF YetToLog, One
<1> QED BY <1>3, <1>5, <1>9, <1>10, LogStep DEF OnChannel

(* The row is refused: what was about to be logged is lost.                   *)
LEMMA RecordFailsKeeps ==
  ASSUME LogInv, NEW r \in Share, RecordFails(r)
  PROVE  LogInv'
<1>1. PICK d, posted : /\ d = share[r].channel
                       /\ posted \in BOOLEAN
                       /\ posted <=> share[r].outcome = "POSTED"
  OBVIOUS
<1> DEFINE q == NoShare
<1>2. /\ share[r] \in ShareRow /\ share[r].step = "record" /\ d \in Channel
  BY <1>1 DEF LogInv, RecordFails, OnChannel
<1>3. /\ share' = [share EXCEPT ![r] = q]
      /\ unknown' = IF posted THEN [unknown EXCEPT ![d] = @ + 1] ELSE unknown
      /\ UNCHANGED <<onFile, published, logged>>
  BY <1>1 DEF RecordFails, Rejected, Untold
<1>4. q \in ShareRow /\ q.step = "none"
  BY DEF NoShare, ShareRow, Step, Outcome
<1> HIDE DEF q
<1>5. CountsTyped'
  BY <1>2, <1>3 DEF LogInv, CountsTyped
<1>6. ASSUME NEW c \in Channel
      PROVE  YetToLog(c)' = YetToLog(c) + One(ToLog(q, c))
                                      - One(ToLog(share[r], c))
  <2>1. /\ published[c] \in Nat /\ unknown[c] \in Nat
        /\ logged[c]["POSTED"] \in Nat
    BY DEF LogInv, Outcome
  <2>2. ~ToLog(q, c) /\ (ToLog(share[r], c) <=> c = d /\ posted)
    BY <1>1, <1>2, <1>4 DEF ToLog
  <2>3. unknown'[c] = unknown[c] + One(c = d /\ posted)
    BY <1>3, <2>1 DEF LogInv, One
  <2>4. YetToLog(c)' = published[c] - logged[c]["POSTED"] - unknown'[c]
    BY <1>3 DEF YetToLog
  <2> QED BY <2>1, <2>2, <2>3, <2>4 DEF YetToLog, One
<1> QED BY <1>3, <1>4, <1>5, <1>6, LogStep DEF OnChannel

(* The product is deleted, and its rows with it.                              *)
LEMMA DeleteProductKeeps ==
  ASSUME LogInv, DeleteProduct
  PROVE  LogInv'
<1>1. /\ onFile' = FALSE /\ UNCHANGED <<share, published, unknown>>
      /\ logged' = [c \in Channel |-> NoRows]
  BY DEF DeleteProduct
<1>2. NoRows \in [Outcome -> Nat]
  BY DEF NoRows
<1>3. logged' \in [Channel -> [Outcome -> Nat]]
  BY <1>1, <1>2
<1>4. LogTellsTruth'
  BY <1>1 DEF LogTellsTruth
<1>5. onFile' \in BOOLEAN
  BY <1>1
<1> QED BY <1>1, <1>3, <1>4, <1>5 DEF LogInv

(* A restart loses the rows that were about to be written.                    *)
LEMMA ApiRestartsKeeps ==
  ASSUME LogInv, ApiRestarts
  PROVE  LogInv'
<1>1. /\ share' = [r \in Share |-> NoShare]
      /\ unknown' = [c \in Channel |->
                       unknown[c] + Cardinality(Unrecorded(c))]
      /\ UNCHANGED <<onFile, published, logged>>
  BY Zenon DEF ApiRestarts
<1>2. /\ NoShare \in ShareRow /\ NoShare.step = "none"
  BY DEF NoShare, ShareRow, Step, Outcome
<1>3. share' \in [Share -> ShareRow] /\ \A r \in Share : OnChannel(share'[r])
  BY <1>1, <1>2 DEF OnChannel
<1>4. ASSUME NEW c \in Channel
      PROVE  /\ unknown'[c] \in Nat
             /\ onFile => published'[c] =
                            logged'[c]["POSTED"]
                              + Cardinality(Unrecorded(c))' + unknown'[c]
  <2> DEFINE n == Cardinality(Unrecorded(c))
  <2>1. /\ published[c] \in Nat /\ unknown[c] \in Nat /\ n \in Nat
        /\ logged[c]["POSTED"] \in Nat
    BY UnrecordedCounts DEF LogInv, Outcome
  <2>2. onFile => published[c] = logged[c]["POSTED"] + n + unknown[c]
    BY DEF LogInv, LogTellsTruth
  <2>3. unknown'[c] = unknown[c] + n
    BY <1>1
  <2> HIDE DEF n
  <2>4. Unrecorded(c)' = {}
    BY <1>1, <1>2 DEF Unrecorded
  <2>5. Cardinality(Unrecorded(c))' = 0
    BY <2>4, FS_EmptySet
  <2> QED BY <1>1, <2>1, <2>2, <2>3, <2>5
<1>5. unknown' \in [Channel -> Nat]
  BY <1>1, <1>4
<1>6. LogTellsTruth'
  BY <1>1, <1>4 DEF LogInv, LogTellsTruth
<1> QED BY <1>1, <1>3, <1>5, <1>6 DEF LogInv

LEMMA LogStart == SocialInit => LogInv
<1> SUFFICES ASSUME SocialInit PROVE LogInv
  OBVIOUS
<1>1. /\ NoShare \in ShareRow /\ NoShare.step = "none"
  BY DEF NoShare, ShareRow, Step, Outcome
<1>2. share \in [Share -> ShareRow] /\ \A r \in Share : OnChannel(share[r])
  BY <1>1 DEF SocialInit, OnChannel
<1>3. \A c : Unrecorded(c) = {}
  BY <1>1 DEF SocialInit, Unrecorded
<1>4. ASSUME NEW c \in Channel
      PROVE  published[c] = logged[c]["POSTED"]
                              + Cardinality(Unrecorded(c)) + unknown[c]
  <2>1. Cardinality(Unrecorded(c)) = 0
    BY <1>3, FS_EmptySet
  <2>2. published[c] = 0 /\ unknown[c] = 0 /\ logged[c]["POSTED"] = 0
    BY DEF SocialInit, Outcome, NoRows
  <2> QED BY <2>1, <2>2
<1>5. LogTellsTruth
  BY <1>4 DEF SocialInit, LogTellsTruth
<1> QED BY <1>2, <1>5 DEF LogInv, SocialInit, NoRows

LEMMA LogKept ==
  ASSUME LogInv, [SocialNext]_socialVars
  PROVE  LogInv'
<1>1. CASE OpenOrClose \/ UNCHANGED socialVars
  <2>1. UNCHANGED <<onFile, share, published, logged, unknown>>
    BY <1>1 DEF OpenOrClose, socialVars
  <2>2. \A c : Unrecorded(c)' = Unrecorded(c)
    BY <2>1 DEF Unrecorded
  <2> QED BY <2>1, <2>2 DEF LogInv, LogTellsTruth
<1> QED BY <1>1, ShareNowKeeps, ShareAnsweredKeeps, NextChannelKeeps,
           ContainerMadeKeeps, PublishedKeeps, CallFailsKeeps, AnswerLostKeeps,
           RecordKeeps, RecordFailsKeeps, LoadKeeps, NotFoundKeeps,
           ApiRestartsKeeps, DeleteProductKeeps, Zenon DEF SocialNext

(* What the log calls POSTED is on Meta's pages, and what is there is logged, *)
(* about to be, or one of those whose answer, process or row was lost, as     *)
(* long as the product exists; then nothing is logged.  So it is whatever     *)
(* number of shares overlap, and however often Meta, the database or the      *)
(* process fails, at whichever statement.                                     *)
THEOREM LogHonest == SocialSpec => []LogTellsTruth
<1>1. LogInv => LogTellsTruth
  BY DEF LogInv
<1> QED BY LogStart, LogKept, <1>1, PTL DEF SocialSpec

------------------------------------------------------------------------------
(* The audit.  A row that no trade has touched since the repair read it is    *)
(* right, or the repair holds the right value for it.                         *)
Covered(s) == s \in Shelf /\ s.reserved <= s.available
StaleCache(s) == s.cache # Sellable(s)
HeldIsRight ==
  script.repair =>
    \A p \in Sku \ moved :
      /\ \A entry \in script.stale :
           entry[1] = p => entry[2] = Sellable(shelves[p])
      /\ StaleCache(shelves[p]) =>
           <<p, Sellable(shelves[p])>> \in script.stale
DriftIsEarned ==
  \A p \in Sku : Drift(shelves[p]) # {} => p \in drifted \cup moved
AuditInv ==
  /\ shelves \in [Sku -> Shelf] /\ \A p \in Sku : Covered(shelves[p])
  /\ script \in [step : {"idle", "repair", "audit", "done"},
                 repair : BOOLEAN,
                 stale : SUBSET (Sku \X (-MaxUnits .. MaxUnits))]
  /\ script.step = "idle" => \A p \in Sku : report[p] = {}
  /\ script.step \in {"idle", "audit", "done"} => script.stale = {}
  /\ script.step = "repair" => script.repair
  /\ HeldIsRight /\ DriftIsEarned /\ ReportIsEarned

\* What a row that is right looks like, and that a move keeps it so.
LEMMA DriftFacts ==
  ASSUME NEW s, Covered(s)
  PROVE  /\ "over-reserved" \notin Drift(s)
         /\ "cache" \in Drift(s) <=> StaleCache(s)
         /\ Drift(s) = {} <=> /\ s.ledger[1] = s.available
                              /\ s.ledger[2] = s.reserved
                              /\ ~StaleCache(s)
<1>1. s.available \in Int /\ s.reserved \in Int
  BY ReconciliationAssumption DEF Covered, Shelf
<1>2. "over-reserved" \notin Drift(s)
  BY <1>1 DEF Drift, Covered
<1>3. "cache" \in Drift(s) <=> StaleCache(s)
  BY DEF Drift, StaleCache, Problem
<1>4. "available" \in Drift(s) <=> s.ledger[1] # s.available
  BY DEF Drift, Problem
<1>5. "reserved" \in Drift(s) <=> s.ledger[2] # s.reserved
  BY DEF Drift, Problem
<1>6. Drift(s) \subseteq Problem
  BY DEF Drift
<1> QED BY <1>2, <1>3, <1>4, <1>5, <1>6 DEF Problem

LEMMA ChangeKeepsRight ==
  ASSUME NEW s, Covered(s), NEW a \in Int, NEW r \in Int,
         Covered(Change(s, a, r))
  PROVE  /\ Drift(s) = {} => Drift(Change(s, a, r)) = {}
<1> DEFINE t == Change(s, a, r)
<1>1. /\ t.available = s.available + a /\ t.reserved = s.reserved + r
      /\ t.cache = s.cache + a - r
      /\ t.ledger[1] = s.ledger[1] + a /\ t.ledger[2] = s.ledger[2] + r
  BY DEF Change
<1>2. s.available \in Int /\ s.reserved \in Int /\ s.cache \in Int
  BY ReconciliationAssumption DEF Covered, Shelf
<1>3. SUFFICES ASSUME Drift(s) = {} PROVE Drift(t) = {}
  OBVIOUS
<1>4. /\ s.ledger[1] = s.available /\ s.ledger[2] = s.reserved
      /\ s.cache = s.available - s.reserved
  BY <1>3, DriftFacts DEF StaleCache, Sellable
<1>5. /\ t.ledger[1] = t.available /\ t.ledger[2] = t.reserved
      /\ t.cache = t.available - t.reserved
  BY <1>1, <1>2, <1>4
<1>6. Covered(t)
  OBVIOUS
<1> HIDE DEF t
<1> QED BY <1>5, <1>6, DriftFacts DEF StaleCache, Sellable

LEMMA AuditStart == ReconciliationInit => AuditInv
<1> SUFFICES ASSUME ReconciliationInit PROVE AuditInv
  OBVIOUS
<1>1. shelves \in [Sku -> Shelf] /\ \A p \in Sku : Covered(shelves[p])
  BY OpeningAssumption DEF ReconciliationInit, Covered
<1>2. DriftIsEarned
  BY DEF ReconciliationInit, DriftIsEarned
<1>3. HeldIsRight /\ ReportIsEarned
  BY DEF ReconciliationInit, HeldIsRight, ReportIsEarned
<1> QED BY <1>1, <1>2, <1>3 DEF AuditInv, ReconciliationInit

\* A trade: what matters is that the row stays right unless it is noted.
LEMMA MovingKeeps ==
  ASSUME AuditInv, NEW p \in Sku, NEW row, Moving(p, row),
         drifted \subseteq drifted',
         Drift(shelves[p]) = {} => Drift(row) = {} \/ p \in drifted'
  PROVE  AuditInv'
<1>1. /\ shelves' = [shelves EXCEPT ![p] = row] /\ Covered(row)
      /\ moved' = IF script.repair THEN moved \cup {p} ELSE moved
      /\ UNCHANGED <<script, report>>
  BY DEF Moving, InRange, Covered
<1>2. shelves' \in [Sku -> Shelf] /\ \A q \in Sku : Covered(shelves'[q])
  BY <1>1 DEF AuditInv, Covered
<1>3. /\ shelves'[p] = row
      /\ \A q \in Sku : q # p => shelves'[q] = shelves[q]
  BY <1>1 DEF AuditInv
<1>4. moved \subseteq moved' /\ (script.repair => p \in moved')
  BY <1>1
<1>5. HeldIsRight'
  <2>1. SUFFICES ASSUME script.repair, NEW q \in Sku \ moved'
                 PROVE  /\ \A entry \in script.stale :
                             entry[1] = q => entry[2] = Sellable(shelves'[q])
                        /\ StaleCache(shelves'[q]) =>
                             <<q, Sellable(shelves'[q])>> \in script.stale
    BY <1>1 DEF HeldIsRight, Sellable, StaleCache
  <2>2. q \notin moved /\ shelves'[q] = shelves[q]
    BY <2>1, <1>3, <1>4
  <2> QED BY <2>1, <2>2 DEF AuditInv, HeldIsRight
<1>6. ASSUME NEW q \in Sku, Drift(shelves'[q]) # {}
      PROVE  q \in drifted' \cup moved'
  <2>1. CASE q = p
    BY <2>1, <1>3, <1>4, <1>6 DEF AuditInv, DriftIsEarned
  <2>2. CASE q # p
    BY <2>2, <1>3, <1>4, <1>6 DEF AuditInv, DriftIsEarned
  <2> QED BY <2>1, <2>2
<1>7. DriftIsEarned'
  BY <1>6 DEF DriftIsEarned, Drift, Sellable
<1>8. ReportIsEarned'
  BY <1>1, <1>4 DEF AuditInv, ReportIsEarned
<1> QED BY <1>1, <1>2, <1>5, <1>7, <1>8 DEF AuditInv

LEMMA TradesKeep ==
  ASSUME AuditInv, NEW p \in Sku,
         \/ Reserves(p) \/ Sells(p) \/ Releases(p)
         \/ \E change \in {-1, 1} : Adjusts(p, change)
  PROVE  AuditInv'
<1>1. PICK a \in Int, r \in Int :
        Moving(p, Change(shelves[p], a, r)) /\ UNCHANGED drifted
  BY DEF Reserves, Sells, Releases, Adjusts
<1> DEFINE row == Change(shelves[p], a, r)
<1>2. Covered(row) /\ Covered(shelves[p])
  BY <1>1 DEF Moving, InRange, Covered, AuditInv
<1>3. Drift(shelves[p]) = {} => Drift(row) = {}
  BY <1>2, ChangeKeepsRight
<1>4. Moving(p, row) /\ drifted \subseteq drifted'
  BY <1>1
<1> HIDE DEF row
<1> QED BY <1>3, <1>4, MovingKeeps

LEMMA EditsSizesKeeps ==
  ASSUME AuditInv, NEW p \in Sku, NEW total, EditsSizes(p, total)
  PROVE  AuditInv'
<1> DEFINE row == [shelves[p] EXCEPT !.available = total, !.cache = total]
<1>1. Moving(p, row) /\ drifted \subseteq drifted' /\ p \in drifted'
  BY DEF EditsSizes
<1> HIDE DEF row
<1> QED BY <1>1, MovingKeeps

LEMMA RepairReadKeeps ==
  ASSUME AuditInv, RepairRead
  PROVE  AuditInv'
<1>1. /\ script.step = "idle" /\ script'.step = "repair" /\ script'.repair
      /\ script'.stale =
           {<<p, Sellable(shelves[p])>> :
              p \in {q \in Sku : "cache" \in Drift(shelves[q])}}
      /\ UNCHANGED <<shelves, report, drifted, moved>>
  BY DEF RepairRead, Rebuilt
<1>2. ASSUME NEW p \in Sku
      PROVE  /\ Sellable(shelves[p]) \in -MaxUnits .. MaxUnits
             /\ "cache" \in Drift(shelves[p]) <=> StaleCache(shelves[p])
  <2>1. Covered(shelves[p])
    BY DEF AuditInv
  <2>2. Sellable(shelves[p]) \in -MaxUnits .. MaxUnits
    BY <2>1, ReconciliationAssumption DEF Covered, Shelf, Sellable
  <2> QED BY <2>1, <2>2, DriftFacts
<1>3. script'.stale \subseteq (Sku \X (-MaxUnits .. MaxUnits))
  BY <1>1, <1>2
<1>4. PICK held : script' = [step |-> "repair", repair |-> TRUE,
                             stale |-> held]
  BY DEF RepairRead
<1>5. script' \in [step : {"idle", "repair", "audit", "done"},
                   repair : BOOLEAN,
                   stale : SUBSET (Sku \X (-MaxUnits .. MaxUnits))]
  <2>1. script'.stale = held
    BY <1>4
  <2> QED BY <2>1, <1>3, <1>4
<1>6. ASSUME NEW p \in Sku
      PROVE  /\ \A entry \in script'.stale :
                  entry[1] = p => entry[2] = Sellable(shelves[p])
             /\ StaleCache(shelves[p]) =>
                  <<p, Sellable(shelves[p])>> \in script'.stale
  BY <1>1, <1>2
<1>7. HeldIsRight'
  BY <1>1, <1>6 DEF HeldIsRight, Sellable, StaleCache
<1>8. DriftIsEarned'
  BY <1>1 DEF AuditInv, DriftIsEarned
<1>9. ReportIsEarned'
  BY <1>1 DEF AuditInv, ReportIsEarned
<1> QED BY <1>1, <1>5, <1>7, <1>8, <1>9 DEF AuditInv, Covered

\* The write is by row, so it may be of a row that moved; of one that did
\* not, it writes what is right.
LEMMA RepairWriteKeeps ==
  ASSUME AuditInv, NEW p \in Sku, RepairWrite(p)
  PROVE  AuditInv'
<1>1. PICK entry \in script.stale :
        /\ entry[1] = p
        /\ shelves' = [shelves EXCEPT ![p].cache = entry[2]]
        /\ script' = [script EXCEPT !.stale = @ \ {entry}]
  BY DEF RepairWrite
<1>2. /\ script.step = "repair" /\ UNCHANGED <<report, drifted, moved>>
  BY DEF RepairWrite
<1> DEFINE row == [shelves[p] EXCEPT !.cache = entry[2]]
<1>3. Covered(shelves[p]) /\ entry[2] \in -MaxUnits .. MaxUnits
  BY <1>1 DEF AuditInv
<1>4. /\ Covered(row) /\ Sellable(row) = Sellable(shelves[p])
      /\ row.cache = entry[2]
  BY <1>3 DEF Covered, Shelf, Sellable
<1>5. Drift(shelves[p]) = {} /\ entry[2] = Sellable(shelves[p])
        => Drift(row) = {}
  <2>1. row.ledger = shelves[p].ledger /\ row.available = shelves[p].available
        /\ row.reserved = shelves[p].reserved
    BY <1>3 DEF Covered, Shelf
  <2> HIDE DEF row
  <2> QED BY <2>1, <1>3, <1>4, DriftFacts DEF StaleCache
<1>6. shelves'[p] = row /\ \A q \in Sku : q # p => shelves'[q] = shelves[q]
  BY <1>1 DEF AuditInv
<1> HIDE DEF row
<1>7. shelves' \in [Sku -> Shelf] /\ \A q \in Sku : Covered(shelves'[q])
  BY <1>1, <1>4, <1>6 DEF AuditInv, Covered
<1>8. /\ script'.step = script.step /\ script'.repair = script.repair
      /\ script'.stale = script.stale \ {entry}
      /\ script' \in [step : {"idle", "repair", "audit", "done"},
                      repair : BOOLEAN,
                      stale : SUBSET (Sku \X (-MaxUnits .. MaxUnits))]
  BY <1>1 DEF AuditInv
<1>9. HeldIsRight'
  <2>1. SUFFICES ASSUME script.repair, NEW q \in Sku \ moved
                 PROVE  /\ \A e \in script'.stale :
                             e[1] = q => e[2] = Sellable(shelves'[q])
                        /\ StaleCache(shelves'[q]) =>
                             <<q, Sellable(shelves'[q])>> \in script'.stale
    BY <1>2, <1>8 DEF HeldIsRight, Sellable, StaleCache
  <2>2. /\ \A e \in script.stale : e[1] = q => e[2] = Sellable(shelves[q])
        /\ StaleCache(shelves[q]) =>
             <<q, Sellable(shelves[q])>> \in script.stale
    BY <2>1 DEF AuditInv, HeldIsRight
  <2>3. CASE q = p
    <3>1. ~StaleCache(shelves'[q])
      BY <2>2, <2>3, <1>1, <1>4, <1>6 DEF StaleCache
    <3> QED BY <3>1, <2>2, <2>3, <1>4, <1>6, <1>8
  <2>4. CASE q # p
    BY <2>2, <2>4, <1>1, <1>6, <1>8
  <2> QED BY <2>3, <2>4
<1>10. ASSUME NEW q \in Sku, Drift(shelves'[q]) # {}
       PROVE  q \in drifted' \cup moved'
  <2>1. Drift(shelves[q]) # {} => q \in drifted \cup moved
    BY DEF AuditInv, DriftIsEarned
  <2>2. CASE q = p
    <3>1. p \notin moved => entry[2] = Sellable(shelves[p])
      BY <1>1, <1>2 DEF AuditInv, HeldIsRight
    <3> QED BY <3>1, <2>1, <2>2, <1>2, <1>5, <1>6, <1>10
  <2>3. CASE q # p
    BY <2>1, <2>3, <1>2, <1>6, <1>10
  <2> QED BY <2>2, <2>3
<1>11. DriftIsEarned'
  BY <1>10 DEF DriftIsEarned, Drift, Sellable
<1>12. ReportIsEarned'
  BY <1>2, <1>8 DEF AuditInv, ReportIsEarned
<1> QED BY <1>2, <1>7, <1>8, <1>9, <1>11, <1>12 DEF AuditInv, Covered

LEMMA NothingHeldKeeps ==
  ASSUME AuditInv, RepairDone \/ AuditOnly
  PROVE  AuditInv'
<1>1. /\ script' = [script EXCEPT !.step = "audit"]
      /\ script.stale = {}
      /\ UNCHANGED <<shelves, report, drifted, moved>>
  BY DEF RepairDone, AuditOnly, AuditInv
<1>2. /\ script'.step = "audit" /\ script'.repair = script.repair
      /\ script'.stale = script.stale
      /\ script' \in [step : {"idle", "repair", "audit", "done"},
                      repair : BOOLEAN,
                      stale : SUBSET (Sku \X (-MaxUnits .. MaxUnits))]
  BY <1>1 DEF AuditInv
<1>3. HeldIsRight' /\ DriftIsEarned' /\ ReportIsEarned'
  BY <1>1, <1>2
     DEF AuditInv, HeldIsRight, DriftIsEarned, ReportIsEarned, StaleCache,
         Sellable
<1> QED BY <1>1, <1>2, <1>3 DEF AuditInv, Covered

LEMMA FindDriftKeeps ==
  ASSUME AuditInv, FindDrift
  PROVE  AuditInv'
<1>1. /\ script.step = "audit"
      /\ report' = [p \in Sku |-> Drift(shelves[p])]
      /\ script' = [script EXCEPT !.step = "done"]
      /\ UNCHANGED <<shelves, drifted, moved>>
  BY DEF FindDrift
<1>2. /\ script'.step = "done" /\ script'.repair = script.repair
      /\ script'.stale = script.stale /\ script.stale = {}
      /\ script' \in [step : {"idle", "repair", "audit", "done"},
                      repair : BOOLEAN,
                      stale : SUBSET (Sku \X (-MaxUnits .. MaxUnits))]
  BY <1>1 DEF AuditInv
<1>3. HeldIsRight' /\ DriftIsEarned'
  BY <1>1, <1>2
     DEF AuditInv, HeldIsRight, DriftIsEarned, StaleCache, Sellable
<1>4. ASSUME NEW p \in Sku
      PROVE  /\ report'[p] # {} => p \in drifted' \cup moved'
             /\ script'.repair /\ "cache" \in report'[p] => p \in moved'
             /\ "over-reserved" \notin report'[p]
  <2>1. Covered(shelves[p]) /\ report'[p] = Drift(shelves[p])
    BY <1>1 DEF AuditInv
  <2>2. /\ "over-reserved" \notin Drift(shelves[p])
        /\ "cache" \in Drift(shelves[p]) <=> StaleCache(shelves[p])
    BY <2>1, DriftFacts
  <2>3. script.repair /\ p \notin moved => ~StaleCache(shelves[p])
    BY <1>2 DEF AuditInv, HeldIsRight
  <2> QED BY <1>1, <1>2, <2>1, <2>2, <2>3 DEF AuditInv, DriftIsEarned
<1>5. ReportIsEarned'
  BY <1>4 DEF ReportIsEarned
<1> QED BY <1>1, <1>2, <1>3, <1>5 DEF AuditInv, Covered

LEMMA AuditKept ==
  ASSUME AuditInv, [ReconciliationNext]_auditVars
  PROVE  AuditInv'
<1>1. CASE UNCHANGED auditVars
  <2>1. UNCHANGED <<shelves, script, report, drifted, moved>>
    BY <1>1 DEF auditVars
  <2> QED BY <2>1
          DEF AuditInv, HeldIsRight, DriftIsEarned, ReportIsEarned,
              StaleCache, Sellable, Covered
<1> QED BY <1>1, TradesKeep, EditsSizesKeeps, RepairWriteKeeps,
           RepairReadKeeps, NothingHeldKeeps, FindDriftKeeps, Zenon
        DEF ReconciliationNext

(* What the audit reports is so: drift that was there, that edited sizes      *)
(* made, or that the repair made by writing over a move, for any number of    *)
(* rows and trades and whatever the shop does between two statements.         *)
THEOREM ReportHonest == ReconciliationSpec => []ReportIsEarned
<1>1. AuditInv => ReportIsEarned
  BY DEF AuditInv
<1> QED BY AuditStart, AuditKept, <1>1, PTL DEF ReconciliationSpec

------------------------------------------------------------------------------
(* The depth of the tree.  A request whose look at the tree still holds puts  *)
(* a row under one that was at the top, and has nothing under it: a category  *)
(* that was at the top when it was seen is there still or gone.               *)
Reparent == {"createCategory", "updateCategory"}
DeskRow == [op : TreeOps \cup GoodOps, id : Category \cup Good \cup {New},
            to : Place, step : {"parent", "children", "write"},
            stale : BOOLEAN]
Filled(q) ==
  /\ q \in DeskRow
  /\ q.step # "write" => q.op \in Reparent /\ q.to \in Category
  /\ q.step = "children" => q.op = "updateCategory"
  /\ q.op = "updateCategory" => q.id \in Category /\ q.to # q.id
  /\ q.op \in GoodOps => q.id \in Good

Looked(q) == q.op \in Reparent /\ ~q.stale
Sound(q, tree) ==
  Looked(q) =>
    /\ q.step \in {"children", "write"} /\ q.to \in Category =>
         tree[q.to] \in {Top, Gone}
    /\ q.step = "write" /\ q.op = "updateCategory" /\ q.to # Top =>
         \A d \in Category : tree[d] # q.id
Kept(q, tree) == q \in {Awaited, Served} \/ (Filled(q) /\ Sound(q, tree))

DeskInv ==
  /\ desk \in [Clerk -> {Awaited, Served} \cup DeskRow]
  /\ \A r \in Clerk : Kept(desk[r], parent)
  /\ active \subseteq Good
  /\ sold \in [Good -> 0 .. MaxSold]
TreeInv == KeysInv /\ DeskInv

LEMMA TreeTyped == TreeInv => CatalogueTypeOK
<1> SUFFICES ASSUME TreeInv PROVE CatalogueTypeOK
  OBVIOUS
<1>1. ASSUME NEW r \in Clerk
      PROVE  \/ desk[r] \in {Awaited, Served}
             \/ /\ desk[r].op \in TreeOps \cup GoodOps
                /\ desk[r].id \in Category \cup Good \cup {New}
                /\ desk[r].to \in Place
                /\ desk[r].step \in {"parent", "children", "write"}
  BY DEF TreeInv, DeskInv, Kept, Filled, DeskRow
<1> QED BY <1>1 DEF TreeInv, DeskInv, KeysInv, Keyed, CatalogueTypeOK

LEMMA TreeStart == CatalogueInit => TreeInv
<1> SUFFICES ASSUME CatalogueInit PROVE TreeInv
  OBVIOUS
<1>1. active \subseteq Good
  BY DEF CatalogueInit
<1>2. sold \in [Good -> 0 .. MaxSold]
  BY CatalogueAssumption DEF CatalogueInit
<1>3. \A r \in Clerk : desk[r] = Awaited
  BY DEF CatalogueInit
<1>4. desk \in [Clerk -> {Awaited, Served} \cup DeskRow]
  BY DEF CatalogueInit
<1> QED BY <1>1, <1>2, <1>3, <1>4, KeysStart DEF TreeInv, DeskInv, Kept

(* A request at the desk is none that waits or is served.                     *)
LEMMA AtTheDesk ==
  ASSUME NEW r \in Clerk, DeskInv,
         desk[r].step \notin {"awaited", "served"}
  PROVE  Filled(desk[r]) /\ Sound(desk[r], parent)
BY DEF DeskInv, Kept, Awaited, Served, Call

(* One request moves, and the tree stays.                                     *)
LEMMA DeskStep ==
  ASSUME DeskInv, NEW r \in Clerk, NEW q, desk' = [desk EXCEPT ![r] = q],
         Kept(q, parent), UNCHANGED parent,
         active' \subseteq Good, sold' \in [Good -> 0 .. MaxSold]
  PROVE  DeskInv'
<1>1. /\ desk' \in [Clerk -> {Awaited, Served} \cup DeskRow]
      /\ \A x \in Clerk : desk'[x] = IF x = r THEN q ELSE desk[x]
  BY DEF DeskInv, Kept, Filled
<1>2. \A x \in Clerk : Kept(desk'[x], parent')
  BY <1>1, Zenon DEF DeskInv
<1> QED BY <1>1, <1>2 DEF DeskInv

(* What a request asks for when it arrives, and after a look at the tree.     *)
LEMMA ArrivalKept ==
  ASSUME DeskInv, NEW r \in Clerk, NEW q, Arrives(r, q),
         Filled(q), Sound(q, parent)
  PROVE  DeskInv'
<1>1. Kept(q, parent)
  BY DEF Kept
<1>2. /\ desk' = [desk EXCEPT ![r] = q] /\ UNCHANGED parent
      /\ active' \subseteq Good /\ sold' \in [Good -> 0 .. MaxSold]
  BY DEF Arrives, DeskInv
<1> QED BY <1>1, <1>2, DeskStep

LEMMA LeavingKept ==
  ASSUME DeskInv, NEW r \in Clerk, Leaves(r), UNCHANGED parent,
         active' \subseteq Good, sold' \in [Good -> 0 .. MaxSold]
  PROVE  DeskInv'
<1>1. Kept(Served, parent) /\ desk' = [desk EXCEPT ![r] = Served]
  BY DEF Kept, Leaves
<1> QED BY <1>1, DeskStep

LEMMA ReparentsKept ==
  ASSUME DeskInv, NEW r \in Clerk, NEW to \in Place,
         \/ CreateCategory(r, to)
         \/ \E c \in Category : UpdateCategory(r, c, to)
  PROVE  DeskInv'
<1>1. PICK op \in Reparent, id \in Category \cup {New} :
        /\ Arrives(r, Reparents(op, id, to))
        /\ op = "updateCategory" => id \in Category /\ to # id
        /\ op = "updateCategory" => IsRow(parent[id])
  BY DEF CreateCategory, UpdateCategory, Reparent
<1>2. PICK q : q = Reparents(op, id, to)
  OBVIOUS
<1>3. /\ q.op = op /\ q.id = id /\ q.to = to /\ q.stale = FALSE
      /\ q.step = IF to = Top THEN "write" ELSE "parent"
      /\ q \in DeskRow
  BY <1>1, <1>2 DEF Reparents, Call, DeskRow, TreeOps, Reparent
<1>4. Filled(q)
  BY <1>1, <1>3 DEF Filled, Reparent, Place, GoodOps
<1>5. Sound(q, parent)
  BY <1>3, CatalogueAssumption DEF Sound
<1> QED BY <1>1, <1>2, <1>4, <1>5, ArrivalKept

LEMMA LooksKept ==
  ASSUME DeskInv, NEW r \in Clerk, AssertValidParent(r) \/ CountChildren(r)
  PROVE  DeskInv'
<1>1. PICK q : q = desk[r]
  OBVIOUS
<1>2. q.step \in {"parent", "children"}
  BY <1>1, Zenon DEF AssertValidParent, CountChildren
<1>3. Filled(q) /\ Sound(q, parent)
  BY <1>1, <1>2, AtTheDesk
<1>4. active \subseteq Good /\ sold \in [Good -> 0 .. MaxSold]
  BY DEF DeskInv
<1>5. CASE Leaves(r) /\ UNCHANGED <<parent, shelf, active, sold>>
  BY <1>4, <1>5, LeavingKept
<1>6. ASSUME NEW step \in {"children", "write"}, Steps(r, step),
             q.op \in Reparent /\ q.to \in Category,
             step = "children" => q.op = "updateCategory",
             ~q.stale => parent[q.to] \in {Top, Gone},
             ~q.stale /\ step = "write" /\ q.op = "updateCategory" =>
               \A d \in Category : parent[d] # q.id
      PROVE  DeskInv'
  <2>1. PICK next : next = [q EXCEPT !.step = step]
    OBVIOUS
  <2>2. /\ next \in DeskRow /\ next.step = step /\ next.op = q.op
        /\ next.id = q.id /\ next.to = q.to /\ next.stale = q.stale
    BY <1>3, <2>1 DEF Filled, DeskRow
  <2>3. desk' = [desk EXCEPT ![r] = next] /\ UNCHANGED <<parent, active, sold>>
    BY <1>1, <1>6, <2>1 DEF Steps
  <2>4. Filled(next)
    BY <1>3, <1>6, <2>2 DEF Filled
  <2>5. Sound(next, parent)
    BY <1>6, <2>2 DEF Sound, Looked
  <2> QED BY <1>4, <2>3, <2>4, <2>5, DeskStep DEF Kept
<1>7. CASE AssertValidParent(r)
  <2>1. q.step = "parent" /\ q.op \in Reparent /\ q.to \in Category
    BY <1>1, <1>3, <1>7 DEF AssertValidParent, Filled
  <2>2. CASE parent[q.to] # Top
    BY <1>1, <1>5, <1>7, <2>2 DEF AssertValidParent
  <2>3. CASE parent[q.to] = Top
    <3>1. PICK step \in {"children", "write"} :
            /\ Steps(r, step)
            /\ step = IF q.op = "createCategory" THEN "write" ELSE "children"
      BY <1>1, <1>7, <2>3 DEF AssertValidParent
    <3> QED BY <1>6, <2>1, <2>3, <3>1 DEF Reparent
  <2> QED BY <2>2, <2>3
<1>8. CASE CountChildren(r)
  <2>1. /\ q.step = "children" /\ q.op = "updateCategory"
        /\ q.to \in Category
    BY <1>1, <1>3, <1>8 DEF CountChildren, Filled
  <2>2. ~q.stale => parent[q.to] \in {Top, Gone}
    BY <1>3, <2>1 DEF Sound, Looked, Reparent
  <2>3. CASE ~MayNest(q.id)
    BY <1>1, <1>5, <1>8, <2>3 DEF CountChildren
  <2>4. CASE MayNest(q.id)
    <3>1. Steps(r, "write")
      BY <1>1, <1>8, <2>4 DEF CountChildren
    <3>2. \A d \in Category : parent[d] # q.id
      BY <2>4 DEF MayNest, Children
    <3> QED BY <1>6, <2>1, <2>2, <3>1, <3>2 DEF Reparent
  <2> QED BY <2>3, <2>4
<1> QED BY <1>7, <1>8

(* A row is written: the requests that have looked are stale.                 *)
LEMMA OutdatesKept ==
  ASSUME DeskInv, NEW r \in Clerk, Outdates(r), UNCHANGED <<active, sold>>
  PROVE  DeskInv'
<1>1. \A x \in Clerk :
        desk'[x] = IF x = r THEN Served
                   ELSE IF desk[x].step \in {"children", "write"}
                        THEN [desk[x] EXCEPT !.stale = TRUE] ELSE desk[x]
  BY DEF Outdates
<1>2. ASSUME NEW x \in Clerk PROVE Kept(desk'[x], parent')
  <2>1. PICK q, next : q = desk[x] /\ next = desk'[x]
    OBVIOUS
  <2>2. CASE x = r
    BY <1>1, <2>2 DEF Kept
  <2>3. CASE x # r /\ q.step \in {"children", "write"}
    <3>1. Filled(q)
      BY <2>1, <2>3, AtTheDesk
    <3>2. next = [q EXCEPT !.stale = TRUE]
      BY <1>1, <2>1, <2>3
    <3>3. Filled(next) /\ next.stale = TRUE
      BY <3>1, <3>2 DEF Filled, DeskRow
    <3> QED BY <2>1, <3>3 DEF Kept, Sound, Looked
  <2>4. CASE x # r /\ q.step \notin {"children", "write"}
    <3>1. next = q
      BY <1>1, <2>1, <2>4
    <3>2. q \in {Awaited, Served} \/ Filled(q)
      BY <2>1 DEF DeskInv, Kept
    <3> QED BY <2>1, <2>4, <3>1, <3>2 DEF Kept, Sound
  <2> QED BY <2>2, <2>3, <2>4
<1>3. desk' \in [Clerk -> {Awaited, Served} \cup DeskRow]
  BY <1>2 DEF Outdates, Kept, Filled
<1>4. active' \subseteq Good /\ sold' \in [Good -> 0 .. MaxSold]
  BY DEF DeskInv
<1> QED BY <1>2, <1>3, <1>4 DEF DeskInv

LEMMA WritesKept ==
  ASSUME DeskInv, NEW r \in Clerk, WriteCategory(r)
  PROVE  DeskInv'
<1>1. UNCHANGED <<active, sold>>
  BY DEF WriteCategory
<1>2. Outdates(r) \/ (Leaves(r) /\ UNCHANGED parent)
  BY Zenon DEF WriteCategory
<1>3. active' \subseteq Good /\ sold' \in [Good -> 0 .. MaxSold]
  BY <1>1 DEF DeskInv
<1> QED BY <1>1, <1>2, <1>3, OutdatesKept, LeavingKept

(* A category leaves: what was at the top is there or gone, and nothing is    *)
(* put under anything.                                                        *)
LEMMA DropKept ==
  ASSUME KeysInv, DeskInv, NEW r \in Clerk, DropCategory(r)
  PROVE  DeskInv'
<1>1. PICK c : c = desk[r].id
  OBVIOUS
<1>2. /\ Leaves(r) /\ UNCHANGED <<active, sold>>
      /\ parent' = parent \/ parent' = [parent EXCEPT ![c] = Gone]
  BY <1>1, Zenon DEF DropCategory
<1>3. \A d \in Category : parent'[d] \in {parent[d], Gone}
  BY <1>2 DEF KeysInv, Keyed
<1>4. ASSUME NEW q, Kept(q, parent) PROVE Kept(q, parent')
  <2>1. SUFFICES ASSUME Filled(q), Sound(q, parent), Looked(q)
                 PROVE  Sound(q, parent')
    BY <1>4 DEF Kept, Sound
  <2>2. ASSUME q.step \in {"children", "write"}, q.to \in Category
        PROVE  parent'[q.to] \in {Top, Gone}
    BY <1>3, <2>1, <2>2 DEF Sound
  <2>3. ASSUME q.step = "write", q.op = "updateCategory", q.to # Top,
               NEW d \in Category
        PROVE  parent'[d] # q.id
    BY <1>3, <2>1, <2>3, CatalogueAssumption DEF Sound, Filled
  <2> QED BY <2>2, <2>3 DEF Sound
<1>5. /\ desk' \in [Clerk -> {Awaited, Served} \cup DeskRow]
      /\ \A x \in Clerk : desk'[x] \in {desk[x], Served}
  BY <1>2 DEF Leaves, DeskInv
<1>6. ASSUME NEW x \in Clerk PROVE Kept(desk'[x], parent')
  <2>1. CASE desk'[x] = Served
    BY <2>1 DEF Kept
  <2>2. CASE desk'[x] = desk[x]
    BY <1>4, <2>2, Zenon DEF DeskInv
  <2> QED BY <1>5, <2>1, <2>2
<1>7. active' \subseteq Good /\ sold' \in [Good -> 0 .. MaxSold]
  BY <1>2 DEF DeskInv
<1> QED BY <1>5, <1>6, <1>7 DEF DeskInv

(* The requests for products do not touch the tree.                           *)
LEMMA ProductAsked ==
  ASSUME DeskInv, NEW r \in Clerk, NEW g \in Good, NEW to \in Place,
         NEW op \in GoodOps, Product(r, op, g, to)
  PROVE  DeskInv'
<1>1. PICK q : q = Call(op, g, to, "write")
  OBVIOUS
<1>2. /\ q \in DeskRow /\ q.op = op /\ q.id = g /\ q.step = "write"
      /\ op \notin Reparent
  BY <1>1 DEF Call, DeskRow, GoodOps, Reparent
<1>3. Filled(q) /\ Sound(q, parent)
  BY <1>2 DEF Filled, Sound, Looked, Reparent
<1> QED BY <1>1, <1>3, ArrivalKept DEF Product

LEMMA RemovalAsked ==
  ASSUME DeskInv, NEW r \in Clerk, NEW c \in Category, RemoveCategory(r, c)
  PROVE  DeskInv'
<1>1. PICK q : q = Call("removeCategory", c, Top, "write")
  OBVIOUS
<1>2. /\ q \in DeskRow /\ q.op = "removeCategory" /\ q.step = "write"
      /\ q.op \notin Reparent
  BY <1>1 DEF Call, DeskRow, TreeOps, Reparent, Place
<1>3. Filled(q) /\ Sound(q, parent)
  BY <1>2 DEF Filled, Sound, Looked, Reparent, GoodOps
<1> QED BY <1>1, <1>3, ArrivalKept DEF RemoveCategory

LEMMA ProductsWritten ==
  ASSUME KeysInv, DeskInv, NEW r \in Clerk,
         \/ UpdateProduct(r) \/ ArchiveProduct(r)
         \/ DropProduct(r) \/ WriteLine(r)
  PROVE  DeskInv'
<1>1. Leaves(r) /\ UNCHANGED parent
  BY Zenon DEF UpdateProduct, ArchiveProduct, DropProduct, WriteLine
<1>2. desk[r].op \in GoodOps /\ desk[r].step = "write"
  BY Zenon DEF UpdateProduct, ArchiveProduct, DropProduct, WriteLine, Writes,
       GoodOps
<1>3. desk[r].id \in Good
  BY <1>2, AtTheDesk DEF Filled
<1>4. active' \subseteq Good
  BY <1>3 DEF DeskInv, UpdateProduct, ArchiveProduct, DropProduct, WriteLine
<1>5. sold' \in [Good -> 0 .. MaxSold]
  <2>1. CASE WriteLine(r)
    <3>1. PICK g \in Good : g = desk[r].id
      BY <1>3
    <3>2. /\ sold[g] < MaxSold
          /\ sold' = sold \/ sold' = [sold EXCEPT ![g] = @ + 1]
      BY <2>1, <3>1 DEF WriteLine
    <3>3. sold[g] + 1 \in 0 .. MaxSold
      BY <3>2, CatalogueAssumption DEF DeskInv
    <3> QED BY <3>2, <3>3 DEF DeskInv
  <2>2. CASE ~WriteLine(r)
    BY <2>2 DEF DeskInv, UpdateProduct, ArchiveProduct, DropProduct
  <2> QED BY <2>1, <2>2
<1> QED BY <1>1, <1>4, <1>5, LeavingKept

LEMMA TreeKept ==
  ASSUME TreeInv, [CatalogueNext]_catalogueVars
  PROVE  TreeInv'
<1> SUFFICES DeskInv'
  BY KeysKept DEF TreeInv
<1> USE DEF TreeInv
<1>1. ASSUME NEW g \in Good, NEW to \in Place, NEW on \in BOOLEAN,
             CreateProduct(g, to, on)
      PROVE  DeskInv'
  <2>1. UNCHANGED <<desk, parent, sold>> /\ active' \subseteq Good
    BY <1>1 DEF CreateProduct, DeskInv
  <2> QED BY <2>1 DEF DeskInv
<1>2. ASSUME NEW r \in Clerk, NEW to \in Place, NEW g \in Good,
             Product(r, "update", g, to)
      PROVE  DeskInv'
  BY <1>2, ProductAsked DEF GoodOps
<1>3. ASSUME NEW r \in Clerk, NEW g \in Good,
             \/ Product(r, "remove", g, Top)
             \/ HardDelete(r, g) \/ OrderProduct(r, g)
      PROVE  DeskInv'
  <2>1. PICK op \in GoodOps : Product(r, op, g, Top)
    BY <1>3 DEF HardDelete, OrderProduct, GoodOps
  <2> QED BY <2>1, ProductAsked DEF Place
<1>4. CASE UNCHANGED catalogueVars
  BY <1>4 DEF catalogueVars, DeskInv
<1> QED BY <1>1, <1>2, <1>3, <1>4, ReparentsKept, RemovalAsked, LooksKept,
           WritesKept, DropKept, ProductsWritten, Zenon DEF CatalogueNext

(* Who writes with what is still so makes no third level.                     *)
LEMMA NoThirdLevel ==
  ASSUME TreeInv, NEW r \in Clerk, WriteCategory(r), ~desk[r].stale,
         ThirdLevel'
  PROVE  ThirdLevel
<1>1. PICK q : q = desk[r]
  OBVIOUS
<1>2. /\ q.step = "write" /\ q.op \in Reparent
      /\ \/ UNCHANGED parent
         \/ \E c \in Category :
              /\ q.op = "createCategory" => parent[c] = New
              /\ q.op = "updateCategory" => c = q.id /\ IsRow(parent[c])
              /\ Refers(q.to) /\ parent' = [parent EXCEPT ![c] = q.to]
  <2>1. q.step = "write" /\ q.op \in Reparent
    BY <1>1 DEF WriteCategory, Writes, Reparent
  <2>2. Filled(q)
    BY <1>1, <2>1, AtTheDesk DEF TreeInv
  <2>3. \/ q.op = "createCategory"
        \/ q.op = "updateCategory" /\ q.id \in Category
    BY <2>1, <2>2 DEF Filled, Reparent
  <2> QED BY <1>1, <2>1, <2>3 DEF WriteCategory
<1>3. Filled(q) /\ Sound(q, parent) /\ Looked(q)
  BY <1>1, <1>2, AtTheDesk DEF TreeInv, Looked
<1>4. PICK a, b \in Category : parent'[a] = b /\ parent'[b] \in Category
  BY DEF ThirdLevel
<1>5. CASE UNCHANGED parent
  BY <1>4, <1>5 DEF ThirdLevel
<1>6. ASSUME NEW c \in Category,
             q.op = "createCategory" => parent[c] = New,
             q.op = "updateCategory" => c = q.id /\ IsRow(parent[c]),
             Refers(q.to), parent' = [parent EXCEPT ![c] = q.to]
      PROVE  ThirdLevel
  <2>1. \A d \in Category : parent'[d] = IF d = c THEN q.to ELSE parent[d]
    BY <1>6 DEF TreeInv, KeysInv, Keyed
  <2>2. q.to \in Category => parent[q.to] = Top /\ q.to # c
    <3>1. q.to \in Category => parent[q.to] \in {Top, Gone}
      BY <1>2, <1>3 DEF Sound
    <3>2. q.to \in Category => IsRow(parent[q.to])
      BY <1>6, CatalogueAssumption DEF Refers
    <3>3. q.op \in Reparent /\ (q.op = "updateCategory" => q.to # q.id)
      BY <1>2, <1>3 DEF Filled
    <3> QED BY <1>6, <3>1, <3>2, <3>3, PlacesAreRows
            DEF IsRow, Reparent, Top, New, Gone
  <2>3. ASSUME a # c, b # c PROVE ThirdLevel
    BY <1>4, <2>1, <2>3 DEF ThirdLevel
  <2>4. a # c
    BY <1>4, <2>1, <2>2, CatalogueAssumption
  <2>5. ASSUME b = c PROVE FALSE
    <3>1. parent[a] = c /\ q.to \in Category
      BY <1>4, <2>1, <2>4, <2>5
    <3>2. CASE q.op = "createCategory"
      <4>1. parent[c] = New
        BY <1>6, <3>2
      <4>2. IsRow(parent[a]) /\ Rooted(parent, c)
        BY <3>1, Zenon DEF TreeInv, KeysInv, Keyed, IsRow, Place
      <4> QED BY <4>1, <4>2, PlacesAreRows, CatalogueAssumption DEF Rooted
    <3>3. CASE q.op = "updateCategory"
      BY <1>2, <1>3, <1>6, <3>1, <3>3, CatalogueAssumption DEF Sound
    <3> QED BY <1>2, <3>2, <3>3 DEF Reparent
  <2> QED BY <2>3, <2>4, <2>5
<1> QED BY <1>2, <1>5, <1>6

LEMMA TreeStaysFlat ==
  TreeInv /\ [CatalogueNext]_catalogueVars =>
    (ThirdLevel' => \/ ThirdLevel
                    \/ \E r \in Clerk : /\ desk[r].step = "write"
                                        /\ desk[r].stale
                                        /\ desk'[r] = Served)
<1> SUFFICES ASSUME TreeInv, [CatalogueNext]_catalogueVars, ThirdLevel'
             PROVE  \/ ThirdLevel
                    \/ \E r \in Clerk : /\ desk[r].step = "write"
                                        /\ desk[r].stale
                                        /\ desk'[r] = Served
  OBVIOUS
<1>1. CASE UNCHANGED parent
  BY <1>1 DEF ThirdLevel
<1>2. ASSUME NEW r \in Clerk, DropCategory(r) PROVE ThirdLevel
  <2>1. PICK c : parent' = parent \/ parent' = [parent EXCEPT ![c] = Gone]
    BY <1>2, Zenon DEF DropCategory
  <2>2. \A d \in Category : parent'[d] \in {parent[d], Gone}
    BY <2>1 DEF TreeInv, KeysInv, Keyed
  <2> QED BY <2>2, CatalogueAssumption DEF ThirdLevel
<1>3. ASSUME NEW r \in Clerk, WriteCategory(r), desk[r].stale
      PROVE  \E x \in Clerk : /\ desk[x].step = "write"
                              /\ desk[x].stale
                              /\ desk'[x] = Served
  <2>1. desk[r].step = "write"
    BY <1>3, Zenon DEF WriteCategory, Writes
  <2>2. desk'[r] = Served
    BY <1>3, Zenon DEF WriteCategory, Outdates, Leaves, TreeInv, DeskInv
  <2> QED BY <1>3, <2>1, <2>2
<1>4. \/ UNCHANGED parent
      \/ \E r \in Clerk : WriteCategory(r) \/ DropCategory(r)
  BY Zenon DEF CatalogueNext, catalogueVars, CreateProduct, CreateCategory,
     UpdateCategory, Product, RemoveCategory, HardDelete, OrderProduct,
     AssertValidParent, CountChildren, UpdateProduct, ArchiveProduct,
     DropProduct, WriteLine, Arrives, Steps
<1> QED BY <1>1, <1>2, <1>3, <1>4, NoThirdLevel

(* The tree of categories gets no third level, for any tree, any number of    *)
(* categories and of requests that overlap, except by a request whose look at *)
(* the tree was overtaken by another that wrote it: the two checks of         *)
(* products.service.ts are enough but for the gap before the write.           *)
THEOREM TreeFlat == CatalogueSpec => TwoLevels
<1> QED BY TreeStart, TreeKept, TreeStaysFlat, PTL
        DEF CatalogueSpec, TwoLevels

(* Every table and request of the catalogue keeps its type.                   *)
THEOREM CatalogueTyped == CatalogueSpec => []CatalogueTypeOK
<1> QED BY TreeStart, TreeKept, TreeTyped, PTL DEF CatalogueSpec

------------------------------------------------------------------------------
(* FlattenSeq: the elements of a flattened sequence of sequences come in the  *)
(* order of the sequences they are in.                                        *)
FlatStep(t, f, i) == IF i = 1 THEN t[i] ELSE f[i - 1] \o t[i]
FlatTable(f, t, n) == f = [i \in 1 .. n |-> FlatStep(t, f, i)]
At(t, k, e, i, x) == i \in 1 .. k /\ x \in 1 .. Len(t[i]) /\ e = t[i][x]
Spread(s, t, k) ==
  /\ \A a \in 1 .. Len(s) : \E i, x \in Nat : At(t, k, s[a], i, x)
  /\ \A a, b \in 1 .. Len(s) : a < b =>
       \E i, x, j, y \in Nat :
         /\ At(t, k, s[a], i, x) /\ At(t, k, s[b], j, y)
         /\ i < j \/ (i = j /\ x < y)

(* A set of naturals has a least element.                                     *)
LEMMA FirstOf ==
  ASSUME NEW T, T \subseteq Nat, T # {}
  PROVE  \E m \in T : \A k \in T : m <= k
<1>1. \E m \in T : \A k \in T : ~(<<k, m>> \in OpToRel(<, Nat))
  BY NatLessThanWellFounded, WFMin
<1>2. \A k, m \in T : ~(<<k, m>> \in OpToRel(<, Nat)) => m <= k
  BY DEF OpToRel
<1> QED BY <1>1, <1>2

LEMMA FlatExists ==
  ASSUME NEW t, NEW n \in Nat \ {0}
  PROVE  \E f : FlatTable(f, t, n)
<1> DEFINE Missing == {k \in Nat : k > 0 /\ ~ \E f : FlatTable(f, t, k)}
<1>1. SUFFICES ASSUME Missing # {} PROVE FALSE
  OBVIOUS
<1>2. PICK k \in Missing : \A m \in Nat : m < k => m \notin Missing
  <2>1. Missing \subseteq Nat
    OBVIOUS
  <2>2. PICK k \in Missing : \A m \in Missing : k <= m
    <3> HIDE DEF Missing
    <3> QED BY <1>1, <2>1, FirstOf
  <2>3. \A m \in Nat : m < k => m \notin Missing
    BY <2>1, <2>2
  <2> QED BY <2>2, <2>3
<1>3. k \in Nat /\ k > 0 /\ ~ \E f : FlatTable(f, t, k)
  OBVIOUS
<1>4. CASE k = 1
  <2>1. FlatTable([i \in 1 .. 1 |-> t[1]], t, 1)
    BY DEF FlatTable, FlatStep
  <2> QED BY <1>3, <1>4, <2>1
<1>5. CASE k > 1
  <2>1. PICK f : FlatTable(f, t, k - 1)
    BY <1>2, <1>3, <1>5
  <2>2. PICK g : g = [i \in 1 .. k |-> IF i = k THEN f[k - 1] \o t[k] ELSE f[i]]
    OBVIOUS
  <2>3. ASSUME NEW i \in 1 .. k PROVE g[i] = FlatStep(t, g, i)
    <3>1. CASE i = k
      <4>1. k - 1 \in 1 .. k /\ k - 1 # k /\ i # 1
        BY <1>3, <1>5, <3>1
      <4>2. g[k - 1] = f[k - 1]
        BY <2>2, <4>1
      <4>3. g[i] = f[k - 1] \o t[k]
        BY <2>2, <3>1, Zenon
      <4> QED BY <3>1, <4>1, <4>2, <4>3, Zenon DEF FlatStep
    <3>2. CASE i # k
      <4>1. i \in 1 .. (k - 1) /\ g[i] = f[i]
        BY <1>3, <2>2, <3>2
      <4>2. f[i] = FlatStep(t, f, i)
        BY <2>1, <4>1 DEF FlatTable
      <4>3. i # 1 => i - 1 \in 1 .. k /\ g[i - 1] = f[i - 1]
        BY <1>3, <2>2, <4>1
      <4> QED BY <4>1, <4>2, <4>3 DEF FlatStep
    <3> QED BY <3>1, <3>2
  <2>4. FlatTable(g, t, k)
    BY <2>2, <2>3, Zenon DEF FlatTable
  <2> QED BY <1>3, <2>4
<1> QED BY <1>3, <1>4, <1>5

LEMMA SpreadOne ==
  ASSUME NEW S, NEW t \in Seq(Seq(S)), Len(t) > 0
  PROVE  t[1] \in Seq(S) /\ Spread(t[1], t, 1)
<1>1. t[1] \in Seq(S) /\ Len(t[1]) \in Nat
  OBVIOUS
<1>2. \A a \in 1 .. Len(t[1]) : At(t, 1, t[1][a], 1, a)
  BY DEF At
<1> QED BY <1>1, <1>2 DEF Spread

LEMMA SpreadMore ==
  ASSUME NEW S, NEW t \in Seq(Seq(S)), NEW k \in Nat, k > 1, k <= Len(t),
         NEW s \in Seq(S), Spread(s, t, k - 1)
  PROVE  s \o t[k] \in Seq(S) /\ Spread(s \o t[k], t, k)
<1>1. PICK u : u = t[k]
  OBVIOUS
<1>2. u \in Seq(S)
  BY <1>1
<1>3. PICK w, m, l : w = s \o u /\ m = Len(s) /\ l = Len(u)
  OBVIOUS
<1>4. /\ w \in Seq(S) /\ Len(w) = m + l /\ m \in Nat /\ l \in Nat
      /\ \A a \in 1 .. (m + l) : w[a] = IF a <= m THEN s[a] ELSE u[a - m]
  BY <1>2, <1>3
<1>5. \A e, i, x : At(t, k - 1, e, i, x) => At(t, k, e, i, x) /\ i < k
  BY DEF At
<1>6. ASSUME NEW a \in 1 .. (m + l), a > m
      PROVE  At(t, k, w[a], k, a - m)
  BY <1>1, <1>3, <1>4, <1>6 DEF At
<1>7. ASSUME NEW a \in 1 .. (m + l)
      PROVE  \E i, x \in Nat : At(t, k, w[a], i, x)
  <2>1. CASE a <= m
    <3>1. a \in 1 .. m /\ w[a] = s[a]
      BY <1>4, <2>1
    <3>2. PICK i, x \in Nat : At(t, k - 1, s[a], i, x)
      BY <1>3, <3>1 DEF Spread
    <3> QED BY <1>5, <3>1, <3>2
  <2>2. CASE a > m
    <3>1. a - m \in Nat
      BY <1>4, <2>2
    <3> QED BY <1>6, <2>2, <3>1
  <2>3. a <= m \/ a > m
    BY <1>4
  <2> QED BY <2>1, <2>2, <2>3
<1>8. ASSUME NEW a \in 1 .. (m + l), NEW b \in 1 .. (m + l), a < b
      PROVE  \E i, x, j, y \in Nat :
               /\ At(t, k, w[a], i, x) /\ At(t, k, w[b], j, y)
               /\ i < j \/ (i = j /\ x < y)
  <2>1. CASE b <= m
    <3>1. /\ a \in 1 .. m /\ w[a] = s[a]
          /\ b \in 1 .. m /\ w[b] = s[b]
      BY <1>4, <1>8, <2>1
    <3>2. PICK i, x, j, y \in Nat :
            /\ At(t, k - 1, s[a], i, x) /\ At(t, k - 1, s[b], j, y)
            /\ i < j \/ (i = j /\ x < y)
      BY <1>3, <1>8, <3>1 DEF Spread
    <3> QED BY <1>5, <3>1, <3>2
  <2>2. CASE a <= m /\ b > m
    <3>1. a \in 1 .. m /\ w[a] = s[a] /\ b - m \in Nat
      BY <1>4, <2>2
    <3>2. PICK i, x \in Nat : At(t, k - 1, s[a], i, x)
      BY <1>3, <3>1 DEF Spread
    <3>3. At(t, k, w[a], i, x) /\ i < k
      BY <1>5, <3>1, <3>2
    <3> QED BY <1>6, <2>2, <3>1, <3>3
  <2>3. CASE a > m
    <3>1. /\ a - m \in Nat /\ b - m \in Nat
          /\ a - m < b - m /\ b > m
      BY <1>4, <1>8, <2>3
    <3>2. At(t, k, w[a], k, a - m) /\ At(t, k, w[b], k, b - m)
      BY <1>6, <2>3, <3>1
    <3> QED BY <3>1, <3>2
  <2> QED BY <1>4, <2>1, <2>2, <2>3
<1>9. Spread(w, t, k)
  BY <1>4, <1>7, <1>8, Zenon DEF Spread
<1> QED BY <1>1, <1>3, <1>4, <1>9

LEMMA Flattened ==
  ASSUME NEW S, NEW t \in Seq(Seq(S))
  PROVE  FlattenSeq(t) \in Seq(S) /\ Spread(FlattenSeq(t), t, Len(t))
<1> DEFINE n == Len(t)
<1>1. CASE n = 0
  <2>1. t = <<>>
    BY <1>1
  <2>2. FlattenSeq(t) = <<>>
    BY <1>1, <2>1, Zenon DEF FlattenSeq
  <2> QED BY <2>2 DEF Spread
<1>2. CASE n # 0
  <2>1. n \in Nat \ {0}
    BY <1>2
  <2>2. FlattenSeq(t) = (CHOOSE f : FlatTable(f, t, n))[n]
    BY <1>2, Zenon DEF FlattenSeq, FlatTable, FlatStep
  <2>3. PICK f : f = CHOOSE g : FlatTable(g, t, n)
    OBVIOUS
  <2>4. FlatTable(f, t, n)
    BY <2>1, <2>3, FlatExists, Zenon
  <2> DEFINE Wrong == {k \in 1 .. n : ~(f[k] \in Seq(S) /\ Spread(f[k], t, k))}
  <2>5. Wrong = {}
    <3>1. SUFFICES ASSUME Wrong # {} PROVE FALSE
      OBVIOUS
    <3>2. PICK k \in Wrong : \A m \in Nat : m < k => m \notin Wrong
      <4>1. Wrong \subseteq Nat
        OBVIOUS
      <4>2. PICK k \in Wrong : \A m \in Wrong : k <= m
        <5> HIDE DEF Wrong
        <5> QED BY <3>1, <4>1, FirstOf
      <4>3. \A m \in Nat : m < k => m \notin Wrong
        BY <4>1, <4>2
      <4> QED BY <4>2, <4>3
    <3>3. /\ k \in 1 .. n /\ ~(f[k] \in Seq(S) /\ Spread(f[k], t, k))
          /\ f[k] = FlatStep(t, f, k)
      BY <2>4 DEF FlatTable
    <3>4. CASE k = 1
      BY <2>1, <3>3, <3>4, SpreadOne DEF FlatStep
    <3>5. CASE k > 1
      <4>1. k - 1 \in 1 .. n /\ k - 1 < k /\ k - 1 \in Nat
        BY <2>1, <3>3, <3>5
      <4>2. f[k - 1] \in Seq(S) /\ Spread(f[k - 1], t, k - 1)
        BY <3>2, <4>1
      <4>3. k \in Nat /\ k <= Len(t)
        BY <2>1, <3>3
      <4>4. f[k] = f[k - 1] \o t[k]
        <5>1. k # 1
          BY <3>5
        <5> QED BY <3>3, <5>1, Zenon DEF FlatStep
      <4>5. f[k - 1] \o t[k] \in Seq(S) /\ Spread(f[k - 1] \o t[k], t, k)
        BY <3>5, <4>2, <4>3, SpreadMore
      <4> QED BY <3>3, <4>4, <4>5
    <3> QED BY <2>1, <3>3, <3>4, <3>5
  <2>6. n \in 1 .. n
    BY <2>1
  <2> QED BY <2>2, <2>3, <2>5, <2>6
<1> QED BY <1>1, <1>2

(* What comes after what in a sequence of rows.                               *)
Has(w, x) == \E a \in 1 .. Len(w) : w[a] = x
Follows(w, x, y) ==
  \E a, b \in 1 .. Len(w) : a < b /\ w[a] = x /\ w[b] = y

LEMMA JoinFollows ==
  ASSUME NEW S, NEW u \in Seq(S), NEW v \in Seq(S), NEW x, NEW y
  PROVE  /\ Has(u \o v, x) => Has(u, x) \/ Has(v, x)
         /\ Follows(u \o v, x, y) =>
              \/ Follows(u, x, y) \/ Follows(v, x, y)
              \/ Has(u, x) /\ Has(v, y)
<1>1. PICK w, m, l : w = u \o v /\ m = Len(u) /\ l = Len(v)
  OBVIOUS
<1>2. /\ Len(w) = m + l /\ m \in Nat /\ l \in Nat
      /\ \A a \in 1 .. (m + l) : w[a] = IF a <= m THEN u[a] ELSE v[a - m]
  BY <1>1
<1>3. \A a \in 1 .. (m + l) :
        \/ a \in 1 .. m /\ w[a] = u[a]
        \/ a - m \in 1 .. l /\ a > m /\ w[a] = v[a - m]
  BY <1>2
<1>4. Has(w, x) => Has(u, x) \/ Has(v, x)
  BY <1>1, <1>2, <1>3 DEF Has
<1>5. ASSUME NEW a \in 1 .. (m + l), NEW b \in 1 .. (m + l),
             a < b, w[a] = x, w[b] = y
      PROVE  \/ Follows(u, x, y) \/ Follows(v, x, y)
             \/ Has(u, x) /\ Has(v, y)
  <2>1. CASE b <= m
    <3>1. a \in 1 .. m /\ b \in 1 .. m /\ u[a] = x /\ u[b] = y
      BY <1>2, <1>5, <2>1
    <3> QED BY <1>1, <1>5, <3>1 DEF Follows
  <2>2. CASE a <= m /\ b > m
    <3>1. a \in 1 .. m /\ b - m \in 1 .. l /\ u[a] = x /\ v[b - m] = y
      BY <1>2, <1>5, <2>2
    <3> QED BY <1>1, <3>1 DEF Has
  <2>3. CASE a > m
    <3>1. /\ a - m \in 1 .. l /\ b - m \in 1 .. l /\ a - m < b - m
          /\ v[a - m] = x /\ v[b - m] = y
      BY <1>2, <1>5, <2>3
    <3> QED BY <1>1, <3>1 DEF Follows
  <2>4. b <= m \/ (a <= m /\ b > m) \/ a > m
    BY <1>2
  <2> QED BY <2>1, <2>2, <2>3, <2>4
<1>6. Follows(w, x, y) =>
        \/ Follows(u, x, y) \/ Follows(v, x, y)
        \/ Has(u, x) /\ Has(v, y)
  BY <1>2, <1>5 DEF Follows
<1> QED BY <1>1, <1>4, <1>6

LEMMA FlatFollows ==
  ASSUME NEW S, NEW t \in Seq(Seq(S)), NEW x, NEW y
  PROVE  /\ FlattenSeq(t) \in Seq(S)
         /\ Has(FlattenSeq(t), x) => \E i \in 1 .. Len(t) : Has(t[i], x)
         /\ Follows(FlattenSeq(t), x, y) =>
              \E i, j \in 1 .. Len(t) :
                \/ i < j /\ Has(t[i], x) /\ Has(t[j], y)
                \/ i = j /\ Follows(t[i], x, y)
<1>1. PICK w : w = FlattenSeq(t)
  OBVIOUS
<1>2. w \in Seq(S) /\ Spread(w, t, Len(t))
  BY <1>1, Flattened
<1>3. ASSUME Has(w, x) PROVE \E i \in 1 .. Len(t) : Has(t[i], x)
  <2>1. PICK a \in 1 .. Len(w) : w[a] = x
    BY <1>3 DEF Has
  <2>2. PICK i, c \in Nat : At(t, Len(t), x, i, c)
    BY <1>2, <2>1 DEF Spread
  <2> QED BY <2>2 DEF At, Has
<1>4. ASSUME Follows(w, x, y)
      PROVE  \E i, j \in 1 .. Len(t) :
               \/ i < j /\ Has(t[i], x) /\ Has(t[j], y)
               \/ i = j /\ Follows(t[i], x, y)
  <2>1. PICK a, b \in 1 .. Len(w) : a < b /\ w[a] = x /\ w[b] = y
    BY <1>4 DEF Follows
  <2>2. PICK i, c, j, d \in Nat :
          /\ At(t, Len(t), x, i, c) /\ At(t, Len(t), y, j, d)
          /\ i < j \/ (i = j /\ c < d)
    BY <1>2, <2>1 DEF Spread
  <2>3. i \in 1 .. Len(t) /\ j \in 1 .. Len(t) /\ Has(t[i], x) /\ Has(t[j], y)
    BY <2>2 DEF At, Has
  <2>4. i = j /\ c < d => Follows(t[i], x, y)
    BY <2>2 DEF At, Follows
  <2> QED BY <2>2, <2>3, <2>4
<1> QED BY <1>1, <1>2, <1>3, <1>4

LEMMA FewFollow ==
  ASSUME NEW x, NEW y, NEW a, NEW b, NEW c
  PROVE  /\ ~Has(<<>>, x) /\ ~Follows(<<>>, x, y)
         /\ Has(<<a>>, x) => x = a
         /\ ~Follows(<<a>>, x, y)
         /\ Has(<<a, b>>, x) => x \in {a, b}
         /\ Follows(<<a, b>>, x, y) => x = a /\ y = b
         /\ Has(<<a, b, c>>, x) => x \in {a, b, c}
         /\ Follows(<<a, b, c>>, x, y) =>
              \/ x = a /\ y \in {b, c}
              \/ x = b /\ y = c
<1>1. ~Has(<<>>, x) /\ ~Follows(<<>>, x, y)
  BY DEF Has, Follows
<1>2. /\ Has(<<a>>, x) => x = a
      /\ ~Follows(<<a>>, x, y)
  BY DEF Has, Follows
<1>3. /\ Has(<<a, b>>, x) => x \in {a, b}
      /\ Follows(<<a, b>>, x, y) => x = a /\ y = b
  BY DEF Has, Follows
<1>4. /\ Has(<<a, b, c>>, x) => x \in {a, b, c}
      /\ Follows(<<a, b, c>>, x, y) => \/ x = a /\ y \in {b, c}
                                       \/ x = b /\ y = c
  <2>1. Len(<<a, b, c>>) = 3
    OBVIOUS
  <2>2. 1 .. 3 = {1, 2, 3}
    OBVIOUS
  <2> QED BY <2>1, <2>2 DEF Has, Follows
<1> QED BY <1>1, <1>2, <1>3, <1>4

(* One lock is taken: the rest follow it.                                     *)
LEMMA TailFollows ==
  ASSUME NEW S, NEW w \in Seq(S), w # <<>>, NEW x, NEW y
  PROVE  /\ Head(w) \in S /\ Tail(w) \in Seq(S) /\ Has(w, Head(w))
         /\ Has(Tail(w), x) => Has(w, x) /\ Follows(w, Head(w), x)
         /\ Follows(Tail(w), x, y) => Follows(w, x, y)
         /\ Follows(w, x, y) =>
              (x = Head(w) /\ Has(Tail(w), y)) \/ Follows(Tail(w), x, y)
<1>1. PICK r, n : r = Tail(w) /\ n = Len(w)
  OBVIOUS
<1>2. /\ n \in Nat /\ n > 0 /\ Len(r) = n - 1 /\ r \in Seq(S)
      /\ Head(w) = w[1] /\ w[1] \in S
      /\ \A a \in 1 .. (n - 1) : r[a] = w[a + 1]
  BY <1>1
<1>3. Has(w, Head(w))
  BY <1>1, <1>2 DEF Has
<1>4. ASSUME NEW a \in 1 .. (n - 1)
      PROVE  a + 1 \in 1 .. n /\ 1 \in 1 .. n /\ 1 < a + 1 /\ r[a] = w[a + 1]
  BY <1>2
<1>5. Has(r, x) => Has(w, x) /\ Follows(w, Head(w), x)
  BY <1>1, <1>2, <1>4 DEF Has, Follows
<1>6. Follows(r, x, y) => Follows(w, x, y)
  <2>1. \A a, b \in 1 .. (n - 1) : a < b => a + 1 < b + 1
    BY <1>2
  <2> QED BY <1>1, <1>2, <1>4, <2>1 DEF Follows
<1>7. ASSUME NEW a \in 1 .. n, NEW b \in 1 .. n, a < b, w[a] = x, w[b] = y
      PROVE  (x = Head(w) /\ Has(r, y)) \/ Follows(r, x, y)
  <2>1. b - 1 \in 1 .. (n - 1) /\ r[b - 1] = y
    BY <1>2, <1>7
  <2>2. CASE a = 1
    BY <1>2, <1>7, <2>1, <2>2 DEF Has
  <2>3. CASE a > 1
    <3>1. a - 1 \in 1 .. (n - 1) /\ r[a - 1] = x /\ a - 1 < b - 1
      BY <1>2, <1>7, <2>3
    <3> QED BY <1>2, <2>1, <3>1 DEF Follows
  <2> QED BY <1>2, <2>2, <2>3
<1>8. Follows(w, x, y) => (x = Head(w) /\ Has(r, y)) \/ Follows(r, x, y)
  BY <1>1, <1>7 DEF Follows
<1> QED BY <1>1, <1>2, <1>3, <1>5, <1>6, <1>8

------------------------------------------------------------------------------
(* The order in which each transaction takes its rows: what may be said of    *)
(* two locks of which it takes x before y.                                    *)
Table == {"inventory", "products", "orders", "installments", "payments",
          "production_tasks"}
LockMode == {"refer", "update", "exclusive"}
Lock == [table : Table, key : OrderId \cup Stocked, mode : LockMode]
LinesOf(o) == ToSet(Lines[o])

StockLock(o, x) ==
  x.table \in {"inventory", "products"} /\ x.key \in LinesOf(o)
SideLock(o, x) ==
  x.table \in {"orders", "installments", "payments"} /\ x.key = o

CheckoutOrder(o, x, y) ==
  /\ o \in OrderId /\ StockLock(o, x) /\ StockLock(o, y)
  /\ y.mode # "exclusive"
  /\ SameRow(x, y) => x.mode = "refer"
  /\ x.table = "products" /\ y.table = "inventory" /\ x.key = y.key =>
       x.mode = "refer"
  /\ x.table = "inventory" => x.mode = "update"
  /\ x.table = "inventory" /\ y.table = "products" => y.mode = "update"
ConfirmOrdering(o, x, y) ==
  /\ o \in OrderId /\ y.table = "inventory" /\ y.key \in LinesOf(o)
  /\ \/ x.table = "orders" /\ x.key = o
     \/ x.table = "inventory" /\ x.key \in LinesOf(o) /\ x.key # y.key
CancelOrder(o, x, y) ==
  /\ o \in OrderId /\ x.mode # "exclusive" /\ y.mode # "exclusive"
  /\ StockLock(o, x) \/ SideLock(o, x)
  /\ StockLock(o, y) \/ SideLock(o, y)
  /\ StockLock(o, x) /\ StockLock(o, y) =>
       \/ x.key # y.key
       \/ x.table = "inventory" /\ y.table = "products"
  /\ SideLock(o, x) /\ StockLock(o, y) => x.mode = "refer"
  /\ SideLock(o, x) /\ SideLock(o, y) =>
       \/ x.table = "orders" /\ (y.table = "orders" => x.mode = "refer")
       \/ x.table = "installments" /\ y.table = "payments"
PlanOrder(o, x, y) ==
  /\ o \in OrderId /\ x.key = o /\ y.key = o
  /\ \/ x.table = "payments" /\ y.table \in {"orders", "installments"}
     \/ x.table = "orders" /\ y.table = "installments"
ActOrder(x, y) == x.table = "production_tasks" /\ y.table = "orders"
AdjustOrder(p, x, y) ==
  x = InventoryOf(p, "exclusive") /\ y = ProductOf(p, "update")
EditOrder(p, x, y) ==
  /\ x = ProductOf(p, "update") \/ x = ProductOf(p, "exclusive")
  /\ y = InventoryOf(p, "update")
DeleteOrder(p, x, y) ==
  x = ProductOf(p, "exclusive") /\ y = InventoryOf(p, "exclusive")

InTurn(op, key, x, y) ==
  \/ op = "checkout" /\ CheckoutOrder(key, x, y)
  \/ op = "confirm" /\ ConfirmOrdering(key, x, y)
  \/ op = "cancel" /\ CancelOrder(key, x, y)
  \/ op = "plan" /\ PlanOrder(key, x, y)
  \/ op = "act" /\ ActOrder(x, y)
  \/ op = "adjust" /\ AdjustOrder(key, x, y)
  \/ op = "edit" /\ EditOrder(key, x, y)
  \/ op = "hardDelete" /\ DeleteOrder(key, x, y)

Planned(op, key, w) ==
  /\ w \in Seq(Lock)
  /\ \A x, y : Follows(w, x, y) => InTurn(op, key, x, y)

LEMMA LinesAreStock ==
  ASSUME NEW o \in OrderId, NEW lines \in AnyOrder(o) \cup {Lines[o]}
  PROVE  /\ lines \in Seq(LinesOf(o))
         /\ \A i \in 1 .. Len(lines) : lines[i] \in LinesOf(o) \cap Stocked
         /\ \A i, j \in 1 .. Len(lines) : i # j => lines[i] # lines[j]
         /\ DOMAIN lines = 1 .. Len(lines)
<1>1. Lines[o] \in Seq(Stocked) /\ IsInjective(Lines[o])
  BY LockAssumption
<1>2. LinesOf(o) \subseteq Stocked
  BY DEF LinesOf, Stocked
<1>3. CASE lines = Lines[o]
  <2>1. DOMAIN lines = 1 .. Len(lines)
    BY <1>1, <1>3
  <2>2. \A i \in 1 .. Len(lines) : lines[i] \in LinesOf(o)
    BY <1>3, <2>1 DEF LinesOf, ToSet
  <2>3. lines \in Seq(LinesOf(o))
    BY <1>1, <1>3, <2>1, <2>2
  <2>4. \A i, j \in 1 .. Len(lines) : i # j => lines[i] # lines[j]
    BY <1>1, <1>3, <2>1 DEF IsInjective
  <2> QED BY <1>2, <2>1, <2>2, <2>3, <2>4
<1>4. CASE lines \in AnyOrder(o)
  <2>1. PICK n : n = Cardinality(LinesOf(o))
    OBVIOUS
  <2>2. n \in Nat
    <3>1. DOMAIN Lines[o] = 1 .. Len(Lines[o]) /\ Len(Lines[o]) \in Nat
      BY <1>1
    <3>2. IsFiniteSet(1 .. Len(Lines[o]))
      BY <3>1, FS_Interval
    <3>3. LinesOf(o) = {Lines[o][i] : i \in 1 .. Len(Lines[o])}
      BY <3>1 DEF LinesOf, ToSet
    <3>4. Lines[o] \in Surjection(1 .. Len(Lines[o]), LinesOf(o))
      BY <1>1, <3>1, <3>3 DEF Surjection
    <3> QED BY <2>1, <3>2, <3>4, FS_Surjection, FS_CardinalityType
  <2>3. /\ lines \in [1 .. n -> LinesOf(o)]
        /\ \A i, j \in 1 .. n : i # j => lines[i] # lines[j]
    BY <1>4, <2>1 DEF AnyOrder, SetToSeqs, LinesOf
  <2>4. lines \in Seq(LinesOf(o)) /\ Len(lines) = n
    BY <2>2, <2>3
  <2> QED BY <1>2, <2>3, <2>4
<1> QED BY <1>3, <1>4

LEMMA HasThenHas ==
  ASSUME NEW S, NEW u \in Seq(S), NEW v \in Seq(S), NEW x, NEW y,
         Has(u, x), Has(v, y)
  PROVE  Follows(u \o v, x, y)
<1>1. PICK w, m, l : w = u \o v /\ m = Len(u) /\ l = Len(v)
  OBVIOUS
<1>2. /\ Len(w) = m + l /\ m \in Nat /\ l \in Nat
      /\ \A a \in 1 .. (m + l) : w[a] = IF a <= m THEN u[a] ELSE v[a - m]
  BY <1>1
<1>3. PICK a \in 1 .. m, b \in 1 .. l : u[a] = x /\ v[b] = y
  BY <1>1 DEF Has
<1>4. /\ a \in 1 .. (m + l) /\ b + m \in 1 .. (m + l) /\ a < b + m
      /\ a <= m /\ ~(b + m <= m) /\ (b + m) - m = b
  BY <1>2, <1>3
<1>5. w[a] = x /\ w[b + m] = y
  BY <1>2, <1>3, <1>4
<1> QED BY <1>1, <1>2, <1>4, <1>5 DEF Follows

(* Each transaction takes its rows in its order.  The locks of the products   *)
(* of a cart, one for each line:                                              *)
LEMMA EachLine ==
  ASSUME NEW o \in OrderId, NEW lines \in AnyOrder(o) \cup {Lines[o]},
         NEW w \in [DOMAIN lines -> Lock], NEW x, NEW y
  PROVE  /\ w \in Seq(Lock)
         /\ Has(w, x) => \E i \in 1 .. Len(lines) : x = w[i]
         /\ Follows(w, x, y) =>
              \E i, j \in 1 .. Len(lines) : i < j /\ x = w[i] /\ y = w[j]
<1>1. DOMAIN lines = 1 .. Len(lines) /\ Len(lines) \in Nat
  BY LinesAreStock
<1>2. PICK n \in Nat : n = Len(lines)
  BY <1>1
<1>3. w \in [1 .. n -> Lock]
  BY <1>1, <1>2
<1>4. w \in Seq(Lock) /\ Len(w) = n
  BY <1>2, <1>3
<1> QED BY <1>2, <1>3, <1>4 DEF Has, Follows

(* ... and the locks of each line together.                                   *)
LEMMA AllLines ==
  ASSUME NEW o \in OrderId, NEW lines \in AnyOrder(o) \cup {Lines[o]},
         NEW e, \A i \in 1 .. Len(lines) : e[i] \in Seq(Lock), NEW t,
         t = [i \in DOMAIN lines |-> e[i]], NEW x, NEW y
  PROVE  /\ FlattenSeq(t) \in Seq(Lock)
         /\ Has(FlattenSeq(t), x) => \E i \in 1 .. Len(lines) : Has(e[i], x)
         /\ Follows(FlattenSeq(t), x, y) =>
              \E i, j \in 1 .. Len(lines) :
                \/ i < j /\ Has(e[i], x) /\ Has(e[j], y)
                \/ i = j /\ Follows(e[i], x, y)
<1>1. DOMAIN lines = 1 .. Len(lines) /\ Len(lines) \in Nat
  BY LinesAreStock
<1>2. PICK n \in Nat : n = Len(lines)
  BY <1>1
<1>3. t = [i \in 1 .. n |-> e[i]]
  BY <1>1, <1>2
<1>4. t \in Seq(Seq(Lock)) /\ Len(t) = n /\ \A i \in 1 .. n : t[i] = e[i]
  BY <1>2, <1>3
<1>5. /\ FlattenSeq(t) \in Seq(Lock)
      /\ Has(FlattenSeq(t), x) => \E i \in 1 .. Len(t) : Has(t[i], x)
      /\ Follows(FlattenSeq(t), x, y) =>
           \E i, j \in 1 .. Len(t) :
             \/ i < j /\ Has(t[i], x) /\ Has(t[j], y)
             \/ i = j /\ Follows(t[i], x, y)
  BY <1>4, FlatFollows
<1> QED BY <1>2, <1>4, <1>5

LEMMA RowFacts ==
  ASSUME NEW p, NEW mode
  PROVE  /\ InventoryOf(p, mode).table = "inventory"
         /\ InventoryOf(p, mode).key = p /\ InventoryOf(p, mode).mode = mode
         /\ ProductOf(p, mode).table = "products"
         /\ ProductOf(p, mode).key = p /\ ProductOf(p, mode).mode = mode
         /\ OrderOf(p, mode).table = "orders"
         /\ OrderOf(p, mode).key = p /\ OrderOf(p, mode).mode = mode
         /\ \A table : /\ Want(table, p, mode).table = table
                       /\ Want(table, p, mode).key = p
                       /\ Want(table, p, mode).mode = mode
         /\ mode \in LockMode /\ p \in Stocked =>
              InventoryOf(p, mode) \in Lock /\ ProductOf(p, mode) \in Lock
         /\ mode \in LockMode /\ p \in OrderId =>
              /\ OrderOf(p, mode) \in Lock
              /\ \A table \in Table : Want(table, p, mode) \in Lock
BY DEF InventoryOf, ProductOf, OrderOf, Want, Lock, Table

LEMMA CheckoutPlanned ==
  ASSUME NEW o \in OrderId
  PROVE  /\ Planned("checkout", o, CheckoutRows(Lines[o]))
         /\ \A p : Has(CheckoutRows(Lines[o]), InventoryOf(p, "update")) =>
              Follows(CheckoutRows(Lines[o]), ProductOf(p, "refer"),
                      InventoryOf(p, "update"))
<1>1. PICK lines, n : lines = Lines[o] /\ n = Len(lines)
  OBVIOUS
<1>2. /\ DOMAIN lines = 1 .. n /\ n \in Nat
      /\ \A i \in 1 .. n : lines[i] \in LinesOf(o) \cap Stocked
      /\ \A i, j \in 1 .. n : i # j => lines[i] # lines[j]
  BY <1>1, LinesAreStock
<1>3. PICK refer, pair :
        /\ refer = [i \in DOMAIN lines |-> ProductOf(lines[i], "refer")]
        /\ pair = [i \in DOMAIN lines |-> <<InventoryOf(lines[i], "update"),
                                            ProductOf(lines[i], "update")>>]
  OBVIOUS
<1>4. PICK w : w = FlattenSeq(pair)
  OBVIOUS
<1>5. CheckoutRows(Lines[o]) = refer \o w
  BY <1>1, <1>3, <1>4, Zenon DEF CheckoutRows
<1>6. /\ \A i \in 1 .. n : refer[i] = ProductOf(lines[i], "refer")
      /\ \A i \in 1 .. n : refer[i] \in Lock
  BY <1>2, <1>3, RowFacts DEF LockMode
<1>7. /\ \A i \in 1 .. n : pair[i] = <<InventoryOf(lines[i], "update"),
                                       ProductOf(lines[i], "update")>>
      /\ \A i \in 1 .. n : pair[i] \in Seq(Lock)
  BY <1>2, <1>3, RowFacts DEF LockMode
<1>8. /\ refer = [i \in DOMAIN lines |-> refer[i]]
      /\ pair = [i \in DOMAIN lines |-> pair[i]]
  BY <1>3
<1>9. /\ refer \in Seq(Lock)
      /\ \A x : Has(refer, x) =>
           \E i \in 1 .. n : x = ProductOf(lines[i], "refer")
      /\ \A x, y : Follows(refer, x, y) =>
           \E i, j \in 1 .. n :
             i < j /\ x = ProductOf(lines[i], "refer")
                   /\ y = ProductOf(lines[j], "refer")
  <2>1. ASSUME NEW x, NEW y
        PROVE  /\ refer \in Seq(Lock)
               /\ Has(refer, x) => \E i \in 1 .. n : x = refer[i]
               /\ Follows(refer, x, y) =>
                    \E i, j \in 1 .. n : i < j /\ x = refer[i] /\ y = refer[j]
    <3>1. lines \in AnyOrder(o) \cup {Lines[o]}
      BY <1>1
    <3>2. refer \in [DOMAIN lines -> Lock]
      BY <1>2, <1>3, <1>6
    <3>3. /\ refer \in Seq(Lock)
          /\ Has(refer, x) => \E i \in 1 .. Len(lines) : x = refer[i]
          /\ Follows(refer, x, y) =>
               \E i, j \in 1 .. Len(lines) :
                 i < j /\ x = refer[i] /\ y = refer[j]
      BY <3>1, <3>2, EachLine
    <3> QED BY <1>1, <3>3
  <2> QED BY <1>6, <2>1
<1>10. /\ w \in Seq(Lock)
       /\ \A x : Has(w, x) => \E i \in 1 .. n : Has(pair[i], x)
       /\ \A x, y : Follows(w, x, y) =>
            \E i, j \in 1 .. n :
              \/ i < j /\ Has(pair[i], x) /\ Has(pair[j], y)
              \/ i = j /\ Follows(pair[i], x, y)
  BY <1>1, <1>4, <1>7, <1>8, AllLines
<1>11. ASSUME NEW i \in 1 .. n, NEW x, NEW y
       PROVE  /\ Has(pair[i], x) => x \in {InventoryOf(lines[i], "update"),
                                           ProductOf(lines[i], "update")}
              /\ Follows(pair[i], x, y) =>
                   /\ x = InventoryOf(lines[i], "update")
                   /\ y = ProductOf(lines[i], "update")
  <2>1. PICK a, b : /\ a = InventoryOf(lines[i], "update")
                    /\ b = ProductOf(lines[i], "update")
    OBVIOUS
  <2>2. pair[i] = <<a, b>>
    BY <1>7, <2>1
  <2>3. /\ Has(<<a, b>>, x) => x \in {a, b}
        /\ Follows(<<a, b>>, x, y) => x = a /\ y = b
    BY FewFollow
  <2> QED BY <2>1, <2>2, <2>3
<1>12. ASSUME NEW x, NEW y, Follows(refer \o w, x, y)
       PROVE  CheckoutOrder(o, x, y)
  <2>1. CASE Follows(refer, x, y)
    BY <1>2, <1>9, <2>1, RowFacts DEF CheckoutOrder, StockLock, SameRow
  <2>2. CASE Has(refer, x) /\ Has(w, y)
    <3>1. PICK i, j \in 1 .. n : /\ x = ProductOf(lines[i], "refer")
                                 /\ Has(pair[j], y)
      BY <1>9, <1>10, <2>2
    <3>2. y \in {InventoryOf(lines[j], "update"), ProductOf(lines[j], "update")}
      BY <1>11, <3>1
    <3> QED BY <1>2, <3>1, <3>2, RowFacts DEF CheckoutOrder, StockLock, SameRow
  <2>3. CASE Follows(w, x, y)
    <3>1. PICK i, j \in 1 .. n :
            \/ i < j /\ Has(pair[i], x) /\ Has(pair[j], y)
            \/ i = j /\ Follows(pair[i], x, y)
      BY <1>10, <2>3
    <3>2. CASE i < j /\ Has(pair[i], x) /\ Has(pair[j], y)
      <4>1. /\ x \in {InventoryOf(lines[i], "update"),
                      ProductOf(lines[i], "update")}
            /\ y \in {InventoryOf(lines[j], "update"),
                      ProductOf(lines[j], "update")}
        BY <1>11, <3>2
      <4>2. i # j
        BY <1>2, <3>2
      <4>3. lines[i] # lines[j]
        BY <1>2, <4>2
      <4> QED BY <1>2, <4>1, <4>3, RowFacts
              DEF CheckoutOrder, StockLock, SameRow
    <3>3. CASE Follows(pair[i], x, y)
      <4>1. /\ x = InventoryOf(lines[i], "update")
            /\ y = ProductOf(lines[i], "update")
        BY <1>11, <3>3
      <4> QED BY <1>2, <4>1, RowFacts DEF CheckoutOrder, StockLock, SameRow
    <3> QED BY <3>1, <3>2, <3>3
  <2> QED BY <1>9, <1>10, <1>12, <2>1, <2>2, <2>3, JoinFollows
<1>13. ASSUME NEW p, Has(refer \o w, InventoryOf(p, "update"))
       PROVE  Follows(refer \o w, ProductOf(p, "refer"),
                      InventoryOf(p, "update"))
  <2>1. PICK x : x = InventoryOf(p, "update")
    OBVIOUS
  <2>2. x.table = "inventory" /\ x.key = p
    BY <2>1, RowFacts
  <2>3. ~Has(refer, x)
    BY <1>9, <2>2, RowFacts
  <2>4. Has(w, x)
    BY <1>9, <1>10, <1>13, <2>1, <2>3, JoinFollows
  <2>5. PICK i \in 1 .. n : Has(pair[i], x)
    BY <1>10, <2>4
  <2>6. p = lines[i]
    <3>1. x \in {InventoryOf(lines[i], "update"), ProductOf(lines[i], "update")}
      BY <1>11, <2>5
    <3> QED BY <2>2, <3>1, RowFacts
  <2>7. Has(refer, ProductOf(p, "refer"))
    <3>1. Len(refer) = n
      BY <1>2, <1>3
    <3> QED BY <1>6, <2>6, <3>1 DEF Has
  <2> QED BY <1>9, <1>10, <2>1, <2>4, <2>7, HasThenHas
<1> QED BY <1>5, <1>9, <1>10, <1>12, <1>13 DEF Planned, InTurn

LEMMA InventoryLines ==
  ASSUME NEW o \in OrderId, NEW lines \in AnyOrder(o) \cup {Lines[o]}, NEW w,
         w = [i \in DOMAIN lines |-> InventoryOf(lines[i], "update")]
  PROVE  /\ w \in Seq(Lock)
         /\ \A x : Has(w, x) => x.table = "inventory" /\ x.key \in LinesOf(o)
         /\ \A x, y : Follows(w, x, y) => x.key # y.key
<1>1. PICK n : n = Len(lines)
  OBVIOUS
<1>2. /\ DOMAIN lines = 1 .. n /\ n \in Nat
      /\ \A i \in 1 .. n : lines[i] \in LinesOf(o) \cap Stocked
      /\ \A i, j \in 1 .. n : i # j => lines[i] # lines[j]
  BY <1>1, LinesAreStock
<1>3. /\ \A i \in 1 .. n : w[i] = InventoryOf(lines[i], "update")
      /\ \A i \in 1 .. n : w[i] \in Lock
      /\ w \in [DOMAIN lines -> Lock]
  BY <1>2, RowFacts DEF LockMode
<1>4. ASSUME NEW x, NEW y
      PROVE  /\ w \in Seq(Lock)
             /\ Has(w, x) => \E i \in 1 .. n : x = w[i]
             /\ Follows(w, x, y) =>
                  \E i, j \in 1 .. n : i < j /\ x = w[i] /\ y = w[j]
  <2>1. /\ w \in Seq(Lock)
        /\ Has(w, x) => \E i \in 1 .. Len(lines) : x = w[i]
        /\ Follows(w, x, y) =>
             \E i, j \in 1 .. Len(lines) : i < j /\ x = w[i] /\ y = w[j]
    BY <1>3, EachLine
  <2> QED BY <1>1, <2>1
<1>5. ASSUME NEW x, NEW y, Follows(w, x, y) PROVE x.key # y.key
  <2>1. PICK i, j \in 1 .. n : i < j /\ x = w[i] /\ y = w[j]
    BY <1>4, <1>5
  <2>2. i # j
    BY <1>2, <2>1
  <2>3. lines[i] # lines[j]
    BY <1>2, <2>2
  <2> QED BY <1>3, <2>1, <2>3, RowFacts
<1>6. ASSUME NEW x, Has(w, x)
      PROVE  x.table = "inventory" /\ x.key \in LinesOf(o)
  <2>1. PICK i \in 1 .. n : x = w[i]
    BY <1>4, <1>6
  <2>2. lines[i] \in LinesOf(o) /\ x = InventoryOf(lines[i], "update")
    BY <1>2, <1>3, <2>1
  <2> QED BY <2>2, RowFacts
<1> QED BY <1>4, <1>5, <1>6

LEMMA ConfirmPlanned ==
  ASSUME NEW o \in OrderId, NEW lines \in AnyOrder(o)
  PROVE  Planned("confirm", o, ConfirmRows(o, lines))
<1>1. PICK w : w = [i \in DOMAIN lines |-> InventoryOf(lines[i], "update")]
  OBVIOUS
<1>2. PICK a : a = OrderOf(o, "exclusive")
  OBVIOUS
<1>3. ConfirmRows(o, lines) = <<a>> \o w
  BY <1>1, <1>2, Zenon DEF ConfirmRows
<1>4. /\ w \in Seq(Lock)
      /\ \A x : Has(w, x) => x.table = "inventory" /\ x.key \in LinesOf(o)
      /\ \A x, y : Follows(w, x, y) => x.key # y.key
  BY <1>1, InventoryLines
<1>5. a \in Lock /\ a.table = "orders" /\ a.key = o /\ <<a>> \in Seq(Lock)
  BY <1>2, RowFacts DEF LockMode
<1>6. \A x, y : Follows(w, x, y) => Has(w, x) /\ Has(w, y)
  BY DEF Follows, Has
<1>7. ASSUME NEW x, NEW y, Follows(<<a>> \o w, x, y)
      PROVE  ConfirmOrdering(o, x, y)
  <2>1. \/ Follows(<<a>>, x, y) \/ Follows(w, x, y)
        \/ Has(<<a>>, x) /\ Has(w, y)
    BY <1>4, <1>5, <1>7, JoinFollows
  <2>2. ~Follows(<<a>>, x, y) /\ (Has(<<a>>, x) => x = a)
    BY FewFollow
  <2> QED BY <1>4, <1>5, <1>6, <2>1, <2>2 DEF ConfirmOrdering
<1>8. <<a>> \o w \in Seq(Lock)
  BY <1>4, <1>5
<1> QED BY <1>3, <1>7, <1>8 DEF Planned, InTurn

LEMMA CancelPlanned ==
  ASSUME NEW o \in OrderId, NEW lines \in AnyOrder(o), NEW due \in BOOLEAN
  PROVE  Planned("cancel", o, CancelRows(o, lines, due))
<1>1. PICK n : n = Len(lines)
  OBVIOUS
<1>2. /\ DOMAIN lines = 1 .. n /\ n \in Nat
      /\ \A i \in 1 .. n : lines[i] \in LinesOf(o) \cap Stocked
      /\ \A i, j \in 1 .. n : i # j => lines[i] # lines[j]
  BY <1>1, LinesAreStock
<1>3. PICK triple :
        triple = [i \in DOMAIN lines |-> <<InventoryOf(lines[i], "update"),
                                           OrderOf(o, "refer"),
                                           ProductOf(lines[i], "update")>>]
  OBVIOUS
<1>4. PICK w, own, plan :
        /\ w = FlattenSeq(triple)
        /\ own = <<OrderOf(o, "update")>>
        /\ plan = IF o \in planned THEN <<Want("installments", o, "update"),
                                         Want("payments", o, "update")>>
                  ELSE IF due THEN <<Want("payments", o, "update")>> ELSE <<>>
  OBVIOUS
<1>5. CancelRows(o, lines, due) = (w \o own) \o plan
  BY <1>3, <1>4, Zenon DEF CancelRows
<1>6. /\ \A i \in 1 .. n : triple[i] = <<InventoryOf(lines[i], "update"),
                                         OrderOf(o, "refer"),
                                         ProductOf(lines[i], "update")>>
      /\ \A i \in 1 .. n : triple[i] \in Seq(Lock)
      /\ triple = [i \in DOMAIN lines |-> triple[i]]
  BY <1>2, <1>3, RowFacts DEF LockMode
<1>7. /\ w \in Seq(Lock)
      /\ \A x : Has(w, x) => \E i \in 1 .. n : Has(triple[i], x)
      /\ \A x, y : Follows(w, x, y) =>
           \E i, j \in 1 .. n :
             \/ i < j /\ Has(triple[i], x) /\ Has(triple[j], y)
             \/ i = j /\ Follows(triple[i], x, y)
  BY <1>1, <1>4, <1>6, AllLines
<1>8. ASSUME NEW i \in 1 .. n, NEW x, NEW y
      PROVE  /\ Has(triple[i], x) =>
                  \/ StockLock(o, x) /\ x.key = lines[i] /\ x.mode = "update"
                  \/ x.table = "orders" /\ x.key = o /\ x.mode = "refer"
             /\ Follows(triple[i], x, y) =>
                  /\ Has(triple[i], x) /\ Has(triple[i], y)
                  /\ \/ x.table = "inventory" /\ y.table = "orders"
                     \/ x.table = "inventory" /\ y.table = "products"
                     \/ x.table = "orders" /\ y.table = "products"
  <2>1. PICK a, b, c : /\ a = InventoryOf(lines[i], "update")
                       /\ b = OrderOf(o, "refer")
                       /\ c = ProductOf(lines[i], "update")
    OBVIOUS
  <2>2. triple[i] = <<a, b, c>>
    BY <1>6, <2>1
  <2>3. /\ Has(<<a, b, c>>, x) => x \in {a, b, c}
        /\ Follows(<<a, b, c>>, x, y) =>
             \/ x = a /\ y \in {b, c}
             \/ x = b /\ y = c
    BY FewFollow
  <2>4. Follows(<<a, b, c>>, x, y) => Has(<<a, b, c>>, x) /\ Has(<<a, b, c>>, y)
    BY DEF Follows, Has
  <2>5. /\ a.table = "inventory" /\ a.key = lines[i] /\ a.mode = "update"
        /\ b.table = "orders" /\ b.key = o /\ b.mode = "refer"
        /\ c.table = "products" /\ c.key = lines[i] /\ c.mode = "update"
    BY <2>1, RowFacts
  <2>6. lines[i] \in LinesOf(o)
    BY <1>2
  <2> QED BY <2>2, <2>3, <2>4, <2>5, <2>6 DEF StockLock
<1>9. ASSUME NEW x, NEW y, Follows(w, x, y) PROVE CancelOrder(o, x, y)
  <2>1. PICK i, j \in 1 .. n :
          \/ i < j /\ Has(triple[i], x) /\ Has(triple[j], y)
          \/ i = j /\ Follows(triple[i], x, y)
    BY <1>7, <1>9
  <2>2. i < j => lines[i] # lines[j]
    BY <1>2
  <2>3. CASE i < j /\ Has(triple[i], x) /\ Has(triple[j], y)
    BY <1>8, <2>2, <2>3 DEF CancelOrder, StockLock, SideLock
  <2>4. CASE i = j /\ Follows(triple[i], x, y)
    BY <1>8, <2>4 DEF CancelOrder, StockLock, SideLock
  <2> QED BY <2>1, <2>3, <2>4
<1>10. ASSUME NEW x
       PROVE  /\ Has(w, x) =>
                   \/ StockLock(o, x) /\ x.mode = "update"
                   \/ x.table = "orders" /\ x.key = o /\ x.mode = "refer"
              /\ Has(own, x) =>
                   x.table = "orders" /\ x.key = o /\ x.mode = "update"
  <2>1. Has(own, x) => x = OrderOf(o, "update")
    BY <1>4, FewFollow
  <2> QED BY <1>7, <1>8, <2>1, RowFacts
<1>11. own \in Seq(Lock) /\ plan \in Seq(Lock) /\ w \o own \in Seq(Lock)
  BY <1>4, <1>7, RowFacts DEF LockMode, Table
<1>12. /\ \A x, y : ~Follows(own, x, y)
       /\ \A x : Has(plan, x) => /\ x.table \in {"installments", "payments"}
                                 /\ x.key = o /\ x.mode = "update"
       /\ \A x, y : Follows(plan, x, y) =>
            /\ x.table = "installments" /\ y.table = "payments"
            /\ Has(plan, x) /\ Has(plan, y)
  <2>1. PICK a, b : /\ a = Want("installments", o, "update")
                    /\ b = Want("payments", o, "update")
    OBVIOUS
  <2>2. plan \in {<<>>, <<b>>, <<a, b>>}
    BY <1>4, <2>1
  <2>3. /\ a.table = "installments" /\ a.key = o /\ a.mode = "update"
        /\ b.table = "payments" /\ b.key = o /\ b.mode = "update"
    BY <2>1, RowFacts
  <2>4. \A x, y : ~Follows(own, x, y)
    BY <1>4, FewFollow
  <2>5. ASSUME NEW x PROVE Has(plan, x) => x \in {a, b}
    <3>1. ~Has(<<>>, x) /\ (Has(<<a, b>>, x) => x \in {a, b})
      BY FewFollow
    <3>2. Has(<<b>>, x) => x = b
      BY FewFollow
    <3> QED BY <2>2, <3>1, <3>2
  <2>6. ASSUME NEW x, NEW y PROVE Follows(plan, x, y) => x = a /\ y = b
    <3>1. /\ ~Follows(<<>>, x, y)
          /\ Follows(<<a, b>>, x, y) => x = a /\ y = b
      BY FewFollow
    <3>2. ~Follows(<<b>>, x, y)
      BY FewFollow
    <3> QED BY <2>2, <3>1, <3>2
  <2>7. \A x, y : Follows(plan, x, y) => Has(plan, x) /\ Has(plan, y)
    BY DEF Follows, Has
  <2> QED BY <2>3, <2>4, <2>5, <2>6, <2>7
<1>13. ASSUME NEW x, NEW y, Follows((w \o own) \o plan, x, y)
       PROVE  CancelOrder(o, x, y)
  <2>1. /\ \/ Follows(w \o own, x, y) \/ Follows(plan, x, y)
           \/ Has(w \o own, x) /\ Has(plan, y)
        /\ Has(w \o own, x) => Has(w, x) \/ Has(own, x)
        /\ Follows(w \o own, x, y) =>
             \/ Follows(w, x, y) \/ Follows(own, x, y)
             \/ Has(w, x) /\ Has(own, y)
    BY <1>7, <1>11, <1>13, JoinFollows
  <2>2. CASE Follows(plan, x, y)
    BY <1>12, <2>2 DEF CancelOrder, StockLock, SideLock
  <2>3. CASE Has(w \o own, x) /\ Has(plan, y)
    BY <1>10, <1>12, <2>1, <2>3 DEF CancelOrder, StockLock, SideLock
  <2>4. CASE Has(w, x) /\ Has(own, y)
    BY <1>10, <2>4 DEF CancelOrder, StockLock, SideLock
  <2> QED BY <1>9, <1>12, <2>1, <2>2, <2>3, <2>4
<1>14. (w \o own) \o plan \in Seq(Lock)
  BY <1>11
<1> QED BY <1>5, <1>13, <1>14 DEF Planned, InTurn

LEMMA PlanPlanned ==
  ASSUME NEW o \in OrderId
  PROVE  Planned("plan", o, PlanRows(o))
<1>1. PICK a, b, c : /\ a = Want("payments", o, "update")
                     /\ b = OrderOf(o, "refer")
                     /\ c = Want("installments", o, "update")
  OBVIOUS
<1>2. /\ a \in Lock /\ a.table = "payments" /\ a.key = o
      /\ b \in Lock /\ b.table = "orders" /\ b.key = o
      /\ c \in Lock /\ c.table = "installments" /\ c.key = o
  BY <1>1, RowFacts DEF LockMode, Table
<1>3. PICK mid : mid = IF o \in planned THEN <<>> ELSE <<b>>
  OBVIOUS
<1>4. PlanRows(o) = (<<a>> \o mid) \o <<c>>
  BY <1>1, <1>3, Zenon DEF PlanRows
<1>5. <<a>> \in Seq(Lock) /\ <<c>> \in Seq(Lock) /\ mid \in Seq(Lock)
  BY <1>2, <1>3
<1>6. <<a>> \o mid \in Seq(Lock) /\ (<<a>> \o mid) \o <<c>> \in Seq(Lock)
  BY <1>5
<1>7. ASSUME NEW x, NEW y
      PROVE  /\ Has(mid, x) => x = b
             /\ ~Follows(mid, x, y)
             /\ Has(<<a>>, x) => x = a
             /\ Has(<<c>>, x) => x = c
             /\ ~Follows(<<a>>, x, y) /\ ~Follows(<<c>>, x, y)
  <2>1. /\ ~Has(<<>>, x) /\ ~Follows(<<>>, x, y)
        /\ \A d : Has(<<d>>, x) => x = d
        /\ \A d : ~Follows(<<d>>, x, y)
    BY FewFollow
  <2> QED BY <1>3, <2>1
<1>8. ASSUME NEW x, NEW y, Follows((<<a>> \o mid) \o <<c>>, x, y)
      PROVE  PlanOrder(o, x, y)
  <2>1. \/ Follows(<<a>> \o mid, x, y) \/ Follows(<<c>>, x, y)
        \/ Has(<<a>> \o mid, x) /\ Has(<<c>>, y)
    BY <1>5, <1>6, <1>8, JoinFollows
  <2>2. /\ Has(<<a>> \o mid, x) => Has(<<a>>, x) \/ Has(mid, x)
        /\ Follows(<<a>> \o mid, x, y) =>
             \/ Follows(<<a>>, x, y) \/ Follows(mid, x, y)
             \/ Has(<<a>>, x) /\ Has(mid, y)
    BY <1>5, JoinFollows
  <2> QED BY <1>2, <1>7, <2>1, <2>2 DEF PlanOrder
<1> QED BY <1>4, <1>6, <1>8 DEF Planned, InTurn

LEMMA ActPlanned ==
  ASSUME NEW o \in OrderId
  PROVE  Planned("act", o, ActRows(o))
<1>1. PICK a, b : /\ a = Want("production_tasks", o, "update")
                  /\ b = OrderOf(o, "update")
  OBVIOUS
<1>2. /\ a \in Lock /\ a.table = "production_tasks"
      /\ b \in Lock /\ b.table = "orders"
  BY <1>1, RowFacts DEF LockMode, Table
<1>3. ActRows(o) = <<a, b>>
  BY <1>1 DEF ActRows
<1>4. ASSUME NEW x, NEW y, Follows(<<a, b>>, x, y) PROVE ActOrder(x, y)
  BY <1>2, <1>4, FewFollow DEF ActOrder
<1> QED BY <1>2, <1>3, <1>4 DEF Planned, InTurn

LEMMA AdjustPlanned ==
  ASSUME NEW p \in Stocked
  PROVE  Planned("adjust", p, AdjustRows(p))
<1>1. PICK a, b : a = InventoryOf(p, "exclusive") /\ b = ProductOf(p, "update")
  OBVIOUS
<1>2. a \in Lock /\ b \in Lock /\ AdjustRows(p) = <<a, b>>
  BY <1>1, RowFacts DEF LockMode, AdjustRows
<1>3. ASSUME NEW x, NEW y, Follows(<<a, b>>, x, y) PROVE AdjustOrder(p, x, y)
  BY <1>1, <1>3, FewFollow DEF AdjustOrder
<1> QED BY <1>2, <1>3 DEF Planned, InTurn

LEMMA EditPlanned ==
  ASSUME NEW p \in Stocked, NEW mode \in {"update", "exclusive"}
  PROVE  Planned("edit", p, EditRows(p, mode))
<1>1. PICK a, b : a = ProductOf(p, mode) /\ b = InventoryOf(p, "update")
  OBVIOUS
<1>2. a \in Lock /\ b \in Lock /\ EditRows(p, mode) = <<a, b>>
  BY <1>1, RowFacts DEF LockMode, EditRows
<1>3. ASSUME NEW x, NEW y, Follows(<<a, b>>, x, y) PROVE EditOrder(p, x, y)
  BY <1>1, <1>3, FewFollow DEF EditOrder
<1> QED BY <1>2, <1>3 DEF Planned, InTurn

LEMMA DeletePlanned ==
  ASSUME NEW p \in Stocked
  PROVE  Planned("hardDelete", p, DeleteRows(p))
<1>1. PICK a, b : a = ProductOf(p, "exclusive")
                  /\ b = InventoryOf(p, "exclusive")
  OBVIOUS
<1>2. a \in Lock /\ b \in Lock /\ DeleteRows(p) = <<a, b>>
  BY <1>1, RowFacts DEF LockMode, DeleteRows
<1>3. ASSUME NEW x, NEW y, Follows(<<a, b>>, x, y) PROVE DeleteOrder(p, x, y)
  BY <1>1, <1>3, FewFollow DEF DeleteOrder
<1> QED BY <1>2, <1>3 DEF Planned, InTurn

------------------------------------------------------------------------------
(* Two transactions that each take first what the other wants: where that may *)
(* happen.                                                                    *)
StockOf(op, key) ==
  IF op \in {"checkout", "cancel", "confirm"} THEN LinesOf(key)
  ELSE IF op \in {"adjust", "edit", "hardDelete"} THEN {key} ELSE {}
OneWay(op, key, other, key2) ==
  \/ op = "cancel" /\ other \in {"confirm", "plan"} /\ key = key2
  \/ /\ op = "edit" /\ other \in {"checkout", "cancel", "adjust"}
     /\ key \in StockOf(other, key2)
  \/ /\ op = "hardDelete" /\ other \in {"cancel", "adjust"}
     /\ key \in StockOf(other, key2)
Crossing(op, key, other, key2) ==
  \/ \E p, q \in StockOf(op, key) \cap StockOf(other, key2) : p # q
  \/ OneWay(op, key, other, key2) \/ OneWay(other, key2, op, key)
DeletesOrdered(op, key, other) == op = "hardDelete" /\ other = "checkout"

Inverted(op, key, x, y, other, key2, u, v) ==
  /\ InTurn(op, key, x, y) /\ InTurn(other, key2, u, v)
  /\ Clash(u, y) /\ Clash(x, v)

LEMMA InvertedFlips ==
  ASSUME NEW op, NEW key, NEW x, NEW y, NEW other, NEW key2, NEW u, NEW v,
         Inverted(op, key, x, y, other, key2, u, v)
  PROVE  Inverted(other, key2, u, v, op, key, x, y)
BY DEF Inverted, Clash, SameRow

LEMMA CheckoutCrosses ==
  ASSUME NEW op, NEW key, NEW x, NEW y, NEW other, NEW key2, NEW u, NEW v,
         Inverted(op, key, x, y, other, key2, u, v), op = "checkout"
  PROVE  \/ Crossing(op, key, other, key2)
         \/ other = "hardDelete"
<1> USE RowFacts DEF Inverted, Clash, SameRow, Crossing, OneWay, StockOf
<1>1. CheckoutOrder(key, x, y)
  BY DEF InTurn
<1>2. CASE other = "checkout"
  <2>1. CheckoutOrder(key2, u, v)
    BY <1>2 DEF InTurn
  <2> QED BY <1>1, <1>2, <2>1 DEF CheckoutOrder, StockLock
<1>3. CASE other = "confirm"
  <2>1. ConfirmOrdering(key2, u, v)
    BY <1>3 DEF InTurn
  <2> QED BY <1>1, <1>3, <2>1 DEF CheckoutOrder, ConfirmOrdering, StockLock
<1>4. CASE other = "cancel"
  <2>1. CancelOrder(key2, u, v)
    BY <1>4 DEF InTurn
  <2> QED BY <1>1, <1>4, <2>1
          DEF CheckoutOrder, CancelOrder, StockLock, SideLock
<1>5. CASE other = "plan"
  BY <1>1, <1>5 DEF InTurn, CheckoutOrder, PlanOrder, StockLock
<1>6. CASE other = "act"
  BY <1>1, <1>6 DEF InTurn, CheckoutOrder, ActOrder, StockLock
<1>7. CASE other = "adjust"
  BY <1>1, <1>7 DEF InTurn, CheckoutOrder, AdjustOrder, StockLock
<1>8. CASE other = "edit"
  BY <1>1, <1>8 DEF InTurn, CheckoutOrder, EditOrder, StockLock
<1> QED BY <1>2, <1>3, <1>4, <1>5, <1>6, <1>7, <1>8 DEF InTurn

LEMMA ConfirmCrosses ==
  ASSUME NEW op, NEW key, NEW x, NEW y, NEW other, NEW key2, NEW u, NEW v,
         Inverted(op, key, x, y, other, key2, u, v), op = "confirm",
         other # "checkout"
  PROVE  Crossing(op, key, other, key2)
<1> USE RowFacts DEF Inverted, Clash, SameRow, Crossing, OneWay, StockOf
<1>1. ConfirmOrdering(key, x, y)
  BY DEF InTurn
<1>2. CASE other = "confirm"
  <2>1. ConfirmOrdering(key2, u, v)
    BY <1>2 DEF InTurn
  <2> QED BY <1>1, <1>2, <2>1 DEF ConfirmOrdering
<1>3. CASE other = "cancel"
  <2>1. CancelOrder(key2, u, v)
    BY <1>3 DEF InTurn
  <2> QED BY <1>1, <1>3, <2>1 DEF ConfirmOrdering, CancelOrder, StockLock,
                                  SideLock
<1>4. CASE other = "plan"
  BY <1>1, <1>4 DEF InTurn, ConfirmOrdering, PlanOrder
<1>5. CASE other = "act"
  BY <1>1, <1>5 DEF InTurn, ConfirmOrdering, ActOrder
<1>6. CASE other \in {"adjust", "edit", "hardDelete"}
  BY <1>1, <1>6 DEF InTurn, ConfirmOrdering, AdjustOrder, EditOrder,
                    DeleteOrder
<1> QED BY <1>2, <1>3, <1>4, <1>5, <1>6 DEF InTurn

LEMMA CancelCrosses ==
  ASSUME NEW op, NEW key, NEW x, NEW y, NEW other, NEW key2, NEW u, NEW v,
         Inverted(op, key, x, y, other, key2, u, v), op = "cancel",
         other \notin {"checkout", "confirm"}
  PROVE  Crossing(op, key, other, key2)
<1> USE RowFacts DEF Inverted, Clash, SameRow, Crossing, OneWay, StockOf
<1>1. CancelOrder(key, x, y)
  BY DEF InTurn
<1>2. CASE other = "cancel"
  <2>1. CancelOrder(key2, u, v)
    BY <1>2 DEF InTurn
  <2> QED BY <1>1, <1>2, <2>1 DEF CancelOrder, StockLock, SideLock
<1>3. CASE other = "plan"
  BY <1>1, <1>3 DEF InTurn, CancelOrder, PlanOrder, StockLock, SideLock
<1>4. CASE other = "act"
  BY <1>1, <1>4 DEF InTurn, CancelOrder, ActOrder, StockLock, SideLock
<1>5. CASE other \in {"adjust", "edit", "hardDelete"}
  BY <1>1, <1>5 DEF InTurn, CancelOrder, AdjustOrder, EditOrder,
                    DeleteOrder, StockLock, SideLock
<1> QED BY <1>2, <1>3, <1>4, <1>5 DEF InTurn

LEMMA OthersCross ==
  ASSUME NEW op, NEW key, NEW x, NEW y, NEW other, NEW key2, NEW u, NEW v,
         Inverted(op, key, x, y, other, key2, u, v),
         op \in {"plan", "act", "adjust", "edit", "hardDelete"},
         other \in {"plan", "act", "adjust", "edit", "hardDelete"}
  PROVE  Crossing(op, key, other, key2)
<1> USE RowFacts DEF Inverted, Clash, SameRow, Crossing, OneWay, StockOf
<1>1. CASE op = "plan"
  BY <1>1 DEF InTurn, PlanOrder, ActOrder, AdjustOrder, EditOrder,
              DeleteOrder
<1>2. CASE op = "act"
  BY <1>2 DEF InTurn, PlanOrder, ActOrder, AdjustOrder, EditOrder,
              DeleteOrder
<1>3. CASE op = "adjust"
  BY <1>3 DEF InTurn, PlanOrder, ActOrder, AdjustOrder, EditOrder,
              DeleteOrder
<1>4. CASE op = "edit"
  BY <1>4 DEF InTurn, PlanOrder, ActOrder, AdjustOrder, EditOrder,
              DeleteOrder
<1>5. CASE op = "hardDelete"
  BY <1>5 DEF InTurn, PlanOrder, ActOrder, AdjustOrder, EditOrder,
              DeleteOrder
<1> QED BY <1>1, <1>2, <1>3, <1>4, <1>5

(* Two transactions take rows in opposite orders only where Cross says, or    *)
(* where one deletes a product that the other is ordering.                    *)
LEMMA InvertedCrosses ==
  ASSUME NEW op, NEW key, NEW x, NEW y, NEW other, NEW key2, NEW u, NEW v,
         Inverted(op, key, x, y, other, key2, u, v)
  PROVE  \/ Crossing(op, key, other, key2)
         \/ DeletesOrdered(op, key, other) \/ DeletesOrdered(other, key2, op)
<1>1. Crossing(other, key2, op, key) => Crossing(op, key, other, key2)
  BY DEF Crossing
<1>2. Inverted(other, key2, u, v, op, key, x, y)
  BY InvertedFlips
<1>3. CASE op = "checkout"
  BY <1>3, CheckoutCrosses DEF DeletesOrdered
<1>4. CASE other = "checkout"
  BY <1>1, <1>2, <1>4, CheckoutCrosses DEF DeletesOrdered
<1>5. CASE op # "checkout" /\ other # "checkout" /\ op = "confirm"
  BY <1>5, ConfirmCrosses
<1>6. CASE op # "checkout" /\ other # "checkout" /\ other = "confirm"
  BY <1>1, <1>2, <1>6, ConfirmCrosses
<1>7. CASE /\ op \notin {"checkout", "confirm"}
           /\ other \notin {"checkout", "confirm"} /\ op = "cancel"
  BY <1>7, CancelCrosses
<1>8. CASE /\ op \notin {"checkout", "confirm"}
           /\ other \notin {"checkout", "confirm"} /\ other = "cancel"
  BY <1>1, <1>2, <1>8, CancelCrosses
<1>9. CASE /\ op \notin {"checkout", "confirm", "cancel"}
           /\ other \notin {"checkout", "confirm", "cancel"}
  <2>1. /\ op \in {"plan", "act", "adjust", "edit", "hardDelete"}
        /\ other \in {"plan", "act", "adjust", "edit", "hardDelete"}
    BY <1>9, Zenon DEF Inverted, InTurn
  <2> QED BY <2>1, OthersCross
<1> QED BY <1>3, <1>4, <1>5, <1>6, <1>7, <1>8, <1>9

------------------------------------------------------------------------------
(* What holds of every transaction: it holds what its code takes first, and   *)
(* no two hold locks that clash.                                              *)
OpName == {"none", "over", "checkout", "confirm", "cancel", "plan", "act",
           "adjust", "edit", "hardDelete"}
TxRow == [op : OpName, key : OrderId \cup Stocked \cup {"none"},
          wants : Seq(Lock), held : SUBSET Lock]

Arranged(t) ==
  /\ \A x, y : Follows(t.wants, x, y) => InTurn(t.op, t.key, x, y)
  /\ \A x \in t.held :
       \A y : Has(t.wants, y) => InTurn(t.op, t.key, x, y)
ReferredFirst(t) ==
  t.op = "checkout" =>
    \A p : LET refer == ProductOf(p, "refer")
               moves == InventoryOf(p, "update") IN
           /\ moves \in t.held => refer \in t.held
           /\ Has(t.wants, moves) =>
                refer \in t.held \/ Follows(t.wants, refer, moves)
KnownOrder(t, status) ==
  /\ t.op \in {"checkout", "confirm", "cancel", "plan", "act"} =>
       t.key \in OrderId
  /\ t.op \in {"confirm", "cancel", "plan", "act"} => status[t.key] # "NONE"
Proper(t, status) ==
  t \in TxRow /\ Arranged(t) /\ ReferredFirst(t) /\ KnownOrder(t, status)

OrderState == {"NONE", "PENDING", "CONFIRMED", "CANCELLED"}
OrdersTyped ==
  /\ orderStatus \in [OrderId -> OrderState]
  /\ planned \subseteq {o \in OrderId : orderStatus[o] # "NONE"}
NoClash ==
  \A s, t \in Slot : s # t =>
    \A a \in tx[s].held, b \in tx[t].held : ~Clash(a, b)
LockInv ==
  /\ OrdersTyped /\ tx \in [Slot -> TxRow]
  /\ \A s \in Slot : Proper(tx[s], orderStatus)
  /\ NoClash

LEMMA LocksTyped == LockInv => RowLocksTypeOK
BY DEF LockInv, OrdersTyped, OrderState, TxRow, Lock, LockMode, RowLocksTypeOK

LEMMA EmptyIsProper ==
  ASSUME NEW op \in {"none", "over"}
  PROVE  \A status : Proper(Transaction(op, "none", <<>>), status)
<1>1. PICK t : t = Transaction(op, "none", <<>>)
  OBVIOUS
<1>2. t.op = op /\ t.key = "none" /\ t.wants = <<>> /\ t.held = {}
  BY <1>1 DEF Transaction
<1>3. t \in TxRow
  BY <1>1 DEF Transaction, TxRow, OpName
<1>4. \A x, y : ~Has(<<>>, x) /\ ~Follows(<<>>, x, y)
  BY FewFollow
<1> QED BY <1>1, <1>2, <1>3, <1>4
        DEF Proper, Arranged, ReferredFirst, KnownOrder

LEMMA LocksStart == RowLocksInit => LockInv
<1> SUFFICES ASSUME RowLocksInit PROVE LockInv
  OBVIOUS
<1>1. OrdersTyped
  BY DEF RowLocksInit, OrdersTyped, OrderState
<1>2. \A s \in Slot : tx[s] = Unopened
  BY DEF RowLocksInit
<1>3. Proper(Unopened, orderStatus) /\ Unopened \in TxRow
  BY EmptyIsProper DEF Unopened, Proper
<1>4. Unopened.held = {}
  BY DEF Unopened, Transaction
<1>5. tx \in [Slot -> TxRow]
  BY <1>3 DEF RowLocksInit
<1>6. NoClash
  BY <1>2, <1>4 DEF NoClash
<1> QED BY <1>1, <1>2, <1>3, <1>5, <1>6 DEF LockInv

(* One transaction moves, and no order is forgotten.                          *)
LEMMA TxMoves ==
  ASSUME LockInv, NEW s \in Slot, NEW q, tx' = [tx EXCEPT ![s] = q],
         OrdersTyped',
         \A o \in OrderId : orderStatus[o] # "NONE" => orderStatus'[o] # "NONE",
         Proper(q, orderStatus'),
         \A t \in Slot \ {s} : \A a \in q.held, b \in tx[t].held :
           ~Clash(a, b) /\ ~Clash(b, a)
  PROVE  LockInv'
<1>1. \A t \in Slot : tx'[t] = IF t = s THEN q ELSE tx[t]
  BY DEF LockInv
<1>2. tx' \in [Slot -> TxRow]
  BY DEF LockInv, Proper
<1>3. ASSUME NEW t \in Slot PROVE Proper(tx'[t], orderStatus')
  <2>1. CASE t = s
    BY <1>1, <2>1
  <2>2. CASE t # s
    <3>1. PICK r : r = tx[t]
      OBVIOUS
    <3>2. Proper(r, orderStatus) /\ tx'[t] = r
      BY <1>1, <2>2, <3>1 DEF LockInv
    <3>3. KnownOrder(r, orderStatus')
      BY <3>2 DEF Proper, KnownOrder
    <3> QED BY <3>2, <3>3 DEF Proper
  <2> QED BY <2>1, <2>2
<1>4. NoClash'
  BY <1>1 DEF LockInv, NoClash
<1> QED BY <1>2, <1>3, <1>4 DEF LockInv

LEMMA OpensKeeps ==
  ASSUME LockInv, NEW s \in Slot, NEW op \in OpName,
         NEW key \in OrderId \cup Stocked, NEW wants,
         Opens(s, op, key, wants), Planned(op, key, wants),
         op \in {"checkout", "confirm", "cancel", "plan", "act"} =>
           key \in OrderId,
         op \in {"confirm", "cancel", "plan", "act"} =>
           orderStatus[key] # "NONE",
         op = "checkout" => \A p : Has(wants, InventoryOf(p, "update")) =>
           Follows(wants, ProductOf(p, "refer"), InventoryOf(p, "update"))
  PROVE  LockInv'
<1>1. PICK q : q = Transaction(op, key, wants)
  OBVIOUS
<1>2. q.op = op /\ q.key = key /\ q.wants = wants /\ q.held = {}
  BY <1>1 DEF Transaction
<1>3. q \in TxRow
  BY <1>1 DEF Transaction, TxRow, Planned
<1>4. tx' = [tx EXCEPT ![s] = q] /\ UNCHANGED <<orderStatus, planned>>
  BY <1>1 DEF Opens
<1>5. Arranged(q)
  BY <1>2 DEF Arranged, Planned
<1>6. ReferredFirst(q)
  BY <1>2 DEF ReferredFirst
<1>7. KnownOrder(q, orderStatus)
  BY <1>2 DEF KnownOrder
<1>8. OrdersTyped' /\ orderStatus' = orderStatus
  BY <1>4 DEF LockInv, OrdersTyped
<1>9. Proper(q, orderStatus')
  BY <1>3, <1>5, <1>6, <1>7, <1>8 DEF Proper
<1> QED BY <1>2, <1>4, <1>8, <1>9, TxMoves

LEMMA OrderOpened ==
  ASSUME LockInv, NEW s \in Slot, NEW o \in OrderId, OpensOnOrder(s, o)
  PROVE  LockInv'
<1>1. CASE Opens(s, "checkout", o, CheckoutRows(Lines[o]))
  BY <1>1, CheckoutPlanned, OpensKeeps DEF OpName
<1>2. CASE orderStatus[o] # "NONE" /\ Opens(s, "plan", o, PlanRows(o))
  BY <1>2, PlanPlanned, OpensKeeps DEF OpName
<1>3. ASSUME NEW lines \in AnyOrder(o), orderStatus[o] # "NONE",
             Opens(s, "confirm", o, ConfirmRows(o, lines))
      PROVE  LockInv'
  BY <1>3, ConfirmPlanned, OpensKeeps DEF OpName
<1>4. ASSUME NEW lines \in AnyOrder(o), NEW due \in BOOLEAN,
             orderStatus[o] # "NONE",
             Opens(s, "cancel", o, CancelRows(o, lines, due))
      PROVE  LockInv'
  BY <1>4, CancelPlanned, OpensKeeps DEF OpName
<1>5. CASE orderStatus[o] # "NONE" /\ Opens(s, "act", o, ActRows(o))
  BY <1>5, ActPlanned, OpensKeeps DEF OpName
<1>6. /\ orderStatus[o] \in {"PENDING", "CONFIRMED"} => orderStatus[o] # "NONE"
      /\ orderStatus[o] = "CONFIRMED" => orderStatus[o] # "NONE"
  OBVIOUS
<1> QED BY <1>1, <1>2, <1>3, <1>4, <1>5, <1>6, Zenon DEF OpensOnOrder

LEMMA ProductOpened ==
  ASSUME LockInv, NEW s \in Slot, NEW p \in Stocked, OpensOnProduct(s, p)
  PROVE  LockInv'
<1>1. CASE Opens(s, "adjust", p, AdjustRows(p))
  BY <1>1, AdjustPlanned, OpensKeeps DEF OpName
<1>2. ASSUME NEW mode \in {"update", "exclusive"},
             Opens(s, "edit", p, EditRows(p, mode))
      PROVE  LockInv'
  BY <1>2, EditPlanned, OpensKeeps DEF OpName
<1>3. CASE Opens(s, "hardDelete", p, DeleteRows(p))
  BY <1>3, DeletePlanned, OpensKeeps DEF OpName
<1> QED BY <1>1, <1>2, <1>3, Zenon DEF OpensOnProduct

LEMMA LocksKeeps ==
  ASSUME LockInv, NEW s \in Slot, Locks(s)
  PROVE  LockInv'
<1>1. PICK t, h, rest, q :
        /\ t = tx[s] /\ h = Head(t.wants) /\ rest = Tail(t.wants)
        /\ q = [t EXCEPT !.held = @ \cup {h}, !.wants = rest]
  OBVIOUS
<1>2. /\ t \in TxRow /\ Arranged(t) /\ ReferredFirst(t)
      /\ KnownOrder(t, orderStatus) /\ t.wants \in Seq(Lock)
  BY <1>1 DEF LockInv, Proper, TxRow
<1>3. t.wants # <<>> /\ UNCHANGED <<orderStatus, planned>>
  BY <1>1 DEF Locks
<1>4. /\ h \in Lock /\ rest \in Seq(Lock) /\ Has(t.wants, h)
      /\ \A x, y :
           /\ Has(rest, x) => Has(t.wants, x) /\ Follows(t.wants, h, x)
           /\ Follows(rest, x, y) => Follows(t.wants, x, y)
           /\ Follows(t.wants, x, y) =>
                (x = h /\ Has(rest, y)) \/ Follows(rest, x, y)
  BY <1>1, <1>2, <1>3, TailFollows
<1>5. /\ q \in TxRow /\ q.op = t.op /\ q.key = t.key /\ q.wants = rest
      /\ q.held = t.held \cup {h}
  BY <1>1, <1>2, <1>4 DEF TxRow
<1>6. tx' = [tx EXCEPT ![s] = q]
  BY <1>1, <1>2 DEF Locks, LockInv, TxRow
<1>7. Arranged(q)
  BY <1>2, <1>4, <1>5 DEF Arranged
<1>8. ReferredFirst(q)
  <2>1. SUFFICES ASSUME t.op = "checkout", NEW p
                 PROVE  LET refer == ProductOf(p, "refer")
                            moves == InventoryOf(p, "update") IN
                        /\ moves \in q.held => refer \in q.held
                        /\ Has(rest, moves) =>
                             refer \in q.held \/ Follows(rest, refer, moves)
    BY <1>5 DEF ReferredFirst
  <2>2. PICK refer, moves : /\ refer = ProductOf(p, "refer")
                            /\ moves = InventoryOf(p, "update")
    OBVIOUS
  <2>3. /\ moves \in t.held => refer \in t.held
        /\ Has(t.wants, moves) =>
             refer \in t.held \/ Follows(t.wants, refer, moves)
    BY <1>2, <2>1, <2>2 DEF ReferredFirst
  <2>4. ~Follows(t.wants, moves, moves)
    <3>1. ~CheckoutOrder(t.key, moves, moves)
      BY <2>2, RowFacts DEF CheckoutOrder, SameRow
    <3> QED BY <1>2, <2>1, <3>1 DEF Arranged, InTurn
  <2>5. ASSUME h = moves PROVE refer \in t.held
    <3>1. refer \in t.held \/ Follows(t.wants, refer, moves)
      BY <1>4, <2>3, <2>5
    <3>2. Follows(t.wants, refer, moves) => Has(rest, moves)
      <4>1. Follows(rest, refer, moves) => Has(rest, moves)
        BY DEF Follows, Has
      <4> QED BY <1>4, <4>1
    <3>3. ~Has(rest, moves)
      BY <1>4, <2>4, <2>5
    <3> QED BY <3>1, <3>2, <3>3
  <2>6. ASSUME Has(rest, moves)
        PROVE  refer \in q.held \/ Follows(rest, refer, moves)
    BY <1>4, <1>5, <2>3, <2>6
  <2>7. moves \in q.held => refer \in q.held
    BY <1>5, <2>3, <2>5
  <2> QED BY <2>2, <2>6, <2>7
<1>9. KnownOrder(q, orderStatus)
  BY <1>2, <1>5 DEF KnownOrder
<1>10. OrdersTyped' /\ orderStatus' = orderStatus
  BY <1>3 DEF LockInv, OrdersTyped
<1>11. Proper(q, orderStatus')
  BY <1>5, <1>7, <1>8, <1>9, <1>10 DEF Proper
<1>12. ASSUME NEW other \in Slot \ {s}, NEW a \in q.held,
              NEW b \in tx[other].held
       PROVE  ~Clash(a, b) /\ ~Clash(b, a)
  <2>1. Clash(a, b) <=> Clash(b, a)
    BY DEF Clash, SameRow
  <2>2. CASE a = h
    BY <1>1, <1>3, <2>1, <2>2 DEF Locks, Blocks
  <2>3. CASE a \in t.held
    BY <1>1, <2>1, <2>3 DEF LockInv, NoClash
  <2> QED BY <1>5, <2>2, <2>3
<1> QED BY <1>6, <1>10, <1>11, <1>12, TxMoves

LEMMA OverKeeps ==
  ASSUME LockInv, NEW s \in Slot, tx' = [tx EXCEPT ![s] = Over],
         OrdersTyped',
         \A o \in OrderId : orderStatus[o] # "NONE" => orderStatus'[o] # "NONE"
  PROVE  LockInv'
<1>1. Proper(Over, orderStatus') /\ Over.held = {}
  BY EmptyIsProper DEF Over, Transaction
<1> QED BY <1>1, TxMoves

LEMMA CommitsKeeps ==
  ASSUME LockInv, NEW s \in Slot, Commits(s)
  PROVE  LockInv'
<1>1. PICK t : t = tx[s]
  OBVIOUS
<1>2. PICK o : o = t.key
  OBVIOUS
<1>3. t \in TxRow /\ KnownOrder(t, orderStatus) /\ OrdersTyped
  BY <1>1 DEF LockInv, Proper
<1>4. tx' = [tx EXCEPT ![s] = Over]
  BY DEF Commits
<1>5. \/ UNCHANGED orderStatus
      \/ /\ o \in OrderId
         /\ \E status \in OrderState \ {"NONE"} :
              orderStatus' = [orderStatus EXCEPT ![o] = status]
  BY <1>1, <1>2, <1>3 DEF Commits, Moved, OrderState, KnownOrder
<1>6. /\ orderStatus' \in [OrderId -> OrderState]
      /\ \A i \in OrderId : orderStatus[i] # "NONE" => orderStatus'[i] # "NONE"
  BY <1>3, <1>5 DEF OrdersTyped
<1>7. planned' = planned \/ (t.op = "plan" /\ planned' = planned \cup {o})
  BY <1>1, <1>2 DEF Commits
<1>8. t.op = "plan" => o \in OrderId /\ orderStatus[o] # "NONE"
  BY <1>2, <1>3 DEF KnownOrder
<1>9. OrdersTyped'
  BY <1>3, <1>6, <1>7, <1>8 DEF OrdersTyped
<1> QED BY <1>4, <1>6, <1>9, OverKeeps

LEMMA LocksKept ==
  ASSUME LockInv, [RowLocksNext]_lockVars
  PROVE  LockInv'
<1>1. CASE UNCHANGED lockVars
  BY <1>1 DEF lockVars, LockInv, OrdersTyped, NoClash
<1>2. ASSUME NEW s \in Slot, FindsSettled(s) \/ RollsBack(s) PROVE LockInv'
  <2>1. tx' = [tx EXCEPT ![s] = Over] /\ UNCHANGED <<orderStatus, planned>>
    BY <1>2, Zenon DEF FindsSettled, RollsBack
  <2>2. OrdersTyped' /\ orderStatus' = orderStatus
    BY <2>1 DEF LockInv, OrdersTyped
  <2> QED BY <2>1, <2>2, OverKeeps
<1> QED BY <1>1, <1>2, OrderOpened, ProductOpened, LocksKeeps, CommitsKeeps,
           Zenon DEF RowLocksNext

------------------------------------------------------------------------------
(* Two transactions that wait for each other.                                 *)
(* Two products in common are what Cross counts.                              *)
LEMMA SharedCounts ==
  ASSUME NEW A, NEW B, IsFiniteSet(A), NEW p \in A \cap B, NEW q \in A \cap B,
         p # q
  PROVE  Cardinality(A \cap B) > 1
<1>1. IsFiniteSet(A \cap B)
  BY FS_Intersection
<1>2. IsFiniteSet({p, q}) /\ Cardinality({p, q}) = 2
  <2>1. IsFiniteSet({p}) /\ Cardinality({p}) = 1
    BY FS_Singleton
  <2>2. /\ IsFiniteSet({p} \cup {q})
        /\ Cardinality({p} \cup {q}) = Cardinality({p}) + 1
    BY <2>1, FS_AddElement
  <2> QED BY <2>1, <2>2
<1>3. Cardinality({p, q}) <= Cardinality(A \cap B)
  BY <1>1, FS_Subset
<1>4. Cardinality(A \cap B) \in Nat
  BY <1>1, FS_CardinalityType
<1> QED BY <1>2, <1>3, <1>4

LEMMA CartsAreFinite ==
  ASSUME NEW o \in OrderId
  PROVE  IsFiniteSet(LinesOf(o))
<1>1. PICK lines, n : lines = Lines[o] /\ n = Len(lines)
  OBVIOUS
<1>2. lines \in Seq(Stocked) /\ n \in Nat
  BY <1>1, LockAssumption
<1>3. IsFiniteSet(1 .. n)
  BY <1>2, FS_Interval
<1>4. lines \in [1 .. n -> Stocked]
  BY <1>1, <1>2
<1>5. LinesOf(o) = {lines[i] : i \in 1 .. n}
  BY <1>1, <1>4 DEF LinesOf, ToSet
<1>6. lines \in Surjection(1 .. n, LinesOf(o))
  BY <1>4, <1>5 DEF Surjection
<1> QED BY <1>3, <1>6, FS_Surjection

(* OnStock: the products whose rows a transaction takes.                      *)
LEMMA StockIsStock ==
  ASSUME NEW s \in Slot
  PROVE  OnStock(s) = StockOf(tx[s].op, tx[s].key)
<1>1. CASE tx[s].op \in {"checkout", "cancel", "confirm"}
  BY <1>1 DEF OnStock, StockOf, LinesOf
<1>2. CASE tx[s].op \in {"adjust", "edit", "hardDelete"}
  BY <1>2 DEF OnStock, StockOf
<1>3. CASE /\ tx[s].op \notin {"checkout", "cancel", "confirm"}
           /\ tx[s].op \notin {"adjust", "edit", "hardDelete"}
  BY <1>3 DEF OnStock, StockOf
<1> QED BY <1>1, <1>2, <1>3

LEMMA CrossingIsCross ==
  ASSUME LockInv, NEW s \in Slot, NEW t \in Slot,
         Crossing(tx[s].op, tx[s].key, tx[t].op, tx[t].key)
  PROVE  Cross(s, t) \/ Cross(t, s)
<1>1. PICK op, key, other, key2 :
        /\ op = tx[s].op /\ key = tx[s].key
        /\ other = tx[t].op /\ key2 = tx[t].key
  OBVIOUS
<1>2. OnStock(s) = StockOf(op, key) /\ OnStock(t) = StockOf(other, key2)
  BY <1>1, StockIsStock
<1>3. op \in {"checkout", "cancel", "confirm"} => key \in OrderId
  BY <1>1 DEF LockInv, Proper, KnownOrder
<1>4. IsFiniteSet(StockOf(op, key))
  BY <1>3, CartsAreFinite, FS_Singleton, FS_EmptySet DEF StockOf
<1>5. CASE \E p, q \in StockOf(op, key) \cap StockOf(other, key2) : p # q
  BY <1>2, <1>4, <1>5, SharedCounts DEF Cross
<1>6. CASE OneWay(op, key, other, key2)
  BY <1>1, <1>2, <1>6 DEF OneWay, Cross, Together
<1>7. CASE OneWay(other, key2, op, key)
  BY <1>1, <1>2, <1>7 DEF OneWay, Cross, Together
<1> QED BY <1>1, <1>5, <1>6, <1>7 DEF Crossing

(* A deletion never waits for a checkout that waits for it: the checkout      *)
(* refers to the product before it takes its stock.                           *)
LEMMA DeletionApart ==
  ASSUME LockInv, NEW s \in Slot, NEW t \in Slot, s # t,
         tx[s].op = "hardDelete", tx[t].op = "checkout",
         NEW x \in tx[s].held, NEW y, NEW u \in tx[t].held, NEW v,
         Inverted("hardDelete", tx[s].key, x, y,
                  "checkout", tx[t].key, u, v)
  PROVE  FALSE
<1>1. PICK p : p = tx[s].key
  OBVIOUS
<1>2. DeleteOrder(p, x, y) /\ CheckoutOrder(tx[t].key, u, v) /\ SameRow(u, y)
  BY <1>1, Zenon DEF Inverted, InTurn, Clash
<1>3. /\ x = ProductOf(p, "exclusive") /\ u.table = "inventory" /\ u.key = p
      /\ u.mode = "update"
  BY <1>2 DEF DeleteOrder, CheckoutOrder, SameRow, InventoryOf, Want
<1>4. u \in Lock /\ ReferredFirst(tx[t])
  BY DEF LockInv, Proper, TxRow
<1>5. u = InventoryOf(p, "update")
  BY <1>3, <1>4 DEF Lock, InventoryOf, Want
<1>6. ProductOf(p, "refer") \in tx[t].held
  BY <1>4, <1>5 DEF ReferredFirst
<1>7. Clash(x, ProductOf(p, "refer"))
  BY <1>3 DEF Clash, SameRow, ProductOf, Want
<1> QED BY <1>6, <1>7 DEF LockInv, NoClash

LEMMA WaitsCross ==
  ASSUME LockInv, NEW s \in Slot, NEW t \in Slot, Blocks(t, s), Blocks(s, t)
  PROVE  Cross(s, t) \/ Cross(t, s)
<1>1. PICK y, v : y = Head(tx[s].wants) /\ v = Head(tx[t].wants)
  OBVIOUS
<1>2. PICK u \in tx[t].held, x \in tx[s].held : Clash(u, y) /\ Clash(x, v)
  BY <1>1 DEF Blocks
<1>3. /\ tx[s].wants # <<>> /\ tx[t].wants # <<>> /\ s # t
      /\ tx[s].wants \in Seq(Lock) /\ tx[t].wants \in Seq(Lock)
  BY DEF Blocks, LockInv, TxRow
<1>4. Has(tx[s].wants, y) /\ Has(tx[t].wants, v)
  BY <1>1, <1>3, TailFollows
<1>5. /\ InTurn(tx[s].op, tx[s].key, x, y)
      /\ InTurn(tx[t].op, tx[t].key, u, v)
  BY <1>2, <1>4 DEF LockInv, Proper, Arranged
<1>6. Inverted(tx[s].op, tx[s].key, x, y, tx[t].op, tx[t].key, u, v)
  BY <1>2, <1>5 DEF Inverted
<1>7. Inverted(tx[t].op, tx[t].key, u, v, tx[s].op, tx[s].key, x, y)
  BY <1>6, InvertedFlips
<1>8. \/ Crossing(tx[s].op, tx[s].key, tx[t].op, tx[t].key)
      \/ DeletesOrdered(tx[s].op, tx[s].key, tx[t].op)
      \/ DeletesOrdered(tx[t].op, tx[t].key, tx[s].op)
  BY <1>6, InvertedCrosses
<1>9. ~DeletesOrdered(tx[s].op, tx[s].key, tx[t].op)
  BY <1>2, <1>3, <1>6, DeletionApart DEF DeletesOrdered
<1>10. ~DeletesOrdered(tx[t].op, tx[t].key, tx[s].op)
  BY <1>2, <1>3, <1>7, DeletionApart DEF DeletesOrdered
<1> QED BY <1>8, <1>9, <1>10, CrossingIsCross

(* Rings of any length.  Most transactions take rows of ever higher tables    *)
(* and never wait in a ring.                                                  *)
Level(x) ==
  IF x.table = "production_tasks" THEN 0
  ELSE IF x.table = "payments" THEN 1
  ELSE IF x.table = "orders" THEN 2
  ELSE IF x.table = "installments" THEN 3
  ELSE IF x.table = "inventory" THEN 4 ELSE 5
SeveralProducts(s) == \E p, q \in LinesOf(tx[s].key) : p # q
Turns(s) ==
  \/ tx[s].op \in {"checkout", "cancel", "edit", "hardDelete"}
  \/ tx[s].op = "confirm" /\ SeveralProducts(s)

LEMMA Climbs ==
  ASSUME NEW s \in Slot, ~Turns(s), NEW x, NEW y,
         InTurn(tx[s].op, tx[s].key, x, y)
  PROVE  Level(x) < Level(y)
<1>1. CASE tx[s].op = "plan"
  BY <1>1 DEF Turns, InTurn, PlanOrder, Level
<1>2. CASE tx[s].op = "act"
  BY <1>2 DEF Turns, InTurn, ActOrder, Level
<1>3. CASE tx[s].op = "adjust"
  BY <1>3 DEF Turns, InTurn, AdjustOrder, Level, InventoryOf, ProductOf, Want
<1>4. CASE tx[s].op = "confirm"
  BY <1>4 DEF Turns, SeveralProducts, InTurn, ConfirmOrdering, Level
<1> QED BY <1>1, <1>2, <1>3, <1>4 DEF Turns, InTurn

LEMMA RingsTurn ==
  ASSUME LockInv, NEW S \in SUBSET Slot, Deadlocked(S)
  PROVE  \E s \in S : Turns(s)
<1> SUFFICES ASSUME \A s \in S : ~Turns(s) PROVE FALSE
  OBVIOUS
<1> DEFINE L(s) == Level(Head(tx[s].wants))
           T == {5 - L(s) : s \in S}
<1>1. ASSUME NEW s \in S PROVE L(s) \in 0 .. 5
  BY DEF Level
<1>2. ASSUME NEW s \in S PROVE \E t \in S : L(s) < L(t)
  <2>1. PICK t \in S : Blocks(t, s)
    BY DEF Deadlocked
  <2>2. PICK r \in S : Blocks(r, t)
    BY DEF Deadlocked
  <2>3. PICK w, y, z : w = tx[t].wants /\ y = Head(w) /\ z = Head(tx[s].wants)
    OBVIOUS
  <2>4. w \in Seq(Lock) /\ w # <<>>
    BY <2>2, <2>3 DEF Blocks, LockInv, TxRow
  <2>5. Has(w, y)
    BY <2>3, <2>4, TailFollows
  <2>6. PICK x \in tx[t].held : Clash(x, z)
    BY <2>1, <2>3 DEF Blocks
  <2>7. InTurn(tx[t].op, tx[t].key, x, y)
    BY <2>3, <2>5 DEF LockInv, Proper, Arranged
  <2>8. Level(x) < Level(y)
    BY <2>7, Climbs
  <2>9. Level(x) = Level(z)
    BY <2>6 DEF Clash, SameRow, Level
  <2> QED BY <2>3, <2>8, <2>9
<1>3. T \subseteq Nat /\ T # {}
  BY <1>1 DEF Deadlocked
<1> HIDE DEF L
<1>4. PICK m \in T : \A k \in T : m <= k
  BY <1>3, FirstOf
<1>5. PICK s \in S : m = 5 - L(s)
  OBVIOUS
<1>6. PICK t \in S : L(s) < L(t)
  BY <1>2
<1>7. m <= 5 - L(t)
  BY <1>4
<1> QED BY <1>1, <1>5, <1>6, <1>7

------------------------------------------------------------------------------
(* Two transactions wait for each other only where the code is known to take  *)
(* their rows in opposite orders, whatever else the database is doing.        *)
PairsAreKnown ==
  \A s, t \in Slot : Blocks(s, t) /\ Blocks(t, s) => Cross(s, t) \/ Cross(t, s)

(* The rows of the database are locked without contradiction: a transaction   *)
(* holds what its code takes first, and no two hold locks that clash.         *)
THEOREM LocksAreHeldApart == RowLocksSpec => [](RowLocksTypeOK /\ NoClash)
<1>1. RowLocksInit => LockInv
  BY LocksStart
<1>2. LockInv /\ [RowLocksNext]_lockVars => LockInv'
  BY LocksKept
<1>3. LockInv => RowLocksTypeOK /\ NoClash
  BY LocksTyped DEF LockInv
<1> QED BY <1>1, <1>2, <1>3, PTL DEF RowLocksSpec

(* A pair of requests deadlocks in the database only where the code is known  *)
(* to take their rows in opposite orders, whoever else waits.                 *)
THEOREM PairsCross == RowLocksSpec => []PairsAreKnown
<1>1. RowLocksInit => LockInv
  BY LocksStart
<1>2. LockInv /\ [RowLocksNext]_lockVars => LockInv'
  BY LocksKept
<1>3. LockInv => PairsAreKnown
  BY WaitsCross DEF PairsAreKnown
<1> QED BY <1>1, <1>2, <1>3, PTL DEF RowLocksSpec

(* Any ring of waiting requests, however long, has a checkout, a cancellation,*)
(* an edit or a deletion of a product, or a confirmation of several products: *)
(* corrections of stock, plans, the steps of the floor and confirmations of   *)
(* one product never deadlock among themselves.                               *)
THEOREM RingsNeedCarts ==
  RowLocksSpec => [](\A S \in SUBSET Slot :
                       Deadlocked(S) => \E s \in S : Turns(s))
<1>1. RowLocksInit => LockInv
  BY LocksStart
<1>2. LockInv /\ [RowLocksNext]_lockVars => LockInv'
  BY LocksKept
<1>3. LockInv => \A S \in SUBSET Slot : Deadlocked(S) => \E s \in S : Turns(s)
  BY RingsTurn
<1> QED BY <1>1, <1>2, <1>3, PTL DEF RowLocksSpec

(* With two transactions at a time, every deadlock is one of those pairs.     *)
THEOREM DeadlocksKnown ==
  ASSUME \A a, b, c \in Slot : a = b \/ b = c \/ a = c
  PROVE  RowLocksSpec => []DeadlocksAreKnown
<1>1. PairsAreKnown => DeadlocksAreKnown
  <2>1. SUFFICES ASSUME PairsAreKnown, NEW S \in SUBSET Slot, Deadlocked(S)
                 PROVE  \E s, t \in S : Cross(s, t)
    BY DEF DeadlocksAreKnown
  <2>2. PICK s \in S : TRUE
    BY <2>1 DEF Deadlocked
  <2>3. PICK t \in S : Blocks(t, s)
    BY <2>1, <2>2 DEF Deadlocked
  <2>4. PICK r \in S : Blocks(r, t)
    BY <2>1, <2>3 DEF Deadlocked
  <2>5. s # t /\ t # r
    BY <2>3, <2>4 DEF Blocks
  <2>6. r = s
    BY <2>5
  <2> QED BY <2>1, <2>3, <2>4, <2>6 DEF PairsAreKnown
<1> QED BY <1>1, PairsCross, PTL
=============================================================================
