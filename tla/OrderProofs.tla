----------------------------- MODULE OrderProofs ------------------------------
(* What each order does to the stock, as long as nothing else runs for an     *)
(* order that is being cancelled (CancelsAlone): its units are reserved while *)
(* it is PENDING, sold or released once, returned at most once, and touched   *)
(* by no other order; and its dues are voided, its payment followed up.  And  *)
(* what its status, its tasks and its timeline say of each other, as long as  *)
(* the requests in flight are for different orders (Apart).                   *)
EXTENDS ConfirmProofs, StockProofs, FiniteSetTheorems

------------------------------------------------------------------------------
(* Sums over a finite set.  MapThenSumSet is a recursive function of the      *)
(* subsets of its set: that it exists, and that its value does not depend on  *)
(* the order in which elements are chosen, is shown by least counterexample.  *)

(* The sum of w over a finite set, as MapThenSumSet computes it.              *)
Chosen(s) == CHOOSE x \in s : TRUE
SumOf(w, S) == MapThenSumSet(LAMBDA x : w[x], S)
SumStep(sums, w, s) ==
  IF s = {} THEN 0 ELSE w[Chosen(s)] + sums[s \ {Chosen(s)}]
SumTable(sums, w, S) == sums = [s \in SUBSET S |-> SumStep(sums, w, s)]

LEMMA SumIsChosen ==
  ASSUME NEW w, NEW S
  PROVE  SumOf(w, S) = (CHOOSE sums : SumTable(sums, w, S))[S]
BY Zenon DEF SumOf, MapThenSumSet, MapThenFoldSet, SumTable, SumStep, Chosen

(* A set of naturals has a least element.                                     *)
LEMMA LeastNatural ==
  ASSUME NEW T, T \subseteq Nat, T # {}
  PROVE  \E m \in T : \A k \in T : m <= k
<1>1. \E m \in T : \A k \in T : ~(<<k, m>> \in OpToRel(<, Nat))
  BY NatLessThanWellFounded, WFMin
<1>2. \A k, m \in T : ~(<<k, m>> \in OpToRel(<, Nat)) => m <= k
  BY DEF OpToRel
<1> QED BY <1>1, <1>2

LEMMA ChosenIsMember ==
  ASSUME NEW s, s # {}
  PROVE  Chosen(s) \in s
BY DEF Chosen

(* Removing an element leaves a smaller finite set.                           *)
LEMMA OneLess ==
  ASSUME NEW s, IsFiniteSet(s), NEW x \in s
  PROVE  /\ IsFiniteSet(s \ {x})
         /\ Cardinality(s) \in Nat \ {0}
         /\ Cardinality(s \ {x}) = Cardinality(s) - 1
         /\ Cardinality(s \ {x}) \in Nat
BY FS_RemoveElement, FS_CardinalityType, FS_EmptySet

(* The recursion has a solution: up to every number of elements, and so up to *)
(* the number of elements there are.                                          *)
Solves(sums, w, S, n) ==
  /\ sums \in [SUBSET S -> Int]
  /\ \A s \in SUBSET S : Cardinality(s) <= n => sums[s] = SumStep(sums, w, s)

LEMMA SolvedOneMore ==
  ASSUME NEW S, IsFiniteSet(S), NEW w, \A x \in S : w[x] \in Int,
         NEW n \in Nat, NEW sums, Solves(sums, w, S, n)
  PROVE  \E more : Solves(more, w, S, n + 1)
<1> DEFINE more == [s \in SUBSET S |-> IF Cardinality(s) = n + 1
                                       THEN SumStep(sums, w, s) ELSE sums[s]]
<1>1. ASSUME NEW s \in SUBSET S, s # {}
      PROVE  /\ Chosen(s) \in S /\ s \ {Chosen(s)} \in SUBSET S
             /\ Cardinality(s) \in Nat \ {0}
             /\ Cardinality(s \ {Chosen(s)}) = Cardinality(s) - 1
  BY <1>1, ChosenIsMember, OneLess, FS_Subset
<1>2. ASSUME NEW s \in SUBSET S PROVE SumStep(sums, w, s) \in Int
  <2>1. CASE s = {}
    BY <2>1 DEF SumStep
  <2>2. CASE s # {}
    <3>1. w[Chosen(s)] \in Int /\ sums[s \ {Chosen(s)}] \in Int
      BY <1>1, <2>2 DEF Solves
    <3> QED BY <2>2, <3>1 DEF SumStep
  <2> QED BY <2>1, <2>2
<1>3. more \in [SUBSET S -> Int]
  BY <1>2 DEF Solves
<1>4. ASSUME NEW s \in SUBSET S, Cardinality(s) <= n + 1
      PROVE  more[s] = SumStep(more, w, s)
  <2>1. CASE s = {}
    BY <2>1, FS_EmptySet DEF SumStep, Solves
  <2>2. CASE s # {}
    <3> DEFINE t == s \ {Chosen(s)}
    <3>1. /\ t \in SUBSET S /\ Cardinality(s) \in Nat
          /\ Cardinality(t) = Cardinality(s) - 1
      BY <1>1, <2>2
    <3>2. more[t] = sums[t]
      BY <1>4, <3>1
    <3>3. SumStep(more, w, s) = SumStep(sums, w, s)
      BY <3>2 DEF SumStep
    <3>4. CASE Cardinality(s) = n + 1
      BY <3>3, <3>4
    <3>5. CASE Cardinality(s) # n + 1
      <4>1. Cardinality(s) <= n
        BY <1>4, <3>1, <3>5
      <4> QED BY <4>1, <3>3, <3>5 DEF Solves
    <3> QED BY <3>4, <3>5
  <2> QED BY <2>1, <2>2
<1> HIDE DEF more
<1>5. Solves(more, w, S, n + 1)
  BY <1>3, <1>4 DEF Solves
<1> QED BY <1>5

LEMMA SumsExist ==
  ASSUME NEW S, IsFiniteSet(S), NEW w, \A x \in S : w[x] \in Int
  PROVE  \E sums \in [SUBSET S -> Int] : SumTable(sums, w, S)
<1> DEFINE T == {n \in Nat : ~ \E sums : Solves(sums, w, S, n)}
<1>1. 0 \notin T
  <2> DEFINE none == [s \in SUBSET S |-> 0]
  <2>1. ASSUME NEW s \in SUBSET S, Cardinality(s) <= 0 PROVE s = {}
    BY <2>1, FS_Subset, FS_EmptySet, FS_CardinalityType
  <2>2. Solves(none, w, S, 0)
    BY <2>1 DEF Solves, SumStep
  <2> QED BY <2>2
<1>2. ASSUME NEW m \in T, \A k \in T : m <= k PROVE FALSE
  <2>1. m - 1 \in Nat /\ m - 1 \notin T
    BY <1>1, <1>2
  <2>2. PICK sums : Solves(sums, w, S, m - 1)
    BY <2>1
  <2>3. \E more : Solves(more, w, S, (m - 1) + 1)
    BY <2>1, <2>2, SolvedOneMore
  <2>4. (m - 1) + 1 = m
    BY <1>2
  <2> QED BY <2>3, <2>4
<1>3. T = {}
  BY <1>2, LeastNatural
<1>4. Cardinality(S) \in Nat
  BY FS_CardinalityType
<1>5. PICK sums : Solves(sums, w, S, Cardinality(S))
  BY <1>3, <1>4
<1>6. \A s \in SUBSET S : sums[s] = SumStep(sums, w, s)
  BY <1>5, FS_Subset DEF Solves
<1>7. sums = [s \in SUBSET S |-> SumStep(sums, w, s)]
  BY <1>5, <1>6 DEF Solves
<1> QED BY <1>5, <1>7 DEF SumTable, Solves

(* And only one, which sees no more of w than its values on the set.          *)
LEMMA SumsAgree ==
  ASSUME NEW S, IsFiniteSet(S), NEW R \in SUBSET S, NEW w, NEW v,
         \A x \in R : w[x] = v[x],
         NEW f, SumTable(f, w, S), NEW g, SumTable(g, v, R)
  PROVE  \A s \in SUBSET R : f[s] = g[s]
<1> DEFINE T == {n \in Nat : \E s \in SUBSET R : Cardinality(s) = n
                                                 /\ f[s] # g[s]}
<1>1. ASSUME NEW s \in SUBSET R
      PROVE  /\ f[s] = SumStep(f, w, s) /\ g[s] = SumStep(g, v, s)
             /\ IsFiniteSet(s) /\ Cardinality(s) \in Nat
  BY FS_Subset, FS_CardinalityType DEF SumTable
<1>2. ASSUME NEW m \in T, \A k \in T : m <= k PROVE FALSE
  <2>1. PICK s \in SUBSET R : Cardinality(s) = m /\ f[s] # g[s]
    BY <1>2
  <2>2. s # {}
    BY <1>1, <2>1 DEF SumStep
  <2> DEFINE t == s \ {Chosen(s)}
  <2>3. /\ Chosen(s) \in R /\ t \in SUBSET R /\ Cardinality(t) \in Nat
        /\ Cardinality(t) < m
    BY <1>1, <2>1, <2>2, ChosenIsMember, OneLess
  <2>4. f[t] = g[t]
    BY <1>2, <2>3
  <2> QED BY <1>1, <2>1, <2>2, <2>3, <2>4 DEF SumStep
<1>3. T = {}
  BY <1>2, LeastNatural
<1> QED BY <1>1, <1>3

LEMMA SumSolved ==
  ASSUME NEW S, IsFiniteSet(S), NEW w, \A x \in S : w[x] \in Int
  PROVE  \E sums \in [SUBSET S -> Int] :
           SumTable(sums, w, S) /\ SumOf(w, S) = sums[S]
<1> DEFINE f == CHOOSE sums : SumTable(sums, w, S)
<1>1. PICK g \in [SUBSET S -> Int] : SumTable(g, w, S)
  BY SumsExist
<1>2. SumTable(f, w, S)
  BY <1>1
<1> HIDE DEF f
<1>3. \A s \in SUBSET S : f[s] = g[s]
  BY <1>1, <1>2, SumsAgree
<1>4. SumOf(w, S) = f[S]
  BY SumIsChosen DEF f
<1> QED BY <1>1, <1>3, <1>4

(* What is used of sums: nothing sums to 0, an element can be taken out, and  *)
(* only the values on the set count.                                          *)
LEMMA SumOfNone == ASSUME NEW w PROVE SumOf(w, {}) = 0
<1>1. PICK sums : SumTable(sums, w, {}) /\ SumOf(w, {}) = sums[{}]
  BY SumSolved, FS_EmptySet
<1> QED BY <1>1 DEF SumTable, SumStep

LEMMA SumOfSame ==
  ASSUME NEW S, IsFiniteSet(S), NEW w, NEW v,
         \A x \in S : w[x] \in Int /\ v[x] = w[x]
  PROVE  SumOf(w, S) = SumOf(v, S)
<1>1. PICK f : SumTable(f, w, S) /\ SumOf(w, S) = f[S]
  BY SumSolved
<1>2. PICK g : SumTable(g, v, S) /\ SumOf(v, S) = g[S]
  BY SumSolved
<1> QED BY <1>1, <1>2, SumsAgree

LEMMA SumOfChosen ==
  ASSUME NEW S, IsFiniteSet(S), NEW w, \A x \in S : w[x] \in Int, S # {}
  PROVE  SumOf(w, S) = w[Chosen(S)] + SumOf(w, S \ {Chosen(S)})
<1> DEFINE R == S \ {Chosen(S)}
<1>1. PICK f : SumTable(f, w, S) /\ SumOf(w, S) = f[S]
  BY SumSolved
<1>2. R \in SUBSET S /\ IsFiniteSet(R)
  BY FS_Subset
<1>3. PICK g : SumTable(g, w, R) /\ SumOf(w, R) = g[R]
  BY <1>2, SumSolved
<1>4. f[R] = g[R]
  BY <1>1, <1>2, <1>3, SumsAgree
<1>5. f[S] = w[Chosen(S)] + f[R]
  BY <1>1 DEF SumTable, SumStep
<1> QED BY <1>1, <1>3, <1>4, <1>5

LEMMA SumOfType ==
  ASSUME NEW S, IsFiniteSet(S), NEW w, \A x \in S : w[x] \in Int
  PROVE  SumOf(w, S) \in Int
<1>1. PICK sums \in [SUBSET S -> Int] : SumOf(w, S) = sums[S]
  BY SumSolved
<1>2. S \in SUBSET S
  OBVIOUS
<1> QED BY <1>1, <1>2

LEMMA SumOfWithout ==
  ASSUME NEW S, IsFiniteSet(S), NEW w, \A x \in S : w[x] \in Int, NEW y \in S
  PROVE  SumOf(w, S) = w[y] + SumOf(w, S \ {y})
<1> DEFINE Splits(s) == \A x \in s : SumOf(w, s) = w[x] + SumOf(w, s \ {x})
           T == {n \in Nat : \E s \in SUBSET S : Cardinality(s) = n
                                                 /\ ~Splits(s)}
<1>1. ASSUME NEW s \in SUBSET S
      PROVE  IsFiniteSet(s) /\ Cardinality(s) \in Nat
  BY FS_Subset, FS_CardinalityType
<1>2. ASSUME NEW m \in T, \A k \in T : m <= k PROVE FALSE
  <2>1. PICK s \in SUBSET S : Cardinality(s) = m /\ ~Splits(s)
    BY <1>2
  <2>2. PICK x \in s : SumOf(w, s) # w[x] + SumOf(w, s \ {x})
    BY <2>1
  <2>3. PICK c \in s : c = Chosen(s)
    BY ChosenIsMember
  <2>4. SumOf(w, s) = w[c] + SumOf(w, s \ {c})
    BY <1>1, <2>3, SumOfChosen
  <2>5. x # c
    BY <2>2, <2>4
  <2>6. \A z \in s : /\ s \ {z} \in SUBSET S
                     /\ Cardinality(s \ {z}) \in Nat
                     /\ Cardinality(s \ {z}) < m
    BY <1>1, <2>1, OneLess
  <2>7. Splits(s \ {c}) /\ Splits(s \ {x})
    BY <1>2, <2>6
  <2>8. x \in s \ {c} /\ c \in s \ {x}
    BY <2>5
  <2>9. /\ SumOf(w, s \ {c}) = w[x] + SumOf(w, (s \ {c}) \ {x})
        /\ SumOf(w, s \ {x}) = w[c] + SumOf(w, (s \ {x}) \ {c})
    BY <2>7, <2>8
  <2>10. PICK u \in SUBSET S : u = (s \ {c}) \ {x} /\ u = (s \ {x}) \ {c}
    OBVIOUS
  <2>11. SumOf(w, u) \in Int
    BY <1>1, SumOfType
  <2>12. w[x] \in Int /\ w[c] \in Int
    OBVIOUS
  <2>13. /\ SumOf(w, s) = w[c] + (w[x] + SumOf(w, u))
         /\ SumOf(w, s \ {x}) = w[c] + SumOf(w, u)
    BY <2>4, <2>9, <2>10
  <2> QED BY <2>2, <2>11, <2>12, <2>13
<1>3. T = {}
  BY <1>2, LeastNatural
<1>4. Splits(S)
  BY <1>1, <1>3
<1> QED BY <1>4

(* A sum of naturals is one, so it is no less than each of its terms.         *)
LEMMA SumOfNaturals ==
  ASSUME NEW S, IsFiniteSet(S), NEW w, \A x \in S : w[x] \in Nat
  PROVE  SumOf(w, S) \in Nat
<1> DEFINE T == {n \in Nat : \E s \in SUBSET S : Cardinality(s) = n
                                                /\ SumOf(w, s) \notin Nat}
<1>1. ASSUME NEW s \in SUBSET S
      PROVE  IsFiniteSet(s) /\ Cardinality(s) \in Nat
  BY FS_Subset, FS_CardinalityType
<1>2. ASSUME NEW m \in T, \A k \in T : m <= k PROVE FALSE
  <2>1. PICK s \in SUBSET S : Cardinality(s) = m /\ SumOf(w, s) \notin Nat
    BY <1>2
  <2>2. s # {}
    BY <2>1, SumOfNone
  <2>3. PICK c \in s, t \in SUBSET S :
          c = Chosen(s) /\ t = s \ {c}
    BY <2>2, ChosenIsMember
  <2>4. SumOf(w, s) = w[c] + SumOf(w, t)
    BY <1>1, <2>2, <2>3, SumOfChosen
  <2>5. Cardinality(t) \in Nat /\ Cardinality(t) < m
    BY <1>1, <2>1, <2>3, OneLess
  <2>6. SumOf(w, t) \in Nat
    BY <1>2, <2>5
  <2> QED BY <2>1, <2>4, <2>6
<1>3. T = {}
  BY <1>2, LeastNatural
<1>4. S \in SUBSET S
  OBVIOUS
<1> QED BY <1>1, <1>3, <1>4

(* The property's own way to write the sum of a product's units.              *)
Units(p) == [o \in Order |-> Cart[o][p]]
UnitsStep(sums, p, s) ==
  IF s = {} THEN 0 ELSE Cart[Chosen(s)][p] + sums[s \ {Chosen(s)}]

LEMMA UnitsSum ==
  ASSUME NEW S \in SUBSET Order, IsFiniteSet(S), NEW p \in Product
  PROVE  MapThenSumSet(LAMBDA o : Cart[o][p], S) = SumOf(Units(p), S)
<1> DEFINE w == Units(p)
           f == CHOOSE sums : sums = [s \in SUBSET S |-> UnitsStep(sums, p, s)]
<1>1. \A o \in S : w[o] \in Int
  BY LinesAreProducts DEF Units
<1>2. PICK g \in [SUBSET S -> Int] : SumTable(g, w, S) /\ SumOf(w, S) = g[S]
  BY <1>1, SumSolved
<1>3. ASSUME NEW s \in SUBSET S, s # {} PROVE w[Chosen(s)] = Cart[Chosen(s)][p]
  BY <1>3, ChosenIsMember DEF Units
<1> HIDE DEF w
<1>4. ASSUME NEW sums, NEW s \in SUBSET S
      PROVE  UnitsStep(sums, p, s) = SumStep(sums, w, s)
  BY <1>3 DEF UnitsStep, SumStep
<1>5. ASSUME NEW sums
      PROVE  [s \in SUBSET S |-> UnitsStep(sums, p, s)]
               = [s \in SUBSET S |-> SumStep(sums, w, s)]
  BY <1>4
<1>6. g = [s \in SUBSET S |-> UnitsStep(g, p, s)]
  BY <1>2, <1>5 DEF SumTable
<1>7. f = [s \in SUBSET S |-> UnitsStep(f, p, s)]
  BY <1>6
<1>8. MapThenSumSet(LAMBDA o : Cart[o][p], S) = f[S]
  BY Zenon DEF MapThenSumSet, MapThenFoldSet, UnitsStep, Chosen
<1> HIDE DEF f
<1>9. SumTable(f, w, S)
  BY <1>5, <1>7 DEF SumTable
<1>10. f[S] = g[S]
  BY <1>1, <1>2, <1>9, SumsAgree
<1> QED BY <1>2, <1>8, <1>10 DEF w

------------------------------------------------------------------------------
(* Requests and the orders they are about.                                    *)
Busy(c) == call[c] # Idle

LEMMA BusyByOp ==
  ASSUME NEW c \in Slot
  PROVE  call[c].op # Idle.op => Busy(c)
BY DEF Busy

LEMMA BusyHasOrder ==
  ASSUME TypeOK, NEW c \in Slot, Busy(c)
  PROVE  call[c].order \in Order
<1>1. call[c] \in Call /\ call[c] # Idle
  BY DEF TypeOK, Busy
<1> QED BY <1>1 DEF Call, CreateCall, CancelCall, VerbCall, PayCall,
                    NotifyCall, AssignCall, ActCall, FloorCall

LEMMA ContinueIsBusy ==
  ASSUME NEW c \in Slot, Continue(c)
  PROVE  Busy(c)
<1>1. call[c].op # Idle.op
  BY DEF Continue, Idle, CreateCommit, CancelCommit, VerbCommit, AssignWrite,
         ActUpdate, ActDerive, ActCommit, PayWrite, PayConfirm, StripeSettle,
         NotifyWrite, NotifyConfirm, NotifyFinish
<1> QED BY <1>1, BusyByOp

(* A request starts, goes on or ends; the tables of the orders are left alone *)
(* unless one goes on.                                                        *)
LEMMA OthersLeaveOrders ==
  ASSUME [Next]_vars,
         ~ \E c \in Slot : Continue(c)
  PROVE  UNCHANGED <<orders, trail, tasks, payment>>
<1>1. ASSUME NEW c \in Slot, Accept(c)
      PROVE  UNCHANGED <<orders, trail, tasks, payment>>
  BY <1>1, Zenon
  DEF Accept, CreateRead, CancelRead, VerbRead, PayRead, StripeSucceeded,
      NotifyRecord, AssignRead, ActRead, orderTables, moneyTables
<1>2. ASSUME StockKeeping
      PROVE  UNCHANGED <<orders, trail, tasks, payment>>
  BY <1>2, Zenon
  DEF StockKeeping, Adjust, SetMinimum, EditSizes, orderTables, moneyTables
<1>3. ASSUME PayHere \/ Restart \/ UNCHANGED vars
      PROVE  UNCHANGED <<orders, trail, tasks, payment>>
  BY <1>3, Zenon
  DEF PayHere, Attempt, Restart, vars, orderTables, moneyTables
<1> QED BY <1>1, <1>2, <1>3, Zenon DEF Next

(* Four steps write a payment row, each its own order's.                      *)
PaysBy(c) ==
  CancelCommit(c) \/ PayWrite(c) \/ StripeSettle(c) \/ NotifyWrite(c)

LEMMA PayersPay ==
  ASSUME TypeOK, NEW c \in Slot, PaysBy(c)
  PROVE  /\ call[c].order \in Order
         /\ \A o \in Order : o # call[c].order =>
              /\ payment'[o] = payment[o] /\ dues'[o] = dues[o]
              /\ gateway'[o] = gateway[o]
<1>1. call[c].op \in {"cancel", "payhere", "installments", "cod", "mark",
                      "reject", "stripe", "notify"}
  BY Zenon DEF PaysBy, CancelCommit, PayWrite, StripeSettle, NotifyWrite
<1>2. call[c].order \in Order
  BY <1>1, CallByOp DEF TypeOK, CancelCall, PayCall, NotifyCall
<1>3. CASE CancelCommit(c)
  <2>1. /\ \/ payment' = payment
           \/ payment' = [payment EXCEPT ![call[c].order] =
                CancelledPayment(@, call[c].pay, call[c].partPaid)]
        /\ \/ dues' = dues
           \/ dues' = [dues EXCEPT ![call[c].order] =
                                     CancelledDues(@, call[c].pay)]
        /\ gateway' = gateway
    BY <1>3, Zenon DEF CancelCommit
  <2> QED BY <1>2, <2>1 DEF TypeOK
<1>4. CASE PayWrite(c) \/ StripeSettle(c) \/ NotifyWrite(c)
  <2>1. /\ \E row : payment' = [payment EXCEPT ![call[c].order] = row]
        /\ \E due : dues' = [dues EXCEPT ![call[c].order] = due]
                    \/ dues' = dues
        /\ \E row : gateway' = [gateway EXCEPT ![call[c].order] = row]
                    \/ gateway' = gateway
    BY <1>4 DEF PayWrite, StripeSettle, NotifyWrite
  <2> QED BY <1>2, <2>1 DEF TypeOK
<1> QED BY <1>2, <1>3, <1>4 DEF PaysBy

LEMMA OthersLeaveMoney ==
  ASSUME NEW c \in Slot, Continue(c), ~PaysBy(c)
  PROVE  UNCHANGED <<payment, dues, gateway>>
BY Zenon
DEF Continue, PaysBy, CreateCommit, VerbCommit, AssignWrite, ActUpdate,
    ActDerive, ActCommit, PayConfirm, NotifyConfirm, NotifyFinish, moneyTables

LEMMA PaidBySomebody ==
  ASSUME TypeOK, [Next]_vars, NEW o \in Order, payment'[o] # payment[o]
  PROVE  \E c \in Slot : PaysBy(c) /\ call[c].order = o
<1>1. PICK c \in Slot : Continue(c)
  BY OthersLeaveOrders
<1>2. PaysBy(c)
  BY <1>1, OthersLeaveMoney
<1> QED BY <1>1, <1>2, PayersPay

PaysOwn(c) ==
  \A o \in Order : payment'[o] # payment[o] => Busy(c) /\ call[c].order = o

LEMMA ContinuePaysOwn ==
  ASSUME TypeOK, NEW c \in Slot, Continue(c)
  PROVE  PaysOwn(c)
<1>1. CASE PaysBy(c)
  BY <1>1, PayersPay, ContinueIsBusy DEF PaysOwn
<1>2. CASE ~PaysBy(c)
  BY <1>2, OthersLeaveMoney DEF PaysOwn
<1> QED BY <1>1, <1>2

------------------------------------------------------------------------------
(* An order and its movements.  cancel is the one handler that decides how to *)
(* settle an order on a status it read before its transaction, so the rest    *)
(* supposes that while it runs, nothing else runs for its order; requests for *)
(* other orders may, and requests that do not cancel may for the same one.    *)
CancelsAlone ==
  \A c, d \in Slot :
    c # d /\ call[c].op = "cancel" /\ Busy(d) => call[d].order # call[c].order

(* What was reserved for an order is still reserved, or sold (OrderFits), or  *)
(* released, and what was sold is returned, if the order was cancelled.       *)
RowsFit(o) ==
  /\ rows[o]["RESERVE"] = IF orders[o] = "ABSENT" THEN 0 ELSE 1
  /\ IF orders[o] = "CANCELLED"
     THEN /\ rows[o]["RELEASE"] = 1 - rows[o]["SALE"]
          /\ rows[o]["ADJUSTMENT"] = rows[o]["SALE"]
     ELSE rows[o]["RELEASE"] = 0 /\ rows[o]["ADJUSTMENT"] = 0

(* What a request in flight knows: a cancellation, what it read of the order  *)
(* and its payment; who writes another status, that the order is alive.       *)
Informed(q) ==
  /\ q.op = "cancel" =>
       /\ q.saw = orders[q.order] /\ q.saw \in {"PENDING", "CONFIRMED"}
       /\ q.pay = payment[q.order]
  /\ q.op \in {"advance", "deliver"} => orders[q.order] \in Live
  /\ q.op = "floor" =>
       /\ q.saw # "CANCELLED" => orders[q.order] \in Live
       /\ q.target \notin {"NONE", "UNREAD"} =>
            q.saw # "CANCELLED" /\ q.target \in Live

Settles ==
  /\ \A o \in Order : RowsFit(o)
  /\ \A c \in Slot : Informed(call[c])

(* A step of a request that writes no order and no movement.                  *)
LEMMA QuietSettles ==
  ASSUME CancelsAlone, TypeOK, Settles, NEW c \in Slot, NEW q, Informed(q),
         call' = [call EXCEPT ![c] = q], UNCHANGED <<orders, rows>>,
         q.op = "cancel" => payment' = payment, PaysOwn(c)
  PROVE  Settles'
<1>1. \A d \in Slot : call'[d] = IF d = c THEN q ELSE call[d]
  BY DEF TypeOK
<1>2. \A o \in Order : RowsFit(o)'
  BY DEF Settles, RowsFit
<1>3. ASSUME NEW d \in Slot PROVE Informed(call[d])'
  <2>1. CASE d = c
    BY <1>1, <2>1 DEF Informed
  <2>2. CASE d # c
    <3>1. call'[d] = call[d] /\ Informed(call[d])
      BY <1>1, <2>2 DEF Settles
    <3>2. call[d].op = "cancel" =>
            payment'[call[d].order] = payment[call[d].order]
      <4>1. SUFFICES ASSUME call[d].op = "cancel"
                     PROVE  payment'[call[d].order] = payment[call[d].order]
        OBVIOUS
      <4>2. call[d].order \in Order
        BY <4>1, CallByOp DEF TypeOK, CancelCall
      <4>3. ~(Busy(c) /\ call[c].order = call[d].order)
        BY <2>2, <4>1 DEF CancelsAlone
      <4> QED BY <4>2, <4>3 DEF PaysOwn
    <3> QED BY <3>1, <3>2 DEF Informed
  <2> QED BY <2>1, <2>2
<1> QED BY <1>2, <1>3 DEF Settles

LEMMA PlainSettles ==
  ASSUME CancelsAlone, TypeOK, Settles, NEW c \in Slot, NEW q,
         q.op \notin ReadsBack, PaysOwn(c),
         call' = [call EXCEPT ![c] = q], UNCHANGED <<orders, rows>>
  PROVE  Settles'
<1>1. Informed(q) /\ q.op # "cancel"
  BY DEF Informed, ReadsBack
<1> QED BY <1>1, QuietSettles

(* A step that writes its order: a live one stays alive, or is cancelled.     *)
LEMMA WriteSettles ==
  ASSUME CancelsAlone, TypeOK, Settles, NEW c \in Slot, NEW q,
         q.op \notin ReadsBack, call' = [call EXCEPT ![c] = q],
         NEW o \in Order, Busy(c), o = call[c].order, PaysOwn(c),
         NEW s, orders' = [orders EXCEPT ![o] = s],
         \A x \in Order : x # o => rows'[x] = rows[x], RowsFit(o)',
         orders[o] \in Live => s \in Live \/ call[c].op = "cancel"
  PROVE  Settles'
<1>1. \A d \in Slot : call'[d] = IF d = c THEN q ELSE call[d]
  BY DEF TypeOK
<1>2. orders'[o] = s /\ \A x \in Order : x # o => orders'[x] = orders[x]
  BY DEF TypeOK
<1>3. ASSUME NEW x \in Order PROVE RowsFit(x)'
  BY <1>2 DEF Settles, RowsFit
<1>4. ASSUME NEW d \in Slot PROVE Informed(call[d])'
  <2>1. CASE d = c
    BY <1>1, <2>1 DEF Informed, ReadsBack
  <2>2. CASE d # c
    <3> DEFINE r == call[d]
    <3>1. call'[d] = r /\ Informed(r) /\ r \in Call
      BY <1>1, <2>2 DEF Settles, TypeOK
    <3>2. r.op \in {"cancel", "advance", "deliver", "floor"} =>
            r.order \in Order
      <4> HIDE DEF r
      <4> QED BY <3>1, CallByOp DEF CancelCall, VerbCall, FloorCall
    <3>3. r.op = "cancel" => r.order # o
      BY <2>2 DEF CancelsAlone
    <3>4. r.op \in {"advance", "deliver", "floor"} /\ r.order = o =>
            call[c].op # "cancel"
      <4>1. r.op \in {"advance", "deliver", "floor"} => Busy(d)
        BY BusyByOp DEF Idle
      <4> QED BY <2>2, <4>1 DEF CancelsAlone
    <3> HIDE DEF r
    <3>5. r.op = "cancel" => /\ orders'[r.order] = orders[r.order]
                             /\ payment'[r.order] = payment[r.order]
      BY <1>2, <3>2, <3>3 DEF PaysOwn
    <3>6. /\ r.op \in {"advance", "deliver", "floor"}
          /\ orders[r.order] \in Live
          => orders'[r.order] \in Live
      BY <1>2, <3>2, <3>4
    <3> QED BY <3>1, <3>5, <3>6 DEF Informed
  <2> QED BY <2>1, <2>2
<1> QED BY <1>3, <1>4 DEF Settles

------------------------------------------------------------------------------
(* The units reserved are those of the pending orders, of which there are     *)
(* finitely many although any number may be placed.                           *)
Pending == {o \in Order : orders[o] = "PENDING"}
Backed ==
  /\ IsFiniteSet(Pending)
  /\ \A p \in Product : stock[p].reserved = SumOf(Units(p), Pending)

LEMMA UnitsAreIntegers ==
  \A p \in Product : \A o \in Order :
    Units(p)[o] = Cart[o][p] /\ Units(p)[o] \in Int
BY LinesAreProducts DEF Units

LEMMA BackedStays ==
  ASSUME Backed, Pending' = Pending,
         \A p \in Product : stock'[p].reserved = stock[p].reserved
  PROVE  Backed'
BY DEF Backed

(* Another order waits.                                                       *)
LEMMA BackedGrows ==
  ASSUME TypeOK, Backed, NEW o \in Order, orders[o] # "PENDING",
         orders' = [orders EXCEPT ![o] = "PENDING"],
         \A p \in Product : stock'[p].reserved = stock[p].reserved + Cart[o][p]
  PROVE  Backed'
<1>1. PICK old, new : old = Pending /\ new = Pending'
  OBVIOUS
<1>2. /\ new = old \cup {o} /\ o \notin old /\ new \ {o} = old
      /\ new \subseteq Order /\ IsFiniteSet(old)
  BY <1>1 DEF Pending, TypeOK, Backed
<1>3. IsFiniteSet(new)
  BY <1>2, FS_AddElement
<1>4. ASSUME NEW p \in Product PROVE stock'[p].reserved = SumOf(Units(p), new)
  <2>0. SumOf(Units(p), new) = Units(p)[o] + SumOf(Units(p), new \ {o})
    BY <1>2, <1>3, UnitsAreIntegers, SumOfWithout
  <2>1. SumOf(Units(p), new) = Units(p)[o] + SumOf(Units(p), old)
    BY <1>2, <2>0, Zenon
  <2>2. SumOf(Units(p), old) \in Int
    BY <1>2, UnitsAreIntegers, SumOfType
  <2>3. stock[p].reserved = SumOf(Units(p), old)
    BY <1>1 DEF Backed
  <2>4. Units(p)[o] = Cart[o][p] /\ Cart[o][p] \in Int
    BY UnitsAreIntegers
  <2>5. stock'[p].reserved = stock[p].reserved + Cart[o][p]
    OBVIOUS
  <2> QED BY <2>1, <2>2, <2>3, <2>4, <2>5
<1> QED BY <1>1, <1>3, <1>4 DEF Backed

(* A pending order is settled.                                                *)
LEMMA BackedShrinks ==
  ASSUME TypeOK, Backed, NEW o \in Order, orders[o] = "PENDING",
         NEW s, s # "PENDING", orders' = [orders EXCEPT ![o] = s],
         \A p \in Product : stock'[p].reserved = stock[p].reserved - Cart[o][p]
  PROVE  Backed'
<1>1. PICK old, new : old = Pending /\ new = Pending'
  OBVIOUS
<1>2. /\ new = old \ {o} /\ o \in old /\ old \subseteq Order
      /\ IsFiniteSet(old)
  BY <1>1 DEF Pending, TypeOK, Backed
<1>3. IsFiniteSet(new)
  BY <1>2, FS_RemoveElement
<1>4. ASSUME NEW p \in Product PROVE stock'[p].reserved = SumOf(Units(p), new)
  <2>1. SumOf(Units(p), old) = Units(p)[o] + SumOf(Units(p), old \ {o})
    BY <1>2, UnitsAreIntegers, SumOfWithout
  <2>2. SumOf(Units(p), new) \in Int
    BY <1>2, <1>3, UnitsAreIntegers, SumOfType
  <2>3. stock[p].reserved = SumOf(Units(p), old)
    BY <1>1 DEF Backed
  <2>4. Units(p)[o] = Cart[o][p] /\ Cart[o][p] \in Int
    BY UnitsAreIntegers
  <2> QED BY <1>2, <2>1, <2>2, <2>3, <2>4
<1> QED BY <1>1, <1>3, <1>4 DEF Backed

(* So there are always enough units reserved to sell or release an order.     *)
LEMMA PendingIsCovered ==
  ASSUME TypeOK, Backed, NEW o \in Order, orders[o] = "PENDING",
         NEW p \in Product
  PROVE  Cart[o][p] <= stock[p].reserved
<1> DEFINE rest == Pending \ {o}
<1>1. o \in Pending /\ Pending \subseteq Order /\ IsFiniteSet(Pending)
  BY DEF Pending, Backed
<1>2. IsFiniteSet(rest) /\ \A x \in rest : Units(p)[x] \in Nat
  BY <1>1, FS_RemoveElement, LinesAreProducts DEF Units
<1>3. SumOf(Units(p), Pending) = Units(p)[o] + SumOf(Units(p), rest)
  BY <1>1, UnitsAreIntegers, SumOfWithout
<1> HIDE DEF rest
<1>4. SumOf(Units(p), rest) \in Nat
  BY <1>2, SumOfNaturals
<1>5. Units(p)[o] = Cart[o][p] /\ Cart[o][p] \in Int
  BY UnitsAreIntegers
<1>6. stock[p].reserved = SumOf(Units(p), Pending)
  BY DEF Backed
<1> QED BY <1>3, <1>4, <1>5, <1>6

------------------------------------------------------------------------------
(* Seen as Reservations: the shelf is what is available, and an order holds   *)
(* what its status says.                                                      *)
Holding == [o \in Order |-> Standing(orders[o])]
Shelf == [p \in Product |-> stock[p].available]

LEMMA HeldIsReserved ==
  ASSUME TypeOK, Backed, NEW p \in Product
  PROVE  Reserving!Held(p) = stock[p].reserved
<1>1. {o \in Order : Holding[o] = "HELD"} = Pending
  BY DEF Holding, Standing, Pending
<1>2. PICK S \in SUBSET Order : S = Pending /\ IsFiniteSet(S)
  BY DEF Pending, Backed
<1>3. MapThenSumSet(LAMBDA o : Cart[o][p], S) = SumOf(Units(p), S)
  BY <1>2, UnitsSum
<1>4. Reserving!Held(p) = MapThenSumSet(LAMBDA o : Cart[o][p], S)
  BY <1>1, <1>2, Zenon
  DEF Reserving!Held, Holding, MapThenSumSet, MapThenFoldSet,
      Reserving!MapThenSumSet, Reserving!MapThenFoldSet
<1> QED BY <1>2, <1>3, <1>4 DEF Backed

(* One order moves on, and with it the units the shelf says.                  *)
LEMMA OneOrderMoves ==
  ASSUME TypeOK, NEW o \in Order, NEW s, orders' = [orders EXCEPT ![o] = s]
  PROVE  Holding' = [Holding EXCEPT ![o] = Standing(s)]
<1>1. \A x \in Order : orders'[x] = IF x = o THEN s ELSE orders[x]
  BY DEF TypeOK
<1>2. ASSUME NEW x \in Order
      PROVE  Standing(orders'[x]) = IF x = o THEN Standing(s)
                                             ELSE Standing(orders[x])
  <2>1. PICK t, u : t = orders'[x] /\ u = orders[x]
    OBVIOUS
  <2>2. t = IF x = o THEN s ELSE u
    BY <1>1, <2>1
  <2>3. Standing(t) = IF x = o THEN Standing(s) ELSE Standing(u)
    BY <2>2
  <2> QED BY <2>1, <2>3
<1> QED BY <1>2 DEF Holding

LEMMA Holds ==
  ASSUME TypeOK, TypeOK', Backed, NEW o \in Order, orders[o] = "ABSENT",
         orders' = [orders EXCEPT ![o] = "PENDING"],
         \A p \in Product :
           /\ Cart[o][p] <= stock[p].available - stock[p].reserved
           /\ Shifts(stock[p], stock'[p], -Cart[o][p], Cart[o][p])
  PROVE  Reserving!Hold(o)
<1>1. Holding[o] = "NOTHING" /\ Standing("PENDING") = "HELD"
  BY DEF Holding, Standing
<1>2. Holding' = [Holding EXCEPT ![o] = "HELD"]
  BY <1>1, OneOrderMoves
<1>3. ASSUME NEW p \in Product
      PROVE  /\ stock'[p].available = stock[p].available
             /\ Cart[o][p] <= Shelf[p] - Reserving!Held(p)
  <2>1. /\ stock[p].available \in Int /\ stock[p].reserved \in Int
        /\ stock'[p].available \in Int /\ Cart[o][p] \in Int
    BY LinesAreProducts DEF TypeOK, StockRow
  <2>2. Reserving!Held(p) = stock[p].reserved
    BY HeldIsReserved
  <2>3. Shelf[p] = stock[p].available
    BY DEF Shelf
  <2>4. /\ Cart[o][p] <= stock[p].available - stock[p].reserved
        /\ Shifts(stock[p], stock'[p], -Cart[o][p], Cart[o][p])
    OBVIOUS
  <2>5. stock'[p].available = stock[p].available
    BY <2>1, <2>4 DEF Shifts
  <2> QED BY <2>2, <2>3, <2>4, <2>5
<1>4. Shelf' = Shelf
  BY <1>3 DEF Shelf
<1> QED BY <1>1, <1>2, <1>3, <1>4
        DEF Reserving!Hold, Reserving!Becomes, Reserving!Free, Holding, Shelf

(* What is available of a product moves by what is free and what is held.     *)
LEMMA AvailableMoves ==
  ASSUME TypeOK, TypeOK', NEW p \in Product, NEW o \in Order
  PROVE  /\ Shifts(stock[p], stock'[p], 0, -Cart[o][p]) =>
              stock'[p].available = stock[p].available - Cart[o][p]
         /\ Shifts(stock[p], stock'[p], Cart[o][p], -Cart[o][p]) =>
              stock'[p].available = stock[p].available
         /\ Shifts(stock[p], stock'[p], Cart[o][p], 0) =>
              stock'[p].available = stock[p].available + Cart[o][p]
<1>1. /\ stock[p].available \in Int /\ stock[p].reserved \in Int
      /\ stock'[p].available \in Int /\ stock'[p].reserved \in Int
      /\ Cart[o][p] \in Int
  BY LinesAreProducts DEF TypeOK, StockRow
<1> QED BY <1>1 DEF Shifts

LEMMA Sells ==
  ASSUME TypeOK, TypeOK', NEW o \in Order, orders[o] = "PENDING",
         NEW s \in Live, orders' = [orders EXCEPT ![o] = s],
         \A p \in Product : Shifts(stock[p], stock'[p], 0, -Cart[o][p])
  PROVE  Reserving!Sell(o)
<1>1. Holding[o] = "HELD" /\ Standing(s) = "SOLD"
  BY DEF Holding, Standing, Live, OrderStatus
<1>2. Holding' = [Holding EXCEPT ![o] = "SOLD"]
  BY <1>1, OneOrderMoves
<1>3. Shelf' = [p \in Product |-> Shelf[p] - Cart[o][p]]
  BY AvailableMoves DEF Shelf
<1> QED BY <1>1, <1>2, <1>3
        DEF Reserving!Sell, Reserving!Becomes, Holding, Shelf

LEMMA ReleasesHeld ==
  ASSUME TypeOK, TypeOK', NEW o \in Order, orders[o] = "PENDING",
         orders' = [orders EXCEPT ![o] = "CANCELLED"],
         \A p \in Product :
           Shifts(stock[p], stock'[p], Cart[o][p], -Cart[o][p])
  PROVE  Reserving!Release(o)
<1>1. Holding[o] = "HELD" /\ Standing("CANCELLED") = "BACK"
  BY DEF Holding, Standing
<1>2. Holding' = [Holding EXCEPT ![o] = "BACK"]
  BY <1>1, OneOrderMoves
<1>3. Shelf' = Shelf
  BY AvailableMoves DEF Shelf
<1> QED BY <1>1, <1>2, <1>3
        DEF Reserving!Release, Reserving!Becomes, Holding, Shelf

LEMMA ReturnsSold ==
  ASSUME TypeOK, TypeOK', NEW o \in Order, orders[o] \in Live,
         orders' = [orders EXCEPT ![o] = "CANCELLED"],
         \A p \in Product : Shifts(stock[p], stock'[p], Cart[o][p], 0)
  PROVE  Reserving!Return(o)
<1>1. Holding[o] = "SOLD" /\ Standing("CANCELLED") = "BACK"
  BY DEF Holding, Standing, Live, OrderStatus
<1>2. Holding' = [Holding EXCEPT ![o] = "BACK"]
  BY <1>1, OneOrderMoves
<1>3. Shelf' = [p \in Product |-> Shelf[p] + Cart[o][p]]
  BY AvailableMoves DEF Shelf
<1> QED BY <1>1, <1>2, <1>3
        DEF Reserving!Return, Reserving!Becomes, Holding, Shelf

(* Neither a sold order that moves on nor a step that leaves the orders alone *)
(* is seen, if the stock is left alone too.                                   *)
LEMMA StaysSold ==
  ASSUME TypeOK, NEW o \in Order, orders[o] \in Live, NEW s \in Live,
         orders' = [orders EXCEPT ![o] = s], UNCHANGED stock
  PROVE  UNCHANGED Reserving!vars
<1>1. Holding[o] = "SOLD" /\ Standing(s) = "SOLD"
  BY DEF Holding, Standing, Live, OrderStatus
<1>2. Holding' = [Holding EXCEPT ![o] = "SOLD"]
  BY <1>1, OneOrderMoves
<1>3. Holding' = Holding
  BY <1>1, <1>2 DEF Holding
<1>4. Shelf' = Shelf
  BY DEF Shelf
<1> QED BY <1>3, <1>4 DEF Reserving!vars, Holding, Shelf

LEMMA NotSeen ==
  ASSUME UNCHANGED orders,
         \A p \in Product : stock'[p].available = stock[p].available
  PROVE  UNCHANGED Reserving!vars
BY DEF Reserving!vars

(* A correction of one product, as StockPromise sees it, is one here as well. *)
LEMMA Recounts ==
  ASSUME TypeOK, TypeOK', StockFloor, Backed, NEW p \in Product,
         Promises!Recount(p), UNCHANGED orders
  PROVE  /\ Reserving!Recount(p)
         /\ \A q \in Product : stock'[q].reserved = stock[q].reserved
<1> DEFINE free == [q \in Product |-> stock[q].available - stock[q].reserved]
           held == [q \in Product |-> stock[q].reserved]
<1>1. /\ free'[p] \in Nat /\ held' = held
      /\ free' = [free EXCEPT ![p] = free'[p]]
  BY DEF Promises!Recount
<1>2. \A q \in Product : stock'[q].reserved = stock[q].reserved
  <2>1. ASSUME NEW q \in Product PROVE held'[q] = held[q]
    BY <1>1
  <2> QED BY <2>1
<1>3. \A q \in Product \ {p} : free'[q] = free[q]
  BY <1>1
<1>4. \A q \in Product :
        /\ stock[q].available \in Int /\ stock[q].reserved \in Int
        /\ stock'[q].available \in Int
        /\ free[q] = stock[q].available - stock[q].reserved
        /\ free'[q] = stock'[q].available - stock'[q].reserved
  BY DEF TypeOK, StockRow
<1> HIDE DEF free, held
<1>5. /\ stock'[p].available >= stock[p].reserved
      /\ \A q \in Product \ {p} : stock'[q].available = stock[q].available
  BY <1>1, <1>2, <1>3, <1>4
<1>6. stock[p].reserved = Reserving!Held(p)
  BY HeldIsReserved
<1>7. stock'[p].available \in Nat
  BY <1>4, <1>5 DEF StockFloor, Check
<1>8. Shelf' = [Shelf EXCEPT ![p] = stock'[p].available]
  BY <1>5 DEF Shelf
<1>9. Shelf'[p] = stock'[p].available /\ Holding' = Holding
  BY DEF Shelf, Holding
<1>10. Reserving!Recount(p)
  BY <1>5, <1>6, <1>7, <1>8, <1>9 DEF Reserving!Recount, Shelf, Holding
<1> QED BY <1>2, <1>10

------------------------------------------------------------------------------
(* The steps.                                                                 *)
OrderInv == IInv /\ StockFloor /\ Deducts /\ Settles /\ Backed
OrderStep == Settles' /\ Backed' /\ [Reserving!Next]_Reserving!vars

(* A movement row more.                                                       *)
LEMMA OneMoreRow ==
  ASSUME TypeOK, NEW o \in Order,
         NEW type \in {"RESERVE", "SALE", "RELEASE", "ADJUSTMENT"}
  PROVE  /\ \A x \in Order : x # o => Counted(o, type)[x] = rows[x]
         /\ Counted(o, type)[o][type] = rows[o][type] + 1
         /\ \A other \in {"RESERVE", "SALE", "RELEASE", "ADJUSTMENT"} :
              other # type => Counted(o, type)[o][other] = rows[o][other]
BY DEF TypeOK, Counted

LEMMA OrdersStay ==
  ASSUME Backed, Settles', UNCHANGED <<stock, orders>>
  PROVE  OrderStep
<1>1. Backed'
  BY BackedStays DEF Pending
<1>2. UNCHANGED Reserving!vars
  BY NotSeen
<1> QED BY <1>1, <1>2 DEF OrderStep

LEMMA CreateOrders ==
  ASSUME CancelsAlone, OrderInv, TypeOK', NEW c \in Slot, CreateCommit(c),
         PaysOwn(c)
  PROVE  OrderStep
<1>1. call[c].op = "create" /\ call' = [call EXCEPT ![c] = Idle]
  BY Zenon DEF CreateCommit
<1>2. PICK o \in Order : o = call[c].order
  BY <1>1, CallByOp DEF OrderInv, IInv, TypeOK, CreateCall
<1>3. orders[o] = "ABSENT"
  BY <1>1, <1>2 DEF OrderInv, Deducts, CallFits
<1> DEFINE q == Idle
<1>4. q.op \notin ReadsBack /\ call' = [call EXCEPT ![c] = q]
  BY <1>1, IdlePlain
<1> HIDE DEF q
<1>5. CASE /\ \A p \in Product :
                /\ Cart[o][p] <= stock[p].available - stock[p].reserved
                /\ Shifts(stock[p], stock'[p], -Cart[o][p], Cart[o][p])
           /\ orders' = [orders EXCEPT ![o] = "PENDING"]
           /\ rows' = Counted(o, "RESERVE")
  <2>1. RowsFit(o)
    BY DEF OrderInv, Settles
  <2>2. orders'[o] = "PENDING"
    BY <1>5 DEF OrderInv, IInv, TypeOK
  <2>3. /\ \A x \in Order : x # o => rows'[x] = rows[x]
        /\ rows'[o]["RESERVE"] = rows[o]["RESERVE"] + 1
        /\ \A other \in {"SALE", "RELEASE", "ADJUSTMENT"} :
             rows'[o][other] = rows[o][other]
    BY <1>5, OneMoreRow DEF OrderInv, IInv
  <2>4. RowsFit(o)'
    BY <1>3, <2>1, <2>2, <2>3 DEF RowsFit
  <2>5. orders[o] \notin Live /\ Busy(c)
    BY <1>1, <1>3, BusyByOp DEF Live, OrderStatus, Idle
  <2>6. Settles'
    BY <1>2, <1>4, <1>5, <2>3, <2>4, <2>5, WriteSettles DEF OrderInv, IInv
  <2>7. Backed'
    <3>1. \A p \in Product : stock'[p].reserved = stock[p].reserved + Cart[o][p]
      BY <1>5 DEF Shifts
    <3> QED BY <1>3, <1>5, <3>1, BackedGrows DEF OrderInv, IInv
  <2>8. Reserving!Hold(o)
    BY <1>3, <1>5, Holds DEF OrderInv, IInv
  <2> QED BY <2>6, <2>7, <2>8 DEF OrderStep, Reserving!Next
<1>6. CASE UNCHANGED <<stock, orders, trail, rows>>
  <2>1. Settles'
    BY <1>4, <1>6, PlainSettles DEF OrderInv, IInv
  <2> QED BY <1>6, <2>1, OrdersStay DEF OrderInv
<1> QED BY <1>2, <1>5, <1>6, CreateMoves DEF OrderInv, IInv

LEMMA CancelOrders ==
  ASSUME CancelsAlone, OrderInv, TypeOK', NEW c \in Slot, CancelCommit(c),
         PaysOwn(c)
  PROVE  OrderStep
<1>1. call[c].op = "cancel" /\ call' = [call EXCEPT ![c] = Idle]
  BY Zenon DEF CancelCommit
<1>2. PICK o \in Order : o = call[c].order
  BY <1>1, CallByOp DEF OrderInv, IInv, TypeOK, CancelCall
<1>3. /\ call[c].saw = orders[o] /\ orders[o] \in {"PENDING", "CONFIRMED"}
      /\ Busy(c)
  BY <1>1, <1>2, BusyByOp DEF OrderInv, Settles, Informed, Idle
<1> DEFINE q == Idle
<1>4. q.op \notin ReadsBack /\ call' = [call EXCEPT ![c] = q]
  BY <1>1, IdlePlain
<1> HIDE DEF q
<1>5. RowsFit(o) /\ OrderFits(o) /\ rows[o]["SALE"] \in Nat
  BY DEF OrderInv, Settles, Deducts, IInv, TypeOK
<1>6. ASSUME NEW type \in {"RELEASE", "ADJUSTMENT"}, rows' = Counted(o, type),
             orders' = [orders EXCEPT ![o] = "CANCELLED"],
             type = "RELEASE" <=> orders[o] = "PENDING"
      PROVE  Settles'
  <2>1. orders'[o] = "CANCELLED"
    BY <1>6 DEF OrderInv, IInv, TypeOK
  <2>2. /\ \A x \in Order : x # o => rows'[x] = rows[x]
        /\ rows'[o][type] = rows[o][type] + 1
        /\ \A other \in {"RESERVE", "SALE", "RELEASE", "ADJUSTMENT"} :
             other # type => rows'[o][other] = rows[o][other]
    BY <1>6, OneMoreRow DEF OrderInv, IInv
  <2>3. RowsFit(o)'
    <3>1. CASE type = "RELEASE"
      <4>1. rows[o]["SALE"] = 0
        BY <1>5, <1>6, <3>1 DEF OrderFits, Sold
      <4> QED BY <1>3, <1>5, <2>1, <2>2, <3>1, <4>1 DEF RowsFit
    <3>2. CASE type = "ADJUSTMENT"
      <4>1. rows[o]["SALE"] = 1
        BY <1>3, <1>5, <1>6, <3>2 DEF OrderFits, Sold, Live, OrderStatus
      <4> QED BY <1>3, <1>5, <2>1, <2>2, <3>2, <4>1 DEF RowsFit
    <3> QED BY <3>1, <3>2
  <2> QED BY <1>1, <1>2, <1>3, <1>4, <1>6, <2>2, <2>3, WriteSettles
          DEF OrderInv, IInv
<1>7. CASE /\ Releases(call[c].saw)
           /\ \A p \in Product :
                /\ Cart[o][p] <= stock[p].reserved
                /\ Shifts(stock[p], stock'[p], Cart[o][p], -Cart[o][p])
           /\ orders' = [orders EXCEPT ![o] = "CANCELLED"]
           /\ rows' = Counted(o, "RELEASE")
  <2>1. orders[o] = "PENDING"
    BY <1>3, <1>7 DEF Releases
  <2>2. \A p \in Product : stock'[p].reserved = stock[p].reserved - Cart[o][p]
    <3>1. ASSUME NEW p \in Product
          PROVE  stock'[p].reserved = stock[p].reserved - Cart[o][p]
      <4>1. stock[p].reserved \in Int /\ Cart[o][p] \in Int
        BY LinesAreProducts DEF OrderInv, IInv, TypeOK, StockRow
      <4> QED BY <1>7, <4>1 DEF Shifts
    <3> QED BY <3>1
  <2>3. Backed'
    BY <1>7, <2>1, <2>2, BackedShrinks DEF OrderInv, IInv
  <2>4. Reserving!Release(o)
    BY <1>7, <2>1, ReleasesHeld DEF OrderInv, IInv
  <2> QED BY <1>6, <1>7, <2>1, <2>3, <2>4 DEF OrderStep, Reserving!Next
<1>8. CASE /\ ~Releases(call[c].saw)
           /\ \A p \in Product : Shifts(stock[p], stock'[p], Cart[o][p], 0)
           /\ orders' = [orders EXCEPT ![o] = "CANCELLED"]
           /\ rows' = Counted(o, "ADJUSTMENT")
  <2>1. orders[o] = "CONFIRMED"
    BY <1>3, <1>8 DEF Releases
  <2>2. \A p \in Product : stock'[p].reserved = stock[p].reserved
    <3>1. ASSUME NEW p \in Product
          PROVE  stock'[p].reserved = stock[p].reserved
      <4>1. stock[p].reserved \in Int
        BY DEF OrderInv, IInv, TypeOK, StockRow
      <4> QED BY <1>8, <4>1 DEF Shifts
    <3> QED BY <3>1
  <2>3. Pending' = Pending
    BY <1>8, <2>1 DEF Pending, OrderInv, IInv, TypeOK
  <2>4. Backed'
    BY <2>2, <2>3, BackedStays DEF OrderInv
  <2>5. Reserving!Return(o)
    BY <1>8, <2>1, ReturnsSold DEF OrderInv, IInv, Live, OrderStatus
  <2> QED BY <1>6, <1>8, <2>1, <2>4, <2>5 DEF OrderStep, Reserving!Next
<1>9. CASE UNCHANGED <<stock, orders, trail, rows, payment, dues>>
  <2>1. Settles'
    BY <1>4, <1>9, PlainSettles DEF OrderInv, IInv
  <2> QED BY <1>9, <2>1, OrdersStay DEF OrderInv
<1> QED BY <1>2, <1>7, <1>8, <1>9, CancelMoves DEF OrderInv, IInv

LEMMA ConfirmOrders ==
  ASSUME CancelsAlone, OrderInv, TypeOK', NEW c \in Slot, NEW o \in Order,
         Busy(c), o = call[c].order, PaysOwn(c), ConfirmOrder(o),
         NEW q, q.op \notin ReadsBack, call' = [call EXCEPT ![c] = q]
  PROVE  OrderStep /\ (orders[o] = "PENDING" => orders'[o] = "CONFIRMED")
<1>1. CASE /\ Confirmable(o)
           /\ \A p \in Product :
                /\ Cart[o][p] <= stock[p].reserved
                /\ Shifts(stock[p], stock'[p], 0, -Cart[o][p])
           /\ orders' = [orders EXCEPT ![o] = "CONFIRMED"]
           /\ rows' = Counted(o, "SALE")
  <2>1. orders[o] = "PENDING" /\ orders'[o] = "CONFIRMED"
    BY <1>1 DEF Confirmable, OrderInv, IInv, TypeOK
  <2>2. /\ \A x \in Order : x # o => rows'[x] = rows[x]
        /\ \A other \in {"RESERVE", "RELEASE", "ADJUSTMENT"} :
             rows'[o][other] = rows[o][other]
    BY <1>1, OneMoreRow DEF OrderInv, IInv
  <2>3. RowsFit(o)'
    BY <2>1, <2>2 DEF RowsFit, OrderInv, Settles
  <2>4. "CONFIRMED" \in Live
    BY DEF Live, OrderStatus
  <2>5. Settles'
    BY <1>1, <2>2, <2>3, <2>4, WriteSettles DEF OrderInv, IInv
  <2>6. \A p \in Product : stock'[p].reserved = stock[p].reserved - Cart[o][p]
    <3>1. ASSUME NEW p \in Product
          PROVE  stock'[p].reserved = stock[p].reserved - Cart[o][p]
      <4>1. stock[p].reserved \in Int /\ Cart[o][p] \in Int
        BY LinesAreProducts DEF OrderInv, IInv, TypeOK, StockRow
      <4> QED BY <1>1, <4>1 DEF Shifts
    <3> QED BY <3>1
  <2>7. Backed'
    BY <1>1, <2>1, <2>6, BackedShrinks DEF OrderInv, IInv
  <2>8. Reserving!Sell(o)
    BY <1>1, <2>1, <2>4, Sells DEF OrderInv, IInv
  <2> QED BY <2>1, <2>5, <2>7, <2>8 DEF OrderStep, Reserving!Next
<1>2. CASE /\ \/ ~Confirmable(o)
              \/ \E p \in Lines(o) : stock[p].reserved < Cart[o][p]
           /\ UNCHANGED <<stock, orders, trail, rows, tasks>>
  <2>1. Settles'
    BY <1>2, PlainSettles DEF OrderInv, IInv
  <2>2. orders[o] # "PENDING"
    <3>1. SUFFICES ASSUME orders[o] = "PENDING" PROVE FALSE
      OBVIOUS
    <3>2. PICK p \in Lines(o) : stock[p].reserved < Cart[o][p]
      BY <1>2, <3>1 DEF Confirmable
    <3>3. p \in Product /\ stock[p].reserved \in Int /\ Cart[o][p] \in Int
      BY LinesAreProducts DEF OrderInv, IInv, TypeOK, StockRow, Lines
    <3>4. Cart[o][p] <= stock[p].reserved
      BY <3>1, <3>3, PendingIsCovered DEF OrderInv, IInv
    <3> QED BY <3>2, <3>3, <3>4
  <2> QED BY <1>2, <2>1, <2>2, OrdersStay DEF OrderInv
<1> QED BY <1>1, <1>2, ConfirmMoves DEF OrderInv, IInv

(* The status of a sold order is written by id.                               *)
LEMMA AliveOrders ==
  ASSUME CancelsAlone, OrderInv, NEW c \in Slot, NEW o \in Order, Busy(c),
         o = call[c].order, PaysOwn(c), NEW s \in Live,
         orders[o] \in Live, orders' = [orders EXCEPT ![o] = s],
         UNCHANGED <<stock, rows>>, call' = [call EXCEPT ![c] = Idle]
  PROVE  OrderStep
<1> DEFINE q == Idle
<1>1. q.op \notin ReadsBack /\ call' = [call EXCEPT ![c] = q]
  BY IdlePlain
<1> HIDE DEF q
<1>2. orders'[o] = s /\ \A x \in Order : x # o => orders'[x] = orders[x]
  BY DEF OrderInv, IInv, TypeOK
<1>3. RowsFit(o)'
  BY <1>2 DEF OrderInv, Settles, RowsFit, Live, OrderStatus
<1>4. Settles'
  BY <1>1, <1>3, WriteSettles DEF OrderInv, IInv, Live
<1>5. Pending' = Pending
  BY <1>2 DEF Pending, Live
<1>6. Backed'
  BY <1>5, BackedStays DEF OrderInv
<1>7. UNCHANGED Reserving!vars
  BY StaysSold DEF OrderInv, IInv
<1> QED BY <1>4, <1>6, <1>7 DEF OrderStep

LEMMA VerbOrders ==
  ASSUME CancelsAlone, OrderInv, NEW c \in Slot, VerbCommit(c),
         PaysOwn(c)
  PROVE  OrderStep
<1> DEFINE to == IF call[c].op = "advance" THEN "COMPLETED" ELSE "DELIVERED"
<1>1. call[c].op \in {"advance", "deliver"}
  BY DEF VerbCommit
<1>2. PICK o \in Order : o = call[c].order
  BY <1>1, CallByOp DEF OrderInv, IInv, TypeOK, VerbCall
<1>3. /\ call' = [call EXCEPT ![c] = Idle]
      /\ orders' = [orders EXCEPT ![o] = to] /\ UNCHANGED <<stock, rows>>
  BY <1>2 DEF VerbCommit
<1>4. orders[o] \in Live
  BY <1>1, <1>2 DEF OrderInv, Settles, Informed
<1>5. to \in Live
  BY DEF Live, OrderStatus
<1> HIDE DEF to
<1>6. Busy(c)
  BY <1>1, BusyByOp DEF Idle
<1> QED BY <1>2, <1>3, <1>4, <1>5, <1>6, AliveOrders

LEMMA FloorOrders ==
  ASSUME CancelsAlone, OrderInv, NEW c \in Slot, ActCommit(c),
         PaysOwn(c)
  PROVE  OrderStep
<1>1. call[c].op = "floor"
  BY Zenon DEF ActCommit
<1>2. call[c] \in FloorCall
  BY <1>1, CallByOp DEF OrderInv, IInv, TypeOK
<1>3. PICK o \in Order, target \in OrderStatus \cup {"NONE", "UNREAD"} :
        o = call[c].order /\ target = call[c].target
  BY <1>2 DEF FloorCall
<1>4. /\ target # "UNREAD" /\ UNCHANGED <<stock, rows>>
      /\ call' = [call EXCEPT ![c] = Idle]
      /\ \/ target = "NONE" /\ orders' = orders
         \/ target # "NONE" /\ orders' = [orders EXCEPT ![o] = target]
  BY <1>3, Zenon DEF ActCommit
<1>5. CASE target = "NONE"
  <2> DEFINE q == Idle
  <2>1. q.op \notin ReadsBack /\ call' = [call EXCEPT ![c] = q]
    BY <1>4, IdlePlain
  <2> HIDE DEF q
  <2>2. Settles'
    BY <1>4, <1>5, <2>1, PlainSettles DEF OrderInv, IInv
  <2> QED BY <1>4, <1>5, <2>2, OrdersStay DEF OrderInv
<1>6. CASE target # "NONE"
  <2>1. Informed(call[c])
    BY DEF OrderInv, Settles
  <2>2. target \in Live /\ orders[o] \in Live
    BY <1>1, <1>3, <1>4, <1>6, <2>1 DEF Informed
  <2>3. Busy(c)
    BY <1>1, BusyByOp DEF Idle
  <2> QED BY <1>3, <1>4, <1>6, <2>2, <2>3, AliveOrders
<1> QED BY <1>5, <1>6

(* The other later steps write neither orders nor movements.                  *)
LEMMA QuietOrders ==
  ASSUME CancelsAlone, OrderInv, NEW c \in Slot, NEW q, Informed(q),
         q.op # "cancel", PaysOwn(c), call' = [call EXCEPT ![c] = q],
         UNCHANGED <<stock, orders, rows>>
  PROVE  OrderStep
<1>1. Settles'
  BY QuietSettles DEF OrderInv, IInv
<1> QED BY <1>1, OrdersStay DEF OrderInv

LEMMA PlainOrders ==
  ASSUME CancelsAlone, OrderInv, NEW c \in Slot, NEW q, q.op \notin ReadsBack,
         PaysOwn(c), call' = [call EXCEPT ![c] = q],
         UNCHANGED <<stock, orders, rows>>
  PROVE  OrderStep
<1>1. Informed(q) /\ q.op # "cancel"
  BY DEF Informed, ReadsBack
<1> QED BY <1>1, QuietOrders

LEMMA AcceptOrders ==
  ASSUME CancelsAlone, OrderInv, NEW c \in Slot, Accept(c)
  PROVE  OrderStep
<1>0. UNCHANGED <<stock, orders, rows, payment>>
  BY Zenon
  DEF Accept, CreateRead, CancelRead, VerbRead, PayRead, StripeSucceeded,
      NotifyRecord, AssignRead, ActRead, orderTables, moneyTables
<1>1. UNCHANGED <<stock, orders, rows>> /\ PaysOwn(c)
  BY <1>0 DEF PaysOwn
<1>2. ASSUME NEW o \in Order, CreateRead(c, o) PROVE OrderStep
  <2> DEFINE q == [op |-> "create", order |-> o,
                   sizes |-> [p \in Product |-> stock[p].sizes]]
  <2>1. /\ call' = [call EXCEPT ![c] = q]
        /\ Informed(q) /\ q.op # "cancel"
    BY <1>2 DEF CreateRead, Informed
  <2> HIDE DEF q
  <2> QED BY <1>1, <2>1, QuietOrders
<1>3. ASSUME NEW o \in Order, NEW actor, NEW ack, CancelRead(c, o, actor, ack)
      PROVE  OrderStep
  <2> DEFINE q == [op |-> "cancel", order |-> o, saw |-> orders[o],
                   pay |-> payment[o], partPaid |-> dues[o] = "COMPLETED"]
  <2>1. /\ call' = [call EXCEPT ![c] = q]
        /\ CanTransition(orders[o], "CANCELLED")
    BY <1>3 DEF CancelRead
  <2>2. orders[o] \in {"PENDING", "CONFIRMED"}
    BY <2>1 DEF CanTransition, Transitions
  <2>3. Informed(q)
    BY <2>2 DEF Informed
  <2> HIDE DEF q
  <2>4. Settles'
    BY <1>0, <1>1, <2>1, <2>3, QuietSettles DEF OrderInv, IInv
  <2> QED BY <1>1, <2>4, OrdersStay DEF OrderInv
<1>4. ASSUME NEW o \in Order, NEW verb \in {"advance", "deliver"},
             VerbRead(c, o, verb)
      PROVE  OrderStep
  <2> DEFINE q == [op |-> verb, order |-> o]
  <2>1. /\ call' = [call EXCEPT ![c] = q]
        /\ orders[o] \in {"CONFIRMED", "COMPLETED"}
    BY <1>4 DEF VerbRead, MayAdvance, MayDeliver
  <2>2. Informed(q) /\ q.op # "cancel"
    BY <2>1 DEF Informed, Live, OrderStatus
  <2> HIDE DEF q
  <2> QED BY <1>1, <2>1, <2>2, QuietOrders
<1>5. ASSUME NEW o \in Order,
             NEW op \in {"payhere", "installments", "cod", "mark", "reject"},
             PayRead(c, o, op)
      PROVE  OrderStep
  <2> DEFINE q == [op |-> op, order |-> o, step |-> "write"]
  <2>1. call' = [call EXCEPT ![c] = q] /\ q.op \notin ReadsBack
    BY <1>5 DEF PayRead, ReadsBack
  <2> HIDE DEF q
  <2> QED BY <1>1, <2>1, PlainOrders
<1>6. ASSUME NEW o \in Order, StripeSucceeded(c, o) PROVE OrderStep
  <2> DEFINE q == [op |-> "stripe", order |-> o, step |-> "settle"]
  <2>1. call' = [call EXCEPT ![c] = q] /\ q.op \notin ReadsBack
    BY <1>6 DEF StripeSucceeded, ReadsBack
  <2> HIDE DEF q
  <2> QED BY <1>1, <2>1, PlainOrders
<1>7. ASSUME NEW o \in Order, NEW t \in Txn, NEW code \in StatusCode,
             NotifyRecord(c, o, t, code)
      PROVE  OrderStep
  <2> DEFINE q == [op |-> "notify", order |-> o, txn |-> t, code |-> code,
                   step |-> "write"]
  <2>1. call' = [call EXCEPT ![c] = q] /\ q.op \notin ReadsBack
    BY <1>7 DEF NotifyRecord, ReadsBack
  <2> HIDE DEF q
  <2> QED BY <1>1, <2>1, PlainOrders
<1>8. ASSUME NEW o \in Order, NEW p \in Product, NEW w \in Worker,
             AssignRead(c, o, p, w)
      PROVE  OrderStep
  <2> DEFINE q == [op |-> "assign", order |-> o, product |-> p, worker |-> w]
  <2>1. call' = [call EXCEPT ![c] = q] /\ q.op \notin ReadsBack
    BY <1>8 DEF AssignRead, ReadsBack
  <2> HIDE DEF q
  <2> QED BY <1>1, <2>1, PlainOrders
<1>9. ASSUME NEW o \in Order, NEW p \in Product, NEW action \in TaskAction,
             NEW actor, ActRead(c, o, p, action, actor)
      PROVE  OrderStep
  <2> DEFINE q == [op |-> "act", order |-> o, product |-> p,
                   next |-> Acted(tasks[o][p], action)]
  <2>1. call' = [call EXCEPT ![c] = q] /\ q.op \notin ReadsBack
    BY <1>9 DEF ActRead, ReadsBack
  <2> HIDE DEF q
  <2> QED BY <1>1, <2>1, PlainOrders
<1> QED BY <1>2, <1>3, <1>4, <1>5, <1>6, <1>7, <1>8, <1>9, Zenon DEF Accept

(* The floor's reads: what it read of a live order lets it write one.         *)
LEMMA FloorReadOrders ==
  ASSUME CancelsAlone, OrderInv, NEW c \in Slot, PaysOwn(c),
         ActUpdate(c) \/ ActDerive(c)
  PROVE  OrderStep
<1>1. CASE ActUpdate(c)
  <2> DEFINE r == call[c]
             q == [op |-> "floor", order |-> r.order, product |-> r.product,
                   next |-> r.next, saw |-> orders[r.order],
                   target |-> "UNREAD"]
  <2>1. /\ r.op = "act" /\ call' = [call EXCEPT ![c] = q]
        /\ UNCHANGED <<stock, orders, rows>>
    BY <1>1, Zenon DEF ActUpdate, orderTables
  <2>2. r \in ActCall /\ tasks[r.order][r.product] # NoTask
    BY <2>1, CallByOp DEF OrderInv, IInv, TypeOK, FloorHasTask, FloorOp
  <2>3. r.order \in Order /\ r.product \in Product
    BY <2>2 DEF ActCall
  <2>4. /\ orders[r.order] \in AnyStatus
        /\ orders[r.order] \notin {"ABSENT", "PENDING"}
    BY <2>2, <2>3, TaskMeansSold DEF OrderInv
  <2>5. Informed(q) /\ q.op # "cancel"
    BY <2>4 DEF Informed, Live, AnyStatus
  <2> HIDE DEF q, r
  <2> QED BY <2>1, <2>5, QuietOrders
<1>2. CASE ActDerive(c)
  <2> DEFINE r == call[c]
             target == SyncTarget(r.saw, Updated(r.order, r.product, r.next))
             q == [r EXCEPT !.target = target]
  <2>1. /\ r.op = "floor" /\ UNCHANGED <<stock, orders, rows>>
        /\ \/ call' = [call EXCEPT ![c] = q]
           \/ call' = [call EXCEPT ![c] = Idle]
    BY <1>2, Zenon DEF ActDerive, orderTables
  <2>2. target # "NONE" => r.saw # "CANCELLED" /\ target \in Live
    BY DEF SyncTarget, Derive, Live, OrderStatus
  <2>3. r \in FloorCall
    BY <2>1, CallByOp DEF OrderInv, IInv, TypeOK
  <2>4. Informed(r)
    BY DEF OrderInv, Settles
  <2> HIDE DEF target, r
  <2>5. /\ q.op = "floor" /\ q.target = target /\ q.saw = r.saw
        /\ q.order = r.order
    BY <2>3 DEF FloorCall
  <2>6. Informed(q) /\ q.op # "cancel"
    BY <2>2, <2>4, <2>5, <2>1 DEF Informed
  <2> HIDE DEF q
  <2>7. CASE call' = [call EXCEPT ![c] = q]
    BY <2>1, <2>6, <2>7, QuietOrders
  <2>8. CASE call' = [call EXCEPT ![c] = Idle]
    BY <2>1, <2>8, IdlePlain, PlainOrders
  <2> QED BY <2>1, <2>7, <2>8
<1> QED BY <1>1, <1>2

(* Payments, deliveries of events and assignments keep nothing in their slot  *)
(* that a write of an order would rest on.                                    *)
LEMMA PlainCalls ==
  ASSUME IInv, NEW c \in Slot,
         \/ PayWrite(c) \/ StripeSettle(c) \/ NotifyWrite(c)
         \/ NotifyFinish(c) \/ PayConfirm(c) \/ NotifyConfirm(c)
         \/ AssignWrite(c)
  PROVE  \E q : q.op \notin ReadsBack /\ call' = [call EXCEPT ![c] = q]
<1> DEFINE r == call[c]
<1>1. CASE PayWrite(c) \/ StripeSettle(c)
  <2> DEFINE q == [r EXCEPT !.step = "confirm"]
  <2>1. /\ r.op \in {"payhere", "installments", "cod", "mark", "reject",
                     "stripe"}
        /\ \/ call' = [call EXCEPT ![c] = q]
           \/ call' = [call EXCEPT ![c] = Idle]
    BY <1>1 DEF PayWrite, StripeSettle
  <2>2. r \in PayCall
    BY <2>1, CallByOp DEF IInv, TypeOK
  <2>3. q.op \notin ReadsBack
    BY <2>1, <2>2 DEF PayCall, ReadsBack
  <2> HIDE DEF q
  <2> QED BY <2>1, <2>3, IdlePlain
<1>2. CASE NotifyWrite(c) \/ NotifyConfirm(c)
  <2> DEFINE next == IF r.code = "2" THEN "confirm" ELSE "finish"
             q == [r EXCEPT !.step = next]
             f == [r EXCEPT !.step = "finish"]
  <2>1. /\ r.op = "notify"
        /\ \/ call' = [call EXCEPT ![c] = q]
           \/ call' = [call EXCEPT ![c] = f]
           \/ call' = [call EXCEPT ![c] = Idle]
    BY <1>2, Zenon DEF NotifyWrite, NotifyConfirm
  <2>2. r \in NotifyCall
    BY <2>1, CallByOp DEF IInv, TypeOK
  <2>3. q.op \notin ReadsBack /\ f.op \notin ReadsBack
    BY <2>1, <2>2 DEF NotifyCall, ReadsBack
  <2> HIDE DEF q, f
  <2> QED BY <2>1, <2>3, IdlePlain
<1>3. CASE NotifyFinish(c) \/ PayConfirm(c) \/ AssignWrite(c)
  <2>1. call' = [call EXCEPT ![c] = Idle]
    BY <1>3, Zenon DEF NotifyFinish, PayConfirm, AssignWrite
  <2> QED BY <2>1, IdlePlain
<1> QED BY <1>1, <1>2, <1>3

LEMMA PlainContinueOrders ==
  ASSUME CancelsAlone, OrderInv, TypeOK', NEW c \in Slot, PaysOwn(c),
         \/ PayWrite(c) \/ StripeSettle(c) \/ NotifyWrite(c)
         \/ NotifyFinish(c) \/ PayConfirm(c) \/ NotifyConfirm(c)
         \/ AssignWrite(c)
  PROVE  OrderStep
<1>1. PICK q : q.op \notin ReadsBack /\ call' = [call EXCEPT ![c] = q]
  BY PlainCalls DEF OrderInv
<1>2. CASE PayConfirm(c) \/ NotifyConfirm(c)
  <2>1. /\ call[c].op \in {"cod", "mark", "stripe", "notify"}
        /\ ConfirmOrder(call[c].order)
    BY <1>2, Zenon DEF PayConfirm, NotifyConfirm
  <2>2. Busy(c)
    BY <2>1, BusyByOp DEF Idle
  <2>3. call[c].order \in Order
    BY <2>2, BusyHasOrder DEF OrderInv, IInv
  <2> QED BY <1>1, <2>1, <2>2, <2>3, ConfirmOrders
<1>3. CASE \/ PayWrite(c) \/ StripeSettle(c) \/ NotifyWrite(c)
           \/ NotifyFinish(c) \/ AssignWrite(c)
  <2>1. UNCHANGED <<stock, orders, rows>>
    BY <1>3, Zenon DEF PayWrite, StripeSettle, NotifyWrite, NotifyFinish,
                       AssignWrite, orderTables
  <2> QED BY <1>1, <2>1, PlainOrders
<1> QED BY <1>2, <1>3

(* Corrections of the stock meet no order.                                    *)
LEMMA StockKeepingOrders ==
  ASSUME OrderInv, TypeOK', StockKeeping
  PROVE  OrderStep
<1>1. UNCHANGED <<orderTables, moneyTables, call>>
  BY Zenon DEF StockKeeping, Adjust, SetMinimum, EditSizes
<1>2. Settles'
  BY <1>1 DEF OrderInv, Settles, RowsFit, Informed, orderTables, moneyTables
<1>3. orders' = orders /\ Pending' = Pending
  BY <1>1 DEF orderTables, Pending
<1>4. ASSUME NEW p \in Product, Promises!Recount(p) PROVE OrderStep
  <2>1. /\ Reserving!Recount(p)
        /\ \A q \in Product : stock'[q].reserved = stock[q].reserved
    BY <1>3, <1>4, Recounts DEF OrderInv, IInv
  <2>2. Backed'
    BY <1>3, <2>1, BackedStays DEF OrderInv
  <2> QED BY <1>2, <2>1, <2>2 DEF OrderStep, Reserving!Next
<1>5. ASSUME NEW p \in Product, NEW minimum \in 0 .. MaxMoved,
             SetMinimum(p, minimum)
      PROVE  OrderStep
  <2> DEFINE free == [q \in Product |-> stock[q].available - stock[q].reserved]
             held == [q \in Product |-> stock[q].reserved]
  <2>1. UNCHANGED Promises!vars
    BY <1>5, SetMinimumStays DEF OrderInv, IInv
  <2>2. free' = free /\ held' = held
    BY <2>1 DEF Promises!vars
  <2>3. ASSUME NEW q \in Product
        PROVE  /\ stock'[q].reserved = stock[q].reserved
               /\ stock'[q].available = stock[q].available
    <3>1. /\ free'[q] = free[q] /\ held'[q] = held[q]
      BY <2>2
    <3>2. /\ stock[q].available \in Int /\ stock[q].reserved \in Int
          /\ stock'[q].available \in Int
      BY DEF OrderInv, IInv, TypeOK, StockRow
    <3> QED BY <3>1, <3>2
  <2>4. Backed'
    BY <1>3, <2>3, BackedStays DEF OrderInv
  <2>5. UNCHANGED Reserving!vars
    BY <1>3, <2>3, NotSeen
  <2> QED BY <1>2, <2>4, <2>5 DEF OrderStep
<1>6. ASSUME NEW p \in Product,
             NEW type \in {"PURCHASE", "ADJUSTMENT", "DAMAGE"},
             NEW size \in Size \cup {NoSize},
             NEW change \in -MaxMoved .. MaxMoved,
             Adjust(p, type, size, change)
      PROVE  OrderStep
  BY <1>4, <1>6, AdjustRecounts DEF OrderInv, IInv
<1>7. ASSUME NEW p \in Product, NEW sizes \in [Size -> 0 .. MaxMoved],
             NEW total \in 0 .. MaxMoved, EditSizes(p, sizes, total)
      PROVE  OrderStep
  BY <1>4, <1>7, EditSizesRecounts DEF OrderInv, IInv
<1> QED BY <1>5, <1>6, <1>7, Zenon DEF StockKeeping

LEMMA NextOrders ==
  ASSUME CancelsAlone, OrderInv, TypeOK', [Next]_vars
  PROVE  OrderStep
<1>1. ASSUME NEW c \in Slot, Accept(c) PROVE OrderStep
  BY <1>1, AcceptOrders
<1>2. ASSUME NEW c \in Slot, Continue(c) PROVE OrderStep
  <2>1. PaysOwn(c)
    BY <1>2, ContinuePaysOwn DEF OrderInv, IInv
  <2> QED BY <1>2, <2>1, CreateOrders, CancelOrders, VerbOrders, FloorOrders,
             FloorReadOrders, PlainContinueOrders, Zenon DEF Continue
<1>3. CASE PayHere \/ UNCHANGED vars
  <2>1. UNCHANGED <<stock, orders, rows, payment, call>>
    BY <1>3, Zenon DEF PayHere, Attempt, vars, orderTables, moneyTables
  <2>2. Settles'
    BY <2>1 DEF OrderInv, Settles, RowsFit, Informed
  <2> QED BY <2>1, <2>2, OrdersStay DEF OrderInv
<1>4. CASE Restart
  <2>1. /\ UNCHANGED <<stock, orders, rows>>
        /\ \A c \in Slot : call'[c] = Idle
    BY <1>4 DEF Restart, orderTables
  <2>2. Settles'
    BY <2>1 DEF OrderInv, Settles, RowsFit, Informed, Idle
  <2> QED BY <2>1, <2>2, OrdersStay DEF OrderInv
<1> QED BY <1>1, <1>2, <1>3, <1>4, StockKeepingOrders, Zenon DEF Next

LEMMA OrdersStart == Init => Settles /\ Backed /\ Reserving!Init
<1> SUFFICES ASSUME Init PROVE Settles /\ Backed /\ Reserving!Init
  OBVIOUS
<1>1. Settles
  BY DEF Init, Settles, RowsFit, Informed, Idle
<1>2. Pending = {}
  BY DEF Init, Pending
<1>3. Backed
  BY <1>2, FS_EmptySet, SumOfNone DEF Backed, Init, Opened
<1>4. Reserving!Init
  BY StockAssumption DEF Init, Opened, Reserving!Init, Standing
<1> QED BY <1>1, <1>3, <1>4

LEMMA OrderInvInductive ==
  /\ Init => OrderInv /\ Reserving!Init
  /\ OrderInv /\ CancelsAlone /\ [Next]_vars => OrderInv' /\ OrderStep
<1>1. Init => OrderInv /\ Reserving!Init
  BY InitTypes, StockInit, DeductsStart, OrdersStart DEF OrderInv
<1>2. ASSUME OrderInv, CancelsAlone, [Next]_vars
      PROVE  OrderInv' /\ OrderStep
  <2>1. IInv'
    BY <1>2, NextTypes DEF OrderInv
  <2>2. StockFloor'
    BY <1>2, StockStep DEF OrderInv, IInv, StockFloor, StockKept, Kept
  <2>3. Deducts'
    BY <1>2, DeductsKept DEF OrderInv
  <2>4. OrderStep
    BY <1>2, <2>1, NextOrders DEF IInv
  <2> QED BY <2>1, <2>2, <2>3, <2>4 DEF OrderInv, OrderStep
<1> QED BY <1>1, <1>2

------------------------------------------------------------------------------
(* reserveStock, confirmSale, releaseStock and restock of an order's lines    *)
(* (inventory.service.ts) are called once each at most: what an order sold or *)
(* released is no more than it reserved, and what it returned no more than it *)
(* sold, as long as a cancellation is alone with its order.                   *)
THEOREM SettledSafe == Spec /\ []CancelsAlone => []SettledOnce
<1>1. OrderInv => SettledOnce
  BY DEF OrderInv, Settles, Deducts, RowsFit, OrderFits, Sold, SettledOnce
<1>2. Init => OrderInv
  BY OrderInvInductive
<1>3. OrderInv /\ CancelsAlone /\ [Next]_vars => OrderInv'
  BY OrderInvInductive
<1> QED BY <1>1, <1>2, <1>3, PTL DEF Spec

(* No reservation leaks and no order lives on another's: what is reserved of  *)
(* a product is the sum over the orders still PENDING, however many.          *)
THEOREM ReservedSafe == Spec /\ []CancelsAlone => []ReservedBacksPending
<1>1. OrderInv => ReservedBacksPending
  <2> SUFFICES ASSUME OrderInv, NEW p \in Product
               PROVE  stock[p].reserved =
                        MapThenSumSet(LAMBDA o : Cart[o][p],
                                      {o \in Order : orders[o] = "PENDING"})
    BY DEF ReservedBacksPending
  <2>1. PICK S \in SUBSET Order :
          /\ S = {o \in Order : orders[o] = "PENDING"}
          /\ S = Pending /\ IsFiniteSet(S)
    BY DEF Pending, OrderInv, Backed
  <2>2. MapThenSumSet(LAMBDA o : Cart[o][p], S) = SumOf(Units(p), S)
    BY <2>1, UnitsSum
  <2>3. stock[p].reserved = SumOf(Units(p), S)
    BY <2>1 DEF OrderInv, Backed
  <2> QED BY <2>1, <2>2, <2>3, Zenon
<1>2. Init => OrderInv
  BY OrderInvInductive
<1>3. OrderInv /\ CancelsAlone /\ [Next]_vars => OrderInv'
  BY OrderInvInductive
<1> QED BY <1>1, <1>2, <1>3, PTL DEF Spec

(* The API implements Reservations: an order holds its units once, sells them *)
(* or gives them back once, and touches no other order's, whatever else the   *)
(* requests, the floor, the payments and the admins do.                       *)
THEOREM UnitsHeld == Spec /\ []CancelsAlone => OrdersHoldTheirUnits
<1>1. Init => OrderInv /\ Reserving!Init
  BY OrderInvInductive
<1>2. OrderInv /\ CancelsAlone /\ [Next]_vars =>
        OrderInv' /\ [Reserving!Next]_Reserving!vars
  BY OrderInvInductive DEF OrderStep
<1> QED BY <1>1, <1>2, PTL DEF Spec, OrdersHoldTheirUnits, Reserving!Spec

------------------------------------------------------------------------------
(* Who writes a status, and who writes a payment.                             *)
Writes(o, from, to) ==
  /\ orders' = [orders EXCEPT ![o] = to]
  /\ trail' = [trail EXCEPT ![o] = <<from, to>>]
Writer(q, from, to) ==
  \/ q.op = "create" /\ from = "ABSENT" /\ to = "PENDING"
  \/ q.op = "cancel" /\ from = q.saw /\ to = "CANCELLED"
  \/ q.op = "advance" /\ from = "CONFIRMED" /\ to = "COMPLETED"
  \/ q.op = "deliver" /\ from = "COMPLETED" /\ to = "DELIVERED"
  \/ /\ q.op \in {"cod", "mark", "stripe", "notify"} /\ q.step = "confirm"
     /\ orders[q.order] = "PENDING"
     /\ from = "PENDING" /\ to = "CONFIRMED"
  \/ /\ q.op = "floor" /\ from = q.saw /\ to = q.target
     /\ q.target \notin {"NONE", "UNREAD"}

LEMMA StatusMoved ==
  ASSUME TypeOK, NEW c \in Slot, Continue(c)
  PROVE  \/ UNCHANGED <<orders, trail>>
         \/ \E o \in Order, from \in AnyStatus, to \in OrderStatus :
              /\ o = call[c].order
              /\ Writes(o, from, to) /\ Writer(call[c], from, to)
<1> DEFINE r == call[c]
           Written1 ==
             \E o \in Order, from \in AnyStatus, to \in OrderStatus :
               o = r.order /\ Writes(o, from, to) /\ Writer(r, from, to)
<1>0. /\ OrderStatus \subseteq AnyStatus /\ "ABSENT" \in AnyStatus
      /\ {"PENDING", "CONFIRMED", "COMPLETED", "DELIVERED", "CANCELLED"}
           \subseteq OrderStatus
  BY DEF AnyStatus, OrderStatus
<1>1. CASE CreateCommit(c)
  <2>1. /\ r.op = "create"
        /\ \/ UNCHANGED <<orders, trail>>
           \/ Writes(r.order, "ABSENT", "PENDING")
    BY <1>1, Zenon DEF CreateCommit, Writes
  <2>2. r.order \in Order
    BY <2>1, CallByOp DEF TypeOK, CreateCall
  <2> QED BY <1>0, <2>1, <2>2 DEF Writer
<1>2. CASE CancelCommit(c)
  <2>1. /\ r.op = "cancel"
        /\ \/ UNCHANGED <<orders, trail>>
           \/ Writes(r.order, r.saw, "CANCELLED")
    BY <1>2, Zenon DEF CancelCommit, Writes
  <2>2. r.order \in Order /\ r.saw \in OrderStatus
    BY <2>1, CallByOp DEF TypeOK, CancelCall
  <2> QED BY <1>0, <2>1, <2>2 DEF Writer
<1>3. CASE VerbCommit(c)
  <2>1. \/ r.op = "advance" /\ Writes(r.order, "CONFIRMED", "COMPLETED")
        \/ r.op = "deliver" /\ Writes(r.order, "COMPLETED", "DELIVERED")
    BY <1>3 DEF VerbCommit, Writes
  <2>2. r.order \in Order
    BY <2>1, CallByOp DEF TypeOK, VerbCall
  <2> QED BY <1>0, <2>1, <2>2 DEF Writer
<1>4. CASE PayConfirm(c) \/ NotifyConfirm(c)
  <2>1. /\ r.op \in {"cod", "mark", "stripe", "notify"} /\ r.step = "confirm"
        /\ \/ UNCHANGED <<orders, trail>>
           \/ /\ Confirmable(r.order)
              /\ Writes(r.order, "PENDING", "CONFIRMED")
    BY <1>4, Zenon DEF PayConfirm, NotifyConfirm, ConfirmOrder, Writes
  <2>2. r.order \in Order
    BY <2>1, CallByOp DEF TypeOK, PayCall, NotifyCall
  <2> QED BY <1>0, <2>1, <2>2 DEF Writer, Confirmable
<1>5. CASE ActCommit(c)
  <2>1. /\ r.op = "floor" /\ r.target # "UNREAD"
        /\ \/ UNCHANGED <<orders, trail>>
           \/ r.target # "NONE" /\ Writes(r.order, r.saw, r.target)
    BY <1>5, Zenon DEF ActCommit, Writes
  <2>2. /\ r.order \in Order /\ r.saw \in AnyStatus
        /\ r.target \in OrderStatus \cup {"NONE", "UNREAD"}
    BY <2>1, CallByOp DEF TypeOK, FloorCall
  <2> QED BY <1>0, <2>1, <2>2 DEF Writer
<1>6. CASE \/ AssignWrite(c) \/ ActUpdate(c) \/ ActDerive(c) \/ PayWrite(c)
           \/ StripeSettle(c) \/ NotifyWrite(c) \/ NotifyFinish(c)
  BY <1>6, Zenon DEF AssignWrite, ActUpdate, ActDerive, PayWrite, StripeSettle,
                     NotifyWrite, NotifyFinish, orderTables
<1> QED BY <1>1, <1>2, <1>3, <1>4, <1>5, <1>6, Zenon DEF Continue

(* A status, once written, is never ABSENT again, and PENDING only at first.  *)
LEMMA StatusMoves ==
  ASSUME IInv, Deducts, [Next]_vars, NEW o \in Order, orders'[o] # orders[o]
  PROVE  /\ orders'[o] # "ABSENT"
         /\ orders'[o] = "PENDING" => orders[o] = "ABSENT"
<1>1. PICK c \in Slot : Continue(c)
  BY OthersLeaveOrders
<1>2. PICK x \in Order, from \in AnyStatus, to \in OrderStatus :
        x = call[c].order /\ Writes(x, from, to) /\ Writer(call[c], from, to)
  BY <1>1, StatusMoved DEF IInv
<1>3. x = o /\ orders'[o] = to
  BY <1>2 DEF Writes, IInv, TypeOK
<1>4. call[c].op = "create" => orders[o] = "ABSENT"
  BY <1>2, <1>3 DEF Deducts, CallFits
<1>5. call[c].op = "floor" => call[c].target # "PENDING"
  BY DEF Deducts, CallFits
<1> QED BY <1>2, <1>3, <1>4, <1>5 DEF Writer, OrderStatus

------------------------------------------------------------------------------
(* The buttons: an order on the floor has something to make.                  *)
HasMaking ==
  \A o \in Order :
    orders[o] \in {"IN_PRODUCTION", "QUALITY_CHECK"} => Made \cap Lines(o) # {}

LEMMA MakingKept ==
  ASSUME IInv, Deducts, HasMaking, [Next]_vars
  PROVE  HasMaking'
<1> SUFFICES ASSUME NEW o \in Order,
                    orders'[o] \in {"IN_PRODUCTION", "QUALITY_CHECK"},
                    orders'[o] # orders[o]
             PROVE  Made \cap Lines(o) # {}
  BY DEF HasMaking, Lines
<1>1. PICK c \in Slot : Continue(c)
  BY OthersLeaveOrders
<1>2. PICK x \in Order, from \in AnyStatus, to \in OrderStatus :
        x = call[c].order /\ Writes(x, from, to) /\ Writer(call[c], from, to)
  BY <1>1, StatusMoved DEF IInv
<1>3. x = o /\ orders'[o] = to
  BY <1>2 DEF Writes, IInv, TypeOK
<1>4. call[c].op = "floor"
  BY <1>2, <1>3 DEF Writer
<1>5. call[c] \in FloorCall /\ tasks[o][call[c].product] # NoTask
  BY <1>2, <1>3, <1>4, CallByOp DEF IInv, TypeOK, FloorHasTask, FloorOp
<1>6. call[c].product \in Making(o)
  BY <1>5 DEF FloorCall, Making
<1>7. Making(o) \subseteq Made \cap Lines(o)
  BY DEF Deducts, OrderFits
<1> QED BY <1>6, <1>7

(* computeAdminActions (orders.service.ts) offers advance and deliver exactly *)
(* while the endpoints would take them, whatever runs on the floor: an order  *)
(* whose status the floor has written has something to make, so its tasks     *)
(* never vanish from under the offer.                                         *)
THEOREM OfferSafe == Spec => []OfferedIsAccepted
<1>1. ASSUME Deducts, HasMaking PROVE OfferedIsAccepted
  <2> SUFFICES ASSUME NEW o \in Order
               PROVE  /\ "advance" \in
                           AllowedOrderActions(orders[o], TasksOf(o) # {})
                         <=> MayAdvance(o)
                      /\ "deliver" \in
                           AllowedOrderActions(orders[o], TasksOf(o) # {})
                         <=> MayDeliver(o)
    BY Zenon DEF OfferedIsAccepted
  <2>1. orders[o] = "QUALITY_CHECK" => TasksOf(o) # {}
    <3>1. orders[o] = "QUALITY_CHECK" => Making(o) # {}
      BY <1>1 DEF Deducts, OrderFits, HasMaking, Live, OrderStatus
    <3> QED BY <3>1 DEF Making, TasksOf
  <2>2. CanTransition(orders[o], "COMPLETED") <=>
          orders[o] \in {"CONFIRMED", "QUALITY_CHECK"}
    BY DEF CanTransition, Transitions
  <2>3. CanTransition(orders[o], "DELIVERED") <=> orders[o] = "COMPLETED"
    BY DEF CanTransition, Transitions
  <2>4. /\ "advance" \in AllowedOrderActions(orders[o], TasksOf(o) # {})
             <=> CanTransition(orders[o], "COMPLETED") /\ TasksOf(o) = {}
        /\ "deliver" \in AllowedOrderActions(orders[o], TasksOf(o) # {})
             <=> CanTransition(orders[o], "DELIVERED")
    BY DEF AllowedOrderActions
  <2> QED BY <2>1, <2>2, <2>3, <2>4 DEF MayAdvance, MayDeliver
<1>2. Init => HasMaking
  BY DEF Init, HasMaking
<1>3. IInv /\ Deducts /\ [Next]_vars => Deducts'
  BY DeductsKept
<1>4. IInv /\ Deducts /\ HasMaking /\ [Next]_vars => HasMaking'
  BY MakingKept
<1> QED BY <1>1, <1>2, <1>3, <1>4, InitTypes, NextTypes, DeductsStart, PTL
        DEF Spec

------------------------------------------------------------------------------
(* The money.                                                                 *)
(* What the money tables say before there is an order, of an installment, and *)
(* of what a request about a payment knows.                                   *)
PayOps == {"payhere", "installments", "cod", "mark", "reject", "stripe",
           "notify"}
Unopened ==
  \A o \in Order : orders[o] = "ABSENT" =>
    payment[o] = NoPayment /\ \A t \in Txn : gateway[o][t] = "NONE"
DuesHavePlan ==
  \A o \in Order : dues[o] # "NONE" => payment[o].plan = "INSTALLMENT"
PayersKnow ==
  \A c \in Slot : call[c].op \in PayOps => orders[call[c].order] # "ABSENT"
Money == Unopened /\ DuesHavePlan /\ PayersKnow

(* No order goes away.                                                        *)
LEMMA OrdersRemain ==
  ASSUME IInv, Deducts, [Next]_vars
  PROVE  \A o \in Order : orders[o] # "ABSENT" => orders'[o] # "ABSENT"
BY StatusMoves

(* A step carries its request further, or ends it; the others are where they  *)
(* were.                                                                      *)
LEMMA CarriedOn ==
  ASSUME TypeOK, NEW c \in Slot, Continue(c)
  PROVE  \E q : /\ call' = [call EXCEPT ![c] = q]
                /\ \/ q = Idle
                   \/ /\ q.order = call[c].order
                      /\ \/ q.op = call[c].op
                         \/ call[c].op = "act" /\ q.op = "floor"
<1> DEFINE r == call[c]
<1>1. CASE \/ CreateCommit(c) \/ CancelCommit(c) \/ VerbCommit(c)
           \/ AssignWrite(c) \/ ActCommit(c) \/ PayConfirm(c)
           \/ NotifyFinish(c)
  BY <1>1, Zenon DEF CreateCommit, CancelCommit, VerbCommit, AssignWrite,
                     ActCommit, PayConfirm, NotifyFinish
<1>2. CASE ActUpdate(c)
  <2> DEFINE q == [op |-> "floor", order |-> r.order, product |-> r.product,
                   next |-> r.next, saw |-> orders[r.order],
                   target |-> "UNREAD"]
  <2>1. r.op = "act" /\ call' = [call EXCEPT ![c] = q]
    BY <1>2, Zenon DEF ActUpdate
  <2>2. q.op = "floor" /\ q.order = r.order
    OBVIOUS
  <2> HIDE DEF q
  <2> QED BY <2>1, <2>2
<1>3. CASE ActDerive(c)
  <2>1. r \in FloorCall
    BY <1>3, CallByOp DEF ActDerive, TypeOK
  <2>2. \E target : \/ call' = [call EXCEPT ![c] = Idle]
                    \/ call' = [call EXCEPT ![c] =
                                  [r EXCEPT !.target = target]]
    BY <1>3, Zenon DEF ActDerive
  <2> QED BY <2>1, <2>2 DEF FloorCall
<1>4. CASE PayWrite(c) \/ StripeSettle(c) \/ NotifyWrite(c) \/ NotifyConfirm(c)
  <2>1. r \in PayCall \/ r \in NotifyCall
    BY <1>4, CallByOp
    DEF PayWrite, StripeSettle, NotifyWrite, NotifyConfirm, TypeOK
  <2>2. \E step : \/ call' = [call EXCEPT ![c] = Idle]
                  \/ call' = [call EXCEPT ![c] = [r EXCEPT !.step = step]]
    <3>1. CASE PayWrite(c) \/ NotifyConfirm(c)
      BY <3>1, Zenon DEF PayWrite, NotifyConfirm
    <3>2. CASE StripeSettle(c) \/ NotifyWrite(c)
      BY <3>2 DEF StripeSettle, NotifyWrite
    <3> QED BY <1>4, <3>1, <3>2
  <2> QED BY <2>1, <2>2 DEF PayCall, NotifyCall
<1> QED BY <1>1, <1>2, <1>3, <1>4, Zenon DEF Continue

(* What a request in a slot has just read.                                    *)
Asked(q) ==
  /\ q.order \in Order
  /\ \/ q.op \in {"create", "cancel", "assign"}
     \/ q.op = "advance" /\ MayAdvance(q.order)
     \/ q.op = "deliver" /\ MayDeliver(q.order)
     \/ /\ q.op \in {"payhere", "installments", "cod", "mark", "reject"}
        /\ Payable(q.op, q.order)
     \/ q.op = "stripe" /\ payment[q.order].plan = "INSTALLMENT"
     \/ /\ q.op = "notify" /\ q.txn \in Txn
        /\ Notifies(q.order, q.txn, q.code)
     \/ /\ q.op = "act"
        /\ \E action \in TaskAction :
             /\ Legal(action, tasks[q.order][q.product])
             /\ q.next = Acted(tasks[q.order][q.product], action)

LEMMA TakenOn ==
  ASSUME NEW c \in Slot, Accept(c)
  PROVE  \E q : call' = [call EXCEPT ![c] = q] /\ Asked(q)
<1>1. ASSUME NEW o \in Order, CreateRead(c, o)
      PROVE  \E q : call' = [call EXCEPT ![c] = q] /\ Asked(q)
  <2> DEFINE q == [op |-> "create", order |-> o,
                   sizes |-> [p \in Product |-> stock[p].sizes]]
  <2>1. call' = [call EXCEPT ![c] = q] /\ Asked(q)
    BY <1>1 DEF CreateRead, Asked
  <2> HIDE DEF q
  <2> QED BY <2>1
<1>2. ASSUME NEW o \in Order, NEW actor, NEW ack,
             CancelRead(c, o, actor, ack)
      PROVE  \E q : call' = [call EXCEPT ![c] = q] /\ Asked(q)
  <2> DEFINE q == [op |-> "cancel", order |-> o, saw |-> orders[o],
                   pay |-> payment[o], partPaid |-> dues[o] = "COMPLETED"]
  <2>1. call' = [call EXCEPT ![c] = q] /\ Asked(q)
    BY <1>2 DEF CancelRead, Asked
  <2> HIDE DEF q
  <2> QED BY <2>1
<1>3. ASSUME NEW o \in Order, NEW verb \in {"advance", "deliver"},
             VerbRead(c, o, verb)
      PROVE  \E q : call' = [call EXCEPT ![c] = q] /\ Asked(q)
  <2> DEFINE q == [op |-> verb, order |-> o]
  <2>1. call' = [call EXCEPT ![c] = q] /\ Asked(q)
    BY <1>3 DEF VerbRead, Asked
  <2> HIDE DEF q
  <2> QED BY <2>1
<1>4. ASSUME NEW o \in Order, 
             NEW op \in {"payhere", "installments", "cod", "mark", "reject"},
             PayRead(c, o, op)
      PROVE  \E q : call' = [call EXCEPT ![c] = q] /\ Asked(q)
  <2> DEFINE q == [op |-> op, order |-> o, step |-> "write"]
  <2>1. call' = [call EXCEPT ![c] = q] /\ Asked(q)
    BY <1>4 DEF PayRead, Asked
  <2> HIDE DEF q
  <2> QED BY <2>1
<1>5. ASSUME NEW o \in Order, StripeSucceeded(c, o)
      PROVE  \E q : call' = [call EXCEPT ![c] = q] /\ Asked(q)
  <2> DEFINE q == [op |-> "stripe", order |-> o, step |-> "settle"]
  <2>1. call' = [call EXCEPT ![c] = q] /\ Asked(q)
    BY <1>5 DEF StripeSucceeded, Asked
  <2> HIDE DEF q
  <2> QED BY <2>1
<1>6. ASSUME NEW o \in Order, NEW t \in Txn, NEW code \in StatusCode,
             NotifyRecord(c, o, t, code)
      PROVE  \E q : call' = [call EXCEPT ![c] = q] /\ Asked(q)
  <2> DEFINE q == [op |-> "notify", order |-> o, txn |-> t, code |-> code,
                   step |-> "write"]
  <2>1. call' = [call EXCEPT ![c] = q] /\ Asked(q)
    BY <1>6 DEF NotifyRecord, Asked
  <2> HIDE DEF q
  <2> QED BY <2>1
<1>7. ASSUME NEW o \in Order, NEW p \in Product, NEW w \in Worker,
             AssignRead(c, o, p, w)
      PROVE  \E q : call' = [call EXCEPT ![c] = q] /\ Asked(q)
  <2> DEFINE q == [op |-> "assign", order |-> o, product |-> p, worker |-> w]
  <2>1. call' = [call EXCEPT ![c] = q] /\ Asked(q)
    BY <1>7 DEF AssignRead, Asked
  <2> HIDE DEF q
  <2> QED BY <2>1
<1>8. ASSUME NEW o \in Order, NEW p \in Product, NEW actor,
             NEW action \in TaskAction,
             ActRead(c, o, p, action, actor)
      PROVE  \E q : call' = [call EXCEPT ![c] = q] /\ Asked(q)
  <2> DEFINE q == [op |-> "act", order |-> o, product |-> p,
                   next |-> Acted(tasks[o][p], action)]
  <2>1. call' = [call EXCEPT ![c] = q] /\ Asked(q)
    BY <1>8 DEF ActRead, MayAct, Asked
  <2> HIDE DEF q
  <2> QED BY <2>1
<1> QED BY <1>1, <1>2, <1>3, <1>4, <1>5, <1>6, <1>7, <1>8, Zenon DEF Accept

LEMMA PayersStayKnown ==
  ASSUME IInv, Deducts, Money, [Next]_vars
  PROVE  PayersKnow'
<1>0. \A o \in Order : orders[o] # "ABSENT" => orders'[o] # "ABSENT"
  BY OrdersRemain
<1>1. ASSUME NEW d \in Slot, call'[d] = call[d], call'[d].op \in PayOps
      PROVE  orders'[call'[d].order] # "ABSENT"
  <2>1. call[d].order \in Order
    BY <1>1, CallByOp DEF IInv, TypeOK, PayOps, PayCall, NotifyCall
  <2> QED BY <1>0, <1>1, <2>1 DEF Money, PayersKnow
<1>2. ASSUME NEW c \in Slot, NEW q, call' = [call EXCEPT ![c] = q],
             q.op \in PayOps =>
               q.order \in Order /\ orders[q.order] # "ABSENT"
      PROVE  PayersKnow'
  <2>1. \A d \in Slot : call'[d] = IF d = c THEN q ELSE call[d]
    BY <1>2 DEF IInv, TypeOK
  <2> QED BY <1>0, <1>1, <1>2, <2>1 DEF PayersKnow
<1>3. ASSUME NEW c \in Slot, Accept(c) PROVE PayersKnow'
  <2>1. PICK q : call' = [call EXCEPT ![c] = q] /\ Asked(q)
    BY <1>3, TakenOn
  <2>2. ASSUME q.op \in PayOps PROVE orders[q.order] # "ABSENT"
    <3>1. /\ q.order \in Order
          /\ orders[q.order] = "ABSENT" =>
               /\ payment[q.order] = NoPayment
               /\ \A t \in Txn : gateway[q.order][t] = "NONE"
      BY <2>1 DEF Asked, Money, Unopened
    <3> QED BY <2>1, <2>2, <3>1
            DEF Asked, PayOps, Payable, NoPayment, Notifies
  <2> QED BY <1>2, <2>1, <2>2 DEF Asked
<1>4. ASSUME NEW c \in Slot, Continue(c) PROVE PayersKnow'
  <2>1. PICK q : /\ call' = [call EXCEPT ![c] = q]
                 /\ \/ q = Idle
                    \/ /\ q.order = call[c].order
                       /\ \/ q.op = call[c].op
                          \/ call[c].op = "act" /\ q.op = "floor"
    BY <1>4, CarriedOn DEF IInv
  <2>2. ASSUME q.op \in PayOps
        PROVE  q.order \in Order /\ orders[q.order] # "ABSENT"
    <3>1. q.order = call[c].order /\ call[c].op \in PayOps
      BY <2>1, <2>2 DEF Idle, PayOps
    <3> QED BY <3>1, CallByOp
            DEF Money, PayersKnow, IInv, TypeOK, PayOps, PayCall, NotifyCall
  <2> QED BY <1>2, <2>1, <2>2
<1>5. CASE UNCHANGED call
  BY <1>1, <1>5 DEF PayersKnow
<1>6. CASE Restart
  BY <1>6 DEF Restart, PayersKnow, Idle, PayOps
<1>7. StockKeeping \/ PayHere \/ UNCHANGED vars => UNCHANGED call
  BY Zenon DEF StockKeeping, Adjust, SetMinimum, EditSizes, PayHere, Attempt,
               vars
<1> QED BY <1>3, <1>4, <1>5, <1>6, <1>7, Zenon DEF Next

(* What the four steps that write a payment do to the order's three rows.     *)
LEMMA PaysFor ==
  ASSUME IInv, Deducts, Money, NEW c \in Slot, PaysBy(c), NEW o \in Order,
         o = call[c].order
  PROVE  /\ orders[o] # "ABSENT"
         /\ dues'[o] # "NONE" => payment'[o].plan = "INSTALLMENT"
<1>1. CASE CancelCommit(c)
  <2>1. /\ call[c].op = "cancel"
        /\ \/ payment' = payment /\ dues' = dues
           \/ /\ payment' = [payment EXCEPT ![o] =
                   CancelledPayment(@, call[c].pay, call[c].partPaid)]
              /\ dues' = [dues EXCEPT ![o] = CancelledDues(@, call[c].pay)]
    BY <1>1, Zenon DEF CancelCommit
  <2>2. orders[o] # "ABSENT"
    BY <2>1 DEF Deducts, CallFits
  <2>3. payment[o] \in PaymentRow
    BY DEF IInv, TypeOK
  <2>4. /\ \/ payment'[o] = payment[o]
           \/ payment'[o] = CancelledPayment(payment[o], call[c].pay,
                                             call[c].partPaid)
        /\ dues'[o] # "NONE" => dues[o] # "NONE"
    BY <2>1 DEF IInv, TypeOK, CancelledDues
  <2>5. CancelledPayment(payment[o], call[c].pay, call[c].partPaid).plan =
          payment[o].plan
    BY <2>3 DEF CancelledPayment, PaymentRow
  <2> QED BY <2>2, <2>4, <2>5 DEF Money, DuesHavePlan
<1>2. CASE PayWrite(c)
  <2>1. /\ call[c].op \in {"payhere", "installments", "cod", "mark", "reject"}
        /\ payment' = [payment EXCEPT ![o] = Written(call[c].op, @)]
        /\ dues' = IF call[c].op = "installments"
                   THEN [dues EXCEPT ![o] = "PENDING"] ELSE dues
    BY <1>2, Zenon DEF PayWrite
  <2>2. orders[o] # "ABSENT"
    BY <2>1 DEF Money, PayersKnow, PayOps
  <2>3. /\ payment'[o] = Written(call[c].op, payment[o])
        /\ call[c].op # "installments" => dues'[o] = dues[o]
    BY <2>1 DEF IInv, TypeOK
  <2>4. payment[o] \in PaymentRow
    BY DEF IInv, TypeOK
  <2>5. /\ payment'[o].plan \in {payment[o].plan, "INSTALLMENT"}
        /\ call[c].op = "installments" => payment'[o].plan = "INSTALLMENT"
    BY <2>1, <2>3, <2>4 DEF Written, Upserted, PaymentRow
  <2> QED BY <2>2, <2>3, <2>5 DEF Money, DuesHavePlan
<1>3. CASE StripeSettle(c) \/ NotifyWrite(c)
  <2>1. /\ call[c].op \in PayOps /\ dues' = dues
        /\ \E status : payment' = [payment EXCEPT ![o].status = status]
    BY <1>3 DEF StripeSettle, NotifyWrite, PayOps
  <2>2. payment[o] \in PaymentRow /\ payment'[o].plan = payment[o].plan
    BY <2>1 DEF IInv, TypeOK, PaymentRow
  <2> QED BY <2>1, <2>2 DEF Money, PayersKnow, DuesHavePlan
<1> QED BY <1>1, <1>2, <1>3 DEF PaysBy

LEMMA MoneyKept ==
  ASSUME IInv, Deducts, Money, [Next]_vars
  PROVE  Money'
<1>0. \A o \in Order : orders'[o] = "ABSENT" => orders[o] = "ABSENT"
  BY OrdersRemain
<1>1. ASSUME NEW c \in Slot, PaysBy(c) PROVE Unopened' /\ DuesHavePlan'
  <2>1. /\ call[c].order \in Order
        /\ \A o \in Order : o # call[c].order =>
             /\ payment'[o] = payment[o] /\ dues'[o] = dues[o]
             /\ gateway'[o] = gateway[o]
    BY <1>1, PayersPay DEF IInv
  <2>2. /\ orders[call[c].order] # "ABSENT"
        /\ dues'[call[c].order] # "NONE" =>
             payment'[call[c].order].plan = "INSTALLMENT"
    BY <1>1, <2>1, PaysFor
  <2> QED BY <1>0, <2>1, <2>2 DEF Money, Unopened, DuesHavePlan
<1>2. ASSUME payment' = payment, dues' = dues, gateway' = gateway
      PROVE  Unopened' /\ DuesHavePlan'
  BY <1>0, <1>2 DEF Money, Unopened, DuesHavePlan
<1>3. ASSUME NEW c \in Slot, Accept(c), ~ \E o \in Order : StripeSucceeded(c, o)
      PROVE  UNCHANGED <<payment, dues, gateway>>
  <2>1. PICK o \in Order :
          \/ CreateRead(c, o)
          \/ \E actor \in {"CUSTOMER", "ADMIN"}, ack \in BOOLEAN :
               CancelRead(c, o, actor, ack)
          \/ \E verb \in {"advance", "deliver"} : VerbRead(c, o, verb)
          \/ \E op \in {"payhere", "installments", "cod", "mark", "reject"} :
               PayRead(c, o, op)
          \/ \E t \in Txn, code \in StatusCode : NotifyRecord(c, o, t, code)
          \/ \E p \in Product :
               \/ \E w \in Worker : AssignRead(c, o, p, w)
               \/ \E action \in TaskAction, actor \in Worker \cup {"ADMIN"} :
                    ActRead(c, o, p, action, actor)
    BY <1>3, Zenon DEF Accept
  <2> QED BY <2>1, Zenon DEF CreateRead, CancelRead, VerbRead, PayRead,
                    NotifyRecord, AssignRead, ActRead, moneyTables
<1>4. ASSUME NEW c \in Slot, NEW o \in Order, StripeSucceeded(c, o)
      PROVE  Unopened' /\ DuesHavePlan'
  BY <1>0, <1>4
  DEF StripeSucceeded, Money, Unopened, DuesHavePlan, IInv, TypeOK
<1>5. ASSUME NEW o \in Order, NEW t \in Txn, NEW outcome, Attempt(o, t, outcome)
      PROVE  Unopened' /\ DuesHavePlan'
  <2>1. gateway[o][t] = "OPEN" /\ orders[o] # "ABSENT"
    BY <1>5 DEF Attempt, Money, Unopened
  <2>2. /\ \A x \in Order : x # o => gateway'[x] = gateway[x]
        /\ payment' = payment /\ dues' = dues
    BY <1>5 DEF Attempt, IInv, TypeOK
  <2> QED BY <1>0, <2>1, <2>2 DEF Money, Unopened, DuesHavePlan
<1>6. StockKeeping \/ Restart \/ UNCHANGED vars =>
        UNCHANGED <<payment, dues, gateway>>
  BY Zenon DEF StockKeeping, Adjust, SetMinimum, EditSizes, Restart, vars,
               moneyTables
<1>7. Unopened' /\ DuesHavePlan'
  <2>1. ASSUME NEW c \in Slot, Continue(c) PROVE Unopened' /\ DuesHavePlan'
    BY <1>1, <1>2, <2>1, OthersLeaveMoney
  <2>2. ASSUME NEW c \in Slot, Accept(c) PROVE Unopened' /\ DuesHavePlan'
    BY <1>2, <1>3, <1>4, <2>2
  <2>3. CASE PayHere
    BY <1>5, <2>3, Zenon DEF PayHere
  <2>4. CASE StockKeeping \/ Restart \/ UNCHANGED vars
    BY <1>2, <1>6, <2>4
  <2> QED BY <2>1, <2>2, <2>3, <2>4, Zenon DEF Next
<1> QED BY <1>7, PayersStayKnown DEF Money

LEMMA MoneyStart == Init => Money
BY DEF Init, Money, Unopened, DuesHavePlan, PayersKnow, PayOps, Idle, NoPayment

(* cancel (orders.service.ts) voids what an installment plan still had to     *)
(* collect: nothing is due on an order once it is cancelled, as long as the   *)
(* cancellation is alone with its order.                                      *)
THEOREM DuesVoided == Spec /\ []CancelsAlone => CancelVoidsDues
<1>1. ASSUME OrderInv, Money, [Next]_vars, NEW o \in Order, Cancelled(o)
      PROVE  dues'[o] # "PENDING"
  <2>1. PICK c \in Slot : Continue(c)
    BY <1>1, OthersLeaveOrders DEF Cancelled
  <2>2. PICK x \in Order, from \in AnyStatus, to \in OrderStatus :
          x = call[c].order /\ Writes(x, from, to) /\ Writer(call[c], from, to)
    BY <1>1, <2>1, StatusMoved DEF Cancelled, OrderInv, IInv
  <2>3. x = o /\ to = "CANCELLED"
    BY <1>1, <2>2 DEF Writes, Cancelled, OrderInv, IInv, TypeOK
  <2>4. call[c].op = "cancel"
    <3>1. /\ call[c].op = "floor" => call[c].target # "CANCELLED"
      BY <1>1 DEF OrderInv, Settles, Informed, Live
    <3> QED BY <2>2, <2>3, <3>1 DEF Writer
  <2>5. CancelCommit(c)
    BY <2>1, <2>4, Zenon
    DEF Continue, CreateCommit, VerbCommit, AssignWrite, ActUpdate, ActDerive,
        ActCommit, PayWrite, PayConfirm, StripeSettle, NotifyWrite,
        NotifyConfirm, NotifyFinish
  <2>6. \/ orders' = orders
        \/ dues' = [dues EXCEPT
                      ![call[c].order] = CancelledDues(@, call[c].pay)]
    BY <2>5, Zenon DEF CancelCommit
  <2>7. dues'[o] = CancelledDues(dues[o], call[c].pay)
    BY <1>1, <2>2, <2>3, <2>6 DEF Cancelled, OrderInv, IInv, TypeOK
  <2>8. call[c].pay = payment[o]
    BY <1>1, <2>2, <2>3, <2>4 DEF OrderInv, Settles, Informed
  <2> QED BY <1>1, <2>7, <2>8 DEF Money, DuesHavePlan, CancelledDues
<1>2. Init => OrderInv /\ Money
  BY OrderInvInductive, MoneyStart
<1>3. OrderInv /\ Money /\ CancelsAlone /\ [Next]_vars => OrderInv' /\ Money'
  BY OrderInvInductive, MoneyKept DEF OrderInv
<1>4. OrderInv /\ Money /\ [Next]_vars =>
        \A o \in Order : Cancelled(o) => dues'[o] # "PENDING"
  BY <1>1
<1> QED BY <1>2, <1>3, <1>4, PTL DEF Spec, CancelVoidsDues

(* While an order waits with its payment collected, a request is about to     *)
(* confirm it.                                                                *)
Confirming(c, o) ==
  /\ call[c].op \in {"mark", "notify"} /\ call[c].order = o
  /\ call[c].step = "confirm"
PaidInv ==
  \A o \in Order :
    payment[o].status = "COMPLETED" /\ orders[o] = "PENDING" =>
      \E c \in Slot : Confirming(c, o)

(* Who collects a payment goes on to confirm the order.                       *)
LEMMA CollectorConfirms ==
  ASSUME IInv, NEW c \in Slot, PaysBy(c), NEW o \in Order, call[c].order = o,
         payment[o].status # "COMPLETED", payment'[o].status = "COMPLETED"
  PROVE  Confirming(c, o)'
<1>0. payment[o] \in PaymentRow
  BY DEF IInv, TypeOK
<1>1. CASE CancelCommit(c)
  <2>1. \/ payment' = payment
        \/ payment' = [payment EXCEPT ![o] =
             CancelledPayment(@, call[c].pay, call[c].partPaid)]
    BY <1>1, Zenon DEF CancelCommit
  <2>2. CancelledPayment(payment[o], call[c].pay, call[c].partPaid).status
          # "COMPLETED"
    BY <1>0 DEF CancelledPayment, PaymentRow
  <2> QED BY <2>1, <2>2 DEF IInv, TypeOK
<1>2. CASE PayWrite(c)
  <2>1. /\ call[c].op \in {"payhere", "installments", "cod", "mark", "reject"}
        /\ payment' = [payment EXCEPT ![o] = Written(call[c].op, @)]
        /\ call' = [call EXCEPT ![c] = IF Confirms(call[c].op)
                      THEN [call[c] EXCEPT !.step = "confirm"] ELSE Idle]
    BY <1>2, Zenon DEF PayWrite
  <2>2. payment'[o] = Written(call[c].op, payment[o])
    BY <2>1 DEF IInv, TypeOK
  <2>3. call[c].op = "mark"
    BY <1>0, <2>1, <2>2 DEF Written, Upserted, PaymentRow
  <2>4. call[c] \in PayCall
    BY <2>3, CallByOp DEF IInv, TypeOK
  <2>5. call'[c] = [call[c] EXCEPT !.step = "confirm"]
    BY <2>1, <2>3 DEF Confirms, IInv, TypeOK
  <2> QED BY <2>3, <2>4, <2>5 DEF Confirming, PayCall
<1>3. CASE StripeSettle(c)
  <2>1. payment' = [payment EXCEPT ![o].status = "PENDING"]
    BY <1>3 DEF StripeSettle
  <2> QED BY <1>0, <2>1 DEF PaymentRow, IInv, TypeOK
<1>4. CASE NotifyWrite(c)
  <2>1. /\ call[c].op = "notify"
        /\ payment' = [payment EXCEPT ![o].status =
                         IF call[c].code = "2" THEN "COMPLETED" ELSE "FAILED"]
        /\ call' = [call EXCEPT ![c].step =
                      IF call[c].code = "2" THEN "confirm" ELSE "finish"]
    BY <1>4 DEF NotifyWrite
  <2>2. call[c].code = "2"
    BY <1>0, <2>1 DEF PaymentRow, IInv, TypeOK
  <2>3. call[c] \in NotifyCall
    BY <2>1, CallByOp DEF IInv, TypeOK
  <2> QED BY <2>1, <2>2, <2>3 DEF Confirming, NotifyCall, IInv, TypeOK
<1> QED BY <1>1, <1>2, <1>3, <1>4 DEF PaysBy

(* The units an order still PENDING holds are there to be sold, so confirming *)
(* it does not fail.                                                          *)
LEMMA ConfirmingConfirms ==
  ASSUME CancelsAlone, OrderInv, TypeOK', NEW c \in Slot, NEW o \in Order,
         Confirming(c, o), Continue(c), orders[o] = "PENDING"
  PROVE  orders'[o] = "CONFIRMED"
<1>0. Busy(c) /\ o = call[c].order /\ PaysOwn(c)
  BY ContinueIsBusy, ContinuePaysOwn DEF Confirming, OrderInv, IInv
<1>1. PayConfirm(c) \/ NotifyConfirm(c)
  <2>1. \/ PayConfirm(c) \/ NotifyConfirm(c) \/ PayWrite(c) \/ NotifyWrite(c)
        \/ NotifyFinish(c)
    BY Zenon
    DEF Confirming, Continue, CreateCommit, CancelCommit, VerbCommit,
        AssignWrite, ActUpdate, ActDerive, ActCommit, StripeSettle
  <2> QED BY <2>1, Zenon DEF Confirming, PayWrite, NotifyWrite, NotifyFinish
<1>2. CASE PayConfirm(c)
  <2>1. ConfirmOrder(o) /\ call' = [call EXCEPT ![c] = Idle]
    BY <1>2, Zenon DEF PayConfirm, Confirming
  <2>2. Idle.op \notin ReadsBack
    BY DEF Idle, ReadsBack
  <2> QED BY <1>0, <2>1, <2>2, ConfirmOrders
<1>3. CASE NotifyConfirm(c)
  <2>1. ConfirmOrder(o)
    BY <1>3, Zenon DEF NotifyConfirm, Confirming
  <2>2. PICK q : /\ call' = [call EXCEPT ![c] = q]
                 /\ q = Idle \/ q = [call[c] EXCEPT !.step = "finish"]
    BY <1>3, Zenon DEF NotifyConfirm
  <2>3. call[c] \in NotifyCall
    BY <1>3, CallByOp, Zenon DEF NotifyConfirm, OrderInv, IInv, TypeOK
  <2>4. q.op \notin ReadsBack
    BY <2>2, <2>3 DEF NotifyCall, Idle, ReadsBack
  <2> QED BY <1>0, <2>1, <2>2, <2>4, ConfirmOrders
<1> QED BY <1>1, <1>2, <1>3

LEMMA PaidKept ==
  ASSUME CancelsAlone, OrderInv, TypeOK', Money, PaidInv, [Next]_vars,
         crashes' = crashes
  PROVE  PaidInv'
<1> SUFFICES ASSUME NEW o \in Order,
                    payment'[o].status = "COMPLETED", orders'[o] = "PENDING"
             PROVE  \E c \in Slot : Confirming(c, o)'
  BY DEF PaidInv
<1>1. CASE orders[o] # "PENDING"
  <2>1. orders[o] = "ABSENT"
    BY <1>1, StatusMoves DEF OrderInv
  <2>2. payment[o].status # "COMPLETED"
    BY <2>1 DEF Money, Unopened, NoPayment
  <2>3. payment'[o] # payment[o]
    BY <2>2
  <2>4. PICK c \in Slot : PaysBy(c) /\ call[c].order = o
    BY <2>3, PaidBySomebody DEF OrderInv, IInv
  <2> QED BY <2>1, <2>4, PaysFor DEF OrderInv
<1>2. CASE orders[o] = "PENDING" /\ payment[o].status # "COMPLETED"
  <2>1. PICK c \in Slot : PaysBy(c) /\ call[c].order = o
    BY <1>2, PaidBySomebody DEF OrderInv, IInv
  <2> QED BY <1>2, <2>1, CollectorConfirms DEF OrderInv
<1>3. CASE orders[o] = "PENDING" /\ payment[o].status = "COMPLETED"
  <2>1. PICK d \in Slot : Confirming(d, o)
    BY <1>3 DEF PaidInv
  <2>2. ~Continue(d)
    BY <1>3, <2>1, ConfirmingConfirms
  <2>3. ~Accept(d)
    <3>1. call[d] # Idle
      BY <2>1 DEF Confirming, Idle
    <3> QED BY <3>1, Zenon
            DEF Accept, CreateRead, CancelRead, VerbRead, PayRead,
                StripeSucceeded, NotifyRecord, AssignRead, ActRead
  <2>4. ASSUME NEW c \in Slot, Accept(c) \/ Continue(c)
        PROVE  call'[d] = call[d]
    <3>1. c # d
      BY <2>2, <2>3, <2>4
    <3>2. \E q : call' = [call EXCEPT ![c] = q]
      BY <2>4, TakenOn, CarriedOn DEF OrderInv, IInv
    <3> QED BY <3>1, <3>2 DEF OrderInv, IInv, TypeOK
  <2>5. ~Restart
    <3>1. crashes \in Int
      BY DEF OrderInv, IInv, TypeOK
    <3> QED BY <3>1 DEF Restart
  <2>6. StockKeeping \/ PayHere \/ UNCHANGED vars => call' = call
    BY Zenon DEF StockKeeping, Adjust, SetMinimum, EditSizes, PayHere,
                 Attempt, vars
  <2>7. call'[d] = call[d]
    BY <2>4, <2>5, <2>6 DEF Next
  <2> QED BY <2>1, <2>7 DEF Confirming
<1> QED BY <1>1, <1>2, <1>3

(* Once nobody is working on its payment, a paid order is confirmed: what its *)
(* confirmation sells, it has reserved.  For as long as the process runs: a   *)
(* restart between the write of the payment and confirmOrder leaves the order *)
(* PENDING (payments.service.ts writes the two in statements of their own).   *)
THEOREM PaidConfirmed ==
  Spec /\ []CancelsAlone /\ [](crashes = 0) => []PaidIsConfirmed
<1>1. PaidInv => PaidIsConfirmed
  BY DEF PaidInv, PaidIsConfirmed, Working, Confirming, Idle
<1>2. Init => OrderInv /\ Money /\ PaidInv
  <2>1. Init => PaidInv
    BY DEF Init, PaidInv
  <2> QED BY <2>1, OrderInvInductive, MoneyStart
<1>3. /\ OrderInv /\ Money /\ PaidInv /\ CancelsAlone /\ crashes = 0
      /\ [Next]_vars /\ (crashes = 0)'
      => OrderInv' /\ Money' /\ PaidInv'
  <2>1. OrderInv /\ Money /\ CancelsAlone /\ [Next]_vars => OrderInv' /\ Money'
    BY OrderInvInductive, MoneyKept DEF OrderInv
  <2>2. OrderInv' => TypeOK'
    BY DEF OrderInv, IInv
  <2> QED BY <2>1, <2>2, PaidKept
<1> QED BY <1>1, <1>2, <1>3, PTL DEF Spec

------------------------------------------------------------------------------
(* No two requests for one order, as it is while nobody clicks twice and no   *)
(* two people work on it; those for different orders run together.  Then what *)
(* a request read of its order is still so when it writes.                    *)
Apart ==
  \A c, d \in Slot :
    c # d /\ Busy(c) /\ Busy(d) => call[c].order # call[d].order

Fresh(q) ==
  /\ q.op = "advance" => orders[q.order] = "CONFIRMED" /\ Making(q.order) = {}
  /\ q.op = "deliver" => orders[q.order] = "COMPLETED"
  /\ q.op \in {"act", "floor"} =>
       \E action \in TaskAction :
         /\ Legal(action, tasks[q.order][q.product])
         /\ q.next = Acted(tasks[q.order][q.product], action)
  /\ q.op = "floor" =>
       /\ q.saw = orders[q.order]
       /\ q.target # "UNREAD" =>
            /\ q.target = SyncTarget(q.saw, Updated(q.order, q.product, q.next))
            /\ q.target = "NONE" \/ CanTransition(q.saw, q.target)
  /\ q.op \in {"payhere", "installments", "cod", "mark", "reject"}
       /\ q.step = "write" => payment[q.order].status # "COMPLETED"

(* The floor's tasks, by line: all inspected, all at quality control, some    *)
(* begun.  syncOrderStatus looks at nothing else.                             *)
Begun(t) == t.status # "PENDING" \/ t.started
AtControl(t) == t.stage = "QUALITY_CHECK"
Derived(row) ==
  Derive({row[p] : p \in {q \in Product : row[q] # NoTask}})

LEMMA DerivedByLine ==
  ASSUME NEW row
  PROVE  Derived(row) =
           IF \A p \in Product : row[p] # NoTask => Inspected(row[p])
           THEN "COMPLETED"
           ELSE IF \A p \in Product : row[p] # NoTask => AtControl(row[p])
           THEN "QUALITY_CHECK"
           ELSE IF \E p \in Product : row[p] # NoTask /\ Begun(row[p])
           THEN "IN_PRODUCTION"
           ELSE "NONE"
<1> DEFINE T == {row[p] : p \in {q \in Product : row[q] # NoTask}}
<1>1. /\ (\A t \in T : Inspected(t)) <=>
           \A p \in Product : row[p] # NoTask => Inspected(row[p])
      /\ (\A t \in T : t.stage = "QUALITY_CHECK") <=>
           \A p \in Product : row[p] # NoTask => AtControl(row[p])
      /\ (\E t \in T : t.status # "PENDING" \/ t.started) <=>
           \E p \in Product : row[p] # NoTask /\ Begun(row[p])
  BY Zenon DEF AtControl, Begun
<1>2. Derived(row) = Derive(T)
  BY DEF Derived
<1> HIDE DEF T
<1>3. Derive(T) = IF \A t \in T : Inspected(t) THEN "COMPLETED"
                  ELSE IF \A t \in T : t.stage = "QUALITY_CHECK"
                  THEN "QUALITY_CHECK"
                  ELSE IF \E t \in T : t.status # "PENDING" \/ t.started
                  THEN "IN_PRODUCTION" ELSE "NONE"
  BY DEF Derive
<1> QED BY <1>1, <1>2, <1>3

(* What the derivation sees of a task, after an action.                       *)
LEMMA ActedSeen ==
  ASSUME NEW t \in TaskMade, NEW action \in TaskAction, Legal(action, t)
  PROVE  /\ Acted(t, action) \in TaskMade
         /\ Acted(t, action).started = (t.started \/ action = "start")
         /\ Acted(t, action).worker = t.worker
         /\ action = "start" => /\ Begun(Acted(t, action))
                                /\ Acted(t, action).stage = t.stage
         /\ action # "start" => t.status # "PENDING"
         /\ Inspected(Acted(t, action)) => AtControl(t)
         /\ ~Inspected(t)
<1> DEFINE next == ApplyAction(action, t)
           a == Acted(t, action)
<1>1. a \in TaskMade
  BY ActedType
<1>2. a = [t EXCEPT !.stage = next.stage, !.status = next.status,
                    !.started = @ \/ action = "start"]
  BY Zenon DEF Acted
<1>3. /\ a.stage = next.stage /\ a.status = next.status
      /\ a.started = (t.started \/ action = "start") /\ a.worker = t.worker
  BY <1>2 DEF TaskMade
<1>4. action = "start" => next.status = "IN_PROGRESS" /\ next.stage = t.stage
  BY DEF ApplyAction
<1>5. action # "start" => t.status # "PENDING"
  BY DEF Legal, Begun
<1>6. Inspected(a) => AtControl(t)
  <2>1. action = "advance" => next.status = "PENDING"
    BY DEF ApplyAction
  <2>2. action = "qc_fail" => next.status = "PENDING"
    BY DEF ApplyAction
  <2>3. action \in {"start", "complete", "qc_pass"} => next.stage = t.stage
    BY DEF ApplyAction
  <2> QED BY <1>3, <2>1, <2>2, <2>3 DEF Inspected, AtControl, TaskAction
<1>7. ~Inspected(t)
  BY DEF Inspected, Legal, TaskAction
<1> HIDE DEF next, a
<1>8. action = "start" => a.status = "IN_PROGRESS" /\ a.stage = t.stage
  BY <1>3, <1>4
<1> QED BY <1>1, <1>3, <1>5, <1>6, <1>7, <1>8 DEF a, Begun

(* A task nobody has started is as createTasksForOrder made it.               *)
Untouched(row) ==
  \A p \in Product : row[p] # NoTask /\ ~row[p].started =>
    row[p].stage = "CUTTING" /\ row[p].status = "PENDING"

(* Where the derivation can go when one task of the row is acted on.          *)
LEMMA FloorMove ==
  ASSUME NEW row \in [Product -> TaskRow], Untouched(row),
         NEW p \in Product, row[p] # NoTask,
         NEW action \in TaskAction, Legal(action, row[p]),
         NEW after \in [Product -> TaskRow],
         \A q \in Product :
           after[q] = IF q = p THEN Acted(row[p], action) ELSE row[q]
  PROVE  /\ Untouched(after)
         /\ Derived(row) # "COMPLETED" /\ Derived(after) # "NONE"
         /\ Derived(row) = "NONE" => Derived(after) = "IN_PRODUCTION"
         /\ Derived(row) = "IN_PRODUCTION" => Derived(after) # "COMPLETED"
<1> DEFINE t == row[p]
           a == Acted(t, action)
<1>1. t \in TaskMade
  BY DEF TaskRow
<1>2. /\ a \in TaskMade /\ a.started = (t.started \/ action = "start")
      /\ action = "start" => Begun(a) /\ a.stage = t.stage
      /\ action # "start" => t.status # "PENDING"
      /\ Inspected(a) => AtControl(t)
      /\ ~Inspected(t)
  BY <1>1, ActedSeen
<1>3. after[p] = a /\ after[p] # NoTask
  BY <1>2, TaskMadeIsRow
<1> HIDE DEF t, a
<1>4. a.started
  BY <1>2 DEF Untouched, t
<1>5. Untouched(after)
  BY <1>3, <1>4 DEF Untouched
<1>6. Derived(row) # "COMPLETED"
  BY <1>2, DerivedByLine DEF t
<1>7. Derived(after) # "NONE"
  BY <1>3, <1>4, DerivedByLine DEF Begun
<1>8. ASSUME Derived(row) = "NONE" PROVE Derived(after) = "IN_PRODUCTION"
  <2>1. ~Begun(t)
    BY <1>8, DerivedByLine DEF t
  <2>2. t.stage = "CUTTING" /\ action = "start"
    BY <1>2, <2>1 DEF Untouched, Begun, t
  <2>3. ~AtControl(a) /\ ~Inspected(a)
    BY <1>2, <2>2 DEF AtControl, Inspected
  <2> QED BY <1>3, <1>7, <2>3, DerivedByLine
<1>9. ASSUME Derived(row) = "IN_PRODUCTION" PROVE Derived(after) # "COMPLETED"
  <2>1. PICK q \in Product : row[q] # NoTask /\ ~AtControl(row[q])
    BY <1>9, DerivedByLine
  <2>2. CASE q = p
    <3>1. ~Inspected(a)
      BY <1>2, <2>1, <2>2 DEF t
    <3> QED BY <1>3, <3>1, DerivedByLine
  <2>3. CASE q # p
    <3>1. after[q] = row[q] /\ ~Inspected(row[q])
      BY <2>1, <2>3 DEF AtControl, Inspected
    <3> QED BY <2>1, <3>1, DerivedByLine
  <2> QED BY <2>2, <2>3
<1> QED BY <1>5, <1>6, <1>7, <1>8, <1>9

(* The UPDATE of a task that nobody else has moved.                           *)
LEMMA UpdatedIs ==
  ASSUME TypeOK, NEW o \in Order, NEW p \in Product, tasks[o][p] # NoTask,
         NEW action \in TaskAction, Legal(action, tasks[o][p]),
         NEW next, next = Acted(tasks[o][p], action)
  PROVE  /\ Updated(o, p, next) \in [Product -> TaskRow]
         /\ \A q \in Product :
              Updated(o, p, next)[q] = IF q = p THEN next ELSE tasks[o][q]
<1>1. tasks[o] \in [Product -> TaskRow] /\ tasks[o][p] \in TaskMade
  BY DEF TypeOK, TaskRow
<1>2. /\ next \in TaskMade /\ next.worker = tasks[o][p].worker
      /\ next.started = (tasks[o][p].started \/ action = "start")
  BY <1>1, ActedSeen
<1>3. Updated(o, p, next) \in [Product -> TaskRow]
  BY <1>2, UpdatedType
<1> DEFINE t == tasks[o][p]
           u == [t EXCEPT !.stage = next.stage, !.status = next.status,
                          !.started = @ \/ next.started]
<1>4. Updated(o, p, next) = [tasks[o] EXCEPT ![p] = u]
  BY DEF Updated, TypeOK
<1>5. u = next
  <2>1. (t.started \/ next.started) = next.started
    BY <1>1, <1>2 DEF TaskMade
  <2> QED BY <1>1, <1>2, <2>1 DEF TaskMade
<1> HIDE DEF u
<1> QED BY <1>1, <1>3, <1>4, <1>5

(* An order with something to make stands where its tasks say.                *)
Shape(row, status) ==
  /\ \E p \in Product : row[p] # NoTask
  /\ status \notin {"CANCELLED", "DELIVERED"}
  => \/ Derived(row) = status
     \/ Derived(row) = "NONE" /\ status = "CONFIRMED"
Shapes ==
  \A o \in Order : Untouched(tasks[o]) /\ Shape(tasks[o], orders[o])
Serial == Shapes /\ \A c \in Slot : Fresh(call[c])

LEMMA NotYetMade ==
  ASSUME NEW row, NEW status \in {"ABSENT", "PENDING"}, Shape(row, status)
  PROVE  \A p \in Product : row[p] = NoTask
BY DerivedByLine DEF Shape

(* syncOrderStatus never meets an edge the graph does not have.               *)
LEMMA FloorFollows ==
  ASSUME TypeOK, NEW o \in Order, Untouched(tasks[o]),
         Shape(tasks[o], orders[o]), NEW p \in Product, tasks[o][p] # NoTask,
         NEW action \in TaskAction, Legal(action, tasks[o][p]),
         NEW next, next = Acted(tasks[o][p], action),
         NEW target, target = SyncTarget(orders[o], Updated(o, p, next))
  PROVE  /\ target = "NONE" \/ CanTransition(orders[o], target)
         /\ Untouched(Updated(o, p, next))
         /\ Shape(Updated(o, p, next),
                  IF target = "NONE" THEN orders[o] ELSE target)
<1> DEFINE row == tasks[o]
           after == Updated(o, p, next)
<1>1. /\ row \in [Product -> TaskRow] /\ after \in [Product -> TaskRow]
      /\ \A q \in Product :
           after[q] = IF q = p THEN Acted(row[p], action) ELSE row[q]
  BY UpdatedIs DEF TypeOK
<1>2. target = IF \/ orders[o] \in {"CANCELLED", "DELIVERED"}
                  \/ Derived(after) = orders[o]
               THEN "NONE" ELSE Derived(after)
  BY Zenon DEF SyncTarget, Derived
<1> HIDE DEF row, after
<1>3. /\ Untouched(after)
      /\ Derived(row) # "COMPLETED" /\ Derived(after) # "NONE"
      /\ Derived(row) = "NONE" => Derived(after) = "IN_PRODUCTION"
      /\ Derived(row) = "IN_PRODUCTION" => Derived(after) # "COMPLETED"
  BY <1>1, FloorMove DEF row
<1>4. /\ Derived(row) \in
           {"COMPLETED", "QUALITY_CHECK", "IN_PRODUCTION", "NONE"}
      /\ Derived(after) \in
           {"COMPLETED", "QUALITY_CHECK", "IN_PRODUCTION", "NONE"}
  BY DerivedByLine
<1>5. \/ orders[o] \in {"CANCELLED", "DELIVERED"}
      \/ Derived(row) = orders[o]
      \/ Derived(row) = "NONE" /\ orders[o] = "CONFIRMED"
  BY DEF Shape, row
<1>0. orders[o] # "NONE"
  BY DEF TypeOK, AnyStatus, OrderStatus
<1>6. Shape(after, IF target = "NONE" THEN orders[o] ELSE target)
  BY <1>2, <1>3, <1>4 DEF Shape
<1>7. target = "NONE" \/ CanTransition(orders[o], target)
  <2>1. CASE target # "NONE"
    <3>1. target = Derived(after) /\ Derived(after) # orders[o]
      BY <1>2, <2>1
    <3>2. \/ orders[o] = "QUALITY_CHECK"
               /\ target \in {"COMPLETED", "IN_PRODUCTION"}
          \/ orders[o] = "IN_PRODUCTION" /\ target = "QUALITY_CHECK"
          \/ orders[o] = "CONFIRMED" /\ target = "IN_PRODUCTION"
      BY <1>0, <1>2, <1>3, <1>4, <1>5, <2>1, <3>1
    <3> QED BY <3>2 DEF CanTransition, Transitions
  <2> QED BY <2>1
<1> QED BY <1>3, <1>6, <1>7 DEF after

(* A step that writes one order, or one order's tasks.                        *)
LEMMA OneShapeMoves ==
  ASSUME Shapes, NEW o \in Order,
         \A x \in Order : x # o => /\ orders'[x] = orders[x]
                                   /\ tasks'[x] = tasks[x],
         Untouched(tasks'[o]), Shape(tasks'[o], orders'[o])
  PROVE  Shapes'
<1>1. \A x \in Order : Untouched(tasks'[x]) /\ Shape(tasks'[x], orders'[x])
  BY DEF Shapes
<1> QED BY <1>1, Zenon DEF Shapes, Untouched, Shape, Derived

LEMMA ShapesStay ==
  ASSUME Shapes, UNCHANGED <<orders, tasks>>
  PROVE  Shapes'
<1>1. \A x \in Order : Untouched(tasks'[x]) /\ Shape(tasks'[x], orders'[x])
  BY DEF Shapes
<1> QED BY <1>1, Zenon DEF Shapes, Untouched, Shape, Derived

LEMMA FreshStays ==
  ASSUME NEW q, Fresh(q), NEW o, o = q.order, orders'[o] = orders[o],
         tasks'[o] = tasks[o], payment'[o] = payment[o]
  PROVE  Fresh(q)'
BY DEF Fresh, Making, Updated

(* A request writes the status, the tasks and the payment of its order only.  *)
LEMMA TouchesOwn ==
  ASSUME TypeOK, NEW c \in Slot, Continue(c), NEW o \in Order,
         o # call[c].order
  PROVE  orders'[o] = orders[o] /\ tasks'[o] = tasks[o]
         /\ payment'[o] = payment[o]
<1>1. orders'[o] = orders[o]
  BY StatusMoved DEF Writes, TypeOK
<1>2. payment'[o] = payment[o]
  BY ContinuePaysOwn DEF PaysOwn
<1>3. call[c].order \in Order
  BY ContinueIsBusy, BusyHasOrder
<1>4. \/ tasks' = tasks
      \/ \E row : tasks' = [tasks EXCEPT ![call[c].order] = row]
  <2>1. CASE AssignWrite(c)
    BY <2>1 DEF AssignWrite
  <2>2. CASE ActCommit(c)
    BY <2>2, Zenon DEF ActCommit
  <2>3. CASE PayConfirm(c) \/ NotifyConfirm(c)
    <3>1. ConfirmOrder(call[c].order)
      BY <2>3, Zenon DEF PayConfirm, NotifyConfirm
    <3> QED BY <3>1, Zenon DEF ConfirmOrder
  <2>4. CASE \/ CreateCommit(c) \/ CancelCommit(c) \/ VerbCommit(c)
             \/ ActUpdate(c) \/ ActDerive(c) \/ PayWrite(c)
             \/ StripeSettle(c) \/ NotifyWrite(c) \/ NotifyFinish(c)
    BY <2>4, Zenon
    DEF CreateCommit, CancelCommit, VerbCommit, ActUpdate, ActDerive, PayWrite,
        StripeSettle, NotifyWrite, NotifyFinish, orderTables
  <2> QED BY <2>1, <2>2, <2>3, <2>4, Zenon DEF Continue
<1>5. tasks'[o] = tasks[o]
  BY <1>3, <1>4 DEF TypeOK
<1> QED BY <1>1, <1>2, <1>5

(* Nothing that a request which reads no more needs.                          *)
LEMMA FreshTrivially ==
  ASSUME NEW q, q.op \notin {"advance", "deliver", "act", "floor"},
         q.step # "write" \/ q.op \notin PayOps
  PROVE  Fresh(q)'
BY DEF Fresh, PayOps

(* createTasksForOrder sets up tasks nobody has touched.                      *)
LEMMA ConfirmShapes ==
  ASSUME TypeOK, Shapes, NEW o \in Order, ConfirmOrder(o)
  PROVE  Shapes'
<1>1. CASE UNCHANGED <<orders, tasks>>
  BY <1>1, ShapesStay
<1>2. CASE /\ Confirmable(o)
           /\ orders' = [orders EXCEPT ![o] = "CONFIRMED"]
           /\ tasks' = [tasks EXCEPT ![o] = TasksForOrder(o)]
  <2>1. \A p \in Product : tasks[o][p] = NoTask
    <3>1. orders[o] = "PENDING" /\ Shape(tasks[o], orders[o])
      BY <1>2 DEF Confirmable, Shapes
    <3> QED BY <3>1, NotYetMade
  <2>2. TasksForOrder(o) = FreshTasks(o)
    BY <2>1 DEF TasksForOrder, TasksOf
  <2>3. /\ \A x \in Order : x # o => /\ orders'[x] = orders[x]
                                     /\ tasks'[x] = tasks[x]
        /\ orders'[o] = "CONFIRMED" /\ tasks'[o] = FreshTasks(o)
    BY <1>2, <2>2 DEF TypeOK
  <2> DEFINE row == FreshTasks(o)
  <2>4. \A p \in Product :
          row[p] # NoTask =>
            /\ row[p].stage = "CUTTING" /\ row[p].status = "PENDING"
            /\ ~row[p].started
    BY DEF FreshTasks
  <2> HIDE DEF row
  <2>5. Untouched(row)
    BY <2>4 DEF Untouched
  <2>6. Shape(row, "CONFIRMED")
    BY <2>4, DerivedByLine DEF Shape, Inspected, AtControl, Begun
  <2> QED BY <2>3, <2>5, <2>6, OneShapeMoves DEF row
<1> QED BY <1>1, <1>2, Zenon DEF ConfirmOrder

(* An assignment is not something the derivation sees.                        *)
LEMMA AssignShapes ==
  ASSUME IInv, Shapes, NEW c \in Slot, AssignWrite(c)
  PROVE  Shapes'
<1> DEFINE o == call[c].order
           p == call[c].product
           w == call[c].worker
           u == [tasks[o][p] EXCEPT !.worker = w]
<1>1. /\ call[c].op = "assign" /\ orders' = orders
      /\ tasks' = [tasks EXCEPT ![o][p].worker = w]
  BY DEF AssignWrite
<1>2. /\ o \in Order /\ p \in Product /\ w \in Worker
      /\ tasks[o][p] \in TaskMade
  BY <1>1, CallByOp
  DEF IInv, TypeOK, AssignCall, FloorHasTask, FloorOp, TaskRow
<1>3. /\ \A x \in Order : x # o => tasks'[x] = tasks[x]
      /\ tasks'[o] = [tasks[o] EXCEPT ![p] = u]
  BY <1>1, <1>2 DEF IInv, TypeOK
<1>4. /\ u.stage = tasks[o][p].stage /\ u.status = tasks[o][p].status
      /\ u.started = tasks[o][p].started /\ u \in TaskMade
  BY <1>2 DEF TaskMade
<1> HIDE DEF u
<1> DEFINE row == tasks[o]
           after == tasks'[o]
<1>5. \A q \in Product :
        /\ after[q] # NoTask <=> row[q] # NoTask
        /\ row[q] # NoTask => /\ after[q].stage = row[q].stage
                              /\ after[q].status = row[q].status
                              /\ after[q].started = row[q].started
  BY <1>2, <1>3, <1>4, TaskMadeIsRow DEF IInv, TypeOK
<1>6. Untouched(row) /\ Shape(row, orders[o])
  BY <1>2 DEF Shapes
<1> HIDE DEF row, after
<1>7. Untouched(after)
  BY <1>5, <1>6 DEF Untouched
<1>8. Derived(after) = Derived(row)
  BY <1>5, DerivedByLine DEF Inspected, AtControl, Begun
<1>9. Shape(after, orders[o])
  BY <1>5, <1>6, <1>8 DEF Shape
<1> QED BY <1>1, <1>2, <1>3, <1>7, <1>9, OneShapeMoves DEF after

(* act commits what it derived.                                               *)
LEMMA FloorShapes ==
  ASSUME IInv, Serial, NEW c \in Slot, ActCommit(c)
  PROVE  Shapes'
<1> DEFINE o == call[c].order
           p == call[c].product
           next == call[c].next
           target == call[c].target
           after == Updated(o, p, next)
<1>1. /\ call[c].op = "floor" /\ target # "UNREAD"
      /\ tasks' = [tasks EXCEPT ![o] = after]
      /\ IF target = "NONE" THEN orders' = orders
                            ELSE orders' = [orders EXCEPT ![o] = target]
  BY Zenon DEF ActCommit
<1>2. /\ o \in Order /\ p \in Product /\ tasks[o][p] # NoTask
  BY <1>1, CallByOp
  DEF IInv, TypeOK, FloorCall, FloorHasTask, FloorOp
<1>3. PICK action \in TaskAction :
        Legal(action, tasks[o][p]) /\ next = Acted(tasks[o][p], action)
  BY <1>1 DEF Serial, Fresh
<1>4. target = SyncTarget(orders[o], after)
  BY <1>1 DEF Serial, Fresh
<1>5. Untouched(tasks[o]) /\ Shape(tasks[o], orders[o])
  BY <1>2 DEF Serial, Shapes
<1>6. /\ Untouched(after)
      /\ Shape(after, IF target = "NONE" THEN orders[o] ELSE target)
  BY <1>2, <1>3, <1>4, <1>5, FloorFollows DEF IInv
<1> HIDE DEF after
<1>7. /\ \A x \in Order : x # o => /\ orders'[x] = orders[x]
                                   /\ tasks'[x] = tasks[x]
      /\ tasks'[o] = after
      /\ orders'[o] = IF target = "NONE" THEN orders[o] ELSE target
  BY <1>1, <1>2 DEF IInv, TypeOK
<1> QED BY <1>2, <1>6, <1>7, OneShapeMoves DEF Serial

(* What the other steps write is a status, and of an order without tasks or   *)
(* done with them.                                                            *)
LEMMA StatusShapes ==
  ASSUME IInv, Deducts, Serial, NEW c \in Slot,
         CreateCommit(c) \/ CancelCommit(c) \/ VerbCommit(c)
  PROVE  Shapes'
<1>1. tasks' = tasks
  BY Zenon DEF CreateCommit, CancelCommit, VerbCommit
<1>2. call[c].op \in {"create", "cancel", "advance", "deliver"}
  BY Zenon DEF CreateCommit, CancelCommit, VerbCommit
<1>3. Continue(c)
  BY Zenon DEF Continue
<1>4. CASE UNCHANGED orders
  BY <1>1, <1>4, ShapesStay DEF Serial
<1>5. CASE ~ UNCHANGED orders
  <2>1. PICK o \in Order, from \in AnyStatus, to \in OrderStatus :
          o = call[c].order /\ Writes(o, from, to) /\ Writer(call[c], from, to)
    BY <1>3, <1>5, StatusMoved DEF IInv
  <2>2. /\ \A x \in Order : x # o => orders'[x] = orders[x]
        /\ orders'[o] = to
    BY <2>1 DEF Writes, IInv, TypeOK
  <2>3. Untouched(tasks[o]) /\ Shape(tasks[o], orders[o])
    BY DEF Serial, Shapes
  <2>4. Shape(tasks[o], to)
    <3>1. CASE call[c].op = "create"
      <4>1. orders[o] = "ABSENT"
        BY <2>1, <3>1 DEF Deducts, CallFits
      <4> QED BY <2>3, <4>1, NotYetMade DEF Shape
    <3>2. CASE call[c].op = "advance"
      <4>1. Making(o) = {}
        BY <2>1, <3>2 DEF Serial, Fresh
      <4> QED BY <4>1 DEF Making, Shape
    <3>3. CASE call[c].op \in {"cancel", "deliver"}
      BY <2>1, <3>3 DEF Writer, Shape
    <3> QED BY <1>2, <3>1, <3>2, <3>3
  <2> QED BY <1>1, <2>2, <2>3, <2>4, OneShapeMoves DEF Serial
<1> QED BY <1>4, <1>5

(* What a request carries on with.                                            *)
LEMMA FreshFloor ==
  ASSUME TypeOK, Serial, NEW c \in Slot, ActUpdate(c) \/ ActDerive(c)
  PROVE  \E q : call' = [call EXCEPT ![c] = q] /\ Fresh(q)
<1> DEFINE r == call[c]
<1>1. CASE ActUpdate(c)
  <2> DEFINE q == [op |-> "floor", order |-> r.order, product |-> r.product,
                   next |-> r.next, saw |-> orders[r.order],
                   target |-> "UNREAD"]
  <2>1. r.op = "act" /\ call' = [call EXCEPT ![c] = q]
    BY <1>1, Zenon DEF ActUpdate
  <2>2. Fresh(r)
    BY DEF Serial
  <2>3. Fresh(q)
    BY <2>1, <2>2 DEF Fresh
  <2> HIDE DEF q
  <2> QED BY <2>1, <2>3
<1>2. CASE ActDerive(c)
  <2>1. r \in FloorCall /\ r.op = "floor" /\ Fresh(r)
    BY <1>2, CallByOp DEF ActDerive, TypeOK, Serial
  <2>2. PICK target :
          /\ target = SyncTarget(r.saw, Updated(r.order, r.product, r.next))
          /\ call' = [call EXCEPT ![c] =
               IF target = "NONE" \/ CanTransition(r.saw, target)
               THEN [r EXCEPT !.target = target] ELSE Idle]
    BY <1>2, Zenon DEF ActDerive
  <2> DEFINE q == [r EXCEPT !.target = target]
  <2>3. /\ q.op = "floor" /\ q.order = r.order /\ q.product = r.product
        /\ q.next = r.next /\ q.saw = r.saw /\ q.target = target
    BY <2>1 DEF FloorCall
  <2> HIDE DEF q
  <2>4. target = "NONE" \/ CanTransition(r.saw, target) => Fresh(q)
    BY <2>1, <2>2, <2>3 DEF Fresh
  <2>5. Fresh(Idle)
    BY DEF Fresh, Idle
  <2>6. call' = [call EXCEPT ![c] =
          IF target = "NONE" \/ CanTransition(r.saw, target) THEN q ELSE Idle]
    BY <2>2 DEF q
  <2> QED BY <2>4, <2>5, <2>6
<1> QED BY <1>1, <1>2

LEMMA EndsOrPays ==
  ASSUME TypeOK, NEW c \in Slot, Continue(c), ~ActUpdate(c), ~ActDerive(c)
  PROVE  \E q : /\ call' = [call EXCEPT ![c] = q]
                /\ q.op \notin {"advance", "deliver", "act", "floor"}
                /\ q.step # "write" \/ q.op \notin PayOps
<1>1. CASE \/ CreateCommit(c) \/ CancelCommit(c) \/ VerbCommit(c)
           \/ AssignWrite(c) \/ ActCommit(c) \/ PayConfirm(c)
           \/ NotifyFinish(c)
  <2>1. call' = [call EXCEPT ![c] = Idle]
    BY <1>1, Zenon DEF CreateCommit, CancelCommit, VerbCommit, AssignWrite,
                       ActCommit, PayConfirm, NotifyFinish
  <2>2. Idle.op \notin {"advance", "deliver", "act", "floor"} \cup PayOps
    BY DEF Idle, PayOps
  <2> QED BY <2>1, <2>2
<1>2. CASE PayWrite(c) \/ StripeSettle(c) \/ NotifyWrite(c) \/ NotifyConfirm(c)
  <2>1. /\ call[c] \in PayCall \/ call[c] \in NotifyCall
        /\ call[c].op \in PayOps
    BY <1>2, CallByOp
    DEF PayWrite, StripeSettle, NotifyWrite, NotifyConfirm, TypeOK, PayOps
  <2>2. \E step \in {"confirm", "finish"} :
          \/ call' = [call EXCEPT ![c] = Idle]
          \/ call' = [call EXCEPT ![c] = [call[c] EXCEPT !.step = step]]
    <3>1. CASE PayWrite(c) \/ NotifyConfirm(c)
      BY <3>1, Zenon DEF PayWrite, NotifyConfirm
    <3>2. CASE StripeSettle(c) \/ NotifyWrite(c)
      BY <3>2 DEF StripeSettle, NotifyWrite
    <3> QED BY <1>2, <3>1, <3>2
  <2>3. PICK step \in {"confirm", "finish"} :
          \/ call' = [call EXCEPT ![c] = Idle]
          \/ call' = [call EXCEPT ![c] = [call[c] EXCEPT !.step = step]]
    BY <2>2
  <2>4. /\ Idle.op \notin {"advance", "deliver", "act", "floor"}
        /\ Idle.op \notin PayOps
    BY DEF Idle, PayOps
  <2>5. /\ [call[c] EXCEPT !.step = step].op = call[c].op
        /\ [call[c] EXCEPT !.step = step].step = step
    BY <2>1 DEF PayCall, NotifyCall
  <2>6. call[c].op \notin {"advance", "deliver", "act", "floor"}
    BY <2>1 DEF PayOps
  <2> QED BY <2>3, <2>4, <2>5, <2>6
<1> QED BY <1>1, <1>2, Zenon DEF Continue

LEMMA FreshKept ==
  ASSUME Apart, TypeOK, Serial, [Next]_vars
  PROVE  \A d \in Slot : Fresh(call[d])'
<1>0. ASSUME NEW c \in Slot, NEW q, call' = [call EXCEPT ![c] = q], Fresh(q)',
             NEW d \in Slot,
             d # c /\ Busy(d) => LET o == call[d].order IN
                                /\ orders'[o] = orders[o]
                                /\ tasks'[o] = tasks[o]
                                /\ payment'[o] = payment[o]
      PROVE  Fresh(call[d])'
  <2>1. call'[d] = IF d = c THEN q ELSE call[d]
    BY <1>0 DEF TypeOK
  <2>2. CASE d = c
    BY <1>0, <2>1, <2>2 DEF Fresh
  <2>3. CASE d # c
    <3>1. PICK r, x : r = call[d] /\ x = r.order
      OBVIOUS
    <3>2. Fresh(r)
      BY <3>1 DEF Serial
    <3>3. Fresh(r)'
      <4>1. CASE ~Busy(d)
        BY <3>1, <4>1, FreshTrivially DEF Busy, Idle, PayOps
      <4>2. CASE Busy(d)
        BY <1>0, <2>3, <3>1, <3>2, <4>2, FreshStays
      <4> QED BY <4>1, <4>2
    <3> QED BY <2>1, <2>3, <3>1, <3>3 DEF Fresh
  <2> QED BY <2>2, <2>3
<1>1. ASSUME NEW c \in Slot, Accept(c), NEW d \in Slot
      PROVE  Fresh(call[d])'
  <2>1. UNCHANGED <<orders, tasks, payment>>
    BY <1>1, Zenon
    DEF Accept, CreateRead, CancelRead, VerbRead, PayRead, StripeSucceeded,
        NotifyRecord, AssignRead, ActRead, orderTables, moneyTables
  <2>2. PICK q : call' = [call EXCEPT ![c] = q] /\ Asked(q)
    BY <1>1, TakenOn
  <2>3. Fresh(q)
    BY <2>2 DEF Asked, Fresh, Payable, MayAdvance, MayDeliver, TasksOf, Making
  <2>4. Fresh(q)'
    BY <2>1, <2>3, FreshStays
  <2> QED BY <1>0, <2>1, <2>2, <2>4
<1>2. ASSUME NEW c \in Slot, Continue(c), NEW d \in Slot
      PROVE  Fresh(call[d])'
  <2>0. d # c /\ Busy(d) => /\ call[d].order \in Order
                            /\ call[d].order # call[c].order
    BY <1>2, BusyHasOrder, ContinueIsBusy DEF Apart
  <2>1. CASE ActUpdate(c) \/ ActDerive(c)
    <3>1. PICK q : call' = [call EXCEPT ![c] = q] /\ Fresh(q)
      BY <2>1, FreshFloor
    <3>2. UNCHANGED <<orders, tasks, payment>>
      BY <2>1, Zenon DEF ActUpdate, ActDerive, orderTables, moneyTables
    <3>3. Fresh(q)'
      BY <3>1, <3>2, FreshStays
    <3> QED BY <1>0, <3>1, <3>2, <3>3
  <2>2. CASE ~ActUpdate(c) /\ ~ActDerive(c)
    <3>1. PICK q : call' = [call EXCEPT ![c] = q] /\ Fresh(q)'
      BY <1>2, <2>2, EndsOrPays, FreshTrivially
    <3> QED BY <1>0, <1>2, <2>0, <3>1, TouchesOwn
  <2> QED BY <2>1, <2>2
<1>3. CASE StockKeeping \/ PayHere \/ UNCHANGED vars
  <2>1. UNCHANGED <<orders, tasks, payment>> /\ call' = call
    BY <1>3, Zenon DEF StockKeeping, Adjust, SetMinimum, EditSizes, PayHere,
                       Attempt, vars, orderTables, moneyTables
  <2>2. \A d \in Slot : Fresh(call[d])
    BY DEF Serial
  <2> QED BY <2>1, <2>2 DEF Fresh, Making, Updated
<1>4. CASE Restart
  BY <1>4 DEF Restart, Fresh, Idle
<1> QED BY <1>1, <1>2, <1>3, <1>4, Zenon DEF Next

LEMMA SerialKept ==
  ASSUME Apart, IInv, Deducts, Serial, [Next]_vars
  PROVE  Serial'
<1>1. Shapes'
  <2>1. CASE ~ \E c \in Slot : Continue(c)
    BY <2>1, OthersLeaveOrders, ShapesStay DEF Serial
  <2>2. ASSUME NEW c \in Slot, Continue(c) PROVE Shapes'
    <3>1. CASE CreateCommit(c) \/ CancelCommit(c) \/ VerbCommit(c)
      BY <3>1, StatusShapes
    <3>2. CASE AssignWrite(c)
      BY <3>2, AssignShapes DEF Serial
    <3>3. CASE ActCommit(c)
      BY <3>3, FloorShapes
    <3>4. CASE PayConfirm(c) \/ NotifyConfirm(c)
      <4>1. ConfirmOrder(call[c].order)
        BY <3>4, Zenon DEF PayConfirm, NotifyConfirm
      <4>2. call[c].order \in Order
        BY <3>4, CallByOp
        DEF PayConfirm, NotifyConfirm, IInv, TypeOK, PayCall, NotifyCall
      <4> QED BY <4>1, <4>2, ConfirmShapes DEF IInv, Serial
    <3>5. CASE \/ ActUpdate(c) \/ ActDerive(c) \/ PayWrite(c)
               \/ StripeSettle(c) \/ NotifyWrite(c) \/ NotifyFinish(c)
      <4>1. UNCHANGED <<orders, tasks>>
        BY <3>5, Zenon DEF ActUpdate, ActDerive, PayWrite, StripeSettle,
                           NotifyWrite, NotifyFinish, orderTables
      <4> QED BY <4>1, ShapesStay DEF Serial
    <3> QED BY <2>2, <3>1, <3>2, <3>3, <3>4, <3>5, Zenon DEF Continue
  <2> QED BY <2>1, <2>2
<1>2. \A d \in Slot : Fresh(call[d])'
  BY FreshKept DEF IInv
<1> QED BY <1>1, <1>2 DEF Serial

LEMMA SerialStart == Init => Serial
BY DEF Init, Serial, Shapes, Untouched, Shape, Fresh, Idle

------------------------------------------------------------------------------
(* Requests kept apart keep both invariants.                                  *)
LEMMA SerialInductive ==
  /\ Init => OrderInv /\ Serial
  /\ OrderInv /\ Serial /\ Apart /\ [Next]_vars => OrderInv' /\ Serial'
<1>1. Apart => CancelsAlone
  BY DEF Apart, CancelsAlone, Busy, Idle
<1> QED BY <1>1, OrderInvInductive, SerialStart, SerialKept DEF OrderInv

(* Whoever writes a status has seen the one it replaces, and the graph allows *)
(* the move.                                                                  *)
LEMMA AlongTheGraph ==
  ASSUME OrderInv, Serial, [Next]_vars, NEW o \in Order,
         orders'[o] # orders[o] \/ trail'[o] # trail[o]
  PROVE  /\ trail'[o] = <<orders[o], orders'[o]>>
         /\ \/ orders[o] = "ABSENT" /\ orders'[o] = "PENDING"
            \/ CanTransition(orders[o], orders'[o])
<1>1. PICK c \in Slot : Continue(c)
  BY OthersLeaveOrders
<1>2. PICK x \in Order, from \in AnyStatus, to \in OrderStatus :
        x = call[c].order /\ Writes(x, from, to) /\ Writer(call[c], from, to)
  BY <1>1, StatusMoved DEF OrderInv, IInv
<1>3. x = o /\ orders'[o] = to /\ trail'[o] = <<from, to>>
  BY <1>2 DEF Writes, OrderInv, IInv, TypeOK
<1>4. /\ call[c].op = "create" => orders[o] = "ABSENT"
      /\ call[c].op = "cancel" =>
           call[c].saw = orders[o] /\ orders[o] \in {"PENDING", "CONFIRMED"}
      /\ Fresh(call[c])
  BY <1>2, <1>3
  DEF OrderInv, Deducts, CallFits, Settles, Informed, Serial
<1>5. /\ from = orders[o]
      /\ \/ from = "ABSENT" /\ to = "PENDING"
         \/ CanTransition(from, to)
  BY <1>2, <1>3, <1>4
  DEF Writer, Fresh, CanTransition, Transitions
<1> QED BY <1>3, <1>5

(* Plan section 4.1, as an action property: every status an order takes, from *)
(* checkout to delivery, it reaches along an edge of order.machine.ts.        *)
THEOREM GraphFollowed == Spec /\ []Apart => StatusFollowsGraph
<1>1. OrderInv /\ Serial /\ [Next]_vars =>
        \A o \in Order : orders'[o] # orders[o] =>
          \/ orders[o] = "ABSENT" /\ orders'[o] = "PENDING"
          \/ CanTransition(orders[o], orders'[o])
  BY AlongTheGraph
<1> QED BY <1>1, SerialInductive, PTL DEF Spec, StatusFollowsGraph

(* The tracking timeline tells every move, and from where to where.           *)
THEOREM TrailTrue == Spec /\ []Apart => TrailTellsTruth
<1>1. OrderInv /\ Serial /\ [Next]_vars =>
        \A o \in Order :
          trail'[o] # trail[o] \/ orders'[o] # orders[o] =>
            trail'[o] = <<orders[o], orders'[o]>>
  BY AlongTheGraph
<1> QED BY <1>1, SerialInductive, PTL DEF Spec, TrailTellsTruth

(* No request reopens a paid order's payment, except those the property       *)
(* names.                                                                     *)
THEOREM PaymentStays == Spec /\ []Apart => PaidStaysPaid
<1>1. ASSUME OrderInv, Serial, [Next]_vars, NEW o \in Order,
             payment[o].status = "COMPLETED", payment'[o].status # "COMPLETED"
      PROVE  Cancelled(o) \/ ReportsOn(o)
  <2>1. PICK c \in Slot : PaysBy(c) /\ call[c].order = o
    BY <1>1, PaidBySomebody DEF OrderInv, IInv
  <2>2. CASE CancelCommit(c)
    <3>1. /\ call[c].op = "cancel"
          /\ \/ payment' = payment
             \/ orders' = [orders EXCEPT ![o] = "CANCELLED"]
      BY <2>1, <2>2, Zenon DEF CancelCommit
    <3>2. orders'[o] = "CANCELLED"
      BY <1>1, <3>1 DEF OrderInv, IInv, TypeOK
    <3>3. orders[o] \in {"PENDING", "CONFIRMED"}
      BY <1>1, <2>1, <3>1 DEF OrderInv, Settles, Informed
    <3> QED BY <3>2, <3>3 DEF Cancelled
  <2>3. CASE PayWrite(c)
    <3>1. /\ call[c].op \in {"payhere", "installments", "cod", "mark",
                             "reject"}
          /\ call[c].step = "write"
      BY <2>3, Zenon DEF PayWrite
    <3> QED BY <1>1, <2>1, <3>1 DEF Serial, Fresh
  <2>4. CASE StripeSettle(c)
    BY <2>1, <2>4 DEF StripeSettle, ReportsOn, Idle
  <2>5. CASE NotifyWrite(c)
    <3>1. /\ call[c].op = "notify"
          /\ payment' = [payment EXCEPT ![o].status =
               IF call[c].code = "2" THEN "COMPLETED" ELSE "FAILED"]
      BY <2>1, <2>5 DEF NotifyWrite
    <3>2. call[c].code # "2"
      BY <1>1, <3>1 DEF OrderInv, IInv, TypeOK, PaymentRow
    <3> QED BY <2>1, <3>1, <3>2 DEF ReportsOn, Idle
  <2> QED BY <2>1, <2>2, <2>3, <2>4, <2>5 DEF PaysBy
<1>2. OrderInv /\ Serial /\ [Next]_vars =>
        \A o \in Order :
          payment[o].status = "COMPLETED" /\ payment'[o].status # "COMPLETED"
            => Cancelled(o) \/ ReportsOn(o)
  BY <1>1
<1> QED BY <1>2, SerialInductive, PTL DEF Spec, PaidStaysPaid

(* What an order's status says of its tasks, and its tasks of its status.     *)
LEMMA ShapeTells ==
  ASSUME NEW o \in Order, Shape(tasks[o], orders[o]), orders[o] \in AnyStatus
  PROVE  /\ orders[o] = "COMPLETED" => \A t \in TasksOf(o) : Inspected(t)
         /\ TasksOf(o) # {} /\ (\A t \in TasksOf(o) : Inspected(t))
              => orders[o] \in {"COMPLETED", "DELIVERED", "CANCELLED"}
<1>1. (\A t \in TasksOf(o) : Inspected(t)) <=>
        \A p \in Product : tasks[o][p] # NoTask => Inspected(tasks[o][p])
  BY Zenon DEF TasksOf
<1>2. TasksOf(o) # {} <=> \E p \in Product : tasks[o][p] # NoTask
  BY DEF TasksOf
<1>3. Derived(tasks[o]) = "COMPLETED" <=>
        \A p \in Product : tasks[o][p] # NoTask => Inspected(tasks[o][p])
  BY DerivedByLine
<1> QED BY <1>1, <1>2, <1>3 DEF Shape

(* syncOrderStatus: an order with garments to make is COMPLETED only while    *)
(* each has passed quality control.                                           *)
THEOREM CompletedInspected == Spec /\ []Apart => []CompletedMeansInspected
<1>1. OrderInv /\ Serial => CompletedMeansInspected
  BY ShapeTells
  DEF OrderInv, IInv, TypeOK, Serial, Shapes, CompletedMeansInspected
<1> QED BY <1>1, SerialInductive, PTL DEF Spec

(* And it is COMPLETED as soon as each has.                                   *)
THEOREM FloorDone == Spec /\ []Apart => []FloorFinishes
<1>1. OrderInv /\ Serial => FloorFinishes
  BY ShapeTells DEF OrderInv, IInv, TypeOK, Serial, Shapes, FloorFinishes
<1> QED BY <1>1, SerialInductive, PTL DEF Spec

(* assertTransition never throws in syncOrderStatus: the two machines agree   *)
(* on every move the floor can make, for orders of any size.                  *)
THEOREM MachinesAgree == Spec /\ []Apart => []FloorNeverRefused
<1>1. ASSUME OrderInv, Serial PROVE FloorNeverRefused
  <2> SUFFICES ASSUME NEW o \in Order, NEW p \in Product,
                      NEW action \in TaskAction, tasks[o][p] # NoTask,
                      Legal(action, tasks[o][p])
               PROVE  LET target ==
                            SyncTarget(orders[o],
                              Updated(o, p, Acted(tasks[o][p], action))) IN
                      target = "NONE" \/ CanTransition(orders[o], target)
    BY Zenon DEF FloorNeverRefused
  <2> DEFINE target == SyncTarget(orders[o],
                                  Updated(o, p, Acted(tasks[o][p], action)))
  <2>1. Untouched(tasks[o]) /\ Shape(tasks[o], orders[o]) /\ TypeOK
    BY <1>1 DEF OrderInv, IInv, Serial, Shapes
  <2>2. target = "NONE" \/ CanTransition(orders[o], target)
    BY <2>1, FloorFollows
  <2> QED BY <2>2
<1>2. OrderInv /\ Serial => FloorNeverRefused
  BY <1>1
<1> QED BY <1>2, SerialInductive, PTL DEF Spec

------------------------------------------------------------------------------
(* One request at a time, as in the serial runs, is a special case: whatever  *)
(* the orders, carts, workers and endpoints, the order, the floor and the     *)
(* history are in step, and without a restart a paid order is confirmed.      *)
THEOREM OneAtATime ==
  ASSUME \A c, d \in Slot : c = d
  PROVE  /\ Spec => /\ []SettledOnce /\ []ReservedBacksPending
                    /\ OrdersHoldTheirUnits /\ CancelVoidsDues
                    /\ StatusFollowsGraph /\ TrailTellsTruth /\ PaidStaysPaid
                    /\ []CompletedMeansInspected /\ []FloorFinishes
                    /\ []FloorNeverRefused
         /\ Spec /\ [](crashes = 0) => []PaidIsConfirmed
<1>1. CancelsAlone /\ Apart
  BY DEF CancelsAlone, Apart
<1>2. Spec => /\ []SettledOnce /\ []ReservedBacksPending
              /\ OrdersHoldTheirUnits /\ CancelVoidsDues
              /\ StatusFollowsGraph /\ TrailTellsTruth /\ PaidStaysPaid
              /\ []CompletedMeansInspected /\ []FloorFinishes
              /\ []FloorNeverRefused
  BY <1>1, SettledSafe, ReservedSafe, UnitsHeld, DuesVoided, GraphFollowed,
     TrailTrue, PaymentStays, CompletedInspected, FloorDone, MachinesAgree, PTL
<1>3. Spec /\ [](crashes = 0) => []PaidIsConfirmed
  BY <1>1, PaidConfirmed, PTL
<1> QED BY <1>2, <1>3
=============================================================================
