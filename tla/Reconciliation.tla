---------------------------- MODULE Reconciliation ----------------------------
(* The stock audit (backend/src/inventory/reconcile.ts, run by                *)
(* backend/scripts/reconcile-inventory.ts, with --repair or without), beside  *)
(* a shop that goes on trading.  The script is another client of the          *)
(* database: it opens no transaction, and each of its statements sees what    *)
(* has been committed when it starts.                                         *)
EXTENDS Integers

CONSTANTS
  Sku,
  Opening,        \* the rows the audit may find: balances, ledger and cache
  MaxUnits,       \* bounds a balance
  MaxTrades       \* bounds what the shop does meanwhile

ASSUME ReconciliationAssumption == MaxUnits \in Nat /\ MaxTrades \in Nat

VARIABLES
  shelves,     \* inventory, products.stock_quantity, and the ledger rebuilt
  script,      \* the run of the script
  report,      \* what findDrift found
  drifted,     \* history: the rows that had drifted before, or whose sizes
               \*   were edited, past the ledger
  moved,       \* history: the rows that moved since the repair read them
  trades

auditVars == <<shelves, script, report, drifted, moved, trades>>

Shelf == [available : 0 .. MaxUnits, reserved : 0 .. MaxUnits,
          cache : -MaxUnits .. MaxUnits,
          ledger : (-MaxUnits .. MaxUnits) \X (-MaxUnits .. MaxUnits)]

\* CHECK (reserved <= available): no row promises more than there is.
ASSUME OpeningAssumption ==
  Opening \subseteq {s \in Shelf : s.reserved <= s.available}

Problem == {"available", "reserved", "over-reserved", "cache"}

Sellable(s) == s.available - s.reserved
Drift(s) ==
  {problem \in Problem :
     \/ problem = "available" /\ s.ledger[1] # s.available
     \/ problem = "reserved" /\ s.ledger[2] # s.reserved
     \/ problem = "over-reserved" /\ s.available < s.reserved
     \/ problem = "cache" /\ s.cache # Sellable(s)}

ReconciliationTypeOK ==
  /\ shelves \in [Sku -> Shelf]
  /\ script.step \in {"idle", "repair", "audit", "done"}
  /\ script.repair \in BOOLEAN
  /\ script.stale \subseteq (Sku \X (-MaxUnits .. MaxUnits))
  /\ report \in [Sku -> SUBSET Problem]
  /\ drifted \subseteq Sku /\ moved \subseteq Sku

ReconciliationInit ==
  /\ shelves \in [Sku -> Opening]
  /\ script = [step |-> "idle", repair |-> FALSE, stale |-> {}]
  /\ report = [p \in Sku |-> {}]
  /\ drifted = {p \in Sku : Drift(shelves[p]) # {}}
  /\ moved = {} /\ trades = 0

------------------------------------------------------------------------------
(* The shop.  Every stock operation moves balances, ledger and cache in one   *)
(* transaction, the cache by what the move makes sellable; CHECK refuses what *)
(* no row may be.                                                             *)
Change(s, available, reserved) ==
  [available |-> s.available + available, reserved |-> s.reserved + reserved,
   cache |-> s.cache + available - reserved,
   ledger |-> <<s.ledger[1] + available, s.ledger[2] + reserved>>]

InRange(s) == s \in Shelf /\ s.reserved <= s.available

Moving(p, row) ==
  /\ trades < MaxTrades
  /\ InRange(row)
  /\ shelves' = [shelves EXCEPT ![p] = row]
  /\ moved' = IF script.repair THEN moved \cup {p} ELSE moved
  /\ trades' = trades + 1
  /\ UNCHANGED <<script, report>>

Reserves(p) == Moving(p, Change(shelves[p], 0, 1)) /\ UNCHANGED drifted
Sells(p)    == Moving(p, Change(shelves[p], -1, -1)) /\ UNCHANGED drifted
Releases(p) == Moving(p, Change(shelves[p], 0, -1)) /\ UNCHANGED drifted
Adjusts(p, change) ==
  Moving(p, Change(shelves[p], change, 0)) /\ UNCHANGED drifted

\* The product form: the total of the sizes over both numbers, past the ledger.
EditsSizes(p, total) ==
  /\ Moving(p, [shelves[p] EXCEPT !.available = total, !.cache = total])
  /\ drifted' = drifted \cup {p}
------------------------------------------------------------------------------
(* repairCache: reads the stale caches and what each should be, and writes    *)
(* one after the other what it read.                                          *)
ReadsAvailable(s) == s.available
Rebuilt(s) == Sellable(s)

RepairRead ==
  /\ script.step = "idle"
  /\ script' = [step |-> "repair", repair |-> TRUE,
                stale |-> {<<p, Rebuilt(shelves[p])>> :
                             p \in {q \in Sku : "cache" \in Drift(shelves[q])}}]
  /\ UNCHANGED <<shelves, report, drifted, moved, trades>>

RepairWrite(p) ==
  /\ script.step = "repair"
  /\ \E entry \in script.stale :
       /\ entry[1] = p
       /\ shelves' = [shelves EXCEPT ![p].cache = entry[2]]
       /\ script' = [script EXCEPT !.stale = @ \ {entry}]
  /\ UNCHANGED <<report, drifted, moved, trades>>

RepairDone ==
  /\ script.step = "repair" /\ script.stale = {}
  /\ script' = [script EXCEPT !.step = "audit"]
  /\ UNCHANGED <<shelves, report, drifted, moved, trades>>

\* Without --repair; and findDrift, one statement for all the balances.
AuditOnly ==
  /\ script.step = "idle"
  /\ script' = [script EXCEPT !.step = "audit"]
  /\ UNCHANGED <<shelves, report, drifted, moved, trades>>

FindDrift ==
  /\ script.step = "audit"
  /\ report' = [p \in Sku |-> Drift(shelves[p])]
  /\ script' = [script EXCEPT !.step = "done"]
  /\ UNCHANGED <<shelves, drifted, moved, trades>>

ReconciliationNext ==
  \/ \E p \in Sku :
       \/ Reserves(p) \/ Sells(p) \/ Releases(p) \/ RepairWrite(p)
       \/ \E change \in {-1, 1} : Adjusts(p, change)
       \/ \E total \in 0 .. MaxUnits : EditsSizes(p, total)
  \/ RepairRead \/ RepairDone \/ AuditOnly \/ FindDrift

ReconciliationSpec == ReconciliationInit /\ [][ReconciliationNext]_auditVars

------------------------------------------------------------------------------
(* A drift the audit reports is one: the row had drifted before or went past  *)
(* the ledger since, or the repair wrote over a move.  After a repair, a      *)
(* cache is stale only where the shop moved after the repair had read it.     *)
(* More is never promised than there is.                                      *)
ReportIsEarned ==
  \A p \in Sku :
    /\ report[p] # {} => p \in drifted \cup moved
    /\ script.repair /\ "cache" \in report[p] => p \in moved
    /\ "over-reserved" \notin report[p]
=============================================================================
