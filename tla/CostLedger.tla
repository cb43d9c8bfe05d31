------------------------------- MODULE CostLedger -------------------------------
(* What one agent's turns cost: the totals its provider reports for the life of a      *)
(* process, the daemon's ledger of differences, the budget that stops deliveries, and    *)
(* the copy the server keeps.  A report holds a day's total, not what was added, so that   *)
(* reports may be lost, repeated and overtaken; which totals are still to be reported is     *)
(* known in the daemon's memory only.                                                          *)
EXTENDS Integers, FiniteSets, FiniteSetsExt, Functions

CONSTANTS
  CostChannel, Days,        \* a ledger row is of a channel and a UTC day
  NoChannel,
  Prices,                   \* what a turn may cost
  Budget,                   \* SLOCK_COST_BUDGET_USD
  MaxRows,                  \* rows the server takes in one report
  MaxTurnsPaid, MaxReports, MaxCostCrashes     \* bounds

ASSUME CostAssumption ==
  /\ NoChannel \notin CostChannel /\ IsFiniteSet(CostChannel) /\ Days \in Nat
  /\ Prices \subseteq Nat /\ \E dearest \in Prices : \A price \in Prices : price <= dearest
  /\ Budget \in Nat \ {0} /\ MaxRows \in Nat
  /\ MaxTurnsPaid \in Nat /\ MaxReports \in Nat /\ MaxCostCrashes \in Nat

CostKey == CostChannel \X (0 .. Days)
NoReport == [sent |-> FALSE]

VARIABLES
  process,     \* the provider's total of the live process, and the baseline taken off it
  turnIn,      \* the channel of the turn that runs
  day,
  ledger,      \* on disk
  dirty,       \* keys to report
  report,      \* the report in progress: its rows and the server's answer
  onTheWay,    \* reports the server may still receive, from this daemon or an earlier one
  reported,    \* the server's rows
  paid, reports, costCrashes,        \* used of the bounds
  spent,       \* history: what the turns that ended have cost
  hidden,      \* history: a process was replaced behind the driver's back, or a write failed
  unsent       \* history: keys a crash made the daemon forget

costVars == <<process, turnIn, day, ledger, dirty, report, onTheWay, reported, paid,
              reports, costCrashes, spent, hidden, unsent>>

Totals == [CostKey -> Nat]
Zero == [k \in CostKey |-> 0]

CostTypeOK ==
  /\ process \in [total : Nat, base : Nat] /\ turnIn \in CostChannel \cup {NoChannel}
  /\ day \in 0 .. Days /\ ledger \in Totals /\ reported \in Totals /\ spent \in Totals
  /\ dirty \subseteq CostKey /\ unsent \subseteq CostKey /\ hidden \in BOOLEAN
  /\ report.sent \in BOOLEAN
  /\ \A rows \in onTheWay : DOMAIN rows \subseteq CostKey

CostInit ==
  /\ process = [total |-> 0, base |-> 0] /\ turnIn = NoChannel /\ day = 0
  /\ ledger = Zero /\ reported = Zero /\ spent = Zero
  /\ dirty = {} /\ unsent = {} /\ hidden = FALSE
  /\ report = NoReport /\ onTheWay = {}
  /\ paid = 0 /\ reports = 0 /\ costCrashes = 0
-----------------------------------------------------------------------------
(* Turns                                                                      *)

SpendOfDay(table, d) == SumFunctionOnSet(table, {k \in CostKey : k[2] = d})

\* evaluateCostGate, before a message is taken in and again before it is delivered
BudgetLeft == SpendOfDay(ledger, day) < Budget

BeginTurn(c) ==
  /\ turnIn = NoChannel /\ BudgetLeft /\ paid < MaxTurnsPaid
  /\ turnIn' = c /\ paid' = paid + 1
  /\ UNCHANGED <<process, day, ledger, dirty, report, onTheWay, reported, reports,
                 costCrashes, spent, hidden, unsent>>

\* a total below the baseline is that of a new process
Delta(total) == IF total < process.base THEN total ELSE total - process.base

\* the price is known when the turn ends, on whatever day that is; a ledger that could
\* not be written keeps what it had
EndTurn(price, written) ==
  LET total == process.total + price
      key == <<turnIn, day>>
  IN  /\ turnIn # NoChannel /\ turnIn' = NoChannel
      /\ process' = [total |-> total, base |-> total]
      /\ ledger' = IF written THEN [ledger EXCEPT ![key] = @ + Delta(total)] ELSE ledger
      /\ dirty' = dirty \cup {key}
      /\ spent' = [spent EXCEPT ![key] = @ + price]
      /\ hidden' = (hidden \/ ~written)
      /\ UNCHANGED <<day, report, onTheWay, reported, paid, reports, costCrashes, unsent>>

NewProcess == process' = [total |-> 0, base |-> 0]

\* the session is stopped, reclaimed or dropped after a failure, and its baseline forgotten
EndSession ==
  /\ NewProcess /\ turnIn' = NoChannel
  /\ UNCHANGED <<day, ledger, dirty, report, onTheWay, reported, paid, reports,
                 costCrashes, spent, hidden, unsent>>

\* a process that dies between turns, or ends with each turn in one-shot mode, is
\* replaced without that
ReplaceProcess ==
  /\ turnIn = NoChannel /\ process.total > 0
  /\ process' = [process EXCEPT !.total = 0] /\ hidden' = TRUE
  /\ UNCHANGED <<turnIn, day, ledger, dirty, report, onTheWay, reported, paid, reports,
                 costCrashes, spent, unsent>>

NextDay ==
  /\ day < Days /\ day' = day + 1
  /\ UNCHANGED <<process, turnIn, ledger, dirty, report, onTheWay, reported, paid,
                 reports, costCrashes, spent, hidden, unsent>>
-----------------------------------------------------------------------------
(* Reports                                                                    *)

\* the timer, or the last one at a stop; rows of nothing are not sent
Flush ==
  LET keys == {k \in dirty : ledger[k] > 0}
      rows == [k \in keys |-> ledger[k]]
  IN  /\ ~report.sent /\ dirty # {} /\ reports < MaxReports /\ reports' = reports + 1
      /\ IF keys = {}
         THEN dirty' = {} /\ UNCHANGED <<report, onTheWay>>
         ELSE /\ report' = [sent |-> TRUE, rows |-> rows, answer |-> "none"]
              /\ onTheWay' = onTheWay \cup {rows}
              /\ UNCHANGED dirty
      /\ UNCHANGED <<process, turnIn, day, ledger, reported, paid, costCrashes, spent,
                     hidden, unsent>>

\* GREATEST: a total that is not the newest changes nothing
Raised(rows) ==
  [k \in CostKey |-> IF k \in DOMAIN rows THEN Max({rows[k], reported[k]}) ELSE reported[k]]

\* a report of too many rows is refused as a whole
ServerSyncs(rows) ==
  LET accepted == Cardinality(DOMAIN rows) <= MaxRows
      mine == report.sent /\ report.rows = rows
  IN  /\ onTheWay' = onTheWay \ {rows}
      /\ reported' = IF accepted THEN Raised(rows) ELSE reported
      /\ report' = IF mine THEN [report EXCEPT !.answer = IF accepted THEN "ok" ELSE "refused"]
                   ELSE report
      /\ UNCHANGED <<process, turnIn, day, ledger, dirty, paid, reports, costCrashes, spent,
                     hidden, unsent>>

\* a plausible fault: what was reported is clean, whatever has come since
AllClean == DOMAIN report.rows

\* a total that has grown while the report was under way stays to be reported
CleanNow == {k \in DOMAIN report.rows : ledger[k] <= report.rows[k]}

FlushDone ==
  /\ report.sent /\ report.answer = "ok"
  /\ dirty' = dirty \ CleanNow /\ report' = NoReport
  /\ UNCHANGED <<process, turnIn, day, ledger, onTheWay, reported, paid, reports,
                 costCrashes, spent, hidden, unsent>>

\* refused, or the request or its answer is lost
FlushFails ==
  /\ report.sent /\ report' = NoReport
  /\ \/ UNCHANGED onTheWay
     \/ onTheWay' = onTheWay \ {report.rows}
  /\ UNCHANGED <<process, turnIn, day, ledger, dirty, reported, paid, reports, costCrashes,
                 spent, hidden, unsent>>

CrashWithCosts ==
  /\ costCrashes < MaxCostCrashes /\ costCrashes' = costCrashes + 1
  /\ process' = [total |-> 0, base |-> 0] /\ turnIn' = NoChannel
  /\ dirty' = {} /\ unsent' = unsent \cup dirty /\ report' = NoReport
  /\ UNCHANGED <<day, ledger, onTheWay, reported, paid, reports, spent, hidden>>

CostNext ==
  \/ \E c \in CostChannel : BeginTurn(c)
  \/ \E price \in Prices, written \in BOOLEAN : EndTurn(price, written)
  \/ EndSession \/ ReplaceProcess \/ NextDay
  \/ Flush \/ FlushDone \/ FlushFails \/ CrashWithCosts
  \/ \E rows \in onTheWay : ServerSyncs(rows)

CostSpec == CostInit /\ [][CostNext]_costVars
-----------------------------------------------------------------------------
(* Properties                                                                 *)

\* The ledger says what the turns have cost: the provider's totals are taken apart
\* rightly over every stop, failure and restart the driver knows of, and never too high.
LedgerIsTheSpend ==
  \A k \in CostKey : ledger[k] <= spent[k] /\ (hidden \/ ledger[k] = spent[k])

\* The server never says more than the ledger; where it says less, the daemon knows that
\* it has a report to send, or a crash made it forget.
ReportIsTheLedger ==
  \A k \in CostKey :
    reported[k] <= ledger[k] /\ (reported[k] < ledger[k] => k \in dirty \cup unsent)

\* From the provider's totals to the server's rows nothing is lost or counted twice.
LedgerIsKept == LedgerIsTheSpend /\ ReportIsTheLedger

\* A day's spending stops at the budget: only the last turn that was let in may pass it.
BudgetHolds ==
  \A d \in 0 .. Days : SpendOfDay(ledger, d) < Budget + Max(Prices)

\* What is spent is known, reported and held within the budget.
CostsAreKept == LedgerIsKept /\ BudgetHolds

\* What the ledger holds is reported in the end, failures or not (cost-reporter.ts:
\* 22-23 "a failure loses nothing"); a report of more rows than the server takes never is.
CostFairness ==
  /\ WF_costVars(Flush) /\ WF_costVars(FlushDone)
  /\ WF_costVars(\E rows \in onTheWay : ServerSyncs(rows))
EverySpendIsReported ==
  \A k \in CostKey : k \in dirty ~> (reported[k] = spent[k] \/ k \notin dirty)
=============================================================================
