----------------------------- MODULE CommerceUsage -----------------------------
(***************************************************************************)
(* The usage ledger and the invoice preview (Append, RecordBuildUsage,      *)
(* ReconcileUsage, PreviewInvoice and RateQuantity of                       *)
(* internal/commerce/application/service.go), over the plans and quotas     *)
(* that they share a store with.                                            *)
(*                                                                         *)
(* The ledger is append-only.  An event is known by its idempotency key:    *)
(* with the same content again it is a no-op, with other content it is      *)
(* refused, and a transaction with one refused event records none.          *)
(* Quantities and amounts have the width of int64, here -MaxInt-1..MaxInt.  *)
(* Resources and meters are numbered in the order that invoices list them.  *)
(***************************************************************************)
EXTENDS CommerceQuota, SequencesExt

CONSTANTS
  Meter,      \* the meters
  Event,      \* usage, credits and corrections that clients append
  Report,     \* build reports
  Command,    \* reconciliation commands
  PeriodEnd,  \* the billing period is 0..PeriodEnd
  MaxInt,     \* the largest int64
  Threshold,  \* DriftAlertThreshold
  MaxRows     \* bound on a tenant's reservations and usage events

(* Plan specifications that pass PlanSpec.Validate, the meters that a plan  *)
(* does not name in its allowance having none.                              *)
ASSUME PlanSpecAssumption ==
  \A s \in PlanSpec :
    /\ s.included \in [Meter -> Nat]
    /\ \A m \in DOMAIN s.prices : s.prices[m].minor \in Nat /\ s.prices[m].per \in Nat \ {0}

(* What normalizeUsage lets through.  Keys share one scope; that no client  *)
(* uses one that a build or a reconciliation makes is left to the callers,  *)
(* and assumed.                                                             *)
ASSUME EventAssumption ==
  \A e \in Event :
    /\ e.key[1] = "client"
    /\ e.resource \in Int /\ e.meter \in Meter
    /\ e.kind \in {"STANDARD", "CREDIT", "CORRECTION"}
    /\ e.quantity \in Int /\ (e.kind = "STANDARD" => e.quantity >= 0)
    /\ e.start \in Int /\ e.end \in Int

(* Build reports and commands that pass the checks at the head of           *)
(* RecordBuildUsage and of ReconcileUsage.                                  *)
ASSUME ReportAssumption ==
  \A r \in Report :
    /\ r.build \in Int /\ r.started \in Int /\ r.finished \in Int
    /\ \A m \in DOMAIN r.values : m \in Meter /\ r.values[m] \in Nat

ASSUME CommandAssumption ==
  \A c \in Command :
    /\ c.resource \in Int /\ c.meter \in Meter /\ c.observed \in Int
    /\ c.start \in Int /\ c.end \in Int /\ c.start < c.end

ASSUME BoundsAssumption == Meter \subseteq Int /\ MaxInt \in Nat /\ Threshold \in Int

VARIABLES
  usage,      \* [Tenant -> the usage events, in the order they were recorded]
  alerts      \* [Tenant -> the commands and drifts of its reconciliation alerts]

usageVars == <<usage, alerts>>
vars == <<allQuotaVars, usageVars>>

Init ==
  /\ QuotaInit
  /\ usage = [t \in Tenant |-> <<>>]
  /\ alerts = [t \in Tenant |-> {}]

Rows(t) == Len(usage[t]) + Cardinality({k \in Key : quota[t][k] # NoReservation})

-----------------------------------------------------------------------------
(* BillingPeriod.AcceptsUsage and Contains: a window may end where the      *)
(* period does, a date may not.                                             *)
Accepts(e) ==
  /\ 0 <= e.start /\ e.start < e.end /\ e.end <= PeriodEnd
  /\ 0 <= e.occurred /\ e.occurred < PeriodEnd

Recorded(t) == ToSet(usage[t])

Refused(t, e) == ~Accepts(e) \/ \E f \in Recorded(t) : f.key = e.key /\ f # e

(* appendUsageTx for each event of one transaction, which has up to three.  *)
AppendUsageTx(t, events) ==
  LET New(i) == IF i \in DOMAIN events /\ events[i] \notin Recorded(t)
                  THEN <<events[i]>> ELSE <<>>
  IN /\ sub[t] # NoSubscription
     /\ \A i \in DOMAIN events : ~Refused(t, events[i])
     /\ usage' = [usage EXCEPT ![t] = @ \o New(1) \o New(2) \o New(3)]

AppendEvent(t, e) ==
  /\ AppendUsageTx(t, <<e>>)
  /\ UNCHANGED <<allQuotaVars, alerts>>

(* The events of a build report: one for each of its three meters (CPU,     *)
(* memory, virtual machine) that is not zero.                               *)
EventsOf(r) ==
  LET EventOf(m) == [key |-> <<"build", r.key, m>>, resource |-> r.build, meter |-> m,
                     kind |-> "STANDARD", quantity |-> r.values[m], start |-> r.started,
                     end |-> r.finished, occurred |-> r.finished, outcome |-> r.outcome]
      Charged(m) == IF m \in DOMAIN r.values /\ r.values[m] # 0 THEN <<EventOf(m)>> ELSE <<>>
  IN Charged(1) \o Charged(2) \o Charged(3)

ChargeableAlways(t, r) == r.outcome # "PLATFORM_FAILED"    \* mutant

Chargeable(t, r) ==
  CASE r.outcome = "PLATFORM_FAILED" -> FALSE
    [] r.outcome = "CANCELED"        -> r.started < r.finished
    [] r.outcome = "USER_FAILED"     -> SpecOf(t).chargeFailures
    [] OTHER                         -> TRUE

(* The period is found by the start of the build, its events are dated at   *)
(* its end.                                                                 *)
RecordBuildUsage(t, r) ==
  /\ sub[t] # NoSubscription
  /\ Accepts([start |-> r.started, end |-> r.finished, occurred |-> r.started])
  /\ Chargeable(t, r)
  /\ AppendUsageTx(t, EventsOf(r))
  /\ UNCHANGED <<allQuotaVars, alerts>>

-----------------------------------------------------------------------------
InRange(n) == n \in -MaxInt - 1 .. MaxInt

Wrapped(n) == ((n + MaxInt + 1) % (2 * MaxInt + 2)) - MaxInt - 1

Overflow == [ok |-> FALSE, value |-> 0]
Int64(n) == IF InRange(n) THEN [ok |-> TRUE, value |-> n] ELSE Overflow

SafeAddWrapping(a, n) ==    \* mutant
  IF a.ok THEN [ok |-> TRUE, value |-> Wrapped(a.value + n)] ELSE a

(* safeAdd, an overflow being kept.                                         *)
SafeAdd(a, n) == IF a.ok THEN Int64(a.value + n) ELSE a

(* ListUsage: the orders of a tenant's rows by date.  Rows of one date come *)
(* as their random names do.                                                *)
ListUsage(t) ==
  LET rows == DOMAIN usage[t]
  IN {order \in Bijection(rows, rows) : \A i, j \in rows :
        i < j => usage[t][order[i]].occurred <= usage[t][order[j]].occurred}

(* The quantities of some of the events, where those of others count for 0. *)
Quantities(t, order, events) ==
  [i \in DOMAIN order |-> LET e == usage[t][order[i]]
                           IN IF e \in events THEN e.quantity ELSE 0]

(* The sum of the first n numbers, every addition being checked.            *)
SumOf(numbers, n) ==
  LET sum[i \in 0..n] == IF i = 0 THEN Int64(0) ELSE SafeAdd(sum[i - 1], numbers[i])
  IN sum[n]

WithinOpen(e, c) ==    \* mutant
  /\ e.resource = c.resource /\ e.meter = c.meter
  /\ c.start <= e.start /\ e.end < c.end

Within(e, c) ==
  /\ e.resource = c.resource /\ e.meter = c.meter
  /\ c.start <= e.start /\ e.end <= c.end

Correction(c, drift) ==
  [key |-> <<"reconcile", c>>, resource |-> c.resource, meter |-> c.meter,
   kind |-> "CORRECTION", quantity |-> drift, start |-> c.start, end |-> c.end,
   occurred |-> c.end, outcome |-> "none"]

Magnitude(n) == IF n < 0 THEN -n ELSE n
Abs(n) == IF n = -MaxInt - 1 THEN MaxInt ELSE Magnitude(n)

(* The key is made of the command and not of the drift: the same command    *)
(* after other usage has arrived is refused.                                *)
ReconcileUsage(t, c, order) ==
  LET inside == {e \in Recorded(t) : Within(e, c)}
      ledger == SumOf(Quantities(t, order, inside), Len(usage[t]))
      drift == Int64(c.observed - ledger.value)
  IN /\ ledger.ok /\ drift.ok /\ drift.value # 0
     /\ AppendUsageTx(t, <<Correction(c, drift.value)>>)
     /\ alerts' = IF Threshold > 0 /\ Abs(drift.value) > Threshold
                    THEN [alerts EXCEPT ![t] = @ \cup {<<c, drift.value>>}] ELSE alerts
     /\ UNCHANGED allQuotaVars

-----------------------------------------------------------------------------
RateQuantityDown(quantity, price) ==    \* mutant
  Int64((quantity * price.minor) \div price.per)

(* Half is rounded away from zero.                                          *)
RateQuantity(quantity, price) ==
  LET n == quantity * price.minor
      rated == (Magnitude(n) + price.per \div 2) \div price.per
  IN Int64(IF n < 0 THEN -rated ELSE rated)

Rank(kind) == CASE kind = "CORRECTION" -> 1 [] kind = "CREDIT" -> 2 [] OTHER -> 3
LineOf(e) == <<e.resource, e.meter, Rank(e.kind)>>
Before(a, b) == \/ a[1] < b[1]
                \/ a[1] = b[1] /\ (a[2] < b[2] \/ (a[2] = b[2] /\ a[3] < b[3]))

LinesOf(t) == {LineOf(e) : e \in Recorded(t)}

LineQuantity(t, order, l) ==
  SumOf(Quantities(t, order, {e \in Recorded(t) : LineOf(e) = l}), Len(usage[t]))

(* The lines of an invoice, sorted; Normalize sorts them so once more.      *)
Listed(lines) ==
  LET places == 1..Cardinality(lines)
  IN CHOOSE keys \in Bijection(places, lines) :
       \A i, j \in places : i < j => Before(keys[i], keys[j])

(* One line of the invoice after those before it: standard usage consumes   *)
(* what the plan includes of its meter, everything else is rated in full.   *)
Rated(spec, invoice, l, quantity) ==
  LET allowance == invoice.included[l[2]]
      used == IF l[3] = 3 /\ quantity > 0 /\ allowance > 0
                THEN IF quantity < allowance THEN quantity ELSE allowance
                ELSE 0
      amount == IF l[2] \in DOMAIN spec.prices
                  THEN RateQuantity(quantity - used, spec.prices[l[2]]) ELSE Int64(0)
  IN [included |-> [invoice.included EXCEPT ![l[2]] = allowance - used],
      lines |-> Append(invoice.lines, [line |-> l, quantity |-> quantity,
                                       billable |-> quantity - used,
                                       amount |-> amount.value]),
      total |-> IF amount.ok THEN SafeAdd(invoice.total, amount.value) ELSE Overflow]

(* PreviewInvoice, which reads the ledger and changes nothing.              *)
PreviewInvoice(t, order) ==
  LET lines == LinesOf(t)
      keys == Listed(lines)
      start == [included |-> SpecOf(t).included, lines |-> <<>>, total |-> Int64(0)]
      invoice[i \in 0..Cardinality(lines)] ==
        IF i = 0 THEN start
        ELSE Rated(SpecOf(t), invoice[i - 1], keys[i], LineQuantity(t, order, keys[i]).value)
  IN IF \E l \in lines : ~LineQuantity(t, order, l).ok
       THEN [start EXCEPT !.total = Overflow]
       ELSE invoice[Cardinality(lines)]

-----------------------------------------------------------------------------
Next ==
  /\ \/ QuotaNext /\ UNCHANGED usageVars
     \/ \E t \in Tenant :
          \/ \E e \in Event : AppendEvent(t, e)
          \/ \E r \in Report : RecordBuildUsage(t, r)
          \/ \E c \in Command, order \in ListUsage(t) : ReconcileUsage(t, c, order)
  /\ \A t \in Tenant : Rows(t)' <= MaxRows

Spec == Init /\ [][Next]_vars

-----------------------------------------------------------------------------
(* A build is charged by whole reports.  When one is repeated with other    *)
(* values, what the ledger holds of the build still comes from reports that *)
(* are in it with all their meters, and none of them is of a failure of the *)
(* platform, or of the user when the plan does not charge for it.           *)
BuildsAreCharged ==
  \A t \in Tenant : \A e \in Recorded(t) :
    e.key[1] = "build" =>
      \E r \in Report :
        /\ e \in ToSet(EventsOf(r))
        /\ ToSet(EventsOf(r)) \subseteq Recorded(t)
        /\ r.outcome # "PLATFORM_FAILED"
        /\ r.outcome = "USER_FAILED" => SpecOf(t).chargeFailures

(* The exact sum of the first n numbers.                                    *)
Total(numbers, n) ==
  LET sum[i \in 0..n] == IF i = 0 THEN 0 ELSE sum[i - 1] + numbers[i]
  IN sum[n]

(* What the first n events of a ledger hold inside a command's window.      *)
UsageInside(ledger, n, c) ==
  LET Inside(e) == /\ e.resource = c.resource /\ e.meter = c.meter
                   /\ e.start..e.end \subseteq c.start..c.end
  IN Total([i \in 1..n |-> IF Inside(ledger[i]) THEN ledger[i].quantity ELSE 0], n)

(* A correction brings the usage inside the command's window, itself        *)
(* included, to what was observed, and one beyond the threshold has raised  *)
(* its alert (a threshold of MaxInt is never exceeded, as Abs measures).    *)
CorrectionsSettle ==
  \A t \in Tenant : \A i \in DOMAIN usage[t] :
    usage[t][i].key[1] = "reconcile" =>
      LET c == usage[t][i].key[2]
          drift == usage[t][i].quantity
      IN /\ UsageInside(usage[t], i, c) = c.observed
         /\ Threshold \in 1..MaxInt - 1 /\ drift \notin -Threshold..Threshold
              => <<c, drift>> \in alerts[t]

-----------------------------------------------------------------------------
(* What a ledger holds of one line.                                         *)
UsageOf(ledger, l) ==
  Total([i \in DOMAIN ledger |-> IF LineOf(ledger[i]) = l THEN ledger[i].quantity ELSE 0],
        Len(ledger))

AmountOf(lines) == Total([i \in DOMAIN lines |-> lines[i].amount], Len(lines))

(* The standard usage of a meter on an invoice, and what is billed of it.   *)
IsStandard(line, m) == line.line[2] = m /\ line.line[3] = 3
StandardUsage(lines, m) ==
  Total([i \in DOMAIN lines |-> IF IsStandard(lines[i], m) THEN lines[i].quantity ELSE 0],
        Len(lines))
StandardBilled(lines, m) ==
  Total([i \in DOMAIN lines |-> IF IsStandard(lines[i], m) THEN lines[i].billable ELSE 0],
        Len(lines))

(* The nearest amount to a quantity's exact price, and of two the one       *)
(* further from zero.                                                       *)
IsNearest(amount, quantity, price) ==
  LET exact == quantity * price.minor
      paid == amount * price.per
      error == 2 * Magnitude(paid - exact)
  IN error < price.per \/ (error = price.per /\ Magnitude(paid) > Magnitude(exact))

(* Every event counts in the one line of its resource, meter and kind.      *)
Itemised(t, lines) ==
  /\ {lines[i].line : i \in DOMAIN lines} = LinesOf(t)
  /\ \A i, j \in DOMAIN lines : lines[i].line = lines[j].line => i = j
  /\ \A i \in DOMAIN lines : lines[i].quantity = UsageOf(usage[t], lines[i].line)

(* Of a meter exactly the standard usage beyond the allowance is billed, and *)
(* each amount is the nearest to its exact price.                           *)
Priced(spec, lines) ==
  /\ \A m \in Meter :
       StandardBilled(lines, m) = IF StandardUsage(lines, m) > spec.included[m]
                                    THEN StandardUsage(lines, m) - spec.included[m] ELSE 0
  /\ \A i \in DOMAIN lines : lines[i].line[2] \in DOMAIN spec.prices =>
       IsNearest(lines[i].amount, lines[i].billable, spec.prices[lines[i].line[2]])

(* An invoice loses and invents nothing, over whichever resources the usage *)
(* is spread: no key is in the ledger twice, every event is in one line,    *)
(* only what exceeds the allowances is billed, every amount is rounded      *)
(* once, and the total is their sum.                                        *)
InvoiceIsExact ==
  \A t \in Tenant : sub[t] # NoSubscription =>
    /\ \A i, j \in DOMAIN usage[t] : usage[t][i].key = usage[t][j].key => i = j
    /\ \A order \in ListUsage(t) :
         LET invoice == PreviewInvoice(t, order)
         IN invoice.total.ok =>
              /\ Itemised(t, invoice.lines)
              /\ Priced(SpecOf(t), invoice.lines)
              /\ invoice.total.value = AmountOf(invoice.lines)
=============================================================================
