\* One tenant: quotas, builds, corrections and invoices under two plan specifications.
SPECIFICATION Spec
CONSTANTS
 t1=t1 p1=p1 p2=p2 k1=k1 k2=k2 k3=k3 w1=w1 w2=w2
 Tenant={t1} Plan={p1} PlanSpec <- MCPlanSpec Trials={1} MaxTime=2
 Key={k1,k2} Quantity={1,2} Worker={w1,w2}
 Meter={1,2} Event <- MCEvent Report <- MCReport Command <- MCCommand
 PeriodEnd=2 MaxInt=7 Threshold=2 MaxRows=3
 Observation <- MCObservation MaxObservations=3 MaxTick=5 Second=2 MaxUnits=7
SYMMETRY Symmetry
INVARIANTS QuotaHolds BuildsAreCharged CorrectionsSettle InvoiceIsExact
CHECK_DEADLOCK FALSE
