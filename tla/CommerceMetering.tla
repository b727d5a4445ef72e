--------------------------- MODULE CommerceMetering ---------------------------
(***************************************************************************)
(* Runtime usage from observations of an environment                        *)
(* (CalculateRuntimeUnitSeconds, internal/commerce/application/service.go).  *)
(* Time is counted in ticks, of which a second has several: each piece      *)
(* between two observations is cut to whole seconds.                        *)
(***************************************************************************)
EXTENDS Integers, Sequences
LOCAL INSTANCE SequencesExt
LOCAL INSTANCE FiniteSetsExt

CONSTANTS
  Observation,     \* records [at, replicas, weight, suspended]
  MaxObservations, \* bound on the length of a list of them
  MaxTick,         \* bound on time
  Second,          \* ticks of a second
  MaxUnits         \* the largest int64

(* Negative counts and weights are those of nothing.                        *)
UnitsOf(o) ==
  IF o.suspended \/ o.replicas < 0 \/ o.weight < 0 THEN 0 ELSE o.replicas * o.weight

(* Of the observations of one date the last of the list remains.            *)
LastOfDate(observations, at) ==
  observations[Max({i \in DOMAIN observations : observations[i].at = at})]

(* The loop over the dates in order; an observation before the window only  *)
(* says what runs at its start.                                             *)
CalculateRuntimeUnitSeconds(observations, start, end) ==
  LET dates == SetToSortSeq({o.at : o \in ToSet(observations)}, <)
      Add(state, until) ==
        [state EXCEPT !.total = @ + ((until - state.cursor) \div Second) * state.units,
                      !.cursor = until]
      Observed(state, at) ==
        LET units == UnitsOf(LastOfDate(observations, at)) IN
        CASE at <= start -> [state EXCEPT !.units = units]
          [] start < at /\ at < end -> [Add(state, at) EXCEPT !.units = units]
          [] OTHER -> state
      pieces == FoldLeft(Observed, [cursor |-> start, units |-> 0, total |-> 0], dates)
      total == Add(pieces, end).total
  IN IF start >= end THEN 0 ELSE IF total > MaxUnits THEN MaxUnits ELSE total

-----------------------------------------------------------------------------
(* What runs in one tick is what the latest observation says, the last of   *)
(* the list among equals.                                                   *)
UnitsAt(observations, tick) ==
  LET seen == {i \in DOMAIN observations : observations[i].at <= tick}
      latest == CHOOSE i \in seen : \A j \in seen :
                  \/ observations[j].at < observations[i].at
                  \/ observations[j].at = observations[i].at /\ j <= i
  IN IF seen = {} THEN 0 ELSE UnitsOf(observations[latest])

Lists == UNION {[1..n -> Observation] : n \in 0..MaxObservations}

(* Whatever the order in which observations arrive, with however many of    *)
(* one date: the usage of a window is never negative, never more than what  *)
(* ran, and exactly that when all dates are whole seconds and the count     *)
(* fits.                                                                    *)
UnitSecondsAreExact ==
  \A observations \in Lists, start, end \in 0..MaxTick :
    LET units == CalculateRuntimeUnitSeconds(observations, start, end)
        ran == MapThenSumSet(LAMBDA tick : UnitsAt(observations, tick), start .. end - 1)
        whole == \A d \in {start, end} \cup {o.at : o \in ToSet(observations)} :
                   d % Second = 0
    IN /\ 0 <= units /\ units * Second <= ran
       /\ whole /\ ran <= MaxUnits * Second => units * Second = ran
=============================================================================
