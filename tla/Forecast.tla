------------------------------ MODULE Forecast ------------------------------
(***************************************************************************)
(* The Forecast context: one forecast, its scenarios, and the projection   *)
(* that is calculated of them and published (src/forecast/service.ts).     *)
(*                                                                         *)
(* A command is one step, as in Organization.  Probabilities are counted   *)
(* in parts of 1, and a projection is a sum of weighted values with the    *)
(* weight it is to be divided by: rounding is left out.                    *)
(***************************************************************************)
EXTENDS Integers, FiniteSetsExt

CONSTANTS
  Scenario,      \* ids
  MaxPart,       \* parts that make a probability of 1
  MaxValue       \* bound on the baseline and the adjustments, of either sign

ForecastAssumption == IsFiniteSet(Scenario) /\ MaxPart \in Nat /\ MaxValue \in Nat

NoScenario == [there |-> FALSE, probability |-> 0, projectedValue |-> 0]

VARIABLE forecast  \* the snapshot of Forecast

TypeOK ==
  /\ forecast.status \in {"ABSENT", "DRAFT", "PUBLISHED", "ARCHIVED"}
  /\ forecast.lifecycleEpoch \in 0 .. 2
  /\ forecast.baselineValue \in -MaxValue .. MaxValue
  /\ forecast.scenarios \in
       [Scenario -> [there: BOOLEAN, probability: 0 .. MaxPart, projectedValue: -2 * MaxValue .. 2 * MaxValue]]
  /\ forecast.projection.sum \in Int /\ forecast.projection.weight \in Nat \ {0}
  /\ forecast.calculated \in BOOLEAN

Init ==
  forecast = [status |-> "ABSENT", lifecycleEpoch |-> 0, baselineValue |-> 0,
              scenarios |-> [s \in Scenario |-> NoScenario],
              projection |-> [sum |-> 0, weight |-> 1], calculated |-> FALSE]

-----------------------------------------------------------------------------

\* #calculate(): the average of the scenarios by their probabilities, or the
\* baseline if these add up to nothing.
calculate(f) ==
  LET weight == MapThenSumSet(LAMBDA s : f.scenarios[s].probability, Scenario)
      sum    == MapThenSumSet(LAMBDA s : f.scenarios[s].probability * f.scenarios[s].projectedValue,
                              Scenario)
  IN IF weight = 0 THEN [sum |-> f.baselineValue, weight |-> 1] ELSE [sum |-> sum, weight |-> weight]

GenerateForecast(baseline) ==
  /\ forecast.status = "ABSENT"
  /\ forecast' = [forecast EXCEPT !.status = "DRAFT", !.baselineValue = baseline,
                                  !.projection = [sum |-> baseline, weight |-> 1]]

\* Defect: a calculation done before stands.
CreateScenarioStale(s, probability, adjustment) ==
  /\ forecast.status = "DRAFT" /\ ~forecast.scenarios[s].there
  /\ forecast' = [forecast EXCEPT
       !.scenarios[s] = [there |-> TRUE, probability |-> probability,
                         projectedValue |-> forecast.baselineValue + adjustment]]

CreateScenario(s, probability, adjustment) ==
  /\ forecast.status = "DRAFT" /\ ~forecast.scenarios[s].there
  /\ forecast' = [forecast EXCEPT
       !.scenarios[s] = [there |-> TRUE, probability |-> probability,
                         projectedValue |-> forecast.baselineValue + adjustment],
       !.calculated = FALSE]

RecalculateForecast ==
  /\ forecast.status = "DRAFT"
  /\ forecast' = [forecast EXCEPT !.projection = calculate(forecast), !.calculated = TRUE]

PublishForecast ==
  /\ forecast.status = "DRAFT" /\ forecast.calculated
  /\ \E s \in Scenario : forecast.scenarios[s].there
  /\ forecast' = [forecast EXCEPT !.status = "PUBLISHED", !.lifecycleEpoch = @ + 1]

ArchiveForecast ==
  /\ forecast.status \in {"DRAFT", "PUBLISHED"}
  /\ forecast' = [forecast EXCEPT !.status = "ARCHIVED", !.lifecycleEpoch = @ + 1]

Next ==
  \/ \E baseline \in -MaxValue .. MaxValue : GenerateForecast(baseline)
  \/ \E s \in Scenario, p \in 0 .. MaxPart, a \in -MaxValue .. MaxValue : CreateScenario(s, p, a)
  \/ RecalculateForecast \/ PublishForecast \/ ArchiveForecast

-----------------------------------------------------------------------------
(* Properties *)

\* What is published is the average of the scenarios the forecast has, all of
\* them and at least one, in whichever order they were added and calculated: no
\* scenario is published that the projection does not reflect, and the
\* projection lies between the least and the greatest of them, or is the
\* baseline ("requires at least one scenario and an explicit recalculation",
\* docs/forecast-context.md).
PublishedIsCalculated ==
  forecast.status = "PUBLISHED" =>
    LET there      == {s \in Scenario : forecast.scenarios[s].there}
        values     == {forecast.scenarios[s].projectedValue : s \in there}
        projection == forecast.projection
    IN /\ there # {}
       /\ projection = calculate(forecast)
       /\ \/ projection = [sum |-> forecast.baselineValue, weight |-> 1]
          \/ /\ Min(values) * projection.weight <= projection.sum
             /\ projection.sum <= Max(values) * projection.weight
=============================================================================
