-------------------------- MODULE RegionalMonitoring --------------------------
(***************************************************************************)
(* regional_monitoring/domain/policy.py: which regions a principal may     *)
(* see, and when a metric of a region raises an alert.  Both are asked     *)
(* again as grants, figures and the last alert change.                     *)
(***************************************************************************)
EXTENDS Integers, FiniteSets

CONSTANTS Regions, Tenants, Roles,
          GlobalRoles, ExportRoles,     \* of the authorization policy
          MetricValues,                 \* values and baselines of the metric
          MaxSamples,                   \* bound of the sample sizes
          MinimumCohortSize, MinimumBaselineSize,
          MinimumAbsoluteDecline,
          MinimumRelativeDecline, CriticalRelativeDecline,  \* per cent
          SuppressionPeriod

\* The values UnderperformancePolicy accepts, and those of the model's bounds.
UnderperformancePolicyValid ==
  /\ Tenants # {} /\ Roles # {}
  /\ GlobalRoles \subseteq Roles /\ ExportRoles \subseteq Roles
  /\ MetricValues \subseteq Int
  /\ {MinimumCohortSize, MinimumBaselineSize} \subseteq Nat \ {0}
  /\ {MinimumAbsoluteDecline, MinimumRelativeDecline, SuppressionPeriod,
      MaxSamples} \subseteq Nat
  /\ CriticalRelativeDecline \in Nat
  /\ CriticalRelativeDecline >= MinimumRelativeDecline

ASSUME RegionalAssumption == UnderperformancePolicyValid

VARIABLES
  principal,   \* PrincipalScope
  cohort,      \* MetricCohort: sizes and values
  sinceAlert   \* time since the last alert, NeverAlerted when there is none

regionalVars == <<principal, cohort, sinceAlert>>

NeverAlerted == -1

ScopeRequests == [tenant : Tenants, regions : SUBSET Regions, export : BOOLEAN]

RegionalInit ==
  /\ principal = [tenant |-> CHOOSE t \in Tenants : TRUE,
                  role |-> CHOOSE r \in Roles : TRUE,
                  assigned |-> {}, global |-> FALSE]
  /\ cohort = [sample |-> 0, value |-> 0, baselineSample |-> 0, baseline |-> 0]
  /\ sinceAlert = NeverAlerted

-----------------------------------------------------------------------------
\* Mutation: a global grant decides alone, by the role.
AuthorizeScopeGlobalFirst(p, request) ==
  IF p.tenant # request.tenant THEN "tenant_scope_denied"
  ELSE IF request.export /\ p.role \notin ExportRoles THEN "export_scope_denied"
  ELSE IF p.global
    THEN IF p.role \in GlobalRoles THEN "global_scope_authorized" ELSE "region_scope_denied"
  ELSE IF request.regions = {} \/ ~ request.regions \subseteq p.assigned
    THEN "region_scope_denied"
  ELSE "assigned_region_authorized"

\* authorize_scope: the reason of its decision.
AuthorizeScope(p, request) ==
  IF p.tenant # request.tenant THEN "tenant_scope_denied"
  ELSE IF request.export /\ p.role \notin ExportRoles THEN "export_scope_denied"
  ELSE IF p.global /\ p.role \in GlobalRoles THEN "global_scope_authorized"
  ELSE IF request.regions = {} \/ ~ request.regions \subseteq p.assigned
    THEN "region_scope_denied"
  ELSE "assigned_region_authorized"

Authorized(p) ==
  {request \in ScopeRequests :
     AuthorizeScope(p, request) \in {"global_scope_authorized", "assigned_region_authorized"}}

Magnitude(n) == IF n < 0 THEN - n ELSE n

\* Mutation: the decline is relative to the signed baseline.
RelativeAtLeastSigned(c, percent) ==
  IF c.baseline = 0 THEN 0 >= percent
  ELSE IF c.baseline > 0 THEN (c.baseline - c.value) * 100 >= percent * c.baseline
  ELSE (c.baseline - c.value) * 100 <= percent * c.baseline

\* relative >= percent, without the division; zero for a baseline of zero.
RelativeAtLeast(c, percent) ==
  IF c.baseline = 0 THEN 0 >= percent
  ELSE (c.baseline - c.value) * 100 >= percent * Magnitude(c.baseline)

\* evaluate_underperformance: the reason, or the severity of the alert.
EvaluateUnderperformance(c, since) ==
  IF c.sample < MinimumCohortSize \/ c.baselineSample < MinimumBaselineSize
    THEN "sample_suppressed"
  ELSE IF since # NeverAlerted /\ since < SuppressionPeriod THEN "alert_suppressed"
  ELSE IF \/ c.baseline - c.value < MinimumAbsoluteDecline
          \/ ~ RelativeAtLeast(c, MinimumRelativeDecline)
    THEN "practical_significance_not_met"
  ELSE IF RelativeAtLeast(c, CriticalRelativeDecline) THEN "critical" ELSE "warning"

-----------------------------------------------------------------------------
\* Grants are given and withdrawn (external).
GrantChanges ==
  /\ \/ \E r \in Roles : principal' = [principal EXCEPT !.role = r]
     \/ \E s \in SUBSET Regions : principal' = [principal EXCEPT !.assigned = s]
     \/ \E g \in BOOLEAN : principal' = [principal EXCEPT !.global = g]
  /\ UNCHANGED <<cohort, sinceAlert>>

\* The figures of the metric for a new window (external).
CohortChanges ==
  /\ \/ \E v \in MetricValues : cohort' = [cohort EXCEPT !.value = v]
     \/ \E b \in MetricValues : cohort' = [cohort EXCEPT !.baseline = b]
     \/ \E n, m \in 0 .. MaxSamples :
          cohort' = [cohort EXCEPT !.sample = n, !.baselineSample = m]
  /\ UNCHANGED <<principal, sinceAlert>>

\* evaluate_underperformance raises an alert, which the caller remembers.
RaiseAlert ==
  /\ EvaluateUnderperformance(cohort, sinceAlert) \in {"warning", "critical"}
  /\ sinceAlert' = 0
  /\ UNCHANGED <<principal, cohort>>

RegionalTick ==
  /\ sinceAlert # NeverAlerted /\ sinceAlert < SuppressionPeriod
  /\ sinceAlert' = sinceAlert + 1
  /\ UNCHANGED <<principal, cohort>>

ScopeNext == GrantChanges
AlertNext == CohortChanges \/ RaiseAlert \/ RegionalTick

RegionalSpec == RegionalInit /\ [][ScopeNext \/ AlertNext]_regionalVars

-----------------------------------------------------------------------------
\* A step that gives the principal more, or as much as it had, lets it ask for
\* as much as before, and what it may ask for is its own.
Widened ==
  /\ /\ principal'.role = principal.role
     /\ principal.assigned \subseteq principal'.assigned
     /\ principal.global => principal'.global
     => Authorized(principal) \subseteq Authorized(principal')
  /\ \A request \in Authorized(principal') :
       /\ request.tenant = principal'.tenant
       /\ \/ request.regions \subseteq principal'.assigned
          \/ principal'.global /\ principal'.role \in GlobalRoles

\* A principal whose role stays is never allowed less after it was given more
\* regions or the global grant, even where its role makes the global grant
\* void, and sees nothing outside its tenant and, without a global role,
\* outside the regions it was assigned (authorize_scope).
GrantsOnlyWiden == [][Widened]_regionalVars

Loudness(reason) ==
  IF reason = "critical" THEN 2 ELSE IF reason = "warning" THEN 1 ELSE 0

\* A step that leaves the metric no better is answered no more quietly.
Heard ==
  LET before == EvaluateUnderperformance(cohort, sinceAlert)
      after == EvaluateUnderperformance(cohort', sinceAlert') IN
  /\ /\ sinceAlert' = sinceAlert
     /\ cohort'.baseline = cohort.baseline
     /\ cohort'.value <= cohort.value
     /\ cohort'.sample >= cohort.sample
     /\ cohort'.baselineSample >= cohort.baselineSample
     => Loudness(after) >= Loudness(before)
  /\ /\ after \notin {"sample_suppressed", "alert_suppressed"}
     /\ MinimumRelativeDecline <= 100 /\ cohort'.baseline # 0
     /\ cohort'.baseline - cohort'.value >= Magnitude(cohort'.baseline)
     /\ cohort'.baseline - cohort'.value >= MinimumAbsoluteDecline
     => Loudness(after) > 0
  /\ sinceAlert' = 0 /\ sinceAlert # 0 =>
       sinceAlert \in {NeverAlerted, SuppressionPeriod}

\* A metric that falls further, or is measured on more samples, never gets a
\* quieter answer while nothing else changes, and one that loses as much as its
\* baseline amounts to is heard, for baselines below zero too but not for a
\* baseline of zero, whose relative decline the code takes as zero; a second
\* alert is never raised within the suppression period (evaluate_underperformance).
WorseIsLouder == [][Heard]_regionalVars

\* What the monitoring promises while grants and metrics change: more grants
\* allow no less, a worse metric is heard no less (authorize_scope,
\* evaluate_underperformance).
RegionalContract == GrantsOnlyWiden /\ WorseIsLouder
=============================================================================
