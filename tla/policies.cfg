\* The policy components side by side, each on a small instance.
SPECIFICATION Spec
CONSTANTS
  Calls = {"c1", "c2", "c3"}
  FailureThreshold = 2
  RecoverySeconds = 2
  Budget = 3
  DayLength = 4
  ZoneOffset = 3
  MaxMessageTime = 5
  PreferredChannels <- MCChannels
  AllowedAfterOptOut = {"transactional"}
  TemplateRequired = TRUE
  MaximumCost = 0
  RuleIds = {"dayBefore", "atStart"}
  OffsetOf <- MCOffsetOf
  AudiencesOf <- MCAudiencesOf
  ActiveStatesOf <- MCActiveStatesOf
  RiskRuleIds = {"dayBefore"}
  RiskThreshold = 1
  CaseStates = {"scheduled", "confirmed", "cancelled"}
  SessionStarts = {2, 4}
  MinimumSignals = 2
  DecisionDelay = 1
  MaxReminderTime = 4
  MaxVersion = 3
  FollowUpRules <- MCFollowUpRules
  FactRefs = {"offer", "plan"}
  FollowUpAfterOptOut = {"utility"}
  ProhibitedClaims = {"guarantee"}
  ClaimTypes = {"guarantee", "price", "schedule"}
  Sources = {"catalogue", "chat"}
  ApprovedSources = {"catalogue"}
  NoSource = "none"
  MaxClaims = 3
  Desks = {"desk1", "desk2"}
  Prices = {7, 101}
  AbsoluteMaximum = 9500
  ApprovalTiers <- MCApprovalTiers
  CouponStacking = FALSE
  OfferTtl = 2
  OfferCooldown = 1
  MaximumActiveOffers = 1
  Reusable = FALSE
  MaxOfferTime = 2
  MaxOffers = 2
  MaxRedemptions = 1
  TutorCount = 3
  Snapshots <- MCSnapshots
  Weights <- MCWeights
  Steps = 2
  MaxSnapshotAge = 1
  ShortlistLimit = 2
  RegionDemos = {"demo1", "demo2"}
  Components = {"clarity", "rapport", "remarks"}
  Rubric <- MCRubric
  Fine = 18
  MinimumCohort = 2
  FlaggedDemos = {"demo2"}
  Regions = {"north", "south"}
  Tenants = {"own", "other"}
  Roles = {"super_admin", "operations_sub_admin", "analyst"}
  GlobalRoles = {"super_admin"}
  ExportRoles = {"super_admin", "analyst"}
  MetricValues <- MCMetricValues
  MaxSamples = 2
  MinimumCohortSize = 1
  MinimumBaselineSize = 2
  MinimumAbsoluteDecline = 1
  MinimumRelativeDecline = 50
  CriticalRelativeDecline = 100
  SuppressionPeriod = 2
  Phrases = {"costly", "later"}
  ObjectionRules <- MCObjectionRules
  Taxonomy = {"price", "timing"}
  ImplicitThreshold = 70
  ReviewThreshold = 50
  MaximumEvidenceItems = 2
  MaxEvidence = 3
  FeatureCount = 3
  Feature <- MCFeature
  Intercept <- MCIntercept
  LogitFloor <- MCLogitFloor
  LogitCeiling = 3
  LowerLogit = 0
  UpperLogit = 2
  Penalty = 50
  MaximumReasons = 2
  MaxForecastTime = 2
  Probabilities = {20, 60}
  MinimumSampleSize = 2
  MaximumBrier = 30
  MinimumAuc = 60
  MaxLabelled = 4
  DriftRuns = {"run1", "run2"}
  Versions = {"v1", "v2"}
  Predicted = {"d1", "d2"}
  PredictionOf <- MCPredictionOf
  WindowHours = 2
  MinimumSamples = 1
  BrierThreshold = 20
  CalibrationThreshold = 30
  MaxHour = 2
INVARIANTS AdvisoryContract QuietRespected OfferContract EvaluationAudited
PROPERTIES ReminderContract ConversionContract ShortlistKept QualityContract RegionalContract
PROPERTIES ExtractionContract ForecastContract
CHECK_DEADLOCK FALSE
