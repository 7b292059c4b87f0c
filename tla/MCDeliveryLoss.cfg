SPECIFICATION DeliverySpec
CONSTANTS
  Profiles = {"run"}
  CoverageRules = FALSE
  PushAttempts = 2
  Chained = FALSE
  PeopleActs = {}
  DeliveryFaults = {"stage"}
  MaxRuns = 2
  MaxPeople = 0
  MaxDeliveryFaults = 1
INVARIANTS
  GreenMeansReviewable
CHECK_DEADLOCK FALSE
