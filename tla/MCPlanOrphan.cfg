CONSTANTS
  PlanPorts <- MCTargets
  PlanLag = "po"
  PlanVlans <- MCNumbers
  PlanAcls = {"a", "b"}
  PlanProfiles = {"w"}
  Instances = {1, 2}
  PlanConfigs <- MCOrphanConfigs
  MaxPlanEvents = 4
  MaxPlanFaults = 0
SPECIFICATION PlanSpec
INVARIANTS ReplayGetsThrough
