SPECIFICATION Spec
CONSTANTS
  Spaces <- DeliverySpaces
  Events <- DeliveryEvents
  Event <- DeliveryEvent
  Tasks <- DeliveryTasks
  Task <- DeliveryTask
  SpaceTasks <- DeliverySpaceTasks
  HostTasks = {}
  RunnerEvents = {"rating"}
  MonthEnds = {1}
  QuarterEnds = {}
  YearEnds = {}
  LastDay = 1
  MaxFailures = 0
  MaxRewinds = 0
INVARIANT
  SameTickDeliveryImpossible
CHECK_DEADLOCK FALSE
