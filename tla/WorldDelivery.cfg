SPECIFICATION TickSpec
CONSTANTS
  Spaces <- DeliverySpaces
  Events <- DeliveryEvents
  Event <- DeliveryEvent
  Tasks <- DeliveryTasks
  Task <- DeliveryTask
  SpaceTasks <- DeliverySpaceTasks
  HostTasks = {}
  RunnerEvents = {"rating"}
  MonthEnds = {1}
  QuarterEnds = {}
  YearEnds = {}
  LastDay = 1
  MaxFailures = 1
  MaxRewinds = 1
INVARIANTS
  DeliveriesRespectDates
  DeliveredAtMostOnce
  NothingHeldBack
PROPERTIES
  ImplementsEventDelivery
  EventuallyDelivered
CHECK_DEADLOCK FALSE
