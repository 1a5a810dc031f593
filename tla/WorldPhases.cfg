SPECIFICATION MixedSpec
CONSTANTS
  Spaces <- PhaseSpaces
  Events <- NoEvents
  Event <- NoEvent
  Tasks <- PhaseTasks
  Task <- PhaseTask
  SpaceTasks <- PhaseSpaceTasks
  HostTasks <- PhaseTasks
  RunnerEvents = {}
  MonthEnds = {1}
  QuarterEnds = {}
  YearEnds = {}
  LastDay = 1
  MaxFailures = 1
  MaxRewinds = 1
INVARIANTS
  OnePathPerDate
  DispatchedInOrder
PROPERTIES
  DayIsComplete
  NoDateLockedOut
CHECK_DEADLOCK FALSE
