SPECIFICATION Spec
CONSTANTS
  Templates = {"rates", "credit"}
  ShiftCount <- Shifts
  Programs = {"twin", "triple"}
  Steps <- TwoPrograms
  Dates = {1, 2}
  ExplicitIds <- SharedId
  MaxRecords = 9
INVARIANTS
  PartialApplicationVisible
CHECK_DEADLOCK FALSE
