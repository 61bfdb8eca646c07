SPECIFICATION LiveSpec
CONSTANTS
  Reader = {"api", "tab"}
  Tables <- SomeTables
  NewRows <- SomeRows
  Written = {"dead"}
  Filters <- SomeFilters
  Limits = {0, 1, 3}
  DefaultLimit = 2
  MaxLimit = 2
  MaxChanges <- SomeChanges
  MaxTime = 5
  Minute = 2
  Hour = 4
  Day = 3
  ListLimit = 1
  DLQLimit = 1
  Pages = {2}
  Cap = 1
  MaxUpsets = 1
INVARIANTS WalkComplete StatsExact ChartExact
PROPERTIES RenderExact Fresh
