SPECIFICATION CalendarSpec
CONSTANTS
  BuildYears = {2023, 2024, 2025, 2026}
  LastDay = 1
  Sods = {0, 86399}
INVARIANT StartsOnNewYearsDay
CHECK_DEADLOCK FALSE
