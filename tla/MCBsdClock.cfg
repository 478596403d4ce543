SPECIFICATION ClockSpec
CONSTANTS
  hz = 3
  Adjust <- Corrections
  Seconds <- SomeSeconds
  Usecs <- SomeUsecs
  Pcs <- SomePcs
  Bases <- SomeBases
  Settings <- SomeSettings
  MaxCpu = 2
  MaxTicks = 4
INVARIANTS TicksCharged HztoSound PanelAddressRight
PROPERTIES TimeSlewed
CHECK_DEADLOCK FALSE
