CONSTANTS
  high = high
  mid1 = mid1
  mid2 = mid2
  idle = idle
  low = low
  lcd_mutex = lcd_mutex
  none = none
  Thread <- MCThread
  InitPriority <- MCPriority
  Idle = idle
  Sem = {}
  Mutex = {lcd_mutex}
  Nobody = none
  M = lcd_mutex
  MaxHold = 2
  Ticks = {0, 2}
  TickMod = 7

SPECIFICATION Spec

INVARIANTS
  OneList
  NoLostWakeup
  MutualExclusion
  NoPriorityInversion
  PriorityGivenBack
  TimersSound

PROPERTIES
  MostUrgentRuns
  NoOvertaking
  ImplementsAlarms
