CONSTANTS
  main = main
  idle = idle
  lcd = lcd
  find = find
  borrow = borrow
  giveback = giveback
  change = change
  none = none
  Thread <- MCThread
  InitPriority <- MCPriority
  Idle = idle
  Sem <- MCSem
  Mutex = {"lcd_mutex"}
  Nobody = none
  Main = main
  Lcd = lcd
  Pages <- MCPages

SPECIFICATION FairSpec

INVARIANTS
  TypeOK
  NoLostWakeup
  BooksBeforePages
  MutexNeverContended

PROPERTIES
  ImplementsHandoff
  ChoiceServed
  ReturnReachesCover
