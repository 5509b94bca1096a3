SPECIFICATION LiveSpec
CONSTANTS
  Trx <- OneTrx
  Ts <- Timeslots
  Slot <- OneSlot
  RtsSlots <- OneSlot
  UlTbf = {}
  DlTbf = {3, 4}
  Ms = {m1}
  NoMs = NoMs
  MultiConfig <- Classes
  MaxSlots <- ClassSlots
  NbrEntries <- Queues22
  MaxUsers = 16
  MaxUsersUl = 7
  MaxTfi = 2
  MaxTai = 3
  MaxUsf = 3
  UlQos <- NoQos
  DlQos <- DlLevels
INVARIANTS LevelsFullOrEmpty FirstEntryHeld
PROPERTIES Served
CHECK_DEADLOCK FALSE
