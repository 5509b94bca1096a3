SPECIFICATION Spec
CONSTANTS
  Trx <- OneTrx
  Ts <- Timeslots
  Slot <- TwoSlots
  RtsSlots <- NoSlots
  UlTbf = {1, 2}
  DlTbf = {3}
  Ms = {m1}
  NoMs = NoMs
  MultiConfig <- Classes
  MaxSlots <- ClassSlots
  NbrEntries <- Queues3
  MaxUsers = 2
  MaxUsersUl = 2
  MaxTfi = 2
  MaxTai = 3
  MaxUsf = 3
  UlQos <- UlOne
  DlQos <- DlOne
INVARIANTS TypeOK EntriesOwned NothingLeaks
CHECK_DEADLOCK FALSE
