--------------------------- MODULE MCMacScheduler ---------------------------
(***************************************************************************)
(* Instances of MacScheduler.  Rows 1, 2, 5 and 15 of the table ms of      *)
(* MultislotConfigurationGenerator.cpp give multislot classes 1 to 3.      *)
(***************************************************************************)
EXTENDS MacScheduler

Row(first, last, dl, offset, ul) ==
  [first |-> first, last |-> last, dl |-> dl, offset |-> offset, ul |-> ul]
Rows == [r \in {1, 2, 5, 15} |->
  CASE r = 1 -> Row(0, 7, {0}, 0, {0})
    [] r = 2 -> Row(0, 6, {0}, 1, {0})
    [] r = 5 -> Row(0, 6, {0, 1}, 1, {0})
    [] r = 15 -> Row(0, 6, {0}, 0, {0, 1})]
Classes == << {Rows[1]}, {Rows[1], Rows[2], Rows[5]},
              {Rows[1], Rows[2], Rows[5], Rows[15]} >>
ClassSlots == << [DL |-> 1, UL |-> 1], [DL |-> 2, UL |-> 1], [DL |-> 2, UL |-> 2] >>

OneTrx == {0}
Timeslots == {5, 6}
TwoSlots == {<<0, 5>>, <<0, 6>>}
OneSlot == {<<0, 6>>}
NoSlots == {}
Queues3 == <<3>>
Queues22 == <<2, 2>>
Ask(class, level, prec, peak) == [class |-> class, level |-> level, prec |-> prec, peak |-> peak]
UlOne == {Ask(3, 1, 1, 3)}
DlOne == {Ask(2, 1, 1, 3)}
DlLevels == {Ask(1, 1, 1, 3), Ask(1, 1, 2, 3), Ask(1, 2, 2, 3)}
NoQos == {}
=============================================================================
