-------------------------- MODULE RmChannelProofs --------------------------
(* Proofs about the channels of the radio resource manager.                  *)
EXTENDS RmChannel, TLAPS

Cmd == {"ACT", "REL", "MODE"}

\* The variables a step changes through a helper keep their types.
LEMMA TakesType ==
    ASSUME queue \in Seq(Message), NEW type, NEW c, Takes(type, c)
    PROVE  queue' \in Seq(Message)
BY DEF Takes

LEMMA PostType ==
    ASSUME queue \in Seq(Message), NEW type, NEW of, Post(type, of),
           [type |-> type, of |-> of] \in Message
    PROVE  queue' \in Seq(Message)
BY DEF Post

LEMMA CommandType ==
    ASSUME TypeOK, NEW c \in Chan, NEW cmd \in Cmd, Command(c, cmd)
    PROVE  dspQ' \in [Chan -> Seq(Cmd)]
BY DEF TypeOK, Command, Cmd

LEMMA ToMmType ==
    ASSUME TypeOK, NEW c \in Chan, NEW what \in {"EST", "REL"}, ToMm(c, what)
    PROVE  mmQ' \in [Chan -> Seq({"EST", "REL"})]
BY DEF TypeOK, ToMm

LEMMA TimersType ==
    ASSUME TypeOK, NEW c \in Chan, NEW stop, NEW start \in SUBSET Timer, Timers(c, stop, start)
    PROVE  /\ armed' \in [Chan -> SUBSET Timer]
           /\ timerState' \in [Chan -> SUBSET Tested]
BY DEF TypeOK, Timers

LEMMA GotoType ==
    ASSUME TypeOK, NEW c \in Chan, NEW state \in State,
           NEW p \in {"FREE", "ASSIGNED", "RELEASING"}, Goto(c, state, p)
    PROVE  /\ sm' \in [Chan -> State]
           /\ phy' \in [Chan -> {"FREE", "ASSIGNED", "RELEASING"}]
BY DEF TypeOK, Goto

LEMMA ReleaseType ==
    ASSUME TypeOK, NEW c \in Chan, Release(c)
    PROVE  /\ sm' \in [Chan -> State]
           /\ phy' \in [Chan -> {"FREE", "ASSIGNED", "RELEASING"}]
           /\ armed' \in [Chan -> SUBSET Timer]
           /\ timerState' \in [Chan -> SUBSET Tested]
BY GotoType, TimersType DEF Release, State, Timer

LEMMA RrReleaseType ==
    ASSUME TypeOK, NEW c \in Chan, RrRelease(c), UNCHANGED <<ctx, dspOn>>,
           queue' \in Seq(Message)
    PROVE  TypeOK'
<1> USE DEF TypeOK, ctx, timers, dspVars, msVars, mmVars, admin
<1>1. CASE sm[c] = "S2" /\ Abandon(c)
  BY <1>1, CommandType DEF Abandon, Goto, LocalRelease, HoNack, Cmd, State
<1>2. CASE /\ sm[c] = "S7"
           /\ Deactivate(c, {"T3109", "T3L02", "T3101"}, {"T3111"})
           /\ TellMm(c)
           /\ UNCHANGED <<msVars, mm, hoWait, admin>>
  BY <1>2, CommandType, TimersType, ToMmType DEF Deactivate, TellMm, Goto, Cmd, State, Timer
<1>3. CASE /\ \E stop \in {{"T3101"}, {"T3105"}} : Deactivate(c, stop, {"T3111"})
           /\ UNCHANGED <<msVars, mmVars, admin, conn>>
  BY <1>3, CommandType, TimersType DEF Deactivate, Goto, Cmd, State, Timer
<1>4. CASE Release(c)
  BY <1>4, ReleaseType DEF Release
<1>5. CASE /\ Command(c, "REL")
           /\ UNCHANGED <<sm, phy, timers, msVars, mmVars, admin, conn>>
  BY <1>5, CommandType DEF Cmd
<1>6. QED
  BY <1>1, <1>2, <1>3, <1>4, <1>5 DEF RrRelease

LEMMA TypeInit == ASSUME ChanAssumption, Init PROVE TypeOK
BY DEF ChanAssumption, Init, TypeOK, State, Cause, Slot

LEMMA TypeStep ==
    ASSUME TypeOK, [Next]_vars
    PROVE  TypeOK'
<1> USE DEF TypeOK, ctx, timers, dspVars, msVars, mmVars, admin
<1>1. ASSUME NEW c \in Chan, ActAck(c) PROVE TypeOK'
  <2>1. queue' \in Seq(Message) /\ armed' \in [Chan -> SUBSET Timer]
        /\ timerState' \in [Chan -> SUBSET Tested]
    BY <1>1, TakesType, TimersType DEF ActAck, Timer
  <2>2. CASE ~isForHo[c]
    BY <1>1, <2>1, <2>2 DEF ActAck, Goto, LocalRelease, State
  <2>3. CASE isForHo[c]
    <3>1. mmQ' \in [Chan -> Seq({"EST", "REL"})]
      BY <1>1, <2>3, ToMmType DEF ActAck
    <3>2. QED
      BY <1>1, <2>1, <2>3, <3>1 DEF ActAck, Goto, LocalRelease, State
  <2>4. QED
    BY <2>2, <2>3
<1>2. ASSUME NEW c \in Chan, ActNack(c) PROVE TypeOK'
  BY <1>2, TakesType, CommandType, GotoType DEF ActNack, Abandon, LocalRelease, HoNack, Cmd, State
<1>3. ASSUME NEW c \in Chan, EstInd(c) PROVE TypeOK'
  BY <1>3, TakesType, TimersType DEF EstInd, Goto, State, Timer
<1>4. ASSUME NEW c \in Chan, T3101Expiry(c) PROVE TypeOK'
  BY <1>4, TakesType, CommandType DEF T3101Expiry, Goto, Cmd, State
<1>5. ASSUME NEW c \in Chan, OthraInd(c) PROVE TypeOK'
  BY <1>5, TakesType, TimersType DEF OthraInd, Timer
<1>6. ASSUME NEW c \in Chan, HoEstInd(c) PROVE TypeOK'
  BY <1>6, TakesType, TimersType DEF HoEstInd, Timer
<1>7. ASSUME NEW c \in Chan, HoComplete(c) PROVE TypeOK'
  BY <1>7, TakesType, TimersType DEF HoComplete, Goto, State, Timer
<1>8. ASSUME NEW c \in Chan, RelInd(c) PROVE TypeOK'
  BY <1>8, TakesType, ReleaseType DEF RelInd, Release
<1>9. ASSUME NEW c \in Chan, ChanAssignCmd(c) PROVE TypeOK'
  BY <1>9, TakesType, CommandType DEF ChanAssignCmd, Goto, Cmd, State
<1>10. ASSUME NEW c \in Chan, ModeAck(c) PROVE TypeOK'
  BY <1>10, TakesType, TimersType DEF ModeAck, Goto, State, Timer
<1>11. ASSUME NEW c \in Chan, ModeNack(c) PROVE TypeOK'
  BY <1>11, TakesType, ReleaseType DEF ModeNack, Release
<1>12. ASSUME NEW c \in Chan, ModeModifyAck(c) PROVE TypeOK'
  BY <1>12, TakesType, TimersType DEF ModeModifyAck, Goto, State, Timer
<1>13. ASSUME NEW c \in Chan, ModeModifyWrong(c) PROVE TypeOK'
  BY <1>13, TakesType, TimersType DEF ModeModifyWrong, Goto, State, Timer
<1>14. ASSUME NEW c \in Chan, HandoverCommand(c) PROVE TypeOK'
  BY <1>14, TakesType DEF HandoverCommand, Goto, State
<1>15. ASSUME NEW c \in Chan, HandoverFailure(c) PROVE TypeOK'
  BY <1>15, TakesType DEF HandoverFailure, Goto, State
<1>16. ASSUME NEW c \in Chan, ProcRrRelease(c) PROVE TypeOK'
  BY <1>16, TakesType, RrReleaseType DEF ProcRrRelease
<1>17. ASSUME NEW c \in Chan, ReleasedByMs(c) PROVE TypeOK'
  BY <1>17, TakesType, TimersType, ToMmType DEF ReleasedByMs, TellMm, LocalRelease, Timer
<1>18. ASSUME NEW c \in Chan, T3L02Expiry(c) PROVE TypeOK'
  BY <1>18, TakesType, TimersType, CommandType DEF T3L02Expiry, Deactivate, Goto, Cmd, State, Timer
<1>19. ASSUME NEW c \in Chan, T3109Expiry(c) PROVE TypeOK'
  BY <1>19, TakesType, TimersType, CommandType, ToMmType DEF T3109Expiry, Deactivate, Goto, TellMm, LocalRelease, Cmd, State, Timer
<1>20. ASSUME NEW c \in Chan, ExpiryDropped(c) PROVE TypeOK'
  BY <1>20, TakesType DEF ExpiryDropped
<1>21. ASSUME NEW c \in Chan, Deactivated(c) PROVE TypeOK'
  <2>1. queue' \in Seq(Message)
    BY <1>21, TakesType DEF Deactivated
  <2>2. armed' \in [Chan -> SUBSET Timer] /\ timerState' \in [Chan -> SUBSET Tested]
    BY <1>21, TimersType DEF Deactivated
  <2>3. /\ amState' \in [Chan -> {"unlocked", "shuttingDown", "locked"}]
        /\ acked' \subseteq Slot
    <3>1. CASE amState[c] # "shuttingDown"
      BY <1>21, <3>1 DEF Deactivated, PostRelHandler
    <3>2. CASE amState[c] = "shuttingDown" /\ c \in Tchf
      <4>1. amState' = [amState EXCEPT ![c] = "locked"] /\ acked' = acked \cup {c}
        BY <1>21, <3>2 DEF Deactivated, PostRelHandler
      <4>2. QED
        BY <3>2, <4>1 DEF Slot
    <3>3. CASE amState[c] = "shuttingDown" /\ c \notin Tchf
      BY <1>21, <3>3 DEF Deactivated, PostRelHandler, Slot
    <3>4. QED
      BY <3>1, <3>2, <3>3
  <2>4. /\ sm' \in [Chan -> State]
        /\ phy' \in [Chan -> {"FREE", "ASSIGNED", "RELEASING"}]
    BY <1>21, GotoType DEF Deactivated, State
  <2>5. QED
    BY <1>21, <2>1, <2>2, <2>3, <2>4 DEF Deactivated
<1>22. ASSUME NEW c \in Chan, LateOutcome(c) PROVE TypeOK'
  BY <1>22, TakesType DEF LateOutcome, LocalRelease
<1>23. ASSUME NEW c \in Chan, Ignore(c) PROVE TypeOK'
  BY <1>23, TakesType DEF Ignore
<1>24. ASSUME NEW s \in Slot, ShutdownReq(s) PROVE TypeOK'
  BY <1>24, TakesType DEF ShutdownReq, State
<1>25. ASSUME NEW c \in Chan, NEW cause \in Cause, ChanReq(c, cause) PROVE TypeOK'
  BY <1>25, CommandType DEF ChanReq, Activate, Goto, State, Cmd
<1>26. ASSUME NEW m \in MmId, NEW c \in Chan, HoReq(m, c) PROVE TypeOK'
  BY <1>26, CommandType DEF HoReq, Activate, Goto, State, Cmd
<1>27. ASSUME NEW m \in MmId, HoReqDropped(m) PROVE TypeOK'
  BY <1>27 DEF HoReqDropped
<1>28. ASSUME NEW c \in Chan, NEW t \in Timer, Expire(c, t) PROVE TypeOK'
  BY <1>28, PostType DEF Expire, Message
<1>29. ASSUME NEW c \in Chan, DspStep(c) PROVE TypeOK'
  <2>1. queue' \in Seq(Message)
    <3>1. \E type \in L1Msg : Post(type, c)
      BY <1>29 DEF DspStep, L1Msg
    <3>2. QED
      BY <1>29, <3>1, PostType DEF Message
  <2>2. dspQ' \in [Chan -> Seq(Cmd)]
    BY <1>29 DEF DspStep, Cmd
  <2>3. /\ dspOn' \in [Chan -> BOOLEAN]
        /\ granted' \in [Chan -> {"no", "imm", "ho", "phys"}]
    BY <1>29 DEF DspStep
  <2>4. QED
    BY <1>29, <2>1, <2>2, <2>3 DEF DspStep, Cmd
<1>30. ASSUME NEW c \in Chan, RadioLinkFailure(c) PROVE TypeOK'
  BY <1>30, PostType DEF RadioLinkFailure, Message, L1Msg
<1>31. ASSUME NEW c \in Chan, MsEstablishes(c) PROVE TypeOK'
  BY <1>31, PostType, ToMmType DEF MsEstablishes, Message, MdMsg
<1>32. ASSUME NEW c \in Chan, MsAccesses(c) PROVE TypeOK'
  BY <1>32, PostType DEF MsAccesses, Message, MdMsg
<1>33. ASSUME NEW c \in Chan, MsSends(c) PROVE TypeOK'
  BY <1>33, PostType DEF MsSends, Message, MdMsg, DataInd
<1>34. ASSUME NEW c \in Chan, MsReleases(c) PROVE TypeOK'
  BY <1>34, PostType DEF MsReleases, LocalRelease, Message, MdMsg
<1>35. ASSUME NEW c \in Chan, LapdmFails(c) PROVE TypeOK'
  BY <1>35, PostType DEF LapdmFails, Message, MdMsg
<1>36. ASSUME NEW c \in Chan, MmReads(c) PROVE TypeOK'
  BY <1>36 DEF MmReads
<1>37. ASSUME NEW c \in Chan, MmReleases(c) PROVE TypeOK'
  BY <1>37, PostType DEF MmReleases, Message, L3Msg
<1>38. ASSUME NEW c \in Chan, CcAsks(c) PROVE TypeOK'
  BY <1>38, PostType DEF CcAsks, Message, L3Msg
<1>39. ASSUME NEW s \in Slot, GrrShutsDown(s) PROVE TypeOK'
  BY <1>39, PostType DEF GrrShutsDown, Message
<1>40. CASE UNCHANGED vars
  BY <1>40 DEF vars
<1>41. QED
  BY <1>1, <1>2, <1>3, <1>4, <1>5, <1>6, <1>7, <1>8, <1>9, <1>10, <1>11, <1>12, <1>13, <1>14,
     <1>15, <1>16, <1>17, <1>18, <1>19, <1>20, <1>21, <1>22, <1>23, <1>24, <1>25, <1>26, <1>27,
     <1>28, <1>29, <1>30, <1>31, <1>32, <1>33, <1>34, <1>35, <1>36, <1>37, <1>38, <1>39, <1>40
     DEF Next, RmTask, RmHandles, Allocation, Surroundings

\* Every state of rm is one the operations can reach with the right types.
THEOREM TypeCorrect == Spec => []TypeOK
<1>1. Init => TypeOK
  BY TypeInit, ChanAssumption
<1>2. TypeOK /\ [Next]_vars => TypeOK'
  BY TypeStep
<1>3. QED
  BY <1>1, <1>2, PTL DEF Spec

-----------------------------------------------------------------------------
\* The description of a channel and its state machine.
PhyOf(state) ==
    CASE state = "S1" -> "FREE"
      [] state \in {"S7", "S9"} -> "RELEASING"
      [] OTHER -> "ASSIGNED"

LEMMA AgreesGoto ==
    ASSUME TypeOK, ChannelStateAgrees, NEW c \in Chan, NEW state \in State,
           Goto(c, state, PhyOf(state))
    PROVE  ChannelStateAgrees'
BY DEF TypeOK, ChannelStateAgrees, Goto, PhyOf

LEMMA AgreesStep ==
    ASSUME TypeOK, ChannelStateAgrees, [Next]_vars
    PROVE  ChannelStateAgrees'
<1>1. ASSUME NEW c \in Chan, ActAck(c) PROVE ChannelStateAgrees'
  <2>1. phy[c] = "ASSIGNED"
    BY <1>1 DEF ActAck, ChannelStateAgrees
  <2>2. PICK state \in {"S3", "S4"} : Goto(c, state, "ASSIGNED")
    BY <1>1, <2>1 DEF ActAck
  <2>3. QED
    BY <2>2, AgreesGoto DEF PhyOf, State
<1>2. ASSUME NEW c \in Chan, ActNack(c) PROVE ChannelStateAgrees'
  BY <1>2 DEF ActNack, Abandon, Goto, TypeOK, ChannelStateAgrees, State
<1>3. ASSUME NEW c \in Chan, EstInd(c) PROVE ChannelStateAgrees'
  BY <1>3 DEF EstInd, Goto, TypeOK, ChannelStateAgrees, State
<1>4. ASSUME NEW c \in Chan, T3101Expiry(c) PROVE ChannelStateAgrees'
  BY <1>4 DEF T3101Expiry, Goto, TypeOK, ChannelStateAgrees, State
<1>5. ASSUME NEW c \in Chan, HoComplete(c) PROVE ChannelStateAgrees'
  BY <1>5 DEF HoComplete, Goto, TypeOK, ChannelStateAgrees, State
<1>6. ASSUME NEW c \in Chan, RelInd(c) PROVE ChannelStateAgrees'
  BY <1>6 DEF RelInd, Release, Goto, TypeOK, ChannelStateAgrees, State
<1>7. ASSUME NEW c \in Chan, ChanAssignCmd(c) PROVE ChannelStateAgrees'
  BY <1>7 DEF ChanAssignCmd, Goto, TypeOK, ChannelStateAgrees, State
<1>8. ASSUME NEW c \in Chan, ModeAck(c) PROVE ChannelStateAgrees'
  BY <1>8 DEF ModeAck, Goto, TypeOK, ChannelStateAgrees, State
<1>9. ASSUME NEW c \in Chan, ModeNack(c) PROVE ChannelStateAgrees'
  BY <1>9 DEF ModeNack, Release, Goto, TypeOK, ChannelStateAgrees, State
<1>10. ASSUME NEW c \in Chan, ModeModifyAck(c) PROVE ChannelStateAgrees'
  BY <1>10 DEF ModeModifyAck, Goto, TypeOK, ChannelStateAgrees, State
<1>11. ASSUME NEW c \in Chan, ModeModifyWrong(c) PROVE ChannelStateAgrees'
  BY <1>11 DEF ModeModifyWrong, Goto, TypeOK, ChannelStateAgrees, State
<1>12. ASSUME NEW c \in Chan, HandoverCommand(c) PROVE ChannelStateAgrees'
  BY <1>12 DEF HandoverCommand, Goto, TypeOK, ChannelStateAgrees, State
<1>13. ASSUME NEW c \in Chan, HandoverFailure(c) PROVE ChannelStateAgrees'
  BY <1>13 DEF HandoverFailure, Goto, TypeOK, ChannelStateAgrees, State
<1>14. ASSUME NEW c \in Chan, T3L02Expiry(c) PROVE ChannelStateAgrees'
  BY <1>14 DEF T3L02Expiry, Deactivate, Goto, TypeOK, ChannelStateAgrees, State
<1>15. ASSUME NEW c \in Chan, T3109Expiry(c) PROVE ChannelStateAgrees'
  BY <1>15 DEF T3109Expiry, Deactivate, Goto, TypeOK, ChannelStateAgrees, State
<1>16. ASSUME NEW c \in Chan, Deactivated(c) PROVE ChannelStateAgrees'
  BY <1>16 DEF Deactivated, Goto, TypeOK, ChannelStateAgrees, State
<1>17. ASSUME NEW c \in Chan, ProcRrRelease(c) PROVE ChannelStateAgrees'
  BY <1>17 DEF ProcRrRelease, RrRelease, Abandon, Deactivate, Release, Goto, State, TypeOK, ChannelStateAgrees
<1>18. ASSUME NEW s \in Slot, ShutdownReq(s) PROVE ChannelStateAgrees'
  BY <1>18 DEF ShutdownReq, TypeOK, ChannelStateAgrees
<1>19. ASSUME NEW c \in Chan, NEW cause \in Cause, ChanReq(c, cause) PROVE ChannelStateAgrees'
  BY <1>19 DEF ChanReq, Activate, Goto, State, TypeOK, ChannelStateAgrees
<1>20. ASSUME NEW m \in MmId, NEW c \in Chan, HoReq(m, c) PROVE ChannelStateAgrees'
  BY <1>20 DEF HoReq, Activate, Goto, State, TypeOK, ChannelStateAgrees
<1>21. ASSUME UNCHANGED <<sm, phy>> PROVE ChannelStateAgrees'
  BY <1>21 DEF ChannelStateAgrees
<1>22. QED
  BY <1>1, <1>2, <1>3, <1>4, <1>5, <1>6, <1>7, <1>8, <1>9, <1>10, <1>11, <1>12, <1>13, <1>14,
     <1>15, <1>16, <1>17, <1>18, <1>19, <1>20, <1>21
     DEF Next, RmTask, RmHandles, Allocation, Surroundings, vars, OthraInd, HoEstInd,
         ReleasedByMs, ExpiryDropped, LateOutcome, Ignore, HoReqDropped, Expire, DspStep,
         RadioLinkFailure, MsEstablishes, MsAccesses, MsSends, MsReleases, LapdmFails,
         MmReads, MmReleases, CcAsks, GrrShutsDown
-----------------------------------------------------------------------------
\* The last word to the DSP.
LEMMA RelIsLast ==
    ASSUME NEW on \in BOOLEAN, NEW cmds \in Seq(Cmd)
    PROVE  EndsOff(on, Append(cmds, "REL"))
BY DEF EndsOff, Cmd

LEMMA EndsOffTail ==
    ASSUME NEW on \in BOOLEAN, NEW cmds \in Seq(Cmd), cmds # <<>>, EndsOff(on, cmds)
    PROVE  /\ Head(cmds) = "REL" => EndsOff(FALSE, Tail(cmds))
           /\ Head(cmds) # "REL" => \A b \in BOOLEAN :
                 Head(cmds) = "ACT" \/ b = on => EndsOff(b, Tail(cmds))
<1>1. /\ Len(cmds) \in Nat \ {0}
      /\ Len(Tail(cmds)) = Len(cmds) - 1
      /\ DOMAIN cmds = 1 .. Len(cmds)
      /\ DOMAIN Tail(cmds) = 1 .. Len(cmds) - 1
      /\ \A i \in 1 .. Len(cmds) - 1 : Tail(cmds)[i] = cmds[i + 1]
      /\ Head(cmds) = cmds[1]
  OBVIOUS
<1>2. CASE ~on /\ \A i \in DOMAIN cmds : cmds[i] # "ACT"
  <2>1. \A i \in DOMAIN Tail(cmds) : Tail(cmds)[i] # "ACT"
    BY <1>1, <1>2
  <2>2. QED
    BY <1>1, <1>2, <2>1 DEF EndsOff
<1>3. ASSUME NEW i \in DOMAIN cmds, cmds[i] = "REL",
             \A j \in DOMAIN cmds : j > i => cmds[j] # "ACT"
      PROVE  /\ Head(cmds) = "REL" => EndsOff(FALSE, Tail(cmds))
             /\ Head(cmds) # "REL" => \A b \in BOOLEAN :
                   Head(cmds) = "ACT" \/ b = on => EndsOff(b, Tail(cmds))
  <2>1. CASE i = 1
    <3>1. \A k \in DOMAIN Tail(cmds) : Tail(cmds)[k] # "ACT"
      BY <1>1, <1>3, <2>1
    <3>2. QED
      BY <1>1, <1>3, <2>1, <3>1 DEF EndsOff
  <2>2. CASE i # 1
    <3>1. /\ i - 1 \in DOMAIN Tail(cmds)
          /\ Tail(cmds)[i - 1] = "REL"
          /\ \A k \in DOMAIN Tail(cmds) : k > i - 1 => Tail(cmds)[k] # "ACT"
      BY <1>1, <1>3, <2>2
    <3>2. \A b \in BOOLEAN : EndsOff(b, Tail(cmds))
      BY <3>1 DEF EndsOff
    <3>3. QED
      BY <3>2
  <2>3. QED
    BY <2>1, <2>2
<1>4. QED
  BY <1>2, <1>3 DEF EndsOff

\* A step that concerns one channel is sound if it leaves that one sound.
LEMMA OrphanOne ==
    ASSUME TypeOK, TypeOK', NoOrphanRadio, NEW c \in Chan,
           \A d \in Chan \ {c} : sm'[d] = sm[d] /\ dspQ'[d] = dspQ[d] /\ dspOn'[d] = dspOn[d],
           sm'[c] \in {"S1", "S9"} => EndsOff(dspOn'[c], dspQ'[c])
    PROVE  NoOrphanRadio'
BY DEF NoOrphanRadio

\* Where a handler leaves the channel off, it has just told the DSP so.
LEMMA OrphanRel ==
    ASSUME TypeOK, TypeOK', NoOrphanRadio, NEW c \in Chan, Command(c, "REL"), UNCHANGED dspOn,
           \A d \in Chan \ {c} : sm'[d] = sm[d]
    PROVE  NoOrphanRadio'
<1>1. dspQ' = [dspQ EXCEPT ![c] = Append(@, "REL")]
  BY DEF Command
<1>2. dspOn[c] \in BOOLEAN /\ dspQ[c] \in Seq(Cmd)
  BY DEF TypeOK, Cmd
<1>3. EndsOff(dspOn'[c], dspQ'[c])
  BY <1>1, <1>2, RelIsLast DEF TypeOK
<1>4. QED
  BY <1>1, <1>3, OrphanOne DEF TypeOK

LEMMA OrphanStep ==
    ASSUME TypeOK, TypeOK', ChannelStateAgrees, NoOrphanRadio, [Next]_vars
    PROVE  NoOrphanRadio'
<1>1. ASSUME NEW c \in Chan, ActNack(c) PROVE NoOrphanRadio'
  BY <1>1, OrphanRel DEF ActNack, Abandon, Goto, TypeOK
<1>2. ASSUME NEW c \in Chan, T3101Expiry(c) PROVE NoOrphanRadio'
  BY <1>2, OrphanRel DEF T3101Expiry, Goto, TypeOK
<1>3. ASSUME NEW c \in Chan, T3L02Expiry(c) PROVE NoOrphanRadio'
  BY <1>3, OrphanRel DEF T3L02Expiry, Deactivate, Goto, TypeOK
<1>4. ASSUME NEW c \in Chan, T3109Expiry(c) PROVE NoOrphanRadio'
  BY <1>4, OrphanRel DEF T3109Expiry, Deactivate, Goto, TypeOK
<1>5. ASSUME NEW c \in Chan, ProcRrRelease(c) PROVE NoOrphanRadio'
  <2>1. CASE Release(c)
    BY <1>5, <2>1, OrphanOne DEF ProcRrRelease, Release, Goto, TypeOK
  <2>2. CASE ~Release(c)
    <3>1. Command(c, "REL") /\ \A d \in Chan \ {c} : sm'[d] = sm[d]
      BY SMTT(30), <1>5, <2>2 DEF ProcRrRelease, RrRelease, Abandon, Deactivate, Goto, TypeOK
    <3>2. QED
      BY <1>5, <3>1, OrphanRel DEF ProcRrRelease
  <2>3. QED
    BY <2>1, <2>2
<1>6. ASSUME NEW c \in Chan, ActAck(c) PROVE NoOrphanRadio'
  <2>1. PICK state \in {"S3", "S4"} : Goto(c, state, phy[c])
    BY <1>6 DEF ActAck
  <2>2. QED
    BY <1>6, <2>1, OrphanOne DEF ActAck, Goto, TypeOK, dspVars
<1>7. ASSUME NEW c \in Chan, EstInd(c) PROVE NoOrphanRadio'
  BY <1>7, OrphanOne DEF EstInd, Goto, TypeOK, dspVars
<1>8. ASSUME NEW c \in Chan, HoComplete(c) PROVE NoOrphanRadio'
  BY <1>8, OrphanOne DEF HoComplete, Goto, TypeOK, dspVars
<1>9. ASSUME NEW c \in Chan, RelInd(c) PROVE NoOrphanRadio'
  BY <1>9, OrphanOne DEF RelInd, Release, Goto, TypeOK, dspVars
<1>10. ASSUME NEW c \in Chan, ChanAssignCmd(c) PROVE NoOrphanRadio'
  BY <1>10, OrphanOne DEF ChanAssignCmd, Command, Goto, TypeOK, dspVars
<1>11. ASSUME NEW c \in Chan, ModeAck(c) PROVE NoOrphanRadio'
  BY <1>11, OrphanOne DEF ModeAck, Goto, TypeOK, dspVars
<1>12. ASSUME NEW c \in Chan, ModeNack(c) PROVE NoOrphanRadio'
  BY <1>12, OrphanOne DEF ModeNack, Release, Goto, TypeOK, dspVars
<1>13. ASSUME NEW c \in Chan, ModeModifyAck(c) PROVE NoOrphanRadio'
  BY <1>13, OrphanOne DEF ModeModifyAck, Goto, TypeOK, dspVars
<1>14. ASSUME NEW c \in Chan, ModeModifyWrong(c) PROVE NoOrphanRadio'
  BY <1>14, OrphanOne DEF ModeModifyWrong, Goto, TypeOK, dspVars
<1>15. ASSUME NEW c \in Chan, HandoverCommand(c) PROVE NoOrphanRadio'
  BY <1>15, OrphanOne DEF HandoverCommand, Goto, TypeOK, dspVars
<1>16. ASSUME NEW c \in Chan, HandoverFailure(c) PROVE NoOrphanRadio'
  BY <1>16, OrphanOne DEF HandoverFailure, Goto, TypeOK, dspVars
<1>17. ASSUME NEW c \in Chan, Deactivated(c) PROVE NoOrphanRadio'
  BY <1>17 DEF Deactivated, NoOrphanRadio, Goto, TypeOK, dspVars
<1>18. ASSUME NEW c \in Chan, NEW cause \in Cause, ChanReq(c, cause) PROVE NoOrphanRadio'
  BY <1>18, OrphanOne DEF ChanReq, Activate, Command, Goto, TypeOK
<1>19. ASSUME NEW m \in MmId, NEW c \in Chan, HoReq(m, c) PROVE NoOrphanRadio'
  BY <1>19, OrphanOne DEF HoReq, Activate, Command, Goto, TypeOK
<1>20. ASSUME NEW s \in Slot, ShutdownReq(s) PROVE NoOrphanRadio'
  <2>1. \A c \in Chan : phy[c] = "FREE" => sm[c] = "S1"
    BY DEF ChannelStateAgrees
  <2>2. sm' = sm
    <3>1. sm' \in [Chan -> State] /\ sm \in [Chan -> State]
      BY DEF TypeOK
    <3>2. \A c \in Chan : sm'[c] = sm[c]
      BY <1>20, <2>1 DEF ShutdownReq, SlotChans
    <3>3. QED
      BY <3>1, <3>2
  <2>3. QED
    BY <1>20, <2>2 DEF ShutdownReq, NoOrphanRadio, dspVars
<1>21. ASSUME NEW c \in Chan, DspStep(c) PROVE NoOrphanRadio'
  <2>1. /\ dspOn[c] \in BOOLEAN /\ dspQ[c] \in Seq(Cmd) /\ dspQ[c] # <<>>
        /\ dspOn'[c] \in BOOLEAN
        /\ dspQ'[c] = Tail(dspQ[c])
        /\ Head(dspQ[c]) = "REL" => dspOn'[c] = FALSE
        /\ Head(dspQ[c]) = "MODE" => dspOn'[c] = dspOn[c]
    BY <1>21 DEF DspStep, TypeOK, Cmd
  <2>2. Head(dspQ[c]) \in {"ACT", "REL", "MODE"}
    BY <1>21 DEF DspStep
  <2>3. EndsOff(dspOn[c], dspQ[c]) => EndsOff(dspOn'[c], dspQ'[c])
    BY <2>1, <2>2, EndsOffTail
  <2>4. /\ UNCHANGED sm
        /\ \A d \in Chan \ {c} : dspQ'[d] = dspQ[d] /\ dspOn'[d] = dspOn[d]
    BY <1>21 DEF DspStep, TypeOK
  <2>5. QED
    BY <2>3, <2>4, OrphanOne DEF NoOrphanRadio
<1>22. ASSUME UNCHANGED <<sm, dspQ, dspOn>> PROVE NoOrphanRadio'
  BY <1>22 DEF NoOrphanRadio
<1>23. QED
  BY <1>1, <1>2, <1>3, <1>4, <1>5, <1>6, <1>7, <1>8, <1>9, <1>10, <1>11, <1>12, <1>13, <1>14,
     <1>15, <1>16, <1>17, <1>18, <1>19, <1>20, <1>21, <1>22
     DEF Next, RmTask, RmHandles, Allocation, Surroundings, vars, dspVars, OthraInd, HoEstInd,
         ReleasedByMs, ExpiryDropped, LateOutcome, Ignore, HoReqDropped, Expire,
         RadioLinkFailure, MsEstablishes, MsAccesses, MsSends, MsReleases, LapdmFails,
         MmReads, MmReleases, CcAsks, GrrShutsDown
\* What a handler about one channel may do to the timeslots already acknowledged.
LEMMA AckedOne ==
    ASSUME TypeOK, TypeOK', AckedIsIdle, NEW c \in Chan, UNCHANGED <<amState, acked>>,
           \A d \in Chan \ {c} : sm'[d] = sm[d],
           amState[c] = "locked" /\ sm[c] = "S1" => sm'[c] = "S1"
    PROVE  AckedIsIdle'
<1>1. ASSUME NEW s \in acked, NEW d \in SlotChans(s)
      PROVE  sm'[d] = "S1" /\ amState[d] = "locked"
  <2>1. d \in Chan
    BY ChanAssumption DEF TypeOK, SlotChans, Sdcch4, Slot
  <2>2. sm[d] = "S1" /\ amState[d] = "locked"
    BY DEF AckedIsIdle
  <2>3. QED
    BY <2>1, <2>2
<1>2. QED
  BY <1>1 DEF AckedIsIdle, SlotChans

LEMMA AckedStep ==
    ASSUME TypeOK, TypeOK', ChannelStateAgrees, AckedIsIdle, [Next]_vars
    PROVE  AckedIsIdle'
<1>1. ASSUME NEW c \in Chan, ActAck(c) PROVE AckedIsIdle'
  <2>1. PICK state \in {"S3", "S4"} : Goto(c, state, phy[c])
    BY <1>1 DEF ActAck
  <2>2. QED
    BY <1>1, <2>1, AckedOne DEF ActAck, Goto, TypeOK, admin
<1>2. ASSUME NEW c \in Chan, ActNack(c) PROVE AckedIsIdle'
  BY <1>2, AckedOne DEF ActNack, Abandon, Goto, TypeOK, admin
<1>3. ASSUME NEW c \in Chan, EstInd(c) PROVE AckedIsIdle'
  BY <1>3, AckedOne DEF EstInd, Goto, TypeOK, admin
<1>4. ASSUME NEW c \in Chan, T3101Expiry(c) PROVE AckedIsIdle'
  BY <1>4, AckedOne DEF T3101Expiry, Goto, TypeOK, admin
<1>5. ASSUME NEW c \in Chan, HoComplete(c) PROVE AckedIsIdle'
  BY <1>5, AckedOne DEF HoComplete, Goto, TypeOK, admin
<1>6. ASSUME NEW c \in Chan, RelInd(c) PROVE AckedIsIdle'
  BY <1>6, AckedOne DEF RelInd, Release, Goto, TypeOK, admin
<1>7. ASSUME NEW c \in Chan, ChanAssignCmd(c) PROVE AckedIsIdle'
  BY <1>7, AckedOne DEF ChanAssignCmd, Goto, TypeOK, admin
<1>8. ASSUME NEW c \in Chan, ModeAck(c) PROVE AckedIsIdle'
  BY <1>8, AckedOne DEF ModeAck, Goto, TypeOK, admin
<1>9. ASSUME NEW c \in Chan, ModeNack(c) PROVE AckedIsIdle'
  BY <1>9, AckedOne DEF ModeNack, Release, Goto, TypeOK, admin
<1>10. ASSUME NEW c \in Chan, ModeModifyAck(c) PROVE AckedIsIdle'
  BY <1>10, AckedOne DEF ModeModifyAck, Goto, TypeOK, admin
<1>11. ASSUME NEW c \in Chan, ModeModifyWrong(c) PROVE AckedIsIdle'
  BY <1>11, AckedOne DEF ModeModifyWrong, Goto, TypeOK, admin
<1>12. ASSUME NEW c \in Chan, HandoverCommand(c) PROVE AckedIsIdle'
  BY <1>12, AckedOne DEF HandoverCommand, Goto, TypeOK, admin
<1>13. ASSUME NEW c \in Chan, HandoverFailure(c) PROVE AckedIsIdle'
  BY <1>13, AckedOne DEF HandoverFailure, Goto, TypeOK, admin
<1>14. ASSUME NEW c \in Chan, T3L02Expiry(c) PROVE AckedIsIdle'
  BY <1>14, AckedOne DEF T3L02Expiry, Deactivate, Goto, TypeOK, admin
<1>15. ASSUME NEW c \in Chan, T3109Expiry(c) PROVE AckedIsIdle'
  BY <1>15, AckedOne DEF T3109Expiry, Deactivate, Goto, TypeOK, admin
<1>16. ASSUME NEW c \in Chan, ProcRrRelease(c) PROVE AckedIsIdle'
  <2>1. /\ UNCHANGED admin
        /\ UNCHANGED sm \/ \E state \in State, p \in {"FREE", "RELEASING"} : Goto(c, state, p)
        /\ sm[c] = "S1" => UNCHANGED sm
    BY <1>16 DEF ProcRrRelease, RrRelease, Abandon, Deactivate, Release, Goto, State, admin
  <2>2. QED
    BY <2>1, AckedOne DEF Goto, TypeOK, admin
<1>17. ASSUME NEW c \in Chan, NEW cause \in Cause, ChanReq(c, cause) PROVE AckedIsIdle'
  BY <1>17, AckedOne DEF ChanReq, Activate, Allocatable, Goto, TypeOK, admin
<1>18. ASSUME NEW m \in MmId, NEW c \in Chan, HoReq(m, c) PROVE AckedIsIdle'
  BY <1>18, AckedOne DEF HoReq, Activate, Allocatable, Goto, TypeOK, admin
<1>19. ASSUME NEW c \in Chan, Deactivated(c) PROVE AckedIsIdle'
  <2>1. /\ sm[c] = "S9" /\ sm' = [sm EXCEPT ![c] = "S1"]
        /\ PostRelHandler(c)
    BY <1>19 DEF Deactivated, Goto
  <2>2. \A s \in acked : c \notin SlotChans(s)
    BY <2>1 DEF AckedIsIdle
  <2>3. \A d \in Chan \ {c} : sm'[d] = sm[d] /\ amState'[d] = amState[d]
    BY <2>1 DEF PostRelHandler, TypeOK
  <2>4. \A s \in acked' \ acked : s = c /\ c \in Tchf /\ amState'[c] = "locked"
    BY <2>1 DEF PostRelHandler, TypeOK, Sdcch4
  <2>5. \A s \in Slot : SlotChans(s) \subseteq Chan
    BY ChanAssumption DEF SlotChans, Sdcch4, Slot
  <2>6. ASSUME NEW s \in acked', NEW d \in SlotChans(s)
        PROVE  sm'[d] = "S1" /\ amState'[d] = "locked"
    <3>1. CASE s \in acked
      BY <2>2, <2>3, <2>5, <2>6, <3>1 DEF AckedIsIdle, TypeOK
    <3>2. CASE s \notin acked
      <4>1. d = c
        BY <2>4, <2>6, <3>2, ChanAssumption DEF SlotChans
      <4>2. QED
        BY <2>1, <2>4, <2>6, <3>2, <4>1 DEF TypeOK
    <3>3. QED
      BY <3>1, <3>2
  <2>7. QED
    BY <2>6 DEF AckedIsIdle, SlotChans
<1>20. ASSUME NEW s \in Slot, ShutdownReq(s) PROVE AckedIsIdle'
  <2>1. \A c \in Chan : phy[c] = "FREE" <=> sm[c] = "S1"
    BY DEF ChannelStateAgrees
  <2>2. \A c \in Chan : sm[c] = "S1" => sm'[c] = "S1"
    BY <1>20 DEF ShutdownReq
  <2>3. \A c \in Chan : sm[c] = "S1" /\ (amState[c] = "locked" \/ c \in SlotChans(s)) =>
              amState'[c] = "locked"
    BY <1>20, <2>1 DEF ShutdownReq
  <2>4. \A r \in acked' \ acked : r = s /\ \A c \in SlotChans(s) : phy[c] = "FREE"
    BY <1>20 DEF ShutdownReq
  <2>5. \A r \in Slot : SlotChans(r) \subseteq Chan
    BY ChanAssumption DEF SlotChans, Sdcch4, Slot
  <2>6. ASSUME NEW r \in acked', NEW d \in SlotChans(r)
        PROVE  sm'[d] = "S1" /\ amState'[d] = "locked"
    <3>1. d \in Chan
      BY <2>5 DEF TypeOK
    <3>2. CASE r \in acked
      BY <2>2, <2>3, <3>1, <3>2 DEF AckedIsIdle
    <3>3. CASE r \notin acked
      BY <2>1, <2>2, <2>3, <2>4, <3>1, <3>3
    <3>4. QED
      BY <3>2, <3>3
  <2>7. QED
    BY <2>6 DEF AckedIsIdle, SlotChans
<1>21. ASSUME UNCHANGED <<sm, amState, acked>> PROVE AckedIsIdle'
  BY <1>21 DEF AckedIsIdle, SlotChans
<1>22. QED
  BY <1>1, <1>2, <1>3, <1>4, <1>5, <1>6, <1>7, <1>8, <1>9, <1>10, <1>11, <1>12, <1>13, <1>14,
     <1>15, <1>16, <1>17, <1>18, <1>19, <1>20, <1>21
     DEF Next, RmTask, RmHandles, Allocation, Surroundings, vars, admin, OthraInd, HoEstInd,
         ReleasedByMs, ExpiryDropped, LateOutcome, Ignore, HoReqDropped, Expire, DspStep,
         RadioLinkFailure, MsEstablishes, MsAccesses, MsSends, MsReleases, LapdmFails,
         MmReads, MmReleases, CcAsks, GrrShutsDown

\* Every handler keeps the channel's two states in step; what is free or being
\* deactivated is off as far as the DSP will know; a timeslot acknowledged to GRR as
\* shut down is idle and stays so.
Safe == TypeOK /\ ChannelStateAgrees /\ NoOrphanRadio /\ AckedIsIdle

THEOREM ChannelsSafe ==
    Spec => [](ChannelStateAgrees /\ NoOrphanRadio /\ AckedIsIdle)
<1>1. Init => Safe
  <2>1. Init => ChannelStateAgrees /\ AckedIsIdle
    BY DEF Init, ChannelStateAgrees, AckedIsIdle
  <2>2. Init => NoOrphanRadio
    BY DEF Init, NoOrphanRadio, EndsOff
  <2>3. QED
    BY <2>1, <2>2, TypeInit, ChanAssumption DEF Safe
<1>2. Safe /\ [Next]_vars => Safe'
  BY TypeStep, AgreesStep, OrphanStep, AckedStep DEF Safe
<1>3. QED
  BY <1>1, <1>2, PTL DEF Spec, Safe

\* No handler leaves the description of a channel and its state machine apart, whatever
\* the messages and their order: allocation, which looks only at the first, never takes a
\* channel that is in use.
THEOREM StatesAgree == Spec => []ChannelStateAgrees
BY ChannelsSafe, PTL

\* A timeslot that rm has acknowledged to GRR as shut down is idle and stays so: no request
\* under way when it was shut down brings one of its channels back.
THEOREM AckedStaysIdle == Spec => []AckedIsIdle
BY ChannelsSafe, PTL
-----------------------------------------------------------------------------
\* Waiting for the DSP.
Answer(state) ==
    CASE state = "S2" -> {"ACT_ACK", "ACT_NACK"}
      [] state = "S6" -> {"MODE_ACK", "MODE_NACK"}
      [] state = "S9" -> {"REL_ACK"}
      [] OTHER -> {}
Asked(state) ==
    CASE state = "S2" -> "ACT" [] state = "S6" -> "MODE" [] OTHER -> "REL"

\* DspAnswers for one channel.
Awaited(c) ==
    sm[c] \in {"S2", "S6", "S9"} =>
       InDsp(Asked(sm[c]), c) \/ \E type \in Answer(sm[c]) : InQueue(type, c)

LEMMA AwaitedAll == DspAnswers <=> \A c \in Chan : Awaited(c)
BY DEF DspAnswers, Awaited, Asked, Answer

\* A message stays in the queue until it is at its head and is taken.
LEMMA QueueKeeps ==
    ASSUME TypeOK, NEW type, NEW c, InQueue(type, c),
           \/ UNCHANGED queue
           \/ \E t, of : Post(t, of)
           \/ /\ queue # <<>> /\ queue' = Tail(queue)
              /\ Head(queue) # [type |-> type, of |-> c]
    PROVE  InQueue(type, c)'
<1>1. queue \in Seq(Message)
  BY DEF TypeOK
<1>2. PICK i \in DOMAIN queue : queue[i] = [type |-> type, of |-> c]
  BY DEF InQueue
<1>3. CASE UNCHANGED queue
  BY <1>2, <1>3 DEF InQueue
<1>4. ASSUME NEW m, queue' = Append(queue, m) PROVE InQueue(type, c)'
  <2>1. i \in DOMAIN queue' /\ queue'[i] = queue[i]
    BY <1>1, <1>4
  <2>2. QED
    BY <1>2, <2>1 DEF InQueue
<1>5. CASE /\ queue # <<>> /\ queue' = Tail(queue)
           /\ Head(queue) # [type |-> type, of |-> c]
  <2>1. i - 1 \in DOMAIN queue' /\ queue'[i - 1] = queue[i]
    BY <1>1, <1>2, <1>5
  <2>2. QED
    BY <1>2, <2>1 DEF InQueue
<1>6. QED
  BY <1>3, <1>4, <1>5 DEF Post

\* So does a command that is not the first, or while none is taken.
LEMMA DspKeeps ==
    ASSUME TypeOK, NEW c \in Chan, NEW cmd, InDsp(cmd, c),
           \/ dspQ'[c] = dspQ[c]
           \/ \E x : dspQ'[c] = Append(dspQ[c], x)
           \/ dspQ[c] # <<>> /\ dspQ'[c] = Tail(dspQ[c]) /\ Head(dspQ[c]) # cmd
    PROVE  InDsp(cmd, c)'
<1>1. dspQ[c] \in Seq(Cmd)
  BY DEF TypeOK, Cmd
<1>2. PICK i \in DOMAIN dspQ[c] : dspQ[c][i] = cmd
  BY DEF InDsp
<1>3. CASE dspQ'[c] = dspQ[c]
  BY <1>2, <1>3 DEF InDsp
<1>4. ASSUME NEW x, dspQ'[c] = Append(dspQ[c], x) PROVE InDsp(cmd, c)'
  <2>1. i \in DOMAIN dspQ'[c] /\ dspQ'[c][i] = dspQ[c][i]
    BY <1>1, <1>4
  <2>2. QED
    BY <1>2, <2>1 DEF InDsp
<1>5. CASE dspQ[c] # <<>> /\ dspQ'[c] = Tail(dspQ[c]) /\ Head(dspQ[c]) # cmd
  <2>1. i - 1 \in DOMAIN dspQ'[c] /\ dspQ'[c][i - 1] = dspQ[c][i]
    BY <1>1, <1>2, <1>5
  <2>2. QED
    BY <1>2, <2>1 DEF InDsp
<1>6. QED
  BY <1>3, <1>4, <1>5

\* A command just given is on its way.
LEMMA JustAsked ==
    ASSUME TypeOK, NEW c \in Chan, NEW cmd, Command(c, cmd)
    PROVE  InDsp(cmd, c)'
<1>1. dspQ'[c] = Append(dspQ[c], cmd) /\ dspQ[c] \in Seq(Cmd)
  BY DEF TypeOK, Command, Cmd
<1>2. Len(dspQ[c]) + 1 \in DOMAIN dspQ'[c] /\ dspQ'[c][Len(dspQ[c]) + 1] = cmd
  BY <1>1
<1>3. QED
  BY <1>2 DEF InDsp

\* And an answer just given is in the queue.
LEMMA JustPosted ==
    ASSUME TypeOK, NEW type, NEW c, Post(type, c)
    PROVE  InQueue(type, c)'
<1>1. queue' = Append(queue, [type |-> type, of |-> c]) /\ queue \in Seq(Message)
  BY DEF TypeOK, Post
<1>2. Len(queue) + 1 \in DOMAIN queue' /\ queue'[Len(queue) + 1] = [type |-> type, of |-> c]
  BY <1>1
<1>3. QED
  BY <1>2 DEF InQueue

\* A channel that waits goes on waiting for something that comes: the step neither
\* takes its answer nor, without answering, its command.
LEMMA StillAwaited ==
    ASSUME TypeOK, NEW c \in Chan, Awaited(c), sm'[c] = sm[c],
           \/ UNCHANGED queue
           \/ \E t, of : Post(t, of)
           \/ /\ queue # <<>> /\ queue' = Tail(queue)
              /\ \A type \in Answer(sm[c]) : Head(queue) # [type |-> type, of |-> c],
           \/ dspQ'[c] = dspQ[c]
           \/ \E x : dspQ'[c] = Append(dspQ[c], x)
           \/ dspQ[c] # <<>> /\ dspQ'[c] = Tail(dspQ[c]) /\ Head(dspQ[c]) # Asked(sm[c])
    PROVE  Awaited(c)'
<1>1. CASE InDsp(Asked(sm[c]), c)
  <2>1. InDsp(Asked(sm[c]), c)'
    BY <1>1, DspKeeps
  <2>2. QED
    BY <2>1 DEF Awaited, InDsp
<1>2. ASSUME NEW type \in Answer(sm[c]), InQueue(type, c) PROVE Awaited(c)'
  <2>1. InQueue(type, c)'
    BY <1>2, QueueKeeps
  <2>2. QED
    BY <2>1, <1>2 DEF Awaited, InQueue
<1>3. QED
  BY <1>1, <1>2 DEF Awaited

\* A handler about c disturbs no other channel.
LEMMA AwaitedOne ==
    ASSUME TypeOK, DspAnswers, NEW c \in Chan,
           UNCHANGED queue \/ (\E t : Takes(t, c)) \/ (\E t, of : Post(t, of)),
           \A d \in Chan \ {c} : sm'[d] = sm[d] /\ dspQ'[d] = dspQ[d],
           Awaited(c)'
    PROVE  DspAnswers'
<1>1. ASSUME NEW d \in Chan \ {c} PROVE Awaited(d)'
  <2>1. Awaited(d)
    BY AwaitedAll
  <2>2. \/ UNCHANGED queue
        \/ \E t, of : Post(t, of)
        \/ /\ queue # <<>> /\ queue' = Tail(queue)
           /\ \A type \in Answer(sm[d]) : Head(queue) # [type |-> type, of |-> d]
    BY DEF Takes
  <2>3. QED
    BY <2>1, <2>2, StillAwaited
<1>2. \A d \in Chan : Awaited(d)'
  BY <1>1
<1>3. QED
  BY <1>2 DEF DspAnswers, Awaited, Asked, Answer, InDsp, InQueue

LEMMA AwaitedStep ==
    ASSUME TypeOK, TypeOK', ChannelStateAgrees, DspAnswers, [Next]_vars
    PROVE  DspAnswers'
<1>1. ASSUME NEW c \in Chan, ActAck(c) PROVE DspAnswers'
  <2>1. \E state \in {"S3", "S4"} : sm' = [sm EXCEPT ![c] = state]
    BY <1>1 DEF ActAck, Goto
  <2>2. Takes("ACT_ACK", c) /\ UNCHANGED dspQ
    BY <1>1 DEF ActAck, dspVars
  <2>3. QED
    BY <2>1, <2>2, AwaitedOne DEF Awaited, TypeOK
<1>2. ASSUME NEW c \in Chan, EstInd(c) PROVE DspAnswers'
  BY <1>2, AwaitedOne DEF EstInd, Goto, Awaited, TypeOK, dspVars
<1>3. ASSUME NEW c \in Chan, HoComplete(c) PROVE DspAnswers'
  BY <1>3, AwaitedOne DEF HoComplete, Goto, Awaited, TypeOK, dspVars
<1>4. ASSUME NEW c \in Chan, RelInd(c) PROVE DspAnswers'
  BY <1>4, AwaitedOne DEF RelInd, Release, Goto, Awaited, TypeOK, dspVars
<1>5. ASSUME NEW c \in Chan, ModeAck(c) PROVE DspAnswers'
  BY <1>5, AwaitedOne DEF ModeAck, Goto, Awaited, TypeOK, dspVars
<1>6. ASSUME NEW c \in Chan, ModeNack(c) PROVE DspAnswers'
  BY <1>6, AwaitedOne DEF ModeNack, Release, Goto, Awaited, TypeOK, dspVars
<1>7. ASSUME NEW c \in Chan, ModeModifyAck(c) PROVE DspAnswers'
  BY <1>7, AwaitedOne DEF ModeModifyAck, Goto, Awaited, TypeOK, dspVars
<1>8. ASSUME NEW c \in Chan, ModeModifyWrong(c) PROVE DspAnswers'
  BY <1>8, AwaitedOne DEF ModeModifyWrong, Goto, Awaited, TypeOK, dspVars
<1>9. ASSUME NEW c \in Chan, HandoverCommand(c) PROVE DspAnswers'
  BY <1>9, AwaitedOne DEF HandoverCommand, Goto, Awaited, TypeOK, dspVars
<1>10. ASSUME NEW c \in Chan, HandoverFailure(c) PROVE DspAnswers'
  BY <1>10, AwaitedOne DEF HandoverFailure, Goto, Awaited, TypeOK, dspVars
<1>11. ASSUME NEW c \in Chan, ActNack(c) PROVE DspAnswers'
  BY <1>11, AwaitedOne DEF ActNack, Abandon, Command, Goto, Awaited, TypeOK, dspVars
<1>12. ASSUME NEW c \in Chan, Deactivated(c) PROVE DspAnswers'
  BY <1>12, AwaitedOne DEF Deactivated, Goto, Awaited, TypeOK, dspVars
<1>13. ASSUME NEW c \in Chan, OthraInd(c) PROVE DspAnswers'
  BY <1>13, AwaitedOne DEF OthraInd, Awaited, dspVars
<1>14. ASSUME NEW c \in Chan, HoEstInd(c) PROVE DspAnswers'
  BY <1>14, AwaitedOne DEF HoEstInd, Awaited, dspVars
<1>15. ASSUME NEW c \in Chan, ReleasedByMs(c) PROVE DspAnswers'
  BY <1>15, AwaitedOne DEF ReleasedByMs, Awaited, dspVars
<1>16. ASSUME NEW c \in Chan, ExpiryDropped(c) PROVE DspAnswers'
  BY <1>16, AwaitedOne DEF ExpiryDropped, Awaited, dspVars
<1>17. ASSUME NEW c \in Chan, LateOutcome(c) PROVE DspAnswers'
  BY <1>17, AwaitedOne DEF LateOutcome, Awaited, dspVars
<1>18. ASSUME NEW c \in Chan, T3101Expiry(c) PROVE DspAnswers'
  <2>1. Takes("T3101", c) /\ Command(c, "REL") /\ sm' = [sm EXCEPT ![c] = "S9"]
    BY <1>18 DEF T3101Expiry, Goto
  <2>2. InDsp("REL", c)'
    BY <2>1, JustAsked
  <2>3. Awaited(c)'
    BY <2>1, <2>2 DEF Awaited, Asked, InDsp, TypeOK
  <2>4. QED
    BY <2>1, <2>3, AwaitedOne DEF Command, TypeOK
<1>19. ASSUME NEW c \in Chan, T3L02Expiry(c) PROVE DspAnswers'
  <2>1. Takes("T3L02", c) /\ Command(c, "REL") /\ sm' = [sm EXCEPT ![c] = "S9"]
    BY <1>19 DEF T3L02Expiry, Deactivate, Goto
  <2>2. InDsp("REL", c)'
    BY <2>1, JustAsked
  <2>3. Awaited(c)'
    BY <2>1, <2>2 DEF Awaited, Asked, InDsp, TypeOK
  <2>4. QED
    BY <2>1, <2>3, AwaitedOne DEF Command, TypeOK
<1>20. ASSUME NEW c \in Chan, T3109Expiry(c) PROVE DspAnswers'
  <2>1. Takes("T3109", c) /\ Command(c, "REL") /\ sm' = [sm EXCEPT ![c] = "S9"]
    BY <1>20 DEF T3109Expiry, Deactivate, Goto
  <2>2. InDsp("REL", c)'
    BY <2>1, JustAsked
  <2>3. Awaited(c)'
    BY <2>1, <2>2 DEF Awaited, Asked, InDsp, TypeOK
  <2>4. QED
    BY <2>1, <2>3, AwaitedOne DEF Command, TypeOK
<1>21. ASSUME NEW c \in Chan, ChanAssignCmd(c) PROVE DspAnswers'
  <2>1. Takes("ASSIGN_CMD", c) /\ Command(c, "MODE") /\ sm' = [sm EXCEPT ![c] = "S6"]
    BY <1>21 DEF ChanAssignCmd, Goto
  <2>2. InDsp("MODE", c)'
    BY <2>1, JustAsked
  <2>3. Awaited(c)'
    BY <2>1, <2>2 DEF Awaited, Asked, InDsp, TypeOK
  <2>4. QED
    BY <2>1, <2>3, AwaitedOne DEF Command, TypeOK
<1>22. ASSUME NEW c \in Chan, NEW cause \in Cause, ChanReq(c, cause) PROVE DspAnswers'
  <2>1. UNCHANGED queue /\ Command(c, "ACT") /\ sm' = [sm EXCEPT ![c] = "S2"]
    BY <1>22 DEF ChanReq, Activate, Goto
  <2>2. InDsp("ACT", c)'
    BY <2>1, JustAsked
  <2>3. Awaited(c)'
    BY <2>1, <2>2 DEF Awaited, Asked, InDsp, TypeOK
  <2>4. QED
    BY <2>1, <2>3, AwaitedOne DEF Command, TypeOK
<1>23. ASSUME NEW c \in Chan, NEW m \in MmId, HoReq(m, c) PROVE DspAnswers'
  <2>1. UNCHANGED queue /\ Command(c, "ACT") /\ sm' = [sm EXCEPT ![c] = "S2"]
    BY <1>23 DEF HoReq, Activate, Goto
  <2>2. InDsp("ACT", c)'
    BY <2>1, JustAsked
  <2>3. Awaited(c)'
    BY <2>1, <2>2 DEF Awaited, Asked, InDsp, TypeOK
  <2>4. QED
    BY <2>1, <2>3, AwaitedOne DEF Command, TypeOK
<1>24. ASSUME NEW c \in Chan, ProcRrRelease(c) PROVE DspAnswers'
  <2>1. PICK type \in Releases(c) : Takes(type, c)
    BY <1>24 DEF ProcRrRelease
  <2>2. CASE sm[c] \in {"S1", "S3", "S4", "S7", "S9"}
    <3>1. Command(c, "REL") /\ (sm' = [sm EXCEPT ![c] = "S9"] \/ UNCHANGED sm)
      BY <1>24, <2>2 DEF ProcRrRelease, RrRelease, Deactivate, Goto
    <3>2. InDsp("REL", c)'
      BY <3>1, JustAsked
    <3>3. Awaited(c)'
      BY <2>2, <3>1, <3>2 DEF Awaited, Asked, InDsp, TypeOK
    <3>4. \A d \in Chan \ {c} : sm'[d] = sm[d] /\ dspQ'[d] = dspQ[d]
      BY <3>1 DEF Command, TypeOK
    <3>5. QED
      BY <2>1, <3>3, <3>4, AwaitedOne
  <2>3. CASE sm[c] \notin {"S1", "S3", "S4", "S7", "S9"}
    <3>1. \/ sm' = [sm EXCEPT ![c] = "S7"] /\ UNCHANGED dspQ
          \/ sm' = [sm EXCEPT ![c] = "S1"] /\ Command(c, "REL")
      BY <1>24, <2>3 DEF ProcRrRelease, RrRelease, Release, Abandon, Goto
    <3>2. Awaited(c)'
      BY <3>1 DEF Awaited, TypeOK
    <3>3. \A d \in Chan \ {c} : sm'[d] = sm[d] /\ dspQ'[d] = dspQ[d]
      BY <3>1 DEF Command, TypeOK
    <3>4. QED
      BY <2>1, <3>2, <3>3, AwaitedOne
  <2>4. QED
    BY <2>2, <2>3
<1>25. ASSUME NEW c \in Chan, Ignore(c) PROVE DspAnswers'
  <2>1. PICK type : type \notin Handled(c) /\ Takes(type, c)
    BY <1>25 DEF Ignore
  <2>2. sm[c] \in {"S2", "S6", "S9"} => Answer(sm[c]) \subseteq Handled(c)
    BY DEF Answer, Handled
  <2>3. \A t \in Answer(sm[c]) : Head(queue) # [type |-> t, of |-> c]
    BY <2>1, <2>2 DEF Takes, Answer
  <2>4. Awaited(c) /\ UNCHANGED <<sm, dspQ>> /\ queue # <<>> /\ queue' = Tail(queue)
    BY <1>25, <2>1, AwaitedAll DEF Ignore, Takes, dspVars
  <2>5. Awaited(c)'
    BY <2>3, <2>4, StillAwaited
  <2>6. QED
    BY <2>1, <2>4, <2>5, AwaitedOne
<1>26. ASSUME NEW c \in Chan, DspStep(c) PROVE DspAnswers'
  <2>1. /\ UNCHANGED sm /\ dspQ[c] # <<>>
        /\ dspQ' = [dspQ EXCEPT ![c] = Tail(dspQ[c])]
        /\ \E t, of : Post(t, of)
    BY <1>26 DEF DspStep
  <2>2. Awaited(c)'
    <3>1. CASE Head(dspQ[c]) # Asked(sm[c])
      BY <2>1, <3>1, StillAwaited, AwaitedAll DEF TypeOK
    <3>2. CASE sm[c] \in {"S2", "S6", "S9"} /\ Head(dspQ[c]) = Asked(sm[c])
      <4>1. PICK type \in Answer(sm[c]) : Post(type, c)
        BY <1>26, <3>2 DEF DspStep, Asked, Answer
      <4>2. InQueue(type, c)'
        BY <4>1, JustPosted
      <4>3. QED
        BY <2>1, <4>1, <4>2 DEF Awaited, InQueue
    <3>3. QED
      BY <2>1, <3>1, <3>2 DEF Awaited
  <2>3. QED
    BY <2>1, <2>2, AwaitedOne DEF TypeOK
<1>27. ASSUME NEW s \in Slot, ShutdownReq(s) PROVE DspAnswers'
  <2>1. \A c \in Chan : sm'[c] = sm[c]
    BY <1>27 DEF ShutdownReq, ChannelStateAgrees
  <2>2. queue # <<>> /\ queue' = Tail(queue) /\ Head(queue).type = "SHUTDOWN_REQ" /\ UNCHANGED dspQ
    BY <1>27 DEF ShutdownReq, Takes, dspVars
  <2>3. ASSUME NEW c \in Chan PROVE Awaited(c)'
    <3>1. \A t \in Answer(sm[c]) : Head(queue) # [type |-> t, of |-> c]
      BY <2>2 DEF Answer
    <3>2. QED
      BY <2>1, <2>2, <3>1, StillAwaited, AwaitedAll
  <2>4. QED
    BY <2>3 DEF DspAnswers, Awaited, Asked, Answer, InDsp, InQueue
<1>28. ASSUME UNCHANGED <<sm, dspQ>>, UNCHANGED queue \/ \E t, of : Post(t, of) PROVE DspAnswers'
  <2>1. ASSUME NEW c \in Chan PROVE Awaited(c)'
    BY <1>28, StillAwaited, AwaitedAll
  <2>2. QED
    BY <2>1 DEF DspAnswers, Awaited, Asked, Answer, InDsp, InQueue
<1>29. ASSUME NEW m \in MmId, HoReqDropped(m) PROVE DspAnswers'
  BY <1>29, <1>28 DEF HoReqDropped, dspVars
<1>30. CASE UNCHANGED vars
  BY <1>28, <1>30 DEF vars, dspVars
<1>31. CASE Surroundings
  <2>1. ASSUME NEW c \in Chan, ~DspStep(c),
               \/ \E t \in Timer : Expire(c, t)
               \/ RadioLinkFailure(c) \/ MsEstablishes(c) \/ MsAccesses(c) \/ MsSends(c)
               \/ MsReleases(c) \/ LapdmFails(c) \/ MmReads(c) \/ MmReleases(c) \/ CcAsks(c)
        PROVE  DspAnswers'
    BY <2>1, <1>28 DEF Expire, RadioLinkFailure, MsEstablishes, MsAccesses, MsSends, MsReleases,
       LapdmFails, MmReads, MmReleases, CcAsks, dspVars
  <2>2. ASSUME NEW s \in Slot, GrrShutsDown(s) PROVE DspAnswers'
    BY <2>2, <1>28 DEF GrrShutsDown, dspVars
  <2>3. QED
    BY <1>31, <1>26, <2>1, <2>2 DEF Surroundings
<1>32. QED
  BY <1>1, <1>2, <1>3, <1>4, <1>5, <1>6, <1>7, <1>8, <1>9, <1>10, <1>11, <1>12, <1>13, <1>14, <1>15, <1>16, <1>17, <1>18, <1>19, <1>20, <1>21, <1>22, <1>23, <1>24, <1>25, <1>26, <1>27, <1>28, <1>29, <1>30, <1>31
     DEF Next, RmTask, RmHandles, Allocation

\* rm never waits for a DSP that has nothing left to answer: in the states with no timer
\* of their own, the command or its answer is on its way.
THEOREM DspWillAnswer == Spec => []DspAnswers
<1>1. Init => DspAnswers
  BY DEF Init, DspAnswers
<1>2. Init => TypeOK /\ ChannelStateAgrees
  BY TypeInit, ChanAssumption DEF Init, ChannelStateAgrees
<1>3. TypeOK /\ ChannelStateAgrees /\ DspAnswers /\ [Next]_vars
         => TypeOK' /\ ChannelStateAgrees' /\ DspAnswers'
  BY TypeStep, AgreesStep, AwaitedStep
<1>4. QED
  BY <1>1, <1>2, <1>3, PTL DEF Spec
-----------------------------------------------------------------------------
\* Handover requests.
LEMMA HoOne ==
    ASSUME TypeOK, TypeOK', HoAnswered, NEW c \in Chan, hoWait' \subseteq hoWait,
           \A d \in Chan \ {c} : sm'[d] = sm[d],
           UNCHANGED ctx,
           sm[c] = "S2" /\ sm'[c] # "S2" /\ isForHo[c] => hoRef[c] \notin hoWait'
    PROVE  HoAnswered'
BY DEF HoAnswered, ctx

LEMMA HoStep ==
    ASSUME TypeOK, TypeOK', ChannelStateAgrees, HoAnswered, ~Blocked, [Next]_vars
    PROVE  HoAnswered'
<1>1. ASSUME NEW c \in Chan, ActAck(c) PROVE HoAnswered'
  <2>1. sm[c] = "S2" /\ hoWait' \subseteq hoWait /\ UNCHANGED ctx
        /\ (isForHo[c] => hoRef[c] \notin hoWait')
        /\ \E state \in State : Goto(c, state, phy[c])
    BY <1>1 DEF ActAck, State
  <2>2. QED
    BY <2>1, HoOne DEF Goto, TypeOK
<1>2. ASSUME NEW c \in Chan, EstInd(c) PROVE HoAnswered'
  BY <1>2, HoOne DEF EstInd, Goto, TypeOK, mmVars
<1>3. ASSUME NEW c \in Chan, T3101Expiry(c) PROVE HoAnswered'
  BY <1>3, HoOne DEF T3101Expiry, Goto, TypeOK, mmVars
<1>4. ASSUME NEW c \in Chan, HoComplete(c) PROVE HoAnswered'
  BY <1>4, HoOne DEF HoComplete, Goto, TypeOK, mmVars
<1>5. ASSUME NEW c \in Chan, RelInd(c) PROVE HoAnswered'
  BY <1>5, HoOne DEF RelInd, Release, Goto, TypeOK, mmVars
<1>6. ASSUME NEW c \in Chan, ChanAssignCmd(c) PROVE HoAnswered'
  BY <1>6, HoOne DEF ChanAssignCmd, Goto, TypeOK, mmVars
<1>7. ASSUME NEW c \in Chan, ModeAck(c) PROVE HoAnswered'
  BY <1>7, HoOne DEF ModeAck, Goto, TypeOK, mmVars
<1>8. ASSUME NEW c \in Chan, ModeNack(c) PROVE HoAnswered'
  BY <1>8, HoOne DEF ModeNack, Release, Goto, TypeOK, mmVars
<1>9. ASSUME NEW c \in Chan, ModeModifyAck(c) PROVE HoAnswered'
  BY <1>9, HoOne DEF ModeModifyAck, Goto, TypeOK, mmVars
<1>10. ASSUME NEW c \in Chan, ModeModifyWrong(c) PROVE HoAnswered'
  BY <1>10, HoOne DEF ModeModifyWrong, Goto, TypeOK, mmVars
<1>11. ASSUME NEW c \in Chan, HandoverCommand(c) PROVE HoAnswered'
  BY <1>11, HoOne DEF HandoverCommand, Goto, TypeOK, mmVars
<1>12. ASSUME NEW c \in Chan, HandoverFailure(c) PROVE HoAnswered'
  BY <1>12, HoOne DEF HandoverFailure, Goto, TypeOK, mmVars
<1>13. ASSUME NEW c \in Chan, T3L02Expiry(c) PROVE HoAnswered'
  BY <1>13, HoOne DEF T3L02Expiry, Deactivate, Goto, TypeOK, mmVars
<1>14. ASSUME NEW c \in Chan, T3109Expiry(c) PROVE HoAnswered'
  BY <1>14, HoOne DEF T3109Expiry, Deactivate, TellMm, Goto, TypeOK, mmVars
<1>15. ASSUME NEW c \in Chan, Deactivated(c) PROVE HoAnswered'
  BY <1>15, HoOne DEF Deactivated, Goto, TypeOK, mmVars
<1>16. ASSUME NEW c \in Chan, ActNack(c) PROVE HoAnswered'
  BY <1>16, HoOne DEF ActNack, Abandon, HoNack, Goto, TypeOK
<1>17. ASSUME NEW c \in Chan, ProcRrRelease(c) PROVE HoAnswered'
  <2>1. /\ UNCHANGED ctx
        /\ UNCHANGED sm \/ \E state \in State, p \in {"FREE", "RELEASING"} : Goto(c, state, p)
        /\ sm[c] # "S2" => UNCHANGED hoWait
        /\ sm[c] = "S2" => HoNack(c)
    BY <1>17 DEF ProcRrRelease, RrRelease, Abandon, Deactivate, TellMm, Release, Goto, State, mmVars
  <2>2. hoWait' \subseteq hoWait /\ (sm[c] = "S2" /\ isForHo[c] => hoRef[c] \notin hoWait')
    BY <2>1 DEF HoNack
  <2>3. QED
    BY SMTT(30), <2>1, <2>2, HoOne DEF Goto, TypeOK
<1>18. ASSUME NEW c \in Chan, NEW cause \in Cause, ChanReq(c, cause) PROVE HoAnswered'
  <2>1. sm[c] = "S1"
    BY <1>18 DEF ChanReq, Activate, Allocatable, ChannelStateAgrees
  <2>2. UNCHANGED hoWait
    BY <1>18 DEF ChanReq, Activate, Goto, TypeOK
  <2>3. \A d \in Chan \ {c} : sm'[d] = sm[d] /\ isForHo'[d] = isForHo[d] /\ hoRef'[d] = hoRef[d]
    BY <1>18 DEF ChanReq, Activate, Goto, TypeOK
  <2>4. QED
    BY <2>1, <2>2, <2>3 DEF HoAnswered
<1>19. ASSUME NEW m \in MmId, NEW c \in Chan, HoReq(m, c) PROVE HoAnswered'
  <2>1. sm[c] = "S1"
    BY <1>19 DEF HoReq, Activate, Allocatable, ChannelStateAgrees
  <2>2. sm'[c] = "S2" /\ isForHo'[c] /\ hoRef'[c] = m /\ hoWait' = hoWait \cup {m}
    BY <1>19 DEF HoReq, Activate, Goto, TypeOK
  <2>3. \A d \in Chan \ {c} : sm'[d] = sm[d] /\ isForHo'[d] = isForHo[d] /\ hoRef'[d] = hoRef[d]
    BY <1>19 DEF HoReq, Activate, Goto, TypeOK
  <2>4. QED
    BY <2>1, <2>2, <2>3 DEF HoAnswered
<1>20. ASSUME NEW s \in Slot, ShutdownReq(s) PROVE HoAnswered'
  <2>1. \A c \in Chan : sm[c] = "S2" => sm'[c] = "S2"
    BY <1>20 DEF ShutdownReq, ChannelStateAgrees
  <2>2. QED
    BY <1>20, <2>1 DEF ShutdownReq, HoAnswered, ctx, mmVars
<1>21. ASSUME NEW m \in MmId, HoReqDropped(m) PROVE HoAnswered'
  BY <1>21 DEF HoReqDropped
<1>22. ASSUME UNCHANGED <<sm, isForHo, hoRef, hoWait>> PROVE HoAnswered'
  BY <1>22 DEF HoAnswered
<1>23. QED
  BY <1>1, <1>2, <1>3, <1>4, <1>5, <1>6, <1>7, <1>8, <1>9, <1>10, <1>11, <1>12, <1>13, <1>14,
     <1>15, <1>16, <1>17, <1>18, <1>19, <1>20, <1>21, <1>22
     DEF Next, RmTask, RmHandles, Allocation, Surroundings, vars, ctx, mmVars, TellMm, OthraInd, HoEstInd,
         ReleasedByMs, ExpiryDropped, LateOutcome, Ignore, Expire, DspStep,
         RadioLinkFailure, MsEstablishes, MsAccesses, MsSends, MsReleases, LapdmFails,
         MmReads, MmReleases, CcAsks, GrrShutsDown

\* As long as OAM does not shut the beacon timeslot down, every handover request that
\* rm has accepted from MM is one it will still answer.
HoSafe == TypeOK /\ ChannelStateAgrees /\ HoAnswered /\ ~Blocked

THEOREM HandoversAnswered ==
    ASSUME Beacon \notin Shutdowns
    PROVE  Spec => []HoAnswered
<1>1. Init => HoSafe
  <2>1. Init => ChannelStateAgrees /\ HoAnswered /\ ~Blocked
    BY DEF Init, ChannelStateAgrees, HoAnswered, Blocked, Slot
  <2>2. QED
    BY <2>1, TypeInit, ChanAssumption DEF HoSafe
<1>2. HoSafe /\ [Next]_vars => HoSafe'
  <2>1. TypeOK /\ ~Blocked /\ [Next]_vars => UNCHANGED (slotState[Beacon])
    <3>1. ASSUME TypeOK, NEW s \in Slot, GrrShutsDown(s) PROVE UNCHANGED (slotState[Beacon])
      BY <3>1 DEF GrrShutsDown, TypeOK, Slot
    <3>2. ASSUME UNCHANGED slotState PROVE UNCHANGED (slotState[Beacon])
      BY <3>2
    <3>3. QED
      BY <3>1, <3>2 DEF Next, RmTask, RmHandles, Allocation, Surroundings, vars, admin, ActAck,
         ActNack, Abandon, EstInd, T3101Expiry, HoComplete, RelInd, Release, ChanAssignCmd,
         ModeAck, ModeNack, ModeModifyAck, ModeModifyWrong, HandoverCommand, HandoverFailure,
         ProcRrRelease, RrRelease, T3L02Expiry, T3109Expiry, Deactivated, ShutdownReq, ChanReq,
         HoReq, Activate, OthraInd, HoEstInd,
         ReleasedByMs, ExpiryDropped, LateOutcome, Ignore, HoReqDropped, Expire, DspStep,
         RadioLinkFailure, MsEstablishes, MsAccesses, MsSends, MsReleases, LapdmFails,
         MmReads, MmReleases, CcAsks
  <2>2. QED
    BY <2>1, TypeStep, AgreesStep, HoStep DEF HoSafe, Blocked
<1>3. QED
  BY <1>1, <1>2, PTL DEF Spec, HoSafe
-----------------------------------------------------------------------------
\* The machine as a channel of ChannelUse.
LEMMA UseMove ==
    ASSUME TypeOK, TypeOK', NEW c \in Chan, NEW state \in State,
           sm' = [sm EXCEPT ![c] = state]
    PROVE  /\ Use!Move(c, UseOf(sm[c]), UseOf(state))
           /\ UseOf(sm[c]) = UseOf(state) =>
                UNCHANGED [d \in Chan |-> UseOf(sm[d])]
<1>1. Use!Move(c, UseOf(sm[c]), UseOf(state))
  BY DEF TypeOK, Use!Move
<1>2. UseOf(sm[c]) = UseOf(state) => UNCHANGED [d \in Chan |-> UseOf(sm[d])]
  BY DEF TypeOK
<1>3. QED
  BY <1>1, <1>2

LEMMA UseTold ==
    ASSUME TypeOK, TypeOK', NEW c \in Chan, sm[c] = "S7", conn' = [conn EXCEPT ![c] = FALSE],
           UNCHANGED sm \/ sm' = [sm EXCEPT ![c] = "S9"]
    PROVE  [Use!Next]_(Use!vars)
<1>1. UNCHANGED [d \in Chan |-> UseOf(sm[d])]
  BY DEF UseOf, TypeOK
<1>2. CASE conn[c]
  <2>1. Use!Tell(c)
    BY <1>1, <1>2 DEF Use!Tell, UseOf
  <2>2. QED
    BY <2>1 DEF Use!Next
<1>3. CASE ~conn[c]
  <2>1. conn' = conn
    BY <1>3 DEF TypeOK
  <2>2. QED
    BY <1>1, <2>1 DEF Use!vars
<1>4. QED
  BY <1>2, <1>3

LEMMA UseStep ==
    ASSUME TypeOK, TypeOK', ChannelStateAgrees, MmTold, MmTold', [Next]_vars
    PROVE  [Use!Next]_(Use!vars)
<1>1. ASSUME NEW c \in Chan, ActNack(c) PROVE [Use!Next]_(Use!vars)
  <2>1. sm[c] \in {"S2"} /\ sm' = [sm EXCEPT ![c] = "S1"] /\ UNCHANGED conn
    BY <1>1 DEF ActNack, Abandon, Goto, ChannelStateAgrees
  <2>2. QED
    BY <2>1, UseMove DEF UseOf, State, Use!Next, Use!vars, Use!Refuse
<1>2. ASSUME NEW c \in Chan, EstInd(c) PROVE [Use!Next]_(Use!vars)
  <2>1. sm[c] \in {"S3"} /\ sm' = [sm EXCEPT ![c] = "S5"] /\ conn' = [conn EXCEPT ![c] = TRUE]
    BY <1>2 DEF EstInd, Goto, ChannelStateAgrees
  <2>2. QED
    BY <2>1, UseMove DEF UseOf, State, Use!Next, Use!vars, Use!Connect
<1>3. ASSUME NEW c \in Chan, T3101Expiry(c) PROVE [Use!Next]_(Use!vars)
  <2>1. sm[c] \in {"S3"} /\ sm' = [sm EXCEPT ![c] = "S9"] /\ UNCHANGED conn
    BY <1>3 DEF T3101Expiry, Goto, ChannelStateAgrees
  <2>2. QED
    BY <2>1, UseMove DEF UseOf, State, Use!Next, Use!vars, Use!Fail
<1>4. ASSUME NEW c \in Chan, HoComplete(c) PROVE [Use!Next]_(Use!vars)
  <2>1. sm[c] \in {"S4"} /\ sm' = [sm EXCEPT ![c] = "S10"] /\ conn' = [conn EXCEPT ![c] = TRUE]
    BY <1>4 DEF HoComplete, Goto, ChannelStateAgrees
  <2>2. QED
    BY <2>1, UseMove DEF UseOf, State, Use!Next, Use!vars, Use!Connect
<1>5. ASSUME NEW c \in Chan, RelInd(c) PROVE [Use!Next]_(Use!vars)
  <2>1. sm[c] \in {"S5"} /\ sm' = [sm EXCEPT ![c] = "S7"] /\ UNCHANGED conn
    BY <1>5 DEF RelInd, Release, Goto, ChannelStateAgrees
  <2>2. QED
    BY <2>1, UseMove DEF UseOf, State, Use!Next, Use!vars, Use!Lose
<1>6. ASSUME NEW c \in Chan, ModeNack(c) PROVE [Use!Next]_(Use!vars)
  <2>1. sm[c] \in {"S6", "S10"} /\ sm' = [sm EXCEPT ![c] = "S7"] /\ UNCHANGED conn
    BY <1>6 DEF ModeNack, Release, Goto, ChannelStateAgrees
  <2>2. QED
    BY <2>1, UseMove DEF UseOf, State, Use!Next, Use!vars, Use!Lose
<1>7. ASSUME NEW c \in Chan, ModeModifyWrong(c) PROVE [Use!Next]_(Use!vars)
  <2>1. sm[c] \in {"S8", "S10"} /\ sm' = [sm EXCEPT ![c] = "S7"] /\ UNCHANGED conn
    BY <1>7 DEF ModeModifyWrong, Goto, ChannelStateAgrees
  <2>2. QED
    BY <2>1, UseMove DEF UseOf, State, Use!Next, Use!vars, Use!Lose
<1>8. ASSUME NEW c \in Chan, ChanAssignCmd(c) PROVE [Use!Next]_(Use!vars)
  <2>1. sm[c] \in {"S5", "S10"} /\ sm' = [sm EXCEPT ![c] = "S6"] /\ UNCHANGED conn
    BY <1>8 DEF ChanAssignCmd, Goto, ChannelStateAgrees
  <2>2. QED
    BY <2>1, UseMove DEF UseOf, State, Use!Next, Use!vars
<1>9. ASSUME NEW c \in Chan, ModeAck(c) PROVE [Use!Next]_(Use!vars)
  <2>1. sm[c] \in {"S6", "S10"} /\ sm' = [sm EXCEPT ![c] = "S8"] /\ UNCHANGED conn
    BY <1>9 DEF ModeAck, Goto, ChannelStateAgrees
  <2>2. QED
    BY <2>1, UseMove DEF UseOf, State, Use!Next, Use!vars
<1>10. ASSUME NEW c \in Chan, ModeModifyAck(c) PROVE [Use!Next]_(Use!vars)
  <2>1. sm[c] \in {"S8", "S10"} /\ sm' = [sm EXCEPT ![c] = "S10"] /\ UNCHANGED conn
    BY <1>10 DEF ModeModifyAck, Goto, ChannelStateAgrees
  <2>2. QED
    BY <2>1, UseMove DEF UseOf, State, Use!Next, Use!vars
<1>11. ASSUME NEW c \in Chan, HandoverCommand(c) PROVE [Use!Next]_(Use!vars)
  <2>1. sm[c] \in {"S10"} /\ sm' = [sm EXCEPT ![c] = "S11"] /\ UNCHANGED conn
    BY <1>11 DEF HandoverCommand, Goto, ChannelStateAgrees
  <2>2. QED
    BY <2>1, UseMove DEF UseOf, State, Use!Next, Use!vars
<1>12. ASSUME NEW c \in Chan, HandoverFailure(c) PROVE [Use!Next]_(Use!vars)
  <2>1. sm[c] \in {"S11"} /\ sm' = [sm EXCEPT ![c] = "S10"] /\ UNCHANGED conn
    BY <1>12 DEF HandoverFailure, Goto, ChannelStateAgrees
  <2>2. QED
    BY <2>1, UseMove DEF UseOf, State, Use!Next, Use!vars
<1>13. ASSUME NEW c \in Chan, T3L02Expiry(c) PROVE [Use!Next]_(Use!vars)
  <2>1. sm[c] \in {"S7"} /\ sm' = [sm EXCEPT ![c] = "S9"] /\ UNCHANGED conn
    BY <1>13 DEF T3L02Expiry, Deactivate, Goto, ChannelStateAgrees
  <2>2. QED
    BY <2>1, UseMove DEF UseOf, State, Use!Next, Use!vars
<1>14. ASSUME NEW c \in Chan, NEW cause \in Cause, ChanReq(c, cause) PROVE [Use!Next]_(Use!vars)
  <2>1. sm[c] \in {"S1"} /\ sm' = [sm EXCEPT ![c] = "S2"] /\ UNCHANGED conn
    BY <1>14 DEF ChanReq, Activate, Allocatable, Goto, ChannelStateAgrees
  <2>2. QED
    BY <2>1, UseMove DEF UseOf, State, Use!Next, Use!vars, Use!Allocate
<1>15. ASSUME NEW m \in MmId, NEW c \in Chan, HoReq(m, c) PROVE [Use!Next]_(Use!vars)
  <2>1. sm[c] \in {"S1"} /\ sm' = [sm EXCEPT ![c] = "S2"] /\ UNCHANGED conn
    BY <1>15 DEF HoReq, Activate, Allocatable, Goto, ChannelStateAgrees
  <2>2. QED
    BY <2>1, UseMove DEF UseOf, State, Use!Next, Use!vars, Use!Allocate
<1>16. ASSUME NEW c \in Chan, ActAck(c) PROVE [Use!Next]_(Use!vars)
  <2>1. sm[c] = "S2" /\ UNCHANGED conn
        /\ \E state \in {"S3", "S4"} : sm' = [sm EXCEPT ![c] = state]
    BY <1>16 DEF ActAck, Goto
  <2>2. QED
    BY <2>1, UseMove DEF UseOf, State, Use!Next, Use!vars
<1>17. ASSUME NEW c \in Chan, Deactivated(c) PROVE [Use!Next]_(Use!vars)
  <2>1. sm[c] = "S9" /\ sm' = [sm EXCEPT ![c] = "S1"] /\ UNCHANGED conn
    BY <1>17 DEF Deactivated, Goto
  <2>2. ~conn[c]
    BY <2>1 DEF MmTold
  <2>3. QED
    BY <2>1, <2>2, UseMove DEF UseOf, State, Use!Next, Use!Free
<1>18. ASSUME NEW c \in Chan, ReleasedByMs(c) PROVE [Use!Next]_(Use!vars)
  <2>1. /\ sm[c] = "S7" /\ conn' = [conn EXCEPT ![c] = FALSE]
        /\ UNCHANGED sm \/ sm' = [sm EXCEPT ![c] = "S9"]
    BY <1>18 DEF ReleasedByMs, TellMm, Goto
  <2>2. QED
    BY <2>1, UseTold
<1>19. ASSUME NEW c \in Chan, T3109Expiry(c) PROVE [Use!Next]_(Use!vars)
  <2>1. /\ sm[c] = "S7" /\ conn' = [conn EXCEPT ![c] = FALSE]
        /\ UNCHANGED sm \/ sm' = [sm EXCEPT ![c] = "S9"]
    BY <1>19 DEF T3109Expiry, Deactivate, TellMm, Goto
  <2>2. QED
    BY <2>1, UseTold
<1>20. ASSUME NEW c \in Chan, ProcRrRelease(c) PROVE [Use!Next]_(Use!vars)
  <2>1. CASE sm[c] = "S2" /\ Abandon(c)
    <3>1. sm' = [sm EXCEPT ![c] = "S1"] /\ UNCHANGED conn
      BY <2>1 DEF Abandon, Goto
    <3>2. QED
      BY <2>1, <3>1, UseMove DEF UseOf, State, Use!Next, Use!Refuse
  <2>2. CASE sm[c] = "S7" /\ TellMm(c) /\ \E stop, start : Deactivate(c, stop, start)
    BY <2>2, UseTold DEF TellMm, Deactivate, Goto
  <2>3. CASE sm[c] \in {"S3", "S4"} /\ UNCHANGED conn /\ \E stop, start : Deactivate(c, stop, start)
    <3>1. sm' = [sm EXCEPT ![c] = "S9"]
      BY <2>3 DEF Deactivate, Goto
    <3>2. QED
      BY <2>3, <3>1, UseMove DEF UseOf, State, Use!Next, Use!Fail
  <2>4. CASE sm[c] \in {"S5", "S6", "S8", "S10", "S11"} /\ Release(c)
    <3>1. sm' = [sm EXCEPT ![c] = "S7"] /\ UNCHANGED conn
      BY <2>4 DEF Release, Goto
    <3>2. QED
      BY <2>4, <3>1, UseMove DEF UseOf, State, Use!Next, Use!Lose
  <2>5. CASE UNCHANGED <<sm, conn>>
    BY <2>5 DEF Use!vars
  <2>6. QED
    BY <1>20, <2>1, <2>2, <2>3, <2>4, <2>5 DEF ProcRrRelease, RrRelease
<1>21. ASSUME NEW s \in Slot, ShutdownReq(s) PROVE [Use!Next]_(Use!vars)
  <2>1. \A c \in Chan : sm'[c] = sm[c]
    BY <1>21 DEF ShutdownReq, ChannelStateAgrees
  <2>2. QED
    BY <1>21, <2>1 DEF ShutdownReq, Use!vars
<1>22. ASSUME UNCHANGED <<sm, conn>> PROVE [Use!Next]_(Use!vars)
  BY <1>22 DEF Use!vars
<1>23. QED
  BY <1>1, <1>2, <1>3, <1>4, <1>5, <1>6, <1>7, <1>8, <1>9, <1>10, <1>11, <1>12, <1>13, <1>14,
     <1>15, <1>16, <1>17, <1>18, <1>19, <1>20, <1>21, <1>22
     DEF Next, RmTask, RmHandles, Allocation, Surroundings, vars, OthraInd, HoEstInd,
         ExpiryDropped, LateOutcome, Ignore, HoReqDropped, Expire, DspStep,
         RadioLinkFailure, MsEstablishes, MsAccesses, MsSends, MsReleases, LapdmFails,
         MmReads, MmReleases, CcAsks, GrrShutsDown

\* rm implements ChannelUse as long as MM is told of the end of every connection, which
\* depends on the order of messages in the queue and is left to the runs.
THEOREM ImplementsUse == Spec /\ []MmTold => UseSpec
<1>1. Init => Use!Init
  BY DEF Init, Use!Init, UseOf
<1>2. Init => TypeOK /\ ChannelStateAgrees
  BY TypeInit, ChanAssumption DEF Init, ChannelStateAgrees
<1>3. TypeOK /\ ChannelStateAgrees /\ [Next]_vars => TypeOK' /\ ChannelStateAgrees'
  BY TypeStep, AgreesStep
<1>4. TypeOK /\ TypeOK' /\ ChannelStateAgrees /\ MmTold /\ MmTold' /\ [Next]_vars
         => [Use!Next]_(Use!vars)
  BY UseStep
<1>5. QED
  BY <1>1, <1>2, <1>3, <1>4, PTL DEF Spec, UseSpec, Use!Spec

-----------------------------------------------------------------------------
(* When MM is told.  A connection starts with an EST_IND in S3 or a          *)
(* HO_COMPLETE in S4.                                                        *)

Starting(c) == {[type |-> type, of |-> c] : type \in {"EST_IND", "HO_COMPLETE"}}
T3L02Of(c) == [type |-> "T3L02", of |-> c]
Queued(m) == \E i \in DOMAIN queue : queue[i] = m

\* No message of a mobile is in front of an expiry of T3L02: the expiry is taken before
\* the mobile has a connection.
InOrder(c) ==
    \A i, j \in DOMAIN queue : i < j /\ queue[j] = T3L02Of(c) => queue[i] \notin Starting(c)
SetUp == {"S2", "S3", "S4"}

ToldOne(c) ==
    /\ sm[c] \in SetUp \cup {"S1", "S9"} => ~conn[c]
    /\ link[c] => "T3L02" \notin armed[c]
    /\ sm[c] \in SetUp =>
          /\ InOrder(c)
          /\ "T3L02" \in armed[c] => \A m \in Starting(c) : ~Queued(m)
    /\ conn[c] => "T3L02" \notin armed[c] /\ ~Queued(T3L02Of(c))

\* The queue of the task grows at its end and shrinks at its head.
LEMMA QueuedLater ==
    ASSUME TypeOK, NEW m, Queued(m)',
           \/ UNCHANGED queue
           \/ queue # <<>> /\ queue' = Tail(queue)
           \/ \E t, of : Post(t, of) /\ m # [type |-> t, of |-> of]
    PROVE  Queued(m)
<1>1. queue \in Seq(Message)
  BY DEF TypeOK
<1>2. PICK i \in DOMAIN queue' : queue'[i] = m
  BY DEF Queued
<1>3. CASE UNCHANGED queue
  BY <1>2, <1>3 DEF Queued
<1>4. CASE queue # <<>> /\ queue' = Tail(queue)
  <2>1. i + 1 \in DOMAIN queue /\ queue[i + 1] = m
    BY <1>1, <1>2, <1>4
  <2>2. QED
    BY <2>1 DEF Queued
<1>5. ASSUME NEW n, n # m, queue' = Append(queue, n) PROVE Queued(m)
  <2>1. i \in DOMAIN queue /\ queue[i] = m
    BY <1>1, <1>2, <1>5
  <2>2. QED
    BY <2>1 DEF Queued
<1>6. QED
  BY <1>3, <1>4, <1>5 DEF Post

LEMMA InOrderLater ==
    ASSUME TypeOK, NEW c, InOrder(c),
           \/ UNCHANGED queue
           \/ queue # <<>> /\ queue' = Tail(queue)
           \/ \E t, of : /\ Post(t, of)
                         /\ [type |-> t, of |-> of] = T3L02Of(c) =>
                               \A m \in Starting(c) : ~Queued(m)
    PROVE  InOrder(c)'
<1>1. queue \in Seq(Message)
  BY DEF TypeOK
<1>2. SUFFICES ASSUME NEW i \in DOMAIN queue', NEW j \in DOMAIN queue', i < j,
                      queue'[j] = T3L02Of(c)
               PROVE  queue'[i] \notin Starting(c)
  BY DEF InOrder, T3L02Of, Starting
<1>3. CASE UNCHANGED queue
  BY <1>2, <1>3 DEF InOrder
<1>4. CASE queue # <<>> /\ queue' = Tail(queue)
  <2>1. /\ i + 1 \in DOMAIN queue /\ j + 1 \in DOMAIN queue /\ i + 1 < j + 1
        /\ queue[i + 1] = queue'[i] /\ queue[j + 1] = queue'[j]
    BY <1>1, <1>2, <1>4
  <2>2. QED
    BY <1>2, <2>1 DEF InOrder
<1>5. ASSUME NEW n, queue' = Append(queue, n),
             n = T3L02Of(c) => \A m \in Starting(c) : ~Queued(m)
      PROVE  queue'[i] \notin Starting(c)
  <2>1. i \in DOMAIN queue /\ queue'[i] = queue[i]
    BY <1>1, <1>2, <1>5
  <2>2. CASE j \in DOMAIN queue
    <3>1. queue'[j] = queue[j]
      BY <1>1, <1>5, <2>2
    <3>2. QED
      BY <1>2, <2>1, <2>2, <3>1 DEF InOrder
  <2>3. CASE j \notin DOMAIN queue
    <3>1. queue'[j] = n
      BY <1>1, <1>2, <1>5, <2>3
    <3>2. QED
      BY <1>2, <1>5, <2>1, <3>1 DEF Queued
  <2>4. QED
    BY <2>2, <2>3
<1>6. QED
  BY <1>3, <1>4, <1>5 DEF Post

\* A step that begins no use of the channel, takes no connection on it and neither
\* starts its T3L02 nor posts what matters here.
Harmless(c) ==
    /\ \/ UNCHANGED queue
       \/ queue # <<>> /\ queue' = Tail(queue)
       \/ \E t, of : /\ Post(t, of)
                     /\ [type |-> t, of |-> of] \notin Starting(c) \cup {T3L02Of(c)}
    /\ sm'[c] \in SetUp => sm[c] \in SetUp
    /\ sm'[c] \in {"S1", "S9"} => ~conn'[c]
    /\ conn'[c] => conn[c]
    /\ link'[c] => link[c]
    /\ "T3L02" \in armed'[c] => "T3L02" \in armed[c]

LEMMA HarmlessTold ==
    ASSUME TypeOK, NEW c \in Chan, ToldOne(c), Harmless(c)
    PROVE  ToldOne(c)'
<1>1. \A m \in Starting(c) \cup {T3L02Of(c)} : Queued(m)' => Queued(m)
  BY QueuedLater DEF Harmless
<1>2. InOrder(c) => InOrder(c)'
  BY InOrderLater DEF Harmless
<1>3. (Starting(c))' = Starting(c) /\ (T3L02Of(c))' = T3L02Of(c)
  BY DEF Starting, T3L02Of
<1>4. sm'[c] \in SetUp \cup {"S1", "S9"} => ~conn'[c]
  BY DEF Harmless, ToldOne
<1>5. sm'[c] \in SetUp =>
        InOrder(c)' /\ ("T3L02" \in armed'[c] => \A m \in Starting(c) : ~Queued(m)')
  BY <1>1, <1>2 DEF Harmless, ToldOne
<1>6. conn'[c] => "T3L02" \notin armed'[c] /\ ~Queued(T3L02Of(c))'
  BY <1>1 DEF Harmless, ToldOne
<1>7. link'[c] => "T3L02" \notin armed'[c]
  BY DEF Harmless, ToldOne
<1>8. QED
  BY <1>3, <1>4, <1>5, <1>6, <1>7 DEF ToldOne

Told == \A c \in Chan : ToldOne(c)

\* A step about c.
About(c) ==
    /\ \/ UNCHANGED queue
       \/ queue # <<>> /\ queue' = Tail(queue)
       \/ \E t : Post(t, c)
    /\ \A d \in Chan \ {c} : /\ sm'[d] = sm[d] /\ conn'[d] = conn[d]
                             /\ link'[d] = link[d] /\ armed'[d] = armed[d]

LEMMA OthersTold ==
    ASSUME TypeOK, Told, NEW c \in Chan, About(c), ToldOne(c)'
    PROVE  Told'
<1>1. ASSUME NEW d \in Chan \ {c} PROVE ToldOne(d)'
  <2>1. Harmless(d)
    BY DEF About, Harmless, Told, ToldOne, Starting, T3L02Of
  <2>2. QED
    BY <2>1, HarmlessTold DEF Told
<1>2. QED
  BY <1>1 DEF Told

LEMMA HarmlessAbout ==
    ASSUME TypeOK, Told, NEW c \in Chan, About(c), Harmless(c)
    PROVE  Told'
BY HarmlessTold, OthersTold DEF Told

\* The handlers that neither begin a connection nor start T3L02.
LEMMA ToldHandled ==
    ASSUME TypeOK, Told, NEW c \in Chan, RmHandles(c),
           ~EstInd(c), ~HoComplete(c), ~ReleasedByMs(c)
    PROVE  Told'
<1> USE DEF TypeOK, About, Harmless, Takes, Goto, Timers, LocalRelease, Told, ToldOne, SetUp
<1>1. CASE ActAck(c)
  <2>1. About(c)
    BY <1>1 DEF ActAck
  <2>2. Harmless(c)
    BY <1>1 DEF ActAck
  <2>3. QED
    BY <2>1, <2>2, HarmlessAbout
<1>2. CASE ActNack(c)
  <2>1. About(c) /\ Harmless(c)
    BY <1>2 DEF ActNack, Abandon, timers
  <2>2. QED
    BY <2>1, HarmlessAbout
<1>3. CASE T3101Expiry(c)
  <2>1. About(c) /\ Harmless(c)
    BY <1>3 DEF T3101Expiry, msVars
  <2>2. QED
    BY <2>1, HarmlessAbout
<1>4. CASE OthraInd(c) \/ HoEstInd(c)
  <2>1. About(c) /\ Harmless(c)
    BY <1>4 DEF OthraInd, HoEstInd, msVars
  <2>2. QED
    BY <2>1, HarmlessAbout
<1>5. CASE RelInd(c) \/ ModeNack(c)
  <2>1. About(c) /\ Harmless(c)
    BY <1>5 DEF RelInd, ModeNack, Release, msVars
  <2>2. QED
    BY <2>1, HarmlessAbout
<1>6. CASE ChanAssignCmd(c) \/ HandoverCommand(c) \/ HandoverFailure(c)
  <2>1. About(c) /\ Harmless(c)
    BY <1>6 DEF ChanAssignCmd, HandoverCommand, HandoverFailure, msVars, timers
  <2>2. QED
    BY <2>1, HarmlessAbout
<1>7. CASE ModeAck(c) \/ ModeModifyAck(c) \/ ModeModifyWrong(c)
  <2>1. About(c) /\ Harmless(c)
    BY <1>7 DEF ModeAck, ModeModifyAck, ModeModifyWrong, msVars
  <2>2. QED
    BY <2>1, HarmlessAbout
<1>8. CASE ProcRrRelease(c)
  <2>1. queue # <<>> /\ queue' = Tail(queue)
    BY <1>8 DEF ProcRrRelease
  <2>2. About(c)
    BY <1>8, <2>1 DEF ProcRrRelease, RrRelease, Abandon, Deactivate, Release, TellMm, msVars, timers
  <2>3. Harmless(c)
    BY <1>8, <2>1 DEF ProcRrRelease, RrRelease, Abandon, Deactivate, Release, TellMm, msVars, timers
  <2>4. QED
    BY <2>2, <2>3, HarmlessAbout
<1>9. CASE T3L02Expiry(c)
  <2>1. About(c)
    BY <1>9 DEF T3L02Expiry, Deactivate, msVars
  <2>2. ~conn[c]
    <3>1. queue \in Seq(Message) /\ queue # <<>> /\ Head(queue) = T3L02Of(c)
      BY <1>9 DEF T3L02Expiry, T3L02Of
    <3>2. 1 \in DOMAIN queue /\ queue[1] = T3L02Of(c)
      BY <3>1
    <3>3. QED
      BY <3>2 DEF Queued
  <2>3. Harmless(c)
    BY <1>9, <2>2 DEF T3L02Expiry, Deactivate, msVars
  <2>4. QED
    BY <2>1, <2>3, HarmlessAbout
<1>10. CASE T3109Expiry(c)
  <2>1. About(c) /\ Harmless(c)
    BY <1>10 DEF T3109Expiry, Deactivate, TellMm
  <2>2. QED
    BY <2>1, HarmlessAbout
<1>11. CASE Deactivated(c)
  <2>1. queue # <<>> /\ queue' = Tail(queue)
    BY <1>11 DEF Deactivated
  <2>2. About(c) /\ Harmless(c)
    BY <1>11, <2>1 DEF Deactivated, msVars
  <2>3. QED
    BY <2>2, HarmlessAbout
<1>12. CASE ExpiryDropped(c) \/ LateOutcome(c) \/ Ignore(c)
  <2>1. queue # <<>> /\ queue' = Tail(queue)
    BY <1>12 DEF ExpiryDropped, LateOutcome, Ignore
  <2>2. About(c) /\ Harmless(c)
    BY <1>12, <2>1 DEF ExpiryDropped, LateOutcome, Ignore, msVars, timers
  <2>3. QED
    BY <2>2, HarmlessAbout
<1>13. QED
  BY <1>1, <1>2, <1>3, <1>4, <1>5, <1>6, <1>7, <1>8, <1>9, <1>10, <1>11, <1>12 DEF RmHandles

\* What brings the connection is at the head of the queue, so no expiry of an earlier
\* T3L02 is behind it and none is to come.
LEMMA StartsClean ==
    ASSUME TypeOK, NEW c \in Chan, ToldOne(c), sm[c] \in SetUp,
           queue # <<>>, Head(queue) \in Starting(c), queue' = Tail(queue)
    PROVE  "T3L02" \notin armed[c] /\ ~Queued(T3L02Of(c))'
<1>1. queue \in Seq(Message) /\ 1 \in DOMAIN queue /\ queue[1] \in Starting(c)
  BY DEF TypeOK
<1>2. "T3L02" \notin armed[c]
  BY <1>1 DEF ToldOne, Queued
<1>3. ASSUME NEW i \in DOMAIN queue', queue'[i] = T3L02Of(c) PROVE FALSE
  <2>1. i + 1 \in DOMAIN queue /\ queue[i + 1] = T3L02Of(c) /\ 1 < i + 1
    BY <1>1, <1>3
  <2>2. QED
    BY <1>1, <2>1 DEF ToldOne, InOrder
<1>4. (T3L02Of(c))' = T3L02Of(c)
  BY DEF T3L02Of
<1>5. QED
  BY <1>2, <1>3, <1>4 DEF Queued

LEMMA ToldEstInd ==
    ASSUME TypeOK, Told, NEW c \in Chan, EstInd(c) \/ HoComplete(c)
    PROVE  Told'
<1>1. /\ sm[c] \in SetUp /\ queue # <<>> /\ Head(queue) \in Starting(c) /\ queue' = Tail(queue)
      /\ sm'[c] \in {"S5", "S10"} /\ link' = link
      /\ armed' = [armed EXCEPT ![c] = @ \ {"T3101"}] \/ armed' = [armed EXCEPT ![c] = @ \ {"T3105"}]
  <2>1. CASE EstInd(c)
    <3>1. sm[c] = "S3" /\ Takes("EST_IND", c) /\ Goto(c, "S5", phy[c]) /\ Timers(c, {"T3101"}, {})
          /\ link' = link
      BY <2>1 DEF EstInd, msVars
    <3>2. QED
      BY <3>1 DEF Takes, Goto, Timers, TypeOK, SetUp, Starting
  <2>2. CASE HoComplete(c)
    <3>1. sm[c] = "S4" /\ Takes("HO_COMPLETE", c) /\ Goto(c, "S10", phy[c]) /\ Timers(c, {"T3105"}, {})
          /\ link' = link
      BY <2>2 DEF HoComplete, msVars
    <3>2. QED
      BY <3>1 DEF Takes, Goto, Timers, TypeOK, SetUp, Starting
  <2>3. QED
    BY <2>1, <2>2
<1>2. "T3L02" \notin armed'[c] /\ ~Queued(T3L02Of(c))'
  BY <1>1, StartsClean DEF Told, TypeOK
<1>3. ToldOne(c)'
  BY <1>1, <1>2 DEF ToldOne, SetUp, T3L02Of
<1>4. About(c)
  BY DEF EstInd, HoComplete, Takes, Goto, Timers, TypeOK, About, msVars
<1>5. QED
  BY <1>3, <1>4, OthersTold

LEMMA ToldReleased ==
    ASSUME TypeOK, Told, NEW c \in Chan, ReleasedByMs(c)
    PROVE  Told'
<1>1. sm'[c] = "S7" /\ ~conn'[c] /\ ~link'[c]
  BY DEF ReleasedByMs, TellMm, LocalRelease, TypeOK
<1>2. About(c)
  BY DEF ReleasedByMs, TellMm, LocalRelease, Takes, Timers, TypeOK, About
<1>3. QED
  BY <1>1, <1>2, OthersTold DEF ToldOne, SetUp

\* What the surroundings do.  The mobile comes only while T3L02 does not run.
LEMMA ToldExpire ==
    ASSUME TypeOK, Told, NEW c \in Chan, NEW t \in Timer, Expire(c, t)
    PROVE  Told'
<1> USE DEF TypeOK
<1>1. About(c) /\ armed'[c] = armed[c] \ {t} /\ t \in armed[c] /\ Post(t, c)
      /\ UNCHANGED <<sm, conn, link>>
  BY DEF Expire, About, msVars
<1>2. CASE t # "T3L02"
  <2>1. Harmless(c)
    <3>1. [type |-> t, of |-> c] \notin Starting(c) \cup {T3L02Of(c)}
      BY <1>2 DEF Timer, Starting, T3L02Of
    <3>2. sm'[c] \in {"S1", "S9"} => ~conn'[c]
      BY <1>1 DEF Told, ToldOne
    <3>3. QED
      BY <1>1, <3>1, <3>2 DEF Harmless
  <2>2. QED
    BY <1>1, <2>1, HarmlessAbout
<1>3. CASE t = "T3L02"
  <2>1. ~conn[c] /\ "T3L02" \notin armed'[c]
    BY <1>1, <1>3 DEF Told, ToldOne
  <2>2. ASSUME sm[c] \in SetUp PROVE InOrder(c)'
    BY <1>1, <1>3, <2>2, InOrderLater DEF Told, ToldOne
  <2>3. ToldOne(c)'
    BY <1>1, <2>1, <2>2 DEF ToldOne, SetUp
  <2>4. QED
    BY <1>1, <2>3, OthersTold
<1>4. QED
  BY <1>2, <1>3

LEMMA ToldMobile ==
    ASSUME TypeOK, Told, NEW c \in Chan, MsEstablishes(c) \/ MsSends(c)
    PROVE  Told'
<1> USE DEF TypeOK
<1>1. /\ About(c) /\ UNCHANGED <<sm, conn, armed>>
      /\ "T3L02" \notin armed[c]
  BY DEF MsEstablishes, MsSends, About, timers, msVars, Told, ToldOne
<1>2. \E t : Post(t, c) /\ t # "T3L02"
  BY DEF MsEstablishes, MsSends, DataInd
<1>3. InOrder(c) => InOrder(c)'
  BY <1>2, InOrderLater DEF T3L02Of
<1>4. Queued(T3L02Of(c))' => Queued(T3L02Of(c))
  <2>1. (T3L02Of(c))' = T3L02Of(c)
    BY DEF T3L02Of
  <2>2. QED
    BY <1>2, <2>1, QueuedLater DEF T3L02Of
<1>5. ToldOne(c)'
  BY <1>1, <1>3, <1>4 DEF Told, ToldOne, SetUp
<1>6. QED
  BY <1>1, <1>5, OthersTold

\* The channel is given out.
NoneStale(c) == \A m \in Starting(c) : ~Queued(m)

LEMMA ToldActivate ==
    ASSUME TypeOK, ChannelStateAgrees, Told, NEW c \in Chan, NoneStale(c),
           NEW forHo, NEW m, NEW cause, Activate(c, forHo, m, cause)
    PROVE  Told'
<1> USE DEF TypeOK
<1>1. sm[c] = "S1"
  BY DEF Activate, Allocatable, ChannelStateAgrees
<1>2. About(c) /\ UNCHANGED <<conn, armed, link, queue>> /\ sm'[c] = "S2"
  BY DEF Activate, About, Goto, timers, msVars
<1>3. InOrder(c)' /\ \A n \in Starting(c) : ~Queued(n)'
  BY <1>2 DEF NoneStale, InOrder, Queued, Starting, T3L02Of
<1>4. ToldOne(c)'
  BY <1>1, <1>2, <1>3 DEF Told, ToldOne, SetUp, Queued, Starting, T3L02Of
<1>5. QED
  BY <1>2, <1>4, OthersTold

\* A channel is given out again only when nothing of a mobile that was on it before is
\* left in the queue of the task.
GivenOutClean == \A c \in Chan : sm[c] = "S1" /\ sm'[c] = "S2" => NoneStale(c)

LEMMA ToldStep ==
    ASSUME TypeOK, ChannelStateAgrees, Told, [Next]_vars, GivenOutClean
    PROVE  Told'
<1>1. ASSUME NEW c \in Chan, RmHandles(c) PROVE Told'
  BY <1>1, ToldHandled, ToldEstInd, ToldReleased
<1>2. ASSUME NEW s \in Slot, ShutdownReq(s) PROVE Told'
  <2>1. \A c \in Chan : sm'[c] = sm[c]
    BY <1>2 DEF ShutdownReq, ChannelStateAgrees, TypeOK
  <2>2. queue # <<>> /\ queue' = Tail(queue) /\ UNCHANGED <<conn, link, armed>>
    BY <1>2 DEF ShutdownReq, Takes, timers, msVars
  <2>3. \A c \in Chan : Harmless(c)
    BY <2>1, <2>2 DEF Harmless, Told, ToldOne
  <2>4. QED
    BY <2>3, HarmlessTold DEF Told
<1>3. ASSUME NEW c \in Chan, NEW forHo, NEW m, NEW cause, Activate(c, forHo, m, cause)
      PROVE  Told'
  <2>1. sm[c] = "S1" /\ sm'[c] = "S2"
    BY <1>3 DEF Activate, Allocatable, ChannelStateAgrees, Goto, TypeOK
  <2>2. NoneStale(c)
    BY <2>1 DEF GivenOutClean
  <2>3. QED
    BY <1>3, <2>2, ToldActivate
<1>4. ASSUME NEW c \in Chan, NEW t \in Timer, Expire(c, t) PROVE Told'
  BY <1>4, ToldExpire
<1>5. ASSUME NEW c \in Chan, MsEstablishes(c) \/ MsSends(c) PROVE Told'
  BY <1>5, ToldMobile
<1>6. ASSUME UNCHANGED <<sm, conn, armed>>, \A c \in Chan : link'[c] => link[c],
             \/ UNCHANGED queue
             \/ \E t, of : Post(t, of) /\ t \notin {"EST_IND", "HO_COMPLETE", "T3L02"}
      PROVE  Told'
  <2>1. \A c \in Chan : Harmless(c)
    BY <1>6 DEF Harmless, Told, ToldOne, Starting, T3L02Of
  <2>2. QED
    BY <2>1, HarmlessTold DEF Told
<1>7. ASSUME NEW m \in MmId, HoReqDropped(m) PROVE Told'
  BY <1>6, <1>7 DEF HoReqDropped, timers, msVars
<1>8. ASSUME NEW c \in Chan, DspStep(c) PROVE Told'
  <2>1. \E t \in {"ACT_ACK", "ACT_NACK", "REL_ACK", "MODE_ACK", "MODE_NACK"} : Post(t, c)
    BY <1>8 DEF DspStep
  <2>2. UNCHANGED <<sm, conn, armed, link>>
    BY <1>8 DEF DspStep, timers
  <2>3. QED
    BY <1>6, <2>1, <2>2
<1>9. ASSUME NEW c \in Chan,
             \/ RadioLinkFailure(c) \/ MsAccesses(c) \/ LapdmFails(c)
             \/ MmReads(c) \/ MmReleases(c) \/ CcAsks(c)
      PROVE  Told'
  BY <1>6, <1>9 DEF RadioLinkFailure, MsAccesses, LapdmFails, MmReads, MmReleases, CcAsks,
                    timers, msVars
<1>10. ASSUME NEW c \in Chan, MsReleases(c) PROVE Told'
  <2>1. \A d \in Chan : link'[d] => link[d]
    BY <1>10 DEF MsReleases, LocalRelease, TypeOK
  <2>2. QED
    BY <1>6, <1>10, <2>1 DEF MsReleases, timers
<1>11. ASSUME NEW s \in Slot, GrrShutsDown(s) PROVE Told'
  BY <1>6, <1>11 DEF GrrShutsDown, timers, msVars
<1>12. CASE UNCHANGED vars
  BY <1>6, <1>12 DEF vars, timers, msVars
<1>13. QED
  BY <1>1, <1>2, <1>3, <1>4, <1>5, <1>7, <1>8, <1>9, <1>10, <1>11, <1>12
     DEF Next, RmTask, Allocation, Surroundings, ChanReq, HoReq

ToldSafe == TypeOK /\ ChannelStateAgrees /\ Told

\* Whichever way a connection ends, rm_SendRrRelInd has told MM before the channel is
\* deactivated, for queues of every length and whatever is late in them, so long as no
\* channel is given out over an EST_IND or HANDOVER COMPLETE of an earlier use.
THEOREM MmAlwaysTold ==
    Spec /\ [][GivenOutClean]_vars => []MmTold
<1>1. Init => ToldSafe
  <2>1. Init => Told
    BY DEF Init, Told, ToldOne, SetUp, Queued
  <2>2. QED
    BY <2>1, TypeInit, ChanAssumption DEF Init, ToldSafe, ChannelStateAgrees
<1>2. ToldSafe /\ [Next]_vars /\ [GivenOutClean]_vars => ToldSafe'
  <2>1. ASSUME UNCHANGED vars PROVE GivenOutClean
    BY <2>1 DEF vars, GivenOutClean
  <2>2. QED
    BY <2>1, TypeStep, AgreesStep, ToldStep DEF ToldSafe
<1>3. ToldSafe => MmTold
  BY DEF ToldSafe, Told, ToldOne, MmTold, SetUp
<1>4. QED
  BY <1>1, <1>2, <1>3, PTL DEF Spec

\* Under that condition rm is the channel that ChannelUse describes, whose users are told
\* of the end of what they were given, whatever handlers, watchdogs and answers cross.
THEOREM ImplementsUseClean ==
    Spec /\ [][GivenOutClean]_vars => UseSpec
BY MmAlwaysTold, ImplementsUse, PTL

=============================================================================
