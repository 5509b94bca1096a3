----------------------------- MODULE RmChannel -----------------------------
(* The radio resource manager (rm/Src): the state machine rm_S1 .. rm_S11 of  *)
(* every dedicated channel, from allocation over activation, establishment,   *)
(* change to traffic mode and handover to release, with the task's queue.     *)
(* External, from how rm uses them: the DSP (takes the commands of a channel  *)
(* in order), LAPDm and the mobile, MM and CC (know a channel as long as they *)
(* have a connection on it), GRR (shuts timeslots down).                      *)
EXTENDS Naturals, Sequences, FiniteSets

CONSTANTS
    Chan,      \* the dedicated channels
    Tchf,      \* those of them that are TCH/F, each on a timeslot of its own;
               \* the others are the SDCCH/4 of the beacon timeslot
    Beacon,    \* the beacon timeslot
    MmId,      \* MM entries that may ask for a channel for a handover
    None,      \* no MM entry
    Shutdowns, \* timeslots that OAM may shut down
    RmQMax,    \* bound: messages in the queue of the task
    DspQMax    \* bound: commands a channel of the DSP has not taken

ASSUME ChanAssumption ==
    /\ Tchf \subseteq Chan
    /\ Beacon \notin Chan
    /\ None \notin MmId
    /\ Shutdowns \subseteq Tchf \cup {Beacon}
    /\ RmQMax \in Nat /\ DspQMax \in Nat

Sdcch4 == Chan \ Tchf
Slot == Tchf \cup {Beacon}
SlotChans(s) == IF s = Beacon THEN Sdcch4 ELSE {s}

\* Channel requests: emergency call, other call, location update.
Cause == {"EMC", "CALL", "LUP"}
Timer == {"T3101", "T3105", "T3109", "T3111", "T3L01", "T3L02"}
Tested == {"T3101", "T3111"}

\* What the queue of the task holds, other than expired timers.
L1Msg == {"ACT_ACK", "ACT_NACK", "REL_ACK", "MODE_ACK", "MODE_NACK", "RSL"}
DataInd == {"MODE_OK", "MODE_BAD", "HO_COMPLETE", "HO_FAILURE", "BAD_IE"}
MdMsg == {"EST_IND", "REL_IND", "ERR_RPT", "OTHRA_IND"} \cup DataInd
L3Msg == {"REL_REQ", "ASSIGN_CMD", "HO_CMD"}
Message == [type: Timer \cup L1Msg \cup MdMsg \cup L3Msg, of: Chan]
             \cup [type: {"SHUTDOWN_REQ"}, of: Slot]

VARIABLES
    \* rm
    sm,           \* [Chan -> state], pMSmCtxt->state
    phy,          \* [Chan -> state], pPhyChan->state
    amState,      \* [Chan -> administrative state]
    pchState,     \* administrative state of the paging channel
    isForHo,      \* [Chan -> BOOLEAN]
    hoRef,        \* [Chan -> MmId or None]
    callType,     \* [Chan -> Cause]
    timerState,   \* [Chan -> set of timers whose field "state" is RM_TRUE, of those
                  \* for which it decides anything]
    armed,        \* [Chan -> set of timers whose watchdog runs]
    queue,        \* rm_MsgQId
    \* external
    dspQ,         \* [Chan -> commands not yet taken by the DSP]
    dspOn,        \* [Chan -> BOOLEAN], the DSP serves the channel
    granted,      \* [Chan -> "no", "imm", "ho", "phys"], a mobile has been sent there
                  \* (by immediate assignment, handover command, physical information)
    link,         \* [Chan -> BOOLEAN], LAPDm has a link with the mobile
    mmQ,          \* [Chan -> what MM has not read about the channel]
    mm,           \* [Chan -> BOOLEAN], MM has a connection on the channel
    hoWait,       \* MM entries that wait for the answer to a handover request
    slotState,    \* [Slot -> administrative state in grr_OamData]
    acked,        \* timeslots whose shutdown has been acknowledged to GRR
    \* history
    conn          \* [Chan -> BOOLEAN], rm took a connection it has not yet ended
                  \* towards MM

ctx == <<isForHo, hoRef, callType>>
timers == <<timerState, armed>>
dspVars == <<dspQ, dspOn>>
msVars == <<granted, link>>
mmVars == <<mmQ, mm, hoWait>>
admin == <<amState, pchState, slotState, acked>>
vars == <<sm, phy, ctx, timers, queue, dspVars, msVars, mmVars, admin, conn>>

State == {"S1", "S2", "S3", "S4", "S5", "S6", "S7", "S8", "S9", "S10", "S11"}

TypeOK ==
    /\ sm \in [Chan -> State]
    /\ phy \in [Chan -> {"FREE", "ASSIGNED", "RELEASING"}]
    /\ amState \in [Chan -> {"unlocked", "shuttingDown", "locked"}]
    /\ pchState \in {"unlocked", "locked"}
    /\ isForHo \in [Chan -> BOOLEAN]
    /\ hoRef \in [Chan -> MmId \cup {None}]
    /\ callType \in [Chan -> Cause]
    /\ timerState \in [Chan -> SUBSET Tested]
    /\ armed \in [Chan -> SUBSET Timer]
    /\ queue \in Seq(Message)
    /\ dspQ \in [Chan -> Seq({"ACT", "REL", "MODE"})]
    /\ dspOn \in [Chan -> BOOLEAN]
    /\ granted \in [Chan -> {"no", "imm", "ho", "phys"}]
    /\ link \in [Chan -> BOOLEAN]
    /\ mmQ \in [Chan -> Seq({"EST", "REL"})]
    /\ mm \in [Chan -> BOOLEAN]
    /\ hoWait \subseteq MmId
    /\ slotState \in [Slot -> {"unlocked", "shuttingDown"}]
    /\ acked \subseteq Slot
    /\ conn \in [Chan -> BOOLEAN]

Init ==
    /\ sm = [c \in Chan |-> "S1"]
    /\ phy = [c \in Chan |-> "FREE"]
    /\ amState = [c \in Chan |-> "unlocked"]
    /\ pchState = "unlocked"
    /\ isForHo = [c \in Chan |-> FALSE]
    /\ hoRef = [c \in Chan |-> None]
    /\ callType = [c \in Chan |-> "CALL"]
    /\ timerState = [c \in Chan |-> {}]
    /\ armed = [c \in Chan |-> {}]
    /\ queue = <<>>
    /\ dspQ = [c \in Chan |-> <<>>]
    /\ dspOn = [c \in Chan |-> FALSE]
    /\ granted = [c \in Chan |-> "no"]
    /\ link = [c \in Chan |-> FALSE]
    /\ mmQ = [c \in Chan |-> <<>>]
    /\ mm = [c \in Chan |-> FALSE]
    /\ hoWait = {}
    /\ slotState = [s \in Slot |-> "unlocked"]
    /\ acked = {}
    /\ conn = [c \in Chan |-> FALSE]

-----------------------------------------------------------------------------
(* Helpers.                                                                  *)

\* The task takes a message of this type about this channel.
Takes(type, c) ==
    /\ queue # <<>>
    /\ Head(queue) = [type |-> type, of |-> c]
    /\ queue' = Tail(queue)

Post(type, of) ==
    /\ Len(queue) < RmQMax
    /\ queue' = Append(queue, [type |-> type, of |-> of])

Goto(c, state, phyState) ==
    /\ sm' = [sm EXCEPT ![c] = state]
    /\ phy' = [phy EXCEPT ![c] = phyState]

\* rm_StopTimer and rm_StartTimer.  Cancelling a watchdog does not take back the
\* message of one that has expired.
Timers(c, stop, start) ==
    /\ armed' = [armed EXCEPT ![c] = (@ \ stop) \cup start]
    /\ timerState' = [timerState EXCEPT ![c] = (@ \ stop) \cup (start \cap Tested)]

Command(c, cmd) == dspQ' = [dspQ EXCEPT ![c] = Append(@, cmd)]
ToMm(c, what) == mmQ' = [mmQ EXCEPT ![c] = Append(@, what)]

\* rm_SendDlRelReq with RM_LOCAL_RELEASE
LocalRelease(c) == link' = [link EXCEPT ![c] = FALSE]

\* rm_SendHoReqNAck, where the channel was wanted for a handover
HoNackForgotten(c) == UNCHANGED hoWait
HoNack(c) == hoWait' = IF isForHo[c] THEN hoWait \ {hoRef[c]} ELSE hoWait

\* The mobile is to leave the channel and T3109 guards that it does:
\* rm_SendChanRelease, rm_SendDeactivateSacch, rm_StartTimer(RM_T3109).
ReleaseKeepsPhy(c) ==
    /\ Goto(c, "S7", phy[c])
    /\ Timers(c, {}, {"T3109"})
    /\ UNCHANGED <<dspQ, msVars, mmVars, admin, conn>>
Release(c) ==
    /\ Goto(c, "S7", "RELEASING")
    /\ Timers(c, {}, {"T3109"})
    /\ UNCHANGED <<dspQ, msVars, mmVars, admin, conn>>

\* The channel is switched off: rm_SendRfChanRelease.
DeactivateAtOnce(c, stop, start) ==
    /\ Goto(c, "S1", "FREE")
    /\ Timers(c, stop, start)
    /\ Command(c, "REL")
Deactivate(c, stop, start) ==
    /\ Goto(c, "S9", "RELEASING")
    /\ Timers(c, stop, start)
    /\ Command(c, "REL")

\* rm_SendRrRelInd
TellMm(c) ==
    /\ ToMm(c, "REL")
    /\ conn' = [conn EXCEPT ![c] = FALSE]

\* The end of an activation that has not succeeded: the channel is free at once.
AbandonQuiet(c) ==
    /\ Goto(c, "S1", "FREE")
    /\ LocalRelease(c)
    /\ HoNack(c)
    /\ UNCHANGED <<timers, dspQ, granted, mmQ, mm, admin, conn>>
Abandon(c) ==
    /\ Goto(c, "S1", "FREE")
    /\ Command(c, "REL")
    /\ LocalRelease(c)
    /\ HoNack(c)
    /\ UNCHANGED <<timers, granted, mmQ, mm, admin, conn>>

\* rm_ProcRrRelease
RrRelease(c) ==
    \/ /\ sm[c] = "S2"
       /\ Abandon(c)
    \/ /\ sm[c] = "S7"
       /\ Deactivate(c, {"T3109", "T3L02", "T3101"}, {"T3111"})
       /\ TellMm(c)
       /\ UNCHANGED <<msVars, mm, hoWait, admin>>
    \/ /\ sm[c] = "S3"
       /\ Deactivate(c, {"T3101"}, {"T3111"})
       /\ UNCHANGED <<msVars, mmVars, admin, conn>>
    \/ /\ sm[c] = "S4"
       /\ Deactivate(c, {"T3105"}, {"T3111"})
       /\ UNCHANGED <<msVars, mmVars, admin, conn>>
    \/ /\ sm[c] \in {"S5", "S6", "S8", "S10", "S11"}
       /\ Release(c)
    \/ /\ sm[c] \in {"S1", "S9"}
       /\ Command(c, "REL")
       /\ UNCHANGED <<sm, phy, timers, msVars, mmVars, admin, conn>>

-----------------------------------------------------------------------------
(* Allocation and activation (S1, S2).                                       *)

\* rm_ChanReq, rm_HoReq and rm_AllocSmCtxt refuse while the beacon timeslot is not
\* unlocked in the data they share with GRR.
Blocked == slotState[Beacon] # "unlocked"

\* rm_AllocSmCtxt takes a channel that is unlocked and free; which one depends on
\* measured quality.
AllocatableLocked(c) == ~Blocked /\ phy[c] = "FREE"
Allocatable(c) == ~Blocked /\ amState[c] = "unlocked" /\ phy[c] = "FREE"

ActivateSilent(c, forHo, m, cause) ==
    /\ Allocatable(c)
    /\ mmQ[c] = <<>>
    /\ Goto(c, "S2", "ASSIGNED")
    /\ isForHo' = [isForHo EXCEPT ![c] = forHo]
    /\ hoRef' = [hoRef EXCEPT ![c] = m]
    /\ callType' = [callType EXCEPT ![c] = cause]
    /\ UNCHANGED <<timers, queue, dspVars, msVars, mmQ, mm, admin, conn>>
Activate(c, forHo, m, cause) ==
    /\ Allocatable(c)
    /\ mmQ[c] = <<>>
    /\ Len(dspQ[c]) < DspQMax
    /\ Goto(c, "S2", "ASSIGNED")
    /\ isForHo' = [isForHo EXCEPT ![c] = forHo]
    /\ hoRef' = [hoRef EXCEPT ![c] = m]
    /\ callType' = [callType EXCEPT ![c] = cause]
    /\ Command(c, "ACT")
    /\ UNCHANGED <<timers, queue, dspOn, msVars, mmQ, mm, admin, conn>>

\* rm_ChanReq: a mobile asks on the random access channel.  Refused, it is sent an
\* IMMEDIATE ASSIGNMENT REJECT and nothing changes.
ChanReq(c, cause) ==
    /\ c \in (IF cause = "LUP" THEN Sdcch4 ELSE Tchf)
    /\ Activate(c, FALSE, hoRef[c], cause)
    /\ UNCHANGED hoWait

\* rm_RrEstReq and rm_HoReq: MM asks for a channel for a handover from another cell.
\* Without a channel it is answered at once and nothing changes.
HoReq(m, c) ==
    /\ m \notin hoWait
    /\ pchState = "unlocked"
    /\ c \in Tchf
    /\ Activate(c, TRUE, m, callType[c])
    /\ hoWait' = hoWait \cup {m}

\* rm_HoReq returns without an answer while the beacon timeslot is blocked and the
\* shutdown request for it has not yet been taken.
HoReqDropped(m) ==
    /\ m \notin hoWait
    /\ pchState = "unlocked"
    /\ Blocked
    /\ hoWait' = hoWait \cup {m}
    /\ UNCHANGED <<sm, phy, ctx, timers, queue, dspVars, msVars, mmQ, mm, admin, conn>>

\* rm_S2: the acknowledgement of an activation, perhaps of an earlier one.
ActAck(c) ==
    /\ sm[c] = "S2"
    /\ Takes("ACT_ACK", c)
    /\ LocalRelease(c)
    /\ Timers(c, {}, {"T3101"})
    /\ \/ /\ ~isForHo[c]
          /\ Goto(c, "S3", phy[c])
          /\ granted' = [granted EXCEPT ![c] = "imm"]
          /\ UNCHANGED <<hoWait, mmQ>>
       \/ /\ isForHo[c]
          /\ Goto(c, "S4", phy[c])
          /\ granted' = [granted EXCEPT ![c] = "ho"]
          /\ hoWait' = hoWait \ {hoRef[c]}
          /\ ToMm(c, "EST")
    /\ UNCHANGED <<ctx, dspVars, mm, admin, conn>>

ActNack(c) ==
    /\ sm[c] = "S2"
    /\ Takes("ACT_NACK", c)
    /\ Abandon(c)
    /\ UNCHANGED <<ctx, dspOn>>

-----------------------------------------------------------------------------
(* Establishment (S3, S4).                                                   *)

\* rm_S3, DL_EST_IND
EstInd(c) ==
    /\ sm[c] = "S3"
    /\ Takes("EST_IND", c)
    /\ Goto(c, "S5", phy[c])
    /\ Timers(c, {"T3101"}, {})
    /\ conn' = [conn EXCEPT ![c] = TRUE]
    /\ UNCHANGED <<ctx, dspVars, msVars, mmVars, admin>>

\* rm_S3, T3101.  T3111 is not started here, and the switch has no case for an
\* emergency call.
T3101ExpirySilent(c) ==
    /\ sm[c] = "S3" /\ "T3101" \in timerState[c] /\ callType[c] # "EMC"
    /\ Takes("T3101", c)
    /\ Goto(c, "S9", "RELEASING")
    /\ timerState' = [timerState EXCEPT ![c] = @ \ {"T3101"}]
    /\ UNCHANGED <<ctx, armed, dspVars, msVars, mmVars, admin, conn>>
T3101Expiry(c) ==
    /\ sm[c] = "S3" /\ "T3101" \in timerState[c] /\ callType[c] # "EMC"
    /\ Takes("T3101", c)
    /\ Goto(c, "S9", "RELEASING")
    /\ Command(c, "REL")
    /\ timerState' = [timerState EXCEPT ![c] = @ \ {"T3101"}]
    /\ UNCHANGED <<ctx, armed, dspOn, msVars, mmVars, admin, conn>>

\* rm_S4: handover access, answered with PHYSICAL INFORMATION.
OthraInd(c) ==
    /\ sm[c] = "S4" /\ isForHo[c]
    /\ Takes("OTHRA_IND", c)
    /\ Timers(c, {"T3101"}, {"T3105"})
    /\ granted' = [granted EXCEPT ![c] = "phys"]
    /\ UNCHANGED <<sm, phy, ctx, dspVars, link, mmVars, admin, conn>>

\* rm_S4, DL_EST_IND: T3105 is started again.
HoEstInd(c) ==
    /\ sm[c] = "S4" /\ isForHo[c]
    /\ Takes("EST_IND", c)
    /\ Timers(c, {"T3105"}, {"T3105"})
    /\ UNCHANGED <<sm, phy, ctx, dspVars, msVars, mmVars, admin, conn>>

HoComplete(c) ==
    /\ sm[c] = "S4" /\ isForHo[c]
    /\ Takes("HO_COMPLETE", c)
    /\ Goto(c, "S10", phy[c])
    /\ Timers(c, {"T3105"}, {})
    /\ conn' = [conn EXCEPT ![c] = TRUE]
    /\ UNCHANGED <<ctx, dspVars, msVars, mmVars, admin>>

-----------------------------------------------------------------------------
(* A connection: signalling (S5), traffic (S6, S8, S10), handover (S11).     *)

\* rm_S5, DL_REL_IND: the mobile has left; MM is told when T3109 has run.
RelInd(c) ==
    /\ sm[c] = "S5"
    /\ Takes("REL_IND", c)
    /\ Release(c)
    /\ UNCHANGED <<ctx, dspOn>>

\* rm_ProcChanAssignCmd in S5 and S10
ChanAssignCmd(c) ==
    /\ sm[c] \in {"S5", "S10"}
    /\ Takes("ASSIGN_CMD", c)
    /\ Goto(c, "S6", phy[c])
    /\ Command(c, "MODE")
    /\ UNCHANGED <<ctx, timers, dspOn, msVars, mmVars, admin, conn>>

\* rm_ProcL1ModeAckNAck in S6 and S10
ModeAck(c) ==
    /\ sm[c] \in {"S6", "S10"}
    /\ Takes("MODE_ACK", c)
    /\ Goto(c, "S8", phy[c])
    /\ Timers(c, {}, {"T3L01"})
    /\ UNCHANGED <<ctx, dspVars, msVars, mmVars, admin, conn>>

ModeNack(c) ==
    /\ sm[c] \in {"S6", "S10"}
    /\ Takes("MODE_NACK", c)
    /\ Release(c)
    /\ UNCHANGED <<ctx, dspOn>>

\* rm_ProcMsModeModifyAckNack in S8 and S10: the mobile has the mode asked for.
ModeModifyAck(c) ==
    /\ sm[c] \in {"S8", "S10"}
    /\ Takes("MODE_OK", c)
    /\ Goto(c, "S10", phy[c])
    /\ Timers(c, {"T3L01"}, {})
    /\ UNCHANGED <<ctx, dspVars, msVars, mmVars, admin, conn>>

\* The same, the mobile has another mode.
ModeModifyWrong(c) ==
    /\ sm[c] \in {"S8", "S10"}
    /\ Takes("MODE_BAD", c)
    /\ Goto(c, "S7", "RELEASING")
    /\ Timers(c, {"T3L01"}, {"T3109"})
    /\ UNCHANGED <<ctx, dspVars, msVars, mmVars, admin, conn>>

\* rm_S10: the mobile is sent to another cell.
HandoverCommand(c) ==
    /\ sm[c] = "S10"
    /\ Takes("HO_CMD", c)
    /\ Goto(c, "S11", phy[c])
    /\ UNCHANGED <<ctx, timers, dspVars, msVars, mmVars, admin, conn>>

\* rm_S11: it has come back.
HandoverFailure(c) ==
    /\ sm[c] = "S11"
    /\ Takes("HO_FAILURE", c)
    /\ Goto(c, "S10", phy[c])
    /\ UNCHANGED <<ctx, timers, dspVars, msVars, mmVars, admin, conn>>

\* What ends in rm_ProcRrRelease: in every state an error of LAPDm, a radio link
\* failure or a request of MM (rm_Despatch); where a message of the mobile is
\* decoded (rm_MsgAnalyze), one without a mandatory part; in S10 and S11 DL_REL_IND.
Releases(c) ==
    {"ERR_RPT", "RSL", "REL_REQ"}
        \cup (IF sm[c] \in {"S4", "S5", "S8", "S10", "S11"} THEN {"BAD_IE"} ELSE {})
        \cup (IF sm[c] \in {"S10", "S11"} THEN {"REL_IND"} ELSE {})

ProcRrRelease(c) ==
    /\ \E type \in Releases(c) : Takes(type, c)
    /\ RrRelease(c)
    /\ UNCHANGED <<ctx, dspOn>>

-----------------------------------------------------------------------------
(* Release (S7) and deactivation (S9).                                       *)

\* rm_S7, DL_REL_IND
ReleasedByMs(c) ==
    /\ sm[c] = "S7"
    /\ Takes("REL_IND", c)
    /\ Timers(c, {"T3109"}, {"T3L02"})
    /\ TellMm(c)
    /\ LocalRelease(c)
    /\ UNCHANGED <<sm, phy, ctx, dspVars, granted, mm, hoWait, admin>>

T3L02Expiry(c) ==
    /\ sm[c] = "S7"
    /\ Takes("T3L02", c)
    /\ Deactivate(c, {}, {"T3111"})
    /\ UNCHANGED <<ctx, dspOn, msVars, mmVars, admin, conn>>

T3109ExpiryUntold(c) ==
    /\ sm[c] = "S7"
    /\ Takes("T3109", c)
    /\ Deactivate(c, {}, {"T3111"})
    /\ LocalRelease(c)
    /\ UNCHANGED <<ctx, dspOn, granted, mmVars, admin, conn>>
T3109Expiry(c) ==
    /\ sm[c] = "S7"
    /\ Takes("T3109", c)
    /\ Deactivate(c, {}, {"T3111"})
    /\ TellMm(c)
    /\ LocalRelease(c)
    /\ UNCHANGED <<ctx, dspOn, granted, mm, hoWait, admin>>

\* rm_S7 looks at the field "sapi" of every message.  rm_TimerExpired does not
\* write that byte: the message carries what the stack held.
ExpiryDropped(c) ==
    /\ sm[c] = "S7"
    /\ \E t \in {"T3L02", "T3109"} : Takes(t, c)
    /\ UNCHANGED <<sm, phy, ctx, timers, dspVars, msVars, mmVars, admin, conn>>

\* rm_PostTchfRelHandler and rm_PostSdcch4RelHandler: a channel that was in use when
\* its timeslot was shut down.  The second compares where it should assign.
PostRelHandler(c) ==
    IF amState[c] # "shuttingDown" THEN UNCHANGED <<amState, acked>>
    ELSE IF c \in Tchf
         THEN /\ amState' = [amState EXCEPT ![c] = "locked"]
              /\ acked' = acked \cup {c}
         ELSE /\ acked' = IF /\ slotState[Beacon] = "shuttingDown"
                             /\ \A d \in Sdcch4 : amState[d] # "shuttingDown"
                          THEN acked \cup {Beacon} ELSE acked
              /\ UNCHANGED amState

\* rm_S9, the acknowledgement of the DSP or T3111
DeactivatedByTimerOnly(c) ==
    /\ sm[c] = "S9"
    /\ Takes("T3111", c) /\ "T3111" \in timerState[c]
    /\ Goto(c, "S1", "FREE")
    /\ Timers(c, {"T3109", "T3111", "T3101"}, {})
    /\ PostRelHandler(c)
    /\ UNCHANGED <<ctx, dspVars, msVars, mmVars, pchState, slotState, conn>>
Deactivated(c) ==
    /\ sm[c] = "S9"
    /\ \/ Takes("REL_ACK", c)
       \/ Takes("T3111", c) /\ "T3111" \in timerState[c]
    /\ Goto(c, "S1", "FREE")
    /\ Timers(c, {"T3109", "T3111", "T3101"}, {})
    /\ PostRelHandler(c)
    /\ UNCHANGED <<ctx, dspVars, msVars, mmVars, pchState, slotState, conn>>

-----------------------------------------------------------------------------
(* Shutdown of a timeslot, and messages without effect.                      *)

\* rm_ProcTrxSlotShutdownReq, rm_ShuttingDownAllTrxSlotChans
ShutdownReqPch(s) ==
    LET inUse == {c \in SlotChans(s) : phy[c] # "FREE"} IN
    /\ Takes("SHUTDOWN_REQ", s)
    /\ amState' = [c \in Chan |-> IF c \in inUse THEN "shuttingDown"
                                  ELSE IF c \in SlotChans(s) THEN "locked"
                                  ELSE amState[c]]
    /\ sm' = [c \in Chan |-> IF c \in SlotChans(s) \ inUse THEN "S1" ELSE sm[c]]
    /\ pchState' = IF s = Beacon THEN "shuttingDown" ELSE pchState
    /\ acked' = IF inUse = {} THEN acked \cup {s} ELSE acked
    /\ UNCHANGED <<phy, ctx, timers, dspVars, msVars, mmVars, slotState, conn>>
ShutdownReqEager(s) ==
    /\ Takes("SHUTDOWN_REQ", s)
    /\ amState' = [c \in Chan |-> IF c \in SlotChans(s) THEN "locked" ELSE amState[c]]
    /\ pchState' = IF s = Beacon THEN "locked" ELSE pchState
    /\ acked' = acked \cup {s}
    /\ UNCHANGED <<sm, phy, ctx, timers, dspVars, msVars, mmVars, slotState, conn>>
ShutdownReq(s) ==
    LET inUse == {c \in SlotChans(s) : phy[c] # "FREE"} IN
    /\ Takes("SHUTDOWN_REQ", s)
    /\ amState' = [c \in Chan |-> IF c \in inUse THEN "shuttingDown"
                                  ELSE IF c \in SlotChans(s) THEN "locked"
                                  ELSE amState[c]]
    /\ sm' = [c \in Chan |-> IF c \in SlotChans(s) \ inUse THEN "S1" ELSE sm[c]]
    /\ pchState' = IF s = Beacon THEN "locked" ELSE pchState
    /\ acked' = IF inUse = {} THEN acked \cup {s} ELSE acked
    /\ UNCHANGED <<phy, ctx, timers, dspVars, msVars, mmVars, slotState, conn>>

\* rm_S1: an outcome that comes too late.
LateOutcome(c) ==
    /\ sm[c] = "S1"
    /\ Takes("ACT_ACK", c) \/ Takes("ACT_NACK", c)
    /\ LocalRelease(c)
    /\ UNCHANGED <<sm, phy, ctx, timers, dspVars, granted, mmVars, admin, conn>>

\* What the state of the channel handles.
Handled(c) ==
    Releases(c) \cup
    (CASE sm[c] = "S1" -> {"ACT_ACK", "ACT_NACK"}
       [] sm[c] = "S2" -> {"ACT_ACK", "ACT_NACK"}
       [] sm[c] = "S3" -> {"EST_IND"} \cup
             (IF "T3101" \in timerState[c] /\ callType[c] # "EMC" THEN {"T3101"} ELSE {})
       [] sm[c] = "S4" -> IF isForHo[c] THEN {"OTHRA_IND", "EST_IND", "HO_COMPLETE"} ELSE {}
       [] sm[c] = "S5" -> {"REL_IND", "ASSIGN_CMD"}
       [] sm[c] = "S6" -> {"MODE_ACK", "MODE_NACK"}
       [] sm[c] = "S7" -> {"REL_IND", "T3L02", "T3109"}
       [] sm[c] = "S8" -> {"MODE_OK", "MODE_BAD"}
       [] sm[c] = "S9" -> {"REL_ACK"} \cup (timerState[c] \cap {"T3111"})
       [] sm[c] = "S10" -> {"ASSIGN_CMD", "HO_CMD", "MODE_ACK", "MODE_NACK", "MODE_OK", "MODE_BAD"}
       [] OTHER -> {"HO_FAILURE"})

\* Any other message is dropped.  T3105 and T3101 in S4 are among these, since the
\* test there asks the timer to be both, and so is T3L01, since rm_ProcT3L01Expiry
\* turns away exactly the messages that are expiries.
Ignore(c) ==
    /\ \E type \in Timer \cup L1Msg \cup MdMsg \cup L3Msg :
          type \notin Handled(c) /\ Takes(type, c)
    /\ UNCHANGED <<sm, phy, ctx, timers, dspVars, msVars, mmVars, admin, conn>>

-----------------------------------------------------------------------------
(* External.                                                                 *)

\* A watchdog runs out and posts its message (rm_TimerExpired).
Expire(c, t) ==
    /\ t \in armed[c]
    /\ armed' = [armed EXCEPT ![c] = @ \ {t}]
    /\ Post(t, c)
    /\ UNCHANGED <<sm, phy, ctx, timerState, dspVars, msVars, mmVars, admin, conn>>

\* The DSP takes the next command of a channel.
DspStep(c) ==
    /\ dspQ[c] # <<>>
    /\ dspQ' = [dspQ EXCEPT ![c] = Tail(@)]
    /\ \/ /\ Head(dspQ[c]) = "ACT"
          /\ \/ Post("ACT_ACK", c) /\ dspOn' = [dspOn EXCEPT ![c] = TRUE]
             \/ Post("ACT_NACK", c) /\ UNCHANGED dspOn
          /\ UNCHANGED granted
       \/ /\ Head(dspQ[c]) = "REL"
          /\ Post("REL_ACK", c)
          /\ dspOn' = [dspOn EXCEPT ![c] = FALSE]
          /\ granted' = [granted EXCEPT ![c] = "no"]
       \/ /\ Head(dspQ[c]) = "MODE"
          /\ Post("MODE_ACK", c) \/ Post("MODE_NACK", c)
          /\ UNCHANGED <<dspOn, granted>>
    /\ UNCHANGED <<sm, phy, ctx, timers, link, mmVars, admin, conn>>

\* The DSP reports a radio link failure.
RadioLinkFailure(c) ==
    /\ dspOn[c] /\ Len(dspQ[c]) < DspQMax
    /\ Post("RSL", c)
    /\ UNCHANGED <<sm, phy, ctx, timers, dspVars, msVars, mmVars, admin, conn>>

\* A mobile that was sent to the channel establishes the link; for a call of its own
\* LAPDm tells MM as well.
MsEstablishes(c) ==
    /\ dspOn[c] /\ granted[c] \in {"imm", "phys"} /\ "T3L02" \notin armed[c]
    /\ Post("EST_IND", c)
    /\ link' = [link EXCEPT ![c] = TRUE]
    /\ granted' = [granted EXCEPT ![c] = "no"]
    /\ IF granted[c] = "imm" THEN ToMm(c, "EST") ELSE UNCHANGED mmQ
    /\ UNCHANGED <<sm, phy, ctx, timers, dspVars, mm, hoWait, admin, conn>>

MsAccesses(c) ==
    /\ dspOn[c] /\ granted[c] = "ho"
    /\ Post("OTHRA_IND", c)
    /\ UNCHANGED <<sm, phy, ctx, timers, dspVars, msVars, mmVars, admin, conn>>

\* The mobile sends a message, or leaves.
MsSends(c) ==
    /\ dspOn[c] /\ link[c] /\ Len(dspQ[c]) < DspQMax
    /\ \E type \in DataInd : Post(type, c)
    /\ UNCHANGED <<sm, phy, ctx, timers, dspVars, msVars, mmVars, admin, conn>>

MsReleases(c) ==
    /\ dspOn[c] /\ link[c]
    /\ Post("REL_IND", c)
    /\ LocalRelease(c)
    /\ UNCHANGED <<sm, phy, ctx, timers, dspVars, granted, mmVars, admin, conn>>

\* LAPDm gives up the link.
LapdmFails(c) ==
    /\ link[c] /\ Len(dspQ[c]) < DspQMax
    /\ Post("ERR_RPT", c)
    /\ UNCHANGED <<sm, phy, ctx, timers, dspVars, msVars, mmVars, admin, conn>>

\* MM reads what it was told; "REL" ends its connection.
MmReads(c) ==
    /\ mmQ[c] # <<>>
    /\ mm' = [mm EXCEPT ![c] = Head(mmQ[c]) = "EST"]
    /\ mmQ' = [mmQ EXCEPT ![c] = Tail(@)]
    /\ UNCHANGED <<sm, phy, ctx, timers, queue, dspVars, msVars, hoWait, admin, conn>>

\* MM ends its connection: it sends RR_REL_REQ and frees its entry.
MmReleases(c) ==
    /\ mm[c] /\ Len(dspQ[c]) < DspQMax
    /\ Post("REL_REQ", c)
    /\ mm' = [mm EXCEPT ![c] = FALSE]
    /\ UNCHANGED <<sm, phy, ctx, timers, dspVars, msVars, mmQ, hoWait, admin, conn>>

\* CC asks for a traffic channel, or for a handover to another cell.
CcAsks(c) ==
    /\ mm[c] /\ c \in Tchf /\ Len(dspQ[c]) < DspQMax
    /\ Post("ASSIGN_CMD", c) \/ Post("HO_CMD", c)
    /\ UNCHANGED <<sm, phy, ctx, timers, dspVars, msVars, mmVars, admin, conn>>

\* grr_ProcOamTrxSlotAmStateShuttingdown
GrrShutsDown(s) ==
    /\ s \in Shutdowns /\ slotState[s] = "unlocked"
    /\ slotState' = [slotState EXCEPT ![s] = "shuttingDown"]
    /\ Post("SHUTDOWN_REQ", s)
    /\ UNCHANGED <<sm, phy, ctx, timers, dspVars, msVars, mmVars, amState, pchState, acked, conn>>

-----------------------------------------------------------------------------
RmHandles(c) ==
    \/ ActAck(c) \/ ActNack(c) \/ EstInd(c) \/ T3101Expiry(c)
    \/ OthraInd(c) \/ HoEstInd(c) \/ HoComplete(c)
    \/ RelInd(c) \/ ChanAssignCmd(c) \/ ModeAck(c) \/ ModeNack(c)
    \/ ModeModifyAck(c) \/ ModeModifyWrong(c)
    \/ HandoverCommand(c) \/ HandoverFailure(c) \/ ProcRrRelease(c)
    \/ ReleasedByMs(c) \/ T3L02Expiry(c) \/ T3109Expiry(c) \/ ExpiryDropped(c)
    \/ Deactivated(c) \/ LateOutcome(c) \/ Ignore(c)

\* The task takes the message at the head of its queue.
RmTask == (\E c \in Chan : RmHandles(c)) \/ (\E s \in Slot : ShutdownReq(s))

Allocation ==
    \/ \E c \in Chan, cause \in Cause : ChanReq(c, cause)
    \/ \E m \in MmId, c \in Chan : HoReq(m, c)
    \/ \E m \in MmId : HoReqDropped(m)

Surroundings ==
    \/ \E c \in Chan :
          \/ \E t \in Timer : Expire(c, t)
          \/ DspStep(c) \/ RadioLinkFailure(c)
          \/ MsEstablishes(c) \/ MsAccesses(c) \/ MsSends(c) \/ MsReleases(c)
          \/ LapdmFails(c) \/ MmReads(c) \/ MmReleases(c) \/ CcAsks(c)
    \/ \E s \in Slot : GrrShutsDown(s)

Next == RmTask \/ Allocation \/ Surroundings

Spec == Init /\ [][Next]_vars

\* The task runs whenever it has a message.  The DSP takes its commands and watchdogs
\* run out; strong fairness, as only the bound on the queue can hold them up.
Fairness ==
    /\ WF_vars(RmTask)
    /\ \A c \in Chan : SF_vars(DspStep(c)) /\ SF_vars(\E t \in Timer : Expire(c, t))

FairSpec == Spec /\ Fairness

-----------------------------------------------------------------------------
(* Properties.                                                               *)

\* A channel's description and its state machine say the same: two fields that every
\* handler sets on its own, and allocation looks only at the first.
ChannelStateAgrees ==
    \A c \in Chan :
       phy[c] = CASE sm[c] = "S1" -> "FREE"
                  [] sm[c] \in {"S7", "S9"} -> "RELEASING"
                  [] OTHER -> "ASSIGNED"

\* Once the DSP has taken these commands, whatever it answers, the channel is off.
EndsOff(on, cmds) ==
    \/ ~on /\ \A i \in DOMAIN cmds : cmds[i] # "ACT"
    \/ \E i \in DOMAIN cmds :
          cmds[i] = "REL" /\ \A j \in DOMAIN cmds : j > i => cmds[j] # "ACT"

\* A channel that is free or being deactivated does not go on transmitting: whatever
\* the order of commands, failures and late outcomes (rm_S1, rm_S2, rm_ProcRrRelease),
\* the last word to the DSP is "off".
NoOrphanRadio == \A c \in Chan : sm[c] \in {"S1", "S9"} => EndsOff(dspOn[c], dspQ[c])

InQueue(type, c) == \E i \in DOMAIN queue : queue[i] = [type |-> type, of |-> c]
InDsp(cmd, c) == \E i \in DOMAIN dspQ[c] : dspQ[c][i] = cmd

\* rm_S2, rm_S6 and rm_S9 have no timer, or one that is not always started: they wait
\* only while a command is on its way to the DSP or an answer on its way back.
DspAnswers ==
    \A c \in Chan :
       /\ sm[c] = "S2" => InDsp("ACT", c) \/ InQueue("ACT_ACK", c) \/ InQueue("ACT_NACK", c)
       /\ sm[c] = "S6" => InDsp("MODE", c) \/ InQueue("MODE_ACK", c) \/ InQueue("MODE_NACK", c)
       /\ sm[c] = "S9" => InDsp("REL", c) \/ InQueue("REL_ACK", c)

\* Whichever way a connection ends, rm_SendRrRelInd has told MM before the channel
\* is deactivated: MM's entry would otherwise point to the next user of the channel.
MmTold == \A c \in Chan : sm[c] \in {"S1", "S9"} => ~conn[c]

\* Every handover request MM waits for is one that rm_S2 will answer with an
\* acknowledgement or a refusal.
HoAnswered == \A m \in hoWait : \E c \in Chan : sm[c] = "S2" /\ isForHo[c] /\ hoRef[c] = m

\* A timeslot whose shutdown rm has acknowledged to GRR carries nothing any more, and
\* no request that was under way brings one of its channels back.
AckedIsIdle ==
    \A s \in acked : \A c \in SlotChans(s) : sm[c] = "S1" /\ amState[c] = "locked"

\* The machine is a channel as ChannelUse has it.
UseOf(state) ==
    CASE state = "S1" -> "idle"
      [] state \in {"S2", "S3", "S4"} -> "setup"
      [] state \in {"S7", "S9"} -> "down"
      [] OTHER -> "up"

Use == INSTANCE ChannelUse WITH use <- [c \in Chan |-> UseOf(sm[c])], owed <- conn

\* rm implements ChannelUse: every handler is one of its steps or changes nothing of it.
UseSpec == Use!Spec

\* rm_S2 does not wait for ever, though no timer guards an activation.
ActivationSettles == \A c \in Chan : sm[c] = "S2" ~> sm[c] # "S2"

\* rm_S9 ends, though T3111 is not started on every way into it (rm_S3, T3101).
DeactivationEnds == \A c \in Chan : sm[c] = "S9" ~> sm[c] = "S1"

\* rm_S4 ends: T3105 is repeated Ny1 times and then the handover is given up.
S4Left == \A c \in Chan : sm[c] = "S4" ~> sm[c] # "S4"
=============================================================================
