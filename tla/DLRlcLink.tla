------------------------------ MODULE DLRlcLink ------------------------------
(***************************************************************************)
(* One downlink TBF and its RLC link (classes DLTbf and DLRlcLink), the    *)
(* part of the RLC/MAC task that drives it (ready-to-send handling, timer  *)
(* expiry messages, AllocateDLResources), and, marked external, what the   *)
(* code relies on: the BSSGP queue of LLC PDUs, the DSP, the radio and the *)
(* mobile station (MS).                                                    *)
(*                                                                         *)
(* The RLC/MAC task is one thread that takes one message at a time from a  *)
(* FIFO queue.  A handler that ends with SendDownlinkDataBlock on every    *)
(* timeslot, or with AllocateDLResources, is finished by the steps that    *)
(* kick and alloc ask for; no other message is handled before they are     *)
(* done.                                                                   *)
(***************************************************************************)
EXTENDS RlcWindow, Sequences, FiniteSets

CONSTANTS
    Block,          \* the DLDataBlock objects of sysDlDataBlockPool
    Null,           \* the null pointer
    Timeslot,       \* the timeslots allocated to the TBF
    PollTs,         \* those on which PollingTsCheck succeeds (naturalTs)
    RlcMode,        \* the RLC modes the LLC PDUs may ask for
    BlocksBetweenPolls,     \* RlcMacNumBlocksBetweenPolls
    N3105_MAX,
    dlAssignCntMax,
    \* Bounds of the model.
    MaxBlocks,      \* RLC blocks built during one TBF
    MaxPdus,        \* LLC PDUs BSSGP offers in a behaviour
    MaxPolls,       \* polls on data blocks, but the last, that overlap
    OamLock         \* whether OAM may lock the resources of the TBF

ASSUME DLAssumption ==
    /\ Null \notin Block
    /\ Timeslot \subseteq Nat /\ PollTs \subseteq Timeslot
    /\ RlcMode \subseteq {"ACK", "UNACK"}
    /\ BlocksBetweenPolls \in Nat
    /\ N3105_MAX \in Nat
    /\ dlAssignCntMax \in Nat
    /\ MaxBlocks \in Nat \ {0}
    /\ MaxPdus \in Nat
    /\ MaxPolls \in Nat
    /\ OamLock \in BOOLEAN

VARIABLES
    \* class Tbf / DLTbf
    tbfState,
    \* class DLRlcLink
    rlcMode, vS, vA, vB, pDlBlocks, lastDataBlock, lastPendingAckXmit,
    lastBlockSentOnPollTs, n3105, numBlocksSincePoll, dlAssignCnt,
    pollOnActivation, isT3193Running,
    timer,          \* which of the JCCTimers are running
    pool,           \* free blocks of sysDlDataBlockPool
    \* the RLC/MAC task
    queue,          \* its messages, oldest first
    dataRTS,        \* Timeslot::dataRTSCount (MAX_DATA_RTS_COUNT is 1)
    kick,           \* timeslots SendDownlinkDataBlock is still to be called for
    alloc,          \* AllocateDLResources is still to be called
    fault,          \* a null pointer was used or an array overrun: no further
                    \* step is modelled
    \* BSSGP
    pduQueue,       \* LLC PDUs waiting for this MS
    offered,        \* LLC PDUs offered so far (bounded by MaxPdus)
    \* DSP, radio and MS
    polls,          \* RRBP polls the MS is to answer, oldest first
    built,          \* RLC blocks built in this TBF: block n has BSN n mod 128
    got,            \* the blocks of this TBF the MS has received
    msVR,           \* V(R) of the MS: one above the newest of them
    gone            \* the MS has left the cell

LAST_BLOCK_UNKNOWN == -1

TbfState == {"FREE", "ALLOCATED", "INACTIVE", "ACTIVATING", "REALLOCATING", "RELEASING"}
AckStatus == {"NACKED", "PENDING_ACK", "ACKED", "INVALID"}
Timer == {"T3191", "T3193", "T3195", "Activity"}

msVars == <<got, msVR>>
linkVars == <<rlcMode, vS, vA, vB, pDlBlocks, pool, lastDataBlock,
              lastPendingAckXmit, lastBlockSentOnPollTs, built, msVars>>
countVars == <<n3105, numBlocksSincePoll>>
assignVars == <<dlAssignCnt, pollOnActivation>>
timerVars == <<timer, isT3193Running>>
bssgpVars == <<pduQueue, offered>>
taskVars == <<dataRTS, kick, alloc, fault>>
vars == <<tbfState, linkVars, countVars, assignVars, timerVars, bssgpVars,
          taskVars, queue, polls, gone>>
------------------------------------------------------------------------------
(* The DSP, the MS and BSSGP (external) and the messages they post to the   *)
(* task.                                                                    *)

\* PACKET DOWNLINK ACK/NACK: final ack indication, starting sequence number and
\* the received block bitmap, as the set of BSNs whose bit is set.
AckNackDescription == [final : BOOLEAN, ssn : BSN, rrb : SUBSET BSN]
NoDescription == [final |-> FALSE, ssn |-> 0, rrb |-> {}]

\* A poll is an RRBP that the MS is to answer: on a data block ("data"), on
\* the last data block ("last"), or on an assignment or a polling request
\* ("assign").  tag: the TBF holds the control ack tag of the poll.
PollKind == {"data", "last", "assign"}
PollType == [kind : PollKind, tag : BOOLEAN, heard : BOOLEAN]
Poll(kind, tag, heard) == [kind |-> kind, tag |-> tag, heard |-> heard]

RtsMessage == [type : {"rts"}, ts : Timeslot]
OutcomeMessage == [type : {"outcome"}, kind : PollKind, tag : BOOLEAN,
                   answer : {"nack", "control_ack", "ack_nack"}, desc : AckNackDescription]
PduMessage == [type : {"pdu_req"}]
ExpiryMessage == [type : {"expiry"}, timer : Timer]
Message == RtsMessage \cup OutcomeMessage \cup PduMessage \cup ExpiryMessage

\* What the task learns of poll p.
OutcomeOf(p, answer, desc) ==
    [type |-> "outcome", kind |-> p.kind, tag |-> p.tag, answer |-> answer, desc |-> desc]

Posted(type) == {i \in DOMAIN queue : queue[i].type = type}

\* What the MS has received, and the bitmap of the K blocks below its V(R).
DownlinkAckNack ==
    [final |-> lastDataBlock # LAST_BLOCK_UNKNOWN /\ (0 .. built - 1) \subseteq got,
     ssn   |-> msVR % RLC_MOD_VAL,
     rrb   |-> {n % RLC_MOD_VAL : n \in {m \in got : m >= msVR - K}}]

\* The answer to a poll: a PACKET CONTROL ACKNOWLEDGEMENT to an assignment and at
\* the end of an unacknowledged transfer, else a PACKET DOWNLINK ACK/NACK.
MSAnswer(p) ==
    /\ p.heard /\ ~gone
    /\ queue' = Append(queue, IF p.kind = "assign" \/ (p.kind = "last" /\ rlcMode = "UNACK")
                              THEN OutcomeOf(p, "control_ack", NoDescription)
                              ELSE OutcomeOf(p, "ack_nack", DownlinkAckNack))

\* The MS did not hear the poll, or its answer is lost on the radio: the DSP
\* reports this (PH_PACCH_NACK) when the poll has a control ack tag.
NoAnswer(p) ==
    queue' = IF p.tag THEN Append(queue, OutcomeOf(p, "nack", NoDescription)) ELSE queue

PollEnds ==
    /\ polls # <<>>
    /\ polls' = Tail(polls)
    /\ MSAnswer(Head(polls)) \/ NoAnswer(Head(polls))
    /\ UNCHANGED <<tbfState, linkVars, countVars, assignVars, timerVars,
                   bssgpVars, taskVars, gone>>

\* PH_READY2SEND_IND: the DSP can take a block on timeslot ts.  A poll of a data
\* block is answered after a fixed number of frames; MaxPolls says how many can
\* be out at once, and the DSP is not ready for one more until one has ended.
DataPolls == Cardinality({i \in DOMAIN polls : polls[i].kind = "data"}) +
             Cardinality({i \in Posted("outcome") : queue[i].kind = "data"})
DspReady(ts) ==
    /\ dataRTS[ts] = 0
    /\ \A i \in Posted("rts") : queue[i].ts # ts
    /\ DataPolls < MaxPolls \/ numBlocksSincePoll > Cardinality(Posted("rts")) + 1
    /\ queue' = Append(queue, [type |-> "rts", ts |-> ts])
    /\ UNCHANGED <<tbfState, linkVars, countVars, assignVars, timerVars,
                   bssgpVars, taskVars, polls, gone>>

\* The MS leaves: from now on it hears and answers nothing.
MSLeaves ==
    /\ ~gone
    /\ gone' = TRUE
    /\ UNCHANGED <<tbfState, linkVars, countVars, assignVars, timerVars,
                   bssgpVars, taskVars, queue, polls>>

\* BSSGP queues an LLC PDU for the MS and tells the task.
BssgpOffer ==
    /\ offered < MaxPdus
    /\ offered' = offered + 1
    /\ pduQueue' = pduQueue + 1
    /\ queue' = Append(queue, [type |-> "pdu_req"])
    /\ UNCHANGED <<tbfState, linkVars, countVars, assignVars, timerVars,
                   taskVars, polls, gone>>

\* The watchdog routine of a timer posts a message, which cancelTimer does not
\* take back.  The Activity timer runs for seconds and is restarted with every
\* block; a poll ends and a message is handled within milliseconds.  It does not
\* expire while a poll on a data block is out or a block is asked for.
TimerExpiry(t) ==
    /\ timer[t]
    /\ t = "Activity" => /\ \A i \in DOMAIN polls : polls[i].kind = "assign"
                         /\ \A i \in Posted("outcome") : queue[i].kind = "assign"
                         /\ Posted("rts") = {}
    /\ \A i \in Posted("expiry") : queue[i].timer # t
    /\ timer' = [timer EXCEPT ![t] = FALSE]
    /\ queue' = Append(queue, [type |-> "expiry", timer |-> t])
    /\ UNCHANGED <<tbfState, linkVars, countVars, assignVars, isT3193Running, bssgpVars,
                   taskVars, polls, gone>>
------------------------------------------------------------------------------
(* Helpers of the link.                                                     *)

Idle == kick = {} /\ ~alloc

Hears == IF gone THEN {FALSE} ELSE BOOLEAN

\* ClearControlAckTag: the outcomes of earlier polls no longer find this TBF.
Untagged(ps) == [i \in DOMAIN ps |-> [ps[i] EXCEPT !.tag = FALSE]]
UntaggedQueue(q) ==
    [i \in DOMAIN q |-> IF q[i].type = "outcome" THEN [q[i] EXCEPT !.tag = FALSE] ELSE q[i]]

\* A new TBF: in addition the MS does not answer polls of the previous one.
Dropped(ps) == [i \in DOMAIN ps |-> [ps[i] EXCEPT !.tag = FALSE, !.heard = FALSE]]

Held == {pDlBlocks[i] : i \in BSN} \ {Null}

\* The number, counted from the start of the TBF, of the block at index i.
SeqAt(i) == built - Dist(i, vS)

\* The timers in on are started, those in off (and not in on) are cancelled.
Restarted(on, off) == [t \in Timer |-> t \in on \/ (timer[t] /\ t \notin off)]

Nacked == {i \in Span(vA, vS) : vB[i] = "NACKED"}
Pending == {i \in Span(lastPendingAckXmit, vS) : vB[i] = "PENDING_ACK"}

\* The transmit window is full.
StalledLate == rlcMode = "ACK" /\ vS = Plus(vA, K + 1)
Stalled == rlcMode = "ACK" /\ vS = Plus(vA, K)

\* In unacknowledged mode the block whose index is used again is returned.
FreedNever == {}
Freed == IF rlcMode = "UNACK" THEN {pDlBlocks[vS]} \ {Null} ELSE {}

\* pDlBlocks after the blocks at the indices in S are returned to the pool.
ForgottenNot(S) == pDlBlocks
ForgottenAll(S) == [i \in BSN |-> Null]
Forgotten(S) == [i \in BSN |-> IF i \in S THEN Null ELSE pDlBlocks[i]]

NoLLCPdusAvailable == FALSE
MoreLLCPdusAvailable == pduQueue > 0

\* V(A) after the bitmap of a has been read: the oldest block it does not
\* acknowledge, or SSN.
NewVAIsSSN(a) == a.ssn
NewVA(a) == LET W == Span(vA, a.ssn) IN
            IF W \subseteq a.rrb THEN a.ssn ELSE FirstFrom(vA, W \ a.rrb)

\* One more assignment was not acknowledged.
SameAssignCnt == dlAssignCnt
NextAssignCnt == dlAssignCnt + 1

\* The timers that end a TBF whose MS does not answer.
NoTimer == {}
ReleaseTimer == {"T3195"}
------------------------------------------------------------------------------
(* Sending a block.                                                         *)

\* SetPollingBit for the block at index i, and the transmission of the block
\* by SendPdtchMsg when it does not fail.  st is the state of the TBF and ps
\* the polls in flight when SetPollingBit is called, T the timers started
\* before, q the messages left in the queue; n is the number of the block and
\* last whether it is the last one.
SetPollingBit(n, last, ts, st, ps, T, q) ==
    LET count == IF numBlocksSincePoll > 0 THEN numBlocksSincePoll - 1 ELSE 0
        pollTs == ts \in PollTs
        polled == pollTs /\ (last \/ count = 0)
        failed == polled /\ n3105 >= N3105_MAX
        sent == ~failed /\ (last => pollTs)
    IN \E heard \in Hears :
        /\ n3105' = IF polled THEN n3105 + 1 ELSE n3105
        /\ numBlocksSincePoll' =
              IF polled /\ ~(last /\ failed) THEN BlocksBetweenPolls
              ELSE IF last THEN numBlocksSincePoll ELSE count
        /\ tbfState' = IF failed THEN "RELEASING"
                       ELSE IF last /\ pollTs THEN "INACTIVE" ELSE st
        /\ timer' = Restarted(T \cup {"Activity"} \cup IF failed THEN ReleaseTimer ELSE {}, {})
        /\ polls' = IF failed THEN Untagged(ps)
                    ELSE IF polled
                    THEN Append(ps, Poll(IF last THEN "last" ELSE "data", last, heard))
                    ELSE ps
        /\ queue' = IF failed THEN UntaggedQueue(q) ELSE q
        /\ lastBlockSentOnPollTs' = (lastBlockSentOnPollTs \/ (last /\ pollTs /\ ~failed))
        /\ got' = IF sent /\ heard THEN got \cup {n} ELSE got
        /\ msVR' = IF sent /\ heard /\ n >= msVR THEN n + 1 ELSE msVR
        /\ dataRTS' = [dataRTS EXCEPT ![ts] = IF sent THEN 0 ELSE 1]

\* RetransmitNackedDLRlcBlock: the oldest NACKED block is sent again.
RetransmitNacked(ts, q) ==
    /\ rlcMode = "ACK" /\ Nacked # {}
    /\ LET i == FirstFrom(vA, Nacked) IN
        /\ vB' = [vB EXCEPT ![i] = "PENDING_ACK"]
        /\ SetPollingBit(SeqAt(i), i = lastDataBlock, ts, tbfState, polls,
                         IF i = lastDataBlock THEN {"T3191"} ELSE {}, q)
    /\ lastPendingAckXmit' = vA
    /\ UNCHANGED <<vS, pDlBlocks, pool, lastDataBlock, built, pduQueue, fault>>

\* BuildDLRlcBlock with SegmentLLCPdu, GetNextLLCPdu and ReallocateDLResources:
\* the next block is taken from the pool and filled.  It may use up the current
\* LLC PDU and take f more from BSSGP; final says that it ends the last of
\* them, with none left.  For a PDU taken the scheduler may change the
\* timeslots (realloc), which puts the TBF in REALLOCATING.
BuildDLRlcBlock(ts, q) ==
    /\ rlcMode = "ACK" => Nacked = {}
    /\ lastDataBlock = LAST_BLOCK_UNKNOWN /\ ~Stalled
    /\ LET avail == pool \cup Freed
       IN IF avail = {}
          THEN /\ fault' = TRUE
               /\ queue' = q
               /\ UNCHANGED <<vS, vB, pDlBlocks, pool, lastDataBlock, built, pduQueue, n3105,
                              numBlocksSincePoll, tbfState, timer, polls,
                              lastBlockSentOnPollTs, msVars, dataRTS>>
          ELSE \E b \in avail, f \in 0 .. pduQueue, final, realloc \in BOOLEAN :
                /\ final => f = pduQueue
                /\ built + 1 >= MaxBlocks => final
                /\ realloc => f > 0
                /\ pool' = avail \ {b}
                /\ pDlBlocks' = [pDlBlocks EXCEPT ![vS] = b]
                /\ vB' = [vB EXCEPT ![vS] = "PENDING_ACK"]
                /\ vS' = Inc(vS)
                /\ lastDataBlock' = IF final THEN vS ELSE lastDataBlock
                /\ built' = built + 1
                /\ pduQueue' = pduQueue - f
                /\ \E heard \in Hears :
                    SetPollingBit(built, final, ts,
                        IF realloc THEN "REALLOCATING" ELSE tbfState,
                        IF realloc THEN Append(polls, Poll("assign", TRUE, heard)) ELSE polls,
                        IF final THEN {"T3191"} ELSE {}, q)
                /\ UNCHANGED fault
    /\ UNCHANGED lastPendingAckXmit

\* RetransmitPendingAckDLRlcBlock: nothing is NACKED and no block can be built,
\* so a block that waits for its acknowledgement is sent again; the last block
\* is, when it was not yet sent on a polling timeslot or nothing else waits.
RetransmitPendingAck(ts, q) ==
    /\ rlcMode = "ACK" /\ Nacked = {}
    /\ lastDataBlock # LAST_BLOCK_UNKNOWN \/ Stalled
    /\ LET lastFirst == lastDataBlock # LAST_BLOCK_UNKNOWN /\ ~lastBlockSentOnPollTs
           scan == ~lastFirst /\ Pending # {}
           i == IF scan THEN FirstFrom(lastPendingAckXmit, Pending) ELSE lastDataBlock
           T == IF i = lastDataBlock THEN {"T3191"} ELSE {}
       IN /\ scan \/ lastDataBlock # LAST_BLOCK_UNKNOWN
          /\ lastPendingAckXmit' = IF ~scan THEN lastPendingAckXmit
                                   ELSE IF Inc(i) = vS THEN vA ELSE Inc(i)
          /\ IF pDlBlocks[i] = Null
             THEN /\ timer' = Restarted(T \cup {"Activity"}, {})
                  /\ dataRTS' = [dataRTS EXCEPT ![ts] = 1]
                  /\ queue' = q
                  /\ UNCHANGED <<n3105, numBlocksSincePoll, tbfState, polls,
                                 lastBlockSentOnPollTs, msVars>>
             ELSE SetPollingBit(SeqAt(i), i = lastDataBlock, ts, tbfState, polls, T, q)
    /\ UNCHANGED <<vS, vB, pDlBlocks, pool, lastDataBlock, built, pduQueue, fault>>

\* GetDLRlcBlock finds nothing to send.
NothingToSend(ts, q) ==
    /\ lastDataBlock = LAST_BLOCK_UNKNOWN <=> rlcMode = "ACK"
    /\ rlcMode = "ACK" => Nacked = {} /\ Stalled /\ Pending = {}
    /\ timer' = Restarted({"Activity"}, {})
    /\ dataRTS' = [dataRTS EXCEPT ![ts] = 1]
    /\ queue' = q
    /\ UNCHANGED <<vS, vB, pDlBlocks, pool, lastDataBlock, lastPendingAckXmit, built,
                   pduQueue, fault, n3105, numBlocksSincePoll, tbfState, polls,
                   lastBlockSentOnPollTs, msVars>>

\* GetDLRlcBlock for timeslot ts, which has a ready-to-send credit.
GetDLRlcBlock(ts, q) ==
    /\ \/ RetransmitNacked(ts, q)
       \/ BuildDLRlcBlock(ts, q)
       \/ RetransmitPendingAck(ts, q)
       \/ NothingToSend(ts, q)
    /\ UNCHANGED <<rlcMode, vA, assignVars, isT3193Running, offered, gone>>

\* SendDownlinkDataBlock on timeslot ts with a credit: the scheduler only picks
\* a TBF that is ALLOCATED; otherwise the credit is kept.
SendDownlinkDataBlock(ts, q) ==
    \/ tbfState = "ALLOCATED" /\ GetDLRlcBlock(ts, q)
    \/ /\ tbfState # "ALLOCATED"
       /\ dataRTS' = [dataRTS EXCEPT ![ts] = 1]
       /\ queue' = q
       /\ UNCHANGED <<tbfState, linkVars, countVars, assignVars, timerVars, bssgpVars,
                      fault, polls, gone>>

\* The message the task takes from its queue, and the ones it leaves there.
Taken == Head(queue)
Others == Tail(queue)

ProcessPhRTSInd ==
    /\ Taken.type = "rts"
    /\ SendDownlinkDataBlock(Taken.ts, Others)
    /\ UNCHANGED <<kick, alloc>>

\* The loop "Make sure the RTS mechanism is triggered" at the end of a handler:
\* SendDownlinkDataBlock on the next timeslot, if it has a credit.
Kick ==
    /\ kick # {}
    /\ LET ts == CHOOSE t \in kick : \A u \in kick : t <= u IN
        /\ kick' = kick \ {ts}
        /\ UNCHANGED alloc
        /\ \/ dataRTS[ts] = 1 /\ SendDownlinkDataBlock(ts, queue)
           \/ /\ dataRTS[ts] = 0
              /\ UNCHANGED <<tbfState, linkVars, countVars, assignVars, timerVars,
                             bssgpVars, dataRTS, fault, queue, polls, gone>>
------------------------------------------------------------------------------
(* Outcomes of polls.                                                       *)

\* TBF state ALLOCATED, and SendDownlinkDataBlock on every timeslot.
Resume == tbfState' = "ALLOCATED" /\ kick' = Timeslot

\* SendPacketPollingRequest, SendPacketDownlinkAssignment and
\* DLCCCHImmediateAssignment: a message with a control ack tag that asks the MS
\* for a PACKET CONTROL ACKNOWLEDGEMENT.
PollAssignment(ps) ==
    \E heard \in Hears : polls' = Append(ps, Poll("assign", TRUE, heard))

\* SendDLDeactivationMsg, state RELEASING, TLLI and control ack tags scrambled.
InternalReleaseDLTbf ==
    /\ tbfState' = "RELEASING"
    /\ polls' = Untagged(polls)
    /\ queue' = UntaggedQueue(Others)

\* ReceiveDLAckNack with the final ack indication.
FinalAck ==
    /\ vB' = [i \in BSN |-> IF i \in Span(vA, vS) THEN "ACKED" ELSE vB[i]]
    /\ vA' = vS
    /\ timer' = Restarted({"T3193"}, {"T3191"})
    /\ isT3193Running' = TRUE
    /\ alloc' = MoreLLCPdusAvailable
    /\ UNCHANGED <<tbfState, pDlBlocks, pool, lastBlockSentOnPollTs, kick, fault>>

\* ReceiveDLAckNack with a bitmap: V(B) of the blocks below SSN, V(A) moved to
\* the oldest NACKED block, the blocks it passes returned to the pool.  The loop
\* that reads the bitmap stops after V(A): for SSN = V(A) it leaves the bitmap;
\* a block it returns that is not there is a null pointer.
Bitmap(a) ==
    LET W == Span(vA, a.ssn)
        freed == Span(vA, NewVA(a))
    IN IF W = {} \/ \E i \in freed : pDlBlocks[i] = Null
       THEN /\ fault' = TRUE
            /\ UNCHANGED <<tbfState, vB, vA, pDlBlocks, pool, timer, kick,
                           lastBlockSentOnPollTs>>
       ELSE /\ vB' = [i \in BSN |-> IF i \in freed THEN "INVALID"
                                    ELSE IF i \notin W THEN vB[i]
                                    ELSE IF i \in a.rrb THEN "ACKED" ELSE "NACKED"]
            /\ vA' = NewVA(a)
            /\ pDlBlocks' = Forgotten(freed)
            /\ pool' = pool \cup {pDlBlocks[i] : i \in freed}
            /\ timer' = Restarted({}, {"T3191"})
            /\ IF lastDataBlock # LAST_BLOCK_UNKNOWN /\ tbfState # "ALLOCATED"
               THEN Resume /\ lastBlockSentOnPollTs' = FALSE
               ELSE UNCHANGED <<tbfState, kick, lastBlockSentOnPollTs>>
            /\ UNCHANGED fault

\* PACKET DOWNLINK ACK/NACK, which finds the TBF by its TFI.
ReceiveDLAckNack ==
    /\ Taken.answer = "ack_nack"
    /\ tbfState \notin {"FREE", "RELEASING"}
    /\ queue' = Others
    /\ n3105' = 0
    /\ \/ /\ rlcMode = "ACK" /\ Taken.desc.final
          /\ FinalAck
       \/ /\ rlcMode = "ACK" /\ ~Taken.desc.final
          /\ Bitmap(Taken.desc)
          /\ UNCHANGED <<isT3193Running, alloc>>
       \/ /\ rlcMode = "UNACK"
          /\ timer' = Restarted({}, {"T3191"})
          /\ UNCHANGED <<tbfState, vB, vA, pDlBlocks, pool, lastBlockSentOnPollTs,
                         isT3193Running, kick, alloc, fault>>
    /\ UNCHANGED <<rlcMode, vS, lastDataBlock, lastPendingAckXmit, built, msVars,
                   numBlocksSincePoll, assignVars, bssgpVars, dataRTS, polls, gone>>

\* PACKET CONTROL ACKNOWLEDGEMENT, which finds the TBF by the control ack tag.
ReceivePacketControlAck ==
    /\ Taken.answer = "control_ack" /\ Taken.tag
    /\ tbfState # "FREE"
    /\ queue' = Others
    /\ \/ /\ tbfState \in {"ACTIVATING", "REALLOCATING"}
          /\ Resume
          /\ UNCHANGED <<timer, isT3193Running, alloc>>
       \/ /\ tbfState \notin {"ACTIVATING", "REALLOCATING"}
          /\ rlcMode = "UNACK"
          /\ tbfState' = "INACTIVE"
          /\ \/ /\ MoreLLCPdusAvailable
                /\ alloc' = TRUE
                /\ UNCHANGED <<timer, isT3193Running>>
             \/ /\ ~MoreLLCPdusAvailable
                /\ timer' = Restarted({"T3193"}, {})
                /\ isT3193Running' = TRUE
                /\ UNCHANGED alloc
          /\ UNCHANGED kick
       \/ /\ tbfState \notin {"ACTIVATING", "REALLOCATING"}
          /\ rlcMode = "ACK"
          /\ UNCHANGED <<tbfState, timer, isT3193Running, alloc, kick>>
    /\ UNCHANGED <<linkVars, countVars, assignVars, bssgpVars, dataRTS, fault, polls, gone>>

\* The assignment was not acknowledged: first a PACKET POLLING REQUEST, then
\* the assignment again, at most dlAssignCntMax times, then T3195.  To assign
\* again on one timeslot when there were several may fail, which starts T3195.
NackActivating ==
    \/ /\ ~pollOnActivation
       /\ pollOnActivation' = TRUE
       /\ PollAssignment(polls)
       /\ UNCHANGED <<dlAssignCnt, timer>>
    \/ /\ pollOnActivation /\ NextAssignCnt < dlAssignCntMax
       /\ dlAssignCnt' = NextAssignCnt
       /\ pollOnActivation' = FALSE
       /\ PollAssignment(polls)
       /\ \E noTs \in BOOLEAN :
            /\ noTs => Cardinality(Timeslot) > 1
            /\ timer' = Restarted(IF noTs THEN ReleaseTimer ELSE {}, {})
    \/ /\ pollOnActivation /\ NextAssignCnt >= dlAssignCntMax
       /\ dlAssignCnt' = NextAssignCnt
       /\ timer' = Restarted(ReleaseTimer, {})
       /\ UNCHANGED <<pollOnActivation, polls>>

\* The DSP reports that nothing came in answer to a tagged poll.
ReceivePacketControlNack ==
    /\ Taken.answer = "nack" /\ Taken.tag
    /\ tbfState # "FREE"
    /\ \/ /\ tbfState = "ACTIVATING"
          /\ NackActivating
          /\ queue' = Others
          /\ UNCHANGED <<tbfState, lastBlockSentOnPollTs, kick>>
       \/ /\ tbfState = "REALLOCATING" \/ (tbfState # "ACTIVATING" /\ rlcMode = "UNACK")
          /\ InternalReleaseDLTbf
          /\ timer' = Restarted(ReleaseTimer, {})
          /\ UNCHANGED <<lastBlockSentOnPollTs, kick, assignVars>>
       \/ /\ tbfState \notin {"ACTIVATING", "REALLOCATING"} /\ rlcMode = "ACK"
          /\ Resume
          /\ lastBlockSentOnPollTs' = FALSE
          /\ queue' = Others
          /\ UNCHANGED <<timer, assignVars, polls>>
    /\ UNCHANGED <<rlcMode, vS, vA, vB, pDlBlocks, pool, lastDataBlock, lastPendingAckXmit,
                   built, msVars, countVars, isT3193Running, bssgpVars, dataRTS,
                   alloc, fault, gone>>

\* An indication for which no TBF is found, or a PACKET DOWNLINK ACK/NACK for a
\* TBF that is RELEASING.
IgnoreOutcome ==
    /\ \/ tbfState = "FREE"
       \/ Taken.answer # "ack_nack" /\ ~Taken.tag
       \/ Taken.answer = "ack_nack" /\ tbfState = "RELEASING"
    /\ queue' = Others
    /\ UNCHANGED <<tbfState, linkVars, countVars, assignVars, timerVars, bssgpVars,
                   taskVars, polls, gone>>

ReceiveOutcome ==
    /\ Taken.type = "outcome"
    /\ \/ ReceiveDLAckNack
       \/ ReceivePacketControlAck
       \/ ReceivePacketControlNack
       \/ IgnoreOutcome
------------------------------------------------------------------------------
(* Timer expiry and OAM.                                                    *)

\* ProcessT3195Expiry, ProcessT3191Expiry, ProcessT3193Expiry and
\* ProcessActivityTimerExpiry: the TBF becomes FREE and its blocks go back;
\* CheckDLMsgQueues then serves the PDUs that wait.
ProcessExpiry(t) ==
    /\ Taken.type = "expiry" /\ Taken.timer = t
    /\ queue' = Others
    /\ \/ /\ tbfState = "FREE"
          /\ UNCHANGED <<tbfState, pDlBlocks, pool, timer, isT3193Running, alloc>>
       \/ /\ tbfState # "FREE"
          /\ tbfState' = "FREE"
          /\ pDlBlocks' = Forgotten(BSN)
          /\ pool' = pool \cup Held
          /\ timer' = Restarted({}, IF t = "Activity" THEN {} ELSE {t, "Activity"})
          /\ isT3193Running' = (isT3193Running /\ t # "T3193")
          /\ alloc' = MoreLLCPdusAvailable
    /\ UNCHANGED <<rlcMode, vS, vA, vB, lastDataBlock, lastPendingAckXmit,
                   lastBlockSentOnPollTs, built, msVars, countVars, assignVars, bssgpVars,
                   dataRTS, kick, fault, polls, gone>>

\* OAM locks a timeslot, a TRX or the cell (DLRlcLink::AbnormalRelease).
AbnormalRelease ==
    /\ OamLock /\ Idle
    /\ tbfState # "FREE"
    /\ tbfState' = "INACTIVE"
    /\ timer' = Restarted(ReleaseTimer, {})
    /\ UNCHANGED <<linkVars, countVars, assignVars, isT3193Running, bssgpVars,
                   taskVars, queue, polls, gone>>
------------------------------------------------------------------------------
(* AllocateDLResources.                                                     *)

\* What EstablishRLCLink and ReestablishRLCLink have in common.  The blocks that
\* pDlBlocks pointed to are not returned to the pool.
InitRLCLink ==
    /\ rlcMode' \in RlcMode
    /\ vS' = 0 /\ vA' = 0
    /\ vB' = [i \in BSN |-> "INVALID"]
    /\ pDlBlocks' = [i \in BSN |-> Null]
    /\ lastDataBlock' = LAST_BLOCK_UNKNOWN
    /\ lastPendingAckXmit' = 0
    /\ lastBlockSentOnPollTs' = FALSE
    /\ dlAssignCnt' = 0 /\ pollOnActivation' = FALSE
    /\ n3105' = 0 /\ numBlocksSincePoll' = BlocksBetweenPolls
    /\ built' = 0 /\ got' = {} /\ msVR' = 0
    /\ UNCHANGED pool

\* No TBF for this MS: one is established and keeps its resources if the
\* scheduler has any and BSSGP still has a PDU.
EstablishDLTbf(q) ==
    /\ tbfState = "FREE"
    /\ InitRLCLink
    /\ queue' = UntaggedQueue(q)
    /\ timer' = Restarted({"Activity"}, Timer)
    /\ isT3193Running' = FALSE
    /\ \/ /\ pduQueue > 0
          /\ tbfState' = "ACTIVATING"
          /\ pduQueue' = pduQueue - 1
          /\ PollAssignment(Dropped(polls))
       \/ /\ polls' = Dropped(polls)
          /\ UNCHANGED <<tbfState, pduQueue>>

\* The TBF is INACTIVE and T3193 is taken to run: it is used again.
ReestablishDLTbf(q) ==
    /\ tbfState = "INACTIVE" /\ isT3193Running
    /\ InitRLCLink
    /\ queue' = UntaggedQueue(q)
    /\ tbfState' = "ACTIVATING"
    /\ \/ /\ pduQueue > 0
          /\ pduQueue' = pduQueue - 1
          /\ timer' = Restarted({"Activity"}, {"T3195", "T3191", "T3193"})
          /\ isT3193Running' = FALSE
          /\ PollAssignment(Dropped(polls))
       \/ /\ pduQueue = 0
          /\ timer' = Restarted({"Activity"}, {"T3195", "T3191"})
          /\ polls' = Dropped(polls)
          /\ UNCHANGED <<isT3193Running, pduQueue>>

\* The TBF goes on (it takes the PDU itself), or its TLLI is scrambled and
\* another TBF object serves the PDUs.
LeaveDLTbf(q) ==
    /\ tbfState # "FREE" /\ ~(tbfState = "INACTIVE" /\ isT3193Running)
    /\ pduQueue' \in IF tbfState = "RELEASING" THEN 0 .. pduQueue ELSE {pduQueue}
    /\ queue' = q
    /\ UNCHANGED <<tbfState, linkVars, countVars, assignVars, timer, isT3193Running, polls>>

AllocateDLResources(q) ==
    /\ EstablishDLTbf(q) \/ ReestablishDLTbf(q) \/ LeaveDLTbf(q)
    /\ UNCHANGED <<offered, dataRTS, kick, fault, gone>>

\* The message RLCMAC_DL_PDU_REQ.
DLPduReq ==
    /\ Taken.type = "pdu_req"
    /\ AllocateDLResources(Others)
    /\ UNCHANGED alloc

\* AllocateDLResources at the end of a handler.
Allocate ==
    /\ alloc
    /\ alloc' = FALSE
    /\ AllocateDLResources(queue)
------------------------------------------------------------------------------
Init ==
    /\ tbfState = "FREE"
    /\ rlcMode \in RlcMode
    /\ vS = 0 /\ vA = 0
    /\ vB = [i \in BSN |-> "INVALID"]
    /\ pDlBlocks = [i \in BSN |-> Null]
    /\ pool = Block
    /\ lastDataBlock = LAST_BLOCK_UNKNOWN
    /\ lastPendingAckXmit = 0
    /\ lastBlockSentOnPollTs = FALSE
    /\ built = 0 /\ got = {} /\ msVR = 0
    /\ n3105 = 0 /\ numBlocksSincePoll = BlocksBetweenPolls
    /\ dlAssignCnt = 0 /\ pollOnActivation = FALSE
    /\ timer = [t \in Timer |-> FALSE] /\ isT3193Running = FALSE
    /\ pduQueue = 0 /\ offered = 0
    /\ dataRTS = [ts \in Timeslot |-> 1]
    /\ kick = {} /\ alloc = FALSE /\ fault = FALSE
    /\ queue = <<>> /\ polls = <<>> /\ gone = FALSE

\* RlcMacLoop: one message at a time.
HandleMessage ==
    /\ Idle /\ queue # <<>>
    /\ \/ ProcessPhRTSInd
       \/ ReceiveOutcome
       \/ \E t \in Timer : ProcessExpiry(t)
       \/ DLPduReq

Next ==
    /\ ~fault
    /\ \/ PollEnds
       \/ \E ts \in Timeslot : DspReady(ts)
       \/ MSLeaves
       \/ BssgpOffer
       \/ \E t \in Timer : TimerExpiry(t)
       \/ HandleMessage
       \/ Kick
       \/ Allocate
       \/ AbnormalRelease

Spec == Init /\ [][Next]_vars

\* The task handles its messages and finishes what it has begun; the DSP asks for
\* blocks and reports on every poll; a timer that is not restarted expires.
\* While data can be sent the Activity timer and T3191 are restarted, so they are
\* only assumed to expire once the DSP has no credit to give and no poll is open.
Quiet == Idle /\ queue = <<>> /\ polls = <<>> /\ \A ts \in Timeslot : dataRTS[ts] = 1
Fairness ==
    /\ WF_vars(~fault /\ (HandleMessage \/ Kick \/ Allocate))
    /\ WF_vars(~fault /\ PollEnds)
    /\ \A ts \in Timeslot : WF_vars(~fault /\ DspReady(ts))
    /\ \A t \in {"T3193", "T3195"} : WF_vars(~fault /\ TimerExpiry(t))
    /\ \A t \in {"T3191", "Activity"} : WF_vars(~fault /\ Quiet /\ TimerExpiry(t))
FairSpec == Spec /\ Fairness
------------------------------------------------------------------------------
\* Every index is in range: "++x % RLC_MOD_VAL" wraps in SetPollingBit's callers,
\* BuildDLRlcBlock and the scans of V(B), so the arrays of RLC_MOD_VAL entries are
\* never indexed past their end.
TypeOK ==
    /\ tbfState \in TbfState
    /\ rlcMode \in RlcMode
    /\ vS \in BSN /\ vA \in BSN
    /\ vB \in [BSN -> AckStatus]
    /\ pDlBlocks \in [BSN -> Block \cup {Null}]
    /\ pool \in SUBSET Block
    /\ lastDataBlock \in BSN \cup {LAST_BLOCK_UNKNOWN}
    /\ lastPendingAckXmit \in BSN
    /\ lastBlockSentOnPollTs \in BOOLEAN
    /\ built \in Nat /\ got \in SUBSET Int /\ msVR \in Nat
    /\ n3105 \in Nat /\ numBlocksSincePoll \in Nat
    /\ dlAssignCnt \in Nat /\ pollOnActivation \in BOOLEAN
    /\ timer \in [Timer -> BOOLEAN]
    /\ isT3193Running \in BOOLEAN
    /\ pduQueue \in Nat /\ offered \in Nat
    /\ dataRTS \in [Timeslot -> {0, 1}]
    /\ kick \in SUBSET Timeslot /\ alloc \in BOOLEAN /\ fault \in BOOLEAN
    /\ queue \in Seq(Message) /\ polls \in Seq(PollType) /\ gone \in BOOLEAN

\* A block is never free and in use at once, and never in use at two indices:
\* what ReceiveDLAckNack, BuildDLRlcBlock and the expiry handlers return to
\* sysDlDataBlockPool is returned once (ReturnDLDataBlock makes no check).
PoolOK ==
    /\ \A i \in BSN : pDlBlocks[i] \notin pool
    /\ \A i, j \in BSN : i # j /\ pDlBlocks[i] # Null => pDlBlocks[i] # pDlBlocks[j]

\* In acknowledged mode at most K blocks are outstanding, and each of them is
\* still there to be sent again: RetransmitNackedDLRlcBlock uses pDlBlocks of any
\* index from V(A) to V(S) without a check.
WindowOK ==
    tbfState # "FREE" /\ rlcMode = "ACK" =>
        /\ Dist(vA, vS) <= K
        /\ \A i \in Span(vA, vS) : pDlBlocks[i] # Null /\ vB[i] # "INVALID"

\* The link takes no block as acknowledged that the MS does not have: neither the
\* blocks V(A) has passed (all of them, when T3193 is started) nor those V(B) has
\* as ACKED.
AckSound ==
    rlcMode = "ACK" =>
        /\ 0 .. SeqAt(vA) - 1 \subseteq got
        /\ \A i \in Span(vA, vS) : vB[i] = "ACKED" => SeqAt(i) \in got

\* A null block is used only when the pool has run out, and not before the block
\* whose index is used again has come back; or by a report of the TBF before, or
\* one that repeats V(A), over which the loop in ReceiveDLAckNack runs through all
\* indices.  No other report acknowledges a block that is not there.
FaultCause ==
    [][fault' /\ ~fault =>
          \/ pool = {} /\ (rlcMode = "UNACK" => pDlBlocks[vS] = Null)
          \/ /\ queue # <<>> /\ Taken.type = "outcome" /\ rlcMode = "ACK"
             /\ built = 0 \/ Taken.desc.ssn = vA]_vars

\* A TBF that cannot send and waits for nothing has a timer that ends it, other
\* than the Activity timer, the last resort: every path of the poll outcomes that
\* takes it out of ALLOCATED starts T3191, T3193 or T3195, or leaves one running.
\* The exception is the end of an unacknowledged transfer with a PDU waiting, for
\* which ReceivePacketControlAck starts no T3193 and AllocateDLResources does
\* nothing: T3191 may have been cancelled, and the Activity timer is left.
Watched ==
    tbfState \notin {"FREE", "ALLOCATED"} /\ Quiet =>
        \/ \E t \in Timer \ {"Activity"} : timer[t]
        \/ /\ rlcMode = "UNACK" /\ tbfState = "INACTIVE" /\ pduQueue > 0
           /\ timer["Activity"]

\* When an acknowledged transfer has ended, a PDU that waits for the MS is served,
\* by the poll's outcome or by the request message, whichever comes last.  It waits
\* only for a TBF that is being given up: by the OAM, or because no assignment was
\* answered.
NoPduLeftBehind ==
    rlcMode = "ACK" /\ tbfState = "INACTIVE" /\ Quiet /\ pduQueue > 0 =>
        fault \/ timer["T3195"]

\* A TBF whose MS has left is released.
EndsWhenGone == gone ~> (tbfState = "FREE" \/ fault)
==============================================================================
