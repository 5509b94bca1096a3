--------------------------- MODULE DLRlcLinkProofs ---------------------------
(***************************************************************************)
(* Theorems about one downlink TBF (module DLRlcLink), for every size of   *)
(* the sequence number space, the window, the pool and the bounds: its     *)
(* blocks and its timers first, then its transmit window, which never has  *)
(* more than K blocks outstanding, still has every one of them, and takes  *)
(* none as acknowledged that the MS does not have.                         *)
(***************************************************************************)
EXTENDS DLRlcLink, RlcWindowProofs, Functions

------------------------------------------------------------------------------
(* Types of the values the actions put together.                            *)

\* Clearing the control ack tags keeps polls and messages what they are.
LEMMA UntaggedType ==
  /\ \A ps \in Seq(PollType) : Untagged(ps) \in Seq(PollType) /\ Dropped(ps) \in Seq(PollType)
  /\ \A q \in Seq(Message) : UntaggedQueue(q) \in Seq(Message)
<1>1. ASSUME NEW ps \in Seq(PollType)
      PROVE  Untagged(ps) \in Seq(PollType) /\ Dropped(ps) \in Seq(PollType)
  <2> DEFINE U(p) == [p EXCEPT !.tag = FALSE]
             D(p) == [p EXCEPT !.tag = FALSE, !.heard = FALSE]
  <2>1. \A p \in PollType : U(p) \in PollType /\ D(p) \in PollType
    BY DEF PollType
  <2>2. /\ Untagged(ps) = [i \in DOMAIN ps |-> U(ps[i])]
        /\ Dropped(ps) = [i \in DOMAIN ps |-> D(ps[i])]
    BY DEF Untagged, Dropped
  <2> HIDE DEF U, D
  <2> QED
    BY <2>1, <2>2
<1>2. ASSUME NEW q \in Seq(Message) PROVE UntaggedQueue(q) \in Seq(Message)
  <2>1. \A m \in Message : m.type = "outcome" => [m EXCEPT !.tag = FALSE] \in Message
    BY DEF Message, RtsMessage, OutcomeMessage, PduMessage, ExpiryMessage
  <2>2. \A i \in DOMAIN q : q[i] \in Message
    OBVIOUS
  <2> QED
    BY <2>1, <2>2 DEF UntaggedQueue
<1> QED
  BY <1>1, <1>2

\* A poll built by SetPollingBit or PollAssignment is a poll.
LEMMA PollIn ==
  ASSUME NEW k \in PollKind, NEW t \in BOOLEAN, NEW h \in BOOLEAN
  PROVE  Poll(k, t, h) \in PollType
  BY DEF Poll, PollType

\* The report on a poll is a message the task can take.
LEMMA OutcomeIn ==
  ASSUME NEW p \in PollType, NEW a \in {"nack", "control_ack", "ack_nack"},
         NEW d \in AckNackDescription
  PROVE  OutcomeOf(p, a, d) \in Message
  BY DEF OutcomeOf, PollType, Message, OutcomeMessage

\* The bitmap and SSN the MS reports are sequence numbers.
LEMMA DescriptionIn ==
  ASSUME TypeOK
  PROVE  DownlinkAckNack \in AckNackDescription /\ NoDescription \in AckNackDescription
<1>1. msVR % RLC_MOD_VAL \in BSN
  BY ModType DEF TypeOK
<1>2. {n % RLC_MOD_VAL : n \in {m \in got : m >= msVR - K}} \subseteq BSN
  BY ModType DEF TypeOK
<1>3. 0 \in BSN
  BY WindowAssumption DEF BSN
<1> QED
  BY <1>1, <1>2, <1>3 DEF DownlinkAckNack, NoDescription, AckNackDescription

\* Setting and cancelling timers leaves every timer running or not.
LEMMA RestartedType == \A on, off : Restarted(on, off) \in [Timer -> BOOLEAN]
  BY DEF Restarted

\* The block number of an index is an integer.
LEMMA SeqAtType == ASSUME TypeOK, NEW i \in BSN PROVE SeqAt(i) \in Int
  BY SMTT(30), DistType, WindowAssumption DEF TypeOK, SeqAt

\* The radio delivers a block or loses it.
LEMMA HearsType == TypeOK => Hears \subseteq BOOLEAN
  BY DEF TypeOK, Hears

\* The sequences the handlers take their messages from and add polls to.
LEMMA SeqFacts ==
  ASSUME TypeOK
  PROVE  /\ queue # <<>> => Taken \in Message /\ Others \in Seq(Message)
         /\ polls # <<>> => Head(polls) \in PollType /\ Tail(polls) \in Seq(PollType)
         /\ \A q \in Seq(Message), x \in Message : Append(q, x) \in Seq(Message)
         /\ \A ps \in Seq(PollType), p \in PollType : Append(ps, p) \in Seq(PollType)
<1> USE DEF TypeOK
<1>1. queue # <<>> => Taken \in Message /\ Others \in Seq(Message)
  BY DEF Taken, Others
<1>2. polls # <<>> => Head(polls) \in PollType /\ Tail(polls) \in Seq(PollType)
  OBVIOUS
<1> QED
  BY <1>1, <1>2
------------------------------------------------------------------------------
(* Every action keeps the types.                                            *)

\* The variables that SetPollingBit and the transmission of a block assign, and
\* those that the functions that pick the block assign.
SentTypeOK ==
    /\ n3105 \in Nat /\ numBlocksSincePoll \in Nat
    /\ tbfState \in TbfState
    /\ timer \in [Timer -> BOOLEAN]
    /\ polls \in Seq(PollType) /\ queue \in Seq(Message)
    /\ lastBlockSentOnPollTs \in BOOLEAN
    /\ got \in SUBSET Int /\ msVR \in Nat
    /\ dataRTS \in [Timeslot -> {0, 1}]
PickTypeOK ==
    /\ vS \in BSN
    /\ vB \in [BSN -> AckStatus]
    /\ pDlBlocks \in [BSN -> Block \cup {Null}]
    /\ pool \in SUBSET Block
    /\ lastDataBlock \in BSN \cup {LAST_BLOCK_UNKNOWN}
    /\ lastPendingAckXmit \in BSN
    /\ built \in Nat /\ pduQueue \in Nat /\ fault \in BOOLEAN

\* SetPollingBit keeps counters, polls, queue and timers in their types.
LEMMA SetPollingBitType ==
  ASSUME TypeOK,
         NEW n \in Int, NEW last \in BOOLEAN, NEW ts \in Timeslot, NEW st \in TbfState,
         NEW ps \in Seq(PollType), NEW T, NEW q \in Seq(Message),
         SetPollingBit(n, last, ts, st, ps, T, q)
  PROVE  SentTypeOK'
<1> DEFINE count == IF numBlocksSincePoll > 0 THEN numBlocksSincePoll - 1 ELSE 0
           pollTs == ts \in PollTs
           polled == pollTs /\ (last \/ count = 0)
           failed == polled /\ n3105 >= N3105_MAX
           sent == ~failed /\ (last => pollTs)
<1>1. PICK heard \in Hears :
        /\ n3105' = IF polled THEN n3105 + 1 ELSE n3105
        /\ numBlocksSincePoll' =
              IF polled /\ ~(last /\ failed) THEN BlocksBetweenPolls
              ELSE IF last THEN numBlocksSincePoll ELSE count
        /\ tbfState' = IF failed THEN "RELEASING"
                       ELSE IF last /\ pollTs THEN "INACTIVE" ELSE st
        /\ timer' = Restarted(T \cup {"Activity"} \cup IF failed THEN ReleaseTimer ELSE {}, {})
        /\ polls' = IF failed THEN Untagged(ps)
                    ELSE IF polled
                    THEN Append(ps, Poll(IF last THEN "last" ELSE "data", last, heard))
                    ELSE ps
        /\ queue' = IF failed THEN UntaggedQueue(q) ELSE q
        /\ lastBlockSentOnPollTs' = (lastBlockSentOnPollTs \/ (last /\ pollTs /\ ~failed))
        /\ got' = IF sent /\ heard THEN got \cup {n} ELSE got
        /\ msVR' = IF sent /\ heard /\ n >= msVR THEN n + 1 ELSE msVR
        /\ dataRTS' = [dataRTS EXCEPT ![ts] = IF sent THEN 0 ELSE 1]
  BY Zenon DEF SetPollingBit
<1>2. heard \in BOOLEAN
  BY HearsType
<1>3. polls' \in Seq(PollType)
  <2> DEFINE p == Poll(IF last THEN "last" ELSE "data", last, heard)
  <2>1. p \in PollType
    BY <1>2, PollIn DEF PollKind
  <2>2. Append(ps, p) \in Seq(PollType) /\ Untagged(ps) \in Seq(PollType)
    BY <2>1, SeqFacts, UntaggedType
  <2> HIDE DEF p, failed, polled
  <2>3. polls' = IF failed THEN Untagged(ps) ELSE IF polled THEN Append(ps, p) ELSE ps
    BY <1>1 DEF p
  <2> QED
    BY <2>2, <2>3
<1>4. queue' \in Seq(Message)
  BY <1>1, UntaggedType
<1>5. timer' \in [Timer -> BOOLEAN]
  BY <1>1, RestartedType
<1> HIDE DEF sent, failed, polled
<1>6. n3105' \in Nat /\ numBlocksSincePoll' \in Nat
  BY <1>1, DLAssumption DEF TypeOK
<1>7. tbfState' \in TbfState
  BY <1>1 DEF TbfState
<1>8. lastBlockSentOnPollTs' \in BOOLEAN
  BY <1>1, Zenon
<1>9. got' \in SUBSET Int /\ msVR' \in Nat
  BY <1>1 DEF TypeOK
<1>10. dataRTS' \in [Timeslot -> {0, 1}]
  BY <1>1 DEF TypeOK
<1> QED
  BY <1>3, <1>4, <1>5, <1>6, <1>7, <1>8, <1>9, <1>10 DEF SentTypeOK

\* RetransmitNackedDLRlcBlock keeps what it sends in its types.
LEMMA RetransmitNackedType ==
  ASSUME TypeOK, NEW ts \in Timeslot, NEW q \in Seq(Message), RetransmitNacked(ts, q)
  PROVE  SentTypeOK' /\ PickTypeOK'
<1> DEFINE i == FirstFrom(vA, Nacked)
<1>1. i \in BSN
  <2>1. Nacked \in SUBSET BSN /\ Nacked # {} /\ vA \in BSN
    BY SpanType, Zenon DEF RetransmitNacked, Nacked, TypeOK
  <2> QED
    BY <2>1, FirstFromIn, Zenon
<1> HIDE DEF i
<1>2. SetPollingBit(SeqAt(i), i = lastDataBlock, ts, tbfState, polls,
                    IF i = lastDataBlock THEN {"T3191"} ELSE {}, q)
  BY DEF RetransmitNacked, i
<1>3. SeqAt(i) \in Int
  BY <1>1, SeqAtType
<1>4. PickTypeOK'
  BY <1>1 DEF RetransmitNacked, i, TypeOK, AckStatus, PickTypeOK
<1>5. tbfState \in TbfState /\ polls \in Seq(PollType) /\ (i = lastDataBlock) \in BOOLEAN
  BY DEF TypeOK
<1> QED
  BY <1>2, <1>3, <1>4, <1>5, SetPollingBitType

\* BuildDLRlcBlock wraps V(S) and stores a block of the pool.
LEMMA BuildDLRlcBlockType ==
  ASSUME TypeOK, NEW ts \in Timeslot, NEW q \in Seq(Message), BuildDLRlcBlock(ts, q)
  PROVE  SentTypeOK' /\ PickTypeOK'
<1> DEFINE avail == pool \cup Freed
<1>1. avail \in SUBSET Block
  BY DEF TypeOK, Freed
<1>2. CASE avail = {}
  BY <1>2 DEF BuildDLRlcBlock, TypeOK, SentTypeOK, PickTypeOK, msVars
<1>3. CASE avail # {}
  <2>1. PICK b \in avail, f \in 0 .. pduQueue, final \in BOOLEAN, realloc \in BOOLEAN :
          /\ pool' = avail \ {b}
          /\ pDlBlocks' = [pDlBlocks EXCEPT ![vS] = b]
          /\ vB' = [vB EXCEPT ![vS] = "PENDING_ACK"]
          /\ vS' = Inc(vS)
          /\ lastDataBlock' = IF final THEN vS ELSE lastDataBlock
          /\ built' = built + 1
          /\ pduQueue' = pduQueue - f
          /\ \E heard \in Hears :
                SetPollingBit(built, final, ts,
                    IF realloc THEN "REALLOCATING" ELSE tbfState,
                    IF realloc THEN Append(polls, Poll("assign", TRUE, heard)) ELSE polls,
                    IF final THEN {"T3191"} ELSE {}, q)
          /\ UNCHANGED fault
    BY <1>3, Zenon DEF BuildDLRlcBlock
  <2>2. PICK heard \in Hears :
          SetPollingBit(built, final, ts,
              IF realloc THEN "REALLOCATING" ELSE tbfState,
              IF realloc THEN Append(polls, Poll("assign", TRUE, heard)) ELSE polls,
              IF final THEN {"T3191"} ELSE {}, q)
    BY <2>1
  <2>3. Poll("assign", TRUE, heard) \in PollType
    BY HearsType, PollIn DEF PollKind
  <2>4. /\ (IF realloc THEN Append(polls, Poll("assign", TRUE, heard)) ELSE polls) \in Seq(PollType)
        /\ (IF realloc THEN "REALLOCATING" ELSE tbfState) \in TbfState
        /\ built \in Int
    <3> DEFINE a == Append(polls, Poll("assign", TRUE, heard))
    <3>1. a \in Seq(PollType) /\ polls \in Seq(PollType)
      BY <2>3, SeqFacts DEF TypeOK
    <3>2. tbfState \in TbfState /\ "REALLOCATING" \in TbfState /\ built \in Int
      BY DEF TypeOK, TbfState
    <3> HIDE DEF a
    <3>3. (IF realloc THEN a ELSE polls) \in Seq(PollType)
      BY <3>1
    <3>4. (IF realloc THEN "REALLOCATING" ELSE tbfState) \in TbfState
      BY <3>2
    <3> QED
      BY <3>2, <3>3, <3>4 DEF a
  <2>5. SentTypeOK'
    BY <2>2, <2>4, SetPollingBitType
  <2>6. PickTypeOK'
    <3>1. b \in Block /\ vS \in BSN /\ Inc(vS) \in BSN
      BY <1>1, IncType DEF TypeOK
    <3>2. lastPendingAckXmit' = lastPendingAckXmit
      BY DEF BuildDLRlcBlock
    <3> HIDE DEF avail
    <3> QED
      BY <1>1, <2>1, <3>1, <3>2 DEF TypeOK, PickTypeOK, AckStatus
  <2> QED
    BY <2>5, <2>6
<1> QED
  BY <1>2, <1>3

\* RetransmitPendingAckDLRlcBlock keeps lastPendingAckXmit an index.
LEMMA RetransmitPendingAckType ==
  ASSUME TypeOK, NEW ts \in Timeslot, NEW q \in Seq(Message), RetransmitPendingAck(ts, q)
  PROVE  SentTypeOK' /\ PickTypeOK'
<1> DEFINE lastFirst == lastDataBlock # LAST_BLOCK_UNKNOWN /\ ~lastBlockSentOnPollTs
           scan == ~lastFirst /\ Pending # {}
           i == IF scan THEN FirstFrom(lastPendingAckXmit, Pending) ELSE lastDataBlock
           T == IF i = lastDataBlock THEN {"T3191"} ELSE {}
<1>1. /\ scan \/ lastDataBlock # LAST_BLOCK_UNKNOWN
      /\ lastPendingAckXmit' = IF ~scan THEN lastPendingAckXmit
                               ELSE IF Inc(i) = vS THEN vA ELSE Inc(i)
      /\ \/ /\ timer' = Restarted(T \cup {"Activity"}, {})
            /\ dataRTS' = [dataRTS EXCEPT ![ts] = 1]
            /\ queue' = q
            /\ UNCHANGED <<n3105, numBlocksSincePoll, tbfState, polls,
                           lastBlockSentOnPollTs, msVars>>
         \/ SetPollingBit(SeqAt(i), i = lastDataBlock, ts, tbfState, polls, T, q)
      /\ UNCHANGED <<vS, vB, pDlBlocks, pool, lastDataBlock, built, pduQueue, fault>>
  BY Zenon DEF RetransmitPendingAck
<1>2. i \in BSN
  <2>1. scan => FirstFrom(lastPendingAckXmit, Pending) \in BSN
    <3>1. Pending \in SUBSET BSN /\ lastPendingAckXmit \in BSN
      BY SpanType, Zenon DEF Pending, TypeOK
    <3>2. Pending # {} => FirstFrom(lastPendingAckXmit, Pending) \in Pending
      BY <3>1, FirstFromIn, Zenon
    <3> QED
      BY <3>1, <3>2, Zenon
  <2> HIDE DEF scan
  <2> QED
    BY <1>1, <2>1 DEF TypeOK
<1> HIDE DEF i, scan, T
<1>3. PickTypeOK'
  BY <1>1, <1>2, IncType DEF TypeOK, PickTypeOK
<1>4. CASE SetPollingBit(SeqAt(i), i = lastDataBlock, ts, tbfState, polls, T, q)
  <2>1. /\ SeqAt(i) \in Int
        /\ tbfState \in TbfState /\ polls \in Seq(PollType) /\ (i = lastDataBlock) \in BOOLEAN
    BY <1>2, SeqAtType DEF TypeOK
  <2> QED
    BY <1>3, <1>4, <2>1, SetPollingBitType
<1>5. CASE /\ timer' = Restarted(T \cup {"Activity"}, {})
           /\ dataRTS' = [dataRTS EXCEPT ![ts] = 1]
           /\ queue' = q
           /\ UNCHANGED <<n3105, numBlocksSincePoll, tbfState, polls,
                          lastBlockSentOnPollTs, msVars>>
  BY <1>3, <1>5, RestartedType DEF TypeOK, SentTypeOK, msVars
<1> QED
  BY <1>1, <1>4, <1>5

\* A timeslot without a block to send keeps its credit.
LEMMA NothingToSendType ==
  ASSUME TypeOK, NEW ts \in Timeslot, NEW q \in Seq(Message), NothingToSend(ts, q)
  PROVE  SentTypeOK' /\ PickTypeOK'
  BY RestartedType DEF NothingToSend, TypeOK, SentTypeOK, PickTypeOK, msVars

\* SendDownlinkDataBlock, whichever block it picks, keeps the types.
LEMMA SendDownlinkDataBlockType ==
  ASSUME TypeOK, NEW ts \in Timeslot, NEW q \in Seq(Message), SendDownlinkDataBlock(ts, q),
         (kick \in SUBSET Timeslot /\ alloc \in BOOLEAN)'
  PROVE  TypeOK'
<1>1. CASE GetDLRlcBlock(ts, q)
  <2>1. SentTypeOK' /\ PickTypeOK'
    BY <1>1, RetransmitNackedType, BuildDLRlcBlockType, RetransmitPendingAckType,
       NothingToSendType DEF GetDLRlcBlock
  <2> QED
    BY <1>1, <2>1 DEF GetDLRlcBlock, TypeOK, SentTypeOK, PickTypeOK, assignVars
<1>2. CASE ~GetDLRlcBlock(ts, q)
  BY <1>2 DEF SendDownlinkDataBlock, TypeOK, linkVars, msVars, countVars, assignVars,
     timerVars, bssgpVars
<1> QED
  BY <1>1, <1>2

\* V(A), moved by a bitmap, is an index.
LEMMA NewVAType ==
  ASSUME TypeOK, NEW a \in AckNackDescription
  PROVE  NewVA(a) \in BSN
<1> DEFINE S == Span(vA, a.ssn) \ a.rrb
<1>1. a.ssn \in BSN /\ vA \in BSN /\ S \in SUBSET BSN
  BY SpanType DEF AckNackDescription, TypeOK
<1>2. S # {} => FirstFrom(vA, S) \in BSN
  BY <1>1, FirstFromIn
<1>3. NewVA(a) = IF S = {} THEN a.ssn ELSE FirstFrom(vA, S)
  BY DEF NewVA
<1> QED
  BY <1>1, <1>2, <1>3

\* ReceiveDLAckNack preserves TypeOK.
LEMMA AckNackType ==
  ASSUME TypeOK, queue # <<>>, Taken.type = "outcome", ReceiveDLAckNack
  PROVE  TypeOK'
<1> USE DEF TypeOK
<1>1. Taken.desc \in AckNackDescription /\ Others \in Seq(Message)
  BY SeqFacts DEF Message, RtsMessage, OutcomeMessage, PduMessage, ExpiryMessage
<1>2. CASE FinalAck /\ UNCHANGED <<lastBlockSentOnPollTs>>
  BY <1>1, <1>2, RestartedType DEF ReceiveDLAckNack, FinalAck, AckStatus, assignVars,
     bssgpVars, msVars, MoreLLCPdusAvailable
<1>3. CASE Bitmap(Taken.desc) /\ UNCHANGED <<isT3193Running, alloc>>
  <2> DEFINE a == Taken.desc
             W == Span(vA, a.ssn)
             freed == Span(vA, NewVA(a))
  <2>1. NewVA(a) \in BSN
    BY <1>1, NewVAType
  <2> HIDE DEF a
  <2>2. CASE fault' = TRUE /\ UNCHANGED <<tbfState, vB, vA, pDlBlocks, pool, timer, kick,
                                          lastBlockSentOnPollTs>>
    BY <1>1, <1>3, <2>2 DEF ReceiveDLAckNack, assignVars, bssgpVars, msVars
  <2>3. CASE /\ vB' = [i \in BSN |-> IF i \in freed THEN "INVALID"
                                    ELSE IF i \notin W THEN vB[i]
                                    ELSE IF i \in a.rrb THEN "ACKED" ELSE "NACKED"]
             /\ vA' = NewVA(a)
             /\ pDlBlocks' = Forgotten(freed)
             /\ pool' = pool \cup {pDlBlocks[i] : i \in freed}
             /\ \A i \in freed : pDlBlocks[i] # Null
             /\ timer' = Restarted({}, {"T3191"})
             /\ IF lastDataBlock # LAST_BLOCK_UNKNOWN /\ tbfState # "ALLOCATED"
                THEN Resume /\ lastBlockSentOnPollTs' = FALSE
                ELSE UNCHANGED <<tbfState, kick, lastBlockSentOnPollTs>>
             /\ UNCHANGED fault
    <3>1. freed \subseteq BSN
      BY SpanType
    <3> HIDE DEF freed, W
    <3>2. vB' \in [BSN -> AckStatus] /\ vA' \in BSN /\ timer' \in [Timer -> BOOLEAN]
      BY <2>1, <2>3, RestartedType DEF AckStatus
    <3>3. pDlBlocks' \in [BSN -> Block \cup {Null}] /\ pool' \in SUBSET Block
      BY <2>3, <3>1 DEF Forgotten
    <3>4. tbfState' \in TbfState /\ kick' \in SUBSET Timeslot /\ lastBlockSentOnPollTs' \in BOOLEAN
      BY <2>3 DEF Resume, TbfState
    <3> QED
      BY <1>1, <1>3, <2>3, <3>2, <3>3, <3>4 DEF ReceiveDLAckNack, assignVars, bssgpVars, msVars
  <2> QED
    BY <1>3, <2>2, <2>3 DEF Bitmap, a
<1>4. CASE /\ timer' = Restarted({}, {"T3191"})
           /\ UNCHANGED <<tbfState, vB, vA, pDlBlocks, pool, lastBlockSentOnPollTs,
                          isT3193Running, kick, alloc, fault>>
  BY <1>1, <1>4, RestartedType DEF ReceiveDLAckNack, assignVars, bssgpVars, msVars
<1> QED
  BY <1>2, <1>3, <1>4 DEF ReceiveDLAckNack, FinalAck

\* ReceivePacketControlAck preserves TypeOK.
LEMMA ControlAckType ==
  ASSUME TypeOK, queue # <<>>, ReceivePacketControlAck
  PROVE  TypeOK'
<1> USE DEF TypeOK
<1>1. queue' \in Seq(Message)
  BY SeqFacts DEF ReceivePacketControlAck
<1>2. tbfState' \in TbfState /\ kick' \in SUBSET Timeslot
  BY DEF ReceivePacketControlAck, Resume, TbfState
<1>3. timer' \in [Timer -> BOOLEAN]
  BY RestartedType DEF ReceivePacketControlAck
<1>4. isT3193Running' \in BOOLEAN /\ alloc' \in BOOLEAN
  BY Zenon DEF ReceivePacketControlAck
<1> QED
  BY <1>1, <1>2, <1>3, <1>4 DEF ReceivePacketControlAck, linkVars, msVars, countVars,
     assignVars, bssgpVars

\* An assignment with a poll keeps the polls well formed.
LEMMA PollAssignmentType ==
  ASSUME TypeOK, NEW ps \in Seq(PollType), PollAssignment(ps)
  PROVE  polls' \in Seq(PollType)
<1>1. PICK heard \in Hears : polls' = Append(ps, Poll("assign", TRUE, heard))
  BY DEF PollAssignment
<1>2. Poll("assign", TRUE, heard) \in PollType
  BY HearsType, PollIn DEF PollKind
<1> QED
  BY <1>1, <1>2, SeqFacts

\* ReceivePacketControlNack preserves TypeOK.
LEMMA ControlNackType ==
  ASSUME TypeOK, queue # <<>>, ReceivePacketControlNack
  PROVE  TypeOK'
<1> USE DEF TypeOK
<1>1. Others \in Seq(Message) /\ UntaggedQueue(Others) \in Seq(Message)
      /\ Untagged(polls) \in Seq(PollType)
  BY SeqFacts, UntaggedType
<1>2. /\ rlcMode' \in RlcMode /\ vS' \in BSN /\ vA' \in BSN /\ vB' \in [BSN -> AckStatus]
      /\ pDlBlocks' \in [BSN -> Block \cup {Null}] /\ pool' \in SUBSET Block
      /\ lastDataBlock' \in BSN \cup {LAST_BLOCK_UNKNOWN} /\ lastPendingAckXmit' \in BSN
      /\ built' \in Nat /\ got' \in SUBSET Int /\ msVR' \in Nat
      /\ n3105' \in Nat /\ numBlocksSincePoll' \in Nat /\ isT3193Running' \in BOOLEAN
      /\ pduQueue' \in Nat /\ offered' \in Nat /\ dataRTS' \in [Timeslot -> {0, 1}]
      /\ alloc' \in BOOLEAN /\ fault' \in BOOLEAN /\ gone' \in BOOLEAN
  BY DEF ReceivePacketControlNack, msVars, countVars, bssgpVars
<1>3. CASE /\ NackActivating
           /\ queue' = Others
           /\ UNCHANGED <<tbfState, lastBlockSentOnPollTs, kick>>
  <2>1. polls' \in Seq(PollType)
    BY <1>3, PollAssignmentType DEF NackActivating
  <2>2. /\ dlAssignCnt' \in Nat /\ pollOnActivation' \in BOOLEAN
        /\ timer' \in [Timer -> BOOLEAN]
    <3>1. dlAssignCnt' \in {dlAssignCnt, NextAssignCnt}
      BY <1>3, Zenon DEF NackActivating
    <3>2. pollOnActivation' \in {TRUE, FALSE, pollOnActivation}
      BY <1>3, Zenon DEF NackActivating
    <3>3. timer' = timer \/ \E on : timer' = Restarted(on, {})
      BY <1>3, Zenon DEF NackActivating
    <3> QED
      <4>1. dlAssignCnt' \in Nat
        BY <3>1 DEF NextAssignCnt
      <4>2. pollOnActivation' \in BOOLEAN
        BY <3>2
      <4>3. timer' \in [Timer -> BOOLEAN]
        BY <3>3, RestartedType
      <4> QED
        BY <4>1, <4>2, <4>3
  <2> QED
    BY <1>1, <1>2, <1>3, <2>1, <2>2
<1>4. CASE /\ InternalReleaseDLTbf
           /\ timer' = Restarted(ReleaseTimer, {})
           /\ UNCHANGED <<lastBlockSentOnPollTs, kick, assignVars>>
  BY <1>1, <1>2, <1>4, RestartedType DEF InternalReleaseDLTbf, TbfState, assignVars
<1>5. CASE /\ Resume
           /\ lastBlockSentOnPollTs' = FALSE
           /\ queue' = Others
           /\ UNCHANGED <<timer, assignVars, polls>>
  BY <1>1, <1>2, <1>5 DEF Resume, TbfState, assignVars
<1> QED
  BY <1>3, <1>4, <1>5 DEF ReceivePacketControlNack

\* Every outcome of a poll preserves TypeOK.
LEMMA OutcomeType ==
  ASSUME TypeOK, queue # <<>>, ReceiveOutcome
  PROVE  TypeOK'
<1>1. CASE IgnoreOutcome
  <2>1. Others \in Seq(Message)
    BY SeqFacts
  <2> QED
    BY <1>1, <2>1 DEF IgnoreOutcome, TypeOK, linkVars, msVars, countVars, assignVars,
       timerVars, bssgpVars, taskVars
<1> QED
  BY <1>1, AckNackType, ControlAckType, ControlNackType DEF ReceiveOutcome

\* The expiry handlers preserve TypeOK.
LEMMA ExpiryType ==
  ASSUME TypeOK, queue # <<>>, NEW t \in Timer, ProcessExpiry(t)
  PROVE  TypeOK'
<1> USE DEF TypeOK
<1>1. queue' \in Seq(Message)
  BY SeqFacts DEF ProcessExpiry
<1>2. tbfState' \in TbfState
  BY DEF ProcessExpiry, TbfState
<1>3. pDlBlocks' \in [BSN -> Block \cup {Null}] /\ pool' \in SUBSET Block
  BY DEF ProcessExpiry, Forgotten, Held
<1>4. timer' \in [Timer -> BOOLEAN]
  BY RestartedType DEF ProcessExpiry
<1>5. isT3193Running' \in BOOLEAN
  BY DEF ProcessExpiry
<1>6. alloc' \in BOOLEAN
  <2>1. MoreLLCPdusAvailable \in BOOLEAN
    BY DEF MoreLLCPdusAvailable
  <2> QED
    BY <2>1, Zenon DEF ProcessExpiry
<1> QED
  BY <1>1, <1>2, <1>3, <1>4, <1>5, <1>6 DEF ProcessExpiry, msVars, countVars, assignVars, bssgpVars

\* AllocateDLResources, called with any rest of the queue, preserves TypeOK.
LEMMA AllocateDLResourcesType ==
  ASSUME TypeOK, NEW q \in Seq(Message), AllocateDLResources(q), alloc' \in BOOLEAN
  PROVE  TypeOK'
<1> USE DEF TypeOK
<1>1. UntaggedQueue(q) \in Seq(Message) /\ Dropped(polls) \in Seq(PollType)
  BY UntaggedType
<1>2. ASSUME InitRLCLink
      PROVE  /\ rlcMode' \in RlcMode /\ vS' \in BSN /\ vA' \in BSN
             /\ vB' \in [BSN -> AckStatus]
             /\ pDlBlocks' \in [BSN -> Block \cup {Null}] /\ pool' \in SUBSET Block
             /\ lastDataBlock' \in BSN \cup {LAST_BLOCK_UNKNOWN}
             /\ lastPendingAckXmit' \in BSN /\ lastBlockSentOnPollTs' \in BOOLEAN
             /\ dlAssignCnt' \in Nat /\ pollOnActivation' \in BOOLEAN
             /\ n3105' \in Nat /\ numBlocksSincePoll' \in Nat
             /\ built' \in Nat /\ got' \in SUBSET Int /\ msVR' \in Nat
  <2>1. 0 \in BSN
    BY WindowAssumption DEF BSN
  <2> QED
    BY <1>2, <2>1, DLAssumption DEF InitRLCLink, AckStatus
<1>3. ASSUME polls' = Dropped(polls) \/ PollAssignment(Dropped(polls))
      PROVE  polls' \in Seq(PollType)
  BY <1>1, <1>3, PollAssignmentType
<1>4. /\ offered' \in Nat /\ dataRTS' \in [Timeslot -> {0, 1}] /\ kick' \in SUBSET Timeslot
      /\ fault' \in BOOLEAN /\ gone' \in BOOLEAN
  BY DEF AllocateDLResources
<1>5. CASE EstablishDLTbf(q)
  <2>1. tbfState' \in TbfState /\ pduQueue' \in Nat
    BY <1>5 DEF EstablishDLTbf, TbfState
  <2>2. timer' \in [Timer -> BOOLEAN] /\ queue' \in Seq(Message)
    BY <1>1, <1>5, RestartedType DEF EstablishDLTbf
  <2>3. isT3193Running' \in BOOLEAN
    BY <1>5 DEF EstablishDLTbf
  <2>4. InitRLCLink /\ (polls' = Dropped(polls) \/ PollAssignment(Dropped(polls)))
    BY <1>5 DEF EstablishDLTbf
  <2> QED
    BY <1>2, <1>3, <1>4, <2>1, <2>2, <2>3, <2>4
<1>6. CASE ReestablishDLTbf(q)
  <2>1. tbfState' \in TbfState /\ pduQueue' \in Nat
    <3>1. /\ tbfState' = "ACTIVATING"
          /\ (pduQueue > 0 /\ pduQueue' = pduQueue - 1) \/ pduQueue' = pduQueue
      BY <1>6, Zenon DEF ReestablishDLTbf
    <3> QED
      BY <3>1 DEF TbfState
  <2>2. timer' \in [Timer -> BOOLEAN] /\ queue' \in Seq(Message)
    <3>1. (\E on, off : timer' = Restarted(on, off)) /\ queue' = UntaggedQueue(q)
      BY <1>6, Zenon DEF ReestablishDLTbf
    <3> QED
      BY <1>1, <3>1, RestartedType
  <2>3. isT3193Running' \in BOOLEAN
    BY <1>6, Zenon DEF ReestablishDLTbf
  <2>4. InitRLCLink /\ (polls' = Dropped(polls) \/ PollAssignment(Dropped(polls)))
    BY <1>6 DEF ReestablishDLTbf
  <2> QED
    BY <1>2, <1>3, <1>4, <2>1, <2>2, <2>3, <2>4
<1>7. CASE LeaveDLTbf(q)
  <2>1. pduQueue' \in Nat
    BY <1>7 DEF LeaveDLTbf
  <2> QED
    BY <1>4, <1>7, <2>1 DEF LeaveDLTbf, linkVars, msVars, countVars, assignVars
<1> QED
  BY <1>5, <1>6, <1>7 DEF AllocateDLResources

\* The DSP, the MS, BSSGP and the timers.
LEMMA EnvironmentType ==
  ASSUME TypeOK,
         \/ PollEnds
         \/ \E ts \in Timeslot : DspReady(ts)
         \/ MSLeaves
         \/ BssgpOffer
         \/ \E t \in Timer : TimerExpiry(t)
  PROVE  TypeOK'
<1> USE DEF TypeOK, linkVars, msVars, countVars, assignVars, timerVars, bssgpVars, taskVars
<1>1. CASE PollEnds
  <2>1. Head(polls) \in PollType /\ Tail(polls) \in Seq(PollType)
    BY <1>1, SeqFacts DEF PollEnds
  <2>2. \A a \in {"nack", "control_ack", "ack_nack"}, d \in {NoDescription, DownlinkAckNack} :
          Append(queue, OutcomeOf(Head(polls), a, d)) \in Seq(Message)
    BY <2>1, OutcomeIn, DescriptionIn, SeqFacts
  <2>3. queue' \in Seq(Message)
    BY <1>1, <2>2 DEF PollEnds, MSAnswer, NoAnswer
  <2> QED
    BY <1>1, <2>1, <2>3 DEF PollEnds
<1>2. ASSUME NEW ts \in Timeslot, DspReady(ts) PROVE TypeOK'
  <2>1. [type |-> "rts", ts |-> ts] \in Message
    BY DEF Message, RtsMessage
  <2>2. queue' \in Seq(Message)
    BY <1>2, <2>1, SeqFacts DEF DspReady
  <2> QED
    BY <1>2, <2>2 DEF DspReady
<1>3. CASE MSLeaves
  BY <1>3 DEF MSLeaves
<1>4. CASE BssgpOffer
  <2>1. [type |-> "pdu_req"] \in Message
    BY DEF Message, PduMessage
  <2>2. queue' \in Seq(Message)
    BY <1>4, <2>1, SeqFacts DEF BssgpOffer
  <2> QED
    BY <1>4, <2>2 DEF BssgpOffer
<1>5. ASSUME NEW t \in Timer, TimerExpiry(t) PROVE TypeOK'
  <2>1. [type |-> "expiry", timer |-> t] \in Message
    BY DEF Message, ExpiryMessage
  <2>2. queue' \in Seq(Message)
    BY <1>5, <2>1, SeqFacts DEF TimerExpiry
  <2> QED
    BY <1>5, <2>2 DEF TimerExpiry
<1> QED
  BY <1>1, <1>2, <1>3, <1>4, <1>5

\* The constructors leave a state of the right type.
LEMMA InitType == Init => TypeOK
<1>1. 0 \in BSN
  BY WindowAssumption DEF BSN
<1> SUFFICES ASSUME Init PROVE TypeOK
  OBVIOUS
<1>2. /\ vB \in [BSN -> AckStatus]
      /\ pDlBlocks \in [BSN -> Block \cup {Null}]
      /\ timer \in [Timer -> BOOLEAN]
      /\ dataRTS \in [Timeslot -> {0, 1}]
  BY DEF Init, AckStatus
<1>3. queue \in Seq(Message) /\ polls \in Seq(PollType)
  BY DEF Init
<1>4. /\ isT3193Running \in BOOLEAN /\ pollOnActivation \in BOOLEAN /\ alloc \in BOOLEAN
      /\ fault \in BOOLEAN /\ gone \in BOOLEAN /\ lastBlockSentOnPollTs \in BOOLEAN
  BY Zenon DEF Init
<1> QED
  BY <1>1, <1>2, <1>3, <1>4, DLAssumption DEF Init, TypeOK, TbfState

\* Every step preserves TypeOK.
LEMMA NextType == TypeOK /\ [Next]_vars => TypeOK'
<1> SUFFICES ASSUME TypeOK, [Next]_vars PROVE TypeOK'
  OBVIOUS
<1>1. CASE HandleMessage
  <2>1. /\ queue # <<>> /\ Others \in Seq(Message) /\ Taken \in Message
        /\ kick \in SUBSET Timeslot /\ alloc \in BOOLEAN
    BY <1>1, SeqFacts DEF HandleMessage, TypeOK
  <2>2. CASE ProcessPhRTSInd
    <3>1. Taken.ts \in Timeslot
      BY <2>1, <2>2 DEF ProcessPhRTSInd, Message, RtsMessage, OutcomeMessage, PduMessage,
         ExpiryMessage
    <3> QED
      BY <2>1, <2>2, <3>1, SendDownlinkDataBlockType DEF ProcessPhRTSInd
  <2>3. CASE ReceiveOutcome
    BY <2>1, <2>3, OutcomeType
  <2>4. CASE \E t \in Timer : ProcessExpiry(t)
    BY <2>1, <2>4, ExpiryType
  <2>5. CASE DLPduReq
    BY <2>1, <2>5, AllocateDLResourcesType DEF DLPduReq
  <2> QED
    BY <1>1, <2>2, <2>3, <2>4, <2>5 DEF HandleMessage
<1>2. CASE Kick
  <2> DEFINE ts == CHOOSE t \in kick : \A u \in kick : t <= u
  <2>1. PICK x \in kick : \A u \in kick : x <= u
    <3>1. kick \in SUBSET Nat /\ kick # {}
      BY <1>2, DLAssumption DEF Kick, TypeOK
    <3> QED
      BY <3>1, LeastNat
  <2>2. ts \in kick
    BY <2>1
  <2>3. ts \in Timeslot /\ (kick \in SUBSET Timeslot /\ alloc \in BOOLEAN)'
    BY <1>2, <2>2 DEF Kick, TypeOK
  <2>4. CASE SendDownlinkDataBlock(ts, queue)
    BY <2>3, <2>4, SendDownlinkDataBlockType DEF TypeOK
  <2>5. CASE UNCHANGED <<tbfState, linkVars, countVars, assignVars, timerVars,
                         bssgpVars, dataRTS, fault, queue, polls, gone>>
    BY <2>3, <2>5 DEF TypeOK, linkVars, msVars, countVars, assignVars, timerVars, bssgpVars
  <2> QED
    BY <1>2, <2>4, <2>5 DEF Kick
<1>3. CASE Allocate
  BY <1>3, AllocateDLResourcesType DEF Allocate, TypeOK
<1>4. CASE AbnormalRelease
  BY <1>4, RestartedType DEF AbnormalRelease, TypeOK, TbfState, linkVars, msVars, countVars,
     assignVars, bssgpVars, taskVars
<1>5. CASE UNCHANGED vars
  BY <1>5 DEF vars, TypeOK, linkVars, msVars, countVars, assignVars, timerVars, bssgpVars,
     taskVars
<1> QED
  BY <1>1, <1>2, <1>3, <1>4, <1>5, EnvironmentType DEF Next

\* Every index of the link stays in 0 .. RLC_MOD_VAL - 1, every block pointer is
\* null or a block of the pool, and the task's queue holds only messages that it
\* can handle, whatever the sizes and the bounds.
THEOREM TypeCorrect == Spec => []TypeOK
  BY InitType, NextType, PTL DEF Spec
------------------------------------------------------------------------------
(* The pool.  PoolOK is inductive together with TypeOK: a block leaves the   *)
(* pool for one index, and an index that returns its block forgets it.       *)

\* BuildDLRlcBlock moves one block from the pool to the index V(S), whose own block it
\* has returned before.
LEMMA BuildPool ==
  ASSUME TypeOK, PoolOK, NEW ts, NEW q, BuildDLRlcBlock(ts, q)
  PROVE  PoolOK'
<1> DEFINE avail == pool \cup Freed
<1>1. CASE avail = {}
  BY <1>1 DEF BuildDLRlcBlock, PoolOK
<1>2. CASE avail # {}
  <2>1. PICK b \in avail : pool' = avail \ {b} /\ pDlBlocks' = [pDlBlocks EXCEPT ![vS] = b]
    BY <1>2, Zenon DEF BuildDLRlcBlock
  <2>2. /\ pDlBlocks \in [BSN -> Block \cup {Null}] /\ vS \in BSN /\ pool \subseteq Block
        /\ Null \notin Block
    BY DLAssumption DEF TypeOK
  <2>3. \A i \in BSN : i # vS => pDlBlocks[i] \notin avail
    BY <2>2 DEF PoolOK, Freed
  <2> HIDE DEF avail
  <2>4. pDlBlocks'[vS] = b /\ \A i \in BSN : i # vS => pDlBlocks'[i] = pDlBlocks[i]
    BY <2>1, <2>2
  <2> QED
    BY <2>1, <2>3, <2>4 DEF PoolOK
<1> QED
  BY <1>1, <1>2

\* Only BuildDLRlcBlock moves blocks when a timeslot is served.
LEMMA SendPool ==
  ASSUME TypeOK, PoolOK, NEW ts, NEW q, SendDownlinkDataBlock(ts, q)
  PROVE  PoolOK'
<1>1. CASE BuildDLRlcBlock(ts, q)
  BY <1>1, BuildPool
<1>2. CASE ~BuildDLRlcBlock(ts, q)
  <2>1. UNCHANGED <<pool, pDlBlocks>>
    BY <1>2 DEF SendDownlinkDataBlock, GetDLRlcBlock, RetransmitNacked, RetransmitPendingAck,
       NothingToSend, linkVars
  <2> QED
    BY <2>1 DEF PoolOK
<1> QED
  BY <1>1, <1>2

\* An acknowledgement returns the blocks whose indices it clears, and no other.
LEMMA BitmapPool ==
  ASSUME TypeOK, PoolOK, NEW a \in AckNackDescription, Bitmap(a)
  PROVE  PoolOK'
<1> DEFINE freed == Span(vA, NewVA(a))
<1>1. freed \subseteq BSN
  BY SpanType
<1>2. CASE UNCHANGED <<pDlBlocks, pool>>
  BY <1>2 DEF PoolOK
<1>3. CASE /\ pDlBlocks' = Forgotten(freed)
           /\ pool' = pool \cup {pDlBlocks[i] : i \in freed}
           /\ \A i \in freed : pDlBlocks[i] # Null
  <2> HIDE DEF freed
  <2>1. \A i \in BSN : pDlBlocks'[i] = IF i \in freed THEN Null ELSE pDlBlocks[i]
    BY <1>3 DEF Forgotten
  <2>2. Null \notin pool /\ Null \notin pool'
    BY <1>1, <1>3, DLAssumption DEF TypeOK
  <2>3. \A i \in BSN : pDlBlocks'[i] \notin pool'
    BY <1>1, <1>3, <2>1, <2>2 DEF PoolOK
  <2> QED
    BY <2>1, <2>3 DEF PoolOK
<1> QED
  BY <1>2, <1>3 DEF Bitmap

\* The outcomes of polls return each block once.
LEMMA OutcomePool ==
  ASSUME TypeOK, PoolOK, queue # <<>>, ReceiveOutcome
  PROVE  PoolOK'
<1>1. CASE ReceiveDLAckNack /\ Bitmap(Taken.desc)
  <2>1. Taken.desc \in AckNackDescription
    BY SeqFacts DEF ReceiveOutcome, Message, RtsMessage, OutcomeMessage, PduMessage,
       ExpiryMessage
  <2> QED
    BY <1>1, <2>1, BitmapPool
<1>2. CASE ~(ReceiveDLAckNack /\ Bitmap(Taken.desc))
  <2>1. UNCHANGED <<pool, pDlBlocks>>
    BY <1>2 DEF ReceiveOutcome, ReceiveDLAckNack, FinalAck, ReceivePacketControlAck,
       ReceivePacketControlNack, IgnoreOutcome, linkVars
  <2> QED
    BY <2>1 DEF PoolOK
<1> QED
  BY <1>1, <1>2

\* Releasing a TBF, and establishing one, leave no index with a block.
LEMMA EmptyPool ==
  ASSUME TypeOK, pool' \in SUBSET Block, \A i \in BSN : pDlBlocks'[i] = Null
  PROVE  PoolOK'
  BY DLAssumption DEF PoolOK

\* An expiry returns all blocks of the link and clears all indices.
LEMMA ExpiryPool ==
  ASSUME TypeOK, PoolOK, NEW t \in Timer, ProcessExpiry(t)
  PROVE  PoolOK'
<1>1. CASE UNCHANGED <<pDlBlocks, pool>>
  BY <1>1 DEF PoolOK
<1>2. CASE pDlBlocks' = Forgotten(BSN) /\ pool' = pool \cup Held
  <2>1. pool' \in SUBSET Block
    BY <1>2 DEF Held, TypeOK
  <2>2. \A i \in BSN : pDlBlocks'[i] = Null
    BY <1>2 DEF Forgotten
  <2> QED
    BY <2>1, <2>2, EmptyPool
<1> QED
  BY <1>1, <1>2 DEF ProcessExpiry

\* Establishment clears all indices and takes no block.
LEMMA AllocatePool ==
  ASSUME TypeOK, PoolOK, NEW q, AllocateDLResources(q)
  PROVE  PoolOK'
<1>1. CASE InitRLCLink
  BY <1>1, EmptyPool DEF InitRLCLink, TypeOK
<1>2. CASE LeaveDLTbf(q)
  BY <1>2 DEF LeaveDLTbf, linkVars, PoolOK
<1> QED
  BY <1>1, <1>2 DEF AllocateDLResources, EstablishDLTbf, ReestablishDLTbf

\* Every step preserves PoolOK.
LEMMA NextPool == TypeOK /\ PoolOK /\ [Next]_vars => PoolOK'
<1> SUFFICES ASSUME TypeOK, PoolOK, [Next]_vars PROVE PoolOK'
  OBVIOUS
<1>1. CASE HandleMessage
  BY <1>1, SendPool, OutcomePool, ExpiryPool, AllocatePool
     DEF HandleMessage, ProcessPhRTSInd, DLPduReq
<1>2. CASE Kick
  <2>1. CASE UNCHANGED <<pool, pDlBlocks>>
    BY <2>1 DEF PoolOK
  <2>2. CASE \E ts \in kick : SendDownlinkDataBlock(ts, queue)
    BY <2>2, SendPool
  <2> QED
    <3>1. (CHOOSE t \in kick : \A u \in kick : t <= u) \in kick
      <4>1. kick \in SUBSET Nat /\ kick # {}
        BY <1>2, DLAssumption DEF Kick, TypeOK
      <4>2. \E x \in kick : \A u \in kick : x <= u
        BY <4>1, LeastNat
      <4> QED
        BY <4>2
    <3> QED
      BY <1>2, <2>1, <2>2, <3>1 DEF Kick, linkVars
<1>3. CASE Allocate
  BY <1>3, AllocatePool DEF Allocate
<1>4. CASE UNCHANGED <<pool, pDlBlocks>>
  BY <1>4 DEF PoolOK
<1> QED
  BY <1>1, <1>2, <1>3, <1>4 DEF Next, vars, PollEnds, DspReady, MSLeaves, BssgpOffer,
     TimerExpiry, AbnormalRelease, linkVars

\* A block of sysDlDataBlockPool is free or belongs to one index of one link,
\* whatever is lost, answered late or expires: no call of ReturnDLDataBlock
\* returns a block twice, and GetDLDataBlock never hands out a block in use.
THEOREM PoolCorrect == Spec => []PoolOK
<1>1. Init => PoolOK
  BY DLAssumption DEF Init, PoolOK
<1> QED
  BY <1>1, NextPool, TypeCorrect, PTL DEF Spec
------------------------------------------------------------------------------
(* The timers.  What ends a TBF is a running timer, the message of one that *)
(* has expired, or a poll whose outcome the task is still to handle: the    *)
(* polls with a control ack tag, on the radio or reported in the queue.     *)

LastKnown == lastDataBlock # LAST_BLOCK_UNKNOWN

\* A tagged poll of kind k is open, in the polls ps or in the messages q.
OpenIn(ps, q, k) ==
    \/ \E p \in Range(ps) : p.tag /\ p.kind = k
    \/ \E m \in Range(q) : m.type = "outcome" /\ m.tag /\ m.kind = k
Open(k) == OpenIn(polls, queue, k)

\* The messages q tell of the expiry of timer t.
ExpiresIn(q, t) == \E m \in Range(q) : m.type = "expiry" /\ m.timer = t
Runs(t) == timer[t] \/ ExpiresIn(queue, t)

\* BSSGP has told the task of a PDU in one of the messages q.
AskedIn(q) == \E m \in Range(q) : m.type = "pdu_req"

\* Only assignments and the last block have a control ack tag, and what comes
\* back is a PACKET CONTROL ACKNOWLEDGEMENT for an assignment or in
\* unacknowledged mode, a PACKET DOWNLINK ACK/NACK in acknowledged mode.
PollTagOK(p, known) == p.tag => p.kind = "assign" \/ (p.kind = "last" /\ known)
OutcomeTagOK(m, known, mode) ==
    m.type = "outcome" /\ m.tag =>
        \/ m.kind = "assign" /\ m.answer # "ack_nack"
        \/ /\ m.kind = "last" /\ known
           /\ m.answer # IF mode = "ACK" THEN "control_ack" ELSE "ack_nack"
TagsIn(ps, q, known, mode) ==
    /\ \A p \in Range(ps) : PollTagOK(p, known)
    /\ \A m \in Range(q) : OutcomeTagOK(m, known, mode)
TagsOK == TagsIn(polls, queue, LastKnown, rlcMode)

\* The Activity timer of a TBF runs, and T3193 does when isT3193Running says so.
TimersOK == tbfState # "FREE" => Runs("Activity") /\ (isT3193Running => Runs("T3193"))

\* What each state of a TBF that cannot send waits for.
StateWatched ==
    /\ tbfState \in {"ACTIVATING", "REALLOCATING"} =>
          Open("assign") \/ Runs("T3193") \/ Runs("T3195")
    /\ tbfState = "RELEASING" => Runs("T3195")
    /\ tbfState = "INACTIVE" =>
          \/ Runs("T3193") \/ Runs("T3195")
          \/ rlcMode = "UNACK" /\ (Open("last") \/ pduQueue > 0)
          \/ rlcMode = "ACK" /\ Runs("T3191") /\ LastKnown

\* At the end of an acknowledged transfer a PDU of BSSGP finds T3193 running, or
\* the outcome of the last poll looks for it.
PduSeen ==
    tbfState = "INACTIVE" /\ rlcMode = "ACK" =>
        \/ fault \/ Runs("T3195") \/ Open("last")
        \/ isT3193Running /\ (pduQueue = 0 \/ alloc \/ AskedIn(queue))

TimerInv == TypeOK /\ TagsOK /\ TimersOK /\ StateWatched /\ PduSeen
------------------------------------------------------------------------------
\* The members of a sequence that grows or whose head is taken.
LEMMA Members ==
  ASSUME NEW S, NEW s \in Seq(S)
  PROVE  /\ Range(s) \subseteq S
         /\ \A x \in S : Range(Append(s, x)) = Range(s) \cup {x}
         /\ s # <<>> => Range(s) = Range(Tail(s)) \cup {Head(s)}
<1>1. Range(s) \subseteq S
  BY DEF Range
<1>2. ASSUME NEW x \in S PROVE Range(Append(s, x)) = Range(s) \cup {x}
  <2>1. /\ DOMAIN Append(s, x) = 1 .. Len(s) + 1 /\ DOMAIN s = 1 .. Len(s) /\ Len(s) \in Nat
        /\ \A i \in 1 .. Len(s) : Append(s, x)[i] = s[i]
        /\ Append(s, x)[Len(s) + 1] = x
    OBVIOUS
  <2>2. DOMAIN Append(s, x) = DOMAIN s \cup {Len(s) + 1}
    BY <2>1
  <2> QED
    BY <2>1, <2>2 DEF Range
<1>3. ASSUME s # <<>> PROVE Range(s) = Range(Tail(s)) \cup {Head(s)}
  <2>1. /\ DOMAIN s = 1 .. Len(s) /\ Len(s) \in Nat \ {0}
        /\ DOMAIN Tail(s) = 1 .. Len(s) - 1
        /\ \A i \in 1 .. Len(s) - 1 : Tail(s)[i] = s[i + 1]
        /\ Head(s) = s[1]
    BY <1>3
  <2>2. \A y \in Range(s) : y = Head(s) \/ y \in Range(Tail(s))
    <3>1. SUFFICES ASSUME NEW i \in 1 .. Len(s), i # 1 PROVE s[i] \in Range(Tail(s))
      BY <2>1 DEF Range
    <3>2. i - 1 \in DOMAIN Tail(s) /\ Tail(s)[i - 1] = s[i]
      BY <2>1, <3>1
    <3> QED
      BY <3>2 DEF Range
  <2>3. \A y \in Range(Tail(s)) : y \in Range(s)
    <3>1. SUFFICES ASSUME NEW i \in 1 .. Len(s) - 1 PROVE s[i + 1] \in Range(s)
      BY <2>1 DEF Range
    <3>2. i + 1 \in DOMAIN s
      BY <2>1
    <3> QED
      BY <3>2 DEF Range
  <2>4. Head(s) \in Range(s)
    BY <2>1 DEF Range
  <2> QED
    BY <2>2, <2>3, <2>4
<1> QED
  BY <1>1, <1>2, <1>3

\* Clearing the tags: nothing tagged is left, and the other messages stay.
LEMMA Untagging ==
  /\ \A ps \in Seq(PollType) :
        /\ \A p \in Range(Untagged(ps)) : ~p.tag
        /\ \A p \in Range(Dropped(ps)) : ~p.tag
  /\ \A q \in Seq(Message) :
        /\ \A m \in Range(UntaggedQueue(q)) : m.type = "outcome" => ~m.tag
        /\ \A m \in Range(q) : m.type # "outcome" => m \in Range(UntaggedQueue(q))
<1>1. ASSUME NEW ps \in Seq(PollType)
      PROVE  /\ \A p \in Range(Untagged(ps)) : ~p.tag
             /\ \A p \in Range(Dropped(ps)) : ~p.tag
  <2>1. \A p \in PollType : ~[p EXCEPT !.tag = FALSE].tag
                            /\ ~[p EXCEPT !.tag = FALSE, !.heard = FALSE].tag
    BY DEF PollType
  <2>2. \A i \in DOMAIN ps : ps[i] \in PollType
    OBVIOUS
  <2> QED
    BY <2>1, <2>2 DEF Untagged, Dropped, Range
<1>2. ASSUME NEW q \in Seq(Message)
      PROVE  /\ \A m \in Range(UntaggedQueue(q)) : m.type = "outcome" => ~m.tag
             /\ \A m \in Range(q) : m.type # "outcome" => m \in Range(UntaggedQueue(q))
  <2>1. \A m \in Message : m.type = "outcome" => ~[m EXCEPT !.tag = FALSE].tag
    BY DEF Message, RtsMessage, OutcomeMessage, PduMessage, ExpiryMessage
  <2>2. \A i \in DOMAIN q : q[i] \in Message
    OBVIOUS
  <2>3. DOMAIN UntaggedQueue(q) = DOMAIN q
        /\ \A i \in DOMAIN q : UntaggedQueue(q)[i] =
              IF q[i].type = "outcome" THEN [q[i] EXCEPT !.tag = FALSE] ELSE q[i]
    BY DEF UntaggedQueue
  <2>4. \A m \in Range(UntaggedQueue(q)) : m.type = "outcome" => ~m.tag
    BY <2>1, <2>2, <2>3 DEF Range
  <2>5. ASSUME NEW i \in DOMAIN q, q[i].type # "outcome" PROVE q[i] \in Range(UntaggedQueue(q))
    BY <2>3, <2>5 DEF Range
  <2> QED
    BY <2>4, <2>5 DEF Range
<1> QED
  BY <1>1, <1>2

\* An open poll more, or a message more.
LEMMA PollsGrow ==
  ASSUME NEW ps \in Seq(PollType), NEW p \in PollType, NEW q
  PROVE  /\ \A k : OpenIn(Append(ps, p), q, k) <=> OpenIn(ps, q, k) \/ (p.tag /\ p.kind = k)
         /\ \A known, mode : TagsIn(Append(ps, p), q, known, mode) <=>
                                TagsIn(ps, q, known, mode) /\ PollTagOK(p, known)
<1>1. Range(Append(ps, p)) = Range(ps) \cup {p}
  BY Members
<1> QED
  BY <1>1 DEF OpenIn, TagsIn

LEMMA QueueGrows ==
  ASSUME NEW ps, NEW q, NEW r, NEW m, Range(r) = Range(q) \cup {m}
  PROVE  /\ \A k : OpenIn(ps, r, k) <=>
                      OpenIn(ps, q, k) \/ (m.type = "outcome" /\ m.tag /\ m.kind = k)
         /\ \A known, mode : TagsIn(ps, r, known, mode) <=>
                                TagsIn(ps, q, known, mode) /\ OutcomeTagOK(m, known, mode)
         /\ \A t : ExpiresIn(r, t) <=> ExpiresIn(q, t) \/ (m.type = "expiry" /\ m.timer = t)
         /\ AskedIn(r) <=> AskedIn(q) \/ m.type = "pdu_req"
  BY DEF OpenIn, TagsIn, ExpiresIn, AskedIn

\* What the task leaves in its queue, and what it has taken.
LEMMA QueueTaken ==
  ASSUME TypeOK, queue # <<>>
  PROVE  /\ \A ps, k : OpenIn(ps, queue, k) <=>
               OpenIn(ps, Others, k) \/ (Taken.type = "outcome" /\ Taken.tag /\ Taken.kind = k)
         /\ \A ps, known, mode : TagsIn(ps, queue, known, mode) <=>
               TagsIn(ps, Others, known, mode) /\ OutcomeTagOK(Taken, known, mode)
         /\ \A t : ExpiresIn(queue, t) <=>
               ExpiresIn(Others, t) \/ (Taken.type = "expiry" /\ Taken.timer = t)
         /\ AskedIn(queue) <=> AskedIn(Others) \/ Taken.type = "pdu_req"
<1>1. Range(queue) = Range(Others) \cup {Taken}
  BY Members DEF TypeOK, Taken, Others
<1> QED
  BY <1>1, QueueGrows

\* Once the tags are cleared no poll is open.
LEMMA Cleared ==
  ASSUME NEW ps \in Seq(PollType), NEW q \in Seq(Message)
  PROVE  /\ \A known, mode : /\ TagsIn(Untagged(ps), UntaggedQueue(q), known, mode)
                             /\ TagsIn(Dropped(ps), UntaggedQueue(q), known, mode)
         /\ \A t : ExpiresIn(q, t) => ExpiresIn(UntaggedQueue(q), t)
<1>1. \A known, mode : /\ TagsIn(Untagged(ps), UntaggedQueue(q), known, mode)
                       /\ TagsIn(Dropped(ps), UntaggedQueue(q), known, mode)
  BY Untagging DEF TagsIn, PollTagOK, OutcomeTagOK
<1>2. \A t : ExpiresIn(q, t) => ExpiresIn(UntaggedQueue(q), t)
  BY Untagging DEF ExpiresIn
<1> QED
  BY <1>1, <1>2
------------------------------------------------------------------------------
(* Every action keeps the four parts.                                       *)

TimersSafe == TagsOK /\ TimersOK /\ StateWatched /\ PduSeen

\* The rest q of the queue still holds all that the timers and polls left there.
Keeps(q) ==
    /\ q \in Seq(Message)
    /\ TagsIn(polls, q, LastKnown, rlcMode)
    /\ \A k : Open(k) => OpenIn(polls, q, k)
    /\ \A t : ExpiresIn(queue, t) => ExpiresIn(q, t)
    /\ AskedIn(queue) => AskedIn(q)

\* The whole queue does, and what is left when a message of the DSP is taken.
LEMMA KeepsQueue ==
  ASSUME TypeOK, TagsOK
  PROVE  /\ Keeps(queue)
         /\ queue # <<>> /\ Taken.type = "rts" => Keeps(Others)
<1>1. Keeps(queue)
  BY DEF Keeps, TagsOK, TypeOK, Open
<1>2. ASSUME queue # <<>>, Taken.type = "rts" PROVE Keeps(Others)
  BY <1>2, QueueTaken, SeqFacts DEF Keeps, TagsOK, Open
<1> QED
  BY <1>1, <1>2

\* A timer that is not cancelled still runs, when the messages of those that have
\* expired stay.
LEMMA RunsOn ==
  ASSUME NEW on, NEW off, timer' = Restarted(on, off), NEW t \in Timer,
         t \notin off, ExpiresIn(queue, t) => ExpiresIn(queue', t)
  PROVE  Runs(t) => Runs(t)'
  BY DEF Restarted, Runs

\* A timer that is started runs.
LEMMA RunsNow ==
  ASSUME NEW on, NEW off, timer' = Restarted(on, off), NEW t \in Timer, t \in on
  PROVE  Runs(t)'
  BY DEF Restarted, Runs

\* SetPollingBit: the last block starts T3191 and its poll is tagged; too many
\* polls without an answer start T3195.
LEMMA SetPollingBitTimers ==
  ASSUME TypeOK, TimersOK, tbfState = "ALLOCATED",
         NEW n, NEW last \in BOOLEAN, NEW ts, NEW st \in {"ALLOCATED", "REALLOCATING"},
         NEW ps \in Seq(PollType), NEW T, NEW q \in Seq(Message),
         SetPollingBit(n, last, ts, st, ps, T, q),
         UNCHANGED <<rlcMode, isT3193Running>>,
         last => LastKnown' /\ "T3191" \in T,
         TagsIn(ps, q, LastKnown', rlcMode),
         st = "REALLOCATING" => OpenIn(ps, q, "assign"),
         \A t : ExpiresIn(queue, t) => ExpiresIn(q, t)
  PROVE  TimersSafe'
<1> DEFINE count == IF numBlocksSincePoll > 0 THEN numBlocksSincePoll - 1 ELSE 0
           pollTs == ts \in PollTs
           polled == pollTs /\ (last \/ count = 0)
           failed == polled /\ n3105 >= N3105_MAX
           p(heard) == Poll(IF last THEN "last" ELSE "data", last, heard)
           on == T \cup {"Activity"} \cup IF failed THEN ReleaseTimer ELSE {}
<1>1. PICK heard \in Hears :
        /\ tbfState' = IF failed THEN "RELEASING"
                       ELSE IF last /\ pollTs THEN "INACTIVE" ELSE st
        /\ timer' = Restarted(on, {})
        /\ polls' = IF failed THEN Untagged(ps) ELSE IF polled THEN Append(ps, p(heard)) ELSE ps
        /\ queue' = IF failed THEN UntaggedQueue(q) ELSE q
  BY Zenon DEF SetPollingBit
<1>2. p(heard) \in PollType /\ p(heard).tag = last /\ p(heard).kind = IF last THEN "last" ELSE "data"
  BY <1>1, HearsType, PollIn DEF PollKind, Poll
<1>3. polled = (polled /\ TRUE) /\ (last /\ pollTs => polled) /\ (failed => polled)
  OBVIOUS
<1>4. \A t : ExpiresIn(queue, t) => ExpiresIn(queue', t)
  BY <1>1, Cleared
<1>5. Runs("Activity")' /\ (failed => Runs("T3195")') /\ (last => Runs("T3191")')
  <2>1. /\ "Activity" \in on /\ (failed => "T3195" \in on) /\ (last => "T3191" \in on)
        /\ {"Activity", "T3195", "T3191"} \subseteq Timer
    BY DEF ReleaseTimer, Timer
  <2> HIDE DEF on, failed
  <2> QED
    BY <1>1, <2>1, RunsNow
<1>6. TimersOK'
  <2>1. "T3193" \in Timer
    BY DEF Timer
  <2>2. Runs("T3193") => Runs("T3193")'
    BY <1>1, <1>4, <2>1, RunsOn
  <2> QED
    BY <1>5, <2>2 DEF TimersOK
<1>7. TagsOK'
  <2> HIDE DEF p, failed, polled
  <2>1. TagsIn(polls', queue', LastKnown', rlcMode)
    BY <1>1, <1>2, Cleared, PollsGrow DEF PollTagOK
  <2> QED
    BY <2>1 DEF TagsOK
<1>8. /\ ~failed /\ last /\ pollTs => Open("last")'
      /\ ~failed /\ st = "REALLOCATING" => Open("assign")'
  <2> HIDE DEF p, failed, polled, pollTs
  <2> DEFINE x == p(heard)
  <2>1. x \in PollType /\ (last => x.tag /\ x.kind = "last")
    BY <1>2
  <2> HIDE DEF x
  <2>2. \A r : /\ OpenIn(ps, r, "assign") => OpenIn(Append(ps, x), r, "assign")
               /\ last => OpenIn(Append(ps, x), r, "last")
    BY <2>1, PollsGrow
  <2>3. polls' = IF failed THEN Untagged(ps) ELSE IF polled THEN Append(ps, x) ELSE ps
    BY <1>1 DEF x
  <2> QED
    BY <1>1, <1>3, <2>2, <2>3 DEF Open
<1> HIDE DEF failed, pollTs
<1>9. StateWatched'
  <2>1. tbfState' = IF failed THEN "RELEASING" ELSE IF last /\ pollTs THEN "INACTIVE" ELSE st
    BY <1>1
  <2>2. rlcMode' = "ACK" \/ rlcMode' = "UNACK"
    BY DLAssumption DEF TypeOK
  <2> QED
    BY <1>5, <1>8, <2>1, <2>2 DEF StateWatched
<1>10. PduSeen'
  BY <1>1, <1>8 DEF PduSeen
<1> QED
  BY <1>6, <1>7, <1>9, <1>10 DEF TimersSafe

\* A step that leaves the state of the TBF alone, takes away no timer and no open
\* poll, and no PDU of which the task is not told.
LEMMA TimersFrame ==
  ASSUME TimersSafe, UNCHANGED <<tbfState, rlcMode, lastDataBlock, isT3193Running>>, TagsOK',
         \A t \in Timer : Runs(t) => Runs(t)',
         tbfState # "ALLOCATED" =>
            /\ \A k : Open(k) => Open(k)'
            /\ fault => fault'
            /\ pduQueue > 0 => pduQueue' > 0
            /\ pduQueue = 0 \/ alloc \/ AskedIn(queue) =>
                  pduQueue' = 0 \/ alloc' \/ AskedIn(queue')
  PROVE  TimersSafe'
<1>1. {"Activity", "T3193", "T3195", "T3191"} \subseteq Timer
  BY DEF Timer
<1>2. TimersOK'
  BY <1>1 DEF TimersSafe, TimersOK
<1>3. StateWatched'
  BY <1>1 DEF TimersSafe, StateWatched, LastKnown
<1>4. PduSeen'
  BY <1>1 DEF TimersSafe, PduSeen
<1> QED
  BY <1>2, <1>3, <1>4 DEF TimersSafe

\* The same, when the step leaves the rest q of the queue and starts timers on.
LEMMA TimersKept ==
  ASSUME TypeOK, TimersSafe, NEW q, Keeps(q), queue' = q,
         UNCHANGED <<tbfState, rlcMode, lastDataBlock, isT3193Running, polls>>,
         timer' = timer \/ \E on : timer' = Restarted(on, {}),
         tbfState # "ALLOCATED" => UNCHANGED <<fault, pduQueue, alloc>>
  PROVE  TimersSafe'
<1>1. TagsIn(polls', queue', LastKnown', rlcMode')
  BY DEF Keeps, LastKnown
<1>2. \A k : Open(k) => Open(k)'
  BY DEF Keeps, Open
<1>3. ASSUME NEW t \in Timer PROVE Runs(t) => Runs(t)'
  <2>1. ExpiresIn(queue, t) => ExpiresIn(queue', t)
    BY DEF Keeps
  <2>2. CASE timer' = timer
    BY <2>1, <2>2 DEF Runs
  <2>3. CASE \E on : timer' = Restarted(on, {})
    BY <2>1, <2>3, RunsOn
  <2> QED
    BY <2>2, <2>3
<1>4. AskedIn(queue) => AskedIn(queue')
  BY DEF Keeps
<1>5. TagsOK'
  BY <1>1 DEF TagsOK
<1> QED
  BY <1>2, <1>3, <1>4, <1>5, TimersFrame

\* GetDLRlcBlock, for each of the ways it finds a block, or none.
LEMMA GetTimers ==
  ASSUME TypeOK, TimersSafe, tbfState = "ALLOCATED", NEW ts \in Timeslot, NEW q, Keeps(q),
         GetDLRlcBlock(ts, q)
  PROVE  TimersSafe'
<1> USE DEF TypeOK
<1>1. /\ q \in Seq(Message) /\ polls \in Seq(PollType)
      /\ \A t : ExpiresIn(queue, t) => ExpiresIn(q, t)
      /\ TagsIn(polls, q, LastKnown, rlcMode)
      /\ TimersOK
      /\ UNCHANGED <<rlcMode, isT3193Running>>
  BY DEF Keeps, TimersSafe, GetDLRlcBlock
<1>2. ASSUME NEW i \in BSN, NEW n, UNCHANGED lastDataBlock,
             SetPollingBit(n, i = lastDataBlock, ts, tbfState, polls,
                           IF i = lastDataBlock THEN {"T3191"} ELSE {}, q)
      PROVE  TimersSafe'
  <2>1. i = lastDataBlock => LastKnown'
    BY <1>2, WindowAssumption DEF LastKnown, LAST_BLOCK_UNKNOWN, BSN
  <2>2. LastKnown' = LastKnown
    BY <1>2 DEF LastKnown
  <2>3. /\ (i = lastDataBlock) \in BOOLEAN /\ tbfState \in {"ALLOCATED", "REALLOCATING"}
        /\ i = lastDataBlock => LastKnown' /\ "T3191" \in IF i = lastDataBlock THEN {"T3191"} ELSE {}
        /\ TagsIn(polls, q, LastKnown', rlcMode)
        /\ tbfState # "REALLOCATING"
    BY <1>1, <2>1, <2>2
  <2> QED
    BY <1>1, <1>2, <2>3, SetPollingBitTimers
<1>3. CASE RetransmitNacked(ts, q)
  <2> DEFINE i == FirstFrom(vA, Nacked)
  <2>1. i \in BSN
    <3>1. Nacked \in SUBSET BSN /\ Nacked # {} /\ vA \in BSN
      BY <1>3, SpanType, Zenon DEF RetransmitNacked, Nacked
    <3> QED
      BY <3>1, FirstFromIn, Zenon
  <2> HIDE DEF i
  <2>2. /\ SetPollingBit(SeqAt(i), i = lastDataBlock, ts, tbfState, polls,
                         IF i = lastDataBlock THEN {"T3191"} ELSE {}, q)
        /\ UNCHANGED lastDataBlock
    BY <1>3 DEF RetransmitNacked, i
  <2> QED
    BY <1>2, <2>1, <2>2
<1>4. CASE BuildDLRlcBlock(ts, q)
  <2> DEFINE avail == pool \cup Freed
  <2>1. CASE avail = {}
    BY <1>1, <1>4, <2>1, TimersKept DEF BuildDLRlcBlock
  <2>2. CASE avail # {}
    <3>1. PICK final \in BOOLEAN, realloc \in BOOLEAN :
            /\ lastDataBlock' = IF final THEN vS ELSE lastDataBlock
            /\ \E heard \in Hears :
                  SetPollingBit(built, final, ts,
                      IF realloc THEN "REALLOCATING" ELSE tbfState,
                      IF realloc THEN Append(polls, Poll("assign", TRUE, heard)) ELSE polls,
                      IF final THEN {"T3191"} ELSE {}, q)
      BY <1>4, <2>2, Zenon DEF BuildDLRlcBlock
    <3> PICK heard \in Hears :
          SetPollingBit(built, final, ts,
              IF realloc THEN "REALLOCATING" ELSE tbfState,
              IF realloc THEN Append(polls, Poll("assign", TRUE, heard)) ELSE polls,
              IF final THEN {"T3191"} ELSE {}, q)
      BY <3>1
    <3> DEFINE x == Poll("assign", TRUE, heard)
               ps == IF realloc THEN Append(polls, x) ELSE polls
               st == IF realloc THEN "REALLOCATING" ELSE tbfState
               T == IF final THEN {"T3191"} ELSE {}
    <3>2. x \in PollType /\ x.tag /\ x.kind = "assign"
      BY HearsType, PollIn DEF PollKind, Poll
    <3>3. (final => LastKnown') /\ (LastKnown => LastKnown')
      BY <3>1, WindowAssumption DEF LastKnown, LAST_BLOCK_UNKNOWN, BSN
    <3>4. TagsIn(polls, q, LastKnown', rlcMode)
      BY <1>1, <3>3 DEF TagsIn, PollTagOK, OutcomeTagOK
    <3> HIDE DEF x
    <3>5. Append(polls, x) \in Seq(PollType)
      BY <3>2, SeqFacts
    <3>6. ps \in Seq(PollType) /\ TagsIn(ps, q, LastKnown', rlcMode)
          /\ (realloc => OpenIn(ps, q, "assign"))
      BY <1>1, <3>2, <3>4, <3>5, PollsGrow DEF PollTagOK
    <3>7. st \in {"ALLOCATED", "REALLOCATING"} /\ (st = "REALLOCATING" => OpenIn(ps, q, "assign"))
          /\ (final => LastKnown' /\ "T3191" \in T)
      BY <3>3, <3>6
    <3>8. SetPollingBit(built, final, ts, st, ps, T, q)
      BY DEF x
    <3> HIDE DEF ps, st, T
    <3> QED
      BY <1>1, <3>6, <3>7, <3>8, SetPollingBitTimers
  <2> QED
    BY <2>1, <2>2
<1>5. CASE RetransmitPendingAck(ts, q)
  <2> DEFINE lastFirst == lastDataBlock # LAST_BLOCK_UNKNOWN /\ ~lastBlockSentOnPollTs
             scan == ~lastFirst /\ Pending # {}
             i == IF scan THEN FirstFrom(lastPendingAckXmit, Pending) ELSE lastDataBlock
             T == IF i = lastDataBlock THEN {"T3191"} ELSE {}
  <2>1. /\ scan \/ lastDataBlock # LAST_BLOCK_UNKNOWN
        /\ \/ /\ timer' = Restarted(T \cup {"Activity"}, {})
              /\ queue' = q
              /\ UNCHANGED <<tbfState, polls>>
           \/ SetPollingBit(SeqAt(i), i = lastDataBlock, ts, tbfState, polls, T, q)
        /\ UNCHANGED lastDataBlock
    BY <1>5, Zenon DEF RetransmitPendingAck
  <2>2. i \in BSN
    <3>1. Pending \in SUBSET BSN /\ lastPendingAckXmit \in BSN
      BY SpanType, Zenon DEF Pending
    <3>2. Pending # {} => FirstFrom(lastPendingAckXmit, Pending) \in Pending
      BY <3>1, FirstFromIn, Zenon
    <3>3. scan => FirstFrom(lastPendingAckXmit, Pending) \in BSN
      BY <3>1, <3>2, Zenon
    <3> HIDE DEF scan
    <3> QED
      BY <2>1, <3>3
  <2> HIDE DEF i, scan
  <2>3. CASE SetPollingBit(SeqAt(i), i = lastDataBlock, ts, tbfState, polls, T, q)
    BY <1>2, <2>1, <2>2, <2>3
  <2>4. CASE /\ timer' = Restarted(T \cup {"Activity"}, {})
             /\ queue' = q
             /\ UNCHANGED <<tbfState, polls>>
    BY <1>1, <2>1, <2>4, TimersKept
  <2> QED
    BY <2>1, <2>3, <2>4
<1>6. CASE NothingToSend(ts, q)
  BY <1>1, <1>6, TimersKept DEF NothingToSend
<1> QED
  BY <1>3, <1>4, <1>5, <1>6 DEF GetDLRlcBlock

\* SendDownlinkDataBlock on one timeslot.
LEMMA SendTimers ==
  ASSUME TypeOK, TimersSafe, NEW ts \in Timeslot, NEW q, Keeps(q),
         SendDownlinkDataBlock(ts, q), UNCHANGED alloc
  PROVE  TimersSafe'
<1>1. CASE tbfState = "ALLOCATED" /\ GetDLRlcBlock(ts, q)
  BY <1>1, GetTimers
<1>2. CASE /\ queue' = q
           /\ UNCHANGED <<tbfState, linkVars, countVars, assignVars, timerVars, bssgpVars,
                          fault, polls, gone>>
  BY <1>2, TimersKept DEF linkVars, timerVars, bssgpVars
<1> QED
  BY <1>1, <1>2 DEF SendDownlinkDataBlock

\* The report taken is the only thing that leaves the queue.
LEMMA OutcomeTaken ==
  ASSUME TypeOK, TagsOK, queue # <<>>, Taken.type = "outcome"
  PROVE  /\ \A t : ExpiresIn(queue, t) => ExpiresIn(Others, t)
         /\ AskedIn(queue) => AskedIn(Others)
         /\ TagsIn(polls, Others, LastKnown, rlcMode)
         /\ OutcomeTagOK(Taken, LastKnown, rlcMode)
         /\ \A k : Open(k) => OpenIn(polls, Others, k) \/ (Taken.tag /\ Taken.kind = k)
<1>1. \A t : ExpiresIn(queue, t) => ExpiresIn(Others, t)
  BY QueueTaken
<1> QED
  BY <1>1, QueueTaken DEF TagsOK, Open

\* PACKET DOWNLINK ACK/NACK: a last block that is reported is sent again, or the
\* TBF waits in T3193.
LEMMA AckNackTimers ==
  ASSUME TypeOK, TimersSafe, queue # <<>>, Taken.type = "outcome", ReceiveDLAckNack
  PROVE  TimersSafe'
<1>1. /\ Taken.answer = "ack_nack" /\ tbfState \notin {"FREE", "RELEASING"}
      /\ queue' = Others /\ UNCHANGED <<rlcMode, lastDataBlock, polls, pduQueue>>
  BY DEF ReceiveDLAckNack, bssgpVars
<1>2. /\ \A t : ExpiresIn(queue, t) => ExpiresIn(queue', t)
      /\ AskedIn(queue) => AskedIn(queue')
      /\ TagsOK' /\ OutcomeTagOK(Taken, LastKnown, rlcMode)
      /\ \A k : Open(k) => Open(k)' \/ (Taken.tag /\ Taken.kind = k)
  BY <1>1, OutcomeTaken DEF TimersSafe, TagsOK, Open, LastKnown
<1>3. Taken.tag => Taken.kind = "last" /\ LastKnown /\ rlcMode = "ACK"
  BY <1>1, <1>2 DEF OutcomeTagOK
<1>4. {"Activity", "T3193", "T3195", "T3191"} \subseteq Timer
  BY DEF Timer
<1>5. ASSUME timer' = timer \/ \E on : timer' = Restarted(on, {"T3191"})
      PROVE  \A t \in {"Activity", "T3193", "T3195"} : Runs(t) => Runs(t)'
  <2>1. CASE timer' = timer
    BY <1>2, <2>1 DEF Runs
  <2>2. CASE \E on : timer' = Restarted(on, {"T3191"})
    BY <1>2, <1>4, <2>2, RunsOn
  <2> QED
    BY <1>5, <2>1, <2>2
<1>6. CASE rlcMode = "ACK" /\ FinalAck
  <2>1. /\ timer' = Restarted({"T3193"}, {"T3191"}) /\ isT3193Running' = TRUE
        /\ UNCHANGED tbfState
    BY <1>6 DEF FinalAck
  <2>2. Runs("Activity") => Runs("Activity")'
    BY <1>5, <2>1
  <2>3. Runs("T3193")'
    BY <1>4, <2>1, RunsNow
  <2>4. pduQueue' = 0 \/ alloc'
    <3>1. pduQueue > 0 => alloc'
      BY <1>6, Zenon DEF FinalAck, MoreLLCPdusAvailable
    <3> QED
      BY <1>1, <3>1 DEF TypeOK
  <2> QED
    BY <1>1, <1>2, <2>1, <2>2, <2>3, <2>4
       DEF TimersSafe, TimersOK, StateWatched, PduSeen
<1>7. CASE rlcMode = "ACK" /\ Bitmap(Taken.desc) /\ UNCHANGED <<isT3193Running, alloc>>
  <2>1. CASE fault' = TRUE /\ UNCHANGED <<tbfState, timer>>
    <3>1. \A t \in Timer : Runs(t) => Runs(t)'
      BY <1>2, <2>1 DEF Runs
    <3> QED
      BY <1>1, <1>2, <1>3, <1>4, <1>7, <2>1, <3>1
         DEF TimersSafe, TimersOK, StateWatched, PduSeen, LastKnown
  <2>2. CASE timer' = Restarted({}, {"T3191"}) /\ tbfState' = "ALLOCATED"
    BY <1>2, <1>4, <1>5, <1>7, <2>2, <1>1 DEF TimersSafe, TimersOK, StateWatched, PduSeen
  <2>3. CASE /\ timer' = Restarted({}, {"T3191"}) /\ UNCHANGED <<tbfState, fault>>
             /\ ~ (LastKnown /\ tbfState # "ALLOCATED")
    BY <1>1, <1>2, <1>3, <1>5, <1>7, <2>3
       DEF TimersSafe, TimersOK, StateWatched, PduSeen, LastKnown
  <2> QED
    BY <1>7, <2>1, <2>2, <2>3, Zenon DEF Bitmap, Resume, LastKnown
<1>8. CASE /\ rlcMode = "UNACK"
           /\ timer' = Restarted({}, {"T3191"})
           /\ UNCHANGED <<tbfState, isT3193Running, alloc, fault>>
  BY <1>1, <1>2, <1>3, <1>5, <1>8
     DEF TimersSafe, TimersOK, StateWatched, PduSeen, LastKnown
<1> QED
  BY <1>6, <1>7, <1>8 DEF ReceiveDLAckNack

\* PACKET CONTROL ACKNOWLEDGEMENT: the TBF sends on, or ends in T3193 unless a PDU
\* waits.
LEMMA ControlAckTimers ==
  ASSUME TypeOK, TimersSafe, queue # <<>>, Taken.type = "outcome", ReceivePacketControlAck
  PROVE  TimersSafe'
<1>1. /\ Taken.answer = "control_ack" /\ tbfState # "FREE"
      /\ queue' = Others /\ UNCHANGED <<rlcMode, lastDataBlock, polls, pduQueue, fault>>
  BY DEF ReceivePacketControlAck, bssgpVars, linkVars
<1>2. /\ \A t : ExpiresIn(queue, t) => ExpiresIn(queue', t)
      /\ AskedIn(queue) => AskedIn(queue')
      /\ TagsOK' /\ OutcomeTagOK(Taken, LastKnown, rlcMode)
      /\ \A k : Open(k) => Open(k)' \/ (Taken.tag /\ Taken.kind = k)
  BY <1>1, OutcomeTaken DEF TimersSafe, TagsOK, Open, LastKnown
<1>3. {"Activity", "T3193", "T3195", "T3191"} \subseteq Timer
  BY DEF Timer
<1>4. ASSUME UNCHANGED timer \/ timer' = Restarted({"T3193"}, {})
      PROVE  \A t \in Timer : Runs(t) => Runs(t)'
  <2>1. CASE UNCHANGED timer
    BY <1>2, <2>1 DEF Runs
  <2>2. CASE timer' = Restarted({"T3193"}, {})
    BY <1>2, <2>2, RunsOn
  <2> QED
    BY <1>4, <2>1, <2>2
<1>5. CASE Resume /\ UNCHANGED <<timer, isT3193Running, alloc>>
  BY <1>1, <1>2, <1>3, <1>4, <1>5 DEF Resume, TimersSafe, TimersOK, StateWatched, PduSeen
<1>6. CASE /\ rlcMode = "UNACK" /\ tbfState' = "INACTIVE"
           /\ \/ MoreLLCPdusAvailable /\ UNCHANGED <<timer, isT3193Running>>
              \/ timer' = Restarted({"T3193"}, {}) /\ isT3193Running' = TRUE
  <2>1. CASE MoreLLCPdusAvailable /\ UNCHANGED <<timer, isT3193Running>>
    BY <1>1, <1>2, <1>3, <1>4, <1>6, <2>1
       DEF MoreLLCPdusAvailable, TimersSafe, TimersOK, StateWatched, PduSeen
  <2>2. CASE timer' = Restarted({"T3193"}, {}) /\ isT3193Running' = TRUE
    <3>1. Runs("T3193")'
      BY <1>3, <2>2, RunsNow
    <3> QED
      BY <1>1, <1>2, <1>3, <1>4, <1>6, <2>2, <3>1
         DEF TimersSafe, TimersOK, StateWatched, PduSeen
  <2> QED
    BY <1>6, <2>1, <2>2
<1>7. CASE /\ tbfState \notin {"ACTIVATING", "REALLOCATING"} /\ rlcMode = "ACK"
           /\ UNCHANGED <<tbfState, timer, isT3193Running, alloc>>
  <2>1. Taken.tag => Taken.kind # "last"
    BY <1>1, <1>2, <1>7 DEF OutcomeTagOK
  <2> QED
    BY <1>1, <1>2, <1>3, <1>4, <1>7, <2>1
       DEF TimersSafe, TimersOK, StateWatched, PduSeen, LastKnown
<1> QED
  BY <1>5, <1>6, <1>7 DEF ReceivePacketControlAck

\* No answer to an assignment: it is polled again, or T3195 runs; no answer to the
\* last block: it is sent again, or the TBF is released.
LEMMA ControlNackTimers ==
  ASSUME TypeOK, TimersSafe, queue # <<>>, Taken.type = "outcome", ReceivePacketControlNack
  PROVE  TimersSafe'
<1>1. /\ tbfState # "FREE"
      /\ UNCHANGED <<rlcMode, lastDataBlock, isT3193Running, pduQueue, alloc, fault>>
  BY DEF ReceivePacketControlNack, bssgpVars
<1>2. /\ \A t : ExpiresIn(queue, t) => ExpiresIn(Others, t)
      /\ TagsIn(polls, Others, LastKnown, rlcMode)
      /\ polls \in Seq(PollType) /\ Others \in Seq(Message)
  BY OutcomeTaken, SeqFacts DEF TimersSafe, TypeOK
<1>3. {"Activity", "T3193", "T3195", "T3191"} \subseteq Timer
  BY DEF Timer
<1>4. ASSUME \A t : ExpiresIn(queue, t) => ExpiresIn(queue', t),
             UNCHANGED timer \/ \E on : timer' = Restarted(on, {})
      PROVE  \A t \in Timer : Runs(t) => Runs(t)'
  <2>1. CASE UNCHANGED timer
    BY <1>4, <2>1 DEF Runs
  <2>2. CASE \E on : timer' = Restarted(on, {})
    BY <1>4, <2>2, RunsOn
  <2> QED
    BY <1>4, <2>1, <2>2
<1>5. CASE tbfState = "ACTIVATING" /\ NackActivating /\ queue' = Others /\ UNCHANGED tbfState
  <2>1. \A t : ExpiresIn(queue, t) => ExpiresIn(queue', t)
    BY <1>2, <1>5
  <2>2. \A t \in Timer : Runs(t) => Runs(t)'
    <3>1. UNCHANGED timer \/ \E on : timer' = Restarted(on, {})
      BY <1>5, Zenon DEF NackActivating
    <3> QED
      BY <1>4, <2>1, <3>1
  <2>3. CASE PollAssignment(polls)
    <3>1. PICK heard \in Hears : polls' = Append(polls, Poll("assign", TRUE, heard))
      BY <2>3 DEF PollAssignment
    <3> DEFINE x == Poll("assign", TRUE, heard)
    <3>2. x \in PollType /\ x.tag /\ x.kind = "assign"
      BY HearsType, PollIn DEF PollKind, Poll
    <3>3. polls' = Append(polls, x)
      BY <3>1
    <3> HIDE DEF x
    <3>4. Open("assign")'
      BY <1>2, <3>2, <3>3, PollsGrow DEF Open
    <3>5. TagsIn(polls', queue', LastKnown, rlcMode)
      BY <1>2, <1>5, <3>2, <3>3, PollsGrow DEF PollTagOK
    <3>6. TagsOK'
      BY <1>1, <3>5 DEF TagsOK, LastKnown
    <3> QED
      BY <1>1, <1>3, <1>5, <2>2, <3>4, <3>6 DEF TimersSafe, TimersOK, StateWatched, PduSeen
  <2>4. CASE timer' = Restarted(ReleaseTimer, {}) /\ UNCHANGED polls
    <3>1. Runs("T3195")'
      BY <1>3, <2>4, RunsNow DEF ReleaseTimer
    <3>2. TagsOK'
      BY <1>1, <1>2, <1>5, <2>4 DEF TagsOK, LastKnown
    <3> QED
      BY <1>1, <1>3, <1>5, <2>2, <3>1, <3>2 DEF TimersSafe, TimersOK, StateWatched, PduSeen
  <2> QED
    BY <1>5, <2>3, <2>4 DEF NackActivating
<1>6. CASE InternalReleaseDLTbf /\ timer' = Restarted(ReleaseTimer, {})
  <2>1. \A t : ExpiresIn(queue, t) => ExpiresIn(queue', t)
    BY <1>2, <1>6, Cleared DEF InternalReleaseDLTbf
  <2>2. \A t \in Timer : Runs(t) => Runs(t)'
    BY <1>4, <1>6, <2>1
  <2>3. Runs("T3195")'
    BY <1>3, <1>6, RunsNow DEF ReleaseTimer
  <2>4. TagsOK'
    BY <1>2, <1>6, Cleared DEF InternalReleaseDLTbf, TagsOK
  <2> QED
    BY <1>1, <1>3, <1>6, <2>2, <2>3, <2>4
       DEF InternalReleaseDLTbf, TimersSafe, TimersOK, StateWatched, PduSeen
<1>7. CASE Resume /\ queue' = Others /\ UNCHANGED <<timer, polls>>
  <2>1. \A t \in Timer : Runs(t) => Runs(t)'
    BY <1>2, <1>4, <1>7
  <2>2. TagsOK'
    BY <1>1, <1>2, <1>7 DEF TagsOK, LastKnown
  <2> QED
    BY <1>1, <1>3, <1>7, <2>1, <2>2
       DEF Resume, TimersSafe, TimersOK, StateWatched, PduSeen
<1> QED
  BY <1>5, <1>6, <1>7 DEF ReceivePacketControlNack

\* Every outcome of a poll keeps the TBF watched.
LEMMA OutcomeTimers ==
  ASSUME TypeOK, TimersSafe, queue # <<>>, ReceiveOutcome
  PROVE  TimersSafe'
<1>1. CASE IgnoreOutcome
  <2>1. /\ queue' = Others /\ Taken.type = "outcome"
        /\ UNCHANGED <<tbfState, rlcMode, lastDataBlock, isT3193Running, polls, timer,
                       pduQueue, fault, alloc>>
    BY <1>1 DEF ReceiveOutcome, IgnoreOutcome, linkVars, timerVars, bssgpVars, taskVars
  <2>2. /\ \A t : ExpiresIn(queue, t) => ExpiresIn(queue', t)
        /\ AskedIn(queue) => AskedIn(queue')
        /\ TagsIn(polls, Others, LastKnown, rlcMode) /\ OutcomeTagOK(Taken, LastKnown, rlcMode)
        /\ \A k : Open(k) => Open(k)' \/ (Taken.tag /\ Taken.kind = k)
    BY <2>1, OutcomeTaken DEF TimersSafe, Open
  <2>3. TagsOK'
    BY <2>1, <2>2 DEF TagsOK, LastKnown
  <2>4. \A t \in Timer : Runs(t) => Runs(t)'
    BY <2>1, <2>2 DEF Runs
  <2>5. CASE ~Taken.tag
    BY <2>1, <2>2, <2>3, <2>4, <2>5, TimersFrame
  <2>6. CASE tbfState \in {"FREE", "RELEASING"}
    <3>1. "T3195" \in Timer /\ "T3193" \in Timer /\ "Activity" \in Timer
      BY DEF Timer
    <3> QED
      BY <2>1, <2>3, <2>4, <2>6, <3>1 DEF TimersSafe, TimersOK, StateWatched, PduSeen
  <2> QED
    BY <1>1, <2>5, <2>6 DEF IgnoreOutcome
<1> QED
  BY <1>1, AckNackTimers, ControlAckTimers, ControlNackTimers DEF ReceiveOutcome

\* An expiry that is handled ends the TBF.
LEMMA ExpiryTimers ==
  ASSUME TypeOK, TimersSafe, queue # <<>>, NEW t \in Timer, ProcessExpiry(t)
  PROVE  TimersSafe'
<1>1. tbfState' = "FREE" /\ queue' = Others /\ UNCHANGED <<rlcMode, lastDataBlock, polls>>
  BY DEF ProcessExpiry
<1>2. TagsOK'
  BY <1>1, QueueTaken DEF TimersSafe, TagsOK, LastKnown
<1> QED
  BY <1>1, <1>2 DEF TimersSafe, TimersOK, StateWatched, PduSeen

\* AllocateDLResources: an assignment is polled, or T3193 still runs; a TBF that
\* goes on loses nothing but, once, what told the task of a PDU.
LEMMA AllocateTimers ==
  ASSUME TypeOK, TimersSafe, AllocateDLResources(IF alloc THEN queue ELSE Others),
         ~alloc => queue # <<>> /\ Taken.type = "pdu_req"
  PROVE  TimersSafe'
<1> DEFINE q == IF alloc THEN queue ELSE Others
<1>1. /\ q \in Seq(Message) /\ polls \in Seq(PollType)
      /\ TagsIn(polls, q, LastKnown, rlcMode)
      /\ \A k : Open(k) => OpenIn(polls, q, k)
      /\ \A t : ExpiresIn(queue, t) => ExpiresIn(q, t)
  <2>1. CASE alloc
    BY <2>1 DEF TypeOK, TimersSafe, TagsOK, Open
  <2>2. CASE ~alloc
    <3>1. q = Others /\ Others \in Seq(Message) /\ polls \in Seq(PollType)
      BY <2>2, SeqFacts DEF TypeOK
    <3> QED
      BY <2>2, <3>1, QueueTaken DEF TimersSafe, TagsOK, Open
  <2> QED
    BY <2>1, <2>2
<1> HIDE DEF q
<1>2. {"Activity", "T3193", "T3195", "T3191"} \subseteq Timer
  BY DEF Timer
<1>3. Dropped(polls) \in Seq(PollType) /\ UntaggedQueue(q) \in Seq(Message)
  BY <1>1, UntaggedType
<1>4. ASSUME queue' = UntaggedQueue(q), polls' = Dropped(polls) PROVE TagsOK'
  BY <1>1, <1>4, Cleared DEF TagsOK
<1>5. ASSUME queue' = UntaggedQueue(q), PollAssignment(Dropped(polls))
      PROVE  TagsOK' /\ Open("assign")'
  <2>1. PICK heard \in Hears : polls' = Append(Dropped(polls), Poll("assign", TRUE, heard))
    BY <1>5 DEF PollAssignment
  <2> DEFINE x == Poll("assign", TRUE, heard)
  <2>2. x \in PollType /\ x.tag /\ x.kind = "assign"
    BY HearsType, PollIn DEF PollKind, Poll
  <2>3. polls' = Append(Dropped(polls), x)
    BY <2>1
  <2> HIDE DEF x
  <2>4. \A known, mode : TagsIn(polls', queue', known, mode)
    BY <1>1, <1>3, <1>5, <2>2, <2>3, Cleared, PollsGrow DEF PollTagOK
  <2>5. \A r : OpenIn(polls', r, "assign")
    BY <1>3, <2>2, <2>3, PollsGrow
  <2> QED
    BY <2>4, <2>5 DEF TagsOK, Open
<1>6. CASE EstablishDLTbf(q)
  <2>1. /\ queue' = UntaggedQueue(q)
        /\ timer' = Restarted({"Activity"}, Timer) /\ isT3193Running' = FALSE
        /\ \/ tbfState' = "ACTIVATING" /\ PollAssignment(Dropped(polls))
           \/ tbfState' = "FREE" /\ polls' = Dropped(polls)
    BY <1>6 DEF EstablishDLTbf
  <2>2. Runs("Activity")'
    BY <1>2, <2>1, RunsNow
  <2> QED
    BY <1>4, <1>5, <2>1, <2>2 DEF TimersSafe, TimersOK, StateWatched, PduSeen
<1>7. CASE ReestablishDLTbf(q)
  <2>1. queue' = UntaggedQueue(q) /\ tbfState' = "ACTIVATING"
        /\ tbfState = "INACTIVE" /\ isT3193Running
    BY <1>7 DEF ReestablishDLTbf
  <2>2. \A t : ExpiresIn(queue, t) => ExpiresIn(queue', t)
    BY <1>1, <2>1, Cleared
  <2>3. CASE /\ timer' = Restarted({"Activity"}, {"T3195", "T3191", "T3193"})
             /\ isT3193Running' = FALSE
             /\ PollAssignment(Dropped(polls))
    <3>1. Runs("Activity")'
      BY <1>2, <2>3, RunsNow
    <3> QED
      BY <1>5, <2>1, <2>3, <3>1 DEF TimersSafe, TimersOK, StateWatched, PduSeen
  <2>4. CASE /\ timer' = Restarted({"Activity"}, {"T3195", "T3191"})
             /\ polls' = Dropped(polls) /\ UNCHANGED isT3193Running
    <3>1. Runs("Activity")'
      BY <1>2, <2>4, RunsNow
    <3>2. Runs("T3193") => Runs("T3193")'
      BY <1>2, <2>2, <2>4, RunsOn
    <3> QED
      BY <1>4, <2>1, <2>4, <3>1, <3>2 DEF TimersSafe, TimersOK, StateWatched, PduSeen
  <2> QED
    BY <1>7, <2>3, <2>4 DEF ReestablishDLTbf
<1>8. CASE LeaveDLTbf(q)
  <2>1. /\ ~(tbfState = "INACTIVE" /\ isT3193Running)
        /\ queue' = q
        /\ tbfState # "RELEASING" => UNCHANGED pduQueue
        /\ UNCHANGED <<tbfState, rlcMode, lastDataBlock, timer, isT3193Running, polls>>
    BY <1>8 DEF LeaveDLTbf, linkVars
  <2>2. UNCHANGED fault
    BY DEF AllocateDLResources
  <2>3. TagsOK' /\ (\A k : Open(k) => Open(k)') /\ (\A t \in Timer : Runs(t) => Runs(t)')
    BY <1>1, <2>1 DEF TagsOK, Open, Runs, LastKnown
  <2> QED
    BY <1>2, <2>1, <2>2, <2>3 DEF TimersSafe, TimersOK, StateWatched, PduSeen, LastKnown
<1> QED
  BY <1>6, <1>7, <1>8 DEF AllocateDLResources, q

\* The DSP, the MS and BSSGP: a poll that ends is reported when it is tagged, a
\* timer that expires leaves its message, and the task is told of each PDU.
LEMMA EnvironmentTimers ==
  ASSUME TypeOK, TimersSafe,
         \/ PollEnds
         \/ \E ts \in Timeslot : DspReady(ts)
         \/ MSLeaves
         \/ BssgpOffer
         \/ \E t \in Timer : TimerExpiry(t)
  PROVE  TimersSafe'
<1> USE DEF linkVars, timerVars, bssgpVars, taskVars
<1>1. queue \in Seq(Message) /\ polls \in Seq(PollType)
  BY DEF TypeOK
<1>2. ASSUME NEW m \in Message, queue' = Append(queue, m)
      PROVE  /\ \A ps, k : OpenIn(ps, queue', k) <=>
                   OpenIn(ps, queue, k) \/ (m.type = "outcome" /\ m.tag /\ m.kind = k)
             /\ \A ps, known, mode : TagsIn(ps, queue', known, mode) <=>
                   TagsIn(ps, queue, known, mode) /\ OutcomeTagOK(m, known, mode)
             /\ \A t : ExpiresIn(queue', t) <=>
                   ExpiresIn(queue, t) \/ (m.type = "expiry" /\ m.timer = t)
             /\ AskedIn(queue') <=> AskedIn(queue) \/ m.type = "pdu_req"
  <2>1. Range(queue') = Range(queue) \cup {m}
    BY <1>1, <1>2, Members
  <2> QED
    BY <2>1, QueueGrows
<1>3. CASE PollEnds
  <2> DEFINE p == Head(polls)
  <2>1. p \in PollType /\ polls' = Tail(polls) /\ Range(polls) = Range(polls') \cup {p}
    BY <1>1, <1>3, SeqFacts, Members DEF PollEnds
  <2>2. UNCHANGED <<tbfState, rlcMode, lastDataBlock, isT3193Running, timer, pduQueue,
                    alloc, fault>>
    BY <1>3 DEF PollEnds
  <2>3. /\ \A r, k : OpenIn(polls, r, k) <=> OpenIn(polls', r, k) \/ (p.tag /\ p.kind = k)
        /\ \A r, known, mode : TagsIn(polls, r, known, mode) <=>
                                  TagsIn(polls', r, known, mode) /\ PollTagOK(p, known)
    BY <2>1 DEF OpenIn, TagsIn
  <2>4. PollTagOK(p, LastKnown) /\ TagsIn(polls', queue, LastKnown, rlcMode)
    BY <2>3 DEF TimersSafe, TagsOK
  <2>5. \/ ~p.tag /\ UNCHANGED queue
        \/ \E a \in {"nack", "control_ack", "ack_nack"}, d \in {NoDescription, DownlinkAckNack} :
              /\ queue' = Append(queue, OutcomeOf(p, a, d))
              /\ a = "control_ack" => p.kind = "assign" \/ (p.kind = "last" /\ rlcMode = "UNACK")
              /\ a = "ack_nack" => p.kind # "assign" /\ (p.kind = "last" => rlcMode # "UNACK")
    BY <1>3 DEF PollEnds, MSAnswer, NoAnswer
  <2> HIDE DEF p
  <2>6. CASE ~p.tag /\ UNCHANGED queue
    <3>1. TagsOK' /\ (\A k : Open(k) => Open(k)') /\ (\A t \in Timer : Runs(t) => Runs(t)')
      BY <2>2, <2>3, <2>4, <2>6 DEF TagsOK, Open, Runs, LastKnown
    <3> QED
      BY <2>2, <2>6, <3>1, TimersFrame
  <2>7. ASSUME NEW a \in {"nack", "control_ack", "ack_nack"},
               NEW d \in {NoDescription, DownlinkAckNack},
               queue' = Append(queue, OutcomeOf(p, a, d)),
               a = "control_ack" => p.kind = "assign" \/ (p.kind = "last" /\ rlcMode = "UNACK"),
               a = "ack_nack" => p.kind # "assign" /\ (p.kind = "last" => rlcMode # "UNACK")
        PROVE  TimersSafe'
    <3> DEFINE m == OutcomeOf(p, a, d)
    <3>1. m \in Message
      BY <2>1, OutcomeIn, DescriptionIn
    <3>2. m.type = "outcome" /\ m.tag = p.tag /\ m.kind = p.kind /\ m.answer = a
      BY DEF OutcomeOf
    <3>3. queue' = Append(queue, m)
      BY <2>7
    <3> HIDE DEF m
    <3>4. OutcomeTagOK(m, LastKnown, rlcMode)
      BY <2>4, <2>7, <3>2, DLAssumption DEF PollTagOK, OutcomeTagOK, TypeOK
    <3>5. TagsOK'
      BY <1>2, <2>2, <2>4, <3>1, <3>3, <3>4 DEF TagsOK, LastKnown
    <3>6. \A k : Open(k) => Open(k)'
      BY <1>2, <2>3, <3>1, <3>2, <3>3 DEF Open
    <3>7. (\A t \in Timer : Runs(t) => Runs(t)') /\ (AskedIn(queue) => AskedIn(queue'))
      BY <1>2, <2>2, <3>1, <3>3 DEF Runs
    <3> QED
      BY <2>2, <3>5, <3>6, <3>7, TimersFrame
  <2> QED
    BY <2>5, <2>6, <2>7
<1>4. ASSUME NEW m \in Message, queue' = Append(queue, m), m.type # "outcome",
             UNCHANGED <<tbfState, rlcMode, lastDataBlock, isT3193Running, polls, fault, alloc>>,
             pduQueue' = pduQueue \/ (pduQueue' = pduQueue + 1 /\ m.type = "pdu_req"),
             \A t \in Timer : timer[t] => timer'[t] \/ (m.type = "expiry" /\ m.timer = t)
      PROVE  TimersSafe'
  <2>1. TagsOK'
    BY <1>2, <1>4 DEF TimersSafe, TagsOK, OutcomeTagOK, LastKnown
  <2>2. \A k : Open(k) => Open(k)'
    BY <1>2, <1>4 DEF Open
  <2>3. \A t \in Timer : Runs(t) => Runs(t)'
    BY <1>2, <1>4 DEF Runs
  <2>4. /\ pduQueue > 0 => pduQueue' > 0
        /\ pduQueue = 0 \/ alloc \/ AskedIn(queue) =>
              pduQueue' = 0 \/ alloc' \/ AskedIn(queue')
    BY <1>2, <1>4 DEF TypeOK
  <2> QED
    BY <1>4, <2>1, <2>2, <2>3, <2>4, TimersFrame
<1>5. ASSUME NEW ts \in Timeslot, DspReady(ts) PROVE TimersSafe'
  <2> DEFINE m == [type |-> "rts", ts |-> ts]
  <2>1. m \in Message /\ m.type = "rts"
    BY DEF Message, RtsMessage
  <2>2. queue' = Append(queue, m)
    BY <1>5 DEF DspReady
  <2> HIDE DEF m
  <2> QED
    BY <1>4, <1>5, <2>1, <2>2 DEF DspReady
<1>6. CASE MSLeaves
  <2>1. UNCHANGED <<tbfState, rlcMode, lastDataBlock, isT3193Running, polls, fault, alloc,
                    pduQueue, timer, queue>>
    BY <1>6 DEF MSLeaves
  <2>2. TagsOK' /\ (\A k : Open(k) => Open(k)') /\ (\A t \in Timer : Runs(t) => Runs(t)')
    BY <2>1 DEF TimersSafe, TagsOK, Open, Runs, LastKnown
  <2> QED
    BY <2>1, <2>2, TimersFrame
<1>7. CASE BssgpOffer
  <2> DEFINE m == [type |-> "pdu_req"]
  <2>1. m \in Message /\ m.type = "pdu_req"
    BY DEF Message, PduMessage
  <2>2. queue' = Append(queue, m)
    BY <1>7 DEF BssgpOffer
  <2> HIDE DEF m
  <2> QED
    BY <1>4, <1>7, <2>1, <2>2 DEF BssgpOffer
<1>8. ASSUME NEW t \in Timer, TimerExpiry(t) PROVE TimersSafe'
  <2> DEFINE m == [type |-> "expiry", timer |-> t]
  <2>1. m \in Message /\ m.type = "expiry" /\ m.timer = t
    BY DEF Message, ExpiryMessage
  <2>2. queue' = Append(queue, m) /\ timer' = [timer EXCEPT ![t] = FALSE]
    BY <1>8 DEF TimerExpiry
  <2>3. \A u \in Timer : timer[u] => timer'[u] \/ u = t
    BY <2>2 DEF TypeOK
  <2> HIDE DEF m
  <2> QED
    BY <1>4, <1>8, <2>1, <2>2, <2>3 DEF TimerExpiry
<1> QED
  BY <1>3, <1>5, <1>6, <1>7, <1>8

\* AbnormalRelease starts T3195.
LEMMA AbnormalReleaseTimers ==
  ASSUME TypeOK, TimersSafe, AbnormalRelease
  PROVE  TimersSafe'
<1>1. /\ tbfState # "FREE" /\ tbfState' = "INACTIVE"
      /\ timer' = Restarted(ReleaseTimer, {})
      /\ UNCHANGED <<rlcMode, lastDataBlock, isT3193Running, polls, queue>>
  BY DEF AbnormalRelease, linkVars
<1>2. "T3195" \in Timer /\ "T3193" \in Timer /\ "Activity" \in Timer
  BY DEF Timer
<1>3. Runs("T3195")'
  BY <1>1, <1>2, RunsNow DEF ReleaseTimer
<1>4. \A t \in Timer : Runs(t) => Runs(t)'
  BY <1>1, RunsOn
<1>5. TagsOK'
  BY <1>1 DEF TimersSafe, TagsOK, LastKnown
<1> QED
  BY <1>1, <1>2, <1>3, <1>4, <1>5 DEF TimersSafe, TimersOK, StateWatched, PduSeen

\* Every step keeps the TBF watched.
LEMMA NextTimers == TypeOK /\ TimersSafe /\ [Next]_vars => TimersSafe'
<1> SUFFICES ASSUME TypeOK, TimersSafe, [Next]_vars PROVE TimersSafe'
  OBVIOUS
<1>1. Keeps(queue) /\ (queue # <<>> /\ Taken.type = "rts" => Keeps(Others))
  BY KeepsQueue DEF TimersSafe
<1>2. CASE HandleMessage
  <2>1. queue # <<>> /\ ~alloc /\ Taken \in Message
    BY <1>2, SeqFacts DEF HandleMessage, Idle
  <2>2. CASE ProcessPhRTSInd
    <3>1. Taken.ts \in Timeslot
      BY <2>1, <2>2 DEF ProcessPhRTSInd, Message, RtsMessage, OutcomeMessage, PduMessage,
         ExpiryMessage
    <3> QED
      BY <1>1, <2>1, <2>2, <3>1, SendTimers DEF ProcessPhRTSInd
  <2>3. CASE ReceiveOutcome
    BY <2>1, <2>3, OutcomeTimers
  <2>4. CASE \E t \in Timer : ProcessExpiry(t)
    BY <2>1, <2>4, ExpiryTimers
  <2>5. CASE DLPduReq
    <3>1. (IF alloc THEN queue ELSE Others) = Others
      BY <2>1
    <3> QED
      BY <2>1, <2>5, <3>1, AllocateTimers DEF DLPduReq
  <2> QED
    BY <1>2, <2>2, <2>3, <2>4, <2>5 DEF HandleMessage
<1>3. CASE Kick
  <2> DEFINE ts == CHOOSE t \in kick : \A u \in kick : t <= u
  <2>1. ts \in Timeslot
    <3>1. kick \in SUBSET Nat /\ kick # {} /\ kick \subseteq Timeslot
      BY <1>3, DLAssumption DEF Kick, TypeOK
    <3>2. \E x \in kick : \A u \in kick : x <= u
      BY <3>1, LeastNat
    <3> QED
      BY <3>1, <3>2
  <2> HIDE DEF ts
  <2>2. CASE SendDownlinkDataBlock(ts, queue)
    BY <1>1, <1>3, <2>1, <2>2, SendTimers DEF Kick
  <2>3. CASE UNCHANGED <<tbfState, linkVars, timerVars, bssgpVars, fault, queue, polls>>
    <3>1. UNCHANGED alloc
      BY <1>3 DEF Kick
    <3> QED
      BY <1>1, <2>3, <3>1, TimersKept DEF linkVars, timerVars, bssgpVars
  <2> QED
    BY <1>3, <2>2, <2>3 DEF Kick, ts
<1>4. CASE Allocate
  <2>1. alloc /\ (IF alloc THEN queue ELSE Others) = queue
    BY <1>4 DEF Allocate
  <2> QED
    BY <1>4, <2>1, AllocateTimers DEF Allocate
<1>5. CASE AbnormalRelease
  BY <1>5, AbnormalReleaseTimers
<1>6. CASE UNCHANGED vars
  BY <1>1, <1>6, TimersKept DEF vars, linkVars, timerVars, bssgpVars, taskVars
<1> QED
  BY <1>2, <1>3, <1>4, <1>5, <1>6, EnvironmentTimers DEF Next

\* The invariant of the timers holds from the start.
LEMMA InitTimers == Init => TimersSafe
<1> SUFFICES ASSUME Init PROVE TimersSafe
  OBVIOUS
<1>1. tbfState = "FREE" /\ Range(queue) = {} /\ Range(polls) = {}
  BY DEF Init, Range
<1> QED
  BY <1>1 DEF TimersSafe, TagsOK, TagsIn, TimersOK, StateWatched, PduSeen

\* TypeOK and TimersSafe hold in every reachable state.
LEMMA TimersAlways == Spec => [](TypeOK /\ TimersSafe)
  BY InitTimers, NextTimers, TypeCorrect, PTL DEF Spec

\* In every reachable state a TBF that cannot send and waits for nothing has T3191,
\* T3193 or T3195 running, or the Activity timer where ReceivePacketControlAck
\* starts none: no loss of polls, answers or messages leaves it for good.
THEOREM AlwaysWatched == Spec => []Watched
<1>1. TypeOK /\ TimersSafe => Watched
  <2> SUFFICES ASSUME TypeOK, TimersSafe, tbfState \notin {"FREE", "ALLOCATED"}, Quiet
               PROVE  \/ \E t \in Timer \ {"Activity"} : timer[t]
                      \/ /\ rlcMode = "UNACK" /\ tbfState = "INACTIVE" /\ pduQueue > 0
                         /\ timer["Activity"]
    BY DEF Watched
  <2>1. Range(queue) = {} /\ Range(polls) = {}
    BY DEF Quiet, Range
  <2>2. (\A t : Runs(t) => timer[t]) /\ (\A k : ~Open(k))
    BY <2>1 DEF Runs, ExpiresIn, Open, OpenIn
  <2>3. {"T3193", "T3195", "T3191"} \subseteq Timer \ {"Activity"}
    BY DEF Timer
  <2> QED
    BY <2>2, <2>3 DEF TimersSafe, TimersOK, StateWatched, TypeOK, TbfState
<1> QED
  BY <1>1, TimersAlways, PTL

\* At the end of an acknowledged transfer no PDU of BSSGP is forgotten: with nothing
\* more to handle, one waits only while T3195 ends the TBF.
THEOREM NoPduForgotten == Spec => []NoPduLeftBehind
<1>1. TypeOK /\ TimersSafe => NoPduLeftBehind
  <2> SUFFICES ASSUME TypeOK, TimersSafe, rlcMode = "ACK", tbfState = "INACTIVE", Quiet,
                      pduQueue > 0
               PROVE  fault \/ timer["T3195"]
    BY DEF NoPduLeftBehind
  <2>1. Range(queue) = {} /\ Range(polls) = {} /\ ~alloc
    BY DEF Quiet, Idle, Range
  <2>2. (Runs("T3195") => timer["T3195"]) /\ ~Open("last") /\ ~AskedIn(queue)
    BY <2>1 DEF Runs, ExpiresIn, Open, OpenIn, AskedIn
  <2> QED
    BY <2>1, <2>2 DEF TimersSafe, PduSeen, TypeOK
<1> QED
  BY <1>1, TimersAlways, PTL

------------------------------------------------------------------------------
(* The transmit window: the inductive invariant.                            *)

IsAckNack(m) == m.type = "outcome" /\ m.answer = "ack_nack"
IsTagged(m) == m.type = "outcome" /\ m.tag

\* V(S) counts the blocks built, and the MS has no others.
Numbers ==
    /\ vS = built % RLC_MOD_VAL
    /\ got \subseteq 0 .. msVR - 1
    /\ msVR <= built
    /\ lastDataBlock # LAST_BLOCK_UNKNOWN => built > 0 /\ Inc(lastDataBlock) = vS

\* Before the first block of a TBF the queue may still hold PACKET DOWNLINK ACK/NACKs of
\* the TBF before.  Only the outcome of a poll of this TBF makes it ALLOCATED, and the
\* queue is first in, first out: by then they have all been taken.
NoReport(q) == \A i \in DOMAIN q : ~IsAckNack(q[i])
AssignOnly(ps) == \A i \in DOMAIN ps : ps[i].heard => ps[i].kind = "assign"
StaleFirst(q) == \A i, j \in DOMAIN q : i < j /\ IsTagged(q[i]) => ~IsAckNack(q[j])
Fresh ==
    built = 0 =>
        /\ vA = 0
        /\ \A i \in BSN : pDlBlocks[i] = Null
        /\ AssignOnly(polls)
        /\ tbfState = "ALLOCATED" => NoReport(queue)

\* WindowOK and AckSound, and what they need: only blocks of the window await an
\* acknowledgement, and V(A) is not above what the MS has.
Window ==
    rlcMode = "ACK" =>
        /\ Dist(vA, vS) <= K /\ Dist(vA, vS) <= built
        /\ SeqAt(vA) <= msVR
        /\ 0 .. SeqAt(vA) - 1 \subseteq got
        /\ \A i \in BSN : vB[i] = "PENDING_ACK" => i \in Span(vA, vS)
        /\ \A i \in Span(vA, vS) :
              /\ tbfState # "FREE" => pDlBlocks[i] # Null
              /\ vB[i] # "INVALID"
              /\ vB[i] = "ACKED" => SeqAt(i) \in got

\* A PACKET DOWNLINK ACK/NACK that the task has not yet taken says nothing wrong about the
\* blocks from V(A) on, and a later one has no smaller SSN.
ReportOK(d) ==
    /\ Dist(vA, d.ssn) <= msVR - SeqAt(vA)
    /\ \A i \in Span(vA, d.ssn) \cap d.rrb : SeqAt(i) \in got
    /\ d.final => lastDataBlock # LAST_BLOCK_UNKNOWN /\ 0 .. built - 1 \subseteq got /\ d.ssn = vS
ReportsOK(q) ==
    /\ \A i \in DOMAIN q : IsAckNack(q[i]) => ReportOK(q[i].desc)
    /\ \A i, j \in DOMAIN q : i < j /\ IsAckNack(q[i]) /\ IsAckNack(q[j]) =>
           Dist(vA, q[i].desc.ssn) <= Dist(vA, q[j].desc.ssn)
QueueOK(q) ==
    /\ rlcMode = "ACK" /\ built > 0 => ReportsOK(q)
    /\ built = 0 => StaleFirst(q)

LinkInv == TypeOK /\ Numbers /\ Fresh /\ Window /\ QueueOK(queue)
------------------------------------------------------------------------------
(* Numbers and indices.                                                     *)

\* In the window, indices and block numbers count alike.
LEMMA SeqAtSpan ==
  ASSUME TypeOK, NEW i \in BSN, Dist(vA, i) <= Dist(vA, vS)
  PROVE  /\ SeqAt(vA) = built - Dist(vA, vS)
         /\ SeqAt(i) = SeqAt(vA) + Dist(vA, i)
  BY SMTT(30), DistSplit, DistType DEF TypeOK, SeqAt

\* The number of an index that has been used leads back to the index.
LEMMA NumberIndex ==
  ASSUME TypeOK, Numbers, NEW i \in BSN, Dist(i, vS) <= built
  PROVE  SeqAt(i) \in Nat /\ SeqAt(i) % RLC_MOD_VAL = i
<1> DEFINE n == SeqAt(i)
           d == Dist(i, vS)
<1>1. d \in BSN /\ built \in Nat /\ vS \in BSN
  BY DistType DEF TypeOK, BSN
<1>2. n \in Nat /\ built = n + d
  BY <1>1, WindowAssumption DEF SeqAt, BSN
<1>3. n % RLC_MOD_VAL \in BSN
  BY <1>2, ModType
<1>4. Plus(n % RLC_MOD_VAL, d) = vS
  BY <1>1, <1>2, ModPlus DEF Numbers
<1>5. Plus(i, d) = vS
  BY <1>1, PlusDist
<1> QED
  BY <1>1, <1>2, <1>3, <1>4, <1>5, PlusFrom

\* Two numbers with the same index that are less than RLC_MOD_VAL apart are the same.
LEMMA SameNumber ==
  ASSUME NEW n \in Nat, NEW m \in Nat, n % RLC_MOD_VAL = m % RLC_MOD_VAL,
         n - m < RLC_MOD_VAL, m - n < RLC_MOD_VAL
  PROVE  n = m
<1>1. ASSUME NEW a \in Nat, NEW b \in Nat, a % RLC_MOD_VAL = b % RLC_MOD_VAL,
             a <= b, b - a < RLC_MOD_VAL
      PROVE  a = b
  <2>1. b - a \in BSN /\ b = a + (b - a)
    BY <1>1, WindowAssumption DEF BSN
  <2>2. Dist(a % RLC_MOD_VAL, b % RLC_MOD_VAL) = b - a
    BY <2>1, ModDist
  <2>3. Dist(b % RLC_MOD_VAL, b % RLC_MOD_VAL) = 0
    BY ModType, PlusDist
  <2> QED
    BY <1>1, <2>2, <2>3
<1> QED
  BY <1>1
------------------------------------------------------------------------------
(* The queue.                                                               *)

\* A PACKET DOWNLINK ACK/NACK has a description.
LEMMA DescIn ==
  ASSUME NEW q \in Seq(Message), NEW i \in DOMAIN q, IsAckNack(q[i])
  PROVE  q[i].desc \in AckNackDescription
<1>1. q[i] \in Message
  OBVIOUS
<1> QED
  BY <1>1 DEF IsAckNack, Message, RtsMessage, OutcomeMessage, PduMessage, ExpiryMessage

\* Taking a message leaves the rest in order.
LEMMA QueueTail ==
  ASSUME NEW q \in Seq(Message), q # <<>>
  PROVE  /\ QueueOK(q) => QueueOK(Tail(q))
         /\ NoReport(q) => NoReport(Tail(q))
         /\ StaleFirst(q) /\ IsTagged(Head(q)) => NoReport(Tail(q))
         /\ rlcMode = "ACK" /\ built > 0 /\ QueueOK(q) /\ IsAckNack(Head(q)) =>
               /\ ReportOK(Head(q).desc)
               /\ \A j \in DOMAIN Tail(q) : IsAckNack(Tail(q)[j]) =>
                     Dist(vA, Head(q).desc.ssn) <= Dist(vA, Tail(q)[j].desc.ssn)
<1>1. /\ \A i \in DOMAIN Tail(q) : i + 1 \in DOMAIN q /\ Tail(q)[i] = q[i + 1] /\ 1 < i + 1
      /\ \A i, j \in DOMAIN Tail(q) : i < j => i + 1 < j + 1
      /\ 1 \in DOMAIN q /\ Head(q) = q[1]
  OBVIOUS
<1>2. NoReport(q) => NoReport(Tail(q))
  BY <1>1 DEF NoReport
<1>3. StaleFirst(q) => StaleFirst(Tail(q))
  BY <1>1 DEF StaleFirst
<1>4. StaleFirst(q) /\ IsTagged(Head(q)) => NoReport(Tail(q))
  BY <1>1 DEF StaleFirst, NoReport
<1>5. ReportsOK(q) => ReportsOK(Tail(q))
  BY <1>1 DEF ReportsOK
<1>6. ReportsOK(q) /\ IsAckNack(Head(q)) =>
               /\ ReportOK(Head(q).desc)
               /\ \A j \in DOMAIN Tail(q) : IsAckNack(Tail(q)[j]) =>
                     Dist(vA, Head(q).desc.ssn) <= Dist(vA, Tail(q)[j].desc.ssn)
  BY <1>1 DEF ReportsOK
<1> QED
  BY <1>2, <1>3, <1>4, <1>5, <1>6 DEF QueueOK

\* Clearing tags changes no report.
LEMMA QueueUntagged ==
  ASSUME NEW q \in Seq(Message)
  PROVE  /\ QueueOK(q) => QueueOK(UntaggedQueue(q))
         /\ NoReport(q) => NoReport(UntaggedQueue(q))
         /\ StaleFirst(UntaggedQueue(q))
<1> DEFINE u == UntaggedQueue(q)
<1>1. DOMAIN u = DOMAIN q
  BY DEF UntaggedQueue
<1>2. \A m \in Message : m.type = "outcome" =>
         LET n == [m EXCEPT !.tag = FALSE]
         IN  n.type = "outcome" /\ n.answer = m.answer /\ n.desc = m.desc /\ n.tag = FALSE
  BY DEF Message, RtsMessage, OutcomeMessage, PduMessage, ExpiryMessage
<1>3. \A i \in DOMAIN q : /\ IsAckNack(u[i]) <=> IsAckNack(q[i])
                          /\ IsAckNack(q[i]) => u[i].desc = q[i].desc
                          /\ ~IsTagged(u[i])
  BY <1>2 DEF UntaggedQueue, IsAckNack, IsTagged
<1> HIDE DEF u
<1>4. NoReport(q) => NoReport(u)
  BY <1>1, <1>3 DEF NoReport
<1>5. StaleFirst(u)
  BY <1>1, <1>3 DEF StaleFirst
<1>6. ReportsOK(q) => ReportsOK(u)
  BY <1>1, <1>3 DEF ReportsOK
<1> QED
  BY <1>4, <1>5, <1>6 DEF QueueOK, u

\* A new message that is not a PACKET DOWNLINK ACK/NACK.
LEMMA QueueAppend ==
  ASSUME NEW q \in Seq(Message), NEW m, ~IsAckNack(m)
  PROVE  /\ QueueOK(q) => QueueOK(Append(q, m))
         /\ NoReport(q) => NoReport(Append(q, m))
<1> DEFINE a == Append(q, m)
<1>1. \A i \in DOMAIN a : \/ i \in DOMAIN q /\ a[i] = q[i]
                          \/ a[i] = m
  OBVIOUS
<1> HIDE DEF a
<1>2. NoReport(q) => NoReport(a)
  BY <1>1 DEF NoReport
<1>3. StaleFirst(q) => StaleFirst(a)
  <2>1. \A i, j \in DOMAIN a : i < j /\ a[j] # m => i \in DOMAIN q /\ a[i] = q[i]
    BY DEF a
  <2> QED
    BY <1>1, <2>1 DEF StaleFirst
<1>4. ReportsOK(q) => ReportsOK(a)
  BY <1>1 DEF ReportsOK
<1> QED
  BY <1>2, <1>3, <1>4 DEF QueueOK, a

\* A message that is none of the first three kinds is not a report either.
LEMMA NotReports ==
  /\ \A ts : ~IsAckNack([type |-> "rts", ts |-> ts])
  /\ ~IsAckNack([type |-> "pdu_req"])
  /\ \A t : ~IsAckNack([type |-> "expiry", timer |-> t])
  /\ \A p, d : /\ ~IsAckNack(OutcomeOf(p, "nack", d))
               /\ ~IsAckNack(OutcomeOf(p, "control_ack", d))
               /\ IsAckNack(OutcomeOf(p, "ack_nack", d))
               /\ OutcomeOf(p, "ack_nack", d).desc = d
  BY DEF IsAckNack, OutcomeOf
\* The polls of a new TBF, and one more for its assignment.
LEMMA AssignPolls ==
  ASSUME NEW ps \in Seq(PollType)
  PROVE  /\ AssignOnly(Dropped(ps))
         /\ AssignOnly(ps) => AssignOnly(Untagged(ps))
         /\ AssignOnly(ps) /\ PollAssignment(ps) => AssignOnly(polls')
<1>1. \A p \in PollType : /\ ~[p EXCEPT !.tag = FALSE, !.heard = FALSE].heard
                          /\ [p EXCEPT !.tag = FALSE].heard = p.heard
                          /\ [p EXCEPT !.tag = FALSE].kind = p.kind
  BY DEF PollType
<1>2. \A i \in DOMAIN ps : ps[i] \in PollType
  OBVIOUS
<1>3. AssignOnly(Dropped(ps)) /\ (AssignOnly(ps) => AssignOnly(Untagged(ps)))
  BY <1>1, <1>2, Zenon DEF AssignOnly, Dropped, Untagged
<1>4. ASSUME NEW h, AssignOnly(ps) PROVE AssignOnly(Append(ps, Poll("assign", TRUE, h)))
  <2> DEFINE e == Poll("assign", TRUE, h)
             a == Append(ps, e)
  <2>1. e.kind = "assign"
    BY DEF Poll
  <2> HIDE DEF e
  <2>2. \A i \in DOMAIN a : \/ i \in DOMAIN ps /\ a[i] = ps[i]
                            \/ a[i] = e
    OBVIOUS
  <2> QED
    BY <1>4, <2>1, <2>2 DEF AssignOnly, e
<1> QED
  BY <1>3, <1>4 DEF PollAssignment
------------------------------------------------------------------------------
(* Steps that leave the window alone.                                       *)

\* What the invariant says of the queue and the window depends on the link only.
LEMMA QueueKept ==
  ASSUME UNCHANGED <<rlcMode, vS, vA, lastDataBlock, built, got, msVR>>, NEW q, QueueOK(q)
  PROVE  QueueOK(q)'
  BY DEF QueueOK, ReportsOK, ReportOK, SeqAt, Span, StaleFirst, IsAckNack, IsTagged

\* And so does what it says of the window.
LEMMA WindowKept ==
  ASSUME Window,
         UNCHANGED <<rlcMode, vS, vA, vB, built, got, msVR>>,
         UNCHANGED pDlBlocks \/ tbfState' = "FREE",
         tbfState = "FREE" => tbfState' = "FREE"
  PROVE  Window'
  BY DEF Window, SeqAt, Span

\* A step that only takes a message, posts one or changes the state of the TBF.
LEMMA LinkKept ==
  ASSUME LinkInv, TypeOK',
         UNCHANGED <<rlcMode, vS, vA, vB, lastDataBlock, built, got, msVR>>,
         \/ UNCHANGED pDlBlocks
         \/ tbfState' = "FREE" /\ \A i \in BSN : pDlBlocks'[i] = Null,
         tbfState = "FREE" => tbfState' = "FREE",
         NEW q, queue' = q, QueueOK(q),
         built = 0 /\ tbfState' = "ALLOCATED" => NoReport(q),
         built = 0 => AssignOnly(polls')
  PROVE  LinkInv'
<1>1. Numbers'
  BY DEF LinkInv, Numbers
<1>2. Window'
  BY WindowKept DEF LinkInv
<1>3. QueueOK(queue)'
  <2>1. QueueOK(q)'
    BY QueueKept
  <2> QED
    BY <2>1 DEF QueueOK, ReportsOK, StaleFirst
<1>4. Fresh'
  BY DEF LinkInv, Fresh, NoReport
<1> QED
  BY <1>1, <1>2, <1>3, <1>4 DEF LinkInv
------------------------------------------------------------------------------
(* Sending a block.                                                         *)

\* What SetPollingBit and the transmission do that concerns the window.
LEMMA SetPollingBitSends ==
  ASSUME NEW n, NEW last, NEW ts, NEW st, NEW ps, NEW T, NEW q,
         SetPollingBit(n, last, ts, st, ps, T, q)
  PROVE  /\ queue' \in {q, UntaggedQueue(q)}
         /\ \/ UNCHANGED <<got, msVR>>
            \/ got' = got \cup {n} /\ msVR' = IF n >= msVR THEN n + 1 ELSE msVR
  BY Zenon DEF SetPollingBit

\* The MS has more, of what was built.
LEMMA GotMore ==
  ASSUME TypeOK, Numbers, NEW n \in Nat,
         \/ UNCHANGED <<got, msVR>>
         \/ got' = got \cup {n} /\ msVR' = IF n >= msVR THEN n + 1 ELSE msVR
  PROVE  /\ got \subseteq got' /\ msVR <= msVR'
         /\ got' \subseteq 0 .. msVR' - 1
         /\ n < built => msVR' <= built
         /\ n = built => msVR' <= built + 1
<1> DEFINE m == IF n >= msVR THEN n + 1 ELSE msVR
<1>1. built \in Nat /\ msVR \in Nat /\ msVR <= built /\ got \subseteq 0 .. msVR - 1
  BY DEF TypeOK, Numbers
<1>2. CASE UNCHANGED <<got, msVR>>
  BY <1>1, <1>2
<1>3. CASE got' = got \cup {n} /\ msVR' = m
  <2>1. m \in Nat /\ msVR <= m /\ n < m /\ (m = msVR \/ m = n + 1)
    BY <1>1
  <2> HIDE DEF m
  <2>2. 0 .. msVR - 1 \subseteq 0 .. m - 1
    BY <1>1, <2>1
  <2>3. n \in 0 .. m - 1
    BY <2>1
  <2>4. got \subseteq got' /\ got' \subseteq 0 .. msVR' - 1
    BY <1>1, <1>3, <2>2, <2>3
  <2>5. (n < built => m <= built) /\ (n = built => m <= built + 1)
    BY <1>1, <2>1
  <2> QED
    BY <1>3, <2>1, <2>4, <2>5
<1> QED
  BY <1>2, <1>3

\* A block of the window, or the last one, is sent again.
LEMMA SentAgain ==
  ASSUME LinkInv, TypeOK', tbfState # "FREE", rlcMode = "ACK",
         NEW q \in Seq(Message), QueueOK(q), queue' \in {q, UntaggedQueue(q)},
         NEW i \in BSN, i \in Span(vA, vS) \/ i = lastDataBlock,
         UNCHANGED <<rlcMode, vS, vA, pDlBlocks, lastDataBlock, built>>,
         UNCHANGED vB \/ (i \in Span(vA, vS) /\ vB' = [vB EXCEPT ![i] = "PENDING_ACK"]),
         \/ UNCHANGED <<got, msVR>>
         \/ got' = got \cup {SeqAt(i)} /\ msVR' = IF SeqAt(i) >= msVR THEN SeqAt(i) + 1 ELSE msVR
  PROVE  LinkInv'
<1> USE DEF LinkInv
<1>1. vA \in BSN /\ vS \in BSN /\ built \in Nat /\ msVR \in Nat /\ msVR' \in Nat
  BY DEF TypeOK
<1>2. SeqAt(i) \in 0 .. built - 1
  <2>1. CASE i \in Span(vA, vS)
    <3>1. Dist(vA, i) < Dist(vA, vS) /\ Dist(vA, vS) <= built
      BY <2>1 DEF Span, Window
    <3>2. SeqAt(i) = built - Dist(vA, vS) + Dist(vA, i)
      BY <3>1, <1>1, SeqAtSpan, DistType
    <3> QED
      BY <1>1, <3>1, <3>2, DistType, WindowAssumption
  <2>2. CASE i = lastDataBlock
    <3>1. built > 0 /\ Inc(i) = vS
      BY <2>2, WindowAssumption DEF Numbers, LAST_BLOCK_UNKNOWN, BSN
    <3>2. Dist(i, vS) = 1
      BY <3>1, WindowAssumption DEF Dist, Inc, BSN
    <3> QED
      BY <1>1, <3>1, <3>2 DEF SeqAt
  <2> QED
    BY <2>1, <2>2
<1>3. /\ got \subseteq got' /\ msVR <= msVR'
      /\ got' \subseteq 0 .. msVR' - 1 /\ msVR' <= built
  <2>1. SeqAt(i) \in Nat /\ SeqAt(i) < built
    BY <1>1, <1>2
  <2> QED
    BY <2>1, GotMore
<1>4. built > 0
  BY <1>1, <1>2
<1>5. Numbers'
  BY <1>3 DEF Numbers
<1>6. Fresh'
  BY <1>1, <1>4 DEF Fresh
<1>7. /\ SeqAt(vA)' = SeqAt(vA)
      /\ \A k \in BSN : SeqAt(k)' = SeqAt(k)
      /\ Span(vA, vS)' = Span(vA, vS)
  BY DEF SeqAt, Span
<1>8. Window'
  <2>1. SeqAt(vA) \in Int
    BY <1>1, SeqAtType
  <2>2. \A k \in BSN : vB'[k] = IF vB' # vB /\ k = i THEN "PENDING_ACK" ELSE vB[k]
    BY DEF TypeOK
  <2>3. Span(vA, vS) \subseteq BSN
    BY SpanType
  <2>4. /\ Dist(vA, vS) <= K /\ Dist(vA, vS) <= built
        /\ SeqAt(vA) <= msVR
        /\ 0 .. SeqAt(vA) - 1 \subseteq got
        /\ \A k \in BSN : vB[k] = "PENDING_ACK" => k \in Span(vA, vS)
        /\ \A k \in Span(vA, vS) :
              /\ pDlBlocks[k] # Null
              /\ vB[k] # "INVALID"
              /\ vB[k] = "ACKED" => SeqAt(k) \in got
    BY DEF Window
  <2>5. /\ (Dist(vA, vS) <= K)' /\ (Dist(vA, vS) <= built)'
        /\ (SeqAt(vA) <= msVR)'
        /\ (0 .. SeqAt(vA) - 1 \subseteq got)'
    BY <1>1, <1>3, <1>7, <2>1, <2>4
  <2>6. \A k \in BSN : vB'[k] = "PENDING_ACK" => k \in Span(vA, vS)'
    BY <1>7, <2>2, <2>4
  <2>7. \A k \in Span(vA, vS)' :
              /\ pDlBlocks'[k] # Null
              /\ vB'[k] # "INVALID"
              /\ vB'[k] = "ACKED" => SeqAt(k)' \in got'
    BY <1>3, <1>7, <2>2, <2>3, <2>4
  <2> QED
    BY <2>5, <2>6, <2>7 DEF Window
<1>9. ASSUME NEW r \in Seq(Message), QueueOK(r) PROVE QueueOK(r)'
  <2>1. ASSUME NEW d \in AckNackDescription, ReportOK(d) PROVE ReportOK(d)'
    <3>1. Span(vA, d.ssn) \subseteq BSN /\ Dist(vA, d.ssn) \in Int
      BY <1>1, SpanType, DistType DEF AckNackDescription
    <3>2. SeqAt(vA) \in Int /\ built \in Int
      BY <1>1, SeqAtType
    <3>3. Dist(vA, d.ssn) <= msVR' - SeqAt(vA)
      BY <1>1, <1>3, <2>1, <3>1, <3>2 DEF ReportOK
    <3>4. \A k \in Span(vA, d.ssn) \cap d.rrb : SeqAt(k)' \in got'
      BY <1>3, <1>7, <2>1, <3>1 DEF ReportOK
    <3>5. d.final => lastDataBlock # LAST_BLOCK_UNKNOWN /\ 0 .. built - 1 \subseteq got' /\ d.ssn = vS
      BY <1>3, <2>1 DEF ReportOK
    <3> QED
      BY <1>7, <3>3, <3>4, <3>5 DEF ReportOK, Span
  <2> QED
    BY <1>4, <1>9, <2>1, DescIn DEF QueueOK, ReportsOK
<1>10. QueueOK(queue)'
  <2>1. QueueOK(q)' /\ QueueOK(UntaggedQueue(q))'
    BY <1>9, QueueUntagged, UntaggedType
  <2> QED
    BY <2>1 DEF QueueOK, ReportsOK, StaleFirst
<1> QED
  BY <1>5, <1>6, <1>8, <1>10

\* A block is built: the window grows by one, and its numbers stay what they were.
LEMMA WindowGrows ==
  ASSUME TypeOK, Dist(vA, vS) <= K, ~Stalled, rlcMode = "ACK",
         UNCHANGED vA, vS' = Inc(vS), built' = built + 1
  PROVE  /\ Dist(vA, vS') = Dist(vA, vS) + 1
         /\ Dist(vA, vS') <= K
         /\ SeqAt(vA)' = SeqAt(vA)
         /\ \A k \in Span(vA, vS) : SeqAt(k)' = SeqAt(k)
         /\ Span(vA, vS)' = Span(vA, vS) \cup {vS}
<1>1. vA \in BSN /\ vS \in BSN /\ built \in Nat /\ K \in BSN /\ Inc(vS) \in BSN
  BY WindowAssumption, IncType DEF TypeOK, BSN
<1>2. Dist(vA, vS) < K
  <2>1. Plus(vA, Dist(vA, vS)) = vS
    BY <1>1, PlusDist
  <2>2. Dist(vA, vS) # K
    BY <2>1 DEF Stalled
  <2> QED
    BY <1>1, <2>2, DistType, WindowAssumption DEF BSN
<1>3. Dist(vA, Inc(vS)) = Dist(vA, vS) + 1
  BY <1>1, <1>2, DistInc, DistType, WindowAssumption
<1>4. Dist(vA, vS') <= K
  BY <1>1, <1>2, <1>3, DistType, WindowAssumption
<1>5. ASSUME NEW k \in BSN, Dist(vA, k) <= Dist(vA, vS)
      PROVE  built' - Dist(k, vS') = built - Dist(k, vS)
  <2>1. Dist(vA, k) \in Int /\ Dist(vA, vS) \in Int
    BY <1>1, DistType
  <2>2. Dist(k, vS) = Dist(vA, vS) - Dist(vA, k)
    BY <1>1, <1>5, DistSplit
  <2>3. Dist(k, Inc(vS)) = Dist(vA, vS) + 1 - Dist(vA, k)
    BY <1>1, <1>3, <1>5, <2>1, DistSplit
  <2> QED
    BY <1>1, <2>1, <2>2, <2>3
<1>6. SeqAt(vA)' = SeqAt(vA)
  <2>1. Dist(vA, vA) <= Dist(vA, vS)
    BY <1>1, PlusDist, DistType
  <2>2. SeqAt(vA)' = built' - Dist(vA, vS')
    BY DEF SeqAt
  <2> QED
    BY <1>1, <1>5, <2>1, <2>2 DEF SeqAt
<1>7. \A k \in Span(vA, vS) : SeqAt(k)' = SeqAt(k)
  <2>1. \A k \in Span(vA, vS) : k \in BSN /\ Dist(vA, k) <= Dist(vA, vS)
    BY <1>1, DistType DEF Span
  <2>2. \A k \in BSN : SeqAt(k)' = built' - Dist(k, vS')
    BY DEF SeqAt
  <2> QED
    BY <1>5, <2>1, <2>2 DEF SeqAt
<1>8. Span(vA, Inc(vS)) = Span(vA, vS) \cup {vS}
  <2>1. \A k \in BSN : Dist(vA, k) < Dist(vA, vS) + 1
                         <=> Dist(vA, k) < Dist(vA, vS) \/ k = vS
    BY <1>1, DistType, DistSame
  <2> QED
    BY <1>1, <1>3, <2>1 DEF Span
<1> QED
  BY <1>3, <1>4, <1>6, <1>7, <1>8 DEF Span

\* What a report says is of the window: it cannot be of blocks not yet built.
LEMMA ReportInWindow ==
  ASSUME TypeOK, msVR <= built, NEW d \in AckNackDescription,
         Dist(vA, d.ssn) <= msVR - SeqAt(vA)
  PROVE  /\ Dist(vA, d.ssn) <= Dist(vA, vS)
         /\ Span(vA, d.ssn) \subseteq Span(vA, vS)
<1>1. /\ vA \in BSN /\ vS \in BSN /\ d.ssn \in BSN /\ built \in Nat /\ msVR \in Nat
      /\ Dist(vA, d.ssn) \in Int /\ Dist(vA, vS) \in Int
  BY DistType DEF TypeOK, AckNackDescription
<1>2. Dist(vA, d.ssn) <= Dist(vA, vS)
  BY <1>1 DEF SeqAt
<1> QED
  BY <1>1, <1>2, DistType DEF Span

\* BuildDLRlcBlock with a block b from the pool: the reports in the queue say nothing of it.
LEMMA Built ==
  ASSUME LinkInv, TypeOK', tbfState # "FREE", lastDataBlock = LAST_BLOCK_UNKNOWN, ~Stalled,
         NEW q \in Seq(Message), QueueOK(q), queue' \in {q, UntaggedQueue(q)},
         built = 0 => NoReport(q),
         UNCHANGED <<rlcMode, vA>>, vS' = Inc(vS), built' = built + 1,
         NEW b \in Block,
         pDlBlocks' = [pDlBlocks EXCEPT ![vS] = b],
         vB' = [vB EXCEPT ![vS] = "PENDING_ACK"],
         lastDataBlock' \in {vS, lastDataBlock},
         \/ UNCHANGED <<got, msVR>>
         \/ got' = got \cup {built} /\ msVR' = IF built >= msVR THEN built + 1 ELSE msVR
  PROVE  LinkInv'
<1> USE DEF LinkInv
<1>1. vA \in BSN /\ vS \in BSN /\ built \in Nat /\ msVR \in Nat /\ msVR' \in Nat
  BY DEF TypeOK
<1>2. /\ got \subseteq got' /\ msVR <= msVR'
      /\ got' \subseteq 0 .. msVR' - 1 /\ msVR' <= built'
  BY <1>1, GotMore
<1>3. built' > 0 /\ built' \in Nat
  BY <1>1
<1>4. Numbers'
  <2>1. vS' = built' % RLC_MOD_VAL
    BY <1>1, ModInc DEF Numbers
  <2>2. lastDataBlock' # LAST_BLOCK_UNKNOWN => built' > 0 /\ Inc(lastDataBlock') = vS'
    BY <1>3
  <2> QED
    BY <1>2, <2>1, <2>2 DEF Numbers
<1>5. Fresh'
  BY <1>3 DEF Fresh
<1>6. Window'
  <2> SUFFICES ASSUME rlcMode = "ACK" PROVE Window'
    BY DEF Window
  <2>1. /\ Dist(vA, vS) <= K /\ Dist(vA, vS) <= built
        /\ SeqAt(vA) <= msVR
        /\ 0 .. SeqAt(vA) - 1 \subseteq got
        /\ \A k \in BSN : vB[k] = "PENDING_ACK" => k \in Span(vA, vS)
        /\ \A k \in Span(vA, vS) :
              /\ pDlBlocks[k] # Null
              /\ vB[k] # "INVALID"
              /\ vB[k] = "ACKED" => SeqAt(k) \in got
    BY DEF Window
  <2>2. /\ Dist(vA, vS') = Dist(vA, vS) + 1
        /\ Dist(vA, vS') <= K
        /\ SeqAt(vA)' = SeqAt(vA)
        /\ \A k \in Span(vA, vS) : SeqAt(k)' = SeqAt(k)
        /\ Span(vA, vS)' = Span(vA, vS) \cup {vS}
    BY <2>1, WindowGrows
  <2>3. SeqAt(vA) \in Int /\ Dist(vA, vS) \in Int
    BY <1>1, SeqAtType, DistType
  <2>4. /\ (Dist(vA, vS) <= K)' /\ (Dist(vA, vS) <= built)'
        /\ (SeqAt(vA) <= msVR)'
        /\ (0 .. SeqAt(vA) - 1 \subseteq got)'
    BY <1>1, <1>2, <2>1, <2>2, <2>3
  <2>5. \A k \in BSN : /\ vB'[k] = IF k = vS THEN "PENDING_ACK" ELSE vB[k]
                       /\ pDlBlocks'[k] = IF k = vS THEN b ELSE pDlBlocks[k]
    BY DEF TypeOK
  <2>6. b # Null
    BY DLAssumption
  <2>7. \A k \in BSN : vB'[k] = "PENDING_ACK" => k \in Span(vA, vS)'
    BY <2>1, <2>2, <2>5
  <2>8. ASSUME NEW k \in Span(vA, vS)'
        PROVE  /\ pDlBlocks'[k] # Null
               /\ vB'[k] # "INVALID"
               /\ vB'[k] = "ACKED" => SeqAt(k)' \in got'
    <3>1. k \in BSN
      BY <1>1, <2>2, SpanType
    <3>2. CASE k = vS
      BY <1>1, <2>5, <2>6, <3>2
    <3>3. CASE k # vS
      BY <1>2, <2>1, <2>2, <2>5, <3>1, <3>3
    <3> QED
      BY <3>2, <3>3
  <2> QED
    BY <2>4, <2>7, <2>8 DEF Window
<1>7. QueueOK(queue)'
  <2>1. ASSUME NEW r \in Seq(Message), QueueOK(r), built = 0 => NoReport(r) PROVE QueueOK(r)'
    <3> SUFFICES ASSUME rlcMode = "ACK" PROVE ReportsOK(r)'
      BY <1>3 DEF QueueOK
    <3>1. CASE built = 0
      BY <2>1, <3>1 DEF NoReport, ReportsOK
    <3>2. CASE built # 0
      <4>1. ReportsOK(r)
        BY <1>1, <2>1, <3>2 DEF QueueOK
      <4>2. ASSUME NEW d \in AckNackDescription, ReportOK(d) PROVE ReportOK(d)'
        <5>1. /\ SeqAt(vA)' = SeqAt(vA)
              /\ \A k \in Span(vA, vS) : SeqAt(k)' = SeqAt(k)
          BY WindowGrows DEF Window
        <5>2. Dist(vA, d.ssn) <= msVR - SeqAt(vA) /\ msVR <= built
          BY <4>2 DEF ReportOK, Numbers
        <5>3. Span(vA, d.ssn) \subseteq Span(vA, vS)
          BY <5>2, ReportInWindow
        <5>4. SeqAt(vA) \in Int /\ Dist(vA, d.ssn) \in Int
          BY <1>1, SeqAtType, DistType DEF AckNackDescription
        <5>5. Dist(vA, d.ssn) <= msVR' - SeqAt(vA)
          BY <1>1, <1>2, <5>2, <5>4
        <5>6. \A k \in Span(vA, d.ssn) \cap d.rrb : SeqAt(k)' \in got'
          BY <1>2, <4>2, <5>1, <5>3 DEF ReportOK
        <5>7. ~d.final
          BY <4>2 DEF ReportOK
        <5> QED
          BY <5>1, <5>5, <5>6, <5>7 DEF ReportOK, Span
      <4> QED
        BY <4>1, <4>2, DescIn, <2>1 DEF ReportsOK
    <3> QED
      BY <3>1, <3>2
  <2>2. QueueOK(q)' /\ QueueOK(UntaggedQueue(q))'
    BY <2>1, QueueUntagged, UntaggedType
  <2> QED
    BY <2>2 DEF QueueOK, ReportsOK, StaleFirst
<1> QED
  BY <1>4, <1>5, <1>6, <1>7

\* RetransmitNackedDLRlcBlock picks a block of the window.
LEMMA NackedKeeps ==
  ASSUME LinkInv, TypeOK', tbfState # "FREE", UNCHANGED <<rlcMode, vA>>,
         NEW ts, NEW q \in Seq(Message), QueueOK(q), RetransmitNacked(ts, q)
  PROVE  LinkInv'
<1> DEFINE i == FirstFrom(vA, Nacked)
<1>1. i \in BSN /\ i \in Span(vA, vS)
  <2>1. Nacked \in SUBSET BSN /\ Nacked # {} /\ vA \in BSN
    BY SpanType, Zenon DEF RetransmitNacked, Nacked, LinkInv, TypeOK
  <2>2. i \in Nacked
    BY <2>1, FirstFromIn
  <2> QED
    BY <2>1, <2>2 DEF Nacked
<1>2. /\ vB' = [vB EXCEPT ![i] = "PENDING_ACK"]
      /\ UNCHANGED <<vS, pDlBlocks, lastDataBlock, built>> /\ rlcMode = "ACK"
  BY Zenon DEF RetransmitNacked
<1>3. /\ queue' \in {q, UntaggedQueue(q)}
      /\ \/ UNCHANGED <<got, msVR>>
         \/ got' = got \cup {SeqAt(i)} /\ msVR' = IF SeqAt(i) >= msVR THEN SeqAt(i) + 1 ELSE msVR
  BY SetPollingBitSends, Zenon DEF RetransmitNacked
<1> HIDE DEF i
<1> QED
  BY <1>1, <1>2, <1>3, SentAgain

\* RetransmitPendingAckDLRlcBlock picks a block of the window, or the last one.
LEMMA PendingKeeps ==
  ASSUME LinkInv, TypeOK', tbfState # "FREE", UNCHANGED <<rlcMode, vA>>,
         NEW ts, NEW q \in Seq(Message), QueueOK(q),
         built = 0 /\ tbfState = "ALLOCATED" => NoReport(q), RetransmitPendingAck(ts, q)
  PROVE  LinkInv'
<1> DEFINE scan == ~(lastDataBlock # LAST_BLOCK_UNKNOWN /\ ~lastBlockSentOnPollTs) /\ Pending # {}
           i == IF scan THEN FirstFrom(lastPendingAckXmit, Pending) ELSE lastDataBlock
           T == IF i = lastDataBlock THEN {"T3191"} ELSE {}
<1>1. /\ UNCHANGED <<vS, vB, pDlBlocks, lastDataBlock, built>>
      /\ rlcMode = "ACK" /\ (scan \/ lastDataBlock # LAST_BLOCK_UNKNOWN)
  BY Zenon DEF RetransmitPendingAck
<1>2. i \in BSN /\ (i \in Span(vA, vS) \/ i = lastDataBlock)
  <2>1. CASE scan
    <3>1. Pending \in SUBSET BSN /\ Pending # {} /\ lastPendingAckXmit \in BSN
      BY <2>1, SpanType DEF Pending, LinkInv, TypeOK
    <3>2. i \in Pending
      BY <2>1, <3>1, FirstFromIn
    <3> HIDE DEF i
    <3>3. i \in BSN /\ vB[i] = "PENDING_ACK"
      BY <3>1, <3>2 DEF Pending
    <3> QED
      BY <1>1, <3>3 DEF LinkInv, Window
  <2>2. CASE ~scan
    BY <1>1, <2>2 DEF LinkInv, TypeOK
  <2> QED
    BY <2>1, <2>2
<1>3. CASE pDlBlocks[i] = Null
  <2>1. queue' = q /\ UNCHANGED <<tbfState, polls, msVars>>
    BY <1>3, Zenon DEF RetransmitPendingAck
  <2> HIDE DEF i, scan
  <2>2. built = 0 => AssignOnly(polls')
    BY <2>1 DEF LinkInv, Fresh
  <2> QED
    BY <1>1, <2>1, <2>2, LinkKept DEF msVars
<1>4. CASE pDlBlocks[i] # Null
  <2>1. SetPollingBit(SeqAt(i), i = lastDataBlock, ts, tbfState, polls, T, q)
    BY <1>4, Zenon DEF RetransmitPendingAck
  <2> HIDE DEF i, scan, T
  <2>2. /\ queue' \in {q, UntaggedQueue(q)}
        /\ \/ UNCHANGED <<got, msVR>>
           \/ got' = got \cup {SeqAt(i)} /\ msVR' = IF SeqAt(i) >= msVR THEN SeqAt(i) + 1 ELSE msVR
    BY <2>1, SetPollingBitSends
  <2> QED
    BY <1>1, <1>2, <2>2, SentAgain
<1> QED
  BY <1>3, <1>4

\* BuildDLRlcBlock builds a block, or finds the pool empty.
LEMMA BuildKeeps ==
  ASSUME LinkInv, TypeOK', tbfState = "ALLOCATED", UNCHANGED <<rlcMode, vA>>,
         NEW ts, NEW q \in Seq(Message), QueueOK(q),
         built = 0 => NoReport(q), BuildDLRlcBlock(ts, q)
  PROVE  LinkInv'
<1> DEFINE avail == pool \cup Freed
<1>1. lastDataBlock = LAST_BLOCK_UNKNOWN /\ ~Stalled
  BY Zenon DEF BuildDLRlcBlock
<1>2. CASE avail = {}
  <2>1. /\ queue' = q
        /\ UNCHANGED <<vS, vB, pDlBlocks, lastDataBlock, built, tbfState, polls, msVars>>
    BY <1>2, Zenon DEF BuildDLRlcBlock
  <2>2. built = 0 => AssignOnly(polls')
    BY <2>1 DEF LinkInv, Fresh
  <2> QED
    BY <2>1, <2>2, LinkKept DEF msVars
<1>3. CASE avail # {}
  <2>1. PICK b \in avail :
           /\ pDlBlocks' = [pDlBlocks EXCEPT ![vS] = b]
           /\ vB' = [vB EXCEPT ![vS] = "PENDING_ACK"]
           /\ vS' = Inc(vS) /\ built' = built + 1
           /\ lastDataBlock' \in {vS, lastDataBlock}
           /\ queue' \in {q, UntaggedQueue(q)}
           /\ \/ UNCHANGED <<got, msVR>>
              \/ got' = got \cup {built} /\ msVR' = IF built >= msVR THEN built + 1 ELSE msVR
    <3>1. PICK b \in avail, f \in 0 .. pduQueue, final \in BOOLEAN, realloc \in BOOLEAN,
               heard \in Hears :
             /\ pDlBlocks' = [pDlBlocks EXCEPT ![vS] = b]
             /\ vB' = [vB EXCEPT ![vS] = "PENDING_ACK"]
             /\ vS' = Inc(vS) /\ built' = built + 1
             /\ lastDataBlock' = IF final THEN vS ELSE lastDataBlock
             /\ SetPollingBit(built, final, ts,
                        IF realloc THEN "REALLOCATING" ELSE tbfState,
                        IF realloc THEN Append(polls, Poll("assign", TRUE, heard)) ELSE polls,
                        IF final THEN {"T3191"} ELSE {}, q)
      BY <1>3, ZenonT(40) DEF BuildDLRlcBlock
    <3>2. lastDataBlock' \in {vS, lastDataBlock}
      BY <3>1
    <3> QED
      BY <3>1, <3>2, SetPollingBitSends
  <2>2. b \in Block
    BY DEF LinkInv, TypeOK, Freed
  <2> QED
    BY <1>1, <2>1, <2>2, Built
<1> QED
  BY <1>2, <1>3

\* SendDownlinkDataBlock.
LEMMA SendKeeps ==
  ASSUME LinkInv, TypeOK', NEW ts, NEW q \in Seq(Message), QueueOK(q),
         built = 0 /\ tbfState = "ALLOCATED" => NoReport(q), SendDownlinkDataBlock(ts, q)
  PROVE  LinkInv'
<1>1. built = 0 => AssignOnly(polls)
  BY DEF LinkInv, Fresh
<1>2. CASE tbfState = "ALLOCATED" /\ GetDLRlcBlock(ts, q)
  <2>1. UNCHANGED <<rlcMode, vA>> /\ tbfState = "ALLOCATED"
    BY <1>2 DEF GetDLRlcBlock
  <2>2. CASE RetransmitNacked(ts, q)
    BY <2>1, <2>2, NackedKeeps
  <2>3. CASE BuildDLRlcBlock(ts, q)
    BY <2>1, <2>3, BuildKeeps
  <2>4. CASE RetransmitPendingAck(ts, q)
    BY <2>1, <2>4, PendingKeeps
  <2>5. CASE NothingToSend(ts, q)
    BY <1>1, <2>1, <2>5, LinkKept DEF NothingToSend, msVars
  <2> QED
    BY <1>2, <2>2, <2>3, <2>4, <2>5 DEF GetDLRlcBlock
<1>3. CASE tbfState # "ALLOCATED"
  BY <1>1, <1>3, LinkKept DEF SendDownlinkDataBlock, linkVars, msVars
<1> QED
  BY <1>2, <1>3 DEF SendDownlinkDataBlock
------------------------------------------------------------------------------
(* Reading a PACKET DOWNLINK ACK/NACK.                                      *)

\* V(A) passes blocks that the MS has, and no SSN that is still to come.
LEMMA VAMoves ==
  ASSUME LinkInv, TypeOK', rlcMode = "ACK", built > 0, tbfState # "FREE",
         NEW nv \in BSN, NEW d \in AckNackDescription, ReportOK(d),
         Dist(vA, nv) <= Dist(vA, d.ssn),
         \A i \in Span(vA, nv) : SeqAt(i) \in got,
         NEW q \in Seq(Message), QueueOK(q), queue' = q,
         \A j \in DOMAIN q : IsAckNack(q[j]) => Dist(vA, d.ssn) <= Dist(vA, q[j].desc.ssn),
         vA' = nv, UNCHANGED <<rlcMode, vS, lastDataBlock, built, got, msVR>>,
         \A i \in BSN : vB'[i] = "PENDING_ACK" => vB[i] = "PENDING_ACK" /\ i \notin Span(vA, nv),
         \A i \in Span(vA, vS) \ Span(vA, nv) :
            /\ pDlBlocks'[i] = pDlBlocks[i]
            /\ vB'[i] = vB[i] \/ vB'[i] = "NACKED" \/ (vB'[i] = "ACKED" /\ SeqAt(i) \in got)
  PROVE  LinkInv'
<1> USE DEF LinkInv
<1>1. /\ vA \in BSN /\ vS \in BSN /\ d.ssn \in BSN /\ built \in Nat /\ msVR \in Nat
      /\ Dist(vA, vS) \in Nat /\ Dist(vA, nv) \in Nat /\ Dist(vA, d.ssn) \in Nat
      /\ SeqAt(vA) \in Int
  <2>1. vA \in BSN /\ vS \in BSN /\ d.ssn \in BSN /\ built \in Nat /\ msVR \in Nat
    BY DEF TypeOK, AckNackDescription
  <2>2. Dist(vA, vS) \in Nat /\ Dist(vA, nv) \in Nat /\ Dist(vA, d.ssn) \in Nat
    BY <2>1, DistType
  <2> QED
    BY <2>1, <2>2, SeqAtType
<1>2. /\ Dist(vA, vS) <= K /\ Dist(vA, vS) <= built
      /\ SeqAt(vA) <= msVR
      /\ 0 .. SeqAt(vA) - 1 \subseteq got
      /\ \A i \in BSN : vB[i] = "PENDING_ACK" => i \in Span(vA, vS)
      /\ \A i \in Span(vA, vS) :
              /\ pDlBlocks[i] # Null
              /\ vB[i] # "INVALID"
              /\ vB[i] = "ACKED" => SeqAt(i) \in got
  BY DEF Window
<1>3. Dist(vA, d.ssn) <= msVR - SeqAt(vA) /\ msVR <= built
  BY DEF ReportOK, Numbers
<1>4. Dist(vA, nv) <= Dist(vA, vS)
  BY <1>1, <1>3, ReportInWindow
<1>5. Dist(nv, vS) = Dist(vA, vS) - Dist(vA, nv)
  BY <1>1, <1>4, DistSplit
<1>6. SeqAt(nv) = SeqAt(vA) + Dist(vA, nv)
  BY <1>1, <1>4, SeqAtSpan
<1>7. \A i \in BSN : SeqAt(i)' = SeqAt(i)
  BY DEF SeqAt
<1>8. SeqAt(vA)' = SeqAt(nv)
  BY DEF SeqAt
<1>9. Span(nv, vS) = Span(vA, vS) \ Span(vA, nv)
  BY <1>1, <1>4, SpanSplit
<1>10. Numbers' /\ Fresh'
  BY <1>1 DEF Numbers, Fresh
<1>11. Window'
  <2>1. (Dist(vA, vS) <= K)' /\ (Dist(vA, vS) <= built)'
    BY <1>1, <1>2, <1>5, WindowAssumption
  <2>2. (SeqAt(vA) <= msVR)'
    BY <1>1, <1>3, <1>6, <1>8
  <2>3. (0 .. SeqAt(vA) - 1 \subseteq got)'
    <3>1. ASSUME NEW n \in 0 .. SeqAt(nv) - 1 PROVE n \in got
      <4>1. CASE n < SeqAt(vA)
        BY <1>1, <1>2, <1>6, <3>1, <4>1
      <4>2. CASE n >= SeqAt(vA)
        <5> DEFINE e == n - SeqAt(vA)
                   i == Plus(vA, e)
        <5>1. e \in BSN /\ e < Dist(vA, nv)
          <6>1. e \in Nat /\ e < Dist(vA, nv)
            BY <1>1, <1>6, <3>1, <4>2
          <6> QED
            BY <1>1, <6>1, DistType, WindowAssumption DEF BSN
        <5>2. i \in BSN /\ Dist(vA, i) = e
          BY <1>1, <5>1, PlusDist
        <5>3. i \in Span(vA, nv)
          BY <5>1, <5>2 DEF Span
        <5> HIDE DEF i
        <5>4. SeqAt(i) = SeqAt(vA) + Dist(vA, i)
          <6>1. Dist(vA, i) <= Dist(vA, vS)
            BY <1>1, <1>4, <5>1, <5>2
          <6> QED
            BY <5>2, <6>1, SeqAtSpan
        <5>5. SeqAt(i) = n
          BY <1>1, <3>1, <5>2, <5>4
        <5> QED
          BY <5>3, <5>5
      <4> QED
        BY <1>1, <3>1, <4>1, <4>2
    <3> QED
      BY <1>8, <3>1
  <2>4. \A i \in BSN : vB'[i] = "PENDING_ACK" => i \in Span(vA, vS)'
    BY <1>2, <1>9 DEF Span
  <2>5. Span(vA, vS)' = Span(nv, vS)
    BY DEF Span
  <2>6. ASSUME NEW i \in Span(vA, vS)'
        PROVE  /\ pDlBlocks'[i] # Null
               /\ vB'[i] # "INVALID"
               /\ vB'[i] = "ACKED" => SeqAt(i)' \in got'
    <3>1. i \in Span(vA, vS) \ Span(vA, nv) /\ i \in BSN
      BY <1>1, <1>9, <2>5, SpanType
    <3> QED
      BY <1>2, <1>7, <3>1
  <2> QED
    BY <2>1, <2>2, <2>3, <2>4, <2>6 DEF Window
<1>12. QueueOK(queue)'
  <2>1. ReportsOK(q)
    BY DEF QueueOK
  <2>2. ASSUME NEW r \in AckNackDescription, ReportOK(r), Dist(vA, d.ssn) <= Dist(vA, r.ssn)
        PROVE  ReportOK(r)' /\ Dist(nv, r.ssn) = Dist(vA, r.ssn) - Dist(vA, nv)
    <3>1. r.ssn \in BSN /\ Dist(vA, r.ssn) \in Nat
      BY <1>1, DistType DEF AckNackDescription
    <3>2. Dist(vA, nv) <= Dist(vA, r.ssn)
      BY <1>1, <2>2, <3>1
    <3>3. Dist(nv, r.ssn) = Dist(vA, r.ssn) - Dist(vA, nv)
      BY <1>1, <3>1, <3>2, DistSplit
    <3>4. Span(nv, r.ssn) = Span(vA, r.ssn) \ Span(vA, nv)
      BY <1>1, <3>1, <3>2, SpanSplit
    <3>5. Dist(vA, r.ssn) <= msVR - SeqAt(vA)
      BY <2>2 DEF ReportOK
    <3>6. Dist(nv, r.ssn) <= msVR - SeqAt(nv)
      BY <1>1, <1>6, <3>1, <3>3, <3>5
    <3>7. \A i \in Span(nv, r.ssn) \cap r.rrb : SeqAt(i)' \in got
      BY <1>7, <2>2, <3>4, SpanType DEF ReportOK
    <3>8. r.final => lastDataBlock # LAST_BLOCK_UNKNOWN /\ 0 .. built - 1 \subseteq got /\ r.ssn = vS
      BY <2>2 DEF ReportOK
    <3> QED
      BY <1>8, <3>3, <3>6, <3>7, <3>8 DEF ReportOK, Span
  <2>3. ReportsOK(q)'
    <3>1. \A j \in DOMAIN q : IsAckNack(q[j]) =>
            /\ q[j].desc \in AckNackDescription
            /\ Dist(vA, q[j].desc.ssn) \in Int
            /\ ReportOK(q[j].desc)'
            /\ Dist(nv, q[j].desc.ssn) = Dist(vA, q[j].desc.ssn) - Dist(vA, nv)
      <4> SUFFICES ASSUME NEW j \in DOMAIN q, IsAckNack(q[j])
                   PROVE  /\ q[j].desc \in AckNackDescription
                          /\ Dist(vA, q[j].desc.ssn) \in Int
                          /\ ReportOK(q[j].desc)'
                          /\ Dist(nv, q[j].desc.ssn) = Dist(vA, q[j].desc.ssn) - Dist(vA, nv)
        OBVIOUS
      <4>1. q[j].desc \in AckNackDescription
        BY DescIn
      <4>2. Dist(vA, q[j].desc.ssn) \in Int
        BY <1>1, <4>1, DistType DEF AckNackDescription
      <4> QED
        BY <2>1, <2>2, <4>1, <4>2 DEF ReportsOK
    <3>2. \A i, j \in DOMAIN q : i < j /\ IsAckNack(q[i]) /\ IsAckNack(q[j]) =>
             Dist(nv, q[i].desc.ssn) <= Dist(nv, q[j].desc.ssn)
      BY <1>1, <2>1, <3>1 DEF ReportsOK
    <3> QED
      BY <3>1, <3>2 DEF ReportsOK
  <2> QED
    BY <1>1, <2>3 DEF QueueOK, ReportsOK
<1> QED
  BY <1>10, <1>11, <1>12

\* The oldest block a bitmap does not acknowledge, or SSN: all blocks before are
\* acknowledged.
LEMMA NewVAPasses ==
  ASSUME TypeOK, NEW d \in AckNackDescription
  PROVE  /\ NewVA(d) \in BSN
         /\ Dist(vA, NewVA(d)) <= Dist(vA, d.ssn)
         /\ Span(vA, NewVA(d)) \subseteq Span(vA, d.ssn) \cap d.rrb
<1> DEFINE W == Span(vA, d.ssn)
           S == W \ d.rrb
           nv == NewVA(d)
<1>1. vA \in BSN /\ d.ssn \in BSN /\ S \in SUBSET BSN /\ nv \in BSN
  BY SpanType, NewVAType DEF TypeOK, AckNackDescription
<1>2. Dist(vA, d.ssn) \in Int /\ Dist(vA, nv) \in Int
  BY <1>1, DistType
<1>3. CASE S = {}
  <2>1. nv = d.ssn
    BY <1>3 DEF NewVA
  <2> QED
    BY <1>1, <1>2, <1>3, <2>1
<1>4. CASE S # {}
  <2>1. nv = FirstFrom(vA, S)
    BY <1>4 DEF NewVA
  <2>2. nv \in S /\ \A j \in S : Dist(vA, nv) <= Dist(vA, j)
    BY <1>1, <1>4, <2>1, FirstFromIn
  <2>3. Dist(vA, nv) < Dist(vA, d.ssn)
    BY <2>2 DEF Span
  <2> HIDE DEF nv
  <2>4. ASSUME NEW i \in Span(vA, nv) PROVE i \in W /\ i \in d.rrb
    <3>1. i \in BSN /\ Dist(vA, i) < Dist(vA, nv) /\ Dist(vA, i) \in Int
      BY <1>1, DistType DEF Span
    <3>2. i \in W
      BY <1>2, <2>3, <3>1 DEF Span
    <3>3. i \notin S
      BY <1>2, <2>2, <3>1
    <3> QED
      BY <3>2, <3>3
  <2> QED
    BY <1>1, <1>2, <2>3, <2>4 DEF nv
<1> QED
  BY <1>3, <1>4

\* Final ack indication: the MS has every block.
LEMMA FinalAckKeeps ==
  ASSUME LinkInv, TypeOK', rlcMode = "ACK", tbfState # "FREE",
         NEW d \in AckNackDescription, d.final, built > 0 => ReportOK(d),
         NEW q \in Seq(Message), QueueOK(q), queue' = q,
         built = 0 /\ tbfState = "ALLOCATED" => NoReport(q),
         built > 0 => \A j \in DOMAIN q :
             IsAckNack(q[j]) => Dist(vA, d.ssn) <= Dist(vA, q[j].desc.ssn),
         FinalAck, UNCHANGED <<rlcMode, vS, lastDataBlock, built, got, msVR, polls>>
  PROVE  LinkInv'
<1>1. /\ vB' = [i \in BSN |-> IF i \in Span(vA, vS) THEN "ACKED" ELSE vB[i]]
      /\ vA' = vS /\ UNCHANGED <<tbfState, pDlBlocks>>
  BY DEF FinalAck
<1>2. vA \in BSN /\ vS \in BSN /\ built \in Nat /\ vB \in [BSN -> AckStatus] /\ d.ssn \in BSN
  BY DEF LinkInv, TypeOK, AckNackDescription
<1>3. CASE built = 0
  <2>1. vA = 0 /\ vS = 0
    BY <1>3, ModZero DEF LinkInv, Fresh, Numbers
  <2>2. Span(vA, vS) = {}
    BY <1>2, <2>1, SpanEmpty
  <2>3. UNCHANGED <<vA, vB>>
    BY <1>1, <1>2, <2>1, <2>2
  <2>4. built = 0 => AssignOnly(polls')
    BY DEF LinkInv, Fresh
  <2> QED
    BY <1>1, <2>3, <2>4, LinkKept
<1>4. CASE built > 0
  <2>1. 0 .. built - 1 \subseteq got /\ d.ssn = vS
    BY <1>4 DEF ReportOK
  <2>2. \A i \in Span(vA, vS) : SeqAt(i) \in got
    <3> SUFFICES ASSUME NEW i \in Span(vA, vS) PROVE SeqAt(i) \in 0 .. built - 1
      BY <2>1
    <3>1. i \in BSN /\ Dist(vA, i) < Dist(vA, vS) /\ Dist(vA, vS) <= built
      BY <1>2 DEF Span, LinkInv, Window
    <3>2. /\ Dist(vA, i) \in Nat /\ Dist(vA, vS) \in Nat /\ Dist(i, vS) \in Nat
          /\ Dist(i, vS) = Dist(vA, vS) - Dist(vA, i)
      BY <1>2, <3>1, DistType, DistSplit
    <3> QED
      BY <1>2, <3>1, <3>2 DEF SeqAt
  <2>3. \A i \in BSN : vB'[i] = "PENDING_ACK" => vB[i] = "PENDING_ACK" /\ i \notin Span(vA, vS)
    BY <1>1
  <2>4. Dist(vA, vS) <= Dist(vA, d.ssn)
    BY <1>2, <2>1, DistType
  <2> QED
    BY <1>1, <1>2, <1>4, <2>1, <2>2, <2>3, <2>4, VAMoves
<1> QED
  BY <1>2, <1>3, <1>4

\* The bitmap.
LEMMA BitmapKeeps ==
  ASSUME LinkInv, TypeOK', rlcMode = "ACK", tbfState # "FREE",
         NEW d \in AckNackDescription, built > 0 => ReportOK(d),
         NEW q \in Seq(Message), QueueOK(q), queue' = q,
         built = 0 /\ tbfState = "ALLOCATED" => NoReport(q),
         built > 0 => \A j \in DOMAIN q :
             IsAckNack(q[j]) => Dist(vA, d.ssn) <= Dist(vA, q[j].desc.ssn),
         Bitmap(d), UNCHANGED <<rlcMode, vS, lastDataBlock, built, got, msVR, polls>>
  PROVE  LinkInv'
<1> DEFINE W == Span(vA, d.ssn)
           nv == NewVA(d)
           freed == Span(vA, nv)
<1>1. /\ vA \in BSN /\ vS \in BSN /\ built \in Nat /\ d.ssn \in BSN
      /\ pDlBlocks \in [BSN -> Block \cup {Null}] /\ vB \in [BSN -> AckStatus]
  BY DEF LinkInv, TypeOK, AckNackDescription
<1>2. /\ nv \in BSN /\ Dist(vA, nv) <= Dist(vA, d.ssn)
      /\ freed \subseteq W \cap d.rrb /\ freed \subseteq BSN
  BY NewVAPasses, SpanType DEF LinkInv
<1>3. built = 0 => AssignOnly(polls')
  BY DEF LinkInv, Fresh
<1>4. CASE W = {} \/ \E i \in freed : pDlBlocks[i] = Null
  <2>1. UNCHANGED <<tbfState, vB, vA, pDlBlocks>>
    BY <1>4, Zenon DEF Bitmap
  <2> QED
    BY <1>3, <2>1, LinkKept
<1>5. CASE ~(W = {} \/ \E i \in freed : pDlBlocks[i] = Null)
  <2>1. /\ vB' = [i \in BSN |-> IF i \in freed THEN "INVALID"
                                ELSE IF i \notin W THEN vB[i]
                                ELSE IF i \in d.rrb THEN "ACKED" ELSE "NACKED"]
        /\ vA' = nv
        /\ pDlBlocks' = Forgotten(freed)
        /\ lastDataBlock = LAST_BLOCK_UNKNOWN => UNCHANGED tbfState
    BY <1>5, Zenon DEF Bitmap
  <2> HIDE DEF nv, W
  <2>2. /\ \A i \in BSN : /\ vB'[i] = "PENDING_ACK" => vB[i] = "PENDING_ACK" /\ i \notin freed
                          /\ i \notin freed =>
                               /\ pDlBlocks'[i] = pDlBlocks[i]
                               /\ \/ vB'[i] = vB[i] \/ vB'[i] = "NACKED"
                                  \/ vB'[i] = "ACKED" /\ i \in W \cap d.rrb
    BY <2>1 DEF Forgotten
  <2>3. CASE built = 0
    <3>1. vA = 0 /\ vS = 0 /\ \A i \in BSN : pDlBlocks[i] = Null
      BY <2>3, ModZero DEF LinkInv, Fresh, Numbers
    <3>2. freed = {}
      BY <1>2, <1>5, <3>1
    <3>3. nv = vA
      BY <1>1, <1>2, <3>2, SpanEmpty
    <3>4. lastDataBlock = LAST_BLOCK_UNKNOWN
      BY <2>3 DEF LinkInv, Numbers
    <3>5. UNCHANGED <<tbfState, vA, pDlBlocks>>
      BY <1>1, <2>1, <3>2, <3>3, <3>4 DEF Forgotten
    <3>6. Numbers'
      BY DEF LinkInv, Numbers
    <3>7. Fresh'
      BY <1>3, <3>5 DEF LinkInv, Fresh, NoReport
    <3>8. Window'
      <4>1. Span(vA, vS) = {} /\ Dist(vA, vS) = 0
        BY <1>1, <3>1, SpanEmpty, PlusDist
      <4>2. Window => /\ SeqAt(vA) <= msVR
                      /\ 0 .. SeqAt(vA) - 1 \subseteq got
                      /\ \A i \in BSN : vB[i] = "PENDING_ACK" => i \in Span(vA, vS)
        BY DEF Window
      <4>3. SeqAt(vA)' = SeqAt(vA) /\ Span(vA, vS)' = Span(vA, vS)
        BY <3>5 DEF SeqAt, Span
      <4> QED
        BY <1>1, <2>2, <3>5, <4>1, <4>2, <4>3, WindowAssumption DEF LinkInv, Window
    <3>9. QueueOK(queue)'
      BY <2>3 DEF QueueOK, StaleFirst, IsTagged, IsAckNack
    <3> QED
      BY <3>6, <3>7, <3>8, <3>9 DEF LinkInv
  <2>4. CASE built > 0
    <3>1. \A i \in W \cap d.rrb : SeqAt(i) \in got
      BY <2>4 DEF ReportOK, W
    <3>2. \A i \in freed : SeqAt(i) \in got
      BY <1>2, <3>1
    <3>3. \A i \in Span(vA, vS) \ freed :
            /\ pDlBlocks'[i] = pDlBlocks[i]
            /\ vB'[i] = vB[i] \/ vB'[i] = "NACKED" \/ (vB'[i] = "ACKED" /\ SeqAt(i) \in got)
      BY <2>2, <3>1, SpanType
    <3> QED
      BY <1>2, <2>1, <2>2, <2>4, <3>2, <3>3, VAMoves
  <2> QED
    BY <1>1, <2>3, <2>4
<1> QED
  BY <1>4, <1>5

\* ReceiveDLAckNack.
LEMMA AckNackKeeps ==
  ASSUME LinkInv, TypeOK', queue # <<>>, Taken.type = "outcome", ReceiveDLAckNack
  PROVE  LinkInv'
<1> DEFINE d == Taken.desc
<1>1. /\ queue \in Seq(Message) /\ Others \in Seq(Message) /\ Taken \in Message
      /\ IsAckNack(Taken) /\ queue' = Others /\ tbfState # "FREE"
      /\ UNCHANGED <<rlcMode, vS, lastDataBlock, built, got, msVR, polls>>
  BY SeqFacts DEF LinkInv, TypeOK, ReceiveDLAckNack, IsAckNack, msVars
<1>2. d \in AckNackDescription
  BY <1>1 DEF IsAckNack, Message, RtsMessage, OutcomeMessage, PduMessage, ExpiryMessage
<1>3. /\ QueueOK(Others)
      /\ NoReport(queue) => NoReport(Others)
      /\ rlcMode = "ACK" /\ built > 0 =>
            /\ ReportOK(d)
            /\ \A j \in DOMAIN Others : IsAckNack(Others[j]) =>
                  Dist(vA, d.ssn) <= Dist(vA, Others[j].desc.ssn)
  BY <1>1, QueueTail DEF LinkInv, Taken, Others
<1>4. built = 0 /\ tbfState = "ALLOCATED" => NoReport(Others)
  BY <1>3 DEF LinkInv, Fresh
<1>5. built = 0 => AssignOnly(polls')
  BY <1>1 DEF LinkInv, Fresh
<1>6. CASE rlcMode = "ACK" /\ d.final /\ FinalAck
  BY <1>1, <1>2, <1>3, <1>4, <1>6, FinalAckKeeps
<1>7. CASE rlcMode = "ACK" /\ Bitmap(d)
  BY <1>1, <1>2, <1>3, <1>4, <1>7, BitmapKeeps
<1>8. CASE UNCHANGED <<tbfState, vB, vA, pDlBlocks>>
  BY <1>1, <1>3, <1>4, <1>5, <1>8, LinkKept
<1> QED
  BY <1>6, <1>7, <1>8 DEF ReceiveDLAckNack
------------------------------------------------------------------------------
(* Writing a PACKET DOWNLINK ACK/NACK.                                      *)

\* What the MS reports is sound when it is sent.
LEMMA ReportSound ==
  ASSUME LinkInv, rlcMode = "ACK", built > 0
  PROVE  /\ ReportOK(DownlinkAckNack)
         /\ Dist(vA, DownlinkAckNack.ssn) = msVR - SeqAt(vA)
<1> DEFINE a == SeqAt(vA)
           e == msVR - a
           ssn == msVR % RLC_MOD_VAL
<1>1. /\ vA \in BSN /\ vS \in BSN /\ built \in Nat /\ msVR \in Nat
      /\ Dist(vA, vS) <= K /\ Dist(vA, vS) <= built /\ a <= msVR /\ msVR <= built
      /\ got \subseteq 0 .. msVR - 1 /\ vS = built % RLC_MOD_VAL
      /\ Numbers /\ TypeOK
  BY DEF LinkInv, TypeOK, Numbers, Window
<1>2. Dist(vA, vS) \in Nat /\ Dist(vA, vS) < RLC_MOD_VAL /\ K < RLC_MOD_VAL /\ K \in Nat
  BY <1>1, DistType, WindowAssumption
<1>3. a \in Nat /\ a % RLC_MOD_VAL = vA
  BY <1>1, NumberIndex
<1>4. a = built - Dist(vA, vS)
  BY DEF SeqAt
<1> HIDE DEF a
<1>5. e \in BSN /\ e <= K /\ msVR = a + e
  BY <1>1, <1>2, <1>3, <1>4, WindowAssumption DEF BSN
<1>6. Dist(vA, ssn) = e
  BY <1>3, <1>5, ModDist
<1>7. ssn \in BSN
  BY <1>1, ModType
<1> HIDE DEF e, ssn
<1>8. ASSUME NEW i \in Span(vA, ssn), NEW n \in got, n >= msVR - K, i = n % RLC_MOD_VAL
      PROVE  SeqAt(i) \in got
  <2>1. i \in BSN /\ Dist(vA, i) < e /\ Dist(vA, i) \in Nat
    BY <1>1, <1>6, DistType DEF Span
  <2>2. Dist(vA, i) <= Dist(vA, vS)
    BY <1>1, <1>2, <1>3, <1>4, <1>5, <2>1
  <2>3. SeqAt(i) = a + Dist(vA, i)
    BY <1>1, <2>1, <2>2, SeqAtSpan DEF a
  <2>4. Dist(i, vS) <= built
    BY <1>1, <1>2, <2>1, <2>2, DistSplit
  <2>5. SeqAt(i) \in Nat /\ SeqAt(i) % RLC_MOD_VAL = i
    BY <1>1, <2>1, <2>4, NumberIndex
  <2>6. n \in Nat /\ n < msVR
    BY <1>1
  <2>7. SeqAt(i) < msVR /\ SeqAt(i) >= msVR - K
    BY <1>1, <1>2, <1>3, <1>5, <2>1, <2>3
  <2>8. SeqAt(i) - n < RLC_MOD_VAL /\ n - SeqAt(i) < RLC_MOD_VAL
    BY <1>1, <1>2, <1>8, <2>5, <2>6, <2>7, WindowAssumption
  <2>9. SeqAt(i) = n
    BY <1>8, <2>5, <2>6, <2>8, SameNumber
  <2> QED
    BY <2>9
<1>9. 0 .. built - 1 \subseteq got => ssn = vS
  <2> SUFFICES ASSUME 0 .. built - 1 \subseteq got PROVE msVR = built
    BY <1>1 DEF ssn
  <2>1. built - 1 \in got
    BY <1>1
  <2> QED
    BY <1>1, <2>1
<1>10. /\ DownlinkAckNack.final
             <=> lastDataBlock # LAST_BLOCK_UNKNOWN /\ (0 .. built - 1) \subseteq got
       /\ DownlinkAckNack.ssn = ssn
       /\ \A i \in DownlinkAckNack.rrb :
             \E n \in got : n >= msVR - K /\ i = n % RLC_MOD_VAL
  BY DEF DownlinkAckNack, ssn
<1>11. \A i \in Span(vA, ssn) \cap DownlinkAckNack.rrb : SeqAt(i) \in got
  BY <1>8, <1>10
<1>12. Dist(vA, DownlinkAckNack.ssn) <= msVR - SeqAt(vA)
  BY <1>1, <1>3, <1>6, <1>10 DEF e, a
<1> QED
  BY <1>6, <1>9, <1>10, <1>11, <1>12 DEF ReportOK, e, a

\* It joins the queue behind the reports that are older.
LEMMA ReportPosted ==
  ASSUME LinkInv, built > 0, NEW m, m.desc = DownlinkAckNack
  PROVE  QueueOK(Append(queue, m))
<1> SUFFICES ASSUME rlcMode = "ACK" PROVE ReportsOK(Append(queue, m))
  BY DEF QueueOK, LinkInv, TypeOK
<1> DEFINE a == Append(queue, m)
<1>1. /\ queue \in Seq(Message) /\ ReportsOK(queue)
  BY DEF LinkInv, TypeOK, QueueOK
<1>2. /\ ReportOK(m.desc)
      /\ \A i \in DOMAIN queue : IsAckNack(queue[i]) =>
            Dist(vA, queue[i].desc.ssn) <= Dist(vA, m.desc.ssn)
  BY <1>1, ReportSound DEF ReportsOK, ReportOK
<1>3. Dist(vA, m.desc.ssn) <= Dist(vA, m.desc.ssn)
  BY ReportSound, SeqAtType DEF LinkInv, TypeOK
<1>4. /\ \A i \in DOMAIN a : \/ i \in DOMAIN queue /\ a[i] = queue[i]
                             \/ a[i] = m
      /\ \A i, j \in DOMAIN a : i < j => i \in DOMAIN queue /\ a[i] = queue[i]
  BY <1>1
<1> HIDE DEF a
<1>5. \A i \in DOMAIN a : IsAckNack(a[i]) => ReportOK(a[i].desc)
  BY <1>1, <1>2, <1>4 DEF ReportsOK
<1>6. \A i, j \in DOMAIN a : i < j /\ IsAckNack(a[i]) /\ IsAckNack(a[j]) =>
           Dist(vA, a[i].desc.ssn) <= Dist(vA, a[j].desc.ssn)
  BY <1>1, <1>2, <1>4 DEF ReportsOK
<1> QED
  BY <1>5, <1>6 DEF ReportsOK, a

\* A poll ends.
LEMMA PollEndsKeeps ==
  ASSUME LinkInv, TypeOK', PollEnds
  PROVE  LinkInv'
<1> DEFINE p == Head(polls)
<1>1. /\ polls \in Seq(PollType) /\ polls # <<>> /\ polls' = Tail(polls)
      /\ queue \in Seq(Message) /\ QueueOK(queue)
      /\ built = 0 /\ tbfState = "ALLOCATED" => NoReport(queue)
      /\ UNCHANGED <<tbfState, rlcMode, vS, vA, vB, pDlBlocks, lastDataBlock, built, got, msVR>>
  BY DEF LinkInv, TypeOK, Fresh, PollEnds, linkVars, msVars
<1>2. /\ built = 0 => AssignOnly(polls')
      /\ built = 0 /\ p.heard => p.kind = "assign"
  <2>1. \A k \in DOMAIN Tail(polls) : k + 1 \in DOMAIN polls /\ Tail(polls)[k] = polls[k + 1]
    BY <1>1
  <2>2. 1 \in DOMAIN polls /\ p = polls[1]
    BY <1>1
  <2> QED
    BY <1>1, <2>1, <2>2 DEF LinkInv, Fresh, AssignOnly
<1>3. ASSUME NEW m, ~IsAckNack(m), queue' = Append(queue, m) PROVE LinkInv'
  <2>1. /\ QueueOK(Append(queue, m))
        /\ built = 0 /\ tbfState' = "ALLOCATED" => NoReport(Append(queue, m))
    BY <1>1, <1>3, QueueAppend
  <2> QED
    BY <1>1, <1>2, <1>3, <2>1, LinkKept
<1>4. CASE queue' = queue
  BY <1>1, <1>2, <1>4, LinkKept
<1>5. CASE p.heard /\ p.kind # "assign" /\ queue' = Append(queue, OutcomeOf(p, "ack_nack", DownlinkAckNack))
  <2> DEFINE m == OutcomeOf(p, "ack_nack", DownlinkAckNack)
  <2>1. built > 0 /\ built # 0
    BY SMTT(30), <1>2, <1>5 DEF LinkInv, TypeOK
  <2>2. m.desc = DownlinkAckNack
    BY NotReports
  <2>3. queue' = Append(queue, m)
    BY <1>5
  <2> HIDE DEF m
  <2>4. QueueOK(Append(queue, m))
    BY <2>1, <2>2, ReportPosted
  <2> QED
    BY <1>1, <2>1, <2>3, <2>4, LinkKept
<1>6. \/ queue' = queue
      \/ queue' = Append(queue, OutcomeOf(p, "nack", NoDescription))
      \/ queue' = Append(queue, OutcomeOf(p, "control_ack", NoDescription))
      \/ /\ p.heard /\ p.kind # "assign"
         /\ queue' = Append(queue, OutcomeOf(p, "ack_nack", DownlinkAckNack))
  BY DEF PollEnds, MSAnswer, NoAnswer
<1> QED
  BY <1>3, <1>4, <1>5, <1>6, NotReports
------------------------------------------------------------------------------
(* A new TBF.                                                               *)

\* The state of a link that has just been established.
Begun ==
    /\ vS = 0 /\ vA = 0
    /\ \A i \in BSN : vB[i] = "INVALID" /\ pDlBlocks[i] = Null
    /\ lastDataBlock = LAST_BLOCK_UNKNOWN
    /\ built = 0 /\ got = {} /\ msVR = 0
    /\ AssignOnly(polls)
    /\ tbfState # "ALLOCATED"
    /\ StaleFirst(queue)

\* The invariant holds of it, whatever reports of the TBF before are in the queue.
LEMMA LinkBegun == TypeOK /\ Begun => LinkInv
<1> SUFFICES ASSUME TypeOK, Begun PROVE LinkInv
  OBVIOUS
<1>1. vA \in BSN /\ vS \in BSN /\ vA = vS /\ built = 0
  BY DEF TypeOK, Begun
<1>2. Numbers
  BY ModZero DEF Begun, Numbers
<1>3. Fresh
  BY DEF Begun, Fresh
<1>4. Dist(vA, vS) = 0 /\ Span(vA, vS) = {} /\ SeqAt(vA) = 0
  BY <1>1, PlusDist, SpanEmpty DEF SeqAt
<1>5. Window
  BY <1>1, <1>4, WindowAssumption DEF Begun, Window
<1> QED
  BY <1>1, <1>2, <1>3, <1>5 DEF Begun, LinkInv, QueueOK

\* AllocateDLResources establishes the link anew or leaves it alone.
LEMMA AllocateKeeps ==
  ASSUME LinkInv, TypeOK', NEW q \in Seq(Message), QueueOK(q),
         built = 0 /\ tbfState = "ALLOCATED" => NoReport(q), AllocateDLResources(q)
  PROVE  LinkInv'
<1>1. polls \in Seq(PollType)
  BY DEF LinkInv, TypeOK
<1>2. ASSUME InitRLCLink, queue' = UntaggedQueue(q), tbfState' # "ALLOCATED",
             polls' = Dropped(polls) \/ PollAssignment(Dropped(polls))
      PROVE  LinkInv'
  <2>1. Dropped(polls) \in Seq(PollType)
    BY <1>1, UntaggedType
  <2>2. AssignOnly(polls')
    BY <1>1, <1>2, <2>1, AssignPolls
  <2>3. StaleFirst(queue)'
    BY <1>2, QueueUntagged DEF StaleFirst, IsTagged, IsAckNack
  <2>4. Begun'
    BY <1>2, <2>2, <2>3 DEF Begun, InitRLCLink
  <2> QED
    BY <2>4, LinkBegun, PTL
<1>3. CASE LeaveDLTbf(q)
  <2>1. /\ queue' = q
        /\ UNCHANGED <<tbfState, rlcMode, vS, vA, vB, pDlBlocks, lastDataBlock, built, got,
                       msVR, polls>>
    BY <1>3 DEF LeaveDLTbf, linkVars, msVars
  <2>2. built = 0 => AssignOnly(polls')
    BY <2>1 DEF LinkInv, Fresh
  <2> QED
    BY <2>1, <2>2, LinkKept
<1>4. CASE EstablishDLTbf(q)
  BY <1>2, <1>4, Zenon DEF EstablishDLTbf
<1>5. CASE ReestablishDLTbf(q)
  BY <1>2, <1>5, Zenon DEF ReestablishDLTbf
<1> QED
  BY <1>3, <1>4, <1>5 DEF AllocateDLResources
------------------------------------------------------------------------------
(* The other steps.                                                         *)

\* A PACKET CONTROL ACKNOWLEDGEMENT, or none: only the outcome of a poll that has the
\* control ack tag of this TBF is taken for it, and no report of the TBF before is left
\* behind it.
LEMMA ControlKeeps ==
  ASSUME LinkInv, TypeOK', queue # <<>>, Taken.type = "outcome",
         ReceivePacketControlAck \/ ReceivePacketControlNack
  PROVE  LinkInv'
<1>1. /\ queue \in Seq(Message) /\ Others \in Seq(Message) /\ polls \in Seq(PollType)
      /\ QueueOK(Others)
      /\ IsTagged(Taken) /\ tbfState # "FREE"
      /\ UNCHANGED <<rlcMode, vS, vA, vB, pDlBlocks, lastDataBlock, built, got, msVR>>
  <2>1. queue \in Seq(Message) /\ Others \in Seq(Message) /\ polls \in Seq(PollType)
    BY SeqFacts DEF LinkInv, TypeOK
  <2>2. QueueOK(Others)
    BY <2>1, QueueTail DEF LinkInv, Others
  <2>3. IsTagged(Taken) /\ tbfState # "FREE"
    BY Zenon DEF ReceivePacketControlAck, ReceivePacketControlNack, IsTagged
  <2>4. UNCHANGED <<rlcMode, vS, vA, vB, pDlBlocks, lastDataBlock, built, got, msVR>>
    BY DEF ReceivePacketControlAck, ReceivePacketControlNack, linkVars, msVars
  <2> QED
    BY <2>1, <2>2, <2>3, <2>4
<1>2. built = 0 => NoReport(Others)
  BY <1>1, QueueTail DEF LinkInv, QueueOK, Taken, Others
<1>3. built = 0 => AssignOnly(polls)
  BY DEF LinkInv, Fresh
<1>4. CASE ReceivePacketControlAck
  <2>1. queue' = Others /\ UNCHANGED polls
    BY <1>4 DEF ReceivePacketControlAck
  <2> QED
    BY <1>1, <1>2, <1>3, <2>1, LinkKept
<1>5. CASE ReceivePacketControlNack
  <2>1. CASE UNCHANGED polls /\ queue' = Others
    BY <1>1, <1>2, <1>3, <2>1, LinkKept
  <2>2. CASE InternalReleaseDLTbf
    <3>1. /\ queue' = UntaggedQueue(Others) /\ QueueOK(UntaggedQueue(Others))
          /\ tbfState' = "RELEASING" /\ polls' = Untagged(polls)
      BY <1>1, <2>2, QueueUntagged DEF InternalReleaseDLTbf
    <3>2. built = 0 => AssignOnly(polls')
      BY <1>1, <1>3, <3>1, AssignPolls
    <3> QED
      BY <1>1, <1>2, <3>1, <3>2, LinkKept
  <2>3. CASE queue' = Others /\ PollAssignment(polls)
    <3>1. built = 0 => AssignOnly(polls')
      BY <1>1, <1>3, <2>3, AssignPolls
    <3> QED
      BY <1>1, <1>2, <2>3, <3>1, LinkKept
  <2> QED
    BY <1>5, <2>1, <2>2, <2>3, Zenon DEF ReceivePacketControlNack, NackActivating
<1> QED
  BY <1>4, <1>5

\* A message that is taken and changes nothing of the link, and an expiry, which ends the TBF.
LEMMA TakenKeeps ==
  ASSUME LinkInv, TypeOK', queue # <<>>,
         (Taken.type = "outcome" /\ IgnoreOutcome) \/ \E t \in Timer : ProcessExpiry(t)
  PROVE  LinkInv'
<1>1. /\ queue \in Seq(Message) /\ Others \in Seq(Message)
      /\ QueueOK(Others)
      /\ NoReport(queue) => NoReport(Others)
  <2>1. queue \in Seq(Message) /\ Others \in Seq(Message)
    BY SeqFacts DEF LinkInv, TypeOK
  <2> QED
    BY <2>1, QueueTail DEF LinkInv, Others
<1>2. /\ built = 0 => AssignOnly(polls)
      /\ built = 0 /\ tbfState = "ALLOCATED" => NoReport(Others)
  BY <1>1 DEF LinkInv, Fresh
<1>3. CASE IgnoreOutcome
  BY <1>1, <1>2, <1>3, LinkKept DEF IgnoreOutcome, linkVars, msVars
<1>4. CASE \E t \in Timer : ProcessExpiry(t)
  <2>1. /\ queue' = Others
        /\ UNCHANGED <<rlcMode, vS, vA, vB, lastDataBlock, built, got, msVR, polls>>
        /\ \/ UNCHANGED <<tbfState, pDlBlocks>>
           \/ tbfState' = "FREE" /\ pDlBlocks' = Forgotten(BSN)
    BY <1>4, Zenon DEF ProcessExpiry, msVars
  <2> QED
    BY <1>1, <1>2, <2>1, LinkKept DEF Forgotten
<1> QED
  BY <1>3, <1>4

\* The DSP, BSSGP, the timers and OAM post messages and change the state of the TBF.
LEMMA PostedKeeps ==
  ASSUME LinkInv, TypeOK',
         \/ \E ts \in Timeslot : DspReady(ts)
         \/ MSLeaves
         \/ BssgpOffer
         \/ \E t \in Timer : TimerExpiry(t)
         \/ AbnormalRelease
         \/ UNCHANGED vars
  PROVE  LinkInv'
<1>1. /\ queue \in Seq(Message) /\ QueueOK(queue)
      /\ built = 0 => AssignOnly(polls)
      /\ built = 0 /\ tbfState = "ALLOCATED" => NoReport(queue)
  BY DEF LinkInv, TypeOK, Fresh
<1>2. /\ UNCHANGED <<rlcMode, vS, vA, vB, pDlBlocks, lastDataBlock, built, got, msVR, polls>>
      /\ UNCHANGED tbfState \/ (tbfState # "FREE" /\ tbfState' = "INACTIVE")
  BY DEF DspReady, MSLeaves, BssgpOffer, TimerExpiry, AbnormalRelease, vars, linkVars, msVars
<1>3. queue' = queue \/ \E m : ~IsAckNack(m) /\ queue' = Append(queue, m)
  BY NotReports DEF DspReady, MSLeaves, BssgpOffer, TimerExpiry, AbnormalRelease, vars
<1>4. CASE queue' = queue
  BY <1>1, <1>2, <1>4, LinkKept
<1>5. ASSUME NEW m, ~IsAckNack(m), queue' = Append(queue, m) PROVE LinkInv'
  <2>1. /\ QueueOK(Append(queue, m))
        /\ built = 0 /\ tbfState = "ALLOCATED" => NoReport(Append(queue, m))
    BY <1>1, <1>5, QueueAppend
  <2> QED
    BY <1>1, <1>2, <1>5, <2>1, LinkKept
<1> QED
  BY <1>3, <1>4, <1>5
------------------------------------------------------------------------------
(* The theorems.                                                            *)

\* The constructors leave a link that has sent nothing.
LEMMA InitLink == Init => LinkInv
<1> SUFFICES ASSUME Init PROVE LinkInv
  OBVIOUS
<1>1. TypeOK
  BY InitType
<1>2. Begun
  BY DEF Init, Begun, AssignOnly, StaleFirst
<1> QED
  BY <1>1, <1>2, LinkBegun

\* Every step keeps the invariant.
LEMMA NextLink == LinkInv /\ [Next]_vars => LinkInv'
<1> SUFFICES ASSUME LinkInv, [Next]_vars PROVE LinkInv'
  OBVIOUS
<1>1. TypeOK'
  BY NextType DEF LinkInv
<1>2. /\ queue \in Seq(Message) /\ QueueOK(queue)
      /\ built = 0 /\ tbfState = "ALLOCATED" => NoReport(queue)
  BY DEF LinkInv, TypeOK, Fresh
<1>3. CASE HandleMessage
  <2>1. queue # <<>> /\ Others \in Seq(Message)
    BY <1>3, SeqFacts DEF HandleMessage, LinkInv
  <2>2. /\ QueueOK(Others)
        /\ built = 0 /\ tbfState = "ALLOCATED" => NoReport(Others)
    BY <1>2, <2>1, QueueTail DEF Others
  <2>3. CASE ProcessPhRTSInd
    BY <1>1, <2>1, <2>2, <2>3, SendKeeps DEF ProcessPhRTSInd
  <2>4. CASE ReceiveOutcome
    BY <1>1, <2>1, <2>4, AckNackKeeps, ControlKeeps, TakenKeeps DEF ReceiveOutcome
  <2>5. CASE \E t \in Timer : ProcessExpiry(t)
    BY <1>1, <2>1, <2>5, TakenKeeps
  <2>6. CASE DLPduReq
    BY <1>1, <2>1, <2>2, <2>6, AllocateKeeps DEF DLPduReq
  <2> QED
    BY <1>3, <2>3, <2>4, <2>5, <2>6 DEF HandleMessage
<1>4. CASE Kick
  <2> DEFINE ts == CHOOSE t \in kick : \A u \in kick : t <= u
  <2>1. \/ SendDownlinkDataBlock(ts, queue)
        \/ UNCHANGED <<tbfState, linkVars, queue, polls>>
    BY <1>4, Zenon DEF Kick
  <2> HIDE DEF ts
  <2>2. CASE SendDownlinkDataBlock(ts, queue)
    BY <1>1, <1>2, <2>2, SendKeeps
  <2>3. CASE UNCHANGED <<tbfState, linkVars, queue, polls>>
    <3>1. built = 0 => AssignOnly(polls)
      BY DEF LinkInv, Fresh
    <3> QED
      BY <1>1, <1>2, <2>3, <3>1, LinkKept DEF linkVars, msVars
  <2> QED
    BY <2>1, <2>2, <2>3
<1>5. CASE Allocate
  BY <1>1, <1>2, <1>5, AllocateKeeps DEF Allocate
<1>6. CASE PollEnds
  BY <1>1, <1>6, PollEndsKeeps
<1> QED
  BY <1>1, <1>3, <1>4, <1>5, <1>6, PostedKeeps DEF Next

\* The invariant of the transmit window holds always.
THEOREM LinkCorrect == Spec => []LinkInv
  BY InitLink, NextLink, PTL DEF Spec

\* In acknowledged mode never more than K blocks are outstanding, and every one of them is
\* still there for RetransmitNackedDLRlcBlock, whatever reports are lost or come late and
\* however the numbers wrap.
THEOREM WindowCorrect == Spec => []WindowOK
<1>1. LinkInv => WindowOK
  BY DEF LinkInv, Window, WindowOK
<1> QED
  BY <1>1, LinkCorrect, PTL

\* ReceiveDLAckNack takes no block as acknowledged that the MS does not have, and returns
\* none to the pool that has not arrived: not from a bitmap that has waited in the
\* queue while the window went on, and not from one of the TBF before.
THEOREM AcksSound == Spec => []AckSound
<1>1. LinkInv => AckSound
  BY DEF LinkInv, Window, AckSound
<1> QED
  BY <1>1, LinkCorrect, PTL

\* A block is missing for BuildDLRlcBlock when the pool is empty and, in unacknowledged
\* mode, the index has none to return.
LEMMA BuildFault ==
  ASSUME TypeOK, NEW ts, NEW q, BuildDLRlcBlock(ts, q), fault', ~fault
  PROVE  pool = {} /\ (rlcMode = "UNACK" => pDlBlocks[vS] = Null)
<1> DEFINE avail == pool \cup Freed
<1>1. CASE avail = {}
  BY <1>1 DEF Freed
<1>2. CASE avail # {}
  BY <1>2, Zenon DEF BuildDLRlcBlock
<1> QED
  BY <1>1, <1>2

\* A report of this TBF acknowledges only blocks of the window, which are all there: the
\* bitmap is misread only when there is nothing between V(A) and SSN.
LEMMA BitmapFault ==
  ASSUME LinkInv, rlcMode = "ACK", tbfState # "FREE", NEW d \in AckNackDescription,
         built > 0 => ReportOK(d), Bitmap(d), fault', ~fault
  PROVE  built = 0 \/ d.ssn = vA
<1> DEFINE W == Span(vA, d.ssn)
           freed == Span(vA, NewVA(d))
<1>1. /\ vA \in BSN /\ vS \in BSN /\ built \in Nat /\ msVR \in Nat /\ d.ssn \in BSN
      /\ NewVA(d) \in BSN
  BY NewVAPasses DEF LinkInv, TypeOK, AckNackDescription
<1>2. W = {} \/ \E i \in freed : pDlBlocks[i] = Null
  BY Zenon DEF Bitmap
<1>3. CASE W = {}
  BY <1>1, <1>3, SpanEmpty
<1>4. ASSUME built > 0, NEW i \in freed, pDlBlocks[i] = Null PROVE FALSE
  <2>1. /\ Dist(vA, NewVA(d)) <= Dist(vA, d.ssn)
        /\ Dist(vA, d.ssn) <= msVR - SeqAt(vA)
    BY <1>4, NewVAPasses DEF LinkInv, ReportOK
  <2>2. msVR <= built /\ SeqAt(vA) = built - Dist(vA, vS)
    BY DEF LinkInv, Numbers, SeqAt
  <2>3. Dist(vA, NewVA(d)) \in Int /\ Dist(vA, d.ssn) \in Int /\ Dist(vA, vS) \in Int
    BY <1>1, DistType
  <2>4. Dist(vA, NewVA(d)) <= Dist(vA, vS)
    BY <1>1, <2>1, <2>2, <2>3
  <2>5. i \in Span(vA, vS)
    <3>1. i \in BSN /\ Dist(vA, i) < Dist(vA, NewVA(d))
      BY DEF Span
    <3>2. Dist(vA, i) \in Int
      BY <1>1, <3>1, DistType
    <3> QED
      BY <2>3, <2>4, <3>1, <3>2 DEF Span
  <2> QED
    BY <1>4, <2>5 DEF LinkInv, Window
<1> QED
  BY <1>1, <1>2, <1>3, <1>4

\* Every step that uses a null block, or misreads a bitmap, has one of these causes.
LEMMA NextFault ==
  ASSUME LinkInv, [Next]_vars, fault', ~fault
  PROVE  \/ pool = {} /\ (rlcMode = "UNACK" => pDlBlocks[vS] = Null)
         \/ /\ queue # <<>> /\ Taken.type = "outcome" /\ rlcMode = "ACK"
            /\ built = 0 \/ Taken.desc.ssn = vA
<1>1. ASSUME NEW ts, NEW q, SendDownlinkDataBlock(ts, q)
      PROVE  pool = {} /\ (rlcMode = "UNACK" => pDlBlocks[vS] = Null)
  <2>1. BuildDLRlcBlock(ts, q)
    BY <1>1 DEF SendDownlinkDataBlock, GetDLRlcBlock, RetransmitNacked, RetransmitPendingAck,
       NothingToSend
  <2> QED
    BY <2>1, BuildFault DEF LinkInv
<1>2. CASE HandleMessage
  <2>1. CASE ReceiveOutcome
    <3>1. queue # <<>> /\ Taken.type = "outcome" /\ Taken \in Message /\ queue \in Seq(Message)
      BY <1>2, <2>1, SeqFacts DEF HandleMessage, ReceiveOutcome, LinkInv, TypeOK
    <3>2. ReceiveDLAckNack /\ rlcMode = "ACK" /\ Bitmap(Taken.desc)
      BY <2>1 DEF ReceiveOutcome, ReceiveDLAckNack, FinalAck, ReceivePacketControlAck,
         ReceivePacketControlNack, IgnoreOutcome, taskVars
    <3>3. IsAckNack(Taken) /\ tbfState # "FREE"
      BY <3>1, <3>2 DEF ReceiveDLAckNack, IsAckNack
    <3>4. Taken.desc \in AckNackDescription
      BY <3>1 DEF Message, RtsMessage, OutcomeMessage, PduMessage, ExpiryMessage
    <3>5. built > 0 => ReportOK(Taken.desc)
      BY <3>1, <3>2, <3>3, QueueTail DEF LinkInv, Taken, Others
    <3> QED
      BY <3>1, <3>2, <3>3, <3>4, <3>5, BitmapFault
  <2>2. CASE ProcessPhRTSInd
    BY <1>1, <2>2 DEF ProcessPhRTSInd
  <2>3. CASE (\E t \in Timer : ProcessExpiry(t)) \/ DLPduReq
    BY <2>3 DEF ProcessExpiry, DLPduReq, AllocateDLResources
  <2> QED
    BY <1>2, <2>1, <2>2, <2>3 DEF HandleMessage
<1>3. CASE Kick
  <2> DEFINE ts == CHOOSE t \in kick : \A u \in kick : t <= u
  <2>1. SendDownlinkDataBlock(ts, queue) \/ UNCHANGED fault
    BY <1>3, Zenon DEF Kick
  <2> HIDE DEF ts
  <2> QED
    BY <1>1, <2>1
<1> QED
  BY <1>2, <1>3 DEF Next, PollEnds, DspReady, MSLeaves, BssgpOffer, TimerExpiry, Allocate,
     AllocateDLResources, AbnormalRelease, taskVars, vars

\* A null block pointer is used only when the pool has run out, or for a report that was
\* made for the TBF before or repeats V(A): no loss, delay or order of reports makes the
\* link look for a block that has gone.
THEOREM FaultCauses == Spec => FaultCause
<1>1. LinkInv /\ [Next]_vars =>
        [fault' /\ ~fault =>
          \/ pool = {} /\ (rlcMode = "UNACK" => pDlBlocks[vS] = Null)
          \/ /\ queue # <<>> /\ Taken.type = "outcome" /\ rlcMode = "ACK"
             /\ built = 0 \/ Taken.desc.ssn = vA]_vars
  BY NextFault
<1> QED
  BY <1>1, LinkCorrect, PTL DEF Spec, FaultCause
=============================================================================
