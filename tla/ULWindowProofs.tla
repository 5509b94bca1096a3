---------------------------- MODULE ULWindowProofs ----------------------------
(***************************************************************************)
(* The receive window, the acknowledgements, the PDUs and the timers of    *)
(* one uplink TBF (module ULRlcLink), for transfers whose sequence numbers *)
(* do not wrap.  With more blocks in a TBF the tests of                    *)
(* UpdateRcvStateVariables compare numbers of different rounds, and VQSound *)
(* and BitmapReports are false.                                            *)
(***************************************************************************)
EXTENDS ULRlcLinkProofs

\* No TBF has as many blocks as there are sequence numbers.
ShortTbfs == \A l \in Layouts : Len(l) < RLC_MOD_VAL

\* Where a PDU ends in a block that is not the last, another starts in it.
EndsGoOn == \A l \in Layouts : \A i \in 1 .. Len(l) - 1 : l[i].ends = 0 \/ l[i].more
------------------------------------------------------------------------------
(* The invariant.                                                           *)

\* The MS has sent what the link has, and what is not acknowledged is within its
\* window.
MsOK ==
    /\ msVS <= Len(lay)
    /\ acked \subseteq 0 .. msVS - 1
    /\ nacked \subseteq (0 .. msVS - 1) \ acked
    /\ got \subseteq 0 .. msVS - 1
    /\ rlcMode = "ACK" => \A n \in Unacked : msVS <= n + K

\* Data blocks in the queue are of the present TBF: nothing is sent between a
\* request and its handling.
QueueOK ==
    /\ \A i \in DOMAIN queue : queue[i].type = "data" => queue[i].n < msVS
    /\ \A i \in DOMAIN queue :
          queue[i].type = "request" =>
              /\ msState \in {"asked", "gone"}
              /\ \A j \in DOMAIN queue : i < j => queue[j].type \notin {"data", "request"}

\* A block in the queue was not acknowledged when it was sent, so nothing a window
\* ahead of it has arrived before it.
InOrder ==
    rlcMode = "ACK" =>
        \A i \in DOMAIN queue : queue[i].type = "data" =>
            /\ \A m \in got : m < queue[i].n + K
            /\ \A j \in DOMAIN queue :
                  j < i /\ queue[j].type = "data" => queue[j].n < queue[i].n + K

\* V(R) is one past the newest block, V(N) marks blocks that came and all of those
\* in the window, and V(Q) is the oldest that is missing.
RcvOK ==
    /\ endOfTBF <=> Len(lay) - 1 \in got
    /\ rlcMode = "ACK" =>
          /\ \A m \in got : m < vR
          /\ vR # 0 => vR - 1 \in got
          /\ vQ <= vR
          /\ \A i \in BSN : vN[i] = "RECEIVED" => i \in got
          /\ \A m \in got : m > vR - K => vN[m] = "RECEIVED"
          /\ ~endOfTBF => vQ \notin got /\ \A m \in 0 .. vQ - 1 : m \in got

\* The bitmaps under way and what the MS has made of earlier ones.
AcksOK ==
    rlcMode = "ACK" => acked \subseteq got /\ \A i \in DOMAIN acks : acks[i].rrb \subseteq got
------------------------------------------------------------------------------
(* Numbers and sequences.                                                   *)

\* The layout of a short TBF.
LEMMA LayFacts ==
  ASSUME RcvTypeOK, ShortTbfs
  PROVE  Len(lay) \in Nat /\ Len(lay) > 0 /\ Len(lay) < RLC_MOD_VAL
<1>1. lay \in Layouts /\ lay \in Seq(BlockLayout) \ {<<>>}
  BY ULAssumption DEF RcvTypeOK
<1>2. Len(lay) \in Nat /\ Len(lay) # 0
  BY <1>1
<1> QED
  BY <1>1, <1>2 DEF ShortTbfs

\* The number of a block of the first round is its sequence number.
LEMMA BsnShort == ASSUME NEW n \in BSN PROVE Bsn(n) = n
<1>1. ((RLC_MOD_VAL * 0) + n) % RLC_MOD_VAL = n
  BY ModUnique
<1>2. (RLC_MOD_VAL * 0) + n = n
  BY WindowAssumption DEF BSN
<1> QED
  BY <1>1, <1>2 DEF Bsn

\* q is what is left of the queue when its first message is taken, with or without
\* its tags.
Rest(q) ==
    \A i \in DOMAIN q :
        /\ i + 1 \in DOMAIN queue
        /\ q[i].type = queue[i + 1].type
        /\ q[i].type = "data" => q[i].n = queue[i + 1].n

LEMMA RestOthers ==
  ASSUME RcvTypeOK, queue # <<>>
  PROVE  /\ Rest(Others) /\ Rest(UntaggedQueue(Others))
         /\ 1 \in DOMAIN queue /\ queue[1] = Taken /\ DOMAIN queue \subseteq Nat \ {0}
<1>1. /\ queue \in Seq(Message) /\ Others \in Seq(Message)
      /\ Len(Others) = Len(queue) - 1 /\ Len(queue) \in Nat \ {0}
      /\ \A i \in 1 .. Len(Others) : Others[i] = queue[i + 1]
      /\ DOMAIN Others = 1 .. Len(Others) /\ DOMAIN queue = 1 .. Len(queue)
  BY DEF RcvTypeOK, Others
<1>2. \A i \in DOMAIN Others : i + 1 \in DOMAIN queue /\ Others[i] = queue[i + 1]
  BY <1>1
<1>3. Rest(Others)
  BY <1>2 DEF Rest
<1>4. ASSUME NEW i \in DOMAIN Others
      PROVE  /\ UntaggedQueue(Others)[i].type = Others[i].type
             /\ Others[i].type = "data" => UntaggedQueue(Others)[i] = Others[i]
  <2>1. Others[i] \in Message
    BY <1>1
  <2>2. \A m \in OutcomeMessage : [m EXCEPT !.tag = FALSE].type = m.type
    BY DEF OutcomeMessage
  <2>3. Others[i].type = "outcome" => Others[i] \in OutcomeMessage
    BY <2>1 DEF Message, DataMessage, ExpiryMessage, RequestMessage
  <2> QED
    BY <2>2, <2>3 DEF UntaggedQueue
<1>5. DOMAIN UntaggedQueue(Others) = DOMAIN Others
  BY DEF UntaggedQueue
<1>6. Rest(UntaggedQueue(Others))
  BY <1>2, <1>4, <1>5 DEF Rest
<1> QED
  BY <1>1, <1>3, <1>6 DEF Taken

\* A message is added at the end.
LEMMA Appended ==
  ASSUME RcvTypeOK, NEW m \in Message
  PROVE  LET q == Append(queue, m)
         IN /\ DOMAIN q = DOMAIN queue \cup {Len(queue) + 1} /\ q[Len(queue) + 1] = m
            /\ \A i \in DOMAIN queue : q[i] = queue[i] /\ i \in Nat /\ i < Len(queue) + 1
            /\ Len(queue) \in Nat
<1> queue \in Seq(Message)
  BY DEF RcvTypeOK
<1>1. Len(queue) \in Nat /\ DOMAIN queue = 1 .. Len(queue)
  OBVIOUS
<1>2. Len(Append(queue, m)) = Len(queue) + 1
  OBVIOUS
<1>3. DOMAIN Append(queue, m) = 1 .. Len(queue) + 1
  OBVIOUS
<1>4. \A i \in 1 .. Len(queue) : Append(queue, m)[i] = queue[i]
  OBVIOUS
<1>5. Append(queue, m)[Len(queue) + 1] = m
  OBVIOUS
<1> QED
  BY <1>1, <1>3, <1>4, <1>5
------------------------------------------------------------------------------
(* The MS and the queue.                                                    *)

\* What a step does to the queue, the blocks accepted and the MS.
QueueStays == UNCHANGED <<queue, got, rlcMode, msVars>>
QueueRest ==
    /\ queue # <<>> /\ Rest(queue') /\ UNCHANGED <<rlcMode, msVars>>
    /\ got' = got \/ (Taken.type = "data" /\ got' = got \cup {Taken.n})
QueuePost ==
    /\ UNCHANGED <<got, rlcMode, msVars>>
    /\ \E m \in Message : m.type \notin {"data", "request"} /\ queue' = Append(queue, m)

LEMMA HandlerMoves ==
  ASSUME LinkOK, HandleMessage
  PROVE  QueueRest \/ (queue # <<>> /\ EstablishULTbf)
<1>1. queue # <<>> /\ Rest(Others) /\ Rest(UntaggedQueue(Others))
  BY RestOthers DEF LinkOK, HandleMessage
<1>2. ASSUME NEW r, NEW q, NEW vn, NEW e, SendULAckNack(r, q, vn, e, Others) PROVE Rest(queue')
  BY <1>1, <1>2 DEF SendULAckNack
<1>3. CASE ReceiveULDataBlock
  <2>1. UNCHANGED <<rlcMode, msVars>> /\ Taken.type = "data"
    BY <1>3 DEF ReceiveULDataBlock
  <2>2. CASE RejectULDataBlock
    BY <1>1, <2>1, <2>2 DEF RejectULDataBlock, QueueRest
  <2>3. ASSUME NEW r, NEW q, NEW vn, AcceptULDataBlock(Taken.n, r, q, vn)
        PROVE  QueueRest
    <3>1. got' = got \cup {Taken.n}
      BY <2>3 DEF AcceptULDataBlock
    <3>2. Rest(queue')
      BY <1>1, <1>2, <2>3 DEF AcceptULDataBlock
    <3> QED
      BY <1>1, <2>1, <3>1, <3>2 DEF QueueRest
  <2> QED
    BY <1>3, <2>2, <2>3 DEF ReceiveULDataBlock
<1>4. CASE DropDataBlock
  BY <1>1, <1>4 DEF DropDataBlock, QueueRest, windowVars
<1>5. CASE ReceiveOutcome
  <2>1. UNCHANGED <<rlcMode, got, msVars>>
    BY <1>5 DEF ReceiveOutcome
  <2>2. Rest(queue')
    BY <1>1, <1>2, <1>5
       DEF ReceiveOutcome, ReceivePacketControlAck, ReceivePacketControlNack, IgnoreOutcome
  <2> QED
    BY <1>1, <2>1, <2>2 DEF QueueRest
<1>6. ASSUME NEW t \in Timer, ProcessExpiry(t) PROVE QueueRest
  BY <1>1, <1>6 DEF ProcessExpiry, QueueRest, windowVars
<1> QED
  BY <1>1, <1>3, <1>4, <1>5, <1>6 DEF HandleMessage

LEMMA QueueMoves ==
  ASSUME LinkOK, [Next]_vars
  PROVE  \/ QueueStays \/ QueueRest \/ QueuePost
         \/ queue # <<>> /\ EstablishULTbf
         \/ MSSend \/ MSRequest \/ MSHearsAck \/ MSLeaves
<1> USE DEF windowVars, msVars
<1>1. CASE UNCHANGED vars
  BY <1>1 DEF vars, QueueStays
<1>2. CASE ReassembleULPDU \/ IncrementN3101 \/ AbnormalRelease \/ USFUnused
  BY <1>2 DEF ReassembleULPDU, IncrementN3101, AbnormalRelease, USFUnused, QueueStays
<1>3. CASE AckLost
  <2>1. Head(acks) \in AckNack
    BY <1>3, SeqFacts DEF AckLost, LinkOK
  <2>2. [type |-> "outcome", tag |-> Head(acks).tag, ack |-> FALSE] \in Message
    BY <2>1, MessageIn DEF AckNack
  <2> QED
    BY <1>3, <2>2 DEF AckLost, QueueStays, QueuePost
<1>4. ASSUME NEW t \in Timer, TimerExpiry(t) PROVE QueuePost
  <2>1. [type |-> "expiry", timer |-> t] \in Message
    BY MessageIn
  <2> QED
    BY <1>4, <2>1 DEF TimerExpiry, QueuePost
<1> QED
  BY <1>1, <1>2, <1>3, <1>4, HandlerMoves DEF Next

\* What the MS sends next is a block that it has sent before and that is not
\* acknowledged, or the one after, which its window allows.
LEMMA SendableWhat ==
  ASSUME RcvTypeOK, ShortTbfs, MsOK, NEW n \in Sendable
  PROVE  /\ n \in Nat /\ n <= msVS /\ n < Len(lay)
         /\ n = msVS /\ rlcMode = "ACK" => \A i \in Unacked : msVS < i + K
         /\ n # msVS /\ rlcMode = "ACK" => n \in Unacked
<1>1. Len(lay) \in Nat /\ Len(lay) > 0 /\ msVS \in Nat /\ msVS <= Len(lay)
  BY LayFacts DEF RcvTypeOK, MsOK
<1>2. n \in Nat
  BY SendableType
<1>3. \A i \in Unacked : i \in Nat /\ i < msVS
  BY <1>1 DEF Unacked
<1>4. nacked # {} => Oldest(nacked) \in nacked
  <2>1. nacked \in SUBSET Nat
    BY DEF RcvTypeOK
  <2>2. nacked # {} => \E i \in nacked : \A m \in nacked : i <= m
    BY <2>1, LeastNat
  <2> QED
    BY <2>2 DEF Oldest
<1>5. nacked \subseteq Unacked
  BY DEF MsOK, Unacked
<1>6. CASE rlcMode = "UNACK"
  BY <1>1, <1>2, <1>6 DEF Sendable
<1>7. CASE rlcMode # "UNACK"
  <2>1. \/ n \in Unacked
        \/ n = msVS /\ msVS < Len(lay) /\ WindowOpen
    BY <1>4, <1>5, <1>7 DEF Sendable
  <2>2. CASE n \in Unacked
    BY <1>1, <1>2, <1>3, <2>2
  <2>3. CASE n = msVS /\ msVS < Len(lay) /\ WindowOpen
    BY <1>1, <1>2, <2>3 DEF WindowOpen
  <2> QED
    BY <2>1, <2>2, <2>3
<1> QED
  BY <1>6, <1>7

\* A longer row of numbers.
LEMMA IntervalGrows ==
  ASSUME NEW a \in Nat, NEW b \in Nat, a <= b
  PROVE  0 .. a - 1 \subseteq 0 .. b - 1
  OBVIOUS

\* What the MS knows of its blocks stays consistent with its window.
LEMMA MsStep ==
  ASSUME LinkOK, ShortTbfs, MsOK, QueueOK, [Next]_vars
  PROVE  MsOK'
<1> USE DEF LinkOK
<1>0. /\ msVS \in Nat /\ acked \in SUBSET Nat /\ nacked \in SUBSET Nat
      /\ msVS' \in Nat /\ K \in Nat /\ Len(lay) \in Nat
  BY StepOK, LayFacts, WindowAssumption DEF RcvTypeOK
<1>1. CASE /\ UNCHANGED <<lay, msVS, acked, nacked, rlcMode>> /\ got' \subseteq 0 .. msVS - 1
  BY <1>1 DEF MsOK, Unacked
<1>2. CASE QueueRest
  <2>1. Taken.type = "data" => Taken.n \in 0 .. msVS - 1
    BY <1>0, <1>2, RestOthers, TakenKind DEF QueueOK, QueueRest
  <2>2. got' \subseteq 0 .. msVS - 1
    BY <1>2, <2>1 DEF QueueRest, MsOK
  <2> QED
    BY <1>1, <1>2, <2>2 DEF QueueRest, msVars
<1>3. CASE EstablishULTbf
  <2>1. /\ lay' \in Layouts /\ msVS' = 0 /\ acked' = {} /\ nacked' = {} /\ got' = {}
    BY <1>3 DEF EstablishULTbf
  <2>2. Len(lay') \in Nat
    BY <2>1, ULAssumption
  <2> QED
    BY <2>1, <2>2 DEF MsOK, Unacked
<1>4. CASE MSSend
  <2>1. PICK n \in Sendable : msVS' = (IF n = msVS THEN msVS + 1 ELSE msVS)
                              /\ nacked' = nacked \ {n}
    BY <1>4 DEF MSSend
  <2>2. UNCHANGED <<lay, acked, got, rlcMode>>
    BY <1>4 DEF MSSend, windowVars
  <2>3. /\ n \in Nat /\ n <= msVS /\ n < Len(lay)
        /\ n = msVS /\ rlcMode = "ACK" => \A i \in Unacked : msVS < i + K
    BY SendableWhat
  <2>4. msVS' <= Len(lay')
    BY <1>0, <2>1, <2>2, <2>3 DEF MsOK
  <2>5. 0 .. msVS - 1 \subseteq 0 .. msVS' - 1
    <3>1. msVS <= msVS' /\ msVS \in Nat /\ msVS' \in Nat
      BY <1>0, <2>1
    <3> QED
      BY <3>1, IntervalGrows
  <2>6. acked' \subseteq 0 .. msVS' - 1 /\ got' \subseteq 0 .. msVS' - 1
        /\ nacked' \subseteq (0 .. msVS' - 1) \ acked'
    BY <2>1, <2>2, <2>5 DEF MsOK
  <2>7. ASSUME rlcMode = "ACK", NEW i \in Unacked' PROVE msVS' <= i + K
    <3>1. i \in 0 .. msVS' - 1 /\ i \notin acked
      BY <2>2, <2>7 DEF Unacked
    <3>2. CASE i \in Unacked
      BY <1>0, <2>1, <2>3, <2>7, <3>1, <3>2 DEF MsOK
    <3>3. CASE i \notin Unacked
      <4>1. i >= msVS
        BY <1>0, <3>1, <3>3 DEF Unacked
      <4>2. msVS' = msVS + 1 /\ i = msVS
        BY <1>0, <2>1, <3>1, <4>1
      <4> QED
        BY <1>0, <4>2, WindowAssumption
    <3> QED
      BY <3>2, <3>3
  <2> QED
    BY <2>2, <2>4, <2>6, <2>7 DEF MsOK
<1>5. CASE MSHearsAck
  <2> DEFINE a == Head(acks)
             covered == {n \in Unacked : Dist(Bsn(n), a.ssn % RLC_MOD_VAL) \in 1 .. K}
             told == {n \in covered : Bsn(n) \in a.rrb}
  <2>1. acked' = acked \cup told /\ nacked' = (nacked \cup covered) \ told
    BY <1>5 DEF MSHearsAck
  <2>2. covered \subseteq (0 .. msVS - 1) \ acked /\ told \subseteq covered
    BY DEF Unacked
  <2>3. UNCHANGED <<lay, msVS, got, rlcMode>>
    BY <1>5 DEF MSHearsAck, windowVars
  <2> HIDE DEF covered, told
  <2>4. Unacked' \subseteq Unacked
    BY <2>1, <2>3 DEF Unacked
  <2> QED
    BY <2>1, <2>2, <2>3, <2>4 DEF MsOK
<1>6. CASE QueueStays \/ QueuePost \/ MSRequest \/ MSLeaves
  <2>1. UNCHANGED <<lay, msVS, acked, nacked, rlcMode, got>>
    BY <1>6 DEF QueueStays, QueuePost, MSRequest, MSLeaves, msVars, windowVars
  <2> QED
    BY <1>1, <2>1 DEF MsOK
<1> QED
  BY <1>2, <1>3, <1>4, <1>5, <1>6, QueueMoves

\* The queue holds blocks of the present TBF only.
LEMMA QueueStep ==
  ASSUME LinkOK, ShortTbfs, MsOK, QueueOK, [Next]_vars
  PROVE  QueueOK'
<1> USE DEF LinkOK
<1>0. msVS \in Nat /\ queue \in Seq(Message) /\ queue' \in Seq(Message)
  BY StepOK DEF RcvTypeOK
<1>1. CASE QueueStays
  BY <1>1 DEF QueueStays, QueueOK, msVars
<1>2. CASE QueueRest
  <2>1. \A i \in DOMAIN queue' :
          /\ i \in Nat /\ i + 1 \in DOMAIN queue /\ queue'[i].type = queue[i + 1].type
          /\ queue'[i].type = "data" => queue'[i].n = queue[i + 1].n
    BY <1>0, <1>2 DEF QueueRest, Rest
  <2>2. \A i, j \in DOMAIN queue' : i < j => i + 1 < j + 1
    BY <2>1
  <2>3. UNCHANGED <<msVS, msState>>
    BY <1>2 DEF QueueRest, msVars
  <2> QED
    BY <2>1, <2>2, <2>3 DEF QueueOK
<1>3. CASE queue # <<>> /\ EstablishULTbf
  <2>1. queue' = UntaggedQueue(Others) /\ Taken.type = "request"
    BY <1>3 DEF EstablishULTbf
  <2>2. /\ Rest(queue') /\ 1 \in DOMAIN queue /\ queue[1] = Taken
        /\ \A i \in DOMAIN queue' : i \in Nat \ {0}
    BY <1>0, <1>3, <2>1, RestOthers
  <2>3. \A i \in DOMAIN queue' : i + 1 \in DOMAIN queue /\ 1 < i + 1 /\ queue'[i].type = queue[i + 1].type
    BY <2>2 DEF Rest
  <2>4. \A i \in DOMAIN queue' : queue'[i].type \notin {"data", "request"}
    BY <2>1, <2>2, <2>3 DEF QueueOK
  <2> QED
    BY <2>4 DEF QueueOK
<1>4. ASSUME NEW m \in Message, queue' = Append(queue, m), UNCHANGED <<msVS, msState>>,
             m.type \notin {"data", "request"}
      PROVE  QueueOK'
  <2>1. /\ DOMAIN queue' = DOMAIN queue \cup {Len(queue) + 1} /\ queue'[Len(queue) + 1] = m
        /\ \A i \in DOMAIN queue : queue'[i] = queue[i] /\ i \in Nat /\ i < Len(queue) + 1
        /\ Len(queue) \in Nat
    BY <1>4, Appended
  <2> QED
    BY <1>4, <2>1 DEF QueueOK
<1>5. CASE MSSend
  <2>1. PICK n \in Sendable : msVS' = (IF n = msVS THEN msVS + 1 ELSE msVS)
            /\ \/ queue' = Append(queue, [type |-> "data", n |-> n])
               \/ queue' = queue
    BY <1>5 DEF MSSend
  <2>2. msState = "sending" /\ msState' = msState
    BY <1>5 DEF MSSend
  <2>3. n \in Nat /\ n <= msVS
    BY SendableWhat
  <2>4. n < msVS' /\ msVS <= msVS' /\ msVS' \in Nat
    BY <1>0, <2>1, <2>3
  <2>5. \A i \in DOMAIN queue : queue[i].type # "request"
    BY <2>2 DEF QueueOK
  <2>6. \A i \in DOMAIN queue : queue[i].type = "data" => queue[i].n \in Nat /\ queue[i].n < msVS'
    <3>1. ASSUME NEW x \in Message, x.type = "data" PROVE x.n \in Nat
      BY <3>1 DEF Message, DataMessage, OutcomeMessage, ExpiryMessage, RequestMessage
    <3>2. \A i \in DOMAIN queue : queue[i] \in Message
      BY <1>0
    <3> QED
      BY <1>0, <2>4, <3>1, <3>2 DEF QueueOK
  <2>7. CASE queue' = queue
    BY <2>5, <2>6, <2>7 DEF QueueOK
  <2>8. CASE queue' = Append(queue, [type |-> "data", n |-> n])
    <3>1. [type |-> "data", n |-> n] \in Message
      BY <2>3, MessageIn
    <3>2. /\ DOMAIN queue' = DOMAIN queue \cup {Len(queue) + 1}
          /\ queue'[Len(queue) + 1] = [type |-> "data", n |-> n]
          /\ \A i \in DOMAIN queue : queue'[i] = queue[i]
      BY <2>8, <3>1, Appended
    <3> QED
      BY <2>4, <2>5, <2>6, <3>2 DEF QueueOK
  <2> QED
    BY <2>1, <2>7, <2>8
<1>6. CASE MSRequest
  <2>1. msState \notin {"asked", "gone"} /\ msState' = "asked" /\ msVS' = msVS
        /\ queue' = Append(queue, [type |-> "request"])
    BY <1>6 DEF MSRequest
  <2>2. \A i \in DOMAIN queue : queue[i].type # "request"
    BY <2>1 DEF QueueOK
  <2>3. /\ DOMAIN queue' = DOMAIN queue \cup {Len(queue) + 1}
        /\ queue'[Len(queue) + 1] = [type |-> "request"]
        /\ \A i \in DOMAIN queue : queue'[i] = queue[i] /\ i < Len(queue) + 1 /\ i \in Nat
        /\ Len(queue) \in Nat
    BY <2>1, MessageIn, Appended
  <2> QED
    BY <2>1, <2>2, <2>3 DEF QueueOK
<1>7. CASE MSHearsAck
  <2>1. UNCHANGED <<msVS>> /\ msState \in {"sending", "done"}
        /\ Head(acks).tag \in BOOLEAN
    <3>1. Head(acks) \in AckNack
      BY <1>7, SeqFacts DEF MSHearsAck
    <3> QED
      BY <1>7, <3>1 DEF MSHearsAck, AckNack
  <2>2. \A i \in DOMAIN queue : queue[i].type # "request"
    BY <2>1 DEF QueueOK
  <2>3. CASE queue' = queue
    BY <2>1, <2>2, <2>3 DEF QueueOK
  <2>4. CASE \E answered \in BOOLEAN :
               queue' = Append(queue, [type |-> "outcome", tag |-> Head(acks).tag, ack |-> answered])
    <3>1. PICK m \in Message : m.type = "outcome" /\ queue' = Append(queue, m)
      BY <2>1, <2>4, MessageIn
    <3>2. /\ DOMAIN queue' = DOMAIN queue \cup {Len(queue) + 1} /\ queue'[Len(queue) + 1] = m
          /\ \A i \in DOMAIN queue : queue'[i] = queue[i]
      BY <3>1, Appended
    <3> QED
      BY <2>1, <2>2, <3>1, <3>2 DEF QueueOK
  <2> QED
    BY <1>7, <2>3, <2>4 DEF MSHearsAck
<1>8. CASE MSLeaves
  BY <1>8 DEF MSLeaves, QueueOK
<1> QED
  BY <1>1, <1>2, <1>3, <1>4, <1>5, <1>6, <1>7, <1>8, QueueMoves DEF QueuePost, msVars

\* The order of the blocks in the queue.
LEMMA InOrderStep ==
  ASSUME LinkOK, ShortTbfs, MsOK, QueueOK, InOrder, [Next]_vars
  PROVE  InOrder'
<1> USE DEF LinkOK
<1>0. /\ msVS \in Nat /\ queue \in Seq(Message) /\ queue' \in Seq(Message)
      /\ got \in SUBSET Nat /\ K \in Nat \ {0}
  <2>1. msVS \in Nat /\ queue \in Seq(Message) /\ got \in SUBSET Nat
    BY DEF RcvTypeOK
  <2>2. queue' \in Seq(Message)
    BY StepOK DEF RcvTypeOK
  <2>3. K \in Nat \ {0}
    BY WindowAssumption
  <2> QED
    BY <2>1, <2>2, <2>3
<1>1. CASE UNCHANGED <<queue, got, rlcMode>>
  BY <1>1 DEF InOrder
<1>2. CASE QueueRest
  <2>1. \A i \in DOMAIN queue' :
          /\ i \in Nat \ {0} /\ i + 1 \in DOMAIN queue /\ queue'[i].type = queue[i + 1].type
          /\ queue'[i].type = "data" => queue'[i].n = queue[i + 1].n
    BY <1>0, <1>2 DEF QueueRest, Rest
  <2>2. \A i, j \in DOMAIN queue' : j < i => j + 1 < i + 1
    BY <2>1
  <2>3. \A i \in DOMAIN queue' : 1 < i + 1
    BY <2>1
  <2>4. 1 \in DOMAIN queue /\ queue[1] = Taken
    BY <1>2, RestOthers DEF QueueRest
  <2>5. ASSUME rlcMode = "ACK", NEW i \in DOMAIN queue', queue'[i].type = "data"
        PROVE  \A m \in got' : m < queue'[i].n + K
    <3>1. /\ \A m \in got : m < queue[i + 1].n + K
          /\ Taken.type = "data" => Taken.n < queue[i + 1].n + K
      BY <2>1, <2>3, <2>4, <2>5 DEF InOrder
    <3> QED
      BY <1>2, <2>1, <2>5, <3>1 DEF QueueRest
  <2>6. ASSUME rlcMode = "ACK", NEW i \in DOMAIN queue', queue'[i].type = "data",
               NEW j \in DOMAIN queue', j < i, queue'[j].type = "data"
        PROVE  queue'[j].n < queue'[i].n + K
    BY <2>1, <2>2, <2>6 DEF InOrder
  <2> QED
    BY <1>2, <2>5, <2>6 DEF InOrder, QueueRest
<1>3. CASE queue # <<>> /\ EstablishULTbf
  <2>1. queue' = UntaggedQueue(Others) /\ Taken.type = "request"
    BY <1>3 DEF EstablishULTbf
  <2>2. /\ Rest(queue') /\ 1 \in DOMAIN queue /\ queue[1] = Taken
        /\ \A i \in DOMAIN queue' : i \in Nat \ {0}
    BY <1>0, <1>3, <2>1, RestOthers
  <2>3. \A i \in DOMAIN queue' : i + 1 \in DOMAIN queue /\ 1 < i + 1 /\ queue'[i].type = queue[i + 1].type
    BY <2>2 DEF Rest
  <2>4. \A i \in DOMAIN queue' : queue'[i].type # "data"
    BY <2>1, <2>2, <2>3 DEF QueueOK
  <2> QED
    BY <2>4 DEF InOrder
<1>4. ASSUME NEW m \in Message, queue' = Append(queue, m), UNCHANGED <<got, rlcMode>>,
             m.type # "data"
      PROVE  InOrder'
  <2>1. /\ DOMAIN queue' = DOMAIN queue \cup {Len(queue) + 1} /\ queue'[Len(queue) + 1] = m
        /\ \A i \in DOMAIN queue : queue'[i] = queue[i]
    BY <1>4, Appended
  <2> QED
    BY <1>4, <2>1 DEF InOrder
<1>5. CASE MSSend
  <2>1. PICK n \in Sendable : \/ queue' = Append(queue, [type |-> "data", n |-> n])
                              \/ queue' = queue
    BY <1>5 DEF MSSend
  <2>2. UNCHANGED <<got, rlcMode>>
    BY <1>5 DEF MSSend, windowVars
  <2>3. CASE queue' = queue
    BY <1>1, <2>2, <2>3
  <2>4. CASE queue' = Append(queue, [type |-> "data", n |-> n])
    <3>1. /\ n \in Nat /\ (n = msVS \/ rlcMode # "ACK" \/ n \in Unacked)
      BY SendableWhat
    <3>2. [type |-> "data", n |-> n] \in Message
      BY <3>1, MessageIn
    <3>3. /\ DOMAIN queue' = DOMAIN queue \cup {Len(queue) + 1}
          /\ queue'[Len(queue) + 1] = [type |-> "data", n |-> n]
          /\ \A i \in DOMAIN queue : queue'[i] = queue[i] /\ i \in Nat /\ i < Len(queue) + 1
          /\ Len(queue) \in Nat
      BY <2>4, <3>2, Appended
    <3>4. rlcMode = "ACK" => msVS <= n + K
      BY <1>0, <3>1 DEF MsOK
    <3>5. rlcMode = "ACK" => \A m \in got : m < n + K
      <4>1. \A m \in got : m \in Nat /\ m < msVS
        BY <1>0 DEF MsOK
      <4> QED
        BY <1>0, <3>1, <3>4, <4>1
    <3>6. rlcMode = "ACK" => \A j \in DOMAIN queue : queue[j].type = "data" => queue[j].n < n + K
      <4>1. ASSUME NEW x \in Message, x.type = "data" PROVE x.n \in Nat
        BY <4>1 DEF Message, DataMessage, OutcomeMessage, ExpiryMessage, RequestMessage
      <4>2. \A j \in DOMAIN queue : queue[j] \in Message
        BY <1>0
      <4>3. \A j \in DOMAIN queue : queue[j].type = "data" => queue[j].n \in Nat /\ queue[j].n < msVS
        BY <4>1, <4>2 DEF QueueOK
      <4> QED
        BY <1>0, <3>1, <3>4, <4>3
    <3>7. \A j \in DOMAIN queue : ~(Len(queue) + 1 < j)
      BY <3>3
    <3> QED
      BY <2>2, <3>3, <3>5, <3>6, <3>7 DEF InOrder
  <2> QED
    BY <2>1, <2>3, <2>4
<1>6. CASE MSRequest
  <2>1. [type |-> "request"] \in Message /\ queue' = Append(queue, [type |-> "request"])
        /\ UNCHANGED <<got, rlcMode>>
    BY <1>6, MessageIn DEF MSRequest, windowVars
  <2> QED
    BY <1>4, <2>1
<1>7. CASE MSHearsAck
  <2>1. Head(acks).tag \in BOOLEAN /\ UNCHANGED <<got, rlcMode>>
    <3>1. Head(acks) \in AckNack
      BY <1>7, SeqFacts DEF MSHearsAck
    <3> QED
      BY <1>7, <3>1 DEF MSHearsAck, AckNack, windowVars
  <2>2. CASE queue' = queue
    BY <1>1, <2>1, <2>2
  <2>3. CASE \E answered \in BOOLEAN :
               queue' = Append(queue, [type |-> "outcome", tag |-> Head(acks).tag, ack |-> answered])
    BY <1>4, <2>1, <2>3, MessageIn
  <2> QED
    BY <1>7, <2>2, <2>3 DEF MSHearsAck
<1>8. CASE QueueStays \/ MSLeaves
  BY <1>1, <1>8 DEF QueueStays, MSLeaves, windowVars
<1> QED
  BY <1>2, <1>3, <1>4, <1>5, <1>6, <1>7, <1>8, QueueMoves DEF QueuePost
------------------------------------------------------------------------------
(* The receive window.                                                      *)

\* The link's own part of the invariant while TBFs are short.
ShortOK == LinkOK /\ ShortTbfs /\ MsOK /\ QueueOK /\ InOrder /\ RcvOK /\ AcksOK

\* Blocks that the link has are blocks of the TBF, with their own numbers as indices.
LEMMA GotFacts ==
  ASSUME ShortOK
  PROVE  /\ Len(lay) \in Nat /\ Len(lay) > 0 /\ Len(lay) < RLC_MOD_VAL
         /\ msVS \in Nat /\ msVS <= Len(lay)
         /\ \A m \in got : m \in BSN /\ m < msVS /\ m + 1 < RLC_MOD_VAL
         /\ rlcMode = "ACK" => vR \in BSN /\ vQ \in BSN /\ vR <= msVS
<1>1. /\ Len(lay) \in Nat /\ Len(lay) > 0 /\ Len(lay) < RLC_MOD_VAL
      /\ msVS \in Nat /\ msVS <= Len(lay)
  BY LayFacts DEF ShortOK, LinkOK, RcvTypeOK, MsOK
<1>2. \A m \in got : m \in Nat /\ m < msVS
  BY <1>1 DEF ShortOK, MsOK
<1>3. \A m \in got : m \in BSN /\ m < msVS /\ m + 1 < RLC_MOD_VAL
  BY <1>1, <1>2, WindowAssumption DEF BSN
<1>4. ASSUME rlcMode = "ACK" PROVE vR \in BSN /\ vQ \in BSN /\ vR <= msVS
  <2>1. vR \in BSN /\ vQ \in BSN
    BY <1>4 DEF ShortOK, LinkOK, RcvTypeOK
  <2>2. vR # 0 => vR - 1 < msVS
    BY <1>2, <1>4 DEF ShortOK, RcvOK
  <2> QED
    BY <1>1, <2>1, <2>2, WindowAssumption DEF BSN
<1> QED
  BY <1>1, <1>3, <1>4

\* Until the last block is seen V(R) is at most a window ahead of V(Q): the MS does
\* not send more before the block V(Q) is acknowledged.
LEMMA WindowSize ==
  ASSUME ShortOK, rlcMode = "ACK", ~endOfTBF
  PROVE  vR <= vQ + K
<1>1. msVS \in Nat /\ vR \in Nat /\ vQ \in Nat /\ vR <= msVS /\ K \in Nat
  BY GotFacts, WindowAssumption DEF BSN
<1>2. vQ \notin acked
  BY DEF ShortOK, RcvOK, AcksOK
<1>3. CASE vQ < msVS
  <2>1. vQ \in Unacked
    BY <1>1, <1>2, <1>3 DEF Unacked
  <2> QED
    BY <1>1, <2>1 DEF ShortOK, MsOK
<1>4. CASE ~(vQ < msVS)
  BY <1>1, <1>4
<1> QED
  BY <1>3, <1>4

\* A block that passes the test for the window is not below V(Q), and V(R) moves
\* with it exactly when it is the newest.
LEMMA AcceptFacts ==
  ASSUME ShortOK, queue # <<>>, Taken.type = "data", rlcMode = "ACK", InWindow(Bsn(Taken.n))
  PROVE  /\ Taken.n \in BSN /\ Bsn(Taken.n) = Taken.n /\ Taken.n < msVS
         /\ Inc(Taken.n) = Taken.n + 1 /\ Taken.n + 1 \in BSN
         /\ vQ <= Taken.n
         /\ MovesVR(Taken.n) <=> vR <= Taken.n
         /\ endOfTBF => ~(vR <= Taken.n)
<1> DEFINE n == Taken.n
<1>1. n \in Nat /\ n < msVS
  BY TakenKind, RestOthers DEF ShortOK, LinkOK, QueueOK
<1>2. /\ Len(lay) \in Nat /\ msVS \in Nat /\ msVS <= Len(lay) /\ Len(lay) < RLC_MOD_VAL
      /\ vR \in BSN /\ vQ \in BSN
  BY GotFacts
<1>3. n \in BSN /\ n + 1 \in BSN /\ n + 1 < RLC_MOD_VAL
  BY <1>1, <1>2, WindowAssumption DEF BSN
<1>4. Bsn(n) = n
  BY <1>3, BsnShort
<1>5. Inc(n) = n + 1
  BY <1>3, WindowAssumption DEF Inc, BSN
<1>6. \A m \in got : m < n + K
  BY RestOthers DEF ShortOK, LinkOK, InOrder
<1> HIDE DEF n
<1>7. vQ <= n + K
  <2>1. vQ <= vR
    BY DEF ShortOK, RcvOK
  <2>2. vR # 0 => vR - 1 < n + K
    BY <1>6 DEF ShortOK, RcvOK
  <2> QED
    BY <1>2, <1>3, <2>1, <2>2, WindowAssumption DEF BSN
<1>8. vQ <= n
  <2>1. (IF vQ - n > 0 THEN RLC_MOD_VAL - (vQ - n) ELSE vQ - n) < K
    BY <1>4 DEF InWindow, n
  <2> QED
    BY <1>2, <1>3, <1>7, <2>1, WindowAssumption DEF BSN
<1>9. MovesVR(n) <=> vR <= n
  BY <1>2, <1>3, <1>8, WindowAssumption DEF MovesVR, BSN
<1>10. endOfTBF => ~(vR <= n)
  <2>1. endOfTBF => Len(lay) - 1 < vR
    BY DEF ShortOK, RcvOK
  <2> QED
    BY <1>1, <1>2, <1>3, <2>1, WindowAssumption DEF BSN
<1> QED
  BY <1>1, <1>3, <1>4, <1>5, <1>8, <1>9, <1>10 DEF n

\* Whole numbers.
LEMMA NextInt == \A x, y \in Int : x < y => x + 1 <= y
  OBVIOUS

\* UpdateRcvStateVariables in acknowledged mode, for a block that is accepted.
LEMMA WindowAfter ==
  ASSUME ShortOK, rlcMode = "ACK", NEW n \in BSN, n + 1 \in BSN, vQ <= n,
         NEW r, r = (IF vR <= n THEN n + 1 ELSE vR),
         NEW vn, vn = NewVN(n, r), NEW q, q = NewVQ(n, r, vn)
  PROVE  LET g == got \cup {n}
         IN /\ r \in BSN /\ q \in BSN /\ q <= r /\ vQ <= q /\ \A m \in g : m < r
            /\ r # 0 /\ r - 1 \in g
            /\ \A i \in BSN : vn[i] = "RECEIVED" => i \in g
            /\ \A m \in g : m > r - K => vn[m] = "RECEIVED"
            /\ ~endOfTBF => q \notin g /\ \A m \in 0 .. q - 1 : m \in g
<1> DEFINE g == got \cup {n}
<1>1. /\ vR \in BSN /\ vQ \in BSN /\ vQ <= vR
      /\ \A m \in got : m \in BSN /\ m < vR
      /\ vR # 0 => vR - 1 \in got
      /\ \A i \in BSN : vN[i] = "RECEIVED" => i \in got
      /\ \A m \in got : m > vR - K => vN[m] = "RECEIVED"
      /\ ~endOfTBF => vQ \notin got /\ \A m \in 0 .. vQ - 1 : m \in got
  BY GotFacts DEF ShortOK, RcvOK
<1>2. r \in BSN /\ n < r /\ vR <= r /\ (r = vR \/ r = n + 1)
  BY <1>1, WindowAssumption DEF BSN
<1>3. \A m \in g : m < r /\ m \in BSN
  BY <1>1, <1>2, WindowAssumption DEF BSN
<1>4. r # 0 /\ r - 1 \in g
  <2>1. r # 0
    BY <1>2, WindowAssumption DEF BSN
  <2>2. CASE r = n + 1
    <3>1. r - 1 = n
      BY <2>2, WindowAssumption DEF BSN
    <3> QED
      BY <2>1, <3>1
  <2>3. CASE r = vR
    BY <1>1, <2>1, <2>3
  <2> QED
    BY <1>2, <2>2, <2>3
<1>5. /\ vn[n] = "RECEIVED"
      /\ \A i \in BSN : i # n =>
            vn[i] = IF \E t \in Span(vR, r) : i = Plus(t, K + 1) THEN "INVALID" ELSE vN[i]
  BY DEF NewVN
<1>6. \A i \in BSN : vn[i] = "RECEIVED" => i \in g
  BY <1>1, <1>5
<1>7. ASSUME NEW m \in g, m > r - K PROVE vn[m] = "RECEIVED"
  <2>1. CASE m = n
    BY <1>5, <2>1
  <2>2. CASE m # n
    <3>1. m \in got /\ m \in BSN /\ m < vR
      BY <1>1, <2>2
    <3>2. vN[m] = "RECEIVED"
      <4>1. m > vR - K
        BY <1>1, <1>2, <1>7, <3>1, WindowAssumption DEF BSN
      <4> QED
        BY <1>1, <3>1, <4>1
    <3>3. ASSUME NEW t \in Span(vR, r) PROVE m # Plus(t, K + 1)
      <4>1. t \in BSN /\ vR <= t /\ t < r
        BY <1>1, <1>2, SpanFlat, SpanType
      <4> QED
        BY <1>1, <1>2, <1>7, <3>1, <4>1, WindowAssumption DEF BSN, Plus
    <3> QED
      BY <1>5, <2>2, <3>1, <3>2, <3>3
  <2> QED
    BY <2>1, <2>2
<1>8. /\ q \in BSN /\ q <= r /\ vQ <= q
      /\ ~endOfTBF => q \notin g /\ \A m \in 0 .. q - 1 : m \in g
  <2>1. CASE n # vQ
    <3>1. q = vQ
      BY <2>1 DEF NewVQ
    <3> QED
      BY <1>1, <1>2, <2>1, <3>1, WindowAssumption DEF BSN
  <2>2. CASE n = vQ
    <3> DEFINE a == Inc(vQ)
               S == {i \in BSN : i = r \/ vn[i] = "INVALID"}
    <3>1. a = n + 1 /\ a \in BSN /\ a <= r
      <4>1. n \in Int /\ n + 1 < RLC_MOD_VAL /\ RLC_MOD_VAL \in Int /\ r \in Int
        BY <1>2, WindowAssumption DEF BSN
      <4>2. Inc(n) = n + 1
        BY <4>1 DEF Inc
      <4>3. n < r
        BY <1>2
      <4>4. n + 1 <= r
        BY <4>1, <4>3, NextInt
      <4> QED
        BY <2>2, <4>2, <4>4
    <3>2. q = FirstFrom(a, S)
      BY <1>2, <2>2, WindowAssumption DEF NewVQ, BSN
    <3>3. r \in S /\ S \in SUBSET BSN
      BY <1>2
    <3> HIDE DEF a, S
    <3>4. /\ q \in S /\ a <= q /\ q <= r
          /\ \A i \in S : a <= i => q <= i
      BY <1>2, <3>1, <3>2, <3>3, FirstFlat
    <3>5. q \in BSN
      BY <3>3, <3>4
    <3>6. ASSUME ~endOfTBF, NEW m \in 0 .. q - 1 PROVE m \in g
      <4>1. m \in BSN /\ m < q
        BY <3>5, WindowAssumption DEF BSN
      <4>2. CASE m < vQ
        BY <1>1, <3>6, <4>1, <4>2, WindowAssumption DEF BSN
      <4>3. CASE m = vQ
        BY <2>2, <4>3
      <4>4. CASE a <= m
        <5>1. m \notin S
          BY <3>4, <3>5, <4>1, <4>4, WindowAssumption DEF BSN
        <5>2. vn[m] # "INVALID"
          BY <4>1, <5>1 DEF S
        <5>3. vn \in [BSN -> {"RECEIVED", "INVALID"}]
          BY DEF NewVN, ShortOK, LinkOK, RcvTypeOK
        <5>4. vn[m] = "RECEIVED"
          BY <4>1, <5>2, <5>3
        <5> QED
          BY <1>6, <4>1, <5>4
      <4> QED
        BY <1>1, <2>2, <3>1, <4>1, <4>2, <4>3, <4>4, WindowAssumption DEF BSN
    <3>7. ASSUME ~endOfTBF PROVE q \notin g
      <4>1. CASE q = r
        BY <1>2, <1>3, <4>1, WindowAssumption DEF BSN
      <4>2. CASE q # r
        <5>1. vn[q] = "INVALID"
          BY <3>4, <4>2 DEF S
        <5>2. vR <= vQ + K
          BY <3>7, WindowSize
        <5>3. q > r - K
          BY <1>1, <1>2, <2>2, <3>1, <3>4, <3>5, <5>2, WindowAssumption DEF BSN
        <5> QED
          BY <1>7, <5>1, <5>3
      <4> QED
        BY <4>1, <4>2
    <3>8. vQ <= q
      BY <1>1, <2>2, <3>1, <3>4, <3>5, WindowAssumption DEF BSN
    <3> QED
      BY <3>4, <3>5, <3>6, <3>7, <3>8
  <2> QED
    BY <2>1, <2>2
<1> QED
  BY <1>2, <1>3, <1>4, <1>6, <1>7, <1>8

\* The steps that move the window.
LEMMA WindowMoves ==
  ASSUME LinkOK, [Next]_vars
  PROVE  \/ UNCHANGED <<lay, got, rlcMode, vR, vQ, vN, endOfTBF>>
         \/ queue # <<>> /\ Idle /\ ReceiveULDataBlock /\ ~RejectULDataBlock
         \/ queue # <<>> /\ EstablishULTbf
<1> USE DEF windowVars, msVars
<1>1. CASE UNCHANGED vars
  BY <1>1 DEF vars
<1>2. CASE HandleMessage
  <2>1. CASE DropDataBlock
    BY <2>1 DEF DropDataBlock
  <2>2. CASE ReceiveOutcome
    BY <2>2 DEF ReceiveOutcome
  <2>3. ASSUME NEW t \in Timer, ProcessExpiry(t) PROVE UNCHANGED <<lay, windowVars>>
    BY <2>3 DEF ProcessExpiry
  <2>4. CASE ReceiveULDataBlock /\ RejectULDataBlock
    BY <2>4 DEF ReceiveULDataBlock, RejectULDataBlock
  <2> QED
    BY <1>2, <2>1, <2>2, <2>3, <2>4 DEF HandleMessage
<1>3. CASE ReassembleULPDU
  BY <1>3 DEF ReassembleULPDU
<1>4. CASE IncrementN3101 \/ AbnormalRelease \/ MSRequest \/ MSSend \/ USFUnused
  BY <1>4 DEF IncrementN3101, AbnormalRelease, MSRequest, MSSend, USFUnused
<1>5. CASE MSHearsAck \/ AckLost \/ MSLeaves \/ \E t \in Timer : TimerExpiry(t)
  BY <1>5 DEF MSHearsAck, AckLost, MSLeaves, TimerExpiry
<1> QED
  BY <1>1, <1>2, <1>3, <1>4, <1>5 DEF Next

\* What an accepted block is, in either mode.
AcceptedAck(n, r, vn, q) ==
    /\ rlcMode = "ACK" /\ InWindow(n)
    /\ n \in BSN /\ n + 1 \in BSN /\ vQ <= n /\ (endOfTBF => ~(vR <= n))
    /\ r = (IF vR <= n THEN n + 1 ELSE vR) /\ vn = NewVN(n, r) /\ q = NewVQ(n, r, vn)

LEMMA Accepted ==
  ASSUME ShortOK, queue # <<>>, ReceiveULDataBlock, ~RejectULDataBlock
  PROVE  /\ Taken.n \in BSN /\ Bsn(Taken.n) = Taken.n /\ UNCHANGED <<lay, rlcMode>>
         /\ tbfState # "FREE" /\ Taken.n < msVS /\ firstDataBlock' = firstDataBlock
         /\ \E r, vn, q : /\ AcceptULDataBlock(Taken.n, r, q, vn)
                          /\ rlcMode = "ACK" => AcceptedAck(Taken.n, r, vn, q)
<1> DEFINE n == Taken.n
<1>1. Taken.type = "data" /\ UNCHANGED <<lay, rlcMode, firstDataBlock>> /\ tbfState # "FREE"
  BY DEF ReceiveULDataBlock, msVars
<1>2. n \in BSN /\ Bsn(n) = n /\ n < msVS
  <2>1. n \in Nat /\ n < msVS
    BY <1>1, TakenKind, RestOthers DEF ShortOK, LinkOK, QueueOK
  <2>2. n \in BSN
    BY <2>1, GotFacts, WindowAssumption DEF BSN
  <2> QED
    BY <2>1, <2>2, BsnShort
<1>3. CASE rlcMode = "ACK"
  <2>1. InWindow(Bsn(n))
    BY <1>3 DEF ReceiveULDataBlock
  <2>2. /\ Inc(n) = n + 1 /\ n + 1 \in BSN /\ vQ <= n
        /\ MovesVR(n) <=> vR <= n
        /\ endOfTBF => ~(vR <= n)
    BY <1>1, <1>3, <2>1, AcceptFacts
  <2> DEFINE r == IF MovesVR(n) THEN Inc(n) ELSE vR
             vn == NewVN(n, r)
             q == NewVQ(n, r, vn)
  <2>3. AcceptULDataBlock(n, r, q, vn)
    BY <1>2, <1>3 DEF ReceiveULDataBlock
  <2>4. AcceptedAck(n, r, vn, q)
    BY <1>2, <1>3, <2>1, <2>2 DEF AcceptedAck
  <2> HIDE DEF r, vn, q
  <2> QED
    BY <1>1, <1>2, <2>3, <2>4
<1>4. CASE rlcMode # "ACK"
  <2>1. AcceptULDataBlock(n, Bsn(n) + 1, NewVQUnack(Bsn(n) + 1), vN)
    BY <1>4 DEF ReceiveULDataBlock
  <2> QED
    BY <1>1, <1>2, <1>4, <2>1
<1> QED
  BY <1>3, <1>4

\* The window stays right.
LEMMA RcvStep ==
  ASSUME ShortOK, [Next]_vars
  PROVE  RcvOK'
<1>1. CASE UNCHANGED <<lay, got, rlcMode, vR, vQ, vN, endOfTBF>>
  BY <1>1 DEF RcvOK, ShortOK
<1>2. CASE queue # <<>> /\ Idle /\ ReceiveULDataBlock /\ ~RejectULDataBlock
  <2> DEFINE n == Taken.n
  <2>1. n \in BSN /\ Bsn(n) = n /\ UNCHANGED <<lay, rlcMode>>
    BY <1>2, Accepted
  <2>2. PICK r, vn, q : /\ AcceptULDataBlock(n, r, q, vn)
                        /\ rlcMode = "ACK" => AcceptedAck(n, r, vn, q)
    BY <1>2, Accepted
  <2> HIDE DEF n
  <2>3. /\ vR' = r /\ vN' = vn /\ got' = got \cup {n}
        /\ endOfTBF' = (endOfTBF \/ IsLast(n))
        /\ endOfTBF \/ vQ' = q
        /\ vQ' = r \/ vQ' = q
    BY <2>2 DEF AcceptULDataBlock
  <2>4. endOfTBF' <=> Len(lay') - 1 \in got'
    BY <2>1, <2>3 DEF IsLast, RcvOK, ShortOK
  <2>5. ASSUME rlcMode = "ACK"
        PROVE  /\ \A m \in got' : m < vR'
               /\ vR' # 0 => vR' - 1 \in got'
               /\ vQ' <= vR'
               /\ \A i \in BSN : vN'[i] = "RECEIVED" => i \in got'
               /\ \A m \in got' : m > vR' - K => vN'[m] = "RECEIVED"
               /\ ~endOfTBF' => vQ' \notin got' /\ \A m \in 0 .. vQ' - 1 : m \in got'
    <3>1. /\ n + 1 \in BSN /\ vQ <= n /\ r = (IF vR <= n THEN n + 1 ELSE vR)
          /\ vn = NewVN(n, r) /\ q = NewVQ(n, r, vn)
      BY <2>2, <2>5 DEF AcceptedAck
    <3>2. /\ r \in BSN /\ q \in BSN /\ q <= r /\ \A m \in got' : m < r
          /\ r # 0 /\ r - 1 \in got'
          /\ \A i \in BSN : vn[i] = "RECEIVED" => i \in got'
          /\ \A m \in got' : m > r - K => vn[m] = "RECEIVED"
          /\ ~endOfTBF => q \notin got' /\ \A m \in 0 .. q - 1 : m \in got'
      BY <2>1, <2>3, <2>5, <3>1, WindowAfter
    <3>3. r <= r
      BY <3>2, WindowAssumption DEF BSN
    <3>4. vQ' <= vR'
      BY <2>3, <3>2, <3>3
    <3>5. ~endOfTBF' => vQ' = q /\ ~endOfTBF
      BY <2>3
    <3> QED
      BY <2>3, <3>2, <3>4, <3>5
  <2> QED
    BY <2>1, <2>4, <2>5 DEF RcvOK
<1>3. CASE EstablishULTbf
  <2>1. /\ vR' = 0 /\ vQ' = 0 /\ vN' = [i \in BSN |-> "INVALID"] /\ endOfTBF' = FALSE
        /\ got' = {}
    BY <1>3 DEF EstablishULTbf
  <2> QED
    BY <2>1 DEF RcvOK
<1> QED
  BY <1>1, <1>2, <1>3, WindowMoves DEF ShortOK

\* An acknowledgement reports blocks that are marked, and the others stay.
LEMMA SendReports ==
  ASSUME ShortOK, NEW r, NEW q, NEW vn, NEW e, NEW qu, SendULAckNack(r, q, vn, e, qu),
         NEW g, \A i \in BSN : vn[i] = "RECEIVED" => i \in g,
         \A i \in DOMAIN acks : acks[i].rrb \subseteq g
  PROVE  \A i \in DOMAIN acks' : acks'[i].rrb \subseteq g
<1> DEFINE final == e /\ (rlcMode = "ACK" => r = q)
           rrb == {i \in BSN : Dist(i, r % RLC_MOD_VAL) \in 1 .. K /\ vn[i] = "RECEIVED"}
           before == IF final THEN UntaggedAcks(acks) ELSE acks
           msg(bit) == [final |-> bit, ssn |-> r, rrb |-> rrb, polled |-> final, tag |-> final]
<1>1. PICK bit \in BOOLEAN : acks' = Append(before, msg(bit))
  BY DEF SendULAckNack
<1>2. rrb \subseteq g
  OBVIOUS
<1>3. acks \in Seq(AckNack) /\ UntaggedAcks(acks) \in Seq(AckNack)
  BY UntaggedType DEF ShortOK, LinkOK, RcvTypeOK
<1>4. \A i \in DOMAIN UntaggedAcks(acks) : i \in DOMAIN acks /\ UntaggedAcks(acks)[i].rrb = acks[i].rrb
  <2>1. \A a \in AckNack : [a EXCEPT !.tag = FALSE].rrb = a.rrb
    BY DEF AckNack
  <2>2. \A i \in DOMAIN acks : acks[i] \in AckNack
    BY <1>3
  <2> QED
    BY <2>1, <2>2 DEF UntaggedAcks
<1>5. before \in Seq(AckNack) /\ \A i \in DOMAIN before : before[i].rrb \subseteq g
  BY <1>3, <1>4
<1>6. msg(bit).rrb \subseteq g
  BY <1>2
<1> HIDE DEF before, msg
<1> QED
  BY <1>1, <1>5, <1>6

\* The MS is told of blocks only that the link has.
LEMMA AcksStep ==
  ASSUME ShortOK, [Next]_vars
  PROVE  AcksOK'
<1>0. acks \in Seq(AckNack)
  BY DEF ShortOK, LinkOK, RcvTypeOK
<1>1. CASE UNCHANGED <<acked, acks, rlcMode, got>>
  BY <1>1 DEF AcksOK, ShortOK
<1>2. CASE queue # <<>> /\ Idle /\ ReceiveULDataBlock /\ ~RejectULDataBlock
  <2> DEFINE n == Taken.n
  <2>1. n \in BSN /\ UNCHANGED <<acked, rlcMode>>
    BY <1>2, Accepted DEF ReceiveULDataBlock, msVars
  <2>2. PICK r, vn, q : /\ AcceptULDataBlock(n, r, q, vn)
                        /\ rlcMode = "ACK" => AcceptedAck(n, r, vn, q)
    BY <1>2, Accepted
  <2>3. got' = got \cup {n} /\ vN' = vn
    BY <2>2 DEF AcceptULDataBlock
  <2>4. acks' = acks \/ \E q2, e : SendULAckNack(r, q2, vn, e, Others)
    BY <2>2 DEF AcceptULDataBlock
  <2> HIDE DEF n
  <2>5. ASSUME rlcMode = "ACK" PROVE \A i \in DOMAIN acks' : acks'[i].rrb \subseteq got'
    <3>1. \A i \in BSN : vn[i] = "RECEIVED" => i \in got'
      BY <2>1, <2>3, <2>5, RcvStep DEF RcvOK
    <3>2. \A i \in DOMAIN acks : acks[i].rrb \subseteq got'
      BY <2>3, <2>5 DEF AcksOK, ShortOK
    <3> QED
      BY <2>4, <3>1, <3>2, SendReports
  <2> QED
    BY <2>1, <2>3, <2>5 DEF AcksOK, ShortOK
<1>3. CASE EstablishULTbf
  <2>1. acked' = {} /\ acks' = <<>> /\ got' = {}
    BY <1>3 DEF EstablishULTbf
  <2> QED
    BY <2>1 DEF AcksOK
<1>4. CASE ReceiveOutcome
  <2>1. UNCHANGED <<acked, rlcMode, got>>
    BY <1>4 DEF ReceiveOutcome, msVars
  <2>2. acks' = acks \/ SendULAckNack(vR, vQ, vN, endOfTBF, Others)
    BY <1>4 DEF ReceiveOutcome, ReceivePacketControlAck, ReceivePacketControlNack, IgnoreOutcome
  <2>3. ASSUME rlcMode = "ACK" PROVE \A i \in DOMAIN acks' : acks'[i].rrb \subseteq got
    <3>1. \A i \in BSN : vN[i] = "RECEIVED" => i \in got
      BY <2>3 DEF RcvOK, ShortOK
    <3>2. \A i \in DOMAIN acks : acks[i].rrb \subseteq got
      BY <2>3 DEF AcksOK, ShortOK
    <3> QED
      BY <2>2, <3>1, <3>2, SendReports
  <2> QED
    BY <2>1, <2>3 DEF AcksOK, ShortOK
<1>5. ASSUME acks # <<>>, acks' = Tail(acks), UNCHANGED <<rlcMode, got>>,
             rlcMode = "ACK" => acked' \subseteq got
      PROVE  AcksOK'
  <2>1. \A i \in DOMAIN acks' : \E j \in DOMAIN acks : acks'[i] = acks[j]
    <3>1. \A i \in 1 .. Len(acks) - 1 : Tail(acks)[i] = acks[i + 1] /\ i + 1 \in 1 .. Len(acks)
      BY <1>0, <1>5
    <3>2. DOMAIN acks = 1 .. Len(acks) /\ DOMAIN Tail(acks) = 1 .. Len(acks) - 1
      BY <1>0, <1>5
    <3> QED
      BY <1>5, <3>1, <3>2
  <2> QED
    BY <1>5, <2>1 DEF AcksOK, ShortOK
<1>6. CASE MSHearsAck
  <2> DEFINE a == Head(acks)
             covered == {n \in Unacked : Dist(Bsn(n), a.ssn % RLC_MOD_VAL) \in 1 .. K}
             told == {n \in covered : Bsn(n) \in a.rrb}
  <2>1. /\ acked' = acked \cup told /\ acks # <<>> /\ acks' = Tail(acks)
        /\ UNCHANGED <<rlcMode, got>>
    BY <1>6 DEF MSHearsAck, windowVars
  <2>2. ASSUME rlcMode = "ACK", NEW n \in told PROVE n \in got
    <3>1. n \in BSN
      <4>1. n \in 0 .. msVS - 1
        BY DEF Unacked
      <4> QED
        BY <4>1, GotFacts, WindowAssumption DEF BSN
    <3>2. n \in a.rrb
      BY <3>1, BsnShort
    <3>3. 1 \in DOMAIN acks /\ a = acks[1]
      BY <1>0, <2>1
    <3> QED
      BY <2>2, <3>2, <3>3 DEF AcksOK, ShortOK
  <2> HIDE DEF told
  <2>3. rlcMode = "ACK" => acked' \subseteq got
    BY <2>1, <2>2 DEF AcksOK, ShortOK
  <2> QED
    BY <1>5, <2>1, <2>3
<1>7. CASE AckLost
  BY <1>5, <1>7 DEF AckLost, windowVars, msVars, AcksOK, ShortOK
<1>8. CASE ReceiveULDataBlock /\ RejectULDataBlock
  BY <1>1, <1>8 DEF ReceiveULDataBlock, RejectULDataBlock, msVars
<1>9. CASE DropDataBlock \/ \E t \in Timer : ProcessExpiry(t)
  BY <1>1, <1>9 DEF DropDataBlock, ProcessExpiry, windowVars, msVars
<1>10. CASE ReassembleULPDU \/ IncrementN3101 \/ AbnormalRelease \/ MSRequest \/ MSSend
            \/ USFUnused \/ MSLeaves \/ \E t \in Timer : TimerExpiry(t)
  BY <1>1, <1>10 DEF ReassembleULPDU, IncrementN3101, AbnormalRelease, MSRequest, MSSend,
     USFUnused, MSLeaves, TimerExpiry, windowVars, msVars
<1>11. CASE UNCHANGED vars
  BY <1>1, <1>11 DEF vars, windowVars, msVars
<1>12. CASE HandleMessage
  BY <1>2, <1>3, <1>4, <1>8, <1>9, <1>12 DEF HandleMessage
<1> QED
  BY <1>6, <1>7, <1>10, <1>11, <1>12 DEF Next

\* The first state.
LEMMA ShortInit == Init /\ ShortTbfs => ShortOK
<1> SUFFICES ASSUME Init, ShortTbfs PROVE ShortOK
  OBVIOUS
<1>1. LinkOK
  BY InitOK
<1>2. Len(lay) \in Nat
  BY <1>1, LayFacts DEF LinkOK
<1>3. /\ vR = 0 /\ vQ = 0 /\ vN = [i \in BSN |-> "INVALID"] /\ endOfTBF = FALSE /\ got = {}
      /\ msVS = 0 /\ acked = {} /\ nacked = {} /\ queue = <<>> /\ acks = <<>>
  BY DEF Init
<1>4. MsOK
  BY <1>2, <1>3 DEF MsOK, Unacked
<1>5. QueueOK /\ InOrder
  BY <1>3 DEF QueueOK, InOrder
<1>6. RcvOK
  BY <1>3 DEF RcvOK
<1>7. AcksOK
  BY <1>3 DEF AcksOK
<1> QED
  BY <1>1, <1>4, <1>5, <1>6, <1>7 DEF ShortOK

LEMMA ShortStep == ShortOK /\ [Next]_vars => ShortOK'
<1> SUFFICES ASSUME ShortOK, [Next]_vars PROVE ShortOK'
  OBVIOUS
<1>1. LinkOK' /\ MsOK' /\ QueueOK' /\ InOrder'
  BY StepOK, MsStep, QueueStep, InOrderStep DEF ShortOK
<1>2. ShortTbfs'
  BY DEF ShortOK, ShortTbfs
<1> QED
  BY <1>1, <1>2, RcvStep, AcksStep DEF ShortOK

\* The newest block is the one before V(R).
LEMMA NewestIs ==
  ASSUME ShortOK, rlcMode = "ACK", got # {}
  PROVE  Newest = vR - 1
<1>1. vR \in BSN /\ \A m \in got : m \in BSN /\ m < vR
  BY GotFacts DEF ShortOK, RcvOK
<1>2. vR # 0 /\ vR - 1 \in got
  BY <1>1, WindowAssumption DEF BSN, ShortOK, RcvOK
<1>3. \A m \in got : m <= vR - 1
  BY <1>1, WindowAssumption DEF BSN
<1>4. \A x \in got : (\A m \in got : m <= x) => x = vR - 1
  BY <1>1, <1>2, <1>3, WindowAssumption DEF BSN
<1>5. Newest \in got /\ \A m \in got : m <= Newest
  BY <1>2, <1>3 DEF Newest
<1> QED
  BY <1>4, <1>5

\* What the strengthening says of V(Q), of the MS and of the bitmap.
LEMMA ShortReports == ShortOK => VQSound /\ MSAckSound /\ BitmapReports
<1> SUFFICES ASSUME ShortOK PROVE VQSound /\ MSAckSound /\ BitmapReports
  OBVIOUS
<1>1. MSAckSound
  BY DEF ShortOK, AcksOK, MSAckSound
<1>2. ASSUME rlcMode = "ACK", ~endOfTBF PROVE 0 .. SeqOf(vQ) - 1 \subseteq got
  <2>1. CASE got = {}
    <3>1. SeqOf(vQ) = 0
      BY <2>1 DEF SeqOf
    <3> QED
      BY <3>1
  <2>2. CASE got # {}
    <3>1. vR \in BSN /\ vQ \in BSN /\ vQ <= vR
      BY <1>2, GotFacts DEF ShortOK, RcvOK
    <3>2. SeqOf(vQ) = vR - 1 + 1 - Dist(vQ, vR)
      BY <1>2, <2>2, NewestIs DEF SeqOf
    <3>3. vR - 1 + 1 - Dist(vQ, vR) = vQ
      BY <3>1, WindowAssumption DEF BSN, Dist
    <3> QED
      BY <1>2, <3>2, <3>3 DEF ShortOK, RcvOK
  <2> QED
    BY <2>1, <2>2
<1>3. ASSUME rlcMode = "ACK", NEW n \in got, n > Newest + 1 - K PROVE vN[Bsn(n)] = "RECEIVED"
  <2>1. n \in BSN /\ vR \in BSN
    BY <1>3, GotFacts
  <2>2. Newest = vR - 1
    BY <1>3, NewestIs
  <2>3. n > vR - K
    BY <1>3, <2>1, <2>2, WindowAssumption DEF BSN
  <2>4. vN[n] = "RECEIVED"
    BY <1>3, <2>3 DEF ShortOK, RcvOK
  <2> QED
    BY <2>1, <2>4, BsnShort
<1> QED
  BY <1>1, <1>2, <1>3 DEF VQSound, BitmapReports

\* In transfers shorter than the sequence space V(Q) has only received blocks below it
\* until the last block is seen: UpdateRcvWindow moves it past no block that is missing.
THEOREM VQCorrect == ShortTbfs /\ Spec => []VQSound
  BY ShortReports, ShortInit, ShortStep, PTL DEF Spec

\* In transfers shorter than the sequence space no block counts as acknowledged at the
\* MS that the link has not accepted, whatever acknowledgements are lost or late.
THEOREM MSAckCorrect == ShortTbfs /\ Spec => []MSAckSound
  BY ShortReports, ShortInit, ShortStep, PTL DEF Spec

\* In transfers shorter than the sequence space every block of the window that came is
\* in the next PACKET UPLINK ACK/NACK's bitmap: V(N) forgets none of them.
THEOREM BitmapCorrect == ShortTbfs /\ Spec => []BitmapReports
  BY ShortReports, ShortInit, ShortStep, PTL DEF Spec
------------------------------------------------------------------------------
(* The timers.                                                              *)

\* A poll for the final acknowledgement that the TBF still knows is under way.
PollSent == \E i \in DOMAIN acks : acks[i].tag
PollEnded == \E i \in DOMAIN queue : queue[i].type = "outcome" /\ queue[i].tag
Open == PollSent \/ PollEnded
Expiring == \E i \in DOMAIN queue : queue[i] = [type |-> "expiry", timer |-> "T3169"]

\* Such a poll was sent when all blocks had come, and that is still so when its
\* outcome is handled: otherwise a message that is sent again would not be polled.
PollOK ==
    /\ \A i \in DOMAIN acks : acks[i].tag => acks[i].polled
    /\ tbfState # "FREE" /\ Open => endOfTBF /\ (rlcMode = "ACK" => vR = vQ)

\* A TBF that is not scheduled waits for T3169, for the handling of its expiry, or
\* for the outcome of a poll.
WatchOK == tbfState = "INACTIVE" => timer["T3169"] \/ Expiring \/ Open

\* Taking the first message, which has the given form or not.
LEMMA TakenAway ==
  ASSUME RcvTypeOK, queue # <<>>
  PROVE  /\ \A i \in DOMAIN Others : \E j \in DOMAIN queue : Others[i] = queue[j]
         /\ \A j \in DOMAIN queue : queue[j] = Taken \/ \E i \in DOMAIN Others : Others[i] = queue[j]
<1>1. /\ queue \in Seq(Message) /\ Others \in Seq(Message)
      /\ Len(Others) = Len(queue) - 1 /\ Len(queue) \in Nat \ {0}
      /\ \A i \in 1 .. Len(Others) : Others[i] = queue[i + 1]
      /\ DOMAIN Others = 1 .. Len(Others) /\ DOMAIN queue = 1 .. Len(queue)
      /\ Taken = queue[1]
  BY DEF RcvTypeOK, Others, Taken
<1>2. \A i \in DOMAIN Others : i + 1 \in DOMAIN queue /\ Others[i] = queue[i + 1]
  BY <1>1
<1>3. ASSUME NEW j \in DOMAIN queue, j # 1
      PROVE  j - 1 \in DOMAIN Others /\ Others[j - 1] = queue[j]
  BY <1>1, <1>3
<1> QED
  BY <1>1, <1>2, <1>3

Awaited == Taken.type = "outcome" /\ Taken.tag
ExpiryTaken == Taken = [type |-> "expiry", timer |-> "T3169"]

LEMMA TakenWaits ==
  ASSUME RcvTypeOK, queue # <<>>, queue' = Others
  PROVE  /\ PollEnded' => PollEnded
         /\ PollEnded => PollEnded' \/ Awaited
         /\ Expiring => Expiring' \/ ExpiryTaken
  BY TakenAway DEF PollEnded, Expiring, Awaited, ExpiryTaken

\* Clearing the tags leaves the expiries.
LEMMA UntaggedWaits ==
  ASSUME RcvTypeOK, queue # <<>>, queue' = UntaggedQueue(Others)
  PROVE  /\ ~PollEnded'
         /\ Expiring => Expiring' \/ ExpiryTaken
<1>1. Others \in Seq(Message)
  BY SeqFacts
<1>2. DOMAIN queue' = DOMAIN Others
  BY DEF UntaggedQueue
<1>3. ASSUME NEW i \in DOMAIN Others
      PROVE  /\ queue'[i].type = "outcome" => ~queue'[i].tag
             /\ Others[i].type # "outcome" => queue'[i] = Others[i]
  <2>1. Others[i] \in Message
    BY <1>1
  <2>2. \A m \in OutcomeMessage : [m EXCEPT !.tag = FALSE].tag = FALSE
    BY DEF OutcomeMessage
  <2>3. Others[i].type = "outcome" => Others[i] \in OutcomeMessage
    BY <2>1 DEF Message, DataMessage, ExpiryMessage, RequestMessage
  <2> QED
    BY <2>2, <2>3 DEF UntaggedQueue
<1>4. ~PollEnded'
  BY <1>2, <1>3 DEF PollEnded
<1>5. ASSUME Expiring, ~ExpiryTaken PROVE Expiring'
  <2>1. PICK j \in DOMAIN queue : queue[j] = [type |-> "expiry", timer |-> "T3169"]
    BY <1>5 DEF Expiring
  <2>2. PICK i \in DOMAIN Others : Others[i] = queue[j]
    BY <1>5, <2>1, TakenAway DEF ExpiryTaken
  <2>3. Others[i].type # "outcome"
    BY <2>1, <2>2
  <2> QED
    BY <1>2, <1>3, <2>1, <2>2, <2>3 DEF Expiring
<1> QED
  BY <1>4, <1>5

\* A message more.
LEMMA PostWaits ==
  ASSUME RcvTypeOK, NEW m \in Message, queue' = Append(queue, m)
  PROVE  /\ PollEnded' <=> PollEnded \/ (m.type = "outcome" /\ m.tag)
         /\ Expiring' <=> Expiring \/ m = [type |-> "expiry", timer |-> "T3169"]
<1>1. /\ DOMAIN queue' = DOMAIN queue \cup {Len(queue) + 1} /\ queue'[Len(queue) + 1] = m
      /\ \A i \in DOMAIN queue : queue'[i] = queue[i]
  BY Appended
<1> QED
  BY <1>1 DEF PollEnded, Expiring

\* SendULAckNack either polls for the final acknowledgement, or changes no state.
LEMMA SendPolls ==
  ASSUME RcvTypeOK, queue # <<>>, NEW r, NEW q, NEW vn, NEW e \in BOOLEAN,
         SendULAckNack(r, q, vn, e, Others),
         \A i \in DOMAIN acks : acks[i].tag => acks[i].polled
  PROVE  /\ \A i \in DOMAIN acks' : acks'[i].tag => acks'[i].polled
         /\ Expiring => Expiring' \/ ExpiryTaken
         /\ \/ e /\ (rlcMode = "ACK" => r = q) /\ tbfState' = "INACTIVE" /\ Open'
            \/ /\ ~(e /\ (rlcMode = "ACK" => r = q))
               /\ tbfState' = tbfState /\ (Open' => Open) /\ (Open => Open' \/ Awaited)
<1> DEFINE final == e /\ (rlcMode = "ACK" => r = q)
           rrb == {i \in BSN : Dist(i, r % RLC_MOD_VAL) \in 1 .. K /\ vn[i] = "RECEIVED"}
           before == IF final THEN UntaggedAcks(acks) ELSE acks
           msg(bit) == [final |-> bit, ssn |-> r, rrb |-> rrb, polled |-> final, tag |-> final]
<1>1. PICK bit \in BOOLEAN : acks' = Append(before, msg(bit))
  BY DEF SendULAckNack
<1>2. acks \in Seq(AckNack) /\ UntaggedAcks(acks) \in Seq(AckNack)
  BY UntaggedType DEF RcvTypeOK
<1>3. \A i \in DOMAIN UntaggedAcks(acks) : ~UntaggedAcks(acks)[i].tag
  <2>1. \A a \in AckNack : [a EXCEPT !.tag = FALSE].tag = FALSE
    BY DEF AckNack
  <2>2. \A i \in DOMAIN acks : acks[i] \in AckNack
    BY <1>2
  <2> QED
    BY <2>1, <2>2 DEF UntaggedAcks
<1>4. queue' = (IF final THEN UntaggedQueue(Others) ELSE Others)
      /\ tbfState' = (IF final THEN "INACTIVE" ELSE tbfState)
  BY DEF SendULAckNack
<1>5. /\ before \in Seq(AckNack) /\ \A i \in DOMAIN before : before[i].tag => before[i].polled
      /\ ~final => before = acks
  BY <1>2, <1>3
<1>6. msg(bit).tag = final /\ msg(bit).polled = final
  OBVIOUS
<1>7. Expiring => Expiring' \/ ExpiryTaken
  BY <1>4, TakenWaits, UntaggedWaits
<1>12. final \in BOOLEAN
  OBVIOUS
<1> HIDE DEF before, msg, final
<1>8. /\ DOMAIN acks' = DOMAIN before \cup {Len(before) + 1}
      /\ acks'[Len(before) + 1] = msg(bit)
      /\ \A i \in DOMAIN before : acks'[i] = before[i]
  <2>1. Len(before) \in Nat /\ DOMAIN before = 1 .. Len(before)
    BY <1>5
  <2>2. DOMAIN acks' = 1 .. Len(before) + 1
    BY <1>1, <1>5
  <2>3. \A i \in 1 .. Len(before) : acks'[i] = before[i]
    BY <1>1, <1>5
  <2>4. acks'[Len(before) + 1] = msg(bit)
    BY <1>1, <1>5
  <2> QED
    BY <2>1, <2>2, <2>3, <2>4
<1>9. \A i \in DOMAIN acks' : acks'[i].tag => acks'[i].polled
  BY <1>5, <1>6, <1>8
<1>10. CASE final
  <2>1. PollSent'
    BY <1>6, <1>8, <1>10 DEF PollSent
  <2> QED
    BY <1>4, <1>7, <1>9, <1>10, <2>1 DEF Open, final
<1>11. CASE ~final
  <2>1. PollSent' <=> PollSent
    BY <1>5, <1>6, <1>8, <1>11 DEF PollSent
  <2>2. /\ PollEnded' => PollEnded
        /\ PollEnded => PollEnded' \/ Awaited
    BY <1>4, <1>11, TakenWaits
  <2> QED
    BY <1>4, <1>7, <1>9, <1>11, <2>1, <2>2 DEF Open, final
<1> QED
  BY <1>10, <1>11

WatchInv == ShortOK /\ PollOK /\ WatchOK

\* A data block keeps what the poll was sent for: in acknowledged mode nothing is
\* accepted any more.
LEMMA ReceiveWatched ==
  ASSUME WatchInv, queue # <<>>, ReceiveULDataBlock
  PROVE  PollOK' /\ WatchOK'
<1> USE DEF WatchInv
<1>1. /\ RcvTypeOK /\ Taken.type = "data" /\ UNCHANGED <<rlcMode>> /\ tbfState # "FREE"
      /\ timer' = Restarted({"Activity"}, {})
  BY DEF ReceiveULDataBlock, ShortOK, LinkOK
<1>2. ~Awaited /\ ~ExpiryTaken
  BY <1>1 DEF Awaited, ExpiryTaken
<1>3. timer["T3169"] => timer'["T3169"]
  BY <1>1 DEF Restarted, Timer
<1>4. CASE RejectULDataBlock
  <2>1. queue' = Others /\ UNCHANGED <<tbfState, vR, vQ, endOfTBF, acks>>
    BY <1>4 DEF RejectULDataBlock
  <2>2. (PollEnded' <=> PollEnded) /\ (Expiring => Expiring')
    BY <1>1, <1>2, <2>1, TakenWaits
  <2>3. PollSent' <=> PollSent
    BY <2>1 DEF PollSent
  <2> QED
    BY <1>1, <1>3, <2>1, <2>2, <2>3 DEF PollOK, WatchOK, Open
<1>5. CASE ~RejectULDataBlock
  <2> DEFINE n == Taken.n
  <2>1. PICK r, vn, q : /\ AcceptULDataBlock(n, r, q, vn)
                        /\ rlcMode = "ACK" => AcceptedAck(n, r, vn, q)
    BY <1>5, Accepted
  <2>2. n \in BSN /\ vR' = r
    BY <1>5, <2>1, Accepted DEF AcceptULDataBlock
  <2>3. endOfTBF \in BOOLEAN /\ endOfTBF' = (endOfTBF \/ IsLast(n)) /\ endOfTBF' \in BOOLEAN
    BY <1>1, <2>1 DEF AcceptULDataBlock, RcvTypeOK
  <2>4. \/ SendULAckNack(vR', vQ', vn, endOfTBF', Others)
        \/ queue' = Others /\ UNCHANGED <<acks, tbfState>>
    BY <2>1 DEF AcceptULDataBlock
  <2> HIDE DEF n
  <2>5. tbfState # "FREE" /\ Open => endOfTBF' /\ rlcMode # "ACK"
    <3> SUFFICES ASSUME tbfState # "FREE", Open PROVE endOfTBF' /\ rlcMode # "ACK"
      OBVIOUS
    <3>1. endOfTBF /\ (rlcMode = "ACK" => vR = vQ)
      BY DEF PollOK
    <3>2. rlcMode = "ACK" => vQ <= n /\ ~(vR <= n)
      BY <2>1, <3>1 DEF AcceptedAck
    <3> QED
      BY <2>3, <3>1, <3>2
  <2>6. CASE SendULAckNack(vR', vQ', vn, endOfTBF', Others)
    <3>1. /\ \A i \in DOMAIN acks' : acks'[i].tag => acks'[i].polled
          /\ Expiring => Expiring'
          /\ \/ endOfTBF' /\ (rlcMode = "ACK" => vR' = vQ') /\ tbfState' = "INACTIVE" /\ Open'
             \/ tbfState' = tbfState /\ (Open' => Open) /\ (Open => Open')
      BY <1>1, <1>2, <2>3, <2>6, SendPolls DEF PollOK
    <3> QED
      BY <1>1, <1>3, <2>5, <3>1 DEF PollOK, WatchOK
  <2>7. CASE queue' = Others /\ UNCHANGED <<acks, tbfState>>
    <3>1. (PollEnded' <=> PollEnded) /\ (Expiring => Expiring')
      BY <1>1, <1>2, <2>7, TakenWaits
    <3>2. PollSent' <=> PollSent
      BY <2>7 DEF PollSent
    <3> QED
      BY <1>1, <1>3, <2>5, <2>7, <3>1, <3>2 DEF PollOK, WatchOK, Open
  <2> QED
    BY <2>4, <2>6, <2>7
<1> QED
  BY <1>4, <1>5

\* The outcome of a poll: the TBF ends, polls again, or starts T3169.
LEMMA OutcomeWatched ==
  ASSUME WatchInv, queue # <<>>, ReceiveOutcome
  PROVE  PollOK' /\ WatchOK'
<1> USE DEF WatchInv
<1>1. /\ RcvTypeOK /\ UNCHANGED <<rlcMode, vR, vQ, vN, endOfTBF>> /\ Taken.type = "outcome"
  BY DEF ReceiveOutcome, ShortOK, LinkOK
<1>2. ~ExpiryTaken
  BY <1>1 DEF ExpiryTaken
<1>3. endOfTBF \in BOOLEAN
  BY <1>1 DEF RcvTypeOK
<1>4. CASE ReceivePacketControlAck
  BY <1>4 DEF ReceivePacketControlAck, ReleaseULTbf, PollOK, WatchOK
<1>5. CASE ReceivePacketControlNack
  <2>1. Open /\ tbfState # "FREE"
    BY <1>1, <1>5, RestOthers DEF ReceivePacketControlNack, Open, PollEnded
  <2>2. endOfTBF /\ (rlcMode = "ACK" => vR = vQ)
    BY <2>1 DEF PollOK
  <2>3. CASE SendULAckNack(vR, vQ, vN, endOfTBF, Others)
    <3>1. /\ \A i \in DOMAIN acks' : acks'[i].tag => acks'[i].polled
          /\ tbfState' = "INACTIVE" /\ Open'
      BY <1>1, <1>3, <2>2, <2>3, SendPolls DEF PollOK
    <3> QED
      BY <1>1, <2>2, <3>1 DEF PollOK, WatchOK
  <2>4. CASE /\ timer' = Restarted({"T3169"}, {})
             /\ queue' = Others
             /\ UNCHANGED <<tbfState, acks>>
    <3>1. timer'["T3169"]
      BY <2>4 DEF Restarted, Timer
    <3> QED
      BY <1>1, <2>2, <2>4, <3>1 DEF PollOK, WatchOK
  <2> QED
    BY <1>5, <2>3, <2>4 DEF ReceivePacketControlNack
<1>6. CASE IgnoreOutcome
  <2>1. /\ queue' = Others /\ UNCHANGED <<tbfState, timer, acks>>
        /\ ~Taken.tag \/ tbfState = "FREE"
    BY <1>6 DEF IgnoreOutcome
  <2>2. /\ PollEnded' => PollEnded
        /\ PollEnded => PollEnded' \/ Awaited
        /\ Expiring => Expiring'
    BY <1>1, <1>2, <2>1, TakenWaits
  <2>3. PollSent' <=> PollSent
    BY <2>1 DEF PollSent
  <2> QED
    BY <1>1, <2>1, <2>2, <2>3 DEF PollOK, WatchOK, Open, Awaited
<1> QED
  BY <1>4, <1>5, <1>6 DEF ReceiveOutcome

\* Every step leaves a TBF out of scheduling with something to wait for.
LEMMA WatchStep ==
  ASSUME WatchInv, [Next]_vars
  PROVE  PollOK' /\ WatchOK'
<1> USE DEF WatchInv
<1>0. RcvTypeOK /\ acks \in Seq(AckNack)
  BY DEF ShortOK, LinkOK, RcvTypeOK
<1>1. ASSUME UNCHANGED <<acks, queue, endOfTBF, rlcMode, vR, vQ>>,
             UNCHANGED <<tbfState, timer>> \/ (tbfState' = "INACTIVE" /\ timer'["T3169"]
                                                /\ tbfState # "FREE")
      PROVE  PollOK' /\ WatchOK'
  BY <1>1 DEF PollOK, WatchOK, Open, PollSent, PollEnded, Expiring
<1>2. CASE queue # <<>> /\ DropDataBlock
  <2>1. /\ queue' = Others /\ UNCHANGED <<tbfState, timer, acks, endOfTBF, rlcMode, vR, vQ>>
        /\ Taken.type = "data"
    BY <1>2 DEF DropDataBlock, windowVars
  <2>2. (PollEnded' <=> PollEnded) /\ (Expiring => Expiring')
    BY <1>0, <1>2, <2>1, TakenWaits DEF Awaited, ExpiryTaken
  <2>3. PollSent' <=> PollSent
    BY <2>1 DEF PollSent
  <2> QED
    BY <2>1, <2>2, <2>3 DEF PollOK, WatchOK, Open
<1>3. ASSUME queue # <<>>, NEW t \in Timer, ProcessExpiry(t) PROVE PollOK' /\ WatchOK'
  <2>1. tbfState' = "FREE" /\ UNCHANGED <<acks>>
    BY <1>3 DEF ProcessExpiry, ReleaseULTbf
  <2> QED
    BY <2>1 DEF PollOK, WatchOK
<1>4. CASE queue # <<>> /\ EstablishULTbf
  <2>1. /\ queue' = UntaggedQueue(Others) /\ acks' = <<>>
        /\ tbfState' \in {"ALLOCATED", "FREE"}
    BY <1>4 DEF EstablishULTbf
  <2>2. ~PollEnded' /\ ~PollSent'
    BY <1>0, <1>4, <2>1, UntaggedWaits DEF PollSent
  <2> QED
    BY <2>1, <2>2 DEF PollOK, WatchOK, Open, PollSent
<1>5. CASE HandleMessage
  BY <1>2, <1>3, <1>4, <1>5, ReceiveWatched, OutcomeWatched DEF HandleMessage
<1>6. CASE ReassembleULPDU \/ USFUnused \/ MSLeaves
  BY <1>1, <1>6 DEF ReassembleULPDU, USFUnused, MSLeaves, windowVars
<1>7. CASE IncrementN3101 \/ AbnormalRelease
  <2>1. Restarted({"T3169"}, {})["T3169"]
    BY DEF Restarted, Timer
  <2> QED
    BY <1>1, <1>7, <2>1 DEF IncrementN3101, AbnormalRelease, GuardTimer, windowVars
<1>8. ASSUME NEW m \in Message, queue' = Append(queue, m), m.type # "outcome",
             UNCHANGED <<tbfState, timer, acks, endOfTBF, rlcMode, vR, vQ>>
      PROVE  PollOK' /\ WatchOK'
  <2>1. (PollEnded' <=> PollEnded) /\ (Expiring => Expiring')
    BY <1>0, <1>8, PostWaits
  <2>2. PollSent' <=> PollSent
    BY <1>8 DEF PollSent
  <2> QED
    BY <1>8, <2>1, <2>2 DEF PollOK, WatchOK, Open
<1>9. CASE MSRequest
  <2>1. [type |-> "request"] \in Message /\ queue' = Append(queue, [type |-> "request"])
    BY <1>9, MessageIn DEF MSRequest
  <2>2. UNCHANGED <<tbfState, timer, acks, endOfTBF, rlcMode, vR, vQ>>
    BY <1>9 DEF MSRequest, windowVars
  <2> QED
    BY <1>8, <2>1, <2>2
<1>10. CASE MSSend
  <2>1. PICK n \in Sendable : queue' = Append(queue, [type |-> "data", n |-> n]) \/ queue' = queue
    BY <1>10 DEF MSSend
  <2>2. UNCHANGED <<tbfState, timer, acks, endOfTBF, rlcMode, vR, vQ>>
    BY <1>10 DEF MSSend, windowVars
  <2>3. [type |-> "data", n |-> n] \in Message
    BY <1>0, SendableType, MessageIn
  <2> QED
    BY <1>1, <1>8, <2>1, <2>2, <2>3
<1>11. CASE MSHearsAck \/ AckLost
  <2> DEFINE a == Head(acks)
  <2>1. /\ acks # <<>> /\ acks' = Tail(acks)
        /\ UNCHANGED <<tbfState, timer, endOfTBF, rlcMode, vR, vQ>>
        /\ \/ a.polled /\ \E x \in BOOLEAN :
                queue' = Append(queue, [type |-> "outcome", tag |-> a.tag, ack |-> x])
           \/ ~a.polled /\ queue' = queue
    BY <1>11 DEF MSHearsAck, AckLost, windowVars
  <2>2. /\ a \in AckNack /\ a = acks[1] /\ 1 \in DOMAIN acks
        /\ \A i \in DOMAIN acks' : i + 1 \in DOMAIN acks /\ acks'[i] = acks[i + 1]
        /\ \A i \in DOMAIN acks : i # 1 => i - 1 \in DOMAIN acks' /\ acks'[i - 1] = acks[i]
    <3>1. Len(acks) \in Nat \ {0} /\ DOMAIN acks = 1 .. Len(acks) /\ a = acks[1] /\ a \in AckNack
      BY <1>0, <2>1
    <3>2. DOMAIN acks' = 1 .. Len(acks) - 1
      BY <1>0, <2>1
    <3>3. \A i \in 1 .. Len(acks) - 1 : acks'[i] = acks[i + 1]
      BY <1>0, <2>1
    <3> HIDE DEF a
    <3>4. \A i \in 1 .. Len(acks) : i # 1 => i - 1 \in 1 .. Len(acks) - 1 /\ (i - 1) + 1 = i
      BY <3>1
    <3> QED
      BY <3>1, <3>2, <3>3, <3>4
  <2> HIDE DEF a
  <2>3. a.tag \in BOOLEAN /\ a.polled \in BOOLEAN /\ (a.tag => a.polled)
    BY <2>2 DEF AckNack, PollOK
  <2>4. (PollSent' => PollSent) /\ (PollSent => PollSent' \/ a.tag)
    BY <2>2 DEF PollSent
  <2>5. \A i \in DOMAIN acks' : acks'[i].tag => acks'[i].polled
    BY <2>2 DEF PollOK
  <2>6. Open' <=> Open
    <3>1. CASE \E x \in BOOLEAN :
                 queue' = Append(queue, [type |-> "outcome", tag |-> a.tag, ack |-> x])
      <4>1. PollEnded' <=> PollEnded \/ a.tag
        <5>1. PICK x \in BOOLEAN :
                 queue' = Append(queue, [type |-> "outcome", tag |-> a.tag, ack |-> x])
          BY <3>1
        <5>2. [type |-> "outcome", tag |-> a.tag, ack |-> x] \in Message
          BY <2>3, MessageIn
        <5> QED
          BY <1>0, <5>1, <5>2, PostWaits
      <4>2. a.tag => PollSent
        BY <2>2 DEF PollSent
      <4> QED
        BY <2>4, <4>1, <4>2 DEF Open
    <3>2. CASE ~a.polled /\ queue' = queue
      BY <2>3, <2>4, <3>2 DEF Open, PollEnded
    <3> QED
      BY <2>1, <3>1, <3>2
  <2>7. Expiring => Expiring'
    <3>1. CASE queue' = queue
      BY <3>1 DEF Expiring
    <3>2. ASSUME NEW x \in BOOLEAN,
                 queue' = Append(queue, [type |-> "outcome", tag |-> a.tag, ack |-> x])
          PROVE  Expiring => Expiring'
      <4>1. [type |-> "outcome", tag |-> a.tag, ack |-> x] \in Message
        BY <2>3, MessageIn
      <4> QED
        BY <1>0, <3>2, <4>1, PostWaits
    <3> QED
      BY <2>1, <3>1, <3>2
  <2> QED
    BY <2>1, <2>5, <2>6, <2>7 DEF PollOK, WatchOK
<1>12. ASSUME NEW t \in Timer, TimerExpiry(t) PROVE PollOK' /\ WatchOK'
  <2>1. /\ [type |-> "expiry", timer |-> t] \in Message
        /\ queue' = Append(queue, [type |-> "expiry", timer |-> t])
        /\ UNCHANGED <<tbfState, acks, endOfTBF, rlcMode, vR, vQ>>
        /\ timer' = [timer EXCEPT ![t] = FALSE]
    BY <1>12, MessageIn DEF TimerExpiry, windowVars
  <2>2. /\ PollEnded' <=> PollEnded
        /\ Expiring' <=> Expiring \/ t = "T3169"
    BY <1>0, <2>1, PostWaits
  <2>3. PollSent' <=> PollSent
    BY <2>1 DEF PollSent
  <2>4. timer["T3169"] => timer'["T3169"] \/ t = "T3169"
    BY <1>0, <2>1 DEF RcvTypeOK, Timer
  <2> QED
    BY <2>1, <2>2, <2>3, <2>4 DEF PollOK, WatchOK, Open
<1>13. CASE UNCHANGED vars
  BY <1>1, <1>13 DEF vars, windowVars
<1> QED
  BY <1>5, <1>6, <1>7, <1>9, <1>10, <1>11, <1>12, <1>13 DEF Next

\* In transfers shorter than the sequence space an uplink TBF that is not scheduled
\* and for which nothing is under way has T3169 running: N3101 and OAM start it, a
\* final acknowledgement is polled for, and the poll is repeated until N3103 starts it.
THEOREM RcvAlwaysWatched == ShortTbfs /\ Spec => []RcvWatched
<1>1. Init /\ ShortTbfs => WatchInv
  <2> SUFFICES ASSUME Init, ShortTbfs PROVE WatchInv
    OBVIOUS
  <2>1. tbfState = "FREE" /\ acks = <<>>
    BY DEF Init
  <2> QED
    BY <2>1, ShortInit DEF WatchInv, PollOK, WatchOK
<1>2. WatchInv /\ [Next]_vars => WatchInv'
  BY ShortStep, WatchStep DEF WatchInv
<1>3. WatchInv => RcvWatched
  BY DEF WatchInv, WatchOK, RcvWatched, Open, PollSent, PollEnded, Expiring
<1> QED
  BY <1>1, <1>2, <1>3, PTL DEF Spec
------------------------------------------------------------------------------
(* Reassembly.                                                              *)

\* The link is collecting blocks of an acknowledged transfer whose last block it
\* has not seen.
Collecting == rlcMode = "ACK" /\ ~endOfTBF /\ tbfState # "FREE"

\* Blocks are held at their own indices.  While the link collects, all it has from
\* firstDataBlock on are still held; where PDUs end, the blocks start there or later
\* than firstDataBlock; and a PDU is put together only from blocks below V(Q).
HeldOK ==
    /\ \A i \in Held : pUlBlocks[i].n = i /\ i \in got
    /\ rlcMode = "ACK" /\ ~endOfTBF => delivered \in Seq(Seq(Nat \X Nat))
    /\ Collecting =>
          /\ firstDataBlock <= vQ
          /\ \A i \in Held : i >= vQ => pUlBlocks[i].cur = 0
          /\ \A m \in got : m >= firstDataBlock => m \in Held
          /\ lastDataBlock # LAST_BLOCK_UNKNOWN =>
                /\ firstDataBlock <= lastDataBlock /\ lastDataBlock \in got
                /\ EndsPdu(pUlBlocks[lastDataBlock])
          /\ reassembling =>
                /\ lastDataBlock < vQ /\ currDataBlock = firstDataBlock
                /\ buf \in Seq(Nat \X Nat)

HoldInv == ShortOK /\ EndsGoOn /\ HeldOK

\* Assembly is needed only of blocks below V(Q): the test counts modulo RLC_MOD_VAL,
\* but V(R) is never a window ahead of V(Q).
LEMMA AssemblyBelow ==
  ASSUME ShortOK, rlcMode = "ACK", ~endOfTBF, NEW m \in got, AssemblyNeeded(m, vQ)
  PROVE  m < vQ
<1>1. vR \in BSN /\ vQ \in BSN /\ m \in BSN /\ m < vR /\ m # vQ
  BY GotFacts DEF ShortOK, RcvOK
<1>2. vR <= vQ + K
  BY WindowSize
<1>3. Dist(m, vQ) < K
  BY DEF AssemblyNeeded
<1> QED
  BY <1>1, <1>2, <1>3, WindowAssumption DEF Dist, BSN

LastNeeded == AssemblyNeeded(lastDataBlock, vQ)

LastCame == rlcMode = "ACK" /\ ~endOfTBF /\ lastDataBlock \in got
LastBelow == lastDataBlock < vQ

LEMMA NeededBelow == ShortOK /\ LastCame /\ LastNeeded => LastBelow
BY AssemblyBelow DEF LastCame, LastNeeded, LastBelow

\* An accepted block.
LEMMA AcceptHolds ==
  ASSUME HoldInv, [Next]_vars, Idle, queue # <<>>, ReceiveULDataBlock, ~RejectULDataBlock
  PROVE  HeldOK'
<1> USE DEF HoldInv
<1> DEFINE n == Taken.n
           new == [n |-> n, cur |-> 0]
<1>1. /\ n \in BSN /\ Bsn(n) = n /\ UNCHANGED <<lay, rlcMode, firstDataBlock, delivered>>
      /\ tbfState # "FREE"
  BY Accepted DEF ReceiveULDataBlock
<1>2. PICK r, vn, q : /\ AcceptULDataBlock(n, r, q, vn)
                      /\ rlcMode = "ACK" => AcceptedAck(n, r, vn, q)
  BY Accepted
<1>3. pUlBlocks \in [BSN -> HeldBlock \cup {Null}] /\ n \in Nat /\ new \in HeldBlock /\ new # Null
  <2>1. pUlBlocks \in [BSN -> HeldBlock \cup {Null}]
    BY DEF ShortOK, LinkOK, RcvTypeOK
  <2>2. n \in Nat
    BY <1>1, WindowAssumption DEF BSN
  <2>3. new \in HeldBlock
    BY <2>2 DEF HeldBlock
  <2>4. Null \notin HeldBlock
    BY ULAssumption DEF HeldBlock
  <2> QED
    BY <2>1, <2>2, <2>3, <2>4
<1>4. pUlBlocks' = IF pUlBlocks[n] = Null THEN [pUlBlocks EXCEPT ![n] = new] ELSE pUlBlocks
  BY <1>1, <1>2 DEF AcceptULDataBlock
<1>5. /\ got' = got \cup {n} /\ buf' = <<>> /\ currDataBlock' = firstDataBlock
      /\ endOfTBF' = (endOfTBF \/ IsLast(n))
      /\ lastDataBlock' = (IF lastDataBlock = LAST_BLOCK_UNKNOWN /\ EndsPdu(new)
                           THEN n ELSE lastDataBlock)
      /\ ~endOfTBF' => vQ' = q
      /\ reassembling' = (lastDataBlock' # LAST_BLOCK_UNKNOWN /\ AssemblyNeeded(lastDataBlock', vQ'))
  BY <1>1, <1>2 DEF AcceptULDataBlock
<1> HIDE DEF n, new
<1>6. /\ Held' = Held \cup {n} /\ n \in Held'
      /\ \A i \in Held : pUlBlocks'[i] = pUlBlocks[i]
      /\ n \notin Held => pUlBlocks'[n] = new
  BY <1>1, <1>3, <1>4 DEF Held
<1>7. new.n = n /\ new.cur = 0
  BY DEF new
<1>8. \A i \in Held' : pUlBlocks'[i].n = i /\ i \in got'
  BY <1>5, <1>6, <1>7 DEF HeldOK
<1>9. ASSUME Collecting'
      PROVE  /\ firstDataBlock' <= vQ'
             /\ \A i \in Held' : i >= vQ' => pUlBlocks'[i].cur = 0
             /\ \A m \in got' : m >= firstDataBlock' => m \in Held'
             /\ lastDataBlock' # LAST_BLOCK_UNKNOWN =>
                   /\ firstDataBlock' <= lastDataBlock' /\ lastDataBlock' \in got'
                   /\ EndsPdu(pUlBlocks[lastDataBlock])'
             /\ reassembling' => lastDataBlock' < vQ'
  <2>1. /\ Collecting /\ rlcMode = "ACK" /\ ~endOfTBF /\ vQ' = q
    BY <1>1, <1>5, <1>9 DEF Collecting
  <2>2. /\ firstDataBlock <= vQ
        /\ \A i \in Held : i >= vQ => pUlBlocks[i].cur = 0
        /\ \A m \in got : m >= firstDataBlock => m \in Held
        /\ lastDataBlock # LAST_BLOCK_UNKNOWN =>
              /\ firstDataBlock <= lastDataBlock /\ lastDataBlock \in got
              /\ EndsPdu(pUlBlocks[lastDataBlock])
    BY <2>1 DEF HeldOK
  <2>3. /\ n + 1 \in BSN /\ vQ <= n /\ r = (IF vR <= n THEN n + 1 ELSE vR)
        /\ vn = NewVN(n, r) /\ q = NewVQ(n, r, vn)
    BY <1>2, <2>1 DEF AcceptedAck
  <2>4. vQ <= vQ' /\ vQ \in BSN /\ vQ' \in BSN /\ firstDataBlock \in Int
    <3>1. vQ <= q /\ q \in BSN
      BY <1>1, <2>1, <2>3, WindowAfter
    <3>2. firstDataBlock \in 0 .. RLC_MOD_VAL
      BY DEF ShortOK, LinkOK, RcvTypeOK
    <3> QED
      BY <2>1, <3>1, <3>2, GotFacts
  <2>5. firstDataBlock' <= vQ' /\ firstDataBlock <= n
    BY <1>1, <2>2, <2>3, <2>4, WindowAssumption DEF BSN
  <2>6. \A i \in Held' : i >= vQ' => pUlBlocks'[i].cur = 0
    <3>1. \A i \in Held : i \in BSN
      BY DEF Held
    <3>2. \A i \in Held : i >= vQ' => i >= vQ
      BY <2>4, <3>1, WindowAssumption DEF BSN
    <3> QED
      BY <1>6, <1>7, <2>2, <3>2
  <2>7. \A m \in got' : m >= firstDataBlock' => m \in Held'
    BY <1>1, <1>5, <1>6, <2>2
  <2>8. ASSUME lastDataBlock' # LAST_BLOCK_UNKNOWN
        PROVE  /\ firstDataBlock' <= lastDataBlock' /\ lastDataBlock' \in got'
               /\ EndsPdu(pUlBlocks[lastDataBlock])'
    <3>1. CASE lastDataBlock = LAST_BLOCK_UNKNOWN
      <4>1. lastDataBlock' = n /\ EndsPdu(new)
        BY <1>5, <2>8, <3>1
      <4>2. pUlBlocks'[n] = new
        <5>1. CASE n \in Held
          <6>1. pUlBlocks[n] \in HeldBlock /\ pUlBlocks[n].n = n /\ pUlBlocks[n].cur = 0
            BY <1>1, <1>3, <2>2, <2>3, <5>1 DEF Held, HeldOK
          <6>2. pUlBlocks[n] = new
            BY <6>1 DEF HeldBlock, new
          <6> QED
            BY <1>6, <5>1, <6>2
        <5>2. CASE n \notin Held
          BY <1>6, <5>2
        <5> QED
          BY <5>1, <5>2
      <4>3. EndsPdu(pUlBlocks[lastDataBlock])'
        BY <1>1, <4>1, <4>2 DEF EndsPdu, IsLast, Layout
      <4> QED
        BY <1>1, <1>5, <2>5, <4>1, <4>3
    <3>2. CASE lastDataBlock # LAST_BLOCK_UNKNOWN
      <4>1. lastDataBlock' = lastDataBlock
        BY <1>5, <3>2
      <4>2. lastDataBlock \in Held
        BY <2>2, <2>4, <3>2, GotFacts, WindowAssumption DEF BSN
      <4>3. pUlBlocks'[lastDataBlock] = pUlBlocks[lastDataBlock]
        BY <1>6, <4>2
      <4>4. EndsPdu(pUlBlocks[lastDataBlock])'
        BY <1>1, <2>2, <3>2, <4>1, <4>3 DEF EndsPdu, IsLast, Layout
      <4> QED
        BY <1>1, <1>5, <2>2, <3>2, <4>1, <4>4
    <3> QED
      BY <3>1, <3>2
  <2>9. ASSUME reassembling' PROVE lastDataBlock' < vQ'
    <3>1. /\ lastDataBlock' # LAST_BLOCK_UNKNOWN /\ AssemblyNeeded(lastDataBlock', vQ')
      BY <1>5, <2>9
    <3>2. LastNeeded'
      BY <1>1, <3>1 DEF LastNeeded, AssemblyNeeded
    <3>3. ShortOK'
      BY ShortStep
    <3>4. LastCame'
      BY <1>9, <2>8, <3>1 DEF Collecting, LastCame
    <3>5. LastBelow'
      BY <3>2, <3>3, <3>4, NeededBelow, PTL
    <3> QED
      BY <3>5 DEF LastBelow
  <2> QED
    BY <2>5, <2>6, <2>7, <2>8, <2>9
<1>10. <<>> \in Seq(Nat \X Nat)
  OBVIOUS
<1> QED
  BY <1>1, <1>5, <1>8, <1>9, <1>10 DEF HeldOK, Collecting

\* One PDU of a call of ReassembleULPDU: blocks are released, and only the block the
\* PDU ended in is changed.
LEMMA ReassembleLeaves ==
  ASSUME LinkOK, ReassembleULPDU
  PROVE  /\ lastDataBlock \in BSN /\ pUlBlocks[lastDataBlock] \in HeldBlock
         /\ tbfState # "FREE" /\ tbfState' = tbfState
         /\ UNCHANGED <<windowVars, msVars>>
         /\ Held' \subseteq Held
         /\ \A i \in Held' : /\ pUlBlocks'[i].n = pUlBlocks[i].n
                             /\ i # lastDataBlock => pUlBlocks'[i] = pUlBlocks[i]
<1> DEFINE l == lastDataBlock
           h == pUlBlocks[l]
<1>1. l \in BSN /\ h \in HeldBlock /\ tbfState # "FREE"
  <2>1. reassembling /\ tbfState # "FREE" /\ l # LAST_BLOCK_UNKNOWN /\ h # Null
    BY DEF LinkOK, PduHeld, ReassembleULPDU
  <2>2. l \in BSN \cup {LAST_BLOCK_UNKNOWN} /\ pUlBlocks \in [BSN -> HeldBlock \cup {Null}]
    BY DEF LinkOK, RcvTypeOK
  <2> QED
    BY <2>1, <2>2
<1>2. UNCHANGED <<tbfState, windowVars, msVars>>
  BY DEF ReassembleULPDU
<1> DEFINE c(kept) == IF kept = "next_block" THEN l + 1 ELSE l
           p1(kept) == IF kept = "next_octet" THEN [pUlBlocks EXCEPT ![l].cur = h.cur + 1]
                       ELSE pUlBlocks
<1>30. PICK kept \in Kept :
        pUlBlocks' = [i \in BSN |-> IF i \in ReleasedIndices(firstDataBlock, c(kept)) THEN Null
                                    ELSE p1(kept)[i]]
  BY DEF ReassembleULPDU
<1> DEFINE released == ReleasedIndices(firstDataBlock, c(kept))
<1>3. pUlBlocks' = [i \in BSN |-> IF i \in released THEN Null ELSE p1(kept)[i]]
  BY <1>30
<1> HIDE DEF released
<1>4. pUlBlocks \in [BSN -> HeldBlock \cup {Null}]
  BY DEF LinkOK, RcvTypeOK
<1>5. ASSUME NEW i \in BSN, i # l, i \notin released PROVE pUlBlocks'[i] = pUlBlocks[i]
  BY <1>3, <1>4, <1>5
<1>6. l \notin released => pUlBlocks'[l] \in {h, [h EXCEPT !.cur = h.cur + 1]}
  BY <1>1, <1>3, <1>4
<1>7. [h EXCEPT !.cur = h.cur + 1].n = h.n
  BY <1>1 DEF HeldBlock
<1>8. \A i \in Held' : i \in BSN /\ i \notin released /\ pUlBlocks'[i] # Null
  BY <1>3 DEF Held
<1>9. h # Null
  BY <1>1, ULAssumption DEF HeldBlock
<1> HIDE DEF h
<1>10. \A i \in Held' : /\ pUlBlocks'[i].n = pUlBlocks[i].n
                        /\ i # lastDataBlock => pUlBlocks'[i] = pUlBlocks[i]
  BY <1>5, <1>6, <1>7, <1>8 DEF h
<1>11. Held' \subseteq Held
  BY <1>1, <1>5, <1>8, <1>9 DEF Held, h
<1> QED
  BY <1>1, <1>2, <1>10, <1>11 DEF h

\* A PDU that ends before the last block of the TBF ends in a block that holds the
\* start of the next one.
LEMMA EndsGoOnIn ==
  ASSUME LinkOK, ShortTbfs, EndsGoOn, NEW h \in HeldBlock, h.n < Len(lay) - 1,
         EndsPdu(h)
  PROVE  KeptOf(h) = {"next_octet"}
<1>1. lay \in Layouts /\ Len(lay) \in Nat
  BY LayFacts DEF LinkOK, RcvTypeOK
<1>2. h.n \in Nat /\ h.cur \in Nat
  BY DEF HeldBlock
<1>3. h.n + 1 \in 1 .. Len(lay) - 1
  BY <1>1, <1>2
<1>4. Layout(h.n).ends = 0 \/ Layout(h.n).more
  BY <1>1, <1>3 DEF EndsGoOn, Layout
<1>5. lay \in Seq(BlockLayout)
  BY <1>1, ULAssumption
<1>6. Layout(h.n) \in BlockLayout
  <2>1. h.n + 1 \in 1 .. Len(lay)
    BY <1>1, <1>3
  <2> QED
    BY <1>5, <2>1 DEF Layout
<1>7. Layout(h.n).ends \in Nat
  BY <1>6 DEF BlockLayout
<1>8. h.cur < Layout(h.n).ends
  BY <1>1, <1>2 DEF EndsPdu, IsLast
<1>9. Layout(h.n).ends # 0 /\ ~(h.cur >= Layout(h.n).ends)
  BY <1>2, <1>7, <1>8
<1> QED
  BY <1>4, <1>9 DEF KeptOf

\* While the link collects, a PDU is read from blocks that are all held, and the scan
\* for the next PDU starts in the block the last one ended in.
LEMMA ReassembleHolds ==
  ASSUME HoldInv, [Next]_vars, ReassembleULPDU
  PROVE  HeldOK'
<1> USE DEF HoldInv
<1> DEFINE l == lastDataBlock
           h == pUlBlocks[l]
<1>1. /\ l \in BSN /\ h \in HeldBlock /\ tbfState # "FREE" /\ tbfState' = tbfState
      /\ UNCHANGED <<windowVars, msVars>>
      /\ Held' \subseteq Held
      /\ \A i \in Held' : /\ pUlBlocks'[i].n = pUlBlocks[i].n
                          /\ i # l => pUlBlocks'[i] = pUlBlocks[i]
  BY ReassembleLeaves DEF ShortOK
<1>2. UNCHANGED <<rlcMode, vR, vQ, vN, endOfTBF, got, lay>>
  BY <1>1 DEF windowVars, msVars
<1>3. \A i \in Held' : pUlBlocks'[i].n = i /\ i \in got'
  BY <1>1, <1>2 DEF HeldOK
<1>4. CASE ~(rlcMode = "ACK" /\ ~endOfTBF)
  BY <1>2, <1>3, <1>4 DEF HeldOK, Collecting
<1>5. CASE rlcMode = "ACK" /\ ~endOfTBF
  <2>1. /\ Collecting /\ reassembling /\ l # LAST_BLOCK_UNKNOWN
        /\ currDataBlock = firstDataBlock
    <3>1. reassembling
      BY DEF ReassembleULPDU
    <3>2. l # LAST_BLOCK_UNKNOWN
      BY <3>1 DEF ShortOK, LinkOK, PduHeld
    <3> QED
      BY <1>1, <1>5, <3>1, <3>2 DEF Collecting, HeldOK
  <2>2. /\ firstDataBlock <= vQ
        /\ \A i \in Held : i >= vQ => pUlBlocks[i].cur = 0
        /\ \A m \in got : m >= firstDataBlock => m \in Held
        /\ firstDataBlock <= l /\ l \in got /\ EndsPdu(h) /\ l < vQ
        /\ buf \in Seq(Nat \X Nat) /\ delivered \in Seq(Seq(Nat \X Nat))
    BY <1>5, <2>1 DEF HeldOK
  <2>3. vR \in BSN /\ vQ \in BSN /\ vQ <= vR /\ firstDataBlock \in BSN
        /\ \A m \in 0 .. vQ - 1 : m \in got
    <3>1. vR \in BSN /\ vQ \in BSN /\ vQ <= vR /\ \A m \in 0 .. vQ - 1 : m \in got
      BY <1>5, GotFacts DEF ShortOK, RcvOK
    <3>2. firstDataBlock \in 0 .. RLC_MOD_VAL
      BY DEF ShortOK, LinkOK, RcvTypeOK
    <3> QED
      BY <1>1, <2>2, <3>1, <3>2, WindowAssumption DEF BSN
  <2>4. l \in Held /\ h.n = l
    <3>1. l \in Held
      BY <2>2
    <3> QED
      BY <3>1 DEF HeldOK
  <2>5. h.n < Len(lay) - 1
    <3>1. Len(lay) \in Nat /\ msVS \in Nat /\ l < msVS /\ msVS <= Len(lay) /\ l \in Int
      BY <2>2, GotFacts, WindowAssumption DEF BSN
    <3>2. l # Len(lay) - 1
      BY <1>5, <2>2 DEF ShortOK, RcvOK
    <3>3. l < Len(lay) - 1
      BY <3>1, <3>2
    <3> QED
      BY <2>4, <3>3
  <2>6. KeptOf(h) = {"next_octet"}
    BY <1>1, <2>2, <2>5, EndsGoOnIn DEF ShortOK
  <2> DEFINE p1 == [pUlBlocks EXCEPT ![l].cur = h.cur + 1]
             released == ReleasedIndices(firstDataBlock, l)
             p2 == [i \in BSN |-> IF i \in released THEN Null ELSE p1[i]]
             ends == ScanEnds(l, p2)
             found == l # vR /\ ends # {}
             next == FirstFrom(l, ends)
  <2>7. /\ buf' = buf \o PduRead
        /\ delivered' = Append(delivered, buf')
        /\ pUlBlocks' = p2
        /\ firstDataBlock' = l /\ currDataBlock' = l
        /\ lastDataBlock' = IF found /\ ~fault' THEN next ELSE LAST_BLOCK_UNKNOWN
        /\ reassembling' = (found /\ ~fault' /\ AssemblyNeeded(next, vQ))
    BY <2>6 DEF ReassembleULPDU
  <2>8. PduRead \in Seq(Nat \X Nat)
    <3>1. Dist(currDataBlock, l) = l - firstDataBlock
      BY <1>1, <2>1, <2>2, <2>3, WindowAssumption DEF BSN, Dist
    <3>2. l - firstDataBlock + 1 \in Nat
      BY <1>1, <2>2, <2>3, WindowAssumption DEF BSN
    <3>3. ASSUME NEW j \in 1 .. l - firstDataBlock + 1
          PROVE  PieceAt(Plus(currDataBlock, j - 1)) \in Nat \X Nat
      <4> DEFINE i == firstDataBlock + (j - 1)
      <4>1. i \in BSN /\ firstDataBlock <= i /\ i < vQ /\ Plus(currDataBlock, j - 1) = i
        BY <1>1, <2>1, <2>2, <2>3, WindowAssumption DEF BSN, Plus
      <4> HIDE DEF i
      <4>2. i \in Held
        <5>1. i \in 0 .. vQ - 1
          BY <2>3, <4>1, WindowAssumption DEF BSN
        <5> QED
          BY <2>2, <2>3, <4>1, <5>1
      <4>3. pUlBlocks[i] \in HeldBlock /\ pUlBlocks[i] # Null
        BY <4>1, <4>2 DEF Held, ShortOK, LinkOK, RcvTypeOK
      <4>4. PieceAt(i) = <<pUlBlocks[i].n, pUlBlocks[i].cur>>
        BY <4>3 DEF PieceAt
      <4>5. pUlBlocks[i].n \in Nat /\ pUlBlocks[i].cur \in Nat
        BY <4>3 DEF HeldBlock
      <4> QED
        BY <4>1, <4>4, <4>5
    <3>4. PduRead = [j \in 1 .. l - firstDataBlock + 1 |-> PieceAt(Plus(currDataBlock, j - 1))]
      BY <3>1 DEF PduRead
    <3> QED
      BY <3>2, <3>3, <3>4
  <2>9. buf' \in Seq(Nat \X Nat) /\ delivered' \in Seq(Seq(Nat \X Nat))
    <3>1. buf' \in Seq(Nat \X Nat)
      BY <2>2, <2>7, <2>8
    <3> QED
      BY <2>2, <2>7, <3>1
  <2>10. \A i \in BSN : i \in released <=> firstDataBlock <= i /\ i < l
    BY <1>1, <2>2, <2>3, WindowAssumption DEF BSN, ReleasedIndices
  <2> HIDE DEF released
  <2>11. \A m \in got : m >= l => m \in Held'
    <3> SUFFICES ASSUME NEW m \in got, m >= l PROVE m \in Held'
      OBVIOUS
    <3>1. m \in BSN /\ m \in Held /\ m \notin released
      BY <1>1, <2>2, <2>3, <2>10, GotFacts, WindowAssumption DEF BSN
    <3>2. CASE m = l
      <4>1. pUlBlocks'[l] = [h EXCEPT !.cur = h.cur + 1]
        BY <1>1, <2>7, <3>1, <3>2 DEF ShortOK, LinkOK, RcvTypeOK
      <4>2. [h EXCEPT !.cur = h.cur + 1] \in HeldBlock
        BY <1>1 DEF HeldBlock
      <4>3. Null \notin HeldBlock
        BY ULAssumption DEF HeldBlock
      <4> QED
        BY <3>1, <3>2, <4>1, <4>2, <4>3 DEF Held
    <3>3. CASE m # l
      <4>1. pUlBlocks'[m] = pUlBlocks[m]
        BY <1>1, <2>7, <3>1, <3>3 DEF ShortOK, LinkOK, RcvTypeOK
      <4> QED
        BY <3>1, <4>1 DEF Held
    <3> QED
      BY <3>2, <3>3
  <2>12. \A i \in Held' : i >= vQ => pUlBlocks'[i].cur = 0
    <3>1. \A i \in Held' : i >= vQ => i # l
      BY <1>1, <2>2, <2>3, WindowAssumption DEF BSN
    <3> QED
      BY <1>1, <2>2, <3>1
  <2> HIDE DEF p2
  <2>13. ASSUME lastDataBlock' # LAST_BLOCK_UNKNOWN
         PROVE  /\ firstDataBlock' <= lastDataBlock' /\ lastDataBlock' \in got'
                /\ EndsPdu(pUlBlocks[lastDataBlock])'
    <3>1. lastDataBlock' = next /\ ends # {}
      BY <2>7, <2>13
    <3>2. ends = {i \in Span(l, vR) : p2[i] # Null /\ EndsPdu(p2[i])}
      BY <2>3 DEF ScanEnds
    <3>3. ends \in SUBSET BSN
      BY <3>2, SpanType
    <3> HIDE DEF ends
    <3>4. next \in ends
      BY <1>1, <3>1, <3>3, FirstFromIn
    <3>5. next \in BSN /\ l <= next
      <4>1. l <= vR
        BY <1>1, <2>2, <2>3, WindowAssumption DEF BSN
      <4>2. next \in Span(l, vR) /\ next \in BSN
        BY <3>2, <3>3, <3>4
      <4> QED
        BY <1>1, <2>3, <4>1, <4>2, SpanFlat
    <3> HIDE DEF next
    <3>6. next \in Held'
      BY <2>7, <3>2, <3>4, <3>5 DEF Held
    <3>7. EndsPdu(pUlBlocks[lastDataBlock])'
      <4>1. EndsPdu(p2[next])
        BY <3>2, <3>4
      <4> QED
        BY <1>2, <2>7, <3>1, <4>1 DEF EndsPdu, IsLast, Layout
    <3> QED
      BY <1>3, <2>7, <3>1, <3>5, <3>6, <3>7
  <2>14. ASSUME reassembling' PROVE lastDataBlock' < vQ'
    <3>1. lastDataBlock' = next /\ AssemblyNeeded(next, vQ)
      BY <2>7, <2>14
    <3>2. LastNeeded'
      BY <1>2, <3>1 DEF LastNeeded, AssemblyNeeded
    <3>3. ShortOK'
      BY ShortStep
    <3>4. lastDataBlock' # LAST_BLOCK_UNKNOWN
      BY <2>14, <3>3 DEF ShortOK, LinkOK, PduHeld
    <3>5. LastCame'
      BY <1>2, <1>5, <2>13, <3>4 DEF LastCame
    <3>6. LastBelow'
      BY <3>2, <3>3, <3>5, NeededBelow, PTL
    <3> QED
      BY <3>6 DEF LastBelow
  <2>15. firstDataBlock' <= vQ'
    BY <1>1, <1>2, <2>2, <2>3, <2>7, WindowAssumption DEF BSN
  <2> QED
    BY <1>2, <1>3, <2>7, <2>9, <2>11, <2>12, <2>13, <2>14, <2>15 DEF HeldOK, Collecting
<1> QED
  BY <1>4, <1>5

\* Every step keeps the held blocks and the PDUs right.
LEMMA HoldStep ==
  ASSUME HoldInv, [Next]_vars
  PROVE  HeldOK'
<1> USE DEF HoldInv
<1> DEFINE Stays ==
             /\ UNCHANGED <<pUlBlocks, firstDataBlock, lastDataBlock, lay>>
             /\ UNCHANGED <<rlcMode, vQ, endOfTBF, got>>
             /\ UNCHANGED <<reassembling, currDataBlock, buf, delivered>>
             /\ tbfState = "FREE" => tbfState' = "FREE"
           Emptied ==
             /\ UNCHANGED <<rlcMode, endOfTBF, delivered>>
             /\ ReleaseULTbf
<1>1. Stays => HeldOK'
  <2> SUFFICES ASSUME Stays PROVE HeldOK'
    OBVIOUS
  <2>1. Held' = Held /\ (Collecting' => Collecting)
    BY DEF Held, Collecting
  <2>2. EndsPdu(pUlBlocks[lastDataBlock])' <=> EndsPdu(pUlBlocks[lastDataBlock])
    BY DEF EndsPdu, IsLast, Layout
  <2> HIDE DEF Collecting
  <2> QED
    BY <2>1, <2>2 DEF HeldOK
<1>2. Emptied => HeldOK'
  <2> SUFFICES ASSUME Emptied PROVE HeldOK'
    OBVIOUS
  <2>1. Held' = {} /\ ~Collecting'
    BY DEF Held, Collecting, ReleaseULTbf
  <2> HIDE DEF Collecting
  <2> QED
    BY <2>1 DEF HeldOK
<1> HIDE DEF Stays, Emptied
<1>3. CASE Idle /\ queue # <<>> /\ ReceiveULDataBlock
  <2>1. CASE RejectULDataBlock
    BY <1>1, <1>3, <2>1 DEF Stays, RejectULDataBlock, ReceiveULDataBlock, msVars
  <2>2. CASE ~RejectULDataBlock
    BY <1>3, <2>2, AcceptHolds
  <2> QED
    BY <2>1, <2>2
<1>4. CASE DropDataBlock
  BY <1>1, <1>4 DEF Stays, DropDataBlock, blockVars, windowVars, pduVars, msVars
<1>5. CASE ReceiveOutcome
  <2>1. /\ UNCHANGED <<rlcMode, vR, vQ, vN, endOfTBF, got, firstDataBlock, lastDataBlock>>
        /\ UNCHANGED <<reassembling, currDataBlock, buf, delivered, lay>>
    BY <1>5 DEF ReceiveOutcome, pduVars, msVars
  <2>2. CASE ReceivePacketControlAck
    BY <1>2, <2>1, <2>2 DEF Emptied, ReceivePacketControlAck
  <2>3. CASE ReceivePacketControlNack \/ IgnoreOutcome
    <3>1. pUlBlocks' = pUlBlocks /\ (tbfState = "FREE" => tbfState' = "FREE")
      BY <2>3 DEF ReceivePacketControlNack, IgnoreOutcome
    <3> QED
      BY <1>1, <2>1, <3>1 DEF Stays
  <2> QED
    BY <1>5, <2>2, <2>3 DEF ReceiveOutcome
<1>6. ASSUME NEW t \in Timer, ProcessExpiry(t) PROVE HeldOK'
  <2>1. /\ UNCHANGED <<rlcMode, vQ, endOfTBF, got, firstDataBlock, lastDataBlock, lay>>
        /\ UNCHANGED <<reassembling, currDataBlock, buf, delivered>>
        /\ ReleaseULTbf \/ UNCHANGED <<tbfState, pUlBlocks>>
    BY <1>6 DEF ProcessExpiry, windowVars, pduVars, msVars
  <2> QED
    BY <1>1, <1>2, <2>1 DEF Stays, Emptied
<1>7. CASE Idle /\ EstablishULTbf
  <2>1. /\ Held' = {} /\ got' = {} /\ vQ' = 0 /\ firstDataBlock' = 0 /\ delivered' = <<>>
        /\ lastDataBlock' = LAST_BLOCK_UNKNOWN /\ ~reassembling'
    BY <1>7 DEF EstablishULTbf, Held, Idle
  <2>2. <<>> \in Seq(Seq(Nat \X Nat)) /\ 0 <= 0
    OBVIOUS
  <2> QED
    BY <2>1, <2>2 DEF HeldOK
<1>8. CASE HandleMessage
  BY <1>3, <1>4, <1>5, <1>6, <1>7, <1>8 DEF HandleMessage
<1>9. CASE ReassembleULPDU
  BY <1>9, ReassembleHolds
<1>10. CASE \/ IncrementN3101 \/ AbnormalRelease \/ MSRequest \/ MSSend \/ USFUnused
            \/ MSHearsAck \/ AckLost \/ MSLeaves \/ \E t \in Timer : TimerExpiry(t)
  <2>1. /\ UNCHANGED <<blockVars, windowVars, pduVars, lay>>
        /\ tbfState = "FREE" => tbfState' = "FREE"
    BY <1>10 DEF IncrementN3101, AbnormalRelease, MSRequest, MSSend, USFUnused, MSHearsAck,
       AckLost, MSLeaves, TimerExpiry, msVars
  <2> QED
    BY <1>1, <2>1 DEF Stays, blockVars, windowVars, pduVars
<1>11. CASE UNCHANGED vars
  BY <1>1, <1>11 DEF Stays, vars, blockVars, windowVars, pduVars, msVars
<1> QED
  BY <1>8, <1>9, <1>10, <1>11 DEF Next

\* In transfers shorter than the sequence space, whose PDUs each start in the block
\* the one before ends in or in the TBF's first block, no PDU that is sent to BSSGP
\* before the last block was seen has a hole: ReassembleULPDU finds every block.
THEOREM PdusWhole == ShortTbfs /\ EndsGoOn /\ Spec => []NoHoles
<1>1. Init /\ ShortTbfs /\ EndsGoOn => HoldInv
  <2> SUFFICES ASSUME Init, ShortTbfs, EndsGoOn PROVE HoldInv
    OBVIOUS
  <2>1. Held = {} /\ delivered = <<>> /\ tbfState = "FREE"
    BY DEF Init, Held
  <2>2. <<>> \in Seq(Seq(Nat \X Nat))
    OBVIOUS
  <2> QED
    BY <2>1, <2>2, ShortInit DEF HoldInv, HeldOK, Collecting
<1>2. HoldInv /\ [Next]_vars => HoldInv'
  <2> SUFFICES ASSUME HoldInv, [Next]_vars PROVE HoldInv'
    OBVIOUS
  <2>1. EndsGoOn'
    BY DEF HoldInv, EndsGoOn
  <2> QED
    BY <2>1, ShortStep, HoldStep DEF HoldInv
<1>3. HoldInv => NoHoles
  <2> SUFFICES ASSUME HoldInv, rlcMode = "ACK", ~endOfTBF,
                      NEW i \in DOMAIN delivered, NEW j \in DOMAIN delivered[i]
               PROVE  delivered[i][j] # Fill
    BY DEF NoHoles
  <2>1. delivered \in Seq(Seq(Nat \X Nat))
    BY DEF HoldInv, HeldOK
  <2>2. delivered[i] \in Seq(Nat \X Nat)
    BY <2>1
  <2>3. delivered[i][j] \in Nat \X Nat
    BY <2>2
  <2>4. PICK a \in Nat, b \in Nat : delivered[i][j] = <<a, b>>
    BY <2>3
  <2>5. Len(<<a, b>>) = 2 /\ Len(<<>>) = 0
    OBVIOUS
  <2> QED
    BY <2>4, <2>5 DEF Fill
<1> QED
  BY <1>1, <1>2, <1>3, PTL DEF Spec
------------------------------------------------------------------------------
(* The pool, when no MS asks for a TBF while it has one.                    *)

\* The outcome that releases the TBF, and outcomes that find one.
Release == [type |-> "outcome", tag |-> TRUE, ack |-> TRUE]
Known(m) == m.type = "outcome" /\ m.tag

\* One poll at most is under way or answered, since the next one takes the tag.
OneOK ==
    /\ \A i, j \in DOMAIN queue : Known(queue[i]) /\ Known(queue[j]) => i = j
    /\ \A i, j \in DOMAIN acks : acks[i].tag /\ acks[j].tag => i = j
    /\ ~(PollSent /\ PollEnded)

\* In unacknowledged mode blocks are sent in their order, and after the last one
\* nothing but that one.
UnackOK ==
    rlcMode = "UNACK" =>
        /\ \A i, j \in DOMAIN queue :
              i < j /\ queue[i].type = "data" /\ queue[j].type = "data" =>
                  queue[i].n <= queue[j].n
        /\ endOfTBF =>
              /\ vR = Len(lay)
              /\ \A i \in DOMAIN queue : queue[i].type = "data" => queue[i].n = Len(lay) - 1

\* Before a request is handled, the TBF that the MS had is released.
ReqOK ==
    \A i \in DOMAIN queue : queue[i].type = "request" =>
        tbfState = "FREE" \/ \E j \in DOMAIN queue : j < i /\ queue[j] = Release

EmptyOK == tbfState = "FREE" => Held = {}

\* The first element of a sequence is taken, or an element is added.
LEMMA TailIs ==
  ASSUME NEW S, NEW s \in Seq(S), s # <<>>
  PROVE  /\ DOMAIN s \subseteq Nat \ {0} /\ 1 \in DOMAIN s /\ s[1] = Head(s)
         /\ \A i \in DOMAIN Tail(s) : /\ i \in Nat \ {0} /\ i + 1 \in DOMAIN s
                                      /\ Tail(s)[i] = s[i + 1]
         /\ \A i \in DOMAIN s : i # 1 => /\ i - 1 \in DOMAIN Tail(s)
                                         /\ Tail(s)[i - 1] = s[i]
<1>1. /\ Tail(s) \in Seq(S) /\ Len(Tail(s)) = Len(s) - 1 /\ Len(s) \in Nat \ {0}
      /\ \A i \in 1 .. Len(Tail(s)) : Tail(s)[i] = s[i + 1]
      /\ DOMAIN Tail(s) = 1 .. Len(Tail(s)) /\ DOMAIN s = 1 .. Len(s)
      /\ Head(s) = s[1]
  OBVIOUS
<1>2. \A i \in DOMAIN s : i # 1 => i - 1 \in 1 .. Len(Tail(s)) /\ (i - 1) + 1 = i
  BY <1>1
<1> QED
  BY <1>1, <1>2

LEMMA AppendIs ==
  ASSUME NEW S, NEW s \in Seq(S), NEW x \in S
  PROVE  /\ DOMAIN Append(s, x) = DOMAIN s \cup {Len(s) + 1}
         /\ Append(s, x)[Len(s) + 1] = x
         /\ Len(s) \in Nat /\ Len(s) + 1 \notin DOMAIN s
         /\ \A i \in DOMAIN s : /\ Append(s, x)[i] = s[i] /\ i \in Nat /\ i < Len(s) + 1
                                /\ ~(Len(s) + 1 < i)
<1>1. Len(s) \in Nat /\ DOMAIN s = 1 .. Len(s)
  OBVIOUS
<1>2. /\ DOMAIN Append(s, x) = 1 .. Len(s) + 1 /\ Append(s, x)[Len(s) + 1] = x
      /\ \A i \in 1 .. Len(s) : Append(s, x)[i] = s[i]
  OBVIOUS
<1> QED
  BY <1>1, <1>2

\* Sequences of which at most one element has a property keep that when an element is
\* taken, and when one without the property is added.
LEMMA OneLess ==
  ASSUME RcvTypeOK, OneOK, queue # <<>>, acks' = acks, queue' = Others
  PROVE  OneOK'
<1>1. queue \in Seq(Message)
  BY DEF RcvTypeOK
<1>2. \A i \in DOMAIN queue' : i \in Nat \ {0} /\ i + 1 \in DOMAIN queue /\ queue'[i] = queue[i + 1]
  BY <1>1, TailIs DEF Others
<1>3. \A i, j \in DOMAIN queue' : i + 1 = j + 1 => i = j
  BY <1>2
<1>4. PollEnded' => PollEnded
  BY TakenWaits
<1> QED
  BY <1>2, <1>3, <1>4 DEF OneOK, PollSent

LEMMA OneMore ==
  ASSUME RcvTypeOK, OneOK, acks' = acks, NEW m \in Message, ~Known(m), queue' = Append(queue, m)
  PROVE  OneOK'
<1>1. queue \in Seq(Message)
  BY DEF RcvTypeOK
<1>2. /\ DOMAIN queue' = DOMAIN queue \cup {Len(queue) + 1} /\ queue'[Len(queue) + 1] = m
      /\ \A i \in DOMAIN queue : queue'[i] = queue[i]
  BY <1>1, AppendIs
<1>3. PollEnded' => PollEnded
  BY <1>2 DEF PollEnded, Known
<1> QED
  BY <1>2, <1>3 DEF OneOK, PollSent

\* SendULAckNack: a poll takes the tag from all before it.
LEMMA OneSend ==
  ASSUME RcvTypeOK, OneOK, queue # <<>>, NEW r, NEW q, NEW vn, NEW e \in BOOLEAN,
         r \in 0 .. RLC_MOD_VAL, SendULAckNack(r, q, vn, e, Others)
  PROVE  OneOK'
<1> DEFINE final == e /\ (rlcMode = "ACK" => r = q)
           rrb == {i \in BSN : Dist(i, r % RLC_MOD_VAL) \in 1 .. K /\ vn[i] = "RECEIVED"}
           before == IF final THEN UntaggedAcks(acks) ELSE acks
           msg(bit) == [final |-> bit, ssn |-> r, rrb |-> rrb, polled |-> final, tag |-> final]
<1>1. PICK bit \in BOOLEAN : acks' = Append(before, msg(bit))
  BY DEF SendULAckNack
<1>2. acks \in Seq(AckNack) /\ before \in Seq(AckNack)
  BY UntaggedType DEF RcvTypeOK
<1>3. msg(bit) \in AckNack /\ msg(bit).tag = final
  BY DEF AckNack
<1>4. queue' = (IF final THEN UntaggedQueue(Others) ELSE Others)
  BY DEF SendULAckNack
<1>5. final => \A i \in DOMAIN before : ~before[i].tag
  <2>1. \A a \in AckNack : [a EXCEPT !.tag = FALSE].tag = FALSE
    BY DEF AckNack
  <2>2. \A i \in DOMAIN acks : acks[i] \in AckNack
    BY <1>2
  <2> QED
    BY <2>1, <2>2 DEF UntaggedAcks
<1>6. ~final => before = acks
  OBVIOUS
<1>7. final \in BOOLEAN
  OBVIOUS
<1> HIDE DEF final, before, msg
<1>8. /\ DOMAIN acks' = DOMAIN before \cup {Len(before) + 1}
      /\ acks'[Len(before) + 1] = msg(bit)
      /\ \A i \in DOMAIN before : acks'[i] = before[i]
  BY <1>1, <1>2, <1>3, AppendIs
<1>9. CASE final
  <2>1. ~PollEnded'
    BY <1>4, <1>9, UntaggedWaits
  <2>2. \A i, j \in DOMAIN queue' : ~(Known(queue[i])' /\ Known(queue[j])')
    BY <2>1 DEF PollEnded, Known
  <2>3. \A i, j \in DOMAIN acks' : acks'[i].tag /\ acks'[j].tag => i = j
    BY <1>5, <1>8, <1>9
  <2> QED
    BY <2>1, <2>2, <2>3 DEF OneOK, Known
<1>10. CASE ~final
  <2>1. queue' = Others
    BY <1>4, <1>10
  <2>2. queue \in Seq(Message)
    BY DEF RcvTypeOK
  <2>3. \A i \in DOMAIN queue' : i \in Nat \ {0} /\ i + 1 \in DOMAIN queue /\ queue'[i] = queue[i + 1]
    BY <2>1, <2>2, TailIs DEF Others
  <2>4. \A i, j \in DOMAIN queue' : i + 1 = j + 1 => i = j
    BY <2>3
  <2>5. PollEnded' => PollEnded
    BY <2>1, TakenWaits
  <2>6. /\ DOMAIN acks' = DOMAIN acks \cup {Len(acks) + 1}
        /\ ~acks'[Len(acks) + 1].tag
        /\ \A i \in DOMAIN acks : acks'[i] = acks[i]
    BY <1>3, <1>6, <1>8, <1>10
  <2>7. PollSent' => PollSent
    BY <2>6 DEF PollSent
  <2> QED
    BY <2>3, <2>4, <2>5, <2>6, <2>7 DEF OneOK
<1> QED
  BY <1>9, <1>10

\* The MS or the DSP takes the first acknowledgement; its outcome has its tag.
LEMMA OneHeard ==
  ASSUME RcvTypeOK, OneOK, \A i \in DOMAIN acks : acks[i].tag => acks[i].polled,
         acks # <<>>, acks' = Tail(acks),
         \/ queue' = queue /\ ~Head(acks).polled
         \/ \E a \in BOOLEAN :
               queue' = Append(queue, [type |-> "outcome", tag |-> Head(acks).tag, ack |-> a])
  PROVE  OneOK'
<1>1. acks \in Seq(AckNack) /\ queue \in Seq(Message)
  BY DEF RcvTypeOK
<1>2. /\ 1 \in DOMAIN acks /\ acks[1] = Head(acks)
      /\ \A i \in DOMAIN acks' : /\ i \in Nat \ {0} /\ i + 1 \in DOMAIN acks
                                 /\ acks'[i] = acks[i + 1]
  BY <1>1, TailIs
<1>3. /\ \A i, j \in DOMAIN acks' : i + 1 = j + 1 => i = j
      /\ \A i \in DOMAIN acks' : i + 1 # 1
  BY <1>2
<1>4. \A i, j \in DOMAIN acks' : acks'[i].tag /\ acks'[j].tag => i = j
  BY <1>2, <1>3 DEF OneOK
<1>5. PollSent' => PollSent /\ ~acks[1].tag
  BY <1>2, <1>3 DEF PollSent, OneOK
<1>6. acks[1].tag => PollSent
  BY <1>2 DEF PollSent
<1>7. CASE queue' = queue /\ ~Head(acks).polled
  <2>1. PollEnded' <=> PollEnded
    BY <1>7 DEF PollEnded
  <2> QED
    BY <1>4, <1>5, <1>7, <2>1 DEF OneOK
<1>8. ASSUME NEW a \in BOOLEAN,
             queue' = Append(queue, [type |-> "outcome", tag |-> Head(acks).tag, ack |-> a])
      PROVE  OneOK'
  <2> DEFINE m == [type |-> "outcome", tag |-> acks[1].tag, ack |-> a]
  <2>1. acks[1].tag \in BOOLEAN
    <3>1. acks[1] \in AckNack
      BY <1>1, <1>2
    <3> QED
      BY <3>1 DEF AckNack
  <2>2. m \in Message /\ queue' = Append(queue, m) /\ m.type = "outcome" /\ m.tag = acks[1].tag
    BY <1>2, <1>8, <2>1, MessageIn
  <2> HIDE DEF m
  <2>3. CASE ~acks[1].tag
    <3>1. PollEnded' <=> PollEnded
      BY <2>2, <2>3, PostWaits
    <3>2. /\ DOMAIN queue' = DOMAIN queue \cup {Len(queue) + 1} /\ queue'[Len(queue) + 1] = m
          /\ \A i \in DOMAIN queue : queue'[i] = queue[i]
      BY <1>1, <2>2, AppendIs
    <3> QED
      BY <1>4, <1>5, <2>2, <2>3, <3>1, <3>2 DEF OneOK, Known
  <2>4. CASE acks[1].tag
    <3>1. ~PollEnded /\ ~PollSent'
      BY <1>5, <1>6, <2>4 DEF OneOK
    <3>2. /\ DOMAIN queue' = DOMAIN queue \cup {Len(queue) + 1} /\ queue'[Len(queue) + 1] = m
          /\ \A i \in DOMAIN queue : queue'[i] = queue[i]
      BY <1>1, <2>2, AppendIs
    <3>3. \A i, j \in DOMAIN queue' : Known(queue'[i]) /\ Known(queue'[j]) => i = j
      BY <3>1, <3>2 DEF PollEnded, Known
    <3> QED
      BY <1>4, <3>1, <3>3 DEF OneOK, Known
  <2> QED
    BY <2>1, <2>3, <2>4
<1> QED
  BY <1>7, <1>8

\* What an acknowledgement leaves of the queue and the polls, whatever is handled.
LEMMA OneStep ==
  ASSUME WatchInv, OneOK, [Next]_vars
  PROVE  OneOK'
<1> USE DEF WatchInv
<1>0. /\ RcvTypeOK /\ acks \in Seq(AckNack) /\ queue \in Seq(Message) /\ endOfTBF \in BOOLEAN
      /\ \A i \in DOMAIN acks : acks[i].tag => acks[i].polled
  BY DEF ShortOK, LinkOK, RcvTypeOK, PollOK
<1>1. ASSUME UNCHANGED <<acks, queue>> PROVE OneOK'
  BY <1>1 DEF OneOK, PollSent, PollEnded
<1>2. CASE queue # <<>> /\ ReceiveULDataBlock
  <2>1. CASE RejectULDataBlock
    BY <1>0, <1>2, <2>1, OneLess DEF RejectULDataBlock
  <2>2. CASE ~RejectULDataBlock
    <3>1. PICK r, vn, q : AcceptULDataBlock(Taken.n, r, q, vn)
      BY <1>2, <2>2, Accepted
    <3>2. r \in 0 .. RLC_MOD_VAL
      <4>1. vR' = r
        BY <3>1 DEF AcceptULDataBlock
      <4>2. vR' \in BSN \/ vR' = RLC_MOD_VAL
        BY StepOK DEF ShortOK, LinkOK, RcvTypeOK
      <4> QED
        BY <4>1, <4>2, WindowAssumption DEF BSN
    <3>3. \/ queue' = Others /\ acks' = acks
          \/ \E q2, e \in {q, r, endOfTBF, endOfTBF \/ IsLast(Taken.n)} :
                e \in BOOLEAN /\ SendULAckNack(r, q2, vn, e, Others)
      <4>1. (endOfTBF \/ IsLast(Taken.n)) \in BOOLEAN
        BY <1>0 DEF IsLast
      <4> QED
        BY <3>1, <4>1 DEF AcceptULDataBlock
    <3> QED
      BY <1>0, <1>2, <3>2, <3>3, OneLess, OneSend
  <2> QED
    BY <2>1, <2>2
<1>3. CASE queue # <<>> /\ DropDataBlock
  BY <1>0, <1>3, OneLess DEF DropDataBlock
<1>4. CASE queue # <<>> /\ ReceiveOutcome
  <2>1. CASE SendULAckNack(vR, vQ, vN, endOfTBF, Others)
    <3>1. vR \in 0 .. RLC_MOD_VAL
      BY <1>0, WindowAssumption DEF RcvTypeOK, BSN
    <3> QED
      BY <1>0, <1>4, <2>1, <3>1, OneSend
  <2>2. CASE queue' = Others /\ acks' = acks
    BY <1>0, <1>4, <2>2, OneLess
  <2> QED
    BY <1>4, <2>1, <2>2 DEF ReceiveOutcome, ReceivePacketControlAck, ReceivePacketControlNack,
       IgnoreOutcome
<1>5. ASSUME queue # <<>>, NEW t \in Timer, ProcessExpiry(t) PROVE OneOK'
  BY <1>0, <1>5, OneLess DEF ProcessExpiry
<1>6. CASE queue # <<>> /\ EstablishULTbf
  <2>1. queue' = UntaggedQueue(Others) /\ acks' = <<>>
    BY <1>6 DEF EstablishULTbf
  <2>2. ~PollEnded'
    BY <1>0, <1>6, <2>1, UntaggedWaits
  <2>3. \A i, j \in DOMAIN queue' : ~(Known(queue'[i]) /\ Known(queue'[j]))
    BY <2>2 DEF PollEnded, Known
  <2>4. DOMAIN acks' = {}
    BY <2>1
  <2> QED
    BY <2>2, <2>3, <2>4 DEF OneOK, Known
<1>7. CASE HandleMessage
  BY <1>2, <1>3, <1>4, <1>5, <1>6, <1>7 DEF HandleMessage
<1>8. CASE MSHearsAck
  <2>1. \/ queue' = queue /\ ~Head(acks).polled
        \/ \E a \in BOOLEAN :
              queue' = Append(queue, [type |-> "outcome", tag |-> Head(acks).tag, ack |-> a])
    BY <1>8 DEF MSHearsAck
  <2> QED
    BY <1>0, <1>8, <2>1, OneHeard DEF MSHearsAck
<1>9. CASE AckLost
  <2>1. \/ queue' = queue /\ ~Head(acks).polled
        \/ queue' = Append(queue, [type |-> "outcome", tag |-> Head(acks).tag, ack |-> FALSE])
    BY <1>9 DEF AckLost
  <2> QED
    BY <1>0, <1>9, <2>1, OneHeard DEF AckLost
<1>10. CASE MSSend
  <2>1. PICK n \in Sendable : \/ queue' = Append(queue, [type |-> "data", n |-> n])
                              \/ queue' = queue
    BY <1>10 DEF MSSend
  <2>2. [type |-> "data", n |-> n] \in Message /\ acks' = acks
    BY <1>0, <1>10, SendableType, MessageIn DEF MSSend
  <2> QED
    BY <1>0, <1>1, <2>1, <2>2, OneMore DEF Known
<1>11. CASE MSRequest
  <2>1. [type |-> "request"] \in Message /\ acks' = acks
        /\ queue' = Append(queue, [type |-> "request"])
    BY <1>11, MessageIn DEF MSRequest
  <2> QED
    BY <1>0, <2>1, OneMore DEF Known
<1>12. ASSUME NEW t \in Timer, TimerExpiry(t) PROVE OneOK'
  <2>1. [type |-> "expiry", timer |-> t] \in Message /\ acks' = acks
        /\ queue' = Append(queue, [type |-> "expiry", timer |-> t])
    BY <1>12, MessageIn DEF TimerExpiry
  <2> QED
    BY <1>0, <2>1, OneMore DEF Known
<1>13. CASE ReassembleULPDU \/ IncrementN3101 \/ AbnormalRelease \/ USFUnused \/ MSLeaves
  BY <1>1, <1>13 DEF ReassembleULPDU, IncrementN3101, AbnormalRelease, USFUnused, MSLeaves
<1>14. CASE UNCHANGED vars
  BY <1>1, <1>14 DEF vars
<1> QED
  BY <1>7, <1>8, <1>9, <1>10, <1>11, <1>12, <1>13, <1>14 DEF Next

\* In unacknowledged mode nothing is accepted after the last block.
LEMMA NothingMore ==
  ASSUME WatchInv, UnackOK, Open, queue # <<>>, ReceiveULDataBlock
  PROVE  RejectULDataBlock
<1> USE DEF WatchInv
<1> SUFFICES ASSUME ~RejectULDataBlock PROVE FALSE
  OBVIOUS
<1> DEFINE n == Taken.n
<1>1. /\ n \in BSN /\ Bsn(n) = n /\ tbfState # "FREE" /\ Taken.type = "data"
  BY Accepted DEF ReceiveULDataBlock
<1>2. endOfTBF /\ (rlcMode = "ACK" => vR = vQ)
  BY <1>1 DEF PollOK
<1>3. PICK r, vn, q : rlcMode = "ACK" => AcceptedAck(n, r, vn, q)
  BY Accepted
<1>4. CASE rlcMode = "ACK"
  <2>1. vQ <= n /\ ~(vR <= n)
    BY <1>2, <1>3, <1>4 DEF AcceptedAck
  <2> QED
    BY <1>2, <1>4, <2>1
<1>5. CASE rlcMode # "ACK"
  <2>1. rlcMode = "UNACK"
    BY <1>5, ULAssumption DEF ShortOK, LinkOK, RcvTypeOK
  <2>2. vR = Len(lay) /\ n = Len(lay) - 1
    BY <1>1, <1>2, <2>1, RestOthers DEF UnackOK, ShortOK, LinkOK
  <2>3. vR = n + 1
    BY <2>2, GotFacts
  <2>4. vR # Bsn(n) + 1
    BY <1>5 DEF ReceiveULDataBlock
  <2> QED
    BY <1>1, <2>3, <2>4
<1> QED
  BY <1>4, <1>5

\* Data blocks in the queue are those of before, perhaps without the first message, or
\* what the MS has sent; none is behind a request.
BlocksFrom(d) ==
    \A i \in DOMAIN queue' : queue'[i].type = "data" =>
        /\ i \in Nat \ {0} /\ i + d \in DOMAIN queue /\ queue[i + d].type = "data"
        /\ queue[i + d].n = queue'[i].n

LEMMA DataMoves ==
  ASSUME LinkOK, QueueOK, [Next]_vars
  PROVE  \/ BlocksFrom(0)
         \/ queue # <<>> /\ BlocksFrom(1)
         \/ MSSend /\ \E n \in Sendable : queue' = Append(queue, [type |-> "data", n |-> n])
<1> USE DEF LinkOK
<1>0. queue \in Seq(Message) /\ queue' \in Seq(Message)
  BY StepOK DEF RcvTypeOK
<1>1. ASSUME queue' = queue PROVE BlocksFrom(0)
  <2>1. \A i \in DOMAIN queue : i \in Nat \ {0} /\ i + 0 = i
    BY <1>0
  <2> QED
    BY <1>1, <2>1 DEF BlocksFrom
<1>2. CASE QueueRest
  <2>1. \A i \in DOMAIN queue' : i \in Nat \ {0}
    BY <1>0
  <2> QED
    BY <1>2, <2>1 DEF QueueRest, Rest, BlocksFrom
<1>3. CASE queue # <<>> /\ EstablishULTbf
  <2>1. queue' = UntaggedQueue(Others) /\ Taken.type = "request"
    BY <1>3 DEF EstablishULTbf
  <2>2. /\ Rest(queue') /\ 1 \in DOMAIN queue /\ queue[1] = Taken
        /\ \A i \in DOMAIN queue' : i \in Nat \ {0}
    BY <1>0, <1>3, <2>1, RestOthers
  <2>3. \A i \in DOMAIN queue' : i + 1 \in DOMAIN queue /\ 1 < i + 1 /\ queue'[i].type = queue[i + 1].type
    BY <2>2 DEF Rest
  <2>4. \A i \in DOMAIN queue' : queue'[i].type # "data"
    BY <2>1, <2>2, <2>3 DEF QueueOK
  <2> QED
    BY <2>4 DEF BlocksFrom
<1>4. ASSUME NEW m \in Message, queue' = Append(queue, m), m.type # "data" PROVE BlocksFrom(0)
  <2>1. /\ DOMAIN queue' = DOMAIN queue \cup {Len(queue) + 1} /\ queue'[Len(queue) + 1] = m
        /\ \A i \in DOMAIN queue : queue'[i] = queue[i]
    BY <1>0, <1>4, AppendIs
  <2>2. \A i \in DOMAIN queue : i \in Nat \ {0} /\ i + 0 = i
    BY <1>0
  <2> QED
    BY <1>4, <2>1, <2>2 DEF BlocksFrom
<1>5. CASE MSSend
  <2>1. PICK n \in Sendable : \/ queue' = Append(queue, [type |-> "data", n |-> n])
                              \/ queue' = queue
    BY <1>5 DEF MSSend
  <2> QED
    BY <1>1, <1>5, <2>1
<1>6. CASE MSRequest
  BY <1>4, <1>6, MessageIn DEF MSRequest
<1>7. CASE MSHearsAck
  <2>1. Head(acks).tag \in BOOLEAN
    <3>1. Head(acks) \in AckNack
      BY <1>7, SeqFacts DEF MSHearsAck
    <3> QED
      BY <3>1 DEF AckNack
  <2>2. CASE \E answered \in BOOLEAN :
               queue' = Append(queue, [type |-> "outcome", tag |-> Head(acks).tag, ack |-> answered])
    BY <1>4, <2>1, <2>2, MessageIn
  <2> QED
    BY <1>1, <1>7, <2>2 DEF MSHearsAck
<1>8. CASE QueueStays \/ MSLeaves \/ QueuePost
  BY <1>1, <1>4, <1>8 DEF QueueStays, MSLeaves, QueuePost
<1> QED
  BY <1>2, <1>3, <1>5, <1>6, <1>7, <1>8, QueueMoves DEF QueueRest

\* Unacknowledged mode: the order of the blocks in the queue.
LEMMA UnackStep ==
  ASSUME WatchInv, UnackOK, [Next]_vars
  PROVE  UnackOK'
<1> USE DEF WatchInv
<1>0. /\ LinkOK /\ ShortOK' /\ queue \in Seq(Message) /\ QueueOK /\ MsOK /\ ShortTbfs /\ RcvTypeOK
      /\ Len(lay) \in Nat /\ msVS \in Nat /\ msVS <= Len(lay) /\ Len(lay) > 0
  BY ShortStep, GotFacts DEF ShortOK, LinkOK, RcvTypeOK
<1>1. \A i \in DOMAIN queue : queue[i].type = "data" => queue[i].n \in Nat /\ queue[i].n < msVS
  <2>1. ASSUME NEW x \in Message, x.type = "data" PROVE x.n \in Nat
    BY <2>1 DEF Message, DataMessage, OutcomeMessage, ExpiryMessage, RequestMessage
  <2>2. \A j \in DOMAIN queue : queue[j] \in Message
    BY <1>0
  <2> QED
    BY <1>0, <2>1, <2>2 DEF QueueOK
<1>2. CASE queue # <<>> /\ EstablishULTbf
  <2>1. queue' = UntaggedQueue(Others) /\ Taken.type = "request" /\ endOfTBF' = FALSE
    BY <1>2 DEF EstablishULTbf
  <2>2. /\ Rest(queue') /\ 1 \in DOMAIN queue /\ queue[1] = Taken
        /\ \A i \in DOMAIN queue' : i \in Nat \ {0}
    <3>1. queue' \in Seq(Message)
      BY <1>0 DEF ShortOK, LinkOK, RcvTypeOK
    <3> QED
      BY <1>0, <1>2, <2>1, <3>1, RestOthers
  <2>3. \A i \in DOMAIN queue' : i + 1 \in DOMAIN queue /\ 1 < i + 1 /\ queue'[i].type = queue[i + 1].type
    BY <2>2 DEF Rest
  <2>4. \A i \in DOMAIN queue' : queue'[i].type # "data"
    BY <1>0, <2>1, <2>2, <2>3 DEF QueueOK
  <2> QED
    BY <2>1, <2>4 DEF UnackOK
<1>3. ASSUME ~(queue # <<>> /\ EstablishULTbf), rlcMode = "UNACK" PROVE UnackOK'
  <2>1. UNCHANGED <<lay, rlcMode>>
        /\ \/ UNCHANGED <<got, vR, endOfTBF>>
           \/ queue # <<>> /\ Idle /\ ReceiveULDataBlock /\ ~RejectULDataBlock
    BY <1>0, <1>3, WindowMoves, Accepted
  <2>2. \A i, j \in DOMAIN queue :
           i < j /\ queue[i].type = "data" /\ queue[j].type = "data" => queue[i].n <= queue[j].n
    BY <1>3 DEF UnackOK
  <2>3. ASSUME endOfTBF
        PROVE  /\ UNCHANGED <<vR, endOfTBF>> /\ msVS = Len(lay) /\ vR = Len(lay)
               /\ \A i \in DOMAIN queue : queue[i].type = "data" => queue[i].n = Len(lay) - 1
    <3>1. /\ vR = Len(lay)
          /\ \A i \in DOMAIN queue : queue[i].type = "data" => queue[i].n = Len(lay) - 1
      BY <1>3, <2>3 DEF UnackOK
    <3>2. msVS = Len(lay)
      <4>1. Len(lay) - 1 \in got
        BY <2>3 DEF ShortOK, RcvOK
      <4>2. Len(lay) - 1 < msVS
        BY <4>1, GotFacts
      <4> QED
        BY <1>0, <4>2
    <3>3. ~(queue # <<>> /\ ReceiveULDataBlock /\ ~RejectULDataBlock)
      <4> SUFFICES ASSUME queue # <<>>, ReceiveULDataBlock, ~RejectULDataBlock PROVE FALSE
        OBVIOUS
      <4>1. Taken.n \in BSN /\ Bsn(Taken.n) = Taken.n /\ Taken.type = "data"
        BY Accepted DEF ReceiveULDataBlock
      <4>2. Taken.n = Len(lay) - 1
        BY <1>0, <3>1, <4>1, RestOthers
      <4>3. vR # Bsn(Taken.n) + 1
        BY <1>3 DEF ReceiveULDataBlock
      <4> QED
        BY <1>0, <3>1, <4>1, <4>2, <4>3
    <3> QED
      BY <2>1, <3>1, <3>2, <3>3
  <2>4. ASSUME endOfTBF', ~endOfTBF
        PROVE  /\ vR' = Len(lay) /\ ReceiveULDataBlock
               /\ \A i \in DOMAIN queue : queue[i].type = "data" => queue[i].n = Len(lay) - 1
    <3>1. queue # <<>> /\ ReceiveULDataBlock /\ ~RejectULDataBlock
      BY <2>1, <2>4
    <3>2. Taken.n \in BSN /\ Bsn(Taken.n) = Taken.n /\ Taken.type = "data"
      BY <3>1, Accepted DEF ReceiveULDataBlock
    <3>3. PICK vn, q : AcceptULDataBlock(Taken.n, Bsn(Taken.n) + 1, q, vn)
      BY <1>3, <3>1 DEF ReceiveULDataBlock
    <3>4. vR' = Taken.n + 1 /\ IsLast(Taken.n)
      BY <2>4, <3>2, <3>3 DEF AcceptULDataBlock
    <3>5. Taken.n = Len(lay) - 1 /\ vR' = Len(lay)
      BY <1>0, <3>4 DEF IsLast
    <3>6. 1 \in DOMAIN queue /\ queue[1] = Taken /\ \A i \in DOMAIN queue : i = 1 \/ 1 < i
      <4>1. \A i \in DOMAIN queue : i \in Nat \ {0}
        BY <1>0
      <4>2. \A i \in Nat \ {0} : i = 1 \/ 1 < i
        OBVIOUS
      <4> QED
        BY <1>0, <3>1, <4>1, <4>2, RestOthers
    <3>7. ASSUME NEW i \in DOMAIN queue, queue[i].type = "data"
          PROVE  queue[i].n = Len(lay) - 1
      <4>1. Len(lay) - 1 <= queue[i].n
        BY <1>0, <2>2, <3>2, <3>5, <3>6, <3>7
      <4>2. queue[i].n \in Nat /\ queue[i].n < msVS
        BY <1>1, <3>7
      <4> QED
        BY <1>0, <4>1, <4>2
    <3> QED
      BY <3>1, <3>5, <3>7
  <2>5. ASSUME endOfTBF'
        PROVE  /\ vR' = Len(lay)
               /\ \A i \in DOMAIN queue : queue[i].type = "data" => queue[i].n = Len(lay) - 1
    BY <2>3, <2>4, <2>5
  <2>6. ASSUME NEW d \in {0, 1}, BlocksFrom(d) PROVE UnackOK'
    <3>1. \A i, j \in DOMAIN queue' :
             i < j /\ queue'[i].type = "data" /\ queue'[j].type = "data" => i + d < j + d
      BY <2>6 DEF BlocksFrom
    <3> QED
      BY <2>1, <2>2, <2>5, <2>6, <3>1 DEF UnackOK, BlocksFrom
  <2>7. ASSUME MSSend, NEW n \in Sendable, queue' = Append(queue, [type |-> "data", n |-> n])
        PROVE  UnackOK'
    <3>1. n = (IF msVS < Len(lay) THEN msVS ELSE msVS - 1)
      BY <1>3 DEF Sendable
    <3>2. UNCHANGED <<endOfTBF, vR>>
      BY <2>7 DEF MSSend, windowVars
    <3>3. n \in Nat /\ (endOfTBF => n = Len(lay) - 1)
      BY <1>0, <2>3, <3>1
    <3>4. \A i \in DOMAIN queue : queue[i].type = "data" => queue[i].n <= n
      BY <1>0, <1>1, <3>1
    <3>5. /\ DOMAIN queue' = DOMAIN queue \cup {Len(queue) + 1}
          /\ queue'[Len(queue) + 1] = [type |-> "data", n |-> n]
          /\ \A i \in DOMAIN queue : queue'[i] = queue[i] /\ ~(Len(queue) + 1 < i)
          /\ ~(Len(queue) + 1 < Len(queue) + 1)
      <4>1. [type |-> "data", n |-> n] \in Message
        BY <3>3, MessageIn
      <4>2. Len(queue) \in Nat
        BY <1>0
      <4> QED
        BY <1>0, <2>7, <4>1, <4>2, AppendIs
    <3>6. \A i, j \in DOMAIN queue' :
             i < j /\ queue'[i].type = "data" /\ queue'[j].type = "data" => queue'[i].n <= queue'[j].n
      BY <2>2, <3>4, <3>5
    <3>7. endOfTBF' => /\ vR' = Len(lay)
                       /\ \A i \in DOMAIN queue' : queue'[i].type = "data" => queue'[i].n = Len(lay) - 1
      BY <2>5, <3>2, <3>3, <3>5
    <3> QED
      BY <2>1, <3>6, <3>7 DEF UnackOK
  <2> QED
    BY <1>0, <2>6, <2>7, DataMoves
<1>4. CASE ~(queue # <<>> /\ EstablishULTbf) /\ rlcMode # "UNACK"
  <2>1. rlcMode' = rlcMode
    BY <1>0, <1>4, WindowMoves, Accepted
  <2> QED
    BY <1>4, <2>1 DEF UnackOK
<1> QED
  BY <1>2, <1>3, <1>4

\* A request is not overtaken: what could end the poll that releases the TBF before the
\* request is handled is not accepted, or ends it with the release.
LEMMA ReqStep ==
  ASSUME WatchInv, OneOK, UnackOK, ReqOK, ~StaleRequest, [Next]_vars
  PROVE  ReqOK'
<1> USE DEF WatchInv
<1>0. /\ LinkOK /\ RcvTypeOK /\ queue \in Seq(Message) /\ QueueOK
      /\ \A i \in DOMAIN queue : i \in Nat \ {0}
  BY DEF ShortOK, LinkOK, RcvTypeOK
<1> DEFINE Stays == tbfState = "FREE" => tbfState' = "FREE"
<1>1. ASSUME Stays, queue' = queue PROVE ReqOK'
  BY <1>1 DEF ReqOK
<1>2. ASSUME Stays, NEW m \in Message, queue' = Append(queue, m),
             m.type = "request" =>
                tbfState = "FREE" \/ \E j \in DOMAIN queue : queue[j] = Release
      PROVE  ReqOK'
  <2>1. /\ DOMAIN queue' = DOMAIN queue \cup {Len(queue) + 1} /\ queue'[Len(queue) + 1] = m
        /\ \A i \in DOMAIN queue : queue'[i] = queue[i] /\ i < Len(queue) + 1
    BY <1>0, <1>2, AppendIs
  <2>2. ASSUME NEW i \in DOMAIN queue', queue'[i].type = "request", tbfState # "FREE"
        PROVE  \E j \in DOMAIN queue : j < i /\ queue[j] = Release
    <3>1. CASE i \in DOMAIN queue
      BY <2>1, <2>2, <3>1 DEF ReqOK
    <3>2. CASE i = Len(queue) + 1
      BY <1>2, <2>1, <2>2, <3>2
    <3> QED
      BY <2>1, <3>1, <3>2
  <2> QED
    BY <1>2, <2>1, <2>2 DEF ReqOK
<1>3. ASSUME Stays, queue # <<>>, queue' = Others, Taken # Release \/ tbfState = "FREE"
      PROVE  ReqOK'
  <2>1. /\ 1 \in DOMAIN queue /\ queue[1] = Taken
        /\ \A i \in DOMAIN queue' : /\ i \in Nat \ {0} /\ i + 1 \in DOMAIN queue
                                    /\ queue'[i] = queue[i + 1]
        /\ \A i \in DOMAIN queue : i # 1 => i - 1 \in DOMAIN queue' /\ queue'[i - 1] = queue[i]
    BY <1>0, <1>3, TailIs DEF Others, Taken
  <2>2. ASSUME NEW i \in DOMAIN queue', queue'[i].type = "request", tbfState # "FREE"
        PROVE  \E j \in DOMAIN queue' : j < i /\ queue'[j] = Release
    <3>1. PICK j \in DOMAIN queue : j < i + 1 /\ queue[j] = Release
      BY <2>1, <2>2 DEF ReqOK
    <3>2. j # 1
      BY <1>3, <2>1, <2>2, <3>1
    <3>3. j - 1 \in DOMAIN queue' /\ queue'[j - 1] = Release
      BY <2>1, <3>1, <3>2
    <3>4. j \in Nat /\ i \in Nat
      BY <1>0, <2>1, <3>1
    <3>5. j - 1 < i
      BY <3>1, <3>4
    <3> QED
      BY <3>3, <3>5
  <2> QED
    BY <1>3, <2>2 DEF ReqOK
<1>4. ASSUME queue # <<>>, QueueRest, \A i \in DOMAIN queue : queue[i].type # "request"
      PROVE  ReqOK'
  BY <1>4 DEF QueueRest, Rest, ReqOK
<1>5. CASE tbfState' = "FREE"
  BY <1>5 DEF ReqOK
<1>6. CASE Idle /\ queue # <<>> /\ ReceiveULDataBlock
  <2>1. Taken.type = "data" /\ tbfState # "FREE" /\ Taken # Release
    BY <1>6 DEF ReceiveULDataBlock, Release
  <2>2. CASE RejectULDataBlock
    BY <1>3, <1>6, <2>1, <2>2 DEF RejectULDataBlock
  <2>3. CASE ~RejectULDataBlock
    <3>1. ~Open
      BY <1>6, <2>3, NothingMore
    <3>2. \A j \in DOMAIN queue : queue[j] # Release
      BY <3>1 DEF Open, PollEnded, Release
    <3>3. \A i \in DOMAIN queue : queue[i].type # "request"
      BY <2>1, <3>2 DEF ReqOK
    <3>4. QueueRest
      <4>1. HandleMessage
        BY <1>6 DEF HandleMessage
      <4>2. ~EstablishULTbf
        BY <2>1 DEF EstablishULTbf
      <4> QED
        BY <1>0, <4>1, <4>2, HandlerMoves
    <3> QED
      BY <1>4, <1>6, <3>3, <3>4
  <2> QED
    BY <2>2, <2>3
<1>7. CASE queue # <<>> /\ DropDataBlock
  <2>1. Taken # Release /\ Stays /\ queue' = Others
    BY <1>7 DEF DropDataBlock, Release
  <2> QED
    BY <1>3, <1>7, <2>1
<1>8. CASE Idle /\ queue # <<>> /\ ReceiveOutcome
  <2>1. CASE ReceivePacketControlAck
    BY <1>5, <2>1 DEF ReceivePacketControlAck, ReleaseULTbf
  <2>2. CASE ReceivePacketControlNack
    <3>1. /\ tbfState # "FREE" /\ Known(Taken) /\ ~Taken.ack
          /\ 1 \in DOMAIN queue /\ queue[1] = Taken
      BY <1>0, <1>8, <2>2, TailIs DEF ReceivePacketControlNack, ReceiveOutcome, Known, Taken
    <3>2. Known(Release) /\ Release.ack
      BY DEF Known, Release
    <3>3. \A j \in DOMAIN queue : queue[j] # Release
      BY <3>1, <3>2 DEF OneOK
    <3>4. \A i \in DOMAIN queue : queue[i].type # "request"
      BY <3>1, <3>3 DEF ReqOK
    <3>5. QueueRest
      <4>1. HandleMessage
        BY <1>8 DEF HandleMessage
      <4>2. ~EstablishULTbf
        BY <3>1 DEF EstablishULTbf, Known
      <4> QED
        BY <1>0, <4>1, <4>2, HandlerMoves
    <3> QED
      BY <1>4, <1>8, <3>4, <3>5
  <2>3. CASE IgnoreOutcome
    <3>1. queue' = Others /\ Stays /\ (Taken # Release \/ tbfState = "FREE")
      BY <2>3 DEF IgnoreOutcome, Release
    <3> QED
      BY <1>3, <1>8, <3>1
  <2> QED
    BY <1>8, <2>1, <2>2, <2>3 DEF ReceiveOutcome
<1>9. ASSUME NEW t \in Timer, ProcessExpiry(t) PROVE ReqOK'
  <2>1. tbfState' = "FREE"
    BY <1>9 DEF ProcessExpiry, ReleaseULTbf
  <2> QED
    BY <1>5, <2>1
<1>10. CASE Idle /\ queue # <<>> /\ EstablishULTbf
  <2>1. queue' = UntaggedQueue(Others) /\ Taken.type = "request"
    BY <1>10 DEF EstablishULTbf
  <2>2. Rest(queue') /\ 1 \in DOMAIN queue /\ queue[1] = Taken
    BY <1>0, <1>10, <2>1, RestOthers
  <2>3. DOMAIN queue' \subseteq Nat \ {0}
    <3>1. queue' \in Seq(Message)
      BY StepOK DEF LinkOK, RcvTypeOK, ShortOK
    <3> QED
      BY <3>1
  <2>4. \A i \in DOMAIN queue' : i + 1 \in DOMAIN queue /\ 1 < i + 1 /\ queue'[i].type = queue[i + 1].type
    BY <2>2, <2>3 DEF Rest
  <2>5. \A i \in DOMAIN queue' : queue'[i].type # "request"
    BY <1>0, <2>1, <2>2, <2>4 DEF QueueOK
  <2> QED
    BY <2>5 DEF ReqOK
<1>11. CASE HandleMessage
  BY <1>6, <1>7, <1>8, <1>9, <1>10, <1>11 DEF HandleMessage
<1>12. CASE MSRequest
  <2>1. [type |-> "request"] \in Message /\ queue' = Append(queue, [type |-> "request"])
        /\ UNCHANGED tbfState
        /\ (tbfState = "FREE" \/ \E j \in DOMAIN queue : queue[j] = Release)
    BY <1>12, MessageIn DEF MSRequest, Releasing, Release
  <2> QED
    BY <1>2, <2>1
<1>13. CASE MSHearsAck \/ AckLost
  <2>1. Head(acks) \in AckNack /\ UNCHANGED tbfState
    BY <1>0, <1>13, SeqFacts DEF MSHearsAck, AckLost
  <2>2. \/ queue' = queue
        \/ \E a \in BOOLEAN :
              queue' = Append(queue, [type |-> "outcome", tag |-> Head(acks).tag, ack |-> a])
    BY <1>13 DEF MSHearsAck, AckLost
  <2>3. Head(acks).tag \in BOOLEAN
    BY <2>1 DEF AckNack
  <2>4. \A a \in BOOLEAN :
           /\ [type |-> "outcome", tag |-> Head(acks).tag, ack |-> a] \in Message
           /\ [type |-> "outcome", tag |-> Head(acks).tag, ack |-> a].type # "request"
    BY <2>3, MessageIn
  <2> QED
    BY <1>1, <1>2, <2>1, <2>2, <2>4
<1>14. CASE MSSend
  <2>1. PICK n \in Sendable : \/ queue' = Append(queue, [type |-> "data", n |-> n])
                              \/ queue' = queue
    BY <1>14 DEF MSSend
  <2>2. [type |-> "data", n |-> n] \in Message /\ UNCHANGED tbfState
    BY <1>0, <1>14, SendableType, MessageIn DEF MSSend
  <2> QED
    BY <1>1, <1>2, <2>1, <2>2
<1>15. ASSUME NEW t \in Timer, TimerExpiry(t) PROVE ReqOK'
  <2>1. [type |-> "expiry", timer |-> t] \in Message /\ UNCHANGED tbfState
        /\ queue' = Append(queue, [type |-> "expiry", timer |-> t])
    BY <1>15, MessageIn DEF TimerExpiry
  <2> QED
    BY <1>2, <2>1
<1>16. CASE ReassembleULPDU \/ IncrementN3101 \/ AbnormalRelease \/ USFUnused \/ MSLeaves
            \/ UNCHANGED vars
  <2>1. Stays /\ queue' = queue
    BY <1>16 DEF ReassembleULPDU, IncrementN3101, AbnormalRelease, USFUnused, MSLeaves, vars
  <2> QED
    BY <1>1, <2>1
<1> QED
  BY <1>11, <1>12, <1>13, <1>14, <1>15, <1>16 DEF Next

\* A TBF that is free holds no block.
LEMMA EmptyStep ==
  ASSUME WatchInv, EmptyOK, [Next]_vars
  PROVE  EmptyOK'
<1> USE DEF WatchInv
<1>0. LinkOK /\ RcvTypeOK
  BY DEF ShortOK, LinkOK
<1>1. ASSUME tbfState' = "FREE" => tbfState = "FREE", pUlBlocks' = pUlBlocks PROVE EmptyOK'
  BY <1>1 DEF EmptyOK, Held
<1>2. ASSUME \A i \in BSN : pUlBlocks'[i] = Null PROVE EmptyOK'
  BY <1>2 DEF EmptyOK, Held
<1>3. CASE queue # <<>> /\ ReceiveULDataBlock
  <2>1. tbfState # "FREE"
    BY <1>3 DEF ReceiveULDataBlock
  <2>2. CASE RejectULDataBlock
    BY <1>1, <2>2 DEF RejectULDataBlock
  <2>3. ASSUME NEW r, NEW q, NEW vn, AcceptULDataBlock(Taken.n, r, q, vn) PROVE tbfState' # "FREE"
    BY <2>1, <2>3 DEF AcceptULDataBlock, SendULAckNack
  <2> QED
    BY <1>3, <2>2, <2>3, Accepted DEF EmptyOK
<1>4. CASE ReceiveOutcome
  <2>1. CASE ReceivePacketControlNack
    BY <1>1, <2>1 DEF ReceivePacketControlNack, SendULAckNack
  <2>2. CASE ReceivePacketControlAck
    BY <1>2, <2>2 DEF ReceivePacketControlAck, ReleaseULTbf
  <2>3. CASE IgnoreOutcome
    BY <1>1, <2>3 DEF IgnoreOutcome
  <2> QED
    BY <1>4, <2>1, <2>2, <2>3 DEF ReceiveOutcome
<1>5. ASSUME NEW t \in Timer, ProcessExpiry(t) PROVE EmptyOK'
  BY <1>1, <1>2, <1>5 DEF ProcessExpiry, ReleaseULTbf
<1>6. CASE HandleMessage
  BY <1>1, <1>2, <1>3, <1>4, <1>5, <1>6 DEF HandleMessage, DropDataBlock, blockVars, EstablishULTbf
<1>7. CASE ReassembleULPDU
  BY <1>0, <1>7, ReassembleLeaves DEF EmptyOK
<1>8. CASE \/ IncrementN3101 \/ AbnormalRelease \/ MSRequest \/ MSSend \/ USFUnused
           \/ MSHearsAck \/ AckLost \/ MSLeaves \/ \E t \in Timer : TimerExpiry(t)
  BY <1>1, <1>8 DEF IncrementN3101, AbnormalRelease, MSRequest, MSSend, USFUnused, MSHearsAck,
     AckLost, MSLeaves, TimerExpiry, blockVars
<1>9. CASE UNCHANGED vars
  BY <1>1, <1>9 DEF vars, blockVars
<1> QED
  BY <1>6, <1>7, <1>8, <1>9 DEF Next

PoolInv == WatchInv /\ ~StaleRequest /\ OneOK /\ UnackOK /\ ReqOK /\ EmptyOK /\ PoolConserved

\* In transfers shorter than the sequence space, of mobiles that ask for a TBF only when
\* the one they had is released or their answer that releases it is on its way, no block
\* of the pool is lost and none is returned twice.
THEOREM PoolKept == ShortTbfs /\ ~StaleRequest /\ Spec => []PoolConserved
<1>1. Init /\ ShortTbfs /\ ~StaleRequest => PoolInv
  <2> SUFFICES ASSUME Init, ShortTbfs, ~StaleRequest PROVE PoolInv
    OBVIOUS
  <2>1. /\ tbfState = "FREE" /\ acks = <<>> /\ queue = <<>> /\ endOfTBF = FALSE /\ free = PoolSize
        /\ Held = {}
    BY DEF Init, Held
  <2>2. Cardinality(Held) = 0 /\ PoolSize \in Nat
    BY <2>1, FS_EmptySet, ULAssumption
  <2>3. WatchInv
    BY <2>1, ShortInit DEF WatchInv, PollOK, WatchOK
  <2>4. OneOK /\ UnackOK /\ ReqOK /\ EmptyOK
    BY <2>1 DEF OneOK, UnackOK, ReqOK, EmptyOK, PollSent
  <2>5. PoolConserved
    BY <2>1, <2>2 DEF PoolConserved
  <2> QED
    BY <2>3, <2>4, <2>5 DEF PoolInv
<1>2. PoolInv /\ [Next]_vars => PoolInv'
  <2> SUFFICES ASSUME PoolInv, [Next]_vars PROVE PoolInv'
    OBVIOUS
  <2> USE DEF PoolInv
  <2>1. WatchInv'
    BY ShortStep, WatchStep DEF WatchInv
  <2>2. OneOK' /\ UnackOK' /\ ReqOK' /\ EmptyOK'
    BY OneStep, UnackStep, ReqStep, EmptyStep
  <2>3. LinkOK
    BY DEF WatchInv, ShortOK
  <2>4. PoolSum' = PoolSum
    <3>1. CASE queue # <<>> /\ EstablishULTbf
      <4>1. Taken.type = "request"
        BY <3>1 DEF EstablishULTbf
      <4>2. 1 \in DOMAIN queue /\ queue[1] = Taken /\ \A j \in DOMAIN queue : ~(j < 1)
        <5>1. queue \in Seq(Message)
          BY <2>3 DEF LinkOK, RcvTypeOK
        <5>2. \A j \in DOMAIN queue : j \in Nat \ {0}
          BY <5>1
        <5> QED
          BY <3>1, <5>1, <5>2, TailIs DEF Taken
      <4>3. tbfState = "FREE"
        BY <4>1, <4>2 DEF ReqOK
      <4> QED
        BY <2>3, <3>1, <4>3, PoolAfterEstablish DEF EmptyOK
    <3> QED
      BY <2>3, <3>1, PoolStep
  <2>5. PoolConserved'
    BY <2>4 DEF PoolConserved, PoolSum
  <2> QED
    BY <2>1, <2>2, <2>5
<1>3. PoolInv => PoolConserved
  BY DEF PoolInv
<1> QED
  BY <1>1, <1>2, <1>3, PTL DEF Spec
==============================================================================
