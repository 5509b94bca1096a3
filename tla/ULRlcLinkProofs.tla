--------------------------- MODULE ULRlcLinkProofs ---------------------------
(***************************************************************************)
(* Theorems about one uplink TBF (module ULRlcLink), for every size of the *)
(* sequence number space, the window, the pool and the bounds, and for     *)
(* whatever the MS sends.                                                  *)
(***************************************************************************)
EXTENDS ULRlcLink, RlcWindowProofs, FiniteSetTheorems

------------------------------------------------------------------------------
(* Types of the values the actions put together.                            *)

\* Clearing the control ack tags keeps acknowledgements and messages what they are.
LEMMA UntaggedType ==
  /\ \A ks \in Seq(AckNack) : UntaggedAcks(ks) \in Seq(AckNack)
  /\ \A q \in Seq(Message) : UntaggedQueue(q) \in Seq(Message)
<1>1. ASSUME NEW ks \in Seq(AckNack) PROVE UntaggedAcks(ks) \in Seq(AckNack)
  <2> DEFINE U(a) == [a EXCEPT !.tag = FALSE]
  <2>1. \A a \in AckNack : U(a) \in AckNack
    BY DEF AckNack
  <2>2. \A i \in 1 .. Len(ks) : ks[i] \in AckNack
    OBVIOUS
  <2>4. DOMAIN ks = 1 .. Len(ks) /\ Len(ks) \in Nat
    OBVIOUS
  <2>3. UntaggedAcks(ks) = [i \in DOMAIN ks |-> U(ks[i])]
    BY DEF UntaggedAcks
  <2> HIDE DEF U
  <2> QED
    BY <2>1, <2>2, <2>3, <2>4
<1>2. ASSUME NEW q \in Seq(Message) PROVE UntaggedQueue(q) \in Seq(Message)
  <2>1. \A m \in Message : m.type = "outcome" => [m EXCEPT !.tag = FALSE] \in Message
    BY DEF Message, DataMessage, OutcomeMessage, ExpiryMessage, RequestMessage
  <2>2. \A i \in 1 .. Len(q) : q[i] \in Message
    OBVIOUS
  <2>3. DOMAIN q = 1 .. Len(q) /\ Len(q) \in Nat
    OBVIOUS
  <2> QED
    BY <2>1, <2>2, <2>3 DEF UntaggedQueue
<1> QED
  BY <1>1, <1>2

\* The messages that the radio, the MS and the timers post.
LEMMA MessageIn ==
  /\ \A n \in Nat : [type |-> "data", n |-> n] \in Message
  /\ \A t \in BOOLEAN, a \in BOOLEAN : [type |-> "outcome", tag |-> t, ack |-> a] \in Message
  /\ \A t \in Timer : [type |-> "expiry", timer |-> t] \in Message
  /\ [type |-> "request"] \in Message
  BY DEF Message, DataMessage, OutcomeMessage, ExpiryMessage, RequestMessage

\* Setting and cancelling timers leaves every timer running or not.
LEMMA RestartedType == \A on, off : Restarted(on, off) \in [Timer -> BOOLEAN]
  BY DEF Restarted

\* The sequences the handlers take their messages from and add messages to.
LEMMA SeqFacts ==
  ASSUME RcvTypeOK
  PROVE  /\ queue # <<>> => Taken \in Message /\ Others \in Seq(Message)
         /\ acks # <<>> => Head(acks) \in AckNack /\ Tail(acks) \in Seq(AckNack)
         /\ \A q \in Seq(Message), x \in Message : Append(q, x) \in Seq(Message)
         /\ \A ks \in Seq(AckNack), a \in AckNack : Append(ks, a) \in Seq(AckNack)
<1> USE DEF RcvTypeOK
<1>1. queue # <<>> => Taken \in Message /\ Others \in Seq(Message)
  BY DEF Taken, Others
<1>2. acks # <<>> => Head(acks) \in AckNack /\ Tail(acks) \in Seq(AckNack)
  OBVIOUS
<1> QED
  BY <1>1, <1>2

\* The pool gets back as many blocks as a finite set has.
LEMMA BlocksFinite ==
  \A S \in SUBSET BSN : IsFiniteSet(S) /\ Cardinality(S) \in Nat
<1>1. IsFiniteSet(BSN)
  BY WindowAssumption, FS_Interval DEF BSN
<1> QED
  BY <1>1, FS_Subset, FS_CardinalityType

\* V(Q) in unacknowledged mode stays within 0 .. RLC_MOD_VAL, however far behind
\* V(R) it is.
LEMMA NewVQUnackType ==
  ASSUME vQ \in 0 .. RLC_MOD_VAL, NEW r \in 0 .. RLC_MOD_VAL
  PROVE  NewVQUnack(r) \in 0 .. RLC_MOD_VAL
<1>1. CASE r >= vQ
  <2>1. CASE (r - vQ) % RLC_MOD_VAL > K
    <3>1. r - vQ \in 0 .. RLC_MOD_VAL
      BY <1>1, WindowAssumption
    <3>2. (r - vQ) % RLC_MOD_VAL <= r - vQ
      BY <3>1, WindowAssumption
    <3>3. (r - vQ) % RLC_MOD_VAL \in Int
      BY <3>1, WindowAssumption
    <3> QED
      BY <1>1, <2>1, <3>2, <3>3, WindowAssumption DEF NewVQUnack
  <2>2. CASE ~((r - vQ) % RLC_MOD_VAL > K)
    BY <1>1, <2>2 DEF NewVQUnack
  <2> QED
    BY <2>1, <2>2
<1>2. CASE ~(r >= vQ)
  <2>1. RLC_MOD_VAL - (K - r) \in Int
    BY WindowAssumption
  <2>2. (RLC_MOD_VAL - (K - r)) % RLC_MOD_VAL \in BSN
    BY <2>1, ModType
  <2> QED
    BY <1>2, <2>2, WindowAssumption DEF NewVQUnack, BSN
<1> QED
  BY <1>1, <1>2

\* V(Q) in acknowledged mode stays an index: the loop that looks for the next
\* block not received meets V(R) at the latest.
LEMMA NewVQType ==
  ASSUME vQ \in BSN, NEW b, NEW r \in BSN, NEW vn
  PROVE  NewVQ(b, r, vn) \in BSN
<1> DEFINE S == {i \in BSN : i = r \/ vn[i] = "INVALID"}
<1>1. S \in SUBSET BSN /\ S # {}
  OBVIOUS
<1>2. Inc(vQ) \in BSN
  BY IncType
<1>3. FirstFrom(Inc(vQ), S) \in BSN
  BY <1>1, <1>2, FirstFromIn
<1> QED
  BY <1>3 DEF NewVQ
------------------------------------------------------------------------------
(* The invariant.                                                           *)

\* What ReassembleULPDU relies on when it reads the block a PDU ends in: that
\* block is held.  ReleaseULTbf empties pUlBlocks and leaves lastDataBlock, so
\* this is only so while there is a TBF, and no TBF is released between the PDUs
\* of one call.
PduHeld ==
    /\ reassembling => tbfState # "FREE" /\ lastDataBlock # LAST_BLOCK_UNKNOWN
    /\ lastDataBlock # LAST_BLOCK_UNKNOWN /\ tbfState # "FREE" =>
           pUlBlocks[lastDataBlock] # Null

LinkOK == RcvTypeOK /\ PduHeld

------------------------------------------------------------------------------
(* The operations keep it.                                                  *)

\* SendULAckNack queues a well-formed acknowledgement, and a TBF with one under way
\* is still there.
LEMMA SendType ==
  ASSUME RcvTypeOK, NEW r \in 0 .. RLC_MOD_VAL, NEW q, NEW vn, NEW e \in BOOLEAN,
         NEW qu \in Seq(Message), SendULAckNack(r, q, vn, e, qu)
  PROVE  /\ acks' \in Seq(AckNack) /\ queue' \in Seq(Message)
         /\ tbfState' \in TbfState
         /\ tbfState # "FREE" => tbfState' # "FREE"
         /\ numRLCBlocksSinceLastAck' \in 1 .. BlocksBetweenAcks
<1> DEFINE final == e /\ (rlcMode = "ACK" => r = q)
           rrb == {i \in BSN : Dist(i, r % RLC_MOD_VAL) \in 1 .. K /\ vn[i] = "RECEIVED"}
           msg(bit) == [final |-> bit, ssn |-> r, rrb |-> rrb, polled |-> final, tag |-> final]
<1>1. final \in BOOLEAN /\ rrb \in SUBSET BSN
  OBVIOUS
<1> HIDE DEF final, rrb
<1>2. \A bit \in BOOLEAN : msg(bit) \in AckNack
  BY <1>1 DEF AckNack
<1>3. \E bit \in BOOLEAN : acks' = Append(IF final THEN UntaggedAcks(acks) ELSE acks, msg(bit))
  BY <1>1 DEF SendULAckNack, final, rrb
<1> HIDE DEF msg
<1>4. acks \in Seq(AckNack) /\ UntaggedAcks(acks) \in Seq(AckNack)
  BY UntaggedType DEF RcvTypeOK
<1>5. acks' \in Seq(AckNack)
  BY <1>2, <1>3, <1>4, SeqFacts
<1>6. queue' \in Seq(Message)
  BY UntaggedType DEF SendULAckNack
<1>7. /\ tbfState' \in TbfState /\ (tbfState # "FREE" => tbfState' # "FREE")
      /\ numRLCBlocksSinceLastAck' = BlocksBetweenAcks
  BY DEF SendULAckNack, RcvTypeOK, TbfState
<1> QED
  BY <1>5, <1>6, <1>7, ULAssumption

\* An accepted block is held afterwards, and so is the block that ends the PDU.
LEMMA AcceptKeeps ==
  ASSUME LinkOK, tbfState # "FREE", free > 0, Idle, queue # <<>>,
         NEW n \in Nat, NEW r \in 0 .. RLC_MOD_VAL, NEW q, NEW vn,
         vn \in [BSN -> {"RECEIVED", "INVALID"}],
         r \in BSN \/ rlcMode = "UNACK",
         q \in BSN \/ (q = RLC_MOD_VAL /\ rlcMode = "UNACK"),
         rlcMode' = rlcMode,
         AcceptULDataBlock(n, r, q, vn)
  PROVE  /\ vR' \in BSN \/ (vR' = RLC_MOD_VAL /\ rlcMode' = "UNACK")
         /\ vQ' \in BSN \/ (vQ' = RLC_MOD_VAL /\ rlcMode' = "UNACK")
         /\ vN' \in [BSN -> {"RECEIVED", "INVALID"}]
         /\ endOfTBF' \in BOOLEAN /\ got' \in SUBSET Nat
         /\ pUlBlocks' \in [BSN -> HeldBlock \cup {Null}] /\ free' \in Nat
         /\ lastDataBlock' \in BSN \cup {LAST_BLOCK_UNKNOWN}
         /\ reassembling' \in BOOLEAN /\ currDataBlock' \in 0 .. RLC_MOD_VAL
         /\ acks' \in Seq(AckNack) /\ queue' \in Seq(Message)
         /\ tbfState' \in TbfState
         /\ numRLCBlocksSinceLastAck' \in 1 .. BlocksBetweenAcks
         /\ PduHeld'
<1> USE DEF LinkOK
<1> DEFINE b == Bsn(n)
           periodic == numRLCBlocksSinceLastAck = 1
           assigned == ~periodic /\ ~IsLast(n) /\ endOfTBF
           q2 == IF assigned THEN r ELSE q
           e == endOfTBF \/ IsLast(n)
           last == IF lastDataBlock = LAST_BLOCK_UNKNOWN /\ EndsPdu([n |-> n, cur |-> 0])
                   THEN b ELSE lastDataBlock
           sends == periodic \/ IsLast(n) \/ (assigned /\ r # 0)
<1>0. BSN \subseteq 0 .. RLC_MOD_VAL /\ (r \in BSN \/ r = RLC_MOD_VAL) /\ RLC_MOD_VAL \in Nat
  BY WindowAssumption DEF BSN
<1>1. b \in BSN
  BY ModType DEF Bsn
<1>2. [n |-> n, cur |-> 0] \in HeldBlock /\ [n |-> n, cur |-> 0] # Null
  BY ULAssumption DEF HeldBlock
<1>3. Others \in Seq(Message)
  BY SeqFacts
<1>4. e \in BOOLEAN /\ endOfTBF \in BOOLEAN
  BY DEF RcvTypeOK, IsLast
<1>5. /\ vR' = r /\ vQ' = q2 /\ vN' = vn /\ endOfTBF' = e /\ got' = got \cup {n}
      /\ pUlBlocks' = IF pUlBlocks[b] = Null
                      THEN [pUlBlocks EXCEPT ![b] = [n |-> n, cur |-> 0]] ELSE pUlBlocks
      /\ free' = IF pUlBlocks[b] = Null THEN free - 1 ELSE free
      /\ lastDataBlock' = last
      /\ reassembling' = (last # LAST_BLOCK_UNKNOWN /\ AssemblyNeeded(last, q2))
      /\ currDataBlock' = firstDataBlock
  BY DEF AcceptULDataBlock
<1>6. IF sends THEN SendULAckNack(r, q2, vn, e, Others)
      ELSE /\ queue' = Others
           /\ numRLCBlocksSinceLastAck' = numRLCBlocksSinceLastAck - 1
           /\ UNCHANGED <<acks, tbfState>>
  BY DEF AcceptULDataBlock
<1> HIDE DEF q2, e, last
<1>7. /\ acks' \in Seq(AckNack) /\ queue' \in Seq(Message)
      /\ tbfState' \in TbfState /\ tbfState' # "FREE"
      /\ numRLCBlocksSinceLastAck' \in 1 .. BlocksBetweenAcks
  <2>1. CASE sends
    BY <1>3, <1>4, <1>6, <2>1, SendType
  <2>2. CASE ~sends
    <3>1. numRLCBlocksSinceLastAck \in 1 .. BlocksBetweenAcks /\ numRLCBlocksSinceLastAck # 1
      BY <2>2 DEF RcvTypeOK
    <3> QED
      BY <1>3, <1>6, <2>2, <3>1, ULAssumption DEF RcvTypeOK
  <2> QED
    BY <2>1, <2>2
<1>8. pUlBlocks' \in [BSN -> HeldBlock \cup {Null}] /\ free' \in Nat
  BY <1>1, <1>2, <1>5 DEF RcvTypeOK
<1>9. last \in BSN \cup {LAST_BLOCK_UNKNOWN}
  BY <1>1 DEF last, RcvTypeOK
<1>10. last # LAST_BLOCK_UNKNOWN => pUlBlocks'[last] # Null
  <2>1. CASE last = b
    BY <1>1, <1>2, <1>5, <2>1 DEF RcvTypeOK
  <2>2. CASE last = lastDataBlock /\ last # b
    BY <1>1, <1>5, <2>2 DEF RcvTypeOK, PduHeld
  <2> QED
    BY <2>1, <2>2 DEF last
<1>11. PduHeld'
  BY <1>5, <1>7, <1>10 DEF PduHeld
<1>12. vQ' \in BSN \/ (vQ' = RLC_MOD_VAL /\ rlcMode' = "UNACK")
  BY <1>0, <1>5 DEF q2
<1>13. currDataBlock' \in 0 .. RLC_MOD_VAL /\ reassembling' \in BOOLEAN
  BY <1>5 DEF RcvTypeOK
<1> QED
  BY <1>0, <1>4, <1>5, <1>7, <1>8, <1>9, <1>11, <1>12, <1>13 DEF RcvTypeOK

\* Messages of the data type carry a block number.
LEMMA TakenKind ==
  ASSUME RcvTypeOK, queue # <<>>
  PROVE  /\ Taken.type = "data" => Taken.n \in Nat
         /\ Others \in Seq(Message)
<1>1. Taken \in Message /\ Others \in Seq(Message)
  BY SeqFacts
<1>2. ASSUME NEW m \in Message, m.type = "data" PROVE m.n \in Nat
  BY <1>2 DEF Message, DataMessage, OutcomeMessage, ExpiryMessage, RequestMessage
<1> QED
  BY <1>1, <1>2

\* A data block is accepted, rejected or dropped.
LEMMA ReceiveKeeps ==
  ASSUME LinkOK, Idle, queue # <<>>, ReceiveULDataBlock
  PROVE  LinkOK'
<1> USE DEF LinkOK
<1> DEFINE n == Taken.n
           b == Bsn(n)
<1>0. BSN \subseteq 0 .. RLC_MOD_VAL /\ BSN \subseteq Int /\ RLC_MOD_VAL \in 0 .. RLC_MOD_VAL
  BY WindowAssumption DEF BSN
<1>1. n \in Nat /\ b \in BSN
  <2>1. Taken.n \in Nat
    BY TakenKind DEF ReceiveULDataBlock
  <2> QED
    BY <2>1, ModType DEF Bsn
<1>2. /\ rlcMode' = rlcMode /\ tbfState # "FREE" /\ free > 0
      /\ n3101' = 0 /\ n3101FirstBlkBuffer' = 0 /\ timer' = Restarted({"Activity"}, {})
      /\ UNCHANGED <<firstDataBlock, n3103, delivered, fault, grant, msVars>>
  BY DEF ReceiveULDataBlock
<1>3. timer' \in [Timer -> BOOLEAN]
  BY <1>2, RestartedType
<1>4. CASE rlcMode = "ACK" /\ InWindow(b)
  <2> DEFINE r == IF MovesVR(b) THEN Inc(b) ELSE vR
             vn == NewVN(b, r)
             q == NewVQ(b, r, vn)
  <2>1. AcceptULDataBlock(n, r, q, vn) /\ rlcMode = "ACK"
    BY <1>4 DEF ReceiveULDataBlock
  <2>2. vR \in BSN /\ vQ \in BSN
    BY <1>4 DEF RcvTypeOK
  <2>3. r \in BSN
    BY <1>1, <2>2, IncType
  <2>4. vn \in [BSN -> {"RECEIVED", "INVALID"}]
    BY DEF NewVN, RcvTypeOK
  <2> HIDE DEF r, vn
  <2>5. q \in BSN
    BY <1>1, <2>2, <2>3, NewVQType
  <2> HIDE DEF n, q
  <2>6. r \in 0 .. RLC_MOD_VAL
    BY <1>0, <2>3
  <2>7. /\ vR' \in BSN \/ (vR' = RLC_MOD_VAL /\ rlcMode' = "UNACK")
        /\ vQ' \in BSN \/ (vQ' = RLC_MOD_VAL /\ rlcMode' = "UNACK")
        /\ vN' \in [BSN -> {"RECEIVED", "INVALID"}]
        /\ endOfTBF' \in BOOLEAN /\ got' \in SUBSET Nat
        /\ pUlBlocks' \in [BSN -> HeldBlock \cup {Null}] /\ free' \in Nat
        /\ lastDataBlock' \in BSN \cup {LAST_BLOCK_UNKNOWN}
        /\ reassembling' \in BOOLEAN /\ currDataBlock' \in 0 .. RLC_MOD_VAL
        /\ acks' \in Seq(AckNack) /\ queue' \in Seq(Message)
        /\ tbfState' \in TbfState
        /\ numRLCBlocksSinceLastAck' \in 1 .. BlocksBetweenAcks
        /\ PduHeld'
    BY <1>1, <1>2, <2>1, <2>3, <2>4, <2>5, <2>6, AcceptKeeps
  <2> QED
    BY <1>2, <1>3, <2>7 DEF RcvTypeOK, msVars
<1>5. CASE rlcMode = "UNACK" /\ vR # b + 1 /\ AcceptULDataBlock(n, b + 1, NewVQUnack(b + 1), vN)
  <2> DEFINE r == b + 1
             q == NewVQUnack(r)
  <2>1. r \in 0 .. RLC_MOD_VAL
    BY <1>0, <1>1, WindowAssumption DEF BSN
  <2>2. vQ \in 0 .. RLC_MOD_VAL
    <3>1. vQ \in BSN \/ vQ = RLC_MOD_VAL
      BY DEF RcvTypeOK
    <3> QED
      BY <1>0, <3>1
  <2> HIDE DEF r
  <2>3. q \in 0 .. RLC_MOD_VAL
    BY <2>1, <2>2, NewVQUnackType
  <2>4. q \in BSN \/ (q = RLC_MOD_VAL /\ rlcMode = "UNACK")
    BY <1>5, <2>3, WindowAssumption DEF BSN
  <2>5. vN \in [BSN -> {"RECEIVED", "INVALID"}]
    BY DEF RcvTypeOK
  <2>6. AcceptULDataBlock(n, r, q, vN)
    BY <1>5 DEF r
  <2> HIDE DEF n, q
  <2>7. /\ vR' \in BSN \/ (vR' = RLC_MOD_VAL /\ rlcMode' = "UNACK")
        /\ vQ' \in BSN \/ (vQ' = RLC_MOD_VAL /\ rlcMode' = "UNACK")
        /\ vN' \in [BSN -> {"RECEIVED", "INVALID"}]
        /\ endOfTBF' \in BOOLEAN /\ got' \in SUBSET Nat
        /\ pUlBlocks' \in [BSN -> HeldBlock \cup {Null}] /\ free' \in Nat
        /\ lastDataBlock' \in BSN \cup {LAST_BLOCK_UNKNOWN}
        /\ reassembling' \in BOOLEAN /\ currDataBlock' \in 0 .. RLC_MOD_VAL
        /\ acks' \in Seq(AckNack) /\ queue' \in Seq(Message)
        /\ tbfState' \in TbfState
        /\ numRLCBlocksSinceLastAck' \in 1 .. BlocksBetweenAcks
        /\ PduHeld'
    BY <1>1, <1>2, <1>5, <2>1, <2>4, <2>5, <2>6, AcceptKeeps
  <2> QED
    BY <1>2, <1>3, <2>7 DEF RcvTypeOK, msVars
<1>6. CASE RejectULDataBlock
  <2>1. queue' \in Seq(Message)
    BY <1>6, TakenKind DEF RejectULDataBlock
  <2>2. PduHeld'
    BY <1>6 DEF PduHeld, RejectULDataBlock
  <2> QED
    BY <1>2, <1>3, <1>6, <2>1, <2>2 DEF RcvTypeOK, msVars, RejectULDataBlock
<1> QED
  BY <1>4, <1>5, <1>6 DEF ReceiveULDataBlock

\* ReleaseULTbf leaves no block held.
LEMMA ReleaseKeeps ==
  ASSUME RcvTypeOK, ReleaseULTbf
  PROVE  /\ tbfState' \in TbfState /\ tbfState' = "FREE"
         /\ pUlBlocks' \in [BSN -> HeldBlock \cup {Null}] /\ free' \in Nat
<1>1. Returned(BSN) \in SUBSET BSN
  BY DEF Returned
<1>2. Cardinality(Returned(BSN)) \in Nat
  BY <1>1, BlocksFinite
<1> QED
  BY <1>2 DEF ReleaseULTbf, TbfState, RcvTypeOK

\* The outcome of the poll for the final acknowledgement.
LEMMA OutcomeKeeps ==
  ASSUME LinkOK, Idle, queue # <<>>, ReceiveOutcome
  PROVE  LinkOK'
<1> USE DEF LinkOK
<1>1. /\ UNCHANGED <<rlcMode, vR, vQ, vN, endOfTBF, got, firstDataBlock, lastDataBlock, pduVars,
                     n3101, n3101FirstBlkBuffer, grant, msVars>>
      /\ ~reassembling
  BY DEF ReceiveOutcome, Idle
<1>2. Others \in Seq(Message)
  BY TakenKind
<1>3. CASE ReceivePacketControlAck
  <2>1. timer' \in [Timer -> BOOLEAN]
    BY <1>3, RestartedType DEF ReceivePacketControlAck
  <2>2. PduHeld'
    BY <1>1, <1>3 DEF ReceivePacketControlAck, ReleaseULTbf, PduHeld, pduVars
  <2> QED
    BY <1>1, <1>2, <1>3, <2>1, <2>2, ReleaseKeeps
       DEF ReceivePacketControlAck, RcvTypeOK, pduVars, msVars
<1>4. CASE ReceivePacketControlNack
  <2>1. n3103' \in Nat /\ UNCHANGED <<pUlBlocks, free>>
    BY <1>4 DEF ReceivePacketControlNack, NextN3103, RcvTypeOK
  <2>2. timer' \in [Timer -> BOOLEAN]
    BY <1>4, RestartedType DEF ReceivePacketControlNack, RcvTypeOK
  <2>3. /\ acks' \in Seq(AckNack) /\ queue' \in Seq(Message)
        /\ tbfState' \in TbfState /\ (tbfState # "FREE" => tbfState' # "FREE")
        /\ numRLCBlocksSinceLastAck' \in 1 .. BlocksBetweenAcks
    <3>1. CASE SendULAckNack(vR, vQ, vN, endOfTBF, Others)
      <4>1. vR \in 0 .. RLC_MOD_VAL /\ endOfTBF \in BOOLEAN
        BY WindowAssumption DEF RcvTypeOK, BSN
      <4> QED
        BY <1>2, <3>1, <4>1, SendType
    <3>2. CASE queue' = Others /\ UNCHANGED <<tbfState, acks, numRLCBlocksSinceLastAck>>
      BY <1>2, <3>2 DEF RcvTypeOK
    <3> QED
      BY <1>4, <3>1, <3>2 DEF ReceivePacketControlNack
  <2>4. PduHeld'
    BY <1>1, <1>4, <2>1 DEF PduHeld, pduVars, ReceivePacketControlNack
  <2> QED
    BY <1>1, <2>1, <2>2, <2>3, <2>4 DEF RcvTypeOK, pduVars, msVars
<1>5. CASE IgnoreOutcome
  <2>1. PduHeld'
    BY <1>1, <1>5 DEF IgnoreOutcome, PduHeld, pduVars
  <2> QED
    BY <1>1, <1>2, <1>5, <2>1 DEF IgnoreOutcome, RcvTypeOK, pduVars, msVars
<1> QED
  BY <1>3, <1>4, <1>5 DEF ReceiveOutcome

\* The expiry of a timer ends the TBF, and finds nothing to do without one.
LEMMA ExpiryKeeps ==
  ASSUME LinkOK, Idle, queue # <<>>, NEW t \in Timer, ProcessExpiry(t)
  PROVE  LinkOK'
<1> USE DEF LinkOK
<1>1. /\ UNCHANGED <<windowVars, firstDataBlock, lastDataBlock, pduVars, counterVars, grant,
                     acks, msVars>>
      /\ queue' = Others /\ ~reassembling
  BY DEF ProcessExpiry, Idle
<1>2. Others \in Seq(Message)
  BY TakenKind
<1>3. /\ timer' \in [Timer -> BOOLEAN] /\ tbfState' \in TbfState
      /\ pUlBlocks' \in [BSN -> HeldBlock \cup {Null}] /\ free' \in Nat
      /\ tbfState' = "FREE"
  <2>1. CASE ReleaseULTbf /\ timer' = Restarted({}, IF t = "T3169" THEN Timer ELSE {})
    BY <2>1, ReleaseKeeps, RestartedType
  <2>2. CASE tbfState = "FREE" /\ UNCHANGED <<tbfState, pUlBlocks, free, timer>>
    BY <2>2 DEF RcvTypeOK
  <2> QED
    BY <2>1, <2>2 DEF ProcessExpiry
<1>4. PduHeld'
  BY <1>1, <1>3 DEF PduHeld, pduVars
<1> QED
  BY <1>1, <1>2, <1>3, <1>4 DEF RcvTypeOK, windowVars, pduVars, counterVars, msVars

\* A request: whatever the object held before, the new TBF starts with empty arrays.
LEMMA EstablishKeeps ==
  ASSUME LinkOK, Idle, queue # <<>>, EstablishULTbf
  PROVE  LinkOK'
<1> USE DEF LinkOK, EstablishULTbf
<1>1. queue' \in Seq(Message)
  BY TakenKind, UntaggedType
<1>2. timer' \in [Timer -> BOOLEAN]
  BY RestartedType
<1>3. PduHeld'
  BY DEF PduHeld, Idle
<1>4. /\ vR' \in BSN /\ vQ' \in BSN /\ firstDataBlock' \in 0 .. RLC_MOD_VAL
      /\ vN' \in [BSN -> {"RECEIVED", "INVALID"}]
      /\ pUlBlocks' \in [BSN -> HeldBlock \cup {Null}]
  BY WindowAssumption DEF BSN
<1>5. acks' \in Seq(AckNack)
  OBVIOUS
<1>6. /\ tbfState' \in TbfState /\ rlcMode' \in RlcMode
      /\ lastDataBlock' \in BSN \cup {LAST_BLOCK_UNKNOWN}
      /\ endOfTBF' \in BOOLEAN
      /\ lay' \in Layouts /\ msVS' \in Nat
      /\ acked' \in SUBSET Nat /\ nacked' \in SUBSET Nat /\ got' \in SUBSET Nat
  BY DEF TbfState
<1>9. numRLCBlocksSinceLastAck' \in 1 .. BlocksBetweenAcks
  BY ULAssumption
<1>10. n3101' \in Nat /\ n3101FirstBlkBuffer' \in Nat /\ n3103' \in Nat
  <2>1. FirstBlkBuffer \in Nat
    BY ULAssumption
  <2>2. n3101FirstBlkBuffer \in Nat
    BY DEF RcvTypeOK
  <2> QED
    BY <2>1, <2>2
<1>7. msState' \in {"idle", "asked", "sending", "done", "gone"}
  BY DEF RcvTypeOK
<1>8. UNCHANGED <<free, reassembling, currDataBlock, fault, grant, tbfs>>
  OBVIOUS
<1> HIDE DEF EstablishULTbf
<1> QED
  BY <1>1, <1>2, <1>3, <1>4, <1>5, <1>6, <1>7, <1>8, <1>9, <1>10 DEF RcvTypeOK

\* Reassembly of one PDU: the block it ends in is held, gives up one length octet
\* or is released with those before it, and the block the next PDU ends in is held.
LEMMA ReassembleKeeps ==
  ASSUME LinkOK, ReassembleULPDU
  PROVE  LinkOK'
<1> USE DEF LinkOK
<1> DEFINE l == lastDataBlock
           h == pUlBlocks[l]
           p1(kept) == IF kept = "next_octet" THEN [pUlBlocks EXCEPT ![l].cur = h.cur + 1]
                       ELSE pUlBlocks
           c(kept) == IF kept = "next_block" THEN l + 1 ELSE l
           released(kept) == ReleasedIndices(firstDataBlock, c(kept))
           p2(kept) == [i \in BSN |-> IF i \in released(kept) THEN Null ELSE p1(kept)[i]]
           ends(kept) == ScanEnds(c(kept), p2(kept))
           found(kept) == c(kept) # vR /\ ends(kept) # {}
           next(kept) == FirstFrom(c(kept), ends(kept))
<1>1. l \in BSN /\ h \in HeldBlock /\ tbfState # "FREE"
  <2>1. reassembling /\ tbfState # "FREE" /\ l # LAST_BLOCK_UNKNOWN /\ h # Null
    BY DEF PduHeld, ReassembleULPDU
  <2>2. l \in BSN \cup {LAST_BLOCK_UNKNOWN}
    BY DEF RcvTypeOK
  <2>3. pUlBlocks \in [BSN -> HeldBlock \cup {Null}]
    BY DEF RcvTypeOK
  <2> QED
    BY <2>1, <2>2, <2>3
<1>2. PICK kept \in Kept :
        /\ pUlBlocks' = p2(kept)
        /\ free' = free + Cardinality(Returned(released(kept)))
        /\ firstDataBlock' = c(kept) /\ currDataBlock' = l
        /\ fault' = \/ currDataBlock = RLC_MOD_VAL
                    \/ c(kept) = RLC_MOD_VAL /\ vR # RLC_MOD_VAL
                    \/ c(kept) # RLC_MOD_VAL /\ vR = RLC_MOD_VAL /\ ~found(kept)
                    \/ h.cur > Layout(h.n).ends \/ kept = "same"
        /\ lastDataBlock' = IF found(kept) /\ ~fault' THEN next(kept) ELSE LAST_BLOCK_UNKNOWN
        /\ reassembling' = (found(kept) /\ ~fault' /\ AssemblyNeeded(next(kept), vQ))
  BY DEF ReassembleULPDU
<1>3. UNCHANGED <<tbfState, windowVars, counterVars, timer, queue, grant, acks, msVars>>
  BY DEF ReassembleULPDU
<1>4. p1(kept) \in [BSN -> HeldBlock \cup {Null}]
  <2>1. CASE kept = "next_octet"
    <3>1. [h EXCEPT !.cur = h.cur + 1] \in HeldBlock
      BY <1>1 DEF HeldBlock
    <3>2. p1(kept) = [i \in BSN |-> IF i = l THEN [h EXCEPT !.cur = h.cur + 1] ELSE pUlBlocks[i]]
      BY <1>1, <2>1 DEF RcvTypeOK
    <3> QED
      BY <3>1, <3>2 DEF RcvTypeOK
  <2>2. CASE kept # "next_octet"
    BY <2>2 DEF RcvTypeOK
  <2> QED
    BY <2>1, <2>2
<1>5. c(kept) \in 0 .. RLC_MOD_VAL /\ BSN \subseteq 0 .. RLC_MOD_VAL
      /\ (c(kept) # RLC_MOD_VAL => c(kept) \in BSN)
  BY <1>1, WindowAssumption DEF BSN
<1> HIDE DEF p1, c
<1>6. p2(kept) \in [BSN -> HeldBlock \cup {Null}]
  BY <1>4
<1>7. free' \in Nat
  <2>1. Returned(released(kept)) \in SUBSET BSN
    BY DEF Returned, ReleasedIndices
  <2> HIDE DEF released
  <2>2. Cardinality(Returned(released(kept))) \in Nat
    BY <2>1, BlocksFinite
  <2> QED
    BY <1>2, <2>2 DEF RcvTypeOK
<1> HIDE DEF p2
<1>8. found(kept) /\ ~fault' => next(kept) \in ends(kept)
  <2> SUFFICES ASSUME found(kept), ~fault' PROVE next(kept) \in ends(kept)
    OBVIOUS
  <2>1. c(kept) \in BSN
    BY <1>2, <1>5
  <2>2. ends(kept) \in SUBSET BSN /\ ends(kept) # {}
    BY SpanType DEF ScanEnds
  <2> HIDE DEF ends
  <2> QED
    BY <2>1, <2>2, FirstFromIn
<1>9. ends(kept) \subseteq {i \in BSN : p2(kept)[i] # Null}
  BY SpanType DEF ScanEnds
<1> HIDE DEF ends, found, next, released
<1>10. /\ lastDataBlock' \in BSN \cup {LAST_BLOCK_UNKNOWN}
       /\ lastDataBlock' # LAST_BLOCK_UNKNOWN => pUlBlocks'[lastDataBlock'] # Null
       /\ reassembling' => lastDataBlock' # LAST_BLOCK_UNKNOWN
       /\ reassembling' \in BOOLEAN /\ fault' \in BOOLEAN
  <2>1. next(kept) \in BSN => next(kept) # LAST_BLOCK_UNKNOWN
    BY WindowAssumption DEF BSN, LAST_BLOCK_UNKNOWN
  <2> QED
    BY <1>2, <1>8, <1>9, <2>1
<1>11. PduHeld'
  BY <1>1, <1>3, <1>10 DEF PduHeld
<1>12. firstDataBlock' \in 0 .. RLC_MOD_VAL /\ currDataBlock' \in 0 .. RLC_MOD_VAL
       /\ pUlBlocks' \in [BSN -> HeldBlock \cup {Null}]
  BY <1>1, <1>2, <1>5, <1>6
<1> QED
  BY <1>3, <1>7, <1>10, <1>11, <1>12 DEF RcvTypeOK, windowVars, counterVars, msVars

\* What the MS sends is a block of its TBF.
LEMMA SendableType == RcvTypeOK => Sendable \subseteq Nat
<1> SUFFICES ASSUME RcvTypeOK PROVE Sendable \subseteq Nat
  OBVIOUS
<1>1. lay \in Seq(BlockLayout) \ {<<>>} /\ msVS \in Nat /\ nacked \in SUBSET Nat
  BY ULAssumption DEF RcvTypeOK
<1>2. Len(lay) \in Nat /\ Len(lay) # 0
  BY <1>1
<1>3. (IF msVS < Len(lay) THEN msVS ELSE msVS - 1) \in Nat
  BY <1>1, <1>2
<1>4. nacked # {} => Oldest(nacked) \in Nat
  <2>1. nacked # {} => \E n \in nacked : \A m \in nacked : n <= m
    BY <1>1, LeastNat
  <2> QED
    BY <1>1, <2>1 DEF Oldest
<1>5. Unacked \subseteq Nat
  BY <1>1 DEF Unacked
<1> QED
  BY <1>1, <1>3, <1>4, <1>5 DEF Sendable

\* The MS, the radio, the timers, the scheduler and OAM.
LEMMA OthersKeep ==
  ASSUME LinkOK,
         \/ IncrementN3101 \/ AbnormalRelease \/ MSRequest \/ MSSend \/ USFUnused
         \/ MSHearsAck \/ AckLost \/ MSLeaves \/ \E t \in Timer : TimerExpiry(t)
  PROVE  LinkOK'
<1> USE DEF LinkOK, windowVars, blockVars, pduVars, counterVars, msVars
<1>1. CASE IncrementN3101
  <2>1. timer' \in [Timer -> BOOLEAN] /\ tbfState' \in TbfState
    BY <1>1, RestartedType DEF IncrementN3101, RcvTypeOK, TbfState
  <2>2. n3101' \in Nat
    BY <1>1 DEF IncrementN3101, RcvTypeOK
  <2>3. PduHeld'
    BY <1>1 DEF IncrementN3101, PduHeld, Idle
  <2> QED
    BY <1>1, <2>1, <2>2, <2>3 DEF IncrementN3101, RcvTypeOK
<1>2. CASE AbnormalRelease
  <2>1. timer' \in [Timer -> BOOLEAN] /\ tbfState' \in TbfState
    BY <1>2, RestartedType DEF AbnormalRelease, TbfState
  <2>2. PduHeld'
    BY <1>2 DEF AbnormalRelease, PduHeld, Idle
  <2> QED
    BY <1>2, <2>1, <2>2 DEF AbnormalRelease, RcvTypeOK
<1>3. CASE MSRequest
  <2>1. queue' \in Seq(Message) /\ tbfs' \in Nat
    BY <1>3, SeqFacts, MessageIn DEF MSRequest, RcvTypeOK
  <2>2. PduHeld'
    BY <1>3 DEF MSRequest, PduHeld
  <2> QED
    BY <1>3, <2>1, <2>2 DEF MSRequest, RcvTypeOK
<1>4. CASE MSSend
  <2>1. PICK n \in Sendable :
          /\ msVS' = IF n = msVS THEN msVS + 1 ELSE msVS
          /\ nacked' = nacked \ {n}
          /\ \/ queue' = Append(queue, [type |-> "data", n |-> n])
             \/ queue' = queue
    BY <1>4 DEF MSSend
  <2>2. n \in Nat
    BY SendableType
  <2>3. queue' \in Seq(Message)
    <3>1. [type |-> "data", n |-> n] \in Message /\ queue \in Seq(Message)
      BY <2>2, MessageIn DEF RcvTypeOK
    <3> QED
      BY <2>1, <3>1, SeqFacts
  <2>5. msVS' \in Nat /\ nacked' \in SUBSET Nat
    <3>1. msVS \in Nat /\ nacked \in SUBSET Nat
      BY DEF RcvTypeOK
    <3>2. msVS' = IF n = msVS THEN msVS + 1 ELSE msVS
      BY <2>1
    <3>3. nacked' = nacked \ {n}
      BY <2>1
    <3>4. msVS' \in Nat
      BY <3>1, <3>2
    <3>5. nacked' \in SUBSET Nat
      BY <3>1, <3>3
    <3> QED
      BY <3>4, <3>5
  <2>4. PduHeld'
    BY <1>4 DEF MSSend, PduHeld
  <2> QED
    BY <1>4, <2>3, <2>4, <2>5 DEF MSSend, RcvTypeOK
<1>5. CASE USFUnused
  BY <1>5 DEF USFUnused, RcvTypeOK, PduHeld
<1>6. CASE MSHearsAck
  <2> DEFINE a == Head(acks)
             covered == {n \in Unacked : Dist(Bsn(n), a.ssn % RLC_MOD_VAL) \in 1 .. K}
             told == {n \in covered : Bsn(n) \in a.rrb}
  <2>1. covered \subseteq Nat /\ told \subseteq Nat
    BY DEF Unacked, RcvTypeOK
  <2>2. /\ acked' = acked \cup told /\ nacked' = (nacked \cup covered) \ told
        /\ acks' = Tail(acks) /\ acks # <<>>
        /\ msState' = IF a.final THEN "done" ELSE msState
        /\ \/ \E answered \in BOOLEAN :
                queue' = Append(queue, [type |-> "outcome", tag |-> a.tag, ack |-> answered])
           \/ queue' = queue
    BY <1>6 DEF MSHearsAck
  <2> HIDE DEF covered, told
  <2>3. acked' \in SUBSET Nat /\ nacked' \in SUBSET Nat
    BY <2>1, <2>2 DEF RcvTypeOK
  <2>4. a \in AckNack /\ acks' \in Seq(AckNack)
    BY <2>2, SeqFacts
  <2>5. a.tag \in BOOLEAN
    BY <2>4 DEF AckNack
  <2>6. queue' \in Seq(Message)
    BY <2>2, <2>5, SeqFacts, MessageIn DEF RcvTypeOK
  <2>7. msState' \in {"idle", "asked", "sending", "done", "gone"}
    BY <2>2 DEF RcvTypeOK
  <2>8. PduHeld'
    BY <1>6 DEF MSHearsAck, PduHeld
  <2> QED
    BY <1>6, <2>3, <2>4, <2>6, <2>7, <2>8 DEF MSHearsAck, RcvTypeOK
<1>7. CASE AckLost
  <2>1. Head(acks) \in AckNack /\ acks' \in Seq(AckNack)
    BY <1>7, SeqFacts DEF AckLost
  <2>2. Head(acks).tag \in BOOLEAN
    BY <2>1 DEF AckNack
  <2>3. queue' \in Seq(Message)
    BY <1>7, <2>2, SeqFacts, MessageIn DEF AckLost, RcvTypeOK
  <2>4. PduHeld'
    BY <1>7 DEF AckLost, PduHeld
  <2> QED
    BY <1>7, <2>1, <2>3, <2>4 DEF AckLost, RcvTypeOK
<1>8. CASE MSLeaves
  BY <1>8 DEF MSLeaves, RcvTypeOK, PduHeld
<1>9. ASSUME NEW t \in Timer, TimerExpiry(t) PROVE LinkOK'
  <2>1. queue' \in Seq(Message) /\ timer' \in [Timer -> BOOLEAN]
    BY <1>9, SeqFacts, MessageIn DEF TimerExpiry, RcvTypeOK
  <2>2. PduHeld'
    BY <1>9 DEF TimerExpiry, PduHeld
  <2> QED
    BY <1>9, <2>1, <2>2 DEF TimerExpiry, RcvTypeOK
<1> QED
  BY <1>1, <1>2, <1>3, <1>4, <1>5, <1>6, <1>7, <1>8, <1>9

\* A dropped block changes nothing of the link.
LEMMA DropKeeps ==
  ASSUME LinkOK, queue # <<>>, DropDataBlock
  PROVE  LinkOK'
<1> USE DEF LinkOK, DropDataBlock, windowVars, blockVars, pduVars, counterVars, msVars
<1>1. queue' \in Seq(Message)
  BY TakenKind
<1>2. PduHeld'
  BY DEF PduHeld
<1> QED
  BY <1>1, <1>2 DEF RcvTypeOK

\* Every behaviour starts with a free object.
LEMMA InitOK == Init => LinkOK
<1> SUFFICES ASSUME Init PROVE LinkOK
  OBVIOUS
<1> USE DEF Init
<1>1. PduHeld
  BY DEF PduHeld
<1>2. /\ vR \in BSN /\ vQ \in BSN /\ firstDataBlock \in 0 .. RLC_MOD_VAL
      /\ vN \in [BSN -> {"RECEIVED", "INVALID"}]
      /\ pUlBlocks \in [BSN -> HeldBlock \cup {Null}]
      /\ currDataBlock \in 0 .. RLC_MOD_VAL
  BY WindowAssumption DEF BSN
<1>3. free \in Nat /\ numRLCBlocksSinceLastAck \in 1 .. BlocksBetweenAcks
  BY ULAssumption
<1>4. queue \in Seq(Message) /\ acks \in Seq(AckNack)
  OBVIOUS
<1> QED
  BY <1>1, <1>2, <1>3, <1>4 DEF LinkOK, RcvTypeOK, TbfState

\* The invariant is inductive.
LEMMA StepOK == LinkOK /\ [Next]_vars => LinkOK'
<1> SUFFICES ASSUME LinkOK, [Next]_vars PROVE LinkOK'
  OBVIOUS
<1>1. CASE HandleMessage
  BY <1>1, ReceiveKeeps, DropKeeps, OutcomeKeeps, ExpiryKeeps, EstablishKeeps DEF HandleMessage
<1>2. CASE ReassembleULPDU
  BY <1>2, ReassembleKeeps
<1>3. CASE UNCHANGED vars
  BY <1>3 DEF vars, LinkOK, RcvTypeOK, PduHeld, windowVars, blockVars, pduVars, counterVars,
              msVars
<1> QED
  BY <1>1, <1>2, <1>3, OthersKeep DEF Next

\* For every sequence number space, window, pool and retry limit, and whatever the
\* MS sends, every index of the receive window stays in its array or is one of the
\* two that the source fails to wrap, and every message is well formed.
THEOREM RcvTypeCorrect == Spec => []RcvTypeOK
<1>1. Init => LinkOK
  BY InitOK
<1>2. LinkOK /\ [Next]_vars => LinkOK'
  BY StepOK
<1>3. LinkOK => RcvTypeOK
  BY DEF LinkOK
<1> QED
  BY <1>1, <1>2, <1>3, PTL DEF Spec

------------------------------------------------------------------------------
(* The pool of blocks.                                                      *)

\* Counting the blocks held at the indices of BSN.
LEMMA HeldCount ==
  ASSUME NEW S \in SUBSET BSN
  PROVE  /\ Cardinality(S) \in Nat /\ (S = {} => Cardinality(S) = 0)
         /\ \A b \in BSN : b \notin S => Cardinality(S \cup {b}) = Cardinality(S) + 1
         /\ \A R \in SUBSET BSN : /\ Cardinality(R \cap S) \in Nat
                                  /\ Cardinality(S \ R) = Cardinality(S) - Cardinality(R \cap S)
<1>1. IsFiniteSet(S) /\ Cardinality(S) \in Nat
  BY BlocksFinite
<1>2. Cardinality({}) = 0
  BY FS_EmptySet
<1>3. \A b \in BSN : b \notin S => Cardinality(S \cup {b}) = Cardinality(S) + 1
  BY <1>1, FS_AddElement
<1>4. ASSUME NEW R \in SUBSET BSN
      PROVE  /\ Cardinality(R \cap S) \in Nat
             /\ Cardinality(S \ R) = Cardinality(S) - Cardinality(R \cap S)
  <2>1. IsFiniteSet(R) /\ R \cap S = S \cap R /\ R \cap S \in SUBSET BSN
    BY BlocksFinite
  <2>2. Cardinality(S \ R) = Cardinality(S) - Cardinality(S \cap R)
    BY <1>1, <2>1, FS_Difference
  <2> QED
    BY <2>1, <2>2, BlocksFinite
<1> QED
  BY <1>1, <1>2, <1>3, <1>4

\* The blocks that are free and those that the TBF holds.
PoolSum == free + Cardinality(Held)

\* A block that is stored comes from the pool, one for one.
LEMMA PoolAfterAccept ==
  ASSUME LinkOK, free > 0, NEW n \in Nat, NEW r, NEW q, NEW vn,
         AcceptULDataBlock(n, r, q, vn)
  PROVE  PoolSum' = PoolSum
<1> DEFINE b == Bsn(n)
<1>1. b \in BSN
  BY ModType DEF Bsn
<1>2. [n |-> n, cur |-> 0] # Null
  BY ULAssumption
<1>3. free \in Nat /\ pUlBlocks \in [BSN -> HeldBlock \cup {Null}] /\ PoolSize \in Nat
  BY ULAssumption DEF LinkOK, RcvTypeOK
<1>4. /\ pUlBlocks' = IF pUlBlocks[b] = Null
                      THEN [pUlBlocks EXCEPT ![b] = [n |-> n, cur |-> 0]] ELSE pUlBlocks
      /\ free' = IF pUlBlocks[b] = Null THEN free - 1 ELSE free
  BY DEF AcceptULDataBlock
<1>5. Held \in SUBSET BSN /\ Cardinality(Held) \in Nat
  BY HeldCount DEF Held
<1> HIDE DEF b
<1>6. CASE pUlBlocks[b] = Null
  <2>1. Held' = Held \cup {b} /\ b \notin Held
    BY <1>1, <1>2, <1>3, <1>4, <1>6 DEF Held
  <2>2. Cardinality(Held') = Cardinality(Held) + 1
    BY <1>1, <1>5, <2>1, HeldCount
  <2> QED
    BY <1>3, <1>4, <1>5, <1>6, <2>2 DEF PoolSum
<1>7. CASE pUlBlocks[b] # Null
  BY <1>4, <1>7 DEF PoolSum, Held
<1> QED
  BY <1>6, <1>7

\* ReleaseULTbf returns exactly the blocks that are held.
LEMMA PoolAfterRelease ==
  ASSUME LinkOK, ReleaseULTbf
  PROVE  PoolSum' = PoolSum
<1>1. Returned(BSN) = Held
  BY DEF Returned, Held
<1>2. Held' = {} /\ free' = free + Cardinality(Held)
  BY <1>1 DEF ReleaseULTbf, Held
<1>3. Cardinality(Held') = 0
  BY <1>2, FS_EmptySet
<1>4. Cardinality(Held) \in Nat /\ free \in Nat /\ PoolSize \in Nat
  BY HeldCount, ULAssumption DEF Held, LinkOK, RcvTypeOK
<1> QED
  BY <1>2, <1>3, <1>4 DEF PoolSum

\* ReleaseDataBlocks returns the held ones of the indices it visits.
LEMMA PoolAfterReassembly ==
  ASSUME LinkOK, ReassembleULPDU
  PROVE  PoolSum' = PoolSum
<1> DEFINE l == lastDataBlock
           h == pUlBlocks[l]
           p1(kept) == IF kept = "next_octet" THEN [pUlBlocks EXCEPT ![l].cur = h.cur + 1]
                       ELSE pUlBlocks
           c(kept) == IF kept = "next_block" THEN l + 1 ELSE l
           released(kept) == ReleasedIndices(firstDataBlock, c(kept))
<1>1. PICK kept \in Kept :
        /\ pUlBlocks' = [i \in BSN |-> IF i \in released(kept) THEN Null ELSE p1(kept)[i]]
        /\ free' = free + Cardinality(Returned(released(kept)))
  BY DEF ReassembleULPDU
<1>2. pUlBlocks \in [BSN -> HeldBlock \cup {Null}] /\ l \in BSN /\ h \in HeldBlock
  <2>1. reassembling /\ l # LAST_BLOCK_UNKNOWN /\ h # Null
    BY DEF LinkOK, PduHeld, ReassembleULPDU
  <2>2. l \in BSN \cup {LAST_BLOCK_UNKNOWN} /\ pUlBlocks \in [BSN -> HeldBlock \cup {Null}]
    BY DEF LinkOK, RcvTypeOK
  <2> QED
    BY <2>1, <2>2
<1>3. \A i \in BSN : p1(kept)[i] = Null <=> pUlBlocks[i] = Null
  <2>1. CASE kept = "next_octet"
    <3>1. [h EXCEPT !.cur = h.cur + 1] \in HeldBlock
      BY <1>2 DEF HeldBlock
    <3>2. Null \notin HeldBlock
      BY ULAssumption DEF HeldBlock
    <3>3. p1(kept) = [i \in BSN |-> IF i = l THEN [h EXCEPT !.cur = h.cur + 1] ELSE pUlBlocks[i]]
      BY <1>2, <2>1
    <3> HIDE DEF p1
    <3> QED
      BY <1>2, <3>1, <3>2, <3>3
  <2>2. CASE kept # "next_octet"
    BY <2>2
  <2> QED
    BY <2>1, <2>2
<1>4. released(kept) \in SUBSET BSN
  BY DEF ReleasedIndices
<1> HIDE DEF p1, released
<1>5. Held' = Held \ released(kept)
  BY <1>1, <1>3 DEF Held
<1>6. Returned(released(kept)) = released(kept) \cap Held
  BY DEF Returned
<1>7. Held \in SUBSET BSN
  BY DEF Held
<1>8. /\ Cardinality(Held) \in Nat /\ Cardinality(released(kept) \cap Held) \in Nat
      /\ Cardinality(Held \ released(kept))
           = Cardinality(Held) - Cardinality(released(kept) \cap Held)
  BY <1>4, <1>7, HeldCount
<1>9. free \in Nat /\ PoolSize \in Nat
  BY ULAssumption DEF LinkOK, RcvTypeOK
<1> QED
  BY <1>1, <1>5, <1>6, <1>8, <1>9 DEF PoolSum

\* A new TBF forgets what the object still held: blocks are lost, none is made.
LEMMA PoolAfterEstablish ==
  ASSUME LinkOK, EstablishULTbf
  PROVE  PoolSum' <= PoolSum /\ (Held = {} => PoolSum' = PoolSum)
<1>1. Held' = {} /\ free' = free
  BY DEF EstablishULTbf, Held
<1>2. Cardinality(Held') = 0
  BY <1>1, FS_EmptySet
<1>3. Cardinality(Held) \in Nat /\ free \in Nat /\ PoolSize \in Nat
  BY HeldCount, ULAssumption DEF Held, LinkOK, RcvTypeOK
<1>4. Held = {} => Cardinality(Held) = 0
  BY FS_EmptySet
<1> QED
  BY <1>1, <1>2, <1>3, <1>4 DEF PoolSum

\* No step but the establishment of a TBF changes the sum of the free and the held.
LEMMA PoolStep ==
  ASSUME LinkOK, [Next]_vars
  PROVE  PoolSum' = PoolSum \/ (Idle /\ queue # <<>> /\ EstablishULTbf)
<1>1. ASSUME UNCHANGED <<pUlBlocks, free>> PROVE PoolSum' = PoolSum
  BY <1>1 DEF PoolSum, Held
<1>2. CASE queue # <<>> /\ ReceiveULDataBlock
  <2>1. CASE RejectULDataBlock
    BY <1>1, <2>1 DEF RejectULDataBlock
  <2>2. CASE \E r, q, vn : AcceptULDataBlock(Taken.n, r, q, vn)
    <3>1. Taken.n \in Nat /\ free > 0
      BY <1>2, TakenKind DEF ReceiveULDataBlock, LinkOK
    <3> QED
      BY <2>2, <3>1, PoolAfterAccept
  <2> QED
    BY <1>2, <2>1, <2>2 DEF ReceiveULDataBlock
<1>3. CASE ReceiveOutcome
  <2>1. CASE ReceivePacketControlAck
    BY <2>1, PoolAfterRelease DEF ReceivePacketControlAck
  <2>2. CASE ReceivePacketControlNack
    BY <1>1, <2>2 DEF ReceivePacketControlNack
  <2>3. CASE IgnoreOutcome
    BY <1>1, <2>3 DEF IgnoreOutcome
  <2> QED
    BY <1>3, <2>1, <2>2, <2>3 DEF ReceiveOutcome
<1>4. ASSUME NEW t \in Timer, ProcessExpiry(t) PROVE PoolSum' = PoolSum
  BY <1>1, <1>4, PoolAfterRelease DEF ProcessExpiry
<1>5. CASE DropDataBlock
  BY <1>1, <1>5 DEF DropDataBlock, blockVars
<1>6. CASE HandleMessage
  BY <1>2, <1>3, <1>4, <1>5, <1>6 DEF HandleMessage
<1>7. CASE ReassembleULPDU
  BY <1>7, PoolAfterReassembly
<1>8. CASE \/ IncrementN3101 \/ AbnormalRelease \/ MSRequest \/ MSSend \/ USFUnused
           \/ MSHearsAck \/ AckLost \/ MSLeaves \/ \E t \in Timer : TimerExpiry(t)
  BY <1>1, <1>8 DEF IncrementN3101, AbnormalRelease, MSRequest, MSSend, USFUnused, MSHearsAck,
     AckLost, MSLeaves, TimerExpiry, blockVars
<1>9. CASE UNCHANGED vars
  BY <1>1, <1>9 DEF vars, blockVars
<1> QED
  BY <1>6, <1>7, <1>8, <1>9 DEF Next

\* For every value of the constants no block of the uplink pool is returned twice:
\* ReceiveULDataBlock, ScanDataBlocks, ReleaseDataBlocks and the releases of the TBF
\* never make the pool larger than it was, also across the wrap of the sequence
\* numbers, where ReleaseDataBlocks counts modulo RLC_MOD_VAL + 1.
THEOREM RcvPoolCorrect == Spec => []PoolNotOverfull
<1>1. Init => LinkOK /\ PoolNotOverfull
  <2>1. ASSUME Init PROVE PoolNotOverfull
    <3>1. Held = {} /\ free = PoolSize /\ PoolSize \in Nat
      BY <2>1, ULAssumption DEF Init, Held
    <3>2. Cardinality(Held) = 0
      BY <3>1, FS_EmptySet
    <3> QED
      BY <3>1, <3>2 DEF PoolNotOverfull
  <2> QED
    BY <2>1, InitOK
<1>2. LinkOK /\ PoolNotOverfull /\ [Next]_vars => LinkOK' /\ PoolNotOverfull'
  <2> SUFFICES ASSUME LinkOK, PoolNotOverfull, [Next]_vars PROVE PoolNotOverfull'
    BY StepOK
  <2>1. PoolSum' <= PoolSum
    <3>1. PoolSum \in Int
      BY HeldCount DEF PoolSum, Held, LinkOK, RcvTypeOK
    <3> QED
      BY <3>1, PoolStep, PoolAfterEstablish
  <2>2. PoolSum \in Int /\ PoolSum' \in Int /\ PoolSize \in Int
    <3>1. LinkOK'
      BY StepOK
    <3>2. free \in Nat /\ free' \in Nat
      BY <3>1 DEF LinkOK, RcvTypeOK
    <3>3. Cardinality(Held) \in Nat /\ Cardinality(Held') \in Nat
      BY HeldCount DEF Held
    <3> QED
      BY <3>2, <3>3, ULAssumption DEF PoolSum
  <2> QED
    BY <2>1, <2>2 DEF PoolNotOverfull, PoolSum
<1> QED
  BY <1>1, <1>2, PTL DEF Spec
==============================================================================
