------------------------------ MODULE ULRlcLink ------------------------------
(***************************************************************************)
(* One uplink TBF and its RLC link (classes ULTbf and ULRlcLink): receive  *)
(* window, acknowledgements, reassembly of LLC PDUs and release, with the  *)
(* handlers of the RLC/MAC task that drive them.  The MS that sends, the   *)
(* radio and the DSP are external.                                         *)
(*                                                                         *)
(* A handler that goes on to reassemble PDUs is finished by the steps of   *)
(* ReassembleULPDU, one for each PDU; no other message is handled between. *)
(***************************************************************************)
EXTENDS RlcWindow, Sequences, FiniteSets

CONSTANTS
    Layouts,        \* what the MS may send in a TBF: sequences of block layouts
    Null,           \* the null pointer
    RlcMode,        \* the RLC modes the MS may ask for
    BlocksBetweenAcks,      \* MAX_RLC_BLOCKS_BETWEEN_ACKS
    FirstBlkBuffer,         \* n3101FirstBlkBuffer of a new TBF (4 per timeslot)
    N3101_MAX,
    N3103_MAX,
    PoolSize,       \* blocks of sysUlDataBlockPool
    \* Bounds of the model.
    MaxTbfs,        \* TBFs the MS asks for in a behaviour
    MaxMsgs,        \* data blocks and acknowledgements under way at once
    StaleRequest,   \* whether the MS may ask for a TBF while it has one
    OamLock         \* whether OAM may lock the resources of the TBF

\* Block n of a TBF ends "ends" PDUs with a length octet, and the PDU after the
\* last of them starts in it if "more".  A block without length octet holds one
\* piece of a PDU.  The last block (CV=0) ends the PDU it holds in any case.  (A
\* length octet of 0 makes a block be read like one without length octet.)
BlockLayout == [ends : Nat, more : BOOLEAN]

ASSUME ULAssumption ==
    /\ Layouts \subseteq Seq(BlockLayout) \ {<<>>}
    /\ Null \notin [n : Nat, cur : Nat]
    /\ RlcMode \subseteq {"ACK", "UNACK"}
    /\ BlocksBetweenAcks \in Nat \ {0}
    /\ {FirstBlkBuffer, N3101_MAX, N3103_MAX, PoolSize, MaxTbfs, MaxMsgs} \subseteq Nat
    /\ StaleRequest \in BOOLEAN /\ OamLock \in BOOLEAN

VARIABLES
    \* class ULTbf
    tbfState,
    \* class ULRlcLink
    rlcMode, vR, vQ, vN, pUlBlocks, firstDataBlock, lastDataBlock,
    numRLCBlocksSinceLastAck, endOfTBF, n3101, n3101FirstBlkBuffer, n3103,
    timer,          \* which of the JCCTimers are running
    free,           \* number of free blocks of sysUlDataBlockPool
    \* ReassembleULPDU
    reassembling,   \* it is to reassemble one more PDU
    currDataBlock,  \* its local variable: where the PDU starts
    buf,            \* what is between pduBuf and pPduBuf
    delivered,      \* the PDUs of this TBF sent to BSSGP
    \* the RLC/MAC task
    queue,          \* its messages, oldest first
    fault,          \* an array was overrun, a loop does not end: no further step
    \* DSP, radio and MS
    grant,          \* a USF of the MS is on its way
    acks,           \* PACKET UPLINK ACK/NACK messages on their way, oldest first
    lay,            \* the layout of the blocks of the MS
    msVS,           \* V(S) of the MS, not wrapped: it has sent blocks 0 .. msVS-1
    acked, nacked,  \* its V(B): the other blocks are PENDING_ACK
    msState,
    tbfs,           \* TBFs asked for so far
    got             \* the blocks of this TBF that the link has accepted

LAST_BLOCK_UNKNOWN == -1

TbfState == {"FREE", "ALLOCATED", "INACTIVE"}
Timer == {"T3169", "Activity"}

windowVars == <<rlcMode, vR, vQ, vN, endOfTBF, numRLCBlocksSinceLastAck, got>>
blockVars == <<pUlBlocks, firstDataBlock, lastDataBlock, free>>
pduVars == <<reassembling, currDataBlock, buf, delivered, fault>>
counterVars == <<n3101, n3101FirstBlkBuffer, n3103>>
msVars == <<lay, msVS, acked, nacked, msState, tbfs>>
vars == <<tbfState, windowVars, blockVars, pduVars, counterVars, timer, queue,
          grant, acks, msVars>>
------------------------------------------------------------------------------
(* Messages, and what the source computes.                                  *)

\* A block in a message, and a block in pUlBlocks: cur is its current length
\* octet, which is also the number of pieces read from it.
HeldBlock == [n : Nat, cur : Nat]

DataMessage == [type : {"data"}, n : Nat]
OutcomeMessage == [type : {"outcome"}, tag : BOOLEAN, ack : BOOLEAN]
ExpiryMessage == [type : {"expiry"}, timer : Timer]
RequestMessage == [type : {"request"}]
Message == DataMessage \cup OutcomeMessage \cup ExpiryMessage \cup RequestMessage

\* PACKET UPLINK ACK/NACK.  polled: RRBP is valid, and the MS is to answer.  tag:
\* the TBF holds the control ack tag of this poll.
AckNack == [final : BOOLEAN, ssn : 0 .. RLC_MOD_VAL, rrb : SUBSET BSN, polled : BOOLEAN,
            tag : BOOLEAN]

Bsn(n) == n % RLC_MOD_VAL
Layout(n) == lay[n + 1]
IsLast(n) == n = Len(lay) - 1       \* its countdown value is 0

Taken == Head(queue)
Others == Tail(queue)
Idle == ~reassembling

\* The timers in on are started, those in off (and not in on) are cancelled.
Restarted(on, off) == [t \in Timer |-> t \in on \/ (timer[t] /\ t \notin off)]

Held == {i \in BSN : pUlBlocks[i] # Null}

\* SetControlAckTag, ClearControlAckTag: outcomes of earlier polls find no TBF.
UntaggedAcks(ks) == [i \in DOMAIN ks |-> [ks[i] EXCEPT !.tag = FALSE]]
UntaggedQueue(q) ==
    [i \in DOMAIN q |-> IF q[i].type = "outcome" THEN [q[i] EXCEPT !.tag = FALSE] ELSE q[i]]

\* UpdateRcvStateVariables, acknowledged mode: the test for the window.
InWindow(b) == LET rcvDiff == vQ - b
               IN (IF rcvDiff > 0 THEN RLC_MOD_VAL - rcvDiff ELSE rcvDiff) < K

\* V(R) moves with block b.
MovesVR(b) == vR <= b \/ vQ > b

\* V(N) after V(R) has moved to r and block b has been marked.
NewVNEager(b, r) ==
    [i \in BSN |-> IF i = b THEN "RECEIVED"
                   ELSE IF \E t \in Span(vR, r) : i = Plus(t, K + 2) THEN "INVALID" ELSE vN[i]]
NewVNFilled(b, r) == [i \in BSN |-> IF i \in {b} \cup Span(vR, r) THEN "RECEIVED" ELSE vN[i]]
NewVN(b, r) ==
    [i \in BSN |-> IF i = b THEN "RECEIVED"
                   ELSE IF \E t \in Span(vR, r) : i = Plus(t, K + 1) THEN "INVALID"
                   ELSE vN[i]]

\* V(Q) moves from the start of the window to the next block not received.
NewVQIsVR(b, r, vn) == IF b = vQ THEN r ELSE vQ
NewVQ(b, r, vn) ==
    IF b = vQ /\ vQ # r THEN FirstFrom(Inc(vQ), {i \in BSN : i = r \/ vn[i] = "INVALID"})
    ELSE vQ

\* V(Q) in unacknowledged mode.
NewVQUnackNegative(r) == IF Dist(vQ, r) > K THEN r - K ELSE vQ
NewVQUnack(r) ==
    IF r >= vQ THEN IF (r - vQ) % RLC_MOD_VAL > K THEN r - K ELSE vQ
    ELSE IF r + RLC_MOD_VAL - vQ > K THEN (RLC_MOD_VAL - (K - r)) % RLC_MOD_VAL ELSE vQ

\* IsPDUAssemblyNeeded: held block h is the last of a PDU.
EndsPdu(h) == IsLast(h.n) \/ h.cur < Layout(h.n).ends

\* All blocks up to last have been received.
AssemblyAlways(last, q) == q = q
AssemblyNeeded(last, q) == rlcMode = "ACK" => Dist(last, q) < K

\* Held blocks that a release returns to the pool.
ReturnedUnchecked(S) == S
Returned(S) == S \cap Held

\* The indices the loop of ReleaseDataBlocks visits, which counts modulo
\* RLC_MOD_VAL + 1, those outside the array excepted.
ReleasedIndices(first, end) ==
    LET D(i) == IF first <= i THEN i - first ELSE i - first + RLC_MOD_VAL + 1
    IN {i \in BSN : D(i) < D(end)}
------------------------------------------------------------------------------
(* Acknowledgements.                                                        *)

\* SendULAckNack with V(R) = r, V(Q) = q, V(N) = vn and endOfTBF = e.  With the
\* final bit set the TBF becomes INACTIVE and the MS is polled.  qu is the queue of
\* the task.  SetAckNackDescription refuses V(R) = RLC_MOD_VAL (unacknowledged
\* mode) and leaves the bit uninitialized.
SendULAckNack(r, q, vn, e, qu) ==
    LET final == e /\ (rlcMode = "ACK" => r = q)
        rrb == {i \in BSN : Dist(i, r % RLC_MOD_VAL) \in 1 .. K /\ vn[i] = "RECEIVED"}
    IN /\ \E bit \in IF r \in BSN THEN {final} ELSE BOOLEAN :
            acks' = Append(IF final THEN UntaggedAcks(acks) ELSE acks,
                           [final |-> bit, ssn |-> r, rrb |-> rrb, polled |-> final, tag |-> final])
       /\ queue' = IF final THEN UntaggedQueue(qu) ELSE qu
       /\ tbfState' = IF final THEN "INACTIVE" ELSE tbfState
       /\ numRLCBlocksSinceLastAck' = BlocksBetweenAcks

\* The rest of ReceiveULDataBlock for an accepted block n, with the new V(R), V(Q)
\* and V(N).  The third condition for an acknowledgement is "(endOfTBF == TRUE) &&
\* (vQ = vR)": an assignment.
AcceptULDataBlock(n, r, q, vn) ==
    LET b == Bsn(n)
        periodic == numRLCBlocksSinceLastAck = 1
        assigned == ~periodic /\ ~IsLast(n) /\ endOfTBF
        q2 == IF assigned THEN r ELSE q
        e == endOfTBF \/ IsLast(n)
        last == IF lastDataBlock = LAST_BLOCK_UNKNOWN /\ EndsPdu([n |-> n, cur |-> 0])
                THEN b ELSE lastDataBlock
    IN /\ vR' = r /\ vQ' = q2 /\ vN' = vn /\ endOfTBF' = e
       /\ got' = got \cup {n}
       /\ pUlBlocks' = IF pUlBlocks[b] = Null
                       THEN [pUlBlocks EXCEPT ![b] = [n |-> n, cur |-> 0]] ELSE pUlBlocks
       /\ free' = IF pUlBlocks[b] = Null THEN free - 1 ELSE free
       /\ IF periodic \/ IsLast(n) \/ (assigned /\ r # 0)
          THEN SendULAckNack(r, q2, vn, e, Others)
          ELSE /\ queue' = Others
               /\ numRLCBlocksSinceLastAck' = numRLCBlocksSinceLastAck - 1
               /\ UNCHANGED <<acks, tbfState>>
       /\ lastDataBlock' = last
       /\ reassembling' = (last # LAST_BLOCK_UNKNOWN /\ AssemblyNeeded(last, q2))
       /\ currDataBlock' = firstDataBlock /\ buf' = <<>>

\* A block outside the window, or received before, goes back to the pool.
RejectULDataBlock ==
    /\ queue' = Others
    /\ UNCHANGED <<tbfState, vR, vQ, vN, endOfTBF, numRLCBlocksSinceLastAck, got, pUlBlocks,
                   lastDataBlock, free, reassembling, currDataBlock, buf, acks>>

\* PH_PDTCH_IND: a data block for this TBF.
ReceiveULDataBlock ==
    /\ Taken.type = "data"
    /\ tbfState # "FREE" /\ free > 0
    /\ n3101' = 0 /\ n3101FirstBlkBuffer' = 0
    /\ timer' = Restarted({"Activity"}, {})
    /\ LET n == Taken.n
           b == Bsn(n)
       IN \/ /\ rlcMode = "ACK" /\ InWindow(b)
             /\ LET r == IF MovesVR(b) THEN Inc(b) ELSE vR
                    vn == NewVN(b, r)
                IN AcceptULDataBlock(n, r, NewVQ(b, r, vn), vn)
          \/ /\ rlcMode = "UNACK" /\ vR # b + 1     \* "BSN + 1 % RLC_MOD_VAL"
             /\ AcceptULDataBlock(n, b + 1, NewVQUnack(b + 1), vN)
          \/ /\ IF rlcMode = "ACK" THEN ~InWindow(b) ELSE vR = b + 1
             /\ RejectULDataBlock
    /\ UNCHANGED <<rlcMode, firstDataBlock, n3103, delivered, fault, grant, msVars>>

\* A data block for which there is no TBF, or no block in the pool.
DropDataBlock ==
    /\ Taken.type = "data"
    /\ tbfState = "FREE" \/ free = 0
    /\ queue' = Others
    /\ UNCHANGED <<tbfState, windowVars, blockVars, pduVars, counterVars, timer, grant,
                   acks, msVars>>
------------------------------------------------------------------------------
(* Reassembly.                                                              *)

\* What the PDU gets from index i: one piece of the block, or fill.
Fill == <<>>
PieceAt(i) == IF pUlBlocks[i] = Null THEN Fill ELSE <<pUlBlocks[i].n, pUlBlocks[i].cur>>
PduRead ==
    [j \in 1 .. Dist(currDataBlock, lastDataBlock) + 1 |-> PieceAt(Plus(currDataBlock, j - 1))]

\* What ScanDataBlocks does with the block the PDU ends in: it stays, with its
\* next length octet (M=1), or the next block is the first of the next PDU.  The
\* bits of the octet after the last one (its length is INVALID_LENGTH_VAL) are
\* what an earlier use of the object has left there; M=0 with E=0 leaves all as
\* it is.
Kept == {"next_octet", "next_block", "same"}
KeptOf(h) ==
    LET ends == Layout(h.n).ends
    IN IF ends = 0 THEN {"next_block"}
       ELSE IF h.cur >= ends THEN Kept
       ELSE IF h.cur < ends - 1 \/ Layout(h.n).more THEN {"next_octet"}
       ELSE {"next_block"}

\* The scan from index c to V(R) over the blocks p: the first block that ends a
\* PDU, if there is one.
ScanEnds(c, p) ==
    {i \in IF vR \in BSN THEN Span(c, vR) ELSE BSN : p[i] # Null /\ EndsPdu(p[i])}

\* One PDU: it is read, sent to BSSGP, and ScanDataBlocks looks for the next.  It
\* gets currDataBlock by value, so the next PDU is read from the block in which
\* this one ended, released or not.  Its own
\* "++currDataBlock % RLC_MOD_VAL" does not wrap, so the first block of the next
\* PDU may have the index RLC_MOD_VAL: unless that is V(R), the scan reads beyond
\* the array, and if it is, the next reassembly does.  V(R) = RLC_MOD_VAL (unacknowledged mode) ends no scan that starts
\* within the array, and with a stale length octet it may not end either.
ReassembleULPDU ==
    /\ reassembling
    /\ \E kept \in Kept :
        LET l == lastDataBlock
            h == pUlBlocks[l]
            p1 == IF kept = "next_octet" THEN [pUlBlocks EXCEPT ![l].cur = h.cur + 1]
                  ELSE pUlBlocks
            c == IF kept = "next_block" THEN l + 1 ELSE l
            released == ReleasedIndices(firstDataBlock, c)
            p2 == [i \in BSN |-> IF i \in released THEN Null ELSE p1[i]]
            ends == ScanEnds(c, p2)
            found == c # vR /\ ends # {}
            next == FirstFrom(c, ends)
        IN /\ kept \in KeptOf(h)
           /\ buf' = buf \o PduRead
           /\ delivered' = Append(delivered, buf')
           /\ pUlBlocks' = p2
           /\ free' = free + Cardinality(Returned(released))
           /\ firstDataBlock' = c
           /\ currDataBlock' = l
           /\ fault' = \/ currDataBlock = RLC_MOD_VAL
                       \/ c = RLC_MOD_VAL /\ vR # RLC_MOD_VAL
                       \/ c # RLC_MOD_VAL /\ vR = RLC_MOD_VAL /\ ~found
                       \/ h.cur > Layout(h.n).ends \/ kept = "same"
           /\ lastDataBlock' = IF found /\ ~fault' THEN next ELSE LAST_BLOCK_UNKNOWN
           /\ reassembling' = (found /\ ~fault' /\ AssemblyNeeded(next, vQ))
    /\ UNCHANGED <<tbfState, windowVars, counterVars, timer, queue, grant, acks, msVars>>

------------------------------------------------------------------------------
(* Release.                                                                 *)

\* ReleaseDataBlocks(0, RLC_MOD_VAL) and ReleaseULTbf.
ReleaseULTbf ==
    /\ tbfState' = "FREE"
    /\ pUlBlocks' = [i \in BSN |-> Null]
    /\ free' = free + Cardinality(Returned(BSN))

\* PACKET CONTROL ACKNOWLEDGEMENT in answer to the final PACKET UPLINK ACK/NACK.
ReceivePacketControlAck ==
    /\ Taken.ack /\ Taken.tag /\ tbfState # "FREE"
    /\ queue' = Others
    /\ timer' = Restarted({}, Timer)
    /\ ReleaseULTbf
    /\ UNCHANGED <<numRLCBlocksSinceLastAck, acks, n3103>>

\* It did not come: the message is sent again, N3103_MAX times, then T3169.
SameN3103 == n3103
NextN3103 == n3103 + 1
ReceivePacketControlNack ==
    /\ ~Taken.ack /\ Taken.tag /\ tbfState # "FREE"
    /\ n3103' = NextN3103
    /\ \/ /\ NextN3103 < N3103_MAX
          /\ SendULAckNack(vR, vQ, vN, endOfTBF, Others)
          /\ UNCHANGED timer
       \/ /\ NextN3103 >= N3103_MAX
          /\ timer' = Restarted({"T3169"}, {})
          /\ queue' = Others
          /\ UNCHANGED <<tbfState, acks, numRLCBlocksSinceLastAck>>
    /\ UNCHANGED <<pUlBlocks, free>>

\* No TBF has the tag.
IgnoreOutcome ==
    /\ ~Taken.tag \/ tbfState = "FREE"
    /\ queue' = Others
    /\ UNCHANGED <<tbfState, pUlBlocks, free, timer, numRLCBlocksSinceLastAck, acks, n3103>>

ReceiveOutcome ==
    /\ Taken.type = "outcome"
    /\ ReceivePacketControlAck \/ ReceivePacketControlNack \/ IgnoreOutcome
    /\ UNCHANGED <<rlcMode, vR, vQ, vN, endOfTBF, got, firstDataBlock, lastDataBlock, pduVars,
                   n3101, n3101FirstBlkBuffer, grant, msVars>>

\* ProcessT3169Expiry and ProcessActivityTimerExpiry.
ProcessExpiry(t) ==
    /\ Taken.type = "expiry" /\ Taken.timer = t
    /\ queue' = Others
    /\ \/ /\ tbfState # "FREE"
          /\ timer' = Restarted({}, IF t = "T3169" THEN Timer ELSE {})
          /\ ReleaseULTbf
       \/ /\ tbfState = "FREE"
          /\ UNCHANGED <<tbfState, pUlBlocks, free, timer>>
    /\ UNCHANGED <<windowVars, firstDataBlock, lastDataBlock, pduVars, counterVars, grant,
                   acks, msVars>>

\* IncrementN3101, when the scheduler gives the MS a USF.  It returns TRUE in
\* every case, so the USF is sent.
NoGuardTimer == {}
GuardTimer == {"T3169"}
IncrementN3101 ==
    /\ Idle /\ tbfState = "ALLOCATED"
    /\ ~grant /\ Len(queue) + Len(acks) < MaxMsgs
    /\ n3101' = n3101 + 1
    /\ grant' = TRUE
    /\ \/ /\ n3101 + 1 >= N3101_MAX + n3101FirstBlkBuffer
          /\ tbfState' = "INACTIVE"
          /\ timer' = Restarted(GuardTimer, {})
       \/ /\ n3101 + 1 < N3101_MAX + n3101FirstBlkBuffer
          /\ UNCHANGED <<tbfState, timer>>
    /\ UNCHANGED <<windowVars, blockVars, pduVars, n3101FirstBlkBuffer, n3103, queue, acks,
                   msVars>>

\* OAM locks the resources of the TBF.
AbnormalRelease ==
    /\ OamLock /\ Idle /\ tbfState # "FREE"
    /\ tbfState' = "INACTIVE"
    /\ timer' = Restarted({"T3169"}, {})
    /\ UNCHANGED <<windowVars, blockVars, pduVars, counterVars, queue, grant, acks, msVars>>
------------------------------------------------------------------------------
(* AllocateULResources.                                                     *)

\* A request with a TLLI.  A TBF that the MS still has is stale: it is released
\* (ReleaseULTbf alone: its blocks and timers stay).  A new one is established and
\* is released again when the scheduler has no resources.  Neither cancels T3169.
EstablishULTbf ==
    /\ Taken.type = "request"
    /\ queue' = UntaggedQueue(Others)
    /\ tbfState' \in {"ALLOCATED", "FREE"}
    /\ rlcMode' \in RlcMode
    /\ vR' = 0 /\ vQ' = 0 /\ vN' = [i \in BSN |-> "INVALID"]
    /\ pUlBlocks' = [i \in BSN |-> Null]
    /\ firstDataBlock' = 0 /\ lastDataBlock' = LAST_BLOCK_UNKNOWN
    /\ numRLCBlocksSinceLastAck' = BlocksBetweenAcks
    /\ endOfTBF' = FALSE
    /\ n3103' = 0 /\ n3101' = 0
    /\ n3101FirstBlkBuffer' = IF tbfState' = "ALLOCATED" THEN FirstBlkBuffer
                              ELSE n3101FirstBlkBuffer
    /\ timer' = Restarted({"Activity"}, {})
    /\ got' = {} /\ delivered' = <<>> /\ acks' = <<>>
    /\ lay' \in Layouts
    /\ msVS' = 0 /\ acked' = {} /\ nacked' = {}
    /\ msState' = IF msState = "gone" THEN "gone"
                  ELSE IF tbfState' = "ALLOCATED" THEN "sending" ELSE "idle"
    /\ UNCHANGED <<free, reassembling, currDataBlock, buf, fault, grant, tbfs>>
------------------------------------------------------------------------------
(* The MS and the DSP (external).                                           *)

\* The MS asks for a TBF: when it has none and none is about to be released, or
\* when it has given up one that the network still has.
Releasing == \E i \in DOMAIN queue : queue[i] = [type |-> "outcome", tag |-> TRUE, ack |-> TRUE]
MSRequest ==
    /\ tbfs < MaxTbfs
    /\ \/ msState \in {"idle", "done"} /\ (tbfState = "FREE" \/ Releasing)
       \/ StaleRequest /\ msState \in {"done", "sending"}
    /\ msState' = "asked"
    /\ tbfs' = tbfs + 1
    /\ queue' = Append(queue, [type |-> "request"])
    /\ UNCHANGED <<tbfState, windowVars, blockVars, pduVars, counterVars, timer, grant, acks,
                   lay, msVS, acked, nacked>>

\* What the MS may send: the oldest NACKED block, else the next block if its
\* window allows, else a block that is not acknowledged yet.  In unacknowledged
\* mode the last block is repeated.
Unacked == {n \in 0 .. msVS - 1 : n \notin acked}
Oldest(S) == CHOOSE n \in S : \A m \in S : n <= m
WindowOpen == \A n \in Unacked : msVS < n + K
Sendable ==
    IF rlcMode = "UNACK" THEN {IF msVS < Len(lay) THEN msVS ELSE msVS - 1}
    ELSE IF nacked # {} THEN {Oldest(nacked)}
    ELSE IF msVS < Len(lay) /\ WindowOpen THEN {msVS}
    ELSE Unacked

\* The MS uses a USF: the block arrives or is lost.
MSSend ==
    /\ grant /\ msState = "sending"
    /\ grant' = FALSE
    /\ \E n \in Sendable :
        /\ msVS' = IF n = msVS THEN msVS + 1 ELSE msVS
        /\ nacked' = nacked \ {n}
        /\ \/ queue' = Append(queue, [type |-> "data", n |-> n])
           \/ queue' = queue
    /\ UNCHANGED <<tbfState, windowVars, blockVars, pduVars, counterVars, timer, acks,
                   lay, acked, msState, tbfs>>

\* The MS does not hear the USF, or has nothing to send.
USFUnused ==
    /\ grant
    /\ grant' = FALSE
    /\ UNCHANGED <<tbfState, windowVars, blockVars, pduVars, counterVars, timer, queue, acks,
                   msVars>>

\* The MS hears a PACKET UPLINK ACK/NACK and answers if it is polled; the answer
\* may be lost, which the DSP reports (PH_PACCH_NACK).
MSHearsAck ==
    /\ acks # <<>> /\ msState \in {"sending", "done"}
    /\ acks' = Tail(acks)
    /\ LET a == Head(acks)
           covered == {n \in Unacked : Dist(Bsn(n), a.ssn % RLC_MOD_VAL) \in 1 .. K}
           told == {n \in covered : Bsn(n) \in a.rrb}
       IN /\ acked' = acked \cup told
          /\ nacked' = (nacked \cup covered) \ told
          /\ msState' = IF a.final THEN "done" ELSE msState
          /\ \/ a.polled /\ \E answered \in BOOLEAN :
                queue' = Append(queue, [type |-> "outcome", tag |-> a.tag, ack |-> answered])
             \/ ~a.polled /\ queue' = queue
    /\ UNCHANGED <<tbfState, windowVars, blockVars, pduVars, counterVars, timer, grant,
                   lay, msVS, tbfs>>

\* The message is lost: the DSP reports a poll without answer.
AckLost ==
    /\ acks # <<>>
    /\ acks' = Tail(acks)
    /\ queue' = IF Head(acks).polled
                THEN Append(queue, [type |-> "outcome", tag |-> Head(acks).tag, ack |-> FALSE])
                ELSE queue
    /\ UNCHANGED <<tbfState, windowVars, blockVars, pduVars, counterVars, timer, grant, msVars>>

\* The MS leaves the cell.
MSLeaves ==
    /\ msState # "gone"
    /\ msState' = "gone"
    /\ UNCHANGED <<tbfState, windowVars, blockVars, pduVars, counterVars, timer, queue, grant,
                   acks, lay, msVS, acked, nacked, tbfs>>

\* A timer expires and posts its message.  The Activity timer runs for 10 s after
\* the last block, so not while anything is under way.
TimerExpiry(t) ==
    /\ timer[t]
    /\ t = "Activity" => ~grant /\ queue = <<>> /\ acks = <<>>
    /\ \A i \in DOMAIN queue : queue[i] # [type |-> "expiry", timer |-> t]
    /\ timer' = [timer EXCEPT ![t] = FALSE]
    /\ queue' = Append(queue, [type |-> "expiry", timer |-> t])
    /\ UNCHANGED <<tbfState, windowVars, blockVars, pduVars, counterVars, grant, acks, msVars>>
------------------------------------------------------------------------------
Init ==
    /\ tbfState = "FREE"
    /\ rlcMode \in RlcMode
    /\ vR = 0 /\ vQ = 0 /\ vN = [i \in BSN |-> "INVALID"]
    /\ pUlBlocks = [i \in BSN |-> Null] /\ free = PoolSize
    /\ firstDataBlock = 0 /\ lastDataBlock = LAST_BLOCK_UNKNOWN
    /\ numRLCBlocksSinceLastAck = BlocksBetweenAcks
    /\ endOfTBF = FALSE
    /\ n3101 = 0 /\ n3101FirstBlkBuffer = 0 /\ n3103 = 0
    /\ timer = [t \in Timer |-> FALSE]
    /\ reassembling = FALSE /\ currDataBlock = 0 /\ buf = <<>> /\ delivered = <<>>
    /\ queue = <<>> /\ fault = FALSE
    /\ grant = FALSE /\ acks = <<>>
    /\ lay \in Layouts
    /\ msVS = 0 /\ acked = {} /\ nacked = {} /\ msState = "idle"
    /\ tbfs = 0 /\ got = {}

\* RlcMacLoop: one message at a time.
HandleMessage ==
    /\ Idle /\ queue # <<>>
    /\ \/ ReceiveULDataBlock
       \/ DropDataBlock
       \/ ReceiveOutcome
       \/ \E t \in Timer : ProcessExpiry(t)
       \/ EstablishULTbf

Next ==
    /\ ~fault
    /\ \/ HandleMessage
       \/ ReassembleULPDU
       \/ IncrementN3101
       \/ AbnormalRelease
       \/ MSRequest
       \/ MSSend
       \/ USFUnused
       \/ MSHearsAck
       \/ AckLost
       \/ MSLeaves
       \/ \E t \in Timer : TimerExpiry(t)

Spec == Init /\ [][Next]_vars

\* The task handles its messages and schedules the TBF; a USF is used or not; the
\* DSP reports on every poll; T3169 expires, and the Activity timer once nothing
\* more arrives.
Fairness ==
    /\ WF_vars(~fault /\ (HandleMessage \/ ReassembleULPDU))
    /\ WF_vars(~fault /\ IncrementN3101)
    /\ WF_vars(~fault /\ (MSSend \/ USFUnused))
    /\ WF_vars(~fault /\ (MSHearsAck \/ AckLost))
    /\ \A t \in Timer : WF_vars(~fault /\ TimerExpiry(t))
FairSpec == Spec /\ Fairness
------------------------------------------------------------------------------
\* Types of the variables of ULRlcLink and of its surroundings.  V(R) may be
\* RLC_MOD_VAL in unacknowledged mode and firstDataBlock in both: "BSN + 1 %
\* RLC_MOD_VAL" and "++currDataBlock % RLC_MOD_VAL" do not wrap.  V(Q) gets the
\* value of V(R) by "vQ = vR".
RcvTypeOK ==
    /\ tbfState \in TbfState
    /\ rlcMode \in RlcMode
    /\ vR \in BSN \/ (vR = RLC_MOD_VAL /\ rlcMode = "UNACK")
    /\ vQ \in BSN \/ (vQ = RLC_MOD_VAL /\ rlcMode = "UNACK")
    /\ vN \in [BSN -> {"RECEIVED", "INVALID"}]
    /\ pUlBlocks \in [BSN -> HeldBlock \cup {Null}] /\ free \in Nat
    /\ firstDataBlock \in 0 .. RLC_MOD_VAL /\ currDataBlock \in 0 .. RLC_MOD_VAL
    /\ lastDataBlock \in BSN \cup {LAST_BLOCK_UNKNOWN}
    /\ numRLCBlocksSinceLastAck \in 1 .. BlocksBetweenAcks
    /\ endOfTBF \in BOOLEAN
    /\ n3101 \in Nat /\ n3101FirstBlkBuffer \in Nat /\ n3103 \in Nat
    /\ timer \in [Timer -> BOOLEAN]
    /\ reassembling \in BOOLEAN /\ fault \in BOOLEAN /\ grant \in BOOLEAN
    /\ queue \in Seq(Message) /\ acks \in Seq(AckNack)
    /\ lay \in Layouts /\ msVS \in Nat /\ tbfs \in Nat
    /\ acked \in SUBSET Nat /\ nacked \in SUBSET Nat /\ got \in SUBSET Nat
    /\ msState \in {"idle", "asked", "sending", "done", "gone"}

\* No block of the pool is lost and none is returned twice: what
\* ReceiveULDataBlock, ScanDataBlocks and the release of the TBF do with the
\* blocks adds up, in every order and across the wrap of the sequence numbers.
PoolConserved == free + Cardinality(Held) = PoolSize

\* No block is returned twice, also when the MS asks for a TBF while it has one:
\* AllocateULResources then forgets the blocks of the stale TBF, which are lost.
PoolNotOverfull == free + Cardinality(Held) <= PoolSize

\* The number, counted from the start of the TBF, of the index i in the window.
Newest == CHOOSE n \in got : \A m \in got : m <= n
SeqOf(i) == IF got = {} THEN 0 ELSE Newest + 1 - Dist(i, vR)

\* Until the last block is seen, all blocks below V(Q) have been received.
VQSound ==
    rlcMode = "ACK" /\ ~endOfTBF => 0 .. SeqOf(vQ) - 1 \subseteq got

\* The MS takes no block as acknowledged that the link has not accepted.
MSAckSound == rlcMode = "ACK" => acked \subseteq got

\* Every block from V(R)-k+1 to V(R)-1 that the link has accepted is in the bitmap
\* of the next acknowledgement, so that the MS is not asked for it again.  (The
\* block V(R)-k is not: the loop that invalidates V(N) takes it too.)
BitmapReports ==
    rlcMode = "ACK" => \A n \in got : n > Newest + 1 - K => vN[Bsn(n)] = "RECEIVED"

\* Until the last block is seen, no PDU sent to BSSGP has a hole in acknowledged
\* mode ("If there is no data block then we must be in unacknowledged mode").
NoHoles ==
    rlcMode = "ACK" /\ ~endOfTBF =>
        \A i \in DOMAIN delivered : \A j \in DOMAIN delivered[i] : delivered[i][j] # Fill

\* A TBF that is not scheduled and waits for nothing has T3169 running.
RcvWatched ==
    tbfState = "INACTIVE" /\ Idle /\ queue = <<>> /\ acks = <<>> => timer["T3169"]

\* A TBF whose MS has left is released.
RcvEndsWhenGone == msState = "gone" ~> (tbfState = "FREE" \/ fault)
------------------------------------------------------------------------------
(* What the source says of itself and the model refutes.                    *)

\* "For acknowledged mode we must verify that all blocks were received."
FinalAckSound == msState = "done" /\ rlcMode = "ACK" => 0 .. Len(lay) - 1 \subseteq got
==============================================================================
