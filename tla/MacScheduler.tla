---------------------------- MODULE MacScheduler ----------------------------
(***************************************************************************)
(* The MAC scheduler of the RLC/MAC task (MacScheduler.cpp and             *)
(* ScheduleQueue.cpp with their tables TSPool, USFTable, TAITable,         *)
(* ScheduleInfo and ScheduleAllocationInfo).                               *)
(*                                                                         *)
(* A TBF is given timeslots of one transceiver; on each of them, for its   *)
(* direction, it competes for the entries of a small queue, one queue per  *)
(* delay class, by precedence.  Layer 1 asks for one block per timeslot    *)
(* and direction, and the queues say whose it is.  With its timeslots a    *)
(* TBF gets a TFI of the transceiver, a TAI on its first timeslot and, for *)
(* the uplink, a USF on each.                                              *)
(*                                                                         *)
(* Each request is served within one message of the task, so every request *)
(* is one action; what it does in loops is given by operators from a state *)
(* S == [tbf, ts] of the two pools to the next.                            *)
(***************************************************************************)
EXTENDS Integers, Sequences, SequencesExt

CONSTANTS Trx, Ts,         \* transceivers and timeslots, numbers from 0
          Slot,            \* the <<trx, ts>> that are PDCH and unlocked
          UlTbf, DlTbf,    \* the TBF objects of the pool, positive numbers
          Ms, NoMs,        \* mobile stations (their TLLI), the scrambled TLLI
          MultiConfig,     \* multislot class -> rows of the generator table
          MaxSlots,        \* multislot class -> slots in each direction
          NbrEntries,      \* delay class -> entries of its queue
          MaxUsers, MaxUsersUl, MaxTfi, MaxTai, MaxUsf,
          UlQos, DlQos,    \* what requests may ask for
          RtsSlots         \* slots on which layer 1 asks for blocks

Tbf == UlTbf \cup DlTbf
Dir == {"UL", "DL"}
Opposite(d) == IF d = "UL" THEN "DL" ELSE "UL"
DirOf(t) == IF t \in UlTbf THEN "UL" ELSE "DL"
Level == DOMAIN NbrEntries
NoTbf == 0
NullTrx == -1
Invalid == 255
NullImportance == 9999
Qos == [class : DOMAIN MultiConfig, level : Level, prec : 1..3, peak : 1..9]

\* The pools are finite.  The importance of a null entry is out of the reach of
\* every other, and the invalid number of 255 out of that of every table.
ASSUME SchedulerAssumption ==
  /\ Slot \subseteq Trx \X Ts /\ RtsSlots \subseteq Slot
  /\ Trx \cup Ts \subseteq Nat /\ UlTbf \cup DlTbf \subseteq Nat \ {0}
  /\ UlTbf \cap DlTbf = {} /\ NoMs \notin Ms /\ 1 \in DOMAIN MultiConfig
  /\ IsFiniteSet(Slot) /\ IsFiniteSet(Tbf) /\ IsFiniteSet(Level)
  /\ Level \subseteq Nat /\ Level # {}
  /\ \A l \in Level : NbrEntries[l] \in Nat \ {0, 1} /\ 30 + 2 * NbrEntries[l] < NullImportance
  /\ {MaxTfi, MaxTai, MaxUsf} \subseteq 1..Invalid
  /\ \A c \in DOMAIN MultiConfig, d \in Dir : MaxSlots[c][d] \in Nat
  /\ UlQos \cup DlQos \subseteq Qos /\ \A q \in UlQos : q.prec = 1

VARIABLES tbf,   \* the TBF pool
          ts,    \* the timeslot pool: queues, counters and tables
          sent   \* the TBF of the last block on each slot and direction

vars == <<tbf, ts, sent>>

\* Op(v); a way to write it that makes TLC evaluate v once.
With(v, Op(_)) == CHOOSE r \in {Op(x) : x \in {v}} : TRUE

-----------------------------------------------------------------------------
\* The queue of one slot, direction and delay class: a sequence of entries.

NullEntry == [tbf |-> NoTbf, prec |-> 0, nbr |-> 0]
Importance(p, n) == IF n = 0 THEN p ELSE 10 * p + n
Imp(e) == IF e.tbf = NoTbf THEN NullImportance ELSE Importance(e.prec, e.nbr)

\* Place of each entry when they are ranked from worst to best.
RankTied(q) ==
  [i \in DOMAIN q |-> Cardinality({j \in DOMAIN q \ {i} : Imp(q[j]) >= Imp(q[i])})]
Rank(q) ==
  LET worse(j, i) == Imp(q[j]) > Imp(q[i]) \/ (Imp(q[j]) = Imp(q[i]) /\ j < i)
  IN [i \in DOMAIN q |-> Cardinality({j \in DOMAIN q : worse(j, i)})]

\* The entries taken by a user of precedence p whose first is its n-th: from
\* the worst on, as long as the new entry is better than the old.
Entitled(q, p, n) ==
  With(Rank(q), LAMBDA rank :
    {i \in DOMAIN q : \A j \in DOMAIN q :
       rank[j] <= rank[i] => Importance(p, n + rank[j]) < Imp(q[j])})

AllocateEntries(q, t, p, n) ==
  With([taken |-> Entitled(q, p, n), rank |-> Rank(q)], LAMBDA x :
    [i \in DOMAIN q |-> IF i \in x.taken
                        THEN [tbf |-> t, prec |-> p, nbr |-> n + x.rank[i]] ELSE q[i]])

FindAvailableEntries(q, t, p) ==
  Cardinality({i \in Entitled(q, p, 0) : q[i].tbf # t})

EntriesOf(q, t) == {i \in DOMAIN q : q[i].tbf = t}
Users(q) == {q[i].tbf : i \in DOMAIN q} \ {NoTbf}
HighestEntry(q, u) == Max({q[i].nbr : i \in EntriesOf(q, u)})

\* The place where a user is met first.
Leads(q, k) == q[k].tbf # NoTbf /\ \A j \in EntriesOf(q, q[k].tbf) : k <= j
\* The entries become r: the user met first at k takes what it can.
BalanceUser(q, k, r) ==
  IF Leads(q, k) THEN AllocateEntries(r, q[k].tbf, q[k].prec, HighestEntry(q, q[k].tbf) + 1)
  ELSE r

\* The users that remain take the entries that have become free, in the order
\* of their first entries and each for as far as it goes.
BalanceEntries(q) ==
  LET after[k \in 0..Len(q)] ==
        IF k = 0 THEN q ELSE With(after[k - 1], LAMBDA r : BalanceUser(q, k, r))
  IN after[Len(q)]

DeallocateUnbalanced(q, t) ==
  [i \in DOMAIN q |-> IF q[i].tbf = t THEN NullEntry ELSE q[i]]
DeallocateEntries(q, t) ==
  IF t \in Users(q)
  THEN With([i \in DOMAIN q |-> IF q[i].tbf = t THEN NullEntry ELSE q[i]], BalanceEntries)
  ELSE q

-----------------------------------------------------------------------------
\* Multislot configurations and the choice of slots.

\* Every placement of the rows of a multislot class.
Candidates ==
  [c \in DOMAIN MultiConfig |->
     UNION {{[DL |-> {o + x : x \in row.dl}, UL |-> {o + row.offset + x : x \in row.ul}] :
               o \in row.first..row.last} : row \in MultiConfig[c]}]

DesiredSlots(q, d) ==
  Min({MaxSlots[q.class][d], CASE q.peak >= 5 -> 8 [] q.peak = 4 -> 4
                               [] q.peak = 3 -> 2 [] OTHER -> 1})

\* The configurations that still hold all slots of the TBF and of its peer.
ConstrainCandMultiConfig(class, d, own, peer) ==
  {c \in Candidates[class] : own \subseteq c[d] /\ peer \subseteq c[Opposite(d)]}
NaturalTs(configs) == UNION {c.DL \cap c.UL : c \in configs}

OkayToAddUser(users, d) ==
  /\ users.UL + users.DL < MaxUsers
  /\ d = "UL" => users.UL < MaxUsersUl

CountUsers(queues) == Cardinality(UNION {{l} \X Users(queues[l]) : l \in Level})

SlotsOf(S, t) == {s \in Slot : s[1] = S.tbf[t].trx /\ s[2] \in S.tbf[t].slots}

\* New queues of direction d on some slots, with their counts of users.
WithQueues(S, d, at, new(_)) ==
  With([s \in at |-> new(s)], LAMBDA queues :
    [S EXCEPT
       !.ts.queue = [s \in Slot |-> IF s \in at THEN [@[s] EXCEPT ![d] = queues[s]] ELSE @[s]],
       !.ts.users = [s \in Slot |-> IF s \in at
                                    THEN [@[s] EXCEPT ![d] = CountUsers(queues[s])] ELSE @[s]]])

Constrain(S, t, class, peer) ==
  [S EXCEPT !.tbf[t].natural =
     NaturalTs(ConstrainCandMultiConfig(class, DirOf(t), S.tbf[t].slots, peer))]

\* Which of two slots with as many entries comes first.
Before(d, a, b) ==
  \/ a[1] < b[1]
  \/ a[1] = b[1] /\ (IF d = "DL" THEN a[2] < b[2] ELSE a[2] > b[2])

\* The slot with the most entries for t, or none.
FindBestSlot(S, t, q, peer) ==
  LET d == DirOf(t)
      own == S.tbf[t].slots
      natural == S.tbf[t].natural
      fits(s, configs) ==
        /\ S.tbf[t].trx \in {NullTrx, s[1]}
        /\ OkayToAddUser(S.ts.users[s], d)
        /\ \E c \in configs : s[2] \in c[d]
        /\ s[2] \in natural \/ natural \cap own # {}
      offers(configs) ==
        {o \in {[slot |-> s, entries |-> FindAvailableEntries(S.ts.queue[s][d][q.level], t, q.prec)] :
                  s \in {s \in Slot : fits(s, configs)}} : o.entries > 0}
      better(o, p) == \/ o.entries > p.entries
                      \/ o.entries = p.entries /\ Before(d, o.slot, p.slot)
  IN With(With(ConstrainCandMultiConfig(q.class, d, own, peer), offers),
          LAMBDA all : {o \in all : \A p \in all \ {o} : better(o, p)})

\* job == [S, count, entries]: one more slot, if there is one.
AllocateOneSlot(job, t, q, peer) ==
  LET S == job.S
      d == DirOf(t)
      placed(s) == [S EXCEPT !.tbf[t].trx = s[1], !.tbf[t].slots = @ \cup {s[2]}]
      given(s) == [S.ts.queue[s][d] EXCEPT ![q.level] = AllocateEntries(@, t, q.prec, 0)]
      with(o) == [S |-> Constrain(WithQueues(placed(o.slot), d, {o.slot}, given),
                                  t, q.class, peer),
                  count |-> job.count + 1, entries |-> job.entries + o.entries]
  IN With(FindBestSlot(S, t, q, peer),
          LAMBDA best : IF best = {} THEN job ELSE With(CHOOSE o \in best : TRUE, with))

AllocateSlots(S, t, q, peer) ==
  LET desired == DesiredSlots(q, DirOf(t))
      job[n \in 0..desired] ==
        IF n = 0 THEN [S |-> Constrain(S, t, q.class, peer), count |-> 0, entries |-> 0]
        ELSE With(job[n - 1], LAMBDA j : AllocateOneSlot(j, t, q, peer))
  IN job[desired]

-----------------------------------------------------------------------------
\* TFI, TAI and USF.

FirstFree(table) ==
  LET free == {i \in DOMAIN table : table[i] = NoTbf}
  IN IF free = {} THEN Invalid ELSE Min(free)

Fill(table, i, t) == [j \in DOMAIN table |-> IF j = i THEN t ELSE table[j]]

AllocateTFI(S, t) ==
  LET d == DirOf(t)
      x == S.tbf[t].trx
      n == FirstFree(S.ts.tfi[d][x])
  IN IF n = Invalid THEN S
     ELSE [S EXCEPT !.ts.tfi[d][x][n] = t, !.tbf[t].tfi = n]

ReleaseTFI(S, t) ==
  IF S.tbf[t].trx = NullTrx THEN S
  ELSE [S EXCEPT !.ts.tfi[DirOf(t)][S.tbf[t].trx][S.tbf[t].tfi] = NoTbf]

\* A TAI on the first slot of the TBF and, uplink, a USF on each.
AllocateTaiUsf(S, t) ==
  LET x == S.tbf[t].trx
      first == Min(S.tbf[t].slots)
      tai == FirstFree(S.ts.tai[<<x, first>>])
      new(s) == FirstFree(S.ts.usf[s])
      mine == IF t \in UlTbf THEN SlotsOf(S, t) ELSE {}
  IN [S EXCEPT
        !.tbf[t].tai = tai, !.tbf[t].taiTs = first,
        !.ts.tai[<<x, first>>] = Fill(@, tai, t),
        !.tbf[t].usf = [n \in Ts |-> IF <<x, n>> \in mine THEN new(<<x, n>>) ELSE @[n]],
        !.ts.usf = [s \in Slot |-> IF s \in mine THEN Fill(@[s], new(s), t) ELSE @[s]]]

ReleaseTAI(S, t) ==
  [S EXCEPT !.ts.tai = [s \in Slot |-> IF s = <<S.tbf[t].trx, S.tbf[t].taiTs>>
                                       THEN Fill(@[s], S.tbf[t].tai, NoTbf) ELSE @[s]]]

ReleaseUSF(S, t, at) ==
  IF t \in DlTbf THEN S
  ELSE [S EXCEPT !.ts.usf = [s \in Slot |-> IF s \in at
                                            THEN Fill(@[s], S.tbf[t].usf[s[2]], NoTbf)
                                            ELSE @[s]]]

-----------------------------------------------------------------------------
\* The requests to the scheduler.

AllocateUser(S, t, q, peer) ==
  With(AllocateSlots(S, t, q, peer), LAMBDA job :
    [ok |-> job.count > 0,
     S |-> IF job.count > 0 THEN AllocateTaiUsf(AllocateTFI(job.S, t), t) ELSE job.S])

\* Gives up the queue entries on all slots of t, which then has none.
LeaveQueues(S, t) ==
  LET d == DirOf(t)
      left(s) == [l \in Level |-> DeallocateEntries(S.ts.queue[s][d][l], t)]
  IN [WithQueues(S, d, SlotsOf(S, t), left) EXCEPT !.tbf[t].slots = {}]

DeallocateUserUsfLast(S, t) ==
  With(LeaveQueues(S, t), LAMBDA left :
    ReleaseUSF(ReleaseTFI(ReleaseTAI(left, t), t), t, SlotsOf(left, t)))
DeallocateUser(S, t) ==
  With(LeaveQueues(S, t), LAMBDA left :
    ReleaseTFI(ReleaseTAI(ReleaseUSF(left, t, SlotsOf(S, t)), t), t))

BetterQoSSlotsLost(S, t, q, peer) ==
  With(AllocateSlots(LeaveQueues(S, t), t, q, peer), LAMBDA job :
    [ok |-> FALSE, S |-> [job.S EXCEPT !.ts.queue = S.ts.queue]])
\* More slots or more entries, or else the queues and slots of before.
AllocateUserIfBetterQoS(S, t, q, peer) ==
  LET had == UNION {{s} \X EntriesOf(S.ts.queue[s][DirOf(t)][q.level], t) : s \in SlotsOf(S, t)}
      oldSlots == Cardinality({x[1] : x \in had})
      oldEntries == Cardinality(had)
      onTrx == {s \in Slot : s[1] = S.tbf[t].trx}
  IN With(AllocateSlots(LeaveQueues(S, t), t, q, peer), LAMBDA job :
       IF job.count > oldSlots \/ job.entries > oldEntries
       THEN [ok |-> TRUE,
             S |-> AllocateTaiUsf(ReleaseUSF(ReleaseTAI(job.S, t), t, onTrx), t)]
       ELSE [ok |-> FALSE,
             S |-> [job.S EXCEPT !.ts.queue = S.ts.queue, !.tbf[t].slots = S.tbf[t].slots]])

-----------------------------------------------------------------------------
\* The TBF pool and its users.

State == {"FREE", "ALLOCATED", "INACTIVE", "ACTIVATING", "REALLOCATING", "RELEASING"}

\* An object of the pool that is free: what the next request overwrites in any
\* case is blank, what it may find again is not.
FreeObject(tfi, tai, taiTs) ==
  [state |-> "FREE", ms |-> NoMs, qos |-> CHOOSE q \in Qos : TRUE, trx |-> NullTrx,
   slots |-> {}, natural |-> {}, usf |-> [n \in Ts |-> 0],
   tfi |-> tfi, tai |-> tai, taiTs |-> taiTs]

Init ==
  /\ tbf = [t \in Tbf |-> FreeObject(MaxTfi - 1, Invalid, Invalid)]
  /\ ts = [queue |-> [s \in Slot |-> [d \in Dir |-> [l \in Level |->
                                        [i \in 1..NbrEntries[l] |-> NullEntry]]]],
           index |-> [s \in Slot |-> [d \in Dir |-> [l \in Level |-> 0]]],
           users |-> [s \in Slot |-> [d \in Dir |-> 0]],
           tfi |-> [d \in Dir |-> [x \in Trx |-> [n \in 0..MaxTfi - 1 |-> NoTbf]]],
           tai |-> [s \in Slot |-> [n \in 0..MaxTai - 1 |-> NoTbf]],
           usf |-> [s \in Slot |-> [n \in 1..MaxUsf - 1 |-> NoTbf]]]
  /\ sent = [s \in Slot |-> [d \in Dir |-> NoTbf]]

Now == [tbf |-> tbf, ts |-> ts]
Becomes(new) == \E S \in {new} : tbf' = S.tbf /\ ts' = S.ts /\ UNCHANGED sent

InUse(pool) == {t \in pool : tbf[t].state # "FREE"}
OfMs(pool, m) == {t \in InUse(pool) : tbf[t].ms = m}
FreeTbf(S, pool) == {t \in pool : S.tbf[t].state = "FREE"}
\* A TBF is found by its TFI alone.
FindTbf(pool, n) == Min({t \in InUse(pool) : tbf[t].tfi = n})

EstablishTbf(S, t, m, q, x) ==
  [S EXCEPT !.tbf[t] = [S.tbf[t] EXCEPT
     !.state = IF t \in UlTbf THEN "ALLOCATED" ELSE "ACTIVATING",
     !.ms = m, !.qos = q, !.trx = x, !.slots = {},
     !.usf = IF t \in UlTbf THEN [n \in Ts |-> 0] ELSE S.tbf[t].usf]]

ReleaseTbf(S, t) ==
  [DeallocateUser(S, t) EXCEPT !.tbf[t] = FreeObject(@.tfi, @.tai, @.taiTs)]

\* Establishes t and asks for slots; without any it is released at once.
Request(S, t, m, q, class, x, peer, goOn) ==
  With(AllocateUser(EstablishTbf(S, t, m, q, x), t, [q EXCEPT !.class = class], peer),
       LAMBDA a : IF a.ok /\ goOn THEN a.S ELSE ReleaseTbf(a.S, t))

\* Channel request or packet resource request with a TLLI: what the mobile
\* still had is released as stale.
ULRequest(m, q) ==
  LET old == OfMs(UlTbf, m)
      S == IF old = {} THEN Now ELSE ReleaseTbf(Now, Min(old))
      free == FreeTbf(S, UlTbf)
  IN Becomes(IF free = {} THEN S ELSE Request(S, Min(free), m, q, q.class, NullTrx, {}, TRUE))

\* Packet resource request with the TFI of a downlink TBF.
ULRequestBesideDl(m, q) ==
  \E own \in OfMs(DlTbf, m) :
    LET peer == FindTbf(DlTbf, tbf[own].tfi)
        free == FreeTbf(Now, UlTbf)
    IN /\ free # {}
       /\ Becomes(Request(Now, Min(free), tbf[peer].ms, q, q.class,
                          tbf[peer].trx, tbf[peer].slots, TRUE))

ULReallocMarked(m, q) ==
  \E own \in OfMs(UlTbf, m) :
    LET t == FindTbf(UlTbf, tbf[own].tfi)
    IN Becomes([AllocateUserIfBetterQoS(Now, t, q, {}).S EXCEPT !.tbf[t].state = "REALLOCATING"])
\* Packet resource request with the TFI of an uplink TBF.
ULReallocRequest(m, q) ==
  \E own \in OfMs(UlTbf, m) :
    LET t == FindTbf(UlTbf, tbf[own].tfi)
    IN Becomes(AllocateUserIfBetterQoS([Now EXCEPT !.tbf[t].qos = q], t, q, {}).S)

\* AllocateDLResources for a mobile without a downlink TBF.  hasPdu: whether
\* the PDU it is for is still there.
DLRequest(m, q, hasPdu) ==
  LET ul == OfMs(UlTbf, m)
      free == FreeTbf(Now, DlTbf)
      p == tbf[Min(ul)]
  IN /\ OfMs(DlTbf, m) = {} /\ free # {}
     /\ Becomes(IF ul = {}
                THEN Request(Now, Min(free), m, q, 1, NullTrx, {}, hasPdu)
                ELSE Request(Now, Min(free), m, q, q.class, p.trx, p.slots, hasPdu))

\* DLResourceReallocRequest, beside the uplink TBF of the mobile or alone.
DLRealloc(S, t, q) ==
  LET ul == OfMs(UlTbf, S.tbf[t].ms)
      p == tbf[Min(ul)]
  IN IF ul = {} THEN AllocateUserIfBetterQoS(S, t, q, {})
     ELSE AllocateUserIfBetterQoS([S EXCEPT !.tbf[t].trx = p.trx], t, q, p.slots)

\* AllocateDLResources while T3193 runs: the old TBF goes on.
DLReestablish(t, q) ==
  /\ tbf[t].state = "INACTIVE" /\ tbf[t].ms # NoMs
  /\ Becomes(DLRealloc([Now EXCEPT !.tbf[t].qos = q, !.tbf[t].state = "ACTIVATING"], t, q).S)

\* ReallocateDLResources, for a TBF that has much to send.
DLReallocate(t) ==
  /\ tbf[t].state = "ALLOCATED"
  /\ LET a == DLRealloc(Now, t, tbf[t].qos)
     IN Becomes(IF a.ok THEN [a.S EXCEPT !.tbf[t].state = "REALLOCATING"] ELSE a.S)

\* An assignment that went unanswered is repeated on the CCCH, which can assign
\* a single slot.
DLSingleSlot(t) ==
  /\ tbf[t].state = "ACTIVATING"
  /\ OfMs(UlTbf, tbf[t].ms) = {} /\ Cardinality(tbf[t].slots) > 1
  /\ Becomes(AllocateUser(DeallocateUser(Now, t), t, [tbf[t].qos EXCEPT !.class = 1], {}).S)

\* InternalReleaseDLTbf: waits for T3195 without a mobile.
DLAbandon(t) ==
  /\ tbf[t].state \in {"ALLOCATED", "INACTIVE", "ACTIVATING", "REALLOCATING"}
  /\ Becomes([Now EXCEPT !.tbf[t].state = "RELEASING", !.tbf[t].ms = NoMs])

Release(t) ==
  /\ tbf[t].state # "FREE"
  /\ Becomes(ReleaseTbf(Now, t))

\* The RLC link starts, stops or resumes the transfer: an acknowledgement can
\* resume it, and the OAM lock of the timeslot stop it, in every state.
LinkMoves(t, new) ==
  /\ tbf[t].state # "FREE"
  /\ new = "INACTIVE" \/ (new = "ALLOCATED" /\ t \in DlTbf)
  /\ Becomes([Now EXCEPT !.tbf[t].state = new])

-----------------------------------------------------------------------------
\* ScheduleNextBlock: the first level that has a block in what is left of its
\* round; a level whose round has ended starts anew.  A second pass follows
\* when no level has any.

ReadyEntries(queue) ==
  {x \in UNION {{l} \X DOMAIN queue[l] : l \in {l \in Level : queue[l][1].tbf # NoTbf}} :
     tbf[queue[x[1]][x[2]].tbf].state = "ALLOCATED"}

FirstOf(entries) ==
  CHOOSE x \in entries : \A y \in entries : x[1] < y[1] \/ (x[1] = y[1] /\ x[2] <= y[2])

NextBlockAgain(queue, index, ready) ==
  LET ahead == {x \in ready : x[2] >= index[x[1]]}
      serve(x) == [tbf |-> queue[x[1]][x[2]].tbf, index |-> [index EXCEPT ![x[1]] = x[2]]]
  IN IF ready = {} THEN [tbf |-> NoTbf, index |-> index]
     ELSE With(FirstOf(IF ahead # {} THEN ahead ELSE ready), serve)

NextBlock(queue, index, ready) ==
  LET ahead == {x \in ready : x[2] > index[x[1]]}
      round(n) == [l \in Level |-> IF queue[l][1].tbf # NoTbf /\ l < n THEN 0 ELSE index[l]]
      begun == [l \in Level |-> IF queue[l][1].tbf # NoTbf THEN 0 ELSE index[l]]
      serve(x) == [tbf |-> queue[x[1]][x[2]].tbf,
                   index |-> [(IF ahead # {} THEN round(x[1]) ELSE begun)
                                EXCEPT ![x[1]] = x[2]]]
  IN IF ready = {} THEN [tbf |-> NoTbf, index |-> begun]
     ELSE With(FirstOf(IF ahead # {} THEN ahead ELSE ready), serve)

ScheduleBlock(s, d) ==
  /\ s \in RtsSlots
  /\ \E b \in {With(ReadyEntries(ts.queue[s][d]),
                   LAMBDA ready : NextBlock(ts.queue[s][d], ts.index[s][d], ready))} :
       /\ ts' = [ts EXCEPT !.index[s][d] = b.index]
       /\ sent' = [sent EXCEPT ![s][d] = b.tbf]
  /\ UNCHANGED tbf

UplinkRequests ==
  \E m \in Ms, q \in UlQos : ULRequest(m, q) \/ ULRequestBesideDl(m, q) \/ ULReallocRequest(m, q)
DownlinkRequests ==
  \/ \E m \in Ms, q \in DlQos, hasPdu \in BOOLEAN : DLRequest(m, q, hasPdu)
  \/ \E t \in DlTbf : \/ \E q \in DlQos : DLReestablish(t, q)
                      \/ DLReallocate(t) \/ DLSingleSlot(t) \/ DLAbandon(t)

Next ==
  \/ UplinkRequests
  \/ DownlinkRequests
  \/ \E t \in Tbf : Release(t) \/ \E new \in State : LinkMoves(t, new)
  \/ \E s \in Slot, d \in Dir : ScheduleBlock(s, d)

Spec == Init /\ [][Next]_vars

\* Layer 1 asks for a block in every block period, whatever happens meanwhile.
LiveSpec == Spec /\ \A s \in RtsSlots, d \in Dir : WF_vars(ScheduleBlock(s, d))

-----------------------------------------------------------------------------
\* Whatever the order of requests, an uplink TBF never gets a state that only
\* its downlink peer may have (REALLOCATING, which nothing would end for it),
\* every TFI, TAI and USF that is kept indexes its table or is the invalid one
\* of 255, and the index of a level stays within its queue.
TypeOK ==
  /\ \A t \in Tbf :
       /\ tbf[t].state \in (IF t \in UlTbf THEN {"FREE", "ALLOCATED", "INACTIVE"} ELSE State)
       /\ tbf[t].ms \in Ms \cup {NoMs} /\ tbf[t].qos \in Qos
       /\ tbf[t].trx \in Trx \cup {NullTrx} /\ tbf[t].slots \subseteq Ts
       /\ tbf[t].tfi \in 0..MaxTfi - 1 /\ tbf[t].tai \in 0..MaxTai - 1 \cup {Invalid}
       /\ tbf[t].usf \in [Ts -> 0..MaxUsf - 1 \cup {Invalid}]
  /\ \A s \in Slot, d \in Dir, l \in Level :
       ts.index[s][d][l] \in 0..NbrEntries[l] /\ ts.users[s][d] \in Nat

\* ScheduleNextBlock takes a level whose first entry is null for empty and
\* looks at the TBF of every entry of the others without a test.
LevelsFullOrEmpty ==
  \A s \in Slot, d \in Dir, l \in Level :
    LET q == ts.queue[s][d][l] IN Users(q) # {} => NoTbf \notin {q[i].tbf : i \in DOMAIN q}

\* Every user of a level has its first entry there, the only one that nobody
\* of its precedence can take: BalanceEntries stops at it before it reads past
\* the ranks that Rank has filled in, and a user that shares its slot with
\* others never loses its last entry to them.
FirstEntryHeld ==
  \A s \in Slot, d \in Dir, l \in Level :
    LET q == ts.queue[s][d][l]
    IN \A u \in Users(q) : \E i \in EntriesOf(q, u) : q[i].nbr = 0

\* An entry belongs to a TBF in use that has the slot: no block is scheduled
\* for a TBF that has been released or on a slot its mobile does not watch.
EntriesOwned ==
  \A s \in Slot, d \in Dir, l \in Level : \A u \in Users(ts.queue[s][d][l]) :
    DirOf(u) = d /\ tbf[u].state # "FREE" /\ s \in SlotsOf(Now, u)

\* What is marked as taken in the tables of TFI, TAI and USF is known to a TBF
\* in use that will give it back: no long run of requests, reallocations and
\* releases uses the tables up.
NothingLeaks ==
  /\ \A d \in Dir, x \in Trx, n \in 0..MaxTfi - 1 :
       LET t == ts.tfi[d][x][n]
       IN t # NoTbf => tbf[t].state # "FREE" /\ tbf[t].trx = x /\ tbf[t].tfi = n
  /\ \A s \in Slot, n \in 0..MaxTai - 1 :
       LET t == ts.tai[s][n]
       IN t # NoTbf => /\ tbf[t].state # "FREE"
                       /\ <<tbf[t].trx, tbf[t].taiTs>> = s /\ tbf[t].tai = n
  /\ \A s \in Slot, n \in 1..MaxUsf - 1 :
       LET t == ts.usf[s][n]
       IN t # NoTbf => s \in SlotsOf(Now, t) /\ tbf[t].usf[s[2]] = n

\* A TBF that is ready to be served on a slot gets blocks there, whatever its
\* delay class and precedence, for as long as it stays ready.
Ready(t, s) ==
  /\ tbf[t].state = "ALLOCATED"
  /\ \E l \in Level : EntriesOf(ts.queue[s][DirOf(t)][l], t) # {}
Served ==
  \A t \in Tbf, s \in RtsSlots : Ready(t, s) ~> (sent[s][DirOf(t)] = t \/ ~Ready(t, s))

=============================================================================
