------------------------- MODULE MacSchedulerProofs -------------------------
(* Proofs about the scheduler: what each request does to the TBF pool, the   *)
(* queues and the tables.                                                    *)
EXTENDS MacQueueProofs

-----------------------------------------------------------------------------
(* What a state S == [tbf, ts] is made of.                                   *)

NaturalSlots == UNION {UNION {c.DL : c \in Candidates[k]} : k \in DOMAIN MultiConfig}
Object ==
  [state : State, ms : Ms \cup {NoMs}, qos : Qos, trx : Trx \cup {NullTrx},
   slots : SUBSET Ts, natural : SUBSET NaturalSlots,
   usf : [Ts -> 0..MaxUsf - 1 \cup {Invalid}], tfi : 0..MaxTfi - 1,
   tai : 0..MaxTai - 1 \cup {Invalid}, taiTs : Ts \cup {Invalid}]

\* Queues of which every user holds a first entry.
HeldQueue(n) == {q \in [1..n -> Entry] : FirstIn(q)}
LevelQueues ==
  {f \in [Level -> UNION {HeldQueue(NbrEntries[l]) : l \in Level}] :
     \A l \in Level : f[l] \in HeldQueue(NbrEntries[l])}
Owner == Tbf \cup {NoTbf}
Tables ==
  [queue : [Slot -> [Dir -> LevelQueues]],
   index : [Slot -> [Dir -> {f \in [Level -> Nat] : \A l \in Level : f[l] <= NbrEntries[l]}]],
   users : [Slot -> [Dir -> Nat]],
   tfi : [Dir -> [Trx -> [0..MaxTfi - 1 -> Owner]]],
   tai : [Slot -> [0..MaxTai - 1 -> Owner]],
   usf : [Slot -> [1..MaxUsf - 1 -> Owner]]]
Sched == [tbf : [Tbf -> Object], ts : Tables]

SameTables(S, R) ==
  /\ R.ts.index = S.ts.index /\ R.ts.tfi = S.ts.tfi
  /\ R.ts.tai = S.ts.tai /\ R.ts.usf = S.ts.usf

LEMMA Constants ==
  /\ Tbf \subseteq Nat \ {0} /\ NoTbf \notin Tbf /\ Trx \subseteq Nat /\ NullTrx \notin Trx
  /\ Ts \subseteq Nat /\ UlTbf \cap DlTbf = {} /\ UlTbf \subseteq Tbf /\ DlTbf \subseteq Tbf
  /\ \A t \in Tbf : DirOf(t) \in Dir /\ (t \in UlTbf <=> t \notin DlTbf)
  /\ \A l \in Level : NbrEntries[l] \in Nat /\ Short(NbrEntries[l]) /\ NbrEntries[l] >= 2
  /\ \A s \in Slot : s = <<s[1], s[2]>> /\ s[1] \in Trx /\ s[2] \in Ts
  /\ MaxTfi \in 1..255 /\ MaxTai \in 1..255 /\ MaxUsf \in 1..255 /\ Invalid = 255
<1>1. \A l \in Level : NbrEntries[l] \in Nat /\ Short(NbrEntries[l]) /\ NbrEntries[l] >= 2
  BY SchedulerAssumption DEF Short, NullImportance
<1>2. MaxTfi \in 1..255 /\ MaxTai \in 1..255 /\ MaxUsf \in 1..255 /\ Invalid = 255
  BY SchedulerAssumption DEF Invalid
<1>3. Trx \subseteq Nat /\ NullTrx \notin Trx
  BY SchedulerAssumption DEF NullTrx
<1>4. \A s \in Slot : s = <<s[1], s[2]>> /\ s[1] \in Trx /\ s[2] \in Ts
  BY SchedulerAssumption
<1> QED
  BY <1>1, <1>2, <1>3, <1>4, SchedulerAssumption DEF Tbf, NoTbf, DirOf, Dir

\* Membership, as the proofs below use it.
LEMMA SchedIs ==
  ASSUME NEW S \in Sched
  PROVE  /\ S.tbf \in [Tbf -> Object] /\ S.ts \in Tables /\ S = [tbf |-> S.tbf, ts |-> S.ts]
         /\ S.ts.queue \in [Slot -> [Dir -> LevelQueues]]
         /\ S.ts.users \in [Slot -> [Dir -> Nat]]
         /\ S.ts.tfi \in [Dir -> [Trx -> [0..MaxTfi - 1 -> Owner]]]
         /\ S.ts.tai \in [Slot -> [0..MaxTai - 1 -> Owner]]
         /\ S.ts.usf \in [Slot -> [1..MaxUsf - 1 -> Owner]]
  BY DEF Sched, Tables

LEMMA QueueIs ==
  ASSUME NEW S \in Sched, NEW s \in Slot, NEW d \in Dir, NEW l \in Level
  PROVE  /\ S.ts.queue[s][d][l] \in [1..NbrEntries[l] -> Entry]
         /\ FirstIn(S.ts.queue[s][d][l]) /\ NbrEntries[l] \in Nat
<1>1. S.ts.queue[s][d] \in LevelQueues
  BY SchedIs
<1> QED
  BY <1>1, Constants DEF LevelQueues, HeldQueue

\* What a TBF object is.
LEMMA ObjectIs ==
  ASSUME NEW S \in Sched, NEW t \in Tbf
  PROVE  /\ S.tbf[t] \in Object /\ S.tbf[t].state \in State /\ S.tbf[t].ms \in Ms \cup {NoMs}
         /\ S.tbf[t].qos \in Qos /\ S.tbf[t].trx \in Trx \cup {NullTrx} /\ S.tbf[t].slots \subseteq Ts
         /\ S.tbf[t].usf \in [Ts -> 0..MaxUsf - 1 \cup {Invalid}]
         /\ S.tbf[t].tfi \in 0..MaxTfi - 1
         /\ S.tbf[t].tai \in 0..MaxTai - 1 \cup {Invalid} /\ S.tbf[t].taiTs \in Ts \cup {Invalid}
<1>1. S.tbf[t] \in Object
  BY SchedIs
<1> QED
  BY <1>1 DEF Object

-----------------------------------------------------------------------------
(* Changes of one part of the state.                                         *)

LEMMA PutTbf ==
  ASSUME NEW S \in Sched, NEW t \in Tbf, NEW o \in Object
  PROVE  /\ [S EXCEPT !.tbf[t] = o] \in Sched
         /\ [S EXCEPT !.tbf[t] = o].ts = S.ts
         /\ [S EXCEPT !.tbf[t] = o].tbf = [S.tbf EXCEPT ![t] = o]
  BY DEF Sched

LEMMA PutQueues ==
  ASSUME NEW S \in Sched, NEW Q \in [Slot -> [Dir -> LevelQueues]], NEW U \in [Slot -> [Dir -> Nat]]
  PROVE  LET R == [S EXCEPT !.ts.queue = Q, !.ts.users = U]
         IN R \in Sched /\ R.tbf = S.tbf /\ R.ts.queue = Q /\ SameTables(S, R)
  BY DEF Sched, Tables, SameTables

LEMMA PutQueue ==
  ASSUME NEW S \in Sched, NEW Q \in [Slot -> [Dir -> LevelQueues]]
  PROVE  LET R == [S EXCEPT !.ts.queue = Q]
         IN R \in Sched /\ R.tbf = S.tbf /\ R.ts.queue = Q /\ SameTables(S, R)
  BY DEF Sched, Tables, SameTables

\* The users of a slot are finitely many.
LEMMA CountUsersIs ==
  ASSUME NEW f \in LevelQueues
  PROVE  CountUsers(f) \in Nat
<1> DEFINE U == UNION {{l} \X Users(f[l]) : l \in Level}
<1>1. U \subseteq Level \X Tbf
  <2> SUFFICES ASSUME NEW l \in Level, NEW u \in Users(f[l]) PROVE u \in Tbf
    BY DEF U
  <2>1. f[l] \in [1..NbrEntries[l] -> Entry]
    BY DEF LevelQueues, HeldQueue
  <2>2. PICK i \in 1..NbrEntries[l] : f[l][i].tbf = u /\ u # NoTbf /\ f[l][i] \in Entry
    BY <2>1 DEF Users
  <2> QED
    BY <2>2, EntryType
<1>2. IsFiniteSet(Level \X Tbf)
  BY SchedulerAssumption, FS_Product
<1>3. IsFiniteSet(U)
  BY <1>1, <1>2, FS_Subset
<1> QED
  BY <1>3, FS_CardinalityType DEF CountUsers

-----------------------------------------------------------------------------
(* Leaving the queues.                                                       *)

Left(S, t, R) ==
  /\ R \in Sched /\ SameTables(S, R)
  /\ R.tbf = [S.tbf EXCEPT ![t] = [@ EXCEPT !.slots = {}]]
  /\ \A s \in Slot, d \in Dir, l \in Level :
       R.ts.queue[s][d][l] = IF s \in SlotsOf(S, t) /\ d = DirOf(t)
                             THEN DeallocateEntries(S.ts.queue[s][d][l], t)
                             ELSE S.ts.queue[s][d][l]

LEMMA LeaveQueuesDef ==
  ASSUME NEW S, NEW t
  PROVE  LET at == SlotsOf(S, t)
             d == DirOf(t)
             left == [s \in at |-> [l \in Level |-> DeallocateEntries(S.ts.queue[s][d][l], t)]]
             R == [S EXCEPT
                    !.ts.queue = [s \in Slot |-> IF s \in at THEN [@[s] EXCEPT ![d] = left[s]] ELSE @[s]],
                    !.ts.users = [s \in Slot |-> IF s \in at
                                                 THEN [@[s] EXCEPT ![d] = CountUsers(left[s])] ELSE @[s]]]
         IN LeaveQueues(S, t) = [R EXCEPT !.tbf[t].slots = {}]
  BY DEF LeaveQueues, WithQueues, With

LEMMA LeaveQueuesIs ==
  ASSUME NEW S \in Sched, NEW t \in Tbf
  PROVE  Left(S, t, LeaveQueues(S, t))
<1> DEFINE at == SlotsOf(S, t)
           d == DirOf(t)
           left == [s \in at |-> [l \in Level |-> DeallocateEntries(S.ts.queue[s][d][l], t)]]
           Q == [s \in Slot |-> IF s \in at THEN [S.ts.queue[s] EXCEPT ![d] = left[s]] ELSE S.ts.queue[s]]
           U == [s \in Slot |-> IF s \in at THEN [S.ts.users[s] EXCEPT ![d] = CountUsers(left[s])]
                                ELSE S.ts.users[s]]
           R == [S EXCEPT !.ts.queue = Q, !.ts.users = U]
           o == [S.tbf[t] EXCEPT !.slots = {}]
<1>1. LeaveQueues(S, t) = [R EXCEPT !.tbf[t].slots = {}]
  BY LeaveQueuesDef
<1>2. d \in Dir /\ at \subseteq Slot
  BY Constants DEF SlotsOf
<1>3. \A s \in at : left[s] \in LevelQueues
  <2> SUFFICES ASSUME NEW s \in at PROVE left[s] \in LevelQueues
    OBVIOUS
  <2>1. ASSUME NEW l \in Level
        PROVE  DeallocateEntries(S.ts.queue[s][d][l], t) \in HeldQueue(NbrEntries[l])
    BY SMTT(30), <1>2, QueueIs, DeallocateKeepsFirsts DEF HeldQueue
  <2> QED
    BY <2>1 DEF LevelQueues
<1>4. Q \in [Slot -> [Dir -> LevelQueues]]
  BY <1>2, <1>3, SchedIs
<1>5. U \in [Slot -> [Dir -> Nat]]
  BY <1>2, <1>3, SchedIs, CountUsersIs
<1>6. \A s \in Slot, e \in Dir, l \in Level :
         Q[s][e][l] = IF s \in at /\ e = d THEN DeallocateEntries(S.ts.queue[s][e][l], t)
                      ELSE S.ts.queue[s][e][l]
  BY <1>2, SchedIs
<1> HIDE DEF Q, U, left
<1>7. R \in Sched /\ R.tbf = S.tbf /\ R.ts.queue = Q /\ SameTables(S, R)
  BY <1>4, <1>5, PutQueues
<1>8. o \in Object
  BY ObjectIs DEF Object
<1>9. LeaveQueues(S, t) = [R EXCEPT !.tbf[t] = o]
  BY <1>1, <1>7
<1> HIDE DEF R, o
<1>10. /\ LeaveQueues(S, t) \in Sched /\ LeaveQueues(S, t).ts = R.ts
       /\ LeaveQueues(S, t).tbf = [S.tbf EXCEPT ![t] = o]
  BY <1>7, <1>8, <1>9, PutTbf
<1> QED
  BY <1>6, <1>7, <1>10 DEF Left, SameTables, at, d, o

-----------------------------------------------------------------------------
(* Taking slots.                                                             *)

LEMMA AvailableIs ==
  ASSUME NEW len \in Nat, NEW q \in [1..len -> Entry], NEW t, NEW p
  PROVE  FindAvailableEntries(q, t, p) \in Nat
<1>1. Entitled(q, p, 0) \subseteq 1..len
  BY EntitledDef
<1>2. IsFiniteSet({i \in Entitled(q, p, 0) : q[i].tbf # t})
  BY <1>1, FS_Interval, FS_Subset
<1> QED
  BY <1>2, FS_CardinalityType DEF FindAvailableEntries

\* A slot found is of the transceiver that the TBF already has slots of.
LEMMA FindBestSlotIs ==
  ASSUME NEW S \in Sched, NEW t \in Tbf, NEW q \in Qos, NEW peer
  PROVE  \A o \in FindBestSlot(S, t, q, peer) :
           o.slot \in Slot /\ S.tbf[t].trx \in {NullTrx, o.slot[1]} /\ o.entries \in Nat
<1> DEFINE d == DirOf(t)
           own == S.tbf[t].slots
           natural == S.tbf[t].natural
           fits(s, configs) ==
             /\ S.tbf[t].trx \in {NullTrx, s[1]}
             /\ OkayToAddUser(S.ts.users[s], d)
             /\ \E c \in configs : s[2] \in c[d]
             /\ s[2] \in natural \/ natural \cap own # {}
           offers(configs) ==
             {o \in {[slot |-> s, entries |-> FindAvailableEntries(S.ts.queue[s][d][q.level], t, q.prec)] :
                       s \in {s \in Slot : fits(s, configs)}} : o.entries > 0}
           better(o, p) == \/ o.entries > p.entries
                           \/ o.entries = p.entries /\ Before(d, o.slot, p.slot)
           configs == ConstrainCandMultiConfig(q.class, d, own, peer)
           all == offers(configs)
           all0 == With(configs, offers)
<1>1. FindBestSlot(S, t, q, peer) = {o \in all : \A p \in all \ {o} : better(o, p)}
  <2>1. FindBestSlot(S, t, q, peer) = With(all0, LAMBDA a : {o \in a : \A p \in a \ {o} : better(o, p)})
    BY DEF FindBestSlot
  <2>2. all0 = all
    <3> HIDE DEF offers, configs
    <3> QED
      BY DEF With
  <2> HIDE DEF all0, all, better
  <2>3. FindBestSlot(S, t, q, peer) = {o \in all0 : \A p \in all0 \ {o} : better(o, p)}
    BY <2>1 DEF With
  <2> QED
    BY <2>2, <2>3
<1>2. SUFFICES ASSUME NEW o \in all
               PROVE  o.slot \in Slot /\ S.tbf[t].trx \in {NullTrx, o.slot[1]} /\ o.entries \in Nat
  BY <1>1
<1>3. PICK s \in Slot : /\ S.tbf[t].trx \in {NullTrx, s[1]}
                        /\ o = [slot |-> s, entries |-> FindAvailableEntries(S.ts.queue[s][d][q.level], t, q.prec)]
  BY DEF all
<1>4. d \in Dir /\ q.level \in Level
  BY Constants DEF Qos
<1>5. FindAvailableEntries(S.ts.queue[s][d][q.level], t, q.prec) \in Nat
  BY <1>4, QueueIs, AvailableIs
<1> HIDE DEF all, d
<1>6. o.slot = s /\ o.entries \in Nat
  BY <1>3, <1>5
<1> QED
  BY <1>3, <1>6

Constrained(S, t, R) ==
  /\ R \in Sched /\ R.ts = S.ts
  /\ \E N \in SUBSET NaturalSlots : R.tbf = [S.tbf EXCEPT ![t] = [S.tbf[t] EXCEPT !.natural = N]]

LEMMA ConstrainIs ==
  ASSUME NEW S \in Sched, NEW t \in Tbf, NEW class \in DOMAIN MultiConfig, NEW peer
  PROVE  Constrained(S, t, Constrain(S, t, class, peer))
<1> DEFINE N == NaturalTs(ConstrainCandMultiConfig(class, DirOf(t), S.tbf[t].slots, peer))
           o == [S.tbf[t] EXCEPT !.natural = N]
<1>1. N \in SUBSET NaturalSlots
  BY DEF NaturalTs, ConstrainCandMultiConfig, NaturalSlots
<1>2. Constrain(S, t, class, peer) = [S EXCEPT !.tbf[t] = o]
  BY SchedIs DEF Constrain
<1> HIDE DEF N
<1>3. o \in Object
  BY <1>1, ObjectIs DEF Object
<1> HIDE DEF o
<1>4. /\ Constrain(S, t, class, peer) \in Sched /\ Constrain(S, t, class, peer).ts = S.ts
      /\ Constrain(S, t, class, peer).tbf = [S.tbf EXCEPT ![t] = o]
  BY <1>2, <1>3, PutTbf
<1> QED
  BY <1>1, <1>4 DEF o, Constrained

\* R is S where t has taken one more slot, x.
Placed(S, t, q, x, R) ==
  /\ R \in Sched /\ SameTables(S, R) /\ S.tbf[t].trx \in {NullTrx, x[1]}
  /\ \E N \in SUBSET NaturalSlots :
       R.tbf = [S.tbf EXCEPT ![t] = [S.tbf[t] EXCEPT !.trx = x[1], !.slots = S.tbf[t].slots \cup {x[2]},
                                                     !.natural = N]]
  /\ \A s \in Slot, d \in Dir, l \in Level :
       R.ts.queue[s][d][l] = IF s = x /\ d = DirOf(t) /\ l = q.level
                             THEN AllocateEntries(S.ts.queue[s][d][l], t, q.prec, 0)
                             ELSE S.ts.queue[s][d][l]

TakeSlot(S, t, q, x, peer) ==
  LET d == DirOf(t)
      P == [S EXCEPT !.tbf[t].trx = x[1], !.tbf[t].slots = @ \cup {x[2]}]
      given == [s \in {x} |-> [S.ts.queue[s][d] EXCEPT ![q.level] = AllocateEntries(@, t, q.prec, 0)]]
  IN Constrain([P EXCEPT
                  !.ts.queue = [s \in Slot |-> IF s \in {x} THEN [@[s] EXCEPT ![d] = given[s]] ELSE @[s]],
                  !.ts.users = [s \in Slot |-> IF s \in {x} THEN [@[s] EXCEPT ![d] = CountUsers(given[s])]
                                               ELSE @[s]]],
               t, q.class, peer)

LEMMA AllocateOneSlotDef ==
  ASSUME NEW job, NEW t, NEW q, NEW peer
  PROVE  \/ AllocateOneSlot(job, t, q, peer) = job
         \/ \E o \in FindBestSlot(job.S, t, q, peer) :
              AllocateOneSlot(job, t, q, peer) =
                [S |-> TakeSlot(job.S, t, q, o.slot, peer),
                 count |-> job.count + 1, entries |-> job.entries + o.entries]
<1> DEFINE S == job.S
           d == DirOf(t)
           best == FindBestSlot(S, t, q, peer)
           placed(s) == [S EXCEPT !.tbf[t].trx = s[1], !.tbf[t].slots = @ \cup {s[2]}]
           given(s) == [S.ts.queue[s][d] EXCEPT ![q.level] = AllocateEntries(@, t, q.prec, 0)]
           with(o) == [S |-> Constrain(WithQueues(placed(o.slot), d, {o.slot}, given), t, q.class, peer),
                       count |-> job.count + 1, entries |-> job.entries + o.entries]
<1>1. AllocateOneSlot(job, t, q, peer) = IF best = {} THEN job ELSE with(CHOOSE o \in best : TRUE)
  <2>1. AllocateOneSlot(job, t, q, peer) =
          With(best, LAMBDA b : IF b = {} THEN job ELSE With(CHOOSE o \in b : TRUE, with))
    BY DEF AllocateOneSlot
  <2> HIDE DEF best, with
  <2> QED
    BY <2>1 DEF With
<1>2. ASSUME best # {}
      PROVE  \E o \in best : AllocateOneSlot(job, t, q, peer) = with(o)
  <2> HIDE DEF best, with
  <2> QED
    BY <1>1, <1>2
<1>3. ASSUME NEW o
      PROVE  with(o) = [S |-> TakeSlot(S, t, q, o.slot, peer),
                        count |-> job.count + 1, entries |-> job.entries + o.entries]
  <2> DEFINE x == o.slot
  <2>1. WithQueues(placed(x), d, {x}, given) =
          [placed(x) EXCEPT
             !.ts.queue = [s \in Slot |-> IF s \in {x} THEN [@[s] EXCEPT ![d] = [r \in {x} |-> given(r)][s]] ELSE @[s]],
             !.ts.users = [s \in Slot |-> IF s \in {x}
                             THEN [@[s] EXCEPT ![d] = CountUsers([r \in {x} |-> given(r)][s])] ELSE @[s]]]
    BY DEF WithQueues, With
  <2> QED
    BY <2>1 DEF TakeSlot
<1> QED
  BY <1>1, <1>2, <1>3

LEMMA TakeSlotIs ==
  ASSUME NEW S \in Sched, NEW t \in Tbf, NEW q \in Qos, NEW x \in Slot, NEW peer,
         S.tbf[t].trx \in {NullTrx, x[1]}
  PROVE  Placed(S, t, q, x, TakeSlot(S, t, q, x, peer))
<1> DEFINE d == DirOf(t)
           o == [S.tbf[t] EXCEPT !.trx = x[1], !.slots = @ \cup {x[2]}]
           P == [S EXCEPT !.tbf[t] = o]
           g == [S.ts.queue[x][d] EXCEPT ![q.level] = AllocateEntries(@, t, q.prec, 0)]
           Q == [s \in Slot |-> IF s \in {x} THEN [S.ts.queue[s] EXCEPT ![d] = g] ELSE S.ts.queue[s]]
           U == [s \in Slot |-> IF s \in {x} THEN [S.ts.users[s] EXCEPT ![d] = CountUsers(g)]
                                ELSE S.ts.users[s]]
           R == [P EXCEPT !.ts.queue = Q, !.ts.users = U]
<1>1. TakeSlot(S, t, q, x, peer) = Constrain(R, t, q.class, peer)
  <2> DEFINE P0 == [S EXCEPT !.tbf[t].trx = x[1], !.tbf[t].slots = @ \cup {x[2]}]
             given == [s \in {x} |-> [S.ts.queue[s][d] EXCEPT ![q.level] = AllocateEntries(@, t, q.prec, 0)]]
             Q0 == [s \in Slot |-> IF s \in {x} THEN [P0.ts.queue[s] EXCEPT ![d] = given[s]] ELSE P0.ts.queue[s]]
             U0 == [s \in Slot |-> IF s \in {x} THEN [P0.ts.users[s] EXCEPT ![d] = CountUsers(given[s])]
                                   ELSE P0.ts.users[s]]
  <2>1. P0 = P /\ P.ts = S.ts
    <3> DEFINE a == S.tbf[t]
               B1 == [S.tbf EXCEPT ![t] = [a EXCEPT !.trx = x[1]]]
               B == [S.tbf EXCEPT ![t] = [a EXCEPT !.trx = x[1], !.slots = a.slots \cup {x[2]}]]
               P1 == [S EXCEPT !.tbf[t].trx = x[1]]
    <3>1. S = [tbf |-> S.tbf, ts |-> S.ts] /\ S.tbf \in [Tbf -> Object]
      BY SchedIs
    <3>2. P = [tbf |-> B, ts |-> S.ts]
      BY <3>1
    <3>3. P1 = [tbf |-> B1, ts |-> S.ts]
      BY <3>1
    <3>4. P0 = [P1 EXCEPT !.tbf[t].slots = a.slots \cup {x[2]}]
      OBVIOUS
    <3>5. P0 = [tbf |-> B, ts |-> S.ts]
      <4>1. P0 = [tbf |-> [B1 EXCEPT ![t].slots = a.slots \cup {x[2]}], ts |-> S.ts]
        <5> HIDE DEF P1, P0, B1, a
        <5> QED
          BY <3>3, <3>4
      <4>2. [B1 EXCEPT ![t].slots = a.slots \cup {x[2]}] = B
        <5>1. a \in Object
          BY ObjectIs
        <5> QED
          BY <3>1, <5>1 DEF Object
      <4> QED
        BY <4>1, <4>2
    <3> HIDE DEF P, P0, B
    <3> QED
      BY <3>2, <3>5
  <2>2. given[x] = g
    OBVIOUS
  <2>3. TakeSlot(S, t, q, x, peer) = Constrain([P0 EXCEPT !.ts.queue = Q0, !.ts.users = U0], t, q.class, peer)
    BY DEF TakeSlot
  <2> HIDE DEF P0, P, given, g
  <2>4. Q0 = Q /\ U0 = U
    BY <2>1, <2>2
  <2> HIDE DEF Q0, U0, Q, U
  <2> QED
    BY <2>1, <2>3, <2>4
<1>2. d \in Dir /\ q.level \in Level /\ q.prec \in 1..3 /\ q.class \in DOMAIN MultiConfig
  BY Constants DEF Qos
<1>3. g \in LevelQueues
  <2> DEFINE z == S.ts.queue[x][d]
             n == NbrEntries[q.level]
             a == AllocateEntries(z[q.level], t, q.prec, 0)
  <2>1. z \in LevelQueues /\ n \in Nat
    BY <1>2, SchedIs, Constants
  <2>2. z[q.level] \in [1..n -> Entry] /\ FirstIn(z[q.level])
    BY <1>2, <2>1 DEF LevelQueues, HeldQueue
  <2>3. Takes(n, z[q.level], a, Entitled(z[q.level], q.prec, 0), t, q.prec, 0)
    BY <1>2, <2>1, <2>2, AllocateIs
  <2>4. a \in HeldQueue(n)
    <3>1. FirstIn(a)
      BY SMTT(30), <1>2, <2>1, <2>2, <2>3, NewUserKeepsFirsts
    <3> QED
      BY <2>3, <3>1 DEF Takes, HeldQueue
  <2>5. g = [z EXCEPT ![q.level] = a]
    OBVIOUS
  <2> HIDE DEF a, z, g
  <2> QED
    BY <1>2, <2>1, <2>4, <2>5 DEF LevelQueues
<1>4. \A s \in Slot, e \in Dir, l \in Level :
         Q[s][e][l] = IF s = x /\ e = d /\ l = q.level THEN AllocateEntries(S.ts.queue[s][e][l], t, q.prec, 0)
                      ELSE S.ts.queue[s][e][l]
  <2>1. \A l \in Level : g[l] = IF l = q.level THEN AllocateEntries(S.ts.queue[x][d][l], t, q.prec, 0)
                                ELSE S.ts.queue[x][d][l]
    <3>1. S.ts.queue[x][d] \in LevelQueues
      BY <1>2, SchedIs
    <3> QED
      BY <3>1 DEF LevelQueues
  <2> HIDE DEF g
  <2> QED
    BY <1>2, <2>1, SchedIs
<1>5. Q \in [Slot -> [Dir -> LevelQueues]] /\ U \in [Slot -> [Dir -> Nat]]
  <2> HIDE DEF g
  <2>1. CountUsers(g) \in Nat
    BY <1>3, CountUsersIs
  <2> QED
    BY <1>2, <1>3, <2>1, SchedIs
<1> HIDE DEF Q, U, g
<1>6. o \in Object
  <2>1. S.tbf[t] \in Object /\ x[1] \in Trx /\ S.tbf[t].slots \cup {x[2]} \subseteq Ts
    BY ObjectIs, Constants
  <2> QED
    BY <2>1 DEF Object
<1> HIDE DEF o
<1>7. P \in Sched /\ P.ts = S.ts /\ P.tbf = [S.tbf EXCEPT ![t] = o]
  BY <1>6, PutTbf
<1> HIDE DEF P
<1>8. R \in Sched /\ R.tbf = P.tbf /\ R.ts.queue = Q /\ SameTables(P, R)
  BY <1>5, <1>7, PutQueues
<1> HIDE DEF R
<1> DEFINE Z == TakeSlot(S, t, q, x, peer)
<1>9. PICK N \in SUBSET NaturalSlots :
         Z \in Sched /\ Z.ts = R.ts /\ Z.tbf = [R.tbf EXCEPT ![t] = [R.tbf[t] EXCEPT !.natural = N]]
  <2>1. R \in Sched
    BY <1>8
  <2>2. Constrained(R, t, Z)
    BY <1>1, <1>2, <2>1, ConstrainIs
  <2> HIDE DEF Z
  <2> QED
    BY <2>2 DEF Constrained
<1>10. [R.tbf EXCEPT ![t] = [R.tbf[t] EXCEPT !.natural = N]] =
         [S.tbf EXCEPT ![t] = [S.tbf[t] EXCEPT !.trx = x[1], !.slots = S.tbf[t].slots \cup {x[2]},
                                               !.natural = N]]
  <2>1. R.tbf[t] = o /\ S.tbf \in [Tbf -> Object]
    BY <1>7, <1>8, SchedIs
  <2>2. [o EXCEPT !.natural = N] =
          [S.tbf[t] EXCEPT !.trx = x[1], !.slots = S.tbf[t].slots \cup {x[2]}, !.natural = N]
    <3>1. S.tbf[t] \in Object
      BY ObjectIs
    <3> QED
      BY <3>1 DEF o, Object
  <2> QED
    BY <1>7, <1>8, <2>1, <2>2
<1>11. /\ Z \in Sched /\ Z.ts = R.ts
       /\ Z.tbf = [S.tbf EXCEPT ![t] = [S.tbf[t] EXCEPT !.trx = x[1], !.slots = S.tbf[t].slots \cup {x[2]},
                                               !.natural = N]]
  BY <1>9, <1>10
<1> HIDE DEF Z
<1>12. SameTables(S, Z)
  BY <1>7, <1>8, <1>11 DEF SameTables
<1>13. Z.ts.queue = Q
  BY <1>8, <1>11
<1>14. Placed(S, t, q, x, Z)
  <2>1. \A s \in Slot, e \in Dir, l \in Level :
          Z.ts.queue[s][e][l] = IF s = x /\ e = DirOf(t) /\ l = q.level
                                THEN AllocateEntries(S.ts.queue[s][e][l], t, q.prec, 0)
                                ELSE S.ts.queue[s][e][l]
    BY <1>4, <1>13 DEF d
  <2> QED
    BY <1>11, <1>12, <2>1 DEF Placed
<1> QED
  BY <1>14 DEF Z

LEMMA DesiredSlotsIs ==
  ASSUME NEW q \in Qos, NEW d \in Dir
  PROVE  DesiredSlots(q, d) \in Nat
<1> DEFINE T == {MaxSlots[q.class][d], CASE q.peak >= 5 -> 8 [] q.peak = 4 -> 4
                                         [] q.peak = 3 -> 2 [] OTHER -> 1}
<1>1. q.class \in DOMAIN MultiConfig /\ q.peak \in 1..9
  BY DEF Qos
<1>2. MaxSlots[q.class][d] \in Nat
  BY <1>1, SchedulerAssumption
<1>3. (CASE q.peak >= 5 -> 8 [] q.peak = 4 -> 4 [] q.peak = 3 -> 2 [] OTHER -> 1) \in Nat
  <2>1. q.peak >= 5 \/ q.peak = 4 \/ q.peak = 3 \/ ~ (q.peak >= 5 \/ q.peak = 4 \/ q.peak = 3)
    OBVIOUS
  <2> QED
    BY <1>1, <2>1
<1>4. T \in SUBSET Nat /\ T # {}
  BY <1>2, <1>3
<1>5. DesiredSlots(q, d) = Min(T)
  BY DEF DesiredSlots
<1> HIDE DEF T
<1> QED
  BY <1>4, <1>5, MinIs

\* One slot after the other.
SlotBySlot(S, t, q, peer, f, len) ==
  /\ f[0] = [S |-> Constrain(S, t, q.class, peer), count |-> 0, entries |-> 0]
  /\ f[len] = AllocateSlots(S, t, q, peer)
  /\ \A k \in 1..len : f[k] = AllocateOneSlot(f[k - 1], t, q, peer)

LEMMA AllocateSlotsDef ==
  ASSUME NEW S, NEW t \in Tbf, NEW q \in Qos, NEW peer
  PROVE  \E len \in Nat : \E f : SlotBySlot(S, t, q, peer, f, len)
<1> DEFINE start == [S |-> Constrain(S, t, q.class, peer), count |-> 0, entries |-> 0]
           len == DesiredSlots(q, DirOf(t))
           Body(f, k) == IF k = 0 THEN start
                         ELSE With(f[k - 1], LAMBDA j : AllocateOneSlot(j, t, q, peer))
           T == {n \in Nat : \E f : f = [k \in 0..n |-> Body(f, k)]}
           job == CHOOSE f : f = [k \in 0..len |-> Body(f, k)]
<1>0. len \in Nat
  BY Constants, DesiredSlotsIs
<1>7. AllocateSlots(S, t, q, peer) = job[len]
  BY DEF AllocateSlots
<1> HIDE DEF start, len
<1>1. \A f, k : Body(f, k) = IF k = 0 THEN start ELSE AllocateOneSlot(f[k - 1], t, q, peer)
  BY DEF With
<1>2. 0 \in T
  <2>1. [k \in 0..0 |-> start] = [k \in 0..0 |-> Body([j \in 0..0 |-> start], k)]
    BY <1>1
  <2> QED
    BY <2>1
<1> HIDE DEF Body
<1>3. ASSUME NEW n \in Nat, n \in T PROVE n + 1 \in T
  <2>1. PICK f : f = [k \in 0..n |-> Body(f, k)]
    BY <1>3
  <2> DEFINE g == [k \in 0..n + 1 |-> IF k = n + 1 THEN Body(f, k) ELSE f[k]]
  <2>2. \A k \in 0..n + 1 : k # 0 => k - 1 \in 0..n /\ g[k - 1] = f[k - 1]
    OBVIOUS
  <2>3. \A k \in 0..n + 1 : Body(g, k) = Body(f, k)
    BY <2>2, <1>1
  <2>4. \A k \in 0..n : f[k] = Body(f, k)
    BY <2>1
  <2>5. \A k \in 0..n + 1 : g[k] = Body(g, k)
    BY <2>3, <2>4
  <2>6. g = [k \in 0..n + 1 |-> g[k]]
    OBVIOUS
  <2>7. g = [k \in 0..n + 1 |-> Body(g, k)]
    BY <2>5, <2>6
  <2> HIDE DEF g
  <2> QED
    BY <2>7
<1>4. len \in T
  <2> HIDE DEF T
  <2> QED
    BY <1>0, <1>2, <1>3, NatInd
<1>6. job = [k \in 0..len |-> Body(job, k)]
  BY <1>4
<1>8. job[0] = start /\ \A k \in 1..len : job[k] = AllocateOneSlot(job[k - 1], t, q, peer)
  <2> HIDE DEF job
  <2>1. \A k \in 0..len : job[k] = Body(job, k)
    BY <1>6
  <2> QED
    BY <2>1, <1>0, <1>1
<1> HIDE DEF job
<1> QED
  BY <1>0, <1>7, <1>8 DEF start, SlotBySlot

\* Queue z has become r while t, of precedence p, took entries of it or none.
OfPrec(r, t, p) == \A i \in DOMAIN r : r[i].tbf = t => r[i].prec = p
Grown(z, r, t, p, mine) ==
  /\ Users(r) \subseteq Users(z) \cup {t}
  /\ t \in Users(r) => t \in Users(z) \/ mine
  /\ Regular(z) /\ t \notin Users(z) => Regular(r) /\ OfPrec(r, t, p)

LEMMA GrownFirst ==
  ASSUME NEW z, NEW t \in Tbf, NEW p
  PROVE  Grown(z, z, t, p, FALSE)
  BY Constants DEF Grown, OfPrec, Users, EntriesOf

LEMMA GrownNext ==
  ASSUME NEW n, Short(n), NEW z, NEW r \in [1..n -> Entry], NEW t \in Tbf, NEW p \in 1..3,
         NEW mine \in BOOLEAN, Grown(z, r, t, p, mine)
  PROVE  Grown(z, AllocateEntries(r, t, p, 0), t, p, TRUE)
<1> DEFINE E == Entitled(r, p, 0)
           a == AllocateEntries(r, t, p, 0)
<1>0. n \in Nat
  BY DEF Short
<1>1. Takes(n, r, a, E, t, p, 0)
  BY <1>0, AllocateIs
<1>2. Regular(r) /\ OfPrec(r, t, p) => Regular(a)
  BY <1>0, NewUserRegular DEF OfPrec
<1> HIDE DEF E, a
<1>3. /\ a \in [1..n -> Entry] /\ E \subseteq 1..n
      /\ \A i \in (1..n) \ E : a[i] = r[i]
      /\ \A i \in E : a[i].tbf = t /\ a[i].prec = p
  BY <1>1 DEF Takes
<1>4. Users(a) \subseteq Users(r) \cup {t}
  BY <1>3 DEF Users
<1>5. OfPrec(r, t, p) => OfPrec(a, t, p)
  BY <1>3 DEF OfPrec
<1>6. Grown(z, a, t, p, TRUE)
  BY <1>2, <1>4, <1>5 DEF Grown
<1> QED
  BY <1>6 DEF a

\* The job j has given slots to t, which had none in S, and changed nothing but
\* the queues of these and t's slots, transceiver and natural timeslots.
SameBut(o, p) ==
  /\ p.state = o.state /\ p.ms = o.ms /\ p.qos = o.qos /\ p.usf = o.usf
  /\ p.tfi = o.tfi /\ p.tai = o.tai /\ p.taiTs = o.taiTs
Mine(S, t, s, d) == d = DirOf(t) /\ s \in SlotsOf(S, t)
Serving(S, t, q, j) ==
  /\ j.S \in Sched /\ j.count \in Nat /\ j.entries \in Nat /\ SameTables(S, j.S)
  /\ \A u \in Tbf \ {t} : j.S.tbf[u] = S.tbf[u]
  /\ SameBut(S.tbf[t], j.S.tbf[t])
  /\ S.tbf[t].trx \in {NullTrx, j.S.tbf[t].trx}
  /\ \A n \in j.S.tbf[t].slots : <<j.S.tbf[t].trx, n>> \in Slot
  /\ (j.count = 0 => j.S.tbf[t].slots = {} /\ j.entries = 0) /\ (j.count > 0 => j.S.tbf[t].slots # {})
  /\ \A s \in Slot, d \in Dir, l \in Level :
       Grown(S.ts.queue[s][d][l], j.S.ts.queue[s][d][l], t, q.prec, Mine(j.S, t, s, d))

LEMMA ServingFirst ==
  ASSUME NEW S \in Sched, NEW t \in Tbf, S.tbf[t].slots = {}, NEW q \in Qos, NEW peer
  PROVE  Serving(S, t, q, [S |-> Constrain(S, t, q.class, peer), count |-> 0, entries |-> 0])
<1> DEFINE R == Constrain(S, t, q.class, peer)
           j == [S |-> R, count |-> 0, entries |-> 0]
<1>1. Constrained(S, t, R)
  BY ConstrainIs DEF Qos
<1> HIDE DEF R
<1>2. PICK N \in SUBSET NaturalSlots :
         R \in Sched /\ R.ts = S.ts /\ R.tbf = [S.tbf EXCEPT ![t] = [S.tbf[t] EXCEPT !.natural = N]]
  BY <1>1 DEF Constrained
<1>3. S.tbf \in [Tbf -> Object] /\ S.tbf[t] \in Object
  BY SchedIs
<1>4. R.tbf[t] = [S.tbf[t] EXCEPT !.natural = N] /\ \A u \in Tbf \ {t} : R.tbf[u] = S.tbf[u]
  BY <1>2, <1>3
<1>5. /\ SameBut(S.tbf[t], R.tbf[t]) /\ R.tbf[t].trx = S.tbf[t].trx
      /\ R.tbf[t].slots = {}
  BY <1>3, <1>4 DEF SameBut, Object
<1>6. \A s \in Slot, d \in Dir, l \in Level :
        Grown(S.ts.queue[s][d][l], R.ts.queue[s][d][l], t, q.prec, Mine(R, t, s, d))
  <2> TAKE s \in Slot, d \in Dir, l \in Level
  <2>1. Grown(S.ts.queue[s][d][l], R.ts.queue[s][d][l], t, q.prec, FALSE)
    BY <1>2, GrownFirst
  <2> QED
    BY <2>1 DEF Grown
<1>7. SameTables(S, R)
  BY <1>2 DEF SameTables
<1>0. j.S = R /\ j.count = 0 /\ j.entries = 0
  OBVIOUS
<1> HIDE DEF j
<1>8. Serving(S, t, q, j)
  BY <1>0, <1>2, <1>4, <1>5, <1>6, <1>7 DEF Serving
<1> QED
  BY <1>8 DEF R, j

LEMMA ServingNext ==
  ASSUME NEW S \in Sched, NEW t \in Tbf, NEW q \in Qos, NEW peer, NEW j, Serving(S, t, q, j)
  PROVE  Serving(S, t, q, AllocateOneSlot(j, t, q, peer))
<1>1. CASE AllocateOneSlot(j, t, q, peer) = j
  BY <1>1
<1>2. ASSUME NEW o \in FindBestSlot(j.S, t, q, peer),
             AllocateOneSlot(j, t, q, peer) =
               [S |-> TakeSlot(j.S, t, q, o.slot, peer),
                count |-> j.count + 1, entries |-> j.entries + o.entries]
      PROVE  Serving(S, t, q, AllocateOneSlot(j, t, q, peer))
  <2> DEFINE P == j.S
             x == o.slot
             R == TakeSlot(P, t, q, x, peer)
             k == AllocateOneSlot(j, t, q, peer)
  <2>1. P \in Sched
    BY DEF Serving
  <2>2. x \in Slot /\ P.tbf[t].trx \in {NullTrx, x[1]} /\ o.entries \in Nat
    BY <2>1, FindBestSlotIs
  <2>3. Placed(P, t, q, x, R)
    BY <2>1, <2>2, TakeSlotIs
  <2>4. k.S = R /\ k.count = j.count + 1 /\ k.entries = j.entries + o.entries
    BY <1>2
  <2> HIDE DEF P, x, R, k
  <2>5. PICK N \in SUBSET NaturalSlots :
          R.tbf = [P.tbf EXCEPT ![t] = [P.tbf[t] EXCEPT !.trx = x[1], !.slots = P.tbf[t].slots \cup {x[2]},
                                                        !.natural = N]]
    BY <2>3 DEF Placed
  <2>6. P.tbf \in [Tbf -> Object] /\ P.tbf[t] \in Object
    BY <2>1, SchedIs
  <2>7. /\ R.tbf[t] = [P.tbf[t] EXCEPT !.trx = x[1], !.slots = P.tbf[t].slots \cup {x[2]}, !.natural = N]
        /\ \A u \in Tbf \ {t} : R.tbf[u] = P.tbf[u]
    BY <2>5, <2>6
  <2>8. /\ SameBut(P.tbf[t], R.tbf[t]) /\ R.tbf[t].trx = x[1]
        /\ R.tbf[t].slots = P.tbf[t].slots \cup {x[2]}
    BY <2>6, <2>7 DEF SameBut, Object
  <2>9. /\ P.tbf[t].slots # {} => P.tbf[t].trx = x[1]
        /\ \A n \in P.tbf[t].slots : <<P.tbf[t].trx, n>> \in Slot
    <3>1. \A n \in P.tbf[t].slots : <<P.tbf[t].trx, n>> \in Slot
      BY DEF Serving, P
    <3>2. \A n \in P.tbf[t].slots : P.tbf[t].trx \in Trx
      BY <3>1, SchedulerAssumption
    <3> QED
      BY <2>2, <3>1, <3>2, Constants
  <2>10. x = <<x[1], x[2]>> /\ x[1] \in Trx
    BY <2>2, Constants
  <2>11. \A n \in R.tbf[t].slots : <<R.tbf[t].trx, n>> \in Slot
    BY <2>2, <2>8, <2>9, <2>10
  <2>12. SlotsOf(P, t) \cup {x} \subseteq SlotsOf(R, t)
    BY <2>2, <2>8, <2>9, <2>10 DEF SlotsOf
  <2>13. \A s \in Slot, d \in Dir, l \in Level :
           Grown(S.ts.queue[s][d][l], R.ts.queue[s][d][l], t, q.prec, Mine(R, t, s, d))
    <3> TAKE s \in Slot, d \in Dir, l \in Level
    <3>1. Grown(S.ts.queue[s][d][l], P.ts.queue[s][d][l], t, q.prec, Mine(P, t, s, d))
      BY DEF Serving, P
    <3>2. CASE s = x /\ d = DirOf(t) /\ l = q.level
      <4>1. R.ts.queue[s][d][l] = AllocateEntries(P.ts.queue[s][d][l], t, q.prec, 0)
        BY <2>3, <3>2 DEF Placed
      <4>2. Mine(R, t, s, d)
        BY <2>12, <3>2 DEF Mine
      <4>3. P.ts.queue[s][d][l] \in [1..NbrEntries[l] -> Entry] /\ Short(NbrEntries[l]) /\ q.prec \in 1..3
        BY <2>1, QueueIs, Constants DEF Qos
      <4>4. Mine(P, t, s, d) \in BOOLEAN
        BY DEF Mine
      <4> DEFINE z == S.ts.queue[s][d][l]
                 r == P.ts.queue[s][d][l]
                 n == NbrEntries[l]
                 mine == Mine(P, t, s, d)
      <4>5. r \in [1..n -> Entry] /\ Short(n) /\ mine \in BOOLEAN /\ Grown(z, r, t, q.prec, mine)
        BY <3>1, <4>3, <4>4
      <4>6. R.ts.queue[s][d][l] = AllocateEntries(r, t, q.prec, 0)
        BY <4>1
      <4> HIDE DEF z, r, n, mine
      <4>7. Grown(z, AllocateEntries(r, t, q.prec, 0), t, q.prec, TRUE)
        BY <4>3, <4>5, GrownNext
      <4> QED
        BY <4>2, <4>6, <4>7 DEF Grown, z
    <3>3. CASE ~ (s = x /\ d = DirOf(t) /\ l = q.level)
      <4>1. R.ts.queue[s][d][l] = P.ts.queue[s][d][l]
        BY <2>3, <3>3 DEF Placed
      <4>2. Mine(P, t, s, d) => Mine(R, t, s, d)
        BY <2>12 DEF Mine
      <4> QED
        BY <3>1, <4>1, <4>2 DEF Grown
    <3> QED
      BY <3>2, <3>3
  <2>14. S.tbf[t].trx \in {NullTrx, R.tbf[t].trx}
    <3>1. S.tbf[t].trx \in {NullTrx, P.tbf[t].trx}
      BY DEF Serving, P
    <3> QED
      BY <2>2, <2>8, <3>1
  <2>15. SameTables(S, R) /\ R \in Sched
    BY <2>3 DEF Serving, Placed, SameTables, P
  <2>16. SameBut(S.tbf[t], R.tbf[t]) /\ \A u \in Tbf \ {t} : R.tbf[u] = S.tbf[u]
    BY <2>7, <2>8 DEF Serving, SameBut, P
  <2>17. k.count \in Nat /\ k.entries \in Nat /\ k.count > 0 /\ k.count # 0 /\ R.tbf[t].slots # {}
    BY <2>2, <2>4, <2>8 DEF Serving
  <2>18. Serving(S, t, q, k)
    BY <2>4, <2>11, <2>13, <2>14, <2>15, <2>16, <2>17 DEF Serving
  <2> QED
    BY <2>18 DEF k
<1> QED
  BY <1>1, <1>2, AllocateOneSlotDef

LEMMA AllocateSlotsIs ==
  ASSUME NEW S \in Sched, NEW t \in Tbf, S.tbf[t].slots = {}, NEW q \in Qos, NEW peer
  PROVE  Serving(S, t, q, AllocateSlots(S, t, q, peer))
<1> PICK len \in Nat : \E f : SlotBySlot(S, t, q, peer, f, len)
  BY AllocateSlotsDef
<1> PICK f : SlotBySlot(S, t, q, peer, f, len)
  OBVIOUS
<1>0. /\ f[0] = [S |-> Constrain(S, t, q.class, peer), count |-> 0, entries |-> 0]
      /\ f[len] = AllocateSlots(S, t, q, peer)
      /\ \A k \in 1..len : f[k] = AllocateOneSlot(f[k - 1], t, q, peer)
  BY DEF SlotBySlot
<1> DEFINE T == {k \in Nat : k <= len => Serving(S, t, q, f[k])}
<1>1. 0 \in T
  BY <1>0, ServingFirst
<1>2. ASSUME NEW k \in Nat, k \in T PROVE k + 1 \in T
  <2> SUFFICES ASSUME k + 1 <= len PROVE Serving(S, t, q, f[k + 1])
    OBVIOUS
  <2>1. k + 1 \in 1..len /\ (k + 1) - 1 = k /\ Serving(S, t, q, f[k])
    BY <1>2
  <2> HIDE DEF T
  <2>2. f[k + 1] = AllocateOneSlot(f[k], t, q, peer)
    BY <1>0, <2>1
  <2> QED
    BY <2>1, <2>2, ServingNext
<1>3. len \in T
  <2> HIDE DEF T
  <2> QED
    BY <1>1, <1>2, NatInd
<1> QED
  BY <1>0, <1>3

-----------------------------------------------------------------------------
(* TFI, TAI and USF.                                                         *)

LEMMA PutTai ==
  ASSUME NEW S \in Sched, NEW X \in [Slot -> [0..MaxTai - 1 -> Owner]]
  PROVE  LET R == [S EXCEPT !.ts.tai = X]
         IN /\ R \in Sched /\ R.tbf = S.tbf /\ R.ts.queue = S.ts.queue /\ R.ts.index = S.ts.index
            /\ R.ts.tfi = S.ts.tfi /\ R.ts.tai = X /\ R.ts.usf = S.ts.usf
  BY DEF Sched, Tables
LEMMA PutUsf ==
  ASSUME NEW S \in Sched, NEW X \in [Slot -> [1..MaxUsf - 1 -> Owner]]
  PROVE  LET R == [S EXCEPT !.ts.usf = X]
         IN /\ R \in Sched /\ R.tbf = S.tbf /\ R.ts.queue = S.ts.queue /\ R.ts.index = S.ts.index
            /\ R.ts.tfi = S.ts.tfi /\ R.ts.tai = S.ts.tai /\ R.ts.usf = X
  BY DEF Sched, Tables
LEMMA PutTfi ==
  ASSUME NEW S \in Sched, NEW X \in [Dir -> [Trx -> [0..MaxTfi - 1 -> Owner]]]
  PROVE  LET R == [S EXCEPT !.ts.tfi = X]
         IN /\ R \in Sched /\ R.tbf = S.tbf /\ R.ts.queue = S.ts.queue /\ R.ts.index = S.ts.index
            /\ R.ts.tfi = X /\ R.ts.tai = S.ts.tai /\ R.ts.usf = S.ts.usf
  BY DEF Sched, Tables

\* A number that is free in a table, or the invalid one, which is in none.
LEMMA FirstFreeIs ==
  ASSUME NEW lo \in Nat, NEW hi \in Nat, hi < 255, NEW table \in [lo..hi -> Owner]
  PROVE  /\ FirstFree(table) \in lo..hi \cup {Invalid} /\ FirstFree(table) \in Nat
         /\ FirstFree(table) # Invalid => FirstFree(table) \in lo..hi /\ table[FirstFree(table)] = NoTbf
<1> DEFINE free == {i \in DOMAIN table : table[i] = NoTbf}
<1>1. FirstFree(table) = IF free = {} THEN Invalid ELSE Min(free)
  BY DEF FirstFree
<1>2. free \in SUBSET Nat /\ free \subseteq lo..hi /\ \A i \in free : table[i] = NoTbf
  OBVIOUS
<1> HIDE DEF free
<1>3. CASE free = {}
  BY <1>1, <1>3 DEF Invalid
<1>4. CASE free # {}
  <2>1. Min(free) \in free
    BY <1>2, <1>4, MinIs
  <2> QED
    BY <1>1, <1>2, <1>4, <2>1
<1> QED
  BY <1>3, <1>4

LEMMA FillIs ==
  ASSUME NEW lo, NEW hi, NEW table \in [lo..hi -> Owner], NEW t \in Owner, NEW i
  PROVE  /\ Fill(table, i, t) \in [lo..hi -> Owner]
         /\ \A n \in lo..hi : Fill(table, i, t)[n] = IF n = i THEN t ELSE table[n]
  BY DEF Fill

TaiReleased(S, t, R) ==
  /\ R \in Sched /\ R.tbf = S.tbf /\ R.ts.queue = S.ts.queue /\ R.ts.index = S.ts.index
  /\ R.ts.tfi = S.ts.tfi /\ R.ts.usf = S.ts.usf
  /\ \A s \in Slot, n \in 0..MaxTai - 1 :
       R.ts.tai[s][n] = IF s = <<S.tbf[t].trx, S.tbf[t].taiTs>> /\ n = S.tbf[t].tai
                        THEN NoTbf ELSE S.ts.tai[s][n]
LEMMA ReleaseTAIIs ==
  ASSUME NEW S \in Sched, NEW t \in Tbf
  PROVE  TaiReleased(S, t, ReleaseTAI(S, t))
<1> DEFINE at == <<S.tbf[t].trx, S.tbf[t].taiTs>>
           X == [s \in Slot |-> IF s = at THEN Fill(S.ts.tai[s], S.tbf[t].tai, NoTbf) ELSE S.ts.tai[s]]
           R == ReleaseTAI(S, t)
<1>1. \A s \in Slot : S.ts.tai[s] \in [0..MaxTai - 1 -> Owner]
  BY SchedIs
<1>2. NoTbf \in Owner
  BY DEF Owner
<1>3. X \in [Slot -> [0..MaxTai - 1 -> Owner]]
  BY <1>1, <1>2, FillIs
<1>4. \A s \in Slot, n \in 0..MaxTai - 1 :
        X[s][n] = IF s = at /\ n = S.tbf[t].tai THEN NoTbf ELSE S.ts.tai[s][n]
  BY <1>1, <1>2, FillIs
<1>5. R = [S EXCEPT !.ts.tai = X]
  BY DEF ReleaseTAI
<1> HIDE DEF X, R
<1>6. /\ R \in Sched /\ R.tbf = S.tbf /\ R.ts.queue = S.ts.queue /\ R.ts.index = S.ts.index
      /\ R.ts.tfi = S.ts.tfi /\ R.ts.tai = X /\ R.ts.usf = S.ts.usf
  BY <1>3, <1>5, PutTai
<1> QED
  BY <1>4, <1>6 DEF TaiReleased, R

UsfReleased(S, t, at, R) ==
  /\ R \in Sched /\ R.tbf = S.tbf /\ R.ts.queue = S.ts.queue /\ R.ts.index = S.ts.index
  /\ R.ts.tfi = S.ts.tfi /\ R.ts.tai = S.ts.tai
  /\ \A s \in Slot, n \in 1..MaxUsf - 1 :
       R.ts.usf[s][n] = IF t \in UlTbf /\ s \in at /\ n = S.tbf[t].usf[s[2]]
                        THEN NoTbf ELSE S.ts.usf[s][n]
LEMMA ReleaseUSFIs ==
  ASSUME NEW S \in Sched, NEW t \in Tbf, NEW at
  PROVE  UsfReleased(S, t, at, ReleaseUSF(S, t, at))
<1> DEFINE X == [s \in Slot |-> IF s \in at THEN Fill(S.ts.usf[s], S.tbf[t].usf[s[2]], NoTbf)
                                ELSE S.ts.usf[s]]
           R == ReleaseUSF(S, t, at)
<1>1. \A s \in Slot : S.ts.usf[s] \in [1..MaxUsf - 1 -> Owner]
  BY SchedIs
<1>2. NoTbf \in Owner
  BY DEF Owner
<1>3. X \in [Slot -> [1..MaxUsf - 1 -> Owner]]
  BY <1>1, <1>2, FillIs
<1>4. \A s \in Slot, n \in 1..MaxUsf - 1 :
        X[s][n] = IF s \in at /\ n = S.tbf[t].usf[s[2]] THEN NoTbf ELSE S.ts.usf[s][n]
  BY <1>1, <1>2, FillIs
<1>5. CASE t \in DlTbf
  <2>1. R = S /\ t \notin UlTbf
    BY <1>5, Constants DEF ReleaseUSF
  <2> QED
    BY <2>1 DEF UsfReleased
<1>6. CASE t \notin DlTbf
  <2>1. R = [S EXCEPT !.ts.usf = X] /\ t \in UlTbf
    BY <1>6, Constants DEF ReleaseUSF
  <2> HIDE DEF X, R
  <2>2. /\ R \in Sched /\ R.tbf = S.tbf /\ R.ts.queue = S.ts.queue /\ R.ts.index = S.ts.index
        /\ R.ts.tfi = S.ts.tfi /\ R.ts.tai = S.ts.tai /\ R.ts.usf = X
    BY <1>3, <2>1, PutUsf
  <2> QED
    BY <1>4, <2>1, <2>2 DEF UsfReleased, R
<1> QED
  BY <1>5, <1>6

TfiTables == [Dir -> [Trx -> [0..MaxTfi - 1 -> Owner]]]
PutTfiAt(f, a, b, c, v) == [f EXCEPT ![a][b][c] = v]

LEMMA PutOneTfi ==
  ASSUME NEW f \in TfiTables,
         NEW a \in Dir, NEW b \in Trx, NEW c \in 0..MaxTfi - 1, NEW v \in Owner
  PROVE  /\ PutTfiAt(f, a, b, c, v) \in TfiTables
         /\ \A e \in Dir, y \in Trx, m \in 0..MaxTfi - 1 :
              PutTfiAt(f, a, b, c, v)[e][y][m] = IF e = a /\ y = b /\ m = c THEN v ELSE f[e][y][m]
<1> DEFINE h == [f[a][b] EXCEPT ![c] = v]
           g == [f[a] EXCEPT ![b] = h]
<1>1. h \in [0..MaxTfi - 1 -> Owner] /\ \A n \in 0..MaxTfi - 1 : h[n] = IF n = c THEN v ELSE f[a][b][n]
  BY DEF TfiTables
<1>2. PutTfiAt(f, a, b, c, v) = [f EXCEPT ![a] = g]
  BY DEF PutTfiAt, TfiTables
<1> HIDE DEF h
<1>3. g \in [Trx -> [0..MaxTfi - 1 -> Owner]] /\ \A x \in Trx : g[x] = IF x = b THEN h ELSE f[a][x]
  BY <1>1 DEF TfiTables
<1> HIDE DEF g
<1>4. \A d \in Dir : [f EXCEPT ![a] = g][d] = IF d = a THEN g ELSE f[d]
  BY <1>3 DEF TfiTables
<1> QED
  BY <1>1, <1>2, <1>3, <1>4 DEF TfiTables

TfiReleased(S, t, R) ==
  /\ R \in Sched /\ R.tbf = S.tbf /\ R.ts.queue = S.ts.queue /\ R.ts.index = S.ts.index
  /\ R.ts.tai = S.ts.tai /\ R.ts.usf = S.ts.usf
  /\ \A d \in Dir, x \in Trx, n \in 0..MaxTfi - 1 :
       R.ts.tfi[d][x][n] = IF d = DirOf(t) /\ x = S.tbf[t].trx /\ n = S.tbf[t].tfi
                           THEN NoTbf ELSE S.ts.tfi[d][x][n]
LEMMA ReleaseTFIIs ==
  ASSUME NEW S \in Sched, NEW t \in Tbf
  PROVE  TfiReleased(S, t, ReleaseTFI(S, t))
<1> DEFINE X == [S.ts.tfi EXCEPT ![DirOf(t)][S.tbf[t].trx][S.tbf[t].tfi] = NoTbf]
           R == ReleaseTFI(S, t)
<1>1. NoTbf \in Owner /\ S.ts.tfi \in [Dir -> [Trx -> [0..MaxTfi - 1 -> Owner]]] /\ DirOf(t) \in Dir
  BY SchedIs, Constants DEF Owner
<1>2. CASE S.tbf[t].trx = NullTrx
  <2>1. R = S /\ S.tbf[t].trx \notin Trx
    BY <1>2, Constants DEF ReleaseTFI
  <2> QED
    BY <2>1 DEF TfiReleased
<1>3. CASE S.tbf[t].trx # NullTrx
  <2>1. S.tbf[t].trx \in Trx /\ S.tbf[t].tfi \in 0..MaxTfi - 1
    BY <1>3, ObjectIs
  <2>2. /\ X \in [Dir -> [Trx -> [0..MaxTfi - 1 -> Owner]]]
        /\ \A d \in Dir, x \in Trx, n \in 0..MaxTfi - 1 :
             X[d][x][n] = IF d = DirOf(t) /\ x = S.tbf[t].trx /\ n = S.tbf[t].tfi
                          THEN NoTbf ELSE S.ts.tfi[d][x][n]
    <3> DEFINE d0 == DirOf(t)
               x0 == S.tbf[t].trx
               n0 == S.tbf[t].tfi
               f == S.ts.tfi
               X0 == [f EXCEPT ![d0][x0][n0] = NoTbf]
    <3>1. d0 \in Dir /\ x0 \in Trx /\ n0 \in 0..MaxTfi - 1 /\ f \in TfiTables /\ NoTbf \in Owner
      BY <1>1, <2>1 DEF TfiTables
    <3> HIDE DEF d0, x0, n0, f
    <3>2. /\ X0 \in TfiTables
          /\ \A d \in Dir, x \in Trx, n \in 0..MaxTfi - 1 :
               X0[d][x][n] = IF d = d0 /\ x = x0 /\ n = n0 THEN NoTbf ELSE f[d][x][n]
      <4>1. X0 = PutTfiAt(f, d0, x0, n0, NoTbf)
        BY DEF PutTfiAt
      <4> HIDE DEF X0
      <4> QED
        BY <3>1, <4>1, PutOneTfi
    <3> QED
      BY <3>2 DEF d0, x0, n0, f, TfiTables
  <2>4. R = [S EXCEPT !.ts.tfi = X]
    BY <1>3 DEF ReleaseTFI
  <2> HIDE DEF X, R
  <2>5. /\ R \in Sched /\ R.tbf = S.tbf /\ R.ts.queue = S.ts.queue /\ R.ts.index = S.ts.index
        /\ R.ts.tfi = X /\ R.ts.tai = S.ts.tai /\ R.ts.usf = S.ts.usf
    BY <2>2, <2>4, PutTfi
  <2> QED
    BY <2>2, <2>5 DEF TfiReleased, R
<1> QED
  BY <1>2, <1>3

\* R is S where t may have got a TFI of its transceiver.
TfiGiven(S, t, R) ==
  /\ R \in Sched /\ R.ts.queue = S.ts.queue /\ R.ts.index = S.ts.index
  /\ R.ts.tai = S.ts.tai /\ R.ts.usf = S.ts.usf
  /\ \E n \in 0..MaxTfi - 1 : R.tbf = [S.tbf EXCEPT ![t] = [S.tbf[t] EXCEPT !.tfi = n]]
  /\ \A d \in Dir, x \in Trx, n \in 0..MaxTfi - 1 :
       \/ R.ts.tfi[d][x][n] = S.ts.tfi[d][x][n]
       \/ R.ts.tfi[d][x][n] = t /\ d = DirOf(t) /\ x = R.tbf[t].trx /\ n = R.tbf[t].tfi
LEMMA AllocateTFIIs ==
  ASSUME NEW S \in Sched, NEW t \in Tbf, S.tbf[t].trx \in Trx
  PROVE  TfiGiven(S, t, AllocateTFI(S, t))
<1> DEFINE d == DirOf(t)
           x == S.tbf[t].trx
           n == FirstFree(S.ts.tfi[d][x])
           X == [S.ts.tfi EXCEPT ![d][x][n] = t]
           o == [S.tbf[t] EXCEPT !.tfi = n]
           P == [S EXCEPT !.ts.tfi = X]
           R == AllocateTFI(S, t)
<1>1. d \in Dir /\ x \in Trx /\ t \in Owner /\ MaxTfi - 1 \in Nat /\ MaxTfi - 1 < 255 /\ 0 \in Nat
  BY Constants DEF Owner
<1>2. S.ts.tfi \in [Dir -> [Trx -> [0..MaxTfi - 1 -> Owner]]] /\ S.tbf \in [Tbf -> Object] /\ S.tbf[t] \in Object
  BY SchedIs
<1>3. S.ts.tfi[d][x] \in [0..MaxTfi - 1 -> Owner]
  BY <1>1, <1>2
<1>4. CASE n = Invalid
  <2>1. R = S
    BY <1>4 DEF AllocateTFI
  <2>2. S.tbf[t] = [S.tbf[t] EXCEPT !.tfi = S.tbf[t].tfi] /\ S.tbf[t].tfi \in 0..MaxTfi - 1
    BY <1>2 DEF Object
  <2>3. S.tbf = [S.tbf EXCEPT ![t] = [S.tbf[t] EXCEPT !.tfi = S.tbf[t].tfi]]
    BY <1>2, <2>2
  <2> QED
    BY <2>1, <2>2, <2>3 DEF TfiGiven
<1>5. CASE n # Invalid
  <2>1. n \in 0..MaxTfi - 1
    <3> HIDE DEF d, x
    <3> QED
      BY <1>1, <1>3, <1>5, FirstFreeIs
  <2>2. R = [P EXCEPT !.tbf[t].tfi = n]
    BY <1>5 DEF AllocateTFI
  <2> HIDE DEF n, R
  <2>3. /\ X \in [Dir -> [Trx -> [0..MaxTfi - 1 -> Owner]]]
        /\ \A e \in Dir, y \in Trx, m \in 0..MaxTfi - 1 :
             X[e][y][m] = IF e = d /\ y = x /\ m = n THEN t ELSE S.ts.tfi[e][y][m]
    <3> DEFINE d0 == d
               x0 == x
               n0 == n
               f == S.ts.tfi
               X0 == [f EXCEPT ![d0][x0][n0] = t]
    <3>1. d0 \in Dir /\ x0 \in Trx /\ n0 \in 0..MaxTfi - 1 /\ f \in TfiTables /\ t \in Owner
      BY <1>1, <1>2, <2>1 DEF TfiTables
    <3> HIDE DEF d0, x0, n0, f
    <3>2. /\ X0 \in TfiTables
          /\ \A e \in Dir, y \in Trx, m \in 0..MaxTfi - 1 :
               X0[e][y][m] = IF e = d0 /\ y = x0 /\ m = n0 THEN t ELSE f[e][y][m]
      <4>1. X0 = PutTfiAt(f, d0, x0, n0, t)
        BY DEF PutTfiAt
      <4> HIDE DEF X0
      <4> QED
        BY <3>1, <4>1, PutOneTfi
    <3> QED
      BY <3>2 DEF d0, x0, n0, f, TfiTables
  <2>4. o \in Object /\ o.tfi = n /\ o.trx = x
    BY <1>2, <2>1 DEF Object
  <2> HIDE DEF X
  <2>5. /\ P \in Sched /\ P.tbf = S.tbf /\ P.ts.queue = S.ts.queue /\ P.ts.index = S.ts.index
        /\ P.ts.tfi = X /\ P.ts.tai = S.ts.tai /\ P.ts.usf = S.ts.usf
    BY <2>3, PutTfi
  <2> HIDE DEF P
  <2>6. R = [P EXCEPT !.tbf[t] = o]
    BY <2>2, <2>5
  <2> HIDE DEF o
  <2>7. R \in Sched /\ R.ts = P.ts /\ R.tbf = [S.tbf EXCEPT ![t] = o]
    BY <2>4, <2>5, <2>6, PutTbf
  <2>8. R.tbf[t] = o
    BY <1>2, <2>7
  <2>9. \A e \in Dir, y \in Trx, m \in 0..MaxTfi - 1 :
          \/ R.ts.tfi[e][y][m] = S.ts.tfi[e][y][m]
          \/ R.ts.tfi[e][y][m] = t /\ e = DirOf(t) /\ y = R.tbf[t].trx /\ m = R.tbf[t].tfi
    BY <2>3, <2>4, <2>5, <2>7, <2>8
  <2>10. \E m \in 0..MaxTfi - 1 : R.tbf = [S.tbf EXCEPT ![t] = [S.tbf[t] EXCEPT !.tfi = m]]
    BY <2>1, <2>7 DEF o
  <2> QED
    BY <2>5, <2>7, <2>9, <2>10 DEF TfiGiven, R
<1> QED
  BY <1>4, <1>5

\* R is S where t has asked for a TAI and USFs on its slots.
TaiUsfGiven(S, t, R) ==
  /\ R \in Sched /\ R.ts.queue = S.ts.queue /\ R.ts.index = S.ts.index /\ R.ts.tfi = S.ts.tfi
  /\ \A u \in Tbf \ {t} : R.tbf[u] = S.tbf[u]
  /\ R.tbf[t].state = S.tbf[t].state /\ R.tbf[t].ms = S.tbf[t].ms /\ R.tbf[t].qos = S.tbf[t].qos
  /\ R.tbf[t].trx = S.tbf[t].trx /\ R.tbf[t].slots = S.tbf[t].slots /\ R.tbf[t].tfi = S.tbf[t].tfi
  /\ \A s \in Slot, n \in 0..MaxTai - 1 :
       \/ R.ts.tai[s][n] = S.ts.tai[s][n]
       \/ R.ts.tai[s][n] = t /\ s = <<R.tbf[t].trx, R.tbf[t].taiTs>> /\ n = R.tbf[t].tai
  /\ \A s \in Slot, n \in 1..MaxUsf - 1 :
       \/ R.ts.usf[s][n] = S.ts.usf[s][n]
       \/ R.ts.usf[s][n] = t /\ t \in UlTbf /\ s \in SlotsOf(R, t) /\ n = R.tbf[t].usf[s[2]]
LEMMA AllocateTaiUsfIs ==
  ASSUME NEW S \in Sched, NEW t \in Tbf, S.tbf[t].slots # {},
         \A n \in S.tbf[t].slots : <<S.tbf[t].trx, n>> \in Slot
  PROVE  TaiUsfGiven(S, t, AllocateTaiUsf(S, t))
<1> DEFINE x == S.tbf[t].trx
           first == Min(S.tbf[t].slots)
           at == <<x, first>>
           tai == FirstFree(S.ts.tai[at])
           new == [s \in Slot |-> FirstFree(S.ts.usf[s])]
           mine == IF t \in UlTbf THEN SlotsOf(S, t) ELSE {}
           usf == [n \in Ts |-> IF <<x, n>> \in mine THEN new[<<x, n>>] ELSE S.tbf[t].usf[n]]
           X == [S.ts.tai EXCEPT ![at] = Fill(@, tai, t)]
           Y == [s \in Slot |-> IF s \in mine THEN Fill(S.ts.usf[s], new[s], t) ELSE S.ts.usf[s]]
           o == [S.tbf[t] EXCEPT !.tai = tai, !.taiTs = first, !.usf = usf]
           R == AllocateTaiUsf(S, t)
<1>1. /\ S.tbf \in [Tbf -> Object] /\ S.tbf[t] \in Object /\ S.tbf[t].usf \in [Ts -> 0..MaxUsf - 1 \cup {Invalid}]
      /\ S.tbf[t].slots \subseteq Ts /\ S = [tbf |-> S.tbf, ts |-> S.ts] /\ S.ts \in Tables
  BY SchedIs, ObjectIs
<1>2. first \in S.tbf[t].slots /\ first \in Ts /\ at \in Slot
  <2>1. S.tbf[t].slots \in SUBSET Nat
    BY <1>1, Constants
  <2> QED
    BY <1>1, <2>1, MinIs
<1>3. /\ t \in Owner /\ MaxTai - 1 \in Nat /\ MaxTai - 1 < 255 /\ MaxUsf - 1 \in Nat /\ MaxUsf - 1 < 255
      /\ 0 \in Nat /\ 1 \in Nat
  BY Constants DEF Owner
<1>4. \A s \in Slot : S.ts.tai[s] \in [0..MaxTai - 1 -> Owner] /\ S.ts.usf[s] \in [1..MaxUsf - 1 -> Owner]
  BY SchedIs
<1>5. tai \in 0..MaxTai - 1 \cup {Invalid}
  <2> HIDE DEF at
  <2> QED
    BY <1>2, <1>3, <1>4, FirstFreeIs
<1>6. \A s \in Slot : new[s] \in 1..MaxUsf - 1 \cup {Invalid}
  BY <1>3, <1>4, FirstFreeIs
<1>7. mine \subseteq Slot /\ (mine # {} => t \in UlTbf /\ mine = SlotsOf(S, t))
  BY DEF SlotsOf
<1> HIDE DEF new, tai, first, mine
<1>8. usf \in [Ts -> 0..MaxUsf - 1 \cup {Invalid}]
  <2>1. \A n \in Ts : usf[n] \in 0..MaxUsf - 1 \cup {Invalid}
    BY <1>1, <1>3, <1>6, <1>7
  <2> QED
    BY <2>1
<1>9. /\ X \in [Slot -> [0..MaxTai - 1 -> Owner]]
      /\ \A s \in Slot, n \in 0..MaxTai - 1 :
           X[s][n] = IF s = at /\ n = tai THEN t ELSE S.ts.tai[s][n]
  <2>1. S.ts.tai \in [Slot -> [0..MaxTai - 1 -> Owner]]
    BY SchedIs
  <2>2. /\ Fill(S.ts.tai[at], tai, t) \in [0..MaxTai - 1 -> Owner]
        /\ \A n \in 0..MaxTai - 1 : Fill(S.ts.tai[at], tai, t)[n] = IF n = tai THEN t ELSE S.ts.tai[at][n]
    <3> HIDE DEF at
    <3> QED
      BY <1>2, <1>3, <1>4, FillIs
  <2> HIDE DEF at
  <2> QED
    BY <1>2, <2>1, <2>2
<1>10. /\ Y \in [Slot -> [1..MaxUsf - 1 -> Owner]]
       /\ \A s \in Slot, n \in 1..MaxUsf - 1 :
            Y[s][n] = IF s \in mine /\ n = new[s] THEN t ELSE S.ts.usf[s][n]
  BY <1>3, <1>4, FillIs
<1>11. R = [tbf |-> [S.tbf EXCEPT ![t] = o], ts |-> [S.ts EXCEPT !.tai = X, !.usf = Y]]
  <2> DEFINE R0 == [S EXCEPT
        !.tbf[t].tai = tai, !.tbf[t].taiTs = first,
        !.ts.tai[at] = Fill(@, tai, t),
        !.tbf[t].usf = [n \in Ts |-> IF <<x, n>> \in mine THEN FirstFree(S.ts.usf[<<x, n>>]) ELSE @[n]],
        !.ts.usf = [s \in Slot |-> IF s \in mine THEN Fill(@[s], FirstFree(S.ts.usf[s]), t) ELSE @[s]]]
             F == [n \in Ts |-> IF <<x, n>> \in mine THEN FirstFree(S.ts.usf[<<x, n>>]) ELSE S.tbf[t].usf[n]]
             G == [s \in Slot |-> IF s \in mine THEN Fill(S.ts.usf[s], FirstFree(S.ts.usf[s]), t)
                                  ELSE S.ts.usf[s]]
             S1 == [S EXCEPT !.tbf[t].tai = tai]
             S2 == [S1 EXCEPT !.tbf[t].taiTs = first]
             S3 == [S2 EXCEPT !.ts.tai[at] = Fill(S.ts.tai[at], tai, t)]
             S4 == [S3 EXCEPT !.tbf[t].usf = F]
             S5 == [S4 EXCEPT !.ts.usf = G]
  <2>1. R = R0
    BY DEF AllocateTaiUsf, tai, first, mine
  <2>2. R0 = S5
    OBVIOUS
  <2>3. F = usf /\ G = Y
    BY <1>7 DEF new
  <2> HIDE DEF R0, F, G
  <2>4. S1 = [tbf |-> [S.tbf EXCEPT ![t].tai = tai], ts |-> S.ts]
    BY <1>1
  <2> HIDE DEF S1
  <2>5. S2 = [tbf |-> [S.tbf EXCEPT ![t].tai = tai, ![t].taiTs = first], ts |-> S.ts]
    BY <2>4
  <2> HIDE DEF S2
  <2>6. S3 = [tbf |-> [S.tbf EXCEPT ![t].tai = tai, ![t].taiTs = first], ts |-> [S.ts EXCEPT !.tai = X]]
    BY <2>5
  <2> HIDE DEF S3
  <2>7. S4 = [tbf |-> [S.tbf EXCEPT ![t].tai = tai, ![t].taiTs = first, ![t].usf = F],
              ts |-> [S.ts EXCEPT !.tai = X]]
    BY SMTT(30), <2>6
  <2> HIDE DEF S4
  <2>8. S5 = [tbf |-> [S.tbf EXCEPT ![t].tai = tai, ![t].taiTs = first, ![t].usf = F],
              ts |-> [S.ts EXCEPT !.tai = X, !.usf = G]]
    BY SMTT(30), <2>7
  <2>9. [S.tbf EXCEPT ![t].tai = tai, ![t].taiTs = first, ![t].usf = F] =
          [S.tbf EXCEPT ![t] = [S.tbf[t] EXCEPT !.tai = tai, !.taiTs = first, !.usf = F]]
    BY <1>1
  <2> QED
    BY <2>1, <2>2, <2>3, <2>8, <2>9
<1>12. o \in Object
  BY <1>1, <1>2, <1>5, <1>8 DEF Object
<1> HIDE DEF R, usf
<1>13. /\ R.tbf[t] = o /\ \A u \in Tbf \ {t} : R.tbf[u] = S.tbf[u]
       /\ R.tbf \in [Tbf -> Object] /\ R.ts = [S.ts EXCEPT !.tai = X, !.usf = Y]
  BY <1>1, <1>11, <1>12
<1>14. /\ o.state = S.tbf[t].state /\ o.ms = S.tbf[t].ms /\ o.qos = S.tbf[t].qos
       /\ o.trx = x /\ o.slots = S.tbf[t].slots /\ o.tfi = S.tbf[t].tfi
       /\ o.tai = tai /\ o.taiTs = first /\ o.usf = usf
  BY <1>1 DEF Object
<1> HIDE DEF o, X, Y
<1>15. /\ R.ts \in Tables /\ R.ts.queue = S.ts.queue /\ R.ts.index = S.ts.index /\ R.ts.tfi = S.ts.tfi
       /\ R.ts.tai = X /\ R.ts.usf = Y
  BY <1>1, <1>9, <1>10, <1>13 DEF Tables
<1>16. R \in Sched
  <2>1. R = [tbf |-> R.tbf, ts |-> R.ts]
    BY <1>11
  <2> QED
    BY <2>1, <1>13, <1>15 DEF Sched
<1>17. \A s \in Slot, n \in 0..MaxTai - 1 :
         \/ R.ts.tai[s][n] = S.ts.tai[s][n]
         \/ R.ts.tai[s][n] = t /\ s = <<R.tbf[t].trx, R.tbf[t].taiTs>> /\ n = R.tbf[t].tai
  BY <1>9, <1>13, <1>14, <1>15
<1>18. \A s \in Slot, n \in 1..MaxUsf - 1 :
         \/ R.ts.usf[s][n] = S.ts.usf[s][n]
         \/ R.ts.usf[s][n] = t /\ t \in UlTbf /\ s \in SlotsOf(R, t) /\ n = R.tbf[t].usf[s[2]]
  <2> SUFFICES ASSUME NEW s \in Slot, s \in mine
               PROVE  t \in UlTbf /\ s \in SlotsOf(R, t) /\ R.tbf[t].usf[s[2]] = new[s]
    BY <1>10, <1>15
  <2>1. SlotsOf(R, t) = SlotsOf(S, t)
    BY <1>13, <1>14 DEF SlotsOf
  <2>2. s[1] = x /\ s[2] \in Ts /\ s = <<x, s[2]>>
    BY <1>7, Constants DEF SlotsOf
  <2>3. usf[s[2]] = new[s]
    BY <2>2 DEF usf
  <2> QED
    BY <1>7, <1>13, <1>14, <2>1, <2>3
<1> QED
  BY <1>13, <1>14, <1>15, <1>16, <1>17, <1>18 DEF TaiUsfGiven, R

-----------------------------------------------------------------------------
(* What the requests do, whatever the state: the pool, by fields.            *)

OthersKept(S, t, R) == \A u \in Tbf \ {t} : R.tbf[u] = S.tbf[u]
SameUser(S, t, R) ==
  R.tbf[t].state = S.tbf[t].state /\ R.tbf[t].ms = S.tbf[t].ms /\ R.tbf[t].qos = S.tbf[t].qos

\* The entries of t are gone from what were its slots, and so are its numbers.
Deallocated(S, t, R) ==
  /\ R \in Sched /\ OthersKept(S, t, R) /\ SameUser(S, t, R)
  /\ R.tbf[t].trx = S.tbf[t].trx /\ R.tbf[t].slots = {}
  /\ R.tbf[t].tfi = S.tbf[t].tfi /\ R.tbf[t].tai = S.tbf[t].tai /\ R.tbf[t].taiTs = S.tbf[t].taiTs
  /\ R.ts.index = S.ts.index
  /\ \A s \in Slot, d \in Dir, l \in Level :
       R.ts.queue[s][d][l] = IF s \in SlotsOf(S, t) /\ d = DirOf(t)
                             THEN DeallocateEntries(S.ts.queue[s][d][l], t)
                             ELSE S.ts.queue[s][d][l]
  /\ \A d \in Dir, x \in Trx, n \in 0..MaxTfi - 1 :
       R.ts.tfi[d][x][n] = IF d = DirOf(t) /\ x = S.tbf[t].trx /\ n = S.tbf[t].tfi
                           THEN NoTbf ELSE S.ts.tfi[d][x][n]
  /\ \A s \in Slot, n \in 0..MaxTai - 1 :
       R.ts.tai[s][n] = IF s = <<S.tbf[t].trx, S.tbf[t].taiTs>> /\ n = S.tbf[t].tai
                        THEN NoTbf ELSE S.ts.tai[s][n]
  /\ \A s \in Slot, n \in 1..MaxUsf - 1 :
       R.ts.usf[s][n] = IF t \in UlTbf /\ s \in SlotsOf(S, t) /\ n = S.tbf[t].usf[s[2]]
                        THEN NoTbf ELSE S.ts.usf[s][n]

LEMMA DeallocateUserIs ==
  ASSUME NEW S \in Sched, NEW t \in Tbf
  PROVE  Deallocated(S, t, DeallocateUser(S, t))
<1> DEFINE L == LeaveQueues(S, t)
           at == SlotsOf(S, t)
           P1 == ReleaseUSF(L, t, at)
           P2 == ReleaseTAI(P1, t)
           R == ReleaseTFI(P2, t)
<1>1. DeallocateUser(S, t) = R
  <2>1. DeallocateUser(S, t) =
          With(L, LAMBDA left : ReleaseTFI(ReleaseTAI(ReleaseUSF(left, t, at), t), t))
    BY DEF DeallocateUser
  <2> HIDE DEF L, at
  <2> QED
    BY <2>1 DEF With
<1> HIDE DEF R, P2, P1, L, at
<1>2. Left(S, t, L)
  BY LeaveQueuesIs DEF L
<1>3. L \in Sched
  BY <1>2 DEF Left
<1>4. UsfReleased(L, t, at, P1)
  BY <1>3, ReleaseUSFIs DEF P1
<1>5. P1 \in Sched
  BY <1>4 DEF UsfReleased
<1>6. TaiReleased(P1, t, P2)
  BY <1>5, ReleaseTAIIs DEF P2
<1>7. P2 \in Sched
  BY <1>6 DEF TaiReleased
<1>8. TfiReleased(P2, t, R)
  BY <1>7, ReleaseTFIIs DEF R
<1>9. R \in Sched /\ R.tbf = L.tbf /\ R.ts.queue = L.ts.queue /\ R.ts.index = S.ts.index
  BY <1>2, <1>4, <1>6, <1>8 DEF UsfReleased, TaiReleased, TfiReleased, Left, SameTables
<1>10. P1.tbf = L.tbf /\ P2.tbf = L.tbf
  BY <1>4, <1>6 DEF UsfReleased, TaiReleased
<1>11. /\ OthersKept(S, t, L) /\ SameUser(S, t, L) /\ L.tbf[t].trx = S.tbf[t].trx /\ L.tbf[t].slots = {}
       /\ L.tbf[t].usf = S.tbf[t].usf /\ L.tbf[t].tfi = S.tbf[t].tfi /\ L.tbf[t].tai = S.tbf[t].tai
       /\ L.tbf[t].taiTs = S.tbf[t].taiTs
  <2>1. L.tbf = [S.tbf EXCEPT ![t] = [S.tbf[t] EXCEPT !.slots = {}]]
    BY <1>2 DEF Left
  <2>2. S.tbf \in [Tbf -> Object] /\ S.tbf[t] \in Object
    BY SchedIs
  <2>3. L.tbf[t] = [S.tbf[t] EXCEPT !.slots = {}] /\ \A u \in Tbf \ {t} : L.tbf[u] = S.tbf[u]
    BY <2>1, <2>2
  <2> QED
    BY <2>2, <2>3 DEF Object, OthersKept, SameUser
<1>12. \A d \in Dir, x \in Trx, n \in 0..MaxTfi - 1 :
         R.ts.tfi[d][x][n] = IF d = DirOf(t) /\ x = S.tbf[t].trx /\ n = S.tbf[t].tfi
                             THEN NoTbf ELSE S.ts.tfi[d][x][n]
  <2>1. P2.ts.tfi = S.ts.tfi
    BY <1>2, <1>4, <1>6 DEF UsfReleased, TaiReleased, Left, SameTables
  <2> QED
    BY <1>8, <1>10, <1>11, <2>1 DEF TfiReleased
<1>13. \A s \in Slot, n \in 0..MaxTai - 1 :
         R.ts.tai[s][n] = IF s = <<S.tbf[t].trx, S.tbf[t].taiTs>> /\ n = S.tbf[t].tai
                          THEN NoTbf ELSE S.ts.tai[s][n]
  <2>1. P1.ts.tai = S.ts.tai /\ R.ts.tai = P2.ts.tai
    BY <1>2, <1>4, <1>8 DEF UsfReleased, TfiReleased, Left, SameTables
  <2> QED
    BY <1>6, <1>10, <1>11, <2>1 DEF TaiReleased
<1>14. \A s \in Slot, n \in 1..MaxUsf - 1 :
         R.ts.usf[s][n] = IF t \in UlTbf /\ s \in SlotsOf(S, t) /\ n = S.tbf[t].usf[s[2]]
                          THEN NoTbf ELSE S.ts.usf[s][n]
  <2>1. L.ts.usf = S.ts.usf /\ R.ts.usf = P1.ts.usf
    BY <1>2, <1>6, <1>8 DEF TaiReleased, TfiReleased, Left, SameTables
  <2> QED
    BY <1>4, <1>11, <2>1 DEF UsfReleased, at
<1>15. \A s \in Slot, d \in Dir, l \in Level :
         R.ts.queue[s][d][l] = IF s \in SlotsOf(S, t) /\ d = DirOf(t)
                               THEN DeallocateEntries(S.ts.queue[s][d][l], t)
                               ELSE S.ts.queue[s][d][l]
  BY <1>2, <1>9 DEF Left
<1>16. Deallocated(S, t, R)
  BY <1>9, <1>11, <1>12, <1>13, <1>14, <1>15 DEF Deallocated, OthersKept, SameUser
<1> QED
  BY <1>1, <1>16

LEMMA ReleaseTbfIs ==
  ASSUME NEW S \in Sched, NEW t \in Tbf
  PROVE  LET D == DeallocateUser(S, t)
             R == ReleaseTbf(S, t)
         IN /\ Deallocated(S, t, D) /\ R \in Sched /\ R.ts = D.ts
            /\ OthersKept(S, t, R) /\ R.tbf[t].state = "FREE" /\ R.tbf[t].trx = NullTrx
<1> DEFINE D == DeallocateUser(S, t)
           o == FreeObject(D.tbf[t].tfi, D.tbf[t].tai, D.tbf[t].taiTs)
           R == ReleaseTbf(S, t)
<1>1. Deallocated(S, t, D)
  BY DeallocateUserIs
<1>2. R = [D EXCEPT !.tbf[t] = o]
  BY DEF ReleaseTbf
<1> HIDE DEF D, R
<1>3. D \in Sched /\ OthersKept(S, t, D)
  BY <1>1 DEF Deallocated
<1>4. o \in Object
  <2>1. /\ D.tbf[t].tfi \in 0..MaxTfi - 1 /\ D.tbf[t].tai \in 0..MaxTai - 1 \cup {Invalid}
        /\ D.tbf[t].taiTs \in Ts \cup {Invalid}
    BY <1>3, ObjectIs
  <2>2. (CHOOSE q \in Qos : TRUE) \in Qos
    <3>1. PICK l \in Level : TRUE
      BY SchedulerAssumption
    <3>2. [class |-> 1, level |-> l, prec |-> 1, peak |-> 1] \in Qos
      BY SchedulerAssumption DEF Qos
    <3> QED
      BY <3>2
  <2>3. 0 \in 0..MaxUsf - 1
    BY Constants
  <2> HIDE DEF D
  <2> QED
    BY <2>1, <2>2, <2>3 DEF Object, FreeObject, State
<1>5. o.state = "FREE" /\ o.trx = NullTrx
  BY DEF FreeObject
<1> HIDE DEF o
<1>6. R \in Sched /\ R.ts = D.ts /\ R.tbf = [D.tbf EXCEPT ![t] = o]
  BY <1>2, <1>3, <1>4, PutTbf
<1>7. D.tbf \in [Tbf -> Object]
  BY <1>3, SchedIs
<1>8. R.tbf[t] = o /\ OthersKept(S, t, R)
  BY <1>3, <1>6, <1>7 DEF OthersKept
<1> QED
  BY <1>1, <1>5, <1>6, <1>8 DEF D, R

LEMMA EstablishTbfIs ==
  ASSUME NEW S \in Sched, NEW t \in Tbf, NEW m \in Ms \cup {NoMs}, NEW q \in Qos,
         NEW x \in Trx \cup {NullTrx}
  PROVE  LET R == EstablishTbf(S, t, m, q, x)
         IN /\ R \in Sched /\ R.ts = S.ts /\ OthersKept(S, t, R)
            /\ R.tbf[t].state = (IF t \in UlTbf THEN "ALLOCATED" ELSE "ACTIVATING")
            /\ R.tbf[t].trx = x /\ R.tbf[t].slots = {}
<1> DEFINE state == IF t \in UlTbf THEN "ALLOCATED" ELSE "ACTIVATING"
           usf == IF t \in UlTbf THEN [n \in Ts |-> 0] ELSE S.tbf[t].usf
           o == [S.tbf[t] EXCEPT !.state = state, !.ms = m, !.qos = q, !.trx = x, !.slots = {}, !.usf = usf]
           R == EstablishTbf(S, t, m, q, x)
<1>1. R = [S EXCEPT !.tbf[t] = o]
  BY DEF EstablishTbf
<1>2. state \in State /\ usf \in [Ts -> 0..MaxUsf - 1 \cup {Invalid}]
  <2>1. 0 \in 0..MaxUsf - 1 /\ S.tbf[t].usf \in [Ts -> 0..MaxUsf - 1 \cup {Invalid}]
    BY Constants, ObjectIs
  <2> QED
    BY <2>1 DEF State
<1>3. S.tbf[t] \in Object /\ S.tbf \in [Tbf -> Object]
  BY SchedIs
<1> HIDE DEF R, usf, state
<1>4. o \in Object /\ o.state = state /\ o.trx = x /\ o.slots = {}
  BY <1>2, <1>3 DEF Object
<1> HIDE DEF o
<1>5. R \in Sched /\ R.ts = S.ts /\ R.tbf = [S.tbf EXCEPT ![t] = o]
  BY <1>1, <1>4, PutTbf
<1>6. R.tbf[t] = o /\ OthersKept(S, t, R)
  BY <1>3, <1>5 DEF OthersKept
<1> QED
  BY <1>4, <1>5, <1>6 DEF R, state

\* Allocation for a user without slots: with a slot it goes on to the numbers.
Numbered(t, J, T, R) == T \in Sched /\ TfiGiven(J, t, T) /\ TaiUsfGiven(T, t, R)
Allocated(S, t, q, a) ==
  \E j : /\ Serving(S, t, q, j) /\ a.ok = (j.count > 0)
         /\ j.count = 0 => a.S = j.S
         /\ j.count > 0 => \E T : Numbered(t, j.S, T, a.S)

LEMMA SlotMeansTrx ==
  ASSUME NEW J \in Sched, NEW t \in Tbf, J.tbf[t].slots # {},
         \A n \in J.tbf[t].slots : <<J.tbf[t].trx, n>> \in Slot
  PROVE  J.tbf[t].trx \in Trx /\ \E s \in Slot : J.tbf[t].trx = s[1]
<1>1. PICK n \in J.tbf[t].slots : <<J.tbf[t].trx, n>> \in Slot
  OBVIOUS
<1>2. <<J.tbf[t].trx, n>>[1] = J.tbf[t].trx
  OBVIOUS
<1> QED
  BY <1>1, <1>2, Constants

LEMMA AllocateUserIs ==
  ASSUME NEW S \in Sched, NEW t \in Tbf, S.tbf[t].slots = {}, NEW q \in Qos, NEW peer
  PROVE  Allocated(S, t, q, AllocateUser(S, t, q, peer))
<1> DEFINE j == AllocateSlots(S, t, q, peer)
           T == AllocateTFI(j.S, t)
           R == AllocateTaiUsf(T, t)
           a == AllocateUser(S, t, q, peer)
<1>1. a.ok = (j.count > 0) /\ a.S = IF j.count > 0 THEN R ELSE j.S
  <2>1. a = With(j, LAMBDA job :
              [ok |-> job.count > 0,
               S |-> IF job.count > 0 THEN AllocateTaiUsf(AllocateTFI(job.S, t), t) ELSE job.S])
    BY DEF AllocateUser
  <2> HIDE DEF j, a
  <2>2. a = [ok |-> j.count > 0, S |-> IF j.count > 0 THEN R ELSE j.S]
    BY <2>1 DEF With
  <2> HIDE DEF R
  <2> QED
    BY <2>2
<1>2. Serving(S, t, q, j)
  BY AllocateSlotsIs
<1> HIDE DEF a, j, T, R
<1>3. j.S \in Sched /\ j.count \in Nat
  BY <1>2 DEF Serving
<1>4. ASSUME j.count > 0 PROVE Numbered(t, j.S, T, R)
  <2>1. j.S.tbf[t].slots # {} /\ \A n \in j.S.tbf[t].slots : <<j.S.tbf[t].trx, n>> \in Slot
    BY <1>2, <1>4 DEF Serving
  <2>2. TfiGiven(j.S, t, T)
    BY <1>3, <2>1, SlotMeansTrx, AllocateTFIIs DEF T
  <2>3. T \in Sched /\ T.tbf[t].slots = j.S.tbf[t].slots /\ T.tbf[t].trx = j.S.tbf[t].trx
    <3>1. j.S.tbf \in [Tbf -> Object] /\ j.S.tbf[t] \in Object
      BY <1>3, SchedIs
    <3>2. PICK n \in 0..MaxTfi - 1 : T.tbf = [j.S.tbf EXCEPT ![t] = [j.S.tbf[t] EXCEPT !.tfi = n]]
      BY <2>2 DEF TfiGiven
    <3>3. T.tbf[t] = [j.S.tbf[t] EXCEPT !.tfi = n]
      BY <3>1, <3>2
    <3> QED
      BY <2>2, <3>1, <3>3 DEF TfiGiven, Object
  <2>4. TaiUsfGiven(T, t, R)
    BY <2>1, <2>3, AllocateTaiUsfIs DEF R
  <2> QED
    BY <2>2, <2>3, <2>4 DEF Numbered
<1>5. Allocated(S, t, q, a)
  BY <1>1, <1>2, <1>3, <1>4 DEF Allocated
<1> QED
  BY <1>5 DEF a

\* Of the pool, an allocation changes but the user's slots and numbers.
LEMMA NumberedKeeps ==
  ASSUME NEW J \in Sched, NEW t \in Tbf, NEW T, NEW R, Numbered(t, J, T, R)
  PROVE  /\ R \in Sched /\ OthersKept(J, t, R) /\ SameUser(J, t, R)
         /\ R.tbf[t].trx = J.tbf[t].trx /\ R.tbf[t].slots = J.tbf[t].slots
         /\ R.ts.queue = J.ts.queue /\ R.ts.index = J.ts.index
<1>1. J.tbf \in [Tbf -> Object] /\ J.tbf[t] \in Object
  BY SchedIs
<1>2. PICK n \in 0..MaxTfi - 1 : T.tbf = [J.tbf EXCEPT ![t] = [J.tbf[t] EXCEPT !.tfi = n]]
  BY DEF Numbered, TfiGiven
<1>3. T.tbf[t] = [J.tbf[t] EXCEPT !.tfi = n] /\ \A u \in Tbf \ {t} : T.tbf[u] = J.tbf[u]
  BY <1>1, <1>2
<1>4. /\ T.tbf[t].state = J.tbf[t].state /\ T.tbf[t].ms = J.tbf[t].ms /\ T.tbf[t].qos = J.tbf[t].qos
      /\ T.tbf[t].trx = J.tbf[t].trx /\ T.tbf[t].slots = J.tbf[t].slots
  BY <1>1, <1>3 DEF Object
<1> QED
  BY <1>3, <1>4 DEF Numbered, TfiGiven, TaiUsfGiven, OthersKept, SameUser

LEMMA AllocatedKeeps ==
  ASSUME NEW S \in Sched, NEW t \in Tbf, NEW q, NEW a, Allocated(S, t, q, a)
  PROVE  a.ok \in BOOLEAN /\ a.S \in Sched /\ OthersKept(S, t, a.S) /\ SameUser(S, t, a.S)
<1> PICK j : /\ Serving(S, t, q, j) /\ a.ok = (j.count > 0)
             /\ j.count = 0 => a.S = j.S
             /\ j.count > 0 => \E T : Numbered(t, j.S, T, a.S)
  BY DEF Allocated
<1>1. j.S \in Sched /\ OthersKept(S, t, j.S) /\ SameUser(S, t, j.S) /\ j.count \in Nat
  BY DEF Serving, OthersKept, SameUser, SameBut
<1>2. j.count = 0 \/ j.count > 0
  BY <1>1
<1>3. CASE j.count > 0
  <2>1. a.S \in Sched /\ OthersKept(j.S, t, a.S) /\ SameUser(j.S, t, a.S)
    BY <1>1, <1>3, NumberedKeeps
  <2> QED
    BY <1>1, <2>1 DEF OthersKept, SameUser
<1> QED
  BY <1>1, <1>2, <1>3

\* A request: the TBF is established, allocated slots, and goes on or is free.
Requested(S, t, x, R) ==
  \E E, q, a :
    /\ E \in Sched /\ E.ts = S.ts /\ OthersKept(S, t, E)
    /\ E.tbf[t].state = (IF t \in UlTbf THEN "ALLOCATED" ELSE "ACTIVATING")
    /\ E.tbf[t].trx = x /\ E.tbf[t].slots = {} /\ q \in Qos
    /\ Allocated(E, t, q, a)
    /\ R = ReleaseTbf(a.S, t) \/ (R = a.S /\ a.ok)
LEMMA RequestIs ==
  ASSUME NEW S \in Sched, NEW t \in Tbf, NEW m \in Ms \cup {NoMs}, NEW q \in Qos,
         NEW class \in DOMAIN MultiConfig, NEW x \in Trx \cup {NullTrx}, NEW peer, NEW goOn \in BOOLEAN
  PROVE  Requested(S, t, x, Request(S, t, m, q, class, x, peer, goOn))
<1> DEFINE E == EstablishTbf(S, t, m, q, x)
           w == [q EXCEPT !.class = class]
           a == AllocateUser(E, t, w, peer)
           R == Request(S, t, m, q, class, x, peer, goOn)
<1>1. R = IF a.ok /\ goOn THEN a.S ELSE ReleaseTbf(a.S, t)
  <2>1. R = With(a, LAMBDA b : IF b.ok /\ goOn THEN b.S ELSE ReleaseTbf(b.S, t))
    BY DEF Request
  <2> HIDE DEF a, R
  <2> QED
    BY <2>1 DEF With
<1>2. w \in Qos
  BY DEF Qos
<1>3. /\ E \in Sched /\ E.ts = S.ts /\ OthersKept(S, t, E)
      /\ E.tbf[t].state = (IF t \in UlTbf THEN "ALLOCATED" ELSE "ACTIVATING")
      /\ E.tbf[t].trx = x /\ E.tbf[t].slots = {}
  BY EstablishTbfIs
<1> HIDE DEF E, w
<1>4. Allocated(E, t, w, a)
  BY <1>2, <1>3, AllocateUserIs
<1> HIDE DEF a, R
<1>5. a.ok \in BOOLEAN
  BY <1>3, <1>4, AllocatedKeeps
<1>6. Requested(S, t, x, R)
  BY <1>1, <1>2, <1>3, <1>4, <1>5 DEF Requested
<1> QED
  BY <1>6 DEF R

LEMMA RequestedKeeps ==
  ASSUME NEW S \in Sched, NEW t \in Tbf, NEW x, NEW R, Requested(S, t, x, R)
  PROVE  /\ R \in Sched /\ OthersKept(S, t, R)
         /\ R.tbf[t].state \in {"FREE", IF t \in UlTbf THEN "ALLOCATED" ELSE "ACTIVATING"}
<1> PICK E, q, a :
    /\ E \in Sched /\ E.ts = S.ts /\ OthersKept(S, t, E)
    /\ E.tbf[t].state = (IF t \in UlTbf THEN "ALLOCATED" ELSE "ACTIVATING")
    /\ E.tbf[t].trx = x /\ E.tbf[t].slots = {} /\ q \in Qos
    /\ Allocated(E, t, q, a)
    /\ R = ReleaseTbf(a.S, t) \/ (R = a.S /\ a.ok)
  BY DEF Requested
<1>1. a.S \in Sched /\ OthersKept(E, t, a.S) /\ SameUser(E, t, a.S)
  BY AllocatedKeeps
<1>2. CASE R = ReleaseTbf(a.S, t)
  <2>1. R \in Sched /\ OthersKept(a.S, t, R) /\ R.tbf[t].state = "FREE"
    BY <1>1, <1>2, ReleaseTbfIs
  <2> QED
    BY <1>1, <2>1 DEF OthersKept
<1>3. CASE R = a.S
  BY <1>1, <1>3 DEF OthersKept, SameUser
<1> QED
  BY <1>2, <1>3

-----------------------------------------------------------------------------
(* Reallocation.                                                             *)

\* The queues and the slots of before, after a job that was not better.
Restored(S, t, J, R) ==
  /\ R \in Sched /\ R.ts.queue = S.ts.queue /\ SameTables(J, R)
  /\ OthersKept(J, t, R) /\ SameBut(J.tbf[t], R.tbf[t])
  /\ R.tbf[t].trx = J.tbf[t].trx /\ R.tbf[t].slots = S.tbf[t].slots
Renumbered(S, t, J, R) ==
  \E P, T : /\ P \in Sched /\ T \in Sched
            /\ TaiReleased(J, t, P) /\ UsfReleased(P, t, {s \in Slot : s[1] = S.tbf[t].trx}, T)
            /\ TaiUsfGiven(T, t, R)
Reallocated(S, t, q, a) ==
  \E L, j : /\ Left(S, t, L) /\ Serving(L, t, q, j)
            /\ \/ a.ok = TRUE /\ j.count > 0 /\ Renumbered(S, t, j.S, a.S)
               \/ a.ok = FALSE /\ Restored(S, t, j.S, a.S)

\* The slots and entries that a TBF has are counted with numbers.
LEMMA HadIs ==
  ASSUME NEW S \in Sched, NEW t \in Tbf, NEW q \in Qos
  PROVE  LET had == UNION {{s} \X EntriesOf(S.ts.queue[s][DirOf(t)][q.level], t) : s \in SlotsOf(S, t)}
         IN Cardinality({x[1] : x \in had}) \in Nat /\ Cardinality(had) \in Nat
<1> DEFINE had == UNION {{s} \X EntriesOf(S.ts.queue[s][DirOf(t)][q.level], t) : s \in SlotsOf(S, t)}
           n == NbrEntries[q.level]
<1>1. SlotsOf(S, t) \subseteq Slot /\ DirOf(t) \in Dir /\ q.level \in Level
  BY Constants DEF SlotsOf, Qos
<1>2. \A s \in Slot : EntriesOf(S.ts.queue[s][DirOf(t)][q.level], t) \subseteq 1..n
  BY SMTT(30), <1>1, QueueIs DEF EntriesOf
<1>3. n \in Nat
  BY <1>1, Constants
<1>4. had \subseteq Slot \X (1..n)
  BY <1>1, <1>2
<1> HIDE DEF had
<1>5. \A x \in had : x[1] \in Slot
  BY <1>4
<1>6. {x[1] : x \in had} \subseteq Slot
  BY <1>5
<1>7. IsFiniteSet(Slot) /\ IsFiniteSet(1..n) /\ IsFiniteSet(Slot \X (1..n))
  <2>1. IsFiniteSet(Slot)
    BY SchedulerAssumption
  <2>2. IsFiniteSet(1..n)
    BY <1>3, FS_Interval
  <2> HIDE DEF n
  <2> QED
    BY <2>1, <2>2, FS_Product
<1>8. IsFiniteSet({x[1] : x \in had}) /\ IsFiniteSet(had)
  BY <1>4, <1>6, <1>7, FS_Subset
<1>9. Cardinality({x[1] : x \in had}) \in Nat /\ Cardinality(had) \in Nat
  BY <1>8, FS_CardinalityType
<1> QED
  BY <1>9 DEF had

LEMMA RestoreIs ==
  ASSUME NEW S \in Sched, NEW t \in Tbf, NEW J \in Sched
  PROVE  Restored(S, t, J, [J EXCEPT !.ts.queue = S.ts.queue, !.tbf[t].slots = S.tbf[t].slots])
<1> DEFINE o == [J.tbf[t] EXCEPT !.slots = S.tbf[t].slots]
           P == [J EXCEPT !.ts.queue = S.ts.queue]
           R == [J EXCEPT !.ts.queue = S.ts.queue, !.tbf[t].slots = S.tbf[t].slots]
<1>1. /\ J.tbf \in [Tbf -> Object] /\ J.tbf[t] \in Object /\ S.tbf[t].slots \subseteq Ts
      /\ J = [tbf |-> J.tbf, ts |-> J.ts] /\ J.ts \in Tables
      /\ S.ts.queue \in [Slot -> [Dir -> LevelQueues]] /\ J.ts.users \in [Slot -> [Dir -> Nat]]
  BY SchedIs, ObjectIs
<1>2. o \in Object
  BY <1>1 DEF Object
<1>3. /\ o.state = J.tbf[t].state /\ o.ms = J.tbf[t].ms /\ o.qos = J.tbf[t].qos /\ o.usf = J.tbf[t].usf
      /\ o.tfi = J.tbf[t].tfi /\ o.tai = J.tbf[t].tai /\ o.taiTs = J.tbf[t].taiTs
      /\ o.trx = J.tbf[t].trx /\ o.slots = S.tbf[t].slots
  BY <1>1 DEF Object
<1>4. P \in Sched /\ P.tbf = J.tbf /\ P.ts.queue = S.ts.queue /\ SameTables(J, P)
  BY <1>1, PutQueue
<1>5. R = [P EXCEPT !.tbf[t] = o]
  <2>1. R = [P EXCEPT !.tbf[t].slots = S.tbf[t].slots]
    OBVIOUS
  <2>2. P = [tbf |-> P.tbf, ts |-> P.ts]
    BY <1>4, SchedIs
  <2> HIDE DEF P, R
  <2> QED
    BY <1>4, <2>1, <2>2
<1> HIDE DEF P, R, o
<1>6. R \in Sched /\ R.ts = P.ts /\ R.tbf = [P.tbf EXCEPT ![t] = o]
  BY <1>2, <1>4, <1>5, PutTbf
<1>7. R.tbf[t] = o /\ OthersKept(J, t, R)
  BY <1>1, <1>4, <1>6 DEF OthersKept
<1>8. Restored(S, t, J, R)
  BY <1>3, <1>4, <1>6, <1>7 DEF Restored, SameTables, SameBut
<1> QED
  BY <1>8 DEF R

LEMMA ReallocateIs ==
  ASSUME NEW S \in Sched, NEW t \in Tbf, NEW q \in Qos, NEW peer
  PROVE  Reallocated(S, t, q, AllocateUserIfBetterQoS(S, t, q, peer))
<1> DEFINE had == UNION {{s} \X EntriesOf(S.ts.queue[s][DirOf(t)][q.level], t) : s \in SlotsOf(S, t)}
           oldSlots == Cardinality({x[1] : x \in had})
           oldEntries == Cardinality(had)
           onTrx == {s \in Slot : s[1] = S.tbf[t].trx}
           L == LeaveQueues(S, t)
           j == AllocateSlots(L, t, q, peer)
           P == ReleaseTAI(j.S, t)
           T == ReleaseUSF(P, t, onTrx)
           R == AllocateTaiUsf(T, t)
           Z == [j.S EXCEPT !.ts.queue = S.ts.queue, !.tbf[t].slots = S.tbf[t].slots]
           a == AllocateUserIfBetterQoS(S, t, q, peer)
<1>1. a = IF j.count > oldSlots \/ j.entries > oldEntries
          THEN [ok |-> TRUE, S |-> R] ELSE [ok |-> FALSE, S |-> Z]
  <2>1. a = With(j, LAMBDA job :
              IF job.count > oldSlots \/ job.entries > oldEntries
              THEN [ok |-> TRUE, S |-> AllocateTaiUsf(ReleaseUSF(ReleaseTAI(job.S, t), t, onTrx), t)]
              ELSE [ok |-> FALSE,
                    S |-> [job.S EXCEPT !.ts.queue = S.ts.queue, !.tbf[t].slots = S.tbf[t].slots]])
    BY DEF AllocateUserIfBetterQoS
  <2> HIDE DEF j, a, oldSlots, oldEntries, onTrx
  <2> QED
    BY <2>1 DEF With
<1>2. oldSlots \in Nat /\ oldEntries \in Nat
  BY HadIs
<1>3. Left(S, t, L)
  BY LeaveQueuesIs
<1> HIDE DEF a, Z, R, T, P, j, L, oldSlots, oldEntries, had
<1>4. L \in Sched /\ L.tbf[t].slots = {}
  <2>1. S.tbf \in [Tbf -> Object] /\ S.tbf[t] \in Object
    BY SchedIs
  <2>2. L.tbf[t] = [S.tbf[t] EXCEPT !.slots = {}]
    BY <1>3, <2>1 DEF Left
  <2> QED
    BY <1>3, <2>1, <2>2 DEF Left, Object
<1>5. Serving(L, t, q, j)
  BY <1>4, AllocateSlotsIs DEF j
<1>6. j.S \in Sched /\ j.count \in Nat /\ j.entries \in Nat
  BY <1>5 DEF Serving
<1>7. Restored(S, t, j.S, Z)
  BY <1>6, RestoreIs DEF Z
<1>8. ASSUME j.count > oldSlots \/ j.entries > oldEntries
      PROVE  j.count > 0 /\ Renumbered(S, t, j.S, R)
  <2>1. j.count > 0
    <3>1. j.count = 0 => j.entries = 0
      BY <1>5 DEF Serving
    <3> QED
      BY <1>2, <1>6, <1>8, <3>1
  <2>2. TaiReleased(j.S, t, P)
    BY <1>6, ReleaseTAIIs DEF P
  <2>3. P \in Sched /\ P.tbf = j.S.tbf
    BY <2>2 DEF TaiReleased
  <2>4. UsfReleased(P, t, onTrx, T)
    BY <2>3, ReleaseUSFIs DEF T
  <2>5. T \in Sched /\ T.tbf = j.S.tbf
    BY <2>3, <2>4 DEF UsfReleased
  <2>6. j.S.tbf[t].slots # {} /\ \A n \in j.S.tbf[t].slots : <<j.S.tbf[t].trx, n>> \in Slot
    BY <1>5, <2>1 DEF Serving
  <2>7. TaiUsfGiven(T, t, R)
    BY <2>5, <2>6, AllocateTaiUsfIs DEF R
  <2> QED
    BY <2>1, <2>2, <2>3, <2>4, <2>5, <2>7 DEF Renumbered
<1>9. Reallocated(S, t, q, a)
  <2>1. CASE j.count > oldSlots \/ j.entries > oldEntries
    <3>1. a.ok = TRUE /\ a.S = R
      BY <1>1, <2>1
    <3> QED
      BY <1>3, <1>5, <1>8, <2>1, <3>1 DEF Reallocated
  <2>2. CASE ~ (j.count > oldSlots \/ j.entries > oldEntries)
    <3>1. a.ok = FALSE /\ a.S = Z
      BY <1>1, <2>2
    <3> QED
      BY <1>3, <1>5, <1>7, <3>1 DEF Reallocated
  <2> QED
    BY <2>1, <2>2
<1> QED
  BY <1>9 DEF a

LEMMA ReallocatedKeeps ==
  ASSUME NEW S \in Sched, NEW t \in Tbf, NEW q, NEW a, Reallocated(S, t, q, a)
  PROVE  a.ok \in BOOLEAN /\ a.S \in Sched /\ OthersKept(S, t, a.S) /\ SameUser(S, t, a.S)
<1> PICK L, j : /\ Left(S, t, L) /\ Serving(L, t, q, j)
                /\ \/ a.ok = TRUE /\ j.count > 0 /\ Renumbered(S, t, j.S, a.S)
                   \/ a.ok = FALSE /\ Restored(S, t, j.S, a.S)
  BY DEF Reallocated
<1>1. OthersKept(S, t, L) /\ SameUser(S, t, L)
  <2>1. S.tbf \in [Tbf -> Object] /\ S.tbf[t] \in Object
    BY SchedIs
  <2>2. L.tbf[t] = [S.tbf[t] EXCEPT !.slots = {}] /\ OthersKept(S, t, L)
    BY <2>1 DEF Left, OthersKept
  <2> QED
    BY <2>1, <2>2 DEF SameUser, Object
<1>2. OthersKept(L, t, j.S) /\ SameUser(L, t, j.S)
  BY DEF Serving, OthersKept, SameUser, SameBut
<1>3. a.S \in Sched /\ OthersKept(j.S, t, a.S) /\ SameUser(j.S, t, a.S)
  <2>1. CASE Renumbered(S, t, j.S, a.S)
    <3> PICK P, T :
          /\ TaiReleased(j.S, t, P) /\ UsfReleased(P, t, {s \in Slot : s[1] = S.tbf[t].trx}, T)
          /\ TaiUsfGiven(T, t, a.S)
      BY <2>1 DEF Renumbered
    <3>1. T.tbf = j.S.tbf
      BY DEF TaiReleased, UsfReleased
    <3> QED
      BY <3>1 DEF TaiUsfGiven, OthersKept, SameUser
  <2>2. CASE Restored(S, t, j.S, a.S)
    BY <2>2 DEF Restored, SameUser, SameBut
  <2> QED
    BY <2>1, <2>2
<1> QED
  BY <1>1, <1>2, <1>3 DEF OthersKept, SameUser

-----------------------------------------------------------------------------
(* A request is a few calls one after the other.                             *)

UlState == {"FREE", "ALLOCATED", "INACTIVE"}
UlStates(S) == \A u \in UlTbf : S.tbf[u].state \in UlState
Used(S, t) == S.tbf[t].state # "FREE"

\* Only the state, the mobile and the QoS of a TBF in use have changed.
Touched(S, t, R) ==
  /\ R \in Sched /\ R.ts = S.ts /\ OthersKept(S, t, R) /\ Used(S, t) /\ Used(R, t)
  /\ t \in UlTbf => R.tbf[t].state \in UlState
  /\ R.tbf[t].trx = S.tbf[t].trx /\ R.tbf[t].slots = S.tbf[t].slots /\ R.tbf[t].usf = S.tbf[t].usf
  /\ R.tbf[t].tfi = S.tbf[t].tfi /\ R.tbf[t].tai = S.tbf[t].tai /\ R.tbf[t].taiTs = S.tbf[t].taiTs
\* Only its transceiver.
Moved(S, t, x, R) ==
  /\ R \in Sched /\ R.ts = S.ts /\ OthersKept(S, t, R) /\ SameUser(S, t, R) /\ Used(S, t)
  /\ R.tbf[t].trx = x /\ R.tbf[t].slots = S.tbf[t].slots /\ R.tbf[t].usf = S.tbf[t].usf
  /\ R.tbf[t].tfi = S.tbf[t].tfi /\ R.tbf[t].tai = S.tbf[t].tai /\ R.tbf[t].taiTs = S.tbf[t].taiTs
TrxInUse(S) == {S.tbf[u].trx : u \in {u \in Tbf : Used(S, u)}}

Calls(S, R) ==
  \/ R = S
  \/ \E t \in Tbf : R = ReleaseTbf(S, t)
  \/ \E t \in Tbf, x \in TrxInUse(S) \cup {NullTrx} : ~ Used(S, t) /\ Requested(S, t, x, R)
  \/ \E t \in Tbf : Touched(S, t, R)
  \/ \E t \in Tbf, x \in TrxInUse(S) : Moved(S, t, x, R)
  \/ \E t \in Tbf, q \in Qos : \E a : Used(S, t) /\ Reallocated(S, t, q, a) /\ R = a.S
  \/ \E t \in Tbf, q \in Qos : \E a : Used(S, t) /\ Allocated(DeallocateUser(S, t), t, q, a) /\ R = a.S
Reaches(S, R) == \E S1, S2 : Calls(S, S1) /\ Calls(S1, S2) /\ Calls(S2, R)

Typed(S) == S \in Sched /\ UlStates(S)

LEMMA CallsTyped ==
  ASSUME NEW S, Typed(S), NEW R, Calls(S, R)
  PROVE  Typed(R)
<1>0. S \in Sched /\ UlStates(S) /\ \A u \in UlTbf : u \in Tbf /\ u \notin DlTbf
  BY Constants DEF Typed
<1>1. ASSUME NEW t \in Tbf, R \in Sched, OthersKept(S, t, R), t \in UlTbf => R.tbf[t].state \in UlState
      PROVE  Typed(R)
  BY <1>0, <1>1 DEF Typed, UlStates, OthersKept
<1>2. ASSUME NEW t \in Tbf, R \in Sched, OthersKept(S, t, R), SameUser(S, t, R)
      PROVE  Typed(R)
  BY <1>0, <1>1, <1>2 DEF UlStates, SameUser
<1>3. ASSUME NEW t \in Tbf, R = ReleaseTbf(S, t) PROVE Typed(R)
  <2>1. R \in Sched /\ OthersKept(S, t, R) /\ R.tbf[t].state = "FREE"
    BY <1>0, <1>3, ReleaseTbfIs
  <2> QED
    BY <1>1, <2>1 DEF UlState
<1>4. ASSUME NEW t \in Tbf, NEW x, Requested(S, t, x, R) PROVE Typed(R)
  <2>1. /\ R \in Sched /\ OthersKept(S, t, R)
        /\ R.tbf[t].state \in {"FREE", IF t \in UlTbf THEN "ALLOCATED" ELSE "ACTIVATING"}
    BY <1>0, <1>4, RequestedKeeps
  <2> QED
    BY <1>1, <2>1 DEF UlState
<1>5. ASSUME NEW t \in Tbf, Touched(S, t, R) PROVE Typed(R)
  BY <1>1, <1>5 DEF Touched
<1>6. ASSUME NEW t \in Tbf, NEW x, Moved(S, t, x, R) PROVE Typed(R)
  BY <1>2, <1>6 DEF Moved
<1>7. ASSUME NEW t \in Tbf, NEW q \in Qos, NEW a, Reallocated(S, t, q, a), R = a.S PROVE Typed(R)
  BY <1>0, <1>2, <1>7, ReallocatedKeeps
<1>8. ASSUME NEW t \in Tbf, NEW q \in Qos, NEW a, Allocated(DeallocateUser(S, t), t, q, a), R = a.S
      PROVE  Typed(R)
  <2> DEFINE D == DeallocateUser(S, t)
  <2>1. Deallocated(S, t, D)
    BY <1>0, DeallocateUserIs
  <2> HIDE DEF D
  <2>2. D \in Sched /\ OthersKept(S, t, D) /\ SameUser(S, t, D)
    BY <2>1 DEF Deallocated
  <2>3. R \in Sched /\ OthersKept(D, t, R) /\ SameUser(D, t, R)
    <3>1. Allocated(D, t, q, a)
      BY <1>8 DEF D
    <3> QED
      BY <1>8, <2>2, <3>1, AllocatedKeeps
  <2> QED
    BY <1>2, <2>2, <2>3 DEF OthersKept, SameUser
<1> QED
  BY <1>0, <1>3, <1>4, <1>5, <1>6, <1>7, <1>8 DEF Calls, Typed

LEMMA ReachesTyped ==
  ASSUME NEW S, Typed(S), NEW R, Reaches(S, R)
  PROVE  Typed(R)
<1> PICK S1, S2 : Calls(S, S1) /\ Calls(S1, S2) /\ Calls(S2, R)
  BY DEF Reaches
<1>1. Typed(S1)
  BY CallsTyped
<1>2. Typed(S2)
  BY <1>1, CallsTyped
<1> QED
  BY <1>2, CallsTyped

\* Fewer calls are calls.
LEMMA FewerCalls ==
  ASSUME NEW S
  PROVE  /\ Reaches(S, S) /\ \A R : Calls(S, R) => Reaches(S, R)
         /\ \A R1, R : Calls(S, R1) /\ Calls(R1, R) => Reaches(S, R)
<1>1. \A R : Calls(R, R)
  BY DEF Calls
<1> QED
  BY <1>1 DEF Reaches

\* Changes of the state, the mobile and the QoS.
SameNumbers(o, p) ==
  /\ p.trx = o.trx /\ p.slots = o.slots /\ p.usf = o.usf
  /\ p.tfi = o.tfi /\ p.tai = o.tai /\ p.taiTs = o.taiTs
LEMMA TouchIs ==
  ASSUME NEW S \in Sched, NEW t \in Tbf, NEW o \in Object, SameNumbers(S.tbf[t], o),
         Used(S, t), o.state # "FREE", t \in UlTbf => o.state \in UlState
  PROVE  Touched(S, t, [S EXCEPT !.tbf[t] = o]) /\ [S EXCEPT !.tbf[t] = o].tbf[t] = o
<1> DEFINE R == [S EXCEPT !.tbf[t] = o]
<1>1. S.tbf \in [Tbf -> Object]
  BY SchedIs
<1>2. R \in Sched /\ R.ts = S.ts /\ R.tbf = [S.tbf EXCEPT ![t] = o]
  BY PutTbf
<1> HIDE DEF R
<1>3. R.tbf[t] = o /\ OthersKept(S, t, R)
  BY <1>1, <1>2 DEF OthersKept
<1>4. Touched(S, t, R)
  BY <1>2, <1>3 DEF Touched, Used, SameNumbers
<1> QED
  BY <1>3, <1>4 DEF R

LEMMA MoveIs ==
  ASSUME NEW S \in Sched, NEW t \in Tbf, NEW x \in Trx \cup {NullTrx}, Used(S, t)
  PROVE  Moved(S, t, x, [S EXCEPT !.tbf[t].trx = x])
<1> DEFINE o == [S.tbf[t] EXCEPT !.trx = x]
           R == [S EXCEPT !.tbf[t].trx = x]
<1>1. S.tbf \in [Tbf -> Object] /\ S.tbf[t] \in Object
  BY SchedIs
<1>2. /\ o \in Object /\ o.state = S.tbf[t].state /\ o.ms = S.tbf[t].ms /\ o.qos = S.tbf[t].qos
      /\ o.trx = x /\ o.slots = S.tbf[t].slots /\ o.usf = S.tbf[t].usf
      /\ o.tfi = S.tbf[t].tfi /\ o.tai = S.tbf[t].tai /\ o.taiTs = S.tbf[t].taiTs
  BY <1>1 DEF Object
<1>3. R = [S EXCEPT !.tbf[t] = o]
  BY <1>1
<1> HIDE DEF o, R
<1>4. R \in Sched /\ R.ts = S.ts /\ R.tbf = [S.tbf EXCEPT ![t] = o]
  BY <1>2, <1>3, PutTbf
<1>5. R.tbf[t] = o /\ OthersKept(S, t, R)
  BY <1>1, <1>4 DEF OthersKept
<1>6. Moved(S, t, x, R)
  BY <1>2, <1>4, <1>5 DEF Moved, SameUser
<1> QED
  BY <1>6 DEF R

-----------------------------------------------------------------------------
(* Every request reaches its state in a few calls.                           *)

Moves == \E R : Reaches(Now, R) /\ tbf' = R.tbf /\ ts' = R.ts /\ sent' = sent

LEMMA NowIs ==
  ASSUME Typed(Now)
  PROVE  /\ Now \in Sched /\ Now.tbf = tbf /\ Now.ts = ts
         /\ \A m, pool : pool \subseteq Tbf =>
              /\ OfMs(pool, m) \subseteq Nat
              /\ \A t \in OfMs(pool, m) : t \in pool /\ t \in Tbf /\ tbf[t].state # "FREE" /\ tbf[t].ms = m
         /\ \A t \in Tbf : Used(Now, t) <=> tbf[t].state # "FREE"
BY Constants DEF Typed, Now, OfMs, InUse, Used

LEMMA FoundIs ==
  ASSUME Typed(Now), NEW pool \in SUBSET Tbf, NEW own \in pool, tbf[own].state # "FREE"
  PROVE  /\ FindTbf(pool, tbf[own].tfi) \in pool /\ FindTbf(pool, tbf[own].tfi) \in Tbf
         /\ tbf[FindTbf(pool, tbf[own].tfi)].state # "FREE"
<1> DEFINE T == {t \in InUse(pool) : tbf[t].tfi = tbf[own].tfi}
<1>1. T \subseteq Nat /\ T # {} /\ \A t \in T : t \in pool /\ t \in Tbf /\ tbf[t].state # "FREE"
  BY Constants DEF InUse
<1> HIDE DEF T
<1>2. Min(T) \in T
  BY <1>1, MinIs
<1>3. FindTbf(pool, tbf[own].tfi) = Min(T)
  BY DEF FindTbf, T
<1> QED
  BY <1>1, <1>2, <1>3

LEMMA FreeIs ==
  ASSUME NEW S, NEW pool \in SUBSET Tbf, FreeTbf(S, pool) # {}
  PROVE  /\ Min(FreeTbf(S, pool)) \in pool /\ Min(FreeTbf(S, pool)) \in Tbf
         /\ ~ Used(S, Min(FreeTbf(S, pool)))
<1>1. FreeTbf(S, pool) \subseteq Nat
  BY Constants DEF FreeTbf
<1>2. Min(FreeTbf(S, pool)) \in FreeTbf(S, pool)
  BY <1>1, MinIs
<1> QED
  BY <1>2 DEF FreeTbf, Used

LEMMA BecomesIs ==
  ASSUME NEW R, Becomes(R), Reaches(Now, R)
  PROVE  Moves
BY DEF Becomes, Moves

LEMMA PoolsIs ==
  /\ UlTbf \in SUBSET Tbf /\ DlTbf \in SUBSET Tbf
  /\ \A q \in UlQos \cup DlQos : q \in Qos /\ q.class \in DOMAIN MultiConfig
  /\ 1 \in DOMAIN MultiConfig
<1>1. UlQos \cup DlQos \subseteq Qos /\ 1 \in DOMAIN MultiConfig
  BY SchedulerAssumption
<1> QED
  BY <1>1, Constants DEF Qos

LEMMA RequestCalls ==
  ASSUME NEW S \in Sched, NEW pool \in SUBSET Tbf, FreeTbf(S, pool) # {}, NEW m \in Ms \cup {NoMs},
         NEW q \in Qos, NEW class \in DOMAIN MultiConfig, NEW x \in TrxInUse(S) \cup {NullTrx},
         NEW peer, NEW goOn \in BOOLEAN
  PROVE  Calls(S, Request(S, Min(FreeTbf(S, pool)), m, q, class, x, peer, goOn))
<1> DEFINE t == Min(FreeTbf(S, pool))
<1>1. t \in Tbf /\ ~ Used(S, t)
  BY FreeIs
<1>2. x \in Trx \cup {NullTrx}
  BY ObjectIs DEF TrxInUse
<1> HIDE DEF t
<1>3. Requested(S, t, x, Request(S, t, m, q, class, x, peer, goOn))
  BY <1>1, <1>2, RequestIs
<1>4. Calls(S, Request(S, t, m, q, class, x, peer, goOn))
  BY <1>1, <1>3 DEF Calls
<1> QED
  BY <1>4 DEF t

LEMMA ULRequestMoves ==
  ASSUME Typed(Now), NEW m \in Ms, NEW q \in UlQos, ULRequest(m, q)
  PROVE  Moves
<1> DEFINE old == OfMs(UlTbf, m)
           S == IF old = {} THEN Now ELSE ReleaseTbf(Now, Min(old))
           free == FreeTbf(S, UlTbf)
           R == IF free = {} THEN S ELSE Request(S, Min(free), m, q, q.class, NullTrx, {}, TRUE)
<1>1. Becomes(R)
  BY DEF ULRequest
<1>2. Calls(Now, S)
  <2>1. CASE old = {}
    BY <2>1 DEF Calls
  <2>2. CASE old # {}
    <3>1. old \subseteq Nat /\ \A t \in old : t \in Tbf
      BY NowIs, PoolsIs
    <3> HIDE DEF old
    <3>2. Min(old) \in old
      BY <2>2, <3>1, MinIs
    <3>3. S = ReleaseTbf(Now, Min(old))
      BY <2>2
    <3> HIDE DEF S
    <3> QED
      BY <3>1, <3>2, <3>3 DEF Calls
  <2> QED
    BY <2>1, <2>2
<1> HIDE DEF S
<1>3. S \in Sched
  BY <1>2, CallsTyped DEF Typed
<1>4. Calls(S, R)
  <2>1. CASE free = {}
    BY <2>1 DEF Calls
  <2>2. CASE free # {}
    BY <1>3, <2>2, RequestCalls, PoolsIs
  <2> QED
    BY <2>1, <2>2
<1> HIDE DEF R
<1>5. Reaches(Now, R)
  BY <1>2, <1>4, FewerCalls
<1> QED
  BY <1>1, <1>5, BecomesIs

LEMMA ULRequestBesideDlMoves ==
  ASSUME Typed(Now), NEW m \in Ms, NEW q \in UlQos, ULRequestBesideDl(m, q)
  PROVE  Moves
<1> PICK own \in OfMs(DlTbf, m) :
      LET peer == FindTbf(DlTbf, tbf[own].tfi)
          free == FreeTbf(Now, UlTbf)
      IN /\ free # {}
         /\ Becomes(Request(Now, Min(free), tbf[peer].ms, q, q.class,
                            tbf[peer].trx, tbf[peer].slots, TRUE))
  BY DEF ULRequestBesideDl
<1> DEFINE peer == FindTbf(DlTbf, tbf[own].tfi)
           free == FreeTbf(Now, UlTbf)
           R == Request(Now, Min(free), tbf[peer].ms, q, q.class, tbf[peer].trx, tbf[peer].slots, TRUE)
<1>1. Becomes(R) /\ free # {}
  OBVIOUS
<1>2. Now \in Sched /\ Now.tbf = tbf
  BY NowIs
<1>3. peer \in Tbf /\ Used(Now, peer)
  <2>1. own \in DlTbf /\ tbf[own].state # "FREE"
    BY NowIs, PoolsIs
  <2> QED
    BY <2>1, NowIs, FoundIs, PoolsIs
<1> HIDE DEF peer
<1>4. tbf[peer].trx \in TrxInUse(Now) /\ tbf[peer].ms \in Ms \cup {NoMs}
  BY <1>2, <1>3, ObjectIs DEF TrxInUse
<1>5. Calls(Now, R)
  BY <1>1, <1>2, <1>4, RequestCalls, PoolsIs
<1> HIDE DEF R
<1> QED
  BY <1>1, <1>5, FewerCalls, BecomesIs

LEMMA ReleaseMoves ==
  ASSUME Typed(Now), NEW t \in Tbf, Release(t)
  PROVE  Moves
<1>1. Becomes(ReleaseTbf(Now, t))
  BY DEF Release
<1>2. Calls(Now, ReleaseTbf(Now, t))
  BY DEF Calls
<1> QED
  BY <1>1, <1>2, FewerCalls, BecomesIs

LEMMA ULReallocRequestMoves ==
  ASSUME Typed(Now), NEW m \in Ms, NEW q \in UlQos, ULReallocRequest(m, q)
  PROVE  Moves
<1> PICK own \in OfMs(UlTbf, m) :
      LET t == FindTbf(UlTbf, tbf[own].tfi)
      IN Becomes(AllocateUserIfBetterQoS([Now EXCEPT !.tbf[t].qos = q], t, q, {}).S)
  BY DEF ULReallocRequest
<1> DEFINE t == FindTbf(UlTbf, tbf[own].tfi)
           o == [tbf[t] EXCEPT !.qos = q]
           Z == [Now EXCEPT !.tbf[t].qos = q]
           a == AllocateUserIfBetterQoS(Z, t, q, {})
           R == a.S
<1>1. Becomes(R)
  OBVIOUS
<1>2. Now \in Sched /\ Now.tbf = tbf /\ q \in Qos
  BY NowIs, PoolsIs
<1>3. t \in UlTbf /\ t \in Tbf /\ tbf[t].state # "FREE" /\ Used(Now, t)
  <2>1. own \in UlTbf /\ tbf[own].state # "FREE"
    BY NowIs, PoolsIs
  <2>2. t \in UlTbf /\ t \in Tbf /\ tbf[t].state # "FREE"
    BY <2>1, FoundIs, PoolsIs
  <2> QED
    BY <2>2, NowIs
<1>4. Z = [Now EXCEPT !.tbf[t] = o]
  BY <1>2
<1> HIDE DEF t, Z
<1>5. /\ o \in Object /\ o.state = tbf[t].state /\ SameNumbers(tbf[t], o)
  <2>1. tbf[t] \in Object
    BY <1>2, <1>3, SchedIs
  <2> QED
    BY <1>2, <2>1 DEF Object, SameNumbers
<1>6. o.state \in UlState
  BY <1>2, <1>3, <1>5 DEF Typed, UlStates
<1> HIDE DEF o
<1>7. Touched(Now, t, Z)
  BY <1>2, <1>3, <1>4, <1>5, <1>6, TouchIs
<1>8. Calls(Now, Z)
  BY <1>3, <1>7 DEF Calls
<1>9. Z \in Sched /\ Used(Z, t)
  BY <1>7 DEF Touched
<1>10. Reallocated(Z, t, q, a)
  BY <1>2, <1>3, <1>9, ReallocateIs
<1> HIDE DEF a
<1>11. Calls(Z, R)
  BY <1>2, <1>3, <1>9, <1>10 DEF Calls
<1> HIDE DEF R
<1>12. Reaches(Now, R)
  BY <1>8, <1>11, FewerCalls
<1> QED
  BY <1>1, <1>12, BecomesIs

LEMMA DLRequestMoves ==
  ASSUME Typed(Now), NEW m \in Ms, NEW q \in DlQos, NEW hasPdu \in BOOLEAN, DLRequest(m, q, hasPdu)
  PROVE  Moves
<1> DEFINE ul == OfMs(UlTbf, m)
           free == FreeTbf(Now, DlTbf)
           p == tbf[Min(ul)]
           R == IF ul = {} THEN Request(Now, Min(free), m, q, 1, NullTrx, {}, hasPdu)
                ELSE Request(Now, Min(free), m, q, q.class, p.trx, p.slots, hasPdu)
<1>1. Becomes(R) /\ free # {}
  BY DEF DLRequest
<1>2. Now \in Sched /\ Now.tbf = tbf
  BY NowIs
<1>3. ul # {} => p.trx \in TrxInUse(Now)
  <2>1. ul \subseteq Nat /\ \A t \in ul : t \in Tbf /\ Used(Now, t)
    BY NowIs, PoolsIs
  <2> HIDE DEF ul
  <2>2. ul # {} => Min(ul) \in ul
    BY <2>1, MinIs
  <2> QED
    BY <1>2, <2>1, <2>2 DEF TrxInUse
<1> HIDE DEF ul, p
<1>4. Calls(Now, R)
  <2>1. CASE ul = {}
    BY <1>1, <1>2, <2>1, RequestCalls, PoolsIs
  <2>2. CASE ul # {}
    BY <1>1, <1>2, <1>3, <2>2, RequestCalls, PoolsIs
  <2> QED
    BY <2>1, <2>2
<1> HIDE DEF R
<1> QED
  BY <1>1, <1>4, FewerCalls, BecomesIs

\* Reallocation in a state that follows from the present one.
LEMMA DLReallocCalls ==
  ASSUME Typed(Now), NEW S \in Sched, NEW t \in DlTbf, OthersKept(Now, t, S), Used(S, t), NEW q \in Qos
  PROVE  \E Z : /\ Calls(S, Z) /\ Calls(Z, DLRealloc(S, t, q).S)
                /\ Reallocated(Z, t, q, DLRealloc(S, t, q)) /\ Used(Z, t)
<1> DEFINE ul == OfMs(UlTbf, S.tbf[t].ms)
           p == tbf[Min(ul)]
           Z == [S EXCEPT !.tbf[t].trx = p.trx]
           a == DLRealloc(S, t, q)
<1>1. a = IF ul = {} THEN AllocateUserIfBetterQoS(S, t, q, {}) ELSE AllocateUserIfBetterQoS(Z, t, q, p.slots)
  BY DEF DLRealloc
<1>2. t \in Tbf /\ t \notin UlTbf
  BY Constants
<1>3. ul # {} => p.trx \in TrxInUse(S)
  <2>1. ul \subseteq Nat /\ \A u \in ul : u \in UlTbf /\ u \in Tbf /\ tbf[u].state # "FREE"
    BY NowIs, PoolsIs
  <2> HIDE DEF ul
  <2>2. ul # {} => Min(ul) \in ul
    BY <2>1, MinIs
  <2>3. ul # {} => Min(ul) \in Tbf \ {t} /\ tbf[Min(ul)].state # "FREE"
    BY <1>2, <2>1, <2>2
  <2>4. ul # {} => S.tbf[Min(ul)] = tbf[Min(ul)]
    BY <2>3, NowIs DEF OthersKept
  <2> QED
    BY <2>3, <2>4 DEF TrxInUse, Used
<1> HIDE DEF ul, p
<1>4. CASE ul = {}
  <2> HIDE DEF Z
  <2>1. Reallocated(S, t, q, a)
    BY <1>1, <1>2, <1>4, ReallocateIs
  <2> HIDE DEF a
  <2>2. Calls(S, S) /\ Calls(S, a.S)
    BY <1>2, <2>1 DEF Calls
  <2>3. \E Y : Calls(S, Y) /\ Calls(Y, a.S) /\ Reallocated(Y, t, q, a) /\ Used(Y, t)
    BY <2>1, <2>2
  <2> QED
    BY <2>3 DEF a
<1>5. CASE ul # {}
  <2>1. p.trx \in TrxInUse(S) /\ p.trx \in Trx \cup {NullTrx}
    BY <1>3, <1>5, ObjectIs DEF TrxInUse
  <2>2. Moved(S, t, p.trx, Z)
    BY <1>2, <2>1, MoveIs
  <2> HIDE DEF Z
  <2>3. Z \in Sched /\ Used(Z, t)
    BY <2>2 DEF Moved, SameUser, Used
  <2>4. Reallocated(Z, t, q, a)
    BY <1>1, <1>2, <1>5, <2>3, ReallocateIs
  <2> HIDE DEF a
  <2>5. Calls(S, Z)
    BY <1>2, <2>1, <2>2 DEF Calls
  <2>6. Calls(Z, a.S)
    BY <1>2, <2>3, <2>4 DEF Calls
  <2>7. \E Y : Calls(S, Y) /\ Calls(Y, a.S) /\ Reallocated(Y, t, q, a) /\ Used(Y, t)
    BY <2>3, <2>4, <2>5, <2>6
  <2> QED
    BY <2>7 DEF a
<1> QED
  BY <1>4, <1>5

LEMMA DLReestablishMoves ==
  ASSUME Typed(Now), NEW t \in DlTbf, NEW q \in DlQos, DLReestablish(t, q)
  PROVE  Moves
<1> DEFINE o == [tbf[t] EXCEPT !.qos = q, !.state = "ACTIVATING"]
           Z == [Now EXCEPT !.tbf[t].qos = q, !.tbf[t].state = "ACTIVATING"]
           R == DLRealloc(Z, t, q).S
<1>1. Becomes(R) /\ tbf[t].state = "INACTIVE"
  BY DEF DLReestablish
<1>2. Now \in Sched /\ Now.tbf = tbf /\ q \in Qos /\ t \in Tbf /\ t \notin UlTbf /\ Used(Now, t)
  BY <1>1, NowIs, PoolsIs, Constants
<1>3. tbf[t] \in Object /\ tbf \in [Tbf -> Object] /\ Now = [tbf |-> tbf, ts |-> ts]
  BY <1>2, SchedIs DEF Now
<1>4. Z = [Now EXCEPT !.tbf[t] = o]
  <2> DEFINE P == [Now EXCEPT !.tbf[t].qos = q]
  <2>1. P = [tbf |-> [tbf EXCEPT ![t] = [tbf[t] EXCEPT !.qos = q]], ts |-> ts]
    BY <1>2, <1>3
  <2>2. Z = [P EXCEPT !.tbf[t].state = "ACTIVATING"]
    OBVIOUS
  <2>3. P.tbf[t] = [tbf[t] EXCEPT !.qos = q]
    BY <1>2, <1>3, <2>1
  <2>4. P.tbf = [tbf EXCEPT ![t] = [tbf[t] EXCEPT !.qos = q]] /\ P.ts = ts
    BY <2>1
  <2>5. o = [P.tbf[t] EXCEPT !.state = "ACTIVATING"]
    BY <1>3, <2>3 DEF Object
  <2> HIDE DEF P, Z, o
  <2>6. Z = [P EXCEPT !.tbf[t] = o]
    BY <2>2, <2>5
  <2>7. Z = [tbf |-> [P.tbf EXCEPT ![t] = o], ts |-> ts]
    BY <2>1, <2>4, <2>6
  <2>8. [P.tbf EXCEPT ![t] = o] = [tbf EXCEPT ![t] = o]
    BY <1>2, <1>3, <2>4
  <2>9. Now = [tbf |-> tbf, ts |-> ts]
    BY <1>3
  <2> QED
    BY <2>7, <2>8, <2>9
<1>5. /\ o \in Object /\ o.state = "ACTIVATING" /\ SameNumbers(tbf[t], o)
  BY <1>2, <1>3 DEF Object, SameNumbers, State
<1> HIDE DEF o, Z
<1>6. Touched(Now, t, Z)
  BY <1>2, <1>4, <1>5, TouchIs
<1>7. Calls(Now, Z)
  BY <1>2, <1>6 DEF Calls
<1>8. Z \in Sched /\ Used(Z, t) /\ OthersKept(Now, t, Z)
  BY <1>6 DEF Touched
<1>9. PICK Y : Calls(Z, Y) /\ Calls(Y, R)
  BY <1>2, <1>8, DLReallocCalls
<1> HIDE DEF R
<1>10. Reaches(Now, R)
  BY <1>7, <1>9 DEF Reaches
<1> QED
  BY <1>1, <1>10, BecomesIs

LEMMA DLReallocateMoves ==
  ASSUME Typed(Now), NEW t \in DlTbf, DLReallocate(t)
  PROVE  Moves
<1> DEFINE q == tbf[t].qos
           a == DLRealloc(Now, t, q)
           Z == [a.S EXCEPT !.tbf[t].state = "REALLOCATING"]
           R == IF a.ok THEN Z ELSE a.S
           o == [a.S.tbf[t] EXCEPT !.state = "REALLOCATING"]
<1>1. Becomes(R) /\ tbf[t].state = "ALLOCATED"
  BY DEF DLReallocate
<1>2. Now \in Sched /\ Now.tbf = tbf /\ t \in Tbf /\ t \notin UlTbf /\ Used(Now, t)
  BY <1>1, NowIs, Constants
<1>3. q \in Qos /\ OthersKept(Now, t, Now)
  BY <1>2, ObjectIs DEF OthersKept
<1>4. PICK Y : /\ Calls(Now, Y) /\ Calls(Y, a.S) /\ Reallocated(Y, t, q, a) /\ Used(Y, t)
  BY <1>2, <1>3, DLReallocCalls
<1>5. Typed(Y) /\ Typed(a.S) /\ Y \in Sched
  BY <1>4, CallsTyped DEF Typed
<1>6. /\ o \in Object /\ o.state = "REALLOCATING" /\ SameNumbers(a.S.tbf[t], o)
      /\ a.S.tbf[t] \in Object
  <2>1. a.S.tbf[t] \in Object
    BY <1>2, <1>5, ObjectIs DEF Typed
  <2> QED
    BY <2>1 DEF Object, SameNumbers, State
<1> HIDE DEF a
<1>7. a.S \in Sched /\ a.ok \in BOOLEAN /\ Used(a.S, t)
  BY <1>2, <1>3, <1>4, <1>5, ReallocatedKeeps DEF Used, SameUser
<1>8. Z = [a.S EXCEPT !.tbf[t] = o]
  <2>1. a.S = [tbf |-> a.S.tbf, ts |-> a.S.ts]
    BY <1>7, SchedIs
  <2> QED
    BY <2>1
<1> HIDE DEF Z, o
<1>9. CASE a.ok
  <2>1. Touched(a.S, t, Z)
    BY <1>2, <1>6, <1>7, <1>8, <1>9, TouchIs
  <2>2. Calls(a.S, Z)
    BY <1>2, <2>1 DEF Calls
  <2>3. Reaches(Now, Z)
    BY <1>4, <2>2 DEF Reaches
  <2> QED
    BY <1>1, <1>9, <2>3, BecomesIs
<1>10. CASE ~ a.ok
  BY <1>1, <1>4, <1>10, FewerCalls, BecomesIs
<1> QED
  BY <1>7, <1>9, <1>10

LEMMA DLSingleSlotMoves ==
  ASSUME Typed(Now), NEW t \in DlTbf, DLSingleSlot(t)
  PROVE  Moves
<1> DEFINE D == DeallocateUser(Now, t)
           q == [tbf[t].qos EXCEPT !.class = 1]
           a == AllocateUser(D, t, q, {})
           R == a.S
<1>1. Becomes(R) /\ tbf[t].state = "ACTIVATING"
  BY DEF DLSingleSlot
<1>2. Now \in Sched /\ Now.tbf = tbf /\ t \in Tbf /\ Used(Now, t)
  BY <1>1, NowIs, Constants
<1>3. q \in Qos
  <2>1. tbf[t].qos \in Qos
    BY <1>2, ObjectIs
  <2> QED
    BY <2>1, PoolsIs DEF Qos
<1>4. D \in Sched /\ D.tbf[t].slots = {}
  BY <1>2, DeallocateUserIs DEF Deallocated
<1> HIDE DEF q
<1>5. Allocated(D, t, q, a)
  BY <1>2, <1>3, <1>4, AllocateUserIs
<1> HIDE DEF a
<1>6. Calls(Now, R)
  BY <1>2, <1>3, <1>5 DEF Calls
<1> HIDE DEF R
<1> QED
  BY <1>1, <1>6, FewerCalls, BecomesIs

LEMMA DLAbandonMoves ==
  ASSUME Typed(Now), NEW t \in DlTbf, DLAbandon(t)
  PROVE  Moves
<1> DEFINE o == [tbf[t] EXCEPT !.state = "RELEASING", !.ms = NoMs]
           Z == [Now EXCEPT !.tbf[t].state = "RELEASING", !.tbf[t].ms = NoMs]
<1>1. Becomes(Z) /\ tbf[t].state # "FREE"
  BY DEF DLAbandon
<1>2. Now \in Sched /\ Now.tbf = tbf /\ t \in Tbf /\ t \notin UlTbf /\ Used(Now, t)
  BY <1>1, NowIs, Constants
<1>3. tbf[t] \in Object /\ tbf \in [Tbf -> Object] /\ Now = [tbf |-> tbf, ts |-> ts]
  BY <1>2, SchedIs DEF Now
<1>4. Z = [Now EXCEPT !.tbf[t] = o]
  <2> DEFINE P == [Now EXCEPT !.tbf[t].state = "RELEASING"]
  <2>1. P = [tbf |-> [tbf EXCEPT ![t] = [tbf[t] EXCEPT !.state = "RELEASING"]], ts |-> ts]
    BY <1>2, <1>3
  <2>2. Z = [P EXCEPT !.tbf[t].ms = NoMs]
    OBVIOUS
  <2>3. P.tbf[t] = [tbf[t] EXCEPT !.state = "RELEASING"]
    BY <1>2, <1>3, <2>1
  <2>4. P.tbf = [tbf EXCEPT ![t] = [tbf[t] EXCEPT !.state = "RELEASING"]] /\ P.ts = ts
    BY <2>1
  <2>5. o = [P.tbf[t] EXCEPT !.ms = NoMs]
    BY <1>3, <2>3 DEF Object
  <2> HIDE DEF P, Z, o
  <2>6. Z = [P EXCEPT !.tbf[t] = o]
    BY <2>2, <2>5
  <2>7. Z = [tbf |-> [P.tbf EXCEPT ![t] = o], ts |-> ts]
    BY <2>1, <2>4, <2>6
  <2>8. [P.tbf EXCEPT ![t] = o] = [tbf EXCEPT ![t] = o]
    BY <1>2, <1>3, <2>4
  <2>9. Now = [tbf |-> tbf, ts |-> ts]
    BY <1>3
  <2> QED
    BY <2>7, <2>8, <2>9
<1>5. /\ o \in Object /\ o.state = "RELEASING" /\ SameNumbers(tbf[t], o)
  BY <1>2, <1>3 DEF Object, SameNumbers, State
<1> HIDE DEF o, Z
<1>6. Touched(Now, t, Z)
  BY <1>2, <1>4, <1>5, TouchIs
<1>7. Calls(Now, Z)
  BY <1>2, <1>6 DEF Calls
<1> QED
  BY <1>1, <1>7, FewerCalls, BecomesIs

LEMMA LinkMovesMoves ==
  ASSUME Typed(Now), NEW t \in Tbf, NEW new \in State, LinkMoves(t, new)
  PROVE  Moves
<1> DEFINE o == [tbf[t] EXCEPT !.state = new]
           Z == [Now EXCEPT !.tbf[t].state = new]
<1>1. Becomes(Z) /\ tbf[t].state # "FREE" /\ new \in {"INACTIVE", "ALLOCATED"}
  BY DEF LinkMoves
<1>2. Now \in Sched /\ Now.tbf = tbf /\ Used(Now, t)
  BY <1>1, NowIs
<1>3. tbf[t] \in Object
  BY <1>2, SchedIs
<1>4. Z = [Now EXCEPT !.tbf[t] = o]
  BY <1>2
<1>5. /\ o \in Object /\ o.state = new /\ SameNumbers(tbf[t], o)
  BY <1>3 DEF Object, SameNumbers
<1> HIDE DEF o, Z
<1>6. Touched(Now, t, Z)
  BY <1>1, <1>2, <1>4, <1>5, TouchIs DEF UlState
<1>7. Calls(Now, Z)
  BY <1>6 DEF Calls
<1> QED
  BY <1>1, <1>7, FewerCalls, BecomesIs

-----------------------------------------------------------------------------
(* A block is scheduled: the indices stay within their queues.               *)

Indices == {f \in [Level -> Nat] : \A l \in Level : f[l] <= NbrEntries[l]}
Places == {x \in Level \X Nat : x[2] \in 1..NbrEntries[x[1]]}

LEMMA FirstOfIs ==
  ASSUME NEW E \in SUBSET Places, E # {}
  PROVE  FirstOf(E) \in E
<1> DEFINE A == {x[1] : x \in E}
           B == {x[2] : x \in {x \in E : x[1] = Min(A)}}
<1>1. \A x \in E : x = <<x[1], x[2]>> /\ x[1] \in Nat /\ x[2] \in Nat
  <2>1. \A x \in E : x \in Level \X Nat
    BY DEF Places
  <2>2. Level \subseteq Nat
    BY SchedulerAssumption
  <2> QED
    BY <2>1, <2>2
<1>2. A \in SUBSET Nat /\ A # {}
  BY <1>1
<1>3. Min(A) \in A /\ \A n \in A : Min(A) <= n
  BY <1>2, MinIs
<1>4. B \in SUBSET Nat /\ B # {}
  BY <1>1, <1>3
<1>5. Min(B) \in B /\ \A n \in B : Min(B) <= n
  BY <1>4, MinIs
<1>6. PICK x \in E : x[1] = Min(A) /\ x[2] = Min(B)
  BY <1>5
<1>7. ASSUME NEW y \in E PROVE x[1] < y[1] \/ (x[1] = y[1] /\ x[2] <= y[2])
  <2>1. x[1] \in Nat /\ y[1] \in Nat /\ x[1] <= y[1]
    BY <1>1, <1>3, <1>6
  <2>2. CASE x[1] = y[1]
    <3>1. y[2] \in B
      BY <1>6, <2>2
    <3> QED
      BY <1>5, <1>6, <2>2, <3>1
  <2> QED
    BY <2>1, <2>2
<1> QED
  BY <1>6, <1>7 DEF FirstOf

LEMMA NextBlockIs ==
  ASSUME NEW queue, NEW index \in Indices, NEW ready \in SUBSET Places
  PROVE  NextBlock(queue, index, ready).index \in Indices
<1> DEFINE ahead == {x \in ready : x[2] > index[x[1]]}
           round(n) == [l \in Level |-> IF queue[l][1].tbf # NoTbf /\ l < n THEN 0 ELSE index[l]]
           begun == [l \in Level |-> IF queue[l][1].tbf # NoTbf THEN 0 ELSE index[l]]
           serve(x) == [tbf |-> queue[x[1]][x[2]].tbf,
                        index |-> [(IF ahead # {} THEN round(x[1]) ELSE begun) EXCEPT ![x[1]] = x[2]]]
           E == IF ahead # {} THEN ahead ELSE ready
           b == NextBlock(queue, index, ready)
<1>1. \A l \in Level : NbrEntries[l] \in Nat /\ 0 <= NbrEntries[l]
  BY Constants
<1>2. begun \in Indices /\ \A n : round(n) \in Indices
  BY <1>1 DEF Indices
<1>3. b = IF ready = {} THEN [tbf |-> NoTbf, index |-> begun] ELSE With(FirstOf(E), serve)
  BY DEF NextBlock
<1>4. CASE ready = {}
  <2> HIDE DEF begun, serve, E, b
  <2>1. b.index = begun
    BY <1>3, <1>4
  <2> QED
    BY <1>2, <2>1 DEF b
<1>5. CASE ready # {}
  <2> DEFINE x == FirstOf(E)
             f == IF ahead # {} THEN round(x[1]) ELSE begun
  <2>1. E \in SUBSET Places /\ E # {}
    BY <1>5
  <2>2. x \in Places
    BY <2>1, FirstOfIs
  <2>3. f \in Indices
    BY <1>2
  <2> HIDE DEF x, E
  <2>4. b = serve(x)
    BY <1>3, <1>5 DEF With, x
  <2>5. b.index = [f EXCEPT ![x[1]] = x[2]]
    BY <2>4
  <2> HIDE DEF f, b
  <2>6. [f EXCEPT ![x[1]] = x[2]] \in Indices
    BY <1>1, <2>2, <2>3 DEF Indices, Places
  <2>7. b.index \in Indices
    BY <2>5, <2>6
  <2> QED
    BY <2>7 DEF b
<1> QED
  BY <1>4, <1>5

Scheduled ==
  /\ tbf' = tbf /\ ts'.queue = ts.queue /\ ts'.tfi = ts.tfi /\ ts'.tai = ts.tai /\ ts'.usf = ts.usf
  /\ ts'.users = ts.users /\ Now' \in Sched

LEMMA ScheduleBlockIs ==
  ASSUME Typed(Now), NEW s \in Slot, NEW d \in Dir, ScheduleBlock(s, d)
  PROVE  Scheduled
<1> DEFINE queue == ts.queue[s][d]
           ready == ReadyEntries(queue)
           b == NextBlock(queue, ts.index[s][d], ready)
<1>1. ts' = [ts EXCEPT !.index[s][d] = b.index] /\ tbf' = tbf
  <2>1. \E c \in {With(ready, LAMBDA r : NextBlock(queue, ts.index[s][d], r))} :
          ts' = [ts EXCEPT !.index[s][d] = c.index]
    BY DEF ScheduleBlock
  <2>2. tbf' = tbf
    BY DEF ScheduleBlock
  <2> HIDE DEF ready
  <2>3. With(ready, LAMBDA r : NextBlock(queue, ts.index[s][d], r)) = b
    BY DEF With
  <2> HIDE DEF b
  <2> QED
    BY <2>1, <2>2, <2>3
<1>2. Now \in Sched /\ Now.ts = ts /\ Now.tbf = tbf
  BY NowIs
<1>3. tbf \in [Tbf -> Object] /\ ts \in Tables
  BY <1>2, SchedIs
<1>4. ts.index \in [Slot -> [Dir -> Indices]]
  BY <1>3 DEF Tables, Indices
<1>5. ready \in SUBSET Places
  <2>1. \A l \in Level : queue[l] \in [1..NbrEntries[l] -> Entry]
    BY <1>2, QueueIs
  <2>2. \A l \in Level : DOMAIN queue[l] = 1..NbrEntries[l] /\ DOMAIN queue[l] \subseteq Nat
    BY <2>1, Constants
  <2>3. ASSUME NEW x \in ready PROVE x \in Places
    <3> HIDE DEF queue
    <3>1. \E l \in Level : x \in {l} \X DOMAIN queue[l]
      BY DEF ReadyEntries
    <3> QED
      BY <2>2, <3>1 DEF Places
  <2> QED
    BY <2>3
<1>6. b.index \in Indices
  <2>1. ts.index[s][d] \in Indices
    BY <1>4
  <2> HIDE DEF ready, queue
  <2> QED
    BY <1>5, <2>1, NextBlockIs
<1> HIDE DEF b, ready, queue
<1>7. /\ ts'.queue = ts.queue /\ ts'.tfi = ts.tfi /\ ts'.tai = ts.tai /\ ts'.usf = ts.usf
      /\ ts'.users = ts.users /\ ts' \in Tables
  <2> DEFINE index == [ts.index EXCEPT ![s][d] = b.index]
  <2>1. index \in [Slot -> [Dir -> Indices]]
    BY <1>4, <1>6
  <2>2. ts' = [ts EXCEPT !.index = index]
    BY <1>1
  <2> HIDE DEF index
  <2>3. index \in [Slot -> [Dir -> {f \in [Level -> Nat] : \A l \in Level : f[l] <= NbrEntries[l]}]]
    BY <2>1 DEF Indices
  <2> QED
    BY <1>3, <2>2, <2>3 DEF Tables
<1>8. Now' \in Sched
  BY <1>1, <1>3, <1>7 DEF Now, Sched
<1> QED
  BY <1>1, <1>7, <1>8 DEF Scheduled

-----------------------------------------------------------------------------
(* The states of the pool and the queues, whatever is requested.             *)

LEMMA NextIs ==
  ASSUME Typed(Now), Next
  PROVE  Moves \/ Scheduled
<1>1. CASE UplinkRequests
  BY <1>1, ULRequestMoves, ULRequestBesideDlMoves, ULReallocRequestMoves DEF UplinkRequests
<1>2. CASE DownlinkRequests
  BY <1>2, DLRequestMoves, DLReestablishMoves, DLReallocateMoves, DLSingleSlotMoves, DLAbandonMoves
     DEF DownlinkRequests
<1>3. ASSUME NEW t \in Tbf, Release(t) \/ \E new \in State : LinkMoves(t, new) PROVE Moves
  BY <1>3, ReleaseMoves, LinkMovesMoves
<1>4. ASSUME NEW s \in Slot, NEW d \in Dir, ScheduleBlock(s, d) PROVE Scheduled
  BY <1>4, ScheduleBlockIs
<1> QED
  BY <1>1, <1>2, <1>3, <1>4 DEF Next

\* A step reaches the state it leads to, or only moves on in the queues.
LEMMA MovesIs ==
  ASSUME Typed(Now), Moves
  PROVE  Reaches(Now, Now')
<1> PICK R : Reaches(Now, R) /\ tbf' = R.tbf /\ ts' = R.ts
  BY DEF Moves
<1>1. R \in Sched
  BY ReachesTyped DEF Typed
<1>2. R = [tbf |-> R.tbf, ts |-> R.ts]
  BY <1>1, SchedIs
<1>3. Now' = R
  BY <1>2 DEF Now
<1> QED
  BY <1>3

TypedNow == Typed(Now)

LEMMA TypedInit ==
  ASSUME Init
  PROVE  TypedNow
<1>1. tbf \in [Tbf -> Object] /\ \A t \in Tbf : tbf[t].state = "FREE"
  <2>1. ASSUME NEW t \in Tbf PROVE tbf[t] \in Object /\ tbf[t].state = "FREE"
    <3>1. tbf[t] = FreeObject(MaxTfi - 1, Invalid, Invalid)
      BY DEF Init
    <3>2. (CHOOSE q \in Qos : TRUE) \in Qos
      <4>1. \E q : q \in Qos
        <5>1. PICK l \in Level : TRUE
          BY SchedulerAssumption
        <5>2. [class |-> 1, level |-> l, prec |-> 1, peak |-> 1] \in Qos
          BY SchedulerAssumption DEF Qos
        <5> QED
          BY <5>2
      <4> QED
        BY <4>1
    <3>3. MaxTfi - 1 \in 0..MaxTfi - 1 /\ 0 \in 0..MaxUsf - 1
      BY Constants
    <3>4. [n \in Ts |-> 0] \in [Ts -> 0..MaxUsf - 1 \cup {Invalid}]
      BY <3>3
    <3> QED
      BY <3>1, <3>2, <3>3, <3>4 DEF FreeObject, Object, State
  <2> QED
    BY <2>1 DEF Init
<1>2. ts \in Tables
  <2>1. \A l \in Level : [i \in 1..NbrEntries[l] |-> NullEntry] \in HeldQueue(NbrEntries[l])
    <3>1. NullEntry \in Entry
      BY DEF NullEntry, Entry
    <3> TAKE l \in Level
    <3> DEFINE q == [i \in 1..NbrEntries[l] |-> NullEntry]
    <3>2. q \in [1..NbrEntries[l] -> Entry]
      BY <3>1
    <3>3. Users(q) = {}
      BY DEF Users, NullEntry
    <3>4. FirstIn(q)
      BY <3>3 DEF FirstIn
    <3> QED
      BY <3>2, <3>4 DEF HeldQueue
  <2>2. [l \in Level |-> [i \in 1..NbrEntries[l] |-> NullEntry]] \in LevelQueues
    BY <2>1 DEF LevelQueues
  <2>3. [l \in Level |-> 0] \in {f \in [Level -> Nat] : \A l \in Level : f[l] <= NbrEntries[l]}
    BY Constants
  <2>4. NoTbf \in Owner
    BY DEF Owner
  <2> HIDE DEF LevelQueues
  <2> QED
    BY <2>2, <2>3, <2>4 DEF Init, Tables
<1>3. Now \in Sched
  BY <1>1, <1>2 DEF Now, Sched
<1> QED
  BY <1>1, <1>3, Constants DEF TypedNow, Typed, UlStates, UlState, Now

LEMMA TypedNext ==
  ASSUME TypedNow, [Next]_vars
  PROVE  TypedNow'
<1> USE DEF TypedNow
<1>1. CASE Moves
  BY <1>1, MovesIs, ReachesTyped
<1>2. CASE Scheduled
  BY <1>2 DEF Scheduled, Typed, UlStates, Now
<1>3. CASE UNCHANGED vars
  BY <1>3 DEF vars, Typed, UlStates, Now
<1> QED
  BY <1>1, <1>2, <1>3, NextIs

LEMMA TypedAlways == Spec => []TypedNow
<1>1. Init => TypedNow
  BY TypedInit
<1>2. TypedNow /\ [Next]_vars => TypedNow'
  BY TypedNext
<1> QED
  BY <1>1, <1>2, PTL DEF Spec

\* The states that an object of the pool goes through are those of its
\* direction, its TFI, TAI and USF are always indices into the tables of
\* AllocateTFI, AllocateTAI and AllocateUSF or the invalid one, and
\* ScheduleNextBlock never leaves a queue's bounds, for every number of slots,
\* TBFs and entries and whatever is requested.
THEOREM TypeCorrect == Spec => []TypeOK
<1>1. TypedNow => TypeOK
  <2> SUFFICES ASSUME TypedNow PROVE TypeOK
    OBVIOUS
  <2>1. Now \in Sched /\ UlStates(Now) /\ Now.tbf = tbf /\ Now.ts = ts
    BY DEF TypedNow, Typed, Now
  <2>2. ASSUME NEW t \in Tbf
        PROVE  /\ tbf[t].state \in (IF t \in UlTbf THEN {"FREE", "ALLOCATED", "INACTIVE"} ELSE State)
               /\ tbf[t].ms \in Ms \cup {NoMs} /\ tbf[t].qos \in Qos
               /\ tbf[t].trx \in Trx \cup {NullTrx} /\ tbf[t].slots \subseteq Ts
               /\ tbf[t].tfi \in 0..MaxTfi - 1 /\ tbf[t].tai \in 0..MaxTai - 1 \cup {Invalid}
               /\ tbf[t].usf \in [Ts -> 0..MaxUsf - 1 \cup {Invalid}]
    BY <2>1, ObjectIs DEF UlStates, UlState
  <2>3. ASSUME NEW s \in Slot, NEW d \in Dir, NEW l \in Level
        PROVE  ts.index[s][d][l] \in 0..NbrEntries[l] /\ ts.users[s][d] \in Nat
    <3>1. ts \in Tables
      BY <2>1, SchedIs
    <3>2. /\ ts.index \in [Slot -> [Dir -> {f \in [Level -> Nat] : \A k \in Level : f[k] <= NbrEntries[k]}]]
          /\ ts.users \in [Slot -> [Dir -> Nat]]
      BY <3>1 DEF Tables
    <3>3. ts.index[s][d][l] \in Nat /\ ts.index[s][d][l] <= NbrEntries[l] /\ NbrEntries[l] \in Nat
      BY <3>2, Constants
    <3> QED
      BY <3>2, <3>3
  <2> QED
    BY <2>2, <2>3 DEF TypeOK
<1> QED
  BY <1>1, TypedAlways, PTL

\* Every user of a level has its first entry, whoever comes, balances or goes,
\* so that the loops of BalanceEntries end at it: for queues of every length,
\* and through every request that allocates, reallocates or restores them.
THEOREM FirstsHeld == Spec => []FirstEntryHeld
<1>1. TypedNow => FirstEntryHeld
  <2> SUFFICES ASSUME TypedNow PROVE FirstEntryHeld
    OBVIOUS
  <2>1. Now \in Sched /\ Now.ts = ts
    BY DEF TypedNow, Typed, Now
  <2> QED
    BY <2>1, QueueIs DEF FirstEntryHeld, FirstIn
<1> QED
  BY <1>1, TypedAlways, PTL

-----------------------------------------------------------------------------
(* Who owns the entries of the queues and of the tables.                     *)

\* What there is of u in the queues and tables is known to u.
QueuesOwned(S, u) ==
  \A s \in Slot, d \in Dir, l \in Level :
    u \in Users(S.ts.queue[s][d][l]) => d = DirOf(u) /\ Used(S, u) /\ s \in SlotsOf(S, u)
TfiOwned(S, u) ==
  \A d \in Dir, x \in Trx, n \in 0..MaxTfi - 1 :
    S.ts.tfi[d][x][n] = u =>
      d = DirOf(u) /\ Used(S, u) /\ S.tbf[u].trx = x /\ S.tbf[u].tfi = n
TaiOwned(S, u) ==
  \A s \in Slot, n \in 0..MaxTai - 1 :
    S.ts.tai[s][n] = u =>
      Used(S, u) /\ s = <<S.tbf[u].trx, S.tbf[u].taiTs>> /\ S.tbf[u].tai = n
UsfOwned(S, u) ==
  \A s \in Slot, n \in 1..MaxUsf - 1 :
    S.ts.usf[s][n] = u =>
      u \in UlTbf /\ Used(S, u) /\ s \in SlotsOf(S, u) /\ S.tbf[u].usf[s[2]] = n
Owns(S, u) == QueuesOwned(S, u) /\ TfiOwned(S, u) /\ TaiOwned(S, u) /\ UsfOwned(S, u)
OnTrx(S, u) == \E s \in Slot : S.tbf[u].trx = s[1]
Owned(S, u) == Owns(S, u) /\ (Used(S, u) => OnTrx(S, u))

\* There is nothing of u anywhere.
NotQueued(S, u) == \A s \in Slot, d \in Dir, l \in Level : u \notin Users(S.ts.queue[s][d][l])
NoTfi(S, u) == \A d \in Dir, x \in Trx, n \in 0..MaxTfi - 1 : S.ts.tfi[d][x][n] # u
NoTai(S, u) == \A s \in Slot, n \in 0..MaxTai - 1 : S.ts.tai[s][n] # u
NoUsf(S, u) == \A s \in Slot, n \in 1..MaxUsf - 1 : S.ts.usf[s][n] # u
Clear(S, u) == NotQueued(S, u) /\ NoTfi(S, u) /\ NoTai(S, u) /\ NoUsf(S, u)

\* All that is of u in R is so in S.
FewerOf(S, R, u) ==
  /\ \A s \in Slot, d \in Dir, l \in Level :
       u \in Users(R.ts.queue[s][d][l]) => u \in Users(S.ts.queue[s][d][l])
  /\ \A d \in Dir, x \in Trx, n \in 0..MaxTfi - 1 : R.ts.tfi[d][x][n] = u => S.ts.tfi[d][x][n] = u
  /\ \A s \in Slot, n \in 0..MaxTai - 1 : R.ts.tai[s][n] = u => S.ts.tai[s][n] = u
  /\ \A s \in Slot, n \in 1..MaxUsf - 1 : R.ts.usf[s][n] = u => S.ts.usf[s][n] = u

AllRegular(S) == \A s \in Slot, d \in Dir, l \in Level : Regular(S.ts.queue[s][d][l])
Sound(S, t) == AllRegular(S) /\ \A u \in Tbf \ {t} : Owned(S, u)
Good(S) == AllRegular(S) /\ \A u \in Tbf : Owned(S, u)

LEMMA OwnsFewer ==
  ASSUME NEW S, NEW R, NEW u \in Tbf, Owns(S, u), FewerOf(S, R, u), Used(S, u) => Used(R, u),
         SameNumbers(S.tbf[u], R.tbf[u])
  PROVE  Owns(R, u)
<1>1. SlotsOf(R, u) = SlotsOf(S, u)
  BY DEF SlotsOf, SameNumbers
<1>2. QueuesOwned(R, u)
  BY <1>1 DEF Owns, QueuesOwned, FewerOf
<1>3. TfiOwned(R, u)
  BY DEF Owns, TfiOwned, FewerOf, SameNumbers
<1>4. TaiOwned(R, u)
  BY DEF Owns, TaiOwned, FewerOf, SameNumbers
<1>5. UsfOwned(R, u)
  BY <1>1 DEF Owns, UsfOwned, FewerOf, SameNumbers
<1> QED
  BY <1>2, <1>3, <1>4, <1>5 DEF Owns

LEMMA ClearFewer ==
  ASSUME NEW S, NEW R, NEW u, Clear(S, u), FewerOf(S, R, u)
  PROVE  Clear(R, u)
BY DEF Clear, NotQueued, NoTfi, NoTai, NoUsf, FewerOf

LEMMA ClearOwns ==
  ASSUME NEW S, NEW u, Clear(S, u)
  PROVE  Owns(S, u)
BY DEF Clear, NotQueued, NoTfi, NoTai, NoUsf, Owns, QueuesOwned, TfiOwned, TaiOwned, UsfOwned

LEMMA GoodIs ==
  ASSUME NEW S, NEW t \in Tbf
  PROVE  Good(S) <=> Sound(S, t) /\ Owned(S, t)
BY DEF Good, Sound

\* What is not in use owns nothing.
LEMMA UnusedClear ==
  ASSUME NEW S, NEW t \in Tbf, Owns(S, t), ~ Used(S, t)
  PROVE  Clear(S, t)
BY DEF Clear, NotQueued, NoTfi, NoTai, NoUsf, Owns, QueuesOwned, TfiOwned, TaiOwned, UsfOwned

LEMMA SoundKept ==
  ASSUME NEW S, NEW t \in Tbf, NEW R, Sound(S, t), OthersKept(S, t, R), AllRegular(R),
         \A u \in Tbf \ {t} : FewerOf(S, R, u)
  PROVE  Sound(R, t)
<1>1. ASSUME NEW u \in Tbf \ {t} PROVE Owned(R, u)
  <2>1. R.tbf[u] = S.tbf[u] /\ Owned(S, u) /\ FewerOf(S, R, u) /\ u \in Tbf
    BY DEF OthersKept, Sound
  <2>2. SameNumbers(S.tbf[u], R.tbf[u]) /\ (Used(S, u) <=> Used(R, u)) /\ (OnTrx(S, u) <=> OnTrx(R, u))
    BY <2>1 DEF SameNumbers, Used, OnTrx
  <2>3. Owns(R, u)
    BY <2>1, <2>2, OwnsFewer DEF Owned
  <2> QED
    BY <2>1, <2>2, <2>3 DEF Owned
<1> QED
  BY <1>1 DEF Sound

\* The same queues and tables hold the same.
LEMMA SameTs ==
  ASSUME NEW S, NEW R, R.ts = S.ts
  PROVE  (AllRegular(S) => AllRegular(R)) /\ \A u : FewerOf(S, R, u)
BY DEF AllRegular, FewerOf

LEMMA DeallocatedClear ==
  ASSUME NEW S \in Sched, NEW t \in Tbf, NEW D, Deallocated(S, t, D), Sound(S, t), Owns(S, t)
  PROVE  Sound(D, t) /\ Clear(D, t)
<1>0. NoTbf # t /\ \A u \in Tbf : NoTbf # u
  BY Constants
<1>1. \A s \in Slot, d \in Dir, l \in Level :
        /\ Regular(D.ts.queue[s][d][l])
        /\ Users(D.ts.queue[s][d][l]) \subseteq Users(S.ts.queue[s][d][l])
        /\ s \in SlotsOf(S, t) /\ d = DirOf(t) => t \notin Users(D.ts.queue[s][d][l])
  <2> SUFFICES ASSUME NEW s \in Slot, NEW d \in Dir, NEW l \in Level
               PROVE  /\ Regular(D.ts.queue[s][d][l])
                      /\ Users(D.ts.queue[s][d][l]) \subseteq Users(S.ts.queue[s][d][l])
                      /\ s \in SlotsOf(S, t) /\ d = DirOf(t) => t \notin Users(D.ts.queue[s][d][l])
    OBVIOUS
  <2> DEFINE q == S.ts.queue[s][d][l]
  <2>1. q \in [1..NbrEntries[l] -> Entry] /\ FirstIn(q) /\ NbrEntries[l] \in Nat /\ Short(NbrEntries[l])
    BY QueueIs, Constants
  <2>2. Regular(q)
    BY DEF Sound, AllRegular
  <2> HIDE DEF q
  <2>3. Regular(DeallocateEntries(q, t)) /\ Users(DeallocateEntries(q, t)) \subseteq Users(q) \ {t}
    BY <2>1, <2>2, DeallocateRegular, DeallocateKeepsFirsts
  <2>4. D.ts.queue[s][d][l] = IF s \in SlotsOf(S, t) /\ d = DirOf(t) THEN DeallocateEntries(q, t) ELSE q
    BY DEF Deallocated, q
  <2>5. S.ts.queue[s][d][l] = q
    BY DEF q
  <2> QED
    BY <2>2, <2>3, <2>4, <2>5
<1>2. AllRegular(D)
  BY <1>1 DEF AllRegular
<1>3. ASSUME NEW u \in Tbf \ {t} PROVE FewerOf(S, D, u)
  <2>1. NoTbf # u
    BY <1>0
  <2>2. \A s \in Slot, d \in Dir, l \in Level :
          u \in Users(D.ts.queue[s][d][l]) => u \in Users(S.ts.queue[s][d][l])
    BY <1>1
  <2>3. \A d \in Dir, x \in Trx, n \in 0..MaxTfi - 1 : D.ts.tfi[d][x][n] = u => S.ts.tfi[d][x][n] = u
    BY <2>1 DEF Deallocated
  <2>4. \A s \in Slot, n \in 0..MaxTai - 1 : D.ts.tai[s][n] = u => S.ts.tai[s][n] = u
    BY <2>1 DEF Deallocated
  <2>5. \A s \in Slot, n \in 1..MaxUsf - 1 : D.ts.usf[s][n] = u => S.ts.usf[s][n] = u
    BY <2>1 DEF Deallocated
  <2> QED
    BY <2>2, <2>3, <2>4, <2>5 DEF FewerOf
<1>4. NotQueued(D, t)
  BY <1>1 DEF NotQueued, Owns, QueuesOwned
<1>5. NoTfi(D, t)
  BY <1>0 DEF NoTfi, Owns, TfiOwned, Deallocated
<1>6. NoTai(D, t)
  BY <1>0 DEF NoTai, Owns, TaiOwned, Deallocated
<1>7. NoUsf(D, t)
  BY <1>0 DEF NoUsf, Owns, UsfOwned, Deallocated
<1>8. Sound(D, t)
  BY <1>2, <1>3, SoundKept DEF Deallocated
<1> QED
  BY <1>4, <1>5, <1>6, <1>7, <1>8 DEF Clear

\* A change of the pool alone.
LEMMA PoolChanged ==
  ASSUME NEW S, NEW t \in Tbf, NEW R, Sound(S, t), Clear(S, t), R.ts = S.ts, OthersKept(S, t, R)
  PROVE  Sound(R, t) /\ Clear(R, t)
<1>1. AllRegular(R) /\ \A u : FewerOf(S, R, u)
  BY SameTs DEF Sound
<1> QED
  BY <1>1, SoundKept, ClearFewer

LEMMA ReleaseGood ==
  ASSUME NEW S \in Sched, NEW t \in Tbf, Sound(S, t), Owns(S, t)
  PROVE  Good(ReleaseTbf(S, t))
<1> DEFINE D == DeallocateUser(S, t)
           R == ReleaseTbf(S, t)
<1>1. /\ Deallocated(S, t, D) /\ R.ts = D.ts /\ OthersKept(S, t, R) /\ R.tbf[t].state = "FREE"
  BY ReleaseTbfIs
<1> HIDE DEF D, R
<1>2. Sound(D, t) /\ Clear(D, t)
  BY <1>1, DeallocatedClear
<1>3. OthersKept(D, t, R)
  BY <1>1 DEF Deallocated, OthersKept
<1>4. Sound(R, t) /\ Clear(R, t)
  BY <1>1, <1>2, <1>3, PoolChanged
<1>5. Owned(R, t)
  BY <1>1, <1>4, ClearOwns DEF Owned, Used
<1>6. Good(R)
  BY <1>4, <1>5, GoodIs
<1> QED
  BY <1>6 DEF R

\* Slot by slot the queues stay regular, and only t comes in.
LEMMA ServingSound ==
  ASSUME NEW S \in Sched, NEW t \in Tbf, NEW q, NEW j, Serving(S, t, q, j),
         Sound(S, t), NotQueued(S, t)
  PROVE  /\ Sound(j.S, t)
         /\ \A s \in Slot, d \in Dir, l \in Level :
              t \in Users(j.S.ts.queue[s][d][l]) => Mine(j.S, t, s, d)
<1>1. ASSUME NEW s \in Slot, NEW d \in Dir, NEW l \in Level
      PROVE  /\ Regular(j.S.ts.queue[s][d][l])
             /\ Users(j.S.ts.queue[s][d][l]) \subseteq Users(S.ts.queue[s][d][l]) \cup {t}
             /\ t \in Users(j.S.ts.queue[s][d][l]) => Mine(j.S, t, s, d)
  <2>1. Grown(S.ts.queue[s][d][l], j.S.ts.queue[s][d][l], t, q.prec, Mine(j.S, t, s, d))
    BY DEF Serving
  <2>2. Regular(S.ts.queue[s][d][l]) /\ t \notin Users(S.ts.queue[s][d][l])
    BY DEF Sound, AllRegular, NotQueued
  <2> QED
    BY <2>1, <2>2 DEF Grown
<1>2. AllRegular(j.S)
  BY <1>1 DEF AllRegular
<1>3. ASSUME NEW u \in Tbf \ {t} PROVE FewerOf(S, j.S, u)
  <2>1. \A s \in Slot, d \in Dir, l \in Level :
          u \in Users(j.S.ts.queue[s][d][l]) => u \in Users(S.ts.queue[s][d][l])
    BY <1>1
  <2> QED
    BY <2>1 DEF FewerOf, Serving, SameTables
<1>4. OthersKept(S, t, j.S)
  BY DEF Serving, OthersKept
<1> QED
  BY <1>1, <1>2, <1>3, <1>4, SoundKept

\* With a slot or without, nothing is marked that t does not know of.
LEMMA AllocatedSound ==
  ASSUME NEW S \in Sched, NEW t \in Tbf, NEW q, NEW a, Allocated(S, t, q, a), Used(S, t),
         Sound(S, t), Clear(S, t)
  PROVE  /\ Sound(a.S, t) /\ Owns(a.S, t)
         /\ a.ok => OnTrx(a.S, t)
         /\ S.tbf[t].trx # NullTrx => a.S.tbf[t].trx = S.tbf[t].trx
<1> PICK j : /\ Serving(S, t, q, j) /\ a.ok = (j.count > 0)
             /\ j.count = 0 => a.S = j.S
             /\ j.count > 0 => \E T : Numbered(t, j.S, T, a.S)
  BY DEF Allocated
<1>1. /\ Sound(j.S, t)
      /\ \A s \in Slot, d \in Dir, l \in Level :
           t \in Users(j.S.ts.queue[s][d][l]) => Mine(j.S, t, s, d)
  BY ServingSound DEF Clear
<1>2. /\ j.S \in Sched /\ j.count \in Nat /\ OthersKept(S, t, j.S)
      /\ j.S.tbf[t].state = S.tbf[t].state /\ S.tbf[t].trx \in {NullTrx, j.S.tbf[t].trx}
  BY DEF Serving, OthersKept, SameBut
<1>3. NoTfi(j.S, t) /\ NoTai(j.S, t) /\ NoUsf(j.S, t)
  BY DEF Clear, NoTfi, NoTai, NoUsf, Serving, SameTables
<1>4. CASE j.count = 0
  <2>1. j.S.tbf[t].slots = {}
    BY <1>4 DEF Serving
  <2>2. NotQueued(j.S, t)
    BY <1>1, <2>1 DEF NotQueued, Mine, SlotsOf
  <2>3. Owns(j.S, t)
    BY <1>3, <2>2, ClearOwns DEF Clear
  <2>4. a.S = j.S /\ ~ a.ok
    <3>1. ~ (j.count > 0)
      BY <1>4
    <3> QED
      BY <1>4, <3>1
  <2> QED
    BY <1>1, <1>2, <2>3, <2>4
<1>5. CASE j.count > 0
  <2> DEFINE J == j.S
             R == a.S
  <2>1. PICK T : Numbered(t, J, T, R)
    BY <1>5
  <2>2. J.tbf[t].slots # {} /\ \A n \in J.tbf[t].slots : <<J.tbf[t].trx, n>> \in Slot
    BY <1>5 DEF Serving
  <2>3. OnTrx(J, t)
    BY <1>2, <2>2, SlotMeansTrx DEF OnTrx
  <2>4. /\ R \in Sched /\ OthersKept(J, t, R) /\ SameUser(J, t, R)
        /\ R.tbf[t].trx = J.tbf[t].trx /\ R.tbf[t].slots = J.tbf[t].slots
        /\ R.ts.queue = J.ts.queue
    BY <1>2, <2>1, NumberedKeeps
  <2>5. TfiGiven(J, t, T) /\ TaiUsfGiven(T, t, R) /\ T \in Sched
    BY <2>1 DEF Numbered
  <2>6. J.tbf \in [Tbf -> Object] /\ Used(R, t) /\ SlotsOf(R, t) = SlotsOf(J, t)
    BY <1>2, <2>4, SchedIs DEF Used, SameUser, SlotsOf
  <2> HIDE DEF J, R
  <2>7. AllRegular(R)
    BY <1>1, <2>4 DEF AllRegular, Sound, J
  <2>8. ASSUME NEW u \in Tbf \ {t} PROVE FewerOf(J, R, u)
    BY <2>4, <2>5 DEF FewerOf, TfiGiven, TaiUsfGiven
  <2>9. Sound(R, t)
    BY <1>1, <2>4, <2>7, <2>8, SoundKept DEF J
  <2>10. QueuesOwned(R, t)
    BY <1>1, <2>4, <2>6 DEF QueuesOwned, Mine, J
  <2>11. R.tbf[t].tfi = T.tbf[t].tfi /\ T.tbf[t].trx = R.tbf[t].trx
    BY <2>5 DEF TaiUsfGiven
  <2>12. TfiOwned(R, t)
    <3> SUFFICES ASSUME NEW d \in Dir, NEW x \in Trx, NEW n \in 0..MaxTfi - 1, R.ts.tfi[d][x][n] = t
                 PROVE  d = DirOf(t) /\ Used(R, t) /\ R.tbf[t].trx = x /\ R.tbf[t].tfi = n
      BY DEF TfiOwned
    <3>1. T.ts.tfi[d][x][n] = t
      BY <2>5 DEF TaiUsfGiven
    <3>2. J.ts.tfi[d][x][n] # t
      BY <1>3 DEF NoTfi, J
    <3>3. d = DirOf(t) /\ x = T.tbf[t].trx /\ n = T.tbf[t].tfi
      BY <2>5, <3>1, <3>2 DEF TfiGiven
    <3> QED
      BY <2>6, <2>11, <3>3
  <2>13. T.ts.tai = J.ts.tai /\ T.ts.usf = J.ts.usf
    BY <2>5 DEF TfiGiven
  <2>14. TaiOwned(R, t)
    BY <1>3, <2>5, <2>6, <2>13 DEF TaiOwned, TaiUsfGiven, NoTai, J
  <2>15. UsfOwned(R, t)
    BY <1>3, <2>5, <2>6, <2>13 DEF UsfOwned, TaiUsfGiven, NoUsf, J
  <2>16. Owns(R, t) /\ OnTrx(R, t)
    BY <2>3, <2>4, <2>10, <2>12, <2>14, <2>15 DEF Owns, OnTrx
  <2> QED
    BY <1>2, <2>4, <2>9, <2>16 DEF J, R
<1> QED
  BY <1>2, <1>4, <1>5

LEMMA RequestedGood ==
  ASSUME NEW S \in Sched, NEW t \in Tbf, NEW x, NEW R, Requested(S, t, x, R), Good(S), ~ Used(S, t)
  PROVE  Good(R)
<1> PICK E, q, a :
    /\ E \in Sched /\ E.ts = S.ts /\ OthersKept(S, t, E)
    /\ E.tbf[t].state = (IF t \in UlTbf THEN "ALLOCATED" ELSE "ACTIVATING")
    /\ E.tbf[t].trx = x /\ E.tbf[t].slots = {} /\ q \in Qos
    /\ Allocated(E, t, q, a)
    /\ R = ReleaseTbf(a.S, t) \/ (R = a.S /\ a.ok)
  BY DEF Requested
<1>1. Sound(S, t) /\ Clear(S, t)
  BY GoodIs, UnusedClear DEF Owned
<1>2. Sound(E, t) /\ Clear(E, t)
  BY <1>1, PoolChanged
<1>3. Used(E, t)
  BY DEF Used
<1>4. Sound(a.S, t) /\ Owns(a.S, t) /\ (a.ok => OnTrx(a.S, t)) /\ a.S \in Sched
  BY <1>2, <1>3, AllocatedSound, AllocatedKeeps
<1>5. CASE R = ReleaseTbf(a.S, t)
  BY <1>4, <1>5, ReleaseGood
<1>6. CASE R = a.S /\ a.ok
  BY <1>4, <1>6, GoodIs DEF Owned
<1> QED
  BY <1>5, <1>6

LEMMA TouchedGood ==
  ASSUME NEW S, NEW t \in Tbf, NEW R, Touched(S, t, R), Good(S)
  PROVE  Good(R)
<1>1. Sound(S, t) /\ Owned(S, t)
  BY GoodIs
<1>2. AllRegular(R) /\ \A u : FewerOf(S, R, u)
  BY SameTs DEF Touched, Good
<1>3. Sound(R, t)
  BY <1>1, <1>2, SoundKept DEF Touched
<1>4. Owns(R, t)
  BY <1>1, <1>2, OwnsFewer DEF Touched, SameNumbers, Owned
<1>5. OnTrx(R, t)
  BY <1>1 DEF Touched, OnTrx, Owned
<1> QED
  BY <1>3, <1>4, <1>5, GoodIs DEF Owned

\* What follows holds of a base station that has its PDCHs on one transceiver:
\* DLResourceReallocRequest gives a TBF the transceiver of its mobile's uplink
\* TBF while it still holds the slots and the numbers of its own.
OnePdchTrx == \A a, b \in Slot : a[1] = b[1]

LEMMA MovedGood ==
  ASSUME OnePdchTrx, NEW S, NEW t \in Tbf, NEW x \in TrxInUse(S), NEW R, Moved(S, t, x, R), Good(S)
  PROVE  Good(R)
<1>1. Sound(S, t) /\ Owned(S, t)
  BY GoodIs
<1>2. x = S.tbf[t].trx
  <2>1. PICK u \in Tbf : Used(S, u) /\ x = S.tbf[u].trx
    BY DEF TrxInUse
  <2>2. OnTrx(S, u) /\ OnTrx(S, t)
    BY <1>1, <2>1 DEF Good, Owned, Moved
  <2> QED
    BY <2>1, <2>2 DEF OnTrx, OnePdchTrx
<1>3. AllRegular(R) /\ \A u : FewerOf(S, R, u)
  BY SameTs DEF Moved, Good
<1>4. Sound(R, t)
  BY <1>1, <1>3, SoundKept DEF Moved
<1>5. Owns(R, t)
  BY <1>1, <1>2, <1>3, OwnsFewer DEF Moved, SameUser, SameNumbers, Owned, Used
<1>6. OnTrx(R, t)
  BY <1>1, <1>2 DEF Moved, OnTrx, Owned
<1> QED
  BY <1>4, <1>5, <1>6, GoodIs DEF Owned

\* Without its entries a TBF still has its numbers.
LEMMA LeftSound ==
  ASSUME NEW S \in Sched, NEW t \in Tbf, NEW L, Left(S, t, L), Good(S)
  PROVE  /\ Sound(L, t) /\ NotQueued(L, t)
         /\ OthersKept(S, t, L) /\ SameUser(S, t, L) /\ L.tbf[t].slots = {}
         /\ SameBut(S.tbf[t], L.tbf[t]) /\ L.tbf[t].trx = S.tbf[t].trx
<1>1. Sound(S, t) /\ Owned(S, t)
  BY GoodIs
<1>2. \A s \in Slot, d \in Dir, l \in Level :
        /\ Regular(L.ts.queue[s][d][l])
        /\ Users(L.ts.queue[s][d][l]) \subseteq Users(S.ts.queue[s][d][l])
        /\ s \in SlotsOf(S, t) /\ d = DirOf(t) => t \notin Users(L.ts.queue[s][d][l])
  <2> SUFFICES ASSUME NEW s \in Slot, NEW d \in Dir, NEW l \in Level
               PROVE  /\ Regular(L.ts.queue[s][d][l])
                      /\ Users(L.ts.queue[s][d][l]) \subseteq Users(S.ts.queue[s][d][l])
                      /\ s \in SlotsOf(S, t) /\ d = DirOf(t) => t \notin Users(L.ts.queue[s][d][l])
    OBVIOUS
  <2> DEFINE q == S.ts.queue[s][d][l]
  <2>1. q \in [1..NbrEntries[l] -> Entry] /\ FirstIn(q) /\ NbrEntries[l] \in Nat /\ Short(NbrEntries[l])
    BY QueueIs, Constants
  <2>2. Regular(q)
    BY DEF Good, AllRegular
  <2> HIDE DEF q
  <2>3. Regular(DeallocateEntries(q, t)) /\ Users(DeallocateEntries(q, t)) \subseteq Users(q) \ {t}
    BY <2>1, <2>2, DeallocateRegular, DeallocateKeepsFirsts
  <2>4. L.ts.queue[s][d][l] = IF s \in SlotsOf(S, t) /\ d = DirOf(t) THEN DeallocateEntries(q, t) ELSE q
    BY DEF Left, q
  <2>5. S.ts.queue[s][d][l] = q
    BY DEF q
  <2> QED
    BY <2>2, <2>3, <2>4, <2>5
<1>3. AllRegular(L)
  BY <1>2 DEF AllRegular
<1>4. ASSUME NEW u \in Tbf \ {t} PROVE FewerOf(S, L, u)
  <2>1. \A s \in Slot, d \in Dir, l \in Level :
          u \in Users(L.ts.queue[s][d][l]) => u \in Users(S.ts.queue[s][d][l])
    BY <1>2
  <2> QED
    BY <2>1 DEF FewerOf, Left, SameTables
<1>5. NotQueued(L, t)
  BY <1>1, <1>2 DEF NotQueued, Owned, Owns, QueuesOwned
<1>6. S.tbf \in [Tbf -> Object] /\ S.tbf[t] \in Object
  BY SchedIs
<1>7. L.tbf[t] = [S.tbf[t] EXCEPT !.slots = {}] /\ OthersKept(S, t, L)
  BY <1>6 DEF Left, OthersKept
<1>8. SameUser(S, t, L) /\ L.tbf[t].slots = {} /\ SameBut(S.tbf[t], L.tbf[t]) /\ L.tbf[t].trx = S.tbf[t].trx
  BY <1>6, <1>7 DEF SameUser, SameBut, Object
<1> QED
  BY <1>1, <1>3, <1>4, <1>5, <1>7, <1>8, SoundKept

\* A reallocation that was better: other slots, a new TAI and new USFs.
LEMMA RenumberedGood ==
  ASSUME NEW S \in Sched, NEW t \in Tbf, NEW L, NEW q, NEW j, NEW R,
         Left(S, t, L), Serving(L, t, q, j), j.count > 0, Renumbered(S, t, j.S, R),
         Good(S), Used(S, t)
  PROVE  Good(R)
<1> DEFINE J == j.S
<1> PICK P, T :
      /\ P \in Sched /\ T \in Sched
      /\ TaiReleased(J, t, P) /\ UsfReleased(P, t, {s \in Slot : s[1] = S.tbf[t].trx}, T)
      /\ TaiUsfGiven(T, t, R)
  BY DEF Renumbered
<1>0. NoTbf # t /\ \A u \in Tbf : NoTbf # u
  BY Constants
<1>1. /\ Sound(L, t) /\ NotQueued(L, t) /\ OthersKept(S, t, L) /\ SameUser(S, t, L)
      /\ SameBut(S.tbf[t], L.tbf[t]) /\ L.tbf[t].trx = S.tbf[t].trx /\ L \in Sched /\ SameTables(S, L)
  <2>1. L \in Sched /\ SameTables(S, L)
    BY DEF Left
  <2> QED
    BY <2>1, LeftSound
<1>2. /\ Sound(J, t)
      /\ \A s \in Slot, d \in Dir, l \in Level :
           t \in Users(J.ts.queue[s][d][l]) => Mine(J, t, s, d)
  BY <1>1, ServingSound
<1>3. Owns(S, t) /\ OnTrx(S, t) /\ S.tbf[t].trx # NullTrx
  <2>1. Owned(S, t)
    BY DEF Good
  <2> QED
    BY <2>1, Constants DEF Owned, OnTrx
<1>4. /\ J \in Sched /\ SameTables(S, J) /\ SameBut(S.tbf[t], J.tbf[t]) /\ J.tbf[t].trx = S.tbf[t].trx
  BY <1>1, <1>3 DEF Serving, SameTables, SameBut
<1> HIDE DEF J
<1>5. P.tbf = J.tbf /\ T.tbf = J.tbf /\ R \in Sched /\ OthersKept(J, t, R)
  BY DEF TaiReleased, UsfReleased, TaiUsfGiven, OthersKept
<1>6. /\ R.tbf[t].state = S.tbf[t].state /\ R.tbf[t].trx = S.tbf[t].trx
      /\ R.tbf[t].tfi = S.tbf[t].tfi /\ R.tbf[t].slots = J.tbf[t].slots /\ Used(R, t)
  BY <1>4, <1>5 DEF TaiUsfGiven, SameBut, Used
<1>7. R.ts.queue = J.ts.queue /\ R.ts.tfi = S.ts.tfi /\ AllRegular(R)
  BY <1>2, <1>4 DEF TaiReleased, UsfReleased, TaiUsfGiven, SameTables, AllRegular, Sound
<1>8. ASSUME NEW u \in Tbf \ {t} PROVE FewerOf(J, R, u)
  <2>1. NoTbf # u /\ u # t
    BY <1>0
  <2>2. \A s \in Slot, n \in 0..MaxTai - 1 : R.ts.tai[s][n] = u => J.ts.tai[s][n] = u
    <3>1. \A s \in Slot, n \in 0..MaxTai - 1 : R.ts.tai[s][n] = u => T.ts.tai[s][n] = u
      BY <2>1 DEF TaiUsfGiven
    <3>2. \A s \in Slot, n \in 0..MaxTai - 1 : P.ts.tai[s][n] = u => J.ts.tai[s][n] = u
      BY <2>1 DEF TaiReleased
    <3> QED
      BY <3>1, <3>2 DEF UsfReleased
  <2>3. \A s \in Slot, n \in 1..MaxUsf - 1 : R.ts.usf[s][n] = u => J.ts.usf[s][n] = u
    <3>1. \A s \in Slot, n \in 1..MaxUsf - 1 : R.ts.usf[s][n] = u => T.ts.usf[s][n] = u
      BY <2>1 DEF TaiUsfGiven
    <3>2. \A s \in Slot, n \in 1..MaxUsf - 1 : T.ts.usf[s][n] = u => P.ts.usf[s][n] = u
      BY <2>1 DEF UsfReleased
    <3> QED
      BY <3>1, <3>2 DEF TaiReleased
  <2>4. R.ts.tfi = J.ts.tfi
    BY <1>4, <1>7 DEF SameTables
  <2> QED
    BY <1>7, <2>2, <2>3, <2>4 DEF FewerOf
<1>9. Sound(R, t)
  BY <1>2, <1>5, <1>7, <1>8, SoundKept
<1>10. SlotsOf(R, t) = SlotsOf(J, t)
  BY <1>4, <1>6 DEF SlotsOf
<1>11. QueuesOwned(R, t)
  BY <1>2, <1>6, <1>7, <1>10 DEF QueuesOwned, Mine
<1>12. TfiOwned(R, t)
  BY <1>3, <1>6, <1>7 DEF Owns, TfiOwned
<1>13. TaiOwned(R, t)
  <2> SUFFICES ASSUME NEW s \in Slot, NEW n \in 0..MaxTai - 1, R.ts.tai[s][n] = t
               PROVE  Used(R, t) /\ s = <<R.tbf[t].trx, R.tbf[t].taiTs>> /\ R.tbf[t].tai = n
    BY DEF TaiOwned
  <2>1. T.ts.tai[s][n] # t
    <3>1. T.ts.tai = P.ts.tai
      BY DEF UsfReleased
    <3>2. S.ts.tai[s][n] = t => s = <<J.tbf[t].trx, J.tbf[t].taiTs>> /\ n = J.tbf[t].tai
      BY <1>3, <1>4 DEF Owns, TaiOwned, SameBut
    <3>3. J.ts.tai = S.ts.tai
      BY <1>4 DEF SameTables
    <3> QED
      BY <1>0, <3>1, <3>2, <3>3 DEF TaiReleased
  <2> QED
    BY <1>6, <2>1 DEF TaiUsfGiven
<1>14. UsfOwned(R, t)
  <2> SUFFICES ASSUME NEW s \in Slot, NEW n \in 1..MaxUsf - 1, R.ts.usf[s][n] = t
               PROVE  t \in UlTbf /\ Used(R, t) /\ s \in SlotsOf(R, t) /\ R.tbf[t].usf[s[2]] = n
    BY DEF UsfOwned
  <2>1. T.ts.usf[s][n] # t
    <3>1. P.ts.usf = S.ts.usf
      BY <1>4 DEF TaiReleased, SameTables
    <3>2. S.ts.usf[s][n] = t => t \in UlTbf /\ s[1] = S.tbf[t].trx /\ n = P.tbf[t].usf[s[2]]
      BY <1>3, <1>4, <1>5 DEF Owns, UsfOwned, SameBut, SlotsOf
    <3> QED
      BY <1>0, <3>1, <3>2 DEF UsfReleased
  <2> QED
    BY <1>6, <2>1 DEF TaiUsfGiven
<1>15. OnTrx(R, t)
  BY <1>3, <1>6 DEF OnTrx
<1> QED
  BY <1>9, <1>11, <1>12, <1>13, <1>14, <1>15, GoodIs DEF Owned, Owns

\* One that was not: what was there before.
LEMMA RestoredGood ==
  ASSUME NEW S \in Sched, NEW t \in Tbf, NEW L, NEW q, NEW j, NEW R,
         Left(S, t, L), Serving(L, t, q, j), Restored(S, t, j.S, R), Good(S), Used(S, t)
  PROVE  Good(R)
<1>1. /\ OthersKept(S, t, L) /\ SameUser(S, t, L) /\ SameBut(S.tbf[t], L.tbf[t])
      /\ L.tbf[t].trx = S.tbf[t].trx /\ SameTables(S, L)
  <2>1. SameTables(S, L)
    BY DEF Left
  <2> QED
    BY <2>1, LeftSound
<1>2. Sound(S, t) /\ Owned(S, t)
  BY GoodIs
<1>3. OnTrx(S, t) /\ S.tbf[t].trx # NullTrx
  BY <1>2, Constants DEF Owned, OnTrx
<1>4. OthersKept(S, t, R)
  BY <1>1 DEF Serving, Restored, OthersKept
<1>5. /\ R.ts.queue = S.ts.queue /\ SameTables(S, R)
      /\ SameNumbers(S.tbf[t], R.tbf[t]) /\ R.tbf[t].state = S.tbf[t].state
  BY <1>1, <1>3 DEF Serving, Restored, SameTables, SameBut, SameNumbers
<1>6. AllRegular(R) /\ \A u : FewerOf(S, R, u)
  BY <1>2, <1>5 DEF AllRegular, FewerOf, SameTables, Sound
<1>7. Sound(R, t)
  BY <1>2, <1>4, <1>6, SoundKept
<1>8. Owns(R, t)
  BY <1>2, <1>5, <1>6, OwnsFewer DEF Used, Owned
<1>9. OnTrx(R, t)
  BY <1>3, <1>5 DEF OnTrx, SameNumbers
<1> QED
  BY <1>7, <1>8, <1>9, GoodIs DEF Owned

LEMMA CallsGood ==
  ASSUME OnePdchTrx, NEW S, Typed(S), Good(S), NEW R, Calls(S, R)
  PROVE  Good(R)
<1>0. S \in Sched
  BY DEF Typed
<1>1. ASSUME NEW t \in Tbf, R = ReleaseTbf(S, t) PROVE Good(R)
  BY <1>0, <1>1, GoodIs, ReleaseGood DEF Owned
<1>2. ASSUME NEW t \in Tbf, NEW x, ~ Used(S, t), Requested(S, t, x, R) PROVE Good(R)
  BY <1>0, <1>2, RequestedGood
<1>3. ASSUME NEW t \in Tbf, NEW q \in Qos, NEW a, Used(S, t), Reallocated(S, t, q, a), R = a.S
      PROVE  Good(R)
  <2> PICK L, j : /\ Left(S, t, L) /\ Serving(L, t, q, j)
                  /\ \/ j.count > 0 /\ Renumbered(S, t, j.S, a.S)
                     \/ Restored(S, t, j.S, a.S)
    BY <1>3 DEF Reallocated
  <2>1. CASE j.count > 0 /\ Renumbered(S, t, j.S, a.S)
    BY <1>0, <1>3, <2>1, RenumberedGood
  <2>2. CASE Restored(S, t, j.S, a.S)
    BY <1>0, <1>3, <2>2, RestoredGood
  <2> QED
    BY <2>1, <2>2
<1>4. ASSUME NEW t \in Tbf, NEW q \in Qos, NEW a, Used(S, t),
             Allocated(DeallocateUser(S, t), t, q, a), R = a.S
      PROVE  Good(R)
  <2> DEFINE D == DeallocateUser(S, t)
  <2>1. Deallocated(S, t, D)
    BY <1>0, DeallocateUserIs
  <2>2. Allocated(D, t, q, a)
    BY <1>4
  <2> HIDE DEF D
  <2>3. Sound(S, t) /\ Owned(S, t) /\ OnTrx(S, t)
    BY <1>4, GoodIs DEF Owned
  <2>4. Sound(D, t) /\ Clear(D, t)
    BY <1>0, <2>1, <2>3, DeallocatedClear DEF Owned
  <2>5. D \in Sched /\ Used(D, t) /\ D.tbf[t].trx = S.tbf[t].trx /\ D.tbf[t].trx # NullTrx
    BY <1>4, <2>1, <2>3, Constants DEF Deallocated, SameUser, Used, OnTrx
  <2>6. Sound(R, t) /\ Owns(R, t) /\ R.tbf[t].trx = S.tbf[t].trx
    BY <1>4, <2>2, <2>4, <2>5, AllocatedSound
  <2>7. OnTrx(R, t)
    BY <2>3, <2>6 DEF OnTrx
  <2> QED
    BY <2>6, <2>7, GoodIs DEF Owned
<1>5. ASSUME NEW t \in Tbf, Touched(S, t, R) PROVE Good(R)
  BY <1>5, TouchedGood
<1>6. ASSUME NEW t \in Tbf, NEW x \in TrxInUse(S), Moved(S, t, x, R) PROVE Good(R)
  BY <1>6, MovedGood
<1> QED
  BY <1>1, <1>2, <1>3, <1>4, <1>5, <1>6 DEF Calls

LEMMA ReachesGood ==
  ASSUME OnePdchTrx, NEW S, Typed(S), Good(S), NEW R, Reaches(S, R)
  PROVE  Good(R)
<1> PICK S1, S2 : Calls(S, S1) /\ Calls(S1, S2) /\ Calls(S2, R)
  BY DEF Reaches
<1>1. Typed(S1) /\ Good(S1)
  BY CallsTyped, CallsGood
<1>2. Typed(S2) /\ Good(S2)
  BY <1>1, CallsTyped, CallsGood
<1> QED
  BY <1>2, CallsGood

-----------------------------------------------------------------------------
(* The invariant of ownership, on one transceiver.                           *)

GoodNow == TypedNow /\ (OnePdchTrx => Good(Now))

LEMMA GoodInit ==
  ASSUME Init
  PROVE  GoodNow
<1>1. TypedNow
  BY TypedInit
<1>2. Now.ts = ts /\ Now.tbf = tbf
  BY DEF Now
<1>3. \A s \in Slot, d \in Dir, l \in Level :
        ts.queue[s][d][l] = [i \in 1..NbrEntries[l] |-> NullEntry]
  BY DEF Init
<1>4. \A s \in Slot, d \in Dir, l \in Level :
        Users(ts.queue[s][d][l]) = {} /\ Regular(ts.queue[s][d][l])
  <2> SUFFICES ASSUME NEW n PROVE LET q == [i \in 1..n |-> NullEntry]
                                  IN Users(q) = {} /\ Regular(q)
    BY <1>3
  <2> DEFINE q == [i \in 1..n |-> NullEntry]
  <2>1. DOMAIN q = 1..n /\ \A i \in 1..n : q[i] = NullEntry /\ q[i].tbf = NoTbf /\ q[i].nbr = 0
    BY DEF NullEntry
  <2> HIDE DEF q
  <2>2. Users(q) = {}
    BY <2>1 DEF Users
  <2>3. FirstIn(q) /\ FullIn(q)
    BY <2>2 DEF FirstIn, FullIn
  <2>4. NoGaps(q)
    <3>1. \A i \in DOMAIN q : ~ (q[i].nbr > 0)
      BY <2>1
    <3> QED
      BY <3>1 DEF NoGaps
  <2>5. OnePrec(q)
    BY <2>1 DEF OnePrec
  <2> QED
    BY <2>2, <2>3, <2>4, <2>5 DEF Regular, q
<1>5. ASSUME NEW u \in Tbf PROVE Owned(Now, u)
  <2>1. u # NoTbf
    BY Constants
  <2>2. Clear(Now, u)
    <3>1. NotQueued(Now, u)
      BY <1>2, <1>4 DEF NotQueued
    <3>2. /\ ts.tfi = [d \in Dir |-> [x \in Trx |-> [n \in 0..MaxTfi - 1 |-> NoTbf]]]
          /\ ts.tai = [s \in Slot |-> [n \in 0..MaxTai - 1 |-> NoTbf]]
          /\ ts.usf = [s \in Slot |-> [n \in 1..MaxUsf - 1 |-> NoTbf]]
      BY DEF Init
    <3>3. NoTfi(Now, u)
      BY <1>2, <2>1, <3>2 DEF NoTfi
    <3>4. NoTai(Now, u)
      BY <1>2, <2>1, <3>2 DEF NoTai
    <3>5. NoUsf(Now, u)
      BY <1>2, <2>1, <3>2 DEF NoUsf
    <3> QED
      BY <3>1, <3>3, <3>4, <3>5 DEF Clear
  <2>3. ~ Used(Now, u)
    BY <1>2 DEF Used, Init, FreeObject
  <2> QED
    BY <2>2, <2>3, ClearOwns DEF Owned
<1> QED
  BY <1>1, <1>2, <1>4, <1>5 DEF GoodNow, Good, AllRegular

LEMMA GoodNext ==
  ASSUME GoodNow, [Next]_vars
  PROVE  GoodNow'
<1>1. TypedNow' /\ TypedNow
  BY TypedNext DEF GoodNow
<1>2. ASSUME OnePdchTrx PROVE Good(Now)'
  <2>1. Good(Now) /\ Typed(Now)
    BY <1>1, <1>2 DEF GoodNow, TypedNow
  <2>2. CASE Moves
    BY <1>2, <2>1, <2>2, MovesIs, ReachesGood
  <2>3. ASSUME Now'.tbf = Now.tbf, Now'.ts.queue = Now.ts.queue, Now'.ts.tfi = Now.ts.tfi,
               Now'.ts.tai = Now.ts.tai, Now'.ts.usf = Now.ts.usf
        PROVE  Good(Now')
    <3>1. AllRegular(Now')
      BY <2>1, <2>3 DEF Good, AllRegular
    <3>2. ASSUME NEW u \in Tbf PROVE Owned(Now', u)
      <4>1. FewerOf(Now, Now', u)
        BY <2>3 DEF FewerOf
      <4>2. SameNumbers(Now.tbf[u], Now'.tbf[u]) /\ Now'.tbf[u] = Now.tbf[u]
        BY <2>3 DEF SameNumbers
      <4>3. (Used(Now, u) <=> Used(Now', u)) /\ (OnTrx(Now, u) <=> OnTrx(Now', u))
        BY <4>2 DEF Used, OnTrx
      <4>4. Owned(Now, u)
        BY <2>1 DEF Good
      <4>5. Owns(Now', u)
        BY <4>1, <4>2, <4>3, <4>4, OwnsFewer DEF Owned
      <4> QED
        BY <4>3, <4>4, <4>5 DEF Owned
    <3> QED
      BY <3>1, <3>2 DEF Good
  <2>4. CASE Scheduled
    BY <2>3, <2>4 DEF Scheduled, Now
  <2>5. CASE UNCHANGED vars
    BY <2>3, <2>5 DEF vars, Now
  <2> QED
    BY <2>1, <2>2, <2>4, <2>5, NextIs
<1> QED
  BY <1>1, <1>2 DEF GoodNow

LEMMA GoodAlways == Spec => []GoodNow
<1>1. Init => GoodNow
  BY GoodInit
<1>2. GoodNow /\ [Next]_vars => GoodNow'
  BY GoodNext
<1> QED
  BY <1>1, <1>2, PTL DEF Spec

\* Every entry of a queue belongs to a TBF in use that has the slot: whoever is
\* released, moved to fewer slots or refused in the middle of a request leaves
\* no entry behind for ScheduleNextBlock to serve.
THEOREM EntriesHaveOwners == ASSUME OnePdchTrx PROVE Spec => []EntriesOwned
<1>1. GoodNow => (OnePdchTrx => EntriesOwned)
  <2> SUFFICES ASSUME GoodNow, OnePdchTrx PROVE EntriesOwned
    OBVIOUS
  <2>1. Good(Now) /\ Now \in Sched /\ Now.ts = ts /\ Now.tbf = tbf
    BY DEF GoodNow, TypedNow, Typed, Now
  <2> SUFFICES ASSUME NEW s \in Slot, NEW d \in Dir, NEW l \in Level, NEW u \in Users(ts.queue[s][d][l])
               PROVE  DirOf(u) = d /\ tbf[u].state # "FREE" /\ s \in SlotsOf(Now, u)
    BY DEF EntriesOwned
  <2>2. u \in Tbf
    <3>1. ts.queue[s][d][l] \in [1..NbrEntries[l] -> Entry]
      BY <2>1, QueueIs
    <3>2. PICK i \in 1..NbrEntries[l] : ts.queue[s][d][l][i].tbf = u /\ u # NoTbf
      BY <3>1 DEF Users
    <3>3. ts.queue[s][d][l][i] \in Entry
      BY <3>1, <3>2
    <3> QED
      BY <3>2, <3>3, EntryType
  <2>3. QueuesOwned(Now, u)
    BY <2>1, <2>2 DEF Good, Owned, Owns
  <2> QED
    BY <2>1, <2>3 DEF QueuesOwned, Used
<1>2. Spec => [](OnePdchTrx => EntriesOwned)
  BY <1>1, GoodAlways, PTL
<1>3. (OnePdchTrx => EntriesOwned) <=> EntriesOwned
  OBVIOUS
<1> QED
  BY <1>2, <1>3, PTL

\* What is marked in the tables of TFI, TAI and USF is known to a TBF in use
\* that has that very number there: no run of requests, reallocations, refusals
\* and releases, however long, uses a table up.
THEOREM NumbersHaveOwners == ASSUME OnePdchTrx PROVE Spec => []NothingLeaks
<1>1. GoodNow => (OnePdchTrx => NothingLeaks)
  <2> SUFFICES ASSUME GoodNow, OnePdchTrx PROVE NothingLeaks
    OBVIOUS
  <2>1. Good(Now) /\ Now \in Sched /\ Now.ts = ts /\ Now.tbf = tbf
    BY DEF GoodNow, TypedNow, Typed, Now
  <2>2. /\ ts.tfi \in [Dir -> [Trx -> [0..MaxTfi - 1 -> Owner]]]
        /\ ts.tai \in [Slot -> [0..MaxTai - 1 -> Owner]] /\ ts.usf \in [Slot -> [1..MaxUsf - 1 -> Owner]]
    BY <2>1, SchedIs
  <2>3. ASSUME NEW u \in Tbf PROVE TfiOwned(Now, u) /\ TaiOwned(Now, u) /\ UsfOwned(Now, u)
    BY <2>1 DEF Good, Owned, Owns
  <2>4. ASSUME NEW d \in Dir, NEW x \in Trx, NEW n \in 0..MaxTfi - 1, ts.tfi[d][x][n] # NoTbf
        PROVE  LET t == ts.tfi[d][x][n]
               IN tbf[t].state # "FREE" /\ tbf[t].trx = x /\ tbf[t].tfi = n
    <3> DEFINE t == ts.tfi[d][x][n]
    <3>1. t \in Tbf
      <4>1. ts.tfi[d] \in [Trx -> [0..MaxTfi - 1 -> Owner]]
        BY <2>2
      <4>2. ts.tfi[d][x] \in [0..MaxTfi - 1 -> Owner]
        BY <4>1
      <4>3. ts.tfi[d][x][n] \in Owner
        BY <4>2
      <4> QED
        BY <2>4, <4>3 DEF Owner
    <3>2. TfiOwned(Now, t) /\ Now.ts.tfi[d][x][n] = t
      BY <2>1, <2>3, <3>1
    <3> HIDE DEF t
    <3>3. tbf[t].state # "FREE" /\ tbf[t].trx = x /\ tbf[t].tfi = n
      BY <2>1, <3>2 DEF TfiOwned, Used
    <3> QED
      BY <3>3 DEF t
  <2>5. ASSUME NEW s \in Slot, NEW n \in 0..MaxTai - 1, ts.tai[s][n] # NoTbf
        PROVE  LET t == ts.tai[s][n]
               IN tbf[t].state # "FREE" /\ <<tbf[t].trx, tbf[t].taiTs>> = s /\ tbf[t].tai = n
    <3> DEFINE t == ts.tai[s][n]
    <3>1. t \in Tbf
      <4>1. ts.tai[s] \in [0..MaxTai - 1 -> Owner]
        BY <2>2
      <4>2. ts.tai[s][n] \in Owner
        BY <4>1
      <4> QED
        BY <2>5, <4>2 DEF Owner
    <3>2. TaiOwned(Now, t) /\ Now.ts.tai[s][n] = t
      BY <2>1, <2>3, <3>1
    <3> HIDE DEF t
    <3>3. tbf[t].state # "FREE" /\ <<tbf[t].trx, tbf[t].taiTs>> = s /\ tbf[t].tai = n
      BY <2>1, <3>2 DEF TaiOwned, Used
    <3> QED
      BY <3>3 DEF t
  <2>6. ASSUME NEW s \in Slot, NEW n \in 1..MaxUsf - 1, ts.usf[s][n] # NoTbf
        PROVE  LET t == ts.usf[s][n]
               IN s \in SlotsOf(Now, t) /\ tbf[t].usf[s[2]] = n
    <3> DEFINE t == ts.usf[s][n]
    <3>1. t \in Tbf
      <4>1. ts.usf[s] \in [1..MaxUsf - 1 -> Owner]
        BY <2>2
      <4>2. ts.usf[s][n] \in Owner
        BY <4>1
      <4> QED
        BY <2>6, <4>2 DEF Owner
    <3>2. UsfOwned(Now, t) /\ Now.ts.usf[s][n] = t
      BY <2>1, <2>3, <3>1
    <3> HIDE DEF t
    <3>3. s \in SlotsOf(Now, t) /\ tbf[t].usf[s[2]] = n
      BY <2>1, <3>2 DEF UsfOwned
    <3> QED
      BY <3>3 DEF t
  <2> QED
    BY <2>4, <2>5, <2>6 DEF NothingLeaks
<1>2. Spec => [](OnePdchTrx => NothingLeaks)
  BY <1>1, GoodAlways, PTL
<1>3. (OnePdchTrx => NothingLeaks) <=> NothingLeaks
  OBVIOUS
<1> QED
  BY <1>2, <1>3, PTL

\* A level that has users has no null entry: what ScheduleNextBlock relies on
\* when it looks at the first entry alone, for every number of entries of which
\* the importance of null is out of reach.
THEOREM LevelsFull == ASSUME OnePdchTrx PROVE Spec => []LevelsFullOrEmpty
<1>1. GoodNow => (OnePdchTrx => LevelsFullOrEmpty)
  <2> SUFFICES ASSUME GoodNow, OnePdchTrx PROVE LevelsFullOrEmpty
    OBVIOUS
  <2>1. Good(Now) /\ Now.ts = ts
    BY DEF GoodNow, Now
  <2> QED
    BY <2>1 DEF Good, AllRegular, Regular, FullIn, LevelsFullOrEmpty
<1>2. Spec => [](OnePdchTrx => LevelsFullOrEmpty)
  BY <1>1, GoodAlways, PTL
<1>3. (OnePdchTrx => LevelsFullOrEmpty) <=> LevelsFullOrEmpty
  OBVIOUS
<1> QED
  BY <1>2, <1>3, PTL

=============================================================================
