------------------------- MODULE RegistrationProofs -------------------------
(* Proofs about location update and detach, and about the user database and  *)
(* the registration of mobiles at the GMC.                                   *)
EXTENDS Registration, SequenceTheorems, TLAPS

-----------------------------------------------------------------------------
(* Types: the helpers.                                                       *)

LEMMA LowestType == ASSUME NEW S PROVE Lowest(S) \in S \cup {None}
BY DEF Lowest

LEMMA EntryOfType == ASSUME NEW m PROVE EntryOf(m) \in Entry \cup {None}
BY DEF EntryOf

LEMMA FreeEntryType == FreeEntry \in Entry \cup {None}
BY LowestType DEF FreeEntry

LEMMA FreeMmIdType == FreeMmId \in MmId \cup {None}
BY LowestType DEF FreeMmId

LEMMA MmIdOnType == ASSUME NEW c PROVE MmIdOn(c) \in MmId \cup {None}
BY LowestType DEF MmIdOn

\* What a message of LUDB holds, by its type.
LEMMA LudbTakesType ==
    ASSUME ludbQ \in Seq(LudbMessage), NEW type, LudbTakes(type)
    PROVE  /\ ludbQ' \in Seq(LudbMessage)
           /\ type \in {"REG_REQ", "UNREG_REQ"} =>
                 Head(ludbQ).who \in Mobile /\ Head(ludbQ).mm \in MmId
           /\ type \in GkEvent => Head(ludbQ).who \in Mobile
           /\ type \in {"VBREQ_TIMEOUT", "PURGE_TIMEOUT"} => Head(ludbQ).of \in Entry
<1>1. Head(ludbQ) \in LudbMessage /\ Head(ludbQ).type = type /\ ludbQ' \in Seq(LudbMessage)
  BY DEF LudbTakes
<1>2. QED
  BY <1>1 DEF LudbMessage, GkEvent

\* What a message of MM holds, by its type.
LEMMA MmTakesType ==
    ASSUME mmQ \in Seq(MmMessage), NEW type, MmTakes(type)
    PROVE  /\ mmQ' \in Seq(MmMessage)
           /\ type \in {"LU_IMSI", "LU_TMSI", "LU_OTHER", "DETACH", "IDENT_IMSI", "IDENT_OTHER"} =>
                 Head(mmQ).on \in Chan /\ Head(mmQ).who \in Mobile
           /\ type \in {"AUTH_RSP", "REL_IND"} => Head(mmQ).on \in Chan
           /\ type = "REG_CNF" => Head(mmQ).mm \in MmId /\ Head(mmQ).ludb \in Entry
           /\ type \in {"REG_REJ", "UNREG_REJ"} => Head(mmQ).mm \in MmId \cup {None}
           /\ type \in {"REL_REQ", "UNREG_CNF", "TIMEOUT"} => Head(mmQ).mm \in MmId
<1>1. Head(mmQ) \in MmMessage /\ Head(mmQ).type = type /\ mmQ' \in Seq(MmMessage)
  BY DEF MmTakes
<1>2. QED
  BY <1>1 DEF MmMessage

LEMMA ToMmType ==
    ASSUME mmQ \in Seq(MmMessage), NEW type, NEW id, ToMm(type, id),
           \/ type \in {"REG_REJ", "UNREG_REJ"} /\ id \in MmId \cup {None}
           \/ type \in {"REL_REQ", "UNREG_CNF"} /\ id \in MmId
    PROVE  mmQ' \in Seq(MmMessage)
<1>1. [type |-> type, mm |-> id] \in MmMessage
  BY DEF MmMessage
<1>2. QED
  BY <1>1 DEF ToMm

LEMMA ToLudbType ==
    ASSUME ludbQ \in Seq(LudbMessage), NEW type \in {"REG_REQ", "UNREG_REQ"},
           NEW m \in Mobile, NEW id \in MmId, ToLudb(type, m, id)
    PROVE  ludbQ' \in Seq(LudbMessage)
<1>1. [type |-> type, who |-> m, mm |-> id] \in LudbMessage
  BY DEF LudbMessage
<1>2. QED
  BY <1>1 DEF ToLudb

LEMMA SendType ==
    ASSUME TypeOK, NEW type \in {"RRQ", "URQ", "SRQ"}, NEW m \in Mobile \cup {None}, Send(type, m)
    PROVE  gkQ' \in Seq(GkRequest)
<1>1. gkQ \in Seq(GkRequest)
  BY DEF TypeOK, GkRequest
<1>2. CASE link = "up" /\ m # None
  <2>1. [type |-> type, who |-> m] \in GkRequest
    BY <1>2 DEF GkRequest
  <2>2. gkQ' = Append(gkQ, [type |-> type, who |-> m])
    BY <1>2 DEF Send
  <2>3. QED
    BY <1>1, <2>1, <2>2
<1>3. CASE ~(link = "up" /\ m # None)
  BY <1>1, <1>3 DEF Send
<1>4. QED
  BY <1>2, <1>3

LEMMA RelReqType ==
    ASSUME TypeOK, NEW c \in Chan \cup {None}, RelReq(c)
    PROVE  relReq' \subseteq Chan
BY DEF TypeOK, RelReq

LEMMA ClearType ==
    ASSUME TypeOK, NEW e \in Entry, Clear(e)
    PROVE  db' \in [Entry -> LudbEntry] /\ vbTimer' \subseteq Entry /\ purgeTimer' \subseteq Entry
<1>1. Unused \in LudbEntry
  BY DEF Unused, LudbEntry, LudbState
<1>2. QED
  BY <1>1 DEF TypeOK, Clear

LEMMA UnRegReqType ==
    ASSUME TypeOK, NEW e \in Entry, NEW m \in Mobile \cup {None}, UnRegReq(e, m)
    PROVE  /\ db' \in [Entry -> LudbEntry] /\ vbTimer' \subseteq Entry /\ purgeTimer' \subseteq Entry
           /\ gkQ' \in Seq(GkRequest)
<1>1. gkQ' \in Seq(GkRequest)
  BY SendType DEF UnRegReq
<1>2. db' \in [Entry -> LudbEntry]
  <2>1. [db[e] EXCEPT !.state = "UNREGREQ"] \in LudbEntry
    BY DEF TypeOK, LudbEntry, LudbState
  <2>2. QED
    BY <2>1 DEF TypeOK, UnRegReq
<1>3. vbTimer' \subseteq Entry /\ purgeTimer' \subseteq Entry
  BY DEF TypeOK, UnRegReq
<1>4. QED
  BY <1>1, <1>2, <1>3

LEMMA FreeMmType == FreeMm \in MmEntry
BY DEF FreeMm, MmEntry, MmState

LEMMA DeallocType ==
    ASSUME TypeOK, NEW S, Dealloc(S)
    PROVE  mm' \in [MmId -> MmEntry] /\ mmTimer' \subseteq MmId /\ irt' \in [Chan -> MmId \cup {None}]
<1>1. mm' \in [MmId -> MmEntry]
  BY FreeMmType DEF TypeOK, Dealloc
<1>2. mmTimer' \subseteq MmId
  BY DEF TypeOK, Dealloc
<1>3. irt' \in [Chan -> MmId \cup {None}]
  BY DEF TypeOK, Dealloc
<1>4. QED
  BY <1>1, <1>2, <1>3

LEMMA ToldType ==
    ASSUME TypeOK, NEW c, NEW what \in Phase, Told(c, what)
    PROVE  phase' \in [Chan -> Phase]
BY DEF TypeOK, Told

LEMMA FinishType ==
    ASSUME TypeOK, NEW i \in MmId, Finish(i)
    PROVE  /\ mm' \in [MmId -> MmEntry] /\ mmTimer' \subseteq MmId /\ irt' \in [Chan -> MmId \cup {None}]
           /\ phase' \in [Chan -> Phase] /\ relReq' \subseteq Chan
<1>1. mm[i].chan \in Chan \cup {None}
  BY DEF TypeOK, MmEntry
<1>2. phase' \in [Chan -> Phase]
  BY ToldType DEF Finish, Phase
<1>3. relReq' \subseteq Chan
  BY <1>1, RelReqType DEF Finish
<1>4. QED
  BY <1>2, <1>3, DeallocType DEF Finish

LEMMA DropType ==
    ASSUME TypeOK, NEW i \in MmId, Drop(i)
    PROVE  /\ mm' \in [MmId -> MmEntry] /\ mmTimer' \subseteq MmId /\ irt' \in [Chan -> MmId \cup {None}]
           /\ relReq' \subseteq Chan
<1>1. mm[i].chan \in Chan \cup {None}
  BY DEF TypeOK, MmEntry
<1>2. QED
  BY <1>1, RelReqType, DeallocType DEF Drop

-----------------------------------------------------------------------------
(* Types: one lemma per task.                                                *)

LEMMA RegisterType ==
    ASSUME TypeOK, NEW e \in Entry, NEW m \in Mobile, NEW id \in MmId, Register(e, m, id)
    PROVE  /\ db' \in [Entry -> LudbEntry] /\ vbTimer' \subseteq Entry /\ purgeTimer' \subseteq Entry
           /\ gkQ' \in Seq(GkRequest) /\ mmQ' \in Seq(MmMessage)
<1>1. CASE /\ \E auth \in AuthModes :
                 db' = [db EXCEPT ![e] = [mobile |-> m, mm |-> id, sec |-> @.sec,
                                          state |-> IF auth THEN "REGTHENSEC" ELSE "REGREQ"]]
           /\ vbTimer' = vbTimer \cup {e}
           /\ purgeTimer' = purgeTimer \ {e}
           /\ Send("RRQ", m)
           /\ UNCHANGED mmQ
  <2>1. PICK auth \in AuthModes :
           db' = [db EXCEPT ![e] = [mobile |-> m, mm |-> id, sec |-> db[e].sec,
                                    state |-> IF auth THEN "REGTHENSEC" ELSE "REGREQ"]]
    BY <1>1
  <2>2. [mobile |-> m, mm |-> id, sec |-> db[e].sec,
         state |-> IF auth THEN "REGTHENSEC" ELSE "REGREQ"] \in LudbEntry
    BY DEF TypeOK, LudbEntry, LudbState
  <2>3. db' \in [Entry -> LudbEntry]
    BY <2>1, <2>2 DEF TypeOK
  <2>4. gkQ' \in Seq(GkRequest)
    BY <1>1, SendType
  <2>5. QED
    BY <1>1, <2>3, <2>4 DEF TypeOK
<1>2. CASE Clear(e) /\ ToMm("REG_REJ", id) /\ UNCHANGED gkQ
  BY <1>2, ClearType, ToMmType DEF TypeOK
<1>3. QED
  BY <1>1, <1>2 DEF Register

LEMMA LudbTypeStep ==
    ASSUME TypeOK, LudbTask
    PROVE  TypeOK'
<1> USE DEF ludbVars, mmVars, chanVars, gkVars, linkVars, NotLudb
<1>1. CASE LUDB_MM_RegReqProc
  <2>1. ludbQ' \in Seq(LudbMessage) /\ Head(ludbQ).who \in Mobile /\ Head(ludbQ).mm \in MmId
    BY <1>1, LudbTakesType DEF LUDB_MM_RegReqProc, TypeOK
  <2> DEFINE m == Head(ludbQ).who
             id == Head(ludbQ).mm
             e == EntryOf(m)
  <2>2. \/ FreeEntry # None /\ Register(FreeEntry, m, id)
        \/ ToMm("REG_REJ", id) /\ UNCHANGED <<ludbVars, gkQ>>
        \/ e # None /\ Register(e, m, id)
        \/ ToMm("REL_REQ", id) /\ UNCHANGED <<ludbVars, gkQ>>
    BY <1>1 DEF LUDB_MM_RegReqProc
  <2>3. /\ db' \in [Entry -> LudbEntry] /\ vbTimer' \subseteq Entry /\ purgeTimer' \subseteq Entry
        /\ gkQ' \in Seq(GkRequest) /\ mmQ' \in Seq(MmMessage)
    <3>1. CASE FreeEntry # None /\ Register(FreeEntry, m, id)
      BY <2>1, <3>1, FreeEntryType, RegisterType
    <3>2. CASE e # None /\ Register(e, m, id)
      BY <2>1, <3>2, EntryOfType, RegisterType
    <3>3. CASE ToMm("REG_REJ", id) /\ UNCHANGED <<ludbVars, gkQ>>
      BY <2>1, <3>3, ToMmType DEF TypeOK
    <3>4. CASE ToMm("REL_REQ", id) /\ UNCHANGED <<ludbVars, gkQ>>
      BY <2>1, <3>4, ToMmType DEF TypeOK
    <3>5. QED
      BY <2>2, <3>1, <3>2, <3>3, <3>4
  <2>4. QED
    BY <1>1, <2>1, <2>3 DEF LUDB_MM_RegReqProc, TypeOK
<1>2. CASE LUDB_MM_UnRegReqProc
  <2>1. ludbQ' \in Seq(LudbMessage) /\ Head(ludbQ).who \in Mobile /\ Head(ludbQ).mm \in MmId
    BY <1>2, LudbTakesType DEF LUDB_MM_UnRegReqProc, TypeOK
  <2> DEFINE id == Head(ludbQ).mm
             e == EntryOf(Head(ludbQ).who)
  <2>2. \/ UnRegRej(id)
        \/ e # None /\ Deactivate(e) /\ ToMm("UNREG_CNF", id)
    BY <1>2 DEF LUDB_MM_UnRegReqProc
  <2>3. /\ db' \in [Entry -> LudbEntry] /\ vbTimer' \subseteq Entry /\ purgeTimer' \subseteq Entry
        /\ mmQ' \in Seq(MmMessage)
    <3>1. CASE UnRegRej(id)
      BY <2>1, <3>1, ToMmType DEF UnRegRej, TypeOK
    <3>2. CASE e # None /\ Deactivate(e) /\ ToMm("UNREG_CNF", id)
      <4>1. e \in Entry
        BY <3>2, EntryOfType
      <4>2. [db[e] EXCEPT !.state = "INACTIVE"] \in LudbEntry
        BY <4>1 DEF TypeOK, LudbEntry, LudbState
      <4>3. db' \in [Entry -> LudbEntry]
        BY <3>2, <4>1, <4>2 DEF Deactivate, TypeOK
      <4>4. mmQ' \in Seq(MmMessage)
        BY <2>1, <3>2, ToMmType DEF TypeOK
      <4>5. QED
        BY <3>2, <4>1, <4>3, <4>4 DEF Deactivate, TypeOK
    <3>3. QED
      BY <2>2, <3>1, <3>2
  <2>4. QED
    BY <1>2, <2>1, <2>3 DEF LUDB_MM_UnRegReqProc, TypeOK
<1>3. CASE LUDB_VBLINK_RCFMsgProc
  BY <1>3, LudbTakesType DEF LUDB_VBLINK_RCFMsgProc, TypeOK
<1>4. CASE LUDB_VBLINK_RRJMsgProc
  <2>1. ludbQ' \in Seq(LudbMessage)
    BY <1>4, LudbTakesType DEF LUDB_VBLINK_RRJMsgProc, TypeOK
  <2> DEFINE e == EntryOf(Head(ludbQ).who)
  <2>2. CASE /\ vbTimer' = vbTimer \ {e}
             /\ UNCHANGED <<db, purgeTimer, mmQ>>
    BY <1>4, <2>1, <2>2 DEF LUDB_VBLINK_RRJMsgProc, TypeOK
  <2>3. CASE /\ MmWaits(e)
             /\ ToMm("REG_REJ", db[e].mm)
             /\ Clear(e)
    <3>1. e \in Entry
      BY <2>3, EntryOfType DEF MmWaits
    <3>2. db[e].mm \in MmId \cup {None}
      BY <3>1 DEF TypeOK, LudbEntry
    <3>3. mmQ' \in Seq(MmMessage)
      BY <2>3, <3>2, ToMmType DEF TypeOK
    <3>4. QED
      BY <1>4, <2>1, <2>3, <3>1, <3>3, ClearType DEF LUDB_VBLINK_RRJMsgProc, TypeOK
  <2>4. QED
    BY <1>4, <2>2, <2>3 DEF LUDB_VBLINK_RRJMsgProc
<1>5. CASE LUDB_VBLINK_Unregistered
  <2>1. PICK type \in {"UCF", "URJ", "URQ"} :
           /\ LudbTakes(type)
           /\ \/ EntryOf(Head(ludbQ).who) = None /\ UNCHANGED <<ludbVars, mmQ>>
              \/ EntryOf(Head(ludbQ).who) # None /\ Unregistered(type, EntryOf(Head(ludbQ).who))
    BY <1>5 DEF LUDB_VBLINK_Unregistered
  <2>2. ludbQ' \in Seq(LudbMessage)
    BY <2>1, LudbTakesType DEF TypeOK
  <2>3. CASE UNCHANGED <<ludbVars, mmQ>>
    BY <1>5, <2>2, <2>3 DEF LUDB_VBLINK_Unregistered, TypeOK
  <2>4. ASSUME NEW e \in Entry, Unregistered(type, e) PROVE TypeOK'
    <3>1. db[e].mm \in MmId \cup {None}
      BY DEF TypeOK, LudbEntry
    <3>2. mmQ' \in Seq(MmMessage)
      <4>1. CASE ToMm("UNREG_REJ", db[e].mm)
        BY <2>4, <3>1, <4>1, ToMmType DEF TypeOK, Unregistered
      <4>2. CASE UNCHANGED mmQ
        BY <4>2 DEF TypeOK
      <4>3. QED
        BY <2>4, <4>1, <4>2 DEF Unregistered
    <3>3. QED
      BY <1>5, <2>2, <2>4, <3>2, ClearType DEF LUDB_VBLINK_Unregistered, Unregistered, TypeOK
  <2>5. QED
    BY <2>1, <2>3, <2>4, EntryOfType
<1>6. CASE LUDB_VBLINK_SPIMsgProc
  <2>1. ludbQ' \in Seq(LudbMessage) /\ Head(ludbQ).who \in Mobile
    BY <1>6, LudbTakesType DEF LUDB_VBLINK_SPIMsgProc, TypeOK, GkEvent
  <2> DEFINE m == Head(ludbQ).who
             e == EntryOf(m)
  <2>2. CASE UNCHANGED <<ludbVars, gkQ, mmQ>>
    BY <1>6, <2>1, <2>2 DEF LUDB_VBLINK_SPIMsgProc, TypeOK
  <2>3. CASE /\ FreeEntry # None
             /\ db' = [db EXCEPT ![FreeEntry].mobile = m, ![FreeEntry].state = "ACTIVE"]
             /\ vbTimer' = vbTimer \ {FreeEntry}
             /\ UNCHANGED <<purgeTimer, gkQ, mmQ>>
    <3>1. FreeEntry \in Entry
      BY <2>3, FreeEntryType
    <3>2. [db[FreeEntry] EXCEPT !.mobile = m, !.state = "ACTIVE"] \in LudbEntry
      BY <2>1, <3>1 DEF TypeOK, LudbEntry, LudbState
    <3>3. db' = [db EXCEPT ![FreeEntry] = [db[FreeEntry] EXCEPT !.mobile = m, !.state = "ACTIVE"]]
      BY <2>3, <3>1 DEF TypeOK
    <3>4. db' \in [Entry -> LudbEntry]
      BY <3>1, <3>2, <3>3 DEF TypeOK
    <3>5. QED
      BY <1>6, <2>1, <2>3, <3>4 DEF LUDB_VBLINK_SPIMsgProc, TypeOK
  <2>4. CASE /\ MmWaits(e)
             /\ RegCnf(e, FALSE)
             /\ UNCHANGED <<vbTimer, purgeTimer, gkQ>>
    <3>1. e \in Entry /\ db[e].mm \in MmId
      BY <2>4, EntryOfType DEF MmWaits, TypeOK, LudbEntry
    <3>2. [db[e] EXCEPT !.state = "ACTIVE"] \in LudbEntry
      BY <3>1 DEF TypeOK, LudbEntry, LudbState
    <3>3. db' \in [Entry -> LudbEntry]
      BY <2>4, <3>1, <3>2 DEF RegCnf, TypeOK
    <3>4. [type |-> "REG_CNF", mm |-> db[e].mm, ludb |-> e, force |-> FALSE] \in MmMessage
      BY <3>1 DEF MmMessage
    <3>5. mmQ' \in Seq(MmMessage)
      BY <2>4, <3>4 DEF RegCnf, TypeOK
    <3>6. QED
      BY <1>6, <2>1, <2>4, <3>3, <3>5 DEF LUDB_VBLINK_SPIMsgProc, TypeOK
  <2>5. CASE /\ MmWaits(e)
             /\ Send("SRQ", m)
             /\ db' = [db EXCEPT ![e].state = "SECINREG"]
             /\ vbTimer' = vbTimer \cup {e}
             /\ UNCHANGED <<purgeTimer, mmQ>>
    <3>1. e \in Entry
      BY <2>5, EntryOfType DEF MmWaits
    <3>2. [db[e] EXCEPT !.state = "SECINREG"] \in LudbEntry
      BY <3>1 DEF TypeOK, LudbEntry, LudbState
    <3>3. db' \in [Entry -> LudbEntry]
      BY <2>5, <3>1, <3>2 DEF TypeOK
    <3>4. gkQ' \in Seq(GkRequest)
      BY <2>1, <2>5, SendType
    <3>5. QED
      BY <1>6, <2>1, <2>5, <3>1, <3>3, <3>4 DEF LUDB_VBLINK_SPIMsgProc, TypeOK
  <2>6. QED
    BY <1>6, <2>2, <2>3, <2>4, <2>5 DEF LUDB_VBLINK_SPIMsgProc
<1>7. CASE LUDB_VBLINK_SRSMsgProc
  <2>1. ludbQ' \in Seq(LudbMessage)
    BY <1>7, LudbTakesType DEF LUDB_VBLINK_SRSMsgProc, TypeOK
  <2> DEFINE e == EntryOf(Head(ludbQ).who)
  <2>2. CASE /\ WaitsForKey(e)
             /\ db' = [db EXCEPT ![e].sec = TRUE, ![e].state = "ACTIVE"]
             /\ mmQ' = Append(mmQ, [type |-> "REG_CNF", mm |-> db[e].mm, ludb |-> e, force |-> TRUE])
    <3>1. e \in Entry /\ db[e].mm \in MmId
      BY <2>2, EntryOfType DEF WaitsForKey, MmWaits, TypeOK, LudbEntry
    <3>2. [db[e] EXCEPT !.sec = TRUE, !.state = "ACTIVE"] \in LudbEntry
      BY <3>1 DEF TypeOK, LudbEntry, LudbState
    <3>3. db' = [db EXCEPT ![e] = [db[e] EXCEPT !.sec = TRUE, !.state = "ACTIVE"]]
      BY <2>2, <3>1 DEF TypeOK
    <3>4. db' \in [Entry -> LudbEntry]
      BY <3>1, <3>2, <3>3 DEF TypeOK
    <3>5. [type |-> "REG_CNF", mm |-> db[e].mm, ludb |-> e, force |-> TRUE] \in MmMessage
      BY <3>1 DEF MmMessage
    <3>6. mmQ' \in Seq(MmMessage)
      BY <2>2, <3>5 DEF TypeOK
    <3>7. QED
      BY <1>7, <2>1, <3>4, <3>6 DEF LUDB_VBLINK_SRSMsgProc, TypeOK
  <2>3. CASE /\ db' = [d \in Entry |-> [db[d] EXCEPT !.sec = @ \/ d = e]]
             /\ UNCHANGED mmQ
    <3>1. \A d \in Entry : [db[d] EXCEPT !.sec = @ \/ d = e] \in LudbEntry
      BY Zenon DEF TypeOK, LudbEntry
    <3>2. db' \in [Entry -> LudbEntry]
      BY <2>3, <3>1, Zenon
    <3>3. QED
      BY <1>7, <2>1, <2>3, <3>2 DEF LUDB_VBLINK_SRSMsgProc, TypeOK
  <2>4. QED
    BY <1>7, <2>2, <2>3 DEF LUDB_VBLINK_SRSMsgProc
<1>8. CASE LUDB_VBLINK_SRSZero
  <2>1. ludbQ' \in Seq(LudbMessage)
    BY <1>8, LudbTakesType DEF LUDB_VBLINK_SRSZero, TypeOK
  <2> DEFINE e == EntryOf(Head(ludbQ).who)
  <2>2. CASE /\ vbTimer' = vbTimer \ {e}
             /\ UNCHANGED <<db, purgeTimer, gkQ, mmQ>>
    BY <1>8, <2>1, <2>2 DEF LUDB_VBLINK_SRSZero, TypeOK
  <2>3. CASE WaitsForKey(e) /\ ToMm("REG_REJ", db[e].mm)
    <3>1. e \in Entry /\ db[e].mm \in MmId /\ db[e].mobile \in Mobile \cup {None}
      BY <2>3, EntryOfType DEF WaitsForKey, MmWaits, TypeOK, LudbEntry
    <3>2. mmQ' \in Seq(MmMessage)
      BY <2>3, <3>1, ToMmType DEF TypeOK
    <3>3. CASE UnRegReq(e, db[e].mobile)
      BY <1>8, <2>1, <3>1, <3>2, <3>3, UnRegReqType DEF LUDB_VBLINK_SRSZero, TypeOK
    <3>4. CASE /\ vbTimer' = vbTimer \ {e}
               /\ UNCHANGED <<db, purgeTimer, gkQ>>
      BY <1>8, <2>1, <3>2, <3>4 DEF LUDB_VBLINK_SRSZero, TypeOK
    <3>5. QED
      BY <1>8, <2>3, <3>3, <3>4 DEF LUDB_VBLINK_SRSZero
  <2>4. QED
    BY <1>8, <2>2, <2>3 DEF LUDB_VBLINK_SRSZero
<1>9. CASE VBReqTimeout
  <2>1. ludbQ' \in Seq(LudbMessage) /\ Head(ludbQ).of \in Entry
    BY <1>9, LudbTakesType DEF VBReqTimeout, TypeOK
  <2>2. db[Head(ludbQ).of].mm \in MmId \cup {None}
    BY <2>1 DEF TypeOK, LudbEntry
  <2>3. mmQ' \in Seq(MmMessage)
    BY <1>9, <2>2, ToMmType DEF VBReqTimeout, TypeOK
  <2>4. QED
    BY <1>9, <2>1, <2>3, ClearType DEF VBReqTimeout, TypeOK
<1>10. CASE PurgeTimeout
  <2>1. ludbQ' \in Seq(LudbMessage) /\ Head(ludbQ).of \in Entry
    BY <1>10, LudbTakesType DEF PurgeTimeout, TypeOK
  <2>2. ASSUME NEW m \in Mobile \cup {None}, UnRegReq(Head(ludbQ).of, m) PROVE TypeOK'
    BY <1>10, <2>1, <2>2, UnRegReqType DEF PurgeTimeout, TypeOK
  <2>3. CASE UNCHANGED <<ludbVars, gkQ>>
    BY <1>10, <2>1, <2>3 DEF PurgeTimeout, TypeOK
  <2>4. db[Head(ludbQ).of].mobile \in Mobile \cup {None}
    BY <2>1 DEF TypeOK, LudbEntry
  <2>5. QED
    BY <1>10, <2>2, <2>3, <2>4 DEF PurgeTimeout
<1>11. QED
  BY <1>1, <1>2, <1>3, <1>4, <1>5, <1>6, <1>7, <1>8, <1>9, <1>10 DEF LudbTask

LEMMA SendRegisterType ==
    ASSUME TypeOK, NEW i \in MmId, NEW entry \in MmEntry, entry.who \in Mobile,
           SendRegister(i, entry)
    PROVE  mm' \in [MmId -> MmEntry] /\ ludbQ' \in Seq(LudbMessage)
<1>1. [entry EXCEPT !.state = "WAIT4REG", !.mmId2 = None] \in MmEntry
  BY DEF MmEntry, MmState
<1>2. ludbQ' \in Seq(LudbMessage)
  BY ToLudbType DEF SendRegister, TypeOK
<1>3. QED
  BY <1>1, <1>2 DEF SendRegister, TypeOK
\* MM knows the IMSI of a mobile once it has asked LUDB for it.
Known == \A i \in MmId : mm[i].state \in {"WAIT4REG", "AUTH_LOCUP"} => mm[i].who \in Mobile

LEMMA MmTypeStep ==
    ASSUME TypeOK, Known, MmTask
    PROVE  TypeOK'
<1> USE DEF ludbVars, mmVars, chanVars, gkVars, linkVars, NotMm
<1>0. ASSUME NEW c \in Chan PROVE irt[c] \in MmId \cup {None}
  BY DEF TypeOK
<1>1. CASE MM_MD_LocUpdateReqProc
  <2>1. PICK type \in {"LU_IMSI", "LU_TMSI", "LU_OTHER"} :
           /\ MmTakes(type)
           /\ LET c == Head(mmQ).on
                  i == FreeMmId
                  entry == [FreeMm EXCEPT !.state = "START", !.chan = c, !.who = Head(mmQ).who]
              IN  \/ /\ i = None
                     /\ RelReq(c)
                     /\ UNCHANGED <<mmVars, phase, ludbQ>>
                  \/ /\ i # None
                     /\ irt' = [irt EXCEPT ![c] = i]
                     /\ \/ /\ SendRegister(i, entry)
                           /\ UNCHANGED <<mmTimer, phase>>
                        \/ /\ mm' = [mm EXCEPT ![i] = entry]
                           /\ mmTimer' = mmTimer \cup {i}
                           /\ Told(c, "ident")
                           /\ UNCHANGED ludbQ
                        \/ /\ mm' = [mm EXCEPT ![i] = entry]
                           /\ UNCHANGED <<mmTimer, phase, ludbQ>>
                     /\ UNCHANGED relReq
    BY <1>1 DEF MM_MD_LocUpdateReqProc
  <2> DEFINE c == Head(mmQ).on
             i == FreeMmId
             entry == [FreeMm EXCEPT !.state = "START", !.chan = c, !.who = Head(mmQ).who]
  <2>2. mmQ' \in Seq(MmMessage) /\ c \in Chan /\ Head(mmQ).who \in Mobile
    BY <2>1, MmTakesType DEF TypeOK
  <2>3. entry \in MmEntry /\ entry.who \in Mobile
    BY <2>2 DEF FreeMm, MmEntry, MmState
  <2>4. CASE i = None /\ RelReq(c) /\ UNCHANGED <<mmVars, phase, ludbQ>>
    BY <1>1, <2>2, <2>4, RelReqType DEF MM_MD_LocUpdateReqProc, TypeOK
  <2>5. CASE /\ i # None
             /\ irt' = [irt EXCEPT ![c] = i]
             /\ SendRegister(i, entry)
             /\ UNCHANGED <<mmTimer, phase, relReq>>
    <3>1. i \in MmId
      BY <2>5, FreeMmIdType
    <3>2. mm' \in [MmId -> MmEntry] /\ ludbQ' \in Seq(LudbMessage)
      BY <2>3, <2>5, <3>1, SendRegisterType
    <3>3. QED
      BY <1>1, <2>2, <2>5, <3>1, <3>2 DEF MM_MD_LocUpdateReqProc, TypeOK
  <2>6. CASE /\ i # None
             /\ irt' = [irt EXCEPT ![c] = i]
             /\ mm' = [mm EXCEPT ![i] = entry]
             /\ mmTimer' = mmTimer \cup {i}
             /\ Told(c, "ident")
             /\ UNCHANGED <<ludbQ, relReq>>
    <3>1. i \in MmId
      BY <2>6, FreeMmIdType
    <3>2. mm' \in [MmId -> MmEntry]
      BY <2>3, <2>6, <3>1 DEF TypeOK
    <3>3. phase' \in [Chan -> Phase]
      BY <2>6, ToldType DEF Phase
    <3>4. QED
      BY <1>1, <2>2, <2>6, <3>1, <3>2, <3>3 DEF MM_MD_LocUpdateReqProc, TypeOK
  <2>7. CASE /\ i # None
             /\ irt' = [irt EXCEPT ![c] = i]
             /\ mm' = [mm EXCEPT ![i] = entry]
             /\ UNCHANGED <<mmTimer, phase, ludbQ, relReq>>
    <3>1. i \in MmId
      BY <2>7, FreeMmIdType
    <3>2. mm' \in [MmId -> MmEntry]
      BY <2>3, <2>7, <3>1 DEF TypeOK
    <3>3. QED
      BY <1>1, <2>2, <2>7, <3>1, <3>2 DEF MM_MD_LocUpdateReqProc, TypeOK
  <2>8. QED
    BY <2>1, <2>4, <2>5, <2>6, <2>7
<1>2. CASE MM_MD_IdentityRespProc
  <2>1. PICK type \in {"IDENT_IMSI", "IDENT_OTHER"} :
           /\ MmTakes(type)
           /\ LET c == Head(mmQ).on
                  i == irt[c]
              IN  \/ /\ RelReq(c)
                     /\ UNCHANGED <<mmVars, ludbQ>>
                  \/ /\ i # None
                     /\ SendRegister(i, [mm[i] EXCEPT !.who = Head(mmQ).who])
                     /\ mmTimer' = mmTimer \ {i}
                     /\ UNCHANGED <<irt, relReq>>
                  \/ /\ RelReq(c)
                     /\ Dealloc({i})
                     /\ UNCHANGED ludbQ
    BY <1>2 DEF MM_MD_IdentityRespProc
  <2> DEFINE c == Head(mmQ).on
             i == irt[c]
  <2>2. mmQ' \in Seq(MmMessage) /\ c \in Chan /\ Head(mmQ).who \in Mobile
    BY <2>1, MmTakesType DEF TypeOK
  <2>3. CASE RelReq(c) /\ UNCHANGED <<mmVars, ludbQ>>
    BY <1>2, <2>2, <2>3, RelReqType DEF MM_MD_IdentityRespProc, TypeOK
  <2>4. CASE /\ i # None
             /\ SendRegister(i, [mm[i] EXCEPT !.who = Head(mmQ).who])
             /\ mmTimer' = mmTimer \ {i}
             /\ UNCHANGED <<irt, relReq>>
    <3>1. i \in MmId
      BY <1>0, <2>2, <2>4
    <3>2. mm[i] \in MmEntry
      BY <3>1 DEF TypeOK
    <3>3. /\ [mm[i] EXCEPT !.who = Head(mmQ).who] \in MmEntry
          /\ [mm[i] EXCEPT !.who = Head(mmQ).who].who \in Mobile
      BY <2>2, <3>2 DEF MmEntry
    <3>4. mm' \in [MmId -> MmEntry] /\ ludbQ' \in Seq(LudbMessage)
      BY <2>4, <3>1, <3>3, SendRegisterType
    <3>5. QED
      BY <1>2, <2>2, <2>4, <3>4 DEF MM_MD_IdentityRespProc, TypeOK
  <2>5. CASE RelReq(c) /\ Dealloc({i}) /\ UNCHANGED ludbQ
    BY <1>2, <2>2, <2>5, RelReqType, DeallocType DEF MM_MD_IdentityRespProc, TypeOK
  <2>6. QED
    BY <2>1, <2>3, <2>4, <2>5
<1>3. CASE MM_MD_IMSIDetachIndProc
  <2> DEFINE c == Head(mmQ).on
             m == Head(mmQ).who
             i == FreeMmId
             entry == [FreeMm EXCEPT !.state = "WAIT4UNREG", !.chan = c, !.who = m,
                                     !.mmId2 = MmIdOn(c)]
  <2>1. mmQ' \in Seq(MmMessage) /\ c \in Chan /\ m \in Mobile
    BY <1>3, MmTakesType DEF MM_MD_IMSIDetachIndProc, TypeOK
  <2>2. CASE RelReq(c) /\ UNCHANGED <<mmVars, ludbQ>>
    BY <1>3, <2>1, <2>2, RelReqType DEF MM_MD_IMSIDetachIndProc, TypeOK
  <2>3. CASE /\ i # None
             /\ mm' = [mm EXCEPT ![i] = entry]
             /\ ToLudb("UNREG_REQ", m, i)
             /\ UNCHANGED <<irt, mmTimer, relReq>>
    <3>1. i \in MmId
      BY <2>3, FreeMmIdType
    <3>2. entry \in MmEntry
      BY <2>1, MmIdOnType DEF FreeMm, MmEntry, MmState
    <3>3. mm' \in [MmId -> MmEntry]
      BY <2>3, <3>1, <3>2 DEF TypeOK
    <3>4. ludbQ' \in Seq(LudbMessage)
      BY <2>1, <2>3, <3>1, ToLudbType DEF TypeOK
    <3>5. QED
      BY <1>3, <2>1, <2>3, <3>3, <3>4 DEF MM_MD_IMSIDetachIndProc, TypeOK
  <2>4. QED
    BY <1>3, <2>2, <2>3 DEF MM_MD_IMSIDetachIndProc
<1>4. CASE MM_MD_AuthRespProc
  <2> DEFINE i == irt[Head(mmQ).on]
  <2>1. mmQ' \in Seq(MmMessage) /\ i \in MmId \cup {None}
    BY <1>0, <1>4, MmTakesType DEF MM_MD_AuthRespProc, TypeOK
  <2>2. CASE i # None /\ Finish(i) /\ UNCHANGED ludbQ
    BY <1>4, <2>1, <2>2, FinishType DEF MM_MD_AuthRespProc, TypeOK
  <2>3. CASE /\ InState(i, "AUTH_LOCUP")
             /\ mm' = [mm EXCEPT ![i].state = "WAIT4UNREG"]
             /\ mmTimer' = mmTimer \ {i}
             /\ ToLudb("UNREG_REQ", mm[i].who, i)
             /\ UNCHANGED <<irt, phase, relReq>>
    <3>1. i \in MmId
      BY <2>1, <2>3 DEF InState
    <3>2. [mm[i] EXCEPT !.state = "WAIT4UNREG"] \in MmEntry
      BY <3>1 DEF TypeOK, MmEntry, MmState
    <3>3. mm' \in [MmId -> MmEntry]
      BY <2>3, <3>1, <3>2 DEF TypeOK
    <3>4. mm[i].who \in Mobile
      BY <2>3, <3>1 DEF Known, InState
    <3>5. ludbQ' \in Seq(LudbMessage)
      BY <2>3, <3>1, <3>4, ToLudbType DEF TypeOK
    <3>6. QED
      BY <1>4, <2>1, <2>3, <3>3, <3>5 DEF MM_MD_AuthRespProc, TypeOK
  <2>4. CASE mmTimer' = mmTimer \ {i} /\ UNCHANGED <<mm, irt, phase, relReq, ludbQ>>
    BY <1>4, <2>1, <2>4 DEF MM_MD_AuthRespProc, TypeOK
  <2>5. QED
    BY <1>4, <2>2, <2>3, <2>4 DEF MM_MD_AuthRespProc, InState
<1>5. CASE MM_Ludb_RegCnfProc
  <2> DEFINE i == Head(mmQ).mm
             e == Head(mmQ).ludb
  <2>1. mmQ' \in Seq(MmMessage) /\ i \in MmId /\ e \in Entry
    BY <1>5, MmTakesType DEF MM_Ludb_RegCnfProc, TypeOK
  <2>2. CASE Ignored
    BY <1>5, <2>1, <2>2 DEF MM_Ludb_RegCnfProc, Ignored, TypeOK
  <2>3. CASE Finish(i) /\ UNCHANGED ludbQ
    BY <1>5, <2>1, <2>3, FinishType DEF MM_Ludb_RegCnfProc, TypeOK
  <2>4. CASE /\ mm' = [mm EXCEPT ![i].state = "AUTH_LOCUP", ![i].ludb = e]
             /\ mmTimer' = mmTimer \cup {i}
             /\ Told(mm[i].chan, "auth")
             /\ UNCHANGED <<irt, relReq, ludbQ>>
    <3>1. [mm[i] EXCEPT !.state = "AUTH_LOCUP", !.ludb = e] \in MmEntry
      <4>1. mm[i] \in MmEntry
        BY <2>1 DEF TypeOK
      <4>2. QED
        BY <2>1, <4>1 DEF MmEntry, MmState
    <3>2. mm' = [mm EXCEPT ![i] = [mm[i] EXCEPT !.state = "AUTH_LOCUP", !.ludb = e]]
      BY <2>1, <2>4 DEF TypeOK
    <3>3. mm' \in [MmId -> MmEntry]
      BY <2>1, <3>1, <3>2 DEF TypeOK
    <3>4. phase' \in [Chan -> Phase]
      BY <2>4, ToldType DEF Phase
    <3>5. QED
      BY <1>5, <2>1, <2>4, <3>3, <3>4 DEF MM_Ludb_RegCnfProc, TypeOK
  <2>5. CASE /\ mm' = [mm EXCEPT ![i].state = "AUTH_LOCUP"]
             /\ UNCHANGED <<mmTimer, phase, irt, relReq, ludbQ>>
    <3>1. [mm[i] EXCEPT !.state = "AUTH_LOCUP"] \in MmEntry
      <4>1. mm[i] \in MmEntry
        BY <2>1 DEF TypeOK
      <4>2. QED
        BY <2>1, <4>1 DEF MmEntry, MmState
    <3>2. mm' \in [MmId -> MmEntry]
      BY <2>1, <2>5, <3>1 DEF TypeOK
    <3>3. QED
      BY <1>5, <2>1, <2>5, <3>2 DEF MM_Ludb_RegCnfProc, TypeOK
  <2>6. QED
    BY <1>5, <2>2, <2>3, <2>4, <2>5 DEF MM_Ludb_RegCnfProc
<1>6. CASE MM_Ludb_RegRejProc
  <2> DEFINE i == Head(mmQ).mm
  <2>1. mmQ' \in Seq(MmMessage) /\ i \in MmId \cup {None}
    BY <1>6, MmTakesType DEF MM_Ludb_RegRejProc, TypeOK
  <2>2. CASE i # None /\ Finish(i) /\ UNCHANGED ludbQ
    BY <1>6, <2>1, <2>2, FinishType DEF MM_Ludb_RegRejProc, TypeOK
  <2>3. CASE Ignored
    BY <1>6, <2>1, <2>3 DEF MM_Ludb_RegRejProc, Ignored, TypeOK
  <2>4. QED
    BY <1>6, <2>2, <2>3 DEF MM_Ludb_RegRejProc, InState
<1>7. CASE MM_Ludb_RelReqProc
  <2>1. mmQ' \in Seq(MmMessage) /\ Head(mmQ).mm \in MmId
    BY <1>7, MmTakesType DEF MM_Ludb_RelReqProc, TypeOK
  <2>2. QED
    BY <1>7, <2>1, DropType DEF MM_Ludb_RelReqProc, TypeOK
<1>8. CASE MM_Ludb_UnRegProc
  <2>1. PICK type \in {"UNREG_CNF", "UNREG_REJ"} : MmTakes(type)
    BY <1>8 DEF MM_Ludb_UnRegProc
  <2> DEFINE i == Head(mmQ).mm
  <2>2. mmQ' \in Seq(MmMessage) /\ i \in MmId \cup {None}
    BY <2>1, MmTakesType DEF TypeOK
  <2>3. CASE /\ InState(i, "WAIT4UNREG")
             /\ RelReq(mm[i].chan)
             /\ Dealloc({i, mm[i].mmId2})
             /\ UNCHANGED <<phase, ludbQ>>
    <3>1. mm[i].chan \in Chan \cup {None}
      BY <2>2, <2>3 DEF InState, TypeOK, MmEntry
    <3>2. QED
      BY <1>8, <2>2, <2>3, <3>1, RelReqType, DeallocType DEF MM_Ludb_UnRegProc, TypeOK
  <2>4. CASE Ignored
    BY <1>8, <2>2, <2>4 DEF MM_Ludb_UnRegProc, Ignored, TypeOK
  <2>5. QED
    BY <1>8, <2>3, <2>4 DEF MM_Ludb_UnRegProc
<1>9. CASE MM_TIMER_MsgProc
  <2>1. mmQ' \in Seq(MmMessage) /\ Head(mmQ).mm \in MmId
    BY <1>9, MmTakesType DEF MM_TIMER_MsgProc, TypeOK
  <2>2. QED
    BY <1>9, <2>1, DropType DEF MM_TIMER_MsgProc, TypeOK
<1>10. CASE MM_RM_RRRelIndProc
  <2>1. mmQ' \in Seq(MmMessage)
    BY <1>10, MmTakesType DEF MM_RM_RRRelIndProc, TypeOK
  <2>2. QED
    BY <1>10, <2>1, DeallocType DEF MM_RM_RRRelIndProc, TypeOK
<1>11. QED
  BY <1>1, <1>2, <1>3, <1>4, <1>5, <1>6, <1>7, <1>8, <1>9, <1>10 DEF MmTask

\* The answers of the GMC to one request.
LEMMA AnswerType ==
    ASSUME NEW m \in Mobile, NEW events \in Seq(GkEvent)
    PROVE  [j \in 1 .. Len(events) |-> [type |-> events[j], who |-> m]] \in Seq(LudbMessage)
<1>1. \A j \in 1 .. Len(events) : [type |-> events[j], who |-> m] \in LudbMessage
  BY DEF LudbMessage
<1>2. QED
  BY <1>1, IsASeq

LEMMA PostMmType ==
    ASSUME mmQ \in Seq(MmMessage), NEW message \in MmMessage, PostMm(message)
    PROVE  mmQ' \in Seq(MmMessage)
BY DEF PostMm

LEMMA EnvironmentTypeStep ==
    ASSUME TypeOK, Environment
    PROVE  TypeOK'
<1> USE DEF ludbVars, mmVars, chanVars, gkVars, linkVars
<1>1. ASSUME NEW e \in Entry, VBReqTimerExpires(e) PROVE TypeOK'
  <2>1. ludbQ' \in Seq(LudbMessage)
    BY <1>1 DEF VBReqTimerExpires, TypeOK, LudbMessage
  <2>2. QED
    BY <1>1, <2>1 DEF VBReqTimerExpires, TypeOK, NotLudb
<1>2. ASSUME NEW e \in Entry, PurgeTimerExpires(e) PROVE TypeOK'
  <2>1. ludbQ' \in Seq(LudbMessage)
    BY <1>2 DEF PurgeTimerExpires, TypeOK, LudbMessage
  <2>2. QED
    BY <1>2, <2>1 DEF PurgeTimerExpires, TypeOK, NotLudb
<1>3. ASSUME NEW i \in MmId, MmTimerExpires(i) PROVE TypeOK'
  <2>1. mmQ' \in Seq(MmMessage)
    BY <1>3 DEF MmTimerExpires, TypeOK, MmMessage
  <2>2. QED
    BY <1>3, <2>1 DEF MmTimerExpires, TypeOK, NotMm
<1>4. ASSUME NEW c \in Chan, NEW m \in Mobile, ChannelGranted(c, m) PROVE TypeOK'
  <2>1. grants' \in 0 .. MaxGrants
    BY <1>4, RegistrationAssumption DEF ChannelGranted, TypeOK, RegistrationAssumption
  <2>2. QED
    BY <1>4, <2>1 DEF ChannelGranted, TypeOK, NotMobile, Phase
<1>5. ASSUME NEW c \in Chan, MobileStarts(c) PROVE TypeOK'
  <2>1. PICK type \in {"LU_IMSI", "LU_TMSI", "LU_OTHER", "DETACH"} :
           PostMm([type |-> type, on |-> c, who |-> user[c]])
    BY <1>5 DEF MobileStarts
  <2>2. [type |-> type, on |-> c, who |-> user[c]] \in MmMessage
    BY <1>5 DEF MobileStarts, TypeOK, MmMessage
  <2>3. mmQ' \in Seq(MmMessage)
    BY <2>1, <2>2, PostMmType DEF TypeOK
  <2>4. QED
    BY <1>5, <2>3 DEF MobileStarts, TypeOK, NotMobile, Phase
<1>6. ASSUME NEW c \in Chan, MobileAnswers(c) PROVE TypeOK'
  <2>1. user[c] \in Mobile
    BY <1>6 DEF MobileAnswers, TypeOK
  <2>2. /\ \A type \in {"IDENT_IMSI", "IDENT_OTHER"} :
              [type |-> type, on |-> c, who |-> user[c]] \in MmMessage
        /\ [type |-> "AUTH_RSP", on |-> c] \in MmMessage
    BY <2>1 DEF MmMessage
  <2>3. mmQ' \in Seq(MmMessage)
    BY <1>6, <2>2, PostMmType DEF MobileAnswers, TypeOK
  <2>4. QED
    BY <1>6, <2>3 DEF MobileAnswers, TypeOK, NotMobile, Phase
<1>7. ASSUME NEW c \in Chan, ChannelReleased(c) PROVE TypeOK'
  <2>1. [type |-> "REL_IND", on |-> c] \in MmMessage
    BY DEF MmMessage
  <2>2. mmQ' \in Seq(MmMessage)
    BY <1>7, <2>1, PostMmType DEF ChannelReleased, TypeOK
  <2>3. QED
    BY <1>7, <2>2 DEF ChannelReleased, TypeOK, NotMobile, Phase
<1>8. ASSUME NEW c \in Chan, LateRelReq(c) PROVE TypeOK'
  BY <1>8 DEF LateRelReq, TypeOK, NotMobile
<1>9. CASE GkTakes
  <2> DEFINE m == Head(gkQ).who
             Answered(events) ==
                ludbQ' = ludbQ \o [j \in 1 .. Len(events) |-> [type |-> events[j], who |-> m]]
  <2>1. Head(gkQ) \in GkRequest /\ gkQ' \in Seq(GkRequest)
    BY <1>9 DEF GkTakes, TypeOK
  <2>2. m \in Mobile
    BY <2>1 DEF GkRequest
  <2>3. /\ Answered(<<"RCF", "SPI">>) \/ Answered(<<"RRJ">>) \/ Answered(<<"UCF">>)
              \/ Answered(<<"URJ">>) \/ Answered(<<"SRS">>) \/ Answered(<<"SRS_ZERO">>)
        /\ registered' \subseteq Mobile
    BY <1>9, <2>2 DEF GkTakes, TypeOK
  <2>4. \A a \in GkEvent : <<a>> \in Seq(GkEvent)
    OBVIOUS
  <2>5. <<"RCF", "SPI">> \in Seq(GkEvent)
    BY DEF GkEvent
  <2>6. ASSUME NEW events \in Seq(GkEvent), Answered(events) PROVE ludbQ' \in Seq(LudbMessage)
    BY <2>2, <2>6, AnswerType DEF TypeOK
  <2>7. ludbQ' \in Seq(LudbMessage)
    BY <2>3, <2>4, <2>5, <2>6 DEF GkEvent
  <2>8. QED
    BY <1>9, <2>1, <2>3, <2>7 DEF GkTakes, TypeOK, NotGk
<1>10. ASSUME NEW m \in Mobile, GkUnregisters(m) PROVE TypeOK'
  <2>1. [type |-> "URQ", who |-> m] \in LudbMessage
    BY DEF LudbMessage, GkEvent
  <2>2. ludbQ' \in Seq(LudbMessage)
    BY <1>10, <2>1 DEF GkUnregisters, TypeOK
  <2>3. QED
    BY <1>10, <2>2 DEF GkUnregisters, TypeOK, NotGk
<1>11. CASE LinkBreaks
  <2>1. \A j \in DOMAIN gkQ : gkQ[j].who \in Mobile
    <3>1. gkQ \in Seq(GkRequest)
      BY DEF TypeOK
    <3>2. \A j \in DOMAIN gkQ : gkQ[j] \in GkRequest
      BY <3>1
    <3>3. QED
      BY <3>2 DEF GkRequest
  <2>2. registered' \subseteq Mobile
    BY <1>11, <2>1 DEF LinkBreaks, TypeOK
  <2>3. breaks' \in 0 .. MaxBreaks
    BY <1>11, RegistrationAssumption DEF LinkBreaks, TypeOK, RegistrationAssumption
  <2>4. QED
    BY <1>11, <2>2, <2>3 DEF LinkBreaks, TypeOK, NotGk
<1>12. CASE LinkUp
  BY <1>12 DEF LinkUp, TypeOK, NotGk
<1>13. QED
  BY <1>1, <1>2, <1>3, <1>4, <1>5, <1>6, <1>7, <1>8, <1>9, <1>10, <1>11, <1>12 DEF Environment

LEMMA TypeInit == ASSUME Init PROVE TypeOK
<1>1. Unused \in LudbEntry
  BY DEF Unused, LudbEntry, LudbState
<1>2. db \in [Entry -> LudbEntry]
  BY <1>1 DEF Init
<1>3. [FreeMm EXCEPT !.state = "CALL"] \in MmEntry
  BY DEF FreeMm, MmEntry, MmState
<1>4. mm \in [MmId -> MmEntry]
  BY <1>3, FreeMmType DEF Init
<1>5. QED
  BY <1>2, <1>4, RegistrationAssumption DEF Init, TypeOK, Phase, RegistrationAssumption

-----------------------------------------------------------------------------
(* Entries of MM and the IRT table.                                          *)

\* A free entry is on no channel, so that no search by channel finds it.
FreeOffChannel == \A i \in MmId : mm[i].state = "FREE" => mm[i].chan = None

EntriesOK == TypeOK /\ Known /\ FreeOffChannel /\ IrtOK

LEMMA LowestIn == ASSUME NEW S, Lowest(S) # None PROVE Lowest(S) \in S
BY DEF Lowest

LEMMA FreeMmIdIsFree ==
    ASSUME FreeMmId # None
    PROVE  FreeMmId \in MmId /\ mm[FreeMmId].state = "FREE"
BY LowestIn DEF FreeMmId

LEMMA DeallocKeeps ==
    ASSUME EntriesOK, NEW S, Dealloc(S)
    PROVE  Known' /\ FreeOffChannel' /\ IrtOK'
<1>1. \A i \in MmId : mm'[i] = IF i \in S THEN FreeMm ELSE mm[i]
  BY DEF Dealloc
<1>2. Known'
  BY <1>1 DEF EntriesOK, Known, FreeMm
<1>3. FreeOffChannel'
  BY <1>1 DEF EntriesOK, FreeOffChannel, FreeMm
<1>4. IrtOK'
  <2> SUFFICES ASSUME NEW c \in Chan, irt'[c] # None PROVE mm'[irt'[c]].chan = c
    BY DEF IrtOK
  <2>1. ~(\E i \in S \cap MmId : mm[i].chan = c) /\ irt'[c] = irt[c]
    BY DEF Dealloc
  <2>2. irt[c] \in MmId /\ mm[irt[c]].chan = c
    BY <2>1 DEF EntriesOK, TypeOK, IrtOK
  <2>3. irt[c] \notin S
    BY <2>1, <2>2
  <2>4. QED
    BY <1>1, <2>1, <2>2, <2>3
<1>5. QED
  BY <1>2, <1>3, <1>4

\* An entry that stays on its channel, or that was free and is in no column of the
\* IRT table, may change otherwise.
LEMMA EntryChanges ==
    ASSUME EntriesOK, NEW i \in MmId, NEW entry \in MmEntry,
           mm' = [mm EXCEPT ![i] = entry],
           entry.state # "FREE",
           entry.state \in {"WAIT4REG", "AUTH_LOCUP"} => entry.who \in Mobile,
           \/ /\ mm[i].state = "FREE" \/ entry.chan = mm[i].chan
              /\ UNCHANGED irt
           \/ /\ mm[i].state = "FREE"
              /\ entry.chan \in Chan
              /\ irt' = [irt EXCEPT ![entry.chan] = i]
    PROVE  Known' /\ FreeOffChannel' /\ IrtOK'
<1>1. \A j \in MmId : mm'[j] = IF j = i THEN entry ELSE mm[j]
  BY DEF EntriesOK, TypeOK
<1>2. Known'
  BY <1>1 DEF EntriesOK, Known
<1>3. FreeOffChannel'
  BY <1>1 DEF EntriesOK, FreeOffChannel
<1>4. \A c \in Chan : irt[c] # None => irt[c] \in MmId /\ mm[irt[c]].chan = c
  BY DEF EntriesOK, TypeOK, IrtOK
<1>5. mm[i].state = "FREE" => \A c \in Chan : irt[c] # i
  <2> SUFFICES ASSUME mm[i].state = "FREE", NEW c \in Chan, irt[c] = i PROVE FALSE
    OBVIOUS
  <2>1. mm[i].chan = c /\ mm[i].chan = None
    BY <1>4, RegistrationAssumption DEF EntriesOK, FreeOffChannel, RegistrationAssumption
  <2>2. QED
    BY <2>1, RegistrationAssumption DEF RegistrationAssumption
<1>6. IrtOK'
  <2> SUFFICES ASSUME NEW c \in Chan, irt'[c] # None PROVE mm'[irt'[c]].chan = c
    BY DEF IrtOK
  <2>1. CASE UNCHANGED irt
    BY <1>1, <1>4, <1>5, <2>1
  <2>2. CASE /\ mm[i].state = "FREE"
             /\ entry.chan \in Chan
             /\ irt' = [irt EXCEPT ![entry.chan] = i]
    <3>1. irt'[c] = IF c = entry.chan THEN i ELSE irt[c]
      BY <2>2 DEF EntriesOK, TypeOK
    <3>2. QED
      BY <1>1, <1>4, <1>5, <2>2, <3>1
  <2>3. QED
    BY <2>1, <2>2
<1>7. QED
  BY <1>2, <1>3, <1>6

LEMMA UnchangedEntries ==
    ASSUME EntriesOK, UNCHANGED <<mm, irt>>
    PROVE  Known' /\ FreeOffChannel' /\ IrtOK'
BY DEF EntriesOK, Known, FreeOffChannel, IrtOK
LEMMA SendRegisterKeeps ==
    ASSUME EntriesOK, NEW i \in MmId, NEW entry \in MmEntry, entry.who \in Mobile,
           SendRegister(i, entry),
           \/ /\ mm[i].state = "FREE" \/ entry.chan = mm[i].chan
              /\ UNCHANGED irt
           \/ /\ mm[i].state = "FREE"
              /\ entry.chan \in Chan
              /\ irt' = [irt EXCEPT ![entry.chan] = i]
    PROVE  Known' /\ FreeOffChannel' /\ IrtOK'
<1> DEFINE new == [entry EXCEPT !.state = "WAIT4REG", !.mmId2 = None]
<1>1. /\ new \in MmEntry /\ new.state = "WAIT4REG"
      /\ new.who = entry.who /\ new.chan = entry.chan
  BY DEF MmEntry, MmState
<1>2. mm' = [mm EXCEPT ![i] = new]
  BY DEF SendRegister
<1> HIDE DEF new
<1>3. QED
  BY <1>1, <1>2, EntryChanges

LEMMA MmEntriesStep ==
    ASSUME EntriesOK, MmTask
    PROVE  Known' /\ FreeOffChannel' /\ IrtOK'
<1> USE DEF mmVars
<1>0. ASSUME NEW c \in Chan PROVE irt[c] \in MmId \cup {None}
  BY DEF EntriesOK, TypeOK
<1>1. CASE MM_MD_LocUpdateReqProc
  <2>1. PICK type \in {"LU_IMSI", "LU_TMSI", "LU_OTHER"} :
           /\ MmTakes(type)
           /\ LET c == Head(mmQ).on
                  i == FreeMmId
                  entry == [FreeMm EXCEPT !.state = "START", !.chan = c, !.who = Head(mmQ).who]
              IN  \/ UNCHANGED mmVars
                  \/ /\ i # None
                     /\ irt' = [irt EXCEPT ![c] = i]
                     /\ SendRegister(i, entry) \/ mm' = [mm EXCEPT ![i] = entry]
    BY <1>1 DEF MM_MD_LocUpdateReqProc
  <2> DEFINE c == Head(mmQ).on
             i == FreeMmId
             entry == [FreeMm EXCEPT !.state = "START", !.chan = c, !.who = Head(mmQ).who]
  <2>2. c \in Chan /\ Head(mmQ).who \in Mobile
    BY <2>1, MmTakesType DEF EntriesOK, TypeOK
  <2>3. entry \in MmEntry /\ entry.who \in Mobile /\ entry.state = "START" /\ entry.chan = c
    BY <2>2 DEF FreeMm, MmEntry, MmState
  <2>4. CASE UNCHANGED mmVars
    BY <2>4, UnchangedEntries
  <2>5. CASE /\ i # None
             /\ irt' = [irt EXCEPT ![c] = i]
             /\ SendRegister(i, entry) \/ mm' = [mm EXCEPT ![i] = entry]
    <3>1. i \in MmId /\ mm[i].state = "FREE"
      BY <2>5, FreeMmIdIsFree
    <3> HIDE DEF entry
    <3>2. CASE SendRegister(i, entry)
      BY <2>2, <2>3, <2>5, <3>1, <3>2, SendRegisterKeeps
    <3>3. CASE mm' = [mm EXCEPT ![i] = entry]
      BY <2>2, <2>3, <2>5, <3>1, <3>3, EntryChanges
    <3>4. QED
      BY <2>5, <3>2, <3>3
  <2>6. QED
    BY <2>1, <2>4, <2>5
<1>2. CASE MM_MD_IdentityRespProc
  <2>1. PICK type \in {"IDENT_IMSI", "IDENT_OTHER"} :
           /\ MmTakes(type)
           /\ LET i == irt[Head(mmQ).on]
              IN  \/ UNCHANGED mmVars
                  \/ /\ i # None
                     /\ SendRegister(i, [mm[i] EXCEPT !.who = Head(mmQ).who])
                     /\ UNCHANGED irt
                  \/ Dealloc({i})
    BY <1>2 DEF MM_MD_IdentityRespProc
  <2> DEFINE i == irt[Head(mmQ).on]
             entry == [mm[i] EXCEPT !.who = Head(mmQ).who]
  <2>2. Head(mmQ).on \in Chan /\ Head(mmQ).who \in Mobile
    BY <2>1, MmTakesType DEF EntriesOK, TypeOK
  <2>3. CASE i # None /\ SendRegister(i, entry) /\ UNCHANGED irt
    <3>1. i \in MmId
      BY <1>0, <2>2, <2>3
    <3>2. mm[i] \in MmEntry
      BY <3>1 DEF EntriesOK, TypeOK
    <3>3. entry \in MmEntry /\ entry.who \in Mobile /\ entry.chan = mm[i].chan
      BY <2>2, <3>2 DEF MmEntry
    <3> HIDE DEF entry
    <3>4. QED
      BY <2>3, <3>1, <3>3, SendRegisterKeeps
  <2>4. QED
    BY <2>1, <2>3, UnchangedEntries, DeallocKeeps
<1>3. CASE MM_MD_IMSIDetachIndProc
  <2> DEFINE c == Head(mmQ).on
             i == FreeMmId
             entry == [FreeMm EXCEPT !.state = "WAIT4UNREG", !.chan = c, !.who = Head(mmQ).who,
                                     !.mmId2 = MmIdOn(c)]
  <2>1. c \in Chan /\ Head(mmQ).who \in Mobile
    BY <1>3, MmTakesType DEF MM_MD_IMSIDetachIndProc, EntriesOK, TypeOK
  <2>2. \/ UNCHANGED mmVars
        \/ i # None /\ mm' = [mm EXCEPT ![i] = entry] /\ UNCHANGED irt
    BY <1>3 DEF MM_MD_IMSIDetachIndProc
  <2>3. entry \in MmEntry /\ entry.state = "WAIT4UNREG"
    BY <2>1, MmIdOnType DEF FreeMm, MmEntry, MmState
  <2>4. i # None => i \in MmId /\ mm[i].state = "FREE"
    BY FreeMmIdIsFree
  <2> HIDE DEF entry
  <2>5. QED
    BY <2>2, <2>3, <2>4, EntryChanges, UnchangedEntries
<1>4. CASE MM_MD_AuthRespProc
  <2> DEFINE i == irt[Head(mmQ).on]
  <2>1. i \in MmId \cup {None}
    BY <1>0, <1>4, MmTakesType DEF MM_MD_AuthRespProc, EntriesOK, TypeOK
  <2>2. \/ Finish(i)
        \/ /\ InState(i, "AUTH_LOCUP")
           /\ mm' = [mm EXCEPT ![i].state = "WAIT4UNREG"]
           /\ UNCHANGED irt
        \/ UNCHANGED <<mm, irt>>
    BY <1>4 DEF MM_MD_AuthRespProc
  <2>3. CASE /\ InState(i, "AUTH_LOCUP")
             /\ mm' = [mm EXCEPT ![i].state = "WAIT4UNREG"]
             /\ UNCHANGED irt
    <3> DEFINE entry == [mm[i] EXCEPT !.state = "WAIT4UNREG"]
    <3>1. i \in MmId /\ mm[i] \in MmEntry
      BY <2>1, <2>3 DEF InState, EntriesOK, TypeOK
    <3>2. entry \in MmEntry /\ entry.state = "WAIT4UNREG" /\ entry.chan = mm[i].chan
      BY <3>1 DEF MmEntry, MmState
    <3>3. mm' = [mm EXCEPT ![i] = entry]
      BY <2>3
    <3> HIDE DEF entry
    <3>4. QED
      BY <2>3, <3>1, <3>2, <3>3, EntryChanges
  <2>4. QED
    BY <2>2, <2>3, UnchangedEntries, DeallocKeeps DEF Finish
<1>5. CASE MM_Ludb_RegCnfProc
  <2> DEFINE i == Head(mmQ).mm
             e == Head(mmQ).ludb
  <2>1. i \in MmId /\ e \in Entry
    BY <1>5, MmTakesType DEF MM_Ludb_RegCnfProc, EntriesOK, TypeOK
  <2>2. \/ UNCHANGED mmVars
        \/ Finish(i)
        \/ /\ mm[i].state = "WAIT4REG"
           /\ \/ mm' = [mm EXCEPT ![i].state = "AUTH_LOCUP", ![i].ludb = e]
              \/ mm' = [mm EXCEPT ![i].state = "AUTH_LOCUP"]
           /\ UNCHANGED irt
    BY <1>5 DEF MM_Ludb_RegCnfProc, Ignored
  <2>3. mm[i] \in MmEntry /\ (mm[i].state = "WAIT4REG" => mm[i].who \in Mobile)
    BY <2>1 DEF EntriesOK, TypeOK, Known
  <2>4. ASSUME NEW entry \in MmEntry, entry.state = "AUTH_LOCUP", entry.who = mm[i].who,
               entry.chan = mm[i].chan, mm[i].state = "WAIT4REG",
               mm' = [mm EXCEPT ![i] = entry], UNCHANGED irt
        PROVE  Known' /\ FreeOffChannel' /\ IrtOK'
    BY <2>1, <2>3, <2>4, EntryChanges
  <2>5. CASE /\ mm[i].state = "WAIT4REG"
             /\ mm' = [mm EXCEPT ![i].state = "AUTH_LOCUP", ![i].ludb = e]
             /\ UNCHANGED irt
    <3> DEFINE entry == [mm[i] EXCEPT !.state = "AUTH_LOCUP", !.ludb = e]
    <3>1. /\ entry \in MmEntry /\ entry.state = "AUTH_LOCUP"
          /\ entry.chan = mm[i].chan /\ entry.who = mm[i].who
      BY <2>1, <2>3 DEF MmEntry, MmState
    <3>2. mm' = [mm EXCEPT ![i] = entry]
      BY <2>1, <2>5 DEF EntriesOK, TypeOK
    <3> HIDE DEF entry
    <3>3. QED
      BY <2>4, <2>5, <3>1, <3>2
  <2>6. CASE /\ mm[i].state = "WAIT4REG"
             /\ mm' = [mm EXCEPT ![i].state = "AUTH_LOCUP"]
             /\ UNCHANGED irt
    <3> DEFINE entry == [mm[i] EXCEPT !.state = "AUTH_LOCUP"]
    <3>1. /\ entry \in MmEntry /\ entry.state = "AUTH_LOCUP"
          /\ entry.chan = mm[i].chan /\ entry.who = mm[i].who
      BY <2>3 DEF MmEntry, MmState
    <3>2. mm' = [mm EXCEPT ![i] = entry]
      BY <2>6
    <3> HIDE DEF entry
    <3>3. QED
      BY <2>4, <2>6, <3>1, <3>2
  <2>7. QED
    BY <2>2, <2>5, <2>6, UnchangedEntries, DeallocKeeps DEF Finish
<1>6. CASE MM_Ludb_RegRejProc
  BY <1>6, UnchangedEntries, DeallocKeeps DEF MM_Ludb_RegRejProc, Finish, Ignored
<1>7. CASE MM_Ludb_RelReqProc
  BY <1>7, DeallocKeeps DEF MM_Ludb_RelReqProc, Drop
<1>8. CASE MM_Ludb_UnRegProc
  BY <1>8, UnchangedEntries, DeallocKeeps DEF MM_Ludb_UnRegProc, Ignored
<1>9. CASE MM_TIMER_MsgProc
  BY <1>9, DeallocKeeps DEF MM_TIMER_MsgProc, Drop
<1>10. CASE MM_RM_RRRelIndProc
  BY <1>10, DeallocKeeps DEF MM_RM_RRRelIndProc
<1>11. QED
  BY <1>1, <1>2, <1>3, <1>4, <1>5, <1>6, <1>7, <1>8, <1>9, <1>10 DEF MmTask

LEMMA LudbLeavesEntries == ASSUME LudbTask PROVE UNCHANGED <<mm, irt, mmTimer>>
BY DEF LudbTask, LUDB_MM_RegReqProc, LUDB_MM_UnRegReqProc, LUDB_VBLINK_RCFMsgProc,
       LUDB_VBLINK_RRJMsgProc, LUDB_VBLINK_Unregistered, LUDB_VBLINK_SPIMsgProc,
       LUDB_VBLINK_SRSMsgProc, LUDB_VBLINK_SRSZero, VBReqTimeout, PurgeTimeout, NotLudb, mmVars

LEMMA EnvironmentLeavesEntries == ASSUME Environment PROVE UNCHANGED <<mm, irt>>
BY DEF Environment, VBReqTimerExpires, PurgeTimerExpires, MmTimerExpires, ChannelGranted,
       MobileStarts, MobileAnswers, ChannelReleased, LateRelReq, GkTakes, GkUnregisters,
       LinkBreaks, LinkUp, NotLudb, NotMobile, NotGk, mmVars

LEMMA EntriesInit == ASSUME Init PROVE EntriesOK
<1>1. Known /\ FreeOffChannel /\ IrtOK
  BY DEF Init, Known, FreeOffChannel, IrtOK, FreeMm
<1>2. QED
  BY <1>1, TypeInit DEF EntriesOK

LEMMA EntriesStep ==
    ASSUME EntriesOK, [Next]_vars
    PROVE  EntriesOK'
<1>1. CASE LudbTask
  BY <1>1, LudbTypeStep, LudbLeavesEntries, UnchangedEntries DEF EntriesOK
<1>2. CASE MmTask
  BY <1>2, MmTypeStep, MmEntriesStep DEF EntriesOK
<1>3. CASE Environment
  BY <1>3, EnvironmentTypeStep, EnvironmentLeavesEntries, UnchangedEntries DEF EntriesOK
<1>4. CASE UNCHANGED vars
  BY <1>4 DEF EntriesOK, TypeOK, Known, FreeOffChannel, IrtOK, vars, ludbVars, mmVars,
              chanVars, gkVars, linkVars
<1>5. QED
  BY <1>1, <1>2, <1>3, <1>4 DEF Next

LEMMA EntriesAlwaysOK == Spec => []EntriesOK
<1>1. Init => EntriesOK
  BY EntriesInit
<1>2. EntriesOK /\ [Next]_vars => EntriesOK'
  BY EntriesStep
<1>3. QED
  BY <1>1, <1>2, PTL DEF Spec

-----------------------------------------------------------------------------
(* Queues: what was under way stays so until it is taken.                    *)

LEMMA AppendKeeps ==
    ASSUME NEW S, NEW q \in Seq(S), NEW x
    PROVE  /\ \A j \in DOMAIN q : j \in DOMAIN Append(q, x) /\ Append(q, x)[j] = q[j]
           /\ \E j \in DOMAIN Append(q, x) : Append(q, x)[j] = x
<1>1. q \in Seq(S \cup {x}) /\ x \in S \cup {x}
  BY SeqMonotonic
<1>2. /\ Len(Append(q, x)) = Len(q) + 1
      /\ \A j \in 1 .. Len(q) : Append(q, x)[j] = q[j]
      /\ Append(q, x)[Len(q) + 1] = x
      /\ Append(q, x) \in Seq(S \cup {x})
  BY <1>1, AppendProperties
<1>3. Len(q) \in Nat /\ DOMAIN q = 1 .. Len(q) /\ DOMAIN Append(q, x) = 1 .. (Len(q) + 1)
  BY <1>1, <1>2, LenProperties
<1>4. QED
  BY <1>2, <1>3

LEMMA ConcatKeeps ==
    ASSUME NEW S, NEW q \in Seq(S), NEW r \in Seq(S)
    PROVE  \A j \in DOMAIN q : j \in DOMAIN (q \o r) /\ (q \o r)[j] = q[j]
<1>1. /\ Len(q \o r) = Len(q) + Len(r)
      /\ \A j \in 1 .. Len(q) : (q \o r)[j] = q[j]
      /\ q \o r \in Seq(S)
  BY ConcatProperties
<1>2. Len(q) \in Nat /\ Len(r) \in Nat /\ DOMAIN q = 1 .. Len(q) /\ DOMAIN (q \o r) = 1 .. Len(q \o r)
  BY <1>1, LenProperties
<1>3. QED
  BY <1>1, <1>2

LEMMA TailKeeps ==
    ASSUME NEW S, NEW q \in Seq(S), q # <<>>
    PROVE  \A j \in DOMAIN q : \/ q[j] = Head(q)
                               \/ j - 1 \in DOMAIN Tail(q) /\ Tail(q)[j - 1] = q[j]
<1>1. /\ Len(q) \in Nat /\ DOMAIN q = 1 .. Len(q) /\ Head(q) = q[1]
      /\ Len(Tail(q)) = Len(q) - 1 /\ DOMAIN Tail(q) = 1 .. (Len(q) - 1)
      /\ \A k \in 1 .. Len(Tail(q)) : Tail(q)[k] = q[k + 1]
  BY HeadTailProperties, LenProperties
<1>2. QED
  BY <1>1

-----------------------------------------------------------------------------
(* A detach: the request or its answer is under way.                         *)

Asks(message, i) == message.type = "UNREG_REQ" /\ message.mm = i
Answers(message, i) == message.type \in {"UNREG_CNF", "UNREG_REJ"} /\ message.mm = i
Asked(i) == \E j \in DOMAIN ludbQ : Asks(ludbQ[j], i)
Answered(i) == \E j \in DOMAIN mmQ : Answers(mmQ[j], i)

LudbTook == ludbQ # <<>> /\ ludbQ' = Tail(ludbQ)
MmTook == mmQ # <<>> /\ mmQ' = Tail(mmQ)
LudbAsked == \E x : ludbQ' = Append(ludbQ, x)
MmAnswered == \E x : mmQ' = Append(mmQ, x)

\* What the queue of LUDB keeps of a request, and what that of MM keeps of an answer.
LEMMA AskedKept ==
    ASSUME TypeOK, NEW i, Asked(i),
           \/ UNCHANGED ludbQ
           \/ LudbAsked
           \/ LudbTook /\ ~Asks(Head(ludbQ), i)
           \/ \E r \in Seq(LudbMessage) : ludbQ' = ludbQ \o r
    PROVE  Asked(i)'
<1>1. ludbQ \in Seq(LudbMessage)
  BY DEF TypeOK
<1>2. PICK j \in DOMAIN ludbQ : Asks(ludbQ[j], i)
  BY DEF Asked
<1>3. \E k \in DOMAIN ludbQ' : ludbQ'[k] = ludbQ[j]
  <2>1. CASE UNCHANGED ludbQ
    BY <2>1
  <2>2. CASE LudbAsked
    BY <1>1, <2>2, AppendKeeps DEF LudbAsked
  <2>3. CASE LudbTook /\ ~Asks(Head(ludbQ), i)
    BY <1>1, <1>2, <2>3, TailKeeps DEF LudbTook
  <2>4. CASE \E r \in Seq(LudbMessage) : ludbQ' = ludbQ \o r
    BY <1>1, <2>4, ConcatKeeps
  <2>5. QED
    BY <2>1, <2>2, <2>3, <2>4
<1>4. QED
  BY <1>2, <1>3 DEF Asked, Asks

LEMMA AnsweredKept ==
    ASSUME TypeOK, NEW i, Answered(i),
           \/ UNCHANGED mmQ
           \/ MmAnswered
           \/ MmTook /\ ~Answers(Head(mmQ), i)
    PROVE  Answered(i)'
<1>1. mmQ \in Seq(MmMessage)
  BY DEF TypeOK
<1>2. PICK j \in DOMAIN mmQ : Answers(mmQ[j], i)
  BY DEF Answered
<1>3. \E k \in DOMAIN mmQ' : mmQ'[k] = mmQ[j]
  <2>1. CASE UNCHANGED mmQ
    BY <2>1
  <2>2. CASE MmAnswered
    BY <1>1, <2>2, AppendKeeps DEF MmAnswered
  <2>3. CASE MmTook /\ ~Answers(Head(mmQ), i)
    BY <1>1, <1>2, <2>3, TailKeeps DEF MmTook
  <2>4. QED
    BY <2>1, <2>2, <2>3
<1>4. QED
  BY <1>2, <1>3 DEF Answered, Answers

\* LUDB takes a message and answers at most once; a request to unregister it answers
\* by name.
LudbAnswers == \E x : mmQ' = Append(mmQ, x) /\ Answers(x, Head(ludbQ).mm)

LEMMA LudbStep ==
    ASSUME LudbTask
    PROVE  /\ LudbTook
           /\ UNCHANGED mmQ \/ MmAnswered
           /\ Head(ludbQ).type = "UNREG_REQ" => LudbAnswers
<1> USE DEF LudbTook, MmAnswered, ToMm, LudbTakes
<1>1. CASE LUDB_MM_RegReqProc
  BY <1>1 DEF LUDB_MM_RegReqProc, Register
<1>2. CASE LUDB_MM_UnRegReqProc
  <2>1. LudbTook
    BY <1>2 DEF LUDB_MM_UnRegReqProc
  <2>2. LudbAnswers
    BY <1>2 DEF LUDB_MM_UnRegReqProc, UnRegRej, LudbAnswers, Answers
  <2>3. QED
    BY <2>1, <2>2 DEF LudbAnswers
<1>3. CASE LUDB_VBLINK_RCFMsgProc
  BY <1>3 DEF LUDB_VBLINK_RCFMsgProc
<1>4. CASE LUDB_VBLINK_RRJMsgProc
  BY <1>4 DEF LUDB_VBLINK_RRJMsgProc
<1>5. CASE LUDB_VBLINK_Unregistered
  BY <1>5 DEF LUDB_VBLINK_Unregistered, Unregistered
<1>6. CASE LUDB_VBLINK_SPIMsgProc
  BY <1>6 DEF LUDB_VBLINK_SPIMsgProc, RegCnf
<1>7. CASE LUDB_VBLINK_SRSMsgProc
  BY <1>7 DEF LUDB_VBLINK_SRSMsgProc
<1>8. CASE LUDB_VBLINK_SRSZero
  BY <1>8 DEF LUDB_VBLINK_SRSZero
<1>9. CASE VBReqTimeout
  BY <1>9 DEF VBReqTimeout
<1>10. CASE PurgeTimeout
  BY <1>10 DEF PurgeTimeout
<1>11. QED
  BY <1>1, <1>2, <1>3, <1>4, <1>5, <1>6, <1>7, <1>8, <1>9, <1>10 DEF LudbTask

\* MM takes a message and asks at most once.  An entry comes to wait for the end of a
\* registration only when MM asks for it, and no longer waits when it is answered.
AsksLudb(i) == \E x : ludbQ' = Append(ludbQ, x) /\ Asks(x, i)

LEMMA DeallocWaits ==
    ASSUME NEW S, Dealloc(S), NEW i \in MmId, mm'[i].state = "WAIT4UNREG"
    PROVE  i \notin S /\ mm[i].state = "WAIT4UNREG"
BY DEF Dealloc, FreeMm
LEMMA SendRegisterWaits ==
    ASSUME mm \in [MmId -> MmEntry], NEW k, NEW entry \in MmEntry, SendRegister(k, entry),
           NEW i \in MmId, mm'[i].state = "WAIT4UNREG"
    PROVE  mm[i].state = "WAIT4UNREG"
<1>1. [entry EXCEPT !.state = "WAIT4REG", !.mmId2 = None].state = "WAIT4REG"
  BY DEF MmEntry
<1>2. mm' = [mm EXCEPT ![k] = [entry EXCEPT !.state = "WAIT4REG", !.mmId2 = None]]
  BY DEF SendRegister
<1>3. QED
  BY <1>1, <1>2

LEMMA MmStep ==
    ASSUME TypeOK, MmTask
    PROVE  /\ MmTook
           /\ UNCHANGED ludbQ \/ LudbAsked
           /\ \A i \in MmId : mm'[i].state = "WAIT4UNREG" =>
                 /\ mm[i].state = "WAIT4UNREG" \/ AsksLudb(i)
                 /\ ~Answers(Head(mmQ), i)
<1> USE DEF MmTook, MmTakes, mmVars
<1> DEFINE Waits(i) == mm[i].state = "WAIT4UNREG"
           Waited(i) == mm'[i].state = "WAIT4UNREG"
<1>0. mm \in [MmId -> MmEntry]
  BY DEF TypeOK
<1>1. CASE MM_MD_LocUpdateReqProc
  <2>1. MmTook /\ ~(Head(mmQ).type \in {"UNREG_CNF", "UNREG_REJ"})
    BY <1>1 DEF MM_MD_LocUpdateReqProc
  <2>2. UNCHANGED ludbQ \/ LudbAsked
    BY <1>1 DEF MM_MD_LocUpdateReqProc, SendRegister, ToLudb, LudbAsked
  <2> DEFINE k == FreeMmId
             entry == [FreeMm EXCEPT !.state = "START", !.chan = Head(mmQ).on,
                                     !.who = Head(mmQ).who]
  <2>3. UNCHANGED mm \/ SendRegister(k, entry) \/ mm' = [mm EXCEPT ![k] = entry]
    BY <1>1 DEF MM_MD_LocUpdateReqProc
  <2>4. Head(mmQ).on \in Chan /\ Head(mmQ).who \in Mobile
    <3>1. PICK type \in {"LU_IMSI", "LU_TMSI", "LU_OTHER"} : MmTakes(type)
      BY <1>1 DEF MM_MD_LocUpdateReqProc
    <3>2. QED
      BY <3>1, MmTakesType DEF TypeOK
  <2>5. entry \in MmEntry /\ entry.state = "START"
    BY <2>4 DEF FreeMm, MmEntry, MmState
  <2> HIDE DEF entry
  <2>6. ASSUME NEW i \in MmId, Waited(i) PROVE Waits(i)
    <3>1. CASE SendRegister(k, entry)
      BY <1>0, <2>5, <2>6, <3>1, SendRegisterWaits
    <3>2. CASE mm' = [mm EXCEPT ![k] = entry]
      BY <1>0, <2>5, <2>6, <3>2
    <3>3. QED
      BY <2>3, <2>6, <3>1, <3>2
  <2>7. QED
    BY <2>1, <2>2, <2>6 DEF Answers
<1>2. CASE MM_MD_IdentityRespProc
  <2> DEFINE k == irt[Head(mmQ).on]
             entry == [mm[k] EXCEPT !.who = Head(mmQ).who]
  <2>1. MmTook /\ ~(Head(mmQ).type \in {"UNREG_CNF", "UNREG_REJ"})
    BY <1>2 DEF MM_MD_IdentityRespProc
  <2>2. UNCHANGED ludbQ \/ LudbAsked
    BY <1>2 DEF MM_MD_IdentityRespProc, SendRegister, ToLudb, LudbAsked
  <2>3. UNCHANGED mm \/ Dealloc({k}) \/ (k # None /\ SendRegister(k, entry))
    BY <1>2 DEF MM_MD_IdentityRespProc
  <2>4. Head(mmQ).on \in Chan /\ Head(mmQ).who \in Mobile
    <3>1. PICK type \in {"IDENT_IMSI", "IDENT_OTHER"} : MmTakes(type)
      BY <1>2 DEF MM_MD_IdentityRespProc
    <3>2. QED
      BY <3>1, MmTakesType DEF TypeOK
  <2>5. k # None => entry \in MmEntry
    <3> SUFFICES ASSUME k # None PROVE entry \in MmEntry
      OBVIOUS
    <3>1. k \in MmId
      BY <2>4 DEF TypeOK
    <3>2. mm[k] \in MmEntry
      BY <1>0, <3>1
    <3>3. QED
      BY <2>4, <3>2 DEF MmEntry
  <2> HIDE DEF entry
  <2>6. ASSUME NEW i \in MmId, Waited(i) PROVE Waits(i)
    BY <1>0, <2>3, <2>5, <2>6, SendRegisterWaits, DeallocWaits
  <2>7. QED
    BY <2>1, <2>2, <2>6 DEF Answers
<1>3. CASE MM_MD_IMSIDetachIndProc
  <2> DEFINE k == FreeMmId
             entry == [FreeMm EXCEPT !.state = "WAIT4UNREG", !.chan = Head(mmQ).on,
                                     !.who = Head(mmQ).who, !.mmId2 = MmIdOn(Head(mmQ).on)]
  <2>1. MmTook /\ ~(Head(mmQ).type \in {"UNREG_CNF", "UNREG_REJ"})
    BY <1>3 DEF MM_MD_IMSIDetachIndProc
  <2>2. \/ UNCHANGED <<mm, ludbQ>>
        \/ /\ mm' = [mm EXCEPT ![k] = entry]
           /\ ToLudb("UNREG_REQ", Head(mmQ).who, k)
    BY <1>3 DEF MM_MD_IMSIDetachIndProc
  <2>3. ToLudb("UNREG_REQ", Head(mmQ).who, k) => AsksLudb(k) /\ LudbAsked
    BY DEF ToLudb, AsksLudb, Asks, LudbAsked
  <2>4. \A i \in MmId : Waited(i) => Waits(i) \/ AsksLudb(i)
    BY <1>0, <2>2, <2>3
  <2>5. QED
    BY <2>1, <2>2, <2>3, <2>4 DEF Answers
<1>4. CASE MM_MD_AuthRespProc
  <2> DEFINE k == irt[Head(mmQ).on]
  <2>1. MmTook /\ ~(Head(mmQ).type \in {"UNREG_CNF", "UNREG_REJ"})
    BY <1>4 DEF MM_MD_AuthRespProc
  <2>2. \/ Finish(k) /\ UNCHANGED ludbQ
        \/ /\ mm' = [mm EXCEPT ![k].state = "WAIT4UNREG"]
           /\ ToLudb("UNREG_REQ", mm[k].who, k)
        \/ UNCHANGED <<mm, ludbQ>>
    BY <1>4 DEF MM_MD_AuthRespProc
  <2>3. ToLudb("UNREG_REQ", mm[k].who, k) => AsksLudb(k) /\ LudbAsked
    BY DEF ToLudb, AsksLudb, Asks, LudbAsked
  <2>4. Finish(k) => \A i \in MmId : Waited(i) => Waits(i)
    BY DeallocWaits DEF Finish
  <2>5. \A i \in MmId : Waited(i) => Waits(i) \/ AsksLudb(i)
    BY <1>0, <2>2, <2>3, <2>4
  <2>6. QED
    BY <2>1, <2>2, <2>3, <2>5 DEF Answers
<1>5. CASE MM_Ludb_RegCnfProc
  <2> DEFINE k == Head(mmQ).mm
  <2>1. /\ MmTook /\ ~(Head(mmQ).type \in {"UNREG_CNF", "UNREG_REJ"})
        /\ UNCHANGED ludbQ
    BY <1>5 DEF MM_Ludb_RegCnfProc, Ignored
  <2>2. \/ UNCHANGED mm
        \/ Dealloc({k})
        \/ mm' = [mm EXCEPT ![k].state = "AUTH_LOCUP", ![k].ludb = Head(mmQ).ludb]
        \/ mm' = [mm EXCEPT ![k].state = "AUTH_LOCUP"]
    BY <1>5 DEF MM_Ludb_RegCnfProc, Ignored, Finish
  <2>3. ASSUME NEW i \in MmId, Waited(i) PROVE Waits(i)
    <3>1. mm[i] \in MmEntry
      BY <1>0
    <3>2. CASE mm' = [mm EXCEPT ![k].state = "AUTH_LOCUP", ![k].ludb = Head(mmQ).ludb]
      BY <1>0, <2>3, <3>1, <3>2 DEF MmEntry
    <3>3. CASE mm' = [mm EXCEPT ![k].state = "AUTH_LOCUP"]
      BY <1>0, <2>3, <3>1, <3>3 DEF MmEntry
    <3>4. QED
      BY <2>2, <2>3, <3>2, <3>3, DeallocWaits
  <2>4. QED
    BY <2>1, <2>3 DEF Answers
<1>6. CASE MM_Ludb_RegRejProc
  <2>1. /\ MmTook /\ ~(Head(mmQ).type \in {"UNREG_CNF", "UNREG_REJ"})
        /\ UNCHANGED ludbQ
        /\ Finish(Head(mmQ).mm) \/ UNCHANGED mm
    BY <1>6 DEF MM_Ludb_RegRejProc, Ignored
  <2>2. QED
    BY <2>1, DeallocWaits DEF Finish, Answers
<1>7. CASE MM_Ludb_RelReqProc
  <2>1. /\ MmTook /\ ~(Head(mmQ).type \in {"UNREG_CNF", "UNREG_REJ"})
        /\ UNCHANGED ludbQ
        /\ Dealloc({Head(mmQ).mm})
    BY <1>7 DEF MM_Ludb_RelReqProc, Drop
  <2>2. QED
    BY <2>1, DeallocWaits DEF Answers
<1>8. CASE MM_Ludb_UnRegProc
  <2> DEFINE k == Head(mmQ).mm
  <2>1. /\ MmTook /\ UNCHANGED ludbQ
        /\ \/ InState(k, "WAIT4UNREG") /\ Dealloc({k, mm[k].mmId2})
           \/ ~InState(k, "WAIT4UNREG") /\ UNCHANGED mm
    BY <1>8 DEF MM_Ludb_UnRegProc, Ignored
  <2>2. \A i \in MmId : Waited(i) => Waits(i) /\ i # k
    BY <2>1, DeallocWaits, RegistrationAssumption DEF InState, RegistrationAssumption
  <2>3. QED
    BY <2>1, <2>2 DEF Answers
<1>9. CASE MM_TIMER_MsgProc
  <2>1. /\ MmTook /\ ~(Head(mmQ).type \in {"UNREG_CNF", "UNREG_REJ"})
        /\ UNCHANGED ludbQ
        /\ Dealloc({Head(mmQ).mm})
    BY <1>9 DEF MM_TIMER_MsgProc, Drop
  <2>2. QED
    BY <2>1, DeallocWaits DEF Answers
<1>10. CASE MM_RM_RRRelIndProc
  <2>1. /\ MmTook /\ ~(Head(mmQ).type \in {"UNREG_CNF", "UNREG_REJ"})
        /\ UNCHANGED ludbQ
        /\ Dealloc({irt[Head(mmQ).on]})
    BY <1>10 DEF MM_RM_RRRelIndProc
  <2>2. QED
    BY <2>1, DeallocWaits DEF Answers
<1>11. QED
  BY <1>1, <1>2, <1>3, <1>4, <1>5, <1>6, <1>7, <1>8, <1>9, <1>10 DEF MmTask

LEMMA EnvironmentStep ==
    ASSUME TypeOK, Environment
    PROVE  /\ \/ UNCHANGED ludbQ \/ LudbAsked
              \/ \E r \in Seq(LudbMessage) : ludbQ' = ludbQ \o r
           /\ UNCHANGED mmQ \/ MmAnswered
<1>1. CASE GkTakes
  <2> DEFINE m == Head(gkQ).who
             Answer(events) == [j \in 1 .. Len(events) |-> [type |-> events[j], who |-> m]]
  <2>1. m \in Mobile
    <3>1. Head(gkQ) \in GkRequest
      BY <1>1 DEF GkTakes, TypeOK
    <3>2. QED
      BY <3>1 DEF GkRequest
  <2>2. \/ ludbQ' = ludbQ \o Answer(<<"RCF", "SPI">>) \/ ludbQ' = ludbQ \o Answer(<<"RRJ">>)
        \/ ludbQ' = ludbQ \o Answer(<<"UCF">>) \/ ludbQ' = ludbQ \o Answer(<<"URJ">>)
        \/ ludbQ' = ludbQ \o Answer(<<"SRS">>) \/ ludbQ' = ludbQ \o Answer(<<"SRS_ZERO">>)
    BY <1>1 DEF GkTakes
  <2>3. ASSUME NEW events \in Seq(GkEvent) PROVE Answer(events) \in Seq(LudbMessage)
    BY <2>1, AnswerType
  <2>4. /\ \A a \in GkEvent : <<a>> \in Seq(GkEvent)
        /\ <<"RCF", "SPI">> \in Seq(GkEvent)
    BY DEF GkEvent
  <2>5. UNCHANGED mmQ
    BY <1>1 DEF GkTakes, NotGk
  <2> HIDE DEF Answer
  <2>6. QED
    BY <2>2, <2>3, <2>4, <2>5 DEF GkEvent
<1>2. CASE Environment /\ ~GkTakes
  BY <1>2 DEF Environment, VBReqTimerExpires, PurgeTimerExpires, MmTimerExpires, ChannelGranted,
     MobileStarts, MobileAnswers, ChannelReleased, LateRelReq, GkUnregisters, LinkBreaks, LinkUp,
     NotLudb, NotMobile, NotGk, PostMm, LudbAsked, MmAnswered
<1>3. QED
  BY <1>1, <1>2

LEMMA DetachStep ==
    ASSUME TypeOK, DetachAnswered, [Next]_vars
    PROVE  DetachAnswered'
<1> SUFFICES ASSUME NEW i \in MmId, mm'[i].state = "WAIT4UNREG"
             PROVE  Asked(i)' \/ Answered(i)'
  BY DEF DetachAnswered, Asked, Answered, Asks, Answers
<1>0. mm[i].state = "WAIT4UNREG" => Asked(i) \/ Answered(i)
  BY DEF DetachAnswered, Asked, Answered, Asks, Answers
<1>1. CASE LudbTask
  <2>1. Asked(i) \/ Answered(i)
    BY <1>0, <1>1, LudbLeavesEntries
  <2>2. CASE Answered(i)
    BY <1>1, <2>2, LudbStep, AnsweredKept
  <2>3. CASE Asked(i) /\ ~Asks(Head(ludbQ), i)
    BY <1>1, <2>3, LudbStep, AskedKept
  <2>4. CASE Asks(Head(ludbQ), i)
    <3>1. PICK x : mmQ' = Append(mmQ, x) /\ Answers(x, i)
      BY <1>1, <2>4, LudbStep DEF Asks, LudbAnswers
    <3>2. PICK j \in DOMAIN mmQ' : mmQ'[j] = x
      <4>1. mmQ \in Seq(MmMessage)
        BY DEF TypeOK
      <4>2. \E j \in DOMAIN Append(mmQ, x) : Append(mmQ, x)[j] = x
        BY <4>1, AppendKeeps
      <4>3. QED
        BY <3>1, <4>2
    <3>3. Answers(mmQ'[j], i)
      BY <3>1, <3>2
    <3>4. QED
      BY <3>2, <3>3 DEF Answered, Answers
  <2>5. QED
    BY <2>1, <2>2, <2>3, <2>4
<1>2. CASE MmTask
  <2>1. CASE AsksLudb(i)
    <3>1. PICK x : ludbQ' = Append(ludbQ, x) /\ Asks(x, i)
      BY <2>1 DEF AsksLudb
    <3>2. PICK j \in DOMAIN ludbQ' : ludbQ'[j] = x
      <4>1. ludbQ \in Seq(LudbMessage)
        BY DEF TypeOK
      <4>2. \E j \in DOMAIN Append(ludbQ, x) : Append(ludbQ, x)[j] = x
        BY <4>1, AppendKeeps
      <4>3. QED
        BY <3>1, <4>2
    <3>3. Asks(ludbQ'[j], i)
      BY <3>1, <3>2
    <3>4. QED
      BY <3>2, <3>3 DEF Asked, Asks
  <2>2. CASE Asked(i)
    BY <1>2, <2>2, MmStep, AskedKept
  <2>3. CASE Answered(i)
    BY <1>2, <2>3, MmStep, AnsweredKept
  <2>4. QED
    BY <1>0, <1>2, <2>1, <2>2, <2>3, MmStep
<1>3. CASE Environment
  BY <1>0, <1>3, EnvironmentLeavesEntries, EnvironmentStep, AskedKept, AnsweredKept
<1>4. CASE UNCHANGED vars
  BY <1>0, <1>4 DEF vars, mmVars, Asked, Answered, Asks, Answers
<1>5. QED
  BY <1>1, <1>2, <1>3, <1>4 DEF Next

-----------------------------------------------------------------------------
(* The theorems.                                                             *)

\* Every message that MM, LUDB, their watchdogs and the GMC send is one that its
\* receiver can read, and every entry and timer it names exists: LUDB never
\* confirms, releases or unregisters for an entry of MM that there is not.
THEOREM TypeCorrect == Spec => []TypeOK
<1>1. EntriesOK => TypeOK
  BY DEF EntriesOK
<1>2. QED
  BY <1>1, EntriesAlwaysOK, PTL

\* However entries of MM are released, by the radio, by LUDB or by a watchdog, and
\* used again, the IRT table never leads from a channel to the entry of another.
THEOREM IrtCorrect == Spec => []IrtOK
<1>1. EntriesOK => IrtOK
  BY DEF EntriesOK
<1>2. QED
  BY <1>1, EntriesAlwaysOK, PTL

\* As long as an entry of MM waits for the end of a registration, which no watchdog
\* ends, the request or an answer that names the entry is in a queue.
THEOREM DetachCorrect == Spec => []DetachAnswered
<1>1. Init => DetachAnswered
  BY DEF Init, DetachAnswered, FreeMm
<1>2. TypeOK /\ DetachAnswered /\ [Next]_vars => DetachAnswered'
  BY DetachStep
<1>3. QED
  BY <1>1, <1>2, TypeCorrect, PTL DEF Spec

-----------------------------------------------------------------------------
(* What LUDB believes once no message is under way.                          *)
(* The invariant looks into the queues: what an entry waits for is under *)
(* way, and a registration that has ended at the GMC is going to end in LUDB. *)

Live == {"ACTIVE", "SECINREG"}
Clears(message, m) == message.type \in {"UCF", "URJ", "URQ"} /\ message.who = m

InLudbQ(types, m) == \E j \in DOMAIN ludbQ : ludbQ[j].type \in types /\ ludbQ[j].who = m
InGkQ(type, m) == \E j \in DOMAIN gkQ : gkQ[j].type = type /\ gkQ[j].who = m
PurgeQueued(e) == \E j \in DOMAIN ludbQ : ludbQ[j].type = "PURGE_TIMEOUT" /\ ludbQ[j].of = e

\* No mobile has two entries, and an entry without one is not in use.
OneEntry ==
    /\ \A e, f \in Entry : db[e].mobile = db[f].mobile /\ db[e].mobile # None => e = f
    /\ \A e \in Entry : db[e].mobile = None => db[e].state \notin Live

Up == breaks = 0 => link = "up"

\* A live entry, and a profile that may make one live, of a mobile that is not
\* registered: the message that clears the entry comes behind it.
LiveCovered ==
    breaks = 0 =>
        \A e \in Entry : db[e].state \in Live =>
            \/ db[e].mobile \in registered
            \/ \E j \in DOMAIN ludbQ : Clears(ludbQ[j], db[e].mobile)
ProfileCovered ==
    breaks = 0 =>
        \A j \in DOMAIN ludbQ : ludbQ[j].type = "SPI" =>
            \/ ludbQ[j].who \in registered
            \/ \E k \in DOMAIN ludbQ : k > j /\ Clears(ludbQ[k], ludbQ[j].who)

\* What takes an entry out of a state in which it waits.
WaitsFor(e, m) ==
    /\ db[e].state # "IDLE"
    /\ db[e].state \in {"REGREQ", "REGTHENSEC"} =>
          db[e].mm # None /\ (InGkQ("RRQ", m) \/ InLudbQ({"RRJ", "SPI"}, m))
    /\ db[e].state = "SECINREG" =>
          db[e].mm # None /\ (InGkQ("SRQ", m) \/ InLudbQ({"SRS", "SRS_ZERO"}, m))
    /\ db[e].state = "UNREGREQ" => InGkQ("URQ", m) \/ InLudbQ({"UCF", "URJ", "URQ"}, m)
    /\ db[e].state = "INACTIVE" => e \in purgeTimer \/ PurgeQueued(e)
Pending ==
    breaks = 0 => \A e \in Entry : db[e].mobile # None => WaitsFor(e, db[e].mobile)

LudbOK == TypeOK /\ OneEntry /\ Up /\ LiveCovered /\ ProfileCovered /\ Pending

\* Nothing under way: what is left is what the properties say.
LEMMA LudbOKImplies == ASSUME LudbOK PROVE ActiveRegistered /\ Guarded
<1> SUFFICES ASSUME Settled, NEW e \in Entry
             PROVE  /\ db[e].state = "ACTIVE" => db[e].mobile \in registered
                    /\ db[e].mobile # None =>
                          db[e].state = "ACTIVE" \/ (db[e].state = "INACTIVE" /\ e \in purgeTimer)
  BY DEF ActiveRegistered, Guarded
<1>1. DOMAIN ludbQ = {} /\ DOMAIN gkQ = {} /\ breaks = 0
  BY DEF Settled
<1>2. db[e].state = "ACTIVE" => db[e].mobile \in registered
  BY <1>1 DEF LudbOK, LiveCovered, Live
<1>3. ASSUME db[e].mobile # None
      PROVE  db[e].state = "ACTIVE" \/ (db[e].state = "INACTIVE" /\ e \in purgeTimer)
  <2>1. WaitsFor(e, db[e].mobile)
    BY <1>1, <1>3 DEF LudbOK, Pending
  <2>2. db[e].state \in LudbState
    BY DEF LudbOK, TypeOK, LudbEntry
  <2>3. ~InGkQ("RRQ", db[e].mobile) /\ ~InGkQ("SRQ", db[e].mobile) /\ ~InGkQ("URQ", db[e].mobile)
    BY <1>1 DEF InGkQ
  <2>4. (\A types : ~InLudbQ(types, db[e].mobile)) /\ ~PurgeQueued(e)
    BY <1>1 DEF InLudbQ, PurgeQueued
  <2>5. QED
    BY <2>1, <2>2, <2>3, <2>4 DEF WaitsFor, LudbState
<1>4. QED
  BY <1>2, <1>3

-----------------------------------------------------------------------------
(* Queues.                                                                   *)

LEMMA TailIndex ==
    ASSUME NEW S, NEW q \in Seq(S), q # <<>>
    PROVE  /\ \A j \in DOMAIN q : \/ q[j] = Head(q)
                                  \/ j - 1 \in DOMAIN Tail(q) /\ Tail(q)[j - 1] = q[j]
           /\ \A j \in DOMAIN Tail(q) : j + 1 \in DOMAIN q /\ q[j + 1] = Tail(q)[j]
           /\ \A j \in DOMAIN q : j \in Nat
           /\ 1 \in DOMAIN q /\ q[1] = Head(q)
           /\ \A j \in DOMAIN q : j > 1 => j - 1 \in DOMAIN Tail(q) /\ Tail(q)[j - 1] = q[j]
<1>1. /\ Len(q) \in Nat /\ DOMAIN q = 1 .. Len(q) /\ Head(q) = q[1] /\ Len(q) # 0
      /\ Len(Tail(q)) = Len(q) - 1 /\ DOMAIN Tail(q) = 1 .. (Len(q) - 1)
      /\ \A k \in 1 .. Len(Tail(q)) : Tail(q)[k] = q[k + 1]
  BY HeadTailProperties, LenProperties
<1>2. QED
  BY <1>1

LEMMA ConcatIndex ==
    ASSUME NEW S, NEW q \in Seq(S), NEW r \in Seq(S)
    PROVE  /\ \A j \in DOMAIN q : j \in DOMAIN (q \o r) /\ (q \o r)[j] = q[j] /\ j \in Nat
           /\ \A k \in DOMAIN r : /\ Len(q) + k \in DOMAIN (q \o r)
                                  /\ (q \o r)[Len(q) + k] = r[k]
                                  /\ \A j \in DOMAIN q : Len(q) + k > j
           /\ \A j \in DOMAIN (q \o r) :
                 j \in DOMAIN q \/ \E k \in DOMAIN r : j = Len(q) + k
<1>1. /\ Len(q \o r) = Len(q) + Len(r)
      /\ \A j \in 1 .. Len(q) : (q \o r)[j] = q[j]
      /\ \A j \in (Len(q) + 1) .. (Len(q) + Len(r)) : (q \o r)[j] = r[j - Len(q)]
      /\ q \o r \in Seq(S)
  BY ConcatProperties
<1>2. /\ Len(q) \in Nat /\ Len(r) \in Nat /\ DOMAIN q = 1 .. Len(q) /\ DOMAIN r = 1 .. Len(r)
      /\ DOMAIN (q \o r) = 1 .. (Len(q) + Len(r))
  BY <1>1, LenProperties
<1>3. \A j \in DOMAIN q : j \in DOMAIN (q \o r) /\ (q \o r)[j] = q[j] /\ j \in Nat
  BY <1>1, <1>2
<1>4. ASSUME NEW k \in DOMAIN r
      PROVE  /\ Len(q) + k \in DOMAIN (q \o r)
             /\ (q \o r)[Len(q) + k] = r[k]
             /\ \A j \in DOMAIN q : Len(q) + k > j
  <2>1. k \in 1 .. Len(r) /\ Len(q) + k \in (Len(q) + 1) .. (Len(q) + Len(r)) /\ (Len(q) + k) - Len(q) = k
    BY <1>2
  <2>2. (q \o r)[Len(q) + k] = r[k]
    BY <1>1, <2>1
  <2>3. QED
    BY <1>2, <2>1, <2>2
<1>5. ASSUME NEW j \in DOMAIN (q \o r), j \notin DOMAIN q
      PROVE  \E k \in DOMAIN r : j = Len(q) + k
  <2>1. j - Len(q) \in DOMAIN r /\ j = Len(q) + (j - Len(q))
    BY <1>2, <1>5
  <2>2. QED
    BY <2>1
<1>6. QED
  BY <1>3, <1>4, <1>5
-----------------------------------------------------------------------------
(* Steps that leave the entries of LUDB and add to its queue.                *)

LEMMA GrownCovers ==
    ASSUME TypeOK, LiveCovered, ProfileCovered, NEW r \in Seq(LudbMessage), ludbQ' = ludbQ \o r,
           UNCHANGED <<db, breaks>>,
           \A m \in registered : m \in registered' \/ \E k \in DOMAIN r : Clears(r[k], m),
           \A k \in DOMAIN r : r[k].type = "SPI" => r[k].who \in registered'
    PROVE  LiveCovered' /\ ProfileCovered'
<1>0. ludbQ \in Seq(LudbMessage)
  BY DEF TypeOK
<1>1. /\ \A j \in DOMAIN ludbQ : j \in DOMAIN ludbQ' /\ ludbQ'[j] = ludbQ[j] /\ j \in Nat
      /\ \A k \in DOMAIN r : /\ Len(ludbQ) + k \in DOMAIN ludbQ'
                             /\ ludbQ'[Len(ludbQ) + k] = r[k]
                             /\ \A j \in DOMAIN ludbQ : Len(ludbQ) + k > j
      /\ \A j \in DOMAIN ludbQ' : j \in DOMAIN ludbQ \/ \E k \in DOMAIN r : j = Len(ludbQ) + k
  BY <1>0, ConcatIndex
\* a mobile that is no longer registered: the new message clears its entry
<1>2. ASSUME NEW m, m \in registered, m \notin registered'
      PROVE  \E k \in DOMAIN ludbQ' : Clears(ludbQ'[k], m) /\ \A j \in DOMAIN ludbQ : k > j
  <2>1. PICK k \in DOMAIN r : Clears(r[k], m)
    BY <1>2
  <2>2. Clears(ludbQ'[Len(ludbQ) + k], m)
    BY <1>1, <2>1
  <2>3. QED
    BY <1>1, <2>2
<1>3. LiveCovered'
  <2> SUFFICES ASSUME breaks' = 0, NEW e \in Entry, db'[e].state \in Live
               PROVE  \/ db'[e].mobile \in registered'
                      \/ \E j \in DOMAIN ludbQ' : Clears(ludbQ'[j], db'[e].mobile)
    BY DEF LiveCovered
  <2>1. CASE db[e].mobile \in registered
    BY <1>2, <2>1
  <2>2. CASE \E j \in DOMAIN ludbQ : Clears(ludbQ[j], db[e].mobile)
    <3>1. PICK j \in DOMAIN ludbQ : Clears(ludbQ[j], db[e].mobile)
      BY <2>2
    <3>2. j \in DOMAIN ludbQ' /\ Clears(ludbQ'[j], db[e].mobile)
      BY <1>1, <3>1
    <3>3. QED
      BY <3>2
  <2>3. QED
    BY <2>1, <2>2 DEF LiveCovered
<1>4. ProfileCovered'
  <2> SUFFICES ASSUME breaks' = 0, NEW j \in DOMAIN ludbQ', ludbQ'[j].type = "SPI",
                      ludbQ'[j].who \notin registered'
               PROVE  \E k \in DOMAIN ludbQ' : k > j /\ Clears(ludbQ'[k], ludbQ'[j].who)
    BY DEF ProfileCovered
  <2>1. j \in DOMAIN ludbQ /\ ludbQ'[j] = ludbQ[j]
    BY <1>1
  <2>2. CASE ludbQ[j].who \in registered
    BY <1>2, <2>1, <2>2
  <2>3. CASE \E k \in DOMAIN ludbQ : k > j /\ Clears(ludbQ[k], ludbQ[j].who)
    <3>1. PICK k \in DOMAIN ludbQ : k > j /\ Clears(ludbQ[k], ludbQ[j].who)
      BY <2>3
    <3>2. k \in DOMAIN ludbQ' /\ Clears(ludbQ'[k], ludbQ'[j].who)
      BY <1>1, <2>1, <3>1
    <3>3. QED
      BY <3>1, <3>2
  <2>4. QED
    BY <2>1, <2>2, <2>3 DEF ProfileCovered
<1>5. QED
  BY <1>3, <1>4

\* What is in the queue of LUDB stays there.
LEMMA GrownKeeps ==
    ASSUME TypeOK, NEW r \in Seq(LudbMessage), ludbQ' = ludbQ \o r
    PROVE  /\ \A types, m : InLudbQ(types, m) => InLudbQ(types, m)'
           /\ \A e : PurgeQueued(e) => PurgeQueued(e)'
<1>1. \A j \in DOMAIN ludbQ : j \in DOMAIN ludbQ' /\ ludbQ'[j] = ludbQ[j]
  BY ConcatIndex DEF TypeOK
<1>2. ASSUME NEW types, NEW m, InLudbQ(types, m) PROVE InLudbQ(types, m)'
  <2>1. PICK j \in DOMAIN ludbQ : ludbQ[j].type \in types /\ ludbQ[j].who = m
    BY <1>2 DEF InLudbQ
  <2>2. j \in DOMAIN ludbQ' /\ ludbQ'[j].type \in types /\ ludbQ'[j].who = m
    BY <1>1, <2>1
  <2>3. QED
    BY <2>2 DEF InLudbQ
<1>3. ASSUME NEW e, PurgeQueued(e) PROVE PurgeQueued(e)'
  BY <1>1, <1>3 DEF PurgeQueued
<1>4. QED
  BY <1>2, <1>3

\* A step that adds r to the queue and changes nothing else of LUDB and the GMC.
LEMMA Grown ==
    ASSUME LudbOK, TypeOK', NEW r \in Seq(LudbMessage), ludbQ' = ludbQ \o r,
           UNCHANGED <<db, purgeTimer, gkQ, registered, linkVars>>,
           \A k \in DOMAIN r : r[k].type # "SPI"
    PROVE  LudbOK'
<1>1. LiveCovered' /\ ProfileCovered'
  BY GrownCovers DEF LudbOK, linkVars
<1>2. Pending'
  <2> SUFFICES ASSUME breaks' = 0, NEW e \in Entry, db'[e].mobile # None
               PROVE  WaitsFor(e, db[e].mobile)'
    BY DEF Pending
  <2>1. WaitsFor(e, db[e].mobile)
    BY DEF LudbOK, Pending, linkVars
  <2>2. \A type, m : InGkQ(type, m) => InGkQ(type, m)'
    BY DEF InGkQ
  <2>3. QED
    BY <2>1, <2>2, GrownKeeps DEF LudbOK, WaitsFor
<1>3. OneEntry' /\ Up'
  BY DEF LudbOK, OneEntry, Up, linkVars
<1>4. QED
  BY <1>1, <1>2, <1>3 DEF LudbOK

\* Nothing added, or one message.
LEMMA GrownByOne ==
    ASSUME LudbOK, TypeOK', UNCHANGED <<db, purgeTimer, gkQ, registered, linkVars>>,
           UNCHANGED ludbQ \/ \E x : ludbQ' = Append(ludbQ, x) /\ x.type # "SPI"
    PROVE  LudbOK'
<1>0. ludbQ \in Seq(LudbMessage)
  BY DEF LudbOK, TypeOK
<1>1. CASE UNCHANGED ludbQ
  <2>1. ludbQ' = ludbQ \o <<>> /\ <<>> \in Seq(LudbMessage) /\ DOMAIN <<>> = {}
    BY <1>0, <1>1, ConcatEmptySeq, EmptySeq
  <2>2. QED
    BY <2>1, Grown
<1>2. CASE \E x : ludbQ' = Append(ludbQ, x) /\ x.type # "SPI"
  <2>0. PICK x : ludbQ' = Append(ludbQ, x) /\ x.type # "SPI"
    BY <1>2
  <2>1. x \in LudbMessage
    <3>1. \E j \in DOMAIN Append(ludbQ, x) : Append(ludbQ, x)[j] = x
      BY <1>0, AppendKeeps
    <3>2. Append(ludbQ, x) \in Seq(LudbMessage)
      BY <2>0 DEF TypeOK
    <3>3. QED
      BY <3>1, <3>2
  <2>2. /\ ludbQ' = ludbQ \o <<x>> /\ <<x>> \in Seq(LudbMessage)
        /\ \A k \in DOMAIN <<x>> : <<x>>[k].type # "SPI"
    BY <1>0, <2>0, <2>1, AppendIsConcat
  <2>3. QED
    BY <2>2, Grown
<1>3. QED
  BY <1>1, <1>2
LEMMA MmLeavesLudb ==
    ASSUME MmTask
    PROVE  /\ UNCHANGED <<db, purgeTimer, gkQ, registered, linkVars>>
           /\ UNCHANGED ludbQ \/ \E x : ludbQ' = Append(ludbQ, x) /\ x.type # "SPI"
<1>1. UNCHANGED <<db, purgeTimer, gkQ, registered, linkVars>>
  BY DEF MmTask, MM_MD_LocUpdateReqProc, MM_MD_IdentityRespProc, MM_MD_IMSIDetachIndProc,
         MM_MD_AuthRespProc, MM_Ludb_RegCnfProc, MM_Ludb_RegRejProc, MM_Ludb_RelReqProc,
         MM_Ludb_UnRegProc, MM_TIMER_MsgProc, MM_RM_RRRelIndProc, NotMm, ludbVars, gkVars
<1>2. \/ UNCHANGED ludbQ
      \/ \E m, i : ToLudb("REG_REQ", m, i)
      \/ \E m, i : ToLudb("UNREG_REQ", m, i)
  BY DEF MmTask, MM_MD_LocUpdateReqProc, MM_MD_IdentityRespProc, MM_MD_IMSIDetachIndProc,
         MM_MD_AuthRespProc, MM_Ludb_RegCnfProc, MM_Ludb_RegRejProc, MM_Ludb_RelReqProc,
         MM_Ludb_UnRegProc, MM_TIMER_MsgProc, MM_RM_RRRelIndProc, SendRegister, Ignored
<1>3. ASSUME NEW type \in {"REG_REQ", "UNREG_REQ"}, NEW a, NEW i, ToLudb(type, a, i)
      PROVE  \E x : ludbQ' = Append(ludbQ, x) /\ x.type # "SPI"
  BY <1>3 DEF ToLudb
<1>4. QED
  BY <1>1, <1>2, <1>3

\* The answers of the GMC to the request at the head of its queue.
LEMMA GkTakesStep ==
    ASSUME LudbOK, TypeOK', GkTakes
    PROVE  LudbOK'
<1>0. PICK m : m = Head(gkQ).who
  OBVIOUS
<1> DEFINE Answer(events) == [j \in 1 .. Len(events) |-> [type |-> events[j], who |-> m]]
<1>1. m \in Mobile /\ gkQ # <<>> /\ gkQ \in Seq(GkRequest)
  <2>1. Head(gkQ) \in GkRequest /\ gkQ # <<>> /\ gkQ \in Seq(GkRequest)
    BY DEF GkTakes, LudbOK, TypeOK
  <2>2. QED
    BY <1>0, <2>1 DEF GkRequest
<1>2. PICK events \in Seq(GkEvent) :
         /\ ludbQ' = ludbQ \o Answer(events)
         /\ \/ /\ Head(gkQ).type = "RRQ"
               /\ \/ registered' = registered \cup {m} /\ events = <<"RCF", "SPI">>
                  \/ registered' = registered /\ events = <<"RRJ">>
            \/ /\ Head(gkQ).type = "URQ" /\ registered' = registered \ {m}
               /\ events = <<"UCF">> \/ events = <<"URJ">>
            \/ /\ Head(gkQ).type = "SRQ" /\ registered' = registered
               /\ events = <<"SRS">> \/ events = <<"SRS_ZERO">>
  <2>1. /\ \A a \in GkEvent : <<a>> \in Seq(GkEvent)
        /\ <<"RCF", "SPI">> \in Seq(GkEvent)
    BY DEF GkEvent
  <2>2. \E events \in {<<"RCF", "SPI">>, <<"RRJ">>, <<"UCF">>, <<"URJ">>, <<"SRS">>, <<"SRS_ZERO">>} :
         /\ ludbQ' = ludbQ \o Answer(events)
         /\ \/ /\ Head(gkQ).type = "RRQ"
               /\ \/ registered' = registered \cup {m} /\ events = <<"RCF", "SPI">>
                  \/ registered' = registered /\ events = <<"RRJ">>
            \/ /\ Head(gkQ).type = "URQ" /\ registered' = registered \ {m}
               /\ events = <<"UCF">> \/ events = <<"URJ">>
            \/ /\ Head(gkQ).type = "SRQ" /\ registered' = registered
               /\ events = <<"SRS">> \/ events = <<"SRS_ZERO">>
    BY <1>0 DEF GkTakes
  <2> HIDE DEF Answer
  <2>3. QED
    BY <2>1, <2>2 DEF GkEvent
<1>3. /\ gkQ' = Tail(gkQ)
      /\ UNCHANGED <<db, purgeTimer, linkVars>>
  BY DEF GkTakes, NotGk, ludbVars
<1> DEFINE r == Answer(events)
<1>4. /\ r \in Seq(LudbMessage)
      /\ \A k \in DOMAIN r : r[k].type = events[k] /\ r[k].who = m
      /\ DOMAIN r = 1 .. Len(events)
  BY <1>1, AnswerType
<1> HIDE DEF r
<1>5. LiveCovered' /\ ProfileCovered'
  <2>1. \A k \in DOMAIN r : r[k].type = "SPI" => r[k].who \in registered'
    BY <1>2, <1>4
  <2>2. \A a \in registered : a \in registered' \/ \E k \in DOMAIN r : Clears(r[k], a)
    <3> SUFFICES ASSUME NEW a \in registered, a \notin registered'
                 PROVE  \E k \in DOMAIN r : Clears(r[k], a)
      OBVIOUS
    <3>1. a = m /\ (events = <<"UCF">> \/ events = <<"URJ">>)
      BY <1>2
    <3>2. 1 \in DOMAIN r /\ Clears(r[1], a)
      BY <1>4, <3>1 DEF Clears
    <3>3. QED
      BY <3>2
  <2>3. ludbQ' = ludbQ \o r
    BY <1>2 DEF r
  <2>4. QED
    BY <1>3, <1>4, <2>1, <2>2, <2>3, GrownCovers DEF LudbOK, linkVars
<1>6. Pending'
  <2> SUFFICES ASSUME breaks' = 0, NEW e \in Entry, db'[e].mobile # None
               PROVE  WaitsFor(e, db[e].mobile)'
    BY <1>3 DEF Pending
  <2>0. PICK a : a = db[e].mobile
    OBVIOUS
  <2>1. WaitsFor(e, a)
    BY <1>3, <2>0 DEF LudbOK, Pending, linkVars
  <2>2. ludbQ' = ludbQ \o r
    BY <1>2 DEF r
  <2>3. ASSUME NEW types, \E k \in DOMAIN r : r[k].type \in types
        PROVE  InLudbQ(types, m)'
    <3>1. PICK k \in DOMAIN r : r[k].type \in types
      BY <2>3
    <3>2. Len(ludbQ) + k \in DOMAIN ludbQ' /\ ludbQ'[Len(ludbQ) + k] = r[k]
      BY <1>4, <2>2, ConcatIndex DEF LudbOK, TypeOK
    <3>3. r[k].who = m
      BY <1>4
    <3>4. QED
      BY <3>1, <3>2, <3>3 DEF InLudbQ
  \* a request that is not the one taken stays
  <2>4. ASSUME NEW type, InGkQ(type, a)
        PROVE  InGkQ(type, a)' \/ (a = m /\ Head(gkQ).type = type)
    <3>1. PICK j \in DOMAIN gkQ : gkQ[j].type = type /\ gkQ[j].who = a
      BY <2>4 DEF InGkQ
    <3>2. gkQ[j] = Head(gkQ) \/ (j - 1 \in DOMAIN gkQ' /\ gkQ'[j - 1] = gkQ[j])
      BY <1>1, <1>3, TailIndex
    <3>3. QED
      BY <1>0, <3>1, <3>2 DEF InGkQ
  <2>5. InGkQ("RRQ", a) => InGkQ("RRQ", a)' \/ InLudbQ({"RRJ", "SPI"}, a)'
    <3>1. ASSUME Head(gkQ).type = "RRQ"
          PROVE  \E k \in DOMAIN r : r[k].type \in {"RRJ", "SPI"}
      <4>1. CASE events = <<"RCF", "SPI">>
        <5>1. 2 \in DOMAIN r /\ r[2].type = "SPI"
          BY <1>4, <4>1
        <5>2. QED
          BY <5>1
      <4>2. CASE events = <<"RRJ">>
        <5>1. 1 \in DOMAIN r /\ r[1].type = "RRJ"
          BY <1>4, <4>2
        <5>2. QED
          BY <5>1
      <4>3. QED
        BY <1>2, <3>1, <4>1, <4>2
    <3>2. QED
      BY <2>3, <2>4, <3>1
  <2>6. InGkQ("SRQ", a) => InGkQ("SRQ", a)' \/ InLudbQ({"SRS", "SRS_ZERO"}, a)'
    <3>1. ASSUME Head(gkQ).type = "SRQ"
          PROVE  \E k \in DOMAIN r : r[k].type \in {"SRS", "SRS_ZERO"}
      <4>1. events = <<"SRS">> \/ events = <<"SRS_ZERO">>
        BY <1>2, <3>1
      <4>2. 1 \in DOMAIN r /\ r[1].type \in {"SRS", "SRS_ZERO"}
        BY <1>4, <4>1
      <4>3. QED
        BY <4>2
    <3>2. QED
      BY <2>3, <2>4, <3>1
  <2>7. InGkQ("URQ", a) => InGkQ("URQ", a)' \/ InLudbQ({"UCF", "URJ", "URQ"}, a)'
    <3>1. ASSUME Head(gkQ).type = "URQ"
          PROVE  \E k \in DOMAIN r : r[k].type \in {"UCF", "URJ", "URQ"}
      <4>1. events = <<"UCF">> \/ events = <<"URJ">>
        BY <1>2, <3>1
      <4>2. Len(events) = 1 /\ events[1] \in {"UCF", "URJ"}
        BY <4>1
      <4>3. 1 \in DOMAIN r /\ r[1].type \in {"UCF", "URJ", "URQ"}
        BY <1>4, <4>2
      <4>4. QED
        BY <4>3
    <3>2. QED
      BY <2>3, <2>4, <3>1
  <2>8. /\ \A types : InLudbQ(types, a) => InLudbQ(types, a)'
        /\ PurgeQueued(e) => PurgeQueued(e)'
    BY <1>4, <2>2, GrownKeeps DEF LudbOK
  <2>9. QED
    BY <1>3, <2>0, <2>1, <2>5, <2>6, <2>7, <2>8 DEF WaitsFor
<1>7. OneEntry' /\ Up'
  BY <1>3 DEF LudbOK, OneEntry, Up, linkVars
<1>8. QED
  BY <1>5, <1>6, <1>7 DEF LudbOK

LEMMA GkUnregistersStep ==
    ASSUME LudbOK, TypeOK', NEW m \in Mobile, GkUnregisters(m)
    PROVE  LudbOK'
<1> DEFINE x == [type |-> "URQ", who |-> m]
<1>1. /\ ludbQ' = Append(ludbQ, x)
      /\ registered' = registered \ {m}
      /\ UNCHANGED <<db, purgeTimer, gkQ, linkVars>>
  BY DEF GkUnregisters, NotGk, ludbVars
<1>2. x \in LudbMessage
  BY DEF LudbMessage, GkEvent
<1> DEFINE r == <<x>>
<1>3. /\ ludbQ' = ludbQ \o r /\ r \in Seq(LudbMessage)
      /\ \A k \in DOMAIN r : r[k].type # "SPI"
      /\ 1 \in DOMAIN r /\ Clears(r[1], m)
  BY <1>1, <1>2, AppendIsConcat DEF LudbOK, TypeOK, Clears
<1> HIDE DEF r, x
<1>4. LiveCovered' /\ ProfileCovered'
  BY <1>1, <1>3, GrownCovers DEF LudbOK, linkVars
<1>5. Pending'
  <2> SUFFICES ASSUME breaks' = 0, NEW e \in Entry, db'[e].mobile # None
               PROVE  WaitsFor(e, db[e].mobile)'
    BY DEF Pending
  <2>1. WaitsFor(e, db[e].mobile)
    BY <1>1 DEF LudbOK, Pending, linkVars
  <2>2. \A type, a : InGkQ(type, a) => InGkQ(type, a)'
    BY <1>1 DEF InGkQ
  <2>3. QED
    BY <1>1, <1>3, <2>1, <2>2, GrownKeeps DEF LudbOK, WaitsFor
<1>6. OneEntry' /\ Up'
  BY <1>1 DEF LudbOK, OneEntry, Up, linkVars
<1>7. QED
  BY <1>4, <1>5, <1>6 DEF LudbOK

LEMMA PurgeTimerExpiresStep ==
    ASSUME LudbOK, TypeOK', NEW p \in Entry, PurgeTimerExpires(p)
    PROVE  LudbOK'
<1> DEFINE x == [type |-> "PURGE_TIMEOUT", of |-> p]
<1>1. /\ ludbQ' = Append(ludbQ, x)
      /\ purgeTimer' = purgeTimer \ {p}
      /\ UNCHANGED <<db, gkQ, registered, linkVars>>
  BY DEF PurgeTimerExpires, NotLudb
<1>2. x \in LudbMessage
  BY DEF LudbMessage
<1> DEFINE r == <<x>>
<1>3. /\ ludbQ' = ludbQ \o r /\ r \in Seq(LudbMessage)
      /\ \A k \in DOMAIN r : r[k].type # "SPI"
  BY <1>1, <1>2, AppendIsConcat DEF LudbOK, TypeOK
<1>4. PurgeQueued(p)'
  <2>1. ludbQ \in Seq(LudbMessage)
    BY DEF LudbOK, TypeOK
  <2>2. x.type = "PURGE_TIMEOUT" /\ x.of = p
    OBVIOUS
  <2> HIDE DEF x
  <2>3. \E j \in DOMAIN Append(ludbQ, x) : Append(ludbQ, x)[j] = x
    BY <2>1, AppendKeeps
  <2>4. QED
    BY <1>1, <2>2, <2>3 DEF PurgeQueued
<1> HIDE DEF r, x
<1>5. LiveCovered' /\ ProfileCovered'
  BY <1>1, <1>3, GrownCovers DEF LudbOK, linkVars
<1>6. Pending'
  <2> SUFFICES ASSUME breaks' = 0, NEW e \in Entry, db'[e].mobile # None
               PROVE  WaitsFor(e, db[e].mobile)'
    BY DEF Pending
  <2>1. WaitsFor(e, db[e].mobile)
    BY <1>1 DEF LudbOK, Pending, linkVars
  <2>2. \A type, a : InGkQ(type, a) => InGkQ(type, a)'
    BY <1>1 DEF InGkQ
  <2>3. e \in purgeTimer => e \in purgeTimer' \/ PurgeQueued(e)'
    BY <1>1, <1>4
  <2>4. QED
    BY <1>1, <1>3, <2>1, <2>2, <2>3, GrownKeeps DEF LudbOK, WaitsFor
<1>7. OneEntry' /\ Up'
  BY <1>1 DEF LudbOK, OneEntry, Up, linkVars
<1>8. QED
  BY <1>5, <1>6, <1>7 DEF LudbOK

LEMMA EnvironmentLudbStep ==
    ASSUME LudbOK, TypeOK', Environment
    PROVE  LudbOK'
<1>1. ASSUME NEW e \in Entry, VBReqTimerExpires(e) PROVE LudbOK'
  <2>1. /\ UNCHANGED <<db, purgeTimer, gkQ, registered, linkVars>>
        /\ \E x : ludbQ' = Append(ludbQ, x) /\ x.type # "SPI"
    BY <1>1 DEF VBReqTimerExpires, NotLudb
  <2>2. QED
    BY <2>1, GrownByOne
<1>2. CASE GkTakes
  BY <1>2, GkTakesStep
<1>3. CASE LinkBreaks
  <2>1. breaks' # 0 /\ UNCHANGED db
    BY <1>3 DEF LinkBreaks, NotGk, ludbVars, LudbOK, TypeOK
  <2>2. QED
    BY <2>1 DEF LudbOK, OneEntry, Up, LiveCovered, ProfileCovered, Pending
<1>4. CASE LinkUp
  <2>1. breaks # 0 /\ UNCHANGED <<db, breaks>>
    BY <1>4 DEF LinkUp, NotGk, ludbVars, LudbOK, Up
  <2>2. QED
    BY <2>1 DEF LudbOK, OneEntry, Up, LiveCovered, ProfileCovered, Pending
<1>5. ASSUME UNCHANGED <<db, purgeTimer, gkQ, registered, linkVars, ludbQ>> PROVE LudbOK'
  BY <1>5, GrownByOne
<1>6. ASSUME NEW i \in MmId, MmTimerExpires(i) PROVE LudbOK'
  BY <1>5, <1>6 DEF MmTimerExpires, NotMm, ludbVars, gkVars
<1>7. ASSUME NEW c \in Chan,
             \/ \E m \in Mobile : ChannelGranted(c, m)
             \/ MobileStarts(c) \/ MobileAnswers(c) \/ ChannelReleased(c) \/ LateRelReq(c)
      PROVE  LudbOK'
  BY <1>5, <1>7 DEF ChannelGranted, MobileStarts, MobileAnswers, ChannelReleased, LateRelReq,
                    NotMobile, ludbVars, gkVars
<1>8. QED
  BY <1>1, <1>2, <1>3, <1>4, <1>6, <1>7, GkUnregistersStep, PurgeTimerExpiresStep DEF Environment

-----------------------------------------------------------------------------
(* Steps of LUDB.  It takes the first message; an entry either stays and the  *)
(* message is not what it waits for, or the step itself gives a reason for    *)
(* its new state.                                                            *)

HeadIs(types, m) == Head(ludbQ).type \in types /\ Head(ludbQ).who = m
PurgeHead(e) == Head(ludbQ).type = "PURGE_TIMEOUT" /\ Head(ludbQ).of = e
SendsGk(type, m) == gkQ' = Append(gkQ, [type |-> type, who |-> m])

Keeps(e) ==
    /\ db'[e].mobile = db[e].mobile
    /\ db'[e].state = db[e].state
    /\ db'[e].mm = db[e].mm
    /\ e \in purgeTimer => e \in purgeTimer'
KeepsUnresolved(e) ==
    /\ Keeps(e)
    /\ ~HeadIs({"UCF", "URJ", "URQ"}, db[e].mobile)
    /\ db[e].state \in {"REGREQ", "REGTHENSEC"} => ~HeadIs({"RRJ", "SPI"}, db[e].mobile)
    /\ db[e].state = "SECINREG" => ~HeadIs({"SRS", "SRS_ZERO"}, db[e].mobile)
    /\ ~PurgeHead(e)

Justified(e) ==
    /\ db'[e].state \in Live =>
          \/ HeadIs({"SPI"}, db'[e].mobile)
          \/ /\ db[e].state \in Live
             /\ db'[e].mobile = db[e].mobile
             /\ ~HeadIs({"UCF", "URJ", "URQ"}, db[e].mobile)
    /\ db'[e].mobile # None =>
          /\ db'[e].state # "IDLE"
          /\ db'[e].state \in {"REGREQ", "REGTHENSEC"} =>
                db'[e].mm # None /\ SendsGk("RRQ", db'[e].mobile)
          /\ db'[e].state = "SECINREG" =>
                db'[e].mm # None /\ SendsGk("SRQ", db'[e].mobile)
          /\ db'[e].state = "UNREGREQ" => SendsGk("URQ", db'[e].mobile)
          /\ db'[e].state = "INACTIVE" => e \in purgeTimer'

\* What a step of LUDB does to an entry.
EntryStep(e) ==
    /\ db'[e].mobile = None => db'[e].state \notin Live
    /\ breaks = 0 => KeepsUnresolved(e) \/ Justified(e)
MobilesApart ==
    \A e, f \in Entry : db'[e].mobile = db'[f].mobile /\ db'[e].mobile # None => e = f
StepOK == MobilesApart /\ \A e \in Entry : EntryStep(e)

\* LUDB::getEntry and LUDB::entryAlloc
LEMMA EntryOfFact ==
    ASSUME NEW m
    PROVE  /\ EntryOf(m) # None => EntryOf(m) \in Entry /\ db[EntryOf(m)].mobile = m
           /\ EntryOf(m) = None => \A e \in Entry : db[e].mobile # m
<1>1. CASE \E e \in Entry : db[e].mobile = m
  <2>1. EntryOf(m) \in Entry /\ db[EntryOf(m)].mobile = m
    BY <1>1 DEF EntryOf
  <2>2. QED
    BY <2>1, RegistrationAssumption DEF RegistrationAssumption
<1>2. CASE ~\E e \in Entry : db[e].mobile = m
  BY <1>2 DEF EntryOf
<1>3. QED
  BY <1>1, <1>2

LEMMA FreeEntryFact ==
    FreeEntry # None => FreeEntry \in Entry /\ db[FreeEntry].mobile = None
BY DEF FreeEntry, Lowest

\* The step changes one entry f, of the mobile that the message names or free.
LEMMA OneEntryChanges ==
    ASSUME OneEntry, NEW f \in Entry, NEW v, db' = [db EXCEPT ![f] = v], TypeOK, TypeOK',
           \/ v.mobile \in {None, db[f].mobile}
           \/ \A e \in Entry : db[e].mobile # v.mobile
    PROVE  /\ MobilesApart
           /\ \A e \in Entry \ {f} : db'[e] = db[e]
           /\ db'[f] = v
<1>1. /\ \A e \in Entry \ {f} : db'[e] = db[e]
      /\ db'[f] = v
  BY DEF TypeOK
<1>2. QED
  BY <1>1 DEF MobilesApart, OneEntry

\* An entry that the step leaves alone, and that the message does not name.
LEMMA Aside ==
    ASSUME OneEntry, NEW e \in Entry, db'[e] = db[e], e \in purgeTimer => e \in purgeTimer',
           ~HeadIs(GkEvent, db[e].mobile), ~PurgeHead(e)
    PROVE  EntryStep(e)
BY DEF OneEntry, EntryStep, KeepsUnresolved, Keeps, HeadIs, GkEvent

LEMMA AllKept ==
    ASSUME OneEntry, \A e \in Entry : KeepsUnresolved(e)
    PROVE  StepOK
BY DEF OneEntry, StepOK, MobilesApart, EntryStep, KeepsUnresolved, Keeps

\* One entry f changes, of the mobile that the message names: the others are aside.
LEMMA OneChanges ==
    ASSUME OneEntry, TypeOK, TypeOK', NEW f \in Entry, NEW v, db' = [db EXCEPT ![f] = v],
           \/ v.mobile \in {None, db[f].mobile}
           \/ \A e \in Entry : db[e].mobile # v.mobile,
           \A e \in Entry \ {f} : e \in purgeTimer => e \in purgeTimer',
           \/ Head(ludbQ).type \notin GkEvent
           \/ \A e \in Entry \ {f} : db[e].mobile # Head(ludbQ).who,
           \A e \in Entry \ {f} : ~PurgeHead(e),
           EntryStep(f)
    PROVE  StepOK
<1>1. MobilesApart /\ \A e \in Entry \ {f} : db'[e] = db[e]
  BY OneEntryChanges
<1>2. ASSUME NEW e \in Entry \ {f} PROVE EntryStep(e)
  <2>1. ~HeadIs(GkEvent, db[e].mobile)
    BY DEF HeadIs
  <2>2. QED
    BY <1>1, <2>1, Aside
<1>3. QED
  BY <1>1, <1>2 DEF StepOK

LEMMA MessageFact ==
    ASSUME NEW x \in LudbMessage
    PROVE  /\ x.type \in {"REG_REQ", "UNREG_REQ"} => x.who \in Mobile /\ x.mm \in MmId
           /\ x.type \in GkEvent => x.who \in Mobile
           /\ x.type \in {"VBREQ_TIMEOUT", "PURGE_TIMEOUT"} => x.of \in Entry
BY DEF LudbMessage, GkEvent

LEMMA HeadFact ==
    ASSUME LudbOK, ludbQ # <<>>
    PROVE  Head(ludbQ) \in LudbMessage
BY DEF LudbOK, TypeOK

LEMMA RegisterStep ==
    ASSUME LudbOK, TypeOK', NEW f \in Entry, NEW m \in Mobile, NEW id \in MmId,
           Register(f, m, id), Head(ludbQ).type = "REG_REQ",
           db[f].mobile = m \/ \A e \in Entry : db[e].mobile # m
    PROVE  StepOK
<1>1. Head(ludbQ).type \notin GkEvent /\ \A e \in Entry : ~PurgeHead(e)
  BY DEF GkEvent, PurgeHead
<1>2. m # None /\ id # None
  BY RegistrationAssumption DEF RegistrationAssumption
<1>3. CASE ~SendFails
  <2>1. PICK auth \in AuthModes :
           db' = [db EXCEPT ![f] = [mobile |-> m, mm |-> id, sec |-> @.sec,
                                    state |-> IF auth THEN "REGTHENSEC" ELSE "REGREQ"]]
    BY <1>3 DEF Register
  <2> DEFINE v == [mobile |-> m, mm |-> id, sec |-> db[f].sec,
                   state |-> IF auth THEN "REGTHENSEC" ELSE "REGREQ"]
  <2>2. db' = [db EXCEPT ![f] = v]
    BY <2>1 DEF LudbOK, TypeOK
  <2>3. v.mobile = m /\ v.mm = id /\ v.state \in {"REGREQ", "REGTHENSEC"}
    OBVIOUS
  <2> HIDE DEF v
  <2>4. db'[f] = v
    BY <2>2 DEF LudbOK, TypeOK
  <2>5. /\ purgeTimer' = purgeTimer \ {f}
        /\ SendsGk("RRQ", m)
    BY <1>2, <1>3 DEF Register, Send, SendFails, SendsGk, LudbOK, TypeOK
  <2>6. EntryStep(f)
    BY <1>2, <2>3, <2>4, <2>5 DEF EntryStep, Justified, Live
  <2>7. QED
    BY <1>1, <2>2, <2>3, <2>5, <2>6, OneChanges DEF LudbOK
<1>4. CASE SendFails
  <2>1. db' = [db EXCEPT ![f] = Unused] /\ purgeTimer' = purgeTimer \ {f}
    BY <1>4 DEF Register, Clear
  <2>2. Unused.mobile = None /\ Unused.state = "IDLE"
    BY DEF Unused
  <2>3. db'[f] = Unused
    BY <2>1 DEF LudbOK, TypeOK
  <2>4. EntryStep(f)
    BY <2>2, <2>3 DEF EntryStep, Justified, Live
  <2>5. QED
    BY <1>1, <2>1, <2>2, <2>4, OneChanges DEF LudbOK
<1>5. QED
  BY <1>3, <1>4

LEMMA ClearStep ==
    ASSUME LudbOK, TypeOK', NEW f \in Entry, Clear(f),
           \/ Head(ludbQ).type \notin GkEvent
           \/ db[f].mobile = Head(ludbQ).who /\ db[f].mobile # None,
           \A e \in Entry \ {f} : ~PurgeHead(e)
    PROVE  StepOK
<1>1. db' = [db EXCEPT ![f] = Unused] /\ purgeTimer' = purgeTimer \ {f}
  BY DEF Clear
<1>2. Unused.mobile = None /\ Unused.state = "IDLE"
  BY DEF Unused
<1>3. db'[f] = Unused
  BY <1>1 DEF LudbOK, TypeOK
<1>4. EntryStep(f)
  BY <1>2, <1>3 DEF EntryStep, Justified, Live
<1>5. \/ Head(ludbQ).type \notin GkEvent
      \/ \A e \in Entry \ {f} : db[e].mobile # Head(ludbQ).who
  BY DEF LudbOK, OneEntry
<1>6. QED
  BY <1>1, <1>2, <1>4, <1>5, OneChanges DEF LudbOK

\* Another state of entry f, which keeps its mobile.
LEMMA StateStep ==
    ASSUME LudbOK, TypeOK', NEW f \in Entry, NEW v, db' = [db EXCEPT ![f] = v],
           v.mobile = db[f].mobile,
           \A e \in Entry \ {f} : e \in purgeTimer => e \in purgeTimer',
           \/ Head(ludbQ).type \notin GkEvent
           \/ db[f].mobile = Head(ludbQ).who /\ db[f].mobile # None,
           \A e \in Entry \ {f} : ~PurgeHead(e),
           EntryStep(f)
    PROVE  StepOK
<1>1. \/ Head(ludbQ).type \notin GkEvent
      \/ \A e \in Entry \ {f} : db[e].mobile # Head(ludbQ).who
  BY DEF LudbOK, OneEntry
<1>2. QED
  BY <1>1, OneChanges DEF LudbOK

\* A message that no entry waits for, and that changes none.
LEMMA PlainKept ==
    ASSUME LudbOK, UNCHANGED <<db, purgeTimer>>, Head(ludbQ).type \notin GkEvent \cup {"PURGE_TIMEOUT"}
    PROVE  StepOK
<1>1. \A e \in Entry : KeepsUnresolved(e)
  BY DEF KeepsUnresolved, Keeps, HeadIs, PurgeHead, GkEvent
<1>2. QED
  BY <1>1, AllKept DEF LudbOK

LEMMA RegReqStep ==
    ASSUME LudbOK, TypeOK', LUDB_MM_RegReqProc
    PROVE  StepOK
<1> DEFINE m == Head(ludbQ).who
           id == Head(ludbQ).mm
<1>1. ludbQ # <<>> /\ Head(ludbQ).type = "REG_REQ"
  BY DEF LUDB_MM_RegReqProc, LudbTakes
<1>2. m \in Mobile /\ id \in MmId
  BY <1>1, HeadFact, MessageFact
<1>3. Head(ludbQ).type \notin GkEvent \cup {"PURGE_TIMEOUT"}
  BY <1>1 DEF GkEvent
<1>4. CASE EntryOf(m) = None /\ FreeEntry # None /\ Register(FreeEntry, m, id)
  BY <1>1, <1>2, <1>4, EntryOfFact, FreeEntryFact, RegisterStep
<1>5. CASE EntryOf(m) # None /\ Register(EntryOf(m), m, id)
  BY <1>1, <1>2, <1>5, EntryOfFact, RegisterStep
<1>6. CASE UNCHANGED <<ludbVars, gkQ>>
  BY <1>3, <1>6, PlainKept DEF ludbVars
<1>7. QED
  BY <1>4, <1>5, <1>6 DEF LUDB_MM_RegReqProc

LEMMA UnRegReqStep ==
    ASSUME LudbOK, TypeOK', LUDB_MM_UnRegReqProc
    PROVE  StepOK
<1> DEFINE m == Head(ludbQ).who
           f == EntryOf(m)
<1>1. ludbQ # <<>> /\ Head(ludbQ).type = "UNREG_REQ"
  BY DEF LUDB_MM_UnRegReqProc, LudbTakes
<1>2. Head(ludbQ).type \notin GkEvent \cup {"PURGE_TIMEOUT"}
  BY <1>1 DEF GkEvent
<1>3. CASE UNCHANGED ludbVars
  BY <1>2, <1>3, PlainKept DEF ludbVars
<1>4. CASE f # None /\ Deactivate(f)
  <2>1. f \in Entry
    BY <1>4, EntryOfFact
  <2>2. db' = [db EXCEPT ![f].state = "INACTIVE"] /\ purgeTimer' = purgeTimer \cup {f}
    BY <1>4 DEF Deactivate
  <2> DEFINE v == [db[f] EXCEPT !.state = "INACTIVE"]
  <2>3. db' = [db EXCEPT ![f] = v] /\ db'[f] = v
    BY <2>1, <2>2 DEF LudbOK, TypeOK
  <2>4. v.mobile = db[f].mobile /\ v.state = "INACTIVE"
    BY <2>1 DEF LudbOK, TypeOK, LudbEntry
  <2> HIDE DEF v, f
  <2>5. EntryStep(f)
    BY <2>2, <2>3, <2>4 DEF EntryStep, Justified, Live
  <2>6. \A e \in Entry : ~PurgeHead(e)
    BY <1>2 DEF PurgeHead
  <2>7. QED
    BY <1>2, <2>1, <2>2, <2>3, <2>4, <2>5, <2>6, StateStep
<1>5. QED
  BY <1>3, <1>4 DEF LUDB_MM_UnRegReqProc, UnRegRej

\* An answer of the GMC that changes no entry.
LEMMA AnswerKept ==
    ASSUME LudbOK, Head(ludbQ).type \in GkEvent \ {"UCF", "URJ", "URQ"},
           \A e \in Entry : Keeps(e),
           \A e \in Entry : db[e].mobile = Head(ludbQ).who =>
               /\ Head(ludbQ).type \in {"RRJ", "SPI"} => db[e].state \notin {"REGREQ", "REGTHENSEC"}
               /\ Head(ludbQ).type \in {"SRS", "SRS_ZERO"} => db[e].state # "SECINREG"
    PROVE  StepOK
<1>1. \A e \in Entry : KeepsUnresolved(e)
  BY DEF KeepsUnresolved, HeadIs, PurgeHead, GkEvent
<1>2. QED
  BY <1>1, AllKept DEF LudbOK

\* After a break of the link nothing is claimed of an entry that keeps its state.
LEMMA BrokenKept ==
    ASSUME LudbOK, UNCHANGED db, breaks # 0
    PROVE  StepOK
BY DEF LudbOK, OneEntry, StepOK, MobilesApart, EntryStep

\* The entry of the mobile that an answer names, and the entries that wait.
LEMMA NamedEntry ==
    ASSUME LudbOK, ludbQ # <<>>, Head(ludbQ).type \in GkEvent
    PROVE  /\ Head(ludbQ).who \in Mobile /\ Head(ludbQ).who # None
           /\ \A e \in Entry : db[e].mobile = Head(ludbQ).who => e = EntryOf(Head(ludbQ).who)
           /\ \A e \in Entry : ~PurgeHead(e)
           /\ \A e \in Entry : e # None
<1>1. Head(ludbQ).who \in Mobile /\ Head(ludbQ).who # None
  BY HeadFact, MessageFact, RegistrationAssumption DEF RegistrationAssumption
<1>2. ASSUME NEW e \in Entry, db[e].mobile = Head(ludbQ).who
      PROVE  e = EntryOf(Head(ludbQ).who)
  BY <1>1, <1>2, EntryOfFact DEF LudbOK, OneEntry
<1>3. \A e \in Entry : ~PurgeHead(e)
  BY DEF PurgeHead, GkEvent
<1>4. QED
  BY <1>1, <1>2, <1>3, RegistrationAssumption DEF RegistrationAssumption

LEMMA NobodyKept ==
    ASSUME LudbOK, ludbQ # <<>>, Head(ludbQ).type \in GkEvent,
           EntryOf(Head(ludbQ).who) = None, UNCHANGED <<db, purgeTimer>>
    PROVE  StepOK
<1>1. \A e \in Entry : db[e].mobile # Head(ludbQ).who
  BY EntryOfFact
<1>2. \A e \in Entry : ~HeadIs(GkEvent, db[e].mobile) /\ ~PurgeHead(e)
  BY <1>1, NamedEntry DEF HeadIs
<1>3. \A e \in Entry : EntryStep(e)
  BY <1>2, Aside DEF LudbOK
<1>4. QED
  BY <1>3 DEF StepOK, MobilesApart, LudbOK, OneEntry

\* A request that LUDB sends to the GMC while the link is up.
LEMMA SendReaches ==
    ASSUME LudbOK, breaks = 0, NEW type, NEW m \in Mobile, Send(type, m)
    PROVE  SendsGk(type, m)
BY RegistrationAssumption DEF RegistrationAssumption, LudbOK, Up, Send, SendsGk

LEMMA WaitingMm ==
    ASSUME LudbOK, breaks = 0, NEW e \in Entry, db[e].mobile # None,
           db[e].state \in {"REGREQ", "REGTHENSEC", "SECINREG"}
    PROVE  db[e].mm # None
BY DEF LudbOK, Pending, WaitsFor

LEMMA RcfStep ==
    ASSUME LudbOK, LUDB_VBLINK_RCFMsgProc
    PROVE  StepOK
<1>1. ludbQ # <<>> /\ Head(ludbQ).type = "RCF" /\ UNCHANGED <<db, purgeTimer>>
  BY DEF LUDB_VBLINK_RCFMsgProc, LudbTakes
<1>2. QED
  BY <1>1, AnswerKept DEF Keeps, GkEvent

LEMMA RrjStep ==
    ASSUME LudbOK, TypeOK', LUDB_VBLINK_RRJMsgProc
    PROVE  StepOK
<1> DEFINE f == EntryOf(Head(ludbQ).who)
<1>1. ludbQ # <<>> /\ Head(ludbQ).type = "RRJ"
  BY DEF LUDB_VBLINK_RRJMsgProc, LudbTakes
<1>2. Head(ludbQ).type \in GkEvent
  BY <1>1 DEF GkEvent
<1>3. CASE ~MmWaits(f) /\ UNCHANGED <<db, purgeTimer>>
  <2>1. CASE breaks # 0
    BY <1>3, <2>1, BrokenKept
  <2>2. CASE breaks = 0
    <3>1. ASSUME NEW e \in Entry, db[e].mobile = Head(ludbQ).who
          PROVE  db[e].state \notin {"REGREQ", "REGTHENSEC"}
      BY <1>1, <1>2, <1>3, <2>2, <3>1, NamedEntry, WaitingMm DEF MmWaits
    <3>2. QED
      BY <1>1, <1>2, <1>3, <3>1, AnswerKept DEF Keeps
  <2>3. QED
    BY <2>1, <2>2
<1>4. CASE MmWaits(f) /\ Clear(f)
  <2>1. f \in Entry /\ db[f].mobile = Head(ludbQ).who
    BY <1>4, EntryOfFact DEF MmWaits
  <2> HIDE DEF f
  <2>2. QED
    BY <1>1, <1>2, <1>4, <2>1, NamedEntry, ClearStep
<1>5. QED
  BY <1>3, <1>4 DEF LUDB_VBLINK_RRJMsgProc

LEMMA UnregisteredStep ==
    ASSUME LudbOK, TypeOK', LUDB_VBLINK_Unregistered
    PROVE  StepOK
<1> DEFINE f == EntryOf(Head(ludbQ).who)
<1>1. ludbQ # <<>> /\ Head(ludbQ).type \in {"UCF", "URJ", "URQ"}
  BY DEF LUDB_VBLINK_Unregistered, LudbTakes
<1>2. Head(ludbQ).type \in GkEvent
  BY <1>1 DEF GkEvent
<1>3. CASE f = None /\ UNCHANGED ludbVars
  BY <1>1, <1>2, <1>3, NobodyKept DEF ludbVars
<1>4. CASE f # None /\ Clear(f)
  <2>1. f \in Entry /\ db[f].mobile = Head(ludbQ).who
    BY <1>4, EntryOfFact
  <2> HIDE DEF f
  <2>2. QED
    BY <1>1, <1>2, <1>4, <2>1, NamedEntry, ClearStep
<1>5. QED
  BY <1>3, <1>4 DEF LUDB_VBLINK_Unregistered, Unregistered

LEMMA SpiStep ==
    ASSUME LudbOK, TypeOK', LUDB_VBLINK_SPIMsgProc
    PROVE  StepOK
<1>0. PICK m, f : m = Head(ludbQ).who /\ f = EntryOf(m)
  OBVIOUS
<1>1. ludbQ # <<>> /\ Head(ludbQ).type = "SPI"
  BY DEF LUDB_VBLINK_SPIMsgProc, LudbTakes
<1>2. Head(ludbQ).type \in GkEvent
  BY <1>1 DEF GkEvent
<1>3. m \in Mobile /\ m # None
  BY <1>0, <1>1, <1>2, NamedEntry
<1>4. CASE f = None /\ UNCHANGED ludbVars
  BY <1>0, <1>1, <1>2, <1>4, NobodyKept DEF ludbVars
<1>5. CASE /\ f = None /\ FreeEntry # None
           /\ db' = [db EXCEPT ![FreeEntry].mobile = m, ![FreeEntry].state = "ACTIVE"]
           /\ UNCHANGED purgeTimer
  <2>1. PICK g \in Entry : g = FreeEntry
    BY <1>5, FreeEntryFact
  <2> DEFINE v == [db[g] EXCEPT !.mobile = m, !.state = "ACTIVE"]
  <2>2. db' = [db EXCEPT ![g] = v] /\ db'[g] = v
    BY <1>5, <2>1 DEF LudbOK, TypeOK
  <2>3. v.mobile = m /\ v.state = "ACTIVE"
    BY <2>1 DEF LudbOK, TypeOK, LudbEntry
  <2> HIDE DEF v
  <2>4. EntryStep(g)
    BY <1>0, <1>1, <1>3, <2>2, <2>3 DEF EntryStep, Justified, Live, HeadIs
  <2>5. \A e \in Entry : db[e].mobile # m /\ ~PurgeHead(e)
    BY <1>0, <1>1, <1>2, <1>5, EntryOfFact, NamedEntry
  <2>6. /\ Head(ludbQ).who = m /\ \A e \in Entry : db[e].mobile # v.mobile
        /\ \A e \in Entry \ {g} : e \in purgeTimer => e \in purgeTimer'
    BY <1>0, <1>5, <2>3, <2>5
  <2>7. QED
    BY <2>1, <2>2, <2>4, <2>5, <2>6, OneChanges DEF LudbOK
<1>6. CASE /\ f # None
           /\ ~MmWaits(f) \/ db[f].state \notin {"REGREQ", "REGTHENSEC"}
           /\ UNCHANGED ludbVars
  <2>1. CASE breaks # 0
    BY <1>6, <2>1, BrokenKept DEF ludbVars
  <2>2. CASE breaks = 0
    <3>1. ASSUME NEW e \in Entry, db[e].mobile = Head(ludbQ).who
          PROVE  db[e].state \notin {"REGREQ", "REGTHENSEC"}
      BY <1>0, <1>1, <1>2, <1>6, <2>2, <3>1, NamedEntry, WaitingMm DEF MmWaits
    <3>2. QED
      BY <1>1, <1>2, <1>6, <3>1, AnswerKept DEF Keeps, ludbVars
  <2>3. QED
    BY <2>1, <2>2
<1>7. CASE MmWaits(f) /\ RegCnf(f, FALSE) /\ UNCHANGED purgeTimer
  <2>1. f \in Entry /\ db[f].mobile = m
    BY <1>0, <1>7, EntryOfFact DEF MmWaits
  <2> DEFINE v == [db[f] EXCEPT !.state = "ACTIVE"]
  <2>2. db' = [db EXCEPT ![f] = v] /\ db'[f] = v
    BY <1>7, <2>1 DEF LudbOK, TypeOK, RegCnf
  <2>3. v.mobile = m /\ v.state = "ACTIVE"
    BY <2>1 DEF LudbOK, TypeOK, LudbEntry
  <2> HIDE DEF v
  <2>4. EntryStep(f)
    BY <1>0, <1>1, <1>3, <2>2, <2>3 DEF EntryStep, Justified, Live, HeadIs
  <2>5. QED
    BY <1>0, <1>1, <1>2, <1>3, <1>7, <2>1, <2>2, <2>3, <2>4, NamedEntry, StateStep
<1>8. CASE /\ MmWaits(f) /\ Send("SRQ", m)
           /\ db' = [db EXCEPT ![f].state = "SECINREG"] /\ UNCHANGED purgeTimer
  <2>1. f \in Entry /\ db[f].mobile = m /\ db[f].mm # None
    BY <1>0, <1>8, EntryOfFact DEF MmWaits
  <2> DEFINE v == [db[f] EXCEPT !.state = "SECINREG"]
  <2>2. db' = [db EXCEPT ![f] = v] /\ db'[f] = v
    BY <1>8, <2>1 DEF LudbOK, TypeOK
  <2>3. v.mobile = m /\ v.state = "SECINREG" /\ v.mm # None
    BY <2>1 DEF LudbOK, TypeOK, LudbEntry
  <2> HIDE DEF v
  <2>4. breaks = 0 => SendsGk("SRQ", m)
    BY <1>3, <1>8, SendReaches
  <2>5. EntryStep(f)
    BY <1>0, <1>1, <1>3, <2>2, <2>3, <2>4 DEF EntryStep, Justified, Live, HeadIs
  <2>6. /\ \A e \in Entry \ {f} : ~PurgeHead(e)
        /\ \A e \in Entry \ {f} : e \in purgeTimer => e \in purgeTimer'
        /\ v.mobile = db[f].mobile /\ db[f].mobile = Head(ludbQ).who /\ db[f].mobile # None
    BY <1>0, <1>1, <1>2, <1>3, <1>8, <2>1, <2>3, NamedEntry
  <2>7. QED
    BY <2>1, <2>2, <2>5, <2>6, StateStep
<1>9. QED
  BY <1>0, <1>4, <1>5, <1>6, <1>7, <1>8 DEF LUDB_VBLINK_SPIMsgProc

LEMMA SrsStep ==
    ASSUME LudbOK, TypeOK', LUDB_VBLINK_SRSMsgProc
    PROVE  StepOK
<1>0. PICK m, f : m = Head(ludbQ).who /\ f = EntryOf(m)
  OBVIOUS
<1>1. ludbQ # <<>> /\ Head(ludbQ).type = "SRS" /\ UNCHANGED purgeTimer
  BY DEF LUDB_VBLINK_SRSMsgProc, LudbTakes
<1>2. Head(ludbQ).type \in GkEvent
  BY <1>1 DEF GkEvent
<1>3. m \in Mobile /\ m # None
  BY <1>0, <1>1, <1>2, NamedEntry
<1>4. CASE WaitsForKey(f) /\ db' = [db EXCEPT ![f].sec = TRUE, ![f].state = "ACTIVE"]
  <2>1. f \in Entry /\ db[f].mobile = m /\ db[f].state = "SECINREG"
    BY <1>0, <1>4, EntryOfFact DEF WaitsForKey, MmWaits
  <2> DEFINE v == [db[f] EXCEPT !.sec = TRUE, !.state = "ACTIVE"]
  <2>2. db' = [db EXCEPT ![f] = v] /\ db'[f] = v
    BY <1>4, <2>1 DEF LudbOK, TypeOK
  <2>3. v.mobile = m /\ v.state = "ACTIVE"
    BY <2>1 DEF LudbOK, TypeOK, LudbEntry
  <2> HIDE DEF v
  <2>4. EntryStep(f)
    BY <1>0, <1>1, <1>3, <2>1, <2>2, <2>3 DEF EntryStep, Justified, Live, HeadIs
  <2>5. /\ \A e \in Entry \ {f} : ~PurgeHead(e)
        /\ \A e \in Entry \ {f} : e \in purgeTimer => e \in purgeTimer'
        /\ v.mobile = db[f].mobile /\ db[f].mobile = Head(ludbQ).who /\ db[f].mobile # None
    BY <1>0, <1>1, <1>2, <1>3, <2>1, <2>3, NamedEntry
  <2>6. QED
    BY <2>1, <2>2, <2>4, <2>5, StateStep
<1>5. CASE ~WaitsForKey(f) /\ db' = [d \in Entry |-> [db[d] EXCEPT !.sec = @ \/ d = f]]
  <2>1. \A e \in Entry : /\ db'[e].mobile = db[e].mobile
                         /\ db'[e].state = db[e].state /\ db'[e].mm = db[e].mm
    BY <1>5 DEF LudbOK, TypeOK, LudbEntry
  <2>2. \A e \in Entry : Keeps(e)
    BY <1>1, <2>1 DEF Keeps
  <2>3. CASE breaks # 0
    <3>1. \A e \in Entry : EntryStep(e)
      BY <2>1, <2>3 DEF EntryStep, LudbOK, OneEntry
    <3>2. QED
      BY <2>1, <3>1 DEF StepOK, MobilesApart, LudbOK, OneEntry
  <2>4. CASE breaks = 0
    <3>1. ASSUME NEW e \in Entry, db[e].mobile = Head(ludbQ).who
          PROVE  db[e].state # "SECINREG"
      BY <1>0, <1>1, <1>2, <1>5, <2>4, <3>1, NamedEntry, WaitingMm DEF WaitsForKey, MmWaits
    <3>2. QED
      BY <1>1, <1>2, <2>2, <3>1, AnswerKept
  <2>5. QED
    BY <2>3, <2>4
<1>6. QED
  BY <1>0, <1>4, <1>5 DEF LUDB_VBLINK_SRSMsgProc

\* LUDB asks the GMC to give up the registration of the mobile of entry f.
LEMMA UnRegReqSentStep ==
    ASSUME LudbOK, TypeOK', NEW f \in Entry, NEW a, UnRegReq(f, a),
           db[f].mobile # None => a = db[f].mobile,
           \/ Head(ludbQ).type \notin GkEvent
           \/ db[f].mobile = Head(ludbQ).who /\ db[f].mobile # None,
           \A e \in Entry \ {f} : ~PurgeHead(e)
    PROVE  StepOK
<1> DEFINE v == [db[f] EXCEPT !.state = "UNREGREQ"]
<1>1. db' = [db EXCEPT ![f] = v] /\ db'[f] = v /\ UNCHANGED purgeTimer /\ Send("URQ", a)
  BY DEF UnRegReq, LudbOK, TypeOK
<1>2. v.mobile = db[f].mobile /\ v.state = "UNREGREQ" /\ db[f].mobile \in Mobile \cup {None}
  BY DEF LudbOK, TypeOK, LudbEntry
<1> HIDE DEF v
<1>3. breaks = 0 /\ db[f].mobile # None => SendsGk("URQ", db[f].mobile)
  BY <1>1, <1>2, SendReaches
<1>4. EntryStep(f)
  BY <1>1, <1>2, <1>3 DEF EntryStep, Justified, Live
<1>5. QED
  BY <1>1, <1>2, <1>4, StateStep

LEMMA SrsZeroStep ==
    ASSUME LudbOK, TypeOK', LUDB_VBLINK_SRSZero
    PROVE  StepOK
<1>0. PICK m, f : m = Head(ludbQ).who /\ f = EntryOf(m)
  OBVIOUS
<1>1. ludbQ # <<>> /\ Head(ludbQ).type = "SRS_ZERO"
  BY DEF LUDB_VBLINK_SRSZero, LudbTakes
<1>2. Head(ludbQ).type \in GkEvent
  BY <1>1 DEF GkEvent
<1>3. CASE ~WaitsForKey(f) /\ UNCHANGED <<db, purgeTimer>>
  <2>1. CASE breaks # 0
    BY <1>3, <2>1, BrokenKept
  <2>2. CASE breaks = 0
    <3>1. ASSUME NEW e \in Entry, db[e].mobile = Head(ludbQ).who
          PROVE  db[e].state # "SECINREG"
      BY <1>0, <1>1, <1>2, <1>3, <2>2, <3>1, NamedEntry, WaitingMm DEF WaitsForKey, MmWaits
    <3>2. QED
      BY <1>1, <1>2, <1>3, <3>1, AnswerKept DEF Keeps
  <2>3. QED
    BY <2>1, <2>2
<1>4. CASE WaitsForKey(f) /\ UnRegReq(f, db[f].mobile)
  <2>1. f \in Entry /\ db[f].mobile = m
    BY <1>0, <1>4, EntryOfFact DEF WaitsForKey, MmWaits
  <2>2. m # None /\ \A e \in Entry : ~PurgeHead(e)
    BY <1>0, <1>1, <1>2, NamedEntry
  <2>3. QED
    BY <1>0, <1>4, <2>1, <2>2, UnRegReqSentStep
<1>5. CASE SendFails /\ UNCHANGED <<db, purgeTimer>>
  <2>1. breaks # 0
    BY <1>5 DEF SendFails, LudbOK, Up
  <2>2. QED
    BY <1>5, <2>1, BrokenKept
<1>6. QED
  BY <1>0, <1>3, <1>4, <1>5 DEF LUDB_VBLINK_SRSZero

LEMMA TimeoutSteps ==
    ASSUME LudbOK, TypeOK', VBReqTimeout \/ PurgeTimeout
    PROVE  StepOK
<1> DEFINE f == Head(ludbQ).of
<1>1. /\ ludbQ # <<>> /\ Head(ludbQ).type \in {"VBREQ_TIMEOUT", "PURGE_TIMEOUT"}
      /\ Head(ludbQ).type \notin GkEvent
  BY DEF VBReqTimeout, PurgeTimeout, LudbTakes, GkEvent
<1>2. f \in Entry
  BY <1>1, HeadFact, MessageFact
<1>3. \A e \in Entry \ {f} : ~PurgeHead(e)
  BY DEF PurgeHead
<1>4. CASE VBReqTimeout
  <2>1. Clear(f)
    BY <1>4 DEF VBReqTimeout
  <2> HIDE DEF f
  <2>2. QED
    BY <1>1, <1>2, <1>3, <2>1, ClearStep
<1>5. ASSUME NEW a \in IF db[f].mobile # None THEN {db[f].mobile} ELSE Mobile \cup {None},
             UnRegReq(f, a)
      PROVE  StepOK
  <2>1. db[f].mobile # None => a = db[f].mobile
    OBVIOUS
  <2> HIDE DEF f
  <2>2. QED
    BY <1>1, <1>2, <1>3, <1>5, <2>1, UnRegReqSentStep
<1>6. CASE SendFails /\ UNCHANGED ludbVars
  <2>1. breaks # 0
    BY <1>6 DEF SendFails, LudbOK, Up
  <2>2. QED
    BY <1>6, <2>1, BrokenKept DEF ludbVars
<1>7. QED
  BY <1>4, <1>5, <1>6 DEF PurgeTimeout

LEMMA LudbTaskStep == ASSUME LudbOK, TypeOK', LudbTask PROVE StepOK
BY RegReqStep, UnRegReqStep, RcfStep, RrjStep, UnregisteredStep, SpiStep, SrsStep, SrsZeroStep,
   TimeoutSteps DEF LudbTask

\* The queues and the GMC in a step of LUDB.
LEMMA LudbQueues ==
    ASSUME LudbTask
    PROVE  /\ ludbQ # <<>> /\ ludbQ' = Tail(ludbQ) /\ UNCHANGED <<registered, linkVars>>
           /\ gkQ' = gkQ \/ \E x : gkQ' = Append(gkQ, x)
BY DEF LudbTask, LUDB_MM_RegReqProc, LUDB_MM_UnRegReqProc, LUDB_VBLINK_RCFMsgProc,
       LUDB_VBLINK_RRJMsgProc, LUDB_VBLINK_Unregistered, LUDB_VBLINK_SPIMsgProc,
       LUDB_VBLINK_SRSMsgProc, LUDB_VBLINK_SRSZero, VBReqTimeout, PurgeTimeout,
       LudbTakes, NotLudb, Register, Send, UnRegReq

\* What is in the queue behind the first message stays, and so do the requests.
LEMMA TakenKeeps ==
    ASSUME TypeOK, ludbQ # <<>>, ludbQ' = Tail(ludbQ), gkQ' = gkQ \/ \E x : gkQ' = Append(gkQ, x)
    PROVE  /\ \A types, m : InLudbQ(types, m) => InLudbQ(types, m)' \/ HeadIs(types, m)
           /\ \A e : PurgeQueued(e) => PurgeQueued(e)' \/ PurgeHead(e)
           /\ \A type, m : InGkQ(type, m) => InGkQ(type, m)'
           /\ \A type, m : SendsGk(type, m) => InGkQ(type, m)'
<1>1. \A j \in DOMAIN ludbQ : \/ ludbQ[j] = Head(ludbQ)
                              \/ j - 1 \in DOMAIN ludbQ' /\ ludbQ'[j - 1] = ludbQ[j]
  BY TailIndex DEF TypeOK
<1>2. ASSUME NEW types, NEW m, InLudbQ(types, m), ~HeadIs(types, m)
      PROVE  InLudbQ(types, m)'
  BY <1>1, <1>2 DEF InLudbQ, HeadIs
<1>3. ASSUME NEW e, PurgeQueued(e), ~PurgeHead(e)
      PROVE  PurgeQueued(e)'
  BY <1>1, <1>3 DEF PurgeQueued, PurgeHead
<1>4. gkQ \in Seq(GkRequest)
  BY DEF TypeOK
<1>5. ASSUME NEW type, NEW m, InGkQ(type, m)
      PROVE  InGkQ(type, m)'
  <2>1. \A j \in DOMAIN gkQ : j \in DOMAIN gkQ' /\ gkQ'[j] = gkQ[j]
    BY <1>4, AppendKeeps
  <2>2. QED
    BY <1>5, <2>1 DEF InGkQ
<1>6. ASSUME NEW type, NEW m, SendsGk(type, m)
      PROVE  InGkQ(type, m)'
  <2> DEFINE x == [type |-> type, who |-> m]
  <2>1. gkQ' = Append(gkQ, x) /\ x.type = type /\ x.who = m
    BY <1>6 DEF SendsGk
  <2> HIDE DEF x
  <2>2. \E j \in DOMAIN gkQ' : gkQ'[j] = x
    BY <1>4, <2>1, AppendKeeps
  <2>3. QED
    BY <2>1, <2>2 DEF InGkQ
<1>7. QED
  BY <1>2, <1>3, <1>5, <1>6

LEMMA LudbKeeps ==
    ASSUME LudbOK, TypeOK', LudbTask
    PROVE  LudbOK'
<1>1. StepOK
  BY LudbTaskStep
<1>2. /\ ludbQ # <<>> /\ ludbQ' = Tail(ludbQ) /\ UNCHANGED <<registered, linkVars>>
      /\ gkQ' = gkQ \/ \E x : gkQ' = Append(gkQ, x)
  BY LudbQueues
<1>3. /\ ludbQ \in Seq(LudbMessage)
      /\ db' \in [Entry -> LudbEntry]
  BY DEF LudbOK, TypeOK
<1>4. /\ \A j \in DOMAIN ludbQ : \/ ludbQ[j] = Head(ludbQ)
                                 \/ j - 1 \in DOMAIN ludbQ' /\ ludbQ'[j - 1] = ludbQ[j]
      /\ \A j \in DOMAIN ludbQ' : j + 1 \in DOMAIN ludbQ /\ ludbQ[j + 1] = ludbQ'[j]
      /\ \A j \in DOMAIN ludbQ : j \in Nat
      /\ \A j \in DOMAIN ludbQ' : j \in Nat
      /\ 1 \in DOMAIN ludbQ /\ ludbQ[1] = Head(ludbQ)
      /\ \A j \in DOMAIN ludbQ : j > 1 => j - 1 \in DOMAIN ludbQ' /\ ludbQ'[j - 1] = ludbQ[j]
  <2>1. \A j \in DOMAIN ludbQ' : j \in Nat
    <3>1. ludbQ' \in Seq(LudbMessage)
      BY DEF TypeOK
    <3>2. QED
      BY <3>1, LenProperties
  <2>2. QED
    BY <1>2, <1>3, <2>1, TailIndex
<1>5. OneEntry'
  BY <1>1 DEF StepOK, MobilesApart, EntryStep, OneEntry
<1>6. Up'
  BY <1>2 DEF LudbOK, Up, linkVars
<1>7. ASSUME breaks' = 0, NEW e \in Entry, db'[e].state \in Live
      PROVE  \/ db'[e].mobile \in registered'
             \/ \E j \in DOMAIN ludbQ' : Clears(ludbQ'[j], db'[e].mobile)
  <2>1. breaks = 0 /\ registered' = registered
    BY <1>2, <1>7 DEF linkVars
  \* the profile was the first message: what clears the entry comes behind it
  <2>2. CASE HeadIs({"SPI"}, db'[e].mobile)
    <3>1. \/ ludbQ[1].who \in registered
          \/ \E k \in DOMAIN ludbQ : k > 1 /\ Clears(ludbQ[k], ludbQ[1].who)
      BY <1>4, <2>1, <2>2 DEF LudbOK, ProfileCovered, HeadIs
    <3>2. QED
      BY <1>4, <2>1, <2>2, <3>1 DEF HeadIs
  <2>3. CASE /\ db[e].state \in Live
             /\ db'[e].mobile = db[e].mobile
             /\ ~HeadIs({"UCF", "URJ", "URQ"}, db[e].mobile)
    <3>1. \/ db[e].mobile \in registered
          \/ \E j \in DOMAIN ludbQ : Clears(ludbQ[j], db[e].mobile)
      BY <2>1, <2>3 DEF LudbOK, LiveCovered
    <3>2. ~Clears(Head(ludbQ), db[e].mobile)
      BY <2>3 DEF Clears, HeadIs
    <3>3. QED
      BY <1>4, <2>1, <2>3, <3>1, <3>2
  <2>4. QED
    BY <1>1, <1>7, <2>1, <2>2, <2>3
       DEF StepOK, EntryStep, KeepsUnresolved, Keeps, Justified
<1>8. LiveCovered'
  BY <1>7 DEF LiveCovered
<1>9. ProfileCovered'
  <2> SUFFICES ASSUME breaks' = 0, NEW j \in DOMAIN ludbQ', ludbQ'[j].type = "SPI",
                      ludbQ'[j].who \notin registered'
               PROVE  \E k \in DOMAIN ludbQ' : k > j /\ Clears(ludbQ'[k], ludbQ'[j].who)
    BY DEF ProfileCovered
  <2>1. j + 1 \in DOMAIN ludbQ /\ ludbQ[j + 1] = ludbQ'[j] /\ j \in Nat
    BY <1>4
  <2>2. breaks = 0 /\ registered' = registered
    BY <1>2 DEF linkVars
  <2>3. PICK k \in DOMAIN ludbQ : k > j + 1 /\ Clears(ludbQ[k], ludbQ[j + 1].who)
    BY <2>1, <2>2 DEF LudbOK, ProfileCovered
  <2>4. k \in Nat /\ k > 1 /\ k - 1 > j
    BY <1>4, <2>1, <2>3
  <2>5. k - 1 \in DOMAIN ludbQ' /\ ludbQ'[k - 1] = ludbQ[k]
    BY <1>4, <2>4
  <2>6. QED
    BY <2>1, <2>3, <2>4, <2>5
<1>10. Pending'
  <2> SUFFICES ASSUME breaks' = 0, NEW e \in Entry, db'[e].mobile # None
               PROVE  WaitsFor(e, db[e].mobile)'
    BY DEF Pending
  <2>0. PICK a : a = db'[e].mobile
    OBVIOUS
  <2>1. breaks = 0 /\ EntryStep(e)
    BY <1>1, <1>2 DEF linkVars, StepOK
  <2>2. /\ \A types : InLudbQ(types, a) => InLudbQ(types, a)' \/ HeadIs(types, a)
        /\ PurgeQueued(e) => PurgeQueued(e)' \/ PurgeHead(e)
        /\ \A type : InGkQ(type, a) => InGkQ(type, a)'
        /\ \A type : SendsGk(type, a) => InGkQ(type, a)'
    BY <1>2, TakenKeeps DEF LudbOK
  <2>3. CASE KeepsUnresolved(e)
    <3>1. /\ db[e].mobile = a /\ db'[e].state = db[e].state /\ db'[e].mm = db[e].mm
          /\ e \in purgeTimer => e \in purgeTimer'
      BY <2>0, <2>3 DEF KeepsUnresolved, Keeps
    <3>2. WaitsFor(e, a)
      BY <2>0, <2>1, <3>1 DEF LudbOK, Pending
    <3>3. /\ ~HeadIs({"UCF", "URJ", "URQ"}, a)
          /\ db[e].state \in {"REGREQ", "REGTHENSEC"} => ~HeadIs({"RRJ", "SPI"}, a)
          /\ db[e].state = "SECINREG" => ~HeadIs({"SRS", "SRS_ZERO"}, a)
          /\ ~PurgeHead(e)
      BY <2>3, <3>1 DEF KeepsUnresolved
    <3>4. WaitsFor(e, a)'
      BY <2>2, <3>1, <3>2, <3>3 DEF WaitsFor
    <3>5. QED
      BY <2>0, <3>4 DEF WaitsFor
  <2>4. CASE Justified(e)
    <3>1. WaitsFor(e, a)'
      BY <2>0, <2>2, <2>4 DEF Justified, WaitsFor
    <3>2. QED
      BY <2>0, <3>1 DEF WaitsFor
  <2>5. QED
    BY <2>1, <2>3, <2>4 DEF EntryStep
<1>11. QED
  BY <1>5, <1>6, <1>8, <1>9, <1>10 DEF LudbOK

LEMMA LudbOKInit == ASSUME Init PROVE LudbOK
<1>1. TypeOK
  BY TypeInit
<1>2. /\ \A e \in Entry : db[e].mobile = None /\ db[e].state = "IDLE"
      /\ ludbQ = <<>> /\ DOMAIN ludbQ = {} /\ link = "up"
  BY DEF Init, Unused
<1>3. QED
  BY <1>1, <1>2 DEF LudbOK, OneEntry, Up, LiveCovered, ProfileCovered, Pending, Live

LEMMA LudbOKStep ==
    ASSUME LudbOK, TypeOK', [Next]_vars
    PROVE  LudbOK'
<1>1. CASE MmTask
  BY <1>1, MmLeavesLudb, GrownByOne
<1>2. CASE UNCHANGED vars
  BY <1>2, GrownByOne DEF vars, ludbVars, gkVars, linkVars
<1>3. QED
  BY <1>1, <1>2, LudbKeeps, EnvironmentLudbStep DEF Next

LEMMA LudbAlwaysOK == Spec => []LudbOK
<1>1. Init => LudbOK
  BY LudbOKInit
<1>2. LudbOK /\ TypeOK' /\ [Next]_vars => LudbOK'
  BY LudbOKStep
<1>3. QED
  BY <1>1, <1>2, TypeCorrect, PTL DEF Spec

-----------------------------------------------------------------------------
(* Theorems.                                                                 *)

\* Whatever updates, detaches, purges and unregistrations by the GMC cross, a mobile
\* that LUDB takes for active once nothing is under way is registered at the GMC.
THEOREM RegistrationsAgree == Spec => []ActiveRegistered
<1>1. LudbOK => ActiveRegistered
  BY LudbOKImplies
<1>2. QED
  BY <1>1, LudbAlwaysOK, PTL

\* Without a break of the link no entry of LUDB is left waiting for something that
\* does not come, and none is left inactive without the watchdog that ends it.
THEOREM EntriesGuarded == Spec => []Guarded
<1>1. LudbOK => Guarded
  BY LudbOKImplies
<1>2. QED
  BY <1>1, LudbAlwaysOK, PTL
=============================================================================
