---------------------------- MODULE Registration ----------------------------
(* Location update and detach: mobility management (mm/src), the user        *)
(* database (jcc/src, LUDB) and the registration of mobiles at the GMC, the  *)
(* gatekeeper behind VBLink (voip/src/vblink.cpp).  Two tasks with a queue   *)
(* each, the watchdogs of their entries, and entries that are used again     *)
(* while messages that name them are under way.  Of the procedures of MM     *)
(* only MM_PROC_LUDB is modelled: no calls, no security request of a call,   *)
(* no emergency call, no handover, no update initiated by the Gs interface.  *)
(* External, from how mm and jcc use them: rm and the mobiles (a channel is  *)
(* granted, used and released) and the GMC (answers requests in order).      *)
EXTENDS Naturals, Sequences, FiniteSets

CONSTANTS
    Mobile,    \* the mobiles, each with its IMSI
    Chan,      \* dedicated channels, T_CNI_IRT_ID
    MmId,      \* indices of mmEntries
    Entry,     \* indices of the entries of LUDB
    None,      \* no mobile, channel or entry
    AuthModes, \* the values of ludb_auth_required: more than one, and it changes
    MaxBreaks, \* bound: breaks of the link to the GMC
    MaxGrants, \* bound: channels granted to mobiles
    LudbQMax,  \* bounds: messages in a queue when mobiles, rm, the GMC or a
    MmQMax     \* watchdog add to it

ASSUME RegistrationAssumption ==
    /\ MmId \subseteq Nat /\ Entry \subseteq Nat
    /\ None \notin Mobile \cup Chan \cup MmId \cup Entry
    /\ AuthModes \subseteq BOOLEAN
    /\ MaxBreaks \in Nat /\ MaxGrants \in Nat /\ LudbQMax \in Nat /\ MmQMax \in Nat

LudbState == {"IDLE", "REGREQ", "REGTHENSEC", "SECINREG", "ACTIVE", "UNREGREQ", "INACTIVE"}
MmState == {"FREE", "START", "WAIT4REG", "AUTH_LOCUP", "WAIT4UNREG", "CALL"}

GkEvent == {"RCF", "RRJ", "UCF", "URJ", "SPI", "SRS", "SRS_ZERO", "URQ"}
LudbMessage ==
    [type: {"REG_REQ", "UNREG_REQ"}, who: Mobile, mm: MmId]
      \cup [type: GkEvent, who: Mobile]
      \cup [type: {"VBREQ_TIMEOUT", "PURGE_TIMEOUT"}, of: Entry]
MmMessage ==
    [type: {"LU_IMSI", "LU_TMSI", "LU_OTHER", "DETACH", "IDENT_IMSI", "IDENT_OTHER"},
     on: Chan, who: Mobile]
      \cup [type: {"AUTH_RSP", "REL_IND"}, on: Chan]
      \cup [type: {"REG_CNF"}, mm: MmId, ludb: Entry, force: BOOLEAN]
      \cup [type: {"REG_REJ", "UNREG_REJ"}, mm: MmId \cup {None}]
      \cup [type: {"REL_REQ", "UNREG_CNF", "TIMEOUT"}, mm: MmId]
GkRequest == [type: {"RRQ", "URQ", "SRQ"}, who: Mobile]

LudbEntry == [mobile: Mobile \cup {None}, state: LudbState, mm: MmId \cup {None}, sec: BOOLEAN]
MmEntry ==
    [state: MmState, who: Mobile \cup {None}, chan: Chan \cup {None},
     mmId2: MmId \cup {None}, ludb: Entry \cup {None}]

\* What the mobile on a channel does: "idle" before its first message, "wait" for an
\* answer, asked for its "ident" or "auth", "done".
Phase == {"idle", "wait", "ident", "auth", "done"}

VARIABLES
    \* LUDB
    db,          \* [Entry -> LudbEntry], free when mobile is None
    vbTimer,     \* entries whose VBReqTimer runs
    purgeTimer,  \* entries whose PurgeTimer runs
    ludbQ,       \* ludbMsgQId
    \* MM
    mm,          \* [MmId -> MmEntry], mmEntries
    irt,         \* [Chan -> MmId or None], the MM column of the IRT table
    mmTimer,     \* entries whose identTimer or authTimer runs
    mmQ,         \* mmMsgQId
    \* rm and the mobiles
    user,        \* [Chan -> the mobile on the channel or None]
    phase,       \* [Chan -> Phase]
    grants,      \* how often a channel has been granted
    relReq,      \* channels that rm has been asked to release
    \* GMC
    gkQ,         \* requests it has not taken
    registered,  \* the mobiles registered there
    link,        \* "up" or "down", when sends fail
    breaks       \* how often the link has broken

ludbVars == <<db, vbTimer, purgeTimer>>
mmVars == <<mm, irt, mmTimer>>
chanVars == <<user, phase, grants>>
gkVars == <<gkQ, registered>>
linkVars == <<link, breaks>>
vars == <<ludbVars, ludbQ, mmVars, mmQ, chanVars, relReq, gkVars, linkVars>>

Unused == [mobile |-> None, state |-> "IDLE", mm |-> None, sec |-> FALSE]
FreeMm == [state |-> "FREE", who |-> None, chan |-> None, mmId2 |-> None, ludb |-> None]

TypeOK ==
    /\ db \in [Entry -> LudbEntry]
    /\ vbTimer \subseteq Entry
    /\ purgeTimer \subseteq Entry
    /\ ludbQ \in Seq(LudbMessage)
    /\ mm \in [MmId -> MmEntry]
    /\ irt \in [Chan -> MmId \cup {None}]
    /\ mmTimer \subseteq MmId
    /\ mmQ \in Seq(MmMessage)
    /\ user \in [Chan -> Mobile \cup {None}]
    /\ phase \in [Chan -> Phase]
    /\ grants \in 0 .. MaxGrants
    /\ relReq \subseteq Chan
    /\ gkQ \in Seq(GkRequest)
    /\ registered \subseteq Mobile
    /\ link \in {"up", "down"}
    /\ breaks \in 0 .. MaxBreaks

\* Some entries of MM may be taken for good by calls, which are not modelled.
Init ==
    /\ db = [e \in Entry |-> Unused]
    /\ vbTimer = {}
    /\ purgeTimer = {}
    /\ ludbQ = <<>>
    /\ \E calls \in SUBSET MmId :
          mm = [i \in MmId |-> IF i \in calls THEN [FreeMm EXCEPT !.state = "CALL"] ELSE FreeMm]
    /\ irt = [c \in Chan |-> None]
    /\ mmTimer = {}
    /\ mmQ = <<>>
    /\ user = [c \in Chan |-> None]
    /\ phase = [c \in Chan |-> "idle"]
    /\ grants = 0
    /\ relReq = {}
    /\ gkQ = <<>>
    /\ registered = {}
    /\ link = "up"
    /\ breaks = 0

-----------------------------------------------------------------------------
(* LUDB: helpers.                                                            *)

Lowest(S) ==
    IF \E i \in S : \A j \in S : i <= j
    THEN CHOOSE i \in S : \A j \in S : i <= j
    ELSE None

\* LUDB::getEntry: the hash table over the IMSI.
EntryOf(m) ==
    IF \E e \in Entry : db[e].mobile = m THEN CHOOSE e \in Entry : db[e].mobile = m ELSE None

\* LUDB::entryAlloc
FreeEntry == Lowest({e \in Entry : db[e].mobile = None})

\* Somebody in MM waits for what becomes of the entry, as far as LUDB knows.
MmWaits(e) == e # None /\ db[e].mm # None
WaitsForKey(e) == MmWaits(e) /\ db[e].state = "SECINREG"

LudbTakes(type) ==
    /\ ludbQ # <<>>
    /\ Head(ludbQ).type = type
    /\ ludbQ' = Tail(ludbQ)

\* The message of LUDB to MM: it names the entry of MM and not its use.
ToMm(type, id) == mmQ' = Append(mmQ, [type |-> type, mm |-> id])

\* sendMobileRegCnfToMM
RegCnf(e, force) ==
    /\ db' = [db EXCEPT ![e].state = "ACTIVE"]
    /\ mmQ' = Append(mmQ, [type |-> "REG_CNF", mm |-> db[e].mm, ludb |-> e, force |-> force])

\* ludbEntryInit: both watchdogs are stopped as well.
Clear(e) ==
    /\ db' = [db EXCEPT ![e] = Unused]
    /\ vbTimer' = vbTimer \ {e}
    /\ purgeTimer' = purgeTimer \ {e}

\* send() on the socket of VBLink.  It fails when the socket is closed.
SendFails == link = "down"
Send(type, m) ==
    gkQ' = IF link = "up" /\ m # None THEN Append(gkQ, [type |-> type, who |-> m]) ELSE gkQ

\* sendMobileUnRegReq
UnRegReq(e, m) ==
    /\ ~SendFails
    /\ Send("URQ", m)
    /\ db' = [db EXCEPT ![e].state = "UNREGREQ"]
    /\ vbTimer' = vbTimer \cup {e}
    /\ UNCHANGED purgeTimer

NotLudb == <<mmVars, chanVars, relReq, registered, linkVars>>

-----------------------------------------------------------------------------
(* LUDB: messages of MM.                                                     *)

\* sendMobileRegReq, and what LUDB_MM_RegReqProc does when it fails
Register(e, m, id) ==
    \/ /\ ~SendFails
       /\ \E auth \in AuthModes :
             db' = [db EXCEPT ![e] = [mobile |-> m, mm |-> id, sec |-> @.sec,
                                      state |-> IF auth THEN "REGTHENSEC" ELSE "REGREQ"]]
       /\ vbTimer' = vbTimer \cup {e}
       /\ purgeTimer' = purgeTimer \ {e}
       /\ Send("RRQ", m)
       /\ UNCHANGED mmQ
    \/ /\ SendFails
       /\ Clear(e)
       /\ ToMm("REG_REJ", id)
       /\ UNCHANGED gkQ

LUDB_MM_RegReqProc ==
    /\ LudbTakes("REG_REQ")
    /\ LET m == Head(ludbQ).who
           id == Head(ludbQ).mm
           e == EntryOf(m)
       IN  \/ /\ e = None
              /\ FreeEntry # None
              /\ Register(FreeEntry, m, id)
           \/ /\ e = None
              /\ FreeEntry = None
              /\ ToMm("REG_REJ", id)
              /\ UNCHANGED <<ludbVars, gkQ>>
           \/ /\ e # None
              /\ db[e].state \in {"ACTIVE", "UNREGREQ", "INACTIVE"}
              /\ Register(e, m, id)
           \/ /\ e # None
              /\ db[e].state \in {"REGREQ", "REGTHENSEC", "SECINREG"}
              /\ ToMm("REL_REQ", id)
              /\ UNCHANGED <<ludbVars, gkQ>>
    /\ UNCHANGED NotLudb

\* The profile is kept for a while.
DeactivateForGood(e) ==
    /\ db' = [db EXCEPT ![e].state = "INACTIVE"]
    /\ UNCHANGED <<vbTimer, purgeTimer>>
Deactivate(e) ==
    /\ purgeTimer' = purgeTimer \cup {e}
    /\ db' = [db EXCEPT ![e].state = "INACTIVE"]
    /\ UNCHANGED vbTimer

UnRegRejForgotten(id) == UNCHANGED <<mmQ, ludbVars>>
UnRegRej(id) ==
    /\ ToMm("UNREG_REJ", id)
    /\ UNCHANGED ludbVars

LUDB_MM_UnRegReqProc ==
    /\ LudbTakes("UNREG_REQ")
    /\ LET id == Head(ludbQ).mm
           e == EntryOf(Head(ludbQ).who)
       IN  \/ /\ e = None
              /\ UnRegRej(id)
           \/ /\ e # None
              /\ db[e].state \in {"UNREGREQ", "INACTIVE"}
              /\ UnRegRej(id)
           \/ /\ e # None
              /\ db[e].state \notin {"UNREGREQ", "INACTIVE"}
              /\ Deactivate(e)
              /\ ToMm("UNREG_CNF", id)
    /\ UNCHANGED <<NotLudb, gkQ>>

-----------------------------------------------------------------------------
(* LUDB: messages of VBLink.                                                 *)

LUDB_VBLINK_RCFMsgProc ==
    /\ LudbTakes("RCF")
    /\ vbTimer' = vbTimer \ {EntryOf(Head(ludbQ).who)}
    /\ UNCHANGED <<db, purgeTimer, gkQ, mmQ, NotLudb>>

LUDB_VBLINK_RRJMsgProc ==
    /\ LudbTakes("RRJ")
    /\ LET e == EntryOf(Head(ludbQ).who)
       IN  \/ /\ ~MmWaits(e)
              /\ vbTimer' = vbTimer \ {e}
              /\ UNCHANGED <<db, purgeTimer, mmQ>>
           \/ /\ MmWaits(e)
              /\ ToMm("REG_REJ", db[e].mm)
              /\ Clear(e)
    /\ UNCHANGED <<gkQ, NotLudb>>

\* What LUDB_VBLINK_UCFMsgProc, LUDB_VBLINK_URJMsgProc and LUDB_VBLINK_URQMsgProc
\* do with the entry.
UnregisteredExceptByGmc(type, e) ==
    /\ IF type = "URQ" THEN UNCHANGED ludbVars ELSE Clear(e)
    /\ IF type = "URJ" THEN ToMm("UNREG_REJ", db[e].mm) ELSE UNCHANGED mmQ
Unregistered(type, e) ==
    /\ Clear(e)
    /\ IF type = "URJ" THEN ToMm("UNREG_REJ", db[e].mm) ELSE UNCHANGED mmQ

LUDB_VBLINK_Unregistered ==
    /\ \E type \in {"UCF", "URJ", "URQ"} :
          /\ LudbTakes(type)
          /\ LET e == EntryOf(Head(ludbQ).who)
             IN  \/ e = None /\ UNCHANGED <<ludbVars, mmQ>>
                 \/ e # None /\ Unregistered(type, e)
    /\ UNCHANGED <<gkQ, NotLudb>>

\* LUDB_VBLINK_SPIMsgProc: the profile, which ends the registration.
LUDB_VBLINK_SPIMsgProc ==
    /\ LudbTakes("SPI")
    /\ LET m == Head(ludbQ).who
           e == EntryOf(m)
       IN  \/ /\ e = None
              /\ FreeEntry = None
              /\ UNCHANGED <<ludbVars, gkQ, mmQ>>
           \/ /\ e = None       \* nobody in MM waits for it
              /\ FreeEntry # None
              /\ db' = [db EXCEPT ![FreeEntry].mobile = m, ![FreeEntry].state = "ACTIVE"]
              /\ vbTimer' = vbTimer \ {FreeEntry}
              /\ UNCHANGED <<purgeTimer, gkQ, mmQ>>
           \/ /\ e # None
              /\ ~MmWaits(e) \/ db[e].state \notin {"REGREQ", "REGTHENSEC"}
              /\ UNCHANGED <<ludbVars, gkQ, mmQ>>
           \/ /\ MmWaits(e)
              /\ \/ db[e].state = "REGREQ"
                 \/ db[e].state = "REGTHENSEC" /\ db[e].sec     \* the key is used again
              /\ RegCnf(e, FALSE)
              /\ UNCHANGED <<vbTimer, purgeTimer, gkQ>>
           \/ /\ MmWaits(e)  \* a new key; VBLinkSecurityRequest never says that it failed
              /\ db[e].state = "REGTHENSEC"
              /\ Send("SRQ", m)
              /\ db' = [db EXCEPT ![e].state = "SECINREG"]
              /\ vbTimer' = vbTimer \cup {e}
              /\ UNCHANGED <<purgeTimer, mmQ>>
    /\ UNCHANGED NotLudb

LUDB_VBLINK_SRSMsgProc ==
    /\ LudbTakes("SRS")
    /\ LET e == EntryOf(Head(ludbQ).who)
       IN  /\ vbTimer' = vbTimer \ {e}
           /\ \/ /\ WaitsForKey(e)
                 /\ db' = [db EXCEPT ![e].sec = TRUE, ![e].state = "ACTIVE"]
                 /\ mmQ' = Append(mmQ, [type |-> "REG_CNF", mm |-> db[e].mm,
                                        ludb |-> e, force |-> TRUE])
              \/ /\ ~WaitsForKey(e)
                 /\ db' = [d \in Entry |-> [db[d] EXCEPT !.sec = @ \/ d = e]]
                 /\ UNCHANGED mmQ
    /\ UNCHANGED <<purgeTimer, gkQ, NotLudb>>

\* LUDB_VBLINK_SRSMsgProc, when the GMC has no key: the mobile is unregistered.
LUDB_VBLINK_SRSZero ==
    /\ LudbTakes("SRS_ZERO")
    /\ LET e == EntryOf(Head(ludbQ).who)
       IN  \/ /\ ~WaitsForKey(e)
              /\ vbTimer' = vbTimer \ {e}
              /\ UNCHANGED <<db, purgeTimer, gkQ, mmQ>>
           \/ /\ WaitsForKey(e)
              /\ ToMm("REG_REJ", db[e].mm)
              /\ \/ UnRegReq(e, db[e].mobile)
                 \/ /\ SendFails
                    /\ vbTimer' = vbTimer \ {e}
                    /\ UNCHANGED <<db, purgeTimer, gkQ>>
    /\ UNCHANGED NotLudb

-----------------------------------------------------------------------------
(* LUDB: watchdogs.                                                          *)

VBReqTimerExpires(e) ==
    /\ e \in vbTimer
    /\ Len(ludbQ) < LudbQMax
    /\ vbTimer' = vbTimer \ {e}
    /\ ludbQ' = Append(ludbQ, [type |-> "VBREQ_TIMEOUT", of |-> e])
    /\ UNCHANGED <<db, purgeTimer, gkQ, mmQ, NotLudb>>

PurgeTimerExpires(e) ==
    /\ e \in purgeTimer
    /\ Len(ludbQ) < LudbQMax
    /\ purgeTimer' = purgeTimer \ {e}
    /\ ludbQ' = Append(ludbQ, [type |-> "PURGE_TIMEOUT", of |-> e])
    /\ UNCHANGED <<db, vbTimer, gkQ, mmQ, NotLudb>>

\* LudbTimerMsgProc, LUDB_VBREQ_TIMEOUT: of whatever the entry is used for by now.
VBReqTimeout ==
    /\ LudbTakes("VBREQ_TIMEOUT")
    /\ LET e == Head(ludbQ).of
       IN  /\ ToMm("REG_REJ", db[e].mm)
           /\ Clear(e)
    /\ UNCHANGED <<gkQ, NotLudb>>

\* LudbTimerMsgProc, LUDB_PURGE_TIMEOUT.  Of an entry that is free by now
\* LUDB::getMobileId returns an identity it has not set.
PurgeTimeout ==
    /\ LudbTakes("PURGE_TIMEOUT")
    /\ LET e == Head(ludbQ).of
       IN  \/ \E m \in IF db[e].mobile # None THEN {db[e].mobile} ELSE Mobile \cup {None} :
                 UnRegReq(e, m)
           \/ SendFails /\ UNCHANGED <<ludbVars, gkQ>>
    /\ UNCHANGED <<mmQ, NotLudb>>

-----------------------------------------------------------------------------
(* MM: helpers.                                                              *)

MmTakes(type) ==
    /\ mmQ # <<>>
    /\ Head(mmQ).type = type
    /\ mmQ' = Tail(mmQ)

ToLudb(type, m, id) == ludbQ' = Append(ludbQ, [type |-> type, who |-> m, mm |-> id])

\* sendIntRRMsg(entryId, INTRA_L3_RR_REL_REQ): it names the channel and not its user.
RelReq(c) == relReq' = relReq \cup ({c} \ {None})

\* MM's entryAlloc
FreeMmIdPastEnd == Lowest({i \in MmId : mm[i].state = "FREE"} \cup {Cardinality(MmId)})
FreeMmId == Lowest({i \in MmId : mm[i].state = "FREE"})

InState(i, state) == i # None /\ mm[i].state = state

\* checkExistingEntry
MmIdOn(c) == Lowest({i \in MmId : mm[i].chan = c})

\* entryDealloc of some entries: entryInit
DeallocKeepsIrt(S) ==
    /\ mm' = [i \in MmId |-> IF i \in S THEN FreeMm ELSE mm[i]]
    /\ mmTimer' = mmTimer \ S
    /\ UNCHANGED irt
Dealloc(S) ==
    /\ mm' = [i \in MmId |-> IF i \in S THEN FreeMm ELSE mm[i]]
    /\ mmTimer' = mmTimer \ S
    /\ irt' = [c \in Chan |-> IF \E i \in S \cap MmId : mm[i].chan = c THEN None ELSE irt[c]]

\* What the mobile on the channel does when MM sends it something.
Told(c, what) == phase' = IF c # None /\ user[c] # None THEN [phase EXCEPT ![c] = what] ELSE phase

\* sendLocationUpdateAccept or sendLocationUpdateReject, and entryDealloc
Finish(i) ==
    /\ Told(mm[i].chan, "done")
    /\ RelReq(mm[i].chan)
    /\ Dealloc({i})

\* The channel goes, the mobile is told nothing.
Drop(i) ==
    /\ RelReq(mm[i].chan)
    /\ Dealloc({i})

Ignored == UNCHANGED <<mmVars, phase, relReq, ludbQ>>

NotMm == <<ludbVars, user, grants, gkVars, linkVars>>

-----------------------------------------------------------------------------
(* MM: messages of the mobiles, MMMdMsgProc.cpp.                             *)

\* sendMobileRegister
SendRegister(i, entry) ==
    /\ mm' = [mm EXCEPT ![i] = [entry EXCEPT !.state = "WAIT4REG", !.mmId2 = None]]
    /\ ToLudb("REG_REQ", entry.who, i)

MM_MD_LocUpdateReqProc ==
    /\ \E type \in {"LU_IMSI", "LU_TMSI", "LU_OTHER"} :
          /\ MmTakes(type)
          /\ LET c == Head(mmQ).on
                 i == FreeMmId
                 entry == [FreeMm EXCEPT !.state = "START", !.chan = c, !.who = Head(mmQ).who]
             IN  \/ /\ i = None
                    /\ RelReq(c)
                    /\ UNCHANGED <<mmVars, phase, ludbQ>>
                 \/ /\ i # None
                    /\ irt' = [irt EXCEPT ![c] = i]
                    /\ \/ /\ type = "LU_IMSI"
                          /\ SendRegister(i, entry)
                          /\ UNCHANGED <<mmTimer, phase>>
                       \/ /\ type = "LU_TMSI"        \* sendIdentityRequest
                          /\ mm' = [mm EXCEPT ![i] = entry]
                          /\ mmTimer' = mmTimer \cup {i}
                          /\ Told(c, "ident")
                          /\ UNCHANGED ludbQ
                       \/ /\ type = "LU_OTHER"
                          /\ mm' = [mm EXCEPT ![i] = entry]
                          /\ UNCHANGED <<mmTimer, phase, ludbQ>>
                    /\ UNCHANGED relReq
    /\ UNCHANGED NotMm

MM_MD_IdentityRespProc ==
    /\ \E type \in {"IDENT_IMSI", "IDENT_OTHER"} :
          /\ MmTakes(type)
          /\ LET c == Head(mmQ).on
                 i == irt[c]
             IN  \/ /\ i = None
                    /\ RelReq(c)
                    /\ UNCHANGED <<mmVars, ludbQ>>
                 \/ /\ i # None
                    /\ type = "IDENT_IMSI"
                    /\ SendRegister(i, [mm[i] EXCEPT !.who = Head(mmQ).who])
                    /\ mmTimer' = mmTimer \ {i}
                    /\ UNCHANGED <<irt, relReq>>
                 \/ /\ i # None
                    /\ type = "IDENT_OTHER"
                    /\ RelReq(c)
                    /\ Dealloc({i})
                    /\ UNCHANGED ludbQ
    /\ UNCHANGED <<NotMm, phase>>

MM_MD_IMSIDetachIndProc ==
    /\ MmTakes("DETACH")
    /\ LET c == Head(mmQ).on
           m == Head(mmQ).who
           i == FreeMmId
       IN  \/ /\ i = None
              /\ RelReq(c)
              /\ UNCHANGED <<mmVars, ludbQ>>
           \/ /\ i # None
              /\ mm' = [mm EXCEPT ![i] = [FreeMm EXCEPT !.state = "WAIT4UNREG", !.chan = c,
                                                        !.who = m, !.mmId2 = MmIdOn(c)]]
              /\ ToLudb("UNREG_REQ", m, i)
              /\ UNCHANGED <<irt, mmTimer, relReq>>
    /\ UNCHANGED <<NotMm, phase>>

\* The answer is right for the key that LUDB holds now.
MM_MD_AuthRespProc ==
    /\ MmTakes("AUTH_RSP")
    /\ LET i == irt[Head(mmQ).on]
       IN  \/ /\ InState(i, "AUTH_LOCUP")                      \* MM_IsSRESCorrect
              /\ mm[i].ludb # None /\ db[mm[i].ludb].sec
              /\ Finish(i)
              /\ UNCHANGED ludbQ
           \/ /\ InState(i, "AUTH_LOCUP")
              /\ mm' = [mm EXCEPT ![i].state = "WAIT4UNREG"]
              /\ mmTimer' = mmTimer \ {i}
              /\ ToLudb("UNREG_REQ", mm[i].who, i)
              /\ UNCHANGED <<irt, phase, relReq>>
           \/ /\ ~InState(i, "AUTH_LOCUP")
              /\ mmTimer' = mmTimer \ {i}
              /\ UNCHANGED <<mm, irt, phase, relReq, ludbQ>>
    /\ UNCHANGED NotMm

-----------------------------------------------------------------------------
(* MM: messages of LUDB, MMLudbMsgProc.cpp.                                  *)

\* MM_Ludb_RegCnfProc and MMProceedLocUpdateAuth; sendAuthReqToMobile returns
\* before it starts authTimer when the entry of LUDB has no key.
MM_Ludb_RegCnfProc ==
    /\ MmTakes("REG_CNF")
    /\ LET i == Head(mmQ).mm
           e == Head(mmQ).ludb
       IN  \/ /\ mm[i].state # "WAIT4REG"
              /\ Ignored
           \/ /\ mm[i].state = "WAIT4REG"
              /\ \/ FALSE \in AuthModes
                 \/ TRUE \in AuthModes /\ ~Head(mmQ).force     \* lup_cksn is that of LUDB
              /\ Finish(i)
              /\ UNCHANGED ludbQ
           \/ /\ mm[i].state = "WAIT4REG"
              /\ TRUE \in AuthModes
              /\ IF db[e].sec
                 THEN /\ mm' = [mm EXCEPT ![i].state = "AUTH_LOCUP", ![i].ludb = e]
                      /\ mmTimer' = mmTimer \cup {i}
                      /\ Told(mm[i].chan, "auth")
                 ELSE /\ mm' = [mm EXCEPT ![i].state = "AUTH_LOCUP"]
                      /\ UNCHANGED <<mmTimer, phase>>
              /\ UNCHANGED <<irt, relReq, ludbQ>>
    /\ UNCHANGED NotMm

\* No entry has the number -1; what mmEntries[-1] holds is not modelled.
MM_Ludb_RegRejProc ==
    /\ MmTakes("REG_REJ")
    /\ LET i == Head(mmQ).mm
       IN  \/ /\ InState(i, "WAIT4REG")
              /\ Finish(i)
              /\ UNCHANGED ludbQ
           \/ /\ ~InState(i, "WAIT4REG")
              /\ Ignored
    /\ UNCHANGED NotMm

MM_Ludb_RelReqProc ==
    /\ MmTakes("REL_REQ")
    /\ Drop(Head(mmQ).mm)
    /\ UNCHANGED <<NotMm, phase, ludbQ>>

\* MM_Ludb_UnRegCnfProc and MM_Ludb_UnRegRejProc: the entry found on the channel
\* at the detach goes as well, whatever it is used for by now.
MM_Ludb_UnRegProc ==
    /\ \E type \in {"UNREG_CNF", "UNREG_REJ"} : MmTakes(type)
    /\ LET i == Head(mmQ).mm
       IN  \/ /\ InState(i, "WAIT4UNREG")
              /\ RelReq(mm[i].chan)
              /\ Dealloc({i, mm[i].mmId2})
              /\ UNCHANGED <<phase, ludbQ>>
           \/ /\ ~InState(i, "WAIT4UNREG")
              /\ Ignored
    /\ UNCHANGED NotMm

-----------------------------------------------------------------------------
(* MM: watchdogs and messages of rm.                                         *)

MmTimerExpires(i) ==
    /\ i \in mmTimer
    /\ Len(mmQ) < MmQMax
    /\ mmTimer' = mmTimer \ {i}
    /\ mmQ' = Append(mmQ, [type |-> "TIMEOUT", mm |-> i])
    /\ UNCHANGED <<mm, irt, phase, relReq, ludbQ, NotMm>>

\* MM_TIMER_MsgProc: whatever the entry is used for by now.
MM_TIMER_MsgProc ==
    /\ MmTakes("TIMEOUT")
    /\ Drop(Head(mmQ).mm)
    /\ UNCHANGED <<NotMm, phase, ludbQ>>

MM_RM_RRRelIndProc ==
    /\ MmTakes("REL_IND")
    /\ Dealloc({irt[Head(mmQ).on]})
    /\ UNCHANGED <<NotMm, phase, relReq, ludbQ>>

-----------------------------------------------------------------------------
(* External: the mobiles and rm.                                             *)

PostMm(message) ==
    /\ Len(mmQ) < MmQMax
    /\ mmQ' = Append(mmQ, message)

NotMobile == <<ludbVars, ludbQ, mmVars, gkVars, linkVars>>

\* A mobile that has no channel is given one.
ChannelGranted(c, m) ==
    /\ grants < MaxGrants
    /\ grants' = grants + 1
    /\ user[c] = None
    /\ \A d \in Chan : user[d] # m
    /\ user' = [user EXCEPT ![c] = m]
    /\ phase' = [phase EXCEPT ![c] = "idle"]
    /\ UNCHANGED <<mmQ, relReq, NotMobile>>

\* The first message on a channel; a mobile that has been answered may detach as well.
MobileStarts(c) ==
    /\ user[c] # None
    /\ \E type \in {"LU_IMSI", "LU_TMSI", "LU_OTHER", "DETACH"} :
          /\ phase[c] = "idle" \/ (phase[c] = "done" /\ type = "DETACH")
          /\ PostMm([type |-> type, on |-> c, who |-> user[c]])
    /\ phase' = [phase EXCEPT ![c] = "wait"]
    /\ UNCHANGED <<user, grants, relReq, NotMobile>>

MobileAnswers(c) ==
    /\ \/ /\ phase[c] = "ident"
          /\ \E type \in {"IDENT_IMSI", "IDENT_OTHER"} :
                PostMm([type |-> type, on |-> c, who |-> user[c]])
       \/ /\ phase[c] = "auth"
          /\ PostMm([type |-> "AUTH_RSP", on |-> c])
    /\ user[c] # None
    /\ phase' = [phase EXCEPT ![c] = "wait"]
    /\ UNCHANGED <<user, grants, relReq, NotMobile>>

\* The channel is released, because MM has asked for it or the mobile is gone.
ChannelReleased(c) ==
    /\ user[c] # None
    /\ user' = [user EXCEPT ![c] = None]
    /\ phase' = [phase EXCEPT ![c] = "idle"]
    /\ PostMm([type |-> "REL_IND", on |-> c])
    /\ \/ c \in relReq /\ relReq' = relReq \ {c}
       \/ UNCHANGED relReq
    /\ UNCHANGED <<grants, NotMobile>>

\* A request to release a channel that nobody uses is dropped.
LateRelReq(c) ==
    /\ c \in relReq
    /\ user[c] = None
    /\ relReq' = relReq \ {c}
    /\ UNCHANGED <<mmQ, chanVars, NotMobile>>

-----------------------------------------------------------------------------
(* External: the GMC and the link to it.                                     *)

NotGk == <<ludbVars, mmVars, mmQ, chanVars, relReq>>

\* It takes a request and answers.  It does not reject a mobile that is registered.
GkTakes ==
    /\ gkQ # <<>>
    /\ Len(ludbQ) < LudbQMax
    /\ gkQ' = Tail(gkQ)
    /\ LET m == Head(gkQ).who
           Answer(events) ==
               ludbQ' = ludbQ \o [j \in 1 .. Len(events) |-> [type |-> events[j], who |-> m]]
       IN  \/ /\ Head(gkQ).type = "RRQ"
              /\ \/ registered' = registered \cup {m} /\ Answer(<<"RCF", "SPI">>)
                 \/ m \notin registered /\ Answer(<<"RRJ">>) /\ UNCHANGED registered
           \/ /\ Head(gkQ).type = "URQ"
              /\ registered' = registered \ {m}
              /\ \/ Answer(<<"UCF">>)
                 \/ m \notin registered /\ Answer(<<"URJ">>)
           \/ /\ Head(gkQ).type = "SRQ"
              /\ Answer(<<"SRS">>) \/ Answer(<<"SRS_ZERO">>)
              /\ UNCHANGED registered
    /\ UNCHANGED <<NotGk, linkVars>>

\* It gives up the registration of a mobile.
GkUnregisters(m) ==
    /\ link = "up"
    /\ m \in registered
    /\ Len(ludbQ) < LudbQMax
    /\ registered' = registered \ {m}
    /\ ludbQ' = Append(ludbQ, [type |-> "URQ", who |-> m])
    /\ UNCHANGED <<gkQ, NotGk, linkVars>>

\* What the GMC has not answered is lost, or its answer is.
LinkBreaks ==
    /\ link = "up"
    /\ breaks < MaxBreaks
    /\ link' = "down"
    /\ breaks' = breaks + 1
    /\ gkQ' = <<>>
    /\ LET asked == {gkQ[j].who : j \in DOMAIN gkQ}
       IN  \E taken \in SUBSET asked : registered' = (registered \ asked) \cup taken
    /\ UNCHANGED <<ludbQ, NotGk>>

LinkUp ==
    /\ link = "down"
    /\ link' = "up"
    /\ UNCHANGED <<breaks, ludbQ, gkVars, NotGk>>

-----------------------------------------------------------------------------

LudbTask ==
    \/ LUDB_MM_RegReqProc \/ LUDB_MM_UnRegReqProc
    \/ LUDB_VBLINK_RCFMsgProc \/ LUDB_VBLINK_RRJMsgProc \/ LUDB_VBLINK_Unregistered
    \/ LUDB_VBLINK_SPIMsgProc \/ LUDB_VBLINK_SRSMsgProc \/ LUDB_VBLINK_SRSZero
    \/ VBReqTimeout \/ PurgeTimeout

MmTask ==
    \/ MM_MD_LocUpdateReqProc \/ MM_MD_IdentityRespProc \/ MM_MD_IMSIDetachIndProc
    \/ MM_MD_AuthRespProc
    \/ MM_Ludb_RegCnfProc \/ MM_Ludb_RegRejProc \/ MM_Ludb_RelReqProc \/ MM_Ludb_UnRegProc
    \/ MM_TIMER_MsgProc \/ MM_RM_RRRelIndProc

Environment ==
    \/ \E e \in Entry : VBReqTimerExpires(e) \/ PurgeTimerExpires(e)
    \/ \E i \in MmId : MmTimerExpires(i)
    \/ \E c \in Chan :
          \/ \E m \in Mobile : ChannelGranted(c, m)
          \/ MobileStarts(c) \/ MobileAnswers(c) \/ ChannelReleased(c) \/ LateRelReq(c)
    \/ GkTakes
    \/ \E m \in Mobile : GkUnregisters(m)
    \/ LinkBreaks \/ LinkUp

Next == LudbTask \/ MmTask \/ Environment

Spec == Init /\ [][Next]_vars

-----------------------------------------------------------------------------
(* Properties.                                                               *)

\* Nothing is under way between LUDB, MM and the GMC, and the link has not broken.
Settled == ludbQ = <<>> /\ mmQ = <<>> /\ gkQ = <<>> /\ breaks = 0

\* A mobile that LUDB takes for active is registered at the GMC, once no message
\* is under way: of requests, answers, purges and unregistrations by the GMC that
\* cross, none leaves a mobile that calls would be routed to without a registration.
ActiveRegistered ==
    Settled => \A e \in Entry : db[e].state = "ACTIVE" => db[e].mobile \in registered

\* Once no message is under way every request of LUDB has been settled: an entry that
\* a mobile holds is active, or inactive with the watchdog running that will have it
\* unregistered.  No order of updates, detaches, timeouts and answers leaves an entry
\* waiting for something that does not come, or inactive for ever.
Guarded ==
    Settled =>
        \A e \in Entry : db[e].mobile # None =>
            db[e].state = "ACTIVE" \/ (db[e].state = "INACTIVE" /\ e \in purgeTimer)

\* The IRT table names an entry of MM only as long as the entry is used for that
\* channel: a message or a release of the radio never reaches an entry that has
\* been given to somebody else.
IrtOK == \A c \in Chan : irt[c] # None => mm[irt[c]].chan = c

\* A detach runs in MM without a watchdog.  It needs none: LUDB answers every
\* request, so that either the request or an answer that names the entry is under
\* way as long as MM waits.
DetachAnswered ==
    \A i \in MmId : mm[i].state = "WAIT4UNREG" =>
        \/ \E j \in DOMAIN ludbQ : ludbQ[j].type = "UNREG_REQ" /\ ludbQ[j].mm = i
        \/ \E j \in DOMAIN mmQ : mmQ[j].type \in {"UNREG_CNF", "UNREG_REJ"} /\ mmQ[j].mm = i
=============================================================================
