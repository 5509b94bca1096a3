# ViperCell base station: specification and proofs

The repository is the software of the ViperCell, a GSM/GPRS base station:
`src/data/mnet` holds the host software of the GP10 board (C++ on VxWorks), its DSP
software (C) and code common to both.  This directory holds TLA+ modules of the parts
that carry the protocol logic, TLC runs that check them on small instances, and TLAPS
proofs for every instance.

All paths below are relative to `src/data/mnet/GP10/Host/` unless they start with
`Common/` or `Dsp/`.  `PROJECT.json` maps every definition to its lines.

## 1. Inventory

| Component | State it keeps | Operations | Hard behaviour |
|---|---|---|---|
| `Rlc_mac` downlink link (`DLRlcLink.cpp`, `DLTbf.cpp`) | V(S), V(A), V(B), 128 block pointers, poll counters, retry counters, four timers, TBF state | get the next block for a timeslot, ack/nack, control ack/nack, expiry, (re)establish, abnormal release | lost blocks and polls, outcomes and expiry messages that arrive after the TBF was used again, modulo arithmetic, blocks shared through a pool |
| `Rlc_mac` uplink link (`ULRlcLink.cpp`, `ULTbf.cpp`) | V(R), V(Q), V(N), 128 block pointers, first/last block, N3101, N3103, T3169, Activity timer | receive a block, scan and reassemble, send PACKET UPLINK ACK/NACK, control ack/nack, expiry | blocks received out of order and twice, reassembly across the wrap of the BSN, release racing late blocks |
| `Rlc_mac` task (`RlcMacTask.cpp`, `RlcMacMsgProc.cpp`, `RlcMacL1Proc.cpp`, `RlcMacOamProc.cpp`, `RlcMacRmMdProc.cpp`) | one message queue; ready-to-send counts per timeslot | dispatch of layer 1, BSSGP, OAM, RM and timer messages | a message is handled later than it was posted, and cancelling a timer does not take its message back |
| `Rlc_mac` allocation (`MacAllocation.cpp`) | none of its own | AllocateDLResources, AllocateULResources, CheckDLMsgQueues | reuse of a TBF while T3193 runs; TLLI of an MS that has come back |
| `Rlc_mac` TBF pool (`TbfPool.cpp`) | up to 32 TBFs per transceiver and direction; 8 bit control ack tags | allocate, free, find by TFI, TLLI or tag | tags used again while an outcome is under way |
| `Rlc_mac` scheduler (`MacScheduler.cpp`, `ScheduleQueue.cpp`, `TSPool.cpp`, `USFTable.cpp`, `TAITable.cpp`) | per timeslot, direction and delay class a queue of entries; tables of TFI, TAI and USF; user counts | allocate on the best slots of a multislot class, evict by precedence, reallocate, retry on one slot, release, choose the next block | a request that fails half-way; numbers given back through fields that later requests overwrite; levels that starve others |
| `Rlc_mac` codecs (`Msg*.cpp`, `ie*.cpp`, `bitstream.cpp`, `msgL1*.cpp`) | none | pack and unpack | bit layout only |
| `rm` | a state machine per dedicated channel (`rm_S1` .. `rm_S11`), a second state in the channel's description, timers, one queue | allocate, activate, establish, change the mode, hand over, release, lock | releases, refusals of the DSP and expiries of an earlier use that cross an activation; shutdown of a timeslot under traffic |
| `mm` | `mmEntries`: a procedure per connection; the IRT table from channel to entry; watchdogs | location update, identification, authentication, detach, calls, handover | entries and channels used again while answers that name them are under way |
| `jcc` (LUDB, the user database) | an entry per subscriber with a state, two watchdogs, a key | register, unregister, keep a profile, purge | requests of MM, answers of the GMC and watchdogs that cross |
| `voip` (`vblink.cpp`) | a TCP link to the GMC, the gatekeeper | send and receive registration, security and call messages | the link breaks with requests outstanding; messages cut into pieces |
| `cc` | state machines per call | call set-up, SMS, handover | collisions of network and mobile initiated procedures |
| `bssgp`, `grr`, `Common/bssgp` | PDU queues per MS, flow control buckets | PDU queueing, paging | PDUs that expire while they wait |
| `CsuNew` | transceiver states | start-up, lock, unlock | ordering of acknowledgements |
| `Common/Os` | watchdog timers, message queues | set, cancel, post, receive | expiry that races cancel |
| `Dsp` | frame schedule, ready-to-send credits | transmit, receive, report polls | fixed real-time deadlines |
| `Mch`, `l1proxy`, `cli`, `snmp`, `Cdc_bsp`, `ViperBase` and others | - | I/O, media, operator interface, drivers | not protocol logic of this repository |

How the parts interact.

*Packet side.*  BSSGP queues an LLC PDU for an MS and posts `RLCMAC_DL_PDU_REQ`; the
task's `AllocateDLResources` establishes a downlink TBF, has the scheduler place it on
timeslots, and sends an assignment with a poll.  The DSP asks for a block per timeslot
(`PH_READY2SEND_IND`); the task asks the scheduler for a TBF and the TBF's link for its
next block.  Every few blocks the link sets the RRBP bit: the MS is polled and
answers with PACKET DOWNLINK ACK/NACK or PACKET CONTROL ACKNOWLEDGEMENT, or the DSP reports
`PH_PACCH_NACK`.  Uplink blocks arrive as indications; the link sends PACKET UPLINK
ACK/NACK and hands complete LLC PDUs to BSSGP.

*Circuit side.*  A random access makes `rm` allocate a channel and command the DSP to
activate it; the mobile comes, LAPDm establishes a link and `rm` passes the first message to
`mm`, which takes an entry.  A location update or a detach goes from `mm` to LUDB and
from there over VBLink to the GMC; the answers come back the same way.  `mm` and `cc` ask
`rm` for the release, a change of mode or a handover; `rm` tells `mm` when the radio is gone.
OAM shuts timeslots down through `grr` and `rm`.

Each task (`RlcMac`, `rm`, `mm`, LUDB) is one thread with one queue, so handlers are
atomic; what interleaves is the order of messages, and what is still in a queue or on the
radio when state changes.  Timers post messages to the same queues, and cancelling a
timer does not take back a message that has been posted.

What makes each part correct, and where it is stated.  Downlink: a block is owned by exactly one
place (`PoolOK`); the transmit window is bounded and its blocks are kept (`WindowOK`);
nothing is taken as delivered that was not (`AckSound`); a null block is used only in the cases
known (`FaultCause`); a TBF that is not scheduled has a timer (`Watched`) and ends when its MS has
gone (`EndsWhenGone`); a PDU that comes at the end of a transfer is served (`NoPduLeftBehind`).  Uplink: V(Q) and
the acknowledgements never claim what did not come (`VQSound`, `MSAckSound`, `BitmapReports`);
what goes to BSSGP is what the MS sent (`NoHoles`); blocks go back to the pool once
(`PoolConserved`, `PoolNotOverfull`).  Scheduler: entries belong to users of the slot
(`EntriesOwned`), numbers are not lost (`NothingLeaks`), everyone is served (`Served`).
`rm`: the two states of a channel agree, the DSP's last word fits them, MM is told of the end of
every connection, handover requests are answered, what is reported as locked is idle, and all
of it together is the life of a channel that the rest relies on (`UseSpec`).  `mm` and
LUDB: active means registered at the GMC, nothing waits for ever, entries that are used
again are not confused.

## 2. Plan

1. `RlcWindow`, `DLRlcLink`: done; every safety property is proved.
2. `ULRlcLink`: done; its properties are proved, most of them for transfers that do not wrap.
3. `RmChannel` with the abstract `ChannelUse` and the refinement: done; all proved, `MmTold` and the refinement under a condition (section 5).
4. `MacScheduler`: several TBFs, queues, numbers, service: done, all its safety properties proved.
5. `Registration`: MM, LUDB and the GMC with three queues: done, all its properties proved.
6. Left: calls in `mm` and `cc` on top of `RmChannel` and `Registration`; the handover between
   cells; PDU queues and flow control of BSSGP; CSU; the signalling queue of RLC/MAC and
   tag reuse; capacity figures and preemption in the scheduler.
7. Theorems left: `VQSound` and the others of the uplink link where numbers wrap, as far as they
   are true there; in the scheduler, that the slots a TBF holds and the
   slots that hold it agree, once the restoration of a refused reallocation is taken out (section 4).

## 3. Modules and how they correspond to the code

| Module | Part |
|---|---|
| `RlcWindow`, `RlcWindowProofs` | sequence number arithmetic of both directions, written without `%` so that the provers see linear arithmetic |
| `DLRlcLink`, `DLRlcLinkProofs` | downlink link, its task and allocation; proofs of types, pool and timers, and of the window and the reports |
| `ULRlcLink`, `ULRlcLinkProofs`, `ULWindowProofs` | uplink link; proofs of types and the pool's bound; of the window, PDUs, timers and the pool |
| `MacScheduler`, `MacQueueProofs`, `MacSchedulerProofs` | scheduler, tables, requests for resources of several TBFs; lemmas about one queue of a timeslot; proofs about the requests and the numbers |
| `RmChannel`, `RmChannelProofs`, `ChannelUse` | dedicated channels of `rm`; the abstract life of a channel |
| `Registration`, `RegistrationProofs` | location update and detach in `mm`, `jcc` and VBLink |
| `MC...` | constants for TLC, nothing else |

A handler with all its calls is one step.  Two handlers are finished by further steps during
which no other message is handled: the downlink ones that go on to send blocks on several
timeslots or to allocate (`kick`, `alloc`), and the uplink one that reassembles several PDUs
(`reassembling`).  Variables have the names of the members they stand for.

### Downlink (`DLRlcLink`)

| Model | Code |
|---|---|
| `tbfState` | `Tbf::TBF_STATE` |
| `vS`, `vA`, `vB`, `pDlBlocks`, `lastDataBlock`, `lastPendingAckXmit`, `n3105`, `dlAssignCnt`, ... | members of `DLRlcLink` |
| `timer` | which `JCCTimer`s run; `TimerExpiry` posts the message, `ProcessExpiry` is its handler |
| `pool` | free blocks of `sysDlDataBlockPool` |
| `queue`, `dataRTS` | the task's queue and `Timeslot::dataRTSCount` |
| `ProcessPhRTSInd`, `GetDLRlcBlock`, `BuildDLRlcBlock`, `RetransmitNacked`, `RetransmitPendingAck`, `SetPollingBit` | the path from ready-to-send to a block on the radio |
| `ReceiveDLAckNack`, `ReceivePacketControlAck`, `ReceivePacketControlNack` | the outcomes of a poll |
| `AllocateDLResources` (establish, re-establish, leave) | `MacAllocation.cpp` |
| `AbnormalRelease` | OAM locks the resources |
| `DspReady`, `PollEnds`, `Hears`, `MSLeaves`, `BssgpOffer` | external: DSP, radio, MS, BSSGP |

A block carries no data: `built` numbers the blocks of a TBF, `got` is the set the MS
has received, and `SeqAt(i)` is the number of the block at index i, so `AckSound` can
compare what the link believes with what happened.

### Uplink (`ULRlcLink`)

| Model | Code |
|---|---|
| `vR`, `vQ`, `vN`, `pUlBlocks`, `firstDataBlock`, `lastDataBlock`, `endOfTBF`, `n3101`, `n3103`, ... | members of `ULRlcLink` |
| `free` | how many blocks `sysUlDataBlockPool` has |
| `ReceiveULDataBlock` (`InWindow`, `MovesVR`, `NewVN`, `NewVQ`, `NewVQUnack`, `AcceptULDataBlock`) | `ReceiveULDataBlock`, `UpdateRcvStateVariables` |
| `SendULAckNack` | the same; `acks` are the messages on the radio |
| `ReassembleULPDU` (`PduRead`, `KeptOf`, `ScanEnds`, `ReleasedIndices`) | one turn of the loop of `ReassembleULPDU` with `ScanDataBlocks`, `IsPDUAssemblyNeeded`, `ReleaseDataBlocks` |
| `buf`, `currDataBlock`, `delivered` | its local variables, and what it has sent to BSSGP |
| `ReceivePacketControlAck`, `ReceivePacketControlNack`, `ProcessExpiry`, `IncrementN3101`, `AbnormalRelease` | the same |
| `EstablishULTbf` | `AllocateULResources` for a request with a TLLI |
| `MSRequest`, `MSSend`, `USFUnused`, `MSHearsAck`, `AckLost`, `MSLeaves` | external: MS, radio, DSP |

A block is its number in the TBF and its layout: how many PDUs end in it with a length
octet and whether another starts after them.  A PDU is the sequence of pieces
`<<block, length octet>>` that was put together, `Fill` for a block that was missing.

Undefined behaviour is kept: `fault` is set where a null pointer is used, an array is
overrun or a loop does not end, and nothing is modelled after it; the bits of a length octet
that was never written are any bits; the final bit of an acknowledgement whose
starting sequence number is refused is any bit.

### Scheduler (`MacScheduler`)

| Model | Code |
|---|---|
| `tbf[t]` | the fields of a TBF that scheduling uses: state, MS, quality of service, `trx`, slots, TFI, TAI, `usf[ts]` |
| `ts.queue`, `ts.index`, `ts.users` | `ScheduleQueue` per timeslot, direction and delay class; the index of the next entry; the user counts |
| `ts.tfi`, `ts.tai`, `ts.usf` | the tables of TFI, TAI and USF |
| `Leads` and `Rank` (the order of the sort), `AllocateEntries`, `BalanceUser`, `BalanceEntries`, `DeallocateEntries` | `ScheduleQueue.cpp` |
| `Candidates`, `DesiredSlots`, `ConstrainCandMultiConfig`, `FindBestSlot`, `AllocateSlots` | choice of slots under the multislot configurations |
| `AllocateUser`, `DeallocateUser`, `AllocateUserIfBetterQoS`, `AllocateTFI`, `AllocateTaiUsf`, ... | `MacScheduler.cpp` |
| `ULRequest`, `ULRequestBesideDl`, `ULReallocRequest`, `DLRequest`, `DLReestablish`, `DLReallocate`, `DLSingleSlot`, `DLAbandon`, `Release` | the requests of `AllocateULResources`, `AllocateDLResources` and the links that change allocations |
| `ScheduleBlock` | `ScheduleNextBlock`; `sent` is what it chose last |
| `LinkMoves` | external: the links' own changes between ALLOCATED, INACTIVE, REALLOCATING, RELEASING |

The state of the tables is one record that the steps of a request pass along; a request is
one action.  Multislot configurations are those that `MultislotConfigurationGenerator.cpp` lists for the
classes of the instance.

### Radio resource manager (`RmChannel`, `ChannelUse`)

| Model | Code |
|---|---|
| `sm`, `phy`, `amState` | `pMSmCtxt->state`, `pPhyChan->state` and the administrative state of a channel |
| `timerState`, `armed` | the field "state" of a timer, which some handlers test, and the watchdog itself |
| `queue` | `rm_MsgQId`, with the messages of expired timers |
| `dspQ`, `dspOn`, `granted`, `link` | external: commands on their way to the DSP, what it does with them, where a mobile was sent, its link of LAPDm |
| `mmQ`, `mm`, `hoWait` | external: what MM has not read of the channel, its connection, the handover requests it waits for |
| `slotState`, `acked` | administrative states in `grr_OamData`, shutdowns acknowledged to `grr` |
| `ChanReq`, `HoReq`, `HoReqDropped` | allocation by random access and by a handover |
| `ActAck`, `EstInd`, `ModeAck`, `ProcRrRelease`, `Deactivated`, `ShutdownReq` and so on, one action per message and state | the handlers of `rm_S1*.cpp` .. `rm_S9*.cpp`, `rm_ProcRrRelease` |
| `conn` | history: MM has been given a connection that it has not been told the end of |

`ChannelUse` is the life of a channel as its users see it: idle, being set up, up, being taken
down; whoever was given a connection is told of its end before the channel is idle again.
`UseSpec` says that `RmChannel` implements it, with `use` computed from `sm` and `owed` from `conn`.

### Registration (`Registration`)

| Model | Code |
|---|---|
| `db`, `vbTimer`, `purgeTimer` | `LUDBEntry` and its two watchdogs |
| `mm`, `irt`, `mmTimer` | `mmEntries`, the MM column of the IRT table, `identTimer` and `authTimer` |
| `ludbQ`, `mmQ` | `ludbMsgQId`, `mmMsgQId` |
| `gkQ`, `registered`, `link` | external: the GMC and the socket of VBLink |
| `user`, `phase`, `relReq` | external: mobiles on channels, the releases `rm` has been asked for |
| `LUDB_MM_...`, `LUDB_VBLINK_...`, `VBReqTimeout`, `PurgeTimeout` | the handlers of `LUDBMmMsgProc.cpp`, `LUDBVoipMsgProc.cpp`, `LUDBTimerProc.cpp` |
| `MM_MD_...`, `MM_Ludb_...`, `MM_TIMER_MsgProc`, `MM_RM_RRRelIndProc` | the handlers of `mm/src` of the same names |

Messages name an entry of MM or of LUDB and not its use, as in the code; entries are used again
as soon as they are free.  Of a free entry `LUDB::getMobileId` returns whatever was on the
stack, hence any mobile in `PurgeTimeout`.

### Abstractions

Downlink: one TBF; the set of timeslots does not change with a reallocation, and one is
considered after each block built; N3105_MAX is a constant; a channel request inside PACKET
DOWNLINK ACK/NACK and other TBFs are left out.  Uplink: one TBF object; requests that
name a TFI are left out; acknowledgements of the TBF before are dropped at establishment; a
length octet of 0 is read as none.  Both: the queue is FIFO; control ack tags are
unique (`tag` says whether the TBF still holds the tag); the Activity timer (10 s)
does not expire while anything is under way, since every message takes far less.
PACKET TBF RELEASE, assignments and the deactivation of the DSP have no effect on the
state of the model other than what is listed.

Scheduler: `ULSingleBlockRequest`, the capacity figures and `GetLeastUtilizedSlot`, the lock and
unlock of timeslots, preemption by voice calls and the dummy TLLI of one-phase access
are left out.  `rm`: measurements and what is decided from them, the paging
channel and system information are left out; the bounds of the queues stand for the rate at which
events come.  Registration: `MM_PROC_LUDB` only (no calls, no security request of a call, no
emergency entries, no handover, no update initiated by Gs); no operational state of MM, no full queues,
no registration test mode; a detach names an IMSI; the SPI fits in a message.

## 4. Runs

Passing:

| Run | Instance | What it shows |
|---|---|---|
| `dl_transfer` | space 4, window 2, up to 5 blocks in 2 PDUs, acknowledged mode | a transfer that wraps, and the TBF used again with answers and expiries of the first transfer under way: `TypeOK`, `PoolOK`, `WindowOK`, `AckSound`, `NoPduLeftBehind`, `FaultCause` |
| `dl_live` | space 2, window 1, 2 timeslots of which one polls, both modes, OAM lock, up to 3 blocks | `Watched`, `FaultCause` where the sequence space is as small as it can be; under fairness `EndsWhenGone` |
| `ul_transfer` | up to 6 blocks, space 8, window 4 | losses of every kind: `VQSound`, `MSAckSound`, `BitmapReports`, `NoHoles`, `RcvWatched` |
| `ul_wrap` | 5 and 6 blocks, space 4, both modes, OAM lock | `RcvTypeOK`, `PoolConserved` across the wrap |
| `ul_reuse` | 2 TBFs of 2 blocks, both modes, pool of 3, stale requests, OAM lock | messages, blocks and timers cross the change of TBF and the pool runs empty: `PoolNotOverfull`, `RcvWatched`; under fairness `RcvEndsWhenGone` |
| `rm_channel` | a TCH/F, one handover requester, shutdown of its timeslot | releases, handovers, refusals of the DSP and expiries in every order: `ChannelStateAgrees`, `NoOrphanRadio`, `DspAnswers`, `MmTold`, `HoAnswered`, `AckedIsIdle`, and the refinement `UseSpec` |
| `rm_beacon` | an SDCCH/4, shutdown of the beacon timeslot | `TypeOK`; under fairness `ActivationSettles`, `DeactivationEnds` |
| `mac_slots` | 2 timeslots, 2 uplink TBFs and a downlink one of one MS, multislot classes up to 3, a queue of 3 entries, 2 users per slot and per direction | requests in every order, with numbers running out: `TypeOK`, `EntriesOwned`, `NothingLeaks` |
| `mac_serve` | 1 timeslot, 2 downlink TBFs, 2 delay classes, 2 precedences | eviction and balancing of entries: `LevelsFullOrEmpty`, `FirstEntryHeld`; under fairness `Served` |
| `mm_ludb` | 2 mobiles, 1 channel, 2 entries of MM, 1 of LUDB, both authentication modes, 1 break of the link | updates, detaches, watchdogs, purges, rejections and unregistrations by the GMC in every order: `TypeOK`, `ActiveRegistered`, `Guarded`, `IrtOK`, `DetachAnswered` |

The two runs that are violated each show one place where the code does not do what its
comments say; `PROJECT.json` quotes the lines under "findings".

| Run | Property | What TLC shows |
|---|---|---|
| `ul_final_ack` | `FinalAckSound` | `vQ = vR`: the TBF is declared complete with blocks missing |
| `rm_s4_stuck` | `S4Left` | no expiry is handled in S4: a mobile that does not come over leaves the channel allocated for ever |

### Bounds

RLC: the sequence space is 2, 4 or 8 instead of 128 and the window half of it, as in the
product, so that transfers of five to ten blocks fill the window and wrap.  Retry limits
are 1 to 3: enough for a success after a failure, and for the limit itself.  `MaxBlocks`,
`MaxPdus`, `MaxPolls`, `MaxTbfs` and `MaxMsgs` bound the length of a behaviour
and what is under way; the interesting crossings need two messages.  The downlink runs
have one poll at a time (`MaxPolls`): two overlapping ones lead to the fault at line 1008, which
ends the behaviour.  `VQSound` and `NoHoles` say nothing after the last uplink
block has been seen, where they would repeat what `ul_final_ack` shows.  `VQSound` and
`BitmapReports` are checked where the numbers of a TBF do not wrap, because of lines 212
and 217; `ul_reuse` allows stale requests and therefore checks `PoolNotOverfull` in place of
`PoolConserved`.  `dl_transfer` uses the symmetry of the blocks.

`rm`: one channel, since the handlers of two channels share only the queue and the administrative
state of the beacon; queues of two messages and two commands let each event cross each
other one.  Scheduler: with two timeslots and three TBFs all requests meet tables that are
full; multislot classes 1 to 3 have configurations that conflict.  Registration: one channel and one
entry of LUDB make re-use immediate; two entries of MM are the fewest with which a detach can find
the update it follows; `MaxGrants` is 2, which is one use and one re-use of the channel;
the symmetry of the mobiles is used.

Deadlock is not checked: a system in which all transfers, channels and grants that the bounds allow
are over may stop.

### Fairness

`DLRlcLink`, `ULRlcLink`: the task runs its loop and gets the processor; the DSP asks for
blocks periodically, and reports the outcome of every poll; a timer that runs expires.  For
the Activity timer, and downlink T3191, expiry is only assumed once nothing is under way.
Nothing is assumed of the MS or the radio: they may lose everything for ever.
`EndsWhenGone` and `RcvEndsWhenGone` count a fault as an end, since nothing is modelled
after it.

`RmChannel`: the task takes its messages (weak fairness); the DSP takes its commands and a
running watchdog expires.  The latter two are strongly fair only because the bound on the queue
disables them for moments; in the code they are never held up.  Nothing is assumed of mobiles,
MM, CC or OAM.

`MacScheduler`: layer 1 asks for a block in every block period, so `ScheduleBlock` is weakly fair.
Nothing is assumed of the requests.

`Registration` states safety only: what must happen is stated of the states in which
nothing is under way (`Settled`).

### The refinement

`UseSpec` is the specification of `ChannelUse` with `use` and `owed` computed from the
state of `rm`.  Every handler is one step of the abstract channel or a stutter: S2, S3 and S4 are
"setup", S7 and S9 "down", S1 "idle", and the others "up".  It excludes a channel that becomes idle
with MM still attached, that is allocated while it is taken down, or that is connected without
having been set up.

### Where the code departs from its comments

Each can be seen by checking the formula in the instance named; no run is kept for these.

Downlink RLC:

- `DLRlcLink.cpp:744` - `~(tbfState = "ALLOCATED" /\ Quiet)`, acknowledged mode, in the instance of
  `dl_transfer`: with the window full the search for blocks to resend starts where the last one
  ended and never goes back to V(A) (comment at 742), so a TBF that is scheduled has nothing to
  send and waits for nothing.  The same in unacknowledged mode with a timeslot outside `PollTs`
  (`DLRlcLink.cpp:430`, comment at 747): the last block, kept back there, is looked for only in
  acknowledged mode.
- `RlcMacTask.cpp:343` with `MacAllocation.cpp:957` - in `dl_transfer`,
  `[][tbfState # "FREE" /\ tbfState' = "FREE" /\ rlcMode = "ACK" /\ Taken = [type |-> "expiry", timer |-> "T3193"] => lastDataBlock # LAST_BLOCK_UNKNOWN /\ vA = vS]_vars`:
  eight steps.  The TBF is used again while T3193 runs; its expiry is in the queue already,
  cancelling does not take it back, and it releases the new transfer.
- `DLRlcLink.cpp:184` - `pool \cup Held = Block` with two PDUs: re-establishment forgets the blocks of
  the transfer before.
- `DLRlcLink.cpp:1376` - "an INACTIVE TBF with T3195 running does not become ALLOCATED",
  `[][tbfState = "INACTIVE" /\ timer["T3195"] => tbfState' # "ALLOCATED"]_vars`, with `OamLock`.
- `DLRlcLink.cpp:1253` - `tbfState = "INACTIVE" /\ Quiet /\ pduQueue > 0 => fault \/ timer["T3195"]` in the
  instance of `dl_transfer` with `RlcMode = {"UNACK"}`: the end of an unacknowledged transfer does
  not serve a PDU that waits, which is why `NoPduLeftBehind` speaks of acknowledged ones and
  `Watched` has an exception.
- `DLRlcLink.cpp:1008` - `~fault` in `dl_transfer` (two PDUs), or with two polling timeslots and
  `MaxPolls = 2`: the bitmap loop walks the whole sequence space when SSN equals V(A).  `FaultCause`
  says that nothing but this, a report of the TBF before and an empty pool leads there.
- By reading: `DLRlcLink.cpp:423` builds the last block right after a reallocation and overwrites
  REALLOCATING with INACTIVE; `:1340` leaves a T3195 that a failed assignment on another timeslot has
  started; `DLTbf.h:58`, tags of 8 bits that are not checked for uniqueness; `RlcMacMsgProc.cpp:129`, the
  tag of a TBF without a poll is 0xff, which an outcome may carry as well.

Uplink RLC:

- `ULRlcLink.cpp:631` against `:630` - with three PDUs in a TBF, "no piece of a block is sent with two PDUs",
  layout `<<Piece, Seam, Seam, Piece, Tail1>>`: the second PDU of one call is sent with the first in front.
- `ULRlcLink.cpp:767` and `:774` against `:766` - `~fault` with `<<Piece, Piece, Piece, Tail1>>` in a space of 4:
  "++currDataBlock % RLC_MOD_VAL" does not wrap, and the scan starts at index 128.
- `ULRlcLink.cpp:212` and `:217` - `rlcMode = "ACK" /\ got # {} => vR = Bsn(Newest + 1)` with ten blocks in
  a space of eight: an old block passes the window test, and once V(R) has wrapped a block
  that fills a gap takes it back.
- The same lines - `BitmapReports` in the instance of `ul_wrap`: of a TBF that is longer than the
  sequence space a block of the window may be missing in the bitmap.  `VQSound` fails in a space of
  four with ten blocks.
- `ULRlcLink.cpp:737` - `NoHoles` with `<<Piece, Tail1, Piece, Tail1, Piece, Tail1>>` in the instance of
  `ul_transfer`: ScanDataBlocks gets currDataBlock by value, so the next PDU of the same call is read from the
  block where the last one ended.  That is right only if the next PDU starts there; if the last one
  ended in fill before the TBF's last block, the block has been released by then.
- `ULRlcLink.cpp:228` - `BitmapReports` with `>=` in place of `>`: the oldest of the k bits always
  says "missing".
- `ULRlcLink.cpp:669` - the end of a later PDU that arrives first is taken for that of the
  earlier one, and both are sent as one.
- `ULRlcLink.cpp:264` - `~fault` with `RlcMode = {"UNACK"}` and a PDU that ends in the block with the
  highest number: V(R) = 128 ends no scan.
- `MacAllocation.cpp:540` - `PoolConserved` with `StaleRequest`: the blocks of the stale TBF are forgotten.
- By reading: `ULRlcLink.cpp:1010`, IncrementN3101 returns TRUE also at its limit, so its callers never
  look for another TBF; at `:541` a write
  pointer that is set before the loop is used for every PDU of the loop; at `:748` the current octet keeps the
  M and E bits of an earlier use after the last length octet, up to a loop that does not end; EstablishRLCLink
  (`:109`) does not cancel a T3169 that is still running, which then ends the next TBF of the object.

Scheduler, in the instance of `mac_slots` with uplink requests of multislot class 1 and 3:

- `MacScheduler.cpp:737` to `:742` -
  `\A t \in UlTbf : \A s \in SlotsOf(Now, t) : tbf[t].usf[s[2]] # Invalid => ts.usf[s][tbf[t].usf[s[2]]] = t`
  (nine states): a reallocation releases `usf[ts]` on all timeslots of the transceiver, also where
  the number is of an earlier time and belongs to another TBF by now.
- `MacScheduler.cpp:764` to `:774` - "the user count of a slot is the number of users in its queues"
  (three states) and "the natural slot of an MS is in use by it" (four states): a refused reallocation
  puts back the queues and the slots only, against the comment "This leaves all user allocations on
  this TRX as they were before".
- `MacScheduler.cpp:235` - `EntriesOwned` with two transceivers: the search overwrites the
  transceiver of a TBF whose entries are on another (`ScheduleQueue.cpp:388`: "Check that each TBF
  is not in FREE state.  If so, it's a bug").
- By reading: a request refused with a peer, or a failed retry on one slot, releases TFI and TAI of an earlier
  use; one slot may be given twice; a downlink user that holds only its first entries is evicted by
  a better precedence; TBFs are looked up by TFI without their transceiver; when no TFI is left the
  old one is kept.

`rm`, in the instance of `rm_channel` unless stated:

- `rm_S2ActivatingSigTrafficChan.cpp:114` - `amState[c] = "shuttingDown" ~> c \in acked` (six steps): a timeslot that is
  shut down while a channel is activated is never acknowledged if the DSP refuses.  For an SDCCH/4
  never at all: `rm_S9DeactivatingSigTrafficChan.cpp:392` compares where it should assign.
- `rm_S8` lines 200 to 268 - `sm[c] = "S8" ~> sm[c] # "S8"` in the instance of `rm_s4_stuck`: `rm_ProcT3L01Expiry` turns
  away exactly the messages that are expiries.  S6 and S8 ignore a release by the mobile.
- `rm_S3SigChanActivated.cpp:103` - T3101 races the mobile; of an emergency call its expiry is ignored and
  the channel stays in S3.
- `rm_HoReq` lines 25 to 44 - a handover request returns without an answer while
  the beacon timeslot is not unlocked and its shutdown has not been taken from the queue (`HoReqDropped`).
- By reading: `rm_TimerExpired:24` leaves a byte of the message unset that S7 tests, and sends without waiting
  (`:32`), so an expiry may be lost; a release in S4 tells neither MM nor CC; `grr_ProcOamMsg.cpp:311` sends
  the lock of OAM to its own queue, and `:393` never unlocks; `rm_S8:166` to `:170` lets busy
  counters drift; the acknowledgement of an activation that was given up passes for that of the next; a release
  that MM sent before it was told of the end of its connection ends the next call on the channel (`MMCcMsgProc.cpp:311`).

Registration, in the instance of `mm_ludb`:

- `LUDBVoipMsgProc.cpp:312` - `ludbQ = <<>> /\ mmQ = <<>> /\ gkQ = <<>> => \A e \in Entry : db[e].mobile # None /\ db[e].state \in {"REGREQ", "REGTHENSEC", "UNREGREQ"} => e \in vbTimer`
  (18 steps): the RCF of an earlier request stops the watchdog of the one that is outstanding; if then the link
  breaks, the entry waits for ever.
- `LUDBVoipMsgProc.cpp:628` - `Settled => \A i \in MmId : mm[i].state = "WAIT4REG" => \E e \in Entry : db[e].mobile = mm[i].who`
  (12 steps): the GMC unregisters a mobile while its key is outstanding, LUDB clears the entry and
  tells MM nothing, and WAIT4REG has no watchdog.  `Settled => registered \subseteq {db[e].mobile : e \in Entry}` fails
  too: a registration that LUDB has given up, or that crossed a timeout, stays at the GMC.
- `MMLudbMsgProc.cpp:270` - an update is accepted for a mobile that LUDB has no entry of (11 steps): a REG_CNF
  names the entry of MM and not its use.  `\A i \in MmId : mm[i].state \in {"START", "WAIT4REG", "AUTH_LOCUP"} => irt[mm[i].chan] = i`
  fails as well (11 steps): the answer to a detach that was released meanwhile clears the IRT entry of
  the channel's next user.
- `LUDBTimerProc.cpp:58` - a purge that was queued unregisters a fresh registration, even of another mobile
  that has been given the entry.  `vbTimer \cap purgeTimer = {}` fails.
- By reading: REG_REJ with the entry -1 indexes before `mmEntries`; a failed URQ after an SRS without key leaves
  SECINREG without a watchdog; `VBLinkSecurityRequest` returns its error as success (`vblink.cpp:1255`);
  `ludbCheckAuthCount` has a path without a return (`ludbapi.cpp:347`); the reassembly of `VBLink()` (`vblink.cpp:392` to `:510`)
  keeps the length of a message across a reconnection and misreads a header that comes in two pieces; paths of
  `MMMdMsgProc.cpp` (560 to 565, 339 to 360, 1035, 1214 to 1230) leave an entry of MM without a watchdog.

## 5. Proofs

All theorems hold for every value of the constants that satisfies the assumptions of the module
they are about (`WindowAssumption`, `ChanAssumption`, `RegistrationAssumption`, `SchedulerAssumption` and those of the links), and the hypotheses that a theorem names.

`RlcWindowProofs`: `Inc`, `Plus` and `Dist` stay in range and undo each other; how a span of the
window splits, shrinks and is empty; the search of a loop that meets a non-empty set
returns one of its members.  Both links rest on it.

`DLRlcLinkProofs`:

- `TypeCorrect`: `TypeOK` is inductive as it stands; a lemma per operation.
- `PoolCorrect`: `PoolOK` alone is not inductive: that a block taken
  from the pool is not `Null` and that a returned block is one of the link's needs the
  types, so the invariant is `TypeOK /\ PoolOK`.  Blocks move at five places: building,
  the reuse of an index, the bitmap, the release handlers, re-establishment.
- `AlwaysWatched` (`Watched`) and `NoPduForgotten` (`NoPduLeftBehind`): both speak of moments in which
  nothing is under way, so the invariant `TimerInv` says what is under way in all others.  A timer
  `Runs` if it is set or its expiry is in the queue; a poll is `Open` if it is on the radio or its outcome is in
  the queue, with the TBF's tag.  `TimersOK`: the Activity timer runs, and T3193 does when
  the flag says so.  `StateWatched`: each state that cannot send has a timer that runs or an open poll of the right kind.
  `TagsOK`: an outcome with the TBF's tag is one that the state can make use of (an
  assignment's, or that of the last block once there is one); without it the outcome could be swallowed by the wrong
  handler.  `PduSeen`: at the end of an acknowledged transfer, a waiting PDU has its request in the queue, or the poll that
  looks for it is open.

The second part of `DLRlcLinkProofs`: `LinkInv`, from which `WindowCorrect` (`WindowOK`) and `AcksSound` (`AckSound`) follow.

- Neither is inductive, since both depend on reports not yet taken.  `QueueOK` says of every PACKET DOWNLINK ACK/NACK
  in the queue that from the present V(A) on it acknowledges only what the MS has, that a later one has no smaller SSN, and that
  one with the final bit comes after the last block.  `Window`: only blocks of the window await an acknowledgement, and V(A)
  is not above what the MS has.
- A report keeps being right because V(A) only moves to the SSN of an earlier one, or to the first index not acknowledged: this
  is where the order of the queue is used.
- After re-establishment reports of the TBF before are still in the queue.  `Fresh` says that they do no harm: they find no
  block, and the TBF becomes ALLOCATED, and builds its first block, only by the outcome of its own assignment, which is behind them all.
- `FaultCauses` (`FaultCause`) is an action property proved from `LinkInv`: a report that neither repeats V(A) nor precedes the
  first block meets only blocks that are there.

`ULRlcLinkProofs`:

- `RcvTypeCorrect` (`RcvTypeOK`): the invariant adds that while there is a TBF the block the
  scan ends in is held, and that no TBF is released between the PDUs of one call (`PduHeld`).
- `RcvPoolCorrect` (`PoolNotOverfull`): free blocks and those held by the TBF are together at most the
  pool.  Each of the places that return blocks keeps the sum, also `ReleaseDataBlocks` with its count modulo
  the sequence space and one (`PoolStep`); only establishment over a TBF that holds blocks lowers it.

`ULWindowProofs` is about transfers shorter than the sequence space (`ShortTbfs`, an assumption on
`Layouts`).  It is needed: where numbers wrap, `VQSound` and `BitmapReports` are false (section 4).  For `MSAckSound`, `NoHoles`,
and `RcvWatched` TLC found no violation in the instance of `ul_wrap`, but nothing is proved of them there.  A TBF in
the product may have more than 128 blocks, so these theorems cover its short transfers only.

- `VQCorrect`, `MSAckCorrect`, `BitmapCorrect`: the invariant `ShortOK`.  `RcvOK` ties V(R), V(Q) and V(N) to the set of
  blocks that came; it is kept because a block in the queue was sent while the window allowed it, and so nothing a
  window ahead of it has arrived before it (`InOrder`): otherwise the test for a "new" block would take it for one.  `AcksOK`
  says of every acknowledgement on the radio that its bitmap is right; one that is late stays right, since blocks do
  not become missing.
- `RcvAlwaysWatched` (`RcvWatched`): `WatchOK` is the same with the expiry of T3169 in the queue and the poll's outcome under
  way.  `PollOK` is why a lost outcome ends well: the final acknowledgement that ReceivePacketControlNack sends again is
  final again, so it is polled for, until N3103 starts T3169.
- `PdusWhole` (`NoHoles`) needs `EndsGoOn` as well: only in a TBF's last block is a PDU followed by fill, as in a transfer with the
  RLC of the mobile; without it see line 737 in section 4.  `HeldOK`: a block lies at its own index; from `firstDataBlock` on
  nothing that came has been released; and a PDU is put together only from blocks below V(Q), which `VQCorrect` says have all come.
- `PoolKept` (`PoolConserved`) needs that the MS does not ask again while it has a TBF (`~StaleRequest`; with stale requests
  `MacAllocation.cpp:540` loses blocks).  The sum is then lowered by nothing, given that a TBF that is established holds no block: `EmptyOK`, a
  free TBF holds none, and `ReqOK`, a request is taken only when the release of the TBF before has been, because the MS asks after it has answered the
  final poll.  That this answer releases the TBF depends on its tag, of which there is one (`OneOK`): a block accepted
  while it is under way would send a second final message, and the tag would pass to that.  None is accepted: in
  acknowledged mode the window test turns all blocks away, in unacknowledged mode only the last block can still come (`UnackOK`).

`RmChannelProofs`:

- `TypeCorrect`: `TypeOK` is inductive as it stands.
- `ChannelsSafe`: `ChannelStateAgrees`, `NoOrphanRadio` and `AckedIsIdle`, which are inductive together with
  `TypeOK`: that a free channel is off needs that the two states of a channel agree, and a locked one
  stays idle because allocation reads the field that the shutdown sets.  `StatesAgree` and `AckedStaysIdle`
  state the other two parts by themselves.
- `DspWillAnswer` (`DspAnswers`): inductive with the types and `ChannelStateAgrees`.  A channel that waits has its command
  with the DSP or an answer in the queue; each handler that takes such an answer, and no other, ends the wait.
- `HandoversAnswered`: as long as OAM does not shut the beacon down, a handover request that was accepted
  is one that S2 will answer.  The condition is needed: with the beacon blocked the request is turned away by
  `HoReqDropped`.
- `ImplementsUse`: `Spec /\ []MmTold => UseSpec`, initial states and every step of `rm` map to `ChannelUse`.
- `MmAlwaysTold` (`MmTold`) and with it `ImplementsUseClean` (`UseSpec`): under `GivenOutClean`, a channel is given out only when the queue
  of the task holds no EST_IND or HANDOVER COMPLETE of an earlier use of it.  The code does not check this; it relies on
  queues being short.  It is needed: with room for seven messages (and four commands) there is a behaviour of 46 steps, which TLC confirms
  when it is led along it, in which a stale HANDOVER COMPLETE makes a connection while the expiry of T3L02 of the use before
  is behind it in the queue; that expiry then ends the connection in S7 without a word to MM.
  Expiries, answers of the DSP and requests of MM may be stale under the condition.  `MmTold` says nothing of timers, so the invariant
  `Told` adds that a connection has no T3L02 running or queued.  That holds at its start because while the
  channel is set up nothing by which a mobile connects stands in front of an expiry of T3L02 (`InOrder`), and none comes while T3L02 runs.

`RegistrationProofs`:

- `TypeCorrect`, `IrtCorrect`: the invariant `EntriesOK` adds to the types that the entries named by a detach
  exist and that a free entry is on no channel.
- `DetachCorrect`: messages of a queue stay in it until they are taken, and the handler of an UNREG_REQ
  always answers.
- `RegistrationsAgree` (`ActiveRegistered`) and `EntriesGuarded` (`Guarded`): both speak of moments in
  which nothing is under way and say nothing of any other, so the invariant `LudbOK` says what must be in the
  queues.  An entry that is active or waits for its key belongs to a registered mobile, or a message that clears it is
  in the queue of LUDB; a profile in the queue is of a registered mobile, or is followed by such a
  message (the order matters: a profile behind it would revive the entry); an entry that
  waits has its request at the GMC or an answer in the queue; an inactive one has its watchdog running or the expiry in
  the queue; no mobile has two entries.  A step of LUDB takes the first message: `EntryStep` says that
  an entry either stays and that message is not what it waits for, or the step justifies its new state.

`MacQueueProofs` and `MacSchedulerProofs` hold for any number of timeslots, TBFs, delay classes and entries.
`SchedulerAssumption` asks for finite pools, queues of two entries or more that are so short that the importance of every entry
in use is below `NullImportance` (9999, that of a null entry; the queues of the code have 4 to 12), and tables whose numbers are below `Invalid` (255).

- The operators walk over queues and slots with loops, and the library's induction takes an operator as a parameter.  The loops are
  therefore written as recursive functions, and each induction is by the least number for which the claim fails
  (`NatMin`, or the size of the set of slots still to be visited).
- `MacQueueProofs`: what the calls of `ScheduleQueue.cpp` do to one queue.  `Leads` is a strict total order, so that the first
  places of the sort are a set of the size asked for, and `Takes` says which entries a user takes and what he writes
  there; allocation, `BalanceEntries` and the removal of a user are instances of it.  A queue is `Regular` if it
  is empty or full, each user has one precedence, a user has a first entry (`FirstIn`, number 0) and his
  numbers have no gap (`NoGaps`).  `NoGaps` is why a user in a queue of his
  own precedence always finds an entry to take when they are balanced, and that first entries are never
  taken is why nobody is driven out of a queue without being told.
- `MacSchedulerProofs`: `TypeCorrect` and `FirstsHeld` (`FirstEntryHeld`) need the types of the tables and that queues
  stay `FirstIn`.  For `EntriesHaveOwners` (`EntriesOwned`), `NumbersHaveOwners` (`NothingLeaks`) and `LevelsFull`
  (`LevelsFullOrEmpty`) the invariant is `Good`: every queue is `Regular`, and for each TBF `QueuesOwned`, `TfiOwned`, `TaiOwned`
  and `UsfOwned` say that entries and numbers in its name are on its own transceiver, in its own direction, and that a
  free TBF has none.  A request is a chain of at most three `Calls` (a TBF is released, given resources, moved to a
  transceiver, reallocated), whose intermediate states no action shows, so `Good` is proved of each call.  Within a
  call the TBF it is about may break `Good` (its entries are written before its slots); `Sound` says what still holds of all others.
- These three have the hypothesis `OnePdchTrx`: all packet timeslots are on one transceiver.  It is
  needed: `MacScheduler.cpp:235` overwrites the transceiver of a TBF whose entries are on another (section 4).

With TLC only: `MmTold` of `rm` without `GivenOutClean` (queues of two messages, where it holds all the same), the uplink properties of `ULWindowProofs` where the hypotheses named
there do not hold (`ul_wrap` checks `PoolConserved` across the wrap), the scheduler with packet timeslots on two transceivers, and
the liveness properties, which are out of reach of the prover, as is `ENABLED`.

## 6. Not modelled

See "components" in `PROJECT.json` for the reason of each.  Protocol logic that the modules do not reach yet: calls, security
requests, handover and emergency calls in `mm`; `cc`; BSSGP and its flow control; paging; CSU; the signalling queue of
RLC/MAC and the reuse of control ack tags; in the scheduler single block requests, capacity, preemption and OAM; in VBLink
the reassembly of messages.  Codecs, drivers, media, DSP, the operator interface and third-party stacks are left out: they are
I/O, bit layout or real-time code without states that these properties are about.
