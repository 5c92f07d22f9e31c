# Verification of the Aerial FAPI connector

TLA+ models of the bridge between OCUDU (the DU) and NVIDIA Aerial's L1: the shared-memory
transport and its threads, the request gateways, the message serializers and decoders, and the
slot extender added to OCUDU. TLC checks them on small instances; TLAPS proves the main safety
properties for every value of the constants.

Line numbers are those of the sources in `src/`. `PROJECT.json` maps every definition to the
lines it models, every run to its properties, and every property to a mutation of the code's model
that it catches (the definitions marked *Deviation* in the modules; `Next` uses none of them).

## 1. The system

```
   OCUDU P5 thread      OCUDU P7 thread                          OCUDU notifiers
        |                    |                                        ^
  aerial_p5_gateway    aerial_p7_gateway, on_last_message       dispatch_message
  sector start/stop          |                                        |
        +--- tx_allocate / tx_send / tx_sem_post ---+        rx_thread::run_loop
                                                    |     rx_sem_wait / recv / release
                                             nvIPC (shared memory)
                                                    |
                                              Aerial L1 (cuPHY)
```

| Component | State | Operations | Interacts with |
|---|---|---|---|
| `aerial_fapi_adaptor` (aerial_fapi_adaptor.cpp:564-620) | owns transport, RX thread, one sector | constructor (connect, start thread; throws), destructor, `get_sector_adaptor` | all below |
| `nvipc_transport` (nvipc_transport.cpp) | `ipc_` | `connect`, `disconnect`, TX and RX calls | nvIPC, L1 |
| `rx_thread` (rx_thread.cpp) | `running_`, `thread_`, four notifier pointers | `start`, `stop`, setters, `run_loop`, `dispatch_message` | transport, decoders, OCUDU's notifiers (callbacks) |
| P5, P7 gateways, sector adaptor, last-request notifier (aerial_fapi_adaptor.cpp:32-558) | none of their own; the message in hand | one method per request, `start`, `stop`, `on_last_message` | transport, serializers |
| Serializers (msg_translator.cpp:440-1396) | cursor, `data_offset` | `serialize_*` | the gateway's buffers |
| Decoders (msg_translator.cpp:1398-1990) | cursor, `data_offset` | `deserialize_slot_indication`, `dispatch_*_indication` | notifiers, called inside the loop with spans into the nvIPC buffer |
| Runtime metrics (msg_translator.cpp) | relaxed atomic counters | increments on the RX and P7 threads, reset at `start`, dump at `stop` | read by scripts |
| `slot_point_extender_adaptor` (ocudu_patches) | `last_slot`, `last_extended_slot` | `on_slot_indication` | between RX thread and OCUDU's slot handler |
| `aerial_split6_plugin` | configuration | options, factory | builds the adaptor |
| `bridge_test` | counters | a stand-alone receive loop | transport |
| patches, scripts, build | - | - | - |

What is hard here:

* **Lifecycle against the RX thread.** `stop()` detaches rather than joins, because the thread may
  be asleep on the semaphore; the destructor then destroys the interface and frees the adaptor.
  The constructor can throw at two places. The thread runs before any notifier is registered.
* **Wakeups and drains.** L1 posts one semaphore for any number of messages; the thread drains the
  queue per wakeup. Neither may a message be slept on nor a buffer be lost on one of the many early
  returns of `dispatch_message`.
* **Exhaustion.** Both directions live from fixed pools. TX methods give up silently, but the slot
  is posted all the same.
* **No answers are awaited.** `start()` sleeps 2 s where the protocol has a response.
* **Layouts found only by adding up lengths**, with L1's messages possibly cut off at any byte.
* **Wrapping slot numbers**, guessed numerologies, lost, damaged, repeated and late indications, and
  silences longer than the cycle the slot numbers wrap in.
* **Counters without order.** Metrics are reset and read one by one while two threads count.

The correctness properties of each component are those in section 3; the hazards they are for are
listed in `PROJECT.json` at their lines.

## 2. Modules

### `IndicationChannel`, `RxPath`, `MCRxPath`, `RxPathProofs`

`IndicationChannel` is what the uplink path promises: one queue of messages, the oldest shown to its
notifier once or passed over, then retired, and no buffer refilled before that. There are no threads
in it.

`RxPath` is the code: the owning thread (`owner` walks through constructor, life and destructor),
the RX thread (`rxPc` walks through `run_loop`), nvIPC and L1.

| Variable | Code |
|---|---|
| `owner`, `thrown` | position in `aerial_fapi_adaptor()` / `~aerial_fapi_adaptor()`, and whether the former threw |
| `ipc` | `nvipc_transport::ipc_`: null, live, or destroyed and not yet cleared |
| `running`, `joinable` | `rx_thread::running_`, `thread_.joinable()` |
| `registered` | which notifier pointers are set |
| `rxPc`, `held` | position in `run_loop`, message between `rx_recv` and `rx_release` |
| `faulted` | a call through a dead handle or a read of freed memory had no defined outcome |
| `queue`, `sem`, `free`, `fresh` | nvIPC: messages, TTI semaphore, buffer pool; `fresh` counts the messages not covered by a post yet |

Choices: every access to something shared with another thread is a step of its own. A call through
a null or destroyed handle does not return (`RxFault`). After the adaptor is freed the thread's
reads of it see the old contents or fault, both are possible. A message is a buffer, an id, and
whether it passes the length checks; one callback stands for all callbacks of a message. A
`sem_wait` that sleeps while the interface is destroyed may sleep for ever. The adaptor has one
sector; several cells are a non-goal of the code (DESIGN.md 1.2).

The refinement mapping to `IndicationChannel` puts the held message in front of the queue and reads
the phase of the oldest message off `rxPc`.

### `TxPath`, `MCTxPath`, `TxPathProofs`

Two OCUDU threads, P5 and P7, go through the gateways: `Enter`, `Allocate` or `AllocateFails`,
`Send` or (P7) `SerializeFails`. `stage` and `call` are each thread's position and request. Around
them are `aerial_sector_adaptor::start` (`sector`: CONFIG, a sleep, START), `stop`, the P7 thread's
slots (`slot`, `todo`, `lost`, `posted`), the nvIPC queue and pools, and an L1 that takes requests,
needs time for CONFIG, indicates slots once running, and may die at any time.

The two pools matter, so `queue` has whole requests and DATA is counted for TX_DATA only.
`SerializeFails` exists in the code (msg_translator returns an error, the gateway releases); with
the 15000 bytes the gateways ask for it is not reached today. L1 takes P5 messages without a
semaphore post, because `start()` makes none. That it would is an assumption: `bridge_test` posts after
CONFIG_REQUEST and after START_REQUEST (bridge_test.cpp:202, 251). An L1 that waits for a post to read P5
messages is not brought up by `start()`, and `StartTakesEffect` says nothing of it.

### `TxData`, `MCTxData`, `TxDataProofs`

`serialize_tx_data_request` (msg_translator.cpp:1313-1396): one `WritePdu` per turn of the loop,
`Finish` for `data_len`. Bytes are abstracted to offsets and lengths. The message may have no data buffer
(`data_buf`, the null test of line 1375); `stored` says of a header whether its block was copied and is not in the
message. The -1 of line 1326, for a message buffer that holds no header, is `SerializeFails` of `TxPath`.

### `RequestLayout`, `MCRequestLayout`, `RequestLayoutProofs`

The requests that are lists: `send_config_request` with its TLVs, `serialize_dl_tti_request`,
`serialize_ul_tti_request` and `serialize_ul_dci_request` with their PDUs. One `WriteItem` per call of
`add_tlv` or per turn of a loop, `Finish` for the headers. An item is its type and the length of its repeated
part; a PUSCH has its two optionals and its transform precoding alternative. The `...Bytes` operators are what each
`serialize_*_pdu` writes. CSI-RS is in OCUDU's lists and not in the code: nothing is written for it and it
is not counted.

Of a PUSCH the code decides three things in three places: the bitmap (`Bitmap`, msg_translator.cpp:745-752), the
transform precoding field (`Flag`, 785-796), whose 0 means enabled and which later decides the DFT-s-OFDM block, and
the blocks that are written (`Blocks`, 860, 877, 900, 909), in the order `Turn`. `Written` keeps what each of them
left behind. The readers are external: `Walk` goes from item to item by their sizes, `ReadAt` from block to block of a
PUSCH, in the order of the bits of its bitmap, with the receive beamforming block last because
msg_translator.cpp:908 says that "Aerial always expects" it there. What L1 expects at the end of the other uplink PDUs is
not stated consistently (section 3), and no property is about it. `FitsBuffer` states how many PDUs are safe in
a buffer whose end is never looked at: 130 of the longest in 15000 bytes. Nothing in the code keeps a request to that
many, and the property says nothing of a longer one.

### `SlotExtender`, `SlotPath`, `MCSlotPath`, `SlotPathProofs`

`SlotExtender` is `on_slot_indication` of the patch, for a stream of positions in the SFN cycle less
than half a cycle apart. OCUDU's `slot_point` arithmetic is external: difference is the shortest signed
distance round the cycle. `cycles`, `lead`, `behind`, `regressed` are history, by the
differences the stream shows: the cycles passed, how far extended time is ahead of the received slot, how far the
received slot is behind the newest one, whether any indication was not a forward one.

`SlotPath` composes it with what produces that stream: L1 at `sfn` and `slot` of the numerology
it runs, its message, lost or damaged (`Unheard`) or arriving (`Heard`), and `deserialize_slot_indication`,
which takes OCUDU's numerology unless the slot number is too large for it. L1 may move forward or back
between messages and be silent for longer than a cycle. `since`, `time`, `missed`, `long`, `late`,
`newest` are history, and of what L1 really did: its progress since the last message heard, its extended time, the cycles
a silence hid, whether it was ever silent for half a cycle or more, how many slots its repeated and late messages lacked
of moving forward by one, and how far the newest slot heard is past the last one. The extender itself gets the progress
folded into the cycle (`Fold`), as positions show it, so its own history is of apparent progress; the properties
run are about L1's. From the first slot in another numerology on (`mixed`) OCUDU subtracts slots of two kinds, which is
not followed: none of the properties says anything of extended time after that. An L1 slower than OCUDU never causes
it, but its slots are read in OCUDU's numerology, which is not its own.
`PathSpec` implements the extender's `Spec`; that is how the extender is checked.

### `UciDecode`, `MCUciDecode`, `UciDecodeProofs` and `IndicationDecode`, `MCIndicationDecode`, `IndicationDecodeProofs`

The loops of `dispatch_uci_indication` and of the CRC, RX_DATA, RACH and SRS decoders, as a cursor
over what L1 wrote. In `UciDecode` L1's PDU is chosen when the loop reaches it: any type, any set of
sections, any payloads, any size that leaves sections cut. In `IndicationDecode` the whole message
is chosen first and is cut off at any byte, as is its data buffer, which may also be missing; the loop over
the items of a PDU is a recursive function (`Walk`), so one action is one turn of the outer loop, its
callback included. `Start` and `Block` say where L1 put a PDU and its block: the sums of what is before them.

### `Metrics`, `MCMetrics`, `MetricsProofs`

The counters, one step per access. The thread of `start` and `stop` (`owner`) resets and reads them one
by one, in any order, since the stores and loads are relaxed; the RX and P7 threads increment the counters
of an event one by one meanwhile (`hand`). `sure`, `perhaps`, `overlap`, `due`, `owed` are history: the
increments certainly and possibly in the session, the events that overlapped a reset or dump,
and the PUSCHs that have no CRC yet.

## 3. Runs

| Run | Instance | Shows |
|---|---|---|
| `rx_path` | 2 buffers, one id with a notifier and one without, semaphore up to 2 | `Lifecycle`, `Conservation`, `NoLostWakeup`, `FaultOnlyAfterTeardown`, `NoDrainAfterStop`, that `RxPath` implements `IndicationChannel`, and `PostedHandled`, `PoolRefills`, `TeardownEnds` |
| `tx_path` | 2 MSG and 1 DATA buffers, 2 slots, DL_TTI and TX_DATA, L1 faster than the sleep | pools conserved, `NothingAfterPost`, `EverySlotIsPosted`, `ExhaustionEnds`, `StartTakesEffect` |
| `tx_data_layout` | buffer 12, alignment 4, sizes below, at and above each, 4 PDUs | the copied blocks are disjoint and aligned (`BlocksDisjoint`, `BlocksAligned`), and end inside the data length, as no block does that was not copied (`StoredIffInside`) |
| `request_layout` | the CONFIG.request and every DL_TTI, UL_TTI, UL_DCI request of up to 4 PDUs, counts that wrap at 4, DCIs of 39, 40 and 41 bits, room for 3 of the longest PDUs | `WalkFindsEveryPdu`, `PuschBlocksInPlace`, `PdschIndexIsRank`, `FitsBuffer` |
| `slot_path` | 3 frames of 2 slots, 3 HyperSFNs, L1 in OCUDU's numerology, below or above, moves of -2..2, up to 7 slots unheard | without a silence of half a cycle extended time is L1's, ahead by what repeated and late messages lacked (`FollowsL1`) and never before a slot L1 indicated (`NeverBehindL1`); it never goes back (`AlwaysForward`), only a faster L1 mixes numerologies, longer silences cost whole cycles (`SilenceCostsWholeCycles`), `SlotPath` implements `SlotExtender` |
| `uci_decode` | 2 PDUs of every type with every set of sections, holdable and too long payloads, six ways of being cut | sections read in place, delivered exactly if complete and holdable |
| `indication_decode` | every message of up to 3 PDUs of up to 2 items, message and data buffer cut at every byte | PDUs read in place, nothing whole is lost, every block is its own PDU's, inside the data buffer and shared with no other |
| `metrics` | 4 counters of PUSCHs and CRCs, 2 sessions, 4 events | the summary counts its session, adds up but for what overlapped it, and has no CRC without a PUSCH |

Why the bounds are enough. *RX*: with 2 buffers one can be in the thread's
hand while the other is queued, posted or not, and the pool runs out; what the properties say of
buffers is about one or two of them, and the safety half is proved for any number. A semaphore of 2
gives a surplus post, the case where a wakeup finds nothing. *TX*: 2 MSG buffers let both threads hold
one at once and run out while either holds one; the DATA pool of 1 runs out with one TX_DATA in flight;
2 slots let the next one begin while messages of the last are queued. *TX_DATA*: the sizes are on both
sides of the alignment, of the buffer's end and of the length field; 4 blocks give a block that does not
fit between two that do, and the data buffer may be missing. *Requests*: DCI sizes on both sides of a byte boundary, and as many PDUs as make
the count wrap and the buffer overflow. *Slot path*: the cycle is even, so a difference of exactly half a
cycle occurs, the one that has two readings; silences reach past one whole cycle either way,
moves without one go through the cycle and the HyperSFN range several times, and a lead of 3 slots is half a cycle. *UCI*: 2 PDUs show that one PDU's damage does not move the
next. *Decoders*: the cuts are exhaustive. *Metrics*: a second session is what finds stale counters; 4
events fill both threads' hands twice. UCI reports are counted as CRCs are, by the same thread, and are left to
the proof. Deadlock is not checked where the system stops: an adaptor that
is gone, an L1 that died, a message that is finished, a bound that is reached.

The type invariants of `TxData`, `RequestLayout`, `Metrics` and the slot path, `CleanEnd` of `RxPath`, and
`FollowsForwardStream`, `NeverBehindNewest` and `LeadIsPermanent` of `SlotExtender` are not run: they are proved. The
last three are about the extender's own stream, with indications less than half a cycle apart; what `slot_path` runs is
about L1's.

`CrcsFollowPuschs` of `metrics` assumes that L1 sends at most one CRC for a PUSCH.

Fairness. `RxPath`: the kernel schedules both threads of the bridge, so each makes a step it can
make (weak fairness on `Construct`, `Teardown`, `RxStep`), and L1 posts what it sent while it is up
(`L1Post`). Nothing is assumed about destroying, registering, faulting, sending, starting or
crashing. `TxPath`: the P5 and P7 threads run, and an L1 that is alive takes messages and finishes
CONFIG, without waiting for a post and sooner than `start()` wakes up; it need not tick or die. A callback is assumed to return.

### Where the code and its documents disagree

Four runs check a sentence of the repository that the code does not keep:

| Run | Sentence | What happens |
|---|---|---|
| `rx_set_before_start` | rx_thread.h:60 "set before start, read from RX thread" | the constructor starts the thread, notifiers can only be set after it; plain pointers change under a running reader and early indications are dropped |
| `rx_l1_crash` | DESIGN.md:259 "RX thread detects broken SHM, triggers OCUDU shutdown" | the thread sleeps on the semaphore for ever |
| `tx_start_order` | DESIGN.md:249-250, START after CONFIG_RESPONSE | a fixed sleep stands for the response |
| `tx_data_tlv_length` | msg_translator.cpp:1365 "length = tb_size" | the length is cut to 16 bits, and NR blocks can be longer than 65535 bytes; `pdu_len` has the whole length |

Seen while modelling and not given a run: `on_last_message` posts "all FAPI messages for this slot have
been sent" (aerial_fapi_adaptor.cpp:449) also when requests were dropped for want of a buffer; DESIGN.md:192
has CSI-RS mapped, msg_translator.cpp:715 leaves it out; a failed `connect` throws at once where DESIGN.md:255 has
"Retry with backoff"; the destructor destroys the interface under a message the thread may hold
(DESIGN.md:165 has every received message released; `FaultOnlyAfterTeardown` is the boundary that
does hold); msg_translator.h:170 has an "RX beamforming block used by PRACH/PUSCH/SRS uplink PDUs", but PRACH
and SRS PDUs are written without it and PUCCH with it, so one of the comment and the code is wrong for each of the
three; a TX_DATA block that does not fit the data buffer is not copied, and nothing is logged, but its header goes out with its
`pdu_len` and with the offset the next block is then copied to (msg_translator.cpp:1351-1372 against 1375): L1 is told to read
past `data_len`, or another block's bytes, and can tell only by comparing offset and length with `data_len`
(`StoredIffInside` says that this comparison is right); behind an RX_DATA block that is cut off, a shorter one
gets the bytes left of it, because `data_offset` stays (msg_translator.cpp:1573-1576; `BlocksInsideData` says
that these bytes are at least nobody else's); after a repeated or late indication the extended slot stays ahead of the received one,
where slot_point_extender_adaptor.h:16-17 has it follow (`FollowsL1` states what the code does, `LeadIsPermanent` that
nothing undoes it).

## 4. Proofs

All theorems assume only the named `ASSUME` of their module: positive sizes, ids in range, the "no
value" constants distinct from values, and in `TxData` that the buffer is a multiple of the alignment
(576000 = 18000 x 32), in `RequestLayout` that a DCI has at most 568 bits (NR's have 140), in `SlotPath` that
powers of two are positive and grow (`PowersAssumption`: the provers know no powers), that the cycle is
whole frames, that `Fold` stays within the extender's steps, and that the lead allowed is less than the whole
HyperSFN range, since a lead of a range cannot be told from none. None bounds a pool, queue, number of slots,
of PDUs, of events or of steps; the bounds `MaxSem`, `MaxSlots`, `MaxPdus`, `MaxLead`, `MaxSilence`,
`MaxEvents` are parameters with any value.

* **RxPath.** The invariant is `Control` = `TypeOK /\ HandOK /\ Lifecycle`. Type correctness alone is
  not inductive: that `rx_release` has a buffer to release needs `HandOK` (a message is in hand exactly
  from receive to release), and that each step's handle and flag are as expected needs `Lifecycle`,
  one conjunct per point of the owner. `FaultOnlyAfterTeardown`, `CleanEnd` and `NoDrainAfterStop`
  follow from it or with it. `Conservation` is inductive over it, with lemmas on the buffers in a
  queue after `Append` and `Tail`. `NoLostWakeup` is inductive over it too: posting makes `fresh`
  zero and the semaphore positive, and only the wakeup, which leaves the sleeping states, takes from
  it. `ImplementsTheChannel` maps initial states and every step, and uses `Conservation` for
  `Submit`'s guard.
* **TxPath.** `Inv` = types, a call in hand exactly when a thread is in a gateway (`CallOK`), and the
  two counting equations. CPU_DATA counts the TX_DATA messages in the queue, so its proof rests on
  lemmas on the cardinality of a set of positions after `Append` and `Tail`. `NothingAfterPost` needs
  that a P7 call is for the slot at work, which is not yet posted.
* **TxData.** `Skipped`: a block that was not copied, and has a byte, ends beyond the buffer, or there is no buffer
  and `data_offset` is still 0; with the bound on `data_offset` that is the second half of `StoredIffInside`.
  Disjointness is not inductive without "the end of every stored block is at or before
  `data_offset`", alignment not without "`data_offset` is a multiple", and the buffer bound not
  without both: a block that fits before an aligned end fits with its padding. The modular arithmetic
  is in a few lemmas.
* **RequestLayout.** The invariant is the types, `PuschBlocksInPlace` and five more statements about what is written:
  `Placed` (each item is behind the one before), `Counted` (the header counts, modulo their
  width, so adding one needs the uniqueness of remainders), `Ranked` (`pdsch_index` is the number of PDSCHs so
  far), `Roomy` (no item is longer than `LongestPdu`, and each TLV is one of the thirty), `Ended`. `PuschWritten` is why a
  PUSCH's blocks are in place: the three conditions come to the same set, and the order of the bits is the order of
  writing.
* **SlotPath.** `SlotPathProofs` begins with the extender alone: besides the types, while nothing regressed
  the lead is zero and the extended slot is the received one in HyperSFN `cycles`; always, the lead is
  at least the lag. Then the path: `InStep` says that L1 is where the last slot heard and `since` say, whole
  cycles apart, so a message that is heard is the last slot moved by the folded difference, which is a step
  of the extender (`PathImplementsExtender`). `SilenceCostsNoMore` adds the reckoning: `time` is what cycles, last
  slot, `since` and missed cycles add up to, some HyperSFN ranges apart (`Reckoned`). `PathFollowsL1` and
  `PathNeverBehindL1` need two more parts: `Led`, that extended time is what cycles and last slot add up to, plus
  `lead`; and `LatenessInv`, that until L1 is silent for half a cycle what the extender sees is what L1 did (`late` is `lead`,
  `newest` is `behind`, no cycle is missed), because less than half a cycle is not folded (`NothingFolded`). Together
  they put extended time `late` slots after L1's, ranges apart, and a remainder is unique.
* **UciDecode.** The cursor is where the section begins, or no later section fits any more (`Over`), and what was
  taken over are the sections before it that are complete and holdable (`InPdu`). What makes the
  early exits right is `HeadersGrow` (no header is longer than a later one, so what stops one section stops the rest)
  and `CsiPart2IsLast` (the payload that need not be there has nothing behind it).
* **IndicationDecode.** `ReadInv`: the cursor is where the next PDU starts, or that PDU starts beyond the end of
  the message and no header fits behind the cursor either (`AtNext`); every delivery so far is of the PDU of its
  turn, with all its items if they are there (`InPlace`). `AtNext` needs its second half because the loops leave
  the cursor in different places when an item is cut off; what they share is that too little is left for a
  header (`ItemTurn`). `OwnInv` says the same of `data_offset` and the data buffer (`AtNextBlock`);
  `BlocksInsideData` needs only that the blocks handed over end at or before `data_offset`, which only grows.

  Where a PDU starts is a sum over a sequence of any length, and how far `Walk` gets is computed along one, so
  these proofs need induction. The library's induction theorems take an operator as a parameter, but that every
  set of naturals has a least element follows from two that do not (`NatLessThanWellFounded`, `WFMin`). From
  it come `Induction`, over a set, and `Recursion`, that a function with a given start and step exists; so
  the equations that define `Sums` and `Walk` hold (`SumsAre`, `WalkTurns`), and an induction along the items
  gives `WalkReaches`: a PDU that is there in full is passed to its end with all its items.
* **Metrics.** `Tallied`: for every counter, by the point its reset or its load has reached, its value and the
  value shown lie between `sure` and `perhaps`. For two counters a relation between their values is not
  inductive, since an event may be counted in one and not yet in the other; one between what they hold once
  the events in hand are counted (`Ever`) is. `Since` is what of that a reset has not cut off, `Late` what of it
  a load has missed. `Balanced`, for a total and its parts, and `Followed`, for CRCs and PUSCHs, bound both by the
  events that were in hand or came while counters were reset or read, which is `overlap`, and while the
  counters are read split it in two: what the reset may have cost and what the loads may (`m`). What is due
  closes the second balance: a CRC in hand was an outstanding PUSCH, a PUSCH counted is one sent
  (`Outstanding`). Both rest on the tables of what each event counts (`P7Table`, `RxTable`): the counters
  of a balance belong to one thread.

Every invariant and every action property that a passing run checks, and the refinement of `IndicationChannel`, is
proved. Model-checked only is what needs fairness (liveness and ENABLED are out of TLAPS's reach):
`TeardownEnds`, `PostedHandled`, `PoolRefills`, `EverySlotIsPosted`, `ExhaustionEnds`, `StartTakesEffect`. The four runs
of section 3 that end in a violation have nothing to prove.

## 5. Not modelled

* **Split-6 plugin** (`aerial_split6_plugin`): reads options and builds the adaptor once; it keeps no state that
  changes afterwards. The lifecycle it starts is `RxPath`'s.
* **bridge_test**: a connection test of its own, one thread that sleeps, polls and counts, and
  sends the same 30 TLVs as the bridge; it is not part of the bridge. What can go wrong in it (it waits for a post after SIGINT) is listed among the hazards.
* **gdr_stub, fmt_compat**: link-time shims; the stub forwards to `mmap` and `memcpy` and keeps nothing.
* **Patches, scripts, build**: source rewriting, log analysis and configuration. What the metrics script
  computes from a summary is what `SummaryAddsUp` and `CrcsFollowPuschs` are about.
* **Field values** of messages, the log and its limit counters, wording and options.
* **Several cells**: a non-goal of the code; all sectors share one RX thread (see the hazards).

What would come next: several sectors over one RX thread, when the code means to have them.
