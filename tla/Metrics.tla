-------------------------------- MODULE Metrics --------------------------------
(***************************************************************************)
(* The runtime metrics: counters of their own, incremented by the RX       *)
(* thread's decoders and the P7 thread's serializers, set to zero one by   *)
(* one at a sector's start() and read one by one at its stop().  Every     *)
(* access is atomic and relaxed, so between two counters there is no order *)
(* another thread could rely on, and an event (a CRC, a PUSCH) may be      *)
(* counted in one counter and not in the other when they are reset or read.*)
(*                                                                         *)
(* What becomes of the summary: characterize_integration.py takes          *)
(* crc_total - crc_ok for the failed CRCs and compares PUSCHs with CRCs.   *)
(***************************************************************************)
EXTENDS Integers, FiniteSets

CONSTANTS
  Counters,    \* the counters of bridge_runtime_metrics in this instance
  Events,      \* the events handled in this instance
  MaxEvents,   \* bound on the events
  MaxSessions, \* bound on the calls of start()
  None         \* no event in hand

(* What each event counts, PDU or report by PDU; the byte counters count by*)
(* the length of the data, here by one.                                    *)
TxDataCounts == [TX_DATA |-> {"tx_data_reqs", "tx_data_bytes"}]

UlPduCounts == [PUSCH |-> {"ul_pusch_pdus"}, PUCCH |-> {"ul_pucch_pdus"},
                PRACH |-> {"ul_prach_pdus"}, SRS_PDU |-> {"ul_srs_pdus"}]

(* Deviation: crc_total only counts the CRCs that are ok.                  *)
CrcCounts_OkOnly == [CRC_OK |-> {"crc_total", "crc_ok"}, CRC_FAIL |-> {"crc_fail"}]

CrcCounts == [CRC_OK |-> {"crc_total", "crc_ok"}, CRC_FAIL |-> {"crc_total", "crc_fail"}]

RxDataCounts == [RX_DATA |-> {"rx_data_pdus", "rx_data_bytes"}]

UciCounts == [UCI_PUSCH |-> {"uci_total", "uci_pusch"},
              UCI_PUCCH01 |-> {"uci_total", "uci_pucch01"},
              UCI_PUCCH234 |-> {"uci_total", "uci_pucch234"}]

RachCounts == [RACH |-> {"rach_total"}]
SrsCounts  == [SRS |-> {"srs_total"}]

(* One table of two (@@, but of TLA+ that proofs can expand).              *)
Joined(f, g) == [x \in DOMAIN f \cup DOMAIN g |-> IF x \in DOMAIN f THEN f[x] ELSE g[x]]

CountedByP7 == Joined(TxDataCounts, UlPduCounts)
CountedByRx == Joined(Joined(CrcCounts, UciCounts),
                      Joined(RxDataCounts, Joined(RachCounts, SrsCounts)))
CountedBy   == Joined(CountedByP7, CountedByRx)

Threads == {"rx", "p7"}
HandledBy(t) == DOMAIN IF t = "p7" THEN CountedByP7 ELSE CountedByRx
Crcs == {"CRC_OK", "CRC_FAIL"}

ASSUME MetricsAssumption ==
  /\ Events \subseteq DOMAIN CountedBy
  /\ Counters = UNION {CountedBy[e] : e \in Events}
  /\ None \notin [event : Events, rest : SUBSET Counters]

VARIABLES
  value,    \* g_bridge_runtime_metrics
  owner,    \* where the thread that calls start() and stop() is
  rest,     \* counters it has still to reset, or to read
  shown,    \* the summary
  hand,     \* what each thread handles, and where it has still to be counted
  due,      \* PUSCHs L1 has not answered with a CRC
  sure,     \* per counter: increments after start() and before stop()
  perhaps,  \* per counter: increments since start() began
  overlap,  \* events handled while counters were being reset or read
  owed,     \* PUSCHs whose CRC was outstanding when the reset began
  events, sessions

vars == <<value, owner, rest, shown, hand, due, sure, perhaps, overlap, owed, events, sessions>>

Zeros == [c \in Counters |-> 0]

Init ==
  /\ value = Zeros /\ owner = "down" /\ rest = {} /\ shown = Zeros
  /\ hand = [t \in Threads |-> None] /\ due = 0
  /\ sure = Zeros /\ perhaps = Zeros /\ overlap = 0 /\ owed = 0 /\ events = 0 /\ sessions = 0

InHand(e) == Cardinality({t \in Threads : hand[t] # None /\ hand[t].event \in e})
Busy == owner \in {"reset", "dump"}

(* Deviation: crc_total is left out of the reset.                          *)
StartSector_Forgets ==
  /\ owner \in {"down", "shown"} /\ sessions < MaxSessions
  /\ owner' = "reset" /\ rest' = Counters \ {"crc_total"} /\ sessions' = sessions + 1
  /\ sure' = Zeros /\ perhaps' = Zeros
  /\ overlap' = InHand(Events) /\ owed' = due + InHand(Crcs \cup {"PUSCH"})
  /\ UNCHANGED <<value, shown, hand, due, events>>

(* reset_bridge_runtime_metrics begins.                                    *)
StartSector ==
  /\ owner \in {"down", "shown"} /\ sessions < MaxSessions
  /\ owner' = "reset" /\ rest' = Counters /\ sessions' = sessions + 1
  /\ sure' = Zeros /\ perhaps' = Zeros
  /\ overlap' = InHand(Events) /\ owed' = due + InHand(Crcs \cup {"PUSCH"})
  /\ UNCHANGED <<value, shown, hand, due, events>>

(* reset_runtime_metric: the stores are relaxed, any may come first.       *)
Reset(c) ==
  /\ owner = "reset" /\ c \in rest
  /\ rest' = rest \ {c}
  /\ value' = [value EXCEPT ![c] = 0]
  /\ UNCHANGED <<owner, shown, hand, due, sure, perhaps, overlap, owed, events, sessions>>

SectorUp ==
  /\ owner = "reset" /\ rest = {}
  /\ owner' = "up"
  /\ UNCHANGED <<value, rest, shown, hand, due, sure, perhaps, overlap, owed, events, sessions>>

(* dump_bridge_runtime_metrics begins; its loads are arguments of one call *)
(* and have no order.                                                      *)
StopSector ==
  /\ owner = "up"
  /\ owner' = "dump" /\ rest' = Counters
  /\ overlap' = overlap + InHand(Events)
  /\ UNCHANGED <<value, shown, hand, due, sure, perhaps, owed, events, sessions>>

Load(c) ==
  /\ owner = "dump" /\ c \in rest
  /\ rest' = rest \ {c}
  /\ shown' = [shown EXCEPT ![c] = value[c]]
  /\ UNCHANGED <<value, owner, hand, due, sure, perhaps, overlap, owed, events, sessions>>

SummaryOut ==
  /\ owner = "dump" /\ rest = {}
  /\ owner' = "shown"
  /\ UNCHANGED <<value, rest, shown, hand, due, sure, perhaps, overlap, owed, events, sessions>>

(* A thread comes to the counters of an event: of an indication after the  *)
(* notifier was called, of a PDU in its serializer.  L1 answers a PUSCH    *)
(* with a CRC when it has been sent.                                       *)
Handle(t, e) ==
  /\ hand[t] = None /\ e \in HandledBy(t) /\ events < MaxEvents
  /\ e \in Crcs => due > 0
  /\ due' = IF e \in Crcs THEN due - 1 ELSE due
  /\ hand' = [hand EXCEPT ![t] = [event |-> e, rest |-> CountedBy[e]]]
  /\ overlap' = IF Busy THEN overlap + 1 ELSE overlap
  /\ events' = events + 1
  /\ UNCHANGED <<value, owner, rest, shown, sure, perhaps, owed, sessions>>

(* fetch_add(1, relaxed), in whatever order.                               *)
Count(t, c) ==
  /\ hand[t] # None /\ c \in hand[t].rest
  /\ value' = [value EXCEPT ![c] = @ + 1]
  /\ hand' = [hand EXCEPT ![t].rest = @ \ {c}]
  /\ sure' = IF owner = "up" THEN [sure EXCEPT ![c] = @ + 1] ELSE sure
  /\ perhaps' = IF owner = "shown" THEN perhaps ELSE [perhaps EXCEPT ![c] = @ + 1]
  /\ UNCHANGED <<owner, rest, shown, due, overlap, owed, events, sessions>>

Handled(t) ==
  /\ hand[t] # None /\ hand[t].rest = {}
  /\ due' = IF hand[t].event = "PUSCH" THEN due + 1 ELSE due
  /\ hand' = [hand EXCEPT ![t] = None]
  /\ UNCHANGED <<value, owner, rest, shown, sure, perhaps, overlap, owed, events, sessions>>

Next ==
  \/ StartSector \/ SectorUp \/ StopSector \/ SummaryOut
  \/ \E c \in Counters : Reset(c) \/ Load(c)
  \/ \E t \in Threads : \/ Handled(t)
                        \/ \E e \in Events : Handle(t, e)
                        \/ \E c \in Counters : Count(t, c)

Spec == Init /\ [][Next]_vars
--------------------------------------------------------------------------------
(* The variables have the values their declarations allow; an event in     *)
(* hand is counted in no counter but its own.                              *)
TypeOK ==
  /\ value \in [Counters -> Nat] /\ shown \in [Counters -> Nat]
  /\ sure \in [Counters -> Nat] /\ perhaps \in [Counters -> Nat]
  /\ owner \in {"down", "reset", "up", "dump", "shown"} /\ rest \subseteq Counters
  /\ \A t \in Threads : hand[t] # None =>
       hand[t].event \in Events /\ hand[t].rest \subseteq CountedBy[hand[t].event]
  /\ {due, overlap, owed, events, sessions} \subseteq Nat

(* The summary counts the session: everything counted between start() and  *)
(* stop(), and nothing that was counted before start(), whatever an older  *)
(* session has left in the counters.                                       *)
CountsTheSession ==
  owner = "shown" => \A c \in Counters : sure[c] <= shown[c] /\ shown[c] <= perhaps[c]

Part(c) == IF c \in Counters THEN shown[c] ELSE 0

(* The parts of a total differ from it by no more than the events that     *)
(* were handled while counters were reset or read: a summary of a quiet    *)
(* start and a quiet stop is exact, and the failed CRCs may be computed.   *)
SummaryAddsUp ==
  owner = "shown" =>
    /\ Part("crc_total") - (Part("crc_ok") + Part("crc_fail")) \in -overlap .. overlap
    /\ Part("uci_total") - (Part("uci_pusch") + Part("uci_pucch01") + Part("uci_pucch234"))
         \in -overlap .. overlap

(* CRCs outnumber PUSCHs by no more than were outstanding at start() or    *)
(* handled while counters were reset or read; the two are counted by       *)
(* different threads.                                                      *)
CrcsFollowPuschs ==
  owner = "shown" /\ {"crc_total", "ul_pusch_pdus"} \subseteq Counters =>
    shown["crc_total"] <= shown["ul_pusch_pdus"] + owed + overlap
================================================================================
