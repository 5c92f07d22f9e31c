----------------------------- MODULE MetricsProofs -----------------------------
(***************************************************************************)
(* What the summary of a session counts, for any counters, any events and  *)
(* any number of sessions.  The invariant follows each counter from its    *)
(* reset to its load: from the reset on it holds no more than was counted  *)
(* since start() began, and when the session is up no less than was        *)
(* counted in it.                                                          *)
(***************************************************************************)
EXTENDS Metrics, TLAPS, FiniteSetTheorems

USE DEF Threads

(* What TypeOK says of the counters and their histories, and no more.      *)
Counted ==
  /\ value \in [Counters -> Nat] /\ shown \in [Counters -> Nat]
  /\ sure \in [Counters -> Nat] /\ perhaps \in [Counters -> Nat]
  /\ owner \in {"down", "reset", "up", "dump", "shown"} /\ rest \subseteq Counters

(* What is in hand is an event of the instance and counters of its.        *)
HandOK == hand \in [Threads -> [event : Events, rest : SUBSET Counters] \cup {None}]

(* Where the count of a session is while it is not yet shown.              *)
Fresh(c) == value[c] <= perhaps[c]
Held(c)  == sure[c] <= value[c] /\ value[c] <= perhaps[c]
Shown(c) == sure[c] <= shown[c] /\ shown[c] <= perhaps[c]

Tallied ==
  \A c \in Counters :
    /\ owner = "reset" => sure[c] = 0 /\ (c \notin rest => Fresh(c))
    /\ owner = "up" => Held(c)
    /\ owner = "dump" => IF c \in rest THEN Held(c) ELSE Shown(c)
    /\ owner = "shown" => Shown(c)

Inv == Counted /\ Tallied
--------------------------------------------------------------------------------
(* Zero is a count.                                                        *)
LEMMA ZerosCount == Zeros \in [Counters -> Nat] /\ \A c \in Counters : Zeros[c] = 0
  BY DEF Zeros

(* Before the first start() there is nothing to show.                      *)
LEMMA InitInv == Init => Inv
<1>1. Init => Counted
  BY ZerosCount DEF Init, Counted
<1>2. Init => Tallied
  BY DEF Init, Tallied
<1>3. QED
  BY <1>1, <1>2 DEF Inv

(* Every step keeps the counters' histories in order.                      *)
LEMMA StepInv == Inv /\ [Next]_vars => Inv'
<1> SUFFICES ASSUME Inv, [Next]_vars PROVE Inv'
  OBVIOUS
<1> USE DEF Inv
<1>1. CASE StartSector
  <2>1. Counted'
    BY <1>1, ZerosCount DEF StartSector, Counted
  <2>2. Tallied'
    BY <1>1, ZerosCount DEF StartSector, Tallied
  <2>3. QED
    BY <2>1, <2>2
<1>2. CASE SectorUp
  <2>1. Counted'
    BY <1>2 DEF SectorUp, Counted
  <2>2. Tallied'
    BY <1>2 DEF SectorUp, Counted, Tallied, Fresh, Held
  <2>3. QED
    BY <2>1, <2>2
<1>3. CASE StopSector
  <2>1. Counted'
    BY <1>3 DEF StopSector, Counted
  <2>2. Tallied'
    BY <1>3 DEF StopSector, Tallied, Held
  <2>3. QED
    BY <2>1, <2>2
<1>4. CASE SummaryOut
  <2>1. Counted'
    BY <1>4 DEF SummaryOut, Counted
  <2>2. Tallied'
    BY <1>4 DEF SummaryOut, Tallied, Shown
  <2>3. QED
    BY <2>1, <2>2
<1>5. ASSUME NEW c \in Counters, Reset(c) PROVE Inv'
  <2>1. Counted'
    BY <1>5 DEF Reset, Counted
  <2>2. ASSUME NEW d \in Counters, d \notin rest' PROVE Fresh(d)'
    BY <1>5, <2>2 DEF Reset, Counted, Tallied, Fresh
  <2>3. Tallied'
    BY <1>5, <2>2 DEF Reset, Tallied
  <2>4. QED
    BY <2>1, <2>3
<1>6. ASSUME NEW c \in Counters, Load(c) PROVE Inv'
  <2>1. Counted'
    BY <1>6 DEF Load, Counted
  <2>2. Tallied'
    BY <1>6 DEF Load, Counted, Tallied, Held, Shown
  <2>3. QED
    BY <2>1, <2>2
<1>7. ASSUME NEW t \in Threads, NEW e \in Events, Handle(t, e) PROVE Inv'
  BY <1>7 DEF Handle, Counted, Tallied, Fresh, Held, Shown
<1>8. ASSUME NEW t \in Threads, NEW c \in Counters, Count(t, c) PROVE Inv'
  <2>1. Counted'
    BY <1>8 DEF Count, Counted
  <2>2. ASSUME NEW d \in Counters
        PROVE  /\ Fresh(d) /\ owner # "shown" => Fresh(d)'
               /\ Held(d) /\ owner # "shown" => Held(d)'
               /\ Shown(d) /\ owner # "up" => Shown(d)'
               /\ owner = "reset" => sure'[d] = sure[d]
    BY <1>8, <2>2 DEF Count, Counted, Fresh, Held, Shown
  <2>3. owner' = owner /\ rest' = rest
    BY <1>8 DEF Count
  <2>4. Tallied'
    BY <2>2, <2>3 DEF Tallied
  <2>5. QED
    BY <2>1, <2>4
<1>9. ASSUME NEW t \in Threads, Handled(t) PROVE Inv'
  BY <1>9 DEF Handled, Counted, Tallied, Fresh, Held, Shown
<1>10. CASE UNCHANGED vars
  BY <1>10 DEF vars, Counted, Tallied, Fresh, Held, Shown
<1>11. QED
  BY <1>1, <1>2, <1>3, <1>4, <1>5, <1>6, <1>7, <1>8, <1>9, <1>10 DEF Next

(* The counters' histories are in order in every state.                    *)
LEMMA Invariance == Spec => []Inv
  BY InitInv, StepInv, PTL DEF Spec

(* The summary counts the session: everything counted between start() and  *)
(* stop(), nothing older, whoever counts while counters are reset or read. *)
THEOREM SummaryCountsTheSession == Spec => []CountsTheSession
<1>1. Inv => CountsTheSession
  BY DEF Inv, Tallied, Shown, CountsTheSession
<1>2. QED
  BY <1>1, Invariance, PTL

(* The events in hand are counted.                                         *)
LEMMA InHandCounted == ASSUME NEW e PROVE InHand(e) \in Nat
<1>1. IsFiniteSet({t \in Threads : hand[t] # None /\ hand[t].event \in e})
  <2>1. IsFiniteSet({"rx", "p7"})
    <3>1. IsFiniteSet({"rx"})
      BY FS_Singleton
    <3>2. IsFiniteSet({"rx"} \cup {"p7"})
      BY <3>1, FS_AddElement
    <3>3. QED
      BY <3>2
  <2>2. QED
    BY <2>1, FS_Subset
<1>2. QED
  BY <1>1, FS_CardinalityType DEF InHand

(* The counters an event counts in are counters of the instance.           *)
LEMMA OwnCounters == ASSUME NEW e \in Events PROVE CountedBy[e] \subseteq Counters
  BY MetricsAssumption

(* What is in hand keeps its type.                                         *)
LEMMA HandStep == HandOK /\ [Next]_vars => HandOK'
<1> SUFFICES ASSUME HandOK, [Next]_vars PROVE HandOK'
  OBVIOUS
<1>1. ASSUME NEW t \in Threads, NEW e \in Events, Handle(t, e) PROVE HandOK'
  BY <1>1, OwnCounters DEF Handle, HandOK
<1>2. ASSUME NEW t \in Threads, NEW c \in Counters, Count(t, c) PROVE HandOK'
  BY <1>2 DEF Count, HandOK
<1>3. ASSUME NEW t \in Threads, Handled(t) PROVE HandOK'
  BY <1>3 DEF Handled, HandOK
<1>4. CASE UNCHANGED hand
  BY <1>4 DEF HandOK
<1>5. StartSector \/ SectorUp \/ StopSector \/ SummaryOut \/ UNCHANGED vars
      \/ (\E c \in Counters : Reset(c) \/ Load(c)) => UNCHANGED hand
  BY DEF StartSector, SectorUp, StopSector, SummaryOut, Reset, Load, vars
<1>6. QED
  BY <1>1, <1>2, <1>3, <1>4, <1>5 DEF Next

(* The rest of the types: what is in hand is counted in its own counters,  *)
(* and no CRC is taken that L1 does not owe.                               *)
OwnOnly ==
  \A t \in Threads : hand[t] # None => hand[t].rest \subseteq CountedBy[hand[t].event]
Numbers == /\ due \in Nat /\ overlap \in Nat /\ owed \in Nat
             /\ events \in Nat /\ sessions \in Nat

LEMMA OwnStep == HandOK /\ OwnOnly /\ [Next]_vars => OwnOnly'
<1> SUFFICES ASSUME HandOK, OwnOnly, [Next]_vars PROVE OwnOnly'
  OBVIOUS
<1>1. ASSUME NEW t \in Threads, NEW e \in Events, Handle(t, e) PROVE OwnOnly'
  BY <1>1 DEF Handle, HandOK, OwnOnly
<1>2. ASSUME NEW t \in Threads, NEW c \in Counters, Count(t, c) PROVE OwnOnly'
  BY <1>2 DEF Count, HandOK, OwnOnly
<1>3. ASSUME NEW t \in Threads, Handled(t) PROVE OwnOnly'
  BY <1>3 DEF Handled, HandOK, OwnOnly
<1>4. CASE UNCHANGED hand
  BY <1>4 DEF OwnOnly
<1>5. StartSector \/ SectorUp \/ StopSector \/ SummaryOut \/ UNCHANGED vars
      \/ (\E c \in Counters : Reset(c) \/ Load(c)) => UNCHANGED hand
  BY DEF StartSector, SectorUp, StopSector, SummaryOut, Reset, Load, vars
<1>6. QED
  BY <1>1, <1>2, <1>3, <1>4, <1>5 DEF Next

LEMMA NumbersStep == Numbers /\ [Next]_vars => Numbers'
<1> SUFFICES ASSUME Numbers, [Next]_vars PROVE Numbers'
  OBVIOUS
<1> USE DEF Numbers
<1>1. CASE StartSector
  BY <1>1, InHandCounted DEF StartSector
<1>2. CASE StopSector
  BY <1>2, InHandCounted DEF StopSector
<1>3. ASSUME NEW t \in Threads, NEW e \in Events, Handle(t, e) PROVE Numbers'
  BY <1>3 DEF Handle
<1>4. ASSUME NEW t \in Threads, NEW c \in Counters, Count(t, c) PROVE Numbers'
  BY <1>4 DEF Count
<1>5. ASSUME NEW t \in Threads, Handled(t) PROVE Numbers'
  BY <1>5 DEF Handled
<1>6. SectorUp \/ SummaryOut \/ UNCHANGED vars \/ (\E c \in Counters : Reset(c) \/ Load(c))
      => Numbers'
  BY DEF SectorUp, SummaryOut, Reset, Load, vars
<1>7. QED
  BY <1>1, <1>2, <1>3, <1>4, <1>5, <1>6 DEF Next

(* The metrics' variables keep their types, and an event is counted in no  *)
(* counter but its own.                                                    *)
THEOREM TypeCorrect == Spec => []TypeOK
<1>1. Init => HandOK /\ OwnOnly /\ Numbers
  BY DEF Init, HandOK, OwnOnly, Numbers
<1>2. Spec => [](HandOK /\ OwnOnly /\ Numbers)
  BY <1>1, HandStep, OwnStep, NumbersStep, PTL DEF Spec
<1>3. Inv /\ HandOK /\ OwnOnly /\ Numbers => TypeOK
  BY DEF Inv, Counted, HandOK, OwnOnly, Numbers, TypeOK
<1>4. QED
  BY <1>2, <1>3, Invariance, PTL
--------------------------------------------------------------------------------
(* Which events count in which counters.                                   *)
In(c, e) == IF c \in CountedBy[e] THEN 1 ELSE 0

(* What two tables say together.                                           *)
LEMMA Together ==
  ASSUME NEW f, NEW g
  PROVE  /\ DOMAIN Joined(f, g) = (DOMAIN f) \cup (DOMAIN g)
         /\ \A x \in DOMAIN f : Joined(f, g)[x] = f[x]
         /\ \A x \in (DOMAIN g) \ (DOMAIN f) : Joined(f, g)[x] = g[x]
BY DEF Joined

(* The table of the P7 thread.                                             *)
LEMMA P7Table ==
  /\ HandledBy("p7") = {"TX_DATA", "PUSCH", "PUCCH", "PRACH", "SRS_PDU"}
  /\ CountedBy["TX_DATA"] = {"tx_data_reqs", "tx_data_bytes"}
  /\ CountedBy["PUSCH"] = {"ul_pusch_pdus"}
  /\ CountedBy["PUCCH"] = {"ul_pucch_pdus"}
  /\ CountedBy["PRACH"] = {"ul_prach_pdus"}
  /\ CountedBy["SRS_PDU"] = {"ul_srs_pdus"}
<1>1. /\ DOMAIN TxDataCounts = {"TX_DATA"}
      /\ DOMAIN UlPduCounts = {"PUSCH", "PUCCH", "PRACH", "SRS_PDU"}
  BY DEF TxDataCounts, UlPduCounts
<1>2. /\ DOMAIN CountedByP7 = (DOMAIN TxDataCounts) \cup (DOMAIN UlPduCounts)
      /\ \A e \in DOMAIN TxDataCounts : CountedByP7[e] = TxDataCounts[e]
      /\ \A e \in (DOMAIN UlPduCounts) \ (DOMAIN TxDataCounts) : CountedByP7[e] = UlPduCounts[e]
  BY Together DEF CountedByP7
<1>3. \A e \in DOMAIN CountedByP7 : CountedBy[e] = CountedByP7[e]
  BY Together DEF CountedBy
<1>4. DOMAIN CountedByP7 = {"TX_DATA", "PUSCH", "PUCCH", "PRACH", "SRS_PDU"}
  BY <1>1, <1>2
<1>5. CountedBy["TX_DATA"] = {"tx_data_reqs", "tx_data_bytes"}
  BY <1>1, <1>2, <1>3, <1>4 DEF TxDataCounts
<1>6. \A e \in {"PUSCH", "PUCCH", "PRACH", "SRS_PDU"} : CountedBy[e] = UlPduCounts[e]
  BY <1>1, <1>2, <1>3, <1>4
<1>7. QED
  BY <1>4, <1>5, <1>6 DEF UlPduCounts, HandledBy

(* The table of the RX thread.                                             *)
LEMMA RxTable ==
  /\ HandledBy("rx") = {"CRC_OK", "CRC_FAIL", "RX_DATA", "UCI_PUSCH", "UCI_PUCCH01",
                        "UCI_PUCCH234", "RACH", "SRS"}
  /\ CountedBy["CRC_OK"] = {"crc_total", "crc_ok"}
  /\ CountedBy["CRC_FAIL"] = {"crc_total", "crc_fail"}
  /\ CountedBy["RX_DATA"] = {"rx_data_pdus", "rx_data_bytes"}
  /\ CountedBy["UCI_PUSCH"] = {"uci_total", "uci_pusch"}
  /\ CountedBy["UCI_PUCCH01"] = {"uci_total", "uci_pucch01"}
  /\ CountedBy["UCI_PUCCH234"] = {"uci_total", "uci_pucch234"}
  /\ CountedBy["RACH"] = {"rach_total"}
  /\ CountedBy["SRS"] = {"srs_total"}
<1> DEFINE first == Joined(CrcCounts, UciCounts)
           others == Joined(RachCounts, SrsCounts)
           second == Joined(RxDataCounts, others)
           U == {"UCI_PUSCH", "UCI_PUCCH01", "UCI_PUCCH234"}
<1>1. /\ DOMAIN CrcCounts = {"CRC_OK", "CRC_FAIL"} /\ DOMAIN UciCounts = U
      /\ DOMAIN RxDataCounts = {"RX_DATA"}
      /\ DOMAIN RachCounts = {"RACH"} /\ DOMAIN SrsCounts = {"SRS"}
  BY DEF CrcCounts, UciCounts, RxDataCounts, RachCounts, SrsCounts
<1>2. /\ DOMAIN first = (DOMAIN CrcCounts) \cup (DOMAIN UciCounts)
      /\ \A e \in DOMAIN CrcCounts : first[e] = CrcCounts[e]
      /\ \A e \in (DOMAIN UciCounts) \ (DOMAIN CrcCounts) : first[e] = UciCounts[e]
  BY Together
<1>3. /\ DOMAIN others = (DOMAIN RachCounts) \cup (DOMAIN SrsCounts)
      /\ \A e \in DOMAIN RachCounts : others[e] = RachCounts[e]
      /\ \A e \in (DOMAIN SrsCounts) \ (DOMAIN RachCounts) : others[e] = SrsCounts[e]
  BY Together
<1> HIDE DEF others
<1>4. /\ DOMAIN second = (DOMAIN RxDataCounts) \cup (DOMAIN others)
      /\ \A e \in DOMAIN RxDataCounts : second[e] = RxDataCounts[e]
      /\ \A e \in (DOMAIN others) \ (DOMAIN RxDataCounts) : second[e] = others[e]
  BY Together
<1>5. CountedByRx = Joined(first, second)
  BY DEF CountedByRx, others
<1> HIDE DEF first, second
<1>6. /\ DOMAIN CountedByRx = (DOMAIN first) \cup (DOMAIN second)
      /\ \A e \in DOMAIN first : CountedByRx[e] = first[e]
      /\ \A e \in (DOMAIN second) \ (DOMAIN first) : CountedByRx[e] = second[e]
  <2>1. /\ DOMAIN Joined(first, second) = (DOMAIN first) \cup (DOMAIN second)
        /\ \A e \in DOMAIN first : Joined(first, second)[e] = first[e]
        /\ \A e \in (DOMAIN second) \ (DOMAIN first) : Joined(first, second)[e] = second[e]
    BY Together
  <2>2. QED
    BY <1>5, <2>1
<1>7. /\ DOMAIN first = {"CRC_OK", "CRC_FAIL"} \cup U
      /\ DOMAIN others = {"RACH", "SRS"} /\ DOMAIN second = {"RX_DATA", "RACH", "SRS"}
  BY <1>1, <1>2, <1>3, <1>4
<1>8. /\ \A e \in {"CRC_OK", "CRC_FAIL"} : CountedByRx[e] = CrcCounts[e]
      /\ \A e \in U : CountedByRx[e] = UciCounts[e]
  BY <1>1, <1>2, <1>6, <1>7
<1>9. /\ CountedByRx["RX_DATA"] = RxDataCounts["RX_DATA"]
      /\ CountedByRx["RACH"] = RachCounts["RACH"]
      /\ CountedByRx["SRS"] = SrsCounts["SRS"]
  BY <1>1, <1>3, <1>4, <1>6, <1>7
<1>10. DOMAIN CountedByRx = {"CRC_OK", "CRC_FAIL", "RX_DATA", "UCI_PUSCH", "UCI_PUCCH01",
                             "UCI_PUCCH234", "RACH", "SRS"}
  BY <1>6, <1>7
<1>11. \A e \in DOMAIN CountedByRx : e \notin DOMAIN CountedByP7
  BY <1>10, P7Table DEF HandledBy
<1>12. \A e \in DOMAIN CountedByRx : CountedBy[e] = CountedByRx[e]
  <2>1. \A e \in (DOMAIN CountedByRx) \ (DOMAIN CountedByP7) : CountedBy[e] = CountedByRx[e]
    BY Together DEF CountedBy
  <2>2. QED
    BY <1>11, <2>1
<1>13. HandledBy("rx") = DOMAIN CountedByRx
  BY DEF HandledBy
<1>14. /\ CountedBy["CRC_OK"] = {"crc_total", "crc_ok"}
       /\ CountedBy["CRC_FAIL"] = {"crc_total", "crc_fail"}
  BY <1>8, <1>10, <1>12 DEF CrcCounts
<1>15. /\ CountedBy["UCI_PUSCH"] = {"uci_total", "uci_pusch"}
       /\ CountedBy["UCI_PUCCH01"] = {"uci_total", "uci_pucch01"}
       /\ CountedBy["UCI_PUCCH234"] = {"uci_total", "uci_pucch234"}
  BY <1>8, <1>10, <1>12 DEF UciCounts
<1>16. /\ CountedBy["RX_DATA"] = {"rx_data_pdus", "rx_data_bytes"}
       /\ CountedBy["RACH"] = {"rach_total"} /\ CountedBy["SRS"] = {"srs_total"}
  BY <1>9, <1>10, <1>12 DEF RxDataCounts, RachCounts, SrsCounts
<1>17. QED
  BY <1>10, <1>13, <1>14, <1>15, <1>16

(* Every event is of one of the tables.                                    *)
LEMMA Handling == ASSUME NEW e \in Events PROVE e \in HandledBy("p7") \/ e \in HandledBy("rx")
<1>1. DOMAIN CountedBy = (DOMAIN CountedByP7) \cup (DOMAIN CountedByRx)
  BY Together DEF CountedBy
<1>2. HandledBy("p7") = DOMAIN CountedByP7 /\ HandledBy("rx") = DOMAIN CountedByRx
  BY DEF HandledBy
<1>3. QED
  BY <1>1, <1>2, MetricsAssumption
--------------------------------------------------------------------------------
(* The balance of a counter: what it will hold once the event that thread  *)
(* t has in hand is counted; what of that is from after its reset; and     *)
(* what of that its load has missed.                                       *)
Unc(t, c)   == IF hand[t] # None /\ c \in hand[t].rest THEN 1 ELSE 0
At(f, c)    == IF c \in Counters THEN f[c] ELSE 0
Ever(t, c)  == At(value, c) + Unc(t, c)
Since(t, c) == IF c \in rest THEN Unc(t, c) ELSE Ever(t, c)
Late(t, c)  == IF c \in rest THEN Unc(t, c) ELSE Ever(t, c) - At(shown, c)

(* A total and its parts.  An event counts in both or in neither, so once  *)
(* what is in hand is counted they differ by what the reset has cut off    *)
(* of them, and by what the loads have: an event for each that was handled *)
(* meanwhile.                                                              *)
Gap(T, a, b, d) == Ever("rx", T) - (Ever("rx", a) + Ever("rx", b) + Ever("rx", d))

Balanced(T, a, b, d) ==
  /\ owner = "reset" => /\ Since("rx", T) <= overlap
                        /\ Since("rx", a) + Since("rx", b) + Since("rx", d) <= overlap
  /\ owner = "up" => Gap(T, a, b, d) \in -overlap .. overlap
  /\ owner = "dump" =>
       \E m \in Nat : /\ Gap(T, a, b, d) \in -(overlap - m) .. (overlap - m)
                      /\ \A c \in {T, a, b, d} : Late("rx", c) >= 0
                      /\ Late("rx", T) <= m
                      /\ Late("rx", a) + Late("rx", b) + Late("rx", d) <= m
  /\ owner = "shown" =>
       At(shown, T) - (At(shown, a) + At(shown, b) + At(shown, d)) \in -overlap .. overlap

CrcBalance == Balanced("crc_total", "crc_ok", "crc_fail", "none")
UciBalance == Balanced("uci_total", "uci_pusch", "uci_pucch01", "uci_pucch234")

(* CRCs and PUSCHs: a CRC is of a PUSCH that was sent, and what is         *)
(* outstanding balances the two.                                           *)
Sending == IF hand["p7"] # None /\ hand["p7"].event = "PUSCH" THEN 1 ELSE 0
Open == due + Sending
Sent == Ever("p7", "ul_pusch_pdus")

Followed ==
  {"crc_total", "ul_pusch_pdus"} \subseteq Counters =>
    /\ owner = "reset" => Since("rx", "crc_total") + Open <= owed + overlap
    /\ owner = "up" => Ever("rx", "crc_total") + Open <= Sent + owed + overlap
    /\ owner = "dump" =>
         \E m \in Nat : /\ Ever("rx", "crc_total") + Open + m <= Sent + owed + overlap
                        /\ Late("rx", "crc_total") >= 0
                        /\ Late("p7", "ul_pusch_pdus") <= m
    /\ owner = "shown" => At(shown, "crc_total") <= At(shown, "ul_pusch_pdus") + owed + overlap

(* An event is in the hand of the thread that handles it.                  *)
Handlers == \A t \in Threads : hand[t] # None => hand[t].event \in HandledBy(t)

Kept == Counted /\ HandOK /\ OwnOnly /\ Numbers /\ Handlers
(* Counter c is the business of thread t alone.                            *)
Of(t, c) ==
  \A u \in Threads : \A e \in Events : e \in HandledBy(u) /\ c \in CountedBy[e] => u = t

(* The events in hand stay with their threads.                             *)
LEMMA HandlersStep == HandOK /\ Handlers /\ [Next]_vars => Handlers'
<1> SUFFICES ASSUME HandOK, Handlers, [Next]_vars PROVE Handlers'
  OBVIOUS
<1>1. ASSUME NEW t \in Threads, NEW e \in Events, Handle(t, e) PROVE Handlers'
  BY <1>1 DEF Handle, HandOK, Handlers
<1>2. ASSUME NEW t \in Threads, NEW c \in Counters, Count(t, c) PROVE Handlers'
  BY <1>2 DEF Count, HandOK, Handlers
<1>3. ASSUME NEW t \in Threads, Handled(t) PROVE Handlers'
  BY <1>3 DEF Handled, HandOK, Handlers
<1>4. CASE UNCHANGED hand
  BY <1>4 DEF Handlers
<1>5. StartSector \/ SectorUp \/ StopSector \/ SummaryOut \/ UNCHANGED vars
      \/ (\E c \in Counters : Reset(c) \/ Load(c)) => UNCHANGED hand
  BY DEF StartSector, SectorUp, StopSector, SummaryOut, Reset, Load, vars
<1>6. QED
  BY <1>1, <1>2, <1>3, <1>4, <1>5 DEF Next

(* All of this is kept.                                                    *)
LEMMA Keeping == Spec => []Kept
<1>1. Init => HandOK /\ OwnOnly /\ Numbers /\ Handlers
  BY DEF Init, HandOK, OwnOnly, Numbers, Handlers
<1>2. Spec => [](HandOK /\ OwnOnly /\ Numbers /\ Handlers)
  BY <1>1, HandStep, OwnStep, NumbersStep, HandlersStep, PTL DEF Spec
<1>3. Inv /\ HandOK /\ OwnOnly /\ Numbers /\ Handlers => Kept
  BY DEF Inv, Kept
<1>4. QED
  BY <1>2, <1>3, Invariance, PTL

(* The balance of a counter is of numbers.                                 *)
LEMMA BalanceType ==
  ASSUME Kept, NEW t \in Threads, NEW c
  PROVE  /\ Unc(t, c) \in 0 .. 1 /\ At(value, c) \in Nat /\ At(shown, c) \in Nat
         /\ Ever(t, c) \in Nat /\ Since(t, c) \in Nat /\ Late(t, c) \in Int
         /\ c \in rest => Late(t, c) \in Nat
<1>1. Unc(t, c) \in 0 .. 1 /\ At(value, c) \in Nat /\ At(shown, c) \in Nat
  BY DEF Kept, Counted, Unc, At
<1>2. Ever(t, c) = At(value, c) + Unc(t, c)
  BY DEF Ever
<1>3. Ever(t, c) \in Nat
  BY <1>1, <1>2
<1>4. QED
  BY <1>1, <1>3 DEF Since, Late

(* An event comes into hand.                                               *)
LEMMA HandleEffect ==
  ASSUME Kept, NEW u \in Threads, NEW e \in Events, Handle(u, e),
         NEW t \in Threads, NEW c, Of(t, c)
  PROVE  /\ Ever(t, c)' = Ever(t, c) + In(c, e)
         /\ Since(t, c)' = Since(t, c) + In(c, e)
         /\ Late(t, c)' = Late(t, c) + In(c, e)
<1>1. /\ hand[u] = None /\ e \in HandledBy(u)
      /\ hand' = [hand EXCEPT ![u] = [event |-> e, rest |-> CountedBy[e]]]
      /\ value' = value /\ shown' = shown /\ rest' = rest
  BY DEF Handle
<1>2. [event |-> e, rest |-> CountedBy[e]] # None
  BY OwnCounters, MetricsAssumption
<1>3. Unc(t, c)' = Unc(t, c) + In(c, e)
  <2>1. CASE u = t
    <3>1. hand'[t] = [event |-> e, rest |-> CountedBy[e]] /\ hand[t] = None
      BY <1>1, <2>1 DEF Kept, HandOK
    <3>2. Unc(t, c) = 0 /\ Unc(t, c)' = In(c, e)
      BY <1>2, <3>1 DEF Unc, In
    <3>3. In(c, e) \in 0 .. 1
      BY DEF In
    <3>4. QED
      BY <3>2, <3>3
  <2>2. CASE u # t
    <3>1. hand'[t] = hand[t]
      BY <1>1, <2>2 DEF Kept, HandOK
    <3>2. In(c, e) = 0
      BY <1>1, <2>2 DEF Of, In
    <3>3. QED
      BY <3>1, <3>2, BalanceType DEF Unc
  <2>3. QED
    BY <2>1, <2>2
<1>4. At(value, c)' = At(value, c) /\ At(shown, c)' = At(shown, c)
  BY <1>1 DEF At
<1>5. /\ Unc(t, c) \in Int /\ At(value, c) \in Int /\ At(shown, c) \in Int
      /\ In(c, e) \in Int
  BY BalanceType DEF In
<1>6. Ever(t, c)' = Ever(t, c) + In(c, e) /\ Ever(t, c) \in Int
  BY <1>3, <1>4, <1>5 DEF Ever
<1>7. QED
  BY <1>1, <1>3, <1>4, <1>5, <1>6 DEF Since, Late

(* An event in hand is counted in one of its counters.                     *)
LEMMA CountEffect ==
  ASSUME Kept, NEW u \in Threads, NEW x \in Counters, Count(u, x),
         NEW t \in Threads, NEW c, Of(t, c)
  PROVE  /\ Ever(t, c)' = Ever(t, c)
         /\ Since(t, c)' <= Since(t, c) /\ Since(t, c)' \in Nat
         /\ Late(t, c)' <= Late(t, c) /\ Late(t, c)' \in Int
         /\ Late(t, c) >= 0 => Late(t, c)' >= 0
<1>1. /\ hand[u] # None /\ x \in hand[u].rest
      /\ value' = [value EXCEPT ![x] = @ + 1]
      /\ hand' = [hand EXCEPT ![u].rest = @ \ {x}]
      /\ shown' = shown /\ rest' = rest
  BY DEF Count
<1>2. hand \in [Threads -> [event : Events, rest : SUBSET Counters] \cup {None}]
  BY DEF Kept, HandOK
<1>3. hand[u].event \in Events /\ hand[u].event \in HandledBy(u)
      /\ hand[u].rest \subseteq CountedBy[hand[u].event]
  BY <1>1, <1>2 DEF Kept, Handlers, OwnOnly
<1>4. /\ hand'[u].rest = hand[u].rest \ {x} /\ hand'[u] # None
      /\ \A v \in Threads : v # u => hand'[v] = hand[v]
  BY <1>1, <1>2, MetricsAssumption
<1>5. At(shown, c)' = At(shown, c)
  BY <1>1 DEF At
<1>6. /\ At(value, c)' + Unc(t, c)' = At(value, c) + Unc(t, c)
      /\ Unc(t, c)' <= Unc(t, c) /\ Unc(t, c)' \in 0 .. 1
  <2>1. CASE x = c
    <3>1. u = t
      BY <1>1, <1>3, <2>1 DEF Of
    <3>2. At(value, c)' = At(value, c) + 1 /\ At(value, c) \in Nat
      BY <1>1, <2>1 DEF Kept, Counted, At
    <3>3. Unc(t, c) = 1 /\ Unc(t, c)' = 0
      BY <1>1, <1>4, <2>1, <3>1 DEF Unc
    <3>4. QED
      BY <3>2, <3>3
  <2>2. CASE x # c
    <3>1. At(value, c)' = At(value, c)
      BY <1>1, <2>2 DEF Kept, Counted, At
    <3>2. Unc(t, c)' = Unc(t, c)
      BY <1>1, <1>4, <2>2 DEF Unc
    <3>3. QED
      BY <3>1, <3>2, BalanceType
  <2>3. QED
    BY <2>1, <2>2
<1>7. Ever(t, c)' = Ever(t, c) /\ Ever(t, c) \in Nat /\ At(shown, c) \in Nat /\ Unc(t, c) \in 0 .. 1
  BY <1>6, BalanceType DEF Ever
<1>8. QED
  BY <1>1, <1>5, <1>6, <1>7 DEF Since, Late

(* An event that is counted leaves the hand.                               *)
LEMMA HandledEffect ==
  ASSUME Kept, NEW u \in Threads, Handled(u), NEW t \in Threads, NEW c
  PROVE  /\ Ever(t, c)' = Ever(t, c) /\ Since(t, c)' = Since(t, c)
         /\ Late(t, c)' = Late(t, c)
<1>1. /\ hand[u] # None /\ hand[u].rest = {}
      /\ hand' = [hand EXCEPT ![u] = None]
      /\ value' = value /\ shown' = shown /\ rest' = rest
  BY DEF Handled
<1>2. Unc(t, c)' = Unc(t, c)
  <2>1. CASE u = t
    BY <1>1, <2>1 DEF Kept, HandOK, Unc
  <2>2. CASE u # t
    BY <1>1, <2>2 DEF Kept, HandOK, Unc
  <2>3. QED
    BY <2>1, <2>2
<1>3. QED
  BY <1>1, <1>2 DEF Ever, Since, Late, At
(* A reset forgets what Since forgets already; a load shows all but what   *)
(* Late says it misses.                                                    *)
LEMMA ResetEffect ==
  ASSUME Kept, NEW x \in Counters, Reset(x), NEW t \in Threads, NEW c
  PROVE  Since(t, c)' = Since(t, c)
<1>1. /\ x \in rest /\ rest' = rest \ {x} /\ value' = [value EXCEPT ![x] = 0]
      /\ hand' = hand
  BY DEF Reset
<1>2. Unc(t, c)' = Unc(t, c) /\ Unc(t, c) \in Nat
  BY <1>1, BalanceType DEF Unc
<1>3. CASE x = c
  <2>1. At(value, c)' = 0
    BY <1>1, <1>3 DEF Kept, Counted, At
  <2>2. QED
    BY <1>1, <1>2, <1>3, <2>1 DEF Since, Ever
<1>4. CASE x # c
  <2>1. At(value, c)' = At(value, c)
    BY <1>1, <1>4 DEF Kept, Counted, At
  <2>2. QED
    BY <1>1, <1>2, <1>4, <2>1 DEF Since, Ever
<1>5. QED
  BY <1>3, <1>4

LEMMA LoadEffect ==
  ASSUME Kept, NEW x \in Counters, Load(x), NEW t \in Threads, NEW c
  PROVE  Ever(t, c)' = Ever(t, c) /\ Late(t, c)' = Late(t, c)
<1>1. /\ x \in rest /\ rest' = rest \ {x} /\ shown' = [shown EXCEPT ![x] = value[x]]
      /\ hand' = hand /\ value' = value
  BY DEF Load
<1>2. /\ Unc(t, c)' = Unc(t, c) /\ Unc(t, c) \in Nat
      /\ At(value, c)' = At(value, c) /\ At(value, c) \in Nat
  BY <1>1, BalanceType DEF Unc, At
<1>3. Ever(t, c)' = Ever(t, c) /\ Ever(t, c) = At(value, c) + Unc(t, c)
  BY <1>2 DEF Ever
<1>4. CASE x = c
  <2>1. At(shown, c)' = At(value, c)
    BY <1>1, <1>4 DEF Kept, Counted, At
  <2>2. Late(t, c) = Unc(t, c) /\ Late(t, c)' = Ever(t, c)' - At(shown, c)'
    BY <1>1, <1>2, <1>4 DEF Late
  <2>3. QED
    BY <1>2, <1>3, <2>1, <2>2
<1>5. CASE x # c
  <2>1. At(shown, c)' = At(shown, c)
    BY <1>1, <1>5 DEF Kept, Counted, At
  <2>2. QED
    BY <1>1, <1>2, <1>3, <1>5, <2>1 DEF Late
<1>6. QED
  BY <1>3, <1>4, <1>5

(* When the reset or the loads begin, what counts is what is in hand.      *)
LEMMA StartEffect ==
  ASSUME Kept, StartSector, NEW t \in Threads, NEW c
  PROVE  Since(t, c)' = Unc(t, c)
<1>1. rest' = Counters /\ hand' = hand /\ value' = value
  BY DEF StartSector
<1>2. Unc(t, c)' = Unc(t, c) /\ At(value, c)' = At(value, c) /\ Unc(t, c) \in Nat
  BY <1>1, BalanceType DEF Unc, At
<1>3. c \notin Counters => At(value, c)' = 0
  BY DEF At
<1>4. QED
  BY <1>1, <1>2, <1>3 DEF Since, Ever

LEMMA StopEffect ==
  ASSUME Kept, StopSector, NEW t \in Threads, NEW c
  PROVE  Ever(t, c)' = Ever(t, c) /\ Late(t, c)' = Unc(t, c)
<1>1. rest' = Counters /\ hand' = hand /\ value' = value /\ shown' = shown
  BY DEF StopSector
<1>2. /\ Unc(t, c)' = Unc(t, c) /\ At(value, c)' = At(value, c) /\ Unc(t, c) \in Nat
      /\ At(shown, c)' = At(shown, c)
  BY <1>1, BalanceType DEF Unc, At
<1>3. c \notin Counters => At(value, c) = 0 /\ At(shown, c) = 0
  BY DEF At
<1>4. QED
  BY <1>1, <1>2, <1>3 DEF Late, Ever

(* Steps that touch no counter.                                            *)
LEMMA NoEffect ==
  ASSUME UNCHANGED <<value, rest, shown, hand>>, NEW t \in Threads, NEW c
  PROVE  /\ Ever(t, c)' = Ever(t, c) /\ Since(t, c)' = Since(t, c)
         /\ Late(t, c)' = Late(t, c)
BY DEF Ever, Since, Late, At, Unc

(* InHand counts the events in hand.                                       *)
LEMMA InHandAtLeast ==
  ASSUME NEW e
  PROVE  /\ \A t \in Threads : hand[t] # None /\ hand[t].event \in e => InHand(e) >= 1
         /\ (\A t \in Threads : hand[t] # None /\ hand[t].event \in e) => InHand(e) >= 2
<1> DEFINE S == {t \in Threads : hand[t] # None /\ hand[t].event \in e}
<1>1. IsFiniteSet({"rx"}) /\ Cardinality({"rx"}) = 1
  BY FS_Singleton
<1>2. /\ IsFiniteSet({"rx"} \cup {"p7"})
      /\ Cardinality({"rx"} \cup {"p7"}) = Cardinality({"rx"}) + 1
  BY <1>1, FS_AddElement
<1>3. Threads = {"rx"} \cup {"p7"}
  OBVIOUS
<1>4. IsFiniteSet(Threads) /\ Cardinality(Threads) = 2
  BY <1>1, <1>2, <1>3
<1>5. S \subseteq Threads
  OBVIOUS
<1>6. IsFiniteSet(S) /\ Cardinality(S) \in Nat
  BY <1>4, <1>5, FS_Subset, FS_CardinalityType
<1>7. S # {} => Cardinality(S) # 0
  BY <1>6, FS_EmptySet
<1>8. InHand(e) = Cardinality(S)
  BY DEF InHand
<1>9. ASSUME NEW t \in Threads, hand[t] # None /\ hand[t].event \in e PROVE InHand(e) >= 1
  <2>1. t \in S
    BY <1>9
  <2>2. QED
    BY <1>6, <1>7, <1>8, <2>1
<1>10. (\A t \in Threads : hand[t] # None /\ hand[t].event \in e) => S = Threads
  OBVIOUS
<1>11. QED
  BY <1>4, <1>8, <1>9, <1>10

--------------------------------------------------------------------------------
(* A total and its parts: the events of one thread, and each counts in the *)
(* total and in one of the parts or in none of them.                       *)
Adds(T, a, b, d) ==
  /\ \A c \in {T, a, b, d} : Of("rx", c)
  /\ \A e \in Events : In(T, e) = In(a, e) + In(b, e) + In(d, e)

(* So one event in hand is all that can be missing.                        *)
LEMMA MissingOne ==
  ASSUME Kept, NEW T, NEW a, NEW b, NEW d, Adds(T, a, b, d)
  PROVE  /\ InHand(Events) \in Nat
         /\ Unc("rx", T) <= InHand(Events)
         /\ Unc("rx", a) + Unc("rx", b) + Unc("rx", d) <= InHand(Events)
<1>1. InHand(Events) \in Nat
  BY InHandCounted
<1>2. CASE hand["rx"] = None
  <2>1. \A c : Unc("rx", c) = 0
    BY <1>2 DEF Unc
  <2>2. QED
    BY <1>1, <2>1
<1>3. CASE hand["rx"] # None
  <2> DEFINE e == hand["rx"].event
  <2>1. e \in Events /\ hand["rx"].rest \subseteq CountedBy[e]
    BY <1>3 DEF Kept, HandOK, OwnOnly
  <2>2. InHand(Events) >= 1
    BY <1>3, <2>1, InHandAtLeast
  <2> HIDE DEF e
  <2>3. \A c : Unc("rx", c) <= In(c, e) /\ Unc("rx", c) \in 0 .. 1 /\ In(c, e) \in 0 .. 1
    BY <2>1 DEF Unc, In
  <2>4. In(T, e) = In(a, e) + In(b, e) + In(d, e)
    BY <2>1 DEF Adds
  <2>5. QED
    BY <1>1, <2>2, <2>3, <2>4
<1>4. QED
  BY <1>2, <1>3
(* Every step keeps a total and its parts in balance.                      *)
LEMMA BalancedStep ==
  ASSUME Kept, NEW T, NEW a, NEW b, NEW d, Adds(T, a, b, d), Balanced(T, a, b, d), [Next]_vars
  PROVE  Balanced(T, a, b, d)'
<1> DEFINE E(c) == Ever("rx", c)
           S(c) == Since("rx", c)
           L(c) == Late("rx", c)
           g == E(T) - (E(a) + E(b) + E(d))
<1>1. /\ \A c : E(c) \in Nat /\ S(c) \in Nat /\ L(c) \in Int /\ At(shown, c) \in Nat
      /\ overlap \in Nat
  BY BalanceType DEF Kept, Numbers
<1>2. \A c \in {T, a, b, d} : Of("rx", c)
  BY DEF Adds
<1>3. owner \in {"down", "reset", "up", "dump", "shown"}
  BY DEF Kept, Counted
<1>4. Gap(T, a, b, d) = g
  BY DEF Gap
<1>5. Gap(T, a, b, d)' = E(T)' - (E(a)' + E(b)' + E(d)')
  BY DEF Gap
<1>6. CASE StartSector
  <2>1. owner' = "reset" /\ overlap' = InHand(Events)
    BY <1>6 DEF StartSector
  <2>2. \A c \in {T, a, b, d} : S(c)' = Unc("rx", c)
    BY <1>6, StartEffect
  <2>3. QED
    BY <2>1, <2>2, MissingOne DEF Balanced
<1>7. CASE SectorUp
  <2>1. /\ owner = "reset" /\ owner' = "up" /\ rest = {} /\ overlap' = overlap
        /\ UNCHANGED <<value, rest, shown, hand>>
    BY <1>7 DEF SectorUp
  <2>2. \A c \in {T, a, b, d} : E(c)' = S(c)
    BY <2>1, NoEffect DEF Since
  <2>3. S(T) <= overlap /\ S(a) + S(b) + S(d) <= overlap
    BY <2>1 DEF Balanced
  <2> HIDE DEF E, S, L
  <2>4. Gap(T, a, b, d)' \in -overlap .. overlap
    BY <1>1, <1>5, <2>2, <2>3
  <2>5. QED
    BY <2>1, <2>4 DEF Balanced
<1>8. CASE StopSector
  <2>1. owner = "up" /\ owner' = "dump" /\ overlap' = overlap + InHand(Events)
    BY <1>8 DEF StopSector
  <2>2. \A c \in {T, a, b, d} : E(c)' = E(c) /\ L(c)' = Unc("rx", c) /\ L(c)' >= 0
    BY <1>8, StopEffect, BalanceType
  <2>3. g \in -overlap .. overlap
    BY <1>4, <2>1 DEF Balanced
  <2>4. /\ InHand(Events) \in Nat /\ L(T)' <= InHand(Events)
        /\ L(a)' + L(b)' + L(d)' <= InHand(Events)
    BY <2>2, MissingOne
  <2> HIDE DEF E, S, L
  <2>5. Gap(T, a, b, d)' = g
    BY <1>5, <2>2
  <2> HIDE DEF g
  <2>6. /\ overlap' - InHand(Events) = overlap
        /\ Gap(T, a, b, d)' \in -(overlap' - InHand(Events)) .. (overlap' - InHand(Events))
    BY <1>1, <2>1, <2>3, <2>4, <2>5
  <2>7. \E m \in Nat : /\ Gap(T, a, b, d)' \in -(overlap' - m) .. (overlap' - m)
                       /\ L(T)' <= m /\ L(a)' + L(b)' + L(d)' <= m
    BY <2>4, <2>6
  <2>8. QED
    BY <2>1, <2>2, <2>7 DEF Balanced, L
<1>9. CASE SummaryOut
  <2>1. /\ owner = "dump" /\ owner' = "shown" /\ rest = {} /\ overlap' = overlap
        /\ shown' = shown
    BY <1>9 DEF SummaryOut
  <2>2. \A c : L(c) = E(c) - At(shown, c) /\ At(shown, c)' = At(shown, c)
    BY <2>1 DEF Late, At
  <2>3. PICK m \in Nat : /\ g \in -(overlap - m) .. (overlap - m)
                         /\ L(T) >= 0 /\ L(a) >= 0 /\ L(b) >= 0 /\ L(d) >= 0
                         /\ L(T) <= m /\ L(a) + L(b) + L(d) <= m
    BY <1>4, <2>1 DEF Balanced
  <2> HIDE DEF E, S, L
  <2>4. At(shown, T)' - (At(shown, a)' + At(shown, b)' + At(shown, d)') \in -overlap .. overlap
    <3>1. \A c : At(shown, c)' = E(c) - L(c)
      BY <1>1, <2>2
    <3>2. At(shown, T)' - (At(shown, a)' + At(shown, b)' + At(shown, d)')
            = g - L(T) + (L(a) + L(b) + L(d))
      BY <1>1, <3>1
    <3>3. g \in Int
      BY <1>1
    <3> HIDE DEF g
    <3>4. QED
      BY <1>1, <2>3, <3>2, <3>3
  <2>5. QED
    BY <2>1, <2>4 DEF Balanced
<1>10. ASSUME NEW x \in Counters, Reset(x) PROVE Balanced(T, a, b, d)'
  <2>1. owner = "reset" /\ owner' = owner /\ overlap' = overlap
    BY <1>10 DEF Reset
  <2>2. \A c : S(c)' = S(c)
    BY <1>10, ResetEffect
  <2>3. QED
    BY <2>1, <2>2 DEF Balanced
<1>11. ASSUME NEW x \in Counters, Load(x) PROVE Balanced(T, a, b, d)'
  <2>1. owner = "dump" /\ owner' = owner /\ overlap' = overlap
    BY <1>11 DEF Load
  <2>2. \A c : E(c)' = E(c) /\ L(c)' = L(c)
    BY <1>11, LoadEffect
  <2>3. Gap(T, a, b, d)' = Gap(T, a, b, d)
    BY <1>4, <1>5, <2>2
  <2>4. QED
    BY <2>1, <2>2, <2>3 DEF Balanced
<1>12. ASSUME NEW u \in Threads, NEW e \in Events, Handle(u, e) PROVE Balanced(T, a, b, d)'
  <2>1. /\ owner' = owner /\ overlap' = IF Busy THEN overlap + 1 ELSE overlap
        /\ shown' = shown
    BY <1>12 DEF Handle
  <2>2. \A c \in {T, a, b, d} : /\ E(c)' = E(c) + In(c, e) /\ S(c)' = S(c) + In(c, e)
                                /\ L(c)' = L(c) + In(c, e) /\ In(c, e) \in 0 .. 1
    BY <1>2, <1>12, HandleEffect DEF In
  <2>3. In(T, e) = In(a, e) + In(b, e) + In(d, e)
    BY DEF Adds
  <2>4. \A c : At(shown, c)' = At(shown, c)
    BY <2>1 DEF At
  <2>5. Gap(T, a, b, d)' = g /\ g \in Int
    <3> HIDE DEF E, S, L
    <3>1. QED
      BY <1>1, <1>5, <2>2, <2>3
  <2> HIDE DEF E, S, L, g
  <2>6. CASE owner = "reset"
    <3>1. overlap' = overlap + 1
      BY <2>1, <2>6 DEF Busy
    <3>2. S(T)' <= overlap' /\ S(a)' + S(b)' + S(d)' <= overlap'
      <4>1. S(T) <= overlap /\ S(a) + S(b) + S(d) <= overlap
        BY <2>6 DEF Balanced, S
      <4>2. QED
        BY <1>1, <2>2, <2>3, <3>1, <4>1
    <3>3. QED
      BY <2>1, <2>6, <3>2 DEF Balanced, S
  <2>7. CASE owner = "dump"
    <3>1. overlap' = overlap + 1
      BY <2>1, <2>7 DEF Busy
    <3>2. PICK m \in Nat : /\ g \in -(overlap - m) .. (overlap - m)
                           /\ L(T) >= 0 /\ L(a) >= 0 /\ L(b) >= 0 /\ L(d) >= 0
                           /\ L(T) <= m /\ L(a) + L(b) + L(d) <= m
      BY <1>4, <2>7 DEF Balanced, L
    <3>3. /\ L(T)' >= 0 /\ L(a)' >= 0 /\ L(b)' >= 0 /\ L(d)' >= 0
          /\ L(T)' <= m + 1 /\ L(a)' + L(b)' + L(d)' <= m + 1
      BY <1>1, <2>2, <2>3, <3>2
    <3>4. m + 1 \in Nat /\ overlap' - (m + 1) = overlap - m
      BY <1>1, <3>1
    <3>5. Gap(T, a, b, d)' \in -(overlap' - (m + 1)) .. (overlap' - (m + 1))
      BY <2>5, <3>2, <3>4
    <3>6. QED
      BY <2>1, <2>7, <3>3, <3>4, <3>5 DEF Balanced, L
  <2>8. CASE owner = "up"
    BY <1>4, <2>1, <2>5, <2>8 DEF Balanced, Busy
  <2>9. CASE owner = "shown"
    BY <2>1, <2>4, <2>9 DEF Balanced, Busy
  <2>10. QED
    BY <1>3, <2>1, <2>6, <2>7, <2>8, <2>9 DEF Balanced
<1>13. ASSUME NEW u \in Threads, NEW x \in Counters, Count(u, x) PROVE Balanced(T, a, b, d)'
  <2>1. owner' = owner /\ overlap' = overlap /\ shown' = shown
    BY <1>13 DEF Count
  <2>2. \A c \in {T, a, b, d} : /\ E(c)' = E(c) /\ S(c)' <= S(c) /\ S(c)' \in Nat
                                /\ L(c)' <= L(c) /\ L(c)' \in Int
                                /\ (L(c) >= 0 => L(c)' >= 0)
    BY <1>2, <1>13, CountEffect
  <2>3. Gap(T, a, b, d)' = Gap(T, a, b, d)
    BY <1>4, <1>5, <2>2
  <2>4. \A c : At(shown, c)' = At(shown, c)
    BY <2>1 DEF At
  <2> HIDE DEF E, S, L, g
  <2>5. CASE owner = "reset"
    <3>1. S(T) <= overlap /\ S(a) + S(b) + S(d) <= overlap
      BY <2>5 DEF Balanced, S
    <3>2. S(T)' <= overlap /\ S(a)' + S(b)' + S(d)' <= overlap
      BY <1>1, <2>2, <3>1
    <3>3. QED
      BY <2>1, <2>5, <3>2 DEF Balanced, S
  <2>6. CASE owner = "dump"
    <3>1. PICK m \in Nat : /\ Gap(T, a, b, d) \in -(overlap - m) .. (overlap - m)
                           /\ L(T) >= 0 /\ L(a) >= 0 /\ L(b) >= 0 /\ L(d) >= 0
                           /\ L(T) <= m /\ L(a) + L(b) + L(d) <= m
      BY <2>6 DEF Balanced, L
    <3>2. /\ L(T)' >= 0 /\ L(a)' >= 0 /\ L(b)' >= 0 /\ L(d)' >= 0
          /\ L(T)' <= m /\ L(a)' + L(b)' + L(d)' <= m
      BY <1>1, <2>2, <3>1
    <3>3. QED
      BY <2>1, <2>3, <2>6, <3>1, <3>2 DEF Balanced, L
  <2>7. CASE owner \notin {"reset", "dump"}
    BY <2>1, <2>3, <2>4, <2>7 DEF Balanced
  <2>8. QED
    BY <2>5, <2>6, <2>7
<1>14. ASSUME NEW u \in Threads, Handled(u) PROVE Balanced(T, a, b, d)'
  <2>1. owner' = owner /\ overlap' = overlap /\ shown' = shown
    BY <1>14 DEF Handled
  <2>2. \A c : E(c)' = E(c) /\ S(c)' = S(c) /\ L(c)' = L(c) /\ At(shown, c)' = At(shown, c)
    BY <1>14, <2>1, HandledEffect DEF At
  <2>3. Gap(T, a, b, d)' = Gap(T, a, b, d)
    BY <1>4, <1>5, <2>2
  <2>4. QED
    BY <2>1, <2>2, <2>3 DEF Balanced
<1>15. CASE UNCHANGED vars
  <2>1. owner' = owner /\ overlap' = overlap /\ UNCHANGED <<value, rest, shown, hand>>
    BY <1>15 DEF vars
  <2>2. \A c : E(c)' = E(c) /\ S(c)' = S(c) /\ L(c)' = L(c) /\ At(shown, c)' = At(shown, c)
    BY <2>1, NoEffect DEF At
  <2>3. Gap(T, a, b, d)' = Gap(T, a, b, d)
    BY <1>4, <1>5, <2>2
  <2>4. QED
    BY <2>1, <2>2, <2>3 DEF Balanced
<1>16. QED
  BY <1>6, <1>7, <1>8, <1>9, <1>10, <1>11, <1>12, <1>13, <1>14, <1>15 DEF Next
(* CRCs add up, with "none" in the place of a third part; so do UCIs.      *)
LEMMA CrcsAdd == Adds("crc_total", "crc_ok", "crc_fail", "none") /\ "none" \notin Counters
<1>1. \A e \in Events : e \in HandledBy("p7") \/ e \in HandledBy("rx")
  BY Handling
<1>2. ASSUME NEW e \in HandledBy("p7")
      PROVE  \A c \in {"crc_total", "crc_ok", "crc_fail", "none"} : c \notin CountedBy[e]
  BY P7Table
<1>3. ASSUME NEW e \in HandledBy("rx")
      PROVE  /\ "none" \notin CountedBy[e]
             /\ In("crc_total", e) = In("crc_ok", e) + In("crc_fail", e) + In("none", e)
  <2>1. e \in {"CRC_OK", "CRC_FAIL", "RX_DATA", "UCI_PUSCH", "UCI_PUCCH01", "UCI_PUCCH234",
               "RACH", "SRS"}
    BY RxTable
  <2>2. CASE e \in {"CRC_OK", "CRC_FAIL"}
    BY <2>2, RxTable DEF In
  <2>3. CASE e \notin {"CRC_OK", "CRC_FAIL"}
    <3>1. \A c \in {"crc_total", "crc_ok", "crc_fail", "none"} : c \notin CountedBy[e]
      BY <2>1, <2>3, RxTable
    <3>2. QED
      BY <3>1 DEF In
  <2>4. QED
    BY <2>2, <2>3
<1>4. \A c \in {"crc_total", "crc_ok", "crc_fail", "none"} : Of("rx", c)
  BY <1>2 DEF Of
<1>5. \A e \in Events : "none" \notin CountedBy[e]
  BY <1>1, <1>2, <1>3
<1>6. ASSUME NEW e \in Events
      PROVE  In("crc_total", e) = In("crc_ok", e) + In("crc_fail", e) + In("none", e)
  <2>1. CASE e \in HandledBy("p7")
    BY <1>2, <2>1 DEF In
  <2>2. QED
    BY <1>1, <1>3, <2>1
<1>7. "none" \notin Counters
  BY <1>5, MetricsAssumption
<1>8. QED
  BY <1>4, <1>6, <1>7 DEF Adds

LEMMA UcisAdd == Adds("uci_total", "uci_pusch", "uci_pucch01", "uci_pucch234")
<1> DEFINE C == {"uci_total", "uci_pusch", "uci_pucch01", "uci_pucch234"}
<1>1. \A e \in Events : e \in HandledBy("p7") \/ e \in HandledBy("rx")
  BY Handling
<1>2. ASSUME NEW e \in HandledBy("p7") PROVE \A c \in C : c \notin CountedBy[e]
  BY P7Table
<1>3. ASSUME NEW e \in HandledBy("rx")
      PROVE  In("uci_total", e) = In("uci_pusch", e) + In("uci_pucch01", e) + In("uci_pucch234", e)
  <2>1. e \in {"CRC_OK", "CRC_FAIL", "RX_DATA", "UCI_PUSCH", "UCI_PUCCH01", "UCI_PUCCH234",
               "RACH", "SRS"}
    BY RxTable
  <2>2. CASE e \in {"UCI_PUSCH", "UCI_PUCCH01", "UCI_PUCCH234"}
    BY <2>2, RxTable DEF In
  <2>3. CASE e \notin {"UCI_PUSCH", "UCI_PUCCH01", "UCI_PUCCH234"}
    <3>1. \A c \in C : c \notin CountedBy[e]
      BY <2>1, <2>3, RxTable
    <3>2. QED
      BY <3>1 DEF In
  <2>4. QED
    BY <2>2, <2>3
<1>4. \A c \in C : Of("rx", c)
  BY <1>2 DEF Of
<1>5. ASSUME NEW e \in Events
      PROVE  In("uci_total", e) = In("uci_pusch", e) + In("uci_pucch01", e) + In("uci_pucch234", e)
  <2>1. CASE e \in HandledBy("p7")
    BY <1>2, <2>1 DEF In
  <2>2. QED
    BY <1>1, <1>3, <2>1
<1>6. QED
  BY <1>4, <1>5 DEF Adds

(* The totals of a summary are the sums of their parts, but for the events *)
(* that were handled while the counters were reset or read.                *)
THEOREM TotalsAddUp == Spec => []SummaryAddsUp
<1>1. Init => CrcBalance /\ UciBalance
  BY DEF Init, CrcBalance, UciBalance, Balanced
<1>2. Kept /\ CrcBalance /\ UciBalance /\ [Next]_vars => CrcBalance' /\ UciBalance'
  BY CrcsAdd, UcisAdd, BalancedStep DEF CrcBalance, UciBalance
<1>3. Kept /\ CrcBalance /\ UciBalance => SummaryAddsUp
  <2> SUFFICES ASSUME Kept, CrcBalance, UciBalance, owner = "shown"
               PROVE  /\ Part("crc_total") - (Part("crc_ok") + Part("crc_fail"))
                           \in -overlap .. overlap
                      /\ Part("uci_total")
                           - (Part("uci_pusch") + Part("uci_pucch01") + Part("uci_pucch234"))
                           \in -overlap .. overlap
    BY DEF SummaryAddsUp
  <2>1. \A c : Part(c) = At(shown, c)
    BY DEF Part, At
  <2>2. At(shown, "none") = 0 /\ \A c : At(shown, c) \in Nat
    BY CrcsAdd, BalanceType DEF At
  <2>3. At(shown, "crc_total") - (At(shown, "crc_ok") + At(shown, "crc_fail") + At(shown, "none"))
          \in -overlap .. overlap
    BY DEF CrcBalance, Balanced
  <2>4. At(shown, "uci_total")
          - (At(shown, "uci_pusch") + At(shown, "uci_pucch01") + At(shown, "uci_pucch234"))
          \in -overlap .. overlap
    BY DEF UciBalance, Balanced
  <2>5. At(shown, "crc_ok") + At(shown, "crc_fail") + At(shown, "none")
          = At(shown, "crc_ok") + At(shown, "crc_fail")
    BY <2>2
  <2>6. QED
    BY <2>1, <2>3, <2>4, <2>5
<1>4. QED
  BY <1>1, <1>2, <1>3, Keeping, PTL DEF Spec
--------------------------------------------------------------------------------
(* CRCs are the RX thread's, PUSCHs the P7 thread's.                       *)
LEMMA CrcsAndPuschs ==
  /\ Of("rx", "crc_total") /\ Of("p7", "ul_pusch_pdus")
  /\ \A e \in Events : /\ In("crc_total", e) = IF e \in Crcs THEN 1 ELSE 0
                       /\ In("ul_pusch_pdus", e) = IF e = "PUSCH" THEN 1 ELSE 0
  /\ \A e \in HandledBy("rx") : e # "PUSCH"
  /\ \A e \in HandledBy("p7") : e \notin Crcs
<1>1. \A e \in Events : e \in HandledBy("p7") \/ e \in HandledBy("rx")
  BY Handling
<1>2. /\ \A e \in HandledBy("rx") : e # "PUSCH"
      /\ \A e \in HandledBy("p7") : e \notin Crcs
  BY P7Table, RxTable DEF Crcs
<1>3. ASSUME NEW e \in HandledBy("p7")
      PROVE  "crc_total" \notin CountedBy[e] /\ ("ul_pusch_pdus" \in CountedBy[e] <=> e = "PUSCH")
  BY P7Table
<1>4. ASSUME NEW e \in HandledBy("rx")
      PROVE  "ul_pusch_pdus" \notin CountedBy[e] /\ ("crc_total" \in CountedBy[e] <=> e \in Crcs)
  BY RxTable DEF Crcs
<1>5. Of("rx", "crc_total") /\ Of("p7", "ul_pusch_pdus")
  BY <1>3, <1>4 DEF Of
<1>6. ASSUME NEW e \in Events
      PROVE  /\ "crc_total" \in CountedBy[e] <=> e \in Crcs
             /\ "ul_pusch_pdus" \in CountedBy[e] <=> e = "PUSCH"
  BY <1>1, <1>2, <1>3, <1>4
<1>7. QED
  BY <1>2, <1>5, <1>6 DEF In

(* What is outstanding at the start is what start() finds.                 *)
LEMMA OwedAtStart ==
  ASSUME Kept
  PROVE  /\ Unc("rx", "crc_total") + Sending <= InHand(Crcs \cup {"PUSCH"})
         /\ Unc("p7", "ul_pusch_pdus") <= InHand(Events)
         /\ InHand(Crcs \cup {"PUSCH"}) \in Nat /\ InHand(Events) \in Nat
<1> DEFINE C == Crcs \cup {"PUSCH"}
<1>1. InHand(C) \in Nat /\ InHand(Events) \in Nat
  BY InHandCounted
<1>2. /\ \A t \in Threads : hand[t] # None /\ hand[t].event \in C => InHand(C) >= 1
      /\ (\A t \in Threads : hand[t] # None /\ hand[t].event \in C) => InHand(C) >= 2
      /\ \A t \in Threads : hand[t] # None /\ hand[t].event \in Events => InHand(Events) >= 1
  BY InHandAtLeast
<1>3. Unc("rx", "crc_total") # 0 => hand["rx"] # None /\ hand["rx"].event \in C
  <2> SUFFICES ASSUME Unc("rx", "crc_total") # 0
               PROVE  hand["rx"] # None /\ hand["rx"].event \in C
    OBVIOUS
  <2>1. hand["rx"] # None /\ "crc_total" \in hand["rx"].rest
    BY DEF Unc
  <2>2. hand["rx"].event \in Events /\ "crc_total" \in CountedBy[hand["rx"].event]
    BY <2>1 DEF Kept, HandOK, OwnOnly
  <2>3. In("crc_total", hand["rx"].event) = 1
    BY <2>2 DEF In
  <2>4. QED
    BY <2>1, <2>2, <2>3, CrcsAndPuschs
<1>4. Sending # 0 => hand["p7"] # None /\ hand["p7"].event \in C
  BY DEF Sending
<1>5. Unc("rx", "crc_total") \in 0 .. 1 /\ Sending \in 0 .. 1
  BY BalanceType DEF Sending
<1>6. Unc("p7", "ul_pusch_pdus") # 0 => hand["p7"] # None /\ hand["p7"].event \in Events
  BY DEF Unc, Kept, HandOK
<1>7. Unc("p7", "ul_pusch_pdus") \in 0 .. 1
  BY BalanceType
<1> HIDE DEF C
<1>8. Unc("rx", "crc_total") + Sending <= InHand(C)
  <2>1. CASE Unc("rx", "crc_total") = 0
    BY <1>1, <1>2, <1>4, <1>5, <2>1
  <2>2. CASE Sending = 0
    BY <1>1, <1>2, <1>3, <1>5, <2>2
  <2>3. CASE Unc("rx", "crc_total") # 0 /\ Sending # 0
    <3>1. InHand(C) >= 2
      BY <1>2, <1>3, <1>4, <2>3
    <3>2. QED
      BY <1>1, <1>5, <3>1
  <2>4. QED
    BY <2>1, <2>2, <2>3
<1>9. Unc("p7", "ul_pusch_pdus") <= InHand(Events)
  BY <1>1, <1>2, <1>6, <1>7
<1>10. QED
  BY <1>1, <1>8, <1>9 DEF C

(* A PUSCH comes into hand, is sent, is answered: one after the other.     *)
LEMMA Outstanding ==
  ASSUME Kept
  PROVE  /\ \A t \in Threads : \A e \in Events : Handle(t, e) =>
              Open' = Open + In("ul_pusch_pdus", e) - In("crc_total", e)
         /\ \A t \in Threads : Handled(t) => Open' = Open
         /\ \A t \in Threads : \A x \in Counters : Count(t, x) => Open' = Open
<1>1. /\ hand \in [Threads -> [event : Events, rest : SUBSET Counters] \cup {None}]
      /\ due \in Nat /\ Sending \in 0 .. 1
  BY DEF Kept, HandOK, Numbers, Sending
<1>2. ASSUME NEW t \in Threads, NEW e \in Events, Handle(t, e)
      PROVE  Open' = Open + In("ul_pusch_pdus", e) - In("crc_total", e)
  <2>1. /\ e \in HandledBy(t) /\ hand[t] = None
        /\ due' = IF e \in Crcs THEN due - 1 ELSE due
        /\ hand' = [hand EXCEPT ![t] = [event |-> e, rest |-> CountedBy[e]]]
    BY <1>2 DEF Handle
  <2>2. [event |-> e, rest |-> CountedBy[e]] # None
    BY OwnCounters, MetricsAssumption
  <2>3. /\ In("crc_total", e) = IF e \in Crcs THEN 1 ELSE 0
        /\ In("ul_pusch_pdus", e) = IF e = "PUSCH" THEN 1 ELSE 0
    BY CrcsAndPuschs
  <2>4. due' = due - In("crc_total", e)
    BY <1>1, <2>1, <2>3
  <2>5. Sending' = Sending + In("ul_pusch_pdus", e)
    <3>1. CASE t = "p7"
      <4>1. hand'["p7"] = [event |-> e, rest |-> CountedBy[e]] /\ hand["p7"] = None
        BY <1>1, <2>1, <3>1
      <4>2. QED
        BY <2>2, <2>3, <4>1 DEF Open, Sending
    <3>2. CASE t = "rx"
      <4>1. hand'["p7"] = hand["p7"] /\ e # "PUSCH"
        BY <1>1, <2>1, <3>2, CrcsAndPuschs
      <4>2. QED
        BY <1>1, <2>3, <4>1 DEF Open, Sending
    <3>3. QED
      BY <3>1, <3>2
  <2>6. In("crc_total", e) \in Int /\ In("ul_pusch_pdus", e) \in Int
    BY <2>3
  <2>7. QED
    BY <1>1, <2>4, <2>5, <2>6 DEF Open
<1>3. ASSUME NEW t \in Threads, Handled(t) PROVE Open' = Open
  <2>1. /\ hand[t] # None /\ hand' = [hand EXCEPT ![t] = None]
        /\ due' = IF hand[t].event = "PUSCH" THEN due + 1 ELSE due
    BY <1>3 DEF Handled
  <2>2. CASE t = "p7"
    <3>1. hand'["p7"] = None
      BY <1>1, <2>1, <2>2
    <3>2. QED
      BY <1>1, <2>1, <2>2, <3>1 DEF Open, Sending
  <2>3. CASE t = "rx"
    <3>1. hand'["p7"] = hand["p7"] /\ hand["rx"].event # "PUSCH"
      BY <1>1, <2>1, <2>3, CrcsAndPuschs DEF Kept, Handlers
    <3>2. QED
      BY <1>1, <2>1, <2>3, <3>1 DEF Open, Sending
  <2>4. QED
    BY <2>2, <2>3
<1>4. ASSUME NEW t \in Threads, NEW x \in Counters, Count(t, x)
      PROVE  Open' = Open
  <2>1. /\ hand[t] # None /\ hand' = [hand EXCEPT ![t].rest = @ \ {x}] /\ due' = due
    BY <1>4 DEF Count
  <2>2. CASE t = "p7"
    <3>1. hand'["p7"] # None /\ hand'["p7"].event = hand["p7"].event
      BY <1>1, <2>1, <2>2, MetricsAssumption
    <3>2. QED
      BY <2>1, <2>2, <3>1 DEF Open, Sending
  <2>3. CASE t = "rx"
    <3>1. hand'["p7"] = hand["p7"]
      BY <1>1, <2>1, <2>3
    <3>2. QED
      BY <2>1, <3>1 DEF Open, Sending
  <2>4. QED
    BY <2>2, <2>3
<1>5. QED
  BY <1>2, <1>3, <1>4
(* Less leaves the bound.                                                  *)
LEMMA Smaller ==
  ASSUME NEW a \in Int, NEW b \in Int, NEW c \in Int, NEW d \in Int, a <= b, b + c <= d
  PROVE  a + c <= d
OBVIOUS

(* Every step keeps CRCs and PUSCHs in balance.                            *)
LEMMA FollowedStep == Kept /\ Followed /\ [Next]_vars => Followed'
<1> SUFFICES ASSUME Kept, Followed, [Next]_vars,
                    {"crc_total", "ul_pusch_pdus"} \subseteq Counters
             PROVE  Followed'
  BY DEF Followed
<1> DEFINE E  == Ever("rx", "crc_total")
           S  == Since("rx", "crc_total")
           L  == Late("rx", "crc_total")
           Lp == Late("p7", "ul_pusch_pdus")
           C  == At(shown, "crc_total")
           P  == At(shown, "ul_pusch_pdus")
<1>1. /\ E \in Nat /\ S \in Nat /\ L \in Int /\ Lp \in Int /\ Sent \in Nat
      /\ C \in Nat /\ P \in Nat /\ overlap \in Nat /\ owed \in Nat
  BY BalanceType DEF Kept, Numbers, Sent
<1>2. Open \in Nat
  BY DEF Kept, Numbers, Sending, Open
<1>3. Of("rx", "crc_total") /\ Of("p7", "ul_pusch_pdus")
  BY CrcsAndPuschs
<1>4. owner \in {"down", "reset", "up", "dump", "shown"}
  BY DEF Kept, Counted
<1>5. Sent = Ever("p7", "ul_pusch_pdus")
  BY DEF Sent
<1>6. /\ owner = "reset" => S + Open <= owed + overlap
      /\ owner = "up" => E + Open <= Sent + owed + overlap
      /\ owner = "dump" =>
           \E m \in Nat : E + Open + m <= Sent + owed + overlap /\ L >= 0 /\ Lp <= m
      /\ owner = "shown" => C <= P + owed + overlap
  BY DEF Followed
<1>7. /\ Followed' <=>
           /\ owner' = "reset" => S' + Open' <= owed' + overlap'
           /\ owner' = "up" => E' + Open' <= Sent' + owed' + overlap'
           /\ owner' = "dump" =>
                \E m \in Nat : E' + Open' + m <= Sent' + owed' + overlap' /\ L' >= 0 /\ Lp' <= m
           /\ owner' = "shown" => C' <= P' + owed' + overlap'
  BY DEF Followed
<1>8. CASE StartSector
  <2>1. /\ owner' = "reset" /\ due' = due /\ hand' = hand
        /\ overlap' = InHand(Events) /\ owed' = due + InHand(Crcs \cup {"PUSCH"})
    BY <1>8 DEF StartSector
  <2>2. S' = Unc("rx", "crc_total") /\ Unc("rx", "crc_total") \in Nat
    BY <1>8, StartEffect, BalanceType
  <2>3. Open' = due + Sending /\ due \in Nat /\ Sending \in Nat
    BY <2>1 DEF Open, Sending, Kept, Numbers
  <2>4. /\ Unc("rx", "crc_total") + Sending <= InHand(Crcs \cup {"PUSCH"})
        /\ InHand(Crcs \cup {"PUSCH"}) \in Nat /\ InHand(Events) \in Nat
    BY OwedAtStart
  <2> HIDE DEF E, S, L, Lp, C, P
  <2>5. S' + Open' <= owed' + overlap'
    BY <2>1, <2>2, <2>3, <2>4
  <2>6. QED
    BY <1>7, <2>1, <2>5
<1>9. CASE SectorUp
  <2>1. /\ owner = "reset" /\ owner' = "up" /\ rest = {} /\ overlap' = overlap /\ owed' = owed
        /\ UNCHANGED <<value, rest, shown, hand, due>>
    BY <1>9 DEF SectorUp
  <2>2. E' = S /\ Sent' = Sent /\ Open' = Open
    BY <2>1, NoEffect DEF Since, Sent, Open, Sending
  <2> HIDE DEF E, S, L, Lp, C, P
  <2>3. E' + Open' <= Sent' + owed' + overlap'
    BY <1>1, <1>2, <1>6, <2>1, <2>2
  <2>4. QED
    BY <1>7, <2>1, <2>3
<1>10. CASE StopSector
  <2>1. /\ owner = "up" /\ owner' = "dump" /\ overlap' = overlap + InHand(Events) /\ owed' = owed
        /\ due' = due /\ hand' = hand
    BY <1>10 DEF StopSector
  <2>2. /\ E' = E /\ Sent' = Sent /\ L' = Unc("rx", "crc_total")
        /\ Lp' = Unc("p7", "ul_pusch_pdus") /\ Unc("rx", "crc_total") \in Nat
    BY <1>10, StopEffect, BalanceType DEF Sent
  <2>3. Open' = Open
    BY <2>1 DEF Open, Sending
  <2>4. Unc("p7", "ul_pusch_pdus") <= InHand(Events) /\ InHand(Events) \in Nat
    BY OwedAtStart
  <2> HIDE DEF E, S, L, Lp, C, P
  <2>5. /\ E' + Open' + InHand(Events) <= Sent' + owed' + overlap'
        /\ L' >= 0 /\ Lp' <= InHand(Events)
    BY <1>1, <1>2, <1>6, <2>1, <2>2, <2>3, <2>4
  <2>6. QED
    BY <1>7, <2>1, <2>4, <2>5
<1>11. CASE SummaryOut
  <2>1. /\ owner = "dump" /\ owner' = "shown" /\ rest = {} /\ overlap' = overlap /\ owed' = owed
        /\ shown' = shown
    BY <1>11 DEF SummaryOut
  <2>2. L = E - C /\ Lp = Sent - P /\ C' = C /\ P' = P
    BY <2>1 DEF Late, At, Sent
  <2>3. PICK m \in Nat : E + Open + m <= Sent + owed + overlap /\ L >= 0 /\ Lp <= m
    BY <1>6, <2>1
  <2> HIDE DEF E, S, L, Lp, C, P
  <2>4. C' <= P' + owed' + overlap'
    BY <1>1, <1>2, <2>1, <2>2, <2>3
  <2>5. QED
    BY <1>7, <2>1, <2>4
<1>12. ASSUME NEW x \in Counters, Reset(x) PROVE Followed'
  <2>1. /\ owner = "reset" /\ owner' = owner /\ overlap' = overlap /\ owed' = owed
        /\ due' = due /\ hand' = hand
    BY <1>12 DEF Reset
  <2>2. S' = S /\ Open' = Open
    BY <1>12, <2>1, ResetEffect DEF Open, Sending
  <2> HIDE DEF E, S, L, Lp, C, P
  <2>3. QED
    BY <1>6, <1>7, <2>1, <2>2
<1>13. ASSUME NEW x \in Counters, Load(x) PROVE Followed'
  <2>1. /\ owner = "dump" /\ owner' = owner /\ overlap' = overlap /\ owed' = owed
        /\ due' = due /\ hand' = hand
    BY <1>13 DEF Load
  <2>2. E' = E /\ Sent' = Sent /\ L' = L /\ Lp' = Lp /\ Open' = Open
    BY <1>13, <2>1, LoadEffect DEF Open, Sending, Sent
  <2> HIDE DEF E, S, L, Lp, C, P
  <2>3. QED
    BY <1>6, <1>7, <2>1, <2>2
<1>14. ASSUME NEW t \in Threads, NEW e \in Events, Handle(t, e) PROVE Followed'
  <2> DEFINE ic == In("crc_total", e)
             ip == In("ul_pusch_pdus", e)
  <2>1. /\ owner' = owner /\ owed' = owed /\ shown' = shown
        /\ overlap' = IF Busy THEN overlap + 1 ELSE overlap
    BY <1>14 DEF Handle
  <2>2. /\ E' = E + ic /\ S' = S + ic /\ L' = L + ic
        /\ Sent' = Sent + ip /\ Lp' = Lp + ip
    BY <1>3, <1>14, HandleEffect DEF Sent
  <2>3. Open' = Open + ip - ic
    BY <1>14, Outstanding
  <2>4. ic \in 0 .. 1 /\ ip \in 0 .. 1
    BY DEF In
  <2>5. C' = C /\ P' = P
    BY <2>1 DEF At
  <2>6. owner \in {"reset", "dump"} => overlap' = overlap + 1
    BY <2>1 DEF Busy
  <2>7. owner \notin {"reset", "dump"} => overlap' = overlap
    BY <2>1 DEF Busy
  <2> HIDE DEF E, S, L, Lp, C, P, ic, ip
  <2>8. CASE owner = "reset"
    <3>1. S' + Open' <= owed' + overlap'
      BY <1>1, <1>2, <1>6, <2>1, <2>2, <2>3, <2>4, <2>6, <2>8
    <3>2. QED
      BY <1>7, <2>1, <2>8, <3>1
  <2>9. CASE owner = "up"
    <3>1. E' + Open' <= Sent' + owed' + overlap'
      BY <1>1, <1>2, <1>6, <2>1, <2>2, <2>3, <2>4, <2>7, <2>9
    <3>2. QED
      BY <1>7, <2>1, <2>9, <3>1
  <2>10. CASE owner = "dump"
    <3>1. PICK m \in Nat : E + Open + m <= Sent + owed + overlap /\ L >= 0 /\ Lp <= m
      BY <1>6, <2>10
    <3>2. /\ E' + Open' + (m + 1) <= Sent' + owed' + overlap'
          /\ L' >= 0 /\ Lp' <= m + 1 /\ m + 1 \in Nat
      BY <1>1, <1>2, <2>1, <2>2, <2>3, <2>4, <2>6, <2>10, <3>1
    <3>3. QED
      BY <1>7, <2>1, <2>10, <3>2
  <2>11. CASE owner = "shown"
    BY <1>6, <1>7, <2>1, <2>5, <2>7, <2>11
  <2>12. CASE owner = "down"
    BY <1>7, <2>1, <2>12
  <2>13. QED
    BY <1>4, <2>8, <2>9, <2>10, <2>11, <2>12
<1>15. ASSUME NEW t \in Threads, NEW x \in Counters, Count(t, x) PROVE Followed'
  <2>1. owner' = owner /\ owed' = owed /\ shown' = shown /\ overlap' = overlap
    BY <1>15 DEF Count
  <2>2. /\ E' = E /\ S' <= S /\ S' \in Nat
        /\ (L >= 0 => L' >= 0) /\ Sent' = Sent /\ Lp' <= Lp /\ Lp' \in Int
    BY <1>3, <1>15, CountEffect DEF Sent
  <2>3. Open' = Open
    BY <1>15, Outstanding
  <2>4. C' = C /\ P' = P
    BY <2>1 DEF At
  <2> HIDE DEF E, S, L, Lp, C, P
  <2>5. CASE owner = "reset"
    <3>1. S' + Open' <= owed' + overlap'
      <4>1. S + Open <= owed + overlap
        BY <1>6, <2>5
      <4>2. S' <= S /\ S' \in Nat /\ owed' = owed /\ overlap' = overlap
        BY <2>1, <2>2
      <4>3. QED
        <5>1. /\ S' \in Int /\ S \in Int /\ Open \in Int /\ owed + overlap \in Int
          BY <1>1, <1>2, <4>2
        <5>2. S' + Open <= owed + overlap
          BY <4>1, <4>2, <5>1, Smaller, Zenon
        <5>3. QED
          BY <2>3, <4>2, <5>2
    <3>2. QED
      BY <1>7, <2>1, <2>5, <3>1
  <2>6. CASE owner = "dump"
    <3>1. PICK m \in Nat : E + Open + m <= Sent + owed + overlap /\ L >= 0 /\ Lp <= m
      BY <1>6, <2>6
    <3>2. E' + Open' + m <= Sent' + owed' + overlap' /\ L' >= 0 /\ Lp' <= m
      BY <1>1, <2>1, <2>2, <2>3, <3>1
    <3>3. QED
      BY <1>7, <2>1, <2>6, <3>2
  <2>7. CASE owner \notin {"reset", "dump"}
    BY <1>6, <1>7, <2>1, <2>2, <2>3, <2>4, <2>7
  <2>8. QED
    BY <2>5, <2>6, <2>7
<1>16. ASSUME NEW t \in Threads, Handled(t) PROVE Followed'
  <2>1. owner' = owner /\ owed' = owed /\ shown' = shown /\ overlap' = overlap
    BY <1>16 DEF Handled
  <2>2. /\ E' = E /\ S' = S /\ L' = L /\ Sent' = Sent /\ Lp' = Lp
        /\ Open' = Open /\ C' = C /\ P' = P
    BY <1>16, <2>1, HandledEffect, Outstanding DEF Sent, At
  <2> HIDE DEF E, S, L, Lp, C, P
  <2>3. QED
    BY <1>6, <1>7, <2>1, <2>2
<1>17. CASE UNCHANGED vars
  <2>1. /\ owner' = owner /\ owed' = owed /\ overlap' = overlap
        /\ UNCHANGED <<value, rest, shown, hand, due>>
    BY <1>17 DEF vars
  <2>2. /\ E' = E /\ S' = S /\ L' = L /\ Sent' = Sent /\ Lp' = Lp
        /\ Open' = Open /\ C' = C /\ P' = P
    BY <2>1, NoEffect DEF Sent, At, Open, Sending
  <2> HIDE DEF E, S, L, Lp, C, P
  <2>3. QED
    BY <1>6, <1>7, <2>1, <2>2
<1>18. QED
  BY <1>8, <1>9, <1>10, <1>11, <1>12, <1>13, <1>14, <1>15, <1>16, <1>17 DEF Next

(* A summary shows no more CRCs than PUSCHs, but for those outstanding at  *)
(* start() and those handled while the counters were reset or read.        *)
THEOREM CrcsAreOfPuschs == Spec => []CrcsFollowPuschs
<1>1. Init => Followed
  BY DEF Init, Followed
<1>2. Kept /\ Followed => CrcsFollowPuschs
  <2> SUFFICES ASSUME Followed, owner = "shown",
                      {"crc_total", "ul_pusch_pdus"} \subseteq Counters
               PROVE  shown["crc_total"] <= shown["ul_pusch_pdus"] + owed + overlap
    BY DEF CrcsFollowPuschs
  <2>1. At(shown, "crc_total") = shown["crc_total"]
        /\ At(shown, "ul_pusch_pdus") = shown["ul_pusch_pdus"]
    BY DEF At
  <2>2. QED
    BY <2>1 DEF Followed
<1>3. QED
  BY <1>1, <1>2, FollowedStep, Keeping, PTL DEF Spec
================================================================================
