------------------------- MODULE IndicationDecodeProofs -------------------------
(***************************************************************************)
(* What the decoders of CRC, RX_DATA, RACH and SRS deliver, for any number *)
(* of PDUs, any items, any lengths and any cut: every PDU from its own     *)
(* bytes, all that is there of it, with its own transport block, and none  *)
(* of those reaches beyond the data buffer or into another's.              *)
(*                                                                         *)
(* Where a PDU starts is a sum over the message before it, so the proofs   *)
(* need induction: along a sequence for the sums, along the items of a PDU *)
(* for the loop over them.                                                 *)
(***************************************************************************)
EXTENDS IndicationDecode, TLAPS, WellFoundedInduction

--------------------------------------------------------------------------------
(* Induction.  The library proves that < on the naturals is well founded;  *)
(* what follows from it is stated for sets and functions.                  *)

LEMMA Least ==
  ASSUME NEW T \in SUBSET Nat, T # {}
  PROVE  \E n \in T : \A m \in T : n <= m
  <1> DEFINE R == {ss \in Nat \X Nat : ss[1] < ss[2]}
  <1>1. IsWellFoundedOn(R, Nat)
    BY NatLessThanWellFounded DEF OpToRel
  <1>2. PICK n \in T : \A m \in T : <<m, n>> \notin R
    BY <1>1, WFMin
  <1>3. \A m \in T : ~(m < n)
    BY <1>2
  <1> QED BY <1>3

LEMMA Induction ==
  ASSUME NEW T, 0 \in T, \A n \in Nat : n \in T => n + 1 \in T
  PROVE  \A n \in Nat : n \in T
  <1> SUFFICES ASSUME NEW k \in Nat, k \notin T PROVE FALSE
    OBVIOUS
  <1> DEFINE D == {n \in Nat : n \notin T}
  <1>1. PICK n \in D : \A m \in D : n <= m
    <2>1. D \in SUBSET Nat /\ k \in D
      OBVIOUS
    <2> HIDE DEF D
    <2> QED BY <2>1, Least
  <1>2. n # 0 /\ n \in Nat
    BY <1>1
  <1>3. n - 1 \in Nat /\ n - 1 \notin D
    BY <1>1, <1>2
  <1>4. (n - 1) + 1 \in T
    BY <1>3
  <1> QED BY <1>1, <1>2, <1>4

(* g is defined by its first value a and by what step makes of the one     *)
(* before.                                                                 *)
Steps(N, X) == [1 .. N -> [X -> X]]
Follows(g, N, X, a, step) ==
  /\ g \in [0 .. N -> X]
  /\ g[0] = a /\ \A n \in 1 .. N : g[n] = step[n][g[n - 1]]

(* A function may be defined that way.                                     *)
LEMMA Recursion ==
  ASSUME NEW X, NEW a \in X, NEW N \in Nat, NEW step \in Steps(N, X)
  PROVE  \E g : Follows(g, N, X, a, step)
  <1>0. step \in [1 .. N -> [X -> X]]
    BY DEF Steps
  <1> DEFINE Good(m, g) == g[0] = a /\ \A n \in 1 .. m : g[n] = step[n][g[n - 1]]
             T == {m \in Nat : m <= N => \E g \in [0 .. m -> X] : Good(m, g)}
  <1>1. 0 \in T
    <2>1. [n \in 0 .. 0 |-> a] \in [0 .. 0 -> X] /\ Good(0, [n \in 0 .. 0 |-> a])
      OBVIOUS
    <2> QED BY <2>1
  <1>2. ASSUME NEW m \in Nat, m \in T PROVE m + 1 \in T
    <2> SUFFICES ASSUME m + 1 <= N PROVE \E g \in [0 .. m + 1 -> X] : Good(m + 1, g)
      OBVIOUS
    <2>1. PICK g \in [0 .. m -> X] : Good(m, g)
      BY <1>2
    <2> DEFINE h == [n \in 0 .. m + 1 |-> IF n = m + 1 THEN step[n][g[m]] ELSE g[n]]
    <2>2. step[m + 1] \in [X -> X] /\ g[m] \in X
      BY <1>0
    <2>3. h \in [0 .. m + 1 -> X]
      BY <2>2
    <2>4. h[0] = a
      BY <2>1
    <2>5. ASSUME NEW n \in 1 .. m + 1 PROVE h[n] = step[n][h[n - 1]]
      <3>1. CASE n = m + 1
        BY <3>1
      <3>2. CASE n # m + 1
        <4>1. n \in 1 .. m /\ n - 1 \in 0 .. m
          BY <3>2
        <4> QED BY <2>1, <4>1
      <3> QED BY <3>1, <3>2
    <2> QED BY <2>3, <2>4, <2>5
  <1>3. N \in T
    <2> HIDE DEF T
    <2> QED BY <1>1, <1>2, Induction
  <1> QED BY <1>3 DEF Follows

--------------------------------------------------------------------------------
(* Sums.                                                                   *)

(* The sums of a sequence of naturals are what they are called.            *)
LEMMA SumsAre ==
  ASSUME NEW s \in Seq(Nat)
  PROVE  /\ Sums(s) \in [0 .. Len(s) -> Nat]
         /\ Sums(s)[0] = 0
         /\ \A n \in 1 .. Len(s) : Sums(s)[n] = Sums(s)[n - 1] + s[n]
  <1> DEFINE N == Len(s)
             step == [n \in 1 .. N |-> [x \in Nat |-> x + s[n]]]
  <1>1. N \in Nat /\ \A n \in 1 .. N : s[n] \in Nat
    OBVIOUS
  <1>2. step \in Steps(N, Nat) /\ 0 \in Nat
    BY <1>1 DEF Steps
  <1>3. PICK g : g \in [0 .. N -> Nat] /\ g[0] = 0 /\ \A n \in 1 .. N : g[n] = step[n][g[n - 1]]
    <2> HIDE DEF step, N
    <2>1. PICK g : Follows(g, N, Nat, 0, step)
      BY <1>1, <1>2, Recursion
    <2> QED BY <2>1 DEF Follows
  <1>4. g = [n \in 0 .. N |-> IF n = 0 THEN 0 ELSE g[n - 1] + s[n]]
    <2>1. ASSUME NEW n \in 0 .. N PROVE g[n] = IF n = 0 THEN 0 ELSE g[n - 1] + s[n]
      <3>1. CASE n # 0
        <4>1. n \in 1 .. N /\ n - 1 \in 0 .. N
          BY <1>1, <3>1
        <4> QED BY <1>3, <3>1, <4>1
      <3> QED BY <1>3, <3>1
    <2> QED BY <1>3, <2>1
  <1> DEFINE u == Sums(s)
  <1>5. u = [n \in 0 .. N |-> IF n = 0 THEN 0 ELSE u[n - 1] + s[n]]
    BY <1>4, Zenon DEF Sums
  <1> HIDE DEF u
  <1>6. u[0] = 0 /\ \A n \in 1 .. N : u[n] = u[n - 1] + s[n]
    <2>1. 0 \in 0 .. N /\ \A n \in 1 .. N : n \in 0 .. N /\ n # 0
      BY <1>1
    <2> HIDE DEF N
    <2> QED BY <1>5, <2>1
  <1> DEFINE T == {n \in Nat : n <= N => u[n] \in Nat}
  <1>7. 0 \in T
    BY <1>6
  <1>8. ASSUME NEW n \in Nat, n \in T PROVE n + 1 \in T
    <2> SUFFICES ASSUME n + 1 <= N PROVE u[n + 1] \in Nat
      OBVIOUS
    <2>1. n + 1 \in 1 .. N /\ (n + 1) - 1 = n /\ u[n] \in Nat
      BY <1>1, <1>8
    <2>2. u[n + 1] = u[n] + s[n + 1] /\ s[n + 1] \in Nat
      <3> HIDE DEF N
      <3> QED BY <1>1, <1>6, <2>1
    <2> QED BY <2>1, <2>2
  <1>9. \A n \in 0 .. N : u[n] \in Nat
    <2>1. \A n \in Nat : n \in T
      <3> HIDE DEF T
      <3> QED BY <1>7, <1>8, Induction
    <2> QED BY <1>1, <2>1
  <1>10. u \in [0 .. N -> Nat]
    BY <1>5, <1>9
  <1> QED BY <1>6, <1>10 DEF u

(* They grow.                                                              *)
LEMMA SumsGrow ==
  ASSUME NEW s \in Seq(Nat), NEW e \in 0 .. Len(s), NEW b \in 0 .. e
  PROVE  Sums(s)[b] <= Sums(s)[e]
  <1> DEFINE u == Sums(s)
             N == Len(s)
             T == {m \in Nat : m <= N => \A l \in 0 .. m : u[l] <= u[m]}
  <1>1. /\ N \in Nat /\ u \in [0 .. N -> Nat]
        /\ \A n \in 1 .. N : u[n] = u[n - 1] + s[n] /\ s[n] \in Nat
    BY SumsAre
  <1> HIDE DEF u, N
  <1>2. 0 \in T
    BY <1>1
  <1>3. ASSUME NEW m \in Nat, m \in T PROVE m + 1 \in T
    <2> SUFFICES ASSUME m + 1 <= N, NEW l \in 0 .. m + 1 PROVE u[l] <= u[m + 1]
      OBVIOUS
    <2>1. m + 1 \in 1 .. N /\ (m + 1) - 1 = m /\ m \in 0 .. N
      BY <1>1
    <2>2. u[m + 1] = u[m] + s[m + 1] /\ s[m + 1] \in Nat /\ u[m] \in Nat
      BY <1>1, <2>1
    <2>3. l \in 0 .. m => u[l] <= u[m] /\ u[l] \in Nat
      BY <1>1, <1>3, <2>1
    <2> QED BY <2>2, <2>3
  <1>4. \A m \in Nat : m \in T
    <2> HIDE DEF T
    <2> QED BY <1>2, <1>3, Induction
  <1> QED BY <1>1, <1>4 DEF u, N
--------------------------------------------------------------------------------

(* The lengths L1 announces, and what is there of its data buffer.         *)
Announced ==
  /\ Len(msg) \in Nat /\ DOMAIN msg = 1 .. Len(msg)
  /\ kind = "RX_DATA" => \A n \in DOMAIN msg : msg[n][1] \in Nat
  /\ data = NoTb \/ data \in Int

(* One delivery per PDU so far, in their order.                            *)
InOrder ==
  /\ \E X : given \in Seq(X)
  /\ i = Len(given) + 1 /\ Len(given) <= Len(msg)

(* The blocks handed over lie before data_offset.                          *)
Behind ==
  /\ data_offset \in Nat
  /\ \A n \in DOMAIN given : given[n].tb # NoTb =>
       /\ kind = "RX_DATA"
       /\ given[n].tb \in Nat
       /\ given[n].tb + msg[n][1] <= data_offset

BlocksInv == Announced /\ InOrder /\ Behind /\ BlocksInsideData

(* What a sequence, of whatever elements, becomes by an append.            *)
LEMMA Appended ==
  ASSUME NEW s, \E X : s \in Seq(X), NEW e, NEW t, t = Append(s, e)
  PROVE  /\ \E X : t \in Seq(X)
         /\ Len(t) = Len(s) + 1 /\ Len(s) \in Nat
         /\ DOMAIN s = 1 .. Len(s) /\ DOMAIN t = 1 .. (Len(s) + 1)
         /\ \A n \in 1 .. Len(s) : t[n] = s[n]
         /\ t[Len(s) + 1] = e
  <1>1. PICK Y : s \in Seq(Y)
    OBVIOUS
  <1> DEFINE X == Y \cup {e}
  <1>2. s \in Seq(X) /\ e \in X
    BY <1>1
  <1> HIDE DEF X
  <1>3. /\ t \in Seq(X) /\ Len(t) = Len(s) + 1 /\ Len(s) \in Nat
        /\ DOMAIN s = 1 .. Len(s) /\ DOMAIN t = 1 .. (Len(s) + 1)
        /\ \A n \in 1 .. Len(s) : t[n] = s[n]
        /\ t[Len(s) + 1] = e
    BY <1>2
  <1> QED BY <1>3

(* Before the first turn nothing is handed over.                           *)
LEMMA BlocksBegin == Init => BlocksInv
  <1> SUFFICES ASSUME Init PROVE BlocksInv
    OBVIOUS
  <1>1. PICK b \in 0 .. MaxPdus : msg \in [1 .. b -> Pdus(kind)]
    BY DEF Init, BoundedSeq, SeqOf
  <1>2. msg \in Seq(Pdus(kind)) /\ Len(msg) \in Nat /\ DOMAIN msg = 1 .. Len(msg)
    BY <1>1, IndicationAssumption
  <1>3. ASSUME kind = "RX_DATA", NEW n \in DOMAIN msg PROVE msg[n][1] \in Nat
    <2>1. msg[n] \in {<<m>> : m \in Sizes}
      BY <1>1, <1>3 DEF Pdus
    <2> QED BY <2>1, IndicationAssumption
  <1>4. data = NoTb \/ data \in Int
    BY DEF Init
  <1>5. given = <<>> /\ i = 1 /\ data_offset = 0
    BY DEF Init
  <1>6. InOrder /\ Behind /\ BlocksInsideData
    BY <1>2, <1>5 DEF InOrder, Behind, BlocksInsideData
  <1> QED BY <1>2, <1>3, <1>4, <1>6 DEF BlocksInv, Announced

(* A turn of the loop hands over a block behind all others, or none.       *)
LEMMA DispatchStep == ASSUME BlocksInv, Dispatch PROVE BlocksInv'
  <1> DEFINE u == msg[i]
             tb == IF kind = "RX_DATA" /\ HasTb(u[1]) THEN data_offset ELSE NoTb
             g == [pdu |-> i, at |-> p, items |-> Walk(kind, u, p + HeaderLen[kind]).items,
                   tb |-> tb]
  <1>1. /\ given' = Append(given, g)
        /\ data_offset' = IF kind = "RX_DATA" THEN NextOffset(u[1]) ELSE data_offset
        /\ i' = i + 1 /\ i <= Len(msg)
        /\ kind' = kind /\ msg' = msg /\ data' = data
    BY DEF Dispatch, inputs
  <1>2. g.tb = tb
    OBVIOUS
  <1>3. tb # NoTb => /\ kind = "RX_DATA" /\ tb = data_offset
                     /\ data_offset + u[1] <= data
                     /\ data_offset' = data_offset + u[1]
    BY <1>1 DEF HasTb, NextOffset
  <1>4. data_offset' = data_offset \/ (kind = "RX_DATA" /\ data_offset' = data_offset + u[1])
    BY <1>1 DEF NextOffset
  <1> HIDE DEF g, tb
  <1>5. /\ \E X : given' \in Seq(X)
        /\ Len(given') = Len(given) + 1 /\ Len(given) \in Nat
        /\ DOMAIN given = 1 .. Len(given) /\ DOMAIN given' = 1 .. i
        /\ \A n \in 1 .. Len(given) : given'[n] = given[n]
        /\ given'[i] = g /\ i = Len(given) + 1
    BY <1>1, Appended DEF BlocksInv, InOrder
  <1>6. Announced' /\ InOrder'
    BY <1>1, <1>5 DEF BlocksInv, Announced, InOrder
  <1>7. i \in DOMAIN msg /\ (kind = "RX_DATA" => u[1] \in Nat)
    BY <1>1, <1>5 DEF BlocksInv, Announced
  <1>8. data_offset \in Nat /\ data_offset' \in Nat /\ data_offset' >= data_offset
    BY <1>4, <1>7 DEF BlocksInv, Behind
  <1>9. \A n \in 1 .. Len(given) : n \in DOMAIN msg /\ (kind = "RX_DATA" => msg[n][1] \in Nat)
    BY <1>5 DEF BlocksInv, Announced, InOrder
  <1>10. ASSUME NEW n \in 1 .. i, given'[n].tb # NoTb
         PROVE  /\ kind = "RX_DATA" /\ given'[n].tb \in Nat
                /\ given'[n].tb + msg[n][1] <= data_offset'
                /\ given'[n].tb + msg[n][1] <= data
                /\ \A b \in 1 .. n - 1 : given'[b].tb # NoTb =>
                     given'[b].tb + msg[b][1] <= given'[n].tb
    <2>1. CASE n = i
      <3>1. given'[n].tb = data_offset /\ kind = "RX_DATA" /\ data_offset + u[1] <= data
            /\ data_offset' = data_offset + u[1]
        BY <1>2, <1>3, <1>5, <1>10, <2>1
      <3>2. ASSUME NEW b \in 1 .. n - 1, given'[b].tb # NoTb
            PROVE  given'[b].tb + msg[b][1] <= data_offset
        <4>1. b \in 1 .. Len(given) /\ given'[b] = given[b]
          BY <1>5, <2>1
        <4> QED BY <1>5, <3>2, <4>1 DEF BlocksInv, Behind
      <3> QED BY <1>8, <2>1, <3>1, <3>2
    <2>2. CASE n # i
      <3>1. n \in 1 .. Len(given) /\ given'[n] = given[n]
        BY <1>5, <2>2
      <3>2. /\ kind = "RX_DATA" /\ given[n].tb \in Nat
            /\ given[n].tb + msg[n][1] <= data_offset
            /\ given[n].tb + msg[n][1] <= data
            /\ \A b \in 1 .. n - 1 : given[b].tb # NoTb =>
                 given[b].tb + msg[b][1] <= given[n].tb
        BY <1>5, <1>10, <3>1 DEF BlocksInv, Behind, BlocksInsideData
      <3>3. given[n].tb + msg[n][1] <= data_offset'
        BY <1>8, <1>9, <3>1, <3>2
      <3>4. \A b \in 1 .. n - 1 : given'[b] = given[b]
        BY <1>5, <3>1
      <3> QED BY <3>1, <3>2, <3>3, <3>4
    <2> QED BY <2>1, <2>2
  <1>11. Behind'
    BY <1>1, <1>5, <1>8, <1>10 DEF Behind
  <1>12. BlocksInsideData'
    BY <1>1, <1>5, <1>10 DEF BlocksInsideData
  <1> QED BY <1>6, <1>11, <1>12 DEF BlocksInv

(* No UE is handed bytes of another one's block, or bytes beyond the end   *)
(* of the data buffer, wherever message and buffer are cut off.            *)
THEOREM BlocksStayInside == Spec => []BlocksInsideData
  <1>1. BlocksInv /\ [Next]_vars => BlocksInv'
    <2> SUFFICES ASSUME BlocksInv, [Next]_vars PROVE BlocksInv'
      OBVIOUS
    <2>1. CASE Finish \/ UNCHANGED vars
      BY <2>1 DEF Finish, inputs, vars, BlocksInv, Announced, InOrder, Behind, BlocksInsideData
    <2> QED BY <2>1, DispatchStep DEF Next
  <1>2. BlocksInv => BlocksInsideData
    BY DEF BlocksInv
  <1> QED BY <1>1, <1>2, BlocksBegin, PTL DEF Spec
--------------------------------------------------------------------------------
(* The layout: PDUs, their items and their blocks follow each other.       *)

(* A PDU is a sequence of lengths.                                         *)
LEMMA PduIsSeq ==
  ASSUME NEW k \in Kinds, NEW u \in Pdus(k)
  PROVE  u \in Seq(Nat) /\ (k = "RX_DATA" => u[1] \in Nat)
  <1>1. CASE k \in {"CRC", "RX_DATA"}
    <2>1. PICK n \in Sizes : u = <<n>>
      BY <1>1 DEF Pdus
    <2> QED BY <2>1, IndicationAssumption
  <1>2. CASE k = "RACH"
    <2>1. PICK n \in 0 .. MaxItems : u = [j \in 1 .. n |-> 0]
      BY <1>2 DEF Pdus
    <2> QED BY <1>2, <2>1, IndicationAssumption
  <1>3. CASE k = "SRS"
    <2>1. PICK b \in 0 .. MaxItems : u \in [1 .. b -> Sizes]
      BY <1>3 DEF Pdus, BoundedSeq, SeqOf
    <2>2. b \in Nat /\ u \in [1 .. b -> Nat]
      <3>1. b \in Nat /\ Sizes \subseteq Nat
        BY IndicationAssumption
      <3>2. \A j \in 1 .. b : u[j] \in Nat
        BY <2>1, <3>1
      <3> QED BY <2>1, <3>1, <3>2
    <2>3. k # "RX_DATA"
      BY <1>3
    <2> QED BY <2>2, <2>3
  <1> QED BY <1>1, <1>2, <1>3 DEF Kinds, HeaderLen

(* The ends of a PDU's items.                                              *)
LEMMA ItemsFollow ==
  ASSUME NEW k \in Kinds, NEW u \in Seq(Nat)
  PROVE  /\ ItemsEnd(k, u) \in [0 .. Len(u) -> Nat]
         /\ ItemsEnd(k, u)[0] = 0
         /\ \A n \in 1 .. Len(u) :
              ItemsEnd(k, u)[n] = ItemsEnd(k, u)[n - 1] + ItemBytes(k, u[n])
  <1> DEFINE s == [j \in DOMAIN u |-> ItemBytes(k, u[j])]
  <1>1. \A n \in Nat : ItemBytes(k, n) \in Nat
    BY DEF ItemBytes, Kinds, HeaderLen
  <1>2. DOMAIN u = 1 .. Len(u) /\ Len(u) \in Nat /\ \A j \in DOMAIN u : u[j] \in Nat
    OBVIOUS
  <1>3. s \in [1 .. Len(u) -> Nat]
    BY <1>1, <1>2
  <1>4. s \in Seq(Nat) /\ Len(s) = Len(u)
    BY <1>2, <1>3
  <1>5. \A n \in 1 .. Len(u) : s[n] = ItemBytes(k, u[n])
    BY <1>2
  <1> HIDE DEF s
  <1>6. /\ Sums(s) \in [0 .. Len(u) -> Nat] /\ Sums(s)[0] = 0
        /\ \A n \in 1 .. Len(u) : Sums(s)[n] = Sums(s)[n - 1] + s[n]
    BY <1>4, SumsAre
  <1>7. ItemsEnd(k, u) = Sums(s)
    BY DEF ItemsEnd, s
  <1> QED BY <1>5, <1>6, <1>7

(* What starts where the one before ends: for PDUs in the message and for  *)
(* blocks in the data buffer.                                              *)
LEMMA LaidOut ==
  ASSUME NEW s \in Seq(Nat)
  PROVE  /\ Sums(s)[1 - 1] = 0
         /\ \A n \in 1 .. Len(s) + 1 : Sums(s)[n - 1] \in Nat
         /\ \A n \in 1 .. Len(s) : Sums(s)[(n + 1) - 1] = Sums(s)[n - 1] + s[n]
         /\ \A n \in 1 .. Len(s) + 1 : \A m \in 1 .. n : Sums(s)[m - 1] <= Sums(s)[n - 1]
  <1>1. /\ Sums(s) \in [0 .. Len(s) -> Nat] /\ Sums(s)[0] = 0
        /\ \A n \in 1 .. Len(s) : Sums(s)[n] = Sums(s)[n - 1] + s[n]
    BY SumsAre
  <1>2. Len(s) \in Nat
    OBVIOUS
  <1> DEFINE S == Sums(s)
             N == Len(s)
  <1> HIDE DEF S, N
  <1>3. S[1 - 1] = 0 /\ \A n \in 1 .. N + 1 : S[n - 1] \in Nat
    <2>1. 1 - 1 = 0 /\ \A n \in 1 .. N + 1 : n - 1 \in 0 .. N
      BY <1>2 DEF N
    <2> QED BY <1>1, <2>1 DEF S, N
  <1>4. \A n \in 1 .. N : S[(n + 1) - 1] = S[n - 1] + s[n]
    <2>1. \A n \in 1 .. N : (n + 1) - 1 = n
      BY <1>2 DEF N
    <2> QED BY <1>1, <2>1 DEF S, N
  <1>5. ASSUME NEW n \in 1 .. N + 1, NEW m \in 1 .. n PROVE S[m - 1] <= S[n - 1]
    <2>1. n - 1 \in 0 .. N /\ m - 1 \in 0 .. (n - 1)
      BY <1>2 DEF N
    <2> QED BY <2>1, SumsGrow DEF S, N
  <1> QED BY <1>3, <1>4, <1>5 DEF S, N

(* The PDUs of a message follow each other, each header and items.         *)
LEMMA PdusFollow ==
  ASSUME NEW k \in Kinds, NEW m \in Seq(Seq(Nat))
  PROVE  /\ Start(k, m, 1) = 0
         /\ \A n \in 1 .. Len(m) + 1 : Start(k, m, n) \in Nat
         /\ \A n \in 1 .. Len(m) :
              Start(k, m, n + 1) = Start(k, m, n) + HeaderLen[k] + ItemsEnd(k, m[n])[Len(m[n])]
         /\ \A n \in 1 .. Len(m) + 1 : \A l \in 1 .. n : Start(k, m, l) <= Start(k, m, n)
  <1> DEFINE s == [j \in DOMAIN m |-> PduBytes(k, m[j])]
  <1>1. DOMAIN m = 1 .. Len(m) /\ Len(m) \in Nat /\ \A j \in DOMAIN m : m[j] \in Seq(Nat)
    OBVIOUS
  <1>2. ASSUME NEW u \in Seq(Nat)
        PROVE  /\ ItemsEnd(k, u)[Len(u)] \in Nat /\ HeaderLen[k] \in Nat
               /\ PduBytes(k, u) = HeaderLen[k] + ItemsEnd(k, u)[Len(u)]
               /\ PduBytes(k, u) \in Nat
    <2>1. Len(u) \in 0 .. Len(u)
      OBVIOUS
    <2>2. ItemsEnd(k, u)[Len(u)] \in Nat
      BY <2>1, ItemsFollow
    <2>3. HeaderLen[k] \in Nat
      BY DEF Kinds, HeaderLen
    <2> QED BY <2>2, <2>3 DEF PduBytes
  <1>3. s \in [1 .. Len(m) -> Nat]
    BY <1>1, <1>2
  <1>4. s \in Seq(Nat) /\ Len(s) = Len(m)
    BY <1>1, <1>3
  <1>5. \A n \in 1 .. Len(m) : /\ s[n] = HeaderLen[k] + ItemsEnd(k, m[n])[Len(m[n])]
                               /\ HeaderLen[k] \in Nat
                               /\ ItemsEnd(k, m[n])[Len(m[n])] \in Nat
    BY <1>1, <1>2
  <1> HIDE DEF s
  <1>6. \A n : Start(k, m, n) = Sums(s)[n - 1]
    BY DEF Start, s
  <1>7. /\ Sums(s)[1 - 1] = 0
        /\ \A n \in 1 .. Len(m) + 1 : Sums(s)[n - 1] \in Nat
        /\ \A n \in 1 .. Len(m) : Sums(s)[(n + 1) - 1] = Sums(s)[n - 1] + s[n]
        /\ \A n \in 1 .. Len(m) + 1 : \A l \in 1 .. n : Sums(s)[l - 1] <= Sums(s)[n - 1]
    BY <1>4, LaidOut
  <1>8. ASSUME NEW n \in 1 .. Len(m)
        PROVE  Start(k, m, n + 1) = Start(k, m, n) + HeaderLen[k] + ItemsEnd(k, m[n])[Len(m[n])]
    <2>1. n \in 1 .. Len(m) + 1
      BY <1>1
    <2>2. Start(k, m, n) \in Nat /\ Start(k, m, n + 1) = Start(k, m, n) + s[n]
      BY <1>6, <1>7, <2>1
    <2> QED BY <1>5, <2>2
  <1>9. /\ Start(k, m, 1) = 0
        /\ \A n \in 1 .. Len(m) + 1 : Start(k, m, n) \in Nat
        /\ \A n \in 1 .. Len(m) + 1 : \A l \in 1 .. n : Start(k, m, l) <= Start(k, m, n)
    BY <1>6, <1>7
  <1> QED BY <1>8, <1>9

(* And so do the blocks of an RX_DATA message.                             *)
LEMMA BlocksFollow ==
  ASSUME NEW m, NEW N \in Nat, DOMAIN m = 1 .. N, \A n \in 1 .. N : m[n][1] \in Nat
  PROVE  /\ Block(m, 1) = 0
         /\ \A n \in 1 .. N + 1 : Block(m, n) \in Nat
         /\ \A n \in 1 .. N : Block(m, n + 1) = Block(m, n) + m[n][1]
  <1> DEFINE s == [j \in DOMAIN m |-> m[j][1]]
  <1>1. s \in [1 .. N -> Nat]
    OBVIOUS
  <1>2. s \in Seq(Nat) /\ Len(s) = N
    BY <1>1
  <1>3. \A n \in 1 .. N : s[n] = m[n][1]
    OBVIOUS
  <1> HIDE DEF s
  <1>4. \A n : Block(m, n) = Sums(s)[n - 1]
    BY DEF Block, s
  <1>5. /\ Sums(s)[1 - 1] = 0
        /\ \A n \in 1 .. N + 1 : Sums(s)[n - 1] \in Nat
        /\ \A n \in 1 .. N : Sums(s)[(n + 1) - 1] = Sums(s)[n - 1] + s[n]
    BY <1>2, LaidOut
  <1> QED BY <1>3, <1>4, <1>5
--------------------------------------------------------------------------------
(* The loop over the items of a PDU.                                       *)
Going == [items : Nat, q : Nat, on : BOOLEAN]

(* A turn of it keeps a cursor and a count.                                *)
LEMMA ItemType ==
  ASSUME NEW k \in Kinds, NEW w \in Going, NEW n \in Nat, len \in Nat
  PROVE  Item(k, w, n) \in Going
  <1>1. ItemBytes(k, n) \in Nat
    BY DEF ItemBytes, Kinds, HeaderLen
  <1>2. w.items \in Nat /\ w.q \in Nat /\ w.on \in BOOLEAN
    BY DEF Going
  <1>3. CASE ~w.on
    BY <1>3 DEF Item
  <1>4. CASE w.on /\ ItemBytes(k, n) <= len - w.q
    <2>1. Item(k, w, n) = [items |-> w.items + 1, q |-> w.q + ItemBytes(k, n), on |-> TRUE]
      BY <1>4 DEF Item
    <2> QED BY <1>1, <1>2, <2>1 DEF Going
  <1>5. CASE w.on /\ ~(ItemBytes(k, n) <= len - w.q)
    <2> DEFINE q1 == CASE k = "CRC" -> w.q + n [] k = "SRS" -> len [] OTHER -> w.q
    <2>1. Item(k, w, n) = [items |-> w.items, on |-> FALSE, q |-> q1]
      BY <1>5 DEF Item
    <2>2. q1 \in Nat
      BY <1>2
    <2> QED BY <1>2, <2>1, <2>2 DEF Going
  <1> QED BY <1>2, <1>3, <1>4, <1>5

(* The loop, turn by turn.                                                 *)
LEMMA WalkTurns ==
  ASSUME NEW k \in Kinds, NEW u \in Seq(Nat), NEW b \in Nat, len \in Nat
  PROVE  \E at \in [0 .. Len(u) -> Going] :
           /\ at[0] = AtHeaderEnd(b)
           /\ \A n \in 1 .. Len(u) : at[n] = Item(k, at[n - 1], u[n])
           /\ Walk(k, u, b) = at[Len(u)]
  <1> DEFINE N == Len(u)
             a == AtHeaderEnd(b)
             step == [n \in 1 .. N |-> [w \in Going |-> Item(k, w, u[n])]]
  <1>1. N \in Nat /\ \A n \in 1 .. N : u[n] \in Nat
    OBVIOUS
  <1>2. step \in Steps(N, Going)
    <2>1. \A n \in 1 .. N : \A w \in Going : Item(k, w, u[n]) \in Going
      BY <1>1, ItemType
    <2> QED BY <2>1 DEF Steps
  <1>3. a \in Going
    BY DEF Going, AtHeaderEnd
  <1>4. PICK g \in [0 .. N -> Going] :
          g[0] = a /\ \A n \in 1 .. N : g[n] = step[n][g[n - 1]]
    <2> HIDE DEF step, N, a
    <2>1. PICK g : Follows(g, N, Going, a, step)
      BY <1>1, <1>2, <1>3, Recursion
    <2> QED BY <2>1 DEF Follows
  <1>5. \A n \in 1 .. N : n - 1 \in 0 .. N /\ g[n] = Item(k, g[n - 1], u[n])
    <2>1. \A n \in 1 .. N : n - 1 \in 0 .. N
      BY <1>1
    <2>2. \A n \in 1 .. N : g[n - 1] \in Going
      BY <1>4, <2>1
    <2> QED BY <1>4, <2>1, <2>2
  <1>6. g = [n \in 0 .. N |-> IF n = 0 THEN a ELSE Item(k, g[n - 1], u[n])]
    <2>1. ASSUME NEW n \in 0 .. N PROVE g[n] = IF n = 0 THEN a ELSE Item(k, g[n - 1], u[n])
      <3>1. n # 0 => n \in 1 .. N
        BY <1>1
      <3> HIDE DEF N, a
      <3> QED BY <1>4, <1>5, <3>1
    <2> HIDE DEF N, a
    <2> QED BY <1>4, <2>1
  <1> DEFINE at == CHOOSE f : f = [n \in 0 .. N |-> IF n = 0 THEN a
                                                    ELSE Item(k, f[n - 1], u[n])]
  <1>7. at = [n \in 0 .. N |-> IF n = 0 THEN a ELSE Item(k, at[n - 1], u[n])]
    BY <1>6, Zenon
  <1>8. Walk(k, u, b) = at[Len(u)]
    BY Zenon DEF Walk
  <1> DEFINE T == {n \in Nat : n <= N => at[n] \in Going}
  <1> HIDE DEF at, N, a
  <1>9. at[0] = a /\ \A n \in 1 .. N : at[n] = Item(k, at[n - 1], u[n])
    <2>1. 0 \in 0 .. N /\ \A n \in 1 .. N : n \in 0 .. N /\ n # 0
      BY <1>1
    <2> QED BY <1>7, <2>1
  <1>10. 0 \in T
    BY <1>3, <1>9
  <1>11. ASSUME NEW n \in Nat, n \in T PROVE n + 1 \in T
    <2> SUFFICES ASSUME n + 1 <= N PROVE at[n + 1] \in Going
      OBVIOUS
    <2>1. n + 1 \in 1 .. N /\ (n + 1) - 1 = n /\ at[n] \in Going
      BY <1>1, <1>11
    <2>2. at[n + 1] = Item(k, at[n], u[n + 1]) /\ u[n + 1] \in Nat
      BY <1>1, <1>9, <2>1
    <2> QED BY <2>1, <2>2, ItemType
  <1>12. \A n \in 0 .. N : at[n] \in Going
    <2>1. \A n \in Nat : n \in T
      <3> HIDE DEF T
      <3> QED BY <1>10, <1>11, Induction
    <2> QED BY <1>1, <2>1
  <1>13. at \in [0 .. N -> Going]
    BY <1>7, <1>12
  <1> QED BY <1>8, <1>9, <1>13 DEF N, a
(* One turn: an item that is complete is counted and passed; at one that   *)
(* is not, the loop ends where no further header fits.                     *)
LEMMA ItemTurn ==
  ASSUME NEW k \in Kinds, NEW w \in Going, NEW n \in Nat, len \in Nat, w.q <= len
  PROVE  LET v == Item(k, w, n)
         IN  /\ w.on /\ v.on => /\ v.items = w.items + 1
                                /\ v.q = w.q + ItemBytes(k, n) /\ v.q <= len
             /\ w.on /\ ~v.on => /\ w.q + ItemBytes(k, n) > len
                                 /\ v.q + HeaderLen[k] > len
             /\ ~w.on => v = w
  <1> DEFINE v == Item(k, w, n)
  <1>1. /\ w.items \in Nat /\ w.q \in Nat /\ w.on \in BOOLEAN
        /\ k \in {"CRC", "RX_DATA", "RACH", "SRS"}
    BY DEF Going, Kinds, HeaderLen
  <1>2. ItemBytes(k, n) \in Nat
    BY <1>1 DEF ItemBytes
  <1>3. CASE ~w.on
    BY <1>3 DEF Item
  <1>4. CASE w.on /\ ItemBytes(k, n) <= len - w.q
    <2>1. v = [items |-> w.items + 1, q |-> w.q + ItemBytes(k, n), on |-> TRUE]
      BY <1>4 DEF Item
    <2> QED BY <1>1, <1>2, <1>4, <2>1
  <1>5. CASE w.on /\ ~(ItemBytes(k, n) <= len - w.q)
    <2> DEFINE q1 == CASE k = "CRC" -> w.q + n [] k = "SRS" -> len [] OTHER -> w.q
    <2>1. v = [items |-> w.items, on |-> FALSE, q |-> q1]
      BY <1>5 DEF Item
    <2>2. w.q + ItemBytes(k, n) > len
      BY <1>1, <1>2, <1>5
    <2>3. CASE k = "CRC"
      <3>1. ItemBytes(k, n) = n + 5 /\ HeaderLen[k] = 10 /\ q1 = w.q + n
        BY <2>3 DEF ItemBytes, HeaderLen
      <3> HIDE DEF q1
      <3> QED BY <1>1, <1>5, <2>1, <2>2, <3>1
    <2>4. CASE k = "SRS"
      <3>1. HeaderLen[k] = 11 /\ q1 = len
        BY <2>4 DEF HeaderLen
      <3> HIDE DEF q1
      <3> QED BY <1>1, <1>5, <2>1, <2>2, <3>1
    <2>5. CASE k = "RACH"
      <3>1. ItemBytes(k, n) = 7 /\ HeaderLen[k] = 8 /\ q1 = w.q
        BY <2>5 DEF ItemBytes, HeaderLen
      <3> HIDE DEF q1
      <3> QED BY <1>1, <1>5, <2>1, <2>2, <3>1
    <2>6. CASE k = "RX_DATA"
      <3>1. ItemBytes(k, n) = 0
        BY <2>6 DEF ItemBytes
      <3> QED BY <1>1, <2>2, <3>1
    <2> QED BY <1>1, <2>3, <2>4, <2>5, <2>6
  <1> QED BY <1>1, <1>3, <1>4, <1>5

(* A PDU that is complete is passed with all its items; after one that is  *)
(* not, no further header fits.                                            *)
LEMMA WalkReaches ==
  ASSUME NEW k \in Kinds, NEW u \in Seq(Nat), NEW b \in Nat, len \in Nat, b <= len
  PROVE  LET w == Walk(k, u, b)
             e == b + ItemsEnd(k, u)[Len(u)]
         IN  /\ w \in Going
             /\ e <= len => w.items = Len(u) /\ w.q = e
             /\ e > len => w.q + HeaderLen[k] > len
  <1>1. PICK at \in [0 .. Len(u) -> Going] :
          /\ at[0] = AtHeaderEnd(b)
          /\ \A n \in 1 .. Len(u) : at[n] = Item(k, at[n - 1], u[n])
          /\ Walk(k, u, b) = at[Len(u)]
    BY WalkTurns
  <1> DEFINE N == Len(u)
             E == ItemsEnd(k, u)
             Good(n) == IF at[n].on THEN at[n].items = n /\ at[n].q = b + E[n] /\ at[n].q <= len
                                    ELSE b + E[n] > len /\ at[n].q + HeaderLen[k] > len
             T == {n \in Nat : n <= N => Good(n)}
  <1>2. N \in Nat /\ HeaderLen[k] \in Nat
    BY DEF Kinds, HeaderLen
  <1>3. \A n \in 1 .. N : u[n] \in Nat /\ ItemBytes(k, u[n]) \in Nat
    <2>1. \A n \in 1 .. N : u[n] \in Nat
      OBVIOUS
    <2> QED BY <2>1 DEF Kinds, HeaderLen, ItemBytes
  <1>4. /\ E \in [0 .. N -> Nat] /\ E[0] = 0
        /\ \A n \in 1 .. N : E[n] = E[n - 1] + ItemBytes(k, u[n])
    BY ItemsFollow
  <1> HIDE DEF N, E
  <1>5. 0 \in T
    BY <1>1, <1>2, <1>4 DEF AtHeaderEnd
  <1>6. ASSUME NEW n \in Nat, n \in T PROVE n + 1 \in T
    <2> SUFFICES ASSUME n + 1 <= N PROVE Good(n + 1)
      OBVIOUS
    <2> DEFINE w == at[n]
               v == at[n + 1]
               c == ItemBytes(k, u[n + 1])
    <2>1. n + 1 \in 1 .. N /\ (n + 1) - 1 = n /\ n \in 0 .. N /\ n + 1 \in 0 .. N /\ Good(n)
      BY <1>2, <1>6
    <2>2. v = Item(k, w, u[n + 1]) /\ w \in Going /\ v \in Going
      BY <1>1, <2>1 DEF N
    <2>3. u[n + 1] \in Nat /\ c \in Nat /\ E[n + 1] = E[n] + c /\ E[n] \in Nat
      BY <1>3, <1>4, <2>1
    <2>4. w.q \in Nat /\ v.q \in Nat /\ w.on \in BOOLEAN /\ v.on \in BOOLEAN /\ w.items \in Nat
      BY <2>2 DEF Going
    <2>5. CASE w.on
      <3>1. w.items = n /\ w.q = b + E[n] /\ w.q <= len
        BY <2>1, <2>5
      <3>2. /\ v.on => v.items = w.items + 1 /\ v.q = w.q + c /\ v.q <= len
            /\ ~v.on => w.q + c > len /\ v.q + HeaderLen[k] > len
        BY <2>2, <2>3, <2>5, <3>1, ItemTurn
      <3> HIDE DEF w, v, c
      <3>3. IF v.on THEN v.items = n + 1 /\ v.q = b + E[n + 1] /\ v.q <= len
                    ELSE b + E[n + 1] > len /\ v.q + HeaderLen[k] > len
        BY <2>3, <2>4, <3>1, <3>2
      <3> QED BY <3>3 DEF v
    <2>6. CASE ~w.on
      <3>1. b + E[n] > len /\ w.q + HeaderLen[k] > len
        BY <2>1, <2>6
      <3>2. v = w
        BY <2>2, <2>6 DEF Item
      <3>3. b + E[n + 1] > len
        BY <2>3, <3>1
      <3> QED BY <2>6, <3>1, <3>2, <3>3
    <2> QED BY <2>5, <2>6
  <1>7. Good(N)
    <2>1. \A n \in Nat : n \in T
      <3> HIDE DEF T
      <3> QED BY <1>5, <1>6, Induction
    <2> QED BY <1>2, <2>1
  <1>8. at[N] \in Going /\ at[N].on \in BOOLEAN /\ E[N] \in Nat
    <2>1. N \in 0 .. N
      BY <1>2
    <2> QED BY <1>1, <1>4, <2>1 DEF Going, N
  <1>9. Walk(k, u, b) = at[N] /\ ItemsEnd(k, u)[Len(u)] = E[N] /\ Len(u) = N
    BY <1>1 DEF N, E
  <1> QED BY <1>7, <1>8, <1>9
--------------------------------------------------------------------------------
(* What L1 may have written.                                               *)
Message ==
  /\ kind \in Kinds /\ msg \in Seq(Seq(Nat)) /\ len \in Nat
  /\ data # NoTb => kind = "RX_DATA"

(* The cursor is where the next PDU starts, unless it starts beyond the    *)
(* end of the message: then no header fits behind the cursor either.       *)
AtNext ==
  /\ p \in Nat
  /\ \/ p = Start(kind, msg, i) /\ p <= len
     \/ Start(kind, msg, i) > len /\ p + HeaderLen[kind] > len

(* Every delivery is of the PDU of its turn.                               *)
InPlace ==
  \A n \in DOMAIN given :
    /\ given[n].pdu = n /\ given[n].at = Start(kind, msg, n)
    /\ given[n].at + HeaderLen[kind] <= len
    /\ End(n) <= len => given[n].items = Len(msg[n])

(* The loop ends with the message.                                         *)
AtEnd == done => i > Len(msg) \/ p + HeaderLen[kind] > len

ReadInv == Message /\ InOrder /\ AtNext /\ InPlace /\ AtEnd

(* The message is what L1 wrote; its first PDU is at the cursor.           *)
LEMMA ReadBegins == Init => ReadInv
  <1> SUFFICES ASSUME Init PROVE ReadInv
    OBVIOUS
  <1>1. kind \in Kinds
    BY DEF Init
  <1>2. PICK b \in 0 .. MaxPdus : msg \in [1 .. b -> Pdus(kind)]
    BY DEF Init, BoundedSeq, SeqOf
  <1>3. b \in Nat
    BY IndicationAssumption
  <1>4. msg \in [1 .. b -> Seq(Nat)]
    <2>1. \A u \in Pdus(kind) : u \in Seq(Nat)
      BY <1>1, PduIsSeq
    <2> QED BY <1>2, <2>1
  <1>5. msg \in Seq(Seq(Nat)) /\ Len(msg) \in Nat
    BY <1>3, <1>4
  <1>6. len \in Nat
    BY DEF Init
  <1>7. data # NoTb => kind = "RX_DATA"
    BY DEF Init
  <1>8. i = 1 /\ p = 0 /\ given = <<>> /\ done = FALSE
    BY DEF Init
  <1>9. Start(kind, msg, 1) = 0
    BY <1>1, <1>5, PdusFollow
  <1> QED BY <1>1, <1>5, <1>6, <1>7, <1>8, <1>9
        DEF ReadInv, Message, InOrder, AtNext, InPlace, AtEnd

(* A turn delivers the PDU at the cursor and passes it.                    *)
LEMMA ReadDispatch == ASSUME ReadInv, Dispatch PROVE ReadInv'
  <1> DEFINE u == msg[i]
             H == HeaderLen[kind]
             w == Walk(kind, u, p + H)
             e == ItemsEnd(kind, u)[Len(u)]
             g == [pdu |-> i, at |-> p, items |-> w.items,
                   tb |-> IF kind = "RX_DATA" /\ HasTb(u[1]) THEN data_offset ELSE NoTb]
  <1>1. /\ given' = Append(given, g) /\ p' = w.q
        /\ i' = i + 1 /\ i <= Len(msg) /\ p + H <= len /\ ~done
        /\ kind' = kind /\ msg' = msg /\ data' = data /\ len' = len /\ done' = done
    BY DEF Dispatch, inputs
  <1>2. /\ kind \in Kinds /\ msg \in Seq(Seq(Nat)) /\ len \in Nat /\ p \in Nat /\ H \in Nat
        /\ Len(msg) \in Nat
    BY DEF ReadInv, Message, AtNext, Kinds, HeaderLen
  <1>3. g.pdu = i /\ g.at = p /\ g.items = w.items
    OBVIOUS
  <1> HIDE DEF g
  <1>4. /\ \E X : given' \in Seq(X)
        /\ Len(given') = Len(given) + 1 /\ Len(given) \in Nat
        /\ DOMAIN given = 1 .. Len(given) /\ DOMAIN given' = 1 .. i
        /\ \A n \in 1 .. Len(given) : given'[n] = given[n]
        /\ given'[i] = g /\ i = Len(given) + 1
    BY <1>1, Appended DEF ReadInv, InOrder
  <1>5. i \in 1 .. Len(msg) /\ u \in Seq(Nat) /\ i \in 1 .. Len(msg) + 1
    BY <1>1, <1>2, <1>4
  <1>6. /\ Start(kind, msg, i) \in Nat
        /\ Start(kind, msg, i + 1) = Start(kind, msg, i) + H + e
    BY <1>2, <1>5, PdusFollow
  <1>7. p = Start(kind, msg, i)
    BY <1>1, <1>2, <1>6 DEF ReadInv, AtNext
  <1>8. /\ w \in Going
        /\ p + H + e <= len => w.items = Len(u) /\ w.q = p + H + e
        /\ p + H + e > len => w.q + H > len
    BY <1>1, <1>2, <1>5, WalkReaches
  <1>9. e \in Nat /\ w.q \in Nat
    <2>1. Len(u) \in 0 .. Len(u)
      BY <1>5
    <2> QED BY <1>2, <1>5, <1>8, <2>1, ItemsFollow DEF Going
  <1>10. Start(kind, msg, i + 1) = p + H + e
    BY <1>6, <1>7
  <1> HIDE DEF u, H, w, e
  <1>11. Message' /\ InOrder' /\ AtEnd'
    BY <1>1, <1>4 DEF ReadInv, Message, InOrder, AtEnd
  <1>12. AtNext'
    <2>1. p' \in Nat
      BY <1>1, <1>9
    <2>2. (Start(kind, msg, i))' = p + H + e
      BY <1>1, <1>10
    <2>3. HeaderLen[kind]' = H /\ len' = len
      BY <1>1 DEF H
    <2>4. \/ p' = p + H + e /\ p' <= len
          \/ p + H + e > len /\ p' + H > len
      BY <1>1, <1>2, <1>8, <1>9
    <2> QED BY <2>1, <2>2, <2>3, <2>4 DEF AtNext
  <1>13. InPlace'
    <2>1. ASSUME NEW n \in 1 .. i
          PROVE  /\ given'[n].pdu = n /\ given'[n].at = Start(kind, msg, n)
                 /\ given'[n].at + HeaderLen[kind] <= len
                 /\ End(n) <= len => given'[n].items = Len(msg[n])
      <3>1. CASE n = i
        BY <1>1, <1>3, <1>4, <1>7, <1>8, <1>10, <3>1 DEF End, H, u
      <3>2. CASE n # i
        <4>1. n \in 1 .. Len(given) /\ given'[n] = given[n]
          BY <1>4, <3>2
        <4> QED BY <1>4, <4>1 DEF ReadInv, InPlace
      <3> QED BY <3>1, <3>2
    <2> QED BY <1>1, <1>4, <2>1 DEF InPlace, End
  <1> QED BY <1>11, <1>12, <1>13 DEF ReadInv

(* The cursor and what was delivered are in order in every state.          *)
LEMMA Reading == Spec => []ReadInv
  <1>1. ReadInv /\ [Next]_vars => ReadInv'
    <2> SUFFICES ASSUME ReadInv, [Next]_vars PROVE ReadInv'
      OBVIOUS
    <2>1. CASE Finish
      BY <2>1 DEF Finish, inputs, ReadInv, Message, InOrder, AtNext, InPlace, AtEnd, End
    <2>2. CASE UNCHANGED vars
      BY <2>2 DEF inputs, vars, ReadInv, Message, InOrder, AtNext, InPlace, AtEnd, End
    <2> QED BY <2>1, <2>2, ReadDispatch DEF Next
  <1> QED BY <1>1, ReadBegins, PTL DEF Spec

(* Every PDU of a CRC, RX_DATA, RACH or SRS indication is decoded from its *)
(* own bytes, whatever the message holds and wherever it is cut off.       *)
THEOREM EveryPduReadInPlace == Spec => []ReadInPlace
  <1>1. ReadInv => ReadInPlace
    BY DEF ReadInv, InPlace, ReadInPlace
  <1> QED BY <1>1, Reading, PTL

(* However a message is cut off, every PDU that is there in full is        *)
(* delivered with all its items, and none whose header is not there.       *)
THEOREM CutLosesOnlyTheCut == Spec => []NothingWholeIsLost
  <1>1. ReadInv => NothingWholeIsLost
    <2> SUFFICES ASSUME ReadInv, done, NEW n \in DOMAIN msg
                 PROVE  /\ End(n) <= len => n <= Len(given) /\ given[n].items = Len(msg[n])
                        /\ Start(kind, msg, n) + HeaderLen[kind] > len => n > Len(given)
      BY DEF NothingWholeIsLost
    <2> DEFINE H == HeaderLen[kind]
    <2>1. /\ kind \in Kinds /\ msg \in Seq(Seq(Nat)) /\ len \in Nat /\ p \in Nat /\ H \in Nat
      BY DEF ReadInv, Message, AtNext, Kinds, HeaderLen
    <2>2. Len(msg) \in Nat /\ n \in 1 .. Len(msg) /\ n + 1 \in 1 .. Len(msg) + 1
      BY <2>1
    <2>3. Len(given) \in Nat /\ DOMAIN given = 1 .. Len(given) /\ i = Len(given) + 1
      BY DEF ReadInv, InOrder
    <2>4. ASSUME End(n) <= len, n > Len(given) PROVE FALSE
      <3>1. i \in 1 .. n /\ i \in 1 .. Len(msg) /\ i + 1 \in 1 .. n + 1
            /\ i \in 1 .. Len(msg) + 1
        BY <2>2, <2>3, <2>4
      <3>2. p + H > len
        BY <2>3, <3>1 DEF ReadInv, AtEnd
      <3> DEFINE e == ItemsEnd(kind, msg[i])[Len(msg[i])]
      <3>3. e \in Nat
        <4>1. msg[i] \in Seq(Nat)
          BY <2>1, <3>1
        <4>2. Len(msg[i]) \in 0 .. Len(msg[i])
          BY <4>1
        <4> QED BY <2>1, <4>1, <4>2, ItemsFollow
      <3>4. /\ Start(kind, msg, i) \in Nat
            /\ Start(kind, msg, i + 1) = Start(kind, msg, i) + H + e
            /\ Start(kind, msg, i + 1) <= Start(kind, msg, n + 1)
        BY <2>1, <2>2, <3>1, PdusFollow
      <3>5. Start(kind, msg, i) + H > len
        BY <2>1, <3>2, <3>4 DEF ReadInv, AtNext
      <3>6. Start(kind, msg, n + 1) <= len
        BY <2>4 DEF End
      <3>7. Start(kind, msg, n + 1) \in Nat
        BY <2>1, <2>2, PdusFollow
      <3> HIDE DEF e, H
      <3> QED BY <2>1, <3>3, <3>4, <3>5, <3>6, <3>7
    <2>5. n \in 1 .. Len(given) =>
            /\ End(n) <= len => given[n].items = Len(msg[n])
            /\ Start(kind, msg, n) + HeaderLen[kind] <= len
      BY <2>3 DEF ReadInv, InPlace
    <2>6. Start(kind, msg, n) \in Nat
      BY <2>1, <2>2, PdusFollow
    <2> QED BY <2>1, <2>2, <2>3, <2>4, <2>5, <2>6
  <1> QED BY <1>1, Reading, PTL
--------------------------------------------------------------------------------
(* The next block is at data_offset, unless it starts beyond the end of    *)
(* the data buffer.                                                        *)
AtNextBlock ==
  data # NoTb => data_offset = Block(msg, i) \/ Block(msg, i) > data

(* BlockOfItsOwnPdu needs it, and the order of the deliveries.             *)
OwnInv == BlocksInv /\ ReadInv /\ AtNextBlock /\ BlockOfItsOwnPdu

(* A turn of the loop hands over the PDU's own block and passes it.        *)
LEMMA OwnDispatch ==
  ASSUME OwnInv, Dispatch PROVE AtNextBlock' /\ BlockOfItsOwnPdu'
  <1> DEFINE u == msg[i]
             tb == IF kind = "RX_DATA" /\ HasTb(u[1]) THEN data_offset ELSE NoTb
             g == [pdu |-> i, at |-> p, items |-> Walk(kind, u, p + HeaderLen[kind]).items,
                   tb |-> tb]
  <1>1. /\ given' = Append(given, g)
        /\ data_offset' = IF kind = "RX_DATA" THEN NextOffset(u[1]) ELSE data_offset
        /\ i' = i + 1 /\ i <= Len(msg)
        /\ msg' = msg /\ data' = data
    BY DEF Dispatch, inputs
  <1>2. g.tb = tb
    OBVIOUS
  <1> HIDE DEF g
  <1>3. /\ Len(given) \in Nat /\ DOMAIN given = 1 .. Len(given) /\ DOMAIN given' = 1 .. i
        /\ \A n \in 1 .. Len(given) : given'[n] = given[n]
        /\ given'[i] = g /\ i = Len(given) + 1
    BY <1>1, Appended DEF OwnInv, BlocksInv, InOrder
  <1>4. data = NoTb => tb = NoTb
    BY DEF HasTb
  <1>5. ASSUME data # NoTb
        PROVE  /\ Block(msg, i + 1) <= data => tb = Block(msg, i)
               /\ data_offset' = Block(msg, i + 1) \/ Block(msg, i + 1) > data
    <2>1. /\ kind = "RX_DATA" /\ Len(msg) \in Nat /\ DOMAIN msg = 1 .. Len(msg)
          /\ \A n \in 1 .. Len(msg) : msg[n][1] \in Nat
          /\ data \in Int /\ data_offset \in Nat
      BY <1>5 DEF OwnInv, BlocksInv, ReadInv, Message, Announced, Behind
    <2>2. i \in 1 .. Len(msg) /\ i \in 1 .. Len(msg) + 1
      BY <1>1, <1>3, <2>1
    <2>3. /\ Block(msg, i) \in Nat /\ u[1] \in Nat
          /\ Block(msg, i + 1) = Block(msg, i) + u[1]
      BY <2>1, <2>2, BlocksFollow
    <2>4. data_offset = Block(msg, i) \/ Block(msg, i) > data
      BY <1>5 DEF OwnInv, AtNextBlock
    <2>5. /\ data_offset + u[1] <= data => tb = data_offset /\ data_offset' = data_offset + u[1]
          /\ data_offset + u[1] > data => data_offset' = data_offset
      BY <1>1, <1>5, <2>1, <2>3 DEF HasTb, NextOffset
    <2> HIDE DEF u, tb
    <2> QED BY <2>1, <2>3, <2>4, <2>5
  <1>6. AtNextBlock'
    BY <1>1, <1>5 DEF AtNextBlock
  <1>7. ASSUME NEW n \in 1 .. i
        PROVE  /\ data = NoTb => given'[n].tb = NoTb
               /\ data # NoTb /\ Block(msg, n + 1) <= data => given'[n].tb = Block(msg, n)
    <2>1. CASE n = i
      BY <1>2, <1>3, <1>4, <1>5, <2>1
    <2>2. CASE n # i
      <3>1. n \in 1 .. Len(given) /\ given'[n] = given[n]
        BY <1>3, <2>2
      <3> QED BY <1>3, <3>1 DEF OwnInv, BlockOfItsOwnPdu
    <2> QED BY <2>1, <2>2
  <1>8. BlockOfItsOwnPdu'
    BY <1>1, <1>3, <1>7 DEF BlockOfItsOwnPdu
  <1> QED BY <1>6, <1>8

(* The transport block a UE is handed is the one L1 received for it: with  *)
(* every block that is in the data buffer, whatever is cut off behind it.  *)
THEOREM BlockBelongsToItsPdu == Spec => []BlockOfItsOwnPdu
  <1>1. Init => OwnInv
    <2> SUFFICES ASSUME Init PROVE AtNextBlock /\ BlockOfItsOwnPdu
      BY BlocksBegin, ReadBegins DEF OwnInv
    <2>1. i = 1 /\ data_offset = 0 /\ given = <<>>
      BY DEF Init
    <2>2. data # NoTb => Block(msg, 1) = 0
      <3> SUFFICES ASSUME data # NoTb PROVE Block(msg, 1) = 0
        OBVIOUS
      <3>1. /\ Len(msg) \in Nat /\ DOMAIN msg = 1 .. Len(msg)
            /\ \A n \in 1 .. Len(msg) : msg[n][1] \in Nat
        BY BlocksBegin, ReadBegins DEF BlocksInv, ReadInv, Message, Announced
      <3> QED BY <3>1, BlocksFollow
    <2> QED BY <2>1, <2>2 DEF AtNextBlock, BlockOfItsOwnPdu
  <1>2. OwnInv /\ [Next]_vars => OwnInv'
    <2> SUFFICES ASSUME OwnInv, [Next]_vars PROVE OwnInv'
      OBVIOUS
    <2>1. CASE Dispatch
      BY <2>1, DispatchStep, ReadDispatch, OwnDispatch DEF OwnInv
    <2>2. CASE Finish
      BY <2>2 DEF Finish, inputs, OwnInv, BlocksInv, Announced, InOrder, Behind, BlocksInsideData,
                  ReadInv, Message, AtNext, InPlace, AtEnd, End, AtNextBlock, BlockOfItsOwnPdu
    <2>3. CASE UNCHANGED vars
      BY <2>3 DEF vars, inputs, OwnInv, BlocksInv, Announced, InOrder, Behind, BlocksInsideData,
                  ReadInv, Message, AtNext, InPlace, AtEnd, End, AtNextBlock, BlockOfItsOwnPdu
    <2> QED BY <2>1, <2>2, <2>3 DEF Next
  <1>3. OwnInv => BlockOfItsOwnPdu
    BY DEF OwnInv
  <1> QED BY <1>1, <1>2, <1>3, PTL DEF Spec
================================================================================
