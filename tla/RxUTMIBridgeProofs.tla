-------------------------- MODULE RxUTMIBridgeProofs --------------------------
(***************************************************************************)
(* Proofs about RxUTMIBridge, for every FIFO depth and set of bytes.  The  *)
(* inductive invariant is that each entry in flight leaves what the next   *)
(* one expects (Chained), from rx_active at the reading end to in_packet   *)
(* at the writing end.                                                     *)
(***************************************************************************)
EXTENDS MCRxUTMIBridge, WireCodeProofs

\* The entries in flight lead from rx_active to in_packet.
Chained(entries, before, after) ==
  /\ entries = <<>> => before = after
  /\ entries # <<>> => /\ before = OpensBefore(entries[1])
                       /\ after = OpensAfter(entries[Len(entries)])
  /\ \A k \in 1..(Len(entries) - 1) : OpensAfter(entries[k]) = OpensBefore(entries[k + 1])

(* An entry joins at the writing end. *)
LEMMA ChainedAppend ==
  ASSUME NEW s \in Seq(Entry), NEW e \in Entry, NEW before \in BOOLEAN, NEW after \in BOOLEAN,
         Chained(s, before, after), OpensBefore(e) = after
  PROVE  Chained(Append(s, e), before, OpensAfter(e))
<1> DEFINE t == Append(s, e)
<1>1. /\ t \in Seq(Entry) /\ t # <<>> /\ Len(t) = Len(s) + 1 /\ Len(s) \in Nat
      /\ \A i \in 1..Len(s) : t[i] = s[i]
      /\ t[Len(s) + 1] = e
  BY AppendProperties, LenProperties
<1> HIDE DEF t
<1>2. t[Len(t)] = e
  BY <1>1
<1>3. CASE s = <<>>
  <2>1. Len(s) = 0
    BY <1>3
  <2>2. Len(t) = 1 /\ t[1] = e
    BY <1>1, <2>1
  <2>3. 1..(Len(t) - 1) = {}
    BY <2>2
  <2>4. before = after
    BY <1>3 DEF Chained
  <2>5. Chained(t, before, OpensAfter(e))
    BY <1>1, <1>2, <2>2, <2>3, <2>4, Zenon DEF Chained
  <2> QED
    BY <2>5 DEF t
<1>4. CASE s # <<>>
  <2>1. Len(s) >= 1
    BY <1>1, <1>4, EmptySeq
  <2>2. t[1] = s[1] /\ t[Len(s)] = s[Len(s)]
    <3>1. 1 \in 1..Len(s) /\ Len(s) \in 1..Len(s)
      BY <1>1, <2>1
    <3> QED
      BY <1>1, <3>1
  <2>3. ASSUME NEW k \in 1..(Len(t) - 1)
        PROVE  OpensAfter(t[k]) = OpensBefore(t[k + 1])
    <3>1. CASE k = Len(s)
      <4>1. t[k] = s[Len(s)] /\ t[k + 1] = e
        BY <1>1, <2>2, <3>1
      <4>2. after = OpensAfter(s[Len(s)])
        BY <1>4 DEF Chained
      <4> QED
        BY <4>1, <4>2
    <3>2. CASE k # Len(s)
      <4>1. k \in 1..(Len(s) - 1) /\ k \in 1..Len(s) /\ k + 1 \in 1..Len(s)
        BY <1>1, <3>2
      <4>2. t[k] = s[k] /\ t[k + 1] = s[k + 1]
        BY <1>1, <4>1
      <4>3. OpensAfter(s[k]) = OpensBefore(s[k + 1])
        BY <4>1 DEF Chained
      <4> QED
        BY <4>2, <4>3
    <3> QED
      BY <3>1, <3>2
  <2>4. before = OpensBefore(s[1])
    BY <1>4 DEF Chained
  <2>5. Chained(t, before, OpensAfter(e))
    BY <1>1, <1>2, <2>2, <2>3, <2>4, Zenon DEF Chained
  <2> QED
    BY <2>5 DEF t
<1> QED
  BY <1>3, <1>4

(* The oldest entry leaves at the reading end. *)
LEMMA ChainedTail ==
  ASSUME NEW s \in Seq(Entry), s # <<>>, NEW before \in BOOLEAN, NEW after \in BOOLEAN,
         Chained(s, before, after)
  PROVE  Chained(Tail(s), OpensAfter(s[1]), after)
<1> DEFINE t == Tail(s)
<1>1. /\ t \in Seq(Entry) /\ Len(t) = Len(s) - 1 /\ Len(s) \in Nat /\ Len(s) >= 1
      /\ \A i \in 1..Len(t) : t[i] = s[i + 1]
  BY HeadTailProperties, LenProperties, EmptySeq
<1> HIDE DEF t
<1>2. CASE Len(s) = 1
  <2>1. t = <<>> /\ Len(t) = 0
    BY <1>1, <1>2, EmptySeq
  <2>2. after = OpensAfter(s[1])
    BY <1>2 DEF Chained
  <2>3. 1..(Len(t) - 1) = {}
    BY <2>1
  <2>4. Chained(t, OpensAfter(s[1]), after)
    BY <2>1, <2>2, <2>3, Zenon DEF Chained
  <2> QED
    BY <2>4 DEF t
<1>3. CASE Len(s) # 1
  <2>1. t # <<>> /\ Len(t) >= 1
    BY <1>1, <1>3
  <2>2. t[1] = s[2] /\ t[Len(t)] = s[Len(s)]
    BY <1>1, <2>1
  <2>3. OpensAfter(s[1]) = OpensBefore(s[2]) /\ after = OpensAfter(s[Len(s)])
    <3>1. 1 \in 1..(Len(s) - 1)
      BY <1>1, <1>3
    <3> QED
      BY <3>1 DEF Chained
  <2>4. ASSUME NEW k \in 1..(Len(t) - 1)
        PROVE  OpensAfter(t[k]) = OpensBefore(t[k + 1])
    <3>1. /\ k \in 1..Len(t) /\ k + 1 \in 1..Len(t)
          /\ k + 1 \in 1..(Len(s) - 1) /\ k + 1 + 1 = k + 2
      BY <1>1
    <3>2. t[k] = s[k + 1] /\ t[k + 1] = s[k + 1 + 1]
      BY <1>1, <3>1
    <3>3. OpensAfter(s[k + 1]) = OpensBefore(s[k + 1 + 1])
      BY <3>1 DEF Chained
    <3> QED
      BY <3>2, <3>3
  <2>5. Chained(t, OpensAfter(s[1]), after)
    BY <2>1, <2>2, <2>3, <2>4, Zenon DEF Chained
  <2> QED
    BY <2>5 DEF t
<1> QED
  BY <1>2, <1>3

\* A byte shares its word with an ERROR at most.
GoodEntry == {e \in Entry : e.data # NoData => e.event \in {"NONE", "ERROR"}}

\* What a decoder that keeps its promise puts into the FIFO.
GoodEntries ==
  /\ flying \in Seq(GoodEntry) /\ visible \in Seq(GoodEntry)
  /\ data # NoData => event \in {"NONE", "ERROR"}

\* Both ends agree on the packet, across everything in flight.
Agree == ~overflow => Chained(Pending, rx_active, in_packet)

\* The inductive invariant.
Inv == TypeOK /\ GoodEntries /\ Agree

\* Such entries are entries.
LEMMA GoodIsEntry == ASSUME NEW s \in Seq(GoodEntry) PROVE s \in Seq(Entry)
<1>1. GoodEntry \subseteq Entry
  BY DEF GoodEntry
<1> QED
  BY <1>1

\* An entry that may or may not be there.
LEMMA MaybeAppend ==
  ASSUME NEW s \in Seq(Entry), NEW e \in Entry, NEW b
  PROVE  s \o (IF b THEN <<e>> ELSE <<>>) = IF b THEN Append(s, e) ELSE s
<1>1. CASE b
  BY <1>1, AppendIsConcat
<1>2. CASE ~b
  <2>1. s \o <<>> = s
    BY ConcatEmptySeq
  <2> QED
    BY <1>2, <2>1
<1> QED
  BY <1>1, <1>2

\* What is in flight, seen from the writing end.
LEMMA PendingType ==
  ASSUME TypeOK, GoodEntries
  PROVE  /\ Contents \in Seq(Entry) /\ w_data \in Entry
         /\ Pending = IF w_en THEN Append(Contents, w_data) ELSE Contents
<1>1. Contents \in Seq(Entry)
  BY ConcatProperties DEF Contents, TypeOK
<1>2. w_data \in Entry
  BY DEF w_data, Entry, TypeOK
<1>3. Pending = IF w_en THEN Append(Contents, w_data) ELSE Contents
  BY <1>1, <1>2, MaybeAppend DEF Pending
<1> QED
  BY <1>1, <1>2, <1>3

\* The invariant holds at reset;
LEMMA InitInv == Init => Inv
<1> SUFFICES ASSUME Init PROVE Inv
  OBVIOUS
<1>1. <<>> \in Seq(Entry) /\ <<>> \in Seq(GoodEntry) /\ Len(<<>>) = 0
  OBVIOUS
<1>2. TypeOK
  <2>1. Len(flying) + Len(visible) + unseen <= Depth
    BY <1>1, DepthAssumption DEF Init, FifoInit
  <2> QED
    BY <1>1, <2>1 DEF Init, DecInit, FifoInit, TypeOK
<1>3. GoodEntries
  BY <1>1 DEF Init, DecInit, FifoInit, GoodEntries
<1>4. Agree
  <2>1. ~w_en /\ Contents = <<>>
    BY DEF w_en, Contents, Init, DecInit, FifoInit
  <2>2. Pending = <<>>
    BY <2>1, <1>2, <1>3, PendingType
  <2>3. 1..(Len(Pending) - 1) = {}
    BY <2>2
  <2>4. rx_active = in_packet
    BY DEF Init, DecInit
  <2> QED
    BY <2>2, <2>3, <2>4, Zenon DEF Agree, Chained
<1> QED
  BY <1>2, <1>3, <1>4 DEF Inv

\* The decoder's next word: what it produces goes on from in_packet.
LEMMA DecoderStep ==
  ASSUME Inv, DecNext
  PROVE  /\ in_packet' \in BOOLEAN /\ event' \in {"NONE", "START", "END", "ERROR"}
         /\ data' \in Bytes \cup {NoData}
         /\ data' # NoData => event' \in {"NONE", "ERROR"}
         /\ w_en' => OpensBefore(w_data') = in_packet /\ OpensAfter(w_data') = in_packet'
         /\ ~w_en' => in_packet' = in_packet
<1> USE DEF w_en, w_data, OpensBefore, OpensAfter
<1>0. in_packet \in BOOLEAN
  BY DEF Inv, TypeOK
<1>1. CASE Quiet
  BY <1>0, <1>1 DEF Quiet
<1>2. CASE Start
  BY <1>0, <1>2 DEF Start
<1>3. CASE End \/ Error
  <2>1. /\ in_packet = TRUE /\ in_packet' = FALSE /\ event' \in {"END", "ERROR"}
        /\ data' \in Bytes \cup {NoData} /\ (data' # NoData => event' = "ERROR")
    BY <1>0, <1>3 DEF End, Error
  <2>2. w_data'.event = event'
    OBVIOUS
  <2>3. OpensBefore(w_data') = TRUE /\ OpensAfter(w_data') = FALSE
    BY <2>1, <2>2
  <2> QED
    BY <2>1, <2>3
<1> QED
  BY <1>1, <1>2, <1>3 DEF DecNext

\* In an edge of the CDR's clock that loses no entry, the word joins those in flight.
LEMMA PendingGrows ==
  ASSUME Inv, CdrEdge, ~overflow'
  PROVE  /\ ~overflow /\ Pending \in Seq(Entry) /\ Contents' = Pending /\ w_data' \in Entry
         /\ Pending' = IF w_en' THEN Append(Pending, w_data') ELSE Pending
<1>1. TypeOK /\ GoodEntries /\ DecNext /\ overflow \in BOOLEAN
  BY DEF Inv, CdrEdge, TypeOK
<1>2. /\ Contents \in Seq(Entry) /\ w_data \in Entry
      /\ Pending = IF w_en THEN Append(Contents, w_data) ELSE Contents
  BY <1>1, PendingType
<1>3. ~LoseEntry
  BY DEF LoseEntry
<1>4. ASSUME WriteEntry PROVE Contents' = Pending
  <2>1. w_en /\ flying' = Append(flying, w_data) /\ visible' = visible /\ overflow' = overflow
    BY <1>4 DEF WriteEntry, Write
  <2>2. visible \in Seq(Entry) /\ flying \in Seq(Entry)
    BY <1>1 DEF TypeOK
  <2>3. visible \o Append(flying, w_data) = Append(visible \o flying, w_data)
    BY <1>2, <2>2
  <2> QED
    BY <1>2, <2>1, <2>3 DEF Contents
<1>5. ASSUME NoEntry PROVE Contents' = Pending
  BY <1>2, <1>5 DEF NoEntry, fifoVars, Contents
<1>6. Contents' = Pending /\ overflow' = overflow
  <2>1. WriteEntry => overflow' = overflow
    BY DEF WriteEntry
  <2>2. NoEntry => overflow' = overflow
    BY DEF NoEntry
  <2> QED
    BY <1>3, <1>4, <1>5, <2>1, <2>2 DEF CdrEdge
<1>7. Pending \in Seq(Entry)
  BY <1>2, AppendProperties
<1>8. w_data' \in Entry
  BY <1>1, DecoderStep DEF w_data, Entry
<1>9. Pending' = IF w_en' THEN Append(Contents', w_data') ELSE Contents'
  BY <1>6, <1>7, <1>8, MaybeAppend DEF Pending
<1> QED
  BY <1>6, <1>7, <1>8, <1>9

\* it is kept when the decoder writes,
LEMMA CdrEdgeInv == ASSUME Inv, CdrEdge PROVE Inv'
<1>0. /\ TypeOK /\ GoodEntries /\ Agree /\ DecNext
      /\ UNCHANGED <<rx_active, rx_valid, rx_error>>
  BY DEF Inv, CdrEdge, utmiVars
<1>1. /\ in_packet' \in BOOLEAN /\ event' \in {"NONE", "START", "END", "ERROR"}
      /\ data' \in Bytes \cup {NoData}
      /\ data' # NoData => event' \in {"NONE", "ERROR"}
      /\ w_en' => OpensBefore(w_data') = in_packet /\ OpensAfter(w_data') = in_packet'
      /\ ~w_en' => in_packet' = in_packet
  BY <1>0, DecoderStep
<1>2. Agree'
  <2> SUFFICES ASSUME ~overflow' PROVE Chained(Pending', rx_active', in_packet')
    BY DEF Agree
  <2>1. /\ ~overflow /\ Pending \in Seq(Entry) /\ w_data' \in Entry
        /\ Pending' = IF w_en' THEN Append(Pending, w_data') ELSE Pending
    BY PendingGrows
  <2>2. rx_active \in BOOLEAN /\ in_packet \in BOOLEAN /\ rx_active' = rx_active
    BY <1>0 DEF TypeOK
  <2>3. Chained(Pending, rx_active, in_packet)
    BY <1>0, <2>1 DEF Agree
  <2>4. CASE w_en'
    <3>1. Chained(Append(Pending, w_data'), rx_active, OpensAfter(w_data'))
      BY <1>1, <2>1, <2>2, <2>3, <2>4, ChainedAppend
    <3> QED
      BY <1>1, <2>1, <2>2, <2>4, <3>1
  <2>5. CASE ~w_en'
    BY <1>1, <2>1, <2>2, <2>3, <2>5
  <2> QED
    BY <2>4, <2>5
<1>3. CASE WriteEntry
  <2>1. /\ w_en /\ Len(flying) + Len(visible) + unseen < Depth
        /\ flying' = Append(flying, w_data)
        /\ visible' = visible /\ unseen' = unseen /\ overflow' = overflow
    BY <1>3 DEF WriteEntry, Write, WRdy
  <2>2. w_data \in GoodEntry
    BY <1>0, PendingType DEF GoodEntry, GoodEntries, w_data
  <2>3. flying' \in Seq(GoodEntry)
    BY <1>0, <2>1, <2>2, AppendProperties DEF GoodEntries
  <2>4. flying' \in Seq(Entry)
    BY <2>3, GoodIsEntry
  <2>5. Len(flying') + Len(visible') + unseen' <= Depth
    <3>1. Len(flying') = Len(flying) + 1
      BY <1>0, <2>1, <2>2, AppendProperties DEF GoodEntries
    <3>2. Len(flying) \in Nat /\ Len(visible) \in Nat /\ unseen \in Nat
      BY <1>0, LenProperties DEF TypeOK
    <3> QED
      BY <2>1, <3>1, <3>2, DepthAssumption
  <2>6. TypeOK'
    BY <1>0, <1>1, <2>1, <2>4, <2>5, Zenon DEF TypeOK
  <2>7. GoodEntries'
    BY <1>0, <1>1, <2>1, <2>3 DEF GoodEntries
  <2> QED
    BY <1>2, <2>6, <2>7 DEF Inv
<1>4. CASE LoseEntry
  <2>1. overflow' = TRUE /\ UNCHANGED <<flying, visible, unseen>>
    BY <1>4 DEF LoseEntry, fifoVars
  <2>2. TypeOK'
    BY <1>0, <1>1, <2>1 DEF TypeOK
  <2>3. GoodEntries'
    BY <1>0, <1>1, <2>1 DEF GoodEntries
  <2> QED
    BY <1>2, <2>2, <2>3 DEF Inv
<1>5. CASE NoEntry
  <2>1. ~w_en /\ UNCHANGED <<flying, visible, unseen, overflow>>
    BY <1>5 DEF NoEntry, fifoVars
  <2>2. TypeOK'
    BY <1>0, <1>1, <2>1 DEF TypeOK
  <2>3. GoodEntries'
    BY <1>0, <1>1, <2>1 DEF GoodEntries
  <2> QED
    BY <1>2, <2>2, <2>3 DEF Inv
<1> QED
  BY <1>3, <1>4, <1>5 DEF CdrEdge

\* What taking the oldest entry does to the receive signals.
LEMMA TakenEntry ==
  ASSUME Inv, TakeEntry
  PROVE  /\ Head(visible) \in GoodEntry /\ visible # <<>>
         /\ visible' \in Seq(GoodEntry) /\ Len(visible') = Len(visible) - 1
         /\ Contents # <<>> /\ Contents[1] = Head(visible) /\ Contents' = Tail(Contents)
         /\ ~overflow => /\ rx_active = OpensBefore(Head(visible))
                         /\ rx_active' = OpensAfter(Head(visible))
<1>0. /\ TypeOK /\ GoodEntries /\ Agree
      /\ visible # <<>> /\ visible' = Tail(visible) /\ unseen' = unseen + 1
      /\ flying' = flying
  BY DEF Inv, TakeEntry, Read, RRdy
<1>1. /\ visible \in Seq(GoodEntry) /\ flying \in Seq(GoodEntry)
      /\ visible \in Seq(Entry) /\ flying \in Seq(Entry)
  BY <1>0 DEF GoodEntries, TypeOK
<1>2. /\ Head(visible) \in GoodEntry /\ visible' \in Seq(GoodEntry)
      /\ Len(visible') = Len(visible) - 1 /\ Head(visible) = visible[1]
  BY <1>0, <1>1, HeadTailProperties
<1>3. Contents # <<>> /\ Contents[1] = Head(visible) /\ Contents' = Tail(Contents)
  <2>1. Len(visible) >= 1 /\ Len(visible) \in Nat /\ Len(flying) \in Nat
    BY <1>0, <1>1, EmptySeq, LenProperties
  <2>2. Len(visible \o flying) = Len(visible) + Len(flying)
    BY <1>1, ConcatProperties
  <2>3. visible \o flying # <<>>
    BY <2>1, <2>2
  <2>4. (visible \o flying)[1] = visible[1]
    BY <1>1, <2>1, ConcatProperties
  <2>5. Tail(visible) \o flying = Tail(visible \o flying)
    BY <1>0, <1>1, <2>1
  <2> QED
    BY <1>0, <1>2, <2>3, <2>4, <2>5 DEF Contents
<1>4. ASSUME ~overflow
      PROVE  rx_active = OpensBefore(Head(visible)) /\ rx_active' = OpensAfter(Head(visible))
  <2>1. Contents \in Seq(Entry) /\ w_data \in Entry
        /\ Pending = IF w_en THEN Append(Contents, w_data) ELSE Contents
    BY <1>0, PendingType
  <2>2. Pending # <<>> /\ Pending[1] = Contents[1]
    <3>1. CASE w_en
      <4>1. 1 \in 1..Len(Contents)
        BY <1>3, <2>1, EmptySeq, LenProperties
      <4> QED
        BY <2>1, <3>1, <4>1, AppendProperties
    <3>2. CASE ~w_en
      BY <1>3, <2>1, <3>2
    <3> QED
      BY <3>1, <3>2
  <2>3. rx_active = OpensBefore(Head(visible))
    BY <1>0, <1>3, <1>4, <2>2 DEF Agree, Chained
  <2>4. rx_active' = ActiveOf(Head(visible))
    BY DEF TakeEntry
  <2>5. Head(visible).event \in {"NONE", "START", "END", "ERROR"}
    BY <1>2 DEF GoodEntry, Entry
  <2>6. CASE Head(visible).event = "START"
    <3>1. rx_active' = TRUE /\ OpensAfter(Head(visible)) = TRUE
      BY <2>4, <2>6 DEF ActiveOf, OpensAfter
    <3> QED
      BY <2>3, <3>1
  <2>7. CASE Head(visible).event \in {"END", "ERROR"}
    <3>1. rx_active' = FALSE /\ OpensAfter(Head(visible)) = FALSE
      BY <2>4, <2>7 DEF ActiveOf, OpensAfter
    <3> QED
      BY <2>3, <3>1
  <2>8. CASE Head(visible).event = "NONE"
    BY <2>3, <2>4, <2>8 DEF ActiveOf, OpensAfter, OpensBefore
  <2> QED
    BY <2>3, <2>5, <2>6, <2>7, <2>8
<1> QED
  BY <1>0, <1>2, <1>3, <1>4

\* What the UTMI side takes is the oldest of what is in flight.
LEMMA PendingShrinks ==
  ASSUME Inv, TakeEntry, UNCHANGED <<event, data>>
  PROVE  /\ Pending \in Seq(Entry) /\ Pending # <<>> /\ Pending[1] = Head(visible)
         /\ Pending' = Tail(Pending)
<1>1. Contents # <<>> /\ Contents[1] = Head(visible) /\ Contents' = Tail(Contents)
  BY TakenEntry
<1>2. /\ Contents \in Seq(Entry) /\ w_data \in Entry
      /\ Pending = IF w_en THEN Append(Contents, w_data) ELSE Contents
  BY PendingType DEF Inv
<1>3. w_en' = w_en /\ w_data' = w_data
  BY DEF w_en, w_data
<1>4. Contents' \in Seq(Entry)
  BY <1>1, <1>2, HeadTailProperties
<1>5. Pending' = IF w_en THEN Append(Contents', w_data) ELSE Contents'
  BY <1>2, <1>3, <1>4, MaybeAppend DEF Pending
<1>6. Pending \in Seq(Entry)
  BY <1>2, AppendProperties
<1>7. CASE w_en
  <2>1. 1 \in 1..Len(Contents)
    BY <1>1, <1>2, EmptySeq, LenProperties
  <2>2. Append(Contents, w_data) # <<>> /\ Append(Contents, w_data)[1] = Contents[1]
    BY <1>2, <2>1, AppendProperties
  <2>3. Tail(Append(Contents, w_data)) = Append(Tail(Contents), w_data)
    BY <1>1, <1>2, HeadTailAppend
  <2> QED
    BY <1>1, <1>2, <1>5, <1>6, <1>7, <2>2, <2>3, Zenon
<1>8. CASE ~w_en
  BY <1>1, <1>2, <1>5, <1>6, <1>8, Zenon
<1> QED
  BY <1>7, <1>8

\* when the bridge reads,
LEMMA UsbEdgeInv == ASSUME Inv, UsbEdge PROVE Inv'
<1>0. /\ TypeOK /\ GoodEntries /\ Agree
      /\ UNCHANGED <<in_packet, event, data, overflow>>
  BY DEF Inv, UsbEdge, decVars
<1>1. CASE TakeEntry
  <2>1. /\ Head(visible) \in GoodEntry /\ visible # <<>>
        /\ visible' \in Seq(GoodEntry) /\ Len(visible') = Len(visible) - 1
        /\ Contents # <<>> /\ Contents[1] = Head(visible) /\ Contents' = Tail(Contents)
        /\ ~overflow => rx_active' = OpensAfter(Head(visible))
    BY <1>1, TakenEntry
  <2>2. /\ unseen' = unseen + 1 /\ flying' = flying
        /\ rx_valid' = ValidOf(Head(visible)) /\ rx_active' = ActiveOf(Head(visible))
        /\ rx_error' = (Head(visible).event = "ERROR")
    BY <1>1 DEF TakeEntry, Read
  <2>3. TypeOK'
    <3>1. Len(flying') + Len(visible') + unseen' <= Depth
      <4>1. Len(flying) \in Nat /\ Len(visible) \in Nat /\ unseen \in Nat
        BY <1>0, LenProperties DEF TypeOK
      <4>2. Len(flying) + Len(visible) + unseen <= Depth
        BY <1>0 DEF TypeOK
      <4> QED
        BY <2>1, <2>2, <4>1, <4>2, DepthAssumption
    <3>2. rx_valid' \in Bytes \cup {NoData}
      BY <2>1, <2>2 DEF ValidOf, GoodEntry, Entry
    <3>3. rx_active' \in BOOLEAN
      BY <1>0, <2>1, <2>2 DEF ActiveOf, GoodEntry, Entry, TypeOK
    <3>4. visible' \in Seq(Entry)
      BY <2>1, GoodIsEntry
    <3>5. rx_error' \in BOOLEAN /\ unseen' \in Nat
      BY <1>0, <2>2 DEF TypeOK
    <3> QED
      BY <1>0, <2>2, <3>1, <3>2, <3>3, <3>4, <3>5, Zenon DEF TypeOK
  <2>4. GoodEntries'
    BY <1>0, <2>1, <2>2 DEF GoodEntries
  <2>5. Agree'
    <3> SUFFICES ASSUME ~overflow' PROVE Chained(Pending', rx_active', in_packet')
      BY DEF Agree
    <3>1. /\ Pending \in Seq(Entry) /\ Pending # <<>> /\ Pending[1] = Head(visible)
          /\ Pending' = Tail(Pending)
      BY <1>0, <1>1, PendingShrinks
    <3>2. rx_active \in BOOLEAN /\ in_packet \in BOOLEAN
      BY <1>0 DEF TypeOK
    <3>3. Chained(Tail(Pending), OpensAfter(Pending[1]), in_packet)
      BY <1>0, <3>1, <3>2, ChainedTail DEF Agree
    <3> QED
      BY <1>0, <2>1, <3>1, <3>3
  <2> QED
    BY <2>3, <2>4, <2>5 DEF Inv
<1>2. CASE NothingVisible
  <2>1. /\ UNCHANGED <<flying, visible, unseen, rx_active>>
        /\ rx_valid' = NoData /\ rx_error' = FALSE
    BY <1>2 DEF NothingVisible, fifoVars
  <2>2. TypeOK'
    BY <1>0, <2>1 DEF TypeOK
  <2>3. GoodEntries'
    BY <1>0, <2>1 DEF GoodEntries
  <2>4. Pending' = Pending
    BY <1>0, <2>1 DEF Pending, Contents, w_en, w_data
  <2>5. Agree'
    BY <1>0, <2>1, <2>4, Zenon DEF Agree
  <2> QED
    BY <2>2, <2>3, <2>5 DEF Inv
<1> QED
  BY <1>1, <1>2 DEF UsbEdge

\* and when a pointer crosses:
LEMMA CrossingInv == ASSUME Inv, CrossEntry \/ CrossSlot PROVE Inv'
<1>0. /\ TypeOK /\ GoodEntries /\ Agree
      /\ UNCHANGED <<in_packet, event, data, overflow, rx_active, rx_valid, rx_error>>
  BY DEF Inv, CrossEntry, CrossSlot, decVars, utmiVars
<1>1. Len(flying) \in Nat /\ Len(visible) \in Nat /\ unseen \in Nat
      /\ Len(flying) + Len(visible) + unseen <= Depth
  BY <1>0, LenProperties DEF TypeOK
<1>2. CASE CrossEntry
  <2>1. /\ flying # <<>> /\ visible' = Append(visible, Head(flying))
        /\ flying' = Tail(flying) /\ unseen' = unseen
    BY <1>2 DEF CrossEntry, ShowEntry
  <2>2. /\ flying \in Seq(GoodEntry) /\ visible \in Seq(GoodEntry)
        /\ flying \in Seq(Entry) /\ visible \in Seq(Entry)
    BY <1>0 DEF GoodEntries, TypeOK
  <2>3. /\ Head(flying) \in GoodEntry /\ flying' \in Seq(GoodEntry)
        /\ Len(flying') = Len(flying) - 1
    BY <2>1, <2>2, HeadTailProperties
  <2>4. visible' \in Seq(GoodEntry) /\ Len(visible') = Len(visible) + 1
    BY <2>1, <2>2, <2>3, AppendProperties
  <2>5. flying' \in Seq(Entry) /\ visible' \in Seq(Entry)
    BY <2>3, <2>4, GoodIsEntry
  <2>6. Len(flying') + Len(visible') + unseen' <= Depth /\ unseen' \in Nat
    BY <1>1, <2>1, <2>3, <2>4, DepthAssumption
  <2>7. TypeOK'
    BY <1>0, <2>5, <2>6, Zenon DEF TypeOK
  <2>8. GoodEntries'
    BY <1>0, <2>3, <2>4 DEF GoodEntries
  <2>9. Contents' = Contents
    <3>1. Append(visible, Head(flying)) \o Tail(flying) = visible \o flying
      BY <2>1, <2>2
    <3> QED
      BY <2>1, <3>1 DEF Contents
  <2>10. Agree'
    BY <1>0, <2>9 DEF Agree, Pending, w_en, w_data
  <2> QED
    BY <2>7, <2>8, <2>10 DEF Inv
<1>3. CASE CrossSlot
  <2>1. /\ unseen > 0 /\ unseen' = unseen - 1 /\ UNCHANGED <<flying, visible>>
    BY <1>3 DEF CrossSlot, ShowSlot
  <2>2. Len(flying) + Len(visible) + unseen' <= Depth /\ unseen' \in Nat
    BY <1>1, <2>1, DepthAssumption
  <2>3. TypeOK'
    BY <1>0, <2>1, <2>2 DEF TypeOK
  <2>4. GoodEntries'
    BY <1>0, <2>1 DEF GoodEntries
  <2>5. Agree'
    BY <1>0, <2>1 DEF Agree, Pending, Contents, w_en, w_data
  <2> QED
    BY <2>3, <2>4, <2>5 DEF Inv
<1> QED
  BY <1>2, <1>3

\* by every step,
LEMMA NextInv == Inv /\ [Next]_vars => Inv'
<1> SUFFICES ASSUME Inv, [Next]_vars PROVE Inv'
  OBVIOUS
<1>1. CASE CdrEdge
  BY <1>1, CdrEdgeInv
<1>2. CASE UsbEdge
  BY <1>2, UsbEdgeInv
<1>3. CASE CrossEntry \/ CrossSlot
  BY <1>3, CrossingInv
<1>4. CASE UNCHANGED vars
  BY <1>4 DEF Inv, TypeOK, GoodEntries, Agree, Pending, Contents, w_en, w_data,
              vars, decVars, fifoVars, utmiVars
<1> QED
  BY <1>1, <1>2, <1>3, <1>4 DEF Next

\* and so always.
THEOREM Invariant == Spec => []Inv
  BY InitInv, NextInv, PTL DEF Spec

(* Registers and FIFO keep their types; the FIFO never holds more than Depth. *)
THEOREM TypeCorrect == Spec => []TypeOK
<1>1. Inv => TypeOK
  BY DEF Inv
<1> QED
  BY <1>1, Invariant, PTL

(* Both clock domains agree on every packet while no entry has been lost. *)
THEOREM ReaderAgreesWithDecoder == Spec => []DomainsAgree
<1>1. Inv => DomainsAgree
  BY DEF Inv, Agree, Chained, DomainsAgree
<1> QED
  BY <1>1, Invariant, PTL

(* The receive signals follow the protocol the host relies on. *)
THEOREM ReceiveSignalsFollowUtmi == Spec => FollowsUtmi
<1>1. Inv /\ [Next]_vars => [~overflow => Utmi!UtmiNext]_utmiVars
  <2> SUFFICES ASSUME Inv, [Next]_vars, utmiVars' # utmiVars, ~overflow
               PROVE  Utmi!UtmiNext
    OBVIOUS
  <2> USE DEF Utmi!UtmiNext, Utmi!Quiescent, Utmi!Open, Utmi!Receive, Utmi!Close
  <2>1. UsbEdge
    BY DEF Next, CdrEdge, CrossEntry, CrossSlot, vars, utmiVars
  <2>2. CASE NothingVisible
    BY <2>2 DEF NothingVisible
  <2>3. CASE TakeEntry
    <3> DEFINE e == Head(visible)
    <3>1. /\ e \in GoodEntry
          /\ rx_active = OpensBefore(e) /\ rx_active' = OpensAfter(e)
      BY <2>3, TakenEntry
    <3>2. rx_valid' = ValidOf(e) /\ rx_error' = (e.event = "ERROR")
      BY <2>3 DEF TakeEntry
    <3> HIDE DEF e
    <3>3. /\ e.event \in {"NONE", "START", "END", "ERROR"} /\ e.data \in Bytes \cup {NoData}
          /\ e.data # NoData => e.event \in {"NONE", "ERROR"}
      BY <3>1 DEF GoodEntry, Entry
    <3>4. CASE e.event = "START"
      <4>1. ~rx_active /\ rx_active' = TRUE /\ rx_valid' = NoData /\ rx_error' = FALSE
        BY <3>1, <3>2, <3>3, <3>4 DEF OpensBefore, OpensAfter, ValidOf
      <4> QED
        BY <4>1
    <3>5. CASE e.event \in {"END", "ERROR"}
      <4>1. OpensBefore(e) = TRUE /\ OpensAfter(e) = FALSE
        BY <3>5 DEF OpensBefore, OpensAfter
      <4>2. rx_active = TRUE /\ rx_active' = FALSE
        BY <3>1, <4>1
      <4>3. rx_valid' = NoData
        BY <3>2, <3>3, <3>5 DEF ValidOf
      <4>4. rx_error' \in BOOLEAN
        BY <3>2
      <4> QED
        BY <4>2, <4>3, <4>4
    <3>6. CASE e.event = "NONE"
      <4>1. OpensBefore(e) = TRUE /\ OpensAfter(e) = TRUE
        BY <3>6 DEF OpensBefore, OpensAfter
      <4>2. rx_active = TRUE /\ rx_active' = TRUE
        BY <3>1, <4>1
      <4>3. (e.event = "ERROR") = FALSE
        BY <3>6
      <4>4. rx_error' = FALSE
        BY <3>2, <4>3
      <4>5. rx_valid' = e.data
        BY <3>2, <3>6 DEF ValidOf
      <4> QED
        BY <3>3, <4>2, <4>4, <4>5
    <3> QED
      BY <3>3, <3>4, <3>5, <3>6
  <2> QED
    BY <2>1, <2>2, <2>3 DEF UsbEdge
<1> QED
  BY <1>1, Invariant, PTL DEF Spec, FollowsUtmi

-----------------------------------------------------------------------------
(* No byte is lost, doubled or moved while no entry is. *)

\* What each entry will make rx_valid pulse for, as a function.
CellOf == [e \in Entry |-> ByteOf(e)]

\* An entry holds at most a byte.
LEMMA CellParts == Parts(CellOf, Entry, Bytes)
<1>1. ASSUME NEW e \in Entry PROVE ByteOf(e) \in Seq(Bytes)
  BY DEF ByteOf, Entry
<1> QED
  BY <1>1 DEF CellOf, Parts

\* The bytes of the entries are those gathered from them.
LEMMA BytesGather == ASSUME NEW s \in Seq(Entry) PROVE BytesOf(s) = Gather(CellOf, s)
<1>1. \A k \in DOMAIN s : ByteOf(s[k]) = CellOf[s[k]]
  BY DEF CellOf
<1>2. [k \in DOMAIN s |-> ByteOf(s[k])] = [k \in DOMAIN s |-> CellOf[s[k]]]
  BY <1>1
<1> QED
  BY <1>2, Zenon DEF BytesOf, Gather

\* A word brings its byte; the oldest entry takes its own away.
LEMMA BytesOfEntries ==
  /\ BytesOf(<<>>) = <<>>
  /\ \A s \in Seq(Entry) : BytesOf(s) \in Seq(Bytes)
  /\ \A s \in Seq(Entry), e \in Entry : BytesOf(Append(s, e)) = BytesOf(s) \o ByteOf(e)
  /\ \A s \in Seq(Entry) : s # <<>> => BytesOf(s) = ByteOf(Head(s)) \o BytesOf(Tail(s))
<1>1. \A s \in Seq(Entry) : BytesOf(s) = Gather(CellOf, s) /\ Gather(CellOf, s) \in Seq(Bytes)
  BY CellParts, BytesGather, GatherType
<1>2. \A e \in Entry : CellOf[e] = ByteOf(e)
  BY DEF CellOf
<1>3. BytesOf(<<>>) = <<>>
  <2>1. Gather(CellOf, <<>>) = <<>> /\ <<>> \in Seq(Entry)
    BY CellParts, GatherEmpty, EmptySeq
  <2> QED
    BY <1>1, <2>1, Zenon
<1>4. ASSUME NEW s \in Seq(Entry), NEW e \in Entry
      PROVE  BytesOf(Append(s, e)) = BytesOf(s) \o ByteOf(e)
  <2>1. Gather(CellOf, Append(s, e)) = Gather(CellOf, s) \o CellOf[e]
    BY CellParts, GatherAppend
  <2>2. Append(s, e) \in Seq(Entry)
    BY AppendProperties
  <2> QED
    BY <1>1, <1>2, <2>1, <2>2
<1>5. ASSUME NEW s \in Seq(Entry), s # <<>>
      PROVE  BytesOf(s) = ByteOf(Head(s)) \o BytesOf(Tail(s))
  <2>1. Gather(CellOf, s) = CellOf[Head(s)] \o Gather(CellOf, Tail(s))
    BY <1>5, CellParts, GatherHead
  <2>2. Head(s) \in Entry /\ Tail(s) \in Seq(Entry)
    BY <1>5, HeadTailProperties
  <2> QED
    BY <1>1, <1>2, <2>1, <2>2
<1> QED
  BY <1>1, <1>3, <1>4, <1>5

\* BytesDelivered with the types it needs: inductive once Inv holds.
Delivered ==
  /\ said \in Seq(Bytes) /\ heard \in Seq(Bytes)
  /\ ~overflow => said = heard \o BytesOf(Pending)

\* A word of the decoder is said, and is in flight if it holds anything.
LEMMA SayStep ==
  ASSUME Inv, Delivered, MCCdrEdge
  PROVE  Delivered'
<1>1. /\ CdrEdge /\ heard' = heard
      /\ said' = IF data' # NoData /\ event' # "ERROR" THEN Append(said, data') ELSE said
      /\ said \in Seq(Bytes) /\ heard \in Seq(Bytes)
  BY DEF MCCdrEdge, Say, Delivered
<1>2. data' \in Bytes \cup {NoData}
  BY <1>1, DecoderStep DEF CdrEdge
<1>3. ByteOf(w_data') \in Seq(Bytes) /\ said' = said \o ByteOf(w_data') /\ said' \in Seq(Bytes)
  <2>1. w_data'.data = data' /\ w_data'.event = event'
    BY DEF w_data
  <2>2. CASE data' # NoData /\ event' # "ERROR"
    <3>1. ByteOf(w_data') = <<data'>> /\ data' \in Bytes
      BY <1>2, <2>1, <2>2 DEF ByteOf
    <3> QED
      BY <1>1, <2>2, <3>1, AppendIsConcat, AppendProperties
  <2>3. CASE ~(data' # NoData /\ event' # "ERROR")
    <3>1. ByteOf(w_data') = <<>>
      BY <2>1, <2>3 DEF ByteOf
    <3> QED
      BY <1>1, <2>3, <3>1, ConcatEmptySeq
  <2> QED
    BY <2>2, <2>3
<1>4. ASSUME ~overflow' PROVE said' = heard' \o BytesOf(Pending')
  <2>1. /\ ~overflow /\ Pending \in Seq(Entry) /\ w_data' \in Entry
        /\ Pending' = IF w_en' THEN Append(Pending, w_data') ELSE Pending
    BY <1>1, <1>4, PendingGrows
  <2>2. said = heard \o BytesOf(Pending) /\ BytesOf(Pending) \in Seq(Bytes)
    BY <2>1, BytesOfEntries DEF Delivered
  <2>3. BytesOf(Pending') = BytesOf(Pending) \o ByteOf(w_data')
    <3>1. CASE w_en'
      BY <2>1, <3>1, BytesOfEntries
    <3>2. CASE ~w_en'
      <4>1. ByteOf(w_data') = <<>>
        BY <3>2 DEF w_en, w_data, ByteOf
      <4> QED
        BY <2>1, <2>2, <3>2, <4>1, ConcatEmptySeq
    <3> QED
      BY <3>1, <3>2
  <2> DEFINE a == heard
             b == BytesOf(Pending)
             c == ByteOf(w_data')
  <2>4. a \in Seq(Bytes) /\ b \in Seq(Bytes) /\ c \in Seq(Bytes)
    BY <1>1, <1>3, <2>2
  <2> HIDE DEF a, b, c
  <2>5. (a \o b) \o c = a \o (b \o c)
    BY <2>4, ConcatAssociative
  <2> USE DEF a, b, c
  <2> QED
    BY <1>1, <1>3, <2>2, <2>3, <2>5
<1> QED
  BY <1>1, <1>3, <1>4 DEF Delivered

\* A byte taken on the UTMI side is heard.
LEMMA HearStep ==
  ASSUME Inv, Delivered, MCUsbEdge
  PROVE  Delivered'
<1>1. /\ UsbEdge /\ said' = said /\ UNCHANGED <<in_packet, event, data, overflow>>
      /\ heard' = IF rx_valid' # NoData THEN Append(heard, rx_valid') ELSE heard
      /\ said \in Seq(Bytes) /\ heard \in Seq(Bytes)
  BY DEF MCUsbEdge, UsbEdge, decVars, Delivered
<1>2. CASE NothingVisible
  <2>1. heard' = heard /\ Pending' = Pending
    BY <1>1, <1>2 DEF NothingVisible, fifoVars, Pending, Contents, w_en, w_data
  <2> QED
    BY <1>1, <2>1 DEF Delivered
<1>3. CASE TakeEntry
  <2> DEFINE h == Head(visible)
  <2>1. /\ Pending \in Seq(Entry) /\ Pending # <<>> /\ Pending[1] = h
        /\ Pending' = Tail(Pending)
    BY <1>1, <1>3, PendingShrinks
  <2>2. h \in Entry /\ rx_valid' = ValidOf(h)
    BY <1>3, TakenEntry DEF TakeEntry, GoodEntry
  <2>3. Head(Pending) = h
    BY <2>1, HeadTailProperties
  <2> HIDE DEF h
  <2>4. ByteOf(h) \in Seq(Bytes) /\ heard' = heard \o ByteOf(h) /\ heard' \in Seq(Bytes)
    <3>1. CASE h.data # NoData /\ h.event # "ERROR"
      <4>1. ByteOf(h) = <<h.data>> /\ rx_valid' = h.data /\ h.data \in Bytes
        BY <2>2, <3>1 DEF ByteOf, ValidOf, Entry
      <4> QED
        BY <1>1, <3>1, <4>1, AppendIsConcat, AppendProperties
    <3>2. CASE ~(h.data # NoData /\ h.event # "ERROR")
      <4>1. ByteOf(h) = <<>> /\ rx_valid' = NoData
        BY <2>2, <3>2 DEF ByteOf, ValidOf
      <4> QED
        BY <1>1, <4>1, ConcatEmptySeq
    <3> QED
      BY <3>1, <3>2
  <2>5. ASSUME ~overflow' PROVE said' = heard' \o BytesOf(Pending')
    <3>1. /\ said = heard \o BytesOf(Pending)
          /\ BytesOf(Pending) = ByteOf(h) \o BytesOf(Pending')
      BY <1>1, <2>1, <2>3, <2>5, BytesOfEntries DEF Delivered
    <3> DEFINE a == heard
               b == ByteOf(h)
               c == BytesOf(Pending')
    <3>2. a \in Seq(Bytes) /\ b \in Seq(Bytes) /\ c \in Seq(Bytes)
      <4>1. Tail(Pending) \in Seq(Entry)
        BY <2>1, HeadTailProperties
      <4> QED
        BY <1>1, <2>1, <2>4, <4>1, BytesOfEntries
    <3> HIDE DEF a, b, c
    <3>3. (a \o b) \o c = a \o (b \o c)
      BY <3>2, ConcatAssociative
    <3> USE DEF a, b, c
    <3> QED
      BY <1>1, <2>4, <3>1, <3>3
  <2> QED
    BY <1>1, <2>4, <2>5 DEF Delivered
<1> QED
  BY <1>1, <1>2, <1>3 DEF UsbEdge

\* A pointer crossing moves entries, not their order.
LEMMA CrossStep ==
  ASSUME Inv, Delivered, MCCrossEntry \/ MCCrossSlot
  PROVE  Delivered'
<1>1. UNCHANGED <<said, heard, overflow, in_packet, event, data>>
  BY DEF MCCrossEntry, MCCrossSlot, CrossEntry, CrossSlot, decVars
<1>2. Contents' = Contents
  <2>1. flying \in Seq(Entry) /\ visible \in Seq(Entry)
    BY DEF Inv, TypeOK
  <2>2. CASE MCCrossEntry
    <3>1. /\ flying # <<>> /\ visible' = Append(visible, Head(flying))
          /\ flying' = Tail(flying)
      BY <2>2 DEF MCCrossEntry, CrossEntry, ShowEntry
    <3>2. Append(visible, Head(flying)) \o Tail(flying) = visible \o flying
      BY <2>1, <3>1
    <3> QED
      BY <3>1, <3>2 DEF Contents
  <2>3. CASE MCCrossSlot
    BY <2>3 DEF MCCrossSlot, CrossSlot, ShowSlot, Contents
  <2> QED
    BY <2>2, <2>3
<1>3. Pending' = Pending
  BY <1>1, <1>2 DEF Pending, w_en, w_data
<1> QED
  BY <1>1, <1>3 DEF Delivered

\* At the start nothing has been said, and nothing is in flight.
LEMMA DeliveredInit == MCInit => Delivered
<1> SUFFICES ASSUME MCInit PROVE Delivered
  OBVIOUS
<1>1. /\ said = <<>> /\ heard = <<>> /\ flying = <<>> /\ visible = <<>>
      /\ event = "NONE" /\ data = NoData
  BY DEF MCInit, Init, DecInit, FifoInit
<1>2. Pending = <<>>
  BY <1>1 DEF Pending, Contents, w_en
<1>3. <<>> \in Seq(Bytes)
  OBVIOUS
<1>4. BytesOf(Pending) = <<>>
  BY <1>2, BytesOfEntries, Zenon
<1> QED
  BY <1>1, <1>3, <1>4 DEF Delivered

(* While no entry has been lost, every byte of a word without an error is emitted
   once and in order, or still on its way, for every FIFO depth. *)
THEOREM EveryByteArrives == MCSpec => []BytesDelivered
<1>1. MCInit => Inv
  BY InitInv DEF MCInit
<1>2. Inv /\ [MCNext]_mcvars => Inv'
  <2>1. MCNext => Next
    BY DEF MCNext, MCCdrEdge, MCUsbEdge, MCCrossEntry, MCCrossSlot, Next
  <2>2. UNCHANGED mcvars => UNCHANGED vars
    BY DEF mcvars
  <2> QED
    BY <2>1, <2>2, NextInv
<1>3. Inv /\ Delivered /\ [MCNext]_mcvars => Delivered'
  <2> SUFFICES ASSUME Inv, Delivered, [MCNext]_mcvars PROVE Delivered'
    OBVIOUS
  <2>1. CASE UNCHANGED mcvars
    BY <2>1 DEF mcvars, vars, decVars, fifoVars, Delivered, Pending, Contents, w_en, w_data
  <2> QED
    BY <2>1, SayStep, HearStep, CrossStep DEF MCNext
<1>4. Delivered => BytesDelivered
  BY DEF Delivered, BytesDelivered
<1> QED
  BY <1>1, <1>2, <1>3, <1>4, DeliveredInit, PTL DEF MCSpec

=============================================================================
