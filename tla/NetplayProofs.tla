---------------------------- MODULE NetplayProofs ----------------------------
(***************************************************************************)
(* The hooks of Netplay, for any packet types and timestamps of a game.    *)
(***************************************************************************)
EXTENDS Netplay, TLAPS

\* value_table by the values that index it.
LEMMA TableFacts ==
  ASSUME NEW value \in 0 .. INT8_MAX
  PROVE  /\ value \div 32 + 1 \in 1 .. 4
         /\ value_table[value \div 32 + 1] \in {5, 10, 15, INT8_MAX}
<1>1. value \div 32 + 1 \in 1 .. 4
  BY DEF INT8_MAX
<1>2. QED
  BY <1>1 DEF value_table, INT8_MAX

\* A resynchronisation ends on the value that undoes it.
LEMMA TableEnds == value_table[INT8_MAX \div 32 + 1] = INT8_MAX
<1>1. INT8_MAX \div 32 + 1 = 4
  BY DEF INT8_MAX
<1>2. QED
  BY <1>1 DEF value_table

\* A count that has not reached its threshold is one of a uint8_t.
LEMMA ThresholdFacts ==
  Threshold \in {INT8_MAX, UINT8_MAX} /\ Threshold \in 2 .. UINT8_MAX
  BY DEF Threshold, UINT8_MAX, INT8_MAX

-----------------------------------------------------------------------------
(* Types *)

\* The flags apart from the rest, because the provers treat them apart.
Flags ==
  /\ resyncing \in BOOLEAN
  /\ not_in_match \in BOOLEAN
  /\ stuck \in BOOLEAN

Values ==
  /\ hooks \in Hooks
  /\ lag_packets \in 0 .. UINT8_MAX - 1
  /\ lag_packets <= IF resyncing THEN INT8_MAX + 1 ELSE Threshold - 1
  /\ prev_timestamp \in ULARGE_INTEGER
  /\ patched \in {5, 10, 15, INT8_MAX, ORIGINAL}
  /\ buffer \in PacketType
  /\ last_sent \in ULARGE_INTEGER
  /\ repeats \in 0 .. UINT8_MAX
  /\ idle_nines \in 0 .. 2

\* Together they are the types.
LEMMA FlagsAndValues == TypeOK <=> Flags /\ Values
  BY DEF TypeOK, Flags, Values

\* At first the types hold, whether or not the initial patch was refused.
LEMMA TypeInit == Init => TypeOK
<1> SUFFICES ASSUME Init PROVE Flags /\ Values
  BY FlagsAndValues
<1>1. Flags
  BY DEF Init, Flags
<1>2. Values
  BY TableEnds, ThresholdFacts, GameAssumption
     DEF Init, Values, ULARGE_INTEGER, Zero, UINT8_MAX, INT8_MAX
<1>3. QED
  BY <1>1, <1>2

\* Every step keeps the flags.
LEMMA FlagsStep == Flags /\ [Next]_vars => Flags'
<1> SUFFICES ASSUME Flags, [Next]_vars PROVE Flags'
  OBVIOUS
<1>1. ASSUME NEW t \in ULARGE_INTEGER, SendStamped(t) PROVE Flags'
  <2>1. not_in_match' \in BOOLEAN
    BY <1>1 DEF SendStamped, matchVars, Flags
  <2>2. CASE Watch(t)
    <3>1. stuck' \in BOOLEAN
      BY <2>2 DEF Watch, Flags
    <3>2. CASE Advance(t)
      BY <2>1, <3>1, <3>2 DEF Advance, Flags
    <3>3. CASE Lag(t)
      BY <2>1, <3>1, <3>3 DEF Lag, Flags
    <3>4. QED
      BY <2>2, <3>2, <3>3 DEF Watch
  <2>3. CASE Ramp
    BY <2>1, <2>3 DEF Ramp, apply_patch_B, Flags
  <2>4. CASE Synced
    BY <2>1, <2>4 DEF Synced, Flags
  <2>5. QED
    BY <1>1, <2>2, <2>3, <2>4 DEF SendStamped, run_resync_logic
<1>2. CASE SendNine
  BY <1>2 DEF SendNine, Flags, resyncVars, history
<1>3. CASE SendEleven
  BY <1>3 DEF SendEleven, Flags, resyncVars, history
<1>4. CASE UNCHANGED vars
  BY <1>4 DEF vars, Flags, resyncVars, matchVars, history
<1>5. ASSUME NEW type \in PacketType \cup {buffer}, WSARecvFrom_replacement(type) PROVE Flags'
  BY <1>5 DEF WSARecvFrom_replacement, Flags, resyncVars, history
<1>6. QED
  BY <1>1, <1>2, <1>3, <1>4, <1>5 DEF Next, SendOther

\* A packet with a timestamp keeps the values.
LEMMA StampedValues ==
  ASSUME Values, NEW t \in ULARGE_INTEGER, SendStamped(t)
  PROVE  Values'
<1>0. hooks' \in Hooks /\ Threshold' = Threshold /\ Threshold \in 2 .. UINT8_MAX
  BY ThresholdFacts DEF SendStamped, Values, Threshold
<1>1. last_sent' \in ULARGE_INTEGER /\ repeats' \in 0 .. UINT8_MAX
  BY DEF SendStamped, Remember, Values, UINT8_MAX
<1>2. buffer' \in PacketType /\ idle_nines' \in 0 .. 2
  BY DEF SendStamped, matchVars, Values
<1>3. /\ lag_packets' \in 0 .. UINT8_MAX - 1
      /\ lag_packets' <= IF resyncing' THEN INT8_MAX + 1 ELSE Threshold' - 1
      /\ prev_timestamp' \in ULARGE_INTEGER
      /\ patched' \in {5, 10, 15, INT8_MAX, ORIGINAL}
  <2>1. CASE Watch(t)
    <3>1. prev_timestamp' \in ULARGE_INTEGER /\ patched' \in {5, 10, 15, INT8_MAX, ORIGINAL}
      BY <2>1 DEF Watch, Values
    <3>2. CASE Advance(t)
      BY <1>0, <2>1, <3>1, <3>2 DEF Watch, Advance, UINT8_MAX, INT8_MAX
    <3>3. CASE Lag(t)
      <4>1. CASE lag_packets + 1 >= Threshold
        <5>1. lag_packets' = 0
          BY <3>3, <4>1, ZenonT(20) DEF Lag
        <5>2. QED
          BY <1>0, <3>1, <5>1 DEF UINT8_MAX, INT8_MAX
      <4>2. CASE ~(lag_packets + 1 >= Threshold)
        <5>1. lag_packets' = lag_packets + 1 /\ ~resyncing'
          BY <3>3, <4>2, ZenonT(20) DEF Lag
        <5>2. QED
          BY <1>0, <3>1, <4>2, <5>1 DEF Values, UINT8_MAX
      <4>3. QED
        BY <4>1, <4>2
    <3>4. QED
      BY <2>1, <3>2, <3>3 DEF Watch
  <2>2. CASE Ramp
    <3>1. lag_packets \in 0 .. INT8_MAX
      BY <2>2 DEF Ramp, Values, UINT8_MAX, INT8_MAX
    <3>2. value_table[lag_packets \div 32 + 1] \in {5, 10, 15, INT8_MAX}
      BY <3>1, TableFacts
    <3>3. patched' \in {5, 10, 15, INT8_MAX, ORIGINAL}
      BY <2>2, <3>2 DEF Ramp, apply_patch_B, Values
    <3>4. QED
      BY <2>2, <3>1, <3>3 DEF Ramp, Values, INT8_MAX, UINT8_MAX
  <2>3. CASE Synced
    BY <1>0, <2>3 DEF Synced, Values, UINT8_MAX, INT8_MAX
  <2>4. QED
    BY <2>1, <2>2, <2>3 DEF SendStamped, run_resync_logic
<1>4. QED
  BY <1>0, <1>1, <1>2, <1>3 DEF Values

\* The other calls keep the types too.
LEMMA TypeStep == TypeOK /\ [Next]_vars => TypeOK'
<1> SUFFICES ASSUME Values, [Next]_vars PROVE Values'
  BY FlagsAndValues, FlagsStep DEF TypeOK, Flags, Values
<1>1. ASSUME NEW t \in ULARGE_INTEGER, SendStamped(t) PROVE Values'
  BY <1>1, StampedValues
<1>2. CASE SendNine \/ SendEleven \/ UNCHANGED vars
  BY <1>2 DEF SendNine, SendEleven, vars, Values, Threshold, resyncVars, matchVars, history
<1>3. ASSUME NEW type \in PacketType \cup {buffer}, WSARecvFrom_replacement(type)
      PROVE  Values'
  BY <1>3 DEF WSARecvFrom_replacement, Values, Threshold, resyncVars, history
<1>4. QED
  BY <1>1, <1>2, <1>3 DEF Next, SendOther

\* The counter stays below its threshold, and a resynchronisation never indexes
\* past value_table.
THEOREM CounterStaysInTable == Spec => []TypeOK
<1> QED
  BY TypeInit, TypeStep, PTL DEF Spec

-----------------------------------------------------------------------------
(* The patched byte *)

\* The byte is the one written for the last packet of the ramp, or its end's.
ByteInv ==
  ~stuck => patched = IF resyncing /\ lag_packets > 0
                      THEN value_table[(lag_packets - 1) \div 32 + 1]
                      ELSE INT8_MAX

\* Every step keeps the byte that of the last packet.
LEMMA ByteStep == TypeOK /\ ByteInv /\ [Next]_vars => ByteInv'
<1> SUFFICES ASSUME TypeOK, ByteInv, [Next]_vars PROVE ByteInv'
  OBVIOUS
<1>1. ASSUME NEW t \in ULARGE_INTEGER, Watch(t) PROVE ByteInv'
  <2>1. patched' = patched /\ stuck' = stuck
    BY <1>1 DEF Watch
  <2>2. resyncing' => lag_packets' = 0
    BY <1>1 DEF Watch, Advance, Lag
  <2>3. ~resyncing
    BY <1>1 DEF Watch
  <2>4. ~(resyncing' /\ lag_packets' > 0)
    BY <2>2
  <2>5. QED
    BY <2>1, <2>3, <2>4 DEF ByteInv
<1>2. CASE Ramp
  <2>1. /\ lag_packets \in 0 .. INT8_MAX /\ resyncing
        /\ lag_packets' = lag_packets + 1 /\ resyncing' = resyncing
    BY <1>2 DEF Ramp, TypeOK, UINT8_MAX, INT8_MAX
  <2>2. lag_packets' > 0 /\ lag_packets' - 1 = lag_packets
    BY <2>1 DEF INT8_MAX
  <2>3. ~stuck' => patched' = value_table[lag_packets \div 32 + 1]
    BY <1>2 DEF Ramp, apply_patch_B
  <2>4. QED
    BY <2>1, <2>2, <2>3 DEF ByteInv
<1>3. CASE Synced
  <2>1. lag_packets = 128 /\ resyncing
    BY <1>3 DEF Synced, TypeOK, UINT8_MAX, INT8_MAX
  <2>2. lag_packets - 1 = INT8_MAX /\ lag_packets > 0
    BY <2>1 DEF INT8_MAX
  <2>3. ~stuck => patched = INT8_MAX
    BY <2>1, <2>2, TableEnds DEF ByteInv
  <2>4. QED
    BY <1>3, <2>3 DEF Synced, ByteInv
<1>4. ASSUME UNCHANGED resyncVars, stuck' = stuck PROVE ByteInv'
  BY <1>4 DEF resyncVars, ByteInv
<1>5. QED
  BY <1>1, <1>2, <1>3, <1>4
     DEF Next, SendStamped, run_resync_logic, SendNine, SendEleven, SendOther,
         WSARecvFrom_replacement, vars, history

\* A game that is not resynchronising plays with the byte as the patch set it at
\* first, unless the write that was to restore it was refused.
THEOREM ByteIsRestored == Spec => []RestoredInSync
<1>1. Init => ByteInv
  BY TableEnds DEF Init, ByteInv
<1>2. ByteInv => RestoredInSync
  BY DEF ByteInv, RestoredInSync
<1>3. QED
  BY <1>1, <1>2, ByteStep, CounterStaysInTable, PTL DEF Spec

-----------------------------------------------------------------------------
(* Repeated timestamps *)

\* The counter is at most one ahead of the repeats, and only if it started against
\* a timestamp from before a resynchronisation.
RepeatInv ==
  ~resyncing => \/ prev_timestamp = last_sent /\ lag_packets <= repeats + 1
                \/ lag_packets = 0

\* A packet with a timestamp keeps the counter by the repeats.
LEMMA WatchRepeats ==
  ASSUME TypeOK, RepeatInv, NEW t \in ULARGE_INTEGER, SendStamped(t)
  PROVE  /\ RepeatInv'
         /\ ~resyncing /\ resyncing' => repeats' >= Threshold - 1
<1> USE DEF TypeOK, RepeatInv, SendStamped, Remember, UINT8_MAX, INT8_MAX
<1>1. CASE Ramp
  BY <1>1 DEF Ramp
<1>2. CASE Synced
  BY <1>2 DEF Synced
<1>3. CASE Watch(t) /\ Advance(t)
  BY <1>3 DEF Watch, Advance
<1>4. CASE Watch(t) /\ Lag(t)
  <2>1. ~resyncing /\ prev_timestamp' = t /\ last_sent' = t
    BY <1>4 DEF Watch
  <2>2. /\ resyncing' => lag_packets + 1 >= Threshold
        /\ ~resyncing' => lag_packets' = lag_packets + 1
    BY <1>4, Zenon DEF Lag
  <2>3. Threshold \in 2 .. 255
    BY ThresholdFacts
  <2>4. CASE lag_packets = 0
    BY <2>1, <2>2, <2>3, <2>4
  <2>5. CASE prev_timestamp = last_sent /\ lag_packets <= repeats + 1
    <3>1. repeats' = IF repeats < UINT8_MAX THEN repeats + 1 ELSE repeats
      BY <1>4, <2>1, <2>5 DEF Lag
    <3>2. lag_packets + 1 <= repeats' + 1
      BY <2>1, <2>5, <3>1
    <3>3. QED
      BY <2>1, <2>2, <2>3, <3>1, <3>2
  <2>6. QED
    BY <2>1, <2>4, <2>5
<1>5. QED
  BY <1>1, <1>2, <1>3, <1>4 DEF run_resync_logic, Watch

\* Every step does, and none starts a resynchronisation without the repeats.
LEMMA RepeatStep ==
  TypeOK /\ RepeatInv /\ [Next]_vars =>
    /\ RepeatInv'
    /\ ~resyncing /\ resyncing' => repeats' >= Threshold - 1
<1> SUFFICES ASSUME TypeOK, RepeatInv, [Next]_vars
             PROVE  /\ RepeatInv'
                    /\ ~resyncing /\ resyncing' => repeats' >= Threshold - 1
  OBVIOUS
<1>1. CASE \E t \in ULARGE_INTEGER : SendStamped(t)
  BY <1>1, WatchRepeats
<1>2. CASE UNCHANGED resyncVars /\ UNCHANGED history
  BY <1>2 DEF resyncVars, history, RepeatInv
<1>3. QED
  BY <1>1, <1>2
     DEF Next, SendNine, SendEleven, SendOther, WSARecvFrom_replacement, vars

\* A resynchronisation starts only after UINT8_MAX - 1 packets in a row that each
\* repeated a half of the timestamp before it.
THEOREM ResyncsNeedRepeats == Spec => ResyncNeedsRepeats
<1>1. Init => RepeatInv
  BY DEF Init, RepeatInv
<1>2. Spec => []RepeatInv
  BY <1>1, RepeatStep, CounterStaysInTable, PTL DEF Spec
<1>3. TypeOK /\ RepeatInv /\ [Next]_vars
        => [~resyncing /\ resyncing' => repeats' >= Threshold - 1]_vars
  BY RepeatStep
<1>4. QED
  BY <1>2, <1>3, CounterStaysInTable, PTL DEF Spec, ResyncNeedsRepeats

-----------------------------------------------------------------------------
(* Type 9 packets *)

\* After a type 9 packet went out, the patch knows that there is no match.
NineInv == idle_nines = 0 \/ (idle_nines = 1 /\ not_in_match)

\* Outside a match only one type 9 packet is passed on.
THEOREM NinesAreSparse == Spec => []OneNinePerWait
<1>1. Init => NineInv
  BY DEF Init, NineInv
<1>2. TypeOK /\ NineInv /\ [Next]_vars => NineInv'
  BY DEF TypeOK, NineInv, Next, vars, matchVars, SendStamped, SendNine, SendEleven, SendOther,
         WSARecvFrom_replacement
<1>3. NineInv => OneNinePerWait
  BY DEF NineInv, OneNinePerWait
<1>4. QED
  BY <1>1, <1>2, <1>3, CounterStaysInTable, PTL DEF Spec
=============================================================================
