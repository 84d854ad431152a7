------------------------------- MODULE Netplay -------------------------------
(***************************************************************************)
(* The hooks around the game's WSASendTo and WSARecvFrom, in the two       *)
(* builds the repository has of them: AoCF/netplay_patch/netplay.cpp, and  *)
(* its rewrite in AoCF/netcode_files/main.cpp.  The game numbers its       *)
(* packets' frames with a 64-bit timestamp; the patch counts the packets   *)
(* whose timestamp repeats, and after UINT8_MAX of them in a row           *)
(* (INT8_MAX in the rewrite) it resynchronises: for the next INT8_MAX + 1  *)
(* packets it writes 5, 10, 15 and last INT8_MAX again into one byte of    *)
(* the game's code.  It also drops all but the first of the type 9 packets *)
(* of a game that is not in a match.                                       *)
(*                                                                         *)
(* The game is the environment: it may send and receive any packet at any  *)
(* time, one call after the other (the hooks hold no lock and rely on it). *)
(***************************************************************************)
EXTENDS Integers

CONSTANTS
  Hooks,        \* the builds considered
  PacketType,   \* the first byte of a packet, an int8_t
  HighPart,     \* the halves of a timestamp
  LowPart,
  ORIGINAL      \* the patched byte as the game ships it

ASSUME GameAssumption ==
  /\ Hooks \subseteq {"netplay_patch", "netcode_files"}
  /\ PacketType \subseteq -128 .. 127
  /\ 0 \in HighPart /\ 0 \in LowPart
  /\ ORIGINAL \in 0 .. 255

VARIABLES
  hooks,        \* the build the game runs with
  resyncing, not_in_match, lag_packets, prev_timestamp,
  patched,      \* the byte of the game's code that __apply_patch_B writes
  buffer,       \* the type in the game's receive buffer, whatever put it there
  stuck,        \* history: the last write to patched was refused
  last_sent,    \* history: the timestamp of the last packet that had one
  repeats,      \* history: how many packets in a row counted as repeats
  idle_nines    \* history: type 9 packets sent since the game was in a match (the
                \* rewrite starts as if one had been)

resyncVars == <<resyncing, lag_packets, prev_timestamp, patched>>
matchVars == <<not_in_match, buffer, idle_nines>>
history == <<stuck, last_sent, repeats>>
vars == <<hooks, resyncVars, matchVars, history>>

UINT8_MAX == 255
INT8_MAX == 127

ULARGE_INTEGER == [HighPart : HighPart, LowPart : LowPart]
Zero == [HighPart |-> 0, LowPart |-> 0]

\* The sequence is the C array, one place further: index value / 32 + 1.  The
\* rewrite's array has four entries more, which are never used.
value_table == <<5, 10, 15, INT8_MAX>>

\* VirtualProtect may refuse, and then the byte is left as it is.
apply_patch_B(value) ==
  \/ patched' = value_table[value \div 32 + 1] /\ stuck' = FALSE
  \/ patched' = patched /\ stuck' = TRUE

-----------------------------------------------------------------------------
(* run_resync_logic *)

Fresh_Halves(t, u) == t.LowPart # u.LowPart /\ t.HighPart # u.HighPart

Fresh_Whole(t, u) == t # u

Fresh(t, u) == IF hooks = "netplay_patch" THEN Fresh_Halves(t, u) ELSE Fresh_Whole(t, u)

\* The count at which a resynchronisation starts.
Threshold == IF hooks = "netplay_patch" THEN UINT8_MAX ELSE INT8_MAX

\* The branches that count the packets whose timestamps repeat.
Advance_Kept(new_timestamp) ==
  /\ Fresh(prev_timestamp, new_timestamp)
  /\ UNCHANGED <<resyncing, lag_packets>>

Advance(new_timestamp) ==
  /\ Fresh(prev_timestamp, new_timestamp)
  /\ lag_packets' = 0
  /\ UNCHANGED resyncing

Lag_Late(new_timestamp) ==
  /\ ~Fresh(prev_timestamp, new_timestamp)
  /\ lag_packets' = (lag_packets + 1) % (UINT8_MAX + 1)
  /\ UNCHANGED resyncing

Lag(new_timestamp) ==
  /\ ~Fresh(prev_timestamp, new_timestamp)
  /\ resyncing' = (lag_packets + 1 >= Threshold)
  /\ lag_packets' = IF resyncing' THEN 0 ELSE lag_packets + 1

Watch(new_timestamp) ==
  /\ ~resyncing
  /\ Advance(new_timestamp) \/ Lag(new_timestamp)
  /\ prev_timestamp' = new_timestamp
  /\ UNCHANGED <<patched, stuck>>

\* The packets of a resynchronisation are not looked at.
Ramp_Uncounted ==
  /\ resyncing
  /\ lag_packets <= INT8_MAX
  /\ apply_patch_B(lag_packets)
  /\ UNCHANGED <<resyncing, lag_packets, prev_timestamp>>

Ramp ==
  /\ resyncing
  /\ lag_packets <= INT8_MAX
  /\ apply_patch_B(lag_packets)
  /\ lag_packets' = lag_packets + 1
  /\ UNCHANGED <<resyncing, prev_timestamp>>

Synced_Early ==
  /\ resyncing
  /\ lag_packets > 3 * 32 - 1
  /\ resyncing' = FALSE
  /\ lag_packets' = 0
  /\ UNCHANGED <<prev_timestamp, patched, stuck>>

Synced ==
  /\ resyncing
  /\ lag_packets > INT8_MAX
  /\ resyncing' = FALSE
  /\ lag_packets' = 0
  /\ UNCHANGED <<prev_timestamp, patched, stuck>>

run_resync_logic(new_timestamp) ==
  Watch(new_timestamp) \/ Ramp \/ Synced

-----------------------------------------------------------------------------
(* The hooks *)

Init ==
  /\ hooks \in Hooks
  /\ resyncing = FALSE
  /\ not_in_match = (hooks = "netcode_files")
  /\ lag_packets = 0
  /\ prev_timestamp = Zero
  /\ \/ patched = value_table[INT8_MAX \div 32 + 1] /\ stuck = FALSE
     \/ patched = ORIGINAL /\ stuck = TRUE
  /\ buffer \in PacketType
  /\ last_sent = Zero
  /\ repeats = 0
  /\ idle_nines = IF not_in_match THEN 1 ELSE 0

\* What a packet of type 18 or 19 adds to the history.
Remember(t) ==
  LET again == ~resyncing /\ ~Fresh(last_sent, t) IN
  /\ last_sent' = t
  /\ repeats' = IF ~again THEN 0 ELSE IF repeats < UINT8_MAX THEN repeats + 1 ELSE repeats

\* Types 18 and 19, long enough to hold a timestamp.
SendStamped(t) ==
  /\ PacketType \cap {18, 19} # {}
  /\ run_resync_logic(t)
  /\ Remember(t)
  /\ UNCHANGED <<hooks, matchVars>>

\* Type 9: passed on, or only reported as sent.
SendNine_Unmarked ==
  /\ 9 \in PacketType
  /\ idle_nines' = IF not_in_match \/ idle_nines = 2 THEN idle_nines ELSE idle_nines + 1
  /\ UNCHANGED <<hooks, resyncVars, history, not_in_match, buffer>>

SendNine ==
  /\ 9 \in PacketType
  /\ not_in_match' = TRUE
  /\ idle_nines' = IF not_in_match \/ idle_nines = 2 THEN idle_nines ELSE idle_nines + 1
  /\ UNCHANGED <<hooks, resyncVars, history, buffer>>

SendEleven ==
  /\ 11 \in PacketType
  /\ not_in_match' = FALSE
  /\ idle_nines' = 0
  /\ UNCHANGED <<hooks, resyncVars, history, buffer>>

\* Every other packet, and one too short for its timestamp, is only passed on.
SendOther ==
  /\ UNCHANGED vars

\* The hook looks at the buffer whether or not the call has filled it: a call
\* that fails or is pending leaves there what an earlier one put.
WSARecvFrom_replacement(type) ==
  /\ buffer' = type
  /\ IF type \in 1 .. 11 THEN UNCHANGED <<not_in_match, idle_nines>>
     ELSE not_in_match' = FALSE /\ idle_nines' = 0
  /\ UNCHANGED <<hooks, resyncVars, history>>

Next ==
  \/ \E t \in ULARGE_INTEGER : SendStamped(t)
  \/ SendNine
  \/ SendEleven
  \/ SendOther
  \/ \E type \in PacketType \cup {buffer} : WSARecvFrom_replacement(type)

Spec == Init /\ [][Next]_vars

-----------------------------------------------------------------------------
(* Properties *)

\* While packets are counted the count is short of its threshold, and the packets of
\* a resynchronisation never index past value_table.
TypeOK ==
  /\ hooks \in Hooks
  /\ resyncing \in BOOLEAN
  /\ not_in_match \in BOOLEAN
  /\ lag_packets \in 0 .. UINT8_MAX - 1
  /\ lag_packets <= IF resyncing THEN INT8_MAX + 1 ELSE Threshold - 1
  /\ prev_timestamp \in ULARGE_INTEGER
  /\ patched \in {5, 10, 15, INT8_MAX, ORIGINAL}
  /\ buffer \in PacketType
  /\ stuck \in BOOLEAN
  /\ last_sent \in ULARGE_INTEGER
  /\ repeats \in 0 .. UINT8_MAX
  /\ idle_nines \in 0 .. 2

\* The game plays with the byte a resynchronisation found, unless the last write
\* of one was refused: whatever ramp was written, its end undoes it.
RestoredInSync == ~resyncing /\ ~stuck => patched = INT8_MAX

\* A resynchronisation starts only when packet after packet repeated the timestamp
\* before it, in the sense in which the build compares timestamps.  One packet less
\* than the threshold may do: after a resynchronisation the first packet is compared
\* with a timestamp from before it.
ResyncNeedsRepeats ==
  [][~resyncing /\ resyncing' => repeats' >= Threshold - 1]_vars

\* A resynchronisation ends, if the game goes on sending packets with timestamps.
ResyncEnds ==
  []<><<\E t \in ULARGE_INTEGER : SendStamped(t)>>_vars => (resyncing ~> ~resyncing)

\* Until the game is in a match again, only one type 9 packet is passed on.
OneNinePerWait == idle_nines <= 1
=============================================================================
