------------------------------- MODULE AllocMan -------------------------------
(***************************************************************************)
(* The rollback allocator of AoCF/netcode_files/AllocMan.cpp.  Every frame *)
(* tick saves the contents of the blocks in a ring of SAVED_FRAMES         *)
(* buffers; a rollback by n frames goes n slots back and copies them into  *)
(* the blocks again.  A block that is freed after it was saved stays in    *)
(* the list, its timer counting down, for as long as a rollback may want   *)
(* it back; a block that was not there at the frame rolled back to is      *)
(* released.                                                               *)
(*                                                                         *)
(* The game calls everything, one call after the other.  A block is its    *)
(* address, which malloc may give out again; sizes, the order of the list  *)
(* and the words of a block are abstracted: a block has one value.         *)
(***************************************************************************)
EXTENDS Integers, FiniteSets

CONSTANTS
  Block,          \* addresses of heap blocks
  Value,          \* what a block may contain
  SAVED_FRAMES

ASSUME FramesAssumption == SAVED_FRAMES \in Nat \ {0}
ASSUME ValueAssumption == Value # {} /\ {"Garbage", "Preserved", "Absent"} \cap Value = {}

VARIABLES
  listed, free_timer, has_record, data,
  saved_data_index, available_frames, saved_data,
  past,     \* history: the frames saved 0, 1, 2 ... ticks ago
  depth,    \* history: how many ticks a rollback can go back
  health    \* history: "good" until a rollback reads what is no saved frame

allocVars == <<listed, free_timer, has_record, data>>
ringVars == <<saved_data_index, available_frames, saved_data>>
history == <<past, depth>>
vars == <<allocVars, ringVars, history, health>>

MAX_ROLLBACK_TIMER == SAVED_FRAMES * 2
ROLLBACK_TIMER_RECORD_THRESHOLD == SAVED_FRAMES

Slots == 0 .. SAVED_FRAMES - 1

\* & FRAME_WRAP_MASK, for what is less than one round out of range.
Wrap(n) ==
  IF n < 0 THEN n + SAVED_FRAMES ELSE IF n >= SAVED_FRAMES THEN n - SAVED_FRAMES ELSE n

AtMost(m, n) == IF n < m THEN n ELSE m

Contents == Value \cup {"Garbage"}

\* The records of one buffer: a block has its contents there, or a header alone
\* when its timer was running, or no record.
Frame == [Block -> Contents \cup {"Preserved", "Absent"}]
NoRecords == [b \in Block |-> "Absent"]
Recorded(frame) == {b \in Block : frame[b] # "Absent"}

\* Two headers never fit: tick advances by a record's contents alone, and the
\* next record overwrites the end of the one before.
Overlaps(frame) == Cardinality(Recorded(frame)) > 1

Init ==
  /\ listed = {}
  /\ free_timer = [b \in Block |-> 0]
  /\ has_record = [b \in Block |-> FALSE]
  /\ data \in [Block -> {"Garbage"}]
  /\ saved_data_index = 0
  /\ available_frames = 0
  /\ saved_data = [i \in Slots |-> NoRecords]
  /\ past = [k \in Slots |-> NoRecords]
  /\ depth = 0
  /\ health = "good"

Running == health # "crashed"

-----------------------------------------------------------------------------
(* The game's calls *)

\* The heap does with a released block's bytes what it likes; they read as blank
\* here, and nothing below looks at them.
Release(gone) ==
  /\ listed' = listed \ gone
  /\ free_timer' = [b \in Block |-> IF b \in gone THEN 0 ELSE free_timer[b]]
  /\ has_record' = [b \in Block |-> has_record[b] /\ b \notin gone]
  /\ data' = [b \in Block |-> IF b \in gone THEN "Garbage" ELSE data[b]]

free_alloc(b) ==
  IF has_record[b]
  THEN /\ free_timer' = [free_timer EXCEPT ![b] = MAX_ROLLBACK_TIMER]
       /\ UNCHANGED <<listed, has_record, data>>
  ELSE Release({b})

\* Also my_calloc, and my_realloc of NULL.  Without my_calloc's zeros a block
\* begins as garbage.
my_malloc(b, v) ==
  /\ Running
  /\ b \notin listed
  /\ listed' = listed \cup {b}
  /\ free_timer' = [free_timer EXCEPT ![b] = 0]
  /\ has_record' = [has_record EXCEPT ![b] = FALSE]
  /\ data' = [data EXCEPT ![b] = v]
  /\ UNCHANGED <<ringVars, history, health>>

\* Also my_realloc to no bytes.  The game may free a block whose timer runs: a
\* rollback may have left it so.
my_free(b) ==
  /\ Running
  /\ b \in listed
  /\ free_alloc(b)
  /\ UNCHANGED <<ringVars, history, health>>

\* my_realloc and my_recalloc of a block that cannot grow where it is: malloc of
\* another, memcpy, free_alloc.  One that can grow, and a call that runs out of
\* memory, change nothing but sizes.
my_realloc(b, c) ==
  LET kept == IF has_record[b] THEN {b} ELSE {} IN
  /\ Running
  /\ b \in listed /\ c \notin listed
  /\ listed' = (listed \ {b}) \cup kept \cup {c}
  /\ free_timer' = [free_timer EXCEPT ![c] = 0,
                                      ![b] = IF b \in kept THEN MAX_ROLLBACK_TIMER ELSE 0]
  /\ has_record' = [has_record EXCEPT ![c] = FALSE]
  /\ data' = [data EXCEPT ![c] = data[b], ![b] = IF b \in kept THEN @ ELSE "Garbage"]
  /\ UNCHANGED <<ringVars, history, health>>

\* The game works with its block.
Write(b, v) ==
  /\ Running
  /\ b \in listed /\ free_timer[b] = 0
  /\ data' = [data EXCEPT ![b] = v]
  /\ UNCHANGED <<listed, free_timer, has_record, ringVars, history, health>>

-----------------------------------------------------------------------------
(* tick_allocs *)

\* AllocData::tick counts a running timer down.
Ticked_Idle(b) ==
  IF free_timer[b] > ROLLBACK_TIMER_RECORD_THRESHOLD THEN free_timer[b] - 1 ELSE free_timer[b]

Ticked(b) == IF free_timer[b] > 0 THEN free_timer[b] - 1 ELSE 0

\* AllocData::tick returns FreeData.
Expired == {b \in listed : free_timer[b] = 1}

\* SavedAlloc::record for all the blocks that stay.
Saved ==
  [b \in Block |-> IF b \notin listed \ Expired THEN "Absent"
                   ELSE IF free_timer[b] = 0 THEN data[b] ELSE "Preserved"]

NextIndex == Wrap(saved_data_index + 1)

tick_allocs ==
  /\ Running
  /\ listed' = listed \ Expired
  /\ free_timer' = [b \in Block |-> Ticked(b)]
  /\ has_record' = [b \in Block |-> b \in listed \ Expired]
  /\ data' = [b \in Block |-> IF b \in Expired THEN "Garbage" ELSE data[b]]
  /\ saved_data_index' = NextIndex
  /\ available_frames' = AtMost(SAVED_FRAMES, available_frames + 1)
  /\ saved_data' = [saved_data EXCEPT ![NextIndex] = Saved]
  /\ past' = [k \in Slots |-> IF k = 0 THEN Saved ELSE past[k - 1]]
  /\ depth' = AtMost(SAVED_FRAMES - 1, depth + 1)
  /\ UNCHANGED health

-----------------------------------------------------------------------------
(* rollback_allocs and reset_rollback_buffers *)

\* AllocData::rollback: a timer that has run too far stays, one that the rollback
\* takes back past its start is stopped, and any other is set back.
RolledTimer_Kept(b, frames) ==
  IF free_timer[b] + frames > MAX_ROLLBACK_TIMER THEN 0 ELSE free_timer[b]

RolledTimer_Uncapped(b, frames) ==
  IF free_timer[b] <= ROLLBACK_TIMER_RECORD_THRESHOLD THEN free_timer[b]
  ELSE free_timer[b] + frames

RolledTimer(b, frames) ==
  IF free_timer[b] <= ROLLBACK_TIMER_RECORD_THRESHOLD THEN free_timer[b]
  ELSE IF free_timer[b] + frames > MAX_ROLLBACK_TIMER THEN 0
  ELSE free_timer[b] + frames

Copies_InUse(b, frames) == free_timer[b] = 0

Copies(b, frames) == RolledTimer(b, frames) = 0

\* The walk has visited the records of seen, and of those in torn the contents
\* had been overwritten.  Blocks without a tag are released.
RollBack(frames, frame, seen, torn) ==
  /\ listed' = listed \cap seen
  /\ free_timer' = [b \in Block |-> IF b \in seen THEN RolledTimer(b, frames) ELSE 0]
  /\ has_record' = [b \in Block |-> b \in seen /\ has_record[b]]
  /\ data' = [b \in Block |-> IF b \notin seen \/ (b \in torn /\ Copies(b, frames)) THEN "Garbage"
                              ELSE IF frame[b] \in Contents /\ Copies(b, frames) THEN frame[b]
                              ELSE data[b]]

\* One record is read as it was written.  When its block has been released the
\* tag is written to memory that is no block any more, and the process may fault.
WalkRecord(frames, frame) ==
  /\ ~Overlaps(frame)
  /\ RollBack(frames, frame, Recorded(frame) \cap listed, {})
  /\ health' \in (IF frames > depth THEN {"astray"} ELSE {health})
                 \cup (IF Recorded(frame) \subseteq listed THEN {} ELSE {"crashed"})

\* Of several records the walk finds one whole header, of a record with contents
\* if there is one.  The words it takes for the next header are contents, or left
\* there by other frames: it faults, or ends having visited any blocks.
WalkOverlap(frames, frame) ==
  /\ Overlaps(frame)
  /\ \E first \in Recorded(frame), seen \in SUBSET listed :
       \E torn \in SUBSET seen :
         /\ (\E b \in Block : frame[b] \in Contents) => frame[first] \in Contents
         /\ first \in listed => first \in seen
         /\ seen \ Recorded(frame) \subseteq torn
         /\ RollBack(frames, frame, seen, torn)
  /\ health' \in {"astray", "crashed"}

RollbackIndex(frames) == Wrap(saved_data_index - frames)

\* After one round past is of no use: the slot is that of the newest frame.
rollback_allocs(n) ==
  LET frames == AtMost(available_frames, n) IN
  /\ Running
  /\ frames > 0
  /\ available_frames' = available_frames - frames
  /\ saved_data_index' = RollbackIndex(frames)
  /\ LET frame == saved_data[RollbackIndex(frames)] IN
       WalkRecord(frames, frame) \/ WalkOverlap(frames, frame)
  /\ past' = [k \in Slots |-> IF k + frames \in Slots THEN past[k + frames] ELSE NoRecords]
  /\ depth' = IF frames > depth THEN 0 ELSE depth - frames
  /\ UNCHANGED saved_data

reset_rollback_buffers ==
  /\ Running
  /\ available_frames' = 0
  /\ depth' = 0
  /\ past' = [k \in Slots |-> IF k = 0 THEN past[0] ELSE NoRecords]
  /\ UNCHANGED <<allocVars, saved_data_index, saved_data, health>>

Rollback == \E n \in 1 .. SAVED_FRAMES : rollback_allocs(n)

Frees(b) == my_free(b) \/ \E c \in Block : my_realloc(b, c)

Next ==
  \/ \E b \in Block, v \in Contents : my_malloc(b, v)
  \/ \E b \in Block, v \in Value : Write(b, v)
  \/ \E b \in Block : my_free(b)
  \/ \E b, c \in Block : my_realloc(b, c)
  \/ tick_allocs
  \/ Rollback
  \/ reset_rollback_buffers

Spec == Init /\ [][Next]_vars

-----------------------------------------------------------------------------
(* Properties *)

TypeOK ==
  /\ listed \subseteq Block
  /\ free_timer \in [Block -> 0 .. MAX_ROLLBACK_TIMER]
  /\ has_record \in [Block -> BOOLEAN]
  /\ data \in [Block -> Contents]
  /\ saved_data_index \in Slots
  /\ available_frames \in 0 .. SAVED_FRAMES
  /\ saved_data \in [Slots -> Frame]
  /\ past \in [Slots -> Frame]
  /\ depth \in Slots
  /\ health \in {"good", "astray", "crashed"}
  /\ \A b \in Block : free_timer[b] > 0 => b \in listed /\ has_record[b]

\* A block is in the list for as long as a frame that a rollback can reach has
\* its contents, and one that is being freed is not released before.
ContentsHaveTheirBlock ==
  health = "good" =>
    \A k \in 0 .. depth, b \in Block :
      saved_data[Wrap(saved_data_index - k)][b] \in Contents => b \in listed

\* A rollback to the frame of n ticks ago, where that frame has one record or none
\* and so had the frames of all rollbacks before: if the walk ends, the block that was
\* in use then is back with its contents of then, and every block that was not
\* there is released.  A block freed before the very next tick is not released, but
\* not given back either: its timer starts anew.
SingleRecordRestored ==
  [][\A n \in 1 .. SAVED_FRAMES :
       rollback_allocs(n) /\ n <= depth /\ health = "good" /\ ~Overlaps(past[n]) /\ health' # "crashed" =>
         \A b \in Block :
           /\ past[n][b] \in Contents =>
                /\ b \in listed'
                /\ \/ free_timer'[b] = 0 /\ data'[b] = past[n][b]
                   \/ free_timer'[b] = MAX_ROLLBACK_TIMER
           /\ past[n][b] = "Absent" => b \notin listed']_vars

\* No block waits for its release for ever, when the game goes on ticking, makes
\* no more rollbacks and does not free it over and over, and no rollback before
\* has read what is no saved frame.
FreedIsReleased ==
  [](health = "good") =>
    \A b \in Block :
      []<><<tick_allocs>>_vars /\ <>[][~Rollback /\ ~Frees(b)]_vars
        => <>[](free_timer[b] = 0)

\* AllocManager::rollback says of the blocks it releases, those without a tag, that
\* they must have been allocated after the frame rolled back to: since then there
\* was a tick that did not record them.
UntaggedIsNewer ==
  [][\A n \in 1 .. SAVED_FRAMES :
       rollback_allocs(n) /\ n <= depth /\ health = "good" /\ health' # "crashed" =>
         \A b \in listed \ listed' : \E k \in 0 .. n : past[k][b] = "Absent"]_vars

\* AllocData::rollback says of a block whose timer it sets back that its data need
\* not be copied back yet: it would have none in the frame rolled back to.
SetBackHasNoContents ==
  [][\A n \in 1 .. SAVED_FRAMES :
       rollback_allocs(n) /\ n <= depth /\ health = "good" /\ health' = "good" =>
         \A b \in Block : free_timer'[b] > free_timer[b] => past[n][b] \notin Contents]_vars
=============================================================================
