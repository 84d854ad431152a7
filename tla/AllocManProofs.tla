---------------------------- MODULE AllocManProofs ----------------------------
(* Proofs about the rollback allocator for any blocks, contents and number of *)
(* saved frames.  The inductive invariant follows a block's contents through  *)
(* the frames that a rollback can reach.                                      *)
EXTENDS AllocMan, TLAPS

\* A slot k back from the newest one holds the frame of k ticks ago.
RingHoldsPast ==
  \A k \in 0 .. depth : saved_data[Wrap(saved_data_index - k)] = past[k]

\* Contents saved k ticks ago: their block is listed, it was recorded ever since,
\* and when it is being freed that began no more than k ticks ago.
Aged(k, b) ==
  past[k][b] \in Contents =>
    /\ b \in listed
    /\ has_record[b] = TRUE
    /\ free_timer[b] > 0 => k + free_timer[b] >= MAX_ROLLBACK_TIMER
    /\ \A j \in 0 .. k : past[j][b] # "Absent"

ContentsAged == \A k \in 0 .. depth, b \in Block : Aged(k, b)

IInv ==
  /\ TypeOK
  /\ depth <= available_frames
  /\ health = "good" => RingHoldsPast /\ ContentsAged

-----------------------------------------------------------------------------
(* Arithmetic of the ring *)

\* Going back over the slots stays among them.
LEMMA WrapType ==
  ASSUME NEW i \in Slots, NEW k \in 0 .. SAVED_FRAMES
  PROVE  Wrap(i - k) \in Slots /\ Wrap(i + 1) \in Slots
BY FramesAssumption, SMT DEF Wrap, Slots

\* The slot k + 1 back from the next one is the slot k back, and not the next one.
LEMMA WrapNext ==
  ASSUME NEW i \in Slots, NEW k \in Nat, k + 1 < SAVED_FRAMES
  PROVE  /\ Wrap(Wrap(i + 1) - (k + 1)) = Wrap(i - k)
         /\ Wrap(i - k) # Wrap(i + 1)
BY FramesAssumption, SMT DEF Wrap, Slots

\* The newest slot is no step back.
LEMMA WrapHere ==
  ASSUME NEW i \in Slots
  PROVE  Wrap(i - 0) = i
BY FramesAssumption, SMT DEF Wrap, Slots

\* Steps back add up.
LEMMA WrapBack ==
  ASSUME NEW i \in Slots, NEW n \in Nat, NEW k \in Nat, n + k < SAVED_FRAMES
  PROVE  Wrap(Wrap(i - n) - k) = Wrap(i - (k + n))
BY FramesAssumption, SMT DEF Wrap, Slots

\* RolledTimer stays in its range, and a timer at rest stays at rest.
LEMMA RolledTimerType ==
  ASSUME NEW b \in Block, NEW n \in Nat, free_timer[b] \in 0 .. MAX_ROLLBACK_TIMER
  PROVE  /\ RolledTimer(b, n) \in 0 .. MAX_ROLLBACK_TIMER
         /\ RolledTimer(b, n) > 0 => free_timer[b] > 0
BY FramesAssumption, SMT
   DEF RolledTimer, MAX_ROLLBACK_TIMER, ROLLBACK_TIMER_RECORD_THRESHOLD

\* Contents of a frame that a rollback can reach are those of a block whose timer
\* the rollback sets back by as many ticks, or stops.
LEMMA RolledTimerAge ==
  ASSUME NEW b \in Block, NEW n \in Nat, NEW k \in Nat,
         free_timer[b] \in 0 .. MAX_ROLLBACK_TIMER,
         k + n < SAVED_FRAMES,
         free_timer[b] > 0 => k + n + free_timer[b] >= MAX_ROLLBACK_TIMER
  PROVE  /\ RolledTimer(b, n) > 0 => k + RolledTimer(b, n) >= MAX_ROLLBACK_TIMER
         /\ k = 0 => RolledTimer(b, n) \in {0, MAX_ROLLBACK_TIMER}
BY FramesAssumption, SMT
   DEF RolledTimer, MAX_ROLLBACK_TIMER, ROLLBACK_TIMER_RECORD_THRESHOLD

-----------------------------------------------------------------------------
(* Types *)

\* Nothing has been recorded at first.
LEMMA InitTypeOK == Init => TypeOK
BY FramesAssumption, ValueAssumption, SMT
   DEF Init, TypeOK, Frame, NoRecords, Contents, Slots, MAX_ROLLBACK_TIMER

\* What a tick saves is a frame.
LEMMA SavedType ==
  ASSUME TypeOK
  PROVE  Saved \in Frame
BY DEF TypeOK, Saved, Frame

\* A released block leaves blanks.
LEMMA ReleaseType ==
  ASSUME TypeOK, NEW b \in Block, Release({b}), UNCHANGED <<ringVars, history, health>>
  PROVE  TypeOK'
<1>1. /\ listed' \subseteq Block
      /\ free_timer' \in [Block -> 0 .. MAX_ROLLBACK_TIMER]
      /\ data' \in [Block -> Contents]
  BY FramesAssumption DEF TypeOK, Release, Contents, MAX_ROLLBACK_TIMER
<1>2. has_record' \in [Block -> BOOLEAN]
  BY DEF TypeOK, Release
<1>3. \A c \in Block : free_timer'[c] > 0 => c \in listed' /\ has_record'[c]
  <2> SUFFICES ASSUME NEW c \in Block, free_timer'[c] > 0 PROVE c \in listed' /\ has_record'[c]
    OBVIOUS
  <2>1. c # b /\ free_timer[c] > 0
    BY DEF Release
  <2>2. c \in listed /\ has_record[c]
    BY <2>1 DEF TypeOK
  <2>3. QED
    BY <2>1, <2>2 DEF Release
<1>4. QED
  BY <1>1, <1>2, <1>3 DEF TypeOK, ringVars, history, Slots

\* A rollback keeps the types, whatever its walk has visited.
LEMMA RollBackType ==
  ASSUME TypeOK, NEW frames \in Nat, NEW frame \in Frame,
         NEW seen \in SUBSET listed, NEW torn, RollBack(frames, frame, seen, torn)
  PROVE  /\ listed' \subseteq Block
         /\ free_timer' \in [Block -> 0 .. MAX_ROLLBACK_TIMER]
         /\ has_record' \in [Block -> BOOLEAN]
         /\ data' \in [Block -> Contents]
         /\ \A b \in Block : free_timer'[b] > 0 => b \in listed' /\ has_record'[b]
<1>1. listed' \subseteq Block
  BY DEF TypeOK, RollBack
<1>2. free_timer' \in [Block -> 0 .. MAX_ROLLBACK_TIMER]
  <2>1. \A b \in Block : RolledTimer(b, frames) \in 0 .. MAX_ROLLBACK_TIMER
    BY RolledTimerType DEF TypeOK
  <2>2. QED
    BY <2>1, FramesAssumption DEF RollBack, MAX_ROLLBACK_TIMER
<1>3. has_record' \in [Block -> BOOLEAN]
  BY DEF TypeOK, RollBack
<1>4. data' \in [Block -> Contents]
  BY DEF TypeOK, RollBack, Contents
<1>5. \A b \in Block : free_timer'[b] > 0 => b \in listed' /\ has_record'[b]
  <2> SUFFICES ASSUME NEW b \in Block, free_timer'[b] > 0 PROVE b \in listed' /\ has_record'[b]
    OBVIOUS
  <2>1. b \in seen /\ RolledTimer(b, frames) > 0
    BY DEF RollBack
  <2>2. free_timer[b] > 0
    BY <2>1, RolledTimerType DEF TypeOK
  <2>3. b \in listed /\ has_record[b]
    BY <2>2 DEF TypeOK
  <2>4. QED
    BY <2>1, <2>3 DEF RollBack
<1>6. QED
  BY <1>1, <1>2, <1>3, <1>4, <1>5

\* The frames a rollback goes back, and the frame it reads.
LEMMA RollbackFrames ==
  ASSUME TypeOK, NEW n \in 1 .. SAVED_FRAMES
  PROVE  /\ AtMost(available_frames, n) \in 0 .. SAVED_FRAMES
         /\ AtMost(available_frames, n) <= available_frames
         /\ RollbackIndex(AtMost(available_frames, n)) \in Slots
         /\ saved_data[RollbackIndex(AtMost(available_frames, n))] \in Frame
<1> DEFINE frames == AtMost(available_frames, n)
<1>1. frames \in 0 .. SAVED_FRAMES /\ frames <= available_frames
  BY FramesAssumption DEF TypeOK, AtMost
<1> HIDE DEF frames
<1>2. RollbackIndex(frames) \in Slots
  BY <1>1, WrapType DEF RollbackIndex, TypeOK
<1>3. saved_data[RollbackIndex(frames)] \in Frame
  BY <1>2 DEF TypeOK
<1>4. QED
  BY <1>1, <1>2, <1>3 DEF frames

\* A rollback is one walk over one frame.
LEMMA RollbackWalks ==
  ASSUME TypeOK, NEW n \in 1 .. SAVED_FRAMES, rollback_allocs(n)
  PROVE  \E frames \in 1 .. SAVED_FRAMES, frame \in Frame, seen \in SUBSET listed, torn \in SUBSET listed :
           /\ frames = AtMost(available_frames, n)
           /\ frame = saved_data[RollbackIndex(frames)]
           /\ RollBack(frames, frame, seen, torn)
           /\ health' \in {"good", "astray", "crashed"}
           /\ health' = "good" => /\ health = "good"
                                  /\ frames <= depth
                                  /\ seen = Recorded(frame) \cap listed
                                  /\ torn = {}
<1> DEFINE frames == AtMost(available_frames, n)
           frame == saved_data[RollbackIndex(frames)]
<1>1. frames \in 1 .. SAVED_FRAMES /\ frame \in Frame
  <2>1. frames \in 0 .. SAVED_FRAMES /\ frame \in Frame
    BY RollbackFrames
  <2>2. frames > 0
    BY DEF rollback_allocs
  <2>3. QED
    BY <2>1, <2>2, FramesAssumption
<1>2. WalkRecord(frames, frame) \/ WalkOverlap(frames, frame)
  BY DEF rollback_allocs
<1> HIDE DEF frames, frame
<1>3. CASE WalkRecord(frames, frame)
  <2>1. /\ RollBack(frames, frame, Recorded(frame) \cap listed, {})
        /\ health' \in {"good", "astray", "crashed"}
    BY <1>3 DEF WalkRecord, TypeOK
  <2>2. ASSUME health' = "good" PROVE health = "good" /\ frames <= depth
    <3>1. ~(frames > depth)
      BY <1>3, <2>2 DEF WalkRecord
    <3>2. health = "good"
      BY <1>3, <2>2, <3>1 DEF WalkRecord
    <3>3. QED
      BY <1>1, <3>1, <3>2, FramesAssumption DEF TypeOK, Slots
  <2>3. QED
    BY <1>1, <2>1, <2>2 DEF frames, frame
<1>4. CASE WalkOverlap(frames, frame)
  <2>1. PICK seen \in SUBSET listed, torn \in SUBSET listed : RollBack(frames, frame, seen, torn)
    BY <1>4 DEF WalkOverlap
  <2>2. health' \in {"astray", "crashed"}
    BY <1>4 DEF WalkOverlap
  <2>3. QED
    BY <1>1, <2>1, <2>2 DEF frames, frame
<1>5. QED
  BY <1>2, <1>3, <1>4

\* Every step keeps the types.
LEMMA TypeStep == TypeOK /\ [Next]_vars => TypeOK'
<1> SUFFICES ASSUME TypeOK, [Next]_vars PROVE TypeOK'
  OBVIOUS
<1>1. ASSUME NEW b \in Block, NEW v \in Contents, my_malloc(b, v) PROVE TypeOK'
  <2>1. /\ listed' \subseteq Block
        /\ free_timer' \in [Block -> 0 .. MAX_ROLLBACK_TIMER]
        /\ data' \in [Block -> Contents]
    BY <1>1, FramesAssumption DEF TypeOK, my_malloc, MAX_ROLLBACK_TIMER
  <2>2. has_record' \in [Block -> BOOLEAN]
    BY <1>1 DEF TypeOK, my_malloc
  <2>3. \A c \in Block : free_timer'[c] > 0 => c \in listed' /\ has_record'[c]
    BY <1>1 DEF TypeOK, my_malloc
  <2>4. QED
    BY <1>1, <2>1, <2>2, <2>3 DEF TypeOK, my_malloc, ringVars, history
<1>2. ASSUME NEW b \in Block, NEW v \in Value, Write(b, v) PROVE TypeOK'
  <2>1. data' \in [Block -> Contents]
    BY <1>2 DEF TypeOK, Write, Contents
  <2>2. QED
    BY <1>2, <2>1 DEF TypeOK, Write, ringVars, history
<1>3. ASSUME NEW b \in Block, my_free(b) PROVE TypeOK'
  <2>1. CASE has_record[b]
    <3>1. free_timer' = [free_timer EXCEPT ![b] = MAX_ROLLBACK_TIMER]
      BY <1>3, <2>1 DEF my_free, free_alloc
    <3>2. free_timer' \in [Block -> 0 .. MAX_ROLLBACK_TIMER]
      BY <3>1, FramesAssumption DEF TypeOK, MAX_ROLLBACK_TIMER
    <3>3. UNCHANGED <<listed, has_record, data>>
      BY <1>3, <2>1 DEF my_free, free_alloc
    <3>4. \A c \in Block : free_timer'[c] > 0 => c \in listed' /\ has_record'[c]
      BY <1>3, <2>1, <3>1, <3>3 DEF TypeOK, my_free
    <3>5. QED
      BY <1>3, <3>2, <3>3, <3>4 DEF TypeOK, my_free, ringVars, history
  <2>2. CASE ~has_record[b]
    BY <1>3, <2>2, ReleaseType DEF my_free, free_alloc
  <2>3. QED
    BY <2>1, <2>2
<1>4. ASSUME NEW b \in Block, NEW c \in Block, my_realloc(b, c) PROVE TypeOK'
  <2> DEFINE kept == IF has_record[b] THEN {b} ELSE {}
  <2>0. kept \subseteq {b} /\ (b \in kept => has_record[b]) /\ b # c
    BY <1>4 DEF my_realloc
  <2>1. /\ listed' = (listed \ {b}) \cup kept \cup {c}
        /\ free_timer' = [free_timer EXCEPT ![c] = 0,
                            ![b] = IF b \in kept THEN MAX_ROLLBACK_TIMER ELSE 0]
        /\ has_record' = [has_record EXCEPT ![c] = FALSE]
        /\ data' = [data EXCEPT ![c] = data[b], ![b] = IF b \in kept THEN @ ELSE "Garbage"]
    BY <1>4 DEF my_realloc
  <2> HIDE DEF kept
  <2>2. listed' \subseteq Block
    BY <2>0, <2>1 DEF TypeOK
  <2>3. free_timer' \in [Block -> 0 .. MAX_ROLLBACK_TIMER]
    BY <2>1, FramesAssumption DEF TypeOK, MAX_ROLLBACK_TIMER
  <2>4. data' \in [Block -> Contents]
    BY <2>1 DEF TypeOK, Contents
  <2>5. has_record' \in [Block -> BOOLEAN]
    BY <2>1 DEF TypeOK
  <2>6. \A d \in Block : free_timer'[d] > 0 => d \in listed' /\ has_record'[d]
    <3> SUFFICES ASSUME NEW d \in Block, free_timer'[d] > 0 PROVE d \in listed' /\ has_record'[d]
      OBVIOUS
    <3>1. d # c
      BY <2>0, <2>1 DEF TypeOK
    <3>2. CASE d = b
      <4>1. b \in kept
        BY <3>2, <2>0, <2>1 DEF TypeOK
      <4>2. QED
        BY <3>2, <4>1, <2>0, <2>1 DEF TypeOK
    <3>3. CASE d # b
      <4>1. free_timer[d] > 0
        BY <3>1, <3>3, <2>1 DEF TypeOK
      <4>2. d \in listed /\ has_record[d]
        BY <4>1 DEF TypeOK
      <4>3. QED
        BY <3>1, <3>3, <4>2, <2>1 DEF TypeOK
    <3>4. QED
      BY <3>2, <3>3
  <2>7. QED
    BY <1>4, <2>2, <2>3, <2>4, <2>5, <2>6 DEF TypeOK, my_realloc, ringVars, history
<1>5. CASE tick_allocs
  <2>1. listed' \subseteq Block
    BY <1>5 DEF TypeOK, tick_allocs
  <2>2. free_timer' \in [Block -> 0 .. MAX_ROLLBACK_TIMER]
    BY <1>5, FramesAssumption DEF TypeOK, tick_allocs, Ticked, MAX_ROLLBACK_TIMER
  <2>3. has_record' \in [Block -> BOOLEAN]
    BY <1>5 DEF tick_allocs
  <2>4. data' \in [Block -> Contents]
    BY <1>5 DEF TypeOK, tick_allocs, Contents
  <2>5. saved_data_index' \in Slots /\ NextIndex \in Slots
    <3>1. 0 \in 0 .. SAVED_FRAMES
      BY FramesAssumption
    <3>2. NextIndex \in Slots
      BY <3>1, WrapType DEF TypeOK, NextIndex
    <3>3. QED
      BY <1>5, <3>2 DEF tick_allocs
  <2>6. available_frames' \in 0 .. SAVED_FRAMES /\ depth' \in Slots
    BY <1>5, FramesAssumption DEF TypeOK, tick_allocs, AtMost, Slots
  <2>7. saved_data' \in [Slots -> Frame] /\ past' \in [Slots -> Frame]
    <3>1. saved_data' \in [Slots -> Frame]
      BY <1>5, SavedType DEF TypeOK, tick_allocs
    <3>2. ASSUME NEW k \in Slots, k # 0 PROVE past[k - 1] \in Frame
      <4>1. k - 1 \in Slots
        BY <3>2, FramesAssumption DEF Slots
      <4>2. QED
        BY <4>1 DEF TypeOK
    <3>3. QED
      BY <1>5, <3>1, <3>2, SavedType DEF tick_allocs
  <2>8. \A b \in Block : free_timer'[b] > 0 => b \in listed' /\ has_record'[b]
    <3> SUFFICES ASSUME NEW b \in Block, free_timer'[b] > 0 PROVE b \in listed' /\ has_record'[b]
      OBVIOUS
    <3>1. free_timer[b] \in 0 .. MAX_ROLLBACK_TIMER
      BY DEF TypeOK
    <3>2. free_timer'[b] = Ticked(b)
      BY <1>5 DEF tick_allocs
    <3>3. free_timer[b] > 0 /\ free_timer[b] # 1
      BY <3>1, <3>2, FramesAssumption DEF Ticked, MAX_ROLLBACK_TIMER
    <3>4. b \in listed \ Expired
      BY <3>3 DEF TypeOK, Expired
    <3>5. QED
      BY <1>5, <3>4 DEF tick_allocs
  <2>9. QED
    BY <1>5, <2>1, <2>2, <2>3, <2>4, <2>5, <2>6, <2>7, <2>8 DEF TypeOK, tick_allocs
<1>6. ASSUME NEW n \in 1 .. SAVED_FRAMES, rollback_allocs(n) PROVE TypeOK'
  <2>1. PICK frames \in 1 .. SAVED_FRAMES, frame \in Frame, seen \in SUBSET listed, torn \in SUBSET listed :
          /\ frames = AtMost(available_frames, n)
          /\ RollBack(frames, frame, seen, torn)
          /\ health' \in {"good", "astray", "crashed"}
    BY <1>6, RollbackWalks
  <2>2. /\ listed' \subseteq Block
        /\ free_timer' \in [Block -> 0 .. MAX_ROLLBACK_TIMER]
        /\ has_record' \in [Block -> BOOLEAN]
        /\ data' \in [Block -> Contents]
        /\ \A b \in Block : free_timer'[b] > 0 => b \in listed' /\ has_record'[b]
    BY <2>1, RollBackType
  <2>3. saved_data_index' \in Slots
    BY <1>6, RollbackFrames DEF rollback_allocs
  <2>4. available_frames' \in 0 .. SAVED_FRAMES
    <3>1. frames <= available_frames
      BY <2>1, RollbackFrames
    <3>2. available_frames' = available_frames - frames
      BY <1>6, <2>1 DEF rollback_allocs
    <3>3. QED
      BY <2>1, <3>1, <3>2, FramesAssumption DEF TypeOK
  <2>5. depth' \in Slots
    <3>1. depth' = IF frames > depth THEN 0 ELSE depth - frames
      BY <1>6, <2>1 DEF rollback_allocs
    <3>2. QED
      BY <2>1, <3>1, FramesAssumption DEF TypeOK, Slots
  <2>6. past' \in [Slots -> Frame]
    <3>1. past' = [k \in Slots |-> IF k + frames \in Slots THEN past[k + frames] ELSE NoRecords]
      BY <1>6, <2>1 DEF rollback_allocs
    <3>2. QED
      BY <3>1 DEF TypeOK, NoRecords, Frame
  <2>7. saved_data' \in [Slots -> Frame]
    BY <1>6 DEF rollback_allocs, TypeOK
  <2>8. QED
    BY <2>1, <2>2, <2>3, <2>4, <2>5, <2>6, <2>7 DEF TypeOK
<1>7. CASE reset_rollback_buffers
  <2>1. past' \in [Slots -> Frame]
    BY <1>7, FramesAssumption DEF TypeOK, reset_rollback_buffers, NoRecords, Frame, Slots
  <2>2. available_frames' \in 0 .. SAVED_FRAMES /\ depth' \in Slots
    BY <1>7, FramesAssumption DEF reset_rollback_buffers, Slots
  <2>3. QED
    BY <1>7, <2>1, <2>2 DEF TypeOK, reset_rollback_buffers, allocVars
<1>8. CASE UNCHANGED vars
  BY <1>8 DEF TypeOK, vars, allocVars, ringVars, history
<1>9. QED
  BY <1>1, <1>2, <1>3, <1>4, <1>5, <1>6, <1>7, <1>8 DEF Next, Rollback

\* The types hold in every reachable state, for any blocks and any number of
\* frames: no timer exceeds MAX_ROLLBACK_TIMER, and only recorded blocks wait.
THEOREM TypeCorrect == Spec => []TypeOK
<1>1. QED
  BY InitTypeOK, TypeStep, PTL DEF Spec

-----------------------------------------------------------------------------
(* The invariant *)

\* What a rollback that can be made finds: the frame of so many ticks ago.
LEMMA RollbackFinds ==
  ASSUME IInv, NEW n \in 1 .. SAVED_FRAMES, rollback_allocs(n), health' = "good"
  PROVE  \E frames \in 1 .. depth, seen \in SUBSET listed :
           /\ frames = AtMost(available_frames, n)
           /\ health = "good"
           /\ RollBack(frames, past[frames], seen, {})
           /\ seen = Recorded(past[frames]) \cap listed
<1>1. TypeOK
  BY DEF IInv
<1>2. PICK frames \in 1 .. SAVED_FRAMES, frame \in Frame, seen \in SUBSET listed, torn \in SUBSET listed :
        /\ frames = AtMost(available_frames, n)
        /\ frame = saved_data[RollbackIndex(frames)]
        /\ RollBack(frames, frame, seen, torn)
        /\ health = "good"
        /\ frames <= depth
        /\ seen = Recorded(frame) \cap listed
        /\ torn = {}
  BY <1>1, RollbackWalks
<1>3. frames \in 1 .. depth
  BY <1>1, <1>2, FramesAssumption DEF TypeOK, Slots
<1>4. frame = past[frames]
  BY <1>2, <1>3 DEF IInv, RingHoldsPast, RollbackIndex
<1>5. QED
  BY <1>2, <1>3, <1>4

\* At first there is only the empty frame.
LEMMA InitIInv == Init => IInv
<1> SUFFICES ASSUME Init PROVE IInv
  OBVIOUS
<1>1. TypeOK
  BY InitTypeOK
<1>2. depth = 0 /\ available_frames = 0
  BY DEF Init
<1>3. RingHoldsPast
  <2>1. \A k \in 0 .. depth : k = 0
    BY <1>2
  <2>2. 0 \in Slots
    BY FramesAssumption DEF Slots
  <2>3. Wrap(saved_data_index - 0) = 0
    BY <2>2, WrapHere DEF Init
  <2>4. QED
    BY <2>1, <2>2, <2>3 DEF RingHoldsPast, Init
<1>4. ContentsAged
  <2>1. \A k \in 0 .. depth : k \in Slots
    BY <1>2, FramesAssumption DEF Slots
  <2>2. "Absent" \notin Contents
    BY ValueAssumption DEF Contents
  <2>3. QED
    BY <2>1, <2>2 DEF ContentsAged, Aged, Init, NoRecords
<1>5. QED
  BY <1>1, <1>2, <1>3, <1>4 DEF IInv

\* The calls of the game leave the ring alone.
LEMMA SameRing ==
  ASSUME UNCHANGED <<ringVars, history, health>>, IInv, TypeOK',
         health = "good" => ContentsAged'
  PROVE  IInv'
BY DEF IInv, RingHoldsPast, ringVars, history

\* A call of the game keeps what it does not touch, and what it frees keeps its
\* age: a timer begins at MAX_ROLLBACK_TIMER.
LEMMA SameAges ==
  ASSUME UNCHANGED <<ringVars, history, health>>, IInv, health = "good",
         \A b \in listed : has_record[b] = TRUE =>
           /\ b \in listed'
           /\ has_record'[b] = TRUE
           /\ free_timer'[b] \in {free_timer[b], MAX_ROLLBACK_TIMER}
  PROVE  ContentsAged'
<1> SUFFICES ASSUME NEW k \in 0 .. depth, NEW b \in Block, past[k][b] \in Contents
             PROVE  /\ b \in listed'
                    /\ has_record'[b] = TRUE
                    /\ free_timer'[b] > 0 => k + free_timer'[b] >= MAX_ROLLBACK_TIMER
                    /\ \A j \in 0 .. k : past[j][b] # "Absent"
  BY DEF ContentsAged, Aged, history
<1>1. Aged(k, b)
  BY DEF IInv, ContentsAged
<1>2. b \in listed /\ has_record[b] = TRUE
  BY <1>1 DEF Aged
<1>3. free_timer'[b] > 0 => k + free_timer'[b] >= MAX_ROLLBACK_TIMER
  <2>1. k \in Nat
    BY DEF IInv, TypeOK, Slots
  <2>2. CASE free_timer'[b] = free_timer[b]
    BY <1>1, <2>2 DEF Aged
  <2>3. CASE free_timer'[b] = MAX_ROLLBACK_TIMER
    BY <2>1, <2>3, FramesAssumption DEF MAX_ROLLBACK_TIMER
  <2>4. QED
    BY <1>2, <2>2, <2>3
<1>4. QED
  BY <1>1, <1>2, <1>3 DEF Aged

\* A tick moves every frame one further back.
LEMMA TickIInv ==
  ASSUME IInv, TypeOK', tick_allocs
  PROVE  IInv'
<1>1. /\ TypeOK /\ depth <= available_frames
      /\ health' = health
      /\ depth \in Nat /\ available_frames \in Nat /\ depth < SAVED_FRAMES
  BY FramesAssumption DEF IInv, TypeOK, tick_allocs, Slots
<1>2. depth' <= available_frames'
  BY <1>1, FramesAssumption DEF tick_allocs, AtMost
<1>3. depth' \in Nat /\ depth' <= depth + 1 /\ depth' < SAVED_FRAMES
  BY <1>1, FramesAssumption DEF tick_allocs, AtMost
<1> SUFFICES ASSUME health = "good" PROVE RingHoldsPast' /\ ContentsAged'
  BY <1>1, <1>2 DEF IInv
<1>4. /\ 0 \in Slots /\ past'[0] = Saved
      /\ \A k \in 0 .. depth' : k # 0 => /\ k \in Slots /\ k - 1 \in 0 .. depth
                                         /\ past'[k] = past[k - 1]
  <2>1. \A k \in 0 .. depth' : k \in Slots
    BY <1>3, FramesAssumption DEF Slots
  <2>2. \A k \in 0 .. depth' : k # 0 => k - 1 \in 0 .. depth
    BY <1>1, <1>3
  <2>3. 0 \in Slots
    BY FramesAssumption DEF Slots
  <2>4. QED
    BY <2>1, <2>2, <2>3 DEF tick_allocs
<1>5. RingHoldsPast'
  <2> SUFFICES ASSUME NEW k \in 0 .. depth'
               PROVE  saved_data'[Wrap(saved_data_index' - k)] = past'[k]
    BY DEF RingHoldsPast
  <2>1. saved_data_index \in Slots /\ NextIndex \in Slots /\ saved_data_index' = NextIndex
        /\ saved_data' = [saved_data EXCEPT ![NextIndex] = Saved]
    BY <1>1 DEF TypeOK, tick_allocs
  <2>2. CASE k = 0
    <3>1. Wrap(NextIndex - k) = NextIndex
      BY <2>1, <2>2, WrapHere
    <3>2. QED
      BY <1>1, <1>4, <2>1, <2>2, <3>1 DEF TypeOK
  <2>3. CASE k # 0
    <3>1. PICK j \in 0 .. depth : k = j + 1 /\ past'[k] = past[j]
      <4>1. k - 1 \in 0 .. depth /\ k = (k - 1) + 1 /\ past'[k] = past[k - 1]
        BY <1>1, <1>3, <1>4, <2>3
      <4>2. QED
        BY <4>1
    <3>8. j \in Nat /\ j + 1 < SAVED_FRAMES /\ j \in 0 .. SAVED_FRAMES
      BY <1>1, <1>3, <3>1, FramesAssumption
    <3>2. /\ Wrap(NextIndex - k) = Wrap(saved_data_index - j)
          /\ Wrap(saved_data_index - j) # NextIndex
      BY <2>1, <3>1, <3>8, WrapNext DEF NextIndex
    <3>3. Wrap(saved_data_index - j) \in Slots
      BY <2>1, <3>8, WrapType
    <3>4. saved_data'[Wrap(NextIndex - k)] = saved_data[Wrap(saved_data_index - j)]
      BY <1>1, <2>1, <3>2, <3>3 DEF TypeOK
    <3>5. saved_data[Wrap(saved_data_index - j)] = past[j]
      BY <3>1 DEF IInv, RingHoldsPast
    <3>7. QED
      BY <2>1, <3>1, <3>4, <3>5
  <2>4. QED
    BY <2>2, <2>3
<1>6. ContentsAged'
  <2> SUFFICES ASSUME NEW k \in 0 .. depth', NEW b \in Block, past'[k][b] \in Contents
               PROVE  /\ b \in listed \ Expired
                      /\ Ticked(b) > 0 => k + Ticked(b) >= MAX_ROLLBACK_TIMER
                      /\ \A j \in 0 .. k : past'[j][b] # "Absent"
    BY DEF ContentsAged, Aged, tick_allocs
  <2>1. free_timer[b] \in Nat /\ k \in Nat /\ k <= depth'
    BY <1>1, <1>3, FramesAssumption DEF TypeOK, MAX_ROLLBACK_TIMER
  <2>2. {"Absent", "Preserved"} \cap Contents = {}
    BY ValueAssumption DEF Contents
  <2>3. b \in listed \ Expired => Saved[b] # "Absent"
    BY <1>1, <2>2 DEF Saved, TypeOK
  <2>4. CASE k = 0
    <3>1. Saved[b] \in Contents
      BY <1>4, <2>4
    <3>2. b \in listed \ Expired /\ free_timer[b] = 0
      BY <2>2, <3>1 DEF Saved
    <3>3. Ticked(b) = 0
      BY <3>2 DEF Ticked
    <3>4. \A j \in 0 .. k : j = 0
      BY <2>4
    <3>5. QED
      BY <1>4, <2>3, <3>2, <3>3, <3>4
  <2>5. CASE k # 0
    <3>1. k - 1 \in 0 .. depth /\ past[k - 1][b] \in Contents
      BY <1>4, <2>5
    <3>2. Aged(k - 1, b)
      BY <3>1 DEF IInv, ContentsAged
    <3>3. b \in listed /\ (free_timer[b] > 0 => k - 1 + free_timer[b] >= MAX_ROLLBACK_TIMER)
          /\ \A j \in 0 .. k - 1 : past[j][b] # "Absent"
      BY <3>1, <3>2 DEF Aged
    <3>4. free_timer[b] # 1
      BY <1>1, <1>3, <2>1, <3>1, <3>3, FramesAssumption DEF MAX_ROLLBACK_TIMER
    <3>5. b \in listed \ Expired
      BY <3>3, <3>4 DEF Expired
    <3>6. Ticked(b) > 0 => k + Ticked(b) >= MAX_ROLLBACK_TIMER
      BY <2>1, <3>3, FramesAssumption DEF Ticked, MAX_ROLLBACK_TIMER
    <3>7. ASSUME NEW j \in 0 .. k PROVE past'[j][b] # "Absent"
      <4>1. CASE j = 0
        BY <1>4, <2>3, <3>5, <4>1
      <4>2. CASE j # 0
        <5>1. j \in 0 .. depth' /\ j - 1 \in 0 .. k - 1
          BY <2>1, <1>3, <4>2
        <5>2. QED
          BY <1>4, <3>3, <4>2, <5>1
      <4>3. QED
        BY <4>1, <4>2
    <3>8. QED
      BY <3>5, <3>6, <3>7
  <2>6. QED
    BY <2>4, <2>5
<1>7. QED
  BY <1>5, <1>6

\* A rollback brings the frames it leaves as near as they were.
LEMMA RollbackIInv ==
  ASSUME IInv, TypeOK', NEW n \in 1 .. SAVED_FRAMES, rollback_allocs(n)
  PROVE  IInv'
<1>1. TypeOK
  BY DEF IInv
<1> DEFINE f == AtMost(available_frames, n)
<1>2. f \in 0 .. SAVED_FRAMES /\ f <= available_frames
  BY <1>1, RollbackFrames
<1>3. /\ available_frames' = available_frames - f
      /\ depth' = IF f > depth THEN 0 ELSE depth - f
      /\ saved_data_index' = RollbackIndex(f)
      /\ saved_data' = saved_data
      /\ past' = [k \in Slots |-> IF k + f \in Slots THEN past[k + f] ELSE NoRecords]
  BY DEF rollback_allocs
<1> HIDE DEF f
<1>4. depth' <= available_frames'
  <2>1. depth \in Nat /\ available_frames \in Nat /\ depth <= available_frames
    BY <1>1, FramesAssumption DEF IInv, TypeOK, Slots
  <2>2. QED
    BY <1>2, <1>3, <2>1, FramesAssumption
<1> SUFFICES ASSUME health' = "good" PROVE RingHoldsPast' /\ ContentsAged'
  BY <1>4 DEF IInv
<1>5. PICK seen \in SUBSET listed :
        /\ f \in 1 .. depth
        /\ health = "good"
        /\ RollBack(f, past[f], seen, {})
        /\ seen = Recorded(past[f]) \cap listed
  BY RollbackFinds DEF f
<1>6. depth \in Nat /\ depth < SAVED_FRAMES /\ depth' = depth - f /\ f \in Nat
  BY <1>1, <1>3, <1>5, FramesAssumption DEF TypeOK, Slots
<1>7. \A k \in 0 .. depth' : /\ k \in Slots /\ k \in Nat /\ k + f \in 0 .. depth
                             /\ k + f < SAVED_FRAMES /\ past'[k] = past[k + f]
  <2>1. \A k \in 0 .. depth' : /\ k \in Slots /\ k \in Nat /\ k + f \in 0 .. depth
                               /\ k + f < SAVED_FRAMES /\ k + f \in Slots
    BY <1>6, FramesAssumption DEF Slots
  <2>2. QED
    BY <1>3, <2>1
<1>8. RingHoldsPast'
  <2> SUFFICES ASSUME NEW k \in 0 .. depth'
               PROVE  saved_data'[Wrap(saved_data_index' - k)] = past'[k]
    BY DEF RingHoldsPast
  <2>1. Wrap(saved_data_index' - k) = Wrap(saved_data_index - (k + f))
    <3>1. f + k < SAVED_FRAMES /\ k \in Nat
      BY <1>6, <1>7
    <3>2. QED
      BY <1>1, <1>3, <1>6, <3>1, WrapBack DEF RollbackIndex, TypeOK
  <2>2. saved_data[Wrap(saved_data_index - (k + f))] = past[k + f]
    BY <1>5, <1>7 DEF IInv, RingHoldsPast
  <2>3. QED
    BY <1>3, <1>7, <2>1, <2>2
<1>9. ContentsAged'
  <2> SUFFICES ASSUME NEW k \in 0 .. depth', NEW b \in Block, past[k + f][b] \in Contents
               PROVE  /\ b \in listed'
                      /\ has_record'[b] = TRUE
                      /\ free_timer'[b] > 0 => k + free_timer'[b] >= MAX_ROLLBACK_TIMER
                      /\ \A j \in 0 .. k : past'[j][b] # "Absent"
    BY <1>7 DEF ContentsAged, Aged
  <2>1. Aged(k + f, b)
    BY <1>5, <1>7 DEF IInv, ContentsAged
  <2>2. /\ b \in listed /\ has_record[b] = TRUE
        /\ free_timer[b] > 0 => k + f + free_timer[b] >= MAX_ROLLBACK_TIMER
        /\ \A j \in 0 .. k + f : past[j][b] # "Absent"
    BY <2>1 DEF Aged
  <2>3. f \in 0 .. k + f /\ k \in Nat
    BY <1>6, <1>7
  <2>4. b \in seen
    BY <1>5, <2>2, <2>3 DEF Recorded
  <2>5. b \in listed' /\ has_record'[b] = TRUE /\ free_timer'[b] = RolledTimer(b, f)
    BY <1>5, <2>2, <2>4 DEF RollBack
  <2>6. free_timer'[b] > 0 => k + free_timer'[b] >= MAX_ROLLBACK_TIMER
    <3>1. free_timer[b] \in 0 .. MAX_ROLLBACK_TIMER /\ k + f < SAVED_FRAMES
      BY <1>1, <1>7 DEF TypeOK
    <3>2. QED
      BY <1>6, <2>2, <2>3, <2>5, <3>1, RolledTimerAge
  <2>7. ASSUME NEW j \in 0 .. k PROVE past'[j][b] # "Absent"
    <3>1. j \in 0 .. depth' /\ j + f \in 0 .. k + f
      BY <1>6, <2>3
    <3>2. QED
      BY <1>7, <2>2, <3>1
  <2>8. QED
    BY <2>5, <2>6, <2>7
<1>10. QED
  BY <1>8, <1>9

\* Every step keeps the invariant.
LEMMA IInvStep == IInv /\ [Next]_vars => IInv'
<1> SUFFICES ASSUME IInv, [Next]_vars PROVE IInv'
  OBVIOUS
<1>1. TypeOK /\ TypeOK'
  BY TypeStep DEF IInv
<1>2. ASSUME NEW b \in Block, NEW v \in Contents, my_malloc(b, v) PROVE IInv'
  <2>1. \A c \in listed : has_record[c] = TRUE =>
          c \in listed' /\ has_record'[c] = TRUE /\ free_timer'[c] \in {free_timer[c], MAX_ROLLBACK_TIMER}
    BY <1>1, <1>2 DEF my_malloc, TypeOK
  <2>2. QED
    BY <1>1, <1>2, <2>1, SameAges, SameRing DEF my_malloc
<1>3. ASSUME NEW b \in Block, NEW v \in Value, Write(b, v) PROVE IInv'
  <2>1. \A c \in listed : has_record[c] = TRUE =>
          c \in listed' /\ has_record'[c] = TRUE /\ free_timer'[c] \in {free_timer[c], MAX_ROLLBACK_TIMER}
    BY <1>3 DEF Write
  <2>2. QED
    BY <1>1, <1>3, <2>1, SameAges, SameRing DEF Write
<1>4. ASSUME NEW b \in Block, my_free(b) PROVE IInv'
  <2>1. \A c \in listed : has_record[c] = TRUE =>
          c \in listed' /\ has_record'[c] = TRUE /\ free_timer'[c] \in {free_timer[c], MAX_ROLLBACK_TIMER}
    <3>1. CASE has_record[b]
      BY <1>1, <1>4, <3>1 DEF my_free, free_alloc, TypeOK
    <3>2. CASE ~has_record[b]
      <4>1. Release({b})
        BY <1>4, <3>2 DEF my_free, free_alloc
      <4>2. QED
        BY <1>1, <3>2, <4>1 DEF Release, TypeOK
    <3>3. QED
      BY <3>1, <3>2
  <2>2. QED
    BY <1>1, <1>4, <2>1, SameAges, SameRing DEF my_free
<1>5. ASSUME NEW b \in Block, NEW c \in Block, my_realloc(b, c) PROVE IInv'
  <2>1. \A d \in listed : has_record[d] = TRUE =>
          d \in listed' /\ has_record'[d] = TRUE /\ free_timer'[d] \in {free_timer[d], MAX_ROLLBACK_TIMER}
    <3> SUFFICES ASSUME NEW d \in listed, has_record[d] = TRUE
                 PROVE  /\ d \in listed' /\ has_record'[d] = TRUE
                        /\ free_timer'[d] \in {free_timer[d], MAX_ROLLBACK_TIMER}
      OBVIOUS
    <3>1. d # c /\ b # c /\ d \in Block
      BY <1>1, <1>5 DEF my_realloc, TypeOK
    <3>2. CASE d = b
      BY <1>1, <1>5, <3>1, <3>2 DEF my_realloc, TypeOK
    <3>3. CASE d # b
      BY <1>1, <1>5, <3>1, <3>3 DEF my_realloc, TypeOK
    <3>4. QED
      BY <3>2, <3>3
  <2>2. QED
    BY <1>1, <1>5, <2>1, SameAges, SameRing DEF my_realloc
<1>6. CASE tick_allocs
  BY <1>1, <1>6, TickIInv
<1>7. ASSUME NEW n \in 1 .. SAVED_FRAMES, rollback_allocs(n) PROVE IInv'
  BY <1>1, <1>7, RollbackIInv
<1>8. CASE reset_rollback_buffers
  <2>1. depth' = 0 /\ available_frames' = 0 /\ health' = health /\ depth \in Nat
    BY <1>1, <1>8, FramesAssumption DEF reset_rollback_buffers, TypeOK, Slots
  <2>2. 0 \in Slots /\ 0 \in 0 .. depth /\ past'[0] = past[0]
    BY <1>8, <2>1, FramesAssumption DEF reset_rollback_buffers, Slots
  <2>3. \A k \in 0 .. depth' : k = 0
    BY <2>1
  <2>4. health = "good" => RingHoldsPast'
    BY <1>8, <2>2, <2>3 DEF IInv, RingHoldsPast, reset_rollback_buffers
  <2>5. health = "good" => ContentsAged'
    <3> SUFFICES ASSUME health = "good", NEW b \in Block PROVE Aged(0, b)'
      BY <2>3 DEF ContentsAged
    <3>1. Aged(0, b)
      BY <2>2 DEF IInv, ContentsAged
    <3>2. \A j \in 0 .. 0 : j = 0
      OBVIOUS
    <3>3. QED
      BY <1>8, <2>2, <3>1, <3>2 DEF Aged, reset_rollback_buffers, allocVars
  <2>6. QED
    BY <1>1, <2>1, <2>4, <2>5 DEF IInv
<1>9. CASE UNCHANGED vars
  <2>1. UNCHANGED <<listed, free_timer, has_record, depth, past, saved_data,
                    saved_data_index, available_frames, health>>
    BY <1>9 DEF vars, allocVars, ringVars, history
  <2>2. RingHoldsPast => RingHoldsPast'
    BY <2>1 DEF RingHoldsPast
  <2>3. ContentsAged => ContentsAged'
    BY <2>1 DEF ContentsAged, Aged
  <2>4. QED
    BY <1>1, <2>1, <2>2, <2>3 DEF IInv
<1>10. QED
  BY <1>2, <1>3, <1>4, <1>5, <1>6, <1>7, <1>8, <1>9 DEF Next, Rollback

\* The invariant holds in every reachable state.
LEMMA IInvHolds == Spec => []IInv
BY InitIInv, IInvStep, PTL DEF Spec

-----------------------------------------------------------------------------
(* The properties *)

\* For any number of frames and blocks, a block is not released before the last
\* frame with its contents is out of a rollback's reach.
THEOREM BlocksOutliveTheirContents == Spec => []ContentsHaveTheirBlock
<1>1. IInv => ContentsHaveTheirBlock
  BY DEF IInv, ContentsAged, Aged, RingHoldsPast, ContentsHaveTheirBlock
<1>2. QED
  BY <1>1, IInvHolds, PTL

\* A rollback to a frame with at most one record gives back the block it had in use
\* and releases all others, for any number of frames, blocks and contents: the frames
\* saved before and after it may have any number of records.
THEOREM SingleRecordsAreRestored == Spec => SingleRecordRestored
<1> DEFINE Restores ==
      \A n \in 1 .. SAVED_FRAMES :
        rollback_allocs(n) /\ n <= depth /\ health = "good" /\ ~Overlaps(past[n]) /\ health' # "crashed" =>
          \A b \in Block :
            /\ past[n][b] \in Contents =>
                 /\ b \in listed'
                 /\ \/ free_timer'[b] = 0 /\ data'[b] = past[n][b]
                    \/ free_timer'[b] = MAX_ROLLBACK_TIMER
            /\ past[n][b] = "Absent" => b \notin listed'
<1>1. IInv => Restores
  <2> SUFFICES ASSUME IInv, NEW n \in 1 .. SAVED_FRAMES, rollback_allocs(n), n <= depth,
                      health = "good", ~Overlaps(past[n]), health' # "crashed",
                      NEW b \in Block
               PROVE  /\ past[n][b] \in Contents =>
                           /\ b \in listed'
                           /\ \/ free_timer'[b] = 0 /\ data'[b] = past[n][b]
                              \/ free_timer'[b] = MAX_ROLLBACK_TIMER
                      /\ past[n][b] = "Absent" => b \notin listed'
    OBVIOUS
  <2>1. TypeOK /\ depth \in Nat /\ available_frames \in Nat /\ depth < SAVED_FRAMES
    BY FramesAssumption DEF IInv, TypeOK, Slots
  <2>2. AtMost(available_frames, n) = n
    BY <2>1, FramesAssumption DEF IInv, AtMost
  <2>3. saved_data[RollbackIndex(n)] = past[n]
    <3>1. n \in 0 .. depth
      BY <2>1, FramesAssumption
    <3>2. QED
      BY <3>1 DEF IInv, RingHoldsPast, RollbackIndex
  <2>4. WalkRecord(n, past[n])
    BY <2>2, <2>3 DEF rollback_allocs, WalkOverlap
  <2>5. health' = "good"
    <3>1. ~(n > depth)
      BY <2>1, FramesAssumption
    <3>2. QED
      BY <2>4, <3>1 DEF WalkRecord
  <2>6. PICK seen \in SUBSET listed :
          /\ RollBack(n, past[n], seen, {})
          /\ seen = Recorded(past[n]) \cap listed
    BY <2>2, <2>5, RollbackFinds
  <2>7. ASSUME past[n][b] = "Absent" PROVE b \notin listed'
    BY <2>6, <2>7 DEF RollBack, Recorded
  <2>8. ASSUME past[n][b] \in Contents
        PROVE  /\ b \in listed'
               /\ \/ free_timer'[b] = 0 /\ data'[b] = past[n][b]
                  \/ free_timer'[b] = MAX_ROLLBACK_TIMER
    <3>1. n \in 0 .. depth /\ n \in Nat /\ 0 + n < SAVED_FRAMES
      BY <2>1, FramesAssumption
    <3>2. Aged(n, b)
      BY <3>1 DEF IInv, ContentsAged
    <3>3. /\ b \in listed /\ past[n][b] # "Absent"
          /\ free_timer[b] > 0 => 0 + n + free_timer[b] >= MAX_ROLLBACK_TIMER
      BY <2>8, <3>1, <3>2, ValueAssumption DEF Aged, Contents
    <3>4. b \in seen
      BY <2>6, <3>3 DEF Recorded
    <3>5. b \in listed' /\ free_timer'[b] = RolledTimer(b, n)
      BY <2>6, <3>3, <3>4 DEF RollBack
    <3>6. RolledTimer(b, n) \in {0, MAX_ROLLBACK_TIMER}
      BY <2>1, <3>1, <3>3, RolledTimerAge DEF TypeOK
    <3>7. ASSUME RolledTimer(b, n) = 0 PROVE data'[b] = past[n][b]
      BY <2>6, <2>8, <3>4, <3>7 DEF RollBack, Copies
    <3>8. QED
      BY <3>5, <3>6, <3>7
  <2>9. QED
    BY <2>7, <2>8
<1>2. IInv /\ [Next]_vars => [Restores]_vars
  BY <1>1
<1>3. QED
  BY <1>2, IInvHolds, PTL DEF Spec, SingleRecordRestored
=============================================================================
