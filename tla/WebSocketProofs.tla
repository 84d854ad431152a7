--------------------------- MODULE WebSocketProofs ---------------------------
(***************************************************************************)
(* Proofs about the shim's reads for records and buffers of any size.  The *)
(* inductive invariant adds up what a call holds: text copied and bytes    *)
(* that wait fit into one buffer, and with no burst the bytes are a part   *)
(* of the record after the last one opened.                                *)
(***************************************************************************)
EXTENDS WebSocket, TLAPS

\* Each record opened leaves more room than its text takes.
Fits ==
  /\ total_received + received_size <= receive_buffer_size
  /\ total_received > 0 => total_received + received_size < receive_buffer_size
  /\ pc = "recv" => total_received = 0
  /\ pc = "idle" => total_received = 0 /\ received_size = 0

\* The record of the server's close_notify, once opened, is the last one.
Notice == IF opened > 0 /\ opened = notify THEN 1 ELSE 0
Pending == IF total_received > 0 THEN 1 ELSE 0

\* A call that has opened a record holds nothing else.
Kept ==
  ~spoilt =>
    /\ closing = "no"
    /\ opened <= sent
    /\ taken = opened * SIZE + received_size
    /\ received_size <= SIZE
    /\ total_received > 0 => received_size = 0
    /\ opened = handed + Pending + Notice

IInv ==
  /\ TypeOK
  /\ CopyFits
  /\ notify > 0 => notify = sent
  /\ Fits
  /\ Kept

-----------------------------------------------------------------------------
(* The arithmetic of records *)

\* A record starts after as many bytes as the ones before it have.
LEMMA NextRecord ==
  ASSUME NEW k \in Nat
  PROVE  /\ k * SIZE \in Nat
         /\ (k + 1) * SIZE = k * SIZE + SIZE
BY SizesAssumption, SMT

\* More bytes are more records.
LEMMA FewerRecords ==
  ASSUME NEW j \in Nat, NEW k \in Nat, j * SIZE <= k * SIZE
  PROVE  j <= k
<1> SUFFICES ASSUME j > k PROVE FALSE
  BY SMT
<1>1. PICK d \in Nat : j = k + 1 + d
  <2> WITNESS j - k - 1 \in Nat
  <2> QED BY SMT
<1>2. j * SIZE = k * SIZE + SIZE + d * SIZE
  BY <1>1, SizesAssumption, SMT
<1>3. d * SIZE >= 0
  BY SizesAssumption, SMT
<1>4. QED
  BY <1>2, <1>3, SizesAssumption, SMT

-----------------------------------------------------------------------------
(* Types *)

\* The numbers apart from the flags, because the provers treat them apart.
Numbers ==
  /\ sent \in 0 .. RECORDS /\ notify \in 0 .. sent
  /\ taken \in 0 .. sent * SIZE
  /\ pc \in Places
  /\ received_size \in 0 .. receive_buffer_size
  /\ total_received \in 0 .. receive_buffer_size
  /\ opened \in Nat
  /\ closing \in {"no", "shut", "deleted"}
  /\ handed \in Nat

Flags ==
  /\ server_closed \in BOOLEAN
  /\ upgraded \in BOOLEAN
  /\ spoilt \in BOOLEAN
  /\ handed > 0 => upgraded

\* Together they are the types.
LEMMA NumbersAndFlags == TypeOK <=> Numbers /\ Flags
BY DEF TypeOK, Numbers, Flags

\* At first nothing is sent or held.
LEMMA InitIInv == Init => IInv
<1> SUFFICES ASSUME Init PROVE IInv
  OBVIOUS
<1>1. 0 * SIZE = 0
  BY SizesAssumption, SMT
<1>2. Numbers
  BY <1>1, SizesAssumption DEF Init, Numbers, Places
<1>3. Flags
  <2>1. ~(handed > 0)
    BY DEF Init
  <2>2. QED
    BY <2>1 DEF Init, Flags
<1>4. CopyFits /\ (notify > 0 => notify = sent)
  BY DEF Init, CopyFits
<1>5. Fits
  BY SizesAssumption DEF Init, Fits
<1>6. Kept
  <2>1. Pending = 0 /\ Notice = 0
    BY DEF Init, Pending, Notice
  <2>2. QED
    BY <1>1, <2>1, SizesAssumption DEF Init, Kept
<1>7. QED
  BY <1>2, <1>3, <1>4, <1>5, <1>6, NumbersAndFlags DEF IInv

-----------------------------------------------------------------------------
(* The steps *)

\* A call that ends hands over one text or none.
LEMMA ReturnKeeps ==
  ASSUME IInv, NEW total \in 0 .. receive_buffer_size, Return(total),
         total > 0 => total < receive_buffer_size
  PROVE  /\ received_size' = 0 /\ total_received' = 0 /\ pc' = "idle"
         /\ handed' \in Nat /\ upgraded' \in BOOLEAN /\ spoilt' \in BOOLEAN
         /\ handed' > 0 => upgraded'
         /\ ~spoilt' => ~spoilt /\ handed' = handed + (IF total > 0 THEN 1 ELSE 0)
<1>1. Numbers /\ Flags
  BY NumbersAndFlags DEF IInv
<1>2. received_size' = 0 /\ total_received' = 0
  BY DEF Return
<1>3. total # receive_buffer_size
  BY SizesAssumption
<1>4. pc' = "idle"
  BY <1>3 DEF Return
<1>5. handed' \in Nat /\ (total = 0 => handed' = handed)
  BY <1>1 DEF Return, Numbers
<1>6. upgraded' \in BOOLEAN /\ spoilt' \in BOOLEAN
  BY <1>1 DEF Return, Flags
<1>7. handed' > 0 => upgraded'
  <2>1. CASE total > 0
    BY <2>1 DEF Return
  <2>2. CASE ~(total > 0)
    <3>1. handed' = handed
      BY <1>5, <2>2
    <3>2. upgraded' = upgraded
      BY <2>2, <1>1 DEF Return, Flags
    <3>3. QED
      BY <1>1, <3>1, <3>2 DEF Flags
  <2>3. QED
    BY <2>1, <2>2
<1>8. ~spoilt' => ~spoilt /\ handed' = handed + (IF total > 0 THEN 1 ELSE 0)
  BY <1>1 DEF Return, Flags, Numbers
<1>9. QED
  BY <1>2, <1>4, <1>5, <1>6, <1>7, <1>8

\* A record sent comes after those opened.
LEMMA SendKeeps == IInv /\ Send => IInv'
<1> SUFFICES ASSUME IInv, Send PROVE IInv'
  OBVIOUS
<1> USE DEF Send, local
<1>1. Numbers /\ Flags
  BY NumbersAndFlags DEF IInv
<1>2. sent' * SIZE = sent * SIZE + SIZE /\ sent * SIZE \in Nat
  BY <1>1, NextRecord DEF Numbers
<1>3. Numbers'
  BY <1>1, <1>2, SizesAssumption DEF Numbers
<1>4. Flags'
  BY <1>1 DEF Flags
<1>5. CopyFits' /\ Fits'
  BY DEF IInv, CopyFits, Fits
<1>6. notify' > 0 => notify' = sent'
  BY <1>1 DEF Numbers
<1>7. Kept'
  <2>1. CASE spoilt
    BY <2>1 DEF Kept
  <2>2. CASE ~spoilt
    <3>1. opened <= sent /\ notify = 0 /\ notify' \in {0, sent + 1} /\ opened' = opened
      BY <2>2 DEF IInv, Kept
    <3>2. Notice' = 0 /\ Notice = 0
      BY <1>1, <3>1 DEF Notice, Numbers
    <3>3. Pending' = Pending
      BY DEF Pending
    <3>4. QED
      BY <1>1, <2>2, <3>1, <3>2, <3>3 DEF IInv, Kept, Numbers
  <2>3. QED
    BY <2>1, <2>2
<1>8. QED
  BY <1>3, <1>4, <1>5, <1>6, <1>7 DEF IInv, TypeOK, Numbers, Flags

\* The end of a connection, the start of a call and the steps of a close disturb
\* no count.
LEMMA OthersKeep == IInv /\ (ServerCloses \/ Call \/ CloseShutdown \/ CloseDeletes) => IInv'
<1> SUFFICES ASSUME IInv, ServerCloses \/ Call \/ CloseShutdown \/ CloseDeletes PROVE IInv'
  OBVIOUS
<1> USE DEF ServerCloses, Call, CloseShutdown, CloseDeletes, local, server
<1>1. Numbers /\ Flags
  BY NumbersAndFlags DEF IInv
<1>2. Numbers'
  BY <1>1 DEF Numbers, Places
<1>3. Flags'
  BY <1>1 DEF Flags
<1>4. CopyFits' /\ (notify' > 0 => notify' = sent')
  BY DEF IInv, CopyFits
<1>5. Fits'
  BY DEF IInv, Fits
<1>6. Kept'
  <2>1. Pending' = Pending /\ Notice' = Notice
    BY DEF Pending, Notice
  <2>2. ~spoilt' => ~spoilt /\ closing' = closing
    BY <1>1 DEF IInv, Kept, Flags
  <2>3. QED
    BY <1>1, <2>1, <2>2 DEF IInv, Kept
<1>7. QED
  BY <1>2, <1>3, <1>4, <1>5, <1>6 DEF IInv, TypeOK, Numbers, Flags

\* Bytes are taken while no text is held, and without a burst they stay within the
\* next record.
LEMMA RecvKeeps == IInv /\ Recv => IInv'
<1> SUFFICES ASSUME IInv, Recv PROVE IInv'
  OBVIOUS
<1> USE DEF Recv, server
<1>1. Numbers /\ Flags
  BY NumbersAndFlags DEF IInv
<1>2. PICK n \in 1 .. receive_buffer_size - received_size : taken + n <= sent * SIZE /\ Take(n)
  OBVIOUS
<1>3. taken' = taken + n /\ received_size' = received_size + n
  BY <1>2 DEF Take
<1>4. sent * SIZE \in Nat
  BY <1>1, NextRecord DEF Numbers
<1>5. Numbers'
  BY <1>1, <1>2, <1>3, <1>4, SizesAssumption DEF Numbers, Places
<1>6. Flags'
  BY <1>1, <1>2 DEF Flags, Take
<1>7. CopyFits' /\ (notify' > 0 => notify' = sent')
  BY DEF IInv, CopyFits
<1>8. Fits'
  BY <1>1, <1>2, <1>3, SizesAssumption DEF IInv, Fits, Numbers
<1>9. Kept'
  <2>1. ~spoilt' => ~spoilt /\ ~(taken + n > (opened + 1) * SIZE)
    BY <1>2, Zenon DEF Take
  <2>2. (opened + 1) * SIZE = opened * SIZE + SIZE /\ opened * SIZE \in Nat
    BY <1>1, NextRecord DEF Numbers
  <2>3. Pending' = Pending /\ Notice' = Notice
    BY DEF Pending, Notice
  <2>4. total_received = 0
    BY DEF IInv, Fits
  <2>5. QED
    BY <1>1, <1>3, <2>1, <2>2, <2>3, <2>4, SizesAssumption DEF IInv, Kept, Numbers
<1>10. QED
  BY <1>5, <1>6, <1>7, <1>8, <1>9 DEF IInv, TypeOK, Numbers, Flags

\* A call that the end of the connection cuts short holds nothing any more.
LEMMA RecvEndsKeeps == IInv /\ RecvEnds => IInv'
<1> SUFFICES ASSUME IInv, RecvEnds PROVE IInv'
  OBVIOUS
<1> USE DEF RecvEnds, server
<1>1. Numbers /\ Flags
  BY NumbersAndFlags DEF IInv
<1>2. Numbers'
  BY <1>1, SizesAssumption DEF Numbers, Places
<1>3. Flags'
  BY <1>1 DEF Flags
<1>4. CopyFits' /\ (notify' > 0 => notify' = sent') /\ Fits'
  BY SizesAssumption DEF IInv, CopyFits, Fits
<1>5. Kept'
  <2>1. ~spoilt' => ~spoilt /\ ~(received_size > 0)
    BY Zenon
  <2>2. received_size' = 0 /\ total_received' = 0 /\ total_received = 0
    BY DEF IInv, Fits
  <2>3. Notice' = Notice /\ Pending' = Pending
    BY <2>2 DEF Notice, Pending
  <2>4. QED
    BY <1>1, <2>1, <2>2, <2>3, SizesAssumption DEF IInv, Kept, Numbers
<1>6. QED
  BY <1>2, <1>3, <1>4, <1>5 DEF IInv, TypeOK, Numbers, Flags

\* The text of a record that is held always fits beside the text already copied.
LEMMA CopyCopies ==
  ASSUME IInv, pc = "decrypt", received_size >= SIZE, Copy
  PROVE  /\ total_received' = total_received + TEXT
         /\ pc' = pc
         /\ total_received + TEXT + received_size - SIZE < receive_buffer_size
<1>1. Numbers
  BY NumbersAndFlags DEF IInv
<1>2. total_received + received_size <= receive_buffer_size
  BY DEF IInv, Fits
<1>3. TEXT <= receive_buffer_size - total_received
  BY <1>1, <1>2, SizesAssumption DEF Numbers
<1>4. total_received' = total_received + TEXT /\ pc' = pc
  BY <1>3 DEF Copy
<1>5. QED
  BY <1>1, <1>2, <1>4, SizesAssumption DEF Numbers

\* Opening a record turns its bytes into less text.
LEMMA DecryptOkKeeps == IInv /\ DecryptOk => IInv'
<1> SUFFICES ASSUME IInv, DecryptOk PROVE IInv'
  OBVIOUS
<1> USE DEF DecryptOk, server
<1>1. Numbers /\ Flags
  BY NumbersAndFlags DEF IInv
<1>2. received_size >= SIZE /\ taken - received_size = opened * SIZE /\ Copy
  BY DEF Whole, Start
<1>3. /\ total_received' = total_received + TEXT
      /\ pc' = pc
      /\ total_received + TEXT + received_size - SIZE < receive_buffer_size
  BY <1>2, CopyCopies
<1>4. received_size' = received_size - SIZE
  OBVIOUS
<1>5. Numbers'
  BY <1>1, <1>2, <1>3, <1>4, SizesAssumption DEF Numbers, Places
<1>6. Flags'
  BY <1>1 DEF Flags
<1>7. CopyFits' /\ (notify' > 0 => notify' = sent')
  BY <1>3 DEF IInv, CopyFits
<1>8. Fits'
  BY <1>1, <1>3, <1>4, SizesAssumption DEF Fits, Numbers
<1>9. Kept'
  <2>1. CASE spoilt
    BY <2>1 DEF Kept
  <2>2. CASE ~spoilt
    <3>1. /\ closing = "no" /\ taken = opened * SIZE + received_size /\ received_size <= SIZE
          /\ total_received > 0 => received_size = 0
          /\ opened = handed + Pending + Notice
      BY <2>2 DEF IInv, Kept
    <3>2. received_size = SIZE /\ total_received = 0
      BY <1>1, <1>2, <3>1, SizesAssumption DEF Numbers
    <3>3. (opened + 1) * SIZE = opened * SIZE + SIZE /\ opened * SIZE \in Nat
      BY <1>1, NextRecord DEF Numbers
    <3>4. opened + 1 <= sent
      <4>1. (opened + 1) * SIZE <= sent * SIZE
        BY <1>1, <3>1, <3>2, <3>3, SizesAssumption DEF Numbers
      <4>2. QED
        BY <1>1, <4>1, FewerRecords DEF Numbers
    <3>5. notify = 0 \/ notify = sent
      BY <1>1 DEF IInv, Numbers
    <3>6. Notice = 0 /\ Notice' = 0
      BY <1>1, <3>4, <3>5 DEF Notice, Numbers
    <3>7. Pending = 0 /\ Pending' = 1
      BY <1>3, <3>2, SizesAssumption DEF Pending
    <3>8. opened' = opened + 1 /\ closing' = closing /\ taken' = taken
      OBVIOUS
    <3>9. QED
      BY <1>1, <1>4, <3>1, <3>2, <3>3, <3>4, <3>6, <3>7, <3>8, SizesAssumption DEF Kept, Numbers
  <2>3. QED
    BY <2>1, <2>2
<1>10. QED
  BY <1>5, <1>6, <1>7, <1>8, <1>9 DEF IInv, TypeOK, Numbers, Flags

\* The close_notify ends a call that holds nothing else.
LEMMA DecryptExpiredKeeps == IInv /\ DecryptExpired => IInv'
<1> SUFFICES ASSUME IInv, DecryptExpired PROVE IInv'
  OBVIOUS
<1> USE DEF DecryptExpired, server
<1>1. Numbers /\ Flags
  BY NumbersAndFlags DEF IInv
<1>2. total_received > 0 => total_received < receive_buffer_size
  <2>1. total_received > 0 => total_received + received_size < receive_buffer_size
    BY DEF IInv, Fits
  <2>2. QED
    BY <1>1, <2>1, SizesAssumption DEF Numbers
<1>3. /\ received_size' = 0 /\ total_received' = 0 /\ pc' = "idle"
      /\ handed' \in Nat /\ upgraded' \in BOOLEAN /\ spoilt' \in BOOLEAN
      /\ handed' > 0 => upgraded'
      /\ ~spoilt' => ~spoilt /\ handed' = handed + (IF total_received > 0 THEN 1 ELSE 0)
  BY <1>1, <1>2, ReturnKeeps DEF Numbers
<1>4. Numbers'
  BY <1>1, <1>3, SizesAssumption DEF Numbers, Places
<1>5. Flags'
  BY <1>1, <1>3 DEF Flags
<1>6. CopyFits' /\ (notify' > 0 => notify' = sent')
  BY <1>3 DEF IInv, CopyFits
<1>7. Fits'
  BY <1>3, SizesAssumption DEF Fits
<1>8. Kept'
  <2>1. CASE spoilt'
    BY <2>1 DEF Kept
  <2>2. CASE ~spoilt'
    <3>1. /\ closing = "no" /\ taken = opened * SIZE + received_size /\ received_size <= SIZE
          /\ total_received > 0 => received_size = 0
          /\ opened = handed + Pending + Notice
      BY <1>3, <2>2 DEF IInv, Kept
    <3>2. received_size = SIZE /\ total_received = 0
      BY <1>1, <3>1, SizesAssumption DEF Numbers, Whole
    <3>3. (opened + 1) * SIZE = opened * SIZE + SIZE /\ opened * SIZE \in Nat
      BY <1>1, NextRecord DEF Numbers
    <3>4. opened + 1 = notify /\ opened + 1 <= sent
      BY <1>1 DEF Numbers
    <3>5. Notice = 0 /\ Notice' = 1
      BY <1>1, <3>4 DEF Notice, Numbers
    <3>6. Pending = 0 /\ Pending' = 0
      BY <1>3, <3>2 DEF Pending
    <3>7. handed' = handed
      BY <1>1, <1>3, <2>2, <3>2 DEF Numbers
    <3>8. opened' = opened + 1 /\ closing' = closing /\ taken' = taken /\ sent' = sent
      OBVIOUS
    <3>9. QED
      BY <1>1, <1>3, <3>1, <3>2, <3>3, <3>4, <3>5, <3>6, <3>7, <3>8, SizesAssumption
         DEF Kept, Numbers
  <2>3. QED
    BY <2>1, <2>2
<1>9. QED
  BY <1>4, <1>5, <1>6, <1>7, <1>8 DEF IInv, TypeOK, Numbers, Flags

\* What a call holds starts a record, unless something was lost before.
LEMMA HeldIsAligned ==
  ASSUME IInv, ~spoilt
  PROVE  /\ Aligned
         /\ received_size >= SIZE => Whole
<1>1. Numbers
  BY NumbersAndFlags DEF IInv
<1>2. closing = "no" /\ opened <= sent /\ taken = opened * SIZE + received_size
  BY DEF IInv, Kept
<1>3. opened * SIZE \in Nat
  BY <1>1, NextRecord DEF Numbers
<1>4. Start = opened * SIZE
  BY <1>1, <1>2, <1>3 DEF Start, Numbers
<1>5. opened \in 0 .. RECORDS
  BY <1>1, <1>2, SizesAssumption DEF Numbers
<1>6. QED
  BY <1>2, <1>4, <1>5 DEF Aligned, Whole

\* A status that is neither success nor an end of the connection loses what the call
\* holds, which only a record of another kind does to a connection still whole.
LEMMA DecryptFailsKeeps == IInv /\ DecryptFails => IInv'
<1> SUFFICES ASSUME IInv, DecryptFails PROVE IInv'
  OBVIOUS
<1> USE DEF DecryptFails, server
<1>1. Numbers /\ Flags
  BY NumbersAndFlags DEF IInv
<1>2. Numbers'
  BY <1>1, SizesAssumption DEF Numbers, Places
<1>3. Flags'
  BY <1>1 DEF Flags
<1>4. CopyFits' /\ (notify' > 0 => notify' = sent') /\ Fits'
  BY SizesAssumption DEF IInv, CopyFits, Fits
<1>5. Kept'
  <2>1. CASE spoilt
    BY <2>1 DEF Kept
  <2>2. CASE ~spoilt
    <3>1. Whole \/ closing # "no"
      BY <2>2, HeldIsAligned
    <3>2. QED
      BY <3>1 DEF Kept
  <2>3. QED
    BY <2>1, <2>2
<1>6. QED
  BY <1>2, <1>3, <1>4, <1>5 DEF IInv, TypeOK, Numbers, Flags

\* A call returns its text, or waits for the rest of a record.
LEMMA DrainKeeps == IInv /\ Drain => IInv'
<1> SUFFICES ASSUME IInv, Drain PROVE IInv'
  OBVIOUS
<1> USE DEF server
<1>1. Numbers /\ Flags
  BY NumbersAndFlags DEF IInv
<1>2. /\ pc = "decrypt" /\ Drained
      /\ sent' = sent /\ notify' = notify /\ server_closed' = server_closed
      /\ taken' = taken /\ opened' = opened /\ closing' = closing
  BY DEF Drain
<1>3. total_received > 0 => total_received < receive_buffer_size
  <2>1. total_received > 0 => total_received + received_size < receive_buffer_size
    BY DEF IInv, Fits
  <2>2. QED
    BY <1>1, <2>1, SizesAssumption DEF Numbers
<1>4. Notice' = Notice
  BY <1>2 DEF Notice
<1>5. ~spoilt => received_size < SIZE
  <2>1. ~spoilt => Aligned
    BY HeldIsAligned
  <2>2. QED
    BY <1>2, <2>1, SizesAssumption DEF Drained
<1>6. ASSUME NEW total \in 0 .. receive_buffer_size, Return(total), total = total_received,
             total = 0 => received_size = receive_buffer_size
      PROVE  IInv'
  <2>1. /\ received_size' = 0 /\ total_received' = 0 /\ pc' = "idle"
        /\ handed' \in Nat /\ upgraded' \in BOOLEAN /\ spoilt' \in BOOLEAN
        /\ handed' > 0 => upgraded'
        /\ ~spoilt' => ~spoilt /\ handed' = handed + (IF total > 0 THEN 1 ELSE 0)
    BY <1>3, <1>6, ReturnKeeps
  <2>2. Numbers'
    BY <1>1, <1>2, <2>1, SizesAssumption DEF Numbers, Places
  <2>3. Flags'
    BY <1>1, <1>2, <2>1 DEF Flags
  <2>4. CopyFits' /\ (notify' > 0 => notify' = sent')
    BY <1>2, <2>1 DEF IInv, CopyFits
  <2>5. Fits'
    BY <2>1, SizesAssumption DEF Fits
  <2>6. Kept'
    <3>1. CASE spoilt'
      BY <3>1 DEF Kept
    <3>2. CASE ~spoilt'
      <4>1. /\ closing = "no" /\ opened <= sent /\ taken = opened * SIZE + received_size
            /\ total_received > 0 => received_size = 0
            /\ opened = handed + Pending + Notice
            /\ received_size < SIZE
        BY <1>5, <2>1, <3>2 DEF IInv, Kept
      <4>2. total_received > 0 /\ received_size = 0
        BY <1>1, <1>6, <4>1, SizesAssumption DEF Numbers
      <4>3. handed' = handed + 1
        BY <1>6, <2>1, <3>2, <4>2
      <4>4. Pending = 1 /\ Pending' = 0
        BY <2>1, <4>2 DEF Pending
      <4>5. QED
        BY <1>1, <1>2, <1>4, <2>1, <4>1, <4>2, <4>3, <4>4, SizesAssumption DEF Kept, Numbers
    <3>3. QED
      BY <3>1, <3>2
  <2>7. QED
    BY <2>2, <2>3, <2>4, <2>5, <2>6 DEF IInv, TypeOK, Numbers, Flags
<1>7. ASSUME total_received = 0, pc' = "recv",
             UNCHANGED <<received_size, total_received, upgraded, handed, spoilt>>
      PROVE  IInv'
  <2>1. Numbers'
    BY <1>1, <1>2, <1>7 DEF Numbers, Places
  <2>2. Flags'
    BY <1>1, <1>2, <1>7 DEF Flags
  <2>3. CopyFits' /\ (notify' > 0 => notify' = sent')
    BY <1>2, <1>7 DEF IInv, CopyFits
  <2>4. Fits'
    BY <1>7 DEF IInv, Fits
  <2>5. Kept'
    <3>1. Pending' = Pending
      BY <1>7 DEF Pending
    <3>2. QED
      BY <1>1, <1>2, <1>4, <1>7, <3>1 DEF IInv, Kept
  <2>6. QED
    BY <2>1, <2>2, <2>3, <2>4, <2>5 DEF IInv, TypeOK, Numbers, Flags
<1>8. CASE total_received > 0
  BY <1>1, <1>6, <1>8 DEF Drain, Numbers
<1>9. CASE ~(total_received > 0)
  <2>1. total_received = 0
    BY <1>1, <1>9 DEF Numbers
  <2>2. CASE received_size = receive_buffer_size
    BY <1>6, <1>9, <2>1, <2>2, SizesAssumption DEF Drain
  <2>3. CASE received_size # receive_buffer_size
    BY <1>7, <1>9, <2>1, <2>3 DEF Drain
  <2>4. QED
    BY <2>2, <2>3
<1>10. QED
  BY <1>8, <1>9

-----------------------------------------------------------------------------
(* The theorems *)

\* Every step keeps the invariant.
LEMMA IInvStep == IInv /\ [Next]_vars => IInv'
<1> SUFFICES ASSUME IInv, [Next]_vars PROVE IInv'
  OBVIOUS
<1>1. CASE Next
  BY <1>1, SendKeeps, OthersKeep, RecvKeeps, RecvEndsKeeps, DecryptOkKeeps, DecryptExpiredKeeps,
     DecryptFailsKeeps, DrainKeeps DEF Next, read_from_socket
<1>2. CASE UNCHANGED vars
  BY <1>2 DEF vars, server, IInv, TypeOK, CopyFits, Fits, Kept, Pending, Notice
<1>3. QED
  BY <1>1, <1>2

\* So it holds in every state.
LEMMA Invariance == Spec => []IInv
BY InitIInv, IInvStep, PTL DEF Spec

\* packet_buffer and recv_buffer are never written past their ends, and no message
\* is handed over before the answer to the upgrade.
THEOREM TypeCorrect == Spec => []TypeOK
<1>1. IInv => TypeOK
  BY DEF IInv
<1>2. QED
  BY <1>1, Invariance, PTL

\* The copying loop always ends and never fills recv_buffer, whatever the sizes of
\* records and however TCP cuts them.
THEOREM CopiesFit == Spec => []CopyFits
<1>1. IInv => CopyFits
  BY DEF IInv
<1>2. QED
  BY <1>1, Invariance, PTL

\* With one record to a call, every byte taken belongs to an answer or message handed
\* to the game.
THEOREM NothingIsLeftBehind == Spec => []NothingLeftBehind
<1>1. IInv => NothingLeftBehind
  <2> SUFFICES ASSUME IInv, pc = "idle", ~spoilt
               PROVE  /\ taken = opened * SIZE
                      /\ opened = handed + Notice
    BY DEF NothingLeftBehind, Notice
  <2>1. Numbers
    BY NumbersAndFlags DEF IInv
  <2>2. total_received = 0 /\ received_size = 0
    BY DEF IInv, Fits
  <2>3. taken = opened * SIZE + received_size /\ opened = handed + Pending + Notice
    BY DEF IInv, Kept
  <2>4. Pending = 0 /\ Notice \in {0, 1}
    BY <2>2 DEF Pending, Notice
  <2>5. opened * SIZE \in Nat
    BY <2>1, NextRecord DEF Numbers
  <2>6. QED
    BY <2>1, <2>2, <2>3, <2>4, <2>5 DEF Numbers
<1>2. QED
  BY <1>1, Invariance, PTL

-----------------------------------------------------------------------------
(* The channel *)

\* Bursts, failures and closes included: a text held or handed over came out of a
\* record that was opened, and that record was not the close_notify.
Ledger == opened <= sent /\ handed + Pending + Notice <= opened

\* The numbers a message can be counted by.
LEMMA LedgerTypes ==
  ASSUME IInv
  PROVE  /\ sent \in Nat /\ notify \in Nat /\ opened \in Nat /\ handed \in Nat
         /\ Pending \in {0, 1} /\ Notice \in {0, 1}
         /\ notify = 0 \/ notify = sent
         /\ spoilt \in BOOLEAN
<1>1. Numbers /\ Flags
  BY NumbersAndFlags DEF IInv
<1>2. QED
  BY <1>1, SizesAssumption DEF IInv, Numbers, Flags, Pending, Notice

\* Pending after a step.
LEMMA PendingType == Pending' \in {0, 1} /\ Notice' \in {0, 1}
BY DEF Pending, Notice

\* A record DecryptMessage sees complete was sent.
LEMMA OpenedWasSent ==
  ASSUME IInv, Whole
  PROVE  opened + 1 <= sent
<1>1. Numbers
  BY NumbersAndFlags DEF IInv
<1>2. taken - received_size = opened * SIZE /\ received_size >= SIZE
  BY DEF Whole, Start
<1>3. opened * SIZE \in Nat /\ sent * SIZE \in Nat /\ (opened + 1) * SIZE = opened * SIZE + SIZE
  BY <1>1, NextRecord DEF Numbers
<1>4. (opened + 1) * SIZE <= sent * SIZE
  BY <1>1, <1>2, <1>3, SizesAssumption DEF Numbers
<1>5. QED
  BY <1>1, <1>4, FewerRecords DEF Numbers

\* The game is never ahead of the server.
LEMMA LedgerBounds ==
  ASSUME IInv, Ledger
  PROVE  Messages \in Nat /\ handed + Pending <= Messages
BY LedgerTypes DEF Ledger, Messages, Notice

\* What a step of the shim is to the channel.
ChannelStep == [Channel!Write \/ Channel!Read \/ Channel!Break]_Channel!channelVars

\* A flag that is only ever set.
LEMMA FlagSet ==
  ASSUME NEW p \in BOOLEAN, NEW q \in BOOLEAN, p => q, q # p
  PROVE  ~p /\ q = TRUE
<1>1. CASE p = TRUE
  <2>1. q = TRUE
    BY <1>1
  <2>2. QED
    BY <1>1, <2>1
<1>2. CASE p = FALSE
  BY <1>2
<1>3. QED
  BY <1>1, <1>2

\* A step that opens and hands over nothing at most breaks the channel.
LEMMA QuietStep ==
  ASSUME IInv, IInv', Ledger, UNCHANGED <<sent, notify, opened, handed>>, Pending' <= Pending,
         spoilt => spoilt'
  PROVE  Ledger' /\ ChannelStep
<1>1. Notice' = Notice /\ Messages' = Messages
  BY DEF Notice, Messages
<1>2. Ledger'
  BY <1>1, LedgerTypes, PendingType DEF Ledger
<1>3. CASE spoilt' = spoilt
  BY <1>1, <1>2, <1>3 DEF ChannelStep, Channel!channelVars
<1>4. CASE spoilt' # spoilt
  <2>1. ~spoilt /\ spoilt' = TRUE
    <3>1. spoilt \in BOOLEAN /\ spoilt' \in BOOLEAN
      BY DEF IInv, TypeOK
    <3>2. QED
      BY <1>4, <3>1, FlagSet, Zenon
  <2>2. QED
    BY <1>1, <1>2, <2>1 DEF ChannelStep, Channel!Break
<1>5. QED
  BY <1>2, <1>3, <1>4

\* A call that ends hands over at most the text it holds.
LEMMA ReturnHands ==
  ASSUME IInv, Return(total_received)
  PROVE  /\ Pending' = 0
         /\ handed' = handed \/ (handed' = handed + Pending /\ spoilt' = spoilt)
         /\ spoilt => spoilt'
<1>1. Numbers /\ Flags
  BY NumbersAndFlags DEF IInv
<1>2. Pending' = 0
  BY DEF Return, Pending
<1>3. handed' = handed \/ (handed' = handed + Pending /\ spoilt' = spoilt)
  <2>1. total_received \in Nat /\ handed \in Nat
    BY <1>1, SizesAssumption DEF Numbers
  <2>2. CASE total_received > 0
    <3>1. Pending = 1
      BY <2>2 DEF Pending
    <3>2. handed' = handed \/ (handed' = handed + 1 /\ spoilt' = spoilt)
      BY <2>2, Zenon DEF Return
    <3>3. QED
      BY <3>1, <3>2, Zenon
  <2>3. CASE ~(total_received > 0)
    BY <2>1, <2>3 DEF Return, Pending
  <2>4. QED
    BY <2>2, <2>3
<1>4. spoilt => spoilt'
  BY DEF Return
<1>5. QED
  BY <1>2, <1>3, <1>4

\* A record sent is a message, or the close_notify.
LEMMA SendIsWrite == IInv /\ IInv' /\ Ledger /\ Send => Ledger' /\ ChannelStep
<1> SUFFICES ASSUME IInv, IInv', Ledger, Send PROVE Ledger' /\ ChannelStep
  OBVIOUS
<1>1. /\ sent' = sent + 1 /\ notify = 0 /\ notify' \in {0, sent + 1}
      /\ opened' = opened /\ handed' = handed /\ spoilt' = spoilt
      /\ total_received' = total_received
  BY DEF Send, local
<1>2. Pending' = Pending
  BY <1>1 DEF Pending
<1>3. Notice = 0 /\ Notice' = 0
  BY <1>1, LedgerTypes DEF Ledger, Notice
<1>4. Ledger'
  BY <1>1, <1>2, <1>3, LedgerTypes DEF Ledger
<1>5. CASE notify' = 0
  <2>1. Messages' = Messages + 1
    BY <1>1, <1>5 DEF Messages
  <2>2. QED
    BY <1>1, <1>4, <2>1 DEF ChannelStep, Channel!Write
<1>6. CASE notify' = sent + 1
  <2>1. Messages' = Messages
    BY <1>1, <1>6, LedgerTypes DEF Messages
  <2>2. QED
    BY <1>1, <1>4, <2>1 DEF ChannelStep, Channel!channelVars
<1>7. QED
  BY <1>1, <1>5, <1>6

\* The steps that open no record and return nothing.
LEMMA OthersAreQuiet ==
  IInv /\ IInv' /\ Ledger
    /\ (ServerCloses \/ Call \/ CloseShutdown \/ CloseDeletes \/ Recv \/ RecvEnds \/ DecryptFails)
  => Ledger' /\ ChannelStep
<1> SUFFICES ASSUME IInv, IInv', Ledger,
                    ServerCloses \/ Call \/ CloseShutdown \/ CloseDeletes \/ Recv \/ RecvEnds
                      \/ DecryptFails
             PROVE  Ledger' /\ ChannelStep
  OBVIOUS
<1>1. UNCHANGED <<sent, notify, opened, handed>>
  BY DEF ServerCloses, Call, CloseShutdown, CloseDeletes, Recv, RecvEnds, DecryptFails, server,
         local
<1>2. total_received' = total_received \/ total_received' = 0
  BY DEF ServerCloses, Call, CloseShutdown, CloseDeletes, Recv, RecvEnds, DecryptFails, local
<1>3. Pending' <= Pending
  BY <1>2 DEF Pending
<1>4. spoilt => spoilt'
  BY DEF ServerCloses, Call, CloseShutdown, CloseDeletes, Recv, RecvEnds, DecryptFails, Take
<1>5. QED
  BY <1>1, <1>3, <1>4, QuietStep

\* A record that opens is complete, so it was sent, and it is no notice.
LEMMA DecryptOkIsQuiet == IInv /\ IInv' /\ Ledger /\ DecryptOk => Ledger' /\ ChannelStep
<1> SUFFICES ASSUME IInv, IInv', Ledger, DecryptOk PROVE Ledger' /\ ChannelStep
  OBVIOUS
<1>1. /\ opened' = opened + 1 /\ opened + 1 # notify
      /\ sent' = sent /\ notify' = notify /\ handed' = handed /\ spoilt' = spoilt
  BY DEF DecryptOk, server
<1>2. opened + 1 <= sent
  BY OpenedWasSent DEF DecryptOk
<1>3. Notice = 0 /\ Notice' = 0
  BY <1>1, <1>2, LedgerTypes DEF Notice
<1>4. Ledger'
  BY <1>1, <1>2, <1>3, LedgerTypes DEF Ledger, Pending
<1>5. Messages' = Messages
  BY <1>1 DEF Messages
<1>6. QED
  BY <1>1, <1>4, <1>5 DEF ChannelStep, Channel!channelVars

\* The end of a call hands over the text it holds.
LEMMA ReturnIsRead ==
  ASSUME IInv, IInv', Ledger, Return(total_received), UNCHANGED <<sent, notify>>,
         \/ opened' = opened
         \/ opened' = opened + 1 /\ opened + 1 = notify
  PROVE  Ledger' /\ ChannelStep
<1>1. /\ Pending' = 0
      /\ handed' = handed \/ (handed' = handed + Pending /\ spoilt' = spoilt)
      /\ spoilt => spoilt'
  BY ReturnHands
<1>2. opened' <= sent /\ Notice' + opened <= opened' + Notice
  BY LedgerTypes DEF Ledger, Notice
<1>3. Ledger'
  BY <1>1, <1>2, LedgerTypes, PendingType DEF Ledger
<1>4. Messages' = Messages
  BY DEF Messages
<1>5. CASE handed' = handed /\ spoilt' = spoilt
  BY <1>3, <1>4, <1>5 DEF ChannelStep, Channel!channelVars
<1>6. CASE handed' = handed /\ spoilt' # spoilt
  <2>1. ~spoilt /\ spoilt' = TRUE
    <3>1. spoilt \in BOOLEAN /\ spoilt' \in BOOLEAN
      BY DEF IInv, TypeOK
    <3>2. QED
      BY <1>1, <1>6, <3>1, FlagSet, Zenon
  <2>2. QED
    BY <1>3, <1>4, <1>6, <2>1 DEF ChannelStep, Channel!Break
<1>7. CASE handed' # handed
  <2>1. handed' = handed + 1 /\ Pending = 1 /\ spoilt' = spoilt
    BY <1>1, <1>7, LedgerTypes
  <2>2. handed < Messages
    BY <2>1, LedgerBounds, LedgerTypes
  <2>3. QED
    BY <1>3, <1>4, <2>1, <2>2 DEF ChannelStep, Channel!Read
<1>8. QED
  BY <1>3, <1>5, <1>6, <1>7

\* Every step of the shim is a step of the channel, or none.
LEMMA LedgerStep == IInv /\ IInv' /\ Ledger /\ [Next]_vars => Ledger' /\ ChannelStep
<1> SUFFICES ASSUME IInv, IInv', Ledger, [Next]_vars PROVE Ledger' /\ ChannelStep
  OBVIOUS
<1>1. CASE DecryptExpired
  BY <1>1, ReturnIsRead DEF DecryptExpired, server
<1>2. CASE Drain
  <2>1. UNCHANGED <<sent, notify, opened>>
    BY <1>2 DEF Drain, server
  <2>2. \/ Return(total_received)
        \/ UNCHANGED <<total_received, handed, spoilt>>
    <3>1. total_received \in Nat
      BY NumbersAndFlags, SizesAssumption DEF IInv, Numbers
    <3>2. CASE total_received > 0
      BY <1>2, <3>2 DEF Drain
    <3>3. CASE total_received = 0
      BY <1>2, <3>3 DEF Drain
    <3>4. QED
      BY <3>1, <3>2, <3>3
  <2>3. CASE Return(total_received)
    BY <2>1, <2>3, ReturnIsRead
  <2>4. CASE UNCHANGED <<total_received, handed, spoilt>>
    BY <2>1, <2>4, QuietStep DEF Pending
  <2>5. QED
    BY <2>2, <2>3, <2>4
<1>3. CASE UNCHANGED vars
  <2>1. UNCHANGED <<sent, notify, opened, handed, total_received, spoilt>>
    BY <1>3 DEF vars, server
  <2>2. Pending' <= Pending
    BY <2>1 DEF Pending
  <2>3. QED
    BY <2>1, <2>2, QuietStep
<1>4. QED
  BY <1>1, <1>2, <1>3, SendIsWrite, OthersAreQuiet, DecryptOkIsQuiet DEF Next, read_from_socket

\* However TCP cuts the records, and whatever fails: the game is given each message
\* at most once, and nothing that was not sent.
THEOREM ChannelIsKept == Spec => ChannelPromise
<1>1. Init => Ledger /\ Channel!ChannelInit
  BY DEF Init, Ledger, Pending, Notice, Messages, Channel!ChannelInit
<1>2. IInv /\ IInv' /\ Ledger /\ [Next]_vars => Ledger' /\ ChannelStep
  BY LedgerStep
<1>3. QED
  BY <1>1, <1>2, Invariance, PTL DEF Spec, ChannelPromise, Channel!ChannelSpec, ChannelStep
=============================================================================
