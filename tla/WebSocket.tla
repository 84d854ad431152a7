------------------------------ MODULE WebSocket ------------------------------
(***************************************************************************)
(* The receiving side of winhttp_websocket/websocket_impl.cpp over TLS:    *)
(* read_from_socket reads from the socket into a buffer of its own,        *)
(* decrypts what records it holds and returns their text; the buffer does  *)
(* not outlive the call.  WinHttpReceiveResponse takes one such text for   *)
(* the server's answer to the upgrade, each WinHttpWebSocketReceive takes  *)
(* one for a frame, and another thread may call WinHttpWebSocketClose.     *)
(*                                                                         *)
(* The server puts its answer and then each frame into one TLS record, the *)
(* k-th record being the bytes (k - 1) * SIZE + 1 to k * SIZE of the       *)
(* connection; TCP hands them out in pieces of any length.                 *)
(***************************************************************************)
EXTENDS Integers

CONSTANTS
  RECORDS,   \* a bound of the model: how many records the server sends
  SIZE,      \* the bytes of a record, header and trailer included
  TEXT,      \* the bytes of text in it
  receive_buffer_size

ASSUME SizesAssumption ==
  /\ RECORDS \in Nat /\ SIZE \in Nat /\ TEXT \in Nat /\ receive_buffer_size \in Nat
  /\ 0 < TEXT /\ TEXT < SIZE /\ SIZE <= receive_buffer_size

VARIABLES
  sent,            \* how many records the server has sent
  notify,          \* the number of the record that is its close_notify, or 0
  server_closed,
  taken,           \* bytes recv has taken off the connection
  pc,              \* where the game's reading thread is
  received_size,   \* bytes in packet_buffer, the last of those taken
  total_received,  \* bytes of text already copied to recv_buffer
  opened,          \* records DecryptMessage has opened, its sequence number
  upgraded,        \* WinHttpReceiveResponse has succeeded
  closing,         \* how far WinHttpWebSocketClose got
  handed,          \* history: answers and messages the game was given
  spoilt           \* history: a reason beyond this code why one may be missing

server == <<sent, notify, server_closed>>
vars == <<server, taken, pc, received_size, total_received, opened, upgraded, closing,
          handed, spoilt>>

Places == {"idle", "recv", "decrypt", "spinning", "halted"}

\* The place in the connection of the first byte of packet_buffer.
Start == taken - received_size
Aligned == \E k \in 0 .. RECORDS : Start = k * SIZE

-----------------------------------------------------------------------------
(* The server *)

Init ==
  /\ sent = 0 /\ notify = 0 /\ server_closed = FALSE
  /\ taken = 0
  /\ pc = "idle" /\ received_size = 0 /\ total_received = 0
  /\ opened = 0
  /\ upgraded = FALSE /\ closing = "no"
  /\ handed = 0 /\ spoilt = FALSE

local == <<pc, received_size, total_received, upgraded>>

Send ==
  /\ ~server_closed /\ notify = 0 /\ sent < RECORDS
  /\ sent' = sent + 1
  /\ notify' \in {0, sent'}
  /\ UNCHANGED <<server_closed, taken, local, opened, closing, handed, spoilt>>

ServerCloses ==
  /\ ~server_closed
  /\ server_closed' = TRUE
  /\ UNCHANGED <<sent, notify, taken, local, opened, closing, handed, spoilt>>

-----------------------------------------------------------------------------
(* read_from_socket *)

\* As if recv_buffer were kept from one call to the next.
Return_Stale(total) ==
  /\ received_size' = 0 /\ total_received' = total
  /\ pc' = "idle"
  /\ upgraded' = (upgraded \/ total > 0)
  /\ handed' = (IF total > 0 THEN handed + 1 ELSE handed)
  /\ UNCHANGED spoilt

\* What its two callers make of its result.  A frame that is longer than the
\* game's buffer is an error, and one that fills recv_buffer halts the game.
Return(total) ==
  /\ received_size' = 0 /\ total_received' = 0
  /\ pc' = IF upgraded /\ total = receive_buffer_size THEN "halted" ELSE "idle"
  /\ upgraded' = (upgraded \/ total > 0)
  /\ \/ handed' = (IF total > 0 THEN handed + 1 ELSE handed) /\ spoilt' = spoilt
     \/ upgraded /\ total > 0 /\ handed' = handed /\ spoilt' = TRUE

\* recv appends what it takes.  More than the rest of the next record is a burst.
Take_Over(n) ==
  /\ taken' = taken + n
  /\ received_size' = n
  /\ spoilt' = (spoilt \/ taken + n > (opened + 1) * SIZE)

Take(n) ==
  /\ taken' = taken + n
  /\ received_size' = received_size + n
  /\ spoilt' = (spoilt \/ taken + n > (opened + 1) * SIZE)

Recv_Full ==
  /\ pc = "recv" /\ closing = "no"
  /\ \E n \in 1 .. receive_buffer_size :
       taken + n <= sent * SIZE /\ Take(n)
  /\ pc' = "decrypt"
  /\ UNCHANGED <<server, total_received, opened, upgraded, closing, handed>>

Recv ==
  /\ pc = "recv" /\ closing = "no"
  /\ \E n \in 1 .. receive_buffer_size - received_size :
       taken + n <= sent * SIZE /\ Take(n)
  /\ pc' = "decrypt"
  /\ UNCHANGED <<server, total_received, opened, upgraded, closing, handed>>

\* recv has nothing any more: the server closed or reset the connection, or
\* WinHttpWebSocketClose shut the socket down.
Over_Open == server_closed

Over == server_closed \/ closing # "no"

RecvEnds ==
  /\ pc = "recv" /\ Over
  /\ received_size' = 0 /\ total_received' = 0 /\ pc' = "idle"
  /\ spoilt' = (spoilt \/ taken # sent * SIZE \/ received_size > 0)
  /\ UNCHANGED <<server, taken, opened, upgraded, closing, handed>>

\* DecryptMessage sees the next record of the connection, complete.
Whole == closing # "deleted" /\ Start = opened * SIZE /\ received_size >= SIZE

\* The copying loop: it ends when the piece it copied is as long as what is left.
Copy ==
  LET room == receive_buffer_size - total_received IN
  IF TEXT <= room \/ TEXT = 2 * room
  THEN total_received' = total_received + (IF TEXT <= room THEN TEXT ELSE room) /\ pc' = pc
  ELSE total_received' = receive_buffer_size /\ pc' = "spinning"

\* SEC_E_OK: the record leaves the buffer.  The loop goes on while it holds more.
DecryptOk ==
  /\ pc = "decrypt" /\ received_size > 0
  /\ Whole /\ opened + 1 # notify
  /\ Copy
  /\ received_size' = received_size - SIZE
  /\ opened' = opened + 1
  /\ UNCHANGED <<server, taken, upgraded, closing, handed, spoilt>>

\* SEC_I_CONTEXT_EXPIRED: the record is the server's close_notify.
DecryptExpired ==
  /\ pc = "decrypt"
  /\ Whole /\ opened + 1 = notify
  /\ Return(total_received)
  /\ opened' = opened + 1
  /\ UNCHANGED <<server, taken, closing>>

\* Any other status: a record of another kind (an alert, a renegotiation), one that
\* is not the next, bytes that do not start a record, or a context that is ending.
DecryptFails ==
  /\ pc = "decrypt" /\ received_size > 0
  /\ \/ Aligned /\ received_size >= SIZE
     \/ ~Aligned
     \/ closing # "no"
  /\ received_size' = 0 /\ total_received' = 0 /\ pc' = "idle"
  /\ spoilt' = (spoilt \/ Whole \/ closing # "no")
  /\ UNCHANGED <<server, taken, opened, upgraded, closing, handed>>

\* The buffer is empty or holds no complete record (or bytes that look like the
\* start of a long one): what text there is is returned, and else more is read.
Drained == received_size = 0 \/ ~Aligned \/ received_size < SIZE

Drain_Greedy ==
  /\ pc = "decrypt" /\ Drained
  /\ pc' = "recv"
  /\ UNCHANGED <<received_size, total_received, upgraded, handed, spoilt>>
  /\ UNCHANGED <<server, taken, opened, closing>>

Drain_Impatient ==
  /\ pc = "decrypt" /\ Drained
  /\ Return(total_received)
  /\ UNCHANGED <<server, taken, opened, closing>>

Drain ==
  /\ pc = "decrypt" /\ Drained
  /\ IF total_received > 0 THEN Return(total_received)
     ELSE IF received_size = receive_buffer_size THEN Return(0)
     ELSE /\ pc' = "recv"
          /\ UNCHANGED <<received_size, total_received, upgraded, handed, spoilt>>
  /\ UNCHANGED <<server, taken, opened, closing>>

read_from_socket == Recv \/ RecvEnds \/ DecryptOk \/ DecryptExpired \/ DecryptFails \/ Drain

-----------------------------------------------------------------------------
(* The game's calls *)

\* WinHttpReceiveResponse until it succeeds, and then WinHttpWebSocketReceive.
Call ==
  /\ pc = "idle"
  /\ pc' = "recv"
  /\ UNCHANGED <<server, taken, received_size, total_received, opened, upgraded, closing,
                 handed, spoilt>>

\* WinHttpWebSocketClose shuts the socket down and then deletes the TLS context.
CloseShutdown ==
  /\ upgraded /\ closing = "no"
  /\ closing' = "shut"
  /\ spoilt' = TRUE
  /\ UNCHANGED <<server, taken, local, opened, handed>>

CloseDeletes ==
  /\ closing = "shut"
  /\ closing' = "deleted"
  /\ UNCHANGED <<server, taken, local, opened, handed, spoilt>>

Next ==
  \/ Send \/ ServerCloses
  \/ Call \/ read_from_socket
  \/ CloseShutdown \/ CloseDeletes

\* The reading thread runs on; recv hands out what has arrived.
Spec == Init /\ [][Next]_vars /\ WF_vars(read_from_socket)

-----------------------------------------------------------------------------
(* Properties *)

\* The types of the shim's state.  A message is handed over only after the answer.
TypeOK ==
  /\ sent \in 0 .. RECORDS /\ notify \in 0 .. sent
  /\ taken \in 0 .. sent * SIZE
  /\ server_closed \in BOOLEAN
  /\ pc \in Places
  /\ received_size \in 0 .. receive_buffer_size
  /\ total_received \in 0 .. receive_buffer_size
  /\ opened \in Nat
  /\ upgraded \in BOOLEAN
  /\ closing \in {"no", "shut", "deleted"}
  /\ handed \in Nat /\ (handed > 0 => upgraded)
  /\ spoilt \in BOOLEAN

\* The copying loop does not run on for ever, and the text of one read never fills
\* recv_buffer, which would halt the game: the reason for the early return that the
\* source asks "Why?" about.
CopyFits == pc \notin {"spinning", "halted"}

\* As long as TCP brings one record to a call, in however many pieces, every byte a
\* finished call took off the connection was part of an answer or a message that
\* the game was given: nothing is left behind in packet_buffer.
NothingLeftBehind ==
  pc = "idle" /\ ~spoilt =>
    /\ taken = opened * SIZE
    /\ opened = handed + (IF opened > 0 /\ opened = notify THEN 1 ELSE 0)

\* The game is given what the server sent, its close_notify apart: no message is made
\* up of a piece of one, of a notice or of text an earlier call returned, however the
\* records burst, and whatever was lost.
Messages == IF notify = 0 THEN sent ELSE sent - 1
Channel == INSTANCE MessageChannel WITH in <- Messages, out <- handed, broken <- spoilt
ChannelPromise == Channel!ChannelSpec

\* A call that waits in recv ends when the server closes the connection or another
\* thread calls WinHttpWebSocketClose.
CallsEnd == (server_closed \/ closing # "no") ~> (pc = "idle")

\* Under the same condition, and while the game calls, every message arrives.
MessagesArrive ==
  \A k \in 1 .. RECORDS :
    [](~spoilt /\ notify # k) /\ []<>(pc # "idle") => (sent >= k ~> handed >= k)
=============================================================================
