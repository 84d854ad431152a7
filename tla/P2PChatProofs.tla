---------------------------- MODULE P2PChatProofs ----------------------------
(***************************************************************************)
(* Proofs about the chat for any number of calls: the types, with the      *)
(* joins they hold, and when the host's program can be terminated.  The    *)
(* invariant follows the keyboard thread's stop_state: as long as no ESC   *)
(* was taken, the thread runs unstopped until a call is accepted, and the  *)
(* -1 it then ends with is there whenever the waiting loop looks at it.    *)
(* A second invariant, of the two programs together while nothing is lost  *)
(* or repeated, shows that nobody leaves a chat without the peer learning  *)
(* of it.                                                                  *)
(***************************************************************************)
EXTENDS P2PChat, TLAPS

KeyboardFollowed ==
  ~escaped =>
    /\ pc["host"] # "crashed"
    /\ pc["host"] \in {"wait", "ask"} => thread[Keyboard] = "run" /\ stop_state[Keyboard] = 0
    /\ pc["host"] = "stop_keyboard" =>
         \/ thread[Keyboard] \in {"run", "leaving"} /\ stop_state[Keyboard] = 1
         \/ thread[Keyboard] = "ended" /\ stop_state[Keyboard] = -1
    /\ pc["host"] = "check" =>
         \/ thread[Keyboard] = "run" /\ stop_state[Keyboard] = 0
         \/ stop_state[Keyboard] = -1
    /\ pc["host"] \in InChat => stop_state[Keyboard] = -1

\* The parts of TypeOK: the programs and threads, the datagrams, and the joins.
Programs ==
  /\ pc \in [Peer -> {"menu", "login", "wait", "ask", "stop_keyboard", "check", "crashed"} \cup InChat]
  /\ call \in 0 .. MaxCalls /\ asker \in 0 .. MaxCalls /\ peer \in 0 .. MaxCalls
  /\ thread \in [Thread -> ThreadPlace]
  /\ stop_state \in [Thread -> {0, 1, -1}]
  /\ escaped \in BOOLEAN /\ chatted \subseteq Call

Datagrams == net \subseteq Datagram /\ disturbed \in BOOLEAN

Joins ==
  \A p \in Peer :
    pc[p] \notin InChat => thread[Sender(p)] = "none" /\ thread[Receiver(p)] = "none"

\* Who asks, waits or chats has a call.
CallsNamed ==
  /\ pc["caller"] \in {"login"} \cup InChat => call \in Call
  /\ pc["host"] \in {"ask", "stop_keyboard"} => asker \in Call
  /\ pc["host"] \in InChat => peer \in Call

IInv == TypeOK /\ KeyboardFollowed /\ CallsNamed

-----------------------------------------------------------------------------
(* Threads *)

\* The threads of a program are there and are different ones.
LEMMA Threads ==
  /\ Keyboard \in Thread
  /\ \A p \in Peer :
       /\ Sender(p) \in Thread /\ Receiver(p) \in Thread
       /\ Sender(p) # Receiver(p) /\ Sender(p) # Keyboard /\ Receiver(p) # Keyboard
       /\ \A q \in Peer : Sender(p) # Receiver(q)
       /\ \A q \in Peer \ {p} : Sender(p) # Sender(q) /\ Receiver(p) # Receiver(q)
BY SMT DEF Thread, Keyboard, Sender, Receiver, Peer

\* What a program sends is a datagram.
LEMMA Packets ==
  ASSUME NEW c \in Call
  PROVE  /\ \A text \in {"LOGIN", "line", "LOGOUT"} : Packet("host", text, c) \in Datagram
         /\ \A text \in {"ACCEPT", "DENY", "line", "LOGOUT"} : Packet("caller", text, c) \in Datagram
BY SMT DEF Datagram, Packet

-----------------------------------------------------------------------------
(* Steps *)

LEMMA NoCall == 0 \in 0 .. MaxCalls
BY MaxCallsAssumption, SMT

LEMMA Initially == Init => IInv
<1> SUFFICES ASSUME Init PROVE IInv
  OBVIOUS
<1>1. TypeOK
  <2>1. \A p \in Peer : thread[Sender(p)] = "none" /\ thread[Receiver(p)] = "none"
    BY Threads, SMT DEF Init
  <2>2. pc \in [Peer -> {"menu", "login", "wait", "ask", "stop_keyboard", "check", "crashed"} \cup InChat]
    BY SMT DEF Init
  <2>3. thread \in [Thread -> ThreadPlace] /\ stop_state \in [Thread -> {0, 1, -1}]
    BY SMT DEF Init, ThreadPlace
  <2>4. QED
    BY <2>1, <2>2, <2>3, NoCall DEF Init, TypeOK
<1>2. KeyboardFollowed /\ CallsNamed
  BY SMT DEF Init, KeyboardFollowed, CallsNamed, Peer, InChat
<1>3. QED
  BY <1>1, <1>2 DEF IInv

LEMMA ThreadEndsKeeps ==
  ASSUME IInv, NEW t \in Thread, ThreadEnds(t) PROVE IInv'
<1>1. TypeOK'
  BY Threads, SMT
    DEF IInv, TypeOK, ThreadEnds, Ends, ThreadPlace, InChat, Peer
<1>2. KeyboardFollowed'
  BY Threads, SMT DEF IInv, TypeOK, KeyboardFollowed, ThreadEnds, Ends, InChat, Peer
<1>3. CallsNamed'
  BY SMT DEF IInv, TypeOK, CallsNamed, ThreadEnds, Ends, InChat, Peer
<1>4. QED
  BY <1>1, <1>2, <1>3 DEF IInv

LEMMA ThreadStopsKeeps ==
  ASSUME IInv, NEW t \in Thread, ThreadStops(t) PROVE IInv'
<1>1. TypeOK'
  BY Threads, SMT
    DEF IInv, TypeOK, ThreadStops, Stopping, ThreadPlace, InChat, Peer
<1>2. KeyboardFollowed'
  BY Threads, SMT DEF IInv, TypeOK, KeyboardFollowed, ThreadStops, Stopping, InChat, Peer
<1>3. CallsNamed'
  BY SMT DEF IInv, TypeOK, CallsNamed, ThreadStops, Stopping, InChat, Peer
<1>4. QED
  BY <1>1, <1>2, <1>3 DEF IInv

LEMMA SendLineKeeps ==
  ASSUME IInv, NEW p \in Peer, SendLine(p) PROVE IInv'
<1>1. TypeOK'
  BY Threads, Packets, SMT
    DEF IInv, TypeOK, CallsNamed, SendLine, ThreadPlace, InChat, Call, Datagram, Other, Session, Peer
<1>2. KeyboardFollowed'
  BY Threads, SMT DEF IInv, TypeOK, KeyboardFollowed, SendLine, InChat, Peer
<1>3. CallsNamed'
  BY SMT DEF IInv, TypeOK, CallsNamed, SendLine, InChat, Peer
<1>4. QED
  BY <1>1, <1>2, <1>3 DEF IInv

LEMMA EscapeKeeps ==
  ASSUME IInv, NEW p \in Peer, Escape(p) PROVE IInv'
<1>1. TypeOK'
  BY Threads, Packets, SMT
    DEF IInv, TypeOK, CallsNamed, Escape, ThreadPlace, InChat, Call, Datagram, Other, Session, Peer
<1>2. KeyboardFollowed'
  BY Threads, SMT DEF IInv, TypeOK, KeyboardFollowed, Escape, InChat, Peer
<1>3. CallsNamed'
  BY SMT DEF IInv, TypeOK, CallsNamed, Escape, InChat, Peer
<1>4. QED
  BY <1>1, <1>2, <1>3 DEF IInv

LEMMA ReadKeyKeeps ==
  ASSUME IInv, NEW p \in Peer, ReadKey(p) PROVE IInv'
<1>1. TypeOK'
  BY Threads, SMT
    DEF IInv, TypeOK, ReadKey, Stopping, ThreadPlace, InChat, Peer
<1>2. KeyboardFollowed'
  BY Threads, SMT DEF IInv, TypeOK, KeyboardFollowed, ReadKey, Stopping, InChat, Peer
<1>3. CallsNamed'
  BY SMT DEF IInv, TypeOK, CallsNamed, ReadKey, Stopping, InChat, Peer
<1>4. QED
  BY <1>1, <1>2, <1>3 DEF IInv

LEMMA ReceiveTextKeeps ==
  ASSUME IInv, NEW p \in Peer, NEW m \in net, ReceiveText(p, m) PROVE IInv'
<1>1. TypeOK'
  <2>1. Programs'
    BY Threads, SMT
      DEF IInv, TypeOK, Programs, ReceiveText, Takes, ThreadPlace, InChat, Peer
  <2>2. Datagrams'
    BY DEF IInv, TypeOK, Datagrams, ReceiveText, Takes
  <2>3. Joins'
    BY Threads, SMT DEF IInv, TypeOK, Joins, ReceiveText, Takes, InChat, Peer
  <2>4. QED
    BY <2>1, <2>2, <2>3 DEF TypeOK, Programs, Datagrams, Joins
<1>2. KeyboardFollowed'
  BY Threads, SMT DEF IInv, TypeOK, KeyboardFollowed, ReceiveText, Takes, InChat, Peer
<1>3. CallsNamed'
  BY SMT DEF IInv, TypeOK, CallsNamed, ReceiveText, Takes, InChat, Peer
<1>4. QED
  BY <1>1, <1>2, <1>3 DEF IInv

LEMMA ChatOverKeeps ==
  ASSUME IInv, NEW p \in Peer, ChatOver(p) PROVE IInv'
<1>1. TypeOK'
  BY Threads, SMT
    DEF IInv, TypeOK, ChatOver, ThreadPlace, InChat, Peer
<1>2. KeyboardFollowed'
  BY Threads, SMT DEF IInv, TypeOK, KeyboardFollowed, ChatOver, InChat, Peer
<1>3. CallsNamed'
  BY SMT DEF IInv, TypeOK, CallsNamed, ChatOver, InChat, Peer
<1>4. QED
  BY <1>1, <1>2, <1>3 DEF IInv

LEMMA JoinSenderKeeps ==
  ASSUME IInv, NEW p \in Peer, JoinSender(p) PROVE IInv'
<1>1. TypeOK'
  BY Threads, SMT
    DEF IInv, TypeOK, JoinSender, ThreadPlace, InChat, Peer
<1>2. KeyboardFollowed'
  BY Threads, SMT DEF IInv, TypeOK, KeyboardFollowed, JoinSender, InChat, Peer
<1>3. CallsNamed'
  BY SMT DEF IInv, TypeOK, CallsNamed, JoinSender, InChat, Peer
<1>4. QED
  BY <1>1, <1>2, <1>3 DEF IInv

LEMMA JoinReceiverKeeps ==
  ASSUME IInv, NEW p \in Peer, JoinReceiver(p) PROVE IInv'
<1>1. TypeOK'
  <2>1. Programs'
    BY Threads, SMT
      DEF IInv, TypeOK, Programs, JoinReceiver, ThreadPlace, InChat, Peer
  <2>2. Datagrams'
    BY DEF IInv, TypeOK, Datagrams, JoinReceiver
  <2>3. Joins'
    BY Threads, SMT DEF IInv, TypeOK, Joins, JoinReceiver, InChat, Peer
  <2>4. QED
    BY <2>1, <2>2, <2>3 DEF TypeOK, Programs, Datagrams, Joins
<1>2. KeyboardFollowed'
  BY Threads, SMT DEF IInv, TypeOK, KeyboardFollowed, JoinReceiver, InChat, Peer
<1>3. CallsNamed'
  BY SMT DEF IInv, TypeOK, CallsNamed, JoinReceiver, InChat, Peer
<1>4. QED
  BY <1>1, <1>2, <1>3 DEF IInv

LEMMA ConnectKeeps ==
  ASSUME IInv, Connect PROVE IInv'
<1>1. TypeOK'
  BY Threads, Packets, MaxCallsAssumption, SMT
    DEF IInv, TypeOK, CallsNamed, Connect, ThreadPlace, InChat, Call, Datagram, Other, Session, Peer
<1>2. KeyboardFollowed'
  BY Threads, SMT DEF IInv, TypeOK, KeyboardFollowed, Connect, InChat, Peer
<1>3. CallsNamed'
  BY MaxCallsAssumption, SMT DEF IInv, TypeOK, CallsNamed, Connect, InChat, Call, Datagram, Peer
<1>4. QED
  BY <1>1, <1>2, <1>3 DEF IInv

LEMMA ReceiveAnswerKeeps ==
  ASSUME IInv, NEW m \in net, ReceiveAnswer(m) PROVE IInv'
<1>1. TypeOK'
  <2>1. Programs'
    <3>1. CASE m.text = "ACCEPT"
      <4>1. pc' \in [Peer -> {"menu", "login", "wait", "ask", "stop_keyboard", "check", "crashed"} \cup InChat]
        BY <3>1, SMT DEF IInv, TypeOK, ReceiveAnswer, StartChat, InChat
      <4>2. thread' \in [Thread -> ThreadPlace] /\ stop_state' \in [Thread -> {0, 1, -1}]
        BY <3>1, Threads, SMT DEF IInv, TypeOK, ReceiveAnswer, StartChat, ThreadPlace, Peer
      <4>3. chatted' \subseteq Call
        BY <3>1 DEF IInv, TypeOK, CallsNamed, ReceiveAnswer
      <4>4. QED
        BY <3>1, <4>1, <4>2, <4>3 DEF IInv, TypeOK, Programs, ReceiveAnswer
    <3>2. CASE m.text # "ACCEPT"
      BY <3>2, SMT DEF IInv, TypeOK, Programs, ReceiveAnswer
    <3>3. QED
      BY <3>1, <3>2
  <2>2. Datagrams'
    BY DEF IInv, TypeOK, Datagrams, ReceiveAnswer, StartChat, Takes
  <2>3. Joins'
    BY Threads, SMT DEF IInv, TypeOK, Joins, ReceiveAnswer, StartChat, Takes, InChat, Peer
  <2>4. QED
    BY <2>1, <2>2, <2>3 DEF TypeOK, Programs, Datagrams, Joins
<1>2. KeyboardFollowed'
  BY Threads, SMT DEF IInv, TypeOK, KeyboardFollowed, ReceiveAnswer, StartChat, Takes, InChat, Peer
<1>3. CallsNamed'
  BY SMT DEF IInv, TypeOK, CallsNamed, ReceiveAnswer, StartChat, Takes, InChat, Peer
<1>4. QED
  BY <1>1, <1>2, <1>3 DEF IInv

LEMMA LoginTimeoutKeeps ==
  ASSUME IInv, LoginTimeout PROVE IInv'
<1>1. TypeOK'
  BY Threads, SMT
    DEF IInv, TypeOK, LoginTimeout, ThreadPlace, InChat, Peer
<1>2. KeyboardFollowed'
  BY Threads, SMT DEF IInv, TypeOK, KeyboardFollowed, LoginTimeout, InChat, Peer
<1>3. CallsNamed'
  BY SMT DEF IInv, TypeOK, CallsNamed, LoginTimeout, InChat, Peer
<1>4. QED
  BY <1>1, <1>2, <1>3 DEF IInv

LEMMA BindKeeps ==
  ASSUME IInv, Bind PROVE IInv'
<1>1. TypeOK'
  <2>1. Programs'
    <3>1. pc' \in [Peer -> {"menu", "login", "wait", "ask", "stop_keyboard", "check", "crashed"} \cup InChat]
      <4>1. pc' = [pc EXCEPT !["host"] = "wait"]
        BY DEF Bind
      <4>2. QED
        BY <4>1, SMT DEF IInv, TypeOK, Peer
    <3>2. thread' \in [Thread -> ThreadPlace] /\ stop_state' \in [Thread -> {0, 1, -1}]
      BY Threads, SMT DEF IInv, TypeOK, Bind, ThreadPlace
    <3>3. QED
      BY <3>1, <3>2, NoCall DEF IInv, TypeOK, Programs, Bind
  <2>2. Datagrams'
    BY DEF IInv, TypeOK, Datagrams, Bind
  <2>3. Joins'
    BY Threads, SMT DEF IInv, TypeOK, Joins, Bind, InChat, Peer
  <2>4. QED
    BY <2>1, <2>2, <2>3 DEF TypeOK, Programs, Datagrams, Joins
<1>2. KeyboardFollowed'
  BY Threads, SMT DEF IInv, TypeOK, KeyboardFollowed, Bind, InChat, Peer
<1>3. CallsNamed'
  BY SMT DEF IInv, TypeOK, CallsNamed, Bind, InChat, Peer
<1>4. QED
  BY <1>1, <1>2, <1>3 DEF IInv

LEMMA PollKeeps ==
  ASSUME IInv, Poll PROVE IInv'
<1>1. TypeOK'
  <2>1. Programs'
    BY Threads, MaxCallsAssumption, SMT
      DEF IInv, TypeOK, CallsNamed, Programs, Poll, Takes, ThreadPlace, InChat, Call, Datagram, Session, Peer
  <2>2. Datagrams'
    BY DEF IInv, TypeOK, Datagrams, Poll, Takes
  <2>3. Joins'
    BY Threads, SMT DEF IInv, TypeOK, Joins, Poll, Takes, InChat, Peer
  <2>4. QED
    BY <2>1, <2>2, <2>3 DEF TypeOK, Programs, Datagrams, Joins
<1>2. KeyboardFollowed'
  BY Threads, SMT DEF IInv, TypeOK, KeyboardFollowed, Poll, Takes, InChat, Peer
<1>3. CallsNamed'
  BY MaxCallsAssumption, SMT DEF IInv, TypeOK, CallsNamed, Poll, Takes, InChat, Call, Datagram, Peer
<1>4. QED
  BY <1>1, <1>2, <1>3 DEF IInv

LEMMA DenyKeeps ==
  ASSUME IInv, Deny PROVE IInv'
<1>1. TypeOK'
  BY Threads, Packets, SMT
    DEF IInv, TypeOK, CallsNamed, Deny, ThreadPlace, InChat, Call, Datagram, Other, Session, Peer
<1>2. KeyboardFollowed'
  BY Threads, SMT DEF IInv, TypeOK, KeyboardFollowed, Deny, InChat, Peer
<1>3. CallsNamed'
  BY SMT DEF IInv, TypeOK, CallsNamed, Deny, InChat, Peer
<1>4. QED
  BY <1>1, <1>2, <1>3 DEF IInv

LEMMA AcceptKeeps ==
  ASSUME IInv, Accept PROVE IInv'
<1>1. TypeOK'
  BY Threads, Packets, SMT
    DEF IInv, TypeOK, CallsNamed, Accept, ThreadPlace, InChat, Call, Datagram, Other, Session, Peer
<1>2. KeyboardFollowed'
  BY Threads, SMT DEF IInv, TypeOK, KeyboardFollowed, Accept, InChat, Peer
<1>3. CallsNamed'
  BY SMT DEF IInv, TypeOK, CallsNamed, Accept, InChat, Peer
<1>4. QED
  BY <1>1, <1>2, <1>3 DEF IInv

LEMMA JoinKeyboardKeeps ==
  ASSUME IInv, JoinKeyboard PROVE IInv'
<1>1. TypeOK'
  <2>1. Programs'
    BY Threads, SMT
      DEF IInv, TypeOK, Programs, JoinKeyboard, StartChat, ThreadPlace, InChat, Peer
  <2>2. Datagrams'
    BY DEF IInv, TypeOK, Datagrams, JoinKeyboard, StartChat
  <2>3. Joins'
    BY Threads, SMT DEF IInv, TypeOK, Joins, JoinKeyboard, StartChat, InChat, Peer
  <2>4. QED
    BY <2>1, <2>2, <2>3 DEF TypeOK, Programs, Datagrams, Joins
<1>2. KeyboardFollowed'
  BY Threads, SMT DEF IInv, TypeOK, KeyboardFollowed, JoinKeyboard, StartChat, InChat, Peer
<1>3. CallsNamed'
  BY SMT DEF IInv, TypeOK, CallsNamed, JoinKeyboard, StartChat, InChat, Peer
<1>4. QED
  BY <1>1, <1>2, <1>3 DEF IInv

LEMMA CheckOnKeeps ==
  ASSUME IInv, CheckOn PROVE IInv'
<1>1. TypeOK'
  BY Threads, SMT
    DEF IInv, TypeOK, CheckOn, stopped, ThreadPlace, InChat, Peer
<1>2. KeyboardFollowed'
  BY Threads, SMT DEF IInv, TypeOK, KeyboardFollowed, CheckOn, stopped, InChat, Peer
<1>3. CallsNamed'
  BY SMT DEF IInv, TypeOK, CallsNamed, CheckOn, stopped, InChat, Peer
<1>4. QED
  BY <1>1, <1>2, <1>3 DEF IInv

LEMMA CheckOutKeeps ==
  ASSUME IInv, CheckOut PROVE IInv'
<1>1. TypeOK'
  BY Threads, SMT
    DEF IInv, TypeOK, CheckOut, ThreadPlace, InChat, Peer
<1>2. KeyboardFollowed'
  BY Threads, SMT DEF IInv, TypeOK, KeyboardFollowed, CheckOut, InChat, Peer
<1>3. CallsNamed'
  BY SMT DEF IInv, TypeOK, CallsNamed, CheckOut, InChat, Peer
<1>4. QED
  BY <1>1, <1>2, <1>3 DEF IInv

LEMMA KeyboardEscapesKeeps ==
  ASSUME IInv, KeyboardEscapes PROVE IInv'
<1>1. TypeOK'
  BY Threads, SMT
    DEF IInv, TypeOK, KeyboardEscapes, ThreadPlace, InChat, Peer
<1>2. KeyboardFollowed'
  BY Threads, SMT DEF IInv, TypeOK, KeyboardFollowed, KeyboardEscapes, InChat, Peer
<1>3. CallsNamed'
  BY SMT DEF IInv, TypeOK, CallsNamed, KeyboardEscapes, InChat, Peer
<1>4. QED
  BY <1>1, <1>2, <1>3 DEF IInv

LEMMA LoseKeeps ==
  ASSUME IInv, Lose PROVE IInv'
<1>1. TypeOK'
  BY Threads, SMT
    DEF IInv, TypeOK, Lose, ThreadPlace, InChat, Peer
<1>2. KeyboardFollowed'
  BY Threads, SMT DEF IInv, TypeOK, KeyboardFollowed, Lose, InChat, Peer
<1>3. CallsNamed'
  BY SMT DEF IInv, TypeOK, CallsNamed, Lose, InChat, Peer
<1>4. QED
  BY <1>1, <1>2, <1>3 DEF IInv

LEMMA StepKeeps == IInv /\ [Next]_vars => IInv'
<1> SUFFICES ASSUME IInv, [Next]_vars PROVE IInv'
  OBVIOUS
<1>1. ASSUME NEW t \in Thread, ThreadEnds(t) \/ ThreadStops(t) PROVE IInv'
  BY <1>1, ThreadEndsKeeps, ThreadStopsKeeps
<1>2. ASSUME NEW p \in Peer, ReadKey(p) \/ SendLine(p) \/ Escape(p) PROVE IInv'
  BY <1>2, ReadKeyKeeps, SendLineKeeps, EscapeKeeps
<1>3. ASSUME NEW p \in Peer, main_net_func(p) PROVE IInv'
  BY <1>3, ChatOverKeeps, JoinSenderKeeps, JoinReceiverKeeps DEF main_net_func
<1>4. ASSUME NEW p \in Peer, NEW m \in net, ReceiveText(p, m) PROVE IInv'
  BY <1>4, ReceiveTextKeeps
<1>5. CASE Connect \/ LoginTimeout \/ \E m \in net : ReceiveAnswer(m)
  BY <1>5, ConnectKeeps, LoginTimeoutKeeps, ReceiveAnswerKeeps
<1>6. CASE Bind \/ Poll \/ Deny \/ Accept
  BY <1>6, BindKeeps, PollKeeps, DenyKeeps, AcceptKeeps
<1>7. CASE JoinKeyboard \/ CheckOn \/ CheckOut \/ KeyboardEscapes
  BY <1>7, JoinKeyboardKeeps, CheckOnKeeps, CheckOutKeeps, KeyboardEscapesKeeps
<1>8. CASE Lose
  BY <1>8, LoseKeeps
<1>9. CASE UNCHANGED vars
  BY <1>9, SMT DEF vars, IInv, TypeOK, KeyboardFollowed, CallsNamed, InChat, Call
<1>10. QED
  BY <1>1, <1>2, <1>3, <1>4, <1>5, <1>6, <1>7, <1>8, <1>9 DEF Next

LEMMA Invariance == Spec => []IInv
BY Initially, StepKeeps, PTL DEF Spec

-----------------------------------------------------------------------------
(* Theorems *)

\* Whatever the network does, no thread of a chat outlives main_net_func, whose
\* locals it refers to.
THEOREM TypeCorrect == Spec => []TypeOK
<1>1. IInv => TypeOK
  BY DEF IInv
<1>2. QED
  BY <1>1, Invariance, PTL

\* Repeated and late datagrams alone never make the host join its keyboard thread a
\* second time: only a thread that had already ended by an ESC hides that it stopped.
THEOREM CrashesNeedAnEscape == Spec => []CrashNeedsEscape
<1>1. IInv => CrashNeedsEscape
  BY DEF IInv, KeyboardFollowed, CrashNeedsEscape
<1>2. QED
  BY <1>1, Invariance, PTL

-----------------------------------------------------------------------------
(* Goodbyes: what two programs that nothing disturbs know of each other *)

\* The host decides about the caller of c; it has taken the call's only LOGIN and
\* decided; the caller is in the call or can still get into it.
Asked(c) == pc["host"] = "ask" /\ asker = c
Answered(c) == Packet("host", "LOGIN", c) \notin net /\ ~Asked(c)
Calling(c) == pc["caller"] = "login" /\ call = c
Met(c) == c \in chatted \/ (Packet("caller", "ACCEPT", c) \in net /\ Calling(c))
HostIsIn(c) == peer = c /\ (pc["host"] \in InChat \/ thread[Keyboard] = "joined")

\* Nothing is about a call the caller has not made.
CallsAreNew ==
  /\ \A c \in chatted : c <= call
  /\ asker <= call /\ peer <= call
  /\ \A m \in net : m.call <= call

\* A program stops the threads of a chat after one of them was over by itself.
StopsFollow ==
  \A p \in Peer :
    /\ pc[p] \in {"stop_send", "stop_recv"} => Leaving(p)
    /\ pc[p] \in InChat /\ (stop_state[Sender(p)] # 0 \/ stop_state[Receiver(p)] # 0) => Leaving(p)

\* The host joins its keyboard thread once for each call it takes, and takes the
\* LOGIN it asks its user about off the way.
HostInOrder ==
  /\ pc["host"] # "crashed"
  /\ thread[Keyboard] = "joined" => peer # 0 /\ pc["host"] \in InChat \cup {"check", "wait"}
  /\ pc["host"] = "ask" => Packet("host", "LOGIN", asker) \notin net

\* The caller gets to chat once in each call.
CallerInOrder ==
  /\ pc["caller"] \in InChat => call \in chatted
  /\ pc["caller"] = "login" => call \notin chatted

\* The host answers a call once: what comes of an answer comes after it.
AnswersOnce ==
  \A c \in Call :
    \/ c \in chatted \/ Taken(c) \/ HostIsIn(c)
    \/ Packet("caller", "ACCEPT", c) \in net \/ Packet("caller", "LOGOUT", c) \in net
    => Answered(c)

\* Who says goodbye has left or leaves.
HostMeansIt == \A c \in Call : Packet("caller", "LOGOUT", c) \in net => HasLeft("host", c)
CallerMeansIt ==
  \A c \in Call : Packet("host", "LOGOUT", c) \in net => c \in chatted /\ HasLeft("caller", c)

\* Who leaves has said goodbye, or was told it.
HostSaysIt ==
  \A c \in Call :
    Met(c) /\ HasLeft("host", c) =>
      Packet("caller", "LOGOUT", c) \in net \/ (c \in chatted /\ HasLeft("caller", c))
CallerSaysIt ==
  \A c \in Call :
    c \in chatted /\ HasLeft("caller", c) => Packet("host", "LOGOUT", c) \in net \/ HasLeft("host", c)

Goodbyes ==
  /\ HostInOrder /\ CallerInOrder /\ AnswersOnce
  /\ HostMeansIt /\ CallerMeansIt /\ HostSaysIt /\ CallerSaysIt

GInv == CallsAreNew /\ StopsFollow /\ (~disturbed => Goodbyes)

\* Datagrams are told apart by what they say, to whom and in which call.
LEMMA PacketsDiffer ==
  /\ \A p, q, text, other, c, d :
       Packet(p, text, c) = Packet(q, other, d) <=> p = q /\ text = other /\ c = d
  /\ \A p, text, c : Packet(p, text, c).to = p /\ Packet(p, text, c).text = text /\ Packet(p, text, c).call = c
  /\ \A m \in Datagram : m = Packet(m.to, m.text, m.call) /\ m.call \in Call
                         /\ m.to \in Peer
BY SMT DEF Packet, Datagram, Peer

\* Every action keeps the invariant.
LEMMA ThreadEndsGoodbyes ==
  ASSUME IInv, GInv, NEW t \in Thread, ThreadEnds(t) PROVE GInv'
<1> USE Threads, PacketsDiffer, MaxCallsAssumption
    DEF IInv, TypeOK, GInv, Goodbyes, Other, InChat, Peer, Call, ThreadEnds, Ends
<1>1. CallsAreNew'
  BY SMT DEF CallsAreNew, CallsNamed, Session
<1>2. StopsFollow'
  BY SMT DEF StopsFollow, Leaving
<1>3. ASSUME ~disturbed' PROVE Goodbyes'
  <2>1. HostInOrder' /\ CallerInOrder'
    BY <1>3, SMT DEF HostInOrder, CallerInOrder, AnswersOnce, CallsAreNew, CallsNamed, HostIsIn, Answered
  <2>2. AnswersOnce'
    BY <1>3, SMT
      DEF AnswersOnce, HostInOrder, CallerInOrder, CallsAreNew, CallsNamed, Answered, Asked, Taken, HostIsIn, Session
  <2>3. HostMeansIt' /\ CallerMeansIt'
    BY <1>3, SMT
      DEF HostMeansIt, CallerMeansIt, StopsFollow, AnswersOnce, HostInOrder, CallerInOrder, CallsAreNew,
          Answered, Asked, HasLeft, Taken, With, Leaving, Session
  <2>4. HostSaysIt' /\ CallerSaysIt'
    BY <1>3, SMT
      DEF HostSaysIt, CallerSaysIt, HostMeansIt, CallerMeansIt, StopsFollow, HostInOrder, CallerInOrder,
          AnswersOnce, CallsAreNew, Answered, Asked, Met, Calling, HasLeft, Taken, With, Leaving, Session
  <2>5. QED
    BY <2>1, <2>2, <2>3, <2>4
<1>4. QED
  BY <1>1, <1>2, <1>3

LEMMA ThreadStopsGoodbyes ==
  ASSUME IInv, GInv, NEW t \in Thread, ThreadStops(t) PROVE GInv'
<1> USE Threads, PacketsDiffer, MaxCallsAssumption
    DEF IInv, TypeOK, GInv, Goodbyes, Other, InChat, Peer, Call, ThreadStops, Stopping
<1>1. CallsAreNew'
  BY SMT DEF CallsAreNew, CallsNamed, Session
<1>2. StopsFollow'
  BY SMT DEF StopsFollow, Leaving
<1>3. ASSUME ~disturbed' PROVE Goodbyes'
  <2>1. HostInOrder' /\ CallerInOrder'
    BY <1>3, SMT DEF HostInOrder, CallerInOrder, AnswersOnce, CallsAreNew, CallsNamed, HostIsIn, Answered
  <2>2. AnswersOnce'
    BY <1>3, SMT
      DEF AnswersOnce, HostInOrder, CallerInOrder, CallsAreNew, CallsNamed, Answered, Asked, Taken, HostIsIn, Session
  <2>3. HostMeansIt' /\ CallerMeansIt'
    BY <1>3, SMT
      DEF HostMeansIt, CallerMeansIt, StopsFollow, AnswersOnce, HostInOrder, CallerInOrder, CallsAreNew,
          Answered, Asked, HasLeft, Taken, With, Leaving, Session
  <2>4. HostSaysIt' /\ CallerSaysIt'
    BY <1>3, SMT
      DEF HostSaysIt, CallerSaysIt, HostMeansIt, CallerMeansIt, StopsFollow, HostInOrder, CallerInOrder,
          AnswersOnce, CallsAreNew, Answered, Asked, Met, Calling, HasLeft, Taken, With, Leaving, Session
  <2>5. QED
    BY <2>1, <2>2, <2>3, <2>4
<1>4. QED
  BY <1>1, <1>2, <1>3

LEMMA ReadKeyGoodbyes ==
  ASSUME IInv, GInv, NEW p \in Peer, ReadKey(p) PROVE GInv'
<1> USE Threads, PacketsDiffer, MaxCallsAssumption
    DEF IInv, TypeOK, GInv, Goodbyes, Other, InChat, Peer, Call, ReadKey, Stopping
<1>1. CallsAreNew'
  BY SMT DEF CallsAreNew, CallsNamed, Session
<1>2. StopsFollow'
  BY SMT DEF StopsFollow, Leaving
<1>3. ASSUME ~disturbed' PROVE Goodbyes'
  <2>1. HostInOrder' /\ CallerInOrder'
    BY <1>3, SMT DEF HostInOrder, CallerInOrder, AnswersOnce, CallsAreNew, CallsNamed, HostIsIn, Answered
  <2>2. AnswersOnce'
    BY <1>3, SMT
      DEF AnswersOnce, HostInOrder, CallerInOrder, CallsAreNew, CallsNamed, Answered, Asked, Taken, HostIsIn, Session
  <2>3. HostMeansIt' /\ CallerMeansIt'
    BY <1>3, SMT
      DEF HostMeansIt, CallerMeansIt, StopsFollow, AnswersOnce, HostInOrder, CallerInOrder, CallsAreNew,
          Answered, Asked, HasLeft, Taken, With, Leaving, Session
  <2>4. HostSaysIt' /\ CallerSaysIt'
    BY <1>3, SMT
      DEF HostSaysIt, CallerSaysIt, HostMeansIt, CallerMeansIt, StopsFollow, HostInOrder, CallerInOrder,
          AnswersOnce, CallsAreNew, Answered, Asked, Met, Calling, HasLeft, Taken, With, Leaving, Session
  <2>5. QED
    BY <2>1, <2>2, <2>3, <2>4
<1>4. QED
  BY <1>1, <1>2, <1>3

LEMMA SendLineGoodbyes ==
  ASSUME IInv, GInv, NEW p \in Peer, SendLine(p) PROVE GInv'
<1> USE Threads, PacketsDiffer, MaxCallsAssumption
    DEF IInv, TypeOK, GInv, Goodbyes, Other, InChat, Peer, Call, SendLine
<1>1. CallsAreNew'
  BY SMT DEF CallsAreNew, CallsNamed, Session
<1>2. StopsFollow'
  BY SMT DEF StopsFollow, Leaving
<1>3. ASSUME ~disturbed' PROVE Goodbyes'
  <2>1. HostInOrder' /\ CallerInOrder'
    BY <1>3, SMT DEF HostInOrder, CallerInOrder, AnswersOnce, CallsAreNew, CallsNamed, HostIsIn, Answered
  <2>2. AnswersOnce'
    BY <1>3, SMT
      DEF AnswersOnce, HostInOrder, CallerInOrder, CallsAreNew, CallsNamed, Answered, Asked, Taken, HostIsIn, Session
  <2>3. HostMeansIt' /\ CallerMeansIt'
    BY <1>3, SMT
      DEF HostMeansIt, CallerMeansIt, StopsFollow, AnswersOnce, HostInOrder, CallerInOrder, CallsAreNew,
          Answered, Asked, HasLeft, Taken, With, Leaving, Session
  <2>4. HostSaysIt' /\ CallerSaysIt'
    BY <1>3, SMT
      DEF HostSaysIt, CallerSaysIt, HostMeansIt, CallerMeansIt, StopsFollow, HostInOrder, CallerInOrder,
          AnswersOnce, CallsAreNew, Answered, Asked, Met, Calling, HasLeft, Taken, With, Leaving, Session
  <2>5. QED
    BY <2>1, <2>2, <2>3, <2>4
<1>4. QED
  BY <1>1, <1>2, <1>3

LEMMA EscapeGoodbyes ==
  ASSUME IInv, GInv, NEW p \in Peer, Escape(p) PROVE GInv'
<1> USE Threads, PacketsDiffer, MaxCallsAssumption
    DEF IInv, TypeOK, GInv, Goodbyes, Other, InChat, Peer, Call, Escape
<1>1. CallsAreNew'
  BY SMT DEF CallsAreNew, CallsNamed, Session
<1>2. StopsFollow'
  BY SMT DEF StopsFollow, Leaving
<1>3. ASSUME ~disturbed' PROVE Goodbyes'
  <2>1. HostInOrder' /\ CallerInOrder'
    BY <1>3, SMT DEF HostInOrder, CallerInOrder, AnswersOnce, CallsAreNew, CallsNamed, HostIsIn, Answered
  <2>2. AnswersOnce'
    BY <1>3, SMT
      DEF AnswersOnce, HostInOrder, CallerInOrder, CallsAreNew, CallsNamed, Answered, Asked, Taken, HostIsIn, Session
  <2>3. HostMeansIt' /\ CallerMeansIt'
    BY <1>3, SMT
      DEF HostMeansIt, CallerMeansIt, StopsFollow, AnswersOnce, HostInOrder, CallerInOrder, CallsAreNew,
          Answered, Asked, HasLeft, Taken, With, Leaving, Session
  <2>4. HostSaysIt' /\ CallerSaysIt'
    BY <1>3, SMT
      DEF HostSaysIt, CallerSaysIt, HostMeansIt, CallerMeansIt, StopsFollow, HostInOrder, CallerInOrder,
          AnswersOnce, CallsAreNew, Answered, Asked, Met, Calling, HasLeft, Taken, With, Leaving, Session
  <2>5. QED
    BY <2>1, <2>2, <2>3, <2>4
<1>4. QED
  BY <1>1, <1>2, <1>3

LEMMA ReceiveTextGoodbyes ==
  ASSUME IInv, GInv, NEW p \in Peer, NEW m \in net, ReceiveText(p, m) PROVE GInv'
<1> USE Threads, PacketsDiffer, MaxCallsAssumption
    DEF IInv, TypeOK, GInv, Goodbyes, Other, InChat, Peer, Call, ReceiveText, Takes
<1>1. CallsAreNew'
  BY SMT DEF CallsAreNew, CallsNamed, Session
<1>2. StopsFollow'
  BY SMT DEF StopsFollow, Leaving
<1>3. ASSUME ~disturbed' PROVE Goodbyes'
  <2>1. HostInOrder' /\ CallerInOrder'
    BY <1>3, SMT DEF HostInOrder, CallerInOrder, AnswersOnce, CallsAreNew, CallsNamed, HostIsIn, Answered
  <2>2. AnswersOnce'
    BY <1>3, SMT
      DEF AnswersOnce, HostInOrder, CallerInOrder, CallsAreNew, CallsNamed, Answered, Asked, Taken, HostIsIn, Session
  <2>3. HostMeansIt' /\ CallerMeansIt'
    BY <1>3, SMT
      DEF HostMeansIt, CallerMeansIt, StopsFollow, AnswersOnce, HostInOrder, CallerInOrder, CallsAreNew,
          Answered, Asked, HasLeft, Taken, With, Leaving, Session
  <2>4. HostSaysIt' /\ CallerSaysIt'
    BY <1>3, SMT
      DEF HostSaysIt, CallerSaysIt, HostMeansIt, CallerMeansIt, StopsFollow, HostInOrder, CallerInOrder,
          AnswersOnce, CallsAreNew, Answered, Asked, Met, Calling, HasLeft, Taken, With, Leaving, Session
  <2>5. QED
    BY <2>1, <2>2, <2>3, <2>4
<1>4. QED
  BY <1>1, <1>2, <1>3

LEMMA ChatOverGoodbyes ==
  ASSUME IInv, GInv, NEW p \in Peer, ChatOver(p) PROVE GInv'
<1> USE Threads, PacketsDiffer, MaxCallsAssumption
    DEF IInv, TypeOK, GInv, Goodbyes, Other, InChat, Peer, Call, ChatOver, OneStopped, stopped
<1>1. CallsAreNew'
  BY SMT DEF CallsAreNew, CallsNamed, Session
<1>2. StopsFollow'
  BY SMT DEF StopsFollow, Leaving
<1>3. ASSUME ~disturbed' PROVE Goodbyes'
  <2>1. HostInOrder' /\ CallerInOrder'
    BY <1>3, SMT DEF HostInOrder, CallerInOrder, AnswersOnce, CallsAreNew, CallsNamed, HostIsIn, Answered
  <2>2. AnswersOnce'
    BY <1>3, SMT
      DEF AnswersOnce, HostInOrder, CallerInOrder, CallsAreNew, CallsNamed, Answered, Asked, Taken, HostIsIn, Session
  <2>3. HostMeansIt' /\ CallerMeansIt'
    BY <1>3, SMT
      DEF HostMeansIt, CallerMeansIt, StopsFollow, AnswersOnce, HostInOrder, CallerInOrder, CallsAreNew,
          Answered, Asked, HasLeft, Taken, With, Leaving, Session
  <2>4. HostSaysIt' /\ CallerSaysIt'
    BY <1>3, SMT
      DEF HostSaysIt, CallerSaysIt, HostMeansIt, CallerMeansIt, StopsFollow, HostInOrder, CallerInOrder,
          AnswersOnce, CallsAreNew, Answered, Asked, Met, Calling, HasLeft, Taken, With, Leaving, Session
  <2>5. QED
    BY <2>1, <2>2, <2>3, <2>4
<1>4. QED
  BY <1>1, <1>2, <1>3

LEMMA JoinSenderGoodbyes ==
  ASSUME IInv, GInv, NEW p \in Peer, JoinSender(p) PROVE GInv'
<1> USE Threads, PacketsDiffer, MaxCallsAssumption
    DEF IInv, TypeOK, GInv, Goodbyes, Other, InChat, Peer, Call, JoinSender
<1>1. CallsAreNew'
  BY SMT DEF CallsAreNew, CallsNamed, Session
<1>2. StopsFollow'
  BY SMT DEF StopsFollow, Leaving
<1>3. ASSUME ~disturbed' PROVE Goodbyes'
  <2>1. HostInOrder' /\ CallerInOrder'
    BY <1>3, SMT DEF HostInOrder, CallerInOrder, AnswersOnce, CallsAreNew, CallsNamed, HostIsIn, Answered
  <2>2. AnswersOnce'
    BY <1>3, SMT
      DEF AnswersOnce, HostInOrder, CallerInOrder, CallsAreNew, CallsNamed, Answered, Asked, Taken, HostIsIn, Session
  <2>3. HostMeansIt' /\ CallerMeansIt'
    BY <1>3, SMT
      DEF HostMeansIt, CallerMeansIt, StopsFollow, AnswersOnce, HostInOrder, CallerInOrder, CallsAreNew,
          Answered, Asked, HasLeft, Taken, With, Leaving, Session
  <2>4. HostSaysIt' /\ CallerSaysIt'
    BY <1>3, SMT
      DEF HostSaysIt, CallerSaysIt, HostMeansIt, CallerMeansIt, StopsFollow, HostInOrder, CallerInOrder,
          AnswersOnce, CallsAreNew, Answered, Asked, Met, Calling, HasLeft, Taken, With, Leaving, Session
  <2>5. QED
    BY <2>1, <2>2, <2>3, <2>4
<1>4. QED
  BY <1>1, <1>2, <1>3

LEMMA JoinReceiverGoodbyes ==
  ASSUME IInv, GInv, NEW p \in Peer, JoinReceiver(p) PROVE GInv'
<1> USE Threads, PacketsDiffer, MaxCallsAssumption
    DEF IInv, TypeOK, GInv, Goodbyes, Other, InChat, Peer, Call, JoinReceiver
<1>1. CallsAreNew'
  BY SMT DEF CallsAreNew, CallsNamed, Session
<1>2. StopsFollow'
  BY SMT DEF StopsFollow, Leaving
<1>3. ASSUME ~disturbed' PROVE Goodbyes'
  <2>1. HostInOrder' /\ CallerInOrder'
    BY <1>3, SMT DEF HostInOrder, CallerInOrder, AnswersOnce, CallsAreNew, CallsNamed, HostIsIn, Answered
  <2>2. AnswersOnce'
    BY <1>3, SMT
      DEF AnswersOnce, HostInOrder, CallerInOrder, CallsAreNew, CallsNamed, Answered, Asked, Taken, HostIsIn, Session
  <2>3. HostMeansIt' /\ CallerMeansIt'
    BY <1>3, SMT
      DEF HostMeansIt, CallerMeansIt, StopsFollow, AnswersOnce, HostInOrder, CallerInOrder, CallsAreNew,
          Answered, Asked, HasLeft, Taken, With, Leaving, Session
  <2>4. HostSaysIt' /\ CallerSaysIt'
    BY <1>3, SMT
      DEF HostSaysIt, CallerSaysIt, HostMeansIt, CallerMeansIt, StopsFollow, HostInOrder, CallerInOrder,
          AnswersOnce, CallsAreNew, Answered, Asked, Met, Calling, HasLeft, Taken, With, Leaving, Session
  <2>5. QED
    BY <2>1, <2>2, <2>3, <2>4
<1>4. QED
  BY <1>1, <1>2, <1>3

LEMMA ConnectGoodbyes ==
  ASSUME IInv, GInv, Connect PROVE GInv'
<1> USE Threads, PacketsDiffer, MaxCallsAssumption
    DEF IInv, TypeOK, GInv, Goodbyes, Other, InChat, Peer, Call, Connect
<1>1. CallsAreNew'
  BY SMT DEF CallsAreNew, CallsNamed, Session
<1>2. StopsFollow'
  BY SMT DEF StopsFollow, Leaving
<1>3. ASSUME ~disturbed' PROVE Goodbyes'
  <2>1. HostInOrder' /\ CallerInOrder'
    BY <1>3, SMT DEF HostInOrder, CallerInOrder, AnswersOnce, CallsAreNew, CallsNamed, HostIsIn, Answered
  <2>2. AnswersOnce'
    BY <1>3, SMT
      DEF AnswersOnce, HostInOrder, CallerInOrder, CallsAreNew, CallsNamed, Answered, Asked, Taken, HostIsIn, Session
  <2>3. HostMeansIt' /\ CallerMeansIt'
    BY <1>3, SMT
      DEF HostMeansIt, CallerMeansIt, StopsFollow, AnswersOnce, HostInOrder, CallerInOrder, CallsAreNew,
          Answered, Asked, HasLeft, Taken, With, Leaving, Session
  <2>4. HostSaysIt' /\ CallerSaysIt'
    BY <1>3, SMT
      DEF HostSaysIt, CallerSaysIt, HostMeansIt, CallerMeansIt, StopsFollow, HostInOrder, CallerInOrder,
          AnswersOnce, CallsAreNew, Answered, Asked, Met, Calling, HasLeft, Taken, With, Leaving, Session
  <2>5. QED
    BY <2>1, <2>2, <2>3, <2>4
<1>4. QED
  BY <1>1, <1>2, <1>3

LEMMA LoginTimeoutGoodbyes ==
  ASSUME IInv, GInv, LoginTimeout PROVE GInv'
<1> USE Threads, PacketsDiffer, MaxCallsAssumption
    DEF IInv, TypeOK, GInv, Goodbyes, Other, InChat, Peer, Call, LoginTimeout
<1>1. CallsAreNew'
  BY SMT DEF CallsAreNew, CallsNamed, Session
<1>2. StopsFollow'
  BY SMT DEF StopsFollow, Leaving
<1>3. ASSUME ~disturbed' PROVE Goodbyes'
  <2>1. HostInOrder' /\ CallerInOrder'
    BY <1>3, SMT DEF HostInOrder, CallerInOrder, AnswersOnce, CallsAreNew, CallsNamed, HostIsIn, Answered
  <2>2. AnswersOnce'
    BY <1>3, SMT
      DEF AnswersOnce, HostInOrder, CallerInOrder, CallsAreNew, CallsNamed, Answered, Asked, Taken, HostIsIn, Session
  <2>3. HostMeansIt' /\ CallerMeansIt'
    BY <1>3, SMT
      DEF HostMeansIt, CallerMeansIt, StopsFollow, AnswersOnce, HostInOrder, CallerInOrder, CallsAreNew,
          Answered, Asked, HasLeft, Taken, With, Leaving, Session
  <2>4. HostSaysIt' /\ CallerSaysIt'
    BY <1>3, SMT
      DEF HostSaysIt, CallerSaysIt, HostMeansIt, CallerMeansIt, StopsFollow, HostInOrder, CallerInOrder,
          AnswersOnce, CallsAreNew, Answered, Asked, Met, Calling, HasLeft, Taken, With, Leaving, Session
  <2>5. QED
    BY <2>1, <2>2, <2>3, <2>4
<1>4. QED
  BY <1>1, <1>2, <1>3

LEMMA ReceiveAnswerGoodbyes ==
  ASSUME IInv, GInv, NEW m \in net, ReceiveAnswer(m) PROVE GInv'
<1> USE Threads, PacketsDiffer, MaxCallsAssumption
    DEF IInv, TypeOK, GInv, Goodbyes, Other, InChat, Peer, Call, ReceiveAnswer, StartChat, Takes
<1>1. CallsAreNew'
  <2>1. chatted' \subseteq chatted \cup {call} /\ net' \subseteq net
    BY DEF ReceiveAnswer, Takes
  <2>2. call' = call /\ asker' = asker /\ peer' = peer
    BY DEF ReceiveAnswer
  <2>3. QED
    BY <2>1, <2>2, SMT DEF CallsAreNew
<1>2. StopsFollow'
  BY SMT DEF StopsFollow, Leaving
<1>3. ASSUME ~disturbed' PROVE Goodbyes'
  <2>1. HostInOrder' /\ CallerInOrder'
    BY <1>3, SMT DEF HostInOrder, CallerInOrder, AnswersOnce, CallsAreNew, CallsNamed, HostIsIn, Answered
  <2>2. AnswersOnce'
    BY <1>3, SMT
      DEF AnswersOnce, HostInOrder, CallerInOrder, CallsAreNew, CallsNamed, Answered, Asked, Taken, HostIsIn, Session
  <2>3. HostMeansIt' /\ CallerMeansIt'
    BY <1>3, SMT
      DEF HostMeansIt, CallerMeansIt, StopsFollow, AnswersOnce, HostInOrder, CallerInOrder, CallsAreNew,
          Answered, Asked, HasLeft, Taken, With, Leaving, Session
  <2>4. HostSaysIt' /\ CallerSaysIt'
    BY <1>3, SMT
      DEF HostSaysIt, CallerSaysIt, HostMeansIt, CallerMeansIt, StopsFollow, HostInOrder, CallerInOrder,
          AnswersOnce, CallsAreNew, Answered, Asked, Met, Calling, HasLeft, Taken, With, Leaving, Session
  <2>5. QED
    BY <2>1, <2>2, <2>3, <2>4
<1>4. QED
  BY <1>1, <1>2, <1>3

LEMMA BindGoodbyes ==
  ASSUME IInv, GInv, Bind PROVE GInv'
<1> USE Threads, PacketsDiffer, MaxCallsAssumption
    DEF IInv, TypeOK, GInv, Goodbyes, Other, InChat, Peer, Call, Bind
<1>1. CallsAreNew'
  BY SMT DEF CallsAreNew, CallsNamed, Session
<1>2. StopsFollow'
  BY SMT DEF StopsFollow, Leaving
<1>3. ASSUME ~disturbed' PROVE Goodbyes'
  <2>1. HostInOrder' /\ CallerInOrder'
    BY <1>3, SMT DEF HostInOrder, CallerInOrder, AnswersOnce, CallsAreNew, CallsNamed, HostIsIn, Answered
  <2>2. AnswersOnce'
    BY <1>3, SMT
      DEF AnswersOnce, HostInOrder, CallerInOrder, CallsAreNew, CallsNamed, Answered, Asked, Taken, HostIsIn, Session
  <2>3. HostMeansIt' /\ CallerMeansIt'
    BY <1>3, SMT
      DEF HostMeansIt, CallerMeansIt, StopsFollow, AnswersOnce, HostInOrder, CallerInOrder, CallsAreNew,
          Answered, Asked, HasLeft, Taken, With, Leaving, Session
  <2>4. HostSaysIt' /\ CallerSaysIt'
    BY <1>3, SMT
      DEF HostSaysIt, CallerSaysIt, HostMeansIt, CallerMeansIt, StopsFollow, HostInOrder, CallerInOrder,
          AnswersOnce, CallsAreNew, Answered, Asked, Met, Calling, HasLeft, Taken, With, Leaving, Session
  <2>5. QED
    BY <2>1, <2>2, <2>3, <2>4
<1>4. QED
  BY <1>1, <1>2, <1>3

LEMMA PollGoodbyes ==
  ASSUME IInv, GInv, Poll PROVE GInv'
<1> USE Threads, PacketsDiffer, MaxCallsAssumption
    DEF IInv, TypeOK, GInv, Goodbyes, Other, InChat, Peer, Call, Poll, Takes
<1>1. CallsAreNew'
  BY SMT DEF CallsAreNew, CallsNamed, Session
<1>2. StopsFollow'
  BY SMT DEF StopsFollow, Leaving
<1>3. ASSUME ~disturbed' PROVE Goodbyes'
  <2>1. HostInOrder' /\ CallerInOrder'
    BY <1>3, SMT DEF HostInOrder, CallerInOrder, AnswersOnce, CallsAreNew, CallsNamed, HostIsIn, Answered
  <2>2. AnswersOnce'
    BY <1>3, SMT
      DEF AnswersOnce, HostInOrder, CallerInOrder, CallsAreNew, CallsNamed, Answered, Asked, Taken, HostIsIn, Session
  <2>3. HostMeansIt' /\ CallerMeansIt'
    BY <1>3, SMT
      DEF HostMeansIt, CallerMeansIt, StopsFollow, AnswersOnce, HostInOrder, CallerInOrder, CallsAreNew,
          Answered, Asked, HasLeft, Taken, With, Leaving, Session
  <2>4. HostSaysIt' /\ CallerSaysIt'
    BY <1>3, SMT
      DEF HostSaysIt, CallerSaysIt, HostMeansIt, CallerMeansIt, StopsFollow, HostInOrder, CallerInOrder,
          AnswersOnce, CallsAreNew, Answered, Asked, Met, Calling, HasLeft, Taken, With, Leaving, Session
  <2>5. QED
    BY <2>1, <2>2, <2>3, <2>4
<1>4. QED
  BY <1>1, <1>2, <1>3

LEMMA DenyGoodbyes ==
  ASSUME IInv, GInv, Deny PROVE GInv'
<1> USE Threads, PacketsDiffer, MaxCallsAssumption
    DEF IInv, TypeOK, GInv, Goodbyes, Other, InChat, Peer, Call, Deny
<1>1. CallsAreNew'
  BY SMT DEF CallsAreNew, CallsNamed, Session
<1>2. StopsFollow'
  BY SMT DEF StopsFollow, Leaving
<1>3. ASSUME ~disturbed' PROVE Goodbyes'
  <2>1. HostInOrder' /\ CallerInOrder'
    BY <1>3, SMT DEF HostInOrder, CallerInOrder, AnswersOnce, CallsAreNew, CallsNamed, HostIsIn, Answered
  <2>2. AnswersOnce'
    BY <1>3, SMT
      DEF AnswersOnce, HostInOrder, CallerInOrder, CallsAreNew, CallsNamed, Answered, Asked, Taken, HostIsIn, Session
  <2>3. HostMeansIt' /\ CallerMeansIt'
    BY <1>3, SMT
      DEF HostMeansIt, CallerMeansIt, StopsFollow, AnswersOnce, HostInOrder, CallerInOrder, CallsAreNew,
          Answered, Asked, HasLeft, Taken, With, Leaving, Session
  <2>4. HostSaysIt' /\ CallerSaysIt'
    BY <1>3, SMT
      DEF HostSaysIt, CallerSaysIt, HostMeansIt, CallerMeansIt, StopsFollow, HostInOrder, CallerInOrder,
          AnswersOnce, CallsAreNew, Answered, Asked, Met, Calling, HasLeft, Taken, With, Leaving, Session
  <2>5. QED
    BY <2>1, <2>2, <2>3, <2>4
<1>4. QED
  BY <1>1, <1>2, <1>3

LEMMA AcceptGoodbyes ==
  ASSUME IInv, GInv, Accept PROVE GInv'
<1> USE Threads, PacketsDiffer, MaxCallsAssumption
    DEF IInv, TypeOK, GInv, Goodbyes, Other, InChat, Peer, Call, Accept
<1>1. CallsAreNew'
  BY SMT DEF CallsAreNew, CallsNamed, Session
<1>2. StopsFollow'
  BY SMT DEF StopsFollow, Leaving
<1>3. ASSUME ~disturbed' PROVE Goodbyes'
  <2>1. HostInOrder' /\ CallerInOrder'
    BY <1>3, SMT DEF HostInOrder, CallerInOrder, AnswersOnce, CallsAreNew, CallsNamed, HostIsIn, Answered
  <2>2. AnswersOnce'
    BY <1>3, SMT
      DEF AnswersOnce, HostInOrder, CallerInOrder, CallsAreNew, CallsNamed, Answered, Asked, Taken, HostIsIn, Session
  <2>3. HostMeansIt' /\ CallerMeansIt'
    BY <1>3, SMT
      DEF HostMeansIt, CallerMeansIt, StopsFollow, AnswersOnce, HostInOrder, CallerInOrder, CallsAreNew,
          Answered, Asked, HasLeft, Taken, With, Leaving, Session
  <2>4. HostSaysIt' /\ CallerSaysIt'
    BY <1>3, SMT
      DEF HostSaysIt, CallerSaysIt, HostMeansIt, CallerMeansIt, StopsFollow, HostInOrder, CallerInOrder,
          AnswersOnce, CallsAreNew, Answered, Asked, Met, Calling, HasLeft, Taken, With, Leaving, Session
  <2>5. QED
    BY <2>1, <2>2, <2>3, <2>4
<1>4. QED
  BY <1>1, <1>2, <1>3

LEMMA JoinKeyboardGoodbyes ==
  ASSUME IInv, GInv, JoinKeyboard PROVE GInv'
<1> USE Threads, PacketsDiffer, MaxCallsAssumption
    DEF IInv, TypeOK, GInv, Goodbyes, Other, InChat, Peer, Call, JoinKeyboard, StartChat
<1>1. CallsAreNew'
  BY SMT DEF CallsAreNew, CallsNamed, Session
<1>2. StopsFollow'
  BY SMT DEF StopsFollow, Leaving
<1>3. ASSUME ~disturbed' PROVE Goodbyes'
  <2>1. HostInOrder' /\ CallerInOrder'
    BY <1>3, SMT DEF HostInOrder, CallerInOrder, AnswersOnce, CallsAreNew, CallsNamed, HostIsIn, Answered
  <2>2. AnswersOnce'
    BY <1>3, SMT
      DEF AnswersOnce, HostInOrder, CallerInOrder, CallsAreNew, CallsNamed, Answered, Asked, Taken, HostIsIn, Session
  <2>3. HostMeansIt' /\ CallerMeansIt'
    BY <1>3, SMT
      DEF HostMeansIt, CallerMeansIt, StopsFollow, AnswersOnce, HostInOrder, CallerInOrder, CallsAreNew,
          Answered, Asked, HasLeft, Taken, With, Leaving, Session
  <2>4. HostSaysIt' /\ CallerSaysIt'
    BY <1>3, SMT
      DEF HostSaysIt, CallerSaysIt, HostMeansIt, CallerMeansIt, StopsFollow, HostInOrder, CallerInOrder,
          AnswersOnce, CallsAreNew, Answered, Asked, Met, Calling, HasLeft, Taken, With, Leaving, Session
  <2>5. QED
    BY <2>1, <2>2, <2>3, <2>4
<1>4. QED
  BY <1>1, <1>2, <1>3

LEMMA CheckOnGoodbyes ==
  ASSUME IInv, GInv, CheckOn PROVE GInv'
<1> USE Threads, PacketsDiffer, MaxCallsAssumption
    DEF IInv, TypeOK, GInv, Goodbyes, Other, InChat, Peer, Call, CheckOn, stopped
<1>1. CallsAreNew'
  BY SMT DEF CallsAreNew, CallsNamed, Session
<1>2. StopsFollow'
  BY SMT DEF StopsFollow, Leaving
<1>3. ASSUME ~disturbed' PROVE Goodbyes'
  <2>1. HostInOrder' /\ CallerInOrder'
    BY <1>3, SMT DEF HostInOrder, CallerInOrder, AnswersOnce, CallsAreNew, CallsNamed, HostIsIn, Answered
  <2>2. AnswersOnce'
    BY <1>3, SMT
      DEF AnswersOnce, HostInOrder, CallerInOrder, CallsAreNew, CallsNamed, Answered, Asked, Taken, HostIsIn, Session
  <2>3. HostMeansIt' /\ CallerMeansIt'
    BY <1>3, SMT
      DEF HostMeansIt, CallerMeansIt, StopsFollow, AnswersOnce, HostInOrder, CallerInOrder, CallsAreNew,
          Answered, Asked, HasLeft, Taken, With, Leaving, Session
  <2>4. HostSaysIt' /\ CallerSaysIt'
    BY <1>3, SMT
      DEF HostSaysIt, CallerSaysIt, HostMeansIt, CallerMeansIt, StopsFollow, HostInOrder, CallerInOrder,
          AnswersOnce, CallsAreNew, Answered, Asked, Met, Calling, HasLeft, Taken, With, Leaving, Session
  <2>5. QED
    BY <2>1, <2>2, <2>3, <2>4
<1>4. QED
  BY <1>1, <1>2, <1>3

LEMMA CheckOutGoodbyes ==
  ASSUME IInv, GInv, CheckOut PROVE GInv'
<1> USE Threads, PacketsDiffer, MaxCallsAssumption
    DEF IInv, TypeOK, GInv, Goodbyes, Other, InChat, Peer, Call, CheckOut, stopped
<1>1. CallsAreNew'
  BY SMT DEF CallsAreNew, CallsNamed, Session
<1>2. StopsFollow'
  BY SMT DEF StopsFollow, Leaving
<1>3. ASSUME ~disturbed' PROVE Goodbyes'
  <2>1. HostInOrder' /\ CallerInOrder'
    BY <1>3, SMT DEF HostInOrder, CallerInOrder, AnswersOnce, CallsAreNew, CallsNamed, HostIsIn, Answered
  <2>2. AnswersOnce'
    BY <1>3, SMT
      DEF AnswersOnce, HostInOrder, CallerInOrder, CallsAreNew, CallsNamed, Answered, Asked, Taken, HostIsIn, Session
  <2>3. HostMeansIt' /\ CallerMeansIt'
    BY <1>3, SMT
      DEF HostMeansIt, CallerMeansIt, StopsFollow, AnswersOnce, HostInOrder, CallerInOrder, CallsAreNew,
          Answered, Asked, HasLeft, Taken, With, Leaving, Session
  <2>4. HostSaysIt' /\ CallerSaysIt'
    BY <1>3, SMT
      DEF HostSaysIt, CallerSaysIt, HostMeansIt, CallerMeansIt, StopsFollow, HostInOrder, CallerInOrder,
          AnswersOnce, CallsAreNew, Answered, Asked, Met, Calling, HasLeft, Taken, With, Leaving, Session
  <2>5. QED
    BY <2>1, <2>2, <2>3, <2>4
<1>4. QED
  BY <1>1, <1>2, <1>3

LEMMA KeyboardEscapesGoodbyes ==
  ASSUME IInv, GInv, KeyboardEscapes PROVE GInv'
<1> USE Threads, PacketsDiffer, MaxCallsAssumption
    DEF IInv, TypeOK, GInv, Goodbyes, Other, InChat, Peer, Call, KeyboardEscapes
<1>1. CallsAreNew'
  BY SMT DEF CallsAreNew, CallsNamed, Session
<1>2. StopsFollow'
  BY SMT DEF StopsFollow, Leaving
<1>3. ASSUME ~disturbed' PROVE Goodbyes'
  <2>1. HostInOrder' /\ CallerInOrder'
    BY <1>3, SMT DEF HostInOrder, CallerInOrder, AnswersOnce, CallsAreNew, CallsNamed, HostIsIn, Answered
  <2>2. AnswersOnce'
    BY <1>3, SMT
      DEF AnswersOnce, HostInOrder, CallerInOrder, CallsAreNew, CallsNamed, Answered, Asked, Taken, HostIsIn, Session
  <2>3. HostMeansIt' /\ CallerMeansIt'
    BY <1>3, SMT
      DEF HostMeansIt, CallerMeansIt, StopsFollow, AnswersOnce, HostInOrder, CallerInOrder, CallsAreNew,
          Answered, Asked, HasLeft, Taken, With, Leaving, Session
  <2>4. HostSaysIt' /\ CallerSaysIt'
    BY <1>3, SMT
      DEF HostSaysIt, CallerSaysIt, HostMeansIt, CallerMeansIt, StopsFollow, HostInOrder, CallerInOrder,
          AnswersOnce, CallsAreNew, Answered, Asked, Met, Calling, HasLeft, Taken, With, Leaving, Session
  <2>5. QED
    BY <2>1, <2>2, <2>3, <2>4
<1>4. QED
  BY <1>1, <1>2, <1>3

LEMMA LoseGoodbyes ==
  ASSUME IInv, GInv, Lose PROVE GInv'
<1> USE Threads, PacketsDiffer, MaxCallsAssumption
    DEF IInv, TypeOK, GInv, Goodbyes, Other, InChat, Peer, Call, Lose
<1>1. CallsAreNew'
  BY SMT DEF CallsAreNew, CallsNamed, Session
<1>2. StopsFollow'
  BY SMT DEF StopsFollow, Leaving
<1>3. ASSUME ~disturbed' PROVE Goodbyes'
  <2>1. HostInOrder' /\ CallerInOrder'
    BY <1>3, SMT DEF HostInOrder, CallerInOrder, AnswersOnce, CallsAreNew, CallsNamed, HostIsIn, Answered
  <2>2. AnswersOnce'
    BY <1>3, SMT
      DEF AnswersOnce, HostInOrder, CallerInOrder, CallsAreNew, CallsNamed, Answered, Asked, Taken, HostIsIn, Session
  <2>3. HostMeansIt' /\ CallerMeansIt'
    BY <1>3, SMT
      DEF HostMeansIt, CallerMeansIt, StopsFollow, AnswersOnce, HostInOrder, CallerInOrder, CallsAreNew,
          Answered, Asked, HasLeft, Taken, With, Leaving, Session
  <2>4. HostSaysIt' /\ CallerSaysIt'
    BY <1>3, SMT
      DEF HostSaysIt, CallerSaysIt, HostMeansIt, CallerMeansIt, StopsFollow, HostInOrder, CallerInOrder,
          AnswersOnce, CallsAreNew, Answered, Asked, Met, Calling, HasLeft, Taken, With, Leaving, Session
  <2>5. QED
    BY <2>1, <2>2, <2>3, <2>4
<1>4. QED
  BY <1>1, <1>2, <1>3

LEMMA GoodbyesInit == Init => GInv
<1> SUFFICES ASSUME Init PROVE GInv
  OBVIOUS
<1>1. CallsAreNew /\ StopsFollow
  BY Threads, SMT DEF Init, CallsAreNew, StopsFollow, InChat, Peer
<1>2. Goodbyes
  BY Threads, SMT
    DEF Init, Goodbyes, HostInOrder, CallerInOrder, AnswersOnce, HostMeansIt, CallerMeansIt,
        HostSaysIt, CallerSaysIt, Met, Taken, HostIsIn, Call, InChat, Peer
<1>3. QED
  BY <1>1, <1>2 DEF GInv

LEMMA GoodbyesStep == IInv /\ GInv /\ [Next]_vars => GInv'
<1> SUFFICES ASSUME IInv, GInv, [Next]_vars PROVE GInv'
  OBVIOUS
<1>1. ASSUME NEW t \in Thread, ThreadEnds(t) \/ ThreadStops(t) PROVE GInv'
  BY <1>1, ThreadEndsGoodbyes, ThreadStopsGoodbyes
<1>2. ASSUME NEW p \in Peer, ReadKey(p) \/ SendLine(p) \/ Escape(p) PROVE GInv'
  BY <1>2, ReadKeyGoodbyes, SendLineGoodbyes, EscapeGoodbyes
<1>3. ASSUME NEW p \in Peer, main_net_func(p) PROVE GInv'
  BY <1>3, ChatOverGoodbyes, JoinSenderGoodbyes, JoinReceiverGoodbyes DEF main_net_func
<1>4. ASSUME NEW p \in Peer, NEW m \in net, ReceiveText(p, m) PROVE GInv'
  BY <1>4, ReceiveTextGoodbyes
<1>5. CASE Connect \/ LoginTimeout \/ \E m \in net : ReceiveAnswer(m)
  BY <1>5, ConnectGoodbyes, LoginTimeoutGoodbyes, ReceiveAnswerGoodbyes
<1>6. CASE Bind \/ Poll \/ Deny \/ Accept
  BY <1>6, BindGoodbyes, PollGoodbyes, DenyGoodbyes, AcceptGoodbyes
<1>7. CASE JoinKeyboard \/ CheckOn \/ CheckOut \/ KeyboardEscapes
  BY <1>7, JoinKeyboardGoodbyes, CheckOnGoodbyes, CheckOutGoodbyes, KeyboardEscapesGoodbyes
<1>8. CASE Lose
  BY <1>8, LoseGoodbyes
<1>9. CASE UNCHANGED vars
  BY <1>9
    DEF vars, GInv, CallsAreNew, StopsFollow, Goodbyes, HostInOrder, CallerInOrder, AnswersOnce,
        HostMeansIt, CallerMeansIt, HostSaysIt, CallerSaysIt, Met, Calling, Answered, Asked, HostIsIn,
        HasLeft, Taken, With, Leaving, Session
<1>10. QED
  BY <1>1, <1>2, <1>3, <1>4, <1>5, <1>6, <1>7, <1>8, <1>9 DEF Next

\* If no datagram is lost or repeated, who leaves a chat that both were in leaves with
\* the peer or has a LOGOUT on its way to it, for any number of calls: the safety that
\* NobodyStaysAlone rests on.
THEOREM LeavesWithGoodbye == Spec => []GoodbyeIsUnderWay
<1>1. GInv => GoodbyeIsUnderWay
  BY SMT DEF GInv, Goodbyes, HostSaysIt, CallerSaysIt, Met, GoodbyeIsUnderWay, Other, Peer
<1>2. QED
  BY <1>1, Invariance, GoodbyesInit, GoodbyesStep, PTL DEF Spec

-----------------------------------------------------------------------------
(* No stop is lost *)

\* What the threads of a chat and the one that stops them have stored.
StopsSeen ==
  \A p \in Peer :
    /\ \A t \in {Sender(p), Receiver(p)} : pc[p] = "chat" /\ thread[t] = "ended" => stopped(t)
    /\ pc[p] \in {"stop_send", "stop_recv"} => Stopping(Sender(p))
    /\ pc[p] = "stop_recv" => Stopping(Receiver(p)) /\ thread[Sender(p)] = "ended"

\* Every step keeps what a stop has stored.
LEMMA StopsSeenStep == IInv /\ StopsSeen /\ [Next]_vars => StopsSeen'
<1> SUFFICES ASSUME IInv, StopsSeen, [Next]_vars PROVE StopsSeen'
  OBVIOUS
<1> USE Threads DEF IInv, TypeOK, StopsSeen, Stopping, stopped, InChat, Peer
<1>1. ASSUME NEW t \in Thread, ThreadEnds(t) \/ ThreadStops(t) PROVE StopsSeen'
  <2>1. CASE ThreadEnds(t)
    BY <2>1, SMT DEF ThreadEnds, Ends
  <2>2. CASE ThreadStops(t)
    BY <2>2, SMT DEF ThreadStops
  <2>3. QED
    BY <1>1, <2>1, <2>2
<1>2. ASSUME NEW p \in Peer, ReadKey(p) \/ SendLine(p) \/ Escape(p) PROVE StopsSeen'
  BY <1>2, SMT DEF ReadKey, SendLine, Escape
<1>3. ASSUME NEW p \in Peer, main_net_func(p) PROVE StopsSeen'
  <2>1. CASE ChatOver(p)
    BY <2>1, SMT DEF ChatOver
  <2>2. CASE JoinSender(p)
    BY <2>2, SMT DEF JoinSender
  <2>3. CASE JoinReceiver(p)
    BY <2>3, SMT DEF JoinReceiver
  <2>4. QED
    BY <1>3, <2>1, <2>2, <2>3 DEF main_net_func
<1>4. ASSUME NEW p \in Peer, NEW m \in net, ReceiveText(p, m) PROVE StopsSeen'
  BY <1>4, SMT DEF ReceiveText
<1>5. CASE Connect \/ LoginTimeout
  BY <1>5, SMT DEF Connect, LoginTimeout
<1>6. ASSUME NEW m \in net, ReceiveAnswer(m) PROVE StopsSeen'
  BY <1>6, SMT DEF ReceiveAnswer, StartChat
<1>7. CASE Bind \/ Poll \/ Deny \/ Accept
  BY <1>7, SMT DEF Bind, Poll, Deny, Accept
<1>8. CASE JoinKeyboard
  BY <1>8, SMT DEF JoinKeyboard, StartChat
<1>9. CASE CheckOn \/ CheckOut \/ KeyboardEscapes \/ Lose
  BY <1>9, SMT DEF CheckOn, CheckOut, KeyboardEscapes, Lose
<1>10. CASE UNCHANGED vars
  BY <1>10 DEF vars
<1>11. QED
  BY <1>1, <1>2, <1>3, <1>4, <1>5, <1>6, <1>7, <1>8, <1>9, <1>10 DEF Next

\* However a thread that ends and its owner that stops it interleave, each sees what
\* the other has stored; the host's keyboard thread is followed by the invariant above.
THEOREM StopsAreSeen == Spec => []NoStopIsLost
<1>1. Init => StopsSeen
  BY SMT DEF Init, StopsSeen, Peer
<1>2. IInv /\ StopsSeen => NoStopIsLost
  BY DEF IInv, KeyboardFollowed, StopsSeen, NoStopIsLost, stopped
<1>3. QED
  BY <1>1, <1>2, Invariance, StopsSeenStep, PTL DEF Spec
=============================================================================
