------------------------------- MODULE P2PChat -------------------------------
(***************************************************************************)
(* The chat of znet/p2p_test.cpp between a caller (menu entry 1) and a     *)
(* host (entry 2) over UDP, and the joining threads of znet/zthread.h it   *)
(* is built on: a zjthread's stop_state is 0 while it runs, its owner      *)
(* stores 1 to stop and join it, and the thread stores -1 when it ends.    *)
(* In a chat each program runs a thread that reads the keyboard and sends, *)
(* a thread that receives, and a main thread that waits for one to end and *)
(* then stops both.  A third thread lets the host's user leave by ESC      *)
(* while the main thread waits for a call.                                 *)
(*                                                                         *)
(* The network may lose, repeat and reorder datagrams.  A datagram's call  *)
(* is the caller's socket, of which each call has a new one.               *)
(***************************************************************************)
EXTENDS Integers

CONSTANT MaxCalls   \* a bound of the model: calls the caller makes

ASSUME MaxCallsAssumption == MaxCalls \in Nat

VARIABLES
  pc,          \* where the main thread of each program is
  call,        \* the caller's socket, 0 before the first
  asker,       \* the host's peer_addr
  peer,        \* the call the host's socket is connected to, or 0
  thread,      \* where each thread is
  stop_state,
  net,         \* datagrams on their way
  escaped,     \* history: the host's keyboard thread has taken an ESC
  chatted,     \* history: calls in which the caller got to chat
  disturbed    \* history: a datagram was lost or repeated, or connect failed

vars == <<pc, call, asker, peer, thread, stop_state, net, escaped, chatted, disturbed>>

Peer == {"caller", "host"}
Keyboard == <<"keyboard", "host">>
Sender(p) == <<"send", p>>
Receiver(p) == <<"recv", p>>
Thread == ({"send", "recv"} \X Peer) \cup {Keyboard}

Call == 1 .. MaxCalls
Datagram == [to : {"host"}, text : {"LOGIN", "line", "LOGOUT"}, call : Call]
       \cup [to : {"caller"}, text : {"ACCEPT", "DENY", "line", "LOGOUT"}, call : Call]

Other(p) == IF p = "host" THEN "caller" ELSE "host"
Packet(p, text, c) == [to |-> p, text |-> text, call |-> c]
Session(p) == IF p = "host" THEN peer ELSE call

Init ==
  /\ pc = [p \in Peer |-> "menu"]
  /\ call = 0 /\ asker = 0 /\ peer = 0
  /\ thread = [t \in Thread |-> "none"]
  /\ stop_state = [t \in Thread |-> 0]
  /\ net = {}
  /\ escaped = FALSE /\ chatted = {} /\ disturbed = FALSE

-----------------------------------------------------------------------------
(* zjthread *)

Stopping(t) == stop_state[t] # 0
stopped(t) == stop_state[t] = -1

\* The function a thread was given has returned: it marks itself stopped, also when
\* its owner has asked it to stop.
Ends_Unmarked(t) ==
  /\ thread[t] = "leaving"
  /\ thread' = [thread EXCEPT ![t] = "ended"]
  /\ stop_state' = IF Stopping(t) THEN stop_state ELSE [stop_state EXCEPT ![t] = -1]

Ends(t) ==
  /\ thread[t] = "leaving"
  /\ thread' = [thread EXCEPT ![t] = "ended"]
  /\ stop_state' = [stop_state EXCEPT ![t] = -1]

ThreadEnds(t) ==
  /\ Ends(t)
  /\ UNCHANGED <<pc, call, asker, peer, net, escaped, chatted, disturbed>>

\* A thread sees at the top of its loop that it should stop.
ThreadStops(t) ==
  /\ thread[t] = "run" /\ Stopping(t)
  /\ thread' = [thread EXCEPT ![t] = "leaving"]
  /\ UNCHANGED <<pc, call, asker, peer, stop_state, net, escaped, chatted, disturbed>>

-----------------------------------------------------------------------------
(* The network *)

\* A datagram is taken off the way; one that is repeated stays on it.
Takes(m) ==
  \/ net' = net \ {m} /\ UNCHANGED disturbed
  \/ net' = net /\ disturbed' = TRUE

Lose ==
  /\ \E m \in net : net' = net \ {m}
  /\ disturbed' = TRUE
  /\ UNCHANGED <<pc, call, asker, peer, thread, stop_state, escaped, chatted>>

-----------------------------------------------------------------------------
(* main_net_func, in either program *)

StartChat(p) ==
  /\ thread' = [thread EXCEPT ![Sender(p)] = "run", ![Receiver(p)] = "run",
                              ![Keyboard] = IF p = "host" THEN "joined" ELSE @]
  /\ stop_state' = [stop_state EXCEPT ![Sender(p)] = 0, ![Receiver(p)] = 0]
  /\ pc' = [pc EXCEPT ![p] = "chat"]

\* A key, and what it leads to: a line, which is read to its end before anything else
\* is looked at, or an ESC.
ReadKey(p) ==
  /\ thread[Sender(p)] = "run" /\ ~Stopping(Sender(p))
  /\ thread' = [thread EXCEPT ![Sender(p)] = "key"]
  /\ UNCHANGED <<pc, call, asker, peer, stop_state, net, escaped, chatted, disturbed>>

SendLine(p) ==
  /\ thread[Sender(p)] = "key"
  /\ thread' = [thread EXCEPT ![Sender(p)] = "run"]
  /\ net' = net \cup {Packet(Other(p), "line", Session(p))}
  /\ UNCHANGED <<pc, call, asker, peer, stop_state, escaped, chatted, disturbed>>

Escape_Silent(p) ==
  /\ thread[Sender(p)] = "key"
  /\ thread' = [thread EXCEPT ![Sender(p)] = "leaving"]
  /\ UNCHANGED <<pc, call, asker, peer, stop_state, net, escaped, chatted, disturbed>>

Escape(p) ==
  /\ thread[Sender(p)] = "key"
  /\ thread' = [thread EXCEPT ![Sender(p)] = "leaving"]
  /\ net' = net \cup {Packet(Other(p), "LOGOUT", Session(p))}
  /\ UNCHANGED <<pc, call, asker, peer, stop_state, escaped, chatted, disturbed>>

ReceiveText(p, m) ==
  /\ thread[Receiver(p)] = "run"
  /\ m \in net /\ m.to = p /\ m.call = Session(p)
  /\ Takes(m)
  /\ thread' = IF m.text = "LOGOUT" THEN [thread EXCEPT ![Receiver(p)] = "leaving"] ELSE thread
  /\ UNCHANGED <<pc, call, asker, peer, stop_state, escaped, chatted>>

\* The main thread polls both threads, then stops and joins one after the other.
OneStopped_Both(p) == stopped(Sender(p)) /\ stopped(Receiver(p))

OneStopped(p) == stopped(Sender(p)) \/ stopped(Receiver(p))

ChatOver(p) ==
  /\ pc[p] = "chat" /\ OneStopped(p)
  /\ stop_state' = [stop_state EXCEPT ![Sender(p)] = 1]
  /\ pc' = [pc EXCEPT ![p] = "stop_send"]
  /\ UNCHANGED <<call, asker, peer, thread, net, escaped, chatted, disturbed>>

JoinSender_Unsaid(p) ==
  /\ pc[p] = "stop_send" /\ thread[Sender(p)] = "ended"
  /\ pc' = [pc EXCEPT ![p] = "stop_recv"]
  /\ UNCHANGED <<call, asker, peer, thread, stop_state, net, escaped, chatted, disturbed>>

JoinSender(p) ==
  /\ pc[p] = "stop_send" /\ thread[Sender(p)] = "ended"
  /\ stop_state' = [stop_state EXCEPT ![Receiver(p)] = 1]
  /\ pc' = [pc EXCEPT ![p] = "stop_recv"]
  /\ UNCHANGED <<call, asker, peer, thread, net, escaped, chatted, disturbed>>

JoinReceiver_Detached(p) ==
  /\ pc[p] = "stop_recv"
  /\ pc' = [pc EXCEPT ![p] = IF p = "host" THEN "check" ELSE "menu"]
  /\ UNCHANGED <<call, asker, peer, thread, stop_state, net, escaped, chatted, disturbed>>

\* The caller closes its socket and is back in the menu, the host is at the end of
\* its waiting loop.
JoinReceiver_Waiting(p) ==
  /\ pc[p] = "stop_recv" /\ thread[Receiver(p)] = "ended"
  /\ thread' = [thread EXCEPT ![Sender(p)] = "none", ![Receiver(p)] = "none"]
  /\ pc' = [pc EXCEPT ![p] = IF p = "host" THEN "wait" ELSE "menu"]
  /\ UNCHANGED <<call, asker, peer, stop_state, net, escaped, chatted, disturbed>>

JoinReceiver(p) ==
  /\ pc[p] = "stop_recv" /\ thread[Receiver(p)] = "ended"
  /\ thread' = [thread EXCEPT ![Sender(p)] = "none", ![Receiver(p)] = "none"]
  /\ pc' = [pc EXCEPT ![p] = IF p = "host" THEN "check" ELSE "menu"]
  /\ UNCHANGED <<call, asker, peer, stop_state, net, escaped, chatted, disturbed>>

main_net_func(p) == ChatOver(p) \/ JoinSender(p) \/ JoinReceiver(p)

-----------------------------------------------------------------------------
(* The caller *)

Connect ==
  /\ pc["caller"] = "menu" /\ call < MaxCalls
  /\ call' = call + 1
  /\ net' = net \cup {Packet("host", "LOGIN", call + 1)}
  /\ pc' = [pc EXCEPT !["caller"] = "login"]
  /\ UNCHANGED <<asker, peer, thread, stop_state, escaped, chatted, disturbed>>

\* Any text but LOGIN_ACCEPT ends the attempt.
ReceiveAnswer(m) ==
  /\ pc["caller"] = "login"
  /\ m \in net /\ m.to = "caller" /\ m.call = call
  /\ Takes(m)
  /\ IF m.text = "ACCEPT"
     THEN StartChat("caller") /\ chatted' = chatted \cup {call}
     ELSE pc' = [pc EXCEPT !["caller"] = "menu"] /\ UNCHANGED <<thread, stop_state, chatted>>
  /\ UNCHANGED <<call, asker, peer, escaped>>

LoginTimeout ==
  /\ pc["caller"] = "login"
  /\ pc' = [pc EXCEPT !["caller"] = "menu"]
  /\ UNCHANGED <<call, asker, peer, thread, stop_state, net, escaped, chatted, disturbed>>

-----------------------------------------------------------------------------
(* The host *)

Bind ==
  /\ pc["host"] = "menu"
  /\ pc' = [pc EXCEPT !["host"] = "wait"]
  /\ peer' = 0
  /\ thread' = [thread EXCEPT ![Keyboard] = "run"]
  /\ stop_state' = [stop_state EXCEPT ![Keyboard] = 0]
  /\ escaped' = FALSE
  /\ UNCHANGED <<call, asker, net, chatted, disturbed>>

\* One turn of the waiting loop: a call, another datagram, or nothing.  A socket that
\* is connected receives from its peer only.
Poll ==
  /\ pc["host"] = "wait"
  /\ \/ /\ pc' = [pc EXCEPT !["host"] = "check"]
        /\ UNCHANGED <<asker, net, disturbed>>
     \/ \E m \in net :
          /\ m.to = "host" /\ peer \in {0, m.call}
          /\ Takes(m)
          /\ asker' = m.call
          /\ pc' = [pc EXCEPT !["host"] = IF m.text = "LOGIN" THEN "ask" ELSE "check"]
  /\ UNCHANGED <<call, peer, thread, stop_state, escaped, chatted>>

Deny ==
  /\ pc["host"] = "ask"
  /\ net' = net \cup {Packet("caller", "DENY", asker)}
  /\ pc' = [pc EXCEPT !["host"] = "check"]
  /\ UNCHANGED <<call, asker, peer, thread, stop_state, escaped, chatted, disturbed>>

\* Stopping the keyboard thread joins it, and joining a thread a second time throws
\* an exception that nothing catches.
Accept ==
  /\ pc["host"] = "ask"
  /\ net' = net \cup {Packet("caller", "ACCEPT", asker)}
  /\ stop_state' = [stop_state EXCEPT ![Keyboard] = 1]
  /\ pc' = [pc EXCEPT !["host"] = IF thread[Keyboard] = "joined" THEN "crashed" ELSE "stop_keyboard"]
  /\ UNCHANGED <<call, asker, peer, thread, escaped, chatted, disturbed>>

JoinKeyboard ==
  /\ pc["host"] = "stop_keyboard" /\ thread[Keyboard] = "ended"
  /\ \/ StartChat("host") /\ peer' = asker /\ UNCHANGED disturbed
     \/ /\ pc' = [pc EXCEPT !["host"] = "check"]
        /\ thread' = [thread EXCEPT ![Keyboard] = "joined"]
        /\ disturbed' = TRUE
        /\ UNCHANGED <<peer, stop_state>>
  /\ UNCHANGED <<call, asker, net, escaped, chatted>>

\* The loop goes on until the keyboard thread has stopped; its destructor joins it.
CheckOn ==
  /\ pc["host"] = "check" /\ ~stopped(Keyboard)
  /\ pc' = [pc EXCEPT !["host"] = "wait"]
  /\ UNCHANGED <<call, asker, peer, thread, stop_state, net, escaped, chatted, disturbed>>

CheckOut ==
  /\ pc["host"] = "check" /\ stopped(Keyboard)
  /\ thread' = [thread EXCEPT ![Keyboard] = "none"]
  /\ pc' = [pc EXCEPT !["host"] = "menu"]
  /\ UNCHANGED <<call, asker, peer, stop_state, net, escaped, chatted, disturbed>>

KeyboardEscapes ==
  /\ thread[Keyboard] = "run"
  /\ thread' = [thread EXCEPT ![Keyboard] = "leaving"]
  /\ escaped' = TRUE
  /\ UNCHANGED <<pc, call, asker, peer, stop_state, net, chatted, disturbed>>

Next ==
  \/ \E t \in Thread : ThreadEnds(t) \/ ThreadStops(t)
  \/ \E p \in Peer : ReadKey(p) \/ SendLine(p) \/ Escape(p) \/ main_net_func(p)
  \/ \E p \in Peer, m \in net : ReceiveText(p, m)
  \/ Connect \/ LoginTimeout
  \/ \E m \in net : ReceiveAnswer(m)
  \/ Bind \/ Poll \/ Deny \/ Accept \/ JoinKeyboard \/ CheckOn \/ CheckOut \/ KeyboardEscapes
  \/ Lose

\* The scheduler runs every thread, a user who has begun a line ends it, and a
\* datagram that is not lost arrives.
Fairness ==
  /\ \A t \in Thread : WF_vars(ThreadEnds(t)) /\ WF_vars(ThreadStops(t))
  /\ \A p \in Peer : WF_vars(main_net_func(p)) /\ WF_vars(SendLine(p) \/ Escape(p))
  /\ \A m \in Datagram : WF_vars(ReceiveText(m.to, m))
  /\ WF_vars(JoinKeyboard) /\ WF_vars(CheckOn \/ CheckOut)

Spec == Init /\ [][Next]_vars /\ Fairness

-----------------------------------------------------------------------------
(* Properties *)

InChat == {"chat", "stop_send", "stop_recv"}
ThreadPlace == {"none", "run", "key", "leaving", "ended", "joined"}

\* The types, and no thread of a chat outlives the function whose buffers it uses.
TypeOK ==
  /\ pc \in [Peer -> {"menu", "login", "wait", "ask", "stop_keyboard", "check", "crashed"} \cup InChat]
  /\ call \in 0 .. MaxCalls /\ asker \in 0 .. MaxCalls /\ peer \in 0 .. MaxCalls
  /\ thread \in [Thread -> ThreadPlace]
  /\ stop_state \in [Thread -> {0, 1, -1}]
  /\ net \subseteq Datagram
  /\ escaped \in BOOLEAN /\ chatted \subseteq Call /\ disturbed \in BOOLEAN
  /\ \A p \in Peer :
       pc[p] \notin InChat => thread[Sender(p)] = "none" /\ thread[Receiver(p)] = "none"

\* Whatever datagrams come twice or late, the host's program is terminated only if
\* its keyboard thread had taken an ESC before the user accepted a call.
CrashNeedsEscape == pc["host"] = "crashed" => escaped

\* However the thread that ends and the one that stops it order their stores, no stop
\* is lost: the main thread of a chat can see that one of its threads has ended, what
\* it stops sees that it should, and the host's waiting loop sees after a chat that
\* its keyboard thread has stopped, unless that one had taken an ESC.
NoStopIsLost ==
  /\ \A p \in Peer :
       /\ \A t \in {Sender(p), Receiver(p)} : pc[p] = "chat" /\ thread[t] = "ended" => stopped(t)
       /\ pc[p] \in {"stop_send", "stop_recv"} => Stopping(Sender(p))
       /\ pc[p] = "stop_recv" => Stopping(Receiver(p)) /\ thread[Sender(p)] = "ended"
  /\ pc["host"] \in InChat /\ ~escaped => stopped(Keyboard)

\* And with the same exception, a chat that is over brings the host to its menu.
HostReturns == (pc["host"] = "stop_recv" /\ ~escaped) ~> pc["host"] = "menu"

\* When a thread of a chat has ended, by the user's ESC or the peer's LOGOUT, the
\* other one ends too and the program leaves the chat.
ChatEnds ==
  \A p \in Peer :
    (pc[p] = "chat" /\ \E t \in {Sender(p), Receiver(p)} : thread[t] = "ended") ~> pc[p] \notin InChat

\* A program is in the chat of a call, a thread of its chat is over, the host has
\* accepted a call whose chat it has not begun, and a program is out of a call's chat
\* or on its way out.
With(p, c) == pc[p] \in InChat /\ Session(p) = c
Leaving(p) == \E t \in {Sender(p), Receiver(p)} : thread[t] \in {"leaving", "ended"}
Taken(c) == pc["host"] = "stop_keyboard" /\ asker = c
HasLeft(p, c) == (With(p, c) => Leaving(p)) /\ (p = "host" => ~Taken(c))

\* If no datagram is lost or repeated, whoever leaves a chat that both have been in
\* leaves with the peer, or a LOGOUT for the peer is on its way: also where the host
\* leaves before the caller has read that it was accepted, or the caller before the
\* host's chat has begun.
GoodbyeIsUnderWay ==
  ~disturbed =>
    \A p \in Peer, c \in Call :
      c \in chatted /\ HasLeft(Other(p), c) => HasLeft(p, c) \/ Packet(p, "LOGOUT", c) \in net

\* If no datagram is lost or repeated, nobody stays in a chat that the peer has left.
NobodyStaysAlone ==
  []~disturbed =>
    \A p \in Peer, c \in Call :
      (With(p, c) /\ c \in chatted /\ ~With(Other(p), c) /\ pc["host"] # "stop_keyboard") ~> ~With(p, c)
=============================================================================
