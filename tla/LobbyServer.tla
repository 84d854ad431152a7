----------------------------- MODULE LobbyServer -----------------------------
(***************************************************************************)
(* The TCP side of the lobby server, src/znet/aocf_server.cpp: one main    *)
(* thread that accepts connections and erases finished users, one detached *)
(* thread per connection, the shared user_map behind user_mutex, the       *)
(* per-room USER_COUNT atomics, and the operating system's table of socket *)
(* descriptors.  The UDP thread appears by the one thing it does to this   *)
(* state, storing a peer's external port.                                  *)
(*                                                                         *)
(* A critical section that nothing can observe half done is one step.  The *)
(* exception is shared_iter_user_data, which sends to one user after the   *)
(* other while it holds user_mutex in shared mode: a send may block, other *)
(* readers run meanwhile, and writers wait.                                *)
(***************************************************************************)
EXTENDS Naturals, FiniteSets

CONSTANTS
  Conn,        \* TCP connections; each is accepted at most once
  Nick,        \* nicknames
  Room,        \* RoomType without INVALID_ROOM
  Fd,          \* socket descriptors the operating system may hand out
  Port,        \* external UDP ports a client may be seen with
  Slow,        \* the clients that may stop reading for a while
  NoConn, NoNick, InvalidRoom, NoFd, NoPort,   \* "absent" values
  CountLimit,  \* number of values of a USER_COUNT counter (2^32)
  PortIters,   \* UDP_PORT_ITERS
  MaxMsgs      \* bound: lines a connection sends beyond NICK, PASS, USER, JOIN

ASSUME ConnAssumption ==
  /\ IsFiniteSet(Conn)
  /\ CountLimit \in Nat
  /\ Cardinality(Conn) < CountLimit

ASSUME AbsentAssumption ==
  /\ NoConn \notin Conn
  /\ NoNick \notin Nick
  /\ InvalidRoom \notin Room
  /\ NoFd \notin Fd
  /\ NoPort \notin Port

ASSUME BoundAssumption == PortIters \in Nat \ {0} /\ MaxMsgs \in Nat

VARIABLES
  main,        \* the main thread: "accept", "wait", "stopping", "exited"
  fdtab,       \* operating system: the connection an open descriptor is for
  user_map,    \* nickname -> UserData; NoUser where the map has no entry
  USER_COUNT,  \* per room: users waiting for a match
  pc,          \* where a connection's thread is
  sock,        \* the thread's copy of the descriptor (response_socket)
  nick,        \* nick_view
  room,        \* room_type
  is_waiting,  \* the thread's is_waiting
  readers,     \* threads iterating under the shared lock
  todo,        \* the names such a thread has not visited yet
  tries,       \* iterations of the external-port poll
  carry,       \* the port appended to the message about to be relayed
  msgs,        \* lines received beyond those four (bounded by MaxMsgs)
  reading,     \* client: "reading", "stalled", "drained"
  heard        \* history: ports reported for the session's own map entry

osVars == <<fdtab, sock>>
sharedVars == <<user_map, USER_COUNT>>
lockVars == <<readers, todo>>
pollVars == <<tries, carry>>
envVars == <<reading, heard>>
vars == <<main, osVars, sharedVars, pc, nick, room, is_waiting, pollVars, msgs,
          lockVars, envVars>>

-----------------------------------------------------------------------------
UserData == [owner : Conn \union {NoConn}, socket : Fd \union {NoFd},
             room_type : Room \union {InvalidRoom}, delete_flag : BOOLEAN,
             external_port : Port \union {NoPort}]

NoUser == [owner |-> NoConn, socket |-> NoFd, room_type |-> InvalidRoom,
           delete_flag |-> FALSE, external_port |-> NoPort]

\* The constructor: everything but nickname and socket has its default value.
NewUser(c, f) == [NoUser EXCEPT !.owner = c, !.socket = f]

\* What joining a room assigns (the address is not modelled).
Joined_Rebuilt(u, r) == [NewUser(u.owner, u.socket) EXCEPT !.room_type = r]
Joined(u, r) == [u EXCEPT !.room_type = r]

Contains(n) == user_map[n].owner # NoConn
Registered == {n \in Nick : Contains(n)}

\* Where a thread is while it walks user_map, and while its user is listed.
BcastPcs == {"stat_inc", "welcome_dec", "ping_dec", "relay"}
NamedPcs == BcastPcs \union {"join", "enter", "serve", "poll", "pong", "remove"}
Pcs == NamedPcs \union {"idle", "login", "insert", "renick", "close", "done"}

\* A send on descriptor f blocks while the client behind it does not read; on
\* a closed descriptor it fails at once, which every caller ignores.
Blocked(f) == /\ fdtab[f] # NoConn
              /\ reading[fdtab[f]] = "stalled"

Inc(x) == IF x = CountLimit - 1 THEN 0 ELSE x + 1
Dec(x) == IF x = 0 THEN CountLimit - 1 ELSE x - 1

\* user_mutex: a writer gets it when no reader holds it.
UniqueLock_Unguarded == TRUE
UniqueLock == readers = {}
SharedUnlock_Forgotten(c) == UNCHANGED readers
SharedUnlock(c) == readers' = readers \ {c}

Running == main # "exited"
At(c, p) == Running /\ pc[c] = p
Goto(c, p) == pc' = [pc EXCEPT ![c] = p]
CanReceive(c) == msgs[c] < MaxMsgs
CountMsg(c) == msgs' = [msgs EXCEPT ![c] = @ + 1]

-----------------------------------------------------------------------------
Init ==
  /\ main = "accept"
  /\ fdtab = [f \in Fd |-> NoConn]
  /\ user_map = [n \in Nick |-> NoUser]
  /\ USER_COUNT = [r \in Room |-> 0]
  /\ pc = [c \in Conn |-> "idle"]
  /\ sock = [c \in Conn |-> NoFd]
  /\ nick = [c \in Conn |-> NoNick]
  /\ room = [c \in Conn |-> InvalidRoom]
  /\ is_waiting = [c \in Conn |-> FALSE]
  /\ readers = {}
  /\ todo = [c \in Conn |-> {}]
  /\ tries = [c \in Conn |-> 0]
  /\ carry = [c \in Conn |-> NoPort]
  /\ msgs = [c \in Conn |-> 0]
  /\ reading = [c \in Conn |-> "reading"]
  /\ heard = [c \in Conn |-> {}]

-----------------------------------------------------------------------------
(* The main thread. *)

\* accept() yields a connection on some free descriptor and a detached thread
\* is started for it.
Accept(c, f) ==
  /\ main = "accept" /\ pc[c] = "idle" /\ fdtab[f] = NoConn
  /\ main' = "wait"
  /\ fdtab' = [fdtab EXCEPT ![f] = c]
  /\ sock' = [sock EXCEPT ![c] = f]
  /\ Goto(c, "login")
  /\ UNCHANGED <<sharedVars, nick, room, is_waiting, pollVars, msgs, lockVars, envVars>>

\* The non-blocking accept() found no connection (or no free descriptor).
AcceptNone ==
  /\ main = "accept"
  /\ main' = "wait"
  /\ UNCHANGED <<osVars, sharedVars, pc, nick, room, is_waiting, pollVars, msgs,
                 lockVars, envVars>>

Flagged_Always(n) == Contains(n)
Flagged(n) == Contains(n) /\ user_map[n].delete_flag

\* exclusive_iter_user_data: every flagged user is erased and deleted, and
\* ~UserData closes the descriptor it holds, whoever that is by now.  Then the
\* loop runs again, or ends because the keyboard thread has stopped.
Sweep ==
  /\ main = "wait" /\ UniqueLock
  /\ user_map' = [n \in Nick |-> IF Flagged(n) THEN NoUser ELSE user_map[n]]
  /\ fdtab' = [f \in Fd |-> IF \E n \in Nick : Flagged(n) /\ user_map[n].socket = f
                            THEN NoConn ELSE fdtab[f]]
  /\ main' \in {"accept", "stopping"}
  /\ UNCHANGED <<sock, USER_COUNT, pc, nick, room, is_waiting, pollVars, msgs,
                 lockVars, envVars>>

\* main stops the UDP thread, closes its sockets and returns; the detached
\* threads run on until the process is gone.
Exit ==
  /\ main = "stopping"
  /\ main' = "exited"
  /\ UNCHANGED <<osVars, sharedVars, pc, nick, room, is_waiting, pollVars, msgs,
                 lockVars, envVars>>

Main == (\E c \in Conn, f \in Fd : Accept(c, f)) \/ AcceptNone \/ Sweep \/ Exit

-----------------------------------------------------------------------------
(* A connection's thread: logging in. *)

\* "E" is sent, then NICK, PASS and USER arrive.
Login(c, n) ==
  /\ At(c, "login") /\ ~Blocked(sock[c])
  /\ nick' = [nick EXCEPT ![c] = n]
  /\ Goto(c, "insert")
  /\ UNCHANGED <<main, osVars, sharedVars, room, is_waiting, pollVars, msgs,
                 lockVars, envVars>>

\* Where a failed login goes on: there is no entry of its own to flag.
AfterLoginFail_Remove(c) == IF nick[c] = NoNick THEN "close" ELSE "remove"
AfterLoginFail_NoClose(c) == "done"
AfterLoginFail(c) == "close"

\* One of the three does not arrive in time, or is not what it should be; the
\* same for the new NICK asked for when the first one was taken.
LoginFail(c) ==
  /\ At(c, "login") \/ At(c, "renick")
  /\ ~Blocked(sock[c])
  /\ Goto(c, AfterLoginFail(c))
  /\ UNCHANGED <<main, osVars, sharedVars, nick, room, is_waiting, pollVars,
                 msgs, lockVars, envVars>>

\* insert_user_data, under the unique lock.
Insert(c) ==
  /\ At(c, "insert") /\ UniqueLock /\ ~Contains(nick[c])
  /\ user_map' = [user_map EXCEPT ![nick[c]] = NewUser(c, sock[c])]
  /\ Goto(c, "join")
  /\ UNCHANGED <<main, osVars, USER_COUNT, nick, room, is_waiting, pollVars, msgs,
                 lockVars, envVars>>

InsertInUse(c) ==
  /\ At(c, "insert") /\ UniqueLock /\ Contains(nick[c])
  /\ Goto(c, "renick")
  /\ UNCHANGED <<main, osVars, sharedVars, nick, room, is_waiting, pollVars,
                 msgs, lockVars, envVars>>

\* NICK_IN_USE_REPLY is sent and another NICK arrives.
Renick(c, n) ==
  /\ At(c, "renick") /\ CanReceive(c) /\ ~Blocked(sock[c])
  /\ CountMsg(c)
  /\ nick' = [nick EXCEPT ![c] = n]
  /\ Goto(c, "insert")
  /\ UNCHANGED <<main, osVars, sharedVars, room, is_waiting, pollVars, lockVars,
                 envVars>>

\* A JOIN line for a known room.
Join(c, r) ==
  /\ At(c, "join") /\ ~Blocked(sock[c])
  /\ room' = [room EXCEPT ![c] = r]
  /\ Goto(c, "enter")
  /\ UNCHANGED <<main, osVars, sharedVars, nick, is_waiting, pollVars, msgs, lockVars,
                 envVars>>

\* No JOIN within JOIN_SETUP_TIMEOUT, or an unknown room.
JoinFail(c) ==
  /\ At(c, "join") /\ ~Blocked(sock[c])
  /\ Goto(c, "remove")
  /\ UNCHANGED <<main, osVars, sharedVars, nick, room, is_waiting, pollVars,
                 msgs, lockVars, envVars>>

\* shared_user_data: the entry found under the nickname gets the room.
Enter(c) ==
  /\ At(c, "enter")
  /\ user_map' = IF Contains(nick[c])
                 THEN [user_map EXCEPT ![nick[c]] = Joined(@, room[c])]
                 ELSE user_map
  /\ Goto(c, "serve")
  /\ UNCHANGED <<main, osVars, USER_COUNT, nick, room, is_waiting, pollVars, msgs,
                 lockVars, envVars>>

-----------------------------------------------------------------------------
(* A connection's thread: in a room. *)

\* receive_message yields a line while the inner loop runs.
Receive(c) ==
  /\ At(c, "serve") /\ CanReceive(c)
  /\ CountMsg(c)
  /\ carry' = [carry EXCEPT ![c] = NoPort]
  /\ tries' = [tries EXCEPT ![c] = 0]

\* "if (is_waiting) send_user_count_packet<DEC>": count the user out and go to
\* announce that, else go on.
CountOut_Unchecked(c, announce, next) ==
  Goto(c, announce) /\ USER_COUNT' = [USER_COUNT EXCEPT ![room[c]] = Dec(@)]
CountOut(c, announce, next) ==
  IF is_waiting[c]
  THEN Goto(c, announce) /\ USER_COUNT' = [USER_COUNT EXCEPT ![room[c]] = Dec(@)]
  ELSE Goto(c, next) /\ UNCHANGED USER_COUNT

\* STAT: the first one since the user last stopped waiting counts it in.
Stat(c) ==
  /\ Receive(c)
  /\ IF is_waiting[c]
     THEN Goto(c, "relay") /\ UNCHANGED USER_COUNT
     ELSE Goto(c, "stat_inc") /\ USER_COUNT' = [USER_COUNT EXCEPT ![room[c]] = Inc(@)]
  /\ UNCHANGED <<main, osVars, user_map, nick, room, is_waiting, lockVars, envVars>>

\* REQUEST_MATCH: the sender's external port is waited for and appended.
RequestMatch(c) ==
  /\ Receive(c)
  /\ Goto(c, "poll")
  /\ UNCHANGED <<main, osVars, sharedVars, nick, room, is_waiting, lockVars, envVars>>

\* WELCOME: the sender stops waiting, then the same poll.
Welcome(c) ==
  /\ Receive(c)
  /\ CountOut(c, "welcome_dec", "poll")
  /\ UNCHANGED <<main, osVars, user_map, nick, room, is_waiting, lockVars, envVars>>

\* Any other line is relayed as it is, a late "PONG 0" too.
OtherMessage(c) ==
  /\ Receive(c)
  /\ Goto(c, "relay")
  /\ UNCHANGED <<main, osVars, sharedVars, nick, room, is_waiting, lockVars, envVars>>

\* The poll ends with a port, or after UDP_PORT_ITERS turns without one.
PollEnds_Late(port, turn) == port # NoPort \/ turn > PortIters
PollEnds(port, turn) == port # NoPort \/ turn = PortIters

\* One turn of make_replacement_command's loop: look the port up; without
\* one the message is relayed as it came.
PollPort(c) ==
  LET port == user_map[nick[c]].external_port IN
  /\ At(c, "poll")
  /\ tries' = [tries EXCEPT ![c] = @ + 1]
  /\ carry' = [carry EXCEPT ![c] = port]
  /\ IF PollEnds(port, tries[c] + 1) THEN Goto(c, "relay") ELSE UNCHANGED pc
  /\ UNCHANGED <<main, osVars, sharedVars, nick, room, is_waiting, msgs, lockVars,
                 envVars>>

\* A command without a second word is not waited for.
SkipPoll(c) ==
  /\ At(c, "poll") /\ tries[c] = 0
  /\ Goto(c, "relay")
  /\ UNCHANGED <<main, osVars, sharedVars, nick, room, is_waiting, pollVars, msgs,
                 lockVars, envVars>>

\* receive_message fails: PING is sent and the user counts as not waiting.
ReceiveTimeout_Uncounted(c) ==
  /\ At(c, "serve") /\ ~Blocked(sock[c])
  /\ Goto(c, "pong")
  /\ UNCHANGED <<main, osVars, sharedVars, nick, room, is_waiting, pollVars, msgs,
                 lockVars, envVars>>

ReceiveTimeout(c) ==
  /\ At(c, "serve") /\ ~Blocked(sock[c])
  /\ CountOut(c, "ping_dec", "pong")
  /\ UNCHANGED <<main, osVars, user_map, nick, room, is_waiting, pollVars, msgs,
                 lockVars, envVars>>

Pong(c) ==
  /\ At(c, "pong") /\ CanReceive(c)
  /\ CountMsg(c)
  /\ Goto(c, "serve")
  /\ UNCHANGED <<main, osVars, sharedVars, nick, room, is_waiting, pollVars, lockVars,
                 envVars>>

\* Nothing arrives within PONG_TIMEOUT, or something that is not the PONG.
PongFail_Kept(c) ==
  /\ At(c, "pong")
  /\ Goto(c, "close")
  /\ UNCHANGED <<main, osVars, sharedVars, nick, room, is_waiting, pollVars, msgs,
                 lockVars, envVars>>

PongFail(c) ==
  /\ At(c, "pong")
  /\ Goto(c, "remove")
  /\ UNCHANGED <<main, osVars, sharedVars, nick, room, is_waiting, pollVars, msgs,
                 lockVars, envVars>>

-----------------------------------------------------------------------------
(* shared_iter_user_data: USERS counts and relayed messages. *)

BcastLock(c) ==
  /\ Running /\ pc[c] \in BcastPcs /\ c \notin readers
  /\ readers' = readers \union {c}
  /\ todo' = [todo EXCEPT ![c] = Registered]
  /\ UNCHANGED <<main, osVars, sharedVars, pc, nick, room, is_waiting, pollVars, msgs,
                 envVars>>

\* send_message and send_message_from: same room, and a relayed message is not
\* sent to its sender.
Addressed(c, n) ==
  /\ user_map[n].room_type = room[c]
  /\ pc[c] = "relay" => n # nick[c]

BcastSend(c, n) ==
  /\ Running /\ c \in readers /\ n \in todo[c]
  /\ Addressed(c, n) => ~Blocked(user_map[n].socket)
  /\ todo' = [todo EXCEPT ![c] = @ \ {n}]
  /\ UNCHANGED <<main, osVars, sharedVars, pc, nick, room, is_waiting, pollVars, msgs,
                 readers, envVars>>

\* What a thread does once its iteration is over.
AfterBcast == [stat_inc |-> "relay", welcome_dec |-> "poll", ping_dec |-> "pong",
               relay |-> "serve"]

BcastUnlock(c) ==
  /\ Running /\ pc[c] \in BcastPcs /\ c \in readers /\ todo[c] = {}
  /\ SharedUnlock(c)
  /\ Goto(c, AfterBcast[pc[c]])
  /\ is_waiting' = [is_waiting EXCEPT ![c] = IF pc[c] = "relay" THEN @ ELSE pc[c] = "stat_inc"]
  /\ UNCHANGED <<main, osVars, sharedVars, nick, room, pollVars, msgs, todo, envVars>>

-----------------------------------------------------------------------------
(* A connection's thread: leaving. *)

\* remove_user_data only flags the entry; the main thread erases it.
Remove(c) ==
  /\ At(c, "remove")
  /\ user_map' = IF Contains(nick[c])
                 THEN [user_map EXCEPT ![nick[c]].delete_flag = TRUE]
                 ELSE user_map
  /\ Goto(c, "close")
  /\ UNCHANGED <<main, osVars, USER_COUNT, nick, room, is_waiting, pollVars, msgs,
                 lockVars, envVars>>

\* response_socket.close(): by number, whoever the descriptor is for by now.
Close(c) ==
  /\ At(c, "close")
  /\ fdtab' = [fdtab EXCEPT ![sock[c]] = NoConn]
  /\ Goto(c, "done")
  /\ UNCHANGED <<main, sock, sharedVars, nick, room, is_waiting, pollVars, msgs,
                 lockVars, envVars>>

Session(c) ==
  \/ \E n \in Nick : Login(c, n) \/ Renick(c, n) \/ BcastSend(c, n)
  \/ \E r \in Room : Join(c, r)
  \/ LoginFail(c) \/ Insert(c) \/ InsertInUse(c) \/ JoinFail(c) \/ Enter(c)
  \/ Stat(c) \/ RequestMatch(c) \/ Welcome(c) \/ OtherMessage(c)
  \/ PollPort(c) \/ SkipPoll(c) \/ ReceiveTimeout(c) \/ Pong(c) \/ PongFail(c)
  \/ BcastLock(c) \/ BcastUnlock(c) \/ Remove(c) \/ Close(c)

-----------------------------------------------------------------------------
(* The UDP thread and the clients. *)

\* A LOBBY_NAME or LOBBY_NAME_WAIT packet: it names a user and comes from port
\* p.  Datagrams are delayed, lost and duplicated: one may arrive at any time.
LobbyName(n, p) ==
  /\ Running /\ Contains(n) /\ user_map[n].external_port # p
  /\ user_map' = [user_map EXCEPT ![n].external_port = p]
  /\ heard' = [heard EXCEPT ![user_map[n].owner] = @ \union {p}]
  /\ UNCHANGED <<main, osVars, USER_COUNT, pc, nick, room, is_waiting, pollVars, msgs,
                 lockVars, reading>>

\* A slow client stops reading, once, and later reads on or is disconnected.
Stall(c) ==
  /\ Running /\ c \in Slow /\ pc[c] # "idle" /\ reading[c] = "reading"
  /\ reading' = [reading EXCEPT ![c] = "stalled"]
  /\ UNCHANGED <<main, osVars, sharedVars, pc, nick, room, is_waiting, pollVars, msgs,
                 lockVars, heard>>

Drain(c) ==
  /\ Running /\ reading[c] = "stalled"
  /\ reading' = [reading EXCEPT ![c] = "drained"]
  /\ UNCHANGED <<main, osVars, sharedVars, pc, nick, room, is_waiting, pollVars, msgs,
                 lockVars, heard>>

Environment ==
  \/ \E n \in Nick, p \in Port : LobbyName(n, p)
  \/ \E c \in Conn : Stall(c) \/ Drain(c)

\* The process has returned from main.
Exited == main = "exited" /\ UNCHANGED vars

Next == Main \/ (\E c \in Conn : Session(c)) \/ Environment \/ Exited

\* Every thread of the process keeps running, and a client that stopped
\* reading does not do so for ever.
Fairness ==
  /\ WF_vars(Main)
  /\ \A c \in Conn : WF_vars(Session(c)) /\ WF_vars(Drain(c))

Spec == Init /\ [][Next]_vars /\ Fairness

-----------------------------------------------------------------------------
TypeOK ==
  /\ main \in {"accept", "wait", "stopping", "exited"}
  /\ fdtab \in [Fd -> Conn \union {NoConn}]
  /\ user_map \in [Nick -> UserData]
  /\ USER_COUNT \in [Room -> 0 .. CountLimit - 1]
  /\ pc \in [Conn -> Pcs]
  /\ sock \in [Conn -> Fd \union {NoFd}]
  /\ nick \in [Conn -> Nick \union {NoNick}]
  /\ room \in [Conn -> Room \union {InvalidRoom}]
  /\ is_waiting \in [Conn -> BOOLEAN]
  /\ readers \subseteq Conn
  /\ todo \in [Conn -> SUBSET Nick]
  /\ tries \in [Conn -> 0 .. PortIters]
  /\ carry \in [Conn -> Port \union {NoPort}]
  /\ msgs \in [Conn -> 0 .. MaxMsgs]
  /\ reading \in [Conn -> {"reading", "stalled", "drained"}]
  /\ heard \in [Conn -> SUBSET Port]

\* A session whose user is listed finds its own, unflagged entry under its
\* nickname: the lookups by name in the room, poll and leave code (shared_user_data
\* and remove_user_data) never meet another session's entry, or none, whatever
\* other sessions log in under the same name and whenever the main thread sweeps.
SessionOwnsItsName ==
  \A c \in Conn : pc[c] \in NamedPcs =>
    /\ user_map[nick[c]].owner = c
    /\ user_map[nick[c]].socket = sock[c]
    /\ ~user_map[nick[c]].delete_flag

\* A user who is counted in USER_COUNT: from the ++ on, until the --, which
\* comes before the thread clears is_waiting, and only while its session is in
\* the room.
Counted(c) == \/ pc[c] = "stat_inc"
              \/ is_waiting[c] /\ pc[c] \in {"serve", "relay", "poll", "pong"}

Waiters(r) == {c \in Conn : Counted(c) /\ room[c] = r}

\* A room's USER_COUNT is the number of sessions that are in the room and wait for
\* a match: no interleaving of STAT, WELCOME and timeouts loses or doubles a count,
\* none wraps below zero, and a session that is leaving, has ended or was erased
\* has left no count behind, whichever way it came out of its loop.
WaitingCountExact ==
  \A r \in Room : USER_COUNT[r] = Cardinality(Waiters(r))

\* A thread that walks user_map under the shared lock only has entries ahead of
\* it that are still in the map: no UserData is deleted under an iterator.
IteratorsStayValid == \A c \in readers : todo[c] \subseteq Registered

\* Whatever a session leaves behind is on its way out: an open descriptor belongs
\* to a thread that still runs and knows it, and an entry of user_map to a listed
\* session or to the next sweep.  No failed login, timeout or second close by
\* number leaves a descriptor or a nickname taken for good.
NothingLeaks ==
  /\ \A f \in Fd : fdtab[f] # NoConn =>
       sock[fdtab[f]] = f /\ pc[fdtab[f]] \notin {"idle", "done"}
  /\ \A n \in Nick : Contains(n) =>
       pc[user_map[n].owner] \in NamedPcs \/ user_map[n].delete_flag

\* make_replacement_command appends a port that was reported for this session
\* while it was listed, and goes without one only if none had been reported.
MatchPortIsReported ==
  [][\A c \in Conn : pc[c] = "poll" /\ pc'[c] = "relay" /\ tries'[c] > 0 =>
       \/ carry'[c] \in heard[c]
       \/ carry'[c] = NoPort /\ heard[c] = {}]_vars

Stopped == main \in {"stopping", "exited"}

\* Every accepted connection ends once its client sends no more: its thread is
\* done, its nickname is free again and its descriptor is closed, unless the
\* server is stopped first.
SessionsAreReleased ==
  \A c \in Conn : pc[c] # "idle" ~>
    \/ Stopped
    \/ /\ pc[c] = "done"
       /\ \A n \in Nick : user_map[n].owner # c
       /\ \A f \in Fd : fdtab[f] # c

\* The main thread accepts again and again until it is stopped: a broadcast to
\* a slow client delays it (it holds user_mutex) but does not stop it for good.
AcceptsForever == []<>(main = "accept" \/ Stopped)

=============================================================================
