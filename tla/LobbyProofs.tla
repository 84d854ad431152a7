----------------------------- MODULE LobbyProofs -----------------------------
(***************************************************************************)
(* Proofs about LobbyServer for any connections, nicknames, rooms,         *)
(* descriptors and bounds.                                                 *)
(***************************************************************************)
EXTENDS LobbyRefinement, FiniteSetTheorems, TLAPS

-----------------------------------------------------------------------------
(* Type correctness. *)

\* The poll of the external port has turns left while it runs.
TriesLeft == \A c \in Conn : pc[c] \in {"poll", "welcome_dec"} => tries[c] < PortIters

\* A thread that looks names up has one, and only a broadcasting thread reads.
NickKnown == \A c \in Conn :
  pc[c] \in NamedPcs \union {"insert", "renick"} => nick[c] \in Nick
ReadersBroadcast == \A c \in readers : pc[c] \in BcastPcs

TypeInv == TypeOK /\ TriesLeft /\ NickKnown /\ ReadersBroadcast

\* The counter wraps within UINT32_MAX.
LEMMA IncDecType ==
  ASSUME NEW x \in 0 .. CountLimit - 1
  PROVE  Inc(x) \in 0 .. CountLimit - 1 /\ Dec(x) \in 0 .. CountLimit - 1
  BY ConnAssumption DEF Inc, Dec

\* What a connection's UserData can be, field by field.
LEMMA UserTypes ==
  ASSUME NEW u \in UserData
  PROVE  /\ NoUser \in UserData
         /\ \A c \in Conn, f \in Fd \union {NoFd} : NewUser(c, f) \in UserData
         /\ \A r \in Room \union {InvalidRoom} : Joined(u, r) \in UserData
         /\ [u EXCEPT !.delete_flag = TRUE] \in UserData
         /\ \A p \in Port : [u EXCEPT !.external_port = p] \in UserData
         /\ u.external_port \in Port \union {NoPort}
         /\ u.owner \in Conn \union {NoConn}
  BY DEF UserData, NoUser, NewUser, Joined

\* An absent UserData has the type of one.
LEMMA NoUserType == NoUser \in UserData
  BY DEF UserData, NoUser

\* Every step keeps the types.
LEMMA TypeStep == TypeInv /\ [Next]_vars => TypeInv'
<1> SUFFICES ASSUME TypeInv, [Next]_vars PROVE TypeInv'
  OBVIOUS
<1> USE BoundAssumption DEF TypeInv, TypeOK, TriesLeft, NickKnown, ReadersBroadcast, osVars, sharedVars, lockVars,
      pollVars, envVars, Pcs, NamedPcs, BcastPcs, At, Goto, CountMsg, CanReceive
<1>1. ASSUME NEW c \in Conn, NEW f \in Fd, Accept(c, f) PROVE TypeInv'
  BY <1>1 DEF Accept
<1>2. CASE AcceptNone
  BY <1>2 DEF AcceptNone
<1>3. CASE Sweep
  <2>1. user_map' \in [Nick -> UserData]
    BY <1>3, NoUserType DEF Sweep
  <2>2. fdtab' \in [Fd -> Conn \union {NoConn}]
    BY <1>3 DEF Sweep
  <2>3. QED
    BY <1>3, <2>1, <2>2 DEF Sweep
<1>4. CASE Exit
  BY <1>4 DEF Exit
<1>5. ASSUME NEW c \in Conn, NEW n \in Nick, Login(c, n) PROVE TypeInv'
  BY <1>5 DEF Login
<1>6. ASSUME NEW c \in Conn, NEW n \in Nick, Renick(c, n) PROVE TypeInv'
  BY <1>6 DEF Renick
<1>7. ASSUME NEW c \in Conn, NEW n \in Nick, BcastSend(c, n) PROVE TypeInv'
  BY <1>7 DEF BcastSend
<1>8. ASSUME NEW c \in Conn, NEW r \in Room, Join(c, r) PROVE TypeInv'
  BY <1>8 DEF Join
<1>9. ASSUME NEW c \in Conn, LoginFail(c) PROVE TypeInv'
  BY <1>9 DEF LoginFail, AfterLoginFail
<1>10. ASSUME NEW c \in Conn, Insert(c) PROVE TypeInv'
  <2>1. NewUser(c, sock[c]) \in UserData
    BY UserTypes, NoUserType
  <2>2. user_map' \in [Nick -> UserData]
    BY <1>10, <2>1 DEF Insert
  <2>3. QED
    BY <1>10, <2>2 DEF Insert
<1>11. ASSUME NEW c \in Conn, InsertInUse(c) PROVE TypeInv'
  BY <1>11 DEF InsertInUse
<1>12. ASSUME NEW c \in Conn, JoinFail(c) PROVE TypeInv'
  BY <1>12 DEF JoinFail
<1>13. ASSUME NEW c \in Conn, Enter(c) PROVE TypeInv'
  <2>1. user_map' \in [Nick -> UserData]
    BY <1>13, UserTypes DEF Enter
  <2>2. QED
    BY <1>13, <2>1 DEF Enter
<1>14. ASSUME NEW c \in Conn, Stat(c) PROVE TypeInv'
  <2>1. USER_COUNT' \in [Room -> 0 .. CountLimit - 1]
    BY <1>14, IncDecType DEF Stat
  <2>2. QED
    BY <1>14, <2>1 DEF Stat, Receive
<1>15. ASSUME NEW c \in Conn, RequestMatch(c) PROVE TypeInv'
  BY <1>15 DEF RequestMatch, Receive
<1>16. ASSUME NEW c \in Conn, Welcome(c) PROVE TypeInv'
  <2>1. USER_COUNT' \in [Room -> 0 .. CountLimit - 1]
    BY <1>16, IncDecType DEF Welcome, CountOut
  <2>2. QED
    BY <1>16, <2>1 DEF Welcome, CountOut, Receive
<1>17. ASSUME NEW c \in Conn, OtherMessage(c) PROVE TypeInv'
  BY <1>17 DEF OtherMessage, Receive
<1>18. ASSUME NEW c \in Conn, PollPort(c) PROVE TypeInv'
  <2>1. user_map[nick[c]].external_port \in Port \union {NoPort}
    BY <1>18, UserTypes DEF PollPort
  <2>2. tries[c] + 1 \in 0 .. PortIters
    BY <1>18 DEF PollPort
  <2>3. QED
    BY <1>18, <2>1, <2>2 DEF PollPort, PollEnds
<1>19. ASSUME NEW c \in Conn, ReceiveTimeout(c) PROVE TypeInv'
  <2>1. USER_COUNT' \in [Room -> 0 .. CountLimit - 1]
    BY <1>19, IncDecType DEF ReceiveTimeout, CountOut
  <2>2. QED
    BY <1>19, <2>1 DEF ReceiveTimeout, CountOut
<1>20. ASSUME NEW c \in Conn, Pong(c) PROVE TypeInv'
  BY <1>20 DEF Pong
<1>21. ASSUME NEW c \in Conn, PongFail(c) PROVE TypeInv'
  BY <1>21 DEF PongFail
<1>22. ASSUME NEW c \in Conn, BcastLock(c) PROVE TypeInv'
  BY <1>22 DEF BcastLock, Registered
<1>23. ASSUME NEW c \in Conn, BcastUnlock(c) PROVE TypeInv'
  <2>1. pc[c] \in BcastPcs
    BY <1>23 DEF BcastUnlock
  <2>2. AfterBcast[pc[c]] \in NamedPcs
    BY <2>1 DEF AfterBcast
  <2>3. AfterBcast[pc[c]] \in {"poll", "welcome_dec"} => pc[c] = "welcome_dec"
    BY <2>1 DEF AfterBcast
  <2>4. is_waiting' \in [Conn -> BOOLEAN]
    BY <1>23 DEF BcastUnlock
  <2>5. TypeOK'
    BY <1>23, <2>2, <2>4 DEF BcastUnlock, SharedUnlock
  <2>6. \A d \in Conn : pc'[d] = IF d = c THEN AfterBcast[pc[c]] ELSE pc[d]
    BY <1>23 DEF BcastUnlock
  <2>7. NickKnown'
    BY <1>23, <2>1, <2>2, <2>6 DEF BcastUnlock
  <2>8. ReadersBroadcast'
    BY <1>23, <2>6 DEF BcastUnlock, SharedUnlock
  <2>9. TriesLeft'
    BY <1>23, <2>1, <2>3, <2>6 DEF BcastUnlock
  <2>10. QED
    BY <2>5, <2>7, <2>8, <2>9
<1>24. ASSUME NEW c \in Conn, Remove(c) PROVE TypeInv'
  <2>1. user_map' \in [Nick -> UserData]
    BY <1>24, UserTypes DEF Remove
  <2>2. QED
    BY <1>24, <2>1 DEF Remove
<1>25. ASSUME NEW c \in Conn, Close(c) PROVE TypeInv'
  BY <1>25 DEF Close
<1>26. ASSUME NEW n \in Nick, NEW p \in Port, LobbyName(n, p) PROVE TypeInv'
  <2>1. user_map' \in [Nick -> UserData]
    BY <1>26, UserTypes DEF LobbyName
  <2>2. user_map[n].owner \in Conn
    BY <1>26, UserTypes DEF LobbyName, Contains
  <2>3. QED
    BY <1>26, <2>1, <2>2 DEF LobbyName
<1>27. ASSUME NEW c \in Conn, Stall(c) \/ Drain(c) PROVE TypeInv'
  BY <1>27 DEF Stall, Drain
<1>28. CASE UNCHANGED vars
  BY <1>28 DEF vars
<1>29. ASSUME NEW c \in Conn, SkipPoll(c) PROVE TypeInv'
  BY <1>29 DEF SkipPoll
<1>30. QED
  BY <1>1, <1>2, <1>3, <1>4, <1>5, <1>6, <1>7, <1>8, <1>9, <1>10, <1>11, <1>12, <1>13, <1>29,
     <1>14, <1>15, <1>16, <1>17, <1>18, <1>19, <1>20, <1>21, <1>22, <1>23, <1>24, <1>25,
     <1>26, <1>27, <1>28
     DEF Next, Main, Session, Environment, Exited

\* The program starts well typed.
LEMMA TypeInit == Init => TypeInv
<1>1. 0 \in 0 .. CountLimit - 1
  BY ConnAssumption, FS_CardinalityType
<1>2. QED
  BY <1>1, NoUserType, BoundAssumption
     DEF Init, TypeInv, TypeOK, TriesLeft, NickKnown, ReadersBroadcast, Pcs, NamedPcs,
         BcastPcs

\* The types of LobbyServer hold in every reachable state; in particular the
\* port poll never makes more than UDP_PORT_ITERS turns.
THEOREM TypeCorrect == Spec => []TypeOK
<1>1. TypeInv => TypeOK
  BY DEF TypeInv
<1>2. QED
  BY <1>1, TypeInit, TypeStep, PTL DEF Spec

-----------------------------------------------------------------------------
(* Nicknames: who owns an entry of user_map. *)

\* Every entry belongs to a session that has that nickname and has inserted it,
\* and is flagged once that session's thread has left.
EntriesHaveOwners ==
  \A n \in Nick : Contains(n) =>
    LET c == user_map[n].owner IN
    /\ nick[c] = n
    /\ pc[c] \in NamedPcs \union {"close", "done"}
    /\ pc[c] \in {"close", "done"} => user_map[n].delete_flag

OwnInv == TypeInv /\ SessionOwnsItsName /\ EntriesHaveOwners /\ IteratorsStayValid

\* What the steps of a listed session's thread have in common that do not write
\* user_map: the thread stays listed and no iteration starts.
StaysListed(c) ==
  /\ pc[c] \in NamedPcs /\ pc'[c] \in NamedPcs
  /\ \A d \in Conn \ {c} : pc'[d] = pc[d]
  /\ UNCHANGED <<user_map, nick, sock>>
  /\ readers' \subseteq readers
  /\ \A d \in Conn : todo'[d] \subseteq todo[d]

ListedStep(c) ==
  \/ \E r \in Room : Join(c, r)
  \/ JoinFail(c) \/ Stat(c) \/ RequestMatch(c) \/ Welcome(c) \/ OtherMessage(c)
  \/ PollPort(c) \/ SkipPoll(c) \/ ReceiveTimeout(c) \/ Pong(c) \/ PongFail(c)
  \/ BcastUnlock(c) \/ \E n \in Nick : BcastSend(c, n)

\* Only logging in adds to user_map, and only the main thread's sweep erases from it.
LEMMA ListedSteps ==
  ASSUME TypeInv, NEW c \in Conn, ListedStep(c)
  PROVE  StaysListed(c)
<1> USE DEF StaysListed, TypeInv, TypeOK, osVars, sharedVars, lockVars, pollVars, envVars,
      NamedPcs, At, Goto, Receive
<1>1. CASE (\E r \in Room : Join(c, r)) \/ JoinFail(c)
  BY <1>1 DEF Join, JoinFail
<1>2. CASE Stat(c) \/ RequestMatch(c) \/ Welcome(c) \/ OtherMessage(c)
  BY <1>2 DEF Stat, RequestMatch, Welcome, OtherMessage, CountOut, BcastPcs
<1>3. CASE PollPort(c) \/ SkipPoll(c)
  BY <1>3 DEF PollPort, SkipPoll, BcastPcs
<1>4. CASE ReceiveTimeout(c) \/ Pong(c) \/ PongFail(c)
  BY <1>4 DEF ReceiveTimeout, Pong, PongFail, CountOut, BcastPcs
<1>5. CASE BcastUnlock(c)
  <2>1. pc[c] \in BcastPcs
    BY <1>5 DEF BcastUnlock, ReadersBroadcast
  <2>2. AfterBcast[pc[c]] \in NamedPcs
    BY <2>1 DEF AfterBcast, BcastPcs
  <2>3. QED
    BY <1>5, <2>1, <2>2 DEF BcastUnlock, SharedUnlock
<1>6. CASE \E n \in Nick : BcastSend(c, n)
  BY <1>6 DEF BcastSend, ReadersBroadcast
<1>7. QED
  BY <1>1, <1>2, <1>3, <1>4, <1>5, <1>6 DEF ListedStep

\* Every step keeps each logged-in session the owner of its name.
LEMMA OwnStep == OwnInv /\ [Next]_vars => OwnInv'
<1> SUFFICES ASSUME OwnInv, [Next]_vars PROVE OwnInv'
  OBVIOUS
<1>0. TypeInv'
  BY TypeStep DEF OwnInv
<1> USE <1>0 DEF OwnInv, SessionOwnsItsName, EntriesHaveOwners, IteratorsStayValid,
      Contains, Registered
<1>1. ASSUME NEW c \in Conn, ListedStep(c) PROVE OwnInv'
  <2>1. StaysListed(c)
    BY <1>1, ListedSteps
  <2>2. SessionOwnsItsName'
    BY <2>1 DEF StaysListed
  <2>3. \A n \in Nick : Contains(n) => user_map[n].owner \in Conn
    BY UserTypes DEF TypeInv, TypeOK
  <2>4. EntriesHaveOwners'
    BY <2>1, <2>3 DEF StaysListed, NamedPcs, BcastPcs
  <2>5. IteratorsStayValid'
    BY <2>1 DEF StaysListed, TypeInv, TypeOK
  <2>6. QED
    BY <2>2, <2>4, <2>5
<1>2. ASSUME NEW c \in Conn, NEW f \in Fd, Accept(c, f) PROVE OwnInv'
  BY <1>2 DEF Accept, TypeInv, TypeOK, UserData, sharedVars, lockVars, Goto, NamedPcs, BcastPcs
<1>3. CASE AcceptNone \/ Exit \/ UNCHANGED vars
  BY <1>3 DEF AcceptNone, Exit, vars, osVars, sharedVars, lockVars
<1>4. CASE Sweep
  BY <1>4, AbsentAssumption
     DEF Sweep, Flagged, NoUser, UniqueLock, TypeInv, NickKnown, lockVars
<1>5. ASSUME NEW c \in Conn, NEW n \in Nick, Login(c, n) \/ Renick(c, n) PROVE OwnInv'
  BY <1>5 DEF Login, Renick, TypeInv, TypeOK, UserData, sharedVars, osVars, lockVars, Goto,
       At, NamedPcs, BcastPcs
<1>6. ASSUME NEW c \in Conn, LoginFail(c) \/ InsertInUse(c) PROVE OwnInv'
  BY <1>6 DEF LoginFail, AfterLoginFail, InsertInUse, TypeInv, TypeOK, UserData, sharedVars,
       osVars, lockVars, Goto, At, NamedPcs, BcastPcs
<1>7. ASSUME NEW c \in Conn, Insert(c) PROVE OwnInv'
  BY <1>7, AbsentAssumption
     DEF Insert, NewUser, NoUser, TypeInv, TypeOK, NickKnown, UserData, osVars, lockVars,
       Goto, At, UniqueLock, NamedPcs, BcastPcs
<1>8. ASSUME NEW c \in Conn, Enter(c) PROVE OwnInv'
  BY <1>8 DEF Enter, Joined, TypeInv, TypeOK, NickKnown, UserData, osVars, lockVars, Goto,
       At, NamedPcs, BcastPcs
<1>9. ASSUME NEW c \in Conn, BcastLock(c) PROVE OwnInv'
  BY <1>9 DEF BcastLock, TypeInv, TypeOK, UserData, osVars, sharedVars
<1>10. ASSUME NEW c \in Conn, Remove(c) PROVE OwnInv'
  BY <1>10 DEF Remove, TypeInv, TypeOK, NickKnown, UserData, osVars, lockVars, Goto, At,
       NamedPcs, BcastPcs
<1>11. ASSUME NEW c \in Conn, Close(c) PROVE OwnInv'
  BY <1>11 DEF Close, TypeInv, TypeOK, UserData, sharedVars, lockVars, Goto, At, NamedPcs,
       BcastPcs
<1>12. ASSUME NEW n \in Nick, NEW p \in Port, LobbyName(n, p) PROVE OwnInv'
  BY <1>12 DEF LobbyName, TypeInv, TypeOK, UserData, osVars, lockVars
<1>13. ASSUME NEW c \in Conn, Stall(c) \/ Drain(c) PROVE OwnInv'
  BY <1>13 DEF Stall, Drain, osVars, sharedVars, lockVars
<1>14. QED
  BY <1>1, <1>2, <1>3, <1>4, <1>5, <1>6, <1>7, <1>8, <1>9, <1>10, <1>11, <1>12, <1>13
     DEF Next, Main, Session, Environment, Exited, ListedStep

\* At first nobody has a name to own.
LEMMA OwnInit == Init => OwnInv
  BY TypeInit, AbsentAssumption
     DEF Init, OwnInv, SessionOwnsItsName, EntriesHaveOwners, IteratorsStayValid, Contains,
         NoUser, NamedPcs, BcastPcs

\* The ownership of names is an invariant.
LEMMA OwnInvariant == Spec => []OwnInv
  BY OwnInit, OwnStep, PTL DEF Spec

\* A listed session finds its own unflagged entry under its nickname, for any
\* number of sessions, names and descriptors.
THEOREM NamesAreOwned == Spec => []SessionOwnsItsName
<1>1. OwnInv => SessionOwnsItsName
  BY DEF OwnInv
<1>2. QED
  BY <1>1, OwnInvariant, PTL

\* No UserData is deleted while a thread has it ahead in its iteration.
THEOREM IteratorsAreValid == Spec => []IteratorsStayValid
<1>1. OwnInv => IteratorsStayValid
  BY DEF OwnInv
<1>2. QED
  BY <1>1, OwnInvariant, PTL

-----------------------------------------------------------------------------
(* Nothing leaks. *)

\* An open descriptor belongs to a running thread that knows it.
DescriptorsHaveOwners == \A f \in Fd : fdtab[f] # NoConn =>
  sock[fdtab[f]] = f /\ pc[fdtab[f]] \notin {"idle", "done"}

\* Only accept opens a descriptor, and a thread ends only by closing its own.
LEMMA DescriptorsStep ==
  TypeInv /\ DescriptorsHaveOwners /\ [Next]_vars => DescriptorsHaveOwners'
<1> SUFFICES ASSUME TypeInv, DescriptorsHaveOwners, [Next]_vars PROVE DescriptorsHaveOwners'
  OBVIOUS
<1> USE DEF DescriptorsHaveOwners, TypeInv, TypeOK, osVars, Goto, At
<1>1. ASSUME NEW c \in Conn, ListedStep(c) PROVE DescriptorsHaveOwners'
  <2>1. StaysListed(c) /\ UNCHANGED fdtab
    BY <1>1, ListedSteps
       DEF ListedStep, Join, JoinFail, Stat, RequestMatch, Welcome, OtherMessage, PollPort,
           SkipPoll, ReceiveTimeout, Pong, PongFail, BcastUnlock, BcastSend
  <2>2. QED
    BY <2>1 DEF StaysListed, NamedPcs, BcastPcs
<1>2. ASSUME NEW c \in Conn, NEW f \in Fd, Accept(c, f) PROVE DescriptorsHaveOwners'
  BY <1>2 DEF Accept
<1>3. CASE AcceptNone \/ Exit \/ UNCHANGED vars
  BY <1>3 DEF AcceptNone, Exit, vars
<1>4. CASE Sweep
  BY <1>4 DEF Sweep
<1>5. ASSUME NEW c \in Conn, NEW n \in Nick, Login(c, n) \/ Renick(c, n)
      PROVE DescriptorsHaveOwners'
  BY <1>5 DEF Login, Renick
<1>6. ASSUME NEW c \in Conn, LoginFail(c) \/ InsertInUse(c) PROVE DescriptorsHaveOwners'
  BY <1>6 DEF LoginFail, AfterLoginFail, InsertInUse
<1>7. ASSUME NEW c \in Conn, Insert(c) \/ Enter(c) PROVE DescriptorsHaveOwners'
  BY <1>7 DEF Insert, Enter
<1>8. ASSUME NEW c \in Conn, BcastLock(c) \/ Remove(c) PROVE DescriptorsHaveOwners'
  BY <1>8 DEF BcastLock, Remove
<1>9. ASSUME NEW c \in Conn, Close(c) PROVE DescriptorsHaveOwners'
  BY <1>9 DEF Close
<1>10. ASSUME NEW n \in Nick, NEW p \in Port, LobbyName(n, p) PROVE DescriptorsHaveOwners'
  BY <1>10 DEF LobbyName
<1>11. ASSUME NEW c \in Conn, Stall(c) \/ Drain(c) PROVE DescriptorsHaveOwners'
  BY <1>11 DEF Stall, Drain
<1>12. QED
  BY <1>1, <1>2, <1>3, <1>4, <1>5, <1>6, <1>7, <1>8, <1>9, <1>10, <1>11
     DEF Next, Main, Session, Environment, Exited, ListedStep

\* A session that is over has left no descriptor open, and no entry of user_map
\* but one that the next sweep erases.
THEOREM NothingIsLeaked == Spec => []NothingLeaks
<1>1. Init => DescriptorsHaveOwners
  BY DEF Init, DescriptorsHaveOwners
<1>2. TypeInv /\ DescriptorsHaveOwners /\ [Next]_vars => DescriptorsHaveOwners'
  BY DescriptorsStep
<1>3. OwnInv => TypeInv
  BY DEF OwnInv
<1>4. OwnInv /\ DescriptorsHaveOwners => NothingLeaks
  BY DEF OwnInv, EntriesHaveOwners, DescriptorsHaveOwners, NothingLeaks
<1>5. QED
  BY <1>1, <1>2, <1>3, <1>4, OwnInvariant, PTL DEF Spec

-----------------------------------------------------------------------------
(* The room counts. *)

InRoomPcs == BcastPcs \union {"enter", "serve", "poll", "pong"}

\* A thread waits only where its loop has set is_waiting, and then it has a room.
WaitInv == \A c \in Conn :
  /\ is_waiting[c] => pc[c] \in {"serve", "relay", "poll", "welcome_dec", "ping_dec"}
  /\ pc[c] \in InRoomPcs => room[c] \in Room

CountInv == TypeInv /\ WaitInv /\ WaitingCountExact

\* A step after which the same sessions wait in the same rooms.
SameWaiters ==
  /\ USER_COUNT' = USER_COUNT
  /\ \A d \in Conn : /\ Counted(d)' <=> Counted(d)
                     /\ Counted(d) => room'[d] = room[d]

\* A step that leaves the waiting sessions and the counters alone keeps the count.
LEMMA SameWaitersKeep ==
  ASSUME WaitingCountExact, SameWaiters
  PROVE  WaitingCountExact'
<1>1. ASSUME NEW r \in Room PROVE Waiters(r)' = Waiters(r)
  <2>1. \A d \in Conn : (Counted(d)' /\ room'[d] = r) <=> (Counted(d) /\ room[d] = r)
    BY DEF SameWaiters
  <2>2. QED
    BY <2>1 DEF Waiters
<1>2. QED
  BY <1>1 DEF WaitingCountExact, SameWaiters

\* The counter of a room has a value for every set of its sessions.
LEMMA WaitersFit ==
  ASSUME NEW S, S \subseteq Conn
  PROVE  IsFiniteSet(S) /\ Cardinality(S) \in Nat /\ Cardinality(S) < CountLimit
<1>1. IsFiniteSet(S) /\ Cardinality(S) <= Cardinality(Conn)
  BY ConnAssumption, FS_Subset
<1>2. Cardinality(S) \in Nat /\ Cardinality(Conn) \in Nat
  BY <1>1, ConnAssumption, FS_CardinalityType
<1>3. QED
  BY <1>1, <1>2, ConnAssumption

\* One more waiting session is one more in its room's count.
LEMMA CountIn ==
  ASSUME TypeOK, WaitingCountExact, NEW c \in Conn, room[c] \in Room,
         room' = room,
         USER_COUNT' = [USER_COUNT EXCEPT ![room[c]] = Inc(@)],
         ~Counted(c), Counted(c)',
         \A d \in Conn \ {c} : Counted(d)' <=> Counted(d)
  PROVE  WaitingCountExact'
<1> SUFFICES ASSUME NEW r \in Room PROVE USER_COUNT'[r] = Cardinality(Waiters(r)')
  BY DEF WaitingCountExact
<1>1. USER_COUNT[r] = Cardinality(Waiters(r))
  BY DEF WaitingCountExact
<1>2. CASE r = room[c]
  <2>1. Waiters(r)' = Waiters(r) \union {c} /\ c \notin Waiters(r)
    BY <1>2 DEF Waiters
  <2>2. IsFiniteSet(Waiters(r)) /\ Cardinality(Waiters(r)) \in Nat
    BY WaitersFit DEF Waiters
  <2>3. Cardinality(Waiters(r)') = Cardinality(Waiters(r)) + 1
    BY <2>1, <2>2, FS_AddElement
  <2>4. Waiters(r)' \subseteq Conn
    BY DEF Waiters
  <2>5. Cardinality(Waiters(r)') < CountLimit
    BY <2>4, WaitersFit
  <2>6. USER_COUNT'[r] = Inc(USER_COUNT[r])
    BY <1>2 DEF TypeOK
  <2>7. QED
    BY <1>1, <2>2, <2>3, <2>5, <2>6, ConnAssumption DEF Inc
<1>3. CASE r # room[c]
  <2>1. Waiters(r)' = Waiters(r)
    BY <1>3 DEF Waiters
  <2>2. USER_COUNT'[r] = USER_COUNT[r]
    BY <1>3 DEF TypeOK
  <2>3. QED
    BY <1>1, <2>1, <2>2
<1>4. QED
  BY <1>2, <1>3

\* One waiting session less is one less in its room's count.
LEMMA CountOutOne ==
  ASSUME TypeOK, WaitingCountExact, NEW c \in Conn, room[c] \in Room,
         room' = room,
         USER_COUNT' = [USER_COUNT EXCEPT ![room[c]] = Dec(@)],
         Counted(c), ~Counted(c)',
         \A d \in Conn \ {c} : Counted(d)' <=> Counted(d)
  PROVE  WaitingCountExact'
<1> SUFFICES ASSUME NEW r \in Room PROVE USER_COUNT'[r] = Cardinality(Waiters(r)')
  BY DEF WaitingCountExact
<1>1. USER_COUNT[r] = Cardinality(Waiters(r))
  BY DEF WaitingCountExact
<1>2. CASE r = room[c]
  <2>1. Waiters(r)' = Waiters(r) \ {c} /\ c \in Waiters(r)
    BY <1>2 DEF Waiters
  <2>2. IsFiniteSet(Waiters(r)) /\ Cardinality(Waiters(r)) \in Nat
    BY WaitersFit DEF Waiters
  <2>3. Cardinality(Waiters(r)') = Cardinality(Waiters(r)) - 1
    BY <2>1, <2>2, FS_RemoveElement
  <2>4. Cardinality(Waiters(r)) # 0
    BY <2>1, <2>2, FS_EmptySet
  <2>5. USER_COUNT'[r] = Dec(USER_COUNT[r])
    BY <1>2 DEF TypeOK
  <2>6. QED
    BY <1>1, <2>2, <2>3, <2>4, <2>5 DEF Dec
<1>3. CASE r # room[c]
  <2>1. Waiters(r)' = Waiters(r)
    BY <1>3 DEF Waiters
  <2>2. USER_COUNT'[r] = USER_COUNT[r]
    BY <1>3 DEF TypeOK
  <2>3. QED
    BY <1>1, <2>1, <2>2
<1>4. QED
  BY <1>2, <1>3

\* A session waits only in a room it has joined, whatever step is taken.
LEMMA WaitStep == CountInv /\ [Next]_vars => WaitInv'
<1> SUFFICES ASSUME CountInv, [Next]_vars PROVE WaitInv'
  OBVIOUS
<1> USE DEF CountInv, TypeInv, TypeOK, WaitInv, InRoomPcs, BcastPcs, At, Goto
<1>1. ASSUME NEW c \in Conn, NEW f \in Fd, Accept(c, f) PROVE WaitInv'
  BY <1>1 DEF Accept
<1>2. CASE AcceptNone \/ Sweep \/ Exit \/ UNCHANGED vars
  BY <1>2 DEF AcceptNone, Sweep, Exit, vars
<1>3. ASSUME NEW c \in Conn, NEW n \in Nick, Login(c, n) \/ Renick(c, n) PROVE WaitInv'
  BY <1>3 DEF Login, Renick
<1>4. ASSUME NEW c \in Conn, LoginFail(c) \/ Insert(c) \/ InsertInUse(c) \/ JoinFail(c)
      PROVE  WaitInv'
  BY <1>4 DEF LoginFail, AfterLoginFail, Insert, InsertInUse, JoinFail
<1>5. ASSUME NEW c \in Conn, NEW r \in Room, Join(c, r) PROVE WaitInv'
  BY <1>5 DEF Join
<1>6. ASSUME NEW c \in Conn, Enter(c) PROVE WaitInv'
  BY <1>6 DEF Enter
<1>7. ASSUME NEW c \in Conn, Stat(c) \/ RequestMatch(c) \/ OtherMessage(c) PROVE WaitInv'
  BY <1>7 DEF Stat, RequestMatch, OtherMessage, Receive
<1>8. ASSUME NEW c \in Conn, Welcome(c) \/ ReceiveTimeout(c) PROVE WaitInv'
  BY <1>8 DEF Welcome, ReceiveTimeout, CountOut, Receive
<1>9. ASSUME NEW c \in Conn, PollPort(c) \/ SkipPoll(c) PROVE WaitInv'
  BY <1>9 DEF PollPort, SkipPoll
<1>10. ASSUME NEW c \in Conn, Pong(c) \/ PongFail(c) \/ Remove(c) \/ Close(c) PROVE WaitInv'
  BY <1>10 DEF Pong, PongFail, Remove, Close
<1>11. ASSUME NEW c \in Conn, BcastLock(c) PROVE WaitInv'
  BY <1>11 DEF BcastLock
<1>12. ASSUME NEW c \in Conn, NEW n \in Nick, BcastSend(c, n) PROVE WaitInv'
  BY <1>12 DEF BcastSend
<1>13. ASSUME NEW c \in Conn, BcastUnlock(c) PROVE WaitInv'
  <2>1. pc[c] \in BcastPcs
    BY <1>13 DEF BcastUnlock, ReadersBroadcast
  <2>2. AfterBcast[pc[c]] = IF pc[c] = "stat_inc" THEN "relay"
                            ELSE IF pc[c] = "welcome_dec" THEN "poll"
                            ELSE IF pc[c] = "ping_dec" THEN "pong" ELSE "serve"
    BY <2>1 DEF AfterBcast
  <2>3. QED
    BY <1>13, <2>1, <2>2 DEF BcastUnlock
<1>14. ASSUME NEW n \in Nick, NEW p \in Port, LobbyName(n, p) PROVE WaitInv'
  BY <1>14 DEF LobbyName
<1>15. ASSUME NEW c \in Conn, Stall(c) \/ Drain(c) PROVE WaitInv'
  BY <1>15 DEF Stall, Drain
<1>16. QED
  BY <1>1, <1>2, <1>3, <1>4, <1>5, <1>6, <1>7, <1>8, <1>9, <1>10, <1>11, <1>12, <1>13,
     <1>14, <1>15
     DEF Next, Main, Session, Environment, Exited

\* The steps that count a session in or out.
CountsIn(c) == Stat(c) /\ ~is_waiting[c]
CountsOut(c) == (Welcome(c) \/ ReceiveTimeout(c)) /\ is_waiting[c]

\* The steps that change neither the waiting sessions nor the counters.
LEMMA QuietSteps ==
  ASSUME CountInv, [Next]_vars, \A c \in Conn : ~CountsIn(c) /\ ~CountsOut(c)
  PROVE  SameWaiters
<1> USE DEF CountInv, TypeInv, TypeOK, WaitInv, InRoomPcs, BcastPcs, At, Goto, sharedVars
<1>1. ASSUME NEW c \in Conn, NEW f \in Fd, Accept(c, f) PROVE SameWaiters
  BY <1>1 DEF Accept, SameWaiters, Counted
<1>2. CASE AcceptNone \/ Sweep \/ Exit \/ UNCHANGED vars
  BY <1>2 DEF AcceptNone, Sweep, Exit, vars, SameWaiters, Counted
<1>3. ASSUME NEW c \in Conn, NEW n \in Nick, Login(c, n) \/ Renick(c, n) PROVE SameWaiters
  BY <1>3 DEF Login, Renick, SameWaiters, Counted
<1>4. ASSUME NEW c \in Conn, LoginFail(c) \/ Insert(c) \/ InsertInUse(c) \/ JoinFail(c)
      PROVE  SameWaiters
  BY <1>4 DEF LoginFail, AfterLoginFail, Insert, InsertInUse, JoinFail, SameWaiters, Counted
<1>5. ASSUME NEW c \in Conn, NEW r \in Room, Join(c, r) PROVE SameWaiters
  BY <1>5 DEF Join, SameWaiters, Counted
<1>6. ASSUME NEW c \in Conn, Enter(c) PROVE SameWaiters
  BY <1>6 DEF Enter, SameWaiters, Counted
<1>7. ASSUME NEW c \in Conn, RequestMatch(c) \/ OtherMessage(c) \/ PollPort(c)
                             \/ SkipPoll(c)
      PROVE  SameWaiters
  BY <1>7 DEF RequestMatch, OtherMessage, PollPort, SkipPoll, Receive, SameWaiters, Counted
<1>8. ASSUME NEW c \in Conn, Stat(c) PROVE SameWaiters
  <2>1. is_waiting[c]
    BY <1>8 DEF CountsIn
  <2>2. QED
    BY <1>8, <2>1 DEF Stat, Receive, SameWaiters, Counted
<1>9. ASSUME NEW c \in Conn, Welcome(c) \/ ReceiveTimeout(c) PROVE SameWaiters
  <2>1. ~is_waiting[c]
    BY <1>9 DEF CountsOut
  <2>2. QED
    BY <1>9, <2>1 DEF Welcome, ReceiveTimeout, CountOut, Receive, SameWaiters, Counted
<1>10. ASSUME NEW c \in Conn, Pong(c) \/ PongFail(c) \/ Remove(c) \/ Close(c)
       PROVE  SameWaiters
  BY <1>10 DEF Pong, PongFail, Remove, Close, SameWaiters, Counted
<1>11. ASSUME NEW c \in Conn, BcastLock(c) \/ \E n \in Nick : BcastSend(c, n)
       PROVE  SameWaiters
  BY <1>11 DEF BcastLock, BcastSend, SameWaiters, Counted
<1>12. ASSUME NEW c \in Conn, BcastUnlock(c) PROVE SameWaiters
  <2>1. pc[c] \in BcastPcs
    BY <1>12 DEF BcastUnlock, ReadersBroadcast
  <2>2. AfterBcast[pc[c]] = IF pc[c] = "stat_inc" THEN "relay"
                            ELSE IF pc[c] = "welcome_dec" THEN "poll"
                            ELSE IF pc[c] = "ping_dec" THEN "pong" ELSE "serve"
    BY <2>1 DEF AfterBcast
  <2>3. QED
    BY <1>12, <2>1, <2>2 DEF BcastUnlock, SameWaiters, Counted
<1>13. ASSUME NEW n \in Nick, NEW p \in Port, LobbyName(n, p) PROVE SameWaiters
  BY <1>13 DEF LobbyName, SameWaiters, Counted
<1>14. ASSUME NEW c \in Conn, Stall(c) \/ Drain(c) PROVE SameWaiters
  BY <1>14 DEF Stall, Drain, SameWaiters, Counted
<1>15. QED
  BY <1>1, <1>2, <1>3, <1>4, <1>5, <1>6, <1>7, <1>8, <1>9, <1>10, <1>11, <1>12, <1>13,
     <1>14
     DEF Next, Main, Session, Environment, Exited

\* Which steps count a session in, and what they change.
LEMMA CountsInFacts ==
  ASSUME CountInv, NEW c \in Conn, CountsIn(c)
  PROVE  /\ ~Counted(c) /\ Counted(c)'
         /\ \A d \in Conn \ {c} : Counted(d)' <=> Counted(d)
         /\ room[c] \in Room /\ room' = room
         /\ USER_COUNT' = [USER_COUNT EXCEPT ![room[c]] = Inc(@)]
  BY DEF CountsIn, CountInv, TypeInv, TypeOK, WaitInv, InRoomPcs, Stat, Receive, Counted, At,
         Goto

\* Which steps count a session out, and what they change.
LEMMA CountsOutFacts ==
  ASSUME CountInv, NEW c \in Conn, CountsOut(c)
  PROVE  /\ Counted(c) /\ ~Counted(c)'
         /\ \A d \in Conn \ {c} : Counted(d)' <=> Counted(d)
         /\ room[c] \in Room /\ room' = room
         /\ USER_COUNT' = [USER_COUNT EXCEPT ![room[c]] = Dec(@)]
  BY DEF CountsOut, CountInv, TypeInv, TypeOK, WaitInv, InRoomPcs, Welcome, ReceiveTimeout,
         CountOut, Receive, Counted, At, Goto

\* Every step keeps the counters exact.
LEMMA CountStep == CountInv /\ [Next]_vars => WaitingCountExact'
<1> SUFFICES ASSUME CountInv, [Next]_vars PROVE WaitingCountExact'
  OBVIOUS
<1> USE DEF CountInv, TypeInv
<1>1. ASSUME NEW c \in Conn, CountsIn(c) PROVE WaitingCountExact'
  BY <1>1, CountsInFacts, CountIn
<1>2. ASSUME NEW c \in Conn, CountsOut(c) PROVE WaitingCountExact'
  BY <1>2, CountsOutFacts, CountOutOne
<1>3. QED
  BY <1>1, <1>2, QuietSteps, SameWaitersKeep

\* At first nobody waits and the counters are zero.
LEMMA CountInit == Init => CountInv
<1> SUFFICES ASSUME Init PROVE WaitInv /\ WaitingCountExact
  BY TypeInit DEF CountInv
<1>1. WaitInv
  BY DEF Init, WaitInv, InRoomPcs, BcastPcs
<1>2. \A r \in Room : Waiters(r) = {}
  BY DEF Init, Waiters, Counted
<1>3. WaitingCountExact
  BY <1>2, FS_EmptySet DEF Init, WaitingCountExact
<1>4. QED
  BY <1>1, <1>3

\* The counting invariant holds throughout.
LEMMA CountInvariant == Spec => []CountInv
<1>1. CountInv /\ [Next]_vars => CountInv'
  BY TypeStep, WaitStep, CountStep DEF CountInv
<1>2. QED
  BY <1>1, CountInit, PTL DEF Spec

\* A room's USER_COUNT is the number of its sessions that wait, for any number
\* of sessions below the width of the counter.
THEOREM CountsAreExact == Spec => []WaitingCountExact
<1>1. CountInv => WaitingCountExact
  BY DEF CountInv
<1>2. QED
  BY <1>1, CountInvariant, PTL

-----------------------------------------------------------------------------
(* External ports. *)

\* The port of a listed session's entry is one that was reported while it was
\* listed, and is absent only if none was.
PortInv == \A c \in Conn :
  /\ pc[c] \in {"idle", "login", "insert", "renick"} => heard[c] = {}
  /\ pc[c] \in NamedPcs =>
       \/ user_map[nick[c]].external_port \in heard[c]
       \/ user_map[nick[c]].external_port = NoPort /\ heard[c] = {}

\* Every step keeps the reported ports the ones that were received.
LEMMA PortStep == OwnInv /\ PortInv /\ [Next]_vars => PortInv'
<1> SUFFICES ASSUME OwnInv, PortInv, [Next]_vars PROVE PortInv'
  OBVIOUS
<1>0. TypeInv /\ TypeOK
  BY DEF OwnInv, TypeInv
<1> USE <1>0 DEF PortInv, At, Goto, osVars, lockVars, envVars, sharedVars
<1>1. ASSUME NEW c \in Conn, ListedStep(c) PROVE PortInv'
  <2>1. StaysListed(c)
    BY <1>1, ListedSteps
  <2>2. heard' = heard
    BY <1>1 DEF ListedStep, Join, JoinFail, Stat, RequestMatch, Welcome, OtherMessage,
         PollPort, SkipPoll, ReceiveTimeout, Pong, PongFail, BcastUnlock, BcastSend
  <2>3. QED
    BY <2>1, <2>2 DEF StaysListed, NamedPcs, BcastPcs
<1>2. ASSUME NEW c \in Conn, NEW f \in Fd, Accept(c, f) PROVE PortInv'
  BY <1>2 DEF Accept, TypeOK, NamedPcs, BcastPcs
<1>3. CASE AcceptNone \/ Exit \/ UNCHANGED vars
  BY <1>3 DEF AcceptNone, Exit, vars
<1>4. CASE Sweep
  <2>1. \A c \in Conn : pc[c] \in NamedPcs => nick[c] \in Nick /\ ~Flagged(nick[c])
    BY DEF OwnInv, SessionOwnsItsName, Flagged, TypeInv, NickKnown
  <2>2. QED
    BY <1>4, <2>1 DEF Sweep
<1>5. ASSUME NEW c \in Conn, NEW n \in Nick, Login(c, n) \/ Renick(c, n) PROVE PortInv'
  BY <1>5 DEF Login, Renick, TypeOK, NamedPcs, BcastPcs
<1>6. ASSUME NEW c \in Conn, LoginFail(c) \/ InsertInUse(c) PROVE PortInv'
  BY <1>6 DEF LoginFail, AfterLoginFail, InsertInUse, TypeOK, NamedPcs, BcastPcs
<1>7. ASSUME NEW c \in Conn, Insert(c) PROVE PortInv'
  <2>1. \A d \in Conn : pc[d] \in NamedPcs => nick[d] # nick[c]
    BY <1>7, AbsentAssumption DEF Insert, Contains, OwnInv, SessionOwnsItsName
  <2>2. nick[c] \in Nick
    BY <1>7 DEF Insert, TypeInv, NickKnown
  <2>3. user_map'[nick[c]].external_port = NoPort
    BY <1>7, <2>2 DEF Insert, NewUser, NoUser, TypeOK
  <2>4. \A n \in Nick : n # nick[c] => user_map'[n] = user_map[n]
    BY <1>7 DEF Insert, TypeOK
  <2>5. QED
    BY <1>7, <2>1, <2>2, <2>3, <2>4 DEF Insert, TypeInv, TypeOK, NickKnown, NamedPcs, BcastPcs
<1>8. ASSUME NEW c \in Conn, Enter(c) \/ Remove(c) PROVE PortInv'
  <2>1. \A n \in Nick : user_map'[n].external_port = user_map[n].external_port
    BY <1>8 DEF Enter, Joined, Remove, TypeOK, UserData
  <2>2. QED
    BY <1>8, <2>1 DEF Enter, Remove, TypeInv, TypeOK, NickKnown, NamedPcs, BcastPcs
<1>9. ASSUME NEW c \in Conn, BcastLock(c) PROVE PortInv'
  BY <1>9 DEF BcastLock
<1>10. ASSUME NEW c \in Conn, Close(c) PROVE PortInv'
  BY <1>10 DEF Close, TypeOK, NamedPcs, BcastPcs
<1>11. ASSUME NEW n \in Nick, NEW p \in Port, LobbyName(n, p) PROVE PortInv'
  <2> DEFINE o == user_map[n].owner
  <2>1. o \in Conn /\ nick[o] = n /\ pc[o] \in NamedPcs \union {"close", "done"}
    BY <1>11, UserTypes DEF LobbyName, Contains, OwnInv, EntriesHaveOwners, TypeOK
  <2>2. p \in heard'[o] /\ \A d \in Conn \ {o} : heard'[d] = heard[d]
    BY <1>11, <2>1 DEF LobbyName, TypeOK
  <2>3. /\ user_map'[n].external_port = p
        /\ \A m \in Nick : m # n => user_map'[m] = user_map[m]
    BY <1>11 DEF LobbyName, TypeOK, UserData
  <2>4. \A d \in Conn : pc[d] \in NamedPcs /\ nick[d] = n => d = o
    BY DEF OwnInv, SessionOwnsItsName
  <2>5. UNCHANGED <<pc, nick>>
    BY <1>11 DEF LobbyName
  <2> HIDE DEF o
  <2>6. QED
    BY <2>1, <2>2, <2>3, <2>4, <2>5 DEF TypeInv, NickKnown, NamedPcs, BcastPcs
<1>12. ASSUME NEW c \in Conn, Stall(c) \/ Drain(c) PROVE PortInv'
  BY <1>12 DEF Stall, Drain
<1>13. QED
  BY <1>1, <1>2, <1>3, <1>4, <1>5, <1>6, <1>7, <1>8, <1>9, <1>10, <1>11, <1>12
     DEF Next, Main, Session, Environment, Exited, ListedStep

\* At first no port has been reported.
LEMMA PortInit == Init => PortInv
  BY DEF Init, PortInv, NamedPcs, BcastPcs

\* A match message leaves the poll with a port reported for its sender while the
\* sender was listed, or without one because none was.
THEOREM PortsAreReported == Spec => MatchPortIsReported
<1> DEFINE A == \A c \in Conn : pc[c] = "poll" /\ pc'[c] = "relay" /\ tries'[c] > 0 =>
                 \/ carry'[c] \in heard[c]
                 \/ carry'[c] = NoPort /\ heard[c] = {}
<1>1. ASSUME OwnInv, PortInv, Next PROVE A
  <2> SUFFICES ASSUME NEW c \in Conn, pc[c] = "poll", pc'[c] = "relay", tries'[c] > 0
               PROVE  \/ carry'[c] \in heard[c]
                      \/ carry'[c] = NoPort /\ heard[c] = {}
    OBVIOUS
  <2> USE <1>1 DEF OwnInv, TypeInv, TypeOK, At, Goto
  <2>1. ASSUME NEW d \in Conn, ListedStep(d) PROVE PollPort(c)
    <3>1. d = c
      BY <2>1, ListedSteps DEF StaysListed
    <3>2. c \notin readers
      BY DEF ReadersBroadcast, BcastPcs
    <3>3. QED
      BY <2>1, <3>1, <3>2
         DEF ListedStep, Join, JoinFail, Stat, RequestMatch, Welcome, OtherMessage, Receive,
             SkipPoll, pollVars, ReceiveTimeout, Pong, PongFail, BcastUnlock, BcastSend
  <2>2. ASSUME Main \/ Environment \/ Exited PROVE FALSE
    BY <2>2 DEF Main, Environment, Exited, vars, Accept, AcceptNone, Sweep, Exit, LobbyName,
         Stall, Drain
  <2>3. ASSUME NEW d \in Conn, Session(d), ~ListedStep(d) PROVE FALSE
    BY <2>3 DEF Session, ListedStep, Login, Renick, LoginFail, AfterLoginFail, Insert,
         InsertInUse, Enter, BcastLock, Remove, Close
  <2>4. PollPort(c)
    BY <2>1, <2>2, <2>3 DEF Next
  <2>5. pc[c] \in NamedPcs /\ carry'[c] = user_map[nick[c]].external_port
    BY <2>4 DEF PollPort, NamedPcs
  <2>6. QED
    BY <2>5 DEF PortInv
<1>2. OwnInv /\ PortInv /\ [Next]_vars => [A]_vars
  BY <1>1
<1>3. Spec => []PortInv
  BY OwnInvariant, PortInit, PortStep, PTL DEF Spec
<1>4. MatchPortIsReported <=> [][A]_vars
  BY DEF MatchPortIsReported
<1>5. QED
  BY <1>2, <1>3, <1>4, OwnInvariant, PTL DEF Spec

=============================================================================
