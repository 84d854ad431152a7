------------------------ MODULE LobbyRefinementProofs ------------------------
(***************************************************************************)
(* The threads of LobbyServer implement the safety part of Lobby, for any  *)
(* value of the constants: every step of a thread is a step of the         *)
(* abstract lobby or changes nothing the users were promised.              *)
(***************************************************************************)
EXTENDS LobbyProofs

\* A session has no room before its JOIN.
NoRoomYet == \A c \in Conn :
  pc[c] \in {"idle", "login", "insert", "renick", "join"} => room[c] = InvalidRoom

RefInv == OwnInv /\ CountInv /\ NoRoomYet

\* A session that has not joined has no room, whatever step is taken.
LEMMA NoRoomYetStep == TypeInv /\ NoRoomYet /\ [Next]_vars => NoRoomYet'
<1> SUFFICES ASSUME TypeInv, NoRoomYet, [Next]_vars PROVE NoRoomYet'
  OBVIOUS
<1> USE DEF TypeInv, TypeOK, NoRoomYet, At, Goto
<1>1. ASSUME NEW c \in Conn, ListedStep(c) PROVE NoRoomYet'
  <2>1. CASE \E r \in Room : Join(c, r)
    BY <2>1 DEF Join
  <2>2. CASE ~\E r \in Room : Join(c, r)
    <3>1. pc'[c] # "join" /\ room' = room
      <4>1. CASE BcastUnlock(c)
        BY <4>1 DEF BcastUnlock, AfterBcast, ReadersBroadcast, BcastPcs
      <4>2. CASE \E n \in Nick : BcastSend(c, n)
        BY <4>2 DEF BcastSend, ReadersBroadcast, BcastPcs
      <4>3. QED
        BY <1>1, <2>2, <4>1, <4>2
           DEF ListedStep, JoinFail, Stat, RequestMatch, Welcome, OtherMessage, CountOut,
               PollPort, SkipPoll, ReceiveTimeout, Pong, PongFail, Receive
    <3>2. QED
      BY <1>1, <3>1, ListedSteps DEF StaysListed, NamedPcs, BcastPcs
  <2>3. QED
    BY <2>1, <2>2
<1>2. CASE Main \/ Environment \/ Exited
  BY <1>2 DEF Main, Environment, Exited, vars, Accept, AcceptNone, Sweep, Exit, LobbyName,
       Stall, Drain
<1>3. ASSUME NEW c \in Conn, Session(c), ~ListedStep(c) PROVE NoRoomYet'
  BY <1>3 DEF Session, ListedStep, Login, Renick, LoginFail, AfterLoginFail, Insert,
       InsertInUse, Enter, BcastLock, BcastPcs, Remove, Close
<1>4. QED
  BY <1>1, <1>2, <1>3 DEF Next, vars

\* The invariant the refinement rests on.
LEMMA RefInvariant == Spec => []RefInv
<1>1. Init => NoRoomYet
  BY DEF Init, NoRoomYet
<1>2. OwnInv => TypeInv
  BY DEF OwnInv
<1>3. Spec => []NoRoomYet
  BY <1>1, <1>2, OwnInvariant, NoRoomYetStep, PTL DEF Spec
<1>4. OwnInv /\ CountInv /\ NoRoomYet => RefInv
  BY DEF RefInv
<1>5. QED
  BY <1>3, <1>4, OwnInvariant, CountInvariant, PTL

-----------------------------------------------------------------------------
(* Every step is a step of Lobby, or none. *)

\* A step that changes nothing the lobby promises.
Unobserved ==
  /\ Stopped' = Stopped
  /\ \A n \in Nick : user_map'[n].owner = user_map[n].owner
  /\ \A d \in Conn : Stage(d)' = Stage(d)
  /\ \A d \in Conn : Counted(d)' <=> Counted(d)
  /\ UNCHANGED <<room, USER_COUNT>>

\* A step that changes nothing the lobby shows is a stutter of the lobby.
LEMMA UnobservedStutters ==
  ASSUME Unobserved
  PROVE  UNCHANGED L!lobbyVars
<1>1. [n \in Nick |-> user_map[n].owner]' = [n \in Nick |-> user_map[n].owner]
  BY DEF Unobserved
<1>2. [c \in Conn |-> Stage(c)]' = [c \in Conn |-> Stage(c)]
  BY DEF Unobserved
<1>3. {c \in Conn : Counted(c)}' = {c \in Conn : Counted(c)}
  BY DEF Unobserved
<1>4. QED
  BY <1>1, <1>2, <1>3 DEF Unobserved, L!lobbyVars

\* The initial states of the threads are those of the lobby.
LEMMA InitImplements == Init => L!LobbyInit
<1> SUFFICES ASSUME Init PROVE L!LobbyInit
  OBVIOUS
<1>1. ~Stopped
  BY DEF Init, Stopped
<1>2. [n \in Nick |-> user_map[n].owner] = [n \in Nick |-> NoConn]
  BY DEF Init, NoUser
<1>3. [c \in Conn |-> Stage(c)] = [c \in Conn |-> "outside"]
  BY DEF Init, Stage, NamedPcs, BcastPcs
<1>4. {c \in Conn : Counted(c)} = {}
  BY DEF Init, Counted
<1>5. QED
  BY <1>1, <1>2, <1>3, <1>4 DEF Init, L!LobbyInit

\* A step that keeps the waiting sessions and moves the others within a stage.
LEMMA StageKept ==
  ASSUME NEW c \in Conn, \A d \in Conn \ {c} : pc'[d] = pc[d], Stage(c)' = Stage(c),
         SameWaiters, UNCHANGED <<room, Stopped>>,
         \A n \in Nick : user_map'[n].owner = user_map[n].owner
  PROVE  Unobserved
<1>1. ASSUME NEW d \in Conn PROVE Stage(d)' = Stage(d)
  BY DEF Stage
<1>2. QED
  BY <1>1 DEF SameWaiters, Unobserved

\* The steps that neither add to user_map nor erase from it keep its owners.
LEMMA ListedUnobserved ==
  ASSUME RefInv, [Next]_vars, NEW c \in Conn, ListedStep(c),
         ~CountsIn(c), ~CountsOut(c), ~\E r \in Room : Join(c, r)
  PROVE  Unobserved
<1>1. StaysListed(c)
  BY ListedSteps DEF RefInv, OwnInv
<1>2. UNCHANGED <<room, main>>
  BY DEF ListedStep, JoinFail, Stat, RequestMatch, Welcome, OtherMessage, PollPort,
     SkipPoll,
     ReceiveTimeout, Pong, PongFail, BcastUnlock, BcastSend
<1>3. \A d \in Conn \ {c} : ~CountsIn(d) /\ ~CountsOut(d)
  BY <1>1 DEF CountsIn, CountsOut, Stat, Welcome, ReceiveTimeout, Receive, At, Goto, CountOut,
     StaysListed, RefInv, OwnInv, TypeInv, TypeOK
<1>4. SameWaiters
  BY <1>3, QuietSteps DEF RefInv
<1>5. Stage(c)' = Stage(c)
  BY <1>1 DEF StaysListed, Stage
<1>6. UNCHANGED Stopped
  BY <1>2 DEF Stopped
<1>7. QED
  BY <1>1, <1>2, <1>4, <1>5, <1>6, StageKept DEF StaysListed

\* The steps between two operations are not seen in the lobby.
LEMMA OthersUnobserved ==
  ASSUME RefInv, [Next]_vars,
         \/ \E c \in Conn :
              \/ \E f \in Fd : Accept(c, f)
              \/ \E n \in Nick : Login(c, n) \/ Renick(c, n)
              \/ InsertInUse(c) \/ Enter(c) \/ BcastLock(c) \/ Close(c)
              \/ Stall(c) \/ Drain(c)
         \/ \E n \in Nick, p \in Port : LobbyName(n, p)
         \/ AcceptNone \/ Exit \/ UNCHANGED vars
  PROVE  Unobserved
<1> USE DEF RefInv, OwnInv, TypeInv, TypeOK, At, Goto, osVars, sharedVars
<1>1. SameWaiters
  <2>1. \A c \in Conn : ~CountsIn(c) /\ ~CountsOut(c)
    BY DEF CountsIn, CountsOut, Stat, Welcome, ReceiveTimeout, CountOut, Receive, CountMsg,
       Accept, Login, Renick, InsertInUse, Enter, BcastLock, Close, Stall, Drain, LobbyName,
       AcceptNone, Exit, vars, BcastPcs
  <2>2. QED
    BY <2>1, QuietSteps
<1>2. ASSUME NEW c \in Conn, NEW f \in Fd, Accept(c, f) PROVE Unobserved
  BY <1>1, <1>2, StageKept DEF Accept, Stage, NamedPcs, BcastPcs, Stopped
<1>3. ASSUME NEW c \in Conn, NEW n \in Nick, Login(c, n) \/ Renick(c, n) PROVE Unobserved
  BY <1>1, <1>3, StageKept DEF Login, Renick, Stage, NamedPcs, BcastPcs, Stopped
<1>4. ASSUME NEW c \in Conn, InsertInUse(c) \/ BcastLock(c) \/ Close(c) PROVE Unobserved
  BY <1>1, <1>4, StageKept
     DEF InsertInUse, BcastLock, Close, Stage, NamedPcs, BcastPcs, Stopped
<1>5. ASSUME NEW c \in Conn, Enter(c) PROVE Unobserved
  <2>1. \A n \in Nick : user_map'[n].owner = user_map[n].owner
    BY <1>5 DEF Enter, Joined, UserData
  <2>2. QED
    BY <1>1, <1>5, <2>1, StageKept DEF Enter, Stage, NamedPcs, BcastPcs, Stopped
<1>6. ASSUME NEW c \in Conn, Stall(c) \/ Drain(c) PROVE Unobserved
  BY <1>1, <1>6, StageKept DEF Stall, Drain, Stage, Stopped
<1>7. ASSUME NEW n \in Nick, NEW p \in Port, LobbyName(n, p) PROVE Unobserved
  <2>1. \A m \in Nick : user_map'[m].owner = user_map[m].owner
    BY <1>7 DEF LobbyName, UserData
  <2>2. QED
    BY <1>1, <1>7, <2>1 DEF LobbyName, Unobserved, SameWaiters, Stage, Stopped
<1>8. CASE AcceptNone \/ Exit \/ UNCHANGED vars
  BY <1>1, <1>8 DEF AcceptNone, Exit, vars, Unobserved, SameWaiters, Stage, Stopped
<1>9. QED
  BY <1>2, <1>3, <1>4, <1>5, <1>6, <1>7, <1>8

\* A counting step of the threads is a counting step of the lobby.
LEMMA CountsInImplements ==
  ASSUME RefInv, NEW c \in Conn, CountsIn(c)
  PROVE  L!StartWaiting(c)
<1> DEFINE W == {d \in Conn : Counted(d)}
           St == [d \in Conn |-> Stage(d)]
           H == [n \in Nick |-> user_map[n].owner]
<1>1. /\ ~Counted(c) /\ Counted(c)'
      /\ \A d \in Conn \ {c} : Counted(d)' <=> Counted(d)
      /\ room[c] \in Room /\ room' = room
      /\ USER_COUNT' = [USER_COUNT EXCEPT ![room[c]] = Inc(@)]
  BY CountsInFacts DEF RefInv
<1>2. W' = W \union {c} /\ c \notin W
  BY <1>1
<1>3. Inc(USER_COUNT[room[c]]) = USER_COUNT[room[c]] + 1
  <2>1. USER_COUNT[room[c]] = Cardinality(Waiters(room[c]))
    BY <1>1 DEF RefInv, CountInv, WaitingCountExact
  <2>2. c \notin Waiters(room[c]) /\ IsFiniteSet(Waiters(room[c]))
    BY <1>1, WaitersFit DEF Waiters
  <2>3. Cardinality(Waiters(room[c]) \union {c}) = Cardinality(Waiters(room[c])) + 1
    BY <2>2, FS_AddElement
  <2>4. Cardinality(Waiters(room[c]) \union {c}) < CountLimit
    BY WaitersFit DEF Waiters
  <2>5. Cardinality(Waiters(room[c])) \in Nat
    BY WaitersFit DEF Waiters
  <2>6. QED
    BY <2>1, <2>3, <2>4, <2>5, ConnAssumption DEF Inc
<1>4. StaysListed(c) /\ UNCHANGED Stopped
  BY ListedSteps DEF CountsIn, ListedStep, RefInv, OwnInv, Stat, Stopped
<1>5. St' = St /\ H' = H /\ St[c] = "inside"
  BY <1>4 DEF StaysListed, Stage
<1>6. room[c] # InvalidRoom
  BY <1>1, AbsentAssumption
<1>7. USER_COUNT' = [USER_COUNT EXCEPT ![room[c]] = @ + 1]
  BY <1>1, <1>3
<1>8. QED
  BY <1>1, <1>2, <1>4, <1>5, <1>6, <1>7 DEF L!StartWaiting

\* Counting out is the lobby's: the session no longer waits.
LEMMA CountsOutImplements ==
  ASSUME RefInv, NEW c \in Conn, CountsOut(c)
  PROVE  L!StopWaiting(c)
<1> DEFINE W == {d \in Conn : Counted(d)}
           St == [d \in Conn |-> Stage(d)]
           H == [n \in Nick |-> user_map[n].owner]
<1>1. /\ Counted(c) /\ ~Counted(c)'
      /\ \A d \in Conn \ {c} : Counted(d)' <=> Counted(d)
      /\ room[c] \in Room /\ room' = room
      /\ USER_COUNT' = [USER_COUNT EXCEPT ![room[c]] = Dec(@)]
  BY CountsOutFacts DEF RefInv
<1>2. W' = W \ {c} /\ c \in W
  BY <1>1
<1>3. Dec(USER_COUNT[room[c]]) = USER_COUNT[room[c]] - 1
  <2>1. USER_COUNT[room[c]] = Cardinality(Waiters(room[c]))
    BY <1>1 DEF RefInv, CountInv, WaitingCountExact
  <2>2. c \in Waiters(room[c]) /\ IsFiniteSet(Waiters(room[c]))
    BY <1>1, WaitersFit DEF Waiters
  <2>3. Cardinality(Waiters(room[c])) # 0
    BY <2>2, FS_EmptySet
  <2>4. QED
    BY <2>1, <2>3 DEF Dec
<1>4. StaysListed(c) /\ UNCHANGED Stopped
  BY ListedSteps DEF CountsOut, ListedStep, RefInv, OwnInv, Welcome, ReceiveTimeout, Stopped
<1>5. St' = St /\ H' = H
  BY <1>4 DEF StaysListed, Stage
<1>6. USER_COUNT' = [USER_COUNT EXCEPT ![room[c]] = @ - 1]
  BY <1>1, <1>3
<1>7. QED
  BY <1>1, <1>2, <1>4, <1>5, <1>6 DEF L!StopWaiting

\* JOIN enters a room.
LEMMA JoinImplements ==
  ASSUME RefInv, [Next]_vars, NEW c \in Conn, NEW r \in Room, Join(c, r)
  PROVE  L!EnterRoom(c, r)
<1> DEFINE W == {d \in Conn : Counted(d)}
           St == [d \in Conn |-> Stage(d)]
           H == [n \in Nick |-> user_map[n].owner]
<1> USE DEF RefInv, OwnInv, TypeInv, TypeOK
<1>1. StaysListed(c)
  BY ListedSteps DEF ListedStep
<1>2. \A d \in Conn : Counted(d)' <=> Counted(d)
  BY DEF Join, At, Goto, Counted, CountInv, WaitInv
<1>3. W' = W
  BY <1>2
<1>4. St' = St /\ H' = H /\ St[c] = "inside"
  BY <1>1 DEF StaysListed, Stage
<1>5. room[c] = InvalidRoom /\ room' = [room EXCEPT ![c] = r]
  BY DEF Join, At, NoRoomYet
<1>6. UNCHANGED <<Stopped, USER_COUNT>>
  BY DEF Join, Stopped, sharedVars
<1>7. QED
  BY <1>3, <1>4, <1>5, <1>6 DEF L!EnterRoom

\* Failing to log in and flagging one's entry are how a session leaves.
LEMMA LeaveImplements ==
  ASSUME RefInv, [Next]_vars, NEW c \in Conn, LoginFail(c) \/ Remove(c)
  PROVE  L!Leave(c)
<1> DEFINE W == {d \in Conn : Counted(d)}
           St == [d \in Conn |-> Stage(d)]
           H == [n \in Nick |-> user_map[n].owner]
<1> USE DEF RefInv, OwnInv, TypeInv, TypeOK, LoginFail, Remove, At, Goto
<1>1. /\ pc[c] \in {"login", "renick", "remove"} /\ pc'[c] = "close"
      /\ \A d \in Conn \ {c} : pc'[d] = pc[d]
  BY DEF AfterLoginFail
<1>2. \A d \in Conn : Counted(d)' <=> Counted(d)
  BY <1>1 DEF Counted
<1>3. W' = W /\ c \notin W
  BY <1>1, <1>2 DEF Counted, CountInv, WaitInv
<1>4. St' = [St EXCEPT ![c] = "left"] /\ St[c] # "left"
  BY <1>1 DEF Stage, NamedPcs, BcastPcs
<1>5. \A n \in Nick : user_map'[n].owner = user_map[n].owner
  BY DEF sharedVars, UserData
<1>6. H' = H
  BY <1>5
<1>7. UNCHANGED <<Stopped, USER_COUNT, room>>
  BY DEF sharedVars, Stopped
<1>8. QED
  BY <1>3, <1>4, <1>6, <1>7 DEF L!Leave

\* Entering a free name in user_map is how the lobby admits a session.
LEMMA InsertImplements ==
  ASSUME RefInv, [Next]_vars, NEW c \in Conn, Insert(c)
  PROVE  \E n \in Nick : L!Claim(c, n)
<1> DEFINE W == {d \in Conn : Counted(d)}
           St == [d \in Conn |-> Stage(d)]
           H == [n \in Nick |-> user_map[n].owner]
<1> USE DEF RefInv, OwnInv, TypeInv, TypeOK, Insert, At, Goto
<1>1. /\ pc[c] = "insert" /\ pc'[c] = "join"
      /\ \A d \in Conn \ {c} : pc'[d] = pc[d]
  OBVIOUS
<1>2. nick[c] \in Nick
  BY <1>1 DEF NickKnown
<1>3. \A d \in Conn : Counted(d)' <=> Counted(d)
  BY <1>1 DEF Counted
<1>4. W' = W
  BY <1>3
<1>5. St' = [St EXCEPT ![c] = "inside"] /\ St[c] = "outside"
  BY <1>1 DEF Stage, NamedPcs, BcastPcs
<1>6. \A n \in Nick : user_map'[n].owner = IF n = nick[c] THEN c ELSE user_map[n].owner
  BY <1>2 DEF NewUser, NoUser
<1>7. H' = [H EXCEPT ![nick[c]] = c] /\ H[nick[c]] = NoConn
  BY <1>2, <1>6 DEF Contains
<1>8. UNCHANGED <<Stopped, USER_COUNT, room>>
  BY DEF Stopped
<1>9. PICK n \in Nick : n = nick[c]
  BY <1>2
<1>10. L!Claim(c, n)
  BY <1>4, <1>5, <1>7, <1>8, <1>9 DEF L!Claim
<1>11. QED
  BY <1>10

\* A sweep erases exactly the entries of the sessions that left.
LEMMA SweepImplements ==
  ASSUME RefInv, [Next]_vars, Sweep
  PROVE  L!Release \/ L!CloseLobby \/ UNCHANGED L!lobbyVars
<1> DEFINE W == {d \in Conn : Counted(d)}
           St == [d \in Conn |-> Stage(d)]
           H == [n \in Nick |-> user_map[n].owner]
           Ab == {n \in Nick : H[n] # NoConn /\ St[H[n]] = "left"}
<1> USE DEF RefInv, OwnInv, TypeInv, TypeOK
<1>1. UNCHANGED <<pc, is_waiting, room, USER_COUNT>>
  BY DEF Sweep
<1>2. \A d \in Conn : Counted(d)' = Counted(d) /\ Stage(d)' = Stage(d)
  BY <1>1 DEF Counted, Stage
<1>3. W' = W /\ St' = St
  BY <1>2
<1>4. ASSUME NEW n \in Nick PROVE Flagged(n) <=> n \in Ab
  <2>1. CASE Contains(n)
    <3>1. user_map[n].owner \in Conn
      BY <2>1, UserTypes DEF Contains
    <3>2. St[H[n]] = "left" <=> pc[user_map[n].owner] \in {"close", "done"}
      BY <3>1 DEF Stage, NamedPcs, BcastPcs
    <3>3. user_map[n].delete_flag <=> pc[user_map[n].owner] \in {"close", "done"}
      BY <2>1, <3>1 DEF EntriesHaveOwners, SessionOwnsItsName
    <3>4. QED
      BY <2>1, <3>2, <3>3 DEF Flagged, Contains
  <2>2. CASE ~Contains(n)
    BY <2>2 DEF Flagged, Contains
  <2>3. QED
    BY <2>1, <2>2
<1>5. \A n \in Nick : user_map'[n].owner = IF n \in Ab THEN NoConn ELSE user_map[n].owner
  BY <1>4 DEF Sweep, NoUser
<1>6. H' = [n \in Nick |-> IF n \in Ab THEN NoConn ELSE H[n]]
  BY <1>5
<1>7. L!Abandoned = Ab
  BY DEF L!Abandoned
<1>8. ~Stopped /\ Stopped' \in BOOLEAN
  BY DEF Sweep, Stopped
<1>9. CASE Ab # {}
  BY <1>1, <1>3, <1>6, <1>7, <1>8, <1>9 DEF L!Release
<1>10. CASE Ab = {}
  <2>1. H' = H
    BY <1>5, <1>10
  <2>2. QED
    BY <1>1, <1>3, <1>8, <2>1 DEF L!CloseLobby, L!lobbyVars
<1>11. QED
  BY <1>9, <1>10

\* Every step of the threads is a step of the lobby, or a stutter.
LEMMA StepImplements == RefInv /\ [Next]_vars => [L!LobbyNext]_L!lobbyVars
<1> SUFFICES ASSUME RefInv, [Next]_vars PROVE [L!LobbyNext]_L!lobbyVars
  OBVIOUS
<1>1. CASE Unobserved
  BY <1>1, UnobservedStutters
<1>2. ASSUME NEW c \in Conn, ListedStep(c) PROVE [L!LobbyNext]_L!lobbyVars
  <2>1. CASE CountsIn(c)
    BY <2>1, CountsInImplements DEF L!LobbyNext
  <2>2. CASE CountsOut(c)
    BY <2>2, CountsOutImplements DEF L!LobbyNext
  <2>3. CASE \E r \in Room : Join(c, r)
    BY <2>3, JoinImplements DEF L!LobbyNext
  <2>4. QED
    BY <1>1, <1>2, <2>1, <2>2, <2>3, ListedUnobserved
<1>3. ASSUME NEW c \in Conn, LoginFail(c) \/ Remove(c) PROVE [L!LobbyNext]_L!lobbyVars
  <2>1. L!Leave(c)
    BY <1>3, LeaveImplements
  <2>2. QED
    BY <2>1 DEF L!LobbyNext
<1>4. ASSUME NEW c \in Conn, Insert(c) PROVE [L!LobbyNext]_L!lobbyVars
  <2>1. \E n \in Nick : L!Claim(c, n)
    BY <1>4, InsertImplements
  <2>2. QED
    BY <2>1 DEF L!LobbyNext
<1>5. CASE Sweep
  BY <1>5, SweepImplements DEF L!LobbyNext
<1>6. ASSUME NEW c \in Conn, Session(c) PROVE [L!LobbyNext]_L!lobbyVars
  <2>1. CASE \/ \E n \in Nick : Login(c, n) \/ Renick(c, n)
             \/ InsertInUse(c) \/ Enter(c) \/ BcastLock(c) \/ Close(c)
    BY <1>1, <2>1, OthersUnobserved
  <2>2. QED
    BY <1>2, <1>3, <1>4, <1>6, <2>1 DEF Session, ListedStep
<1>7. CASE Main
  <2>1. CASE AcceptNone \/ Exit \/ \E c \in Conn, f \in Fd : Accept(c, f)
    BY <1>1, <2>1, OthersUnobserved
  <2>2. QED
    BY <1>5, <1>7, <2>1 DEF Main
<1>8. CASE Environment \/ Exited \/ UNCHANGED vars
  BY <1>1, <1>8, OthersUnobserved DEF Environment, Exited
<1>9. QED
  BY <1>6, <1>7, <1>8 DEF Next

\* The threads of the server keep the lobby's promise, but for its liveness:
\* names are exclusive and free again only after their session left, counts
\* follow the sessions that wait, and a session leaves only when it does not.
THEOREM ThreadsImplementLobby == Spec => L!LobbySafety
<1>1. Spec => []RefInv /\ Init /\ [][Next]_vars
  BY RefInvariant, PTL DEF Spec
<1>2. QED
  BY <1>1, InitImplements, StepImplements, PTL DEF L!LobbySafety

=============================================================================
