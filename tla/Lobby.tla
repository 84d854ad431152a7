-------------------------------- MODULE Lobby --------------------------------
(***************************************************************************)
(* What the lobby promises its users, without threads, locks or sockets:   *)
(* a nickname belongs to one session at a time, a session is in at most    *)
(* one room, the room's count is the number of its sessions that wait for  *)
(* a match, a session leaves only when it does not wait any more, and a    *)
(* nickname becomes free some time after its session has left.             *)
(***************************************************************************)
EXTENDS Naturals, FiniteSets

CONSTANTS Conn, Nick, Room, NoConn, InvalidRoom

VARIABLES
  open,      \* the server takes in users
  holder,    \* nickname -> session it belongs to
  stage,     \* session -> "outside", "inside", "left"
  room,      \* session -> room
  waiting,   \* sessions that wait for a match
  count      \* room -> what the lobby tells the users of the room

lobbyVars == <<open, holder, stage, room, waiting, count>>

LobbyInit ==
  /\ open = TRUE
  /\ holder = [n \in Nick |-> NoConn]
  /\ stage = [c \in Conn |-> "outside"]
  /\ room = [c \in Conn |-> InvalidRoom]
  /\ waiting = {}
  /\ count = [r \in Room |-> 0]

Claim(c, n) ==
  /\ stage[c] = "outside" /\ holder[n] = NoConn
  /\ holder' = [holder EXCEPT ![n] = c]
  /\ stage' = [stage EXCEPT ![c] = "inside"]
  /\ UNCHANGED <<open, room, waiting, count>>

EnterRoom(c, r) ==
  /\ stage[c] = "inside" /\ room[c] = InvalidRoom
  /\ room' = [room EXCEPT ![c] = r]
  /\ UNCHANGED <<open, holder, stage, waiting, count>>

StartWaiting(c) ==
  /\ stage[c] = "inside" /\ room[c] # InvalidRoom /\ c \notin waiting
  /\ waiting' = waiting \union {c}
  /\ count' = [count EXCEPT ![room[c]] = @ + 1]
  /\ UNCHANGED <<open, holder, stage, room>>

StopWaiting(c) ==
  /\ c \in waiting
  /\ waiting' = waiting \ {c}
  /\ count' = [count EXCEPT ![room[c]] = @ - 1]
  /\ UNCHANGED <<open, holder, stage, room>>

\* A session that never got a nickname may leave too.
Leave(c) ==
  /\ stage[c] # "left" /\ c \notin waiting
  /\ stage' = [stage EXCEPT ![c] = "left"]
  /\ UNCHANGED <<open, holder, room, waiting, count>>

Abandoned == {n \in Nick : holder[n] # NoConn /\ stage[holder[n]] = "left"}

Release ==
  /\ open /\ Abandoned # {}
  /\ holder' = [n \in Nick |-> IF n \in Abandoned THEN NoConn ELSE holder[n]]
  /\ open' \in BOOLEAN
  /\ UNCHANGED <<stage, room, waiting, count>>

CloseLobby ==
  /\ open
  /\ open' = FALSE
  /\ UNCHANGED <<holder, stage, room, waiting, count>>

LobbyNext ==
  \/ \E c \in Conn : \/ \E n \in Nick : Claim(c, n)
                     \/ \E r \in Room : EnterRoom(c, r)
                     \/ StartWaiting(c) \/ StopWaiting(c) \/ Leave(c)
  \/ Release \/ CloseLobby

\* The safety part of the promise, and the whole of it.
LobbySafety == LobbyInit /\ [][LobbyNext]_lobbyVars
LobbySpec == LobbySafety /\ WF_lobbyVars(Release)

=============================================================================
