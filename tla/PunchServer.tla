----------------------------- MODULE PunchServer -----------------------------
(***************************************************************************)
(* The UDP thread of the lobby server, src/znet/aocf_server.cpp: the       *)
(* vector punch_data of clients waiting to be reached through their NAT,   *)
(* its slots reused when their client died, the keep-alive timer of each   *)
(* slot, and the loop that handles one datagram per turn and then ticks    *)
(* every slot.  One turn of the loop is one step: the thread shares        *)
(* punch_data with nobody.                                                 *)
(*                                                                         *)
(* The clients are not in the repository.  Any of them may send anything   *)
(* at any time (so datagrams are lost, duplicated and reordered); those in *)
(* Faithful answer every PUNCH_PING within MaxDelay turns.                 *)
(***************************************************************************)
EXTENDS Naturals, Sequences, FiniteSets

CONSTANTS
  Addr,             \* addresses of clients (IP and port, as the NAT shows them)
  Faithful,         \* those that answer every ping, and whose answers arrive
  FULL_PING_TIMER,  \* PUNCH_DATA_FULL_PING_TIMER
  SEND_REPEATS,     \* PUNCH_DATA_PING_SEND_REPEATS
  UINT16_MAX,       \* largest value of ping_timer
  MaxDelay,         \* bound: turns until a faithful client's answer arrives
  QueueCap,         \* bound: datagrams others keep in the socket's buffer
  MaxEntries        \* bound: entries alive or asked for at a time

PING_THRESHOLD == FULL_PING_TIMER \div 2
SEND_INTERVAL == PING_THRESHOLD \div SEND_REPEATS

ASSUME TimerAssumption ==
  /\ FULL_PING_TIMER \in Nat /\ SEND_REPEATS \in Nat \ {0} /\ UINT16_MAX \in Nat
  /\ SEND_REPEATS <= PING_THRESHOLD
  /\ FULL_PING_TIMER < UINT16_MAX

ASSUME ClientAssumption ==
  /\ Faithful \subseteq Addr
  /\ MaxDelay \in Nat \ {0} /\ QueueCap \in Nat /\ MaxEntries \in Nat

VARIABLES
  punch_data,  \* the vector
  queue,       \* the socket's receive buffer
  relayed,     \* {<<to, about>>}: the PUNCH_PEER sent in the last turn, if any
  owed,        \* turns since a faithful client was sent a ping it has to answer
  asked        \* history: pings sent to an address since it was last heard

clientVars == <<queue, owed>>
vars == <<punch_data, relayed, asked, clientVars>>

PunchData == [alive : BOOLEAN, ping_timer : 0 .. UINT16_MAX, remote_addr : Addr]

\* CONNECT stands for PUNCH_CONNECT and PUNCH_DELAY_PING, which look up and
\* relay alike; OTHER for what leaves punch_data alone.
Datagram == [kind : {"WAIT", "PING", "OTHER"}, from : Addr]
              \union [kind : {"CONNECT"}, from : Addr, dest : Addr]

-----------------------------------------------------------------------------
\* A loop over the vector that stops at the first entry it looks for.
First(S) == CHOOSE i \in S : \A j \in S : i <= j

Dead(pd) == {i \in DOMAIN pd : ~pd[i].alive}
Matching(pd, a) == {i \in DOMAIN pd : pd[i].alive /\ pd[i].remote_addr = a}

NewEntry(a) == [alive |-> TRUE, ping_timer |-> FULL_PING_TIMER, remote_addr |-> a]

\* insert_punch_data: a dead slot is used again; nothing looks for an entry the
\* client has already.
Insert_TimerKept(pd, a) ==
  IF Dead(pd) = {} THEN Append(pd, NewEntry(a))
  ELSE [pd EXCEPT ![First(Dead(pd))].alive = TRUE,
                  ![First(Dead(pd))].remote_addr = a]
Insert(pd, a) ==
  IF Dead(pd) = {} THEN Append(pd, NewEntry(a))
  ELSE [pd EXCEPT ![First(Dead(pd))] = NewEntry(a)]

\* PUNCH_PING: reset_ping_timer of the first entry that matches.
Refresh_FirstAlive(pd, a) ==
  IF Matching(pd, a) = {} THEN pd
  ELSE [pd EXCEPT ![First(DOMAIN pd \ Dead(pd))].ping_timer = FULL_PING_TIMER]
Refresh(pd, a) ==
  IF Matching(pd, a) = {} THEN pd
  ELSE [pd EXCEPT ![First(Matching(pd, a))].ping_timer = FULL_PING_TIMER]

\* The switch over the packet type.
Handle(pd, p) ==
  IF p.kind = "WAIT" THEN Insert(pd, p.from)
  ELSE IF p.kind = "PING" THEN Refresh(pd, p.from)
  ELSE pd

\* PUNCH_CONNECT: one PUNCH_PEER with the sender's address, to dest.
RelayOf_Anyone(pd, p) == IF p.kind = "CONNECT" THEN {<<p.dest, p.from>>} ELSE {}
RelayOf(pd, p) ==
  IF p.kind = "CONNECT" /\ Matching(pd, p.dest) # {} THEN {<<p.dest, p.from>>} ELSE {}

\* tick_ping_timer, on an unsigned 16-bit number; at zero the entry dies.
Decrement(t) == IF t = 0 THEN UINT16_MAX ELSE t - 1
TickEntry_Undying(e) == IF e.alive /\ e.ping_timer > 1 THEN [e EXCEPT !.ping_timer = @ - 1] ELSE e
TickEntry(e) ==
  IF e.alive
  THEN [e EXCEPT !.ping_timer = Decrement(@), !.alive = Decrement(e.ping_timer) # 0]
  ELSE e
Tick(pd) == [i \in DOMAIN pd |-> TickEntry(pd[i])]

\* ping_timer_send
PingTimerSend_Last(e) == e.ping_timer = SEND_INTERVAL
PingTimerSend(e) ==
  /\ e.ping_timer <= PING_THRESHOLD
  /\ e.ping_timer % SEND_INTERVAL = 0

\* The entries of address a that are sent a PUNCH_PING in this turn.
Pinged(pd, a) == {i \in Matching(pd, a) : PingTimerSend(pd[i])}

-----------------------------------------------------------------------------
Init ==
  /\ punch_data = <<>>
  /\ queue = <<>>
  /\ relayed = {}
  /\ owed = [a \in Faithful |-> 0]
  /\ asked = [a \in Addr |-> 0]

AtMost(n, x) == IF x > n THEN n ELSE x

\* The handling of one datagram, or of none, and the tick after it.
Turn(pd, heard) ==
  /\ punch_data' = Tick(pd)
  /\ owed' = [a \in Faithful |->
                IF owed[a] > 0 THEN owed[a] + 1
                ELSE IF Pinged(Tick(pd), a) # {} THEN 1 ELSE 0]
  /\ asked' = [a \in Addr |->
                 AtMost(SEND_REPEATS, (IF a \in heard THEN 0 ELSE asked[a])
                                        + Cardinality(Pinged(Tick(pd), a)))]

\* A faithful client's answer is not late.
NoneLate == \A a \in Faithful : owed[a] <= MaxDelay

\* The non-blocking receive found nothing.
Idle ==
  /\ queue = <<>> /\ NoneLate
  /\ relayed' = {}
  /\ Turn(punch_data, {})
  /\ UNCHANGED queue

Receive ==
  LET p == Head(queue) IN
  /\ queue # <<>> /\ NoneLate
  /\ relayed' = RelayOf(punch_data, p)
  /\ Turn(Handle(punch_data, p), IF p.kind \in {"WAIT", "PING"} THEN {p.from} ELSE {})
  /\ queue' = Tail(queue)

Iterate == Idle \/ Receive

\* Entries alive, and those the datagrams in the buffer will add.
Claims == Cardinality({i \in DOMAIN punch_data : punch_data[i].alive})
            + Cardinality({i \in DOMAIN queue : queue[i].kind = "WAIT"})

\* Any client sends anything, needed or not.
Send(p) ==
  /\ Len(queue) < QueueCap
  /\ p.kind = "WAIT" => Claims < MaxEntries
  /\ queue' = Append(queue, p)
  /\ UNCHANGED <<punch_data, relayed, owed, asked>>

\* A faithful client answers a ping.
Answer(a) ==
  /\ owed[a] > 0
  /\ owed' = [owed EXCEPT ![a] = 0]
  /\ queue' = Append(queue, [kind |-> "PING", from |-> a])
  /\ UNCHANGED <<punch_data, relayed, asked>>

Next == \/ Iterate
        \/ \E p \in Datagram : Send(p)
        \/ \E a \in Faithful : Answer(a)

\* The thread runs on; faithful clients answer.
Fairness == WF_vars(Iterate) /\ \A a \in Faithful : WF_vars(Answer(a))

Spec == Init /\ [][Next]_vars /\ Fairness

-----------------------------------------------------------------------------
EntriesOK(pd) ==
  /\ pd \in Seq(PunchData)
  /\ \A i \in DOMAIN pd :
       /\ pd[i].ping_timer <= FULL_PING_TIMER
       /\ pd[i].alive <=> pd[i].ping_timer > 0

\* Types; and an entry is alive exactly while its timer runs, so that no tick
\* ever takes the 16-bit timer below zero and kills a client 65535 turns late.
TypeOK ==
  /\ EntriesOK(punch_data)
  /\ queue \in Seq(Datagram)
  /\ relayed \subseteq Addr \X Addr
  /\ owed \in [Faithful -> 0 .. MaxDelay + 1]
  /\ asked \in [Addr -> 0 .. SEND_REPEATS]

Listed(a) == Matching(punch_data, a) # {}

\* A client that answers its pings is never dropped, although its answers take
\* up to MaxDelay turns and then wait in the buffer behind other datagrams, of
\* which one is handled per turn, and although only the first of its entries is
\* refreshed.
FaithfulClientsStay == [][\A a \in Faithful : Listed(a) => Listed(a)']_vars

\* A client is dropped only after SEND_REPEATS pings went to it with nothing
\* heard from it since.
DroppedOnlyUnanswered ==
  [][\A a \in Addr : Listed(a) /\ ~Listed(a)' => asked[a] = SEND_REPEATS]_vars

Hears(a) == Receive /\ Head(queue).from = a /\ Head(queue).kind \in {"WAIT", "PING"}

\* A client that is heard no more is dropped in the end, with all its entries,
\* while other clients go on.
SilentClientsAreDropped ==
  \A a \in Addr : <>[][~Hears(a)]_vars => <>[]~Listed(a)

-----------------------------------------------------------------------------
\* The turns an address has left: the longest of its entries' timers.
Timers(pd, a) == {pd[i].ping_timer : i \in Matching(pd, a)} \union {0}
Left(pd, a) == CHOOSE t \in Timers(pd, a) : \A u \in Timers(pd, a) : u <= t

R == INSTANCE PunchRegistry WITH left <- [a \in Addr |-> Left(punch_data, a)]

\* The vector with its duplicates, reused slots and first-match loops keeps the
\* registry's promise: one timer per address, renewed by every wait and every
\* keep-alive, and an introduction to exactly those who are listed.
RegistryPromise == R!RegistrySpec

=============================================================================
