----------------------------- MODULE PunchProofs -----------------------------
(***************************************************************************)
(* Proofs about PunchServer, for every set of clients and all timer        *)
(* constants: the types, that a client is dropped only after it left       *)
(* enough pings unanswered, and that punch_data keeps the promise of       *)
(* PunchRegistry.                                                          *)
(***************************************************************************)
EXTENDS PunchServer, FiniteSetTheorems, WellFoundedInduction, TLAPS

-----------------------------------------------------------------------------
(* Numbers. *)

\* A nonempty set of naturals has a least element ...
LEMMA LeastExists ==
  ASSUME NEW S, S \subseteq Nat, S # {}
  PROVE  \E m \in S : \A j \in S : m <= j
<1>1. PICK m \in S : \A j \in S : <<j, m>> \notin OpToRel(<, Nat)
  BY WFMin, NatLessThanWellFounded
<1>2. \A j \in S : ~ j < m
  BY <1>1 DEF OpToRel
<1>3. QED
  BY <1>2

\* ... and, bounded, a greatest one.
LEMMA GreatestExists ==
  ASSUME NEW n \in Nat, NEW S, S \subseteq 0 .. n, S # {}
  PROVE  \E m \in S : \A j \in S : j <= m
<1> DEFINE T == {n - j : j \in S}
<1>1. \A j \in S : j \in Nat /\ n - j \in Nat
  OBVIOUS
<1>2. PICK t \in T : \A u \in T : t <= u
  <2>1. T \subseteq Nat
    BY <1>1
  <2>2. T # {}
    OBVIOUS
  <2>3. QED
    BY <2>1, <2>2, LeastExists
<1>3. PICK m \in S : t = n - m
  OBVIOUS
<1>4. \A j \in S : n - m <= n - j
  BY <1>2, <1>3
<1>5. QED
  BY <1>1, <1>4

\* The pings begin late enough for SEND_REPEATS of them, SEND_INTERVAL apart.
LEMMA TimerFacts ==
  /\ PING_THRESHOLD \in Nat \ {0} /\ SEND_INTERVAL \in Nat \ {0}
  /\ SEND_REPEATS * SEND_INTERVAL <= PING_THRESHOLD
  /\ FULL_PING_TIMER > PING_THRESHOLD
<1> USE TimerAssumption
<1>1. PING_THRESHOLD \in Nat \ {0} /\ FULL_PING_TIMER > PING_THRESHOLD
  BY DEF PING_THRESHOLD
<1>2. \A t \in Nat, r \in Nat \ {0} : r <= t => t \div r \in Nat \ {0} /\ r * (t \div r) <= t
  BY SMTT(30)
<1>3. QED
  BY <1>1, <1>2 DEF SEND_INTERVAL

\* A multiple of a number leaves no remainder.
LEMMA MultipleMod ==
  ASSUME NEW k \in Nat, NEW m \in Nat \ {0}
  PROVE  (k * m) % m = 0
  BY SMTT(30)

-----------------------------------------------------------------------------
(* The vector: what each helper keeps, and what it does to Left. *)

\* The vector and its entries, one fact at a time.
LEMMA EntryFacts ==
  ASSUME NEW pd, EntriesOK(pd)
  PROVE  /\ Len(pd) \in Nat /\ DOMAIN pd = 1 .. Len(pd)
         /\ \A i \in DOMAIN pd :
              /\ pd[i] \in PunchData
              /\ pd[i].remote_addr \in Addr /\ pd[i].alive \in BOOLEAN
              /\ pd[i].ping_timer \in Nat
              /\ pd[i].ping_timer \in 0 .. FULL_PING_TIMER
              /\ pd[i].alive <=> pd[i].ping_timer > 0
<1> USE TimerAssumption
<1>1. pd \in Seq(PunchData)
  BY DEF EntriesOK
<1>2. Len(pd) \in Nat /\ DOMAIN pd = 1 .. Len(pd)
  BY <1>1
<1>3. \A i \in DOMAIN pd : pd[i] \in PunchData
  BY <1>1
<1>4. \A i \in DOMAIN pd :
        /\ pd[i].remote_addr \in Addr /\ pd[i].alive \in BOOLEAN
        /\ pd[i].ping_timer \in 0 .. UINT16_MAX
  <2>1. \A e \in PunchData :
          /\ e.remote_addr \in Addr /\ e.alive \in BOOLEAN
          /\ e.ping_timer \in 0 .. UINT16_MAX
    BY DEF PunchData
  <2>2. QED
    BY <1>3, <2>1
<1>5. \A i \in DOMAIN pd : pd[i].ping_timer <= FULL_PING_TIMER /\ (pd[i].alive <=> pd[i].ping_timer > 0)
  BY DEF EntriesOK
<1>6. QED
  BY <1>2, <1>3, <1>4, <1>5

\* Left is the largest of an address's timers.
LEMMA LeftIs ==
  ASSUME NEW pd, EntriesOK(pd), NEW a
  PROVE  /\ Left(pd, a) \in Timers(pd, a)
         /\ \A u \in Timers(pd, a) : u <= Left(pd, a)
         /\ Left(pd, a) \in 0 .. FULL_PING_TIMER
<1>1. Timers(pd, a) \subseteq 0 .. FULL_PING_TIMER
  BY TimerAssumption, EntryFacts DEF Timers, Matching
<1>2. Timers(pd, a) # {}
  BY DEF Timers
<1>3. \E m \in Timers(pd, a) : \A j \in Timers(pd, a) : j <= m
  BY <1>1, <1>2, GreatestExists, TimerAssumption
<1>4. QED
  BY <1>1, <1>3 DEF Left

\* It is the only such number.
LEMMA LeftUnique ==
  ASSUME NEW pd, EntriesOK(pd), NEW a,
         NEW t \in Timers(pd, a), \A u \in Timers(pd, a) : u <= t
  PROVE  Left(pd, a) = t
<1>1. Timers(pd, a) \subseteq Nat
  BY TimerAssumption, EntryFacts DEF Timers, Matching
<1>2. Left(pd, a) \in Timers(pd, a) /\ \A u \in Timers(pd, a) : u <= Left(pd, a)
  BY LeftIs
<1>3. QED
  BY <1>1, <1>2

\* An address is listed exactly while it has time left.
LEMMA ListedLeft ==
  ASSUME NEW pd, EntriesOK(pd), NEW a
  PROVE  Matching(pd, a) # {} <=> Left(pd, a) > 0
<1>1. \A i \in Matching(pd, a) : pd[i].ping_timer \in Nat /\ pd[i].ping_timer > 0
  BY EntryFacts DEF Matching
<1>2. QED
  BY <1>1, LeftIs DEF Timers

\* A tick takes one turn from every address that has any.
LEMMA TickLeft ==
  ASSUME NEW pd, EntriesOK(pd)
  PROVE  /\ EntriesOK(Tick(pd))
         /\ \A a \in Addr : Left(Tick(pd), a) = IF Left(pd, a) = 0 THEN 0 ELSE Left(pd, a) - 1
<1> DEFINE td == Tick(pd)
<1> USE TimerAssumption
<1>1. Len(pd) \in Nat /\ DOMAIN pd = 1 .. Len(pd)
  BY EntryFacts
<1>2. DOMAIN td = DOMAIN pd /\ \A i \in DOMAIN pd : td[i] = TickEntry(pd[i])
  BY DEF Tick
<1>3. ASSUME NEW i \in DOMAIN pd
      PROVE  /\ td[i] \in PunchData
             /\ td[i].remote_addr = pd[i].remote_addr
             /\ td[i].ping_timer = IF pd[i].ping_timer = 0 THEN 0 ELSE pd[i].ping_timer - 1
             /\ td[i].ping_timer \in 0 .. FULL_PING_TIMER
             /\ td[i].alive <=> td[i].ping_timer > 0
             /\ td[i].alive => pd[i].alive
  <2> DEFINE e == pd[i]
  <2>1. e \in PunchData /\ e.ping_timer \in 0 .. FULL_PING_TIMER /\ (e.alive <=> e.ping_timer > 0)
    BY EntryFacts
  <2>2. td[i] = TickEntry(e)
    BY <1>2
  <2>3. CASE e.alive
    <3>1. e.ping_timer - 1 \in 0 .. UINT16_MAX /\ e.ping_timer # 0
      BY <2>1, <2>3
    <3>2. td[i] = [e EXCEPT !.ping_timer = e.ping_timer - 1, !.alive = (e.ping_timer - 1 # 0)]
      BY <2>2, <2>3, <3>1 DEF TickEntry, Decrement
    <3>3. td[i] \in PunchData
      BY <2>1, <3>1, <3>2 DEF PunchData
    <3>4. /\ td[i].remote_addr = e.remote_addr /\ td[i].ping_timer = e.ping_timer - 1
          /\ td[i].alive <=> e.ping_timer - 1 # 0
      BY <2>1, <3>2 DEF PunchData
    <3>5. td[i].ping_timer \in 0 .. FULL_PING_TIMER /\ (td[i].alive <=> td[i].ping_timer > 0)
      <4>1. e.ping_timer - 1 \in 0 .. FULL_PING_TIMER /\ (e.ping_timer - 1 # 0 <=> e.ping_timer - 1 > 0)
        BY <2>1, <3>1
      <4>2. QED
        BY <3>4, <4>1
    <3>6. td[i].ping_timer = IF e.ping_timer = 0 THEN 0 ELSE e.ping_timer - 1
      BY <3>1, <3>4
    <3>7. QED
      BY <2>3, <3>3, <3>4, <3>5, <3>6
  <2>4. CASE ~e.alive
    BY <2>1, <2>2, <2>4 DEF TickEntry
  <2>5. QED
    BY <2>3, <2>4
<1>4. EntriesOK(td)
  <2>1. td \in Seq(PunchData)
    BY <1>1, <1>2, <1>3 DEF Tick
  <2>2. \A i \in DOMAIN td : td[i].ping_timer <= FULL_PING_TIMER /\ (td[i].alive <=> td[i].ping_timer > 0)
    BY <1>2, <1>3
  <2>3. QED
    BY <2>1, <2>2 DEF EntriesOK
<1>5. ASSUME NEW a \in Addr
      PROVE  Left(td, a) = IF Left(pd, a) = 0 THEN 0 ELSE Left(pd, a) - 1
  <2> DEFINE t == IF Left(pd, a) = 0 THEN 0 ELSE Left(pd, a) - 1
  <2>1. \A i \in Matching(td, a) : i \in Matching(pd, a) /\ td[i].ping_timer = pd[i].ping_timer - 1
    BY <1>2, <1>3, EntryFacts DEF Matching
  <2>2. \A u \in Timers(td, a) : u <= t
    <3>1. \A i \in Matching(pd, a) : pd[i].ping_timer <= Left(pd, a) /\ pd[i].ping_timer \in Nat \ {0}
      BY LeftIs, EntryFacts DEF Timers, Matching
    <3>2. QED
      BY <2>1, <3>1, LeftIs DEF Timers
  <2>3. t \in Timers(td, a)
    <3>1. CASE t = 0
      BY <3>1 DEF Timers
    <3>2. CASE t # 0
      <4>1. PICK i \in Matching(pd, a) : pd[i].ping_timer = Left(pd, a)
        BY <3>2, LeftIs DEF Timers
      <4>2. i \in Matching(td, a) /\ td[i].ping_timer = t
        BY <1>1, <1>2, <1>3, <3>2, <4>1, LeftIs DEF Matching
      <4>3. QED
        BY <4>2 DEF Timers
    <3>3. QED
      BY <3>1, <3>2
  <2>4. QED
    BY <1>4, <2>2, <2>3, LeftUnique
<1>6. QED
  BY <1>4, <1>5

\* An entry of address a that was inserted or refreshed just now.
Fresh(x, a) ==
  /\ x \in PunchData
  /\ x.alive /\ x.remote_addr = a /\ x.ping_timer = FULL_PING_TIMER

\* A new entry is one.
LEMMA NewEntryFresh ==
  ASSUME NEW a \in Addr
  PROVE  Fresh(NewEntry(a), a) /\ FULL_PING_TIMER > 0
<1>1. FULL_PING_TIMER \in 0 .. UINT16_MAX /\ FULL_PING_TIMER > 0
  BY TimerAssumption, TimerFacts
<1>2. QED
  BY <1>1 DEF NewEntry, PunchData, Fresh

\* A refreshed entry is one.
LEMMA RefreshedFresh ==
  ASSUME NEW a \in Addr, NEW e \in PunchData, e.alive, e.remote_addr = a
  PROVE  Fresh([e EXCEPT !.ping_timer = FULL_PING_TIMER], a)
<1>1. FULL_PING_TIMER \in 0 .. UINT16_MAX
  BY TimerAssumption
<1>2. QED
  BY <1>1 DEF PunchData, Fresh

\* Writing entry x at place k of the vector, or behind its last.
Put(pd, k, x) == IF k = Len(pd) + 1 THEN Append(pd, x) ELSE [pd EXCEPT ![k] = x]

\* qd is pd but for entry k, which is x.
Written(qd, pd, k, x) ==
  /\ EntriesOK(qd)
  /\ DOMAIN qd = DOMAIN pd \union {k}
  /\ \A i \in DOMAIN pd \ {k} : qd[i] = pd[i]
  /\ qd[k] = x

\* What that leaves, if the entry is fresh.
LEMMA WriteOK ==
  ASSUME NEW pd, EntriesOK(pd), NEW k \in 1 .. Len(pd) + 1, NEW a \in Addr,
         NEW x, Fresh(x, a)
  PROVE  Written(Put(pd, k, x), pd, k, x)
<1>0. PICK qd : qd = Put(pd, k, x)
  OBVIOUS
<1>1. pd \in Seq(PunchData) /\ Len(pd) \in Nat /\ DOMAIN pd = 1 .. Len(pd)
  BY EntryFacts DEF EntriesOK
<1>2. x \in PunchData
  BY DEF Fresh
<1>3. qd \in Seq(PunchData)
  BY <1>0, <1>1, <1>2 DEF Put
<1>4. /\ DOMAIN qd = DOMAIN pd \union {k}
      /\ \A i \in DOMAIN pd \ {k} : qd[i] = pd[i]
      /\ qd[k] = x
  <2>1. CASE k = Len(pd) + 1
    BY <1>0, <1>1, <1>2, <2>1 DEF Put
  <2>2. CASE k # Len(pd) + 1
    BY <1>0, <1>1, <1>2, <2>2 DEF Put
  <2>3. QED
    BY <2>1, <2>2
<1>5. \A i \in DOMAIN qd :
        /\ qd[i].ping_timer <= FULL_PING_TIMER
        /\ qd[i].alive <=> qd[i].ping_timer > 0
  <2> SUFFICES ASSUME NEW i \in DOMAIN qd
               PROVE  /\ qd[i].ping_timer <= FULL_PING_TIMER
                      /\ qd[i].alive <=> qd[i].ping_timer > 0
    OBVIOUS
  <2>1. CASE i = k
    BY <1>4, <2>1, NewEntryFresh, TimerAssumption DEF Fresh
  <2>2. CASE i # k
    BY <1>4, <2>2 DEF EntriesOK
  <2>3. QED
    BY <2>1, <2>2
<1>6. EntriesOK(qd)
  BY <1>3, <1>5 DEF EntriesOK
<1>7. QED
  BY <1>0, <1>4, <1>6 DEF Written

\* Where the entry that is written was dead or belonged to the same address,
\* that address has its full time, and nobody else notices.
LEMMA WriteLeft ==
  ASSUME NEW pd, EntriesOK(pd), NEW k \in 1 .. Len(pd) + 1, NEW a \in Addr,
         NEW x, Fresh(x, a),
         k \in DOMAIN pd => ~pd[k].alive \/ pd[k].remote_addr = a
  PROVE  /\ EntriesOK(Put(pd, k, x))
         /\ \A b \in Addr : Left(Put(pd, k, x), b) = IF b = a THEN FULL_PING_TIMER ELSE Left(pd, b)
<1>0. PICK qd : qd = Put(pd, k, x)
  OBVIOUS
<1>1. /\ EntriesOK(qd) /\ DOMAIN qd = DOMAIN pd \union {k} /\ qd[k] = x
      /\ \A i \in DOMAIN pd \ {k} : qd[i] = pd[i]
  <2>1. Written(Put(pd, k, x), pd, k, x)
    BY WriteOK
  <2>2. QED
    BY <1>0, <2>1 DEF Written
<1>2. k \in Matching(qd, a) /\ qd[k].ping_timer = FULL_PING_TIMER
  BY <1>1 DEF Matching, Fresh
<1>3. ASSUME NEW b \in Addr, b = a PROVE Left(qd, b) = FULL_PING_TIMER
  <2>1. FULL_PING_TIMER \in Timers(qd, a)
    BY <1>2 DEF Timers
  <2>2. \A u \in Timers(qd, a) : u <= FULL_PING_TIMER
    <3>1. \A i \in DOMAIN qd : qd[i].ping_timer <= FULL_PING_TIMER
      BY <1>1 DEF EntriesOK
    <3>2. QED
      BY <3>1, TimerAssumption DEF Timers, Matching
  <2>3. QED
    BY <1>1, <1>3, <2>1, <2>2, LeftUnique
<1>4. ASSUME NEW b \in Addr, b # a PROVE Left(qd, b) = Left(pd, b)
  <2>1. k \notin Matching(qd, b)
    BY <1>1, <1>4 DEF Matching, Fresh
  <2>2. k \notin Matching(pd, b)
    BY <1>4 DEF Matching
  <2>3. Matching(qd, b) = Matching(pd, b) /\ \A i \in Matching(pd, b) : qd[i] = pd[i]
    BY <1>1, <2>1, <2>2 DEF Matching
  <2>4. Timers(qd, b) = Timers(pd, b)
    BY <2>3 DEF Timers
  <2>5. QED
    BY <2>4 DEF Left
<1>5. QED
  BY <1>0, <1>1, <1>3, <1>4

\* A first-match loop finds an index of its set.
LEMMA FirstIs ==
  ASSUME NEW S, S \subseteq Nat, S # {}
  PROVE  First(S) \in S
  BY LeastExists DEF First

\* insert_punch_data gives its address the full time and leaves the others alone.
LEMMA InsertLeft ==
  ASSUME NEW pd, EntriesOK(pd), NEW a \in Addr
  PROVE  /\ EntriesOK(Insert(pd, a))
         /\ \A b \in Addr : Left(Insert(pd, a), b) = IF b = a THEN FULL_PING_TIMER ELSE Left(pd, b)
<1> DEFINE k == IF Dead(pd) = {} THEN Len(pd) + 1 ELSE First(Dead(pd))
           qd == Insert(pd, a)
<1>1. Len(pd) \in Nat /\ DOMAIN pd = 1 .. Len(pd)
  BY EntryFacts
<1>2. Dead(pd) \subseteq 1 .. Len(pd)
  BY <1>1 DEF Dead
<1>3. k \in 1 .. Len(pd) + 1 /\ (k = Len(pd) + 1 <=> Dead(pd) = {}) /\ (k \in DOMAIN pd => k \in Dead(pd))
  <2>1. CASE Dead(pd) = {}
    BY <1>1, <2>1
  <2>2. CASE Dead(pd) # {}
    <3>1. Dead(pd) \subseteq Nat
      BY <1>1, <1>2
    <3>2. First(Dead(pd)) \in Dead(pd)
      BY <2>2, <3>1, FirstIs
    <3>3. QED
      BY <1>1, <1>2, <2>2, <3>2
  <2>3. QED
    BY <2>1, <2>2
<1>4. qd = Put(pd, k, NewEntry(a))
  BY <1>3 DEF Insert, Put
<1>5. k \in DOMAIN pd => ~pd[k].alive
  BY <1>3 DEF Dead
<1>6. PICK j : j = k
  OBVIOUS
<1>7. j \in 1 .. Len(pd) + 1 /\ (j \in DOMAIN pd => ~pd[j].alive) /\ qd = Put(pd, j, NewEntry(a))
  BY <1>3, <1>4, <1>5, <1>6
<1>8. QED
  BY <1>7, NewEntryFresh, WriteLeft

\* reset_ping_timer does so for an address that is listed.
LEMMA RefreshLeft ==
  ASSUME NEW pd, EntriesOK(pd), NEW a \in Addr
  PROVE  /\ EntriesOK(Refresh(pd, a))
         /\ \A b \in Addr : Left(Refresh(pd, a), b) =
                               IF b = a /\ Left(pd, a) > 0 THEN FULL_PING_TIMER ELSE Left(pd, b)
<1> DEFINE k == First(Matching(pd, a))
           qd == Refresh(pd, a)
<1>1. Len(pd) \in Nat /\ DOMAIN pd = 1 .. Len(pd)
  BY EntryFacts
<1>2. CASE Matching(pd, a) = {}
  <2>1. Left(pd, a) \in Nat /\ ~(Left(pd, a) > 0)
    BY <1>2, ListedLeft, LeftIs, TimerAssumption
  <2>2. Refresh(pd, a) = pd
    BY <1>2 DEF Refresh
  <2>3. QED
    BY <2>1, <2>2
<1>3. CASE Matching(pd, a) # {}
  <2>1. Left(pd, a) > 0
    BY <1>3, ListedLeft
  <2>2. k \in Matching(pd, a)
    <3>1. Matching(pd, a) \subseteq Nat
      BY <1>1 DEF Matching
    <3>2. QED
      BY <1>3, <3>1, FirstIs
  <2>3. k \in DOMAIN pd /\ pd[k].alive /\ pd[k].remote_addr = a
    BY <2>2 DEF Matching
  <2>4. PICK x : x = [pd[k] EXCEPT !.ping_timer = FULL_PING_TIMER]
    OBVIOUS
  <2>5. Fresh(x, a)
    BY <2>3, <2>4, EntryFacts, RefreshedFresh
  <2>6. PICK j : j = k
    OBVIOUS
  <2>7. j \in 1 .. Len(pd) + 1 /\ pd[j].remote_addr = a /\ qd = Put(pd, j, x)
    <3>1. k \in 1 .. Len(pd) /\ k # Len(pd) + 1
      BY <1>1, <2>3
    <3>2. qd = [pd EXCEPT ![k] = x]
      BY <1>3, <2>3, <2>4 DEF Refresh
    <3>3. QED
      BY <1>1, <2>3, <2>6, <3>1, <3>2 DEF Put
  <2>8. EntriesOK(qd) /\ \A b \in Addr : Left(qd, b) = IF b = a THEN FULL_PING_TIMER ELSE Left(pd, b)
    BY <2>5, <2>7, WriteLeft
  <2>9. QED
    BY <2>1, <2>8
<1>4. QED
  BY <1>2, <1>3

-----------------------------------------------------------------------------
(* Types. *)

\* Whom a datagram renews, and what it leaves in the vector.
LEMMA HandleLeft ==
  ASSUME NEW pd, EntriesOK(pd), NEW p \in Datagram
  PROVE  /\ EntriesOK(Handle(pd, p)) /\ p.from \in Addr
         /\ \A b \in Addr : Left(Handle(pd, p), b) =
              IF b = p.from /\ (p.kind = "WAIT" \/ (p.kind = "PING" /\ Left(pd, b) > 0))
              THEN FULL_PING_TIMER ELSE Left(pd, b)
<1>1. p.from \in Addr
  BY DEF Datagram
<1>2. CASE p.kind = "WAIT"
  BY <1>1, <1>2, InsertLeft DEF Handle
<1>3. CASE p.kind = "PING"
  BY <1>1, <1>3, RefreshLeft DEF Handle
<1>4. CASE p.kind \notin {"WAIT", "PING"}
  BY <1>1, <1>4 DEF Handle
<1>5. QED
  BY <1>2, <1>3, <1>4

\* The pings of a turn can be counted.
LEMMA PingedFinite ==
  ASSUME NEW pd, EntriesOK(pd), NEW a
  PROVE  /\ IsFiniteSet(Pinged(pd, a)) /\ Cardinality(Pinged(pd, a)) \in Nat
         /\ Pinged(pd, a) # {} => Cardinality(Pinged(pd, a)) >= 1
<1>1. Len(pd) \in Nat /\ DOMAIN pd = 1 .. Len(pd)
  BY EntryFacts
<1>2. IsFiniteSet(1 .. Len(pd))
  BY <1>1, FS_Interval
<1>3. Pinged(pd, a) \subseteq 1 .. Len(pd)
  BY <1>1 DEF Pinged, Matching
<1>4. IsFiniteSet(Pinged(pd, a))
  BY <1>2, <1>3, FS_Subset
<1>5. QED
  BY <1>4, FS_CardinalityType, FS_EmptySet

\* A turn keeps the types.
LEMMA TurnTypes ==
  ASSUME TypeOK, NoneLate, NEW pd, EntriesOK(pd), NEW heard, Turn(pd, heard)
  PROVE  /\ EntriesOK(punch_data')
         /\ owed' \in [Faithful -> 0 .. MaxDelay + 1]
         /\ asked' \in [Addr -> 0 .. SEND_REPEATS]
<1> USE TimerAssumption, ClientAssumption
<1>1. EntriesOK(Tick(pd)) /\ punch_data' = Tick(pd)
  BY TickLeft DEF Turn
<1>2. \A a \in Faithful : (IF owed[a] > 0 THEN owed[a] + 1
                           ELSE IF Pinged(Tick(pd), a) # {} THEN 1 ELSE 0) \in 0 .. MaxDelay + 1
  BY DEF TypeOK, NoneLate
<1>3. \A a \in Addr : AtMost(SEND_REPEATS, (IF a \in heard THEN 0 ELSE asked[a])
                                          + Cardinality(Pinged(Tick(pd), a))) \in 0 .. SEND_REPEATS
  BY <1>1, PingedFinite DEF TypeOK, AtMost
<1>4. QED
  BY <1>1, <1>2, <1>3 DEF Turn

\* Every step keeps the types.
LEMMA TypeStep == TypeOK /\ [Next]_vars => TypeOK'
<1> SUFFICES ASSUME TypeOK, [Next]_vars PROVE TypeOK'
  OBVIOUS
<1>1. CASE Idle
  <2>1. Turn(punch_data, {}) /\ NoneLate /\ relayed' = {} /\ queue' = queue
    BY <1>1 DEF Idle
  <2>2. EntriesOK(punch_data)
    BY DEF TypeOK
  <2>3. /\ EntriesOK(punch_data)' /\ owed' \in [Faithful -> 0 .. MaxDelay + 1]
        /\ asked' \in [Addr -> 0 .. SEND_REPEATS]
    BY <2>1, <2>2, TurnTypes
  <2>4. QED
    BY <2>1, <2>3 DEF TypeOK
<1>2. CASE Receive
  <2> DEFINE p == Head(queue)
             heard == IF p.kind \in {"WAIT", "PING"} THEN {p.from} ELSE {}
  <2>1. p \in Datagram /\ queue' \in Seq(Datagram)
    BY <1>2 DEF Receive, TypeOK
  <2>2. EntriesOK(Handle(punch_data, p))
    BY <2>1, HandleLeft DEF TypeOK
  <2>3. Turn(Handle(punch_data, p), heard) /\ NoneLate
    BY <1>2 DEF Receive
  <2>4. /\ EntriesOK(punch_data)' /\ owed' \in [Faithful -> 0 .. MaxDelay + 1]
        /\ asked' \in [Addr -> 0 .. SEND_REPEATS]
    BY <2>2, <2>3, TurnTypes
  <2>5. relayed' \subseteq Addr \X Addr
    BY <1>2, <2>1 DEF Receive, RelayOf, Datagram
  <2>6. QED
    BY <2>1, <2>4, <2>5 DEF TypeOK
<1>3. ASSUME NEW p \in Datagram, Send(p) PROVE TypeOK'
  BY <1>3 DEF Send, TypeOK
<1>4. ASSUME NEW a \in Faithful, Answer(a) PROVE TypeOK'
  <2>1. [kind |-> "PING", from |-> a] \in Datagram
    BY ClientAssumption DEF Datagram
  <2>2. queue' \in Seq(Datagram)
    BY <1>4, <2>1 DEF Answer, TypeOK
  <2>3. owed' \in [Faithful -> 0 .. MaxDelay + 1]
    BY <1>4, ClientAssumption DEF Answer, TypeOK
  <2>4. QED
    BY <1>4, <2>2, <2>3 DEF Answer, TypeOK
<1>5. CASE UNCHANGED vars
  BY <1>5 DEF vars, clientVars, TypeOK
<1>6. QED
  BY <1>1, <1>2, <1>3, <1>4, <1>5 DEF Next, Iterate

\* The program starts well typed.
LEMMA TypeInit == Init => TypeOK
  BY TimerAssumption, ClientAssumption DEF Init, TypeOK, EntriesOK

\* The vector holds well-typed entries, alive exactly while their timers run.
THEOREM TimersAreRight == Spec => []TypeOK
  BY TypeInit, TypeStep, PTL DEF Spec

-----------------------------------------------------------------------------
(* The registry. *)

\* What a turn leaves of everybody's time, in terms of what it handled.
LEMMA TurnLeft ==
  ASSUME TypeOK, NEW pd, EntriesOK(pd), NEW heard, Turn(pd, heard)
  PROVE  \A a \in Addr : Left(punch_data', a) = IF Left(pd, a) = 0 THEN 0 ELSE Left(pd, a) - 1
  BY TickLeft DEF Turn

\* A turn of the loop is a round of the registry.
LEMMA IterateIsRound == TypeOK /\ Iterate => R!Round
<1> SUFFICES ASSUME TypeOK, Iterate PROVE R!Round
  OBVIOUS
<1> USE TimerAssumption
<1> DEFINE left == [a \in Addr |-> Left(punch_data, a)]
<1>0. EntriesOK(punch_data) /\ left' = [a \in Addr |-> Left(punch_data', a)]
  BY DEF TypeOK
<1>1. CASE Idle
  <2>1. Turn(punch_data, {}) /\ relayed' = {}
    BY <1>1 DEF Idle
  <2>2. \A a \in Addr : Left(punch_data', a) = IF left[a] = 0 THEN 0 ELSE left[a] - 1
    BY <1>0, <2>1, TurnLeft
  <2>3. R!Listen
    BY <1>0, <2>1, <2>2 DEF R!Listen, R!Pass
  <2>4. QED
    BY <2>3 DEF R!Round
<1>2. CASE Receive
  <2> DEFINE p == Head(queue)
             pd == Handle(punch_data, p)
             heard == IF p.kind \in {"WAIT", "PING"} THEN {p.from} ELSE {}
  <2>1. p \in Datagram
    BY <1>2 DEF Receive, TypeOK
  <2>2. /\ EntriesOK(pd) /\ p.from \in Addr
        /\ \A b \in Addr : Left(pd, b) =
             IF b = p.from /\ (p.kind = "WAIT" \/ (p.kind = "PING" /\ left[b] > 0))
             THEN FULL_PING_TIMER ELSE left[b]
    BY <1>0, <2>1, HandleLeft
  <2>3. Turn(pd, heard) /\ relayed' = RelayOf(punch_data, p)
    BY <1>2 DEF Receive
  <2>4. \A a \in Addr : Left(punch_data', a) = IF Left(pd, a) = 0 THEN 0 ELSE Left(pd, a) - 1
    BY <2>2, <2>3, TurnLeft
  <2>5. FULL_PING_TIMER > 0
    BY TimerFacts
  <2>6. PICK a \in Addr : a = p.from
    BY <2>2
  <2>7. CASE p.kind = "WAIT"
    <3>1. \A b \in Addr : Left(punch_data', b) =
            IF b \in {a} THEN FULL_PING_TIMER - 1 ELSE IF left[b] = 0 THEN 0 ELSE left[b] - 1
      BY <2>2, <2>4, <2>5, <2>6, <2>7
    <3>2. relayed' = {}
      BY <2>3, <2>7 DEF RelayOf
    <3>3. R!Register(a)
      BY <1>0, <3>1, <3>2 DEF R!Register, R!Pass
    <3>4. QED
      BY <3>3 DEF R!Round
  <2>8. CASE p.kind = "PING"
    <3>1. \A b \in Addr : Left(punch_data', b) =
            IF b \in {x \in {a} : left[x] > 0} THEN FULL_PING_TIMER - 1
            ELSE IF left[b] = 0 THEN 0 ELSE left[b] - 1
      BY <2>2, <2>4, <2>5, <2>6, <2>8
    <3>2. relayed' = {}
      BY <2>3, <2>8 DEF RelayOf
    <3>3. R!KeepAlive(a)
      BY <1>0, <3>1, <3>2 DEF R!KeepAlive, R!Pass
    <3>4. QED
      BY <3>3 DEF R!Round
  <2>9. CASE p.kind \notin {"WAIT", "PING"}
    <3>1. \A b \in Addr : Left(punch_data', b) = IF left[b] = 0 THEN 0 ELSE left[b] - 1
      BY <2>2, <2>4, <2>9
    <3>2. CASE p.kind = "CONNECT"
      <4>1. PICK b \in Addr : b = p.dest
        BY <2>1, <3>2 DEF Datagram
      <4>2. Matching(punch_data, b) # {} <=> left[b] > 0
        BY <1>0, ListedLeft
      <4>3. relayed' = {<<t, a>> : t \in {x \in {b} : left[x] > 0}}
        BY <2>3, <2>6, <3>2, <4>1, <4>2 DEF RelayOf
      <4>4. R!Introduce(a, b)
        BY <1>0, <3>1, <4>3 DEF R!Introduce, R!Pass
      <4>5. QED
        BY <4>4 DEF R!Round
    <3>3. CASE p.kind # "CONNECT"
      <4>1. relayed' = {}
        BY <2>3, <3>3 DEF RelayOf
      <4>2. R!Listen
        BY <1>0, <3>1, <4>1 DEF R!Listen, R!Pass
      <4>3. QED
        BY <4>2 DEF R!Round
    <3>4. QED
      BY <3>2, <3>3
  <2>10. QED
    BY <2>7, <2>8, <2>9
<1>3. QED
  BY <1>1, <1>2 DEF Iterate

\* At first nobody is listed.
LEMMA InitIsEmpty == Init => R!RegistryInit
<1> SUFFICES ASSUME Init PROVE R!RegistryInit
  OBVIOUS
<1>1. EntriesOK(punch_data)
  BY TypeInit DEF TypeOK
<1>2. ASSUME NEW a \in Addr PROVE Left(punch_data, a) = 0
  <2>1. Matching(punch_data, a) = {}
    BY DEF Init, Matching
  <2>2. QED
    BY <1>1, <2>1, ListedLeft, LeftIs, TimerAssumption
<1>3. QED
  BY <1>2 DEF R!RegistryInit, Init

\* The loop over the vector keeps the promise of the registry.
THEOREM LoopKeepsRegistry == Spec => RegistryPromise
<1>1. TypeOK /\ [Next]_vars => [R!Round]_R!registryVars
  <2>1. TypeOK /\ Iterate => R!Round
    BY IterateIsRound
  <2>2. ASSUME NEW p \in Datagram, Send(p) PROVE UNCHANGED <<punch_data, relayed>>
    BY <2>2 DEF Send
  <2>3. ASSUME NEW a \in Faithful, Answer(a) PROVE UNCHANGED <<punch_data, relayed>>
    BY <2>3 DEF Answer
  <2>4. UNCHANGED vars => UNCHANGED <<punch_data, relayed>>
    BY DEF vars
  <2>5. UNCHANGED <<punch_data, relayed>> => UNCHANGED R!registryVars
    BY DEF R!registryVars
  <2>6. QED
    BY <2>1, <2>2, <2>3, <2>4, <2>5 DEF Next
<1>2. QED
  BY <1>1, InitIsEmpty, TimersAreRight, PTL DEF Spec, RegistryPromise, R!RegistrySpec

-----------------------------------------------------------------------------
(* Nobody is dropped without its pings. *)

\* A listed address that was asked fewer than SEND_REPEATS times still has the
\* turns that the remaining pings need.  With it the action property is a
\* matter of one step; without it nothing relates the timer to the pings sent.
Slack(t, n) == n = SEND_REPEATS \/ t > (SEND_REPEATS - n) * SEND_INTERVAL
SlackInv == \A a \in Addr : Listed(a) => Slack(Left(punch_data, a), asked[a])

\* Products grow with their factors.
LEMMA Products ==
  ASSUME NEW i \in Nat, NEW x \in Nat, NEW y \in Nat, x <= y
  PROVE  /\ x * i \in Nat /\ y * i \in Nat /\ x * i <= y * i
         /\ x < y => x * i + i <= y * i
<1>1. x * i \in Nat /\ y * i \in Nat
  BY SMTT(30)
<1>2. x * i <= y * i
  BY SMTT(30)
<1>3. ASSUME x < y PROVE x * i + i <= y * i
  <2>1. (x + 1) * i = x * i + i
    BY SMTT(30)
  <2>2. (x + 1) * i <= y * i
    BY <1>3, SMTT(30)
  <2>3. QED
    BY <2>1, <2>2
<1>4. QED
  BY <1>1, <1>2, <1>3

\* One turn of a timer: it stays ahead, or it is at a multiple of the interval,
\* and there a ping is sent.
LEMMA SlackTick ==
  ASSUME NEW t \in Nat, NEW n \in 0 .. SEND_REPEATS, NEW c \in Nat,
         Slack(t + 1, n),
         t <= PING_THRESHOLD /\ t % SEND_INTERVAL = 0 => c >= 1
  PROVE  Slack(t, AtMost(SEND_REPEATS, n + c))
<1> DEFINE m == AtMost(SEND_REPEATS, n + c)
           x == SEND_REPEATS - m
           y == SEND_REPEATS - n
<1> USE TimerAssumption, TimerFacts
<1>1. m \in 0 .. SEND_REPEATS /\ m >= n /\ (c >= 1 => m = SEND_REPEATS \/ m > n)
  BY DEF AtMost
<1>2. x \in Nat /\ y \in Nat /\ x <= y /\ y <= SEND_REPEATS /\ (m > n => x < y)
  BY <1>1
<1>3. x * SEND_INTERVAL \in Nat /\ y * SEND_INTERVAL \in Nat
      /\ x * SEND_INTERVAL <= y * SEND_INTERVAL
      /\ (x < y => x * SEND_INTERVAL + SEND_INTERVAL <= y * SEND_INTERVAL)
  BY <1>2, Products
<1>4. y * SEND_INTERVAL <= SEND_REPEATS * SEND_INTERVAL
  BY <1>2, Products
<1>5. (y * SEND_INTERVAL) % SEND_INTERVAL = 0
  BY <1>2, MultipleMod
<1> HIDE DEF m, x, y
<1>6. CASE m = SEND_REPEATS
  BY <1>6 DEF Slack, m
<1>7. CASE n = SEND_REPEATS
  BY <1>1, <1>7 DEF Slack, m
<1>8. CASE m # SEND_REPEATS /\ n # SEND_REPEATS
  <2>1. t + 1 > y * SEND_INTERVAL
    BY <1>8 DEF Slack, y
  <2>2. CASE t = y * SEND_INTERVAL
    <3>1. t <= PING_THRESHOLD /\ t % SEND_INTERVAL = 0
      <4>1. SEND_REPEATS * SEND_INTERVAL <= PING_THRESHOLD
        OBVIOUS
      <4>2. SEND_REPEATS * SEND_INTERVAL \in Nat
        BY <1>2, Products
      <4>3. QED
        BY <1>3, <1>4, <1>5, <2>2, <4>1, <4>2
    <3>2. x < y
      BY <1>1, <1>2, <1>8, <3>1
    <3>3. t > x * SEND_INTERVAL
      BY <1>3, <2>2, <3>2
    <3>4. QED
      BY <3>3 DEF Slack, x, m
  <2>3. CASE t # y * SEND_INTERVAL
    <3>1. t > x * SEND_INTERVAL
      BY <1>3, <2>1, <2>3
    <3>2. QED
      BY <3>1 DEF Slack, x, m
  <2>4. QED
    BY <2>2, <2>3
<1>9. QED
  BY <1>6, <1>7, <1>8

\* A full timer has all the turns its pings need.
LEMMA SlackFull == Slack(FULL_PING_TIMER, 0)
<1>1. SEND_REPEATS * SEND_INTERVAL <= PING_THRESHOLD /\ FULL_PING_TIMER > PING_THRESHOLD
  BY TimerFacts
<1>2. SEND_REPEATS * SEND_INTERVAL \in Nat
  BY TimerFacts, TimerAssumption, Products
<1>3. SEND_REPEATS - 0 = SEND_REPEATS
  BY TimerAssumption
<1>4. QED
  BY <1>1, <1>2, <1>3, TimerFacts, TimerAssumption DEF Slack

\* A turn keeps the slack of what it handled, and whom it drops was asked.
LEMMA TurnSlack ==
  ASSUME TypeOK, NEW pd, EntriesOK(pd), NEW heard, Turn(pd, heard), NEW a \in Addr,
         NEW n \in 0 .. SEND_REPEATS, n = (IF a \in heard THEN 0 ELSE asked[a]),
         Left(pd, a) > 0, Slack(Left(pd, a), n)
  PROVE  /\ Slack(Left(punch_data', a), asked'[a])
         /\ Left(punch_data', a) = 0 => n = SEND_REPEATS
<1> USE TimerAssumption, TimerFacts
<1> DEFINE t == Left(pd, a) - 1
           td == Tick(pd)
           c == Cardinality(Pinged(td, a))
<1>1. t \in Nat /\ Left(pd, a) = t + 1
  BY LeftIs
<1>2. EntriesOK(td) /\ Left(td, a) = t /\ punch_data' = td
  BY <1>1, TickLeft DEF Turn
<1>3. c \in Nat /\ (Pinged(td, a) # {} => c >= 1)
  BY <1>2, PingedFinite
<1>4. asked'[a] = AtMost(SEND_REPEATS, n + c)
  BY DEF Turn
<1>5. CASE t > 0
  <2>1. PICK i \in Matching(td, a) : td[i].ping_timer = t
    BY <1>2, <1>5, LeftIs DEF Timers
  <2>2. t <= PING_THRESHOLD /\ t % SEND_INTERVAL = 0 => i \in Pinged(td, a)
    BY <2>1 DEF Pinged, PingTimerSend
  <2>3. t <= PING_THRESHOLD /\ t % SEND_INTERVAL = 0 => c >= 1
    BY <1>3, <2>2
  <2> HIDE DEF t, c, td
  <2>4. Slack(t, AtMost(SEND_REPEATS, n + c))
    BY <1>1, <1>3, <2>3, SlackTick
  <2>5. QED
    BY <1>1, <1>2, <1>4, <1>5, <2>4
<1>6. CASE t = 0
  <2>1. n = SEND_REPEATS
    <3>1. ASSUME n # SEND_REPEATS PROVE FALSE
      <4>1. SEND_REPEATS - n \in Nat /\ 1 <= SEND_REPEATS - n
        BY <3>1
      <4>2. 1 * SEND_INTERVAL <= (SEND_REPEATS - n) * SEND_INTERVAL
            /\ (SEND_REPEATS - n) * SEND_INTERVAL \in Nat
        BY <4>1, Products
      <4>3. 1 > (SEND_REPEATS - n) * SEND_INTERVAL
        BY <1>1, <1>6, <3>1 DEF Slack
      <4>4. 1 * SEND_INTERVAL >= 1
        OBVIOUS
      <4>5. QED
        BY <4>2, <4>3, <4>4
    <3>2. QED
      BY <3>1
  <2>2. AtMost(SEND_REPEATS, n + c) = SEND_REPEATS
    BY <1>3, <2>1 DEF AtMost
  <2>3. QED
    BY <1>4, <2>1, <2>2 DEF Slack
<1>7. QED
  BY <1>1, <1>5, <1>6

\* Every turn keeps the invariant, and drops only who was asked.
LEMMA SlackStep ==
  ASSUME TypeOK, SlackInv, Iterate
  PROVE  /\ SlackInv'
         /\ \A a \in Addr : Listed(a) /\ ~Listed(a)' => asked[a] = SEND_REPEATS
<1> USE TimerAssumption
<1>1. PICK pd, heard :
        /\ EntriesOK(pd) /\ Turn(pd, heard)
        /\ \A a \in Addr : Left(pd, a) = IF a \in heard /\ Left(pd, a) > 0 THEN FULL_PING_TIMER
                                          ELSE Left(punch_data, a)
        /\ \A a \in Addr : Left(punch_data, a) > 0 => Left(pd, a) > 0
  <2>1. CASE Idle
    BY <2>1 DEF Idle, TypeOK
  <2>2. CASE Receive
    <3> DEFINE p == Head(queue)
               qd == Handle(punch_data, p)
               hs == IF p.kind \in {"WAIT", "PING"} THEN {p.from} ELSE {}
    <3>1. p \in Datagram /\ Turn(qd, hs)
      BY <2>2 DEF Receive, TypeOK
    <3>2. /\ EntriesOK(qd)
          /\ \A b \in Addr : Left(qd, b) =
               IF b = p.from /\ (p.kind = "WAIT" \/ (p.kind = "PING" /\ Left(punch_data, b) > 0))
               THEN FULL_PING_TIMER ELSE Left(punch_data, b)
      BY <3>1, HandleLeft DEF TypeOK
    <3>3. \A b \in Addr : Left(punch_data, b) \in Nat
      BY LeftIs DEF TypeOK
    <3>4. FULL_PING_TIMER > 0
      BY TimerFacts
    <3>5. \A b \in Addr :
            /\ Left(qd, b) = IF b \in hs /\ Left(qd, b) > 0 THEN FULL_PING_TIMER
                             ELSE Left(punch_data, b)
            /\ Left(punch_data, b) > 0 => Left(qd, b) > 0
      BY <3>2, <3>3, <3>4
    <3>6. QED
      BY <3>1, <3>2, <3>5
  <2>3. QED
    BY <2>1, <2>2 DEF Iterate
<1>2. EntriesOK(punch_data) /\ EntriesOK(punch_data')
  BY <1>1, TickLeft DEF TypeOK, Turn
<1>3. \A a \in Addr :
        /\ Listed(a) <=> Left(punch_data, a) > 0
        /\ Listed(a)' <=> Left(punch_data', a) > 0
        /\ Left(pd, a) \in Nat /\ Left(punch_data, a) \in Nat /\ Left(punch_data', a) \in Nat
  BY <1>1, <1>2, ListedLeft, LeftIs DEF Listed
<1>4. \A a \in Addr : Left(punch_data', a) > 0 => Left(pd, a) > 0
  BY <1>1, <1>3, TurnLeft
<1>5. ASSUME NEW a \in Addr, Left(pd, a) > 0
      PROVE  /\ Slack(Left(punch_data', a), asked'[a])
             /\ Left(punch_data', a) = 0 => a \notin heard /\ asked[a] = SEND_REPEATS
  <2> DEFINE n == IF a \in heard THEN 0 ELSE asked[a]
  <2>1. n \in 0 .. SEND_REPEATS
    BY DEF TypeOK
  <2>2. Slack(Left(pd, a), n)
    <3>1. CASE a \in heard
      BY <1>1, <1>5, <3>1, SlackFull
    <3>2. CASE a \notin heard
      <4>1. Left(pd, a) = Left(punch_data, a) /\ Listed(a)
        BY <1>1, <1>3, <1>5, <3>2
      <4>2. QED
        BY <3>2, <4>1 DEF SlackInv
    <3>3. QED
      BY <3>1, <3>2
  <2>3. /\ Slack(Left(punch_data', a), asked'[a])
        /\ Left(punch_data', a) = 0 => n = SEND_REPEATS
    <3> HIDE DEF n
    <3>1. n = IF a \in heard THEN 0 ELSE asked[a]
      BY DEF n
    <3>2. QED
      BY <1>1, <1>5, <2>1, <2>2, <3>1, TurnSlack
  <2>4. QED
    BY <2>3
<1>6. SlackInv'
  BY <1>3, <1>4, <1>5 DEF SlackInv
<1>7. ASSUME NEW a \in Addr, Listed(a), ~Listed(a)' PROVE asked[a] = SEND_REPEATS
  <2>1. Left(pd, a) > 0 /\ Left(punch_data', a) = 0
    BY <1>1, <1>3, <1>7
  <2>2. QED
    BY <1>5, <2>1
<1>8. QED
  BY <1>6, <1>7

\* A client is dropped only after SEND_REPEATS pings went to it with nothing
\* heard from it since, whatever the timer's constants and whoever else is there.
THEOREM NobodyDroppedUnasked == Spec => DroppedOnlyUnanswered
<1> DEFINE Drop == \A a \in Addr : Listed(a) /\ ~Listed(a)' => asked[a] = SEND_REPEATS
<1>1. Init => SlackInv
  BY DEF Init, SlackInv, Listed, Matching
<1>2. TypeOK /\ SlackInv /\ [Next]_vars => SlackInv' /\ Drop
  <2> SUFFICES ASSUME TypeOK, SlackInv, [Next]_vars PROVE SlackInv' /\ Drop
    OBVIOUS
  <2>1. CASE Iterate
    BY <2>1, SlackStep
  <2>2. CASE UNCHANGED <<punch_data, asked>>
    BY <2>2 DEF SlackInv, Listed
  <2>3. QED
    BY <2>1, <2>2 DEF Next, Send, Answer, vars
<1>3. TypeOK /\ SlackInv /\ [Next]_vars => [Drop]_vars
  BY <1>2
<1>4. QED
  BY <1>1, <1>2, <1>3, TimersAreRight, PTL DEF Spec, DroppedOnlyUnanswered

-----------------------------------------------------------------------------
(* Who answers its pings is never dropped. *)

\* The pings of a dying timer cover the longest an answer takes: MaxDelay turns
\* until it is sent, QueueCap datagrams before it in the buffer, and its own.
Prompt == QueueCap + MaxDelay + 1 <= SEND_REPEATS * SEND_INTERVAL

\* An answer of a's is in the buffer, near enough to its head.
ToCome(a) ==
  \E k \in DOMAIN queue :
    queue[k].kind = "PING" /\ queue[k].from = a /\ k <= Left(punch_data, a)

\* a owes an answer, which will wait for at most QueueCap datagrams.
Due(a) == owed[a] > 0 /\ Left(punch_data, a) + owed[a] >= QueueCap + MaxDelay + 2

\* a will be asked yet.
Early(a) == Left(punch_data, a) > SEND_REPEATS * SEND_INTERVAL

\* The action property alone says nothing of the way a ping, its answer and the
\* buffer hand over to each other before the timer ends.
AliveInv == \A a \in Faithful : Listed(a) => ToCome(a) \/ Due(a) \/ Early(a)

\* Only answers of faithful clients lie behind the first QueueCap datagrams.
AnswersBehind ==
  \A k \in DOMAIN queue : k > QueueCap => queue[k].kind = "PING" /\ queue[k].from \in Faithful

\* What a turn does to the buffer, to the timers and to the answers owed.
LEMMA TurnIs ==
  ASSUME TypeOK, Iterate
  PROVE  /\ NoneLate
         /\ queue' = IF queue = <<>> THEN queue ELSE Tail(queue)
         /\ \E pd :
              /\ EntriesOK(pd) /\ punch_data' = Tick(pd)
              /\ owed' = [a \in Faithful |->
                            IF owed[a] > 0 THEN owed[a] + 1
                            ELSE IF Pinged(Tick(pd), a) # {} THEN 1 ELSE 0]
              /\ \A a \in Addr :
                   /\ Left(pd, a) = FULL_PING_TIMER \/ Left(pd, a) = Left(punch_data, a)
                   /\ queue # <<>> /\ Head(queue).kind = "PING" /\ Head(queue).from = a
                      /\ Left(punch_data, a) > 0 => Left(pd, a) = FULL_PING_TIMER
<1>1. CASE Idle
  <2>1. EntriesOK(punch_data)
    BY DEF TypeOK
  <2>2. queue = <<>> /\ queue' = queue /\ NoneLate /\ Turn(punch_data, {})
    BY <1>1 DEF Idle
  <2>3. QED
    BY <2>1, <2>2 DEF Turn
<1>2. CASE Receive
  <2> DEFINE p == Head(queue)
             pd == Handle(punch_data, p)
             heard == IF p.kind \in {"WAIT", "PING"} THEN {p.from} ELSE {}
  <2>1. p \in Datagram
    BY <1>2 DEF Receive, TypeOK
  <2>2. /\ EntriesOK(pd)
        /\ \A b \in Addr : Left(pd, b) =
             IF b = p.from /\ (p.kind = "WAIT" \/ (p.kind = "PING" /\ Left(punch_data, b) > 0))
             THEN FULL_PING_TIMER ELSE Left(punch_data, b)
    BY <2>1, HandleLeft DEF TypeOK
  <2>3. Turn(pd, heard) /\ queue # <<>> /\ queue' = Tail(queue) /\ NoneLate
    BY <1>2 DEF Receive
  <2> HIDE DEF pd, heard
  <2>4. QED
    BY <2>2, <2>3 DEF Turn
<1>3. QED
  BY <1>1, <1>2 DEF Iterate

\* The head of the buffer leaves it, all others move up.
LEMMA TailIs ==
  ASSUME NEW q, q \in Seq(Datagram), q # <<>>
  PROVE  /\ Head(q) = q[1] /\ DOMAIN q = 1 .. Len(q) /\ Len(q) \in Nat
         /\ DOMAIN Tail(q) = 1 .. Len(q) - 1
         /\ \A k \in DOMAIN Tail(q) : Tail(q)[k] = q[k + 1] /\ k + 1 \in DOMAIN q
  OBVIOUS

\* The last datagram comes behind all others.
LEMMA AppendIs ==
  ASSUME NEW q, q \in Seq(Datagram), NEW p \in Datagram
  PROVE  /\ Len(q) \in Nat /\ DOMAIN q = 1 .. Len(q)
         /\ DOMAIN Append(q, p) = 1 .. Len(q) + 1
         /\ \A k \in DOMAIN q : Append(q, p)[k] = q[k] /\ k \in DOMAIN Append(q, p)
         /\ Append(q, p)[Len(q) + 1] = p
  OBVIOUS

\* R * SI, the turns from the first ping of a timer to its end.
LEMMA PingTime ==
  /\ SEND_REPEATS * SEND_INTERVAL \in Nat \ {0}
  /\ (SEND_REPEATS * SEND_INTERVAL) % SEND_INTERVAL = 0
  /\ SEND_REPEATS * SEND_INTERVAL <= PING_THRESHOLD
<1>1. SEND_REPEATS \in Nat /\ 1 <= SEND_REPEATS /\ SEND_INTERVAL \in Nat \ {0}
  BY TimerAssumption, TimerFacts
<1>2. /\ 1 * SEND_INTERVAL <= SEND_REPEATS * SEND_INTERVAL
      /\ SEND_REPEATS * SEND_INTERVAL \in Nat /\ 1 * SEND_INTERVAL \in Nat
  BY <1>1, Products
<1>3. 1 * SEND_INTERVAL = SEND_INTERVAL
  BY <1>1
<1>4. (SEND_REPEATS * SEND_INTERVAL) % SEND_INTERVAL = 0
  BY <1>1, MultipleMod
<1>5. QED
  BY <1>1, <1>2, <1>3, <1>4, TimerFacts

\* Whoever has more time than that is asked in this turn or still has more.
LEMMA AskedInTime ==
  ASSUME Prompt, TypeOK, NEW pd, EntriesOK(pd), punch_data' = Tick(pd), NEW a \in Faithful,
         owed' = [b \in Faithful |->
                    IF owed[b] > 0 THEN owed[b] + 1
                    ELSE IF Pinged(Tick(pd), b) # {} THEN 1 ELSE 0],
         Left(pd, a) > SEND_REPEATS * SEND_INTERVAL
  PROVE  Due(a)' \/ Early(a)'
<1> USE ClientAssumption, PingTime
<1> DEFINE m == SEND_REPEATS * SEND_INTERVAL
           td == Tick(pd)
<1>1. Left(pd, a) \in Nat /\ a \in Addr
  BY LeftIs, TimerAssumption
<1>2. EntriesOK(td) /\ Left(td, a) = Left(pd, a) - 1
  BY <1>1, TickLeft
<1>3. CASE Left(td, a) > m
  BY <1>3 DEF Early
<1>4. CASE Left(td, a) = m
  <2>1. PICK i \in Matching(td, a) : td[i].ping_timer = m
    BY <1>2, <1>4, LeftIs DEF Timers
  <2>2. i \in Pinged(td, a)
    BY <2>1 DEF Pinged, PingTimerSend
  <2>3. owed[a] \in Nat
    BY DEF TypeOK
  <2>4. owed'[a] \in Nat /\ owed'[a] >= 1
    BY <2>2, <2>3
  <2>5. m + owed'[a] >= QueueCap + MaxDelay + 2
    BY <2>4 DEF Prompt
  <2>6. QED
    BY <1>4, <2>4, <2>5 DEF Due
<1>5. QED
  BY <1>1, <1>2, <1>3, <1>4

\* A turn hands over from one to the next, and drops no faithful client.
LEMMA AliveTurn ==
  ASSUME Prompt, TypeOK, AliveInv, Iterate
  PROVE  /\ AliveInv'
         /\ \A a \in Faithful : Listed(a) => Listed(a)'
<1> USE ClientAssumption, TimerAssumption
<1> DEFINE m == SEND_REPEATS * SEND_INTERVAL
<1>1. NoneLate /\ queue' = (IF queue = <<>> THEN queue ELSE Tail(queue))
  BY TurnIs
<1>2. PICK pd :
        /\ EntriesOK(pd) /\ punch_data' = Tick(pd)
        /\ owed' = [a \in Faithful |->
                      IF owed[a] > 0 THEN owed[a] + 1
                      ELSE IF Pinged(Tick(pd), a) # {} THEN 1 ELSE 0]
        /\ \A a \in Addr :
             /\ Left(pd, a) = FULL_PING_TIMER \/ Left(pd, a) = Left(punch_data, a)
             /\ queue # <<>> /\ Head(queue).kind = "PING" /\ Head(queue).from = a
                /\ Left(punch_data, a) > 0 => Left(pd, a) = FULL_PING_TIMER
  BY TurnIs
<1>3. EntriesOK(punch_data) /\ EntriesOK(punch_data')
  BY <1>2, TickLeft DEF TypeOK
<1>4. ASSUME NEW a \in Faithful
      PROVE  /\ a \in Addr /\ owed[a] \in 0 .. MaxDelay
             /\ Left(punch_data, a) \in Nat /\ Left(pd, a) \in Nat /\ Left(punch_data', a) \in Nat
             /\ Listed(a) <=> Left(punch_data, a) > 0
             /\ Listed(a)' <=> Left(punch_data', a) > 0
             /\ Left(punch_data', a) = IF Left(pd, a) = 0 THEN 0 ELSE Left(pd, a) - 1
  <2>1. a \in Addr
    OBVIOUS
  <2>2. owed[a] \in 0 .. MaxDelay
    BY <1>1 DEF NoneLate, TypeOK
  <2>3. QED
    BY <1>2, <1>3, <2>1, <2>2, LeftIs, ListedLeft, TickLeft DEF Listed
<1>5. m \in Nat \ {0} /\ FULL_PING_TIMER > m
  BY PingTime, TimerFacts
<1>6. ASSUME NEW a \in Faithful, Left(pd, a) > m
      PROVE  Listed(a)' /\ (Due(a)' \/ Early(a)')
  <2>1. Listed(a)'
    BY <1>4, <1>5, <1>6
  <2>2. QED
    BY <1>2, <1>6, <2>1, AskedInTime
<1>7. ASSUME NEW a \in Faithful, Left(pd, a) <= m, Listed(a)
      PROVE  Listed(a)' /\ (ToCome(a)' \/ Due(a)')
  <2>1. Left(pd, a) = Left(punch_data, a) /\ Left(punch_data, a) > 0
        /\ Left(punch_data', a) = Left(punch_data, a) - 1
    BY <1>2, <1>4, <1>5, <1>7
  <2>2. CASE ToCome(a)
    <3>1. PICK k \in DOMAIN queue :
            queue[k].kind = "PING" /\ queue[k].from = a /\ k <= Left(punch_data, a)
      BY <2>2 DEF ToCome
    <3>2. queue \in Seq(Datagram) /\ queue # <<>>
      BY <3>1 DEF TypeOK
    <3>3. /\ Head(queue) = queue[1] /\ DOMAIN queue = 1 .. Len(queue) /\ Len(queue) \in Nat
          /\ DOMAIN Tail(queue) = 1 .. Len(queue) - 1
          /\ \A j \in DOMAIN Tail(queue) : Tail(queue)[j] = queue[j + 1]
      BY <3>2, TailIs
    <3>4. k # 1
      <4>1. ASSUME k = 1 PROVE FALSE
        <5>1. Left(pd, a) = FULL_PING_TIMER
          BY <1>2, <1>4, <2>1, <3>1, <3>2, <3>3, <4>1
        <5>2. QED
          BY <1>4, <1>5, <1>7, <5>1
      <4>2. QED
        BY <4>1
    <3>5. k - 1 \in DOMAIN Tail(queue) /\ Tail(queue)[k - 1] = queue[k]
      BY <3>1, <3>3, <3>4
    <3>6. k - 1 <= Left(punch_data', a) /\ k - 1 >= 1
      BY <1>4, <2>1, <3>1, <3>3, <3>4
    <3>7. queue' = Tail(queue)
      BY <1>1, <3>2
    <3>8. ToCome(a)'
      BY <3>1, <3>5, <3>6, <3>7 DEF ToCome
    <3>9. Listed(a)'
      BY <1>4, <3>3, <3>6
    <3>10. QED
      BY <3>8, <3>9
  <2>3. CASE Due(a)
    <3>1. owed'[a] = owed[a] + 1
      BY <1>2, <2>3 DEF Due
    <3>2. Left(punch_data', a) + owed'[a] >= QueueCap + MaxDelay + 2
      BY <1>4, <2>1, <2>3, <3>1 DEF Due
    <3>3. Due(a)'
      BY <1>4, <3>1, <3>2 DEF Due
    <3>4. Left(punch_data, a) >= 2
      BY <1>4, <2>3 DEF Due
    <3>5. QED
      BY <1>4, <2>1, <3>3, <3>4
  <2>4. ~Early(a)
    BY <1>4, <1>5, <1>7, <2>1 DEF Early
  <2>5. QED
    BY <1>7, <2>2, <2>3, <2>4 DEF AliveInv
<1>8. ASSUME NEW a \in Faithful, Listed(a)'
      PROVE  Left(pd, a) > m \/ Listed(a)
  BY <1>2, <1>4, <1>5, <1>8
<1>9. AliveInv'
  <2> SUFFICES ASSUME NEW a \in Faithful, Listed(a)'
               PROVE  ToCome(a)' \/ Due(a)' \/ Early(a)'
    BY DEF AliveInv
  <2>1. CASE Left(pd, a) > m
    BY <1>6, <2>1
  <2>2. CASE ~(Left(pd, a) > m)
    BY <1>4, <1>5, <1>7, <1>8, <2>2
  <2>3. QED
    BY <2>1, <2>2
<1>10. ASSUME NEW a \in Faithful, Listed(a) PROVE Listed(a)'
  <2>1. CASE Left(pd, a) > m
    BY <1>6, <2>1
  <2>2. CASE ~(Left(pd, a) > m)
    BY <1>4, <1>5, <1>7, <1>10, <2>2
  <2>3. QED
    BY <2>1, <2>2
<1>11. QED
  BY <1>9, <1>10

\* A datagram that comes behind the others takes nothing away.
LEMMA AliveAppend ==
  ASSUME TypeOK, NEW p \in Datagram, queue' = Append(queue, p), punch_data' = punch_data,
         NEW a \in Faithful, ToCome(a)
  PROVE  ToCome(a)'
<1>1. PICK k \in DOMAIN queue :
        queue[k].kind = "PING" /\ queue[k].from = a /\ k <= Left(punch_data, a)
  BY DEF ToCome
<1>2. k \in DOMAIN queue' /\ queue'[k] = queue[k]
  BY AppendIs DEF TypeOK
<1>3. QED
  BY <1>1, <1>2 DEF ToCome

\* An answer comes soon enough, where its place is soon enough.
LEMMA AliveAnswer ==
  ASSUME TypeOK, AliveInv, NEW b \in Faithful, Answer(b),
         Len(queue') <= QueueCap + 1
           \/ \E k \in DOMAIN queue : k <= QueueCap + 1 /\ queue[k].kind = "PING" /\ queue[k].from = b
  PROVE  AliveInv'
<1> USE ClientAssumption
<1> DEFINE ping == [kind |-> "PING", from |-> b]
<1>1. ping \in Datagram /\ ping.kind = "PING" /\ ping.from = b
  BY DEF Datagram
<1>2. /\ queue' = Append(queue, ping) /\ punch_data' = punch_data
      /\ owed' = [owed EXCEPT ![b] = 0] /\ owed[b] > 0
  BY DEF Answer
<1> HIDE DEF ping
<1>3. /\ queue \in Seq(Datagram) /\ Len(queue) \in Nat /\ DOMAIN queue = 1 .. Len(queue)
      /\ DOMAIN queue' = 1 .. Len(queue) + 1 /\ queue'[Len(queue) + 1] = ping
      /\ \A k \in DOMAIN queue : queue'[k] = queue[k] /\ k \in DOMAIN queue'
  BY <1>1, <1>2, AppendIs DEF TypeOK
<1>4. Len(queue') = Len(queue) + 1
  BY <1>1, <1>2, <1>3
<1> SUFFICES ASSUME NEW a \in Faithful, Listed(a)'
             PROVE  ToCome(a)' \/ Due(a)' \/ Early(a)'
  BY DEF AliveInv
<1>5. Listed(a)
  BY <1>2 DEF Listed
<1>6. CASE ToCome(a)
  BY <1>1, <1>2, <1>6, AliveAppend
<1>7. CASE Early(a)
  BY <1>2, <1>7 DEF Early
<1>8. CASE Due(a) /\ a # b
  <2>1. owed'[a] = owed[a]
    BY <1>2, <1>8 DEF TypeOK
  <2>2. QED
    BY <1>2, <1>8, <2>1 DEF Due
<1>9. CASE Due(a) /\ a = b
  <2>1. owed[a] \in 0 .. MaxDelay + 1 /\ Left(punch_data, a) \in Nat
    BY LeftIs, TimerAssumption DEF TypeOK
  <2>2. Left(punch_data, a) >= QueueCap + 1
    BY <1>9, <2>1 DEF Due
  <2>3. CASE Len(queue') <= QueueCap + 1
    <3>1. Len(queue) + 1 \in DOMAIN queue' /\ Len(queue) + 1 <= Left(punch_data', a)
      BY <1>2, <1>3, <1>4, <2>1, <2>2, <2>3
    <3>2. QED
      BY <1>1, <1>3, <1>9, <3>1 DEF ToCome
  <2>4. CASE \E k \in DOMAIN queue : k <= QueueCap + 1 /\ queue[k].kind = "PING" /\ queue[k].from = b
    <3>1. PICK k \in DOMAIN queue : k <= QueueCap + 1 /\ queue[k].kind = "PING" /\ queue[k].from = b
      BY <2>4
    <3>2. k \in DOMAIN queue' /\ queue'[k] = queue[k] /\ k <= Left(punch_data', a)
      BY <1>2, <1>3, <2>1, <2>2, <3>1
    <3>3. QED
      BY <1>9, <3>1, <3>2 DEF ToCome
  <2>5. QED
    BY <2>3, <2>4
<1>10. QED
  BY <1>5, <1>6, <1>7, <1>8, <1>9 DEF AliveInv

\* What does not depend on where an answer lands.
LEMMA AliveOther ==
  ASSUME Prompt, TypeOK, AliveInv, [Next]_vars, \A b \in Faithful : ~Answer(b)
  PROVE  AliveInv' /\ \A a \in Faithful : Listed(a) => Listed(a)'
<1>1. CASE Iterate
  BY <1>1, AliveTurn
<1>2. ASSUME NEW p \in Datagram, Send(p)
      PROVE  AliveInv' /\ \A a \in Faithful : Listed(a) => Listed(a)'
  <2>1. queue' = Append(queue, p) /\ punch_data' = punch_data /\ owed' = owed
    BY <1>2 DEF Send
  <2>2. ASSUME NEW a \in Faithful
        PROVE  /\ Listed(a)' <=> Listed(a)
               /\ Due(a) => Due(a)'
               /\ Early(a) => Early(a)'
               /\ ToCome(a) => ToCome(a)'
    BY <2>1, AliveAppend DEF Listed, Due, Early
  <2>3. QED
    BY <2>2 DEF AliveInv
<1>3. CASE UNCHANGED vars
  BY <1>3 DEF vars, clientVars, AliveInv, Listed, ToCome, Due, Early
<1>4. QED
  BY <1>1, <1>2, <1>3 DEF Next

\* At first nobody is listed.
LEMMA AliveInit == Init => AliveInv
  BY DEF Init, AliveInv, Listed, Matching

\* As long as the socket's buffer holds no more than QueueCap datagrams and one
\* answer, no client that answers its pings is dropped, however many there are.
THEOREM ShortBufferKeepsFaithful ==
  ASSUME Prompt
  PROVE  Spec /\ [](Len(queue) <= QueueCap + 1) => FaithfulClientsStay
<1> DEFINE Short == Len(queue) <= QueueCap + 1
           Stay == \A a \in Faithful : Listed(a) => Listed(a)'
<1>1. TypeOK /\ AliveInv /\ Short' /\ [Next]_vars => AliveInv' /\ Stay
  <2> SUFFICES ASSUME TypeOK, AliveInv, Short', [Next]_vars PROVE AliveInv' /\ Stay
    OBVIOUS
  <2>1. ASSUME NEW b \in Faithful, Answer(b) PROVE AliveInv' /\ Stay
    <3>1. AliveInv'
      BY <2>1, AliveAnswer
    <3>2. Stay
      BY <2>1 DEF Answer, Listed
    <3>3. QED
      BY <3>1, <3>2
  <2>2. CASE \A b \in Faithful : ~Answer(b)
    BY <2>2, AliveOther
  <2>3. QED
    BY <2>1, <2>2
<1>2. TypeOK /\ AliveInv /\ Short' /\ [Next]_vars => [Stay]_vars
  BY <1>1
<1>3. QED
  BY <1>1, <1>2, AliveInit, TimersAreRight, PTL DEF Spec, FaithfulClientsStay

\* What lies behind the first QueueCap datagrams stays what it is.
LEMMA BehindStep == TypeOK /\ AnswersBehind /\ [Next]_vars => AnswersBehind'
<1> SUFFICES ASSUME TypeOK, AnswersBehind, [Next]_vars PROVE AnswersBehind'
  OBVIOUS
<1> USE ClientAssumption
<1>1. CASE Iterate
  <2>1. CASE queue = <<>>
    BY <1>1, <2>1, TurnIs DEF AnswersBehind
  <2>2. CASE queue # <<>>
    <3>1. queue' = Tail(queue)
      BY <1>1, <2>2, TurnIs
    <3>2. \A k \in DOMAIN Tail(queue) : Tail(queue)[k] = queue[k + 1] /\ k + 1 \in DOMAIN queue /\ k \in Nat
      BY <2>2, TailIs DEF TypeOK
    <3>3. QED
      BY <3>1, <3>2 DEF AnswersBehind
  <2>3. QED
    BY <2>1, <2>2
<1>2. ASSUME NEW p \in Datagram, Send(p) PROVE AnswersBehind'
  <2>1. queue' = Append(queue, p) /\ Len(queue) < QueueCap
    BY <1>2 DEF Send
  <2>2. DOMAIN queue' = 1 .. Len(queue) + 1 /\ Len(queue) \in Nat
    BY <2>1, AppendIs DEF TypeOK
  <2>3. QED
    BY <2>1, <2>2 DEF AnswersBehind
<1>3. ASSUME NEW b \in Faithful, Answer(b) PROVE AnswersBehind'
  <2> DEFINE ping == [kind |-> "PING", from |-> b]
  <2>1. ping \in Datagram /\ ping.kind = "PING" /\ ping.from = b
    BY DEF Datagram
  <2>2. queue' = Append(queue, ping)
    BY <1>3 DEF Answer
  <2> HIDE DEF ping
  <2>3. /\ DOMAIN queue = 1 .. Len(queue) /\ Len(queue) \in Nat
        /\ DOMAIN queue' = 1 .. Len(queue) + 1 /\ queue'[Len(queue) + 1] = ping
        /\ \A k \in DOMAIN queue : queue'[k] = queue[k]
    BY <2>1, <2>2, AppendIs DEF TypeOK
  <2>4. ASSUME NEW k \in DOMAIN queue', k > QueueCap
        PROVE  queue'[k].kind = "PING" /\ queue'[k].from \in Faithful
    <3>1. CASE k \in DOMAIN queue
      BY <2>3, <2>4, <3>1 DEF AnswersBehind
    <3>2. CASE k \notin DOMAIN queue
      BY <2>1, <2>3, <3>2
    <3>3. QED
      BY <3>1, <3>2
  <2>5. QED
    BY <2>4 DEF AnswersBehind
<1>4. CASE UNCHANGED vars
  BY <1>4 DEF vars, clientVars, AnswersBehind
<1>5. QED
  BY <1>1, <1>2, <1>3, <1>4 DEF Next

\* A client that answers its pings is never dropped, whatever any number of other
\* clients send and however long its own answers make the buffer.
THEOREM FaithfulClientKept ==
  ASSUME Prompt, \A a, b \in Faithful : a = b
  PROVE  Spec => FaithfulClientsStay
<1> DEFINE Stay == \A a \in Faithful : Listed(a) => Listed(a)'
<1>1. TypeOK /\ AnswersBehind /\ AliveInv /\ [Next]_vars => AliveInv' /\ Stay
  <2> SUFFICES ASSUME TypeOK, AnswersBehind, AliveInv, [Next]_vars PROVE AliveInv' /\ Stay
    OBVIOUS
  <2>1. ASSUME NEW b \in Faithful, Answer(b) PROVE AliveInv' /\ Stay
    <3>1. Len(queue) \in Nat /\ DOMAIN queue = 1 .. Len(queue) /\ QueueCap \in Nat
      BY ClientAssumption DEF TypeOK
    <3>2. ASSUME Len(queue) <= QueueCap PROVE AliveInv'
      <4>1. [kind |-> "PING", from |-> b] \in Datagram
        BY ClientAssumption DEF Datagram
      <4>2. Len(queue') = Len(queue) + 1
        BY <2>1, <4>1 DEF Answer, TypeOK
      <4>3. Len(queue') <= QueueCap + 1
        BY <3>1, <3>2, <4>2
      <4>4. QED
        BY <2>1, <4>3, AliveAnswer
    <3>3. ASSUME Len(queue) > QueueCap PROVE AliveInv'
      <4>1. QueueCap + 1 \in DOMAIN queue /\ QueueCap + 1 > QueueCap /\ QueueCap + 1 <= QueueCap + 1
        BY <3>1, <3>3
      <4>2. queue[QueueCap + 1].kind = "PING" /\ queue[QueueCap + 1].from = b
        BY <2>1, <4>1 DEF AnswersBehind
      <4>3. QED
        BY <2>1, <4>1, <4>2, AliveAnswer
    <3>4. Stay
      BY <2>1 DEF Answer, Listed
    <3>5. QED
      BY <3>1, <3>2, <3>3, <3>4
  <2>2. CASE \A b \in Faithful : ~Answer(b)
    BY <2>2, AliveOther
  <2>3. QED
    BY <2>1, <2>2
<1>2. TypeOK /\ AnswersBehind /\ AliveInv /\ [Next]_vars => [Stay]_vars
  BY <1>1
<1>3. Init => AnswersBehind
  BY DEF Init, AnswersBehind
<1>4. QED
  BY <1>1, <1>2, <1>3, BehindStep, AliveInit, TimersAreRight, PTL DEF Spec, FaithfulClientsStay

=============================================================================
