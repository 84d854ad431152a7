# TLA+ models of ClangAsmTest1

The repository is a workshop: one directory tree with several hundred mostly
independent C++ programs, patches and notes. This directory holds formal models
of those parts that keep state over time, talk to other processes or share state
between threads, checked with TLC on small instances and, where that is possible,
proved with TLAPS for every instance.

Contents: [inventory](#inventory) - [the modules](#the-modules) - [the lobby server](#the-lobby-server-tcp)
- [the punch server](#the-punch-server-udp) - [the netplay hooks](#the-netplay-hooks)
- [the rollback allocator](#the-rollback-allocator) - [the WebSocket shim](#the-websocket-shim)
- [the peer-to-peer chat](#the-peer-to-peer-chat) - [the runs](#the-runs) - [the proofs](#the-proofs) - [what is only model-checked](#only-model-checked)
- [what is not modelled](#not-modelled)

## Inventory

| component | state it keeps | operations | what is hard |
|---|---|---|---|
| Lobby server, TCP (`src/znet/aocf_server.cpp`) | `user_map` behind `user_mutex`, `USER_COUNT` per room, one socket and a few locals per connection | accept, NICK/PASS/USER, JOIN, STAT, REQUEST_MATCH, WELCOME, chat, PING/PONG, leaving, the sweep | a detached thread per client; lookups by name after the lock was given up; sends that block under the lock; counters changed on three paths |
| Lobby server, UDP (same file) | `punch_data`, a vector of timers and addresses; the external ports in `user_map` | LOBBY_NAME, PUNCH_WAIT, PUNCH_PING, PUNCH_CONNECT, PUNCH_DELAY_PING, the tick | duplicates and reused slots, 16-bit timers, one datagram per turn, late or lost answers |
| Netplay patch (`src/AoCF/netplay_patch/netplay.cpp`, and again in `src/AoCF/netcode_files/main.cpp`) | `resyncing`, `lag_packets`, `prev_timestamp`, `not_in_match`, one patched byte of the game | the hooks around WSASendTo and WSARecvFrom | thresholds, 8-bit counters, code that is overwritten and must be restored, two versions that differ |
| Rollback allocator (`src/AoCF/netcode_files/AllocMan.cpp`) | the list of allocations, their free timers, a ring of saved frames | malloc/free/realloc hooks, tick, rollback, reset | frees that are undone, records that outlive what they point at, off-by-one in the timers |
| Autopunch (`src/AoCF/netcode_files/Autopunch.cpp`) | array of socket data and peer mappings, a relay thread | socket, bind, sendto, recvfrom, close hooks | pointers into an array used after its lock is released |
| znet, zthread (`src/znet/znet.h`, `zthread.h`) | sockets; `stop_state` of a thread | wrappers over system calls; start, stop, join | a stop that races the thread's own end |
| WebSocket shim (`src/winhttp_websocket/websocket_impl.cpp`) | a socket and a TLS context; within a call, the bytes of a TLS record | open, send, receive, close | records cut and joined by TCP, buffers that do not outlive a call, a close by another thread |
| peer-to-peer chat (`src/znet/p2p_test.cpp`) | a socket, threads for keyboard, sending and receiving on each side | call, wait, accept, deny, chat, leave | two threads that stop each other, datagrams lost, repeated and reordered, a thread that ends by itself while it is being stopped |

The remaining directories (emulators, bytecode interpreters, frame limiter, chat
bots, loaders, DLL stubs, transcribed game binaries, screensavers, dumps, utility
headers) are listed in `PROJECT.json` with the reason they are left aside: they are
sequential, thin calls of the operating system, or not programs of their own.

How the parts interact. A game with the netplay patch logs in to the lobby server
over TCP and, under the same nickname, over UDP; the UDP thread stores the port it
saw in the `user_map` entry the TCP thread created, and the TCP thread appends that
port to the match messages it relays. The game that waits for a match keeps itself
listed in `punch_data` by answering pings; the other one asks the server to introduce
it. Once the two games talk to each other, the hooks of the netplay patch watch the
packets and nudge the game's timing. Within the server process, the main thread, the
UDP thread and the connections' threads share `user_map` and `USER_COUNT` and nothing
else; `punch_data` belongs to the UDP thread.

What makes each part correct:

* TCP lobby: one session per nickname; a session only ever meets its own entry; an
  entry is not erased under an iterator; counts follow the sessions that wait; match
  messages carry ports reported for that session; everything a session took is given
  back; the server keeps accepting.
* UDP lobby: who is heard stays listed for the timer's length, who is silent is pinged
  and dropped, nobody is dropped unasked, introductions go to those who are listed.
* Netplay hooks: a resynchronisation starts only on repeats, ends, leaves the game's
  code as it found it, and never reads past its table.
* AllocMan: what a rollback restores is what the frame had (true of frames with one record
  only); contents that were saved keep their block; what is freed is released in the end.
* WebSocket shim: a read ends, loses nothing between two calls as long as TCP brings no
  burst, and is ended by a close.
* Chat: a chat that is over is over on both sides, its threads are joined before their
  buffers go, and the host gets back to its menu.

## The modules

| component | abstract | detailed | checked by | proofs |
|---|---|---|---|---|
| TCP lobby | `Lobby` | `LobbyServer`, mapped by `LobbyRefinement` | `MCLobbyServer`, `MCLobbyRefinement` | `LobbyProofs`, `LobbyRefinementProofs` |
| UDP lobby | `PunchRegistry` | `PunchServer` | `MCPunchServer` | `PunchProofs` |
| netplay hooks | | `Netplay` | `MCNetplay` | `NetplayProofs` |
| rollback allocator | | `AllocMan` | `MCAllocMan` | `AllocManProofs` |
| WebSocket shim | `MessageChannel` | `WebSocket` | `MCWebSocket` | `WebSocketProofs` |
| chat and joining threads | | `P2PChat` | `MCP2PChat` | `P2PChatProofs` |

The components meet in two places only, and both are composed: the UDP thread's write to
`user_map` is an action of `LobbyServer`, and `P2PChat` joins the two programs, their
threads and the network. The allocator, the shim and the hooks each serve a game that
calls them, and the game is their environment.

## The lobby server, TCP

`LobbyServer` has one action per step of the main thread and of a connection's thread
that other threads can tell apart. A critical section under the unique lock is one step
guarded by `UniqueLock`. `shared_iter_user_data` is not: it sends to one user after the
other while it holds the lock in shared mode, so it is `BcastLock`, any number of
`BcastSend` in any order, `BcastUnlock`; other readers run meanwhile, writers wait, and
a send to a client that does not read blocks.

| model | code |
|---|---|
| `main` | where the accept loop is (608-904) |
| `user_map`, `UserData` | the map and struct (141-191); `owner` says whose thread inserted the entry, which the code does not store |
| `fdtab` | the operating system's table of descriptors: which connection a number stands for |
| `sock`, `nick`, `room`, `is_waiting`, `tries`, `carry` | locals of the connection's thread |
| `pc` | where that thread is; the names in `BcastPcs` are its calls of `shared_iter_user_data` |
| `readers`, `todo` | who holds `user_mutex` in shared mode over an iteration, and what is ahead of them |
| `reading`, `heard`, `msgs` | the client; the ports reported for an entry (history); lines received (bound) |
| `Accept`, `AcceptNone`, `Sweep`, `Exit` | the accept loop, `exclusive_iter_user_data`, the return from `main` |
| `Login` ... `Enter` | 614-765, from NICK to the assignment of `room_type` |
| `Stat`, `Welcome`, `RequestMatch`, `OtherMessage`, `PollPort`, `SkipPoll` | the inner loop, 767-860 |
| `ReceiveTimeout`, `Pong`, `PongFail` | 861-873 |
| `Remove`, `Close` | 876-881 |
| `LobbyName` | the UDP thread, 471-488 |
| `Stall`, `Drain` | a client that stops reading and reads on |

A thread's own sends are folded into the step that follows them (they are guarded by
`~Blocked(sock[c])`): nobody but the client sees whether the step came before. Descriptors
are closed by number, by the thread and again by `~UserData`, whoever has the number by
then; the model does the same. Message text, logging, `TOTAL_LOBBY_MATCHES`, addresses and
the copying of nicknames are left out.

`Lobby` is what users are promised: who holds a name, who is inside and in which room,
who waits, what the counts are, and whether the lobby is open. `LobbyRefinement` gives the mapping: a name belongs to the
owner of its entry, a session has left once its entry is flagged, it waits while it is in its
room and `USER_COUNT` includes it (`Counted`). `LobbyPromise` is the abstract specification with its fairness
(an abandoned name is released in the end).

Fairness: each thread keeps running (`WF` of `Main` and of each `Session(c)`), which is
what the operating system's scheduler gives; and a client that stopped reading reads on
or is disconnected by TCP (`WF` of `Drain(c)`). The sweep takes a unique lock on a
`std::shared_mutex`, which the standard does not promise to writers when readers come
and go for ever. In the model a connection sends `MaxMsgs` lines beyond those of its login,
so readers do not come for ever: `AcceptsForever` and `SessionsAreReleased` say
that the code's own steps lose nothing, and say nothing of an endless stream of chat.
`Sweep` may go to "stopping", as on builds with the keyboard thread
(`INCLUDE_KEYBOARD_FUNCTIONS`); elsewhere the loop never stops.

## The punch server, UDP

`PunchServer` has one action per turn of `udp_listen_thread`: at most one datagram, then
the tick over the whole vector. `Insert` reuses the first dead slot and does not look for
an older entry of the same client; `Refresh` resets the first entry that matches; both are
as in the code, so a client may have several entries with timers of their own. The timer
is a number modulo `UINT16_MAX + 1`.

| model | code |
|---|---|
| `punch_data`, `PunchData` | 201-235 |
| `PING_THRESHOLD`, `SEND_INTERVAL` | 193-197, from the constants of the model |
| `Insert`, `Refresh`, `RelayOf`, `Tick`, `PingTimerSend` | 330-364, 220-230, 504-573, 584-597 |
| `Iterate` | the loop, 461-599 |
| `queue` | the socket's receive buffer |
| `relayed` | the PUNCH_PEER of the last turn |
| `owed`, `asked` | history: pings a client has not answered |

The clients are not in the repository. `Send` lets any of them send anything at any time,
which covers loss, duplication and reordering. A client in `Faithful` answers each ping
within `MaxDelay` turns of the loop, and its answers arrive. `CONNECT` stands for
PUNCH_CONNECT and PUNCH_DELAY_PING, which search and relay alike; `OTHER` for LOBBY_NAME,
IPV6_TEST and DELAY_PONGA, which do not touch `punch_data`; LOBBY_NAME_WAIT is the effect
of `LobbyServer!LobbyName` followed by a `WAIT`. The loop's stop is not modelled.

`PunchRegistry` is what the clients see: per address one number, the rounds it stays listed.
`RegistryPromise` maps it to the longest timer of the address's entries and says that
duplicates, reuse and first-match loops are invisible. The promise includes that an
introduction goes to `dest` exactly if `dest` is listed.

## The netplay hooks

The hooks exist twice, in `netplay_patch/netplay.cpp` and reimplemented in
`netcode_files/main.cpp`; `hooks` says which build runs, `Hooks` which ones a run covers.
They differ in what a repeated timestamp is (`Fresh_Halves`, `Fresh_Whole`), in the
threshold (`Threshold`: `UINT8_MAX`, `INT8_MAX`) and in the first value of `not_in_match`.

`Netplay` has one action per kind of packet the hooks tell apart. `SendStamped` is
`run_resync_logic` in the code's branches (`Advance`, `Lag`, `Ramp`, `Synced`), with the real
values of `UINT8_MAX`, `INT8_MAX` and `value_table`. The game is the environment: it sends
and receives any packet at any time, one call after the other (the hooks keep their state
without a lock and rely on that). `VirtualProtect` may refuse each write of the patched byte.
The receive hook looks at the buffer after a call that failed or is pending as well, which
is the `buffer` in the `\E` of `Next`. The window title and the one-time patching are left out.

`ResyncEnds` is stated as an implication - if packets with timestamps keep coming, the
resynchronisation ends - because no scheduler makes a game send.

The comment at 410-413 admits that the comparison of timestamps is wrong: the condition (414-415)
takes a timestamp for a new one only if both halves changed, so that a HighPart that stays,
as it does for 2^32 units of the clock, counts as a repeat. `ResyncNeedsRepeats` therefore means a
repeat in the sense of the build (`Fresh`): it is about the counting, not about the comparison.
`OneNinePerWait` likewise takes for a match what the receive hook takes for one, which may be an
older packet still in the buffer.

## The rollback allocator

`AllocMan` has one action per call of the game. A block is its address, which `my_malloc`
may give out again after a release; a block has one value, and sizes, the order of the list
and words are abstracted. `my_realloc` in place changes sizes alone and is left out;
otherwise it is malloc, copy and free in one step. A rollback restores the blocks its
frame has records of and releases those without a tag.

| model | code |
|---|---|
| `listed`, `free_timer`, `has_record`, `data` | the list and `AllocData` (55-119) |
| `saved_data`, `saved_data_index`, `available_frames` | the ring (170-198); a `Frame` is what `record` wrote (121-147) |
| `my_malloc`, `my_free`, `my_realloc`, `Write` | 302-426, and the game's own writes |
| `tick_allocs` | 107-116, 243-275 |
| `rollback_allocs`, `RolledTimer`, `Copies`, `WalkRecord`, `WalkOverlap` | 149-168, 232-241, 277-297 |
| `reset_rollback_buffers` | 320-322 |
| `past`, `depth`, `health` | history: the frames saved k ticks ago; how many of them a rollback can reach; whether one has read anything else |

A frame with several records is not read as it was written. `tick` advances the write
position by a record's contents alone (273), the reader by header and contents (232-241), so the
walk takes words of the contents for the next header. `WalkOverlap` gives it every outcome, a
crash included, and after it `health` is no longer "good". The comment at 285-287 says that the
blocks a rollback then finds without a tag must have been allocated after the frame, and may be
freed. `UntaggedIsNewer` states that, and the run `alloc_man_tags` finds it violated: two blocks, two
ticks, a rollback by one; the walk visits the first record and what it takes for the second leads
out of the buffer, so that the second block has no tag and is released, although the
frame and every frame since had it. (With a single block TLC finds no violation.)

So `SingleRecordRestored` is about frames with at most one record, and its premises say so: the
frame rolled back to does not overlap, and no earlier rollback was to one that does or reached
beyond the saved frames (`health = "good"`). Such frames are what a game with one block has;
frames between may have any number of records. With the normal case, many blocks, the allocator
keeps no promise of its comments. Two more cases are outside the premises. `available_frames` counts up to
`SAVED_FRAMES` frames (189), of which only `SAVED_FRAMES - 1` are older than the newest; a rollback
by all of them lands on the newest. And a rollback to a frame that still names a block
released meanwhile (a header without contents, of a block that was being freed) sets the tag in
freed memory: the step may go on or end in "crashed".

Another disagreement with a comment, shown by `alloc_man_comment`: of a block whose timer a
rollback only sets back, 161-162 say its data need not be copied back yet. A block freed
before the tick that follows a frame reaches `MAX_ROLLBACK_TIMER` exactly on the way back
to that frame, which the test `>` (157) does not count: it stays in the state of being
freed although the frame holds its contents. `SingleRecordRestored` allows for that one case.

## The WebSocket shim

`WebSocket` is the receiving side over TLS: `read_from_socket` as the loop it is, one action
per `recv` and per status of `DecryptMessage`, its two callers (`WinHttpReceiveResponse`
once, then `WinHttpWebSocketReceive`), and the two steps of `WinHttpWebSocketClose` by
another thread that a reader notices, the shutdown of the socket and the deletion of the
context. The server puts its answer and each frame into a record of `SIZE` bytes, `TEXT` of
them text, may send a close_notify record or close the connection; TCP cuts and joins
records in any way. Assumed are a connection that uses TLS, and that a frame is one record
(which servers do with short frames).

| model | code |
|---|---|
| `taken`, `received_size` | bytes off the connection; `packet_buffer` (880-898) |
| `total_received` | 881; text in the caller's buffer |
| `Recv`, `RecvEnds` | 894-898 |
| `DecryptOk` with `Copy`, `DecryptExpired`, `DecryptFails`, `Drain` | 914-933, 934-935, 936-937, 883-893 and 938-944 |
| `Return` | 1098-1105, 1201-1236 |
| `CloseShutdown`, `CloseDeletes` | 1348-1402 |
| `handed`, `spoilt` | history: messages given to the game; a reason outside this code why one may be missing |

`spoilt` is set by a burst (more than the rest of the next record in one `recv`), a record
that is no text (renegotiation, alert), a close by the game, a connection that ends in
mid-record, and a frame the game's buffer is too small for. After a burst the code does lose
frames: what `packet_buffer` holds beyond the first record, and what follows the first frame in
`recv_buffer`, does not survive the call. The properties therefore speak of connections
without one, but for `ChannelPromise`, which holds through all of it: the shim implements
`MessageChannel`, where each message given to the game was sent, none is given twice, and a
broken channel loses messages but makes none up. The close_notify is not a message.
The copying loop (929) repeats for ever when a record does not fit and its text
is not twice the room; `CopyFits` shows that the early return the source
asks "Why?" about (886) keeps that from happening.

Fairness: the reading thread goes on, and `recv` hands out what has arrived.

## The peer-to-peer chat

`P2PChat` is a caller and a host of `p2p_test.cpp` with all their threads, and `zjthread` of
`zthread.h`: a thread is "run", "key" (a key was read: it reads on to the end of the line or
sends LOGOUT), "leaving", "ended" (the function returned and stored -1), and "joined" for the
host's keyboard thread, the one object that outlives its join. `stop_state` is 0, 1
(the owner asked) or -1. The network loses, repeats and reorders.

| model | code |
|---|---|
| `Ends`, `ThreadStops`, `stopped` | zthread.h 36-60 |
| `StartChat`, `ReadKey`, `SendLine`, `Escape`, `ReceiveText` | 205-247, 54-72 |
| `ChatOver`, `JoinSender`, `JoinReceiver` | 249-258 |
| `Connect`, `ReceiveAnswer`, `LoginTimeout` | 285-325 |
| `Bind`, `Poll`, `Deny`, `Accept`, `JoinKeyboard`, `CheckOn`, `CheckOut`, `KeyboardEscapes` | 327-402 |
| `net`, `call`, `asker`, `peer` | the network; the caller's socket, `peer_addr` and the peer the host's socket is connected to |
| `escaped`, `chatted`, `disturbed` | history: the premises of the properties |

What the properties exclude by their premises is what the code does not give. A
keyboard thread that has taken an ESC stores -1; if the user then accepts a call, `join`
stores 1 over it, `stopped()` stays false, and after the chat the host waits on, deaf to
ESC; a login accepted again would join the same thread again, which throws
(`CrashNeedsEscape` shows this is the only way there). A LOGOUT that is lost leaves
the peer in the chat until its own ESC. An ACCEPT that comes after the caller gave up, or
behind a line of the chat, leaves the host in a chat of its own.

Fairness: the scheduler runs each thread; a datagram that is not lost arrives; a user who
has begun a line ends it (`getsn` blocks until then, and a stop waits for it).

## The runs

| run | instance | what it shows |
|---|---|---|
| `lobby_names` | 3 connections, 1 nickname, 2 descriptors, 1 line each | `SessionOwnsItsName`, `NothingLeaks`. Three is the least number with a name freed, taken again and asked for by a third; two descriptors make a number be handed out again between the two closes |
| `lobby_rooms` | 2 connections, 2 nicknames, 2 rooms, 3 lines each | `TypeOK`, `WaitingCountExact`, `IteratorsStayValid`. Two names, because a broadcast keeps its own entry alive; three lines are a STAT, a WELCOME or timeout, and another STAT; two sessions interleave on one counter and on two |
| `lobby_live` | 2 connections, 1 nickname, 1 descriptor, one slow client, 2 turns of the port poll | `SessionsAreReleased`, `AcceptsForever`, `MatchPortIsReported`. One name and one descriptor for two sessions: a name or descriptor that is lost shows as a session that never starts |
| `lobby_refinement` | 2 connections, 1 nickname, 2 rooms | `LobbyPromise`, safety and fairness of the abstract lobby |
| `punch_registry` | 2 addresses, timer 7, 2 pings, 3 entries | `TypeOK`, `DroppedOnlyUnanswered`, `RegistryPromise`, `SilentClientsAreDropped`. Three entries of two addresses: a duplicate, and a dead slot that is reused; the odd timer makes the quotients of the constants inexact |
| `punch_faithful` | 1 faithful client and 1 other, timer 12, 2 pings, answers within 2 turns, buffer of 3 | `FaithfulClientsStay`. The buffer can just be drained between the first ping and the timer's end (3 + 2 + 1 turns of the 2 * 3 that the pings take), the boundary of `Prompt` in `PunchProofs`; with one more datagram waiting the property fails, which is a limit of the design, not of the code |
| `netplay` | both builds; types 0, 9, 11, 18; two values of each half of a timestamp; the real thresholds | `TypeOK`, `RestoredInSync`, `OneNinePerWait`, `ResyncNeedsRepeats`, `ResyncEnds` |
| `alloc_man` | 2 blocks, 1 value besides garbage, a ring of 3 frames | `TypeOK`, `ContentsHaveTheirBlock`, `SingleRecordRestored`, `FreedIsReleased`. Two blocks make a realloc that moves and an address given out again; a ring of three (the code's eight are a power of two for the mask, which `Wrap` has for any size) has rollbacks by one and by two, one after the other; the timers run to 6. The constraint `Sane` follows behaviours up to the first rollback that reads no saved frame, after which no property promises anything: each has `health = "good"` as a premise, `FreedIsReleased` for the whole behaviour (the proofs do without the constraint) |
| `alloc_man_tags` | 2 blocks, a ring of 3 frames | expects `UntaggedIsNewer` to be violated: the disagreement with 285-287 |
| `alloc_man_comment` | 1 block, a ring of 4 frames | expects `SetBackHasNoContents` to be violated: the disagreement with 161-162 |
| `websocket` | 5 records of 3 bytes, 2 of them text, buffers of 7 | `TypeOK`, `CopyFits`, `NothingLeftBehind`, `ChannelPromise`, `CallsEnd`, `MessagesArrive`. A buffer holds two records and a piece of a third, so every way to cut and join them happens |
| `p2p_chat` | 1 call | `TypeOK`, `CrashNeedsEscape`, `NoStopIsLost`, `GoodbyeIsUnderWay`, `HostReturns`, `ChatEnds`, `NobodyStaysAlone`. One call is enough for a login that comes twice or late, before and after a chat, and for the host to wait again with the old datagrams about |

Bounds: `MaxMsgs` (lines of a connection), `PortIters` (`UDP_PORT_ITERS`, a constant of
the code, smaller here), `CountLimit` (values of `USER_COUNT`, 2^32 in the code; any value
above the number of connections is alike, as `CountsAreExact` proves), `MaxEntries`,
`QueueCap`, `MaxDelay` (punch server), `SEND_REPEATS` as the cap of the history `asked`, `UINT8_MAX` and 2 as the caps
of the histories `repeats` and `idle_nines`. Connections are accepted at most once each, so
the size of `Conn` bounds the sessions in a behaviour. `Symmetry` is used by the two runs that
check invariants only. `MaxCalls` and `RECORDS` bound the chat's calls and the server's records.
Deadlock is checked where the system does not stop; `Exited` is the only state in which
the lobby stops. The chat may stop, when the host's program was terminated and the caller has
no call left, so `p2p_chat` does not ask for it.

Every property has a mutant in `PROJECT.json`: a definition of the model changed the way a
bug in the code would change it (`..._Unguarded`, `..._Forgotten`, `..._Early`), under which
TLC finds the property violated. The mutated forms stand in the modules before the
definitions they belong to; no action uses them.

## The proofs

The assumptions are those of the modules: finite sets of connections fewer than the
values of a counter (`ConnAssumption`), "absent" values outside their sets
(`AbsentAssumption`), bounds that are numbers (`BoundAssumption`), timers that fit 16 bits
and leave room for the pings (`TimerAssumption`), packet types that fit 8 bits (`GameAssumption`),
a ring of at least one frame (`FramesAssumption`) and values apart from the marks of a record
(`ValueAssumption`), records with some text that fit into the buffer (`SizesAssumption`), and a number of
calls (`MaxCallsAssumption`). Two theorems on the punch server state a further one, `Prompt`, themselves. Everything else about the constants is arbitrary: any number of
sessions, names, rooms, descriptors, addresses, blocks, frames, bytes.

* `LobbyProofs`. `TypeInv` adds to the types where a thread has its nickname and that readers
  are in a broadcast. `SessionOwnsItsName` is not inductive: it also needs that every entry
  belongs to a session that logged in under that name, and is flagged once that session has
  left (`EntriesHaveOwners`), or a flag or a sweep could hit somebody else's entry, and that no entry vanishes under an iterator; together they are
  `OwnInv`. `CountInv` adds that only a session in a room can be waiting (`WaitInv`); then every
  step either leaves the set of waiting sessions alone (`QuietSteps`) or adds or removes
  exactly one, and cardinality lemmas do the rest. `PortInv` says that an entry's port is one
  that was reported for its owner, or there was none. `NothingLeaks` joins
  `EntriesHaveOwners` with an invariant of its own on the descriptors (`DescriptorsHaveOwners`): what is
  open is known to a thread that still runs, because a thread ends only by closing its number, even
  when that number has come to stand for another connection. Theorems: `TypeCorrect`, `NamesAreOwned`,
  `IteratorsAreValid`, `CountsAreExact`, `PortsAreReported`, `NothingIsLeaked`.
* `LobbyRefinementProofs`. Under `RefInv` (`OwnInv`, `CountInv`, and no room before a JOIN) each
  action is one abstract step or changes nothing of the mapped state; theorem
  `ThreadsImplementLobby`, the safety part of `LobbyPromise`.
* `PunchProofs`. The lemmas on `Left` say what an insertion, a refresh and a tick do to the
  longest timer of an address; from them each turn is a round of the registry
  (`LoopKeepsRegistry`). `TimersAreRight`: alive entries are those whose timer is not 0, so no tick
  wraps. `NobodyDroppedUnasked` rests on `SlackInv`: an address that was asked n times since
  it was heard has more than (SEND_REPEATS - n) * SEND_INTERVAL turns left.
  `FaithfulClientKept` and `ShortBufferKeepsFaithful` turn this round: who answers its pings stays.
  They assume `Prompt`: a ping is answered, and the answer is taken out of the buffer, within the
  SEND_REPEATS * SEND_INTERVAL turns over which a dying timer is pinged (1000 turns, 10 s, with the code's
  constants). `FaithfulClientsStay` is about one step and says nothing of what is under way;
  `AliveInv` does. A listed client that answers is in one of three places:
  its timer has not come down to the first ping (`Early`); it owes an answer, and what is left of the
  timer covers what is left of its delay and a full buffer (`Due`); or its answer waits in the
  buffer no farther from the head than the timer has turns (`ToCome`). A turn takes one off the
  timer, one off the delay or one off the place in the buffer. `AnswersBehind` is for the one
  client: what waits beyond `QueueCap` are its own answers, so one of them is always near enough. With several
  such clients, each listed more than once, the answers of one may lie before the answer of
  another in any number, since each entry is pinged by itself; hence the second theorem speaks of behaviours
  whose buffer stays short.
* `NetplayProofs`. The types split into `Flags` and `Values`. `ByteInv` ties the byte to the position in
  the ramp: past index 96 what is written is INT8_MAX, the value of a byte at rest.
  `RepeatInv`: at most one more packet has been counted than have repeated. `NineInv`: at most one
  type 9 packet was sent, and only with `not_in_match` set. Theorems: `CounterStaysInTable`,
  `ByteIsRestored`, `ResyncsNeedRepeats`, `NinesAreSparse`.

* `AllocManProofs`. `SingleRecordRestored` needs to know what the ring holds and how old a freed block's
  last contents are: `RingHoldsPast` ties the slot k behind the index to the frame of k ticks
  ago, and `ContentsAged` says of a block with contents in that frame that it is listed and its
  timer is 0 or at least `MAX_ROLLBACK_TIMER - k`, so that going back k frames reaches the start of
  the timer, and the threshold is not met (`k < SAVED_FRAMES`). Both are kept as long as
  `health` is good; the types hold also in what a torn walk leaves. Theorems: `TypeCorrect`,
  `BlocksOutliveTheirContents`, `SingleRecordsAreRestored`; the last says nothing of a frame with several
  records.
* `WebSocketProofs`. `Fits`: the text copied and the bytes held fit into one buffer together, with
  room to spare once there is text, since a record has more bytes than text. `Kept`: without a burst
  the bytes taken are the records opened and what is held of the next one, and each record opened
  was handed over, is pending or was the close_notify. `Ledger` does without that premise:
  what was handed over, is pending or was the notice never exceeds the records opened, nor these the
  records sent, because a record that opens is complete. With it each step is a
  step of `MessageChannel` or a stutter. Theorems: `TypeCorrect`, `CopiesFit`,
  `NothingIsLeftBehind`, `ChannelIsKept`, for records and buffers of any size.
* `P2PChatProofs`. `KeyboardFollowed` follows the keyboard thread's `stop_state` along the host's
  loop as long as no ESC was taken: running and 0 until a call is accepted, -1 whenever the
  loop looks at it afterwards. `CallsNamed`: who asks or chats has a call. Theorems:
  `TypeCorrect` (no thread of a chat outlives `main_net_func`), `CrashesNeedAnEscape`.
  `NoStopIsLost` has one part for the threads of a chat, inductive beside the types (`StopsSeen`), and one for
  the keyboard thread, which follows from `KeyboardFollowed`; theorem
  `StopsAreSeen`. `GoodbyeIsUnderWay` speaks of two programs and the network at once, and needs to know
  how far each side may be ahead of the other in a call: `GInv` says in which order
  the host and the caller pass from call to call (`HostInOrder`, `CallerInOrder`), that no packet
  names a call to come (`CallsAreNew`), that a call is answered once (`AnswersOnce`), that who said goodbye
  is leaving (`HostMeansIt`, `CallerMeansIt`), and that who is leaving has said so or was told
  (`HostSaysIt`, `CallerSaysIt`); theorem `LeavesWithGoodbye`, for any number of calls.

### Only model-checked

Liveness (`SessionsAreReleased`, `AcceptsForever`, `SilentClientsAreDropped`, `ResyncEnds`,
`FreedIsReleased`, `CallsEnd`, `MessagesArrive`, `HostReturns`, `ChatEnds`, `NobodyStaysAlone`, and the
fairness part of `LobbyPromise`) is out of reach of the prover used here and rests on the runs.
Every invariant and every action property the passing runs check is proved as well, `FaithfulClientsStay` under
`Prompt` and for one such client or a short buffer.

### Not modelled

* What each lobby client was last told: the count of a room is correct, but USERS lines of two
  threads may reach a client in the other order (417 changes the counter before the lock).
* The framing of lines over TCP (643): lines are atomic.
* The data race on `room_type`; a broadcast sees the room before or after, as a one-byte store
  on the targets gives it.
* Of the shim: the TLS handshake, sending, frame headers and masks, connections without TLS, the
  freeing of handles, the deliberate halt on a fragmented frame (1212-1215), and a
  close that returns early because its close frame cannot be sent (1352-1354).
* Of the allocator: sizes, and so what exactly overlapping records do to each other.
* Autopunch (`src/AoCF/netcode_files/Autopunch.cpp`): its hooks are commented out where `main.cpp` would
  install them, so the repository has no program in which its calls have an order.
* The lobby client of the game and the game engines are partial transcriptions of binaries, with
  unnamed state and missing bodies; the emulators, bytecode experiments, tools and utility headers
  are sequential and stand alone; the loaders and stubs are calls of the operating system; the
  screensavers and dumps are third-party or generated. Together they are nearly all of the
  repository's lines, and a model of them would either restate one instruction after the other or
  guess at what a field means. The parts modelled here are those with a protocol, threads or
  state over time, so the mapped lines stay a small share of the whole.
