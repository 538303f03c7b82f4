# A TLA+ model of the out-game lobby server

The lobby server (`OutGameLobbyServer`) accepts game clients over Windows I/O
completion ports, checks their login tokens in Redis, keeps their friend lists
from MySQL, and tells friends on any lobby server when somebody comes online.
This directory models its parts in TLA+, checks them on small instances with
TLC, and proves some of the results with TLAPS for every instance.

The repository is work in progress: `main.cpp` starts nothing, some methods
have no caller yet (`PushRedisPacket`, `RedisManager::Init`, `UserDisConnect`,
`SetPkToObjNum`, the heartbeat's counters), and one header is missing. A method
without a caller is modelled as a call its environment may make at any time.

## 1. The system and its parts

| component | state it keeps | operations | talks to |
|---|---|---|---|
| connection core (`OutGameLobbyServer.cpp`, `ConnUser.h`) | `AcceptQueue`, the `ConnUser` objects (socket, `acceptOvlap`, `sendQueue`, `sendQueueSize`) | `AccepterThread`, `WorkThread`, `PostAccept`, `ConnUserRecv`, `PushSendMsg`, `SendComplete`, `Reset` | kernel (AcceptEx, WSARecv, WSASend, completion port), overlapped pool |
| overlapped pool (`OverLappedManager`) | `ovLapPool`, a lock-free queue of `OverlappedEx` | `init`, `getOvLap`, `returnOvLap` | every connection |
| send path (`ConnUser.h`) | `sendQueue`, `sendQueueSize` | `PushSendMsg`, `SendComplete`, `ProcSend` | worker threads, redis and subscriber threads |
| receive ring (`CircularBuffer`) | `buffer`, `writePos`, `readPos`, `currentSize` | `Write`, `Read` | packet pipeline |
| MySQL manager (`MySQLManager`, `AutoConn`) | `dbPool`, `semaphore`, the friend table | `init`, `GetConnection`, `AcceptFriend`, `RemoveFriend`, `GetUserFriendsPks` | MySQL, redis threads |
| packet pipeline (`RedisManager`) | `procSktQueue`, `packetIDTable` | `PushRedisPacket`, `RedisThread` | ring, handlers |
| login and presence (`RedisManager`) | Redis keys `jwtcheck:{id}`, `user:pk` | `VerifyUserToken`, `UserConnect`, `UserDisConnect`, `PublishToUsers`, `ProcessFriendAccept` | Redis, MySQL, send path |
| user directory (`ConnUsersManager`) | `ConnUsers`, `pkToObjNum` | `InsertUser`, `FindUser`, `SetPkToObjNum`, `GetObjNumByPk`, `DelPkToObjNum` | everything |
| event subscriber (`LobbyRedisSubscriber`) | the subscription | `SubscribeLoop`, five handlers | Redis, send path |
| heartbeat (`LobbyHeartbeat`) | `userCount`, the key `lobby:n:status` | `HeartbeatLoop`, `Start`, `Stop` | Redis |
| start and stop (`init`, `StartWork`, `ServerEnd`) | `WorkRun`, `AccepterRun`, the threads | | everything |

Four worker threads and two accepter threads share the connections; redis and
subscriber threads push messages into them. Nothing but the lock-free queues,
one atomic counter per connection, one mutex per ring, and a mutex and a
semaphore around the database connections keeps them apart.

### What is hard, and what correct means

* **connection core** – completions are handled by any worker in any order, and
  what one means is read from an object that may have been reused. Correct: an
  overlapped object has one owner; no slot is lost; nothing but a completion
  handled late doubles a socket's receive; a live session is cut only for a
  reason.
* **send path** – a push and a count are two steps, and so are a count and a
  look at it. Correct: each message is in one place; the counter counts; no
  message waits for ever.
* **ring** – copies in two pieces at the seam; three counters that must agree.
  Correct: it is a bounded queue of bytes.
* **MySQL manager** – permit and connection are taken in two steps; every call
  has many early returns; commits may be lost. Correct: a connection has one
  user, friendship is mutual, a success is true, the permits that are left
  reach the connections, and somebody who waits always gets on.
* **pipeline** – ring and descriptor queue are filled in two steps and drained
  by several threads into one buffer. Correct: each packet is handled once,
  whole, in order, by its type.
* **login and presence** – every handler is a chain of commands to Redis and
  MySQL, and clients leave and come back between any two of them; what a
  connection knows of its user outlives him. Correct: a token logs in once; who
  is welcomed is who the server takes him for; what friends were told last is
  true; nothing is left in Redis or in the directory that should not be.
* **notices across servers** – friends move while they are looked up, grouped
  and told. Correct: for each friend who is found, the server he is found on
  sends one packet, and only one. Whether the friend is the one who gets it is
  not for the code to promise at this commit (section 4).
* **heartbeat, start, stop** – a time to live against a period; commands that
  time out and are carried out nevertheless; threads that run before the tables
  are filled; joins that need a wake-up each. Correct: a live server stays
  listed, a dead one does not; nobody looks for what is not there; stop
  terminates, and closes what nobody uses any more.

`PROJECT.json` lists the hazards line by line, with the properties that cover
each of them or the reason why none does. Where the code goes wrong at the very
line of a hazard, a property that holds must leave that case out; the entry
then says what the property confines it to.

## 2. Plan

1. `ConnLifecycle` – connection core and overlapped pool. *Done.*
2. `SendQueue` – the send path at the grain of atomic operations. *Done.*
3. `BoundedFifo`, `CircularBuffer` – the ring and its abstract specification.
   *Done.*
4. `FriendDb` – MySQL manager. *Done.*
5. `PacketQueue`, `Pipeline` – `PushRedisPacket` and `RedisThread` over the
   abstract specification of the ring, and what they promise together. *Done.*
6. `Login` – token, login, logout, presence, directory on one server. *Done.*
   `Notify` – friends' notices across servers, with the subscriber. *Done.*
7. `Heartbeat` – the key with its time to live. *Done.*
8. `ServerLife` – `StartWork` with running threads, `ServerEnd` with pending
   completions. *Done.*
9. Theorems: every safety property the runs check, and both refinements. *Done.*
   Liveness stays with TLC (section 5).
10. `Reset` at the grain of its steps against `PushSendMsg` and `WorkThread` on
    the same `ConnUser`; this needs socket handles that Windows reuses.

## 3. The modules

**`ConnLifecycle`.** One action is one iteration of a thread's loop:
`PostAccept` (AccepterThread), `HandleDisconnect`, `HandleAccept`, `HandleRecv`,
`HandleSend` and `CrashOnEmptyPool` (WorkThread, by the branch it takes), and
`PushSendMsg`. `Kernel` holds the external steps: a client connects or goes
away, a transfer ends or fails. `ovl` holds the contents of every
`OverlappedEx`, because WorkThread reads `taskType` and `connObjNum` from the
object and not from the operation; the `acceptOvlap` member of connection `c`
is the object named `c`. A socket is `fresh`, `listening`, `connected` or
`gone`. `HandleSend` covers both SEND and NEWSEND, which differ only in how the
object is disposed of. NEWRECV is never assigned by the code, so its branch has
no action. The four history variables record what earlier steps did and guard
nothing: `strays` (an `acceptOvlap` has been returned to the pool), `late` (for
each connection, how many completions of a socket it had closed posted a receive
on its present one), `unread` (a re-post failed and was ignored), `lostSends`.
`late` and `lostSends` stop at the first stray, after which the properties that
use them promise nothing.

**`SendQueue`.** One connection, with a step for every atomic operation of
`PushSendMsg` (push, count, test), `SendComplete` (discount, test) and
`ProcSend` (pop, send). Messages are numbered in the order of the pushes. A send
is lost in two ways: WSASend refuses it, or the kernel takes it and its
completion is an error (`Fail`), for which WorkThread calls no `SendComplete`. In
both the counter keeps the message, since `Reset` does not touch it.

**`BoundedFifo`, `CircularBuffer`.** `CircularBuffer` has the arithmetic and
the two-piece copies of the code; each call holds the mutex throughout and is
one action. `BoundedFifo` says what callers may rely on. The refinement mapping
reads the contents from `readPos` on, `currentSize` bytes, modulo the size.

**`FriendDb`.** A thread's call goes through acquire, take, start, change,
commit and return. The SQL statements and the ROLLBACK paths in between are the
two outcomes of the step they belong to. Row locks, loss of a connection and
what a commit does are MySQL's, modelled from how the code uses them. `Init`
allows every table in which the two rows of a pair agree, and any number of
opened connections, because `OutGameLobbyServer::init` ignores the result of
the pool's `init`.

**`PacketQueue`, `Pipeline`.** One connection. A worker's call of
`PushRedisPacket` is `Write` (the ring, whose answer is ignored) and `Queue` (the
descriptor); a redis thread goes through `Pop`, `Clear` (the zeros copied over
the readData), `Read`, `Dispatch` (the table lookup, which calls through null
for an unknown id) and `Handle`. The ring is `INSTANCE BoundedFifo`, so what
`CircularBuffer` implements is what `Pipeline` uses. A byte is a pair of the
packet it belongs to and its place, which is enough to tell a whole packet from
two halves. `PacketQueue` is the promise: packets are handled in order, once,
whole. `Pipeline` implements it as long as no `Write` was refused (`dropped`) and
no two threads of a kind were inside at once (`raced`); what happens after that
is modelled too, with `EnoughBytes` holding on.

**`Login`.** `UserConnect` with `VerifyUserToken` and `NotifyFriendOnline`:
`Enter`, `Verify` (hget), `Delete` (del), `Friends` and `FriendsAgain` (the list
is read twice, the second time unchecked), `TellOnline`, `SetIds`, `Store`
(hset), `Arm` (expire), `Answer`. `UserDisConnect`: `Leave`, `TellOffline`,
`Forget` (the empty pipeline and `DelFriendPks`), `Erase` (`DelPkToObjNum`).
Each command may fail, and then either was carried out or not; an exception that
nothing catches ends the process (`Die`). The environment issues tokens,
connects, asks, leaves and lets keys fade. A call carries the client who caused
it beside the user the server takes him for, and the properties compare the two.
Histories: `uses` (how often each token was accepted), `crossed` (connections
left under a login), `disturbed` (users with a fault, a stale pk or overlapping
calls).

**`Notify`.** `Notice` reads the friend rows, `Locate` asks Redis where each
friend is and groups them by server, `Publish` sends one message to a server at
a time, and `Hear` is the subscriber with one target: it looks up his connection
and sends the packet there. The packet names no target, and for a pk that is not
in the directory the lookup inserts and returns connection 0; so `sent` records
to which connection each server sent the packet for each target, and nothing is
said of who reads it. `Subscribe` and
`Ends` are the subscription, which the first error other than a timeout ends for
good. `Accept`, `Look`, `AnswerFriend` are `ProcessFriendAccept`. The channel a
server subscribes to is arbitrary, since `serverType_` is never set. Two more
histories, `found` and `reach` of a notice, say on which server its sender found
whom, and which servers listened there at that moment.

**`Heartbeat`.** `Test`, `Answer`, `Fail` and `Wake` are the loop, `Execute` is
Redis. Time passes by `Tick`, which waits for what is due. A SET that failed for
the client may be carried out later (`ExecuteLate`), even after the process is
gone. The number of users, which nothing counts, is left out.

**`ServerLife`.** The main thread in `StartWork` (threads first, then queue and
table for each connection, without number 11, `Skipped`) and in `ServerEnd`
(flags, one wake-up per thread, joins, `Stop` of heartbeat and subscriber,
closing), against workers and accepters that run from the moment they are
created. What a completion does is reduced to whether its connection has an
object and whether its client stays; `ConnLifecycle` has the rest.

The `MC*` modules only name model values and the state constraints and
symmetries of TLC's runs; the definitions commented "mutant" are plausible bugs
that replace a definition of the model to show that each property can fail.

How the modules fit: `Pipeline` composes with the ring through `BoundedFifo`, and
`Login` starts where a packet is handled. `Login` publishes what `Notify`
delivers, and reads friends as `FriendDb` gives them. `ConnLifecycle` treats the
send path at the grain of handlers and `SendQueue` at the grain of its atomic
operations; `ServerLife` puts start and end around `ConnLifecycle` and relies on
`Heartbeat` for the end of its loop.

## 4. The runs

| run | asks | bounds |
|---|---|---|
| `conn_pair` | slots, receives, objects, counters and sessions of two connections | 2 pooled objects and 1 from the heap, accept queue up to 2 when a client connects, 3 counted messages, 2 operations per acceptOvlap |
| `conn_stray` | violation: only objects of the pool are returned to it | 1 connection, accept queue 3, otherwise as `conn_pair` |
| `send_queue` | where a message can be, what the counter means, how a send can fail to happen | 2 senders, 2 workers, 5 messages, 2 sends refused or failed |
| `send_stall` | violation: every pushed message is sent | 3 messages, none refused or failed |
| `circular_buffer` | the ring implements the bounded queue | 4 bytes of two values, calls of up to 5 bytes |
| `friend_db` | exclusive connections, mutual friendship, true answers, permits for connections, progress | 3 callers, 2 connections of which any number was opened and 1 may be lost, 1 pair of users |
| `friend_db_leak` | violation: a permit is always given back | as `friend_db` |
| `pipeline` | bytes against descriptors; the queue of packets | 2 workers, 2 redis threads, packets of 3 and 2 bytes of which one is registered, a ring of 5, 3 packets on their way |
| `login` | tokens, welcomes, notices, presence, directory | 2 users with a token each, 1 connection, 2 redis threads, 1 worker, 1 waiting packet, 1 logout owed, 1 fault |
| `notify` | a packet for each friend found, and one | 3 users, 2 servers with 2 connections, 1 thread, 1 notice, 2 moves, 1 fault |
| `heartbeat` | listed while it runs, gone when it stopped, how long Stop takes | the code's 5 s and 15 s, delays of 1 s, 1 failure in a row, 2 late commands |
| `server_life` | objects for connections, the order of the end, its termination | 2 workers, 1 accepter, 4 connections of which one is skipped, 3 completions |

Bounds are constants used in guards, so that no state is cut off after it was
reached; two runs have a state constraint besides.

* `conn_pair` (`PairOrAlone`): a state is expanded when it has at most one
  message and one operation on each `acceptOvlap`, or when one of the
  connections was never used beyond its first AcceptEx. The first half is where
  two connections meet in the pool and in `AcceptQueue`; the second is where one
  connection gets three messages, a queue it is in twice, and a heap object. What
  the constraint leaves out is two connections at once with long queues each,
  which meet nowhere but in the pool. All properties of this run are proved
  without the constraint, for any number of connections, objects and messages.
* `login` (`Narrow`): a state is expanded while one of the two tokens has not been
  issued, so that all logins are of one user, and after that when at most one
  thread is in a login. Left out are two logins under way when both users have
  tokens. All properties of this run are proved without the constraint, for any
  number of users, tokens, connections and threads.

The bounds are large enough for what is asked. Fewer objects than operations
make the pool run empty and the heap path taken. Three pending messages are one
more than the counter needs to get stuck. A call of five bytes on a ring of four
is refused even when the ring is empty, and every position of the seam is
reached. Three callers for two connections make one wait. Packets of different
length on a ring of five make a third one be refused and let a wrong length cut
a packet in two. One token verified by two threads, one fault at any command and
one client that leaves at any step are what the login's properties are about.
Two moves are a change of server, or a login with its entry in the directory. In
`heartbeat` a delay of 1 s and one failure leave the key two seconds of its
fifteen.
The wrap of the send counter above is out of reach and is excluded where it
matters (`StuckForGood`); the wrap below zero is reached.

What they show:

* An overlapped object from the pool or from `new` has exactly one owner at all
  times (`OverlappedOwned`), and this survives the defect of `conn_stray`: a
  failed accept puts `acceptOvlap`, which is part of a ConnUser, into the pool.
* Until that happens no slot is lost except by an ignored failure to re-post a
  receive (`SlotAccounted`), the send counter accounts for every message across
  sessions (`SendAccounting`), and a client's session ends only by its own
  doing, by a late completion of an earlier session, or on an empty pool
  (`LiveSessionKept`). A worker that meets a receive of a closed socket late posts
  a second one on the next client's socket; a socket has one receive and one for
  each of these, never more (`RecvsPerSocket`).
* On the send path no message is sent twice or forgotten by ProcSend
  (`EachOnce`), and as long as no send is refused or fails a single message is
  never left behind (`LoneMessageNeverStuck`); but two messages counted before
  either is tested leave the counter at two, and nobody sends (`send_stall`).
  From there the connection does not recover (`StuckForGood`). A send that is
  refused, or fails in the kernel, stays counted (`CounterExact`) and leads to the
  same state for the messages behind it. A message is lost in no other way: its
  own send is refused or fails, or the queue is stuck (`SentFailedOrStuck`).
* The ring is a bounded queue of bytes.
* Friendship stays mutual in every interleaving, also when a connection is lost.
  A success can be false only when the connection was lost before its COMMIT,
  whose result is ignored. Permits are given back if all connections were opened
  at start; otherwise callers that find the pool empty keep one each
  (`friend_db_leak`), one for every connection that is missing and no more
  (`PermitForEachLink`). So with one connection open somebody who waits always
  gets a permit (`SomeCallGetsOn`), though not every one in turn; with none, five
  calls leave all others waiting for ever.
* The pipeline is a queue of whole packets until a packet does not fit into the
  ring or two threads of a kind overlap (`ImplementsPacketQueue`); with one
  redis thread and one receiving worker per connection only the first can
  happen. Until a packet is dropped there are as many bytes as descriptors ask
  for, whoever overtakes whom (`EnoughBytes`), so the end of `ReadRecvData`
  without a value is not reached; after a drop it is.
* A token lets in one login for each redis thread, not one
  (`TokenSpentPerThread`). Whoever is welcomed is who the connection says, unless
  an earlier client left it during his login (`WelcomedIsWho`). What friends were
  told last is true and the directory keeps who is here, but for the disturbances
  the properties name (`ToldIsTrue`, `RegisteredStays`). A presence without a
  time to live is left behind only by a server that died between two commands
  (`BareIsTransient`).
* A server sends at most one packet of a notice for each target, and only for
  targets its sender found on the channel the server listens to
  (`OnceWhereFound`); unless a command failed, every server that listened to that
  channel when the friend was found does send it (`FoundAreServed`). That is all
  the code promises: two servers on one channel both send, and the packet goes to
  whatever connection is looked up.
* A server whose commands are answered in time is not dropped from the pool
  (`StaysListed`), `Stop` ends within one period and two commands
  (`StopIsBounded`), and a server that stopped or died is gone for good in the
  end, although a late SET may bring it back for a while (`GoneForGood`).
* Nobody meets a connection without an object except between the two statements
  of `StartWork` that queue it and enter it (`FindsUsers`); a client that gets
  through that gap ends the process. `ServerEnd` returns, since it posts a wake-up
  for accepters too (`ServerEndReturns`), and closes its handles last
  (`ClosedAfterThreads`).

Divergences met on the way, which are part of the models but have no violating
run of their own: "delete right after the verification" (`RedisManager.cpp:110`)
leaves room for a second login; `action` of a friend's answer (`Packet.h:53`) is
never read, so a refusal accepts; the message for the other user in
`ProcessFriendAccept` is built and never published; the offline notice goes to
rows of every status, requests included (`RedisManager.cpp:225` says friends);
presence lives 300 s and is never renewed; `serverType_` is read uninitialised;
`SetPkToObjNum` has no caller, so every friend is unknown to the directory and
his packet, which names nobody, goes to whoever is on connection 0; one Redis
error ends the subscription; the server stays listed until all threads
are joined; a connection keeps the `userPk` of its last user.

### Fairness

`SendQueue`: weak fairness of every thread inside PushSendMsg or SendComplete (a
thread that has entered runs until it returns: none of the steps blocks) and of
the dequeuing of completions (workers loop on GetQueuedCompletionStatus). No
fairness on pushing: nobody is obliged to send. `FriendDb`: weak fairness of a
caller that has its permit, and weak fairness of the semaphore as a whole: while
there are permits and waiters, some waiter gets one. Nothing is assumed of which
one, since `std::counting_semaphore` promises no fairness among waiters; a
single caller may wait for ever, and `SomeCallGetsOn` does not say otherwise.
`Notify`: weak fairness of the steps inside a handler, of the subscription and
of the subscriber's loop; users, notices and faults owe nothing. `Heartbeat`:
weak fairness of the loop, of Redis and of time; `Tick` cannot pass over a step
that is due, which is what a sleep and a command's timeout mean. `ServerLife`:
weak fairness of the main thread within StartWork and within ServerEnd once it
began, of the two side threads' ends, and of each worker and accepter; no client
has to come and nobody has to call ServerEnd. The other specifications claim no
liveness and have no fairness.

Deadlock is not checked: bounded inputs end, a crashed process stops, and with
no connection opened the callers of MySQL really do wait for ever.

## 5. The proofs

All theorems hold for every value of the constants allowed by the named
assumptions: `ConnAssumption`, `SendAssumption`, `BufferAssumption` (at least
one connection and disjoint names for the objects; finite, disjoint sets of
threads; a ring of at least one byte), `HeartbeatAssumption` (natural numbers, a
time to live above zero), `LoginAssumption` (tokens have owners, threads of the
two kinds are disjoint, redis threads are finitely many), `LifeAssumption`
(likewise, and a wake-up is not a connection), `DbAssumption` (finitely many
connections and callers, requests that name users) and `NotifyAssumption`
(threads belong to servers, connection 0 exists, the number of notices is
bounded) and `PipelineAssumption` (a packet has at least one byte and no more
than readData, workers are no redis threads).

* `CircularBufferProofs`: type correctness; `PositionsAgree`; and `Refinement`,
  that the ring implements `BoundedFifo`. The inductive invariant is `TypeOK`
  with `PositionsAgree`: without the latter a write could overwrite bytes not
  read yet. The work is in arithmetic lemmas about positions modulo the size,
  one for each side of the seam, from which each call maps to the abstract call.
* `SendQueueProofs`: type correctness, strengthened by "a thread about to call
  WSASend holds a message"; `StaysStuck`, that from a stuck state every step
  leads to a stuck state until the counter wraps: no running thread can be
  beyond its test, and a test of a counter above one sends nothing.
  `MessagesOnce` is `EachOnce` for any number of threads, by `Places`: a message
  is in at most one place of each kind (`Single`), and in exactly one kind of
  place (`Placed`), from which the cardinalities of `EachOnce` follow.
  `CounterIsExact` strengthens `CounterExact` by the balance of every message
  pushed (`Counted`), over `NumberMoves`, how the threads at each step change when
  one goes on, and `Arithmetic`, the counter modulo its width.
  `LoneMessageIsSeen`, which speaks of runs in which no send failed yet, adds
  `Watched`: while the counter is one and a message waits, a thread is still
  running or a send is in the kernel; at rest a queue of one message makes the
  counter one (`AtRest`).
* `ConnLifecycleProofs`, in three parts. *Types*: one lemma for each action, over
  lemmas on what `RecvResults` and `AfterCount` return. *Ownership*:
  `OwnershipHolds`, the safety of the overlapped objects. The invariant
  `OverlappedOwned` is not inductive: WorkThread chooses between `delete` and the
  pool by `taskType`, so the proof must know that heap objects in use, and only
  those, are marked NEWSEND (`Marked`), and that a heap object not in use is in no
  queue and no operation (`Loose`). `Owned` adds the set of objects in the hands of
  the handler, so that each elementary move (take, allocate, post, push, pop,
  finish, return, close) is a lemma about one object, and each handler is a chain
  of moves that ends with empty hands. *Sessions*: `NoSlotIsLost`,
  `ReceivesAreCounted`, `SendsAreCounted` and the action property
  `LiveSessionIsKept`. WorkThread knows what a completion means only from the
  object, so everything rests on `Matched`: while nothing strayed, the contents of
  an object are those of the operation or queue it is in. `Sessions` relates
  operations to sockets (an operation on a closed socket is stale, one AcceptEx
  listens at a time); `InLine` bounds the operations on the present socket that
  are not sends, an accept included, by one and one for each late receive;
  `Slots` is `SlotAccounted` connection by connection; `Counted` is
  `SendAccounting` with the objects of the sends for the sends, which ownership
  keeps distinct.
* `LoginProofs`: type correctness; `TokensAreSpent`, by `Spending`: a token that
  was used is gone, so nobody new comes between its hget and its del, and its
  uses and the threads between the two are together no more than the redis
  threads. The count of threads is handled by lemmas on the cardinality of a set
  that one thread enters or leaves. The second part is about sessions:
  `WelcomedAreWho`, by `Belongs` (a call on a connection nobody left during a
  login has the client that is there) and `Progress` (what a login has done by
  each step); `DirectoryKeepsSessions`, by `LeaveAlone` (a logout about an
  undisturbed user is of a client that has no session); `BareKeysAreArmed`; and
  `FriendsKnow`, the truth of what friends were told. `ToldIsTrue` speaks only
  of users about whom nothing is under way, so its invariant `Faithful` says
  what holds in between: an announcement is of a session, or a thread is at it,
  or a logout is owed (`Announced`); a user who is not disturbed is still where
  he asked (`Remains`); one thread at a time is at his login and announces him
  before it answers (`InOrder`).
* `ServerLifeProofs`: `UsersAreFound`, by `Present`, which follows a connection
  through queue, AcceptEx, completion and client; `ClosedLast`, by `Over`, what
  has ended by the time the main thread has come so far. The heartbeat, which
  lives as long as the server, is here too (the module extends Heartbeat as well,
  whose names for this reason begin with HB where ServerLife has the same ones):
  `HBTypeCorrect`; `HealthyStaysListed`, by the invariant `Left`, that the key's
  remaining life and the time that can have passed since it was written (a period
  for each failure, and what the loop spent where it is) make up a full life; and
  `StopBounded`, by `Stopping`, where the seconds since Stop can have been spent.
  The first of these two holds for every interval, time to live and delay that
  satisfy `Healthy`; with the code's 5 s and 15 s this allows one failure in a row
  at a delay of one second, and none with the timeout of 10 s the code sets.
* `FriendDbProofs`: all safety properties of the MySQL manager. `LinkIsOwned`
  and `PermitsAreGood` need the pool's connections to be distinct (`PoolOnce`),
  those in use to be outside it (`Outside`) and with one caller (`OneUser`), and
  the balance of permits: with a full pool, the free permits and the callers
  between permit and connection are together the length of `dbPool` (`Permits`),
  which is how two counters that are changed apart agree. With connections
  missing they are no fewer (`Reach`), which is `PermitsReachLinks`; `Moves`
  lists how both sums can change with one caller's step. `FriendshipIsMutual`
  and `SuccessIsApplied` rest on the locks (`LocksOK`): a transaction about to
  commit holds both rows of its pair, they are there, and nobody else holds
  them, unless its connection is lost and it holds none.
* `NotifyProofs`: type correctness and `EachTargetOnce`. That a server sent at
  most one packet says nothing of what is under way, so `OnePlace` follows a
  notice for a target, seen from one server: his message has not come there, or
  he is in one message of its inbox, or his packet was sent, and in no two of
  these; and while the thread has still to locate him, or to publish his group,
  nothing for him has come to any server. `Numbered` says that a notice has one
  sender and that a new one has a number nothing carries yet. A target is in one
  group because he is looked up once, wherever he moves afterwards. No
  assumption is needed on the channels: two servers on one channel each send
  once. Steps that send nothing (`Calm`) are dealt with once.
* `PipelineProofs`: type correctness; `BytesSuffice`; and `Refinement`, that the
  pipeline implements `PacketQueue`. A sum over a queue is not a fold here, which
  would need induction, but a function `ends` that says where each packet of the
  queue ends (`Laid`); the work is in what becomes of it when a packet is added
  (`LaidMore`) or taken out (`LaidWithout`), wherever it stands. `Owed`, the
  invariant of `BytesSuffice`, says that the bytes in the ring are those of the
  queued descriptors (`Sums`) and of the threads between ring and queue (`Hands`),
  in whichever order these are listed; so a read finds its bytes (`ReadFinds`).
  `InOrder`, the invariant of `Refinement`, says more while nothing was dropped and
  nothing overlapped: the ring holds the very bytes of the packet to be read first,
  those queued and the one just written, one after the other (`Written`), and what
  a thread has read is the packet whose descriptor it holds (`Whole`), which is
  registered once its handler was found. The packet in hand of the redis thread is
  then the head of the abstract queue, so a dispatch that finds no handler and the
  handler's end are the two ways of `PacketQueue!Handle`, the ring's write is
  `Receive`, and all other steps only move a packet from hand to hand.

Only model-checked are:

* liveness (`SentFailedOrStuck`, `SomeCallGetsOn`, `FoundAreServed`,
  `GoneForGood`, `ServerEndReturns`), which is out of the prover's reach;
* the violations, which are shown by TLC's counterexamples.

## 6. What is not modelled

* Bytes of packets, wording, logging, sizes of buffers, addresses and ports, the
  parsing of a published message.
* `LobbyHeartbeat`'s count of users, `ConnUser::AddFriend` and `RemoveFriend`
  (which write to a set nothing reads), `CircularBuffer::DataSize`: no code calls
  them.
* Failures of `OutGameLobbyServer::init` before a thread exists, the connections
  to Redis in `RedisRun` and in the subscriber, and what the destructors of
  static objects do: the program is then not serving anybody.
* The subscriber's three other handlers, which only log.
* Socket handles. `ConnLifecycle` takes `Reset` as one step; a worker inside
  `Reset` while another thread sends over the same ConnUser, and a handle that
  Windows gives out again, are not seen.
* Interleavings inside one iteration of WorkThread, other than those of the
  send path, and of one handler's steps with the same connection's receives.
* `NEWRECV`, which no code assigns.
* Packet layouts, user types and project files: nothing in them changes state.
