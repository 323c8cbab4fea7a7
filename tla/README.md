# BGS: a TLA+ verification project

BGS is a small social network: a Java server (`src/Server`), a C++ client
(`src/client`), and a binary protocol of ten requests (REGISTER, LOGIN, LOGOUT,
FOLLOW/UNFOLLOW, POST, PM, LOGSTAT, STAT, BLOCK) between them.  This directory holds
TLA+ models of it, the TLC runs that check them and proofs of all the safety
properties that hold.  Java paths below are relative to
`src/Server/src/main/java/bgu/spl/net/`, C++ paths to `src/client/`.

## 1. Inventory

### Components, their state and their operations

| Component | Source | State | Operations | Status |
|---|---|---|---|---|
| Message handlers | `api/BidiMessagingProtocolImpl.java`, `api/User.java`, `api/ConnectionsImpl.java` | `UsersMap`, `ActiveUsersMap` (of the one `ConnectionsImpl`), the fields of each `User` | `process`: the ten requests; `send`; `disconnect`, `broadcast` (empty bodies) | modelled, `BidiMessagingProtocol` |
| Actor thread pool | `srv/ActorThreadPool.java` | `acts`, `playingNow`, the executor's queue, the read-write lock `actsRWLock` | `submit`, `execute`, `complete`, `shutdown` | modelled, `ActorThreadPool`, `SerialActors` |
| Reactor and its connections | `srv/Reactor.java`, `srv/NonBlockingConnectionHandler.java` | the selector's keys, `selectorTasks`, per connection `writeQueue` and decoder | accept, read, write, `updateInterestedOps`, `send`, `close` | modelled, `Reactor` |
| Thread-per-client server | `srv/BaseServer.java`, `api/ConnectionHandlerImpl.java` | `connectionId`, the socket's streams | accept, `run`, `send` | modelled, `ThreadPerClient` |
| Server framing | `api/MessageEncoderDecoderImpl.java` | bytes read so far | `decodeNextByte`, `encode` | modelled, `Framing` |
| Client connection handler | `src/connectionHandler.cpp` | the socket, `logoutSent`, `logoutFailed`, `terminate` | encode a line, decode an answer | modelled, `Framing` and `Client` |
| Client threads | `src/client.cpp`, `src/readFromKeyboardThread.cpp`, `src/readFromSocketThread.cpp` | the flags above, shared | two loops | modelled, `Client` |
| Server mains | `impl/BGSServer/*.java` | none | pick a server, its port and its 3 threads | not modelled: the thread count is a constant |
| `BlockingConnectionHandler`, `MessagingProtocol`, interfaces | `srv/`, `api/` | | | not modelled: no server uses them, or they hold no code |
| Echo and remote-command samples | `impl/echo`, `impl/rci` | | | not modelled: course samples, unused by BGS |
| `echoClient.cpp`, `cmake-build-debug`, `target` | | | | not modelled: commented out, or generated |

### How they interact

A client's keyboard thread encodes a line and writes it to the socket; its socket
thread decodes and prints answers; the two meet in three plain `bool` fields of
the connection handler.  On the server a connection's bytes are decoded, and each
complete message is passed to `process` of the connection's own protocol object,
either by the connection's thread (`BaseServer`) or by a pool thread that runs the
connection's tasks one at a time (`Reactor`, through `ActorThreadPool`).  `process`
reads and writes the two maps of the one `ConnectionsImpl` and the `User` objects, shared by all
connections, and answers through `ConnectionsImpl.send`, which finds the handler
of a connection id and calls its `send`.

### What is hard here

* **Unlocked check-then-act.**  The maps are concurrent, the queues are
  concurrent, but no handler takes a lock: each looks at the maps, decides, and
  then acts in several further steps.  Every request is exposed.
* **Identity by connection id.**  The sender of a message is the first entry of
  `ActiveUsersMap` whose user has the connection's id.  The map is keyed by the text
  typed at LOGIN, which is matched by `String.contains`, and LOGOUT removes nothing
  from it (it passes a `User` where the keys are `String`s).
* **The monitor of `ActorThreadPool`,** which must neither run two tasks of one
  connection at once nor forget a queued task.
* **The selector thread against the pool threads,** closing against sending,
  interest sets set from two threads, partial and failed writes (`Reactor`).
* **Client flags** read and written by two threads, `cin` and the socket failing under them.
* **Streams** of one client written by the threads of others, which block when it
  stops reading (`ThreadPerClient`).
* **Framing by delimiter** one way and by fields the other way: bytes too many or too few
  put the decoder out of step.

### What makes each component correct

* Handlers: an account is not replaced for ever; a session told to the client is
  backed by the server's state; posts are neither lost nor sent to strangers nor sent
  more often than they are due; a blocked user stops following; the published counter is
  not too small.
* Pool: the tasks of one actor run one at a time, in the order submitted, all of them.
* Reactor: clients are answered in order and in the end; an interest in writing
  or a wakeup is never lost; one client's end is not the server's.
* Thread-per-client server: messages on one stream do not mix.
* Framing: what one side encodes the other decodes.
* Client: it terminates after an acknowledged LOGOUT and goes on after a refused one.

`PROJECT.json` lists, under "hazards", the lines where these bite and the
properties that watch them.

## 2. Modules

| Module | Role |
|---|---|
| `BidiMessagingProtocol` | the handlers, the maps, the users; properties |
| `MCBidiMessagingProtocol` | names, containment, map order, texts and constraints for TLC |
| `BidiMessagingProtocolProofs` | proved: its types, the accounts, the graph of followers, one thread |
| `BidiMessagingDeliveryProofs` | proved: sessions, posts and private messages; builds on the former |
| `BidiMessagingCountProofs` | proved: the published counter of followed users; builds on the former two |
| `SetSums` | lemmas: sums over finite sets, and induction over numbers and finite sets |
| `SerialActors` | what the pool promises: one task of an actor at a time, in order, each eventually |
| `ActorThreadPool` | `submit`, `complete`, `execute`, `shutdown` step by step; refines `SerialActors` |
| `ActorThreadPoolProofs` | proved: its monitor, that no task is forgotten, the refinement |
| `Reactor` | the selector thread, its connections and the pool's threads; uses `SerialActors` |
| `ReactorProofs` | proved: every safety property of `Reactor` |
| `MCReactor` | numbers of requests, which of them have no answer and which throw, for TLC |
| `Framing` | the bytes of requests and answers, as both sides write and read them |
| `Client` | `main`, keyboard thread, socket thread and flags of any number of clients |
| `ThreadPerClient` | `BaseServer` with a `ConnectionHandlerImpl` thread for each client |
| `ClientServer` | composes `Client` and `ThreadPerClient` over their sockets; properties |
| `FramingProofs` | proved: a line is read as it was meant; lemmas on streams that are read while they are written |
| `ClientServerProofs` | proved: every safety property of `ClientServer` that holds |
| `MCClientServer` | the lines that users type, for TLC |

### `BidiMessagingProtocol` and the code

*State.* `usersMap[n]` counts the `User` objects ever put under `n`; a `User` is
identified by its name and its place in that count, since a second `put` replaces
the first object while others may still hold it.  `activeUsersMap`, `isActivated`,
`connId`, `followers`, `following`, `blockingUsers` and `awaitingPosts` are the fields of
the same names.  `followers` is, as in the code, the queue of users one *follows*;
only its content matters, so it is a bag.  `handler[c]` holds the local variables of the
handler that runs for connection `c`, with the step it is at; of a POST that is the record
`Post`, in which `otherUsers` is a bag too, as a user is in that queue once for each tag that matches.
`frames` is what the last step sent.  `wrapped`, `stale`, `session` and `pushed`, and `free` and `due` of a POST, are
history: no action reads them to decide anything.

*Steps.* A request is a scan (`RegisterScan`, `LoginScan`, ...), which reads the maps and
chooses a branch, followed by one action for each write other handlers can come
between: `RegisterPut`; `LoginActivate`, `LoginSetConn`, `LoginAck`, `LoginDrain`, `LoginSend`;
`LogoutDeactivate`; `FollowAdd` or `UnfollowRemove`, `FollowCount`; `PostVisit`, `PostDeliver`, `PostSend`;
`PmCut`, `PmSend`; `BlockAdd`, `BlockDrop`.  Where a handler sends to another user, `getConnId` and the send are two
steps (`LoginDrain`/`LoginSend`, `PostDeliver`/`PostSend`, `PmCut`/`PmSend`): the user may log out and in elsewhere
between them.  LOGSTAT and STAT only read and are one step.
Every early return and missing answer (FOLLOW of a deactivated user) is a disjunct, and so is every exception that
comes after a change or an answer or whose request is otherwise complete: STAT's cast, PM's `substring` (`PmCut`), the year LOGSTAT
parses, after the answers for the users before (`Logstat`).  A handler that throws while it takes its message apart
has changed and sent nothing: it is a request that does not happen.

*Names.* `Contains` is an arbitrary reflexive relation between names: it stands for
`String.contains`.  `FirstOf` and `LastOf` give the entry a map iteration meets first
and last.  In the runs they are the order in which `ConcurrentHashMap` really iterates over
`royi`, `carmela` and `roy` (bins 8, 9 and 13 of 16).

*Races.* Before each step that acts on a check, `CheckHolds` evaluates that check again; if
it no longer holds, the step, with the users concerned, is added to `stale`.  The
properties of section 3 name the steps that may break them, by `Raced(...)`; everything
else is ruled out.  `SerialHandlers` says that with one thread `stale` remains empty.

*Numbers.* `following` is a `Short`: it stays within `ShortRange` and begins again at the other end (`Short`), with
`MaxShort` for 32767.

*Abstractions.* Passwords and captcha become one flag `valid`.  The text of a message becomes the
set of names it contains, and that of a POST the sequence of its tags.  The reading of the two maps in a scan is one step, although Java's
iterators are only weakly consistent.  Not modelled: `howMuchPostIPost` (never read), filtered
words, ages.  The `User` fields are not volatile; they are modelled as sequentially
consistent.  LOGIN's `put` and `activate`, adjacent statements, are one step, and so
are BLOCK's two removals, and a loop turn of POST that finds nobody.

### `ActorThreadPool` and the code

Threads of the pool and the submitting selector thread are separate; the actor's monitor
is a variable, entered and left by explicit steps; `playingNow`, the pending queue and the
executor's queue are as in the code.  The executor itself is external: it
takes the tasks in order with a fixed number of workers and, after `shutdown`, rejects new
ones.  A run may therefore stop after shutdown, so that deadlock is not checked there.

### `Reactor` and the code

One thread runs `serve`: `Select` takes the keys that are ready, `RunTask` runs the interest
changes queued by other threads, then each selected key is accepted (`Accept`), read (`Read`,
`ReadEnd`) and, if it was selected for it, written: each turn of `continueWrite` is `WritePart`
(returns), `WriteWhole` (goes on) or `WriteFails` (goes on as well); `WriteDone`, `TestEmpty` and
`ReadsOnly` are its two tests of the queue and the call of `updateInterestedOps`.
`send` on a pool thread is three steps: the queue, the selector task, the wakeup.
`loop` and `worker` are the local variables of these threads; the other variables are the
fields of the same names.  `written` is a history of what was written to its end.

*Composition.* The pool is `SerialActors`: `Read` is its `Submit`, a task is its `Start` and `Finish`, a failed
`accept` its `Shutdown`.  `ActorThreadPool` is shown to implement that module, which allows more
threads at once than the pool has.

*Abstractions.* A message is the request it is about, in `Size` pieces of which a socket holds
`Window`.  A read returns any number of the requests that have arrived; bytes of an unfinished
request would only wait in the decoder.  `process` sends any list of at most `MaxSends` messages to known connections
(`SendLists`): one to the asker is among them, unless the request is one that has no answer (`Silent`: a FOLLOW by a user
logged out, a LOGSTAT when nobody is entered) or one whose handler throws (`Bad`), after any of its sends or before.  That covers
a LOGIN whose kept posts follow its ACK and a LOGSTAT with an answer for each user.  Which list a request has is
`BidiMessagingProtocol`'s subject.  Not modelled: the pool of read buffers; `Reactor.close`, which
`ReactorMain` calls only after `serve`; `shouldTerminate`, which is always false.  The test `isValid`
in `serve` never fails, since only the selector thread cancels keys and only the one it handles.

### `Framing`, `Client` and `ThreadPerClient` and the code

*Framing.* A byte is a number, a message a sequence of them.  `Encoder` and `BytesToShort` are the client's,
`Encode`, `ShortToBytes` and the `;` of `decodeNextByte` the server's; `ReadRequest` is how each
branch of `process` takes a message apart, and `Malformed` where it throws in doing so.
`Meant` says what the user asked for, by the commands' formats, and is what `RequestsAsTyped` compares with.
`encode` returns the whole 65536-byte array for a table of LOGSTAT, of which 13 bytes are filled: two
zeros stand for the rest, since the client stops at the first two.

*Client.* `keyboard` and `reader` are where the two threads are in their loops, `terminate`,
`logoutSent`, `logoutFailed` the flags they share, `process` how the program goes on or ended, `stdin` the
state of `cin`.  `SendLine` is the body of the keyboard loop after `getline`: encode, note a LOGOUT, send, and wait if
the line is exactly `LOGOUT`.  The decoder goes field by field (`DecodeOpcode`, `DecodeAck`, `DecodeError`,
`DecodeBytes`, `DecodeFrame`, `PrintAnswer`); each of its reads may fail (`ReadFails`, `FrameRepeats`,
`FrameOfNothing`).  A decoder that gives up returns `NULL` for a `std::string`, which throws, and the program
aborts (`process` is then `misread` or `cutOff`).  `ch` in `getFrameAscii` is read uninitialised when the first
read fails: it may be a NUL or anything else, so both follow.

*ThreadPerClient.* `thread[c]` is where the thread of a connection is in `run`, with what its `process` has still to send;
`out[c]` is the buffer of the connection's stream, which any thread may write (`SendWrite`) and flush
(`SendFlush`) in two steps; what exceeds the buffer goes past it (`SendLarge`).  A flush waits while the socket is full.  An exception of `process`
leaves `run` and ends the thread (`ProcessThrows`), for LOGSTAT also after tables of other users were sent (`LogstatThrows`).

*Composition.* `ClientServer` instantiates both modules on the same `link`, `toServer`, `toClient`; a step is
one of a client or of the server, or the loss of a connection.

*Abstractions.* A read takes a field when all of it has arrived; that a connection may end
within it is a case of its own.  A thread's steps end where another could notice: typing, encoding and
sending a line are one step; so are `process` returning and its last send; the socket thread, which alone sets
`terminate`, tests it in the step that prints.  `process` is represented by the answers it has for a request and the ids it may
notify (`Sends`): one notification stands for those of a POST or a LOGIN, up to two
answers for those of a LOGSTAT, and which users exist is `BidiMessagingProtocol`'s subject.  An id once a user's `connId`
remains a target.  Of the end of an unfinished request the server makes nothing, so a lost
connection leaves whole requests.  The flags are plain bools, written and read by different threads: the makefile sets
no optimisation, and each test calls a function of another file, so that it reads the flag again.  What is printed for an ACK
may hold more than the two characters of its opcode, since `ackDecoder` appends an array without a NUL as a C string: `printed` holds the answers as they were
*decoded*, on which the flags depend, and the properties speak of those.  `getFrameAscii`
on a cut connection ends only when memory does; that is left out.  Clients connect in the order of
their ids.

## 3. Runs

| Run | Asks | Bounds |
|---|---|---|
| `accounts` | `SessionBacked`, `SessionIsIndexed`, `RegistrationsBounded`: is what a client was told at LOGIN what the server holds? | 2 clients, 3 names of which `royi` contains `roy`, 2 threads; 1 stale step |
| `graph` | `TypeOK`, `BlockedNotFollowed`, `FollowingCounted` | 2 clients, 2 users, a Short of -3..2; 1 stale step, accounts not replaced |
| `delivery` | `PostsPushed`, `AddressedAsDue` | 2 clients, 2 users; 1 POST, with no tag, one, or the same one twice, against LOGIN, LOGOUT, FOLLOW of its addressees; 1 stale step |
| `moves` | `PushInSession`, `PmInSession` | 3 clients, 2 users, 2 threads; 1 POST, and PMs; only the checks of a POST and a PM go stale |
| `serial` | `SerialHandlers`: all ten requests with one thread | 2 clients, 2 names, 1 post |
| `actor_pool` | `TypeOK`, `PendingIsServed`, refinement of `SerialActors` with its fairness | as in its cfg |
| `selector` | `TypeOK`, `WriteInterestKept`, `TasksWakeSelector`, `MessagesWhole`, `ServeEndsByLeaving` | 2 clients, of two requests and of one, which notify each other and leave at any time; a handler sends at most one message, that of the first request throws; messages of 2 pieces, sockets of 1 |
| `answers` | `RepliesInOrder`, `RequestsAnswered` under fairness | 1 client that asks three times, in any buffers: the first request has no answer, the second throws after up to two, the third has one or two; messages of 2 pieces, sockets of 3 |
| `second_user` | a violation: `SessionActs` | 2 users, 1 client |
| `client` | `TypeOK`, `RequestsAsTyped`, `AnsweredOnce`, `MisreadAfterTable`, `LogoutIsLast`, `LogoutExits` under fairness | 1 client; one of 14 lines, a LOGOUT, a POST; a socket of 4 bytes; connection, input and `accept` may fail at any time |
| `clients` | `AnswersAsSent`, `StreamsOpen`, `LogoutIsAnswered` under fairness | 2 clients: LOGIN, then LOGOUT or LOGSTAT; PM; sockets of 2 bytes; no faults but `accept`'s |
| `lost_connection` | a violation: `CutFrameFails` | 1 client that is notified of its own post |

**Bounds.** The races are between two handlers, so two threads show them, and two connections, but for one: that a user logs out
and in elsewhere while a third client's handler holds its connection id takes three, which `moves` has.  `MaxSerial` only
bounds the set `User`: it is at least `NThreads`, and the theorem `Registrations` shows
no more are put.  `MaxPosts` limits accepted POSTs, and `MaxShort` makes the range of the counter small enough to be left:
in `graph` by three FOLLOWs, of which one follows a BLOCK.  The constraint `MCFewStale`
stops a behaviour after one kind of outdated step: beyond it the
exceptions of the properties mostly apply.  `MCSendStale` leaves `moves` only behaviours in which nothing but a POST or a PM was outdated.
`MCOneAccount` keeps replaced accounts out of
`graph`, `delivery` and `moves`; `accounts` has them.  Connections are interchangeable, so
the runs of the handlers use symmetry; the liveness runs do not.  The theorems of section 4 have none of these bounds.

**Fairness.** The handlers of `BidiMessagingProtocol` have none, and no liveness property: a handler's sends may block on a full socket, which
that module does not have, and LOGIN's loop over a queue that POSTs keep filling need not end.  The pool's
fairness is on each worker and on the submitting thread, as the JVM schedules them;
for entering a monitor see the module.  In `Reactor` the selector thread and each running task
go on, and a connected client goes on reading its socket; nothing makes it ask or leave.

In `Reactor` the interleavings are between the selector thread and one or two tasks, and a
connection matters to another one only as the target of its notifications: two clients
show both, in `selector`.  Whether a client is answered does not depend on the other: `answers` has one, and three
requests, for a buffer before, with and after the one that throws, with two messages for one request.  Two pieces per message are enough
for a message to be written in part.  The deadlock check is off: all
clients may leave, and `serve` may end.

The 14 lines of `client` are every command well-formed and the ones that could put the two sides out of step: a `LOGOUT` with a
blank, a `;` in a text with what the server takes for a LOGOUT after it, a PM without a text, a REGISTER without a password, an unknown word.  Three lines are what a stale `logoutFailed`
needs: a LOGOUT nobody waited for, one that is waited for, and a line after it.  `Window` is smaller than any
notification, so that a flush to a client that does not read always blocks before the second message.  `clients`
has two threads for one stream, and no more can meet in it in another way.  Deadlock checks are off in both:
users stop typing and clients leave.

`LogoutExits` needs its `Undivided`: after the line `POST a;03` the server acknowledges a LOGOUT that the keyboard thread does not know of, the socket
thread sets `terminate` and ends, and the keyboard thread stays in `getline` until the user types another line.

**Fairness of `ClientServer`.**  The accepting thread, each handler thread and both threads of each client go on while they can; where one
thread ends another takes over (the thread after its accept, `main` after the keyboard thread), and the condition is on the
two together.  Nothing makes a user type, a connection fail, or `accept` fail.

**Violations.**  `second_user` states what `readme` promises of a sequence of requests and needs no race:
after a LOGOUT the entry of `ActiveUsersMap` and the connection id stay; once a
second user is logged in on that client, the handlers still act for the first.
`lost_connection`: `connectionHandler.h:43-44` promises that `getFrameAscii` returns false when the connection is
closed before the NUL; it ignores `getBytes` and goes on, with the last byte again and again or with the
uninitialised one.

**What the passing runs show.** A racing REGISTER replaces an account, but at most
`NThreads` objects are ever put under one name.  LOGIN takes the first user whose
name contains the one typed, so that `LOGIN roy` may be checked against `royi`, here as in the code.  A session is backed unless a LOGIN or
LOGOUT of that very user was outdated.  A blocked user remains a follower only
through an outdated FOLLOW.  The counter `following` drifts upward with every BLOCK
(nothing decrements it) but is never too small except after a lost update, a racing UNFOLLOW or having left the range of a `Short`.
A user whom two tags of a POST match is sent it twice, unless it follows the author: that is what the code does, and `AddressedAsDue` says that nothing but a
FOLLOW in between adds to it.
The reactor loses neither interest nor wakeup although the two are set without a lock, and
it sends in the order of the requests, and answers every request that has an answer, with two exceptions that its properties name.  `ServeEndsByLeaving`: a client
that disconnects before its answer is queued ends `serve` for everyone, since the interest change then throws on
the selector thread (and the pool is not shut down).  `Stuck`, in `RequestsAnswered`: after an IOException
`continueWrite` goes round again with the same message and the channel closed, for ever.  An exception of `process` costs
the rest of its buffer, no more.
A post may be queued for a user who has just logged in, and is then delayed until the
next LOGIN; no other way of missing one exists.  A PM to a user logged in reaches its session, unless the user moved after `getConnId`; one to a user logged out goes to
the connection it last used, whoever is there now.  `PmInSession` does not speak of the latter, nor `SessionIsIndexed` of names that overlap, nor `LogoutIsLast` of
a LOGOUT with a blank: these are listed as hazards without a property.

Requests arrive as typed while nobody types a `;`.  Messages of several threads never mix on a stream, since
`write` is atomic and the buffer keeps their order, though one thread may flush for another.  The zeros after a LOGSTAT table
make the client abort, and nothing else does while the connection holds.  `out` is never null when it is
written, because only a connection that has processed a LOGIN is a target: the mutant that notifies everybody
connected breaks it.  LOGOUT is the last line and ends the program, if no LOGOUT was typed with a blank after it: that one is
not waited for, and its refusal is taken for the answer to the next.  The keyboard thread waits for ever in one more case
(`Deaf`): a client that has stopped reading but not closed its socket stops every handler thread that writes to it.

## 4. Proofs

A theorem here holds for every value of the constants: any numbers of clients, threads, names, actors,
requests, any containment of names, lines and texts of any length, and any bound of the runs.  What is used of the constants
are the named `ASSUME`s of the modules, nothing else: `Conn` is finite, `Contains` reflexive, map
iteration returns an entry of the map, a `User`'s serial number has room for `NThreads` registrations
(`BidiMessagingProtocol`); submitters and workers are different threads (`ActorThreadPool`); numbers of
requests and sizes are natural (`Reactor`); connections are numbered from 0, and what users type is ASCII without NUL, with a
blank between the word and the rest (`ClientServer`: `cin` and `std::string` could hold other characters, but the server converts from UTF-8
and back, which is not modelled).  One theorem has a hypothesis of its own: `Counting`, that there are finitely many names,
without which the sum it speaks of means nothing.

Each invariant below was checked by TLC on the configurations of the runs as well.  Hardly a property
of the runs is inductive as it stands; the invariant that is, and why it is needed, follows each table.

### `BidiMessagingProtocolProofs`

| Theorem | Statement | Rests on |
|---|---|---|
| `Invariance` | `Spec => []IInv` | the inductive invariant `IInv` |
| `Typing` | `Spec => []TypeOK` | `IInv` |
| `Registrations` | `Spec => []RegistrationsBounded` | `IInv` |
| `BlockEndsFollowing` | `Spec => []BlockedNotFollowed` | `GraphInv`, `Typing` |
| `OneThread` | `Spec => []SerialHandlers` | `SerialInv`, `Invariance` |

* `TypeOK` alone is not inductive, in three places.  A `User`'s serial number stays
  within `1..MaxSerial` only because racing REGISTERs are limited: `RegisterInv` counts, for
  each name, the objects put *plus* the handlers that have scanned and will put one; a scan
  finds the name free only while the count is zero, and the handlers waiting to put are among
  the at most `NThreads` busy ones.  LOGIN reads `awaitingPosts[u][i]` and POST takes a user
  for each name still to visit: `LoopInv` says that the index is within the queue
  and the names are registered, as queues and maps never shrink.
  `IInv == TypeOK /\ RegisterInv /\ LoopInv`.
* `GraphInv` adds to `BlockedNotFollowed` that a user occurs twice in a queue of followed
  users only after an outdated FOLLOW: BLOCK removes *one* occurrence.
* `SerialInv` says, of every handler, that its check still holds, and for POST that
  the tagged users left do not follow the author, also while a delivery is under way.
  With one thread, every other handler is idle (`Alone`), so nothing disturbs it.

### `BidiMessagingDeliveryProofs`

| Theorem | Statement | Rests on |
|---|---|---|
| `Sessions` | `Spec => []SessionInv` | `Typing` |
| `Backed` | `Spec => []SessionBacked` | `Sessions` |
| `PushedInSession`, `MessagedInSession` | `Spec => []PushInSession`, `Spec => []PmInSession` | `Sessions` |
| `Pushed` | `Spec => []PostsPushed` | `PostInv`, `Sessions`, `Typing` |
| `Indexed` | `Spec => []SessionIsIndexed` | `IndexInv`, `Sessions`, `Typing` |
| `Addressed` | `Spec => []AddressedAsDue` | `AddressInv`, `Typing` |

* `SessionInv`: unless a LOGIN or LOGOUT of the user was outdated, an activated user has exactly one session, or one LOGIN
  that is on the way to it.  `SessionBacked` speaks of sessions only, but LOGIN activates the user two steps before its session
  begins and stores the connection id in between; what a second LOGIN must not find is that window.
* `PostInv`: while LOGIN drains the queue, exactly the posts before the loop's index were sent; until then none;
  and an activated user gets no further post queued except by an outdated POST.
* `IndexInv`: a second `User` under one name is put only by a raced REGISTER, a LOGIN that has scanned holds the object it
  found, and the entry of a name that is in no other is written by a LOGIN with that name alone.
* `SendInv`: a post is sent only after a check that saw its addressee activated.  A send whose connection id is no longer the addressee's, or whose addressee is no longer
  activated, is outdated; any other send is to the session that `SessionInv` knows.
* `AddressInv`: the bag of tagged users holds of a user that did not follow at most what is still due to it, and of any other nothing; that one is due while its name is
  left in the loop over the users, which is over before the bag is touched.

The exceptions in these properties, an outdated step of a named kind, stay in the theorems as they are in
the runs: they are races the code has.  The theorems say there are no others.

### `BidiMessagingCountProofs`

| Theorem | Statement | Rests on |
|---|---|---|
| `Counting` | `IsFiniteSet(Name)` implies `Spec => []FollowingCounted` | `CountInv`, `Typing` |

* `FollowingCounted` compares the counter with the queue only while no handler is between the two, and so is not inductive.
  `CountInv` holds at every step: the occurrences in the queue are at most the counter *plus what the running handlers owe it* (`Owed`, a sum over
  the connections: 1 for a FOLLOW that has added and not counted, -1 for an UNFOLLOW that has removed and not counted).  BLOCK removes and does not count, which
  lets the counter drift upward and is why the relation is `<=`.  It holds of users whose counter has not wrapped: as long as it has not, `Short` is the identity.
* Both sides are sums over sets, by a library fold that takes the elements in an order of its own.  `SetSums` shows that the order does
  not matter and what a sum becomes when one summand changes.

### `ActorThreadPoolProofs`

| Theorem | Statement | Rests on |
|---|---|---|
| `Invariance` | `Spec => [](IInv /\ TaskInv)` | |
| `Typing` | `Spec => []TypeOK` | `Invariance` |
| `OneInside` | `Spec => []Exclusion`: one thread at a time inside an actor's monitor | `Invariance` |
| `Served` | `Spec => []PendingIsServed` | `Invariance` |
| `Refinement` | `Spec => ImplementsSerialActors` | `Invariance` |

* `IInv`: who is between the braces owns the monitor (`MonitorInv`), what it read there still holds and only a
  playing actor has pending tasks (`PlayingInv`); a playing actor has one *token*, a job in the executor's queue or
  a thread that holds the actor, and any other has none (`TokenInv`).  That token is why two tasks of one actor never run at once, and,
  while the executor is open, why none is forgotten.  After `shutdown` the token may be lost with a rejected job.
* `TaskInv`: every task a thread or queue holds was submitted, and none is held twice, which makes the refinement's queue of
  an actor a sequence without repetition.
* The refinement maps the initial state to the initial state and every action to `Submit`, `Start`, `Finish`,
  `Shutdown` of `SerialActors` or to a step that changes nothing it sees.

### `ReactorProofs`

| Theorem | Statement | Rests on |
|---|---|---|
| `Invariance` | `Spec => []IInv` | |
| `Typing`, `InterestKept`, `TasksWake` | `Spec => []TypeOK`, `[]WriteInterestKept`, `[]TasksWakeSelector` | `Invariance` |
| `EndsByLeaving`, `Whole` | `Spec => []ServeEndsByLeaving`, `[]MessagesWhole` | `Invariance` |
| `OrderInvariance` | `Spec => []OrderInv` | `Invariance` |
| `InOrder` | `Spec => []RepliesInOrder` | `OrderInvariance` |

* `IInv` joins those properties with what they need of one another.  `KnownInv`, `PoolInv`: nothing is kept for a connection not
  accepted, and a task under way is one the pool counts.  `ReadsInv`: between `continueWrite`'s last test of the queue and its call of `updateInterestedOps`, a
  message that was added meanwhile has its own interest change still to come: without it, the interest that the selector thread
  takes away would be lost.  `WakeInv` is `TasksWakeSelector` for all of the loop, not only for its sleep: a task queued after the
  selector thread went through them comes with a wakeup.  `ClosedInv`: only a client that is gone has its channel closed.
* Of the lists that a handler may send only that their members are known connections is used, so that the theorems hold for any of them.
* `OrderInv` follows a request from `inbox` to the tasks, the running handler, the write queue and the socket: each stage holds them in
  order, each stage is before the next, and what was sent is about requests not after any that is still to be handled: one request may have several messages.

### `FramingProofs`

| Theorem | Statement |
|---|---|
| `SameRequest` | `ReadRequest(Message(line)) = Meant(line)` for every well-formed line of known word |

The client replaces or removes blanks, adds NULs and puts the delimiter behind; the server splits at NULs or at the one after the first character. `SameRequest` joins lemmas on
what each of these functions makes of a text of any length (`SplitReplaced`, `KeptWord`, `TrimmedWhole`, `FollowIs`).  The other lemmas are about a stream
of which a part has arrived while frames are added behind it: what a reader that wants `n` bytes, or the bytes up to a NUL or a `;`, takes from
its front is the first part of the first frame (`FrameOf`, `PieceOf`, `StringOf`), and `Joined` says that a stream is these frames one behind the other.

### `ClientServerProofs`

| Theorem | Statement | Rests on |
|---|---|---|
| `Invariance` | `Spec => []StreamsInv` | |
| `Streams` | `Spec => []StreamsOpen` | `Invariance` |
| `TypeCorrect` | `Spec => []TypesInv` | `Invariance` |
| `Types` | `Spec => []TypeOK` | `TypeCorrect` |
| `RequestsInvariance` | `Spec => [](WiredInv /\ RequestsInv)` | `TypeCorrect` |
| `Requests` | `Spec => []RequestsAsTyped` | `RequestsInvariance`, `SameRequest` |
| `Anatomies` | every answer without the delimiter is decoded as it was encoded | |
| `AnswersInvariance` | `Spec => [](ClearInv /\ IdleInv /\ ReaderInv)` | `RequestsInvariance`, `Anatomies` |
| `AnswersPrinted`, `InStep` | `Spec => []AnswersAsSent`, `Spec => []MisreadAfterTable` | `AnswersInvariance` |
| `CountsInvariance` | `Spec => []OnceInv` | `AnswersInvariance` |
| `AnsweredAtMostOnce` | `Spec => []AnsweredOnce` | `CountsInvariance` |
| `LogoutInvariance` | `Spec => [](KindInv /\ LogoutInv)` | all of the above |
| `LogoutComesLast` | `Spec => []LogoutIsLast` | `LogoutInvariance` |

* `StreamsOpen` speaks of the next message.  `StreamsInv` says of *every* message a thread has still to send that it is for nobody or for a
  connection with open streams (`SendsInv`); of every id that LOGIN stored the same (`LoggedInv`); and of ids not given yet
  that they have no thread (`IdsInv`), so that accept does not start a thread again and close its streams.
* `TypesInv` is stronger than `TypeOK` where a step depends on it: the messages of a thread are answers that can be encoded, so that
  streams remain bytes, and one that is being flushed has a connection.
* `RequestsInv`: what the server has still to read, with what was lost with the connection, is exactly the encoded lines that follow those it has read
  (`PendingInv`), and each request read is the line at its place (`FaithfulInv`).  A `;` in a line splits it, so that both are claimed up to the first such
  line.  `WiredInv`: nothing is typed before the connection is there.
* `ClearInv`: as long as nobody has typed a `;`, no answer sent or about to be sent has a NUL or a delimiter where the client does not expect one; an answer other than a
  notification, and a table, is only sent by the connection's own thread.  A text with a `;` in it makes several messages, one of which may have a NUL where the client expects none.
  `AnsweredOnce`, `AnswersAsSent`, `MisreadAfterTable` and `LogoutIsLast` are about the time before that (`Undivided`).
* `ReaderInv`: what is still to come to a reader, in its socket and in the server's buffer, is the rest of the answer it is decoding (`Within`) or the
  zeros of a table just printed (`Between`), and behind it the frames of the answers sent since.  The invariant must follow the reader through all the parts of an answer, since other threads
  add to the stream at any of them; `Anatomy` says for each part what the reader finds, what it has then and what is left.
  A reader that is cut off, or done, no longer has anything to come, and what it has printed remains a prefix of what was sent.
* `OnceInv` counts, for each connection and opcode, the answers written and the requests read: the former are not more, and are less while the thread
  still owes the answer.  `AnsweredOnce` follows link by link: printed are those written (`ReaderInv`), written are not more than read (`OnceInv`), read are those typed (`RequestsInv`).
* `LogoutInv` relates the flags, the place of the keyboard thread and the *number* of LOGOUTs typed to the number of answers decoded: until one is
  acknowledged, each LOGOUT typed was refused, or all but the last line were and the keyboard thread waits or is done.  That an
  acknowledgement is that of the last line is a matter of counting: when the opcode of an answer to LOGOUT is decoded, `OnceInv` and the above say that
  a LOGOUT without an answer was typed, and there is only one such.  `KindInv` says which kind of answer each part belongs to, also for a reader whose connection is cut, which
  makes up its own fields.

### Only model-checked

* *Liveness under fairness:* `ImplementsFairly`, `RequestsAnswered`, `LogoutIsAnswered`,
  `LogoutExits`.  These need `ENABLED`, which the prover does not support.
* The two violations, `SessionActs` and `CutFrameFails`: they do not hold.

The library's induction theorems take an operator as a parameter, which the provers cannot instantiate.  Where induction is needed, over the length of a text or the
size of a set, the statement is a *set* of the numbers, or subsets, for which it holds, shown to be all of them by the
well-foundedness of their order (`SetSums`).  Recursive definitions are recursive functions for that reason.

## 5. Not modelled

* `getLine` and the `close` of `ConnectionHandlerImpl`, which have no caller; the `close` of `BaseServer`
  and `Reactor`, called by the mains when `serve` is over.
* The mains, which pick a server, a port and 3 threads; the echo and remote-command samples; `BlockingConnectionHandler`
  and `MessagingProtocol`, which no server uses; `echoClient.cpp`, all of it commented out.
* The generated files under `cmake-build-debug`: four compiler probes of CMake that make up some 3100 of the 3774 lines of C
  and C++ here and are no part of the program.  Of the client's own code only `getLine` is left out.
* Text: characters outside ASCII, the words filtered from a PM, ages, what is printed beside the answers.
* That a handler ends: LOGIN's loop runs over a queue that POSTs may keep filling, and a flush may block inside any handler; the second is part of
  `ThreadPerClient`, where the handlers are only their answers.
* Memory: queues, maps and `getFrameAscii`'s string grow without a bound in the code and never exhaust it here.

## 6. Plan

1. *Done:* handlers, pool, reactor, framing, client, thread-per-client server and their composition; every safety property
   that holds, of each of them, proved, and the pool's refinement.
2. Composition of the handlers' `frames` with the connection that receives them (PM to a
   reused connection), which would say who reads it.
3. Characters outside ASCII: the conversions of the server and what they do to the lengths of names.
