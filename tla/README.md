# hpfeeds in TLA+

hpfeeds is a small authenticated publish/subscribe protocol: a broker
(`src/hpfeeds/broker`, asyncio) and four clients (asyncio, Twisted, a blocking
client with a reactor thread, and the older threaded `hpfeeds.client`). This
directory models the program in TLA+, checks the models with TLC and proves
what matters most about them with TLAPS.

    tlc -workers 2 -config AnyClients.cfg MCBroker
    tlapm BrokerProofs.tla

## 1. Inventory

### Broker: connections and publish/subscribe (modelled)

*State.* `Server` keeps the set `connections` and the dictionary
`subscriptions` (channel -> *list* of connections). Each `Connection` keeps the
unparsed buffer of its `Unpacker`, `ak` (the identity, `None` until
authenticated), the rights `pubchans`/`subchans` copied at authentication,
`active_subscriptions` (a *set*), `server` (`None` after `connection_lost`) and
`_deadline_timer`. Two gauges are meant to mirror this state:
`CLIENT_CONNECTIONS` and `SUBSCRIPTIONS`.

*Operations.* `connection_made`, `data_received`, `process_pending`,
`on_auth` / `authenticate` / `on_auth_result`, `on_publish` + `Server.publish`,
`on_subscribe` + `Server.subscribe`, `on_unsubscribe` + `Server.unsubscribe`,
`connection_lost`, `pause_writing` / `resume_writing` and the deadline timer.

*Interaction.* All of it runs as callbacks of one event loop. A handler of one
connection writes to the transports of others, and can call their
`connection_lost`. The authenticator may answer at once or return an awaitable,
whose callback later re-enters `process_pending`. The transport calls back
(`pause_writing`, `resume_writing`, `connection_lost`), partly from within the
broker's own `write`.

*Hard.* Between `transport.close()` and `connection_lost` a connection is half
alive; an authentication can finish on a connection that is gone; messages
arrive behind an AUTH that is still being checked; an exception leaves the
broker in the middle of a walk over the subscribers; the same set/list of
subscriptions is kept in two forms; `process_pending` is re-entered through
`authenticate`.

*Correct means.* Only what was authorised is delivered; every current
subscriber gets one copy of each message; a connection that is gone is gone
from every list; the gauges tell the truth; input is neither lost nor left
behind a paused transport; a client that reads too slowly is dropped in time.

### Wire protocol and framing (`protocol.py`, modelled)

*State.* one byte buffer. *Operations.* `feed`, `ready`, `pop`, `unpack`.
*Hard.* message boundaries never coincide with reads; lengths at the limits.
*Correct means.* the messages do not depend on how the bytes were cut up.

### Broker: file watching (modelled)

The JSON store reloads its file when a supervised inotify task tells it to.
*Hard.* A file replaced between an event and the new watch; a watcher that died
and comes back. *Correct means.* The rights in use are eventually those in the
file, and never go back.

### Broker: server life cycle (modelled), authenticators and metrics (partly)

`serve_forever` starts authentication, the exporter of metrics and the endpoints,
and takes them down again in a `finally` block; `MultiAuthenticator` asks several
stores in turn. *State.* where the task is, the list `servers`, `cleanups`, the
stack and its finalizers. *Hard.* a failure or a cancellation half way through
start-up, or through the clean-up itself; connections that outlive the servers.
*Correct means.* what is on the server's lists is released; nobody is asked who
was closed; shutting down ends. What the SQL and Mongo stores do to answer is
I/O and counts only as an answer that comes now or later; of the metrics only
the gauges (in `Broker`) and the exporter's start and end are modelled, not the
counters.

### Clients

| client | state | hard | correct means |
|---|---|---|---|
| asyncio (`asyncio/client.py`) | `subscriptions`, `protocol`, two futures, the reconnect task | a future that is replaced while somebody awaits it; closing while connecting | `Session`, below |
| Twisted (`twisted/*.py`) | the same with Deferreds and a ClientService | user code that runs in the middle of `dataReceived`; a Deferred fired twice; stopping and starting again | `Session` |
| blocking (`blocking/*.py`) | outbox and read queue with wake-up sockets, reactor thread, `when_connected` event | two threads; an outbox replaced under the writer; SUBSCRIBE overtaking AUTH; stopping a thread that sleeps | nothing lost or doubled within a connection; every wake-up finds its item |
| legacy (`client.py`) | socket, `connected`, `stopped`, unpacker, `connecting_lock` | a thread that publishes and `run()` break and remake each other's connection | a connection in use is authenticated; `run()` listens only when subscribed, and gets connected again |
| command line (`scripts/cli.py`) | none of its own | | not modelled: a sequential wrapper |

## 2. Modules

| module | what it is |
|---|---|
| `Transport` | external: the asyncio transport, as pure operators on a link record |
| `PubSub` | abstract specification: publish, subscribe, unsubscribe, leave |
| `Broker` | Server and Connection, composed with `Transport` and with peers |
| `MCBroker` | instances for TLC: peers of several kinds, authenticators |
| `BrokerProofs` | proofs of all safety properties of `Broker`, and that it implements `PubSub` |
| `Session` | abstract specification of a client session: what the user wants, whether it is ready, what the broker will serve, what was read |
| `ClientWire` | what a client writes on a connection and what the broker makes of it, as the asyncio and the Twisted client use it |
| `AsyncioClient`, `MCAsyncioClient` | `ClientSession`, its `reconnect()` task, its protocol object and the coroutines that use it, against a broker seen from the client; implements `Session` |
| `AsyncioProofs` | proofs of the types, of `ResolvedOnce` and `AsksProperly`, and that the client implements `Session` |
| `TwistedClient`, `MCTwistedClient` | `ClientSessionService`, its protocol object and Twisted's ClientService; implements `Session` |
| `TwistedProofs` | proofs of the types, of `AsksProperly`, that `whenConnected` is fired once, and that the client implements `Session` |
| `BlockingClient`, `MCBlockingClient` | the blocking client: the reactor's thread, the threads of the user, and the wake-up queues between them |
| `BlockingProofs` | proofs of the accounting of wake-up bytes and of the order on the wire and of reading |
| `LegacyClient`, `MCLegacyClient` | the threaded `Client`: the thread in `run()` and one that publishes |
| `LegacyProofs` | proofs of the safety properties of `LegacyClient` |
| `ServerLifecycle`, `MCServerLifecycle` | `serve_forever`, the stack of authenticators, the exporter, the watchers of certificates, clients |
| `ServerProofs` | proofs of its types, of `Released` and of `UsersAreFound` |
| `Protocol` | `protocol.py` as operators on sequences of bytes |
| `Framing`, `MCFraming` | an `Unpacker` fed by reads of any size |
| `FramingProofs` | proofs about `protocol.py`, and of all properties of `Framing` |
| `JsonAuth`, `JsonAuthProofs`, `MCJsonAuth` | the JSON store, its supervised watching task, inotify and the process that changes the file |

### How Broker corresponds to the code

| TLA+ | code |
|---|---|
| `link[c]` | the transport of connection c; `Transport.tla` explains the fields |
| `buf[c]` | `unpacker.buf`, as the sequence of complete messages in it |
| `ak`, `pubchans`, `subchans`, `active` | the attributes of `Connection` |
| `hasServer[c]` | `self.server is not None` |
| `tasks[c][m]` | tasks made by `on_auth` for the AUTH m that have not called back |
| `connections`, `subscriptions[ch][c]` | the server's set, and how many entries of the list for ch are c |
| `timer[c]` | `_deadline_timer` |
| `loop` | the `process_pending()` that is running: on which connection, entered from `data_received` or from a task's callback, and how many `authenticate()` calls are on the stack |
| `published`, `inbox`, `granted` | history, used by properties only |

The event loop runs one callback at a time. Actions guarded by `Idle` start a
callback; `DataReceived`, `AuthResult` open a `process_pending` loop, and from
then on only the handlers of that connection are enabled until the loop ends.
One step handles one message with everything its handler calls, e.g. `Publish`
is `on_publish`, `Server.publish`, the writes to every subscriber's transport,
the `pause_writing` those writes cause and the `connection_lost` calls on
subscribers that are closing. Since nothing else can run in between, no
interleaving is lost.

Some code paths that are easy to overlook, all of them in the model:

* `on_auth` with an awaitable returns True, which ends the loop with reading
  paused; `authenticate` later calls `process_pending` *and then*
  `resume_reading`, once per nested call (`loop.depth`, `EndLoop`).
* `on_subscribe` has no `return` after refusing: the refused, closing
  connection is put on the list all the same (`Subscribe`).
* After `connection_lost`, handlers that use `self.server` raise. Raised out of
  `data_received` the transport is aborted, raised out of a task's callback the
  event loop only logs it (`Raise`).
* `Server.publish` calls `connection_lost` on subscribers whose transport is
  closing (`Gone`). If their server is already None this raises and the walk
  over the set of subscribers ends wherever it was (`Stale`, `Walks`).

Abstracted: payloads; the digest of an AUTH (right or wrong); framing; sizes in
bytes (the write buffer counts messages, the low-water mark is a quarter of the
high one, as in asyncio); counters that only grow; logging; socket options.
One message kind, UNKNOWN, stands for everything `Unpacker.ready` refuses.

### How AsyncioClient corresponds to the code

| TLA+ | code |
|---|---|
| `task` | the await `reconnect()` is at: not yet run, in `create_connection`, in `sleep(1)`, awaiting `when_closed`, returned |
| `closing`, `protocol`, `subscriptions`, `readQueue` | the attributes of `ClientSession` (`protocol`: is it set) |
| `connectedDone`, `closedDone` | whether the *present* `when_connected` and `when_closed` are resolved |
| `enter` | a coroutine in `__aenter__`: `waiting` on the present future, `orphan` on one that was replaced, `woken` |
| `closer` | a coroutine in `close()` |
| `conn`, `toBroker`, `toClient` | the one connection there can be, and what is under way on it |
| `authed`, `inForce` | what the broker knows of the connection: whether AUTH came, and its lists |

`MayFollow`, `WillServe` and `Resubscribed` of `ClientWire` say what may come after
what on a connection, what the broker will serve once it has read everything, and
what a new connection is opened with; `Proper` says what a well-behaved client may
ask of a broker that has seen AUTH or not and serves certain channels. The Twisted
client uses the same.

A step is what the event loop runs between two awaits. `reconnect()` goes on
only when `when_closed` is resolved, which is what `connection_lost` does, so
there is never a second connection. `got` is history: what the readers were given. `Attempt` is the head of the loop in
`reconnect()`; `OnInfo` is `on_info` with `connection_ready`. An `OSError` leads
to `sleeping` and back, whatever `closing` says; any other exception is logged
and the task awaits a `when_closed` that nothing will resolve (`GaveUp`).

### How BlockingClient corresponds to the code

| TLA+ | code |
|---|---|
| `rpc` | where the reactor's thread is: in the connector, in `select`, about to `recv`, handling a message, in the second half of a `put`, about to `get`, about to `send`, ended by `closing` (`done`) or by an exception (`dead`) |
| `ready`, `pending`, `buffer` | what `select` returned and is still to be handled, the complete messages in the `Unpacker`, `_buffer` |
| `outbox[g]`, `gen` | the `Queue` made for connection g, and which of them `self._outbox` is |
| `items`, `wakes` | the items of a `Queue`, and the bytes in its socket pair |
| `call[u]` | a thread of the user: it has looked up `_outbox` (`writing`), has put its item (`waking`), has taken a byte (`taking`), is in `join` |
| `link`, `toClient`, `wire` | the connection (`closed`: the protocol has closed `self.sock`, which is not None then), what the broker sent, what was sent to it |

`put` and `get` are two steps each, so everything can happen between an item and
its byte. `_connect` replaces the outbox while a thread may hold the old one. A
send takes any part of the buffer, or nothing (`SendAgain`). A connection ends
with end of file (`ReadFails`, the loop goes on) or with an exception (`Raises`,
the thread ends, as it does after ERROR or a failed attempt). A message the client
does not expect, or one the `Unpacker` refuses, makes the protocol close the socket
(`OnUnexpected`, `Undecodable`): in the first case what follows in the `Unpacker` is
handled all the same, in both the next `select` or `send` raises and the thread ends
(`SelectFails`, `Raises`). `subscriptions` is left out: this client writes it and
never reads it.

### How TwistedClient corresponds to the code

| TLA+ | code |
|---|---|
| `state` | of Twisted's ClientService: it makes one connection after the other, waits between failed attempts, and is stopped and started by the user |
| `protocol`, `subscriptions`, `whenConnected` | the attributes of `ClientSessionService` (`whenConnected`: was it fired) |
| `pending`, `waiting` | the two lists of the `DeferredQueue` `read_queue` |
| `batch` | how many of the messages that `dataReceived` was given it still has to handle |
| `fired` | the last message fired a Deferred, whose callback is the user's code |
| `waiter` | a callback added to `whenConnected`: `orphan` if that Deferred was replaced without being fired |

Between two messages of a batch nothing runs but what a fired Deferred calls
(`MayCall`); there the user may subscribe, read, or stop the service. ClientService
and the transport are external: what the code relies on is that `connectionLost`
comes once, and that the next attempt follows it.

### How LegacyClient corresponds to the code

| TLA+ | code |
|---|---|
| `at[t]`, `back[t]` | where thread t is, and where `tryconnect()` or `publish()` return to |
| `lock` | `connecting_lock` |
| `s`, `connected`, `stopped`, `subscriptions`, `unpacker` | the attributes of `Client` |
| `rs`, `data`, `todo` | locals of `run()`: the socket inside `recv()`, what came, the channels `_subscribe` has yet to send |
| `net[k]`, `inbox[k]`, `told[k]` | socket k and its connection, what the broker sent, what the broker was told |
| `own`, `due` | history: the sockets that were not made by `publish()` during `run()`, and what `_subscribe` set out to send |

A step ends at each system call, at the lock, and between a failed call and the
assignment `connected = False` that follows it, so the assignment of one thread
can hit the connection the other has just made. The check of `connected` in
`connect()` is a step of its own (`Check`): an attempt that fails while `connected` is
still set goes on with the dead socket, and one that succeeds raises if the other
thread clears `connected` in between, as in the code. `Close`
and `Publish` may come from the other thread at any moment. A send on a
connection whose peer is gone may succeed and be lost.

### How ServerLifecycle corresponds to the code

`at` is the await at which `serve_forever` is; `Task` are its steps, `Cancel` is a
`cancel()` of its task at any await. Every endpoint can fail to bind, and the
exporter can fail to start. `bound` tells whether the variable `servers` has been
assigned: before that the `finally` block raises at its first line. `watched` is
what a supervised task watches, `stack`, `finalizers` and `open` are the state of
`MultiAuthenticator` (`broker/auth/multi.py`). `Late` are the authenticators whose
`get_authkey` is a coroutine, which `MultiAuthenticator` takes for an answer.
`loaded` tells whether the JSON store has loaded its file: it is empty until the
watching task first does so (`json.py:26`, `Load`), which may be after clients were
accepted, and a load that fails changes nothing (`Reloaded`). Every text of the file is
taken to name the same users; what a changing file does to the rights is `JsonAuth`.

### How Protocol and Framing correspond to the code

The operators of `Protocol` have the names of the functions of `protocol.py`.
`Raises`, `Ready`, `Popped` and `Remaining` are `ready()` and `pop()` on a buffer.
Lengths are packed and unpacked as four bytes; the sender is anyone who uses
`msg...()`, with legal and with illegal messages. `Writable` is what `struct.pack`
does not refuse: strings of at most 255 bytes where their length takes one, a
message whose length fits a signed int. The writing functions take any bytes, the
reading ones decode their strings as UTF-8 (`force_str`): `Decodes` says which bytes
that is possible for (it was compared with Python's decoder on some 595 000 byte
strings), and `Read` is the message, or the
`UnicodeDecodeError` that is raised where an identity, a channel or the text of an
ERROR does not decode. In Python 2, which the code still provides for, `force_str`
leaves the bytes alone. The models of the broker and the clients leave such strings
out: to the broker they raise in the handler, like INFO and ERROR after the login.

### How JsonAuth corresponds to the code

Every system call of `_watch_task` is a step: `os.path.exists` (`Starting`),
finding the paths (`Resolve`), each `watch` (`WatchNew`), the callback (`Load`),
`get_event` with `unwatch` (`TakeEvent`), watching again (`Rewatch`). An exception
closes the watcher and the supervisor starts over (`WatchFails`, `Supervise`).
The other process acts between any two of them, in the styles the module's
header explains. A watch is on an inode, so a renamed file leaves it behind.
`_resolve_paths` also returns, and the task watches, every directory on the way, the
directory the link leads to among them. They are not among the `paths` of the model;
what their watches can do is in it: an event at any time, upon which the task goes
round its loop (`DirectoryEvent`), and a watch that fails because the directory was
moved or removed (`DirectoryLost`).

## 3. Runs

A peer is an automaton `[from, chunk, to]` (constant `Sends`): in a state it
may send certain chunks, each a sequence of up to `MaxChunk` messages that
arrive in one `data_received`. `Budget` bounds what one peer sends. In
`MCBroker` alice is authenticated synchronously and bob asynchronously, and
the authenticator `Changes` may answer each lookup differently.

| run | shows |
|---|---|
| `AnyClients` | two peers that send any message in any order, asynchronous authentication, a kernel that takes, queues or fails writes: types, `ConnectionCount`, `AttachedExactly`, `OpenListedWasGranted`, `DeadlineGuardsBackpressure`, `DeliveryAuthorised` |
| `Delivery` | peers that log in repeatedly, as alice or bob, but never subscribe twice to a channel: the broker implements `PubSub`; no closed connection is listed; no input is stranded |
| `Proper` | peers that log in once and do what they may; peers may stop reading: no handler closes their connection, the gauge is exact, and, under fairness, all input is handled and backpressure ends |
| `EverySubscriber` | *violated*: a stale list entry makes `Server.publish` raise before it reached everybody |
| `AsyncioSession` | the asyncio client implements `Session` whenever `subscribe` and `unsubscribe` are called; every request the broker takes is one a proper client makes (`AsksProperly`: AUTH first and once, SUBSCRIBE and UNSUBSCRIBE of a channel in turn); no future is resolved twice; the session gets ready again; `close()` of a session with a connection returns |
| `TwistedSession` | the Twisted client implements `Session`, with batches cut anywhere, calls from callbacks, a service stopped and started; it asks properly; it gets ready again |
| `BlockingSession` | with two user threads: every `get` finds an item; the wire carries the outbox in order, without loss or repetition, however sends are cut short; messages are read in order; the outbox gets empty; the peer may say what a client does not expect |
| `BlockingMaintain` | *violated*: a connection attempt that fails ends the thread, and the session never gets connected |
| `LegacySession` | whichever thread breaks or makes the connection: one that nobody is making is authenticated; `run()` receives on its own connection only when all subscriptions were sent; it gets out of `tryconnect()` |
| `ServerLife` | four authenticators, an exporter, three endpoints, each of which may fail, two cancellations anywhere: what is on the lists is released, nobody closed is asked, a user who was found is found again by the same authenticator or by a JSON store that was loaded since, the shutdown ends |
| `Framing` | all sequences of three messages cut up in all ways: what is read is what was written, or `UnicodeDecodeError` exactly where a string is not UTF-8; only illegal messages are refused; nothing complete is held back |
| `JsonReload` | the task watches the present file only and leaves no watch behind; a task that waits has missed no change; the rights never go back; they catch up with the file |

*Bounds (asyncio, Twisted).* Two connections (`MaxConns`), so that everything can be left
over from an earlier one; the last connection does not break, or liveness would
say nothing. Three calls (`MaxCalls`) on two channels: subscribe, unsubscribe
and subscribe again. Two messages (`MaxSent`), so that order can be wrong; one
reader that waits (`MaxReaders`).

*Bounds (legacy).* Three sockets: the one in use, the one `run()` still receives
from, and a new one; ids of closed sockets are used again, so the number of
connections is not bounded. One connection breaks by itself (`MaxBreaks`), the
other ends come from the threads; two calls of the other thread (`MaxCalls`), so
that a publish can follow a close; one channel is enough since `_subscribe` treats
channels alike. The proofs have no bounds.

*Bounds (server life).* Authenticators `json`, `sqlite`, `mongo` and `env`: one
with a watcher, one with a database, one that answers later, one behind it. Two
TLS endpoints and a plain one; two clients; two cancellations, since a second one
can hit the clean-up of the first.

*Bounds (other modules).* `BlockingSession`: two threads, two connections, two
writes and two messages from the broker; a `Capacity` of 2 bytes lets the reactor
and the users block in `put`. What ends the thread, ERROR or a message that is not
expected, comes on the last connection only (the thread would make no other), and the
latter (`OddAfter`) before the broker has published, so that messages may follow it in
the same batch; the proofs have only the first of these bounds. That the outbox gets empty is claimed unless the
reactor blocks there (`Jammed`): then it can wait for ever, since nobody else
empties the outbox. `Framing`: `MAXBUF` = 7 and `MAXAUTH` = 4 put the limits
among messages that TLC can enumerate; three messages, so that one has a
neighbour on both sides; among them strings of two bytes that are one character and
bytes that are none, in each place where a string can be. `JsonReload`: four changes, enough to replace a file
twice while the task deals with the first event. With `Styles = {"mixed"}` TLC
finds that a link swapped between `_resolve_paths` and the first `watch` leaves
the new file unwatched (see hazards); the styles of the run cannot do that.

*Fairness.* `AsyncioSession`: the event loop runs its ready callbacks and woken
coroutines; a broker that is tried again and again is reached at last (strong
fairness, since attempts may fail in between) and takes what is sent to it.
`TwistedSession`: the reactor does what is to be done (weak), the broker is reached
at last (strong). `BlockingSession`, `BlockingMaintain`: threads run; a socket tried
again and again takes something at last, and so does a connection attempt (strong
fairness). `LegacySession`: threads run in `tryconnect()` (weak); `run()` gets the
lock if it is free again and again, an attempt succeeds and INFO comes in time if
they are tried again and again (strong). Nothing makes the other thread call
anything. `ServerLife`: the event loop runs the task; clients need do nothing.
`JsonReload`: the event loop runs the task; nothing is assumed of the other process.

*Bounds (broker).* Two connections suffice for every interaction the code has: publisher
and subscriber, where either can be closing, gone or paused; `EverySubscriber`
has three, because a stale entry, a live subscriber and a publisher are needed.
Three messages per peer allow AUTH, SUBSCRIBE twice or SUBSCRIBE+PUBLISH, or two
AUTHs and an operation; chunks of two or three put messages behind an
unanswered AUTH. A high mark of 1 is exceeded by the second queued message. The
bounded history makes the state space finite; nothing else is cut off.
Deadlock checking is off since an instance ends when the peers have spent
their budgets and every connection is lost.

*Fairness* (`Proper`): a handler that is running goes on (the event loop has no
preemption), a scheduled `connection_lost` is called, a timer expires, the
authenticator answers or fails. Nothing is assumed of peers or network: they
may stop sending, reading or draining at any time.

*Why two preconditions.* `NoStaleSubscriber` and `ImplementsPubSub` are false
for a client that subscribes twice to a channel (see `EverySubscriber`), `GaugeIsExact` for one that unsubscribes from what it has
not subscribed to. `Delivery` and `Proper` say how well behaved a client has to
be for them to hold.

## 4. What the models show besides

These follow from the models as they stand; the properties above are worded so
that they do not claim the opposite.

* *Stale subscribers.* After two SUBSCRIBEs of one channel, one UNSUBSCRIBE or the
  loss of the connection leaves a list entry behind (`server.py:118`); this is what
  `EverySubscriber` builds on. An UNSUBSCRIBE without a subscription decrements
  the gauge (`server.py:129`).
* *asyncio, entering.* `async with` awaits the `when_connected` it finds;
  `reconnect()` replaces it for the next attempt without resolving it
  (`asyncio/client.py:107`). If the first connection breaks before INFO, the block
  is never entered (`enter = "orphan"`). The Twisted client forgets the callbacks of
  an unfired `whenConnected` likewise (`twisted/service.py:40`, `waiter = "orphan"`).
* *asyncio, giving up.* An attempt that fails with anything but `OSError` (such as
  the UnicodeError for a host name that cannot be encoded) is logged, and `reconnect()` awaits a `when_closed` that nobody will
  resolve (`asyncio/client.py:106`, `GaveUp`), although the session is documented to
  reconnect by itself. `close()` never returns then.
* *Legacy, publishing.* A connection that `publish()` makes while `run()` goes on is
  not subscribed on, since `run()` notices nothing and subscribes only at the head
  of its outer loop (`client.py:261`); `ListensSubscribed` is therefore about the
  sockets in `own`. A callback that publishes does the same. `subscribe()` while
  `run()` is running sends nothing until the next reconnection.
* *Legacy, INFO taken away.* `publish()`'s `do_auth()` receives from the same socket as
  `run()`, which may get the INFO and pass over it; after the timeout the same can
  happen again, so `publish()` need not return (`client.py:151`). `run()` gets out of
  its own `tryconnect()`, because the other thread then waits for the lock.
* *Server, failing early.* If the exporter cannot listen, or the task is cancelled
  there, `servers` is unbound, the `finally` block raises at once, and the
  collector, the authenticators and the watcher of the JSON file stay
  (`server.py:209`). A server whose `create_server` was cancelled after it began to
  listen is on no list and goes on listening.
* *Server, clean-up.* `MultiAuthenticator._close` does not await, so the JSON
  store's watcher is never closed, and it returns None, so `await` raises TypeError as
  the last thing `serve_forever` does. Nothing closes connections: from Python 3.12
  `wait_closed()` waits for clients (`Held`). `when_started` stays unresolved if a
  start fails. A second cancellation ends the clean-up where it is, except in
  `supervise.close`, which absorbs it.
* *Server, endpoints.* `_parse_endpoint` gives a pair of Nones for no endpoint, which is
  true: there always is an exporter (on the default port of aiohttp). A TLS endpoint
  and the JSON store accept clients before their first load has run.
* *Authenticators.* `MultiAuthenticator` does not await: the coroutine of an
  asynchronous store is true, so no store behind it is ever asked (`multi.py:41`,
  `Late` in `Hits`).

## 5. Proofs

For any finite set of connections, any identities, channels, peers and
authenticator (`TransportAssumption`, `BrokerAssumption`):

| theorem | states |
|---|---|
| `TypeCorrect` | `Spec => []TypeOK` |
| `Attached` | `Spec => []AttachedExactly` |
| `Counted` | `Spec => []ConnectionCount` |
| `ListedWasGranted` | `Spec => []OpenListedWasGranted` |
| `DeadlineGuards` | `Spec => []DeadlineGuardsBackpressure` |
| `Authorised` | `Spec => DeliveryAuthorised` |

*Argument.* `BrokerInv` is the conjunction of the properties with `TypeOK` and
`Untouched`: a connection whose `connection_made` has not been called has no
tasks, no list entry, no paused buffer and is not the one being handled. It is
needed because every one of the properties refers to "open" or "attached", and
a step can only make a connection so from "new". `LinkLater` shows that no
operator of the transport reopens a link; `QuietMoves` and `QuietFrame` treat
together the fourteen actions that touch one transport and leave the server
alone; `Shape` then reduces every step to one of: server unchanged, a set of
attached closing connections taken down, one list entry added or removed.
`AttachedStep`, `CountStep` and `GrantedStep` follow from that shape;
`DeadlineStep` follows from `FlowControl`.

With any authenticator still, but peers that behave:

| theorem | states | if |
|---|---|---|
| `NoStale` | `Spec => []NoStaleSubscriber` | no peer repeats a SUBSCRIBE without an UNSUBSCRIBE |
| `IsPubSub` | `Spec => ImplementsPubSub` | the same |
| `NotStranded` | `Spec => []InputNotStranded` | the same, and no peer sends INFO or ERROR |
| `GaugeExact` | `Spec => []GaugeIsExact` | every peer logs in first and once, under one name subscribes only to what it has not and unsubscribes only from what it has; right or wrong secret, with or without the rights |
| `KeepsProper` | `Spec => HandlersKeepConnection` | the same; besides, its secrets are right, it does what its rights allow, the authenticator answers the same every time, and no write fails at once |

*How a peer's behaviour is assumed.* The assumptions are about `Sends`, the chunks
the peers may send, at the end of `Broker`. There must be a *view*: an account of
itself in each state of the peer, such that the messages of a chunk are a `Path`
from the account before to the account after. For `NeverTwice` the account is a set
of channels that contains all the peer may be subscribed to, so that the peer may
log in again or send nonsense; for `ProperPeers` it is its name and its
subscriptions. `MCBroker` assumes, and so TLC evaluates, that the peers of `Delivery` and `Proper` satisfy
what the theorems require (`PeersAssumption`).

*Why they are needed.* `EverySubscriber` shows what a repeated SUBSCRIBE does: the
entry that stays behind makes `Server.publish` raise in the handler of somebody
else. If the answer of an authentication check had resumed that handler, the
exception ends in the task's callback and the connection stays open, with messages
in its buffer that nobody handles. INFO and ERROR after the login raise likewise
(`NotImplemented`). The gauge moves on every UNSUBSCRIBE, and under the name of the last AUTH. A write that
fails at once is a connection that is lost, not one a handler closed, but in the
model the two are the same step.

*Argument.* When the broker handles a message the peer may have sent many more. So
the invariants speak of the account of a peer *before* what is in `buf`: there is
an account `a`, with a path along `buf[c]` to the account the peer has now. A read
makes the path longer at its end (`PathJoins`), a handler takes its first move
(`PathStep`). Of that account `OnceInv` says that it contains what is subscribed;
hence a SUBSCRIBE that is handled is a new one, and each channel lists a
connection once (`ListedOnce`). That gives `NoStale`, and for `IsPubSub` that the live
entries of a list are the set of subscribers of `PubSub`, step by step.
`FlowInv` says of every open connection, handlers running or not, that messages in
its buffer are being handled or wait for a check in flight, and that reading that
is paused will be resumed by that check or by an `authenticate()` on the stack; it
is kept because no handler raises. For proper clients
(`Stands`) the account agrees with `ak`, with `active`, and with the one check that may be in flight
(`Agrees`), or nobody is logged in and the connection is closing or gone (`Shut`). `GaugeStep` and
`HandlersKeep` follow; the gauge is the number of attached connections of a name
that are subscribed, so the two sides of an UNSUBSCRIBE move together.

For any number of changes to the JSON file (`JsonAssumption`):

| theorem | states |
|---|---|
| `TypeCorrect` | `Spec => []TypeOK`, in every style |
| `Missed` | `Styles \subseteq {"plain", "farm"}` implies `Spec => []NothingMissed` |
| `Monotone` | `Spec => NeverBack`, in every style |
| `OneFile` | `Spec => []WatchesOneFile`, in every style |

*Argument.* `NothingMissed` says nothing of a task that is on its way to wait.
`IInv` adds what makes the way safe: every known path that is not about to be
watched has a watch on its present inode or an event that says the watch was
lost (`Covered`), the one path whose change leads to another text is known by
then (`Knows`), and in a farm the file behind the link is complete from the
moment the link leads to it (`FarmValid`). `FileChange` treats the changes of a
single file together; `Swap`, which moves the link, is done by itself. The
proof fails where the property does: with files of a farm changed in place,
`Trigger` is not one path. `OneFile` is nearly inductive by itself: beside the types
it needs that what is still to be watched is among the paths found last. `Monotone` needs only `Fresh`: the present file has
the newest text or none that can be read.

For any sockets and channels, any number of calls, messages and breaks
(`ParametersAssumption`, `SocksAssumption`: there always is another socket to be
had; `ChansAssumption`):

| theorem | states |
|---|---|
| `TypeCorrect` | `Spec => []TypeOK`, which includes that a thread is inside `tryconnect()` exactly while it holds the lock |
| `Authenticated` | `Spec => []AuthenticatedWhenFree` |
| `Subscribes` | `Spec => []ListensSubscribed` |

*Argument.* `ListensSubscribed` is about the socket `run()` receives from, which may
have been replaced meanwhile. `IInv` adds that all sockets but `self.s` are unused
or closed (`OneSocket`), that a thread that makes a connection during `run()` makes
it on a socket outside `own` (`NotOwn`), and what `run()` has sent where it is on its
way to receiving (`Listening`) or still subscribing (`Subscribing`). The hard case
is a `connected` that one thread clears and the other sets again: it can be set
only by a `Dialed`, and that one is not on a socket of `own`, or `run()` is itself
connecting and will subscribe. Nearly all steps are alike in four respects:
`Sockets`, `Dialing`, `Locking`, `Waiting`; the seven that are not have a lemma each.

For the asyncio client, any set of channels and any number of connections, calls
and messages (`BoundsAssumption`):

| theorem | states |
|---|---|
| `TypeCorrect` | `Spec => []TypeOK` |
| `Unresolved` | `Spec => []ResolvedOnce`: `on_info` never resolves a future twice |
| `KeepsPromise` | `Spec => ImplementsSession`: every step is one of `Session`, or changes nothing a user can see |
| `Asks` | `Spec => []AsksProperly` |

*Argument.* `Session` says that what the broker will serve is what the user wants
once the connection is up. `ReadyOK` is the invariant behind it: `subscriptions` is
what the broker has in force changed by the requests under way, in their order
(`WillServe`), no request is under way before AUTH (`MayFollow`), and no INFO is left
to come. Before INFO was handled nothing but INFO is under way (`FreshOK`); the state
of the task and that of the connection determine each other (`TaskOK`). The
lemmas about requests in order show that `WillServe` is kept when a request is added at the end (`AppendServes`),
when the broker takes the first (`TakeServes`), and that resubscribing on INFO makes
it the set of subscriptions (`ReadyServes`); the last needs `subscriptions` finite, so
that it can be put in a sequence. That messages are read in order comes from `InOrder`:
what is under way is rising, and later than what was given.

`AsksProperly` speaks of the first request under way only, so its invariant has to speak
of the others: `AllProper` says that there is a list of what the broker serves after
each of them, beginning with what is in force now and ending with `subscriptions`, and
that each request is proper where it comes (`ProperOK`). `subscribe` adds a request at
the end, if it adds one at all (`ProperAppend`); the broker takes the first
(`ProperTake`); a new connection begins with AUTH and each subscription once, in whatever
order the set is walked (`ReadyProper`). Since the list may be anything a function on
numbers can be, no recursion is needed. This is where the two halves of the project
meet: `AsksProperly` is, of one connection, what `NeverTwice` and `ProperPeers` assume
of a broker's peer (below `NoStale`, `GaugeExact`, `KeepsProper` above), as far as AUTH
and subscriptions go. The blocking session is not such a peer: its `subscribe` writes
whether or not the channel is in `subscriptions`
(`blocking/session.py`), so a user who subscribes twice leaves a stale entry in the
broker.

For the Twisted client, with the same freedom:

| theorem | states |
|---|---|
| `TypeCorrect` | `Spec => []TypeOK` |
| `FiredOnce` | `Spec => []InfoFindsUnfired`: only ERROR makes `dataReceived` raise |
| `KeepsPromise` | `Spec => ImplementsSession` |
| `Asks` | `Spec => []AsksProperly` |

*Argument.* The same as for asyncio, with the states of the ClientService in place of
those of the task (`StateOK`): `FreshOK` holds of a connection that is closing or broken
too, since a batch that came before may yet be handled. That a message is given to a
reader only if none waits in the queue, as `Session` has it, needs that nobody waits for
a message while there is one (`QueueOK`). `InfoOK` says that a connection hears no
second INFO, which gives `FiredOnce`; it rests on the broker's saying INFO once.

For `ServerLifecycle`, any stack of authenticators and any endpoints, users, clients
and cancellations (`KindsAssumption`):

| theorem | states |
|---|---|
| `TypeCorrect` | `Spec => []TypeOK` |
| `EndReleases` | `Spec => []Released` |
| `FindsAgain` | `Spec => UsersAreFound` |

*Argument.* `Released` is about the end only. `IInv` says at every place of the task
what is still held there: the servers that listen are on the list (`ServersOK`), a
watcher of certificates is in `cleanups` (`WatchersOK`), which of the exporter, the
collector and the authenticators are open (`ClosedOK`). `UsersAreFound` compares a lookup with
the answers given before, to whichever client. `AnswersOK` remembers of each answer that
its authenticator has the user (or answers later, for anybody), and that those before it
have not, or are the JSON store: the store never forgets what it loaded (`LoadedStays`).
A lookup takes the least index of those that answer, so it finds the same one, or the
JSON store (`FoundByTheSame`). That there is a least (`LeastOf`) comes from the order on numbers
being well founded (a set without a least element gives a descending sequence), since
induction over an operator is not to be had.

For the blocking client, any finite set of threads and any number of connections,
calls and messages, and any capacity of the sockets (`BlockingAssumption`):

| theorem | states |
|---|---|
| `TypeCorrect` | `Spec => []TypeOK` |
| `Woken` | `Spec => []GetFindsItem`: nobody blocks in `Queue.get` after having taken a byte |
| `Written` | `Spec => []WireInOrder` |
| `ReadOnce` | `Spec => []ReadInOrder` |

*Argument.* The items of an outbox are as many as its bytes and the threads that have put
an item and not yet its byte (`OutboxOK`, for every outbox ever made); those of the read
queue as many as its bytes, the threads that have taken a byte and not yet its item,
and the reactor if it is between the two (`ReaderOK`). Threads are counted as sets, so
that each step moves one of them. `GetFindsItem` follows, as whoever is
about to `get` is one of those counted. What `select` found readable stays so until the
reactor gets to it, because only the reactor takes bytes from an outbox
(`ReadyOK`). No thread can hold an outbox that is still to be made
(`FreshOK`), so a new connection begins with an empty one. `WireInOrder` is
inductive with these; a send cuts the buffer anywhere, and messages are two cells
each so that it can cut one in two (`Split`, `SplitConcat`). `OrderOK` says of reading
what `InOrder` says above.

For `Framing`, any limits `MAXBUF` and `MAXAUTH` (`ProtocolAssumption`), any number of
messages, and any messages that can be written at all (`FramingAssumption`; they may be
illegal):

| theorem | states |
|---|---|
| `TypeCorrect` | `Spec => []TypeOK` |
| `ReadsBack` | `Spec => []ReadBack` |
| `RefusesForCause` | `Spec => []RefusedForCause` |
| `HoldsNothingBack` | `Spec => []NothingHeldBack` |

*Argument.* First `protocol.py`: four bytes give back the length that was packed
(`PackUnpack`), a string is read back from the front of anything (`StringRead`), and so
are the fields of a message (`FindsFields`), so that reading it returns it or raises
for its strings' sake only (`ReadsBody`), and its header as soon as it has arrived
(`HeaderRead`); `ready()` raises for exactly the illegal messages (`RaisesIllegal`), and
`pop()` takes a message that has arrived whole and nothing but it (`MessagePopped`). All
of this holds with any bytes behind. The invariant then says that what is buffered and
under way *is* the messages not yet popped: there are sequences v[i], what follows the
i-th message sent, such that the one after the last message popped is the buffer and the
stream, the one after the last message sent is empty, and each is the next message
followed by the next sequence (`Cut`). Stated so, it needs neither a recursive function
nor induction: a `Send` adds its bytes to every v[i], `Feed` leaves them alone wherever
it cuts, `Unpack` moves to the next. TLC checked an equivalent form of the invariant, with
the v[i] computed, on the run's instance.

Only model-checked: everything under fairness (`BackpressureResolves`, `InputHandled`,
`Maintains`, `CloseReturns`, `Flushed`, `CatchesUp` and the other liveness properties), since
liveness and ENABLED are out of this prover's reach; and the two properties that are
violated. All safety properties of the passing runs are proved. `Framing`, `JsonAuth`,
`BlockingClient`, `AsyncioClient` and `TwistedClient` have a type invariant that no run
lists: there the theorem `TypeCorrect` stands for it, for all instances.

## 6. Not modelled

* What the SQL, Mongo and environment authenticators do to find a row: I/O. The
  broker takes any answer, now or later; the environment's is like `memory`.
* Messages that the reading functions cannot read, outside `Framing`: a string that is
  not UTF-8, and a body that is empty where a string should begin (`strunpack8`
  raises TypeError). They raise in the handler that reads them.
* A user's coroutine that is cancelled while it awaits `when_connected` of the asyncio
  session: the future is shared, and the cancellation cancels it, so that `on_info`
  raises InvalidStateError for it.
* Counters of the metrics and the pages the exporter serves: they only grow.
* The JSON store without `aionotify`: it loads once.
* `scripts/cli.py`: sequential, one session and one call. Parsing of options and
  of endpoint strings. Packaging, examples and documentation.
* Logging, socket options, digests, the bytes of payloads.

## 7. Plan

1. Done: all modules above and their proofs.
2. Open: the liveness properties stay with TLC; what is left of the other hazards in
   `PROJECT.json` is behaviour that the code promises nothing about.
