# A verification project for the Shadow plug-ins

The repository holds plug-ins for the Shadow network simulator: small network
programs, each a state machine that an event loop drives through `epoll`. This
directory models them in TLA+, checks the models with TLC and proves the
properties that matter most with TLAPS. Six plug-ins are covered:
**filetransfer** (client, server and both together), **ping**, **torcontrol**,
**torrent**, **web** (browser and server) and **pcap_replay**. The others are in the inventory.

Paths are relative to `src/`. `PROJECT.json` gives the lines that each definition
models, the hazards with the properties aimed at them, and for each property of a
passing run a mutant: a plausible bug that makes TLC refute the property.

## 1. Inventory

All plug-ins share one frame. Shadow calls `new`, `activate` and `free`. A plug-in
keeps an epoll descriptor of its own; `activate` takes at most ten ready
descriptors from it and calls the handler of each. Sockets do not block.
Shadow also calls back at a later time what was given to `createCallback`.
Everything runs on one thread: two activations never overlap, but anything may
happen on the network between two system calls of one activation.

| Component | State | Operations | Talks to |
|---|---|---|---|
| **file server** `filetransfer/fileserver.c` | table of connections; of each: state, epoll interest, request buffer, reply buffer with read and write offset, open file, progress record; counters of the server | accept until nothing is left, activate a connection, shut down | sockets, file system; `filetransfer.c` logs the progress record |
| **file getter** `filetransfer/filegetter.c` | socket, state and next state, `errcode`, buffer with two offsets, expected and downloaded bytes, current and aggregate statistics | start, download, activate, shut down | a SOCKS proxy, a server; the service reads its return code |
| **download service** `filetransfer/service-filegetter.c` | state, specifications of the server and files, downloads left, expiration, think times, `wakeup` time | launch, activate from an event or a timer, stop | owns a file getter; asks the plug-in for timers |
| **filetransfer plug-in** `filetransfer/filetransfer.c` | the client and the server of a host | event loops, sleep callback, logging | Shadow |
| **ping client** `ping/ping-client.c` | state and next state, buffer with two offsets, descriptor, `pingsSent` | start, activate, send a ping and schedule the next, wake up, shut down | a SOCKS proxy, the ping server, two kinds of timers |
| **ping server, plug-in** `ping/ping-server.c`, `ping/ping.c` | table of connections; count of pings; client and server | accept, receive and parse, event loop, restart of a failed client | Shadow |
| **tor control** `torcontrol/torcontrol.c` | of each connection: send and receive buffer, reply lines, epoll interest, module | connect, activate, send a command, parse replies and events | a Tor process; calls back its module |
| **circuit builder, logger, pinger** `torcontrol/torcontrol-*.c` | set-up state; queue of circuits and their ids, node waiting times; ping circuits outstanding, timer | initialise, reply handler, circuit, stream and status events, timer | the tor control connection |
| **torrent** `torrent/` | authority: table of servers; server: state of each connection, block offsets; client: state of each connection, **one** count of blocks left for all of them | register, ask for servers, exchange a block, reconnect, report | authority, servers and clients, SOCKS proxy |
| **browser** `browser/` | one file getter per connection, queue of paths per host, think time | document, embedded objects, wake-up | file getters, a server |
| **echo** `echo/` | client: buffer and amounts; server: one buffer and one pair of offsets for all connections | send once, receive, compare; receive, send back | peer, pipe or socket pair |
| **web connections** `web/utility/connection.cc`, `myevent.cc` | SOCKS state, callbacks and write interest, request under way and submitted, HTTP parse state | connect, submit, send, receive, end | the manager, a proxy, a web server |
| **connection manager** `web/utility/connection_manager.cc` | connections and waiting requests of each server | submit, next request, retry, release, reset | connections, browser |
| **web browser** `web/browser/browser.cc` | state of the load, embedded, received and expected objects, notification, timer | load, response, notified, time out, report, think | the manager, Shadow's callbacks |
| **web server** `web/webserver/` | of each connection a handler: input and output buffer, queue of requests, open file, epoll interest | accept, receive, parse, send, delete itself | sockets, file system |
| **pcap_replay** `pcap_replay/` | two queues of captures (paths and open files), the next packet, two flags of the server, the timeout | activate client or server, next packet, next file and restart, sleep, quit | the other end; captures through libpcap |
| **python**, **hello**, **tor-echo** | nothing of a protocol | | |

### What is hard in them, and what makes each correct

*File server.* A reply is a header and a file, copied through a buffer that is
refilled and sent in parts over many activations; the peer can close between any
two system calls. It is correct when each client receives exactly the reply to
its request, each reply counted was sent whole, no reply waits for an event that
nobody asked epoll for, and the server hangs up on nobody without a cause.

*File getter.* A reply is cut anywhere, the header included; a connection may be
kept for the next download, whose state must not mix with that of the last one; a
proxy may refuse or redirect. It is correct when a file is reported as downloaded
only with exactly its bytes, in order, and every download returns, with success
or an error, and leaves no connection behind.

*Service and plug-in.* Timers, events of the current download, expiration and
retry meet in one function. It is correct when a sleeping service has a timer,
the assertions of the file getter hold, the aggregate statistics are those of
complete downloads, and the service finishes.

*Ping.* Restarts can happen while a ping timer is pending, and set a wake-up that
calls the state machine next to the events. It is correct when there is never
more than one chain of timers, no ping goes to a proxy during the handshake, the
server counts no ping that was not sent and failures do not end the pings.

*Torcontrol.* Replies are matched to commands only by their order, events arrive
in between, and both can start the next circuit. It is correct when a circuit gets
the id Tor chose for it, one is asked for at a time, all are built and built again
when closed, and a command left in the buffer gets out.

*Torrent.* Several connections share one count of blocks; a list of servers is
taken from one `recv`; the authority keeps pointers to connections it has freed; an
error on one connection starts the client anew. It is correct when each block is
in one place, both ends agree on each block that is counted, and a client that knows a
server it can reach gets all blocks.

*Browser.* A hash table is keyed by the address of a descriptor that the file
getter sets to zero. It would be correct when each embedded object is fetched
once, each connection is in the table under its descriptor, and a page ends.

*Echo.* One buffer serves all connections, and the client sends once. It would be
correct when a client gets back what it sent, and nothing else.

*Web connections and manager.* A body is cut anywhere, connections are closed or refused
while requests wait for them, and the rest of a body is asked for on another
connection. It is correct when the body of each object is put together in order
without a gap, a request that the browser waits for is in exactly one place, and
no assertion fails. The entry of a server goes with its last connection, and
with it the requests that wait in it: only a load timeout helps then.

*Web browser.* Objects finish in any order, scripts name further ones, a time-out
and a notification race, and callbacks that are already scheduled meet the next
load. It is correct when a load ends with exactly one report, says success only of a
page that has all come, and never waits for nothing.

*Web server.* Requests are parsed while earlier ones are being answered; a socket takes
a part of a response; a client leaves at any time, and the write that fails and the
end of the stream are both reasons to go. It is correct when responses are exact, in
order and complete, and a handler deletes itself once.

*Pcap_replay.* Both ends run through the same captures and advance on every event; each goes
to the next file on its own, when its packets are used up or the other end has closed, and the
server has to wait there for the client. It is correct when each side hands its own packets to the
socket in order, at the pace of the capture and none without its turn, when a new file starts
at its first packet, when the server sends nothing before the client and is not left
waiting, and when a timeout ends the replay.

## 2. Modules

| Module | Stands for |
|---|---|
| `Net` | descriptors, the two byte streams of each connection, what `recv`, `send` and `close` do to them |
| `FileServer` | `fileserver.c` and the server part of `filetransfer.c` |
| `FileServerSys` | the server with clients that keep to the protocol, and its properties |
| `FileGetter` | `filegetter.c` |
| `FileGetterSys` | the file getter with an abstract peer that serves, redirects, refuses or hangs up, and its properties |
| `ServiceFileGetter` | `service-filegetter.c` on top of `FileGetter` |
| `FileTransfer` | the service on one host and the file server on another, over one network, and their common properties |
| `FileTransferProofs` | proofs about `FileGetterSys`, `FileServerSys`, and the service in `FileTransfer` |
| `MCFileServer`, `MCFileGetter`, `MCFileTransfer` | lengths of files and messages in the instances |
| `Ping` | both ends of the ping plug-in, a proxy and the network |
| `PingProofs` | proofs about `Ping` |
| `TorControl` | a control connection with its builder, logger or pinger, as operators on the record of the connection |
| `TorControlSys` | the connection with a Tor process, and its properties |
| `TorControlProofs` | proofs about `TorControlSys` |
| `Torrent` | authority, servers and clients of the torrent plug-in, a proxy and the network, and their properties |
| `TorrentProofs` | proofs about `Torrent` |
| `WebConnection` | a connection of the web browser and its socket event, as operators on the state of the process |
| `ConnectionManager` | the manager on top of it: pools, queues, retries |
| `WebBrowser` | `browser_t` on top of the manager |
| `PageLoad` | the abstract specification: what loading pages promises, whatever connections do |
| `WebClient` | reading of responses, dispatch of events and callbacks, the network; `PageLoad` with a refinement mapping; the properties |
| `WebClientProofs` | proofs about `WebClient`, whatever fails |
| `WebLoadProofs` | proofs about `WebClient` with a page that names no object twice, up to the first odd event |
| `WebServer` | the web server with its clients, and its properties |
| `WebServerProofs` | proofs about `WebServer` |
| `MCWebClient`, `MCWebServer` | the page, the files and the settings of the instances |
| `PcapReplay` | client and server of pcap_replay and their connection, and their properties |
| `PcapProofs` | proofs about `PcapReplay` |
| `MCPcapReplay` | two captures |

### How they correspond to the code

**Steps.** One action is what the code does from one system call, or one entry
into the state machine's `switch`, to the next. The function that is running is
part of the state (`cur` and `pc` in `FileServer`, `run` in `FileGetter`, `by` in
`Ping`), so that the network and the peer move between two system calls of one
activation, and nothing else of the same host does. A `while` around the `switch`
is a sequence of such steps, and the activation ends where the code returns.
In `TorControl` the handler of one line is one action, which is a composition of
operators named after the functions: between two of its system calls only bytes
can arrive, which the handler does not look at. In `Torrent` an activation of
the authority or of a server is one action, since it makes one system call on the
connection (a server that receives and sends does so in opposite directions); an
activation of a client, which goes through its handshake without a pause, is one step
per state, and `act` names the connection.
In `WebClient` a callback, a timer, or the handling of one event is one action: in the browser's
process nothing the network does is looked at in between but what one `recv` returns. In
`WebServer`, where the socket's room decides what a loop does next, each pass of the
loops of `send_to_client` is an action. In `PcapReplay` an activation is one action up to where
it sleeps; a sleep blocks the process, and the other end goes on (`pc`). Callbacks that are scheduled for now run before
anything else, since code takes no time in Shadow.

**Data.** A byte stream is a sequence of units. In the file server and getter a unit names the message
it belongs to and its place, which makes "the next unit of this reply" something a
property can say; lengths are parameters. In `Ping` each message has two units, so
that it can be cut; the text of a ping is a line with the cookie, one with the time and an empty line, again and
again up to `pingSize`, each word and each line end of two units. In `TorControl` a line is one record, and a command a tuple. In `Torrent` SOCKS messages have
two units, words one, and a block as many as its size says.
The text of requests, headers and replies is left out; what decides a step (status,
content length, circuit id) is kept. Progress reports, byte counters and times are
kept where the code acts on them or a property compares them.

In the web modules a line of a header, or a piece of a body with its
place, is one unit; a retried request names the piece it starts from. A packet of a capture is its
sender, its size and its time, with `Second` microseconds in a second.

**Failures.** `Faults`, `FgFaults`, `PingFaults` and `TorFaults` name the system calls and
remote answers that may fail; each failing call is a branch of the action that
makes it. A run says which of them can happen.

**Odd events.** Some events lead the web programs and the circuit builder into code that is not written for them: an
assertion fails there, or two circuits are asked for. These events are in the models and in the runs. The history
variable `odd` remembers which have happened, and the properties say what holds until then, what goes on to hold after
it, and that nothing else has the same outcome. Section 5 lists the events. The history changes nothing
of what the model does, but it counts for two bounds: `odds`, how many odd events a run of the web client
has, and in torcontrol a buffer of which a part was taken is sent again once.

**What follows the environment.** Descriptors are reused after both ends
closed. Epoll is level triggered, and reports a hang-up whatever the interest is.
A `recv` returns any non-empty prefix of what is there, a `send` takes what
the socket has room for. Accepted sockets do not block, which the server never
asks for, since Shadow's sockets do not.

### Details a reader of the code will look for

- A 404 that does not pass `FS_REPLY_FILE_START` leaves the interest at `EPOLLIN`
  (`filetransfer/fileserver.c:319`). The 24 bytes fit an empty socket buffer, so
  no send has to wait, and the instances keep `NotFoundLen <= SndCap`.
- `filegetter_connect` does not close the descriptor of a `connect` that fails at once
  (`filetransfer/filegetter.c:99-105`): every failed try leaves one open (`"stray"`). Behind a redirect the new
  descriptor may have the number of the one just closed, which `fg->sockd` still has: then it is
  closed after all.
- `reply.done` is not reset between requests: from the second one on each report
  says that a reply is complete, and no property is about these lines.
- After a request longer than its buffer, the tail that is still in the socket
  is read as a request of its own and answered with a 404. The requests of the
  instances fit.
- `pingClient_connect` returns positive error codes, and `pingClient_start` tests
  for negative ones: `sock = "bad"` is a descriptor that is none.
- A ping counts as sent even when the socket did not take it.
- `pingServer_activate` parses what one `recv` returns by itself (`ping/ping-server.c:125-153`). It keeps cookie and time from one part
  of the text to the next and counts a ping at every empty part, the one behind the last line end included: a text
  that ends with its empty line counts its last ping twice. A line cut by `recv` is not understood.
- `torControl_sendCommand` and `torControl_activate` send the whole buffer again
  after a partial send (`torcontrol/torcontrol.c:831`, `:1030`). In the model a part is one whole command
  (`net = "tight"`): a send that ends inside a command, after which Tor reads a mixture of two, is not modelled. The
  socket blocks or takes a part only after set-up.
- The builder asks for a circuit when it is told that Tor has bootstrapped, also before the answer to `GETINFO`
  (`torcontrol/torcontrol-circuitbuild.c:178`): the answer is then taken for that to `EXTENDCIRCUIT`, and the progress for
  the id of a circuit. With `when = "during"` Tor bootstraps between `SETEVENTS` and `GETINFO`, and event and answer
  come in this order; in one `recv` or in two.
- A torrent client restarts as a whole on an error of any connection
  (`torrent/torrent.c:314`), at once, although the log says "retrying in 60 seconds": the
  sleep callback comes after the start. All blocks are asked for again. Its old connection to the authority
  stays open, and nothing that arrives on it is read.
- A proxy that names another address leads to the same restart as one that refuses: of the descriptor that
  `torrentClient_connect` returns, `torrent/torrent-client.c:258` expects `TC_SUCCESS`.
- When the last block is counted, the client is freed inside the loop over ready
  descriptors (`torrent/torrent.c:347`). With another one ready the loop goes on with a null
  pointer: status `"crashed"`, after the client has reported that it is complete.

- `browser_t` counts a resource that was given up as received (`web/browser/browser.cc:485`): the
  load ends, and the report says `FAILED`.
- `content_range_found` is a local variable of `http_receive` (`web/utility/connection.cc:681`), so that
  a header that takes two reads loses it.
- The connection manager hands a finished connection the next request, so that at the end of a script it
  may be given two (`web/utility/connection_manager.cc:170`): `sub` and `act` of a connection.
- `HTTP_REQ_STATE_HEADERS` gives a range to the last request in the queue
  (`web/webserver/handler.cc:371`), whichever that is by then.
- The web server reads a file until a short block: for a file of a whole number of blocks
  an empty read ends it (`web/webserver/handler.cc:599`).
- A write that fails is followed by `readcb` of the same trigger (`myevent.cc:286`). With a request
  still queued the handler does not read; after the last file it takes the front of an empty queue, and would read.
- A failed `myassert` ends the web programs (`s.abort`, `died`): nothing happens after it.
- A retry after a fatal error starts the file getter anew, its aggregate statistics included
  (`filetransfer/service-filegetter.c:385`): what `[fg-finished]` reports covers only what came after.
  `Settles` asks for all of it, in a run without failures.
- In pcap_replay the server that accepts has already read its next packet, and does not send the one
  it kept (`pcap_replay/pcap_replay.c:251`); an event that only says readable frees a packet unsent as well
  (`:137`, `:324`). A server with no packet left before it accepts sends to the listening socket (`:221`).
- A server in the loop of `pcap_replay/pcap_replay.c:204` whose client has closed never leaves it:
  `pc` is `"spin"`.

## 3. Runs

| Run | Instance | Question |
|---|---|---|
| `fs_serve` | one connection, files of 0 and 3 units, a missing file and a malformed request, two requests, no failures | are replies exact, in order and counted, and is every request answered? |
| `fs_boundary` | files of 0, 1, 3, 4, 6 units around a buffer of 3 and a header of 2, failing `recv`, `send`, `fopen`, `epoll_ctl` | does the buffer arithmetic hold (this is the invariant of the proof), and is an unprovoked hang-up always explained by an aligned length? |
| `filegetter` | two downloads of files of 0 and 4 units, kept connections, two descriptors, a proxy that refuses, accepts or redirects, a peer that may hang up, failing `recv`, `send` and `connect` | are bodies exact, does each download return, does it leave no descriptor open but those of connects that failed at once? |
| `ft_service` | client and server, two downloads of files of 1 and 2 units (with the header, the first fills the reply buffer and the second does not), think times 0 and 2, expiration at 3 | do the two ends agree, as far as the length of the reply lets them, do the assertions hold, does the service finish with complete statistics? |
| `ft_faulty` | a missing file, refused and failing connections, failing sends of the server, retry | does the service count exactly the downloads that were complete? |
| `ft_retry` | a connection that cannot be opened when the retry timer fires | *violation*: the service sleeps for good |
| `ping` | with and without proxy, up to two failures of four kinds, two pings whose text is a stamp and the cookie of a second one; a socket of 13 units, a `recv` of 15 | one chain of timers, no ping before the grant, none counted that was not handed over whole and none more than twice, pings go on |
| `torcontrol` | builder, logger, pinger; Tor boots before, during or after set-up; two circuits, one loss, one stream, a socket that blocks or takes a part | ids are right, one circuit at a time and all are built, until an odd event; one ping at a time and pings go on, whatever happens |
| `torrent` | a client, two servers that register before or after it asks, two blocks of 3 units down and 1 up over socket buffers of 2, a proxy, one reset, refusal or rejection | is each block in one place, do both ends agree on it, does the client complete? |
| `web_client` | two loads of a page with a script and two servers; without and with proxy, timeout, and a second connection; up to two connections closed or refused, one retry, and in two of the four settings one odd event | does an assertion fail only after the event that leads to it, are retried bodies whole, is each request in one place, does no load wait for nothing, is `PageLoad` implemented? |
| `web_server` | a client with up to three requests and one with a range; files of 1, 2, 5 pieces around a block of 2; clients that wait and that send one request ahead; sockets of 2 and of 6; requests read in parts; clients leave at any time, also after the last file was read | are responses exact, does an assertion fail only after the event that leads to it, does a handler go once, is every client that stays answered? |
| `pcap` | two captures, a connection of 3 units, a `recv` of 2, files that cannot be opened again, timeouts at any time | do packets go in order, at their pace, none without its turn; does a restarted server wait and then go on; does a timeout end the replay? |

**Bounds, and why they are enough.** What the handlers compare are a length with
the size of a buffer and offsets with each other. The files are chosen on both
sides of each such boundary: empty, in the same buffer as the header, ending at
its end, in the second buffer, and filling two buffers. A socket buffer smaller
than the program's makes every send partial. `MaxRequests = 2` makes a
connection go through every state twice, which is what shows a missing reset; a third
request starts in the state of the second. Connections share nothing in the
server but its counters, hence one connection in the runs of the server and two
descriptors where the client opens a second one; the proofs hold for any number. In `ping`,
two failures let the client fail in a restart after a restart; a ping of 12 units is a whole stamp and the cookie
of a second one, so that a `recv` may end behind the empty line, or anywhere else; the socket takes one such ping and a unit of the next, and a
`recv` of 15 units takes parts of two. In
`torcontrol`, two circuits are the least that can be confused, and three made by Tor
leave one to build again; one buffer that is sent again shows what a repeated command does. In `torrent`, two servers make two connections share the count; with two
blocks both may be taken, or one server gives both, and a block larger than the socket buffer is sent in parts. One fault is
enough for a restart from every state; the client after it is in its first state, so that
a second one adds nothing but length. Clients share nothing but the lists of the authority.
In `web_client`, the page has what decides something: an object at another server, a
script, and two objects behind it that compete for one connection. Two loads show what
the first leaves behind, and two losses with one retry reach the point of giving up. The settings with
an odd event allow one, of any of the three kinds: the assertion it leads to ends the process.
`ConnIds` allows for the connections of the load before, which are deleted later. In
`web_server` the files lie below, at and above a block, a socket of 2 makes every response
partial and one of 6 takes a burst of 4, after which requests are looked at in the middle of a file; with a
client that sends ahead the next one has been read by then. In `pcap`, the captures have what decides something: packets of
neither side, packets without payload, bursts that fill the connection, a time that needs a borrow and times
out of order; two of them make the rotation visible. Time in the service is a counter that stops at the
largest time the service waits for. Every other counter is bounded by one of these.

`CHECK_DEADLOCK FALSE` stands where the system ends: a service that is done, an
instance whose requests, faults or pings are used up, a client or server that has quit. `fs_serve` has no such
end and is checked for deadlock.

**Fairness.** Each event loop calls the handler of a ready descriptor again and
again, and each handler that was called goes on: weak fairness of the steps of an
activation; in `FileServerSys` strong fairness of the steps of each connection (`ServerStep(c)`), since with
another one being activated they are not continuously enabled, and epoll still hands out
every ready descriptor. With one connection at a time (`FileTransfer`) weak fairness is enough. Timers fire (weak fairness of `Tick`; strong fairness of
the timers of ping and torcontrol, because they can only fire between two activations). The
network connects and delivers, a client that asked goes on sending and reading,
Tor and the proxy answer. In `Torrent` strong fairness of the events of each connection of a client, and of its
messages from the authority, since an activation of another one disables them for its time. In `WebServer` the
handling of a ready socket goes on (weak fairness), each handler is found ready in the
end (strong fairness per connection, as the others disable it for their time), and a
client that stays asks for what is left of its wish and reads (assumed of the clients).
In `PcapReplay` each event loop activates and each sleep ends (weak fairness); nothing makes time run out.
`WebClient` states no fairness: that a load comes to an end is expressed by the
invariant `NeverStuck`, that nothing being left to happen means that no load is waiting.
Otherwise nothing makes a client ask or close, or a failure happen or stop. `torcontrol` also assumes that a blocked socket opens.

## 4. Proofs

TLAPS checks all of them from nothing but the named assumptions on constants.

**File server** (`FileTransferProofs`), for any number of connections and clients, any files
and lengths, buffer sizes and failures. Assumed: `SocksAssumption` and `KindsAssumption` (a
descriptor is not the absence of one, a file not a special request), `SizesAssumption` (lengths are natural
numbers; requests, headers and socket buffers have at least one unit), `BufferAssumption` (the
header fits the reply buffer with room to spare, the 404 fits, the request buffer
has more than one unit), `FaultsAssumption`, `MaxRequestsAssumption`.

- `TypeCorrect`: the types, with both offsets inside the buffer.
- `BufferArithmetic`: `ReplyInv`, for each state what is in the buffer: before the
  reply nothing; while the file is open, the units after the last one sent up to
  what was read; after it is closed, exactly the rest.
- `HangUpOnlyAligned`: the server closes on its own only after the whole reply, and
  only when header and file fill the buffer a whole number of times.
- `RepliesCountedExactly` and `StreamInOrder`: action properties, a reply is counted
  when all of it is out, and each send appends the next units of the reply.

The inductive invariant is `IInv`, the conjunction of `SysTypeOK`, `Registered`
(only registered connections are activated), `ReplyInv`, `ClientInv` and
`CloseOnlyAligned`. The two action properties do not follow from the types: that a
send hands out the *next* units needs the contents of the buffer in `ReplyInv`, and
that the count is right needs to know, in the state that flushes, that what is
left in the buffer is all that is left of the reply. The alignment needs that every
refill but the first starts from an empty buffer and fills it, `wr \in {0, BufSize}`.
Each action has a lemma for the types and one for the rest, an action of another
connection is dealt with once (`Registered` and the functions' `EXCEPT`), and the
temporal steps are one line.

- `StreamIsFaithful`: `StreamFaithful`, what is on its way to a client is always the next part of the
  reply to what it asked for, and nothing if it asked for nothing.

This one needs two more assumptions, stated in the theorem. Files can be opened (`"file" \notin Faults`): one
that exists and cannot be opened is answered with a 404. And a request fits the buffer with its
terminator (`RequestsFit`): a longer one is answered with two 404s, and TLC finds the violation with
`ReqBufSize = FileReqLen = 3`. The invariant `StreamInv` adds, for each connection, where the exchange stands on both
ends (`Exchange`): every unit of the request is unsent, on the way or in the buffer (`Asking`); all of it was read
and no reply begun (`Starting`); the reply is under way and what was received, is on the wire and is left
in the server's buffer and file continue each other (`Replying`); all of it is handed over (`Finished`); or the
client has it all and the server, its buffer full, has not seen the end of the file and is about to hang up (`Stalled`).

**Download service** (in `FileTransferProofs`), for any network, failing
calls, think times and expiration. Assumed further: `GetterAssumption` and `ServiceAssumption`.

- `CountsAreExact`: `CountExact`, the service makes the downloads it was asked for and no more, and all of
  them if it stops before its expiration.

A service that has made its last download stops at once, and nothing calls the file getter of a stopped one:
`CountInv` says that, and that below the number asked for the count is what it has still to reach. What the
file getter and the server do in between changes none of it, so one lemma serves all their steps.

**File getter** (`FileTransferProofs`), for any files, sizes and redirects, with a proxy or without, any failing
calls, on new connections and kept ones. Assumed: `SocksAssumption`, `KindsAssumption`, `SizesAssumption`,
`GetterBufferAssumption`, and `GetterAssumption` (among others that the two replies of the proxy that name an IPv4 address
have one length: the code reads ten bytes).

- `DownloadsAreExact`: `DownloadExact`, a download that succeeds has the whole file and nothing else, a 404
  means that there is no such file, and what was received is a prefix of the file at any time.
- `OnlyFailedConnectsLeft`: `Tidy`, a descriptor that was connected, or may yet be connected or refused, is the one
  the file getter holds, after any error, a 404 or a redirect. The descriptors of connects that
  failed at once are the others that stay open, and the code does leave them open.
- `AssertionsHold`: `NoAbort`, no assertion fails, when the caller restarts after an error as that of `FileGetterSys` does.

What a download has depends on every message before it: the greeting and the request of the proxy, a redirect, the header
and the file go through one buffer, and a connection may be kept for the next. `GetterInv` says where each
of these exchanges stands on both ends. Before the reply, what of the request is unsent and on its way (`Sending`), and
what of the answer is in the buffer, on the wire and still with the peer (`Awaiting`), continue each other. `Downloading` says this of
the file, with the body as the part before. `Parked` lists the states in which an activation can stop and the room
that is left in the buffer there; without it a `recv` into no room would read as the end of the stream. A reply has no more units than it
announces, so nothing follows it and a kept connection is clean. All this holds as long as no error was
returned; after one, nothing is said but that the caller can only start again.

**Ping** (`PingProofs`), for any ping size, buffers, number of faults and pings. Assumed:
`PingAssumption`.

- `OneTimerChain`: at most one callback to `pingClient_sendPing` is pending, and
  only in state `IDLE`.
- `PingsFollowGrants`: nothing that a proxy has to see before its grant is a ping.
- `NoPingFromNowhere`: `NoPhantomPing`, the server reports no ping without a time stamp that was handed whole to a socket,
  and none more than twice, over hang-ups and restarts and however the texts are cut. Twice is what the code does
  with a text that ends with its empty line; that a ping is reported once would be false.

None is inductive. `PingInv` adds where `SEND` and `RECEIVE` can return to, that no ping
ever enters the client's own buffer, and that until the proxy has granted the
request no grant is on its way or in the buffer of a client that is about to
look there. The last is what makes the stale buffer of a restarted client
harmless for these two properties: it holds what was to be sent to a failed
connection, or a reply whose state is left by the restart. For the third, `Counted` says that twice the stamps that were handed whole
are at least the pings reported and twice the stamps that arrived or are on the wire; `Shape`, that a unit of a
text follows the one before it, except where what was received begins or another text was cut off. From
that follows `ParsedBound`, about the parser alone: an empty part in the middle of a text stands four units behind a time
stamp that is whole, so a text is counted at most once for each of these, and once more at its end.

**Web server** (`WebServerProofs`), for any number of connections, clients, files, ranges, block,
burst and socket sizes, and whatever the clients do and `recv` returns. Assumed: `ServerAssumption`, and in the
theorems `MaxPipeline = 1`, the value of `MAX_PIPELINE_REQS`.

- `HandlerDeletedOnce`: `DeletedOnce`, a handler schedules `delete_handler` once, and never after it is gone, until a
  write fails after the last file was read.
- `ResponsesAreExact`: `ResponsesExact`, however far a client sends ahead, until a read takes only a part of what
  was sent.
- `ServerStaysUp`: `ServerNeverAborts`, the server dies in four ways only (section 5), each after the one event that leads
  to it: the assertion on the length of a body never fails, the one on the queue only after a
  burst that ended with the next request read, a range meets no request only after a read of a part, and the front of an empty
  queue is read, or a handler deleted twice, only after a write that failed after the last file.
- `OneAtATime`: `NoBurst`, a client that waits for each answer meets no such burst, if its requests are read at once.

A failed write schedules the deletion, and the same trigger goes on to the read side, where the
end of the stream would schedule it again. What prevents that is the full queue, three calls
away: if a request is left when the write fails, the queue, which holds one, is full and the socket
is not read. `DInv` (`Scheduled`, `QueueFits`, `AtWork` and the types) and `Once` say so. After the last file nothing
prevents it: that is the event "late". With `MaxPipeline = 2` TLC finds the second
deletion without it. `LInv` adds `FileStands`, that what is missing of an answer is missing of the file, and `Fates`, where the
failures come from. Nothing in it depends on how requests arrive.

`SInv`, which holds until a part of the input is read (`SUntil`), follows the stream through the server. For each connection there is a number d of
requests answered (`Standing`): the queue, `inbuf` and the socket hold the requests from d + 1 to the last one
sent, one after the other (`Unanswered`, with `InLines` for the lines of several requests), and what was
received, is on its way and is in `outbuf` is, put together, the answers to the first d, or those and as much of
the next as the position in the file says (`MadeOf`). A client that waits is ahead of that by one request, or
by two while the server has not yet seen the end of a file that the client has all of (`OneAhead`); that the
queue still has room then is what `OneAtATime` needs. `Answers` is a recursive function;
the number of requests sent is where the induction is done: `Answered`, that the answers up to that number follow each other, is part of the
invariant (`Wished`), and sending one more request extends it by one answer.

**Pcap_replay** (`PcapProofs`), for any captures with normalised times and a packet of each side in the
first one, any sizes, and files that can or cannot be opened again. Assumed: `PcapAssumption`.

- `CapturesInStep`: `FilesInStep`, while a peer runs its two queues name the same files, the
  capture in use stands at the packet that goes next, and the others are unread.
- `ReplayIsPaced`: the sleep between two packets is exactly the time between them, also when the
  later one has the earlier time (`timeval_subtract` borrows and carries).
- `FilesComeInOrder`: the captures are replayed in their order, and after the last comes the first.
- `NoPacketPassedOver`: a packet is passed over only by the server that accepts, on a full
  connection, or when the other end has closed.
- `ServerHearsFirst`: `ServerWaits`, after a restart the server sends nothing before it has read something,
  if the first capture has more than one packet of the server (`AcceptsFirst`).

The invariant `PcapInv` is the types with `FilesInStep`: that the next packet lies in the file at
the head of the queue is what gives it a time to subtract, and that the two queues are in step makes the
rotation, which pops and pushes each of them, keep it. The order of the files needs to know more of the queue
than that its twin agrees: `InTurn` says that it is a ring, the captures in their order from any one of
them on, so that what a rotation brings to the head is the next.

`HeardInv` says that either of the server's two flags stands for something read since the restart. Draining sets
the first flag, and what makes the connection readable then is data; but a server that has not accepted drains the
listening socket, where there is nothing to read. Hence `AcceptsFirst`: the server accepts when it goes on
to its second packet, and so before any restart. Without it `ServerWaits` is false (section 5).

**Web client** (`WebClientProofs`), for any page and sizes, any settings, any number of loads and dropped
connections, a proxy or none, and all odd events. Assumed: `ConnectionAssumption`, `BrowserAssumption`, the
assumptions on the settings, and in the theorems `ConnIds = Nat \ {0}`: the code allocates as many
`Connection` objects as it wants, and the set is finite only for TLC.

- `WebInvariant`: `WebInv`, the invariant below.
- `BodiesAreWhole`: `BodiesWhole`, every body is put together in order, without a gap and without a piece twice,
  over retries with a range, pieces of any size, time-outs and failed assertions.
- `RequestsAreConserved`: `RequestsConserved` as long as no assertion has failed. A failed one ends the process
  between two assignments, so nothing can be said of the requests after it.

A piece of a body is appended at the place its request has reached. That this is its place depends on the
range the retry asked for, which depends on where the last connection was cut, on how the request got from there into
the queue of the server and into another connection, and on the reader of that connection being at the point of
the response that its state says. `WebInv` has a part for each. `Sound`: a connection is in the list of one server or about
to be deleted, once (`Listing`, `Doomed`), and a request is in one place (`Queues`, `Loads`, `Apart`). `Flows`: a request that is
not yet sent asks for what is missing of its body (`Asks`), and what a connection has still to read, `inp \o todo`, is
nothing or the rest of the response to its request from a position p, where p stands for the state of the
reader (`Reading`); in the handshake with the proxy it is one reply (`Shaking`). `Counted`: the requests the browser waits for are those
that are somewhere and those lost. An operator of the lower modules, such as `SubmitRequest` or `ReleaseConn`, runs in the middle
of an action, when the request it handles is nowhere or the count is not yet right; so `Good(t, P)` is stated for
a state record t and a set P of requests, every operator has a lemma that says what it does to
both, and the loops (retries, what a script names, what one `recv` returned) are inductions on the natural numbers over
recursive functions. An event that is still in `batch` when its connection is released would be an event of a deleted
object; that this does not happen needs that each of them is of a connection that some server has.

**Loads of the web client** (`WebLoadProofs`), for any page, sizes, settings, loads, dropped connections and odd events as
above, under one more hypothesis. `NamedOnce`: the document and the scripts name no object twice; `request_one_url` asserts that
what is asked for is not waited for already (`MCWebClient` assumes it of its page, so that TLC evaluates it).

- `AssertionsHold`: an assertion of the browser, the manager or the connections fails only after one of the three odd
  events of section 5. Which of them follows which is what `NeverAborts` says in the run.
- `LoadsGoOn`: before any of them, `NeverStuck`, a load never waits for nothing, except when no timeout is set and a
  request was lost that waited at a server whose last connection was closed. The run checks it also after
  them.

`CalmInv` is what `WebInv` lacks for that, until something odd happens (`CalmUntil`). Its part about the connections is `Neat`: each has the events enabled
that it waits for; one that is closed has no second request, and while there is something to read no script under way, for the
end of a script may put one behind it; a header is either all there or not begun (`Begins`), and a response that
is awaited is there, or on its way, up to its end (`Ends`). `Busy` says that a request waits at a server only if that has connections
and all of them are at work: this is what the manager's three ways of handing on a request have to keep between
them, and why a waiting request is taken up at all. `Stage` relates the load to what will call back: `notified` is set
exactly while `on_notified` is scheduled, once, or the think time runs (`Bell`); the timer of a load under way is among the
timers, and none is of a load to come (`Clock`); and each state of the browser says what it waits for, with the objects
asked for being those received and those waited for, all named by something received (`Phase`, `Wanted`). An event
still in `batch` must stay true while other connections are handled (`Due`): handling one connection leaves to
all others what they have to read (`LikesBut`). In the middle of an action one connection is exempt (`Mild(t, i)`): a
connection that is being read is between two responses, one being released is at work with nothing. That nothing being
left to happen means that nothing is waited for then takes one lemma (`NoneAsleep`): a connection at
work with an empty socket would have to be reading, writing or connecting, and is none of these.

**Torrent** (`TorrentProofs`), for any sets of servers and clients, any number of blocks, block sizes, faults and socket
sizes. Assumed: `TorrentAssumption`.

- `BlocksAreConserved`: while a client runs, each of its blocks remains, is under way on one connection, or has been
  downloaded, whatever the connections interleave and over resets, refusals and restarts.
- `BlocksAreExact`: an action property, a client counts a block only when both ends of the connection have
  sent and received all of theirs and the server is back where it waits for a request.

That the two counts meet is a fact about two programs and what is between them. `TorrentInv` says for each
connection which pairs of states can meet, with what is still in flight in each direction (`Connected`): before the
handshake, asked, exchanging, exchanged but not told, told, gone. The units between the ends and those already
received add up to those sent; a connection that was reset is empty and its client end about to close. `Running`
ties the connection a client works on to `act`, and `Conserved` has the types of the counts that
`BlocksConserved` adds. A step of one client leaves the connections of all others alone, which is shown once.

**Torcontrol** (`TorControlProofs`), for any number of circuits, losses and streams, any modules, whenever Tor bootstraps,
and whatever the socket takes. Assumed: `TorControlAssumption`, `TorAssumption`, and nothing in the theorems.

- `BuildsOneByOne`: `OneBuild`, the builder asks for one circuit at a time and is waiting for the answer in
  `GET_CIRC_ID` and in no other state, until an odd event.
- `IdsAreReal`: `CircuitIdsReal`, the id the builder stores is one that Tor gave to that circuit, until an odd event.
- `OnePingAtATime`: `OnePing`, the pinger has at most one of a circuit asked for, a circuit extended, and a timer; no
  event ends that, a repeated buffer included.

The odd events are that the builder handles the bootstrap event before the answer to `GETINFO` (`"early"`), and that the socket
gets room for a part of what is in the send buffer (`"short"`). TLC finds that either leads to a wrong id
when its name is taken out of the property.

Replies carry nothing that says which command they answer: the code relies on its state and on the
order. The invariants `BuilderInv` and `ManagedInv` say for every state of a module which commands Tor has
not seen (`Cmds`: those in the buffer and those on the wire) and which lines are not yet handled (`Due`: those
on the wire and those read), and that an event may come between them but not change them. The builder's
has a part for each stage: `Start`, `Setup`, `Checking`, `Creating`, `Building`, `Built`; `RaceInv` is that of the race: Tor has
bootstrapped during set-up, nothing is built yet, and what comes before the news of it starts nothing (`Racing`). For the pinger,
`AsksOnce` says that nothing stands behind `EXTENDCIRCUIT` in the send buffer, so that no part of the buffer contains it that is
not the whole. `Due` is a sequence of which a read
moves a part from one place to another, so most actions keep it by associativity, and only a command sent,
a reply made and a line handled change it.

**Only model-checked.** All liveness (`Answered`, `Finishes`, `Settles`,
`PingsGoOn`, `AllBuilt`, `PingsContinue`, `Completes`, `AllAnswered`, `ServerResumes`, `OneQuits`), which is out of the prover's reach;
of the service, `NoAbort` with the service as the caller, and what the two ends agree on
(`ServerCounted`); of the web browser the refinement of `PageLoad`, and which assertion follows which odd event
(`NeverAborts`). The other way round, the type
invariants (`TypeCorrect` and the ones inside `PingInv`, `DInv`, `PcapInv`, `TorrentInv`, `BuilderInv`,
`ManagedInv`, `WebInv` and `CalmInv`) and `FilesInStep` are proved for all instances and are in no run.

## 5. Disagreements between code and text

One run ends in a violation of something the code itself says. `ft_retry`: "retrying in 60
seconds" is not kept when the connection cannot be opened at that time. `PROJECT.json`
quotes the lines.

In the file server, a reply that fills the buffer a whole number of times makes the server take its
own empty send for "other side closed" (`filetransfer/fileserver.c:437`) and hang up on a client
that is there and has everything; the reply is never counted. `CloseOnlyAligned` says that this is the only such case, and is
proved; `ServerCounted` says of which replies the server knows, and its run has both kinds of files.

In pcap_replay three things that the texts say are not so. The timeout "after which the plugin will exit
gracefully" (`pcap_replay/README.md:25`) is looked at only behind the sleep between two packets: when one end has
closed, the other restarts at every activation and returns before that, for ever, which is why `OneQuits` says
no more than that one of them quits. A server "waits for a new connection" when its
client has closed (`pcap_replay/pcap_replay.c:335`), but reads the end of the old one for ever
(`"spin"`). And the payload that is "extracted" from a packet (`pcap_replay/README.md:28`) is a pointer into the
buffer of libpcap, which the next packet is read into before the send; this is not in the model, where
a packet is its place in a file.

These are the odd events of the runs, and what the code does after them. Each run has its events; what the properties
say of them is in the last column.

| Module | `odd` | Event, and what follows | Properties |
|---|---|---|---|
| `TorControlSys` | `early` | Tor bootstraps between `SETEVENTS` and the answer to `GETINFO`: the progress is taken for the id of a circuit, and a circuit is asked for twice | `OneBuild`, `CircuitIdsReal` and `AllBuilt` hold until then |
| `TorControlSys` | `short`, `again` | a partial send is repeated from its start, commands with it | the same; `OnePing` and `PingsContinue` hold after it as well |
| `WebClient` | `pending` | a connection closes that has, or is about to get, a second request: the assertion at `connection_manager.cc:241` fails | `NeverAborts`: this assertion fails after nothing else; `RequestsConserved` holds until one fails, the others go on to hold |
| `WebClient` | `split` | a header in two reads: the range is forgotten, and the assertion that there was one fails | the same |
| `WebClient` | `tie` | a load's timer between a notification and its callback: the callback meets the next load, and the assertion on `notified_` fails (`browser.cc:785`) | the same |
| `WebServer` | `split` | a part is read of what was sent, between a request and its range: the range goes to another request, or to none | `ResponsesExact` and `AllAnswered` are about what was not read so; `ServerNeverAborts`: `back()` of an empty queue after nothing else |
| `WebServer` | `burst` | a client sends ahead, and a burst ends with its next request read: the assertion on the length of the queue at `handler.cc:333` fails | `ServerNeverAborts`: it fails after nothing else |
| `WebServer` | `late` | a write fails after the last file: the front of an empty queue is read, and the handler is deleted twice | `DeletedOnce` holds until then; `ServerNeverAborts`: both happen after nothing else |

Further outcomes are in the models behind a constant that the runs leave
at its quiet value. TLC finds each of them when it is changed:

| Module | Setting | Outcome |
|---|---|---|
| `Ping` | three hang-ups, `PingBuf` = `PingCap` = 4 | the buffer that restarts do not empty fills up, and the assertion at `ping/ping-client.c:153` fails (`HasRoom`): no more pings |
| `FileTransfer` | the instance of `ft_faulty` (no think times, `connect` fails) | the connection for the next download cannot be opened, the file getter is activated all the same, and the assertion at `filetransfer/filegetter.c:64` fails (`NoAbort`) |
| `PcapReplay` | a first file with one packet of the server | the server restarts before it accepts; the listening socket lets it go on, and `ServerWaits` fails |

## 6. Not modelled

Of filetransfer: start and shutdown of the server, parsing of arguments and of
specification files, name lookup, the percentiles of think times, and the main
programs that run the plug-in outside Shadow, where the sleep callback blocks.
Of ping: listening and accepting, connections of the server that are over, which it never closes, the queue of ping times,
which nothing reads, and the copy of the event loop in `ping-service.c`. Of torcontrol: several connections
at once, connections that are lost, a send that ends inside a command, and replies with data (`+`), which no command
of the modules has. Of torrent: hosts of type `node`, which are client and server at once and
free both when the client completes; connections that the authority closes; the log of latencies; a
reply word cut by `recv`, or found in what an earlier call left on the stack
(`torrent/torrent-client.c:474`); arguments; the copy of the event loop in `torrent-service.c`. Writes of a terminating NUL past a buffer
(`filetransfer/filegetter.c:462`, `ping/ping-server.c:126`) have no outcome in
the state of the models.

Of web: SPDY, which the manager never asks for; digests, statistics and latencies, with the
assertions on clock times (`web/browser/browser.cc:939`); epoll's error events, for which a socket is
always also readable; a request that does not fit the socket, a proxy that closes before it
answers; several page specifications, and a page that names an object twice; arguments and
the stand-alone programs.

Of pcap_replay: the SOCKS handshake of `client-tor`, parsing of arguments and packet headers,
connections that are refused or reset, a write to a closed one (the model drops it), and several clients of one server.

Not modelled at all: the **browser** plug-in (`browser/`), whose file getters are modelled and whose
page schedule the web browser took over and extended; **echo**, whose hazard is listed (a shared buffer) and
whose state is otherwise one message; HTML, URL, HTTP and capture parsing; python (a shim), hello (a template)
and tor-echo (one blocking exchange).

## 7. What could follow

In the order of what it would add:

1. **Torrent nodes**: a host that is client and server closes its server when its client
   completes; what this does to the other clients and to the lists of the authority.
2. **Browser** on the operations of the file getter: the table of connections
   and the queue of objects, each fetched once; the page ends.
3. **Echo**: the TCP machine with two clients and the shared buffer.

Abstract specifications beyond `PageLoad`: a download that is started and then
completes with all of its bytes or fails, which `FileTransfer` should refine; a set of
circuits wanted and circuits up for torcontrol; a set of blocks of which each is taken once, which
`Torrent` should refine between two restarts.

Proofs: the refinement of `PageLoad`. `WebInv` and `CalmInv` say in every state what a load has asked for and what is
missing of each body; what is left is to follow, through each handler, which of the steps of `PageLoad` it takes.
