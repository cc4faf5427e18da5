# VirtualLanOverServer: models and proofs

VirtualLanOverServer joins Windows machines into one virtual LAN. A client puts a
Wintun adapter with an address `100.x.y.z` on its machine and sends the IP packets it
reads there, compressed, over one TCP connection to a relay server; the server hands
each packet to the client registered under the packet's destination. This directory
holds TLA+ models of that program, the TLC runs that check them, and proofs checked by
TLAPS. File names below are relative to the repository's root; `Lobby.h`, `Server.cpp`
and the other client files are in `virtualLanOverServer/`.

## 1. Inventory

| Component | Code | State | Operations |
|---|---|---|---|
| Relay server | `server.py` | `lobby_list` (address -> socket), shared by all threads; per handler thread `data`, `parsed`, `delkey`, an iterator over the dictionary | accept; `handle_client`, which reads up to 1500 bytes and dispatches to `handle_command` (join, list, leave), `forwardPackets` or "command error"; the `finally` block |
| Server link | `Server.{h,cpp}` | `*clientSocket`, `connected`, `END` (never set) | constructor (`Initialize`, `connection`), `reconnect`, `Listening`, two `sendData` |
| Lobby client | `Lobby.h` | `join`, `memberList`, `myip` | `checkConnection` (every 10 s), `joinlLobby`, `getLobbyMembers`, `leaveLobby`, `handleResponse` |
| Callbacks | `functions.cpp:16-50` | none of its own | packet from the adapter -> server; bytes from the server -> `handleResponse` or adapter |
| Compression | `functions.cpp:109-208` | none | zlib both ways; LZ4 wrappers that nothing calls |
| Address derivation | `functions.cpp:69-97` | the globals `systemIP`, `lobby.myip` | volume serial -> `100.x.y.z` |
| Packet parser | `Packet.{h,cpp}` | header pointers and 16-bit lengths | `create` |
| Wintun adapter | `WintunManager.{h,cpp}` | adapter, session | set-up, reading thread, `sendPacket`, destructor |
| Main program | `sourse.cpp` | none | starts the threads; menu 0 to 5 |
| LZ4 | `lz4.{h,c}` | `LZ4_stream_t`, `LZ4_streamDecode_t`, hash tables | compressor, decoders, streams; vendored, linked, not called |
| LZ4 HC, remnants | `lz4hc.*`, `classes.*`, `Lobby.cpp` | - | not called, or empty |

How they interact. On the server, one thread per connection reads and writes
`lobby_list` with no lock; a handler writes to another handler's socket when it
forwards. On the client, four threads share `connected`, `*clientSocket`, `join` and
`memberList` with no lock: main (menu), the checker (`checkConnection`), the listener
(`Server::Listening`, which runs `callbackLiteningToServer`) and the adapter's thread
(`callbackLitentToInterface`). Client and server meet in two TCP byte streams with no
framing: a `recv` may return part of a message, or several.

What is hard, and what makes each component correct:

* **Relay server.** Tests and writes of the dictionary are separate steps; loops over
  it fail when another thread changes it; `send` can block or fail for another
  client's reason; the clean-up can itself raise. Correct means: an address belongs to
  one connection and is given up when that connection ends; a client told it is in is
  in; nobody deletes another's entry; a frame reaches only its destination; a handler
  neither stops reading nor outlives its client; its socket is closed.
* **Server link.** Two threads may be in `reconnect()` and a third in `recv`, all
  with a flag that each sets late. Correct means: no socket leaks; the link comes back
  when the server does; the listener listens to the link in use.
* **Lobby client.** Replies may be lost, glued or late; what the client believes (`join`)
  must come to agree with what the server has. `memberList` is read while it is rebuilt.
* **Callbacks.** A packet is sent only while joined, and only to a known member.
* **Address derivation.** The result must be an address the server accepts; it is not
  unique, and correct means that nothing worse than a collision comes of that.
* **Packet parser.** The lengths must not wrap, and the payload must begin where the
  headers say.
* **Wintun adapter.** Slots of two rings are taken, filled and released by threads that
  may die in between; packets keep their order, none is sent before it is written, and
  the reader goes on emptying its ring.
* **LZ4.** Copies overshoot on purpose, and a stream refers to bytes of earlier calls
  that the caller may have overwritten. Correct means: no access outside the buffers,
  nothing valid refused, what is compressed comes back, an index always leads to bytes
  the decoder has.

`PROJECT.json` lists the hazards line by line, with the properties that cover each.

## 2. Modules

| Module | What it is |
|---|---|
| `Registry` | abstract: membership as an atomic registry |
| `LobbyServer` | `server.py`: accept loop, handler threads, and clients as the environment |
| `ServerLink` | `Server.cpp`: the link, with the three threads that use it |
| `VirtualLan` | clients and server composed: `Lobby.h`, the callbacks, the menu, and the answers of `server.py`, over TCP streams |
| `Adapter` | `WintunManager`: the reading and the writing side of a session, construction and destruction |
| `IpPacket` | `Packet::create` in 16-bit arithmetic |
| `Addresses` | `GetVolumeSerialNumber`, `getIP`, `is_valid_ipv4` |
| `Lz4Format` | abstract: what the LZ4 block format means |
| `Lz4Constants` | the constants of the format and the lengths of its fields, which both decoders read |
| `Lz4Decompress` | `LZ4_decompress_generic`, with its two loops and every kind of dictionary |
| `Lz4Unsafe` | `LZ4_decompress_unsafe_generic`, the decoder not told where its input ends |
| `Lz4Rings` | `LZ4_streamDecode_t` against what lz4.h lets the caller do with a ring buffer |
| `Lz4Compress` | `LZ4_compress_generic`: one call |
| `Lz4Stream` | `LZ4_stream_t`: what a stream remembers between calls |
| `LobbyServerProofs`, `ServerLinkProofs`, `VirtualLanProofs`, `Lz4RingsProofs`, `Lz4CompressProofs`, `Lz4StreamProofs` | theorems about the module each is named after |
| `Lz4DecompressProofs` | theorems about `Lz4Decompress` and `Lz4Unsafe` |
| `HostProofs` | theorems about `Adapter`, `IpPacket` and `Addresses` |
| `MCLobbyServer`, `MCServerLink`, `MCVirtualLan`, `MCHost`, `MCLz4Decode`, `MCLz4Encode` | instances for TLC |

`MCHost` (adapter, parser, addresses), `MCLz4Decode` (both decoders and the rings) and
`MCLz4Encode` (one call, and streams) hold components that share no state. Their product
would only multiply states, so a behaviour of such a run is one of one component: the
variable `part` is chosen at the start and the others stay in an initial state.

### LobbyServer

A step is what a thread does between two points where the interpreter may switch to
another: one look-up, one write, one step of a loop over the dictionary, one `recv`,
one `send`. `pc[c]` says where the handler of connection `c` is; the actions follow
the code in order: `Recv`/`RecvEnd` (line 100), `JoinTest`, `JoinSet` (55-56),
`ListTest`, `LeaveTest` and the loops of `isClientJoin` (`OpenIter`, `IterPass`,
`IterRaises`, `MemberFound`, `MemberMissed`), `ListDone`, `LeaveDel` (77), `FrameTest`,
`FrameGet` (13-14), `Send`/`SendFails`, and the `finally` block (`FinallyFound`,
`FinallyMissed`, `FinallyDel`, `FinallyClose`, 116-122).

* *Exceptions.* `Raise` is every exception: it leads to the `finally` block, and out of
  it to the label "crashed", a thread that has ended without closing its socket. Such
  a socket is closed by CPython when nothing refers to it (`Referenced`): not the
  dictionary, not the accept loop's local `client_socket`, not a thread about to send.
* *Loops.* CPython remembers the size of a dictionary when a loop begins and raises
  when it has changed. A loop may also go on, or end early, if an entry has
  gone and another has come; the order of keys is open. CPython switches threads at
  fewer points in some versions than in others; the model takes all the points between
  bytecodes that touch shared state. Where a version switches only at calls and
  backward jumps, the trace of `finally_resized` needs one more entry, visited first;
  the failure is the same.
* *Streams.* A message is a sequence of pieces and `Recv` takes any prefix of at most
  `RecvPieces`. What `handle_client` makes of a chunk is `Readings`: a whole command, a
  command with something behind it, a cut command, a frame with or without something
  behind it, the rest. Replies and frames towards a client are one write each; what a
  client makes of a glued stream is in `VirtualLan`.
* *Addresses.* The members of `IPs` are the addresses `is_valid_ipv4` accepts and `BadIP`
  is any other text. `OwnIP[c]` is what `getIP` gives the client behind `c`; two
  connections may have the same. `CutIPs` says which valid addresses a truncated command
  may spell (`100.1.2.34` cut to `100.1.2.3`). In `server_pair` there is one; the theorems
  about membership assume that there is none (`SingleAddress`), since a connection could
  otherwise be entered twice and the `finally` block deletes one entry.
* *Readers.* A client in `Readers` goes on reading while its connection is open. The
  others may never read again, and then `send` may wait for ever (`WaitsForReader`).
* `told` is a history variable: the last thing the client was sent about its membership.
  So is `overwritten`: the addresses at which a `JoinSet` has replaced an entry, which takes
  two handlers of one address between lines 55 and 56. `Registry` has the same as
  `contested`: there, and only there, a connection may be told what is no longer true or
  delete another's entry.

### ServerLink

A step is one access to what the threads share. The handle in `*clientSocket`, the flag
`connected`, and the state of every handle in the process (`kernel`) are separate, so a
handle may be closed, reused by a later `socket()`, overwritten or leaked. Booting
follows `functions.cpp:9-12` and `sourse.cpp`: `Initialize`, `Connection`, `LobbySends`,
`StartThreads`. Then main and the checker each run `sendData` or
`reconnect` step by step (`SendTest` ... `SendFailed`, `OldOpen` ... `NewConnected`), and
the listener runs `ListenTest`, `RecvCall`, `RecvData` or `RecvEnds`, `ListenEnded`. The
server may stop, drop a link, or start again at any time (`ServerStops`, `ServerDrops`,
`ServerStarts`): external, as are the socket calls. The checker's two sends of
`joinlLobby` are two wakings of the model's checker; ten seconds of sleep are any time.

`connected` is a plain `bool` that threads race on. Where a thread reads it once after a
call (the checker, `sendData`) it gets some recent value; where `Listening` spins on it
(`Server.cpp:82`), an optimised build may read it once and spin for ever. The field
`hoisted` of a scenario says whether the build may (`ListenSpins`).

`Scenarios` is the set of environments of a run, of which one is chosen at the start: the
handles, the build, whether the first start may fail, what the user chooses, and bounds.

### VirtualLan

Clients with all four threads, the server's thread for each of their connections, and
peers of which only membership and frames are modelled. `at[c]` says where the threads of
client `c` are. `JoinLobby`, `GetLobbyMembers`, `CheckConnection`, `Reconnect`, `Menu` and
`LeaveLobby` are the checker and the menu (`leaveLobby` sends and then clears `join`: two
steps); `Recv`, `RecvEnds` and `Callback` are the listener with `handleResponse`; `Scan`,
`Transmit` and `Discard` are the adapter's thread in the loop over `memberList`. `Serve*`
is what `server.py` does with what one `recv` returned. It enters or deletes the client and
answers in two steps (`Tell`). An exception leads to the `finally` block (`ToFinally`), a
step of its own (`ThreadEnds`): it deletes the entry and closes, or it raises, since
another thread has resized `lobby_list` (`Resized`) or the client is no member and `delkey`
is unbound; then the entry stays. `LoopRaises` is the same exception in the loops of "list"
and `isClientJoin`. `Drop` breaks a connection and loses what is under way; `Start`
starts a client, also again after a crash or choice 0 (`End`).

* *Streams.* A write of the server is a sequence of words and blanks, and an address is
  one or several words, so that one address may be the front of another. With `cuts`,
  `recv()` returns any front of all that is unread, else one write at a time. What
  `handleResponse` and `updateLobbyList` make of a chunk is `Response`, `Piece`, `Listed`,
  cut at blanks as the loop over `str.find` does in the code. A reply that lacks a piece makes
  `handleResponse` read outside its vector: nothing happens or the process ends. Towards
  the server, with `cuts`, a request may be cut (`ServeCut`: whatever a command without its
  verb or address, or its rest, makes the server do) or glued to those behind it
  (`ServeGlued`).
* *The race on `memberList`.* The adapter's thread reads the list while the listener
  clears and refills it. The outcomes are a free choice: the thread sees any member of any
  list that was there meanwhile, or sees none, or the process ends (`scan[c].torn`).
* *Scenarios.* `Scenarios` is the set of environments of a run: hosts, whether streams
  are cut, which menu items, and the bounds. One is chosen at the start, so that a run
  covers several without their product.
* `ServerLink` has `reconnect()` and `connected` in detail and `LobbyServer` the
  interleavings of the server's threads; here each is one step.

### Adapter, IpPacket, Addresses

`Adapter` follows the constructor of `wintunManager` through each of its failures
(`Initialize` ... `ConfigurationIP`), then runs the reading thread (`Receive`, `Callback`,
`Release`, `Wait`) and `sendPacket` (`Allocate`, `Copy`, `SendPacket`) against a driver
taken from the contract in `wintun.h`: two rings of `RingSlots` slots, an event, slots
injected in the order of their allocation (`Arrive`, `Inject`). A call on a session that was
never started is a crash. An error of `WintunReceivePacket` other than an empty ring ends
the reading thread, and nothing starts another.

`IpPacket` is `Packet::create` with every conversion to `uint16_t` in place; a byte behind
the packet or a field never written is any of `StrayBytes`. `Addresses` is the sum of pairs
of hexadecimal characters, reduced modulo 250 when above it, as `getIP` computes it for the
adapter and, in a second call, for the lobby, and the test `is_valid_ipv4`.

### The LZ4 modules

A byte is modelled as the place it comes from: the input's position, or, negative, a
position before the block. A memory is a function from addresses to such places, so every
property about contents is one about places. The input of a decoder is a sequence of
`[lit, offset, ml]` records read one at a time; whether it ends in the middle of one, leads
outside the buffers, or is valid, is left to TLC.

* `Lz4Decompress`: `FastLiterals` and `FastMatch` are the fast loop, `SafeLiterals`,
  `CopyLiterals`, `ShortcutMatch`, `MatchLength` and `SafeMatch` the safe one; a step is
  what lies between two of the code's labels. `Wild(n, k)` is how far a copy in strides of
  k goes; `Move`, `UsingOffset`, `FirstEight` copy as the code does, in strides and with the
  tables `inc32` and `dec64`.
* `Lz4Format` reads a sequence as literals, then a match; `FollowsFormat` says that each
  decoder implements it, for a distance other than 0.
* `Lz4Compress`: `Begin`, `Search`, `Literals`, `Match`, `Following`, `Last` are the
  sections between the labels of `LZ4_compress_generic_validated`, with every directive for
  the dictionary and for the end of the output. `wrote` is the furthest byte written,
  `stray` whether anything outside source and history was read.
* `Lz4Stream`: what a call hands over (`HandedOver` in `Lz4Compress`) depends on all calls
  before it. The hash buckets are open here: any index stored since the table was cleared
  may be found. `mem` is, for an address, the position in the decoder's text of the byte
  there, so that overwritten history is history lost. `astray` marks a stream on which the
  caller has done one of two things that lz4.h allows and the code does not survive (section
  3), until the next reset or load; every call is modelled on such a stream, too.
* `Lz4Unsafe`: `Literals`, `Match` and `Matched` are the sections of the loop. `log` keeps
  each sequence with where it was read and written, so that a property can compare what
  is accepted with what the safe decoder would have checked.
* `Lz4Rings`: the same as `Lz4Stream` for decoding, under each of lz4.h's rules for the
  buffers. `ringMem` is, for an address, how far back from the end of the text the byte there
  is. `Spared` is how far back a decoder that overshoots keeps the text where it resumes a
  ring from its beginning.

## 3. Runs

Bounds are constants of the modules or fields of their scenarios and jobs, named as bounds
there.

| Run | Bounds | Distinct states | Result |
|---|---|---|---|
| `server_pair` | 2 clients, own addresses, one of which cut is a third; joins in two pieces, 2 pieces per recv, 1 unread write; one says every kind of message, 2 of them, and may reset; the other joins, never reads and may shut; fair; the server runs on | 0.30 M | `TypeOK`, `ForwardedToOwner`, `HungUpHandlerEnds`, `StreamIsRead` hold |
| `server_shared` | 3 connections, 2 with one address; one says join, frame or leave, 2 of them, the others join; messages in one piece; none must read; the server may stop | 3.4 M | `ClosedNotRegistered`, `AckedIsRegistered`, `DeletesOwnEntry`, `ImplementsRegistry` hold |
| `finally_resized` | 2 clients | - | `EndedMemberIsClosed` is violated (finding) |
| `link_heals` | two scenarios: 2 handles, 3 sends from the menu, 3 breaks, failing starts; 5 handles, 1 choice (send or reconnect), 1 break, the flag hoisted. Fair | 1.7 M | `TypeOK`, `CheckerLeaksNothing`, `Heals`, `HealsUnderMenu` hold |
| `link_two_reconnects` | 3 handles, 1 choice, 1 break | - | `OldSocketClosed` is violated (finding) |
| `link_first_connect_fails` | 2 handles, 1 break | - | `Reconnects` is violated (finding) |
| `lan` | five scenarios: cut and glued replies, 7 words unread; cut and glued requests, 2 unread, 2 choices of leave and send; any 2 choices and 2 connections; two clients; 4 choices of join, leave, send with 2 requests and replies under way. One break or raising loop in the third and fourth | 4.4 M | `TypeOK`, `MembersListed`, `StaleEntriesGo`, `JoinedIsEntered` hold |
| `lan_senders` | one client and a peer, one break or raising loop, one reconnect from the menu; fair | 0.74 M | `SendersEntered` holds |
| `host` | adapter: rings of 2, 3 packets each way, one that throws, every failure; parser: headers of 0, 4, 5, 6 and 15 words, bare, behind a link header, and cut; addresses: 2 machines, extreme serials and one digit apart | 0.42 M | `TypeOK`, `ReadInOrder`, `InjectedFilled`, `RingDrains`, `PayloadFound`, `ServerAccepts`, `Distinguishes` hold |
| `decode` | safe decoder: 2 sequences, window 64, buffers at the limits of both loops, all dictionaries, rings with margins of 14 and 29; unsafe decoder: 3 sequences; streams: window 16, blocks of up to 5, margin 2, overshoot 5, every rule | 1.8 M | `TypeOK`, `StaysInside`, `RefusesOnlyInvalid`, `DictionaryIntact`, `FollowsFormat`, `UnsafeJudgesRight`, `UnsafeFollowsFormat`, `HistoryFound` hold |
| `ring_of_14` | the safe decoder in rings with a margin of 14 | - | `WindowIntact` is violated (finding) |
| `encode` | one call: texts of up to 201 bytes, window 54, 4 buckets, every capacity near a limit; streams: 7 addresses, window 4, text of up to 6 bytes | 0.69 M | `StaysInside`, `Succeeds`, `RoundTrip`, `AcceptedByDecoder`, `AssertionsHold`, `NeverMisled`, `TableBehind` hold |

Why these bounds. The races on the server's dictionary are between two handlers; a third
connection is what makes two of one address meet a client of another, to whom they send
and whose joins resize the dictionary. Two messages of a client are a join and what may
follow it (leave, list, frame); a join in two pieces can be cut and can be glued to what
follows. One unread write fills a client's buffer, so `send` blocks in both runs of the
server. For the link, two threads in `reconnect()` can leave three open
sockets behind; with five handles `socket()` never lacks one, so `HealsUnderMenu` is not
about running out of handles. One break and one choice let each thread enter `reconnect()`
beside the other; three breaks without choice 5 let a late write of `connected` meet a link
that has broken again. In `lan`, the peer's address is the front of the client's, so that a
cut list can spell a wrong address; seven unread words hold the end of one reply and the
beginning of the next; two unread requests can be glued; a second connection lets an old
entry meet a new join, and the peer's joins resize the dictionary in any `finally` block. In `host`,
two slots make both a full and an empty ring, and three packets pass a slot twice. In
`decode` and `encode` the sizes of the code (64 KB, 255, 15) are constants scaled so that
each limit is crossed: a window of 64 bytes is longer than the longest stride and a text
that fits the fast loop, a length byte of 10 makes lengths of several bytes; the margins
`MFLIMIT`, `LASTLITERALS`, 8, 16, 32 and 64 are the code's own. Two sequences give a match
that begins where a match ended, in either loop and across them. In the streams' rings margin and
overshoot are to each other as 14 is to 31, so that what the margin does not hold is there
to be lost.

What they show beyond the obvious:

* `ClosedNotRegistered` holds even when two connections with one address overwrite each
  other's entry: `isClientJoin` and the `finally` loop compare sockets, not addresses.
* `AckedIsRegistered`, `DeletesOwnEntry` and `ImplementsRegistry` are checked with two
  connections of one address and a third beside them. Nothing but the test at line 55
  and the write at 56 coming apart can take an address from its client: up to then the two
  may join, leave, hang up and clean up in any order. Where it has happened
  (`overwritten`) both have been told they are in, and either may delete the other; no doc
  or comment promises otherwise, so that is recorded as a hazard.
* `ForwardedToOwner` holds although one client's address, cut, is another valid one: the
  client has then joined under it, too. It speaks of the frame that a write begins with;
  frames that TCP glues behind it go where it goes.
* `HungUpHandlerEnds` and `StreamIsRead` are checked with a client that never reads. One such
  client holds up every handler that sends to it for as long as its connection is open; the
  two properties say that nothing else does.
* `StaleEntriesGo` names the exception of the `finally` block (finding 1): an entry of a dead
  connection is about to go, or that block has raised. The client's next joins are then
  answered 0 for good.
* `RingDrains` names the other exit: after an error of `WintunReceivePacket` nothing reads the
  ring any more, though the process lives.
* `Heals` says that late writes of `connected` by the listener or a failed send cost
  another reconnect but never the link. It needs Winsock to be up (`wsa`), which the
  violation of `Reconnects` shows is not always so, and a build that reads the flag anew;
  with `hoisted` a listener that sees a broken link once may be deaf from then on.
  `HealsUnderMenu` holds in any build: failed sends alone bring the link back.
* With choice 5, sockets leak and the listener may stay on a leaked one (`Hears` is left
  out of `HealsUnderMenu` because it fails there, by the leak the finding describes).
* `JoinedIsEntered` is stated for the first connection and whole replies, since it fails
  otherwise. A "join 1" glued behind a frame or a list is lost: the client stays outside,
  its later joins answered 0, until choice 3 or a break. After choice 5 `join` stays true on a
  connection the server does not know, and `handleResponse` ignores the "list 0" that
  follows; only "error", the answer to a frame, heals it. `SendersEntered` says it does.
* `RefusesOnlyInvalid` is about the decoder's margins: no test made for the sake of a
  wild copy refuses a block that a byte-by-byte decoder would take.

Fairness. `LobbyServer`: each handler thread runs when it can (`WF` of its steps: the
interpreter's scheduler), and a client in `Readers` reads what it was sent unless it has hung
up. The server cannot rely on that, so one of the two clients of `server_pair` is no such
reader. Nothing obliges a client to speak or hang up. `ServerLink`:
each thread runs; the checker wakes from its sleep; `recv` returns once the link has
ended. `VirtualLan`: the threads of clients and server run, the checker wakes. `Adapter`:
the constructor and the reading thread run. Nothing is assumed of the user, of data, of
packets, of the driver's writing side, or of the server, which may stay down.

Findings, each quoting what promises otherwise. (1) A join or leave elsewhere
during the loop of the `finally` block makes it raise before it closes the socket; the dead
client's entry then stays. (2) Two threads in `reconnect()` leak a socket. (3) A failed
first connect ends Winsock for good. (4) A ring of `LZ4_DECODER_RING_BUFFER_SIZE`, the size
that lz4.h gives as compatible with any source, is too small: a margin of 14 bytes where the
decoder's overshoot needs 29 (`ring_of_14`).

Other disagreements met while modelling, for which there is no run of their own:

* `server.py:120`: the `finally` block of a client that never joined has no `delkey` and
  raises; its handler ends without `close()`. In `LobbyServer` it ends "crashed".
* `wintun.h:166` asks for an adapter and `wintun.h:171` for an end of the session;
  `StartSession` does not look at the adapter and nothing ends the session. Both are in `Adapter`.
* `Packet.cpp:19-23` adds 14 bytes whether or not there is a link header, so a packet of
  more than 65521 bytes throws and a smaller one has a payload 14 bytes too long. Hence
  the bound in `PayloadFound`.
* LZ4. What is wrong with the ring of finding 4 is wrong with a ring "larger" than the
  encoder's by a largest block, unless the decoder is told the exact size of each block;
  `Spared` in `HistoryFound` says which distances survive. A dictionary attached to a stream that
  has a history (`lz4.h:400` says it replaces it) and a block written over all of the history in a
  ring buffer (`lz4.h:439`: "any size") mislead a later call; `NeverMisled` leaves such a stream out
  until its next reset or load. Without either exclusion TLC finds the property violated.
  `HistoryFound` takes an encoder's ring of two largest blocks or more for the same reason. An
  assertion fails on a fast decoder given an empty block (`EmptyFast`, `lz4.c:2683`), which
  `RulesKept` excludes (section 4). None of them is reached by this program, which does not call LZ4.

## 4. Proofs

All theorems hold for any values of the constants that satisfy the assumptions of their
modules: any sets of hosts, connections and addresses, any sizes and bounds.

`LobbyServerProofs`:

* `TypeCorrect`: `Spec => []TypeOK`.
* `OwnAddress`: `OwnInv` is inductive. None of the properties is inductive by itself:
  that a frame reaches a client of its destination depends on the entry found by `FrameGet`
  having been entered under an address of its connection, hence on the request `JoinSet`
  serves, hence on the bytes in the stream. `OwnInv` says that all of them belong to an
  address the connection presents, its own or what a cut command leaves of it.
  `ForwardedFrames` follows, for any `CutIPs`.
* `ClosedConnections`, from `SingleAddress` (no cut command spells another valid address):
  a connection has at most the entry its `finally` block deletes.
* `Members`, from `SingleAddress`: `MemberInv` is inductive relative to `OwnInv`. Addresses may
  be shared by any number of connections. It says what a handler knows between a test and
  the step that uses it, at an address that is not in `overwritten`: the entry it is about to
  delete is its own, and the answer it is about to send is true (`AnswerIsTrue`).
  `AckedMembers` and `OwnEntryDeleted` follow.
* `RegistryImplemented`, from the same: every step of the threads is a step of `Registry`
  or leaves `lobby_list`, `overwritten`, `told` and the joins under way alone.

`ServerLinkProofs`: `LinkTypeCorrect`, and `NoSocketLeaks`, which is `[]CheckerLeaksNothing`: in
a scenario without choice 5 no socket leaks. Its invariant adds where a thread is while no
socket is open, and that main never enters `reconnect()`; the finding shows that the
condition is needed.

`VirtualLanProofs`: `LanInvariant` is the inductive core: types, what peers look like, and
that a request "eof" is the last of its connection and that an old connection has one or its
thread has come to the `finally` block (`ConnectionsOK`). `LanTypeCorrect` and
`StaleEntriesLeave` follow.

* `ListsAreTrue` is `[]MembersListed`: `KnownOK` says that every whole list under way, in a
  cut or glued stream too, names only addresses listed to that client. A front of a list
  never ends in an address, since `updateLobbyList` drops the last piece; the argument is about
  positions of blanks (`Piece`, `Listed`). `ListReply` is a recursive function on
  sequences; that it exists is shown by a least counterexample, the induction theorems of
  the library being out of reach.
* `JoinedClientsAreEntered` is `[]JoinedIsEntered`: `ThreadsOK` and `ToldOK` say, for a
  first connection read write by write, what each reply under way tells about the server's
  entry, so that a "join 1" that is no longer true is followed by something that clears `join`.

`HostProofs`, the adapter: `AdapterTypeCorrect`, `PacketsReadInOrder`, `SlotsInjectedFilled`, from
one invariant on the two rings: what arrived is what was handled, is held and is in the
ring; slots are sent from the oldest on, and only the newest may be unfilled.

`HostProofs`, packets and addresses: `FieldsTyped` (16 bits each) and `PayloadIsFound` of
packets; `EverySerialAccepted` and `SerialsDistinguished` of addresses: no two sums that one
changed digit produces are folded together by the reduction modulo 250.

`Lz4DecompressProofs`, for every call that meets `JobAssumption`: `Inside` says at each label
how much input and room are left there, the margins that the tests before it have made sure
of. It is inductive (`AlwaysInside`), and `NeverStrays` and `DecoderTyped` follow: the decoder
touches nothing outside its buffers, for any input.

* `OnlyInvalidRefused`: `Places` adds where the current sequence began and how that place,
  its lengths and the current position are related, so that a refusal can be traced back to
  a rule of the format that the sequence breaks.
* `DictionariesIntact`: `Kept` says that what lies at least an overshoot (31 bytes) ahead of
  the output, or before it, is as it was. It holds in rings of any size, because
  `DictionaryIntact` asks no more (`Clear`).
* `FormatFollowed`, from `DictionariesApart`, is `Spec => FollowsFormat`. The assumption says of
  every external dictionary that it is before the prefix, behind the output, or, in a ring, that
  its last window begins at least 30 bytes behind the beginning of the prefix (with 29 TLC finds
  a match whose bytes are gone). By `AllClear` the whole window is then intact. A ring of
  `LZ4_DECODER_RING_BUFFER_SIZE` has 15 and does not meet it: there the decoder does not follow
  the format (`ring_of_14`). Initial states are
  the format's, and each action is a step of `Lz4Format` or a stutter (`BeginFollows` to
  `SafeMatchFollows`, joined in `NextFollows`). What a match must write is a `Pattern`: byte
  i is the one at i modulo the distance before it. `MoveRepeats` shows that a copy in strides no
  longer than its distance repeats what it reads, though it reads what it has just written;
  `TurnsInTable` that `inc32` and `dec64` set the copy back to a multiple of the distance, eight or
  more; `PatternGrows` that a copy from there goes on with the pattern. Literals, the eight-byte
  head, the strides, the bytewise tail and the seam between dictionary and prefix follow from
  these. `HistoryHeld` (the prefix holds what it held, from `Kept`) and `WindowIntact`
  supply the bytes from before the block.

The unsafe decoder, in the same module, for every call in `UnsafeAssumption`. It never
tests where its input ends, and what comes behind a match only once the match is copied: what it
accepts is right only by what later steps find out.

* `UnsafeDecoderJudgesRight` is `[]UnsafeJudgesRight`. `UnsafeInv` says of every earlier sequence in
  the log that the loop went on behind it (`WentOn`): its match fitted, and the next sequence
  was read where it ended. An accepted block ends in five literals or more, so
  each match before it, having left room for them, satisfies the conditions at the end
  of the block that the decoder never tests. `UnsafeTyped`: it writes no more than it was asked for.
* `UnsafeFormatFollowed` is `UnsafeSpec => UnsafeFollowsFormat`, step by step as for the safe decoder.
  Both copies are recursive functions of the text written so far (`Copied`, `SeamMatch`).
  That they exist is shown by a witness that is periodic in the distance: `CopiedIs`
  and, across the seam of dictionary, prefix and output, `SeamMatchIs`. `TextEchoes` is what the format
  asks for in the same terms.

`Lz4RingsProofs`, for any window, largest block, encoder's ring, margin and overshoot, under
`RulesKept`: the fast decoder is given no empty block. `HistoryIsFound` is `[]HistoryFound`, from
`RingInv`:

* `Here`: the next block is decoded at the beginning of a stream, behind the last block, or at the
  beginning of the ring once the last block ended within a largest block of its end.
* `Runs`: up to two runs of text are in the ring, each in its order. The older one begins
  to be of use only beyond what the decoder may have overwritten in passing (`Ahead`); why
  nothing nearer is asked for is in the exact size, the safe buffer, the encoder's own ring or
  `Spared` (`RunBeforeSpared`).
* `Source`: what the encoder can refer to is in its own ring; if the rings are
  in step, at the same place.
* `InSafe`: a caller that saves has the whole dictionary in its safe buffer after
  `LZ4_setStreamDecode` (`SavedAll`), and somewhere before it.

`RingTyped`: what the stream remembers stays inside the ring or the safe buffer.

`Lz4CompressProofs`, for every call that meets `CompressAssumption`: any source, capacity,
hash function and table, as long as what the table and the history hold from before the call is
what `HandedOver` says (`StreamNeverMisled` is about the streams that hand it over). `Core`
is inductive (`CoreAlways`). Its parts:

* `Tables`: an entry is one from before the call or a position of the source with that hash
  (`Known`), behind the position at hand; at "match" the entries of a match that may yet be cut
  lie no further than `filledIp`, which is why `Forget` is enough.
* `Matched`: the match found is at its distance in the text, though its address is in a
  dictionary that lies elsewhere (`Found`, `Placed`), and it reaches `filledIp`, where it was
  found before catching up, or there is no room for it.
* `Roomy`: the output is paid for by the input (`Paid`: 255 bytes for every 256), which
  makes `LZ4_COMPRESSBOUND` enough where nothing is tested, with the overshoot of the wild copies;
  and where the output is limited there is room for what must follow.

`CompressorStaysInside`, `AssertionsAlwaysHold` and `AlwaysSucceeds` follow. For the other
two, `BlockSteps` says what a step may do to the block. `CompressedDecodes` is `[]RoundTrip`:
`SequenceDecodes` shows that a decoder's copy at a distance, which may read what it has just
written, repeats the text as the match does (`Periodic`), and `DecodedMore` that one more sequence
is one more step of the decoder. What a block decodes to is a recursive function on its
sequences, and like `ListReply` it is shown to exist, and to be the same on a longer block, by a
least counterexample. `BlocksAccepted` is `[]AcceptedByDecoder`: `Ending` adds that, where the
output is to be filled, there is room for eight literals behind a short match and for five
behind a long one; twelve bytes from the beginning of the match follow from either.

`Lz4StreamProofs`: `TableStaysBehind`, `OffsetStaysInRange` (32 bits never wrap), and
`StreamNeverMisled`, from no assumption but the module's. The invariant relates the table, the
sizes and the memory: an index within reach of the next block is of a position whose bytes
are still the decoder's at that distance. It is kept for streams that have not gone astray;
of the others (`StrayHistories`) it keeps the types and the table, which is what makes the next reset or load
bring everything back.

Only model-checked:

* Liveness under fairness, out of the proof system's reach: `HungUpHandlerEnds`,
  `StreamIsRead`, `Heals`, `HealsUnderMenu`, `SendersEntered`, `RingDrains`.

Every other property of a passing run is stated by a theorem. (`TypeOK` of `MCHost` is that
of its adapter, that of `MCLz4Decode` the safe decoder's.)

## 5. Plan

1. `LobbyServer`, `Registry`, `ServerLink` and their proofs. Done.
2. `VirtualLan`, the client and the server composed, and its proofs. Done.
3. `Adapter`, `IpPacket`, `Addresses` and their proofs. Done.
4. The LZ4 modules and the proofs of both decoders, of the compressor and of the streams on
   either side. Done.

## 6. Not modelled

`lz4hc`; the tables of pointers that 32-bit builds of LZ4 use; the obsolete entry points of
LZ4; zlib (a frame is whole or it is not); the unused LZ4 wrappers of `functions.cpp`; the
Steam remnants; printing and `readingIp`; `~Server` and what the detached threads do after choice 0 has
destroyed the globals; writes outside an array (`Server.cpp:88`), which have no outcome a
model could list; tens of thousands of idle fast resets of an LZ4 stream (`FewIdleResets`).
