---------------------------- MODULE LobbyServer ----------------------------
(***************************************************************************)
(* The relay server of src/server.py: an accept loop and one thread per    *)
(* accepted connection, all of them reading and writing the dictionary     *)
(* lobby_list.  A step is what one thread does between two points where    *)
(* the interpreter may switch threads: one look-up, one write, one step of *)
(* a loop over the dictionary, one recv or one send.                       *)
(*                                                                         *)
(* The clients are the environment.  They speak the protocol of            *)
(* src/virtualLanOverServer/Lobby.h and functions.cpp over TCP, which is a *)
(* byte stream: a message is a run of pieces, and a recv returns some      *)
(* prefix of the stream, so it may glue messages together or cut one.      *)
(***************************************************************************)
EXTENDS Naturals, Sequences, FiniteSets

CONSTANTS
  Conns,      \* the connections (socket objects) the server may accept
  IPs,        \* the addresses is_valid_ipv4 accepts
  BadIP,      \* any text is_valid_ipv4 rejects
  NoConn,     \* "no entry": the address is not a key of lobby_list
  OwnIP,      \* OwnIP[c] is Lobby::myip of the client behind connection c
  CutIPs,     \* CutIPs[ip] are the valid addresses that a cut copy of ip spells
  Pieces,     \* Pieces[k] is the number of pieces of a message of kind k
  RecvPieces, \* what one recv(1500) returns at most, in pieces
  SendSlots,  \* bound: writes a client may leave unread before send() blocks
  Says,       \* bound: Says[c] are the kinds of message the client of c writes
  MaxSends,   \* bound: MaxSends[c] is how many messages it writes
  Readers,    \* the connections whose client goes on reading while it is open
  Endings,    \* bound: Endings[c] are the ways it may hang up
  MayStop     \* bound: whether the operator may stop the server

Kinds == {"join", "list", "leave", "frame", "text"}
Commands == {"join", "list", "leave"}
Addr == IPs \cup {BadIP}

ASSUME ConstantsAssumption ==
  /\ NoConn \notin Conns
  /\ BadIP \notin IPs
  /\ IsFiniteSet(IPs)
  /\ OwnIP \in [Conns -> IPs]
  /\ CutIPs \in [IPs -> SUBSET IPs]
  /\ Pieces \in [Kinds -> Nat \ {0}]
  /\ RecvPieces \in Nat \ {0}
  /\ SendSlots \in Nat \ {0}
  /\ Says \in [Conns -> SUBSET Kinds]
  /\ MaxSends \in [Conns -> Nat]
  /\ Readers \subseteq Conns
  /\ Endings \in [Conns -> SUBSET {"shut", "reset"}]
  /\ MayStop \in BOOLEAN

VARIABLES
  lobby_list, \* the dictionary: lobby_list[ip] is a connection or NoConn
  overwritten, \* history: the addresses at which a join has replaced an entry
  accepting,  \* start_server is still in its accept loop
  last,       \* the accept loop's local client_socket: the newest connection
  pc,         \* where the handler thread of each connection is
  req,        \* its locals data and parsed: the request it is serving
  iter,       \* its iterator over lobby_list
  out,        \* the send() it is about to make
  told,       \* history: the last word on membership sent to the client
  toServer,   \* bytes written by the client, not yet received
  toClient,   \* writes of the server, not yet read by the client
  peer,       \* the client's end of the connection
  sends       \* messages the client has written (bounds the model)

handlerVars == <<pc, req, iter, out>>
wireVars == <<toServer, toClient, peer, sends>>
vars == <<lobby_list, overwritten, accepting, last, pc, req, iter, out, told,
          toServer, toClient, peer, sends>>

-----------------------------------------------------------------------------
(* Messages and what a handler makes of the bytes one recv returned.       *)

Piece == [kind : Kinds, addr : IPs, first : BOOLEAN, last : BOOLEAN]

\* The pieces of one message, in order.
Message(kind, addr) ==
  [i \in 1 .. Pieces[kind] |->
     [kind |-> kind, addr |-> addr, first |-> i = 1, last |-> i = Pieces[kind]]]

ReplyKinds == {"join 1", "join 0", "list 1", "list 0", "leave 1", "leave 0", "error"}
Write == [kind : ReplyKinds \cup {"data"}, members : SUBSET IPs, body : Seq(Piece)]

Reply(kind, members) == [kind |-> kind, members |-> members, body |-> << >>]
Forward(data) == [kind |-> "data", members |-> {}, body |-> data]

Request == [op : Commands \cup {"other", "raise", "frame", "garbage"},
            ip : Addr, data : Seq(Piece)]

\* The message that begins the chunk is in it to its last piece.
Whole(data) == data[1].first /\ \E i \in DOMAIN data : data[i].last

\* Whether the chunk goes on after the message that begins it.
Glued(data) == \E i \in DOMAIN data : i > 1 /\ data[i].first

\* A whole command: with nothing behind it parsed[2] is its address.  Text or
\* another command behind it spoils that address; the first bytes of a zlib
\* stream behind it are not UTF-8 and make decode() raise.
CommandReadings(data) ==
  IF ~Glued(data) THEN {<<data[1].kind, data[1].addr>>}
  ELSE IF \E i \in DOMAIN data : data[i].kind = "frame" THEN {<<"raise", BadIP>>}
  ELSE {<<data[1].kind, BadIP>>}

\* A command cut short: within the word "command" it is no command at all; later,
\* parsed[1] or parsed[2] may be missing (IndexError), the verb may be no verb, the
\* address may be invalid or another valid one.
CutReadings(data) ==
  {<<"garbage", BadIP>>, <<"raise", BadIP>>, <<"other", BadIP>>, <<data[1].kind, BadIP>>}
    \cup {<<data[1].kind, ip>> : ip \in CutIPs[data[1].addr]}

\* Every other chunk: zlib.decompress accepts one that begins with a whole frame,
\* ignoring what follows, and rejects the rest.  A word typed by the user may be
\* "command" itself, a command without a verb.
OtherReadings(data) ==
  IF data[1].kind = "frame" /\ Whole(data) THEN {<<"frame", data[1].addr>>}
  ELSE IF data[1].kind = "text" /\ data[1].first
       THEN {<<"garbage", BadIP>>, <<"raise", BadIP>>}
  ELSE {<<"garbage", BadIP>>}

Readings(data) ==
  IF data[1].kind \in Commands /\ data[1].first
  THEN IF Whole(data) THEN CommandReadings(data) ELSE CutReadings(data)
  ELSE OtherReadings(data)

-----------------------------------------------------------------------------
(* The dictionary, its iterators and the handler's control.                *)

Keys == {ip \in IPs : lobby_list[ip] # NoConn}

NoIter == [on |-> FALSE, keys |-> {}, seen |-> {}]
NoReq == [op |-> "other", ip |-> BadIP, data |-> << >>]
NoSend(c) == [to |-> c, what |-> Reply("error", {})]

\* Loops over lobby_list: isClientJoin on behalf of list, leave and a frame, the
\* body of the list command, and the search of the finally block.
MemberScans == {"list joined", "leave joined", "frame joined"}
Scans == MemberScans \cup {"list items", "finally"}

Labels == Scans \cup
  {"new", "recv", "join", "join set", "list", "leave", "leave del", "frame in",
   "frame get", "send", "finally del", "finally close", "done", "crashed"}

Ended(c) == pc[c] \in {"done", "crashed"}

\* A handler whose finally block raised never closes its socket; the object goes,
\* and the descriptor with it, when nothing refers to it any more.
Referenced(c) ==
  \/ last = c
  \/ \E ip \in IPs : lobby_list[ip] = c
  \/ \E d \in Conns : pc[d] = "send" /\ out[d].to = c

Open(c) == /\ pc[c] \notin {"new", "done"}
           /\ pc[c] = "crashed" => Referenced(c)

Goto(c, label) == pc' = [pc EXCEPT ![c] = label]

\* Back to recv, the locals of the served request forgotten.
Serve(c) == /\ Goto(c, "recv")
            /\ req' = [req EXCEPT ![c] = NoReq]

\* An exception leaves the loop of handle_client for its finally block; one raised
\* in the finally block itself ends the thread.
Raise(c) ==
  /\ Goto(c, IF pc[c] \in {"finally", "finally del"} THEN "crashed" ELSE "finally")
  /\ req' = [req EXCEPT ![c] = NoReq]
  /\ iter' = [iter EXCEPT ![c] = NoIter]
  /\ out' = [out EXCEPT ![c] = NoSend(c)]

PrepareSend(c, to, what) ==
  /\ Goto(c, "send")
  /\ out' = [out EXCEPT ![c] = [to |-> to, what |-> what]]

Answer(c, kind, members) == PrepareSend(c, c, Reply(kind, members))

-----------------------------------------------------------------------------
(* The accept loop and recv.                                               *)

Accept(c) ==
  /\ accepting
  /\ pc[c] = "new"
  /\ Goto(c, "recv")
  /\ last' = c
  /\ peer' = [peer EXCEPT ![c] = "open"]
  /\ UNCHANGED <<lobby_list, overwritten, accepting, req, iter, out, told, toServer, toClient, sends>>

\* KeyboardInterrupt: the listening socket closes, the handlers carry on.
Shutdown ==
  /\ MayStop
  /\ accepting
  /\ accepting' = FALSE
  /\ last' = NoConn
  /\ UNCHANGED <<lobby_list, overwritten, told, handlerVars, wireVars>>

\* Mutant: bytes that are no command are dispatched like one.
NextLabelUnguarded(op) == IF op = "other" THEN "recv" ELSE op

NextLabel(op) == IF op = "other" THEN "recv"
                 ELSE IF op \in {"frame", "garbage"} THEN "frame joined"
                 ELSE op

Recv(c) ==
  /\ pc[c] = "recv"
  /\ peer[c] # "reset"
  /\ \E n \in 1 .. RecvPieces :
       /\ n <= Len(toServer[c])
       /\ toServer' = [toServer EXCEPT ![c] = SubSeq(@, n + 1, Len(@))]
       /\ LET data == SubSeq(toServer[c], 1, n)
          IN  \E r \in Readings(data) :
                IF r[1] = "raise" THEN Raise(c)
                ELSE /\ Goto(c, NextLabel(r[1]))
                     /\ req' = [req EXCEPT ![c] = IF r[1] = "other" THEN NoReq
                                  ELSE [op |-> r[1], ip |-> r[2],
                                        data |-> IF r[1] = "frame" THEN data ELSE << >>]]
                     /\ UNCHANGED <<iter, out>>
  /\ UNCHANGED <<lobby_list, overwritten, accepting, last, told, toClient, peer, sends>>

\* Mutant: "if not data: break" is missing.
RecvEndIgnored(c) ==
  /\ pc[c] = "recv"
  /\ UNCHANGED vars

\* recv returns no bytes after an orderly close, or raises after a reset.
RecvEnd(c) ==
  /\ pc[c] = "recv"
  /\ \/ peer[c] = "shut" /\ toServer[c] = << >>
     \/ peer[c] = "reset"
  /\ Raise(c)
  /\ UNCHANGED <<lobby_list, overwritten, accepting, last, told, wireVars>>
-----------------------------------------------------------------------------
(* Loops over lobby_list.  CPython fixes the size of the dictionary when   *)
(* the loop begins and raises RuntimeError at the next step if the size    *)
(* has changed since.  If only the keys have changed, it may raise, may go *)
(* on, or, entries having moved, may end early.  The order in which the    *)
(* keys come is left open.                                                 *)

OpenIter(c) ==
  /\ pc[c] \in Scans
  /\ ~iter[c].on
  /\ iter' = [iter EXCEPT ![c] = [on |-> TRUE, keys |-> Keys, seen |-> {}]]
  /\ UNCHANGED <<lobby_list, overwritten, accepting, last, pc, req, out, told, wireVars>>

SameSize(c) == Cardinality(Keys) = Cardinality(iter[c].keys)

Yields(c, ip) == /\ pc[c] \in Scans
                 /\ iter[c].on
                 /\ SameSize(c)
                 /\ ip \in Keys \ iter[c].seen

Exhausted(c) == /\ iter[c].on
                /\ SameSize(c)
                /\ Keys \subseteq iter[c].seen \/ Keys # iter[c].keys

\* Mutant: the exception is caught and the loop goes on, with an iterator that only
\* raises again.
IterRaisesForever(c) ==
  /\ pc[c] \in Scans
  /\ iter[c].on
  /\ Keys # iter[c].keys
  /\ UNCHANGED vars

IterRaises(c) ==
  /\ pc[c] \in Scans
  /\ iter[c].on
  /\ Keys # iter[c].keys
  /\ Raise(c)
  /\ UNCHANGED <<lobby_list, overwritten, accepting, last, told, wireVars>>

\* Mutant: the comparison with the handler's own socket is missing.
OwnsAny(c, ip) == TRUE

\* "sock is socket_to_check", "value is client_socket".
Owns(c, ip) == lobby_list[ip] = c

\* The loop body for an entry of another connection, or any entry of list items.
IterPass(c) ==
  /\ \E ip \in IPs :
       /\ Yields(c, ip)
       /\ pc[c] = "list items" \/ ~Owns(c, ip)
       /\ iter' = [iter EXCEPT ![c].seen = @ \cup {ip}]
  /\ UNCHANGED <<lobby_list, overwritten, accepting, last, pc, req, out, told, wireVars>>

-----------------------------------------------------------------------------
(* handle_command and forwardPackets.                                      *)

Registered(ip) == ip \in IPs /\ ip \in Keys

\* Mutant: "not in lobby_list" is missing.
JoinTestAnyAddress(c) ==
  /\ pc[c] = "join"
  /\ IF req[c].ip \in IPs THEN Goto(c, "join set") /\ UNCHANGED out
                         ELSE Answer(c, "join 0", {})
  /\ UNCHANGED <<lobby_list, overwritten, accepting, last, req, iter, told, wireVars>>

\* "join": the test and the write are two steps.
JoinTest(c) ==
  /\ pc[c] = "join"
  /\ IF req[c].ip \in IPs /\ ~Registered(req[c].ip)
     THEN Goto(c, "join set") /\ UNCHANGED out
     ELSE Answer(c, "join 0", {})
  /\ UNCHANGED <<lobby_list, overwritten, accepting, last, req, iter, told, wireVars>>

JoinSet(c) ==
  /\ pc[c] = "join set"
  /\ lobby_list' = [lobby_list EXCEPT ![req[c].ip] = c]
  /\ overwritten' = IF Registered(req[c].ip) THEN overwritten \cup {req[c].ip}
                    ELSE overwritten
  /\ Answer(c, "join 1", {})
  /\ UNCHANGED <<accepting, last, req, iter, told, wireVars>>

\* "list" and "leave" first look the address up, then ask isClientJoin.
ListTest(c) ==
  /\ pc[c] = "list"
  /\ IF Registered(req[c].ip) THEN Goto(c, "list joined") /\ UNCHANGED out
                              ELSE Answer(c, "list 0", {})
  /\ UNCHANGED <<lobby_list, overwritten, accepting, last, req, iter, told, wireVars>>

LeaveTest(c) ==
  /\ pc[c] = "leave"
  /\ IF Registered(req[c].ip) THEN Goto(c, "leave joined") /\ UNCHANGED out
                              ELSE Answer(c, "leave 0", {})
  /\ UNCHANGED <<lobby_list, overwritten, accepting, last, req, iter, told, wireVars>>

\* isClientJoin finds the socket: on to the body of list, to the deletion, or to
\* zlib.decompress, which raises on bytes that are no frame.
MemberFound(c) ==
  /\ pc[c] \in MemberScans
  /\ \E ip \in IPs : Yields(c, ip) /\ Owns(c, ip)
  /\ IF req[c].op = "garbage" THEN Raise(c)
     ELSE /\ Goto(c, CASE pc[c] = "list joined"  -> "list items"
                       [] pc[c] = "leave joined" -> "leave del"
                       [] pc[c] = "frame joined" -> "frame in")
          /\ iter' = [iter EXCEPT ![c] = NoIter]
          /\ UNCHANGED <<req, out>>
  /\ UNCHANGED <<lobby_list, overwritten, accepting, last, told, wireVars>>

\* isClientJoin does not find it.
MemberMissed(c) ==
  /\ pc[c] \in MemberScans
  /\ Exhausted(c)
  /\ iter' = [iter EXCEPT ![c] = NoIter]
  /\ Answer(c, CASE pc[c] = "list joined"  -> "list 0"
                 [] pc[c] = "leave joined" -> "leave 0"
                 [] pc[c] = "frame joined" -> "error", {})
  /\ UNCHANGED <<lobby_list, overwritten, accepting, last, req, told, wireVars>>

ListDone(c) ==
  /\ pc[c] = "list items"
  /\ Exhausted(c)
  /\ Answer(c, "list 1", iter[c].seen)
  /\ iter' = [iter EXCEPT ![c] = NoIter]
  /\ UNCHANGED <<lobby_list, overwritten, accepting, last, req, told, wireVars>>

\* del lobby_list[parsed[2]]: KeyError if the key has gone since the look-up.
LeaveDel(c) ==
  /\ pc[c] = "leave del"
  /\ IF Registered(req[c].ip)
     THEN /\ lobby_list' = [lobby_list EXCEPT ![req[c].ip] = NoConn]
          /\ Answer(c, "leave 1", {})
          /\ UNCHANGED <<req, iter>>
     ELSE Raise(c) /\ UNCHANGED lobby_list
  /\ UNCHANGED <<overwritten, accepting, last, told, wireVars>>

\* forwardPackets: "ip in lobby_list", then lobby_list[ip], then send.
FrameTest(c) ==
  /\ pc[c] = "frame in"
  /\ IF Registered(req[c].ip) THEN Goto(c, "frame get") /\ UNCHANGED req
                              ELSE Serve(c)
  /\ UNCHANGED <<lobby_list, overwritten, accepting, last, iter, out, told, wireVars>>

\* Mutant: the frame goes back to the client it came from.
FrameGetEcho(c) ==
  /\ pc[c] = "frame get"
  /\ PrepareSend(c, c, Forward(req[c].data))
  /\ UNCHANGED <<lobby_list, overwritten, accepting, last, req, iter, told, wireVars>>

FrameGet(c) ==
  /\ pc[c] = "frame get"
  /\ IF Registered(req[c].ip)
     THEN /\ PrepareSend(c, lobby_list[req[c].ip], Forward(req[c].data))
          /\ UNCHANGED <<req, iter>>
     ELSE Raise(c)
  /\ UNCHANGED <<lobby_list, overwritten, accepting, last, told, wireVars>>

-----------------------------------------------------------------------------
(* send, to the handler's own client or to another handler's socket.       *)

\* What an answer tells its client about its own membership.
Word(kind, before) == IF kind = "join 1" THEN "in"
                      ELSE IF kind \in {"leave 1", "error"} THEN "out"
                      ELSE before

\* The bytes are taken by the kernel; those for a client that has hung up are lost.
Send(c) ==
  /\ pc[c] = "send"
  /\ LET to == out[c].to IN
       /\ pc[to] # "done"
       /\ \/ /\ peer[to] = "open"
             /\ Len(toClient[to]) < SendSlots
             /\ toClient' = [toClient EXCEPT ![to] = Append(@, out[c].what)]
          \/ peer[to] = "shut" /\ UNCHANGED toClient
       /\ told' = [told EXCEPT ![to] = Word(out[c].what.kind, @)]
  /\ Serve(c)
  /\ out' = [out EXCEPT ![c] = NoSend(c)]
  /\ UNCHANGED <<lobby_list, overwritten, accepting, last, iter, toServer, peer, sends>>

\* The socket is closed on this side, or the client has gone: OSError in the
\* handler that sends, whoever owns the socket.
SendFails(c) ==
  /\ pc[c] = "send"
  /\ pc[out[c].to] = "done" \/ peer[out[c].to] \in {"shut", "reset"}
  /\ Raise(c)
  /\ UNCHANGED <<lobby_list, overwritten, accepting, last, told, wireVars>>

-----------------------------------------------------------------------------
(* The finally block: find the key, delete it, close the socket.           *)

FinallyFound(c) ==
  /\ pc[c] = "finally"
  /\ \E ip \in IPs :
       /\ Yields(c, ip)
       /\ Owns(c, ip)
       /\ req' = [req EXCEPT ![c].ip = ip]      \* delkey = key
  /\ iter' = [iter EXCEPT ![c] = NoIter]
  /\ Goto(c, "finally del")
  /\ UNCHANGED <<lobby_list, overwritten, accepting, last, out, told, wireVars>>

\* No entry: delkey is unbound and "del lobby_list[delkey]" raises.
FinallyMissed(c) ==
  /\ pc[c] = "finally"
  /\ Exhausted(c)
  /\ Raise(c)
  /\ UNCHANGED <<lobby_list, overwritten, accepting, last, told, wireVars>>

\* Mutant: the socket is closed without deleting the key.
FinallyDelMissing(c) ==
  /\ pc[c] = "finally del"
  /\ Goto(c, "finally close")
  /\ req' = [req EXCEPT ![c] = NoReq]
  /\ UNCHANGED <<lobby_list, overwritten, accepting, last, iter, out, told, wireVars>>

FinallyDel(c) ==
  /\ pc[c] = "finally del"
  /\ IF Registered(req[c].ip)
     THEN /\ lobby_list' = [lobby_list EXCEPT ![req[c].ip] = NoConn]
          /\ Goto(c, "finally close")
          /\ req' = [req EXCEPT ![c] = NoReq]
          /\ UNCHANGED <<iter, out>>
     ELSE Raise(c) /\ UNCHANGED lobby_list
  /\ UNCHANGED <<overwritten, accepting, last, told, wireVars>>

FinallyClose(c) ==
  /\ pc[c] = "finally close"
  /\ Goto(c, "done")
  /\ UNCHANGED <<lobby_list, overwritten, accepting, last, req, iter, out, told, wireVars>>

-----------------------------------------------------------------------------
(* The clients.                                                            *)

ClientSend(c, kind, addr) ==
  /\ peer[c] = "open"
  /\ sends[c] < MaxSends[c]
  /\ kind # "frame" => addr = OwnIP[c]
  /\ sends' = [sends EXCEPT ![c] = @ + 1]
  /\ toServer' = [toServer EXCEPT ![c] = @ \o Message(kind, addr)]
  /\ UNCHANGED <<lobby_list, overwritten, accepting, last, handlerVars, told, toClient, peer>>

ClientRead(c) ==
  /\ peer[c] = "open"
  /\ toClient[c] # << >>
  /\ toClient' = [toClient EXCEPT ![c] = Tail(@)]
  /\ UNCHANGED <<lobby_list, overwritten, accepting, last, handlerVars, told, toServer, peer, sends>>

\* closesocket, or the end of the process: an orderly close or a reset.  A reset
\* throws away what the server has not received.
HangUp(c) ==
  /\ peer[c] = "open"
  /\ \E ending \in Endings[c] :
       /\ peer' = [peer EXCEPT ![c] = ending]
       /\ toServer' = IF ending = "shut" THEN toServer
                       ELSE [toServer EXCEPT ![c] = << >>]
  /\ toClient' = [toClient EXCEPT ![c] = << >>]
  /\ UNCHANGED <<lobby_list, overwritten, accepting, last, handlerVars, told, sends>>

-----------------------------------------------------------------------------
Init ==
  /\ lobby_list = [ip \in IPs |-> NoConn]
  /\ overwritten = {}
  /\ accepting = TRUE
  /\ last = NoConn
  /\ pc = [c \in Conns |-> "new"]
  /\ req = [c \in Conns |-> NoReq]
  /\ iter = [c \in Conns |-> NoIter]
  /\ out = [c \in Conns |-> NoSend(c)]
  /\ told = [c \in Conns |-> "nothing"]
  /\ toServer = [c \in Conns |-> << >>]
  /\ toClient = [c \in Conns |-> << >>]
  /\ peer = [c \in Conns |-> "none"]
  /\ sends = [c \in Conns |-> 0]

\* One step of the handler thread of connection c.
Handler(c) ==
  \/ Recv(c) \/ RecvEnd(c)
  \/ OpenIter(c) \/ IterRaises(c) \/ IterPass(c)
  \/ JoinTest(c) \/ JoinSet(c)
  \/ ListTest(c) \/ LeaveTest(c)
  \/ MemberFound(c) \/ MemberMissed(c)
  \/ ListDone(c) \/ LeaveDel(c)
  \/ FrameTest(c) \/ FrameGet(c)
  \/ Send(c) \/ SendFails(c)
  \/ FinallyFound(c) \/ FinallyMissed(c) \/ FinallyDel(c) \/ FinallyClose(c)

Client(c) ==
  \/ \E kind \in Says[c], addr \in IPs : ClientSend(c, kind, addr)
  \/ ClientRead(c)
  \/ HangUp(c)

\* Nothing is left to do: every handler has ended and no connection can come.
Finished ==
  /\ \A c \in Conns : \/ pc[c] = "new" /\ ~accepting
                      \/ Ended(c) /\ peer[c] # "open"
  /\ UNCHANGED vars

Next ==
  \/ Shutdown
  \/ \E c \in Conns : Accept(c) \/ Handler(c) \/ Client(c)
  \/ Finished

Spec == Init /\ [][Next]_vars

\* Threads are scheduled, so a handler that can take a step takes one.  Nothing
\* makes a client read: only those of Readers are assumed to.
Fairness ==
  /\ \A c \in Conns : WF_vars(Handler(c))
  /\ \A c \in Readers : WF_vars(ClientRead(c))

FairSpec == Spec /\ Fairness

-----------------------------------------------------------------------------
(* Properties.  Connections may present one address: a client that has     *)
(* reconnected, or two whose serials getIP maps to it.                     *)

\* The addresses under which the client behind c may come to be known: its own, and
\* those that TCP may leave of it by cutting the command that carries it.
Presents(c) == {OwnIP[c]} \cup CutIPs[OwnIP[c]]

\* No command is cut into one that carries another valid address: an assumption of
\* the theorems and of the runs in which a join or a leave is never cut.
SingleAddress == \A ip \in IPs : CutIPs[ip] = {}

\* Every variable keeps its type, through every path of handle_client.
TypeOK ==
  /\ lobby_list \in [IPs -> Conns \cup {NoConn}]
  /\ overwritten \subseteq IPs
  /\ accepting \in BOOLEAN
  /\ last \in Conns \cup {NoConn}
  /\ pc \in [Conns -> Labels]
  /\ req \in [Conns -> Request]
  /\ iter \in [Conns -> [on : BOOLEAN, keys : SUBSET IPs, seen : SUBSET IPs]]
  /\ out \in [Conns -> [to : Conns, what : Write]]
  /\ told \in [Conns -> {"nothing", "in", "out"}]
  /\ toServer \in [Conns -> Seq(Piece)]
  /\ toClient \in [Conns -> Seq(Write)]
  /\ peer \in [Conns -> {"none", "open", "shut", "reset"}]
  /\ sends \in [Conns -> Nat]

\* A connection whose handler closed it in order has no entry left in lobby_list,
\* so no other handler can pick its dead socket to send to (server.py:116-122).
ClosedNotRegistered ==
  \A c \in Conns : pc[c] = "done" => \A ip \in IPs : lobby_list[ip] # c

\* A client whose last word was "command join 1" is registered, whatever handlers of
\* its own or of other addresses do meanwhile, until its own handler removes it to
\* say "leave 1" or in its finally block.  The one thing that can go wrong is two
\* joins between whose test and write the other comes (server.py:55-56); from then
\* on nothing is said of that address (server.py:53-58, 73-78, 116-120).
AckedIsRegistered ==
  \A c \in Conns : told[c] = "in" =>
    \/ lobby_list[OwnIP[c]] = c
    \/ OwnIP[c] \in overwritten
    \/ pc[c] = "send" /\ out[c].what.kind = "leave 1"
    \/ pc[c] \in {"finally", "finally close", "done", "crashed"}

\* Between finding a key and deleting it a handler is overtaken by others, some of
\* the same address, and yet the key it deletes is there and is its own: unless one
\* join has overwritten another, "leave" and the finally block never raise KeyError
\* and never remove another client (server.py:75-77, 116-120).
DeletesOwnEntry ==
  \A c \in Conns :
    pc[c] \in {"leave del", "finally del"} =>
      lobby_list[req[c].ip] = c \/ req[c].ip \in overwritten

\* What a client is sent as a frame begins with a frame for an address that client
\* has presented, though the owner of the address is looked up, and the bytes are
\* sent, in later steps than the test.  Frames that TCP has glued behind the first
\* go wherever it goes: nothing is said of those (server.py:10-14).
ForwardedToOwner ==
  \A c \in Conns : \A i \in DOMAIN toClient[c] :
     LET w == toClient[c][i]
     IN  w.kind = "data" => w.body[1].addr \in Presents(c)

\* The threads, with their separate tests and writes, implement the registry, in
\* which only a connection that found the address free replaces another's entry.
Membership == INSTANCE Registry
  WITH owner <- lobby_list, contested <- overwritten,
       claims <- {c \in Conns : pc[c] = "join set"}
ImplementsRegistry == Membership!Spec

\* The handler of c is in a send whose receiver neither reads nor hangs up.
WaitsForReader(c) ==
  /\ pc[c] = "send"
  /\ out[c].to \notin Readers
  /\ peer[out[c].to] = "open"
  /\ Len(toClient[out[c].to]) = SendSlots

\* Once its client has hung up the handler thread ends, or keeps waiting for some
\* client that does not read, there being no timeout on send (server.py:14, 100-102,
\* 111-123).
HungUpHandlerEnds ==
  \A c \in Conns : peer[c] \in {"shut", "reset"} ~> (Ended(c) \/ WaitsForReader(c))

\* No handler stops reading its client: what the client wrote is received, unless
\* the handler ends or waits for a client that does not read (server.py:14, 98-108).
StreamIsRead ==
  \A c \in Conns :
    toServer[c] # << >> ~> (toServer[c] = << >> \/ Ended(c) \/ WaitsForReader(c))

\* "# Close the client connection" (server.py:114): a handler whose thread has ended has
\* its connection closed, at least where the client was told it is a member.
EndedMemberIsClosed == \A c \in Conns : Ended(c) /\ told[c] = "in" => ~Open(c)
=============================================================================
