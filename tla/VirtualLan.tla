---------------------------- MODULE VirtualLan ----------------------------
(***************************************************************************)
(* The clients and the relay server together: class Lobby (Lobby.h), the   *)
(* callbacks of functions.cpp, the menu of sourse.cpp, and what server.py  *)
(* answers.  Each client runs its main thread, its checker, the listener   *)
(* of class Server and the thread of its adapter; the server runs a thread *)
(* for each connection.  ServerLink has reconnect() and the flag connected *)
(* in detail, and LobbyServer the threads of the server.                   *)
(*                                                                         *)
(* A write of the server is a sequence of words and blanks, an address one *)
(* or several words: TCP keeps no boundary of writes, and recv() may       *)
(* return less than one or more than one.  Towards the server a cut        *)
(* request is followed by its rest.  That an address may be cut to another *)
(* host's is in LobbyServer only.                                          *)
(***************************************************************************)
EXTENDS Naturals, Sequences, FiniteSets, SequencesExt

CONSTANTS
  Clients,    \* the hosts of the LAN that are modelled with their threads
  Peers,      \* hosts of which only what the server and the clients see is modelled
  Parts,      \* the words that addresses are made of
  Address,    \* the address of each, one or several of them; they differ
  Scenarios   \* what the users, the network and the bounds allow: see Scenario

MenuItems == {"join", "list", "leave", "send", "reconnect", "quit"}

\* hosts: those that take part; dsts: those that packets are for; cuts: recv() may cut
\* writes and requests and glue them, if not, it returns one of them; choices: what the users
\* choose from the menu.  The rest are bounds: how often they choose, how often a connection
\* breaks or a loop over lobby_list raises before the finally block, connections a client
\* makes, unread requests of a connection, unread writes to one (with cuts, the words of all
\* of them) at which the server waits.
Scenario == [hosts : SUBSET (Clients \cup Peers), dsts : SUBSET (Clients \cup Peers),
             cuts : BOOLEAN, choices : SUBSET MenuItems, menu : Nat, drops : Nat,
             conns : Nat, requests : Nat, replies : Nat]

Hosts == Clients \cup Peers
Conns == UNION {1 .. s.conns : s \in Scenarios}
Addresses == {Address[h] : h \in Hosts}

Blank == " "

\* What the requests and replies are made of, and no address.
Words == {Blank, "command", "join", "list", "leave", "error", "0", "1", "send", "eof", "frame", "rest"}

ASSUME LanAssumption ==
  /\ Scenarios \subseteq Scenario
  /\ Clients \cap Peers = {}
  /\ IsFiniteSet(Clients \cup Peers)
  /\ Parts \cap Words = {}
  /\ \A h \in Hosts : Address[h] \in Seq(Parts) \ {<< >>}
  /\ \A h, i \in Hosts : Address[h] = Address[i] => h = i

VARIABLES
  at,         \* where the threads of each client are
  conn,       \* the number of its current connection, 0 before the first
  alive,      \* that connection is not broken
  connected,  \* Server::connected
  join,       \* Lobby::join
  memberList, \* Lobby::memberList, a set of tokens
  chunk,      \* what the listener's recv() returned, as handleResponse reads it
  scan,       \* what the adapter's thread looks for in memberList
  requests,   \* what each connection has sent and its thread has not read
  handler,    \* where the server's thread of each connection is: see Handlers
  replies,    \* what is written to the current connection and it has not read: what recv()
              \* may return, one after the other
  lobby,      \* lobby_list: the connection entered under a client's address, or 0
  told,       \* history: the members listed to each client
  scenario,   \* chosen at the start
  menu, drops \* choices and breaks so far

clientVars == <<at, conn, alive, connected, join, memberList, chunk, scan>>
serverVars == <<handler, lobby, told>>
boundVars == <<scenario, menu, drops>>
vars == <<clientVars, requests, replies, serverVars, boundVars>>

None == [verb |-> "none", members |-> {}]
NoScan == [dst |-> << >>, seen |-> {}, torn |-> FALSE]

\* It reads requests; it has entered or removed the client and will tell it; it is in the
\* finally block, where lobby_list has changed its size since the loop began or not; that
\* block raised; or it ran to its end.
Handlers == {"serve", "tell", "left", "finally", "resized", "raised", "ended"}

Goto(c, thread, label) == at' = [at EXCEPT ![c][thread] = label]

-----------------------------------------------------------------------------
(* The wire.                                                               *)

Reply(verb, ok) == <<"command", Blank, verb, Blank, ok, Blank>>
ErrorReply == <<"command", Blank, "error">>
FrameWrite == <<"frame">>
ListReply(members) ==
  LET listing[i \in 0 .. Len(members)] ==
        IF i = 0 THEN Reply("list", "1") ELSE listing[i - 1] \o members[i] \o <<Blank>>
  IN  listing[Len(members)]

\* What a connection sends after it is closed or broken is lost.
Request(c, g, m) == requests' = [requests EXCEPT ![c][g] = Append(@, m)]
Send(c, m) ==
  IF alive[c] THEN Len(requests[c][conn[c]]) < scenario.requests /\ Request(c, conn[c], m)
              ELSE UNCHANGED requests

\* sendData(std::string): a send on a broken connection may fail.
SendData(c, m) ==
  IF connected[c]
  THEN /\ Send(c, m)
       /\ \/ UNCHANGED connected
          \/ ~alive[c] /\ connected' = [connected EXCEPT ![c] = FALSE]
  ELSE UNCHANGED <<requests, connected>>

Current(c, g) == g = conn[c] /\ alive[c]

\* Where writes may be cut they are glued as well: what is unread is one sequence.
Glued(unread, w) ==
  IF scenario.cuts /\ unread # << >> THEN <<Head(unread) \o w>> ELSE Append(unread, w)

Room(unread) ==
  scenario.replies >
    IF scenario.cuts /\ unread # << >> THEN Len(Head(unread)) ELSE Len(unread)

\* socket.send: what is written to another connection than the current one is lost.
Write(c, g, w) ==
  IF Current(c, g)
  THEN Room(replies[c]) /\ replies' = [replies EXCEPT ![c] = Glued(@, w)]
  ELSE UNCHANGED replies

-----------------------------------------------------------------------------
(* Class Lobby.                                                            *)

\* Every write of memberList; the adapter's thread may be reading it.
SetMembers(c, members) ==
  /\ memberList' = [memberList EXCEPT ![c] = members]
  /\ scan' = IF scan[c] = NoScan THEN scan
             ELSE [scan EXCEPT ![c].seen = @ \cup members, ![c].torn = TRUE]

\* The process ends, and its connection with it.
End(c) ==
  /\ at' = [at EXCEPT ![c] = [main |-> "off", checker |-> "off", listener |-> "off"]]
  /\ alive' = [alive EXCEPT ![c] = FALSE]
  /\ connected' = [connected EXCEPT ![c] = FALSE]
  /\ join' = [join EXCEPT ![c] = FALSE]
  /\ memberList' = [memberList EXCEPT ![c] = {}]
  /\ chunk' = [chunk EXCEPT ![c] = None]
  /\ scan' = [scan EXCEPT ![c] = NoScan]
  /\ replies' = [replies EXCEPT ![c] = << >>]
  /\ IF alive[c] THEN Request(c, conn[c], <<"eof">>) ELSE UNCHANGED requests
  /\ UNCHANGED conn

\* Mutant: a connection that is broken already is closed again.
OpenClosesTwice(c) ==
  /\ conn[c] < scenario.conns
  /\ conn' = [conn EXCEPT ![c] = @ + 1]
  /\ alive' = [alive EXCEPT ![c] = TRUE]
  /\ connected' = [connected EXCEPT ![c] = TRUE]
  /\ replies' = [replies EXCEPT ![c] = << >>]
  /\ IF conn[c] > 0 THEN Request(c, conn[c], <<"eof">>) ELSE UNCHANGED requests

\* The old connection is closed, and a new one is made.
Open(c) ==
  /\ conn[c] < scenario.conns
  /\ conn' = [conn EXCEPT ![c] = @ + 1]
  /\ alive' = [alive EXCEPT ![c] = TRUE]
  /\ connected' = [connected EXCEPT ![c] = TRUE]
  /\ replies' = [replies EXCEPT ![c] = << >>]
  /\ IF alive[c] THEN Request(c, conn[c], <<"eof">>) ELSE UNCHANGED requests

\* The process starts, or starts again: the globals are constructed.
Start(c) ==
  /\ c \in scenario.hosts
  /\ at[c].main = "off"
  /\ Open(c)
  /\ Goto(c, "main", "join")
  /\ UNCHANGED <<join, memberList, chunk, scan, serverVars, boundVars>>

\* joinlLobby, and its sleep before it asks for the list.
JoinLobby(c, t) ==
  /\ at[c][t] = "join"
  /\ SendData(c, <<"join">>)
  /\ Goto(c, t, "list")
  /\ UNCHANGED <<conn, alive, join, memberList, chunk, scan, replies, serverVars, boundVars>>

\* getLobbyMembers; at the end of Lobby's constructor main() starts the other threads.
GetLobbyMembers(c, t) ==
  /\ at[c][t] = "list"
  /\ SendData(c, <<"list">>)
  /\ IF at[c].listener = "off"
     THEN at' = [at EXCEPT ![c] = [main |-> "idle", checker |-> "idle", listener |-> "recv"]]
     ELSE Goto(c, t, "idle")
  /\ UNCHANGED <<conn, alive, join, memberList, chunk, scan, replies, serverVars, boundVars>>

\* checkConnection wakes from its sleep.
CheckConnection(c) ==
  /\ at[c].checker = "idle"
  /\ IF connected[c]
     THEN /\ Goto(c, "checker", IF join[c] THEN "list" ELSE "join")
          /\ UNCHANGED <<join, memberList, scan>>
     ELSE /\ SetMembers(c, {})
          /\ join' = [join EXCEPT ![c] = FALSE]
          /\ Goto(c, "checker", "reconnect")
  /\ UNCHANGED <<conn, alive, connected, chunk, requests, replies, serverVars, boundVars>>

Reconnect(c, t) ==
  /\ at[c][t] = "reconnect"
  /\ Open(c)
  /\ Goto(c, t, "idle")
  /\ UNCHANGED <<join, memberList, chunk, scan, serverVars, boundVars>>

\* leaveLobby sends, and then clears join.
LeaveLobby(c) ==
  /\ at[c].main = "unjoin"
  /\ join' = [join EXCEPT ![c] = FALSE]
  /\ Goto(c, "main", "idle")
  /\ UNCHANGED <<conn, alive, connected, memberList, chunk, scan, requests, replies,
                 serverVars, boundVars>>

\* The menu of main(): 1, 2 and 5; 3 and 4; 0.
Menu(c) ==
  /\ at[c].main = "idle"
  /\ menu < scenario.menu
  /\ menu' = menu + 1
  /\ \E choice \in scenario.choices :
       \/ /\ choice \in {"join", "list", "reconnect"}
          /\ Goto(c, "main", choice)
          /\ UNCHANGED <<conn, alive, connected, join, memberList, chunk, scan, requests,
                         replies>>
       \/ /\ choice \in {"leave", "send"}
          /\ SendData(c, <<choice>>)
          /\ Goto(c, "main", IF choice = "leave" THEN "unjoin" ELSE "idle")
          /\ UNCHANGED <<conn, alive, join, memberList, chunk, scan, replies>>
       \/ /\ choice = "quit"
          /\ End(c)
  /\ UNCHANGED <<scenario, drops, serverVars>>

-----------------------------------------------------------------------------
(* The listener: what recv() returns is handled as one packet.             *)

\* The piece behind position a, 0 or a blank, ends before the next blank or at the end.
Stop(s, a) == Min({b \in a + 1 .. Len(s) : s[b] = Blank} \cup {Len(s) + 1})
Piece(s, a) == SubSeq(s, a + 1, Stop(s, a) - 1)

\* Mutant: the last piece counts as a member, too.
ListedToEnd(s, a) == {Piece(s, b) : b \in {b \in DOMAIN s : s[b] = Blank /\ b >= a}}

\* updateLobbyList: the pieces behind the blank a, but for the last one.
Listed(s, a) ==
  {Piece(s, b) : b \in {b \in DOMAIN s : s[b] = Blank /\ b >= a /\ Stop(s, b) <= Len(s)}}

\* What handleResponse acts on; "missing" when it reads a piece that is not there.
Response(s) ==
  LET first == Stop(s, 0)
      second == Stop(s, first)
      verb == Piece(s, first)
      yes == Piece(s, second) = <<"1">>
  IN  IF \/ first > Len(s)
         \/ second > Len(s) /\ verb \in {<<"join">>, <<"list">>, <<"leave">>}
      THEN [None EXCEPT !.verb = "missing"]
      ELSE CASE verb = <<"error">>        -> [None EXCEPT !.verb = "error"]
             [] verb = <<"join">> /\ yes  -> [None EXCEPT !.verb = "join"]
             [] verb = <<"leave">> /\ yes -> [None EXCEPT !.verb = "leave"]
             [] verb = <<"list">> /\ yes  ->
                  [verb |-> "list", members |-> Listed(s, Stop(s, second))]
             [] OTHER -> None

\* callbackLiteningToServer: what is no command goes to the adapter as a frame, and
\* changes nothing here.
Understood(s) == IF s[1] = "command" THEN Response(s) ELSE None

Recv(c) ==
  /\ at[c].listener = "recv"
  /\ connected[c]
  /\ replies[c] # << >>
  /\ \E n \in DOMAIN Head(replies[c]) :
       LET s == Head(replies[c])
       IN  /\ scenario.cuts \/ n = Len(s)
           /\ chunk' = [chunk EXCEPT ![c] = Understood(SubSeq(s, 1, n))]
           /\ replies' = [replies EXCEPT ![c] =
                            IF n = Len(s) THEN Tail(@)
                            ELSE <<SubSeq(s, n + 1, Len(s))>> \o Tail(@)]
  /\ Goto(c, "listener", "handle")
  /\ UNCHANGED <<conn, alive, connected, join, memberList, scan, requests, serverVars,
                 boundVars>>

RecvEnds(c) ==
  /\ at[c].listener = "recv"
  /\ connected[c]
  /\ ~alive[c]
  /\ replies[c] = << >>
  /\ connected' = [connected EXCEPT ![c] = FALSE]
  /\ UNCHANGED <<at, conn, alive, join, memberList, chunk, scan, requests, replies,
                 serverVars, boundVars>>

\* Mutant: "error" is not a reply.
HandleResponseNoError(c, r) ==
  CASE r.verb = "join"  -> join' = [join EXCEPT ![c] = TRUE] /\ UNCHANGED <<memberList, scan>>
    [] r.verb = "list"  -> SetMembers(c, r.members) /\ UNCHANGED join
    [] r.verb = "leave" -> SetMembers(c, {}) /\ join' = [join EXCEPT ![c] = FALSE]
    [] OTHER            -> UNCHANGED <<join, memberList, scan>>

\* Mutant: "leave" does not clear join, which leaveLobby has cleared.
HandleResponseJoinKept(c, r) ==
  CASE r.verb = "join"  -> join' = [join EXCEPT ![c] = TRUE] /\ UNCHANGED <<memberList, scan>>
    [] r.verb = "list"  -> SetMembers(c, r.members) /\ UNCHANGED join
    [] r.verb = "leave" -> SetMembers(c, {}) /\ UNCHANGED join
    [] r.verb = "error" -> join' = [join EXCEPT ![c] = FALSE] /\ UNCHANGED <<memberList, scan>>
    [] OTHER            -> UNCHANGED <<join, memberList, scan>>

HandleResponse(c, r) ==
  CASE r.verb = "join"  -> join' = [join EXCEPT ![c] = TRUE] /\ UNCHANGED <<memberList, scan>>
    [] r.verb = "list"  -> SetMembers(c, r.members) /\ UNCHANGED join
    [] r.verb = "leave" -> SetMembers(c, {}) /\ join' = [join EXCEPT ![c] = FALSE]
    [] r.verb = "error" -> join' = [join EXCEPT ![c] = FALSE] /\ UNCHANGED <<memberList, scan>>
    [] OTHER            -> UNCHANGED <<join, memberList, scan>>

\* A piece that is missing is read outside the vector: nothing matches, or the process ends.
Callback(c) ==
  /\ at[c].listener = "handle"
  /\ \/ chunk[c].verb = "missing" /\ End(c)
     \/ /\ HandleResponse(c, chunk[c])
        /\ Goto(c, "listener", "recv")
        /\ chunk' = [chunk EXCEPT ![c] = None]
        /\ UNCHANGED <<conn, alive, connected, requests, replies>>
  /\ UNCHANGED <<serverVars, boundVars>>

-----------------------------------------------------------------------------
(* The adapter's thread: callbackLitentToInterface.                        *)

\* It starts to look for the destination of a packet.
Scan(c, d) ==
  /\ at[c].listener # "off"
  /\ scan[c] = NoScan
  /\ memberList[c] # {}
  /\ scan' = [scan EXCEPT ![c] = [dst |-> d, seen |-> memberList[c], torn |-> FALSE]]
  /\ UNCHANGED <<at, conn, alive, connected, join, memberList, chunk, requests, replies,
                 serverVars, boundVars>>

\* The destination is a member, and the frame is sent.  A list written meanwhile may show
\* what it held before.
Transmit(c) ==
  /\ scan[c] # NoScan
  /\ join[c]
  /\ scan[c].dst \in scan[c].seen
  /\ IF connected[c] THEN Send(c, scan[c].dst) ELSE UNCHANGED requests
  /\ scan' = [scan EXCEPT ![c] = NoScan]
  /\ UNCHANGED <<at, conn, alive, connected, join, memberList, chunk, replies, serverVars,
                 boundVars>>

\* It is not, or a list written meanwhile hides it, or the element read is gone.
Discard(c) ==
  /\ scan[c] # NoScan
  /\ \/ /\ ~join[c] \/ scan[c].dst \notin scan[c].seen \/ scan[c].torn
        /\ scan' = [scan EXCEPT ![c] = NoScan]
        /\ UNCHANGED <<at, conn, alive, connected, join, memberList, chunk, requests,
                       replies>>
     \/ scan[c].torn /\ End(c)
  /\ UNCHANGED <<serverVars, boundVars>>

-----------------------------------------------------------------------------
(* The server.                                                             *)

Entered(c, g) == lobby[c] = g

\* Every loop over lobby_list that runs when an entry is added or deleted may raise.
Resized(hs) ==
  [c \in Clients |-> [g \in Conns |-> IF hs[c][g] = "finally" THEN "resized" ELSE hs[c][g]]]

Becomes(c, g, label) == handler' = [handler EXCEPT ![c][g] = label]

\* It adds or deletes an entry.
Resizes(c, g, label) == handler' = Resized([handler EXCEPT ![c][g] = label])

Take(c, g, rest) == requests' = [requests EXCEPT ![c][g] = rest]
Read(c, g) == Take(c, g, Tail(requests[c][g]))
Answer(c, g, w) == Write(c, g, w) /\ Read(c, g) /\ UNCHANGED alive

\* The end of the data, or an exception.
ToFinally(c, g) == Becomes(c, g, "finally") /\ UNCHANGED <<replies, alive, lobby, told>>

\* Mutant: the entry of a connection that ends is kept.
CleanUpForgotten(c, g) == UNCHANGED lobby

\* finally: the entry of the connection goes.
CleanUp(c, g) == lobby' = [lobby EXCEPT ![c] = 0]

Close(c, g) == alive' = IF g = conn[c] THEN [alive EXCEPT ![c] = FALSE] ELSE alive

\* The finally block: the loop finds the entry, which is deleted, and the connection is
\* closed.  It raises when the loop does, or when it finds nothing and delkey is unbound:
\* then an entry stays, and the connection is closed only if nothing refers to it any more.
ThreadEnds(c, g) ==
  /\ \/ /\ handler[c][g] \in {"finally", "resized"}
        /\ Entered(c, g)
        /\ CleanUp(c, g)
        /\ Resizes(c, g, "ended")
        /\ Close(c, g)
     \/ /\ handler[c][g] \in IF Entered(c, g) THEN {"resized"} ELSE {"finally", "resized"}
        /\ Becomes(c, g, "raised")
        /\ UNCHANGED alive \/ (~Entered(c, g) /\ Close(c, g))
        /\ UNCHANGED lobby
  /\ Take(c, g, << >>)
  /\ UNCHANGED <<at, conn, connected, join, memberList, chunk, scan, replies, told, boundVars>>

\* "join": the client is entered first and told in a step of its own.
ServeJoin(c, g) ==
  /\ Head(requests[c][g]) = <<"join">>
  /\ IF Entered(c, 0)
     THEN /\ lobby' = [lobby EXCEPT ![c] = g]
          /\ Resizes(c, g, "tell")
          /\ Read(c, g)
          /\ UNCHANGED <<replies, alive>>
     ELSE Answer(c, g, Reply("join", "0")) /\ UNCHANGED <<lobby, handler>>
  /\ UNCHANGED told

ServeList(c, g) ==
  /\ Head(requests[c][g]) = <<"list">>
  /\ IF Entered(c, g)
     THEN LET members == {d \in Hosts : ~Entered(d, 0)}
          IN  /\ Answer(c, g, ListReply(SetToSeq({Address[d] : d \in members})))
              /\ told' = [told EXCEPT ![c] = @ \cup {Address[d] : d \in members}]
     ELSE Answer(c, g, Reply("list", "0")) /\ UNCHANGED told
  /\ UNCHANGED <<lobby, handler>>

\* "leave": the entry is deleted first, too.
ServeLeave(c, g) ==
  /\ Head(requests[c][g]) = <<"leave">>
  /\ IF Entered(c, g)
     THEN /\ lobby' = [lobby EXCEPT ![c] = 0]
          /\ Resizes(c, g, "left")
          /\ Read(c, g)
          /\ UNCHANGED <<replies, alive>>
     ELSE Answer(c, g, Reply("leave", "0")) /\ UNCHANGED <<lobby, handler>>
  /\ UNCHANGED told

\* The client is told what was done.
Tell(c, g) ==
  /\ \/ handler[c][g] = "tell" /\ Write(c, g, Reply("join", "1"))
     \/ handler[c][g] = "left" /\ Write(c, g, Reply("leave", "1"))
  /\ Becomes(c, g, "serve")
  /\ UNCHANGED <<clientVars, requests, lobby, told, boundVars>>

\* What is no command and does not decompress.
Garbage(c, g) ==
  \/ ~Entered(c, g) /\ Write(c, g, ErrorReply) /\ UNCHANGED <<alive, lobby, handler, told>>
  \/ Entered(c, g) /\ ToFinally(c, g)

\* A frame is sent to the client of its destination; send() on a dead connection raises.
Forward(c, g, m) ==
  \/ ~Entered(c, g) /\ Write(c, g, ErrorReply) /\ UNCHANGED <<alive, lobby, handler, told>>
  \/ \E d \in Hosts :
       /\ Entered(c, g)
       /\ m = Address[d]
       /\ \/ /\ IF d \in Clients THEN Write(d, lobby[d], FrameWrite) ELSE UNCHANGED replies
             /\ UNCHANGED <<alive, lobby, handler, told>>
          \/ /\ ~Entered(d, 0)
             /\ d \in Clients => ~Current(d, lobby[d])
             /\ ToFinally(c, g)

\* A frame, what the user sent with 4, or the rest of a request that was cut.
ServeFrame(c, g) ==
  LET m == Head(requests[c][g])
  IN  /\ \/ m \in Addresses /\ Forward(c, g, m)
         \/ m \in {<<"send">>, <<"rest">>} /\ Garbage(c, g)
      /\ Read(c, g)

ServeEnd(c, g) ==
  /\ Head(requests[c][g]) = <<"eof">>
  /\ ToFinally(c, g)
  /\ Read(c, g)

\* A command whose address is not the client's, or cannot be decoded.
BadCommand(c, g, m) ==
  \/ Write(c, g, Reply(m[1], "0")) /\ UNCHANGED <<alive, lobby, handler, told>>
  \/ ToFinally(c, g)

Commands == {<<"join">>, <<"list">>, <<"leave">>}

\* A part of a request: of a command it may lack the verb or the address.
ServeCut(c, g) ==
  LET m == Head(requests[c][g])
  IN  /\ scenario.cuts
      /\ m # <<"eof">>
      /\ Take(c, g, [requests[c][g] EXCEPT ![1] = <<"rest">>])
      /\ \/ Garbage(c, g)
         \/ m \in Commands /\ BadCommand(c, g, m)
         \/ m \in Commands /\ UNCHANGED <<replies, alive, lobby, handler, told>>

\* Several requests: the first word after the verb is no address, and what follows a frame
\* goes where the frame goes.
ServeGlued(c, g) ==
  LET m == Head(requests[c][g])
      rs == requests[c][g]
  IN  /\ scenario.cuts
      /\ \E n \in 2 .. Len(rs) :
           /\ \A i \in 1 .. n : rs[i] # <<"eof">>
           /\ Take(c, g, SubSeq(rs, n + 1, Len(rs)))
      /\ \/ m \in Commands /\ BadCommand(c, g, m)
         \/ m \in Addresses /\ Forward(c, g, m)
         \/ m \in {<<"send">>, <<"rest">>} /\ Garbage(c, g)

Serve(c, g) ==
  /\ requests[c][g] # << >>
  /\ handler[c][g] = "serve"
  /\ \/ ServeJoin(c, g) \/ ServeList(c, g) \/ ServeLeave(c, g) \/ ServeFrame(c, g)
     \/ ServeEnd(c, g) \/ ServeCut(c, g) \/ ServeGlued(c, g)
  /\ UNCHANGED <<at, conn, connected, join, memberList, chunk, scan, boundVars>>

\* The loop of "list", or of isClientJoin, raises: another thread has changed the size of
\* lobby_list.
LoopRaises(c, g) ==
  /\ drops < scenario.drops
  /\ drops' = drops + 1
  /\ handler[c][g] = "serve"
  /\ requests[c][g] # << >>
  /\ Head(requests[c][g]) \notin {<<"join">>, <<"eof">>}
  /\ ToFinally(c, g)
  /\ Read(c, g)
  /\ UNCHANGED <<at, conn, connected, join, memberList, chunk, scan, scenario, menu>>

\* A peer enters or leaves the lobby, or its frame is forwarded to a client.
PeerMoves(p) ==
  /\ p \in scenario.hosts
  /\ lobby' = [lobby EXCEPT ![p] = 1 - @]
  /\ handler' = Resized(handler)
  /\ UNCHANGED <<clientVars, requests, replies, told, boundVars>>

PeerSends(p, c) ==
  /\ Entered(p, 1)
  /\ ~Entered(c, 0)
  /\ Current(c, lobby[c])
  /\ Write(c, lobby[c], FrameWrite)
  /\ UNCHANGED <<clientVars, requests, serverVars, boundVars>>

\* The connection breaks: what is under way may be lost.
Drop(c) ==
  /\ drops < scenario.drops
  /\ drops' = drops + 1
  /\ conn[c] > 0 /\ alive[c]
  /\ alive' = [alive EXCEPT ![c] = FALSE]
  /\ \E kept \in 0 .. Len(requests[c][conn[c]]) :
       requests' = [requests EXCEPT ![c][conn[c]] = Append(SubSeq(@, 1, kept), <<"eof">>)]
  /\ replies' \in {replies, [replies EXCEPT ![c] = << >>]}
  /\ UNCHANGED <<at, conn, connected, join, memberList, chunk, scan, serverVars, scenario, menu>>

-----------------------------------------------------------------------------
Init ==
  /\ scenario \in Scenarios
  /\ at = [c \in Clients |-> [main |-> "off", checker |-> "off", listener |-> "off"]]
  /\ conn = [c \in Clients |-> 0]
  /\ alive = [c \in Clients |-> FALSE]
  /\ connected = [c \in Clients |-> FALSE]
  /\ join = [c \in Clients |-> FALSE]
  /\ memberList = [c \in Clients |-> {}]
  /\ chunk = [c \in Clients |-> None]
  /\ scan = [c \in Clients |-> NoScan]
  /\ requests = [c \in Clients |-> [g \in Conns |-> << >>]]
  /\ handler = [c \in Clients |-> [g \in Conns |-> "serve"]]
  /\ replies = [c \in Clients |-> << >>]
  /\ lobby = [h \in Hosts |-> 0]
  /\ told = [c \in Clients |-> {}]
  /\ menu = 0
  /\ drops = 0

Caller(c, t) == JoinLobby(c, t) \/ GetLobbyMembers(c, t) \/ Reconnect(c, t)
Listener(c) == Recv(c) \/ RecvEnds(c) \/ Callback(c)
Handler(c, g) == Serve(c, g) \/ Tell(c, g) \/ ThreadEnds(c, g)

Next ==
  \E c \in Clients :
    \/ Start(c)
    \/ \E t \in {"main", "checker"} : Caller(c, t)
    \/ LeaveLobby(c)
    \/ CheckConnection(c)
    \/ Menu(c)
    \/ Listener(c)
    \/ \E d \in scenario.dsts \ {c} : Scan(c, Address[d])
    \/ Transmit(c)
    \/ Discard(c)
    \/ \E g \in Conns : Handler(c, g) \/ LoopRaises(c, g)
    \/ Drop(c)
    \/ \E p \in Peers : PeerMoves(p) \/ PeerSends(p, c)

Spec == Init /\ [][Next]_vars

\* The threads of the clients and of the server run; nothing is assumed of the users, the
\* hosts' packets or the network.
Fairness ==
  \A c \in Clients :
    /\ \A t \in {"main", "checker"} : WF_vars(Caller(c, t))
    /\ WF_vars(CheckConnection(c))
    /\ WF_vars(Listener(c))
    /\ \A g \in Conns : WF_vars(Handler(c, g))

FairSpec == Spec /\ Fairness

-----------------------------------------------------------------------------
(* Properties.                                                             *)

Labels == {"off", "join", "list", "idle", "reconnect", "unjoin", "recv", "handle"}
Verbs == {"none", "missing", "error", "join", "leave", "list"}
Text == Seq(Words \cup Parts)
Search == {NoScan} \cup [dst : Addresses, seen : SUBSET Text, torn : BOOLEAN]
Running == {"serve", "tell", "left"}
Message == Addresses \cup {<<"join">>, <<"list">>, <<"leave">>, <<"send">>, <<"eof">>,
                        <<"rest">>}

\* Every variable keeps its type, and a connection is closed once, after all it has sent.
TypeOK ==
  /\ at \in [Clients -> [main : Labels, checker : Labels, listener : Labels]]
  /\ conn \in [Clients -> {0} \cup Conns]
  /\ alive \in [Clients -> BOOLEAN]
  /\ connected \in [Clients -> BOOLEAN]
  /\ join \in [Clients -> BOOLEAN]
  /\ requests \in [Clients -> [Conns -> Seq(Message)]]
  /\ \A c \in Clients, g \in Conns : \A i \in DOMAIN requests[c][g] :
        requests[c][g][i] = <<"eof">> => i = Len(requests[c][g])
  /\ memberList \in [Clients -> SUBSET Text]
  /\ chunk \in [Clients -> [verb : Verbs, members : SUBSET Text]]
  /\ scan \in [Clients -> Search]
  /\ replies \in [Clients -> Seq(Text \ {<< >>})]
  /\ handler \in [Clients -> [Conns -> Handlers]]
  /\ lobby \in [Hosts -> {0, 1} \cup Conns]
  /\ told \in [Clients -> SUBSET Addresses]
  /\ scenario \in Scenarios
  /\ menu \in Nat
  /\ drops \in Nat

\* However recv() cuts and glues the replies, an address in memberList is one that the
\* server listed: the front of a longer one is never read as an address (Lobby.h:67-73).
MembersListed == \A c \in Clients : memberList[c] \cap Addresses \subseteq told[c]

\* An entry of a connection that is not the client's current one is about to go, or the
\* finally block of its thread has raised: but for that exception the "join 0" that it
\* causes is not for ever (server.py:111-122, Lobby.h:45-47).  With it, it is: the entry
\* stays, as EndedMemberIsClosed of LobbyServer shows.
StaleEntriesGo ==
  \A c \in Clients :
    lobby[c] # 0 /\ ~Current(c, lobby[c])
      => LET rs == requests[c][lobby[c]]
         IN  \/ rs # << >> /\ Last(rs) = <<"eof">> /\ handler[c][lobby[c]] \in Running
             \/ handler[c][lobby[c]] \in {"finally", "resized", "raised"}

\* What will clear join again: the end of leaveLobby, the answer to it, or an error.
Unjoining(c) ==
  \/ at[c].main = "unjoin"
  \/ handler[c][conn[c]] = "left"
  \/ chunk[c].verb \in {"leave", "error"}
  \/ \E i \in DOMAIN replies[c] : replies[c][i] \in {Reply("leave", "1"), ErrorReply}

\* On the first connection of a client, where every recv() returns one write, it believes
\* that it has joined only if the server has entered it, or it is about to be told otherwise,
\* however "join", "leave" and their answers overtake each other (Lobby.h:81-84, 111-132).
JoinedIsEntered ==
  \A c \in Clients :
    join[c] /\ alive[c] /\ conn[c] = 1 /\ ~scenario.cuts => Entered(c, conn[c]) \/ Unjoining(c)

\* If every recv() returns one write and nobody leaves, a client that goes on sending
\* frames is entered in the end, though its connection was broken or replaced under a
\* join that stayed true (Lobby.h:36-53, 111-136, sourse.cpp:56-60).
SendersEntered ==
  \A c \in Clients :
    []<><<Transmit(c)>>_vars => <>[](Entered(c, conn[c]) /\ alive[c])
=============================================================================
