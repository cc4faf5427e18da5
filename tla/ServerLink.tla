---------------------------- MODULE ServerLink ----------------------------
(***************************************************************************)
(* Class Server of src/virtualLanOverServer/Server.cpp: the client's TCP   *)
(* link to the relay server.  Three threads share *clientSocket and the    *)
(* flag connected without a lock: main (the constructors, then the menu of *)
(* sourse.cpp), the checker (Lobby::checkConnection) and the listener      *)
(* (Server::Listening).  A step is one access to what they share.          *)
(*                                                                         *)
(* sendData(BYTE*, DWORD), which the adapter's thread calls, changes none  *)
(* of this state, whatever send() returns, and is no action.               *)
(***************************************************************************)
EXTENDS Naturals, FiniteSets

CONSTANTS
  Handles,        \* values of SOCKET
  INVALID_SOCKET, \* what socket() returns when it fails
  Uninitialized,  \* what "new SOCKET" holds
  Scenarios       \* the builds, the users and the bounds: see Scenario

MenuItems == {"send", "reconnect"}

\* handles: those that socket() may return; hoisted: the build may read the plain bool
\* connected once while Listening spins; startFails: WSAStartup or the first socket() may
\* fail; choices: what the user chooses from the menu.  The rest are bounds: how often he
\* chooses, how often the server goes away or drops the link.
Scenario == [handles : SUBSET Handles, hoisted : BOOLEAN, startFails : BOOLEAN,
             choices : SUBSET MenuItems, menu : Nat, breaks : Nat]

ASSUME LinkAssumption ==
  /\ INVALID_SOCKET \notin Handles
  /\ Uninitialized \notin Handles
  /\ INVALID_SOCKET # Uninitialized
  /\ IsFiniteSet(Handles)
  /\ Scenarios \subseteq Scenario

VARIABLES
  clientSocket, \* the value of *clientSocket
  connected,    \* Server::connected
  wsa,          \* Winsock is started
  kernel,       \* the state of every handle in this process
  pc,           \* where main and the checker are
  listener,     \* where the listener is
  wait,         \* the handle its recv() waits on
  serverUp,     \* the relay server accepts connections
  scenario,     \* chosen at the start
  menu, breaks  \* choices and breaks so far

threadVars == <<pc, listener, wait>>
boundVars == <<serverUp, scenario, menu, breaks>>
vars == <<clientSocket, connected, wsa, kernel, threadVars, boundVars>>

Callers == {"main", "checker"}

\* A handle is closed, or a socket: fresh, linked to the server, shut by the server
\* (recv returns 0, and a send provokes a reset), or reset (every call fails).
SocketStates == {"closed", "fresh", "linked", "shut", "reset"}

-----------------------------------------------------------------------------
(* Winsock.                                                                *)

IsSocket(h) == h \in Handles /\ kernel[h] # "closed"

State(h) == IF h \in Handles THEN kernel[h] ELSE "closed"

\* closesocket(h): fails on what is no open socket.  A recv() waiting on h returns.
Close(h) ==
  /\ kernel' = IF IsSocket(h) THEN [kernel EXCEPT ![h] = "closed"] ELSE kernel
  /\ wait' = IF IsSocket(h) /\ wait = h THEN INVALID_SOCKET ELSE wait

\* socket(): a handle not in use, stored in *clientSocket at once.
Create ==
  IF wsa
  THEN \E h \in scenario.handles :
         /\ ~IsSocket(h)
         /\ clientSocket' = h
         /\ kernel' = [kernel EXCEPT ![h] = "fresh"]
  ELSE clientSocket' = INVALID_SOCKET /\ UNCHANGED kernel

Goto(t, label) == pc' = [pc EXCEPT ![t] = label]

-----------------------------------------------------------------------------
(* The constructors of the globals, which main runs before any other       *)
(* thread exists: Initialize and connection, then Lobby's.                 *)

Initialize ==
  /\ pc["main"] = "initialize"
  /\ \/ /\ \E h \in scenario.handles :
             /\ clientSocket' = h
             /\ kernel' = [kernel EXCEPT ![h] = "fresh"]
        /\ wsa' = TRUE
     \/ /\ scenario.startFails                        \* WSAStartup fails
        /\ UNCHANGED <<clientSocket, kernel, wsa>>
     \/ /\ scenario.startFails                        \* socket() fails: WSACleanup
        /\ clientSocket' = INVALID_SOCKET
        /\ UNCHANGED <<kernel, wsa>>
  /\ Goto("main", "connection")
  /\ UNCHANGED <<connected, listener, wait, boundVars>>

\* A failure closes the socket, keeps its handle, and stops Winsock.
Connection ==
  /\ pc["main"] = "connection"
  /\ IF serverUp /\ State(clientSocket) = "fresh"
     THEN /\ kernel' = [kernel EXCEPT ![clientSocket] = "linked"]
          /\ connected' = TRUE
          /\ UNCHANGED <<wsa, wait>>
     ELSE Close(clientSocket) /\ wsa' = FALSE /\ UNCHANGED connected
  /\ Goto("main", "lobby join")
  /\ UNCHANGED <<clientSocket, listener, boundVars>>

\* The constructor of Lobby sends "join" and then "list" with sendData.
LobbySends ==
  /\ pc["main"] \in {"lobby join", "lobby list"}
  /\ Goto("main", IF pc["main"] = "lobby join" THEN "lobby list" ELSE "start")
  /\ connected' = (connected /\ State(clientSocket) \in {"linked", "shut"})
  /\ kernel' = IF connected /\ State(clientSocket) = "shut"
               THEN [kernel EXCEPT ![clientSocket] = "reset"] ELSE kernel
  /\ UNCHANGED <<clientSocket, wsa, listener, wait, boundVars>>

\* main() starts the listener, then the checker.
StartThreads ==
  /\ pc["main"] = "start"
  /\ pc' = [pc EXCEPT !["main"] = "idle", !["checker"] = "idle"]
  /\ listener' = "test"
  /\ UNCHANGED <<clientSocket, connected, wsa, kernel, wait, boundVars>>

-----------------------------------------------------------------------------
(* sendData(std::string), called by either thread.                         *)

SendTest(t) ==
  /\ pc[t] = "sendData"
  /\ Goto(t, IF connected THEN "send" ELSE "idle")
  /\ UNCHANGED <<clientSocket, connected, wsa, kernel, listener, wait, boundVars>>

SendCall(t) ==
  /\ pc[t] = "send"
  /\ CASE State(clientSocket) = "linked" -> Goto(t, "idle") /\ UNCHANGED kernel
       [] State(clientSocket) = "shut" ->
            Goto(t, "idle") /\ kernel' = [kernel EXCEPT ![clientSocket] = "reset"]
       [] OTHER -> Goto(t, "send failed") /\ UNCHANGED kernel
  /\ UNCHANGED <<clientSocket, connected, wsa, listener, wait, boundVars>>

\* Mutant: a failed send leaves connected alone, as sendData(BYTE*, DWORD) does.
SendFailedKept(t) ==
  /\ pc[t] = "send failed"
  /\ Goto(t, "idle")
  /\ UNCHANGED <<clientSocket, connected, wsa, kernel, listener, wait, boundVars>>

SendFailed(t) ==
  /\ pc[t] = "send failed"
  /\ connected' = FALSE
  /\ Goto(t, "idle")
  /\ UNCHANGED <<clientSocket, wsa, kernel, listener, wait, boundVars>>

-----------------------------------------------------------------------------
(* reconnect(), called by either thread.                                   *)

\* Mutant: the old socket is not closed.
OldOpenKept(t) ==
  /\ pc[t] = "reconnect"
  /\ Goto(t, "create")
  /\ UNCHANGED <<clientSocket, connected, wsa, kernel, listener, wait, boundVars>>

OldOpen(t) ==
  /\ pc[t] = "reconnect"
  /\ Goto(t, IF clientSocket # INVALID_SOCKET THEN "close" ELSE "create")
  /\ UNCHANGED <<clientSocket, connected, wsa, kernel, listener, wait, boundVars>>

OldClose(t) ==
  /\ pc[t] = "close"
  /\ Close(clientSocket)
  /\ Goto(t, "clear")
  /\ UNCHANGED <<clientSocket, connected, wsa, listener, boundVars>>

\* Mutant: the handle is cleared with 0.
OldClearZero(t) ==
  /\ pc[t] = "clear"
  /\ clientSocket' = 0
  /\ Goto(t, "create")
  /\ UNCHANGED <<connected, wsa, kernel, listener, wait, boundVars>>

OldClear(t) ==
  /\ pc[t] = "clear"
  /\ clientSocket' = INVALID_SOCKET
  /\ Goto(t, "create")
  /\ UNCHANGED <<connected, wsa, kernel, listener, wait, boundVars>>

NewSocket(t) ==
  /\ pc[t] = "create"
  /\ Create
  /\ Goto(t, "created")
  /\ UNCHANGED <<connected, wsa, listener, wait, boundVars>>

NewTest(t) ==
  /\ pc[t] = "created"
  /\ Goto(t, IF clientSocket = INVALID_SOCKET THEN "idle" ELSE "connect")
  /\ UNCHANGED <<clientSocket, connected, wsa, kernel, listener, wait, boundVars>>

\* connect() fails on a socket that another thread has connected or closed.
NewConnect(t) ==
  /\ pc[t] = "connect"
  /\ IF serverUp /\ State(clientSocket) = "fresh"
     THEN /\ kernel' = [kernel EXCEPT ![clientSocket] = "linked"]
          /\ Goto(t, "connected")
     ELSE Goto(t, "failed") /\ UNCHANGED kernel
  /\ UNCHANGED <<clientSocket, connected, wsa, listener, wait, boundVars>>

NewFailed(t) ==
  /\ pc[t] = "failed"
  /\ Close(clientSocket)
  /\ Goto(t, "forget")
  /\ UNCHANGED <<clientSocket, connected, wsa, listener, boundVars>>

NewForget(t) ==
  /\ pc[t] = "forget"
  /\ clientSocket' = INVALID_SOCKET
  /\ Goto(t, "idle")
  /\ UNCHANGED <<connected, wsa, kernel, listener, wait, boundVars>>

\* Mutant: "connected = true" is missing.
NewConnectedForgotten(t) ==
  /\ pc[t] = "connected"
  /\ Goto(t, "idle")
  /\ UNCHANGED <<clientSocket, connected, wsa, kernel, listener, wait, boundVars>>

NewConnected(t) ==
  /\ pc[t] = "connected"
  /\ connected' = TRUE
  /\ Goto(t, "idle")
  /\ UNCHANGED <<clientSocket, wsa, kernel, listener, wait, boundVars>>

-----------------------------------------------------------------------------
(* What the threads do when idle.                                          *)

\* checkConnection wakes: a dead link is reconnected; on a live one it sends.
CheckerWakes ==
  /\ pc["checker"] = "idle"
  /\ Goto("checker", IF connected THEN "sendData" ELSE "reconnect")
  /\ UNCHANGED <<clientSocket, connected, wsa, kernel, listener, wait, boundVars>>

\* The menu: 1 to 4 send; 5 reconnects, whatever the state of the link.
Menu(choice, label) ==
  /\ pc["main"] = "idle"
  /\ choice \in scenario.choices
  /\ menu < scenario.menu
  /\ menu' = menu + 1
  /\ Goto("main", label)
  /\ UNCHANGED <<clientSocket, connected, wsa, kernel, listener, wait, serverUp, scenario, breaks>>

MenuSends == Menu("send", "sendData")
MenuReconnects == Menu("reconnect", "reconnect")

-----------------------------------------------------------------------------
(* Listening().                                                            *)

ListenTest ==
  /\ listener = "test"
  /\ connected
  /\ listener' = "recv"
  /\ UNCHANGED <<clientSocket, connected, wsa, kernel, pc, wait, boundVars>>

\* "if (!connected)continue;" is a data race: an optimised build need not read the
\* flag again, and the listener spins for ever.
ListenSpins ==
  /\ scenario.hoisted
  /\ listener = "test"
  /\ ~connected
  /\ listener' = "spinning"
  /\ UNCHANGED <<clientSocket, connected, wsa, kernel, pc, wait, boundVars>>

\* recv() is called on the handle that *clientSocket holds now.
RecvCall ==
  /\ listener = "recv"
  /\ listener' = "waiting"
  /\ wait' = IF IsSocket(clientSocket) THEN clientSocket ELSE INVALID_SOCKET
  /\ UNCHANGED <<clientSocket, connected, wsa, kernel, pc, boundVars>>

\* It returns data, and the callback runs; or the link has ended.
RecvData ==
  /\ listener = "waiting"
  /\ State(wait) = "linked"
  /\ listener' = "test"
  /\ wait' = INVALID_SOCKET
  /\ UNCHANGED <<clientSocket, connected, wsa, kernel, pc, boundVars>>

RecvEnds ==
  /\ listener = "waiting"
  /\ State(wait) # "linked"
  /\ listener' = "ended"
  /\ wait' = INVALID_SOCKET
  /\ UNCHANGED <<clientSocket, connected, wsa, kernel, pc, boundVars>>

\* connected = false, though reconnect() may have set it since recv() returned.
ListenEnded ==
  /\ listener = "ended"
  /\ connected' = FALSE
  /\ listener' = "test"
  /\ UNCHANGED <<clientSocket, wsa, kernel, pc, wait, boundVars>>

-----------------------------------------------------------------------------
(* The server: it goes away, drops one link, comes back.                   *)

Broken(h, how) == IF kernel[h] = "linked" THEN how ELSE kernel[h]

ServerStops ==
  /\ serverUp
  /\ breaks < scenario.breaks
  /\ breaks' = breaks + 1
  /\ serverUp' = FALSE
  /\ \E how \in {"shut", "reset"} : kernel' = [h \in Handles |-> Broken(h, how)]
  /\ UNCHANGED <<clientSocket, connected, wsa, threadVars, scenario, menu>>

ServerDrops ==
  /\ breaks < scenario.breaks
  /\ breaks' = breaks + 1
  /\ \E h \in Handles, how \in {"shut", "reset"} :
        /\ kernel[h] = "linked"
        /\ kernel' = [kernel EXCEPT ![h] = how]
  /\ UNCHANGED <<clientSocket, connected, wsa, threadVars, serverUp, scenario, menu>>

ServerStarts ==
  /\ ~serverUp
  /\ serverUp' = TRUE
  /\ UNCHANGED <<clientSocket, connected, wsa, kernel, threadVars, scenario, menu, breaks>>

-----------------------------------------------------------------------------
Init ==
  /\ scenario \in Scenarios
  /\ clientSocket = Uninitialized
  /\ connected = FALSE
  /\ wsa = FALSE
  /\ kernel = [h \in Handles |-> "closed"]
  /\ pc = [t \in Callers |-> IF t = "main" THEN "initialize" ELSE "off"]
  /\ listener = "off"
  /\ wait = INVALID_SOCKET
  /\ serverUp = TRUE
  /\ menu = 0
  /\ breaks = 0

Boot == Initialize \/ Connection \/ LobbySends \/ StartThreads

\* A step of sendData or reconnect in thread t.
Call(t) ==
  \/ SendTest(t) \/ SendCall(t) \/ SendFailed(t)
  \/ OldOpen(t) \/ OldClose(t) \/ OldClear(t)
  \/ NewSocket(t) \/ NewTest(t) \/ NewConnect(t)
  \/ NewFailed(t) \/ NewForget(t) \/ NewConnected(t)

Listener == ListenTest \/ ListenSpins \/ RecvCall \/ RecvData \/ RecvEnds \/ ListenEnded

Environment == ServerStops \/ ServerDrops \/ ServerStarts

Next ==
  \/ Boot
  \/ \E t \in Callers : Call(t)
  \/ CheckerWakes
  \/ MenuSends
  \/ MenuReconnects
  \/ Listener
  \/ Environment

Spec == Init /\ [][Next]_vars

\* The threads run, and the checker wakes from its sleep; a recv() returns once the
\* link has ended.  Nothing is assumed of the user, of data or of the server.
Fairness ==
  /\ WF_vars(Boot)
  /\ \A t \in Callers : WF_vars(Call(t))
  /\ WF_vars(CheckerWakes)
  /\ WF_vars(ListenTest \/ RecvCall \/ RecvEnds \/ ListenEnded)

FairSpec == Spec /\ Fairness

-----------------------------------------------------------------------------
(* Properties.                                                             *)

Labels == {"off", "initialize", "connection", "lobby join", "lobby list", "start", "idle",
           "sendData", "send", "send failed", "reconnect", "close", "clear", "create",
           "created", "connect", "failed", "forget", "connected"}

\* Every variable keeps its type.
TypeOK ==
  /\ clientSocket \in Handles \cup {INVALID_SOCKET, Uninitialized}
  /\ connected \in BOOLEAN
  /\ wsa \in BOOLEAN
  /\ kernel \in [Handles -> SocketStates]
  /\ pc \in [Callers -> Labels]
  /\ listener \in {"off", "test", "spinning", "recv", "waiting", "ended"}
  /\ wait \in Handles \cup {INVALID_SOCKET}
  /\ serverUp \in BOOLEAN
  /\ scenario \in Scenarios
  /\ menu \in 0 .. scenario.menu
  /\ breaks \in 0 .. scenario.breaks

\* The link is up and the threads agree that it is.
Linked == connected /\ State(clientSocket) = "linked"

\* The listener is on its way to the link, or waits on it.
Hears ==
  \/ listener \in {"test", "recv"}
  \/ listener = "waiting" /\ wait = clientSocket

\* "// Close the old socket if it's still open" (Server.cpp:44): no socket is open
\* but the one in *clientSocket.
OldSocketClosed == \A h \in Handles : IsSocket(h) => h = clientSocket

\* Unless the user chooses 5, when two threads may be in reconnect(), it leaks no socket.
CheckerLeaksNothing == "reconnect" \notin scenario.choices => OldSocketClosed

\* As long as Winsock stays started, in a build that reads the flag, a server that stays up is
\* connected to for good, and listened to, whatever the listener and failed sends did to the
\* flag meanwhile (Lobby.h:36-52, Server.cpp:43-103).
Heals == ~scenario.hoisted => (<>[](serverUp /\ wsa) => <>[](Linked /\ Hears))

\* The same without the listener, in any build, also when the user may choose 5 at any time.
HealsUnderMenu == <>[](serverUp /\ wsa) => <>[]Linked

\* "// Reconnect to the server" (Server.cpp:62): a server that stays up is connected
\* to in the end.
Reconnects == <>[]serverUp => <>[]connected
=============================================================================
