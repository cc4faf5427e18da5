-------------------------- MODULE ServerLinkProofs --------------------------
(***************************************************************************)
(* Proofs about ServerLink for any set of handles and any number of breaks *)
(* and menu choices: the type invariant, and that reconnect() leaks no     *)
(* socket as long as only the checker calls it.                            *)
(***************************************************************************)
EXTENDS ServerLink, TLAPS

\* Every variable keeps its type.
THEOREM LinkTypeCorrect == Spec => []TypeOK
<1> USE DEF Callers
<1> DEFINE Bounded == menu \in 0 .. scenario.menu /\ breaks \in 0 .. scenario.breaks
<1>0. \A s \in Scenarios : s.menu \in Nat /\ s.breaks \in Nat /\ s.handles \subseteq Handles
  BY LinkAssumption DEF Scenario
<1>1. Init => TypeOK
  <2>1. Init => Bounded
    BY <1>0 DEF Init
  <2>2. QED
    BY <2>1 DEF Init, TypeOK, SocketStates, Labels
<1>2. TypeOK /\ [Next]_vars => TypeOK'
  <2> SUFFICES ASSUME TypeOK, [Next]_vars
               PROVE  TypeOK'
    OBVIOUS
  <2> USE DEF TypeOK, threadVars, boundVars, Goto
  <2>1. CASE Boot
    <3>1. CASE Initialize
      BY <1>0, <3>1 DEF Initialize, SocketStates, Labels
    <3>2. CASE Connection
      BY <3>2, LinkAssumption DEF Connection, Close, IsSocket, State, SocketStates, Labels
    <3>3. CASE LobbySends
      BY <3>3 DEF LobbySends, SocketStates, Labels
    <3>4. CASE StartThreads
      BY <3>4 DEF StartThreads, Labels
    <3>5. QED
      BY <2>1, <3>1, <3>2, <3>3, <3>4 DEF Boot
  <2>2. ASSUME NEW t \in Callers, Call(t)
        PROVE  TypeOK'
    <3>1. CASE SendTest(t) \/ SendFailed(t)
      BY <3>1 DEF SendTest, SendFailed, Labels
    <3>2. CASE SendCall(t)
      <4>1. pc' \in [Callers -> Labels]
        <5>1. \E label \in {"idle", "send failed"} : Goto(t, label)
          BY <3>2 DEF SendCall
        <5>2. QED
          BY <5>1 DEF Labels
      <4>2. kernel' \in [Handles -> SocketStates]
        BY <3>2 DEF SendCall, SocketStates
      <4>3. QED
        BY <3>2, <4>1, <4>2 DEF SendCall
    <3>3. CASE OldOpen(t) \/ OldClear(t) \/ NewTest(t) \/ NewForget(t) \/ NewConnected(t)
      BY <3>3 DEF OldOpen, OldClear, NewTest, NewForget, NewConnected, Labels
    <3>4. CASE OldClose(t) \/ NewFailed(t)
      BY <3>4 DEF OldClose, NewFailed, Close, SocketStates, Labels
    <3>5. CASE NewSocket(t)
      BY <1>0, <3>5 DEF NewSocket, Create, SocketStates, Labels
    <3>6. CASE NewConnect(t)
      BY <3>6 DEF NewConnect, SocketStates, Labels
    <3>7. QED
      BY <2>2, <3>1, <3>2, <3>3, <3>4, <3>5, <3>6 DEF Call
  <2>3. CASE CheckerWakes
    BY <2>3 DEF CheckerWakes, Labels
  <2>4. CASE MenuSends \/ MenuReconnects
    <3>1. menu' \in 0 .. scenario.menu
      BY <2>4, <1>0 DEF MenuSends, MenuReconnects, Menu
    <3>2. QED
      BY <2>4, <3>1 DEF MenuSends, MenuReconnects, Menu, Labels
  <2>5. CASE Listener
    BY <2>5 DEF Listener, ListenTest, ListenSpins, RecvCall, RecvData, RecvEnds, ListenEnded, IsSocket
  <2>6. CASE Environment
    <3>1. kernel' \in [Handles -> SocketStates]
      BY <2>6 DEF Environment, ServerStops, ServerDrops, ServerStarts, Broken, SocketStates
    <3>2. breaks' \in 0 .. scenario.breaks
      BY <2>6, <1>0 DEF Environment, ServerStops, ServerDrops, ServerStarts
    <3>3. QED
      BY <2>6, <3>1, <3>2 DEF Environment, ServerStops, ServerDrops, ServerStarts
  <2>7. CASE UNCHANGED vars
    BY <2>7 DEF vars, threadVars, boundVars
  <2>8. QED
    BY <2>1, <2>2, <2>3, <2>4, <2>5, <2>6, <2>7 DEF Next
<1>3. QED
  BY <1>1, <1>2, PTL DEF Spec

-----------------------------------------------------------------------------
(* One thread at a time in reconnect().                                    *)

\* Where main is before it starts the other threads.
Booting == {"initialize", "connection", "lobby join", "lobby list", "start"}

\* No socket is open while main is before Initialize or the checker is between the
\* closing of a socket and the next; main never enters reconnect.
OneReconnects ==
  /\ pc["main"] \in Booting \cup {"idle", "sendData", "send", "send failed"}
  /\ pc["main"] \in Booting => pc["checker"] = "off"
  /\ pc["checker"] \notin Booting
  /\ pc["main"] = "initialize" \/ pc["checker"] \in {"clear", "create", "forget"}
       => \A h \in Handles : ~IsSocket(h)

LinkInv == OldSocketClosed /\ OneReconnects

\* Unless the user chooses 5, reconnect() leaves no socket open but the one in
\* *clientSocket: it leaks none, however often the link breaks.
THEOREM NoSocketLeaks == Spec => []CheckerLeaksNothing
<1> DEFINE Alone == "reconnect" \notin scenario.choices
<1> USE DEF LinkInv, OneReconnects, Booting, OldSocketClosed, IsSocket, Callers
<1>1. Init => LinkInv
  BY DEF Init
<1>2. TypeOK /\ LinkInv /\ Alone /\ [Next]_vars => LinkInv'
  <2> SUFFICES ASSUME TypeOK, LinkInv, Alone, [Next]_vars
               PROVE  LinkInv'
    OBVIOUS
  <2>0. /\ pc \in [Callers -> Labels]
        /\ kernel \in [Handles -> SocketStates]
        /\ scenario.handles \subseteq Handles
        /\ INVALID_SOCKET \notin Handles
    BY LinkAssumption DEF TypeOK, Scenario
  <2> USE DEF Goto
  <2>1. CASE Boot
    <3>1. CASE Initialize
      BY <2>0, <3>1 DEF Initialize
    <3>2. CASE Connection
      BY <2>0, <3>2 DEF Connection, Close, State
    <3>3. CASE LobbySends
      <4>1. \A h \in Handles : kernel'[h] = "closed" <=> kernel[h] = "closed"
        BY <2>0, <3>3 DEF LobbySends, State
      <4>2. QED
        BY <2>0, <3>3, <4>1 DEF LobbySends
    <3>4. CASE StartThreads
      BY <2>0, <3>4 DEF StartThreads
    <3>5. QED
      BY <2>1, <3>1, <3>2, <3>3, <3>4 DEF Boot
  <2>2. ASSUME NEW t \in Callers, Call(t)
        PROVE  LinkInv'
    <3>1. CASE SendTest(t) \/ SendFailed(t)
      BY <2>0, <3>1 DEF SendTest, SendFailed
    <3>2. CASE SendCall(t)
      <4>1. \A h \in Handles : kernel'[h] = "closed" <=> kernel[h] = "closed"
        BY <2>0, <3>2 DEF SendCall, State
      <4>2. /\ pc[t] = "send"
            /\ pc' = [pc EXCEPT ![t] = "idle"] \/ pc' = [pc EXCEPT ![t] = "send failed"]
            /\ UNCHANGED clientSocket
        BY <3>2 DEF SendCall
      <4>3. QED
        BY <2>0, <4>1, <4>2
    <3>3. CASE OldOpen(t) \/ OldClear(t) \/ NewTest(t) \/ NewForget(t) \/ NewConnected(t)
      BY <2>0, <3>3 DEF OldOpen, OldClear, NewTest, NewForget, NewConnected
    <3>4. CASE OldClose(t) \/ NewFailed(t)
      BY <2>0, <3>4 DEF OldClose, NewFailed, Close
    <3>5. CASE NewSocket(t)
      BY <2>0, <3>5 DEF NewSocket, Create
    <3>6. CASE NewConnect(t)
      BY <2>0, <3>6 DEF NewConnect, State
    <3>7. QED
      BY <2>2, <3>1, <3>2, <3>3, <3>4, <3>5, <3>6 DEF Call
  <2>3. CASE CheckerWakes
    BY <2>0, <2>3 DEF CheckerWakes
  <2>4. CASE MenuSends \/ MenuReconnects
    BY <2>0, <2>4 DEF MenuSends, MenuReconnects, Menu
  <2>5. CASE Listener
    BY <2>5 DEF Listener, ListenTest, ListenSpins, RecvCall, RecvData, RecvEnds, ListenEnded
  <2>6. CASE Environment
    <3>1. \A h \in Handles : kernel'[h] = "closed" <=> kernel[h] = "closed"
      BY <2>0, <2>6 DEF Environment, ServerStops, ServerDrops, ServerStarts, Broken
    <3>2. UNCHANGED <<clientSocket, pc>>
      BY <2>6 DEF Environment, ServerStops, ServerDrops, ServerStarts, threadVars
    <3>3. QED
      BY <3>1, <3>2
  <2>7. CASE UNCHANGED vars
    BY <2>7 DEF vars, threadVars, boundVars
  <2>8. QED
    BY <2>1, <2>2, <2>3, <2>4, <2>5, <2>6, <2>7 DEF Next
<1>3. [Next]_vars => UNCHANGED scenario
  BY DEF Next, vars, threadVars, boundVars, Boot, Initialize, Connection, LobbySends, StartThreads,
         Call, SendTest, SendCall, SendFailed, OldOpen, OldClose, OldClear, NewSocket, NewTest,
         NewConnect, NewFailed, NewForget, NewConnected, CheckerWakes, Menu, MenuSends,
         MenuReconnects, Listener, ListenTest, ListenSpins, RecvCall, RecvData, RecvEnds,
         ListenEnded, Environment, ServerStops, ServerDrops, ServerStarts
<1>4. TypeOK /\ (Alone => LinkInv) /\ [Next]_vars => (Alone => LinkInv)'
  BY <1>2, <1>3
<1>5. (Alone => LinkInv) => CheckerLeaksNothing
  BY DEF CheckerLeaksNothing
<1>6. QED
  BY <1>1, <1>4, <1>5, LinkTypeCorrect, PTL DEF Spec
=============================================================================
