------------------------- MODULE LobbyServerProofs -------------------------
(***************************************************************************)
(* Proofs about LobbyServer for any number of connections and addresses,   *)
(* whoever shares one.  The type invariant and where frames go need no     *)
(* assumption; the rest needs SingleAddress: a command cut by TCP never    *)
(* carries another valid address.                                          *)
(***************************************************************************)
EXTENDS LobbyServer, SequenceTheorems, TLAPS

-----------------------------------------------------------------------------
(* The data of a handler.                                                  *)

\* The values a handler puts in its locals, its iterator and its pending send have
\* their types.
LEMMA LocalTypes ==
  /\ NoReq \in Request
  /\ NoIter \in [on : BOOLEAN, keys : SUBSET IPs, seen : SUBSET IPs]
  /\ \A kind \in ReplyKinds, members \in SUBSET IPs : Reply(kind, members) \in Write
  /\ \A data \in Seq(Piece) : Forward(data) \in Write
  /\ \A c \in Conns : NoSend(c) \in [to : Conns, what : Write]
<1>1. << >> \in Seq(Piece)
  BY EmptySeq
<1>2. NoReq \in Request
  BY <1>1 DEF NoReq, Request, Addr
<1>3. NoIter \in [on : BOOLEAN, keys : SUBSET IPs, seen : SUBSET IPs]
  BY DEF NoIter
<1>4. \A kind \in ReplyKinds, members \in SUBSET IPs : Reply(kind, members) \in Write
  BY <1>1 DEF Reply, Write
<1>5. \A data \in Seq(Piece) : Forward(data) \in Write
  BY DEF Forward, Write
<1>6. \A c \in Conns : NoSend(c) \in [to : Conns, what : Write]
  BY <1>4 DEF NoSend, ReplyKinds
<1>7. QED
  BY <1>2, <1>3, <1>4, <1>5, <1>6

\* A message is a sequence of pieces that all carry its kind and its address.
LEMMA MessageType ==
  ASSUME NEW kind \in Kinds, NEW addr \in IPs
  PROVE  /\ Message(kind, addr) \in Seq(Piece)
         /\ \A i \in 1 .. Len(Message(kind, addr)) :
               /\ Message(kind, addr)[i].kind = kind
               /\ Message(kind, addr)[i].addr = addr
<1> DEFINE n == Pieces[kind]
<1>1. n \in Nat
  BY ConstantsAssumption
<1>2. Message(kind, addr) \in [1 .. n -> Piece]
  BY DEF Message, Piece
<1>3. Message(kind, addr) \in Seq(Piece)
  BY <1>1, <1>2, SeqDef
<1>4. DOMAIN Message(kind, addr) = 1 .. Len(Message(kind, addr))
  BY <1>3, LenProperties
<1>5. DOMAIN Message(kind, addr) = 1 .. n
  BY DEF Message
<1>6. QED
  BY <1>3, <1>4, <1>5 DEF Message

\* A chunk that recv returns is a non-empty sequence of pieces, and what is left of
\* the stream is a sequence of its later pieces.
LEMMA ChunkType ==
  ASSUME NEW s \in Seq(Piece), NEW n \in Nat, 1 <= n, n <= Len(s)
  PROVE  /\ SubSeq(s, 1, n) \in Seq(Piece)
         /\ SubSeq(s, 1, n)[1] = s[1]
         /\ s[1] \in Piece
         /\ SubSeq(s, n + 1, Len(s)) \in Seq(Piece)
         /\ \A i \in 1 .. Len(SubSeq(s, n + 1, Len(s))) :
               \E j \in 1 .. Len(s) : SubSeq(s, n + 1, Len(s))[i] = s[j]
<1>1. /\ Len(s) \in Nat
      /\ \A i \in 1 .. Len(s) : s[i] \in Piece
  BY LenProperties, ElementOfSeq
<1>2. /\ SubSeq(s, 1, n) \in Seq(Piece)
      /\ \A i \in 1 .. n - 1 + 1 : SubSeq(s, 1, n)[i] = s[1 + i - 1]
  <2>1. \A i \in 1 .. n : s[i] \in Piece
    BY <1>1
  <2>2. QED
    BY <2>1, SubSeqProperties
<1>3. SubSeq(s, 1, n)[1] = s[1] /\ s[1] \in Piece
  BY <1>1, <1>2
<1>4. /\ SubSeq(s, n + 1, Len(s)) \in Seq(Piece)
      /\ Len(SubSeq(s, n + 1, Len(s))) = IF n + 1 <= Len(s) THEN Len(s) - (n + 1) + 1 ELSE 0
      /\ \A i \in 1 .. Len(s) - (n + 1) + 1 :
            SubSeq(s, n + 1, Len(s))[i] = s[(n + 1) + i - 1]
  <2>1. \A i \in n + 1 .. Len(s) : s[i] \in Piece
    BY <1>1
  <2>2. QED
    BY <1>1, <2>1, SubSeqProperties
<1>5. ASSUME NEW i \in 1 .. Len(SubSeq(s, n + 1, Len(s)))
      PROVE  \E j \in 1 .. Len(s) : SubSeq(s, n + 1, Len(s))[i] = s[j]
  <2>1. /\ n + i \in 1 .. Len(s)
        /\ SubSeq(s, n + 1, Len(s))[i] = s[n + i]
    BY <1>1, <1>4
  <2>2. QED
    BY <2>1
<1>6. QED
  BY <1>2, <1>3, <1>4, <1>5

\* Every reading of a chunk is a request the dispatcher knows, with an address or
\* text that is none.
LEMMA ReadingType ==
  ASSUME NEW data, data[1] \in Piece, NEW r \in Readings(data)
  PROVE  /\ r[1] \in Commands \cup {"other", "raise", "frame", "garbage"}
         /\ r[2] \in Addr
         /\ r[1] = "frame" => r[2] = data[1].addr
<1>1. data[1].addr \in IPs /\ data[1].kind \in Kinds
  BY DEF Piece
<1>2. CASE data[1].kind \in Commands /\ data[1].first
  <2>1. r \in CommandReadings(data) \cup CutReadings(data)
    BY <1>2 DEF Readings
  <2>2. CASE r \in CommandReadings(data)
    BY <1>1, <1>2, <2>2 DEF CommandReadings, Addr, Commands
  <2>3. CASE r \in CutReadings(data)
    <3>1. CutIPs[data[1].addr] \subseteq IPs
      BY <1>1, ConstantsAssumption
    <3>2. QED
      BY <1>1, <1>2, <2>3, <3>1 DEF CutReadings, Addr, Commands
  <2>4. QED
    BY <2>1, <2>2, <2>3
<1>3. CASE ~(data[1].kind \in Commands /\ data[1].first)
  BY <1>1, <1>3 DEF Readings, OtherReadings, Addr
<1>4. QED
  BY <1>2, <1>3

-----------------------------------------------------------------------------
(* The type invariant.                                                     *)

\* The variables of the handlers have their types.
HandlerTypes ==
  /\ pc \in [Conns -> Labels]
  /\ req \in [Conns -> Request]
  /\ iter \in [Conns -> [on : BOOLEAN, keys : SUBSET IPs, seen : SUBSET IPs]]
  /\ out \in [Conns -> [to : Conns, what : Write]]

\* An exception keeps them.
LEMMA RaiseType ==
  ASSUME HandlerTypes, NEW c \in Conns, Raise(c)
  PROVE  HandlerTypes'
<1>1. pc' \in [Conns -> Labels]
  BY DEF HandlerTypes, Raise, Goto, Labels, Scans
<1>2. req' \in [Conns -> Request]
  BY LocalTypes DEF HandlerTypes, Raise
<1>3. iter' \in [Conns -> [on : BOOLEAN, keys : SUBSET IPs, seen : SUBSET IPs]]
  BY LocalTypes DEF HandlerTypes, Raise
<1>4. out' \in [Conns -> [to : Conns, what : Write]]
  BY LocalTypes DEF HandlerTypes, Raise
<1>5. QED
  BY <1>1, <1>2, <1>3, <1>4 DEF HandlerTypes

\* So does going back to recv.
LEMMA ServeType ==
  ASSUME HandlerTypes, NEW c \in Conns, Serve(c)
  PROVE  /\ pc' \in [Conns -> Labels]
         /\ req' \in [Conns -> Request]
BY LocalTypes DEF HandlerTypes, Serve, Goto, Labels

\* So does preparing an answer.
LEMMA AnswerType ==
  ASSUME HandlerTypes, NEW c \in Conns,
         NEW kind \in ReplyKinds, NEW members \in SUBSET IPs, Answer(c, kind, members)
  PROVE  /\ pc' \in [Conns -> Labels]
         /\ out' \in [Conns -> [to : Conns, what : Write]]
<1>1. Reply(kind, members) \in Write
  BY LocalTypes
<1>2. QED
  BY <1>1 DEF HandlerTypes, Answer, PrepareSend, Goto, Labels

\* Every variable keeps its type, through every path of handle_client.
THEOREM TypeCorrect == Spec => []TypeOK
<1>1. Init => TypeOK
  <2>1. /\ << >> \in Seq(Piece)
        /\ << >> \in Seq(Write)
    BY EmptySeq
  <2>2. QED
    BY <2>1, LocalTypes DEF Init, TypeOK, Labels
<1>2. TypeOK /\ [Next]_vars => TypeOK'
  <2> SUFFICES ASSUME TypeOK, [Next]_vars
               PROVE  TypeOK'
    OBVIOUS
  <2> USE DEF HandlerTypes
  <2>0. /\ HandlerTypes
        /\ Keys \in SUBSET IPs
    BY DEF TypeOK, Keys
  <2>1. CASE Shutdown
    BY <2>1 DEF Shutdown, TypeOK, handlerVars, wireVars
  <2>2. ASSUME NEW c \in Conns, Accept(c)
        PROVE  TypeOK'
    BY <2>2 DEF Accept, Goto, TypeOK, Labels
  <2>3. ASSUME NEW c \in Conns, Handler(c)
        PROVE  TypeOK'
    <3>1. CASE Recv(c)
      <4>1. PICK n \in 1 .. RecvPieces :
              /\ n <= Len(toServer[c])
              /\ toServer' = [toServer EXCEPT ![c] = SubSeq(@, n + 1, Len(@))]
              /\ LET data == SubSeq(toServer[c], 1, n)
                 IN  \E r \in Readings(data) :
                       IF r[1] = "raise" THEN Raise(c)
                       ELSE /\ Goto(c, NextLabel(r[1]))
                            /\ req' = [req EXCEPT ![c] = IF r[1] = "other" THEN NoReq
                                         ELSE [op |-> r[1], ip |-> r[2],
                                               data |-> IF r[1] = "frame" THEN data ELSE << >>]]
                            /\ UNCHANGED <<iter, out>>
        BY <3>1 DEF Recv
      <4> DEFINE data == SubSeq(toServer[c], 1, n)
      <4>2. /\ n \in Nat /\ 1 <= n
            /\ toServer[c] \in Seq(Piece)
        BY <4>1, ConstantsAssumption DEF TypeOK
      <4>3. /\ data \in Seq(Piece)
            /\ data[1] \in Piece
            /\ SubSeq(toServer[c], n + 1, Len(toServer[c])) \in Seq(Piece)
        BY <4>1, <4>2, ChunkType
      <4>4. toServer' \in [Conns -> Seq(Piece)]
        BY <4>1, <4>3 DEF TypeOK
      <4>5. PICK r \in Readings(data) :
              IF r[1] = "raise" THEN Raise(c)
              ELSE /\ Goto(c, NextLabel(r[1]))
                   /\ req' = [req EXCEPT ![c] = IF r[1] = "other" THEN NoReq
                                ELSE [op |-> r[1], ip |-> r[2],
                                      data |-> IF r[1] = "frame" THEN data ELSE << >>]]
                   /\ UNCHANGED <<iter, out>>
        BY <4>1
      <4>6. /\ r[1] \in Commands \cup {"other", "raise", "frame", "garbage"}
            /\ r[2] \in Addr
        BY <4>3, ReadingType
      <4> HIDE DEF data
      <4>7. HandlerTypes'
        <5>1. CASE r[1] = "raise"
          BY <2>0, <4>5, <5>1, RaiseType
        <5>2. CASE r[1] # "raise"
          <6>1. NextLabel(r[1]) \in Labels
            BY <4>6, <5>2 DEF NextLabel, Labels, Commands, Scans, MemberScans
          <6>2. << >> \in Seq(Piece)
            BY EmptySeq
          <6>3. [op |-> r[1], ip |-> r[2],
                 data |-> IF r[1] = "frame" THEN data ELSE << >>] \in Request
            BY <4>3, <4>6, <6>2 DEF Request
          <6>4. pc' \in [Conns -> Labels]
            BY <2>0, <4>5, <5>2, <6>1 DEF Goto
          <6>5. req' \in [Conns -> Request]
            BY <2>0, <4>5, <5>2, <6>3, LocalTypes
          <6>6. QED
            BY <2>0, <4>5, <5>2, <6>4, <6>5
        <5>3. QED
          BY <5>1, <5>2
      <4>8. QED
        BY <3>1, <4>4, <4>7 DEF Recv, TypeOK
    <3>2. CASE RecvEnd(c)
      BY <2>0, <3>2, RaiseType DEF RecvEnd, TypeOK, wireVars
    <3>3. CASE OpenIter(c)
      BY <2>0, <3>3 DEF OpenIter, TypeOK, wireVars
    <3>4. CASE IterRaises(c)
      BY <2>0, <3>4, RaiseType DEF IterRaises, TypeOK, wireVars
    <3>5. CASE IterPass(c)
      <4>1. PICK ip \in IPs : iter' = [iter EXCEPT ![c].seen = @ \cup {ip}]
        BY <3>5 DEF IterPass
      <4>2. iter' \in [Conns -> [on : BOOLEAN, keys : SUBSET IPs, seen : SUBSET IPs]]
        BY <2>0, <4>1
      <4>3. QED
        BY <3>5, <4>2 DEF IterPass, TypeOK, wireVars
    <3>6. CASE JoinTest(c)
      <4>1. "join 0" \in ReplyKinds /\ {} \in SUBSET IPs
        BY DEF ReplyKinds
      <4>2. CASE Goto(c, "join set") /\ UNCHANGED out
        BY <2>0, <3>6, <4>2 DEF JoinTest, TypeOK, wireVars, Goto, Labels
      <4>3. CASE Answer(c, "join 0", {})
        BY <2>0, <3>6, <4>1, <4>3, AnswerType DEF JoinTest, TypeOK, wireVars
      <4>4. QED
        BY <3>6, <4>2, <4>3 DEF JoinTest
    <3>7. CASE JoinSet(c)
      <4>1. "join 1" \in ReplyKinds /\ {} \in SUBSET IPs
        BY DEF ReplyKinds
      <4>2. lobby_list' \in [IPs -> Conns \cup {NoConn}]
        BY <3>7 DEF JoinSet, TypeOK
      <4>3. overwritten' \subseteq IPs
        BY <3>7 DEF JoinSet, Registered, TypeOK
      <4>4. QED
        BY <2>0, <3>7, <4>1, <4>2, <4>3, AnswerType DEF JoinSet, TypeOK, wireVars
    <3>8. CASE ListTest(c)
      <4>1. "list 0" \in ReplyKinds /\ {} \in SUBSET IPs
        BY DEF ReplyKinds
      <4>2. CASE Goto(c, "list joined") /\ UNCHANGED out
        BY <2>0, <3>8, <4>2 DEF ListTest, TypeOK, wireVars, Goto, Labels, Scans, MemberScans
      <4>3. CASE Answer(c, "list 0", {})
        BY <2>0, <3>8, <4>1, <4>3, AnswerType DEF ListTest, TypeOK, wireVars
      <4>4. QED
        BY <3>8, <4>2, <4>3 DEF ListTest
    <3>9. CASE LeaveTest(c)
      <4>1. "leave 0" \in ReplyKinds /\ {} \in SUBSET IPs
        BY DEF ReplyKinds
      <4>2. CASE Goto(c, "leave joined") /\ UNCHANGED out
        BY <2>0, <3>9, <4>2 DEF LeaveTest, TypeOK, wireVars, Goto, Labels, Scans, MemberScans
      <4>3. CASE Answer(c, "leave 0", {})
        BY <2>0, <3>9, <4>1, <4>3, AnswerType DEF LeaveTest, TypeOK, wireVars
      <4>4. QED
        BY <3>9, <4>2, <4>3 DEF LeaveTest
    <3>10. CASE MemberFound(c)
      <4>1. CASE Raise(c)
        BY <2>0, <3>10, <4>1, RaiseType DEF MemberFound, TypeOK, wireVars
      <4>2. CASE /\ \E label \in {"list items", "leave del", "frame in"} : Goto(c, label)
                 /\ iter' = [iter EXCEPT ![c] = NoIter]
                 /\ UNCHANGED <<req, out>>
        BY <2>0, <3>10, <4>2, LocalTypes
           DEF MemberFound, TypeOK, wireVars, Goto, Labels, Scans
      <4>3. QED
        BY <3>10, <4>1, <4>2 DEF MemberFound, MemberScans
    <3>11. CASE MemberMissed(c)
      <4>1. PICK kind \in {"list 0", "leave 0", "error"} : Answer(c, kind, {})
        BY <3>11 DEF MemberMissed, MemberScans
      <4>2. kind \in ReplyKinds /\ {} \in SUBSET IPs
        BY DEF ReplyKinds
      <4>3. QED
        BY <2>0, <3>11, <4>1, <4>2, AnswerType, LocalTypes DEF MemberMissed, TypeOK, wireVars
    <3>12. CASE ListDone(c)
      <4>1. "list 1" \in ReplyKinds /\ iter[c].seen \in SUBSET IPs
        BY <2>0 DEF ReplyKinds
      <4>2. QED
        BY <2>0, <3>12, <4>1, AnswerType, LocalTypes DEF ListDone, TypeOK, wireVars
    <3>13. CASE LeaveDel(c)
      <4>1. "leave 1" \in ReplyKinds /\ {} \in SUBSET IPs
        BY DEF ReplyKinds
      <4>2. lobby_list' \in [IPs -> Conns \cup {NoConn}]
        BY <3>13 DEF LeaveDel, TypeOK
      <4>3. CASE Answer(c, "leave 1", {}) /\ UNCHANGED <<req, iter>>
        BY <2>0, <3>13, <4>1, <4>2, <4>3, AnswerType DEF LeaveDel, TypeOK, wireVars
      <4>4. CASE Raise(c)
        BY <2>0, <3>13, <4>2, <4>4, RaiseType DEF LeaveDel, TypeOK, wireVars
      <4>5. QED
        BY <3>13, <4>3, <4>4 DEF LeaveDel
    <3>14. CASE FrameTest(c)
      <4>1. CASE Goto(c, "frame get") /\ UNCHANGED req
        BY <2>0, <3>14, <4>1 DEF FrameTest, TypeOK, wireVars, Goto, Labels
      <4>2. CASE Serve(c)
        BY <2>0, <3>14, <4>2, ServeType DEF FrameTest, TypeOK, wireVars
      <4>3. QED
        BY <3>14, <4>1, <4>2 DEF FrameTest
    <3>15. CASE FrameGet(c)
      <4>1. CASE Registered(req[c].ip)
        <5>1. lobby_list[req[c].ip] \in Conns
          BY <4>1 DEF Registered, Keys, TypeOK
        <5>2. Forward(req[c].data) \in Write
          BY <2>0, LocalTypes DEF Request
        <5>3. out' \in [Conns -> [to : Conns, what : Write]]
          <6> DEFINE send == [to |-> lobby_list[req[c].ip], what |-> Forward(req[c].data)]
          <6>1. send \in [to : Conns, what : Write]
            BY <5>1, <5>2
          <6>2. out' = [out EXCEPT ![c] = send]
            BY <3>15, <4>1 DEF FrameGet, PrepareSend
          <6> HIDE DEF send
          <6>3. QED
            BY <2>0, <6>1, <6>2
        <5>4. pc' \in [Conns -> Labels]
          BY <2>0, <3>15, <4>1 DEF FrameGet, PrepareSend, Goto, Labels
        <5>5. QED
          BY <3>15, <4>1, <5>3, <5>4 DEF FrameGet, TypeOK, wireVars
      <4>2. CASE ~Registered(req[c].ip)
        BY <2>0, <3>15, <4>2, RaiseType DEF FrameGet, TypeOK, wireVars
      <4>3. QED
        BY <4>1, <4>2
    <3>16. CASE Send(c)
      <4>1. out[c].to \in Conns /\ out[c].what \in Write
        BY <2>0
      <4>2. Append(toClient[out[c].to], out[c].what) \in Seq(Write)
        BY <4>1, AppendProperties DEF TypeOK
      <4>3. toClient' \in [Conns -> Seq(Write)]
        BY <3>16, <4>1, <4>2 DEF Send, TypeOK
      <4>4. told' \in [Conns -> {"nothing", "in", "out"}]
        BY <3>16, <4>1 DEF Send, TypeOK, Word
      <4>5. QED
        BY <2>0, <3>16, <4>3, <4>4, ServeType, LocalTypes DEF Send, TypeOK
    <3>17. CASE SendFails(c)
      BY <2>0, <3>17, RaiseType DEF SendFails, TypeOK, wireVars
    <3>18. CASE FinallyFound(c)
      <4>1. PICK ip \in IPs : req' = [req EXCEPT ![c].ip = ip]
        BY <3>18 DEF FinallyFound
      <4>2. req' \in [Conns -> Request]
        BY <2>0, <4>1 DEF Request, Addr
      <4>3. QED
        BY <2>0, <3>18, <4>2, LocalTypes DEF FinallyFound, TypeOK, wireVars, Goto, Labels
    <3>19. CASE FinallyMissed(c)
      BY <2>0, <3>19, RaiseType DEF FinallyMissed, TypeOK, wireVars
    <3>20. CASE FinallyDel(c)
      <4>1. lobby_list' \in [IPs -> Conns \cup {NoConn}]
        BY <3>20 DEF FinallyDel, TypeOK
      <4>2. CASE Registered(req[c].ip)
        BY <2>0, <3>20, <4>1, <4>2, LocalTypes
           DEF FinallyDel, TypeOK, wireVars, Goto, Labels
      <4>3. CASE ~Registered(req[c].ip)
        BY <2>0, <3>20, <4>1, <4>3, RaiseType DEF FinallyDel, TypeOK, wireVars
      <4>4. QED
        BY <4>2, <4>3
    <3>21. CASE FinallyClose(c)
      BY <2>0, <3>21 DEF FinallyClose, TypeOK, wireVars, Goto, Labels
    <3>22. QED
      BY <2>3, <3>1, <3>2, <3>3, <3>4, <3>5, <3>6, <3>7, <3>8, <3>9, <3>10, <3>11,
         <3>12, <3>13, <3>14, <3>15, <3>16, <3>17, <3>18, <3>19, <3>20, <3>21 DEF Handler
  <2>4. ASSUME NEW c \in Conns, Client(c)
        PROVE  TypeOK'
    <3>1. ASSUME NEW kind \in Says[c], NEW addr \in IPs, ClientSend(c, kind, addr)
          PROVE  TypeOK'
      <4>1. kind \in Kinds
        BY ConstantsAssumption
      <4>2. toServer[c] \o Message(kind, addr) \in Seq(Piece)
        BY <4>1, MessageType, ConcatProperties DEF TypeOK
      <4>3. QED
        BY <3>1, <4>2 DEF ClientSend, TypeOK, handlerVars
    <3>2. CASE ClientRead(c)
      <4>1. Tail(toClient[c]) \in Seq(Write)
        BY <3>2, HeadTailProperties DEF ClientRead, TypeOK
      <4>2. QED
        BY <3>2, <4>1 DEF ClientRead, TypeOK, handlerVars
    <3>3. CASE HangUp(c)
      <4>1. Endings[c] \subseteq {"shut", "reset"}
        BY ConstantsAssumption
      <4>2. << >> \in Seq(Piece) /\ << >> \in Seq(Write)
        BY EmptySeq
      <4>3. QED
        BY <3>3, <4>1, <4>2 DEF HangUp, TypeOK, handlerVars
    <3>4. QED
      BY <2>4, <3>1, <3>2, <3>3 DEF Client
  <2>5. CASE UNCHANGED vars
    BY <2>5 DEF vars, TypeOK
  <2>6. QED
    BY <2>1, <2>2, <2>3, <2>4, <2>5 DEF Next, Finished
<1>3. QED
  BY <1>1, <1>2, PTL DEF Spec

-----------------------------------------------------------------------------
(* Whose address a handler works with.                                     *)

\* What a client writes on its stream, frames apart, carries its own address.
StreamIsOwn ==
  \A c \in Conns : \A i \in 1 .. Len(toServer[c]) :
    toServer[c][i].kind # "frame" => toServer[c][i].addr = OwnIP[c]

\* A request's address is one its client presents, from the moment it has passed a
\* test; the request of a frame carries the frame's address.
RequestIsOwn ==
  \A c \in Conns :
    /\ pc[c] \in Commands => req[c].ip \in Presents(c) \cup {BadIP}
    /\ pc[c] \in {"join set", "list joined", "leave joined", "leave del", "finally del"}
         => req[c].ip \in Presents(c)
    /\ pc[c] = "frame joined" => req[c].op \in {"frame", "garbage"}
    /\ pc[c] \in {"frame in", "frame get"} => req[c].op = "frame"
    /\ pc[c] \in {"frame joined", "frame in", "frame get"} /\ req[c].op = "frame"
         => req[c].data[1].addr = req[c].ip

\* A connection is registered only under an address that its client presents.
RegisteredIsOwn ==
  \A c \in Conns, ip \in IPs : lobby_list[ip] = c => ip \in Presents(c)

\* A frame about to be sent is for the client it is sent to.
SendIsToOwner ==
  \A c \in Conns :
    pc[c] = "send" /\ out[c].what.kind = "data"
      => out[c].what.body[1].addr \in Presents(out[c].to)

OwnInv ==
  /\ StreamIsOwn
  /\ RequestIsOwn
  /\ RegisteredIsOwn
  /\ SendIsToOwner
  /\ ForwardedToOwner

-----------------------------------------------------------------------------
(* What the threads leave each other.                                      *)

\* A connection has no entry before its first join nor after its finally block has
\* deleted it.
EntryIsLive ==
  \A c \in Conns, ip \in IPs :
    lobby_list[ip] = c => pc[c] \notin {"new", "finally close", "done"}

\* An answer goes to the handler's own client, and "join 1" is still true when sent,
\* unless another join has overwritten the entry.
AnswerIsTrue ==
  \A c \in Conns : pc[c] = "send" =>
    /\ out[c].what.kind # "data" => out[c].to = c
    /\ out[c].what.kind = "join 1"
         => lobby_list[OwnIP[c]] = c \/ OwnIP[c] \in overwritten

MemberInv ==
  /\ DeletesOwnEntry
  /\ AnswerIsTrue
  /\ AckedIsRegistered

\* A handler's step leaves the other handlers' locals alone.
LEMMA OthersUntouched ==
  ASSUME HandlerTypes, NEW c \in Conns, Handler(c)
  PROVE  \A d \in Conns \ {c} : pc'[d] = pc[d] /\ req'[d] = req[d] /\ out'[d] = out[d]
<1> USE DEF HandlerTypes, Goto
<1>1. CASE Recv(c)
  BY <1>1 DEF Recv, Raise
<1>2. CASE RecvEnd(c)
  BY <1>2 DEF RecvEnd, Raise
<1>3. CASE OpenIter(c) \/ IterPass(c)
  BY <1>3 DEF OpenIter, IterPass
<1>4. CASE IterRaises(c)
  BY <1>4 DEF IterRaises, Raise
<1>5. CASE JoinTest(c) \/ ListTest(c) \/ LeaveTest(c)
  BY <1>5 DEF JoinTest, ListTest, LeaveTest, Answer, PrepareSend
<1>6. CASE JoinSet(c)
  BY <1>6 DEF JoinSet, Answer, PrepareSend
<1>7. CASE MemberFound(c)
  BY <1>7 DEF MemberFound, Raise
<1>8. CASE MemberMissed(c) \/ ListDone(c)
  BY <1>8 DEF MemberMissed, ListDone, Answer, PrepareSend
<1>9. CASE LeaveDel(c)
  BY <1>9 DEF LeaveDel, Answer, PrepareSend, Raise
<1>10. CASE FrameTest(c)
  BY <1>10 DEF FrameTest, Serve
<1>11. CASE FrameGet(c)
  BY <1>11 DEF FrameGet, PrepareSend, Raise
<1>12. CASE Send(c)
  BY <1>12 DEF Send, Serve
<1>13. CASE SendFails(c)
  BY <1>13 DEF SendFails, Raise
<1>14. CASE FinallyFound(c)
  BY <1>14 DEF FinallyFound
<1>15. CASE FinallyMissed(c)
  BY <1>15 DEF FinallyMissed, Raise
<1>16. CASE FinallyDel(c)
  BY <1>16 DEF FinallyDel, Raise
<1>17. CASE FinallyClose(c)
  BY <1>17 DEF FinallyClose
<1>18. QED
  BY <1>1, <1>2, <1>3, <1>4, <1>5, <1>6, <1>7, <1>8, <1>9, <1>10, <1>11, <1>12,
     <1>13, <1>14, <1>15, <1>16, <1>17 DEF Handler

\* Only three steps of a handler change the dictionary.
LEMMA DictionarySteps ==
  ASSUME NEW c \in Conns, Handler(c)
  PROVE  \/ UNCHANGED <<lobby_list, overwritten>>
         \/ /\ JoinSet(c)
            /\ lobby_list' = [lobby_list EXCEPT ![req[c].ip] = c]
            /\ overwritten' = IF Registered(req[c].ip) THEN overwritten \cup {req[c].ip}
                              ELSE overwritten
         \/ /\ LeaveDel(c) \/ FinallyDel(c)
            /\ Registered(req[c].ip)
            /\ lobby_list' = [lobby_list EXCEPT ![req[c].ip] = NoConn]
            /\ UNCHANGED overwritten
BY DEF Handler, Recv, RecvEnd, OpenIter, IterRaises, IterPass, JoinTest, JoinSet, ListTest,
       LeaveTest, MemberFound, MemberMissed, ListDone, LeaveDel, FrameTest, FrameGet,
       Send, SendFails, FinallyFound, FinallyMissed, FinallyDel, FinallyClose

\* An exception leads to the finally block or ends the thread.
LEMMA RaiseEffect ==
  ASSUME HandlerTypes, NEW c \in Conns, Raise(c)
  PROVE  pc'[c] \in {"finally", "crashed"}
BY DEF HandlerTypes, Raise, Goto

\* What recv leads to.
LEMMA RecvEffect ==
  ASSUME TypeOK, NEW c \in Conns, Recv(c)
  PROVE  pc'[c] \in Commands \cup {"recv", "frame joined", "finally", "crashed"}
<1>1. pc \in [Conns -> Labels] /\ HandlerTypes
  BY DEF TypeOK, HandlerTypes
<1>2. PICK n \in 1 .. RecvPieces :
        /\ n <= Len(toServer[c])
        /\ \E r \in Readings(SubSeq(toServer[c], 1, n)) :
             IF r[1] = "raise" THEN Raise(c) ELSE Goto(c, NextLabel(r[1]))
  BY DEF Recv
<1>3. n \in Nat /\ 1 <= n
  BY <1>2, ConstantsAssumption
<1>4. toServer[c] \in Seq(Piece)
  BY DEF TypeOK
<1>5. SubSeq(toServer[c], 1, n)[1] \in Piece
  BY <1>2, <1>3, <1>4, ChunkType
<1>6. PICK r \in Readings(SubSeq(toServer[c], 1, n)) :
        IF r[1] = "raise" THEN Raise(c) ELSE Goto(c, NextLabel(r[1]))
  BY <1>2
<1>7. r[1] \in Commands \cup {"other", "raise", "frame", "garbage"}
  BY <1>5, ReadingType
<1>8. CASE Raise(c)
  BY <1>1, <1>8, RaiseEffect
<1>9. CASE r[1] # "raise" /\ Goto(c, NextLabel(r[1]))
  BY <1>1, <1>7, <1>9 DEF NextLabel, Goto
<1>10. QED
  BY <1>6, <1>8, <1>9

\* A command that is read back from its client's stream carries an address that the
\* client presents, or none.
LEMMA ReadingIsOwn ==
  ASSUME NEW c \in Conns, NEW data, data[1] \in Piece,
         data[1].kind # "frame" => data[1].addr = OwnIP[c],
         NEW r \in Readings(data), r[1] \in Commands
  PROVE  r[2] \in Presents(c) \cup {BadIP}
<1>1. data[1].addr \in IPs
  BY DEF Piece
<1>2. data[1].kind \in Commands /\ data[1].first
  BY DEF Readings, OtherReadings, Commands
<1>3. r \in CommandReadings(data) \cup CutReadings(data)
  BY <1>2 DEF Readings
<1>4. data[1].addr = OwnIP[c]
  BY <1>2 DEF Commands
<1>5. QED
  BY <1>1, <1>3, <1>4 DEF CommandReadings, CutReadings, Commands, Presents

\* A step of a handler keeps RequestIsOwn.
LEMMA RequestStep ==
  ASSUME TypeOK, StreamIsOwn, RequestIsOwn, RegisteredIsOwn,
         NEW c \in Conns, Handler(c)
  PROVE  RequestIsOwn'
<1> DEFINE Own(d) ==
      /\ pc'[d] \in Commands => req'[d].ip \in Presents(d) \cup {BadIP}
      /\ pc'[d] \in {"join set", "list joined", "leave joined", "leave del", "finally del"}
           => req'[d].ip \in Presents(d)
      /\ pc'[d] = "frame joined" => req'[d].op \in {"frame", "garbage"}
      /\ pc'[d] \in {"frame in", "frame get"} => req'[d].op = "frame"
      /\ pc'[d] \in {"frame joined", "frame in", "frame get"} /\ req'[d].op = "frame"
           => req'[d].data[1].addr = req'[d].ip
<1>0. HandlerTypes
  BY DEF TypeOK, HandlerTypes
<1>1. SUFFICES Own(c)
  <2>1. \A d \in Conns \ {c} : pc'[d] = pc[d] /\ req'[d] = req[d]
    BY <1>0, OthersUntouched
  <2>2. \A d \in Conns \ {c} : Own(d)
    BY <2>1 DEF RequestIsOwn
  <2>3. QED
    BY <2>2 DEF RequestIsOwn
<1>2. /\ pc[c] \in Commands => req[c].ip \in Presents(c) \cup {BadIP}
      /\ pc[c] \in {"join set", "list joined", "leave joined", "leave del", "finally del"}
           => req[c].ip \in Presents(c)
      /\ pc[c] = "frame joined" => req[c].op \in {"frame", "garbage"}
      /\ pc[c] \in {"frame in", "frame get"} => req[c].op = "frame"
      /\ pc[c] \in {"frame joined", "frame in", "frame get"} /\ req[c].op = "frame"
           => req[c].data[1].addr = req[c].ip
  BY DEF RequestIsOwn
<1>3. /\ \A ip \in IPs : Owns(c, ip) => ip \in Presents(c)
      /\ BadIP \notin IPs
      /\ Registered(req[c].ip) => req[c].ip \in IPs
  BY ConstantsAssumption DEF RegisteredIsOwn, Owns, Registered
<1>4. Raise(c) => Own(c)
  BY <1>0, RaiseEffect DEF Commands
<1> USE <1>0 DEF HandlerTypes, Goto, Commands
<1>5. CASE Recv(c)
  <2>1. PICK n \in 1 .. RecvPieces :
          /\ n <= Len(toServer[c])
          /\ \E r \in Readings(SubSeq(toServer[c], 1, n)) :
               IF r[1] = "raise" THEN Raise(c)
               ELSE /\ Goto(c, NextLabel(r[1]))
                    /\ req' = [req EXCEPT ![c] = IF r[1] = "other" THEN NoReq
                                 ELSE [op |-> r[1], ip |-> r[2],
                                       data |-> IF r[1] = "frame"
                                                THEN SubSeq(toServer[c], 1, n) ELSE << >>]]
    BY <1>5 DEF Recv
  <2> DEFINE data == SubSeq(toServer[c], 1, n)
  <2>2. /\ n \in Nat /\ 1 <= n
        /\ toServer[c] \in Seq(Piece)
        /\ Len(toServer[c]) \in Nat
    BY <2>1, ConstantsAssumption, LenProperties DEF TypeOK
  <2>3. /\ data[1] = toServer[c][1]
        /\ data[1] \in Piece
    BY <2>1, <2>2, ChunkType
  <2>4. data[1].kind # "frame" => data[1].addr = OwnIP[c]
    <3>1. 1 \in 1 .. Len(toServer[c])
      BY <2>1, <2>2
    <3>2. QED
      BY <2>3, <3>1 DEF StreamIsOwn
  <2>5. PICK r \in Readings(data) :
          IF r[1] = "raise" THEN Raise(c)
          ELSE /\ Goto(c, NextLabel(r[1]))
               /\ req' = [req EXCEPT ![c] = IF r[1] = "other" THEN NoReq
                            ELSE [op |-> r[1], ip |-> r[2],
                                  data |-> IF r[1] = "frame" THEN data ELSE << >>]]
    BY <2>1
  <2> HIDE DEF data
  <2>6. /\ r[1] \in Commands \cup {"other", "raise", "frame", "garbage"}
        /\ r[1] = "frame" => r[2] = data[1].addr
    BY <2>3, ReadingType
  <2>7. r[1] \in Commands => r[2] \in Presents(c) \cup {BadIP}
    BY <2>3, <2>4, ReadingIsOwn
  <2>8. CASE r[1] = "raise"
    BY <1>4, <2>5, <2>8
  <2>9. CASE r[1] = "other"
    BY <2>5, <2>9 DEF NextLabel
  <2>10. CASE r[1] \in Commands
    <3>1. pc'[c] = r[1]
      BY <2>5, <2>10 DEF NextLabel
    <3>2. req'[c] = [op |-> r[1], ip |-> r[2], data |-> << >>]
      BY <2>5, <2>10
    <3>3. req'[c].ip = r[2]
      BY <3>2
    <3>4. QED
      BY <2>7, <2>10, <3>1, <3>3
  <2>11. CASE r[1] \in {"frame", "garbage"}
    <3>1. pc'[c] = "frame joined"
      BY <2>5, <2>11 DEF NextLabel
    <3>2. req'[c] = [op |-> r[1], ip |-> r[2],
                     data |-> IF r[1] = "frame" THEN data ELSE << >>]
      BY <2>5, <2>11
    <3>3. /\ req'[c].op = r[1]
          /\ req'[c].ip = r[2]
          /\ r[1] = "frame" => req'[c].data = data
      BY <3>2
    <3>4. QED
      BY <2>6, <2>11, <3>1, <3>3
  <2>12. QED
    BY <2>6, <2>8, <2>9, <2>10, <2>11
<1>6. CASE RecvEnd(c) \/ IterRaises(c) \/ SendFails(c) \/ FinallyMissed(c)
  BY <1>4, <1>6 DEF RecvEnd, IterRaises, SendFails, FinallyMissed
<1>7. CASE OpenIter(c) \/ IterPass(c)
  <2>1. pc' = pc /\ req' = req
    BY <1>7 DEF OpenIter, IterPass
  <2>2. QED
    BY <1>2, <2>1
<1>8. CASE JoinTest(c) \/ ListTest(c) \/ LeaveTest(c)
  BY <1>2, <1>3, <1>8 DEF JoinTest, ListTest, LeaveTest, Answer, PrepareSend
<1>9. CASE JoinSet(c) \/ ListDone(c) \/ MemberMissed(c)
  BY <1>2, <1>9 DEF JoinSet, ListDone, MemberMissed, Answer, PrepareSend
<1>10. CASE MemberFound(c)
  BY <1>2, <1>4, <1>10 DEF MemberFound, MemberScans
<1>11. CASE LeaveDel(c)
  BY <1>2, <1>4, <1>11 DEF LeaveDel, Answer, PrepareSend
<1>12. CASE FrameTest(c)
  BY <1>2, <1>12 DEF FrameTest, Serve
<1>13. CASE FrameGet(c)
  BY <1>2, <1>4, <1>13 DEF FrameGet, PrepareSend
<1>14. CASE Send(c)
  BY <1>14 DEF Send, Serve
<1>15. CASE FinallyFound(c)
  <2>1. PICK ip \in IPs : Owns(c, ip) /\ req' = [req EXCEPT ![c].ip = ip]
    BY <1>15 DEF FinallyFound
  <2>2. req'[c].ip \in Presents(c)
    BY <1>3, <2>1 DEF Request
  <2>3. QED
    BY <1>15, <2>2 DEF FinallyFound
<1>16. CASE FinallyDel(c)
  BY <1>4, <1>16 DEF FinallyDel
<1>17. CASE FinallyClose(c)
  BY <1>2, <1>17 DEF FinallyClose
<1>18. QED
  BY <1>5, <1>6, <1>7, <1>8, <1>9, <1>10, <1>11, <1>12, <1>13, <1>14, <1>15, <1>16,
     <1>17 DEF Handler

\* A handler comes near the end of its finally block in two ways only.
LEMMA ClosingSteps ==
  ASSUME TypeOK, NEW c \in Conns, Handler(c), pc'[c] \in {"new", "finally close", "done"}
  PROVE  \/ FinallyClose(c)
         \/ FinallyDel(c) /\ Registered(req[c].ip)
<1>1. pc \in [Conns -> Labels] /\ HandlerTypes
  BY DEF TypeOK, HandlerTypes
<1>2. ~Raise(c)
  BY <1>1, RaiseEffect
<1>3. ~Recv(c)
  BY RecvEffect DEF Commands
<1>4. ~OpenIter(c) /\ ~IterPass(c)
  BY DEF OpenIter, IterPass, Scans, MemberScans, Yields
<1>5. ~JoinTest(c) /\ ~ListTest(c) /\ ~LeaveTest(c) /\ ~MemberMissed(c)
  BY <1>1 DEF JoinTest, ListTest, LeaveTest, MemberMissed, Answer, PrepareSend, Goto
<1>6. ~JoinSet(c) /\ ~ListDone(c) /\ ~LeaveDel(c)
  BY <1>1, <1>2 DEF JoinSet, ListDone, LeaveDel, Answer, PrepareSend, Goto
<1>7. ~MemberFound(c)
  BY <1>1, <1>2 DEF MemberFound, MemberScans, Goto
<1>8. ~FrameTest(c) /\ ~FrameGet(c) /\ ~Send(c) /\ ~FinallyFound(c)
  BY <1>1, <1>2 DEF FrameTest, FrameGet, Send, FinallyFound, Serve, PrepareSend, Goto
<1>9. ~RecvEnd(c) /\ ~IterRaises(c) /\ ~SendFails(c) /\ ~FinallyMissed(c)
  BY <1>2 DEF RecvEnd, IterRaises, SendFails, FinallyMissed
<1>10. QED
  BY <1>2, <1>3, <1>4, <1>5, <1>6, <1>7, <1>8, <1>9 DEF Handler, FinallyDel

\* A step of a handler keeps RegisteredIsOwn.
LEMMA RegisteredStep ==
  ASSUME TypeOK, RequestIsOwn, RegisteredIsOwn, NEW c \in Conns, Handler(c)
  PROVE  RegisteredIsOwn'
<1> SUFFICES ASSUME NEW d \in Conns, NEW ip \in IPs, lobby_list'[ip] = d
             PROVE  ip \in Presents(d)
  BY DEF RegisteredIsOwn, Presents
<1>1. d # NoConn /\ lobby_list \in [IPs -> Conns \cup {NoConn}]
  BY ConstantsAssumption DEF TypeOK
<1>2. lobby_list[ip] = d => ip \in Presents(d)
  BY DEF RegisteredIsOwn
<1>3. CASE JoinSet(c) /\ lobby_list' = [lobby_list EXCEPT ![req[c].ip] = c]
  <2>1. req[c].ip \in Presents(c)
    BY <1>3 DEF JoinSet, RequestIsOwn
  <2>2. QED
    BY <1>1, <1>2, <1>3, <2>1
<1>4. CASE lobby_list' = [lobby_list EXCEPT ![req[c].ip] = NoConn]
  BY <1>1, <1>2, <1>4
<1>5. CASE UNCHANGED lobby_list
  BY <1>2, <1>5
<1>6. QED
  BY <1>3, <1>4, <1>5, DictionarySteps

\* A step of a handler keeps StreamIsOwn: recv only shortens the stream.
LEMMA StreamStep ==
  ASSUME TypeOK, StreamIsOwn, NEW c \in Conns, Handler(c)
  PROVE  StreamIsOwn'
<1>1. CASE Recv(c)
  <2>1. PICK n \in 1 .. RecvPieces :
          /\ n <= Len(toServer[c])
          /\ toServer' = [toServer EXCEPT ![c] = SubSeq(@, n + 1, Len(@))]
    BY <1>1 DEF Recv
  <2>2. /\ n \in Nat /\ 1 <= n
        /\ toServer \in [Conns -> Seq(Piece)]
    BY <2>1, ConstantsAssumption DEF TypeOK
  <2>3. \A i \in 1 .. Len(toServer'[c]) :
          \E j \in 1 .. Len(toServer[c]) : toServer'[c][i] = toServer[c][j]
    BY <2>1, <2>2, ChunkType
  <2>4. \A d \in Conns \ {c} : toServer'[d] = toServer[d]
    BY <2>1, <2>2
  <2>5. QED
    BY <2>3, <2>4 DEF StreamIsOwn
<1>2. CASE ~Recv(c)
  <2>1. toServer' = toServer
    BY <1>2 DEF Handler, RecvEnd, OpenIter, IterRaises, IterPass, JoinTest, JoinSet,
                ListTest, LeaveTest, MemberFound, MemberMissed, ListDone, LeaveDel,
                FrameTest, FrameGet, Send, SendFails, FinallyFound, FinallyMissed,
                FinallyDel, FinallyClose, wireVars
  <2>2. QED
    BY <2>1 DEF StreamIsOwn
<1>3. QED
  BY <1>1, <1>2

\* A handler prepares to send a frame in one step only.
LEMMA FramePrepared ==
  ASSUME TypeOK, NEW c \in Conns, Handler(c),
         pc'[c] = "send", out'[c].what.kind = "data"
  PROVE  FrameGet(c) /\ Registered(req[c].ip)
<1>1. /\ pc \in [Conns -> Labels]
      /\ out \in [Conns -> [to : Conns, what : Write]]
      /\ HandlerTypes
  BY DEF TypeOK, HandlerTypes
<1>2. ~Raise(c)
  BY <1>1, RaiseEffect
<1>3. ~Recv(c)
  BY RecvEffect DEF Commands
<1>4. \A kind \in ReplyKinds : \A members : ~Answer(c, kind, members)
  <2>1. SUFFICES ASSUME NEW kind \in ReplyKinds, NEW members, Answer(c, kind, members)
                 PROVE  FALSE
    OBVIOUS
  <2>2. out'[c] = [to |-> c, what |-> Reply(kind, members)]
    BY <1>1, <2>1 DEF Answer, PrepareSend
  <2>3. out'[c].what.kind = kind
    BY <2>2 DEF Reply
  <2>4. QED
    BY <2>3 DEF ReplyKinds
<1>5. ~RecvEnd(c) /\ ~IterRaises(c) /\ ~SendFails(c) /\ ~FinallyMissed(c)
  BY <1>2 DEF RecvEnd, IterRaises, SendFails, FinallyMissed
<1>6. ~OpenIter(c) /\ ~IterPass(c)
  BY DEF OpenIter, IterPass, Scans, MemberScans, Yields
<1>7. ~JoinTest(c) /\ ~ListTest(c) /\ ~LeaveTest(c)
  BY <1>1, <1>4 DEF JoinTest, ListTest, LeaveTest, Goto, ReplyKinds
<1>8. ~JoinSet(c) /\ ~ListDone(c) /\ ~LeaveDel(c)
  BY <1>2, <1>4 DEF JoinSet, ListDone, LeaveDel, ReplyKinds
<1>9. ~MemberMissed(c)
  BY <1>4 DEF MemberMissed, MemberScans, ReplyKinds
<1>10. ~MemberFound(c)
  BY <1>1, <1>2 DEF MemberFound, MemberScans, Goto
<1>11. ~FrameTest(c) /\ ~Send(c) /\ ~FinallyFound(c) /\ ~FinallyDel(c) /\ ~FinallyClose(c)
  BY <1>1, <1>2 DEF FrameTest, Send, FinallyFound, FinallyDel, FinallyClose, Serve, Goto
<1>12. QED
  BY <1>2, <1>3, <1>5, <1>6, <1>7, <1>8, <1>9, <1>10, <1>11 DEF Handler, FrameGet

\* A step of a handler keeps SendIsToOwner: forwardPackets takes the socket that is
\* registered under the frame's destination.
LEMMA SendStep ==
  ASSUME TypeOK, RequestIsOwn, RegisteredIsOwn, SendIsToOwner, NEW c \in Conns, Handler(c)
  PROVE  SendIsToOwner'
<1>1. HandlerTypes
  BY DEF TypeOK, HandlerTypes
<1>2. \A d \in Conns \ {c} : pc'[d] = pc[d] /\ out'[d] = out[d]
  BY <1>1, OthersUntouched
<1>3. ASSUME pc'[c] = "send", out'[c].what.kind = "data"
      PROVE  out'[c].what.body[1].addr \in Presents(out'[c].to)
  <2>1. FrameGet(c) /\ Registered(req[c].ip)
    BY <1>3, FramePrepared
  <2>2. out'[c] = [to |-> lobby_list[req[c].ip], what |-> Forward(req[c].data)]
    BY <1>1, <2>1 DEF FrameGet, PrepareSend, HandlerTypes
  <2>3. out'[c].what.body = req[c].data
    BY <2>2 DEF Forward
  <2>4. lobby_list[req[c].ip] \in Conns /\ req[c].ip \in IPs
    BY <2>1 DEF Registered, Keys, TypeOK
  <2>5. req[c].ip \in Presents(out'[c].to)
    <3>1. out'[c].to = lobby_list[req[c].ip]
      BY <2>2
    <3>2. QED
      BY <2>4, <3>1 DEF RegisteredIsOwn
  <2>6. req[c].data[1].addr = req[c].ip
    BY <2>1 DEF FrameGet, RequestIsOwn
  <2>7. QED
    BY <2>3, <2>5, <2>6
<1>4. QED
  BY <1>2, <1>3 DEF SendIsToOwner, Presents

\* A step of a handler keeps ForwardedToOwner.
LEMMA ForwardedStep ==
  ASSUME TypeOK, SendIsToOwner, ForwardedToOwner, NEW c \in Conns, Handler(c)
  PROVE  ForwardedToOwner'
<1>1. CASE UNCHANGED toClient
  BY <1>1 DEF ForwardedToOwner
<1>2. CASE Send(c) /\ toClient' = [toClient EXCEPT ![out[c].to] = Append(@, out[c].what)]
  <2> DEFINE to == out[c].to
             w == out[c].what
  <2>1. /\ to \in Conns
        /\ w \in Write
        /\ toClient \in [Conns -> Seq(Write)]
    BY DEF TypeOK
  <2>2. w.kind = "data" => w.body[1].addr \in Presents(to)
    BY <1>2 DEF Send, SendIsToOwner
  <2>3. \A d \in Conns \ {to} : toClient'[d] = toClient[d]
    BY <1>2, <2>1
  <2>4. toClient'[to] = Append(toClient[to], w)
    BY <1>2, <2>1
  <2>5. ASSUME NEW i \in DOMAIN toClient'[to], toClient'[to][i].kind = "data"
        PROVE  toClient'[to][i].body[1].addr \in Presents(to)
    <3>1. /\ Append(toClient[to], w) \in Seq(Write)
          /\ Len(Append(toClient[to], w)) = Len(toClient[to]) + 1
          /\ \A j \in 1 .. Len(toClient[to]) : Append(toClient[to], w)[j] = toClient[to][j]
          /\ Append(toClient[to], w)[Len(toClient[to]) + 1] = w
      BY <2>1, AppendProperties
    <3>2. /\ DOMAIN Append(toClient[to], w) = 1 .. Len(toClient[to]) + 1
          /\ DOMAIN toClient[to] = 1 .. Len(toClient[to])
          /\ Len(toClient[to]) \in Nat
      BY <2>1, <3>1, LenProperties
    <3>3. i \in 1 .. Len(toClient[to]) \/ i = Len(toClient[to]) + 1
      BY <2>4, <2>5, <3>2
    <3>4. CASE i \in 1 .. Len(toClient[to])
      BY <2>1, <2>4, <2>5, <3>1, <3>2, <3>4 DEF ForwardedToOwner
    <3>5. CASE i = Len(toClient[to]) + 1
      BY <2>2, <2>4, <2>5, <3>1, <3>5
    <3>6. QED
      BY <3>3, <3>4, <3>5
  <2> HIDE DEF to, w
  <2>6. QED
    BY <2>3, <2>5 DEF ForwardedToOwner
<1>3. QED
  BY <1>1, <1>2
     DEF Handler, Recv, RecvEnd, OpenIter, IterRaises, IterPass, JoinTest, JoinSet,
         ListTest, LeaveTest, MemberFound, MemberMissed, ListDone, LeaveDel, FrameTest,
         FrameGet, Send, SendFails, FinallyFound, FinallyMissed, FinallyDel,
         FinallyClose, wireVars

\* A step of a client keeps OwnInv: it speaks for its own address.
LEMMA ClientStep ==
  ASSUME TypeOK, OwnInv, NEW c \in Conns, Client(c)
  PROVE  OwnInv'
<1>1. /\ toServer \in [Conns -> Seq(Piece)]
      /\ toClient \in [Conns -> Seq(Write)]
  BY DEF TypeOK
<1>2. RequestIsOwn' /\ RegisteredIsOwn' /\ SendIsToOwner'
  <2>1. UNCHANGED <<lobby_list, pc, req, out>>
    BY DEF Client, ClientSend, ClientRead, HangUp, handlerVars
  <2>2. QED
    BY <2>1 DEF OwnInv, RequestIsOwn, RegisteredIsOwn, SendIsToOwner
<1>3. ASSUME NEW kind \in Says[c], NEW addr \in IPs, ClientSend(c, kind, addr)
      PROVE  StreamIsOwn' /\ ForwardedToOwner'
  <2> DEFINE new == Message(kind, addr)
  <2>1. /\ new \in Seq(Piece)
        /\ \A i \in 1 .. Len(new) : new[i].kind = kind /\ new[i].addr = addr
    <3>1. kind \in Kinds
      BY ConstantsAssumption
    <3>2. QED
      BY <3>1, MessageType
  <2>2. kind # "frame" => addr = OwnIP[c]
    BY <1>3 DEF ClientSend
  <2>3. toServer'[c] = toServer[c] \o new
    BY <1>1, <1>3 DEF ClientSend
  <2>4. \A d \in Conns \ {c} : toServer'[d] = toServer[d]
    BY <1>1, <1>3 DEF ClientSend
  <2> HIDE DEF new
  <2>5. ASSUME NEW i \in 1 .. Len(toServer'[c]), toServer'[c][i].kind # "frame"
        PROVE  toServer'[c][i].addr = OwnIP[c]
    <3>1. /\ Len(toServer[c]) \in Nat /\ Len(new) \in Nat
          /\ Len(toServer'[c]) = Len(toServer[c]) + Len(new)
          /\ toServer'[c][i] = IF i <= Len(toServer[c]) THEN toServer[c][i]
                                                          ELSE new[i - Len(toServer[c])]
      BY <1>1, <2>1, <2>3, <2>5, ConcatProperties, LenProperties
    <3>2. CASE i <= Len(toServer[c])
      BY <2>5, <3>1, <3>2 DEF OwnInv, StreamIsOwn
    <3>3. CASE ~(i <= Len(toServer[c]))
      <4>1. i - Len(toServer[c]) \in 1 .. Len(new)
        BY <3>1, <3>3
      <4>2. QED
        BY <2>1, <2>2, <2>5, <3>1, <3>3, <4>1
    <3>4. QED
      BY <3>2, <3>3
  <2>6. StreamIsOwn'
    BY <2>4, <2>5 DEF OwnInv, StreamIsOwn
  <2>7. UNCHANGED toClient
    BY <1>3 DEF ClientSend
  <2>8. QED
    BY <2>6, <2>7 DEF OwnInv, ForwardedToOwner
<1>4. ASSUME ClientRead(c)
      PROVE  StreamIsOwn' /\ ForwardedToOwner'
  <2>1. UNCHANGED toServer
    BY <1>4 DEF ClientRead
  <2>2. /\ toClient'[c] = Tail(toClient[c])
        /\ \A d \in Conns \ {c} : toClient'[d] = toClient[d]
    BY <1>1, <1>4 DEF ClientRead
  <2>3. \A i \in DOMAIN toClient'[c] :
           \E j \in DOMAIN toClient[c] : toClient'[c][i] = toClient[c][j]
    <3>1. toClient[c] \in Seq(Write) /\ toClient[c] # << >>
      BY <1>1, <1>4 DEF ClientRead
    <3>2. /\ Tail(toClient[c]) \in Seq(Write)
          /\ Len(Tail(toClient[c])) = Len(toClient[c]) - 1
          /\ \A i \in 1 .. Len(Tail(toClient[c])) : Tail(toClient[c])[i] = toClient[c][i + 1]
      BY <3>1, HeadTailProperties
    <3>3. /\ DOMAIN Tail(toClient[c]) = 1 .. Len(Tail(toClient[c]))
          /\ DOMAIN toClient[c] = 1 .. Len(toClient[c])
          /\ Len(toClient[c]) \in Nat
      BY <3>1, <3>2, LenProperties
    <3>4. QED
      BY <2>2, <3>2, <3>3
  <2>4. StreamIsOwn'
    BY <2>1 DEF OwnInv, StreamIsOwn
  <2>5. ASSUME NEW d \in Conns, NEW i \in DOMAIN toClient'[d], toClient'[d][i].kind = "data"
        PROVE  toClient'[d][i].body[1].addr \in Presents(d)
    <3>1. PICK j \in DOMAIN toClient[d] : toClient'[d][i] = toClient[d][j]
      BY <2>2, <2>3, <2>5
    <3>2. QED
      BY <2>5, <3>1 DEF OwnInv, ForwardedToOwner
  <2>6. ForwardedToOwner'
    BY <2>5 DEF ForwardedToOwner
  <2>7. QED
    BY <2>4, <2>6
<1>5. ASSUME HangUp(c)
      PROVE  StreamIsOwn' /\ ForwardedToOwner'
  <2>1. \A d \in Conns : toServer'[d] = toServer[d] \/ toServer'[d] = << >>
    BY <1>1, <1>5 DEF HangUp
  <2>2. \A d \in Conns : toClient'[d] = toClient[d] \/ toClient'[d] = << >>
    BY <1>1, <1>5 DEF HangUp
  <2>3. /\ Len(<< >>) = 0
        /\ DOMAIN << >> = {}
    OBVIOUS
  <2>4. StreamIsOwn'
    BY <2>1, <2>3 DEF OwnInv, StreamIsOwn
  <2>5. ForwardedToOwner'
    BY <2>2, <2>3 DEF OwnInv, ForwardedToOwner
  <2>6. QED
    BY <2>4, <2>5
<1>6. QED
  BY <1>2, <1>3, <1>4, <1>5 DEF Client, OwnInv

\* Streams, requests, entries, pending sends and forwarded frames carry addresses that
\* the clients concerned have presented.
THEOREM OwnAddress == Spec => []OwnInv
<1>1. Init => OwnInv
  <2> SUFFICES ASSUME Init PROVE OwnInv
    OBVIOUS
  <2>1. StreamIsOwn /\ ForwardedToOwner
    BY DEF Init, StreamIsOwn, ForwardedToOwner
  <2>2. RequestIsOwn /\ SendIsToOwner
    BY DEF Init, RequestIsOwn, SendIsToOwner, Commands
  <2>3. RegisteredIsOwn
    BY ConstantsAssumption DEF Init, RegisteredIsOwn
  <2>4. QED
    BY <2>1, <2>2, <2>3 DEF OwnInv
<1>2. TypeOK /\ OwnInv /\ [Next]_vars => OwnInv'
  <2> SUFFICES ASSUME TypeOK, OwnInv, [Next]_vars PROVE OwnInv'
    OBVIOUS
  <2> USE DEF OwnInv
  <2>1. CASE Shutdown \/ UNCHANGED vars
    <3>1. UNCHANGED <<lobby_list, pc, req, out, toServer, toClient>>
      BY <2>1 DEF Shutdown, vars, handlerVars, wireVars
    <3>2. QED
      BY <3>1 DEF StreamIsOwn, RequestIsOwn, RegisteredIsOwn, SendIsToOwner, ForwardedToOwner
  <2>2. ASSUME NEW c \in Conns, Accept(c)
        PROVE  OwnInv'
    <3>1. UNCHANGED <<lobby_list, req, out, toServer, toClient>>
      BY <2>2 DEF Accept
    <3>2. pc' = [pc EXCEPT ![c] = "recv"] /\ pc \in [Conns -> Labels]
      BY <2>2 DEF Accept, Goto, TypeOK
    <3>3. StreamIsOwn' /\ ForwardedToOwner'
      BY <3>1 DEF StreamIsOwn, ForwardedToOwner
    <3>4. RequestIsOwn' /\ SendIsToOwner'
      BY <3>1, <3>2 DEF RequestIsOwn, SendIsToOwner, Commands
    <3>5. RegisteredIsOwn'
      BY <3>1, <3>2 DEF RegisteredIsOwn
    <3>6. QED
      BY <3>3, <3>4, <3>5
  <2>3. ASSUME NEW c \in Conns, Handler(c)
        PROVE  OwnInv'
    BY <2>3, RequestStep, RegisteredStep, StreamStep, SendStep, ForwardedStep
  <2>4. ASSUME NEW c \in Conns, Client(c)
        PROVE  OwnInv'
    BY <2>4, ClientStep
  <2>5. QED
    BY <2>1, <2>2, <2>3, <2>4 DEF Next, Finished
<1>3. QED
  BY <1>1, <1>2, TypeCorrect, PTL DEF Spec

\* What a client is sent as a frame begins with a frame for an address it presented,
\* whoever shares it and wherever commands are cut.
THEOREM ForwardedFrames == Spec => []ForwardedToOwner
<1>1. OwnInv => ForwardedToOwner
  BY DEF OwnInv
<1>2. QED
  BY <1>1, OwnAddress, PTL

-----------------------------------------------------------------------------
(* From here on a command is never cut into one with another address.      *)

\* So every request and every entry is under its connection's own address.
LEMMA OwnOnly ==
  ASSUME SingleAddress, RequestIsOwn, RegisteredIsOwn
  PROVE  \A c \in Conns :
           /\ pc[c] \in Commands => req[c].ip \in {OwnIP[c], BadIP}
           /\ pc[c] \in {"join set", "list joined", "leave joined", "leave del", "finally del"}
                => req[c].ip = OwnIP[c]
           /\ \A ip \in IPs : lobby_list[ip] = c => ip = OwnIP[c]
<1>1. \A c \in Conns : Presents(c) = {OwnIP[c]}
  BY ConstantsAssumption DEF SingleAddress, Presents
<1>2. QED
  BY <1>1 DEF RequestIsOwn, RegisteredIsOwn

\* A step of a handler keeps EntryIsLive.
LEMMA LiveStep ==
  ASSUME SingleAddress, TypeOK, RequestIsOwn, RegisteredIsOwn, EntryIsLive,
         NEW c \in Conns, Handler(c)
  PROVE  EntryIsLive'
<1> SUFFICES ASSUME NEW d \in Conns, NEW ip \in IPs, lobby_list'[ip] = d
             PROVE  pc'[d] \notin {"new", "finally close", "done"}
  BY DEF EntryIsLive
<1>1. HandlerTypes
  BY DEF TypeOK, HandlerTypes
<1>2. d # NoConn /\ lobby_list \in [IPs -> Conns \cup {NoConn}]
  BY ConstantsAssumption DEF TypeOK
<1>3. d # c => pc'[d] = pc[d]
  BY <1>1, OthersUntouched
<1>4. lobby_list[ip] = d => ip = OwnIP[d] /\ pc[d] \notin {"new", "finally close", "done"}
  BY OwnOnly DEF EntryIsLive
<1>5. CASE JoinSet(c) /\ lobby_list' = [lobby_list EXCEPT ![req[c].ip] = c]
  <2>1. pc'[c] = "send"
    BY <1>1, <1>5 DEF JoinSet, Answer, PrepareSend, Goto, HandlerTypes
  <2>2. QED
    BY <1>2, <1>3, <1>4, <1>5, <2>1
<1>6. CASE /\ LeaveDel(c) \/ FinallyDel(c)
           /\ Registered(req[c].ip)
           /\ lobby_list' = [lobby_list EXCEPT ![req[c].ip] = NoConn]
  <2>1. req[c].ip = OwnIP[c]
    BY <1>6, OwnOnly DEF LeaveDel, FinallyDel
  <2>2. lobby_list[ip] = d /\ ip # OwnIP[c]
    BY <1>2, <1>6, <2>1 DEF Registered
  <2>3. d # c
    BY <1>4, <2>2
  <2>4. QED
    BY <1>3, <1>4, <2>2, <2>3
<1>7. CASE UNCHANGED lobby_list
  <2>1. lobby_list[ip] = d
    BY <1>7
  <2>2. CASE d # c
    BY <1>3, <1>4, <2>1, <2>2
  <2>3. CASE d = c
    <3>1. ~FinallyClose(c)
      BY <1>4, <2>1, <2>3 DEF FinallyClose
    <3>2. ~(FinallyDel(c) /\ Registered(req[c].ip))
      <4>1. SUFFICES ASSUME FinallyDel(c), Registered(req[c].ip) PROVE FALSE
        OBVIOUS
      <4>2. lobby_list'[req[c].ip] = NoConn
        BY <1>2, <4>1 DEF FinallyDel, Registered
      <4>3. lobby_list[req[c].ip] # NoConn
        BY <4>1 DEF Registered, Keys
      <4>4. QED
        BY <1>7, <4>2, <4>3
    <3>3. QED
      BY <1>4, <2>1, <2>3, <3>1, <3>2, ClosingSteps
  <2>4. QED
    BY <2>2, <2>3
<1>8. QED
  BY <1>5, <1>6, <1>7, DictionarySteps

\* A connection whose handler closed it in order has no entry left in lobby_list,
\* although other connections present its address.
THEOREM ClosedConnections == ASSUME SingleAddress PROVE Spec => []ClosedNotRegistered
<1>1. Init => EntryIsLive
  BY ConstantsAssumption DEF Init, EntryIsLive
<1>2. TypeOK /\ OwnInv /\ EntryIsLive /\ [Next]_vars => EntryIsLive'
  <2> SUFFICES ASSUME TypeOK, OwnInv, EntryIsLive, [Next]_vars PROVE EntryIsLive'
    OBVIOUS
  <2>1. CASE Shutdown \/ UNCHANGED vars
    BY <2>1 DEF Shutdown, vars, handlerVars, EntryIsLive
  <2>2. ASSUME NEW c \in Conns, Accept(c)
        PROVE  EntryIsLive'
    BY <2>2 DEF Accept, Goto, TypeOK, EntryIsLive
  <2>3. ASSUME NEW c \in Conns, Handler(c)
        PROVE  EntryIsLive'
    BY <2>3, LiveStep DEF OwnInv
  <2>4. ASSUME NEW c \in Conns, Client(c)
        PROVE  EntryIsLive'
    BY <2>4 DEF Client, ClientSend, ClientRead, HangUp, handlerVars, EntryIsLive
  <2>5. QED
    BY <2>1, <2>2, <2>3, <2>4 DEF Next, Finished
<1>3. EntryIsLive => ClosedNotRegistered
  BY DEF EntryIsLive, ClosedNotRegistered
<1>4. QED
  BY <1>1, <1>2, <1>3, TypeCorrect, OwnAddress, PTL DEF Spec

-----------------------------------------------------------------------------
(* One client's membership, the other handlers running.                    *)

\* A handler's step takes the entry of another connection only by overwriting it.
LEMMA EntriesOfOthers ==
  ASSUME SingleAddress, TypeOK, RequestIsOwn, RegisteredIsOwn, DeletesOwnEntry,
         NEW c \in Conns, Handler(c),
         NEW d \in Conns \ {c}, lobby_list[OwnIP[d]] = d, OwnIP[d] \notin overwritten'
  PROVE  lobby_list'[OwnIP[d]] = d
<1>1. /\ OwnIP[d] \in IPs
      /\ lobby_list \in [IPs -> Conns \cup {NoConn}]
      /\ d # NoConn
  BY ConstantsAssumption DEF TypeOK
<1>2. CASE /\ JoinSet(c)
           /\ lobby_list' = [lobby_list EXCEPT ![req[c].ip] = c]
           /\ overwritten' = IF Registered(req[c].ip) THEN overwritten \cup {req[c].ip}
                             ELSE overwritten
  BY <1>1, <1>2 DEF Registered, Keys
<1>3. CASE /\ LeaveDel(c) \/ FinallyDel(c)
           /\ lobby_list' = [lobby_list EXCEPT ![req[c].ip] = NoConn]
           /\ UNCHANGED overwritten
  <2>1. req[c].ip = OwnIP[c] /\ OwnIP[c] \in IPs
    BY <1>3, OwnOnly, ConstantsAssumption DEF LeaveDel, FinallyDel
  <2>2. lobby_list[req[c].ip] = c \/ req[c].ip \in overwritten
    BY <1>3 DEF LeaveDel, FinallyDel, DeletesOwnEntry
  <2>3. OwnIP[d] # req[c].ip
    BY <1>3, <2>2
  <2>4. QED
    BY <1>1, <1>3, <2>3
<1>4. QED
  BY <1>2, <1>3, DictionarySteps

\* What has been overwritten stays so.
LEMMA OverwrittenGrows ==
  ASSUME NEW c \in Conns, Handler(c)
  PROVE  overwritten \subseteq overwritten'
BY DictionarySteps

\* A send changes what its receiver was told only if it is the handler's answer.
LEMMA ToldSteps ==
  ASSUME TypeOK, AnswerIsTrue, NEW c \in Conns, Handler(c)
  PROVE  \/ UNCHANGED told
         \/ /\ Send(c)
            /\ out[c].what.kind # "data"
            /\ out[c].to = c
            /\ told' = [told EXCEPT ![c] = Word(out[c].what.kind, @)]
<1>1. CASE Send(c)
  <2>1. told' = [told EXCEPT ![out[c].to] = Word(out[c].what.kind, @)]
    BY <1>1 DEF Send
  <2>2. CASE out[c].what.kind = "data"
    <3>1. out[c].to \in Conns /\ told \in [Conns -> {"nothing", "in", "out"}]
      BY DEF TypeOK
    <3>2. UNCHANGED told
      BY <2>1, <2>2, <3>1 DEF Word
    <3>3. QED
      BY <3>2
  <2>3. CASE out[c].what.kind # "data"
    BY <1>1, <2>1, <2>3 DEF Send, AnswerIsTrue
  <2>4. QED
    BY <2>2, <2>3
<1>2. CASE ~Send(c)
  BY <1>2 DEF Handler, Recv, RecvEnd, OpenIter, IterRaises, IterPass, JoinTest, JoinSet,
              ListTest, LeaveTest, MemberFound, MemberMissed, ListDone, LeaveDel,
              FrameTest, FrameGet, SendFails, FinallyFound, FinallyMissed,
              FinallyDel, FinallyClose
<1>3. QED
  BY <1>1, <1>2

\* What preparing an answer leads to.
LEMMA AnswerEffect ==
  ASSUME HandlerTypes, NEW c \in Conns, NEW kind, NEW members, Answer(c, kind, members)
  PROVE  /\ pc'[c] = "send"
         /\ out'[c].to = c
         /\ out'[c].what.kind = kind
<1>1. out'[c] = [to |-> c, what |-> Reply(kind, members)]
  BY DEF HandlerTypes, Answer, PrepareSend
<1>2. pc'[c] = "send"
  BY DEF HandlerTypes, Answer, PrepareSend, Goto
<1>3. out'[c].what = Reply(kind, members) /\ out'[c].to = c
  BY <1>1
<1>4. QED
  BY <1>2, <1>3 DEF Reply

\* A step of a handler keeps MemberInv.
LEMMA MemberStep ==
  ASSUME SingleAddress, TypeOK, OwnInv, OwnInv', MemberInv,
         NEW c \in Conns, Handler(c)
  PROVE  MemberInv'
<1> DEFINE
      mine == lobby_list[OwnIP[c]] = c \/ OwnIP[c] \in overwritten
      Mine(d) == lobby_list'[OwnIP[d]] = d \/ OwnIP[d] \in overwritten'
      Deletes(d) == pc'[d] \in {"leave del", "finally del"} => Mine(d)
      Answers(d) == pc'[d] = "send" =>
                      /\ out'[d].what.kind # "data" => out'[d].to = d
                      /\ out'[d].what.kind = "join 1" => Mine(d)
      Acked(d) == told'[d] = "in" =>
                    \/ Mine(d)
                    \/ pc'[d] = "send" /\ out'[d].what.kind = "leave 1"
                    \/ pc'[d] \in {"finally", "finally close", "done", "crashed"}
      Good(d) == Deletes(d) /\ Answers(d) /\ Acked(d)
<1>0. HandlerTypes
  BY DEF TypeOK, HandlerTypes
<1>1. ASSUME NEW d \in Conns \ {c}
      PROVE  Good(d)
  <2>1. pc'[d] = pc[d] /\ req'[d] = req[d] /\ out'[d] = out[d]
    BY <1>0, OthersUntouched
  <2>2. lobby_list[OwnIP[d]] = d \/ OwnIP[d] \in overwritten => Mine(d)
    BY EntriesOfOthers, OverwrittenGrows DEF OwnInv, MemberInv
  <2>3. told'[d] = told[d]
    <3>1. told \in [Conns -> {"nothing", "in", "out"}]
      BY DEF TypeOK
    <3>2. QED
      BY <3>1, ToldSteps DEF MemberInv
  <2>4. pc[d] \in {"leave del", "finally del"} => req[d].ip = OwnIP[d]
    BY OwnOnly DEF OwnInv
  <2>5. Deletes(d)
    BY <2>1, <2>2, <2>4 DEF MemberInv, DeletesOwnEntry
  <2>6. Answers(d)
    BY <2>1, <2>2 DEF MemberInv, AnswerIsTrue
  <2>7. Acked(d)
    BY <2>1, <2>2, <2>3 DEF MemberInv, AckedIsRegistered
  <2>8. QED
    BY <2>5, <2>6, <2>7
<1>2. SUFFICES Good(c)
  <2>1. \A d \in Conns : pc'[d] \in {"leave del", "finally del"} => req'[d].ip = OwnIP[d]
    <3>1. \A d \in Conns : Presents(d) = {OwnIP[d]}
      BY ConstantsAssumption DEF SingleAddress, Presents
    <3>2. QED
      BY <3>1 DEF OwnInv, RequestIsOwn, Presents
  <2>2. \A d \in Conns : Good(d)
    BY <1>1
  <2>3. DeletesOwnEntry'
    BY <2>1, <2>2 DEF DeletesOwnEntry
  <2>4. AnswerIsTrue' /\ AckedIsRegistered'
    BY <2>2 DEF AnswerIsTrue, AckedIsRegistered
  <2>5. QED
    BY <2>3, <2>4 DEF MemberInv
<1>3. /\ pc[c] = "send" => /\ out[c].what.kind # "data" => out[c].to = c
                           /\ out[c].what.kind = "join 1" => mine
      /\ told[c] = "in" => \/ mine
                           \/ pc[c] = "send" /\ out[c].what.kind = "leave 1"
                           \/ pc[c] \in {"finally", "finally close", "done", "crashed"}
  BY DEF MemberInv, AnswerIsTrue, AckedIsRegistered
<1>4. /\ pc[c] \in {"leave del", "finally del"} => mine
      /\ pc[c] \in {"join set", "leave del", "finally del"} => req[c].ip = OwnIP[c]
  BY OwnOnly DEF OwnInv, MemberInv, DeletesOwnEntry
<1>5. /\ \A ip \in IPs : Owns(c, ip) => mine
      /\ lobby_list \in [IPs -> Conns \cup {NoConn}]
      /\ OwnIP[c] \in IPs
  BY OwnOnly, ConstantsAssumption DEF OwnInv, Owns, TypeOK
<1>6. Raise(c) => Good(c)
  BY <1>0, RaiseEffect
<1>7. ASSUME NEW kind \in ReplyKinds \ {"join 1", "leave 1"}, NEW members,
             Answer(c, kind, members), UNCHANGED <<lobby_list, overwritten, told>>,
             pc[c] \in Labels \ {"send", "finally", "finally close", "done", "crashed"}
      PROVE  Good(c)
  <2>1. pc'[c] = "send" /\ out'[c].to = c /\ out'[c].what.kind = kind
    BY <1>0, <1>7, AnswerEffect
  <2>2. QED
    BY <1>3, <1>7, <2>1
<1>8. CASE Recv(c)
  <2>1. pc'[c] \in Commands \cup {"recv", "frame joined", "finally", "crashed"}
    BY <1>8, RecvEffect
  <2>2. pc[c] = "recv" /\ UNCHANGED <<lobby_list, overwritten, told>>
    BY <1>8 DEF Recv
  <2>3. QED
    BY <1>3, <2>1, <2>2 DEF Commands
<1>9. CASE RecvEnd(c) \/ IterRaises(c) \/ SendFails(c) \/ FinallyMissed(c)
  BY <1>6, <1>9 DEF RecvEnd, IterRaises, SendFails, FinallyMissed
<1>10. CASE OpenIter(c) \/ IterPass(c)
  <2>1. UNCHANGED <<lobby_list, overwritten, pc, req, out, told>>
    BY <1>10 DEF OpenIter, IterPass
  <2>2. QED
    BY <1>3, <1>4, <2>1
<1>11. CASE JoinTest(c)
  <2>1. pc[c] = "join" /\ UNCHANGED <<lobby_list, overwritten, told>>
    BY <1>11 DEF JoinTest
  <2>2. CASE Answer(c, "join 0", {})
    BY <1>7, <2>1, <2>2 DEF ReplyKinds, Labels
  <2>3. CASE Goto(c, "join set")
    <3>1. pc'[c] = "join set"
      BY <1>0, <2>3 DEF Goto, HandlerTypes
    <3>2. QED
      BY <1>3, <2>1, <3>1
  <2>4. QED
    BY <1>11, <2>2, <2>3 DEF JoinTest
<1>12. CASE JoinSet(c)
  <2>1. pc'[c] = "send" /\ out'[c].to = c /\ out'[c].what.kind = "join 1"
    BY <1>0, <1>12, AnswerEffect DEF JoinSet
  <2>2. lobby_list'[OwnIP[c]] = c
    BY <1>4, <1>5, <1>12 DEF JoinSet
  <2>3. QED
    BY <2>1, <2>2
<1>13. CASE ListTest(c) \/ LeaveTest(c)
  <2>1. pc[c] \in {"list", "leave"} /\ UNCHANGED <<lobby_list, overwritten, told>>
    BY <1>13 DEF ListTest, LeaveTest
  <2>2. CASE \E kind \in {"list 0", "leave 0"} : Answer(c, kind, {})
    BY <1>7, <2>1, <2>2 DEF ReplyKinds, Labels
  <2>3. CASE \E label \in {"list joined", "leave joined"} : Goto(c, label)
    <3>1. pc'[c] \in {"list joined", "leave joined"}
      BY <1>0, <2>3 DEF Goto, HandlerTypes
    <3>2. QED
      BY <1>3, <2>1, <3>1
  <2>4. QED
    BY <1>13, <2>2, <2>3 DEF ListTest, LeaveTest
<1>14. CASE MemberFound(c)
  <2>1. pc[c] \in MemberScans /\ UNCHANGED <<lobby_list, overwritten, told>>
    BY <1>14 DEF MemberFound
  <2>2. mine
    BY <1>5, <1>14 DEF MemberFound
  <2>3. CASE \E label \in {"list items", "leave del", "frame in"} : Goto(c, label)
    <3>1. pc'[c] \in {"list items", "leave del", "frame in"}
      BY <1>0, <2>3 DEF Goto, HandlerTypes
    <3>2. QED
      BY <1>4, <2>1, <2>2, <3>1
  <2>4. QED
    BY <1>6, <1>14, <2>3 DEF MemberFound, MemberScans
<1>15. CASE MemberMissed(c) \/ ListDone(c)
  <2>1. /\ pc[c] \in MemberScans \cup {"list items"}
        /\ UNCHANGED <<lobby_list, overwritten, told>>
    BY <1>15 DEF MemberMissed, ListDone
  <2>2. \E kind \in {"list 0", "list 1", "leave 0", "error"} :
           \E members : Answer(c, kind, members)
    <3>1. CASE ListDone(c)
      BY <3>1 DEF ListDone
    <3>2. CASE MemberMissed(c)
      <4>1. PICK kind \in {"list 0", "leave 0", "error"} : Answer(c, kind, {})
        BY <3>2 DEF MemberMissed, MemberScans
      <4>2. QED
        BY <4>1
    <3>3. QED
      BY <1>15, <3>1, <3>2
  <2>3. PICK kind \in {"list 0", "list 1", "leave 0", "error"} :
           \E members : Answer(c, kind, members)
    BY <2>2
  <2>4. PICK members : Answer(c, kind, members)
    BY <2>3
  <2>5. QED
    BY <1>7, <2>1, <2>3, <2>4 DEF ReplyKinds, Labels, Scans, MemberScans
<1>16. CASE LeaveDel(c)
  <2>1. pc[c] = "leave del" /\ UNCHANGED told
    BY <1>16 DEF LeaveDel
  <2>2. CASE Answer(c, "leave 1", {})
    <3>1. pc'[c] = "send" /\ out'[c].to = c /\ out'[c].what.kind = "leave 1"
      BY <1>0, <2>2, AnswerEffect
    <3>2. QED
      BY <3>1
  <2>3. QED
    BY <1>6, <1>16, <2>2 DEF LeaveDel
<1>17. CASE FrameTest(c)
  <2>1. pc[c] = "frame in" /\ UNCHANGED <<lobby_list, overwritten, told>>
    BY <1>17 DEF FrameTest
  <2>2. pc'[c] \in {"recv", "frame get"}
    BY <1>0, <1>17 DEF FrameTest, Serve, Goto, HandlerTypes
  <2>3. QED
    BY <1>3, <2>1, <2>2
<1>18. CASE FrameGet(c)
  <2>1. pc[c] = "frame get" /\ UNCHANGED <<lobby_list, overwritten, told>>
    BY <1>18 DEF FrameGet
  <2>2. CASE PrepareSend(c, lobby_list[req[c].ip], Forward(req[c].data))
    <3>1. pc'[c] = "send" /\ out'[c] = [to |-> lobby_list[req[c].ip], what |-> Forward(req[c].data)]
      BY <1>0, <2>2 DEF PrepareSend, Goto, HandlerTypes
    <3>2. out'[c].what.kind = "data"
      BY <3>1 DEF Forward
    <3>3. QED
      BY <1>3, <2>1, <3>1, <3>2
  <2>3. QED
    BY <1>6, <1>18, <2>2 DEF FrameGet
<1>19. CASE Send(c)
  <2>1. pc[c] = "send" /\ UNCHANGED <<lobby_list, overwritten>>
    BY <1>19 DEF Send
  <2>2. pc'[c] = "recv"
    BY <1>0, <1>19 DEF Send, Serve, Goto, HandlerTypes
  <2>3. CASE UNCHANGED told /\ out[c].what.kind \notin {"join 1", "leave 1"}
    BY <1>3, <2>1, <2>2, <2>3
  <2>4. CASE /\ out[c].to = c
             /\ out[c].what.kind # "data"
             /\ told' = [told EXCEPT ![c] = Word(out[c].what.kind, @)]
    <3>1. told'[c] = Word(out[c].what.kind, told[c])
      BY <2>4 DEF TypeOK
    <3>2. QED
      BY <1>3, <2>1, <2>2, <3>1 DEF Word
  <2>5. QED
    <3>1. out[c].what.kind = "data" \/ out[c].to = c
      BY <1>3, <2>1
    <3>2. told' = [told EXCEPT ![out[c].to] = Word(out[c].what.kind, @)]
      BY <1>19 DEF Send
    <3>3. CASE out[c].what.kind = "data"
      <4>1. out[c].to \in Conns /\ told \in [Conns -> {"nothing", "in", "out"}]
        BY DEF TypeOK
      <4>2. UNCHANGED told
        BY <3>2, <3>3, <4>1 DEF Word
      <4>3. QED
        BY <2>3, <3>3, <4>2
    <3>4. QED
      BY <2>4, <3>1, <3>2, <3>3
<1>20. CASE FinallyFound(c)
  <2>1. mine /\ UNCHANGED <<lobby_list, overwritten, told>>
    BY <1>5, <1>20 DEF FinallyFound
  <2>2. pc'[c] = "finally del"
    BY <1>0, <1>20 DEF FinallyFound, Goto, HandlerTypes
  <2>3. QED
    BY <1>4, <2>1, <2>2
<1>21. CASE FinallyDel(c)
  <2>1. CASE Goto(c, "finally close")
    <3>1. pc'[c] = "finally close"
      BY <1>0, <2>1 DEF Goto, HandlerTypes
    <3>2. QED
      BY <3>1
  <2>2. QED
    BY <1>6, <1>21, <2>1 DEF FinallyDel
<1>22. CASE FinallyClose(c)
  <2>1. pc'[c] = "done"
    BY <1>0, <1>22 DEF FinallyClose, Goto, HandlerTypes
  <2>2. QED
    BY <2>1
<1>23. QED
  BY <1>8, <1>9, <1>10, <1>11, <1>12, <1>13, <1>14, <1>15, <1>16, <1>17, <1>18, <1>19,
     <1>20, <1>21, <1>22 DEF Handler

\* The second strengthening is inductive, whoever shares an address.
THEOREM Members ==
  ASSUME SingleAddress
  PROVE  Spec => []MemberInv
<1>1. Init => MemberInv
  BY DEF Init, MemberInv, DeletesOwnEntry, AnswerIsTrue, AckedIsRegistered
<1>2. TypeOK /\ OwnInv /\ OwnInv' /\ MemberInv /\ [Next]_vars => MemberInv'
  <2> SUFFICES ASSUME TypeOK, OwnInv, OwnInv', MemberInv, [Next]_vars PROVE MemberInv'
    OBVIOUS
  <2>1. ASSUME UNCHANGED <<lobby_list, overwritten, req, out, told>>,
               \/ UNCHANGED pc
               \/ \E c \in Conns : pc[c] = "new" /\ Goto(c, "recv")
        PROVE  MemberInv'
    <3>1. \A d \in Conns : pc'[d] = pc[d] \/ (pc[d] = "new" /\ pc'[d] = "recv")
      BY <2>1 DEF TypeOK, Goto
    <3>2. DeletesOwnEntry'
      BY <2>1, <3>1 DEF MemberInv, DeletesOwnEntry
    <3>3. AnswerIsTrue'
      BY <2>1, <3>1 DEF MemberInv, AnswerIsTrue
    <3>4. AckedIsRegistered'
      BY <2>1, <3>1 DEF MemberInv, AckedIsRegistered
    <3>5. QED
      BY <3>2, <3>3, <3>4 DEF MemberInv
  <2>2. CASE Shutdown \/ UNCHANGED vars
    BY <2>1, <2>2 DEF Shutdown, vars, handlerVars
  <2>3. ASSUME NEW c \in Conns, Accept(c)
        PROVE  MemberInv'
    BY <2>1, <2>3 DEF Accept
  <2>4. ASSUME NEW c \in Conns, Handler(c)
        PROVE  MemberInv'
    BY <2>4, MemberStep DEF OwnInv
  <2>5. ASSUME NEW c \in Conns, Client(c)
        PROVE  MemberInv'
    BY <2>1, <2>5 DEF Client, ClientSend, ClientRead, HangUp, handlerVars
  <2>6. QED
    BY <2>2, <2>3, <2>4, <2>5 DEF Next, Finished
<1>3. QED
  BY <1>1, <1>2, TypeCorrect, OwnAddress, PTL DEF Spec

\* A client that was told it is in is registered until its handler removes it.
THEOREM AckedMembers ==
  ASSUME SingleAddress
  PROVE  Spec => []AckedIsRegistered
<1>1. MemberInv => AckedIsRegistered
  BY DEF MemberInv
<1>2. QED
  BY <1>1, Members, PTL

\* A handler deletes its own entry, and finds it.
THEOREM OwnEntryDeleted ==
  ASSUME SingleAddress
  PROVE  Spec => []DeletesOwnEntry
<1>1. MemberInv => DeletesOwnEntry
  BY DEF MemberInv
<1>2. QED
  BY <1>1, Members, PTL

-----------------------------------------------------------------------------
(* The threads implement the registry.                                     *)

Claims == {c \in Conns : pc[c] = "join set"}

\* Only the two steps of a join change who has found its address free.
LEMMA ClaimSteps ==
  ASSUME TypeOK, NEW c \in Conns, Handler(c)
  PROVE  \/ JoinTest(c) /\ req[c].ip \in IPs /\ ~Registered(req[c].ip)
            /\ Claims' = Claims \cup {c}
         \/ JoinSet(c) /\ Claims' = Claims \ {c}
         \/ ~JoinSet(c) /\ UNCHANGED Claims
<1>1. pc \in [Conns -> Labels] /\ HandlerTypes
  BY DEF TypeOK, HandlerTypes
<1>2. \A d \in Conns \ {c} : pc'[d] = pc[d]
  BY <1>1, OthersUntouched
<1>3. CASE JoinTest(c)
  <2>1. pc[c] = "join" /\ ~JoinSet(c)
    BY <1>3 DEF JoinTest, JoinSet
  <2>2. CASE req[c].ip \in IPs /\ ~Registered(req[c].ip)
    <3>1. pc'[c] = "join set"
      BY <1>1, <1>3, <2>2 DEF JoinTest, Goto
    <3>2. QED
      BY <1>2, <1>3, <2>2, <3>1 DEF Claims
  <2>3. CASE ~(req[c].ip \in IPs /\ ~Registered(req[c].ip))
    <3>1. pc'[c] = "send"
      BY <1>1, <1>3, <2>3 DEF JoinTest, Answer, PrepareSend, Goto
    <3>2. QED
      BY <1>2, <2>1, <3>1 DEF Claims
  <2>4. QED
    BY <2>2, <2>3
<1>4. CASE JoinSet(c)
  <2>1. pc'[c] = "send"
    BY <1>1, <1>4 DEF JoinSet, Answer, PrepareSend, Goto
  <2>2. QED
    BY <1>2, <1>4, <2>1 DEF Claims
<1>5. CASE ~JoinTest(c) /\ ~JoinSet(c)
  <2>1. pc[c] # "join set"
    BY <1>5 DEF Handler, Recv, RecvEnd, OpenIter, IterRaises, IterPass, ListTest, LeaveTest,
                MemberFound, MemberMissed, ListDone, LeaveDel, FrameTest, FrameGet,
                Send, SendFails, FinallyFound, FinallyMissed, FinallyDel, FinallyClose,
                Yields, Exhausted, Scans, MemberScans
  <2>2. pc'[c] # "join set"
    <3>1. Raise(c) => pc'[c] # "join set"
      BY <1>1, RaiseEffect
    <3>2. CASE Recv(c)
      BY <3>2, RecvEffect DEF Commands
    <3>3. CASE RecvEnd(c) \/ IterRaises(c) \/ SendFails(c) \/ FinallyMissed(c)
      BY <3>1, <3>3 DEF RecvEnd, IterRaises, SendFails, FinallyMissed
    <3>4. CASE OpenIter(c) \/ IterPass(c)
      BY <2>1, <3>4 DEF OpenIter, IterPass
    <3>5. CASE ListTest(c) \/ LeaveTest(c)
      BY <1>1, <3>5 DEF ListTest, LeaveTest, Answer, PrepareSend, Goto
    <3>6. CASE MemberFound(c)
      BY <1>1, <3>1, <3>6 DEF MemberFound, MemberScans, Goto
    <3>7. CASE MemberMissed(c) \/ ListDone(c)
      BY <1>1, <3>7 DEF MemberMissed, ListDone, Answer, PrepareSend, Goto
    <3>8. CASE LeaveDel(c) \/ FrameGet(c) \/ FinallyDel(c)
      BY <1>1, <3>1, <3>8 DEF LeaveDel, FrameGet, FinallyDel, Answer, PrepareSend, Goto
    <3>9. CASE FrameTest(c) \/ Send(c)
      BY <1>1, <3>9 DEF FrameTest, Send, Serve, Goto
    <3>10. CASE FinallyFound(c) \/ FinallyClose(c)
      BY <1>1, <3>10 DEF FinallyFound, FinallyClose, Goto
    <3>11. QED
      BY <1>5, <3>2, <3>3, <3>4, <3>5, <3>6, <3>7, <3>8, <3>9, <3>10 DEF Handler
  <2>3. QED
    BY <1>2, <1>5, <2>1, <2>2 DEF Claims
<1>6. QED
  BY <1>3, <1>4, <1>5

\* A step of a handler is a step of the registry or changes nothing it speaks of.
LEMMA HandlerRefines ==
  ASSUME SingleAddress, TypeOK, OwnInv, MemberInv, NEW c \in Conns, Handler(c)
  PROVE  Membership!Next \/ UNCHANGED <<lobby_list, Claims, overwritten, told>>
<1> USE DEF Claims
<1>1. /\ pc[c] \in {"join set", "leave del", "finally del"} => req[c].ip = OwnIP[c]
      /\ pc[c] = "join" /\ req[c].ip \in IPs => req[c].ip = OwnIP[c]
  BY OwnOnly, ConstantsAssumption DEF OwnInv, Commands
<1>2. /\ lobby_list \in [IPs -> Conns \cup {NoConn}]
      /\ c # NoConn
      /\ OwnIP[c] \in IPs
  BY ConstantsAssumption DEF TypeOK
<1>3. CASE /\ JoinTest(c) /\ req[c].ip \in IPs /\ ~Registered(req[c].ip)
           /\ Claims' = Claims \cup {c}
  <2>1. pc[c] = "join" /\ lobby_list[OwnIP[c]] = NoConn
    BY <1>1, <1>2, <1>3 DEF JoinTest, Registered, Keys
  <2>2. told[c] # "in" \/ OwnIP[c] \in overwritten
    BY <1>2, <2>1 DEF MemberInv, AckedIsRegistered
  <2>3. Membership!Claim(c)
    BY <1>3, <2>1, <2>2 DEF JoinTest, Membership!Claim, Membership!Contested
  <2>4. QED
    BY <2>3 DEF Membership!Next
<1>4. CASE JoinSet(c) /\ Claims' = Claims \ {c}
  <2>1. pc[c] = "join set" /\ req[c].ip = OwnIP[c]
    BY <1>1, <1>4 DEF JoinSet
  <2>2. overwritten' = IF lobby_list[OwnIP[c]] = NoConn THEN overwritten
                       ELSE overwritten \cup {OwnIP[c]}
    BY <1>2, <1>4, <2>1 DEF JoinSet, Registered, Keys
  <2>3. Membership!Enter(c)
    BY <1>4, <2>1, <2>2 DEF JoinSet, Membership!Enter
  <2>4. QED
    BY <2>3 DEF Membership!Next
<1>5. CASE ~JoinSet(c) /\ UNCHANGED Claims
  <2>1. CASE /\ LeaveDel(c) \/ FinallyDel(c)
             /\ lobby_list' = [lobby_list EXCEPT ![req[c].ip] = NoConn]
             /\ UNCHANGED overwritten
    <3>1. pc[c] \in {"leave del", "finally del"} /\ UNCHANGED told
      BY <2>1 DEF LeaveDel, FinallyDel
    <3>2. lobby_list[OwnIP[c]] = c \/ OwnIP[c] \in overwritten
      BY <1>1, <3>1 DEF MemberInv, DeletesOwnEntry
    <3>3. Membership!Remove(c)
      BY <1>1, <1>5, <2>1, <3>1, <3>2
         DEF Membership!Remove, Membership!Owns, Membership!Contested
    <3>4. QED
      BY <3>3 DEF Membership!Next
  <2>2. CASE UNCHANGED <<lobby_list, overwritten>>
    <3>1. CASE UNCHANGED told
      BY <1>5, <2>2, <3>1
    <3>2. CASE /\ Send(c)
               /\ out[c].what.kind # "data"
               /\ told' = [told EXCEPT ![c] = Word(out[c].what.kind, @)]
      <4>1. CASE out[c].what.kind = "join 1"
        <5>1. lobby_list[OwnIP[c]] = c \/ OwnIP[c] \in overwritten
          BY <3>2, <4>1 DEF Send, MemberInv, AnswerIsTrue
        <5>2. Membership!Welcome(c)
          BY <1>5, <2>2, <3>2, <4>1, <5>1
             DEF Word, Membership!Welcome, Membership!Owns, Membership!Contested
        <5>3. QED
          BY <5>2 DEF Membership!Next
      <4>2. CASE out[c].what.kind \in {"leave 1", "error"}
        <5>1. Membership!Dismiss(c)
          BY <1>5, <2>2, <3>2, <4>2 DEF Word, Membership!Dismiss
        <5>2. QED
          BY <5>1 DEF Membership!Next
      <4>3. CASE out[c].what.kind \notin {"join 1", "leave 1", "error"}
        <5>1. told' = [told EXCEPT ![c] = told[c]]
          BY <3>2, <4>3 DEF Word
        <5>2. UNCHANGED told
          BY <5>1 DEF TypeOK
        <5>3. QED
          BY <1>5, <2>2, <5>2
      <4>4. QED
        BY <4>1, <4>2, <4>3
    <3>3. QED
      BY <3>1, <3>2, ToldSteps DEF MemberInv
  <2>3. QED
    BY <1>5, <2>1, <2>2, DictionarySteps
<1>6. QED
  BY <1>3, <1>4, <1>5, ClaimSteps

\* The server's threads, with their separate tests and writes, implement the registry
\* of module Registry, also for connections that present one address.
THEOREM RegistryImplemented ==
  ASSUME SingleAddress
  PROVE  Spec => ImplementsRegistry
<1>1. Init => Membership!Init
  BY DEF Init, Membership!Init
<1>2. TypeOK /\ OwnInv /\ MemberInv /\ [Next]_vars
        => Membership!Next \/ UNCHANGED <<lobby_list, Claims, overwritten, told>>
  <2> SUFFICES ASSUME TypeOK, OwnInv, MemberInv, [Next]_vars
               PROVE  Membership!Next \/ UNCHANGED <<lobby_list, Claims, overwritten, told>>
    OBVIOUS
  <2>1. CASE \E c \in Conns : Handler(c)
    BY <2>1, HandlerRefines
  <2>2. CASE Shutdown \/ UNCHANGED vars \/ \E c \in Conns : Client(c)
    BY <2>2 DEF Shutdown, vars, Client, ClientSend, ClientRead, HangUp, handlerVars, Claims
  <2>3. ASSUME NEW c \in Conns, Accept(c)
        PROVE  UNCHANGED <<lobby_list, Claims, overwritten, told>>
    <3>1. pc[c] = "new" /\ pc' = [pc EXCEPT ![c] = "recv"] /\ pc \in [Conns -> Labels]
      BY <2>3 DEF Accept, Goto, TypeOK
    <3>2. \A d \in Conns : pc'[d] = "join set" <=> pc[d] = "join set"
      BY <3>1
    <3>3. UNCHANGED Claims
      BY <3>2 DEF Claims
    <3>4. QED
      BY <2>3, <3>3 DEF Accept
  <2>4. QED
    BY <2>1, <2>2, <2>3 DEF Next, Finished
<1>3. TypeOK /\ OwnInv /\ MemberInv /\ [Next]_vars => [Membership!Next]_(Membership!vars)
  BY <1>2 DEF Membership!vars, Claims
<1>4. QED
  BY <1>1, <1>3, TypeCorrect, OwnAddress, Members, PTL
     DEF Spec, ImplementsRegistry, Membership!Spec
=============================================================================
