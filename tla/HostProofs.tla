----------------------------- MODULE HostProofs -----------------------------
(***************************************************************************)
(* Theorems about the parts of a client's process: the adapter, for any    *)
(* ring and any packets; IpPacket, for every packet and every content of   *)
(* memory; and Addresses, for every set of machines and serials.           *)
(***************************************************************************)
EXTENDS Adapter, IpPacket, Addresses, SequenceTheorems, TLAPS

-----------------------------------------------------------------------------
(* The adapter. *)

readerVars == <<rx, held, listener, handled, arrived>>
sendVars == <<tx, sender, injected>>

\* The types of the sequences, which the arguments below need.
SeqTypes ==
  /\ rx \in Seq(Packets) /\ held \in Seq(Packets) /\ handled \in Seq(Packets)
  /\ arrived \in Seq(Packets) /\ tx \in Seq(Slot) /\ injected \in Seq(Slot)

\* What a slot is while sendPacket is between its calls.
SlotsInv ==
  /\ \A i \in 1 .. Len(tx) : tx[i].sent => tx[i].filled
  /\ sender \in {"copy", "send"} => Len(tx) > 0 /\ ~tx[Len(tx)].sent
  /\ sender = "send" => tx[Len(tx)].filled

\* No thread runs before main() has started it.
StageInv ==
  main \in {"initialize", "adapter", "index", "session", "configure", "start"}
    => listener = "off" /\ sender = "off"

Inv == SeqTypes /\ ReadInOrder /\ SlotsInv /\ InjectedFilled /\ StageInv

-----------------------------------------------------------------------------
(* The reader.                                                             *)

\* A step that leaves the reader's variables alone keeps its invariant.
LEMMA ReaderFrame ==
  ASSUME ReadInOrder, UNCHANGED readerVars
  PROVE  ReadInOrder'
  BY DEF ReadInOrder, Pending, readerVars

\* An arrival goes to the end of the ring.
LEMMA ArriveStep ==
  ASSUME SeqTypes, ReadInOrder, Arrive
  PROVE  ReadInOrder' /\ rx' \in Seq(Packets) /\ arrived' \in Seq(Packets)
  <1>1. PICK p \in Packets : rx' = Append(rx, p) /\ arrived' = Append(arrived, p)
    BY DEF Arrive
  <1>2. Pending \in Seq(Packets)
    BY EmptySeq DEF Pending, SeqTypes
  <1>3. handled \o Pending \in Seq(Packets)
    BY <1>2, ConcatProperties DEF SeqTypes
  <1>4. arrived = (handled \o Pending) \o rx
    BY DEF ReadInOrder
  <1> DEFINE h == handled \o Pending
  <1>5. Append(h \o rx, p) = h \o Append(rx, p)
    <2>1. <<p>> \in Seq(Packets) /\ h \in Seq(Packets) /\ rx \in Seq(Packets)
      BY <1>3 DEF SeqTypes
    <2> HIDE DEF h
    <2>2. Append(h \o rx, p) = (h \o rx) \o <<p>> /\ Append(rx, p) = rx \o <<p>>
      BY <2>1, ConcatProperties
    <2> QED
      BY <2>1, <2>2, ConcatAssociative
  <1>6. Pending' = Pending /\ UNCHANGED <<handled, held, listener>>
    BY DEF Arrive, Pending
  <1>7. arrived' = handled' \o Pending' \o rx'
    BY <1>1, <1>4, <1>5, <1>6
  <1> QED
    BY <1>1, <1>6, <1>7, AppendProperties DEF ReadInOrder, SeqTypes

\* The reader takes the head of the ring, and holds nothing else.
LEMMA ReceiveStep ==
  ASSUME SeqTypes, ReadInOrder, Receive
  PROVE  ReadInOrder' /\ rx' \in Seq(Packets) /\ held' \in Seq(Packets)
  <1>1. CASE UNCHANGED readVars
    BY <1>1 DEF readVars, ReadInOrder, Pending, SeqTypes
  <1>2. CASE listener' \in {"wait", "ended"} /\ UNCHANGED <<rx, held, handled, arrived>>
    BY <1>2 DEF ReadInOrder, Pending, SeqTypes, Receive
  <1>3. CASE /\ rx # << >> /\ listener' = "callback" /\ held' = Append(held, Head(rx))
             /\ rx' = Tail(rx) /\ UNCHANGED <<handled, arrived>>
    <2>1. Len(held) = 0 /\ Pending = << >>
      BY DEF Receive, ReadInOrder, Pending
    <2>2. held = << >>
      BY <2>1, EmptySeq DEF SeqTypes
    <2>3. Head(rx) \in Packets /\ Tail(rx) \in Seq(Packets) /\ rx = <<Head(rx)>> \o Tail(rx)
      BY <1>3, HeadTailProperties, HeadTailAppend DEF SeqTypes
    <2>4. held' = <<Head(rx)>>
      BY <1>3, <2>2
    <2>5. Pending' = <<Head(rx)>>
      BY <1>3, <2>4 DEF Pending
    <2>6. handled \o << >> = handled
      BY ConcatEmptySeq DEF SeqTypes
    <2>7. arrived = handled \o (<<Head(rx)>> \o Tail(rx))
      BY <2>1, <2>3, <2>6 DEF ReadInOrder
    <2>8. handled \o (<<Head(rx)>> \o Tail(rx)) = handled \o <<Head(rx)>> \o Tail(rx)
      <3>1. <<Head(rx)>> \in Seq(Packets)
        BY <2>3
      <3> QED
        BY <2>3, <3>1, ConcatAssociative DEF SeqTypes
    <2>9. held' \in Seq(Packets) /\ Len(held') = 1
      BY <2>3, <2>4
    <2> QED
      BY <1>3, <2>3, <2>5, <2>7, <2>8, <2>9 DEF ReadInOrder
  <1> QED
    BY <1>1, <1>2, <1>3 DEF Receive, readVars

\* The packet handed to the callback joins those it has finished with.
LEMMA CallbackStep ==
  ASSUME SeqTypes, ReadInOrder, Callback
  PROVE  ReadInOrder' /\ handled' \in Seq(Packets)
  <1>1. listener = "callback" /\ Len(held) = 1 /\ Pending = held
    BY DEF Callback, ReadInOrder, Pending
  <1>2. held = <<held[1]>> /\ held[1] \in Packets
    <2>1. held[1] \in Packets
      <3>1. held \in Seq(Packets) /\ 1 \in 1 .. Len(held)
        BY <1>1 DEF SeqTypes
      <3>2. held \in [1 .. Len(held) -> Packets]
        BY <3>1, LenProperties
      <3> QED
        BY <3>1, <3>2
    <2>2. <<held[1]>> \in Seq(Packets) /\ Len(<<held[1]>>) = 1 /\ <<held[1]>>[1] = held[1]
      BY <2>1
    <2>3. \A i \in 1 .. Len(held) : held[i] = <<held[1]>>[i]
      BY <1>1, <2>2
    <2> QED
      BY <1>1, <2>1, <2>2, <2>3, SeqEqual DEF SeqTypes
  <1>3. CASE UNCHANGED <<listener, handled>>
    BY <1>3, ReaderFrame DEF Callback, readerVars, SeqTypes
  <1>4. CASE listener' = "release" /\ handled' = Append(handled, held[1])
    <2> DEFINE p == held[1]
    <2>0. handled \in Seq(Packets) /\ p \in Packets /\ held = <<p>>
      BY <1>2 DEF SeqTypes
    <2>1. handled' = handled \o held /\ handled' \in Seq(Packets)
      <3>1. handled' = Append(handled, p)
        BY <1>4
      <3> HIDE DEF p
      <3>2. Append(handled, p) = handled \o <<p>> /\ Append(handled, p) \in Seq(Packets)
        BY <2>0, AppendIsConcat, AppendProperties
      <3> QED
        BY <2>0, <3>1, <3>2
    <2>2. Pending' = << >>
      BY <1>4 DEF Pending
    <2>3. handled' \o << >> = handled'
      BY <2>1, ConcatEmptySeq
    <2> QED
      BY <1>1, <1>4, <2>1, <2>2, <2>3 DEF ReadInOrder, Callback
  <1> QED
    BY <1>3, <1>4 DEF Callback

\* What was held is released, and nothing is pending.
LEMMA ReleaseStep ==
  ASSUME SeqTypes, ReadInOrder, Release
  PROVE  ReadInOrder' /\ held' \in Seq(Packets)
  <1>1. Len(held) = 1 /\ held # << >>
    BY DEF Release, Listen, ReadInOrder
  <1>2. held' \in Seq(Packets) /\ Len(held') = 0
    BY <1>1, HeadTailProperties DEF Release, SeqTypes
  <1>3. Pending = << >> /\ Pending' = << >>
    BY DEF Release, Listen, Pending
  <1> QED
    BY <1>2, <1>3 DEF ReadInOrder, Release, Listen

-----------------------------------------------------------------------------
(* The writer.                                                             *)

\* A new slot is neither filled nor sent.
LEMMA AllocateStep ==
  ASSUME SeqTypes, SlotsInv, Allocate
  PROVE  SlotsInv' /\ tx' \in Seq(Slot)
  <1>1. CASE UNCHANGED <<tx, sender>>
    BY <1>1 DEF SlotsInv, SeqTypes
  <1>2. CASE sender' = "copy" /\ ~UNCHANGED <<tx, sender>>
    <2>1. PICK p \in Packets :
             tx' = Append(tx, [packet |-> p, filled |-> FALSE, sent |-> FALSE])
      BY <1>2 DEF Allocate
    <2> DEFINE s == [packet |-> p, filled |-> FALSE, sent |-> FALSE]
    <2>2. s \in Slot /\ s.sent = FALSE
      BY DEF Slot
    <2> HIDE DEF s
    <2>3. /\ tx' \in Seq(Slot) /\ Len(tx') = Len(tx) + 1 /\ tx'[Len(tx) + 1] = s
          /\ \A i \in 1 .. Len(tx) : tx'[i] = tx[i]
      BY <2>1, <2>2, AppendProperties DEF SeqTypes, s
    <2>4. Len(tx) \in Nat
      BY DEF SeqTypes
    <2>5. \A i \in 1 .. Len(tx') : tx'[i].sent => tx'[i].filled
      <3> SUFFICES ASSUME NEW i \in 1 .. Len(tx'), tx'[i].sent PROVE tx'[i].filled
        OBVIOUS
      <3>1. i \in 1 .. Len(tx)
        BY <2>2, <2>3, <2>4
      <3> QED
        BY <2>3, <3>1 DEF SlotsInv
    <2>6. Len(tx') > 0 /\ ~tx'[Len(tx')].sent
      BY <2>2, <2>3, <2>4
    <2> QED
      BY <1>2, <2>3, <2>5, <2>6 DEF SlotsInv
  <1> QED
    BY <1>1, <1>2 DEF Allocate

\* The newest slot is filled.
LEMMA CopyStep ==
  ASSUME SeqTypes, SlotsInv, Copy
  PROVE  SlotsInv' /\ tx' \in Seq(Slot)
  <1>1. Len(tx) > 0 /\ Len(tx) \in 1 .. Len(tx)
    BY DEF Copy, SlotsInv, SeqTypes
  <1>2. tx' = [tx EXCEPT ![Len(tx)] = [@ EXCEPT !.filled = TRUE]]
    BY DEF Copy, MarkNewest
  <1> DEFINE s == [tx[Len(tx)] EXCEPT !.filled = TRUE]
  <1>3. tx[Len(tx)] \in Slot
    BY <1>1, ElementOfSeq DEF SeqTypes
  <1>4. s \in Slot /\ s.filled = TRUE /\ s.sent = tx[Len(tx)].sent
    BY <1>3 DEF Slot
  <1> HIDE DEF s
  <1>5. /\ tx' \in Seq(Slot) /\ Len(tx') = Len(tx)
        /\ \A i \in 1 .. Len(tx) : tx'[i] = IF i = Len(tx) THEN s ELSE tx[i]
    BY <1>1, <1>2, <1>4, ExceptSeq DEF SeqTypes, s
  <1> QED
    BY <1>1, <1>4, <1>5 DEF SlotsInv, Copy

\* A slot is sent after it was filled.
LEMMA SendPacketStep ==
  ASSUME SeqTypes, SlotsInv, SendPacket
  PROVE  SlotsInv' /\ tx' \in Seq(Slot)
  <1>1. Len(tx) > 0 /\ Len(tx) \in 1 .. Len(tx) /\ tx[Len(tx)].filled
    BY DEF SendPacket, SlotsInv, SeqTypes
  <1>2. tx' = [tx EXCEPT ![Len(tx)] = [@ EXCEPT !.sent = TRUE]]
    BY DEF SendPacket, MarkNewest
  <1> DEFINE s == [tx[Len(tx)] EXCEPT !.sent = TRUE]
  <1>3. tx[Len(tx)] \in Slot
    BY <1>1, ElementOfSeq DEF SeqTypes
  <1>4. s \in Slot /\ s.filled
    BY <1>1, <1>3 DEF Slot
  <1> HIDE DEF s
  <1>5. /\ tx' \in Seq(Slot) /\ Len(tx') = Len(tx)
        /\ \A i \in 1 .. Len(tx) : tx'[i] = IF i = Len(tx) THEN s ELSE tx[i]
    BY <1>1, <1>2, <1>4, ExceptSeq DEF SeqTypes, s
  <1> QED
    BY <1>1, <1>4, <1>5 DEF SlotsInv, SendPacket

\* The driver takes the oldest slot, which was sent and therefore filled.
LEMMA InjectStep ==
  ASSUME SeqTypes, SlotsInv, InjectedFilled, Inject
  PROVE  SlotsInv' /\ InjectedFilled' /\ tx' \in Seq(Slot) /\ injected' \in Seq(Slot)
  <1>1. tx # << >> /\ tx[1].sent /\ Head(tx) = tx[1]
    BY DEF Inject
  <1>2. /\ Len(tx) > 0 /\ tx[1] \in Slot /\ tx' \in Seq(Slot) /\ Len(tx') = Len(tx) - 1
        /\ \A i \in 1 .. Len(tx') : tx'[i] = tx[i + 1]
    BY <1>1, HeadTailProperties, EmptySeq DEF Inject, SeqTypes
  <1>3. tx[1].filled
    BY <1>1, <1>2 DEF SlotsInv, SeqTypes
  <1>4. /\ injected' \in Seq(Slot) /\ Len(injected') = Len(injected) + 1
        /\ injected'[Len(injected) + 1] = tx[1]
        /\ \A i \in 1 .. Len(injected) : injected'[i] = injected[i]
    BY <1>1, <1>2, AppendProperties DEF Inject, SeqTypes
  <1>5. InjectedFilled'
    <2>1. DOMAIN injected = 1 .. Len(injected) /\ DOMAIN injected' = 1 .. Len(injected')
          /\ Len(injected) \in Nat
      BY <1>4, LenProperties DEF SeqTypes
    <2> SUFFICES ASSUME NEW i \in 1 .. Len(injected') PROVE injected'[i].filled
      BY <2>1 DEF InjectedFilled
    <2>2. CASE i = Len(injected) + 1
      BY <1>3, <1>4, <2>2
    <2>3. CASE i \in 1 .. Len(injected)
      BY <1>4, <2>1, <2>3 DEF InjectedFilled
    <2> QED
      BY <1>4, <2>1, <2>2, <2>3
  <1>6. sender \in {"copy", "send"} => Len(tx) > 1
    BY <1>1, <1>2 DEF SlotsInv, SeqTypes
  <1>7. SlotsInv'
    <2>1. sender' = sender
      BY DEF Inject
    <2>2. Len(tx) \in Nat /\ Len(tx') \in Nat
      BY <1>2 DEF SeqTypes
    <2>3. \A i \in 1 .. Len(tx') : i + 1 \in 1 .. Len(tx)
      BY <1>2, <2>2
    <2>4. Len(tx) > 1 => tx'[Len(tx')] = tx[Len(tx)] /\ Len(tx') > 0
      BY <1>2, <2>2
    <2> QED
      BY <1>2, <1>6, <2>1, <2>3, <2>4 DEF SlotsInv
  <1> QED
    BY <1>2, <1>4, <1>5, <1>7

-----------------------------------------------------------------------------
(* The theorem.                                                            *)

\* A step of the constructor, of main() or of the destructor touches neither side.
LEMMA BootStep ==
  ASSUME Inv, Constructing \/ Destroy
  PROVE  Inv'
  <1>1. CASE StartListening
    <2>1. listener = "off" /\ sender = "off"
      BY <1>1 DEF Inv, StageInv, StartListening, Boot
    <2> QED
      BY <1>1, <2>1 DEF StartListening, Boot, Inv, SeqTypes, ReadInOrder, Pending, SlotsInv,
                       InjectedFilled, StageInv
  <1>2. CASE ~StartListening
    <2>1. UNCHANGED <<rx, held, listener, handled, arrived, tx, sender, injected>>
      BY <1>2 DEF Constructing, Initialize, CreateAdapter, GetAdapterIndex, StartSession,
                  ConfigurationIP, Destroy, readVars, writeVars
    <2>2. main' = "exited" \/ main \in {"initialize", "adapter", "index", "session", "configure"}
      BY <1>2 DEF Constructing, Initialize, CreateAdapter, GetAdapterIndex, StartSession,
                  ConfigurationIP, Destroy, Boot
    <2>3. StageInv'
      BY <2>1, <2>2 DEF Inv, StageInv
    <2>4. ReadInOrder'
      BY <2>1, ReaderFrame DEF Inv, readerVars
    <2>5. SeqTypes' /\ SlotsInv' /\ InjectedFilled'
      BY <2>1 DEF Inv, SeqTypes, SlotsInv, InjectedFilled
    <2> QED
      BY <2>3, <2>4, <2>5 DEF Inv
  <1> QED
    BY <1>1, <1>2

\* What a step of one side leaves alone.
LEMMA OtherSide ==
  ASSUME Inv
  PROVE  /\ UNCHANGED readerVars => ReadInOrder'
         /\ UNCHANGED sendVars => SlotsInv' /\ InjectedFilled'
  BY ReaderFrame DEF Inv, SlotsInv, InjectedFilled, sendVars

\* The callback sees the host's packets once and in order, and no slot is injected that was
\* not filled.
LEMMA AdapterInv == Spec => []Inv
<1>1. Init => Inv
  <2> SUFFICES ASSUME Init PROVE Inv
    OBVIOUS
  <2>1. SeqTypes
    BY EmptySeq DEF Init, SeqTypes
  <2>2. << >> \o << >> = << >> /\ Len(<< >>) = 0
    BY ConcatEmptySeq, EmptySeq
  <2>3. ReadInOrder
    BY <2>2 DEF Init, ReadInOrder, Pending
  <2> QED
    BY <2>1, <2>2, <2>3 DEF Init, Inv, SlotsInv, InjectedFilled, StageInv
<1>2. Inv /\ [Next]_vars => Inv'
  <2> SUFFICES ASSUME Inv, [Next]_vars PROVE Inv'
    OBVIOUS
  <2> USE DEF Inv
  <2>1. CASE Constructing \/ Destroy
    BY <2>1, BootStep
  <2>2. CASE Arrive
    <3>1. UNCHANGED sendVars /\ UNCHANGED <<held, handled, main, listener, sender>>
      BY <2>2 DEF Arrive, sendVars, writeVars, bootVars
    <3> QED
      BY <2>2, <3>1, ArriveStep, OtherSide DEF SeqTypes, sendVars, StageInv
  <2>3. CASE Inject
    <3>1. UNCHANGED readerVars /\ UNCHANGED <<main, sender>>
      BY <2>3 DEF Inject, readerVars, readVars, bootVars
    <3> QED
      BY <2>3, <3>1, InjectStep, OtherSide DEF SeqTypes, readerVars, StageInv
  <2>4. CASE Receive
    <3>1. UNCHANGED sendVars /\ UNCHANGED <<handled, arrived>>
      BY <2>4 DEF Receive, sendVars, writeVars, readVars
    <3>2. StageInv'
      BY <2>4 DEF Receive, StageInv, writeVars, bootVars, Crash
    <3> QED
      BY <2>4, <3>1, <3>2, ReceiveStep, OtherSide DEF SeqTypes, sendVars
  <2>5. CASE Callback
    <3>1. UNCHANGED sendVars /\ UNCHANGED <<rx, held, arrived>>
      BY <2>5 DEF Callback, sendVars, writeVars
    <3>2. StageInv'
      BY <2>5 DEF Callback, StageInv, writeVars, bootVars, Crash
    <3> QED
      BY <2>5, <3>1, <3>2, CallbackStep, OtherSide DEF SeqTypes, sendVars
  <2>6. CASE Release
    <3>1. UNCHANGED sendVars /\ UNCHANGED <<rx, handled, arrived>>
      BY <2>6 DEF Release, sendVars, writeVars
    <3>2. StageInv'
      BY <2>6 DEF Release, Listen, StageInv, writeVars, bootVars
    <3> QED
      BY <2>6, <3>1, <3>2, ReleaseStep, OtherSide DEF SeqTypes, sendVars
  <2>7. CASE Wait
    <3>1. UNCHANGED sendVars /\ UNCHANGED <<rx, held, handled, arrived>>
      BY <2>7 DEF Wait, sendVars, writeVars
    <3>2. StageInv'
      BY <2>7 DEF Wait, Listen, StageInv, writeVars, bootVars
    <3>3. ReadInOrder'
      BY <2>7, <3>1 DEF Wait, Listen, ReadInOrder, Pending
    <3> QED
      BY <3>1, <3>2, <3>3, OtherSide DEF SeqTypes, sendVars
  <2>8. CASE Allocate \/ Copy \/ SendPacket
    <3>1. UNCHANGED readerVars /\ UNCHANGED injected
      BY <2>8 DEF Allocate, Copy, SendPacket, readerVars, readVars
    <3>2. SlotsInv' /\ tx' \in Seq(Slot)
      BY <2>8, AllocateStep, CopyStep, SendPacketStep
    <3>3. StageInv'
      BY <2>8 DEF Allocate, Copy, SendPacket, StageInv, readVars, bootVars, Crash
    <3>4. InjectedFilled'
      BY <3>1 DEF InjectedFilled
    <3> QED
      BY <3>1, <3>2, <3>3, <3>4, OtherSide DEF SeqTypes, readerVars
  <2>9. CASE UNCHANGED vars
    BY <2>9 DEF vars, SeqTypes, ReadInOrder, Pending, SlotsInv, InjectedFilled, StageInv
  <2> QED
    BY <2>1, <2>2, <2>3, <2>4, <2>5, <2>6, <2>7, <2>8, <2>9 DEF Next, Listening, Sending
<1> QED
  BY <1>1, <1>2, PTL DEF Spec

\* The callback sees every packet of the host once and in order.
THEOREM PacketsReadInOrder == Spec => []ReadInOrder
  <1>1. Inv => ReadInOrder
    BY DEF Inv
  <1> QED
    BY <1>1, AdapterInv, PTL

\* The driver never takes a slot that was not filled.
THEOREM SlotsInjectedFilled == Spec => []InjectedFilled
  <1>1. Inv => InjectedFilled
    BY DEF Inv
  <1> QED
    BY <1>1, AdapterInv, PTL

-----------------------------------------------------------------------------
(* The types of the other variables, and the room in the rings.            *)

ScalarTypes ==
  /\ main \in {"initialize", "adapter", "index", "session", "configure", "start", "menu",
               "thrown", "crashed", "exited"}
  /\ adapter \in {"null", "open", "closed"}
  /\ session \in {"unset", "null", "open"}
  /\ index \in BOOLEAN
  /\ addressed \in BOOLEAN
  /\ event \in BOOLEAN
  /\ listener \in {"off", "receive", "callback", "release", "wait", "ended"}
  /\ sender \in {"off", "idle", "copy", "send"}

Room == Len(rx) + Len(held) <= RingSlots /\ Len(tx) <= RingSlots

LEMMA ScalarStep ==
  ASSUME ScalarTypes, [Next]_vars
  PROVE  ScalarTypes'
<1> USE DEF ScalarTypes, Boot, Listen, Crash, readVars, writeVars, bootVars
<1>1. CASE Constructing \/ Destroy
  <2>1. ASSUME Initialize \/ CreateAdapter \/ GetAdapterIndex PROVE ScalarTypes'
    BY <2>1 DEF Initialize, CreateAdapter, GetAdapterIndex
  <2>2. ASSUME StartSession \/ ConfigurationIP \/ StartListening \/ Destroy PROVE ScalarTypes'
    BY <2>2 DEF StartSession, ConfigurationIP, StartListening, Destroy
  <2> QED
    BY <1>1, <2>1, <2>2 DEF Constructing
<1>2. CASE Arrive \/ Inject
  BY <1>2 DEF Arrive, Inject
<1>3. CASE Listening
  BY <1>3 DEF Listening, Receive, Callback, Release, Wait
<1>4. CASE Sending
  BY <1>4 DEF Sending, Allocate, Copy, SendPacket
<1>5. CASE UNCHANGED vars
  BY <1>5 DEF vars
<1> QED
  BY <1>1, <1>2, <1>3, <1>4, <1>5 DEF Next

\* A packet moves from one sequence of the reader's ring to the other, or leaves it; and a slot
\* is taken only where there is one.
LEMMA RoomStep ==
  ASSUME Inv, Room, [Next]_vars
  PROVE  Room'
<1>1. SeqTypes /\ Len(rx) \in Nat /\ Len(held) \in Nat /\ Len(tx) \in Nat /\ RingSlots \in Nat
  BY AdapterAssumption, LenProperties DEF Inv, SeqTypes
<1>2. ASSUME UNCHANGED <<rx, held, tx>> PROVE Room'
  BY <1>2 DEF Room
<1>3. CASE Constructing \/ Destroy
  BY <1>2, <1>3 DEF Constructing, Initialize, CreateAdapter, GetAdapterIndex, StartSession,
                    ConfigurationIP, StartListening, Destroy, readVars, writeVars
<1>4. CASE Arrive
  <2>1. PICK p \in Packets : rx' = Append(rx, p)
    BY <1>4 DEF Arrive
  <2>2. Len(rx') = Len(rx) + 1 /\ UNCHANGED <<held, tx>>
    BY <1>1, <1>4, <2>1, AppendProperties DEF Arrive, SeqTypes, writeVars
  <2> QED
    BY <1>1, <1>4, <2>2 DEF Room, Arrive
<1>5. CASE Inject
  <2>1. Len(tx') = Len(tx) - 1 /\ UNCHANGED <<rx, held>>
    BY <1>1, <1>5, HeadTailProperties DEF Inject, SeqTypes, readVars
  <2> QED
    BY <1>1, <2>1 DEF Room
<1>6. CASE Receive
  <2>1. CASE UNCHANGED <<rx, held>>
    BY <1>2, <1>6, <2>1 DEF Receive, writeVars
  <2>2. CASE rx # << >> /\ held' = Append(held, Head(rx)) /\ rx' = Tail(rx)
    <3>1. Head(rx) \in Packets /\ Len(rx') = Len(rx) - 1
      BY <1>1, <2>2, HeadTailProperties DEF SeqTypes
    <3>2. Len(held') = Len(held) + 1 /\ tx' = tx
      BY <1>1, <1>6, <2>2, <3>1, AppendProperties DEF SeqTypes, Receive, writeVars
    <3> QED
      BY <1>1, <3>1, <3>2 DEF Room
  <2> QED
    BY <1>6, <2>1, <2>2 DEF Receive, readVars
<1>7. CASE Callback \/ Wait
  BY <1>2, <1>7 DEF Callback, Wait, writeVars
<1>8. CASE Release
  <2>1. Len(held) = 1
    BY <1>8 DEF Release, Listen, Inv, ReadInOrder
  <2>2. held # << >> /\ held' = Tail(held) /\ UNCHANGED <<rx, tx>>
    BY <1>8, <2>1, EmptySeq DEF Release, writeVars
  <2>3. Len(held') = Len(held) - 1
    BY <1>1, <2>2, HeadTailProperties DEF SeqTypes
  <2> QED
    BY <1>1, <2>2, <2>3 DEF Room
<1>9. CASE Allocate
  <2>1. CASE tx' = tx
    BY <1>2, <1>9, <2>1 DEF Allocate, readVars
  <2>2. CASE Len(tx) < RingSlots /\ \E p \in Packets :
               tx' = Append(tx, [packet |-> p, filled |-> FALSE, sent |-> FALSE])
    <3>1. PICK p \in Packets : tx' = Append(tx, [packet |-> p, filled |-> FALSE, sent |-> FALSE])
      BY <2>2
    <3>2. [packet |-> p, filled |-> FALSE, sent |-> FALSE] \in Slot
      BY DEF Slot
    <3>3. Len(tx') = Len(tx) + 1 /\ UNCHANGED <<rx, held>>
      BY <1>1, <1>9, <3>1, <3>2, AppendProperties DEF SeqTypes, Allocate, readVars
    <3> QED
      BY <1>1, <2>2, <3>3 DEF Room
  <2> QED
    BY <1>9, <2>1, <2>2 DEF Allocate
<1>10. CASE Copy \/ SendPacket
  <2>1. \E field \in {"filled", "sent"} : MarkNewest(field)
    BY <1>10 DEF Copy, SendPacket
  <2>2. PICK field : tx' = [tx EXCEPT ![Len(tx)][field] = TRUE]
    BY <2>1 DEF MarkNewest
  <2>3. UNCHANGED <<rx, held>> /\ tx' \in Seq(Slot)
    BY <1>10, CopyStep, SendPacketStep DEF Copy, SendPacket, readVars, Inv
  <2>4. DOMAIN tx' = DOMAIN tx
    BY <2>2
  <2>5. Len(tx') = Len(tx)
    BY <1>1, <2>3, <2>4, LenProperties DEF SeqTypes
  <2> QED
    BY <2>3, <2>5 DEF Room
<1>11. CASE UNCHANGED vars
  BY <1>2, <1>11 DEF vars
<1> QED
  BY <1>3, <1>4, <1>5, <1>6, <1>7, <1>8, <1>9, <1>10, <1>11 DEF Next, Listening, Sending

\* Every variable keeps its type, and no ring holds more than it has slots.
THEOREM AdapterTypeCorrect == Spec => []TypeOK
<1>1. Init => ScalarTypes /\ Room
  <2> SUFFICES ASSUME Init PROVE ScalarTypes /\ Room
    OBVIOUS
  <2>1. ScalarTypes
    BY DEF Init, ScalarTypes
  <2>2. Len(rx) = 0 /\ Len(held) = 0 /\ Len(tx) = 0
    BY EmptySeq DEF Init
  <2>3. Room
    BY <2>2, AdapterAssumption DEF Room
  <2> QED
    BY <2>1, <2>3
<1>2. Inv /\ ScalarTypes /\ Room /\ [Next]_vars => ScalarTypes' /\ Room'
  BY ScalarStep, RoomStep
<1>3. Inv /\ ScalarTypes /\ Room => TypeOK
  BY DEF Inv, SeqTypes, ScalarTypes, Room, TypeOK
<1> QED
  BY <1>1, <1>2, <1>3, AdapterInv, PTL DEF Spec

-----------------------------------------------------------------------------
(* The arithmetic of the fields.                                           *)

\* The two halves of a byte.
LEMMA Nibbles ==
  ASSUME NEW b \in Byte
  PROVE  b % 16 \in 0 .. 15 /\ b \div 16 \in 0 .. 15
  BY DEF Byte

\* Two bytes make a word.
LEMMA TwoBytes ==
  ASSUME NEW b \in Byte, NEW c \in Byte
  PROVE  256 * b + c \in Word
  BY PacketAssumption DEF Byte, Word

\* Two words hold the lengths of all headers.
LEMMA WordsLarge == Words \in Nat /\ Words > 255
  <1>1. 0 \in Byte /\ 255 \in Byte
    BY DEF Byte
  <1>2. 256 * 0 + 255 < Words /\ Words \in Nat
    BY <1>1, PacketAssumption
  <1> QED
    BY <1>2

\* A 16-bit field holds a word, and the total length itself when it is small enough.
LEMMA LengthKept ==
  ASSUME NEW total \in Word
  PROVE  /\ PacketLength(total) \in Word
         /\ total + 14 < Words => PacketLength(total) = total + 14
  BY WordsLarge DEF Word, PacketLength

\* So does the length of the payload; it wraps only below zero.
LEMMA PayloadKept ==
  ASSUME NEW length \in Word, NEW eth \in {0, 14}, NEW ip \in 0 .. 60, NEW trans \in Word
  PROVE  /\ PayloadLength(length, eth, ip, trans) \in Word
         /\ eth + ip + trans <= length
              => PayloadLength(length, eth, ip, trans) = length - (eth + ip + trans)
  BY WordsLarge DEF Word, PayloadLength

-----------------------------------------------------------------------------
(* What the fields may hold.                                               *)

\* A byte read at an offset is a byte, and within the packet it is the packet's.
LEMMA ByteRead ==
  ASSUME NEW pkt \in Seq(Byte), NEW offset \in Nat
  PROVE  /\ At(pkt, offset) \subseteq Byte
         /\ offset < Len(pkt) => At(pkt, offset) = {pkt[offset + 1]}
  BY PacketAssumption DEF At

\* The header length is a multiple of four, at most 60.
LEMMA IhlRange ==
  ASSUME NEW pkt \in Seq(Byte), NEW ip \in Nat, NEW ihl \in Ihl(pkt, ip)
  PROVE  ihl \in 0 .. 15
  <1>1. PICK b \in Byte : ihl = b % 16
    BY ByteRead DEF Ihl
  <1> QED
    BY <1>1, Nibbles

\* The total length has 16 bits.
LEMMA TotalRange ==
  ASSUME NEW pkt \in Seq(Byte), NEW ip \in Nat, NEW total \in TotalLength(pkt, ip)
  PROVE  total \in Word
  <1>1. PICK b \in Byte, c \in Byte : total = 256 * b + c
    <2>1. ip + 2 \in Nat /\ ip + 3 \in Nat
      OBVIOUS
    <2> QED
      BY <2>1, ByteRead DEF TotalLength
  <1> QED
    BY <1>1, TwoBytes

\* So has the length of the transport header, written or not.
LEMMA TransportRange ==
  ASSUME NEW pkt \in Seq(Byte), NEW ip \in Nat, NEW protocol, NEW ihl \in 0 .. 15,
         NEW trans \in TransportLengths(pkt, ip, protocol, ihl)
  PROVE  trans \in Word
  <1>1. CASE protocol = 6
    <2>1. PICK b \in Byte : trans = (b \div 16) * 4
      <3>1. ip + HeaderLength(ihl) + 12 \in Nat
        BY DEF HeaderLength
      <3> QED
        BY <1>1, <3>1, ByteRead DEF TransportLengths, Offset
    <2>2. PICK h \in 0 .. 15 : h = b \div 16
      BY Nibbles
    <2>3. trans = h * 4
      BY <2>1, <2>2
    <2>4. trans \in 0 .. 255
      BY ONLY <2>3
    <2> QED
      BY <2>4, WordsLarge DEF Word
  <1>2. CASE protocol = 17
    BY <1>2, WordsLarge DEF TransportLengths, Word
  <1>3. CASE protocol # 6 /\ protocol # 17
    <2>1. PICK b \in Byte, c \in Byte : trans = 256 * b + c
      BY <1>3, PacketAssumption DEF TransportLengths
    <2> QED
      BY <2>1, TwoBytes
  <1> QED
    BY <1>1, <1>2, <1>3

\* Every field keeps its width, whatever the packet and the memory behind it hold.
THEOREM FieldsTyped == ParserSpec => []FieldsOK
<1>1. ParserInit => FieldsOK
  <2> SUFFICES ASSUME ParserInit PROVE FieldsOK
    OBVIOUS
  <2>1. raw_pkt \in Seq(Byte)
    <3>1. << >> \in Seq(Byte) /\ RawPackets \subseteq Seq(Byte)
      BY PacketAssumption
    <3> QED
      BY <3>1 DEF ParserInit
  <2> QED
    BY <2>1, WordsLarge DEF ParserInit, FieldsOK, Word
<1>2. FieldsOK /\ [ParserNext]_parserVars => FieldsOK'
  <2> SUFFICES ASSUME FieldsOK, [ParserNext]_parserVars PROVE FieldsOK'
    OBVIOUS
  <2>1. ASSUME NEW eth \in {0, 1}, Create(eth) PROVE FieldsOK'
    <3> DEFINE E == 14 * eth
    <3>1. raw_pkt \in Seq(Byte) /\ raw_pkt' = raw_pkt /\ E \in {0, 14}
      BY <2>1 DEF FieldsOK, Create
    <3>2. ETHERNET_HEADER_SIZE' = E
      BY <2>1 DEF Create
    <3>3. CASE raw_pkt = << >>
      BY <2>1, <3>1, <3>2, <3>3 DEF Create, fields, FieldsOK
    <3>4. CASE raw_pkt # << >>
      <4>1. PICK ihl \in Ihl(raw_pkt, E), total \in TotalLength(raw_pkt, E),
                 protocol \in Protocol(raw_pkt, E) :
              /\ ip_header_length' = HeaderLength(ihl)
              /\ packet_length' = PacketLength(total)
              /\ \/ /\ state' = "invalid"
                    /\ UNCHANGED <<trans_header_length, payload_length, dst_ip>>
                 \/ /\ trans_header_length' \in TransportLengths(raw_pkt, E, protocol, ihl)
                    /\ payload_length' = PayloadLength(packet_length', E,
                                           ip_header_length', trans_header_length')
                    /\ state' = "parsed"
        BY <2>1, <3>4 DEF Create
      <4>2. ihl \in 0 .. 15 /\ total \in Word
        BY <3>1, IhlRange, TotalRange
      <4>3. ip_header_length' \in 0 .. 60
        BY <4>1, <4>2 DEF HeaderLength
      <4>4. packet_length' \in Word
        BY <4>1, <4>2, LengthKept
      <4>5. CASE state' = "invalid" /\ UNCHANGED <<trans_header_length, payload_length, dst_ip>>
        BY <3>1, <3>2, <4>3, <4>4, <4>5 DEF FieldsOK
      <4>6. CASE /\ trans_header_length' \in TransportLengths(raw_pkt, E, protocol, ihl)
                 /\ payload_length' = PayloadLength(packet_length', E,
                                        ip_header_length', trans_header_length')
                 /\ state' = "parsed"
        <5>1. trans_header_length' \in Word
          BY <3>1, <4>2, <4>6, TransportRange
        <5>2. payload_length' \in Word
          BY <3>1, <4>3, <4>4, <4>6, <5>1, PayloadKept
        <5> QED
          BY <3>1, <3>2, <4>3, <4>4, <4>6, <5>1, <5>2 DEF FieldsOK
      <4> QED
        BY <4>1, <4>5, <4>6
    <3> QED
      BY <3>3, <3>4
  <2>2. CASE UNCHANGED parserVars
    BY <2>2 DEF parserVars, fields, FieldsOK
  <2> QED
    BY <2>1, <2>2 DEF ParserNext, ParseFromAdapter, ParseFrame
<1> QED
  BY <1>1, <1>2, PTL DEF ParserSpec

-----------------------------------------------------------------------------
(* The payload.                                                            *)

\* The fixed part of a TCP header lies within a packet that holds 20 bytes behind its IP
\* header.
LEMMA Within ==
  ASSUME NEW e \in Nat, NEW k \in Nat, NEW l \in Nat, e + k + 20 <= l
  PROVE  /\ e + k + 12 \in Nat
         /\ e + k + 12 < l
         /\ e + k + 13 \in 1 .. l
  OBVIOUS

\* A step that parses leaves the packet as it was and starts from a new object.
LEMMA ParsedFields ==
  ASSUME FieldsOK, NEW eth \in {0, 1}, Create(eth), PayloadFound
  PROVE  PayloadFound'
  <1> SUFFICES ASSUME state' = "parsed", WholePacket', IpTotal' + 14 < Words
               PROVE  /\ ip_header_length' + trans_header_length'
                           = IpHeader' + TransportHeader'
                      /\ ip_header_length' + trans_header_length' + payload_length'
                           = IpTotal' + 14 - Ip'
    BY DEF PayloadFound
  <1> DEFINE E == 14 * eth
  <1>1. raw_pkt \in Seq(Byte) /\ raw_pkt' = raw_pkt /\ E \in {0, 14} /\ Ip' = E
    BY DEF FieldsOK, Create, Ip
  <1>0. E \in Nat /\ Len(raw_pkt) \in Nat
    BY <1>1
  <1>2. /\ Len(raw_pkt) > E + 20
        /\ IpHeader' = 4 * (raw_pkt[E + 1] % 16)
        /\ IpTotal' = 256 * raw_pkt[E + 3] + raw_pkt[E + 4]
        /\ IpProtocol' = raw_pkt[E + 10]
        /\ IpHeader' >= 20
        /\ Len(raw_pkt) >= E + IpHeader' + 20
        /\ IpProtocol' \in {6, 17}
        /\ IpTotal' >= IpHeader' + TransportHeader'
    BY <1>1 DEF WholePacket, IpHeader, IpTotal, IpProtocol
  <1>3. raw_pkt[E + 1] \in Byte /\ raw_pkt[E + 3] \in Byte /\ raw_pkt[E + 4] \in Byte
    <2>1. raw_pkt \in Seq(Byte) /\ E \in Nat /\ Len(raw_pkt) > E + 20 /\ Len(raw_pkt) \in Nat
      BY <1>0, <1>1, <1>2
    <2>2. E + 1 \in 1 .. Len(raw_pkt) /\ E + 3 \in 1 .. Len(raw_pkt) /\ E + 4 \in 1 .. Len(raw_pkt)
      BY ONLY <2>1
    <2> HIDE DEF E
    <2> QED
      BY ONLY <2>1, <2>2
  <1>4. PICK ihl \in Ihl(raw_pkt, E), total \in TotalLength(raw_pkt, E),
             protocol \in Protocol(raw_pkt, E) :
          /\ ip_header_length' = HeaderLength(ihl)
          /\ packet_length' = PacketLength(total)
          /\ trans_header_length' \in TransportLengths(raw_pkt, E, protocol, ihl)
          /\ payload_length' = PayloadLength(packet_length', E,
                                 ip_header_length', trans_header_length')
    <2>1. raw_pkt # << >>
      BY <1>1, <1>2
    <2> QED
      BY <2>1 DEF Create
  <1> HIDE DEF E
  <1>12. E + 20 < Len(raw_pkt)
    BY <1>0, <1>2
  <1>5. ihl = raw_pkt[E + 1] % 16 /\ ihl \in 0 .. 15 /\ ip_header_length' = IpHeader'
    <2>1. At(raw_pkt, E) = {raw_pkt[E + 1]}
      BY <1>0, <1>1, <1>12, ByteRead
    <2>2. ihl = raw_pkt[E + 1] % 16
      BY <2>1, <1>4 DEF Ihl
    <2>3. ihl \in 0 .. 15
      BY <1>3, <2>2, Nibbles
    <2> QED
      BY <1>2, <1>4, <2>2, <2>3 DEF HeaderLength
  <1>6. total = IpTotal' /\ total \in Word
    <2>1. At(raw_pkt, E + 2) = {raw_pkt[E + 3]} /\ At(raw_pkt, E + 3) = {raw_pkt[E + 4]}
      <3>1. E + 2 \in Nat /\ E + 3 \in Nat /\ E + 2 < Len(raw_pkt) /\ E + 3 < Len(raw_pkt)
        BY <1>0, <1>12
      <3>2. (E + 2) + 1 = E + 3 /\ (E + 3) + 1 = E + 4
        BY <1>0
      <3> QED
        BY <1>1, <3>1, <3>2, ByteRead
    <2>2. total = 256 * raw_pkt[E + 3] + raw_pkt[E + 4]
      BY <1>4, <2>1 DEF TotalLength
    <2> QED
      BY <1>1, <1>2, <1>4, <2>2, TotalRange
  <1>7. protocol = IpProtocol'
    <2>1. At(raw_pkt, E + 9) = {raw_pkt[E + 10]}
      <3>1. E + 9 \in Nat /\ E + 9 < Len(raw_pkt) /\ (E + 9) + 1 = E + 10
        BY <1>0, <1>12
      <3> QED
        BY <1>1, <3>1, ByteRead
    <2> QED
      BY <1>2, <1>4, <2>1 DEF Protocol
  <1>8. trans_header_length' = TransportHeader' /\ trans_header_length' \in Word
    <2>1. ihl \in 0 .. 15
      BY <1>1, <1>4, IhlRange
    <2>2. trans_header_length' \in Word
      BY <1>1, <1>4, <2>1, TransportRange
    <2>3. CASE protocol = 6
      <3>1. E + HeaderLength(ihl) + 12 \in Nat /\ E + HeaderLength(ihl) + 12 < Len(raw_pkt)
        <4>1. HeaderLength(ihl) = IpHeader' /\ IpHeader' \in Nat
          BY <1>4, <1>5 DEF HeaderLength
        <4>2. Len(raw_pkt) \in Nat
          BY <1>1
        <4>3. E + IpHeader' + 20 <= Len(raw_pkt)
          BY <1>2
        <4> QED
          BY <1>0, <4>1, <4>2, <4>3, Within
      <3>2. At(raw_pkt, E + HeaderLength(ihl) + 12) = {raw_pkt[E + IpHeader' + 13]}
        <4>1. (E + HeaderLength(ihl) + 12) + 1 = E + IpHeader' + 13
          BY <1>0, <1>4, <1>5, <2>1 DEF HeaderLength
        <4> QED
          BY <1>1, <3>1, <4>1, ByteRead
      <3>3. raw_pkt[E + IpHeader' + 13] \in Byte
        <4>1. E + IpHeader' + 13 \in 1 .. Len(raw_pkt)
          <5>1. IpHeader' \in Nat /\ E + IpHeader' + 20 <= Len(raw_pkt)
            BY <1>2, <1>4, <1>5 DEF HeaderLength
          <5> QED
            BY <1>0, <5>1, Within
        <4> QED
          BY <1>1, <4>1
      <3>4. trans_header_length' = (raw_pkt[E + IpHeader' + 13] \div 16) * 4
        BY <1>4, <2>3, <3>2 DEF TransportLengths, Offset
      <3>5. TransportHeader' = 4 * (raw_pkt[E + IpHeader' + 13] \div 16)
        BY <1>1, <1>7, <2>3 DEF TransportHeader
      <3> QED
        BY <2>2, <3>3, <3>4, <3>5 DEF Byte
    <2>4. CASE protocol = 17
      BY <1>4, <1>7, <2>2, <2>4 DEF TransportLengths, TransportHeader
    <2> QED
      BY <1>2, <1>7, <2>3, <2>4
  <1>9. packet_length' = IpTotal' + 14
    BY <1>4, <1>6, LengthKept
  <1>10. IpHeader' \in 0 .. 60
    BY <1>4, <1>5 DEF HeaderLength
  <1>11. payload_length' = IpTotal' + 14 - (E + IpHeader' + TransportHeader')
    <2>1. IpTotal' \in Word /\ TransportHeader' \in Word /\ packet_length' \in Word
      BY <1>4, <1>6, <1>8, LengthKept
    <2>2. E + IpHeader' + TransportHeader' <= packet_length'
      <3> DEFINE h == IpHeader' t == TransportHeader' n == IpTotal'
      <3>1. h \in Nat /\ t \in Nat /\ n \in Nat /\ n >= h + t
        BY <1>2, <1>10, <2>1, WordsLarge DEF Word
      <3>2. packet_length' = n + 14 /\ E <= 14
        BY <1>1, <1>9
      <3> HIDE DEF h, t, n
      <3>3. E + h + t <= n + 14
        BY <1>0, <3>1, <3>2
      <3> QED
        BY <3>2, <3>3 DEF h, t, n
    <2>3. payload_length' = packet_length' - (E + IpHeader' + TransportHeader')
      <3>1. payload_length' = PayloadLength(packet_length', E, IpHeader', TransportHeader')
        BY <1>4, <1>5, <1>8
      <3>2. /\ packet_length' \in Word /\ E \in {0, 14}
            /\ IpHeader' \in 0 .. 60 /\ TransportHeader' \in Word
        BY <1>1, <1>10, <2>1
      <3> QED
        BY <2>2, <3>1, <3>2, PayloadKept
    <2> DEFINE h == IpHeader' t == TransportHeader' n == IpTotal'
    <2>4. h \in Nat /\ t \in Nat /\ n \in Nat
      BY <1>10, <2>1, WordsLarge DEF Word
    <2>5. payload_length' = (n + 14) - (E + h + t)
      BY <1>9, <2>3
    <2> HIDE DEF h, t, n
    <2>6. payload_length' = n + 14 - (E + h + t)
      BY <1>0, <2>4, <2>5
    <2> QED
      BY <2>6 DEF h, t, n
  <1> QED
    <2> DEFINE h == IpHeader' t == TransportHeader' n == IpTotal'
    <2>1. h \in Nat /\ t \in Nat /\ n \in Nat
      BY <1>6, <1>8, <1>10, WordsLarge DEF Word
    <2>2. ip_header_length' = h /\ trans_header_length' = t
          /\ payload_length' = n + 14 - (E + h + t)
      BY <1>5, <1>8, <1>11
    <2> HIDE DEF h, t, n
    <2>3. h + t + (n + 14 - (E + h + t)) = n + 14 - E
      BY <1>0, <2>1
    <2> QED
      BY <1>1, <2>2, <2>3 DEF h, t, n

\* Of every whole TCP or UDP packet of at most 65521 bytes the payload is found where it
\* begins, and none of its lengths wraps.  Where it ends is right with a link header and
\* 14 bytes too far without one, the program's only call (functions.cpp:18): PayloadFound
\* states that end, and does not call it right.
THEOREM PayloadIsFound == ParserSpec => []PayloadFound
<1>1. ParserInit => PayloadFound
  BY DEF ParserInit, PayloadFound
<1>2. FieldsOK /\ PayloadFound /\ [ParserNext]_parserVars => PayloadFound'
  <2> SUFFICES ASSUME FieldsOK, PayloadFound, [ParserNext]_parserVars PROVE PayloadFound'
    OBVIOUS
  <2>1. ASSUME NEW eth \in {0, 1}, Create(eth) PROVE PayloadFound'
    BY <2>1, ParsedFields
  <2>2. CASE UNCHANGED parserVars
    BY <2>2 DEF parserVars, fields, PayloadFound, WholePacket, Ip, IpTotal, IpHeader, IpProtocol,
                TransportHeader
  <2> QED
    BY <2>1, <2>2 DEF ParserNext, ParseFromAdapter, ParseFrame
<1> QED
  BY <1>1, <1>2, FieldsTyped, PTL DEF ParserSpec

-----------------------------------------------------------------------------
(* The derivation of an address.                                           *)

\* Both properties follow from this: every address comes from the machine's own serial.
FromSerial ==
  /\ serial \in [Machines -> Serials \cup {<< >>}]
  /\ \A m \in Machines : myip[m] # << >> => myip[m] \in getIP(serial[m])
  /\ DOMAIN myip = Machines

\* The code of a digit is that of a decimal digit or of A to F.
LEMMA CharCodes ==
  ASSUME NEW d \in Digit
  PROVE  CharCode(d) \in 48 .. 57 \cup 65 .. 70
  BY DEF Digit, CharCode

\* No sum of two digits reaches 250.
LEMMA OctetOfDigits ==
  ASSUME NEW a \in Digit, NEW b \in Digit
  PROVE  /\ Octet(CharCode(a), CharCode(b)) = CharCode(a) + CharCode(b)
         /\ Octet(CharCode(a), CharCode(b)) \in 96 .. 140
  <1> DEFINE x == CharCode(a) y == CharCode(b)
  <1>1. x \in 48 .. 70 /\ y \in 48 .. 70
    BY CharCodes
  <1> HIDE DEF x, y
  <1>2. Octet(x, y) = x + y /\ x + y \in 96 .. 140
    BY <1>1 DEF Octet
  <1> QED
    BY <1>2 DEF x, y

\* The address of a readable serial: 100 and three sums.
LEMMA AddressOfSerial ==
  ASSUME NEW s \in Serials, NEW ip \in getIP(s)
  PROVE  /\ s # << >>
         /\ DOMAIN ip = 1 .. 4
         /\ ip[1] = 100
         /\ \A i \in 1 .. 3 : ip[i + 1] = Octet(CharCode(s[2 * i - 1]), CharCode(s[2 * i]))
  <1>1. s \in [1 .. 8 -> Digit] /\ s # << >>
    <2>1. s \in [1 .. 8 -> Digit]
      BY AddressAssumption
    <2>2. DOMAIN s = 1 .. 8 /\ 1 \in 1 .. 8
      BY <2>1
    <2>3. DOMAIN << >> = {}
      OBVIOUS
    <2> QED
      BY <2>1, <2>2, <2>3
  <1> DEFINE o == [i \in 1 .. 3 |-> Octet(CharCode(s[2 * i - 1]), CharCode(s[2 * i]))]
  <1>2. ip = [i \in 1 .. 4 |-> IF i = 1 THEN 100 ELSE o[i - 1]]
    BY <1>1 DEF getIP, Octets
  <1>3. \A i \in 1 .. 3 : o[i] = Octet(CharCode(s[2 * i - 1]), CharCode(s[2 * i]))
    OBVIOUS
  <1> HIDE DEF o
  <1>4. DOMAIN ip = 1 .. 4 /\ ip[1] = 100
    BY <1>2
  <1>5. ASSUME NEW i \in 1 .. 3 PROVE ip[i + 1] = o[i]
    <2>1. i + 1 \in 1 .. 4 /\ i + 1 # 1 /\ (i + 1) - 1 = i
      OBVIOUS
    <2> QED
      BY <1>2, <2>1
  <1> QED
    BY <1>1, <1>3, <1>4, <1>5

\* Every step keeps FromSerial.
LEMMA AlwaysFromSerial == AddressSpec => []FromSerial
<1>1. AddressInit => FromSerial
  BY DEF AddressInit, FromSerial
<1>2. FromSerial /\ [AddressNext]_addressVars => FromSerial'
  <2> SUFFICES ASSUME FromSerial, [AddressNext]_addressVars PROVE FromSerial'
    OBVIOUS
  <2>1. ASSUME NEW m \in Machines, MakeAdapter(m) PROVE FromSerial'
    BY <2>1 DEF MakeAdapter, FromSerial
  <2>2. ASSUME NEW m \in Machines, MakeLobby(m) PROVE FromSerial'
    BY <2>2 DEF MakeLobby, FromSerial
  <2>3. CASE UNCHANGED addressVars
    BY <2>3 DEF addressVars, FromSerial
  <2> QED
    BY <2>1, <2>2, <2>3 DEF AddressNext
<1> QED
  BY <1>1, <1>2, PTL DEF AddressSpec

\* Whatever its serial number, a machine that can read it has an address the server accepts.
THEOREM EverySerialAccepted == AddressSpec => []ServerAccepts
<1>1. FromSerial => ServerAccepts
  <2> SUFFICES ASSUME FromSerial, NEW m \in Machines, serial[m] # << >>, myip[m] # << >>
               PROVE  is_valid_ipv4(myip[m])
    BY DEF ServerAccepts
  <2>1. serial[m] \in Serials /\ myip[m] \in getIP(serial[m])
    BY DEF FromSerial
  <2>2. serial[m] \in [1 .. 8 -> Digit]
    BY <2>1, AddressAssumption
  <2>3. \A i \in 1 .. 3 : myip[m][i + 1] \in 0 .. 255
    <3> SUFFICES ASSUME NEW i \in 1 .. 3 PROVE myip[m][i + 1] \in 0 .. 255
      OBVIOUS
    <3>1. 2 * i - 1 \in 1 .. 8 /\ 2 * i \in 1 .. 8
      OBVIOUS
    <3>2. serial[m][2 * i - 1] \in Digit /\ serial[m][2 * i] \in Digit
      BY <2>2, <3>1
    <3>3. myip[m][i + 1]
            = Octet(CharCode(serial[m][2 * i - 1]), CharCode(serial[m][2 * i]))
      BY <2>1, AddressOfSerial
    <3>4. myip[m][i + 1] \in 96 .. 140
      BY <3>2, <3>3, OctetOfDigits
    <3> QED
      BY <3>4
  <2>4. DOMAIN myip[m] = 1 .. 4 /\ myip[m][1] = 100
    BY <2>1, AddressOfSerial
  <2>5. \A i \in 1 .. 4 : myip[m][i] \in 0 .. 255
    <3> SUFFICES ASSUME NEW i \in 1 .. 4 PROVE myip[m][i] \in 0 .. 255
      OBVIOUS
    <3>1. CASE i = 1
      BY <2>4, <3>1
    <3>2. CASE i # 1
      <4>1. i - 1 \in 1 .. 3 /\ (i - 1) + 1 = i
        BY <3>2
      <4> QED
        BY <2>3, <4>1
    <3> QED
      BY <3>1, <3>2
  <2> QED
    BY <2>4, <2>5 DEF is_valid_ipv4
<1> QED
  BY <1>1, AlwaysFromSerial, PTL

\* Two digits in one place give the same code only if they are the same.
LEMMA CodesDiffer ==
  ASSUME NEW a \in Digit, NEW b \in Digit, a # b
  PROVE  CharCode(a) # CharCode(b)
  BY DEF Digit, CharCode

\* Octets of pairs that differ in one digit differ.
LEMMA OctetsDiffer ==
  ASSUME NEW a \in Digit, NEW b \in Digit, NEW c \in Digit, NEW d \in Digit,
         (a # c /\ b = d) \/ (a = c /\ b # d)
  PROVE  Octet(CharCode(a), CharCode(b)) # Octet(CharCode(c), CharCode(d))
  <1> DEFINE w == CharCode(a) x == CharCode(b) y == CharCode(c) z == CharCode(d)
  <1>1. w \in Int /\ x \in Int /\ y \in Int /\ z \in Int
    BY CharCodes
  <1>2. (w # y /\ x = z) \/ (w = y /\ x # z)
    BY CodesDiffer
  <1>3. /\ Octet(CharCode(a), CharCode(b)) = w + x
        /\ Octet(CharCode(c), CharCode(d)) = y + z
    BY OctetOfDigits
  <1> HIDE DEF w, x, y, z
  <1>4. w + x # y + z
    BY <1>1, <1>2
  <1> QED
    BY <1>3, <1>4

\* Machines whose serials differ in one of the first six digits have different addresses.
THEOREM SerialsDistinguished == AddressSpec => []Distinguishes
<1>1. FromSerial => Distinguishes
  <2> SUFFICES ASSUME FromSerial, NEW m \in Machines, NEW n \in Machines,
                      serial[m] # << >>, serial[n] # << >>,
                      DifferInOne(serial[m], serial[n]), myip[m] # << >>, myip[n] # << >>
               PROVE  myip[m] # myip[n]
    BY DEF Distinguishes
  <2> DEFINE s == serial[m] t == serial[n]
  <2>1. /\ s \in Serials /\ myip[m] \in getIP(s)
        /\ t \in Serials /\ myip[n] \in getIP(t)
    BY DEF FromSerial
  <2>2. s \in [1 .. 8 -> Digit] /\ t \in [1 .. 8 -> Digit]
    BY <2>1, AddressAssumption
  <2>3. PICK i \in 1 .. 6 : s[i] # t[i] /\ \A j \in 1 .. 6 \ {i} : s[j] = t[j]
    BY DEF DifferInOne
  <2>4. PICK k \in 1 .. 3 : i \in {2 * k - 1, 2 * k}
    <3>1. i \in {1, 2} \/ i \in {3, 4} \/ i \in {5, 6}
      OBVIOUS
    <3>2. \/ i \in {2 * 1 - 1, 2 * 1} \/ i \in {2 * 2 - 1, 2 * 2} \/ i \in {2 * 3 - 1, 2 * 3}
      BY <3>1
    <3> QED
      BY <3>2
  <2>5. /\ 2 * k - 1 \in 1 .. 6 /\ 2 * k \in 1 .. 6 /\ 2 * k - 1 # 2 * k
        /\ 2 * k - 1 \in 1 .. 8 /\ 2 * k \in 1 .. 8
    OBVIOUS
  <2>6. /\ s[2 * k - 1] \in Digit /\ s[2 * k] \in Digit
        /\ t[2 * k - 1] \in Digit /\ t[2 * k] \in Digit
    BY <2>2, <2>5
  <2>7. \/ s[2 * k - 1] # t[2 * k - 1] /\ s[2 * k] = t[2 * k]
        \/ s[2 * k - 1] = t[2 * k - 1] /\ s[2 * k] # t[2 * k]
    <3>1. CASE i = 2 * k - 1
      BY <2>3, <2>5, <3>1
    <3>2. CASE i = 2 * k
      BY <2>3, <2>5, <3>2
    <3> QED
      BY <2>4, <3>1, <3>2
  <2>8. Octet(CharCode(s[2 * k - 1]), CharCode(s[2 * k]))
          # Octet(CharCode(t[2 * k - 1]), CharCode(t[2 * k]))
    BY <2>6, <2>7, OctetsDiffer
  <2>9. /\ myip[m][k + 1] = Octet(CharCode(s[2 * k - 1]), CharCode(s[2 * k]))
        /\ myip[n][k + 1] = Octet(CharCode(t[2 * k - 1]), CharCode(t[2 * k]))
    BY <2>1, AddressOfSerial
  <2> QED
    BY <2>8, <2>9
<1> QED
  BY <1>1, AlwaysFromSerial, PTL

=============================================================================
