------------------------------ MODULE Adapter ------------------------------
(***************************************************************************)
(* The Wintun adapter of a client (WintunManager.{h,cpp}): the constructor *)
(* of the global wintunManager, the thread that reads packets from the     *)
(* session (Listening), the thread that writes them (sendPacket, called by *)
(* the listener of class Server) and the destructor at the end of main.    *)
(* The driver is modelled from the contract in wintun.h.                   *)
(***************************************************************************)
EXTENDS Naturals, Sequences

CONSTANTS
  Packets,    \* the packets of either direction
  Throwing,   \* those on which the callback throws (Packet.cpp:23)
  Failing,    \* bound: which steps of the constructor, and whether receiving, may fail
  RingSlots,  \* packets a ring of the session holds
  MaxPackets, \* bound: packets of each direction
  MayQuit     \* bound: whether the user may choose 0

ASSUME AdapterAssumption ==
  /\ Throwing \subseteq Packets
  /\ Failing \subseteq {"dll", "adapter", "index", "session", "address", "receive"}
  /\ RingSlots \in Nat \ {0}
  /\ MaxPackets \in Nat
  /\ MayQuit \in BOOLEAN

VARIABLES
  main,      \* where the constructor, main() or the destructor is
  adapter,   \* "null", or "open" until WintunCloseAdapter
  session,   \* "unset", "null", or "open": WintunEndSession is never called
  index,     \* GetAdapterIndex found the adapter
  addressed, \* the adapter has its address
  rx,        \* packets the session holds for the reader
  held,      \* those received and not released
  event,     \* the read-wait event is signalled
  listener,  \* where Listening is
  handled,   \* history: the packets the callback has finished with
  tx,        \* slots allocated by sendPacket, the oldest first
  sender,    \* where sendPacket is
  injected,  \* history: what the driver took from the slots
  arrived    \* history: the packets that came in from the host

readVars == <<rx, held, event, listener, handled, arrived>>
writeVars == <<tx, sender, injected>>
bootVars == <<main, adapter, session, index, addressed>>
vars == <<main, adapter, session, index, addressed, rx, held, event, listener,
          handled, tx, sender, injected, arrived>>

\* The process: "thrown" is an exception of the constructor, "crashed" one that leaves a
\* thread or a call on no session, "exited" the end of the destructor.
Alive == main \notin {"thrown", "crashed", "exited"}

Slot == [packet : Packets, filled : BOOLEAN, sent : BOOLEAN]

-----------------------------------------------------------------------------
(* The constructor.                                                        *)

Boot(from, to) == main = from /\ main' = to

\* Initialize: the library or one of its functions may be missing.
Initialize ==
  /\ \/ Boot("initialize", "adapter")
     \/ "dll" \in Failing /\ Boot("initialize", "thrown")
  /\ UNCHANGED <<adapter, session, index, addressed, readVars, writeVars>>

\* CreateAdapter: a failure is returned and not looked at.
CreateAdapter ==
  /\ Boot("adapter", "index")
  /\ \/ adapter' = "open"
     \/ "adapter" \in Failing /\ adapter' = "null"
  /\ UNCHANGED <<session, index, addressed, readVars, writeVars>>

\* GetAdapterIndex: 0 when the list cannot be read or does not name the adapter.
GetAdapterIndex ==
  /\ Boot("index", "session")
  /\ index' \in BOOLEAN
  /\ ~index' => adapter = "null" \/ "index" \in Failing
  /\ index' => adapter = "open"
  /\ UNCHANGED <<adapter, session, addressed, readVars, writeVars>>

\* StartSession tests the function pointer, not the adapter.
StartSession ==
  /\ Boot("session", "configure")
  /\ \/ adapter = "open" /\ session' = "open"
     \/ (adapter = "null" \/ "session" \in Failing) /\ session' = "null"
  /\ UNCHANGED <<adapter, index, addressed, readVars, writeVars>>

\* configurationIP: a failure is printed.
ConfigurationIP ==
  /\ Boot("configure", "start")
  /\ \/ index /\ addressed' = TRUE
     \/ (~index \/ "address" \in Failing) /\ UNCHANGED addressed
  /\ UNCHANGED <<adapter, session, index, readVars, writeVars>>

\* main() starts the server's listener, which calls sendPacket, and startListening.
StartListening ==
  /\ Boot("start", "menu")
  /\ listener' = "receive"
  /\ sender' = "idle"
  /\ UNCHANGED <<adapter, session, index, addressed, rx, held, event, handled,
                 arrived, tx, injected>>

\* Choice 0: the destructor closes the adapter and leaves the session open.
Destroy ==
  /\ MayQuit
  /\ Boot("menu", "exited")
  /\ adapter' = IF adapter = "open" THEN "closed" ELSE adapter
  /\ UNCHANGED <<session, index, addressed, readVars, writeVars>>

-----------------------------------------------------------------------------
(* The host and the driver.                                                *)

\* The host routes a packet to the adapter; a full ring drops it.
Arrive ==
  /\ Alive
  /\ session = "open"
  /\ Len(arrived) < MaxPackets
  /\ Len(rx) + Len(held) < RingSlots
  /\ \E p \in Packets : /\ rx' = Append(rx, p)
                        /\ arrived' = Append(arrived, p)
  /\ event' = TRUE
  /\ UNCHANGED <<bootVars, held, listener, handled, writeVars>>

\* The driver takes the oldest slot once it has been sent.
Inject ==
  /\ Alive
  /\ tx # << >>
  /\ Head(tx).sent
  /\ injected' = Append(injected, Head(tx))
  /\ tx' = Tail(tx)
  /\ UNCHANGED <<bootVars, readVars, sender>>

-----------------------------------------------------------------------------
(* Listening.                                                              *)

Crash == main' = "crashed" /\ UNCHANGED <<adapter, session, index, addressed>>

Listen(from, to) == Alive /\ listener = from /\ listener' = to

\* WintunReceivePacket on a session that was never started, a packet, none, or an error
\* (the adapter is terminating, the ring is corrupt): it is printed, and the loop is left.
Receive ==
  /\ Alive
  /\ listener = "receive"
  /\ \/ session # "open" /\ Crash /\ UNCHANGED readVars
     \/ /\ session = "open"
        /\ rx # << >>
        /\ listener' = "callback"
        /\ held' = Append(held, Head(rx))
        /\ rx' = Tail(rx)
        /\ UNCHANGED <<bootVars, event, handled, arrived>>
     \/ /\ session = "open"
        /\ rx = << >>
        /\ listener' = "wait"
        /\ UNCHANGED <<bootVars, rx, held, event, handled, arrived>>
     \/ /\ session = "open"
        /\ "receive" \in Failing
        /\ listener' = "ended"
        /\ UNCHANGED <<bootVars, rx, held, event, handled, arrived>>
  /\ UNCHANGED writeVars

\* callbackLitentToInterface; an exception of Packet::create ends the process.
Callback ==
  /\ Alive
  /\ listener = "callback"
  /\ IF held[1] \in Throwing
     THEN Crash /\ UNCHANGED <<listener, handled>>
     ELSE /\ listener' = "release"
          /\ handled' = Append(handled, held[1])
          /\ UNCHANGED bootVars
  /\ UNCHANGED <<rx, held, event, arrived, writeVars>>

\* Mutant: WintunReleaseReceivePacket is missing.
ReleaseForgotten ==
  /\ Listen("release", "receive")
  /\ UNCHANGED <<bootVars, rx, held, event, handled, arrived, writeVars>>

Release ==
  /\ Listen("release", "receive")
  /\ held' = Tail(held)
  /\ UNCHANGED <<bootVars, rx, event, handled, arrived, writeVars>>

\* WaitForSingleObject: an arrival since the ring was found empty is not missed.
Wait ==
  /\ Listen("wait", "receive")
  /\ event
  /\ event' = FALSE
  /\ UNCHANGED <<bootVars, rx, held, handled, arrived, writeVars>>

-----------------------------------------------------------------------------
(* sendPacket.                                                             *)

Allocations == Len(injected) + Len(tx)

\* Mutant: a slot is taken from a full ring.
AllocateUnchecked ==
  /\ Alive
  /\ sender = "idle"
  /\ session = "open"
  /\ Allocations < MaxPackets
  /\ sender' = "copy"
  /\ \E p \in Packets :
       tx' = Append(tx, [packet |-> p, filled |-> FALSE, sent |-> FALSE])
  /\ UNCHANGED <<bootVars, injected, readVars>>

\* WintunAllocateSendPacket: a full ring gives no slot, and the packet is dropped.
Allocate ==
  /\ Alive
  /\ sender = "idle"
  /\ Allocations < MaxPackets
  /\ \/ session # "open" /\ Crash /\ UNCHANGED <<tx, sender>>
     \/ /\ session = "open"
        /\ Len(tx) < RingSlots
        /\ sender' = "copy"
        /\ \E p \in Packets :
             tx' = Append(tx, [packet |-> p, filled |-> FALSE, sent |-> FALSE])
        /\ UNCHANGED bootVars
  /\ UNCHANGED <<injected, readVars>>

MarkNewest(field) == tx' = [tx EXCEPT ![Len(tx)][field] = TRUE]

\* Mutant: the packet is sent before it is filled.
CopyAfterSend ==
  /\ Alive
  /\ sender = "copy"
  /\ sender' = "send"
  /\ tx' = [tx EXCEPT ![Len(tx)].sent = TRUE]
  /\ UNCHANGED <<bootVars, readVars, injected>>

Copy ==
  /\ Alive
  /\ sender = "copy"
  /\ sender' = "send"
  /\ MarkNewest("filled")
  /\ UNCHANGED <<bootVars, readVars, injected>>

SendPacket ==
  /\ Alive
  /\ sender = "send"
  /\ sender' = "idle"
  /\ MarkNewest("sent")
  /\ UNCHANGED <<bootVars, readVars, injected>>

-----------------------------------------------------------------------------
Init ==
  /\ main = "initialize"
  /\ adapter = "null"
  /\ session = "unset"
  /\ index = FALSE
  /\ addressed = FALSE
  /\ rx = << >>
  /\ held = << >>
  /\ event = FALSE
  /\ listener = "off"
  /\ handled = << >>
  /\ tx = << >>
  /\ sender = "off"
  /\ injected = << >>
  /\ arrived = << >>

Constructing ==
  \/ Initialize \/ CreateAdapter \/ GetAdapterIndex \/ StartSession \/ ConfigurationIP
  \/ StartListening

Listening == Receive \/ Callback \/ Release \/ Wait
Sending == Allocate \/ Copy \/ SendPacket

Next ==
  \/ Constructing \/ Destroy
  \/ Arrive \/ Inject
  \/ Listening
  \/ Sending

Spec == Init /\ [][Next]_vars

\* The constructor and the reader's thread run.
FairSpec == Spec /\ WF_vars(Constructing) /\ WF_vars(Listening)

-----------------------------------------------------------------------------
(* Properties.                                                             *)

\* Every variable keeps its type, and a ring never holds more than it has slots.
TypeOK ==
  /\ main \in {"initialize", "adapter", "index", "session", "configure", "start", "menu",
               "thrown", "crashed", "exited"}
  /\ adapter \in {"null", "open", "closed"}
  /\ session \in {"unset", "null", "open"}
  /\ index \in BOOLEAN
  /\ addressed \in BOOLEAN
  /\ rx \in Seq(Packets)
  /\ held \in Seq(Packets)
  /\ Len(rx) + Len(held) <= RingSlots
  /\ event \in BOOLEAN
  /\ listener \in {"off", "receive", "callback", "release", "wait", "ended"}
  /\ handled \in Seq(Packets)
  /\ tx \in Seq(Slot)
  /\ Len(tx) <= RingSlots
  /\ sender \in {"off", "idle", "copy", "send"}
  /\ injected \in Seq(Slot)
  /\ arrived \in Seq(Packets)

Pending == IF listener = "callback" THEN held ELSE << >>

\* The callback sees every packet of the host once and in order, and only while the
\* reader holds it (WintunManager.cpp:114-122).
ReadInOrder ==
  /\ arrived = handled \o Pending \o rx
  /\ Len(held) = IF listener \in {"callback", "release"} THEN 1 ELSE 0

\* The driver never takes a slot that sendPacket has not filled: a slot is sent after
\* its copy (WintunManager.cpp:28-37).
InjectedFilled == \A i \in DOMAIN injected : injected[i].filled

\* While the process lives and no receive has failed, the reader empties its ring again
\* and again: no arrival is missed between the empty ring and the wait, and no packet
\* stays held (WintunManager.cpp:117-124).  An error ends the thread and nothing starts
\* another (WintunManager.cpp:125-129): from then on the ring only fills.
RingDrains ==
  []<>(\/ session = "open" => rx = << >> /\ held = << >>
       \/ listener = "ended"
       \/ ~Alive)
=============================================================================
