------------------------------ MODULE MCHost ------------------------------
(***************************************************************************)
(* The parts of a client's process that share no state, as TLC checks them *)
(* in one run: its adapter, the parser of its packets and the derivation   *)
(* of its address.  Their product would only multiply their states, so a   *)
(* behaviour is one of one part, chosen at the start; the others stay in   *)
(* an initial state.                                                       *)
(***************************************************************************)
EXTENDS Adapter, IpPacket, Addresses

CONSTANTS ping, odd, here, there

VARIABLE part

-----------------------------------------------------------------------------
(* Packets: an IP header with every interesting length and protocol, with  *)
(* and without a link header in front, and cut at several places.          *)

\* Its ihl and total length, protocol and TCP offset; there is room for every header.
Header(ihl, total, protocol, offset) ==
  [i \in 1 .. 60 + 20 |->
     CASE i = 1 -> 64 + ihl
       [] i = 3 -> total \div 256
       [] i = 4 -> total % 256
       [] i = 10 -> protocol
       [] i = 17 -> 100
       [] i \in {18, 19, 20} -> 97
       [] i = 4 * ihl + 13 -> 16 * offset
       [] OTHER -> i]

Link == [i \in 1 .. 14 |-> 200 + i]

Bare ==
  {Header(ihl, total, protocol, offset) :
     ihl \in {0, 4, 5, 6, 15}, total \in {0, 10, 20, 40, 1500, 65521, 65522, 65535},
     protocol \in {1, 6, 17}, offset \in {5, 8}}

AnyPackets == Bare \cup {Link \o p : p \in Bare} \cup {SubSeq(p, 1, 12) : p \in Bare}

\* Two values are enough to tell memory that is not the packet's.
SomeBytes == {0, 255}
SomeChars == {0, -1}

-----------------------------------------------------------------------------
(* Serial numbers: the extreme sums, and every change of a digit.          *)

Zeros == [i \in 1 .. 8 |-> 0]
Fs == [i \in 1 .. 8 |-> 15]

SomeSerials ==
  {[s EXCEPT ![i] = d] : s \in {Zeros, Fs}, i \in 1 .. 8, d \in {0, 1, 9, 10, 15}}

AnyFailure == {"dll", "adapter", "index", "session", "address", "receive"}

-----------------------------------------------------------------------------
HostInit ==
  /\ part \in {"adapter", "parser", "address"}
  /\ Init /\ ParserInit /\ AddressInit
  /\ part # "parser" => raw_pkt = << >>
  /\ part # "address" => serial = [m \in Machines |-> Zeros]

AdapterMoves == part = "adapter" /\ Next /\ UNCHANGED <<part, parserVars, addressVars>>
ParserMoves == part = "parser" /\ ParserNext /\ UNCHANGED <<part, vars, addressVars>>
AddressMoves == part = "address" /\ AddressNext /\ UNCHANGED <<part, vars, parserVars>>

HostNext == AdapterMoves \/ ParserMoves \/ AddressMoves

hostVars == <<part, vars, parserVars, addressVars>>

\* The fairness of the adapter, while it is the part that moves.
HostSpec ==
  /\ HostInit /\ [][HostNext]_hostVars
  /\ part = "adapter" => WF_vars(Constructing) /\ WF_vars(Listening)
=============================================================================
