----------------------------- MODULE Addresses -----------------------------
(***************************************************************************)
(* The address of a client: functions.cpp derives it from the serial       *)
(* number of the system volume, once for the adapter and once for the      *)
(* lobby; server.py accepts it or not.                                     *)
(***************************************************************************)
EXTENDS Integers

CONSTANTS
  Machines,  \* the machines
  Serials,   \* the volume serial numbers, as the eight hexadecimal digits of "%08X"
  MayFail,   \* whether GetVolumeInformation may fail
  StrayChars    \* the characters that memory past an empty string may hold

Digit == 0 .. 15
Char == -128 .. 127

ASSUME AddressAssumption ==
  /\ Serials \subseteq [1 .. 8 -> Digit]
  /\ MayFail \in BOOLEAN
  /\ StrayChars \subseteq Char

VARIABLES
  serial,   \* the digits a machine reads, or << >> if it cannot
  systemIP, \* the address of its adapter, << >> before it has one
  myip      \* Lobby::myip

addressVars == <<serial, systemIP, myip>>

-----------------------------------------------------------------------------
(* functions.cpp.                                                          *)

CharCode(digit) == IF digit < 10 THEN 48 + digit ELSE 55 + digit

\* The sum of two characters.
Octet(a, b) == IF a + b > 250 THEN (a + b) % 250 ELSE a + b

\* Mutant: the pairs of characters overlap.
OctetsOverlapping(s) ==
  {[i \in 1 .. 3 |-> IF s = << >> THEN 0 ELSE Octet(CharCode(s[i]), CharCode(s[i + 1]))]}

\* What getIP appends; of an empty string it reads the zero and what lies behind.
Octets(s) ==
  IF s # << >>
  THEN {[i \in 1 .. 3 |-> Octet(CharCode(s[2 * i - 1]), CharCode(s[2 * i]))]}
  ELSE {<<Octet(0, a), Octet(b, c), Octet(d, e)>> : a, b, c, d, e \in StrayChars}

\* Mutant: the prefix is 10.
getIPTen(s) ==
  {[i \in 1 .. 4 |-> IF i = 1 THEN 10 ELSE octets[i - 1]] : octets \in Octets(s)}

getIP(s) ==
  {[i \in 1 .. 4 |-> IF i = 1 THEN 100 ELSE octets[i - 1]] : octets \in Octets(s)}

\* The globals of functions.cpp, in their order.
MakeAdapter(m) ==
  /\ systemIP[m] = << >>
  /\ systemIP' \in {[systemIP EXCEPT ![m] = ip] : ip \in getIP(serial[m])}
  /\ UNCHANGED <<serial, myip>>

MakeLobby(m) ==
  /\ systemIP[m] # << >>
  /\ myip[m] = << >>
  /\ myip' \in {[myip EXCEPT ![m] = ip] : ip \in getIP(serial[m])}
  /\ UNCHANGED <<serial, systemIP>>

AddressInit ==
  /\ serial \in [Machines -> Serials \cup (IF MayFail THEN {<< >>} ELSE {})]
  /\ systemIP = [m \in Machines |-> << >>]
  /\ myip = [m \in Machines |-> << >>]

AddressNext == \E m \in Machines : MakeAdapter(m) \/ MakeLobby(m)

AddressSpec == AddressInit /\ [][AddressNext]_addressVars

-----------------------------------------------------------------------------
(* server.py.  A number is written with its sign; a sign is no digit.      *)

is_valid_ipv4(ip) ==
  /\ DOMAIN ip = 1 .. 4
  /\ ip[1] = 100
  /\ \A i \in 1 .. 4 : ip[i] \in 0 .. 255

-----------------------------------------------------------------------------
(* Properties.                                                             *)

\* A machine that can read its serial number presents an address that the server accepts
\* (functions.cpp:86-97, server.py:30-47): its join is never refused for the address.
ServerAccepts ==
  \A m \in Machines : (serial[m] # << >> /\ myip[m] # << >>) => is_valid_ipv4(myip[m])

\* The first six digits, any one of which is enough to tell two machines apart.
DifferInOne(s, t) ==
  \E i \in 1 .. 6 : s[i] # t[i] /\ \A j \in 1 .. 6 \ {i} : s[j] = t[j]

\* Serials that differ in one of the digits used give different addresses: the reduction
\* modulo 250 folds no two sums together (functions.cpp:92-94).
Distinguishes ==
  \A m, n \in Machines :
    (/\ serial[m] # << >> /\ serial[n] # << >>
     /\ DifferInOne(serial[m], serial[n])
     /\ myip[m] # << >> /\ myip[n] # << >>) => myip[m] # myip[n]
=============================================================================
