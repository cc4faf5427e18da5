-------------------------- MODULE VirtualLanProofs --------------------------
(***************************************************************************)
(* Proofs about VirtualLan for any hosts, addresses and scenarios.         *)
(***************************************************************************)
EXTENDS VirtualLan, SequenceTheorems, FiniteSetTheorems, WellFoundedInduction, TLAPS

-----------------------------------------------------------------------------
(* Least elements, and the function that lists the members.                *)

LEMMA LeastNat ==
  ASSUME NEW T, T \subseteq Nat, T # {}
  PROVE  \E x \in T : \A y \in T : x <= y
<1>1. IsWellFoundedOn(OpToRel(<, Nat), Nat)
  BY NatLessThanWellFounded
<1>2. PICK x \in T : \A y \in T : ~(<<y, x>> \in OpToRel(<, Nat))
  BY <1>1, WFMin
<1>3. ASSUME NEW y \in T PROVE x <= y
  <2>1. <<y, x>> \in Nat \X Nat
    OBVIOUS
  <2>2. ~(y < x)
    BY <1>2, <2>1 DEF OpToRel
  <2> QED
    BY <2>2
<1> QED
  BY <1>3

\* Where the piece behind a position ends: no blank lies between.
LEMMA StopProperties ==
  ASSUME NEW s \in Text, NEW a \in Nat
  PROVE  /\ Stop(s, a) \in 1 .. Len(s) + 1
         /\ Stop(s, a) <= Len(s) => Stop(s, a) > a /\ s[Stop(s, a)] = Blank
         /\ \A i \in a + 1 .. Stop(s, a) - 1 : s[i] # Blank
<1> DEFINE B == {b \in a + 1 .. Len(s) : s[b] = Blank}
           T == B \cup {Len(s) + 1}
<1>1. Len(s) \in Nat /\ DOMAIN s = 1 .. Len(s)
  BY LenProperties DEF Text
<1>2. T \subseteq Nat /\ T # {}
  BY <1>1
<1>3. \E x \in T : \A y \in T : x <= y
  BY <1>2, LeastNat
<1>4. Stop(s, a) = CHOOSE x \in T : \A y \in T : x <= y
  BY DEF Stop, Min
<1>5. Stop(s, a) \in T /\ \A y \in T : Stop(s, a) <= y
  BY <1>3, <1>4
<1>6. ASSUME NEW i \in a + 1 .. Stop(s, a) - 1
      PROVE  s[i] # Blank
  <2>1. Stop(s, a) \in Nat /\ Stop(s, a) <= Len(s) + 1
    BY <1>1, <1>2, <1>5
  <2>2. i \in DOMAIN s /\ i > a /\ i < Stop(s, a)
    BY <1>1, <2>1
  <2>3. i \notin B
    BY <1>1, <1>5, <2>1, <2>2
  <2> QED
    BY <2>2, <2>3
<1> QED
  BY <1>1, <1>5, <1>6

LEMMA PieceType ==
  ASSUME NEW s \in Text, NEW a \in Nat
  PROVE  Piece(s, a) \in Text
<1>1. Len(s) \in Nat /\ Stop(s, a) \in 1 .. Len(s) + 1
  BY StopProperties, LenProperties DEF Text
<1>2. \A i \in a + 1 .. Stop(s, a) - 1 : s[i] \in Words \cup Parts
  BY <1>1, ElementOfSeq DEF Text
<1> QED
  BY <1>1, <1>2, SubSeqProperties DEF Piece, Text

\* What handleResponse acts on.
LEMMA UnderstoodType ==
  ASSUME NEW s \in Text
  PROVE  Understood(s) \in [verb : Verbs, members : SUBSET Text]
<1>1. ASSUME NEW a PROVE Listed(s, a) \in SUBSET Text
  BY PieceType, LenProperties DEF Listed, Text
<1>2. None \in [verb : Verbs, members : SUBSET Text]
  BY DEF None, Verbs
<1> QED
  BY <1>1, <1>2 DEF Understood, Response, None, Verbs

\* What the server writes are sequences of words, and not empty.
LEMMA ReplyType ==
  /\ \A verb, ok \in Words : Reply(verb, ok) \in Text /\ Len(Reply(verb, ok)) = 6
  /\ ErrorReply \in Text /\ ErrorReply # << >>
  /\ FrameWrite \in Text /\ FrameWrite # << >>
<1>1. Blank \in Words /\ "command" \in Words /\ "error" \in Words /\ "frame" \in Words
  BY DEF Words
<1> QED
  BY <1>1 DEF Reply, ErrorReply, FrameWrite, Text

\* The function that lists the members one after the other exists.
Grown(listing, members, i) ==
  IF i = 0 THEN Reply("list", "1") ELSE listing[i - 1] \o members[i] \o <<Blank>>

LEMMA ListingExists ==
  ASSUME NEW members
  PROVE  \A n \in Nat : \E f : f = [i \in 0 .. n |-> Grown(f, members, i)]
<1> DEFINE P(n) == \E f : f = [i \in 0 .. n |-> Grown(f, members, i)]
           T == {n \in Nat : ~P(n)}
<1> SUFFICES ASSUME T # {} PROVE FALSE
  OBVIOUS
<1>1. PICK n \in T : \A m \in T : n <= m
  BY LeastNat
<1>2. n # 0
  <2>1. P(0)
    <3> DEFINE f == [i \in 0 .. 0 |-> Reply("list", "1")]
    <3>1. f = [i \in 0 .. 0 |-> Grown(f, members, i)]
      BY DEF Grown
    <3> QED
      BY <3>1
  <2> QED
    BY <2>1
<1>3. n - 1 \in Nat /\ n - 1 \notin T
  BY <1>1, <1>2
<1>4. PICK g : g = [i \in 0 .. n - 1 |-> Grown(g, members, i)]
  BY <1>3
<1> DEFINE f == [i \in 0 .. n |-> IF i = n THEN Grown(g, members, n) ELSE g[i]]
<1>5. ASSUME NEW i \in 0 .. n
      PROVE  f[i] = Grown(f, members, i)
  <2>1. CASE i = 0
    <3>1. 0 \in 0 .. n - 1 /\ i # n
      BY <1>2, <1>3, <2>1
    <3> QED
      BY <1>4, <2>1, <3>1 DEF Grown
  <2>2. CASE i # 0
    <3>1. i - 1 \in 0 .. n - 1 /\ i - 1 # n /\ i - 1 \in 0 .. n
      BY <1>3, <2>2
    <3>2. f[i - 1] = g[i - 1]
      BY <3>1
    <3>3. f[i] = Grown(g, members, i)
      <4>1. CASE i = n
        BY <4>1
      <4>2. CASE i # n
        <5>1. i \in 0 .. n - 1
          BY <1>3, <4>2
        <5> QED
          BY <1>4, <4>2, <5>1
      <4> QED
        BY <4>1, <4>2
    <3> QED
      BY <2>2, <3>2, <3>3 DEF Grown
  <2> QED
    BY <2>1, <2>2
<1>6. f = [i \in 0 .. n |-> Grown(f, members, i)]
  <2> HIDE DEF f
  <2> SUFFICES \A i \in 0 .. n : f[i] = Grown(f, members, i)
    BY DEF f
  <2> QED
    BY <1>5
<1> QED
  BY <1>1, <1>6

\* The reply to "list" is the last of a series, each one longer by a member.
LEMMA ListReplyGrows ==
  ASSUME NEW members, Len(members) \in Nat
  PROVE  \E f : /\ f[0] = Reply("list", "1")
                /\ \A i \in 1 .. Len(members) : f[i] = f[i - 1] \o members[i] \o <<Blank>>
                /\ ListReply(members) = f[Len(members)]
<1> DEFINE n == Len(members)
           f == CHOOSE g : g = [i \in 0 .. n |-> Grown(g, members, i)]
<1>1. f = [i \in 0 .. n |-> Grown(f, members, i)]
  BY ListingExists
<1>2. ListReply(members) = f[n]
  BY DEF ListReply, Grown
<1> HIDE DEF f
<1>3. f[0] = Reply("list", "1")
  BY <1>1 DEF Grown
<1>4. ASSUME NEW i \in 1 .. n PROVE f[i] = f[i - 1] \o members[i] \o <<Blank>>
  BY <1>1 DEF Grown
<1> QED
  BY <1>2, <1>3, <1>4

-----------------------------------------------------------------------------
(* Types.                                                                  *)

ThreadTypes ==
  /\ at \in [Clients -> [main : Labels, checker : Labels, listener : Labels]]
  /\ connected \in [Clients -> BOOLEAN]
  /\ join \in [Clients -> BOOLEAN]
  /\ memberList \in [Clients -> SUBSET Text]
  /\ chunk \in [Clients -> [verb : Verbs, members : SUBSET Text]]
  /\ scan \in [Clients -> Search]

WireTypes ==
  /\ conn \in [Clients -> {0} \cup Conns]
  /\ alive \in [Clients -> BOOLEAN]
  /\ requests \in [Clients -> [Conns -> Seq(Message)]]
  /\ replies \in [Clients -> Seq(Text \ {<< >>})]

ServerTypes ==
  /\ handler \in [Clients -> [Conns -> Handlers]]
  /\ lobby \in [Hosts -> {0, 1} \cup Conns]
  /\ told \in [Clients -> SUBSET Addresses]

BoundTypes ==
  /\ scenario \in Scenarios
  /\ menu \in Nat
  /\ drops \in Nat

\* A client opens no more connections than its bound says, and can be alive on none
\* before the first.
Counted == \A c \in Clients : conn[c] <= scenario.conns /\ (alive[c] => conn[c] > 0)

\* A peer has one connection.
PeersOK == \A p \in Peers : lobby[p] \in {0, 1}

Types == ThreadTypes /\ WireTypes /\ ServerTypes /\ BoundTypes /\ Counted

LEMMA ConnsAreNat == Conns \subseteq Nat
BY LanAssumption DEF Conns, Scenario

LEMMA AddressType ==
  /\ Addresses \subseteq Text
  /\ << >> \notin Addresses
  /\ \A a \in Addresses : \A i \in 1 .. Len(a) : a[i] \notin Words
<1>1. ASSUME NEW a \in Addresses
      PROVE  a \in Text /\ a # << >> /\ \A i \in 1 .. Len(a) : a[i] \notin Words
  <2>1. a \in Seq(Parts) /\ a # << >>
    BY LanAssumption DEF Addresses
  <2>2. a \in Text
    BY <2>1, SeqMonotonic DEF Text
  <2>3. \A i \in 1 .. Len(a) : a[i] \in Parts
    BY <2>1, ElementOfSeq
  <2> QED
    BY <2>1, <2>2, <2>3, LanAssumption
<1> QED
  BY <1>1

LEMMA Numbers ==
  ASSUME Types
  PROVE  /\ scenario.conns \in Nat /\ 1 .. scenario.conns \subseteq Conns
         /\ \A c \in Clients : conn[c] \in Nat /\ (alive[c] => conn[c] \in Conns)
<1>1. scenario \in Scenario /\ scenario \in Scenarios
  BY LanAssumption DEF Types, BoundTypes
<1>2. scenario.conns \in Nat /\ 1 .. scenario.conns \subseteq Conns
  BY <1>1 DEF Scenario, Conns
<1>3. ASSUME NEW c \in Clients PROVE conn[c] \in Nat /\ (alive[c] => conn[c] \in Conns)
  <2>1. conn[c] \in {0} \cup Conns
    BY DEF Types, WireTypes
  <2>2. alive[c] => conn[c] > 0
    BY DEF Types, Counted
  <2>3. conn[c] \in Nat /\ (conn[c] > 0 => conn[c] \in Conns)
    <3>1. CASE conn[c] = 0
      BY <3>1
    <3>2. CASE conn[c] \in Conns
      BY <3>2, ConnsAreNat
    <3> QED
      BY <2>1, <3>1, <3>2
  <2> QED
    BY <2>2, <2>3
<1> QED
  BY <1>2, <1>3

LEMMA RequestType ==
  ASSUME Types, NEW c \in Clients, NEW g \in Conns, NEW m \in Message, Request(c, g, m)
  PROVE  requests' \in [Clients -> [Conns -> Seq(Message)]]
<1>1. requests[c][g] \in Seq(Message)
  BY DEF Types, WireTypes
<1>2. Append(requests[c][g], m) \in Seq(Message)
  BY <1>1, AppendProperties
<1> QED
  BY <1>2 DEF Request, Types, WireTypes

LEMMA OpenType ==
  ASSUME Types, NEW c \in Clients, Open(c)
  PROVE  /\ conn' \in [Clients -> {0} \cup Conns]
         /\ alive' \in [Clients -> BOOLEAN]
         /\ connected' \in [Clients -> BOOLEAN]
         /\ replies' \in [Clients -> Seq(Text \ {<< >>})]
         /\ requests' \in [Clients -> [Conns -> Seq(Message)]]
         /\ \A b \in Clients : conn'[b] <= scenario.conns /\ (alive'[b] => conn'[b] > 0)
<1>1. /\ conn[c] + 1 \in Conns
      /\ conn[c] + 1 <= scenario.conns /\ conn[c] + 1 > 0
  BY Numbers DEF Open
<1>2. requests' \in [Clients -> [Conns -> Seq(Message)]]
  <2>1. <<"eof">> \in Message
    BY DEF Message
  <2>2. CASE alive[c]
    <3>1. conn[c] \in Conns
      BY <2>2, Numbers
    <3>2. Request(c, conn[c], <<"eof">>)
      BY <2>2 DEF Open
    <3> QED
      BY <2>1, <3>1, <3>2, RequestType
  <2>3. CASE ~alive[c]
    BY <2>3 DEF Open, Types, WireTypes
  <2> QED
    BY <2>2, <2>3
<1>3. /\ conn' \in [Clients -> {0} \cup Conns]
      /\ alive' \in [Clients -> BOOLEAN]
      /\ connected' \in [Clients -> BOOLEAN]
  BY <1>1 DEF Open, Types, WireTypes, ThreadTypes
<1>4. replies' \in [Clients -> Seq(Text \ {<< >>})]
  BY EmptySeq DEF Open, Types, WireTypes
<1>5. \A b \in Clients : conn'[b] <= scenario.conns /\ (alive'[b] => conn'[b] > 0)
  BY <1>1 DEF Open, Types, Counted, WireTypes
<1> QED
  BY <1>2, <1>3, <1>4, <1>5

LEMMA SendType ==
  ASSUME Types, NEW c \in Clients, NEW m \in Message
  PROVE  /\ Send(c, m) => requests' \in [Clients -> [Conns -> Seq(Message)]]
         /\ SendData(c, m) => /\ requests' \in [Clients -> [Conns -> Seq(Message)]]
                              /\ connected' \in [Clients -> BOOLEAN]
<1>1. ASSUME Send(c, m) PROVE requests' \in [Clients -> [Conns -> Seq(Message)]]
  <2>1. CASE alive[c]
    BY <1>1, <2>1, Numbers, RequestType DEF Send
  <2>2. CASE ~alive[c]
    BY <1>1, <2>2 DEF Send, Types, WireTypes
  <2> QED
    BY <2>1, <2>2
<1>2. ASSUME SendData(c, m)
      PROVE  /\ requests' \in [Clients -> [Conns -> Seq(Message)]]
             /\ connected' \in [Clients -> BOOLEAN]
  BY <1>1, <1>2 DEF SendData, Types, WireTypes, ThreadTypes
<1> QED
  BY <1>1, <1>2

LEMMA EndType ==
  ASSUME Types, NEW c \in Clients, End(c), scenario' = scenario
  PROVE  ThreadTypes' /\ WireTypes' /\ Counted'
<1>1. ThreadTypes'
  <2>1. [main |-> "off", checker |-> "off", listener |-> "off"]
          \in [main : Labels, checker : Labels, listener : Labels]
    BY DEF Labels
  <2>2. /\ None \in [verb : Verbs, members : SUBSET Text]
        /\ NoScan \in Search
    BY DEF None, Search, Verbs
  <2> QED
    BY <2>1, <2>2 DEF End, Types, ThreadTypes
<1>2. requests' \in [Clients -> [Conns -> Seq(Message)]]
  <2>1. <<"eof">> \in Message
    BY DEF Message
  <2>2. CASE alive[c]
    <3>1. conn[c] \in Conns /\ Request(c, conn[c], <<"eof">>)
      BY <2>2, Numbers DEF End
    <3> QED
      BY <2>1, <3>1, RequestType
  <2>3. CASE ~alive[c]
    BY <2>3 DEF End, Types, WireTypes
  <2> QED
    BY <2>2, <2>3
<1>3. WireTypes'
  BY <1>2, EmptySeq DEF End, Types, WireTypes
<1>4. Counted'
  <2> SUFFICES ASSUME NEW b \in Clients
               PROVE  conn'[b] <= scenario'.conns /\ (alive'[b] => conn'[b] > 0)
    BY DEF Counted
  <2>1. conn' = conn /\ scenario' = scenario /\ alive' = [alive EXCEPT ![c] = FALSE]
    BY DEF End
  <2>2. alive'[b] => alive[b]
    BY <2>1 DEF Types, WireTypes
  <2> QED
    BY <2>1, <2>2 DEF Types, Counted
<1> QED
  BY <1>1, <1>3, <1>4

LEMMA SetMembersType ==
  ASSUME Types, NEW c \in Clients, NEW members \in SUBSET Text, SetMembers(c, members)
  PROVE  /\ memberList' \in [Clients -> SUBSET Text]
         /\ scan' \in [Clients -> Search]
<1>1. scan \in [Clients -> Search] /\ memberList \in [Clients -> SUBSET Text]
  BY DEF Types, ThreadTypes
<1>2. memberList' \in [Clients -> SUBSET Text]
  BY <1>1 DEF SetMembers
<1>3. scan' \in [Clients -> Search]
  <2>1. CASE scan[c] = NoScan
    BY <1>1, <2>1 DEF SetMembers
  <2>2. CASE scan[c] # NoScan
    <3>1. scan[c] \in [dst : Addresses, seen : SUBSET Text, torn : BOOLEAN]
      BY <1>1, <2>2 DEF Search
    <3>2. scan' = [scan EXCEPT ![c].seen = scan[c].seen \cup members, ![c].torn = TRUE]
      BY <2>2 DEF SetMembers
    <3>3. scan'[c] \in [dst : Addresses, seen : SUBSET Text, torn : BOOLEAN]
      BY <1>1, <3>1, <3>2
    <3> QED
      BY <1>1, <3>2, <3>3 DEF Search
  <2> QED
    BY <2>1, <2>2
<1> QED
  BY <1>2, <1>3

LEMMA HandleResponseType ==
  ASSUME Types, NEW c \in Clients, NEW r \in [verb : Verbs, members : SUBSET Text],
         HandleResponse(c, r)
  PROVE  /\ join' \in [Clients -> BOOLEAN]
         /\ memberList' \in [Clients -> SUBSET Text]
         /\ scan' \in [Clients -> Search]
<1>1. CASE r.verb \in {"list", "leave"}
  <2>1. SetMembers(c, r.members) \/ SetMembers(c, {})
    BY <1>1 DEF HandleResponse
  <2>2. join' \in [Clients -> BOOLEAN]
    BY <1>1 DEF HandleResponse, Types, ThreadTypes
  <2> QED
    BY <2>1, <2>2, SetMembersType
<1>2. CASE r.verb \in {"join", "error"}
  BY <1>2 DEF HandleResponse, Types, ThreadTypes
<1>3. CASE r.verb \notin {"list", "leave", "join", "error"}
  BY <1>3 DEF HandleResponse, Types, ThreadTypes
<1> QED
  BY <1>1, <1>2, <1>3

LEMMA WriteType ==
  ASSUME Types, NEW c \in Clients, NEW g, NEW w \in Text \ {<< >>}, Write(c, g, w)
  PROVE  replies' \in [Clients -> Seq(Text \ {<< >>})]
<1>1. replies[c] \in Seq(Text \ {<< >>})
  BY DEF Types, WireTypes
<1>2. Glued(replies[c], w) \in Seq(Text \ {<< >>})
  <2>1. CASE scenario.cuts /\ replies[c] # << >>
    <3>1. Head(replies[c]) \in Text /\ Head(replies[c]) # << >>
      BY <1>1, <2>1, HeadTailProperties
    <3>2. Head(replies[c]) \o w \in Text /\ Head(replies[c]) \o w # << >>
      BY <3>1, ConcatProperties, ConcatEqualIffEmpty DEF Text
    <3> QED
      BY <2>1, <3>2 DEF Glued
  <2>2. CASE ~(scenario.cuts /\ replies[c] # << >>)
    BY <1>1, <2>2, AppendProperties DEF Glued
  <2> QED
    BY <2>1, <2>2
<1> QED
  BY <1>2 DEF Write, Types, WireTypes

-----------------------------------------------------------------------------
(* Every step keeps the types.                                             *)

\* The members that the reply to "list" names.
LEMMA MembersListing ==
  ASSUME NEW S \in SUBSET Addresses
  PROVE  /\ Len(SetToSeq(S)) \in Nat
         /\ \A i \in 1 .. Len(SetToSeq(S)) : SetToSeq(S)[i] \in S
<1>1. IsFiniteSet(S)
  <2>1. IsFiniteSet(Hosts)
    BY LanAssumption DEF Hosts
  <2> DEFINE f == [h \in Hosts |-> Address[h]]
  <2>2. f \in Surjection(Hosts, Addresses)
    BY DEF Surjection, Addresses
  <2>3. IsFiniteSet(Addresses)
    BY <2>1, <2>2, FS_Surjection DEF ExistsSurjection
  <2> QED
    BY <2>3, FS_Subset
<1>2. PICK f : f \in Bijection(1 .. Cardinality(S), S)
  BY <1>1, FS_NatBijection, FS_CardinalityType DEF ExistsBijection
<1>3. Cardinality(S) \in Nat
  BY <1>1, FS_CardinalityType
<1>4. f \in [1 .. Cardinality(S) -> S] /\ IsInjective(f)
  BY <1>2 DEF Bijection, Injection, IsInjective
<1>5. SetToSeq(S) \in [1 .. Cardinality(S) -> S]
  BY <1>4 DEF SetToSeq
<1> QED
  BY <1>3, <1>5

-----------------------------------------------------------------------------
(* The addresses between the blanks of a text.                             *)

\* Two blanks with no blank between them.
Adjacent(s, a, b) ==
  /\ a \in DOMAIN s /\ b \in DOMAIN s /\ a < b
  /\ s[a] = Blank /\ s[b] = Blank
  /\ \A i \in a + 1 .. b - 1 : s[i] # Blank

Between(s, a, b) == SubSeq(s, a + 1, b - 1)

\* Every address between two blanks is one of S.
Clean(s, S) ==
  \A a, b \in DOMAIN s :
    Adjacent(s, a, b) /\ Between(s, a, b) \in Addresses => Between(s, a, b) \in S

\* A text that holds a word of the protocol is no address.
LEMMA WordsAreNoAddress ==
  ASSUME NEW s \in Text, NEW a \in Nat, NEW b \in Nat, NEW i \in a .. b,
         1 <= a, b <= Len(s), s[i] \in Words
  PROVE  SubSeq(s, a, b) \notin Addresses
<1>1. Len(s) \in Nat /\ \A j \in a .. b : s[j] \in Words \cup Parts
  BY LenProperties, ElementOfSeq DEF Text
<1>2. /\ Len(SubSeq(s, a, b)) = b - a + 1
      /\ SubSeq(s, a, b)[i - a + 1] = s[i]
  <2>1. /\ Len(SubSeq(s, a, b)) = IF a <= b THEN b - a + 1 ELSE 0
        /\ \A j \in 1 .. b - a + 1 : SubSeq(s, a, b)[j] = s[a + j - 1]
    BY <1>1, SubSeqProperties
  <2>2. i - a + 1 \in 1 .. b - a + 1 /\ a + (i - a + 1) - 1 = i /\ a <= b
    OBVIOUS
  <2> QED
    BY <2>1, <2>2
<1>3. i - a + 1 \in 1 .. Len(SubSeq(s, a, b))
  BY <1>2
<1> QED
  BY <1>2, <1>3, AddressType

\* Between a and b a text is what another one is between a2 and b2.
Shifted(s, t, a, b, a2, b2) ==
  /\ 0 <= a /\ b <= Len(s) + 1 /\ 0 <= a2 /\ b2 <= Len(t) + 1
  /\ b2 - a2 = b - a
  /\ \A i \in a + 1 .. b - 1 : s[i] = t[i - a + a2]

LEMMA ShiftedPart ==
  ASSUME NEW s \in Text, NEW t \in Text, NEW a \in Int, NEW b \in Int, NEW a2 \in Int,
         NEW b2 \in Int, Shifted(s, t, a, b, a2, b2)
  PROVE  Between(s, a, b) = Between(t, a2, b2)
<1> DEFINE W == Words \cup Parts
           u == SubSeq(s, a + 1, b - 1)
           v == SubSeq(t, a2 + 1, b2 - 1)
<1>0. /\ 0 <= a /\ b <= Len(s) + 1 /\ 0 <= a2 /\ b2 <= Len(t) + 1
      /\ b2 - a2 = b - a
  BY DEF Shifted
<1>1. /\ Len(s) \in Nat /\ \A j \in 1 .. Len(s) : s[j] \in W
      /\ Len(t) \in Nat /\ \A j \in 1 .. Len(t) : t[j] \in W
  BY LenProperties, ElementOfSeq DEF Text
<1>2. /\ u \in Seq(W)
      /\ Len(u) = IF a + 1 <= b - 1 THEN b - a - 1 ELSE 0
      /\ \A i \in 1 .. b - a - 1 : u[i] = s[a + i]
  <2>1. /\ a + 1 \in Int /\ b - 1 \in Int /\ (b - 1) - (a + 1) + 1 = b - a - 1
        /\ \A i \in a + 1 .. b - 1 : s[i] \in W
    BY <1>0, <1>1
  <2>2. /\ u \in Seq(W)
        /\ Len(u) = IF a + 1 <= b - 1 THEN (b - 1) - (a + 1) + 1 ELSE 0
        /\ \A i \in 1 .. (b - 1) - (a + 1) + 1 : u[i] = s[a + 1 + i - 1]
    BY <2>1, SubSeqProperties
  <2>3. \A i \in 1 .. b - a - 1 : a + 1 + i - 1 = a + i
    OBVIOUS
  <2> HIDE DEF u
  <2> QED
    BY <2>1, <2>2, <2>3
<1>3. /\ v \in Seq(W)
      /\ Len(v) = IF a2 + 1 <= b2 - 1 THEN b2 - a2 - 1 ELSE 0
      /\ \A i \in 1 .. b2 - a2 - 1 : v[i] = t[a2 + i]
  <2>1. /\ a2 + 1 \in Int /\ b2 - 1 \in Int /\ (b2 - 1) - (a2 + 1) + 1 = b2 - a2 - 1
        /\ \A i \in a2 + 1 .. b2 - 1 : t[i] \in W
    BY <1>0, <1>1
  <2>2. /\ v \in Seq(W)
        /\ Len(v) = IF a2 + 1 <= b2 - 1 THEN (b2 - 1) - (a2 + 1) + 1 ELSE 0
        /\ \A i \in 1 .. (b2 - 1) - (a2 + 1) + 1 : v[i] = t[a2 + 1 + i - 1]
    BY <2>1, SubSeqProperties
  <2>3. \A i \in 1 .. b2 - a2 - 1 : a2 + 1 + i - 1 = a2 + i
    OBVIOUS
  <2> HIDE DEF v
  <2> QED
    BY <2>1, <2>2, <2>3
<1> HIDE DEF u, v
<1>4. ASSUME NEW i \in 1 .. Len(u) PROVE u[i] = v[i]
  <2>1. i \in 1 .. b - a - 1 /\ i \in 1 .. b2 - a2 - 1
    BY <1>0, <1>2
  <2>2. a + i \in a + 1 .. b - 1 /\ (a + i) - a + a2 = a2 + i
    BY <1>0, <1>2
  <2>3. u[i] = s[a + i] /\ v[i] = t[a2 + i]
    BY <1>2, <1>3, <2>1
  <2>4. s[a + i] = t[(a + i) - a + a2]
    BY <2>2 DEF Shifted
  <2> QED
    BY <2>2, <2>3, <2>4
<1>5. Len(u) = Len(v)
  BY <1>0, <1>2, <1>3
<1>6. u = v
  BY <1>2, <1>3, <1>4, <1>5, SeqEqual
<1> QED
  BY <1>6 DEF u, v, Between

\* A part of a clean text is clean.
LEMMA CleanPart ==
  ASSUME NEW S, NEW s \in Text, Clean(s, S), NEW m \in 1 .. Len(s), NEW n \in m .. Len(s)
  PROVE  Clean(SubSeq(s, m, n), S)
<1> DEFINE t == SubSeq(s, m, n)
<1>1. Len(s) \in Nat /\ DOMAIN s = 1 .. Len(s) /\ \A j \in m .. n : s[j] \in Words \cup Parts
  BY LenProperties, ElementOfSeq DEF Text
<1>2. /\ t \in Text
      /\ Len(t) = n - m + 1
      /\ \A j \in 1 .. n - m + 1 : t[j] = s[m + j - 1]
  BY <1>1, SubSeqProperties DEF Text
<1>3. DOMAIN t = 1 .. n - m + 1
  BY <1>2, LenProperties DEF Text
<1> HIDE DEF t
<1> SUFFICES ASSUME NEW a \in DOMAIN t, NEW b \in DOMAIN t, Adjacent(t, a, b),
                    Between(t, a, b) \in Addresses
             PROVE  Between(t, a, b) \in S
  BY DEF Clean, t
<1>0. m \in Nat /\ n \in Nat /\ a \in Nat /\ b \in Nat
      /\ 1 <= a /\ a <= n - m + 1 /\ 1 <= b /\ b <= n - m + 1 /\ 1 <= m /\ n <= Len(s) /\ m <= n
  BY <1>1, <1>3
<1> DEFINE a2 == m + a - 1
           b2 == m + b - 1
<1>4. a2 \in DOMAIN s /\ b2 \in DOMAIN s /\ a2 < b2 /\ s[a2] = Blank /\ s[b2] = Blank
  BY <1>1, <1>2, <1>3 DEF Adjacent
<1>5. ASSUME NEW i \in a2 + 1 .. b2 - 1 PROVE s[i] # Blank
  <2>1. i - m + 1 \in a + 1 .. b - 1 /\ i - m + 1 \in 1 .. n - m + 1 /\ m + (i - m + 1) - 1 = i
    BY <1>1, <1>3
  <2> QED
    BY <1>2, <2>1 DEF Adjacent
<1>6. Between(t, a, b) = Between(s, a2, b2)
  <2>1. 0 <= a /\ b <= Len(t) + 1 /\ 0 <= a2 /\ b2 <= Len(s) + 1 /\ b2 - a2 = b - a
    BY <1>0, <1>2
  <2>2. ASSUME NEW i \in a + 1 .. b - 1 PROVE t[i] = s[i - a + a2]
    <3>1. i \in 1 .. n - m + 1 /\ m + i - 1 = i - a + a2
      BY <1>0, <1>1
    <3> HIDE DEF a2
    <3> QED
      BY <1>2, <3>1
  <2>3. a \in Int /\ b \in Int /\ a2 \in Int /\ b2 \in Int
    BY <1>0
  <2> HIDE DEF a2, b2
  <2>4. Shifted(t, s, a, b, a2, b2)
    BY <2>1, <2>2 DEF Shifted
  <2> QED
    BY <1>2, <2>3, <2>4, ShiftedPart
<1>7. Adjacent(s, a2, b2)
  BY <1>4, <1>5 DEF Adjacent
<1> HIDE DEF a2, b2
<1> QED
  BY <1>4, <1>6, <1>7 DEF Clean

\* Glued behind a clean text, what begins with a word of the protocol gives a clean one: the
\* piece across the seam is no address.
LEMMA CleanGlued ==
  ASSUME NEW S, NEW s \in Text, NEW w \in Text, Clean(s, S), Clean(w, S),
         w # << >>, w[1] \in Words, w[1] # Blank
  PROVE  Clean(s \o w, S)
<1> DEFINE u == s \o w
           l == Len(s)
<1>1. /\ l \in Nat /\ DOMAIN s = 1 .. l /\ Len(w) \in Nat /\ DOMAIN w = 1 .. Len(w) /\ Len(w) > 0
  BY LenProperties, EmptySeq DEF Text
<1>2. u \in Text /\ Len(u) = l + Len(w) /\ DOMAIN u = 1 .. l + Len(w)
  BY ConcatProperties, LenProperties DEF Text
<1>3. /\ \A i \in 1 .. l : u[i] = s[i]
      /\ \A i \in l + 1 .. l + Len(w) : u[i] = w[i - l]
  <2>1. \A i \in 1 .. l + Len(w) : u[i] = IF i <= l THEN s[i] ELSE w[i - l]
    BY ConcatProperties DEF Text
  <2> HIDE DEF u
  <2> QED
    BY <1>1, <2>1
<1> HIDE DEF u
<1> SUFFICES ASSUME NEW a \in DOMAIN u, NEW b \in DOMAIN u, Adjacent(u, a, b),
                    Between(u, a, b) \in Addresses
             PROVE  Between(u, a, b) \in S
  BY DEF Clean, u
<1>4. /\ a \in Nat /\ b \in Nat /\ a < b /\ 1 <= a /\ b <= l + Len(w)
      /\ u[a] = Blank /\ u[b] = Blank /\ \A i \in a + 1 .. b - 1 : u[i] # Blank
  BY <1>1, <1>2 DEF Adjacent
<1> HIDE DEF l
<1>5. CASE b <= l
  <2>1. a \in 1 .. l /\ b \in 1 .. l /\ a + 1 .. b - 1 \subseteq 1 .. l
    BY <1>1, <1>4, <1>5
  <2>2. Adjacent(s, a, b)
    BY <1>1, <1>3, <1>4, <2>1 DEF Adjacent
  <2>3. Shifted(u, s, a, b, a, b)
    <3>1. ASSUME NEW i \in a + 1 .. b - 1 PROVE u[i] = s[i - a + a]
      <4>1. i \in 1 .. l /\ i - a + a = i
        BY <1>1, <1>4, <2>1
      <4> QED
        BY <1>3, <4>1
    <3>2. 0 <= a /\ b <= Len(u) + 1 /\ b <= Len(s) + 1 /\ b - a = b - a
      BY <1>1, <1>2, <1>4, <1>5 DEF l
    <3> QED
      BY <3>1, <3>2 DEF Shifted
  <2>4. Between(u, a, b) = Between(s, a, b)
    BY <1>2, <1>4, <2>3, ShiftedPart
  <2> QED
    BY <1>1, <2>1, <2>2, <2>4 DEF Clean
<1>6. CASE a > l
  <2> DEFINE a2 == a - l
             b2 == b - l
  <2>1. /\ a2 \in 1 .. Len(w) /\ b2 \in 1 .. Len(w) /\ a2 < b2
        /\ a \in l + 1 .. l + Len(w) /\ b \in l + 1 .. l + Len(w)
    BY <1>1, <1>4, <1>6
  <2>2. w[a2] = Blank /\ w[b2] = Blank
    BY <1>3, <1>4, <2>1
  <2>3. ASSUME NEW i \in a2 + 1 .. b2 - 1 PROVE w[i] # Blank
    <3>1. i + l \in a + 1 .. b - 1 /\ i + l \in l + 1 .. l + Len(w) /\ (i + l) - l = i
      BY <1>1, <1>4, <1>6
    <3> QED
      BY <1>3, <1>4, <3>1
  <2>4. Adjacent(w, a2, b2)
    BY <1>1, <2>1, <2>2, <2>3 DEF Adjacent
  <2>5. ASSUME NEW i \in a + 1 .. b - 1 PROVE u[i] = w[i - a + a2]
    <3>1. i \in l + 1 .. l + Len(w) /\ i - l = i - a + a2
      BY <1>1, <1>4, <1>6
    <3> HIDE DEF a2
    <3> QED
      BY <1>3, <3>1
  <2>6. 0 <= a /\ b <= Len(u) + 1 /\ 0 <= a2 /\ b2 <= Len(w) + 1 /\ b2 - a2 = b - a
    BY <1>1, <1>2, <1>4, <1>6
  <2>7. a \in Int /\ b \in Int /\ a2 \in Int /\ b2 \in Int
    BY <1>1, <1>4
  <2> HIDE DEF a2, b2
  <2>8. Shifted(u, w, a, b, a2, b2)
    BY <2>5, <2>6 DEF Shifted
  <2>9. Between(u, a, b) = Between(w, a2, b2)
    BY <1>2, <2>7, <2>8, ShiftedPart
  <2> QED
    BY <1>1, <2>1, <2>4, <2>9 DEF Clean
<1>7. CASE a <= l /\ b > l
  <2>1. l + 1 \in l + 1 .. l + Len(w) /\ (l + 1) - l = 1
    BY <1>1
  <2>2. u[l + 1] = w[1]
    BY <1>3, <2>1
  <2>3. b # l + 1
    BY <1>4, <2>2
  <2>4. /\ l + 1 \in a + 1 .. b - 1 /\ a + 1 \in Nat /\ b - 1 \in Nat
        /\ 1 <= a + 1 /\ b - 1 <= Len(u)
    BY <1>1, <1>2, <1>4, <1>7, <2>3
  <2> QED
    BY <1>2, <2>2, <2>4, WordsAreNoAddress DEF Between
<1> QED
  BY <1>1, <1>4, <1>5, <1>6, <1>7

LEMMA CleanGrows ==
  ASSUME NEW s, NEW S, NEW T, S \subseteq T, Clean(s, S)
  PROVE  Clean(s, T)
BY DEF Clean

\* There is no address in the words of the protocol.
LEMMA WordsClean ==
  ASSUME NEW S, NEW s \in Seq(Words)
  PROVE  s \in Text /\ Clean(s, S)
<1>1. s \in Text
  BY SeqMonotonic DEF Text
<1>2. Len(s) \in Nat /\ DOMAIN s = 1 .. Len(s) /\ \A i \in 1 .. Len(s) : s[i] \in Words
  BY LenProperties, ElementOfSeq
<1>3. ASSUME NEW a \in DOMAIN s, NEW b \in DOMAIN s
      PROVE  Between(s, a, b) \notin Addresses
  <2>1. CASE a + 1 <= b - 1
    <3>1. /\ a + 1 \in Nat /\ b - 1 \in Nat /\ a + 1 \in a + 1 .. b - 1
          /\ 1 <= a + 1 /\ b - 1 <= Len(s) /\ a + 1 \in 1 .. Len(s)
      BY <1>2, <2>1
    <3>2. s[a + 1] \in Words
      BY <1>2, <3>1
    <3> QED
      BY <1>1, <3>1, <3>2, WordsAreNoAddress DEF Between
  <2>2. CASE ~(a + 1 <= b - 1)
    <3>1. a + 1 \in Int /\ b - 1 \in Int /\ \A i \in a + 1 .. b - 1 : s[i] \in Words
      BY <1>2, <2>2
    <3>2. SubSeq(s, a + 1, b - 1) = << >>
      BY <2>2, <3>1, SubSeqProperties, EmptySeq
    <3> QED
      BY <3>2, AddressType DEF Between
  <2> QED
    BY <2>1, <2>2
<1> QED
  BY <1>1, <1>3 DEF Clean

LEMMA CleanReplies ==
  /\ \A verb, ok \in Words \ {Blank} : \A S :
        /\ Clean(Reply(verb, ok), S)
        /\ Reply(verb, ok)[1] \in Words \ {Blank}
  /\ \A S : /\ Clean(ErrorReply, S) /\ ErrorReply[1] \in Words \ {Blank}
            /\ Clean(FrameWrite, S) /\ FrameWrite[1] \in Words \ {Blank}
<1>1. /\ Blank \in Words /\ "command" \in Words /\ "error" \in Words /\ "frame" \in Words
      /\ "command" # Blank /\ "frame" # Blank
  BY DEF Words, Blank
<1>2. ASSUME NEW verb \in Words \ {Blank}, NEW ok \in Words \ {Blank}
      PROVE  Reply(verb, ok) \in Seq(Words) /\ Reply(verb, ok)[1] = "command"
  BY <1>1 DEF Reply
<1>3. ErrorReply \in Seq(Words) /\ ErrorReply[1] = "command"
  BY <1>1 DEF ErrorReply
<1>4. FrameWrite \in Seq(Words) /\ FrameWrite[1] = "frame"
  BY <1>1 DEF FrameWrite
<1> QED
  BY <1>1, <1>2, <1>3, <1>4, WordsClean

\* A reply to "list" that names members of S.
Listing(w, S) ==
  /\ w \in Text /\ Len(w) >= 6
  /\ \A i \in 1 .. 6 : w[i] = Reply("list", "1")[i]
  /\ w[Len(w)] = Blank
  /\ Clean(w, S)

LEMMA ListingGrows ==
  ASSUME NEW S, NEW s, Listing(s, S), NEW m \in Addresses, m \in S
  PROVE  Listing(s \o m \o <<Blank>>, S)
<1> DEFINE l == Len(s)
           k == Len(m)
           u == s \o m \o <<Blank>>
<1>1. s \in Text /\ m \in Text /\ <<Blank>> \in Text
  BY AddressType DEF Listing, Text, Words
<1>2. l \in Nat /\ l >= 6 /\ k \in Nat /\ DOMAIN s = 1 .. l /\ DOMAIN m = 1 .. k
  BY <1>1, LenProperties DEF Listing, Text
<1>3. s \o m \in Text /\ Len(s \o m) = l + k
      /\ \A i \in 1 .. l + k : (s \o m)[i] = IF i <= l THEN s[i] ELSE m[i - l]
  BY <1>1, ConcatProperties DEF Text
<1>4. /\ u \in Text /\ Len(u) = l + k + 1
      /\ \A i \in 1 .. l + k + 1 : u[i] = IF i <= l + k THEN (s \o m)[i] ELSE Blank
  <2>1. Len(<<Blank>>) = 1 /\ <<Blank>>[1] = Blank
    OBVIOUS
  <2>2. /\ u \in Text /\ Len(u) = Len(s \o m) + Len(<<Blank>>)
        /\ \A i \in 1 .. Len(s \o m) + Len(<<Blank>>) :
             u[i] = IF i <= Len(s \o m) THEN (s \o m)[i] ELSE <<Blank>>[i - Len(s \o m)]
    BY <1>1, <1>3, ConcatProperties DEF Text
  <2> HIDE DEF u
  <2>3. ASSUME NEW i \in 1 .. l + k + 1, ~(i <= l + k) PROVE <<Blank>>[i - (l + k)] = Blank
    <3>1. i - (l + k) = 1
      BY <1>2, <2>3
    <3> QED
      BY <3>1
  <2> QED
    BY <1>2, <1>3, <2>1, <2>2, <2>3
<1>5. DOMAIN u = 1 .. l + k + 1
  BY <1>4, LenProperties DEF Text
<1> HIDE DEF u
<1>6. /\ \A i \in 1 .. l : u[i] = s[i]
      /\ \A i \in l + 1 .. l + k : u[i] = m[i - l] /\ u[i] # Blank
      /\ u[l + k + 1] = Blank
  <2>1. ASSUME NEW i \in 1 .. l PROVE u[i] = s[i]
    <3>1. i \in 1 .. l + k /\ i \in 1 .. l + k + 1 /\ i <= l /\ i <= l + k
      BY <1>2
    <3> QED
      BY <1>3, <1>4, <3>1
  <2>2. ASSUME NEW i \in l + 1 .. l + k PROVE u[i] = m[i - l] /\ u[i] # Blank
    <3>1. i \in 1 .. l + k /\ i \in 1 .. l + k + 1 /\ ~(i <= l) /\ i <= l + k /\ i - l \in 1 .. k
      BY <1>2
    <3>2. u[i] = m[i - l]
      BY <1>3, <1>4, <3>1
    <3> QED
      BY <3>1, <3>2, AddressType DEF Words
  <2>3. u[l + k + 1] = Blank
    BY <1>2, <1>4
  <2> QED
    BY <2>1, <2>2, <2>3
<1> HIDE DEF l, k
<1>7. Clean(u, S)
  <2> SUFFICES ASSUME NEW a \in DOMAIN u, NEW b \in DOMAIN u, Adjacent(u, a, b),
                      Between(u, a, b) \in Addresses
               PROVE  Between(u, a, b) \in S
    BY DEF Clean
  <2>1. /\ a \in Nat /\ b \in Nat /\ a < b /\ 1 <= a /\ b <= l + k + 1
        /\ u[a] = Blank /\ u[b] = Blank /\ \A i \in a + 1 .. b - 1 : u[i] # Blank
    BY <1>2, <1>5 DEF Adjacent
  <2>2. CASE b <= l
    <3>1. a \in 1 .. l /\ b \in 1 .. l /\ a + 1 .. b - 1 \subseteq 1 .. l
      BY <1>2, <2>1, <2>2
    <3>2. Adjacent(s, a, b)
      BY <1>2, <1>6, <2>1, <3>1 DEF Adjacent
    <3>3. ASSUME NEW i \in a + 1 .. b - 1 PROVE u[i] = s[i - a + a]
      <4>1. i \in 1 .. l /\ i - a + a = i
        BY <1>2, <2>1, <3>1
      <4> QED
        BY <1>6, <4>1
    <3>4. 0 <= a /\ b <= Len(u) + 1 /\ b <= Len(s) + 1 /\ b - a = b - a
      BY <1>2, <1>4, <2>1, <2>2 DEF l
    <3>5. Shifted(u, s, a, b, a, b)
      BY <3>3, <3>4 DEF Shifted
    <3>6. Between(u, a, b) = Between(s, a, b)
      BY <1>1, <1>4, <2>1, <3>5, ShiftedPart
    <3> QED
      BY <1>2, <3>1, <3>2, <3>6 DEF Clean, Listing
  <2>3. CASE b > l
    <3>1. b = l + k + 1
      <4>1. b \notin l + 1 .. l + k
        BY <1>6, <2>1
      <4> QED
        BY <1>2, <2>1, <2>3, <4>1
    <3>2. a <= l
      <4>1. a \notin l + 1 .. l + k
        BY <1>6, <2>1
      <4> QED
        BY <1>2, <2>1, <3>1, <4>1
    <3>3. u[l] = Blank
      <4>1. l \in 1 .. l
        BY <1>2
      <4> QED
        BY <1>6, <4>1 DEF Listing, l
    <3>4. a = l
      <4>1. l \notin a + 1 .. b - 1
        BY <2>1, <3>3
      <4> QED
        BY <1>2, <2>1, <2>3, <3>2, <4>1
    <3> DEFINE z == 0
               e == k + 1
    <3>5. ASSUME NEW i \in a + 1 .. b - 1 PROVE u[i] = m[i - a + z]
      <4>1. i \in l + 1 .. l + k /\ i - l = i - a + z
        BY <1>2, <2>1, <3>1, <3>4
      <4> HIDE DEF z
      <4> QED
        BY <1>6, <4>1
    <3>6. /\ 0 <= a /\ b <= Len(u) + 1 /\ 0 <= z /\ e <= Len(m) + 1 /\ e - z = b - a
          /\ z \in Int /\ e \in Int
      BY <1>2, <1>4, <2>1, <3>1, <3>4 DEF k
    <3>7. Between(m, z, e) = m
      <4>1. SubSeq(m, 1, Len(m)) = m
        BY <1>1, SubSeqFull DEF Text
      <4>2. z + 1 = 1 /\ e - 1 = Len(m)
        BY <1>2 DEF k
      <4> QED
        BY <4>1, <4>2 DEF Between
    <3> HIDE DEF z, e
    <3>8. Shifted(u, m, a, b, z, e)
      BY <3>5, <3>6 DEF Shifted
    <3>9. Between(u, a, b) = m
      BY <1>1, <1>4, <2>1, <3>6, <3>7, <3>8, ShiftedPart
    <3> QED
      BY <3>9
  <2> QED
    BY <1>2, <2>1, <2>2, <2>3
<1>8. Len(u) >= 6 /\ u[Len(u)] = Blank
  BY <1>2, <1>4, <1>6
<1>9. ASSUME NEW i \in 1 .. 6 PROVE u[i] = Reply("list", "1")[i]
  <2>1. i \in 1 .. l
    BY <1>2
  <2> QED
    BY <1>6, <2>1 DEF Listing
<1> QED
  BY <1>4, <1>7, <1>8, <1>9 DEF Listing, u

\* The reply to "list" names the members that it is made of, and no other address.
LEMMA ListReplyLists ==
  ASSUME NEW S, NEW members, Len(members) \in Nat,
         \A i \in 1 .. Len(members) : members[i] \in S \cap Addresses
  PROVE  Listing(ListReply(members), S)
<1>1. PICK f : /\ f[0] = Reply("list", "1")
               /\ \A i \in 1 .. Len(members) : f[i] = f[i - 1] \o members[i] \o <<Blank>>
               /\ ListReply(members) = f[Len(members)]
  BY ListReplyGrows
<1> DEFINE T == {i \in 0 .. Len(members) : ~Listing(f[i], S)}
<1>2. T = {}
  <2> SUFFICES ASSUME T # {} PROVE FALSE
    OBVIOUS
  <2>1. PICK n \in T : \A i \in T : n <= i
    <3>1. T \subseteq Nat
      OBVIOUS
    <3> HIDE DEF T
    <3> QED
      BY <3>1, LeastNat
  <2>2. n # 0
    <3>1. /\ "list" \in Words \ {Blank} /\ "1" \in Words \ {Blank}
          /\ Reply("list", "1")[6] = Blank
      BY DEF Words, Blank, Reply
    <3>2. Listing(Reply("list", "1"), S)
      BY <3>1, ReplyType, CleanReplies DEF Listing
    <3> QED
      BY <1>1, <3>2
  <2>3. n \in 1 .. Len(members) /\ n - 1 \in 0 .. Len(members) /\ n - 1 \notin T
    BY <2>1, <2>2
  <2>4. Listing(f[n - 1], S) /\ f[n] = f[n - 1] \o members[n] \o <<Blank>>
    BY <1>1, <2>3
  <2>5. members[n] \in Addresses /\ members[n] \in S
    BY <2>3
  <2>6. Listing(f[n], S)
    BY <2>4, <2>5, ListingGrows
  <2> QED
    BY <2>6
<1> QED
  BY <1>1, <1>2

\* What updateLobbyList reads from a clean text are addresses that were listed.
LEMMA CleanMembers ==
  ASSUME NEW S, NEW s \in Text, Clean(s, S)
  PROVE  Understood(s).members \cap Addresses \subseteq S
<1>1. Len(s) \in Nat /\ DOMAIN s = 1 .. Len(s)
  BY LenProperties DEF Text
<1>2. ASSUME NEW a, NEW m \in Listed(s, a), m \in Addresses PROVE m \in S
  <2>1. PICK b \in DOMAIN s : s[b] = Blank /\ Stop(s, b) <= Len(s) /\ m = Piece(s, b)
    BY <1>2 DEF Listed
  <2>2. /\ Stop(s, b) \in 1 .. Len(s) + 1 /\ Stop(s, b) > b /\ s[Stop(s, b)] = Blank
        /\ \A i \in b + 1 .. Stop(s, b) - 1 : s[i] # Blank
    <3>1. b \in Nat
      BY <1>1
    <3> QED
      BY <2>1, <3>1, StopProperties
  <2>3. Stop(s, b) \in DOMAIN s
    BY <1>1, <2>1, <2>2
  <2>4. Adjacent(s, b, Stop(s, b)) /\ m = Between(s, b, Stop(s, b))
    BY <1>1, <2>1, <2>2, <2>3 DEF Adjacent, Between, Piece
  <2> QED
    BY <1>2, <2>3, <2>4 DEF Clean
<1>3. \/ Understood(s).members = {}
      \/ \E a : Understood(s).members = Listed(s, a)
  BY DEF Understood, Response, None
<1> QED
  BY <1>2, <1>3

-----------------------------------------------------------------------------
(* Every step keeps the types.                                             *)

LEMMA GotoType ==
  ASSUME Types, NEW c \in Clients, NEW thread \in {"main", "checker", "listener"},
         NEW label \in Labels, Goto(c, thread, label)
  PROVE  at' \in [Clients -> [main : Labels, checker : Labels, listener : Labels]]
<1>1. at \in [Clients -> [main : Labels, checker : Labels, listener : Labels]]
  BY DEF Types, ThreadTypes
<1>2. CASE thread = "main"
  BY <1>1, <1>2 DEF Goto
<1>3. CASE thread = "checker"
  BY <1>1, <1>3 DEF Goto
<1>4. CASE thread = "listener"
  BY <1>1, <1>4 DEF Goto
<1> QED
  BY <1>2, <1>3, <1>4

LEMMA CountedKept ==
  ASSUME Types, UNCHANGED <<conn, scenario>>,
         \A c \in Clients : alive'[c] => alive[c]
  PROVE  Counted'
BY DEF Types, Counted

LEMMA StartTypes ==
  ASSUME Types, NEW c \in Clients, Start(c)
  PROVE  Types'
<1>1. at' \in [Clients -> [main : Labels, checker : Labels, listener : Labels]]
  BY GotoType DEF Start, Labels
<1>2. Open(c)
  BY DEF Start
<1> QED
  BY <1>1, <1>2, OpenType
     DEF Start, Types, ThreadTypes, WireTypes, ServerTypes, BoundTypes, Counted,
         serverVars, boundVars

LEMMA ReconnectTypes ==
  ASSUME Types, NEW c \in Clients, NEW t \in {"main", "checker"}, Reconnect(c, t)
  PROVE  Types'
<1>1. at' \in [Clients -> [main : Labels, checker : Labels, listener : Labels]]
  BY GotoType DEF Reconnect, Labels
<1>2. Open(c)
  BY DEF Reconnect
<1> QED
  BY <1>1, <1>2, OpenType
     DEF Reconnect, Types, ThreadTypes, WireTypes, ServerTypes, BoundTypes, Counted,
         serverVars, boundVars

LEMMA JoinLobbyTypes ==
  ASSUME Types, NEW c \in Clients, NEW t \in {"main", "checker"}, JoinLobby(c, t)
  PROVE  Types'
<1>1. at' \in [Clients -> [main : Labels, checker : Labels, listener : Labels]]
  BY GotoType DEF JoinLobby, Labels
<1>2. /\ requests' \in [Clients -> [Conns -> Seq(Message)]]
      /\ connected' \in [Clients -> BOOLEAN]
  <2>1. <<"join">> \in Message
    BY DEF Message
  <2> QED
    BY <2>1, SendType DEF JoinLobby
<1> QED
  BY <1>1, <1>2
     DEF JoinLobby, Types, ThreadTypes, WireTypes, ServerTypes, BoundTypes, Counted,
         serverVars, boundVars

LEMMA GetLobbyMembersTypes ==
  ASSUME Types, NEW c \in Clients, NEW t \in {"main", "checker"}, GetLobbyMembers(c, t)
  PROVE  Types'
<1>1. at' \in [Clients -> [main : Labels, checker : Labels, listener : Labels]]
  <2>1. CASE at[c].listener = "off"
    BY <2>1 DEF GetLobbyMembers, Types, ThreadTypes, Labels
  <2>2. CASE at[c].listener # "off"
    BY <2>2, GotoType DEF GetLobbyMembers, Labels
  <2> QED
    BY <2>1, <2>2
<1>2. /\ requests' \in [Clients -> [Conns -> Seq(Message)]]
      /\ connected' \in [Clients -> BOOLEAN]
  <2>1. <<"list">> \in Message
    BY DEF Message
  <2> QED
    BY <2>1, SendType DEF GetLobbyMembers
<1> QED
  BY <1>1, <1>2
     DEF GetLobbyMembers, Types, ThreadTypes, WireTypes, ServerTypes, BoundTypes, Counted,
         serverVars, boundVars

LEMMA CheckConnectionTypes ==
  ASSUME Types, NEW c \in Clients, CheckConnection(c)
  PROVE  Types'
<1>1. at' \in [Clients -> [main : Labels, checker : Labels, listener : Labels]]
  <2>1. PICK label \in Labels : Goto(c, "checker", label)
    BY DEF CheckConnection, Labels
  <2> QED
    BY <2>1, GotoType
<1>2. /\ memberList' \in [Clients -> SUBSET Text]
      /\ scan' \in [Clients -> Search]
      /\ join' \in [Clients -> BOOLEAN]
  <2>1. CASE connected[c]
    BY <2>1 DEF CheckConnection, Types, ThreadTypes
  <2>2. CASE ~connected[c]
    <3>1. SetMembers(c, {}) /\ join' = [join EXCEPT ![c] = FALSE]
      BY <2>2 DEF CheckConnection
    <3> QED
      BY <3>1, SetMembersType DEF Types, ThreadTypes
  <2> QED
    BY <2>1, <2>2
<1> QED
  BY <1>1, <1>2
     DEF CheckConnection, Types, ThreadTypes, WireTypes, ServerTypes, BoundTypes, Counted,
         serverVars, boundVars

LEMMA LeaveLobbyTypes ==
  ASSUME Types, NEW c \in Clients, LeaveLobby(c)
  PROVE  Types'
<1>1. at' \in [Clients -> [main : Labels, checker : Labels, listener : Labels]]
  BY GotoType DEF LeaveLobby, Labels
<1> QED
  BY <1>1
     DEF LeaveLobby, Types, ThreadTypes, WireTypes, ServerTypes, BoundTypes, Counted,
         serverVars, boundVars

LEMMA MenuTypes ==
  ASSUME Types, NEW c \in Clients, Menu(c)
  PROVE  Types'
<1>1. /\ menu' \in Nat
      /\ UNCHANGED <<scenario, drops, handler, lobby, told>>
  BY DEF Menu, serverVars, Types, BoundTypes
<1>2. PICK choice \in scenario.choices :
        \/ /\ choice \in {"join", "list", "reconnect"}
           /\ Goto(c, "main", choice)
           /\ UNCHANGED <<conn, alive, connected, join, memberList, chunk, scan, requests,
                          replies>>
        \/ /\ choice \in {"leave", "send"}
           /\ SendData(c, <<choice>>)
           /\ Goto(c, "main", IF choice = "leave" THEN "unjoin" ELSE "idle")
           /\ UNCHANGED <<conn, alive, join, memberList, chunk, scan, replies>>
        \/ /\ choice = "quit"
           /\ End(c)
  BY DEF Menu
<1>3. CASE choice \in {"join", "list", "reconnect"}
  <2>1. /\ Goto(c, "main", choice)
        /\ UNCHANGED <<conn, alive, connected, join, memberList, chunk, scan, requests,
                       replies>>
    BY <1>2, <1>3
  <2>2. at' \in [Clients -> [main : Labels, checker : Labels, listener : Labels]]
    BY <1>3, <2>1, GotoType DEF Labels
  <2> QED
    BY <1>1, <2>1, <2>2 DEF Types, ThreadTypes, WireTypes, ServerTypes, BoundTypes, Counted
<1>4. CASE choice \in {"leave", "send"}
  <2>1. /\ SendData(c, <<choice>>)
        /\ Goto(c, "main", IF choice = "leave" THEN "unjoin" ELSE "idle")
        /\ UNCHANGED <<conn, alive, join, memberList, chunk, scan, replies>>
    BY <1>2, <1>4
  <2>2. at' \in [Clients -> [main : Labels, checker : Labels, listener : Labels]]
    BY <2>1, GotoType DEF Labels
  <2>3. /\ requests' \in [Clients -> [Conns -> Seq(Message)]]
        /\ connected' \in [Clients -> BOOLEAN]
    <3>1. <<choice>> \in Message
      BY <1>4 DEF Message
    <3> QED
      BY <2>1, <3>1, SendType
  <2> QED
    BY <1>1, <2>1, <2>2, <2>3
       DEF Types, ThreadTypes, WireTypes, ServerTypes, BoundTypes, Counted
<1>5. CASE choice = "quit"
  <2>1. End(c)
    BY <1>2, <1>5
  <2>2. ThreadTypes' /\ WireTypes' /\ Counted'
    BY <1>1, <2>1, EndType
  <2> QED
    BY <1>1, <2>2 DEF Types, ServerTypes, BoundTypes
<1> QED
  BY <1>2, <1>3, <1>4, <1>5

\* What recv() returns, and what is left for the next one.
LEMMA RecvParts ==
  ASSUME Types, NEW c \in Clients, Recv(c)
  PROVE  \E n \in DOMAIN Head(replies[c]) :
           LET s == Head(replies[c])
               rest == IF n = Len(s) THEN Tail(replies[c])
                       ELSE <<SubSeq(s, n + 1, Len(s))>> \o Tail(replies[c])
           IN  /\ scenario.cuts \/ n = Len(s)
               /\ s \in Text /\ Len(s) \in Nat /\ n \in 1 .. Len(s)
               /\ replies[c] # << >> /\ replies[c] \in Seq(Text \ {<< >>})
               /\ SubSeq(s, 1, n) \in Text
               /\ rest \in Seq(Text \ {<< >>})
               /\ chunk' = [chunk EXCEPT ![c] = Understood(SubSeq(s, 1, n))]
               /\ replies' = [replies EXCEPT ![c] = rest]
<1> DEFINE s == Head(replies[c])
           tail == Tail(replies[c])
<1>1. replies[c] # << >> /\ replies[c] \in Seq(Text \ {<< >>})
  BY DEF Recv, Types, WireTypes
<1>2. s \in Text /\ s # << >> /\ tail \in Seq(Text \ {<< >>})
  BY <1>1, HeadTailProperties
<1>3. Len(s) \in Nat /\ DOMAIN s = 1 .. Len(s) /\ \A i \in 1 .. Len(s) : s[i] \in Words \cup Parts
  <2> HIDE DEF s
  <2> QED
    BY <1>2, LenProperties, ElementOfSeq DEF Text
<1>4. PICK n \in DOMAIN s :
        /\ scenario.cuts \/ n = Len(s)
        /\ chunk' = [chunk EXCEPT ![c] = Understood(SubSeq(s, 1, n))]
        /\ replies' = [replies EXCEPT ![c] =
                         IF n = Len(s) THEN tail ELSE <<SubSeq(s, n + 1, Len(s))>> \o tail]
  BY DEF Recv, Types, WireTypes
<1> HIDE DEF s, tail
<1>5. SubSeq(s, 1, n) \in Text
  <2>1. 1 \in Int /\ n \in Int /\ \A i \in 1 .. n : s[i] \in Words \cup Parts
    BY <1>3
  <2> QED
    BY <2>1, SubSeqProperties DEF Text
<1>6. ASSUME n # Len(s)
      PROVE  <<SubSeq(s, n + 1, Len(s))>> \o tail \in Seq(Text \ {<< >>})
  <2> DEFINE m == n + 1
  <2>1. m \in Int /\ Len(s) \in Int /\ m <= Len(s) /\ \A i \in m .. Len(s) : s[i] \in Words \cup Parts
    BY <1>3, <1>6
  <2> HIDE DEF m
  <2>2. SubSeq(s, m, Len(s)) \in Text /\ Len(SubSeq(s, m, Len(s))) > 0
    BY <2>1, SubSeqProperties DEF Text
  <2>3. SubSeq(s, m, Len(s)) \in Text \ {<< >>}
    <3>1. SubSeq(s, m, Len(s)) # << >>
      <4> SUFFICES ASSUME SubSeq(s, m, Len(s)) = << >> PROVE FALSE
        OBVIOUS
      <4>1. Len(<< >>) > 0
        BY <2>2
      <4> QED
        BY <4>1, EmptySeq
    <3> QED
      BY <2>2, <3>1
  <2>4. <<SubSeq(s, m, Len(s))>> \in Seq(Text \ {<< >>})
    BY <2>3
  <2>5. <<SubSeq(s, m, Len(s))>> \o tail \in Seq(Text \ {<< >>})
    BY <1>2, <2>4, ConcatProperties
  <2> QED
    BY <2>5 DEF m
<1>7. (IF n = Len(s) THEN tail ELSE <<SubSeq(s, n + 1, Len(s))>> \o tail)
        \in Seq(Text \ {<< >>})
  BY <1>2, <1>6
<1> QED
  BY <1>1, <1>2, <1>3, <1>4, <1>5, <1>7 DEF s, tail

LEMMA RecvTypes ==
  ASSUME Types, NEW c \in Clients, Recv(c)
  PROVE  Types'
<1>1. PICK text \in Text, rest \in Seq(Text \ {<< >>}) :
        /\ chunk' = [chunk EXCEPT ![c] = Understood(text)]
        /\ replies' = [replies EXCEPT ![c] = rest]
  <2> DEFINE s == Head(replies[c])
             Rest(n) == IF n = Len(s) THEN Tail(replies[c])
                        ELSE <<SubSeq(s, n + 1, Len(s))>> \o Tail(replies[c])
  <2>1. PICK n \in DOMAIN s :
          /\ SubSeq(s, 1, n) \in Text
          /\ Rest(n) \in Seq(Text \ {<< >>})
          /\ chunk' = [chunk EXCEPT ![c] = Understood(SubSeq(s, 1, n))]
          /\ replies' = [replies EXCEPT ![c] = Rest(n)]
    BY RecvParts
  <2> HIDE DEF s, Rest
  <2> QED
    BY <2>1
<1>2. at' \in [Clients -> [main : Labels, checker : Labels, listener : Labels]]
  BY GotoType DEF Recv, Labels
<1>3. Understood(text) \in [verb : Verbs, members : SUBSET Text]
  BY UnderstoodType
<1> QED
  BY <1>1, <1>2, <1>3
     DEF Recv, Types, ThreadTypes, WireTypes, ServerTypes, BoundTypes, Counted,
         serverVars, boundVars

LEMMA RecvEndsTypes ==
  ASSUME Types, NEW c \in Clients, RecvEnds(c)
  PROVE  Types'
BY DEF RecvEnds, Types, ThreadTypes, WireTypes, ServerTypes, BoundTypes, Counted,
       serverVars, boundVars

LEMMA CallbackTypes ==
  ASSUME Types, NEW c \in Clients, Callback(c)
  PROVE  Types'
<1>1. UNCHANGED <<handler, lobby, told, scenario, menu, drops>>
  BY DEF Callback, serverVars, boundVars
<1>2. CASE End(c)
  <2>1. ThreadTypes' /\ WireTypes' /\ Counted'
    BY <1>1, <1>2, EndType
  <2> QED
    BY <1>1, <2>1 DEF Types, ServerTypes, BoundTypes
<1>3. CASE /\ HandleResponse(c, chunk[c])
           /\ Goto(c, "listener", "recv")
           /\ chunk' = [chunk EXCEPT ![c] = None]
           /\ UNCHANGED <<conn, alive, connected, requests, replies>>
  <2>1. at' \in [Clients -> [main : Labels, checker : Labels, listener : Labels]]
    BY <1>3, GotoType DEF Labels
  <2>2. chunk[c] \in [verb : Verbs, members : SUBSET Text]
    BY DEF Types, ThreadTypes
  <2>3. /\ join' \in [Clients -> BOOLEAN]
        /\ memberList' \in [Clients -> SUBSET Text]
        /\ scan' \in [Clients -> Search]
    BY <1>3, <2>2, HandleResponseType
  <2>4. None \in [verb : Verbs, members : SUBSET Text]
    BY DEF None, Verbs
  <2> QED
    BY <1>1, <1>3, <2>1, <2>3, <2>4
       DEF Types, ThreadTypes, WireTypes, ServerTypes, BoundTypes, Counted
<1> QED
  BY <1>2, <1>3 DEF Callback

LEMMA ScanTypes ==
  ASSUME Types, NEW c \in Clients, NEW d \in Addresses, Scan(c, d)
  PROVE  Types'
<1>1. [dst |-> d, seen |-> memberList[c], torn |-> FALSE]
        \in Search
  BY DEF Types, ThreadTypes, Search
<1> QED
  BY <1>1 DEF Scan, Types, ThreadTypes, WireTypes, ServerTypes, BoundTypes, Counted,
              serverVars, boundVars

LEMMA TransmitTypes ==
  ASSUME Types, NEW c \in Clients, Transmit(c)
  PROVE  Types'
<1>1. requests' \in [Clients -> [Conns -> Seq(Message)]]
  <2>1. scan[c].dst \in Message
    BY DEF Transmit, Types, ThreadTypes, Search, Message
  <2>2. CASE connected[c]
    BY <2>1, <2>2, SendType DEF Transmit
  <2>3. CASE ~connected[c]
    BY <2>3 DEF Transmit, Types, WireTypes
  <2> QED
    BY <2>2, <2>3
<1> QED
  BY <1>1 DEF Transmit, Types, ThreadTypes, WireTypes, ServerTypes, BoundTypes, Counted,
              Search, serverVars, boundVars

LEMMA DiscardTypes ==
  ASSUME Types, NEW c \in Clients, Discard(c)
  PROVE  Types'
<1>1. UNCHANGED <<handler, lobby, told, scenario, menu, drops>>
  BY DEF Discard, serverVars, boundVars
<1>2. CASE End(c)
  <2>1. ThreadTypes' /\ WireTypes' /\ Counted'
    BY <1>1, <1>2, EndType
  <2> QED
    BY <1>1, <2>1 DEF Types, ServerTypes, BoundTypes
<1>3. CASE /\ scan' = [scan EXCEPT ![c] = NoScan]
           /\ UNCHANGED <<at, conn, alive, connected, join, memberList, chunk, requests,
                          replies>>
  BY <1>1, <1>3 DEF Types, ThreadTypes, WireTypes, ServerTypes, BoundTypes, Counted, Search
<1> QED
  BY <1>2, <1>3 DEF Discard

\* Where the threads of the server are.
LEMMA HandlerType ==
  ASSUME Types, NEW c \in Clients, NEW g \in Conns, NEW label \in Handlers
  PROVE  /\ Becomes(c, g, label) => handler' \in [Clients -> [Conns -> Handlers]]
         /\ Resizes(c, g, label) => handler' \in [Clients -> [Conns -> Handlers]]
         /\ handler' = Resized(handler) => handler' \in [Clients -> [Conns -> Handlers]]
<1>1. handler \in [Clients -> [Conns -> Handlers]]
  BY DEF Types, ServerTypes
<1>2. ASSUME NEW hs \in [Clients -> [Conns -> Handlers]]
      PROVE  Resized(hs) \in [Clients -> [Conns -> Handlers]]
  BY DEF Resized, Handlers
<1>3. [handler EXCEPT ![c][g] = label] \in [Clients -> [Conns -> Handlers]]
  BY <1>1
<1> QED
  BY <1>1, <1>2, <1>3 DEF Becomes, Resizes

\* A thread of the server takes requests.
LEMMA TakeType ==
  ASSUME Types, NEW c \in Clients, NEW g \in Conns, NEW rest \in Seq(Message), Take(c, g, rest)
  PROVE  requests' \in [Clients -> [Conns -> Seq(Message)]]
BY DEF Take, Types, WireTypes

Eof == <<"eof">>

LEMMA EofIsNoRequest ==
  /\ Eof \in Message /\ Eof \notin Addresses
  /\ Eof \notin {<<"join">>, <<"list">>, <<"leave">>, <<"send">>, <<"rest">>}
<1>1. Len(Eof) = 1 /\ Eof[1] \in Words
  BY DEF Eof, Words
<1> QED
  BY <1>1, AddressType DEF Eof, Message

\* What is left when one request, a part of one or several are read.
Leftover(rs, rest) ==
  \/ Head(rs) # Eof /\ rest = Tail(rs)
  \/ Head(rs) # Eof /\ rest = [rs EXCEPT ![1] = <<"rest">>]
  \/ \E n \in 2 .. Len(rs) :
       (\A i \in 1 .. n : rs[i] # Eof) /\ rest = SubSeq(rs, n + 1, Len(rs))

\* n requests are gone, and the first of the others may be cut.
LEMMA LeftoverParts ==
  ASSUME NEW rs \in Seq(Message), rs # << >>, NEW rest, Leftover(rs, rest)
  PROVE  /\ rest \in Seq(Message)
         /\ \E n \in 0 .. Len(rs) :
              /\ Len(rest) = Len(rs) - n
              /\ \A i \in 1 .. n : rs[i] # Eof
              /\ \A i \in 1 .. Len(rest) : rest[i] = Eof <=> rs[i + n] = Eof
<1>1. /\ Len(rs) \in Nat /\ Len(rs) > 0 /\ Head(rs) = rs[1]
      /\ \A i \in 1 .. Len(rs) : rs[i] \in Message
  BY EmptySeq, LenProperties, ElementOfSeq, HeadTailProperties
<1>2. CASE Head(rs) # Eof /\ rest = Tail(rs)
  <2>1. /\ rest \in Seq(Message) /\ Len(rest) = Len(rs) - 1
        /\ \A i \in 1 .. Len(rs) - 1 : rest[i] = rs[i + 1]
    BY <1>1, <1>2, HeadTailProperties
  <2>2. 1 \in 0 .. Len(rs) /\ \A i \in 1 .. 1 : rs[i] # Eof
    BY <1>1, <1>2
  <2> QED
    BY <2>1, <2>2
<1>3. CASE Head(rs) # Eof /\ rest = [rs EXCEPT ![1] = <<"rest">>]
  <2>1. <<"rest">> \in Message /\ <<"rest">> # Eof
    BY EofIsNoRequest DEF Message
  <2>2. rs \in [1 .. Len(rs) -> Message]
    BY <1>1, LenProperties
  <2>3. /\ rest \in [1 .. Len(rs) -> Message]
        /\ \A i \in 1 .. Len(rs) : rest[i] = IF i = 1 THEN <<"rest">> ELSE rs[i]
    BY <1>1, <1>3, <2>1, <2>2
  <2>4. rest \in Seq(Message)
    BY <1>1, <2>3
  <2>5. Len(rest) = Len(rs)
    BY <1>1, <2>3, <2>4, LenProperties
  <2>6. ASSUME NEW i \in 1 .. Len(rest) PROVE rest[i] = Eof <=> rs[i + 0] = Eof
    <3>1. i + 0 = i /\ i \in 1 .. Len(rs)
      BY <1>1, <2>5
    <3> QED
      BY <1>1, <1>3, <2>1, <2>3, <3>1
  <2>7. 0 \in 0 .. Len(rs) /\ Len(rest) = Len(rs) - 0 /\ \A i \in 1 .. 0 : rs[i] # Eof
    BY <1>1, <2>5
  <2> QED
    BY <2>4, <2>6, <2>7
<1>4. ASSUME NEW n \in 2 .. Len(rs), \A i \in 1 .. n : rs[i] # Eof,
             rest = SubSeq(rs, n + 1, Len(rs))
      PROVE  /\ rest \in Seq(Message)
             /\ Len(rest) = Len(rs) - n
             /\ \A i \in 1 .. Len(rest) : rest[i] = rs[i + n]
  <2>1. /\ n + 1 \in Int /\ Len(rs) \in Int /\ Len(rs) - (n + 1) + 1 = Len(rs) - n
        /\ \A i \in n + 1 .. Len(rs) : rs[i] \in Message
    BY <1>1, <1>4
  <2>2. /\ rest \in Seq(Message)
        /\ Len(rest) = IF n + 1 <= Len(rs) THEN Len(rs) - (n + 1) + 1 ELSE 0
        /\ \A i \in 1 .. Len(rs) - (n + 1) + 1 : rest[i] = rs[n + 1 + i - 1]
    BY <1>4, <2>1, SubSeqProperties
  <2>3. Len(rest) = Len(rs) - n
    <3>1. n \in Nat /\ n <= Len(rs)
      BY <1>1
    <3>2. CASE n + 1 <= Len(rs)
      BY <2>1, <2>2, <3>2
    <3>3. CASE ~(n + 1 <= Len(rs))
      <4>1. Len(rest) = 0 /\ n = Len(rs)
        BY <1>1, <2>2, <3>1, <3>3
      <4> QED
        BY <1>1, <4>1
    <3> QED
      BY <3>2, <3>3
  <2>4. ASSUME NEW i \in 1 .. Len(rest) PROVE rest[i] = rs[i + n]
    <3>1. i \in 1 .. Len(rs) - (n + 1) + 1 /\ n + 1 + i - 1 = i + n
      BY <1>1, <2>1, <2>3
    <3> QED
      BY <2>2, <3>1
  <2> QED
    BY <2>2, <2>3, <2>4
<1>5. CASE \E n \in 2 .. Len(rs) :
             (\A i \in 1 .. n : rs[i] # Eof) /\ rest = SubSeq(rs, n + 1, Len(rs))
  <2>1. PICK n \in 2 .. Len(rs) :
          (\A i \in 1 .. n : rs[i] # Eof) /\ rest = SubSeq(rs, n + 1, Len(rs))
    BY <1>5
  <2>2. n \in 0 .. Len(rs)
    BY <1>1
  <2> QED
    BY <1>4, <2>1, <2>2
<1> QED
  BY <1>2, <1>3, <1>5 DEF Leftover

Reads(c, g) == \E rest : Take(c, g, rest) /\ Leftover(requests[c][g], rest)

LEMMA ReadsType ==
  ASSUME Types, NEW c \in Clients, NEW g \in Conns, requests[c][g] # << >>, Reads(c, g)
  PROVE  requests' \in [Clients -> [Conns -> Seq(Message)]]
<1>1. requests[c][g] \in Seq(Message)
  BY DEF Types, WireTypes
<1>2. PICK rest : Take(c, g, rest) /\ Leftover(requests[c][g], rest)
  BY DEF Reads
<1>3. rest \in Seq(Message)
  BY <1>1, <1>2, LeftoverParts
<1> QED
  BY <1>2, <1>3, TakeType

-----------------------------------------------------------------------------
(* What a thread of the server does with what it reads.                    *)

Refusals == {ErrorReply, Reply("join", "0"), Reply("list", "0"), Reply("leave", "0")}

\* It refuses, forwards a frame, does nothing, or goes to its finally block.
Reaction(c, g) ==
  \/ /\ UNCHANGED <<alive, lobby, handler, told>>
     /\ \/ UNCHANGED replies
        \/ \E w \in Refusals : Write(c, g, w)
        \/ \E d \in Clients : Write(d, lobby[d], FrameWrite)
  \/ ToFinally(c, g)

\* The reply to "list", when it is sent, names the hosts that are entered.
Members == {Address[d] : d \in {d \in Hosts : ~Entered(d, 0)}}

Enters(c, g) ==
  /\ Entered(c, 0)
  /\ lobby' = [lobby EXCEPT ![c] = g]
  /\ Resizes(c, g, "tell")
  /\ UNCHANGED <<replies, alive, told>>

Lists(c, g) ==
  /\ Write(c, g, ListReply(SetToSeq(Members)))
  /\ told' = [told EXCEPT ![c] = told[c] \cup Members]
  /\ UNCHANGED <<alive, lobby, handler>>

Leaves(c, g) ==
  /\ Entered(c, g)
  /\ lobby' = [lobby EXCEPT ![c] = 0]
  /\ Resizes(c, g, "left")
  /\ UNCHANGED <<replies, alive, told>>

Acts(c, g) ==
  /\ requests[c][g] # << >>
  /\ handler[c][g] = "serve"
  /\ UNCHANGED <<at, conn, connected, join, memberList, chunk, scan, scenario>>
  /\ \/ Reads(c, g) /\ (Enters(c, g) \/ Lists(c, g) \/ Leaves(c, g) \/ Reaction(c, g))
     \/ Head(requests[c][g]) = Eof /\ Read(c, g) /\ ToFinally(c, g)

LEMMA Reacts ==
  ASSUME NEW c, NEW g
  PROVE  /\ Garbage(c, g) => Reaction(c, g)
         /\ \A m : Forward(c, g, m) => Reaction(c, g)
         /\ \A m \in Commands : BadCommand(c, g, m) => Reaction(c, g)
<1>1. Garbage(c, g) => Reaction(c, g)
  BY DEF Garbage, Reaction, Refusals
<1>2. ASSUME NEW m, Forward(c, g, m) PROVE Reaction(c, g)
  <2>1. CASE Write(c, g, ErrorReply) /\ UNCHANGED <<alive, lobby, handler, told>>
    BY <2>1 DEF Reaction, Refusals
  <2>2. CASE \E d \in Hosts :
               /\ IF d \in Clients THEN Write(d, lobby[d], FrameWrite) ELSE UNCHANGED replies
               /\ UNCHANGED <<alive, lobby, handler, told>>
    BY <2>2 DEF Reaction
  <2>3. CASE ToFinally(c, g)
    BY <2>3 DEF Reaction
  <2> QED
    BY <1>2, <2>1, <2>2, <2>3 DEF Forward
<1>3. ASSUME NEW m \in Commands, BadCommand(c, g, m) PROVE Reaction(c, g)
  <2>1. Reply(m[1], "0") \in Refusals
    BY DEF Commands, Refusals
  <2> QED
    BY <1>3, <2>1 DEF BadCommand, Reaction
<1> QED
  BY <1>1, <1>2, <1>3

LEMMA ReadsOne ==
  ASSUME NEW c, NEW g, Read(c, g), Head(requests[c][g]) # Eof
  PROVE  Reads(c, g)
BY DEF Read, Reads, Leftover

LEMMA ServeActs ==
  ASSUME NEW c \in Clients, NEW g \in Conns, Serve(c, g)
  PROVE  Acts(c, g)
<1> DEFINE m == Head(requests[c][g])
           rs == requests[c][g]
<1>1. /\ requests[c][g] # << >> /\ handler[c][g] = "serve"
      /\ UNCHANGED <<at, conn, connected, join, memberList, chunk, scan, scenario>>
  BY DEF Serve, boundVars
<1>2. ASSUME NEW w \in Refusals, Answer(c, g, w), UNCHANGED <<lobby, handler, told>>, m # Eof
      PROVE  Acts(c, g)
  BY <1>1, <1>2, ReadsOne DEF Answer, Reaction, Acts
<1>3. CASE ServeJoin(c, g)
  <2>1. m # Eof
    BY <1>3, EofIsNoRequest DEF ServeJoin
  <2>2. CASE Entered(c, 0)
    BY <1>1, <1>3, <2>1, <2>2, ReadsOne DEF ServeJoin, Enters, Acts
  <2>3. CASE ~Entered(c, 0)
    BY <1>2, <1>3, <2>1, <2>3 DEF ServeJoin, Refusals
  <2> QED
    BY <2>2, <2>3
<1>4. CASE ServeList(c, g)
  <2>1. m # Eof /\ UNCHANGED <<lobby, handler>>
    BY <1>4, EofIsNoRequest DEF ServeList
  <2>2. CASE Entered(c, g)
    <3>1. /\ Answer(c, g, ListReply(SetToSeq(Members)))
          /\ told' = [told EXCEPT ![c] = told[c] \cup Members]
      BY <1>4, <2>2 DEF ServeList, Members
    <3> QED
      BY <1>1, <2>1, <3>1, ReadsOne DEF Answer, Lists, Acts
  <2>3. CASE ~Entered(c, g)
    BY <1>2, <1>4, <2>1, <2>3 DEF ServeList, Refusals
  <2> QED
    BY <2>2, <2>3
<1>5. CASE ServeLeave(c, g)
  <2>1. m # Eof
    BY <1>5, EofIsNoRequest DEF ServeLeave
  <2>2. CASE Entered(c, g)
    BY <1>1, <1>5, <2>1, <2>2, ReadsOne DEF ServeLeave, Leaves, Acts
  <2>3. CASE ~Entered(c, g)
    BY <1>2, <1>5, <2>1, <2>3 DEF ServeLeave, Refusals
  <2> QED
    BY <2>2, <2>3
<1>6. CASE ServeFrame(c, g)
  <2>1. m # Eof /\ Read(c, g)
    BY <1>6, EofIsNoRequest DEF ServeFrame
  <2>2. Reaction(c, g)
    BY <1>6, Reacts DEF ServeFrame
  <2> QED
    BY <1>1, <2>1, <2>2, ReadsOne DEF Acts
<1>7. CASE ServeEnd(c, g)
  BY <1>1, <1>7 DEF ServeEnd, Acts, Eof
<1>8. CASE ServeCut(c, g)
  <2>1. Reads(c, g)
    BY <1>8 DEF ServeCut, Reads, Leftover, Eof
  <2>2. Reaction(c, g)
    <3>1. CASE Garbage(c, g) \/ (m \in Commands /\ BadCommand(c, g, m))
      BY <3>1, Reacts
    <3>2. CASE UNCHANGED <<replies, alive, lobby, handler, told>>
      BY <3>2 DEF Reaction
    <3> QED
      BY <1>8, <3>1, <3>2 DEF ServeCut
  <2> QED
    BY <1>1, <2>1, <2>2 DEF Acts
<1>9. CASE ServeGlued(c, g)
  <2>1. PICK n \in 2 .. Len(rs) :
          (\A i \in 1 .. n : rs[i] # <<"eof">>) /\ Take(c, g, SubSeq(rs, n + 1, Len(rs)))
    BY <1>9 DEF ServeGlued
  <2>2. Reads(c, g)
    BY <2>1 DEF Reads, Leftover, Eof
  <2>3. Reaction(c, g)
    BY <1>9, Reacts DEF ServeGlued
  <2> QED
    BY <1>1, <2>2, <2>3 DEF Acts
<1> QED
  BY <1>3, <1>4, <1>5, <1>6, <1>7, <1>8, <1>9 DEF Serve

LEMMA LoopRaisesActs ==
  ASSUME NEW c \in Clients, NEW g \in Conns, LoopRaises(c, g)
  PROVE  Acts(c, g)
<1>1. Head(requests[c][g]) # Eof /\ Read(c, g) /\ ToFinally(c, g)
  BY DEF LoopRaises, Eof
<1>2. Reads(c, g) /\ Reaction(c, g)
  BY <1>1, ReadsOne DEF Reaction
<1> QED
  BY <1>2 DEF LoopRaises, Acts

\* What the threads of the server write.
LEMMA WrittenType ==
  /\ \A verb \in {"join", "list", "leave"}, ok \in {"0", "1"} : Reply(verb, ok) \in Text \ {<< >>}
  /\ ErrorReply \in Text \ {<< >>} /\ FrameWrite \in Text \ {<< >>}
<1>1. ASSUME NEW verb \in {"join", "list", "leave"}, NEW ok \in {"0", "1"}
      PROVE  Reply(verb, ok) \in Text \ {<< >>}
  <2>1. verb \in Words /\ ok \in Words
    BY DEF Words
  <2>2. Reply(verb, ok) \in Text /\ Len(Reply(verb, ok)) = 6
    BY <2>1, ReplyType
  <2> QED
    BY <2>2, EmptySeq
<1> QED
  BY <1>1, ReplyType

LEMMA ListReplyMembers ==
  /\ Members \in SUBSET Addresses
  /\ Listing(ListReply(SetToSeq(Members)), Members)
  /\ ListReply(SetToSeq(Members)) \in Text \ {<< >>}
<1>1. Members \in SUBSET Addresses
  BY DEF Members, Addresses
<1>2. Listing(ListReply(SetToSeq(Members)), Members)
  <2>1. Len(SetToSeq(Members)) \in Nat
    BY <1>1, MembersListing
  <2>2. \A i \in 1 .. Len(SetToSeq(Members)) : SetToSeq(Members)[i] \in Members \cap Addresses
    BY <1>1, MembersListing
  <2> QED
    BY <2>1, <2>2, ListReplyLists
<1>3. ListReply(SetToSeq(Members)) \in Text \ {<< >>}
  BY <1>2, EmptySeq DEF Listing
<1> QED
  BY <1>1, <1>2, <1>3

-----------------------------------------------------------------------------
(* Every step of the server keeps the types.                               *)

LEMMA ActsTypes ==
  ASSUME Types, NEW c \in Clients, NEW g \in Conns, Acts(c, g),
         menu' \in Nat, drops' \in Nat
  PROVE  Types'
<1> DEFINE Typed == /\ replies' \in [Clients -> Seq(Text \ {<< >>})]
                    /\ alive' = alive
                    /\ handler' \in [Clients -> [Conns -> Handlers]]
                    /\ lobby' \in [Hosts -> {0, 1} \cup Conns]
                    /\ told' \in [Clients -> SUBSET Addresses]
<1>1. /\ requests[c][g] # << >>
      /\ UNCHANGED <<at, conn, connected, join, memberList, chunk, scan, scenario>>
  BY DEF Acts
<1>2. /\ replies \in [Clients -> Seq(Text \ {<< >>})]
      /\ handler \in [Clients -> [Conns -> Handlers]]
      /\ lobby \in [Hosts -> {0, 1} \cup Conns]
      /\ told \in [Clients -> SUBSET Addresses]
      /\ requests[c][g] \in Seq(Message)
  BY DEF Types, WireTypes, ServerTypes
<1>3. requests' \in [Clients -> [Conns -> Seq(Message)]]
  <2>1. CASE Reads(c, g)
    BY <1>1, <2>1, ReadsType
  <2>2. CASE Read(c, g)
    BY <1>1, <1>2, <2>2, HeadTailProperties, TakeType DEF Read
  <2> QED
    BY <2>1, <2>2 DEF Acts
<1>4. {"tell", "left", "finally"} \subseteq Handlers
  BY DEF Handlers
<1>5. ASSUME Enters(c, g) PROVE Typed
  BY <1>2, <1>4, <1>5, HandlerType DEF Enters
<1>6. ASSUME Lists(c, g) PROVE Typed
  <2>1. replies' \in [Clients -> Seq(Text \ {<< >>})]
    BY <1>6, WriteType, ListReplyMembers DEF Lists
  <2>2. told' \in [Clients -> SUBSET Addresses]
    BY <1>2, <1>6, ListReplyMembers DEF Lists
  <2> QED
    BY <1>2, <1>6, <2>1, <2>2 DEF Lists
<1>7. ASSUME Leaves(c, g) PROVE Typed
  BY <1>2, <1>4, <1>7, HandlerType DEF Leaves
<1>8. ASSUME ToFinally(c, g) PROVE Typed
  BY <1>2, <1>4, <1>8, HandlerType DEF ToFinally
<1>9. ASSUME Reaction(c, g) PROVE Typed
  <2>1. \A w \in Refusals : w \in Text \ {<< >>}
    BY WrittenType DEF Refusals
  <2>2. CASE UNCHANGED <<alive, lobby, handler, told>>
    <3>1. replies' \in [Clients -> Seq(Text \ {<< >>})]
      <4>1. CASE UNCHANGED replies
        BY <1>2, <4>1
      <4>2. CASE \E w \in Refusals : Write(c, g, w)
        BY <2>1, <4>2, WriteType
      <4>3. CASE \E d \in Clients : Write(d, lobby[d], FrameWrite)
        BY <4>3, WrittenType, WriteType
      <4>4. ToFinally(c, g) => UNCHANGED replies
        BY DEF ToFinally
      <4> QED
        BY <1>9, <4>1, <4>2, <4>3, <4>4 DEF Reaction
    <3> QED
      BY <1>2, <2>2, <3>1
  <2> QED
    BY <1>8, <1>9, <2>2 DEF Reaction
<1>10. Typed
  <2> HIDE DEF Typed
  <2> QED
    BY <1>5, <1>6, <1>7, <1>8, <1>9 DEF Acts
<1>11. Counted'
  BY <1>1, <1>10, CountedKept
<1> QED
  BY <1>1, <1>3, <1>10, <1>11 DEF Types, ThreadTypes, WireTypes, ServerTypes, BoundTypes

LEMMA ServeTypes ==
  ASSUME Types, NEW c \in Clients, NEW g \in Conns, Serve(c, g)
  PROVE  Types'
<1>1. menu' \in Nat /\ drops' \in Nat
  BY DEF Serve, boundVars, Types, BoundTypes
<1> QED
  BY <1>1, ServeActs, ActsTypes

LEMMA LoopRaisesTypes ==
  ASSUME Types, NEW c \in Clients, NEW g \in Conns, LoopRaises(c, g)
  PROVE  Types'
<1>1. menu' \in Nat /\ drops' \in Nat
  BY DEF LoopRaises, Types, BoundTypes
<1> QED
  BY <1>1, LoopRaisesActs, ActsTypes

LEMMA ThreadEndsTypes ==
  ASSUME Types, NEW c \in Clients, NEW g \in Conns, ThreadEnds(c, g)
  PROVE  Types'
<1>1. requests' \in [Clients -> [Conns -> Seq(Message)]]
  <2>1. << >> \in Seq(Message)
    BY EmptySeq
  <2> QED
    BY <2>1, TakeType DEF ThreadEnds
<1>2. handler' \in [Clients -> [Conns -> Handlers]]
  <2>1. {"ended", "raised"} \subseteq Handlers
    BY DEF Handlers
  <2>2. Resizes(c, g, "ended") \/ Becomes(c, g, "raised")
    BY DEF ThreadEnds
  <2> QED
    BY <2>1, <2>2, HandlerType
<1>3. lobby' \in [Hosts -> {0, 1} \cup Conns]
  <2>1. CleanUp(c, g) \/ UNCHANGED lobby
    BY DEF ThreadEnds
  <2> QED
    BY <2>1 DEF CleanUp, Types, ServerTypes
<1>4. alive' \in [Clients -> BOOLEAN] /\ \A b \in Clients : alive'[b] => alive[b]
  <2>1. alive' = [alive EXCEPT ![c] = FALSE] \/ alive' = alive
    BY DEF ThreadEnds, Close
  <2> QED
    BY <2>1 DEF Types, WireTypes
<1>5. UNCHANGED <<at, conn, connected, join, memberList, chunk, scan, replies, told,
                  scenario, menu, drops>>
  BY DEF ThreadEnds, boundVars
<1>6. Counted'
  BY <1>4, <1>5, CountedKept
<1> QED
  BY <1>1, <1>2, <1>3, <1>4, <1>5, <1>6
     DEF Types, ThreadTypes, WireTypes, ServerTypes, BoundTypes

LEMMA TellTypes ==
  ASSUME Types, NEW c \in Clients, NEW g \in Conns, Tell(c, g)
  PROVE  Types'
<1>1. replies' \in [Clients -> Seq(Text \ {<< >>})]
  BY WriteType, WrittenType DEF Tell
<1>2. handler' \in [Clients -> [Conns -> Handlers]]
  BY HandlerType DEF Tell, Handlers
<1> QED
  BY <1>1, <1>2 DEF Tell, Types, ThreadTypes, WireTypes, ServerTypes, BoundTypes, Counted,
                    clientVars, boundVars

LEMMA PeerMovesTypes ==
  ASSUME Types, PeersOK, NEW p \in Peers, PeerMoves(p)
  PROVE  Types'
<1>1. lobby' \in [Hosts -> {0, 1} \cup Conns]
  BY DEF PeerMoves, PeersOK, Types, ServerTypes, Hosts
<1>2. handler' \in [Clients -> [Conns -> Handlers]]
  BY DEF PeerMoves, Types, ServerTypes, Resized, Handlers
<1> QED
  BY <1>1, <1>2 DEF PeerMoves, Types, ThreadTypes, WireTypes, ServerTypes, BoundTypes, Counted,
                    clientVars, boundVars

LEMMA PeerSendsTypes ==
  ASSUME Types, NEW p \in Peers, NEW c \in Clients, PeerSends(p, c)
  PROVE  Types'
<1>1. replies' \in [Clients -> Seq(Text \ {<< >>})]
  BY WriteType, WrittenType DEF PeerSends
<1> QED
  BY <1>1 DEF PeerSends, Types, ThreadTypes, WireTypes, ServerTypes, BoundTypes, Counted,
              clientVars, serverVars, boundVars

\* What is left of the requests of a connection that breaks.
LEMMA DropParts ==
  ASSUME Types, NEW c \in Clients, Drop(c)
  PROVE  /\ conn[c] \in Conns
         /\ \E kept \in 0 .. Len(requests[c][conn[c]]) :
              LET rest == Append(SubSeq(requests[c][conn[c]], 1, kept), <<"eof">>)
              IN  /\ rest \in Seq(Message)
                  /\ requests' = [requests EXCEPT ![c][conn[c]] = rest]
<1>1. conn[c] \in Conns
  BY Numbers DEF Drop
<1> DEFINE rs == requests[c][conn[c]]
<1>2. rs \in Seq(Message)
  BY <1>1 DEF Types, WireTypes
<1>3. PICK kept \in 0 .. Len(rs) :
        requests' = [requests EXCEPT ![c][conn[c]] = Append(SubSeq(rs, 1, kept), <<"eof">>)]
  BY <1>1 DEF Drop, Types, WireTypes
<1> HIDE DEF rs
<1>4. Append(SubSeq(rs, 1, kept), <<"eof">>) \in Seq(Message)
  <2>1. Len(rs) \in Nat /\ \A i \in 1 .. Len(rs) : rs[i] \in Message
    BY <1>2, LenProperties, ElementOfSeq
  <2>2. 1 \in Int /\ kept \in Int /\ \A i \in 1 .. kept : rs[i] \in Message
    BY <2>1
  <2>3. SubSeq(rs, 1, kept) \in Seq(Message)
    BY <2>2, SubSeqProperties
  <2>4. <<"eof">> \in Message
    BY DEF Message
  <2> QED
    BY <2>3, <2>4, AppendProperties
<1> QED
  BY <1>1, <1>3, <1>4 DEF rs

LEMMA DropTypes ==
  ASSUME Types, NEW c \in Clients, Drop(c)
  PROVE  Types'
<1>1. PICK rest \in Seq(Message) : requests' = [requests EXCEPT ![c][conn[c]] = rest]
  <2> DEFINE Rest(kept) == Append(SubSeq(requests[c][conn[c]], 1, kept), <<"eof">>)
  <2>1. PICK kept \in 0 .. Len(requests[c][conn[c]]) :
          /\ Rest(kept) \in Seq(Message)
          /\ requests' = [requests EXCEPT ![c][conn[c]] = Rest(kept)]
    BY DropParts
  <2> HIDE DEF Leftover
  <2> QED
    BY <2>1
<1>2. requests' \in [Clients -> [Conns -> Seq(Message)]]
  BY <1>1, DropParts DEF Types, WireTypes
<1>3. replies' \in [Clients -> Seq(Text \ {<< >>})]
  <2>1. << >> \in Seq(Text \ {<< >>})
    BY EmptySeq
  <2>2. replies' = replies \/ replies' = [replies EXCEPT ![c] = << >>]
    BY DEF Drop
  <2>3. replies \in [Clients -> Seq(Text \ {<< >>})]
    BY DEF Types, WireTypes
  <2> QED
    BY <2>1, <2>2, <2>3
<1>4. /\ alive' \in [Clients -> BOOLEAN]
      /\ \A b \in Clients : alive'[b] => alive[b]
  <2>1. alive' = [alive EXCEPT ![c] = FALSE]
    BY DEF Drop
  <2> QED
    BY <2>1 DEF Types, WireTypes
<1>5. Counted'
  BY <1>4, CountedKept DEF Drop
<1> QED
  BY <1>2, <1>3, <1>4, <1>5
     DEF Drop, Types, ThreadTypes, WireTypes, ServerTypes, BoundTypes, serverVars

-----------------------------------------------------------------------------
(* What a step does to the connections of a client.                        *)

\* In its finally block, or after it has raised there.
Leaving == {"finally", "resized", "raised"}

\* No thread comes back from its finally block, and none of a client's runs to its end.
Onward(c) ==
  \A g \in Conns : /\ handler[c][g] \in Leaving => handler'[c][g] \in Leaving
                   /\ handler'[c][g] = "ended" => handler[c][g] = "ended"

Others(b) ==
  /\ \A c \in Clients \ {b} :
        /\ requests'[c] = requests[c] /\ conn'[c] = conn[c] /\ alive'[c] = alive[c]
        /\ Onward(c)
  /\ \A h \in Hosts \ {b} : lobby'[h] = lobby[h]

Kept(b) ==
  /\ requests'[b] = requests[b] /\ conn'[b] = conn[b] /\ alive'[b] = alive[b]
  /\ lobby'[b] = lobby[b]
  /\ Onward(b)

\* The requests of connection g are rs now, and those of the others what they were.
Now(b, g, rs) == \A h \in Conns : requests'[b][h] = IF h = g THEN rs ELSE requests[b][h]

Sends(b) ==
  /\ alive[b]
  /\ \E m \in Message \ {Eof} : Now(b, conn[b], Append(requests[b][conn[b]], m))
  /\ conn'[b] = conn[b] /\ alive'[b] = alive[b] /\ lobby'[b] = lobby[b]
  /\ Onward(b)

\* It closes its connection, if that has not broken before, and may open a new one.
Closes(b) ==
  /\ IF alive[b] THEN Now(b, conn[b], Append(requests[b][conn[b]], Eof))
                 ELSE requests'[b] = requests[b]
  /\ \/ conn'[b] = conn[b] /\ ~alive'[b]
     \/ conn'[b] = conn[b] + 1 /\ alive'[b]
  /\ lobby'[b] = lobby[b]
  /\ Onward(b)

Breaks(b) ==
  /\ alive[b] /\ ~alive'[b] /\ conn'[b] = conn[b] /\ lobby'[b] = lobby[b]
  /\ \E kept \in 0 .. Len(requests[b][conn[b]]) :
       Now(b, conn[b], Append(SubSeq(requests[b][conn[b]], 1, kept), Eof))
  /\ Onward(b)

Served(b, g) ==
  /\ requests[b][g] # << >>
  /\ \E rest : Now(b, g, rest) /\ Leftover(requests[b][g], rest)
  /\ conn'[b] = conn[b] /\ alive'[b] = alive[b]
  /\ \/ lobby'[b] = lobby[b] /\ lobby[b] # g
     \/ lobby'[b] = g /\ handler'[b][g] # "ended"
     \/ lobby'[b] = 0
  /\ Onward(b)

\* Nothing more is read: the entry of the connection is gone, or the thread in its finally
\* block.
Finished(b, g) ==
  /\ Now(b, g, << >>)
  /\ conn'[b] = conn[b]
  /\ alive'[b] = alive[b] \/ g = conn[b]
  /\ \/ lobby'[b] = 0
     \/ lobby'[b] = lobby[b] /\ handler'[b][g] \in Leaving /\ Onward(b)

ConnStep(b) ==
  /\ Others(b)
  /\ \/ Kept(b) \/ Sends(b) \/ Closes(b) \/ Breaks(b)
     \/ \E g \in Conns : Served(b, g) \/ Finished(b, g)

LEMMA OnwardKept ==
  ASSUME handler' = handler
  PROVE  \A c \in Clients : Onward(c)
BY DEF Onward

\* Where the threads go, but for the one that runs to its end.
LEMMA OnwardMoves ==
  ASSUME Types, NEW c \in Clients, NEW g \in Conns, NEW label \in Handlers
  PROVE  /\ Becomes(c, g, label) =>
              \A d \in Clients, h \in Conns :
                handler'[d][h] = IF d = c /\ h = g THEN label ELSE handler[d][h]
         /\ Resizes(c, g, label) =>
              \A d \in Clients, h \in Conns :
                LET l == IF d = c /\ h = g THEN label ELSE handler[d][h]
                IN  handler'[d][h] = IF l = "finally" THEN "resized" ELSE l
<1>1. handler \in [Clients -> [Conns -> Handlers]]
  BY DEF Types, ServerTypes
<1> QED
  BY <1>1 DEF Becomes, Resizes, Resized

LEMMA OnwardSteps ==
  ASSUME Types, NEW c \in Clients, NEW g \in Conns, NEW label \in Handlers \ {"ended"},
         handler[c][g] \in Leaving => label \in Leaving,
         Becomes(c, g, label) \/ Resizes(c, g, label)
  PROVE  \A d \in Clients : Onward(d)
BY OnwardMoves DEF Onward, Leaving

LEMMA NowRequest ==
  ASSUME Types, NEW c \in Clients, NEW g \in Conns, NEW rs,
         requests' = [requests EXCEPT ![c][g] = rs]
  PROVE  Now(c, g, rs) /\ \A d \in Clients \ {c} : requests'[d] = requests[d]
BY DEF Now, Types, WireTypes

LEMMA ClientsAreHosts == Clients \subseteq Hosts /\ \A p \in Peers : p \in Hosts /\ p \notin Clients
BY LanAssumption DEF Hosts

LEMMA OpenStep ==
  ASSUME Types, NEW c \in Clients, Open(c), UNCHANGED <<lobby, handler>>
  PROVE  ConnStep(c)
<1>1. /\ conn'[c] = conn[c] + 1 /\ alive'[c]
      /\ \A d \in Clients \ {c} : conn'[d] = conn[d] /\ alive'[d] = alive[d]
  BY DEF Open, Types, WireTypes
<1>2. CASE alive[c]
  <2>1. conn[c] \in Conns /\ requests' = [requests EXCEPT ![c][conn[c]] = Append(requests[c][conn[c]], Eof)]
    BY <1>2, Numbers DEF Open, Request, Eof, Types, WireTypes
  <2> QED
    BY <1>1, <1>2, <2>1, NowRequest, OnwardKept DEF ConnStep, Others, Closes
<1>3. CASE ~alive[c]
  <2>1. requests' = requests
    BY <1>3 DEF Open
  <2> QED
    BY <1>1, <1>3, <2>1, OnwardKept DEF ConnStep, Others, Closes
<1> QED
  BY <1>2, <1>3

LEMMA EndStep ==
  ASSUME Types, NEW c \in Clients, End(c), UNCHANGED <<lobby, handler>>
  PROVE  ConnStep(c)
<1>1. /\ conn' = conn /\ ~alive'[c]
      /\ \A d \in Clients \ {c} : alive'[d] = alive[d]
  BY DEF End, Types, WireTypes
<1>2. CASE alive[c]
  <2>1. conn[c] \in Conns /\ requests' = [requests EXCEPT ![c][conn[c]] = Append(requests[c][conn[c]], Eof)]
    BY <1>2, Numbers DEF End, Request, Eof, Types, WireTypes
  <2> QED
    BY <1>1, <1>2, <2>1, NowRequest, OnwardKept DEF ConnStep, Others, Closes
<1>3. CASE ~alive[c]
  <2>1. requests' = requests
    BY <1>3 DEF End
  <2> QED
    BY <1>1, <1>3, <2>1, OnwardKept DEF ConnStep, Others, Closes
<1> QED
  BY <1>2, <1>3

LEMMA KeptStep ==
  ASSUME NEW c \in Clients, UNCHANGED <<requests, conn, alive>>, \A d \in Clients : Onward(d),
         \A h \in Hosts : h \in Clients => lobby'[h] = lobby[h],
         \A h \in Hosts \ {c} : lobby'[h] = lobby[h]
  PROVE  ConnStep(c)
BY ClientsAreHosts DEF ConnStep, Others, Kept

LEMMA SendStep ==
  ASSUME Types, NEW c \in Clients, NEW m \in Message \ {Eof}, Send(c, m),
         UNCHANGED <<conn, alive, lobby, handler>>
  PROVE  ConnStep(c)
<1>1. CASE alive[c]
  <2>1. conn[c] \in Conns /\ requests' = [requests EXCEPT ![c][conn[c]] = Append(requests[c][conn[c]], m)]
    BY <1>1, Numbers DEF Send, Request, Types, WireTypes
  <2> QED
    BY <1>1, <2>1, NowRequest, OnwardKept DEF ConnStep, Others, Sends
<1>2. CASE ~alive[c]
  <2>1. requests' = requests
    BY <1>2 DEF Send
  <2> QED
    BY <2>1, KeptStep, OnwardKept
<1> QED
  BY <1>1, <1>2

LEMMA SendDataStep ==
  ASSUME Types, NEW c \in Clients, NEW m \in Message \ {Eof}, SendData(c, m),
         UNCHANGED <<conn, alive, lobby, handler>>
  PROVE  ConnStep(c)
<1>1. CASE Send(c, m)
  BY <1>1, SendStep
<1>2. CASE requests' = requests
  BY <1>2, KeptStep, OnwardKept
<1> QED
  BY <1>1, <1>2 DEF SendData

LEMMA ActsStep ==
  ASSUME Types, NEW c \in Clients, NEW g \in Conns, Acts(c, g),
         \A i \in 1 .. Len(requests[c][g]) :
           requests[c][g][i] = Eof => i = Len(requests[c][g])
  PROVE  ConnStep(c)
<1>1. /\ requests[c][g] # << >> /\ handler[c][g] = "serve" /\ conn' = conn
      /\ requests[c][g] \in Seq(Message) /\ handler \in [Clients -> [Conns -> Handlers]]
  BY DEF Acts, Types, WireTypes, ServerTypes
<1>2. ASSUME NEW rest, Take(c, g, rest)
      PROVE  Now(c, g, rest) /\ \A d \in Clients \ {c} : requests'[d] = requests[d]
  BY <1>2, NowRequest DEF Take
<1>3. /\ {"tell", "left", "finally"} \subseteq Handlers \ {"ended"}
      /\ "serve" \notin Leaving /\ "finally" \in Leaving
  BY DEF Handlers, Leaving
<1>4. CASE Reads(c, g) /\ (Enters(c, g) \/ Lists(c, g) \/ Leaves(c, g) \/ Reaction(c, g))
  <2>1. PICK rest : Take(c, g, rest) /\ Leftover(requests[c][g], rest)
    BY <1>4 DEF Reads
  <2>2. Now(c, g, rest) /\ \A d \in Clients \ {c} : requests'[d] = requests[d]
    BY <1>2, <2>1
  <2>3. alive' = alive
    BY <1>4 DEF Enters, Lists, Leaves, Reaction, ToFinally
  <2>4. \A d \in Clients : Onward(d)
    <3>1. CASE handler' = handler
      BY <3>1, OnwardKept
    <3>2. CASE \E label \in {"tell", "left", "finally"} :
                 Becomes(c, g, label) \/ Resizes(c, g, label)
      BY <1>1, <1>3, <3>2, OnwardSteps
    <3> QED
      BY <1>4, <3>1, <3>2 DEF Enters, Lists, Leaves, Reaction, ToFinally
  <2>5. /\ \/ lobby'[c] = lobby[c]
           \/ lobby'[c] = g
           \/ lobby'[c] = 0
        /\ \A h \in Hosts \ {c} : lobby'[h] = lobby[h]
    BY <1>4, ClientsAreHosts DEF Enters, Lists, Leaves, Reaction, ToFinally, Types, ServerTypes
  <2>6. handler'[c][g] # "ended"
    BY <1>1, <2>4 DEF Onward
  <2>7. Served(c, g)
    BY <1>1, <2>1, <2>2, <2>3, <2>4, <2>5, <2>6 DEF Served
  <2> QED
    BY <1>1, <2>2, <2>3, <2>4, <2>5, <2>7 DEF ConnStep, Others
<1>5. CASE Head(requests[c][g]) = Eof /\ Read(c, g) /\ ToFinally(c, g)
  <2>1. Tail(requests[c][g]) = << >>
    <3>1. /\ Len(requests[c][g]) \in Nat /\ Len(requests[c][g]) > 0
          /\ Head(requests[c][g]) = requests[c][g][1]
          /\ Tail(requests[c][g]) \in Seq(Message)
          /\ Len(Tail(requests[c][g])) = Len(requests[c][g]) - 1
      BY <1>1, EmptySeq, LenProperties, HeadTailProperties
    <3>2. 1 \in 1 .. Len(requests[c][g])
      BY <3>1
    <3>3. Len(requests[c][g]) = 1
      BY <1>5, <3>1, <3>2
    <3>4. Len(Tail(requests[c][g])) = 0
      BY <3>1, <3>3
    <3>5. Tail(requests[c][g]) # << >> => Len(Tail(requests[c][g])) \in Nat \ {0}
      BY <3>1, EmptySeq
    <3> QED
      BY <3>4, <3>5
  <2>2. Now(c, g, << >>) /\ \A d \in Clients \ {c} : requests'[d] = requests[d]
    BY <1>2, <1>5, <2>1 DEF Read
  <2>3. \A d \in Clients : Onward(d)
    BY <1>1, <1>3, <1>5, OnwardSteps DEF ToFinally
  <2>4. alive' = alive /\ lobby' = lobby /\ handler'[c][g] \in Leaving
    BY <1>1, <1>3, <1>5 DEF ToFinally, Becomes
  <2> QED
    BY <1>1, <2>2, <2>3, <2>4 DEF ConnStep, Others, Finished
<1> QED
  BY <1>4, <1>5 DEF Acts

LEMMA ThreadEndsStep ==
  ASSUME Types, NEW c \in Clients, NEW g \in Conns, ThreadEnds(c, g)
  PROVE  ConnStep(c)
<1>1. conn' = conn /\ {"ended", "raised"} \subseteq Handlers /\ "raised" \in Leaving
      /\ handler \in [Clients -> [Conns -> Handlers]]
  BY DEF ThreadEnds, Handlers, Leaving, Types, ServerTypes
<1>2. Now(c, g, << >>) /\ \A d \in Clients \ {c} : requests'[d] = requests[d]
  BY NowRequest DEF ThreadEnds, Take
<1>3. /\ alive'[c] = alive[c] \/ g = conn[c]
      /\ \A d \in Clients \ {c} : alive'[d] = alive[d]
  <2>1. CASE UNCHANGED alive
    BY <2>1
  <2>2. CASE Close(c, g)
    <3>1. CASE g = conn[c]
      BY <2>2, <3>1 DEF Close, Types, WireTypes
    <3>2. CASE g # conn[c]
      BY <2>2, <3>2 DEF Close
    <3> QED
      BY <3>1, <3>2
  <2> QED
    BY <2>1, <2>2 DEF ThreadEnds
<1>4. CASE CleanUp(c, g) /\ Resizes(c, g, "ended")
  <2>1. lobby'[c] = 0 /\ \A h \in Hosts \ {c} : lobby'[h] = lobby[h]
    BY <1>4, ClientsAreHosts DEF CleanUp, Types, ServerTypes
  <2>2. \A d \in Clients \ {c} : Onward(d)
    BY <1>1, <1>4, OnwardMoves DEF Onward, Leaving
  <2> QED
    BY <1>1, <1>2, <1>3, <2>1, <2>2 DEF ConnStep, Others, Finished
<1>5. CASE Becomes(c, g, "raised") /\ UNCHANGED lobby
  <2>1. \A d \in Clients : Onward(d)
    BY <1>1, <1>5, OnwardSteps DEF Handlers
  <2>2. handler'[c][g] \in Leaving
    BY <1>1, <1>5 DEF Becomes
  <2> QED
    BY <1>1, <1>2, <1>3, <1>5, <2>1, <2>2 DEF ConnStep, Others, Finished
<1> QED
  BY <1>4, <1>5 DEF ThreadEnds

LEMMA TellStep ==
  ASSUME Types, NEW c \in Clients, NEW g \in Conns, Tell(c, g)
  PROVE  ConnStep(c)
<1>1. \A d \in Clients : Onward(d)
  BY OnwardSteps DEF Tell, Handlers, Leaving
<1> QED
  BY <1>1, KeptStep DEF Tell, clientVars

LEMMA DropStep ==
  ASSUME Types, NEW c \in Clients, Drop(c)
  PROVE  ConnStep(c)
<1>1. conn[c] \in Conns /\ alive[c] /\ conn' = conn /\ lobby' = lobby /\ handler' = handler
  BY DropParts DEF Drop, serverVars
<1>2. ~alive'[c] /\ \A d \in Clients \ {c} : alive'[d] = alive[d]
  BY DEF Drop, Types, WireTypes
<1>3. PICK kept \in 0 .. Len(requests[c][conn[c]]) :
        requests' = [requests EXCEPT ![c][conn[c]] =
                       Append(SubSeq(requests[c][conn[c]], 1, kept), Eof)]
  BY DropParts DEF Eof
<1>4. /\ Now(c, conn[c], Append(SubSeq(requests[c][conn[c]], 1, kept), Eof))
      /\ \A d \in Clients \ {c} : requests'[d] = requests[d]
  BY <1>1, <1>3, NowRequest
<1> QED
  BY <1>1, <1>2, <1>4, OnwardKept DEF ConnStep, Others, Breaks

LEMMA ClientStep ==
  ASSUME Types, NEW c \in Clients,
         \/ Start(c)
         \/ \E t \in {"main", "checker"} : Caller(c, t)
         \/ LeaveLobby(c)
         \/ CheckConnection(c)
         \/ Menu(c)
         \/ Listener(c)
         \/ \E d \in scenario.dsts \ {c} : Scan(c, Address[d])
         \/ Transmit(c)
         \/ Discard(c)
         \/ \E g \in Conns : Tell(c, g)
         \/ \E p \in Peers : PeerSends(p, c)
  PROVE  ConnStep(c)
<1> USE DEF serverVars, boundVars, clientVars
<1>1. CASE Start(c)
  BY <1>1, OpenStep DEF Start
<1>2. ASSUME NEW t \in {"main", "checker"}, Caller(c, t) PROVE ConnStep(c)
  <2>1. <<"join">> \in Message \ {Eof} /\ <<"list">> \in Message \ {Eof}
    BY EofIsNoRequest DEF Message
  <2>2. CASE JoinLobby(c, t)
    BY <2>1, <2>2, SendDataStep DEF JoinLobby
  <2>3. CASE GetLobbyMembers(c, t)
    BY <2>1, <2>3, SendDataStep DEF GetLobbyMembers
  <2>4. CASE Reconnect(c, t)
    BY <2>4, OpenStep DEF Reconnect
  <2> QED
    BY <1>2, <2>2, <2>3, <2>4 DEF Caller
<1>3. CASE LeaveLobby(c)
  BY <1>3, KeptStep, OnwardKept DEF LeaveLobby
<1>4. CASE CheckConnection(c)
  BY <1>4, KeptStep, OnwardKept DEF CheckConnection
<1>5. CASE Menu(c)
  <2>1. UNCHANGED <<lobby, handler>>
    BY <1>5 DEF Menu
  <2>2. ASSUME NEW choice \in {"leave", "send"}, SendData(c, <<choice>>), UNCHANGED <<conn, alive>>
        PROVE  ConnStep(c)
    <3>1. <<choice>> \in Message \ {Eof}
      BY EofIsNoRequest DEF Message
    <3> QED
      BY <2>1, <2>2, <3>1, SendDataStep
  <2>3. \/ UNCHANGED <<requests, conn, alive>>
        \/ \E choice \in {"leave", "send"} : SendData(c, <<choice>>) /\ UNCHANGED <<conn, alive>>
        \/ End(c)
    BY <1>5 DEF Menu
  <2> QED
    BY <2>1, <2>2, <2>3, KeptStep, OnwardKept, EndStep
<1>6. CASE Listener(c)
  <2>1. UNCHANGED <<lobby, handler>> /\ (UNCHANGED <<requests, conn, alive>> \/ End(c))
    BY <1>6 DEF Listener, Recv, RecvEnds, Callback
  <2> QED
    BY <2>1, KeptStep, OnwardKept, EndStep
<1>7. CASE \E d \in scenario.dsts \ {c} : Scan(c, Address[d])
  BY <1>7, KeptStep, OnwardKept DEF Scan
<1>8. CASE Transmit(c)
  <2>1. UNCHANGED <<conn, alive, lobby, handler>>
    BY <1>8 DEF Transmit
  <2>2. scan[c].dst \in Message \ {Eof}
    BY <1>8, EofIsNoRequest DEF Transmit, Types, ThreadTypes, Search, Message
  <2>3. CASE connected[c]
    BY <1>8, <2>1, <2>2, <2>3, SendStep DEF Transmit
  <2>4. CASE ~connected[c]
    BY <1>8, <2>1, <2>4, KeptStep, OnwardKept DEF Transmit
  <2> QED
    BY <2>3, <2>4
<1>9. CASE Discard(c)
  <2>1. UNCHANGED <<lobby, handler>> /\ (UNCHANGED <<requests, conn, alive>> \/ End(c))
    BY <1>9 DEF Discard
  <2> QED
    BY <2>1, KeptStep, OnwardKept, EndStep
<1>10. CASE \E g \in Conns : Tell(c, g)
  BY <1>10, TellStep
<1>11. CASE \E p \in Peers : PeerSends(p, c)
  BY <1>11, KeptStep, OnwardKept DEF PeerSends
<1> QED
  BY <1>1, <1>2, <1>3, <1>4, <1>5, <1>6, <1>7, <1>8, <1>9, <1>10, <1>11

-----------------------------------------------------------------------------
(* What a connection has sent ends with "eof" when it is not the current one.  *)

Ended(rs) == rs # << >> /\ Last(rs) = Eof

\* new: the connection is not made yet; current: it is the client's current one.
Sound(rs, new, current) ==
  /\ new => rs = << >>
  /\ \A i \in 1 .. Len(rs) : rs[i] = Eof => i = Len(rs) /\ ~current
  /\ ~current => rs = << >> \/ Ended(rs)

Connection(c) ==
  /\ lobby[c] <= conn[c]
  /\ \A g \in Conns : Sound(requests[c][g], g > conn[c], Current(c, g))
  /\ lobby[c] # 0 =>
       /\ handler[c][lobby[c]] # "ended"
       /\ \/ Current(c, lobby[c])
          \/ Ended(requests[c][lobby[c]])
          \/ handler[c][lobby[c]] \in Leaving

ConnectionsOK == \A c \in Clients : Connection(c)

LEMMA SoundEmpty == \A new, current : Sound(<< >>, new, current)
BY EmptySeq DEF Sound

LEMMA SoundAppend ==
  ASSUME NEW rs \in Seq(Message), Sound(rs, FALSE, TRUE), NEW m \in Message \ {Eof}
  PROVE  Sound(Append(rs, m), FALSE, TRUE)
BY AppendProperties, LenProperties DEF Sound

LEMMA SoundClose ==
  ASSUME NEW rs \in Seq(Message), \A i \in 1 .. Len(rs) : rs[i] # Eof
  PROVE  Sound(Append(rs, Eof), FALSE, FALSE) /\ Ended(Append(rs, Eof))
<1>1. Eof \in Message /\ Len(rs) \in Nat
  BY EofIsNoRequest, LenProperties
<1>2. /\ Append(rs, Eof) # << >>
      /\ Len(Append(rs, Eof)) = Len(rs) + 1
      /\ Append(rs, Eof)[Len(rs) + 1] = Eof
      /\ \A i \in 1 .. Len(rs) : Append(rs, Eof)[i] = rs[i]
  BY <1>1, AppendProperties
<1>3. Ended(Append(rs, Eof))
  BY <1>2 DEF Ended, Last
<1>4. ASSUME NEW i \in 1 .. Len(rs) + 1, Append(rs, Eof)[i] = Eof PROVE i = Len(rs) + 1
  BY <1>1, <1>2, <1>4
<1> QED
  BY <1>2, <1>3, <1>4 DEF Sound

LEMMA SoundFront ==
  ASSUME NEW rs \in Seq(Message), Sound(rs, FALSE, TRUE), NEW kept \in 0 .. Len(rs)
  PROVE  /\ SubSeq(rs, 1, kept) \in Seq(Message)
         /\ \A i \in 1 .. Len(SubSeq(rs, 1, kept)) : SubSeq(rs, 1, kept)[i] # Eof
<1>1. Len(rs) \in Nat /\ \A i \in 1 .. Len(rs) : rs[i] \in Message
  BY LenProperties, ElementOfSeq
<1>2. 1 \in Int /\ kept \in Int /\ \A i \in 1 .. kept : rs[i] \in Message
  BY <1>1
<1>3. /\ SubSeq(rs, 1, kept) \in Seq(Message)
      /\ Len(SubSeq(rs, 1, kept)) = IF 1 <= kept THEN kept - 1 + 1 ELSE 0
      /\ \A i \in 1 .. kept - 1 + 1 : SubSeq(rs, 1, kept)[i] = rs[1 + i - 1]
  BY <1>2, SubSeqProperties
<1>4. ASSUME NEW i \in 1 .. Len(SubSeq(rs, 1, kept)) PROVE SubSeq(rs, 1, kept)[i] # Eof
  <2>1. i \in 1 .. kept - 1 + 1 /\ 1 + i - 1 = i /\ i \in 1 .. Len(rs)
    BY <1>1, <1>3
  <2>2. SubSeq(rs, 1, kept)[i] = rs[i]
    BY <1>3, <2>1
  <2> QED
    BY <2>1, <2>2 DEF Sound
<1> QED
  BY <1>3, <1>4

LEMMA SoundLeftover ==
  ASSUME NEW rs \in Seq(Message), NEW new \in BOOLEAN, NEW current \in BOOLEAN,
         Sound(rs, new, current), rs # << >>, NEW rest, Leftover(rs, rest)
  PROVE  Sound(rest, new, current) /\ (Ended(rs) => Ended(rest)) /\ ~new
<1> DEFINE l == Len(rs)
<1>1. l \in Nat /\ l > 0
  BY EmptySeq, LenProperties
<1>2. PICK n \in 0 .. l :
        /\ Len(rest) = l - n
        /\ \A i \in 1 .. n : rs[i] # Eof
        /\ \A i \in 1 .. Len(rest) : rest[i] = Eof <=> rs[i + n] = Eof
  BY LeftoverParts
<1> HIDE DEF l
<1>3. ASSUME NEW i \in 1 .. Len(rest), rest[i] = Eof PROVE i = Len(rest) /\ ~current
  <2>1. i + n \in 1 .. l /\ rs[i + n] = Eof
    BY <1>1, <1>2, <1>3
  <2>2. i + n = l /\ ~current
    BY <2>1 DEF Sound, l
  <2> QED
    BY <1>1, <1>2, <2>2
<1>4. ASSUME Ended(rs) PROVE Ended(rest)
  <2>1. rs[l] = Eof
    BY <1>4 DEF Ended, Last, l
  <2>2. n # l
    BY <1>1, <1>2, <2>1
  <2>3. Len(rest) \in 1 .. Len(rest) /\ Len(rest) + n = l
    BY <1>1, <1>2, <2>2
  <2>4. rest[Len(rest)] = Eof
    BY <1>2, <2>1, <2>3
  <2>5. rest # << >>
    <3> SUFFICES ASSUME rest = << >> PROVE FALSE
      OBVIOUS
    <3>1. Len(rest) = 0
      BY EmptySeq
    <3> QED
      BY <2>3, <3>1
  <2> QED
    BY <2>4, <2>5 DEF Ended, Last
<1>5. ~new /\ (~current => Ended(rs))
  BY DEF Sound
<1> QED
  BY <1>3, <1>4, <1>5 DEF Sound

LEMMA EntryIsConn ==
  ASSUME Types, NEW c \in Clients, Connection(c)
  PROVE  lobby[c] \in Nat /\ (lobby[c] # 0 => lobby[c] \in Conns)
<1>1. lobby[c] \in {0, 1} \cup Conns
  BY ClientsAreHosts DEF Types, ServerTypes
<1>2. CASE lobby[c] = 1
  <2>1. conn[c] \in Nat /\ 1 <= conn[c] /\ conn[c] <= scenario.conns /\ scenario.conns \in Nat
    BY <1>2, Numbers DEF Connection, Types, Counted
  <2>2. 1 \in 1 .. scenario.conns
    BY <2>1
  <2> QED
    BY <1>2, <2>2, Numbers
<1>3. CASE lobby[c] = 0
  BY <1>3
<1>4. CASE lobby[c] \in Conns
  BY <1>4, ConnsAreNat
<1> QED
  BY <1>1, <1>2, <1>3, <1>4

LEMMA ConnectionKept ==
  ASSUME NEW c \in Clients, Connection(c), requests'[c] = requests[c], conn'[c] = conn[c],
         alive'[c] = alive[c], lobby'[c] = lobby[c], Onward(c), Types
  PROVE  Connection(c)'
<1>1. lobby[c] # 0 => lobby[c] \in Conns
  BY EntryIsConn
<1> QED
  BY <1>1 DEF Connection, Current, Onward

\* A step at one connection, the client's current one or one that stays what it is.
LEMMA RowStep ==
  ASSUME Types, NEW c \in Clients, Connection(c), NEW g \in Conns, NEW rs, Now(c, g, rs),
         conn'[c] = conn[c], alive'[c] = alive[c] \/ g = conn[c],
         Sound(rs, g > conn[c], Current(c, g)'),
         \/ lobby'[c] = 0
         \/ lobby'[c] = lobby[c] /\ lobby[c] # g /\ Onward(c)
         \/ /\ lobby'[c] = g /\ g <= conn[c] /\ handler'[c][g] # "ended"
            /\ Current(c, g)' \/ Ended(rs) \/ handler'[c][g] \in Leaving
  PROVE  Connection(c)'
<1>1. ASSUME NEW h \in Conns PROVE Sound(requests[c][h], h > conn[c], Current(c, h))'
  <2>1. CASE h = g
    BY <2>1 DEF Now
  <2>2. CASE h # g
    <3>1. Sound(requests[c][h], h > conn[c], Current(c, h))
      BY DEF Connection
    <3>2. requests'[c][h] = requests[c][h] /\ (Current(c, h)' <=> Current(c, h))
      BY <2>2 DEF Now, Current
    <3> QED
      BY <3>1, <3>2 DEF Sound
  <2> QED
    BY <2>1, <2>2
<1>2. conn[c] \in Nat
  BY Numbers
<1>3. CASE lobby'[c] = 0
  BY <1>1, <1>2, <1>3 DEF Connection
<1>4. CASE lobby'[c] = lobby[c] /\ lobby[c] # g /\ Onward(c)
  <2>1. ASSUME lobby'[c] # 0
        PROVE  /\ handler'[c][lobby'[c]] # "ended"
               /\ \/ Current(c, lobby[c])'
                  \/ Ended(requests[c][lobby[c]])'
                  \/ handler'[c][lobby'[c]] \in Leaving
    <3>1. lobby[c] \in Conns
      BY <1>4, <2>1, EntryIsConn
    <3>2. Current(c, lobby[c]) => Current(c, lobby[c])'
      BY <1>4, <2>1 DEF Current
    <3>3. requests'[c][lobby[c]] = requests[c][lobby[c]]
      BY <1>4, <3>1 DEF Now
    <3>4. /\ handler'[c][lobby[c]] # "ended"
          /\ handler[c][lobby[c]] \in Leaving => handler'[c][lobby[c]] \in Leaving
      BY <1>4, <2>1, <3>1 DEF Connection, Onward
    <3> QED
      BY <1>4, <2>1, <3>2, <3>3, <3>4 DEF Connection
  <2>2. lobby'[c] <= conn'[c]
    BY <1>4 DEF Connection
  <2> QED
    BY <1>1, <2>1, <2>2 DEF Connection
<1>5. CASE /\ lobby'[c] = g /\ g <= conn[c] /\ handler'[c][g] # "ended"
           /\ Current(c, g)' \/ Ended(rs) \/ handler'[c][g] \in Leaving
  <2>1. requests'[c][g] = rs
    BY DEF Now
  <2> QED
    BY <1>1, <1>5, <2>1 DEF Connection
<1> QED
  BY <1>3, <1>4, <1>5

LEMMA SendsKeeps ==
  ASSUME Types, NEW c \in Clients, Connection(c), Sends(c)
  PROVE  Connection(c)'
<1> DEFINE g == conn[c]
           rs == requests[c][g]
<1>1. PICK m \in Message \ {Eof} : Now(c, g, Append(rs, m))
  BY DEF Sends
<1>2. alive[c] /\ g \in Conns /\ g \in Nat /\ UNCHANGED <<conn[c], alive[c], lobby[c]>> /\ Onward(c)
  BY Numbers DEF Sends
<1>3. rs \in Seq(Message)
  BY <1>2 DEF Types, WireTypes
<1>4. Sound(rs, FALSE, TRUE)
  <2>1. Sound(rs, g > conn[c], Current(c, g))
    BY <1>2 DEF Connection
  <2> QED
    BY <1>2, <2>1 DEF Current, Sound
<1>5. Sound(Append(rs, m), FALSE, TRUE)
  BY <1>3, <1>4, SoundAppend
<1>6. Sound(Append(rs, m), g > conn[c], Current(c, g)') /\ Current(c, g)'
  BY <1>2, <1>5 DEF Sound, Current
<1>7. lobby[c] \in Nat /\ g <= conn[c]
  BY <1>2, EntryIsConn
<1> QED
  <2>1. lobby[c] = g => handler'[c][g] # "ended"
    <3>1. lobby[c] = g => lobby[c] # 0
      BY Numbers, <1>2 DEF Types, Counted
    <3> QED
      BY <1>2, <3>1 DEF Connection, Onward
  <2> QED
    BY <1>1, <1>2, <1>6, <1>7, <2>1, RowStep

LEMMA BreaksKeeps ==
  ASSUME Types, NEW c \in Clients, Connection(c), alive[c], ~alive'[c],
         conn'[c] = conn[c], lobby'[c] = lobby[c], Onward(c),
         NEW kept \in 0 .. Len(requests[c][conn[c]]),
         Now(c, conn[c], Append(SubSeq(requests[c][conn[c]], 1, kept), Eof))
  PROVE  Connection(c)'
<1> DEFINE g == conn[c]
           rs == requests[c][g]
           front == SubSeq(rs, 1, kept)
<1>1. g \in Conns /\ g \in Nat
  BY Numbers
<1>2. rs \in Seq(Message)
  BY <1>1 DEF Types, WireTypes
<1>3. Sound(rs, FALSE, TRUE)
  <2>1. Sound(rs, g > conn[c], Current(c, g))
    BY <1>1 DEF Connection
  <2> QED
    BY <1>1, <2>1 DEF Current, Sound
<1>4. Sound(Append(front, Eof), FALSE, FALSE) /\ Ended(Append(front, Eof))
  <2>1. front \in Seq(Message) /\ \A i \in 1 .. Len(front) : front[i] # Eof
    BY <1>2, <1>3, SoundFront
  <2> HIDE DEF front
  <2> QED
    BY <2>1, SoundClose
<1>5. Sound(Append(front, Eof), g > conn[c], Current(c, g)')
  BY <1>1, <1>4 DEF Sound, Current
<1>6. lobby[c] \in Nat /\ g <= conn[c]
  BY <1>1, EntryIsConn
<1> QED
  <2>1. lobby[c] = g => handler'[c][g] # "ended"
    BY <1>1, Numbers DEF Connection, Onward, Types, Counted
  <2> QED
    BY <1>1, <1>4, <1>5, <1>6, <2>1, RowStep

LEMMA ClosesKeeps ==
  ASSUME Types, NEW c \in Clients, Connection(c), Closes(c)
  PROVE  Connection(c)'
<1> DEFINE g == conn[c]
           rs == requests[c][g]
<1>1. g \in Nat /\ lobby[c] \in Nat /\ (lobby[c] # 0 => lobby[c] \in Conns) /\ lobby'[c] = lobby[c]
      /\ Onward(c)
  BY Numbers, EntryIsConn DEF Closes
<1>2. ASSUME alive[c]
      PROVE  /\ g \in Conns /\ Now(c, g, Append(rs, Eof))
             /\ Sound(Append(rs, Eof), FALSE, FALSE) /\ Ended(Append(rs, Eof))
  <2>1. g \in Conns /\ Now(c, g, Append(rs, Eof))
    BY <1>2, Numbers DEF Closes
  <2>2. rs \in Seq(Message)
    BY <2>1 DEF Types, WireTypes
  <2>3. \A i \in 1 .. Len(rs) : rs[i] # Eof
    <3>1. Sound(rs, g > conn[c], Current(c, g))
      BY <2>1 DEF Connection
    <3> QED
      BY <1>2, <3>1 DEF Sound, Current
  <2> QED
    BY <2>1, <2>2, <2>3, SoundClose
<1>3. CASE conn'[c] = conn[c] /\ ~alive'[c]
  <2>1. CASE alive[c]
    <3>1. Sound(Append(rs, Eof), g > conn[c], Current(c, g)') /\ g <= conn[c]
      BY <1>1, <1>2, <1>3, <2>1 DEF Sound, Current
    <3>2. lobby[c] = g => handler'[c][g] # "ended"
      BY <1>1, <1>2, <2>1, Numbers DEF Connection, Onward, Types, Counted
    <3> QED
      BY <1>1, <1>2, <1>3, <2>1, <3>1, <3>2, RowStep
  <2>2. CASE ~alive[c]
    <3>1. requests'[c] = requests[c] /\ (\A h : Current(c, h)' <=> Current(c, h))
      BY <1>3, <2>2 DEF Closes, Current
    <3> QED
      BY <1>1, <1>3, <3>1 DEF Connection, Sound, Onward
  <2> QED
    BY <2>1, <2>2
<1>4. CASE conn'[c] = conn[c] + 1 /\ alive'[c]
  <2>1. ASSUME NEW h \in Conns PROVE Sound(requests[c][h], h > conn[c], Current(c, h))'
    <3>1. h \in Nat /\ Sound(requests[c][h], h > conn[c], Current(c, h))
      BY ConnsAreNat DEF Connection
    <3>2. CASE h = g
      <4>1. ~Current(c, h)' /\ ~(h > conn'[c])
        BY <1>1, <1>4, <3>2 DEF Current
      <4>2. CASE alive[c]
        BY <1>2, <3>2, <4>1, <4>2 DEF Now, Sound
      <4>3. CASE ~alive[c]
        BY <3>1, <3>2, <4>1, <4>3 DEF Closes, Sound, Current
      <4> QED
        BY <4>2, <4>3
    <3>3. CASE h # g
      <4>1. requests'[c][h] = requests[c][h]
        <5>1. CASE alive[c]
          BY <1>2, <3>3, <5>1 DEF Now
        <5>2. CASE ~alive[c]
          BY <5>2 DEF Closes
        <5> QED
          BY <5>1, <5>2
      <4>2. CASE h > g
        <5>1. requests'[c][h] = << >>
          BY <3>1, <4>1, <4>2 DEF Sound
        <5> QED
          BY <5>1, SoundEmpty
      <4>3. CASE h < g
        <5>1. ~Current(c, h)' /\ ~(h > conn'[c]) /\ ~Current(c, h) /\ ~(h > conn[c])
          BY <1>1, <1>4, <3>1, <4>3 DEF Current
        <5> QED
          BY <3>1, <4>1, <5>1 DEF Sound
      <4> QED
        BY <1>1, <3>1, <3>3, <4>2, <4>3
    <3> QED
      BY <3>2, <3>3
  <2>2. lobby'[c] <= conn'[c]
    BY <1>1, <1>4 DEF Connection
  <2>3. ASSUME lobby'[c] # 0
        PROVE  /\ handler'[c][lobby'[c]] # "ended"
               /\ Ended(requests[c][lobby[c]])' \/ handler'[c][lobby'[c]] \in Leaving
    <3>0. /\ lobby[c] \in Conns /\ handler'[c][lobby'[c]] # "ended"
          /\ handler[c][lobby[c]] \in Leaving => handler'[c][lobby'[c]] \in Leaving
      BY <1>1, <2>3 DEF Connection, Onward
    <3>1. CASE alive[c] /\ lobby[c] = g
      BY <1>1, <1>2, <3>0, <3>1 DEF Now
    <3>2. CASE ~(alive[c] /\ lobby[c] = g)
      <4>1. Ended(requests[c][lobby[c]]) \/ handler[c][lobby[c]] \in Leaving
        BY <1>1, <2>3, <3>2 DEF Connection, Current
      <4>2. requests'[c][lobby[c]] = requests[c][lobby[c]]
        <5>1. CASE alive[c]
          BY <1>1, <1>2, <2>3, <3>2, <5>1 DEF Now
        <5>2. CASE ~alive[c]
          BY <5>2 DEF Closes
        <5> QED
          BY <5>1, <5>2
      <4> QED
        BY <1>1, <3>0, <4>1, <4>2
    <3> QED
      BY <3>1, <3>2
  <2> QED
    BY <2>1, <2>2, <2>3 DEF Connection
<1> QED
  BY <1>3, <1>4 DEF Closes

LEMMA ServedKeeps ==
  ASSUME Types, NEW c \in Clients, Connection(c), NEW g \in Conns, Served(c, g)
  PROVE  Connection(c)'
<1> DEFINE rs == requests[c][g]
           new == g > conn[c]
           current == Current(c, g)
<1>1. /\ rs \in Seq(Message) /\ rs # << >>
      /\ UNCHANGED <<conn[c], alive[c]>> /\ g \in Nat /\ conn[c] \in Nat
  BY Numbers, ConnsAreNat DEF Served, Types, WireTypes
<1>2. PICK rest : Now(c, g, rest) /\ Leftover(rs, rest)
  BY DEF Served
<1>3. Sound(rs, new, current) /\ new \in BOOLEAN /\ current \in BOOLEAN
  BY DEF Connection, Current
<1> HIDE DEF new, current
<1>4. Sound(rest, new, current) /\ (Ended(rs) => Ended(rest)) /\ ~new
  BY <1>1, <1>2, <1>3, SoundLeftover
<1>5. ~current => Ended(rest)
  BY <1>1, <1>3, <1>4 DEF Sound
<1>6. current = Current(c, g)' /\ g <= conn[c]
  BY <1>1, <1>4 DEF Current, new, current
<1>7. Sound(rest, g > conn[c], Current(c, g)') /\ (~Current(c, g)' => Ended(rest))
  BY <1>4, <1>5, <1>6 DEF new
<1>8. CASE lobby'[c] = lobby[c] /\ lobby[c] # g
  BY <1>1, <1>2, <1>7, <1>8, RowStep DEF Served
<1>9. CASE lobby'[c] = g /\ handler'[c][g] # "ended"
  BY <1>1, <1>2, <1>6, <1>7, <1>9, RowStep
<1>10. CASE lobby'[c] = 0
  BY <1>1, <1>2, <1>7, <1>10, RowStep
<1> QED
  BY <1>8, <1>9, <1>10 DEF Served

LEMMA FinishedKeeps ==
  ASSUME Types, NEW c \in Clients, Connection(c), NEW g \in Conns, Finished(c, g)
  PROVE  Connection(c)'
<1>1. Now(c, g, << >>) /\ conn'[c] = conn[c] /\ (alive'[c] = alive[c] \/ g = conn[c])
  BY DEF Finished
<1>2. Sound(<< >>, g > conn[c], Current(c, g)')
  BY SoundEmpty
<1>3. CASE lobby'[c] = 0
  BY <1>1, <1>2, <1>3, RowStep
<1>4. CASE lobby'[c] = lobby[c] /\ handler'[c][g] \in Leaving /\ Onward(c)
  <2>1. lobby[c] = g => g <= conn[c]
    BY DEF Connection
  <2>2. handler'[c][g] # "ended"
    BY <1>4 DEF Leaving
  <2> QED
    BY <1>1, <1>2, <1>4, <2>1, <2>2, RowStep
<1> QED
  BY <1>3, <1>4 DEF Finished

LEMMA ConnectionStep ==
  ASSUME Types, ConnectionsOK, NEW b \in Clients, ConnStep(b)
  PROVE  ConnectionsOK'
<1> SUFFICES ASSUME NEW c \in Clients PROVE Connection(c)'
  BY DEF ConnectionsOK
<1>1. Connection(c)
  BY DEF ConnectionsOK
<1>2. CASE c # b
  BY <1>1, <1>2, ClientsAreHosts, ConnectionKept DEF ConnStep, Others
<1>3. CASE c = b
  <2>1. CASE Kept(c)
    BY <1>1, <2>1, ConnectionKept DEF Kept
  <2>2. CASE Sends(c)
    BY <1>1, <2>2, SendsKeeps
  <2>3. CASE Closes(c)
    BY <1>1, <2>3, ClosesKeeps
  <2>4. CASE Breaks(c)
    BY <1>1, <2>4, BreaksKeeps DEF Breaks
  <2>5. CASE \E g \in Conns : Served(c, g) \/ Finished(c, g)
    BY <1>1, <2>5, ServedKeeps, FinishedKeeps
  <2> QED
    BY <1>3, <2>1, <2>2, <2>3, <2>4, <2>5 DEF ConnStep
<1> QED
  BY <1>2, <1>3

-----------------------------------------------------------------------------
(* Types and connections are an invariant.                                 *)

LanInv == Types /\ PeersOK /\ ConnectionsOK

LEMMA LanInit ==
  ASSUME Init
  PROVE  LanInv
<1>1. /\ scenario \in Scenarios /\ scenario.conns \in Nat
  BY LanAssumption DEF Init, Scenario
<1>2. Types
  <2>1. /\ [main |-> "off", checker |-> "off", listener |-> "off"]
             \in [main : Labels, checker : Labels, listener : Labels]
        /\ None \in [verb : Verbs, members : SUBSET Text]
        /\ NoScan \in Search
    BY DEF Labels, None, Verbs, Search
  <2>2. << >> \in Seq(Message) /\ << >> \in Seq(Text \ {<< >>})
    BY EmptySeq
  <2>3. ThreadTypes
    BY <2>1 DEF Init, ThreadTypes
  <2>4. WireTypes
    BY <2>2 DEF Init, WireTypes
  <2>5. ServerTypes /\ BoundTypes
    BY DEF Init, ServerTypes, BoundTypes, Handlers
  <2>6. Counted
    BY <1>1 DEF Init, Counted
  <2> QED
    BY <2>3, <2>4, <2>5, <2>6 DEF Types
<1>3. PeersOK
  BY ClientsAreHosts DEF Init, PeersOK
<1>4. ConnectionsOK
  <2> SUFFICES ASSUME NEW c \in Clients PROVE Connection(c)
    BY DEF ConnectionsOK
  <2>1. lobby[c] = 0 /\ conn[c] = 0 /\ \A g \in Conns : requests[c][g] = << >>
    BY ClientsAreHosts DEF Init
  <2> QED
    BY <2>1, SoundEmpty DEF Connection
<1> QED
  BY <1>2, <1>3, <1>4 DEF LanInv

LEMMA LanStep ==
  ASSUME LanInv, [Next]_vars
  PROVE  LanInv'
<1> USE DEF LanInv
<1>1. CASE UNCHANGED vars
  BY <1>1 DEF vars, clientVars, serverVars, boundVars, Types, ThreadTypes, WireTypes,
              ServerTypes, BoundTypes, Counted, PeersOK, ConnectionsOK, Connection, Current
<1>2. ASSUME NEW c \in Clients, ConnStep(c), Types' PROVE LanInv'
  <2>1. PeersOK'
    BY <1>2, ClientsAreHosts DEF PeersOK, ConnStep, Others
  <2> QED
    BY <1>2, <2>1, ConnectionStep
<1>3. ASSUME NEW p \in Peers, PeerMoves(p) PROVE LanInv'
  <2>1. Types'
    BY <1>3, PeerMovesTypes
  <2>2. /\ p \in Hosts /\ p \notin Clients /\ lobby[p] \in {0, 1}
        /\ lobby' = [lobby EXCEPT ![p] = 1 - lobby[p]]
    BY <1>3, ClientsAreHosts DEF PeerMoves, PeersOK, Types, ServerTypes
  <2>3. PeersOK'
    BY <2>2, ClientsAreHosts DEF PeersOK, Types, ServerTypes
  <2>4. /\ UNCHANGED <<requests, conn, alive>> /\ \A c \in Clients : lobby'[c] = lobby[c]
        /\ \A c \in Clients : Onward(c)
    BY <1>3, <2>2, ClientsAreHosts
       DEF PeerMoves, clientVars, Types, ServerTypes, Onward, Resized, Leaving
  <2>5. ConnectionsOK'
    BY <2>4, ConnectionKept DEF ConnectionsOK
  <2> QED
    BY <2>1, <2>3, <2>5
<1>4. ASSUME NEW c \in Clients,
             \/ Start(c)
             \/ \E t \in {"main", "checker"} : Caller(c, t)
             \/ LeaveLobby(c)
             \/ CheckConnection(c)
             \/ Menu(c)
             \/ Listener(c)
             \/ \E d \in scenario.dsts \ {c} : Scan(c, Address[d])
             \/ Transmit(c)
             \/ Discard(c)
             \/ \E g \in Conns : Tell(c, g)
             \/ \E p \in Peers : PeerSends(p, c)
      PROVE  LanInv'
  <2>1. ConnStep(c)
    BY <1>4, ClientStep
  <2>2. Types'
    <3>1. ASSUME NEW t \in {"main", "checker"}, Caller(c, t) PROVE Types'
      BY <3>1, JoinLobbyTypes, GetLobbyMembersTypes, ReconnectTypes DEF Caller
    <3>2. CASE Listener(c)
      BY <3>2, RecvTypes, RecvEndsTypes, CallbackTypes DEF Listener
    <3>3. ASSUME NEW d \in scenario.dsts \ {c}, Scan(c, Address[d]) PROVE Types'
      <4>1. d \in Hosts
        BY <3>3, LanAssumption DEF Types, BoundTypes, Scenario, Hosts
      <4> QED
        BY <3>3, <4>1, ScanTypes DEF Addresses
    <3> QED
      BY <1>4, <3>1, <3>2, <3>3, StartTypes, LeaveLobbyTypes, CheckConnectionTypes, MenuTypes,
         TransmitTypes, DiscardTypes, TellTypes, PeerSendsTypes
  <2> QED
    BY <1>2, <2>1, <2>2
<1>5. ASSUME NEW c \in Clients, NEW g \in Conns, Serve(c, g) \/ LoopRaises(c, g) PROVE LanInv'
  <2>1. \A i \in 1 .. Len(requests[c][g]) :
          requests[c][g][i] = Eof => i = Len(requests[c][g])
    BY DEF ConnectionsOK, Connection, Sound
  <2> QED
    BY <1>2, <1>5, <2>1, ActsStep, ServeActs, LoopRaisesActs, ServeTypes, LoopRaisesTypes
<1>6. ASSUME NEW c \in Clients, Drop(c) PROVE LanInv'
  BY <1>2, <1>6, DropStep, DropTypes
<1>7. ASSUME NEW c \in Clients, NEW g \in Conns, ThreadEnds(c, g) PROVE LanInv'
  BY <1>2, <1>7, ThreadEndsStep, ThreadEndsTypes
<1> QED
  BY <1>1, <1>3, <1>4, <1>5, <1>6, <1>7 DEF Next, Handler

LEMMA InvariantTypes ==
  ASSUME LanInv
  PROVE  TypeOK /\ StaleEntriesGo
<1>1. ASSUME NEW c \in Clients, NEW g \in Conns, NEW i \in DOMAIN requests[c][g],
             requests[c][g][i] = <<"eof">>
      PROVE  i = Len(requests[c][g])
  <2>1. i \in 1 .. Len(requests[c][g])
    BY LenProperties DEF LanInv, Types, WireTypes
  <2>2. Sound(requests[c][g], g > conn[c], Current(c, g))
    BY DEF LanInv, ConnectionsOK, Connection
  <2> QED
    BY <1>1, <2>1, <2>2 DEF Sound, Eof
<1>2. TypeOK
  BY <1>1 DEF LanInv, TypeOK, Types, ThreadTypes, WireTypes, ServerTypes, BoundTypes
<1>3. StaleEntriesGo
  <2> SUFFICES ASSUME NEW c \in Clients, lobby[c] # 0, ~Current(c, lobby[c])
               PROVE  LET rs == requests[c][lobby[c]]
                      IN  \/ /\ rs # << >> /\ Last(rs) = <<"eof">>
                             /\ handler[c][lobby[c]] \in Running
                          \/ handler[c][lobby[c]] \in {"finally", "resized", "raised"}
    BY DEF StaleEntriesGo
  <2>1. /\ lobby[c] \in Conns /\ handler[c][lobby[c]] # "ended"
        /\ Ended(requests[c][lobby[c]]) \/ handler[c][lobby[c]] \in Leaving
    BY EntryIsConn DEF LanInv, ConnectionsOK, Connection
  <2>2. handler[c][lobby[c]] \in Handlers
    BY <2>1 DEF LanInv, Types, ServerTypes
  <2> QED
    BY <2>1, <2>2 DEF Ended, Eof, Leaving, Handlers, Running
<1> QED
  BY <1>2, <1>3

\* Every behaviour keeps the types and the connections.
THEOREM LanInvariant == Spec => []LanInv
<1>1. Init => LanInv
  BY LanInit
<1>2. LanInv /\ [Next]_vars => LanInv'
  BY LanStep
<1> QED
  BY <1>1, <1>2, PTL DEF Spec

\* Whatever the hosts, addresses and scenarios are, every variable keeps its type, and a
\* connection is closed once, after all that it has sent.
THEOREM LanTypeCorrect == Spec => []TypeOK
<1>1. LanInv => TypeOK
  BY InvariantTypes
<1> QED
  BY <1>1, LanInvariant, PTL

\* An entry of a connection that is not its client's current one is never forgotten while the
\* finally block can still delete it: the server has an "eof" to read from the connection, or
\* its thread is in the finally block, whatever breaks, reconnects or restarts in between; or
\* that block has raised (server.py:116, 120), and then the entry stays for good.
THEOREM StaleEntriesLeave == Spec => []StaleEntriesGo
<1>1. LanInv => StaleEntriesGo
  BY InvariantTypes
<1> QED
  BY <1>1, LanInvariant, PTL

-----------------------------------------------------------------------------
(* What a step does to the replies that a client has not read.             *)

LEMMA WriteEffect ==
  ASSUME Types, NEW c \in Clients, NEW g, NEW w, Write(c, g, w)
  PROVE  /\ \A d \in Clients \ {c} : replies'[d] = replies[d]
         /\ replies'[c] = replies[c] \/ replies'[c] = Glued(replies[c], w)
BY DEF Write, Types, WireTypes

\* What begins with a word of the protocol, and names no address but those of S.
Sendable(w, S) == w \in Text \ {<< >>} /\ w[1] \in Words \ {Blank} /\ Clean(w, S)

LEMMA AnswersSendable ==
  /\ \A verb \in {"join", "list", "leave"}, ok \in {"0", "1"} : \A S : Sendable(Reply(verb, ok), S)
  /\ \A S : Sendable(ErrorReply, S) /\ Sendable(FrameWrite, S)
<1>1. {"join", "list", "leave", "0", "1"} \subseteq Words \ {Blank}
  BY DEF Words, Blank
<1> QED
  BY <1>1, WrittenType, CleanReplies DEF Sendable

LEMMA ListReplySendable == Sendable(ListReply(SetToSeq(Members)), Members)
<1>1. Listing(ListReply(SetToSeq(Members)), Members)
  BY ListReplyMembers
<1>2. 1 \in 1 .. 6 /\ Reply("list", "1")[1] = "command" /\ "command" \in Words \ {Blank}
  BY DEF Reply, Words, Blank
<1> QED
  BY <1>1, <1>2, ListReplyMembers DEF Listing, Sendable

AllClean(ws, S) == \A i \in 1 .. Len(ws) : Clean(ws[i], S)

LEMMA GluedClean ==
  ASSUME NEW ws \in Seq(Text \ {<< >>}), NEW S, AllClean(ws, S), NEW w, Sendable(w, S)
  PROVE  AllClean(Glued(ws, w), S)
<1>1. CASE scenario.cuts /\ ws # << >>
  <2>1. Head(ws) \in Text /\ 1 \in 1 .. Len(ws) /\ Head(ws) = ws[1]
    BY <1>1, EmptySeq, LenProperties, HeadTailProperties
  <2>2. Clean(Head(ws) \o w, S)
    BY <2>1, CleanGlued DEF AllClean, Sendable
  <2> DEFINE v == Head(ws) \o w
  <2>3. Glued(ws, w) = <<v>>
    BY <1>1 DEF Glued
  <2>4. Clean(v, S)
    BY <2>2
  <2> HIDE DEF v
  <2>5. Len(<<v>>) = 1 /\ <<v>>[1] = v /\ \A i \in 1 .. 1 : i = 1
    OBVIOUS
  <2> QED
    BY <2>3, <2>4, <2>5 DEF AllClean
<1>2. CASE ~(scenario.cuts /\ ws # << >>)
  <2>1. Glued(ws, w) = Append(ws, w) /\ w \in Text \ {<< >>} /\ Clean(w, S)
    BY <1>2 DEF Glued, Sendable
  <2>2. /\ Len(ws) \in Nat /\ Len(Append(ws, w)) = Len(ws) + 1
        /\ \A i \in 1 .. Len(ws) : Append(ws, w)[i] = ws[i]
        /\ Append(ws, w)[Len(ws) + 1] = w
    BY <2>1, AppendProperties, LenProperties
  <2>3. ASSUME NEW i \in 1 .. Len(ws) + 1 PROVE Clean(Append(ws, w)[i], S)
    <3>1. CASE i = Len(ws) + 1
      BY <2>1, <2>2, <3>1
    <3>2. CASE i # Len(ws) + 1
      <4>1. i \in 1 .. Len(ws)
        BY <2>2, <3>2
      <4> QED
        BY <2>2, <4>1 DEF AllClean
    <3> QED
      BY <3>1, <3>2
  <2> QED
    BY <2>1, <2>2, <2>3 DEF AllClean
<1> QED
  BY <1>1, <1>2

\* The threads of the server do this to the client d.
LEMMA ActsReplies ==
  ASSUME Types, NEW c \in Clients, NEW g \in Conns, Acts(c, g)
  PROVE  \A d \in Clients :
           /\ told[d] \subseteq told'[d]
           /\ \/ replies'[d] = replies[d]
              \/ \E w : Sendable(w, told'[d]) /\ replies'[d] = Glued(replies[d], w)
<1> DEFINE Effect == \A d \in Clients :
                        /\ told[d] \subseteq told'[d]
                        /\ \/ replies'[d] = replies[d]
                           \/ \E w : Sendable(w, told'[d]) /\ replies'[d] = Glued(replies[d], w)
<1>1. ASSUME NEW b \in Clients, NEW h, NEW w, \A S : Sendable(w, S), told' = told, Write(b, h, w)
      PROVE  Effect
  BY <1>1, WriteEffect
<1>2. ASSUME UNCHANGED <<replies, told>> PROVE Effect
  BY <1>2
<1>3. ASSUME Lists(c, g) PROVE Effect
  <2>1. /\ Write(c, g, ListReply(SetToSeq(Members)))
        /\ told'[c] = told[c] \cup Members /\ \A d \in Clients \ {c} : told'[d] = told[d]
    BY <1>3 DEF Lists, Types, ServerTypes
  <2>2. Sendable(ListReply(SetToSeq(Members)), told'[c])
    BY <2>1, ListReplySendable, CleanGrows DEF Sendable
  <2> QED
    BY <2>1, <2>2, WriteEffect
<1> HIDE DEF Effect
<1>4. ASSUME Reaction(c, g) PROVE Effect
  <2>1. \A w \in Refusals : \A S : Sendable(w, S)
    BY AnswersSendable DEF Refusals
  <2>2. \A S : Sendable(FrameWrite, S)
    BY AnswersSendable
  <2>3. told' = told
    BY <1>4 DEF Reaction, ToFinally
  <2> QED
    BY <1>1, <1>2, <1>4, <2>1, <2>2, <2>3 DEF Reaction, ToFinally
<1>5. ASSUME Enters(c, g) \/ Leaves(c, g) \/ ToFinally(c, g) PROVE Effect
  BY <1>2, <1>5 DEF Enters, Leaves, ToFinally
<1>6. Effect
  BY <1>3, <1>4, <1>5 DEF Acts
<1> QED
  BY <1>6 DEF Effect

-----------------------------------------------------------------------------
(* A client knows no address that has not been listed to it.               *)

\* Nor does it find one in what it has received or has not read.
Known(c) ==
  /\ memberList[c] \cap Addresses \subseteq told[c]
  /\ chunk[c].members \cap Addresses \subseteq told[c]
  /\ AllClean(replies[c], told[c])

KnownOK == \A c \in Clients : Known(c)

Learns(d) ==
  /\ told[d] \subseteq told'[d]
  /\ memberList'[d] \in {memberList[d], {}, chunk[d].members}
  /\ chunk'[d] \in {chunk[d], None}
  /\ \/ replies'[d] = replies[d]
     \/ replies'[d] = << >>
     \/ \E w : Sendable(w, told'[d]) /\ replies'[d] = Glued(replies[d], w)

LEMMA LearnsKeeps ==
  ASSUME Types, NEW d \in Clients, Known(d), Learns(d)
  PROVE  Known(d)'
<1>1. replies[d] \in Seq(Text \ {<< >>}) /\ told[d] \subseteq told'[d]
  BY DEF Types, WireTypes, Learns
<1>2. AllClean(replies[d], told'[d])
  BY <1>1, CleanGrows DEF Known, AllClean
<1>3. AllClean(replies'[d], told'[d])
  <2>1. CASE replies'[d] = replies[d]
    BY <1>2, <2>1
  <2>2. CASE replies'[d] = << >>
    BY <2>2, EmptySeq DEF AllClean
  <2>3. CASE \E w : Sendable(w, told'[d]) /\ replies'[d] = Glued(replies[d], w)
    BY <1>1, <1>2, <2>3, GluedClean
  <2> QED
    BY <2>1, <2>2, <2>3 DEF Learns
<1>4. memberList'[d] \cap Addresses \subseteq told'[d]
  BY <1>1 DEF Known, Learns
<1>5. chunk'[d].members \cap Addresses \subseteq told'[d]
  BY <1>1 DEF Known, Learns, None
<1> QED
  BY <1>3, <1>4, <1>5 DEF Known

LEMMA RecvKeepsKnown ==
  ASSUME Types, NEW c \in Clients, Known(c), Recv(c)
  PROVE  Known(c)'
<1> DEFINE s == Head(replies[c])
           Rest(n) == IF n = Len(s) THEN Tail(replies[c])
                      ELSE <<SubSeq(s, n + 1, Len(s))>> \o Tail(replies[c])
<1>1. PICK n \in DOMAIN s :
        /\ s \in Text /\ Len(s) \in Nat /\ n \in 1 .. Len(s)
        /\ replies[c] # << >> /\ replies[c] \in Seq(Text \ {<< >>})
        /\ SubSeq(s, 1, n) \in Text
        /\ chunk' = [chunk EXCEPT ![c] = Understood(SubSeq(s, 1, n))]
        /\ replies' = [replies EXCEPT ![c] = Rest(n)]
  BY RecvParts
<1>2. /\ memberList' = memberList /\ told' = told
      /\ chunk'[c] = Understood(SubSeq(s, 1, n)) /\ replies'[c] = Rest(n)
  BY <1>1 DEF Recv, serverVars, Types, ThreadTypes, WireTypes
<1>3. 1 \in 1 .. Len(replies[c]) /\ s = replies[c][1] /\ Len(replies[c]) \in Nat
  BY <1>1, EmptySeq, LenProperties, HeadTailProperties
<1>4. Clean(s, told[c])
  BY <1>3 DEF Known, AllClean
<1>5. Clean(SubSeq(s, 1, n), told[c])
  <2>1. 1 \in 1 .. Len(s) /\ n \in 1 .. Len(s)
    BY <1>1
  <2> HIDE DEF s
  <2> QED
    BY <1>1, <1>4, <2>1, CleanPart
<1>6. chunk'[c].members \cap Addresses \subseteq told[c]
  BY <1>1, <1>2, <1>5, CleanMembers
<1>7. /\ Len(Tail(replies[c])) = Len(replies[c]) - 1
      /\ \A i \in 1 .. Len(replies[c]) - 1 : Tail(replies[c])[i] = replies[c][i + 1]
      /\ Tail(replies[c]) \in Seq(Text \ {<< >>})
  BY <1>1, HeadTailProperties
<1>8. AllClean(Tail(replies[c]), told[c])
  <2> SUFFICES ASSUME NEW i \in 1 .. Len(replies[c]) - 1 PROVE Clean(Tail(replies[c])[i], told[c])
    BY <1>7 DEF AllClean
  <2>1. i + 1 \in 1 .. Len(replies[c])
    BY <1>3
  <2> QED
    BY <1>7, <2>1 DEF Known, AllClean
<1>9. AllClean(Rest(n), told[c])
  <2>1. CASE n = Len(s)
    BY <1>8, <2>1
  <2>2. CASE n # Len(s)
    <3> DEFINE m == n + 1
               rest == SubSeq(s, m, Len(s))
               tail == Tail(replies[c])
    <3>1. m \in 1 .. Len(s) /\ Len(s) \in m .. Len(s)
      BY <1>1, <2>2
    <3>2. Clean(rest, told[c])
      <4> HIDE DEF s, m
      <4> QED
        BY <1>1, <1>4, <3>1, CleanPart
    <3>3. Rest(n) = <<rest>> \o tail
      BY <2>2
    <3>4. rest \in Text
      <4>1. \A i \in m .. Len(s) : s[i] \in Words \cup Parts
        <5> HIDE DEF s
        <5> QED
          BY <1>1, <3>1, ElementOfSeq DEF Text
      <4>2. m \in Int /\ Len(s) \in Int
        BY <1>1
      <4> HIDE DEF s, m
      <4> QED
        BY <4>1, <4>2, SubSeqProperties DEF Text
    <3> HIDE DEF rest, tail, Rest
    <3>5. <<rest>> \in Seq(Text) /\ Len(<<rest>>) = 1 /\ <<rest>>[1] = rest
      BY <3>4
    <3>6. tail \in Seq(Text) /\ Len(tail) \in Nat
      BY <1>7, SeqMonotonic, LenProperties DEF tail
    <3>7. /\ Len(<<rest>> \o tail) = 1 + Len(tail)
          /\ \A i \in 1 .. 1 + Len(tail) :
               (<<rest>> \o tail)[i] = IF i <= 1 THEN <<rest>>[i] ELSE tail[i - 1]
      BY <3>5, <3>6, ConcatProperties
    <3> SUFFICES ASSUME NEW i \in 1 .. 1 + Len(tail) PROVE Clean((<<rest>> \o tail)[i], told[c])
      BY <3>3, <3>7 DEF AllClean
    <3>8. CASE i = 1
      BY <3>2, <3>5, <3>6, <3>7, <3>8
    <3>9. CASE i # 1
      <4>1. i - 1 \in 1 .. Len(tail) /\ ~(i <= 1)
        BY <3>6, <3>9
      <4> QED
        BY <1>8, <3>7, <4>1 DEF AllClean, tail
    <3> QED
      BY <3>8, <3>9
  <2> QED
    BY <2>1, <2>2
<1> HIDE DEF Rest, s
<1> QED
  BY <1>2, <1>6, <1>9 DEF Known

LEMMA KnownStep ==
  ASSUME Types, KnownOK, [Next]_vars
  PROVE  KnownOK'
<1> SUFFICES ASSUME NEW d \in Clients PROVE Known(d)'
  BY DEF KnownOK
<1> USE DEF serverVars, boundVars, clientVars
<1>0. Known(d)
  BY DEF KnownOK
<1>1. ASSUME Learns(d) PROVE Known(d)'
  BY <1>0, <1>1, LearnsKeeps
<1>2. ASSUME told' = told, memberList' = memberList, chunk' = chunk, replies'[d] = replies[d]
      PROVE  Known(d)'
  BY <1>1, <1>2 DEF Learns
<1>3. ASSUME NEW c \in Clients, NEW members \in {{}, chunk[c].members}, SetMembers(c, members)
      PROVE  memberList'[d] \in {memberList[d], {}, chunk[d].members}
  BY <1>3 DEF SetMembers, Types, ThreadTypes
<1>4. ASSUME NEW c \in Clients, Open(c), UNCHANGED <<memberList, chunk, told>>
      PROVE  Known(d)'
  <2>1. replies'[d] = replies[d] \/ replies'[d] = << >>
    BY <1>4 DEF Open, Types, WireTypes
  <2> QED
    BY <1>1, <1>4, <2>1 DEF Learns
<1>5. ASSUME NEW c \in Clients, End(c), told' = told
      PROVE  Known(d)'
  <2>1. replies'[d] = replies[d] \/ replies'[d] = << >>
    BY <1>5 DEF End, Types, WireTypes
  <2>2. memberList'[d] \in {memberList[d], {}} /\ chunk'[d] \in {chunk[d], None}
    BY <1>5 DEF End, Types, ThreadTypes
  <2> QED
    BY <1>1, <1>5, <2>1, <2>2 DEF Learns
<1>6. ASSUME NEW c \in Clients, NEW g, NEW v \in {Reply("join", "1"), Reply("leave", "1"), FrameWrite},
             Write(c, g, v),
             UNCHANGED <<memberList, chunk, told>>
      PROVE  Known(d)'
  <2>1. replies'[d] = replies[d] \/ \E w : Sendable(w, told'[d]) /\ replies'[d] = Glued(replies[d], w)
    BY <1>6, WriteEffect, AnswersSendable
  <2> QED
    BY <1>1, <1>6, <2>1 DEF Learns
<1>11. CASE UNCHANGED vars
  BY <1>2, <1>11 DEF vars
<1>12. ASSUME NEW c \in Clients, Start(c) PROVE Known(d)'
  BY <1>4, <1>12 DEF Start
<1>13. ASSUME NEW c \in Clients, NEW t \in {"main", "checker"}, Caller(c, t) PROVE Known(d)'
  BY <1>2, <1>4, <1>13 DEF Caller, JoinLobby, GetLobbyMembers, Reconnect
<1>14. ASSUME NEW c \in Clients, LeaveLobby(c) PROVE Known(d)'
  BY <1>2, <1>14 DEF LeaveLobby
<1>15. ASSUME NEW c \in Clients, CheckConnection(c) PROVE Known(d)'
  <2>1. UNCHANGED <<chunk, replies, told>>
    BY <1>15 DEF CheckConnection
  <2>2. memberList'[d] \in {memberList[d], {}, chunk[d].members}
    BY <1>3, <1>15 DEF CheckConnection
  <2> QED
    BY <1>1, <2>1, <2>2 DEF Learns
<1>16. ASSUME NEW c \in Clients, Menu(c) PROVE Known(d)'
  BY <1>2, <1>5, <1>16 DEF Menu
<1>17. ASSUME NEW c \in Clients, Listener(c) PROVE Known(d)'
  <2>1. CASE Recv(c)
    <3>1. CASE c = d
      BY <1>0, <2>1, <3>1, RecvKeepsKnown
    <3>2. CASE c # d
      <4>1. UNCHANGED <<memberList, told, chunk[d], replies[d]>>
        BY <2>1, <3>2 DEF Recv, Types, ThreadTypes, WireTypes
      <4> QED
        BY <1>1, <4>1 DEF Learns
    <3> QED
      BY <3>1, <3>2
  <2>2. CASE RecvEnds(c)
    BY <1>2, <2>2 DEF RecvEnds
  <2>3. CASE Callback(c)
    <3>1. told' = told
      BY <2>3 DEF Callback
    <3>2. CASE End(c)
      BY <1>5, <3>1, <3>2
    <3>3. CASE /\ HandleResponse(c, chunk[c])
               /\ chunk' = [chunk EXCEPT ![c] = None]
               /\ replies' = replies
      <4>1. memberList' = memberList \/ \E members \in {{}, chunk[c].members} : SetMembers(c, members)
        BY <3>3 DEF HandleResponse
      <4>2. memberList'[d] \in {memberList[d], {}, chunk[d].members}
        BY <1>3, <4>1
      <4>3. chunk'[d] \in {chunk[d], None}
        BY <3>3 DEF Types, ThreadTypes
      <4> QED
        BY <1>1, <3>1, <3>3, <4>2, <4>3 DEF Learns
    <3> QED
      BY <2>3, <3>2, <3>3 DEF Callback
  <2> QED
    BY <1>17, <2>1, <2>2, <2>3 DEF Listener
<1>18. ASSUME NEW c \in Clients, NEW a, Scan(c, a) PROVE Known(d)'
  BY <1>2, <1>18 DEF Scan
<1>19. ASSUME NEW c \in Clients, Transmit(c) PROVE Known(d)'
  BY <1>2, <1>19 DEF Transmit
<1>20. ASSUME NEW c \in Clients, Discard(c) PROVE Known(d)'
  BY <1>2, <1>5, <1>20 DEF Discard
<1>21. ASSUME NEW c \in Clients, NEW g \in Conns, Serve(c, g) \/ LoopRaises(c, g)
      PROVE  Known(d)'
  <2>1. Acts(c, g)
    BY <1>21, ServeActs, LoopRaisesActs
  <2>2. UNCHANGED <<memberList, chunk>>
    BY <2>1 DEF Acts
  <2> QED
    BY <1>1, <2>1, <2>2, ActsReplies DEF Learns
<1>22. ASSUME NEW c \in Clients, NEW g \in Conns, Tell(c, g) PROVE Known(d)'
  BY <1>6, <1>22 DEF Tell
<1>23. ASSUME NEW c \in Clients, Drop(c) PROVE Known(d)'
  <2>1. replies'[d] = replies[d] \/ replies'[d] = << >>
    BY <1>23 DEF Drop, Types, WireTypes
  <2>2. UNCHANGED <<memberList, chunk, told>>
    BY <1>23 DEF Drop
  <2> QED
    BY <1>1, <2>1, <2>2 DEF Learns
<1>24. ASSUME NEW p \in Peers, PeerMoves(p) PROVE Known(d)'
  BY <1>2, <1>24 DEF PeerMoves
<1>25. ASSUME NEW p \in Peers, NEW c \in Clients, PeerSends(p, c) PROVE Known(d)'
  BY <1>6, <1>25 DEF PeerSends
<1>26. ASSUME NEW c \in Clients, NEW g \in Conns, ThreadEnds(c, g) PROVE Known(d)'
  BY <1>2, <1>26 DEF ThreadEnds
<1> QED
  BY <1>11, <1>12, <1>13, <1>14, <1>15, <1>16, <1>17, <1>18, <1>19, <1>20, <1>21, <1>22, <1>23,
     <1>24, <1>25, <1>26 DEF Next, Handler

\* However recv() cuts and glues what the server writes, no address gets into memberList that
\* the server has not listed to the client: the front of an address is not read as another
\* one, because a member ends at a blank and updateLobbyList keeps no last piece.
THEOREM ListsAreTrue == Spec => []MembersListed
<1>1. Init => KnownOK
  BY EmptySeq DEF Init, KnownOK, Known, None, AllClean
<1>2. LanInv /\ KnownOK /\ [Next]_vars => KnownOK'
  BY KnownStep DEF LanInv
<1>3. KnownOK => MembersListed
  BY DEF KnownOK, Known, MembersListed
<1> QED
  BY <1>1, <1>2, <1>3, LanInvariant, PTL DEF Spec

-----------------------------------------------------------------------------
(* What the client understands of the answers.                             *)

JoinAnswer == Reply("join", "1")
LeaveAnswer == Reply("leave", "1")

Answers == {Reply(verb, ok) : verb \in {"join", "list", "leave"}, ok \in {"0", "1"}}
             \cup {ErrorReply, FrameWrite}

\* A reply to "list" begins with that.
BeginsListing(w) == Len(w) >= 6 /\ \A i \in 1 .. 6 : w[i] = Reply("list", "1")[i]

Possible(w) == w \in Answers \/ BeginsListing(w)

LEMMA OneWord ==
  ASSUME NEW s \in Text, NEW i \in 1 .. Len(s)
  PROVE  SubSeq(s, i, i) = <<s[i]>>
<1>1. Len(s) \in Nat /\ i \in Int /\ \A j \in i .. i : s[j] \in Words \cup Parts
  BY LenProperties, ElementOfSeq DEF Text
<1>2. /\ SubSeq(s, i, i) \in Seq(Words \cup Parts)
      /\ Len(SubSeq(s, i, i)) = IF i <= i THEN i - i + 1 ELSE 0
      /\ \A j \in 1 .. i - i + 1 : SubSeq(s, i, i)[j] = s[i + j - 1]
  BY <1>1, SubSeqProperties
<1>3. Len(SubSeq(s, i, i)) = 1 /\ SubSeq(s, i, i)[1] = s[i]
  <2>1. i <= i /\ i - i + 1 = 1 /\ 1 \in 1 .. i - i + 1 /\ i + 1 - 1 = i
    BY <1>1
  <2> QED
    BY <1>2, <2>1
<1>4. <<s[i]>> \in Seq(Words \cup Parts) /\ Len(<<s[i]>>) = 1 /\ <<s[i]>>[1] = s[i]
  BY <1>1
<1> DEFINE u == SubSeq(s, i, i)
           v == <<s[i]>>
<1>5. u \in Seq(Words \cup Parts) /\ v \in Seq(Words \cup Parts) /\ Len(u) = 1 /\ Len(v) = 1
      /\ u[1] = v[1]
  BY <1>2, <1>3, <1>4
<1> HIDE DEF u, v
<1>6. \A j \in 1 .. Len(u) : u[j] = v[j]
  <2>1. ASSUME NEW j \in 1 .. Len(u) PROVE j = 1
    BY <1>5
  <2> QED
    BY <1>5, <2>1
<1>7. u = v
  BY <1>5, <1>6, SeqEqual
<1> QED
  BY <1>7 DEF u, v

\* Where the first blanks are.
LEMMA NextStop ==
  ASSUME NEW s \in Text, NEW a \in Nat, a + 2 <= Len(s), s[a + 1] # Blank, s[a + 2] = Blank
  PROVE  Stop(s, a) = a + 2 /\ Piece(s, a) = <<s[a + 1]>>
<1>1. Len(s) \in Nat
  BY LenProperties DEF Text
<1>2. /\ Stop(s, a) \in 1 .. Len(s) + 1
      /\ Stop(s, a) <= Len(s) => Stop(s, a) > a /\ s[Stop(s, a)] = Blank
      /\ \A i \in a + 1 .. Stop(s, a) - 1 : s[i] # Blank
  BY StopProperties
<1> DEFINE b == Stop(s, a)
<1> HIDE DEF b
<1>3. b \in Nat /\ ~(a + 2 \in a + 1 .. b - 1)
  BY <1>1, <1>2 DEF b
<1>4. b <= a + 2
  BY <1>3
<1>5. b > a /\ b # a + 1
  BY <1>1, <1>2, <1>4 DEF b
<1>6. b = a + 2
  BY <1>3, <1>4, <1>5
<1>7. SubSeq(s, a + 1, a + 1) = <<s[a + 1]>>
  <2> DEFINE i == a + 1
  <2>1. i \in 1 .. Len(s)
    BY <1>1
  <2> HIDE DEF i
  <2>2. SubSeq(s, i, i) = <<s[i]>>
    BY <2>1, OneWord
  <2> QED
    BY <2>2 DEF i
<1>8. Piece(s, a) = SubSeq(s, a + 1, b - 1) /\ b - 1 = a + 1
  BY <1>6 DEF Piece, b
<1> QED
  BY <1>6, <1>7, <1>8 DEF b

LEMMA UnderstoodReply ==
  ASSUME NEW s \in Text, Len(s) >= 6, NEW verb \in {"join", "list", "leave"}, NEW ok \in {"0", "1"},
         \A i \in 1 .. 6 : s[i] = Reply(verb, ok)[i]
  PROVE  Understood(s).verb = IF ok = "1" THEN verb ELSE "none"
<1>1. Len(s) \in Nat
  BY LenProperties DEF Text
<1>2. /\ s[1] = "command" /\ s[2] = Blank /\ s[3] = verb
      /\ s[4] = Blank /\ s[5] = ok /\ s[6] = Blank
  BY DEF Reply
<1>3. "command" # Blank /\ verb # Blank /\ ok # Blank
  BY DEF Blank
<1>4. Stop(s, 0) = 2
  <2>1. 0 \in Nat /\ 0 + 2 <= Len(s) /\ s[0 + 1] # Blank /\ s[0 + 2] = Blank /\ 0 + 2 = 2
    BY <1>1, <1>2, <1>3
  <2> QED
    BY <2>1, NextStop
<1>5. Stop(s, 2) = 4 /\ Piece(s, 2) = <<verb>>
  <2>1. 2 \in Nat /\ 2 + 2 <= Len(s) /\ s[2 + 1] # Blank /\ s[2 + 2] = Blank /\ 2 + 2 = 4 /\ 2 + 1 = 3
    BY <1>1, <1>2, <1>3
  <2>2. Stop(s, 2) = 2 + 2 /\ Piece(s, 2) = <<s[2 + 1]>>
    BY <2>1, NextStop
  <2> QED
    BY <1>2, <2>1, <2>2
<1>6. Piece(s, 4) = <<ok>>
  <2>1. 4 \in Nat /\ 4 + 2 <= Len(s) /\ s[4 + 1] # Blank /\ s[4 + 2] = Blank /\ 4 + 1 = 5
    BY <1>1, <1>2, <1>3
  <2>2. Piece(s, 4) = <<s[4 + 1]>>
    BY <2>1, NextStop
  <2> QED
    BY <1>2, <2>1, <2>2
<1>7. ~(2 > Len(s)) /\ ~(4 > Len(s))
  BY <1>1
<1>8. /\ <<verb>> = <<"join">> <=> verb = "join"
      /\ <<verb>> = <<"list">> <=> verb = "list"
      /\ <<verb>> = <<"leave">> <=> verb = "leave"
      /\ <<verb>> # <<"error">>
      /\ <<ok>> = <<"1">> <=> ok = "1"
  OBVIOUS
<1>9. Understood(s) = Response(s)
  BY <1>2 DEF Understood
<1>10. CASE ok = "1"
  BY <1>4, <1>5, <1>6, <1>7, <1>8, <1>9, <1>10 DEF Response, None
<1>11. CASE ok # "1"
  BY <1>4, <1>5, <1>6, <1>7, <1>8, <1>9, <1>11 DEF Response, None
<1> QED
  BY <1>10, <1>11

LEMMA UnderstoodError == Understood(ErrorReply).verb = "error"
<1> DEFINE s == ErrorReply
<1>1. s \in Text /\ Len(s) = 3 /\ s[1] = "command" /\ s[2] = Blank /\ s[3] = "error"
  BY ReplyType DEF ErrorReply
<1>2. "command" # Blank /\ "error" # Blank
  BY DEF Blank
<1> HIDE DEF s
<1>3. Stop(s, 0) = 2
  <2>1. 0 \in Nat /\ 0 + 2 <= Len(s) /\ s[0 + 1] # Blank /\ s[0 + 2] = Blank /\ 0 + 2 = 2
    BY <1>1, <1>2
  <2> QED
    BY <1>1, <2>1, NextStop
<1>4. Stop(s, 2) = 4
  <2>1. /\ Stop(s, 2) \in 1 .. 3 + 1
        /\ Stop(s, 2) <= 3 => Stop(s, 2) > 2 /\ s[Stop(s, 2)] = Blank
    <3>1. 2 \in Nat
      OBVIOUS
    <3> QED
      BY <1>1, <3>1, StopProperties
  <2> QED
    BY <1>1, <1>2, <2>1
<1>5. Piece(s, 2) = <<"error">>
  <2>1. 3 \in 1 .. Len(s) /\ 2 + 1 = 3 /\ 4 - 1 = 3
    BY <1>1
  <2>2. SubSeq(s, 3, 3) = <<s[3]>>
    BY <1>1, <2>1, OneWord
  <2> QED
    BY <1>1, <1>4, <2>1, <2>2 DEF Piece
<1>6. /\ ~(2 > Len(s))
      /\ <<"error">> \notin {<<"join">>, <<"list">>, <<"leave">>}
  BY <1>1
<1>7. Understood(s) = Response(s)
  BY <1>1 DEF Understood
<1>8. Response(s).verb = "error"
  BY <1>3, <1>4, <1>5, <1>6 DEF Response, None
<1> QED
  BY <1>7, <1>8 DEF s

LEMMA UnderstoodAnswers ==
  ASSUME NEW s \in Text, Possible(s)
  PROVE  /\ Understood(s).verb = "join" => s = JoinAnswer
         /\ s = LeaveAnswer => Understood(s).verb = "leave"
         /\ s = ErrorReply => Understood(s).verb = "error"
<1>1. ASSUME NEW verb \in {"join", "list", "leave"}, NEW ok \in {"0", "1"}, s = Reply(verb, ok)
      PROVE  Understood(s).verb = IF ok = "1" THEN verb ELSE "none"
  <2>1. Len(s) = 6
    BY <1>1 DEF Reply
  <2>2. Len(s) >= 6 /\ \A i \in 1 .. 6 : s[i] = Reply(verb, ok)[i]
    BY <1>1, <2>1
  <2> QED
    BY <2>2, UnderstoodReply
<1>2. Understood(s).verb = "join" => s = JoinAnswer
  <2>1. CASE \E verb \in {"join", "list", "leave"}, ok \in {"0", "1"} : s = Reply(verb, ok)
    <3>1. PICK verb \in {"join", "list", "leave"}, ok \in {"0", "1"} : s = Reply(verb, ok)
      BY <2>1
    <3>2. Understood(s).verb = IF ok = "1" THEN verb ELSE "none"
      BY <1>1, <3>1
    <3>3. Understood(s).verb = "join" => ok = "1" /\ verb = "join"
      BY <3>2
    <3> QED
      BY <3>1, <3>3 DEF JoinAnswer
  <2>2. CASE s = ErrorReply
    BY <2>2, UnderstoodError
  <2>3. CASE s = FrameWrite
    <3>1. s[1] = "frame"
      BY <2>3 DEF FrameWrite
    <3> QED
      BY <3>1 DEF Understood, None
  <2>4. CASE BeginsListing(s)
    <3>1. Understood(s).verb = IF "1" = "1" THEN "list" ELSE "none"
      BY <2>4, UnderstoodReply DEF BeginsListing
    <3> QED
      BY <3>1
  <2> QED
    BY <2>1, <2>2, <2>3, <2>4 DEF Possible, Answers
<1>3. s = LeaveAnswer => Understood(s).verb = "leave"
  BY <1>1 DEF LeaveAnswer
<1> QED
  BY <1>2, <1>3, UnderstoodError

-----------------------------------------------------------------------------
(* Answers that correct one another.                                       *)

\* Behind position i the answer that the client has left is still to be read.
Later(ws, i) == \E j \in 1 .. Len(ws) : j > i /\ ws[j] = LeaveAnswer

\* No answer "join 1" is the last word.
Pending(ws) == \A i \in 1 .. Len(ws) : ws[i] = JoinAnswer => Later(ws, i)

Corrects(ws) == \E i \in 1 .. Len(ws) : ws[i] \in {LeaveAnswer, ErrorReply}

AllPossible(ws) == \A i \in 1 .. Len(ws) : Possible(ws[i])

LEMMA JoinIsNotLeave == JoinAnswer # LeaveAnswer /\ JoinAnswer # ErrorReply /\ JoinAnswer # FrameWrite
<1>1. /\ JoinAnswer[3] = "join" /\ LeaveAnswer[3] = "leave" /\ ErrorReply[3] = "error"
      /\ JoinAnswer[1] = "command" /\ FrameWrite[1] = "frame"
  BY DEF JoinAnswer, LeaveAnswer, Reply, ErrorReply, FrameWrite
<1> QED
  BY <1>1

LEMMA AppendAnswer ==
  ASSUME NEW ws \in Seq(Text \ {<< >>}), NEW w \in Text \ {<< >>}, Possible(w), AllPossible(ws)
  PROVE  /\ AllPossible(Append(ws, w))
         /\ \A i : Later(ws, i) => Later(Append(ws, w), i)
         /\ Corrects(ws) => Corrects(Append(ws, w))
         /\ Pending(ws) /\ w # JoinAnswer => Pending(Append(ws, w))
         /\ w = LeaveAnswer => /\ \A i \in 0 .. Len(ws) : Later(Append(ws, w), i)
                               /\ Corrects(Append(ws, w)) /\ Pending(Append(ws, w))
<1> DEFINE l == Len(ws)
           v == Append(ws, w)
<1>1. /\ l \in Nat /\ Len(v) = l + 1 /\ v[l + 1] = w
      /\ \A i \in 1 .. l : v[i] = ws[i]
  BY AppendProperties, LenProperties
<1> HIDE DEF l, v
<1>2. /\ l + 1 \in 1 .. l + 1
      /\ \A i \in 1 .. l : i \in 1 .. l + 1 /\ i < l + 1
      /\ \A i \in 1 .. l + 1 : i = l + 1 \/ i \in 1 .. l
  BY <1>1
<1>3. AllPossible(v)
  BY <1>1, <1>2 DEF AllPossible, l
<1>4. ASSUME NEW i, Later(ws, i) PROVE Later(v, i)
  BY <1>1, <1>2, <1>4 DEF Later, l
<1>5. Corrects(ws) => Corrects(v)
  BY <1>1, <1>2 DEF Corrects, l
<1>6. ASSUME Pending(ws), w # JoinAnswer PROVE Pending(v)
  BY <1>1, <1>2, <1>4, <1>6 DEF Pending, l
<1>7. ASSUME w = LeaveAnswer
      PROVE  (\A i \in 0 .. l : Later(v, i)) /\ Corrects(v) /\ Pending(v)
  <2>1. \A i \in 0 .. l : Later(v, i)
    BY <1>1, <1>2, <1>7 DEF Later
  <2>2. Corrects(v)
    BY <1>1, <1>2, <1>7 DEF Corrects
  <2>3. Pending(v)
    <3> SUFFICES ASSUME NEW i \in 1 .. l + 1, v[i] = JoinAnswer PROVE Later(v, i)
      BY <1>1 DEF Pending
    <3>1. i \in 1 .. l
      BY <1>1, <1>2, <1>7, JoinIsNotLeave
    <3>2. i \in 0 .. l
      BY <1>1, <3>1
    <3> QED
      BY <2>1, <3>2
  <2> QED
    BY <2>1, <2>2, <2>3
<1> QED
  BY <1>3, <1>4, <1>5, <1>6, <1>7 DEF v, l

\* When the first answer is read, the others move up.
LEMMA TailAnswers ==
  ASSUME NEW ws \in Seq(Text \ {<< >>}), ws # << >>, AllPossible(ws)
  PROVE  /\ AllPossible(Tail(ws))
         /\ Pending(ws) => Pending(Tail(ws))
         /\ Pending(ws) /\ Head(ws) = JoinAnswer => Later(Tail(ws), 0)
         /\ Corrects(ws) => Corrects(Tail(ws)) \/ Head(ws) \in {LeaveAnswer, ErrorReply}
<1> DEFINE l == Len(ws)
           t == Tail(ws)
<1>1. /\ l \in Nat /\ l > 0 /\ Head(ws) = ws[1] /\ Len(t) = l - 1
      /\ \A i \in 1 .. l - 1 : t[i] = ws[i + 1]
  BY EmptySeq, LenProperties, HeadTailProperties
<1> HIDE DEF l, t
<1>2. ASSUME NEW j \in 1 .. l, j > 1 PROVE j - 1 \in 1 .. l - 1 /\ t[j - 1] = ws[j]
  <2>1. j - 1 \in 1 .. l - 1 /\ (j - 1) + 1 = j
    BY <1>1, <1>2
  <2> QED
    BY <1>1, <2>1
<1>3. ASSUME NEW i \in Nat, i > 0, Later(ws, i) PROVE Later(t, i - 1)
  <2>1. PICK j \in 1 .. l : j > i /\ ws[j] = LeaveAnswer
    BY <1>3 DEF Later, l
  <2>2. j > 1 /\ j - 1 > i - 1
    BY <1>3, <2>1
  <2>3. j - 1 \in 1 .. Len(t) /\ t[j - 1] = LeaveAnswer
    BY <1>1, <1>2, <2>1, <2>2
  <2> QED
    BY <2>2, <2>3 DEF Later
<1>4. AllPossible(t)
  <2> SUFFICES ASSUME NEW i \in 1 .. l - 1 PROVE Possible(t[i])
    BY <1>1 DEF AllPossible
  <2>1. i + 1 \in 1 .. l
    BY <1>1
  <2> QED
    BY <1>1, <2>1 DEF AllPossible, l
<1>5. ASSUME Pending(ws) PROVE Pending(t)
  <2> SUFFICES ASSUME NEW i \in 1 .. l - 1, t[i] = JoinAnswer PROVE Later(t, i)
    BY <1>1 DEF Pending
  <2>1. i + 1 \in 1 .. l /\ i + 1 \in Nat /\ i + 1 > 0 /\ (i + 1) - 1 = i
    BY <1>1
  <2>2. Later(ws, i + 1)
    BY <1>1, <1>5, <2>1 DEF Pending, l
  <2> QED
    BY <1>3, <2>1, <2>2
<1>6. ASSUME Pending(ws), Head(ws) = JoinAnswer PROVE Later(t, 0)
  <2>1. 1 \in 1 .. l /\ 1 \in Nat /\ 1 > 0 /\ 1 - 1 = 0
    BY <1>1
  <2>2. Later(ws, 1)
    BY <1>1, <1>6, <2>1 DEF Pending, l
  <2> QED
    BY <1>3, <2>1, <2>2
<1>7. ASSUME Corrects(ws), Head(ws) \notin {LeaveAnswer, ErrorReply} PROVE Corrects(t)
  <2>1. PICK i \in 1 .. l : ws[i] \in {LeaveAnswer, ErrorReply}
    BY <1>7 DEF Corrects, l
  <2>2. i > 1
    BY <1>1, <1>7, <2>1
  <2> QED
    BY <1>1, <1>2, <2>1, <2>2 DEF Corrects
<1> QED
  BY <1>4, <1>5, <1>6, <1>7 DEF t

-----------------------------------------------------------------------------
(* The threads of a client.                                                *)

\* Nothing runs before the first connection, the other threads start when main() has joined,
\* and the listener has a reply in hand only while it handles it.
Threads(c) ==
  /\ at[c].main = "off" => at[c].listener = "off"
  /\ at[c].listener = "off" => at[c].checker = "off" /\ at[c].main \in {"off", "join", "list"}
  /\ at[c].listener # "handle" => chunk[c] = None
  /\ conn[c] = 0 => at[c].main = "off" /\ ~join[c] /\ \A g \in Conns : handler[c][g] = "serve"

ThreadsOK == \A c \in Clients : Threads(c)

LEMMA GotoFields ==
  ASSUME Types, NEW c \in Clients, NEW thread \in {"main", "checker", "listener"}, NEW label,
         Goto(c, thread, label)
  PROVE  /\ \A d \in Clients \ {c} : at'[d] = at[d]
         /\ at'[c].main = IF thread = "main" THEN label ELSE at[c].main
         /\ at'[c].checker = IF thread = "checker" THEN label ELSE at[c].checker
         /\ at'[c].listener = IF thread = "listener" THEN label ELSE at[c].listener
<1>1. at \in [Clients -> [main : Labels, checker : Labels, listener : Labels]]
  BY DEF Types, ThreadTypes
<1>2. CASE thread = "main"
  BY <1>1, <1>2 DEF Goto
<1>3. CASE thread = "checker"
  BY <1>1, <1>3 DEF Goto
<1>4. CASE thread = "listener"
  BY <1>1, <1>4 DEF Goto
<1> QED
  BY <1>2, <1>3, <1>4

LEMMA ThreadsStep ==
  ASSUME LanInv, ThreadsOK, [Next]_vars
  PROVE  ThreadsOK'
<1> SUFFICES ASSUME NEW d \in Clients PROVE Threads(d)'
  BY DEF ThreadsOK
<1> USE DEF serverVars, boundVars, clientVars
<1>0. Types /\ Threads(d)
  BY DEF LanInv, ThreadsOK
<1>1. ASSUME UNCHANGED <<at[d], chunk[d], conn[d], join[d], handler[d]>> PROVE Threads(d)'
  BY <1>0, <1>1 DEF Threads
<1>3. ASSUME UNCHANGED <<at[d], chunk[d], conn[d], join[d]>>,
             \A g \in Conns : handler[d][g] = "serve" => handler'[d][g] = "serve"
      PROVE  Threads(d)'
  BY <1>0, <1>3 DEF Threads
<1>2. ASSUME NEW c \in Clients, End(c), UNCHANGED handler PROVE Threads(d)'
  <2>1. CASE c = d
    BY <1>0, <1>2, <2>1 DEF End, Threads, Types, ThreadTypes, WireTypes
  <2>2. CASE c # d
    BY <1>0, <1>1, <1>2, <2>2 DEF End, Types, ThreadTypes
  <2> QED
    BY <2>1, <2>2
<1>11. CASE UNCHANGED vars
  BY <1>1, <1>11 DEF vars
<1>12. ASSUME NEW c \in Clients, Start(c) PROVE Threads(d)'
  <2>1. at[c].main = "off" /\ Goto(c, "main", "join") /\ Open(c) /\ UNCHANGED <<join, chunk, handler>>
    BY <1>12 DEF Start
  <2>2. CASE c = d
    <3>1. at'[d].main = "join" /\ at'[d].checker = at[d].checker /\ at'[d].listener = at[d].listener
      BY <1>0, <2>1, <2>2, GotoFields
    <3>2. conn'[d] # 0
      BY <1>0, <2>1, <2>2, Numbers DEF Open, Types, WireTypes
    <3> QED
      BY <1>0, <2>1, <2>2, <3>1, <3>2 DEF Threads
  <2>3. CASE c # d
    BY <1>0, <1>1, <2>1, <2>3, GotoFields DEF Open, Types, WireTypes
  <2> QED
    BY <2>2, <2>3
<1>13. ASSUME NEW c \in Clients, NEW t \in {"main", "checker"}, JoinLobby(c, t) PROVE Threads(d)'
  <2>1. at[c][t] = "join" /\ Goto(c, t, "list") /\ UNCHANGED <<conn, join, chunk, handler>>
    BY <1>13 DEF JoinLobby
  <2>2. CASE c = d
    <3>1. CASE t = "main"
      <4>1. at'[d].main = "list" /\ at'[d].checker = at[d].checker /\ at'[d].listener = at[d].listener
            /\ at[d].main = "join"
        BY <1>0, <2>1, <2>2, <3>1, GotoFields
      <4> QED
        BY <1>0, <2>1, <4>1 DEF Threads
    <3>2. CASE t = "checker"
      <4>1. at'[d].main = at[d].main /\ at'[d].checker = "list" /\ at'[d].listener = at[d].listener
            /\ at[d].checker = "join"
        BY <1>0, <2>1, <2>2, <3>2, GotoFields
      <4> QED
        BY <1>0, <2>1, <4>1 DEF Threads
    <3> QED
      BY <3>1, <3>2
  <2>3. CASE c # d
    BY <1>0, <1>1, <2>1, <2>3, GotoFields
  <2> QED
    BY <2>2, <2>3
<1>14. ASSUME NEW c \in Clients, NEW t \in {"main", "checker"}, GetLobbyMembers(c, t)
       PROVE  Threads(d)'
  <2>1. at[c][t] = "list" /\ UNCHANGED <<conn, join, chunk, handler>>
    BY <1>14 DEF GetLobbyMembers
  <2>2. CASE at[c].listener = "off"
    <3>1. at' = [at EXCEPT ![c] = [main |-> "idle", checker |-> "idle", listener |-> "recv"]]
      BY <1>14, <2>2 DEF GetLobbyMembers
    <3>2. CASE c = d
      <4>1. at'[d].main = "idle" /\ at'[d].checker = "idle" /\ at'[d].listener = "recv"
        BY <1>0, <3>1, <3>2 DEF Types, ThreadTypes
      <4>2. at[d].main # "off"
        BY <1>0, <2>1, <2>2, <3>2 DEF Threads
      <4> QED
        BY <1>0, <2>1, <2>2, <3>2, <4>1, <4>2 DEF Threads
    <3>3. CASE c # d
      BY <1>0, <1>1, <2>1, <3>1, <3>3 DEF Types, ThreadTypes
    <3> QED
      BY <3>2, <3>3
  <2>3. CASE at[c].listener # "off"
    <3>1. Goto(c, t, "idle")
      BY <1>14, <2>3 DEF GetLobbyMembers
    <3>2. CASE c = d
      <4>1. /\ at'[d].listener = at[d].listener
            /\ at'[d].main \in {at[d].main, "idle"}
        BY <1>0, <3>1, <3>2, GotoFields
      <4>2. at[d].main # "off" /\ conn[d] # 0
        BY <1>0, <2>3, <3>2 DEF Threads
      <4> QED
        BY <1>0, <2>1, <2>3, <3>2, <4>1, <4>2 DEF Threads
    <3>3. CASE c # d
      BY <1>0, <1>1, <2>1, <3>1, <3>3, GotoFields
    <3> QED
      BY <3>2, <3>3
  <2> QED
    BY <2>2, <2>3
<1>15. ASSUME NEW c \in Clients, NEW t \in {"main", "checker"}, Reconnect(c, t) PROVE Threads(d)'
  <2>1. at[c][t] = "reconnect" /\ Goto(c, t, "idle") /\ Open(c) /\ UNCHANGED <<join, chunk, handler>>
    BY <1>15 DEF Reconnect
  <2>2. CASE c = d
    <3>1. /\ at'[d].listener = at[d].listener
          /\ at'[d].main \in {at[d].main, "idle"}
      BY <1>0, <2>1, <2>2, GotoFields
    <3>2. at[d].main = "reconnect" \/ at[d].checker = "reconnect"
      BY <2>1, <2>2
    <3>3. at[d].listener # "off" /\ at[d].main # "off"
      BY <1>0, <3>2 DEF Threads
    <3>4. conn'[d] # 0
      BY <1>0, <2>1, <2>2, Numbers DEF Open, Types, WireTypes
    <3> QED
      BY <1>0, <2>1, <3>1, <3>3, <3>4 DEF Threads
  <2>3. CASE c # d
    BY <1>0, <1>1, <2>1, <2>3, GotoFields DEF Open, Types, WireTypes
  <2> QED
    BY <2>2, <2>3
<1>16. ASSUME NEW c \in Clients, LeaveLobby(c) PROVE Threads(d)'
  <2>1. /\ at[c].main = "unjoin" /\ Goto(c, "main", "idle")
        /\ join' = [join EXCEPT ![c] = FALSE] /\ UNCHANGED <<conn, chunk, handler>>
    BY <1>16 DEF LeaveLobby
  <2>2. CASE c = d
    <3>1. /\ at'[d].main = "idle" /\ at'[d].checker = at[d].checker
          /\ at'[d].listener = at[d].listener /\ ~join'[d]
      BY <1>0, <2>1, <2>2, GotoFields DEF Types, ThreadTypes
    <3> QED
      BY <1>0, <2>1, <2>2, <3>1 DEF Threads
  <2>3. CASE c # d
    BY <1>0, <1>1, <2>1, <2>3, GotoFields DEF Types, ThreadTypes
  <2> QED
    BY <2>2, <2>3
<1>17. ASSUME NEW c \in Clients, CheckConnection(c) PROVE Threads(d)'
  <2>1. /\ at[c].checker = "idle" /\ UNCHANGED <<conn, chunk, handler>>
        /\ \E label : Goto(c, "checker", label)
        /\ join' = join \/ join' = [join EXCEPT ![c] = FALSE]
    BY <1>17 DEF CheckConnection
  <2>2. CASE c = d
    <3>1. at'[d].main = at[d].main /\ at'[d].listener = at[d].listener /\ (join'[d] => join[d])
      BY <1>0, <2>1, <2>2, GotoFields DEF Types, ThreadTypes
    <3>2. at[d].listener # "off"
      BY <1>0, <2>1, <2>2 DEF Threads
    <3> QED
      BY <1>0, <2>1, <3>1, <3>2 DEF Threads
  <2>3. CASE c # d
    BY <1>0, <1>1, <2>1, <2>3, GotoFields DEF Types, ThreadTypes
  <2> QED
    BY <2>2, <2>3
<1>18. ASSUME NEW c \in Clients, Menu(c) PROVE Threads(d)'
  <2>1. at[c].main = "idle" /\ UNCHANGED handler
    BY <1>18 DEF Menu
  <2>2. CASE End(c)
    BY <1>2, <2>1, <2>2
  <2>3. CASE /\ \E label \in {"join", "list", "reconnect", "unjoin", "idle"} : Goto(c, "main", label)
             /\ UNCHANGED <<conn, chunk, join>>
    <3>1. CASE c = d
      <4>1. at'[d].main # "off" /\ at'[d].checker = at[d].checker /\ at'[d].listener = at[d].listener
        BY <1>0, <2>3, <3>1, GotoFields
      <4> QED
        BY <1>0, <2>1, <2>3, <3>1, <4>1 DEF Threads
    <3>2. CASE c # d
      BY <1>0, <1>1, <2>1, <2>3, <3>2, GotoFields
    <3> QED
      BY <3>1, <3>2
  <2> QED
    BY <1>18, <2>2, <2>3 DEF Menu
<1>19. ASSUME NEW c \in Clients, Recv(c) PROVE Threads(d)'
  <2>1. at[c].listener = "recv" /\ Goto(c, "listener", "handle") /\ UNCHANGED <<conn, join, handler>>
        /\ \E r : chunk' = [chunk EXCEPT ![c] = r]
    BY <1>19 DEF Recv
  <2>2. CASE c = d
    <3>1. /\ at'[d].main = at[d].main /\ at'[d].checker = at[d].checker /\ at'[d].listener = "handle"
      BY <1>0, <2>1, <2>2, GotoFields
    <3> QED
      BY <1>0, <2>1, <2>2, <3>1 DEF Threads
  <2>3. CASE c # d
    BY <1>0, <1>1, <2>1, <2>3, GotoFields DEF Types, ThreadTypes
  <2> QED
    BY <2>2, <2>3
<1>20. ASSUME NEW c \in Clients, RecvEnds(c) PROVE Threads(d)'
  BY <1>1, <1>20 DEF RecvEnds
<1>21. ASSUME NEW c \in Clients, Callback(c) PROVE Threads(d)'
  <2>1. UNCHANGED handler /\ at[c].listener = "handle"
    BY <1>21 DEF Callback
  <2>2. CASE End(c)
    BY <1>2, <2>1, <2>2
  <2>3. CASE /\ HandleResponse(c, chunk[c])
             /\ Goto(c, "listener", "recv")
             /\ chunk' = [chunk EXCEPT ![c] = None]
             /\ UNCHANGED conn
    <3>1. CASE c = d
      <4>1. /\ at'[d].main = at[d].main /\ at'[d].checker = at[d].checker
            /\ at'[d].listener = "recv" /\ chunk'[d] = None
        BY <1>0, <2>3, <3>1, GotoFields DEF Types, ThreadTypes
      <4>2. conn[d] # 0 /\ at[d].main # "off"
        BY <1>0, <2>1, <3>1 DEF Threads
      <4> QED
        BY <1>0, <2>1, <2>3, <3>1, <4>1, <4>2 DEF Threads
    <3>2. CASE c # d
      <4>1. join'[d] = join[d]
        BY <1>0, <2>3, <3>2 DEF HandleResponse, Types, ThreadTypes
      <4> QED
        BY <1>0, <1>1, <2>1, <2>3, <3>2, <4>1, GotoFields DEF Types, ThreadTypes
    <3> QED
      BY <3>1, <3>2
  <2> QED
    BY <1>21, <2>2, <2>3 DEF Callback
<1>22. ASSUME NEW c \in Clients, NEW a, Scan(c, a) PROVE Threads(d)'
  BY <1>1, <1>22 DEF Scan
<1>23. ASSUME NEW c \in Clients, Transmit(c) PROVE Threads(d)'
  BY <1>1, <1>23 DEF Transmit
<1>24. ASSUME NEW c \in Clients, Discard(c) PROVE Threads(d)'
  BY <1>1, <1>2, <1>24 DEF Discard
<1>25. ASSUME NEW c \in Clients, NEW g \in Conns, Serve(c, g) \/ LoopRaises(c, g)
       PROVE  Threads(d)'
  <2>1. Acts(c, g)
    BY <1>25, ServeActs, LoopRaisesActs
  <2>2. UNCHANGED <<at, chunk, conn, join>> /\ requests[c][g] # << >>
    BY <2>1 DEF Acts
  <2>3. CASE c # d
    <3>1. CASE handler' = handler
      BY <1>1, <2>2, <3>1
    <3>2. CASE \E label \in {"tell", "left", "finally"} :
                 Becomes(c, g, label) \/ Resizes(c, g, label)
      <4>1. {"tell", "left", "finally"} \subseteq Handlers
        BY DEF Handlers
      <4>2. \A h \in Conns : handler[d][h] = "serve" => handler'[d][h] = "serve"
        BY <1>0, <2>3, <3>2, <4>1, OnwardMoves
      <4> QED
        BY <1>3, <2>2, <4>2
    <3> QED
      BY <2>1, <3>1, <3>2 DEF Acts, Enters, Lists, Leaves, Reaction, ToFinally
  <2>4. CASE c = d
    <3>1. ~(g > conn[c])
      <4>1. Sound(requests[c][g], g > conn[c], Current(c, g))
        BY DEF LanInv, ConnectionsOK, Connection
      <4> QED
        BY <2>2, <4>1 DEF Sound
    <3>2. g \in Nat /\ g > 0 /\ conn[c] \in Nat
      BY <1>0, Numbers, LanAssumption DEF Conns, Scenario
    <3>3. conn[d] # 0
      BY <2>4, <3>1, <3>2
    <3> QED
      BY <1>0, <2>2, <3>3 DEF Threads
  <2> QED
    BY <2>3, <2>4
<1>26. ASSUME NEW c \in Clients, NEW g \in Conns, Tell(c, g) PROVE Threads(d)'
  <2>1. UNCHANGED <<at, chunk, conn, join>> /\ Becomes(c, g, "serve") /\ "serve" \in Handlers
    BY <1>26 DEF Tell, Handlers
  <2>2. \A h \in Conns : handler[d][h] = "serve" => handler'[d][h] = "serve"
    BY <1>0, <2>1, OnwardMoves
  <2> QED
    BY <1>3, <2>1, <2>2
<1>27. ASSUME NEW c \in Clients, Drop(c) PROVE Threads(d)'
  BY <1>1, <1>27 DEF Drop
<1>28. ASSUME NEW p \in Peers, PeerMoves(p) PROVE Threads(d)'
  <2>1. \A g \in Conns : handler[d][g] = "serve" => handler'[d][g] = "serve"
    BY <1>0, <1>28 DEF PeerMoves, Resized, Types, ServerTypes
  <2> QED
    BY <1>3, <1>28, <2>1 DEF PeerMoves
<1>29. ASSUME NEW p \in Peers, NEW c \in Clients, PeerSends(p, c) PROVE Threads(d)'
  BY <1>1, <1>29 DEF PeerSends
<1>30. ASSUME NEW c \in Clients, NEW g \in Conns, ThreadEnds(c, g) PROVE Threads(d)'
  <2>1. UNCHANGED <<at, chunk, conn, join>> /\ handler[c][g] # "serve"
    BY <1>30 DEF ThreadEnds
  <2>2. CASE c = d
    BY <1>0, <2>1, <2>2 DEF Threads
  <2>3. CASE c # d
    <3>1. Becomes(c, g, "raised") \/ Resizes(c, g, "ended")
      BY <1>30 DEF ThreadEnds
    <3>2. {"raised", "ended"} \subseteq Handlers
      BY DEF Handlers
    <3>3. \A h \in Conns : handler[d][h] = "serve" => handler'[d][h] = "serve"
      BY <1>0, <2>3, <3>1, <3>2, OnwardMoves
    <3> QED
      BY <1>3, <2>1, <3>3
  <2> QED
    BY <2>2, <2>3
<1> QED
  BY <1>11, <1>12, <1>13, <1>14, <1>15, <1>16, <1>17, <1>18, <1>19, <1>20, <1>21, <1>22, <1>23,
     <1>24, <1>25, <1>26, <1>27, <1>28, <1>29, <1>30 DEF Next, Caller, Listener, Handler

-----------------------------------------------------------------------------
(* On its first connection a client that is outside is about to learn it.  *)

\* The client's current connection is its first, and recv() returns one write.
First(c) == alive[c] /\ conn[c] = 1 /\ ~scenario.cuts

\* Its thread of the server is about to tell it that it has left.
Left(c) == handler[c][1] = "left"

Awaits(c) ==
  /\ handler[c][1] # "tell"
  /\ join[c] => Unjoining(c)
  /\ chunk[c].verb = "join" => Later(replies[c], 0) \/ Left(c)
  /\ Pending(replies[c]) \/ Left(c)

Told(c) == First(c) => AllPossible(replies[c]) /\ (lobby[c] = 1 \/ Awaits(c))

ToldOK == \A c \in Clients : Told(c)

LEMMA CorrectsDomain ==
  ASSUME NEW ws \in Seq(Text \ {<< >>})
  PROVE  (\E i \in DOMAIN ws : ws[i] \in {Reply("leave", "1"), ErrorReply}) <=> Corrects(ws)
BY LenProperties DEF Corrects, LeaveAnswer

LEMMA OneIsConn ==
  ASSUME Types, NEW c \in Clients, conn[c] = 1
  PROVE  1 \in Conns
<1>1. conn[c] \in {0} \cup Conns
  BY DEF Types, WireTypes
<1> QED
  BY <1>1

LEMMA FirstBefore ==
  ASSUME NEW c \in Clients, First(c)', conn'[c] = conn[c], alive'[c] => alive[c],
         scenario' = scenario
  PROVE  First(c)
BY DEF First

\* Answers that the client may get without being entered.
Harmless(w) == w \in Text \ {<< >>} /\ Possible(w) /\ w # JoinAnswer

LEMMA HarmlessAnswers ==
  /\ Harmless(FrameWrite) /\ Harmless(ErrorReply)
  /\ \A verb \in {"join", "list", "leave"}, ok \in {"0", "1"} :
        <<verb, ok>> # <<"join", "1">> => Harmless(Reply(verb, ok))
  /\ Harmless(ListReply(SetToSeq(Members)))
<1>1. FrameWrite \in Answers /\ ErrorReply \in Answers
  BY DEF Answers
<1>2. ASSUME NEW verb \in {"join", "list", "leave"}, NEW ok \in {"0", "1"},
             <<verb, ok>> # <<"join", "1">>
      PROVE  Harmless(Reply(verb, ok))
  <2>1. Reply(verb, ok) \in Answers
    BY DEF Answers
  <2>2. Reply(verb, ok) # JoinAnswer
    <3>1. /\ Reply(verb, ok)[3] = verb /\ Reply(verb, ok)[5] = ok
          /\ JoinAnswer[3] = "join" /\ JoinAnswer[5] = "1"
      BY DEF Reply, JoinAnswer
    <3>2. verb # "join" \/ ok # "1"
      BY <1>2
    <3> QED
      BY <3>1, <3>2
  <2> QED
    BY <2>1, <2>2, WrittenType DEF Harmless, Possible
<1>3. Harmless(ListReply(SetToSeq(Members)))
  <2> DEFINE w == ListReply(SetToSeq(Members))
  <2>1. Listing(w, Members) /\ w \in Text \ {<< >>}
    BY ListReplyMembers
  <2> HIDE DEF w
  <2>2. BeginsListing(w)
    BY <2>1 DEF Listing, BeginsListing
  <2>3. w # JoinAnswer
    <3>1. 3 \in 1 .. 6 /\ Reply("list", "1")[3] = "list" /\ JoinAnswer[3] = "join"
      BY DEF Reply, JoinAnswer
    <3>2. w[3] = "list"
      BY <2>1, <3>1 DEF Listing
    <3> QED
      BY <3>1, <3>2
  <2> QED
    BY <2>1, <2>2, <2>3 DEF Harmless, Possible, w
<1> QED
  BY <1>1, <1>2, <1>3, JoinIsNotLeave, WrittenType DEF Harmless, Possible

\* Its thread of the server does not turn to telling it, nor from it.
Steady(c) ==
  /\ handler'[c][1] = "tell" => handler[c][1] = "tell"
  /\ Left(c) => Left(c)'

\* The step is none of those that bring the client in, out, or tell it so.
Quiet(c) ==
  /\ lobby'[c] = lobby[c] /\ Steady(c) /\ chunk'[c] = chunk[c] /\ conn'[c] = conn[c]
  /\ join'[c] => join[c] /\ (at[c].main = "unjoin" => at'[c].main = "unjoin")
  /\ \/ replies'[c] = replies[c]
     \/ \E w : Harmless(w) /\ replies'[c] = Glued(replies[c], w)

LEMMA QuietKeeps ==
  ASSUME Types, Types', NEW c \in Clients, Told(c), First(c), ~scenario.cuts, Quiet(c)
  PROVE  AllPossible(replies'[c]) /\ (lobby'[c] = 1 \/ Awaits(c)')
<1> DEFINE ws == replies[c]
           ws2 == replies'[c]
<1>1. ws \in Seq(Text \ {<< >>}) /\ ws2 \in Seq(Text \ {<< >>})
  BY DEF Types, WireTypes
<1>2. AllPossible(ws) /\ (lobby[c] = 1 \/ Awaits(c))
  BY DEF Told
<1>3. /\ AllPossible(ws2)
      /\ Later(ws, 0) => Later(ws2, 0)
      /\ Corrects(ws) => Corrects(ws2)
      /\ Pending(ws) => Pending(ws2)
  <2>1. CASE ws2 = ws
    BY <1>2, <2>1
  <2>2. CASE \E w : Harmless(w) /\ ws2 = Glued(ws, w)
    <3>1. PICK w : Harmless(w) /\ ws2 = Append(ws, w)
      BY <2>2 DEF Glued
    <3> HIDE DEF ws, ws2
    <3> QED
      BY <1>1, <1>2, <3>1, AppendAnswer DEF Harmless
  <2> QED
    BY <2>1, <2>2 DEF Quiet
<1>4. ASSUME Awaits(c) PROVE Awaits(c)'
  <2>1. handler'[c][1] # "tell" /\ (Left(c) => Left(c)')
    BY <1>4 DEF Awaits, Quiet, Steady
  <2>2. chunk'[c].verb = "join" => Later(ws2, 0) \/ Left(c)'
    BY <1>3, <1>4, <2>1 DEF Awaits, Quiet
  <2>3. Pending(ws2) \/ Left(c)'
    BY <1>3, <1>4, <2>1 DEF Awaits
  <2>4. ASSUME join'[c] PROVE Unjoining(c)'
    <3>1. join[c] /\ (at[c].main = "unjoin" => at'[c].main = "unjoin") /\ chunk'[c] = chunk[c]
      BY <2>4 DEF Quiet
    <3>2. \/ at[c].main = "unjoin"
          \/ Left(c)
          \/ chunk[c].verb \in {"leave", "error"}
          \/ Corrects(ws)
      BY <1>1, <1>4, <3>1, CorrectsDomain DEF Awaits, Unjoining, First, Left
    <3>3. \/ at'[c].main = "unjoin"
          \/ Left(c)'
          \/ chunk'[c].verb \in {"leave", "error"}
          \/ Corrects(ws2)
      BY <1>3, <2>1, <3>1, <3>2
    <3>4. conn'[c] = 1
      BY DEF First, Quiet
    <3> QED
      BY <1>1, <3>3, <3>4, CorrectsDomain DEF Unjoining, Left
  <2> QED
    BY <2>1, <2>2, <2>3, <2>4 DEF Awaits
<1> QED
  BY <1>2, <1>3, <1>4 DEF Quiet

\* recv() returns the first of the answers, and the others move up.
LEMMA RecvKeepsTold ==
  ASSUME Types, Types', NEW c \in Clients, Told(c), Threads(c), First(c), ~scenario.cuts, Recv(c)
  PROVE  AllPossible(replies'[c]) /\ (lobby'[c] = 1 \/ Awaits(c)')
<1> DEFINE ws == replies[c]
           s == Head(ws)
<1>1. PICK n \in DOMAIN s :
        LET rest == IF n = Len(s) THEN Tail(ws) ELSE <<SubSeq(s, n + 1, Len(s))>> \o Tail(ws)
        IN  /\ n = Len(s)
            /\ s \in Text /\ ws # << >> /\ ws \in Seq(Text \ {<< >>})
            /\ chunk' = [chunk EXCEPT ![c] = Understood(SubSeq(s, 1, n))]
            /\ replies' = [replies EXCEPT ![c] = rest]
  BY RecvParts
<1>2. SubSeq(s, 1, n) = s
  <2>1. n = Len(s) /\ s \in Text
    BY <1>1
  <2> HIDE DEF s
  <2> QED
    BY <2>1, SubSeqFull DEF Text
<1>3. chunk'[c] = Understood(s) /\ replies'[c] = Tail(ws)
  BY <1>1, <1>2 DEF Types, ThreadTypes, WireTypes
<1>4. /\ UNCHANGED <<lobby, handler, join>> /\ at'[c].main = at[c].main
      /\ chunk[c] = None /\ conn[c] = 1 /\ conn'[c] = 1
  <2>1. /\ at[c].listener = "recv" /\ Goto(c, "listener", "handle")
        /\ UNCHANGED <<conn, lobby, handler, join>>
    BY DEF Recv, serverVars
  <2> QED
    BY <2>1, GotoFields DEF Threads, First
<1>5. AllPossible(ws) /\ (lobby[c] = 1 \/ Awaits(c))
  BY DEF Told
<1>6. ws \in Seq(Text \ {<< >>}) /\ ws # << >> /\ s \in Text /\ Possible(s)
  <2>1. ws \in Seq(Text \ {<< >>}) /\ ws # << >> /\ s \in Text
    BY <1>1
  <2>2. s = ws[1] /\ 1 \in 1 .. Len(ws)
    BY <2>1, EmptySeq, LenProperties, HeadTailProperties
  <2> QED
    BY <1>5, <2>1, <2>2 DEF AllPossible
<1>7. /\ Understood(s).verb = "join" => s = JoinAnswer
      /\ s = LeaveAnswer => Understood(s).verb = "leave"
      /\ s = ErrorReply => Understood(s).verb = "error"
  <2> HIDE DEF s
  <2> QED
    BY <1>6, UnderstoodAnswers
<1>8. /\ AllPossible(Tail(ws))
      /\ Pending(ws) => Pending(Tail(ws))
      /\ Pending(ws) /\ s = JoinAnswer => Later(Tail(ws), 0)
      /\ Corrects(ws) => Corrects(Tail(ws)) \/ s \in {LeaveAnswer, ErrorReply}
      /\ Tail(ws) \in Seq(Text \ {<< >>})
  BY <1>5, <1>6, TailAnswers, HeadTailProperties
<1> HIDE DEF s
<1>9. ASSUME Awaits(c) PROVE Awaits(c)'
  <2>1. handler'[c][1] # "tell" /\ (Pending(Tail(ws)) \/ Left(c)') /\ (Left(c) => Left(c)')
    BY <1>4, <1>8, <1>9 DEF Awaits, Left
  <2>2. chunk'[c].verb = "join" => Later(Tail(ws), 0) \/ Left(c)'
    BY <1>3, <1>7, <1>8, <1>9, <2>1 DEF Awaits
  <2>3. ASSUME join'[c] PROVE Unjoining(c)'
    <3>1. at[c].main = "unjoin" \/ Left(c) \/ Corrects(ws)
      BY <1>4, <1>6, <1>9, <2>3, CorrectsDomain DEF Awaits, Unjoining, None, Left
    <3>2. \/ at'[c].main = "unjoin"
          \/ Left(c)'
          \/ chunk'[c].verb \in {"leave", "error"}
          \/ Corrects(Tail(ws))
      BY <1>3, <1>4, <1>7, <1>8, <2>1, <3>1
    <3> QED
      BY <1>3, <1>4, <1>8, <3>2, CorrectsDomain DEF Unjoining, Left
  <2> QED
    BY <1>3, <2>1, <2>2, <2>3 DEF Awaits
<1> QED
  BY <1>3, <1>4, <1>5, <1>8, <1>9

\* What it has received changes join as the answers behind it will.
LEMMA CallbackKeepsTold ==
  ASSUME Types, Types', NEW c \in Clients, Told(c), First(c),
         HandleResponse(c, chunk[c]), Goto(c, "listener", "recv"),
         chunk' = [chunk EXCEPT ![c] = None], UNCHANGED <<conn, replies, lobby, handler>>
  PROVE  AllPossible(replies'[c]) /\ (lobby'[c] = 1 \/ Awaits(c)')
<1>1. AllPossible(replies[c]) /\ (lobby[c] = 1 \/ Awaits(c))
  BY DEF Told
<1>2. chunk'[c] = None /\ at'[c].main = at[c].main /\ replies[c] \in Seq(Text \ {<< >>})
  BY GotoFields DEF Types, ThreadTypes, WireTypes
<1>3. ASSUME Awaits(c), join'[c] PROVE Unjoining(c)'
  <2>1. CASE chunk[c].verb = "join"
    <3>1. Later(replies[c], 0) \/ Left(c)
      BY <1>3, <2>1 DEF Awaits
    <3>2. Corrects(replies[c]) \/ Left(c)
      BY <3>1 DEF Later, Corrects
    <3> QED
      BY <1>2, <3>2, CorrectsDomain DEF Unjoining, Left, First
  <2>2. CASE chunk[c].verb \in {"leave", "error"}
    <3>1. join' = [join EXCEPT ![c] = FALSE]
      BY <2>2 DEF HandleResponse
    <3> QED
      BY <1>3, <3>1 DEF Types, ThreadTypes
  <2>3. CASE chunk[c].verb \notin {"join", "leave", "error"}
    <3>1. join' = join
      BY <2>3 DEF HandleResponse
    <3> QED
      BY <1>2, <1>3, <2>3, <3>1 DEF Awaits, Unjoining
  <2> QED
    BY <2>1, <2>2, <2>3
<1>4. ASSUME Awaits(c) PROVE Awaits(c)'
  BY <1>2, <1>3, <1>4 DEF Awaits, None, Left
<1> QED
  BY <1>1, <1>4

LEMMA ActsKeepsTold ==
  ASSUME LanInv, Types', NEW d \in Clients, Told(d), NEW c \in Clients, NEW g \in Conns,
         Acts(c, g), First(d)'
  PROVE  AllPossible(replies'[d]) /\ (lobby'[d] = 1 \/ Awaits(d)')
<1> DEFINE Goal == AllPossible(replies'[d]) /\ (lobby'[d] = 1 \/ Awaits(d)')
<1> SUFFICES Goal
  OBVIOUS
<1>1. /\ UNCHANGED <<at, conn, connected, join, memberList, chunk, scan, scenario>>
      /\ requests[c][g] # << >> /\ handler[c][g] = "serve"
  BY DEF Acts
<1>2. Types /\ conn[d] = 1 /\ alive'[d] /\ ~scenario.cuts /\ 1 \in Conns
  BY <1>1, OneIsConn DEF LanInv, First
<1>3. alive' = alive
  BY DEF Acts, Enters, Lists, Leaves, Reaction, ToFinally
<1>4. First(d)
  BY <1>1, <1>2, <1>3 DEF First
<1>5. ASSUME lobby'[d] = lobby[d], Steady(d),
             \/ replies'[d] = replies[d]
             \/ \E w : Harmless(w) /\ replies'[d] = Glued(replies[d], w)
      PROVE  Goal
  <2>1. Quiet(d)
    BY <1>1, <1>5 DEF Quiet
  <2> QED
    BY <1>2, <1>4, <2>1, QuietKeeps
<1>6. ASSUME NEW b \in Clients, NEW h, NEW w, Write(b, h, w), Harmless(w)
      PROVE  \/ replies'[d] = replies[d]
             \/ \E v : Harmless(v) /\ replies'[d] = Glued(replies[d], v)
  BY <1>2, <1>6, WriteEffect
<1>7. ASSUME NEW label \in {"tell", "left", "finally"}, Becomes(c, g, label) \/ Resizes(c, g, label),
             c # d \/ label = "finally"
      PROVE  Steady(d)
  <2>1. label \in Handlers
    BY DEF Handlers
  <2>2. CASE c # d
    BY <1>2, <1>7, <2>1, <2>2, OnwardMoves DEF Steady, Left
  <2>3. CASE c = d /\ label = "finally"
    BY <1>1, <1>2, <1>7, <2>1, <2>3, OnwardMoves DEF Steady, Left
  <2> QED
    BY <1>7, <2>2, <2>3
<1>8. handler' = handler => Steady(d)
  BY DEF Steady, Left
<1> HIDE DEF Goal
<1>9. CASE Reaction(c, g)
  <2>1. lobby' = lobby
    BY <1>9 DEF Reaction, ToFinally
  <2>2. Steady(d)
    BY <1>7, <1>8, <1>9 DEF Reaction, ToFinally
  <2>3. \A w \in Refusals : Harmless(w)
    <3>1. /\ <<"join", "0">> # <<"join", "1">> /\ <<"list", "0">> # <<"join", "1">>
          /\ <<"leave", "0">> # <<"join", "1">>
      OBVIOUS
    <3> QED
      BY <3>1, HarmlessAnswers DEF Refusals
  <2>4. \/ replies'[d] = replies[d]
        \/ \E v : Harmless(v) /\ replies'[d] = Glued(replies[d], v)
    BY <1>6, <1>9, <2>3, HarmlessAnswers DEF Reaction, ToFinally
  <2> QED
    BY <1>5, <2>1, <2>2, <2>4
<1>10. CASE Head(requests[c][g]) = Eof /\ Read(c, g) /\ ToFinally(c, g)
  BY <1>9, <1>10 DEF Reaction
<1>11. CASE Lists(c, g)
  <2>1. Write(c, g, ListReply(SetToSeq(Members))) /\ UNCHANGED <<lobby, handler>>
    BY <1>11 DEF Lists
  <2> QED
    BY <1>5, <1>6, <1>8, <2>1, HarmlessAnswers
<1>12. CASE c # d /\ (Enters(c, g) \/ Leaves(c, g))
  <2>1. lobby'[d] = lobby[d] /\ replies'[d] = replies[d]
    BY <1>2, <1>12, ClientsAreHosts DEF Enters, Leaves, Types, ServerTypes
  <2>2. Steady(d)
    BY <1>7, <1>12 DEF Enters, Leaves
  <2> QED
    BY <1>5, <2>1, <2>2
<1>13. CASE c = d /\ (Enters(c, g) \/ Leaves(c, g))
  <2>1. g = 1
    <3>1. ~(g > 1)
      <4>1. Sound(requests[c][g], g > conn[c], Current(c, g))
        BY DEF LanInv, ConnectionsOK, Connection
      <4> QED
        BY <1>1, <1>2, <1>13, <4>1 DEF Sound
    <3>2. g \in Nat /\ g > 0
      BY LanAssumption DEF Conns, Scenario
    <3> QED
      BY <3>1, <3>2
  <2>2. AllPossible(replies'[d])
    BY <1>4, <1>13 DEF Told, Enters, Leaves
  <2>3. CASE Enters(c, g)
    <3>1. lobby'[d] = 1
      BY <1>2, <1>13, <2>1, <2>3, ClientsAreHosts DEF Enters, Types, ServerTypes
    <3> QED
      BY <2>2, <3>1 DEF Goal
  <2>4. CASE Leaves(c, g)
    <3>1. "left" \in Handlers
      BY DEF Handlers
    <3>2. handler'[d][1] = "left"
      BY <1>2, <1>13, <2>1, <2>4, <3>1, OnwardMoves DEF Leaves
    <3>3. Awaits(d)'
      BY <1>1, <1>2, <3>2 DEF Awaits, Unjoining, Left
    <3> QED
      BY <2>2, <3>3 DEF Goal
  <2> QED
    BY <1>13, <2>3, <2>4
<1> QED
  BY <1>9, <1>10, <1>11, <1>12, <1>13 DEF Acts

LEMMA ToldStep ==
  ASSUME LanInv, ThreadsOK, ToldOK, [Next]_vars
  PROVE  ToldOK'
<1> SUFFICES ASSUME NEW d \in Clients, First(d)'
             PROVE  AllPossible(replies'[d]) /\ (lobby'[d] = 1 \/ Awaits(d)')
  BY DEF ToldOK, Told
<1> DEFINE Goal == AllPossible(replies'[d]) /\ (lobby'[d] = 1 \/ Awaits(d)')
<1> SUFFICES Goal
  OBVIOUS
<1> USE DEF serverVars, boundVars, clientVars
<1>0. Types /\ Types' /\ Told(d) /\ Threads(d) /\ lobby[d] <= conn[d] /\ lobby[d] \in Nat
  BY LanStep, EntryIsConn DEF LanInv, ToldOK, ThreadsOK, ConnectionsOK, Connection
<1>1. conn'[d] = 1 /\ alive'[d] /\ ~scenario'.cuts
  BY DEF First
<1>2. scenario' = scenario
  BY DEF Next, vars, Start, Caller, JoinLobby, GetLobbyMembers, Reconnect, LeaveLobby,
         CheckConnection, Menu, Listener, Recv, RecvEnds, Callback, Scan, Transmit, Discard,
         Handler, Serve, Tell, ThreadEnds, LoopRaises, Drop, PeerMoves, PeerSends
<1>3. ASSUME UNCHANGED <<conn[d], alive[d]>> PROVE First(d) /\ ~scenario.cuts
  BY <1>1, <1>2, <1>3 DEF First
<1>7. ASSUME UNCHANGED <<conn[d], alive[d], lobby[d], chunk[d], replies[d]>>, Steady(d),
             join'[d] => join[d], at[d].main = "unjoin" => at'[d].main = "unjoin" \/ ~join'[d]
      PROVE  Goal
  <2>1. Quiet(d)
    BY <1>7 DEF Quiet
  <2> QED
    BY <1>0, <1>3, <1>7, <2>1, QuietKeeps
<1>4. ASSUME UNCHANGED <<conn[d], alive[d], lobby[d], handler[d][1], chunk[d], replies[d]>>,
             join'[d] => join[d], at[d].main = "unjoin" => at'[d].main = "unjoin" \/ ~join'[d]
      PROVE  Goal
  BY <1>4, <1>7 DEF Steady, Left
<1>5. ASSUME NEW c \in Clients, End(c), UNCHANGED <<lobby, handler>> PROVE Goal
  <2>1. c # d
    BY <1>0, <1>1, <1>5 DEF End, Types, WireTypes
  <2>2. UNCHANGED <<conn[d], alive[d], lobby[d], handler[d], chunk[d], replies[d], join[d], at[d]>>
    BY <1>0, <1>5, <2>1 DEF End, Types, ThreadTypes, WireTypes
  <2> QED
    BY <1>4, <2>2
<1>6. ASSUME NEW c \in Clients, c # d, Open(c), \E t \in {"main", "checker"} : \E label : Goto(c, t, label),
             UNCHANGED <<lobby, handler, chunk, join>>
      PROVE  Goal
  <2>1. UNCHANGED <<conn[d], alive[d], replies[d]>>
    BY <1>0, <1>6 DEF Open, Types, WireTypes
  <2>2. at'[d] = at[d]
    <3>1. PICK t \in {"main", "checker"} : \E label : Goto(c, t, label)
      BY <1>6
    <3> QED
      BY <1>0, <1>6, <3>1, GotoFields
  <2> QED
    BY <1>4, <1>6, <2>1, <2>2
<1> HIDE DEF Goal
<1>11. CASE UNCHANGED vars
  BY <1>4, <1>11 DEF vars
<1>12. ASSUME NEW c \in Clients, Start(c) PROVE Goal
  <2>1. Goto(c, "main", "join") /\ Open(c) /\ UNCHANGED <<join, chunk, handler, lobby>>
        /\ at[c].main = "off"
    BY <1>12 DEF Start
  <2>2. CASE c = d
    <3>1. conn[d] = 0 /\ conn'[d] = 1 /\ replies'[d] = << >>
      BY <1>0, <1>1, <2>1, <2>2, Numbers DEF Open, Types, WireTypes
    <3>2. 1 \in Conns
      <4>1. conn'[d] \in {0} \cup Conns
        BY <1>0 DEF Types, WireTypes
      <4> QED
        BY <3>1, <4>1
    <3>3. ~join'[d] /\ handler'[d][1] = "serve" /\ chunk'[d] = None
      BY <1>0, <2>1, <2>2, <3>1, <3>2 DEF Threads
    <3>4. AllPossible(replies'[d]) /\ Pending(replies'[d])
      BY <3>1, EmptySeq DEF AllPossible, Pending
    <3> QED
      BY <3>3, <3>4 DEF Goal, Awaits, None
  <2>3. CASE c # d
    BY <1>6, <2>1, <2>3
  <2> QED
    BY <2>2, <2>3
<1>13. ASSUME NEW c \in Clients, NEW t \in {"main", "checker"}, JoinLobby(c, t) PROVE Goal
  <2>1. at[c][t] = "join" /\ Goto(c, t, "list")
        /\ UNCHANGED <<conn, alive, join, chunk, replies, handler, lobby>>
    BY <1>13 DEF JoinLobby
  <2>2. at[d].main = "unjoin" => at'[d].main = "unjoin"
    <3>1. CASE c = d /\ t = "main"
      BY <2>1, <3>1
    <3>2. CASE c # d \/ t # "main"
      BY <1>0, <2>1, <3>2, GotoFields
    <3> QED
      BY <3>1, <3>2
  <2> QED
    BY <1>4, <2>1, <2>2
<1>14. ASSUME NEW c \in Clients, NEW t \in {"main", "checker"}, GetLobbyMembers(c, t) PROVE Goal
  <2>1. at[c][t] = "list" /\ UNCHANGED <<conn, alive, join, chunk, replies, handler, lobby>>
    BY <1>14 DEF GetLobbyMembers
  <2>2. at[d].main = "unjoin" => at'[d].main = "unjoin"
    <3>1. CASE c # d
      <4>1. at'[d] = at[d]
        <5>1. CASE Goto(c, t, "idle")
          BY <1>0, <3>1, <5>1, GotoFields
        <5>2. CASE at' = [at EXCEPT ![c] = [main |-> "idle", checker |-> "idle", listener |-> "recv"]]
          BY <1>0, <3>1, <5>2 DEF Types, ThreadTypes
        <5> QED
          BY <1>14, <5>1, <5>2 DEF GetLobbyMembers
      <4> QED
        BY <4>1
    <3>2. CASE c = d /\ at[d].listener = "off"
      BY <1>0, <3>2 DEF Threads
    <3>3. CASE c = d /\ at[d].listener # "off"
      <4>1. Goto(c, t, "idle")
        BY <1>14, <3>3 DEF GetLobbyMembers
      <4>2. CASE t = "main"
        BY <2>1, <3>3, <4>2
      <4>3. CASE t = "checker"
        BY <1>0, <3>3, <4>1, <4>3, GotoFields
      <4> QED
        BY <4>2, <4>3
    <3> QED
      BY <3>1, <3>2, <3>3
  <2> QED
    BY <1>4, <2>1, <2>2
<1>15. ASSUME NEW c \in Clients, NEW t \in {"main", "checker"}, Reconnect(c, t) PROVE Goal
  <2>1. at[c][t] = "reconnect" /\ Goto(c, t, "idle") /\ Open(c)
        /\ UNCHANGED <<join, chunk, handler, lobby>>
    BY <1>15 DEF Reconnect
  <2>2. CASE c = d
    <3>1. conn[d] # 0
      BY <1>0, <2>1, <2>2 DEF Threads
    <3>2. conn'[d] = conn[d] + 1 /\ conn[d] \in Nat
      BY <1>0, <2>1, <2>2, Numbers DEF Open, Types, WireTypes
    <3> QED
      BY <1>1, <3>1, <3>2
  <2>3. CASE c # d
    BY <1>6, <2>1, <2>3
  <2> QED
    BY <2>2, <2>3
<1>16. ASSUME NEW c \in Clients, LeaveLobby(c) PROVE Goal
  <2>1. /\ Goto(c, "main", "idle") /\ join' = [join EXCEPT ![c] = FALSE]
        /\ UNCHANGED <<conn, alive, chunk, replies, handler, lobby>>
    BY <1>16 DEF LeaveLobby
  <2>2. CASE c = d
    <3>1. ~join'[d]
      BY <1>0, <2>1, <2>2 DEF Types, ThreadTypes
    <3> QED
      BY <1>4, <2>1, <3>1
  <2>3. CASE c # d
    <3>1. at'[d] = at[d] /\ join'[d] = join[d]
      BY <1>0, <2>1, <2>3, GotoFields DEF Types, ThreadTypes
    <3> QED
      BY <1>4, <2>1, <3>1
  <2> QED
    BY <2>2, <2>3
<1>17. ASSUME NEW c \in Clients, CheckConnection(c) PROVE Goal
  <2>1. /\ \E label : Goto(c, "checker", label)
        /\ join' = join \/ join' = [join EXCEPT ![c] = FALSE]
        /\ UNCHANGED <<conn, alive, chunk, replies, handler, lobby>>
    BY <1>17 DEF CheckConnection
  <2>2. at'[d].main = at[d].main /\ (join'[d] => join[d])
    <3>1. join'[d] => join[d]
      BY <1>0, <2>1 DEF Types, ThreadTypes
    <3>2. at'[d].main = at[d].main
      BY <1>0, <2>1, GotoFields
    <3> QED
      BY <3>1, <3>2
  <2> QED
    BY <1>4, <2>1, <2>2
<1>18. ASSUME NEW c \in Clients, Menu(c) PROVE Goal
  <2>1. UNCHANGED <<lobby, handler>> /\ at[c].main = "idle"
    BY <1>18 DEF Menu
  <2>2. CASE End(c)
    BY <1>5, <2>1, <2>2
  <2>3. CASE /\ \E label : Goto(c, "main", label)
             /\ UNCHANGED <<conn, alive, join, chunk, replies>>
    <3>1. at[d].main = "unjoin" => at'[d].main = "unjoin"
      <4>1. CASE c = d
        BY <2>1, <4>1
      <4>2. CASE c # d
        BY <1>0, <2>3, <4>2, GotoFields
      <4> QED
        BY <4>1, <4>2
    <3> QED
      BY <1>4, <2>1, <2>3, <3>1
  <2> QED
    BY <1>18, <2>2, <2>3 DEF Menu
<1>19. ASSUME NEW c \in Clients, Recv(c) PROVE Goal
  <2>1. UNCHANGED <<conn, alive, join, lobby, handler>> /\ Goto(c, "listener", "handle")
    BY <1>19 DEF Recv
  <2>2. First(d) /\ ~scenario.cuts
    BY <1>3, <2>1
  <2>3. CASE c = d
    BY <1>0, <1>19, <2>2, <2>3, RecvKeepsTold DEF Goal
  <2>4. CASE c # d
    <3>1. UNCHANGED <<chunk[d], replies[d], at[d]>>
      BY <1>0, <1>19, <2>1, <2>4, GotoFields DEF Recv, Types, ThreadTypes, WireTypes
    <3> QED
      BY <1>4, <2>1, <3>1
  <2> QED
    BY <2>3, <2>4
<1>20. ASSUME NEW c \in Clients, RecvEnds(c) PROVE Goal
  BY <1>4, <1>20 DEF RecvEnds
<1>21. ASSUME NEW c \in Clients, Callback(c) PROVE Goal
  <2>1. UNCHANGED <<lobby, handler>>
    BY <1>21 DEF Callback
  <2>2. CASE End(c)
    BY <1>5, <2>1, <2>2
  <2>3. CASE /\ HandleResponse(c, chunk[c])
             /\ Goto(c, "listener", "recv")
             /\ chunk' = [chunk EXCEPT ![c] = None]
             /\ UNCHANGED <<conn, alive, connected, requests, replies>>
    <3>1. CASE c = d
      <4>1. First(d)
        BY <1>3, <2>3
      <4> QED
        BY <1>0, <2>1, <2>3, <3>1, <4>1, CallbackKeepsTold DEF Goal
    <3>2. CASE c # d
      <4>1. UNCHANGED <<join[d], chunk[d], at[d]>>
        BY <1>0, <2>3, <3>2, GotoFields DEF HandleResponse, Types, ThreadTypes
      <4> QED
        BY <1>4, <2>1, <2>3, <4>1
    <3> QED
      BY <3>1, <3>2
  <2> QED
    BY <1>21, <2>2, <2>3 DEF Callback
<1>22. ASSUME NEW c \in Clients, NEW a, Scan(c, a) PROVE Goal
  BY <1>4, <1>22 DEF Scan
<1>23. ASSUME NEW c \in Clients, Transmit(c) PROVE Goal
  BY <1>4, <1>23 DEF Transmit
<1>24. ASSUME NEW c \in Clients, Discard(c) PROVE Goal
  BY <1>4, <1>5, <1>24 DEF Discard
<1>25. ASSUME NEW c \in Clients, NEW g \in Conns, Serve(c, g) \/ LoopRaises(c, g) PROVE Goal
  <2>1. Acts(c, g)
    BY <1>25, ServeActs, LoopRaisesActs
  <2> QED
    BY <1>0, <2>1, ActsKeepsTold DEF Goal
<1>26. ASSUME NEW c \in Clients, NEW g \in Conns, Tell(c, g) PROVE Goal
  <2>1. /\ \/ handler[c][g] = "tell" /\ Write(c, g, JoinAnswer)
           \/ handler[c][g] = "left" /\ Write(c, g, LeaveAnswer)
        /\ Becomes(c, g, "serve") /\ "serve" \in Handlers
        /\ UNCHANGED <<at, conn, alive, join, chunk, lobby>>
    BY <1>26 DEF Tell, JoinAnswer, LeaveAnswer, Handlers
  <2>2. First(d) /\ ~scenario.cuts /\ 1 \in Conns
    BY <1>0, <1>3, <2>1, OneIsConn DEF First
  <2>3. CASE c # d \/ g # 1
    <3>1. replies'[d] = replies[d]
      <4>1. CASE c # d
        BY <1>0, <2>1, <4>1, WriteEffect
      <4>2. CASE c = d /\ g # 1
        BY <2>1, <2>2, <4>2 DEF Write, Current, First
      <4> QED
        BY <2>3, <4>1, <4>2
    <3>2. handler'[d][1] = handler[d][1]
      BY <1>0, <2>1, <2>2, <2>3, OnwardMoves
    <3> QED
      BY <1>4, <2>1, <3>1, <3>2
  <2>4. CASE c = d /\ g = 1
    <3> DEFINE ws == replies[d]
    <3>1. ws \in Seq(Text \ {<< >>}) /\ replies'[d] \in Seq(Text \ {<< >>}) /\ AllPossible(ws)
      BY <1>0, <2>2 DEF Types, WireTypes, Told
    <3>2. Current(d, 1)
      BY <2>2 DEF Current, First
    <3>3. handler'[d][1] = "serve"
      BY <1>0, <2>1, <2>2, <2>4, OnwardMoves
    <3>4. ASSUME NEW w, Write(c, g, w) PROVE replies'[d] = Append(ws, w)
      BY <1>0, <2>2, <2>4, <3>2, <3>4 DEF Write, Glued, Types, WireTypes
    <3>5. CASE handler[c][g] = "tell" /\ Write(c, g, JoinAnswer)
      <4>1. lobby[d] = 1
        BY <1>0, <2>2, <2>4, <3>5 DEF Told, Awaits
      <4>2. JoinAnswer \in Text \ {<< >>} /\ Possible(JoinAnswer)
        BY WrittenType DEF JoinAnswer, Possible, Answers
      <4>3. replies'[d] = Append(ws, JoinAnswer)
        BY <3>4, <3>5
      <4> HIDE DEF ws
      <4>4. AllPossible(replies'[d])
        BY <3>1, <4>2, <4>3, AppendAnswer
      <4>5. lobby'[d] = 1
        BY <2>1, <4>1
      <4> QED
        BY <4>4, <4>5 DEF Goal
    <3>6. CASE handler[c][g] = "left" /\ Write(c, g, LeaveAnswer)
      <4>1. LeaveAnswer \in Text \ {<< >>} /\ Possible(LeaveAnswer)
        BY WrittenType DEF LeaveAnswer, Possible, Answers
      <4>2. replies'[d] = Append(ws, LeaveAnswer) /\ 0 \in 0 .. Len(ws)
        BY <3>1, <3>4, <3>6, LenProperties
      <4> HIDE DEF ws
      <4>3. /\ AllPossible(replies'[d]) /\ Later(replies'[d], 0)
            /\ Corrects(replies'[d]) /\ Pending(replies'[d])
        BY <3>1, <4>1, <4>2, AppendAnswer
      <4>4. Unjoining(d)'
        BY <3>1, <4>3, CorrectsDomain DEF Unjoining
      <4>5. Awaits(d)'
        BY <3>3, <4>3, <4>4 DEF Awaits
      <4> QED
        BY <4>3, <4>5 DEF Goal
    <3> QED
      BY <2>1, <3>5, <3>6
  <2> QED
    BY <2>3, <2>4
<1>27. ASSUME NEW c \in Clients, Drop(c) PROVE Goal
  <2>1. c # d
    BY <1>0, <1>1, <1>27 DEF Drop, Types, WireTypes
  <2>2. UNCHANGED <<conn, alive[d], lobby, handler, chunk, replies[d], join, at>>
    BY <1>0, <1>27, <2>1 DEF Drop, Types, WireTypes
  <2> QED
    BY <1>4, <2>2
<1>28. ASSUME NEW p \in Peers, PeerMoves(p) PROVE Goal
  <2>1. UNCHANGED <<at, conn, alive, join, chunk, replies>> /\ lobby'[d] = lobby[d]
    BY <1>0, <1>28, ClientsAreHosts DEF PeerMoves, Types, ServerTypes
  <2>2. 1 \in Conns
    BY <1>0, <1>3, <2>1, OneIsConn DEF First
  <2>3. Steady(d)
    BY <1>0, <1>28, <2>2 DEF PeerMoves, Steady, Left, Resized, Types, ServerTypes
  <2> QED
    BY <1>7, <2>1, <2>3
<1>29. ASSUME NEW p \in Peers, NEW c \in Clients, PeerSends(p, c) PROVE Goal
  <2>1. UNCHANGED <<at, conn, alive, join, chunk, lobby, handler>> /\ Write(c, lobby[c], FrameWrite)
    BY <1>29 DEF PeerSends
  <2>2. First(d) /\ ~scenario.cuts
    BY <1>3, <2>1
  <2>3. Quiet(d)
    BY <1>0, <2>1, WriteEffect, HarmlessAnswers DEF Quiet, Steady, Left
  <2> QED
    BY <1>0, <2>2, <2>3, QuietKeeps DEF Goal
<1>30. ASSUME NEW c \in Clients, NEW g \in Conns, ThreadEnds(c, g) PROVE Goal
  <2>1. UNCHANGED <<at, conn, join, chunk, replies>>
    BY <1>30 DEF ThreadEnds
  <2>2. conn[d] = 1 /\ 1 \in Conns /\ {"raised", "ended"} \subseteq Handlers
    BY <1>0, <1>1, <2>1, OneIsConn DEF Handlers
  <2>3. UNCHANGED <<alive[d], lobby[d]>> /\ (c # d \/ g # 1 \/ Becomes(c, g, "raised"))
    <3>1. CASE UNCHANGED <<lobby, alive>> /\ Becomes(c, g, "raised")
      BY <3>1
    <3>2. ASSUME Close(c, g), c = d, g = 1 PROVE FALSE
      <4>1. ~alive'[d]
        BY <1>0, <2>2, <3>2 DEF Close, Types, WireTypes
      <4> QED
        BY <1>1, <4>1
    <3>3. ASSUME Close(c, g), c # d \/ g # 1 PROVE alive'[d] = alive[d]
      BY <1>0, <2>2, <3>3 DEF Close, Types, WireTypes
    <3>4. CASE Close(c, g) /\ UNCHANGED lobby /\ Becomes(c, g, "raised")
      BY <3>2, <3>3, <3>4
    <3>5. CASE Entered(c, g) /\ CleanUp(c, g) /\ Close(c, g)
      <4>1. CASE c # d
        <5>1. lobby'[d] = lobby[d]
          BY <1>0, <3>5, <4>1, ClientsAreHosts DEF CleanUp, Types, ServerTypes
        <5> QED
          BY <3>3, <3>5, <4>1, <5>1
      <4>2. CASE c = d
        <5>1. g \in Nat /\ g > 0
          BY LanAssumption DEF Conns, Scenario
        <5>2. g = 1
          BY <1>0, <2>2, <3>5, <4>2, <5>1 DEF Entered
        <5> QED
          BY <3>2, <3>5, <4>2, <5>2
      <4> QED
        BY <4>1, <4>2
    <3> QED
      BY <1>30, <3>1, <3>4, <3>5 DEF ThreadEnds
  <2>4. Steady(d)
    <3>1. Becomes(c, g, "raised") \/ Resizes(c, g, "ended")
      BY <1>30 DEF ThreadEnds
    <3>2. handler[c][g] \in {"finally", "resized"}
      BY <1>30 DEF ThreadEnds
    <3> QED
      BY <1>0, <2>2, <2>3, <3>1, <3>2, OnwardMoves DEF Steady, Left
  <2> QED
    BY <1>7, <2>1, <2>3, <2>4
<1>31. Goal
  BY <1>11, <1>12, <1>13, <1>14, <1>15, <1>16, <1>17, <1>18, <1>19, <1>20, <1>21, <1>22, <1>23,
     <1>24, <1>25, <1>26, <1>27, <1>28, <1>29, <1>30 DEF Next, Caller, Listener, Handler
<1> QED
  BY <1>31 DEF Goal

\* On the first connection of a client, where every recv() returns one write, it believes that
\* it has joined only if the server has entered it or it is about to be told otherwise: every
\* "join 1" that is not true any more has a "leave 1" behind it, and leaveLobby clears join
\* itself.
THEOREM JoinedClientsAreEntered == Spec => []JoinedIsEntered
<1>1. Init => ThreadsOK /\ ToldOK
  BY DEF Init, ThreadsOK, Threads, ToldOK, Told, First, None
<1>2. LanInv /\ ThreadsOK /\ ToldOK /\ [Next]_vars => ThreadsOK' /\ ToldOK'
  BY ThreadsStep, ToldStep
<1>3. ToldOK => JoinedIsEntered
  BY DEF ToldOK, Told, First, Awaits, JoinedIsEntered, Entered
<1> QED
  BY <1>1, <1>2, <1>3, LanInvariant, PTL DEF Spec
=============================================================================
