---------------------------- MODULE MCLz4Encode ----------------------------
(***************************************************************************)
(* The compressor of lz4.c as TLC checks it in one run: one call           *)
(* (Lz4Compress), and what a stream remembers between calls (Lz4Stream).   *)
(* They share no state, so a behaviour is one of one part, chosen at the   *)
(* start; the other stays in an initial state.                             *)
(***************************************************************************)
EXTENDS Lz4Compress, Lz4Stream

VARIABLE part

-----------------------------------------------------------------------------
(* One call: sources, histories and capacities.                            *)

(* Few buckets, so that positions displace each other. *)
MCHash(bytes) == (bytes[1] + 3 * bytes[2] + 2 * bytes[3] + 2 * bytes[4]
                  + (IF Len(bytes) > 4 THEN bytes[5] ELSE 0)) % 4
MCBuckets == 0..3

(* A source repeats itself every p bytes, but for a byte of its own at q.  *)
Source(len, p, q) == [k \in 1..len |-> IF k = q THEN p + 1 ELSE k % p]
EmptyTable == [h \in MCBuckets |-> 0]

Call(api, src, cap, acceleration) ==
  [api |-> api, src |-> src, cap |-> cap, acceleration |-> acceleration,
   dir |-> "noDict", dictSmall |-> FALSE, dict |-> <<>>,
   startIndex |-> 0, dictOffset |-> 0, table |-> EmptyTable, dictTable |-> EmptyTable]

(* Sources: empty, too short to compress, at the limit of a table of 16    *)
(* bits (65 when Window is 54) and beyond; repeats at the end of the reach *)
(* and out of it, met by steps of 26 or 27.                                *)
Shorts == {Source(len, p, q) : len \in {0, 1, 5, 12, 13, 14, 20, 27, 36},
                               p \in {1, 2, 3, 4, 5, 50}, q \in {1, 2, 7, 12}}
Longs == {Source(len, p, q) : len \in {64, 65, 75, 90}, p \in {3, 53, 54}, q \in {2, 20}}
OneShotJobs ==
  {Call("extState", src, cap, a) : src \in Shorts, cap \in {0, 9, 12, 16, 22, 37, 55}, a \in {1, 3}}
  \cup {Call("extState", src, cap, 1) : src \in Longs, cap \in {20, 60, 100, 115}}
  \cup {Call("extState", Source(125, p, 2), 160, a) : p \in {53, 54}, a \in {26, 27}}
  \cup {Call("extState", Source(201, 3, 2), cap, 1) : cap \in {38, 65}}

(* The last are matches found late and begun early, cut short of where     *)
(* they were found.                                                        *)
FillJobs ==
  {Call("destSize", Source(len, p, q), cap, 1) :
     len \in {0, 1, 13, 20, 27, 36}, p \in {1, 2, 3, 5}, q \in {2, 12}, cap \in 0..20}
  \cup {Call("destSize", Source(len, p, q), cap, 1) :
     len \in {64, 65, 90}, p \in {1, 2, 3}, q \in {1, 4, 50}, cap \in 9..24}
  \cup {Call("destSize", Source(170, 50, 4), cap, 50) : cap \in 68..76}

(* What the table holds of a history whose end has index s, the last of    *)
(* the positions that share a bucket; the others hold what they held.      *)
Indexed(history, s, before, five) ==
  LET size == Len(history)
      hash(k) == MCHash(SubSeq(history, k, k + (IF five THEN 4 ELSE 3)))
      at(h) == {k \in 1..size - 7 : hash(k) = h}
  IN [h \in MCBuckets |->
        IF at(h) = {} THEN before
        ELSE s - size - 1 + (CHOOSE k \in at(h) : \A l \in at(h) : l <= k)]

(* The history goes on in the source, or the source repeats part of it. *)
Histories == {Source(len, p, q) : len \in {8, 12, 20}, p \in {1, 3, 40}, q \in {3, 10}}
Sources == {Source(len, p, q) : len \in {12, 13, 24, 36}, p \in {1, 3, 40}, q \in {2, 9, 21}}
Caps == {14, 28, 60}
HistoryJobs ==
  {[Call("stream", src, cap, 1) EXCEPT
      !.dir = dir, !.dictSmall = (before > 0), !.dict = history, !.startIndex = s,
      !.table = Indexed(history, s, before, TRUE)] :
     src \in Sources, cap \in Caps, history \in Histories,
     dir \in {"withPrefix64k", "usingExtDict"}, s \in {74}, before \in {0, 15}}
  \cup
  {[Call("stream", src, cap, 1) EXCEPT
      !.dir = "usingDictCtx", !.dict = history, !.startIndex = s, !.dictOffset = 54,
      !.table = [h \in MCBuckets |-> s - h - 1],
      !.dictTable = Indexed(history, 54, 0, TRUE)] :
     src \in Sources, cap \in Caps, history \in {d \in Histories : Len(d) < 16}, s \in {54, 78}}
  \cup
  {[Call("fastReset", src, cap, 1) EXCEPT
      !.dictSmall = TRUE, !.startIndex = 1, !.table = EmptyTable] :
     src \in {d \in Sources : Len(d) < 14}, cap \in Caps}

(* Just room enough, where every write is checked against it. *)
CheckedJobs == {[Call("stream", Source(20, p, 2), cap, 10) EXCEPT !.startIndex = 74] :
                  p \in {3, 40}, cap \in {37, 38}}

EncodeJobs == CheckedJobs \cup OneShotJobs \cup FillJobs \cup HistoryJobs

-----------------------------------------------------------------------------
Idle == Call("extState", <<>>, 0, 1)

EncodeInit ==
  \/ /\ part = "call" /\ Init
     /\ ctx = Fresh /\ hashTable = Empty /\ mem = <<>>
     /\ dict = [ctx |-> Fresh, hashTable |-> Empty]
     /\ text = 0 /\ broken = FALSE /\ astray = FALSE /\ misled = FALSE
  \/ /\ part = "stream" /\ StreamInit
     /\ job = Idle /\ pc = "start" /\ table = EmptyTable
     /\ ip = 0 /\ fwd = 0 /\ step = 1 /\ searches = 0 /\ anchor = 0
     /\ match = 0 /\ low = 0 /\ offset = 0 /\ filled = 0
     /\ token = 0 /\ op = 0 /\ wrote = 0 /\ block = <<>> /\ result = 0 /\ stray = FALSE

CallMoves == part = "call" /\ Next /\ UNCHANGED <<part, streamVars>>
StreamMoves == part = "stream" /\ StreamNext /\ UNCHANGED <<part, vars>>

EncodeNext == CallMoves \/ StreamMoves

EncodeSpec == EncodeInit /\ [][EncodeNext]_<<part, vars, streamVars>>
=============================================================================
