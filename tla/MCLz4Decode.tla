---------------------------- MODULE MCLz4Decode ----------------------------
(***************************************************************************)
(* The decoders of lz4.c as TLC checks them in one run: the safe one, the  *)
(* one that does not know where its input ends (Lz4Unsafe), and what a     *)
(* stream remembers between their calls (Lz4Rings).  They share no state,  *)
(* so a behaviour is one of one part, chosen at the start; the others stay *)
(* in an initial state.  In another run only the safe decoder is called,   *)
(* in rings of the size that lz4.h gives.                                  *)
(***************************************************************************)
EXTENDS Lz4Decompress, Lz4Unsafe, Lz4Rings

VARIABLE part

-----------------------------------------------------------------------------
(* The safe decoder: calls, and the sequences that their inputs hold.      *)

Job(src, cap, partial, dict, prefix, size) ==
  [src |-> src, cap |-> cap, partial |-> partial, dict |-> dict,
   dst |-> 0, floor |-> -prefix,
   lowPrefix |-> IF dict = "withPrefix64k" THEN -Window ELSE -prefix,
   dictStart |-> -prefix - size - 3, dictSize |-> size]

\* Sizes of the input, and of the room for the output, at the limits of the loops: 0, too
\* few for a margin, for a shortcut, for the fast loop.
BlockJobs ==
  {Job(s, c, FALSE, "noDict", 0, 0) : s \in {0, 1, 7, 17, 24, 70}, c \in {0, 4, 12, 30, 75, 110}}
  \cup {Job(70, 110, FALSE, "noDict", 16, 0)}
  \cup {Job(70, c, FALSE, "withPrefix64k", Window - 1, 0) : c \in {30, 110}}
DictJobs ==
  {Job(70, c, FALSE, "usingExtDict", p, d) : c \in {30, 110}, p \in {0, 4}, d \in {6, Window}}
PartialJobs ==
  {Job(s, c, TRUE, "noDict", 0, 0) : s \in {0, 7, 24}, c \in {0, 12, 30, 110}}
  \cup {Job(70, c, TRUE, "usingExtDict", 4, 6) : c \in {12, 30, 110}}

\* A ring buffer behind its end: the block before ended where less than a largest block of
\* 120 bytes was left, and the next is decoded at its beginning; or one that follows that
\* one, so that its prefix lies where the dictionary begins.  The ring has Window + margin
\* bytes, and one largest block: with 29 it has room for all that a copy may overshoot, with
\* the 14 of LZ4_DECODER_RING_BUFFER_SIZE it has not.
RingOf(margin) ==
  {[src |-> s, cap |-> 120, partial |-> FALSE, dict |-> "usingExtDict",
    dst |-> 0, floor |-> -p, lowPrefix |-> -p,
    dictStart |-> -p, dictSize |-> Window + margin + 1] : s \in {70, 90}, p \in {0, 20}}

DecodeJobs == BlockJobs \cup DictJobs \cup PartialJobs \cup RingOf(29) \cup RingOf(14)

Holding(lits, offsets, lengths) == [lit : lits, offset : offsets, ml : lengths]
JobInputs ==
  [j \in DecodeJobs |->
     CASE j \in BlockJobs -> Holding({0, 14, 15, 30}, 0 .. 8 \cup {15, 16}, {4, 18, 19, 34})
       [] j \in DictJobs -> Holding({0, 5, 15, 30}, {0, 1, 3, 9, 11, 20, 63}, {4, 12, 19, 34})
       [] j \in PartialJobs -> Holding({0, 1, 14, 15, 30}, {0, 1, 3, 7, 8, 16, 33}, {4, 18, 34})
       [] j \in RingOf(29) -> Holding({0, 1, 15, 33}, {1, 8, 16, 63}, {4, 18, 33})
       [] j \in RingOf(14) -> Holding({0, 1, 15, 33}, {8, 16, 14 + Window + 1 - Overshot}, {4, 33})]

\* The whole window in lz4.h's ring.
Ring14Jobs == RingOf(14) \cup {Job(0, 0, FALSE, "noDict", 0, 0)}
Ring14Inputs == [j \in Ring14Jobs |-> Holding({0, 15, 33}, {16, Window - 1}, {18, 33})]

-----------------------------------------------------------------------------
(* The other one: a block of one, two or three sequences, with no history, *)
(* with a prefix, with a dictionary and with both, and texts that end      *)
(* around the limits.                                                      *)

UnsafeCalls ==
  {[src |-> s, cap |-> c, prefix |-> r[1], dictSize |-> r[2]] :
     s \in {6, 16, 21, 28}, c \in {5, 12, 16, 21, 36},
     r \in {<<0, 0>>, <<4, 0>>, <<0, 3>>, <<4, 6>>}}

-----------------------------------------------------------------------------
DecodeInit ==
  /\ part \in {"safe", "unsafe", "rings"}
  /\ Init /\ UnsafeInit /\ RingInit
  /\ part # "safe" => job = Job(0, 0, FALSE, "noDict", 0, 0)
  /\ part # "unsafe" => call = [src |-> 6, cap |-> 5, prefix |-> 0, dictSize |-> 0]
  /\ part # "rings" => rule = "any" /\ decoder = "safe"

SafeMoves == part = "safe" /\ Next /\ UNCHANGED <<part, unsafeVars, ringVars>>
UnsafeMoves == part = "unsafe" /\ UnsafeNext /\ UNCHANGED <<part, vars, ringVars>>
RingsMove == part = "rings" /\ RingNext /\ UNCHANGED <<part, vars, unsafeVars>>

DecodeNext == SafeMoves \/ UnsafeMoves \/ RingsMove

DecodeSpec == DecodeInit /\ [][DecodeNext]_<<part, vars, unsafeVars, ringVars>>
=============================================================================
