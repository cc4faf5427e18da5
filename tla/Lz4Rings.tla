------------------------------ MODULE Lz4Rings ------------------------------
(***************************************************************************)
(* LZ4_streamDecode_t (lz4.c): what a decoder remembers from block to      *)
(* block, against what the source of the blocks may refer to.  lz4.h       *)
(* (LZ4_decompress_safe_continue) lets the caller decode into a ring       *)
(* buffer under one of several rules; the caller keeps to one of them.     *)
(*                                                                         *)
(* Memory holds, for an address, the distance from the end of the decoded  *)
(* text of the byte that is there; the contents do not matter.             *)
(***************************************************************************)
EXTENDS Integers, FiniteSets

CONSTANTS
  Rules,      \* which rules the caller may choose from: see Ring
  Decoders,   \* which of LZ4_decompress_safe_continue and LZ4_decompress_fast_continue
  EmptyFast,  \* the fast one may be given empty blocks
  EncRing,    \* the encoder's ring buffer, where it has one
  MaxBlock,   \* maxBlockSize
  Margin,     \* 14 in LZ4_DECODER_RING_BUFFER_SIZE
  Overshoot,  \* how far beyond its position a decoder may write in passing
  KB64,       \* 64 KB
  MatchBytes  \* MINMATCH

ASSUME RingsAssumption ==
  /\ Rules \subseteq {"any", "sync", "larger", "larger, exact", "save"}
  /\ MaxBlock \in Nat \ {0} /\ KB64 \in Nat \ {0} /\ MatchBytes \in Nat
  /\ Decoders \subseteq {"safe", "fast"} /\ EmptyFast \in BOOLEAN
  /\ Margin \in Nat /\ Overshoot \in Nat
  /\ EncRing \in Nat /\ EncRing >= 2 * MaxBlock   \* else see Lz4Stream, Strays

VARIABLES
  rule,   \* the caller's
  decoder,\* "safe" or "fast"
  lz4sd,  \* LZ4_streamDecode_t_internal
  ringMem,\* the decoder's ring, and a safe buffer behind it
  dest,   \* where the last block ended
  enc     \* the source: its position, and the size of its dictionary

ringVars == <<rule, decoder, lz4sd, ringMem, dest, enc>>

MinOf(a, b) == IF a < b THEN a ELSE b
DistanceMax == KB64 - 1
Lost == 0
Null == -1

(* LZ4_decoderRingBufferSize, or what the other rules ask for *)
Ring == CASE rule = "any" -> KB64 + Margin + MaxBlock
          [] rule = "sync" -> EncRing
          [] rule \in {"larger", "larger, exact"} -> EncRing + MaxBlock
          [] rule = "save" -> MaxBlock
Safe == Ring
RingAddresses == 0..Ring + KB64 + MaxBlock - 1

Decoder == [prefixSize : Nat, prefixEnd : Null..Ring + KB64 + MaxBlock,
            externalDict : RingAddresses \cup {Null}, extDictSize : Nat]
NoStream == [prefixSize |-> 0, prefixEnd |-> Null, externalDict |-> Null, extDictSize |-> 0]

----------------------------------------------------------------------------
(* The source.  Any source may refer to all of the last 64 KB; otherwise   *)
(* it is LZ4_compress_fast_continue on a ring buffer: its dictionary ends  *)
(* where its last block did.                                               *)

AnySource == rule \in {"any", "save"}
Wraps(pos, size) == size - pos < MaxBlock

EncDict(n) ==
  LET left == MinOf(enc.pos - n, KB64)
  IN IF ~Wraps(enc.pos, EncRing) \/ n <= enc.pos - enc.dictSize THEN enc.dictSize
     ELSE IF n >= enc.pos \/ left < MatchBytes THEN 0 ELSE left
Reach(n) == MinOf(DistanceMax, IF AnySource THEN enc.dictSize ELSE EncDict(n))

Encoded(n) ==
  IF AnySource THEN [pos |-> 0, dictSize |-> MinOf(enc.dictSize + n, KB64)]
  ELSE IF Wraps(enc.pos, EncRing) THEN [pos |-> n, dictSize |-> MinOf(n, KB64)]
  ELSE [pos |-> enc.pos + n, dictSize |-> MinOf(enc.dictSize + n, KB64)]

----------------------------------------------------------------------------
(* The decoder. *)

(* LZ4_setStreamDecode *)
Set(dictionary, dictSize) ==
  [prefixSize |-> dictSize, prefixEnd |-> dictionary + dictSize,
   externalDict |-> Null, extDictSize |-> 0]

(* What a call looks back at: a prefix, and an external dictionary; the    *)
(* safe one takes all of 64 KB to be there if the prefix is that long.     *)
Looks(prefix, ext, extSize) ==
  IF decoder = "safe" /\ prefix >= KB64 - 1 THEN [prefix |-> KB64, ext |-> Null, extSize |-> 0]
  ELSE [prefix |-> prefix, ext |-> ext, extSize |-> extSize]

\* Mutant: rolling a segment forgets the one before it.
ContinueViewNear(sd, d) ==
  IF sd.prefixSize = 0 THEN Looks(0, Null, 0)
  ELSE IF sd.prefixEnd = d THEN Looks(sd.prefixSize, Null, 0)
  ELSE Looks(0, sd.prefixEnd - sd.prefixSize, sd.prefixSize)

(* LZ4_decompress_safe_continue, LZ4_decompress_fast_continue: the view of *)
(* a block at d, and what is remembered when n bytes of it are decoded.    *)
ContinueView(sd, d) ==
  IF sd.prefixSize = 0 THEN Looks(0, Null, 0)
  ELSE IF sd.prefixEnd = d THEN Looks(sd.prefixSize, sd.externalDict, sd.extDictSize)
  ELSE Looks(0, sd.prefixEnd - sd.prefixSize, sd.prefixSize)
Turned(sd) == [sd EXCEPT !.extDictSize = sd.prefixSize,
                         !.externalDict = sd.prefixEnd - sd.prefixSize]
Continued(sd, d, n) ==
  LET same == IF sd.prefixSize = 0 \/ sd.prefixEnd = d THEN sd ELSE Turned(sd)
      size == IF sd.prefixEnd = d THEN sd.prefixSize ELSE 0
  IN IF n = 0 /\ decoder = "safe" THEN same   \* it returns 0, the fast one what it has read
     ELSE [same EXCEPT !.prefixSize = size + n, !.prefixEnd = d + n]

(* LZ4_decompress_safe_usingDict and its variants *)
UsingDict(dictStart, dictSize, d) ==
  IF dictSize = 0 THEN Looks(0, Null, 0)
  ELSE IF dictStart + dictSize = d THEN Looks(dictSize, Null, 0)
  ELSE Looks(0, dictStart, dictSize)

(* LZ4_decompress_generic: where the byte is that lies distance back from  *)
(* position k of the block; nowhere if the offset is refused.              *)
Where(view, d, k, distance) ==
  LET beyond == distance - k - view.prefix
  IN IF beyond <= 0 THEN {d + k - distance}
     ELSE {view.ext + view.extSize - b : b \in {beyond} \cap 1..view.extSize}

(* A caller that saves has its dictionary in the safe buffer, and decodes  *)
(* elsewhere or right behind it.                                           *)
Saved == rule = "save" =>
           enc.dictSize = 0 \/ (lz4sd.prefixSize > 0 /\ lz4sd.prefixEnd = Safe + enc.dictSize)
Dests == {IF Wraps(dest, Ring) THEN 0 ELSE dest} \cup
         (IF rule = "save" /\ enc.dictSize > 0 THEN {lz4sd.prefixEnd} ELSE {})
Views(d) == {ContinueView(lz4sd, d)} \cup
            (IF rule = "save" THEN {UsingDict(Safe, enc.dictSize, d)} ELSE {})

(* The room the decoder is told of, and what it may have overwritten when  *)
(* it is at position k of the block at d.  The fast one (Lz4Unsafe) copies *)
(* no more than it means to.                                               *)
Told(n) == IF rule \in {"sync", "larger, exact"} THEN n ELSE MaxBlock
Touched(d, n, k) ==
  d..d + (IF decoder = "fast" THEN k ELSE MinOf(k + Overshoot, Told(n))) - 1

Aged(a, d, n) ==
  IF a \in d..d + n - 1 THEN d + n - a
  ELSE IF a \in Touched(d, n, n) \/ ringMem[a] = Lost THEN Lost ELSE ringMem[a] + n

(* A block of n bytes is decoded, or refused: then the caller starts over. *)
Decode(d, n) ==
  \/ /\ lz4sd' = Continued(lz4sd, d, n) /\ enc' = Encoded(n)
     /\ dest' = IF d < Safe THEN d + n ELSE dest
     /\ ringMem' = [a \in RingAddresses |-> IF Aged(a, d, n) <= KB64 THEN Aged(a, d, n) ELSE Lost]
     /\ UNCHANGED <<rule, decoder>>
  \/ /\ lz4sd' = NoStream /\ dest' = 0 /\ enc' = [pos |-> 0, dictSize |-> 0]
     /\ ringMem' = [a \in RingAddresses |-> Lost]
     /\ UNCHANGED <<rule, decoder>>

(* "save the last 64KB of decoded data into a safe buffer" *)
Save ==
  LET size == enc.dictSize
      kept == {ringMem[a] : a \in RingAddresses}
      saved(a) == IF a \in Safe..Safe + size - 1 THEN Safe + size - a ELSE Lost
  IN /\ rule = "save" /\ size > 0 /\ ~Saved
     /\ ringMem' = [a \in RingAddresses |-> IF saved(a) \in kept THEN saved(a) ELSE Lost]
     /\ lz4sd' = Set(Safe, size)
     /\ UNCHANGED <<rule, decoder, dest, enc>>

RingInit ==
  /\ rule \in Rules /\ decoder \in Decoders /\ lz4sd = NoStream /\ dest = 0
  /\ ringMem = [a \in RingAddresses |-> Lost] /\ enc = [pos |-> 0, dictSize |-> 0]

RingNext ==
  \/ Save
  \/ \E d \in Dests, n \in 0..MaxBlock :
       /\ n = 0 /\ decoder = "fast" => EmptyFast
       /\ Saved /\ Decode(d, n)

RingSpec == RingInit /\ [][RingNext]_ringVars

----------------------------------------------------------------------------
(* Properties. *)

RingTypeOK ==
  /\ rule \in Rules /\ decoder \in Decoders /\ lz4sd \in Decoder /\ dest \in 0..Ring
  /\ ringMem \in [RingAddresses -> 0..KB64]
  /\ enc \in [pos : 0..EncRing, dictSize : 0..KB64]

(* When the ring may be resumed from its beginning, the text before is     *)
(* longer than its size less maxBlockSize; of that, a decoder that is not  *)
(* told the exact size spares what is farther from its position than it    *)
(* overshoots.  The text that begins with the ring is not concerned.       *)
Spared(d, k, distance) ==
  decoder = "safe" /\ rule \in {"any", "larger"} =>
    distance <= d + k \/ distance <= Ring - MaxBlock + 1 - Overshoot

(* Whatever the next block refers to, the decoder finds it: it refuses no  *)
(* distance that the source may use, and the byte there is still the one   *)
(* that was decoded, also behind what the block itself has overwritten.    *)
(* lz4.h (LZ4_decompress_safe_continue) promises this for every rule and   *)
(* any distance, which it may use up to 64 KB - 1.  It holds so for a ring *)
(* in step with the encoder's, with exact sizes and with a safe buffer;    *)
(* otherwise (rules "any" and "larger") only for the distances spared, in  *)
(* lz4.h's ring up to 65536 + 14 + 1 - 31: the run ring_of_14 shows the    *)
(* decoder losing what lies farther back.                                  *)
HistoryFound ==
  Saved =>
    \A d \in Dests, n \in 1..MaxBlock : \A view \in Views(d), k \in 0..n - 1 :
      \A distance \in k + 1..MinOf(Reach(n) + k, DistanceMax) :
        Spared(d, k, distance) =>
          \E a \in Where(view, d, k, distance) :
            a \in RingAddresses \ Touched(d, n, k) /\ ringMem[a] = distance - k
=============================================================================
