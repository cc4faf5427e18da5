--------------------------- MODULE Lz4RingsProofs ---------------------------
(***************************************************************************)
(* What the next block may refer to is found where a stream of decoding    *)
(* calls looks for it, for any sizes of window, blocks and rings, under    *)
(* each rule of lz4.h for the caller's buffers.  In a ring there are two   *)
(* runs of text: the one that ends where the last block did, and behind it *)
(* what is left of the one before.                                         *)
(***************************************************************************)
EXTENDS Lz4Rings, TLAPS

(* An empty block where the ring is resumed makes the fast decoder forget  *)
(* all text, and take the next call for the first: lz4.c asserts that a    *)
(* first call has no dictionary (LZ4_decompress_fast_continue).            *)
RulesKept == EmptyFast => "fast" \notin Decoders

(* The distance that memory holds: none beyond the window. *)
Dist(n) == IF n <= KB64 THEN n ELSE Lost

(* How far ahead of the last block bytes may be lost. *)
Exposed == decoder = "safe" /\ rule \in {"any", "larger"}
Ahead == IF Exposed THEN Overshoot ELSE 0

(* Where a block may be decoded: at the beginning of a stream, where the   *)
(* last block ended, or at the beginning of the ring once that is near its *)
(* end.  Only a run that came there has another behind it.                 *)
NearEnd(n) == n <= Ring /\ n > Ring - MaxBlock
Fresh(d) == lz4sd = NoStream /\ d = 0 /\ enc.dictSize = 0
GoingOn(d) == /\ lz4sd.prefixSize = d /\ lz4sd.prefixEnd = d /\ d > 0
              /\ \/ lz4sd.extDictSize = 0 /\ enc.dictSize <= d
                 \/ lz4sd.externalDict = 0 /\ NearEnd(lz4sd.extDictSize)
SentBack(d) == /\ lz4sd.prefixSize = lz4sd.prefixEnd /\ NearEnd(lz4sd.prefixSize)
               /\ d = 0
Here(d) == Fresh(d) \/ GoingOn(d) \/ SentBack(d)

(* The run before the one that ends at d, and what is there of both.       *)
Before(d) == IF lz4sd.prefixEnd = d THEN lz4sd.extDictSize ELSE lz4sd.prefixSize
Runs(d) == /\ \A a \in 0..d - 1 : ringMem[a] = Dist(d - a)
           /\ \A a \in d + Ahead..Before(d) - 1 : ringMem[a] = Dist(d + Before(d) - a)

(* What the source has in its own ring. *)
Source == /\ ~AnySource => enc.dictSize <= enc.pos
          /\ rule = "sync" => enc.pos = dest

InRing == rule # "save" => Here(dest) /\ Runs(dest) /\ Source

(* A caller that saves has all of it, in its safe buffer or elsewhere. *)
SavedAll == /\ lz4sd.prefixSize = enc.dictSize
            /\ \A a \in Safe..Safe + enc.dictSize - 1 :
                 ringMem[a] = Safe + enc.dictSize - a
InSafe == rule = "save" =>
            \/ lz4sd = NoStream /\ enc.dictSize = 0
            \/ Saved /\ enc.dictSize > 0 /\ SavedAll
            \/ ~Saved /\ \A i \in 1..enc.dictSize : \E a \in RingAddresses : ringMem[a] = i

RingInv == RingTypeOK /\ InRing /\ InSafe

-----------------------------------------------------------------------------
(* What the constants and the types give.                                  *)

LEMMA Sizes ==
  /\ KB64 \in Nat /\ KB64 > 0 /\ MaxBlock \in Nat /\ MaxBlock > 0 /\ EncRing \in Nat
  /\ Margin \in Nat /\ Overshoot \in Nat /\ MatchBytes \in Nat
  /\ EncRing - MaxBlock >= MaxBlock
  /\ Lost = 0 /\ Null = -1 /\ DistanceMax = KB64 - 1
  <1>0. KB64 \in Nat \ {0} /\ MaxBlock \in Nat \ {0}
    BY RingsAssumption
  <1>1. KB64 \in Nat /\ KB64 > 0
    BY <1>0
  <1>2. MaxBlock \in Nat /\ MaxBlock > 0
    BY <1>0
  <1>3. EncRing \in Nat /\ EncRing >= 2 * MaxBlock
    BY RingsAssumption
  <1>4. Margin \in Nat /\ Overshoot \in Nat /\ MatchBytes \in Nat
    BY RingsAssumption
  <1>5. EncRing - MaxBlock >= MaxBlock
    BY <1>2, <1>3
  <1>6. Lost = 0
    BY DEF Lost
  <1>7. Null = -1
    BY DEF Null
  <1>8. DistanceMax = KB64 - 1
    BY DEF DistanceMax
  <1> QED
    BY <1>1, <1>2, <1>3, <1>4, <1>5, <1>6, <1>7, <1>8

LEMMA RingIs ==
  ASSUME rule \in Rules
  PROVE  /\ Ring \in Nat /\ Ring >= MaxBlock /\ Safe = Ring
         /\ rule \in {"any", "sync", "larger", "larger, exact", "save"}
         /\ rule = "any" => Ring = KB64 + Margin + MaxBlock
         /\ rule = "sync" => Ring = EncRing
         /\ rule \in {"larger", "larger, exact"} => Ring = EncRing + MaxBlock
         /\ rule = "save" => Ring = MaxBlock
  <1>1. rule \in {"any", "sync", "larger", "larger, exact", "save"}
    BY RingsAssumption
  <1>2. CASE rule = "any"
    <2>1. Ring = KB64 + Margin + MaxBlock
      BY <1>2 DEF Ring
    <2> QED
      BY <1>1, <1>2, <2>1, Sizes DEF Safe
  <1>3. CASE rule = "sync"
    <2>1. Ring = EncRing
      BY <1>3 DEF Ring
    <2> QED
      BY <1>1, <1>3, <2>1, Sizes DEF Safe
  <1>4. CASE rule \in {"larger", "larger, exact"}
    <2>1. Ring = EncRing + MaxBlock
      BY <1>4 DEF Ring
    <2>2. Ring \in Nat /\ Ring >= MaxBlock
      BY <2>1, Sizes
    <2>3. rule # "any" /\ rule # "sync" /\ rule # "save"
      BY <1>4
    <2> QED
      BY <1>1, <1>4, <2>1, <2>2, <2>3 DEF Safe
  <1>5. CASE rule = "save"
    <2>1. Ring = MaxBlock
      BY <1>5 DEF Ring
    <2> QED
      BY <1>1, <1>5, <2>1, Sizes DEF Safe
  <1> QED
    BY <1>1, <1>2, <1>3, <1>4, <1>5

LEMMA RingTypes ==
  ASSUME RingTypeOK
  PROVE  /\ decoder \in {"safe", "fast"} /\ rule \in Rules /\ decoder \in Decoders
         /\ dest \in Nat /\ dest <= Ring
         /\ enc.pos \in Nat /\ enc.pos <= EncRing
         /\ enc.dictSize \in Nat /\ enc.dictSize <= KB64
         /\ lz4sd.prefixSize \in Nat /\ lz4sd.prefixEnd \in Int /\ lz4sd.prefixEnd >= -1
         /\ lz4sd.externalDict \in Int /\ lz4sd.extDictSize \in Nat
         /\ Ring \in Nat /\ Ring >= MaxBlock
  <1>1. Ring \in Nat /\ Ring >= MaxBlock
    BY RingIs DEF RingTypeOK
  <1>2. RingAddresses \subseteq Int
    BY DEF RingAddresses
  <1>3. lz4sd \in Decoder
    BY DEF RingTypeOK
  <1>4. lz4sd.prefixSize \in Nat /\ lz4sd.extDictSize \in Nat
    BY <1>3 DEF Decoder
  <1>5. lz4sd.prefixEnd \in Null..Ring + KB64 + MaxBlock
    BY <1>3 DEF Decoder
  <1>6. lz4sd.prefixEnd \in Int /\ lz4sd.prefixEnd >= -1
    <2>1. PICK e \in Null..Ring + KB64 + MaxBlock : lz4sd.prefixEnd = e
      BY <1>5
    <2>2. Null = -1
      BY Sizes
    <2>3. e \in Int /\ e >= -1
      BY <1>1, <2>2, Sizes
    <2> QED
      BY <2>1, <2>3
  <1>7. lz4sd.externalDict \in Int
    <2>1. lz4sd.externalDict \in RingAddresses \cup {Null}
      BY <1>3 DEF Decoder
    <2>2. Null \in Int
      BY DEF Null
    <2> QED
      BY <1>2, <2>1, <2>2
  <1>8. dest \in Nat /\ dest <= Ring
    BY <1>1 DEF RingTypeOK
  <1>9. enc.pos \in Nat /\ enc.pos <= EncRing /\ enc.dictSize \in Nat /\ enc.dictSize <= KB64
    BY Sizes DEF RingTypeOK
  <1>10. decoder \in {"safe", "fast"} /\ rule \in Rules /\ decoder \in Decoders
    BY RingsAssumption DEF RingTypeOK
  <1> QED
    BY <1>1, <1>4, <1>6, <1>7, <1>8, <1>9, <1>10

LEMMA RingAddress ==
  ASSUME RingTypeOK, NEW a \in Int, 0 <= a, a < Ring + KB64 + MaxBlock
  PROVE  a \in RingAddresses
  BY RingTypes, Sizes DEF RingAddresses

-----------------------------------------------------------------------------
(* How memory ages.                                                        *)

Ages(d, n) ==
  ringMem' = [a \in RingAddresses |-> IF Aged(a, d, n) <= KB64 THEN Aged(a, d, n) ELSE Lost]

LEMMA AgedBlock ==
  ASSUME RingTypeOK, NEW d \in Int, NEW n \in Nat, Ages(d, n),
         NEW a \in RingAddresses, d <= a, a < d + n
  PROVE  ringMem'[a] = Dist(d + n - a)
  <1>1. a \in Int
    BY RingTypes DEF RingAddresses
  <1>2. Aged(a, d, n) = d + n - a
    BY <1>1 DEF Aged
  <1> QED
    BY <1>2 DEF Ages, Dist

LEMMA AgedBefore ==
  ASSUME RingTypeOK, NEW d \in Int, NEW n \in Nat, Ages(d, n), NEW a \in RingAddresses,
         a \notin Touched(d, n, n), a < d \/ a >= d + n,
         NEW x \in Nat, x > 0, ringMem[a] = Dist(x)
  PROVE  ringMem'[a] = Dist(x + n)
  <1>1. a \in Int /\ KB64 \in Nat /\ Lost = 0
    BY RingTypes, Sizes DEF RingAddresses
  <1>2. a \notin d..d + n - 1
    BY <1>1
  <1>3. CASE x <= KB64
    <2>1. ringMem[a] = x /\ x # Lost
      BY <1>1, <1>3 DEF Dist
    <2>2. Aged(a, d, n) = x + n
      BY <1>2, <2>1 DEF Aged
    <2> QED
      BY <2>2 DEF Ages, Dist
  <1>4. CASE ~(x <= KB64)
    <2>1. ringMem[a] = Lost
      BY <1>4 DEF Dist
    <2>2. Aged(a, d, n) = 0
      BY <1>1, <1>2, <2>1 DEF Aged
    <2>3. ~(x + n <= KB64)
      BY <1>1, <1>4
    <2> QED
      BY <1>1, <2>2, <2>3 DEF Ages, Dist
  <1> QED
    BY <1>3, <1>4

LEMMA AgedType ==
  ASSUME RingTypeOK, NEW d \in Int, NEW n \in Nat, Ages(d, n)
  PROVE  ringMem' \in [RingAddresses -> 0..KB64]
  <1> SUFFICES ASSUME NEW a \in RingAddresses
               PROVE  (IF Aged(a, d, n) <= KB64 THEN Aged(a, d, n) ELSE Lost) \in 0..KB64
    BY DEF Ages
  <1>1. a \in Int /\ KB64 \in Nat /\ Lost = 0 /\ ringMem[a] \in 0..KB64
    BY RingTypes, Sizes DEF RingAddresses, RingTypeOK
  <1>2. Aged(a, d, n) \in Nat
    BY <1>1 DEF Aged
  <1> QED
    BY <1>1, <1>2

(* What a block may have overwritten.                                      *)
TouchedTo(d, n, k, e) ==
  /\ e \in Int /\ Touched(d, n, k) = d..e - 1
  /\ e >= d + k /\ e <= d + MaxBlock
LEMMA TouchedEnd ==
  ASSUME RingTypeOK, NEW d \in Int, NEW n \in 0..MaxBlock, NEW k \in 0..n
  PROVE  \E e \in Int : /\ TouchedTo(d, n, k, e)
                        /\ decoder = "fast" => e = d + k
                        /\ rule \in {"sync", "larger, exact"} => e <= d + n
                        /\ e <= d + k + Overshoot
  <1>1. n \in Nat /\ n <= MaxBlock /\ k \in Nat /\ k <= n /\ Overshoot \in Nat /\ MaxBlock \in Nat
    BY Sizes
  <1>2. CASE decoder = "fast"
    <2>1. Touched(d, n, k) = d..d + k - 1
      BY <1>2 DEF Touched
    <2>2. PICK e \in Int : e = d + k
      BY <1>1
    <2>3. TouchedTo(d, n, k, e)
      BY <1>1, <2>1, <2>2 DEF TouchedTo
    <2>4. e <= d + n /\ e <= d + k + Overshoot
      BY <1>1, <2>2
    <2> QED
      BY <2>2, <2>3, <2>4
  <1>3. CASE decoder # "fast"
    <2> DEFINE exact == rule \in {"sync", "larger, exact"}
    <2>0. Told(n) = IF exact THEN n ELSE MaxBlock
      BY DEF Told
    <2> HIDE DEF exact
    <2>1. Told(n) \in Int /\ n <= Told(n) /\ Told(n) <= MaxBlock /\ (exact => Told(n) <= n)
      BY <1>1, <2>0
    <2>2. PICK t \in Int : t = Told(n)
      BY <2>1
    <2>3. PICK m \in Int : m = MinOf(k + Overshoot, t)
      BY <1>1 DEF MinOf
    <2>4. m >= k /\ m <= t /\ m <= k + Overshoot
      BY <1>1, <2>1, <2>2, <2>3 DEF MinOf
    <2>5. Touched(d, n, k) = d..d + m - 1
      BY <1>3, <2>2, <2>3 DEF Touched
    <2>6. PICK e \in Int : e = d + m
      BY <2>3
    <2>7. TouchedTo(d, n, k, e)
      BY <1>1, <2>1, <2>2, <2>4, <2>5, <2>6 DEF TouchedTo
    <2>8. (exact => e <= d + n) /\ e <= d + k + Overshoot
      BY <1>1, <2>1, <2>2, <2>4, <2>6
    <2> QED
      BY <1>3, <2>7, <2>8 DEF exact
  <1> QED
    BY <1>2, <1>3

LEMMA AheadIs ==
  /\ Ahead \in Nat
  /\ Exposed => Ahead = Overshoot
  /\ ~Exposed => Ahead = 0
  BY Sizes DEF Ahead

TouchedTill(d, n, k, e) ==
  /\ TouchedTo(d, n, k, e)
  /\ e <= d + n + Ahead
  /\ rule = "any" \/ Exposed => e <= d + k + Ahead
LEMMA TouchedInRing ==
  ASSUME RulesKept, RingTypeOK, rule # "save", NEW d \in Int, NEW n \in 0..MaxBlock, NEW k \in 0..n
  PROVE  \E e \in Int : TouchedTill(d, n, k, e)
  <1>1. PICK e \in Int : /\ TouchedTo(d, n, k, e)
                         /\ decoder = "fast" => e = d + k
                         /\ rule \in {"sync", "larger, exact"} => e <= d + n
                         /\ e <= d + k + Overshoot
    BY TouchedEnd
  <1>2. n \in Nat /\ n <= MaxBlock /\ k \in Nat /\ k <= n /\ Overshoot \in Nat
    BY Sizes
  <1>3. decoder = "fast" \/ Exposed \/ rule \in {"sync", "larger, exact"}
    BY RingTypes, RingIs DEF Exposed
  <1>4. CASE decoder = "fast"
    <2>1. decoder # "safe"
      BY <1>4
    <2>2. Ahead = 0
      BY <2>1, AheadIs DEF Exposed
    <2>0. e = d + k
      BY <1>1, <1>4
    <2>3. e <= d + n + Ahead /\ e <= d + k + Ahead
      BY <1>2, <2>0, <2>2
    <2>4. TouchedTill(d, n, k, e)
      BY <1>1, <2>3 DEF TouchedTill
    <2> QED
      BY <2>4
  <1>5. CASE Exposed
    <2>2. Ahead = Overshoot
      BY <1>5, AheadIs
    <2>0. e <= d + k + Overshoot
      BY <1>1
    <2>3. e <= d + n + Ahead /\ e <= d + k + Ahead
      BY <1>2, <2>0, <2>2
    <2>4. TouchedTill(d, n, k, e)
      BY <1>1, <2>3 DEF TouchedTill
    <2> QED
      BY <2>4
  <1>6. CASE rule \in {"sync", "larger, exact"}
    <2>1. rule # "any" /\ ~Exposed
      BY <1>6 DEF Exposed
    <2>2. Ahead = 0
      BY <2>1, AheadIs
    <2>0. e <= d + n
      BY <1>1, <1>6
    <2>3. e <= d + n + Ahead
      BY <1>2, <2>0, <2>2
    <2>4. TouchedTill(d, n, k, e)
      BY <1>1, <2>1, <2>3 DEF TouchedTill
    <2> QED
      BY <2>4
  <1> QED
    BY <1>3, <1>4, <1>5, <1>6

-----------------------------------------------------------------------------
(* Where the next block goes, in a ring.                                   *)

HereIn(d) == /\ d \in Nat /\ d + MaxBlock <= Ring
             /\ Here(d) /\ Runs(d)
             /\ d # dest => d = 0 /\ Before(d) = dest /\ dest > Ring - MaxBlock

LEMMA DestsOne ==
  ASSUME RingTypeOK, rule # "save", NEW d \in Dests
  PROVE  d \in Nat /\ d + MaxBlock <= Ring /\ (d # dest => d = 0 /\ NearEnd(dest))
  <1>1. d = IF Wraps(dest, Ring) THEN 0 ELSE dest
    BY DEF Dests
  <1>2. dest \in Nat /\ dest <= Ring /\ Ring \in Nat /\ Ring >= MaxBlock /\ MaxBlock \in Nat
    BY RingTypes, Sizes
  <1>3. CASE Ring - dest < MaxBlock
    <2>1. d = 0
      BY <1>1, <1>3 DEF Wraps
    <2> QED
      BY <1>2, <1>3, <2>1 DEF NearEnd
  <1>4. CASE ~(Ring - dest < MaxBlock)
    <2>1. d = dest
      BY <1>1, <1>4 DEF Wraps
    <2> QED
      BY <1>2, <1>4, <2>1
  <1> QED
    BY <1>3, <1>4

LEMMA DestsHere ==
  ASSUME RingTypeOK, InRing, rule # "save", NEW d \in Dests
  PROVE  HereIn(d)
  <1>1. d \in Nat /\ d + MaxBlock <= Ring /\ (d # dest => d = 0 /\ NearEnd(dest))
    BY DestsOne
  <1>2. Here(dest) /\ Runs(dest)
    BY DEF InRing
  <1>3. CASE d = dest
    BY <1>1, <1>2, <1>3 DEF HereIn
  <1>4. CASE d # dest
    <2>1. d = 0 /\ NearEnd(dest) /\ dest > 0 /\ dest \in Nat
      BY <1>1, <1>4, RingTypes
    <2>2. GoingOn(dest)
      BY <1>2, <2>1 DEF Here, Fresh, SentBack
    <2>3. lz4sd.prefixSize = dest /\ lz4sd.prefixEnd = dest
      BY <2>2 DEF GoingOn
    <2>4. SentBack(d)
      BY <2>1, <2>3 DEF SentBack
    <2>5. Before(d) = dest
      BY <2>1, <2>3 DEF Before
    <2>6. Runs(d)
      <3>1. \A a \in 0..d - 1 : ringMem[a] = Dist(d - a)
        BY <2>1
      <3>2. ASSUME NEW a \in d + Ahead..Before(d) - 1
            PROVE  ringMem[a] = Dist(d + Before(d) - a)
        <4>1. a \in Int /\ a >= 0 /\ a <= dest - 1
          BY <2>1, <2>5, AheadIs
        <4>2. ringMem[a] = Dist(dest - a)
          BY <1>2, <4>1, <2>1 DEF Runs
        <4>3. d + Before(d) - a = dest - a
          BY <2>1, <2>5, <4>1
        <4> QED
          BY <4>2, <4>3
      <3> QED
        BY <3>1, <3>2 DEF Runs
    <2>7. dest > Ring - MaxBlock
      BY <2>1 DEF NearEnd
    <2> QED
      BY <1>1, <2>1, <2>4, <2>5, <2>6, <2>7 DEF HereIn, Here
  <1> QED
    BY <1>3, <1>4

(* What the source has: never more than before the block and the block.   *)
LEMMA EncodedIs ==
  ASSUME RingTypeOK, NEW n \in 0..MaxBlock, enc' = Encoded(n)
  PROVE  /\ enc' \in [pos : 0..EncRing, dictSize : 0..KB64]
         /\ enc'.dictSize <= enc.dictSize + n
         /\ AnySource => enc'.dictSize = MinOf(enc.dictSize + n, KB64)
         /\ ~AnySource /\ enc.dictSize <= enc.pos => enc'.dictSize <= enc'.pos
         /\ ~AnySource => enc'.pos = IF Wraps(enc.pos, EncRing) THEN n ELSE enc.pos + n
  <1>1. /\ n \in Nat /\ n <= MaxBlock /\ MaxBlock \in Nat /\ KB64 \in Nat /\ EncRing \in Nat
        /\ EncRing >= MaxBlock
    BY Sizes
  <1>2. enc.pos \in Nat /\ enc.pos <= EncRing /\ enc.dictSize \in Nat /\ enc.dictSize <= KB64
    BY RingTypes
  <1>3. PICK s \in Nat : s = MinOf(enc.dictSize + n, KB64) /\ s <= KB64 /\ s <= enc.dictSize + n
    BY <1>1, <1>2 DEF MinOf
  <1>4. PICK t \in Nat : t = MinOf(n, KB64) /\ t <= KB64 /\ t <= n
    BY <1>1 DEF MinOf
  <1>5. CASE AnySource
    <2>1. enc' = [pos |-> 0, dictSize |-> s]
      BY <1>3, <1>5 DEF Encoded
    <2> QED
      BY <1>1, <1>3, <1>5, <2>1
  <1>6. CASE ~AnySource /\ Wraps(enc.pos, EncRing)
    <2>1. enc' = [pos |-> n, dictSize |-> t]
      BY <1>4, <1>6 DEF Encoded
    <2> QED
      BY <1>1, <1>2, <1>4, <1>6, <2>1
  <1>7. CASE ~AnySource /\ ~Wraps(enc.pos, EncRing)
    <2>1. enc' = [pos |-> enc.pos + n, dictSize |-> s]
      BY <1>3, <1>7 DEF Encoded
    <2>2. enc.pos + n <= EncRing
      BY <1>1, <1>2, <1>7 DEF Wraps
    <2> QED
      BY <1>1, <1>2, <1>3, <1>7, <2>1, <2>2
  <1> QED
    BY <1>5, <1>6, <1>7

-----------------------------------------------------------------------------
(* A block decoded in a ring.                                              *)

LEMMA StaysSame ==
  ASSUME UNCHANGED <<rule, decoder>>
  PROVE  /\ Ring' = Ring /\ Safe' = Safe /\ Ahead' = Ahead /\ RingAddresses' = RingAddresses
         /\ AnySource' = AnySource /\ \A n : NearEnd(n)' = NearEnd(n)
  BY DEF Ring, Safe, Ahead, Exposed, RingAddresses, AnySource, NearEnd

Remembered(size, end, ext, extSize) ==
  [prefixSize |-> size, prefixEnd |-> end, externalDict |-> ext, extDictSize |-> extSize]
LEMMA TurnedIs ==
  ASSUME NEW sd, NEW size, NEW end, NEW ext, NEW extSize, sd = Remembered(size, end, ext, extSize)
  PROVE  Turned(sd) = Remembered(size, end, end - size, size)
  <1>1. sd.prefixSize = size /\ sd.prefixEnd = end
    BY DEF Remembered
  <1>2. [sd EXCEPT !.extDictSize = size] = Remembered(size, end, ext, size)
    BY DEF Remembered
  <1>3. [Remembered(size, end, ext, size) EXCEPT !.externalDict = end - size] =
          Remembered(size, end, end - size, size)
    BY DEF Remembered
  <1> QED
    BY <1>1, <1>2, <1>3 DEF Turned

(* The prefix that Continued leaves. *)
Grown(sd, size, end) == [sd EXCEPT !.prefixSize = size, !.prefixEnd = end]
LEMMA GrownIs ==
  ASSUME NEW sd, NEW size, NEW end, NEW ext, NEW extSize, sd = Remembered(size, end, ext, extSize),
         NEW size2, NEW end2
  PROVE  Grown(sd, size2, end2) = Remembered(size2, end2, ext, extSize)
  <1>1. [sd EXCEPT !.prefixSize = size2] = Remembered(size2, end, ext, extSize)
    BY DEF Remembered
  <1>2. [Remembered(size2, end, ext, extSize) EXCEPT !.prefixEnd = end2] =
          Remembered(size2, end2, ext, extSize)
    BY DEF Remembered
  <1> QED
    BY <1>1, <1>2 DEF Grown

LEMMA ContinuedAt ==
  ASSUME RingTypeOK, NEW d \in Nat, NEW n \in Nat, lz4sd' = Continued(lz4sd, d, n),
         n = 0 => decoder = "safe"
  PROVE  /\ n = 0 /\ (lz4sd.prefixSize = 0 \/ lz4sd.prefixEnd = d) => lz4sd' = lz4sd
         /\ n = 0 /\ lz4sd.prefixSize # 0 /\ lz4sd.prefixEnd # d =>
              lz4sd' = [prefixSize |-> lz4sd.prefixSize, prefixEnd |-> lz4sd.prefixEnd,
                        externalDict |-> lz4sd.prefixEnd - lz4sd.prefixSize,
                        extDictSize |-> lz4sd.prefixSize]
         /\ n # 0 /\ lz4sd.prefixEnd = d =>
              lz4sd' = [prefixSize |-> lz4sd.prefixSize + n, prefixEnd |-> d + n,
                        externalDict |-> lz4sd.externalDict, extDictSize |-> lz4sd.extDictSize]
         /\ n # 0 /\ lz4sd.prefixEnd # d /\ lz4sd.prefixSize = 0 =>
              lz4sd' = [prefixSize |-> n, prefixEnd |-> d + n,
                        externalDict |-> lz4sd.externalDict, extDictSize |-> lz4sd.extDictSize]
         /\ n # 0 /\ lz4sd.prefixEnd # d /\ lz4sd.prefixSize # 0 =>
              lz4sd' = [prefixSize |-> n, prefixEnd |-> d + n,
                        externalDict |-> lz4sd.prefixEnd - lz4sd.prefixSize,
                        extDictSize |-> lz4sd.prefixSize]
  <1> DEFINE size == lz4sd.prefixSize  end == lz4sd.prefixEnd
             ext == lz4sd.externalDict  extSize == lz4sd.extDictSize
  <1>1. lz4sd = Remembered(size, end, ext, extSize)
    BY DEF RingTypeOK, Decoder, Remembered
  <1>2. Turned(lz4sd) = Remembered(size, end, end - size, size)
    <2> HIDE DEF size, end, ext, extSize
    <2> QED
      BY <1>1, TurnedIs
  <1>3. 0 + n = n
    OBVIOUS
  <1>4. CASE n = 0 /\ (size = 0 \/ end = d)
    BY <1>4 DEF Continued
  <1>5. CASE n = 0 /\ size # 0 /\ end # d
    <2>1. lz4sd' = Turned(lz4sd)
      BY <1>5 DEF Continued
    <2> QED
      BY <1>2, <1>5, <2>1 DEF Remembered
  <1>6. CASE n # 0 /\ end = d
    <2>1. lz4sd' = Grown(lz4sd, size + n, d + n)
      BY <1>6 DEF Continued, Grown
    <2>2. lz4sd' = Remembered(size + n, d + n, ext, extSize)
      <3> HIDE DEF size, end, ext, extSize
      <3> QED
        BY <1>1, <2>1, GrownIs
    <2> QED
      BY <1>6, <2>2 DEF Remembered
  <1>7. CASE n # 0 /\ end # d /\ size = 0
    <2>1. lz4sd' = Grown(lz4sd, n, d + n)
      BY <1>3, <1>7 DEF Continued, Grown
    <2>2. lz4sd' = Remembered(n, d + n, ext, extSize)
      <3> HIDE DEF size, end, ext, extSize
      <3> QED
        BY <1>1, <2>1, GrownIs
    <2> QED
      BY <1>7, <2>2 DEF Remembered
  <1>8. CASE n # 0 /\ end # d /\ size # 0
    <2>1. lz4sd' = Grown(Turned(lz4sd), n, d + n)
      BY <1>3, <1>8 DEF Continued, Grown
    <2>2. lz4sd' = Remembered(n, d + n, end - size, size)
      <3> HIDE DEF size, end, ext, extSize
      <3> QED
        BY <1>2, <2>1, GrownIs
    <2> QED
      BY <1>8, <2>2 DEF Remembered
  <1> QED
    BY <1>4, <1>5, <1>6, <1>7, <1>8

(* A block of n bytes at d moves the end of the run; what is before it     *)
(* stays.                                                                  *)
LEMMA HereMoves ==
  ASSUME RingTypeOK, rule # "save", NEW d \in Nat, NEW n \in 0..MaxBlock, HereIn(d),
         n = 0 => decoder = "safe",
         lz4sd' = Continued(lz4sd, d, n), enc' = Encoded(n), UNCHANGED <<rule, decoder>>
  PROVE  Here(d + n)' /\ Before(d + n)' = Before(d)
  <1>1. PICK e \in Int : e = d + n
    OBVIOUS
  <1>2. /\ n \in Nat /\ lz4sd.prefixSize \in Nat /\ lz4sd.prefixEnd \in Int
        /\ lz4sd.extDictSize \in Nat /\ lz4sd.externalDict \in Int
        /\ Ring \in Nat /\ Ring >= MaxBlock /\ MaxBlock \in Nat
    BY RingTypes, Sizes
  <1>3. /\ enc'.dictSize \in Nat /\ enc'.dictSize <= enc.dictSize + n /\ enc.dictSize \in Nat
    BY EncodedIs, RingTypes, Sizes
  <1>4. \A m : NearEnd(m)' = NearEnd(m)
    BY StaysSame
  <1>5. CASE Fresh(d)
    <2>1. /\ lz4sd.prefixSize = 0 /\ lz4sd.prefixEnd = -1 /\ lz4sd.extDictSize = 0
          /\ lz4sd = NoStream /\ d = 0 /\ enc.dictSize = 0
      BY <1>5, Sizes DEF Fresh, NoStream
    <2>2. CASE n = 0
      <3>1. lz4sd' = lz4sd
        BY <2>1, <2>2, ContinuedAt
      <3>2. Fresh(e)'
        BY <1>1, <1>3, <2>1, <2>2, <3>1 DEF Fresh
      <3>3. Before(e)' = Before(d)
        BY <1>1, <2>1, <2>2, <3>1 DEF Before
      <3> QED
        BY <1>1, <3>2, <3>3 DEF Here
    <2>3. CASE n # 0
      <3>1. /\ lz4sd'.prefixSize = n /\ lz4sd'.prefixEnd = d + n /\ lz4sd'.extDictSize = 0
        BY <1>2, <2>1, <2>3, ContinuedAt
      <3>2. GoingOn(e)'
        BY <1>1, <1>2, <1>3, <2>1, <2>3, <3>1 DEF GoingOn
      <3>3. Before(e)' = 0 /\ Before(d) = 0
        BY <1>1, <2>1, <3>1 DEF Before
      <3> QED
        BY <1>1, <3>2, <3>3 DEF Here
    <2> QED
      BY <2>2, <2>3
  <1>6. CASE GoingOn(d)
    <2>1. /\ lz4sd.prefixSize = d /\ lz4sd.prefixEnd = d /\ d > 0
          /\ \/ lz4sd.extDictSize = 0 /\ enc.dictSize <= d
             \/ lz4sd.externalDict = 0 /\ NearEnd(lz4sd.extDictSize)
      BY <1>6 DEF GoingOn
    <2>2. /\ lz4sd'.prefixSize = d + n /\ lz4sd'.prefixEnd = d + n
          /\ lz4sd'.extDictSize = lz4sd.extDictSize /\ lz4sd'.externalDict = lz4sd.externalDict
      <3>1. CASE n = 0
        <4>1. lz4sd' = lz4sd
          BY <2>1, <3>1, ContinuedAt
        <4> QED
          BY <2>1, <3>1, <4>1
      <3>2. CASE n # 0
        BY <1>2, <2>1, <3>2, ContinuedAt
      <3> QED
        BY <3>1, <3>2
    <2>3. lz4sd.extDictSize = 0 /\ enc.dictSize <= d => lz4sd'.extDictSize = 0 /\ enc'.dictSize <= e
      BY <1>1, <1>2, <1>3, <2>2
    <2>4. lz4sd.externalDict = 0 /\ NearEnd(lz4sd.extDictSize) =>
            lz4sd'.externalDict = 0 /\ NearEnd(lz4sd.extDictSize)'
      BY <2>2 DEF NearEnd, Ring
    <2>5. GoingOn(e)'
      <3>1. e > 0 /\ lz4sd'.prefixSize = e /\ lz4sd'.prefixEnd = e
        BY <1>1, <1>2, <2>1, <2>2
      <3> QED
        BY <1>4, <2>1, <2>2, <2>3, <3>1 DEF GoingOn, NearEnd
    <2>6. Before(e)' = Before(d)
      BY <1>1, <2>1, <2>2 DEF Before
    <2> QED
      BY <1>1, <2>5, <2>6 DEF Here
  <1>7. CASE SentBack(d)
    <2>1. /\ lz4sd.prefixSize = lz4sd.prefixEnd /\ NearEnd(lz4sd.prefixSize) /\ d = 0
      BY <1>7 DEF SentBack
    <2>2. lz4sd.prefixSize > 0
      BY <1>2, <2>1 DEF NearEnd
    <2>3. Before(d) = lz4sd.prefixSize
      BY <2>1, <2>2 DEF Before
    <2>4. lz4sd.prefixEnd - lz4sd.prefixSize = 0
      BY <1>2, <2>1
    <2>5. CASE n = 0
      <3>1. lz4sd'.prefixSize = lz4sd.prefixSize /\ lz4sd'.prefixEnd = lz4sd.prefixEnd
        BY <2>1, <2>2, <2>5, ContinuedAt
      <3>2. SentBack(e)'
        BY <1>1, <2>1, <2>5, <3>1, StaysSame DEF SentBack, NearEnd
      <3>3. Before(e)' = lz4sd.prefixSize
        BY <1>1, <2>1, <2>2, <2>5, <3>1 DEF Before
      <3> QED
        BY <1>1, <2>3, <3>2, <3>3 DEF Here
    <2>6. CASE n # 0
      <3>1. /\ lz4sd'.prefixSize = n /\ lz4sd'.prefixEnd = d + n
            /\ lz4sd'.externalDict = lz4sd.prefixEnd - lz4sd.prefixSize
            /\ lz4sd'.extDictSize = lz4sd.prefixSize
        BY <2>1, <2>2, <2>6, ContinuedAt
      <3>2. GoingOn(e)'
        <4>1. e > 0 /\ lz4sd'.prefixSize = e /\ lz4sd'.prefixEnd = e /\ lz4sd'.externalDict = 0
          BY <1>1, <1>2, <2>1, <2>4, <2>6, <3>1
        <4> QED
          BY <1>4, <2>1, <3>1, <4>1 DEF GoingOn, NearEnd, Ring
      <3>3. Before(e)' = lz4sd.prefixSize
        BY <1>1, <3>1 DEF Before
      <3> QED
        BY <1>1, <2>3, <3>2, <3>3 DEF Here
    <2> QED
      BY <2>5, <2>6
  <1> QED
    BY <1>5, <1>6, <1>7 DEF HereIn, Here

LEMMA BeforeIs ==
  ASSUME RingTypeOK, NEW d \in Nat, Here(d)
  PROVE  Before(d) \in Nat /\ Before(d) <= Ring /\ (Before(d) = 0 \/ Before(d) > Ring - MaxBlock)
  <1>1. lz4sd.prefixSize \in Nat /\ lz4sd.extDictSize \in Nat /\ Ring \in Nat
    BY RingTypes
  <1>2. CASE Fresh(d)
    <2>1. Before(d) = 0
      BY <1>2 DEF Fresh, Before, NoStream
    <2> QED
      BY <1>1, <2>1
  <1>3. CASE GoingOn(d)
    <2>1. Before(d) = lz4sd.extDictSize
      BY <1>3 DEF GoingOn, Before
    <2> QED
      BY <1>1, <1>3, <2>1 DEF GoingOn, NearEnd
  <1>4. CASE SentBack(d)
    <2>1. lz4sd.prefixSize > 0
      BY <1>1, <1>4, RingTypes, Sizes DEF SentBack, NearEnd
    <2>2. Before(d) = lz4sd.prefixSize
      BY <1>4, <2>1 DEF SentBack, Before
    <2> QED
      BY <1>1, <1>4, <2>2 DEF SentBack, NearEnd
  <1> QED
    BY <1>2, <1>3, <1>4 DEF Here

LEMMA RunsMove ==
  ASSUME RulesKept, RingTypeOK, rule # "save", NEW d \in Nat, NEW n \in 0..MaxBlock, HereIn(d),
         Ages(d, n), Before(d + n)' = Before(d), UNCHANGED <<rule, decoder>>
  PROVE  Runs(d + n)'
  <1>1. PICK e \in Int : e = d + n
    OBVIOUS
  <1>2. PICK b \in Int : b = Before(d) /\ b >= 0 /\ b <= Ring
    BY BeforeIs DEF HereIn
  <1>3. /\ n \in Nat /\ n <= MaxBlock /\ d + MaxBlock <= Ring /\ Ring \in Nat /\ MaxBlock \in Nat
        /\ KB64 \in Nat
    BY RingTypes, Sizes DEF HereIn
  <1>4. PICK t \in Int : TouchedTill(d, n, n, t)
    <2>1. n \in 0..n
      BY <1>3
    <2> QED
      BY <2>1, TouchedInRing
  <1>5. Touched(d, n, n) = d..t - 1 /\ t <= d + n + Ahead
    BY <1>4 DEF TouchedTill, TouchedTo
  <1>6. Ahead \in Nat /\ Ahead' = Ahead
    BY AheadIs, StaysSame
  <1>7. Runs(d)
    BY DEF HereIn
  <1>8. ASSUME NEW a \in 0..e - 1
        PROVE  ringMem'[a] = Dist(e - a)
    <2>1. a \in RingAddresses /\ a \in Int /\ a >= 0 /\ a < e
      BY <1>1, <1>3, RingAddress
    <2>2. CASE a >= d
      BY <1>1, <1>3, <2>1, <2>2, AgedBlock
    <2>3. CASE a < d
      <3>1. PICK x \in Nat : x = d - a /\ x > 0
        BY <2>1, <2>3
      <3>2. ringMem[a] = Dist(x)
        BY <1>7, <2>1, <2>3, <3>1 DEF Runs
      <3>3. a \notin Touched(d, n, n)
        BY <1>5, <2>1, <2>3
      <3>4. ringMem'[a] = Dist(x + n)
        BY <1>3, <2>1, <2>3, <3>1, <3>2, <3>3, AgedBefore
      <3>5. x + n = e - a
        BY <1>1, <1>3, <2>1, <3>1
      <3> QED
        BY <3>4, <3>5
    <2> QED
      BY <2>1, <2>2, <2>3
  <1>9. ASSUME NEW a \in e + Ahead..b - 1
        PROVE  ringMem'[a] = Dist(e + b - a)
    <2>1. a \in RingAddresses /\ a \in Int /\ a >= d + n + Ahead /\ a < b
      BY <1>1, <1>2, <1>3, <1>6, RingAddress
    <2>2. PICK x \in Nat : x = d + b - a /\ x > 0
      BY <1>2, <1>3, <2>1
    <2>3. ringMem[a] = Dist(x)
      <3>1. a \in d + Ahead..b - 1
        BY <1>2, <1>3, <1>6, <2>1
      <3> QED
        BY <1>2, <1>7, <2>2, <3>1 DEF Runs
    <2>4. a \notin Touched(d, n, n)
      BY <1>3, <1>5, <1>6, <2>1
    <2>5. a >= d + n
      BY <1>3, <1>6, <2>1
    <2>6. ringMem'[a] = Dist(x + n)
      BY <1>3, <2>1, <2>2, <2>3, <2>4, <2>5, AgedBefore
    <2>7. x + n = e + b - a
      BY <1>1, <1>2, <1>3, <2>1, <2>2
    <2> QED
      BY <2>6, <2>7
  <1>10. \A x : Dist(x)' = Dist(x)
    BY DEF Dist, Lost
  <1>11. Runs(e)'
    BY <1>1, <1>2, <1>6, <1>8, <1>9 DEF Runs, Dist, Lost
  <1> QED
    BY <1>1, <1>11

(* The source stays in step. *)
LEMMA SourceMoves ==
  ASSUME RingTypeOK, rule # "save", Source, NEW d \in Dests, NEW n \in 0..MaxBlock,
         enc' = Encoded(n), dest' = d + n, UNCHANGED rule
  PROVE  Source'
  <1>1. AnySource' = AnySource
    BY DEF AnySource
  <1>2. ~AnySource => enc'.dictSize <= enc'.pos
    BY EncodedIs DEF Source
  <1>3. ASSUME rule = "sync" PROVE enc'.pos = dest'
    <2>1. ~AnySource /\ enc.pos = dest /\ Ring = EncRing
      BY <1>3, RingIs DEF AnySource, Source, RingTypeOK
    <2>2. d = IF Wraps(dest, Ring) THEN 0 ELSE dest
      BY DEF Dests
    <2>3. d + n = IF Wraps(enc.pos, EncRing) THEN n ELSE enc.pos + n
      BY <2>1, <2>2
    <2> QED
      BY <2>1, <2>3, EncodedIs
  <1> QED
    BY <1>1, <1>2, <1>3 DEF Source

(* The types of what a block leaves behind, wherever it goes.              *)
LEMMA DecoderTyped ==
  ASSUME RingTypeOK, NEW d \in Nat, NEW n \in 0..MaxBlock, n = 0 => decoder = "safe",
         lz4sd' = Continued(lz4sd, d, n), UNCHANGED <<rule, decoder>>,
         d + n <= Ring + KB64 + MaxBlock,
         lz4sd.prefixSize # 0 /\ lz4sd.prefixEnd # d =>
           lz4sd.prefixEnd - lz4sd.prefixSize \in RingAddresses
  PROVE  lz4sd' \in Decoder'
  <1>1. /\ n \in Nat /\ MaxBlock \in Nat /\ KB64 \in Nat /\ Ring \in Nat /\ Null = -1
        /\ lz4sd.prefixSize \in Nat /\ lz4sd.extDictSize \in Nat
    BY RingTypes, Sizes
  <1>2. Decoder' = Decoder
    BY StaysSame DEF Decoder
  <1>3. lz4sd \in Decoder
    BY DEF RingTypeOK
  <1>4. /\ lz4sd.externalDict \in RingAddresses \cup {Null}
        /\ lz4sd.prefixEnd \in Null..Ring + KB64 + MaxBlock
    BY <1>3 DEF Decoder
  <1>5. d + n \in Null..Ring + KB64 + MaxBlock
    BY <1>1
  <1>6. CASE n = 0
    <2>1. CASE lz4sd.prefixSize = 0 \/ lz4sd.prefixEnd = d
      <3>1. lz4sd' = lz4sd
        BY <1>1, <1>6, <2>1, ContinuedAt
      <3> QED
        BY <1>2, <1>3, <3>1
    <2>2. CASE ~(lz4sd.prefixSize = 0 \/ lz4sd.prefixEnd = d)
      <3>1. lz4sd' = [prefixSize |-> lz4sd.prefixSize, prefixEnd |-> lz4sd.prefixEnd,
                      externalDict |-> lz4sd.prefixEnd - lz4sd.prefixSize,
                      extDictSize |-> lz4sd.prefixSize]
        BY <1>1, <1>6, <2>2, ContinuedAt
      <3> QED
        BY <1>1, <1>2, <1>4, <2>2, <3>1 DEF Decoder
    <2> QED
      BY <2>1, <2>2
  <1>7. CASE n # 0
    <2>1. PICK s \in Nat, x \in RingAddresses \cup {Null}, y \in Nat :
            lz4sd' = [prefixSize |-> s, prefixEnd |-> d + n, externalDict |-> x, extDictSize |-> y]
      <3>1. CASE lz4sd.prefixEnd = d
        <4>1. lz4sd.prefixSize + n \in Nat
          BY <1>1
        <4> QED
          BY <1>1, <1>4, <1>7, <3>1, <4>1, ContinuedAt
      <3>2. CASE lz4sd.prefixEnd # d /\ lz4sd.prefixSize = 0
        BY <1>1, <1>4, <1>7, <3>2, ContinuedAt
      <3>3. CASE lz4sd.prefixEnd # d /\ lz4sd.prefixSize # 0
        BY <1>1, <1>4, <1>7, <3>3, ContinuedAt
      <3> QED
        BY <3>1, <3>2, <3>3
    <2> QED
      BY <1>2, <1>5, <2>1 DEF Decoder
  <1> QED
    BY <1>6, <1>7

LEMMA RefusedTyped ==
  ASSUME RingTypeOK, UNCHANGED <<rule, decoder>>,
         lz4sd' = NoStream, dest' = 0, enc' = [pos |-> 0, dictSize |-> 0],
         ringMem' = [a \in RingAddresses |-> Lost]
  PROVE  RingTypeOK'
  <1>1. /\ MaxBlock \in Nat /\ KB64 \in Nat /\ Ring \in Nat /\ Null = -1 /\ EncRing \in Nat
        /\ Lost = 0
    BY RingTypes, Sizes
  <1>2. Decoder' = Decoder /\ Ring' = Ring /\ RingAddresses' = RingAddresses
    BY StaysSame DEF Decoder
  <1>3. lz4sd' \in Decoder'
    <2>1. Null \in Null..Ring + KB64 + MaxBlock
      BY <1>1
    <2> QED
      BY <1>2, <2>1 DEF Decoder, NoStream
  <1>4. dest' \in 0..Ring /\ enc' \in [pos : 0..EncRing, dictSize : 0..KB64]
    BY <1>1
  <1>5. ringMem' \in [RingAddresses -> 0..KB64]
    BY <1>1
  <1>6. rule' \in Rules /\ decoder' \in Decoders
    BY DEF RingTypeOK
  <1> QED
    BY <1>2, <1>3, <1>4, <1>5, <1>6 DEF RingTypeOK

(* One block in a ring, decoded or refused. *)
DecodedTo(d, n) ==
  /\ lz4sd' = Continued(lz4sd, d, n) /\ enc' = Encoded(n)
  /\ dest' = (IF d < Safe THEN d + n ELSE dest) /\ Ages(d, n)
  /\ UNCHANGED <<rule, decoder>>
Refused ==
  /\ lz4sd' = NoStream /\ dest' = 0 /\ enc' = [pos |-> 0, dictSize |-> 0]
  /\ ringMem' = [a \in RingAddresses |-> Lost] /\ UNCHANGED <<rule, decoder>>

LEMMA DecodeIs ==
  ASSUME NEW d, NEW n, Decode(d, n)
  PROVE  DecodedTo(d, n) \/ Refused
  BY DEF Decode, DecodedTo, Refused, Ages

LEMMA RefusedInv ==
  ASSUME RingTypeOK, Refused
  PROVE  RingInv'
  <1>1. RingTypeOK'
    BY RefusedTyped DEF Refused
  <1>2. lz4sd' = NoStream /\ dest' = 0 /\ enc'.dictSize = 0 /\ enc'.pos = 0
    BY DEF Refused
  <1>3. Fresh(dest)'
    BY <1>2 DEF Fresh
  <1>4. Before(dest)' = 0
    BY <1>2, Sizes DEF Before, NoStream
  <1>5. Ahead' \in Nat
    BY AheadIs, StaysSame DEF Refused
  <1>6. Runs(dest)'
    <2>1. \A a \in 0..dest' - 1 : FALSE
      BY <1>2
    <2>2. \A a \in dest' + Ahead'..Before(dest)' - 1 : FALSE
      <3>1. PICK h \in Nat : h = Ahead'
        BY <1>5
      <3>2. PICK b \in Int : b = Before(dest)' /\ b = 0
        BY <1>4
      <3>3. PICK z \in Int : z = dest' /\ z = 0
        BY <1>2
      <3>4. \A a \in z + h..b - 1 : FALSE
        BY <3>2, <3>3
      <3> QED
        BY <3>1, <3>2, <3>3, <3>4
    <2> QED
      BY <2>1, <2>2 DEF Runs
  <1>7. Source'
    BY <1>2 DEF Source
  <1>8. InRing'
    BY <1>3, <1>6, <1>7 DEF InRing, Here
  <1>9. InSafe'
    BY <1>2 DEF InSafe
  <1> QED
    BY <1>1, <1>8, <1>9 DEF RingInv

LEMMA RingDecode ==
  ASSUME RulesKept, RingInv, rule # "save", NEW d \in Dests, NEW n \in 0..MaxBlock,
         n = 0 => decoder = "safe", DecodedTo(d, n)
  PROVE  RingInv'
  <1>1. RingTypeOK /\ InRing /\ HereIn(d) /\ Source
    BY DestsHere DEF RingInv, InRing
  <1>2. d \in Nat /\ d + MaxBlock <= Ring
    BY <1>1 DEF HereIn
  <1>3. /\ n \in Nat /\ n <= MaxBlock /\ MaxBlock \in Nat /\ MaxBlock > 0 /\ KB64 \in Nat
        /\ Ring \in Nat /\ Safe = Ring
    BY <1>1, RingTypes, Sizes DEF Safe
  <1>4. dest' = d + n /\ dest' \in 0..Ring
    <2>1. dest' = IF d < Ring THEN d + n ELSE dest
      BY <1>3 DEF DecodedTo
    <2>2. d < Ring /\ d + n \in 0..Ring
      BY <1>2, <1>3
    <2> QED
      BY <2>1, <2>2
  <1>5. Here(d + n)' /\ Before(d + n)' = Before(d)
    BY <1>1, <1>2, HereMoves DEF DecodedTo
  <1>6. Runs(d + n)'
    BY <1>1, <1>2, <1>5, RunsMove DEF DecodedTo
  <1>7. Source'
    BY <1>1, <1>4, SourceMoves DEF DecodedTo
  <1>8. lz4sd' \in Decoder'
    <2>1. ASSUME lz4sd.prefixSize # 0, lz4sd.prefixEnd # d
          PROVE  lz4sd.prefixEnd - lz4sd.prefixSize \in RingAddresses
      <3>1. lz4sd.prefixSize = lz4sd.prefixEnd
        BY <1>1, <2>1 DEF HereIn, Here, Fresh, GoingOn, SentBack, NoStream
      <3>2. lz4sd.prefixEnd - lz4sd.prefixSize = 0
        BY <1>1, <3>1, RingTypes
      <3>3. 0 \in RingAddresses
        BY <1>1, <1>3, RingAddress
      <3> QED
        BY <3>2, <3>3
    <2>2. d + n <= Ring + KB64 + MaxBlock
      BY <1>2, <1>3
    <2> QED
      BY <1>1, <1>2, <2>1, <2>2, DecoderTyped DEF DecodedTo
  <1>9. RingTypeOK'
    <2>1. Ring' = Ring /\ RingAddresses' = RingAddresses /\ rule' \in Rules /\ decoder' \in Decoders
      BY <1>1, StaysSame DEF DecodedTo, RingTypeOK
    <2>2. enc' \in [pos : 0..EncRing, dictSize : 0..KB64]
      BY <1>1, EncodedIs DEF DecodedTo
    <2>3. ringMem' \in [RingAddresses -> 0..KB64]
      BY <1>1, <1>2, <1>3, AgedType DEF DecodedTo
    <2> QED
      BY <1>4, <1>8, <2>1, <2>2, <2>3 DEF RingTypeOK
  <1>10. InRing'
    <2>1. Here(dest)' /\ Runs(dest)'
      BY <1>4, <1>5, <1>6 DEF Here, Fresh, GoingOn, SentBack, Runs, Before
    <2> QED
      BY <1>7, <2>1 DEF InRing
  <1>11. InSafe'
    BY DEF InSafe, DecodedTo
  <1> QED
    BY <1>9, <1>10, <1>11 DEF RingInv

-----------------------------------------------------------------------------
(* What a call looks back at.                                              *)

BackBy(distance, k, b) == b = distance - k /\ b > 0 /\ b <= KB64 - 1
Sees(view, prefix, ext, extSize) == view = Looks(prefix, ext, extSize)
WhereIs(view, prefix, ext, extSize, d, k, distance, b) ==
  /\ b <= prefix => Where(view, d, k, distance) = {d - b}
  /\ b > prefix /\ b - prefix <= extSize =>
       Where(view, d, k, distance) = {ext + extSize - (b - prefix)}
LEMMA LooksFind ==
  ASSUME NEW prefix \in Nat, NEW ext \in Int, NEW extSize \in Nat,
         NEW d \in Nat, NEW k \in Nat, NEW distance \in Int, NEW b \in Int, BackBy(distance, k, b),
         NEW view, Sees(view, prefix, ext, extSize)
  PROVE  WhereIs(view, prefix, ext, extSize, d, k, distance, b)
  <1> SUFFICES /\ b <= prefix => Where(view, d, k, distance) = {d - b}
               /\ b > prefix /\ b - prefix <= extSize =>
                    Where(view, d, k, distance) = {ext + extSize - (b - prefix)}
    BY DEF WhereIs
  <1>1. /\ KB64 \in Nat /\ d + k - distance = d - b /\ b = distance - k /\ b > 0
        /\ b <= KB64 - 1
    BY Sizes DEF BackBy
  <1>2. CASE decoder = "safe" /\ prefix >= KB64 - 1
    <2>1. view = [prefix |-> KB64, ext |-> Null, extSize |-> 0]
      BY <1>2 DEF Looks, Sees
    <2>2. distance - k - view.prefix <= 0
      BY <1>1, <2>1
    <2>3. Where(view, d, k, distance) = {d + k - distance}
      BY <2>2 DEF Where
    <2>4. ~(b > prefix)
      BY <1>1, <1>2
    <2> QED
      BY <1>1, <2>3, <2>4
  <1>3. CASE ~(decoder = "safe" /\ prefix >= KB64 - 1)
    <2>1. view = [prefix |-> prefix, ext |-> ext, extSize |-> extSize]
      BY <1>3 DEF Looks, Sees
    <2>2. PICK y \in Int : y = distance - k - view.prefix /\ y = b - prefix
      BY <1>1, <2>1
    <2>3. CASE b <= prefix
      <3>1. y <= 0
        BY <2>2, <2>3
      <3>2. Where(view, d, k, distance) = {d + k - distance}
        BY <2>2, <3>1 DEF Where
      <3> QED
        BY <1>1, <2>3, <3>2
    <2>4. CASE b > prefix /\ b - prefix <= extSize
      <3>1. ~(y <= 0) /\ y \in 1..extSize
        BY <2>2, <2>4
      <3>2. {y} \cap 1..extSize = {y}
        BY <3>1
      <3>3. Where(view, d, k, distance) = {view.ext + view.extSize - z : z \in {y} \cap 1..view.extSize}
        BY <2>2, <3>1 DEF Where
      <3>4. Where(view, d, k, distance) = {ext + extSize - z : z \in {y}}
        BY <2>1, <3>2, <3>3
      <3>5. Where(view, d, k, distance) = {ext + extSize - y}
        BY <3>4
      <3> QED
        BY <2>2, <2>4, <3>5
    <2>5. CASE ~(b <= prefix) /\ ~(b > prefix /\ b - prefix <= extSize)
      BY <2>5
    <2> QED
      BY <2>3, <2>4, <2>5
  <1> QED
    BY <1>2, <1>3

(* The address, in the prefix or in the dictionary. *)
InPrefix(prefix, d, b, a) == b <= prefix /\ a = d - b
InDictionary(prefix, ext, extSize, b, a) ==
  b > prefix /\ b - prefix <= extSize /\ a = ext + extSize - (b - prefix)
FoundOnly(view, d, k, distance, a) == Where(view, d, k, distance) = {a}
LEMMA LooksInPrefix ==
  ASSUME NEW prefix \in Nat, NEW ext \in Int, NEW extSize \in Nat,
         NEW d \in Nat, NEW k \in Nat, NEW distance \in Int, NEW b \in Int, BackBy(distance, k, b),
         NEW view, Sees(view, prefix, ext, extSize), NEW a \in Int, InPrefix(prefix, d, b, a)
  PROVE  FoundOnly(view, d, k, distance, a)
  <1>1. b <= prefix /\ a = d - b
    BY DEF InPrefix
  <1>0. WhereIs(view, prefix, ext, extSize, d, k, distance, b)
    BY LooksFind
  <1>2. Where(view, d, k, distance) = {d - b}
    BY <1>0, <1>1 DEF WhereIs
  <1> QED
    BY <1>1, <1>2 DEF FoundOnly
LEMMA LooksInDictionary ==
  ASSUME NEW prefix \in Nat, NEW ext \in Int, NEW extSize \in Nat,
         NEW d \in Nat, NEW k \in Nat, NEW distance \in Int, NEW b \in Int, BackBy(distance, k, b),
         NEW view, Sees(view, prefix, ext, extSize),
         NEW a \in Int, InDictionary(prefix, ext, extSize, b, a)
  PROVE  FoundOnly(view, d, k, distance, a)
  <1>1. b > prefix /\ b - prefix <= extSize /\ a = ext + extSize - (b - prefix)
    BY DEF InDictionary
  <1>0. WhereIs(view, prefix, ext, extSize, d, k, distance, b)
    BY LooksFind
  <1>2. Where(view, d, k, distance) = {ext + extSize - (b - prefix)}
    BY <1>0, <1>1 DEF WhereIs
  <1> QED
    BY <1>1, <1>2 DEF FoundOnly

(* How far back the source may refer, and how much of its ring that and    *)
(* the block itself take.                                                  *)
LEMMA ReachIs ==
  ASSUME RingTypeOK, NEW n \in Nat, n > 0, n <= MaxBlock
  PROVE  /\ Reach(n) \in Int /\ Reach(n) <= KB64 - 1 /\ Reach(n) <= enc.dictSize
         /\ ~AnySource /\ Source =>
              \/ Reach(n) <= 0
              \/ /\ Reach(n) + n <= EncRing
                 /\ Wraps(enc.pos, EncRing) => Reach(n) + n <= enc.pos
  <1>1. /\ MaxBlock \in Nat /\ KB64 \in Nat /\ EncRing \in Nat /\ MatchBytes \in Nat
        /\ enc.pos \in Nat /\ enc.pos <= EncRing /\ enc.dictSize \in Nat /\ enc.dictSize <= KB64
        /\ DistanceMax = KB64 - 1 /\ KB64 > 0
    BY RingTypes, Sizes
  <1>2. ASSUME NEW x \in Nat
        PROVE  MinOf(DistanceMax, x) \in Int /\ MinOf(DistanceMax, x) <= KB64 - 1 /\ MinOf(DistanceMax, x) <= x
    BY <1>1 DEF MinOf
  <1>3. CASE AnySource
    <2>1. Reach(n) = MinOf(DistanceMax, enc.dictSize)
      BY <1>3 DEF Reach
    <2> QED
      BY <1>1, <1>2, <1>3, <2>1
  <1>4. CASE ~AnySource
    <2>1. PICK left \in Int : /\ left = MinOf(enc.pos - n, KB64)
                              /\ left <= enc.pos - n
      BY <1>1 DEF MinOf
    <2>2. EncDict(n) = IF ~Wraps(enc.pos, EncRing) \/ n <= enc.pos - enc.dictSize THEN enc.dictSize
                       ELSE IF n >= enc.pos \/ left < MatchBytes THEN 0 ELSE left
      BY <2>1 DEF EncDict
    <2>3. PICK x \in Nat : x = EncDict(n) /\ x <= enc.dictSize
      <3>1. CASE ~Wraps(enc.pos, EncRing) \/ n <= enc.pos - enc.dictSize
        BY <1>1, <2>2, <3>1
      <3>2. CASE ~(~Wraps(enc.pos, EncRing) \/ n <= enc.pos - enc.dictSize)
        <4>1. CASE n >= enc.pos \/ left < MatchBytes
          BY <1>1, <2>2, <3>2, <4>1
        <4>2. CASE ~(n >= enc.pos \/ left < MatchBytes)
          <5>1. EncDict(n) = left
            BY <2>2, <3>2, <4>2
          <5>2. left \in Nat /\ left <= enc.dictSize
            BY <1>1, <2>1, <3>2, <4>2
          <5> QED
            BY <5>1, <5>2
        <4> QED
          BY <4>1, <4>2
      <3> QED
        BY <3>1, <3>2
    <2>4. Reach(n) = MinOf(DistanceMax, x)
      BY <1>4, <2>3 DEF Reach
    <2>5. Reach(n) \in Int /\ Reach(n) <= KB64 - 1 /\ Reach(n) <= x
      BY <1>2, <2>4
    <2>6. ASSUME Source
          PROVE  \/ x = 0
                 \/ /\ x + n <= EncRing
                    /\ Wraps(enc.pos, EncRing) => x + n <= enc.pos
      <3>1. enc.dictSize <= enc.pos
        BY <1>4, <2>6 DEF Source
      <3>2. CASE ~Wraps(enc.pos, EncRing)
        <4>1. x = enc.dictSize /\ ~(EncRing - enc.pos < MaxBlock)
          BY <2>2, <2>3, <3>2 DEF Wraps
        <4> QED
          BY <1>1, <3>1, <3>2, <4>1
      <3>3. CASE n <= enc.pos - enc.dictSize
        <4>1. x = enc.dictSize
          BY <2>2, <2>3, <3>3
        <4> QED
          BY <1>1, <3>3, <4>1
      <3>4. CASE Wraps(enc.pos, EncRing) /\ ~(n <= enc.pos - enc.dictSize)
        <4>1. x = 0 \/ x = left
          BY <2>2, <2>3, <3>4
        <4> QED
          BY <1>1, <2>1, <4>1
      <3> QED
        BY <3>2, <3>3, <3>4
    <2>7. Source => \/ Reach(n) <= 0
                    \/ /\ Reach(n) + n <= EncRing
                       /\ Wraps(enc.pos, EncRing) => Reach(n) + n <= enc.pos
      BY <1>1, <2>3, <2>5, <2>6
    <2> QED
      BY <1>1, <1>4, <2>3, <2>5, <2>7
  <1> QED
    BY <1>3, <1>4

-----------------------------------------------------------------------------
(* What is found in a ring.                                                *)

Found(view, d, n, k, distance) ==
  \E a \in Where(view, d, k, distance) :
    a \in RingAddresses \ Touched(d, n, k) /\ ringMem[a] = distance - k

LEMMA FoundAt ==
  ASSUME NEW view, NEW d, NEW n, NEW k, NEW distance, NEW a,
         FoundOnly(view, d, k, distance, a),
         a \in RingAddresses, a \notin Touched(d, n, k), ringMem[a] = distance - k
  PROVE  Found(view, d, n, k, distance)
  BY DEF Found, FoundOnly

(* The distance is that of a byte before the block, b bytes behind it.     *)
LEMMA BehindIs ==
  ASSUME RingTypeOK, NEW n \in 1..MaxBlock, NEW k \in 0..n - 1,
         NEW distance \in k + 1..MinOf(Reach(n) + k, DistanceMax)
  PROVE  \E b \in Int : /\ b = distance - k /\ b > 0 /\ b <= Reach(n) /\ b + k <= KB64 - 1
                        /\ distance \in Int /\ b <= KB64 - 1 /\ b <= enc.dictSize
  <1>1. /\ n \in Nat /\ n > 0 /\ n <= MaxBlock /\ k \in Nat /\ KB64 \in Nat
        /\ DistanceMax = KB64 - 1
    BY Sizes
  <1>2. PICK r \in Int : r = Reach(n) /\ r <= KB64 - 1 /\ r <= enc.dictSize
    BY <1>1, ReachIs
  <1>3. distance \in k + 1..MinOf(r + k, KB64 - 1)
    BY <1>1, <1>2
  <1>4. distance \in Int /\ distance >= k + 1 /\ distance <= r + k /\ distance <= KB64 - 1
    BY <1>1, <1>3 DEF MinOf
  <1>5. PICK b \in Int : b = distance - k
    BY <1>1, <1>4
  <1>6. enc.dictSize \in Nat
    BY RingTypes
  <1>7. b > 0 /\ b <= r /\ b + k <= KB64 - 1 /\ b <= KB64 - 1
    BY <1>1, <1>4, <1>5
  <1>8. b <= enc.dictSize
    BY <1>2, <1>6, <1>7
  <1> QED
    BY <1>2, <1>4, <1>5, <1>7, <1>8

(* What the run before has that the source may refer to, the block does    *)
(* not reach, if it is spared.                                             *)
LEMMA RunBeforeSpared ==
  ASSUME RulesKept, RingTypeOK, Source, rule # "save", NEW d \in Dests, HereIn(d),
         NEW n \in Nat, n > 0, n <= MaxBlock, NEW k \in Nat, k < n,
         NEW b \in Int, b > 0, b <= Reach(n), b + k <= KB64 - 1, b > d, Before(d) > Ring - MaxBlock,
         Exposed => b + k <= Ring - MaxBlock + 1 - Overshoot,
         NEW t \in Int, TouchedTill(d, n, k, t)
  PROVE  /\ Before(d) >= b /\ d + Before(d) - b >= t /\ d + Before(d) - b >= d + Ahead
  <1>1. /\ MaxBlock \in Nat /\ KB64 \in Nat /\ EncRing \in Nat /\ Margin \in Nat /\ Overshoot \in Nat
        /\ Ring \in Nat /\ d \in Nat /\ Ahead \in Nat
    BY RingTypes, Sizes, AheadIs DEF HereIn
  <1>2. t <= d + n + Ahead /\ (rule = "any" \/ Exposed => t <= d + k + Ahead)
    BY DEF TouchedTill
  <1>3. PICK c \in Nat : c = Before(d) /\ c > Ring - MaxBlock
    BY <1>1, BeforeIs DEF HereIn
  <1>4. PICK r \in Int : r = Reach(n) /\ r <= enc.dictSize
    BY ReachIs
  <1>7. CASE Exposed
    <2>1. Ahead = Overshoot
      BY <1>7, AheadIs
    <2>2. t <= d + k + Ahead /\ b + k <= Ring - MaxBlock + 1 - Overshoot
      BY <1>2, <1>7
    <2> QED
      BY <1>1, <1>3, <2>1, <2>2
  <1>5. CASE rule = "any" /\ ~Exposed
    <2>1. Ring = KB64 + Margin + MaxBlock
      BY <1>5, RingIs DEF RingTypeOK
    <2>2. Ahead = 0
      BY <1>5, AheadIs
    <2>3. t <= d + k + Ahead
      BY <1>2, <1>5
    <2> QED
      BY <1>1, <1>3, <2>1, <2>2, <2>3
  <1>6. CASE rule # "any" /\ ~Exposed
    <2>1. Ahead = 0 /\ ~AnySource
      BY <1>6, AheadIs DEF AnySource
    <2>2. t <= d + n
      BY <1>1, <1>2, <2>1
    <2>3. /\ r + n <= EncRing
          /\ Wraps(enc.pos, EncRing) => r + n <= enc.pos
      <3>1. r > 0
        BY <1>4
      <3>2. \/ r <= 0
            \/ /\ r + n <= EncRing
               /\ Wraps(enc.pos, EncRing) => r + n <= enc.pos
        BY <1>4, <2>1, ReachIs
      <3> QED
        BY <1>4, <3>1, <3>2
    <2>4. b + n <= c
      <3>1. CASE rule = "sync"
        <4>1. Ring = EncRing /\ enc.pos = dest /\ enc.dictSize <= enc.pos
          BY <2>1, <3>1, RingIs DEF Source, RingTypeOK
        <4>2. dest \in Nat /\ enc.dictSize \in Nat
          BY RingTypes
        <4>3. d # dest
          BY <1>1, <1>4, <4>1, <4>2
        <4>4. c = dest /\ dest > Ring - MaxBlock
          BY <1>3, <4>3 DEF HereIn
        <4>5. Wraps(enc.pos, EncRing)
          BY <1>1, <4>1, <4>2, <4>4 DEF Wraps
        <4>6. r + n <= dest
          BY <2>3, <4>1, <4>5
        <4> QED
          BY <1>4, <4>2, <4>4, <4>6
      <3>2. CASE rule # "sync"
        <4>1. rule \in {"larger", "larger, exact"}
          BY <1>6, <3>2, RingIs DEF RingTypeOK
        <4>2. Ring = EncRing + MaxBlock
          BY <4>1, RingIs DEF RingTypeOK
        <4> QED
          BY <1>1, <1>3, <1>4, <2>3, <4>2
      <3> QED
        BY <3>1, <3>2
    <2> QED
      BY <1>1, <1>3, <2>1, <2>2, <2>4
  <1> QED
    BY <1>5, <1>6, <1>7

LEMMA FoundInRing ==
  ASSUME RulesKept, RingTypeOK, InRing, rule # "save",
         NEW d \in Dests, NEW n \in 1..MaxBlock, NEW view \in Views(d), NEW k \in 0..n - 1,
         NEW distance \in k + 1..MinOf(Reach(n) + k, DistanceMax), Spared(d, k, distance)
  PROVE  Found(view, d, n, k, distance)
  <1>1. /\ n \in Nat /\ n > 0 /\ n <= MaxBlock /\ k \in Nat /\ k < n /\ KB64 \in Nat
        /\ MaxBlock \in Nat /\ Ring \in Nat /\ Lost = 0
    BY RingTypes, Sizes
  <1>2. PICK b \in Int : /\ b = distance - k /\ b > 0 /\ b <= Reach(n) /\ b + k <= KB64 - 1
                         /\ distance \in Int /\ b <= KB64 - 1 /\ b <= enc.dictSize
    BY BehindIs
  <1>3. HereIn(d) /\ Source
    BY DestsHere DEF InRing
  <1>4. d \in Nat /\ d + MaxBlock <= Ring /\ Here(d) /\ Runs(d)
    BY <1>3 DEF HereIn
  <1>5. view = ContinueView(lz4sd, d)
    BY DEF Views
  <1>6. PICK t \in Int : TouchedTill(d, n, k, t)
    <2>1. k \in 0..n /\ n \in 0..MaxBlock
      BY <1>1
    <2> QED
      BY <1>4, <2>1, TouchedInRing
  <1>7. Touched(d, n, k) = d..t - 1
    BY <1>6 DEF TouchedTill, TouchedTo
  <1>8. lz4sd.prefixSize \in Nat /\ lz4sd.extDictSize \in Nat /\ lz4sd.externalDict \in Int
        /\ enc.dictSize \in Nat
    BY RingTypes
  <1>9. PICK c \in Nat : c = Before(d) /\ c <= Ring
    BY <1>4, BeforeIs
  <1>10. \E ext \in Int : /\ view = Looks(d, ext, c)
                          /\ b > d => ext = 0 /\ c > Ring - MaxBlock
    <2>1. CASE Fresh(d)
      BY <1>2, <2>1 DEF Fresh
    <2>2. CASE GoingOn(d)
      <3>1. /\ lz4sd.prefixSize = d /\ lz4sd.prefixEnd = d /\ d > 0
            /\ \/ lz4sd.extDictSize = 0 /\ enc.dictSize <= d
               \/ lz4sd.externalDict = 0 /\ NearEnd(lz4sd.extDictSize)
        BY <2>2 DEF GoingOn
      <3>2. c = lz4sd.extDictSize
        BY <1>9, <3>1 DEF Before
      <3>3. view = Looks(d, lz4sd.externalDict, c)
        BY <1>4, <1>5, <3>1, <3>2 DEF ContinueView
      <3>4. b > d => lz4sd.externalDict = 0 /\ c > Ring - MaxBlock
        BY <1>2, <1>4, <1>8, <3>1, <3>2 DEF NearEnd
      <3> QED
        BY <1>8, <3>3, <3>4
    <2>3. CASE SentBack(d)
      <3>1. lz4sd.prefixSize = lz4sd.prefixEnd /\ NearEnd(lz4sd.prefixSize) /\ d = 0
        BY <2>3 DEF SentBack
      <3>2. lz4sd.prefixSize > 0 /\ lz4sd.prefixSize > Ring - MaxBlock
        BY <1>1, <1>8, <3>1, RingTypes DEF NearEnd
      <3>3. c = lz4sd.prefixSize
        BY <1>9, <3>1, <3>2 DEF Before
      <3>4. lz4sd.prefixEnd - lz4sd.prefixSize = 0
        BY <1>8, <3>1
      <3>5. view = Looks(d, 0, c)
        BY <1>5, <1>8, <3>1, <3>2, <3>3, <3>4 DEF ContinueView
      <3> QED
        BY <3>2, <3>3, <3>5
    <2> QED
      BY <1>4, <2>1, <2>2, <2>3 DEF Here
  <1>11. PICK ext \in Int : /\ view = Looks(d, ext, c)
                            /\ b > d => ext = 0 /\ c > Ring - MaxBlock
    BY <1>10
  <1>14. distance \in Int /\ BackBy(distance, k, b) /\ Sees(view, d, ext, c)
    BY <1>2, <1>11 DEF BackBy, Sees
  <1>12. CASE b <= d
    <2>2. PICK a \in Int : a = d - b /\ a >= 0 /\ a < d
      BY <1>2, <1>4, <1>12
    <2>0. InPrefix(d, d, b, a)
      BY <1>12, <2>2 DEF InPrefix
    <2>1. FoundOnly(view, d, k, distance, a)
      BY <1>1, <1>4, <1>14, <2>0, LooksInPrefix
    <2>3. a \in RingAddresses
      BY <1>1, <1>4, <2>2, RingAddress
    <2>4. a \notin Touched(d, n, k)
      BY <1>4, <1>7, <2>2
    <2>5. ringMem[a] = distance - k
      <3>1. ringMem[a] = Dist(d - a)
        BY <1>4, <2>2 DEF Runs
      <3>2. d - a = b
        BY <1>4, <2>2
      <3>3. Dist(b) = b
        BY <1>1, <1>2 DEF Dist
      <3> QED
        BY <1>2, <3>1, <3>2, <3>3
    <2> QED
      BY <2>1, <2>2, <2>3, <2>4, <2>5, FoundAt
  <1>13. CASE b > d
    <2>1. ext = 0 /\ c > Ring - MaxBlock
      BY <1>11, <1>13
    <2>2. PICK a \in Int : a = d + c - b
      BY <1>2, <1>4
    <2>10. Exposed => b + k <= Ring - MaxBlock + 1 - Overshoot
      <3>1. distance = b + k /\ ~(distance <= d + k)
        BY <1>1, <1>2, <1>4, <1>13
      <3> QED
        BY <3>1 DEF Exposed, Spared
    <2>3. c >= b /\ a >= t /\ a >= d + Ahead
      BY <1>1, <1>2, <1>3, <1>6, <1>9, <1>13, <2>1, <2>2, <2>10, RunBeforeSpared
    <2>4. Ahead \in Nat
      BY AheadIs
    <2>5. a >= 0 /\ a < c
      BY <1>2, <1>4, <1>13, <2>2, <2>3, <2>4
    <2>6. a \in RingAddresses
      BY <1>1, <1>9, <2>5, RingAddress
    <2>7. a \notin Touched(d, n, k)
      BY <1>4, <1>7, <2>3
    <2>8. ringMem[a] = distance - k
      <3>1. ringMem[a] = Dist(d + c - a)
        <4>1. a \in d + Ahead..c - 1
          BY <1>4, <2>3, <2>4, <2>5
        <4> QED
          BY <1>4, <1>9, <4>1 DEF Runs
      <3>2. d + c - a = b
        BY <1>2, <1>4, <2>2
      <3>3. Dist(b) = b
        BY <1>1, <1>2 DEF Dist
      <3> QED
        BY <1>2, <3>1, <3>2, <3>3
    <2>9. FoundOnly(view, d, k, distance, a)
      <3>1. InDictionary(d, ext, c, b, a)
        BY <1>2, <1>4, <1>13, <2>1, <2>2, <2>3 DEF InDictionary
      <3> QED
        BY <1>1, <1>4, <1>14, <3>1, LooksInDictionary
    <2> QED
      BY <2>6, <2>7, <2>8, <2>9, FoundAt
  <1> QED
    BY <1>2, <1>4, <1>12, <1>13

-----------------------------------------------------------------------------
(* A caller that saves.                                                    *)

LEMMA SaveIs ==
  ASSUME RingTypeOK, rule = "save"
  PROVE  /\ Ring = MaxBlock /\ Safe = MaxBlock /\ AnySource
         /\ Wraps(dest, Ring) \/ dest = 0
         /\ \A d \in Dests : d = 0 \/ (enc.dictSize > 0 /\ d = lz4sd.prefixEnd)
  <1>1. Ring = MaxBlock /\ Safe = MaxBlock
    BY RingIs DEF RingTypeOK
  <1>2. MaxBlock \in Nat /\ dest \in Nat
    BY RingTypes, Sizes
  <1>3. Wraps(dest, Ring) \/ dest = 0
    BY <1>1, <1>2 DEF Wraps
  <1>4. \A d \in Dests : d = 0 \/ (enc.dictSize > 0 /\ d = lz4sd.prefixEnd)
    BY <1>3 DEF Dests
  <1> QED
    BY <1>1, <1>3, <1>4 DEF AnySource

(* A dictionary in the safe buffer. *)
Kept == /\ enc.dictSize > 0 /\ lz4sd.prefixSize = enc.dictSize
        /\ lz4sd.prefixEnd = Safe + enc.dictSize /\ SavedAll
Scattered == \A i \in 1..enc.dictSize : \E a \in RingAddresses : ringMem[a] = i

LEMMA SafeCases ==
  ASSUME RingTypeOK, InSafe, rule = "save", Saved
  PROVE  (lz4sd = NoStream /\ enc.dictSize = 0) \/ Kept
  <1>1. CASE enc.dictSize > 0
    BY <1>1, RingTypes DEF InSafe, Saved, Kept, SavedAll
  <1>2. CASE ~(enc.dictSize > 0)
    BY <1>2, RingTypes DEF InSafe
  <1> QED
    BY <1>1, <1>2

LEMMA FoundInSafe ==
  ASSUME RingTypeOK, InSafe, rule = "save", Saved,
         NEW d \in Dests, NEW n \in 1..MaxBlock, NEW view \in Views(d), NEW k \in 0..n - 1,
         NEW distance \in k + 1..MinOf(Reach(n) + k, DistanceMax)
  PROVE  Found(view, d, n, k, distance)
  <1>1. /\ n \in Nat /\ n > 0 /\ n <= MaxBlock /\ k \in Nat /\ k < n /\ KB64 \in Nat
        /\ MaxBlock \in Nat /\ MaxBlock > 0 /\ Null \in Int
    BY Sizes
  <1>2. PICK b \in Int : /\ b = distance - k /\ b > 0 /\ b <= Reach(n) /\ b + k <= KB64 - 1
                         /\ distance \in Int /\ b <= KB64 - 1 /\ b <= enc.dictSize
    BY BehindIs
  <1>3. Kept
    <2>1. enc.dictSize # 0
      BY <1>2
    <2> QED
      BY <2>1, SafeCases
  <1>4. PICK s \in Nat : s = enc.dictSize /\ s > 0 /\ s <= KB64
    BY <1>3, RingTypes DEF Kept
  <1>5. lz4sd.prefixSize = s /\ lz4sd.prefixEnd = MaxBlock + s /\ Safe = MaxBlock /\ Ring = MaxBlock
    BY <1>3, <1>4, SaveIs DEF Kept
  <1>6. d = 0 \/ d = MaxBlock + s
    BY <1>5, SaveIs
  <1>7. lz4sd.externalDict \in Int /\ lz4sd.extDictSize \in Nat
    BY RingTypes
  <1>8. BackBy(distance, k, b)
    BY <1>2 DEF BackBy
  <1>9. PICK a \in Int : a = MaxBlock + s - b
    BY <1>1, <1>2, <1>4
  <1>10. FoundOnly(view, d, k, distance, a)
    <2>1. CASE d = MaxBlock + s
      <3>1. \E ext \in Int, x \in Nat : Sees(view, s, ext, x)
        <4>1. CASE view = ContinueView(lz4sd, d)
          <5>1. view = Looks(s, lz4sd.externalDict, lz4sd.extDictSize)
            BY <1>4, <1>5, <2>1, <4>1 DEF ContinueView
          <5> QED
            BY <1>7, <5>1 DEF Sees
        <4>2. CASE view = UsingDict(Safe, enc.dictSize, d)
          <5>1. view = Looks(s, Null, 0)
            BY <1>4, <1>5, <2>1, <4>2 DEF UsingDict
          <5> QED
            BY <1>1, <5>1 DEF Sees
        <4> QED
          BY <4>1, <4>2 DEF Views
      <3>2. PICK ext \in Int, x \in Nat : Sees(view, s, ext, x)
        BY <3>1
      <3>3. d \in Nat /\ InPrefix(s, d, b, a)
        BY <1>1, <1>2, <1>4, <1>9, <2>1 DEF InPrefix
      <3> QED
        BY <1>1, <1>2, <1>8, <3>2, <3>3, LooksInPrefix
    <2>2. CASE d = 0
      <3>1. Sees(view, 0, MaxBlock, s)
        <4>1. CASE view = ContinueView(lz4sd, d)
          <5>1. lz4sd.prefixSize # 0 /\ lz4sd.prefixEnd # d
            BY <1>1, <1>4, <1>5, <2>2
          <5>2. lz4sd.prefixEnd - lz4sd.prefixSize = MaxBlock
            BY <1>1, <1>4, <1>5
          <5> QED
            BY <1>5, <4>1, <5>1, <5>2 DEF ContinueView, Sees
        <4>2. CASE view = UsingDict(Safe, enc.dictSize, d)
          <5>1. enc.dictSize # 0 /\ Safe + enc.dictSize # d
            BY <1>1, <1>4, <1>5, <2>2
          <5> QED
            BY <1>4, <1>5, <4>2, <5>1 DEF UsingDict, Sees
        <4> QED
          BY <4>1, <4>2 DEF Views
      <3>2. d \in Nat /\ InDictionary(0, MaxBlock, s, b, a)
        BY <1>1, <1>2, <1>4, <1>9, <2>2 DEF InDictionary
      <3>3. PICK z \in Nat, m \in Int : z = 0 /\ m = MaxBlock
        BY <1>1
      <3>4. Sees(view, z, m, s) /\ InDictionary(z, m, s, b, a)
        BY <3>1, <3>2, <3>3
      <3> QED
        BY <1>1, <1>2, <1>8, <3>2, <3>4, LooksInDictionary
    <2> QED
      BY <1>6, <2>1, <2>2
  <1>11. a >= MaxBlock /\ a < MaxBlock + s
    BY <1>1, <1>2, <1>4, <1>9
  <1>12. a \in RingAddresses
    BY <1>1, <1>4, <1>5, <1>11, RingAddress
  <1>13. a \notin Touched(d, n, k)
    <2>1. d \in Int /\ n \in 0..MaxBlock /\ k \in 0..n
      BY <1>1, <1>4, <1>6
    <2>2. PICK t \in Int : TouchedTo(d, n, k, t)
      BY <2>1, TouchedEnd
    <2>3. Touched(d, n, k) = d..t - 1 /\ t <= d + MaxBlock
      BY <2>2 DEF TouchedTo
    <2>4. CASE d = 0
      BY <1>1, <1>11, <2>3, <2>4
    <2>5. CASE d = MaxBlock + s
      BY <1>1, <1>4, <1>11, <2>3, <2>5
    <2> QED
      BY <1>6, <2>4, <2>5
  <1>14. ringMem[a] = distance - k
    <2>1. ringMem[a] = MaxBlock + s - a
      <3>1. \A x \in MaxBlock..MaxBlock + s - 1 : ringMem[x] = MaxBlock + s - x
        BY <1>3, <1>4, <1>5 DEF Kept, SavedAll
      <3>2. a \in MaxBlock..MaxBlock + s - 1
        BY <1>1, <1>4, <1>11
      <3> QED
        BY <3>1, <3>2
    <2>2. MaxBlock + s - a = b
      BY <1>1, <1>2, <1>4, <1>9
    <2> QED
      BY <1>2, <2>1, <2>2
  <1> QED
    BY <1>10, <1>12, <1>13, <1>14, FoundAt

LEMMA FoundByInv ==
  ASSUME RulesKept, RingInv
  PROVE  HistoryFound
  <1> SUFFICES ASSUME Saved,
                      NEW d \in Dests, NEW n \in 1..MaxBlock, NEW view \in Views(d), NEW k \in 0..n - 1,
                      NEW distance \in k + 1..MinOf(Reach(n) + k, DistanceMax),
                      Spared(d, k, distance)
               PROVE  Found(view, d, n, k, distance)
    BY DEF HistoryFound, Found
  <1>1. CASE rule = "save"
    BY <1>1, FoundInSafe DEF RingInv
  <1>2. CASE rule # "save"
    BY <1>2, FoundInRing DEF RingInv
  <1> QED
    BY <1>1, <1>2

(* A block decoded by a caller that saves: into its one buffer, or behind  *)
(* what it saved.                                                          *)
LEMMA ScatteredPut ==
  ASSUME \A i \in 1..enc'.dictSize : \E a \in RingAddresses : ringMem'[a] = i,
         UNCHANGED <<rule, decoder>>
  PROVE  Scattered'
  BY StaysSame DEF Scattered

LEMMA InSafePut ==
  ASSUME UNCHANGED rule,
         \/ lz4sd' = NoStream /\ enc'.dictSize = 0
         \/ Saved' /\ enc'.dictSize > 0 /\ SavedAll'
         \/ ~Saved' /\ Scattered'
  PROVE  InSafe'
  BY DEF InSafe, Scattered

LEMMA SafeTyped ==
  ASSUME RingTypeOK, rule = "save", NEW d \in Nat, NEW n \in 0..MaxBlock, n = 0 => decoder = "safe",
         (lz4sd = NoStream /\ enc.dictSize = 0) \/ Kept,
         d = 0 \/ (enc.dictSize > 0 /\ d = Safe + enc.dictSize), DecodedTo(d, n)
  PROVE  RingTypeOK'
  <1>1. /\ n \in Nat /\ n <= MaxBlock /\ MaxBlock \in Nat /\ MaxBlock > 0 /\ KB64 \in Nat
        /\ enc.dictSize \in Nat /\ enc.dictSize <= KB64
        /\ Ring = MaxBlock /\ Safe = MaxBlock
    BY RingTypes, Sizes, SaveIs
  <1>2. d + n <= Ring + KB64 + MaxBlock
    BY <1>1
  <1>3. ASSUME lz4sd.prefixSize # 0, lz4sd.prefixEnd # d
        PROVE  lz4sd.prefixEnd - lz4sd.prefixSize \in RingAddresses
    <2>1. Kept
      BY <1>3 DEF NoStream
    <2>2. lz4sd.prefixEnd - lz4sd.prefixSize = MaxBlock
      BY <1>1, <2>1 DEF Kept
    <2>3. MaxBlock \in RingAddresses
      <3>1. CASE KB64 > 0
        BY <1>1, <3>1, RingAddress
      <3> QED
        BY <3>1, Sizes
    <2> QED
      BY <2>2, <2>3
  <1>4. lz4sd' \in Decoder'
    BY <1>2, <1>3, DecoderTyped DEF DecodedTo
  <1>5. Ring' = Ring /\ RingAddresses' = RingAddresses /\ rule' \in Rules /\ decoder' \in Decoders
    BY StaysSame DEF DecodedTo, RingTypeOK
  <1>6. enc' \in [pos : 0..EncRing, dictSize : 0..KB64]
    BY EncodedIs DEF DecodedTo
  <1>7. ringMem' \in [RingAddresses -> 0..KB64]
    BY <1>1, AgedType DEF DecodedTo
  <1>8. dest' \in 0..Ring
    <2>1. CASE d < Safe
      <3>1. d = 0
        BY <1>1, <2>1
      <3> QED
        BY <1>1, <2>1, <3>1 DEF DecodedTo
    <2>2. CASE ~(d < Safe)
      BY <2>2 DEF DecodedTo, RingTypeOK
    <2> QED
      BY <2>1, <2>2
  <1> QED
    BY <1>4, <1>5, <1>6, <1>7, <1>8 DEF RingTypeOK

(* What is saved ages where it is, and stays.                              *)
LEMMA KeptAges ==
  ASSUME RingTypeOK, rule = "save", Kept, NEW d \in Nat, NEW n \in 0..MaxBlock,
         d = 0 \/ d = Safe + enc.dictSize, Ages(d, n),
         NEW i \in Int, i > 0, i <= enc.dictSize, NEW a \in Int, a = Safe + enc.dictSize - i
  PROVE  a \in RingAddresses /\ ringMem'[a] = Dist(i + n)
  <1>1. /\ n \in Nat /\ MaxBlock \in Nat /\ MaxBlock > 0 /\ KB64 \in Nat /\ n \in 0..n
        /\ enc.dictSize \in Nat /\ enc.dictSize <= KB64 /\ Ring = MaxBlock /\ Safe = MaxBlock
    BY RingTypes, Sizes, SaveIs
  <1>2. PICK s \in Nat : s = enc.dictSize
    BY <1>1
  <1>3. a = MaxBlock + s - i /\ a >= MaxBlock /\ a < MaxBlock + s
    BY <1>1, <1>2
  <1>4. a \in RingAddresses
    BY <1>1, <1>2, <1>3, RingAddress
  <1>5. PICK t \in Int : TouchedTo(d, n, n, t)
    BY <1>1, TouchedEnd
  <1>6. Touched(d, n, n) = d..t - 1 /\ t >= d + n /\ t <= d + MaxBlock
    BY <1>5 DEF TouchedTo
  <1>7. a \notin Touched(d, n, n) /\ (a < d \/ a >= d + n)
    <2>1. CASE d = 0
      BY <1>1, <1>3, <1>6, <2>1
    <2>2. CASE d = MaxBlock + s
      BY <1>1, <1>3, <1>6, <2>2
    <2> QED
      BY <1>1, <1>2, <2>1, <2>2
  <1>8. ringMem[a] = Dist(i)
    <2>1. \A x \in MaxBlock..MaxBlock + s - 1 : ringMem[x] = MaxBlock + s - x
      BY <1>1, <1>2 DEF Kept, SavedAll
    <2>2. a \in MaxBlock..MaxBlock + s - 1 /\ MaxBlock + s - a = i
      BY <1>1, <1>3
    <2>3. ringMem[a] = i
      BY <2>1, <2>2
    <2>4. Dist(i) = i
      BY <1>1 DEF Dist
    <2> QED
      BY <2>3, <2>4
  <1>9. i \in Nat
    OBVIOUS
  <1>10. ringMem'[a] = Dist(i + n)
    BY <1>1, <1>4, <1>7, <1>8, <1>9, AgedBefore
  <1> QED
    BY <1>4, <1>10

(* An empty block changes nothing that matters. *)
LEMMA KeptEmpty ==
  ASSUME RingTypeOK, rule = "save", Kept, NEW d \in Nat, decoder = "safe",
         d = 0 \/ d = Safe + enc.dictSize, DecodedTo(d, 0)
  PROVE  InSafe'
  <1>1. /\ MaxBlock \in Nat /\ MaxBlock > 0 /\ KB64 \in Nat /\ 0 \in 0..MaxBlock
        /\ Ring = MaxBlock /\ Safe = MaxBlock /\ AnySource
    BY RingTypes, Sizes, SaveIs
  <1>2. PICK s \in Nat : s = enc.dictSize /\ s > 0 /\ s <= KB64
    BY RingTypes DEF Kept
  <1>3. lz4sd'.prefixSize = s /\ lz4sd'.prefixEnd = MaxBlock + s
    <2>1. lz4sd.prefixSize = s /\ lz4sd.prefixEnd = MaxBlock + s
      BY <1>1, <1>2 DEF Kept
    <2>2. CASE lz4sd.prefixEnd = d
      <3>1. lz4sd' = lz4sd
        BY <2>2, ContinuedAt DEF DecodedTo
      <3> QED
        BY <2>1, <3>1
    <2>3. CASE lz4sd.prefixEnd # d
      <3>1. lz4sd' = [prefixSize |-> lz4sd.prefixSize, prefixEnd |-> lz4sd.prefixEnd,
                      externalDict |-> lz4sd.prefixEnd - lz4sd.prefixSize,
                      extDictSize |-> lz4sd.prefixSize]
        BY <1>2, <2>1, <2>3, ContinuedAt DEF DecodedTo
      <3> QED
        BY <2>1, <3>1
    <2> QED
      BY <2>2, <2>3
  <1>4. enc'.dictSize = s
    <2>1. enc'.dictSize = MinOf(s + 0, KB64)
      BY <1>1, <1>2, EncodedIs DEF DecodedTo
    <2> QED
      BY <1>1, <1>2, <2>1 DEF MinOf
  <1>5. Safe' = MaxBlock
    BY <1>1, StaysSame DEF DecodedTo
  <1>6. SavedAll'
    <2> SUFFICES ASSUME NEW a \in MaxBlock..MaxBlock + s - 1
                 PROVE  ringMem'[a] = MaxBlock + s - a
      BY <1>3, <1>4, <1>5 DEF SavedAll
    <2>1. PICK i \in Int : i = MaxBlock + s - a /\ i > 0 /\ i <= s /\ a = MaxBlock + s - i /\ a \in Int
      BY <1>1
    <2>2. ringMem'[a] = Dist(i + 0)
      BY <1>1, <1>2, <2>1, KeptAges DEF DecodedTo
    <2>3. Dist(i + 0) = i
      BY <1>1, <1>2, <2>1 DEF Dist
    <2> QED
      BY <2>1, <2>2, <2>3
  <1>7. Saved' /\ enc'.dictSize > 0
    BY <1>2, <1>3, <1>4, <1>5 DEF Saved
  <1> QED
    BY <1>6, <1>7, InSafePut DEF DecodedTo

(* The text after a first block, or after one decoded elsewhere, lies in   *)
(* the buffer and what was saved.                                          *)
LEMMA ScattersAt0 ==
  ASSUME RingTypeOK, rule = "save", (lz4sd = NoStream /\ enc.dictSize = 0) \/ Kept,
         NEW n \in 1..MaxBlock, DecodedTo(0, n)
  PROVE  InSafe'
  <1>1. /\ MaxBlock \in Nat /\ MaxBlock > 0 /\ KB64 \in Nat /\ KB64 > 0 /\ 0 \in Nat
        /\ n \in 0..MaxBlock /\ n \in Nat /\ n > 0 /\ n <= MaxBlock
        /\ Ring = MaxBlock /\ Safe = MaxBlock /\ AnySource
    BY RingTypes, Sizes, SaveIs
  <1>2. PICK s \in Nat : s = enc.dictSize /\ s <= KB64
    BY RingTypes
  <1>3. PICK f \in Int : f = enc'.dictSize /\ f > 0 /\ f <= KB64 /\ f <= s + n
    <2>1. enc'.dictSize = MinOf(s + n, KB64)
      BY <1>1, <1>2, EncodedIs DEF DecodedTo
    <2>2. PICK f \in Int : f = MinOf(s + n, KB64)
      BY <1>1 DEF MinOf
    <2>3. f > 0 /\ f <= KB64 /\ f <= s + n
      BY <1>1, <2>2 DEF MinOf
    <2> QED
      BY <2>1, <2>2, <2>3
  <1>4. lz4sd.prefixEnd # 0
    <2>1. CASE lz4sd = NoStream
      BY <2>1, Sizes DEF NoStream
    <2>2. CASE Kept
      BY <1>1, <1>2, <2>2 DEF Kept
    <2> QED
      BY <2>1, <2>2
  <1>5. lz4sd'.prefixEnd = n
    BY <1>1, <1>4, ContinuedAt DEF DecodedTo
  <1>6. ~Saved'
    <2>1. Safe' = MaxBlock /\ rule' = rule
      BY <1>1, StaysSame DEF DecodedTo
    <2>2. n # MaxBlock + f /\ f # 0
      BY <1>1, <1>3
    <2> QED
      BY <1>3, <1>5, <2>1, <2>2 DEF Saved
  <1>7. ASSUME NEW i \in 1..f
        PROVE  \E a \in RingAddresses : ringMem'[a] = i
    <2>0. i \in Int /\ i > 0 /\ i <= f /\ i <= KB64
      BY <1>1, <1>3
    <2>1. CASE i <= n
      <3>1. PICK a \in Int : a = n - i
        BY <1>1, <2>0
      <3>2. 0 <= a /\ a < 0 + n /\ 0 + n - a = i
        BY <1>1, <2>0, <2>1, <3>1
      <3>3. a \in RingAddresses
        BY <1>1, <3>2, RingAddress
      <3>4. ringMem'[a] = Dist(0 + n - a)
        BY <1>1, <3>2, <3>3, AgedBlock DEF DecodedTo
      <3>5. Dist(i) = i
        BY <2>0 DEF Dist
      <3> QED
        BY <3>2, <3>3, <3>4, <3>5
    <2>2. CASE i > n
      <3>1. PICK j \in Int : j = i - n /\ j > 0 /\ j <= s
        BY <1>1, <1>3, <2>0, <2>2
      <3>2. Kept
        <4>1. enc.dictSize # 0
          BY <1>2, <3>1
        <4> QED
          BY <4>1
      <3>3. PICK a \in Int : a = MaxBlock + s - j
        BY <1>1, <3>1
      <3>4. a \in RingAddresses /\ ringMem'[a] = Dist(j + n)
        BY <1>1, <1>2, <3>1, <3>2, <3>3, KeptAges DEF DecodedTo
      <3>5. j + n = i
        BY <1>1, <2>0, <3>1
      <3>6. Dist(i) = i
        BY <2>0 DEF Dist
      <3> QED
        BY <3>4, <3>5, <3>6
    <2> QED
      BY <1>1, <2>0, <2>1, <2>2
  <1>8. Scattered'
    BY <1>3, <1>7, ScatteredPut DEF DecodedTo
  <1> QED
    BY <1>6, <1>8, InSafePut DEF DecodedTo

(* Behind what was saved, the text stays in one piece: it counts as saved  *)
(* until it is longer than the window.                                     *)
LEMMA GrowsBehind ==
  ASSUME RingTypeOK, rule = "save", Kept, NEW d \in Nat, d = Safe + enc.dictSize,
         NEW n \in 1..MaxBlock, DecodedTo(d, n)
  PROVE  InSafe'
  <1>1. /\ MaxBlock \in Nat /\ MaxBlock > 0 /\ KB64 \in Nat /\ KB64 > 0
        /\ n \in 0..MaxBlock /\ n \in Nat /\ n > 0 /\ n <= MaxBlock
        /\ Ring = MaxBlock /\ Safe = MaxBlock /\ AnySource
    BY RingTypes, Sizes, SaveIs
  <1>2. PICK s \in Nat : s = enc.dictSize /\ s > 0 /\ s <= KB64
    BY RingTypes DEF Kept
  <1>3. d = MaxBlock + s /\ lz4sd.prefixEnd = d /\ lz4sd.prefixSize = s
    BY <1>1, <1>2 DEF Kept
  <1>4. lz4sd'.prefixSize = s + n /\ lz4sd'.prefixEnd = d + n
    <2>1. n # 0 /\ lz4sd' = Continued(lz4sd, d, n)
      BY <1>1 DEF DecodedTo
    <2>2. lz4sd' = [prefixSize |-> lz4sd.prefixSize + n, prefixEnd |-> d + n,
                    externalDict |-> lz4sd.externalDict, extDictSize |-> lz4sd.extDictSize]
      BY <1>1, <1>3, <2>1, ContinuedAt
    <2> QED
      BY <1>3, <2>2
  <1>5. PICK f \in Int : f = enc'.dictSize /\ f = MinOf(s + n, KB64)
    <2>1. enc'.dictSize = MinOf(s + n, KB64)
      BY <1>1, <1>2, EncodedIs DEF DecodedTo
    <2> QED
      BY <1>1, <2>1 DEF MinOf
  <1>6. f > 0 /\ f <= KB64 /\ f <= s + n
    BY <1>1, <1>5 DEF MinOf
  <1>7. Safe' = MaxBlock /\ rule' = rule
    BY <1>1, StaysSame DEF DecodedTo
  <1>8. ASSUME NEW i \in Int, i > 0, i <= s + n, i <= KB64,
               NEW a \in Int, a = MaxBlock + (s + n) - i
        PROVE  a \in RingAddresses /\ ringMem'[a] = i
    <2>0. Dist(i) = i
      BY <1>8 DEF Dist
    <2>1. CASE i <= n
      <3>1. d <= a /\ a < d + n /\ d + n - a = i /\ 0 <= a /\ a < MaxBlock + KB64 + MaxBlock
        BY <1>1, <1>2, <1>3, <1>8, <2>1
      <3>2. a \in RingAddresses
        BY <1>1, <3>1, RingAddress
      <3>3. ringMem'[a] = Dist(d + n - a)
        BY <1>1, <3>1, <3>2, AgedBlock DEF DecodedTo
      <3> QED
        BY <2>0, <3>1, <3>2, <3>3
    <2>2. CASE i > n
      <3>1. PICK j \in Int : j = i - n /\ j > 0 /\ j <= s /\ a = MaxBlock + s - j /\ j + n = i
        BY <1>1, <1>8, <2>2
      <3>2. a \in RingAddresses /\ ringMem'[a] = Dist(j + n)
        BY <1>1, <1>2, <3>1, KeptAges DEF DecodedTo
      <3> QED
        BY <2>0, <3>1, <3>2
    <2> QED
      BY <1>1, <2>1, <2>2
  <1>9. CASE s + n <= KB64
    <2>1. f = s + n
      BY <1>1, <1>5, <1>9 DEF MinOf
    <2>2. Saved' /\ enc'.dictSize > 0
      <3>1. lz4sd'.prefixEnd = MaxBlock + f /\ lz4sd'.prefixSize > 0
        BY <1>1, <1>3, <1>4, <2>1
      <3> QED
        BY <1>5, <1>6, <1>7, <3>1 DEF Saved
    <2>3. SavedAll'
      <3>1. lz4sd'.prefixSize = f
        BY <1>4, <2>1
      <3>2. ASSUME NEW a \in MaxBlock..MaxBlock + f - 1
            PROVE  ringMem'[a] = MaxBlock + f - a
        <4>1. PICK i \in Int : i = MaxBlock + f - a /\ i > 0 /\ i <= s + n /\ i <= KB64 /\ a \in Int
                                /\ a = MaxBlock + (s + n) - i
          BY <1>1, <1>9, <2>1
        <4> QED
          BY <1>8, <4>1
      <3> QED
        BY <1>5, <1>7, <3>1, <3>2 DEF SavedAll
    <2> QED
      BY <2>2, <2>3, InSafePut DEF DecodedTo
  <1>10. CASE ~(s + n <= KB64)
    <2>1. f = KB64
      BY <1>1, <1>5, <1>10 DEF MinOf
    <2>2. ~Saved'
      <3>1. lz4sd'.prefixEnd # MaxBlock + f /\ f # 0
        BY <1>1, <1>3, <1>4, <1>10, <2>1
      <3> QED
        BY <1>5, <1>7, <3>1 DEF Saved
    <2>3. Scattered'
      <3>1. ASSUME NEW i \in 1..f
            PROVE  \E a \in RingAddresses : ringMem'[a] = i
        <4>1. PICK a \in Int : a = MaxBlock + (s + n) - i
          BY <1>1
        <4>2. i \in Int /\ i > 0 /\ i <= s + n /\ i <= KB64
          BY <1>1, <1>6
        <4> QED
          BY <1>8, <4>1, <4>2
      <3> QED
        BY <1>5, <3>1, ScatteredPut DEF DecodedTo
    <2> QED
      BY <2>2, <2>3, InSafePut DEF DecodedTo
  <1> QED
    BY <1>9, <1>10

LEMMA SafeDecode ==
  ASSUME RingInv, rule = "save", Saved, NEW d \in Dests, NEW n \in 0..MaxBlock,
         n = 0 => decoder = "safe", DecodedTo(d, n)
  PROVE  RingInv'
  <1>1. RingTypeOK /\ InSafe
    BY DEF RingInv
  <1>2. (lz4sd = NoStream /\ enc.dictSize = 0) \/ Kept
    BY <1>1, SafeCases
  <1>3. d = 0 \/ (enc.dictSize > 0 /\ d = Safe + enc.dictSize /\ Kept)
    <2>1. d = 0 \/ (enc.dictSize > 0 /\ d = lz4sd.prefixEnd)
      BY <1>1, SaveIs
    <2>2. enc.dictSize > 0 => enc.dictSize # 0
      BY <1>1, RingTypes
    <2> QED
      BY <1>2, <2>1, <2>2 DEF Kept
  <1>4. d \in Nat
    BY <1>1, <1>3, RingTypes, SaveIs, Sizes
  <1>5. RingTypeOK'
    BY <1>1, <1>2, <1>3, <1>4, SafeTyped
  <1>6. InSafe'
    <2>1. CASE n = 0 /\ Kept
      BY <1>1, <1>3, <1>4, <2>1, KeptEmpty
    <2>2. CASE n = 0 /\ ~Kept
      <3>1. lz4sd = NoStream /\ enc.dictSize = 0
        BY <1>2, <2>2
      <3>2. lz4sd' = NoStream
        <4>1. lz4sd.prefixSize = 0
          BY <3>1 DEF NoStream
        <4> QED
          BY <1>1, <1>4, <2>2, <3>1, <4>1, ContinuedAt DEF DecodedTo
      <3>3. enc'.dictSize = 0
        <4>1. KB64 \in Nat /\ AnySource
          BY <1>1, Sizes, SaveIs
        <4>2. enc'.dictSize = MinOf(0 + 0, KB64)
          BY <1>1, <2>2, <3>1, <4>1, EncodedIs DEF DecodedTo
        <4> QED
          BY <4>1, <4>2 DEF MinOf
      <3> QED
        BY <3>2, <3>3, InSafePut DEF DecodedTo
    <2>3. CASE n # 0
      <3>1. n \in 1..MaxBlock
        BY <2>3
      <3>2. CASE d = 0
        BY <1>1, <1>2, <3>1, <3>2, ScattersAt0
      <3>3. CASE d # 0
        BY <1>1, <1>3, <1>4, <3>1, <3>3, GrowsBehind
      <3> QED
        BY <3>2, <3>3
    <2> QED
      BY <2>1, <2>2, <2>3
  <1>7. InRing'
    BY DEF InRing, DecodedTo
  <1> QED
    BY <1>5, <1>6, <1>7 DEF RingInv

(* Saving finds everything it copies. *)
LEMMA SaveStep ==
  ASSUME RingInv, Save
  PROVE  RingInv'
  <1>1. RingTypeOK /\ InSafe /\ rule = "save" /\ ~Saved /\ UNCHANGED <<rule, decoder, dest, enc>>
    BY DEF RingInv, Save
  <1>2. /\ MaxBlock \in Nat /\ MaxBlock > 0 /\ KB64 \in Nat /\ KB64 > 0 /\ Lost = 0 /\ Null = -1
        /\ Ring = MaxBlock /\ Safe = MaxBlock
    BY <1>1, RingTypes, Sizes, SaveIs
  <1>3. PICK s \in Nat : s = enc.dictSize /\ s > 0 /\ s <= KB64
    BY <1>1, RingTypes DEF Save
  <1>4. Scattered
    BY <1>1, <1>3 DEF InSafe, Scattered, Saved
  <1> DEFINE kept == {ringMem[a] : a \in RingAddresses}
             saved(a) == IF a \in MaxBlock..MaxBlock + s - 1 THEN MaxBlock + s - a ELSE Lost
  <1>5. /\ ringMem' = [a \in RingAddresses |-> IF saved(a) \in kept THEN saved(a) ELSE Lost]
        /\ lz4sd' = [prefixSize |-> s, prefixEnd |-> MaxBlock + s, externalDict |-> Null,
                     extDictSize |-> 0]
    BY <1>2, <1>3 DEF Save, Set
  <1>6. \A i \in 1..s : i \in kept
    BY <1>3, <1>4 DEF Scattered
  <1>7. Ring' = Ring /\ RingAddresses' = RingAddresses /\ Safe' = MaxBlock /\ Decoder' = Decoder
    BY <1>1, <1>2, StaysSame DEF Decoder
  <1>8. RingTypeOK'
    <2>1. lz4sd' \in Decoder
      <3>1. MaxBlock + s \in Null..Ring + KB64 + MaxBlock
        BY <1>2, <1>3
      <3> QED
        BY <1>5, <3>1 DEF Decoder
    <2>2. ringMem' \in [RingAddresses -> 0..KB64]
      <3>1. ASSUME NEW a \in RingAddresses
            PROVE  saved(a) \in 0..KB64 /\ Lost \in 0..KB64
        BY <1>2, <1>3 DEF RingAddresses
      <3> HIDE DEF saved, kept
      <3>2. ASSUME NEW a \in RingAddresses
            PROVE  (IF saved(a) \in kept THEN saved(a) ELSE Lost) \in 0..KB64
        BY <3>1
      <3> QED
        BY <1>5, <3>2
    <2> QED
      BY <1>1, <1>7, <2>1, <2>2 DEF RingTypeOK
  <1>9. SavedAll'
    <2> SUFFICES ASSUME NEW a \in MaxBlock..MaxBlock + s - 1
                 PROVE  ringMem'[a] = MaxBlock + s - a
      BY <1>1, <1>3, <1>5, <1>7 DEF SavedAll
    <2>1. a \in Int /\ a >= MaxBlock /\ a < MaxBlock + s
      BY <1>2, <1>3
    <2>2. a \in RingAddresses
      BY <1>1, <1>2, <1>3, <2>1, RingAddress
    <2>3. saved(a) = MaxBlock + s - a
      OBVIOUS
    <2>4. MaxBlock + s - a \in 1..s
      BY <1>2, <1>3, <2>1
    <2>5. saved(a) \in kept
      BY <1>6, <2>3, <2>4
    <2> HIDE DEF saved, kept
    <2> QED
      BY <1>5, <2>2, <2>3, <2>5
  <1>10. Saved' /\ enc'.dictSize > 0
    BY <1>1, <1>2, <1>3, <1>5, <1>7 DEF Saved
  <1>11. InSafe'
    BY <1>1, <1>9, <1>10, InSafePut
  <1>12. InRing'
    BY <1>1 DEF InRing
  <1> QED
    BY <1>8, <1>11, <1>12 DEF RingInv

LEMMA RingStarts ==
  ASSUME RingInit
  PROVE  RingInv
  <1>1. /\ rule \in Rules /\ decoder \in Decoders /\ lz4sd = NoStream /\ dest = 0
        /\ ringMem = [a \in RingAddresses |-> Lost] /\ enc = [pos |-> 0, dictSize |-> 0]
    BY DEF RingInit
  <1>2. /\ MaxBlock \in Nat /\ KB64 \in Nat /\ EncRing \in Nat /\ Lost = 0 /\ Null = -1
        /\ Ring \in Nat
    BY <1>1, Sizes, RingIs
  <1>3. RingTypeOK
    <2>1. lz4sd \in Decoder
      <3>1. Null \in Null..Ring + KB64 + MaxBlock
        BY <1>2
      <3> QED
        BY <1>1, <3>1 DEF Decoder, NoStream
    <2>2. ringMem \in [RingAddresses -> 0..KB64]
      BY <1>1, <1>2
    <2>3. dest \in 0..Ring /\ enc \in [pos : 0..EncRing, dictSize : 0..KB64]
      BY <1>1, <1>2
    <2> QED
      BY <1>1, <2>1, <2>2, <2>3 DEF RingTypeOK
  <1>4. Fresh(dest)
    BY <1>1 DEF Fresh
  <1>5. Runs(dest)
    <2>1. PICK b \in Int : b = Before(dest) /\ b = 0
      BY <1>1, <1>2 DEF Before, NoStream
    <2>2. PICK h \in Nat : h = Ahead
      BY AheadIs
    <2>3. (\A a \in 0..0 - 1 : FALSE) /\ (\A a \in 0 + h..b - 1 : FALSE)
      BY <2>1
    <2> QED
      BY <1>1, <2>1, <2>2, <2>3 DEF Runs
  <1>6. Source
    BY <1>1 DEF Source
  <1>7. InRing /\ InSafe
    BY <1>1, <1>4, <1>5, <1>6 DEF InRing, InSafe, Here
  <1> QED
    BY <1>3, <1>7 DEF RingInv

LEMMA RingSteps ==
  ASSUME RulesKept, RingInv, [RingNext]_ringVars
  PROVE  RingInv'
  <1>1. CASE Save
    BY <1>1, SaveStep
  <1>2. ASSUME NEW d \in Dests, NEW n \in 0..MaxBlock,
               n = 0 /\ decoder = "fast" => EmptyFast, Saved, Decode(d, n)
        PROVE  RingInv'
    <2>1. RingTypeOK
      BY DEF RingInv
    <2>2. n = 0 => decoder = "safe"
      BY <1>2, <2>1, RingTypes DEF RulesKept
    <2>3. CASE Refused
      BY <2>1, <2>3, RefusedInv
    <2>4. CASE DecodedTo(d, n) /\ rule = "save"
      BY <1>2, <2>2, <2>4, SafeDecode
    <2>5. CASE DecodedTo(d, n) /\ rule # "save"
      BY <1>2, <2>2, <2>5, RingDecode
    <2> QED
      BY <1>2, <2>3, <2>4, <2>5, DecodeIs
  <1>3. CASE UNCHANGED ringVars
    BY <1>3 DEF ringVars, RingInv, RingTypeOK, InRing, InSafe, Here, Fresh, GoingOn, SentBack, Runs,
         Before, Source, SavedAll, Saved, NearEnd, Ring, Safe, Ahead, Exposed, RingAddresses, AnySource, Decoder,
         Dist
  <1> QED
    BY <1>1, <1>2, <1>3 DEF RingNext

-----------------------------------------------------------------------------
(* Under each rule that lz4.h gives a caller for its buffers, a stream of  *)
(* decoding calls keeps to its types, wherever blocks end and whichever    *)
(* are refused (LZ4_decompress_safe_continue, LZ4_setStreamDecode).        *)
THEOREM RingTyped == ASSUME RulesKept PROVE RingSpec => []RingTypeOK
  <1>1. RingInit => RingInv
    BY RingStarts
  <1>2. RingInv /\ [RingNext]_ringVars => RingInv'
    BY RingSteps
  <1>3. RingInv => RingTypeOK
    BY DEF RingInv
  <1> QED
    BY <1>1, <1>2, <1>3, PTL DEF RingSpec

(* What the next block may refer to is found, at every distance that       *)
(* lz4.h's ring sizes spare, under each of its rules and for any margin    *)
(* and overshoot: it is refused by neither LZ4_decompress_safe_continue    *)
(* nor LZ4_decompress_fast_continue, and the byte is the one that was      *)
(* decoded, in the run that the block extends, in what is left of the one  *)
(* before, or in the buffer it was saved to.                               *)
THEOREM HistoryIsFound == ASSUME RulesKept PROVE RingSpec => []HistoryFound
  <1>1. RingInit => RingInv
    BY RingStarts
  <1>2. RingInv /\ [RingNext]_ringVars => RingInv'
    BY RingSteps
  <1>3. RingInv => HistoryFound
    BY FoundByInv
  <1> QED
    BY <1>1, <1>2, <1>3, PTL DEF RingSpec
=============================================================================
