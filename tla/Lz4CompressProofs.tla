------------------------- MODULE Lz4CompressProofs -------------------------
(***************************************************************************)
(* Proofs about Lz4Compress, for any calls, hash and sizes: the compressor *)
(* stays inside its buffers, has the room it is promised, and what it      *)
(* emits decodes to what it was given.                                     *)
(***************************************************************************)
EXTENDS Lz4Compress, SequenceTheorems, WellFoundedInduction, TLAPS

-----------------------------------------------------------------------------
(* Arithmetic.                                                             *)

LEMMA Constants ==
  /\ Window \in Nat /\ RunMask \in Nat /\ ByteMax \in Nat /\ MaxInput \in Nat
  /\ SkipTrigger \in Nat /\ SkipTrigger > 0
  /\ Window > 12 /\ RunMask > 8 /\ RunMask < ByteMax
  BY CompressAssumption DEF MFLimit, MinMatch

LEMMA LeastNat ==
  ASSUME NEW T, T \subseteq Nat, T # {}
  PROVE  \E x \in T : \A y \in T : x <= y
<1>1. IsWellFoundedOn(OpToRel(<, Nat), Nat)
  BY NatLessThanWellFounded
<1>2. PICK x \in T : \A y \in T : ~(<<y, x>> \in OpToRel(<, Nat))
  BY <1>1, WFMin
<1>3. ASSUME NEW y \in T PROVE x <= y
  <2>1. <<y, x>> \in Nat \X Nat
    OBVIOUS
  <2>2. ~(y < x)
    BY <1>2, <2>1 DEF OpToRel
  <2> QED
    BY <2>2
<1> QED
  BY <1>3

LEMMA Quotient ==
  ASSUME NEW d \in Nat, d > 0, NEW x \in Nat
  PROVE  /\ x \div d \in Nat
         /\ d * (x \div d) <= x
         /\ x < d * (x \div d) + d
  OBVIOUS

LEMMA QuotientIs ==
  ASSUME NEW d \in Nat, d > 0, NEW x \in Nat, NEW q \in Nat, d * q <= x, x < d * q + d
  PROVE  x \div d = q
  OBVIOUS

\* The bytes of a length, as the tests for room count them.
LEMMA ExtraIs ==
  ASSUME NEW len \in Nat
  PROVE  /\ Extra(len) \in Nat
         /\ (len + ByteMax - RunMask) \div ByteMax = Extra(len)
         /\ ByteMax * Extra(len) <= len + ByteMax - RunMask
         /\ len < ByteMax * Extra(len) + RunMask
         /\ Extra(len) <= len \div ByteMax + 1
         /\ len < RunMask => Extra(len) = 0
<1> DEFINE x == len + ByteMax - RunMask
           q == x \div ByteMax
<1>1. x \in Nat /\ ByteMax \in Nat /\ ByteMax > 0 /\ RunMask \in Nat
  BY Constants
<1>2. q \in Nat /\ ByteMax * q <= x /\ x < ByteMax * q + ByteMax
  BY <1>1, Quotient
<1>3. Extra(len) = q
  <2>1. CASE len < RunMask
    <3>1. x < ByteMax /\ ByteMax * 0 = 0
      BY <1>1, <2>1
    <3>2. q = 0
      BY <1>1, <3>1, QuotientIs
    <3> QED
      BY <2>1, <3>2 DEF Extra
  <2>2. CASE len >= RunMask
    <3> DEFINE p == (len - RunMask) \div ByteMax
    <3>1. len - RunMask \in Nat /\ x = (len - RunMask) + ByteMax
      BY <1>1, <2>2
    <3>2. p \in Nat /\ ByteMax * p <= len - RunMask /\ len - RunMask < ByteMax * p + ByteMax
      BY <1>1, <3>1, Quotient
    <3>3. p + 1 \in Nat /\ ByteMax * (p + 1) = ByteMax * p + ByteMax
      BY <1>1, <3>2
    <3>4. q = p + 1
      BY <1>1, <3>1, <3>2, <3>3, QuotientIs
    <3>5. ~(len < RunMask)
      BY <1>1, <2>2
    <3> QED
      BY <3>4, <3>5 DEF Extra
  <2> QED
    BY <1>1, <2>1, <2>2
<1>4. q <= len \div ByteMax + 1
  <2> DEFINE r == len \div ByteMax
  <2>1. r \in Nat /\ len < ByteMax * r + ByteMax
    BY <1>1, Quotient
  <2>2. ByteMax * (r + 2) = ByteMax * r + ByteMax + ByteMax
    BY <1>1, <2>1
  <2>3. ByteMax * q < ByteMax * (r + 2)
    BY <1>1, <1>2, <2>1, <2>2
  <2>4. q < r + 2
    BY <1>1, <1>2, <2>1, <2>3
  <2> QED
    BY <1>2, <2>1, <2>4
<1> HIDE DEF q
<1>5. len < RunMask => q = 0
  BY <1>3 DEF Extra
<1>6. len < ByteMax * q + RunMask
  <2>1. ByteMax * q \in Nat
    BY <1>1, <1>2
  <2> QED
    BY <1>1, <1>2, <2>1
<1> QED
  BY <1>1, <1>2, <1>3, <1>4, <1>5, <1>6 DEF q

\* Lengths are written four bytes at a time, which reaches three bytes too far at most.
LEMMA LengthEndIs ==
  ASSUME NEW e \in Nat, NEW code \in Nat
  PROVE  /\ LengthEnd(e, code) \in Nat
         /\ LengthEnd(e, code) <= e + Extra(code) + 3
         /\ e <= LengthEnd(e, code)
<1> DEFINE q == (code - RunMask) \div (4 * ByteMax)
<1>1. Extra(code) \in Nat /\ code < ByteMax * Extra(code) + RunMask
  BY ExtraIs
<1>2. CASE code < RunMask
  BY <1>1, <1>2 DEF LengthEnd
<1>3. CASE ~(code < RunMask)
  <2>1. code - RunMask \in Nat /\ 4 * ByteMax \in Nat /\ 4 * ByteMax > 0
    BY <1>3, Constants
  <2>2. q \in Nat /\ (4 * ByteMax) * q <= code - RunMask
    BY <2>1, Quotient
  <2> HIDE DEF q
  <2>3. ByteMax * (4 * q) <= code - RunMask
    BY <2>2, Constants
  <2>4. ByteMax * (4 * q) < ByteMax * Extra(code)
    <3>1. ByteMax * (4 * q) \in Nat /\ ByteMax * Extra(code) \in Nat
      BY <1>1, <2>2, Constants
    <3> QED
      BY <1>1, <2>3, <3>1, Constants
  <2>5. 4 * q < Extra(code)
    BY <1>1, <2>2, <2>4, Constants
  <2>6. LengthEnd(e, code) = MaxOf(e + 4 * q + 4, e + Extra(code))
    BY <1>3 DEF LengthEnd, q
  <2> QED
    BY <1>1, <2>2, <2>5, <2>6 DEF MaxOf
<1> QED
  BY <1>2, <1>3

\* Literals are copied eight at a time.
LEMMA StridesIs ==
  ASSUME NEW k \in Nat
  PROVE  /\ Strides(k) \in Nat /\ k <= Strides(k) /\ 8 <= Strides(k)
         /\ Strides(k) <= k + 8
         /\ k > 0 => Strides(k) <= k + 7
  BY DEF Strides

(* What a sequence costs: never more than what it stands for, and one byte *)
(* in ByteMax.  It is why LZ4_COMPRESSBOUND is enough.                     *)
Paid(o, s) == ByteMax * o <= ByteMax * s + s

LEMMA PaidFits ==
  ASSUME NEW o \in Nat, NEW s \in Nat, NEW more \in Nat, NEW size \in Nat, more <= size,
         ByteMax * o <= ByteMax * s + more
  PROVE  o <= s + size \div ByteMax
<1> DEFINE q == size \div ByteMax
<1>1. q \in Nat /\ size < ByteMax * q + ByteMax /\ ByteMax \in Nat /\ ByteMax > 0
  BY Constants, Quotient
<1> HIDE DEF q
<1>2. SUFFICES ASSUME o >= s + q + 1 PROVE FALSE
  BY <1>1 DEF q
<1>3. PICK k \in Nat : o = s + q + 1 + k
  <2>1. o - (s + q + 1) \in Nat
    BY <1>1, <1>2
  <2> QED
    BY <1>1, <2>1
<1>4. ByteMax * o = ByteMax * s + ByteMax * q + ByteMax + ByteMax * k
  BY <1>1, <1>3
<1>5. ByteMax * k \in Nat /\ ByteMax * s \in Nat /\ ByteMax * q \in Nat
  BY <1>1, <1>3
<1> QED
  BY <1>1, <1>4, <1>5

LEMMA PaidLiterals ==
  ASSUME NEW o \in Nat, NEW s \in Nat, Paid(o, s), NEW lit \in Nat, NEW size \in Nat,
         s + lit <= size
  PROVE  o + Extra(lit) <= s + 1 + size \div ByteMax
<1>1. Extra(lit) \in Nat /\ ByteMax * Extra(lit) <= lit + ByteMax - RunMask
  BY ExtraIs
<1>2. ByteMax * (o + Extra(lit)) = ByteMax * o + ByteMax * Extra(lit)
  BY <1>1, Constants
<1>3. ByteMax * (s + 1) = ByteMax * s + ByteMax
  BY Constants
<1>4. ByteMax * o \in Nat /\ ByteMax * s \in Nat /\ ByteMax * Extra(lit) \in Nat
  BY <1>1, Constants
<1>5. ByteMax * (o + Extra(lit)) <= ByteMax * (s + 1) + (s + lit)
  BY <1>1, <1>2, <1>3, <1>4, Constants DEF Paid
<1> QED
  BY <1>1, <1>5, PaidFits

LEMMA PaidMatch ==
  ASSUME NEW o \in Nat, NEW s \in Nat, Paid(o, s), NEW lit \in Nat, NEW code \in Nat,
         NEW size \in Nat, s + lit + code <= size
  PROVE  o + Extra(lit) + Extra(code) <= s + 2 + size \div ByteMax
<1>1. /\ Extra(lit) \in Nat /\ ByteMax * Extra(lit) <= lit + ByteMax - RunMask
      /\ Extra(code) \in Nat /\ ByteMax * Extra(code) <= code + ByteMax - RunMask
  BY ExtraIs
<1>2. ByteMax * (o + Extra(lit) + Extra(code))
        = ByteMax * o + ByteMax * Extra(lit) + ByteMax * Extra(code)
  BY <1>1, Constants
<1>3. ByteMax * (s + 2) = ByteMax * s + ByteMax + ByteMax
  BY Constants
<1>4. /\ ByteMax * o \in Nat /\ ByteMax * s \in Nat /\ ByteMax * Extra(lit) \in Nat
      /\ ByteMax * Extra(code) \in Nat
  BY <1>1, Constants
<1>5. ByteMax * (o + Extra(lit) + Extra(code)) <= ByteMax * (s + 2) + (s + lit + code)
  BY <1>1, <1>2, <1>3, <1>4, Constants DEF Paid
<1> QED
  BY <1>1, <1>5, PaidFits

LEMMA PaidOn ==
  ASSUME NEW o \in Nat, NEW s \in Nat, Paid(o, s), NEW lit \in Nat, NEW code \in Nat
  PROVE  Paid(o + 1 + Extra(lit) + lit + 2 + Extra(code), s + lit + MinMatch + code)
<1> DEFINE el == Extra(lit)
           ec == Extra(code)
<1>1. /\ el \in Nat /\ ByteMax * el <= lit + ByteMax - RunMask
      /\ ec \in Nat /\ ByteMax * ec <= code + ByteMax - RunMask
      /\ code < RunMask => ec = 0
  BY ExtraIs
<1> HIDE DEF el, ec
<1>2. ByteMax * (o + 1 + el + lit + 2 + ec)
        = ByteMax * o + ByteMax * el + ByteMax * lit + ByteMax * ec + ByteMax * 3
  BY <1>1, Constants
<1>3. ByteMax * (s + lit + 4 + code)
        = ByteMax * s + ByteMax * lit + ByteMax * code + ByteMax * 4
  BY <1>1, Constants
<1>4. /\ ByteMax * o \in Nat /\ ByteMax * s \in Nat /\ ByteMax * el \in Nat
      /\ ByteMax * ec \in Nat /\ ByteMax * lit \in Nat /\ ByteMax * code \in Nat
  BY <1>1, Constants
<1>5. ByteMax * el + ByteMax * ec <= ByteMax + ByteMax * code + lit + 4 + code
  <2>1. CASE ec = 0
    <3>1. ByteMax * ec = 0
      BY <2>1, Constants
    <3> QED
      BY <1>1, <1>4, <3>1, Constants
  <2>2. CASE ec # 0
    <3>1. code >= RunMask /\ code >= 1
      BY <1>1, <2>2, Constants
    <3>2. ByteMax <= ByteMax * code
      BY <3>1, Constants
    <3> QED
      BY <1>1, <1>4, <3>2, Constants
  <2> QED
    BY <2>1, <2>2
<1>6. ByteMax * (o + 1 + el + lit + 2 + ec)
        <= ByteMax * (s + lit + 4 + code) + (s + lit + 4 + code)
  BY <1>2, <1>3, <1>4, <1>5, Constants DEF Paid
<1> QED
  BY <1>6 DEF Paid, el, ec, MinMatch

\* Filling the output: with the last literals cut to fit, all of it is used.
LEMMA FittingIs ==
  ASSUME NEW run \in Nat, NEW more \in Nat, run < more + Extra(more)
  PROVE  LET fits == run - (run + ByteMax + 1 - RunMask) \div (ByteMax + 1)
         IN  /\ fits \in Nat /\ fits <= more
             /\ fits + Extra(fits) <= run
             /\ \A k \in 0 .. 8 : run >= k => fits >= k
<1> DEFINE d == ByteMax + 1
           x == run + d - RunMask
           q == x \div d
           f == run - q
<1>1. ByteMax \in Nat /\ RunMask \in Nat /\ RunMask < ByteMax /\ RunMask >= 9 /\ d \in Nat /\ d > 0
  BY Constants
<1>2. x \in Nat
  BY <1>1
<1>3. q \in Nat /\ d * q <= x /\ x < d * q + d
  BY <1>1, <1>2, Quotient
<1> HIDE DEF q
<1>4. d * q = ByteMax * q + q /\ ByteMax * q \in Nat /\ q <= ByteMax * q
  BY <1>1, <1>3
<1>5. f \in Nat /\ (run < RunMask => f = run) /\ (run >= RunMask => f >= RunMask - 1)
  <2>1. CASE run < RunMask
    <3>1. x < d /\ (q >= 1 => d * q >= d)
      BY <1>1, <1>3, <2>1
    <3>2. q = 0
      BY <1>1, <1>2, <1>3, <3>1
    <3> QED
      BY <1>1, <2>1, <3>2
  <2>2. CASE run >= RunMask
    <3> SUFFICES ASSUME q > run - RunMask + 1 PROVE FALSE
      BY <1>1, <1>3, <2>2
    <3>1. PICK k \in Nat : q = (run - RunMask) + 2 + k
      <4>1. q - ((run - RunMask) + 2) \in Nat
        BY <1>1, <1>3, <2>2
      <4> QED
        BY <1>1, <1>3, <4>1
    <3> DEFINE y == run - RunMask
    <3>2. y \in Nat /\ d * q = d * y + d + d + d * k /\ d * y >= y /\ d * k \in Nat
      BY <1>1, <2>2, <3>1
    <3>3. x = y + d
      BY <1>1
    <3> HIDE DEF x, d, y
    <3> QED
      BY <1>1, <1>2, <1>3, <3>2, <3>3
  <2> QED
    BY <1>1, <2>1, <2>2
<1>6. ByteMax * q + q + RunMask >= run + 1
  BY <1>1, <1>3, <1>4
<1>7. f + Extra(f) <= run
  <2> DEFINE e == Extra(f)
  <2>1. e \in Nat /\ ByteMax * e <= f + ByteMax - RunMask /\ (f < RunMask => e = 0)
    BY <1>5, ExtraIs
  <2> HIDE DEF e
  <2>2. f + RunMask - RunMask < ByteMax * q + RunMask
    BY <1>1, <1>3, <1>4, <1>6
  <2>3. ByteMax * e < ByteMax * q + ByteMax
    BY <1>1, <1>3, <1>4, <1>5, <1>6, <2>1
  <2>4. ByteMax * (q + 1) = ByteMax * q + ByteMax
    BY <1>1, <1>3
  <2>5. e < q + 1
    BY <1>1, <1>3, <2>1, <2>3, <2>4
  <2> QED
    BY <1>3, <1>5, <2>1, <2>5 DEF e
<1>8. f <= more
  <2> DEFINE e == Extra(more)
  <2>1. e \in Nat /\ ByteMax * e <= more + ByteMax - RunMask
    BY ExtraIs
  <2> HIDE DEF e
  <2>2. SUFFICES ASSUME f >= more + 1 PROVE FALSE
    BY <1>5
  <2>3. ByteMax * q + RunMask >= more + 2
    BY <1>1, <1>3, <1>4, <1>6, <2>2
  <2>4. ByteMax * e <= ByteMax * q + ByteMax - 2
    <3>1. ByteMax * e \in Nat
      BY <1>1, <2>1
    <3> QED
      BY <1>1, <1>4, <2>1, <2>3, <3>1
  <2>5. e < q + 1
    <3>1. ByteMax * (q + 1) = ByteMax * q + ByteMax
      BY <1>1, <1>3
    <3>2. ByteMax * e < ByteMax * (q + 1)
      BY <1>1, <1>3, <1>4, <2>1, <2>4, <3>1
    <3> QED
      BY <1>1, <1>3, <2>1, <3>2
  <2>6. run < more + e
    BY DEF e
  <2> QED
    BY <1>3, <1>5, <2>1, <2>2, <2>5, <2>6
<1>9. f = run - (run + ByteMax + 1 - RunMask) \div (ByteMax + 1)
  <2>1. run + ByteMax + 1 - RunMask = x
    BY <1>1
  <2> QED
    BY <2>1 DEF q
<1> HIDE DEF f
<1>10. \A k \in 0 .. 8 : run >= k => f >= k
  BY <1>1, <1>5
<1> QED
  BY <1>5, <1>7, <1>8, <1>9, <1>10

-----------------------------------------------------------------------------
(* Calls and their memory.                                                 *)

LEMMA JobTypes ==
  ASSUME job \in Jobs
  PROVE  /\ job \in JobType /\ HandedOver(job)
         /\ job.api \in {"extState", "fastReset", "destSize", "stream"}
         /\ job.src \in Seq(Nat) /\ job.dict \in Seq(Nat) /\ job.cap \in Nat
         /\ job.acceleration \in Nat /\ job.acceleration > 0
         /\ job.dir \in Directives /\ job.dictSmall \in BOOLEAN
         /\ job.startIndex \in Nat /\ job.dictOffset \in Nat
         /\ job.table \in [Buckets -> Nat] /\ job.dictTable \in [Buckets -> Nat]
         /\ n \in Nat /\ dictSize \in Nat
<1>1. job \in JobType /\ HandedOver(job)
  BY CompressAssumption
<1> QED
  BY <1>1, LenProperties DEF JobType, n, dictSize

LEMMA SameJob ==
  ASSUME job' = job
  PROVE  /\ n' = n /\ dictSize' = dictSize /\ directive' = directive /\ byU16' = byU16
         /\ lowLimit' = lowLimit /\ dictionary' = dictionary /\ dictEnd' = dictEnd
         /\ maybeExtMem' = maybeExtMem
         /\ \A a : At(a)' = At(a)
         /\ \A a : HashPosition(a)' = HashPosition(a)
<1>1. n' = n /\ dictSize' = dictSize /\ directive' = directive /\ byU16' = byU16
  BY DEF n, dictSize, directive, byU16
<1>2. lowLimit' = lowLimit /\ dictionary' = dictionary /\ dictEnd' = dictEnd
  BY <1>1 DEF lowLimit, dictionary, dictEnd
<1>3. maybeExtMem' = maybeExtMem
  BY DEF maybeExtMem
<1>4. \A a : At(a)' = At(a)
  BY <1>1, <1>2 DEF At
<1>5. \A a : HashPosition(a)' = HashPosition(a)
  BY <1>1, <1>4 DEF HashPosition, Bytes
<1> QED
  BY <1>1, <1>2, <1>3, <1>4, <1>5

\* Where the dictionary lies: right before the source, or elsewhere.
LEMMA DictPlace ==
  ASSUME job \in Jobs
  PROVE  /\ dictEnd \in Int /\ dictEnd <= 0 /\ dictionary \in Int /\ dictionary = dictEnd - dictSize
         /\ lowLimit \in Int /\ lowLimit <= 0 /\ -dictSize <= lowLimit
         /\ job.dir = "withPrefix64k" => dictEnd = 0 /\ lowLimit = dictionary
         /\ job.dir # "withPrefix64k" => dictEnd < 0 /\ lowLimit = 0
         /\ maybeExtMem => job.dir # "withPrefix64k"
  BY JobTypes DEF dictEnd, Elsewhere, dictionary, lowLimit, maybeExtMem

\* The byte at a position of the text, which is the history and the source behind it.
TextAt(q) == IF q >= 0 THEN job.src[q + 1] ELSE job.dict[dictSize + q + 1]

LEMMA AtIs ==
  ASSUME job \in Jobs, NEW a \in Int
  PROVE  /\ (0 <= a /\ a < n) => At(a) = TextAt(a)
         /\ (dictionary <= a /\ a < dictEnd) => At(a) = TextAt(a - dictEnd)
<1>1. n \in Nat /\ dictSize \in Nat /\ dictEnd \in Int /\ dictEnd <= 0
      /\ dictionary = dictEnd - dictSize
  BY JobTypes, DictPlace
<1>2. ASSUME 0 <= a, a < n PROVE At(a) = TextAt(a)
  BY <1>1, <1>2 DEF At, TextAt
<1>3. ASSUME dictionary <= a, a < dictEnd PROVE At(a) = TextAt(a - dictEnd)
  <2>1. ~(a \in 0 .. n - 1) /\ a \in dictionary .. dictEnd - 1
    BY <1>1, <1>3
  <2>2. ~(a - dictEnd >= 0) /\ dictSize + (a - dictEnd) + 1 = a - dictionary + 1
    BY <1>1, <1>3
  <2> QED
    BY <2>1, <2>2 DEF At, TextAt
<1> QED
  BY <1>2, <1>3

LEMMA SliceIs ==
  ASSUME NEW s \in Seq(Nat), NEW a \in Nat, NEW k \in Nat, a + k <= Len(s)
  PROVE  /\ SubSeq(s, a + 1, a + k) = [i \in 1 .. k |-> s[a + i]]
         /\ SubSeq(s, a + 1, a + k) \in Seq(Nat)
         /\ Len(SubSeq(s, a + 1, a + k)) = k
<1> DEFINE t == SubSeq(s, a + 1, a + k)
<1>1. Len(s) \in Nat /\ \A i \in a + 1 .. a + k : s[i] \in Nat
  BY LenProperties, ElementOfSeq
<1>2. /\ t \in Seq(Nat)
      /\ Len(t) = IF a + 1 <= a + k THEN (a + k) - (a + 1) + 1 ELSE 0
      /\ \A i \in 1 .. (a + k) - (a + 1) + 1 : t[i] = s[(a + 1) + i - 1]
  BY <1>1, SubSeqProperties
<1> HIDE DEF t
<1>3. Len(t) = k
  BY <1>2
<1>4. t = [i \in 1 .. Len(t) |-> t[i]]
  BY <1>2, LenProperties
<1>5. ASSUME NEW i \in 1 .. k PROVE t[i] = s[a + i]
  <2>1. (a + k) - (a + 1) + 1 = k /\ (a + 1) + i - 1 = a + i
    OBVIOUS
  <2> QED
    BY <1>2, <2>1
<1>6. t = [i \in 1 .. k |-> s[a + i]]
  BY <1>3, <1>4, <1>5
<1> QED
  BY <1>2, <1>3, <1>6 DEF t

\* The hash of a position that is far enough from the end is a bucket.
LEMMA HashIs ==
  ASSUME job \in Jobs, NEW a \in Nat, a + 5 <= n
  PROVE  HashPosition(a) \in Buckets
<1>1. n \in Nat /\ n = Len(job.src) /\ job.src \in Seq(Nat)
  BY JobTypes DEF n
<1>2. ASSUME NEW k \in {4, 5} PROVE Hash(Bytes(a, k)) \in Buckets
  <2>1. a + 1 \in 1 .. Len(job.src) + 1 - k /\ (a + 1) + k - 1 = a + k
    BY <1>1
  <2>2. Hash(SubSeq(job.src, a + 1, a + k)) \in Buckets
    <3>1. \A b \in 1 .. Len(job.src) + 1 - k : Hash(SubSeq(job.src, b, b + k - 1)) \in Buckets
      BY CompressAssumption
    <3>2. Hash(SubSeq(job.src, a + 1, (a + 1) + k - 1)) \in Buckets
      BY <2>1, <3>1
    <3> QED
      BY <2>1, <3>2
  <2>3. SubSeq(job.src, a + 1, a + k) = [i \in 1 .. k |-> job.src[a + i]]
    BY <1>1, SliceIs
  <2>4. ASSUME NEW i \in 1 .. k PROVE At(a + i - 1) = job.src[a + i]
    <3>1. a + i - 1 \in 0 .. n - 1 /\ (a + i - 1) + 1 = a + i
      BY <1>1
    <3> QED
      BY <3>1 DEF At
  <2>5. Bytes(a, k) = SubSeq(job.src, a + 1, a + k)
    BY <2>3, <2>4 DEF Bytes
  <2> QED
    BY <2>2, <2>5
<1> QED
  BY <1>2 DEF HashPosition

\* LZ4_count stops at the first byte that differs, or at the limit.
LEMMA CountIs ==
  ASSUME NEW p \in Int, NEW m \in Int, NEW limit \in Int, p <= limit
  PROVE  /\ Count(p, m, limit) \in 0 .. limit - p
         /\ \A i \in 0 .. Count(p, m, limit) - 1 : At(p + i) = At(m + i)
         /\ \/ Count(p, m, limit) = limit - p
            \/ At(p + Count(p, m, limit)) # At(m + Count(p, m, limit))
<1> DEFINE T == {k \in 0 .. limit - p : k = limit - p \/ At(p + k) # At(m + k)}
           agree(k) == \A i \in 0 .. k - 1 : At(p + i) = At(m + i)
           Good(k) == agree(k) /\ (k = limit - p \/ At(p + k) # At(m + k))
<1>1. T \subseteq Nat /\ limit - p \in T
  OBVIOUS
<1>2. PICK k \in T : \A j \in T : k <= j
  BY <1>1, LeastNat
<1>3. \A i \in 0 .. k - 1 : At(p + i) = At(m + i)
  <2> SUFFICES ASSUME NEW i \in 0 .. k - 1, At(p + i) # At(m + i) PROVE FALSE
    OBVIOUS
  <2>1. i \in T
    BY <1>2
  <2> QED
    BY <1>2, <2>1
<1>4. \E j \in 0 .. limit - p : Good(j)
  BY <1>2, <1>3
<1>5. Count(p, m, limit) = CHOOSE j \in 0 .. limit - p : Good(j)
  BY DEF Count
<1> HIDE DEF Good
<1>6. Count(p, m, limit) \in 0 .. limit - p /\ Good(Count(p, m, limit))
  BY <1>4, <1>5
<1> QED
  BY <1>6 DEF Good

\* "Catch up" goes back over bytes that agree, not beyond either start.
LEMMA CatchUpIs ==
  ASSUME ip \in Int, anchor \in Int, match \in Int, low \in Int, anchor <= ip, low <= match
  PROVE  /\ CatchUp \in Nat /\ CatchUp <= ip - anchor /\ CatchUp <= match - low
         /\ \A i \in 1 .. CatchUp : At(ip - i) = At(match - i)
<1> DEFINE most == MinOf(ip - anchor, match - low)
           T == {k \in 0 .. most : k >= most \/ At(ip - k - 1) # At(match - k - 1)}
           agree(k) == \A i \in 1 .. k : At(ip - i) = At(match - i)
           Good(k) == agree(k) /\ (k >= most \/ At(ip - k - 1) # At(match - k - 1))
<1>1. most \in Nat /\ most <= ip - anchor /\ most <= match - low /\ MaxOf(0, most) = most
  BY DEF MinOf, MaxOf
<1>2. CatchUp = CHOOSE k \in 0 .. MaxOf(0, most) : Good(k)
  BY DEF CatchUp
<1> HIDE DEF most
<1>3. T \subseteq Nat /\ most \in T
  BY <1>1
<1>4. PICK k \in T : \A j \in T : k <= j
  BY <1>3, LeastNat
<1>5. \A i \in 1 .. k : At(ip - i) = At(match - i)
  <2> SUFFICES ASSUME NEW i \in 1 .. k, At(ip - i) # At(match - i) PROVE FALSE
    OBVIOUS
  <2>1. ip - i = ip - (i - 1) - 1 /\ match - i = match - (i - 1) - 1 /\ i - 1 \in 0 .. most
    BY <1>1, <1>4
  <2>2. i - 1 \in T
    BY <2>1
  <2> QED
    BY <1>4, <2>2
<1>6. \E j \in 0 .. MaxOf(0, most) : Good(j)
  BY <1>1, <1>4, <1>5
<1> HIDE DEF Good
<1>7. CatchUp \in 0 .. most /\ Good(CatchUp)
  BY <1>1, <1>2, <1>6
<1> QED
  BY <1>1, <1>7 DEF Good

-----------------------------------------------------------------------------
(* Candidates and matches.                                                 *)

\* What the table may say of a bucket: something from before the call, or a position in the
\* source that has this hash.
Known(h, i) == \/ i < job.startIndex /\ i = job.table[h]
               \/ i = job.startIndex
               \/ /\ i > job.startIndex /\ i - job.startIndex + MFLimit <= n
                  /\ HashPosition(i - job.startIndex) = h

\* Where a match of the position p is: at the distance o before it, in the source or its
\* prefix, or in a dictionary that lies elsewhere.
Placed(p, m, l, o, k) ==
  \/ m = p - o /\ l = lowLimit /\ l <= m /\ m < p
  \/ /\ maybeExtMem /\ l = dictionary
     /\ m - dictEnd = p - o /\ l <= m /\ m + k <= dictEnd

\* A match of k bytes.
Found(p, m, l, o, k) ==
  /\ o \in 1 .. DistanceMax /\ m \in Int /\ l \in Int
  /\ Placed(p, m, l, o, k)
  /\ \A i \in 0 .. k - 1 : At(p + i) = At(m + i)

LEMMA OwnCandidate ==
  ASSUME job \in Jobs, n > 12, NEW p \in Nat, p + MFLimit <= n, NEW i \in Nat,
         i >= job.startIndex, i < p + job.startIndex,
         byU16 \/ i + DistanceMax >= p + job.startIndex
  PROVE  /\ p + job.startIndex - i \in 1 .. DistanceMax
         /\ Placed(p, i - job.startIndex, lowLimit, p + job.startIndex - i, MinMatch)
         /\ Valid(i - job.startIndex, MinMatch)
<1>1. /\ job.startIndex \in Nat /\ n \in Nat /\ Window \in Nat
      /\ lowLimit \in Int /\ lowLimit <= 0
  BY JobTypes, Constants, DictPlace
<1>2. byU16 => n < Window + 11
  BY <1>1 DEF byU16, Limit64K, MFLimit
<1>3. p + job.startIndex - i \in 1 .. DistanceMax
  BY <1>1, <1>2 DEF DistanceMax, MFLimit
<1>4. Placed(p, i - job.startIndex, lowLimit, p + job.startIndex - i, MinMatch)
  BY <1>1, <1>3 DEF Placed
<1>5. Valid(i - job.startIndex, MinMatch)
  BY <1>1 DEF Valid, MinMatch, MFLimit, iend
<1> QED
  BY <1>3, <1>4, <1>5

\* What an entry from before the call is worth, if it is within reach.
LEMMA OldEntry ==
  ASSUME job \in Jobs, NEW h \in Buckets, job.table[h] < job.startIndex,
         job.dir # "usingDictCtx",
         job.dictSmall => job.table[h] >= prefixIdxLimit,
         byU16 \/ job.table[h] + DistanceMax >= job.startIndex
  PROVE  /\ job.dir \in {"withPrefix64k", "usingExtDict"}
         /\ ~byU16
         /\ job.table[h] >= job.startIndex - dictSize
         /\ job.dir = "usingExtDict" => job.table[h] <= job.startIndex - MinMatch
<1> DEFINE i == job.table[h]
           small == Len(job.src) < Limit64K
           seen(e) == /\ job.dictSmall => e >= job.startIndex - Len(job.dict)
                      /\ e + DistanceMax >= job.startIndex
<1>1. /\ i \in Nat /\ job.startIndex \in Nat /\ dictSize \in Nat /\ n \in Nat
      /\ Window \in Nat /\ Window > 12 /\ job.dir \in Directives
  BY JobTypes, Constants
<1>2. /\ job.api # "stream" => job.dir = "noDict" /\ (job.dictSmall <=> small /\ job.startIndex > 0)
      /\ job.dir = "noDict" => job.dict = << >>
      /\ (i < job.startIndex /\ seen(i))
            => Usable(i, job.startIndex, Len(job.dict), job.dir = "withPrefix64k")
  <2>1. HandedOver(job)
    BY JobTypes
  <2> QED
    BY <2>1 DEF HandedOver
<1>3. job.dir = "noDict" => dictSize = 0
  BY <1>2 DEF dictSize
<1>4. ~byU16
  <2> SUFFICES ASSUME byU16 PROVE FALSE
    OBVIOUS
  <2>1. job.api # "stream" /\ small
    BY DEF byU16, n
  <2>2. job.dictSmall /\ dictSize = 0
    BY <1>1, <1>2, <1>3, <2>1
  <2> QED
    BY <1>1, <2>2 DEF prefixIdxLimit
<1>5. seen(i)
  BY <1>1, <1>4 DEF prefixIdxLimit, dictSize
<1>6. Usable(i, job.startIndex, dictSize, job.dir = "withPrefix64k")
  BY <1>2, <1>5 DEF dictSize
<1> HIDE DEF seen, i
<1>7. /\ i >= job.startIndex - dictSize
      /\ job.dir # "withPrefix64k" => i <= job.startIndex - MinMatch
  BY <1>1, <1>6 DEF Usable
<1>8. job.dir # "noDict"
  BY <1>1, <1>3, <1>7 DEF MinMatch
<1> QED
  BY <1>1, <1>4, <1>7, <1>8 DEF Directives, i

\* Any candidate that LZ4_compress_generic compares with is before the position, in the source or
\* its history, and the four bytes it reads there are the history's, too.
LEMMA CandidateIs ==
  ASSUME job \in Jobs, n > 12, NEW p \in Nat, p + MFLimit <= n,
         NEW t \in [Buckets -> Nat], \A h \in Buckets : Known(h, t[h]),
         \A h \in Buckets : t[h] < p + job.startIndex,
         NEW c, c = Candidate(t, p), InReach(c, p)
  PROVE  /\ c.at \in Int /\ c.low \in Int
         /\ p + job.startIndex - c.index \in 1 .. DistanceMax
         /\ Placed(p, c.at, c.low, p + job.startIndex - c.index, MinMatch)
         /\ Valid(c.at, MinMatch)
<1> DEFINE h == HashPosition(p)
           i == t[h]
           d == job.dictTable[h]
<1>1. h \in Buckets
  BY HashIs, JobTypes DEF MFLimit
<1> HIDE DEF h
<1>2. /\ i \in Nat /\ d \in Nat /\ job.startIndex \in Nat /\ job.dictOffset \in Nat
      /\ dictSize \in Nat /\ n \in Nat /\ Window \in Nat /\ Window > 12
      /\ i < p + job.startIndex /\ Known(h, i)
  BY <1>1, JobTypes, Constants
<1>3. /\ dictEnd \in Int /\ dictEnd <= 0 /\ dictionary \in Int /\ dictionary = dictEnd - dictSize
      /\ lowLimit \in Int /\ lowLimit <= 0
      /\ job.dir = "withPrefix64k" => dictEnd = 0 /\ lowLimit = dictionary
      /\ job.dir # "withPrefix64k" => dictEnd < 0
  BY DictPlace
<1> DEFINE own == [index |-> i, at |-> i - job.startIndex, low |-> lowLimit]
           ext == [index |-> i, at |-> dictBase + i, low |-> dictionary]
           far == [index |-> d + (job.startIndex - job.dictOffset), at |-> dictBase + d,
                   low |-> dictionary]
<1>4. c = IF job.dir = "usingDictCtx" /\ i < job.startIndex THEN far
          ELSE IF job.dir = "usingExtDict" /\ i < job.startIndex THEN ext ELSE own
  BY DEF Candidate, h
<1>5. /\ job.dictSmall => c.index >= prefixIdxLimit
      /\ byU16 \/ c.index + DistanceMax >= p + job.startIndex
  BY DEF InReach
<1> HIDE DEF i, d
<1>6. CASE i >= job.startIndex
  <2>1. c = own
    BY <1>2, <1>4, <1>6
  <2>2. c.index = i /\ c.at = i - job.startIndex /\ c.low = lowLimit
    BY <2>1
  <2> QED
    BY <1>2, <1>3, <1>5, <1>6, <2>2, OwnCandidate
<1>7. CASE i < job.startIndex /\ job.dir = "usingDictCtx"
  <2>1. c = far
    BY <1>4, <1>7
  <2>2. /\ c.index = d + (job.startIndex - job.dictOffset) /\ c.low = dictionary
        /\ c.at = dictBase + d /\ dictBase = dictEnd - job.dictOffset
    BY <1>7, <2>1 DEF dictBase
  <2>3. ~byU16 /\ maybeExtMem
    <3>1. HandedOver(job)
      BY JobTypes
    <3>2. job.api # "stream" => job.dir = "noDict"
      BY <3>1 DEF HandedOver
    <3> QED
      BY <1>7, <3>2 DEF byU16, maybeExtMem
  <2>4. d + DistanceMax >= p + job.dictOffset
    BY <1>2, <1>5, <2>2, <2>3 DEF DistanceMax
  <2>5. /\ d + DistanceMax >= job.dictOffset => Usable(d, job.dictOffset, dictSize, FALSE)
        /\ d < job.dictOffset
    <3>1. HandedOver(job)
      BY JobTypes
    <3>2. \A g \in Buckets :
            /\ job.dictTable[g] + DistanceMax >= job.dictOffset
                 => Usable(job.dictTable[g], job.dictOffset, Len(job.dict), FALSE)
            /\ job.dictTable[g] < job.dictOffset
      BY <1>7, <3>1 DEF HandedOver
    <3> QED
      BY <1>1, <3>2 DEF d, dictSize
  <2>6. d >= job.dictOffset - dictSize /\ d <= job.dictOffset - 4
    BY <1>2, <2>4, <2>5 DEF Usable, MinMatch, DistanceMax
  <2>7. p + job.startIndex - c.index \in 1 .. DistanceMax
    BY <1>2, <2>2, <2>4, <2>5 DEF DistanceMax
  <2>8. c.at \in Int /\ dictionary <= c.at /\ c.at + 4 <= dictEnd
    BY <1>2, <1>3, <2>2, <2>6
  <2>9. c.at - dictEnd = p - (p + job.startIndex - c.index)
    BY <1>2, <1>3, <2>2
  <2> QED
    BY <1>3, <1>7, <2>2, <2>3, <2>7, <2>8, <2>9 DEF Placed, Valid, MinMatch
<1>8. CASE i < job.startIndex /\ job.dir # "usingDictCtx"
  <2>1. i = job.table[h] /\ c.index = i
    BY <1>2, <1>4, <1>8 DEF Known
  <2>2. i + DistanceMax >= p + job.startIndex => i + DistanceMax >= job.startIndex
    BY <1>2 DEF DistanceMax
  <2>3. /\ job.dir \in {"withPrefix64k", "usingExtDict"} /\ ~byU16
        /\ i >= job.startIndex - dictSize
        /\ job.dir = "usingExtDict" => i <= job.startIndex - MinMatch
    BY <1>1, <1>5, <1>8, <2>1, <2>2, OldEntry
  <2>4. p + job.startIndex - i \in 1 .. DistanceMax
    BY <1>2, <1>5, <2>1, <2>3 DEF DistanceMax
  <2>5. CASE job.dir = "usingExtDict"
    <3>1. c.at = dictEnd - job.startIndex + i /\ c.low = dictionary /\ maybeExtMem
      BY <1>2, <1>3, <1>4, <1>8, <2>5 DEF dictBase, maybeExtMem
    <3>2. dictionary <= c.at /\ c.at + 4 <= dictEnd /\ c.at - dictEnd = p - (p + job.startIndex - i)
      BY <1>2, <1>3, <2>3, <2>5, <3>1 DEF MinMatch
    <3> QED
      BY <1>2, <1>3, <2>1, <2>4, <2>5, <3>1, <3>2 DEF Placed, Valid, MinMatch
  <2>6. CASE job.dir = "withPrefix64k"
    <3>1. c = own
      BY <1>4, <2>6
    <3>2. c.at = i - job.startIndex /\ c.low = lowLimit
      BY <3>1
    <3>3. /\ lowLimit <= c.at /\ c.at < p /\ c.at = p - (p + job.startIndex - i)
          /\ c.at + 4 <= n
      BY <1>2, <1>3, <1>8, <2>3, <2>6, <3>2 DEF MFLimit
    <3>4. c.at \in Int /\ c.low \in Int
      BY <1>2, <1>3, <3>2
    <3>5. Placed(p, c.at, c.low, p + job.startIndex - i, MinMatch)
      BY <3>2, <3>3 DEF Placed
    <3>6. Valid(c.at, MinMatch)
      BY <1>3, <2>6, <3>2, <3>3 DEF Valid, MinMatch, iend
    <3> QED
      BY <2>1, <2>4, <3>4, <3>5, <3>6
  <2> QED
    BY <2>3, <2>5, <2>6
<1> QED
  BY <1>2, <1>6, <1>7, <1>8

\* The text repeats k bytes at the distance o.
Agrees(p, o, k) ==
  /\ p - o >= -dictSize
  /\ \A i \in 0 .. k - 1 : TextAt(p + i) = TextAt(p + i - o)

LEMMA PlacedIs ==
  ASSUME job \in Jobs, ip \in Nat, match \in Int, offset \in Nat, offset > 0,
         NEW k \in Nat, Placed(ip, match, low, offset, k)
  PROVE  /\ ip - offset >= -dictSize /\ low <= match
         /\ InDict => match - dictEnd = ip - offset /\ match + k <= dictEnd
         /\ ~InDict => match = ip - offset /\ low = lowLimit
         /\ \A i \in Nat : ip + i < n /\ (InDict => match + i < dictEnd)
                             => At(match + i) = TextAt(ip + i - offset)
<1>1. /\ dictEnd \in Int /\ dictEnd <= 0 /\ dictionary \in Int /\ dictionary = dictEnd - dictSize
      /\ lowLimit \in Int /\ lowLimit <= 0 /\ -dictSize <= lowLimit
      /\ job.dir = "withPrefix64k" => dictEnd = 0 /\ lowLimit = dictionary
      /\ job.dir # "withPrefix64k" => dictEnd < 0 /\ lowLimit = 0
      /\ maybeExtMem => job.dir # "withPrefix64k"
      /\ dictSize \in Nat /\ n \in Nat
  BY DictPlace, JobTypes
<1>2. CASE InDict
  <2>1. low # lowLimit /\ low = dictionary
    BY <1>1, <1>2 DEF InDict
  <2>2. match - dictEnd = ip - offset /\ low <= match /\ match + k <= dictEnd
    BY <2>1 DEF Placed
  <2>3. ASSUME NEW i \in Nat, ip + i < n, match + i < dictEnd
        PROVE  At(match + i) = TextAt(ip + i - offset)
    <3>1. match + i \in Int /\ dictionary <= match + i /\ (match + i) - dictEnd = ip + i - offset
      BY <1>1, <2>1, <2>2
    <3> QED
      BY <2>3, <3>1, AtIs
  <2> QED
    BY <1>1, <1>2, <2>1, <2>2, <2>3
<1>3. CASE ~InDict
  <2>1. match = ip - offset /\ low = lowLimit /\ low <= match
    BY <1>3 DEF Placed, InDict
  <2>2. ASSUME NEW i \in Nat, ip + i < n PROVE At(match + i) = TextAt(ip + i - offset)
    <3>1. match + i \in Int /\ match + i < n /\ match + i = ip + i - offset /\ lowLimit <= match + i
      BY <1>1, <2>1, <2>2
    <3>2. CASE 0 <= match + i
      BY <3>1, <3>2, AtIs
    <3>3. CASE match + i < 0
      <4>1. dictEnd = 0 /\ dictionary <= match + i /\ (match + i) - dictEnd = ip + i - offset
        BY <1>1, <3>1, <3>3
      <4> QED
        BY <3>1, <3>3, <4>1, AtIs
    <3> QED
      BY <3>1, <3>2, <3>3
  <2> QED
    BY <1>1, <1>3, <2>1, <2>2
<1> QED
  BY <1>2, <1>3

\* LZ4_count finds a match that does not reach the last five bytes, and misses nothing of it; across
\* the dictionary's end it goes on at the beginning of the source.
LEMMA MatchCodeIs ==
  ASSUME job \in Jobs, ip \in Nat, ip + MFLimit <= n, Found(ip, match, low, offset, MinMatch)
  PROVE  /\ MatchCode \in Nat
         /\ ip + MinMatch + MatchCode + LastLiterals <= n
         /\ Agrees(ip, offset, MinMatch + MatchCode)
         /\ \A k \in Nat : /\ Found(ip, match, low, offset, k) /\ k >= MinMatch
                           /\ ip + k + LastLiterals <= n
                           => k <= MinMatch + MatchCode
<1> DEFINE ml == matchlimit
<1>1. n \in Nat /\ ml = n - 5 /\ ip + 4 <= ml
  BY JobTypes DEF matchlimit, iend, LastLiterals, MFLimit
<1>2. /\ offset \in Nat /\ offset > 0 /\ match \in Int /\ low \in Int
      /\ Placed(ip, match, low, offset, 4)
      /\ \A i \in 0 .. 3 : At(ip + i) = At(match + i)
  BY Constants DEF Found, MinMatch, DistanceMax
<1>3. \A i \in Nat : ip + i < n => At(ip + i) = TextAt(ip + i)
  BY <1>1, AtIs
<1>4. /\ ip - offset >= -dictSize /\ dictEnd \in Int
      /\ InDict => match - dictEnd = ip - offset /\ match + 4 <= dictEnd
      /\ ~InDict => match = ip - offset
      /\ \A i \in Nat : (ip + i < n /\ (InDict => match + i < dictEnd))
                          => At(match + i) = TextAt(ip + i - offset)
  <2>1. dictEnd \in Int
    BY DictPlace
  <2>2. 4 \in Nat
    OBVIOUS
  <2>3. Placed(ip, match, low, offset, 4) /\ offset \in Nat /\ offset > 0 /\ match \in Int
    BY <1>2
  <2>4. /\ ip - offset >= -dictSize
        /\ InDict => match - dictEnd = ip - offset /\ match + 4 <= dictEnd
        /\ ~InDict => match = ip - offset
    BY <2>2, <2>3, PlacedIs
  <2>5. ASSUME NEW i \in Nat, ip + i < n, InDict => match + i < dictEnd
        PROVE  At(match + i) = TextAt(ip + i - offset)
    BY <2>2, <2>3, <2>5, PlacedIs
  <2> QED
    BY <2>1, <2>4, <2>5
<1> HIDE DEF ml
<1>5. CASE ~InDict
  <2> DEFINE c == Count(ip + 4, match + 4, ml)
  <2>1. MatchCode = c
    BY <1>5 DEF MatchCode, MinMatch, ml
  <2>2. /\ c \in 0 .. ml - (ip + 4)
        /\ \A i \in 0 .. c - 1 : At((ip + 4) + i) = At((match + 4) + i)
        /\ c = ml - (ip + 4) \/ At((ip + 4) + c) # At((match + 4) + c)
    <3>1. ip + 4 \in Int /\ match + 4 \in Int /\ ml \in Int /\ ip + 4 <= ml
      BY <1>1, <1>2
    <3> QED
      BY <3>1, CountIs
  <2> HIDE DEF c
  <2>3. ASSUME NEW i \in 0 .. 4 + c - 1 PROVE TextAt(ip + i) = TextAt(ip + i - offset)
    <3>1. At(ip + i) = At(match + i)
      <4>1. CASE i < 4
        BY <1>2, <4>1
      <4>2. CASE i >= 4
        <5>1. /\ i - 4 \in 0 .. c - 1
              /\ (ip + 4) + (i - 4) = ip + i /\ (match + 4) + (i - 4) = match + i
          BY <1>2, <2>2, <4>2
        <5> QED
          BY <2>2, <5>1
      <4> QED
        BY <2>2, <4>1, <4>2
    <3>2. i \in Nat /\ ip + i < n
      BY <1>1, <2>2
    <3> QED
      BY <1>3, <1>4, <1>5, <3>1, <3>2
  <2>4. ASSUME NEW k \in Nat, Found(ip, match, low, offset, k), k >= 4, ip + k + 5 <= n,
               k > 4 + c
        PROVE  FALSE
    <3>1. c # ml - (ip + 4)
      BY <1>1, <2>4
    <3>2. 4 + c \in 0 .. k - 1
      BY <2>2, <2>4
    <3>3. At(ip + (4 + c)) = At(match + (4 + c))
      BY <2>4, <3>2 DEF Found
    <3>4. ip + (4 + c) = (ip + 4) + c /\ match + (4 + c) = (match + 4) + c
      BY <1>2, <2>2
    <3> QED
      BY <2>2, <3>1, <3>3, <3>4
  <2>5. c \in Nat /\ ip + 4 + c + 5 <= n
    BY <1>1, <2>2
  <2>6. \A k \in Nat : Found(ip, match, low, offset, k) /\ k >= 4 /\ ip + k + 5 <= n => k <= 4 + c
    BY <2>4, <2>5
  <2> QED
    BY <1>4, <2>1, <2>3, <2>5, <2>6 DEF Agrees, MinMatch, LastLiterals
<1>6. CASE InDict
  <2> DEFINE limit == MinOf(ip + dictEnd - match, ml)
             f == Count(ip + 4, match + 4, limit)
             g == Count(limit, 0, ml)
             c == f + (IF ip + 4 + f = limit THEN g ELSE 0)
  <2>1. MatchCode = c
    BY <1>6 DEF MatchCode, MinMatch, ml
  <2>2. /\ limit \in Int /\ ip + 4 <= limit /\ limit <= ml /\ limit <= offset
        /\ limit = offset \/ limit = ml
    BY <1>1, <1>2, <1>4, <1>6 DEF MinOf
  <2> HIDE DEF limit
  <2>3. /\ f \in 0 .. limit - (ip + 4)
        /\ \A i \in 0 .. f - 1 : At((ip + 4) + i) = At((match + 4) + i)
        /\ f = limit - (ip + 4) \/ At((ip + 4) + f) # At((match + 4) + f)
    <3>1. ip + 4 \in Int /\ match + 4 \in Int
      BY <1>1, <1>2
    <3> QED
      BY <2>2, <3>1, CountIs
  <2>4. /\ g \in 0 .. ml - limit
        /\ \A i \in 0 .. g - 1 : At(limit + i) = At(0 + i)
    <3>1. limit \in Int /\ 0 \in Int /\ ml \in Int /\ limit <= ml
      BY <1>1, <2>2
    <3> QED
      BY <3>1, CountIs
  <2> HIDE DEF f, g
  <2>5. c \in Nat /\ ip + 4 + c + 5 <= n
    BY <1>1, <2>2, <2>3, <2>4
  <2>6. ASSUME NEW i \in 0 .. 4 + f - 1 PROVE TextAt(ip + i) = TextAt(ip + i - offset)
    <3>1. At(ip + i) = At(match + i)
      <4>1. CASE i < 4
        BY <1>2, <4>1
      <4>2. CASE i >= 4
        <5>1. /\ i - 4 \in 0 .. f - 1
              /\ (ip + 4) + (i - 4) = ip + i /\ (match + 4) + (i - 4) = match + i
          BY <1>2, <2>3, <4>2
        <5> QED
          BY <2>3, <5>1
      <4> QED
        BY <2>3, <4>1, <4>2
    <3>2. i \in Nat /\ ip + i < n /\ match + i < dictEnd
      BY <1>1, <1>2, <1>4, <1>6, <2>2, <2>3
    <3> QED
      BY <1>3, <1>4, <1>6, <3>1, <3>2
  <2>7. ASSUME NEW i \in 0 .. 4 + c - 1, i >= 4 + f
        PROVE  TextAt(ip + i) = TextAt(ip + i - offset)
    <3>1. ip + 4 + f = limit
      BY <2>3, <2>7
    <3> DEFINE j == i - (4 + f)
    <3>2. j \in 0 .. g - 1 /\ limit + j = ip + i
      BY <2>3, <2>4, <2>7, <3>1
    <3>3. At(limit + j) = At(0 + j)
      BY <2>4, <3>2
    <3>4. limit < ml
      BY <1>1, <2>2, <2>4, <3>2
    <3>5. limit = offset
      BY <1>1, <2>2, <3>4
    <3>6. 0 + j = ip + i - offset /\ 0 <= 0 + j /\ 0 + j < n /\ ip + i < n /\ 0 + j \in Int
      BY <1>1, <1>2, <2>2, <2>4, <3>2, <3>5
    <3>7. At(0 + j) = TextAt(ip + i - offset)
      BY <3>6, AtIs
    <3> QED
      BY <1>3, <3>2, <3>3, <3>6, <3>7
  <2>8. ASSUME NEW k \in Nat, Found(ip, match, low, offset, k), k >= 4, ip + k + 5 <= n,
               k > 4 + c
        PROVE  FALSE
    <3>1. match + k <= dictEnd
      BY <1>2, <1>6, <2>8, PlacedIs DEF Found
    <3>2. ip + k <= offset
      BY <1>2, <1>4, <1>6, <3>1
    <3>3. CASE f = limit - (ip + 4)
      <4>1. c = f + g /\ 4 + f = limit - ip
        BY <2>2, <2>3, <3>3
      <4>2. limit = offset
        <5>1. CASE limit = ml
          <6>1. g = 0
            BY <1>1, <2>4, <5>1
          <6> QED
            BY <1>1, <2>2, <2>3, <2>8, <4>1, <5>1, <6>1
        <5> QED
          BY <2>2, <5>1
      <4> QED
        BY <1>2, <2>3, <2>4, <2>8, <3>2, <4>1, <4>2
    <3>4. CASE f # limit - (ip + 4)
      <4>1. 4 + f \in 0 .. k - 1
        BY <2>3, <2>4, <2>5, <2>8
      <4>2. At(ip + (4 + f)) = At(match + (4 + f))
        BY <2>8, <4>1 DEF Found
      <4>3. ip + (4 + f) = (ip + 4) + f /\ match + (4 + f) = (match + 4) + f
        BY <1>2, <2>3
      <4> QED
        BY <2>3, <3>4, <4>2, <4>3
    <3> QED
      BY <3>3, <3>4
  <2> HIDE DEF c
  <2>9. \A k \in Nat : Found(ip, match, low, offset, k) /\ k >= 4 /\ ip + k + 5 <= n => k <= 4 + c
    BY <2>5, <2>8
  <2>10. \A i \in 0 .. 4 + c - 1 : TextAt(ip + i) = TextAt(ip + i - offset)
    <3>1. ASSUME NEW i \in 0 .. 4 + c - 1 PROVE TextAt(ip + i) = TextAt(ip + i - offset)
      <4>1. CASE i >= 4 + f
        BY <2>7, <4>1
      <4>2. CASE ~(i >= 4 + f)
        BY <2>3, <2>6, <4>2
      <4> QED
        BY <4>1, <4>2
    <3> QED
      BY <3>1
  <2> QED
    BY <1>4, <2>1, <2>5, <2>9, <2>10 DEF Agrees, MinMatch, LastLiterals
<1> QED
  BY <1>5, <1>6

\* The match cut short to fill the output leaves room for five literals and no more, and is shorter
\* than what was found.
LEMMA FillCodeIs ==
  ASSUME NEW code \in Nat, op \in Nat, job.cap \in Nat, directive # "notLimited",
         op + 2 + 1 + MFLimit - MinMatch <= job.cap, NoRoomForMatch(code)
  PROVE  /\ FillCode \in Nat /\ FillCode < code /\ FillCode >= RunMask
         /\ op + 2 + Extra(FillCode) + 1 + LastLiterals = job.cap
<1> DEFINE r == job.cap - (op + 2) - 1 - LastLiterals
<1>1. r \in Nat /\ r >= 3 /\ op + 2 + r + 1 + LastLiterals = job.cap
  BY DEF MFLimit, MinMatch, LastLiterals
<1> HIDE DEF r
<1>2. /\ RunMask \in Nat /\ ByteMax \in Nat /\ RunMask < ByteMax /\ RunMask > 8
      /\ r * ByteMax = ByteMax * r /\ ByteMax * r \in Nat
  BY <1>1, Constants
<1>3. FillCode = RunMask - 1 + ByteMax * r
  BY <1>2 DEF FillCode, r
<1>4. ByteMax * r >= ByteMax + ByteMax + ByteMax
  <2>1. PICK s \in Nat : r = 3 + s
    <3>1. r - 3 \in Nat
      BY <1>1
    <3> QED
      BY <1>1, <3>1
  <2>2. ByteMax * r = ByteMax + ByteMax + ByteMax + ByteMax * s /\ ByteMax * s \in Nat
    BY <1>2, <2>1
  <2> QED
    BY <1>2, <2>2
<1>5. FillCode \in Nat /\ FillCode >= RunMask
  BY <1>2, <1>3, <1>4
<1>6. Extra(FillCode) = r
  <2>1. /\ FillCode + ByteMax - RunMask \in Nat
        /\ FillCode + ByteMax - RunMask = ByteMax * r + (ByteMax - 1)
    BY <1>2, <1>3, <1>5
  <2>2. (FillCode + ByteMax - RunMask) \div ByteMax = r
    BY <1>1, <1>2, <2>1, QuotientIs
  <2> QED
    BY <1>5, <2>2, ExtraIs
<1>7. FillCode < code
  <2> DEFINE e == Extra(code)
  <2>1. e \in Nat /\ ByteMax * e <= code + ByteMax - RunMask
        /\ op + 2 + (1 + LastLiterals) + e > job.cap
    BY ExtraIs DEF NoRoomForMatch
  <2> HIDE DEF e
  <2>2. e >= r + 1
    BY <1>1, <2>1 DEF LastLiterals
  <2>3. PICK s \in Nat : e = r + 1 + s
    <3>1. e - (r + 1) \in Nat
      BY <1>1, <2>1, <2>2
    <3> QED
      BY <1>1, <2>1, <3>1
  <2>4. ByteMax * e = ByteMax * r + ByteMax + ByteMax * s /\ ByteMax * s \in Nat
    BY <1>1, <1>2, <2>3
  <2> QED
    BY <1>2, <1>3, <2>1, <2>4
<1> QED
  BY <1>1, <1>5, <1>6, <1>7

\* A match begins earlier by as many bytes as "Catch up" went back.
LEMMA FoundBack ==
  ASSUME ip \in Nat, Found(ip, match, low, offset, MinMatch), dictEnd \in Int,
         NEW b \in Nat, b <= match - low,
         \A i \in 1 .. b : At(ip - i) = At(match - i)
  PROVE  /\ Found(ip - b, match - b, low, offset, b + MinMatch)
         /\ Found(ip - b, match - b, low, offset, MinMatch)
<1>1. /\ offset \in 1 .. DistanceMax /\ match \in Int /\ low \in Int /\ offset \in Int
      /\ Placed(ip, match, low, offset, 4) /\ \A i \in 0 .. 3 : At(ip + i) = At(match + i)
  BY Constants DEF Found, MinMatch, DistanceMax
<1>2. Placed(ip - b, match - b, low, offset, b + 4) /\ Placed(ip - b, match - b, low, offset, 4)
  <2>1. CASE match = ip - offset /\ low = lowLimit /\ low <= match /\ match < ip
    <3>1. match - b = (ip - b) - offset /\ low <= match - b /\ match - b < ip - b
      BY <1>1, <2>1
    <3> QED
      BY <2>1, <3>1 DEF Placed
  <2>2. CASE maybeExtMem /\ low = dictionary /\ match - dictEnd = ip - offset /\ low <= match
             /\ match + 4 <= dictEnd
    <3>1. /\ (match - b) - dictEnd = (ip - b) - offset /\ low <= match - b
          /\ (match - b) + (b + 4) <= dictEnd /\ (match - b) + 4 <= dictEnd
      BY <1>1, <2>2
    <3> QED
      BY <2>2, <3>1 DEF Placed
  <2> QED
    BY <1>1, <2>1, <2>2 DEF Placed
<1>3. ASSUME NEW i \in 0 .. (b + 4) - 1 PROVE At((ip - b) + i) = At((match - b) + i)
  <2>1. CASE i < b
    <3>1. b - i \in 1 .. b /\ (ip - b) + i = ip - (b - i) /\ (match - b) + i = match - (b - i)
      BY <1>1, <2>1
    <3> QED
      BY <3>1
  <2>2. CASE i >= b
    <3>1. i - b \in 0 .. 3 /\ (ip - b) + i = ip + (i - b) /\ (match - b) + i = match + (i - b)
      BY <1>1, <2>2
    <3> QED
      BY <1>1, <3>1
  <2> QED
    BY <2>1, <2>2
<1>4. match - b \in Int
  BY <1>1
<1>5. Found(ip - b, match - b, low, offset, b + 4)
  BY <1>1, <1>2, <1>3, <1>4 DEF Found
<1>6. ASSUME NEW i \in 0 .. 4 - 1 PROVE At((ip - b) + i) = At((match - b) + i)
  BY <1>3
<1>7. Found(ip - b, match - b, low, offset, 4)
  BY <1>1, <1>2, <1>4, <1>6 DEF Found
<1> QED
  BY <1>5, <1>7 DEF MinMatch

-----------------------------------------------------------------------------
(* The table.                                                              *)

LEMMA PutIs ==
  ASSUME job \in Jobs, NEW t \in [Buckets -> Nat], \A h \in Buckets : Known(h, t[h]),
         NEW p \in Nat, p + MFLimit <= n
  PROVE  /\ Put(t, p) \in [Buckets -> Nat]
         /\ \A h \in Buckets : Known(h, Put(t, p)[h])
         /\ \A h \in Buckets : Put(t, p)[h] = t[h] \/ Put(t, p)[h] = p + job.startIndex
<1> DEFINE g == HashPosition(p)
           i == p + job.startIndex
<1>1. g \in Buckets /\ i \in Nat /\ job.startIndex \in Nat /\ i - job.startIndex = p
  BY JobTypes, HashIs DEF MFLimit
<1>2. Known(g, i)
  <2>1. i = job.startIndex \/ i > job.startIndex
    BY <1>1
  <2> QED
    BY <1>1, <2>1 DEF Known
<1>3. Put(t, p) = [t EXCEPT ![g] = i]
  BY DEF Put
<1> HIDE DEF g, i
<1>4. \A h \in Buckets : Put(t, p)[h] = IF h = g THEN i ELSE t[h]
  BY <1>3
<1> QED
  BY <1>1, <1>2, <1>3, <1>4 DEF i

\* What the shortened match leaves in the table lies before its end.
LEMMA ForgetIs ==
  ASSUME job \in Jobs, job.startIndex = 0, table \in [Buckets -> Nat], filled \in Nat,
         \A h \in Buckets : Known(h, table[h]), NEW p \in Nat, p > 0,
         \A h \in Buckets : table[h] < p \/ table[h] <= filled
  PROVE  /\ Forget(p) \in [Buckets -> Nat]
         /\ \A h \in Buckets : Known(h, Forget(p)[h])
         /\ \A h \in Buckets : Forget(p)[h] < p
<1>1. CASE p > filled
  BY <1>1 DEF Forget
<1>2. CASE ~(p > filled)
  <2>1. \A h \in Buckets : Forget(p)[h] = IF \E q \in p .. filled : HashPosition(q) = h
                                           THEN 0 ELSE table[h]
    BY <1>2 DEF Forget
  <2>2. Forget(p) = [h \in Buckets |-> IF \E q \in p .. filled : HashPosition(q) = h
                                         THEN 0 ELSE table[h]]
    BY <1>2 DEF Forget
  <2>3. Forget(p) \in [Buckets -> Nat]
    BY <2>2
  <2>4. \A h \in Buckets : Known(h, 0)
    BY DEF Known
  <2>5. ASSUME NEW h \in Buckets PROVE Forget(p)[h] < p
    <3>1. CASE table[h] < p
      BY <2>1, <3>1
    <3>2. CASE ~(table[h] < p)
      <4>1. table[h] \in p .. filled /\ table[h] > 0 /\ table[h] - 0 = table[h]
        BY <3>2
      <4>2. HashPosition(table[h]) = h
        <5>1. Known(h, table[h])
          OBVIOUS
        <5> QED
          BY <4>1, <5>1 DEF Known
      <4>3. Forget(p)[h] = 0
        BY <2>1, <4>1, <4>2
      <4> QED
        BY <4>3
    <3> QED
      BY <3>1, <3>2
  <2> QED
    BY <2>1, <2>3, <2>4, <2>5
<1> QED
  BY <1>1, <1>2

-----------------------------------------------------------------------------
(* The inductive invariant.                                                *)

Compressing == {"search", "literals", "match", "next"}

\* Where the compressor is in its source, at each label.
Places ==
  /\ pc = "start" => ip = 0 /\ anchor = 0 /\ op = 0 /\ block = << >>
  /\ pc \in Compressing => n > 12 /\ n <= MaxInput
  /\ pc = "search" => anchor < fwd /\ fwd + 11 <= n /\ step > 0 /\ searches >= SkipTrigger
  /\ pc = "literals" => anchor < ip /\ ip + MFLimit <= n
  /\ pc = "match" => anchor <= ip /\ ip + MFLimit <= n
  /\ pc = "next" => anchor = ip /\ MinMatch <= ip /\ ip + LastLiterals <= n
  /\ pc = "last" => n > 0 /\ n <= MaxInput

\* What the table holds, and before which position.
Tables ==
  /\ \A h \in Buckets : Known(h, table[h])
  /\ pc = "start" => \A h \in Buckets : table[h] <= job.startIndex
  /\ pc = "search" => \A h \in Buckets : table[h] < fwd + job.startIndex
  /\ pc = "literals" => \A h \in Buckets : table[h] <= ip + job.startIndex
  /\ pc = "match" => \A h \in Buckets : table[h] <= MaxOf(ip, filled) + job.startIndex
  /\ pc = "next" => \A h \in Buckets : table[h] < ip + job.startIndex

\* The match that is being emitted goes on beyond the position it was found at, unless there is no
\* room for it.
Matched ==
  /\ pc = "literals" => Found(ip, match, low, offset, MinMatch)
  /\ pc = "match" =>
       /\ Found(ip, match, low, offset, MinMatch)
       /\ \/ filled <= ip
          \/ directive = "fillOutput" /\ op + 2 + 1 + MFLimit - MinMatch > job.cap
          \/ /\ filled + MFLimit <= n
             /\ Found(ip, match, low, offset, filled - ip + MinMatch)
  /\ pc = "next" => \/ filled < ip
                    \/ directive = "fillOutput" /\ op + 1 + LastLiterals >= job.cap

\* Where the current sequence begins in the output.
Base == IF pc = "match" THEN token ELSE op

\* What has been written is paid for by what has been read, and there is room for what must follow.
Roomy ==
  /\ wrote <= job.cap /\ ~stray
  /\ pc # "done" => Paid(Base, anchor)
  /\ pc = "match" => op = token + 1 + Extra(ip - anchor) + (ip - anchor)
  /\ directive # "notLimited" => /\ pc = "next" => op + 1 + LastLiterals <= job.cap
                                 /\ pc = "match" => op + LastLiterals <= job.cap
  /\ directive = "fillOutput" => /\ pc \in {"search", "literals", "last"} => op + 1 <= job.cap
                                 /\ pc = "match" => token + 1 <= job.cap

Core == TypeOK /\ job \in Jobs /\ Places /\ Tables /\ Matched /\ Roomy

\* Room where nothing is tested.
LEMMA BoundIs ==
  ASSUME job \in Jobs, n <= MaxInput, job.cap >= compressBound(n)
  PROVE  /\ n \div ByteMax \in Nat
         /\ job.cap >= n + n \div ByteMax + 16
<1>1. n \in Nat /\ ByteMax \in Nat /\ ByteMax > 0 /\ MaxInput \in Nat
  BY JobTypes, Constants
<1>2. n \div ByteMax \in Nat
  BY <1>1, Quotient
<1> QED
  BY <1>1, <1>2 DEF compressBound

LEMMA NotLimitedIs ==
  ASSUME job \in Jobs, n <= MaxInput, directive = "notLimited"
  PROVE  /\ n \div ByteMax \in Nat
         /\ job.cap >= n + n \div ByteMax + 16
  BY BoundIs DEF directive

LEMMA Directions ==
  /\ directive \in {"notLimited", "limitedOutput", "fillOutput"}
  /\ directive = "fillOutput" => job.api = "destSize"
  BY DEF directive

LEMMA InitCore == Init => Core
<1> SUFFICES ASSUME Init PROVE Core
  OBVIOUS
<1>1. /\ job \in Jobs /\ pc = "start" /\ table = job.table /\ ip = 0 /\ fwd = 0 /\ step = 1
      /\ searches = 0 /\ anchor = 0 /\ match = 0 /\ low = 0 /\ offset = 0 /\ filled = 0 /\ token = 0
      /\ op = 0 /\ wrote = 0 /\ block = << >> /\ result = 0 /\ stray = FALSE
  BY DEF Init
<1>2. job \in JobType /\ n \in Nat /\ job.cap \in Nat /\ job.startIndex \in Nat
      /\ job.table \in [Buckets -> Nat]
  BY <1>1, JobTypes
<1>3. TypeOK
  <2>1. << >> \in Seq([lit : Nat, offset : Nat, ml : Nat])
    OBVIOUS
  <2>2. stray \in BOOLEAN
    BY <1>1
  <2>3. pc \in Labels
    BY <1>1 DEF Labels
  <2> QED
    BY <1>1, <1>2, <2>1, <2>2, <2>3 DEF TypeOK
<1>4. Places
  BY <1>1 DEF Places, Compressing
<1>5. Tables
  <2>1. \A h \in Buckets : job.table[h] < job.startIndex \/ job.table[h] = 0
    <3>1. HandedOver(job)
      BY <1>1, JobTypes
    <3> QED
      BY <3>1 DEF HandedOver
  <2>2. ASSUME NEW h \in Buckets PROVE Known(h, table[h]) /\ table[h] <= job.startIndex
    BY <1>1, <1>2, <2>1 DEF Known
  <2> QED
    BY <1>1, <2>2 DEF Tables
<1>6. Matched
  BY <1>1 DEF Matched
<1>7. Roomy
  <2>1. Paid(0, 0)
    BY Constants DEF Paid
  <2> QED
    BY <1>1, <1>2, <2>1 DEF Roomy, Base
<1> QED
  BY <1>1, <1>3, <1>4, <1>5, <1>6, <1>7 DEF Core

\* What the invariant says of the types, with the constants of the call.
LEMMA CoreTypes ==
  ASSUME Core
  PROVE  /\ job \in Jobs /\ n \in Nat /\ job.cap \in Nat
         /\ job.startIndex \in Nat /\ dictSize \in Nat
         /\ job.acceleration \in Nat /\ job.acceleration > 0
         /\ pc \in Labels /\ table \in [Buckets -> Nat]
         /\ ip \in Nat /\ ip <= n /\ fwd \in Nat /\ step \in Nat /\ searches \in Nat
         /\ anchor \in Nat /\ anchor <= n
         /\ match \in Int /\ low \in Int /\ offset \in Int
         /\ filled \in Nat /\ filled <= n /\ token \in Nat /\ op \in Nat /\ wrote \in Nat
         /\ block \in Seq([lit : Nat, offset : Nat, ml : Nat])
         /\ result \in Nat /\ stray \in BOOLEAN
<1>1. /\ job \in Jobs /\ n \in Nat /\ job.cap \in Nat /\ job.startIndex \in Nat /\ dictSize \in Nat
      /\ job.acceleration \in Nat /\ job.acceleration > 0
  BY JobTypes DEF Core
<1> QED
  BY <1>1 DEF Core, TypeOK

\* The labels where nothing is compressed any more.
LEMMA TablesOver ==
  ASSUME \A h \in Buckets : Known(h, table[h]), pc \in {"last", "done"}
  PROVE  Tables
  BY DEF Tables

\* A step leaves the call alone, so the next table is judged as this one is.
LEMMA KnownNext ==
  ASSUME job' = job, \A h \in Buckets : Known(h, table'[h])
  PROVE  (\A h \in Buckets : Known(h, table[h]))'
<1>1. n' = n /\ \A a : HashPosition(a)' = HashPosition(a)
  BY SameJob
<1>2. SUFFICES ASSUME NEW h \in Buckets PROVE Known(h, table[h])'
  OBVIOUS
<1>3. PICK i : i = table'[h]
  OBVIOUS
<1>4. PICK a : a = i - job.startIndex
  OBVIOUS
<1>5. Known(h, i)
  BY <1>3
<1>6. HashPosition(a)' = HashPosition(a)
  BY <1>1
<1> QED
  BY <1>1, <1>3, <1>4, <1>5, <1>6 DEF Known

LEMMA TimesIs ==
  ASSUME NEW a \in Nat, a > 0, NEW b \in Nat
  PROVE  a * b \in Nat /\ a * b >= b
<1>1. PICK c \in Nat : a = c + 1
  <2>1. a - 1 \in Nat
    OBVIOUS
  <2> QED
    BY <2>1
<1>2. a * b = c * b + b /\ c * b \in Nat
  BY <1>1
<1> QED
  BY <1>2

LEMMA BeginCore ==
  ASSUME Core, Begin
  PROVE  Core'
<1>0. /\ job \in Jobs /\ n \in Nat /\ job.cap \in Nat /\ job.startIndex \in Nat
      /\ job.acceleration \in Nat /\ job.acceleration > 0 /\ table \in [Buckets -> Nat]
      /\ MaxInput \in Nat /\ SkipTrigger \in Nat /\ SkipTrigger > 0
  BY CoreTypes, Constants
<1>1. /\ ip \in 0 .. n /\ fwd \in Nat /\ step \in Nat /\ searches \in Nat /\ anchor \in 0 .. n
      /\ match \in Int /\ low \in Int /\ offset \in Int /\ filled \in 0 .. n /\ token \in Nat
      /\ op \in Nat /\ wrote \in Nat /\ block \in Seq([lit : Nat, offset : Nat, ml : Nat])
      /\ result \in Nat
  BY DEF Core, TypeOK
<1>2. pc = "start"
  BY DEF Begin
<1>3. /\ ip = 0 /\ anchor = 0 /\ op = 0 /\ block = << >>
      /\ wrote <= job.cap /\ stray = FALSE /\ Paid(0, 0)
      /\ \A h \in Buckets : Known(h, table[h]) /\ table[h] <= job.startIndex
  <2>1. stray \in BOOLEAN
    BY CoreTypes
  <2> QED
    BY <1>2, <2>1 DEF Core, Places, Roomy, Base, Tables
<1>4. job' = job
  BY DEF Begin, Goto, Return
<1>5. /\ anchor' = anchor /\ match' = match /\ low' = low /\ offset' = offset
      /\ filled' = filled /\ token' = token /\ stray' = stray
  BY DEF Begin
<1>6. n' = n /\ directive' = directive /\ job.cap' = job.cap /\ job.startIndex' = job.startIndex
      /\ job' \in Jobs /\ job' \in JobType
  BY <1>0, <1>4, SameJob, JobTypes
<1>7. stray' \in BOOLEAN
  BY <1>3, <1>5
<1>8. /\ (pc' \in {"last", "done"} /\ table' = table) => Tables'
      /\ (pc' = "search" /\ table' = Put(table, 0) /\ fwd' = 1 /\ n > 12) => Tables'
  <2>1. ASSUME pc' \in {"last", "done"}, table' = table PROVE Tables'
    <3>1. (\A h \in Buckets : Known(h, table[h]))'
      BY <1>3, <1>4, <2>1, KnownNext
    <3> QED
      BY <2>1, <3>1 DEF Tables
  <2>2. ASSUME pc' = "search", table' = Put(table, 0), fwd' = 1, n > 12 PROVE Tables'
    <3>1. PICK p \in Nat : p = 0
      OBVIOUS
    <3>2. p + MFLimit <= n /\ table' = Put(table, p)
      BY <1>0, <2>2, <3>1 DEF MFLimit
    <3>3. /\ \A h \in Buckets : Known(h, Put(table, p)[h])
          /\ \A h \in Buckets : Put(table, p)[h] = table[h] \/ Put(table, p)[h] = p + job.startIndex
      BY <1>0, <1>3, <3>2, PutIs
    <3>4. (\A h \in Buckets : Known(h, table[h]))'
      BY <1>4, <3>2, <3>3, KnownNext
    <3>5. \A h \in Buckets : table'[h] < fwd' + job.startIndex'
      BY <1>0, <1>3, <1>6, <2>2, <3>1, <3>2, <3>3
    <3> QED
      BY <2>2, <3>4, <3>5 DEF Tables
  <2> QED
    BY <2>1, <2>2
<1>9. CASE n > MaxInput
  <2>1. /\ pc' = "done" /\ result' = 0 /\ op' = op /\ wrote' = wrote /\ block' = block
        /\ table' = table /\ ip' = ip /\ fwd' = fwd /\ step' = step /\ searches' = searches
    BY <1>0, <1>9 DEF Begin, Return
  <2>2. TypeOK'
    BY <1>0, <1>1, <1>5, <1>6, <1>7, <2>1 DEF TypeOK, Labels
  <2>3. Places' /\ Matched'
    BY <2>1 DEF Places, Matched, Compressing
  <2>4. Roomy'
    BY <1>3, <1>5, <1>6, <2>1 DEF Roomy
  <2> QED
    BY <1>6, <1>8, <2>1, <2>2, <2>3, <2>4 DEF Core
<1>10. CASE n = 0
  <2>1. /\ pc' = "done" /\ table' = table /\ ip' = ip /\ fwd' = fwd /\ step' = step
        /\ searches' = searches
        /\ \/ result' = 0 /\ op' = op /\ wrote' = wrote /\ block' = block
           \/ /\ ~(directive # "notLimited" /\ job.cap <= 0)
              /\ result' = 1 /\ op' = 1 /\ wrote' = MaxOf(wrote, 1)
              /\ block' = <<[lit |-> 0, offset |-> 0, ml |-> 0]>>
    BY <1>0, <1>10 DEF Begin, Return, Wrote
  <2>2. directive = "notLimited" => job.cap >= 1
    BY <1>0, <1>10, NotLimitedIs
  <2>3. wrote' \in Nat /\ wrote' <= job.cap /\ op' \in Nat /\ result' \in Nat
    BY <1>0, <1>1, <1>3, <2>1, <2>2 DEF MaxOf
  <2>4. block' \in Seq([lit : Nat, offset : Nat, ml : Nat])
    <3>1. PICK r \in [lit : Nat, offset : Nat, ml : Nat] : r = [lit |-> 0, offset |-> 0, ml |-> 0]
      OBVIOUS
    <3>2. <<r>> \in Seq([lit : Nat, offset : Nat, ml : Nat])
      OBVIOUS
    <3> QED
      BY <1>1, <2>1, <3>1, <3>2
  <2>5. TypeOK'
    BY <1>0, <1>1, <1>5, <1>6, <1>7, <2>1, <2>3, <2>4 DEF TypeOK, Labels
  <2>6. Places' /\ Matched'
    BY <2>1 DEF Places, Matched, Compressing
  <2>7. Roomy'
    BY <1>3, <1>5, <1>6, <2>1, <2>3 DEF Roomy
  <2> QED
    BY <1>6, <1>8, <2>1, <2>5, <2>6, <2>7 DEF Core
<1>11. CASE n <= MaxInput /\ n > 0
  <2>1. n \in 1 .. MaxInput /\ ~(n > MaxInput) /\ n # 0
    BY <1>0, <1>11
  <2>2. op' = op /\ wrote' = wrote /\ block' = block
    BY <2>1 DEF Begin
  <2>3. CASE directive = "fillOutput" /\ job.cap < 1
    <3>1. /\ pc' = "done" /\ result' = 0
          /\ table' = table /\ ip' = ip /\ fwd' = fwd /\ step' = step /\ searches' = searches
      BY <2>1, <2>3 DEF Begin, Return
    <3>2. TypeOK'
      BY <1>0, <1>1, <1>5, <1>6, <1>7, <2>2, <3>1 DEF TypeOK, Labels
    <3>3. Places' /\ Matched'
      BY <3>1 DEF Places, Matched, Compressing
    <3>4. Roomy'
      BY <1>3, <1>5, <1>6, <2>2, <3>1 DEF Roomy
    <3> QED
      BY <1>6, <1>8, <3>1, <3>2, <3>3, <3>4 DEF Core
  <2>4. CASE ~(directive = "fillOutput" /\ job.cap < 1) /\ n < MinLength
    <3>1. /\ pc' = "last" /\ result' = result
          /\ table' = table /\ ip' = ip /\ fwd' = fwd /\ step' = step /\ searches' = searches
      BY <2>1, <2>4 DEF Begin, Goto
    <3>2. TypeOK'
      BY <1>0, <1>1, <1>5, <1>6, <1>7, <2>2, <3>1 DEF TypeOK, Labels
    <3>3. Places' /\ Matched'
      BY <1>6, <1>11, <3>1 DEF Places, Matched, Compressing
    <3>4. Roomy'
      BY <1>0, <1>3, <1>5, <1>6, <2>2, <2>4, <3>1 DEF Roomy, Base
    <3> QED
      BY <1>6, <1>8, <3>1, <3>2, <3>3, <3>4 DEF Core
  <2>5. CASE ~(directive = "fillOutput" /\ job.cap < 1) /\ ~(n < MinLength)
    <3>1. /\ pc' = "search" /\ result' = result /\ table' = Put(table, 0)
          /\ ip' = 1 /\ fwd' = 1 /\ step' = 1 /\ searches' = job.acceleration * SkipTrigger
      BY <2>1, <2>5 DEF Begin, Goto, SearchFrom
    <3>2. n > 12
      BY <1>0, <2>5 DEF MinLength, MFLimit
    <3>3. Put(table, 0) \in [Buckets -> Nat]
      <4>1. PICK p \in Nat : p = 0
        OBVIOUS
      <4>2. p + MFLimit <= n
        BY <1>0, <3>2, <4>1 DEF MFLimit
      <4> QED
        BY <1>0, <1>3, <4>1, <4>2, PutIs
    <3>4. searches' \in Nat /\ searches' >= SkipTrigger
      BY <1>0, <3>1, TimesIs
    <3>5. TypeOK'
      BY <1>0, <1>1, <1>5, <1>6, <1>7, <2>2, <3>1, <3>2, <3>3, <3>4 DEF TypeOK, Labels
    <3>6. Places'
      BY <1>0, <1>3, <1>5, <1>6, <1>11, <3>1, <3>2, <3>4 DEF Places, Compressing
    <3>7. Matched'
      BY <3>1 DEF Matched
    <3>8. Roomy'
      BY <1>0, <1>3, <1>5, <1>6, <2>2, <2>5, <3>1 DEF Roomy, Base
    <3> QED
      BY <1>6, <1>8, <3>1, <3>2, <3>5, <3>6, <3>7, <3>8 DEF Core
  <2> QED
    BY <2>3, <2>4, <2>5
<1> QED
  BY <1>0, <1>9, <1>10, <1>11
\* A match is the same match in the next state.
LEMMA SameFound ==
  ASSUME job' = job, NEW p, NEW m, NEW l, NEW o, NEW k
  PROVE  Found(p, m, l, o, k)' = Found(p, m, l, o, k)
<1>1. /\ dictEnd' = dictEnd /\ dictionary' = dictionary /\ lowLimit' = lowLimit
      /\ maybeExtMem' = maybeExtMem /\ \A a : At(a)' = At(a)
  BY SameJob
<1>2. Placed(p, m, l, o, k)' = Placed(p, m, l, o, k)
  BY <1>1 DEF Placed
<1>3. \A i : At(p + i)' = At(p + i) /\ At(m + i)' = At(m + i)
  BY <1>1
<1> QED
  BY <1>2, <1>3 DEF Found

LEMMA FoundNext ==
  ASSUME job' = job
  PROVE  /\ Found(ip', match', low', offset', MinMatch) => Found(ip, match, low, offset, MinMatch)'
         /\ Found(ip', match', low', offset', filled' - ip' + MinMatch)
              => Found(ip, match, low, offset, filled - ip + MinMatch)'
<1>1. PICK p, m, l, o, f : p = ip' /\ m = match' /\ l = low' /\ o = offset' /\ f = filled'
  OBVIOUS
<1>2. \A k : Found(p, m, l, o, k)' = Found(p, m, l, o, k)
  BY SameFound
<1> QED
  BY <1>1, <1>2

\* The four bytes that the compressor compares make a match of the candidate.
LEMMA MatchesIs ==
  ASSUME job \in Jobs, n > 12, NEW p \in Nat, p + MFLimit <= n,
         NEW t \in [Buckets -> Nat], \A h \in Buckets : Known(h, t[h]),
         \A h \in Buckets : t[h] < p + job.startIndex,
         NEW c, c = Candidate(t, p), Matches(c, p)
  PROVE  Found(p, c.at, c.low, p + job.startIndex - c.index, MinMatch)
<1>1. InReach(c, p) /\ Bytes(c.at, 4) = Bytes(p, 4)
  BY DEF Matches, MinMatch
<1>2. /\ c.at \in Int /\ c.low \in Int
      /\ p + job.startIndex - c.index \in 1 .. DistanceMax
      /\ Placed(p, c.at, c.low, p + job.startIndex - c.index, MinMatch)
  BY <1>1, CandidateIs
<1>3. ASSUME NEW i \in 0 .. 3 PROVE At(p + i) = At(c.at + i)
  <2>1. i + 1 \in 1 .. 4 /\ Bytes(p, 4)[i + 1] = At(p + (i + 1) - 1)
        /\ Bytes(c.at, 4)[i + 1] = At(c.at + (i + 1) - 1)
    BY DEF Bytes
  <2>2. p + (i + 1) - 1 = p + i /\ c.at + (i + 1) - 1 = c.at + i
    BY <1>2
  <2> QED
    BY <1>1, <2>1, <2>2
<1> QED
  BY <1>2, <1>3 DEF Found, MinMatch

LEMMA SearchCore ==
  ASSUME Core, Search
  PROVE  Core'
<1> DEFINE c == Candidate(table, fwd)
           ahead == fwd + step
<1>0. /\ job \in Jobs /\ n \in Nat /\ job.cap \in Nat /\ job.startIndex \in Nat
      /\ table \in [Buckets -> Nat] /\ SkipTrigger \in Nat /\ SkipTrigger > 0
  BY CoreTypes, Constants
<1>1. /\ ip \in 0 .. n /\ fwd \in Nat /\ step \in Nat /\ searches \in Nat /\ anchor \in 0 .. n
      /\ match \in Int /\ low \in Int /\ offset \in Int /\ filled \in 0 .. n /\ token \in Nat
      /\ op \in Nat /\ wrote \in Nat /\ block \in Seq([lit : Nat, offset : Nat, ml : Nat])
      /\ result \in Nat
  BY DEF Core, TypeOK
<1>2. pc = "search"
  BY DEF Search
<1>3. /\ n > 12 /\ n <= MaxInput /\ anchor < fwd /\ fwd + 11 <= n /\ step > 0
      /\ searches >= SkipTrigger
  BY <1>2 DEF Core, Places, Compressing
<1>4. /\ wrote <= job.cap /\ stray = FALSE /\ Paid(op, anchor)
      /\ directive = "fillOutput" => op + 1 <= job.cap
  <2>1. stray \in BOOLEAN
    BY CoreTypes
  <2> QED
    BY <1>2, <2>1 DEF Core, Roomy, Base
<1>5. \A h \in Buckets : Known(h, table[h]) /\ table[h] < fwd + job.startIndex
  BY <1>2 DEF Core, Tables
<1>6. /\ job' = job /\ result' = result
      /\ ip' = fwd /\ fwd' = ahead /\ step' = searches \div SkipTrigger
      /\ searches' = searches + 1 /\ anchor' = anchor /\ filled' = filled /\ token' = token
      /\ op' = op /\ wrote' = wrote /\ block' = block
      /\ pc' \in {"search", "last", "literals"}
  BY DEF Search, Goto
<1>7. /\ n' = n /\ directive' = directive /\ job.cap' = job.cap /\ job.startIndex' = job.startIndex
      /\ job' \in Jobs /\ job' \in JobType
  BY <1>0, <1>6, SameJob, JobTypes
<1>8. step' \in Nat /\ step' > 0
  <2> DEFINE q == searches \div SkipTrigger
  <2>1. q \in Nat /\ searches < SkipTrigger * q + SkipTrigger
    BY <1>0, <1>1, Quotient
  <2>2. q = 0 => SkipTrigger * q = 0
    BY <1>0
  <2> HIDE DEF q
  <2>3. q # 0
    BY <1>0, <1>1, <1>3, <2>1, <2>2
  <2> QED
    BY <1>6, <2>1, <2>3 DEF q
<1>9. Roomy' <=> stray' = FALSE
  <2>1. stray' = FALSE => Roomy'
    BY <1>4, <1>6, <1>7 DEF Roomy, Base
  <2>2. stray' \in BOOLEAN
    BY <1>4 DEF Search
  <2> QED
    BY <2>1, <2>2 DEF Roomy
<1>10. CASE ahead > mflimitPlusOne
  <2>1. /\ pc' = "last" /\ table' = table /\ match' = match /\ low' = low /\ offset' = offset
        /\ stray' = stray
    BY <1>10 DEF Search, Goto
  <2>2. stray' = FALSE /\ stray' \in BOOLEAN
    BY <1>4, <2>1
  <2>3. TypeOK'
    BY <1>0, <1>1, <1>3, <1>6, <1>7, <1>8, <2>1, <2>2 DEF TypeOK, Labels
  <2>4. Places' /\ Matched'
    BY <1>0, <1>3, <1>7, <2>1 DEF Places, Matched, Compressing
  <2>5. Tables'
    <3>1. (\A h \in Buckets : Known(h, table[h]))'
      BY <1>5, <1>6, <2>1, KnownNext
    <3> QED
      BY <2>1, <3>1 DEF Tables
  <2> QED
    BY <1>7, <1>9, <2>2, <2>3, <2>4, <2>5 DEF Core
<1>11. CASE ~(ahead > mflimitPlusOne)
  <2>1. /\ table' = Put(table, fwd)
        /\ stray' = (stray \/ ~Valid(ahead, 8) \/ (InReach(c, fwd) /\ ~Valid(c.at, MinMatch)))
        /\ \/ Matches(c, fwd) /\ pc' = "literals" /\ Take(c, fwd)
           \/ pc' = "search" /\ match' = match /\ low' = low /\ offset' = offset
    BY <1>11 DEF Search, Goto
  <2>2. ahead + 11 <= n /\ fwd + MFLimit <= n /\ ahead \in Nat
    BY <1>0, <1>1, <1>3, <1>11 DEF mflimitPlusOne, iend, MFLimit
  <2>3. InReach(c, fwd) => Valid(c.at, MinMatch)
    BY <1>0, <1>1, <1>3, <1>5, <2>2, CandidateIs
  <2>4. Valid(ahead, 8)
    BY <1>0, <2>2 DEF Valid, iend
  <2> HIDE DEF c, ahead
  <2>5. stray' = FALSE /\ stray' \in BOOLEAN
    BY <1>4, <2>1, <2>3, <2>4
  <2>6. /\ table' \in [Buckets -> Nat] /\ \A h \in Buckets : Known(h, table'[h])
        /\ \A h \in Buckets : table'[h] <= fwd + job.startIndex
    <3>1. /\ Put(table, fwd) \in [Buckets -> Nat]
          /\ \A h \in Buckets : Known(h, Put(table, fwd)[h])
          /\ \A h \in Buckets : Put(table, fwd)[h] = table[h]
                                  \/ Put(table, fwd)[h] = fwd + job.startIndex
      BY <1>0, <1>1, <1>5, <2>2, PutIs
    <3>2. table' = Put(table, fwd)
      BY <2>1
    <3>3. ASSUME NEW h \in Buckets PROVE table'[h] <= fwd + job.startIndex
      <4>1. table[h] \in Nat /\ table[h] < fwd + job.startIndex
        BY <1>0, <1>5
      <4>2. table'[h] = table[h] \/ table'[h] = fwd + job.startIndex
        BY <3>1, <3>2
      <4>3. fwd \in Nat /\ job.startIndex \in Nat
        BY <1>0, <1>1
      <4> QED
        BY <4>1, <4>2, <4>3
    <3> QED
      BY <3>1, <3>2, <3>3
  <2>7. Matches(c, fwd) => Found(fwd, c.at, c.low, fwd + job.startIndex - c.index, MinMatch)
    BY <1>0, <1>1, <1>3, <1>5, <2>2, MatchesIs DEF c
  <2>8. pc' = "literals" => Found(ip', match', low', offset', MinMatch)
    BY <1>6, <2>1, <2>7 DEF Take
  <2>9. Matched'
    <3>1. pc' = "literals" => Found(ip, match, low, offset, MinMatch)'
      BY <1>6, <2>8, FoundNext
    <3>2. pc' # "match" /\ pc' # "next"
      BY <1>6
    <3> QED
      BY <3>1, <3>2 DEF Matched
  <2>10. match' \in Int /\ low' \in Int /\ offset' \in Int
    <3>1. CASE pc' = "literals"
      <4>1. /\ match' \in Int /\ low' \in Int /\ offset' \in 1 .. DistanceMax
            /\ DistanceMax \in Int
        BY <2>8, <3>1, Constants DEF Found, DistanceMax
      <4> QED
        BY <4>1
    <3>2. CASE pc' # "literals"
      BY <1>1, <2>1, <3>2
    <3> QED
      BY <3>1, <3>2
  <2>11. pc' \in {"search", "literals"}
    BY <2>1
  <2>12. TypeOK'
    BY <1>0, <1>1, <1>3, <1>6, <1>7, <1>8, <2>2, <2>5, <2>6, <2>10 DEF TypeOK, Labels
  <2>13. Places'
    <3>1. anchor' < fwd' /\ fwd' + 11 <= n' /\ searches' >= SkipTrigger
      BY <1>0, <1>1, <1>3, <1>6, <1>7, <2>2 DEF ahead
    <3>2. anchor' < ip' /\ ip' + MFLimit <= n'
      BY <1>3, <1>6, <1>7, <2>2
    <3> QED
      BY <1>3, <1>7, <1>8, <2>11, <3>1, <3>2 DEF Places, Compressing
  <2>14. Tables'
    <3>1. (\A h \in Buckets : Known(h, table[h]))'
      BY <1>6, <2>6, KnownNext
    <3>2. \A h \in Buckets :
            table'[h] < fwd' + job.startIndex' /\ table'[h] <= ip' + job.startIndex'
      BY <1>0, <1>1, <1>3, <1>6, <1>7, <2>6 DEF ahead
    <3> QED
      BY <2>11, <3>1, <3>2 DEF Tables
  <2> QED
    BY <1>7, <1>9, <2>5, <2>9, <2>12, <2>13, <2>14 DEF Core
<1> QED
  BY <1>10, <1>11
\* The tests for room suffice for the literals and what follows them, however far their copy
\* overshoots.
LEMMA LiteralsFit ==
  ASSUME job \in Jobs, op \in Nat, anchor \in Nat, Paid(op, anchor), n <= MaxInput,
         NEW lit \in Nat, anchor + lit + 8 <= n, ~NoRoomForLiterals(lit)
  PROVE  /\ op + 1 + Extra(lit) + Strides(lit) <= job.cap
         /\ directive # "notLimited" => op + 1 + Extra(lit) + lit + LastLiterals <= job.cap
<1>1. /\ n \in Nat /\ job.cap \in Nat /\ ByteMax \in Nat /\ ByteMax > 0 /\ RunMask > 0
      /\ RunMask \in Nat
  <2>1. n \in Nat /\ job.cap \in Nat
    BY JobTypes
  <2>2. ByteMax \in Nat /\ ByteMax > 0 /\ RunMask > 0 /\ RunMask \in Nat
    BY Constants
  <2> QED
    BY <2>1, <2>2
<1>2. /\ Extra(lit) \in Nat /\ (lit + ByteMax - RunMask) \div ByteMax = Extra(lit)
      /\ Extra(lit) <= lit \div ByteMax + 1
      /\ lit < RunMask => Extra(lit) = 0
  BY ExtraIs
<1>3. lit \div ByteMax \in Nat
  BY <1>1, Quotient
<1>4. Strides(lit) \in Nat /\ Strides(lit) <= lit + 8 /\ (lit > 0 => Strides(lit) <= lit + 7)
  BY StridesIs
<1>5. CASE directive = "notLimited"
  <2>1. n \div ByteMax \in Nat /\ job.cap >= n + n \div ByteMax + 16
    BY <1>5, NotLimitedIs
  <2>2. op + Extra(lit) <= anchor + 1 + n \div ByteMax
    <3>1. anchor + lit <= n
      BY <1>1
    <3> QED
      BY <1>1, <3>1, PaidLiterals
  <2> HIDE DEF Extra, Strides
  <2> QED
    BY <1>1, <1>2, <1>4, <1>5, <2>1, <2>2
<1>6. CASE directive = "limitedOutput"
  <2>1. op + 1 + lit + (2 + 1 + LastLiterals) + lit \div ByteMax <= job.cap
    BY <1>1, <1>3, <1>6 DEF NoRoomForLiterals, LastLiterals
  <2>2. lit = 0 => Extra(lit) = 0
    BY <1>1, <1>2
  <2> QED
    BY <1>1, <1>2, <1>3, <1>4, <2>1, <2>2 DEF LastLiterals
<1>7. CASE directive = "fillOutput"
  <2>1. op + 1 + Extra(lit) + lit + 2 + 1 + MFLimit - MinMatch <= job.cap
    BY <1>1, <1>2, <1>7 DEF NoRoomForLiterals, MFLimit, MinMatch
  <2> QED
    BY <1>1, <1>2, <1>4, <2>1 DEF LastLiterals, MFLimit, MinMatch
<1> QED
  BY <1>5, <1>6, <1>7, Directions

LEMMA LiteralsCore ==
  ASSUME Core, Literals
  PROVE  Core'
<1> DEFINE back == CatchUp
<1>0. /\ job \in Jobs /\ n \in Nat /\ job.cap \in Nat /\ job.startIndex \in Nat
      /\ table \in [Buckets -> Nat]
  BY CoreTypes, Constants
<1>1. /\ ip \in 0 .. n /\ fwd \in Nat /\ step \in Nat /\ searches \in Nat /\ anchor \in 0 .. n
      /\ match \in Int /\ low \in Int /\ offset \in Int /\ filled \in 0 .. n /\ token \in Nat
      /\ op \in Nat /\ wrote \in Nat /\ block \in Seq([lit : Nat, offset : Nat, ml : Nat])
      /\ result \in Nat
  BY DEF Core, TypeOK
<1>2. pc = "literals"
  BY DEF Literals
<1>3. n > 12 /\ n <= MaxInput /\ anchor < ip /\ ip + MFLimit <= n
  BY <1>2 DEF Core, Places, Compressing
<1>4. /\ wrote <= job.cap /\ stray = FALSE /\ Paid(op, anchor)
      /\ directive = "fillOutput" => op + 1 <= job.cap
  <2>1. stray \in BOOLEAN
    BY CoreTypes
  <2> QED
    BY <1>2, <2>1 DEF Core, Roomy, Base
<1>5. \A h \in Buckets : Known(h, table[h]) /\ table[h] <= ip + job.startIndex
  BY <1>2 DEF Core, Tables
<1>6. Found(ip, match, low, offset, MinMatch)
  BY <1>2 DEF Core, Matched
<1>7. low <= match
  BY <1>6 DEF Found, Placed
<1>8. /\ back \in Nat /\ back <= ip - anchor /\ back <= match - low
      /\ \A i \in 1 .. back : At(ip - i) = At(match - i)
  <2>1. ip \in Int /\ anchor \in Int /\ match \in Int /\ low \in Int /\ anchor <= ip
    BY <1>0, <1>1, <1>3
  <2> QED
    BY <1>7, <2>1, CatchUpIs
<1>9. /\ job' = job /\ filled' = ip /\ ip' = ip - back /\ match' = match - back /\ token' = op
      /\ table' = table /\ fwd' = fwd /\ step' = step /\ searches' = searches /\ anchor' = anchor
      /\ low' = low /\ offset' = offset /\ block' = block
  BY DEF Literals, Goto, Return
<1>10. /\ n' = n /\ directive' = directive /\ job.cap' = job.cap
       /\ job.startIndex' = job.startIndex /\ job' \in Jobs /\ job' \in JobType
  BY <1>0, <1>9, SameJob, JobTypes
<1>11. (\A h \in Buckets : Known(h, table[h]))'
  BY <1>5, <1>9, KnownNext
<1>15. PICK lit : lit = ip - back - anchor
  OBVIOUS
<1>12. lit \in Nat /\ ip' \in 0 .. n /\ anchor <= ip' /\ ip' <= ip /\ ip' + MFLimit <= n
       /\ match' \in Int /\ lit = ip' - anchor /\ anchor + lit + 8 <= n
  BY <1>0, <1>1, <1>3, <1>8, <1>9, <1>15 DEF MFLimit
<1>13. CASE NoRoomForLiterals(lit)
  <2>1. /\ op' = op /\ wrote' = wrote /\ stray' = stray
        /\ \/ pc' = "last" /\ result' = result
           \/ pc' = "done" /\ result' = 0
    BY <1>13, <1>15 DEF Literals, Goto, Return
  <2>2. stray' = FALSE /\ stray' \in BOOLEAN /\ pc' \in {"last", "done"} /\ result' \in Nat
    <3>1. stray' = FALSE
      BY <1>4, <2>1
    <3>2. pc' \in {"last", "done"} /\ result' \in Nat
      BY <1>1, <2>1
    <3> QED
      BY <3>1, <3>2
  <2> HIDE DEF back
  <2>3. TypeOK'
    BY <1>0, <1>1, <1>9, <1>10, <1>12, <2>1, <2>2 DEF TypeOK, Labels
  <2>4. Places' /\ Matched' /\ Tables'
    BY <1>0, <1>3, <1>10, <1>11, <2>2 DEF Places, Matched, Compressing, Tables
  <2>5. Roomy'
    BY <1>4, <1>9, <1>10, <2>1, <2>2 DEF Roomy, Base
  <2> QED
    BY <1>10, <2>3, <2>4, <2>5 DEF Core
<1>14. CASE ~NoRoomForLiterals(lit)
  <2> DEFINE e == Extra(lit)
  <2>1. /\ pc' = "match" /\ result' = result
        /\ op' = op + 1 + e + lit
        /\ wrote' = MaxOf(wrote, op + 1 + e + Strides(lit))
        /\ stray' = (stray \/ ~Valid(anchor, Strides(lit)))
    BY <1>14, <1>15 DEF Literals, Goto, Wrote
  <2>2. Extra(lit) \in Nat
    BY <1>12, ExtraIs
  <2>3. Strides(lit) \in Nat /\ Strides(lit) <= lit + 8
    BY <1>12, StridesIs
  <2>4. /\ op + 1 + Extra(lit) + Strides(lit) <= job.cap
        /\ directive # "notLimited" => op + 1 + Extra(lit) + lit + LastLiterals <= job.cap
    <3>1. op \in Nat /\ anchor \in Nat
      BY <1>1
    <3> QED
      BY <1>0, <1>3, <1>4, <1>12, <1>14, <3>1, LiteralsFit
  <2>5. e = Extra(ip' - anchor')
    BY <1>9, <1>12
  <2>6. Found(ip', match', low', offset', MinMatch)
        /\ Found(ip', match', low', offset', filled' - ip' + MinMatch)
    <3>1. ip \in Nat /\ dictEnd \in Int
      BY <1>0, <1>1, DictPlace
    <3>2. /\ Found(ip - back, match - back, low, offset, back + MinMatch)
          /\ Found(ip - back, match - back, low, offset, MinMatch)
      <4> HIDE DEF back
      <4> QED
        BY <1>6, <1>8, <3>1, FoundBack
    <3>3. filled' - ip' + MinMatch = back + MinMatch
      BY <1>1, <1>8, <1>9 DEF MinMatch
    <3> QED
      BY <1>9, <3>2, <3>3
  <2> HIDE DEF back
  <2>7. Valid(anchor, Strides(lit))
    <3>1. 0 <= anchor /\ anchor + Strides(lit) <= n
      <4>1. lit \in Nat /\ anchor \in Nat /\ n \in Nat /\ anchor + lit + 8 <= n
        <5>1. lit \in Nat /\ anchor + lit + 8 <= n
          BY <1>12
        <5>2. anchor \in Nat /\ n \in Nat
          BY <1>0, <1>1
        <5> QED
          BY <5>1, <5>2
      <4> QED
        BY <2>3, <4>1
    <3> QED
      BY <3>1 DEF Valid, iend
  <2>8. stray' = FALSE /\ stray' \in BOOLEAN
    BY <1>4, <2>1, <2>7
  <2> HIDE DEF e
  <2>9. wrote' \in Nat /\ wrote' <= job.cap /\ op' \in Nat
    <3>1. op' \in Nat
      <4>1. op' = op + 1 + e + lit
        BY <2>1
      <4>2. op \in Nat /\ lit \in Nat /\ e \in Nat
        BY <1>1, <1>12, <2>2 DEF e
      <4> QED
        BY <4>1, <4>2
    <3>2. op + 1 + e + Strides(lit) \in Nat /\ op + 1 + e + Strides(lit) <= job.cap
      <4>1. op \in Nat /\ Strides(lit) \in Nat /\ e \in Nat
        BY <1>1, <2>2, <2>3 DEF e
      <4>2. op + 1 + e + Strides(lit) <= job.cap
        BY <2>4 DEF e
      <4> QED
        BY <4>1, <4>2
    <3>3. wrote \in Nat /\ wrote <= job.cap
      BY <1>1, <1>4
    <3> QED
      BY <2>1, <3>1, <3>2, <3>3 DEF MaxOf
  <2>10. TypeOK'
    BY <1>0, <1>1, <1>9, <1>10, <1>12, <2>1, <2>8, <2>9 DEF TypeOK, Labels
  <2>11. Places'
    BY <1>3, <1>9, <1>10, <1>12, <2>1 DEF Places, Compressing
  <2>12. Tables'
    <3>1. MaxOf(ip', filled') = ip
      BY <1>0, <1>1, <1>9, <1>12 DEF MaxOf
    <3>2. \A h \in Buckets : table'[h] <= MaxOf(ip', filled') + job.startIndex'
      BY <1>5, <1>9, <1>10, <3>1
    <3> QED
      BY <1>11, <2>1, <3>2 DEF Tables
  <2>13. Matched'
    <3>1. /\ Found(ip, match, low, offset, MinMatch)'
          /\ Found(ip, match, low, offset, filled - ip + MinMatch)'
      BY <1>9, <2>6, FoundNext
    <3>2. filled' + MFLimit <= n'
      BY <1>3, <1>9, <1>10
    <3> QED
      BY <2>1, <3>1, <3>2 DEF Matched
  <2>14. Roomy'
    <3>1. Base' = op /\ pc' = "match" /\ anchor' = anchor
      BY <1>9, <2>1 DEF Base
    <3>2. op' = token' + 1 + Extra(ip' - anchor') + (ip' - anchor')
      BY <1>9, <1>12, <2>1, <2>5
    <3>3. directive' # "notLimited" => op' + LastLiterals <= job.cap'
      BY <1>10, <2>1, <2>4 DEF e
    <3>4. Paid(Base, anchor)'
      BY <1>4, <3>1
    <3>5. /\ wrote' <= job.cap' /\ ~stray'
          /\ directive' = "fillOutput" => token' + 1 <= job.cap'
      BY <1>4, <1>9, <1>10, <2>8, <2>9
    <3> QED
      BY <3>1, <3>2, <3>3, <3>4, <3>5 DEF Roomy
  <2> QED
    BY <1>10, <2>10, <2>11, <2>12, <2>13, <2>14 DEF Core
<1> QED
  BY <1>13, <1>14
\* A sequence is emitted: what the emitting step needs, whichever match it emits.
LEMMA EmitCore ==
  ASSUME Core, pc = "match", NEW code \in Nat, NEW t, Emit(code, t),
         UNCHANGED <<fwd, step, searches, match, low, offset, filled, token, stray>>,
         ip + MinMatch + code + LastLiterals <= n,
         t \in [Buckets -> Nat], \A h \in Buckets : Known(h, t[h]),
         \A h \in Buckets : t[h] < ip + MinMatch + code + job.startIndex,
         op + 2 + Extra(code) + 3 <= job.cap,
         directive # "notLimited" => op + 2 + Extra(code) + 1 + LastLiterals <= job.cap,
         \/ filled < ip + MinMatch + code
         \/ /\ directive = "fillOutput"
            /\ op + 2 + Extra(code) + 1 + LastLiterals >= job.cap
  PROVE  Core'
<1>0. /\ job \in Jobs /\ n \in Nat /\ job.cap \in Nat /\ job.startIndex \in Nat
  BY CoreTypes, Constants
<1>1. /\ ip \in 0 .. n /\ fwd \in Nat /\ step \in Nat /\ searches \in Nat /\ anchor \in 0 .. n
      /\ match \in Int /\ low \in Int /\ offset \in Int /\ filled \in 0 .. n /\ token \in Nat
      /\ op \in Nat /\ wrote \in Nat /\ block \in Seq([lit : Nat, offset : Nat, ml : Nat])
      /\ result \in Nat
  BY DEF Core, TypeOK
<1>2. n > 12 /\ n <= MaxInput /\ anchor <= ip
  BY DEF Core, Places, Compressing
<1>3. /\ wrote <= job.cap /\ stray = FALSE /\ Paid(token, anchor)
      /\ op = token + 1 + Extra(ip - anchor) + (ip - anchor)
  <2>1. stray \in BOOLEAN
    BY CoreTypes
  <2> QED
    BY <2>1 DEF Core, Roomy, Base
<1>4. offset \in Nat
  <2>1. offset \in 1 .. DistanceMax
    BY DEF Core, Matched, Found
  <2> QED
    BY <2>1, Constants DEF DistanceMax
<1> DEFINE e == Extra(code)
           top == LengthEnd(op + 2, code)
<1>5. /\ job' = job /\ result' = result /\ pc' = "next" /\ op' = op + 2 + e
      /\ wrote' = MaxOf(wrote, MaxOf(op', top)) /\ ip' = ip + MinMatch + code /\ anchor' = ip'
      /\ block' = Append(block, [lit |-> ip - anchor, offset |-> offset, ml |-> MinMatch + code])
      /\ table' = t
  BY DEF Emit, Goto, Wrote
<1>6. /\ fwd' = fwd /\ step' = step /\ searches' = searches /\ match' = match /\ low' = low
      /\ offset' = offset /\ filled' = filled /\ token' = token /\ stray' = stray
  OBVIOUS
<1>7. /\ n' = n /\ directive' = directive /\ job.cap' = job.cap
      /\ job.startIndex' = job.startIndex /\ job' \in Jobs /\ job' \in JobType
  BY <1>0, <1>5, SameJob, JobTypes
<1>8. e \in Nat /\ op + 2 \in Nat
  BY <1>1, ExtraIs
<1>9. top \in Nat /\ top <= op + 2 + e + 3
  BY <1>8, LengthEndIs
<1>10. op + 2 + e + 3 <= job.cap
       /\ (directive # "notLimited" => op + 2 + e + 1 + LastLiterals <= job.cap)
  OBVIOUS
<1>11. Paid(op + 2 + e, ip + MinMatch + code)
  <2>1. PICK lit \in Nat : lit = ip - anchor
    BY <1>1, <1>2
  <2>2. anchor \in Nat /\ ip = anchor + lit /\ Extra(lit) \in Nat
    <3>1. anchor \in Nat /\ ip \in Nat
      BY CoreTypes
    <3>2. Extra(lit) \in Nat
      BY ExtraIs
    <3> QED
      BY <2>1, <3>1, <3>2
  <2>3. Paid(token + 1 + Extra(lit) + lit + 2 + e, anchor + lit + MinMatch + code)
    BY <1>1, <1>3, <2>2, PaidOn
  <2>4. token + 1 + Extra(lit) + lit + 2 + e = op + 2 + e
    BY <1>3, <2>1
  <2> QED
    BY <2>2, <2>3, <2>4
<1>12. \/ filled < ip + MinMatch + code
       \/ directive = "fillOutput" /\ op + 2 + e + 1 + LastLiterals >= job.cap
  OBVIOUS
<1> HIDE DEF e, top
<1>13. op' \in Nat /\ wrote' \in Nat /\ wrote' <= job.cap
  <2>1. op' \in Nat /\ op' <= job.cap /\ top <= job.cap
    <3>1. op \in Nat /\ job.cap \in Nat /\ op + 2 + e + 3 <= job.cap
      BY <1>0, <1>1, <1>10
    <3>2. op' = op + 2 + e
      BY <1>5
    <3> QED
      BY <1>8, <1>9, <3>1, <3>2
  <2>2. wrote \in Nat /\ wrote <= job.cap
    BY <1>1, <1>3
  <2> QED
    BY <1>5, <1>9, <2>1, <2>2 DEF MaxOf
<1>14. ip' \in 0 .. n /\ MinMatch <= ip' /\ ip' + LastLiterals <= n
  <2>1. /\ ip \in Nat /\ n \in Nat /\ ip' = ip + MinMatch + code
        /\ ip + MinMatch + code + LastLiterals <= n
    BY <1>0, <1>1, <1>5
  <2> QED
    BY <2>1 DEF MinMatch, LastLiterals
<1>15. block' \in Seq([lit : Nat, offset : Nat, ml : Nat])
  <2>1. PICK s \in [lit : Nat, offset : Nat, ml : Nat] :
          s = [lit |-> ip - anchor, offset |-> offset, ml |-> MinMatch + code]
    <3>1. ip - anchor \in Nat /\ MinMatch + code \in Nat
      <4>1. ip \in Nat /\ anchor \in Nat
        BY CoreTypes
      <4> QED
        BY <1>2, <4>1 DEF MinMatch
    <3> QED
      BY <1>4, <3>1
  <2>2. block' = Append(block, s)
    BY <1>5, <2>1
  <2> QED
    BY <1>1, <2>2, AppendProperties
<1>16. stray' \in BOOLEAN /\ ~stray'
  BY <1>3, <1>6
<1>17. TypeOK'
  <2>1. filled' \in 0 .. n' /\ anchor' \in 0 .. n' /\ ip' \in 0 .. n'
    BY <1>1, <1>5, <1>6, <1>7, <1>14
  <2>2. table' \in [Buckets -> Nat] /\ pc' \in Labels
    BY <1>5 DEF Labels
  <2> QED
    BY <1>1, <1>5, <1>6, <1>7, <1>13, <1>15, <1>16, <2>1, <2>2 DEF TypeOK
<1>18. Places'
  BY <1>2, <1>5, <1>7, <1>14 DEF Places, Compressing
<1>19. Tables'
  <2>1. (\A h \in Buckets : Known(h, table[h]))'
    BY <1>5, KnownNext
  <2>2. \A h \in Buckets : table'[h] < ip' + job.startIndex'
    BY <1>5, <1>7
  <2> QED
    BY <1>5, <2>1, <2>2 DEF Tables
<1>20. Matched'
  <2>1. filled' < ip' \/ (directive' = "fillOutput" /\ op' + 1 + LastLiterals >= job.cap')
    BY <1>5, <1>6, <1>7, <1>12
  <2> QED
    BY <1>5, <2>1 DEF Matched
<1>21. Roomy'
  <2>1. Base' = op' /\ anchor' = ip + MinMatch + code /\ op' = op + 2 + e
    BY <1>5 DEF Base
  <2>2. Paid(Base, anchor)'
    BY <1>11, <2>1
  <2>3. directive' # "notLimited" => op' + 1 + LastLiterals <= job.cap'
    BY <1>5, <1>7, <1>10
  <2> QED
    BY <1>5, <1>7, <1>13, <1>16, <2>2, <2>3 DEF Roomy
<1> QED
  BY <1>7, <1>17, <1>18, <1>19, <1>20, <1>21 DEF Core

LEMMA MatchCore ==
  ASSUME Core, Match
  PROVE  Core'
<1>0. /\ job \in Jobs /\ n \in Nat /\ job.cap \in Nat /\ job.startIndex \in Nat
      /\ table \in [Buckets -> Nat] /\ HandedOver(job)
  BY CoreTypes, JobTypes
<1>1. /\ ip \in 0 .. n /\ fwd \in Nat /\ step \in Nat /\ searches \in Nat /\ anchor \in 0 .. n
      /\ match \in Int /\ low \in Int /\ offset \in Int /\ filled \in 0 .. n /\ token \in Nat
      /\ op \in Nat /\ wrote \in Nat /\ block \in Seq([lit : Nat, offset : Nat, ml : Nat])
      /\ result \in Nat
  BY DEF Core, TypeOK
<1>2. ip \in Nat /\ anchor \in Nat /\ filled \in Nat /\ ip <= n
  BY CoreTypes
<1>3. pc = "match"
  BY DEF Match
<1>4. n > 12 /\ n <= MaxInput /\ anchor <= ip /\ ip + MFLimit <= n
  BY <1>3 DEF Core, Places, Compressing
<1>5. /\ wrote <= job.cap /\ stray = FALSE /\ Paid(token, anchor)
      /\ op = token + 1 + Extra(ip - anchor) + (ip - anchor)
      /\ directive # "notLimited" => op + LastLiterals <= job.cap
      /\ directive = "fillOutput" => token + 1 <= job.cap
  <2>1. stray \in BOOLEAN
    BY CoreTypes
  <2> QED
    BY <1>3, <2>1 DEF Core, Roomy, Base
<1>6. \A h \in Buckets : Known(h, table[h]) /\ table[h] <= MaxOf(ip, filled) + job.startIndex
  BY <1>3 DEF Core, Tables
<1>7. /\ Found(ip, match, low, offset, MinMatch)
      /\ \/ filled <= ip
         \/ directive = "fillOutput" /\ op + 2 + 1 + MFLimit - MinMatch > job.cap
         \/ /\ filled + MFLimit <= n
            /\ Found(ip, match, low, offset, filled - ip + MinMatch)
  BY <1>3 DEF Core, Matched
<1>8. PICK code : code = MatchCode
  OBVIOUS
<1>9. /\ code \in Nat /\ ip + MinMatch + code + LastLiterals <= n
      /\ \A k \in Nat : /\ Found(ip, match, low, offset, k) /\ k >= MinMatch
                        /\ ip + k + LastLiterals <= n
                        => k <= MinMatch + code
  BY <1>0, <1>2, <1>4, <1>7, <1>8, MatchCodeIs
<1>10. /\ fwd' = fwd /\ step' = step /\ searches' = searches /\ match' = match /\ low' = low
       /\ offset' = offset /\ filled' = filled /\ token' = token /\ stray' = stray
  BY DEF Match
<1>11. stray' \in BOOLEAN /\ ~stray'
  BY <1>5, <1>10
<1>12. ASSUME job' = job, pc' \in {"last", "done"}, op' \in Nat, wrote' \in Nat,
              wrote' <= job.cap, result' \in Nat, ip' = ip, anchor' = anchor, block' = block,
              table' = table, pc' = "last" => op' = token,
              pc' = "last" => directive = "fillOutput"
       PROVE  Core'
  <2>1. /\ n' = n /\ directive' = directive /\ job.cap' = job.cap
        /\ job.startIndex' = job.startIndex /\ job' \in Jobs /\ job' \in JobType
    BY <1>0, <1>12, SameJob, JobTypes
  <2>2. TypeOK'
    BY <1>0, <1>1, <1>10, <1>11, <1>12, <2>1 DEF TypeOK, Labels
  <2>3. Places' /\ Matched'
    BY <1>0, <1>4, <1>12, <2>1 DEF Places, Matched, Compressing
  <2>4. Tables'
    <3>1. (\A h \in Buckets : Known(h, table[h]))'
      BY <1>6, <1>12, KnownNext
    <3> QED
      BY <1>12, <3>1 DEF Tables
  <2>5. Roomy'
    <3>1. pc' = "last" => Paid(Base, anchor)'
      BY <1>5, <1>12 DEF Base
    <3> QED
      BY <1>5, <1>11, <1>12, <2>1, <3>1 DEF Roomy
  <2> QED
    BY <2>1, <2>2, <2>3, <2>4, <2>5 DEF Core
<1>13. CASE directive = "fillOutput" /\ op + 2 + 1 + MFLimit - MinMatch > job.cap
  <2>1. /\ job' = job /\ pc' = "last" /\ op' = token /\ wrote' = wrote /\ result' = result
        /\ ip' = ip /\ anchor' = anchor /\ block' = block /\ table' = table
    BY <1>13 DEF Match, Goto
  <2> QED
    BY <1>1, <1>5, <1>12, <1>13, <2>1
<1>14. CASE /\ ~(directive = "fillOutput" /\ op + 2 + 1 + MFLimit - MinMatch > job.cap)
            /\ ~NoRoomForMatch(code)
  <2>1. Emit(code, table)
    BY <1>8, <1>14 DEF Match
  <2>2. filled < ip + MinMatch + code
    <3>1. CASE filled <= ip
      BY <1>2, <1>9, <3>1 DEF MinMatch
    <3>2. CASE filled > ip
      <4>1. filled + MFLimit <= n /\ Found(ip, match, low, offset, filled - ip + MinMatch)
        BY <1>2, <1>7, <1>14, <3>2
      <4>2. PICK k \in Nat : k = filled - ip + MinMatch
        BY <1>2, <3>2 DEF MinMatch
      <4>3. k >= MinMatch /\ ip + k + LastLiterals <= n
        BY <1>0, <1>2, <3>2, <4>1, <4>2 DEF MinMatch, LastLiterals, MFLimit
      <4>4. k <= MinMatch + code
        BY <1>9, <4>1, <4>2, <4>3
      <4> QED
        BY <1>2, <1>9, <4>2, <4>4 DEF MinMatch
    <3> QED
      BY <1>2, <3>1, <3>2
  <2>3. ASSUME NEW h \in Buckets PROVE table[h] < ip + MinMatch + code + job.startIndex
    <3>1. table[h] \in Nat /\ table[h] <= MaxOf(ip, filled) + job.startIndex
      BY <1>0, <1>6
    <3> QED
      BY <1>0, <1>2, <1>9, <2>2, <3>1 DEF MaxOf, MinMatch
  <2>4. Extra(code) \in Nat /\ (code + ByteMax - RunMask) \div ByteMax = Extra(code)
    BY <1>9, ExtraIs
  <2>5. directive # "notLimited" => op + 2 + Extra(code) + 1 + LastLiterals <= job.cap
    <3>1. SUFFICES ASSUME directive # "notLimited"
                   PROVE  op + 2 + Extra(code) + 1 + LastLiterals <= job.cap
      OBVIOUS
    <3>2. ~(op + 2 + (1 + LastLiterals) + Extra(code) > job.cap)
      BY <1>14, <2>4, <3>1 DEF NoRoomForMatch
    <3>3. op \in Nat /\ job.cap \in Nat
      BY <1>0, <1>1
    <3> QED
      BY <2>4, <3>2, <3>3 DEF LastLiterals
  <2>6. op + 2 + Extra(code) + 3 <= job.cap
    <3>1. op \in Nat /\ job.cap \in Nat
      BY <1>0, <1>1
    <3>2. CASE directive # "notLimited"
      BY <2>4, <2>5, <3>1, <3>2 DEF LastLiterals
    <3>3. CASE directive = "notLimited"
      <4>1. n \div ByteMax \in Nat /\ job.cap >= n + n \div ByteMax + 16
        BY <1>0, <1>4, <3>3, NotLimitedIs
      <4>2. PICK lit \in Nat : lit = ip - anchor
        BY <1>2, <1>4
      <4>3. anchor + lit + code <= n /\ ip = anchor + lit
        BY <1>0, <1>2, <1>9, <4>2 DEF MinMatch, LastLiterals
      <4>4. token + Extra(lit) + Extra(code) <= anchor + 2 + n \div ByteMax
        BY <1>0, <1>1, <1>2, <1>5, <1>9, <4>3, PaidMatch
      <4>5. op = token + 1 + Extra(lit) + lit /\ Extra(lit) \in Nat
        BY <1>5, <4>2, ExtraIs
      <4> QED
        <5>1. code \in Nat /\ Extra(code) \in Nat /\ token \in Nat
          BY <1>1, <1>9, <2>4
        <5>2. anchor + lit <= n
          BY <1>0, <1>2, <4>3, <5>1
        <5> QED
          BY <1>0, <1>2, <4>1, <4>4, <4>5, <5>1, <5>2
    <3> QED
      BY <3>2, <3>3
  <2>7. UNCHANGED <<fwd, step, searches, match, low, offset, filled, token, stray>>
    BY <1>10
  <2> QED
    BY <1>0, <1>3, <1>6, <1>9, <2>1, <2>2, <2>3, <2>5, <2>6, <2>7, EmitCore
<1>15. CASE /\ directive = "fillOutput" /\ ~(op + 2 + 1 + MFLimit - MinMatch > job.cap)
            /\ NoRoomForMatch(code)
  <2>1. Emit(FillCode, Forget(ip + MinMatch + FillCode))
    BY <1>8, <1>15 DEF Match
  <2>2. PICK fill : fill = FillCode
    OBVIOUS
  <2>3. /\ fill \in Nat /\ fill < code
        /\ op + 2 + Extra(fill) + 1 + LastLiterals = job.cap
    <3>1. op \in Nat /\ job.cap \in Nat /\ directive # "notLimited"
      BY <1>0, <1>1, <1>15
    <3>2. op + 2 + 1 + MFLimit - MinMatch <= job.cap
      BY <1>15, <3>1 DEF MFLimit, MinMatch
    <3> QED
      BY <1>9, <1>15, <2>2, <3>1, <3>2, FillCodeIs
  <2>4. PICK p : p = ip + MinMatch + fill
    OBVIOUS
  <2>5. /\ p \in Nat /\ p > ip /\ ip + MinMatch + fill + LastLiterals <= n
    BY <1>0, <1>2, <1>9, <2>3, <2>4 DEF MinMatch, LastLiterals
  <2>6. job.startIndex = 0
    <3>1. job.api = "destSize"
      BY <1>15, Directions
    <3> QED
      BY <1>0, <3>1 DEF HandedOver
  <2>7. ASSUME NEW h \in Buckets PROVE table[h] < p \/ table[h] <= filled
    <3>1. table[h] \in Nat /\ table[h] <= MaxOf(ip, filled) + 0
      BY <1>0, <1>6, <2>6
    <3> QED
      BY <1>2, <2>5, <3>1 DEF MaxOf
  <2>8. /\ Forget(p) \in [Buckets -> Nat]
        /\ \A h \in Buckets : Known(h, Forget(p)[h])
        /\ \A h \in Buckets : Forget(p)[h] < p
    <3>1. p > 0
      BY <1>2, <2>5
    <3> QED
      BY <1>0, <1>2, <1>6, <2>5, <2>6, <2>7, <3>1, ForgetIs
  <2>9. \A h \in Buckets : Forget(p)[h] < ip + MinMatch + fill + job.startIndex
    <3>1. ip + MinMatch + fill + job.startIndex = p
      BY <2>4, <2>5, <2>6
    <3> QED
      BY <2>8, <3>1
  <2>10. Extra(fill) \in Nat
    BY <2>3, ExtraIs
  <2>11. /\ op + 2 + Extra(fill) + 3 <= job.cap
         /\ op + 2 + Extra(fill) + 1 + LastLiterals <= job.cap
         /\ op + 2 + Extra(fill) + 1 + LastLiterals >= job.cap
    <3>1. op \in Nat /\ job.cap \in Nat
      BY <1>0, <1>1
    <3> QED
      BY <2>3, <2>10, <3>1 DEF LastLiterals
  <2>12. UNCHANGED <<fwd, step, searches, match, low, offset, filled, token, stray>>
    BY <1>10
  <2>13. Emit(fill, Forget(p))
    BY <2>1, <2>2, <2>4
  <2> QED
    BY <1>3, <1>15, <2>3, <2>5, <2>8, <2>9, <2>11, <2>12, <2>13, EmitCore
<1>16. CASE directive # "fillOutput" /\ NoRoomForMatch(code)
  <2>1. /\ job' = job /\ pc' = "done" /\ op' = op /\ wrote' = MaxOf(wrote, op + 2)
        /\ result' = 0 /\ ip' = ip /\ anchor' = anchor /\ block' = block /\ table' = table
    BY <1>8, <1>16 DEF Match, Return, Wrote
  <2>2. directive # "notLimited"
    BY <1>16 DEF NoRoomForMatch
  <2>3. wrote' \in Nat /\ wrote' <= job.cap
    <3>1. op \in Nat /\ job.cap \in Nat /\ wrote \in Nat /\ wrote <= job.cap /\ op + 5 <= job.cap
      BY <1>0, <1>1, <1>5, <2>2 DEF LastLiterals
    <3> QED
      BY <2>1, <3>1 DEF MaxOf
  <2> QED
    BY <1>1, <1>12, <2>1, <2>3
<1> QED
  BY <1>13, <1>14, <1>15, <1>16

LEMMA FollowingCore ==
  ASSUME Core, Following
  PROVE  Core'
<1> DEFINE t == Put(table, ip - 2)
           c == Candidate(t, ip)
<1>0. /\ job \in Jobs /\ n \in Nat /\ job.cap \in Nat /\ job.startIndex \in Nat
      /\ table \in [Buckets -> Nat]
      /\ job.acceleration \in Nat /\ job.acceleration > 0 /\ SkipTrigger \in Nat
  BY CoreTypes, Constants
<1>1. /\ ip \in 0 .. n /\ fwd \in Nat /\ step \in Nat /\ searches \in Nat /\ anchor \in 0 .. n
      /\ match \in Int /\ low \in Int /\ offset \in Int /\ filled \in 0 .. n /\ token \in Nat
      /\ op \in Nat /\ wrote \in Nat /\ block \in Seq([lit : Nat, offset : Nat, ml : Nat])
      /\ result \in Nat
  BY DEF Core, TypeOK
<1>2. ip \in Nat /\ anchor \in Nat /\ filled \in Nat /\ ip <= n
  BY CoreTypes
<1>3. pc = "next"
  BY DEF Following
<1>4. n > 12 /\ n <= MaxInput /\ anchor = ip /\ MinMatch <= ip /\ ip + LastLiterals <= n
  BY <1>3 DEF Core, Places, Compressing
<1>5. /\ wrote <= job.cap /\ stray = FALSE /\ Paid(op, anchor)
      /\ directive # "notLimited" => op + 1 + LastLiterals <= job.cap
  <2>1. stray \in BOOLEAN
    BY CoreTypes
  <2> QED
    BY <1>3, <2>1 DEF Core, Roomy, Base
<1>6. \A h \in Buckets : Known(h, table[h]) /\ table[h] < ip + job.startIndex
  BY <1>3 DEF Core, Tables
<1>7. \/ filled < ip
      \/ directive = "fillOutput" /\ op + 1 + LastLiterals >= job.cap
  BY <1>3 DEF Core, Matched
<1>8. /\ job' = job /\ result' = result /\ anchor' = anchor /\ filled' = filled /\ block' = block
      /\ pc' \in {"last", "match", "search"}
  BY DEF Following, Goto
<1>9. /\ n' = n /\ directive' = directive /\ job.cap' = job.cap
      /\ job.startIndex' = job.startIndex /\ job' \in Jobs /\ job' \in JobType
  BY <1>0, <1>8, SameJob, JobTypes
<1>10. CASE ip >= mflimitPlusOne
  <2>1. /\ pc' = "last" /\ table' = table /\ ip' = ip /\ fwd' = fwd /\ step' = step
        /\ searches' = searches /\ match' = match /\ low' = low /\ offset' = offset
        /\ token' = token /\ op' = op /\ wrote' = wrote /\ stray' = stray
    BY <1>10 DEF Following, Goto
  <2>2. stray' \in BOOLEAN /\ ~stray'
    BY <1>5, <2>1
  <2>3. TypeOK'
    BY <1>0, <1>1, <1>8, <1>9, <2>1, <2>2 DEF TypeOK, Labels
  <2>4. Places' /\ Matched'
    BY <1>0, <1>4, <1>9, <2>1 DEF Places, Matched, Compressing
  <2>5. Tables'
    <3>1. (\A h \in Buckets : Known(h, table[h]))'
      BY <1>6, <1>8, <2>1, KnownNext
    <3> QED
      BY <2>1, <3>1 DEF Tables
  <2>6. Roomy'
    <3>1. directive' = "fillOutput" => op' + 1 <= job.cap'
      BY <1>0, <1>1, <1>5, <1>9, <2>1 DEF LastLiterals
    <3>2. Paid(Base, anchor)'
      BY <1>5, <1>8, <2>1 DEF Base
    <3> QED
      BY <1>5, <1>9, <2>1, <2>2, <3>1, <3>2 DEF Roomy
  <2> QED
    BY <1>9, <2>3, <2>4, <2>5, <2>6 DEF Core
<1>11. CASE ~(ip >= mflimitPlusOne)
  <2>1. /\ table' = Put(t, ip)
        /\ stray' = (stray \/ (InReach(c, ip) /\ ~Valid(c.at, MinMatch)))
        /\ \/ /\ Matches(c, ip) /\ pc' = "match" /\ Take(c, ip)
              /\ token' = op /\ op' = op + 1 /\ wrote' = MaxOf(wrote, op + 1)
              /\ ip' = ip /\ fwd' = fwd /\ step' = step /\ searches' = searches
           \/ /\ pc' = "search" /\ ip' = ip + 1 /\ fwd' = ip + 1 /\ step' = 1
              /\ searches' = job.acceleration * SkipTrigger
              /\ match' = match /\ low' = low /\ offset' = offset
              /\ token' = token /\ op' = op /\ wrote' = wrote
    BY <1>11 DEF Following, Goto, SearchFrom, Wrote
  <2>2. ip + MFLimit <= n
    BY <1>0, <1>2, <1>11 DEF mflimitPlusOne, iend, MFLimit
  <2>3. PICK p \in Nat : p = ip - 2
    BY <1>2, <1>4 DEF MinMatch
  <2>4. p + MFLimit <= n /\ p < ip
    BY <1>0, <1>2, <2>2, <2>3 DEF MFLimit
  <2>5. /\ t \in [Buckets -> Nat] /\ \A h \in Buckets : Known(h, t[h])
        /\ \A h \in Buckets : t[h] = table[h] \/ t[h] = p + job.startIndex
    BY <1>0, <1>6, <2>3, <2>4, PutIs
  <2>6. \A h \in Buckets : t[h] < ip + job.startIndex
    <3>1. ASSUME NEW h \in Buckets PROVE t[h] < ip + job.startIndex
      <4>1. table[h] < ip + job.startIndex /\ (t[h] = table[h] \/ t[h] = p + job.startIndex)
        BY <1>6, <2>5
      <4>2. p + job.startIndex < ip + job.startIndex
        BY <1>0, <1>2, <2>4
      <4> QED
        BY <4>1, <4>2
    <3> QED
      BY <3>1
  <2>7. InReach(c, ip) => Valid(c.at, MinMatch)
    <3> HIDE DEF t
    <3> QED
      BY <1>0, <1>2, <1>4, <2>2, <2>5, <2>6, CandidateIs
  <2>8. Matches(c, ip) => Found(ip, c.at, c.low, ip + job.startIndex - c.index, MinMatch)
    <3> HIDE DEF t
    <3> QED
      BY <1>0, <1>2, <1>4, <2>2, <2>5, <2>6, MatchesIs
  <2>9. /\ table' \in [Buckets -> Nat] /\ \A h \in Buckets : Known(h, table'[h])
        /\ \A h \in Buckets : table'[h] <= ip + job.startIndex
    <3>1. /\ Put(t, ip) \in [Buckets -> Nat]
          /\ \A h \in Buckets : Known(h, Put(t, ip)[h])
          /\ \A h \in Buckets : Put(t, ip)[h] = t[h] \/ Put(t, ip)[h] = ip + job.startIndex
      <4> HIDE DEF t
      <4> QED
        BY <1>0, <1>2, <2>2, <2>5, PutIs
    <3>2. table' = Put(t, ip)
      BY <2>1
    <3> HIDE DEF t
    <3>3. ASSUME NEW h \in Buckets PROVE table'[h] <= ip + job.startIndex
      <4>1. t[h] \in Nat /\ t[h] < ip + job.startIndex
        BY <2>5, <2>6
      <4>2. table'[h] = t[h] \/ table'[h] = ip + job.startIndex
        BY <3>1, <3>2
      <4> QED
        BY <1>0, <1>2, <4>1, <4>2
    <3> QED
      BY <3>1, <3>2, <3>3
  <2> HIDE DEF c
  <2>10. stray' \in BOOLEAN /\ ~stray'
    BY <1>5, <2>1, <2>7
  <2>11. (\A h \in Buckets : Known(h, table[h]))'
    BY <1>8, <2>9, KnownNext
  <2>12. CASE pc' = "match"
    <3>1. /\ Matches(c, ip) /\ Take(c, ip)
          /\ token' = op /\ op' = op + 1 /\ wrote' = MaxOf(wrote, op + 1)
          /\ ip' = ip /\ fwd' = fwd /\ step' = step /\ searches' = searches
      BY <2>1, <2>12
    <3>2. Found(ip', match', low', offset', MinMatch)
      BY <2>8, <3>1 DEF Take
    <3>3. match' \in Int /\ low' \in Int /\ offset' \in Int
      <4>1. match' \in Int /\ low' \in Int /\ offset' \in 1 .. DistanceMax /\ DistanceMax \in Int
        BY <3>2, Constants DEF Found, DistanceMax
      <4> QED
        BY <4>1
    <3>4. op \in Nat /\ wrote \in Nat /\ job.cap \in Nat
      BY <1>0, <1>1
    <3>5. op + 1 <= job.cap /\ (directive # "notLimited" => op + 1 + LastLiterals <= job.cap)
      <4>1. CASE directive # "notLimited"
        BY <1>5, <3>4, <4>1 DEF LastLiterals
      <4>2. CASE directive = "notLimited"
        <5>1. n \div ByteMax \in Nat /\ job.cap >= n + n \div ByteMax + 16
          BY <1>0, <1>4, <4>2, NotLimitedIs
        <5>2. op <= anchor + 1 + n \div ByteMax
          <6>1. PICK z \in Nat : z = 0
            OBVIOUS
          <6>2. Extra(z) = 0 /\ anchor + z <= n
            BY <1>0, <1>2, <1>4, <6>1, Constants DEF Extra
          <6>3. op + Extra(z) <= anchor + 1 + n \div ByteMax
            BY <1>0, <1>2, <1>5, <3>4, <6>2, PaidLiterals
          <6> QED
            BY <3>4, <6>2, <6>3
        <5>3. anchor <= n
          BY <1>2, <1>4
        <5> QED
          BY <1>0, <1>2, <3>4, <4>2, <5>1, <5>2, <5>3
      <4> QED
        BY <4>1, <4>2
    <3>6. wrote' \in Nat /\ wrote' <= job.cap /\ op' \in Nat /\ token' \in Nat
      BY <1>5, <3>1, <3>4, <3>5 DEF MaxOf
    <3>7. TypeOK'
      BY <1>1, <1>8, <1>9, <2>9, <2>10, <2>12, <3>1, <3>3, <3>6 DEF TypeOK, Labels
    <3>8. Places'
      BY <1>2, <1>4, <1>8, <1>9, <2>2, <2>12, <3>1 DEF Places, Compressing
    <3>9. Tables'
      <4>1. ASSUME NEW h \in Buckets PROVE table'[h] <= MaxOf(ip', filled') + job.startIndex'
        <5>1. table'[h] \in Nat /\ table'[h] <= ip + job.startIndex
          BY <2>9
        <5>2. MaxOf(ip', filled') \in Nat /\ ip <= MaxOf(ip', filled')
          BY <1>2, <1>8, <3>1 DEF MaxOf
        <5> QED
          BY <1>0, <1>2, <1>9, <5>1, <5>2
      <4> QED
        BY <2>11, <2>12, <4>1 DEF Tables
    <3>10. Matched'
      <4>1. Found(ip, match, low, offset, MinMatch)'
        BY <1>8, <3>2, FoundNext
      <4>2. \/ filled' <= ip'
            \/ directive' = "fillOutput" /\ op' + 2 + 1 + MFLimit - MinMatch > job.cap'
        <5>1. CASE filled < ip
          BY <1>2, <1>8, <3>1, <5>1
        <5>2. CASE directive = "fillOutput" /\ op + 1 + LastLiterals >= job.cap
          BY <1>9, <3>1, <3>4, <5>2 DEF LastLiterals, MFLimit, MinMatch
        <5> QED
          BY <1>7, <5>1, <5>2
      <4> QED
        BY <2>12, <4>1, <4>2 DEF Matched
    <3>11. Roomy'
      <4>1. Base' = op /\ anchor' = anchor
        BY <1>8, <2>12, <3>1 DEF Base
      <4>2. Paid(Base, anchor)'
        BY <1>5, <4>1
      <4>3. op' = token' + 1 + Extra(ip' - anchor') + (ip' - anchor')
        <5>1. PICK z \in Nat : z = 0
          OBVIOUS
        <5>2. ip' - anchor' = z /\ Extra(z) = 0
          BY <1>2, <1>4, <1>8, <3>1, <5>1, Constants DEF Extra
        <5> QED
          BY <3>1, <3>4, <5>1, <5>2
      <4>4. directive' # "notLimited" => op' + LastLiterals <= job.cap'
        BY <1>9, <3>1, <3>5
      <4>5. directive' = "fillOutput" => token' + 1 <= job.cap'
        BY <1>9, <3>1, <3>5
      <4> QED
        BY <1>9, <2>10, <2>12, <3>6, <4>2, <4>3, <4>4, <4>5 DEF Roomy
    <3> QED
      BY <1>9, <3>7, <3>8, <3>9, <3>10, <3>11 DEF Core
  <2>13. CASE pc' = "search"
    <3>1. /\ ip' = ip + 1 /\ fwd' = ip + 1 /\ step' = 1
          /\ searches' = job.acceleration * SkipTrigger
          /\ match' = match /\ low' = low /\ offset' = offset
          /\ token' = token /\ op' = op /\ wrote' = wrote
      BY <2>1, <2>13
    <3>2. searches' \in Nat /\ searches' >= SkipTrigger
      BY <1>0, <3>1, TimesIs
    <3>3. ip' \in 0 .. n' /\ fwd' \in Nat /\ anchor' < fwd' /\ fwd' + 11 <= n'
      BY <1>0, <1>2, <1>4, <1>8, <1>9, <2>2, <3>1 DEF MFLimit
    <3>4. TypeOK'
      BY <1>1, <1>8, <1>9, <2>9, <2>10, <2>13, <3>1, <3>2, <3>3 DEF TypeOK, Labels
    <3>5. Places'
      <4>1. step' > 0 /\ SkipTrigger \in Nat
        BY <1>0, <3>1
      <4> QED
        BY <1>4, <1>9, <2>13, <3>2, <3>3, <4>1 DEF Places, Compressing
    <3>6. Tables'
      <4>1. ASSUME NEW h \in Buckets PROVE table'[h] < fwd' + job.startIndex'
        <5>1. table'[h] \in Nat /\ table'[h] <= ip + job.startIndex
          BY <2>9
        <5> QED
          BY <1>0, <1>2, <1>9, <3>1, <5>1
      <4> QED
        BY <2>11, <2>13, <4>1 DEF Tables
    <3>7. Matched'
      BY <2>13 DEF Matched
    <3>8. Roomy'
      <4>1. directive' = "fillOutput" => op' + 1 <= job.cap'
        <5>1. op \in Nat /\ job.cap \in Nat
          BY <1>0, <1>1
        <5> QED
          BY <1>5, <1>9, <3>1, <5>1 DEF LastLiterals
      <4>2. Paid(Base, anchor)'
        BY <1>5, <1>8, <2>13, <3>1 DEF Base
      <4> QED
        BY <1>5, <1>9, <2>10, <2>13, <3>1, <4>1, <4>2 DEF Roomy
    <3> QED
      BY <1>9, <3>4, <3>5, <3>6, <3>7, <3>8 DEF Core
  <2> QED
    BY <2>1, <2>12, <2>13
<1> QED
  BY <1>10, <1>11

\* The last literals: all of them, or as many as fit.
LEMMA LastIs ==
  ASSUME Core, Last
  PROVE  \/ /\ UNCHANGED <<job, op, wrote, ip, block>> /\ result' = 0
            /\ directive # "notLimited" /\ NoRoomForLast(n - anchor)
         \/ \E run \in Nat :
              /\ LastRun(run) /\ run <= n - anchor
              /\ op + 1 + Extra(run) + run <= job.cap
              /\ run # n - anchor => directive = "fillOutput"
              /\ \/ run = n - anchor
                 \/ \A k \in 0 .. 8 : op + 1 + k <= job.cap => k <= run
<1>0. /\ job \in Jobs /\ n \in Nat /\ job.cap \in Nat /\ op \in Nat /\ anchor \in Nat /\ anchor <= n
  BY CoreTypes
<1>1. pc = "last"
  BY DEF Last
<1>2. n <= MaxInput /\ Paid(op, anchor) /\ (directive = "fillOutput" => op + 1 <= job.cap)
  BY <1>1 DEF Core, Places, Roomy, Base
<1>3. PICK more \in Nat : more = n - anchor
  BY <1>0
<1>4. /\ Extra(more) \in Nat /\ (more + ByteMax - RunMask) \div ByteMax = Extra(more)
  BY ExtraIs
<1>5. CASE ~NoRoomForLast(more)
  <2>1. LastRun(more)
    BY <1>3, <1>5 DEF Last, iend
  <2>2. op + 1 + Extra(more) + more <= job.cap
    <3>1. CASE directive # "notLimited"
      <4>1. ~(op + more + 1 + Extra(more) > job.cap)
        BY <1>4, <1>5, <3>1 DEF NoRoomForLast
      <4> QED
        BY <1>0, <1>4, <4>1
    <3>2. CASE directive = "notLimited"
      <4>1. n \div ByteMax \in Nat /\ job.cap >= n + n \div ByteMax + 16
        BY <1>0, <1>2, <3>2, NotLimitedIs
      <4>2. op + Extra(more) <= anchor + 1 + n \div ByteMax
        <5>1. anchor + more <= n
          BY <1>0, <1>3
        <5> QED
          BY <1>0, <1>2, <5>1, PaidLiterals
      <4> QED
        BY <1>0, <1>3, <1>4, <4>1, <4>2
    <3> QED
      BY <3>1, <3>2
  <2> QED
    BY <1>0, <1>3, <2>1, <2>2
<1>6. CASE NoRoomForLast(more) /\ directive = "fillOutput"
  <2>1. PICK room \in Nat : room = job.cap - op - 1
    BY <1>0, <1>2, <1>6
  <2>2. room < more + Extra(more)
    <3>1. op + more + 1 + Extra(more) > job.cap
      BY <1>4, <1>6 DEF NoRoomForLast
    <3> QED
      BY <1>0, <1>4, <2>1, <3>1
  <2>3. PICK run : run = Fitting
    OBVIOUS
  <2>4. run = room - (room + ByteMax + 1 - RunMask) \div (ByteMax + 1)
    BY <2>1, <2>3 DEF Fitting
  <2>5. /\ run \in Nat /\ run <= more /\ run + Extra(run) <= room
        /\ \A k \in 0 .. 8 : room >= k => run >= k
    BY <2>2, <2>4, FittingIs
  <2>6. LastRun(run)
    BY <1>3, <1>6, <2>3 DEF Last, iend
  <2>7. op + 1 + Extra(run) + run <= job.cap
    <3>1. Extra(run) \in Nat
      BY <2>5, ExtraIs
    <3> QED
      BY <1>0, <2>1, <2>5, <3>1
  <2>8. ASSUME NEW k \in 0 .. 8, op + 1 + k <= job.cap PROVE k <= run
    BY <1>0, <2>1, <2>5, <2>8
  <2> QED
    BY <1>3, <1>6, <2>5, <2>6, <2>7, <2>8
<1>7. CASE NoRoomForLast(more) /\ directive # "fillOutput"
  <2>1. UNCHANGED <<job, op, wrote, ip, block>> /\ result' = 0
    BY <1>3, <1>7 DEF Last, Return, iend
  <2> QED
    BY <1>3, <1>7, <2>1 DEF NoRoomForLast
<1> QED
  BY <1>5, <1>6, <1>7

LEMMA LastCore ==
  ASSUME Core, Last
  PROVE  Core'
<1>0. /\ job \in Jobs /\ n \in Nat /\ job.cap \in Nat /\ op \in Nat /\ anchor \in Nat /\ ip \in Nat
      /\ ip <= n /\ anchor <= n /\ wrote \in Nat /\ table \in [Buckets -> Nat]
  BY CoreTypes
<1>1. /\ ip \in 0 .. n /\ fwd \in Nat /\ step \in Nat /\ searches \in Nat /\ anchor \in 0 .. n
      /\ match \in Int /\ low \in Int /\ offset \in Int /\ filled \in 0 .. n /\ token \in Nat
      /\ block \in Seq([lit : Nat, offset : Nat, ml : Nat]) /\ result \in Nat
  BY DEF Core, TypeOK
<1>2. pc = "last"
  BY DEF Last
<1>3. wrote <= job.cap /\ stray = FALSE /\ \A h \in Buckets : Known(h, table[h])
  <2>1. stray \in BOOLEAN
    BY CoreTypes
  <2> QED
    BY <1>2, <2>1 DEF Core, Roomy, Tables
<1>4. /\ table' = table /\ fwd' = fwd /\ step' = step /\ searches' = searches /\ anchor' = anchor
      /\ match' = match /\ low' = low /\ offset' = offset /\ filled' = filled /\ token' = token
      /\ stray' = stray
  BY DEF Last
<1>5. job' = job /\ pc' = "done"
  BY DEF Last, LastRun, Return
<1>6. /\ n' = n /\ directive' = directive /\ job.cap' = job.cap /\ job' \in Jobs /\ job' \in JobType
  BY <1>0, <1>5, SameJob, JobTypes
<1>7. /\ op' \in Nat /\ wrote' \in Nat /\ wrote' <= job.cap /\ result' \in Nat /\ ip' \in 0 .. n
      /\ block' \in Seq([lit : Nat, offset : Nat, ml : Nat])
  <2>1. CASE UNCHANGED <<job, op, wrote, ip, block>> /\ result' = 0
    BY <1>0, <1>1, <1>3, <2>1
  <2>2. CASE \E run \in Nat : LastRun(run) /\ run <= n - anchor
                                /\ op + 1 + Extra(run) + run <= job.cap
    <3>1. PICK run \in Nat : LastRun(run) /\ run <= n - anchor
                                /\ op + 1 + Extra(run) + run <= job.cap
      BY <2>2
    <3>2. /\ op' = op + 1 + Extra(run) + run /\ wrote' = MaxOf(wrote, op') /\ ip' = anchor + run
          /\ block' = Append(block, [lit |-> run, offset |-> 0, ml |-> 0]) /\ result' = op'
      BY <3>1 DEF LastRun, Return, Wrote
    <3>3. Extra(run) \in Nat
      BY ExtraIs
    <3>4. op' \in Nat /\ op' <= job.cap
      BY <1>0, <3>1, <3>2, <3>3
    <3>5. wrote' \in Nat /\ wrote' <= job.cap
      BY <1>0, <1>3, <3>2, <3>4 DEF MaxOf
    <3>6. ip' \in 0 .. n
      BY <1>0, <3>1, <3>2
    <3>7. block' \in Seq([lit : Nat, offset : Nat, ml : Nat])
      <4>1. PICK s \in [lit : Nat, offset : Nat, ml : Nat] :
              s = [lit |-> run, offset |-> 0, ml |-> 0]
        OBVIOUS
      <4> QED
        BY <1>1, <3>2, <4>1, AppendProperties
    <3> QED
      BY <3>2, <3>4, <3>5, <3>6, <3>7
  <2> QED
    BY <2>1, <2>2, LastIs
<1>8. stray' \in BOOLEAN /\ ~stray'
  BY <1>3, <1>4
<1>9. TypeOK'
  BY <1>0, <1>1, <1>4, <1>5, <1>6, <1>7, <1>8 DEF TypeOK, Labels
<1>10. Places' /\ Matched'
  BY <1>5 DEF Places, Matched, Compressing
<1>11. Tables'
  <2>1. (\A h \in Buckets : Known(h, table[h]))'
    BY <1>3, <1>4, <1>5, KnownNext
  <2> QED
    BY <1>5, <2>1 DEF Tables
<1>12. Roomy'
  BY <1>5, <1>6, <1>7, <1>8 DEF Roomy
<1> QED
  BY <1>6, <1>9, <1>10, <1>11, <1>12 DEF Core

LEMMA StutterCore ==
  ASSUME Core, UNCHANGED vars
  PROVE  Core'
<1>1. /\ job' = job /\ pc' = pc /\ table' = table /\ ip' = ip /\ fwd' = fwd /\ step' = step
      /\ searches' = searches /\ anchor' = anchor /\ match' = match /\ low' = low
      /\ offset' = offset /\ filled' = filled /\ token' = token /\ op' = op /\ wrote' = wrote
      /\ block' = block /\ result' = result /\ stray' = stray
  BY DEF vars
<1>2. n' = n /\ directive' = directive
  BY <1>1, SameJob
<1>3. TypeOK' /\ Places' /\ Roomy' /\ (job \in Jobs)'
  <2>1. TypeOK'
    BY <1>1, <1>2 DEF Core, TypeOK
  <2>2. Places'
    BY <1>1, <1>2 DEF Core, Places
  <2>3. Roomy'
    <3>1. Base' = Base
      BY <1>1 DEF Base
    <3> QED
      BY <1>1, <1>2, <3>1 DEF Core, Roomy
  <2> QED
    BY <1>1, <2>1, <2>2, <2>3 DEF Core
<1>4. Tables'
  <2>1. (\A h \in Buckets : Known(h, table[h]))'
    BY <1>1, KnownNext DEF Core, Tables
  <2> QED
    BY <1>1, <2>1 DEF Core, Tables
<1>5. Matched'
  <2>1. /\ Found(ip, match, low, offset, MinMatch) => Found(ip, match, low, offset, MinMatch)'
        /\ Found(ip, match, low, offset, filled - ip + MinMatch)
             => Found(ip, match, low, offset, filled - ip + MinMatch)'
    BY <1>1, FoundNext
  <2> QED
    BY <1>1, <1>2, <2>1 DEF Core, Matched
<1> QED
  BY <1>3, <1>4, <1>5 DEF Core

LEMMA NextCore == Core /\ [Next]_vars => Core'
  BY BeginCore, SearchCore, LiteralsCore, MatchCore, FollowingCore, LastCore, StutterCore DEF Next

LEMMA CoreAlways == Spec => []Core
<1>1. Core /\ [Next]_vars => Core'
  BY NextCore
<1> QED
  BY InitCore, <1>1, PTL DEF Spec

-----------------------------------------------------------------------------
(* The compressor stays inside its buffers, and its assertions hold.       *)

\* No byte beyond the output's capacity is written and none outside the source and its history is
\* read, whichever way LZ4_compress_generic treats the end of the output.
THEOREM CompressorStaysInside == Spec => []StaysInside
<1>1. Core => StaysInside
  BY DEF Core, Roomy, StaysInside
<1> QED
  BY CoreAlways, <1>1, PTL

LEMMA CoreAsserts == Core => AssertionsHold
<1> SUFFICES ASSUME Core PROVE AssertionsHold
  OBVIOUS
<1>1. /\ n \in Nat /\ job.cap \in Nat /\ job.startIndex \in Nat /\ table \in [Buckets -> Nat]
      /\ op \in Nat /\ Window \in Nat /\ Window > 12
  BY CoreTypes, Constants
<1>2. /\ pc = "search" => \A h \in Buckets : table[h] < fwd + job.startIndex
      /\ pc = "next" => \A h \in Buckets : table[h] < ip + job.startIndex
      /\ \A h \in Buckets : Known(h, table[h])
  BY DEF Core, Tables
<1>3. pc = "literals" => ip > anchor
  <2>1. pc = "literals" => anchor < ip
    BY DEF Core, Places
  <2> QED
    BY <2>1, CoreTypes
<1>4. pc = "match" => offset \in 1 .. DistanceMax
  BY DEF Core, Matched, Found
<1>5. directive = "fillOutput" => /\ pc = "next" => op + 1 + LastLiterals <= job.cap
                                  /\ pc = "last" => op <= job.cap
  <2>1. directive = "fillOutput" => /\ pc = "next" => op + 1 + LastLiterals <= job.cap
                                    /\ pc = "last" => op + 1 <= job.cap
    BY DEF Core, Roomy
  <2> QED
    BY <1>1, <2>1
<1>6. ASSUME NEW h \in Buckets PROVE table[h] < job.startIndex + MaxOf(1, n)
  <2>1. table[h] \in Nat /\ Known(h, table[h])
    BY <1>1, <1>2
  <2> QED
    BY <1>1, <2>1 DEF Known, MaxOf, MFLimit
<1>7. ASSUME NEW h \in Buckets, byU16 PROVE table[h] < Window
  <2>1. table[h] \in Nat /\ Known(h, table[h])
    BY <1>1, <1>2
  <2>2. n < Window + 11
    BY <1>1, <1>7 DEF byU16, Limit64K, MFLimit
  <2>3. job.startIndex > 0 => job.startIndex + n < Window - 1
    <3>1. HandedOver(job) /\ job.api # "stream" /\ Len(job.src) < Limit64K
      BY <1>7, JobTypes DEF Core, byU16, n
    <3> QED
      BY <3>1 DEF HandedOver, n
  <2>4. \/ table[h] <= job.startIndex
        \/ table[h] - job.startIndex + 12 <= n
    BY <1>1, <2>1 DEF Known, MFLimit
  <2> QED
    BY <1>1, <2>1, <2>2, <2>3, <2>4
<1> QED
  BY <1>2, <1>3, <1>4, <1>5, <1>6, <1>7 DEF AssertionsHold

\* The assertions of LZ4_compress_generic hold: candidates lie behind the position, no position
\* ahead is left in the table, positions fit the table's entries, and there is room for what must
\* follow.
THEOREM AssertionsAlwaysHold == Spec => []AssertionsHold
  BY CoreAlways, CoreAsserts, PTL

-----------------------------------------------------------------------------
(* With the room of compressBound compression succeeds.                    *)

\* The calls that LZ4_COMPRESSBOUND speaks of.
Promised == n <= MaxInput /\ job.cap >= compressBound(n)

\* No test for room fails then: what is written is paid for by what has been read.
LEMMA RoomForLiterals ==
  ASSUME Core, pc = "literals", Promised, NEW lit \in Nat, anchor + lit + MFLimit <= n
  PROVE  ~NoRoomForLiterals(lit)
<1>1. /\ job \in Jobs /\ n \in Nat /\ job.cap \in Nat /\ op \in Nat /\ anchor \in Nat
      /\ ByteMax \in Nat /\ ByteMax > 0
  BY CoreTypes, Constants
<1>2. Paid(op, anchor) /\ n <= MaxInput
  BY DEF Core, Roomy, Base, Promised
<1>3. n \div ByteMax \in Nat /\ job.cap >= n + n \div ByteMax + 16
  BY <1>1, BoundIs DEF Promised
<1>4. directive = "notLimited" \/ (directive = "limitedOutput" /\ job.api = "stream")
  BY DEF directive, Promised
<1>5. op + lit \div ByteMax <= anchor + 1 + n \div ByteMax
  <2>1. op + Extra(lit) <= anchor + 1 + n \div ByteMax
    <3>1. anchor + lit <= n
      BY <1>1 DEF MFLimit
    <3> QED
      BY <1>1, <1>2, <3>1, PaidLiterals
  <2>2. /\ Extra(lit) \in Nat /\ lit < ByteMax * Extra(lit) + RunMask
        /\ RunMask < ByteMax /\ RunMask \in Nat
    BY ExtraIs, Constants
  <2>3. PICK e \in Nat : e = Extra(lit)
    BY <2>2
  <2>4. PICK q \in Nat : q = lit \div ByteMax
    BY <1>1, Quotient
  <2>5. ByteMax * q <= lit /\ ByteMax * e \in Nat /\ ByteMax * q \in Nat
    BY <1>1, <2>3, <2>4, Quotient
  <2>6. ByteMax * (e + 1) = ByteMax * e + ByteMax
    BY <1>1, <2>3
  <2>7. ByteMax * q < ByteMax * (e + 1)
    BY <1>1, <2>2, <2>3, <2>5, <2>6
  <2>8. q < e + 1
    BY <1>1, <2>3, <2>4, <2>7
  <2> QED
    BY <1>1, <1>3, <2>1, <2>3, <2>4, <2>8
<1>6. lit \div ByteMax \in Nat
  BY <1>1, Quotient
<1>7. op + 1 + lit + (2 + 1 + LastLiterals) + lit \div ByteMax <= job.cap
  BY <1>1, <1>3, <1>5, <1>6 DEF LastLiterals, MFLimit
<1>8. ~(op + 1 + lit + (2 + 1 + LastLiterals) + lit \div ByteMax > job.cap)
  BY <1>1, <1>6, <1>7 DEF LastLiterals
<1> QED
  BY <1>4, <1>8 DEF NoRoomForLiterals

LEMMA RoomForMatch ==
  ASSUME Core, pc = "match", Promised
  PROVE  ~NoRoomForMatch(MatchCode) /\ directive # "fillOutput"
<1>1. /\ job \in Jobs /\ n \in Nat /\ job.cap \in Nat /\ op \in Nat /\ anchor \in Nat
      /\ ip \in Nat /\ token \in Nat
  BY CoreTypes
<1>2. /\ Paid(token, anchor) /\ n <= MaxInput /\ anchor <= ip /\ ip + MFLimit <= n
      /\ op = token + 1 + Extra(ip - anchor) + (ip - anchor)
      /\ Found(ip, match, low, offset, MinMatch)
  BY DEF Core, Places, Matched, Roomy, Base, Promised
<1>3. n \div ByteMax \in Nat /\ job.cap >= n + n \div ByteMax + 16
  BY <1>1, BoundIs DEF Promised
<1>4. PICK code : code = MatchCode
  OBVIOUS
<1>5. code \in Nat /\ ip + MinMatch + code + LastLiterals <= n
  BY <1>1, <1>2, <1>4, MatchCodeIs
<1>6. Extra(code) \in Nat /\ (code + ByteMax - RunMask) \div ByteMax = Extra(code)
  BY <1>5, ExtraIs
<1>7. PICK lit \in Nat : lit = ip - anchor
  BY <1>1, <1>2
<1>8. Extra(lit) \in Nat /\ op = token + 1 + Extra(lit) + lit
  BY <1>2, <1>7, ExtraIs
<1>9. anchor + lit + code <= n /\ anchor + lit <= n
  BY <1>1, <1>5, <1>7 DEF MinMatch, LastLiterals
<1>10. token + Extra(lit) + Extra(code) <= anchor + 2 + n \div ByteMax
  BY <1>1, <1>2, <1>5, <1>9, PaidMatch
<1>11. op + 2 + (1 + LastLiterals) + Extra(code) <= job.cap
  BY <1>1, <1>3, <1>6, <1>8, <1>9, <1>10 DEF LastLiterals
<1>12. ~(op + 2 + (1 + LastLiterals) + Extra(code) > job.cap)
  BY <1>1, <1>6, <1>11 DEF LastLiterals
<1>13. directive # "fillOutput"
  BY DEF directive, Promised
<1> QED
  BY <1>4, <1>6, <1>12, <1>13 DEF NoRoomForMatch

LEMMA RoomForLast ==
  ASSUME Core, pc = "last", Promised
  PROVE  ~NoRoomForLast(n - anchor)
<1>1. /\ job \in Jobs /\ n \in Nat /\ job.cap \in Nat /\ op \in Nat /\ anchor \in Nat /\ anchor <= n
  BY CoreTypes
<1>2. Paid(op, anchor)
  BY DEF Core, Roomy, Base
<1>3. n \div ByteMax \in Nat /\ job.cap >= n + n \div ByteMax + 16
  BY <1>1, BoundIs DEF Promised
<1>4. PICK run \in Nat : run = n - anchor
  BY <1>1
<1>5. Extra(run) \in Nat /\ (run + ByteMax - RunMask) \div ByteMax = Extra(run)
  BY ExtraIs
<1>6. op + Extra(run) <= anchor + 1 + n \div ByteMax
  <2>1. anchor + run <= n
    BY <1>1, <1>4
  <2> QED
    BY <1>1, <1>2, <2>1, PaidLiterals
<1>7. ~(op + run + 1 + Extra(run) > job.cap)
  BY <1>1, <1>3, <1>4, <1>5, <1>6
<1> QED
  BY <1>4, <1>5, <1>7 DEF NoRoomForLast

LEMMA SucceedsNext ==
  ASSUME Core, Succeeds, [Next]_vars
  PROVE  Succeeds'
<1> SUFFICES ASSUME pc' = "done", Promised' PROVE result' > 0 /\ result' = op'
  BY DEF Succeeds, Promised
<1>1. job' = job
  BY DEF Next, vars, Begin, Search, Literals, Match, Following, Last, Goto, Return, Emit, LastRun
<1>2. n' = n /\ Promised
  BY <1>1, SameJob DEF Promised, compressBound
<1>3. /\ job \in Jobs /\ n \in Nat /\ job.cap \in Nat /\ op \in Nat /\ anchor \in Nat /\ anchor <= n
      /\ ip \in Nat
  BY CoreTypes
<1>4. n <= MaxInput /\ job.cap >= n + n \div ByteMax + 16 /\ n \div ByteMax \in Nat
      /\ directive # "fillOutput"
  BY <1>2, <1>3, BoundIs DEF Promised, directive
<1>5. CASE Begin
  <2>1. ~(n > MaxInput) /\ ~(job.cap <= 0)
    BY <1>3, <1>4, Constants
  <2>2. n = 0
    BY <1>4, <1>5, <2>1 DEF Begin, Goto
  <2> QED
    BY <1>5, <2>1, <2>2 DEF Begin, Return
<1>6. CASE Search \/ Following
  BY <1>6 DEF Search, Following, Goto
<1>7. CASE Literals
  <2>1. pc = "literals"
    BY <1>7 DEF Literals
  <2>2. PICK lit : lit = ip - CatchUp - anchor
    OBVIOUS
  <2>3. lit \in Nat /\ anchor + lit + MFLimit <= n
    <3>1. anchor < ip /\ ip + MFLimit <= n /\ Found(ip, match, low, offset, MinMatch)
      BY <2>1 DEF Core, Places, Matched
    <3>2. ip \in Int /\ anchor \in Int /\ match \in Int /\ low \in Int /\ low <= match
      BY <1>3, <3>1 DEF Found, Placed
    <3>3. anchor <= ip
      BY <1>3, <3>1
    <3>4. CatchUp \in Nat /\ CatchUp <= ip - anchor
      BY <3>2, <3>3, CatchUpIs
    <3> QED
      BY <1>3, <2>2, <3>1, <3>4 DEF MFLimit
  <2>4. ~NoRoomForLiterals(lit)
    BY <1>2, <2>1, <2>3, RoomForLiterals
  <2> QED
    BY <1>7, <2>2, <2>4 DEF Literals, Goto
<1>8. CASE Match
  <2>1. pc = "match"
    BY <1>8 DEF Match
  <2>2. ~NoRoomForMatch(MatchCode) /\ directive # "fillOutput"
    BY <1>2, <2>1, RoomForMatch
  <2> QED
    BY <1>8, <2>2 DEF Match, Emit, Goto
<1>9. CASE Last
  <2>1. ~NoRoomForLast(n - anchor)
    BY <1>2, <1>9, RoomForLast DEF Last
  <2>2. PICK run \in Nat : LastRun(run)
    BY <1>9, <2>1, LastIs
  <2>3. Extra(run) \in Nat /\ op' = op + 1 + Extra(run) + run /\ result' = op'
    BY <2>2, ExtraIs DEF LastRun, Return
  <2> QED
    BY <1>3, <2>3
<1>10. CASE UNCHANGED vars
  BY <1>2, <1>10 DEF vars, Succeeds, Promised
<1> QED
  BY <1>5, <1>6, <1>7, <1>8, <1>9, <1>10 DEF Next

\* lz4.h: compression is guaranteed to succeed into LZ4_compressBound() bytes, also by the functions
\* that test every write against that room.
THEOREM AlwaysSucceeds == Spec => []Succeeds
<1>1. Init => Succeeds
  BY DEF Init, Succeeds
<1>2. Core /\ Succeeds /\ [Next]_vars => Succeeds'
  BY SucceedsNext
<1> QED
  BY CoreAlways, <1>1, <1>2, PTL DEF Spec

-----------------------------------------------------------------------------
(* What a decoder makes of a sequence.                                     *)

LEMMA Remainder ==
  ASSUME NEW o \in Nat, o > 0, NEW i \in Nat
  PROVE  /\ i % o \in 0 .. o - 1
         /\ i < o => i % o = i
         /\ i >= o => (i - o) % o = i % o
<1> DEFINE q == i \div o
<1>1. q \in Nat /\ o * q <= i /\ i < o * q + o
  BY Quotient
<1>2. i % o = i - o * q
  BY <1>1
<1>3. i % o \in 0 .. o - 1
  BY <1>1, <1>2
<1>4. i < o => i % o = i
  <2>1. ASSUME i < o PROVE q = 0
    <3>1. 0 \in Nat /\ o * 0 <= i /\ i < o * 0 + o
      BY <2>1
    <3> QED
      BY <3>1, QuotientIs
  <2> QED
    BY <1>2, <2>1
<1>5. ASSUME i >= o PROVE (i - o) % o = i % o
  <2> DEFINE r == (i - o) \div o
  <2>1. i - o \in Nat
    BY <1>5
  <2>2. r \in Nat /\ o * r <= i - o /\ i - o < o * r + o /\ (i - o) % o = (i - o) - o * r
    BY <2>1, Quotient
  <2> HIDE DEF r, q
  <2>3. o * (r + 1) = o * r + o /\ r + 1 \in Nat
    BY <2>2
  <2>4. q = r + 1
    BY <1>5, <2>2, <2>3, QuotientIs DEF q
  <2> QED
    BY <1>1, <1>2, <2>2, <2>3, <2>4
<1> QED
  BY <1>3, <1>4, <1>5

\* A text that repeats at a distance is made of the bytes before it, over and over.
LEMMA Periodic ==
  ASSUME NEW p \in Nat, NEW o \in Nat, o > 0, NEW k \in Nat, Agrees(p, o, k)
  PROVE  \A i \in 0 .. k - 1 : TextAt(p + i) = TextAt(p - o + (i % o))
<1> DEFINE T == {i \in 0 .. k - 1 : TextAt(p + i) # TextAt(p - o + (i % o))}
<1> SUFFICES ASSUME T # {} PROVE FALSE
  OBVIOUS
<1>6. T \subseteq Nat
  OBVIOUS
<1>1. PICK i \in T : \A x \in T : i <= x
  <2> HIDE DEF T
  <2> QED
    BY <1>6, LeastNat
<1>2. i \in 0 .. k - 1 /\ i \in Nat /\ TextAt(p + i) # TextAt(p - o + (i % o))
  BY <1>1
<1>3. TextAt(p + i) = TextAt(p + i - o)
  BY <1>2 DEF Agrees
<1>4. CASE i < o
  <2>1. p + i - o = p - o + (i % o)
    BY <1>2, <1>4, Remainder
  <2> QED
    BY <1>2, <1>3, <2>1
<1>5. CASE i >= o
  <2>1. i - o \in 0 .. k - 1 /\ i - o \in Nat /\ ~(i <= i - o)
    BY <1>2, <1>5
  <2>2. i - o \notin T
    BY <1>1, <2>1
  <2>3. TextAt(p + (i - o)) = TextAt(p - o + ((i - o) % o))
    BY <2>1, <2>2
  <2>4. p + (i - o) = p + i - o /\ (i - o) % o = i % o
    BY <1>2, <1>5, Remainder
  <2> QED
    BY <1>2, <1>3, <2>3, <2>4
<1> QED
  BY <1>2, <1>4, <1>5

\* The history and the source up to a position.
Encoded(q) == job.dict \o SubSeq(job.src, 1, q)

LEMMA EncodedIs ==
  ASSUME job \in Jobs, NEW q \in Nat, q <= n
  PROVE  /\ Encoded(q) \in Seq(Nat) /\ Len(Encoded(q)) = dictSize + q
         /\ \A x \in 1 .. dictSize + q : Encoded(q)[x] = TextAt(x - dictSize - 1)
<1>1. /\ job.src \in Seq(Nat) /\ job.dict \in Seq(Nat) /\ n \in Nat /\ dictSize \in Nat
      /\ n = Len(job.src) /\ dictSize = Len(job.dict)
  BY JobTypes DEF n, dictSize
<1> DEFINE s == SubSeq(job.src, 1, q)
<1>2. s \in Seq(Nat) /\ Len(s) = q /\ s = [i \in 1 .. q |-> job.src[i]]
  <2>1. PICK z \in Nat : z = 0
    OBVIOUS
  <2>2. z + 1 = 1 /\ z + q = q /\ z + q <= Len(job.src)
    BY <1>1, <2>1
  <2>3. /\ SubSeq(job.src, z + 1, z + q) = [i \in 1 .. q |-> job.src[z + i]]
        /\ SubSeq(job.src, z + 1, z + q) \in Seq(Nat)
        /\ Len(SubSeq(job.src, z + 1, z + q)) = q
    BY <1>1, <2>2, SliceIs
  <2>4. [i \in 1 .. q |-> job.src[z + i]] = [i \in 1 .. q |-> job.src[i]]
    BY <2>1
  <2> QED
    BY <2>2, <2>3, <2>4
<1> HIDE DEF s
<1>3. Encoded(q) = job.dict \o s
  BY DEF Encoded, s
<1>4. /\ job.dict \o s \in Seq(Nat) /\ Len(job.dict \o s) = dictSize + q
      /\ \A x \in 1 .. dictSize + q :
           (job.dict \o s)[x] = IF x <= dictSize THEN job.dict[x] ELSE s[x - dictSize]
  BY <1>1, <1>2, ConcatProperties
<1>5. ASSUME NEW x \in 1 .. dictSize + q PROVE (job.dict \o s)[x] = TextAt(x - dictSize - 1)
  <2>1. CASE x <= dictSize
    <3>1. ~(x - dictSize - 1 >= 0) /\ dictSize + (x - dictSize - 1) + 1 = x
      BY <1>1, <2>1
    <3> QED
      BY <1>4, <2>1, <3>1 DEF TextAt
  <2>2. CASE ~(x <= dictSize)
    <3>1. /\ x - dictSize - 1 >= 0 /\ (x - dictSize - 1) + 1 = x - dictSize
          /\ x - dictSize \in 1 .. q
      BY <1>1, <2>2
    <3>2. (job.dict \o s)[x] = s[x - dictSize] /\ s[x - dictSize] = job.src[x - dictSize]
      BY <1>2, <1>4, <2>2, <3>1
    <3> QED
      BY <3>1, <3>2 DEF TextAt
  <2> QED
    BY <2>1, <2>2
<1> QED
  BY <1>3, <1>4, <1>5

\* Literals are the source's next bytes.
LEMMA LiteralsDecode ==
  ASSUME job \in Jobs, NEW q \in Nat, NEW lit \in Nat, q + lit <= n
  PROVE  Encoded(q) \o SubSeq(job.src, Len(Encoded(q)) - Len(job.dict) + 1,
                              Len(Encoded(q)) - Len(job.dict) + lit) = Encoded(q + lit)
<1>1. /\ job.src \in Seq(Nat) /\ job.dict \in Seq(Nat) /\ n \in Nat /\ dictSize \in Nat
      /\ n = Len(job.src) /\ dictSize = Len(job.dict)
  BY JobTypes DEF n, dictSize
<1>2. Len(Encoded(q)) - Len(job.dict) = q
  <2>1. q <= n
    BY <1>1
  <2>2. Len(Encoded(q)) = dictSize + q
    BY <2>1, EncodedIs
  <2> QED
    BY <1>1, <2>2
<1> DEFINE a == SubSeq(job.src, 1, q)
           b == SubSeq(job.src, q + 1, q + lit)
<1>3. a \in Seq(Nat) /\ b \in Seq(Nat)
  <2>1. ASSUME NEW i \in 1 .. q + lit PROVE job.src[i] \in Nat
    <3>1. i \in 1 .. Len(job.src)
      BY <1>1
    <3> QED
      BY <1>1, <3>1, ElementOfSeq
  <2>2. /\ \A i \in 1 .. q : job.src[i] \in Nat
        /\ \A i \in q + 1 .. q + lit : job.src[i] \in Nat
    BY <2>1
  <2>3. 1 \in Int /\ q \in Int /\ q + 1 \in Int /\ q + lit \in Int
    OBVIOUS
  <2> QED
    BY <2>2, <2>3, SubSeqProperties
<1>4. a \o b = SubSeq(job.src, 1, q + lit)
  <2>1. 1 \in 1 .. Len(job.src) + 1 /\ q \in 1 - 1 .. Len(job.src) /\ q + lit \in q .. Len(job.src)
    BY <1>1
  <2> QED
    BY <1>1, <2>1, ConcatAdjacentSubSeq
<1> HIDE DEF a, b
<1>5. (job.dict \o a) \o b = job.dict \o (a \o b)
  <2>1. PICK d \in Seq(Nat) : d = job.dict
    BY <1>1
  <2>2. (d \o a) \o b = d \o (a \o b)
    BY <1>3, ConcatAssociative
  <2> QED
    BY <2>1, <2>2
<1>6. Encoded(q) = job.dict \o a /\ Encoded(q + lit) = job.dict \o (a \o b)
  BY <1>4 DEF Encoded, a
<1> QED
  BY <1>2, <1>5, <1>6 DEF b

\* The bytes of a match behind a text.
Copied(lits, o, ml) == [k \in 1 .. ml |-> lits[Len(lits) - o + 1 + ((k - 1) % o)]]

\* A match is what follows in the source, if the text repeats there at its distance.
LEMMA MatchDecodes ==
  ASSUME job \in Jobs, NEW p \in Nat, NEW o \in Nat, o > 0, NEW ml \in Nat, p + ml <= n,
         Agrees(p, o, ml)
  PROVE  Encoded(p) \o Copied(Encoded(p), o, ml) = Encoded(p + ml)
<1>1. n \in Nat /\ dictSize \in Nat
  BY JobTypes
<1> DEFINE lits == Encoded(p)
<1>2. /\ lits \in Seq(Nat) /\ Len(lits) = dictSize + p
      /\ \A x \in 1 .. dictSize + p : lits[x] = TextAt(x - dictSize - 1)
  <2>1. p <= n
    BY <1>1
  <2> QED
    BY <2>1, EncodedIs
<1>3. /\ Encoded(p + ml) \in Seq(Nat) /\ Len(Encoded(p + ml)) = dictSize + (p + ml)
      /\ \A x \in 1 .. dictSize + (p + ml) : Encoded(p + ml)[x] = TextAt(x - dictSize - 1)
  BY EncodedIs
<1> HIDE DEF lits
<1> DEFINE f == Copied(lits, o, ml)
<1>4. ASSUME NEW k \in 1 .. ml
      PROVE  f[k] = TextAt(p + k - 1) /\ f[k] \in Nat
  <2>1. PICK i \in Nat : i = k - 1
    OBVIOUS
  <2>2. i \in 0 .. ml - 1 /\ p + k - 1 = p + i
    BY <2>1
  <2>3. PICK r \in 0 .. o - 1 : r = i % o
    BY Remainder
  <2>4. f[k] = lits[Len(lits) - o + 1 + r]
    BY <2>1, <2>3 DEF Copied
  <2>5. p - o >= -dictSize
    BY DEF Agrees
  <2>6. Len(lits) - o + 1 + r \in 1 .. dictSize + p
        /\ (Len(lits) - o + 1 + r) - dictSize - 1 = p - o + r
    BY <1>1, <1>2, <2>3, <2>5
  <2>7. f[k] = TextAt(p - o + r)
    BY <1>2, <2>4, <2>6
  <2>8. TextAt(p + i) = TextAt(p - o + (i % o))
    BY <2>2, Periodic
  <2>9. lits[Len(lits) - o + 1 + r] \in Nat
    BY <1>2, <2>6, ElementOfSeq
  <2> QED
    BY <2>2, <2>3, <2>4, <2>7, <2>8, <2>9
<1> HIDE DEF f
<1>5. f \in Seq(Nat) /\ Len(f) = ml
  <2>1. f = [k \in 1 .. ml |-> f[k]]
    BY DEF f, Copied
  <2>2. f \in [1 .. ml -> Nat]
    BY <1>4, <2>1
  <2> QED
    BY <2>2
<1>6. /\ lits \o f \in Seq(Nat) /\ Len(lits \o f) = dictSize + p + ml
      /\ \A x \in 1 .. dictSize + p + ml :
           (lits \o f)[x] = IF x <= dictSize + p THEN lits[x] ELSE f[x - (dictSize + p)]
  <2>1. lits \in Seq(Nat) /\ f \in Seq(Nat)
    BY <1>2, <1>5
  <2>2. /\ lits \o f \in Seq(Nat) /\ Len(lits \o f) = Len(lits) + Len(f)
        /\ \A x \in 1 .. Len(lits) + Len(f) :
             (lits \o f)[x] = IF x <= Len(lits) THEN lits[x] ELSE f[x - Len(lits)]
    BY <2>1, ConcatProperties
  <2> QED
    BY <1>2, <1>5, <2>2
<1>7. ASSUME NEW x \in 1 .. dictSize + p + ml PROVE (lits \o f)[x] = TextAt(x - dictSize - 1)
  <2>1. CASE x <= dictSize + p
    <3>1. x \in 1 .. dictSize + p
      BY <1>1, <2>1
    <3> QED
      BY <1>2, <1>6, <2>1, <3>1
  <2>2. CASE ~(x <= dictSize + p)
    <3>1. PICK k \in 1 .. ml : k = x - (dictSize + p)
      BY <1>1, <2>2
    <3>2. p + k - 1 = x - dictSize - 1
      BY <1>1, <3>1
    <3> QED
      BY <1>4, <1>6, <2>2, <3>1, <3>2
  <2> QED
    BY <2>1, <2>2
<1>8. dictSize + p + ml = dictSize + (p + ml)
  BY <1>1
<1>9. lits \o f = Encoded(p + ml)
  <2>1. Len(lits \o f) = Len(Encoded(p + ml))
    BY <1>3, <1>6, <1>8
  <2>2. \A x \in 1 .. Len(lits \o f) : (lits \o f)[x] = Encoded(p + ml)[x]
    BY <1>3, <1>6, <1>7, <1>8
  <2> QED
    BY <1>3, <1>6, <2>1, <2>2, SeqEqual
<1> QED
  BY <1>9 DEF f, lits

\* A sequence decodes to the text that it was made of.
LEMMA SequenceDecodes ==
  ASSUME job \in Jobs, NEW q \in Nat, NEW lit \in Nat, NEW o \in Nat, NEW ml \in Nat,
         q + lit + ml <= n, ml > 0 => o > 0 /\ Agrees(q + lit, o, ml),
         NEW s, s = [lit |-> lit, offset |-> o, ml |-> ml]
  PROVE  Decode(job, Encoded(q), s) = Encoded(q + lit + ml)
<1>1. n \in Nat
  BY JobTypes
<1>2. q + lit <= n
  BY <1>1
<1> DEFINE lits == Encoded(q) \o SubSeq(job.src, Len(Encoded(q)) - Len(job.dict) + 1,
                                        Len(Encoded(q)) - Len(job.dict) + lit)
<1>3. lits = Encoded(q + lit)
  BY <1>2, LiteralsDecode
<1>4. Decode(job, Encoded(q), s)
        = lits \o Copied(lits, o, ml)
  BY DEF Decode, Copied
<1> HIDE DEF lits
<1>5. CASE ml > 0
  <2>1. q + lit \in Nat /\ (q + lit) + ml <= n /\ Agrees(q + lit, o, ml) /\ o > 0
    BY <1>5
  <2>2. PICK p \in Nat : p = q + lit
    BY <2>1
  <2>3. p + ml <= n /\ Agrees(p, o, ml) /\ lits = Encoded(p)
    BY <1>3, <2>1, <2>2
  <2>4. Encoded(p) \o Copied(Encoded(p), o, ml) = Encoded(p + ml)
    BY <2>1, <2>3, MatchDecodes
  <2>5. p + ml = q + lit + ml
    BY <2>2
  <2> QED
    BY <1>4, <2>3, <2>4, <2>5
<1>6. CASE ml = 0
  <2>1. Copied(lits, o, ml) = << >>
    BY <1>6 DEF Copied
  <2>2. Encoded(q + lit) \in Seq(Nat)
    BY <1>2, EncodedIs
  <2>3. lits \o << >> = lits
    BY <1>3, <2>2, ConcatEmptySeq
  <2>4. q + lit + ml = q + lit
    BY <1>6
  <2> QED
    BY <1>3, <1>4, <2>1, <2>3, <2>4
<1> QED
  BY <1>5, <1>6

-----------------------------------------------------------------------------
(* Blocks, sequence by sequence.                                           *)

\* What the text of a block's first k sequences, and its length, are made of.
TextStep(f, j, s, k) == IF k = 0 THEN j.dict ELSE Decode(j, f[k - 1], s[k])
EndStep(f, s, k) == IF k = 0 THEN 0 ELSE f[k - 1] + s[k].lit + s[k].ml

LEMMA TextsExist ==
  ASSUME NEW j, NEW s
  PROVE  \A m \in Nat : \E f : f = [k \in 0 .. m |-> TextStep(f, j, s, k)]
<1> DEFINE P(m) == \E f : f = [k \in 0 .. m |-> TextStep(f, j, s, k)]
           T == {m \in Nat : ~P(m)}
<1> SUFFICES ASSUME T # {} PROVE FALSE
  OBVIOUS
<1>1. PICK m \in T : \A x \in T : m <= x
  BY LeastNat
<1>2. m # 0
  <2>1. P(0)
    <3> DEFINE f == [k \in 0 .. 0 |-> j.dict]
    <3>1. f = [k \in 0 .. 0 |-> TextStep(f, j, s, k)]
      BY DEF TextStep
    <3> QED
      BY <3>1
  <2> QED
    BY <2>1
<1>3. m - 1 \in Nat /\ m - 1 \notin T
  BY <1>1, <1>2
<1>4. PICK g : g = [k \in 0 .. m - 1 |-> TextStep(g, j, s, k)]
  BY <1>3
<1> DEFINE f == [k \in 0 .. m |-> IF k = m THEN TextStep(g, j, s, m) ELSE g[k]]
<1>5. ASSUME NEW k \in 0 .. m PROVE f[k] = TextStep(f, j, s, k)
  <2>1. CASE k = 0
    <3>1. 0 \in 0 .. m - 1 /\ k # m
      BY <1>2, <1>3, <2>1
    <3> QED
      BY <1>4, <2>1, <3>1 DEF TextStep
  <2>2. CASE k # 0
    <3>1. k - 1 \in 0 .. m - 1 /\ k - 1 # m /\ k - 1 \in 0 .. m
      BY <1>3, <2>2
    <3>2. f[k - 1] = g[k - 1]
      BY <3>1
    <3>3. f[k] = TextStep(g, j, s, k)
      <4>1. CASE k = m
        BY <4>1
      <4>2. CASE k # m
        <5>1. k \in 0 .. m - 1
          BY <1>3, <4>2
        <5> QED
          BY <1>4, <4>2, <5>1
      <4> QED
        BY <4>1, <4>2
    <3> QED
      BY <2>2, <3>2, <3>3 DEF TextStep
  <2> QED
    BY <2>1, <2>2
<1>6. f = [k \in 0 .. m |-> TextStep(f, j, s, k)]
  <2> HIDE DEF f
  <2> SUFFICES \A k \in 0 .. m : f[k] = TextStep(f, j, s, k)
    BY DEF f
  <2> QED
    BY <1>5
<1> QED
  BY <1>1, <1>6

LEMMA EndsExist ==
  ASSUME NEW s
  PROVE  \A m \in Nat : \E f : f = [k \in 0 .. m |-> EndStep(f, s, k)]
<1> DEFINE P(m) == \E f : f = [k \in 0 .. m |-> EndStep(f, s, k)]
           T == {m \in Nat : ~P(m)}
<1> SUFFICES ASSUME T # {} PROVE FALSE
  OBVIOUS
<1>1. PICK m \in T : \A x \in T : m <= x
  BY LeastNat
<1>2. m # 0
  <2>1. P(0)
    <3> DEFINE f == [k \in 0 .. 0 |-> 0]
    <3>1. f = [k \in 0 .. 0 |-> EndStep(f, s, k)]
      BY DEF EndStep
    <3> QED
      BY <3>1
  <2> QED
    BY <2>1
<1>3. m - 1 \in Nat /\ m - 1 \notin T
  BY <1>1, <1>2
<1>4. PICK g : g = [k \in 0 .. m - 1 |-> EndStep(g, s, k)]
  BY <1>3
<1> DEFINE f == [k \in 0 .. m |-> IF k = m THEN EndStep(g, s, m) ELSE g[k]]
<1>5. ASSUME NEW k \in 0 .. m PROVE f[k] = EndStep(f, s, k)
  <2>1. CASE k = 0
    <3>1. 0 \in 0 .. m - 1 /\ k # m
      BY <1>2, <1>3, <2>1
    <3> QED
      BY <1>4, <2>1, <3>1 DEF EndStep
  <2>2. CASE k # 0
    <3>1. k - 1 \in 0 .. m - 1 /\ k - 1 # m /\ k - 1 \in 0 .. m
      BY <1>3, <2>2
    <3>2. f[k - 1] = g[k - 1]
      BY <3>1
    <3>3. f[k] = EndStep(g, s, k)
      <4>1. CASE k = m
        BY <4>1
      <4>2. CASE k # m
        <5>1. k \in 0 .. m - 1
          BY <1>3, <4>2
        <5> QED
          BY <1>4, <4>2, <5>1
      <4> QED
        BY <4>1, <4>2
    <3> QED
      BY <2>2, <3>2, <3>3 DEF EndStep
  <2> QED
    BY <2>1, <2>2
<1>6. f = [k \in 0 .. m |-> EndStep(f, s, k)]
  <2> HIDE DEF f
  <2> SUFFICES \A k \in 0 .. m : f[k] = EndStep(f, s, k)
    BY DEF f
  <2> QED
    BY <1>5
<1> QED
  BY <1>1, <1>6

\* The text of a block is the last of the series; each one is longer by a sequence.
LEMMA TextsAre ==
  ASSUME NEW j, NEW s, Len(s) \in Nat
  PROVE  \E f : /\ f[0] = j.dict
                /\ \A k \in 1 .. Len(s) : f[k] = Decode(j, f[k - 1], s[k])
                /\ Decoded(j, s) = f[Len(s)]
<1> DEFINE m == Len(s)
           f == CHOOSE g : g = [k \in 0 .. m |-> TextStep(g, j, s, k)]
<1>1. f = [k \in 0 .. m |-> TextStep(f, j, s, k)]
  BY TextsExist
<1>2. Decoded(j, s) = f[m]
  BY DEF Decoded, TextStep
<1> HIDE DEF f
<1>3. f[0] = j.dict
  BY <1>1 DEF TextStep
<1>4. ASSUME NEW k \in 1 .. m PROVE f[k] = Decode(j, f[k - 1], s[k])
  BY <1>1 DEF TextStep
<1> QED
  BY <1>2, <1>3, <1>4

LEMMA EndsAre ==
  ASSUME NEW s, Len(s) \in Nat
  PROVE  /\ Ends(s)[0] = 0
         /\ \A k \in 1 .. Len(s) : Ends(s)[k] = Ends(s)[k - 1] + s[k].lit + s[k].ml
<1> DEFINE m == Len(s)
           f == CHOOSE g : g = [k \in 0 .. m |-> EndStep(g, s, k)]
<1>1. f = [k \in 0 .. m |-> EndStep(f, s, k)]
  BY EndsExist
<1>2. Ends(s) = f
  BY DEF Ends, EndStep
<1> HIDE DEF f
<1>3. f[0] = 0
  BY <1>1 DEF EndStep
<1>4. ASSUME NEW k \in 1 .. m PROVE f[k] = f[k - 1] + s[k].lit + s[k].ml
  BY <1>1 DEF EndStep
<1> QED
  BY <1>2, <1>3, <1>4

\* Two series that begin alike and go on alike are the same.
LEMMA SameSeries ==
  ASSUME NEW f, NEW g, NEW m \in Nat, f[0] = g[0],
         \A k \in 1 .. m : f[k - 1] = g[k - 1] => f[k] = g[k]
  PROVE  \A k \in 0 .. m : f[k] = g[k]
<1> DEFINE T == {k \in 0 .. m : f[k] # g[k]}
<1> SUFFICES ASSUME T # {} PROVE FALSE
  OBVIOUS
<1>1. T \subseteq Nat
  OBVIOUS
<1>2. PICK k \in T : \A x \in T : k <= x
  <2> HIDE DEF T
  <2> QED
    BY <1>1, LeastNat
<1>3. k \in 1 .. m /\ k - 1 \in 0 .. m /\ ~(k <= k - 1)
  BY <1>2
<1>4. f[k - 1] = g[k - 1]
  BY <1>2, <1>3
<1> QED
  BY <1>2, <1>3, <1>4

\* One more sequence.
LEMMA AppendIs ==
  ASSUME NEW R, NEW s \in Seq(R), NEW e \in R
  PROVE  /\ Append(s, e) \in Seq(R) /\ Len(s) \in Nat /\ Len(Append(s, e)) = Len(s) + 1
         /\ \A k \in 1 .. Len(s) : Append(s, e)[k] = s[k]
         /\ Append(s, e)[Len(s) + 1] = e
  BY AppendProperties, LenProperties

LEMMA DecodedMore ==
  ASSUME NEW j, NEW R, NEW s \in Seq(R), NEW e \in R
  PROVE  Decoded(j, Append(s, e)) = Decode(j, Decoded(j, s), e)
<1> DEFINE b == Append(s, e)
<1>1. /\ Len(s) \in Nat /\ Len(b) = Len(s) + 1 /\ b[Len(s) + 1] = e
      /\ \A k \in 1 .. Len(s) : b[k] = s[k]
  BY AppendIs
<1> HIDE DEF b
<1>2. PICK f : /\ f[0] = j.dict
               /\ \A k \in 1 .. Len(s) : f[k] = Decode(j, f[k - 1], s[k])
               /\ Decoded(j, s) = f[Len(s)]
  BY <1>1, TextsAre
<1>3. PICK g : /\ g[0] = j.dict
               /\ \A k \in 1 .. Len(b) : g[k] = Decode(j, g[k - 1], b[k])
               /\ Decoded(j, b) = g[Len(b)]
  BY <1>1, TextsAre
<1>4. ASSUME NEW k \in 1 .. Len(s), f[k - 1] = g[k - 1] PROVE f[k] = g[k]
  <2>1. k \in 1 .. Len(b) /\ b[k] = s[k]
    BY <1>1
  <2> QED
    BY <1>2, <1>3, <1>4, <2>1
<1>5. \A k \in 0 .. Len(s) : f[k] = g[k]
  <2>1. f[0] = g[0]
    BY <1>2, <1>3
  <2>2. PICK m \in Nat : m = Len(s)
    BY <1>1
  <2>3. \A k \in 1 .. m : f[k - 1] = g[k - 1] => f[k] = g[k]
    BY <1>4, <2>2
  <2>4. \A k \in 0 .. m : f[k] = g[k]
    BY ONLY <2>1, <2>3, m \in Nat, SameSeries
  <2> QED
    BY <2>2, <2>4
<1>6. g[Len(s) + 1] = Decode(j, g[Len(s)], e)
  <2>1. Len(s) + 1 \in 1 .. Len(b) /\ (Len(s) + 1) - 1 = Len(s)
    BY <1>1
  <2> QED
    BY <1>1, <1>3, <2>1
<1>7. g[Len(s)] = Decoded(j, s)
  BY <1>1, <1>2, <1>5
<1> QED
  BY <1>1, <1>3, <1>6, <1>7 DEF b

LEMMA DecodedNone == \A j : Decoded(j, << >>) = j.dict
<1>1. SUFFICES ASSUME NEW j PROVE Decoded(j, << >>) = j.dict
  OBVIOUS
<1>2. Len(<< >>) = 0
  OBVIOUS
<1>3. PICK s : s = << >>
  OBVIOUS
<1>4. PICK f : f[0] = j.dict /\ Decoded(j, s) = f[Len(s)]
  BY <1>2, <1>3, TextsAre
<1> QED
  BY <1>2, <1>3, <1>4

LEMMA EndsMore ==
  ASSUME NEW R, NEW s \in Seq(R), NEW e \in R
  PROVE  /\ \A k \in 0 .. Len(s) : Ends(Append(s, e))[k] = Ends(s)[k]
         /\ Ends(Append(s, e))[Len(s) + 1] = Ends(s)[Len(s)] + e.lit + e.ml
<1> DEFINE b == Append(s, e)
<1>1. /\ Len(s) \in Nat /\ Len(b) = Len(s) + 1 /\ b[Len(s) + 1] = e
      /\ \A k \in 1 .. Len(s) : b[k] = s[k]
  BY AppendIs
<1> HIDE DEF b
<1>2. PICK f : f = Ends(s)
  OBVIOUS
<1>3. PICK g : g = Ends(b)
  OBVIOUS
<1>4. /\ f[0] = 0 /\ \A k \in 1 .. Len(s) : f[k] = f[k - 1] + s[k].lit + s[k].ml
      /\ g[0] = 0 /\ \A k \in 1 .. Len(b) : g[k] = g[k - 1] + b[k].lit + b[k].ml
  BY <1>1, <1>2, <1>3, EndsAre
<1>5. ASSUME NEW k \in 1 .. Len(s), f[k - 1] = g[k - 1] PROVE f[k] = g[k]
  <2>1. k \in 1 .. Len(b) /\ b[k] = s[k]
    BY <1>1
  <2> QED
    BY <1>4, <1>5, <2>1
<1>6. \A k \in 0 .. Len(s) : f[k] = g[k]
  <2>1. f[0] = g[0]
    BY <1>4
  <2>2. PICK m \in Nat : m = Len(s)
    BY <1>1
  <2>3. \A k \in 1 .. m : f[k - 1] = g[k - 1] => f[k] = g[k]
    BY <1>5, <2>2
  <2>4. \A k \in 0 .. m : f[k] = g[k]
    BY ONLY <2>1, <2>3, m \in Nat, SameSeries
  <2> QED
    BY <2>2, <2>4
<1>7. g[Len(s) + 1] = g[Len(s)] + e.lit + e.ml
  <2>1. Len(s) + 1 \in 1 .. Len(b) /\ (Len(s) + 1) - 1 = Len(s)
    BY <1>1
  <2> QED
    BY <1>1, <1>4, <2>1
<1> QED
  BY <1>1, <1>2, <1>3, <1>6, <1>7 DEF b

-----------------------------------------------------------------------------
(* How a step leaves the block.                                            *)

\* The block stays, and no call succeeds.
BlockKept ==
  /\ UNCHANGED <<job, block, anchor>>
  /\ pc' # "done" => pc # "done" /\ Base' = Base
  /\ pc' = "done" => result' = 0 \/ UNCHANGED <<pc, result, ip>>

\* A sequence follows; when the output is to be filled there is room behind it for five literals,
\* or for eight if its match is short.
SequenceAdded ==
  \E lit \in Nat, code \in Nat :
    /\ UNCHANGED job /\ pc = "match" /\ pc' = "next" /\ ip = anchor + lit
    /\ anchor' = anchor + lit + MinMatch + code
    /\ anchor' + LastLiterals <= n /\ ip + MFLimit <= n
    /\ offset \in 1 .. DistanceMax /\ Agrees(ip, offset, MinMatch + code)
    /\ block' = Append(block, [lit |-> lit, offset |-> offset, ml |-> MinMatch + code])
    /\ directive = "fillOutput" => /\ Base' + 1 + LastLiterals <= job.cap
                                   /\ Base' + 9 <= job.cap \/ code >= RunMask

\* The last literals follow: all that are left, or what there is room for.
LiteralsAdded ==
  \E run \in Nat :
    /\ UNCHANGED <<job, anchor>> /\ pc # "done" /\ pc' = "done"
    /\ ip' = anchor + run /\ ip' <= n
    /\ block' = Append(block, [lit |-> run, offset |-> 0, ml |-> 0])
    /\ \/ run = n - anchor
       \/ /\ directive = "fillOutput"
          /\ \A k \in 0 .. 8 : Base + 1 + k <= job.cap => k <= run

LEMMA BlockBegins ==
  ASSUME Core, Begin
  PROVE  BlockKept \/ LiteralsAdded
<1>1. pc = "start" /\ anchor = 0 /\ block = << >> /\ op = 0 /\ Base = op
  <2>1. pc = "start"
    BY DEF Begin
  <2> QED
    BY <2>1 DEF Core, Places, Base
<1>2. anchor' = anchor /\ job' = job /\ n \in Nat
  BY CoreTypes DEF Begin, Goto, Return
<1>3. CASE n = 0 /\ ~(directive # "notLimited" /\ job.cap <= 0) /\ ~(n > MaxInput)
  <2>1. pc' = "done" /\ block' = <<[lit |-> 0, offset |-> 0, ml |-> 0]>> /\ ip' = ip
    BY <1>3 DEF Begin, Return
  <2>2. PICK s : s = [lit |-> 0, offset |-> 0, ml |-> 0]
    OBVIOUS
  <2>3. block' = Append(block, s)
    BY <1>1, <2>1, <2>2
  <2>4. ip = 0
    BY <1>1 DEF Core, Places
  <2>5. PICK run \in Nat : run = 0
    OBVIOUS
  <2>6. ip' = anchor + run /\ ip' <= n /\ run = n - anchor
    BY <1>1, <1>2, <1>3, <2>1, <2>4, <2>5
  <2>7. pc # "done"
    BY <1>1
  <2> QED
    BY <1>2, <2>1, <2>2, <2>3, <2>5, <2>6, <2>7 DEF LiteralsAdded
<1>4. CASE ~(n = 0 /\ ~(directive # "notLimited" /\ job.cap <= 0) /\ ~(n > MaxInput))
  <2>1. /\ block' = block
        /\ \/ pc' = "done" /\ result' = 0
           \/ op' = op /\ pc' \in {"last", "search"}
    <3>1. CASE n > MaxInput /\ Return(0) /\ block' = block
      BY <3>1 DEF Return
    <3>2. CASE n = 0
      <4>1. ~(n > MaxInput) /\ n \notin 1 .. MaxInput
        BY <3>2, Constants
      <4>2. directive # "notLimited" /\ job.cap <= 0
        BY <1>4, <3>2, <4>1
      <4> QED
        BY <4>1, <4>2 DEF Begin, Return
    <3>3. CASE n \in 1 .. MaxInput
      <4>1. n # 0 /\ ~(n > MaxInput) /\ MaxInput \in Nat
        BY <3>3, Constants
      <4>2. op' = op /\ block' = block /\ (Return(0) \/ Goto("last") \/ Goto("search"))
        BY <4>1 DEF Begin
      <4> QED
        BY <4>2 DEF Return, Goto
    <3> QED
      BY <3>1, <3>2, <3>3 DEF Begin
  <2>2. pc' # "done" => op' = op /\ pc' \in {"last", "search"}
    BY <2>1
  <2>3. pc' # "done" => Base' = Base
    BY <1>1, <2>2 DEF Base
  <2>4. pc' = "done" => result' = 0
    BY <2>1
  <2> QED
    BY <1>1, <1>2, <2>1, <2>3, <2>4 DEF BlockKept
<1> QED
  BY <1>3, <1>4

LEMMA BlockSearches ==
  ASSUME Core, Search \/ Literals \/ Following \/ UNCHANGED vars
  PROVE  BlockKept
<1>1. CASE Search
  <2>1. /\ pc = "search" /\ UNCHANGED <<job, block, anchor, op>>
        /\ pc' \in {"last", "literals", "search"}
    BY <1>1 DEF Search, Goto
  <2> QED
    BY <2>1 DEF BlockKept, Base
<1>2. CASE Literals
  <2>1. PICK lit : lit = ip - CatchUp - anchor
    OBVIOUS
  <2>2. /\ pc = "literals" /\ UNCHANGED <<job, block, anchor>> /\ token' = op
        /\ \/ pc' = "last" /\ op' = op
           \/ pc' = "done" /\ result' = 0
           \/ pc' = "match"
    BY <1>2, <2>1 DEF Literals, Goto, Return
  <2> QED
    BY <2>2 DEF BlockKept, Base
<1>3. CASE Following
  <2>1. /\ pc = "next" /\ UNCHANGED <<job, block, anchor>>
        /\ \/ pc' = "last" /\ op' = op
           \/ pc' = "match" /\ token' = op
           \/ pc' = "search" /\ op' = op
    BY <1>3 DEF Following, Goto
  <2> QED
    BY <2>1 DEF BlockKept, Base
<1>4. CASE UNCHANGED vars
  BY <1>4 DEF vars, BlockKept, Base
<1> QED
  BY <1>1, <1>2, <1>3, <1>4

LEMMA BlockMatches ==
  ASSUME Core, Match
  PROVE  BlockKept \/ SequenceAdded
<1>1. pc = "match"
  BY DEF Match
<1>2. /\ job \in Jobs /\ n \in Nat /\ job.cap \in Nat /\ op \in Nat /\ ip \in Nat /\ anchor \in Nat
  BY CoreTypes
<1>3. anchor <= ip /\ ip + MFLimit <= n /\ Found(ip, match, low, offset, MinMatch)
  BY <1>1 DEF Core, Places, Matched
<1>4. PICK code : code = MatchCode
  OBVIOUS
<1>5. /\ code \in Nat /\ ip + MinMatch + code + LastLiterals <= n
      /\ Agrees(ip, offset, MinMatch + code)
  BY <1>2, <1>3, <1>4, MatchCodeIs
<1>6. offset \in 1 .. DistanceMax
  BY <1>3 DEF Found
<1>7. PICK lit \in Nat : lit = ip - anchor
  BY <1>2, <1>3
<1>8. ASSUME NEW c \in Nat, NEW t, Emit(c, t), c <= code,
             directive = "fillOutput" =>
               /\ op + 2 + Extra(c) + 1 + LastLiterals <= job.cap
               /\ op + 2 + Extra(c) + 9 <= job.cap \/ c >= RunMask
      PROVE  SequenceAdded
  <2>1. /\ job' = job /\ pc' = "next" /\ op' = op + 2 + Extra(c) /\ anchor' = ip + MinMatch + c
        /\ block' = Append(block, [lit |-> lit, offset |-> offset, ml |-> MinMatch + c])
    BY <1>7, <1>8 DEF Emit, Goto
  <2>2. ip = anchor + lit
    BY <1>2, <1>7
  <2>3. /\ anchor' = anchor + lit + MinMatch + c /\ anchor' + LastLiterals <= n
    BY <1>2, <1>5, <1>7, <1>8, <2>1, <2>2 DEF MinMatch, LastLiterals
  <2>4. Agrees(ip, offset, MinMatch + c)
    <3>1. \A i \in 0 .. (MinMatch + c) - 1 : i \in 0 .. (MinMatch + code) - 1
      BY <1>5, <1>8 DEF MinMatch
    <3> QED
      BY <1>5, <3>1 DEF Agrees
  <2>5. Base' = op + 2 + Extra(c)
    BY <2>1 DEF Base
  <2>6. directive = "fillOutput" => /\ Base' + 1 + LastLiterals <= job.cap
                                    /\ Base' + 9 <= job.cap \/ c >= RunMask
    BY <1>8, <2>5
  <2> QED
    BY <1>1, <1>3, <1>6, <1>8, <2>1, <2>2, <2>3, <2>4, <2>6 DEF SequenceAdded
<1>9. CASE directive = "fillOutput" /\ op + 2 + 1 + MFLimit - MinMatch > job.cap
  <2>1. UNCHANGED <<job, block, anchor>> /\ pc' = "last" /\ op' = token
    BY <1>9 DEF Match, Goto
  <2> QED
    BY <1>1, <2>1 DEF BlockKept, Base
<1>10. CASE /\ ~(directive = "fillOutput" /\ op + 2 + 1 + MFLimit - MinMatch > job.cap)
            /\ ~NoRoomForMatch(code)
  <2>1. Emit(code, table)
    BY <1>4, <1>10 DEF Match
  <2>2. Extra(code) \in Nat /\ (code + ByteMax - RunMask) \div ByteMax = Extra(code)
    BY <1>5, ExtraIs
  <2>3. ASSUME directive = "fillOutput"
        PROVE  /\ op + 2 + Extra(code) + 1 + LastLiterals <= job.cap
               /\ op + 2 + Extra(code) + 9 <= job.cap \/ code >= RunMask
    <3>1. ~(op + 2 + (1 + LastLiterals) + Extra(code) > job.cap)
      BY <1>10, <2>2, <2>3 DEF NoRoomForMatch
    <3>2. op + 2 + Extra(code) + 1 + LastLiterals <= job.cap
      BY <1>2, <2>2, <3>1 DEF LastLiterals
    <3>3. ASSUME ~(code >= RunMask) PROVE op + 2 + Extra(code) + 9 <= job.cap
      <4>1. Extra(code) = 0
        BY <1>5, <3>3, Constants DEF Extra
      <4>2. op + 2 + 1 + MFLimit - MinMatch <= job.cap
        BY <1>2, <1>10, <2>3 DEF MFLimit, MinMatch
      <4> QED
        BY <1>2, <4>1, <4>2 DEF MFLimit, MinMatch
    <3> QED
      BY <3>2, <3>3
  <2> QED
    BY <1>5, <1>8, <2>1, <2>3
<1>11. CASE /\ directive = "fillOutput" /\ ~(op + 2 + 1 + MFLimit - MinMatch > job.cap)
            /\ NoRoomForMatch(code)
  <2>1. PICK fill : fill = FillCode
    OBVIOUS
  <2>2. PICK t : t = Forget(ip + MinMatch + FillCode)
    OBVIOUS
  <2>3. Emit(fill, t)
    BY <1>4, <1>11, <2>1, <2>2 DEF Match
  <2>4. /\ fill \in Nat /\ fill < code /\ fill >= RunMask
        /\ op + 2 + Extra(fill) + 1 + LastLiterals = job.cap
    <3>1. directive # "notLimited"
      BY <1>11
    <3>2. op + 2 + 1 + MFLimit - MinMatch <= job.cap
      BY <1>2, <1>11 DEF MFLimit, MinMatch
    <3> QED
      BY <1>2, <1>5, <1>11, <2>1, <3>1, <3>2, FillCodeIs
  <2>5. fill <= code /\ op + 2 + Extra(fill) + 1 + LastLiterals <= job.cap
    <3>1. Extra(fill) \in Nat
      BY <2>4, ExtraIs
    <3> QED
      BY <1>2, <1>5, <2>4, <3>1 DEF LastLiterals
  <2> QED
    BY <1>8, <2>3, <2>4, <2>5
<1>12. CASE directive # "fillOutput" /\ NoRoomForMatch(code)
  <2>1. UNCHANGED <<job, block, anchor>> /\ pc' = "done" /\ result' = 0
    BY <1>4, <1>12 DEF Match, Return
  <2> QED
    BY <2>1 DEF BlockKept
<1> QED
  BY <1>9, <1>10, <1>11, <1>12

LEMMA BlockEnds ==
  ASSUME Core, Last
  PROVE  BlockKept \/ LiteralsAdded
<1>1. /\ pc = "last" /\ anchor' = anchor /\ job' = job /\ Base = op /\ pc' = "done"
  BY DEF Last, LastRun, Return, Base
<1>2. CASE UNCHANGED <<job, op, wrote, ip, block>> /\ result' = 0
  BY <1>1, <1>2 DEF BlockKept
<1>3. ASSUME NEW run \in Nat, LastRun(run), run <= n - anchor,
             run # n - anchor => directive = "fillOutput",
             \/ run = n - anchor
             \/ \A k \in 0 .. 8 : op + 1 + k <= job.cap => k <= run
      PROVE  LiteralsAdded
  <2>1. ip' = anchor + run /\ block' = Append(block, [lit |-> run, offset |-> 0, ml |-> 0])
    BY <1>3 DEF LastRun
  <2>2. ip' <= n
    <3>1. n \in Nat /\ anchor \in Nat
      BY CoreTypes
    <3> QED
      BY <1>3, <2>1, <3>1
  <2>3. \/ run = n - anchor
        \/ /\ directive = "fillOutput"
           /\ \A k \in 0 .. 8 : Base + 1 + k <= job.cap => k <= run
    BY <1>1, <1>3
  <2>4. pc # "done"
    BY <1>1
  <2> QED
    BY <1>1, <2>1, <2>2, <2>3, <2>4 DEF LiteralsAdded
<1> QED
  BY <1>2, <1>3, LastIs

LEMMA BlockSteps ==
  ASSUME Core, [Next]_vars
  PROVE  BlockKept \/ SequenceAdded \/ LiteralsAdded
  BY BlockBegins, BlockSearches, BlockMatches, BlockEnds DEF Next

-----------------------------------------------------------------------------
(* What is emitted decodes to what has been compressed.                    *)

Encodes ==
  /\ \A k \in 1 .. Len(block) : block[k].ml > 0 => block[k].offset \in 1 .. DistanceMax
  /\ pc # "done" => Decoded(job, block) = Encoded(anchor)
  /\ pc = "done" /\ result > 0 => Decoded(job, block) = Encoded(ip)

LEMMA InitEncodes == Init => Encodes
<1> SUFFICES ASSUME Init PROVE Encodes
  OBVIOUS
<1>1. job \in Jobs /\ pc = "start" /\ anchor = 0 /\ block = << >>
  BY DEF Init
<1>2. Encoded(anchor) = job.dict
  <2>1. /\ job.dict \in Seq(Nat) /\ job.src \in Seq(Nat)
    BY <1>1, JobTypes
  <2>2. SubSeq(job.src, 1, 0) = << >>
    BY <2>1
  <2>3. job.dict \o << >> = job.dict
    BY <2>1, ConcatEmptySeq
  <2> QED
    BY <1>1, <2>2, <2>3 DEF Encoded
<1>3. Decoded(job, block) = job.dict
  BY <1>1, DecodedNone
<1>4. Len(block) = 0
  BY <1>1
<1> QED
  BY <1>1, <1>2, <1>3, <1>4 DEF Encodes

\* One more sequence whose match is in reach, if it has one.
LEMMA EncodesMore ==
  ASSUME Core, Encodes, pc # "done", job' = job, NEW lit \in Nat, NEW o \in Nat, NEW ml \in Nat,
         block' = Append(block, [lit |-> lit, offset |-> o, ml |-> ml]),
         anchor + lit + ml <= n,
         ml > 0 => o \in 1 .. DistanceMax /\ Agrees(anchor + lit, o, ml)
  PROVE  /\ \A k \in 1 .. Len(block') : block'[k].ml > 0 => block'[k].offset \in 1 .. DistanceMax
         /\ Decoded(job', block') = Encoded(anchor + lit + ml)
<1>1. job \in Jobs /\ anchor \in Nat /\ block \in Seq([lit : Nat, offset : Nat, ml : Nat])
  BY CoreTypes
<1>2. PICK s \in [lit : Nat, offset : Nat, ml : Nat] : s = [lit |-> lit, offset |-> o, ml |-> ml]
  OBVIOUS
<1>3. block' = Append(block, s)
  BY <1>2
<1>4. PICK q \in Nat : q = anchor
  BY <1>1
<1>5. Decode(job, Encoded(q), s) = Encoded(q + lit + ml)
  <2>1. ml > 0 => o > 0 /\ Agrees(q + lit, o, ml)
    BY <1>4
  <2>2. q + lit + ml <= n
    BY <1>4
  <2> QED
    BY <1>1, <1>2, <2>1, <2>2, SequenceDecodes
<1>6. Decoded(job, block) = Encoded(q)
  BY <1>4 DEF Encodes
<1>7. PICK b \in Seq([lit : Nat, offset : Nat, ml : Nat]) : b = block
  BY <1>1
<1>8. PICK j : j = job
  OBVIOUS
<1>9. Decoded(j, Append(b, s)) = Decode(j, Decoded(j, b), s)
  BY DecodedMore
<1>10. Decoded(job', block') = Encoded(anchor + lit + ml)
  BY <1>3, <1>4, <1>5, <1>6, <1>7, <1>8, <1>9
<1>11. /\ Len(b) \in Nat /\ Len(Append(b, s)) = Len(b) + 1 /\ Append(b, s)[Len(b) + 1] = s
       /\ \A k \in 1 .. Len(b) : Append(b, s)[k] = b[k]
  BY AppendIs
<1>12. ASSUME NEW k \in 1 .. Len(block'), block'[k].ml > 0
       PROVE  block'[k].offset \in 1 .. DistanceMax
  <2>1. k \in 1 .. Len(b) + 1
    BY <1>3, <1>7, <1>11
  <2>2. CASE k = Len(b) + 1
    BY <1>2, <1>3, <1>7, <1>11, <1>12, <2>2
  <2>3. CASE k # Len(b) + 1
    <3>1. k \in 1 .. Len(b)
      BY <1>11, <2>1, <2>3
    <3>2. block'[k] = block[k]
      BY <1>3, <1>7, <1>11, <3>1
    <3>3. \A x \in 1 .. Len(block) : block[x].ml > 0 => block[x].offset \in 1 .. DistanceMax
      BY DEF Encodes
    <3> QED
      BY <1>7, <1>12, <3>1, <3>2, <3>3
  <2> QED
    BY <2>2, <2>3
<1> QED
  BY <1>10, <1>12

LEMMA NextEncodes ==
  ASSUME Core, Encodes, [Next]_vars
  PROVE  Encodes'
<1>1. /\ job \in Jobs /\ n \in Nat /\ anchor \in Nat /\ ip \in Nat /\ anchor <= n
  BY CoreTypes
<1>3. CASE BlockKept
  <2>1. job' = job /\ block' = block /\ anchor' = anchor
    BY <1>3 DEF BlockKept
  <2>2. Encoded(anchor)' = Encoded(anchor)
    BY <2>1 DEF Encoded
  <2>3. Decoded(job', block') = Decoded(job, block)
    BY <2>1
  <2>4. pc' # "done" => Decoded(job', block') = Encoded(anchor)'
    BY <1>3, <2>2, <2>3 DEF BlockKept, Encodes
  <2>5. ASSUME pc' = "done", result' > 0 PROVE Decoded(job', block') = Encoded(ip)'
    <3>1. pc = "done" /\ result > 0 /\ ip' = ip
      BY <1>3, <2>5 DEF BlockKept
    <3>2. Encoded(ip)' = Encoded(ip)
      BY <2>1, <3>1 DEF Encoded
    <3> QED
      BY <2>3, <3>1, <3>2 DEF Encodes
  <2>6. \A k \in 1 .. Len(block') : block'[k].ml > 0 => block'[k].offset \in 1 .. DistanceMax
    BY <2>1 DEF Encodes
  <2> QED
    BY <2>4, <2>5, <2>6 DEF Encodes, DistanceMax
<1>4. CASE SequenceAdded
  <2>1. PICK lit \in Nat, code \in Nat :
           /\ job' = job /\ pc = "match" /\ pc' = "next" /\ ip = anchor + lit
           /\ anchor' = anchor + lit + MinMatch + code /\ anchor' + LastLiterals <= n
           /\ offset \in 1 .. DistanceMax /\ Agrees(ip, offset, MinMatch + code)
           /\ block' = Append(block, [lit |-> lit, offset |-> offset, ml |-> MinMatch + code])
    BY <1>4 DEF SequenceAdded
  <2>2. PICK ml \in Nat : ml = MinMatch + code
    BY DEF MinMatch
  <2>3. offset \in Nat
    BY <2>1, Constants DEF DistanceMax
  <2>4. PICK o \in Nat : o = offset
    BY <2>3
  <2>5. anchor' = anchor + lit + ml /\ anchor + lit + ml <= n
    BY <1>1, <2>1, <2>2 DEF MinMatch, LastLiterals
  <2>6. o \in 1 .. DistanceMax /\ Agrees(anchor + lit, o, ml)
    BY <2>1, <2>2, <2>4
  <2>7. block' = Append(block, [lit |-> lit, offset |-> o, ml |-> ml]) /\ pc # "done"
    BY <2>1, <2>2, <2>4
  <2>8. /\ \A k \in 1 .. Len(block') : block'[k].ml > 0 => block'[k].offset \in 1 .. DistanceMax
        /\ Decoded(job', block') = Encoded(anchor + lit + ml)
    BY <2>1, <2>5, <2>6, <2>7, EncodesMore
  <2>9. Encoded(anchor)' = Encoded(anchor + lit + ml)
    BY <2>1, <2>5 DEF Encoded
  <2> QED
    BY <2>1, <2>8, <2>9 DEF Encodes, DistanceMax
<1>5. CASE LiteralsAdded
  <2>1. PICK run \in Nat :
           /\ job' = job /\ pc # "done" /\ pc' = "done" /\ ip' = anchor + run /\ ip' <= n
           /\ block' = Append(block, [lit |-> run, offset |-> 0, ml |-> 0])
    BY <1>5 DEF LiteralsAdded
  <2>2. PICK ml \in Nat : ml = 0
    OBVIOUS
  <2>3. ip' = anchor + run + ml /\ anchor + run + ml <= n /\ ~(ml > 0)
    BY <1>1, <2>1, <2>2
  <2>4. block' = Append(block, [lit |-> run, offset |-> ml, ml |-> ml])
    BY <2>1, <2>2
  <2>5. /\ \A k \in 1 .. Len(block') : block'[k].ml > 0 => block'[k].offset \in 1 .. DistanceMax
        /\ Decoded(job', block') = Encoded(anchor + run + ml)
    BY <2>1, <2>3, <2>4, EncodesMore
  <2>6. Encoded(ip)' = Encoded(anchor + run + ml)
    BY <2>1, <2>3 DEF Encoded
  <2> QED
    BY <2>1, <2>5, <2>6 DEF Encodes, DistanceMax
<1> QED
  BY <1>3, <1>4, <1>5, BlockSteps

\* What is emitted decodes to what has been compressed, at every match and at the end, whatever the
\* table held, wherever the history lies, and however little room there was.
THEOREM CompressedDecodes == Spec => []RoundTrip
<1>1. Core /\ Encodes => RoundTrip
  BY DEF Encodes, RoundTrip, Encoded
<1>2. Core /\ Encodes /\ [Next]_vars => Encodes'
  BY NextEncodes
<1> QED
  BY CoreAlways, InitEncodes, <1>1, <1>2, PTL DEF Spec

-----------------------------------------------------------------------------
(* The end of the block is as the decoder wants it.                        *)

\* The matches end before what is still to be encoded, are four bytes long at least, and begin
\* twelve bytes before the end of the source or earlier.  When the output is to be filled there is
\* room for five literals, and for eight where the last match is short.
Ending ==
  /\ \A k \in 0 .. Len(block) : Ends(block)[k] \in Nat
  /\ pc # "done" =>
       /\ Ends(block)[Len(block)] = anchor
       /\ \A k \in 1 .. Len(block) :
            /\ Ends(block)[k] <= anchor /\ Ends(block)[k] - block[k].ml + MFLimit <= n
            /\ Ends(block)[k] - block[k].ml + MinMatch <= anchor
            /\ anchor + LastLiterals <= n
            /\ directive = "fillOutput" =>
                 /\ Base + 1 + LastLiterals <= job.cap
                 /\ \/ Base + 9 <= job.cap
                    \/ Ends(block)[k] - block[k].ml + MFLimit <= anchor + LastLiterals

EndingAccepted == Ending /\ AcceptedByDecoder

LEMMA InitEnding == Init => EndingAccepted
<1> SUFFICES ASSUME Init PROVE EndingAccepted
  OBVIOUS
<1>1. pc = "start" /\ anchor = 0 /\ block = << >>
  BY DEF Init
<1>2. Len(block) = 0 /\ Len(block) \in Nat
  BY <1>1
<1>3. Ends(block)[0] = 0
  BY <1>2, EndsAre
<1> QED
  BY <1>1, <1>2, <1>3 DEF Ending, AcceptedByDecoder, EndingAccepted

\* One more sequence.
LEMMA EndingMore ==
  ASSUME Core, Ending, pc # "done", NEW lit \in Nat, NEW o \in Nat, NEW ml \in Nat,
         block' = Append(block, [lit |-> lit, offset |-> o, ml |-> ml])
  PROVE  /\ Len(block) \in Nat /\ Len(block') = Len(block) + 1
         /\ \A k \in 1 .. Len(block) : block'[k] = block[k] /\ block[k].ml \in Nat
         /\ \A k \in 0 .. Len(block) : Ends(block')[k] = Ends(block)[k] /\ Ends(block)[k] \in Nat
         /\ block'[Len(block) + 1] = [lit |-> lit, offset |-> o, ml |-> ml]
         /\ Ends(block')[Len(block) + 1] = anchor + lit + ml
<1>1. block \in Seq([lit : Nat, offset : Nat, ml : Nat])
  BY CoreTypes
<1>2. PICK s \in [lit : Nat, offset : Nat, ml : Nat] : s = [lit |-> lit, offset |-> o, ml |-> ml]
  OBVIOUS
<1>3. PICK b \in Seq([lit : Nat, offset : Nat, ml : Nat]) : b = block
  BY <1>1
<1>4. block' = Append(b, s)
  BY <1>2, <1>3
<1>5. /\ Len(b) \in Nat /\ Len(Append(b, s)) = Len(b) + 1 /\ Append(b, s)[Len(b) + 1] = s
      /\ \A k \in 1 .. Len(b) : Append(b, s)[k] = b[k]
  BY AppendIs
<1>6. /\ \A k \in 0 .. Len(b) : Ends(Append(b, s))[k] = Ends(b)[k]
      /\ Ends(Append(b, s))[Len(b) + 1] = Ends(b)[Len(b)] + s.lit + s.ml
  BY EndsMore
<1>7. \A k \in 1 .. Len(b) : b[k].ml \in Nat
  <2>1. \A k \in 1 .. Len(b) : b[k] \in [lit : Nat, offset : Nat, ml : Nat]
    BY ElementOfSeq
  <2> QED
    BY <2>1
<1>8. Ends(b)[Len(b)] = anchor /\ \A k \in 0 .. Len(b) : Ends(b)[k] \in Nat
  BY <1>3 DEF Ending
<1>9. Ends(block')[Len(block) + 1] = anchor + lit + ml
  BY <1>2, <1>3, <1>4, <1>6, <1>8
<1> QED
  BY <1>2, <1>3, <1>4, <1>5, <1>6, <1>7, <1>8, <1>9

LEMMA NextEnding ==
  ASSUME Core, EndingAccepted, [Next]_vars
  PROVE  EndingAccepted'
<1>0. Ending /\ AcceptedByDecoder
  BY DEF EndingAccepted
<1>1. /\ job \in Jobs /\ n \in Nat /\ job.cap \in Nat /\ anchor \in Nat /\ ip \in Nat /\ anchor <= n
      /\ RunMask > 8 /\ RunMask \in Nat
  BY CoreTypes, Constants
<1>2. Base \in Nat
  BY CoreTypes DEF Base
<1>3. CASE BlockKept
  <2>1. job' = job /\ block' = block /\ anchor' = anchor
    BY <1>3 DEF BlockKept
  <2>2. n' = n /\ directive' = directive /\ job.cap' = job.cap
    BY <2>1, SameJob
  <2>3. Ends(block') = Ends(block) /\ Len(block') = Len(block)
    BY <2>1
  <2>4. pc' # "done" => pc # "done" /\ Base' = Base
    BY <1>3 DEF BlockKept
  <2>5. Ending'
    BY <1>0, <2>1, <2>2, <2>3, <2>4 DEF Ending
  <2>6. pc' = "done" /\ result' > 0 => pc = "done" /\ result > 0 /\ ip' = ip
    BY <1>3 DEF BlockKept
  <2>7. AcceptedByDecoder'
    BY <1>0, <2>1, <2>3, <2>6 DEF AcceptedByDecoder
  <2> QED
    BY <2>5, <2>7 DEF EndingAccepted
<1>4. CASE SequenceAdded
  <2>1. PICK lit \in Nat, code \in Nat :
           /\ job' = job /\ pc = "match" /\ pc' = "next" /\ ip = anchor + lit
           /\ anchor' = anchor + lit + MinMatch + code
           /\ anchor' + LastLiterals <= n /\ ip + MFLimit <= n /\ offset \in 1 .. DistanceMax
           /\ block' = Append(block, [lit |-> lit, offset |-> offset, ml |-> MinMatch + code])
           /\ directive = "fillOutput" => /\ Base' + 1 + LastLiterals <= job.cap
                                          /\ Base' + 9 <= job.cap \/ code >= RunMask
    BY <1>4 DEF SequenceAdded
  <2>2. PICK ml \in Nat : ml = MinMatch + code
    BY DEF MinMatch
  <2>3. PICK o \in Nat : o = offset
    BY <2>1, Constants DEF DistanceMax
  <2>4. pc # "done" /\ block' = Append(block, [lit |-> lit, offset |-> o, ml |-> ml])
    BY <2>1, <2>2, <2>3
  <2>5. /\ Len(block) \in Nat /\ Len(block') = Len(block) + 1
        /\ \A k \in 1 .. Len(block) : block'[k] = block[k] /\ block[k].ml \in Nat
        /\ \A k \in 0 .. Len(block) : Ends(block')[k] = Ends(block)[k] /\ Ends(block)[k] \in Nat
        /\ block'[Len(block) + 1] = [lit |-> lit, offset |-> o, ml |-> ml]
        /\ Ends(block')[Len(block) + 1] = anchor + lit + ml
    BY <1>0, <2>4, EndingMore
  <2>6. n' = n /\ directive' = directive /\ job.cap' = job.cap
    BY <2>1, SameJob
  <2>7. PICK a \in Nat : a = anchor'
    BY <1>1, <2>1 DEF MinMatch
  <2>8. PICK base : base = Base'
    OBVIOUS
  <2>9. a = anchor + lit + ml /\ ml = code + 4 /\ a + 5 <= n /\ anchor + lit + 12 <= n
    BY <1>1, <2>1, <2>2, <2>7 DEF MinMatch, LastLiterals, MFLimit
  <2>10. directive = "fillOutput" => base + 1 + LastLiterals <= job.cap
    BY <2>1, <2>8
  <2>11. directive = "fillOutput" => base + 9 <= job.cap \/ code > 8
    BY <1>1, <2>1, <2>8
  <2>12. \A k \in 1 .. Len(block) : /\ Ends(block)[k] <= anchor
                                    /\ Ends(block)[k] - block[k].ml + MFLimit <= n
                                    /\ Ends(block)[k] - block[k].ml + MinMatch <= anchor
    BY <1>0, <2>4 DEF Ending
  <2>13. ASSUME NEW k \in 1 .. Len(block')
         PROVE  /\ Ends(block')[k] <= a /\ Ends(block')[k] - block'[k].ml + MFLimit <= n
                /\ Ends(block')[k] \in Nat /\ Ends(block')[k] - block'[k].ml + MinMatch <= a
                /\ code > 8 => Ends(block')[k] - block'[k].ml + MFLimit <= a + LastLiterals
    <3>1. CASE k = Len(block) + 1
      <4>1. Ends(block')[k] = anchor + lit + ml /\ block'[k].ml = ml
        BY <2>5, <3>1
      <4>2. PICK e : e = Ends(block')[k]
        OBVIOUS
      <4>3. PICK m : m = block'[k].ml
        OBVIOUS
      <4>4. e = a /\ m = ml
        BY <2>9, <4>1, <4>2, <4>3
      <4>5. /\ e \in Nat /\ e <= a /\ e - m + 12 <= n /\ e - m + 4 <= a
            /\ code > 8 => e - m + 12 <= a + 5
        BY <1>1, <2>9, <4>4
      <4> QED
        BY <4>2, <4>3, <4>5 DEF LastLiterals, MFLimit, MinMatch
    <3>2. CASE k # Len(block) + 1
      <4>1. k \in 1 .. Len(block) /\ k \in 0 .. Len(block)
        BY <2>5, <3>2
      <4>2. PICK e \in Nat : e = Ends(block)[k]
        BY <2>5, <4>1
      <4>3. PICK m \in Nat : m = block[k].ml
        BY <2>5, <4>1
      <4>4. Ends(block')[k] = e /\ block'[k].ml = m
        BY <2>5, <4>1, <4>2, <4>3
      <4>5. e <= anchor /\ e - m + MFLimit <= n /\ e - m + MinMatch <= anchor
        BY <2>12, <4>1, <4>2, <4>3
      <4>6. /\ e <= a /\ e - m + 12 <= n /\ e - m + 4 <= a
            /\ code > 8 => e - m + 12 <= a + 5
        <5>1. e <= anchor /\ e - m + 12 <= n /\ e - m + 4 <= anchor
          BY <4>5 DEF MFLimit, MinMatch
        <5>2. anchor + 4 + code <= a
          BY <1>1, <2>9
        <5> QED
          BY <1>1, <5>1, <5>2
      <4> QED
        BY <4>2, <4>4, <4>6 DEF LastLiterals, MFLimit, MinMatch
    <3> QED
      BY <3>1, <3>2
  <2>14. \A k \in 0 .. Len(block') : Ends(block')[k] \in Nat
    <3>1. Ends(block')[0] \in Nat
      BY <2>5
    <3> QED
      BY <2>5, <2>13, <3>1
  <2>15. Ends(block')[Len(block')] = a
    BY <2>5, <2>9
  <2>16. Ending'
    BY <2>6, <2>7, <2>8, <2>9, <2>10, <2>11, <2>13, <2>14, <2>15 DEF Ending, LastLiterals
  <2>17. AcceptedByDecoder'
    BY <2>1 DEF AcceptedByDecoder
  <2> QED
    BY <2>16, <2>17 DEF EndingAccepted
<1>5. CASE LiteralsAdded
  <2>1. PICK run \in Nat :
           /\ job' = job /\ anchor' = anchor /\ pc # "done" /\ pc' = "done"
           /\ ip' = anchor + run /\ ip' <= n
           /\ block' = Append(block, [lit |-> run, offset |-> 0, ml |-> 0])
           /\ \/ run = n - anchor
              \/ /\ directive = "fillOutput"
                 /\ \A k \in 0 .. 8 : Base + 1 + k <= job.cap => k <= run
    BY <1>5 DEF LiteralsAdded
  <2>2. PICK z \in Nat : z = 0
    OBVIOUS
  <2>3. block' = Append(block, [lit |-> run, offset |-> z, ml |-> z])
    BY <2>1, <2>2
  <2>4. /\ Len(block) \in Nat /\ Len(block') = Len(block) + 1
        /\ \A k \in 1 .. Len(block) : block'[k] = block[k] /\ block[k].ml \in Nat
        /\ \A k \in 0 .. Len(block) : Ends(block')[k] = Ends(block)[k] /\ Ends(block)[k] \in Nat
        /\ block'[Len(block) + 1] = [lit |-> run, offset |-> z, ml |-> z]
        /\ Ends(block')[Len(block) + 1] = anchor + run + z
    BY <1>0, <2>1, <2>3, EndingMore
  <2>5. Ending'
    <3>1. \A k \in 0 .. Len(block') : Ends(block')[k] \in Nat
      <4>1. anchor + run + z \in Nat
        BY <1>1
      <4>2. ASSUME NEW k \in 0 .. Len(block') PROVE k \in 0 .. Len(block) \/ k = Len(block) + 1
        BY <2>4
      <4> QED
        BY <2>4, <4>1, <4>2
    <3> QED
      BY <2>1, <3>1 DEF Ending
  <2>6. ASSUME NEW k \in 1 .. Len(block') - 1
        PROVE  /\ Ends(block')[k] - block'[k].ml + MFLimit <= ip'
               /\ Ends(block')[k] + LastLiterals <= ip'
               /\ block'[Len(block')].lit >= LastLiterals
    <3>1. k \in 1 .. Len(block) /\ k \in 0 .. Len(block)
      BY <2>4
    <3>2. PICK e \in Nat : e = Ends(block)[k]
      BY <2>4, <3>1
    <3>3. PICK m \in Nat : m = block[k].ml
      BY <2>4, <3>1
    <3>4. Ends(block')[k] = e /\ block'[k].ml = m /\ block'[Len(block')].lit = run
      BY <2>4, <3>1, <3>2, <3>3
    <3>5. PICK b \in Nat : b = Base
      BY <1>2
    <3>6. PICK c \in Nat : c = job.cap
      BY <1>1
    <3>7. /\ e <= anchor /\ e - m + 12 <= n /\ e - m + 4 <= anchor /\ anchor + 5 <= n
          /\ directive = "fillOutput" =>
               /\ b + 6 <= c
               /\ b + 9 <= c \/ e - m + 12 <= anchor + 5
      <4>1. /\ e <= anchor /\ e - m + MFLimit <= n /\ e - m + MinMatch <= anchor
            /\ anchor + LastLiterals <= n
            /\ directive = "fillOutput" =>
                 /\ b + 1 + LastLiterals <= c
                 /\ b + 9 <= c \/ e - m + MFLimit <= anchor + LastLiterals
        BY <1>0, <2>1, <3>1, <3>2, <3>3, <3>5, <3>6 DEF Ending
      <4> QED
        BY <4>1 DEF MFLimit, LastLiterals, MinMatch
    <3>8. e - m + 12 <= anchor + run /\ e + 5 <= anchor + run /\ 5 <= run
      <4>1. CASE run = n - anchor
        BY <1>1, <3>7, <4>1
      <4>2. CASE /\ directive = "fillOutput"
                 /\ \A x \in 0 .. 8 : Base + 1 + x <= job.cap => x <= run
        <5>1. /\ b + 1 + 5 <= c => 5 <= run
              /\ b + 1 + 8 <= c => 8 <= run
          <6>1. \A x \in 0 .. 8 : b + 1 + x <= c => x <= run
            BY <3>5, <3>6, <4>2
          <6>2. 5 \in 0 .. 8 /\ 8 \in 0 .. 8
            OBVIOUS
          <6> QED
            BY <6>1, <6>2, Zenon
        <5>2. 5 <= run /\ (e - m + 12 <= anchor + 5 \/ 8 <= run)
          BY <3>7, <4>2, <5>1
        <5> QED
          BY <1>1, <3>7, <5>2
      <4> QED
        BY <2>1, <4>1, <4>2
    <3>9. MFLimit = 12 /\ LastLiterals = 5 /\ ip' = anchor + run
      BY <2>1 DEF MFLimit, LastLiterals
    <3> QED
      BY <3>4, <3>8, <3>9
  <2>7. AcceptedByDecoder'
    BY <2>6 DEF AcceptedByDecoder
  <2> QED
    BY <2>5, <2>7 DEF EndingAccepted
<1> QED
  BY <1>3, <1>4, <1>5, BlockSteps

\* Every block ends as the decoder's safe loops want it, also where the last match was cut short to
\* fill the output: five literals, and no match that begins in the last twelve bytes.
THEOREM BlocksAccepted == Spec => []AcceptedByDecoder
<1>1. EndingAccepted => AcceptedByDecoder
  BY DEF EndingAccepted
<1>2. Core /\ EndingAccepted /\ [Next]_vars => EndingAccepted'
  BY NextEnding
<1> QED
  BY CoreAlways, InitEnding, <1>1, <1>2, PTL DEF Spec

=============================================================================
