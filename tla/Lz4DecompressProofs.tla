------------------------ MODULE Lz4DecompressProofs ------------------------
(***************************************************************************)
(* The decoder touches no memory outside its buffers, for every input and  *)
(* every size, kind of dictionary and window.  The invariant says, at each *)
(* label, how much input and room are left there: the margins that the     *)
(* tests before the label have made sure of.  From it follow three more    *)
(* facts: what is refused belongs to no block; what the dictionary holds   *)
(* survives the copies as long as a match may refer to it; and the copies  *)
(* write what the format says, because each of them goes on with the       *)
(* pattern that a match begins with, at whatever distance it reads.        *)
(*                                                                         *)
(* The last part is the decoder that does not know where its input ends:   *)
(* which blocks it accepts, and that it too writes what the format says.   *)
(***************************************************************************)
EXTENDS Lz4Decompress, Lz4Unsafe, SequenceTheorems, WellFoundedInduction, TLAPS

LEMMA LeastNat ==
  ASSUME NEW T, T \subseteq Nat, T # {}
  PROVE  \E x \in T : \A y \in T : x <= y
  <1>1. IsWellFoundedOn(OpToRel(<, Nat), Nat)
    BY NatLessThanWellFounded
  <1>2. PICK x \in T : \A y \in T : ~(<<y, x>> \in OpToRel(<, Nat))
    BY <1>1, WFMin
  <1>3. ASSUME NEW y \in T PROVE x <= y
    <2>1. <<y, x>> \in Nat \X Nat
      OBVIOUS
    <2>2. ~(y < x)
      BY <1>2, <2>1 DEF OpToRel
    <2> QED
      BY <2>2
  <1> QED
    BY <1>3

Room == /\ pc = "start" => op = job.dst /\ ip = 0
        /\ pc = "fast" => ip < iend /\ op <= oend - 64
        /\ pc = "fastmatch" => ip + 3 <= iend /\ op <= oend - 32
        /\ pc = "safe" => ip < iend
        /\ pc = "shortcut" => ip + 3 <= iend /\ op <= oend - 18
        /\ pc = "offset" => ip + 3 <= iend /\ (job.partial \/ op <= oend - 12)
        /\ pc = "safematch" => ip < iend /\ (job.partial \/ op <= oend - 12)

Inside == StaysInside /\ TypeOK /\ Room

USE DEF MinMatch, WildCopyLength, LastLiterals, MFLimit, MatchSafeguard,
        FastLoopSafe, RunMask, MLMask

(* A copy in strides moves at least a stride, and less than a stride too   *)
(* many.                                                                   *)
LEMMA WildEight == ASSUME NEW n \in Int
                   PROVE  /\ Wild(n, 8) \in Int /\ Wild(n, 8) >= 8 /\ Wild(n, 8) >= n
                          /\ n <= 8 => Wild(n, 8) = 8
                          /\ n > 8 => Wild(n, 8) <= n + 7
  BY DEF Wild
LEMMA WildThirtyTwo == ASSUME NEW n \in Int
                       PROVE  /\ Wild(n, 32) \in Int /\ Wild(n, 32) >= 32 /\ Wild(n, 32) >= n
                              /\ n <= 32 => Wild(n, 32) = 32
                              /\ n > 32 => Wild(n, 32) <= n + 31
  BY DEF Wild

(* The bytes that a length takes are counted by a natural number. *)
LEMMA ExtraNat == ASSUME NEW n \in Int, NEW b \in Nat \ {0}, b = ByteMax
                  PROVE  Extra(n, 15) \in Nat /\ (n < 15 => Extra(n, 15) = 0)
  BY DEF Extra

(* Copies change what the memory holds, not what memory there is. *)
LEMMA Domains ==
  ASSUME NEW m, NEW d, NEW s, NEW n, NEW c
  PROVE  /\ DOMAIN FromSrc(m, d, s, n) = DOMAIN m
         /\ DOMAIN Move(m, d, s, n, c) = DOMAIN m
  BY DEF FromSrc, Move
LEMMA DomainsUsing ==
  ASSUME NEW m, NEW d, NEW s, NEW n, NEW o
  PROVE  /\ DOMAIN UsingOffset(m, d, s, n, o) = DOMAIN m
         /\ DOMAIN FirstEight(m, d, s, o) = DOMAIN m
  BY Domains DEF UsingOffset, FirstEight

LEMMA Types ==
  ASSUME TypeOK
  PROVE  /\ job.src \in Nat /\ job.cap \in Nat /\ job.dst \in Int
         /\ job.floor \in Int /\ job.lowPrefix \in Int /\ job.dictStart \in Int
         /\ job.dictSize \in Nat /\ job.partial \in BOOLEAN
         /\ iend = job.src /\ oend = job.dst + job.cap
         /\ ip \in Nat /\ op \in Int /\ job.dst <= op /\ op <= oend
         /\ seq.lit \in Nat /\ seq.offset \in Nat /\ seq.ml \in Nat
         /\ seq.ml >= 4 /\ seq.offset < Window
         /\ match \in Int /\ match = op - seq.offset
         /\ Window \in Nat /\ ByteMax \in Nat \ {0}
  BY JobAssumption, ByteAssumption DEF TypeOK, JobType, iend, oend, match

(* What the tests of a match have made sure of. *)
LEMMA InBuffers ==
  ASSUME TypeOK
  PROVE  /\ job.floor <= job.dst
         /\ ~Outside /\ ~InDict => match >= job.floor
         /\ Short => match >= job.floor
         /\ ~Outside /\ InDict => Back \in Nat /\ Back <= job.dictSize /\ Back > 0
  <1>1. /\ job \in Jobs /\ job.dict \in {"noDict", "withPrefix64k", "usingExtDict"}
        /\ job.floor <= job.dst /\ job.lowPrefix <= job.dst
        /\ job.dict = "withPrefix64k" =>
             job.lowPrefix = job.dst - Window /\ job.floor <= job.dst - (Window - 1)
        /\ job.dict # "withPrefix64k" => job.floor = job.lowPrefix
        /\ job.dict # "usingExtDict" => job.dictSize = 0
    BY JobAssumption DEF TypeOK, JobType
  <1> QED
    BY <1>1, Types DEF Outside, InDict, Short, InPrefix, Back, checkOffset

Frame == UNCHANGED <<job, seq, start, reads>>

(* A step that keeps the call, stays within the buffers and leaves room    *)
(* enough at the next label keeps the invariant.                           *)
LEMMA Keeps ==
  ASSUME Inside,
         job' = job, DOMAIN mem' = DOMAIN mem, pc' \in Labels,
         seq' \in [lit : Nat, offset : Nat, ml : Nat],
         seq'.offset < Window, seq'.ml >= MinMatch,
         start' \in [ip : Nat, op : Int], reads' \in 0..MaxSequences,
         ip' \in Nat, op' \in Int, op' >= job.dst, op' <= oend,
         pc' # "error" => ip' <= iend,
         Room', ~stray', stray' \in BOOLEAN
  PROVE  Inside'
  BY DEF Inside, TypeOK, StaysInside, iend, oend, Addresses

LEMMA Frames == ASSUME Inside, Frame
                PROVE  /\ job' = job /\ seq' = seq
                       /\ seq' \in [lit : Nat, offset : Nat, ml : Nat]
                       /\ seq'.offset < Window /\ seq'.ml >= MinMatch
                       /\ start' \in [ip : Nat, op : Int] /\ reads' \in 0..MaxSequences
                       /\ iend' = iend /\ oend' = oend
  BY DEF Inside, TypeOK, Frame, iend, oend

LEMMA Tokens == ASSUME Inside, NEW l \in {"fast", "safe"}, Token(l)
                PROVE  /\ job' = job /\ pc = l
                       /\ seq' \in [lit : Nat, offset : Nat, ml : Nat]
                       /\ seq'.offset < Window /\ seq'.ml >= MinMatch
                       /\ start' \in [ip : Nat, op : Int] /\ reads' \in 0..MaxSequences
                       /\ iend' = iend /\ oend' = oend
                       /\ ip < iend
                       /\ LitExtra(seq') \in Nat
                       /\ ~Long(seq') => LitExtra(seq') = 0 /\ seq'.lit <= 14
  <1>1. seq' \in [lit : Nat, offset : Nat, ml : Nat] /\ seq'.offset < Window /\ seq'.ml >= MinMatch
    BY JobAssumption DEF Token, Sequence, Inside, TypeOK
  <1>2. start' \in [ip : Nat, op : Int] /\ reads' \in 0..MaxSequences
    BY JobAssumption, Types DEF Token, Inside, TypeOK
  <1>3. LitExtra(seq') \in Nat /\ (seq'.lit < 15 => LitExtra(seq') = 0)
    BY <1>1, ExtraNat, JobAssumption, ByteAssumption DEF LitExtra
  <1> QED
    BY <1>1, <1>2, <1>3 DEF Token, Inside, Room, Long, iend, oend

LEMMA Untouched ==
  ASSUME Inside, NEW i \in Int, NEW d \in Int, NEW s \in Int, Touches(i, d, s),
         i <= iend, d <= oend, s >= job.floor
  PROVE  ~stray' /\ stray' \in BOOLEAN
  <1>1. ~(i > iend) /\ ~(d > oend) /\ ~(s < job.floor)
    BY Types DEF Inside
  <1>2. ~stray
    BY DEF Inside, StaysInside
  <1>3. stray' = FALSE
    BY <1>1, <1>2, Zenon DEF Touches
  <1> QED
    BY <1>3

LEMMA OnlyReads ==
  ASSUME Inside, NEW i \in Int, Reads(i), i <= iend
  PROVE  ~stray' /\ stray' \in BOOLEAN
  BY Untouched, Types, InBuffers DEF Reads, Inside

LEMMA MatchExtra == ASSUME TypeOK
                    PROVE  /\ MLExtra(seq) \in Nat
                           /\ ~LongMatch => MLExtra(seq) = 0 /\ seq.ml <= 18
  BY Types, ExtraNat DEF MLExtra, LongMatch

----------------------------------------------------------------------------
(* Each action keeps the invariant.                                        *)

LEMMA BeginKeeps == Inside /\ Begin => Inside'
  <1> SUFFICES ASSUME Inside, Begin PROVE Inside'
    OBVIOUS
  <1>1. UNCHANGED <<job, mem, ip, op, start, reads>>
    BY DEF Begin
  <1>2. /\ seq' \in [lit : Nat, offset : Nat, ml : Nat]
        /\ seq'.offset < Window /\ seq'.ml >= MinMatch
    BY JobAssumption DEF Begin, Inside, TypeOK, Sequence
  <1>3. pc' \in Labels
    BY DEF Begin, Goto, Labels
  <1>6. ~stray' /\ stray' \in BOOLEAN
    <2>1. PICK i \in Nat : Reads(i) /\ i <= iend
      BY Types DEF Begin, Inside, Room
    <2> QED
      BY <2>1, OnlyReads
  <1>4. Room'
    BY <1>1, Types DEF Begin, Goto, Inside, Room, iend, oend
  <1>5. pc = "start" /\ ip' <= iend
    BY <1>1, Types DEF Begin, Inside, Room
  <1> QED
    BY <1>1, <1>2, <1>3, <1>4, <1>5, <1>6, Keeps, Types DEF Inside, TypeOK

(* Literals taken with room for the whole copy. *)
LEMMA TakenLiterals ==
  ASSUME Inside, job' = job,
         seq' \in [lit : Nat, offset : Nat, ml : Nat],
         seq'.offset < Window, seq'.ml >= MinMatch,
         start' \in [ip : Nat, op : Int], reads' \in 0..MaxSequences,
         NEW i \in Nat, NEW n \in Nat, NEW w \in Nat, NEW l \in Labels,
         TakeLiterals(i, n, w, l),
         i + w <= iend, op + w <= oend, n <= w, Room'
  PROVE  Inside'
  <1>1. /\ DOMAIN mem' = DOMAIN mem /\ pc' = l
        /\ ip' = i + n /\ op' = op + n /\ ~stray' /\ stray' \in BOOLEAN
    BY Domains, Types, InBuffers, Untouched DEF TakeLiterals, Goto, Inside
  <1> QED
    BY <1>1, Keeps, Types DEF Inside

(* Failing touches the input up to where reading gave up. *)
LEMMA Failed ==
  ASSUME Inside, job' = job,
         seq' \in [lit : Nat, offset : Nat, ml : Nat],
         seq'.offset < Window, seq'.ml >= MinMatch,
         start' \in [ip : Nat, op : Int], reads' \in 0..MaxSequences,
         NEW i \in Nat, Fail(i), ~stray', stray' \in BOOLEAN
  PROVE  Inside'
  <1>1. pc' = "error" /\ ip' = i /\ mem' = mem /\ op' = op
    BY DEF Fail, Goto
  <1>2. Room'
    BY <1>1 DEF Room
  <1> QED
    BY <1>1, <1>2, Keeps, Types DEF Inside, Labels

LEMMA LiteralsFailKeeps ==
  ASSUME NEW l \in {"fast", "safe"}, Inside, LiteralsFail(l)
  PROVE  Inside'
  <1> DEFINE i == GivesUp(ip + 1, LitLimit, TRUE)
  <1>1. Token(l) /\ Fail(i) /\ Reads(Max2(ip + 1, ip')) /\ ip' = i
    BY DEF LiteralsFail, Fail
  <1>2. i \in Nat /\ i <= iend /\ ip + 1 <= iend
    BY <1>1, Tokens, Types DEF GivesUp, LitLimit, Max2, Inside
  <1> HIDE DEF i
  <1>3. ~stray' /\ stray' \in BOOLEAN
    <2>1. Max2(ip + 1, i) \in Int /\ Max2(ip + 1, i) <= iend
      BY <1>1, <1>2, Types DEF Max2, Inside
    <2> QED
      BY <1>1, <2>1, OnlyReads
  <1> QED
    BY <1>1, <1>2, <1>3, Tokens, Failed

LEMMA FastLiteralsKeeps == Inside /\ FastLiterals => Inside'
  <1> SUFFICES ASSUME Inside, FastLiterals PROVE Inside'
    OBVIOUS
  <1> DEFINE n == seq'.lit
             i == ip + 1 + LitExtra(seq')
  <1>1. Token("fast") /\ LitReadable(seq')
    BY DEF FastLiterals
  <1>2. n \in Nat /\ i \in Nat /\ op <= oend - 64 /\ i <= iend
    BY <1>1, Tokens, Types DEF Inside, Room, LitReadable, Readable, LitLimit
  <1>3. CASE Long(seq') /\ Wide(i, n) /\ TakeLiterals(i, n, Wild(n, 32), "fastmatch")
    <2>1. /\ Wild(n, 32) \in Nat /\ n <= Wild(n, 32)
          /\ i + Wild(n, 32) <= iend /\ op + Wild(n, 32) <= oend
      BY <1>2, <1>3, WildThirtyTwo, Types DEF Wide, Inside
    <2>2. Room'
      BY <1>1, <1>2, <1>3, Tokens, Types DEF TakeLiterals, Goto, Wide, Room, Inside
    <2> QED
      BY <1>1, <1>2, <1>3, <2>1, <2>2, Tokens, TakenLiterals DEF Labels
  <1>4. CASE ~Long(seq') /\ i <= iend - (16 + 1) /\ TakeLiterals(i, n, 16, "fastmatch")
    <2>1. n <= 14
      BY <1>1, <1>4, Tokens
    <2>2. Room'
      BY <1>1, <1>2, <1>4, <2>1, Tokens, Types DEF TakeLiterals, Goto, Room, Inside
    <2>3. i + 16 <= iend /\ op + 16 <= oend
      BY <1>2, <1>4, Types DEF Inside
    <2>4. "fastmatch" \in Labels
      BY DEF Labels
    <2> HIDE DEF i, n
    <2> QED
      BY <1>1, <1>2, <1>4, <2>1, <2>2, <2>3, <2>4, Tokens, TakenLiterals
  <1>5. CASE Goto("literals") /\ ip' = i /\ Reads(i) /\ UNCHANGED <<mem, op>>
    <2>1. ~stray' /\ stray' \in BOOLEAN
      BY <1>2, <1>5, OnlyReads
    <2>2. Room'
      BY <1>5 DEF Goto, Room
    <2> QED
      BY <1>1, <1>2, <1>5, <2>1, <2>2, Tokens, Keeps, Types DEF Goto, Labels, Inside
  <1> QED
    BY <1>3, <1>4, <1>5 DEF FastLiterals

LEMMA SafeLiteralsKeeps == Inside /\ SafeLiterals => Inside'
  <1> SUFFICES ASSUME Inside, SafeLiterals PROVE Inside'
    OBVIOUS
  <1> DEFINE n == seq'.lit
             i == ip + 1 + LitExtra(seq')
  <1>1. Token("safe") /\ LitReadable(seq')
    BY DEF SafeLiterals
  <1>2. n \in Nat /\ i \in Nat /\ i <= iend
    BY <1>1, Tokens, Types DEF Inside, Room, LitReadable, Readable, LitLimit
  <1>3. CASE /\ ~Long(seq') /\ i < iend - 14 - 2 /\ op <= oend - 14 - 18
             /\ TakeLiterals(i, n, 16, "shortcut")
    <2>1. n <= 14
      BY <1>1, <1>3, Tokens
    <2>2. Room'
      BY <1>1, <1>2, <1>3, <2>1, Tokens, Types DEF TakeLiterals, Goto, Room, Inside
    <2>3. i + 16 <= iend /\ op + 16 <= oend
      BY <1>2, <1>3, Types DEF Inside
    <2>4. "shortcut" \in Labels
      BY DEF Labels
    <2> HIDE DEF i, n
    <2> QED
      BY <1>1, <1>2, <1>3, <2>1, <2>2, <2>3, <2>4, Tokens, TakenLiterals
  <1>4. CASE Goto("literals") /\ ip' = i /\ Reads(i) /\ UNCHANGED <<mem, op>>
    <2>1. ~stray' /\ stray' \in BOOLEAN
      BY <1>2, <1>4, OnlyReads
    <2>2. Room'
      BY <1>4 DEF Goto, Room
    <2> QED
      BY <1>1, <1>2, <1>4, <2>1, <2>2, Tokens, Keeps, Types DEF Goto, Labels, Inside
  <1> QED
    BY <1>3, <1>4 DEF SafeLiterals

LEMMA CopyLiteralsKeeps == Inside /\ CopyLiterals => Inside'
  <1> SUFFICES ASSUME Inside, CopyLiterals PROVE Inside'
    OBVIOUS
  <1> DEFINE cpy == op + seq.lit
             near == cpy > oend - MFLimit \/ ip + seq.lit > iend - (2 + 1 + LastLiterals)
             n == CutShort(seq.lit)
             l == IF op + n = oend \/ ip + n >= iend - 2 THEN "end" ELSE "offset"
  <1>1. pc = "literals" /\ Frame /\ ip \in Nat /\ ip <= iend
    BY DEF CopyLiterals, Rest, Frame, Inside, TypeOK
  <1>2. CASE ~near /\ TakeLiterals(ip, seq.lit, Wild(seq.lit, 8), "offset")
    <2>1. /\ Wild(seq.lit, 8) \in Nat /\ seq.lit <= Wild(seq.lit, 8)
          /\ ip + Wild(seq.lit, 8) <= iend /\ op + Wild(seq.lit, 8) <= oend
      BY <1>1, <1>2, WildEight, Types DEF Inside
    <2>2. Room'
      BY <1>1, <1>2, Frames, Types DEF TakeLiterals, Goto, Room, Inside
    <2> QED
      BY <1>1, <1>2, <2>1, <2>2, Frames, TakenLiterals, Types DEF Labels, Inside
  <1>3. CASE Fail(ip) /\ Reads(ip)
    <2>1. ~stray' /\ stray' \in BOOLEAN
      BY <1>1, <1>3, Types, OnlyReads DEF Inside
    <2> QED
      BY <1>1, <1>3, <2>1, Frames, Failed
  <1>4. CASE LastRun(seq.lit) /\ TakeLiterals(ip, seq.lit, seq.lit, "end")
    <2>1. Room'
      BY <1>4 DEF TakeLiterals, Goto, Room
    <2> QED
      BY <1>1, <1>4, <2>1, Frames, TakenLiterals, Types DEF LastRun, Labels, Inside
  <1>5. CASE job.partial /\ TakeLiterals(ip, n, n, l)
    <2>1. n \in Nat /\ ip + n <= iend /\ op + n <= oend /\ n <= seq.lit
      BY <1>1, Types DEF CutShort, Min2, Inside
    <2>2. Room'
      BY <1>1, <1>5, <2>1, Frames, Types DEF TakeLiterals, Goto, Room, Inside
    <2>3. l \in Labels
      BY DEF Labels
    <2> HIDE DEF n, l
    <2> QED
      BY <1>1, <1>5, <2>1, <2>2, <2>3, Frames, TakenLiterals
  <1> QED
    BY <1>2, <1>3, <1>4, <1>5 DEF CopyLiterals

(* A match taken within the buffers. *)
LEMMA TakenMatch ==
  ASSUME Inside, Frame, NEW i \in Nat, NEW m, NEW len \in Nat, NEW d \in Int,
         NEW s \in Int, NEW l \in Labels, TakeMatch(i, m, len, d, s, l),
         DOMAIN m = DOMAIN mem, i <= iend, d <= oend, s >= job.floor,
         op + len <= oend, Room'
  PROVE  Inside'
  <1>1. ~stray' /\ stray' \in BOOLEAN
    BY Untouched DEF TakeMatch
  <1>2. /\ DOMAIN mem' = DOMAIN mem /\ pc' = l /\ ip' = i /\ op' = op + len
    BY DEF TakeMatch, Goto
  <1> QED
    BY <1>1, <1>2, Keeps, Frames, Types DEF Inside

LEMMA FailedMatch ==
  ASSUME Inside, Frame, NEW i \in Nat, MatchFails(i), i <= iend
  PROVE  Inside'
  BY OnlyReads, Failed, Frames DEF MatchFails

LEMMA EighteenKeeps ==
  ASSUME Inside, Frame, NEW i \in Nat, NEW l \in {"fast", "safe"}, Eighteen(i, l), Short,
         i < iend, op + 18 <= oend, l = "fast" => op + seq.ml <= oend - 64
  PROVE  Inside'
  <1>1. seq.ml <= 18 /\ match \in Int /\ match >= job.floor
    BY MatchExtra, InBuffers, Types DEF Short, Inside
  <1>2. TakeMatch(i, Move(mem, op, match, 18, 8), seq.ml, op + 18, match, l)
    BY DEF Eighteen
  <1>3. Room'
    BY <1>2, Frames, Types DEF TakeMatch, Goto, Room, Inside
  <1>4. l \in Labels
    BY DEF Labels
  <1> QED
    BY <1>1, <1>2, <1>3, <1>4, TakenMatch, Domains, Types DEF Inside

LEMMA DictMatchKeeps ==
  ASSUME Inside, Frame, NEW i \in Nat, NEW l \in {"fast", "safe"}, DictMatch(i, l),
         ~Outside, InDict, i < iend, l = "fast" => op + seq.ml < oend - 64
  PROVE  Inside'
  <1> DEFINE len == IF Near THEN Min2(seq.ml, oend - op) ELSE seq.ml
             inDict == Min2(len, Back)
             m == Move(mem, op, dictEnd - Back, inDict, inDict)
  <1>1. CASE MatchFails(i)
    BY <1>1, FailedMatch, Types DEF Inside
  <1>2. CASE /\ mem' = Move(m, op + inDict, job.lowPrefix, len - inDict, 1)
             /\ stray' = (stray \/ i > iend \/ op + len > oend \/ Back > job.dictSize)
             /\ ip' = i /\ op' = op + len
             /\ Goto(l)
    <2>1. len \in Nat /\ op + len <= oend /\ (l = "fast" => op + len <= oend - 64)
      BY Types DEF Near, Min2, Inside
    <2>2. ~(i > iend) /\ ~(op + len > oend) /\ ~(Back > job.dictSize)
      BY <2>1, InBuffers, Types DEF Inside
    <2>3. DOMAIN mem' = DOMAIN mem
      BY <1>2, Domains
    <2> HIDE DEF len, m
    <2>4. stray' = FALSE
      <3>1. ~stray
        BY DEF Inside, StaysInside
      <3> QED
        BY <1>2, <2>2, <3>1, Zenon
    <2>5. pc' = l /\ l \in Labels /\ Room'
      BY <1>2, <2>1, Frames, Types DEF Goto, Room, Labels, Inside
    <2> QED
      BY <1>2, <2>1, <2>3, <2>4, <2>5, Keeps, Frames, Types DEF Inside
  <1> QED
    BY <1>1, <1>2 DEF DictMatch

(* Where reading a match's length gives up, and where it ends. *)
LEMMA MatchInput ==
  ASSUME TypeOK, ip + 3 <= iend
  PROVE  /\ ~MLReadable(ip + 2) =>
              GivesUp(ip + 2, MLLimit, FALSE) \in Nat /\ GivesUp(ip + 2, MLLimit, FALSE) <= iend
         /\ ip + 2 + MLExtra(seq) \in Nat
         /\ MLReadable(ip + 2) => ip + 2 + MLExtra(seq) < iend
  BY Types, MatchExtra DEF MLReadable, Readable, GivesUp, MLLimit, Max2

LEMMA FastMatchKeeps == Inside /\ FastMatch => Inside'
  <1> SUFFICES ASSUME Inside, FastMatch PROVE Inside'
    OBVIOUS
  <1> DEFINE i == ip + 2 + MLExtra(seq)
             near == op + seq.ml >= oend - FastLoopSafe
  <1>1. Frame /\ ip + 3 <= iend /\ op <= oend - 32
    BY DEF FastMatch, Rest, Frame, Inside, Room
  <1>2. i \in Nat
    BY <1>1, MatchInput DEF Inside
  <1>3. CASE ~MLReadable(ip + 2) /\ MatchFails(GivesUp(ip + 2, MLLimit, FALSE))
    BY <1>1, <1>3, MatchInput, FailedMatch DEF Inside
  <1>4. CASE MLReadable(ip + 2) /\ Goto("safematch") /\ ip' = i /\ Reads(i) /\ UNCHANGED <<mem, op>>
    <2>1. i < iend
      BY <1>1, <1>4, MatchInput DEF Inside
    <2>2. ~stray' /\ stray' \in BOOLEAN
      BY <1>2, <1>4, <2>1, OnlyReads, Types DEF Inside
    <2>3. Room'
      BY <1>1, <1>2, <1>4, <2>1, Frames, Types DEF Goto, Room, Inside
    <2> QED
      BY <1>1, <1>2, <1>4, <2>1, <2>2, <2>3, Keeps, Frames, Types DEF Goto, Labels, Inside
  <1>5. CASE MLReadable(ip + 2) /\ ~near
    <2>1. i < iend /\ op + seq.ml < oend - 64
      BY <1>1, <1>5, MatchInput, Types DEF Inside
    <2> HIDE DEF i
    <2>2. CASE Short /\ Eighteen(i, "fast")
      BY <1>1, <1>2, <2>1, <2>2, EighteenKeeps, Types DEF Inside
    <2>3. CASE ~Short /\ Outside /\ MatchFails(i)
      BY <1>1, <1>2, <2>1, <2>3, FailedMatch, Types DEF Inside
    <2>4. CASE ~Short /\ ~Outside /\ InDict /\ DictMatch(i, "fast")
      BY <1>1, <1>2, <2>1, <2>4, DictMatchKeeps
    <2>5. CASE /\ ~Short /\ ~Outside /\ ~InDict
               /\ TakeMatch(i, UsingOffset(mem, op, match, seq.ml, seq.offset),
                            seq.ml, op + 8 + Wild(seq.ml - 8, 8), match, "fast")
      <3>1. Wild(seq.ml - 8, 8) \in Int /\ op + 8 + Wild(seq.ml - 8, 8) <= oend
        BY <1>1, <2>1, WildEight, Types DEF Inside
      <3>2. Room'
        BY <1>1, <1>2, <2>1, <2>5, Frames, Types DEF TakeMatch, Goto, Room, Inside
      <3>3. "fast" \in Labels
        BY DEF Labels
      <3>4. DOMAIN UsingOffset(mem, op, match, seq.ml, seq.offset) = DOMAIN mem
        BY DomainsUsing
      <3>5. match \in Int /\ match >= job.floor /\ op + seq.ml <= oend /\ seq.ml \in Nat
        BY <2>1, <2>5, InBuffers, Types DEF Inside
      <3> QED
        <4> DEFINE m == UsingOffset(mem, op, match, seq.ml, seq.offset)
                   d == op + 8 + Wild(seq.ml - 8, 8)
        <4>1. TakeMatch(i, m, seq.ml, d, match, "fast")
          BY <2>5
        <4>2. d \in Int /\ d <= oend /\ DOMAIN m = DOMAIN mem /\ i <= iend
          BY <1>2, <2>1, <3>1, <3>4, Types DEF Inside
        <4> HIDE DEF m, d
        <4> QED
          BY <1>1, <1>2, <3>2, <3>3, <3>5, <4>1, <4>2, TakenMatch
    <2>6. CASE /\ ~Short /\ ~Outside /\ ~InDict
               /\ TakeMatch(i, Move(mem, op, match, Wild(seq.ml, 32), 16),
                            seq.ml, op + Wild(seq.ml, 32), match, "fast")
      <3>1. Wild(seq.ml, 32) \in Int /\ op + Wild(seq.ml, 32) <= oend
        BY <1>1, <2>1, WildThirtyTwo, Types DEF Inside
      <3>2. Room'
        BY <1>1, <1>2, <2>1, <2>6, Frames, Types DEF TakeMatch, Goto, Room, Inside
      <3>3. "fast" \in Labels
        BY DEF Labels
      <3>4. DOMAIN Move(mem, op, match, Wild(seq.ml, 32), 16) = DOMAIN mem
        BY Domains
      <3>5. match \in Int /\ match >= job.floor /\ op + seq.ml <= oend /\ seq.ml \in Nat
        BY <2>1, <2>6, InBuffers, Types DEF Inside
      <3> QED
        <4> DEFINE m == Move(mem, op, match, Wild(seq.ml, 32), 16)
                   d == op + Wild(seq.ml, 32)
        <4>1. TakeMatch(i, m, seq.ml, d, match, "fast")
          BY <2>6
        <4>2. d \in Int /\ d <= oend /\ DOMAIN m = DOMAIN mem /\ i <= iend
          BY <1>2, <2>1, <3>1, <3>4, Types DEF Inside
        <4> HIDE DEF m, d
        <4> QED
          BY <1>1, <1>2, <3>2, <3>3, <3>5, <4>1, <4>2, TakenMatch
    <2> QED
      BY <1>5, <2>2, <2>3, <2>4, <2>5, <2>6 DEF FastMatch, i
  <1> QED
    BY <1>3, <1>4, <1>5 DEF FastMatch

LEMMA ShortcutMatchKeeps == Inside /\ ShortcutMatch => Inside'
  <1> SUFFICES ASSUME Inside, ShortcutMatch PROVE Inside'
    OBVIOUS
  <1>1. Frame /\ ip + 3 <= iend /\ op <= oend - 18 /\ Short /\ Eighteen(ip + 2, "safe")
    BY DEF ShortcutMatch, Rest, Frame, Inside, Room
  <1>2. ip + 2 \in Nat /\ ip + 2 < iend /\ op + 18 <= oend
    BY <1>1, Types DEF Inside
  <1> QED
    BY <1>1, <1>2, EighteenKeeps

LEMMA MatchLengthKeeps == Inside /\ MatchLength => Inside'
  <1> SUFFICES ASSUME Inside, MatchLength PROVE Inside'
    OBVIOUS
  <1> DEFINE i == ip + 2 + MLExtra(seq)
  <1>1. Frame /\ ip + 3 <= iend /\ (job.partial \/ op <= oend - 12)
    BY Types DEF MatchLength, Rest, Frame, Inside, Room
  <1>2. i \in Nat
    BY <1>1, MatchInput DEF Inside
  <1>3. CASE ~MLReadable(ip + 2) /\ MatchFails(GivesUp(ip + 2, MLLimit, FALSE))
    BY <1>1, <1>3, MatchInput, FailedMatch DEF Inside
  <1>4. CASE MLReadable(ip + 2) /\ Goto("safematch") /\ ip' = i /\ Reads(ip') /\ UNCHANGED <<mem, op>>
    <2>1. i < iend
      BY <1>1, <1>4, MatchInput DEF Inside
    <2>2. ~stray' /\ stray' \in BOOLEAN
      BY <1>2, <1>4, <2>1, OnlyReads, Types DEF Inside
    <2>3. Room'
      BY <1>1, <1>2, <1>4, <2>1, Frames, Types DEF Goto, Room, Inside
    <2> QED
      BY <1>1, <1>2, <1>4, <2>1, <2>2, <2>3, Keeps, Frames, Types DEF Goto, Labels, Inside
  <1> QED
    BY <1>3, <1>4 DEF MatchLength

LEMMA SafeMatchKeeps == Inside /\ SafeMatch => Inside'
  <1> SUFFICES ASSUME Inside, SafeMatch PROVE Inside'
    OBVIOUS
  <1>1. Frame /\ ip \in Nat /\ ip < iend /\ (job.partial \/ op <= oend - 12)
    BY Types DEF SafeMatch, Rest, Frame, Inside, Room
  <1>2. CASE Outside /\ MatchFails(ip)
    BY <1>1, <1>2, FailedMatch, Types DEF Inside
  <1>3. CASE ~Outside /\ InDict /\ DictMatch(ip, "safe")
    BY <1>1, <1>3, DictMatchKeeps
  <1>4. CASE ~Outside /\ ~InDict /\ PartialCopy
    <2> DEFINE len == Min2(seq.ml, oend - op)
               l == IF op + len = oend THEN "end" ELSE "safe"
    <2>1. len \in Nat /\ op + len <= oend
      BY Types DEF Min2, Inside
    <2>2. TakeMatch(ip, Move(mem, op, match, len, 1), len, op + len, match, l)
      BY <1>4 DEF PartialCopy
    <2>3. l \in Labels /\ l \in {"end", "safe"}
      BY DEF Labels
    <2>4. match \in Int /\ match >= job.floor /\ op + len \in Int
      BY <1>4, <2>1, InBuffers, Types DEF Inside
    <2>5. DOMAIN Move(mem, op, match, len, 1) = DOMAIN mem
      BY Domains
    <2> HIDE DEF len, l
    <2>6. Room'
      BY <1>1, <2>2, <2>3, Frames, Types DEF TakeMatch, Goto, Room, Inside
    <2> QED
      BY <1>1, <2>1, <2>2, <2>3, <2>4, <2>5, <2>6, TakenMatch, Types DEF Inside
  <1>5. ASSUME NEW eight, NEW s, DOMAIN eight = DOMAIN mem,
               ~Outside, ~InDict, SafeCopy(eight, s),
               ~(job.partial /\ op + seq.ml > oend - MatchSafeguard)
        PROVE  Inside'
    <2> DEFINE cpy == op + seq.ml
               limit == Max2(op + 8, oend - (WildCopyLength - 1))
               strides == IF op + 8 < limit THEN Wild(limit - (op + 8), 8) ELSE 0
               tail == Max2(0, cpy - limit)
               beyond == IF seq.ml > 16 THEN Wild(seq.ml - 16, 8) ELSE 0
               m == Move(eight, op + 8, s, strides, 8)
               mTail == Move(m, limit, s + (limit - (op + 8)), tail, 1)
               mAll == Move(eight, op + 8, s, 8 + beyond, 8)
    <2>1. op + 8 <= oend /\ op + 8 \in Int
      BY <1>1, <1>5, Types DEF MatchSafeguard, Inside
    <2>2. match \in Int /\ match >= job.floor
      BY <1>5, InBuffers, Types DEF Inside
    <2>3. DOMAIN mTail = DOMAIN mem /\ DOMAIN mAll = DOMAIN mem
      BY <1>5, Domains
    <2>4. CASE Fail(ip) /\ Touches(ip, op + 8, match)
      <3>1. ~stray' /\ stray' \in BOOLEAN
        BY <1>1, <2>1, <2>2, <2>4, Untouched, Types DEF Inside
      <3> QED
        BY <1>1, <2>4, <3>1, Failed, Frames
    <2>5. CASE /\ cpy <= oend - LastLiterals
               /\ TakeMatch(ip, mTail, seq.ml, Max2(op + 8 + strides, limit + tail), match, "safe")
      <3> DEFINE d == Max2(op + 8 + strides, limit + tail)
      <3>1. limit \in Int /\ limit <= oend /\ op + 8 <= limit
        BY <2>1, Types DEF Max2, Inside
      <3>2. strides \in Int /\ op + 8 + strides <= oend
        <4>1. CASE op + 8 < limit
          <5>1. limit = oend - 7
            BY <4>1, Types DEF Max2, Inside
          <5>2. limit - (op + 8) \in Int /\ limit - (op + 8) > 0
            BY <4>1, <3>1, Types DEF Inside
          <5> HIDE DEF limit
          <5>3. /\ Wild(limit - (op + 8), 8) \in Int
                /\ Wild(limit - (op + 8), 8) <= limit - (op + 8) + 7
            BY <5>2, WildEight
          <5> QED
            BY <3>1, <4>1, <5>1, <5>3, Types DEF Inside
        <4>2. CASE ~(op + 8 < limit)
          BY <2>1, <4>2, Types DEF Inside
        <4> QED
          BY <4>1, <4>2
      <3>3. tail \in Int /\ limit + tail <= oend
        BY <2>5, <3>1, Types DEF Max2, Inside
      <3> HIDE DEF limit, strides, tail
      <3>4. d \in Int /\ d <= oend
        BY <3>1, <3>2, <3>3, <2>1 DEF Max2
      <3> HIDE DEF d, mTail
      <3>5. Room'
        BY <1>1, <2>5, Frames, Types DEF TakeMatch, Goto, Room, Inside
      <3>6. "safe" \in Labels /\ op + seq.ml <= oend
        BY <2>5, Types DEF Labels, Inside
      <3>7. TakeMatch(ip, mTail, seq.ml, d, match, "safe")
        BY <2>5 DEF d, limit, strides, tail
      <3> QED
        BY <1>1, <2>2, <2>3, <3>4, <3>5, <3>6, <3>7, TakenMatch, Types DEF Inside
    <2>6. CASE /\ cpy <= oend - MatchSafeguard
               /\ TakeMatch(ip, mAll, seq.ml, op + 16 + beyond, match, "safe")
      <3>1. op + 16 + beyond \in Int /\ op + 16 + beyond <= oend
        <4>1. CASE seq.ml > 16
          <5>1. /\ Wild(seq.ml - 16, 8) \in Int
                /\ Wild(seq.ml - 16, 8) <= seq.ml - 16 + 7 \/ Wild(seq.ml - 16, 8) = 8
            BY WildEight, Types DEF Inside
          <5> QED
            BY <2>6, <4>1, <5>1, Types DEF MatchSafeguard, Inside
        <4>2. CASE seq.ml <= 16
          BY <2>6, <4>2, Types DEF MatchSafeguard, Inside
        <4> QED
          BY <4>1, <4>2, Types DEF Inside
      <3>2. Room'
        BY <1>1, <2>6, Frames, Types DEF TakeMatch, Goto, Room, Inside
      <3>3. "safe" \in Labels /\ op + seq.ml <= oend
        BY <2>6, Types DEF MatchSafeguard, Labels, Inside
      <3> HIDE DEF mAll, beyond
      <3> QED
        BY <1>1, <2>2, <2>3, <2>6, <3>1, <3>2, <3>3, TakenMatch, Types DEF Inside
    <2> QED
      BY <1>5, <2>4, <2>5, <2>6 DEF SafeCopy
  <1> DEFINE eight == IF seq.offset < 8 THEN FirstEight(mem, op, match, seq.offset)
                                         ELSE Move(mem, op, match, 8, 8)
  <1>6. DOMAIN eight = DOMAIN mem
    BY Domains, DomainsUsing
  <1> HIDE DEF eight
  <1> QED
    BY <1>2, <1>3, <1>4, <1>5, <1>6 DEF SafeMatch, eight

----------------------------------------------------------------------------
(* Every reachable state is inside. *)

LEMMA InitInside == Init => Inside
  <1> SUFFICES ASSUME Init PROVE Inside
    OBVIOUS
  <1>1. job.src \in Nat /\ job.cap \in Nat /\ job.dst \in Int
    BY JobAssumption DEF Init, JobType
  <1>2. DOMAIN mem = Addresses(job)
    BY DEF Init
  <1>3. pc \in Labels /\ reads \in 0..MaxSequences /\ stray \in BOOLEAN
    <2>1. pc \in Labels
      BY DEF Init, Labels
    <2>2. reads \in 0..MaxSequences
      BY JobAssumption DEF Init
    <2>3. stray \in BOOLEAN
      BY Zenon DEF Init
    <2> QED
      BY <2>1, <2>2, <2>3
  <1>4. /\ seq \in [lit : Nat, offset : Nat, ml : Nat]
        /\ seq.offset < Window /\ seq.ml >= MinMatch
    <2>1. Window \in Nat \ {0}
      BY JobAssumption
    <2> QED
      BY <2>1 DEF Init
  <1>5. /\ ip \in Nat /\ op \in job.dst..oend /\ ip <= iend
        /\ start \in [ip : Nat, op : Int]
    BY <1>1 DEF Init, oend, iend
  <1>6. TypeOK
    BY <1>2, <1>3, <1>4, <1>5 DEF Init, TypeOK
  <1> QED
    BY <1>6 DEF Init, Inside, Room, StaysInside

LEMMA NextInside == Inside /\ [Next]_vars => Inside'
  <1> SUFFICES ASSUME Inside, [Next]_vars PROVE Inside'
    OBVIOUS
  <1>1. CASE UNCHANGED vars
    BY <1>1 DEF vars, Inside, TypeOK, StaysInside, Room, iend, oend, Addresses
  <1> QED
    BY <1>1, BeginKeeps, LiteralsFailKeeps, FastLiteralsKeeps, FastMatchKeeps,
       SafeLiteralsKeeps, ShortcutMatchKeeps, CopyLiteralsKeeps, MatchLengthKeeps,
       SafeMatchKeeps DEF Next

THEOREM AlwaysInside == Spec => []Inside
  BY InitInside, NextInside, PTL DEF Spec

(* The decoder never writes outside the output, reads outside the input,   *)
(* or reads before its prefix or dictionary (lz4.h, LZ4_decompress_safe),  *)
(* for any input, any sizes and any distances below the window.            *)
THEOREM NeverStrays == Spec => []StaysInside
  BY AlwaysInside, PTL DEF Inside

(* The output position never passes the end of the output, nor the input   *)
(* position that of the input, except on failure.                          *)
THEOREM DecoderTyped == Spec => []TypeOK
  BY AlwaysInside, PTL DEF Inside
----------------------------------------------------------------------------
(* What is refused.  Where the decoder is in a sequence determines how     *)
(* much of it has been read and written, so that each test that fails      *)
(* fails a condition of Belongs.                                           *)

ReadLength(q) == start.ip + 1 + LitExtra(q)
ReadLiterals(q) == ReadLength(q) + q.lit

Places ==
  /\ pc = "literals" => ip = ReadLength(seq) /\ op = start.op
  /\ pc \in {"fastmatch", "shortcut", "offset"} /\ ~job.partial =>
       ip = ReadLiterals(seq) /\ op = start.op + seq.lit
  /\ pc = "safematch" /\ ~job.partial =>
       ip = ReadLiterals(seq) + 2 + MLExtra(seq) /\ op = start.op + seq.lit

Refusals == Places /\ RefusesOnlyInvalid

(* After its token a sequence starts where the decoder is. *)
LEMMA TokenStarts ==
  ASSUME Inside, NEW l \in {"fast", "safe"}, Token(l)
  PROVE  /\ start'.ip = ip /\ start'.op = op /\ job' = job
         /\ ReadLength(seq)' = ip + 1 + LitExtra(seq')
         /\ ReadLiterals(seq)' = ip + 1 + LitExtra(seq') + seq'.lit
         /\ LitExtra(seq') \in Nat /\ (Long(seq') => LitExtra(seq') >= 1)
         /\ seq'.lit \in Nat
  <1>1. start'.ip = ip /\ start'.op = op /\ job' = job
    BY DEF Token
  <1>2. LitExtra(seq') \in Nat /\ seq'.lit \in Nat
    BY Tokens
  <1>3. Long(seq') => LitExtra(seq') >= 1
    BY <1>2, JobAssumption, ByteAssumption DEF Long, LitExtra, Extra
  <1> QED
    BY <1>1, <1>2, <1>3 DEF ReadLength, ReadLiterals

(* In a sequence that is being read nothing starts anew. *)
LEMMA SequenceStays ==
  ASSUME Inside, Frame
  PROVE  /\ ReadLength(seq)' = ReadLength(seq) /\ ReadLiterals(seq)' = ReadLiterals(seq)
         /\ MLExtra(seq)' = MLExtra(seq) /\ LitExtra(seq)' = LitExtra(seq)
         /\ LitExtra(seq) \in Nat /\ MLExtra(seq) \in Nat
         /\ start' = start /\ seq' = seq /\ job' = job
         /\ start.ip \in Nat /\ start.op \in Int
  <1>1. start' = start /\ seq' = seq /\ job' = job
    BY DEF Frame
  <1>2. LitExtra(seq) \in Nat /\ MLExtra(seq) \in Nat
    BY Types, ExtraNat DEF LitExtra, MLExtra, Inside
  <1>3. start.ip \in Nat /\ start.op \in Int
    BY DEF Inside, TypeOK
  <1> QED
    BY <1>1, <1>2, <1>3 DEF ReadLength, ReadLiterals, LitExtra, MLExtra

(* The same sequence belongs or does not, before and after a failure.      *)
LEMMA RefusalOf ==
  ASSUME Inside, NEW q, seq' = q, NEW i, start'.ip = i, NEW o, start'.op = o, job' = job,
         job.partial \/ ~Belongs(q, i, o)
  PROVE  RefusesOnlyInvalid'
  <1>1. Belongs(seq, start.ip, start.op)' <=> Belongs(q, i, o)
    BY DEF Belongs, History, LitExtra, MLExtra, Extra, iend, oend
  <1> QED
    BY <1>1 DEF RefusesOnlyInvalid

LEMMA LiteralsFailRefuses ==
  ASSUME NEW l \in {"fast", "safe"}, Inside, LiteralsFail(l)
  PROVE  Places' /\ RefusesOnlyInvalid'
  <1>1. Token(l) /\ ~LitReadable(seq') /\ pc' = "error"
    BY DEF LiteralsFail, Fail, Goto
  <1>2. Places'
    BY <1>1 DEF Places
  <1>3. ~Belongs(seq', ip, op)
    <2>1. /\ ip \in Nat /\ iend \in Nat /\ MLExtra(seq') \in Nat
          /\ LitExtra(seq') \in Nat /\ LitExtra(seq') >= 1 /\ seq'.lit \in Nat /\ seq'.lit >= 15
      <3>1. Long(seq')
        BY <1>1 DEF LitReadable
      <3>2. MLExtra(seq') \in Nat
        BY <1>1, Tokens, ExtraNat, Types DEF MLExtra, Inside
      <3> QED
        BY <1>1, <3>1, <3>2, TokenStarts, Types DEF Long, Inside
    <2>2. ip + 1 >= iend - 15 \/ ip + 1 + LitExtra(seq') > iend - 15
      BY <1>1, <2>1 DEF LitReadable, Readable, LitLimit
    <2> QED
      BY <2>1, <2>2 DEF Belongs
  <1> QED
    BY <1>1, <1>2, <1>3, TokenStarts, RefusalOf

LEMMA TakenPlaces ==
  ASSUME Inside, Inside', pc' \notin {"error", "literals", "fastmatch", "shortcut",
                                      "offset", "safematch"}
  PROVE  Places' /\ RefusesOnlyInvalid'
  BY DEF Places, RefusesOnlyInvalid

LEMMA LiteralsPlaced ==
  ASSUME Inside, FastLiterals \/ SafeLiterals
  PROVE  Places' /\ RefusesOnlyInvalid'
  <1>1. PICK l \in {"fast", "safe"} : Token(l)
    BY DEF FastLiterals, SafeLiterals
  <1> DEFINE i == ip + 1 + LitExtra(seq')
  <1>2. \/ pc' = "literals" /\ ip' = i /\ op' = op
        \/ pc' \in {"fastmatch", "shortcut"} /\ ip' = i + seq'.lit /\ op' = op + seq'.lit
    BY DEF FastLiterals, SafeLiterals, TakeLiterals, Goto
  <1>3. pc' # "error"
    BY <1>2
  <1> QED
    BY <1>1, <1>2, <1>3, TokenStarts DEF Places, RefusesOnlyInvalid

LEMMA CopyLiteralsPlaced ==
  ASSUME Inside, Places, CopyLiterals
  PROVE  Places' /\ RefusesOnlyInvalid'
  <1> DEFINE near == op + seq.lit > oend - 12 \/ ip + seq.lit > iend - 8
  <1>1. Frame /\ pc = "literals" /\ ip = ReadLength(seq) /\ op = start.op
    BY DEF CopyLiterals, Rest, Frame, Places
  <1>2. CASE pc' = "error" /\ near /\ ~LastRun(seq.lit)
    <2>1. ~Belongs(seq, start.ip, start.op)
      BY <1>1, <1>2, SequenceStays, Types DEF Belongs, LastRun, ReadLength, Inside
    <2> QED
      BY <1>1, <1>2, <2>1, SequenceStays, RefusalOf DEF Places
  <1>3. CASE pc' = "offset" /\ ip' = ip + seq.lit /\ op' = op + seq.lit
    BY <1>1, <1>3, SequenceStays DEF Places, RefusesOnlyInvalid, ReadLength, ReadLiterals
  <1>4. CASE pc' = "offset" /\ job.partial
    BY <1>1, <1>4, SequenceStays DEF Places, RefusesOnlyInvalid
  <1>5. CASE pc' = "end"
    BY <1>5 DEF Places, RefusesOnlyInvalid
  <1> QED
    BY <1>2, <1>3, <1>4, <1>5 DEF CopyLiterals, TakeLiterals, Fail, Goto

(* Where a match is copied, the rest of the sequence is known to be read.  *)
(* i is where the literals end.                                            *)
LEMMA OffsetRefused ==
  ASSUME Inside, Outside, op = start.op + seq.lit, ReadLiterals(seq) + 3 <= iend,
         LitExtra(seq) \in Nat, start.ip \in Nat, start.op \in Int
  PROVE  ~Belongs(seq, start.ip, start.op)
  <1>1. /\ job \in Jobs /\ job.dict \in {"noDict", "withPrefix64k", "usingExtDict"}
        /\ job.dict = "withPrefix64k" =>
             job.lowPrefix = job.dst - Window /\ job.floor <= job.dst - (Window - 1)
        /\ job.dict # "withPrefix64k" => job.floor = job.lowPrefix
        /\ job.dict # "usingExtDict" => job.dictSize = 0
    BY JobAssumption DEF Inside, TypeOK, JobType
  <1>2. ~(seq.offset <= History + start.op + seq.lit - job.dst)
    BY <1>1, Types DEF Outside, History, Inside
  <1>3. start.ip + 1 + LitExtra(seq) + seq.lit # iend
    BY Types DEF ReadLiterals, ReadLength, Inside
  <1>4. History + (start.op + seq.lit) - job.dst \in Int
    BY Types DEF History, Inside
  <1>5. ~(seq.offset \in 1 .. History + (start.op + seq.lit) - job.dst)
    BY <1>2, <1>4, Types DEF Inside, History
  <1> QED
    BY <1>3, <1>5 DEF Belongs

LEMMA LengthRefused ==
  ASSUME Inside, ~MLReadable(ReadLiterals(seq) + 2), ReadLiterals(seq) + 3 <= iend,
         LitExtra(seq) \in Nat, start.ip \in Nat, start.op \in Int
  PROVE  ~Belongs(seq, start.ip, start.op)
  BY Types, MatchExtra DEF Belongs, MLReadable, Readable, MLLimit, ReadLiterals, ReadLength, Inside

LEMMA EndRefused ==
  ASSUME Inside, op + seq.ml > oend - 5, op = start.op + seq.lit,
         ReadLiterals(seq) + 3 <= iend,
         LitExtra(seq) \in Nat, start.ip \in Nat, start.op \in Int
  PROVE  ~Belongs(seq, start.ip, start.op)
  BY Types, MatchExtra DEF Belongs, ReadLiterals, ReadLength, Inside

(* The failures of DictMatch and the steps that go on with the block.      *)
LEMMA DictPlaced ==
  ASSUME Inside, Frame, NEW i, NEW l \in {"fast", "safe"}, DictMatch(i, l),
         job.partial \/ (op = start.op + seq.lit /\ ReadLiterals(seq) + 3 <= iend)
  PROVE  Places' /\ RefusesOnlyInvalid'
  <1>1. CASE Near /\ ~job.partial /\ pc' = "error"
    <2>1. ~Belongs(seq, start.ip, start.op)
      BY <1>1, EndRefused, SequenceStays DEF Near
    <2> QED
      BY <1>1, <2>1, SequenceStays, RefusalOf DEF Places
  <1>2. CASE pc' = l
    BY <1>2 DEF Places, RefusesOnlyInvalid
  <1> QED
    BY <1>1, <1>2 DEF DictMatch, MatchFails, Fail, Goto

(* A length that cannot be read, or one that can. *)
LEMMA LengthPlaced ==
  ASSUME Inside, Places, Frame, ip + 3 <= iend,
         pc \in {"fastmatch", "shortcut", "offset"},
         \/ ~MLReadable(ip + 2) /\ pc' = "error"
         \/ pc' = "safematch" /\ ip' = ip + 2 + MLExtra(seq) /\ op' = op
  PROVE  Places' /\ RefusesOnlyInvalid'
  <1>1. ~job.partial => ip = ReadLiterals(seq) /\ op = start.op + seq.lit
    BY DEF Places
  <1>2. CASE ~MLReadable(ip + 2) /\ pc' = "error"
    <2>1. job.partial \/ ~Belongs(seq, start.ip, start.op)
      BY <1>1, <1>2, LengthRefused, SequenceStays
    <2> QED
      BY <1>2, <2>1, SequenceStays, RefusalOf DEF Places
  <1>3. CASE pc' = "safematch" /\ ip' = ip + 2 + MLExtra(seq) /\ op' = op
    BY <1>1, <1>3, SequenceStays DEF Places, RefusesOnlyInvalid
  <1> QED
    BY <1>2, <1>3

LEMMA FastMatchPlaced ==
  ASSUME Inside, Places, FastMatch
  PROVE  Places' /\ RefusesOnlyInvalid'
  <1>1. Frame /\ pc = "fastmatch" /\ ip + 3 <= iend
    BY DEF FastMatch, Rest, Frame, Inside, Room
  <1>2. ~job.partial => op = start.op + seq.lit /\ ReadLiterals(seq) + 3 <= iend
    BY <1>1 DEF Places
  <1>3. CASE ~MLReadable(ip + 2) /\ pc' = "error"
    BY <1>1, <1>3, LengthPlaced
  <1>4. CASE pc' = "safematch" /\ ip' = ip + 2 + MLExtra(seq) /\ op' = op
    BY <1>1, <1>4, LengthPlaced
  <1>5. CASE pc' = "fast"
    BY <1>5 DEF Places, RefusesOnlyInvalid
  <1>6. CASE Outside /\ pc' = "error"
    <2>1. job.partial \/ ~Belongs(seq, start.ip, start.op)
      BY <1>1, <1>2, <1>6, OffsetRefused, SequenceStays
    <2> QED
      BY <1>1, <1>6, <2>1, SequenceStays, RefusalOf DEF Places
  <1>7. CASE \E i : DictMatch(i, "fast")
    BY <1>1, <1>2, <1>7, DictPlaced
  <1> QED
    BY <1>3, <1>4, <1>5, <1>6, <1>7
    DEF FastMatch, MatchFails, Fail, Goto, Eighteen, TakeMatch

LEMMA ShortcutMatchPlaced ==
  ASSUME Inside, ShortcutMatch
  PROVE  Places' /\ RefusesOnlyInvalid'
  <1>1. pc' = "safe"
    BY DEF ShortcutMatch, Eighteen, TakeMatch, Goto
  <1> QED
    BY <1>1 DEF Places, RefusesOnlyInvalid

LEMMA MatchLengthPlaced ==
  ASSUME Inside, Places, MatchLength
  PROVE  Places' /\ RefusesOnlyInvalid'
  <1>1. Frame /\ pc \in {"fastmatch", "shortcut", "offset"} /\ ip + 3 <= iend
    BY DEF MatchLength, Rest, Frame, Inside, Room
  <1>2. \/ ~MLReadable(ip + 2) /\ pc' = "error"
        \/ pc' = "safematch" /\ ip' = ip + 2 + MLExtra(seq) /\ op' = op
    BY DEF MatchLength, MatchFails, Fail, Goto
  <1> QED
    BY <1>1, <1>2, LengthPlaced

LEMMA SafeMatchPlaced ==
  ASSUME Inside, Places, SafeMatch
  PROVE  Places' /\ RefusesOnlyInvalid'
  <1>1. Frame /\ pc = "safematch" /\ ip < iend
    BY DEF SafeMatch, Rest, Frame, Inside, Room
  <1>2. ~job.partial => op = start.op + seq.lit /\ ReadLiterals(seq) + 3 <= iend
    <2>1. ~job.partial => ip = ReadLiterals(seq) + 2 + MLExtra(seq) /\ op = start.op + seq.lit
      BY <1>1 DEF Places
    <2>2. ReadLiterals(seq) \in Int /\ MLExtra(seq) \in Nat /\ iend \in Int /\ ip \in Int
      BY <1>1, SequenceStays, Types DEF ReadLiterals, ReadLength, Inside
    <2> QED
      BY <1>1, <2>1, <2>2
  <1>3. CASE Outside /\ pc' = "error"
    <2>1. job.partial \/ ~Belongs(seq, start.ip, start.op)
      BY <1>1, <1>2, <1>3, OffsetRefused, SequenceStays
    <2> QED
      BY <1>1, <1>3, <2>1, SequenceStays, RefusalOf DEF Places
  <1>4. CASE \E i : DictMatch(i, "safe")
    BY <1>1, <1>2, <1>4, DictPlaced
  <1>5. CASE pc' \in {"safe", "end"}
    BY <1>5 DEF Places, RefusesOnlyInvalid
  <1>6. CASE op + seq.ml > oend - 5 /\ pc' = "error"
    <2>1. job.partial \/ ~Belongs(seq, start.ip, start.op)
      BY <1>1, <1>2, <1>6, EndRefused, SequenceStays
    <2> QED
      BY <1>1, <1>6, <2>1, SequenceStays, RefusalOf DEF Places
  <1>7. ASSUME NEW eight, NEW s, SafeCopy(eight, s)
        PROVE  pc' = "safe" \/ (op + seq.ml > oend - 5 /\ pc' = "error")
    BY <1>7 DEF SafeCopy, TakeMatch, Fail, Goto
  <1>8. PartialCopy => pc' \in {"safe", "end"}
    BY DEF PartialCopy, TakeMatch, Goto
  <1> QED
    BY <1>3, <1>4, <1>5, <1>6, <1>7, <1>8 DEF SafeMatch, MatchFails, Fail, Goto

LEMMA BeginPlaced ==
  ASSUME Inside, Begin
  PROVE  Places' /\ RefusesOnlyInvalid'
  <1>1. job' = job /\ pc' \in {"end", "error", "safe", "fast"}
    BY DEF Begin, Goto
  <1>2. pc' = "error" => job.cap = 0 \/ job.src = 0
    BY DEF Begin, Goto
  <1> QED
    BY <1>1, <1>2, Types DEF Places, RefusesOnlyInvalid, Inside

LEMMA InitRefusals == Init => Refusals
  BY DEF Init, Refusals, Places, RefusesOnlyInvalid

LEMMA NextRefusals == Inside /\ Refusals /\ [Next]_vars => Refusals'
  <1> SUFFICES ASSUME Inside, Refusals, [Next]_vars PROVE Refusals'
    OBVIOUS
  <1>1. CASE UNCHANGED vars
    <2>1. Places'
      <3>1. /\ ReadLength(seq)' = ReadLength(seq) /\ ReadLiterals(seq)' = ReadLiterals(seq)
            /\ MLExtra(seq)' = MLExtra(seq)
        BY <1>1, SequenceStays DEF vars, Frame
      <3> QED
        BY <1>1, <3>1 DEF vars, Places, Refusals
    <2>2. RefusesOnlyInvalid'
      <3>1. CASE job.partial \/ ~Belongs(seq, start.ip, start.op)
        BY <1>1, <3>1, RefusalOf DEF vars
      <3>2. CASE ~(job.partial \/ ~Belongs(seq, start.ip, start.op))
        BY <1>1, <3>2 DEF vars, RefusesOnlyInvalid, Refusals
      <3> QED
        BY <3>1, <3>2
    <2> QED
      BY <2>1, <2>2 DEF Refusals
  <1> QED
    BY <1>1, BeginPlaced, LiteralsFailRefuses, LiteralsPlaced, CopyLiteralsPlaced,
       FastMatchPlaced, ShortcutMatchPlaced, MatchLengthPlaced, SafeMatchPlaced
    DEF Next, Refusals

(* A block is refused only if the sequence at which it is refused belongs  *)
(* to no block of that size and capacity: no margin of the strides or of   *)
(* the fast loop refuses anything by itself, for any sizes, history,       *)
(* window and any base of the lengths' bytes.                              *)
THEOREM OnlyInvalidRefused == Spec => []RefusesOnlyInvalid
  <1>1. Init => Inside /\ Refusals
    BY InitInside, InitRefusals
  <1>2. (Inside /\ Refusals) /\ [Next]_vars => (Inside /\ Refusals)'
    BY NextInside, NextRefusals
  <1> QED
    BY <1>1, <1>2, PTL DEF Spec, Refusals

----------------------------------------------------------------------------
(* The dictionary under the output.  A copy overshoots what it means to    *)
(* write by less than 32 bytes, so memory is as it was before the call     *)
(* from there on; and a dictionary lies apart from the output, or so far   *)
(* ahead in the same ring that its last Window bytes begin behind that.    *)

DictionariesApart ==
  \A j \in Jobs : j.dict = "usingExtDict" =>
    \/ j.dictStart + j.dictSize <= j.lowPrefix
    \/ j.dictStart >= j.dst + j.cap
    \/ j.dictStart + j.dictSize - j.lowPrefix >= Window + Overshot - 1

Kept == \A x \in DOMAIN mem :
          x < job.dst \/ x >= op + Overshot \/ x >= oend => mem[x] = Holds(job, x)

(* What each copy leaves alone. *)
LEMMA FromSrcLeaves ==
  ASSUME NEW m, NEW d \in Int, NEW from, NEW n \in Int, NEW x \in DOMAIN m, x \in Int,
         x < d \/ x >= d + n
  PROVE  FromSrc(m, d, from, n)[x] = m[x]
  BY DEF FromSrc
LEMMA MoveLeaves ==
  ASSUME NEW m, NEW d \in Int, NEW s, NEW n \in Int, NEW c, NEW x \in DOMAIN m, x \in Int,
         x < d \/ x >= d + n
  PROVE  Move(m, d, s, n, c)[x] = m[x]
  BY DEF Move
LEMMA FirstEightLeaves ==
  ASSUME NEW m, NEW d \in Int, NEW s, NEW o, NEW x \in DOMAIN m, x \in Int,
         x < d \/ x >= d + 8
  PROVE  FirstEight(m, d, s, o)[x] = m[x]
  <1> DEFINE z == [a \in DOMAIN m |-> IF a \in d .. d + 3 THEN Zero ELSE m[a]]
             y == Move(z, d, s, 4, 1)
  <1>1. DOMAIN z = DOMAIN m /\ z[x] = m[x]
    OBVIOUS
  <1> HIDE DEF z
  <1>2. y[x] = m[x] /\ DOMAIN y = DOMAIN m
    BY <1>1, MoveLeaves, Domains
  <1> HIDE DEF y
  <1>3. Move(y, d + 4, s + Inc32[o + 1], 4, 4)[x] = y[x]
    BY <1>2, MoveLeaves
  <1> QED
    BY <1>2, <1>3 DEF FirstEight, y, z
LEMMA UsingOffsetLeaves ==
  ASSUME NEW m, NEW d \in Int, NEW s, NEW n \in Int, NEW o, NEW x \in DOMAIN m, x \in Int,
         x < d \/ x >= d + 8 + Wild(n - 8, 8)
  PROVE  UsingOffset(m, d, s, n, o)[x] = m[x]
  <1>1. /\ Wild(n, 8) \in Int /\ Wild(n - 8, 8) \in Int /\ Wild(n - 8, 8) >= 8
        /\ Wild(n, 8) <= 8 + Wild(n - 8, 8)
    BY DEF Wild
  <1>2. CASE o \in {1, 2, 4}
    BY <1>1, <1>2 DEF UsingOffset
  <1>3. CASE o \notin {1, 2, 4}
    <2> DEFINE e == IF o < 8 THEN FirstEight(m, d, s, o) ELSE Move(m, d, s, 8, 8)
               w == Wild(n - 8, 8)
               d8 == d + 8
    <2>1. e[x] = m[x] /\ DOMAIN e = DOMAIN m
      BY <1>1, FirstEightLeaves, MoveLeaves, Domains, DomainsUsing
    <2>2. w \in Int /\ d8 \in Int /\ (x < d8 \/ x >= d8 + w)
      BY <1>1
    <2> HIDE DEF e, w, d8
    <2>3. Move(e, d8, Advanced(s, o), w, 8)[x] = e[x]
      BY <2>1, <2>2, MoveLeaves
    <2> QED
      BY <1>3, <2>1, <2>3 DEF UsingOffset, e, w, d8
  <1> QED
    BY <1>2, <1>3

(* A step that writes from op up to d, and moves op up to 31 bytes before. *)
Leaves(m, d) == \A x \in DOMAIN mem : x < op \/ x >= d => m[x] = mem[x]
LEMMA Beyond ==
  ASSUME NEW x \in Int, NEW d \in Int, NEW o \in Int, NEW b \in Int, NEW e \in Int,
         NEW c \in Int, d <= b + 31, d <= e, c <= o,
         x < c \/ x >= b + 31 \/ x >= e
  PROVE  x < o \/ x >= d
  OBVIOUS
LEMMA MemoryOfInts ==
  ASSUME Inside
  PROVE  \A x \in DOMAIN mem : x \in Int
  <1>1. DOMAIN mem = Addresses(job)
    BY DEF Inside, TypeOK
  <1>2. Addresses(job) \subseteq Int
    BY Types DEF Addresses, Min2, Max2, Inside
  <1> QED
    BY <1>1, <1>2
LEMMA StillKept ==
  ASSUME Inside, Inside', Kept, job' = job, op <= op',
         NEW d \in Int, Leaves(mem', d), d <= op' + Overshot, d <= oend
  PROVE  Kept'
  <1>1. /\ DOMAIN mem' = DOMAIN mem /\ oend' = oend /\ Holds(job, 0)' = Holds(job, 0)
        /\ \A x \in DOMAIN mem : x \in Int
        /\ op' \in Int
    <2>1. DOMAIN mem = Addresses(job) /\ DOMAIN mem' = Addresses(job)
      BY DEF Inside, TypeOK, Addresses
    <2>2. \A x \in DOMAIN mem : x \in Int
      BY MemoryOfInts
    <2>3. op' \in Int
      BY Types DEF Inside, TypeOK, oend
    <2> QED
      BY <2>1, <2>2, <2>3 DEF oend, Holds
  <1> SUFFICES ASSUME NEW x \in DOMAIN mem,
                      x < job.dst \/ x >= op' + Overshot \/ x >= oend
               PROVE  mem'[x] = Holds(job, x)
    BY <1>1 DEF Kept, Holds
  <1>2. x \in Int /\ op \in Int /\ job.dst \in Int /\ oend \in Int /\ job.dst <= op
    BY <1>1, Types DEF Inside
  <1>5. op' \in Int
    BY <1>1
  <1>3. x < op \/ x >= d
    BY <1>2, <1>5, Beyond DEF Overshot
  <1>4. x < job.dst \/ x >= op + Overshot \/ x >= oend
    BY <1>2, <1>5 DEF Overshot
  <1> QED
    BY <1>3, <1>4 DEF Leaves, Kept

(* A step that writes nothing. *)
LEMMA KeptUnwritten ==
  ASSUME Inside, Inside', Kept, job' = job, mem' = mem, op' = op
  PROVE  Kept'
  <1>1. op \in Int /\ op <= oend
    BY Types DEF Inside
  <1>2. Leaves(mem', op)
    BY <1>1 DEF Leaves
  <1> QED
    BY <1>1, <1>2, StillKept DEF Overshot

(* What was touched was within the output. *)
LEMMA WithinOutput ==
  ASSUME Inside', NEW i, NEW d, NEW s, Touches(i, d, s)
  PROVE  ~(d > oend)
  <1>1. stray' = FALSE
    BY DEF Inside, StaysInside, TypeOK
  <1> QED
    BY <1>1 DEF Touches

LEMMA LiteralsKept ==
  ASSUME Inside, Inside', Kept, job' = job, NEW i \in Int, NEW n \in Nat, NEW w \in Int,
         NEW l, TakeLiterals(i, n, w, l), w <= n + Overshot
  PROVE  Kept'
  <1>1. op \in Int /\ oend \in Int /\ \A x \in DOMAIN mem : x \in Int
    BY Types, MemoryOfInts DEF Inside
  <1>2. op' = op + n /\ mem' = FromSrc(mem, op, i, w) /\ op + w <= oend
    BY <1>1, WithinOutput DEF TakeLiterals
  <1>3. Leaves(mem', op + w)
    BY <1>1, <1>2, FromSrcLeaves DEF Leaves
  <1> QED
    BY <1>1, <1>2, <1>3, StillKept DEF Overshot

LEMMA MatchKept ==
  ASSUME Inside, Inside', Kept, job' = job, NEW i, NEW m, NEW len \in Nat, NEW d \in Int,
         NEW s, NEW l, TakeMatch(i, m, len, d, s, l),
         Leaves(m, d), d <= op + len + Overshot
  PROVE  Kept'
  <1>1. op \in Int /\ oend \in Int
    BY Types DEF Inside
  <1>2. op' = op + len /\ mem' = m /\ d <= oend
    BY <1>1, WithinOutput DEF TakeMatch
  <1> QED
    BY <1>1, <1>2, StillKept

LEMMA BeginKept == ASSUME Inside, Inside', Kept, Begin PROVE Kept'
  BY KeptUnwritten DEF Begin

LEMMA LiteralsFailKept ==
  ASSUME Inside, Inside', Kept, NEW l \in {"fast", "safe"}, LiteralsFail(l) PROVE Kept'
  BY KeptUnwritten DEF LiteralsFail, Fail, Token

LEMMA FastLiteralsKept == ASSUME Inside, Inside', Kept, FastLiterals PROVE Kept'
  <1> DEFINE n == seq'.lit
             i == ip + 1 + LitExtra(seq')
  <1>1. Token("fast") /\ job' = job /\ n \in Nat /\ i \in Int
    BY Tokens, Types DEF FastLiterals, Token, Inside
  <1>3. CASE Long(seq') /\ TakeLiterals(i, n, Wild(n, 32), "fastmatch")
    <2>1. Wild(n, 32) \in Int /\ Wild(n, 32) <= n + Overshot
      BY <1>1, <1>3, WildThirtyTwo DEF Long, Overshot
    <2> QED
      BY <1>1, <1>3, <2>1, LiteralsKept
  <1>4. CASE TakeLiterals(i, n, 16, "fastmatch")
    <2>1. 16 <= n + Overshot
      BY <1>1 DEF Overshot
    <2> QED
      BY <1>1, <1>4, <2>1, LiteralsKept
  <1>5. CASE UNCHANGED <<mem, op>>
    BY <1>1, <1>5, KeptUnwritten
  <1> QED
    BY <1>3, <1>4, <1>5 DEF FastLiterals

LEMMA SafeLiteralsKept == ASSUME Inside, Inside', Kept, SafeLiterals PROVE Kept'
  <1> DEFINE n == seq'.lit
             i == ip + 1 + LitExtra(seq')
  <1>1. Token("safe") /\ job' = job /\ n \in Nat /\ i \in Int
    BY Tokens, Types DEF SafeLiterals, Token, Inside
  <1>2. CASE TakeLiterals(i, n, 16, "shortcut")
    <2>1. 16 <= n + Overshot
      BY <1>1 DEF Overshot
    <2> QED
      BY <1>1, <1>2, <2>1, LiteralsKept
  <1>3. CASE UNCHANGED <<mem, op>>
    BY <1>1, <1>3, KeptUnwritten
  <1> QED
    BY <1>2, <1>3 DEF SafeLiterals

LEMMA CopyLiteralsKept == ASSUME Inside, Inside', Kept, CopyLiterals PROVE Kept'
  <1> DEFINE n == CutShort(seq.lit)
             w == Wild(seq.lit, 8)
             l == IF op + n = oend \/ ip + n >= iend - 2 THEN "end" ELSE "offset"
  <1>1. job' = job /\ ip \in Int /\ seq.lit \in Nat /\ pc # "error"
    BY Types DEF CopyLiterals, Rest, Inside
  <1>2. n \in Nat
    BY <1>1, Types DEF CutShort, Min2, Inside, TypeOK
  <1>3. w \in Int /\ w <= seq.lit + Overshot
    BY <1>1, WildEight DEF Overshot
  <1>4. n <= n + Overshot /\ seq.lit <= seq.lit + Overshot
    BY <1>1, <1>2 DEF Overshot
  <1>5. \/ TakeLiterals(ip, seq.lit, w, "offset")
        \/ UNCHANGED <<mem, op>>
        \/ TakeLiterals(ip, seq.lit, seq.lit, "end")
        \/ TakeLiterals(ip, n, n, l)
    BY DEF CopyLiterals, Fail
  <1> HIDE DEF n, w, l
  <1> QED
    BY <1>1, <1>2, <1>3, <1>4, <1>5, LiteralsKept, KeptUnwritten

LEMMA EighteenKept ==
  ASSUME Inside, Inside', Kept, job' = job, NEW i, NEW l, Eighteen(i, l)
  PROVE  Kept'
  <1> DEFINE m == Move(mem, op, match, 18, 8)
  <1>1. op \in Int /\ seq.ml \in Nat /\ seq.ml >= 4
    BY Types DEF Inside
  <1>2. Leaves(m, op + 18)
    BY <1>1, MemoryOfInts, MoveLeaves DEF Leaves
  <1>3. op + 18 \in Int /\ op + 18 <= op + seq.ml + Overshot
    BY <1>1 DEF Overshot
  <1>4. TakeMatch(i, m, seq.ml, op + 18, match, l)
    BY DEF Eighteen
  <1> HIDE DEF m
  <1> QED
    BY <1>1, <1>2, <1>3, <1>4, MatchKept

LEMMA DictKept ==
  ASSUME Inside, Inside', Kept, job' = job, ~Outside, InDict,
         NEW i, NEW l, DictMatch(i, l)
  PROVE  Kept'
  <1> DEFINE len == IF Near THEN Min2(seq.ml, oend - op) ELSE seq.ml
             inDict == Min2(len, Back)
             m == Move(mem, op, dictEnd - Back, inDict, inDict)
             d == op + len
  <1>1. CASE UNCHANGED <<mem, op>>
    BY <1>1, KeptUnwritten
  <1>2. CASE /\ mem' = Move(m, op + inDict, job.lowPrefix, len - inDict, 1)
             /\ op' = op + len
    <2>1. len \in Nat /\ d \in Int /\ d <= oend /\ op \in Int
      BY Types DEF Near, Min2, Inside
    <2>2. inDict \in Nat /\ inDict <= len
      <3>1. Back \in Nat
        BY InBuffers DEF Inside
      <3> HIDE DEF len
      <3> QED
        BY <2>1, <3>1 DEF Min2
    <2>3. Leaves(mem', d)
      <3> DEFINE e == op + inDict
                 r == len - inDict
      <3>1. /\ e \in Int /\ r \in Int /\ e >= op /\ e + r = d /\ op + inDict <= d
            /\ inDict \in Int
        <4> HIDE DEF len, inDict
        <4> QED
          BY <2>1, <2>2
      <3> SUFFICES ASSUME NEW x \in DOMAIN mem, x < op \/ x >= d
                   PROVE  mem'[x] = mem[x]
        BY DEF Leaves
      <3>2. x \in Int /\ (x < op \/ x >= op + inDict) /\ (x < e \/ x >= e + r)
        <4>1. x \in Int
          BY MemoryOfInts
        <4> HIDE DEF len, inDict, d, e, r
        <4>2. x >= d => x >= e + r
          BY <3>1
        <4>3. x >= d => x >= op + inDict
          BY <2>1, <3>1, <4>1
        <4>4. x < op => x < e
          BY <2>1, <3>1, <4>1
        <4> QED
          BY <4>1, <4>2, <4>3, <4>4
      <3>3. m[x] = mem[x] /\ DOMAIN m = DOMAIN mem
        <4> HIDE DEF len, inDict
        <4> QED
          BY <2>1, <3>1, <3>2, MoveLeaves, Domains
      <3>4. mem' = Move(m, e, job.lowPrefix, r, 1)
        BY <1>2
      <3> HIDE DEF m, e, r
      <3> QED
        BY <3>1, <3>2, <3>3, <3>4, MoveLeaves
    <2>4. op <= op' /\ d <= op' + Overshot
      <3> HIDE DEF len
      <3> QED
        BY <1>2, <2>1 DEF Overshot
    <2> HIDE DEF d, len
    <2> QED
      BY <2>1, <2>3, <2>4, StillKept
  <1> QED
    BY <1>1, <1>2 DEF DictMatch, MatchFails, Fail

(* How far the strides of a match overshoot. *)
LEMMA StrideOvershoots ==
  ASSUME NEW n \in Nat, n >= 4
  PROVE  /\ Wild(n - 8, 8) \in Int /\ 8 + Wild(n - 8, 8) <= n + 31
         /\ Wild(n, 32) \in Int /\ Wild(n, 32) <= n + 31
  <1>1. n - 8 \in Int /\ n \in Int
    OBVIOUS
  <1>2. /\ Wild(n - 8, 8) \in Int
        /\ n - 8 <= 8 => Wild(n - 8, 8) = 8
        /\ n - 8 > 8 => Wild(n - 8, 8) <= n - 8 + 7
    BY <1>1, WildEight
  <1>3. /\ Wild(n, 32) \in Int
        /\ n <= 32 => Wild(n, 32) = 32
        /\ n > 32 => Wild(n, 32) <= n + 31
    BY <1>1, WildThirtyTwo
  <1>4. 8 + Wild(n - 8, 8) <= n + 31
    BY <1>1, <1>2
  <1>5. Wild(n, 32) <= n + 31
    BY <1>1, <1>3
  <1> QED
    BY <1>2, <1>3, <1>4, <1>5

LEMMA FastMatchKept == ASSUME Inside, Inside', Kept, FastMatch PROVE Kept'
  <1> DEFINE i == ip + 2 + MLExtra(seq)
             mUsing == UsingOffset(mem, op, match, seq.ml, seq.offset)
             dUsing == op + 8 + Wild(seq.ml - 8, 8)
             mMove == Move(mem, op, match, Wild(seq.ml, 32), 16)
             dMove == op + Wild(seq.ml, 32)
  <1>1. job' = job /\ op \in Int /\ seq.ml \in Nat /\ seq.ml >= 4
    BY Types DEF FastMatch, Rest, Inside
  <1>2. /\ Wild(seq.ml - 8, 8) \in Int /\ 8 + Wild(seq.ml - 8, 8) <= seq.ml + 31
        /\ Wild(seq.ml, 32) \in Int /\ Wild(seq.ml, 32) <= seq.ml + 31
    BY <1>1, StrideOvershoots
  <1>3. Leaves(mUsing, dUsing)
    <2> SUFFICES ASSUME NEW x \in DOMAIN mem, x < op \/ x >= dUsing
                 PROVE  mUsing[x] = mem[x]
      BY DEF Leaves
    <2> QED
      BY <1>1, MemoryOfInts, UsingOffsetLeaves
  <1>4. Leaves(mMove, dMove)
    BY <1>1, <1>2, MemoryOfInts, MoveLeaves DEF Leaves
  <1>5. /\ dUsing \in Int /\ dUsing <= op + seq.ml + Overshot
        /\ dMove \in Int /\ dMove <= op + seq.ml + Overshot
    BY <1>1, <1>2 DEF Overshot
  <1>6. \/ UNCHANGED <<mem, op>>
        \/ Eighteen(i, "fast")
        \/ ~Outside /\ InDict /\ DictMatch(i, "fast")
        \/ TakeMatch(i, mUsing, seq.ml, dUsing, match, "fast")
        \/ TakeMatch(i, mMove, seq.ml, dMove, match, "fast")
    BY DEF FastMatch, MatchFails, Fail
  <1> HIDE DEF i, mUsing, dUsing, mMove, dMove
  <1> QED
    BY <1>1, <1>3, <1>4, <1>5, <1>6, KeptUnwritten, EighteenKept, DictKept, MatchKept

LEMMA SafeCopyKept ==
  ASSUME Inside, Inside', Kept, job' = job, NEW eight, NEW s,
         DOMAIN eight = DOMAIN mem, Leaves(eight, op + 8), SafeCopy(eight, s)
  PROVE  Kept'
  <1> DEFINE cpy == op + seq.ml
             limit == Max2(op + 8, oend - (WildCopyLength - 1))
             strides == IF op + 8 < limit THEN Wild(limit - (op + 8), 8) ELSE 0
             tail == Max2(0, cpy - limit)
             beyond == IF seq.ml > 16 THEN Wild(seq.ml - 16, 8) ELSE 0
             m == Move(eight, op + 8, s, strides, 8)
             mTail == Move(m, limit, s + (limit - (op + 8)), tail, 1)
             d == Max2(op + 8 + strides, limit + tail)
             rest == 8 + beyond
             mAll == Move(eight, op + 8, s, rest, 8)
             dAll == op + 16 + beyond
  <1>1. op \in Int /\ oend \in Int /\ seq.ml \in Nat /\ seq.ml >= 4 /\ op + 8 \in Int
    BY Types DEF Inside
  <1>2. CASE UNCHANGED <<mem, op>>
    BY <1>2, KeptUnwritten
  <1>3. CASE /\ cpy > oend - MatchSafeguard
             /\ TakeMatch(ip, mTail, seq.ml, d, match, "safe")
    <2>1. limit \in Int /\ limit >= op + 8 /\ tail \in Int /\ tail >= 0
      BY <1>1 DEF Max2
    <2>2. strides \in Int /\ strides >= 0
      <3>1. limit - (op + 8) \in Int
        BY <1>1, <2>1
      <3> HIDE DEF limit
      <3> QED
        BY <3>1, WildEight
    <2>3. d \in Int /\ d >= op + 8 + strides /\ d >= limit + tail
      <3> HIDE DEF limit, tail, strides
      <3> QED
        BY <1>1, <2>1, <2>2 DEF Max2
    <2>4. Leaves(mTail, d)
      <3> DEFINE from == s + (limit - (op + 8))
                 o8 == op + 8
      <3> SUFFICES ASSUME NEW x \in DOMAIN mem, x < op \/ x >= d
                   PROVE  mTail[x] = mem[x]
        BY DEF Leaves
      <3>1. x \in Int
        BY MemoryOfInts
      <3>2. /\ x < op \/ x >= op + 8
            /\ x < o8 \/ x >= o8 + strides
            /\ x < limit \/ x >= limit + tail
        <4> HIDE DEF limit, tail, strides, d
        <4> QED
          BY <1>1, <2>1, <2>2, <2>3, <3>1
      <3>3. o8 \in Int
        BY <1>1
      <3>4. m = Move(eight, o8, s, strides, 8) /\ mTail = Move(m, limit, from, tail, 1)
        OBVIOUS
      <3> HIDE DEF limit, tail, strides, from, m, mTail, d, o8
      <3>5. eight[x] = mem[x]
        BY <3>2 DEF Leaves
      <3>6. m[x] = eight[x] /\ DOMAIN m = DOMAIN eight
        BY <2>2, <3>1, <3>2, <3>3, <3>4, MoveLeaves, Domains
      <3> QED
        BY <2>1, <3>1, <3>2, <3>4, <3>5, <3>6, MoveLeaves
    <2>5. TakeMatch(ip, mTail, seq.ml, d, match, "safe")
      BY <1>3
    <2>6. d <= op + seq.ml + Overshot
      <3>1. ~(d > oend)
        <4> HIDE DEF d, mTail
        <4> QED
          BY <2>5, WithinOutput DEF TakeMatch
      <3>2. op + seq.ml > oend - 12
        BY <1>3 DEF MatchSafeguard
      <3> HIDE DEF d
      <3> QED
        BY <1>1, <2>3, <3>1, <3>2 DEF Overshot
    <2> HIDE DEF d, mTail
    <2> QED
      BY <1>1, <2>3, <2>4, <2>5, <2>6, MatchKept
  <1>4. CASE TakeMatch(ip, mAll, seq.ml, dAll, match, "safe")
    <2>1. beyond \in Int /\ beyond >= 0 /\ 16 + beyond <= seq.ml + 31
      BY <1>1, WildEight
    <2>2. /\ dAll \in Int /\ dAll = op + 8 + rest /\ rest \in Int
          /\ dAll <= op + seq.ml + Overshot /\ rest >= 8
      <3> HIDE DEF beyond
      <3> QED
        BY <1>1, <2>1 DEF Overshot
    <2>3. Leaves(mAll, dAll)
      <3> DEFINE o8 == op + 8
      <3> SUFFICES ASSUME NEW x \in DOMAIN mem, x < op \/ x >= dAll
                   PROVE  mAll[x] = mem[x]
        BY DEF Leaves
      <3>1. x \in Int
        BY MemoryOfInts
      <3>2. (x < op \/ x >= op + 8) /\ (x < o8 \/ x >= o8 + rest) /\ o8 \in Int
        <4> HIDE DEF rest, dAll
        <4> QED
          BY <1>1, <2>2, <3>1
      <3>3. mAll = Move(eight, o8, s, rest, 8)
        OBVIOUS
      <3> HIDE DEF rest, mAll, dAll, o8
      <3>4. eight[x] = mem[x]
        BY <3>2 DEF Leaves
      <3> QED
        BY <2>2, <3>1, <3>2, <3>3, <3>4, MoveLeaves
    <2> HIDE DEF dAll, mAll
    <2> QED
      BY <1>1, <1>4, <2>2, <2>3, MatchKept
  <1> QED
    BY <1>2, <1>3, <1>4 DEF SafeCopy, Fail

LEMMA SafeMatchKept == ASSUME Inside, Inside', Kept, SafeMatch PROVE Kept'
  <1> DEFINE len == Min2(seq.ml, oend - op)
             mPart == Move(mem, op, match, len, 1)
             d == op + len
             l == IF op + len = oend THEN "end" ELSE "safe"
             eight == IF seq.offset < 8 THEN FirstEight(mem, op, match, seq.offset)
                                        ELSE Move(mem, op, match, 8, 8)
  <1>1. job' = job /\ op \in Int /\ seq.ml \in Nat
    BY Types DEF SafeMatch, Rest, Inside
  <1>2. len \in Nat /\ d \in Int
    BY Types DEF Min2, Inside
  <1>3. Leaves(mPart, d)
    <2> HIDE DEF len
    <2> QED
      BY <1>1, <1>2, MemoryOfInts, MoveLeaves DEF Leaves
  <1>4. d <= op + len + Overshot
    <2> HIDE DEF len
    <2> QED
      BY <1>1, <1>2 DEF Overshot
  <1>5. Leaves(eight, op + 8) /\ DOMAIN eight = DOMAIN mem
    <2>1. ASSUME NEW x \in DOMAIN mem, x < op \/ x >= op + 8
          PROVE  eight[x] = mem[x]
      BY <1>1, <2>1, MemoryOfInts, FirstEightLeaves, MoveLeaves
    <2> QED
      BY <2>1, Domains, DomainsUsing DEF Leaves
  <1>6. \/ UNCHANGED <<mem, op>>
        \/ ~Outside /\ InDict /\ DictMatch(ip, "safe")
        \/ TakeMatch(ip, mPart, len, d, match, l)
        \/ SafeCopy(eight, Advanced(match, seq.offset))
    BY DEF SafeMatch, MatchFails, Fail, PartialCopy
  <1> HIDE DEF len, mPart, d, l, eight
  <1> QED
    BY <1>1, <1>2, <1>3, <1>4, <1>5, <1>6, KeptUnwritten, DictKept, MatchKept, SafeCopyKept

LEMMA InitKept == Init => Kept
  BY DEF Init, Kept

LEMMA NextKept == Inside /\ Inside' /\ Kept /\ [Next]_vars => Kept'
  <1> SUFFICES ASSUME Inside, Inside', Kept, [Next]_vars PROVE Kept'
    OBVIOUS
  <1>1. CASE UNCHANGED vars
    BY <1>1, KeptUnwritten DEF vars
  <1>2. ShortcutMatch => Kept'
    BY EighteenKept DEF ShortcutMatch, Rest
  <1>3. MatchLength => Kept'
    BY KeptUnwritten DEF MatchLength, MatchFails, Fail, Rest
  <1> QED
    BY <1>1, <1>2, <1>3, BeginKept, LiteralsFailKept, FastLiteralsKept, FastMatchKept,
       SafeLiteralsKept, CopyLiteralsKept, SafeMatchKept DEF Next

(* What a match refers to in the dictionary is as it was before the call   *)
(* unless a copy can have reached it.                                      *)
LEMMA IntactWhileKept ==
  ASSUME Inside, Kept
  PROVE  DictionaryIntact
  <1> SUFFICES ASSUME InDict,
                      NEW a \in match .. job.lowPrefix - 1,
                      a - match < seq.ml, job.lowPrefix - a <= job.dictSize, Clear(a)
               PROVE  mem[dictEnd - (job.lowPrefix - a)] = a - job.dst
    BY DEF DictionaryIntact, MatchesDict, Needed, Intact
  <1>1. /\ job \in Jobs /\ job.dict = "usingExtDict" /\ job.floor = job.lowPrefix
        /\ job.floor \in Int /\ job.dst \in Int /\ job.lowPrefix <= job.dst
        /\ job.dictStart \in Int /\ job.dictSize \in Nat /\ job.cap \in Nat
    BY JobAssumption, Types DEF InDict, Inside, TypeOK
  <1>2. a \in Int /\ a < job.lowPrefix /\ match <= a /\ op \in Int /\ match = op - seq.offset
    BY <1>1, Types DEF Inside
  <1> DEFINE x == job.dictStart + job.dictSize - (job.lowPrefix - a)
  <1>3. /\ x \in job.dictStart .. job.dictStart + job.dictSize - 1
        /\ x \in Int /\ job.dictSize > 0 /\ dictEnd - (job.lowPrefix - a) = x
    BY <1>1, <1>2 DEF dictEnd
  <1>4. x \in DOMAIN mem
    <2> DEFINE lo == Min2(job.floor, job.dictStart)
               hi == Max2(job.dst + job.cap, job.dictStart + job.dictSize)
    <2>1. DOMAIN mem = lo .. hi - 1
      BY DEF Inside, TypeOK, Addresses
    <2>2. /\ lo \in Int /\ lo <= job.dictStart
          /\ hi \in Int /\ hi >= job.dictStart + job.dictSize
      BY <1>1 DEF Min2, Max2
    <2> HIDE DEF x, lo, hi
    <2>3. x \in Int /\ lo <= x /\ x <= hi - 1
      BY <1>1, <1>3, <2>2
    <2> QED
      BY <2>1, <2>3
  <1>5. /\ x < job.dst \/ x >= op + Overshot \/ x >= oend
        /\ x < job.floor \/ x >= job.dst
    <2>1. \/ job.dictStart + job.dictSize <= job.lowPrefix
          \/ job.dictStart >= oend
          \/ x >= op + 31
      BY <1>3 DEF Clear, dictEnd, Overshot
    <2>2. oend = job.dst + job.cap /\ oend \in Int /\ job.dst <= op /\ job.dst <= oend
      BY <1>1, Types DEF Inside
    <2> QED
      BY <1>1, <1>2, <1>3, <2>1, <2>2 DEF Overshot
  <1>6. mem[x] = Holds(job, x)
    BY <1>4, <1>5 DEF Kept
  <1>7. Holds(job, x) = x - (job.dictStart + job.dictSize) - (job.dst - job.floor)
    <2> HIDE DEF x
    <2>1. x \notin job.floor .. job.dst - 1
      BY <1>1, <1>3, <1>5
    <2> QED
      BY <1>3, <2>1 DEF Holds
  <1> QED
    BY <1>1, <1>2, <1>3, <1>6, <1>7

(* A dictionary apart from the output, or so far ahead of it that its last *)
(* Window bytes begin behind every overshoot, has all of the window.       *)
LEMMA AllClear ==
  ASSUME Inside, DictionariesApart, DictionaryIntact
  PROVE  WindowIntact
  <1> SUFFICES ASSUME MatchesDict,
                      NEW a \in match .. job.lowPrefix - 1, Needed(a)
               PROVE  Clear(a)
    BY DEF DictionaryIntact, WindowIntact
  <1>1. /\ job \in Jobs /\ job.dict = "usingExtDict"
        /\ job.dst \in Int /\ job.lowPrefix \in Int /\ job.lowPrefix <= job.dst
        /\ job.dictStart \in Int /\ job.dictSize \in Nat /\ job.cap \in Nat
    BY JobAssumption, Types DEF MatchesDict, InDict, Inside, TypeOK
  <1>2. a \in Int /\ match <= a /\ op \in Int /\ match = op - seq.offset
    BY <1>1, Types DEF Inside
  <1>3. \/ dictEnd <= job.lowPrefix
        \/ job.dictStart >= oend
        \/ dictEnd - job.lowPrefix >= Window + 30
    BY <1>1 DEF DictionariesApart, Overshot, dictEnd, oend
  <1>4. /\ seq.offset < Window /\ seq.offset \in Nat /\ Window \in Nat /\ dictEnd \in Int
    BY <1>1, Types DEF Inside, dictEnd
  <1>5. CASE dictEnd - job.lowPrefix >= Window + 30
    <2>1. dictEnd - (job.lowPrefix - a) >= op + 31
      BY <1>1, <1>2, <1>4, <1>5
    <2> QED
      BY <2>1 DEF Clear, Overshot
  <1> QED
    BY <1>3, <1>5 DEF Clear

(* What a copy cannot have reached is still there: whenever a match is     *)
(* about to be copied from a dictionary (LZ4_decompress_generic), each     *)
(* byte of it holds what it held before the call if it is apart from the   *)
(* output or at least 31 bytes ahead of the position, for any input, any   *)
(* sizes and window, and rings of any size.                                *)
THEOREM DictionariesIntact == Spec => []DictionaryIntact
  <1>1. Init => Inside /\ Kept
    BY InitInside, InitKept
  <1>2. (Inside /\ Kept) /\ [Next]_vars => (Inside /\ Kept)'
    BY NextInside, NextKept
  <1>3. Inside /\ Kept => DictionaryIntact
    BY IntactWhileKept
  <1> QED
    BY <1>1, <1>2, <1>3, PTL DEF Spec

-----------------------------------------------------------------------------
(* What the copies write.  A copy in strides reads what the strides before *)
(* it wrote, and so, if it reads at least a stride behind, repeats what it *)
(* follows.                                                                *)

(* The byte that a copy puts at i, when f is what it puts below i. *)
Source(m, a) == IF a \in DOMAIN m THEN m[a] ELSE Junk
Stride(f, m, d, s, c, i) ==
  IF s + i \in d .. d + c * (i \div c) - 1 THEN f[s + i - d] ELSE Source(m, s + i)

Bytes(f, m, d, s, n, c) == f = [i \in 0 .. n - 1 |-> Stride(f, m, d, s, c, i)]
Puts(M, f, m, d, n) ==
  M = [a \in DOMAIN m |-> IF a \in d .. d + n - 1 THEN f[a - d] ELSE m[a]]
Covers(m, a, b) == \A x \in a .. b : x \in DOMAIN m
Repeats(M, d, D, n) == \A i \in 0 .. n - 1 : M[d + i] = M[d + i - D]

LEMMA MoveIs ==
  ASSUME NEW m, NEW d, NEW s, NEW n, NEW c, NEW g, Bytes(g, m, d, s, n, c)
  PROVE  \E f : Bytes(f, m, d, s, n, c) /\ Puts(Move(m, d, s, n, c), f, m, d, n)
  <1> DEFINE byte == CHOOSE f : f = [i \in 0 .. n - 1 |-> Stride(f, m, d, s, c, i)]
  <1>1. byte = [i \in 0 .. n - 1 |-> Stride(byte, m, d, s, c, i)]
    BY DEF Bytes
  <1>2. Move(m, d, s, n, c) =
          [a \in DOMAIN m |-> IF a \in d .. d + n - 1 THEN byte[a - d] ELSE m[a]]
    BY DEF Move, Stride, Source
  <1> HIDE DEF byte
  <1> QED
    BY <1>1, <1>2 DEF Bytes, Puts

LEMMA Strides ==
  ASSUME NEW c \in Nat, c > 0, NEW i \in Nat
  PROVE  /\ c * (i \div c) \in Nat /\ c * (i \div c) <= i /\ i < c * (i \div c) + c
         /\ i < c => c * (i \div c) = 0
  OBVIOUS

(* A single stride copies what was there before. *)
LEMMA MoveCopies ==
  ASSUME NEW m, NEW d \in Int, NEW s \in Int, NEW n \in Nat, n > 0,
         NEW i \in 0 .. n - 1, d + i \in DOMAIN m, s + i \in DOMAIN m
  PROVE  Move(m, d, s, n, n)[d + i] = m[s + i]
  <1> DEFINE g == [k \in 0 .. n - 1 |-> Source(m, s + k)]
  <1>1. ASSUME NEW f, NEW k \in 0 .. n - 1
        PROVE  Stride(f, m, d, s, n, k) = Source(m, s + k)
    <2>1. n * (k \div n) = 0
      BY Strides
    <2> QED
      BY <2>1 DEF Stride
  <1>2. Bytes(g, m, d, s, n, n)
    BY <1>1 DEF Bytes
  <1> HIDE DEF g
  <1>3. PICK f : Bytes(f, m, d, s, n, n) /\ Puts(Move(m, d, s, n, n), f, m, d, n)
    BY <1>2, MoveIs
  <1>4. f[i] = m[s + i]
    BY <1>1, <1>3 DEF Source, Bytes
  <1>5. d + i \in d .. d + n - 1 /\ (d + i) - d = i
    OBVIOUS
  <1> QED
    BY <1>3, <1>4, <1>5 DEF Puts

LEMMA RemainderIs ==
  ASSUME NEW D \in Nat, D > 0, NEW x \in Nat, NEW q \in Nat, NEW r \in Nat,
         r < D, x = D * q + r
  PROVE  x % D = r
  OBVIOUS
LEMMA RemainderOf ==
  ASSUME NEW D \in Nat, D > 0, NEW x \in Nat
  PROVE  /\ x % D \in Nat /\ x % D < D
         /\ \E q \in Nat : x = D * q + (x % D)
  OBVIOUS
LEMMA NoTurn ==
  ASSUME NEW D \in Nat, D > 0, NEW x \in Nat, x < D
  PROVE  x % D = x
  <1>1. PICK q \in Nat : q = 0
    OBVIOUS
  <1>2. x = D * q + x
    BY <1>1
  <1> QED
    BY <1>2, RemainderIs
LEMMA Turn ==
  ASSUME NEW D \in Nat, D > 0, NEW x \in Nat
  PROVE  (x + D) % D = x % D
  <1>1. PICK q \in Nat : x = D * q + (x % D)
    BY RemainderOf
  <1>2. PICK r \in Nat : r = x % D
    BY RemainderOf
  <1>3. PICK p \in Nat : p = q + 1
    OBVIOUS
  <1>4. PICK y \in Nat : y = x + D
    OBVIOUS
  <1>5. r < D /\ y = D * p + r
    BY <1>1, <1>2, <1>3, <1>4, RemainderOf
  <1>6. y % D = r
    BY <1>5, RemainderIs
  <1> QED
    BY <1>2, <1>4, <1>6

LEMMA MoveRepeats ==
  ASSUME NEW m, NEW d \in Int, NEW D \in Nat, NEW n \in Nat, NEW c \in Nat, c > 0, c <= D,
         NEW s \in Int, s = d - D, Covers(m, s, d + n - 1)
  PROVE  Repeats(Move(m, d, s, n, c), d, D, n)
  <1> SUFFICES ASSUME NEW i \in 0 .. n - 1
               PROVE  Move(m, d, s, n, c)[d + i] = Move(m, d, s, n, c)[d + i - D]
    BY DEF Repeats
  <1> DEFINE g == [k \in 0 .. n - 1 |-> m[s + (k % D)]]
             M == Move(m, d, s, n, c)
  <1>1. ASSUME NEW f, NEW k \in 0 .. n - 1
        PROVE  Stride(f, m, d, s, c, k) = IF k < D THEN m[s + k] ELSE f[k - D]
    <2> DEFINE w == c * (k \div c)
    <2>1. w \in Nat /\ w <= k /\ k < w + c
      BY Strides
    <2>2. Stride(f, m, d, s, c, k) =
            IF s + k \in d .. d + w - 1 THEN f[s + k - d] ELSE Source(m, s + k)
      BY DEF Stride
    <2> HIDE DEF w
    <2>3. CASE k < D
      <3>1. s + k \notin d .. d + w - 1 /\ s + k \in s .. d + n - 1
        BY <2>1, <2>3
      <3> QED
        BY <2>2, <2>3, <3>1 DEF Source, Covers
    <2>4. CASE ~(k < D)
      <3>1. s + k \in d .. d + w - 1 /\ s + k - d = k - D
        BY <2>1, <2>4
      <3> QED
        BY <2>2, <2>4, <3>1
    <2> QED
      BY <2>3, <2>4
  <1>2. ASSUME NEW k \in 0 .. n - 1
        PROVE  Stride(g, m, d, s, c, k) = m[s + (k % D)]
    <2>1. CASE k < D
      <3>1. k % D = k
        BY <2>1, NoTurn
      <3> HIDE DEF g
      <3> QED
        BY <1>1, <2>1, <3>1
    <2>2. CASE ~(k < D)
      <3>1. PICK j \in 0 .. n - 1 : j = k - D
        BY <2>2
      <3>2. (j + D) % D = j % D /\ j + D = k
        <4>1. j \in Nat /\ D > 0 /\ j + D = k
          BY <3>1
        <4> QED
          BY <4>1, Turn
      <3>3. g[k - D] = m[s + (j % D)]
        BY <3>1
      <3> HIDE DEF g
      <3>4. Stride(g, m, d, s, c, k) = g[k - D]
        BY <1>1, <2>2
      <3> QED
        BY <3>2, <3>3, <3>4
    <2> QED
      BY <2>1, <2>2
  <1>3. Bytes(g, m, d, s, n, c)
    BY <1>2 DEF Bytes
  <1> HIDE DEF g
  <1>4. PICK f : Bytes(f, m, d, s, n, c) /\ Puts(M, f, m, d, n)
    BY <1>3, MoveIs
  <1>5. f[i] = IF i < D THEN m[s + i] ELSE f[i - D]
    BY <1>1, <1>4 DEF Bytes
  <1> HIDE DEF M
  <1>6. d + i \in DOMAIN m /\ d + i - D \in DOMAIN m /\ d + i - D = s + i
    BY DEF Covers
  <1>7. M[d + i] = f[i]
    BY <1>4, <1>6 DEF Puts
  <1>8. CASE i < D
    <2>1. d + i - D \notin d .. d + n - 1
      BY <1>8
    <2> QED
      BY <1>4, <1>5, <1>6, <1>7, <1>8, <2>1 DEF M, Puts
  <1>9. CASE ~(i < D)
    <2>1. d + i - D \in d .. d + n - 1 /\ (d + i - D) - d = i - D
      BY <1>9
    <2> QED
      BY <1>4, <1>5, <1>6, <1>7, <1>9, <2>1 DEF M, Puts
  <1> QED
    BY <1>8, <1>9

(* The n bytes at d repeat those before them at a distance o. *)
Pattern(m, d, o, n) == \A i \in 0 .. n - 1 : m[d + i] = m[d - o + (i % o)]
Turns(D, o) == \A x \in Nat : (x + D) % o = x % o

(* A copy that reads whole turns behind goes on with the pattern. *)
LEMMA PatternGrows ==
  ASSUME NEW m, NEW d \in Int, NEW o \in Nat, o > 0, NEW N \in Nat, Pattern(m, d, o, N),
         NEW D \in Nat, Turns(D, o), D <= N + o, NEW w \in Nat,
         NEW c \in Nat, c > 0, c <= D, NEW e \in Int, e = d + N, NEW s \in Int, s = e - D,
         Covers(m, d - o, e + w - 1)
  PROVE  Pattern(Move(m, e, s, w, c), d, o, N + w)
  <1> DEFINE M == Move(m, e, s, w, c)
             T == {i \in 0 .. N + w - 1 : M[d + i] # M[d - o + (i % o)]}
  <1>1. ASSUME NEW x \in DOMAIN m, x \in Int, x < e
        PROVE  M[x] = m[x]
    BY <1>1, MoveLeaves
  <1>2. Repeats(M, e, D, w)
    <2>1. Covers(m, s, e + w - 1)
      <3> SUFFICES ASSUME NEW x \in s .. e + w - 1 PROVE x \in DOMAIN m
        BY DEF Covers
      <3>1. x \in d - o .. e + w - 1
        OBVIOUS
      <3> QED
        BY <3>1 DEF Covers
    <2> QED
      BY <2>1, MoveRepeats
  <1> HIDE DEF M
  <1>3. ASSUME NEW i \in T, \A j \in T : i <= j
        PROVE  FALSE
    <2>1. i \in Nat /\ i <= N + w - 1 /\ M[d + i] # M[d - o + (i % o)]
      OBVIOUS
    <2>2. PICK r \in Nat : r = i % o /\ r < o
      BY <2>1, RemainderOf
    <2>3. CASE i < N
      <3>1. M[d + i] = m[d + i]
        <4>1. d + i \in d - o .. e + w - 1 /\ d + i < e
          BY <2>1, <2>3
        <4> QED
          BY <1>1, <4>1 DEF Covers
      <3>2. M[d - o + r] = m[d - o + r]
        <4>1. d - o + r \in d - o .. e + w - 1 /\ d - o + r < e
          BY <2>2
        <4> QED
          BY <1>1, <4>1 DEF Covers
      <3>3. m[d + i] = m[d - o + r]
        BY <2>1, <2>2, <2>3 DEF Pattern
      <3> QED
        BY <2>1, <2>2, <3>1, <3>2, <3>3
    <2>4. CASE i >= N
      <3>1. PICK k \in 0 .. w - 1 : k = i - N
        BY <2>1, <2>4
      <3>2. M[d + i] = M[d + i - D]
        <4>1. e + k = d + i /\ e + k - D = d + i - D
          BY <2>1, <3>1
        <4> QED
          BY <1>2, <3>1, <4>1 DEF Repeats
      <3>3. CASE i >= D
        <4>1. PICK j \in 0 .. N + w - 1 : j = i - D
          BY <2>1, <3>3
        <4>2. j < i /\ j \in Nat /\ d + i - D = d + j /\ j + D = i
          BY <2>1, <4>1
        <4>3. j \notin T
          <5>1. ~(i <= j)
            BY <2>1, <4>2
          <5> QED
            BY <1>3, <5>1
        <4>4. M[d + j] = M[d - o + (j % o)]
          BY <4>1, <4>3
        <4>5. (j + D) % o = j % o
          BY <4>2 DEF Turns
        <4> QED
          BY <2>1, <3>2, <4>2, <4>4, <4>5
      <3>4. CASE i < D
        <4>1. PICK j \in Nat : j = i - D + o
          BY <2>1, <2>4, <3>4
        <4>2. j < o /\ d + i - D = d - o + j /\ j + D = i + o
          BY <2>1, <3>4, <4>1
        <4>3. (j + D) % o = j % o /\ (i + o) % o = i % o
          BY <2>1, Turn DEF Turns
        <4>4. j % o = j
          BY <4>2, RemainderIs
        <4> QED
          BY <2>1, <3>2, <4>2, <4>3, <4>4
      <3> QED
        BY <2>1, <3>3, <3>4
    <2> QED
      BY <2>1, <2>3, <2>4
  <1>4. T = {}
    <2>1. T \subseteq Nat
      OBVIOUS
    <2> QED
      BY <1>3, <2>1, LeastNat, Zenon
  <1>5. ASSUME NEW i \in 0 .. N + w - 1 PROVE M[d + i] = M[d - o + (i % o)]
    BY <1>4
  <1>6. Pattern(M, d, o, N + w)
    BY <1>5 DEF Pattern
  <1> QED
    BY <1>6 DEF M

LEMMA PatternLess ==
  ASSUME NEW m, NEW d, NEW o, NEW n \in Int, NEW k \in Int, k <= n, Pattern(m, d, o, n)
  PROVE  Pattern(m, d, o, k)
  BY DEF Pattern
LEMMA PatternRepeats ==
  ASSUME NEW m, NEW d \in Int, NEW o \in Nat, o > 0, NEW n \in Nat, Pattern(m, d, o, n)
  PROVE  Repeats(m, d, o, n)
  <1> SUFFICES ASSUME NEW i \in 0 .. n - 1
               PROVE  m[d + i] = m[d + i - o]
    BY DEF Repeats
  <1>1. m[d + i] = m[d - o + (i % o)]
    BY DEF Pattern
  <1>2. CASE i < o
    <2>1. i % o = i /\ d - o + i = d + i - o
      BY <1>2, NoTurn
    <2> QED
      BY <1>1, <2>1
  <1>3. CASE i >= o
    <2>1. PICK j \in 0 .. n - 1 : j = i - o
      BY <1>3
    <2>2. j \in Nat /\ j + o = i /\ d + j = d + i - o
      BY <2>1
    <2>3. i % o = j % o
      BY <2>2, Turn
    <2>4. m[d + j] = m[d - o + (j % o)]
      BY <2>1 DEF Pattern
    <2> QED
      BY <1>1, <2>2, <2>3, <2>4
  <1> QED
    BY <1>2, <1>3

LEMMA CoversLess ==
  ASSUME NEW m, NEW a \in Int, NEW b \in Int, Covers(m, a, b), NEW e \in Int, e <= b
  PROVE  Covers(m, a, e)
  BY DEF Covers
LEMMA CoversSame ==
  ASSUME NEW m, NEW M, DOMAIN M = DOMAIN m, NEW a, NEW b, Covers(m, a, b)
  PROVE  Covers(M, a, b)
  BY DEF Covers

LEMMA OneTurn == ASSUME NEW o \in Nat, o > 0 PROVE Turns(o, o)
  BY Turn DEF Turns

(* A copy in strides no longer than the distance. *)
LEMMA MovePattern ==
  ASSUME NEW m, NEW d \in Int, NEW o \in Nat, NEW n \in Nat, NEW c \in Nat, c > 0, c <= o,
         NEW s \in Int, s = d - o, Covers(m, s, d + n - 1)
  PROVE  Pattern(Move(m, d, s, n, c), d, o, n)
  <1>1. PICK N \in Nat : N = 0
    OBVIOUS
  <1>2. Pattern(m, d, o, N)
    BY <1>1 DEF Pattern
  <1>3. Turns(o, o) /\ o > 0 /\ o <= N + o /\ d = d + N
    BY <1>1, OneTurn
  <1>4. Pattern(Move(m, d, s, n, c), d, o, N + n)
    BY <1>2, <1>3, PatternGrows
  <1> QED
    BY <1>1, <1>4

(* The table of offsets: the copies of a match closer than eight bytes     *)
(* read whole turns behind.                                                *)
LEMMA TurnsInTable ==
  ASSUME NEW o \in 1 .. 7
  PROVE  \E D, E \in Nat : /\ Turns(D, o) /\ D >= 4 /\ D <= 4 + o
                           /\ D = o + 4 - Inc32[o + 1]
                           /\ Turns(E, o) /\ E >= 8 /\ E <= 8 + o
                           /\ E = o + 8 - Inc32[o + 1] + Dec64[o + 1]
  <1>1. CASE o = 1
    <2>1. Turns(4, 1) /\ Turns(8, 1)
      BY DEF Turns
    <2> QED
      BY <1>1, <2>1 DEF Inc32, Dec64
  <1>2. CASE o = 2
    <2>1. Turns(4, 2) /\ Turns(8, 2)
      BY DEF Turns
    <2> QED
      BY <1>2, <2>1 DEF Inc32, Dec64
  <1>3. CASE o = 3
    <2>1. Turns(6, 3) /\ Turns(9, 3)
      BY DEF Turns
    <2> QED
      BY <1>3, <2>1 DEF Inc32, Dec64
  <1>4. CASE o = 4
    <2>1. Turns(8, 4)
      BY DEF Turns
    <2> QED
      BY <1>4, <2>1 DEF Inc32, Dec64
  <1>5. CASE o = 5
    <2>1. Turns(5, 5) /\ Turns(10, 5)
      BY DEF Turns
    <2> QED
      BY <1>5, <2>1 DEF Inc32, Dec64
  <1>6. CASE o = 6
    <2>1. Turns(6, 6) /\ Turns(12, 6)
      BY DEF Turns
    <2> QED
      BY <1>6, <2>1 DEF Inc32, Dec64
  <1>7. CASE o = 7
    <2>1. Turns(7, 7) /\ Turns(14, 7)
      BY DEF Turns
    <2> QED
      BY <1>7, <2>1 DEF Inc32, Dec64
  <1> QED
    BY <1>1, <1>2, <1>3, <1>4, <1>5, <1>6, <1>7

(* So does the copy that goes on behind the first eight bytes of any. *)
LEMMA AdvancedTurns ==
  ASSUME NEW o \in Nat, o > 0, NEW d \in Int, NEW s \in Int, s = d - o
  PROVE  \E D \in Nat : /\ Turns(D, o) /\ D >= 8 /\ D <= 8 + o
                        /\ Advanced(s, o) = d + 8 - D
  <1>1. CASE o < 8
    <2>1. o \in 1 .. 7
      BY <1>1
    <2>2. PICK E \in Nat : /\ Turns(E, o) /\ E >= 8 /\ E <= 8 + o
                           /\ E = o + 8 - Inc32[o + 1] + Dec64[o + 1]
      BY <2>1, TurnsInTable
    <2>3. Inc32[o + 1] \in Int /\ Dec64[o + 1] \in Int
      BY <2>1 DEF Inc32, Dec64
    <2>4. Advanced(s, o) = s + Inc32[o + 1] - Dec64[o + 1]
      BY <1>1 DEF Advanced
    <2>5. Advanced(s, o) = d + 8 - E
      BY <2>2, <2>3, <2>4
    <2> QED
      BY <2>2, <2>5
  <1>2. CASE o >= 8
    <2>1. Advanced(s, o) = d + 8 - o
      BY <1>2 DEF Advanced
    <2> QED
      BY <1>2, <2>1, OneTurn
  <1> QED
    BY <1>1, <1>2

LEMMA FirstEightPattern ==
  ASSUME NEW m, NEW d \in Int, NEW o \in 1 .. 7, NEW s \in Int, s = d - o,
         Covers(m, s, d + 7)
  PROVE  Pattern(FirstEight(m, d, s, o), d, o, 8)
  <1> DEFINE z == [a \in DOMAIN m |-> IF a \in d .. d + 3 THEN Zero ELSE m[a]]
             y == Move(z, d, s, 4, 1)
  <1>1. DOMAIN z = DOMAIN m
    OBVIOUS
  <1> HIDE DEF z
  <1>2. Covers(z, s, d + 7) /\ DOMAIN y = DOMAIN z
    BY <1>1, CoversSame, Domains
  <1>3. PICK n \in Nat : n = 4
    OBVIOUS
  <1>4. PICK c \in Nat : c = 1
    OBVIOUS
  <1>5. Covers(z, s, d + n - 1) /\ d + n - 1 \in Int
    <2>1. d + n - 1 \in Int /\ d + n - 1 <= d + 7
      BY <1>3
    <2> QED
      BY <1>2, <2>1, CoversLess
  <1>6. Pattern(Move(z, d, s, n, c), d, o, n)
    <2>1. c > 0 /\ c <= o /\ o \in Nat
      BY <1>4
    <2> QED
      BY <1>5, <2>1, MovePattern
  <1>7. Pattern(y, d, o, n)
    BY <1>3, <1>4, <1>6
  <1> HIDE DEF y
  <1>8. PICK D \in Nat : Turns(D, o) /\ D >= 4 /\ D <= 4 + o /\ D = o + 4 - Inc32[o + 1]
    BY TurnsInTable
  <1>9. PICK t \in Int : t = s + Inc32[o + 1]
    <2>1. Inc32[o + 1] \in Int
      BY DEF Inc32
    <2> QED
      BY <2>1
  <1>10. PICK e \in Int : e = d + 4
    OBVIOUS
  <1>11. t = e - D
    <2>1. Inc32[o + 1] \in Int
      BY DEF Inc32
    <2> QED
      BY <1>8, <1>9, <1>10, <2>1
  <1>12. Covers(y, d - o, e + n - 1)
    <2>1. e + n - 1 = d + 7
      BY <1>3, <1>10
    <2> QED
      BY <1>2, <2>1, CoversSame
  <1>13. Pattern(Move(y, e, t, n, n), d, o, n + n)
    <2>1. o \in Nat /\ o > 0 /\ D <= n + o /\ n > 0 /\ n <= D /\ e = d + n
      BY <1>3, <1>8, <1>10
    <2> QED
      BY <1>7, <1>8, <1>11, <1>12, <2>1, PatternGrows
  <1>14. FirstEight(m, d, s, o) = Move(y, e, t, n, n)
    BY <1>3, <1>9, <1>10 DEF FirstEight, y, z
  <1> QED
    BY <1>3, <1>13, <1>14

FirstBytes(m, d, s, o) == IF o < 8 THEN FirstEight(m, d, s, o) ELSE Move(m, d, s, 8, 8)
LEMMA FirstBytesPattern ==
  ASSUME NEW m, NEW d \in Int, NEW o \in Nat, o > 0, NEW s \in Int, s = d - o,
         Covers(m, s, d + 7)
  PROVE  Pattern(FirstBytes(m, d, s, o), d, o, 8)
  <1>1. CASE o < 8
    <2>1. o \in 1 .. 7
      BY <1>1
    <2> QED
      BY <1>1, <2>1, FirstEightPattern DEF FirstBytes
  <1>2. CASE o >= 8
    <2>1. PICK n \in Nat : n = 8
      OBVIOUS
    <2>2. Covers(m, s, d + n - 1) /\ n > 0 /\ n <= o
      BY <1>2, <2>1
    <2>3. Pattern(Move(m, d, s, n, n), d, o, n)
      BY <2>2, MovePattern
    <2> QED
      BY <1>2, <2>1, <2>3 DEF FirstBytes
  <1> QED
    BY <1>1, <1>2

(* The copy goes on behind N bytes, eight or more. *)
LEMMA GoesOn ==
  ASSUME NEW m, NEW d \in Int, NEW o \in Nat, o > 0, NEW N \in Nat, N >= 8,
         Pattern(m, d, o, N), NEW w \in Nat, NEW c \in {1, 8}, NEW e \in Int, e = d + N,
         NEW s \in Int, s = Advanced(d - o, o) + (N - 8), Covers(m, d - o, e + w - 1)
  PROVE  Pattern(Move(m, e, s, w, c), d, o, N + w)
  <1>1. d - o \in Int
    OBVIOUS
  <1>2. PICK D \in Nat : /\ Turns(D, o) /\ D >= 8 /\ D <= 8 + o
                         /\ Advanced(d - o, o) = d + 8 - D
    BY <1>1, AdvancedTurns
  <1>3. D <= N + o /\ c \in Nat /\ c > 0 /\ c <= D /\ s = e - D
    BY <1>2
  <1> QED
    BY <1>2, <1>3, PatternGrows

LEMMA UsingOffsetPattern ==
  ASSUME NEW m, NEW d \in Int, NEW o \in Nat, o > 0, NEW s \in Int, s = d - o,
         NEW n \in Nat, NEW w \in Int, w = Wild(n - 8, 8), Covers(m, s, d + 8 + w - 1)
  PROVE  Pattern(UsingOffset(m, d, s, n, o), d, o, n)
  <1>1. w >= n - 8 /\ w >= 8 /\ Wild(n, 8) \in Int /\ n <= Wild(n, 8)
    BY WildEight
  <1>2. CASE o \in {1, 2, 4}
    <2> DEFINE W == Wild(n, 8)
               M == [a \in DOMAIN m |-> IF a \in d .. d + W - 1 THEN m[s + ((a - d) % o)]
                                                                ELSE m[a]]
    <2>1. UsingOffset(m, d, s, n, o) = M
      BY <1>2 DEF UsingOffset
    <2> HIDE DEF W
    <2>2. ASSUME NEW i \in 0 .. n - 1 PROVE M[d + i] = M[d - o + (i % o)]
      <3>1. PICK r \in Nat : r = i % o /\ r < o
        BY RemainderOf
      <3>2. d + i \in s .. d + 8 + w - 1 /\ s + r \in s .. d + 8 + w - 1
        BY <1>1, <3>1
      <3>3. d + i \in DOMAIN m /\ s + r \in DOMAIN m
        BY <3>2 DEF Covers
      <3>4. d + i \in d .. d + W - 1 /\ (d + i) - d = i /\ s + r \notin d .. d + W - 1
        BY <1>1, <3>1 DEF W
      <3>5. M[d + i] = m[s + r]
        BY <3>1, <3>3, <3>4
      <3>6. M[s + r] = m[s + r]
        BY <3>3, <3>4
      <3> HIDE DEF M
      <3> QED
        BY <3>1, <3>5, <3>6
    <2> HIDE DEF M
    <2> QED
      BY <2>1, <2>2 DEF Pattern
  <1>3. CASE o \notin {1, 2, 4}
    <2> DEFINE m8 == FirstBytes(m, d, s, o)
               e == d + 8
    <2>1. DOMAIN m8 = DOMAIN m
      BY Domains, DomainsUsing DEF FirstBytes
    <2>2. Covers(m, s, d + 7)
      <3>1. d + 7 <= d + 8 + w - 1 /\ d + 8 + w - 1 \in Int
        BY <1>1
      <3> QED
        BY <3>1, CoversLess
    <2>3. Pattern(m8, d, o, 8)
      BY <2>2, FirstBytesPattern
    <2>4. PICK N \in Nat : N = 8
      OBVIOUS
    <2>5. Covers(m8, d - o, e + w - 1)
      BY <2>1, CoversSame
    <2>6. PICK D \in Nat : Advanced(s, o) = d + 8 - D
      BY AdvancedTurns
    <2>7. PICK t \in Int : t = Advanced(s, o)
      BY <2>6
    <2> HIDE DEF m8
    <2>8. e \in Int /\ e = d + N /\ t = Advanced(d - o, o) + (N - 8) /\ N >= 8 /\ w \in Nat
      <3>1. Advanced(s, o) \in Int
        BY <2>6
      <3> QED
        BY <1>1, <2>4, <2>7, <3>1
    <2> HIDE DEF e
    <2>9. Pattern(Move(m8, e, t, w, 8), d, o, N + w)
      BY <2>3, <2>4, <2>5, <2>8, GoesOn
    <2>10. UsingOffset(m, d, s, n, o) = Move(m8, e, t, w, 8)
      BY <1>3, <2>7 DEF UsingOffset, FirstBytes, m8, e
    <2>11. N + w \in Int /\ n <= N + w
      BY <1>1, <2>4
    <2> QED
      BY <2>9, <2>10, <2>11, PatternLess
  <1> QED
    BY <1>2, <1>3

-----------------------------------------------------------------------------
(* The text as the format has it.                                          *)

TextOf(j, m, o) ==
  [k \in 1 .. (j.dictSize + j.dst - j.floor) + o - j.dst |->
     IF k <= j.dictSize + j.dst - j.floor THEN k - (j.dictSize + j.dst - j.floor) - 1
     ELSE m[j.dst + k - (j.dictSize + j.dst - j.floor) - 1]]

LEMMA LengthOf ==
  ASSUME NEW n \in Nat, NEW f, f = [k \in 1 .. n |-> f[k]]
  PROVE  Len(f) = n /\ f \in Seq({f[k] : k \in 1 .. n})
  <1>1. f \in [1 .. n -> {f[k] : k \in 1 .. n}]
    OBVIOUS
  <1>2. f \in Seq({f[k] : k \in 1 .. n})
    BY <1>1
  <1>3. Len(f) \in Nat /\ DOMAIN f = 1 .. Len(f) /\ DOMAIN f = 1 .. n
    BY <1>1, <1>2, LenProperties
  <1> QED
    BY <1>2, <1>3

Run(f, n) == f = [i \in 1 .. n |-> f[i]]
Begins(f, n, g) == \A i \in 1 .. n : g[i] = f[i]
LEMMA BeginningOf ==
  ASSUME NEW n \in Nat, NEW k \in Nat, NEW l \in Nat, l = n + k,
         NEW f, NEW g, Run(f, n), Run(g, l), Begins(f, n, g)
  PROVE  Len(g) - Len(f) = k /\ SubSeq(g, 1, Len(f)) = f
  <1>1. Len(f) = n /\ Len(g) = l
    BY LengthOf DEF Run
  <1>2. PICK a \in Int : a = 1
    OBVIOUS
  <1> DEFINE t == SubSeq(g, a, n)
             S == {g[i] : i \in 1 .. l}
  <1>3. \A i \in a .. n : g[i] \in S
    BY <1>2
  <1> HIDE DEF S
  <1>4. /\ t \in Seq(S) /\ Len(t) = IF a <= n THEN n - a + 1 ELSE 0
        /\ \A i \in 1 .. n - a + 1 : t[i] = g[a + i - 1]
    BY <1>3, SubSeqProperties
  <1> HIDE DEF t
  <1>5. Len(t) = n
    BY <1>2, <1>4
  <1>6. ASSUME NEW i \in 1 .. n PROVE t[i] = g[i]
    <2>1. i \in 1 .. n - a + 1 /\ a + i - 1 = i
      BY <1>2
    <2> QED
      BY <1>4, <2>1
  <1>7. t = [i \in 1 .. n |-> t[i]]
    BY <1>4, <1>5, LenProperties
  <1>8. t = f
    BY <1>6, <1>7 DEF Run, Begins
  <1>9. Len(g) - Len(f) = k
    BY <1>1
  <1> QED
    BY <1>1, <1>2, <1>8, <1>9 DEF t

(* Byte by byte: what stands at an address of the output, or before it.    *)
Byte(m, d, x) == IF x < d THEN x - d ELSE m[x]
Spells(t, m, d, h, o) == \A x \in d - h .. o - 1 : t[x - d + h + 1] = Byte(m, d, x)
LEMMA TextOfIs ==
  ASSUME NEW j, NEW d \in Int, d = j.dst,
         NEW h \in Nat, h = j.dictSize + j.dst - j.floor,
         NEW m, NEW o \in Int, d <= o
  PROVE  /\ Len(TextOf(j, m, o)) = h + o - d
         /\ Spells(TextOf(j, m, o), m, d, h, o)
  <1> DEFINE t == TextOf(j, m, o)
  <1>1. PICK n \in Nat : n = h + o - d
    OBVIOUS
  <1>2. t = [k \in 1 .. n |-> IF k <= h THEN k - h - 1 ELSE m[d + k - h - 1]]
    BY <1>1 DEF TextOf
  <1> HIDE DEF t
  <1>3. Len(t) = n
    BY <1>2, LengthOf
  <1>4. ASSUME NEW x \in d - h .. o - 1
        PROVE  t[x - d + h + 1] = Byte(m, d, x)
    <2>1. PICK k \in 1 .. n : k = x - d + h + 1
      BY <1>1
    <2>2. (k <= h <=> x < d) /\ k - h - 1 = x - d /\ d + k - h - 1 = x
      BY <2>1
    <2> QED
      BY <1>2, <2>1, <2>2 DEF Byte
  <1> QED
    BY <1>1, <1>3, <1>4 DEF t, Spells

Lengthens(g, f, n) == Len(g) - Len(f) = n /\ SubSeq(g, 1, Len(f)) = f
SameBetween(M, m, a, b) == \A x \in a .. b - 1 : M[x] = m[x]
LEMMA TextOfGrows ==
  ASSUME NEW j, NEW d \in Int, d = j.dst,
         NEW h \in Nat, h = j.dictSize + j.dst - j.floor,
         NEW m, NEW o \in Int, d <= o, NEW M, NEW n \in Nat, NEW e \in Int, e = o + n,
         SameBetween(M, m, d, o)
  PROVE  Lengthens(TextOf(j, M, e), TextOf(j, m, o), n)
  <1> DEFINE f == TextOf(j, m, o)
             g == TextOf(j, M, e)
  <1>2. PICK l \in Nat : l = h + o - d
    OBVIOUS
  <1>3. f = [k \in 1 .. l |-> IF k <= h THEN k - h - 1 ELSE m[d + k - h - 1]]
    BY <1>2 DEF TextOf
  <1>4. g = [k \in 1 .. l + n |-> IF k <= h THEN k - h - 1 ELSE M[d + k - h - 1]]
    <2>1. h + e - d = l + n
      BY <1>2
    <2> QED
      BY <2>1 DEF TextOf
  <1> HIDE DEF f, g
  <1>5. ASSUME NEW i \in 1 .. l PROVE g[i] = f[i]
    <2>1. i \in 1 .. l + n
      OBVIOUS
    <2>2. i > h => d + i - h - 1 \in d .. o - 1
      BY <1>2
    <2> QED
      BY <1>3, <1>4, <2>1, <2>2 DEF SameBetween
  <1>6. Begins(f, l, g)
    BY <1>5 DEF Begins
  <1>7. PICK w \in Nat : w = l + n
    OBVIOUS
  <1>8. Run(f, l) /\ Run(g, w)
    BY <1>3, <1>4, <1>7 DEF Run
  <1>9. Lengthens(g, f, n)
    BY <1>6, <1>7, <1>8, BeginningOf DEF Lengthens
  <1> QED
    BY <1>9 DEF f, g

(* The two ways a text gains bytes, by address. *)
Takes(M, o, i, n) == \A k \in 0 .. n - 1 : M[o + k] = i + k
Gains(t, l, p, n) == \A k \in 1 .. n : t[l + k] = p - n + k - 1
LEMMA FromInputOf ==
  ASSUME NEW t, NEW M, NEW d \in Int, NEW h \in Nat, NEW o \in Int, d <= o, NEW n \in Nat,
         NEW e \in Int, e = o + n, Spells(t, M, d, h, e), NEW i \in Int, NEW p \in Int,
         p = i + n, Takes(M, o, i, n), NEW l \in Int, l = h + o - d
  PROVE  Gains(t, l, p, n)
  <1> SUFFICES ASSUME NEW k \in 1 .. n PROVE t[l + k] = p - n + k - 1
    BY DEF Gains
  <1>1. PICK j \in 0 .. n - 1 : j = k - 1
    OBVIOUS
  <1>2. PICK x \in d - h .. e - 1 : x = o + j
    BY <1>1
  <1>3. l + k = x - d + h + 1 /\ ~(x < d) /\ p - n + k - 1 = i + j
    BY <1>1, <1>2
  <1>4. t[x - d + h + 1] = M[x]
    BY <1>3 DEF Spells, Byte
  <1>5. M[o + j] = i + j
    BY DEF Takes
  <1> QED
    BY <1>2, <1>3, <1>4, <1>5

Follows(M, d, o, D, n) == \A k \in 0 .. n - 1 : M[o + k] = Byte(M, d, o + k - D)
Echoes(t, l, D, n) == \A k \in l + 1 .. l + n : k - D >= 1 /\ t[k] = t[k - D]
LEMMA AtDistanceOf ==
  ASSUME NEW t, NEW M, NEW d \in Int, NEW h \in Nat, NEW o \in Int, d <= o, NEW n \in Nat,
         NEW e \in Int, e = o + n, Spells(t, M, d, h, e), NEW D \in Nat, D > 0,
         o - D >= d - h, Follows(M, d, o, D, n), NEW l \in Int, l = h + o - d
  PROVE  Echoes(t, l, D, n)
  <1> SUFFICES ASSUME NEW k \in l + 1 .. l + n PROVE k - D >= 1 /\ t[k] = t[k - D]
    BY DEF Echoes
  <1>1. PICK j \in 0 .. n - 1 : j = k - l - 1
    OBVIOUS
  <1>2. PICK x \in d - h .. e - 1 : x = o + j
    BY <1>1
  <1>3. PICK y \in d - h .. e - 1 : y = x - D
    BY <1>2
  <1>4. k = x - d + h + 1 /\ k - D = y - d + h + 1 /\ ~(x < d) /\ o + j - D = y
    BY <1>1, <1>2, <1>3
  <1>5. t[k] = M[x] /\ t[k - D] = Byte(M, d, y)
    BY <1>4 DEF Spells, Byte
  <1>6. M[o + j] = Byte(M, d, o + j - D)
    BY DEF Follows
  <1>7. k - D >= 1
    BY <1>3, <1>4
  <1> QED
    BY <1>2, <1>4, <1>5, <1>6, <1>7

LEMMA Covered ==
  ASSUME Inside
  PROVE  Covers(mem, job.floor, oend - 1)
  <1> DEFINE lo == Min2(job.floor, job.dictStart)
             hi == Max2(job.dst + job.cap, job.dictStart + job.dictSize)
  <1>1. DOMAIN mem = lo .. hi - 1
    BY DEF Inside, TypeOK, Addresses
  <1>2. /\ job.floor \in Int /\ job.dictStart \in Int /\ job.dictSize \in Nat
        /\ oend = job.dst + job.cap /\ oend \in Int
    BY Types DEF Inside
  <1>3. lo \in Int /\ lo <= job.floor /\ hi \in Int /\ hi >= oend
    BY <1>2 DEF Min2, Max2
  <1> HIDE DEF lo, hi
  <1> SUFFICES ASSUME NEW x \in job.floor .. oend - 1 PROVE x \in DOMAIN mem
    BY DEF Covers
  <1>4. x \in Int /\ lo <= x /\ x <= hi - 1
    BY <1>2, <1>3
  <1> QED
    BY <1>1, <1>4

(* What is behind the output is as it was. *)
HistoryHeld == \A x \in job.floor .. job.dst - 1 : mem[x] = x - job.dst
LEMMA HeldWhileKept == Inside /\ Kept => HistoryHeld
  <1> SUFFICES ASSUME Inside, Kept, NEW x \in job.floor .. job.dst - 1
               PROVE  mem[x] = x - job.dst
    BY DEF HistoryHeld
  <1>1. job.floor \in Int /\ job.dst \in Int /\ oend \in Int /\ job.dst <= oend
    BY Types DEF Inside
  <1>2. x \in Int /\ x < job.dst /\ x \in job.floor .. oend - 1
    BY <1>1
  <1>3. x \in DOMAIN mem
    BY <1>2, Covered DEF Covers
  <1>4. mem[x] = Holds(job, x)
    BY <1>2, <1>3 DEF Kept
  <1> QED
    BY <1>4 DEF Holds

LEMMA HistoryNat ==
  ASSUME Inside
  PROVE  /\ History \in Nat /\ History = job.dictSize + job.dst - job.floor
         /\ job.dictSize \in Nat /\ job.dst \in Int /\ job.floor \in Int
         /\ job.floor <= job.dst /\ op \in Int /\ job.dst <= op
  BY Types, InBuffers DEF Inside, History

LEMMA TextNow ==
  Text = TextOf(job, mem, op) /\ (Text)' = TextOf(job', mem', op')
  BY DEF Text, TextOf, History

LEMMA StepGrows ==
  ASSUME Inside, job' = job, NEW n \in Nat, op' = op + n, SameBetween(mem', mem, job.dst, op)
  PROVE  F!Grows(n) /\ F!Grown = n
  <1>1. PICK h \in Nat : h = job.dictSize + job.dst - job.floor
    BY HistoryNat
  <1>2. PICK d \in Int : d = job.dst
    BY HistoryNat
  <1>3. op \in Int /\ op' \in Int /\ d <= op
    BY <1>2, HistoryNat
  <1>4. Lengthens(TextOf(job, mem', op'), TextOf(job, mem, op), n)
    BY <1>1, <1>2, <1>3, TextOfGrows
  <1>5. Lengthens(Text', Text, n)
    BY <1>4, TextNow
  <1> QED
    BY <1>5 DEF F!Grows, F!Grown, Lengthens

LEMMA StepSpells ==
  ASSUME Inside, job' = job, NEW n \in Nat, op' = op + n,
         NEW d \in Int, d = job.dst, NEW h \in Nat, h = History
  PROVE  Len(Text) = h + op - d /\ Spells(Text', mem', d, h, op')
  <1>1. op \in Int /\ op' \in Int /\ d <= op /\ d <= op'
        /\ h = job.dictSize + job.dst - job.floor
    BY HistoryNat
  <1>2. Len(TextOf(job, mem, op)) = h + op - d
    BY <1>1, TextOfIs
  <1>3. Spells(TextOf(job, mem', op'), mem', d, h, op')
    BY <1>1, TextOfIs
  <1> QED
    BY <1>2, <1>3, TextNow

LEMMA StepFromInput ==
  ASSUME Inside, job' = job, NEW n \in Nat, op' = op + n, NEW i \in Int, ip' = i + n,
         Takes(mem', op, i, n)
  PROVE  F!FromInput(n)
  <1>1. PICK h \in Nat : h = History
    BY HistoryNat
  <1>2. PICK d \in Int : d = job.dst
    BY HistoryNat
  <1>3. Len(Text) = h + op - d /\ Spells(Text', mem', d, h, op')
    BY <1>1, <1>2, StepSpells
  <1>4. /\ op \in Int /\ op' \in Int /\ d <= op /\ ip' \in Int
        /\ Len(Text) \in Int
    BY <1>1, <1>2, <1>3, HistoryNat
  <1>5. Gains(Text', Len(Text), ip', n)
    BY <1>3, <1>4, FromInputOf
  <1> QED
    BY <1>5 DEF F!FromInput, Gains

(* A match that the output has behind it at distance o. *)
LEMMA StepAtDistance ==
  ASSUME Inside, job' = job, NEW n \in Nat, op' = op + n, NEW D \in Nat,
         D > 0 => op - D >= job.dst - History /\ Follows(mem', job.dst, op, D, n)
  PROVE  F!AtDistance(D, n)
  <1>1. PICK h \in Nat : h = History
    BY HistoryNat
  <1>2. PICK d \in Int : d = job.dst
    BY HistoryNat
  <1>3. Len(Text) = h + op - d /\ Spells(Text', mem', d, h, op')
    BY <1>1, <1>2, StepSpells
  <1>4. /\ op \in Int /\ op' \in Int /\ d <= op
        /\ Len(Text) \in Int
    BY <1>1, <1>2, <1>3, HistoryNat
  <1>5. CASE D > 0
    <2>1. op - D >= d - h /\ Follows(mem', d, op, D, n)
      BY <1>1, <1>2, <1>5
    <2>2. Echoes(Text', Len(Text), D, n)
      BY <1>3, <1>4, <1>5, <2>1, AtDistanceOf
    <2> QED
      BY <2>2 DEF F!AtDistance, Echoes
  <1>6. CASE D = 0
    BY <1>6 DEF F!AtDistance
  <1> QED
    BY <1>5, <1>6

-----------------------------------------------------------------------------
(* Each step of the decoder is one of the format's reader.                 *)

Below(m) == \A x \in DOMAIN mem : x < op => m[x] = mem[x]
LEMMA BelowSame ==
  ASSUME Inside, Below(mem')
  PROVE  SameBetween(mem', mem, job.dst, op)
  <1> SUFFICES ASSUME NEW x \in job.dst .. op - 1 PROVE mem'[x] = mem[x]
    BY DEF SameBetween
  <1>1. x \in job.floor .. oend - 1 /\ x < op
    BY HistoryNat, Types DEF Inside
  <1> QED
    BY <1>1, Covered DEF Below, Covers

LEMMA CoveredFrom ==
  ASSUME Inside, NEW s \in Int, s >= job.floor, NEW e \in Int, e <= oend
  PROVE  Covers(mem, s, e - 1)
  <1> SUFFICES ASSUME NEW x \in s .. e - 1 PROVE x \in DOMAIN mem
    BY DEF Covers
  <1>1. x \in job.floor .. oend - 1
    BY HistoryNat, Types DEF Inside
  <1> QED
    BY <1>1, Covered DEF Covers

LEMMA PartIs ==
  /\ pc \in {"start", "fast", "safe", "literals"} => Part = "literals"
  /\ pc \in {"fastmatch", "shortcut", "offset", "safematch"} => Part = "match"
  /\ pc \in {"end", "error"} => Part = pc
  /\ pc' \in {"start", "fast", "safe", "literals"} => (Part)' = "literals"
  /\ pc' \in {"fastmatch", "shortcut", "offset", "safematch"} => (Part)' = "match"
  /\ pc' \in {"end", "error"} => (Part)' = pc'
  BY DEF Part

LEMMA JobSame == ASSUME job' = job PROVE F!Same
  BY DEF F!Same

LEMMA TextStays ==
  ASSUME job' = job, mem' = mem, op' = op
  PROVE  (Text)' = Text
  BY TextNow

(* Reading on, and failing, leave the text alone. *)
LEMMA SkipFollows ==
  ASSUME job' = job, mem' = mem, op' = op, (Part)' = Part, ip' >= ip
  PROVE  F!FNext
  BY JobSame, TextStays DEF F!FNext, F!Skip
LEMMA FailFollows ==
  ASSUME job' = job, NEW i, Fail(i)
  PROVE  F!FNext
  BY JobSame, TextStays, PartIs DEF F!FNext, F!Fail, Fail, Goto

LEMMA TakenText ==
  ASSUME Inside, Inside', job' = job, NEW i \in Nat, NEW n \in Nat, NEW w \in Int, n <= w,
         NEW l, TakeLiterals(i, n, w, l)
  PROVE  /\ F!Grows(n) /\ F!Grown = n /\ F!FromInput(n)
         /\ ip' = i + n /\ pc' = l
  <1>1. op \in Int /\ oend \in Int /\ op >= job.floor
    BY HistoryNat, Types DEF Inside
  <1>2. mem' = FromSrc(mem, op, i, w) /\ op' = op + n /\ ip' = i + n /\ pc' = l /\ op + w <= oend
    BY <1>1, WithinOutput DEF TakeLiterals, Goto
  <1>3. Below(mem')
    BY <1>1, <1>2, MemoryOfInts, FromSrcLeaves DEF Below
  <1>4. Takes(mem', op, i, n)
    <2> SUFFICES ASSUME NEW k \in 0 .. n - 1 PROVE mem'[op + k] = i + k
      BY DEF Takes
    <2>1. op + w \in Int
      BY <1>1
    <2>2. Covers(mem, op, op + w - 1)
      BY <1>1, <1>2, <2>1, CoveredFrom
    <2>3. op + k \in op .. op + w - 1 /\ i + ((op + k) - op) = i + k
      BY <1>1
    <2>4. op + k \in DOMAIN mem
      BY <2>2, <2>3 DEF Covers
    <2> QED
      BY <1>2, <2>3, <2>4 DEF FromSrc
  <1>5. F!Grows(n) /\ F!Grown = n
    BY <1>2, <1>3, BelowSame, StepGrows
  <1>6. F!FromInput(n)
    BY <1>2, <1>4, StepFromInput
  <1> QED
    BY <1>2, <1>5, <1>6

LEMMA LiteralsFollow ==
  ASSUME Inside, Inside', job' = job, Part = "literals", NEW i \in Nat, ip <= i,
         NEW n \in Nat, NEW w \in Int, n <= w, NEW l, TakeLiterals(i, n, w, l),
         \/ l \in {"fastmatch", "shortcut", "offset"} /\ n = seq'.lit
         \/ l = "end" /\ n = seq'.lit /\ i + n = iend
         \/ job.partial /\ l \in {"offset", "end"} /\ n <= seq'.lit
  PROVE  F!FNext
  <1>1. /\ F!Grows(n) /\ F!Grown = n /\ F!FromInput(n) /\ F!Same
        /\ ip' = i + n /\ pc' = l /\ ip \in Int
    BY TakenText, JobSame, Types DEF Inside
  <1>2. CASE l \in {"fastmatch", "shortcut", "offset"} /\ n = seq'.lit
    <2>1. (Part)' = "match"
      BY <1>1, <1>2, PartIs
    <2>2. ip' >= ip + n
      BY <1>1
    <2> QED
      BY <1>1, <1>2, <2>1, <2>2 DEF F!FNext, F!Literals
  <1>3. CASE l = "end" /\ n = seq'.lit /\ i + n = iend
    <2>1. (Part)' = "end" /\ ip' = job.src
      BY <1>1, <1>3, PartIs DEF iend
    <2> QED
      BY <1>1, <1>3, <2>1 DEF F!FNext, F!Last
  <1>4. CASE job.partial /\ l \in {"offset", "end"} /\ n <= seq'.lit
    <2>1. (Part)' \in {"match", "end"}
      BY <1>1, <1>4, PartIs
    <2> QED
      BY <1>1, <1>4, <2>1 DEF F!FNext, F!Cut
  <1> QED
    BY <1>2, <1>3, <1>4

(* A match found at its distance, whole or cut short. *)
LEMMA MatchFollows ==
  ASSUME Inside, Inside', Frame, Part = "match", NEW len \in Nat, op' = op + len,
         Below(mem'),
         seq.offset > 0 =>
           op - seq.offset >= job.dst - History /\ Follows(mem', job.dst, op, seq.offset, len),
         \/ len = seq.ml /\ pc' \in {"fast", "safe"}
         \/ job.partial /\ len <= seq.ml /\ pc' \in {"fast", "safe", "end"}
  PROVE  F!FNext
  <1>1. job' = job /\ seq' = seq /\ seq.offset \in Nat
    BY Types DEF Frame, Inside
  <1>2. F!Grows(len) /\ F!Grown = len
    BY <1>1, BelowSame, StepGrows
  <1>3. F!AtDistance(seq.offset, len)
    BY <1>1, StepAtDistance
  <1>4. F!Same
    BY <1>1, JobSame
  <1>5. CASE len = seq.ml /\ pc' \in {"fast", "safe"}
    <2>1. (Part)' = "literals"
      BY <1>5, PartIs
    <2> QED
      BY <1>1, <1>2, <1>3, <1>4, <1>5, <2>1 DEF F!FNext, F!Match
  <1>6. CASE job.partial /\ len <= seq.ml /\ pc' \in {"fast", "safe", "end"}
    <2>1. (Part)' \in {"literals", "end"}
      BY <1>6, PartIs
    <2> QED
      BY <1>1, <1>2, <1>3, <1>4, <1>6, <2>1 DEF F!FNext, F!Cut
  <1> QED
    BY <1>5, <1>6

(* A match in the output, or in the prefix. *)
LEMMA PrefixFollows ==
  ASSUME Inside, Inside', HistoryHeld', Frame, Part = "match", match >= job.floor,
         NEW i, NEW m, NEW len \in Nat, NEW d, NEW l, TakeMatch(i, m, len, d, match, l),
         Below(m), seq.offset > 0 => Pattern(m, op, seq.offset, len),
         \/ len = seq.ml /\ l \in {"fast", "safe"}
         \/ job.partial /\ len <= seq.ml /\ l \in {"fast", "safe", "end"}
  PROVE  F!FNext
  <1>1. /\ job' = job /\ seq.offset \in Nat /\ op \in Int /\ match = op - seq.offset
        /\ match \in Int
    BY Types DEF Frame, Inside
  <1>2. mem' = m /\ op' = op + len /\ pc' = l
    BY DEF TakeMatch, Goto
  <1>3. ASSUME seq.offset > 0
        PROVE  /\ op - seq.offset >= job.dst - History
               /\ Follows(mem', job.dst, op, seq.offset, len)
    <2>1. op - seq.offset >= job.dst - History
      BY <1>1, HistoryNat
    <2>2. Repeats(mem', op, seq.offset, len)
      BY <1>1, <1>2, <1>3, PatternRepeats
    <2>3. ASSUME NEW k \in 0 .. len - 1
          PROVE  mem'[op + k] = Byte(mem', job.dst, op + k - seq.offset)
      <3>1. mem'[op + k] = mem'[op + k - seq.offset]
        BY <2>2 DEF Repeats
      <3>2. PICK y \in Int : y = op + k - seq.offset
        BY <1>1
      <3>3. CASE y < job.dst
        <4>1. y \in job.floor .. job.dst - 1
          BY <1>1, <3>2, <3>3, HistoryNat
        <4>2. mem'[y] = y - job.dst
          BY <1>1, <4>1 DEF HistoryHeld
        <4> QED
          BY <3>1, <3>2, <3>3, <4>2 DEF Byte
      <3>4. CASE ~(y < job.dst)
        BY <3>1, <3>2, <3>4 DEF Byte
      <3> QED
        BY <3>3, <3>4
    <2> QED
      BY <2>1, <2>3 DEF Follows
  <1> QED
    BY <1>2, <1>3, MatchFollows

LEMMA MoveBelow ==
  ASSUME Inside, NEW m, DOMAIN m = DOMAIN mem, Below(m),
         NEW d \in Int, op <= d, NEW s, NEW n \in Int, NEW c
  PROVE  Below(Move(m, d, s, n, c)) /\ DOMAIN Move(m, d, s, n, c) = DOMAIN mem
  <1>1. op \in Int
    BY HistoryNat
  <1>2. ASSUME NEW x \in DOMAIN mem, x < op
        PROVE  Move(m, d, s, n, c)[x] = mem[x]
    <2>1. x \in Int
      BY MemoryOfInts
    <2>2. x < d
      BY <1>1, <1>2, <2>1
    <2> QED
      BY <1>2, <2>1, <2>2, MoveLeaves DEF Below
  <1> QED
    BY <1>2, Domains DEF Below
LEMMA MemBelow == Below(mem)
  BY DEF Below
LEMMA FirstBytesBelow ==
  ASSUME Inside, NEW s, NEW o
  PROVE  Below(FirstBytes(mem, op, s, o)) /\ DOMAIN FirstBytes(mem, op, s, o) = DOMAIN mem
  <1>1. op \in Int
    BY HistoryNat
  <1>2. ASSUME NEW x \in DOMAIN mem, x < op
        PROVE  FirstBytes(mem, op, s, o)[x] = mem[x]
    BY <1>1, <1>2, MemoryOfInts, FirstEightLeaves, MoveLeaves DEF FirstBytes
  <1> QED
    BY <1>2, Domains, DomainsUsing DEF Below, FirstBytes

LEMMA EighteenFollows ==
  ASSUME Inside, Inside', HistoryHeld', Frame, Part = "match", Short,
         NEW i, NEW l \in {"fast", "safe"}, Eighteen(i, l)
  PROVE  F!FNext
  <1> DEFINE m == Move(mem, op, match, 18, 8)
             d == op + 18
  <1>1. /\ op \in Int /\ match \in Int /\ match = op - seq.offset /\ seq.offset \in Nat
        /\ seq.ml \in Nat /\ seq.ml <= 18 /\ seq.offset >= 8 /\ match >= job.floor
    BY Types, InBuffers, MatchExtra DEF Inside, Short
  <1>2. TakeMatch(i, m, seq.ml, d, match, l)
    BY DEF Eighteen
  <1>3. d <= oend
    <2>1. ~(d > oend)
      BY <1>2, WithinOutput DEF TakeMatch
    <2> QED
      BY <1>1, <2>1, Types DEF Inside
  <1>4. PICK n \in Nat : n = 18
    OBVIOUS
  <1>5. PICK c \in Nat : c = 8
    OBVIOUS
  <1>6. Covers(mem, match, op + n - 1)
    <2>1. op + n \in Int /\ op + n <= oend
      BY <1>1, <1>3, <1>4
    <2> QED
      BY <1>1, <2>1, CoveredFrom
  <1>7. Pattern(Move(mem, op, match, n, c), op, seq.offset, n)
    <2>1. c > 0 /\ c <= seq.offset
      BY <1>1, <1>5
    <2> QED
      BY <1>1, <1>6, <2>1, MovePattern
  <1>8. Pattern(m, op, seq.offset, n)
    BY <1>4, <1>5, <1>7
  <1>9. Below(m)
    BY <1>1, MemBelow, MoveBelow
  <1> HIDE DEF m, d
  <1>10. Pattern(m, op, seq.offset, seq.ml)
    BY <1>1, <1>4, <1>8, PatternLess
  <1> QED
    BY <1>1, <1>2, <1>9, <1>10, PrefixFollows

(* A match that begins in the dictionary. *)
LEMMA DictFollows ==
  ASSUME Inside, Inside', HistoryHeld', WindowIntact, Frame,
         pc \in {"fastmatch", "safematch"}, ~Outside, InDict,
         NEW i, NEW l \in {"fast", "safe"}, DictMatch(i, l)
  PROVE  F!FNext
  <1> DEFINE len == IF Near THEN Min2(seq.ml, oend - op) ELSE seq.ml
             n == Min2(len, Back)
             s == dictEnd - Back
             m == Move(mem, op, s, n, n)
             r == len - n
             e == op + n
             D == seq.offset
             M == Move(m, e, job.lowPrefix, r, 1)
  <1>1. /\ job' = job /\ op \in Int /\ oend \in Int /\ op <= oend /\ seq.ml \in Nat
        /\ D \in Nat /\ match = op - D /\ match \in Int /\ job.lowPrefix \in Int
        /\ job.dictStart \in Int /\ job.cap \in Nat /\ oend = job.dst + job.cap
        /\ job.partial \in BOOLEAN /\ seq.ml >= 4
    BY Types DEF Frame, Inside
  <1>2. /\ Back \in Nat /\ Back > 0 /\ Back <= job.dictSize /\ Back = job.lowPrefix - match
        /\ match < job.lowPrefix
    BY InBuffers DEF Inside, Back, InDict
  <1>3. job.lowPrefix = job.floor
    BY JobAssumption DEF Inside, TypeOK, InDict
  <1>4. CASE Near /\ ~job.partial /\ MatchFails(i)
    BY <1>1, <1>4, FailFollows DEF MatchFails
  <1>5. CASE /\ ~(Near /\ ~job.partial)
             /\ mem' = M
             /\ op' = op + len
             /\ Goto(l)
    <2>1. /\ len \in Nat /\ op + len <= oend
          /\ len = seq.ml \/ (job.partial /\ len <= seq.ml)
      BY <1>1, <1>5 DEF Near, Min2
    <2>2. len <= seq.ml
      BY <1>1, <2>1
    <2> HIDE DEF len
    <2>3. /\ n \in Nat /\ n <= len /\ n <= Back /\ r \in Nat /\ r = len - n
          /\ n < len => n = Back
      BY <1>2, <2>1 DEF Min2
    <2> HIDE DEF n, r
    <2>4. e \in Int /\ op <= e /\ e = op + n /\ s \in Int /\ s = dictEnd - Back
      BY <1>1, <1>2, <2>3, HistoryNat DEF dictEnd
    <2> HIDE DEF e, s
    <2>5. Below(m) /\ DOMAIN m = DOMAIN mem
      BY <1>1, <2>3, MemBelow, MoveBelow
    <2>6. Below(mem')
      BY <1>5, <2>3, <2>4, <2>5, MoveBelow
    <2>7. D > 0 /\ op - D >= job.dst - History /\ job.floor <= job.dst /\ D = op - match
      BY <1>1, <1>2, <1>3, HistoryNat
    <2>8. ASSUME NEW k \in 0 .. len - 1
          PROVE  mem'[op + k] = Byte(mem', job.dst, op + k - D)
      <3>1. PICK x \in Int : x = op + k
        BY <1>1
      <3>2. x \in DOMAIN mem
        <4>1. Covers(mem, op, oend - 1)
          BY <1>1, HistoryNat, CoveredFrom
        <4>2. x \in op .. oend - 1
          BY <1>1, <2>1, <3>1
        <4> QED
          BY <4>1, <4>2 DEF Covers
      <3>3. PICK y \in Int : y = x - D
        BY <1>1, <3>1
      <3> SUFFICES mem'[x] = Byte(mem', job.dst, y)
        BY <1>1, <2>1, <3>1, <3>3
      <3>4. CASE k < n
        <4>1. x < e
          BY <1>1, <2>3, <2>4, <3>1, <3>4
        <4>2. mem'[x] = m[x]
          BY <1>5, <2>3, <2>4, <2>5, <3>2, <4>1, MoveLeaves
        <4>3. s + k \in DOMAIN mem
          <5> DEFINE lo == Min2(job.floor, job.dictStart)
                     hi == Max2(job.dst + job.cap, job.dictStart + job.dictSize)
          <5>1. DOMAIN mem = lo .. hi - 1
            BY DEF Inside, TypeOK, Addresses
          <5>2. lo \in Int /\ lo <= job.dictStart /\ hi \in Int /\ hi >= job.dictStart + job.dictSize
            BY <1>1, HistoryNat DEF Min2, Max2
          <5> HIDE DEF lo, hi
          <5>3. dictEnd = job.dictStart + job.dictSize
            BY DEF dictEnd
          <5>4. s + k \in Int /\ lo <= s + k /\ s + k <= hi - 1
            BY <1>1, <1>2, <2>3, <2>4, <3>4, <5>2, <5>3, HistoryNat
          <5> QED
            BY <5>1, <5>4
        <4>4. m[x] = mem[s + k]
          <5>1. k \in 0 .. n - 1 /\ n > 0
            BY <2>3, <3>4
          <5> QED
            BY <1>1, <2>3, <2>4, <3>1, <3>2, <4>3, <5>1, MoveCopies
        <4>5. mem[s + k] = y - job.dst /\ y < job.dst
          <5>1. /\ y \in match .. job.lowPrefix - 1
                /\ y - match < seq.ml /\ job.lowPrefix - y <= job.dictSize
                /\ y < job.dst
            <6>1. y = match + k
              BY <1>1, <3>1, <3>3
            <6>2. job.lowPrefix <= op /\ job.lowPrefix <= job.dst
              BY <1>1, <1>3, HistoryNat
            <6>4. k \in Nat /\ k < seq.ml /\ k < Back
              BY <1>1, <1>2, <2>1, <2>2, <2>3, <3>4
            <6>5. y \in match .. job.lowPrefix - 1
              BY <1>1, <1>2, <6>1, <6>4
            <6>6. y - match < seq.ml /\ job.lowPrefix - y <= job.dictSize
              BY <1>1, <1>2, <6>1, <6>4, HistoryNat
            <6>7. y < job.dst
              BY <1>1, <6>2, <6>5, HistoryNat
            <6> QED
              BY <6>5, <6>6, <6>7
          <5>2. mem[dictEnd - (job.lowPrefix - y)] = y - job.dst
            BY <5>1 DEF WindowIntact, MatchesDict, Needed, Intact
          <5>3. dictEnd - (job.lowPrefix - y) = s + k
            <6>1. dictEnd \in Int
              BY <1>1, HistoryNat DEF dictEnd
            <6> QED
              BY <1>1, <1>2, <2>4, <3>1, <3>3, <6>1
          <5> QED
            BY <5>1, <5>2, <5>3
        <4> QED
          BY <4>2, <4>4, <4>5 DEF Byte
      <3>5. CASE ~(k < n)
        <4>1. n = Back /\ job.lowPrefix = e - D /\ D \in Nat
          <5>1. n < len
            BY <2>1, <2>3, <3>5
          <5> QED
            BY <1>1, <1>2, <2>3, <2>4, <5>1
        <4>2. Covers(m, job.lowPrefix, e + r - 1)
          <5>1. e + r \in Int /\ e + r <= oend
            BY <2>1, <2>3, <2>4, <1>1
          <5>2. Covers(mem, job.lowPrefix, e + r - 1)
            <6>1. PICK z \in Int : z = e + r
              BY <5>1
            <6>2. job.lowPrefix >= job.floor /\ z <= oend
              BY <1>1, <1>3, <5>1, <6>1
            <6>3. Covers(mem, job.lowPrefix, z - 1)
              BY <1>1, <6>2, CoveredFrom
            <6> QED
              BY <2>3, <2>4, <6>1, <6>3
          <5> QED
            BY <2>5, <5>2, CoversSame
        <4>3. PICK c \in Nat : c = 1
          OBVIOUS
        <4>4. Repeats(Move(m, e, job.lowPrefix, r, c), e, D, r)
          <5>1. c > 0 /\ c <= D
            BY <2>7, <4>1, <4>3
          <5> HIDE DEF m, D
          <5> QED
            BY <1>1, <2>3, <2>4, <4>1, <4>2, <5>1, MoveRepeats
        <4>5. Repeats(mem', e, D, r)
          BY <1>5, <4>3, <4>4
        <4>6. PICK j \in 0 .. r - 1 : j = k - n
          BY <2>1, <2>3, <3>5
        <4>7. e + j = x /\ e + j - D = y
          BY <1>1, <2>3, <2>4, <3>1, <3>3, <4>6
        <4>8. mem'[x] = mem'[y]
          BY <4>5, <4>7 DEF Repeats
        <4>9. y < job.dst => mem'[y] = y - job.dst
          <5>1. y >= job.floor
            BY <1>1, <1>2, <1>3, <2>3, <3>1, <3>3, <3>5, <4>1, HistoryNat
          <5>2. y < job.dst => y \in job.floor .. job.dst - 1
            BY <5>1, HistoryNat
          <5> QED
            BY <1>1, <5>2 DEF HistoryHeld
        <4> QED
          BY <4>8, <4>9 DEF Byte
      <3> QED
        BY <3>4, <3>5
    <2>9. Follows(mem', job.dst, op, D, len)
      BY <2>8 DEF Follows
    <2>10. Part = "match" /\ pc' \in {"fast", "safe"}
      BY <1>5, PartIs DEF Goto
    <2>11. \/ len = seq.ml /\ pc' \in {"fast", "safe"}
           \/ job.partial /\ len <= seq.ml /\ pc' \in {"fast", "safe", "end"}
      BY <2>1, <2>10
    <2>12. op' = op + len
      BY <1>5
    <2> HIDE DEF D
    <2> QED
      BY <2>1, <2>6, <2>7, <2>9, <2>10, <2>11, <2>12, MatchFollows DEF D
  <1> QED
    BY <1>4, <1>5 DEF DictMatch

(* A match taken with room for all its strides, in the output or prefix. *)
LEMMA SpreadFollows ==
  ASSUME Inside, Inside', HistoryHeld', Frame, Part = "match", match >= job.floor,
         NEW i, NEW m, m = UsingOffset(mem, op, match, seq.ml, seq.offset),
         NEW d, d = op + 8 + Wild(seq.ml - 8, 8),
         NEW l \in {"fast", "safe"}, TakeMatch(i, m, seq.ml, d, match, l)
  PROVE  F!FNext
  <1>1. /\ op \in Int /\ match \in Int /\ match = op - seq.offset /\ seq.offset \in Nat
        /\ seq.ml \in Nat /\ oend \in Int
    BY Types DEF Inside
  <1>2. PICK w \in Int : w = Wild(seq.ml - 8, 8) /\ w >= 8 /\ d = op + 8 + w
    <2>1. seq.ml - 8 \in Int
      BY <1>1
    <2>2. Wild(seq.ml - 8, 8) \in Int /\ Wild(seq.ml - 8, 8) >= 8
      BY <2>1, WildEight
    <2> QED
      BY <2>2
  <1>3. op + 8 + w <= oend
    BY <1>1, <1>2, WithinOutput DEF TakeMatch
  <1>4. Covers(mem, match, op + 8 + w - 1)
    <2>1. op + 8 + w \in Int
      BY <1>1, <1>2
    <2> QED
      BY <1>1, <1>3, <2>1, CoveredFrom
  <1>5. seq.offset > 0 => Pattern(m, op, seq.offset, seq.ml)
    BY <1>1, <1>2, <1>4, UsingOffsetPattern
  <1>6. Below(m)
    <2> SUFFICES ASSUME NEW x \in DOMAIN mem, x < op PROVE m[x] = mem[x]
      BY DEF Below
    <2> QED
      BY <1>1, MemoryOfInts, UsingOffsetLeaves
  <1> QED
    BY <1>1, <1>5, <1>6, PrefixFollows

LEMMA StridesFollow ==
  ASSUME Inside, Inside', HistoryHeld', Frame, Part = "match", match >= job.floor,
         seq.offset >= 16,
         NEW i, NEW m, m = Move(mem, op, match, Wild(seq.ml, 32), 16),
         NEW d, d = op + Wild(seq.ml, 32),
         NEW l \in {"fast", "safe"}, TakeMatch(i, m, seq.ml, d, match, l)
  PROVE  F!FNext
  <1>1. /\ op \in Int /\ match \in Int /\ match = op - seq.offset /\ seq.offset \in Nat
        /\ seq.ml \in Nat /\ oend \in Int
    BY Types DEF Inside
  <1>2. PICK w \in Nat : w = Wild(seq.ml, 32) /\ w >= seq.ml /\ d = op + w
    BY <1>1, WildThirtyTwo
  <1>3. op + w <= oend
    BY <1>1, <1>2, WithinOutput DEF TakeMatch
  <1>4. Covers(mem, match, op + w - 1)
    <2>1. op + w \in Int
      BY <1>1, <1>2
    <2> QED
      BY <1>1, <1>3, <2>1, CoveredFrom
  <1>5. PICK c \in Nat : c = 16
    OBVIOUS
  <1>6. Pattern(Move(mem, op, match, w, c), op, seq.offset, w)
    <2>1. c > 0 /\ c <= seq.offset
      BY <1>1, <1>5
    <2> QED
      BY <1>1, <1>4, <2>1, MovePattern
  <1>7. Pattern(m, op, seq.offset, w)
    BY <1>2, <1>5, <1>6
  <1>8. Pattern(m, op, seq.offset, seq.ml)
    BY <1>1, <1>2, <1>7, PatternLess
  <1>9. Below(m)
    BY <1>1, <1>2, MemBelow, MoveBelow
  <1> QED
    BY <1>1, <1>8, <1>9, PrefixFollows

LEMMA FastMatchFollows ==
  ASSUME Inside, Inside', HistoryHeld', WindowIntact, FastMatch
  PROVE  F!FNext
  <1> DEFINE i == ip + 2 + MLExtra(seq)
             mUsing == UsingOffset(mem, op, match, seq.ml, seq.offset)
             dUsing == op + 8 + Wild(seq.ml - 8, 8)
             mMove == Move(mem, op, match, Wild(seq.ml, 32), 16)
             dMove == op + Wild(seq.ml, 32)
  <1>1. Frame /\ pc = "fastmatch" /\ Part = "match" /\ job' = job
    BY PartIs DEF FastMatch, Rest, Frame
  <1>2. ip \in Int /\ i >= ip /\ seq.offset \in Nat
    BY Types, MatchExtra DEF Inside
  <1>3. ~Outside /\ ~InDict => match >= job.floor
    BY InBuffers DEF Inside
  <1>4. \/ \E j : Fail(j)
        \/ Goto("safematch") /\ ip' = i /\ UNCHANGED <<mem, op>>
        \/ Short /\ Eighteen(i, "fast")
        \/ ~Outside /\ InDict /\ DictMatch(i, "fast")
        \/ ~Outside /\ ~InDict /\ TakeMatch(i, mUsing, seq.ml, dUsing, match, "fast")
        \/ /\ ~Outside /\ ~InDict /\ ~(seq.offset < 16)
           /\ TakeMatch(i, mMove, seq.ml, dMove, match, "fast")
    BY DEF FastMatch, MatchFails
  <1> HIDE DEF i, mUsing, dUsing, mMove, dMove
  <1>5. CASE \E j : Fail(j)
    BY <1>1, <1>5, FailFollows
  <1>6. CASE Goto("safematch") /\ ip' = i /\ UNCHANGED <<mem, op>>
    <2>1. (Part)' = Part
      BY <1>1, <1>6, PartIs DEF Goto
    <2> QED
      BY <1>1, <1>2, <1>6, <2>1, SkipFollows
  <1>7. CASE Short /\ Eighteen(i, "fast")
    BY <1>1, <1>7, EighteenFollows
  <1>8. CASE ~Outside /\ InDict /\ DictMatch(i, "fast")
    BY <1>1, <1>8, DictFollows
  <1>9. CASE ~Outside /\ ~InDict /\ TakeMatch(i, mUsing, seq.ml, dUsing, match, "fast")
    BY <1>1, <1>3, <1>9, SpreadFollows DEF mUsing, dUsing
  <1>10. CASE /\ ~Outside /\ ~InDict /\ ~(seq.offset < 16)
              /\ TakeMatch(i, mMove, seq.ml, dMove, match, "fast")
    <2>1. seq.offset >= 16
      BY <1>2, <1>10
    <2> QED
      BY <1>1, <1>3, <1>10, <2>1, StridesFollow DEF mMove, dMove
  <1> QED
    BY <1>4, <1>5, <1>6, <1>7, <1>8, <1>9, <1>10

LEMMA ShortcutMatchFollows ==
  ASSUME Inside, Inside', HistoryHeld', ShortcutMatch
  PROVE  F!FNext
  <1>1. Frame /\ Part = "match"
    BY PartIs DEF ShortcutMatch, Rest, Frame
  <1> QED
    BY <1>1, EighteenFollows DEF ShortcutMatch

LEMMA MatchLengthFollows ==
  ASSUME Inside, MatchLength
  PROVE  F!FNext
  <1>1. job' = job /\ Part = "match"
    BY PartIs DEF MatchLength, Rest
  <1>2. CASE \E j : Fail(j)
    BY <1>1, <1>2, FailFollows
  <1>3. CASE Goto("safematch") /\ ip' = ip + 2 + MLExtra(seq) /\ UNCHANGED <<mem, op>>
    <2>1. (Part)' = Part
      BY <1>1, <1>3, PartIs DEF Goto
    <2>2. ip' >= ip
      BY <1>3, Types, MatchExtra DEF Inside
    <2> QED
      BY <1>1, <1>3, <2>1, <2>2, SkipFollows
  <1> QED
    BY <1>2, <1>3 DEF MatchLength, MatchFails

(* Eight bytes, then strides up to the limit, then byte by byte. *)
LEMMA TailPattern ==
  ASSUME NEW E, NEW d \in Int, NEW o \in Nat, o > 0, NEW s \in Int, s = Advanced(d - o, o),
         Pattern(E, d, o, 8), NEW e \in Int, e = d + 8, NEW limit \in Int, limit >= e,
         NEW strides \in Nat, e + strides >= limit, NEW tail \in Nat,
         NEW t \in Int, t = s + (limit - e),
         Covers(E, d - o, e + strides - 1), Covers(E, d - o, limit + tail - 1)
  PROVE  Pattern(Move(Move(E, e, s, strides, 8), limit, t, tail, 1), d, o, limit - d + tail)
  <1> DEFINE m == Move(E, e, s, strides, 8)
  <1>1. PICK N \in Nat : N = 8
    OBVIOUS
  <1>2. PICK n \in Nat : n = limit - d /\ n >= 8
    OBVIOUS
  <1>3. Pattern(m, d, o, N + strides)
    <2>1. N >= 8 /\ e = d + N /\ s = Advanced(d - o, o) + (N - 8) /\ Pattern(E, d, o, N)
      BY <1>1
    <2> QED
      BY <2>1, GoesOn
  <1>4. DOMAIN m = DOMAIN E
    BY Domains
  <1> HIDE DEF m
  <1>5. Pattern(m, d, o, n)
    <2>1. n <= N + strides /\ N + strides \in Int
      BY <1>1, <1>2
    <2> QED
      BY <1>3, <2>1, PatternLess
  <1>6. Covers(m, d - o, limit + tail - 1)
    BY <1>4, CoversSame
  <1>7. limit = d + n /\ t = Advanced(d - o, o) + (n - 8)
    BY <1>2
  <1>8. Pattern(Move(m, limit, t, tail, 1), d, o, n + tail)
    BY <1>2, <1>5, <1>6, <1>7, GoesOn
  <1> QED
    BY <1>2, <1>8 DEF m

LEMMA SafeCopyFollows ==
  ASSUME Inside, Inside', HistoryHeld', Frame, pc = "safematch", match >= job.floor,
         SafeCopy(FirstBytes(mem, op, match, seq.offset), Advanced(match, seq.offset))
  PROVE  F!FNext
  <1> DEFINE E == FirstBytes(mem, op, match, seq.offset)
             s == Advanced(match, seq.offset)
             cpy == op + seq.ml
             e == op + 8
             limit == Max2(e, oend - (WildCopyLength - 1))
             strides == IF e < limit THEN Wild(limit - e, 8) ELSE 0
             tail == Max2(0, cpy - limit)
             beyond == IF seq.ml > 16 THEN Wild(seq.ml - 16, 8) ELSE 0
             m == Move(E, e, s, strides, 8)
             t == s + (limit - e)
             mTail == Move(m, limit, t, tail, 1)
             dTail == Max2(e + strides, limit + tail)
             rest == 8 + beyond
             mAll == Move(E, e, s, rest, 8)
             dAll == op + 16 + beyond
  <1>1. /\ op \in Int /\ match \in Int /\ match = op - seq.offset /\ seq.offset \in Nat
        /\ seq.ml \in Nat /\ oend \in Int /\ job' = job /\ e \in Int /\ e = op + 8
    BY Types DEF Inside, Frame
  <1>2. Part = "match"
    BY PartIs
  <1>3. Below(E) /\ DOMAIN E = DOMAIN mem
    BY FirstBytesBelow
  <1>4. seq.offset > 0 /\ op + 8 <= oend => Pattern(E, op, seq.offset, 8) /\ s \in Int
    <2> SUFFICES ASSUME seq.offset > 0, op + 8 <= oend
                 PROVE  Pattern(E, op, seq.offset, 8) /\ s \in Int
      OBVIOUS
    <2>1. Covers(mem, match, op + 7)
      <3>1. Covers(mem, match, e - 1)
        <4>1. e <= oend
          BY <1>1
        <4> HIDE DEF e
        <4> QED
          BY <1>1, <4>1, CoveredFrom
      <3>2. e - 1 = op + 7
        BY <1>1
      <3> QED
        BY <3>1, <3>2
    <2>2. Pattern(E, op, seq.offset, 8)
      BY <1>1, <2>1, FirstBytesPattern
    <2>3. PICK D \in Nat : Advanced(match, seq.offset) = op + 8 - D
      BY <1>1, AdvancedTurns
    <2>4. s \in Int
      BY <1>1, <2>3
    <2> QED
      BY <2>2, <2>4
  <1>5. CASE \E j : Fail(j)
    BY <1>1, <1>5, FailFollows
  <1>6. CASE TakeMatch(ip, mTail, seq.ml, dTail, match, "safe")
    <2> HIDE DEF E, s
    <2>1. limit \in Int /\ limit >= e
      BY <1>1 DEF Max2
    <2>2. tail \in Nat /\ limit + tail >= op + seq.ml
      <3> HIDE DEF limit
      <3> QED
        BY <1>1, <2>1 DEF Max2
    <2>3. strides \in Nat /\ e + strides >= limit
      <3> HIDE DEF limit, e
      <3>1. PICK n \in Int : n = limit - e
        BY <1>1, <2>1
      <3>2. Wild(n, 8) \in Int /\ Wild(n, 8) >= 8 /\ Wild(n, 8) >= n
        BY WildEight
      <3> QED
        BY <1>1, <2>1, <3>1, <3>2
    <2> HIDE DEF limit, tail, strides, e
    <2>4. dTail \in Int /\ dTail >= e + strides /\ dTail >= limit + tail
      BY <1>1, <2>1, <2>2, <2>3 DEF Max2
    <2>5. dTail <= oend
      <3>1. ~(dTail > oend)
        BY <1>6, WithinOutput DEF TakeMatch
      <3> QED
        BY <1>1, <2>4, <3>1
    <2> HIDE DEF dTail
    <2>6. Below(mTail)
      <3>1. Below(m) /\ DOMAIN m = DOMAIN mem
        BY <1>1, <1>3, <2>3, MoveBelow
      <3>2. op <= limit /\ tail \in Int
        BY <1>1, <2>1, <2>2
      <3> QED
        BY <2>1, <3>1, <3>2, MoveBelow
    <2>7. ASSUME seq.offset > 0
          PROVE  Pattern(mTail, op, seq.offset, seq.ml)
      <3>1. Pattern(E, op, seq.offset, 8) /\ s \in Int
        BY <1>1, <1>4, <2>1, <2>3, <2>4, <2>5, <2>7
      <3>2. PICK y \in Int : y = e + strides /\ y <= oend
        BY <1>1, <2>3, <2>4, <2>5
      <3>3. PICK z \in Int : z = limit + tail /\ z <= oend
        BY <1>1, <2>1, <2>2, <2>4, <2>5
      <3>4. Covers(mem, match, y - 1) /\ Covers(mem, match, z - 1)
        BY <1>1, <3>2, <3>3, CoveredFrom
      <3>5. Covers(E, match, y - 1) /\ Covers(E, match, z - 1)
        BY <1>3, <3>4, CoversSame
      <3>6. /\ Covers(E, op - seq.offset, e + strides - 1)
            /\ Covers(E, op - seq.offset, limit + tail - 1)
        BY <1>1, <2>1, <2>2, <2>3, <3>2, <3>3, <3>5
      <3>7. t \in Int /\ t = s + (limit - e) /\ s = Advanced(op - seq.offset, seq.offset)
        BY <1>1, <2>1, <3>1 DEF s
      <3> HIDE DEF m, t
      <3>8. Pattern(mTail, op, seq.offset, limit - op + tail)
        BY <1>1, <2>1, <2>2, <2>3, <2>7, <3>1, <3>6, <3>7, TailPattern DEF m
      <3>9. limit - op + tail \in Int /\ seq.ml <= limit - op + tail
        BY <1>1, <2>1, <2>2
      <3> HIDE DEF mTail
      <3> QED
        BY <1>1, <3>8, <3>9, PatternLess
    <2> HIDE DEF mTail
    <2>8. TakeMatch(ip, mTail, seq.ml, dTail, match, "safe")
      BY <1>6
    <2> QED
      BY <1>1, <1>2, <2>6, <2>7, <2>8, PrefixFollows
  <1>7. CASE TakeMatch(ip, mAll, seq.ml, dAll, match, "safe")
    <2> HIDE DEF E, s
    <2>1. beyond \in Nat /\ 16 + beyond >= seq.ml
      <3>1. PICK n \in Int : n = seq.ml - 16
        BY <1>1
      <3>2. Wild(n, 8) \in Int /\ Wild(n, 8) >= 8 /\ Wild(n, 8) >= n
        BY WildEight
      <3> QED
        BY <1>1, <3>1, <3>2
    <2>2. rest \in Nat /\ dAll \in Int /\ dAll = e + rest
      <3> HIDE DEF beyond
      <3> QED
        BY <1>1, <2>1
    <2>3. 8 + rest >= seq.ml
      <3> HIDE DEF beyond
      <3> QED
        BY <1>1, <2>1
    <2> HIDE DEF beyond, rest, dAll, e
    <2>4. dAll <= oend
      <3>1. ~(dAll > oend)
        BY <1>7, WithinOutput DEF TakeMatch
      <3> QED
        BY <1>1, <2>2, <3>1
    <2>5. Below(mAll)
      BY <1>1, <1>3, <2>2, MoveBelow
    <2>6. ASSUME seq.offset > 0
          PROVE  Pattern(mAll, op, seq.offset, seq.ml)
      <3>1. Pattern(E, op, seq.offset, 8) /\ s \in Int
        BY <1>1, <1>4, <2>2, <2>4, <2>6
      <3>2. Covers(mem, match, dAll - 1)
        BY <1>1, <2>2, <2>4, CoveredFrom
      <3>3. Covers(E, match, dAll - 1)
        BY <1>3, <3>2, CoversSame
      <3>4. Covers(E, op - seq.offset, e + rest - 1)
        BY <1>1, <2>2, <3>3
      <3>5. PICK N \in Nat : N = 8
        OBVIOUS
      <3>6. /\ N >= 8 /\ e = op + N /\ Pattern(E, op, seq.offset, N)
            /\ s = Advanced(op - seq.offset, seq.offset) + (N - 8)
        <4>1. s = Advanced(op - seq.offset, seq.offset)
          BY <1>1 DEF s
        <4> QED
          BY <1>1, <3>1, <3>5, <4>1
      <3>7. Pattern(mAll, op, seq.offset, N + rest)
        BY <1>1, <2>2, <2>6, <3>1, <3>4, <3>6, GoesOn
      <3>8. N + rest \in Int /\ seq.ml <= N + rest
        BY <2>2, <2>3, <3>5
      <3> HIDE DEF mAll
      <3> QED
        BY <1>1, <3>7, <3>8, PatternLess
    <2> HIDE DEF mAll
    <2>7. TakeMatch(ip, mAll, seq.ml, dAll, match, "safe")
      BY <1>7
    <2> QED
      BY <1>1, <1>2, <2>5, <2>6, <2>7, PrefixFollows
  <1> QED
    BY <1>5, <1>6, <1>7 DEF SafeCopy

LEMMA SafeMatchFollows ==
  ASSUME Inside, Inside', HistoryHeld', WindowIntact, SafeMatch
  PROVE  F!FNext
  <1> DEFINE len == Min2(seq.ml, oend - op)
             m == Move(mem, op, match, len, 1)
             d == op + len
             l == IF op + len = oend THEN "end" ELSE "safe"
  <1>1. Frame /\ pc = "safematch" /\ Part = "match" /\ job' = job
    BY PartIs DEF SafeMatch, Rest, Frame
  <1>2. ~Outside /\ ~InDict => match >= job.floor
    BY InBuffers DEF Inside
  <1>3. \/ \E j : Fail(j)
        \/ ~Outside /\ InDict /\ DictMatch(ip, "safe")
        \/ ~Outside /\ ~InDict /\ job.partial /\ TakeMatch(ip, m, len, d, match, l)
        \/ /\ ~Outside /\ ~InDict
           /\ SafeCopy(FirstBytes(mem, op, match, seq.offset), Advanced(match, seq.offset))
    BY DEF SafeMatch, MatchFails, PartialCopy, FirstBytes
  <1>4. CASE \E j : Fail(j)
    BY <1>1, <1>4, FailFollows
  <1>5. CASE ~Outside /\ InDict /\ DictMatch(ip, "safe")
    BY <1>1, <1>5, DictFollows
  <1>6. CASE ~Outside /\ ~InDict /\ job.partial /\ TakeMatch(ip, m, len, d, match, l)
    <2>1. /\ op \in Int /\ match \in Int /\ match = op - seq.offset /\ seq.offset \in Nat
          /\ seq.ml \in Nat /\ oend \in Int /\ op <= oend
      BY Types DEF Inside
    <2>2. len \in Nat /\ len <= seq.ml /\ d \in Int /\ d <= oend /\ d = op + len
      BY <2>1 DEF Min2
    <2>3. l \in {"safe", "end"}
      OBVIOUS
    <2> HIDE DEF len, d, l
    <2>4. Below(m)
      BY <2>1, <2>2, MemBelow, MoveBelow
    <2>5. ASSUME seq.offset > 0 PROVE Pattern(m, op, seq.offset, len)
      <3>1. Covers(mem, match, d - 1)
        BY <1>2, <1>6, <2>1, <2>2, CoveredFrom
      <3>2. Covers(mem, match, op + len - 1)
        BY <2>1, <2>2, <3>1
      <3>3. PICK c \in Nat : c = 1
        OBVIOUS
      <3>4. Pattern(Move(mem, op, match, len, c), op, seq.offset, len)
        <4>1. c > 0 /\ c <= seq.offset
          BY <2>1, <2>5, <3>3
        <4> QED
          BY <2>1, <2>2, <3>2, <4>1, MovePattern
      <3> QED
        BY <3>3, <3>4
    <2> HIDE DEF m
    <2> QED
      BY <1>1, <1>2, <1>6, <2>2, <2>3, <2>4, <2>5, PrefixFollows
  <1>7. CASE /\ ~Outside /\ ~InDict
             /\ SafeCopy(FirstBytes(mem, op, match, seq.offset), Advanced(match, seq.offset))
    BY <1>1, <1>2, <1>7, SafeCopyFollows
  <1> QED
    BY <1>3, <1>4, <1>5, <1>6, <1>7

LEMMA BeginFollows ==
  ASSUME Inside, Begin
  PROVE  F!FNext
  <1>1. job' = job /\ mem' = mem /\ op' = op /\ ip' = ip /\ ip \in Int /\ Part = "literals"
    BY Types, PartIs DEF Begin, Inside
  <1>2. pc' \in {"end", "error", "safe", "fast"}
    BY DEF Begin, Goto
  <1>3. (Text)' = Text /\ F!Same
    BY <1>1, TextStays, JobSame
  <1>4. CASE pc' = "end"
    <2>1. (Part)' = "end"
      BY <1>4, PartIs
    <2> QED
      BY <1>1, <1>3, <2>1 DEF F!FNext, F!Nothing
  <1>5. CASE pc' = "error"
    <2>1. (Part)' = "error"
      BY <1>5, PartIs
    <2> QED
      BY <1>3, <2>1 DEF F!FNext, F!Fail
  <1>6. CASE pc' \in {"safe", "fast"}
    <2>1. (Part)' = Part
      BY <1>1, <1>6, PartIs
    <2> QED
      BY <1>1, <2>1, SkipFollows
  <1> QED
    BY <1>2, <1>4, <1>5, <1>6

LEMMA LiteralsFailFollows ==
  ASSUME NEW l, LiteralsFail(l)
  PROVE  F!FNext
  BY FailFollows DEF LiteralsFail, Token

(* Both loops read a token and either copy its literals or leave them to   *)
(* safe_literal_copy.                                                      *)
LEMMA TokenFollows ==
  ASSUME Inside, Inside', NEW loop \in {"fast", "safe"}, Token(loop),
         NEW i \in Int, i = ip + 1 + LitExtra(seq'), NEW w \in Int, seq'.lit <= w,
         NEW l \in {"fastmatch", "shortcut"},
         \/ TakeLiterals(i, seq'.lit, w, l)
         \/ Goto("literals") /\ ip' = i /\ UNCHANGED <<mem, op>>
  PROVE  F!FNext
  <1>1. /\ job' = job /\ Part = "literals" /\ ip \in Nat /\ LitExtra(seq') \in Nat
        /\ seq'.lit \in Nat
    BY Types, Tokens, PartIs DEF Token, Inside
  <1>2. i \in Nat /\ ip <= i
    BY <1>1
  <1>3. CASE TakeLiterals(i, seq'.lit, w, l)
    BY <1>1, <1>2, <1>3, LiteralsFollow
  <1>4. CASE Goto("literals") /\ ip' = i /\ UNCHANGED <<mem, op>>
    <2>1. (Part)' = Part
      BY <1>1, <1>4, PartIs DEF Goto
    <2> QED
      BY <1>1, <1>2, <1>4, <2>1, SkipFollows
  <1> QED
    BY <1>3, <1>4

LEMMA FastLiteralsFollow ==
  ASSUME Inside, Inside', FastLiterals
  PROVE  F!FNext
  <1> DEFINE i == ip + 1 + LitExtra(seq')
             w == IF Long(seq') THEN Wild(seq'.lit, 32) ELSE 16
  <1>1. /\ Token("fast") /\ seq'.lit \in Nat /\ i \in Int
        /\ ~Long(seq') => seq'.lit <= 14
    BY Tokens, Types DEF FastLiterals, Inside
  <1>2. w \in Int /\ seq'.lit <= w
    BY <1>1, WildThirtyTwo
  <1>3. \/ TakeLiterals(i, seq'.lit, w, "fastmatch")
        \/ Goto("literals") /\ ip' = i /\ UNCHANGED <<mem, op>>
    BY DEF FastLiterals
  <1> HIDE DEF i, w
  <1> QED
    BY <1>1, <1>2, <1>3, TokenFollows DEF i

LEMMA SafeLiteralsFollow ==
  ASSUME Inside, Inside', SafeLiterals
  PROVE  F!FNext
  <1> DEFINE i == ip + 1 + LitExtra(seq')
             w == IF Long(seq') THEN seq'.lit ELSE 16
  <1>1. /\ Token("safe") /\ seq'.lit \in Nat /\ i \in Int
        /\ ~Long(seq') => seq'.lit <= 14
    BY Tokens, Types DEF SafeLiterals, Inside
  <1>2. w \in Int /\ seq'.lit <= w
    BY <1>1
  <1>3. \/ TakeLiterals(i, seq'.lit, w, "shortcut")
        \/ Goto("literals") /\ ip' = i /\ UNCHANGED <<mem, op>>
    BY DEF SafeLiterals
  <1> HIDE DEF i, w
  <1> QED
    BY <1>1, <1>2, <1>3, TokenFollows DEF i

LEMMA CopyLiteralsFollows ==
  ASSUME Inside, Inside', CopyLiterals
  PROVE  F!FNext
  <1> DEFINE n == CutShort(seq.lit)
             w == Wild(seq.lit, 8)
             l == IF op + n = oend \/ ip + n >= iend - 2 THEN "end" ELSE "offset"
  <1>1. /\ job' = job /\ seq' = seq /\ Part = "literals" /\ pc = "literals"
        /\ ip \in Nat /\ seq.lit \in Nat /\ ip <= iend /\ iend \in Int
        /\ op \in Int /\ oend \in Int /\ op <= oend
    BY Types, PartIs DEF CopyLiterals, Rest, Inside, TypeOK
  <1>2. n \in Nat /\ n <= seq.lit
    BY <1>1 DEF CutShort, Min2
  <1>3. w \in Int /\ seq.lit <= w
    BY <1>1, WildEight
  <1>4. l \in {"offset", "end"}
    OBVIOUS
  <1>5. \/ TakeLiterals(ip, seq.lit, w, "offset")
        \/ Fail(ip)
        \/ LastRun(seq.lit) /\ TakeLiterals(ip, seq.lit, seq.lit, "end")
        \/ job.partial /\ TakeLiterals(ip, n, n, l)
    BY DEF CopyLiterals
  <1> HIDE DEF n, w, l
  <1>6. CASE TakeLiterals(ip, seq.lit, w, "offset")
    BY <1>1, <1>3, <1>6, LiteralsFollow
  <1>7. CASE Fail(ip)
    BY <1>1, <1>7, FailFollows
  <1>8. CASE LastRun(seq.lit) /\ TakeLiterals(ip, seq.lit, seq.lit, "end")
    BY <1>1, <1>8, LiteralsFollow DEF LastRun
  <1>9. CASE job.partial /\ TakeLiterals(ip, n, n, l)
    BY <1>1, <1>2, <1>4, <1>9, LiteralsFollow
  <1> QED
    BY <1>5, <1>6, <1>7, <1>8, <1>9

-----------------------------------------------------------------------------
(* The decoder implements the format.                                      *)

LEMMA InitFollows == Init => F!FInit
  <1> SUFFICES ASSUME Init PROVE F!FInit
    OBVIOUS
  <1>1. Inside
    BY InitInside
  <1>2. PICK h \in Nat : h = History
    BY <1>1, HistoryNat
  <1>3. job.dst \in Int /\ job.dst = op /\ h + op - job.dst = h
    BY <1>1, <1>2, HistoryNat DEF Init
  <1>4. Text = [k \in 1 .. h |-> k - h - 1]
    <2>1. Text = [k \in 1 .. h |-> IF k <= h THEN k - h - 1 ELSE mem[job.dst + k - h - 1]]
      BY <1>2, <1>3 DEF Text
    <2> QED
      BY <2>1
  <1>5. Len(Text) = h
    <2>1. \A k \in 1 .. h : (Text)[k] = k - h - 1
      BY <1>4
    <2>2. Text = [k \in 1 .. h |-> (Text)[k]]
      BY <1>4, <2>1
    <2> QED
      BY <2>2, LengthOf
  <1>6. Part = "literals"
    BY PartIs DEF Init
  <1> QED
    BY <1>4, <1>5, <1>6 DEF F!FInit, Init

LEMMA NextFollows ==
  ASSUME Inside, Inside', HistoryHeld', WindowIntact, [Next]_vars
  PROVE  [F!FNext]_(F!fvars)
  <1>1. CASE UNCHANGED vars
    <2>1. (Part)' = Part
      BY <1>1 DEF Part, vars
    <2>2. (Text)' = Text
      BY <1>1, TextStays DEF vars
    <2> QED
      BY <1>1, <2>1, <2>2 DEF F!fvars, vars
  <1> QED
    BY <1>1, BeginFollows, LiteralsFailFollows, FastLiteralsFollow, FastMatchFollows,
       SafeLiteralsFollow, ShortcutMatchFollows, CopyLiteralsFollows, MatchLengthFollows,
       SafeMatchFollows DEF Next

(* The strides, overlaps, tables of offsets and fallbacks of both loops    *)
(* amount to the format (LZ4_decompress_generic against                    *)
(* lz4_Block_format): for any input, sizes and window, each step adds to   *)
(* the text the literals or the match that the input names, byte by byte,  *)
(* or leaves it alone.  The dictionary must be apart from the output, or   *)
(* end at least Window + 30 bytes ahead of it in the same ring.  In a ring *)
(* of lz4.h's minimum size it may end only Window + 15 bytes ahead: what   *)
(* is left of it then, DictionariesIntact says.                            *)
THEOREM FormatFollowed ==
  ASSUME DictionariesApart
  PROVE  Spec => FollowsFormat
  <1>1. Init => Inside /\ Kept
    BY InitInside, InitKept
  <1>2. (Inside /\ Kept) /\ [Next]_vars => (Inside /\ Kept)'
    BY NextInside, NextKept
  <1>3. Inside /\ Kept => HistoryHeld /\ WindowIntact
    BY HeldWhileKept, IntactWhileKept, AllClear
  <1>4. Init => F!FInit
    BY InitFollows
  <1>5. /\ Inside /\ Inside' /\ HistoryHeld' /\ WindowIntact
        /\ [Next]_vars
        => [F!FNext]_(F!fvars)
    BY NextFollows
  <1> QED
    BY <1>1, <1>2, <1>3, <1>4, <1>5, PTL DEF Spec, FollowsFormat, F!FSpec

-----------------------------------------------------------------------------
(* The decoder that does not know where its input ends.  At each label the *)
(* last sequence says how much has been read and written, and every one    *)
(* before it went on to the next.                                          *)

WrittenAt(r) == r.op + r.seq.lit
ReadTo(r) == LitEnd(r.seq, r.ip)
MatchFits(r) ==
  /\ WrittenAt(r) + MFLimit <= call.cap
  /\ WrittenAt(r) + r.seq.ml + LastLiterals <= call.cap
  /\ r.seq.offset <= call.dictSize + call.prefix + WrittenAt(r)
WentOn(r, i) == MatchFits(r) /\ MatchEnd(r.seq, ReadTo(r)) <= i
Earlier(n, i) == \A k \in DOMAIN log : k <= n => WentOn(log[k], i)

Record == [seq : SequenceIn, ip : Nat, op : Nat]
LastRead == log[Len(log)]

Reading ==
  CASE label = "literals" -> /\ Earlier(Len(log), at)
                             /\ log # <<>> => Len(out) + LastLiterals <= call.cap
    [] OTHER -> /\ log # <<>>
                /\ Earlier(Len(log) - 1, LastRead.ip)
                /\ Len(log) > 1 => LastRead.op + LastLiterals <= call.cap
Standing ==
  /\ label = "match" => /\ at = ReadTo(LastRead) /\ Len(out) = WrittenAt(LastRead)
                        /\ WrittenAt(LastRead) + MFLimit <= call.cap
  /\ label = "matched" =>
       /\ at = MatchEnd(LastRead.seq, ReadTo(LastRead))
       /\ Len(out) = WrittenAt(LastRead) + LastRead.seq.ml
       /\ WrittenAt(LastRead) + MFLimit <= call.cap
       /\ LastRead.seq.offset <= call.dictSize + call.prefix + WrittenAt(LastRead)
  /\ label = "end" => at = call.src /\ ReadTo(LastRead) = call.src /\ WrittenAt(LastRead) = call.cap
  /\ label \in {"error", "error?"} => ~Fits(LastRead)

UnsafeInv == /\ UnsafeTypeOK /\ log \in Seq(Record) /\ Run(out, Len(out))
             /\ Reading /\ Standing

LEMMA CallTypes ==
  ASSUME UnsafeTypeOK
  PROVE  /\ call.src \in Nat /\ call.cap \in Nat /\ call.prefix \in Nat /\ call.dictSize \in Nat
         /\ at \in Nat /\ at <= call.src /\ Len(out) \in Nat /\ Len(out) <= call.cap
         /\ Len(log) \in Nat /\ call \in Calls
  <1>1. call \in CallType
    BY UnsafeAssumption DEF UnsafeTypeOK
  <1>2. /\ call.src \in Nat /\ call.cap \in Nat /\ call.prefix \in Nat /\ call.dictSize \in Nat
    BY <1>1 DEF CallType
  <1> QED
    BY <1>2 DEF UnsafeTypeOK

LEMMA SequencesOf ==
  ASSUME NEW q \in SequenceIn
  PROVE  q.lit \in Nat /\ q.offset \in Nat /\ q.ml \in Nat /\ q.ml >= 4
  <1>1. Lits \subseteq Nat /\ Offsets \subseteq Nat
    BY UnsafeAssumption
  <1>2. \A n \in MatchLengths : n \in Nat /\ n >= 4
    BY UnsafeAssumption DEF MinMatch
  <1> QED
    BY <1>1, <1>2 DEF SequenceIn

LEMMA EndsOf ==
  ASSUME NEW q \in SequenceIn, NEW i \in Nat
  PROVE  /\ LitEnd(q, i) \in Nat /\ LitEnd(q, i) >= i + 1 + q.lit
         /\ MatchEnd(q, i) \in Nat /\ MatchEnd(q, i) >= i + 2
  <1>1. PICK b \in Nat \ {0} : b = ByteMax
    BY ByteAssumption
  <1>2. /\ q.lit \in Nat /\ q.ml \in Nat
    BY SequencesOf
  <1>3. \A n \in Int : Extra(n, 15) \in Nat
    BY <1>1, ExtraNat
  <1>4. PICK x \in Nat : x = Extra(q.lit, RunMask)
    BY <1>2, <1>3 DEF RunMask
  <1>5. PICK m \in Int : m = q.ml - MinMatch
    BY <1>2 DEF MinMatch
  <1>6. PICK y \in Nat : y = Extra(m, MLMask)
    BY <1>3 DEF MLMask
  <1> QED
    BY <1>2, <1>4, <1>5, <1>6 DEF LitEnd, MatchEnd

LEMMA RecordsOf ==
  ASSUME log \in Seq(Record)
  PROVE  /\ Len(log) \in Nat /\ DOMAIN log = 1..Len(log)
         /\ \A k \in DOMAIN log : log[k] \in Record
         /\ log # <<>> => Len(log) >= 1 /\ LastRead \in Record
  <1>1. Len(log) \in Nat /\ DOMAIN log = 1..Len(log) /\ \A k \in 1..Len(log) : log[k] \in Record
    BY LenProperties, ElementOfSeq
  <1>2. log # <<>> => Len(log) >= 1
    BY EmptySeq, <1>1
  <1> QED
    BY <1>1, <1>2 DEF LastRead

LEMMA RecordOf ==
  ASSUME NEW r \in Record
  PROVE  /\ r.seq \in SequenceIn /\ r.ip \in Nat /\ r.op \in Nat
         /\ r.seq.lit \in Nat /\ r.seq.offset \in Nat /\ r.seq.ml \in Nat
         /\ WrittenAt(r) = r.op + r.seq.lit /\ WrittenAt(r) \in Nat
         /\ ReadTo(r) \in Nat /\ ReadTo(r) >= r.ip + 1 + r.seq.lit
         /\ MatchEnd(r.seq, ReadTo(r)) \in Nat /\ MatchEnd(r.seq, ReadTo(r)) >= ReadTo(r) + 2
  <1>1. r.seq \in SequenceIn /\ r.ip \in Nat /\ r.op \in Nat
    BY DEF Record
  <1>2. r.seq.lit \in Nat /\ r.seq.offset \in Nat /\ r.seq.ml \in Nat
    BY <1>1, SequencesOf
  <1>3. ReadTo(r) \in Nat /\ ReadTo(r) >= r.ip + 1 + r.seq.lit
    BY <1>1, EndsOf DEF ReadTo
  <1>4. MatchEnd(r.seq, ReadTo(r)) \in Nat /\ MatchEnd(r.seq, ReadTo(r)) >= ReadTo(r) + 2
    BY <1>1, <1>3, EndsOf
  <1> QED
    BY <1>1, <1>2, <1>3, <1>4 DEF WrittenAt

(* Appending a sequence leaves the others where they are. *)
LEMMA LogGrows ==
  ASSUME log \in Seq(Record), NEW r \in Record, log' = Append(log, r)
  PROVE  /\ log' \in Seq(Record) /\ Len(log') = Len(log) + 1 /\ (LastRead)' = r /\ log' # <<>>
         /\ \A k \in DOMAIN log : k \in DOMAIN log' /\ log'[k] = log[k]
         /\ \A k \in DOMAIN log' : k <= Len(log) => k \in DOMAIN log
  <1>1. Len(log) \in Nat /\ DOMAIN log = 1..Len(log)
    BY RecordsOf
  <1>2. /\ log' \in Seq(Record) /\ Len(log') = Len(log) + 1 /\ log' # <<>>
        /\ \A k \in 1..Len(log) : log'[k] = log[k]
        /\ log'[Len(log) + 1] = r
    BY AppendProperties
  <1>3. DOMAIN log' = 1..Len(log) + 1
    BY <1>1, <1>2, LenProperties
  <1>4. (LastRead)' = r
    BY <1>2 DEF LastRead
  <1> QED
    BY <1>1, <1>2, <1>3, <1>4

Joined(h, f, g, n, l) == \A i \in 1..l : h[i] = IF i <= n THEN f[i] ELSE g[i - n]
LEMMA JoinedAre ==
  ASSUME NEW n \in Nat, NEW m \in Nat, NEW l \in Nat, l = n + m,
         NEW f, NEW g, Run(f, n), Run(g, m)
  PROVE  /\ Run(f \o g, l) /\ Len(f \o g) = l /\ Len(f) = n /\ Len(g) = m
         /\ Joined(f \o g, f, g, n, l)
  <1> DEFINE S == {f[i] : i \in 1..n} \cup {g[i] : i \in 1..m}
             h == f \o g
  <1>1. f \in [1..n -> S] /\ g \in [1..m -> S]
    BY DEF Run
  <1>2. Len(f) = n /\ Len(g) = m
    BY LengthOf DEF Run
  <1> HIDE DEF S
  <1>3. f \in Seq(S) /\ g \in Seq(S)
    BY <1>1
  <1>4. /\ h \in Seq(S) /\ Len(h) = n + m
        /\ \A i \in 1..n + m : h[i] = IF i <= n THEN f[i] ELSE g[i - n]
    BY <1>2, <1>3, ConcatProperties
  <1> HIDE DEF h
  <1>5. h \in [1..l -> S]
    BY <1>4, LenProperties
  <1>6. Run(h, l)
    BY <1>5 DEF Run
  <1> QED
    BY <1>2, <1>4, <1>6 DEF h, Joined

LEMMA JoinedRun ==
  ASSUME NEW n \in Nat, NEW m \in Nat, NEW f, NEW g, Run(f, n), Run(g, m)
  PROVE  Run(f \o g, n + m) /\ Len(f \o g) = n + m
  <1>1. PICK l \in Nat : l = n + m
    OBVIOUS
  <1> QED
    BY <1>1, JoinedAre

LEMMA ReadingIs ==
  /\ Reading /\ label = "literals" =>
       Earlier(Len(log), at) /\ (log # <<>> => Len(out) + LastLiterals <= call.cap)
  /\ Reading /\ label # "literals" =>
       /\ log # <<>> /\ Earlier(Len(log) - 1, LastRead.ip)
       /\ Len(log) > 1 => LastRead.op + LastLiterals <= call.cap
  BY DEF Reading

LEMMA ReadingPut ==
  /\ label' = "literals" /\ Earlier(Len(log), at)' /\ (log' # <<>> => Len(out') + LastLiterals <= call'.cap)
       => Reading'
  /\ label' # "literals" /\ log' # <<>> /\ Earlier(Len(log) - 1, LastRead.ip)'
       /\ (Len(log') > 1 => (LastRead)'.op + LastLiterals <= call'.cap)
       => Reading'
  BY DEF Reading

LEMMA UnsafeStarts == UnsafeInit => UnsafeInv
  <1> SUFFICES ASSUME UnsafeInit PROVE UnsafeInv
    OBVIOUS
  <1>1. call \in Calls /\ out = <<>> /\ at = 0 /\ label = "literals" /\ log = <<>>
    BY DEF UnsafeInit
  <1>2. call \in CallType
    BY <1>1, UnsafeAssumption
  <1>3. call.src \in Nat /\ call.cap \in Nat /\ MaxRead \in Nat
    BY <1>2, UnsafeAssumption DEF CallType
  <1>4. Len(out) = 0 /\ Len(log) = 0 /\ DOMAIN log = {}
    BY <1>1
  <1>5. UnsafeTypeOK
    BY <1>1, <1>3, <1>4 DEF UnsafeTypeOK
  <1>6. Run(out, Len(out)) /\ log \in Seq(Record)
    BY <1>1, <1>4 DEF Run
  <1>7. Reading
    BY <1>1, <1>4 DEF Reading, Earlier
  <1>8. Standing
    BY <1>1 DEF Standing
  <1> QED
    BY <1>5, <1>6, <1>7, <1>8 DEF UnsafeInv

(* What Literals does, with the sequence that it reads. *)
LiteralsAre(q, r) ==
  /\ q \in SequenceIn /\ r = [seq |-> q, ip |-> at, op |-> Len(out)]
  /\ at' = LitEnd(q, at) /\ at' <= call.src /\ log' = Append(log, r)
  /\ \/ Left < q.lit /\ label' = "error" /\ UNCHANGED out
     \/ /\ Left >= q.lit
        /\ out' = out \o [k \in 1..q.lit |-> at' - q.lit + k - 1]
        /\ label' = IF ~EndOfBlock THEN "match"
                    ELSE IF Len(out') = call.cap THEN "end" ELSE "error?"
        /\ label' = "end" => at' = call.src
LEMMA LiteralsRead ==
  ASSUME Literals
  PROVE  /\ label = "literals" /\ Len(log) < MaxRead /\ call' = call
         /\ \E q, r : LiteralsAre(q, r)
  BY DEF Literals, LiteralsAre

LEMMA LiteralsKeep ==
  ASSUME UnsafeInv, Literals
  PROVE  UnsafeInv'
  <1>1. PICK q, r : LiteralsAre(q, r)
    BY LiteralsRead
  <1>2. /\ UnsafeTypeOK /\ log \in Seq(Record) /\ Run(out, Len(out)) /\ Reading
        /\ label = "literals" /\ Len(log) < MaxRead /\ call' = call
    BY LiteralsRead DEF UnsafeInv
  <1>3. /\ call.cap \in Nat /\ call.src \in Nat /\ at \in Nat /\ Len(out) \in Nat
        /\ Len(out) <= call.cap /\ Len(log) \in Nat /\ MaxRead \in Nat
    BY <1>2, CallTypes, UnsafeAssumption
  <1>4. q \in SequenceIn /\ r \in Record /\ r.seq = q /\ r.ip = at /\ r.op = Len(out)
    BY <1>1, <1>3 DEF LiteralsAre, Record
  <1>5. q.lit \in Nat /\ at' \in Nat /\ at' <= call.src /\ ReadTo(r) = at'
        /\ WrittenAt(r) = Len(out) + q.lit
    BY <1>1, <1>3, <1>4, SequencesOf, EndsOf DEF LiteralsAre, ReadTo, WrittenAt
  <1>6. /\ log' \in Seq(Record) /\ Len(log') = Len(log) + 1 /\ (LastRead)' = r /\ log' # <<>>
        /\ \A k \in DOMAIN log : k \in DOMAIN log' /\ log'[k] = log[k]
        /\ \A k \in DOMAIN log' : k <= Len(log) => k \in DOMAIN log
    BY <1>1, <1>2, <1>4, LogGrows DEF LiteralsAre
  <1>7. label' \in {"match", "end", "error", "error?"}
    BY <1>1 DEF LiteralsAre
  <1>8. Reading'
    <2>1. Earlier(Len(log), at) /\ (log # <<>> => Len(out) + LastLiterals <= call.cap)
      BY <1>2, ReadingIs
    <2>2. (LastRead)'.ip = at /\ (LastRead)'.op = Len(out) /\ Len(log') - 1 = Len(log)
      BY <1>3, <1>4, <1>6
    <2>3. Earlier(Len(log) - 1, LastRead.ip)'
      BY <1>2, <1>6, <2>1, <2>2 DEF Earlier, WentOn, MatchFits
    <2>4. Len(log') > 1 => (LastRead)'.op + LastLiterals <= call'.cap
      <3>1. Len(log) >= 1 => log # <<>>
        BY <1>3
      <3> QED
        BY <1>2, <1>3, <1>6, <2>1, <2>2, <3>1
    <2> QED
      BY <1>6, <1>7, <2>3, <2>4, ReadingPut
  <1>9. CASE Left < q.lit
    <2>1. label' = "error" /\ out' = out
      BY <1>1, <1>3, <1>5, <1>9 DEF LiteralsAre, Left
    <2>2. UnsafeTypeOK'
      BY <1>2, <1>3, <1>5, <1>6, <2>1 DEF UnsafeTypeOK
    <2>3. ~Fits(LastRead)'
      <3>1. WrittenAt(r) > call.cap
        BY <1>3, <1>5, <1>9 DEF Left
      <3> QED
        BY <1>2, <1>3, <1>4, <1>5, <1>6, <3>1 DEF Fits, WrittenAt, MFLimit
    <2> QED
      BY <1>2, <1>6, <1>8, <2>1, <2>2, <2>3 DEF UnsafeInv, Standing
  <1>10. CASE ~(Left < q.lit)
    <2> DEFINE g == [k \in 1..q.lit |-> at' - q.lit + k - 1]
    <2>1. out' = out \o g
      BY <1>1, <1>10 DEF LiteralsAre
    <2>2. Run(g, q.lit)
      BY DEF Run
    <2>3. PICK l \in Nat : l = Len(out) + q.lit
      BY <1>3, <1>5
    <2> HIDE DEF g
    <2>4. Run(out', l) /\ Len(out') = l
      BY <1>2, <1>3, <1>5, <2>1, <2>2, <2>3, JoinedAre
    <2>5. l <= call.cap /\ l = WrittenAt(r)
      BY <1>3, <1>5, <1>10, <2>3 DEF Left
    <2>6. /\ label' = IF ~EndOfBlock THEN "match"
                      ELSE IF Len(out') = call.cap THEN "end" ELSE "error?"
          /\ label' = "end" => at' = call.src
      BY <1>1, <1>10 DEF LiteralsAre
    <2>7. UnsafeTypeOK'
      BY <1>2, <1>3, <1>5, <1>6, <1>7, <2>4, <2>5, <2>6 DEF UnsafeTypeOK
    <2>8. Standing'
      <3>1. label' = "match" => l + 12 <= call.cap
        BY <1>3, <2>3, <2>4, <2>6 DEF EndOfBlock, MFLimit
      <3>2. label' = "error?" => ~(l + 12 <= call.cap) /\ l # call.cap
        BY <1>3, <2>3, <2>4, <2>6 DEF EndOfBlock, MFLimit
      <3>3. label' = "end" => l = call.cap /\ at' = call.src
        BY <2>4, <2>6
      <3>4. label' = "error" => FALSE
        BY <2>6
      <3>5. label' = "error?" => ~Fits(LastRead)'
        BY <1>2, <1>4, <1>5, <1>6, <2>5, <3>2 DEF Fits, WrittenAt, MFLimit
      <3> QED
        BY <1>2, <1>5, <1>6, <1>7, <2>4, <2>5, <3>1, <3>3, <3>4, <3>5 DEF Standing, MFLimit
    <2> QED
      BY <1>2, <1>6, <1>8, <2>4, <2>7, <2>8 DEF UnsafeInv
  <1> QED
    BY <1>9, <1>10

LEMMA EndMissedKeeps ==
  ASSUME UnsafeInv, EndMissed
  PROVE  UnsafeInv'
  <1>1. /\ label = "error?" /\ label' = "error"
        /\ call' = call /\ out' = out /\ at' = at /\ log' = log
    BY DEF EndMissed
  <1>2. UnsafeTypeOK'
    BY <1>1 DEF UnsafeInv, UnsafeTypeOK
  <1>3. Reading'
    <2>1. /\ log # <<>> /\ Earlier(Len(log) - 1, LastRead.ip)
          /\ Len(log) > 1 => LastRead.op + LastLiterals <= call.cap
      BY <1>1, ReadingIs DEF UnsafeInv
    <2>2. (LastRead)' = LastRead
      BY <1>1 DEF LastRead
    <2>3. Earlier(Len(log) - 1, LastRead.ip)'
      BY <1>1, <2>1, <2>2 DEF Earlier, WentOn, MatchFits
    <2> QED
      BY <1>1, <2>1, <2>2, <2>3, ReadingPut
  <1>4. Fits(LastRead)' = Fits(LastRead)
    BY <1>1 DEF Fits, LastRead
  <1>5. Standing'
    BY <1>1, <1>4 DEF UnsafeInv, Standing
  <1> QED
    BY <1>1, <1>2, <1>3, <1>5 DEF UnsafeInv

(* Past the literals, the sequence being read is the last in the log. *)
LEMMA CurrentIs ==
  ASSUME UnsafeInv, label # "literals"
  PROVE  /\ current = LastRead.seq /\ LastRead \in Record /\ log # <<>> /\ Len(log) \in DOMAIN log
         /\ Earlier(Len(log) - 1, LastRead.ip)
         /\ Len(log) > 1 => LastRead.op + LastLiterals <= call.cap
  <1>1. /\ log # <<>> /\ Earlier(Len(log) - 1, LastRead.ip)
        /\ Len(log) > 1 => LastRead.op + LastLiterals <= call.cap
    BY ReadingIs DEF UnsafeInv
  <1>2. Len(log) \in Nat /\ DOMAIN log = 1..Len(log) /\ Len(log) >= 1 /\ LastRead \in Record
    BY <1>1, RecordsOf DEF UnsafeInv
  <1> QED
    BY <1>1, <1>2 DEF current, LastRead

LEMMA CopiedLength ==
  ASSUME NEW from, NEW to, NEW n
  PROVE  Run(Copied(from, to, n), n)
  <1> DEFINE byte == CHOOSE byte : byte = [u \in 0..n - 1 |->
             IF from + u \in to..to + u - 1 THEN byte[from + u - to] ELSE ByteAt(from + u)]
  <1>1. Copied(from, to, n) = [u \in 1..n |-> byte[u - 1]]
    BY DEF Copied
  <1> HIDE DEF byte
  <1> QED
    BY <1>1 DEF Run

LEMMA SeamLength ==
  ASSUME NEW q \in SequenceIn, BehindPrefix(q), UnsafeTypeOK
  PROVE  Run(SeamMatch(q), q.ml)
  <1> DEFINE extml == q.offset - (Len(out) + call.prefix)
             n == IF extml > q.ml THEN q.ml ELSE extml
             head == [k \in 1..n |-> k - 1 - call.prefix - extml]
             tail == CHOOSE tail : tail = [u \in 0..q.ml - n - 1 |->
                 LET a == u - call.prefix
                 IN IF a \in Len(out)..Len(out) + n - 1 THEN head[a - Len(out) + 1]
                    ELSE IF a >= Len(out) + n THEN tail[a - Len(out) - n] ELSE ByteAt(a)]
             rest == [u \in 1..q.ml - n |-> tail[u - 1]]
  <1>1. SeamMatch(q) = head \o rest
    BY DEF SeamMatch
  <1>2. Run(head, n)
    BY DEF Run
  <1> HIDE DEF tail
  <1>3. Run(rest, q.ml - n)
    BY DEF Run
  <1>4. /\ q.offset \in Nat /\ q.ml \in Nat /\ Len(out) \in Nat /\ call.prefix \in Nat
    BY SequencesOf, CallTypes
  <1>5. extml \in Nat
    BY <1>4 DEF BehindPrefix
  <1> HIDE DEF extml, head, rest
  <1>6. n \in Nat /\ q.ml - n \in Nat /\ q.ml = n + (q.ml - n)
    BY <1>4, <1>5
  <1> HIDE DEF n
  <1>7. PICK m \in Nat : m = q.ml - n
    BY <1>6
  <1>8. Run(head \o rest, q.ml)
    BY <1>2, <1>3, <1>4, <1>6, <1>7, JoinedAre
  <1> QED
    BY <1>1, <1>8

LEMMA MatchKeeps ==
  ASSUME UnsafeInv, Match
  PROVE  UnsafeInv'
  <1>1. /\ label = "match" /\ label' \in {"error", "matched"}
        /\ at' = MatchEnd(current, at) /\ at' <= call.src
        /\ call' = call /\ log' = log
        /\ label' = "error" => (TooLong(current) \/ TooFar(current)) /\ out' = out
        /\ label' = "matched" => ~TooLong(current) /\ ~TooFar(current)
    BY DEF Match
  <1>2. /\ current = LastRead.seq /\ LastRead \in Record /\ log # <<>>
        /\ Earlier(Len(log) - 1, LastRead.ip)
        /\ Len(log) > 1 => LastRead.op + LastLiterals <= call.cap
    BY <1>1, CurrentIs
  <1>3. /\ UnsafeTypeOK /\ log \in Seq(Record) /\ Run(out, Len(out))
        /\ call.cap \in Nat /\ call.src \in Nat /\ call.prefix \in Nat /\ call.dictSize \in Nat
        /\ at \in Nat /\ Len(out) \in Nat /\ Len(out) <= call.cap
    BY CallTypes DEF UnsafeInv
  <1>4. /\ at = ReadTo(LastRead) /\ Len(out) = WrittenAt(LastRead)
        /\ WrittenAt(LastRead) + MFLimit <= call.cap
    BY <1>1 DEF UnsafeInv, Standing
  <1>5. PICK q \in SequenceIn : q = LastRead.seq
    BY <1>2, RecordOf
  <1>6. /\ q.ml \in Nat /\ q.ml >= 4 /\ q.offset \in Nat
        /\ MatchEnd(q, at) \in Nat /\ MatchEnd(q, at) >= at + 2
    BY <1>3, SequencesOf, EndsOf
  <1>7. (LastRead)' = LastRead
    BY <1>1 DEF LastRead
  <1>8. Reading'
    <2>1. Earlier(Len(log) - 1, LastRead.ip)'
      BY <1>1, <1>2, <1>7 DEF Earlier, WentOn, MatchFits
    <2> QED
      BY <1>1, <1>2, <1>7, <2>1, ReadingPut
  <1>9. CASE label' = "error"
    <2>1. out' = out /\ (TooLong(q) \/ TooFar(q))
      BY <1>1, <1>2, <1>5, <1>9
    <2>2. UnsafeTypeOK'
      BY <1>1, <1>2, <1>3, <1>5, <1>6, <1>9, <2>1 DEF UnsafeTypeOK
    <2>3. ~Fits(LastRead)
      <3>1. ReadTo(LastRead) < call.src
        BY <1>1, <1>2, <1>3, <1>4, <1>5, <1>6
      <3>2. ~(WrittenAt(LastRead) + q.ml + 5 <= call.cap)
            \/ ~(q.offset <= call.dictSize + call.prefix + WrittenAt(LastRead))
        <4>1. PICK o \in Nat, c \in Nat, p \in Nat, d \in Nat :
                /\ o = Len(out) /\ c = call.cap /\ p = call.prefix /\ d = call.dictSize
          BY <1>3
        <4>2. c - o < q.ml \/ q.offset > o + p + d
          BY <2>1, <4>1 DEF TooLong, TooFar, Left
        <4>3. ~(o + q.ml + 5 <= c) \/ ~(q.offset <= d + p + o)
          BY <1>6, <4>2
        <4> QED
          BY <1>4, <4>1, <4>3
      <3>3. LitEnd(LastRead.seq, LastRead.ip) # call.src
        BY <1>3, <1>4, <3>1 DEF ReadTo
      <3> QED
        BY <1>5, <3>2, <3>3 DEF Fits, WrittenAt, LastLiterals
    <2>4. ~Fits(LastRead)'
      BY <1>1, <1>7, <2>3 DEF Fits
    <2> QED
      BY <1>1, <1>3, <1>8, <1>9, <2>1, <2>2, <2>4 DEF UnsafeInv, Standing
  <1>10. CASE label' = "matched"
    <2>1. ~TooLong(q) /\ ~TooFar(q)
      BY <1>1, <1>2, <1>5, <1>10
    <2>2. PICK g : /\ out' = out \o g
                   /\ g = IF BehindPrefix(q) THEN SeamMatch(q)
                          ELSE Copied(Len(out) - q.offset, Len(out), q.ml)
      BY <1>1, <1>2, <1>5, <1>10 DEF Match
    <2>3. Run(g, q.ml)
      BY <1>3, <2>2, SeamLength, CopiedLength
    <2>4. PICK l \in Nat : l = Len(out) + q.ml
      BY <1>3, <1>6
    <2>5. Run(out', l) /\ Len(out') = l
      <3>1. PICK o \in Nat, m \in Nat : o = Len(out) /\ m = q.ml
        BY <1>3, <1>6
      <3>2. Run(out, o) /\ Run(g, m) /\ l = o + m
        BY <1>3, <2>3, <2>4, <3>1
      <3>3. ASSUME NEW f, Run(f, o) PROVE Run(f \o g, l) /\ Len(f \o g) = l
        <4>1. o \in Nat /\ m \in Nat /\ Run(f, o) /\ Run(g, m)
          BY <3>2, <3>3
        <4>2. Run(f \o g, o + m) /\ Len(f \o g) = o + m
          BY ONLY <4>1, JoinedRun
        <4> QED
          BY <3>2, <4>2
      <3>4. Run(out \o g, l) /\ Len(out \o g) = l
        BY <3>2, <3>3
      <3> QED
        BY <2>2, <3>4
    <2>6. l <= call.cap
      BY <1>3, <1>6, <2>1, <2>4 DEF TooLong, Left
    <2>7. UnsafeTypeOK'
      BY <1>1, <1>2, <1>3, <1>5, <1>6, <1>10, <2>5, <2>6 DEF UnsafeTypeOK
    <2>8. q.offset <= call.dictSize + call.prefix + WrittenAt(LastRead)
      BY <1>3, <1>4, <1>6, <2>1 DEF TooFar
    <2>9. Standing'
      BY <1>1, <1>2, <1>4, <1>5, <1>7, <1>10, <2>4, <2>5, <2>8 DEF Standing
    <2> QED
      BY <1>1, <1>3, <1>8, <2>5, <2>7, <2>9 DEF UnsafeInv
  <1> QED
    BY <1>1, <1>9, <1>10

LEMMA MatchedKeeps ==
  ASSUME UnsafeInv, Matched
  PROVE  UnsafeInv'
  <1>1. /\ label = "matched" /\ label' \in {"error", "literals"}
        /\ call' = call /\ out' = out /\ at' = at /\ log' = log
        /\ label' = "error" => NoLiteralsLeft
        /\ label' = "literals" => ~NoLiteralsLeft
    BY DEF Matched
  <1>2. /\ LastRead \in Record /\ log # <<>> /\ Len(log) \in DOMAIN log
        /\ Earlier(Len(log) - 1, LastRead.ip)
        /\ Len(log) > 1 => LastRead.op + LastLiterals <= call.cap
    BY <1>1, CurrentIs
  <1>3. /\ UnsafeTypeOK /\ log \in Seq(Record) /\ Run(out, Len(out))
        /\ call.cap \in Nat /\ call.src \in Nat /\ call.prefix \in Nat /\ call.dictSize \in Nat
        /\ at \in Nat /\ at <= call.src /\ Len(out) \in Nat /\ Len(out) <= call.cap
    BY CallTypes DEF UnsafeInv
  <1>4. /\ at = MatchEnd(LastRead.seq, ReadTo(LastRead))
        /\ Len(out) = WrittenAt(LastRead) + LastRead.seq.ml
        /\ WrittenAt(LastRead) + MFLimit <= call.cap
        /\ LastRead.seq.offset <= call.dictSize + call.prefix + WrittenAt(LastRead)
    BY <1>1 DEF UnsafeInv, Standing
  <1>5. PICK q \in SequenceIn : q = LastRead.seq
    BY <1>2, RecordOf
  <1>6. /\ q.ml \in Nat /\ WrittenAt(LastRead) \in Nat /\ LastRead.ip \in Nat
        /\ ReadTo(LastRead) \in Nat /\ ReadTo(LastRead) >= LastRead.ip
        /\ at >= ReadTo(LastRead) + 2
    <2>1. LastRead.seq.lit \in Nat /\ LastRead.ip \in Nat
      BY <1>2, RecordOf
    <2> QED
      BY <1>2, <1>4, <1>5, <2>1, RecordOf
  <1>7. (LastRead)' = LastRead
    BY <1>1 DEF LastRead
  <1>8. UnsafeTypeOK'
    BY <1>1, <1>3 DEF UnsafeTypeOK
  <1>9. CASE label' = "error"
    <2>1. ~Fits(LastRead)
      <3>1. ~(WrittenAt(LastRead) + q.ml + 5 <= call.cap)
        <4>1. PICK o \in Nat, c \in Nat, w \in Nat :
                o = Len(out) /\ c = call.cap /\ w = WrittenAt(LastRead)
          BY <1>3, <1>6
        <4>2. c - o < 5
          BY <1>1, <1>9, <4>1 DEF NoLiteralsLeft, Left, LastLiterals
        <4>3. o = w + q.ml
          BY <1>4, <1>5, <4>1
        <4>4. ~(w + q.ml + 5 <= c)
          BY <4>2, <4>3
        <4> QED
          BY <4>1, <4>4
      <3>2. LitEnd(LastRead.seq, LastRead.ip) # call.src
        BY <1>3, <1>6 DEF ReadTo
      <3> QED
        BY <1>5, <3>1, <3>2 DEF Fits, WrittenAt, LastLiterals
    <2>2. ~Fits(LastRead)'
      BY <1>1, <1>7, <2>1 DEF Fits
    <2>3. Earlier(Len(log) - 1, LastRead.ip)'
      BY <1>1, <1>2, <1>7 DEF Earlier, WentOn, MatchFits
    <2>4. Reading'
      BY <1>1, <1>2, <1>7, <1>9, <2>3, ReadingPut
    <2> QED
      BY <1>1, <1>3, <1>8, <1>9, <2>2, <2>4 DEF UnsafeInv, Standing
  <1>10. CASE label' = "literals"
    <2>1. Len(out) + 5 <= call.cap
      BY <1>1, <1>3, <1>10 DEF NoLiteralsLeft, Left, LastLiterals
    <2>2. WentOn(LastRead, at)
      <3>1. WrittenAt(LastRead) + LastRead.seq.ml + LastLiterals <= call.cap
        BY <1>4, <2>1 DEF LastLiterals
      <3>2. MatchFits(LastRead)
        BY <1>4, <3>1 DEF MatchFits
      <3>3. MatchEnd(LastRead.seq, ReadTo(LastRead)) <= at
        BY <1>3, <1>4
      <3> QED
        BY <3>2, <3>3 DEF WentOn
    <2>3. Len(log) \in Nat /\ DOMAIN log = 1..Len(log) /\ \A k \in DOMAIN log : log[k] \in Record
      BY <1>3, RecordsOf
    <2>4. ASSUME NEW k \in DOMAIN log
          PROVE  WentOn(log[k], at)
      <3>1. CASE k = Len(log)
        BY <2>2, <3>1 DEF LastRead
      <3>2. CASE k # Len(log)
        <4>1. k <= Len(log) - 1
          BY <2>3, <2>4, <3>2
        <4>2. MatchFits(log[k]) /\ MatchEnd(log[k].seq, ReadTo(log[k])) <= LastRead.ip
          BY <1>2, <2>4, <4>1 DEF Earlier, WentOn
        <4>3. MatchEnd(log[k].seq, ReadTo(log[k])) \in Nat
          BY <2>3, <2>4, RecordOf
        <4>4. MatchEnd(log[k].seq, ReadTo(log[k])) <= at
          BY <1>3, <1>6, <4>2, <4>3
        <4> QED
          BY <4>2, <4>4 DEF WentOn
      <3> QED
        BY <3>1, <3>2
    <2>5. Earlier(Len(log), at)'
      BY <1>1, <2>4 DEF Earlier, WentOn, MatchFits
    <2>6. Reading'
      BY <1>1, <1>10, <2>1, <2>5, ReadingPut DEF LastLiterals
    <2>7. Standing'
      BY <1>10 DEF Standing
    <2> QED
      BY <1>1, <1>3, <1>8, <2>6, <2>7 DEF UnsafeInv
  <1> QED
    BY <1>1, <1>9, <1>10

LEMMA UnsafeStays == UnsafeInv /\ [UnsafeNext]_unsafeVars => UnsafeInv'
  <1>1. ASSUME UnsafeInv, UNCHANGED unsafeVars
        PROVE  UnsafeInv'
    <2>1. /\ call' = call /\ out' = out /\ at' = at /\ label' = label /\ log' = log
      BY <1>1 DEF unsafeVars
    <2>2. UnsafeTypeOK' /\ (log \in Seq(Record))' /\ Run(out, Len(out))'
      BY <1>1, <2>1 DEF UnsafeInv, UnsafeTypeOK
    <2>3. Reading'
      BY <1>1, <2>1 DEF UnsafeInv, Reading, LastRead, Earlier, WentOn, MatchFits
    <2>4. Standing'
      BY <1>1, <2>1 DEF UnsafeInv, Standing, LastRead, Fits
    <2> QED
      BY <2>2, <2>3, <2>4 DEF UnsafeInv
  <1> QED
    BY <1>1, LiteralsKeep, EndMissedKeeps, MatchKeeps, MatchedKeeps DEF UnsafeNext

(* A block that is accepted ends with at least LASTLITERALS literals, so   *)
(* every match before them left them the room that the format demands.     *)
LEMMA UnsafeJudges == UnsafeInv => UnsafeJudgesRight
  <1> SUFFICES ASSUME UnsafeInv PROVE AcceptsOnlyValid /\ RefusesNoValid
    BY DEF UnsafeJudgesRight
  <1>1. RefusesNoValid
    BY DEF UnsafeInv, Standing, RefusesNoValid, LastRead
  <1>2. ASSUME label = "end", NEW k \in DOMAIN log
        PROVE  Fits(log[k])
    <2>1. /\ LastRead \in Record /\ log # <<>> /\ Len(log) \in DOMAIN log
          /\ Earlier(Len(log) - 1, LastRead.ip)
          /\ Len(log) > 1 => LastRead.op + LastLiterals <= call.cap
      BY <1>2, CurrentIs
    <2>2. ReadTo(LastRead) = call.src /\ WrittenAt(LastRead) = call.cap
      BY <1>2 DEF UnsafeInv, Standing
    <2>3. Len(log) \in Nat /\ DOMAIN log = 1..Len(log) /\ \A i \in DOMAIN log : log[i] \in Record
      BY RecordsOf DEF UnsafeInv
    <2>4. CASE k = Len(log)
      BY <2>2, <2>4 DEF Fits, ReadTo, WrittenAt, LastRead
    <2>5. CASE k # Len(log)
      <3>1. k <= Len(log) - 1 /\ Len(log) > 1
        BY <1>2, <2>3, <2>5
      <3>2. MatchFits(log[k]) /\ MatchEnd(log[k].seq, ReadTo(log[k])) <= LastRead.ip
        BY <1>2, <2>1, <3>1 DEF Earlier, WentOn
      <3>3. PICK e \in Nat, i \in Nat, o \in Nat, l \in Nat :
              /\ e = MatchEnd(log[k].seq, ReadTo(log[k])) /\ i = LastRead.ip
              /\ o = LastRead.op /\ l = LastRead.seq.lit
        BY <1>2, <2>1, <2>3, RecordOf
      <3>4. ReadTo(LastRead) >= i + 1 + l /\ WrittenAt(LastRead) = o + l
        BY <2>1, <3>3, RecordOf
      <3>5. call.src \in Nat /\ call.cap \in Nat
        BY CallTypes DEF UnsafeInv
      <3>6. o + 5 <= call.cap
        BY <2>1, <3>1, <3>3 DEF LastLiterals
      <3>7. e + 1 + 5 <= call.src
        BY <2>2, <3>2, <3>3, <3>4, <3>5, <3>6
      <3>8. MatchEnd(log[k].seq, LitEnd(log[k].seq, log[k].ip)) + 1 + LastLiterals <= call.src
        BY <3>3, <3>7 DEF ReadTo, LastLiterals
      <3> QED
        BY <3>2, <3>8 DEF Fits, MatchFits, WrittenAt
    <2> QED
      BY <2>4, <2>5
  <1> QED
    BY <1>1, <1>2 DEF AcceptsOnlyValid

(* LZ4_decompress_fast, which is never told where its input ends, accepts  *)
(* only blocks that LZ4_decompress_safe could have accepted and refuses    *)
(* only at a sequence that breaks the format's end conditions, its size or *)
(* its history: for every input, every call and every size.                *)
THEOREM UnsafeDecoderJudgesRight == UnsafeSpec => []UnsafeJudgesRight
  <1>1. UnsafeInit => UnsafeInv
    BY UnsafeStarts
  <1>2. UnsafeInv /\ [UnsafeNext]_unsafeVars => UnsafeInv'
    BY UnsafeStays
  <1>3. UnsafeInv => UnsafeJudgesRight
    BY UnsafeJudges
  <1> QED
    BY <1>1, <1>2, <1>3, PTL DEF UnsafeSpec

(* It never writes past decompressedSize, and what it accepts fills it.    *)
THEOREM UnsafeTyped == UnsafeSpec => []UnsafeTypeOK
  <1>1. UnsafeInit => UnsafeInv
    BY UnsafeStarts
  <1>2. UnsafeInv /\ [UnsafeNext]_unsafeVars => UnsafeInv'
    BY UnsafeStays
  <1>3. UnsafeInv => UnsafeTypeOK
    BY DEF UnsafeInv
  <1> QED
    BY <1>1, <1>2, <1>3, PTL DEF UnsafeSpec

-----------------------------------------------------------------------------
(* Its text, and the byte at an address: that of the output is 0.          *)

UnsafeText == [k \in 1..HistorySize |-> k - HistorySize - 1] \o out
UnsafePart == CASE label = "matched" -> "literals" [] label = "error?" -> "match"
                [] OTHER -> label

Behind(h) == [k \in 1..h |-> k - h - 1]
Spoken(f, a) == IF a < 0 THEN a ELSE f[a + 1]
SpeaksAll(t, h, f, o) == \A a \in -h..o - 1 : t[h + a + 1] = Spoken(f, a)
LEMMA TextSpeaks ==
  ASSUME NEW h \in Nat, NEW o \in Nat, NEW f, Run(f, o)
  PROVE  /\ Run(Behind(h) \o f, h + o) /\ Len(Behind(h) \o f) = h + o
         /\ SpeaksAll(Behind(h) \o f, h, f, o)
  <1> DEFINE b == Behind(h)
             t == b \o f
  <1>1. Run(b, h) /\ \A k \in 1..h : b[k] = k - h - 1
    BY DEF Run, Behind
  <1> HIDE DEF b
  <1>2. PICK l \in Nat : l = h + o
    OBVIOUS
  <1>3. /\ Run(t, l) /\ Len(t) = l
        /\ \A i \in 1..l : t[i] = IF i <= h THEN b[i] ELSE f[i - h]
    <2>1. Run(t, l) /\ Len(t) = l /\ Joined(t, b, f, h, l)
      BY <1>1, <1>2, JoinedAre
    <2> QED
      BY <2>1 DEF Joined
  <1> HIDE DEF t
  <1>4. ASSUME NEW a \in -h..o - 1
        PROVE  t[h + a + 1] = Spoken(f, a)
    <2>1. PICK i \in 1..l : i = h + a + 1
      BY <1>2
    <2>2. (i <= h <=> a < 0) /\ i - h = a + 1 /\ i - h - 1 = a
      BY <2>1
    <2>3. a < 0 => t[i] = a
      BY <1>1, <1>3, <2>2
    <2>4. ~(a < 0) => t[i] = f[a + 1]
      BY <1>3, <2>2
    <2> QED
      BY <2>1, <2>3, <2>4 DEF Spoken
  <1> QED
    BY <1>2, <1>3, <1>4 DEF SpeaksAll, t, b

(* What the text gains, by address. *)
Gained(f, o, g, n) == \A k \in 1..n : f[o + k] = g[k]
Repeating(f, o, n, d) == \A u \in 0..n - 1 : f[o + u + 1] = Spoken(f, o + u - d)
LEMMA TextJoined ==
  ASSUME NEW h \in Nat, NEW o \in Nat, NEW n \in Nat, NEW f, NEW g, Run(f, o), Run(g, n)
  PROVE  /\ Lengthens(Behind(h) \o (f \o g), Behind(h) \o f, n)
         /\ Run(f \o g, o + n) /\ Gained(f \o g, o, g, n)
         /\ Gained(Behind(h) \o (f \o g), h + o, g, n)
  <1> DEFINE fg == f \o g
             s == Behind(h) \o f
             t == Behind(h) \o fg
  <1>1. PICK l \in Nat : l = o + n
    OBVIOUS
  <1>2. /\ Run(fg, l)
        /\ \A i \in 1..l : fg[i] = IF i <= o THEN f[i] ELSE g[i - o]
    <2>1. Run(fg, l) /\ Joined(fg, f, g, o, l)
      BY <1>1, JoinedAre
    <2> QED
      BY <2>1 DEF Joined
  <1> HIDE DEF fg
  <1>3. Run(s, h + o) /\ SpeaksAll(s, h, f, o)
    BY TextSpeaks
  <1>4. Run(t, h + l) /\ SpeaksAll(t, h, fg, l)
    BY <1>2, TextSpeaks
  <1> HIDE DEF s, t
  <1>5. ASSUME NEW i \in 1..h + o PROVE t[i] = s[i]
    <2>1. PICK a \in -h..o - 1 : a = i - h - 1
      OBVIOUS
    <2>2. a \in -h..l - 1 /\ h + a + 1 = i
      BY <1>1, <2>1
    <2>3. t[i] = Spoken(fg, a) /\ s[i] = Spoken(f, a)
      BY <1>3, <1>4, <2>2 DEF SpeaksAll
    <2>4. ~(a < 0) => a + 1 \in 1..l /\ a + 1 <= o
      BY <1>1, <2>1
    <2>5. Spoken(fg, a) = Spoken(f, a)
      BY <1>2, <2>4 DEF Spoken
    <2> QED
      BY <2>3, <2>5
  <1>6. PICK p \in Nat, q \in Nat : p = h + o /\ q = h + l /\ q = p + n
    BY <1>1
  <1>7. Begins(s, p, t)
    BY <1>5, <1>6 DEF Begins
  <1>8. Run(s, p) /\ Run(t, q)
    BY <1>3, <1>4, <1>6
  <1>9. Lengthens(t, s, n)
    <2>1. p \in Nat /\ n \in Nat /\ q \in Nat /\ q = p + n
      BY <1>6
    <2>2. Len(t) - Len(s) = n /\ SubSeq(t, 1, Len(s)) = s
      BY ONLY <2>1, <1>7, <1>8, BeginningOf
    <2> QED
      BY <2>2 DEF Lengthens
  <1>10. ASSUME NEW k \in 1..n PROVE fg[o + k] = g[k] /\ t[h + o + k] = g[k]
    <2>1. PICK i \in 1..l : i = o + k
      BY <1>1
    <2>2. ~(i <= o) /\ i - o = k
      BY <2>1
    <2>3. fg[i] = g[k]
      BY <1>2, <2>2
    <2>4. PICK a \in -h..l - 1 : a = i - 1
      OBVIOUS
    <2>5. h + a + 1 = h + o + k /\ ~(a < 0) /\ a + 1 = i
      BY <2>1, <2>4
    <2>6. t[h + o + k] = fg[i]
      BY <1>4, <2>5 DEF SpeaksAll, Spoken
    <2> QED
      BY <2>1, <2>3, <2>6
  <1>11. Gained(fg, o, g, n) /\ Gained(t, h + o, g, n)
    BY <1>10 DEF Gained
  <1> QED
    BY <1>1, <1>2, <1>9, <1>11 DEF fg, s, t

LEMMA TextEchoes ==
  ASSUME NEW h \in Nat, NEW o \in Nat, NEW n \in Nat, NEW f, Run(f, o + n),
         NEW d \in Nat, d > 0, d <= o + h, Repeating(f, o, n, d)
  PROVE  Echoes(Behind(h) \o f, h + o, d, n)
  <1> DEFINE t == Behind(h) \o f
  <1>1. SpeaksAll(t, h, f, o + n)
    BY TextSpeaks
  <1> HIDE DEF t
  <1>2. ASSUME NEW k \in h + o + 1..h + o + n
        PROVE  k - d >= 1 /\ t[k] = t[k - d]
    <2>1. PICK u \in 0..n - 1 : u = k - h - o - 1
      OBVIOUS
    <2>2. PICK a \in -h..o + n - 1 : a = o + u
      OBVIOUS
    <2>3. PICK b \in -h..o + n - 1 : b = o + u - d
      OBVIOUS
    <2>4. h + a + 1 = k /\ h + b + 1 = k - d /\ ~(a < 0)
      BY <2>1, <2>2, <2>3
    <2>5. t[k] = f[a + 1] /\ t[k - d] = Spoken(f, b)
      BY <1>1, <2>4 DEF SpeaksAll, Spoken
    <2>6. f[o + u + 1] = Spoken(f, o + u - d)
      BY DEF Repeating
    <2> QED
      BY <2>2, <2>3, <2>4, <2>5, <2>6
  <1> QED
    BY <1>2 DEF Echoes, t

LEMMA BytesAt ==
  ASSUME UnsafeTypeOK, NEW o \in Nat, o = Len(out), NEW a \in Int, a >= -call.prefix, a < o
  PROVE  ByteAt(a) = Spoken(out, a)
  <1>1. PICK p \in Nat : p = call.prefix
    BY CallTypes
  <1>2. CASE a < 0
    <2>1. a \in -call.prefix..-1
      BY <1>1, <1>2
    <2> QED
      BY <1>2, <2>1 DEF ByteAt, Spoken
  <1>3. CASE ~(a < 0)
    <2>1. a \notin -call.prefix..-1 /\ a \in 0..Len(out) - 1
      BY <1>1, <1>3
    <2> QED
      BY <1>3, <2>1 DEF ByteAt, Spoken
  <1> QED
    BY <1>2, <1>3

(* The byte by byte copy repeats the text, however close it starts. *)
LEMMA CopiedIs ==
  ASSUME NEW o \in Nat, NEW d \in Nat, d > 0, NEW n \in Nat
  PROVE  \A u \in 0..n - 1 :
           Copied(o - d, o, n)[u + 1] =
             IF u >= d THEN Copied(o - d, o, n)[u - d + 1] ELSE ByteAt(o - d + u)
  <1>1. PICK from \in Int : from = o - d
    OBVIOUS
  <1> DEFINE B(b, u) == IF from + u \in o..o + u - 1 THEN b[from + u - o] ELSE ByteAt(from + u)
             byte == CHOOSE byte : byte = [u \in 0..n - 1 |-> B(byte, u)]
             w == [u \in 0..n - 1 |-> ByteAt(from + (u % d))]
             g == Copied(from, o, n)
  <1>2. ASSUME NEW b, NEW u \in 0..n - 1
        PROVE  B(b, u) = IF u >= d THEN b[u - d] ELSE ByteAt(from + u)
    <2>1. from + u \in o..o + u - 1 <=> u >= d
      BY <1>1
    <2>2. from + u - o = u - d
      BY <1>1
    <2> QED
      BY <2>1, <2>2
  <1>3. g = [u \in 1..n |-> byte[u - 1]]
    BY DEF Copied
  <1> HIDE DEF g
  <1>4. ASSUME NEW u \in 0..n - 1 PROVE w[u] = B(w, u)
    <2>1. CASE u >= d
      <3>1. PICK v \in 0..n - 1 : v = u - d
        BY <2>1
      <3>2. u % d = v % d
        <4>1. u = v + d /\ v \in Nat
          BY <3>1
        <4>2. (v + d) % d = v % d
          BY <4>1, Turn
        <4> QED
          BY <4>1, <4>2
      <3>3. w[u] = w[v]
        BY <3>2
      <3> QED
        BY <1>2, <2>1, <3>1, <3>3
    <2>2. CASE ~(u >= d)
      <3>1. u % d = u
        BY <2>2, NoTurn
      <3> QED
        BY <1>2, <2>2, <3>1
    <2> QED
      BY <2>1, <2>2
  <1> HIDE DEF B
  <1>5. w = [u \in 0..n - 1 |-> B(w, u)]
    BY <1>4
  <1> HIDE DEF w
  <1>6. byte = [u \in 0..n - 1 |-> B(byte, u)]
    BY <1>5
  <1> HIDE DEF byte
  <1>7. ASSUME NEW u \in 0..n - 1
        PROVE  g[u + 1] = IF u >= d THEN g[u - d + 1] ELSE ByteAt(from + u)
    <2>1. u + 1 \in 1..n /\ u + 1 - 1 = u
      OBVIOUS
    <2>2. g[u + 1] = byte[u]
      BY <1>3, <2>1
    <2>3. byte[u] = B(byte, u)
      BY <1>6
    <2>4. byte[u] = IF u >= d THEN byte[u - d] ELSE ByteAt(from + u)
      BY <1>2, <2>3
    <2>5. u >= d => g[u - d + 1] = byte[u - d]
      <3>1. u >= d => u - d + 1 \in 1..n /\ u - d + 1 - 1 = u - d
        OBVIOUS
      <3> QED
        BY <1>3, <3>1
    <2> QED
      BY <2>2, <2>4, <2>5
  <1> QED
    BY <1>1, <1>7 DEF g

LEMMA CopiedRepeats ==
  ASSUME UnsafeTypeOK, NEW o \in Nat, o = Len(out), Run(out, o), NEW d \in Nat, d > 0,
         d <= o + call.prefix, NEW n \in Nat
  PROVE  Repeating(out \o Copied(o - d, o, n), o, n, d)
  <1> DEFINE g == Copied(o - d, o, n)
             f == out \o g
  <1>1. \A u \in 0..n - 1 : g[u + 1] = IF u >= d THEN g[u - d + 1] ELSE ByteAt(o - d + u)
    BY CopiedIs
  <1>2. Run(g, n)
    BY CopiedLength
  <1> HIDE DEF g
  <1>3. PICK l \in Nat : l = o + n
    OBVIOUS
  <1>4. \A i \in 1..l : f[i] = IF i <= o THEN out[i] ELSE g[i - o]
    <2>1. o \in Nat /\ n \in Nat /\ l \in Nat /\ l = o + n /\ Run(out, o) /\ Run(g, n)
      BY <1>2, <1>3
    <2>2. Joined(f, out, g, o, l)
      BY ONLY <2>1, JoinedAre
    <2> QED
      BY <2>2 DEF Joined
  <1> HIDE DEF f
  <1>5. PICK p \in Nat : p = call.prefix
    BY CallTypes
  <1>6. ASSUME NEW u \in 0..n - 1
        PROVE  f[o + u + 1] = Spoken(f, o + u - d)
    <2>1. f[o + u + 1] = g[u + 1]
      <3>1. o + u + 1 \in 1..l /\ ~(o + u + 1 <= o) /\ o + u + 1 - o = u + 1
        BY <1>3
      <3> QED
        BY <1>4, <3>1
    <2>2. CASE u >= d
      <3>1. PICK i \in 1..l : i = o + u - d + 1
        <4>1. o \in Int /\ d \in Int /\ u \in Int /\ n \in Int /\ u <= n - 1
          OBVIOUS
        <4>2. PICK j \in Int : j = o + u - d + 1
          BY ONLY <4>1
        <4>3. j \in 1..l
          BY <1>3, <2>2, <4>1, <4>2
        <4> QED
          BY <4>2, <4>3
      <3>2. ~(i <= o) /\ i - o = u - d + 1 /\ ~(o + u - d < 0) /\ o + u - d + 1 = i
        BY <2>2, <3>1
      <3>3. f[i] = g[i - o]
        BY <1>4, <3>2
      <3>4. Spoken(f, o + u - d) = f[i]
        BY <3>2 DEF Spoken
      <3>5. g[u + 1] = g[u - d + 1]
        BY <1>1, <2>2
      <3> QED
        BY <2>1, <3>2, <3>3, <3>4, <3>5
    <2>3. CASE ~(u >= d)
      <3>1. PICK a \in Int : a = o - d + u
        <4>1. o \in Int /\ d \in Int /\ u \in Int
          OBVIOUS
        <4> QED
          BY ONLY <4>1
      <3>2. a >= -call.prefix /\ a < o /\ o + u - d = a
        BY <1>5, <2>3, <3>1
      <3>3. ByteAt(a) = Spoken(out, a)
        BY <3>2, BytesAt
      <3>4. ~(a < 0) => a + 1 \in 1..l /\ a + 1 <= o
        BY <1>3, <3>2
      <3>5. Spoken(f, a) = Spoken(out, a)
        BY <1>4, <3>4 DEF Spoken
      <3>6. g[u + 1] = ByteAt(a)
        BY <1>1, <2>3, <3>1
      <3> QED
        BY <2>1, <3>2, <3>3, <3>5, <3>6
    <2> QED
      BY <2>2, <2>3
  <1> QED
    BY <1>6 DEF Repeating, f, g

(* The match in two parts: what the dictionary has of it, and the rest. *)
HeadIs(head, o, d, n) == \A k \in 1..n : head[k] = o - d + k - 1
SeamByte(b, head, o, p, n, u) ==
  IF u - p \in o..o + n - 1 THEN head[u - p - o + 1]
  ELSE IF u - p >= o + n THEN b[u - p - o - n] ELSE ByteAt(u - p)
TailIs(tail, head, o, p, n, l) == tail = [u \in 0..l - 1 |-> SeamByte(tail, head, o, p, n, u)]
Following(tail, l) == [u \in 1..l |-> tail[u - 1]]
RestIs(rest, head, o, p, n, l) ==
  \A u \in 0..l - 1 :
    rest[u + 1] = IF u - p \in o..o + n - 1 THEN head[u - p - o + 1]
                  ELSE IF u - p >= o + n THEN rest[u - p - o - n + 1] ELSE ByteAt(u - p)

LEMMA SeamByteIs ==
  ASSUME NEW o \in Nat, NEW p \in Nat, NEW n \in Nat, NEW d \in Nat, d = n + o + p,
         NEW head, NEW b, NEW u \in Nat
  PROVE  /\ u < o + p => SeamByte(b, head, o, p, n, u) = ByteAt(u - p)
         /\ u >= o + p /\ u < d => SeamByte(b, head, o, p, n, u) = head[u - p - o + 1]
         /\ u >= d => SeamByte(b, head, o, p, n, u) = b[u - d]
  <1>1. PICK a \in Int : a = u - p
    OBVIOUS
  <1>2. PICK c \in Int : c = o + n - 1
    OBVIOUS
  <1>3. CASE u < o + p
    <2>1. a \notin o..c /\ ~(a >= o + n)
      BY <1>1, <1>2, <1>3
    <2> QED
      BY <1>1, <1>2, <1>3, <2>1 DEF SeamByte
  <1>4. CASE u >= o + p /\ u < d
    <2>1. a \in o..c
      BY <1>1, <1>2, <1>4
    <2> QED
      BY <1>1, <1>2, <1>4, <2>1 DEF SeamByte
  <1>5. CASE u >= d
    <2>1. a \notin o..c /\ a >= o + n /\ a - o - n = u - d
      BY <1>1, <1>2, <1>5
    <2>2. SeamByte(b, head, o, p, n, u) = b[a - o - n]
      BY <1>1, <1>2, <2>1 DEF SeamByte
    <2> QED
      BY <1>1, <1>5, <2>1, <2>2
  <1> QED
    BY <1>3, <1>4, <1>5

LEMMA SeamTurns ==
  ASSUME NEW o \in Nat, NEW p \in Nat, NEW n \in Nat, n > 0,
         NEW d \in Nat, d = n + o + p, NEW u \in Nat
  PROVE  /\ u < o + p => (u + n) % d = u + n /\ ~(u + n < n) /\ u + n - n - p = u - p
         /\ u >= o + p /\ u < d => (u + n) % d = u - o - p /\ u - o - p < n
         /\ u >= d => (u + n) % d = (u - d + n) % d
  <1>1. PICK x \in Nat : x = u + n
    OBVIOUS
  <1>2. d > 0
    OBVIOUS
  <1>3. u < o + p => x % d = x
    <2>1. u < o + p => x < d
      BY <1>1
    <2> QED
      BY <1>2, <2>1, NoTurn
  <1>4. u >= o + p /\ u < d => x % d = u - o - p /\ u - o - p < n
    <2> SUFFICES ASSUME u >= o + p, u < d PROVE x % d = u - o - p /\ u - o - p < n
      OBVIOUS
    <2>1. PICK y \in Int : y = u - o - p
      OBVIOUS
    <2>2. y \in Nat /\ y < n /\ y < d /\ x = y + d
      BY <1>1, <2>1
    <2>3. (y + d) % d = y % d
      BY <1>2, <2>2, Turn
    <2>4. y % d = y
      BY <1>2, <2>2, NoTurn
    <2> QED
      BY <2>1, <2>2, <2>3, <2>4
  <1>5. u >= d => x % d = (u - d + n) % d
    <2> SUFFICES ASSUME u >= d PROVE x % d = (u - d + n) % d
      OBVIOUS
    <2>1. PICK y \in Int : y = u - d + n
      OBVIOUS
    <2>2. y \in Nat /\ x = y + d
      BY <1>1, <2>1
    <2>3. (y + d) % d = y % d
      BY <1>2, <2>2, Turn
    <2> QED
      BY <2>1, <2>2, <2>3
  <1> QED
    BY <1>1, <1>3, <1>4, <1>5

LEMMA SeamFixed ==
  ASSUME NEW o \in Nat, NEW p \in Nat, NEW n \in Nat, n > 0, NEW l \in Nat,
         NEW d \in Nat, d = n + o + p, NEW head
  PROVE  \E w : TailIs(w, head, o, p, n, l)
  <1> DEFINE V(x) == IF x < n THEN head[x + 1] ELSE ByteAt(x - n - p)
             w == [u \in 0..l - 1 |-> V((u + n) % d)]
  <1>1. ASSUME NEW u \in 0..l - 1 PROVE w[u] = SeamByte(w, head, o, p, n, u)
    <2>1. u \in Nat /\ w[u] = V((u + n) % d)
      OBVIOUS
    <2>2. \A v \in 0..l - 1 : w[v] = V((v + n) % d)
      OBVIOUS
    <2> HIDE DEF w
    <2>3. CASE u < o + p
      <3>1. w[u] = ByteAt(u - p)
        BY <2>1, <2>3, SeamTurns
      <3> QED
        BY <2>1, <2>3, <3>1, SeamByteIs
    <2>4. CASE u >= o + p /\ u < d
      <3>1. w[u] = head[u - o - p + 1]
        BY <2>1, <2>4, SeamTurns
      <3>2. u - o - p + 1 = u - p - o + 1
        BY <2>1
      <3> QED
        BY <2>1, <2>4, <3>1, <3>2, SeamByteIs
    <2>5. CASE u >= d
      <3>1. PICK v \in Int : v = u - d
        BY <2>1
      <3>2. v \in 0..l - 1
        BY <2>5, <3>1
      <3>3. (u + n) % d = (v + n) % d
        <4>1. v + n \in Nat /\ u + n = (v + n) + d /\ d > 0
          BY <2>1, <3>1, <3>2
        <4>2. ((v + n) + d) % d = (v + n) % d
          BY ONLY <4>1, d \in Nat, Turn
        <4> QED
          BY <4>1, <4>2
      <3> HIDE DEF V
      <3>4. w[u] = w[v]
        BY <2>1, <2>2, <3>2, <3>3
      <3> QED
        BY <2>1, <2>5, <3>1, <3>4, SeamByteIs
    <2> QED
      BY <2>1, <2>3, <2>4, <2>5
  <1> HIDE DEF w
  <1>2. w = [u \in 0..l - 1 |-> w[u]]
    BY DEF w
  <1>3. w = [u \in 0..l - 1 |-> SeamByte(w, head, o, p, n, u)]
    BY <1>1, <1>2
  <1> QED
    BY <1>3 DEF TailIs

LEMMA RestOf ==
  ASSUME NEW o \in Nat, NEW p \in Nat, NEW n \in Nat, n > 0, NEW l \in Nat,
         NEW d \in Nat, d = n + o + p, NEW head, NEW tail,
         TailIs(tail, head, o, p, n, l)
  PROVE  RestIs(Following(tail, l), head, o, p, n, l)
  <1> DEFINE rest == Following(tail, l)
  <1>1. \A k \in 1..l : rest[k] = tail[k - 1]
    BY DEF Following
  <1> HIDE DEF rest
  <1>2. ASSUME NEW u \in 0..l - 1
        PROVE  rest[u + 1] = IF u - p \in o..o + n - 1 THEN head[u - p - o + 1]
                             ELSE IF u - p >= o + n THEN rest[u - p - o - n + 1]
                             ELSE ByteAt(u - p)
    <2>1. u + 1 \in 1..l /\ u + 1 - 1 = u
      OBVIOUS
    <2>2. rest[u + 1] = tail[u]
      BY <1>1, <2>1
    <2>3. tail[u] = SeamByte(tail, head, o, p, n, u)
      BY DEF TailIs
    <2>4. u - p >= o + n => rest[u - p - o - n + 1] = tail[u - p - o - n]
      <3> SUFFICES ASSUME u - p >= o + n
                   PROVE  rest[u - p - o - n + 1] = tail[u - p - o - n]
        OBVIOUS
      <3>1. PICK v \in Int : v = u - p - o - n
        BY <2>1
      <3>2. v \in 0..l - 1
        BY <3>1
      <3>3. v + 1 \in 1..l /\ v + 1 - 1 = v
        BY <3>2
      <3> QED
        BY <1>1, <3>1, <3>3
    <2> QED
      BY <2>2, <2>3, <2>4 DEF SeamByte
  <1> QED
    BY <1>2 DEF RestIs, rest

SeamIs(g, o, p, n, l, d) ==
  \E head, rest : /\ g = head \o rest /\ Run(head, n) /\ Run(rest, l) /\ HeadIs(head, o, d, n)
                  /\ l > 0 => d = n + o + p /\ RestIs(rest, head, o, p, n, l)

LEMMA SeamMatchIs ==
  ASSUME UnsafeTypeOK, NEW q \in SequenceIn, BehindPrefix(q),
         NEW o \in Nat, o = Len(out), NEW p \in Nat, p = call.prefix,
         NEW d \in Nat, d = q.offset, NEW e \in Nat, e = d - (o + p),
         NEW m \in Nat, m = q.ml, NEW n \in Nat, n = IF e > m THEN m ELSE e, n > 0,
         NEW l \in Nat, l = m - n
  PROVE  SeamIs(SeamMatch(q), o, p, n, l, d)
  <1> DEFINE head == [k \in 1..n |-> k - 1 - p - e]
             B(b, u) == LET a == u - p
                        IN IF a \in o..o + n - 1 THEN head[a - o + 1]
                           ELSE IF a >= o + n THEN b[a - o - n] ELSE ByteAt(a)
             tail == CHOOSE b : b = [u \in 0..l - 1 |-> B(b, u)]
             rest == Following(tail, l)
  <1>1. SeamMatch(q) = head \o rest
    BY DEF SeamMatch, Following
  <1>2. Run(head, n)
    BY DEF Run
  <1>3. HeadIs(head, o, d, n)
    <2> SUFFICES ASSUME NEW k \in 1..n PROVE head[k] = o - d + k - 1
      BY DEF HeadIs
    <2> QED
      OBVIOUS
  <1> HIDE DEF head
  <1>4. ASSUME l > 0 PROVE d = n + o + p /\ RestIs(rest, head, o, p, n, l)
    <2>1. d = n + o + p
      <3>1. n # m
        BY <1>4
      <3>2. n = e
        BY <3>1
      <3> QED
        BY <3>2
    <2>2. PICK w : w = [u \in 0..l - 1 |-> SeamByte(w, head, o, p, n, u)]
      <3>1. \E w : TailIs(w, head, o, p, n, l)
        BY <2>1, SeamFixed
      <3> QED
        BY <3>1, Zenon DEF TailIs
    <2>3. \A b, u : B(b, u) = SeamByte(b, head, o, p, n, u)
      BY DEF SeamByte
    <2> HIDE DEF B
    <2>4. w = [u \in 0..l - 1 |-> B(w, u)]
      BY <2>2, <2>3, Zenon
    <2>5. tail = [u \in 0..l - 1 |-> B(tail, u)]
      BY <2>4, Zenon
    <2> HIDE DEF tail
    <2>6. TailIs(tail, head, o, p, n, l)
      BY <2>3, <2>5, Zenon DEF TailIs
    <2>7. RestIs(Following(tail, l), head, o, p, n, l)
      BY <2>1, <2>6, RestOf
    <2> QED
      BY <2>1, <2>7
  <1> HIDE DEF tail
  <1>5. Run(rest, l)
    BY DEF Run, Following
  <1> HIDE DEF rest
  <1> QED
    BY <1>1, <1>2, <1>3, <1>4, <1>5 DEF SeamIs

LEMMA SeamRepeats ==
  ASSUME UnsafeTypeOK, NEW o \in Nat, o = Len(out), Run(out, o), NEW p \in Nat, p = call.prefix,
         NEW n \in Nat, NEW l \in Nat, NEW d \in Nat, n <= d - (o + p), NEW m \in Nat, m = n + l,
         NEW g, SeamIs(g, o, p, n, l, d)
  PROVE  Repeating(out \o g, o, m, d)
  <1> DEFINE f == out \o g
  <1>1. PICK head, rest : /\ g = head \o rest /\ Run(head, n) /\ Run(rest, l) /\ HeadIs(head, o, d, n)
                          /\ l > 0 => d = n + o + p /\ RestIs(rest, head, o, p, n, l)
    BY DEF SeamIs
  <1>2. Run(g, m) /\ Joined(g, head, rest, n, m)
    <2>1. n \in Nat /\ l \in Nat /\ m \in Nat /\ m = n + l
      OBVIOUS
    <2>2. Run(head \o rest, m) /\ Joined(head \o rest, head, rest, n, m)
      BY ONLY <1>1, <2>1, JoinedAre
    <2> QED
      BY <1>1, <2>2
  <1>3. PICK t \in Nat : t = o + m
    OBVIOUS
  <1>4. Joined(f, out, g, o, t)
    <2>1. o \in Nat /\ m \in Nat /\ t \in Nat /\ t = o + m /\ Run(out, o) /\ Run(g, m)
      BY <1>2, <1>3
    <2> QED
      BY ONLY <2>1, JoinedAre
  <1> HIDE DEF f
  <1>5. ASSUME NEW k \in 1..m PROVE f[o + k] = g[k]
    <2>1. PICK i \in 1..t : i = o + k
      BY <1>3
    <2>2. ~(i <= o) /\ i - o = k
      BY <2>1
    <2> QED
      BY <1>4, <2>1, <2>2 DEF Joined
  <1>6. ASSUME NEW k \in 1..n PROVE k \in 1..m /\ g[k] = head[k]
    BY <1>2 DEF Joined
  <1>7. ASSUME NEW k \in 1..l PROVE n + k \in 1..m /\ g[n + k] = rest[k]
    <2>1. PICK i \in 1..m : i = n + k
      OBVIOUS
    <2>2. ~(i <= n) /\ i - n = k
      BY <2>1
    <2> QED
      BY <1>2, <2>1, <2>2 DEF Joined
  <1>8. ASSUME NEW v \in 0..m - 1, v < n
        PROVE  f[o + v + 1] = Spoken(f, o + v - d)
    <2>1. v + 1 \in 1..n /\ o + (v + 1) = o + v + 1 /\ o + v - d < 0
      BY <1>8
    <2>2. f[o + v + 1] = head[v + 1]
      BY <1>5, <1>6, <2>1
    <2>3. head[v + 1] = o - d + (v + 1) - 1
      BY <1>1, <2>1 DEF HeadIs
    <2> QED
      BY <2>1, <2>2, <2>3 DEF Spoken
  <1>9. ASSUME NEW v \in 0..m - 1, ~(v < n)
        PROVE  f[o + v + 1] = Spoken(f, o + v - d)
    <2>1. PICK u \in 0..l - 1 : u = v - n
      BY <1>9
    <2>2. d = n + o + p /\ RestIs(rest, head, o, p, n, l)
      BY <1>1, <2>1
    <2>3. PICK a \in Int : a = u - p
      BY <2>1
    <2>4. o + v - d = a
      <3>1. o \in Int /\ p \in Int /\ n \in Int /\ v \in Int /\ u \in Int
        OBVIOUS
      <3> QED
        BY ONLY <2>1, <2>2, <2>3, <3>1
    <2>5. f[o + v + 1] = rest[u + 1]
      <3>1. u + 1 \in 1..l
        OBVIOUS
      <3>2. n + (u + 1) \in 1..m /\ g[n + (u + 1)] = rest[u + 1]
        BY <1>7, <3>1
      <3>3. f[o + (n + (u + 1))] = g[n + (u + 1)]
        BY <1>5, <3>2
      <3>4. o + (n + (u + 1)) = o + v + 1
        BY <2>1
      <3> QED
        BY <3>2, <3>3, <3>4
    <2>6. rest[u + 1] = IF a \in o..o + n - 1 THEN head[a - o + 1]
                        ELSE IF a >= o + n THEN rest[a - o - n + 1] ELSE ByteAt(a)
      BY <2>2, <2>3 DEF RestIs
    <2>7. CASE a \in o..o + n - 1
      <3>1. PICK k \in 1..n : k = a - o + 1
        BY <2>7
      <3>2. o + k = a + 1 /\ ~(a < 0)
        BY <2>7, <3>1
      <3>3. f[a + 1] = head[k]
        BY <1>5, <1>6, <3>2
      <3> QED
        BY <2>4, <2>5, <2>6, <2>7, <3>1, <3>2, <3>3 DEF Spoken
    <2>8. CASE a >= o + n
      <3>1. a \notin o..o + n - 1 /\ ~(a < 0)
        BY <2>8
      <3> o \in Nat /\ n \in Nat /\ p \in Nat /\ a \in Int /\ l \in Nat /\ u \in 0..l - 1
        OBVIOUS
      <3>2. PICK k \in Int : k = a - o - n + 1
        BY ONLY o \in Nat, n \in Nat, a \in Int
      <3>3. k \in 1..l /\ o + (n + k) = a + 1
        BY ONLY o \in Nat, n \in Nat, p \in Nat, a \in Int, l \in Nat, u \in 0..l - 1,
           k \in Int, <2>3, <2>8, <3>2
      <3>4. f[a + 1] = rest[k]
        BY <1>5, <1>7, <3>3
      <3> QED
        BY <2>4, <2>5, <2>6, <2>8, <3>1, <3>2, <3>4 DEF Spoken
    <2>9. CASE a < o
      <3>1. a \notin o..o + n - 1 /\ ~(a >= o + n) /\ a >= -p
        BY <2>3, <2>9
      <3>2. ByteAt(a) = Spoken(out, a)
        BY <2>9, <3>1, BytesAt
      <3>3. Spoken(f, a) = Spoken(out, a)
        <4>1. ~(a < 0) => a + 1 \in 1..t /\ a + 1 <= o
          BY <1>3, <2>9
        <4> QED
          BY <1>4, <4>1 DEF Spoken, Joined
      <3> QED
        BY <2>4, <2>5, <2>6, <3>1, <3>2, <3>3
    <2> QED
      BY <2>7, <2>8, <2>9
  <1> QED
    BY <1>8, <1>9 DEF Repeating, f

-----------------------------------------------------------------------------
(* Each step of it is one of the format's reader.                          *)

LEMMA ReaderPart ==
  /\ label \in {"literals", "matched"} => UnsafePart = "literals"
  /\ label \in {"match", "error?"} => UnsafePart = "match"
  /\ label \in {"end", "error"} => UnsafePart = label
  /\ label' \in {"literals", "matched"} => (UnsafePart)' = "literals"
  /\ label' \in {"match", "error?"} => (UnsafePart)' = "match"
  /\ label' \in {"end", "error"} => (UnsafePart)' = label'
  BY DEF UnsafePart

LEMMA ReaderText ==
  /\ UnsafeText = Behind(HistorySize) \o out
  /\ (UnsafeText)' = Behind((HistorySize)') \o out'
  /\ call' = call => (HistorySize)' = HistorySize
  BY DEF UnsafeText, Behind, HistorySize

LEMMA ReaderSame == ASSUME call' = call PROVE Reader!Same
  BY DEF Reader!Same

LEMMA ReaderFails ==
  ASSUME call' = call, out' = out, label' = "error"
  PROVE  Reader!FNext
  <1>1. (UnsafeText)' = UnsafeText /\ (UnsafePart)' = "error"
    BY ReaderText, ReaderPart
  <1> QED
    BY <1>1, ReaderSame DEF Reader!FNext, Reader!Fail, UnsafeText, UnsafePart

(* What is read is n bytes long, and where it stands in the text. *)
LEMMA ReaderGrows ==
  ASSUME UnsafeTypeOK, Run(out, Len(out)), call' = call,
         NEW n \in Nat, NEW g, Run(g, n), out' = out \o g
  PROVE  /\ Reader!Grows(n) /\ Len(UnsafeText) = HistorySize + Len(out)
         /\ Gained((UnsafeText)', HistorySize + Len(out), g, n)
  <1>1. PICK h \in Nat : h = HistorySize
    BY CallTypes DEF HistorySize
  <1>2. PICK o \in Nat : o = Len(out)
    BY CallTypes
  <1>3. Run(out, o)
    BY <1>2
  <1>4. /\ Lengthens(Behind(h) \o (out \o g), Behind(h) \o out, n)
        /\ Gained(Behind(h) \o (out \o g), h + o, g, n)
    BY ONLY <1>1, <1>2, <1>3, n \in Nat, h \in Nat, o \in Nat, Run(g, n), TextJoined
  <1>5. Len(Behind(h) \o out) = h + o
    BY ONLY <1>3, h \in Nat, o \in Nat, TextSpeaks
  <1>6. UnsafeText = Behind(h) \o out /\ (UnsafeText)' = Behind(h) \o (out \o g)
    BY <1>1, ReaderText
  <1>7. Lengthens((UnsafeText)', UnsafeText, n)
    BY <1>4, <1>6
  <1>8. Reader!Grows(n)
    BY <1>7 DEF Reader!Grows, Reader!Grown, Lengthens, UnsafeText
  <1> QED
    BY <1>1, <1>2, <1>4, <1>5, <1>6, <1>8

LEMMA ReaderRepeats ==
  ASSUME UnsafeTypeOK, Run(out, Len(out)), call' = call,
         NEW n \in Nat, NEW g, Run(g, n), out' = out \o g,
         NEW d \in Nat, d <= Len(out) + HistorySize,
         d > 0 => Repeating(out \o g, Len(out), n, d)
  PROVE  Reader!AtDistance(d, n)
  <1>1. PICK h \in Nat : h = HistorySize
    BY CallTypes DEF HistorySize
  <1>2. PICK o \in Nat : o = Len(out)
    BY CallTypes
  <1>3. Len(UnsafeText) = h + o
    BY <1>1, <1>2, ReaderGrows
  <1>4. CASE d > 0
    <2>1. PICK f : f = out \o g
      OBVIOUS
    <2>2. Run(f, o + n)
      BY <1>2, <2>1, JoinedRun
    <2>3. d <= o + h /\ Repeating(f, o, n, d)
      BY <1>1, <1>2, <1>4, <2>1
    <2>4. Echoes(Behind(h) \o f, h + o, d, n)
      BY ONLY <1>4, <2>2, <2>3, h \in Nat, o \in Nat, n \in Nat, d \in Nat, TextEchoes
    <2>5. (UnsafeText)' = Behind(h) \o f
      BY <1>1, <2>1, ReaderText
    <2>6. Echoes((UnsafeText)', Len(UnsafeText), d, n)
      BY <1>3, <2>4, <2>5
    <2> QED
      BY <2>6 DEF Reader!AtDistance, Echoes, UnsafeText
  <1>5. CASE d = 0
    BY <1>5 DEF Reader!AtDistance
  <1> QED
    BY <1>4, <1>5

LEMMA UnsafeLiteralsFollow ==
  ASSUME UnsafeInv, UnsafeInv', Literals
  PROVE  Reader!FNext
  <1>1. PICK q, r : LiteralsAre(q, r)
    BY LiteralsRead
  <1>2. /\ UnsafeTypeOK /\ log \in Seq(Record) /\ Run(out, Len(out))
        /\ label = "literals" /\ call' = call
    BY LiteralsRead DEF UnsafeInv
  <1>3. /\ call.cap \in Nat /\ call.src \in Nat /\ at \in Nat /\ Len(out) \in Nat
    BY <1>2, CallTypes
  <1>4. q \in SequenceIn /\ r \in Record /\ r.seq = q
    BY <1>1, <1>3 DEF LiteralsAre, Record
  <1>5. q.lit \in Nat /\ at' \in Nat /\ at' >= at + q.lit
    <2>1. LitEnd(q, at) \in Nat /\ LitEnd(q, at) >= at + 1 + q.lit /\ q.lit \in Nat
      BY <1>3, <1>4, SequencesOf, EndsOf
    <2> QED
      BY <1>1, <1>3, <2>1 DEF LiteralsAre
  <1>6. (current)' = q
    <2>1. log' = Append(log, r)
      BY <1>1 DEF LiteralsAre
    <2>2. (LastRead)' = r /\ log' # <<>>
      BY <1>2, <1>4, <2>1, LogGrows
    <2> QED
      BY <1>4, <2>2 DEF current, LastRead
  <1>7. CASE Left < q.lit
    <2>1. label' = "error" /\ out' = out
      BY <1>1, <1>3, <1>5, <1>7 DEF LiteralsAre, Left
    <2> QED
      BY <1>2, <2>1, ReaderFails
  <1>8. CASE ~(Left < q.lit)
    <2> DEFINE g == [k \in 1..q.lit |-> at' - q.lit + k - 1]
    <2>1. /\ out' = out \o g /\ label' \in {"match", "end", "error?"}
          /\ label' = "end" => at' = call.src
      BY <1>1, <1>8 DEF LiteralsAre
    <2>2. Run(g, q.lit) /\ \A k \in 1..q.lit : g[k] = at' - q.lit + k - 1
      BY DEF Run
    <2> HIDE DEF g
    <2>3. /\ Reader!Grows(q.lit) /\ Len(UnsafeText) = HistorySize + Len(out)
          /\ Gained((UnsafeText)', HistorySize + Len(out), g, q.lit)
      BY <1>2, <1>5, <2>1, <2>2, ReaderGrows
    <2>4. \A k \in 1..q.lit : (UnsafeText)'[Len(UnsafeText) + k] = at' - q.lit + k - 1
      BY <2>2, <2>3 DEF Gained
    <2>5. Reader!FromInput(q.lit)
      BY <2>4 DEF Reader!FromInput, UnsafeText
    <2>6. UnsafePart = "literals" /\ Reader!Same
      BY <1>2, ReaderPart, ReaderSame
    <2> DEFINE s == (current)'
    <2>9. Reader!Grows(s.lit) /\ Reader!FromInput(s.lit) /\ at' >= at + s.lit
      <3>1. PICK n : n = q.lit
        OBVIOUS
      <3>2. s.lit = n
        BY <1>6, <3>1
      <3>3. Reader!Grows(n) /\ Reader!FromInput(n) /\ at' >= at + n
        BY <1>5, <2>3, <2>5, <3>1 DEF Reader!Grows, Reader!FromInput
      <3> QED
        BY <3>2, <3>3 DEF Reader!Grows, Reader!FromInput
    <2>7. CASE label' = "end"
      <3>1. (UnsafePart)' = "end"
        BY <2>7, ReaderPart
      <3>2. Reader!Last
        <4>1. at' = call.src
          BY <2>1, <2>7
        <4> QED
          BY <2>6, <2>9, <3>1, <4>1 DEF Reader!Last, UnsafePart
      <3> QED
        BY <3>2 DEF Reader!FNext
    <2>8. CASE label' \in {"match", "error?"}
      <3>1. (UnsafePart)' = "match"
        BY <2>8, ReaderPart
      <3>2. Reader!Literals
        BY <2>6, <2>9, <3>1 DEF Reader!Literals, UnsafePart
      <3> QED
        BY <3>2 DEF Reader!FNext
    <2> QED
      BY <2>1, <2>7, <2>8
  <1> QED
    BY <1>7, <1>8

(* The match of a sequence, in one part or two, repeats the text. *)
LEMMA MatchBytes ==
  ASSUME UnsafeTypeOK, Run(out, Len(out)), NEW q \in SequenceIn, ~TooFar(q),
         NEW g, g = IF BehindPrefix(q) THEN SeamMatch(q)
                    ELSE Copied(Len(out) - q.offset, Len(out), q.ml)
  PROVE  /\ Run(g, q.ml) /\ q.offset <= Len(out) + HistorySize
         /\ q.offset > 0 => Repeating(out \o g, Len(out), q.ml, q.offset)
  <1>1. PICK o \in Nat, p \in Nat, s \in Nat, d \in Nat, m \in Nat :
          /\ o = Len(out) /\ p = call.prefix /\ s = call.dictSize
          /\ d = q.offset /\ m = q.ml /\ m >= 4
    BY CallTypes, SequencesOf
  <1>2. Run(g, q.ml)
    BY SeamLength, CopiedLength
  <1>3. q.offset <= Len(out) + HistorySize
    <2>1. ~(d > o + p + s)
      BY <1>1 DEF TooFar
    <2>2. d <= o + (s + p)
      BY <2>1
    <2> QED
      BY <1>1, <2>2 DEF HistorySize
  <1>4. CASE BehindPrefix(q)
    <2>1. d > o + p
      BY <1>1, <1>4 DEF BehindPrefix
    <2>2. PICK e \in Nat : e = d - (o + p)
      BY <2>1
    <2>3. PICK n \in Nat : n = IF e > m THEN m ELSE e
      OBVIOUS
    <2>4. n > 0 /\ n <= m /\ n <= e
      BY <1>1, <2>1, <2>2, <2>3
    <2>5. PICK l \in Nat : l = m - n
      BY <2>4
    <2>6. SeamIs(SeamMatch(q), o, p, n, l, d)
      BY <1>1, <1>4, <2>2, <2>3, <2>4, <2>5, SeamMatchIs
    <2>7. m = n + l /\ n <= d - (o + p) /\ g = SeamMatch(q) /\ Run(out, o)
      BY <1>1, <1>4, <2>2, <2>4, <2>5
    <2>8. Repeating(out \o g, o, m, d)
      BY ONLY UnsafeTypeOK, <1>1, <2>6, <2>7, o \in Nat, p \in Nat, n \in Nat, l \in Nat,
         d \in Nat, m \in Nat, SeamRepeats
    <2> QED
      BY <1>1, <1>2, <1>3, <2>8
  <1>5. CASE ~BehindPrefix(q)
    <2>1. d <= o + p
      BY <1>1, <1>5 DEF BehindPrefix
    <2>2. g = Copied(o - d, o, m) /\ Run(out, o)
      BY <1>1, <1>5
    <2>3. d > 0 => Repeating(out \o Copied(o - d, o, m), o, m, d)
      BY <1>1, <2>1, <2>2, CopiedRepeats
    <2> QED
      BY <1>1, <1>2, <1>3, <2>2, <2>3
  <1> QED
    BY <1>4, <1>5

LEMMA UnsafeMatchFollows ==
  ASSUME UnsafeInv, Match
  PROVE  Reader!FNext
  <1>1. /\ label = "match" /\ label' \in {"error", "matched"}
        /\ call' = call /\ log' = log
        /\ label' = "error" => out' = out
        /\ label' = "matched" => ~TooFar(current)
    BY DEF Match
  <1>2. UnsafeTypeOK /\ Run(out, Len(out))
    BY DEF UnsafeInv
  <1>3. CASE label' = "error"
    BY <1>1, <1>3, ReaderFails
  <1>4. CASE label' = "matched"
    <2>1. PICK q \in SequenceIn : q = current
      BY <1>1, CurrentIs, RecordOf
    <2>2. PICK g : /\ out' = out \o g
                   /\ g = IF BehindPrefix(q) THEN SeamMatch(q)
                          ELSE Copied(Len(out) - q.offset, Len(out), q.ml)
      BY <1>4, <2>1 DEF Match
    <2>3. ~TooFar(q)
      BY <1>1, <1>4, <2>1
    <2>4. /\ Run(g, q.ml) /\ q.offset <= Len(out) + HistorySize
          /\ q.offset > 0 => Repeating(out \o g, Len(out), q.ml, q.offset)
      BY <1>2, <2>2, <2>3, MatchBytes
    <2>5. q.ml \in Nat /\ q.offset \in Nat
      BY SequencesOf
    <2>6. Reader!Grows(q.ml)
      BY <1>1, <1>2, <2>2, <2>4, <2>5, ReaderGrows
    <2>7. Reader!AtDistance(q.offset, q.ml)
      BY <1>1, <1>2, <2>2, <2>4, <2>5, ReaderRepeats
    <2>8. UnsafePart = "match" /\ (UnsafePart)' = "literals" /\ (current)' = current
      BY <1>1, <1>4, ReaderPart DEF current
    <2>9. Reader!Same /\ Reader!Grows(current.ml) /\ Reader!AtDistance(current.offset, current.ml)
      <3>1. Reader!Same
        BY <1>1, ReaderSame
      <3>2. Reader!Grows(current.ml)
        BY <2>1, <2>6 DEF Reader!Grows
      <3>3. Reader!AtDistance(current.offset, current.ml)
        BY <2>1, <2>7 DEF Reader!AtDistance
      <3> QED
        BY <3>1, <3>2, <3>3
    <2>10. Reader!Match
      BY <2>8, <2>9 DEF Reader!Match, UnsafePart
    <2> QED
      BY <2>10 DEF Reader!FNext
  <1> QED
    BY <1>1, <1>3, <1>4

LEMMA MatchedFollows ==
  ASSUME UnsafeInv, Matched
  PROVE  Reader!FNext
  <1>1. /\ label = "matched" /\ label' \in {"error", "literals"}
        /\ call' = call /\ out' = out /\ at' = at
    BY DEF Matched
  <1>2. at \in Nat
    BY CallTypes DEF UnsafeInv
  <1>3. CASE label' = "literals"
    <2>1. (UnsafeText)' = UnsafeText /\ (UnsafePart)' = UnsafePart
      BY <1>1, <1>3, ReaderText, ReaderPart
    <2>2. Reader!Same /\ at' >= at
      BY <1>1, <1>2, ReaderSame
    <2>3. Reader!Skip
      BY <2>1, <2>2 DEF Reader!Skip, UnsafeText, UnsafePart
    <2> QED
      BY <2>3 DEF Reader!FNext
  <1> QED
    BY <1>1, <1>3, ReaderFails

LEMMA UnsafeInitFollows == UnsafeInit => Reader!FInit
  <1> SUFFICES ASSUME UnsafeInit PROVE Reader!FInit
    OBVIOUS
  <1>1. out = <<>> /\ at = 0 /\ label = "literals"
    BY DEF UnsafeInit
  <1>2. UnsafeTypeOK
    BY UnsafeStarts DEF UnsafeInv
  <1>3. PICK h \in Nat : h = HistorySize
    BY <1>2, CallTypes DEF HistorySize
  <1>4. Run(out, 0)
    BY <1>1 DEF Run
  <1>5. Run(UnsafeText, h) /\ Len(UnsafeText) = h /\ SpeaksAll(UnsafeText, h, out, 0)
    <2>1. UnsafeText = Behind(h) \o out
      BY <1>3, ReaderText
    <2>2. PICK z \in Nat : z = 0
      OBVIOUS
    <2>3. PICK l \in Nat : l = h + z
      OBVIOUS
    <2>4. Run(out, z)
      BY <1>4, <2>2
    <2>5. /\ Run(Behind(h) \o out, h + z) /\ Len(Behind(h) \o out) = h + z
          /\ SpeaksAll(Behind(h) \o out, h, out, z)
      BY ONLY <2>4, h \in Nat, z \in Nat, TextSpeaks
    <2>6. h + z = h
      BY <2>2
    <2> QED
      BY <2>1, <2>2, <2>5, <2>6
  <1>6. ASSUME NEW k \in 1..h PROVE (UnsafeText)[k] = k - h - 1
    <2>1. PICK a \in -h..0 - 1 : a = k - h - 1
      OBVIOUS
    <2>2. h + a + 1 = k /\ a < 0
      BY <2>1
    <2> QED
      BY <1>5, <2>1, <2>2 DEF SpeaksAll, Spoken
  <1>7. UnsafeText = [k \in 1..h |-> k - h - 1] /\ Len(UnsafeText) = h
    <2>1. UnsafeText = [k \in 1..h |-> (UnsafeText)[k]] /\ Len(UnsafeText) = h
      BY <1>5 DEF Run
    <2>2. [k \in 1..h |-> (UnsafeText)[k]] = [k \in 1..h |-> k - h - 1]
      BY <1>6
    <2> QED
      BY <2>1, <2>2
  <1>8. UnsafePart = "literals"
    BY <1>1, ReaderPart
  <1> QED
    BY <1>1, <1>7, <1>8 DEF Reader!FInit, UnsafeText, UnsafePart

LEMMA UnsafeNextFollows ==
  ASSUME UnsafeInv, UnsafeInv', [UnsafeNext]_unsafeVars
  PROVE  [Reader!FNext]_(Reader!fvars)
  <1>1. CASE UNCHANGED unsafeVars
    <2>1. /\ call' = call /\ out' = out /\ at' = at /\ label' = label /\ log' = log
      BY <1>1 DEF unsafeVars
    <2>2. (UnsafeText)' = UnsafeText /\ (UnsafePart)' = UnsafePart /\ (current)' = current
      BY <2>1 DEF UnsafeText, UnsafePart, HistorySize, current
    <2> QED
      BY <2>1, <2>2 DEF Reader!fvars, UnsafeText, UnsafePart
  <1>2. CASE EndMissed
    BY <1>2, ReaderFails DEF EndMissed
  <1> QED
    BY <1>1, <1>2, UnsafeLiteralsFollow, UnsafeMatchFollows, MatchedFollows DEF UnsafeNext

(* Byte by byte and across both seams, between dictionary and prefix and   *)
(* between prefix and output, the decoder adds to the text what the format *)
(* says: for every input, size of the prefix and size of the dictionary.   *)
THEOREM UnsafeFormatFollowed == UnsafeSpec => UnsafeFollowsFormat
  <1>1. UnsafeInit => UnsafeInv
    BY UnsafeStarts
  <1>2. UnsafeInv /\ [UnsafeNext]_unsafeVars => UnsafeInv'
    BY UnsafeStays
  <1>3. UnsafeInit => Reader!FInit
    BY UnsafeInitFollows
  <1>4. UnsafeInv /\ UnsafeInv' /\ [UnsafeNext]_unsafeVars => [Reader!FNext]_(Reader!fvars)
    BY UnsafeNextFollows
  <1> QED
    BY <1>1, <1>2, <1>3, <1>4, PTL DEF UnsafeSpec, UnsafeFollowsFormat, Reader!FSpec
=============================================================================
