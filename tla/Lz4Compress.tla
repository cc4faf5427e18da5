---------------------------- MODULE Lz4Compress ----------------------------
(***************************************************************************)
(* LZ4_compress_generic (lz4.c): the greedy compressor behind every        *)
(* LZ4_compress_* function but the HC ones.  It looks up the next bytes in *)
(* a table of positions, takes the first position that holds the same four *)
(* bytes within reach, and emits what lies in between as literals.         *)
(*                                                                         *)
(* Addresses are integers; the source begins at 0.  A job is a call: what  *)
(* is compressed, the room for the output, and the history that the        *)
(* stream's functions hand over (module Lz4Stream).  The block itself is   *)
(* kept as its sequences of literals and matches; op counts its bytes.     *)
(***************************************************************************)
EXTENDS Integers, Sequences

CONSTANTS
  Jobs,         \* the calls: see JobType
  Hash(_),      \* LZ4_hash4, LZ4_hash5: a bucket for four or five bytes
  Buckets,      \* the buckets
  Window,       \* 64 KB
  RunMask,      \* RUN_MASK = ML_MASK = 15, the most a token's half can say
  ByteMax,      \* 255
  SkipTrigger,  \* LZ4_skipTrigger, as a factor: misses before the step grows
  MaxInput      \* LZ4_MAX_INPUT_SIZE

MinMatch == 4
LastLiterals == 5
MFLimit == 12
MinLength == MFLimit + 1
DistanceMax == Window - 1
Limit64K == Window + MFLimit - 1

Directives == {"noDict", "withPrefix64k", "usingExtDict", "usingDictCtx"}

(* A table maps a bucket to an index; 0 is also what an empty one holds.   *)
JobType ==
  [api : {"extState", "fastReset", "destSize", "stream"},
   src : Seq(Nat), cap : Nat, acceleration : Nat \ {0},
   dir : Directives, dictSmall : BOOLEAN,
   dict : Seq(Nat),                \* the dictionary or prefix
   startIndex : Nat,               \* currentOffset
   dictOffset : Nat,               \* dictCtx->currentOffset
   table : [Buckets -> Nat],       \* hashTable
   dictTable : [Buckets -> Nat]]   \* dictCtx->hashTable

(* An entry from before the call is of no use, or it is of four bytes that *)
(* the history holds, or begins and the source goes on.  LZ4_prepareTable, *)
(* LZ4_loadDict and a stream's offsets see to it (module Lz4Stream).       *)
Usable(i, start, size, prefix) ==
  i \in start - size..start - (IF prefix THEN 1 ELSE MinMatch)
HandedOver(j) ==
  LET size == Len(j.dict)
      seen(i) == /\ j.dictSmall => i >= j.startIndex - size
                 /\ i + DistanceMax >= j.startIndex
      small == Len(j.src) < Limit64K
  IN /\ j.api # "stream" => j.dir = "noDict" /\ (j.dictSmall <=> small /\ j.startIndex > 0)
     /\ j.api \in {"extState", "destSize"} => j.startIndex = 0
     /\ j.api # "stream" /\ small /\ j.startIndex > 0 => j.startIndex + Len(j.src) < Window - 1
     /\ j.dir = "noDict" => j.dict = <<>>
     /\ \A h \in Buckets :
          /\ j.table[h] < j.startIndex \/ j.table[h] = 0
          /\ IF j.dir = "usingDictCtx"
               THEN /\ j.dictTable[h] + DistanceMax >= j.dictOffset
                         => Usable(j.dictTable[h], j.dictOffset, size, FALSE)
                    /\ j.dictTable[h] < j.dictOffset
               ELSE (j.table[h] < j.startIndex /\ seen(j.table[h]))
                         => Usable(j.table[h], j.startIndex, size, j.dir = "withPrefix64k")

ASSUME CompressAssumption ==
  /\ Jobs \subseteq JobType
  /\ Window \in Nat /\ RunMask \in Nat /\ ByteMax \in Nat /\ MaxInput \in Nat
  /\ MFLimit < Window /\ MFLimit - MinMatch < RunMask /\ RunMask < ByteMax /\ SkipTrigger \in Nat \ {0}
  /\ \A j \in Jobs : HandedOver(j)
  /\ \A j \in Jobs, k \in {4, 5} : \A a \in 1..Len(j.src) + 1 - k :
       Hash(SubSeq(j.src, a, a + k - 1)) \in Buckets

VARIABLES
  job,        \* the call
  pc,         \* where the compressor is
  table,      \* cctx->hashTable
  ip,         \* position in the source
  fwd, step, searches,  \* forwardIp, step, searchMatchNb
  anchor,     \* the source is encoded up to here
  match, low, offset,   \* the match found, lowLimit, and its distance
  filled,     \* filledIp
  token, op,  \* where the sequence's token is, and the end of the output
  wrote,      \* the end of what has been written, overshooting included
  block,      \* the sequences emitted: [lit, offset, ml]
  result,     \* what the function returns
  stray       \* a byte outside source and dictionary has been read

vars == <<job, pc, table, ip, fwd, step, searches, anchor, match, low, offset,
          filled, token, op, wrote, block, result, stray>>

n == Len(job.src)
iend == n
mflimitPlusOne == iend - MFLimit + 1
\* Mutant: matches may reach the end of the block.
matchlimitAtEnd == iend
matchlimit == iend - LastLiterals

MaxOf(a, b) == IF a > b THEN a ELSE b
MinOf(a, b) == IF a < b THEN a ELSE b

(* LZ4_COMPRESSBOUND *)
\* Mutant: incompressible input is taken to need no more than its size.
compressBoundTight(size) == size
compressBound(size) == IF size > MaxInput THEN 0 ELSE size + size \div ByteMax + 16

(* LZ4_compress_fast_extState, LZ4_compress_destSize and the functions on  *)
(* streams choose how to treat the end of the output, and the table.       *)
directive == IF job.api = "stream" THEN "limitedOutput"
             ELSE IF job.cap >= compressBound(n) THEN "notLimited"
             ELSE IF job.api = "destSize" THEN "fillOutput" ELSE "limitedOutput"
byU16 == job.api # "stream" /\ n < Limit64K

----------------------------------------------------------------------------
(* Memory. *)

dictSize == Len(job.dict)
(* a prefix ends where the source begins, anything else is elsewhere *)
Elsewhere == -1000000
dictEnd == IF job.dir = "withPrefix64k" THEN 0 ELSE Elsewhere
dictionary == dictEnd - dictSize
dictBase == dictEnd - (IF job.dir = "usingDictCtx" THEN job.dictOffset ELSE job.startIndex)
maybeExtMem == job.dir \in {"usingExtDict", "usingDictCtx"}
prefixIdxLimit == job.startIndex - dictSize
lowLimit == IF job.dir = "withPrefix64k" THEN -dictSize ELSE 0

(* What is at an address; Junk where the compressor has no business.       *)
Junk == -1
At(a) == IF a \in 0..n - 1 THEN job.src[a + 1]
         ELSE IF a \in dictionary..dictEnd - 1 THEN job.dict[a - dictionary + 1]
         ELSE Junk
Valid(a, k) == \/ 0 <= a /\ a + k <= iend
               \/ dictionary <= a /\ a + k <= (IF dictEnd = 0 THEN iend ELSE dictEnd)
Bytes(a, k) == [i \in 1..k |-> At(a + i - 1)]
HashPosition(a) == Hash(Bytes(a, IF byU16 THEN 4 ELSE 5))

(* LZ4_count: how many bytes agree, up to a limit. *)
Count(p, m, limit) ==
  LET agree(k) == \A i \in 0..k - 1 : At(p + i) = At(m + i)
  IN CHOOSE k \in 0..limit - p :
       agree(k) /\ (k = limit - p \/ At(p + k) # At(m + k))

(* The bytes that a length takes beyond its half of the token. *)
Extra(len) == IF len < RunMask THEN 0 ELSE (len - RunMask) \div ByteMax + 1

(* What the table, or the dictionary's, says of the bytes at p. *)
Candidate(t, p) ==
  LET h == HashPosition(p)
      i == t[h]
      d == job.dictTable[h]
  IN IF job.dir = "usingDictCtx" /\ i < job.startIndex
       THEN [index |-> d + (job.startIndex - job.dictOffset), at |-> dictBase + d,
             low |-> dictionary]
     ELSE IF job.dir = "usingExtDict" /\ i < job.startIndex
       THEN [index |-> i, at |-> dictBase + i, low |-> dictionary]
     ELSE [index |-> i, at |-> i - job.startIndex, low |-> lowLimit]

\* Mutant: the distance is not tested.
InReachAnywhere(c, p) == job.dictSmall => c.index >= prefixIdxLimit
\* Mutant: the end of the dictionary is not tested.
InReachAnyHistory(c, p) == byU16 \/ c.index + DistanceMax >= p + job.startIndex
InReach(c, p) ==
  /\ job.dictSmall => c.index >= prefixIdxLimit
  /\ byU16 \/ c.index + DistanceMax >= p + job.startIndex
Matches(c, p) == InReach(c, p) /\ Bytes(c.at, MinMatch) = Bytes(p, MinMatch)

Put(t, p) == [t EXCEPT ![HashPosition(p)] = p + job.startIndex]

Take(c, p) == match' = c.at /\ low' = c.low /\ offset' = p + job.startIndex - c.index

Goto(l) == pc' = l /\ UNCHANGED <<job, result>>
Return(r) == pc' = "done" /\ result' = r /\ UNCHANGED job
Wrote(end) == wrote' = MaxOf(wrote, end)

SearchFrom(p) == /\ fwd' = p /\ step' = 1
                 /\ searches' = job.acceleration * SkipTrigger

----------------------------------------------------------------------------
(* The function, in the order of its code. *)

(* LZ4_compress_generic and the start of LZ4_compress_generic_validated *)
Begin ==
  /\ pc = "start"
  /\ \/ n > MaxInput /\ Return(0) /\ UNCHANGED <<op, wrote, block, table, ip, fwd, step, searches>>
     \/ /\ n = 0
        /\ IF directive # "notLimited" /\ job.cap <= 0
             THEN Return(0) /\ UNCHANGED <<op, wrote, block>>
             ELSE /\ Return(1) /\ op' = 1 /\ Wrote(1)
                  /\ block' = <<[lit |-> 0, offset |-> 0, ml |-> 0]>>
        /\ UNCHANGED <<table, ip, fwd, step, searches>>
     \/ /\ n \in 1..MaxInput
        /\ IF directive = "fillOutput" /\ job.cap < 1
             THEN Return(0) /\ UNCHANGED <<table, ip, fwd, step, searches>>
           ELSE IF n < MinLength
             THEN Goto("last") /\ UNCHANGED <<table, ip, fwd, step, searches>>
           ELSE /\ Goto("search")
                /\ table' = Put(table, 0)
                /\ ip' = 1 /\ SearchFrom(1)
        /\ UNCHANGED <<op, wrote, block>>
  /\ UNCHANGED <<anchor, match, low, offset, filled, token, stray>>

(* One step of "Find a match" *)
Search ==
  LET c == Candidate(table, fwd)
      ahead == fwd + step
  IN /\ pc = "search"
     /\ ip' = fwd /\ fwd' = ahead
     /\ step' = searches \div SkipTrigger /\ searches' = searches + 1
     /\ IF ahead > mflimitPlusOne
          THEN Goto("last") /\ UNCHANGED <<table, match, low, offset, stray>>
          ELSE /\ table' = Put(table, fwd)
               /\ stray' = (stray \/ ~Valid(ahead, 8)
                                 \/ (InReach(c, fwd) /\ ~Valid(c.at, MinMatch)))
               /\ IF Matches(c, fwd) THEN Goto("literals") /\ Take(c, fwd)
                  ELSE Goto("search") /\ UNCHANGED <<match, low, offset>>
     /\ UNCHANGED <<anchor, filled, token, op, wrote, block>>

(* "Catch up": the match may begin earlier. *)
CatchUp ==
  LET agree(k) == \A i \in 1..k : At(ip - i) = At(match - i)
      most == MinOf(ip - anchor, match - low)
  IN CHOOSE k \in 0..MaxOf(0, most) :
       agree(k) /\ (k >= most \/ At(ip - k - 1) # At(match - k - 1))

(* wildCopy8 copies whole strides of eight *)
Strides(k) == IF k <= 8 THEN 8 ELSE 8 * ((k + 7) \div 8)

NoRoomForLiterals(lit) ==
  CASE directive = "limitedOutput" ->
         op + 1 + lit + (2 + 1 + LastLiterals) + lit \div ByteMax > job.cap
    [] directive = "fillOutput" ->
         op + 1 + (lit + ByteMax - RunMask) \div ByteMax + lit
            + 2 + 1 + MFLimit - MinMatch > job.cap
    [] OTHER -> FALSE

(* "Catch up", "Encode Literals" *)
Literals ==
  LET back == CatchUp
      lit == ip - back - anchor
      text == op + 1 + Extra(lit)
  IN /\ pc = "literals"
     /\ filled' = ip
     /\ ip' = ip - back /\ match' = match - back
     /\ token' = op
     /\ IF NoRoomForLiterals(lit)
          THEN /\ IF directive = "fillOutput" THEN Goto("last") ELSE Return(0)
               /\ UNCHANGED <<op, wrote, stray>>
          ELSE /\ Goto("match")
               /\ op' = text + lit
               /\ Wrote(text + Strides(lit))
               /\ stray' = (stray \/ ~Valid(anchor, Strides(lit)))
     /\ UNCHANGED <<table, fwd, step, searches, anchor, low, offset, block>>

(* How many bytes beyond the four the match goes on: from the dictionary   *)
(* it may go on at the source's beginning.                                 *)
InDict == maybeExtMem /\ low = dictionary
\* Mutant: a match goes on in the source wherever it ends in the dictionary.
MatchCodeGoesOn ==
  LET limit == MinOf(ip + dictEnd - match, matchlimit)
  IN IF InDict
       THEN Count(ip + MinMatch, match + MinMatch, limit) + Count(limit, 0, matchlimit)
       ELSE Count(ip + MinMatch, match + MinMatch, matchlimit)
MatchCode ==
  LET limit == MinOf(ip + dictEnd - match, matchlimit)
      first == Count(ip + MinMatch, match + MinMatch, limit)
  IN IF InDict
       THEN first + (IF ip + MinMatch + first = limit THEN Count(limit, 0, matchlimit) ELSE 0)
       ELSE Count(ip + MinMatch, match + MinMatch, matchlimit)

NoRoomForMatch(code) ==
  /\ directive # "notLimited"
  /\ op + 2 + (1 + LastLiterals) + (code + ByteMax - RunMask) \div ByteMax > job.cap

(* What the length's bytes reach, written four at a time from e on *)
LengthEnd(e, code) ==
  IF code < RunMask THEN e
  ELSE MaxOf(e + 4 * ((code - RunMask) \div (4 * ByteMax)) + 4, e + Extra(code))

(* The match that fills the output, and the positions to forget. *)
FillCode == RunMask - 1 + (job.cap - (op + 2) - 1 - LastLiterals) * ByteMax
\* Mutant: the positions behind the shortened match stay in the table.
ForgetNothing(p) == table
Forget(p) == IF p > filled THEN table
             ELSE [h \in DOMAIN table |->
                     IF \E q \in p..filled : HashPosition(q) = h THEN 0 ELSE table[h]]

(* _next_match *)
Emit(code, t) ==
  /\ Goto("next")
  /\ op' = op + 2 + Extra(code)
  /\ Wrote(MaxOf(op', LengthEnd(op + 2, code)))
  /\ ip' = ip + MinMatch + code
  /\ anchor' = ip'
  /\ block' = Append(block, [lit |-> ip - anchor, offset |-> offset, ml |-> MinMatch + code])
  /\ table' = t

Match ==
  LET code == MatchCode
  IN /\ pc = "match"
     /\ IF directive = "fillOutput" /\ op + 2 + 1 + MFLimit - MinMatch > job.cap
          THEN /\ Goto("last") /\ op' = token
               /\ UNCHANGED <<wrote, ip, anchor, block, table>>
        ELSE IF ~NoRoomForMatch(code) THEN Emit(code, table)
        ELSE IF directive = "fillOutput"
          THEN Emit(FillCode, Forget(ip + MinMatch + FillCode))
        ELSE Return(0) /\ Wrote(op + 2) /\ UNCHANGED <<op, ip, anchor, block, table>>
     /\ UNCHANGED <<fwd, step, searches, match, low, offset, filled, token, stray>>

(* "Test end of chunk", "Fill table", "Test next position" *)
Following ==
  LET t == Put(table, ip - 2)
      c == Candidate(t, ip)
  IN /\ pc = "next"
     /\ IF ip >= mflimitPlusOne
          THEN /\ Goto("last")
               /\ UNCHANGED <<table, ip, fwd, step, searches, match, low, offset, token, op, wrote, stray>>
          ELSE /\ table' = Put(t, ip)
               /\ stray' = (stray \/ (InReach(c, ip) /\ ~Valid(c.at, MinMatch)))
               /\ IF Matches(c, ip)
                    THEN /\ Goto("match") /\ Take(c, ip)
                         /\ token' = op /\ op' = op + 1 /\ Wrote(op + 1)
                         /\ UNCHANGED <<ip, fwd, step, searches>>
                    ELSE /\ Goto("search")
                         /\ ip' = ip + 1 /\ SearchFrom(ip + 1)
                         /\ UNCHANGED <<match, low, offset, token, op, wrote>>
     /\ UNCHANGED <<anchor, filled, block>>

(* _last_literals: as many as there is room for when filling the output *)
\* Mutant: every literal is counted as a length byte.
NoRoomForLastUndivided(run) ==
  directive # "notLimited" /\ op + run + 1 + (run + ByteMax - RunMask) > job.cap
NoRoomForLast(run) ==
  /\ directive # "notLimited"
  /\ op + run + 1 + (run + ByteMax - RunMask) \div ByteMax > job.cap
Fitting == LET run == job.cap - op - 1
           IN run - (run + ByteMax + 1 - RunMask) \div (ByteMax + 1)
LastRun(run) ==
  /\ op' = op + 1 + Extra(run) + run
  /\ Wrote(op')
  /\ ip' = anchor + run
  /\ block' = Append(block, [lit |-> run, offset |-> 0, ml |-> 0])
  /\ Return(op')

Last ==
  /\ pc = "last"
  /\ IF ~NoRoomForLast(iend - anchor) THEN LastRun(iend - anchor)
     ELSE IF directive = "fillOutput" THEN LastRun(Fitting)
     ELSE Return(0) /\ UNCHANGED <<op, wrote, ip, block>>
  /\ UNCHANGED <<table, fwd, step, searches, anchor, match, low, offset, filled, token, stray>>

Init == /\ job \in Jobs
        /\ pc = "start"
        /\ table = job.table
        /\ ip = 0 /\ fwd = 0 /\ step = 1 /\ searches = 0
        /\ anchor = 0
        /\ match = 0 /\ low = 0 /\ offset = 0
        /\ filled = 0
        /\ token = 0 /\ op = 0 /\ wrote = 0
        /\ block = <<>>
        /\ result = 0
        /\ stray = FALSE

Next == Begin \/ Search \/ Literals \/ Match \/ Following \/ Last

Spec == Init /\ [][Next]_vars

----------------------------------------------------------------------------
(* Properties. *)

Labels == {"start", "search", "literals", "match", "next", "last", "done"}

TypeOK == /\ job \in JobType /\ pc \in Labels
          /\ table \in [Buckets -> Nat]
          /\ ip \in 0..n /\ fwd \in Nat /\ step \in Nat /\ searches \in Nat
          /\ anchor \in 0..n
          /\ match \in Int /\ low \in Int /\ offset \in Int
          /\ filled \in 0..n /\ token \in Nat /\ op \in Nat /\ wrote \in Nat
          /\ block \in Seq([lit : Nat, offset : Nat, ml : Nat])
          /\ result \in Nat /\ stray \in BOOLEAN

(* lz4.h: no more than dstCapacity bytes are written, overshooting copies  *)
(* included, and nothing is read but the source and its history.  Where    *)
(* the code checks no limit, LZ4_COMPRESSBOUND is the reason.              *)
StaysInside == wrote <= job.cap /\ ~stray

(* lz4.h: compression succeeds if there is room for compressBound() bytes, *)
(* also where every write is checked against that room.                    *)
Succeeds ==
  pc = "done" /\ n <= MaxInput /\ job.cap >= compressBound(n) => result > 0 /\ result = op

(* The text that a decoder makes of a sequence behind the text before it,  *)
(* and of a block behind its history.                                      *)
Decode(j, text, s) ==
  LET lits == text \o SubSeq(j.src, Len(text) - Len(j.dict) + 1, Len(text) - Len(j.dict) + s.lit)
      m == Len(lits)
  IN lits \o [k \in 1..s.ml |-> lits[m - s.offset + 1 + ((k - 1) % s.offset)]]
Decoded(j, sequences) ==
  LET text[k \in 0..Len(sequences)] ==
        IF k = 0 THEN j.dict ELSE Decode(j, text[k - 1], sequences[k])
  IN text[Len(sequences)]

(* What is emitted decodes to what has been compressed: positions in the   *)
(* table, distances across the dictionary's end, matches begun earlier or  *)
(* cut short, and the literals in between, fit together.  A distance fits  *)
(* the two bytes that it is written in.                                    *)
RoundTrip ==
  /\ \A k \in 1..Len(block) : block[k].ml > 0 => block[k].offset \in 1..DistanceMax
  /\ pc = "next" => Decoded(job, block) = job.dict \o SubSeq(job.src, 1, anchor)
  /\ pc = "done" /\ result > 0 => Decoded(job, block) = job.dict \o SubSeq(job.src, 1, ip)

(* Where the match of each sequence ends, in the text. *)
Ends(sequences) ==
  LET end[k \in 0..Len(sequences)] ==
        IF k = 0 THEN 0 ELSE end[k - 1] + sequences[k].lit + sequences[k].ml
  IN end

(* The end of the block is as the format wants it and the decoder checks   *)
(* it (lz4.c, safe_literal_copy and safe_match_copy), also when the output *)
(* was filled and the input cut: a match begins twelve bytes before the    *)
(* end of the text at least, and five literals follow it.                  *)
AcceptedByDecoder ==
  pc = "done" /\ result > 0 =>
    \A k \in 1..Len(block) - 1 :
      /\ Ends(block)[k] - block[k].ml + MFLimit <= ip
      /\ Ends(block)[k] + LastLiterals <= ip
      /\ block[Len(block)].lit >= LastLiterals

(* The assertions of the code: a candidate lies behind the position it is  *)
(* compared with, so no position ahead is left in the table when a match   *)
(* has been cut to fill the output; and there is room for what must follow.*)
AssertionsHold ==
  /\ pc = "search" => \A h \in Buckets : table[h] < fwd + job.startIndex
  /\ pc = "next" => \A h \in Buckets : table[h] < ip + job.startIndex
  /\ pc = "literals" => ip > anchor
  /\ pc = "match" => offset \in 1..DistanceMax
  /\ directive = "fillOutput" =>
       /\ pc = "next" => op + 1 + LastLiterals <= job.cap
       /\ pc = "last" => op <= job.cap
  /\ \A h \in Buckets : /\ pc = "done" => table[h] < job.startIndex + MaxOf(1, n)
                        /\ byU16 => table[h] < Window
=============================================================================
