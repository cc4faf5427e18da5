--------------------------- MODULE Lz4Decompress ---------------------------
(***************************************************************************)
(* LZ4_decompress_generic (lz4.c): the decoder behind LZ4_decompress_safe, *)
(* its partial, prefix and dictionary variants.  It copies in strides of   *)
(* 8, 16 and 32 bytes that overshoot what they mean to copy, first in a    *)
(* fast loop, then, near the end of its buffers, in a safe one.            *)
(*                                                                         *)
(* mem is the memory, an address to the place its byte came from (as in    *)
(* Lz4Format); a job is a call.  The input is read one sequence at a time, *)
(* and any sequence may come next: an input that does not follow the       *)
(* format is one that ends in the middle of a sequence, or whose offsets   *)
(* and lengths lead outside the buffers.                                   *)
(***************************************************************************)
EXTENDS Lz4Constants, Sequences, FiniteSets

CONSTANTS
  Jobs,          \* the calls: see JobType
  Inputs,        \* the sequences that the input of each call may hold
  MaxSequences,  \* bound: sequences in one input
  Window         \* 64 KB

WildCopyLength == 8
MatchSafeguard == 2 * WildCopyLength - MinMatch
FastLoopSafe == 64
\* Mutant: one step of the table for small offsets is wrong.
Inc32Wrong == <<0, 1, 2, 2, 0, 4, 4, 4>>
Inc32 == <<0, 1, 2, 1, 0, 4, 4, 4>>
Dec64 == <<0, 0, 0, -1, -4, 1, 2, 3>>

Zero == 1000001   \* a byte the decoder made up

JobType ==
  [src : Nat,              \* size of the input
   cap : Nat,              \* outputSize
   partial : BOOLEAN,      \* partialDecoding
   dict : {"noDict", "withPrefix64k", "usingExtDict"},
   dst : Int,              \* address of the output
   lowPrefix : Int,        \* lowPrefix, as passed
   floor : Int,            \* the lowest address of valid data before dst
   dictStart : Int,        \* address of the external dictionary
   dictSize : Nat]

(* A sequence of the input: literals, and a match at a distance. *)
Sequence == [lit : Nat, offset : Nat, ml : Nat]

(* What the callers below pass. *)
ASSUME JobAssumption ==
  /\ Jobs \subseteq JobType
  /\ Window \in Nat \ {0} /\ MaxSequences \in Nat
  /\ Inputs \in [Jobs -> SUBSET {q \in Sequence : q.offset < Window /\ q.ml >= MinMatch}]
  /\ \A j \in Jobs :
       /\ j.floor <= j.dst /\ j.lowPrefix <= j.dst
       /\ IF j.dict = "withPrefix64k"
            THEN j.lowPrefix = j.dst - Window /\ j.floor <= j.dst - (Window - 1)
            ELSE j.floor = j.lowPrefix
       /\ j.dict # "usingExtDict" => j.dictSize = 0

VARIABLES
  job,     \* the call
  mem,     \* the memory
  ip, op,  \* input position, output address
  pc,      \* where the decoder is
  seq,     \* the sequence being read
  start,   \* where it starts in the input and the output
  reads,   \* sequences read so far
  stray    \* the decoder has touched memory outside its buffers

vars == <<job, mem, ip, op, pc, seq, start, reads, stray>>

iend == job.src
oend == job.dst + job.cap
dictEnd == job.dictStart + job.dictSize
checkOffset == job.dictSize < Window
match == op - seq.offset

Max2(a, b) == IF a > b THEN a ELSE b
Min2(a, b) == IF a < b THEN a ELSE b

----------------------------------------------------------------------------
(* Copies.  Bytes that a stride reads beyond the input are junk. *)

(* So many bytes does a copy in strides of c move that means to move n. *)
\* Mutant: one stride more.
WildOneMore(n, c) == c * ((n + c - 1) \div c + 1)
Wild(n, c) == IF n <= c THEN c ELSE c * ((n + c - 1) \div c)

FromSrc(m, d, from, n) ==
  [a \in DOMAIN m |-> IF a \in d..d + n - 1 THEN from + (a - d) ELSE m[a]]

(* n bytes from address s to address d, c at a time: each stride sees what *)
(* the strides before it wrote.                                            *)
Move(m, d, s, n, c) ==
  LET byte[i \in 0..n - 1] ==
        IF s + i \in d..d + c * (i \div c) - 1 THEN byte[s + i - d]
        ELSE IF s + i \in DOMAIN m THEN m[s + i] ELSE Junk
  IN [a \in DOMAIN m |-> IF a \in d..d + n - 1 THEN byte[a - d] ELSE m[a]]

(* The first eight bytes of a match closer than that, and how far behind   *)
(* the copy then reads: a multiple of the offset, and eight or more.       *)
FirstEight(m, d, s, offset) ==
  LET z == [a \in DOMAIN m |-> IF a \in d..d + 3 THEN Zero ELSE m[a]]
  IN Move(Move(z, d, s, 4, 1), d + 4, s + Inc32[offset + 1], 4, 4)
Advanced(s, offset) ==
  IF offset < 8 THEN s + Inc32[offset + 1] - Dec64[offset + 1] ELSE s + 8

(* LZ4_memcpy_using_offset: a pattern of one, two or four bytes is laid    *)
(* out eight at a time.                                                    *)
UsingOffset(m, d, s, n, offset) ==
  IF offset \in {1, 2, 4}
    THEN [a \in DOMAIN m |-> IF a \in d..d + Wild(n, 8) - 1
                               THEN m[s + ((a - d) % offset)] ELSE m[a]]
    ELSE Move(IF offset < 8 THEN FirstEight(m, d, s, offset) ELSE Move(m, d, s, 8, 8),
              d + 8, Advanced(s, offset), Wild(n - 8, 8), 8)

----------------------------------------------------------------------------
(* The input. *)

LitExtra(q) == Extra(q.lit, RunMask)
MLExtra(q) == Extra(q.ml - MinMatch, MLMask)

(* read_variable_length of n bytes at i: whether it succeeds, and where it *)
(* gives up.                                                               *)
Readable(i, n, limit, check) == (check => i < limit) /\ i + n <= limit
GivesUp(i, limit, check) ==
  IF check /\ i >= limit THEN i ELSE Max2(i, limit) + 1

Goto(l) == pc' = l
(* The step reads the input up to i, writes the output up to d, and reads  *)
(* the text from address s on.                                             *)
Touches(i, d, s) == stray' = (stray \/ i > iend \/ d > oend \/ s < job.floor)
Reads(i) == Touches(i, op, job.dst)
(* _output_error, the input read up to i *)
Fail(i) == Goto("error") /\ ip' = i /\ UNCHANGED <<mem, op>>

Token(loop) == /\ pc = loop
               /\ reads < MaxSequences /\ reads' = reads + 1
               /\ seq' \in Inputs[job]
               /\ start' = [ip |-> ip, op |-> op]
               /\ UNCHANGED job
Rest == UNCHANGED <<job, seq, start, reads>>

Long(q) == q.lit >= RunMask
LongMatch == seq.ml - MinMatch >= MLMask
\* Mutant: the length bytes must end one byte sooner.
LitLimitEarly == iend - RunMask - 1
LitLimit == iend - RunMask
MLLimit == iend - LastLiterals + 1
LitReadable(q) == Long(q) => Readable(ip + 1, LitExtra(q), LitLimit, TRUE)
MLReadable(i) == LongMatch => Readable(i, MLExtra(seq), MLLimit, FALSE)

Begin ==
  LET empty == job.cap = 0 /\ ~job.partial   \* no room: only the empty block fits
      read == empty /\ job.src = 1
  IN /\ pc = "start"
     /\ IF read THEN seq' \in Inputs[job] ELSE seq' = seq
     /\ \/ job.cap = 0 /\ job.partial /\ Goto("end")
        \/ /\ empty
           /\ Goto(IF read /\ seq'.lit = 0 /\ seq'.ml = MinMatch THEN "end" ELSE "error")
        \/ job.cap # 0 /\ job.src = 0 /\ Goto("error")
        \/ /\ job.cap # 0 /\ job.src # 0
           /\ Goto(IF job.cap < FastLoopSafe THEN "safe" ELSE "fast")
     /\ Reads(IF read THEN ip + 1 ELSE ip)
     /\ UNCHANGED <<job, mem, ip, op, start, reads>>

(* A token's literals are the n bytes at i, copied as w. *)
TakeLiterals(i, n, w, l) ==
  /\ mem' = FromSrc(mem, op, i, w)
  /\ Touches(i + w, op + w, job.dst)
  /\ ip' = i + n /\ op' = op + n
  /\ Goto(l)

LiteralsFail(loop) ==
  /\ Token(loop)
  /\ ~LitReadable(seq')
  /\ Fail(GivesUp(ip + 1, LitLimit, TRUE))
  /\ Reads(Max2(ip + 1, ip'))

\* Mutant: only the output has room for wide copies.
WideOutput(i, n) == op + n <= oend - 32
Wide(i, n) == op + n <= oend - 32 /\ i + n <= iend - 32
FastLiterals ==
  /\ Token("fast")
  /\ LitReadable(seq')
  /\ LET n == seq'.lit
         i == ip + 1 + LitExtra(seq')
         narrow == i <= iend - (16 + 1)
     IN \/ Long(seq') /\ Wide(i, n) /\ TakeLiterals(i, n, Wild(n, 32), "fastmatch")
        \/ ~Long(seq') /\ narrow /\ TakeLiterals(i, n, 16, "fastmatch")
        \/ /\ IF Long(seq') THEN ~Wide(i, n) ELSE ~narrow
           /\ Goto("literals") /\ ip' = i /\ Reads(i) /\ UNCHANGED <<mem, op>>

SafeLiterals ==
  /\ Token("safe")
  /\ LitReadable(seq')
  /\ LET n == seq'.lit
         i == ip + 1 + LitExtra(seq')
         shortcut == ~Long(seq') /\ i < iend - 14 - 2 /\ op <= oend - 14 - 18
     IN \/ shortcut /\ TakeLiterals(i, n, 16, "shortcut")
        \/ /\ ~shortcut
           /\ Goto("literals") /\ ip' = i /\ Reads(i) /\ UNCHANGED <<mem, op>>

\* Mutant: the last literals are not held against the output.
LastRunUnbounded(n) == ip + n = iend
LastRun(n) == ip + n = iend /\ op + n <= oend
CutShort(n) == Min2(Min2(n, iend - ip), oend - op)

(* safe_literal_copy: at the end of a buffer the literals must be the      *)
(* last, unless the decoding is partial.                                   *)
CopyLiterals ==
  /\ pc = "literals"
  /\ LET cpy == op + seq.lit
         near == cpy > oend - MFLimit \/ ip + seq.lit > iend - (2 + 1 + LastLiterals)
         n == CutShort(seq.lit)
     IN \/ ~near /\ TakeLiterals(ip, seq.lit, Wild(seq.lit, 8), "offset")
        \/ /\ near /\ ~job.partial /\ ~LastRun(seq.lit)
           /\ Fail(ip) /\ Reads(ip)
        \/ /\ near /\ ~job.partial /\ LastRun(seq.lit)
           /\ TakeLiterals(ip, seq.lit, seq.lit, "end")
        \/ /\ near /\ job.partial
           /\ TakeLiterals(ip, n, n,
                IF op + n = oend \/ ip + n >= iend - 2 THEN "end" ELSE "offset")
  /\ Rest

(* The match is len bytes at address s, copied as m up to d. *)
TakeMatch(i, m, len, d, s, l) ==
  /\ mem' = m
  /\ Touches(i, d, s)
  /\ ip' = i /\ op' = op + len
  /\ Goto(l)

InPrefix == job.dict = "withPrefix64k" \/ match >= job.lowPrefix
\* Mutant: the offset is not held against the dictionary.
OutsideUnchecked == FALSE
Outside == checkOffset /\ match + job.dictSize < job.lowPrefix
InDict == job.dict = "usingExtDict" /\ match < job.lowPrefix
MatchFails(i) == Fail(i) /\ Reads(i)

(* Eighteen bytes for a short match that does not overlap itself. *)
Eighteen(i, l) == TakeMatch(i, Move(mem, op, match, 18, 8), seq.ml, op + 18, match, l)
Short == ~LongMatch /\ seq.offset >= 8 /\ InPrefix

\* Mutant: the dictionary ends where the block begins, prefix or not.
BackFromDst == job.dst - match
Back == job.lowPrefix - match
Near == op + seq.ml > oend - LastLiterals

(* A match that starts in the external dictionary may end in the prefix. *)
DictMatch(i, loop) ==
  LET len == IF Near THEN Min2(seq.ml, oend - op) ELSE seq.ml
      inDict == Min2(len, Back)
      m == Move(mem, op, dictEnd - Back, inDict, inDict)
  IN \/ Near /\ ~job.partial /\ MatchFails(i)
     \/ /\ ~(Near /\ ~job.partial)
        /\ mem' = Move(m, op + inDict, job.lowPrefix, len - inDict, 1)
        /\ stray' = (stray \/ i > iend \/ op + len > oend \/ Back > job.dictSize)
        /\ ip' = i /\ op' = op + len
        /\ Goto(loop)

FastMatch ==
  /\ pc = "fastmatch"
  /\ LET i == ip + 2 + MLExtra(seq)
         near == op + seq.ml >= oend - FastLoopSafe
         spread == seq.offset < 16
     IN \/ /\ ~MLReadable(ip + 2)
           /\ MatchFails(GivesUp(ip + 2, MLLimit, FALSE))
        \/ /\ MLReadable(ip + 2) /\ near
           /\ Goto("safematch") /\ ip' = i /\ Reads(i) /\ UNCHANGED <<mem, op>>
        \/ /\ MLReadable(ip + 2) /\ ~near
           /\ \/ Short /\ Eighteen(i, "fast")
              \/ ~Short /\ Outside /\ MatchFails(i)
              \/ ~Short /\ ~Outside /\ InDict /\ DictMatch(i, "fast")
              \/ /\ ~Short /\ ~Outside /\ ~InDict
                 /\ \/ /\ spread
                       /\ TakeMatch(i, UsingOffset(mem, op, match, seq.ml, seq.offset),
                                    seq.ml, op + 8 + Wild(seq.ml - 8, 8), match, "fast")
                    \/ /\ ~spread
                       /\ TakeMatch(i, Move(mem, op, match, Wild(seq.ml, 32), 16),
                                    seq.ml, op + Wild(seq.ml, 32), match, "fast")
  /\ Rest

ShortcutMatch ==
  /\ pc = "shortcut" /\ Short
  /\ Eighteen(ip + 2, "safe")
  /\ Rest

(* _copy_match: the length *)
MatchLength ==
  /\ pc = "offset" \/ (pc = "shortcut" /\ ~Short)
  /\ \/ ~MLReadable(ip + 2) /\ MatchFails(GivesUp(ip + 2, MLLimit, FALSE))
     \/ /\ MLReadable(ip + 2)
        /\ Goto("safematch") /\ ip' = ip + 2 + MLExtra(seq)
        /\ Reads(ip') /\ UNCHANGED <<mem, op>>
  /\ Rest

(* safe_match_copy: eight bytes, then strides as far as there is room for  *)
(* them, then byte by byte.                                                *)
SafeCopy(eight, s) ==
  LET cpy == op + seq.ml
      limit == Max2(op + 8, oend - (WildCopyLength - 1))
      strides == IF op + 8 < limit THEN Wild(limit - (op + 8), 8) ELSE 0
      m == Move(eight, op + 8, s, strides, 8)
      tail == Max2(0, cpy - limit)
      beyond == IF seq.ml > 16 THEN Wild(seq.ml - 16, 8) ELSE 0
  IN \/ /\ cpy > oend - MatchSafeguard /\ cpy > oend - LastLiterals
        /\ Fail(ip) /\ Touches(ip, op + 8, match)
     \/ /\ cpy > oend - MatchSafeguard /\ cpy <= oend - LastLiterals
        /\ TakeMatch(ip, Move(m, limit, s + (limit - (op + 8)), tail, 1), seq.ml,
                     Max2(op + 8 + strides, limit + tail), match, "safe")
     \/ /\ cpy <= oend - MatchSafeguard
        /\ TakeMatch(ip, Move(eight, op + 8, s, 8 + beyond, 8), seq.ml,
                     op + 16 + beyond, match, "safe")

PartialCopy ==
  LET len == Min2(seq.ml, oend - op)
  IN TakeMatch(ip, Move(mem, op, match, len, 1), len, op + len, match,
               IF op + len = oend THEN "end" ELSE "safe")

SafeMatch ==
  /\ pc = "safematch"
  /\ LET cut == job.partial /\ op + seq.ml > oend - MatchSafeguard
     IN \/ Outside /\ MatchFails(ip)
        \/ ~Outside /\ InDict /\ DictMatch(ip, "safe")
        \/ ~Outside /\ ~InDict /\ cut /\ PartialCopy
        \/ /\ ~Outside /\ ~InDict /\ ~cut
           /\ SafeCopy(IF seq.offset < 8 THEN FirstEight(mem, op, match, seq.offset)
                                         ELSE Move(mem, op, match, 8, 8),
                       Advanced(match, seq.offset))
  /\ Rest

(* What the memory holds before a call; in a ring the prefix may have      *)
(* taken the place of the beginning of the dictionary.                     *)
Holds(j, a) ==
  IF a \in j.floor..j.dst - 1 THEN a - j.dst
  ELSE IF j.dictSize > 0 /\ a \in j.dictStart..j.dictStart + j.dictSize - 1
    THEN a - (j.dictStart + j.dictSize) - (j.dst - j.floor)
  ELSE Junk

Addresses(j) == Min2(j.floor, j.dictStart)..
                Max2(j.dst + j.cap, j.dictStart + j.dictSize) - 1

Init == /\ job \in Jobs
        /\ mem = [a \in Addresses(job) |-> Holds(job, a)]
        /\ ip = 0 /\ op = job.dst
        /\ pc = "start"
        /\ seq = [lit |-> 0, offset |-> 0, ml |-> MinMatch]
        /\ start = [ip |-> 0, op |-> job.dst]
        /\ reads = 0
        /\ stray = FALSE

Next == \/ Begin
        \/ LiteralsFail("fast") \/ FastLiterals \/ FastMatch
        \/ LiteralsFail("safe") \/ SafeLiterals \/ ShortcutMatch
        \/ CopyLiterals \/ MatchLength \/ SafeMatch

Spec == Init /\ [][Next]_vars

----------------------------------------------------------------------------
(* Properties. *)

Labels == {"start", "fast", "safe", "fastmatch", "shortcut", "literals",
           "offset", "safematch", "end", "error"}

(* The output never passes its end, and neither does the input unless the  *)
(* call has failed.                                                        *)
TypeOK == /\ job \in Jobs /\ DOMAIN mem = Addresses(job)
          /\ pc \in Labels /\ seq \in [lit : Nat, offset : Nat, ml : Nat]
          /\ seq.offset < Window /\ seq.ml >= MinMatch
          /\ ip \in Nat /\ op \in job.dst..oend
          /\ pc # "error" => ip <= iend
          /\ start \in [ip : Nat, op : Int] /\ reads \in 0..MaxSequences
          /\ stray \in BOOLEAN

(* lz4.h: the decoder never writes outside dst, nor reads outside source,  *)
(* "even if the compressed block is maliciously modified"; nor does it     *)
(* read before the prefix or the dictionary that it was given, however far *)
(* its strides overshoot.                                                  *)
StaysInside == ~stray

History == job.dictSize + job.dst - job.floor
Text == [k \in 1..History + op - job.dst |->
           IF k <= History THEN k - History - 1 ELSE mem[job.dst + k - History - 1]]
Part == CASE pc \in {"start", "fast", "safe", "literals"} -> "literals"
          [] pc \in {"fastmatch", "shortcut", "offset", "safematch"} -> "match"
          [] OTHER -> pc

F == INSTANCE Lz4Format WITH text <- Text, at <- ip, part <- Part,
       partial <- job.partial, size <- job.src

(* The strides, overlaps, tables of offsets and fallbacks of both loops    *)
(* amount to the format: the text grows by the literals and matches that   *)
(* the input names, byte by byte.                                          *)
FollowsFormat == F!FSpec

(* The byte that a match would take for address a lies in the dictionary,  *)
(* and is still what it was.                                               *)
Needed(a) == a - match < seq.ml /\ job.lowPrefix - a <= job.dictSize
Intact(a) == mem[dictEnd - (job.lowPrefix - a)] = a - job.dst
MatchesDict == pc \in {"fastmatch", "safematch"} /\ InDict

(* lz4.h promises that blocks may be decoded next to each other in a ring  *)
(* of 64 KB + 14 + maxBlockSize bytes, which is then "compatible with any  *)
(* source": what a match is about to copy from before the block is there.  *)
(* In rings so small it is not (the run ring_of_14).                       *)
WindowIntact == MatchesDict => \A a \in match..job.lowPrefix - 1 : Needed(a) => Intact(a)

(* What does hold, in rings of any size: a copy overshoots what it means   *)
(* to write by less than 32 bytes, so what lies in a dictionary apart from *)
(* the output, or in the same ring but farther ahead of the position than  *)
(* that, is still there, whatever the copies before have overshot.         *)
Overshot == 31
Clear(a) == \/ dictEnd <= job.lowPrefix \/ job.dictStart >= oend
            \/ dictEnd - (job.lowPrefix - a) >= op + Overshot
DictionaryIntact ==
  MatchesDict => \A a \in match..job.lowPrefix - 1 : Needed(a) /\ Clear(a) => Intact(a)

(* A whole block is refused only if no block of that size and capacity     *)
(* goes on with the sequence at which it is refused: the margins of the    *)
(* fast loop and the copies refuse nothing by themselves.                  *)
Belongs(q, i, o) ==
  LET a == i + 1 + LitExtra(q) + q.lit
      e == o + q.lit
  IN /\ e <= oend
     /\ \/ a = iend
        \/ /\ a + 2 + MLExtra(q) + 1 + LastLiterals <= iend
           /\ e + MFLimit <= oend /\ e + q.ml + LastLiterals <= oend
           /\ q.offset \in 1..History + e - job.dst
RefusesOnlyInvalid ==
  pc = "error" /\ ~job.partial /\ job.cap > 0 /\ job.src > 0
    => ~Belongs(seq, start.ip, start.op)
=============================================================================
