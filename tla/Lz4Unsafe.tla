----------------------------- MODULE Lz4Unsafe -----------------------------
(***************************************************************************)
(* LZ4_decompress_unsafe_generic (lz4.c): the decoder behind the           *)
(* LZ4_decompress_fast family.  It knows how long the text is and not how  *)
(* long the input is, presumes the input well formed, and copies byte by   *)
(* byte; the end of the text is all it has to tell it where to stop.       *)
(*                                                                         *)
(* A byte of the text is the place it came from, as in Lz4Format.          *)
(***************************************************************************)
EXTENDS Lz4Constants, Sequences

CONSTANTS
  Calls,         \* the calls: see CallType
  Lits,          \* lengths of literal runs that the input may hold
  Offsets,       \* distances that it may hold
  MatchLengths,  \* lengths of matches that it may hold
  MaxRead        \* bound: sequences in one input

CallType ==
  [src : Nat,          \* where the block ends in the input: not told to the decoder
   cap : Nat,          \* decompressedSize
   prefix : Nat,       \* prefixSize
   dictSize : Nat]

ASSUME UnsafeAssumption ==
  /\ Calls \subseteq CallType /\ Lits \subseteq Nat /\ Offsets \subseteq Nat
  /\ MatchLengths \subseteq {n \in Nat : n >= MinMatch}
  /\ MaxRead \in Nat

VARIABLES
  call,   \* the call
  out,    \* the output so far
  at,     \* input position, ip
  label,  \* "literals", "match", "matched", "end" or "error"
  log     \* the sequences read, and where each starts

unsafeVars == <<call, out, at, label, log>>

SequenceIn == [lit : Lits, offset : Offsets, ml : MatchLengths]
NoSequence == [lit |-> 0, offset |-> 0, ml |-> MinMatch]
current == IF log = <<>> THEN NoSequence ELSE log[Len(log)].seq
Left == call.cap - Len(out)

(* read_long_length_no_check *)
LitEnd(q, i) == i + 1 + Extra(q.lit, RunMask) + q.lit
MatchEnd(q, i) == i + 2 + Extra(q.ml - MinMatch, MLMask)

(* The byte at an address: that of the output is 0. *)
ByteAt(a) == IF a \in -call.prefix..-1 THEN a
             ELSE IF a \in 0..Len(out) - 1 THEN out[a + 1]
             ELSE Junk

(* n bytes copied to the end of the output, one after the other. *)
Copied(from, to, n) ==
  LET byte[u \in 0..n - 1] ==
        IF from + u \in to..to + u - 1 THEN byte[from + u - to] ELSE ByteAt(from + u)
  IN [u \in 1..n |-> byte[u - 1]]

----------------------------------------------------------------------------
(* The literals of a sequence, and the end of the block. *)

\* Mutant: a match may not start MFLIMIT bytes before the end either.
EndOfBlockEarly == Len(out') > call.cap - MFLimit - 1
EndOfBlock == Len(out') > call.cap - MFLimit

Literals ==
  /\ label = "literals" /\ Len(log) < MaxRead
  /\ \E q \in SequenceIn :
       /\ at' = LitEnd(q, at) /\ at' <= call.src
       /\ log' = Append(log, [seq |-> q, ip |-> at, op |-> Len(out)])
       /\ \/ Left < q.lit /\ label' = "error" /\ UNCHANGED out
          \/ /\ Left >= q.lit
             /\ out' = out \o [k \in 1..q.lit |-> at' - q.lit + k - 1]
             /\ label' = IF ~EndOfBlock THEN "match"
                         ELSE IF Len(out') = call.cap THEN "end" ELSE "error?"
             /\ label' = "end" => at' = call.src
  /\ UNCHANGED call

(* Literals that end neither at the end of the text nor MFLIMIT before it *)
EndMissed == label = "error?" /\ label' = "error" /\ UNCHANGED <<call, out, at, log>>

----------------------------------------------------------------------------
(* The match of a sequence. *)

TooLong(q) == Left < q.ml
TooFar(q) == q.offset > Len(out) + call.prefix + call.dictSize
BehindPrefix(q) == q.offset > Len(out) + call.prefix

\* Mutant: behind the dictionary, the match goes on at its offset.
SeamMatchOffset(q) ==
  LET extml == q.offset - (Len(out) + call.prefix)
      n == IF extml > q.ml THEN q.ml ELSE extml
  IN [k \in 1..n |-> k - 1 - call.prefix - extml] \o
     Copied(Len(out) - q.offset, Len(out) + n, q.ml - n)

(* It may begin in the external dictionary and go on in the prefix. *)
SeamMatch(q) ==
  LET extml == q.offset - (Len(out) + call.prefix)
      n == IF extml > q.ml THEN q.ml ELSE extml
      head == [k \in 1..n |-> k - 1 - call.prefix - extml]
      tail[u \in 0..q.ml - n - 1] ==
        LET a == u - call.prefix
        IN IF a \in Len(out)..Len(out) + n - 1 THEN head[a - Len(out) + 1]
           ELSE IF a >= Len(out) + n THEN tail[a - Len(out) - n] ELSE ByteAt(a)
  IN head \o [u \in 1..q.ml - n |-> tail[u - 1]]

Match ==
  /\ label = "match" /\ at' = MatchEnd(current, at) /\ at' <= call.src
  /\ \/ (TooLong(current) \/ TooFar(current)) /\ label' = "error" /\ UNCHANGED out
     \/ /\ ~TooLong(current) /\ ~TooFar(current) /\ label' = "matched"
        /\ out' = out \o (IF BehindPrefix(current) THEN SeamMatch(current)
                          ELSE Copied(Len(out) - current.offset, Len(out), current.ml))
  /\ UNCHANGED <<call, log>>

NoLiteralsLeft == Left < LastLiterals

Matched == /\ label = "matched"
           /\ label' = IF NoLiteralsLeft THEN "error" ELSE "literals"
           /\ UNCHANGED <<call, out, at, log>>

UnsafeInit == /\ call \in Calls /\ out = <<>> /\ at = 0 /\ label = "literals" /\ log = <<>>

UnsafeNext == Literals \/ EndMissed \/ Match \/ Matched

UnsafeSpec == UnsafeInit /\ [][UnsafeNext]_unsafeVars

----------------------------------------------------------------------------
(* Properties. *)

(* The output never grows beyond decompressedSize, and a block that is     *)
(* accepted fills it.                                                      *)
UnsafeTypeOK ==
  /\ call \in Calls /\ at \in 0..call.src
  /\ label \in {"literals", "match", "matched", "end", "error", "error?"}
  /\ Len(out) \in 0..call.cap /\ (label = "end" => Len(out) = call.cap)
  /\ Len(log) \in 0..MaxRead

(* What Lz4Decompress demands of a sequence: see Belongs there. *)
Fits(r) ==
  LET a == LitEnd(r.seq, r.ip)
      e == r.op + r.seq.lit
  IN \/ a = call.src /\ e = call.cap
     \/ /\ MatchEnd(r.seq, a) + 1 + LastLiterals <= call.src
        /\ e + MFLimit <= call.cap /\ e + r.seq.ml + LastLiterals <= call.cap
        /\ r.seq.offset <= call.dictSize + call.prefix + e

(* With no idea of where the input ends it accepts no block that the safe  *)
(* decoder would not, but for a distance of 0, and refuses none that the   *)
(* safe decoder would go on with.                                          *)
AcceptsOnlyValid == label = "end" => \A k \in DOMAIN log : Fits(log[k])
RefusesNoValid == label \in {"error", "error?"} => ~Fits(log[Len(log)])
UnsafeJudgesRight == AcceptsOnlyValid /\ RefusesNoValid

(* Byte by byte, across the seams between dictionary, prefix and output,   *)
(* it follows the format.                                                  *)
HistorySize == call.dictSize + call.prefix
Reader == INSTANCE Lz4Format WITH
            text <- [k \in 1..HistorySize |-> k - HistorySize - 1] \o out,
            partial <- FALSE, size <- call.src, seq <- current,
            part <- CASE label = "matched" -> "literals" [] label = "error?" -> "match"
                      [] OTHER -> label
UnsafeFollowsFormat == Reader!FSpec
=============================================================================
