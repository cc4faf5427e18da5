----------------------------- MODULE Lz4Format -----------------------------
(***************************************************************************)
(* The LZ4 block format as its decoders promise to read it: a text that    *)
(* grows by runs of literals, copied from the input, and by matches,       *)
(* copied from the text at a distance.  A byte is the place it came from:  *)
(* i >= 0 is the input's byte at i, and -k the byte k places before the    *)
(* block, in its dictionary.  This is the abstract specification that the  *)
(* decoders of lz4.c implement, however many bytes they copy at a time.    *)
(***************************************************************************)
EXTENDS Integers, Sequences

CONSTANTS
  MinMatch,      \* MINMATCH: the length a match has at least
  LastLiterals,  \* LASTLITERALS: a block ends in so many literals at least
  MFLimit        \* MFLIMIT: no match starts closer to the end than this

VARIABLES
  text,     \* the dictionary, and what is decoded behind it
  at,       \* the input read so far
  seq,      \* the sequence being read: [lit, offset, ml]
  part,     \* what comes next: "literals", "match", "end" or "error"
  partial,  \* the reader may stop anywhere
  size      \* the length of the input

fvars == <<text, at, seq, part, partial, size>>

Grown == Len(text') - Len(text)

(* The text keeps what it has and gains n bytes. *)
Grows(n) == Grown = n /\ SubSeq(text', 1, Len(text)) = text

(* The last n bytes of the new text are the input's, up to at'. *)
FromInput(n) == \A k \in 1..n : text'[Len(text) + k] = at' - n + k - 1

(* The last n bytes of the new text repeat it at a distance.  The format   *)
(* has no distance 0: what a decoder writes for one is its own affair.     *)
AtDistance(d, n) ==
  d # 0 => \A k \in Len(text) + 1..Len(text) + n :
             k - d >= 1 /\ text'[k] = text'[k - d]

FInit == /\ text = [k \in 1..Len(text) |-> k - Len(text) - 1]
         /\ at = 0
         /\ part = "literals"

Same == UNCHANGED <<partial, size>>

Skip == part' = part /\ at' >= at /\ Same /\ UNCHANGED text

Literals == /\ part = "literals" /\ part' = "match" /\ Same
            /\ at' >= at + seq'.lit
            /\ Grows(seq'.lit)
            /\ FromInput(seq'.lit)

Match == /\ part = "match" /\ part' = "literals" /\ Same
         /\ seq' = seq
         /\ Grows(seq.ml)
         /\ AtDistance(seq.offset, seq.ml)

(* A whole block ends in literals, with the input. *)
Last == /\ part = "literals" /\ part' = "end" /\ Same
        /\ at' = size
        /\ Grows(seq'.lit)
        /\ FromInput(seq'.lit)

(* A reader that may stop anywhere may cut its last run short. *)
Cut == /\ partial /\ Same
       /\ part' \in {"match", "literals", "end"}
       /\ \/ /\ part = "literals"
             /\ Grown <= seq'.lit
             /\ Grows(Grown) /\ FromInput(Grown)
          \/ /\ part = "match" /\ seq' = seq
             /\ Grown <= seq.ml
             /\ Grows(Grown) /\ AtDistance(seq.offset, Grown)

(* A reader without input, or without room, has nothing to read. *)
Nothing == part = "literals" /\ part' = "end" /\ Same /\ UNCHANGED text

Fail == part' = "error" /\ Same /\ UNCHANGED text

FNext == Skip \/ Literals \/ Match \/ Last \/ Cut \/ Nothing \/ Fail

FSpec == FInit /\ [][FNext]_fvars
=============================================================================
