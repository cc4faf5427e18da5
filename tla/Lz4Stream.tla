----------------------------- MODULE Lz4Stream -----------------------------
(***************************************************************************)
(* LZ4_stream_t (lz4.c): what a stream remembers from block to block, so   *)
(* that a block may refer to the ones before it or to a dictionary.  The   *)
(* table holds indexes, not bytes: whether an index still leads to bytes   *)
(* that the decoder has at the same distance depends on every call since   *)
(* it was stored, and on what the caller has done with its buffers.        *)
(*                                                                         *)
(* How one block is compressed is module Lz4Compress.  Here the contents   *)
(* of the blocks are open, and so is the bucket an index falls into: any   *)
(* index ever stored since the table was cleared may be found.  Memory     *)
(* holds, for an address, the position in the decoder's text of the byte   *)
(* that is there: the text is the dictionary and all blocks since a reset. *)
(* In a stream that has gone astray it no longer matters.                  *)
(***************************************************************************)
EXTENDS Integers, FiniteSets

CONSTANTS
  Memory,        \* bound: addresses 0..Memory-1
  Starts,        \* where the caller puts blocks that do not follow on
  BlockSizes,    \* sizes of blocks
  DictSizes,     \* sizes of dictionaries, to load and to save
  MaxText,       \* bound: bytes compressed since a reset
  KB64,          \* 64 KB
  MatchBytes,    \* MINMATCH
  MatchRoom,     \* MFLIMIT
  HashUnit,      \* HASH_UNIT: bytes read to hash a dictionary's position
  Large,         \* 4 KB, a block for which a table is worth clearing or copying
  Aged,          \* 1 GB, where LZ4_prepareTable starts over
  RenormAt       \* 2 GB, where LZ4_renormDictT does

ASSUME StreamAssumption ==
  /\ Memory \in Nat /\ Starts \subseteq 0..Memory /\ BlockSizes \cup DictSizes \subseteq Nat
  /\ MaxText \in Nat
  /\ MatchBytes \in Nat \ {0} /\ MatchRoom \in Nat /\ HashUnit \in Nat /\ KB64 \in Nat
  /\ MatchBytes <= HashUnit /\ MatchBytes <= MatchRoom /\ HashUnit <= KB64
  /\ Large \in Nat /\ Aged \in Nat /\ RenormAt \in Nat
  /\ Aged + KB64 < RenormAt /\ \A n \in BlockSizes : KB64 + n < RenormAt

VARIABLES
  ctx,        \* the stream: see Context
  hashTable,  \* the indexes it may hold
  dict,       \* a stream loaded with a dictionary, for others to attach
  mem,        \* what is where: a position in the text, or Lost
  text,       \* the length of the decoder's text
  broken,     \* the last call has failed: the stream must be reset
  astray,     \* since a reset, the caller has attached a dictionary to a stream with
              \* a history, or a block of its ring buffer has swallowed the history
  misled      \* some call could find what the decoder has not, in a stream not astray

streamVars == <<ctx, hashTable, dict, mem, text, broken, astray, misled>>

Farthest == KB64 - 1               \* LZ4_DISTANCE_MAX
U16Limit == KB64 + MatchRoom - 1   \* LZ4_64Klimit
Lost == -1
Null == -1000
Empty == {0}

Smaller(a, b) == IF a < b THEN a ELSE b
Region(a, n) == a..a + n - 1

(* LZ4_stream_t_internal; the dictionary is dictSize bytes from an address *)
Context == [currentOffset : Nat, tableType : {"clearedTable", "byU32", "byU16"},
            dictionary : Int, dictSize : Nat, attached : BOOLEAN]
Fresh == [currentOffset |-> 0, tableType |-> "clearedTable",
          dictionary |-> Null, dictSize |-> 0, attached |-> FALSE]

EndOf(c) == c.dictionary + c.dictSize
DictEnd(c) == IF c.dictSize > 0 THEN EndOf(c) ELSE Null

----------------------------------------------------------------------------
(* Setting a stream up. *)

(* LZ4_prepareTable: the context, and whether the table has been cleared *)
Clears(c, n, type) ==
  c.tableType # "clearedTable" /\
    \/ c.tableType # type
    \/ type = "byU16" /\ c.currentOffset + n >= KB64 - 1
    \/ type = "byU32" /\ c.currentOffset > Aged
    \/ n >= Large
Prepared(c, n, type) ==
  LET clears == Clears(c, n, type)
      offset == IF clears THEN 0 ELSE c.currentOffset
  IN [currentOffset |-> IF offset # 0 /\ type = "byU32" THEN offset + KB64 ELSE offset,
      tableType |-> IF clears THEN "clearedTable" ELSE c.tableType,
      dictionary |-> Null, dictSize |-> 0, attached |-> FALSE]

Forgotten == [a \in DOMAIN mem |-> Lost]
NoText == text' = 0 /\ mem' = Forgotten
NewText == NoText /\ broken' = FALSE /\ astray' = FALSE
NoHistory == NoText /\ broken' = TRUE /\ astray' = FALSE

(* LZ4_initStream, LZ4_resetStream *)
ResetStream == /\ ctx' = Fresh /\ hashTable' = Empty
               /\ NewText /\ UNCHANGED <<dict, misled>>

(* Bound: a stream without entries gains 64 KB with each fast reset, and   *)
(* nothing ever starts it over; it takes tens of thousands of them, with   *)
(* not a byte compressed in between, to leave the range of the indexes.    *)
FewIdleResets == ctx.tableType = "clearedTable" => ctx.currentOffset <= Aged

(* LZ4_resetStream_fast *)
ResetStreamFast == /\ FewIdleResets
                   /\ ctx' = Prepared(ctx, 0, "byU32")
                   /\ hashTable' = IF Clears(ctx, 0, "byU32") THEN Empty ELSE hashTable
                   /\ NewText /\ UNCHANGED <<dict, misled>>

(* LZ4_loadDict_internal: n bytes at a; LZ4_loadDict takes every third     *)
(* position into the table, LZ4_loadDictSlow the others where it can       *)
Loaded(a, n) ==
  LET size == IF n < HashUnit THEN 0 ELSE Smaller(n, KB64)
  IN [currentOffset |-> KB64,
      tableType |-> IF size = 0 THEN "clearedTable" ELSE "byU32",
      dictionary |-> IF size = 0 THEN Null ELSE a + n - size,
      dictSize |-> size, attached |-> FALSE]
LoadedTable(n, slow) ==
  LET size == IF n < HashUnit THEN 0 ELSE Smaller(n, KB64)
  IN Empty \cup {KB64 - size + p : p \in {q \in 0..size - HashUnit : slow \/ q % 3 = 0}}

Placed(m, a, n, from) == [b \in DOMAIN m |-> IF b \in Region(a, n) THEN from + (b - a) ELSE m[b]]

LoadDict(a, n, slow) ==
  /\ Region(a, n) \subseteq DOMAIN mem
  /\ ctx' = Loaded(a, n) /\ hashTable' = LoadedTable(n, slow)
  /\ text' = n /\ mem' = Placed(Forgotten, a, n, 0) /\ broken' = FALSE
  /\ astray' = FALSE
  /\ UNCHANGED <<dict, misled>>

(* LZ4_attach_dictionary: for the caller, as lz4.h says, the dictionary    *)
(* "replaces any pre-existing stream history"; but the stream keeps its    *)
(* own, and the next block goes on with that if it follows it.             *)
AttachDictionary ==
  /\ ~broken
  /\ ctx' = [ctx EXCEPT !.currentOffset = IF @ = 0 THEN KB64 ELSE @,
                        !.attached = (dict.ctx.dictSize > 0)]
  /\ astray' = (astray \/ (dict.ctx.dictSize > 0 /\ ctx.dictSize > 0))
  /\ \/ dict.ctx.dictSize = 0 /\ UNCHANGED <<mem, text>>
     \/ dict.ctx.dictSize > 0 /\ astray' /\ NoText
     \/ /\ dict.ctx.dictSize > 0 /\ ~astray'
        /\ text' = dict.ctx.dictSize
        /\ mem' = Placed(Forgotten, dict.ctx.dictionary, dict.ctx.dictSize, 0)
  /\ UNCHANGED <<hashTable, dict, broken, misled>>

(* LZ4_attach_dictionary without one: it takes the attached one away, and  *)
(* with it all the history there was.                                      *)
DetachDictionary ==
  /\ ~broken
  /\ ctx' = [ctx EXCEPT !.attached = FALSE]
  /\ IF ctx.attached THEN NoText ELSE UNCHANGED <<mem, text>>
  /\ UNCHANGED <<hashTable, dict, broken, astray, misled>>

----------------------------------------------------------------------------
(* Compressing a block. *)

\* Mutant: the offset is rescaled, the table is not.
RenormedTableKept(c, n) == hashTable

(* LZ4_renormDictT *)
Renorms(c, n) == c.currentOffset + n > RenormAt
Renormed(c, n) ==
  LET size == Smaller(c.dictSize, KB64)
  IN IF Renorms(c, n) THEN [c EXCEPT !.currentOffset = KB64, !.dictSize = size,
                                     !.dictionary = EndOf(c) - size]
                      ELSE c
RenormedTable(c, n) ==
  LET delta == c.currentOffset - KB64
  IN IF Renorms(c, n) THEN {IF i < delta THEN 0 ELSE i - delta : i \in hashTable} ELSE hashTable

(* "invalidate tiny dictionaries": also the end that follows it *)
Tiny(c, s, n) == c.dictSize < MatchBytes /\ DictEnd(c) # s /\ n > 0 /\ ~c.attached
WithoutTiny(c, s, n) == IF Tiny(c, s, n) THEN [c EXCEPT !.dictSize = 0, !.dictionary = s] ELSE c
EndWithoutTiny(c, s, n) == IF Tiny(c, s, n) THEN s ELSE DictEnd(c)

\* Mutant: the overlapped part of the dictionary stays.
TrimmedNot(c, end, s, n) == c

(* "Check overlapping input/dictionary space" *)
Trimmed(c, end, s, n) ==
  LET left == Smaller(end - (s + n), KB64)
      size == IF left < MatchBytes THEN 0 ELSE left
  IN IF s + n > c.dictionary /\ s + n < end
       THEN [c EXCEPT !.dictSize = size, !.dictionary = end - size] ELSE c

(* dictIssue: the table may know of more than the dictionary *)
DictSmall(c) == c.dictSize < KB64 /\ c.dictSize < c.currentOffset

(* An entry that LZ4_compress_generic may compare with, and what it must   *)
(* be for that: four bytes of the history, or the beginning of fewer that  *)
(* go on in the block.                                                     *)
Compared(i, start, size, small) ==
  i < start /\ (small => i >= start - size) /\ i + Farthest >= start + 1
Leads(i, start, size, prefix) ==
  i \in start - size..start - (IF prefix THEN 1 ELSE MatchBytes)

(* The history at the end of which the block begins is the decoder's. *)
SameHistory(m, end, size) ==
  \A k \in 1..Smaller(size, Farthest) :
    end - k \in DOMAIN m => m[end - k] = text - k

(* LZ4_compress_generic, called with n bytes at s: it stores the indexes   *)
(* of any of their positions but the last.                                 *)
Stored(t, start, n) ==
  IF n <= MatchRoom THEN t ELSE t \cup {start + p : p \in 0..n - MatchRoom}
StoredU16(t, start, n) ==
  IF n <= MatchRoom THEN t ELSE t \cup {(start + p) % KB64 : p \in 0..n - MatchRoom}
Compressed(c, n, type) ==
  IF n = 0 THEN c
  ELSE [c EXCEPT !.currentOffset = @ + n, !.dictSize = @ + n, !.tableType = type]
CompressedDictCtx(c, n) ==
  IF n = 0 THEN c
  ELSE [c EXCEPT !.currentOffset = @ + n, !.dictSize = n, !.tableType = "byU32",
                 !.attached = FALSE]

Overlaps(c, s, n) == Region(s, n) \cap Region(c.dictionary, c.dictSize) # {}
Strays(s, n) == astray \/ (Overlaps(ctx, s, n) /\ s + n >= EndOf(ctx))

(* The caller writes the block, then calls; a failure (no room for the     *)
(* output) leaves a stream that must be reset.                             *)
Written(s, n) == Placed(mem, s, n, text)
Block(s, n) == /\ \/ /\ broken' = FALSE
                     /\ astray' = Strays(s, n)
                     /\ IF astray' THEN NoText ELSE text' = text + n /\ mem' = Written(s, n)
                  \/ n > 0 /\ NoHistory
               /\ UNCHANGED dict

(* What the call c, a context with the table t, could be misled by. *)
Misled(c, t, s, n, end, small) ==
  misled' = (misled \/ (~Strays(s, n) /\ n > MatchRoom /\
    \/ ~SameHistory(Written(s, n), end, c.dictSize)
    \/ \E i \in t : Compared(i, c.currentOffset, c.dictSize, small)
                      /\ ~Leads(i, c.currentOffset, c.dictSize, end = s)))

(* Where a caller may put a block: what it overwrites of the history       *)
(* leaves the end of it, or, in a ring buffer, is all of it.               *)
Placeable(c, s, n) ==
  /\ Region(s, n) \subseteq DOMAIN mem
  /\ text + n <= MaxText
  /\ Overlaps(c, s, n) => s + n < EndOf(c) \/ s <= c.dictionary

(* LZ4_compress_fast_continue *)
Continue(s, n) ==
  LET c0 == Renormed(ctx, n)
      t == RenormedTable(ctx, n)
      end == EndWithoutTiny(c0, s, n)
      c == Trimmed(WithoutTiny(c0, s, n), end, s, n)
      after(d) == [d EXCEPT !.dictionary = s, !.dictSize = n]
  IN /\ ~broken /\ Placeable(ctx, s, n) /\ Block(s, n)
     /\ \/ /\ end = s   \* prefix mode
           /\ ctx' = Compressed(c, n, "byU32")
           /\ hashTable' = Stored(t, c.currentOffset, n)
           /\ Misled(c, t, s, n, end, DictSmall(c))
        \/ /\ end # s /\ ~c.attached   \* external dictionary
           /\ ctx' = after(Compressed(c, n, "byU32"))
           /\ hashTable' = Stored(t, c.currentOffset, n)
           /\ Misled(c, t, s, n, EndOf(c), DictSmall(c))
        \/ /\ end # s /\ c.attached /\ n > Large   \* the attached one, copied
           /\ ctx' = after(Compressed(dict.ctx, n, "byU32"))
           /\ hashTable' = Stored(dict.hashTable, dict.ctx.currentOffset, n)
           /\ Misled(dict.ctx, dict.hashTable, s, n, EndOf(dict.ctx), FALSE)
        \/ /\ end # s /\ c.attached /\ n <= Large   \* the attached one
           /\ ctx' = after(CompressedDictCtx(c, n))
           /\ hashTable' = Stored(t, c.currentOffset, n)
           /\ LET delta == c.currentOffset - dict.ctx.currentOffset
              IN Misled([dict.ctx EXCEPT !.currentOffset = c.currentOffset],
                        {i + delta : i \in dict.hashTable}, s, n, EndOf(dict.ctx), FALSE)

(* LZ4_compress_forceExtDict: takes no care of a tiny or an overlapping    *)
(* history, so its caller must avoid them.                                 *)
ForceExtDict(s, n) ==
  LET c == Renormed(ctx, n)
      t == RenormedTable(ctx, n)
  IN /\ ~broken /\ ~ctx.attached /\ Placeable(ctx, s, n) /\ ctx.dictSize \notin 1..MatchBytes - 1
     /\ ~Overlaps(ctx, s, n)
     /\ Block(s, n)
     /\ ctx' = [Compressed(c, n, "byU32") EXCEPT !.dictionary = s, !.dictSize = n]
     /\ hashTable' = Stored(t, c.currentOffset, n)
     /\ Misled(c, t, s, n, EndOf(c), DictSmall(c))

(* LZ4_compress_fast_extState_fastReset: a block by itself *)
ExtStateFastReset(s, n) ==
  LET type == IF n < U16Limit THEN "byU16" ELSE "byU32"
      c == Prepared(ctx, n, type)
      t == IF Clears(ctx, n, type) THEN Empty ELSE hashTable
      small == type = "byU16" /\ c.currentOffset > 0
  IN /\ FewIdleResets
     /\ Region(s, n) \subseteq DOMAIN mem /\ n <= MaxText
     /\ NoHistory
     /\ ctx' = Compressed(c, n, type)
     /\ hashTable' = IF type = "byU16" THEN StoredU16(t, c.currentOffset, n)
                                    ELSE Stored(t, c.currentOffset, n)
     /\ misled' = (misled \/ (n > MatchRoom /\
          \E i \in t : /\ i < c.currentOffset
                       /\ IF type = "byU16" THEN ~small
                          ELSE Compared(i, c.currentOffset, 0, FALSE)))
     /\ UNCHANGED dict

(* LZ4_saveDict: up to k bytes of the history, moved to a *)
SaveDict(a, k) ==
  LET size == Smaller(Smaller(k, KB64), ctx.dictSize)
      from == EndOf(ctx) - size
  IN /\ ~broken
     /\ Region(a, size) \subseteq DOMAIN mem
     /\ mem' = [b \in DOMAIN mem |-> IF b \in Region(a, size) THEN mem[from + (b - a)] ELSE mem[b]]
     /\ ctx' = [ctx EXCEPT !.dictionary = a, !.dictSize = size]
     /\ UNCHANGED <<hashTable, dict, text, broken, astray, misled>>

----------------------------------------------------------------------------

StreamInit ==
  /\ ctx = Fresh /\ hashTable = Empty
  /\ \E n \in DictSizes, slow \in BOOLEAN :
       dict = [ctx |-> Loaded(Memory, n), hashTable |-> LoadedTable(n, slow)]
  /\ mem = [a \in 0..Memory - 1 |-> Lost]
  /\ text = 0 /\ broken = FALSE /\ astray = FALSE /\ misled = FALSE

StreamNext ==
  \/ ResetStream \/ ResetStreamFast \/ AttachDictionary \/ DetachDictionary
  \/ \E s \in Starts, n \in DictSizes :
       \/ \E slow \in BOOLEAN : LoadDict(s, n, slow)
       \/ SaveDict(s, n)
  \/ \E s \in Starts, n \in BlockSizes : ExtStateFastReset(s, n)
  \/ \E s \in Starts \cup {EndOf(ctx)}, n \in BlockSizes : Continue(s, n) \/ ForceExtDict(s, n)

StreamSpec == StreamInit /\ [][StreamNext]_streamVars

----------------------------------------------------------------------------
(* Properties. *)

(* The offsets, which LZ4_prepareTable and LZ4_renormDictT keep from       *)
(* growing, never come to wrap in their 32 bits.                           *)
StreamTypeOK == /\ ctx \in Context /\ ctx.currentOffset < 2 * RenormAt
                /\ hashTable \subseteq Nat
                /\ text \in 0..MaxText /\ {broken, astray, misled} \subseteq BOOLEAN
                /\ mem \in [0..Memory - 1 -> -1..MaxText - 1]

(* Whatever was compressed, saved, loaded, attached or overwritten before, *)
(* an index that a call can find within reach leads to bytes that the      *)
(* decoder has at that distance.  It is what LZ4_compress_generic takes    *)
(* for granted (HandedOver in Lz4Compress).  Two things that lz4.h allows  *)
(* are left out, since they do mislead it: attaching a dictionary to a     *)
(* stream that has a history, and a ring buffer so small that a block      *)
(* swallows all of it ("any size"); but no longer than to the next reset.  *)
NeverMisled == ~misled

(* lz4.c, LZ4_prepareTable: "If the table hasn't been used, it's           *)
(* guaranteed to be zeroed out"; and what it holds lies behind the offset  *)
(* of the next block (the assertions matchIndex < current).                *)
TableBehind == /\ ctx.tableType = "clearedTable" => hashTable = Empty
               /\ \A i \in hashTable : i < ctx.currentOffset \/ i = 0
=============================================================================
