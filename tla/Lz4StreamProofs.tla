-------------------------- MODULE Lz4StreamProofs --------------------------
(***************************************************************************)
(* Theorems about Lz4Stream, for any sizes, limits and placements that     *)
(* satisfy its assumption: the table stays behind the offset of the next   *)
(* block, the offset stays in its range, and no call is ever misled by     *)
(* what it finds in the table, as long as the stream has not gone astray.  *)
(***************************************************************************)
EXTENDS Lz4Stream, TLAPS

\* The indexes of a table lie behind an offset, with four bytes between; 0 is no index.
Below(t, offset) == t \subseteq Nat /\ \A i \in t : i = 0 \/ i + MatchBytes <= offset

\* A context and its table agree.
TableOf(c, t) ==
  /\ c \in Context
  /\ Below(t, c.currentOffset)
  /\ c.tableType = "clearedTable" => t = Empty

\* What a stream loaded with a dictionary holds, and that its dictionary lies apart.
DictLoaded ==
  /\ TableOf(dict.ctx, dict.hashTable)
  /\ dict.ctx.currentOffset = KB64
  /\ dict.ctx.dictSize <= KB64
  /\ ~dict.ctx.attached
  /\ dict.ctx.dictSize > 0 => dict.ctx.dictionary >= Memory
  /\ \A i \in dict.hashTable : i = 0 \/ i >= KB64 - dict.ctx.dictSize

Tables == TableOf(ctx, hashTable) /\ DictLoaded /\ ctx.currentOffset < 2 * RenormAt

-----------------------------------------------------------------------------
(* The operators.                                                          *)

LEMMA Constants ==
  /\ KB64 \in Nat /\ MatchBytes \in Nat /\ MatchRoom \in Nat /\ HashUnit \in Nat
  /\ Large \in Nat /\ Aged \in Nat /\ RenormAt \in Nat /\ Memory \in Nat /\ MaxText \in Nat
  /\ MatchBytes > 0 /\ MatchBytes <= HashUnit /\ MatchBytes <= MatchRoom /\ HashUnit <= KB64
  /\ Aged + KB64 < RenormAt
  /\ \A n \in BlockSizes : n \in Nat /\ KB64 + n < RenormAt
  /\ \A n \in DictSizes : n \in Nat
  /\ \A s \in Starts : s \in Nat
  BY StreamAssumption DEF StreamAssumption

LEMMA StoredBelow ==
  ASSUME NEW t, NEW start \in Nat, NEW n \in Nat, NEW end \in Nat,
         end = start + n, Below(t, start)
  PROVE  /\ Below(Stored(t, start, n), end) /\ Below(StoredU16(t, start, n), end)
         /\ n = 0 => Stored(t, start, n) = t /\ StoredU16(t, start, n) = t
<1>1. CASE n <= MatchRoom
  BY <1>1, Constants DEF Below, Stored, StoredU16
<1>2. CASE n > MatchRoom
  <2>1. \A p \in 0 .. n - MatchRoom :
          /\ start + p \in Nat /\ start + p + MatchBytes <= end
          /\ ((start + p) % KB64) \in Nat /\ ((start + p) % KB64) <= start + p
    BY <1>2, Constants
  <2>2. \A i \in t : i \in Nat /\ (i = 0 \/ i + MatchBytes <= end)
    BY Constants DEF Below
  <2>3. \A i \in Stored(t, start, n) : i \in Nat /\ (i = 0 \/ i + MatchBytes <= end)
    BY <1>2, <2>1, <2>2, Constants DEF Stored
  <2>4. \A i \in StoredU16(t, start, n) : i \in Nat /\ (i = 0 \/ i + MatchBytes <= end)
    <3>1. \A p \in 0 .. n - MatchRoom : ((start + p) % KB64) + MatchBytes <= end
      BY <2>1, Constants, <1>2
    <3> QED
      BY <1>2, <2>1, <2>2, <3>1, Constants DEF StoredU16
  <2> QED
    BY <1>2, <2>3, <2>4, Constants DEF Below
<1> QED
  BY <1>1, <1>2, Constants

\* LZ4_renormDictT keeps what a context says, and brings its offset back.
LEMMA RenormedOK ==
  ASSUME TableOf(ctx, hashTable), NEW n \in BlockSizes
  PROVE  /\ TableOf(Renormed(ctx, n), RenormedTable(ctx, n))
         /\ Renormed(ctx, n).currentOffset + n < 2 * RenormAt
         /\ Renormed(ctx, n).attached = ctx.attached
         /\ EndOf(Renormed(ctx, n)) = EndOf(ctx)
         /\ \/ Renormed(ctx, n).dictSize = ctx.dictSize
            \/ Renormed(ctx, n).dictSize = KB64 /\ KB64 < ctx.dictSize
         /\ ctx.dictSize <= ctx.currentOffset
              => Renormed(ctx, n).dictSize <= Renormed(ctx, n).currentOffset
<1> USE Constants
<1>0. ctx \in Context /\ ctx.currentOffset \in Nat /\ ctx.dictSize \in Nat /\ ctx.dictionary \in Int
      /\ n \in Nat /\ KB64 + n < RenormAt
  BY DEF TableOf, Context
<1>1. CASE ~Renorms(ctx, n)
  BY <1>0, <1>1 DEF Renorms, Renormed, RenormedTable
<1>2. CASE Renorms(ctx, n)
  <2> DEFINE delta == ctx.currentOffset - KB64
             size == Smaller(ctx.dictSize, KB64)
             begin == EndOf(ctx) - size
             r == [ctx EXCEPT !.currentOffset = KB64, !.dictSize = size,
                              !.dictionary = begin]
  <2>1. delta \in Nat /\ delta > 0
    BY <1>0, <1>2 DEF Renorms
  <2>2. size \in Nat /\ size <= KB64 /\ (size = ctx.dictSize \/ (size = KB64 /\ KB64 < ctx.dictSize))
    BY <1>0 DEF Smaller
  <2>3. EndOf(ctx) \in Int
    BY <1>0 DEF EndOf
  <2>4. /\ r \in Context /\ r.currentOffset = KB64 /\ r.dictSize = size
        /\ r.dictionary = begin /\ r.attached = ctx.attached
        /\ r.tableType = ctx.tableType
    <3>1. begin \in Int /\ size \in Nat
      BY <2>2, <2>3
    <3> HIDE DEF size, begin
    <3> QED
      BY <1>0, <3>1 DEF Context
  <2>5. Renormed(ctx, n) = r
    BY <1>2 DEF Renormed
  <2>6. RenormedTable(ctx, n) = {IF i < delta THEN 0 ELSE i - delta : i \in hashTable}
    BY <1>2 DEF RenormedTable
  <2>7. Below(RenormedTable(ctx, n), KB64)
    <3>1. \A i \in hashTable : i \in Nat /\ (i = 0 \/ i + MatchBytes <= ctx.currentOffset)
      BY DEF TableOf, Below
    <3>2. \A i \in hashTable : LET k == IF i < delta THEN 0 ELSE i - delta
                           IN  k \in Nat /\ (k = 0 \/ k + MatchBytes <= KB64)
      BY <1>0, <2>1, <3>1
    <3> QED
      BY <2>6, <3>2 DEF Below
  <2>8. hashTable = Empty => RenormedTable(ctx, n) = Empty
    BY <2>1, <2>6 DEF Empty
  <2>9. EndOf(r) = EndOf(ctx)
    BY <2>2, <2>3, <2>4 DEF EndOf
  <2> HIDE DEF r, delta, size, begin
  <2> QED
    BY <1>0, <2>2, <2>4, <2>5, <2>7, <2>8, <2>9 DEF TableOf
<1> QED
  BY <1>1, <1>2

\* The context with which a call of LZ4_compress_fast_continue begins.
Ready(c, s, n) == Trimmed(WithoutTiny(c, s, n), EndWithoutTiny(c, s, n), s, n)

\* Neither step of it touches the offset, and both only take from the dictionary.
LEMMA ReadyOK ==
  ASSUME NEW c \in Context, NEW s \in Int, NEW n \in Nat
  PROVE  /\ Ready(c, s, n) \in Context
         /\ Ready(c, s, n).currentOffset = c.currentOffset
         /\ Ready(c, s, n).tableType = c.tableType
         /\ Ready(c, s, n).attached = c.attached
         /\ s + n >= Null => Ready(c, s, n).dictSize <= c.dictSize
<1> USE Constants
<1>1. c.currentOffset \in Nat /\ c.dictSize \in Nat /\ c.dictionary \in Int
  BY DEF Context
<1> DEFINE w == WithoutTiny(c, s, n)
           end == EndWithoutTiny(c, s, n)
<1>2. /\ w \in Context /\ w.currentOffset = c.currentOffset /\ w.tableType = c.tableType
      /\ w.attached = c.attached /\ w.dictSize <= c.dictSize
  <2>1. CASE Tiny(c, s, n)
    <3>1. w = [c EXCEPT !.dictSize = 0, !.dictionary = s]
      BY <2>1 DEF WithoutTiny
    <3>2. 0 \in Nat /\ s \in Int
      OBVIOUS
    <3> HIDE DEF w
    <3>3. w \in Context
      BY <3>1, <3>2 DEF Context
    <3>4. /\ w.currentOffset = c.currentOffset /\ w.tableType = c.tableType
          /\ w.attached = c.attached /\ w.dictSize = 0
      BY <3>1 DEF Context
    <3> QED
      BY <1>1, <3>3, <3>4
  <2>2. CASE ~Tiny(c, s, n)
    BY <1>1, <2>2 DEF WithoutTiny
  <2> QED
    BY <2>1, <2>2
<1>3. end \in Int
  BY <1>1 DEF EndWithoutTiny, DictEnd, EndOf, Null
<1>4. CASE ~(s + n > w.dictionary /\ s + n < end)
  BY <1>2, <1>4 DEF Ready, Trimmed
<1>5. CASE s + n > w.dictionary /\ s + n < end
  <2> DEFINE left == Smaller(end - (s + n), KB64)
             size == IF left < MatchBytes THEN 0 ELSE left
  <2>1. Ready(c, s, n) = [w EXCEPT !.dictSize = size, !.dictionary = end - size]
    BY <1>5 DEF Ready, Trimmed
  <2>2. size \in Nat
    BY <1>3, <1>5 DEF Smaller
  <2>3. s + n >= Null => size <= c.dictSize
    <3> SUFFICES ASSUME s + n >= Null PROVE size <= c.dictSize
      OBVIOUS
    <3>1. CASE Tiny(c, s, n)
      <4>1. w.dictionary = s /\ end = s
        BY <1>1, <3>1 DEF WithoutTiny, EndWithoutTiny, Context
      <4> QED
        BY <1>5, <4>1
    <3>2. CASE ~Tiny(c, s, n)
      <4>1. w = c /\ end = DictEnd(c)
        BY <3>2 DEF WithoutTiny, EndWithoutTiny
      <4>2. c.dictSize > 0 /\ end = c.dictionary + c.dictSize
        BY <1>1, <1>5, <4>1 DEF DictEnd, EndOf, Null
      <4> HIDE DEF w, end
      <4> QED
        BY <1>1, <1>5, <4>1, <4>2 DEF Smaller
    <3> QED
      BY <3>1, <3>2
  <2> DEFINE begin == end - size
  <2>4. begin \in Int /\ Ready(c, s, n) = [w EXCEPT !.dictSize = size, !.dictionary = begin]
    BY <1>3, <2>1, <2>2
  <2> HIDE DEF w, end, size, begin
  <2> QED
    BY <1>2, <2>2, <2>3, <2>4 DEF Context
<1> QED
  BY <1>4, <1>5

After(c, s, n) == [c EXCEPT !.dictionary = s, !.dictSize = n]

\* What a call leaves in the context.
LEMMA CompressedOK ==
  ASSUME NEW c \in Context, NEW n \in Nat, NEW type \in {"byU32", "byU16"}
  PROVE  LET r == Compressed(c, n, type)
         IN  /\ r \in Context
             /\ r.currentOffset = c.currentOffset + n
             /\ r.dictSize = c.dictSize + n
             /\ r.dictionary = c.dictionary /\ r.attached = c.attached
             /\ r.tableType = IF n = 0 THEN c.tableType ELSE type
<1>1. c.currentOffset \in Nat /\ c.dictSize \in Nat
  BY DEF Context
<1>2. CASE n = 0
  BY <1>1, <1>2 DEF Compressed
<1>3. CASE n # 0
  <2> DEFINE a == c.currentOffset + n
             b == c.dictSize + n
             r == Compressed(c, n, type)
  <2>1. r = [c EXCEPT !.currentOffset = a, !.dictSize = b, !.tableType = type]
    BY <1>3 DEF Compressed
  <2>2. a \in Nat /\ b \in Nat
    BY <1>1
  <2> HIDE DEF a, b, r
  <2>3. r \in Context
    BY <2>1, <2>2 DEF Context
  <2>4. /\ r.currentOffset = a /\ r.dictSize = b /\ r.tableType = type
        /\ r.dictionary = c.dictionary /\ r.attached = c.attached
    BY <2>1 DEF Context
  <2> QED
    BY <1>3, <2>3, <2>4 DEF a, b, r
<1> QED
  BY <1>2, <1>3

LEMMA CompressedDictCtxOK ==
  ASSUME NEW c \in Context, NEW n \in Nat
  PROVE  LET r == CompressedDictCtx(c, n)
         IN  /\ r \in Context
             /\ r.currentOffset = c.currentOffset + n
             /\ r.attached = IF n = 0 THEN c.attached ELSE FALSE
             /\ r.tableType = IF n = 0 THEN c.tableType ELSE "byU32"
<1>1. c.currentOffset \in Nat
  BY DEF Context
<1>2. CASE n = 0
  BY <1>1, <1>2 DEF CompressedDictCtx
<1>3. CASE n # 0
  <2> DEFINE a == c.currentOffset + n
             r == CompressedDictCtx(c, n)
  <2>1. r = [c EXCEPT !.currentOffset = a, !.dictSize = n, !.tableType = "byU32",
                      !.attached = FALSE]
    BY <1>3 DEF CompressedDictCtx
  <2>2. a \in Nat
    BY <1>1
  <2> HIDE DEF a, r
  <2>3. r \in Context
    BY <2>1, <2>2 DEF Context
  <2>4. r.currentOffset = a /\ r.tableType = "byU32" /\ r.attached = FALSE
    BY <2>1 DEF Context
  <2> QED
    BY <1>3, <2>3, <2>4 DEF a, r
<1> QED
  BY <1>2, <1>3

LEMMA AfterOK ==
  ASSUME NEW c \in Context, NEW s \in Int, NEW n \in Nat
  PROVE  LET r == After(c, s, n)
         IN  /\ r \in Context
             /\ r.dictionary = s /\ r.dictSize = n
             /\ r.currentOffset = c.currentOffset
             /\ r.attached = c.attached /\ r.tableType = c.tableType
  BY DEF After, Context

\* A block enters the table behind what it holds, and the offset moves past it.
LEMMA GrownTable ==
  ASSUME NEW x, NEW t, TableOf(x, t), NEW n \in BlockSizes,
         NEW y \in Context, y.currentOffset = x.currentOffset + n,
         n = 0 => y.tableType = x.tableType, n # 0 => y.tableType # "clearedTable"
  PROVE  /\ TableOf(y, Stored(t, x.currentOffset, n))
         /\ y.tableType = "byU16" => TableOf(y, StoredU16(t, x.currentOffset, n))
<1>1. x.currentOffset \in Nat /\ y.currentOffset \in Nat /\ n \in Nat
  BY Constants DEF TableOf, Context
<1>2. /\ Below(Stored(t, x.currentOffset, n), y.currentOffset)
      /\ Below(StoredU16(t, x.currentOffset, n), y.currentOffset)
      /\ n = 0 => Stored(t, x.currentOffset, n) = t
  BY <1>1, StoredBelow DEF TableOf
<1> QED
  BY <1>2 DEF TableOf

\* LZ4_prepareTable.
LEMMA PreparedOK ==
  ASSUME TableOf(ctx, hashTable), NEW n \in Nat, NEW type \in {"byU32", "byU16"}
  PROVE  LET c == Prepared(ctx, n, type)
             t == IF Clears(ctx, n, type) THEN Empty ELSE hashTable
         IN  /\ TableOf(c, t)
             /\ c.dictSize = 0 /\ c.dictionary = Null /\ c.attached = FALSE
             /\ \/ c.currentOffset = 0
                \/ /\ c.currentOffset = ctx.currentOffset
                   /\ type = "byU16"
                \/ /\ c.currentOffset = ctx.currentOffset + KB64
                   /\ type = "byU32" /\ ctx.currentOffset # 0 /\ t = hashTable
             /\ c.tableType = IF Clears(ctx, n, type) THEN "clearedTable" ELSE ctx.tableType
<1> USE Constants
<1> DEFINE c == Prepared(ctx, n, type)
           offset == IF Clears(ctx, n, type) THEN 0 ELSE ctx.currentOffset
           now == IF offset # 0 /\ type = "byU32" THEN offset + KB64 ELSE offset
           name == IF Clears(ctx, n, type) THEN "clearedTable" ELSE ctx.tableType
           t == IF Clears(ctx, n, type) THEN Empty ELSE hashTable
<1>1. ctx \in Context /\ ctx.currentOffset \in Nat
      /\ ctx.tableType \in {"clearedTable", "byU32", "byU16"}
  BY DEF TableOf, Context
<1>2. c = [currentOffset |-> now, tableType |-> name, dictionary |-> Null, dictSize |-> 0,
           attached |-> FALSE]
  BY DEF Prepared
<1>3. now \in Nat /\ now >= offset /\ name \in {"clearedTable", "byU32", "byU16"} /\ Null \in Int
  BY <1>1 DEF Null
<1>4. Below(t, now)
  <2>1. CASE Clears(ctx, n, type)
    BY <2>1 DEF Below, Empty
  <2>2. CASE ~Clears(ctx, n, type)
    <3>1. t = hashTable /\ offset = ctx.currentOffset
      BY <2>2
    <3>2. now \in Nat /\ now >= ctx.currentOffset
      BY <1>3, <3>1
    <3> HIDE DEF t, now, offset
    <3> QED
      BY <1>1, <3>1, <3>2, Constants DEF Below, TableOf
  <2> QED
    BY <2>1, <2>2
<1>5. name = "clearedTable" => t = Empty
  BY DEF TableOf
<1>6. \/ now = 0
      \/ now = ctx.currentOffset /\ type = "byU16"
      \/ now = ctx.currentOffset + KB64 /\ type = "byU32" /\ ctx.currentOffset # 0 /\ t = hashTable
  BY <1>1
<1> HIDE DEF now, offset, name, c, t
<1>7. /\ c.currentOffset = now /\ c.tableType = name /\ c.dictionary = Null
      /\ c.dictSize = 0 /\ c.attached = FALSE
  BY <1>2
<1>8. c \in Context
  BY <1>2, <1>3 DEF Context
<1>9. TableOf(c, t)
  BY <1>4, <1>5, <1>7, <1>8 DEF TableOf
<1> QED
  BY <1>6, <1>7, <1>9 DEF c, t, name

\* LZ4_loadDict_internal, and LZ4_loadDict or LZ4_loadDictSlow.
LEMMA LoadedOK ==
  ASSUME NEW a \in Int, NEW n \in Nat, NEW slow \in BOOLEAN
  PROVE  LET c == Loaded(a, n)
             t == LoadedTable(n, slow)
         IN  /\ TableOf(c, t)
             /\ c.currentOffset = KB64 /\ c.attached = FALSE
             /\ c.dictSize <= KB64 /\ c.dictSize <= n
             /\ c.dictSize > 0 => c.dictionary = a + n - c.dictSize
             /\ c.dictSize = 0 => c.dictionary = Null
             /\ \A i \in t : i = 0 \/ i >= KB64 - c.dictSize
<1> USE Constants
<1> DEFINE c == Loaded(a, n)
           t == LoadedTable(n, slow)
           size == IF n < HashUnit THEN 0 ELSE Smaller(n, KB64)
           name == IF size = 0 THEN "clearedTable" ELSE "byU32"
           begin == IF size = 0 THEN Null ELSE a + n - size
<1>1. size \in Nat /\ size <= n /\ size <= KB64 /\ (size = 0 \/ size >= HashUnit)
  BY DEF Smaller
<1>2. begin \in Int /\ name \in {"clearedTable", "byU32", "byU16"}
  BY <1>1 DEF Null
<1>3. c = [currentOffset |-> KB64, tableType |-> name, dictionary |-> begin,
           dictSize |-> size, attached |-> FALSE]
  BY DEF Loaded
<1>4. t = Empty \cup {KB64 - size + p : p \in {q \in 0 .. size - HashUnit : slow \/ q % 3 = 0}}
  BY DEF LoadedTable
<1>5. name = "clearedTable" <=> size = 0
  OBVIOUS
<1>6. size = 0 => begin = Null
  OBVIOUS
<1>7. size > 0 => begin = a + n - size
  BY <1>1
<1> HIDE DEF size, name, begin, c, t
<1>8. \A p \in 0 .. size - HashUnit :
         /\ KB64 - size + p \in Nat
         /\ KB64 - size + p + MatchBytes <= KB64
         /\ KB64 - size + p >= KB64 - size
  BY <1>1
<1>9. Below(t, KB64) /\ \A i \in t : i = 0 \/ i >= KB64 - size
  BY <1>4, <1>8 DEF Below, Empty
<1>10. size = 0 => t = Empty
  <2>1. size = 0 => 0 .. size - HashUnit = {}
    BY <1>1
  <2> QED
    BY <1>4, <2>1
<1>11. c \in Context
  BY <1>1, <1>2, <1>3 DEF Context
<1>12. /\ c.currentOffset = KB64 /\ c.tableType = name /\ c.dictionary = begin
       /\ c.dictSize = size /\ c.attached = FALSE
  BY <1>3
<1>13. TableOf(c, t)
  BY <1>5, <1>9, <1>10, <1>11, <1>12 DEF TableOf
<1> QED
  BY <1>1, <1>6, <1>7, <1>9, <1>12, <1>13 DEF c, t

-----------------------------------------------------------------------------
(* The table stays behind the offset.                                      *)

\* The four ways in which LZ4_compress_fast_continue calls LZ4_compress_generic.
LEMMA ContinueCases ==
  ASSUME NEW s, NEW n, Continue(s, n)
  PROVE  LET c0 == Renormed(ctx, n)
             t == RenormedTable(ctx, n)
             c == Ready(c0, s, n)
             end == EndWithoutTiny(c0, s, n)
             delta == c.currentOffset - dict.ctx.currentOffset
         IN  \/ /\ end = s
                /\ ctx' = Compressed(c, n, "byU32")
                /\ hashTable' = Stored(t, c.currentOffset, n)
                /\ Misled(c, t, s, n, end, DictSmall(c))
             \/ /\ end # s /\ ~c.attached
                /\ ctx' = After(Compressed(c, n, "byU32"), s, n)
                /\ hashTable' = Stored(t, c.currentOffset, n)
                /\ Misled(c, t, s, n, EndOf(c), DictSmall(c))
             \/ /\ end # s /\ c.attached /\ n > Large
                /\ ctx' = After(Compressed(dict.ctx, n, "byU32"), s, n)
                /\ hashTable' = Stored(dict.hashTable, dict.ctx.currentOffset, n)
                /\ Misled(dict.ctx, dict.hashTable, s, n, EndOf(dict.ctx), FALSE)
             \/ /\ end # s /\ c.attached /\ n <= Large
                /\ ctx' = After(CompressedDictCtx(c, n), s, n)
                /\ hashTable' = Stored(t, c.currentOffset, n)
                /\ Misled([dict.ctx EXCEPT !.currentOffset = c.currentOffset],
                          {i + delta : i \in dict.hashTable}, s, n, EndOf(dict.ctx), FALSE)
  BY DEF Continue, Ready, After

LEMMA ContinueTables ==
  ASSUME Tables, NEW s \in Int, NEW n \in BlockSizes, Continue(s, n)
  PROVE  TableOf(ctx, hashTable)' /\ ctx'.currentOffset < 2 * RenormAt
<1> USE Constants
<1> DEFINE c0 == Renormed(ctx, n)
           t == RenormedTable(ctx, n)
           c == Ready(c0, s, n)
<1>0. n \in Nat /\ KB64 + n < 2 * RenormAt
  OBVIOUS
<1>1. TableOf(c0, t) /\ c0.currentOffset + n < 2 * RenormAt
  BY RenormedOK DEF Tables
<1>2. c \in Context /\ c.currentOffset = c0.currentOffset /\ c.tableType = c0.tableType
  BY <1>0, <1>1, ReadyOK DEF TableOf
<1>3. TableOf(c, t) /\ c.currentOffset + n < 2 * RenormAt
  BY <1>1, <1>2 DEF TableOf
<1>4. TableOf(dict.ctx, dict.hashTable) /\ dict.ctx \in Context /\ dict.ctx.currentOffset = KB64
  BY DEF Tables, DictLoaded, TableOf
<1> HIDE DEF c, t, c0
<1>5. ASSUME NEW x \in Context, NEW u, TableOf(x, u), x.currentOffset + n < 2 * RenormAt,
             ctx' \in Context, ctx'.currentOffset = x.currentOffset + n,
             ctx'.tableType = IF n = 0 THEN x.tableType ELSE "byU32",
             hashTable' = Stored(u, x.currentOffset, n)
      PROVE  TableOf(ctx, hashTable)' /\ ctx'.currentOffset < 2 * RenormAt
  <2>1. TableOf(ctx', Stored(u, x.currentOffset, n))
    BY <1>5, GrownTable
  <2> QED
    BY <1>5, <2>1 DEF TableOf, Below
<1>6. CASE ctx' = Compressed(c, n, "byU32") /\ hashTable' = Stored(t, c.currentOffset, n)
  BY <1>0, <1>2, <1>3, <1>5, <1>6, CompressedOK
<1>7. CASE /\ ctx' = After(Compressed(c, n, "byU32"), s, n)
           /\ hashTable' = Stored(t, c.currentOffset, n)
  <2> DEFINE d == Compressed(c, n, "byU32")
  <2>1. /\ d \in Context /\ d.currentOffset = c.currentOffset + n
        /\ d.tableType = IF n = 0 THEN c.tableType ELSE "byU32"
    BY <1>0, <1>2, CompressedOK
  <2> HIDE DEF d
  <2>2. /\ ctx' \in Context /\ ctx'.currentOffset = c.currentOffset + n
        /\ ctx'.tableType = IF n = 0 THEN c.tableType ELSE "byU32"
    BY <1>0, <1>7, <2>1, AfterOK DEF d
  <2> QED
    BY <1>2, <1>3, <1>5, <1>7, <2>2
<1>8. CASE /\ ctx' = After(Compressed(dict.ctx, n, "byU32"), s, n)
           /\ hashTable' = Stored(dict.hashTable, dict.ctx.currentOffset, n)
  <2> DEFINE d == Compressed(dict.ctx, n, "byU32")
  <2>1. /\ d \in Context /\ d.currentOffset = dict.ctx.currentOffset + n
        /\ d.tableType = IF n = 0 THEN dict.ctx.tableType ELSE "byU32"
    BY <1>0, <1>4, CompressedOK
  <2> HIDE DEF d
  <2>2. /\ ctx' \in Context /\ ctx'.currentOffset = dict.ctx.currentOffset + n
        /\ ctx'.tableType = IF n = 0 THEN dict.ctx.tableType ELSE "byU32"
    BY <1>0, <1>8, <2>1, AfterOK DEF d
  <2> QED
    BY <1>0, <1>4, <1>5, <1>8, <2>2
<1>9. CASE /\ ctx' = After(CompressedDictCtx(c, n), s, n)
           /\ hashTable' = Stored(t, c.currentOffset, n)
  <2> DEFINE d == CompressedDictCtx(c, n)
  <2>1. /\ d \in Context /\ d.currentOffset = c.currentOffset + n
        /\ d.tableType = IF n = 0 THEN c.tableType ELSE "byU32"
    BY <1>0, <1>2, CompressedDictCtxOK
  <2> HIDE DEF d
  <2>2. /\ ctx' \in Context /\ ctx'.currentOffset = c.currentOffset + n
        /\ ctx'.tableType = IF n = 0 THEN c.tableType ELSE "byU32"
    BY <1>0, <1>9, <2>1, AfterOK DEF d
  <2> QED
    BY <1>2, <1>3, <1>5, <1>9, <2>2
<1> QED
  BY <1>6, <1>7, <1>8, <1>9, ContinueCases DEF c, t, c0

LEMMA TablesStep ==
  ASSUME Tables, [StreamNext]_streamVars
  PROVE  Tables'
<1> USE Constants
<1>1. dict' = dict
  <2>1. ASSUME NEW a, NEW n, NEW slow,
               \/ ResetStream \/ ResetStreamFast \/ AttachDictionary \/ DetachDictionary
               \/ LoadDict(a, n, slow) \/ SaveDict(a, n) \/ ExtStateFastReset(a, n)
        PROVE  dict' = dict
    BY <2>1 DEF ResetStream, ResetStreamFast, AttachDictionary, DetachDictionary, LoadDict,
                SaveDict, ExtStateFastReset
  <2>2. ASSUME NEW s, NEW n, Continue(s, n) \/ ForceExtDict(s, n) PROVE dict' = dict
    <3>1. Block(s, n)
      BY <2>2 DEF Continue, ForceExtDict
    <3> QED
      BY <3>1 DEF Block
  <2>3. CASE UNCHANGED streamVars
    BY <2>3 DEF streamVars
  <2> QED
    BY <2>1, <2>2, <2>3 DEF StreamNext
<1> DEFINE Goal == TableOf(ctx, hashTable)' /\ ctx'.currentOffset < 2 * RenormAt
<1> SUFFICES Goal
  BY <1>1 DEF Tables, DictLoaded, TableOf, Below
<1>2. TableOf(ctx, hashTable) /\ ctx \in Context /\ ctx.currentOffset \in Nat
      /\ ctx.currentOffset < 2 * RenormAt /\ EndOf(ctx) \in Int
  BY DEF Tables, TableOf, Context, EndOf
<1>3. CASE UNCHANGED streamVars
  BY <1>2, <1>3 DEF streamVars, TableOf, Below
<1>4. CASE ResetStream
  <2>1. Fresh \in Context /\ Fresh.currentOffset = 0 /\ Below(Empty, 0)
    BY DEF Fresh, Context, Null, Below, Empty
  <2> QED
    BY <1>4, <2>1 DEF ResetStream, TableOf, Below
<1>5. CASE ResetStreamFast
  <2> DEFINE c == Prepared(ctx, 0, "byU32")
             t == IF Clears(ctx, 0, "byU32") THEN Empty ELSE hashTable
  <2>1. ctx' = c /\ hashTable' = t /\ FewIdleResets
    BY <1>5 DEF ResetStreamFast
  <2>2. /\ TableOf(c, t)
        /\ c.currentOffset = 0 \/ c.currentOffset = ctx.currentOffset + KB64
    BY <1>2, PreparedOK
  <2>3. c.currentOffset < 2 * RenormAt
    <3>1. CASE c.currentOffset = 0
      BY <3>1
    <3>2. CASE ctx.currentOffset <= Aged
      BY <1>2, <2>2, <3>2
    <3>3. CASE ctx.currentOffset > Aged /\ c.currentOffset # 0
      <4>1. ctx.tableType # "clearedTable"
        BY <1>2, <2>1, <3>3 DEF FewIdleResets
      <4>2. Clears(ctx, 0, "byU32")
        BY <3>3, <4>1 DEF Clears
      <4> QED
        BY <3>3, <4>2 DEF Prepared
    <3> QED
      BY <1>2, <3>1, <3>2, <3>3
  <2> HIDE DEF c, t
  <2> QED
    BY <2>1, <2>2, <2>3 DEF TableOf, Below
<1>6. CASE AttachDictionary
  <2> DEFINE now == IF ctx.currentOffset = 0 THEN KB64 ELSE ctx.currentOffset
             flag == dict.ctx.dictSize > 0
  <2>1. now \in Nat /\ now >= ctx.currentOffset /\ now < 2 * RenormAt /\ flag \in BOOLEAN
    BY <1>2
  <2>2. ctx' = [ctx EXCEPT !.currentOffset = now, !.attached = flag] /\ hashTable' = hashTable
    BY <1>6 DEF AttachDictionary
  <2> HIDE DEF now, flag
  <2>3. ctx' \in Context /\ ctx'.currentOffset = now /\ ctx'.tableType = ctx.tableType
    BY <1>2, <2>1, <2>2 DEF Context
  <2> QED
    BY <1>2, <2>1, <2>2, <2>3 DEF TableOf, Below
<1>7. ASSUME NEW a \in Starts, NEW n \in DictSizes, NEW slow \in BOOLEAN, LoadDict(a, n, slow)
      PROVE  Goal
  <2> DEFINE c == Loaded(a, n)
             t == LoadedTable(n, slow)
  <2>1. ctx' = c /\ hashTable' = t
    BY <1>7 DEF LoadDict
  <2>2. a \in Int /\ n \in Nat
    OBVIOUS
  <2>3. TableOf(c, t) /\ c.currentOffset = KB64
    BY <2>2, LoadedOK
  <2> HIDE DEF c, t
  <2> QED
    BY <2>1, <2>3 DEF TableOf, Below
<1>8. ASSUME NEW a \in Starts, NEW k \in DictSizes, SaveDict(a, k) PROVE Goal
  <2>1. PICK size : ctx' = After(ctx, a, size) /\ size = Smaller(Smaller(k, KB64), ctx.dictSize)
    BY <1>8 DEF SaveDict, After
  <2>2. size \in Nat
    BY <1>2, <2>1 DEF Smaller, Context
  <2>3. ctx' \in Context /\ ctx'.currentOffset = ctx.currentOffset /\ ctx'.tableType = ctx.tableType
    BY <1>2, <2>1, <2>2, AfterOK
  <2> QED
    BY <1>2, <1>8, <2>3 DEF SaveDict, TableOf, Below
<1>9. ASSUME NEW s \in Starts, NEW n \in BlockSizes, ExtStateFastReset(s, n) PROVE Goal
  <2> DEFINE type == IF n < U16Limit THEN "byU16" ELSE "byU32"
             c == Prepared(ctx, n, type)
             t == IF Clears(ctx, n, type) THEN Empty ELSE hashTable
  <2>1. /\ ctx' = Compressed(c, n, type) /\ FewIdleResets
        /\ hashTable' = IF type = "byU16" THEN StoredU16(t, c.currentOffset, n)
                                      ELSE Stored(t, c.currentOffset, n)
    BY <1>9 DEF ExtStateFastReset
  <2>2. type \in {"byU32", "byU16"} /\ n \in Nat
    OBVIOUS
  <2> HIDE DEF type
  <2>3. /\ TableOf(c, t) /\ c \in Context
        /\ c.tableType = IF Clears(ctx, n, type) THEN "clearedTable" ELSE ctx.tableType
        /\ \/ c.currentOffset = 0
           \/ c.currentOffset = ctx.currentOffset /\ type = "byU16"
           \/ c.currentOffset = ctx.currentOffset + KB64 /\ type = "byU32"
    BY <1>2, <2>2, PreparedOK DEF TableOf
  <2>4. c.currentOffset + n < 2 * RenormAt
    <3>1. CASE c.currentOffset = 0
      BY <3>1
    <3>2. CASE ctx.currentOffset <= Aged
      BY <1>2, <2>2, <2>3, <3>2
    <3>3. CASE ctx.currentOffset > Aged /\ c.currentOffset # 0
      <4>1. ctx.tableType # "clearedTable"
        BY <1>2, <2>1, <3>3 DEF FewIdleResets
      <4>2. type = "byU16" /\ ctx.currentOffset + n < KB64 - 1
        BY <1>2, <2>2, <3>3, <4>1 DEF Clears, Prepared
      <4> QED
        BY <1>2, <2>2, <2>3, <4>2
    <3> QED
      BY <1>2, <3>1, <3>2, <3>3
  <2> HIDE DEF c, t
  <2>5. /\ ctx' \in Context /\ ctx'.currentOffset = c.currentOffset + n
        /\ ctx'.tableType = IF n = 0 THEN c.tableType ELSE type
    <3>1. c \in Context /\ n \in Nat
      BY <2>3
    <3>2. ctx' = Compressed(c, n, type)
      BY <2>1
    <3> DEFINE d == Compressed(c, n, type)
    <3>3. /\ d \in Context /\ d.currentOffset = c.currentOffset + n
          /\ d.tableType = IF n = 0 THEN c.tableType ELSE type
      <4>1. CASE type = "byU32"
        BY <3>1, <4>1, CompressedOK
      <4>2. CASE type = "byU16"
        BY <3>1, <4>2, CompressedOK
      <4> QED
        BY <2>2, <4>1, <4>2
    <3> HIDE DEF d
    <3> QED
      BY <3>2, <3>3 DEF d
  <2>6. n = 0 => hashTable' = t
    BY <2>1, <2>2, <2>3, Constants DEF Stored, StoredU16
  <2>7. CASE type = "byU32"
    <3>1. TableOf(ctx', Stored(t, c.currentOffset, n))
      BY <2>3, <2>5, <2>7, GrownTable
    <3> QED
      BY <2>1, <2>4, <2>5, <2>7, <3>1 DEF TableOf, Below
  <2>8. CASE type = "byU16" /\ n # 0
    <3>1. TableOf(ctx', StoredU16(t, c.currentOffset, n))
      BY <2>3, <2>5, <2>8, GrownTable
    <3> QED
      BY <2>1, <2>4, <2>5, <2>8, <3>1 DEF TableOf, Below
  <2>9. CASE n = 0
    <3>1. c.currentOffset \in Nat
      BY <2>3 DEF Context
    <3>2. ctx'.currentOffset = c.currentOffset /\ ctx'.tableType = c.tableType
      BY <2>5, <2>9, <3>1
    <3> QED
      BY <2>3, <2>4, <2>5, <2>6, <2>9, <3>2 DEF TableOf, Below
  <2> QED
    BY <2>2, <2>7, <2>8, <2>9
<1>10. ASSUME NEW s \in Starts \cup {EndOf(ctx)}, NEW n \in BlockSizes, Continue(s, n) PROVE Goal
  <2>1. s \in Int
    BY <1>2
  <2> QED
    BY <1>10, <2>1, ContinueTables
<1>11. ASSUME NEW s \in Starts \cup {EndOf(ctx)}, NEW n \in BlockSizes, ForceExtDict(s, n)
       PROVE  Goal
  <2> DEFINE c == Renormed(ctx, n)
             t == RenormedTable(ctx, n)
             d == Compressed(c, n, "byU32")
  <2>1. ctx' = After(d, s, n) /\ hashTable' = Stored(t, c.currentOffset, n)
    BY <1>11 DEF ForceExtDict, After
  <2>2. TableOf(c, t) /\ c \in Context /\ c.currentOffset + n < 2 * RenormAt
    BY <1>2, RenormedOK DEF TableOf
  <2>3. s \in Int /\ n \in Nat
    BY <1>2
  <2> HIDE DEF c, t
  <2>4. /\ d \in Context /\ d.currentOffset = c.currentOffset + n
        /\ d.tableType = IF n = 0 THEN c.tableType ELSE "byU32"
    BY <2>2, <2>3, CompressedOK
  <2> HIDE DEF d
  <2>5. /\ ctx' \in Context /\ ctx'.currentOffset = c.currentOffset + n
        /\ ctx'.tableType = IF n = 0 THEN c.tableType ELSE "byU32"
    BY <2>1, <2>3, <2>4, AfterOK
  <2>6. TableOf(ctx', Stored(t, c.currentOffset, n))
    BY <2>2, <2>5, GrownTable
  <2> QED
    BY <2>1, <2>2, <2>5, <2>6 DEF TableOf, Below
<1>12. CASE DetachDictionary
  <2>1. ctx' = [ctx EXCEPT !.attached = FALSE] /\ hashTable' = hashTable
    BY <1>12 DEF DetachDictionary
  <2>2. /\ ctx' \in Context /\ ctx'.currentOffset = ctx.currentOffset
        /\ ctx'.tableType = ctx.tableType
    BY <1>2, <2>1 DEF Context
  <2> QED
    BY <1>2, <2>1, <2>2 DEF TableOf, Below
<1> QED
  BY <1>3, <1>4, <1>5, <1>6, <1>7, <1>8, <1>9, <1>10, <1>11, <1>12 DEF StreamNext

LEMMA TablesInit ==
  ASSUME StreamInit
  PROVE  Tables
<1> USE Constants
<1>1. TableOf(Fresh, Empty) /\ Fresh.currentOffset = 0
  BY DEF Fresh, Context, Null, TableOf, Below, Empty
<1>2. PICK n \in DictSizes, slow \in BOOLEAN :
         dict = [ctx |-> Loaded(Memory, n), hashTable |-> LoadedTable(n, slow)]
  BY DEF StreamInit
<1>3. dict.ctx = Loaded(Memory, n) /\ dict.hashTable = LoadedTable(n, slow)
  BY <1>2
<1>4. DictLoaded
  <2> DEFINE c == Loaded(Memory, n)
             t == LoadedTable(n, slow)
  <2>1. Memory \in Int /\ n \in Nat
    OBVIOUS
  <2>2. /\ TableOf(c, t)
        /\ c.currentOffset = KB64 /\ c.attached = FALSE
        /\ c.dictSize <= KB64 /\ c.dictSize <= n
        /\ c.dictSize > 0 => c.dictionary = Memory + n - c.dictSize
        /\ \A i \in t : i = 0 \/ i >= KB64 - c.dictSize
    BY <2>1, LoadedOK
  <2> HIDE DEF c, t
  <2>3. c.dictSize \in Nat
    BY <2>2 DEF TableOf, Context
  <2>4. c.dictSize > 0 => c.dictionary >= Memory
    BY <2>1, <2>2, <2>3
  <2> QED
    BY <1>3, <2>2, <2>4 DEF DictLoaded, c, t
<1> QED
  BY <1>1, <1>4 DEF StreamInit, Tables

\* A table that counts as clear is, and every index in it lies behind the offset of the next
\* block, which the matchIndex < current of LZ4_compress_generic rests on.
THEOREM TableStaysBehind ==
  StreamSpec => []TableBehind
<1>1. StreamInit => Tables
  BY TablesInit
<1>2. Tables /\ [StreamNext]_streamVars => Tables'
  BY TablesStep
<1>3. Tables => TableBehind
  BY Constants DEF Tables, TableOf, Below, TableBehind, Context
<1> QED
  BY <1>1, <1>2, <1>3, PTL DEF StreamSpec

\* The 32 bits of currentOffset do not wrap: LZ4_renormDictT and LZ4_prepareTable bring it
\* back in time, whatever is compressed.
THEOREM OffsetStaysInRange ==
  StreamSpec => [](ctx.currentOffset < 2 * RenormAt)
<1>1. StreamInit => Tables
  BY TablesInit
<1>2. Tables /\ [StreamNext]_streamVars => Tables'
  BY TablesStep
<1>3. Tables => ctx.currentOffset < 2 * RenormAt
  BY DEF Tables
<1> QED
  BY <1>1, <1>2, <1>3, PTL DEF StreamSpec

-----------------------------------------------------------------------------
(* What the stream calls its history is the decoder's.                     *)

TextOK == text \in Nat /\ DOMAIN mem = 0 .. Memory - 1

\* The dictionary of a context: never longer than what the offset counts; and while another
\* stream is attached there is none of its own.
Sizes ==
  /\ ctx.dictSize <= ctx.currentOffset
  /\ ctx.dictionary >= Null
  /\ ctx.attached => ctx.dictSize = 0
  /\ TextOK

\* The bytes before the end of the dictionary are in memory, and the last of the decoder's
\* text.
HistoryOK ==
  /\ ctx.dictSize > 0 => Region(ctx.dictionary, ctx.dictSize) \subseteq DOMAIN mem
  /\ SameHistory(mem, EndOf(ctx), ctx.dictSize)

\* A stream that has failed or gone astray can no longer be relied on, but its table can, and
\* that is all that the next reset, load or block by itself needs.
Histories ==
  Tables /\ TextOK /\ ~misled /\ (~astray /\ ~broken => Sizes /\ HistoryOK)

LEMMA RegionInside ==
  ASSUME DOMAIN mem = 0 .. Memory - 1, NEW s \in Int, NEW n \in Nat, n > 0,
         Region(s, n) \subseteq DOMAIN mem
  PROVE  s \in Nat /\ s + n <= Memory
<1>1. s \in Region(s, n) /\ s + n - 1 \in Region(s, n)
  BY DEF Region
<1> QED
  BY <1>1, Constants

\* A history is kept by a block written beside it.
LEMMA HistoryKept ==
  ASSUME NEW s \in Int, NEW n \in Nat, NEW end \in Int, NEW size \in Nat, NEW less \in Nat,
         less <= size, SameHistory(mem, end, size),
         \A k \in 1 .. less : end - k \notin Region(s, n)
  PROVE  SameHistory(Written(s, n), end, less)
<1>1. DOMAIN Written(s, n) = DOMAIN mem
  BY DEF Written, Placed
<1> SUFFICES ASSUME NEW k \in 1 .. Smaller(less, Farthest), end - k \in DOMAIN mem
             PROVE  Written(s, n)[end - k] = text - k
  BY <1>1 DEF SameHistory
<1>2. k \in 1 .. Smaller(size, Farthest) /\ k \in 1 .. less
  BY Constants DEF Smaller, Farthest
<1>3. mem[end - k] = text - k
  BY <1>2 DEF SameHistory
<1>4. Written(s, n)[end - k] = mem[end - k]
  BY <1>2 DEF Written, Placed
<1> QED
  BY <1>3, <1>4

\* No history at all is anybody's.
LEMMA NoHistorySame ==
  ASSUME NEW m, NEW end
  PROVE  SameHistory(m, end, 0)
<1>1. 1 .. Smaller(0, Farthest) = {}
  BY Constants DEF Smaller, Farthest
<1> QED
  BY <1>1 DEF SameHistory

\* The three ways in which a call makes its history ready.
LEMMA ReadyShape ==
  ASSUME NEW c0 \in Context, c0.dictionary >= Null, NEW s \in Int, NEW n \in Nat,
         NEW c, c = Ready(c0, s, n), NEW end, end = EndWithoutTiny(c0, s, n), s + n >= Null
  PROVE  \/ /\ Tiny(c0, s, n) /\ end = s
            /\ c.dictSize = 0 /\ c.dictionary = s
         \/ /\ s + n > c0.dictionary /\ s + n < end /\ end = EndOf(c0) /\ c0.dictSize > 0
            /\ EndOf(c) = end /\ c.dictionary >= s + n
            /\ c.dictSize \in Nat /\ (c.dictSize = 0 \/ c.dictSize >= MatchBytes)
         \/ /\ ~Tiny(c0, s, n) /\ c = c0 /\ end = DictEnd(c0)
            /\ ~(s + n > c0.dictionary /\ s + n < end)
<1> USE Constants
<1>1. c0.dictSize \in Nat /\ c0.dictionary \in Int
  BY DEF Context
<1> DEFINE w == WithoutTiny(c0, s, n)
<1>2. c = Trimmed(w, end, s, n)
  BY DEF Ready
<1>3. CASE Tiny(c0, s, n)
  <2>1. end = s /\ w = [c0 EXCEPT !.dictSize = 0, !.dictionary = s]
    BY <1>3 DEF EndWithoutTiny, WithoutTiny
  <2>2. ~(s + n < end)
    BY <2>1
  <2>3. c = w
    BY <1>2, <2>2 DEF Trimmed
  <2> HIDE DEF w
  <2>4. c.dictSize = 0 /\ c.dictionary = s
    BY <2>1, <2>3 DEF Context
  <2> QED
    BY <1>3, <2>1, <2>4
<1>4. CASE ~Tiny(c0, s, n)
  <2>1. w = c0 /\ end = DictEnd(c0)
    BY <1>4 DEF EndWithoutTiny, WithoutTiny
  <2> HIDE DEF w
  <2>2. CASE ~(s + n > c0.dictionary /\ s + n < end)
    <3>1. c = c0
      BY <1>2, <2>1, <2>2 DEF Trimmed
    <3> QED
      BY <1>4, <2>1, <2>2, <3>1
  <2>3. CASE s + n > c0.dictionary /\ s + n < end
    <3>1. c0.dictSize > 0 /\ end = EndOf(c0)
      BY <1>1, <2>1, <2>3 DEF DictEnd, Null
    <3>2. end \in Int
      BY <1>1, <3>1 DEF EndOf
    <3> DEFINE left == Smaller(end - (s + n), KB64)
               size == IF left < MatchBytes THEN 0 ELSE left
               begin == end - size
    <3>3. c = [c0 EXCEPT !.dictSize = size, !.dictionary = begin]
      BY <1>2, <2>1, <2>3 DEF Trimmed
    <3>4. size \in Nat /\ size <= end - (s + n) /\ (size = 0 \/ size >= MatchBytes)
      BY <2>3, <3>2 DEF Smaller
    <3> HIDE DEF size
    <3>5. begin \in Int /\ begin + size = end /\ begin >= s + n
      BY <3>2, <3>4
    <3> HIDE DEF begin
    <3>6. c.dictSize = size /\ c.dictionary = begin
      BY <3>3 DEF Context
    <3>7. EndOf(c) = end
      BY <3>5, <3>6 DEF EndOf
    <3> QED
      BY <2>3, <3>1, <3>4, <3>5, <3>6, <3>7
  <2> QED
    BY <2>2, <2>3
<1> QED
  BY <1>3, <1>4

\* What a call of LZ4_compress_fast_continue is left with of the history: the block has
\* overwritten none of it, and it is not tiny unless the block goes on from it.
LEMMA ReadyHistory ==
  ASSUME TableOf(ctx, hashTable), Sizes, HistoryOK,
         NEW s \in Int, NEW n \in BlockSizes, s + n >= Null, ~Strays(s, n),
         Placeable(ctx, s, n), NEW c0, c0 = Renormed(ctx, n), NEW c, c = Ready(c0, s, n),
         NEW end, end = EndWithoutTiny(c0, s, n)
  PROVE  /\ SameHistory(Written(s, n), EndOf(c), c.dictSize)
         /\ c.dictSize > 0 => Region(c.dictionary, c.dictSize) \subseteq DOMAIN mem
         /\ c.dictionary >= Null
         /\ c.dictSize <= c.currentOffset
         /\ ctx.attached => c.dictSize = 0
         /\ n > 0 /\ end # s => (c.dictSize = 0 \/ c.dictSize >= MatchBytes)
         /\ n > 0 /\ end = s => EndOf(c) = s /\ ~c.attached
         /\ n = 0 /\ end = s => (EndOf(c) = s \/ c.dictSize = 0)
<1> USE Constants
<1>1. /\ ctx \in Context /\ ctx.dictSize \in Nat /\ ctx.dictionary \in Int /\ n \in Nat
      /\ ctx.currentOffset \in Nat /\ ctx.dictSize <= ctx.currentOffset /\ ctx.dictionary >= Null
  BY DEF TableOf, Context, Sizes, TextOK
<1>2. DOMAIN mem = 0 .. Memory - 1
  BY DEF Sizes, TextOK
<1>3. ctx.attached => ctx.dictSize = 0
  BY DEF Sizes, TextOK
<1>4. SameHistory(mem, EndOf(ctx), ctx.dictSize)
  BY DEF HistoryOK
<1>5. ctx.dictSize > 0 => Region(ctx.dictionary, ctx.dictSize) \subseteq DOMAIN mem
  BY DEF HistoryOK
<1>6. /\ c0 \in Context /\ EndOf(c0) = EndOf(ctx) /\ c0.dictSize <= c0.currentOffset
      /\ c0.dictSize = ctx.dictSize \/ (c0.dictSize = KB64 /\ KB64 < ctx.dictSize)
  <2>1. ctx.dictSize <= ctx.currentOffset
          => Renormed(ctx, n).dictSize <= Renormed(ctx, n).currentOffset
    BY RenormedOK
  <2>2. EndOf(Renormed(ctx, n)) = EndOf(ctx) /\ Renormed(ctx, n) \in Context
    BY RenormedOK DEF TableOf
  <2>3. Renormed(ctx, n).dictSize = ctx.dictSize
        \/ (Renormed(ctx, n).dictSize = KB64 /\ KB64 < ctx.dictSize)
    BY RenormedOK
  <2> QED
    BY <1>1, <2>1, <2>2, <2>3
<1>7. c0.attached = ctx.attached
  BY <1>1, RenormedOK
<1>8. c0.dictSize \in Nat /\ c0.dictionary \in Int /\ c0.currentOffset \in Nat
  BY <1>6 DEF Context
<1> DEFINE old == EndOf(ctx)
<1>9. old \in Int /\ old = ctx.dictionary + ctx.dictSize /\ old = c0.dictionary + c0.dictSize
  BY <1>1, <1>6, <1>8 DEF EndOf
<1> HIDE DEF old
<1>10. c0.dictionary >= ctx.dictionary /\ c0.dictSize <= ctx.dictSize /\ c0.dictionary >= Null
  BY <1>1, <1>6, <1>8, <1>9 DEF Null
<1>11. c.currentOffset = c0.currentOffset /\ c.attached = c0.attached
       /\ c.dictSize <= c0.dictSize /\ c \in Context
  BY <1>1, <1>6, <1>10, ReadyOK
<1>12. c.dictSize \in Nat /\ c.dictionary \in Int
  BY <1>11 DEF Context
<1>13. c.dictSize <= c.currentOffset /\ (ctx.attached => c.dictSize = 0)
  <2>1. c.dictSize <= c.currentOffset
    BY <1>6, <1>8, <1>11, <1>12
  <2>2. ctx.dictSize = 0 => c.dictSize = 0
    BY <1>1, <1>8, <1>10, <1>11, <1>12
  <2> QED
    BY <1>3, <2>1, <2>2
<1>14. n > 0 => s \in Nat
  BY <1>1, <1>2, RegionInside DEF Placeable
<1>15. SameHistory(mem, old, ctx.dictSize)
  BY <1>4 DEF old
<1>16. \A k \in 1 .. ctx.dictSize : old - k \in Region(ctx.dictionary, ctx.dictSize)
  BY <1>1, <1>9 DEF Region
\* A block that lies over the history ends before the history does.
<1>17. \A k \in 1 .. ctx.dictSize : old - k \in Region(s, n) => s + n < old
  <2>1. EndOf(ctx) \in Int
    BY <1>1 DEF EndOf
  <2>2. Overlaps(ctx, s, n) => s + n < EndOf(ctx)
    BY <1>1, <2>1 DEF Strays
  <2> QED
    BY <1>16, <2>2 DEF Overlaps, old
\* Enough of a history: it ends where the old one did, and the block is not in it.
<1>18. ASSUME EndOf(c) = old, \A k \in 1 .. c.dictSize : old - k \notin Region(s, n)
       PROVE  SameHistory(Written(s, n), EndOf(c), c.dictSize)
  <2>1. c.dictSize <= ctx.dictSize
    BY <1>1, <1>8, <1>10, <1>11, <1>12
  <2> QED
    BY <1>1, <1>9, <1>12, <1>15, <1>18, <2>1, HistoryKept
<1>19. ASSUME EndOf(c) = old, c.dictSize > 0
       PROVE  Region(c.dictionary, c.dictSize) \subseteq DOMAIN mem
  <2>1. c.dictionary + c.dictSize = old
    BY <1>19 DEF EndOf
  <2>2. c.dictSize <= ctx.dictSize
    BY <1>1, <1>8, <1>10, <1>11, <1>12
  <2>3. Region(c.dictionary, c.dictSize) \subseteq Region(ctx.dictionary, ctx.dictSize)
    BY <1>1, <1>9, <1>12, <2>1, <2>2 DEF Region
  <2> QED
    BY <1>1, <1>5, <1>12, <1>19, <2>2, <2>3
<1>20. CASE Tiny(c0, s, n) /\ end = s /\ c.dictSize = 0 /\ c.dictionary = s
  <2>1. n > 0 /\ ~c0.attached
    BY <1>20 DEF Tiny
  <2>2. EndOf(c) = s
    BY <1>20 DEF EndOf
  <2>3. SameHistory(Written(s, n), EndOf(c), c.dictSize)
    BY <1>20, NoHistorySame
  <2>4. c.dictionary >= Null
    BY <1>14, <1>20, <2>1 DEF Null
  <2> QED
    BY <1>11, <1>13, <1>20, <2>1, <2>2, <2>3, <2>4
<1>21. CASE /\ s + n > c0.dictionary /\ s + n < end /\ end = EndOf(c0) /\ c0.dictSize > 0
            /\ EndOf(c) = end /\ c.dictionary >= s + n
            /\ c.dictSize \in Nat /\ (c.dictSize = 0 \/ c.dictSize >= MatchBytes)
  <2>1. EndOf(c) = old
    BY <1>6, <1>21 DEF old
  <2>2. c.dictionary + c.dictSize = old
    BY <2>1 DEF EndOf
  <2>3. \A k \in 1 .. c.dictSize : old - k \notin Region(s, n)
    BY <1>1, <1>9, <1>12, <1>21, <2>2 DEF Region
  <2>4. c.dictionary >= Null
    BY <1>1, <1>12, <1>21 DEF Null
  <2>5. end # s
    BY <1>1, <1>9, <1>21, <2>1
  <2> QED
    BY <1>13, <1>18, <1>19, <1>21, <2>1, <2>3, <2>4, <2>5
<1>22. CASE /\ ~Tiny(c0, s, n) /\ c = c0 /\ end = DictEnd(c0)
            /\ ~(s + n > c0.dictionary /\ s + n < end)
  <2>1. EndOf(c) = old
    BY <1>6, <1>22 DEF old
  <2>2. c.dictSize > 0 => end = old
    BY <1>22, <2>1 DEF DictEnd
  <2>3. c.dictSize = 0 => end = Null
    BY <1>12, <1>22 DEF DictEnd
  <2>4. \A k \in 1 .. c.dictSize : old - k \notin Region(s, n)
    <3> SUFFICES ASSUME NEW k \in 1 .. c.dictSize, old - k \in Region(s, n) PROVE FALSE
      OBVIOUS
    <3>1. end = old
      BY <1>12, <2>2
    <3>2. s + n < old
      BY <1>1, <1>8, <1>10, <1>12, <1>17, <1>22
    <3>3. old - k >= c0.dictionary
      BY <1>8, <1>9, <1>12, <1>22
    <3>4. s + n > old - k
      BY <1>1, <1>9 DEF Region
    <3> QED
      BY <1>1, <1>8, <1>9, <1>12, <1>22, <3>1, <3>2, <3>3, <3>4
  <2>5. n > 0 /\ end # s => (c.dictSize = 0 \/ c.dictSize >= MatchBytes)
    <3>1. ctx.attached => c.dictSize = 0
      BY <1>13
    <3>2. ~c0.attached /\ n > 0 /\ end # s => ~(c0.dictSize < MatchBytes)
      BY <1>22 DEF Tiny
    <3> QED
      BY <1>7, <1>8, <1>22, <3>1, <3>2
  <2>6. n > 0 /\ end = s => EndOf(c) = s
    BY <1>12, <1>14, <2>1, <2>2, <2>3 DEF Null
  <2>7. n > 0 /\ end = s => ~c.attached
    <3>1. n > 0 /\ end = s => c.dictSize # 0
      BY <1>12, <1>14, <2>3 DEF Null
    <3> QED
      BY <1>7, <1>11, <1>13, <3>1
  <2>8. n = 0 /\ end = s => (EndOf(c) = s \/ c.dictSize = 0)
    BY <1>12, <2>1, <2>2
  <2> QED
    BY <1>10, <1>13, <1>18, <1>19, <1>22, <2>1, <2>4, <2>5, <2>6, <2>7, <2>8
<1> QED
  BY <1>1, <1>6, <1>10, <1>20, <1>21, <1>22, ReadyShape
\* A block continues the history it follows on from, or begins one by itself.
LEMMA BlockHistory ==
  ASSUME TextOK, NEW s \in Int, NEW n \in Nat, Block(s, n), ~Strays(s, n), ~broken',
         Region(s, n) \subseteq DOMAIN mem,
         NEW begin \in Int, NEW size \in Nat, begin + size = s,
         SameHistory(Written(s, n), s, size),
         size > 0 => Region(begin, size) \subseteq DOMAIN mem,
         ctx'.dictionary = begin, ctx'.dictSize = size + n
  PROVE  HistoryOK'
<1> USE Constants
<1>1. DOMAIN mem = 0 .. Memory - 1 /\ text \in Nat
  BY DEF TextOK
<1>2. DOMAIN Written(s, n) = DOMAIN mem
  BY DEF Written, Placed
<1>3. text' = text + n /\ mem' = Written(s, n) /\ text' \in Nat
  BY <1>1 DEF Block, NoHistory
<1>4. HistoryOK'
  <2>1. text' = text + n /\ mem' = Written(s, n)
    BY <1>3
  <2>2. EndOf(ctx') = s + n
    BY DEF EndOf
  <2>3. Region(ctx'.dictionary, ctx'.dictSize) \subseteq DOMAIN mem
    <3> SUFFICES ASSUME NEW b \in begin .. begin + (size + n) - 1 PROVE b \in DOMAIN mem
      BY DEF Region
    <3>1. CASE b < s
      BY <3>1 DEF Region
    <3>2. CASE b >= s
      BY <3>2 DEF Region
    <3> QED
      BY <3>1, <3>2
  <2>4. ASSUME NEW k \in 1 .. Smaller(size + n, Farthest), s + n - k \in DOMAIN mem
        PROVE  Written(s, n)[s + n - k] = text + n - k
    <3>1. k \in Nat /\ k <= size + n /\ k <= Farthest /\ k >= 1
      BY DEF Smaller, Farthest
    <3>2. CASE k <= n
      <4>1. s + n - k \in Region(s, n) /\ s + n - k - s = n - k
        BY <3>1, <3>2 DEF Region
      <4>2. Written(s, n)[s + n - k] = text + (s + n - k - s)
        BY <2>4, <4>1 DEF Written, Placed
      <4> QED
        BY <1>1, <3>1, <4>1, <4>2
    <3>3. CASE k > n
      <4> DEFINE j == k - n
      <4>1. j \in 1 .. Smaller(size, Farthest) /\ s - j = s + n - k
        BY <3>1, <3>3 DEF Smaller, Farthest
      <4>2. Written(s, n)[s - j] = text - j
        BY <1>2, <2>4, <4>1 DEF SameHistory
      <4> QED
        BY <1>1, <3>1, <4>1, <4>2
    <3> QED
      BY <3>1, <3>2, <3>3
  <2>5. \A k \in 1 .. Smaller(ctx'.dictSize, Farthest) :
          EndOf(ctx') - k \in DOMAIN mem' => mem'[EndOf(ctx') - k] = text' - k
    <3> SUFFICES ASSUME NEW k \in 1 .. Smaller(ctx'.dictSize, Farthest),
                        EndOf(ctx') - k \in DOMAIN mem'
                 PROVE  mem'[EndOf(ctx') - k] = text' - k
      OBVIOUS
    <3>1. k \in 1 .. Smaller(size + n, Farthest) /\ s + n - k \in DOMAIN mem
      BY <1>2, <2>1, <2>2
    <3>2. Written(s, n)[s + n - k] = text + n - k
      BY <2>4, <3>1
    <3>3. text' - k = text + n - k
      BY <1>1, <1>3, <2>1, <3>1
    <3>4. EndOf(ctx') - k = s + n - k
      BY <2>2
    <3>5. mem'[EndOf(ctx') - k] = Written(s, n)[s + n - k]
      BY <2>1, <3>4
    <3> QED
      BY <3>2, <3>3, <3>5
  <2> QED
    BY <1>2, <2>1, <2>3, <2>5 DEF HistoryOK, SameHistory, EndOf
<1> QED
  BY <1>4

\* What a stream finds within reach in its own table is part of its history.
LEMMA OwnEntries ==
  ASSUME NEW c, NEW t, TableOf(c, t), c.dictSize <= c.currentOffset,
         NEW i \in t, NEW prefix \in BOOLEAN,
         prefix \/ c.dictSize = 0 \/ c.dictSize >= MatchBytes,
         Compared(i, c.currentOffset, c.dictSize, DictSmall(c))
  PROVE  Leads(i, c.currentOffset, c.dictSize, prefix)
<1> USE Constants
<1> DEFINE start == c.currentOffset
           size == c.dictSize
<1>1. start \in Nat /\ size \in Nat /\ i \in Nat /\ size <= start
  BY DEF TableOf, Context, Below
<1>2. i = 0 \/ i + MatchBytes <= start
  BY DEF TableOf, Below
<1>3. i < start /\ i + (KB64 - 1) >= start + 1
  BY DEF Compared, Farthest
<1>4. size < KB64 /\ size < start => i >= start - size
  BY DEF Compared, DictSmall
<1> HIDE DEF start, size
<1>5. i >= start - size
  BY <1>1, <1>3, <1>4
<1>6. CASE prefix
  <2>1. i \in start - size .. start - 1
    BY <1>1, <1>3, <1>5
  <2> QED
    BY <1>6, <2>1 DEF Leads, start, size
<1>7. CASE ~prefix
  <2>1. size = 0 \/ size >= MatchBytes
    BY <1>7 DEF size
  <2>2. i + MatchBytes <= start
    BY <1>1, <1>2, <1>3, <1>5, <2>1
  <2>3. i \in start - size .. start - MatchBytes
    BY <1>1, <1>5, <2>2
  <2> QED
    BY <1>7, <2>3 DEF Leads, start, size
<1> QED
  BY <1>6, <1>7

LEMMA OwnNotMisled ==
  ASSUME ~misled, NEW c, NEW t, TableOf(c, t), c.dictSize <= c.currentOffset,
         NEW s, NEW n, NEW end,
         n > MatchRoom => /\ SameHistory(Written(s, n), end, c.dictSize)
                          /\ end = s \/ c.dictSize = 0 \/ c.dictSize >= MatchBytes,
         Misled(c, t, s, n, end, DictSmall(c))
  PROVE  ~misled'
<1>1. ASSUME n > MatchRoom, NEW i \in t,
             Compared(i, c.currentOffset, c.dictSize, DictSmall(c))
      PROVE  Leads(i, c.currentOffset, c.dictSize, end = s)
  BY <1>1, OwnEntries
<1> QED
  BY <1>1 DEF Misled

\* So is what a stream finds in the table of the one attached, which nothing overwrites.
LEMMA DictEntries ==
  ASSUME DictLoaded, NEW offset \in Nat, NEW i \in dict.hashTable, NEW j \in Int,
         j = i + (offset - KB64), NEW prefix \in BOOLEAN,
         Compared(j, offset, dict.ctx.dictSize, FALSE)
  PROVE  Leads(j, offset, dict.ctx.dictSize, prefix)
<1> USE Constants
<1> DEFINE size == dict.ctx.dictSize
<1>1. size \in Nat /\ i \in Nat /\ (i = 0 \/ i + MatchBytes <= KB64)
      /\ (i = 0 \/ i >= KB64 - size)
  BY DEF DictLoaded, TableOf, Context, Below
<1>2. j + (KB64 - 1) >= offset + 1
  BY DEF Compared, Farthest
<1> HIDE DEF size
<1>3. i # 0
  BY <1>1, <1>2
<1>4. j \in offset - size .. offset - MatchBytes /\ j \in offset - size .. offset - 1
  BY <1>1, <1>3
<1> QED
  BY <1>4 DEF Leads, size

LEMMA DictNotMisled ==
  ASSUME ~misled, DictLoaded, DOMAIN mem = 0 .. Memory - 1, NEW x, NEW t,
         x.currentOffset \in Nat, x.dictSize = dict.ctx.dictSize,
         \A j \in t : j \in Int /\ \E i \in dict.hashTable : j = i + (x.currentOffset - KB64),
         NEW s, NEW n, Misled(x, t, s, n, EndOf(dict.ctx), FALSE)
  PROVE  ~misled'
<1> USE Constants
<1>1. SameHistory(Written(s, n), EndOf(dict.ctx), x.dictSize)
  <2>1. dict.ctx.dictSize \in Nat /\ dict.ctx.dictionary \in Int
    BY DEF DictLoaded, TableOf, Context
  <2>2. DOMAIN Written(s, n) = 0 .. Memory - 1
    BY DEF Written, Placed
  <2>3. \A k \in 1 .. Smaller(dict.ctx.dictSize, Farthest) :
          k \in Nat /\ k <= dict.ctx.dictSize /\ dict.ctx.dictSize > 0
    BY <2>1 DEF Smaller, Farthest
  <2>4. \A k \in 1 .. Smaller(dict.ctx.dictSize, Farthest) : EndOf(dict.ctx) - k >= Memory
    BY <2>1, <2>3 DEF DictLoaded, EndOf
  <2> QED
    BY <2>1, <2>2, <2>4 DEF SameHistory, EndOf
<1>2. ASSUME NEW j \in t, Compared(j, x.currentOffset, x.dictSize, FALSE)
      PROVE  Leads(j, x.currentOffset, x.dictSize, EndOf(dict.ctx) = s)
  BY <1>2, DictEntries
<1> QED
  BY <1>1, <1>2 DEF Misled
\* A stream with no dictionary has no history to go wrong.
LEMMA EmptyHistory ==
  ASSUME ctx'.dictSize = 0
  PROVE  HistoryOK'
<1>1. 1 .. Smaller(ctx'.dictSize, Farthest) = {}
  BY Constants DEF Smaller, Farthest
<1> QED
  BY <1>1 DEF HistoryOK, SameHistory

LEMMA BlockText ==
  ASSUME TextOK, NEW s \in Int, NEW n \in Nat, Block(s, n)
  PROVE  TextOK'
<1>1. DOMAIN mem = 0 .. Memory - 1 /\ text \in Nat
  BY DEF TextOK
<1>2. DOMAIN Written(s, n) = DOMAIN mem /\ DOMAIN Forgotten = DOMAIN mem
  BY DEF Written, Placed, Forgotten
<1> QED
  BY <1>1, <1>2 DEF Block, NoHistory, NoText, TextOK

\* A block of a stream that has gone astray leaves it so, or fails.
LEMMA StrayBlock ==
  ASSUME NEW s, NEW n, Strays(s, n), Block(s, n)
  PROVE  astray' \/ broken'
BY DEF Block, NoHistory

LEMMA StrayNotMisled ==
  ASSUME ~misled, NEW s, NEW n, Strays(s, n),
         NEW c, NEW t, NEW end, NEW small, Misled(c, t, s, n, end, small)
  PROVE  ~misled'
BY DEF Misled

\* A block compressed with a history that is not its prefix is all the history that remains.
LEMMA OnlyBlock ==
  ASSUME TextOK, NEW s \in Int, s >= Null, NEW n \in Nat, Block(s, n), ~Strays(s, n),
         Region(s, n) \subseteq DOMAIN mem,
         ctx'.dictionary = s, ctx'.dictSize = n, ctx'.currentOffset \in Nat, ctx'.currentOffset >= n,
         ctx'.attached => n = 0
  PROVE  Sizes' /\ (~broken' => HistoryOK')
<1>1. SameHistory(Written(s, n), s, 0)
  BY NoHistorySame
<1>2. ASSUME ~broken' PROVE HistoryOK'
  <2>1. s + 0 = s /\ 0 + n = n /\ 0 \in Nat
    OBVIOUS
  <2> QED
    BY <1>1, <1>2, <2>1, BlockHistory
<1>3. TextOK'
  BY BlockText
<1>4. ctx'.dictSize <= ctx'.currentOffset /\ ctx'.dictionary >= Null
  OBVIOUS
<1>5. ctx'.attached => ctx'.dictSize = 0
  OBVIOUS
<1> QED
  BY <1>2, <1>4, <1>5, <1>3 DEF Sizes

\* LZ4_compress_fast_continue: whichever history it takes.
LEMMA ContinueHistories ==
  ASSUME Histories, NEW s \in Int, s >= Null,
         NEW n \in BlockSizes, ~Strays(s, n), Continue(s, n)
  PROVE  Sizes' /\ (~broken' => HistoryOK') /\ ~misled'
<1> USE Constants
<1> DEFINE c0 == Renormed(ctx, n)
           t == RenormedTable(ctx, n)
           c == Ready(c0, s, n)
           end == EndWithoutTiny(c0, s, n)
           x == [dict.ctx EXCEPT !.currentOffset = c.currentOffset]
           u == {i + (c.currentOffset - dict.ctx.currentOffset) : i \in dict.hashTable}
<1>1. Block(s, n) /\ Placeable(ctx, s, n) /\ ~broken
  BY DEF Continue
<1>2. Tables /\ Sizes /\ HistoryOK /\ ~misled /\ TableOf(ctx, hashTable) /\ DictLoaded
      /\ TextOK
  BY <1>1 DEF Histories, Tables, Strays
<1>3. n \in Nat /\ s + n >= Null
  BY DEF Null
<1>4. Region(s, n) \subseteq DOMAIN mem
  BY <1>1 DEF Placeable
<1>5. \/ /\ end = s
         /\ ctx' = Compressed(c, n, "byU32")
         /\ Misled(c, t, s, n, end, DictSmall(c))
      \/ /\ end # s /\ ~c.attached
         /\ ctx' = After(Compressed(c, n, "byU32"), s, n)
         /\ Misled(c, t, s, n, EndOf(c), DictSmall(c))
      \/ /\ end # s /\ c.attached /\ n > Large
         /\ ctx' = After(Compressed(dict.ctx, n, "byU32"), s, n)
         /\ Misled(dict.ctx, dict.hashTable, s, n, EndOf(dict.ctx), FALSE)
      \/ /\ end # s /\ c.attached /\ n <= Large
         /\ ctx' = After(CompressedDictCtx(c, n), s, n)
         /\ Misled(x, u, s, n, EndOf(dict.ctx), FALSE)
  BY ContinueCases
<1>6. c0 = Renormed(ctx, n) /\ c = Ready(c0, s, n) /\ end = EndWithoutTiny(c0, s, n)
  OBVIOUS
<1>7. TableOf(c0, t) /\ c0 \in Context
  BY <1>2, RenormedOK DEF TableOf
<1> HIDE DEF c0, c, end, t
<1>8. /\ c \in Context /\ c.currentOffset = c0.currentOffset /\ c.tableType = c0.tableType
      /\ c.attached = c0.attached
  BY <1>3, <1>6, <1>7, ReadyOK
<1>9. /\ SameHistory(Written(s, n), EndOf(c), c.dictSize)
      /\ c.dictSize > 0 => Region(c.dictionary, c.dictSize) \subseteq DOMAIN mem
      /\ c.dictionary >= Null
      /\ c.dictSize <= c.currentOffset
      /\ ctx.attached => c.dictSize = 0
      /\ n > 0 /\ end # s => (c.dictSize = 0 \/ c.dictSize >= MatchBytes)
      /\ n > 0 /\ end = s => EndOf(c) = s /\ ~c.attached
      /\ n = 0 /\ end = s => (EndOf(c) = s \/ c.dictSize = 0)
  BY <1>1, <1>2, <1>3, <1>6, ReadyHistory
<1>10. c.attached = ctx.attached
  BY <1>2, <1>6, <1>8, RenormedOK
<1>11. TableOf(c, t)
  BY <1>7, <1>8 DEF TableOf
<1>12. c.dictSize \in Nat /\ c.dictionary \in Int /\ c.currentOffset \in Nat /\ c.attached \in BOOLEAN
  BY <1>8 DEF Context
<1> DEFINE d == Compressed(c, n, "byU32")
<1>13. /\ d \in Context /\ d.currentOffset = c.currentOffset + n
       /\ d.dictSize = c.dictSize + n
       /\ d.dictionary = c.dictionary /\ d.attached = c.attached
  BY <1>3, <1>8, CompressedOK
<1>14. CASE end = s /\ ctx' = d /\ Misled(c, t, s, n, end, DictSmall(c))
  <2> HIDE DEF d
  <2>1. ~misled'
    <3>1. n > MatchRoom => n > 0
      BY <1>3
    <3>2. n > MatchRoom => SameHistory(Written(s, n), end, c.dictSize) /\ end = s
      BY <1>9, <1>14, <3>1
    <3>3. c.dictSize <= c.currentOffset
      BY <1>9
    <3> QED
      BY <1>2, <1>11, <1>14, <3>2, <3>3, OwnNotMisled
  <2>2. ASSUME ~broken' PROVE HistoryOK'
    <3>1. CASE EndOf(c) = s
      <4>1. c.dictionary + c.dictSize = s
        BY <3>1 DEF EndOf
      <4>2. SameHistory(Written(s, n), s, c.dictSize)
        BY <1>9, <3>1
      <4>3. ctx'.dictionary = c.dictionary /\ ctx'.dictSize = c.dictSize + n
        BY <1>13, <1>14
      <4>4. c.dictSize > 0 => Region(c.dictionary, c.dictSize) \subseteq DOMAIN mem
        BY <1>9
      <4> QED
        BY <1>1, <1>2, <1>3, <1>4, <1>12, <2>2, <4>1, <4>2, <4>3, <4>4, BlockHistory
    <3>2. CASE EndOf(c) # s
      <4>1. n = 0 /\ c.dictSize = 0
        BY <1>3, <1>9, <1>14, <3>2
      <4>2. ctx'.dictSize = 0
        BY <1>13, <1>14, <4>1
      <4> QED
        BY <4>2, EmptyHistory
    <3> QED
      BY <3>1, <3>2
  <2>3. TextOK'
    BY <1>1, <1>2, <1>3, BlockText
  <2>4. ctx'.dictSize <= ctx'.currentOffset /\ ctx'.dictionary >= Null
    BY <1>3, <1>9, <1>12, <1>13, <1>14
  <2>5. ctx'.attached => ctx'.dictSize = 0
    <3>1. ctx'.attached = c.attached /\ ctx'.dictSize = c.dictSize + n
      BY <1>13, <1>14
    <3>2. c.attached => n = 0
      BY <1>3, <1>9, <1>14
    <3>3. c.attached => c.dictSize = 0
      BY <1>9, <1>10
    <3> QED
      BY <3>1, <3>2, <3>3
  <2> QED
    BY <2>1, <2>2, <2>3, <2>4, <2>5 DEF Sizes
<1>15. CASE /\ end # s /\ ~c.attached
            /\ ctx' = After(d, s, n)
            /\ Misled(c, t, s, n, EndOf(c), DictSmall(c))
  <2> HIDE DEF d
  <2>1. /\ ctx'.dictionary = s /\ ctx'.dictSize = n
        /\ ctx'.currentOffset = c.currentOffset + n /\ ctx'.attached = c.attached
    BY <1>3, <1>13, <1>15, AfterOK
  <2>2. ctx'.currentOffset \in Nat /\ ctx'.currentOffset >= n
    BY <1>3, <1>12, <2>1
  <2>3. ctx'.attached => n = 0
    BY <1>15, <2>1
  <2>4. Sizes' /\ (~broken' => HistoryOK')
    BY <1>1, <1>2, <1>3, <1>4, <2>1, <2>2, <2>3, OnlyBlock
  <2>5. ~misled'
    <3>1. n > MatchRoom => n > 0
      BY <1>3
    <3>2. n > MatchRoom => /\ SameHistory(Written(s, n), EndOf(c), c.dictSize)
                           /\ EndOf(c) = s \/ c.dictSize = 0 \/ c.dictSize >= MatchBytes
      BY <1>9, <1>15, <3>1
    <3>3. c.dictSize <= c.currentOffset
      BY <1>9
    <3> QED
      BY <1>2, <1>11, <1>15, <3>2, <3>3, OwnNotMisled
  <2> QED
    BY <2>4, <2>5
<1>16. DOMAIN mem = 0 .. Memory - 1
  BY <1>2 DEF Sizes, TextOK
<1>17. /\ dict.ctx \in Context /\ dict.ctx.currentOffset = KB64 /\ ~dict.ctx.attached
       /\ dict.ctx.currentOffset \in Nat /\ \A i \in dict.hashTable : i \in Nat
  BY <1>2 DEF DictLoaded, TableOf, Below
<1>18. CASE /\ ctx' = After(Compressed(dict.ctx, n, "byU32"), s, n)
            /\ Misled(dict.ctx, dict.hashTable, s, n, EndOf(dict.ctx), FALSE)
  <2> DEFINE e == Compressed(dict.ctx, n, "byU32")
  <2>1. e \in Context /\ e.currentOffset = KB64 + n /\ e.attached = dict.ctx.attached
    BY <1>3, <1>17, CompressedOK
  <2>2. ctx' = After(e, s, n)
    BY <1>18
  <2> HIDE DEF e
  <2>3. /\ ctx'.dictionary = s /\ ctx'.dictSize = n
        /\ ctx'.currentOffset = KB64 + n /\ ctx'.attached = e.attached
    <3>1. e \in Context /\ e.currentOffset = KB64 + n
      BY <2>1
    <3>2. ctx'.dictionary = s /\ ctx'.dictSize = n /\ ctx'.currentOffset = e.currentOffset
      BY <1>3, <2>2, <3>1, AfterOK
    <3>3. ctx'.attached = e.attached
      BY <1>3, <2>2, <3>1, AfterOK
    <3> QED
      BY <3>1, <3>2, <3>3
  <2>4. ctx'.currentOffset \in Nat /\ ctx'.currentOffset >= n
    BY <1>3, <2>3
  <2>5. ctx'.attached => n = 0
    BY <1>17, <2>1, <2>3
  <2>6. Sizes' /\ (~broken' => HistoryOK')
    BY <1>1, <1>2, <1>3, <1>4, <2>3, <2>4, <2>5, OnlyBlock
  <2>7. \A j \in dict.hashTable : /\ j \in Int
                                  /\ \E i \in dict.hashTable : j = i + (dict.ctx.currentOffset - KB64)
    BY <1>17
  <2>8. ~misled'
    BY <1>2, <1>16, <1>17, <1>18, <2>7, DictNotMisled
  <2> QED
    BY <2>6, <2>8
<1>19. CASE /\ ctx' = After(CompressedDictCtx(c, n), s, n)
            /\ Misled(x, u, s, n, EndOf(dict.ctx), FALSE)
  <2> DEFINE e == CompressedDictCtx(c, n)
  <2>1. /\ e \in Context /\ e.currentOffset = c.currentOffset + n
        /\ e.attached = IF n = 0 THEN c.attached ELSE FALSE
    BY <1>3, <1>8, CompressedDictCtxOK
  <2>2. ctx' = After(e, s, n)
    BY <1>19
  <2> HIDE DEF e
  <2>3. /\ ctx'.dictionary = s /\ ctx'.dictSize = n
        /\ ctx'.currentOffset = c.currentOffset + n /\ ctx'.attached = e.attached
    <3>1. e \in Context /\ e.currentOffset = c.currentOffset + n
      BY <2>1
    <3>2. ctx'.dictionary = s /\ ctx'.dictSize = n /\ ctx'.currentOffset = e.currentOffset
      BY <1>3, <2>2, <3>1, AfterOK
    <3>3. ctx'.attached = e.attached
      BY <1>3, <2>2, <3>1, AfterOK
    <3> QED
      BY <3>1, <3>2, <3>3
  <2>4. ctx'.currentOffset \in Nat /\ ctx'.currentOffset >= n
    BY <1>3, <1>12, <2>3
  <2>5. ctx'.attached => n = 0
    BY <2>1, <2>3
  <2>6. Sizes' /\ (~broken' => HistoryOK')
    BY <1>1, <1>2, <1>3, <1>4, <2>3, <2>4, <2>5, OnlyBlock
  <2>7. x.currentOffset = c.currentOffset /\ x.dictSize = dict.ctx.dictSize
    BY <1>17 DEF Context
  <2>8. \A j \in u : j \in Int /\ \E i \in dict.hashTable : j = i + (x.currentOffset - KB64)
    <3> SUFFICES ASSUME NEW i \in dict.hashTable
                 PROVE  /\ i + (c.currentOffset - dict.ctx.currentOffset) \in Int
                        /\ i + (c.currentOffset - dict.ctx.currentOffset)
                             = i + (x.currentOffset - KB64)
      BY DEF u
    <3> HIDE DEF x
    <3> QED
      BY <1>12, <1>17, <2>7
  <2>9. ~misled'
    <3> HIDE DEF x, u
    <3> QED
      BY <1>2, <1>12, <1>16, <1>19, <2>7, <2>8, DictNotMisled
  <2> QED
    BY <2>6, <2>9
<1> HIDE DEF x, u, d
<1> QED
  BY <1>5, <1>14, <1>15, <1>18, <1>19 DEF d
\* LZ4_compress_forceExtDict, if what it asks of its caller holds.
LEMMA ForceHistories ==
  ASSUME Histories, NEW s \in Int, s >= Null,
         NEW n \in BlockSizes, ~Strays(s, n), ForceExtDict(s, n)
  PROVE  Sizes' /\ (~broken' => HistoryOK') /\ ~misled'
<1> USE Constants
<1> DEFINE c == Renormed(ctx, n)
           t == RenormedTable(ctx, n)
           d == Compressed(c, n, "byU32")
<1>1. /\ Block(s, n) /\ Placeable(ctx, s, n) /\ ~broken /\ ~ctx.attached
      /\ ctx.dictSize \notin 1 .. MatchBytes - 1
      /\ Region(s, n) \cap Region(ctx.dictionary, ctx.dictSize) = {}
      /\ ctx' = After(d, s, n)
      /\ Misled(c, t, s, n, EndOf(c), DictSmall(c))
  BY DEF ForceExtDict, After, Overlaps
<1>2. Sizes /\ HistoryOK /\ ~misled /\ TableOf(ctx, hashTable) /\ TextOK
  BY <1>1 DEF Histories, Tables, Strays
<1>3. n \in Nat /\ Region(s, n) \subseteq DOMAIN mem
  BY <1>1 DEF Placeable
<1>4. /\ ctx.dictSize \in Nat /\ ctx.dictionary \in Int /\ ctx.dictSize <= ctx.currentOffset
  BY <1>2 DEF TableOf, Context, Sizes, TextOK
<1>5. /\ TableOf(c, t) /\ c \in Context
      /\ EndOf(c) = EndOf(ctx) /\ c.dictSize <= c.currentOffset
      /\ c.dictSize = ctx.dictSize \/ (c.dictSize = KB64 /\ KB64 < ctx.dictSize)
  <2>1. TableOf(c, t) /\ EndOf(c) = EndOf(ctx)
    BY <1>2, RenormedOK
  <2>2. c.dictSize <= c.currentOffset
    BY <1>2, <1>4, RenormedOK
  <2>3. c.dictSize = ctx.dictSize \/ (c.dictSize = KB64 /\ KB64 < ctx.dictSize)
    BY <1>2, RenormedOK
  <2> QED
    BY <2>1, <2>2, <2>3 DEF TableOf
<1>6. c.attached = ctx.attached
  BY <1>2, RenormedOK
<1> HIDE DEF c, t
<1>7. c.dictSize \in Nat /\ c.currentOffset \in Nat
  BY <1>5 DEF Context
<1>8. d \in Context /\ d.currentOffset = c.currentOffset + n
  BY <1>3, <1>5, CompressedOK
<1>9. d.attached = c.attached
  BY <1>3, <1>5, CompressedOK
<1> HIDE DEF d
<1>10. ctx'.dictionary = s /\ ctx'.dictSize = n /\ ctx'.currentOffset = d.currentOffset
  BY <1>1, <1>3, <1>8, AfterOK
<1>11. ctx'.attached => n = 0
  BY <1>1, <1>3, <1>6, <1>8, <1>9, AfterOK
<1>12. Sizes' /\ (~broken' => HistoryOK')
  <2>1. ctx'.currentOffset \in Nat /\ ctx'.currentOffset >= n
    BY <1>3, <1>7, <1>8, <1>10
  <2> QED
    BY <1>1, <1>2, <1>3, <1>10, <1>11, <2>1, OnlyBlock
<1>13. SameHistory(Written(s, n), EndOf(c), c.dictSize)
  <2> DEFINE old == EndOf(ctx)
  <2>1. old \in Int /\ old = ctx.dictionary + ctx.dictSize
    BY <1>4 DEF EndOf
  <2>2. SameHistory(mem, old, ctx.dictSize)
    BY <1>1, <1>2 DEF HistoryOK
  <2>3. EndOf(c) = old
    BY <1>5
  <2> HIDE DEF old
  <2>4. c.dictSize <= ctx.dictSize
    BY <1>4, <1>5, <1>7
  <2>5. \A k \in 1 .. c.dictSize : old - k \in Region(ctx.dictionary, ctx.dictSize)
    BY <1>4, <1>7, <2>1, <2>4 DEF Region
  <2>6. \A k \in 1 .. c.dictSize : old - k \notin Region(s, n)
    BY <1>1, <2>5
  <2> QED
    BY <1>3, <1>4, <1>7, <2>1, <2>2, <2>3, <2>4, <2>6, HistoryKept
<1>14. c.dictSize = 0 \/ c.dictSize >= MatchBytes
  BY <1>1, <1>4, <1>5, <1>7
<1>15. ~misled'
  BY <1>1, <1>2, <1>5, <1>13, <1>14, OwnNotMisled
<1> QED
  BY <1>12, <1>15

\* LZ4_saveDict moves the end of the history and points to it.
LEMMA SaveHistories ==
  ASSUME Histories, ~astray, NEW a \in Nat, NEW k \in Nat, SaveDict(a, k)
  PROVE  Sizes' /\ HistoryOK' /\ ~misled'
<1> USE Constants
<1> DEFINE size == Smaller(Smaller(k, KB64), ctx.dictSize)
           from == EndOf(ctx) - size
<1>1. /\ Region(a, size) \subseteq DOMAIN mem /\ ~broken
      /\ mem' = [b \in DOMAIN mem |-> IF b \in Region(a, size) THEN mem[from + (b - a)] ELSE mem[b]]
      /\ ctx' = After(ctx, a, size) /\ text' = text /\ misled' = misled
  BY DEF SaveDict, After
<1>2. ctx \in Context /\ Sizes /\ HistoryOK /\ ~misled
  BY <1>1 DEF Histories, Tables, TableOf
<1>3. /\ ctx.dictSize \in Nat /\ ctx.dictionary \in Int /\ ctx.currentOffset \in Nat
      /\ ctx.dictSize <= ctx.currentOffset
  BY <1>2 DEF Context, Sizes, TextOK
<1>4. size \in Nat /\ size <= ctx.dictSize
  BY <1>3 DEF Smaller
<1>5. from \in Int /\ from + size = EndOf(ctx) /\ EndOf(ctx) \in Int
      /\ EndOf(ctx) = ctx.dictionary + ctx.dictSize
  BY <1>3, <1>4 DEF EndOf
<1> HIDE DEF size, from
<1>6. ctx'.dictionary = a /\ ctx'.dictSize = size /\ ctx'.currentOffset = ctx.currentOffset
  BY <1>1, <1>2, <1>4, AfterOK
<1>7. ctx'.attached = ctx.attached
  BY <1>1, <1>2, <1>4, AfterOK
<1>8. DOMAIN mem' = DOMAIN mem
  BY <1>1
<1>9. Sizes'
  <2>1. ctx'.dictSize <= ctx'.currentOffset /\ ctx'.dictionary >= Null
    BY <1>3, <1>4, <1>6 DEF Null
  <2>2. ctx'.attached => ctx'.dictSize = 0
    <3>1. ctx.attached => ctx.dictSize = 0
      BY <1>2 DEF Sizes, TextOK
    <3>2. ctx.dictSize = 0 => size = 0
      BY <1>3, <1>4
    <3> QED
      BY <1>6, <1>7, <3>1, <3>2
  <2> QED
    BY <1>1, <1>2, <1>8, <2>1, <2>2 DEF Sizes, TextOK
<1>10. ASSUME NEW j \in 1 .. Smaller(size, Farthest)
       PROVE  mem'[a + size - j] = text - j
  <2>1. j \in Nat /\ 1 <= j /\ j <= size /\ j <= Farthest
    BY <1>4 DEF Smaller, Farthest
  <2>2. j \in 1 .. Smaller(ctx.dictSize, Farthest)
    BY <1>3, <1>4, <2>1 DEF Smaller, Farthest
  <2>3. EndOf(ctx) - j \in Region(ctx.dictionary, ctx.dictSize) /\ ctx.dictSize > 0
    BY <1>3, <1>4, <1>5, <2>1 DEF Region
  <2>4. EndOf(ctx) - j \in DOMAIN mem
    BY <1>1, <1>2, <2>3 DEF HistoryOK
  <2>5. mem[EndOf(ctx) - j] = text - j
    BY <1>1, <1>2, <2>2, <2>4 DEF HistoryOK, SameHistory
  <2> DEFINE b == a + size - j
  <2>6. b \in Region(a, size) /\ from + (b - a) = EndOf(ctx) - j
    BY <1>4, <1>5, <2>1 DEF Region
  <2> HIDE DEF b
  <2>7. mem'[b] = mem[from + (b - a)]
    BY <1>1, <2>6
  <2> QED
    BY <2>5, <2>6, <2>7 DEF b
<1>11. EndOf(ctx') = a + size
  BY <1>6 DEF EndOf
<1>12. SameHistory(mem, EndOf(ctx), ctx.dictSize)'
  <2>1. \A j \in 1 .. Smaller(ctx'.dictSize, Farthest) :
          EndOf(ctx') - j \in DOMAIN mem' => mem'[EndOf(ctx') - j] = text' - j
    <3>1. text' = text
      BY <1>1
    <3>2. \A j \in 1 .. Smaller(size, Farthest) : mem'[EndOf(ctx') - j] = text' - j
      <4> SUFFICES ASSUME NEW j \in 1 .. Smaller(size, Farthest)
                   PROVE  mem'[EndOf(ctx') - j] = text' - j
        OBVIOUS
      <4>1. mem'[a + size - j] = text - j
        BY <1>10
      <4>2. EndOf(ctx') - j = a + size - j
        <5>1. j \in Int
          BY <1>4 DEF Smaller, Farthest
        <5> QED
          BY <1>4, <1>11, <5>1
      <4>3. text' - j = text - j
        BY <3>1
      <4> QED
        BY <4>1, <4>2, <4>3
    <3> QED
      BY <1>6, <3>2
  <2> QED
    BY <2>1 DEF SameHistory, EndOf
<1>13. Region(ctx'.dictionary, ctx'.dictSize) \subseteq DOMAIN mem'
  BY <1>1, <1>6, <1>8
<1> QED
  BY <1>1, <1>2, <1>9, <1>12, <1>13 DEF HistoryOK

\* LZ4_loadDict: the text begins with the dictionary.
LEMMA LoadHistories ==
  ASSUME Histories, NEW a \in Nat, NEW n \in Nat, NEW slow \in BOOLEAN,
         LoadDict(a, n, slow)
  PROVE  Sizes' /\ HistoryOK' /\ ~misled'
<1> USE Constants
<1> DEFINE c == Loaded(a, n)
<1>1. /\ Region(a, n) \subseteq DOMAIN mem /\ ctx' = c
      /\ text' = n /\ mem' = Placed(Forgotten, a, n, 0) /\ misled' = misled
  BY DEF LoadDict
<1>2. TextOK /\ ~misled
  BY DEF Histories
<1>3. /\ c \in Context /\ c.currentOffset = KB64 /\ ~c.attached
      /\ c.dictSize <= KB64 /\ c.dictSize <= n
      /\ c.dictSize > 0 => c.dictionary = a + n - c.dictSize
      /\ c.dictSize = 0 => c.dictionary = Null
  <2>1. a \in Int
    OBVIOUS
  <2>2. TableOf(c, LoadedTable(n, slow)) /\ c.currentOffset = KB64 /\ c.attached = FALSE
    BY <2>1, LoadedOK
  <2>3. /\ c.dictSize <= KB64 /\ c.dictSize <= n
        /\ c.dictSize > 0 => c.dictionary = a + n - c.dictSize
        /\ c.dictSize = 0 => c.dictionary = Null
    BY <2>1, LoadedOK
  <2> QED
    BY <2>2, <2>3 DEF TableOf
<1> HIDE DEF c
<1>4. c.dictSize \in Nat /\ c.dictionary \in Int
  BY <1>3 DEF Context
<1>5. DOMAIN mem' = DOMAIN mem /\ DOMAIN Forgotten = DOMAIN mem
  BY <1>1 DEF Placed, Forgotten
<1>6. Sizes'
  <2>1. ctx'.dictSize <= ctx'.currentOffset /\ ctx'.dictionary >= Null
    BY <1>1, <1>3, <1>4 DEF Null
  <2>2. ctx'.attached => ctx'.dictSize = 0
    BY <1>1, <1>3
  <2> QED
    BY <1>1, <1>2, <1>5, <2>1, <2>2 DEF Sizes, TextOK
<1>7. CASE c.dictSize = 0
  <2>1. ctx'.dictSize = 0
    BY <1>1, <1>7
  <2> QED
    BY <1>1, <1>2, <1>6, <2>1, EmptyHistory
<1>8. CASE c.dictSize > 0
  <2>1. c.dictionary = a + n - c.dictSize
    BY <1>3, <1>8
  <2>2. EndOf(c) = a + n
    BY <1>4, <2>1 DEF EndOf
  <2>3. Region(c.dictionary, c.dictSize) \subseteq Region(a, n)
    BY <1>3, <1>4, <2>1 DEF Region
  <2>4. ASSUME NEW k \in 1 .. Smaller(c.dictSize, Farthest)
        PROVE  mem'[a + n - k] = n - k
    <3>1. k \in Nat /\ 1 <= k /\ k <= c.dictSize
      BY <1>4 DEF Smaller, Farthest
    <3> DEFINE b == a + n - k
    <3>2. b \in Region(a, n) /\ b - a = n - k
      BY <1>3, <1>4, <3>1 DEF Region
    <3> HIDE DEF b
    <3>3. mem'[b] = 0 + (b - a)
      BY <1>1, <1>5, <3>2 DEF Placed
    <3>4. mem'[b] = n - k
      BY <3>1, <3>2, <3>3
    <3> QED
      BY <3>4 DEF b
  <2>5. SameHistory(mem, EndOf(ctx), ctx.dictSize)'
    BY <1>1, <2>2, <2>4 DEF SameHistory, EndOf
  <2>6. HistoryOK'
    BY <1>1, <1>5, <2>3, <2>5 DEF HistoryOK
  <2> QED
    BY <1>1, <1>2, <1>6, <2>6
<1> QED
  BY <1>4, <1>7, <1>8
\* LZ4_compress_fast_extState_fastReset: of an older table it finds nothing, since either the
\* offset is 0 or LZ4_prepareTable has moved it 64 KB on.
LEMMA ExtStateHistories ==
  ASSUME Histories, NEW s \in Nat, NEW n \in BlockSizes, ExtStateFastReset(s, n)
  PROVE  TextOK' /\ broken' /\ ~misled'
<1> USE Constants
<1> DEFINE type == IF n < U16Limit THEN "byU16" ELSE "byU32"
           c == Prepared(ctx, n, type)
           t == IF Clears(ctx, n, type) THEN Empty ELSE hashTable
<1>1. NoHistory
  BY DEF ExtStateFastReset
<1>2. misled' = (misled \/ (n > MatchRoom /\
        \E i \in t : /\ i < c.currentOffset
                     /\ IF type = "byU16" THEN ~(type = "byU16" /\ c.currentOffset > 0)
                        ELSE Compared(i, c.currentOffset, 0, FALSE)))
  BY DEF ExtStateFastReset
<1>3. type \in {"byU32", "byU16"} /\ n \in Nat
  OBVIOUS
<1> HIDE DEF type
<1>4. TextOK /\ ~misled /\ TableOf(ctx, hashTable)
  BY DEF Histories, Tables
<1>5. /\ TableOf(c, t) /\ c.dictSize = 0 /\ c.dictionary = Null
      /\ \/ c.currentOffset = 0
         \/ c.currentOffset = ctx.currentOffset /\ type = "byU16"
         \/ /\ c.currentOffset = ctx.currentOffset + KB64
            /\ type = "byU32" /\ ctx.currentOffset # 0 /\ t = hashTable
  BY <1>3, <1>4, PreparedOK
<1> HIDE DEF c, t
<1>6. c \in Context /\ c.currentOffset \in Nat /\ ctx.currentOffset \in Nat
  BY <1>4, <1>5 DEF TableOf, Context
<1>7. TextOK' /\ broken'
  BY <1>1, <1>4 DEF NoHistory, NoText, Forgotten, TextOK
<1>8. ~misled'
  <2> SUFFICES ASSUME NEW i \in t, i < c.currentOffset,
                      IF type = "byU16" THEN ~(type = "byU16" /\ c.currentOffset > 0)
                      ELSE Compared(i, c.currentOffset, 0, FALSE)
               PROVE  FALSE
    BY <1>2, <1>4
  <2>1. i \in Nat
    BY <1>5 DEF TableOf, Below
  <2>2. c.currentOffset > 0
    BY <1>6, <2>1
  <2>3. type = "byU32" /\ Compared(i, c.currentOffset, 0, FALSE)
    BY <1>3, <2>2
  <2>4. c.currentOffset = ctx.currentOffset + KB64 /\ ctx.currentOffset # 0 /\ i \in hashTable
    BY <1>5, <2>2, <2>3
  <2>5. i = 0 \/ i + MatchBytes <= ctx.currentOffset
    BY <1>4, <2>4 DEF TableOf, Below
  <2>6. i + (KB64 - 1) >= c.currentOffset + 1
    BY <2>3 DEF Compared, Farthest
  <2> QED
    BY <1>6, <2>1, <2>4, <2>5, <2>6
<1> QED
  BY <1>7, <1>8

\* An astray stream's calls, and those that lead it there.
LEMMA StrayHistories ==
  ASSUME Histories, NEW s \in Int, NEW n \in BlockSizes, Strays(s, n),
         Continue(s, n) \/ ForceExtDict(s, n)
  PROVE  TextOK' /\ (astray' \/ broken') /\ ~misled'
<1>1. Block(s, n) /\ n \in Nat /\ TextOK /\ ~misled
  BY Constants DEF Continue, ForceExtDict, Histories
<1>2. TextOK' /\ (astray' \/ broken')
  BY <1>1, BlockText, StrayBlock
<1>3. CASE Continue(s, n)
  <2> DEFINE c == Ready(Renormed(ctx, n), s, n)
             t == RenormedTable(ctx, n)
             x == [dict.ctx EXCEPT !.currentOffset = c.currentOffset]
             u == {i + (c.currentOffset - dict.ctx.currentOffset) : i \in dict.hashTable}
  <2>1. \/ \E end : Misled(c, t, s, n, end, DictSmall(c))
        \/ Misled(dict.ctx, dict.hashTable, s, n, EndOf(dict.ctx), FALSE)
        \/ Misled(x, u, s, n, EndOf(dict.ctx), FALSE)
    BY <1>3, ContinueCases
  <2> HIDE DEF c, t, x, u
  <2> QED
    BY <1>1, <1>2, <2>1, StrayNotMisled
<1>4. CASE ForceExtDict(s, n)
  <2>1. PICK c, t : Misled(c, t, s, n, EndOf(c), DictSmall(c))
    BY <1>4 DEF ForceExtDict
  <2> QED
    BY <1>1, <1>2, <2>1, StrayNotMisled
<1> QED
  BY <1>2, <1>3, <1>4

LEMMA HistoriesStep ==
  ASSUME Histories, [StreamNext]_streamVars
  PROVE  Histories'
<1> USE Constants
<1>1. /\ Tables /\ TextOK /\ ~misled /\ ctx \in Context /\ TableOf(ctx, hashTable)
      /\ ~astray /\ ~broken => Sizes /\ HistoryOK
  BY DEF Histories, Tables, TableOf
<1>2. ctx.currentOffset \in Nat /\ ctx.dictSize \in Nat /\ ctx.dictionary \in Int
  BY <1>1 DEF Context
<1> DEFINE Goal == TextOK' /\ ~misled' /\ (~astray' /\ ~broken' => Sizes' /\ HistoryOK')
<1> SUFFICES Goal
  <2>1. Tables'
    BY <1>1, TablesStep
  <2> QED
    BY <2>1 DEF Histories
<1>3. ASSUME text' \in Nat, DOMAIN mem' = DOMAIN mem, misled' = misled
      PROVE  TextOK' /\ ~misled'
  BY <1>1, <1>3 DEF TextOK
\* Without a dictionary, the sizes are all that is left to say.
<1>4. ASSUME ctx'.dictSize = 0, ctx'.currentOffset \in Nat, ctx'.dictionary >= Null,
              text' \in Nat, DOMAIN mem' = DOMAIN mem, misled' = misled
       PROVE  Goal
  <2>1. HistoryOK'
    BY <1>4, EmptyHistory
  <2>2. TextOK' /\ ~misled'
    BY <1>3, <1>4
  <2>3. Sizes'
    BY <1>4, <2>2 DEF Sizes
  <2> QED
    BY <2>1, <2>2, <2>3
<1>5. CASE UNCHANGED streamVars
  BY <1>1, <1>5 DEF streamVars, Sizes, TextOK, HistoryOK, SameHistory, EndOf
<1>6. CASE ResetStream
  <2>1. ctx' = Fresh /\ text' = 0 /\ DOMAIN mem' = DOMAIN mem /\ misled' = misled
    BY <1>6 DEF ResetStream, NewText, NoText, Forgotten
  <2>2. ctx'.dictSize = 0 /\ ctx'.currentOffset = 0 /\ ctx'.dictionary = Null
    BY <2>1 DEF Fresh
  <2> QED
    BY <1>4, <2>1, <2>2 DEF Null
<1>7. CASE ResetStreamFast
  <2> DEFINE c == Prepared(ctx, 0, "byU32")
  <2>1. ctx' = c /\ text' = 0 /\ DOMAIN mem' = DOMAIN mem /\ misled' = misled
    BY <1>7 DEF ResetStreamFast, NewText, NoText, Forgotten
  <2>2. c.dictSize = 0 /\ c.dictionary = Null /\ c \in Context
    BY <1>1, PreparedOK DEF TableOf
  <2> HIDE DEF c
  <2>3. c.currentOffset \in Nat
    BY <2>2 DEF Context
  <2> QED
    BY <1>4, <2>1, <2>2, <2>3 DEF Null
<1>8. CASE AttachDictionary
  <2> DEFINE now == IF ctx.currentOffset = 0 THEN KB64 ELSE ctx.currentOffset
             flag == dict.ctx.dictSize > 0
  <2>1. /\ ctx' = [ctx EXCEPT !.currentOffset = now, !.attached = flag]
        /\ misled' = misled /\ ~broken
        /\ ~astray' => ~astray /\ (ctx.dictSize = 0 \/ ~flag)
    <3>1. /\ ctx' = [ctx EXCEPT !.currentOffset = now, !.attached = flag]
          /\ misled' = misled /\ ~broken
      BY <1>8 DEF AttachDictionary
    <3>2. ~astray' => ~astray /\ ~(flag /\ ctx.dictSize > 0)
      BY <1>8 DEF AttachDictionary
    <3>3. ctx.dictSize = 0 \/ ctx.dictSize > 0
      BY <1>2
    <3> HIDE DEF flag, now
    <3> QED
      BY <3>1, <3>2, <3>3
  <2>2. text' \in Nat /\ DOMAIN mem' = DOMAIN mem
    <3>1. dict.ctx.dictSize \in Nat /\ text \in Nat
      BY <1>1 DEF Tables, DictLoaded, TableOf, Context, TextOK
    <3> QED
      BY <1>8, <3>1 DEF AttachDictionary, NoText, Placed, Forgotten
  <2>3. now \in Nat /\ now >= ctx.currentOffset /\ flag \in BOOLEAN
    BY <1>2
  <2>4. ~flag => UNCHANGED <<mem, text>>
    BY <1>8 DEF AttachDictionary
  <2> HIDE DEF now, flag
  <2>5. /\ ctx'.currentOffset = now /\ ctx'.dictSize = ctx.dictSize
        /\ ctx'.dictionary = ctx.dictionary /\ ctx'.attached = flag
    BY <1>1, <2>1 DEF Context
  <2>6. ASSUME ~astray' PROVE Goal
    <3>1. Sizes /\ HistoryOK /\ ctx.dictionary >= Null
      BY <1>1, <2>1, <2>6 DEF Sizes
    <3>2. CASE ctx.dictSize = 0
      BY <1>4, <2>1, <2>2, <2>3, <2>5, <3>1, <3>2
    <3>3. CASE ~flag
      <4>1. TextOK' /\ ~misled'
        BY <1>3, <2>1, <2>2
      <4>2. Sizes'
        BY <1>2, <2>3, <2>5, <3>1, <3>3, <4>1 DEF Sizes
      <4>3. HistoryOK'
        BY <2>4, <2>5, <3>1, <3>3 DEF HistoryOK, SameHistory, EndOf
      <4> QED
        BY <4>1, <4>2, <4>3
    <3> QED
      BY <2>1, <2>6, <3>2, <3>3
  <2> QED
    BY <1>3, <2>1, <2>2, <2>6
<1>9. CASE DetachDictionary
  <2>1. /\ ctx' = [ctx EXCEPT !.attached = FALSE] /\ misled' = misled /\ ~broken
        /\ astray' = astray /\ text' \in Nat /\ DOMAIN mem' = DOMAIN mem
        /\ ctx.attached \/ UNCHANGED <<mem, text>>
    BY <1>1, <1>9 DEF DetachDictionary, NoText, Forgotten, TextOK
  <2>2. /\ ctx'.currentOffset = ctx.currentOffset /\ ctx'.dictSize = ctx.dictSize
        /\ ctx'.dictionary = ctx.dictionary /\ ctx'.attached = FALSE
    BY <1>1, <2>1 DEF Context
  <2>3. ASSUME ~astray' PROVE Goal
    <3>1. Sizes /\ HistoryOK /\ ctx.dictionary >= Null /\ (ctx.attached => ctx.dictSize = 0)
      BY <1>1, <2>1, <2>3 DEF Sizes
    <3>2. CASE ctx.dictSize = 0
      BY <1>2, <1>4, <2>1, <2>2, <3>1, <3>2
    <3>3. CASE ~ctx.attached
      <4>1. TextOK' /\ ~misled'
        BY <1>3, <2>1
      <4>2. Sizes'
        BY <2>2, <3>1, <4>1 DEF Sizes
      <4>3. HistoryOK'
        BY <2>1, <2>2, <3>1, <3>3 DEF HistoryOK, SameHistory, EndOf
      <4> QED
        BY <4>1, <4>2, <4>3
    <3> QED
      BY <3>1, <3>2, <3>3
  <2> QED
    BY <1>3, <2>1, <2>3
<1>10. ASSUME NEW a \in Starts, NEW n \in DictSizes, NEW slow \in BOOLEAN, LoadDict(a, n, slow)
      PROVE  Goal
  BY <1>10, LoadHistories DEF Sizes
<1>11. ASSUME NEW a \in Starts, NEW k \in DictSizes, SaveDict(a, k) PROVE Goal
  <2>1. CASE ~astray
    BY <1>11, <2>1, SaveHistories DEF Sizes
  <2>2. CASE astray
    <3>1. astray' = astray /\ text' = text /\ DOMAIN mem' = DOMAIN mem /\ misled' = misled
      BY <1>11 DEF SaveDict
    <3> QED
      BY <1>1, <1>3, <2>2, <3>1 DEF TextOK
  <2> QED
    BY <2>1, <2>2
<1>12. ASSUME NEW s \in Starts, NEW n \in BlockSizes, ExtStateFastReset(s, n) PROVE Goal
  BY <1>12, ExtStateHistories
<1>13. ASSUME NEW s \in Starts \cup {EndOf(ctx)}, NEW n \in BlockSizes,
              Continue(s, n) \/ ForceExtDict(s, n)
       PROVE  Goal
  <2>1. s \in Int
    BY <1>2 DEF EndOf
  <2>2. CASE Strays(s, n)
    BY <1>13, <2>1, <2>2, StrayHistories
  <2>3. CASE ~Strays(s, n)
    <3>1. ~astray /\ ~broken
      BY <1>13, <2>3 DEF Continue, ForceExtDict, Strays
    <3>2. s >= Null
      BY <1>1, <1>2, <3>1 DEF Sizes, EndOf, Null
    <3> QED
      BY <1>13, <2>1, <2>3, <3>2, ContinueHistories, ForceHistories DEF Sizes
  <2> QED
    BY <2>2, <2>3
<1> HIDE DEF Goal
<1> QED
  BY <1>5, <1>6, <1>7, <1>8, <1>10, <1>11, <1>12, <1>13, <1>9 DEF StreamNext

\* Whatever was compressed, saved, loaded, attached, detached, overwritten or rescaled before,
\* what LZ4_compress_generic may compare a position with is a byte that the decoder has at that
\* distance: except in a stream to which a dictionary was attached although it had a history,
\* or whose history a block of a ring buffer has swallowed whole, until it is reset or loaded.
THEOREM StreamNeverMisled ==
  StreamSpec => []NeverMisled
<1>1. StreamInit => Histories
  <2> SUFFICES ASSUME StreamInit PROVE Histories
    OBVIOUS
  <2>1. Tables
    BY TablesInit
  <2>2. Sizes
    BY Constants DEF StreamInit, Fresh, Null, Sizes, TextOK
  <2>3. HistoryOK
    <3>1. 1 .. Smaller(0, Farthest) = {}
      BY Constants DEF Smaller, Farthest
    <3> QED
      BY <3>1 DEF StreamInit, Fresh, HistoryOK, SameHistory
  <2> QED
    BY <2>1, <2>2, <2>3 DEF StreamInit, Histories, Sizes
<1>2. Histories /\ [StreamNext]_streamVars => Histories'
  BY HistoriesStep
<1>3. Histories => NeverMisled
  BY DEF Histories, NeverMisled
<1> QED
  BY <1>1, <1>2, <1>3, PTL DEF StreamSpec
=============================================================================
