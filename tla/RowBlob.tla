------------------------------- MODULE RowBlob ------------------------------
(***************************************************************************)
(* Rows as blobs, in cqlrt_common.c: cql_cursor_to_blob writes a cursor    *)
(* field by field into a growing buffer, cql_cursor_from_blob reads it     *)
(* into a cursor whose shape may be an earlier or a later version of the   *)
(* writer's, and cql_make_blob_stream joins blobs into one.                *)
(*                                                                         *)
(* A blob is a sequence of cells: a byte is one cell, except in the bit    *)
(* vector, where each bit is one.                                          *)
(***************************************************************************)
EXTENDS Integers, Sequences, FiniteSets, SequencesExt, FiniteSetsExt

CONSTANTS
  ReaderShapes,   \* shapes a cursor may have: sequences of columns
  WriterShapes,   \* shapes of the rows written
  Values,         \* Values[type]: the values that rows have
  NULL,
  ByteBits,       \* bits in a byte of the bit vector (8)
  Group,          \* values of the payload of a byte of a varint (2^7)
  Half,           \* half the values of an "int" and a "long" (2^31 and 2^63)
  MaxBytes,       \* bytes after which reading a varint gives up (5 and 10)
  GrowthSize,     \* BYTEBUF_GROWTH_SIZE
  MaxRows         \* bound on the rows written

Types == {"int", "long", "real", "bool", "text", "blob"}
IntTypes == {"int", "long"}
RefTypes == {"text", "blob"}
Column == [type : Types, notnull : BOOLEAN]
RealBytes == 2      \* sizeof(cql_double), as cells

\* u shifted right by one group after another
Shifted(u, n) ==
  LET rest[j \in 0..n] == IF j = 0 THEN u ELSE rest[j - 1] \div Group
  IN rest

ASSUME RowBlobAssumption ==
  /\ ReaderShapes \cup WriterShapes \subseteq Seq(Column)
  /\ {ByteBits, GrowthSize, MaxRows} \subseteq Nat \ {0} /\ Group \in Nat /\ Group > 1
  /\ \A t \in IntTypes : Half[t] \in Nat /\ Half[t] > 0 /\ MaxBytes[t] \in Nat
  /\ \A t \in IntTypes : Shifted(2 * Half[t] - 1, MaxBytes[t])[MaxBytes[t]] = 0
  /\ \A t \in IntTypes : Values[t] \subseteq (-Half[t])..(Half[t] - 1)
  /\ \A r \in Values["real"] : r \in Seq(Nat) /\ Len(r) = RealBytes
  /\ Values["bool"] \subseteq BOOLEAN
  /\ \A s \in Values["text"] : s \in Seq(Nat \ {0})
  /\ \A s \in Values["blob"] : s \in Seq(Nat) /\ Len(s) < Half["int"]
  /\ NULL \notin Int /\ NULL \notin BOOLEAN /\ NULL \notin Seq(Nat)

VARIABLES
  shape,    \* the columns of the reading cursor
  cursor,   \* its has_row and fields
  refs,     \* how many strings and blobs made for it are alive
  rows,     \* the rows written, each with its shape and blob
  out,      \* the row being written
  in        \* the blob being read

vars == <<shape, cursor, refs, rows, out, in>>
-----------------------------------------------------------------------------
(* The byte buffer *)

\* cql_bytebuf_open.  gen tells the block of memory that ptr points to from
\* the blocks that it has replaced.
NewBuffer == [data |-> << >>, max |-> GrowthSize, gen |-> 1]

\* cql_bytebuf_alloc and the write of what it was called for; past a cap of
\* 1MB the buffer grows by a constant instead of doubling.
Append1(b, cells) ==
  IF Len(cells) > b.max - Len(b.data)
  THEN [data |-> b.data \o cells, max |-> Len(cells) + 2 * b.max, gen |-> b.gen + 1]
  ELSE [b EXCEPT !.data = @ \o cells]

\* cql_bytebuf_append of one byte after another
AppendBytes(b, bytes) ==
  LET after[n \in 0..Len(bytes)] ==
        IF n = 0 THEN b ELSE Append1(after[n - 1], <<bytes[n]>>)
  IN after[Len(bytes)]
-----------------------------------------------------------------------------
(* Variable-length integers *)

\* cql_zigzag_encode_32/64: (i >> (w-1)) ^ (i << 1), as an unsigned integer
ZigzagEncode(i, half) == IF i < 0 THEN 2 * half - 1 - ((2 * i) % (2 * half)) ELSE 2 * i

\* cql_zigzag_decode_32/64: (u >> 1) ^ -(u & 1), read as a signed integer
ZigzagDecode(u) == IF u % 2 = 0 THEN u \div 2 ELSE -(u \div 2) - 1

\* cql_write_varint_32/64: groups of bits from the lowest up until no bit is
\* left, each but the last with the extension bit on top.
VarintBytes(i, type) ==
  LET rest == Shifted(ZigzagEncode(i, Half[type]), MaxBytes[type])
      n == Min({m \in 1..MaxBytes[type] : rest[m] = 0})
  IN [j \in 1..n |-> (rest[j - 1] % Group) + (IF j < n THEN Group ELSE 0)]

\* cql_read_varint_32/64 at cell p of s.  The loop ends at a byte without
\* the extension bit; it fails at the end of the input and after max bytes.
VarintEnds(s, p, max) ==
  {n \in 1..max : /\ p + n - 1 <= Len(s)
                  /\ s[p + n - 1] < Group
                  /\ \A m \in 1..(n - 1) : s[p + m - 1] >= Group}

\* What the n bytes at p add up to, from the last back
Joined(s, p, n) ==
  LET from[j \in 0..n] ==
        IF j = 0 THEN 0 ELSE (s[p + n - j] % Group) + Group * from[j - 1]
  IN from[n]

VarintAt(s, p, type) ==
  LET ends == VarintEnds(s, p, MaxBytes[type])
      n == CHOOSE m \in ends : TRUE
  IN IF ends = {} THEN [ok |-> FALSE]
     ELSE [ok |-> TRUE, val |-> ZigzagDecode(Joined(s, p, n) % (2 * Half[type])), next |-> p + n]
-----------------------------------------------------------------------------
(* Writing: cql_cursor_to_bytebuf *)

Letter == [int |-> 1, long |-> 2, real |-> 3, bool |-> 4, text |-> 5, blob |-> 6]

\* The letter of a column: upper case for NOT NULL, lower case for nullable
Code(c) == 2 * Letter[c.type] + (IF c.notnull THEN 0 ELSE 1)
CodeType(x) == CHOOSE t \in Types : Letter[t] = x \div 2
CodeNullable(x) == x % 2 = 1

\* nullable_count and bool_count when the loop is at column i
NullablesBefore(cols, i) == Cardinality({j \in 1..(i - 1) : ~cols[j].notnull})
BoolsBefore(cols, i) == Cardinality({j \in 1..(i - 1) : cols[j].type = "bool"})
Nullables(cols) == NullablesBefore(cols, Len(cols) + 1)
Bools(cols) == BoolsBefore(cols, Len(cols) + 1)

\* The cells of a bit vector of n bits, which takes whole bytes
BitCells(n) == ((n + ByteBits - 1) \div ByteBits) * ByteBits

Zeros(n) == [i \in 1..n |-> 0]

\* The type codes, the zero after them and the bit vector, all bits clear.
\* bits is a pointer into the buffer's memory, not an offset.
StartRow(cols) ==
  LET b == AppendBytes(NewBuffer, [i \in DOMAIN cols |-> Code(cols[i])] \o <<0>>)
      b2 == Append1(b, Zeros(BitCells(Nullables(cols) + Bools(cols))))
  IN [buf |-> b2, bits |-> [gen |-> b2.gen, at |-> Len(b.data)]]

\* cql_setbit through that pointer.  When the buffer has moved meanwhile the
\* write goes to memory that was freed and the blob keeps a zero.
SetBit(o, index) ==
  IF o.bits.gen = o.buf.gen
  THEN [o EXCEPT !.buf.data[o.bits.at + index + 1] = 1]
  ELSE o

\* The data of a field: the varint and blob writers append twice or more.
Put(o, cells) == [o EXCEPT !.buf = Append1(@, cells)]
PutBytes(o, bytes) == [o EXCEPT !.buf = AppendBytes(@, bytes)]

PutValue(o, type, v, boolBit) ==
  CASE type \in IntTypes -> PutBytes(o, VarintBytes(v, type))
    [] type = "real" -> Put(o, v)
    [] type = "bool" -> IF v THEN SetBit(o, boolBit) ELSE o
    [] type = "text" -> Put(o, v \o <<0>>)
    [] type = "blob" -> Put(PutBytes(o, VarintBytes(Len(v), "int")), v)

\* The writer's next column i, with nullable_index and bool_index
PutField(o, cols, i, v) ==
  IF v = NULL THEN o
  ELSE PutValue(IF cols[i].notnull THEN o ELSE SetBit(o, NullablesBefore(cols, i)),
                cols[i].type, v, Nullables(cols) + BoolsBefore(cols, i))
-----------------------------------------------------------------------------
(* Reading: cql_cursor_from_bytes *)

\* cql_input_inline_str: the text up to the next zero
TextEnds(s, p) == {q \in p..Len(s) : s[q] = 0}

\* Mutant: a text without its zero is taken up to the end of the input.
Mutant_TextAt(s, p) ==
  LET q == Min(TextEnds(s, p) \cup {Len(s) + 1})
  IN [ok |-> TRUE, val |-> SubSeq(s, p, q - 1), next |-> q + 1]

TextAt(s, p) ==
  IF TextEnds(s, p) = {} THEN [ok |-> FALSE]
  ELSE LET q == Min(TextEnds(s, p))
       IN [ok |-> TRUE, val |-> SubSeq(s, p, q - 1), next |-> q + 1]

\* cql_input_read and cql_input_inline_bytes; the number of bytes is unsigned.
BytesAt(s, p, n) ==
  IF n < 0 \/ p + n - 1 > Len(s) THEN [ok |-> FALSE]
  ELSE [ok |-> TRUE, val |-> SubSeq(s, p, p + n - 1), next |-> p + n]

ValueAt(s, p, type, bit) ==
  CASE type \in IntTypes -> VarintAt(s, p, type)
    [] type = "real" -> BytesAt(s, p, RealBytes)
    [] type = "bool" -> [ok |-> TRUE, val |-> bit = 1, next |-> p]
    [] type = "text" -> TextAt(s, p)
    [] type = "blob" ->
         LET n == VarintAt(s, p, "int")
         IN IF n.ok THEN BytesAt(s, n.next, n.val) ELSE n

\* The type codes up to the zero and the bit vector after them.  Columns that
\* the reader does not know count for the bit vector only.
ReadHeader(s) ==
  IF TextEnds(s, 1) = {} THEN [ok |-> FALSE]
  ELSE LET z == Min(TextEnds(s, 1))
           codes == SubSeq(s, 1, z - 1)
           nulls == Cardinality({j \in 1..(z - 1) : CodeNullable(codes[j])})
           bools == Cardinality({j \in 1..(z - 1) : CodeType(codes[j]) = "bool"})
           bits == BytesAt(s, z + 1, BitCells(nulls + bools))
       IN IF bits.ok
          THEN [ok |-> TRUE, codes |-> codes, nulls |-> nulls, bits |-> bits.val,
                next |-> bits.next]
          ELSE bits

\* Whether the columns found will do for those needed
Accepts(codes) ==
  \A i \in DOMAIN shape :
    IF i <= Len(codes)
    THEN /\ CodeType(codes[i]) = shape[i].type
         /\ shape[i].notnull => ~CodeNullable(codes[i])
    ELSE ~shape[i].notnull

IsRef(i) == shape[i].type \in RefTypes
RefsIn(fields) == Cardinality({i \in DOMAIN fields : IsRef(i) /\ fields[i] # NULL})

\* Mutant: the error exit leaves the references in place.
Mutant_Cleared(c) == [c EXCEPT !.has_row = FALSE]

\* cql_clear_references_before_deserialization; other fields keep their value.
Cleared(c) ==
  [has_row |-> FALSE,
   fields |-> [i \in DOMAIN c.fields |-> IF IsRef(i) THEN NULL ELSE c.fields[i]]]

ClearCursor == /\ cursor' = Cleared(cursor)
               /\ refs' = refs - RefsIn(cursor.fields)
-----------------------------------------------------------------------------

NoRow == [cols |-> << >>, vals |-> << >>, o |-> NULL]
NoRead == [phase |-> "none"]

Init ==
  /\ shape \in ReaderShapes
  /\ cursor = [has_row |-> FALSE, fields |-> [i \in DOMAIN shape |-> NULL]]
  /\ refs = 0
  /\ rows = << >>
  /\ out = NoRow
  /\ in = NoRead

Writing == out.o # NULL

\* cql_cursor_to_blob is called with a row of some shape.
WriteHeader(cols) ==
  /\ ~Writing /\ Len(rows) < MaxRows /\ in = NoRead
  /\ out' = [cols |-> cols, vals |-> << >>, o |-> StartRow(cols)]
  /\ UNCHANGED <<shape, cursor, refs, rows, in>>

WriteField(v) ==
  /\ Writing /\ Len(out.vals) < Len(out.cols)
  /\ LET i == Len(out.vals) + 1 IN
     /\ v \in Values[out.cols[i].type] \/ (v = NULL /\ ~out.cols[i].notnull)
     /\ out' = [out EXCEPT !.vals = Append(@, v),
                           !.o = PutField(@, out.cols, i, v)]
  /\ UNCHANGED <<shape, cursor, refs, rows, in>>

WriteEnd ==
  /\ Writing /\ Len(out.vals) = Len(out.cols)
  /\ rows' = Append(rows, [cols |-> out.cols, vals |-> out.vals, blob |-> out.o.buf.data])
  /\ out' = NoRow
  /\ UNCHANGED <<shape, cursor, refs, in>>

\* Mutant: the ends are counted from the end of the table without its length.
Mutant_StreamOf(blobs) ==
  LET ends[i \in 0..Len(blobs)] ==
        IF i = 0 THEN Len(blobs) ELSE ends[i - 1] + Len(blobs[i])
  IN <<Len(blobs)>> \o [i \in DOMAIN blobs |-> ends[i]] \o FlattenSeq(blobs)

\* cql_make_blob_stream of the blobs written: their number, where each ends,
\* and their bytes.  The integers are one cell each.
StreamOf(blobs) ==
  LET ends[i \in 0..Len(blobs)] ==
        IF i = 0 THEN 1 + Len(blobs) ELSE ends[i - 1] + Len(blobs[i])
  IN <<Len(blobs)>> \o [i \in DOMAIN blobs |-> ends[i]] \o FlattenSeq(blobs)

\* The bytes that cql_cursor_from_blob_stream reads for an index.
StreamSlice(s, index) ==
  IF \/ Len(s) < 1
     \/ index < 0 \/ index >= s[1] \/ index + 2 > Len(s)
     \/ s[index + 2] > Len(s)
  THEN [ok |-> FALSE]
  ELSE LET end == s[index + 2]
           start == IF index > 0 THEN s[index + 1] ELSE s[1] + 1
       IN IF start > end THEN [ok |-> FALSE]
          ELSE [ok |-> TRUE, val |-> SubSeq(s, start + 1, end)]

\* cql_cursor_from_bytes up to the loop over the fields.  r is the row that
\* the bytes are from, and whole whether they are all of it.
Read(s, r, whole) ==
  LET h == ReadHeader(s)
      good == h.ok /\ Accepts(h.codes)
  IN /\ ClearCursor
     /\ in' = IF good
              THEN [phase |-> "fields", row |-> r, whole |-> whole, bytes |-> s,
                    head |-> h, i |-> 1, at |-> h.next, nulls |-> 0, bools |-> 0]
              ELSE [phase |-> "error", row |-> r, whole |-> whole]

Ready == ~Writing /\ in.phase # "fields"

\* cql_cursor_from_blob, of a blob that may have been cut short
FromBlob(r, n) ==
  /\ Ready
  /\ Read(SubSeq(rows[r].blob, 1, n), r, n = Len(rows[r].blob))
  /\ UNCHANGED <<shape, rows, out>>

FromStream(index) ==
  /\ Ready
  /\ LET slice == StreamSlice(StreamOf([r \in DOMAIN rows |-> rows[r].blob]), index)
     IN IF slice.ok
        THEN Read(slice.val, index + 1, TRUE)
        ELSE /\ ClearCursor
             /\ in' = [phase |-> "error", row |-> 0, whole |-> FALSE]
  /\ UNCHANGED <<shape, rows, out>>

\* The loop over the needed fields
Present == in.i <= Len(in.head.codes)
Nullable == Present /\ CodeNullable(in.head.codes[in.i])
Fetch == Present /\ (Nullable => in.head.bits[in.nulls + 1] = 1)

\* Mutant: the bits of nullable bools are skipped when they are NULL.
Mutant_NextField(next) ==
  [in EXCEPT !.i = @ + 1, !.at = next,
             !.nulls = IF Nullable THEN @ + 1 ELSE @,
             !.bools = IF shape[in.i].type = "bool" /\ Fetch THEN @ + 1 ELSE @]

NextField(next) ==
  [in EXCEPT !.i = @ + 1, !.at = next,
             !.nulls = IF Nullable THEN @ + 1 ELSE @,
             !.bools = IF shape[in.i].type = "bool" THEN @ + 1 ELSE @]

ReadField ==
  /\ in.phase = "fields" /\ in.i <= Len(shape)
  /\ LET type == shape[in.i].type
         bit == IF type = "bool" /\ Fetch THEN in.head.bits[in.head.nulls + in.bools + 1] ELSE 0
         x == ValueAt(in.bytes, in.at, type, bit)
     IN \/ /\ ~Fetch
           /\ cursor' = [cursor EXCEPT !.fields[in.i] = NULL]
           /\ in' = NextField(in.at)
           /\ UNCHANGED refs
        \/ /\ Fetch /\ x.ok
           /\ cursor' = [cursor EXCEPT !.fields[in.i] = x.val]
           /\ refs' = IF IsRef(in.i) THEN refs + 1 ELSE refs
           /\ in' = NextField(x.next)
        \/ /\ Fetch /\ ~x.ok
           /\ ClearCursor
           /\ in' = [phase |-> "error", row |-> in.row, whole |-> in.whole]
  /\ UNCHANGED <<shape, rows, out>>

ReadEnd ==
  /\ in.phase = "fields" /\ in.i > Len(shape)
  /\ cursor' = [cursor EXCEPT !.has_row = TRUE]
  /\ in' = [phase |-> "ok", row |-> in.row, whole |-> in.whole]
  /\ UNCHANGED <<shape, refs, rows, out>>

Next ==
  \/ \E cols \in WriterShapes : WriteHeader(cols)
  \/ Writing /\ Len(out.vals) < Len(out.cols)
     /\ \E v \in Values[out.cols[Len(out.vals) + 1].type] \cup {NULL} : WriteField(v)
  \/ WriteEnd
  \/ \E r \in DOMAIN rows : \E n \in 0..Len(rows[r].blob) : FromBlob(r, n)
  \/ \E index \in -1..Len(rows) : FromStream(index)
  \/ ReadField
  \/ ReadEnd

Spec == Init /\ [][Next]_vars
-----------------------------------------------------------------------------

RowBlobTypeOK ==
  /\ shape \in ReaderShapes
  /\ cursor.has_row \in BOOLEAN /\ DOMAIN cursor.fields = DOMAIN shape
  /\ refs \in Nat
  /\ Len(rows) <= MaxRows
  /\ \A r \in DOMAIN rows : rows[r].cols \in WriterShapes
  /\ Writing => out.cols \in WriterShapes
  /\ in.phase \in {"none", "fields", "ok", "error"}
  /\ in.phase = "fields" => in.at \in 1..(Len(in.bytes) + 1)

\* What a row of another version of the shape is to the reader: the columns
\* that both have must agree, the ones that the row lacks are NULL.
Readable(row) ==
  \A i \in DOMAIN shape :
    IF i <= Len(row.cols)
    THEN row.cols[i].type = shape[i].type /\ (shape[i].notnull => row.cols[i].notnull)
    ELSE ~shape[i].notnull
AsRead(row) ==
  [i \in DOMAIN shape |-> IF i <= Len(row.vals) THEN row.vals[i] ELSE NULL]

\* cql_cursor_from_bytes "is the inverse of cql_cursor_to_bytebuf": a row,
\* from its blob or from a stream, is read back as it was written whenever
\* the reader's shape allows, whatever the cursor held before.
ReadsBackWhatWasWritten ==
  (in.phase \in {"ok", "error"} /\ in.whole) =>
    /\ in.phase = "ok" <=> Readable(rows[in.row])
    /\ in.phase = "ok" => cursor.fields = AsRead(rows[in.row])

\* A blob that was cut short is refused, or what was cut off is of no
\* interest to the reader; it is never read as other values.
PrefixIsNeverMisread ==
  (in.phase = "ok" /\ ~in.whole) =>
    /\ Readable(rows[in.row])
    /\ cursor.fields = AsRead(rows[in.row])

\* The strings and blobs made by reading are those in the cursor, also when
\* a read fails half way or follows another: none leaks, none is released
\* while the cursor has it, and a cursor without a row keeps none.
CursorReferencesBalance ==
  /\ refs = RefsIn(cursor.fields)
  /\ (~cursor.has_row /\ in.phase # "fields") => refs = 0

\* Every index of a stream gives the blob that was put there, and no other
\* index gives anything.
StreamIsItsBlobs ==
  LET blobs == [r \in DOMAIN rows |-> rows[r].blob]
  IN \A index \in -1..(Len(rows) + 1) :
       LET slice == StreamSlice(StreamOf(blobs), index)
       IN IF index \in 0..(Len(rows) - 1)
          THEN slice.ok /\ slice.val = blobs[index + 1]
          ELSE ~slice.ok
=============================================================================
