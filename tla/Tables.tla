------------------------------- MODULE Tables -------------------------------
(***************************************************************************)
(* The tables in the key-value store (storage/table.rs, storage/encdec):   *)
(* all share one column family of byte strings, ordered lexicographically, *)
(* and every point read, range scan and range deletion relies on how keys  *)
(* are encoded.  Next to the byte strings the module keeps what the tables *)
(* are meant to hold.                                                      *)
(*                                                                         *)
(* A byte has Base values, a number at most MaxDigits of them.  A key is   *)
(* the sequence of its fields; a nested struct is its fields in place.     *)
(***************************************************************************)
EXTENDS Naturals, Sequences, SequencesExt, Folds

CONSTANTS
  Base,       \* 256
  MaxDigits,  \* 16, the bytes of a u128; a u64 has half of them
  Prefix,     \* the bytes before a table's keys: tags and identifiers
  Fields,     \* the types of the fields of a table's keys
  Keys        \* the keys of each table in this instance

Table == {"HashByHeight", "RollbackBuffer", "UtxosByScript", "RuneActivityByTx"}
MaxU64 == Base^(MaxDigits \div 2) - 1
MaxU16 == Base^2 - 1

ASSUME TablesAssumption ==
  /\ Base \in Nat /\ MaxDigits \in 2..(Base - 1)
  /\ DOMAIN Prefix = Table /\ DOMAIN Fields = Table /\ DOMAIN Keys = Table

\* PreviousValue, the value of a RollbackBuffer row; the others have ().
NotPresent == [variant |-> "NotPresent", bytes |-> <<>>]
Unit == [variant |-> "()"]
Value == [variant : {"Present"}, bytes : {<<>>, <<0>>}] \cup {NotPresent}

VARIABLES
  rows,    \* the column family: byte string -> byte string
  tables   \* what the tables are meant to hold: table -> key -> value

vars == <<rows, tables>>

Init == rows = <<>> /\ tables = [t \in Table |-> <<>>]

----------------------------------------------------------------------------
(* encdec: encoding.                                                       *)

BigEndian(v, n) == [i \in 1..n |-> (v \div Base^(n - i)) % Base]

\* The bytes of v without leading zeros.
Digits(v) ==
  CHOOSE n \in 0..MaxDigits : v < Base^n /\ \A m \in 0..(n - 1) : v >= Base^m

\* A faulty variant of EncodeVarUInt: least significant byte first.
EncodeVarUIntReversed(v) == <<Digits(v)>> \o Reverse(BigEndian(v, Digits(v)))

EncodeVarUInt(v) == <<Digits(v)>> \o BigEndian(v, Digits(v))

EncodeVec(s) == EncodeVarUInt(Len(s)) \o s

EncodeField(type, x) ==
  CASE type = "u64"   -> EncodeVarUInt(x)
    [] type = "u16"   -> BigEndian(x, 2)
    [] type = "array" -> x
    [] type = "vec"   -> EncodeVec(x)

\* derive(Encode) on a struct, and a tuple: the fields in order.
EncodeFields(types, xs) ==
  FlattenSeq([i \in 1..Len(xs) |-> EncodeField(types[i], xs[i])])

\* derive(Encode) on an enum: the variant's index, then its fields.
EncodeValue(v) ==
  IF v.variant = "Present" THEN <<0>> \o EncodeVec(v.bytes) ELSE <<1>>

----------------------------------------------------------------------------
(* encdec: decoding.  A result has the value read and the bytes left.      *)

Error == [ok |-> FALSE]
Ok(val, rest) == [ok |-> TRUE, val |-> val, rest |-> rest]

Take(bytes, n) ==
  IF Len(bytes) < n THEN Error
  ELSE Ok(SubSeq(bytes, 1, n), SubSeq(bytes, n + 1, Len(bytes)))

FromBigEndian(digits) == FoldLeft(LAMBDA n, d : n * Base + d, 0, digits)

\* A number of at most max from the bytes taken, or the casting error.
AsNumber(taken, max) ==
  IF ~taken.ok \/ FromBigEndian(taken.val) > max THEN Error
  ELSE Ok(FromBigEndian(taken.val), taken.rest)

DecodeVarUInt(bytes) ==
  IF bytes = <<>> \/ bytes[1] > MaxDigits THEN Error
  ELSE AsNumber(Take(Tail(bytes), bytes[1]), MaxU64)

DecodeVec(bytes) ==
  LET len == DecodeVarUInt(bytes)
  IN  IF len.ok THEN Take(len.rest, len.val) ELSE Error

ArrayLen == 1    \* of the 32 bytes of a hash

DecodeField(type, bytes) ==
  CASE type = "u64"   -> DecodeVarUInt(bytes)
    [] type = "u16"   -> AsNumber(Take(bytes, 2), MaxU16)
    [] type = "array" -> Take(bytes, ArrayLen)
    [] type = "vec"   -> DecodeVec(bytes)

\* derive(Decode) on a struct: field after field, each from the bytes left.
DecodeFields(types, bytes) ==
  LET NextField(read, type) ==
        LET r == IF read.ok THEN DecodeField(type, read.rest) ELSE Error
        IN  IF r.ok THEN Ok(Append(read.val, r.val), r.rest) ELSE Error
  IN  FoldLeft(NextField, Ok(<<>>, bytes), types)

\* derive(Decode) on an enum: the variant by its index, then its fields.
DecodeValue(bytes) ==
  CASE bytes # <<>> /\ bytes[1] = 0 ->
         LET r == DecodeVec(Tail(bytes))
         IN  IF r.ok THEN Ok([variant |-> "Present", bytes |-> r.val], r.rest) ELSE Error
    [] bytes # <<>> /\ bytes[1] = 1 -> Ok(NotPresent, Tail(bytes))
    [] OTHER -> Error

----------------------------------------------------------------------------
(* table: keys and ranges.                                                 *)

EncodeKey(t, key) == Prefix[t] \o EncodeFields(Fields[t], key)

\* A faulty variant of PrefixEnd: the bytes after the incremented one stay.
PrefixEndLong(p) ==
  LET i == CHOOSE i \in 1..Len(p) : p[i] # Base - 1 /\ \A j \in (i+1)..Len(p) : p[j] = Base - 1
  IN  [p EXCEPT ![i] = @ + 1]

\* prefix_key_range: the first byte string after all those with prefix p.  Not
\* all bytes of a prefix are 255: the first is a letter.
PrefixEnd(p) ==
  LET i == CHOOSE i \in 1..Len(p) : p[i] # Base - 1 /\ \A j \in (i+1)..Len(p) : p[j] = Base - 1
  IN  SubSeq([p EXCEPT ![i] = @ + 1], 1, i)

\* encode_range, given the first fields of the bounds; Unbounded is None.
Unbounded == <<>>

EncodeRange(t, from, to) ==
  [start |-> IF from = Unbounded THEN Prefix[t] ELSE EncodeKey(t, from),
   end   |-> IF to = Unbounded THEN PrefixEnd(Prefix[t]) ELSE EncodeKey(t, to)]

\* Byte strings in the order of the store (external: the bytewise comparator).
Before(a, b) ==
  \E i \in 1..Len(b) :
    /\ \A j \in 1..(i - 1) : j <= Len(a) /\ a[j] = b[j]
    /\ i > Len(a) \/ a[i] < b[i]

\* The byte strings of a range that has its start and not its end.
Within(range) ==
  {r \in DOMAIN rows : ~Before(r, range.start) /\ Before(r, range.end)}

----------------------------------------------------------------------------
(* Reads.                                                                  *)

\* decode_all of a value; () has no bytes.
DecodeOf(t, bytes) ==
  IF t = "RollbackBuffer" THEN DecodeValue(bytes) ELSE Ok(Unit, bytes)

\* Reader::get: a set with the value found, if any.
Get(t, key) ==
  {DecodeOf(t, rows[r]) : r \in {EncodeKey(t, key)} \cap DOMAIN rows}

\* TableIterator::next: a row without the table's prefix, decoded.
DecodeRow(t, r) ==
  [key |-> DecodeFields(Fields[t], SubSeq(r, Len(Prefix[t]) + 1, Len(r))),
   value |-> DecodeOf(t, rows[r])]

\* The API routes: all rows of a script, of any height below u64::MAX, and all
\* records of a transaction.
ScriptRange(s) == EncodeRange("UtxosByScript", <<s, 0>>, <<s, MaxU64>>)

\* A faulty variant of ActivityRange: up to the first record only.
ActivityRangeShort(tx) == EncodeRange("RuneActivityByTx", <<tx, 0>>, <<tx, 1>>)

ActivityRange(tx) == EncodeRange("RuneActivityByTx", <<tx, 0>>, <<tx, MaxU16>>)

----------------------------------------------------------------------------
(* Writes.                                                                 *)

Encoded(t, v) == IF t = "RollbackBuffer" THEN EncodeValue(v) ELSE <<>>
Values(t) == IF t = "RollbackBuffer" THEN Value ELSE {Unit}

With(f, k, v) == [x \in DOMAIN f \cup {k} |-> IF x = k THEN v ELSE f[x]]
Without(f, S) == [x \in DOMAIN f \ S |-> f[x]]

\* A record takes the number 65535 only after checked_add failed.
Writable(t, key) == t = "RuneActivityByTx" => key[2] < MaxU16

Put(t, key, v) ==
  /\ Writable(t, key)
  /\ rows' = With(rows, EncodeKey(t, key), Encoded(t, v))
  /\ tables' = [tables EXCEPT ![t] = With(@, key, v)]

Delete(t, key) ==
  /\ key \in DOMAIN tables[t]
  /\ rows' = Without(rows, {EncodeKey(t, key)})
  /\ tables' = [tables EXCEPT ![t] = Without(@, {key})]

\* A faulty variant of GcRange: remove_before itself is removed.
GcRangeInclusive(before) == EncodeRange("RollbackBuffer", Unbounded, <<before + 1>>)

GcRange(before) == EncodeRange("RollbackBuffer", Unbounded, <<before>>)

\* apply_indexing_task: delete_range up to remove_before.
Gc(before) ==
  /\ rows' = Without(rows, Within(GcRange(before)))
  /\ tables' = [tables EXCEPT !["RollbackBuffer"] =
                  Without(@, {key \in DOMAIN @ : key[1] < before})]

Next ==
  \/ \E t \in Table : \E key \in Keys[t] :
       Delete(t, key) \/ \E v \in Values(t) : Put(t, key, v)
  \/ \E key \in Keys["RollbackBuffer"] : Gc(key[1])

Spec == Init /\ [][Next]_vars

----------------------------------------------------------------------------
(* Properties.                                                             *)

\* Keys in the order of their fields, numbers by value, byte strings by length
\* and then bytewise.
FieldBefore(type, x, y) ==
  CASE type \in {"u64", "u16"} -> x < y
    [] type = "array" -> Before(x, y)
    [] type = "vec" -> Len(x) < Len(y) \/ (Len(x) = Len(y) /\ Before(x, y))

KeyBefore(t, k, l) ==
  \E i \in 1..Len(k) : FieldBefore(Fields[t][i], k[i], l[i]) /\ \A j \in 1..(i - 1) : k[j] = l[j]

\* The scan of a range decodes to the given rows of the table, in the order of
\* their fields.
ScanGives(t, range, keys) ==
  LET found == Within(range)
      read  == [r \in found |-> DecodeRow(t, r)]
  IN  /\ \A r \in found : read[r].key.ok /\ read[r].value.ok
      /\ {<<read[r].key.val, read[r].value.val>> : r \in found} =
           {<<key, tables[t][key]>> : key \in keys}
      /\ \A r, q \in found :
           Before(r, q) <=> KeyBefore(t, read[r].key.val, read[q].key.val)

\* A point read gives what its own table holds under that key: no two keys of
\* any tables share a byte string.  A scan of a table without bounds gives its
\* rows, all of them, decoded, in the order of their fields, and no row of
\* another table: the last block, the cursor and the rollback buffer are read
\* this way, and the buffer is truncated by a range (Reader::get, iter_kvs,
\* delete_range_cf).
TableReadsExact ==
  \A t \in Table :
    /\ \A key \in Keys[t] :
         Get(t, key) = {Ok(tables[t][k], <<>>) : k \in {key} \cap DOMAIN tables[t]}
    /\ ScanGives(t, EncodeRange(t, Unbounded, Unbounded), DOMAIN tables[t])

\* A route's scan gives the rows of its script or transaction and of no other,
\* not even of a script that begins with the same bytes, oldest first; the
\* excluded end of the range hides nothing.
RouteScansExact ==
  /\ \A s \in {key[1] : key \in Keys["UtxosByScript"]} :
       ScanGives("UtxosByScript", ScriptRange(s),
                 {key \in DOMAIN tables["UtxosByScript"] : key[1] = s})
  /\ \A tx \in {key[1] : key \in Keys["RuneActivityByTx"]} :
       ScanGives("RuneActivityByTx", ActivityRange(tx),
                 {key \in DOMAIN tables["RuneActivityByTx"] : key[1] = tx})
=============================================================================
