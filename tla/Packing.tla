------------------------------ MODULE Packing ------------------------------
(***************************************************************************)
(* The packing library of the USB stack: structures whose fields lie at    *)
(* any bits of any bytes, the placement of the fields that the derive      *)
(* macro computes, and the shifts between the bytes of a field and the     *)
(* bytes of its value.  A byte is a number below 256, bit 7 its highest.   *)
(***************************************************************************)
EXTENDS Integers, SequencesExt

Low(x, S) == x % 2^(S + 1)
Shr(x, n) == x \div 2^n
Shl(x, n) == (x * 2^n) % 256

\* Bitwise or of two bytes.
Bit(x, k) == (x \div 2^k) % 2
a | b ==
    LET or(k) == IF Bit(a, k) = 1 \/ Bit(b, k) = 1 THEN 2^k ELSE 0
    IN or(0) + or(1) + or(2) + or(3) + or(4) + or(5) + or(6) + or(7)

Smaller(m, n) == IF m < n THEN m ELSE n

-----------------------------------------------------------------------------
(* Big endian.  S is the first bit of the first byte of a field, E the last *)
(* bit of its last byte; the ends of field and value are aligned.           *)

\* The bytes of a field shifted down to bit 0; what is left of its first byte
\* is dropped when the others have no room for more.
ShiftDown(S, E, in, n) ==
    LET m == Len(in)
        shifted(i) == Shr(in[i], E) | (IF i = 1 THEN 0 ELSE Shl(in[i - 1], 8 - E))
        drop == IF m > 1 /\ S < E THEN 1 ELSE 0
    IN [j \in 1..n |-> IF j - n + m > drop THEN shifted(j - n + m) ELSE 0]

\* A plausible slip: the bits of the neighbour in the first byte are kept.
AlignBig_NoMask(S, E, in, n) == ShiftDown(S, E, in, n)

AlignBig(S, E, in, n) == ShiftDown(S, E, [in EXCEPT ![1] = Low(@, S)], n)

\* The bytes of a value shifted to where they are or-ed into n cleared bytes.
RestoreBig(S, E, in, n) ==
    LET first == n - Smaller(Len(in), n) + 1
        src(o) == in[o - n + Len(in)]
        own(o) == IF o >= first THEN Shl(src(o), E) ELSE 0
        over(o) == IF o < n /\ o + 1 >= first THEN Shr(src(o + 1), 8 - E) ELSE 0
        masked == IF E = 0 THEN first ELSE 1
    IN [o \in 1..n |-> IF o = masked THEN Low(own(o) | over(o), S) ELSE own(o) | over(o)]

-----------------------------------------------------------------------------
(* Little endian: the beginnings are aligned, and the last byte is shifted  *)
(* to bit 0 by itself.                                                      *)

AlignLittle(S, E, in, n) ==
    LET m == Len(in)
        used == IF S >= E THEN m ELSE m - 1
        src(i) == IF i = m THEN Shr(in[i], E) ELSE in[i]
        own(i) == IF i = 1 THEN Low(in[1], S) ELSE Shr(src(i), 7 - S)
        next(i) == IF i < m THEN Shl(src(i + 1), S + 1) ELSE 0
    IN IF m = 1
       THEN [j \in 1..n |-> IF j = n THEN Shr(Low(in[1], S), E) ELSE 0]
       ELSE [j \in 1..n |-> IF j <= used THEN own(j) | next(j) ELSE 0]

\* With S = 7 the ends of the two are aligned after all.
RestoreLittle(S, E, in, n) ==
    LET m == Len(in)
        cur(o) == IF o = 1 THEN Low(in[1], S) ELSE IF o <= m THEN Shl(in[o], 7 - S) ELSE 0
        prev(o) == IF o > 1 /\ o - 1 <= m THEN Shr(in[o - 1], S + 1) ELSE 0
        bits(o) == IF S < 7 THEN cur(o) | prev(o)
                   ELSE IF o > n - m THEN in[o - n + m] ELSE 0
        placed(o) == IF o = n THEN Shl(bits(o), E) ELSE bits(o)
    IN [o \in 1..n |-> IF o = 1 THEN Low(placed(o), S) ELSE placed(o)]

Align(endian, S, E, in, n) ==
    IF endian = "big" THEN AlignBig(S, E, in, n) ELSE AlignLittle(S, E, in, n)
Restore(endian, S, E, in, n) ==
    IF endian = "big" THEN RestoreBig(S, E, in, n) ELSE RestoreLittle(S, E, in, n)

-----------------------------------------------------------------------------
(* Types of fields.  The value of a structure within another is its bytes.  *)

Type(kind, bytes) == [kind |-> kind, bytes |-> bytes, values |-> {}]

bool == Type("bool", 1)
u8 == Type("number", 1)
u16 == Type("number", 2)
u32 == Type("number", 4)
Array(n) == Type("array", n)
Nested(n) == Type("struct", n)
Enum(values) ==
    [Type("enum", IF \A v \in values : v < 256 THEN 1 ELSE 2) EXCEPT !.values = values]

\* The width is known of the primitive types only.
Fits(type, width) ==
    CASE type.kind = "bool" -> width <= 1
      [] type.kind = "number" -> width <= 8 * type.bytes
      [] OTHER -> TRUE

\* The number that the digits bytes stand for, the highest first.
Number(bytes) ==
    LET n[k \in 0..Len(bytes)] == IF k = 0 THEN 0 ELSE 256 * n[k - 1] + bytes[k]
    IN n[Len(bytes)]
Digits(n, v) == [k \in 1..n |-> (v \div 256^(n - k)) % 256]

InOrder(endian, bytes) == IF endian = "big" THEN bytes ELSE Reverse(bytes)

ToBytes(endian, type, v) ==
    CASE type.kind = "bool" -> <<IF v THEN 1 ELSE 0>>
      [] type.kind = "struct" -> v
      [] OTHER -> InOrder(endian, Digits(type.bytes, v))

FromBytes(endian, type, bytes) ==
    CASE type.kind = "bool" -> bytes[1] = 1
      [] type.kind = "struct" -> bytes
      [] OTHER -> Number(InOrder(endian, bytes))

-----------------------------------------------------------------------------
(* The derive macro.  A field lies between two bits of the structure, bit 0  *)
(* the highest of the first byte.                                           *)

Pkd(name, type, startBit, endBit, startByte, endByte) ==
    [name |-> name, type |-> type,
     start |-> 8 * startByte + (7 - startBit), end |-> 8 * endByte + (7 - endBit)]

\* The macro goes forward from the end of one field to the start of the next
\* and on to its end; it refuses fields it would have to go back for, and those
\* wider than their type.
Accepts(fields) ==
    \A k \in DOMAIN fields :
        LET f == fields[k]
        IN /\ f.start <= f.end
           /\ k > 1 => fields[k - 1].end <= f.start
           /\ Fits(f.type, f.end - f.start)

Struct(endian, fields) ==
    [endian |-> endian, fields |-> ToSet(fields), accepted |-> Accepts(fields),
     bytes |-> 1 + (fields[Len(fields)].end \div 8)]

FirstByte(f) == (f.start \div 8) + 1
LastByte(f) == (f.end \div 8) + 1
Width(f) == LastByte(f) - FirstByte(f) + 1
StartBit(f) == 7 - (f.start % 8)
EndBit(f) == 7 - (f.end % 8)

Unpacked(s, f, bytes) ==
    LET field == SubSeq(bytes, FirstByte(f), LastByte(f))
    IN IF f.type.kind = "array" THEN field
       ELSE FromBytes(s.endian, f.type,
                      Align(s.endian, StartBit(f), EndBit(f), field, f.type.bytes))

\* from_bytes of an enum fails for a number that is none of its discriminants.
Unpacks(s, bytes) ==
    /\ Len(bytes) >= s.bytes
    /\ \A f \in s.fields : f.type.kind = "enum" => Unpacked(s, f, bytes) \in f.type.values

Field(s, name) == CHOOSE f \in s.fields : f.name = name
Names(s) == {f.name : f \in s.fields}

Unpack(s, bytes) == [name \in Names(s) |-> Unpacked(s, Field(s, name), bytes)]

Packed(s, f, v) ==
    IF f.type.kind = "array" THEN v
    ELSE Restore(s.endian, StartBit(f), EndBit(f), ToBytes(s.endian, f.type, v), Width(f))

Pack(s, value) ==
    LET parts == [f \in s.fields |-> Packed(s, f, value[f.name])]
        at(k) == {f \in s.fields : k \in FirstByte(f)..LastByte(f)}
    IN [k \in 1..s.bytes |->
           FoldSet(LAMBDA f, b : b | parts[f][k - FirstByte(f) + 1], 0, at(k))]
=============================================================================
