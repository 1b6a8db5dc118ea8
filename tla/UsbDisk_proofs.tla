--------------------------- MODULE UsbDisk_proofs ---------------------------
(***************************************************************************)
(* The USB disk understands its host: the commands that the transport and  *)
(* the SCSI layer act on are those the host means, for every set of        *)
(* commands the standards allow, whatever the sizes of packets, blocks and *)
(* answers, in every state that resets, erases and events of other classes *)
(* lead to.                                                                *)
(*                                                                         *)
(* The first half is about bytes: what the masks and shifts of the packing *)
(* library make of a field, where the fields of the wrapper and of the     *)
(* command blocks lie, and so what Unpack makes of the bytes of a command. *)
(* The second half is about the protocol: at most one command is on its    *)
(* way, and the state of the transport, the bytes it holds, the packets    *)
(* and the host are together in one of four phases.                        *)
(***************************************************************************)
EXTENDS UsbDisk, SequenceTheorems, TLAPS

-----------------------------------------------------------------------------
(* Bytes *)

byte == 0..255

\* Nothing is or-ed into a byte.
LEMMA OrZero ==
    ASSUME NEW x \in byte
    PROVE  x | 0 = x
<1>1. x = (x % 2) + 2 * ((x \div 2) % 2) + 4 * ((x \div 4) % 2) + 8 * ((x \div 8) % 2)
          + 16 * ((x \div 16) % 2) + 32 * ((x \div 32) % 2) + 64 * ((x \div 64) % 2)
          + 128 * ((x \div 128) % 2)
  BY SMT DEF byte
<1>2. /\ Bit(0, 0) = 0 /\ Bit(0, 1) = 0 /\ Bit(0, 2) = 0 /\ Bit(0, 3) = 0
      /\ Bit(0, 4) = 0 /\ Bit(0, 5) = 0 /\ Bit(0, 6) = 0 /\ Bit(0, 7) = 0
  BY SMT DEF Bit
<1>3. /\ Bit(x, 0) = x % 2 /\ Bit(x, 1) = (x \div 2) % 2 /\ Bit(x, 2) = (x \div 4) % 2
      /\ Bit(x, 3) = (x \div 8) % 2 /\ Bit(x, 4) = (x \div 16) % 2
      /\ Bit(x, 5) = (x \div 32) % 2 /\ Bit(x, 6) = (x \div 64) % 2
      /\ Bit(x, 7) = (x \div 128) % 2
  BY SMT DEF Bit, byte
<1>4. /\ 2^0 = 1 /\ 2^1 = 2 /\ 2^2 = 4 /\ 2^3 = 8 /\ 2^4 = 16 /\ 2^5 = 32 /\ 2^6 = 64 /\ 2^7 = 128
  BY SMT
<1>. QED
  BY <1>1, <1>2, <1>3, <1>4, SMT DEF |, byte

\* The number of one to four digits, digit by digit.
LEMMA NumberUnfolds ==
    ASSUME NEW b, Len(b) \in 1..4, \A k \in 1..Len(b) : b[k] \in byte
    PROVE  \E n : /\ Number(b) = n[Len(b)] /\ n[0] = 0
                  /\ n[1] = 256 * n[0] + b[1]
                  /\ Len(b) >= 2 => n[2] = 256 * n[1] + b[2]
                  /\ Len(b) >= 3 => n[3] = 256 * n[2] + b[3]
                  /\ Len(b) >= 4 => n[4] = 256 * n[3] + b[4]
<1>. DEFINE n == CHOOSE f : f = [k \in 0..Len(b) |-> IF k = 0 THEN 0 ELSE 256 * f[k - 1] + b[k]]
            d(k) == IF k <= Len(b) THEN b[k] ELSE 0
            g1 == d(1)
            g2 == 256 * g1 + d(2)
            g3 == 256 * g2 + d(3)
            g4 == 256 * g3 + d(4)
            g == [k \in 0..Len(b) |-> IF k = 0 THEN 0 ELSE IF k = 1 THEN g1
                                      ELSE IF k = 2 THEN g2 ELSE IF k = 3 THEN g3 ELSE g4]
<1>1. g = [k \in 0..Len(b) |-> IF k = 0 THEN 0 ELSE 256 * g[k - 1] + b[k]]
  <2>1. d(1) \in Nat /\ d(2) \in Nat /\ d(3) \in Nat /\ d(4) \in Nat
    <3>1. \A k \in 1..4 : k <= Len(b) => k \in 1..Len(b)
      BY SMT
    <3>. QED
      <4>1. \A x \in byte : x \in Nat
        BY DEF byte
      <4>2. \A k \in 1..4 : k <= Len(b) => b[k] \in Nat
        BY <3>1, <4>1, Zenon
      <4>. QED
        BY <4>2, SMT
  <2>. HIDE DEF d
  <2>2. g1 \in Nat /\ g2 \in Nat /\ g3 \in Nat /\ g4 \in Nat
    BY <2>1, SMT
  <2>. HIDE DEF g1, g2, g3, g4
  <2>3. ASSUME NEW k \in 0..Len(b)
        PROVE  g[k] = IF k = 0 THEN 0 ELSE 256 * g[k - 1] + b[k]
    <3>1. k \in 0..4
      BY SMT
    <3>2. CASE k = 0
      BY <3>2, SMT
    <3>3. CASE k = 1
      <4>1. g[0] = 0 /\ g[1] = g1 /\ g1 = b[1] /\ b[1] \in Nat
        BY <3>3, <2>1, SMT DEF g1, d, byte
      <4>. QED
        BY <3>3, <4>1, SMT
    <3>4. CASE k = 2
      <4>1. g[1] = g1 /\ g[2] = g2 /\ g2 = 256 * g1 + b[2]
        BY <3>4, SMT DEF g2, d
      <4>. QED
        BY <3>4, <4>1, SMT
    <3>5. CASE k = 3
      <4>1. g[2] = g2 /\ g[3] = g3 /\ g3 = 256 * g2 + b[3]
        BY <3>5, SMT DEF g3, d
      <4>. QED
        BY <3>5, <4>1, SMT
    <3>6. CASE k = 4
      <4>1. g[3] = g3 /\ g[4] = g4 /\ g4 = 256 * g3 + b[4]
        BY <3>6, SMT DEF g4, d
      <4>. QED
        BY <3>6, <4>1, SMT
    <3>. QED
      BY <3>1, <3>2, <3>3, <3>4, <3>5, <3>6, SMT
  <2>. HIDE DEF g
  <2>4. DOMAIN g = 0..Len(b) /\ g = [k \in 0..Len(b) |-> g[k]]
    BY DEF g
  <2>. QED
    BY <2>3, <2>4, Zenon
<1>2. n = [k \in 0..Len(b) |-> IF k = 0 THEN 0 ELSE 256 * n[k - 1] + b[k]]
  <2>. HIDE DEF g
  <2>. QED
    BY <1>1, Zenon
<1>3. Number(b) = n[Len(b)]
  BY DEF Number
<1>. HIDE DEF n
<1>4. n[0] = 0
  BY <1>2, SMT
<1>5. \A k \in 1..Len(b) : n[k] = 256 * n[k - 1] + b[k]
  BY <1>2, SMT
<1>6. n[1] = 256 * n[0] + b[1]
  BY <1>5, 1 - 1 = 0, SMT
<1>7. Len(b) >= 2 => n[2] = 256 * n[1] + b[2]
  BY <1>5, 2 - 1 = 1, SMT
<1>8. Len(b) >= 3 => n[3] = 256 * n[2] + b[3]
  BY <1>5, 3 - 1 = 2, SMT
<1>9. Len(b) >= 4 => n[4] = 256 * n[3] + b[4]
  BY <1>5, 4 - 1 = 3, SMT
<1>. QED
  BY <1>3, <1>4, <1>6, <1>7, <1>8, <1>9

LEMMA Numbers ==
    ASSUME NEW b, Len(b) \in 1..4, \A k \in 1..Len(b) : b[k] \in byte
    PROVE  /\ Len(b) = 1 => Number(b) = b[1]
           /\ Len(b) = 2 => Number(b) = 256 * b[1] + b[2]
           /\ Len(b) = 4 => Number(b) = 16777216 * b[1] + 65536 * b[2] + 256 * b[3] + b[4]
<1>1. PICK n : /\ Number(b) = n[Len(b)] /\ n[0] = 0
               /\ n[1] = 256 * n[0] + b[1]
               /\ Len(b) >= 2 => n[2] = 256 * n[1] + b[2]
               /\ Len(b) >= 3 => n[3] = 256 * n[2] + b[3]
               /\ Len(b) >= 4 => n[4] = 256 * n[3] + b[4]
  BY NumberUnfolds
<1>2. /\ b[1] \in Nat /\ (Len(b) >= 2 => b[2] \in Nat)
      /\ (Len(b) >= 4 => b[3] \in Nat /\ b[4] \in Nat)
  <2>1. \A k \in 1..4 : k <= Len(b) => b[k] \in Nat
    <3>1. \A k \in 1..4 : k <= Len(b) => k \in 1..Len(b)
      BY SMT
    <3>2. \A x \in byte : x \in Nat
      BY DEF byte
    <3>. QED
      BY <3>1, <3>2, Zenon
  <2>. QED
    BY <2>1, SMT
<1>3. CASE Len(b) = 1
  BY <1>1, <1>2, <1>3, SMT
<1>4. CASE Len(b) = 2
  BY <1>1, <1>2, <1>4, SMT
<1>5. CASE Len(b) = 4
  <2>1. n[1] = b[1] /\ n[2] = 256 * b[1] + b[2]
    BY <1>1, <1>2, <1>5, SMT
  <2>2. n[3] = 65536 * b[1] + 256 * b[2] + b[3]
    BY <1>1, <1>2, <1>5, <2>1, SMT
  <2>. QED
    BY <1>1, <1>2, <1>5, <2>2, SMT
<1>. QED
  BY <1>3, <1>4, <1>5, SMT

LEMMA ReversedNumber ==
    ASSUME NEW in, NEW r, Len(r) = 4, \A k \in 1..4 : in[k] \in byte,
           r[1] = in[4], r[2] = in[3], r[3] = in[2], r[4] = in[1]
    PROVE  Number(r) = in[1] + 256 * in[2] + 65536 * in[3] + 16777216 * in[4]
<1>1. in[1] \in byte /\ in[2] \in byte /\ in[3] \in byte /\ in[4] \in byte
  OBVIOUS
<1>2. \A k \in 1..Len(r) : r[k] \in byte
  <2>1. \A k \in 1..Len(r) : k \in {1, 2, 3, 4}
    OBVIOUS
  <2>. QED
    BY <1>1, <2>1
<1>3. Number(r) = 16777216 * r[1] + 65536 * r[2] + 256 * r[3] + r[4]
  <2>1. Len(r) \in 1..4
    OBVIOUS
  <2>. QED
    BY <1>2, <2>1, Numbers, SMT
<1>4. in[1] \in Int /\ in[2] \in Int /\ in[3] \in Int /\ in[4] \in Int
  BY <1>1 DEF byte
<1>. QED
  BY <1>3, <1>4, SMT

LEMMA Powers == 2^0 = 1 /\ 2^(4 + 1) = 32 /\ 2^(7 + 1) = 256 /\ 2^8 = 256
BY SMT

LEMMA Shifts ==
    ASSUME NEW x \in byte
    PROVE  /\ Low(x, 7) = x /\ Low(x, 4) = x % 32 /\ x % 32 \in byte
           /\ Shr(x, 0) = x /\ Shl(x, 8) = 0
<1>1. x * 256 % 256 = 0 /\ x % 256 = x /\ x \div 1 = x /\ x % 32 \in byte
  BY SMT DEF byte
<1>. QED
  BY <1>1, Powers, SMT DEF Low, Shr, Shl

\* A field of whole bytes needs no shift.
LEMMA WholeBig ==
    ASSUME NEW in, in \in Seq(byte), Len(in) \in 1..4
    PROVE  /\ AlignBig(7, 0, in, Len(in)) \in Seq(byte)
           /\ AlignBig(7, 0, in, Len(in)) = in
<1>. DEFINE m == Len(in)
            shifted(i) == Shr(in[i], 0) | (IF i = 1 THEN 0 ELSE Shl(in[i - 1], 8 - 0))
<1>1. \A i \in 1..m : in[i] \in byte
  OBVIOUS
<1>2. [in EXCEPT ![1] = Low(@, 7)] = in
  <2>1. Low(in[1], 7) = in[1]
    BY <1>1, Shifts
  <2>. QED
    BY <2>1
<1>3. \A i \in 1..m : shifted(i) = in[i]
  <2>. SUFFICES ASSUME NEW i \in 1..m PROVE shifted(i) = in[i]
    OBVIOUS
  <2>1. Shr(in[i], 0) = in[i] /\ in[i] \in byte
    BY <1>1, Shifts
  <2>2. i # 1 => Shl(in[i - 1], 8 - 0) = 0
    <3>1. i # 1 => i - 1 \in 1..m
      OBVIOUS
    <3>. QED
      BY <1>1, <3>1, Shifts, 8 - 0 = 8
  <2>. QED
    BY <2>1, <2>2, OrZero, Zenon
<1>4. ShiftDown(7, 0, in, m) = in
  <2>. DEFINE drop == IF m > 1 /\ 7 < 0 THEN 1 ELSE 0
  <2>1. ShiftDown(7, 0, in, m) =
          [j \in 1..m |-> IF j - m + m > drop THEN shifted(j - m + m) ELSE 0]
    BY Zenon DEF ShiftDown
  <2>. HIDE DEF shifted
  <2>2. \A j \in 1..m : j - m + m = j /\ j > drop
    OBVIOUS
  <2>3. ShiftDown(7, 0, in, m) = [j \in 1..m |-> in[j]]
    BY <1>3, <2>1, <2>2
  <2>. QED
    BY <2>3
<1>. QED
  BY <1>2, <1>4 DEF AlignBig

\* The address of a short command: five bits of its first byte and two bytes.
LEMMA ShortAddress ==
    ASSUME NEW in, in \in Seq(byte), Len(in) = 3
    PROVE  LET out == AlignBig(4, 0, in, 4)
           IN /\ Len(out) = 4 /\ out[1] = 0 /\ out[2] = in[1] % 32
              /\ out[3] = in[2] /\ out[4] = in[3] /\ \A k \in 1..4 : out[k] \in byte
<1>. DEFINE low == [in EXCEPT ![1] = Low(@, 4)]
            out == AlignBig(4, 0, in, 4)
            shifted(i) == Shr(low[i], 0) | (IF i = 1 THEN 0 ELSE Shl(low[i - 1], 8 - 0))
            drop == IF 3 > 1 /\ 4 < 0 THEN 1 ELSE 0
<1>1. in[1] \in byte /\ in[2] \in byte /\ in[3] \in byte /\ DOMAIN in = 1..3
  <2>1. in \in [1..3 -> byte]
    OBVIOUS
  <2>. QED
    BY <2>1
<1>2. /\ low[1] = in[1] % 32 /\ low[2] = in[2] /\ low[3] = in[3] /\ Len(low) = 3
      /\ low[1] \in byte /\ low[2] \in byte /\ low[3] \in byte
  <2>1. Low(in[1], 4) = in[1] % 32 /\ in[1] % 32 \in byte
    BY <1>1, Shifts
  <2>2. Low(in[1], 4) \in byte
    BY <2>1
  <2>3. low \in [1..3 -> byte] /\ Len(low) = 3
    <3>1. in \in [1..3 -> byte]
      OBVIOUS
    <3>2. low \in [1..3 -> byte]
      BY <2>2, <3>1
    <3>. QED
      BY <3>2
  <2>. QED
    BY <1>1, <2>1, <2>3
<1>3. out = [j \in 1..4 |-> IF j - 4 + 3 > drop THEN shifted(j - 4 + 3) ELSE 0]
  <2>1. out = [j \in 1..4 |->
                 IF j - 4 + Len(low) > (IF Len(low) > 1 /\ 4 < 0 THEN 1 ELSE 0)
                 THEN shifted(j - 4 + Len(low)) ELSE 0]
    BY Zenon DEF AlignBig, ShiftDown
  <2>. HIDE DEF out, shifted
  <2>. QED
    BY <1>2, <2>1, Zenon
<1>. HIDE DEF low, out
<1>4. shifted(1) = low[1] /\ shifted(2) = low[2] /\ shifted(3) = low[3]
  <2>1. 8 - 0 = 8 /\ 2 - 1 = 1 /\ 3 - 1 = 2
    OBVIOUS
  <2>2. /\ Shr(low[1], 0) = low[1] /\ Shr(low[2], 0) = low[2] /\ Shr(low[3], 0) = low[3]
        /\ Shl(low[1], 8) = 0 /\ Shl(low[2], 8) = 0
    BY <1>2, Shifts
  <2>. QED
    BY <1>2, <2>1, <2>2, OrZero
<1>. HIDE DEF shifted
<1>5. out[1] = 0 /\ out[2] = shifted(1) /\ out[3] = shifted(2) /\ out[4] = shifted(3) /\ Len(out) = 4
  BY <1>3
<1>6. 0 \in byte
  BY DEF byte
<1>7. \A k \in 1..4 : k \in {1, 2, 3, 4}
  OBVIOUS
<1>. QED
  BY <1>2, <1>4, <1>5, <1>6, <1>7 DEF out

LEMMA WholeLittle ==
    ASSUME NEW in, in \in Seq(byte), Len(in) \in {1, 4}
    PROVE  AlignLittle(7, 0, in, Len(in)) = in
<1>. DEFINE m == Len(in)
            src(i) == IF i = m THEN Shr(in[i], 0) ELSE in[i]
            own(i) == IF i = 1 THEN Low(in[1], 7) ELSE Shr(src(i), 7 - 7)
            next(i) == IF i < m THEN Shl(src(i + 1), 7 + 1) ELSE 0
<1>1. \A i \in 1..m : in[i] \in byte
  OBVIOUS
<1>2. 7 - 7 = 0 /\ 7 + 1 = 8
  OBVIOUS
<1>3. CASE m = 1
  <2>1. AlignLittle(7, 0, in, m) = [j \in 1..m |-> IF j = m THEN Shr(Low(in[1], 7), 0) ELSE 0]
    BY <1>3, Zenon DEF AlignLittle
  <2>2. Shr(Low(in[1], 7), 0) = in[1]
    BY <1>1, <1>3, Shifts
  <2>. QED
    BY <1>3, <2>1, <2>2
<1>4. CASE m = 4
  <2>1. AlignLittle(7, 0, in, m) =
          [j \in 1..m |-> IF j <= (IF 7 >= 0 THEN m ELSE m - 1) THEN own(j) | next(j) ELSE 0]
    BY <1>4, m # 1, Zenon DEF AlignLittle
  <2>2. \A i \in 1..m : src(i) = in[i]
    BY <1>1, Shifts
  <2>. HIDE DEF src
  <2>3. \A i \in 1..m : own(i) = in[i]
    BY <1>1, <1>2, <1>4, <2>2, Shifts
  <2>4. \A i \in 1..m : next(i) = 0
    BY <1>1, <1>2, <2>2, Shifts
  <2>. HIDE DEF own, next
  <2>5. \A i \in 1..m : own(i) | next(i) = in[i]
    BY <1>1, <2>3, <2>4, OrZero
  <2>6. AlignLittle(7, 0, in, m) = [j \in 1..m |-> in[j]]
    BY <2>1, <2>5
  <2>. QED
    BY <2>6
<1>. QED
  BY <1>3, <1>4

-----------------------------------------------------------------------------
(* Fields *)

\* A field is the one of its name.
LEMMA FieldOf ==
    ASSUME NEW s, NEW f \in s.fields, \A g \in s.fields : g.name = f.name => g = f, NEW bytes
    PROVE  Unpack(s, bytes)[f.name] = Unpacked(s, f, bytes)
<1>1. Field(s, f.name) = f
  <2>1. \E g \in s.fields : g.name = f.name
    OBVIOUS
  <2>. QED
    BY <2>1 DEF Field
<1>2. f.name \in Names(s)
  BY DEF Names
<1>. QED
  BY <1>1, <1>2 DEF Unpack

\* Where a field that ends at the last bit of a byte lies.
Placed(f, name, type, high, i, j) ==
    /\ f.name = name /\ f.type = type
    /\ FirstByte(f) = i + 1 /\ LastByte(f) = j + 1
    /\ StartBit(f) = high /\ EndBit(f) = 0

LEMMA PkdPlace ==
    ASSUME NEW name, NEW type, NEW high \in {4, 7}, NEW i \in Nat, NEW j \in Nat
    PROVE  Placed(Pkd(name, type, high, 0, i, j), name, type, high, i, j)
<1>. DEFINE f == Pkd(name, type, high, 0, i, j)
<1>1. /\ f.name = name /\ f.type = type
      /\ f.start = 8 * i + (7 - high) /\ f.end = 8 * j + (7 - 0)
  BY DEF Pkd
<1>2. /\ (8 * i + (7 - high)) \div 8 = i /\ 7 - ((8 * i + (7 - high)) % 8) = high
      /\ (8 * j + (7 - 0)) \div 8 = j /\ 7 - ((8 * j + (7 - 0)) % 8) = 0
  BY SMT
<1>. HIDE DEF f
<1>3. Placed(f, name, type, high, i, j)
  BY <1>1, <1>2 DEF FirstByte, LastByte, StartBit, EndBit, Placed
<1>. QED
  BY <1>3 DEF f

LEMMA WholePlace ==
    ASSUME NEW name, NEW type, NEW i \in Nat, NEW j \in Nat
    PROVE  Placed(Pkd(name, type, 7, 0, i, j), name, type, 7, i, j)
BY PkdPlace

LEMMA Piece ==
    ASSUME NEW bytes \in Seq(byte), NEW i \in Nat, NEW j \in Nat, i <= j, j + 1 <= Len(bytes)
    PROVE  LET in == SubSeq(bytes, i + 1, j + 1)
           IN /\ in \in Seq(byte) /\ Len(in) = j - i + 1
              /\ \A k \in 1..(j - i + 1) : in[k] = bytes[i + k] /\ in[k] \in byte
<1>. DEFINE in == SubSeq(bytes, i + 1, j + 1)
<1>1. in = [k \in 1..(j - i + 1) |-> bytes[i + k]]
  <2>1. (j + 1) - (i + 1) + 1 = j - i + 1 /\ \A k \in Int : i + 1 + k - 1 = i + k
    OBVIOUS
  <2>2. in = [k \in 1..((j + 1) - (i + 1) + 1) |-> bytes[i + 1 + k - 1]]
    OBVIOUS
  <2>. QED
    BY <2>1
<1>2. \A k \in 1..(j - i + 1) : i + k \in 1..Len(bytes) /\ bytes[i + k] \in byte
  OBVIOUS
<1>. HIDE DEF in
<1>. QED
  BY <1>1, <1>2 DEF in

\* A number of whole bytes.
LEMMA BigField ==
    ASSUME NEW s, s.endian = "big", NEW name, NEW type, type.kind = "number",
           NEW i \in Nat, NEW j \in Nat, type.bytes = j - i + 1, j - i + 1 \in 1..4,
           NEW bytes \in Seq(byte), j + 1 <= Len(bytes)
    PROVE  Unpacked(s, Pkd(name, type, 7, 0, i, j), bytes) = Number(SubSeq(bytes, i + 1, j + 1))
<1>. DEFINE f == Pkd(name, type, 7, 0, i, j)
            in == SubSeq(bytes, i + 1, j + 1)
<1>1. /\ f.type = type /\ FirstByte(f) = i + 1 /\ LastByte(f) = j + 1
      /\ StartBit(f) = 7 /\ EndBit(f) = 0
  BY WholePlace DEF Placed
<1>2. in \in Seq(byte) /\ Len(in) = type.bytes /\ Len(in) \in 1..4
  BY Piece
<1>. HIDE DEF f, in
<1>3. AlignBig(7, 0, in, type.bytes) = in
  BY <1>2, WholeBig
<1>4. Unpacked(s, f, bytes) = FromBytes("big", type, Align("big", 7, 0, in, type.bytes))
  BY <1>1 DEF Unpacked, in
<1>. QED
  BY <1>3, <1>4 DEF FromBytes, Align, InOrder, f, in

LEMMA LittleField ==
    ASSUME NEW s, s.endian = "little", NEW name, NEW type, type.kind \in {"number", "enum"},
           NEW i \in Nat, NEW j \in Nat, type.bytes = j - i + 1, j - i + 1 \in {1, 4},
           NEW bytes \in Seq(byte), j + 1 <= Len(bytes)
    PROVE  Unpacked(s, Pkd(name, type, 7, 0, i, j), bytes)
             = Number(Reverse(SubSeq(bytes, i + 1, j + 1)))
<1>. DEFINE f == Pkd(name, type, 7, 0, i, j)
            in == SubSeq(bytes, i + 1, j + 1)
<1>1. /\ f.type = type /\ FirstByte(f) = i + 1 /\ LastByte(f) = j + 1
      /\ StartBit(f) = 7 /\ EndBit(f) = 0
  BY WholePlace DEF Placed
<1>2. in \in Seq(byte) /\ Len(in) = type.bytes /\ Len(in) \in {1, 4}
  BY Piece
<1>. HIDE DEF f, in
<1>3. AlignLittle(7, 0, in, type.bytes) = in
  BY <1>2, WholeLittle
<1>4. Unpacked(s, f, bytes) = FromBytes("little", type, Align("little", 7, 0, in, type.bytes))
  BY <1>1 DEF Unpacked, in
<1>. QED
  BY <1>3, <1>4 DEF FromBytes, Align, InOrder, f, in

LEMMA LongBig ==
    ASSUME NEW s, s.endian = "big", NEW name, NEW i \in Nat,
           NEW bytes \in Seq(byte), i + 4 <= Len(bytes)
    PROVE  Unpacked(s, Long(name, i), bytes) = Big(bytes, i + 1)
<1>. DEFINE in == SubSeq(bytes, i + 1, i + 3 + 1)
<1>1. u32.kind = "number" /\ u32.bytes = 4
  BY DEF u32, Type
<1>2. i + 3 \in Nat /\ i + 3 - i + 1 = 4 /\ i + 3 + 1 = i + 4 /\ i <= i + 3
  OBVIOUS
<1>3. Unpacked(s, Long(name, i), bytes) = Number(in)
  BY <1>1, <1>2, BigField DEF Long
<1>4. Len(in) = 4 /\ \A k \in 1..4 : in[k] = bytes[i + k] /\ in[k] \in byte
  BY <1>2, Piece
<1>. HIDE DEF in
<1>5. Number(in) = 16777216 * in[1] + 65536 * in[2] + 256 * in[3] + in[4]
  <2>1. Len(in) \in 1..4
    BY <1>4
  <2>. QED
    BY <1>4, <2>1, Numbers, SMT
<1>6. /\ in[1] = bytes[i + 1] /\ in[2] = bytes[i + 1 + 1]
      /\ in[3] = bytes[i + 1 + 2] /\ in[4] = bytes[i + 1 + 3]
  <2>1. i + 1 + 1 = i + 2 /\ i + 1 + 2 = i + 3 /\ i + 1 + 3 = i + 4
    OBVIOUS
  <2>. QED
    BY <1>4, <2>1
<1>. QED
  BY <1>3, <1>5, <1>6, SMT DEF Big

LEMMA WordBig ==
    ASSUME NEW s, s.endian = "big", NEW name, NEW i \in Nat,
           NEW bytes \in Seq(byte), i + 2 <= Len(bytes)
    PROVE  Unpacked(s, Word(name, i), bytes) = 256 * bytes[i + 1] + bytes[i + 2]
<1>. DEFINE in == SubSeq(bytes, i + 1, i + 1 + 1)
<1>1. u16.kind = "number" /\ u16.bytes = 2
  BY DEF u16, Type
<1>2. i + 1 \in Nat /\ i + 1 - i + 1 = 2 /\ i + 1 + 1 = i + 2 /\ i <= i + 1
  OBVIOUS
<1>3. Unpacked(s, Word(name, i), bytes) = Number(in)
  BY <1>1, <1>2, BigField DEF Word
<1>4. Len(in) = 2 /\ \A k \in 1..2 : in[k] = bytes[i + k] /\ in[k] \in byte
  BY <1>2, Piece
<1>. HIDE DEF in
<1>5. Number(in) = 256 * in[1] + in[2]
  <2>1. Len(in) \in 1..4
    BY <1>4
  <2>. QED
    BY <1>4, <2>1, Numbers, SMT
<1>. QED
  BY <1>3, <1>4, <1>5

LEMMA ByteBig ==
    ASSUME NEW s, s.endian = "big", NEW name, NEW i \in Nat,
           NEW bytes \in Seq(byte), i + 1 <= Len(bytes)
    PROVE  Unpacked(s, Byte(name, i), bytes) = bytes[i + 1]
<1>. DEFINE in == SubSeq(bytes, i + 1, i + 1)
<1>1. u8.kind = "number" /\ u8.bytes = 1
  BY DEF u8, Type
<1>2. i - i + 1 = 1
  OBVIOUS
<1>3. Unpacked(s, Byte(name, i), bytes) = Number(in)
  BY <1>1, <1>2, BigField DEF Byte
<1>4. Len(in) = 1 /\ \A k \in 1..1 : in[k] = bytes[i + k] /\ in[k] \in byte
  BY <1>2, Piece
<1>. HIDE DEF in
<1>5. Number(in) = in[1]
  <2>1. Len(in) \in 1..4
    BY <1>4
  <2>. QED
    BY <1>4, <2>1, Numbers, SMT
<1>. QED
  BY <1>3, <1>4, <1>5

LEMMA LongLittle ==
    ASSUME NEW s, s.endian = "little", NEW name, NEW i \in Nat,
           NEW bytes \in Seq(byte), i + 4 <= Len(bytes)
    PROVE  Unpacked(s, Long(name, i), bytes) = HostNumber(bytes, i + 1)
<1>. DEFINE in == SubSeq(bytes, i + 1, i + 3 + 1)
            r == Reverse(in)
<1>1. u32.kind = "number" /\ u32.bytes = 4
  BY DEF u32, Type
<1>2. i + 3 \in Nat /\ i + 3 - i + 1 = 4 /\ i + 3 + 1 = i + 4 /\ i <= i + 3
  OBVIOUS
<1>3. Unpacked(s, Long(name, i), bytes) = Number(r)
  BY <1>1, <1>2, LittleField DEF Long
<1>4. Len(in) = 4 /\ \A k \in 1..4 : in[k] = bytes[i + k] /\ in[k] \in byte
  BY <1>2, Piece
<1>. HIDE DEF in
<1>5. /\ Len(r) = 4 /\ r[1] = in[4] /\ r[2] = in[3] /\ r[3] = in[2] /\ r[4] = in[1]
      /\ \A k \in 1..4 : r[k] \in byte
  <2>1. r = [k \in 1..4 |-> in[(4 - k) + 1]]
    BY <1>4 DEF Reverse
  <2>2. \A k \in 1..4 : (4 - k) + 1 \in 1..4
    OBVIOUS
  <2>. HIDE DEF r
  <2>. QED
    BY <1>4, <2>1, <2>2
<1>. HIDE DEF r
<1>6. Number(r) = HostNumber(in, 1)
  BY <1>5, <1>4, ReversedNumber, SMT DEF HostNumber
<1>7. HostNumber(in, 1) = HostNumber(bytes, i + 1)
  <2>1. /\ in[1] = bytes[i + 1] /\ in[2] = bytes[i + 2]
        /\ in[3] = bytes[i + 3] /\ in[4] = bytes[i + 4]
    BY <1>4
  <2>. QED
    BY <2>1, SMT DEF HostNumber
<1>. QED
  BY <1>3, <1>6, <1>7, SMT

LEMMA ByteLittle ==
    ASSUME NEW s, s.endian = "little", NEW name, NEW type,
           type.kind \in {"number", "enum"}, type.bytes = 1, NEW i \in Nat,
           NEW bytes \in Seq(byte), i + 1 <= Len(bytes)
    PROVE  Unpacked(s, Pkd(name, type, 7, 0, i, i), bytes) = bytes[i + 1]
<1>. DEFINE in == SubSeq(bytes, i + 1, i + 1)
            r == Reverse(in)
<1>1. i - i + 1 = 1
  OBVIOUS
<1>2. Unpacked(s, Pkd(name, type, 7, 0, i, i), bytes) = Number(r)
  BY <1>1, LittleField
<1>3. Len(in) = 1 /\ in[1] = bytes[i + 1] /\ in[1] \in byte
  <2>1. Len(in) = 1 /\ \A k \in 1..1 : in[k] = bytes[i + k] /\ in[k] \in byte
    BY <1>1, Piece
  <2>. QED
    BY <2>1
<1>. HIDE DEF in
<1>4. r = [k \in 1..1 |-> in[(1 - k) + 1]]
  BY <1>3 DEF Reverse
<1>. HIDE DEF r
<1>5. Len(r) = 1 /\ r[1] = in[1] /\ \A k \in 1..1 : r[k] \in byte
  BY <1>3, <1>4
<1>6. Number(r) = r[1]
  BY <1>5, Numbers, SMT
<1>. QED
  BY <1>2, <1>3, <1>5, <1>6

LEMMA NamedField ==
    ASSUME NEW s, NEW f \in s.fields, NEW name, f.name = name,
           \A g \in s.fields : g.name = name => g = f, NEW bytes
    PROVE  Unpack(s, bytes)[name] = Unpacked(s, f, bytes)
BY FieldOf

LEMMA PkdName ==
    ASSUME NEW name, NEW type, NEW a, NEW b, NEW c, NEW d
    PROVE  Pkd(name, type, a, b, c, d).name = name
BY DEF Pkd

LEMMA WrapperFields ==
    /\ CommandBlockWrapper.endian = "little"
    /\ CommandBlockWrapper.fields =
         {Long("signature", 0), Long("tag", 4), Long("data_transfer_length", 8),
          Pkd("direction", Direction, 7, 0, 12, 12), Byte("lun", 13),
          Byte("data_length", 14), Pkd("data", Array(16), 7, 0, 15, 30)}
<1>. DEFINE a == Long("signature", 0)
            b == Long("tag", 4)
            c == Long("data_transfer_length", 8)
            d == Pkd("direction", Direction, 7, 0, 12, 12)
            e == Byte("lun", 13)
            f == Byte("data_length", 14)
            g == Pkd("data", Array(16), 7, 0, 15, 30)
<1>1. CommandBlockWrapper = Struct("little", <<a, b, c, d, e, f, g>>)
  BY Zenon DEF CommandBlockWrapper
<1>. HIDE DEF a, b, c, d, e, f, g
<1>2. ToSet(<<a, b, c, d, e, f, g>>) = {a, b, c, d, e, f, g}
  <2>. DEFINE t == <<a, b, c, d, e, f, g>>
  <2>1. /\ DOMAIN t = 1..7 /\ t[1] = a /\ t[2] = b /\ t[3] = c /\ t[4] = d /\ t[5] = e
        /\ t[6] = f /\ t[7] = g
    OBVIOUS
  <2>. HIDE DEF t
  <2>2. 1..7 = {1, 2, 3, 4, 5, 6, 7}
    OBVIOUS
  <2>3. ToSet(t) = {t[1], t[2], t[3], t[4], t[5], t[6], t[7]}
    BY <2>1, <2>2, Zenon DEF ToSet
  <2>. QED
    BY <2>1, <2>3, Zenon DEF t
<1>. QED
  BY <1>1, <1>2 DEF Struct, a, b, c, d, e, f, g

LEMMA WrapperNames ==
    ASSUME NEW bytes, NEW cbw, cbw = Unpack(CommandBlockWrapper, bytes)
    PROVE  /\ cbw.tag = Unpacked(CommandBlockWrapper, Long("tag", 4), bytes)
           /\ cbw.data_transfer_length =
                Unpacked(CommandBlockWrapper, Long("data_transfer_length", 8), bytes)
           /\ cbw.direction =
                Unpacked(CommandBlockWrapper, Pkd("direction", Direction, 7, 0, 12, 12), bytes)
           /\ cbw.data_length = Unpacked(CommandBlockWrapper, Byte("data_length", 14), bytes)
           /\ cbw.data = Unpacked(CommandBlockWrapper, Pkd("data", Array(16), 7, 0, 15, 30), bytes)
<1>. DEFINE a == Long("signature", 0)
            b == Long("tag", 4)
            c == Long("data_transfer_length", 8)
            d == Pkd("direction", Direction, 7, 0, 12, 12)
            e == Byte("lun", 13)
            f == Byte("data_length", 14)
            g == Pkd("data", Array(16), 7, 0, 15, 30)
            s == CommandBlockWrapper
<1>1. /\ a.name = "signature" /\ b.name = "tag" /\ c.name = "data_transfer_length"
      /\ d.name = "direction" /\ e.name = "lun" /\ f.name = "data_length" /\ g.name = "data"
  BY DEF Long, Byte, Pkd
<1>2. s.fields = {a, b, c, d, e, f, g}
  BY WrapperFields, Zenon
<1>. HIDE DEF a, b, c, d, e, f, g, s
<1>3. /\ b \in s.fields /\ \A x \in s.fields : x.name = "tag" => x = b
      /\ c \in s.fields /\ \A x \in s.fields : x.name = "data_transfer_length" => x = c
      /\ d \in s.fields /\ \A x \in s.fields : x.name = "direction" => x = d
      /\ f \in s.fields /\ \A x \in s.fields : x.name = "data_length" => x = f
      /\ g \in s.fields /\ \A x \in s.fields : x.name = "data" => x = g
  BY <1>1, <1>2
<1>4. cbw["tag"] = Unpacked(s, b, bytes)
  BY <1>1, <1>3, NamedField DEF s
<1>5. cbw["data_transfer_length"] = Unpacked(s, c, bytes)
  BY <1>1, <1>3, NamedField DEF s
<1>6. cbw["direction"] = Unpacked(s, d, bytes)
  BY <1>1, <1>3, NamedField DEF s
<1>7. cbw["data_length"] = Unpacked(s, f, bytes)
  BY <1>1, <1>3, NamedField DEF s
<1>8. cbw["data"] = Unpacked(s, g, bytes)
  BY <1>1, <1>3, NamedField DEF s
<1>. QED
  BY <1>4, <1>5, <1>6, <1>7, <1>8, Zenon DEF b, c, d, f, g, s

-----------------------------------------------------------------------------
(* The bytes of the host *)

Joined(w, s, t, m, n) ==
    /\ w \in Seq(byte) /\ Len(w) = m + n
    /\ \A k \in 1..m : w[k] = s[k]
    /\ \A k \in 1..n : w[m + k] = t[k]

LEMMA Join ==
    ASSUME NEW s \in Seq(byte), NEW t \in Seq(byte)
    PROVE  Joined(s \o t, s, t, Len(s), Len(t))
<1>1. /\ s \o t \in Seq(byte) /\ Len(s \o t) = Len(s) + Len(t)
      /\ \A k \in 1..Len(s) : (s \o t)[k] = s[k]
      /\ \A k \in 1..Len(t) : (s \o t)[Len(s) + k] = t[k]
  BY ConcatProperties
<1>. QED
  BY <1>1 DEF Joined

LEMMA FourDigits ==
    ASSUME NEW v, FourBytes(v)
    PROVE  /\ LittleEndian(4, v) \in Seq(byte) /\ Len(LittleEndian(4, v)) = 4
           /\ v = HostNumber(LittleEndian(4, v), 1)
<1>. DEFINE d == LittleEndian(4, v)
<1>1. /\ 256^(1 - 1) = 1 /\ 256^(2 - 1) = 256 /\ 256^(3 - 1) = 65536
      /\ 256^(4 - 1) = 16777216
  BY SMT
<1>2. d = [k \in 1..4 |-> (v \div 256^(k - 1)) % 256]
  BY DEF LittleEndian
<1>. HIDE DEF d
<1>3. /\ d[1] = (v \div 1) % 256 /\ d[2] = (v \div 256) % 256
      /\ d[3] = (v \div 65536) % 256 /\ d[4] = (v \div 16777216) % 256
  BY <1>1, <1>2, SMT
<1>4. /\ v = ((v \div 1) % 256) + 256 * ((v \div 256) % 256)
             + 65536 * ((v \div 65536) % 256) + 16777216 * ((v \div 16777216) % 256)
      /\ (v \div 1) % 256 \in byte /\ (v \div 256) % 256 \in byte
      /\ (v \div 65536) % 256 \in byte /\ (v \div 16777216) % 256 \in byte
  <2>1. v \in Nat /\ v \div 16777216 \in 0..255
    BY SMT DEF FourBytes
  <2>2. v = ((v \div 1) % 256) + 256 * (v \div 256)
    BY <2>1, SMT
  <2>3. v \div 256 = ((v \div 256) % 256) + 256 * (v \div 65536)
    BY <2>1, SMT
  <2>4. v \div 65536 = ((v \div 65536) % 256) + 256 * (v \div 16777216)
    BY <2>1, SMT
  <2>5. (v \div 16777216) % 256 = v \div 16777216
    BY <2>1, SMT
  <2>6. /\ (v \div 1) % 256 \in byte /\ (v \div 256) % 256 \in byte
        /\ (v \div 65536) % 256 \in byte /\ (v \div 16777216) % 256 \in byte
    <3>1. \A x \in Int : x % 256 \in byte
      BY SMT DEF byte
    <3>2. /\ v \div 1 \in Int /\ v \div 256 \in Int /\ v \div 65536 \in Int
          /\ v \div 16777216 \in Int
      BY <2>1, SMT
    <3>. QED
      BY <3>1, <3>2, SMT
  <2>. QED
    BY <2>1, <2>2, <2>3, <2>4, <2>5, <2>6, SMT
<1>5. d[1] \in byte /\ d[2] \in byte /\ d[3] \in byte /\ d[4] \in byte
  BY <1>3, <1>4, SMT
<1>6. d \in Seq(byte) /\ Len(d) = 4
  <2>1. \A k \in 1..4 : k \in {1, 2, 3, 4}
    OBVIOUS
  <2>2. \A k \in 1..4 : d[k] \in byte
    BY <1>5, <2>1
  <2>3. d = [k \in 1..4 |-> d[k]]
    BY <1>2
  <2>. QED
    BY <2>2, <2>3
<1>7. v = HostNumber(d, 1)
  BY <1>3, <1>4, SMT DEF HostNumber
<1>. QED
  BY <1>6, <1>7, SMT DEF d

\* What the device unpacks from the wrapper of a command.
Cbw(c) == Unpack(CommandBlockWrapper, HostCbw(c))

LEMMA CdbBytes ==
    ASSUME NEW c \in Commands
    PROVE  /\ FourBytes(c.tag) /\ FourBytes(c.len) /\ c.dir \in {"in", "out"}
           /\ c.cdb \in Seq(byte) /\ Len(c.cdb) \in 1..16
BY CommandsAssumption DEF WellFormed, byte

\* The wrapper is 31 bytes, and where its parts lie.
HostBytes(c, w) ==
    /\ w \in Seq(byte) /\ Len(w) = 31
    /\ \A k \in 1..4 : w[4 + k] = LittleEndian(4, c.tag)[k] /\ w[8 + k] = LittleEndian(4, c.len)[k]
    /\ w[13] = (IF c.dir = "in" THEN 128 ELSE 0) /\ w[15] = Len(c.cdb)
    /\ \A k \in 1..Len(c.cdb) : w[15 + k] = c.cdb[k]

LEMMA Triple ==
    ASSUME NEW a \in byte, NEW b \in byte, NEW c \in byte
    PROVE  <<a, b, c>> \in Seq(byte) /\ Len(<<a, b, c>>) = 3
           /\ <<a, b, c>>[1] = a /\ <<a, b, c>>[3] = c
OBVIOUS

LEMMA Zeros ==
    ASSUME NEW m \in Nat
    PROVE  [k \in 1..m |-> 0] \in Seq(byte) /\ Len([k \in 1..m |-> 0]) = m
<1>1. 0 \in byte
  BY DEF byte
<1>. QED
  BY <1>1

LEMMA HostCbwBytes ==
    ASSUME NEW c \in Commands
    PROVE  HostBytes(c, HostCbw(c))
<1>. DEFINE s == <<85, 83, 66, 67>>
            t == LittleEndian(4, c.tag)
            l == LittleEndian(4, c.len)
            x == <<IF c.dir = "in" THEN 128 ELSE 0, 0, Len(c.cdb)>>
            n == Len(c.cdb)
            z == [k \in 1..(16 - n) |-> 0]
            w == HostCbw(c)
<1>1. w = s \o t \o l \o x \o c.cdb \o z
  BY Zenon DEF HostCbw
<1>2. /\ t \in Seq(byte) /\ Len(t) = 4 /\ l \in Seq(byte) /\ Len(l) = 4
      /\ c.cdb \in Seq(byte) /\ n \in 1..16
  BY CdbBytes, FourDigits, SMT
<1>3. s \in Seq(byte) /\ Len(s) = 4
  BY DEF byte
<1>4. x \in Seq(byte) /\ Len(x) = 3 /\ x[1] = (IF c.dir = "in" THEN 128 ELSE 0) /\ x[3] = n
  <2>1. n \in byte /\ 0 \in byte /\ (IF c.dir = "in" THEN 128 ELSE 0) \in byte
    BY <1>2 DEF byte
  <2>. QED
    BY <2>1, Triple, Zenon
<1>5. z \in Seq(byte) /\ Len(z) = 16 - n
  <2>1. 16 - n \in Nat
    <3>1. n \in 1..16
      BY <1>2
    <3>. HIDE DEF n
    <3>. QED
      BY <3>1
  <2>. QED
    BY <2>1, Zeros, Zenon
<1>. DEFINE u == s \o t
            v == u \o l
            y == v \o x
            q == y \o c.cdb
<1>. HIDE DEF s, t, l, x, n, z, w
<1>6. Joined(u, s, t, 4, 4)
  BY <1>2, <1>3, Join
<1>. HIDE DEF u
<1>7. Joined(v, u, l, 8, 4)
  <2>1. u \in Seq(byte) /\ Len(u) = 8
    BY <1>6 DEF Joined
  <2>. QED
    BY <1>2, <2>1, Join
<1>. HIDE DEF v
<1>8. Joined(y, v, x, 12, 3)
  <2>1. v \in Seq(byte) /\ Len(v) = 12
    BY <1>7 DEF Joined
  <2>. QED
    BY <1>4, <2>1, Join
<1>. HIDE DEF y
<1>9. Joined(q, y, c.cdb, 15, n)
  <2>1. y \in Seq(byte) /\ Len(y) = 15
    BY <1>8 DEF Joined
  <2>. QED
    BY <1>2, <2>1, Join DEF n
<1>. HIDE DEF q
<1>10. Joined(w, q, z, 15 + n, 16 - n)
  <2>1. q \in Seq(byte) /\ Len(q) = 15 + n
    BY <1>9 DEF Joined
  <2>2. w = q \o z
    BY <1>1 DEF q, y, v, u
  <2>. QED
    BY <1>5, <2>1, <2>2, Join
<1>a. w \in Seq(byte) /\ Len(w) = 31
  <2>1. 15 + n + (16 - n) = 31
    BY <1>2
  <2>. QED
    BY <1>10, <2>1 DEF Joined
<1>11. \A k \in 1..15 : w[k] = y[k]
  <2>1. \A k \in 1..15 : k \in 1..(15 + n)
    BY <1>2
  <2>. QED
    BY <1>9, <1>10, <2>1 DEF Joined
<1>12. \A k \in 1..n : w[15 + k] = c.cdb[k]
  <2>1. \A k \in 1..n : 15 + k \in 1..(15 + n)
    BY <1>2
  <2>. QED
    BY <1>9, <1>10, <2>1 DEF Joined
<1>13. w[13] = x[1] /\ w[15] = x[3]
  <2>1. 12 + 1 = 13 /\ 12 + 3 = 15 /\ 13 \in 1..15 /\ 15 \in 1..15 /\ 1 \in 1..3 /\ 3 \in 1..3
    OBVIOUS
  <2>. QED
    BY <1>8, <1>11, <2>1 DEF Joined
<1>14. \A k \in 1..12 : w[k] = v[k]
  <2>1. \A k \in 1..12 : k \in 1..15
    OBVIOUS
  <2>. QED
    BY <1>8, <1>11, <2>1 DEF Joined
<1>15. \A k \in 1..4 : w[4 + k] = t[k] /\ w[8 + k] = l[k]
  <2>1. \A k \in 1..4 : 4 + k \in 1..12 /\ 8 + k \in 1..12 /\ 4 + k \in 1..8
    OBVIOUS
  <2>. QED
    BY <1>6, <1>7, <1>14, <2>1 DEF Joined
<1>. QED
  BY <1>4, <1>a, <1>12, <1>13, <1>15 DEF HostBytes, n, t, l, w

LEMMA DirectionType == Direction.kind = "enum" /\ Direction.bytes = 1
<1>1. \A v \in {0, DeviceToHost} : v < 256
  BY DEF DeviceToHost
<1>. QED
  BY <1>1 DEF Direction, Enum, Type

LEMMA DataField ==
    ASSUME NEW bytes \in Seq(byte), Len(bytes) = 31
    PROVE  Unpacked(CommandBlockWrapper, Pkd("data", Array(16), 7, 0, 15, 30), bytes)
             = SubSeq(bytes, 16, 31)
<1>. DEFINE f == Pkd("data", Array(16), 7, 0, 15, 30)
<1>1. f.type.kind = "array" /\ FirstByte(f) = 16 /\ LastByte(f) = 31
  <2>1. f.type = Array(16) /\ FirstByte(f) = 15 + 1 /\ LastByte(f) = 30 + 1
    BY WholePlace DEF Placed
  <2>2. Array(16).kind = "array"
    BY DEF Array, Type
  <2>. QED
    BY <2>1, <2>2
<1>. HIDE DEF f
<1>2. Unpacked(CommandBlockWrapper, f, bytes) = SubSeq(bytes, 16, 31)
  BY <1>1 DEF Unpacked
<1>. QED
  BY <1>2 DEF f

LEMMA WrapperLong ==
    ASSUME NEW name, NEW i \in Nat, NEW bytes \in Seq(byte), i + 4 <= Len(bytes)
    PROVE  Unpacked(CommandBlockWrapper, Long(name, i), bytes) = HostNumber(bytes, i + 1)
<1>. DEFINE s == CommandBlockWrapper
<1>1. s.endian = "little"
  BY WrapperFields, Zenon
<1>. HIDE DEF s
<1>2. Unpacked(s, Long(name, i), bytes) = HostNumber(bytes, i + 1)
  BY <1>1, LongLittle
<1>. QED
  BY <1>2 DEF s

LEMMA WrapperByte ==
    ASSUME NEW name, NEW type, type.kind \in {"number", "enum"}, type.bytes = 1, NEW i \in Nat,
           NEW bytes \in Seq(byte), i + 1 <= Len(bytes)
    PROVE  Unpacked(CommandBlockWrapper, Pkd(name, type, 7, 0, i, i), bytes) = bytes[i + 1]
<1>. DEFINE s == CommandBlockWrapper
<1>1. s.endian = "little"
  BY WrapperFields, Zenon
<1>. HIDE DEF s
<1>2. Unpacked(s, Pkd(name, type, 7, 0, i, i), bytes) = bytes[i + 1]
  BY <1>1, ByteLittle
<1>. QED
  BY <1>2 DEF s

\* What the device takes from the wrapper of a command.
LEMMA Understood ==
    ASSUME NEW c \in Commands
    PROVE  /\ Cbw(c).tag = c.tag /\ Cbw(c).data_transfer_length = c.len
           /\ Cbw(c).direction = (IF c.dir = "in" THEN DeviceToHost ELSE 0)
           /\ Cbw(c).data_length = Len(c.cdb)
           /\ Cbw(c).data \in Seq(byte) /\ Len(Cbw(c).data) = 16
           /\ \A k \in 1..Len(c.cdb) : Cbw(c).data[k] = c.cdb[k]
<1>. DEFINE w == HostCbw(c)
            cbw == Unpack(CommandBlockWrapper, w)
<1>1. HostBytes(c, w)
  BY HostCbwBytes
<1>2. /\ cbw.tag = Unpacked(CommandBlockWrapper, Long("tag", 4), w)
      /\ cbw.data_transfer_length =
           Unpacked(CommandBlockWrapper, Long("data_transfer_length", 8), w)
      /\ cbw.direction =
           Unpacked(CommandBlockWrapper, Pkd("direction", Direction, 7, 0, 12, 12), w)
      /\ cbw.data_length = Unpacked(CommandBlockWrapper, Byte("data_length", 14), w)
      /\ cbw.data = Unpacked(CommandBlockWrapper, Pkd("data", Array(16), 7, 0, 15, 30), w)
  BY WrapperNames
<1>3. Cbw(c) = cbw
  BY DEF Cbw
<1>. HIDE DEF w, cbw
<1>4. w \in Seq(byte) /\ Len(w) = 31
  BY <1>1 DEF HostBytes
<1>5. cbw.tag = c.tag
  <2>1. cbw.tag = HostNumber(w, 4 + 1)
    <3>. DEFINE i == 4
    <3>1. i \in Nat /\ i + 4 <= Len(w) /\ cbw.tag = Unpacked(CommandBlockWrapper, Long("tag", i), w)
      BY <1>2, <1>4
    <3>2. cbw.tag = HostNumber(w, i + 1)
      <4>. HIDE DEF i
      <4>. QED
        BY <1>4, <3>1, WrapperLong
    <3>. QED
      BY <3>2
  <2>2. /\ w[4 + 1] = LittleEndian(4, c.tag)[1] /\ w[4 + 2] = LittleEndian(4, c.tag)[2]
        /\ w[4 + 3] = LittleEndian(4, c.tag)[3] /\ w[4 + 4] = LittleEndian(4, c.tag)[4]
    BY <1>1 DEF HostBytes
  <2>3. HostNumber(w, 4 + 1) = HostNumber(LittleEndian(4, c.tag), 1)
    BY <2>2, SMT DEF HostNumber
  <2>. QED
    BY <2>1, <2>3, CdbBytes, FourDigits
<1>6. cbw.data_transfer_length = c.len
  <2>1. cbw.data_transfer_length = HostNumber(w, 8 + 1)
    <3>. DEFINE i == 8
    <3>1. i \in Nat /\ i + 4 <= Len(w) /\ cbw.data_transfer_length = Unpacked(CommandBlockWrapper, Long("data_transfer_length", i), w)
      BY <1>2, <1>4
    <3>2. cbw.data_transfer_length = HostNumber(w, i + 1)
      <4>. HIDE DEF i
      <4>. QED
        BY <1>4, <3>1, WrapperLong
    <3>. QED
      BY <3>2
  <2>2. /\ w[8 + 1] = LittleEndian(4, c.len)[1] /\ w[8 + 2] = LittleEndian(4, c.len)[2]
        /\ w[8 + 3] = LittleEndian(4, c.len)[3] /\ w[8 + 4] = LittleEndian(4, c.len)[4]
    BY <1>1 DEF HostBytes
  <2>3. HostNumber(w, 8 + 1) = HostNumber(LittleEndian(4, c.len), 1)
    BY <2>2, SMT DEF HostNumber
  <2>. QED
    BY <2>1, <2>3, CdbBytes, FourDigits
<1>7. cbw.direction = (IF c.dir = "in" THEN DeviceToHost ELSE 0)
  <2>1. cbw.direction = w[12 + 1]
    <3>. DEFINE i == 12
    <3>1. /\ cbw.direction = Unpacked(CommandBlockWrapper, Pkd("direction", Direction, 7, 0, i, i), w)
          /\ i \in Nat /\ i + 1 <= Len(w)
      BY <1>2, <1>4
    <3>2. cbw.direction = w[i + 1]
      <4>. DEFINE type == Direction
      <4>1. type.kind \in {"number", "enum"} /\ type.bytes = 1
        BY DirectionType
      <4>2. cbw.direction = Unpacked(CommandBlockWrapper, Pkd("direction", type, 7, 0, i, i), w)
        BY <3>1
      <4>. HIDE DEF i, type
      <4>. QED
        <5>1. i \in Nat /\ i + 1 <= Len(w) /\ w \in Seq(byte)
          BY <1>4, <3>1
        <5>2. Unpacked(CommandBlockWrapper, Pkd("direction", type, 7, 0, i, i), w) = w[i + 1]
          BY <5>1, <4>1, WrapperByte
        <5>. QED
          BY <4>2, <5>2
    <3>. QED
      BY <3>2
  <2>. QED
    BY <1>1, <2>1, 12 + 1 = 13 DEF HostBytes, DeviceToHost
<1>8. cbw.data_length = Len(c.cdb)
  <2>1. u8.kind = "number" /\ u8.bytes = 1
    BY DEF u8, Type
  <2>2. cbw.data_length = w[14 + 1]
    <3>. DEFINE i == 14
                type == u8
    <3>1. cbw.data_length = Unpacked(CommandBlockWrapper, Pkd("data_length", type, 7, 0, i, i), w)
      BY <1>2 DEF Byte
    <3>2. i \in Nat /\ i + 1 <= Len(w) /\ w \in Seq(byte)
      BY <1>4
    <3>3. type.kind \in {"number", "enum"} /\ type.bytes = 1
      BY <2>1
    <3>. HIDE DEF i, type
    <3>4. Unpacked(CommandBlockWrapper, Pkd("data_length", type, 7, 0, i, i), w) = w[i + 1]
      BY <3>2, <3>3, WrapperByte
    <3>5. cbw.data_length = w[i + 1]
      BY <3>1, <3>4
    <3>. QED
      BY <3>5 DEF i
  <2>. QED
    BY <1>1, <2>2, 14 + 1 = 15 DEF HostBytes
<1>9. /\ cbw.data \in Seq(byte) /\ Len(cbw.data) = 16
      /\ \A k \in 1..16 : cbw.data[k] = w[15 + k]
  <2>. DEFINE i == 15
              j == 30
  <2>1. cbw.data = SubSeq(w, i + 1, j + 1)
    <3>1. cbw.data = SubSeq(w, 16, 31)
      BY <1>2, <1>4, DataField, Zenon
    <3>. QED
      BY <3>1, 15 + 1 = 16, 30 + 1 = 31
  <2>2. i \in Nat /\ j \in Nat /\ i <= j /\ j + 1 <= Len(w) /\ j - i + 1 = 16 /\ i = 15
    BY <1>4
  <2>. HIDE DEF i, j
  <2>3. /\ SubSeq(w, i + 1, j + 1) \in Seq(byte)
        /\ Len(SubSeq(w, i + 1, j + 1)) = j - i + 1
        /\ \A k \in 1..(j - i + 1) : SubSeq(w, i + 1, j + 1)[k] = w[i + k]
    BY <1>4, <2>2, Piece
  <2>. QED
    BY <2>1, <2>2, <2>3
<1>10. \A k \in 1..Len(c.cdb) : cbw.data[k] = c.cdb[k]
  <2>1. \A k \in 1..Len(c.cdb) : k \in 1..16
    <3>. DEFINE n == Len(c.cdb)
    <3>1. n \in 1..16
      BY CdbBytes
    <3>. HIDE DEF n
    <3>2. \A k \in 1..n : k \in 1..16
      BY <3>1
    <3>. QED
      BY <3>2 DEF n
  <2>. QED
    BY <1>1, <1>9, <2>1 DEF HostBytes
<1>. QED
  BY <1>3, <1>5, <1>6, <1>7, <1>8, <1>9, <1>10

-----------------------------------------------------------------------------
(* The fields of the command blocks *)

LEMMA ToSetConcat ==
    ASSUME NEW S, NEW s \in Seq(S), NEW t \in Seq(S)
    PROVE  s \o t \in Seq(S) /\ ToSet(s \o t) = ToSet(s) \cup ToSet(t)
<1>1. /\ s \o t \in Seq(S) /\ Len(s \o t) = Len(s) + Len(t)
      /\ \A k \in 1..(Len(s) + Len(t)) :
           (s \o t)[k] = IF k <= Len(s) THEN s[k] ELSE t[k - Len(s)]
  BY ConcatProperties
<1>2. DOMAIN (s \o t) = 1..(Len(s) + Len(t)) /\ DOMAIN s = 1..Len(s) /\ DOMAIN t = 1..Len(t)
  BY <1>1
<1>3. Len(s) \in Nat /\ Len(t) \in Nat
  OBVIOUS
<1>. DEFINE u == s \o t
            m == Len(s)
            n == Len(t)
<1>. HIDE DEF u, m, n
<1>4. /\ DOMAIN u = 1..(m + n) /\ DOMAIN s = 1..m /\ DOMAIN t = 1..n /\ m \in Nat /\ n \in Nat
      /\ \A k \in 1..(m + n) : u[k] = IF k <= m THEN s[k] ELSE t[k - m]
  BY <1>1, <1>2, <1>3 DEF u, m, n
<1>5. ASSUME NEW x \in ToSet(u) PROVE x \in ToSet(s) \cup ToSet(t)
  <2>1. PICK k \in 1..(m + n) : x = u[k]
    BY <1>4 DEF ToSet
  <2>2. CASE k <= m
    BY <1>4, <2>1, <2>2 DEF ToSet
  <2>3. CASE ~(k <= m)
    <3>1. k - m \in 1..n /\ x = t[k - m]
      BY <1>4, <2>1, <2>3
    <3>. QED
      BY <1>4, <3>1 DEF ToSet
  <2>. QED
    BY <2>2, <2>3
<1>6. ASSUME NEW x \in ToSet(s) PROVE x \in ToSet(u)
  <2>1. PICK k \in 1..m : x = s[k]
    BY <1>4 DEF ToSet
  <2>2. k \in 1..(m + n) /\ u[k] = x
    BY <1>4, <2>1
  <2>. QED
    BY <1>4, <2>2 DEF ToSet
<1>7. ASSUME NEW x \in ToSet(t) PROVE x \in ToSet(u)
  <2>1. PICK k \in 1..n : x = t[k]
    BY <1>4 DEF ToSet
  <2>2. m + k \in 1..(m + n) /\ u[m + k] = x
    <3>1. m + k \in 1..(m + n) /\ ~(m + k <= m) /\ m + k - m = k
      BY <1>4
    <3>. QED
      BY <1>4, <2>1, <3>1
  <2>. QED
    BY <1>4, <2>2 DEF ToSet
<1>. QED
  BY <1>1, <1>5, <1>6, <1>7 DEF u

LEMMA OneField ==
    ASSUME NEW a
    PROVE  ToSet(<<a>>) = {a}
BY 1..1 = {1} DEF ToSet

LEMMA TwoFields ==
    ASSUME NEW a, NEW b
    PROVE  ToSet(<<a, b>>) = {a, b}
BY 1..2 = {1, 2} DEF ToSet

LEMMA ThreeFields ==
    ASSUME NEW a, NEW b, NEW c
    PROVE  ToSet(<<a, b, c>>) = {a, b, c}
BY 1..3 = {1, 2, 3} DEF ToSet

LEMMA FourFields ==
    ASSUME NEW a, NEW b, NEW c, NEW d
    PROVE  ToSet(<<a, b, c, d>>) = {a, b, c, d}
BY 1..4 = {1, 2, 3, 4} DEF ToSet

ControlByte(at) == Pkd("control", Nested(Control.bytes), 7, 0, at, at)

LEMMA CdbFields ==
    ASSUME NEW S, NEW fields \in Seq(S), NEW at
    PROVE  /\ Cdb(fields, at).endian = "big"
           /\ Cdb(fields, at).fields
                = {Byte("op_code", 0), ControlByte(at)} \cup ToSet(fields)
<1>. DEFINE a == Byte("op_code", 0)
            z == ControlByte(at)
            T == S \cup {a, z}
            u == <<a>>
            v == <<z>>
            w == u \o fields
<1>1. Cdb(fields, at) = Struct("big", w \o v)
  BY Zenon DEF Cdb, ControlByte
<1>. HIDE DEF a, z
<1>2. u \in Seq(T) /\ fields \in Seq(T) /\ v \in Seq(T)
  OBVIOUS
<1>3. ToSet(u) = {a} /\ ToSet(v) = {z}
  BY OneField
<1>. HIDE DEF T, u, v
<1>4. w \in Seq(T) /\ ToSet(w) = ToSet(u) \cup ToSet(fields)
  BY <1>2, ToSetConcat
<1>. HIDE DEF w
<1>5. ToSet(w \o v) = ToSet(w) \cup ToSet(v)
  BY <1>2, <1>4, ToSetConcat
<1>6. ToSet(w \o v) = {a, z} \cup ToSet(fields)
  BY <1>3, <1>4, <1>5
<1>. QED
  BY <1>1, <1>6 DEF Struct, a, z

LEMMA Read6Fields ==
    /\ Read6Command.endian = "big"
    /\ Read6Command.fields =
         {Byte("op_code", 0), ControlByte(5), Pkd("lba", u32, 4, 0, 1, 3),
          Byte("transfer_length", 4)}
<1>. DEFINE a == Pkd("lba", u32, 4, 0, 1, 3)
            b == Byte("transfer_length", 4)
<1>1. Read6Command = Cdb(<<a, b>>, 5)
  BY DEF Read6Command
<1>. HIDE DEF a, b
<1>2. <<a, b>> \in Seq({a, b}) /\ ToSet(<<a, b>>) = {a, b}
  BY TwoFields
<1>3. /\ Read6Command.endian = "big"
      /\ Read6Command.fields = {Byte("op_code", 0), ControlByte(5)} \cup ToSet(<<a, b>>)
  BY <1>1, <1>2, CdbFields, Zenon
<1>4. /\ Read6Command.endian = "big"
      /\ Read6Command.fields = {Byte("op_code", 0), ControlByte(5), a, b}
  BY <1>2, <1>3, Zenon
<1>. QED
  BY <1>4, Zenon DEF a, b

ProtectionFields(protect) ==
    {Bits(protect, 7, 5, 1), Flag("dpo", 4, 1), Flag("fua", 3, 1), Flag("fua_nv", 1, 1)}

\* The fields of a command block that begins with those of the protection.
LEMMA ProtectedFields ==
    ASSUME NEW protect, NEW x, NEW y, NEW z, NEW at
    PROVE  LET s == Cdb(Protection(protect) \o <<x, y, z>>, at)
           IN /\ s.endian = "big"
              /\ s.fields = {Byte("op_code", 0), ControlByte(at)}
                            \cup (ProtectionFields(protect) \cup {x, y, z})
<1>. DEFINE a == Bits(protect, 7, 5, 1)
            b == Flag("dpo", 4, 1)
            c == Flag("fua", 3, 1)
            d == Flag("fua_nv", 1, 1)
            p == Protection(protect)
            t == <<x, y, z>>
            T == {a, b, c, d, x, y, z}
<1>1. p = <<a, b, c, d>> /\ ProtectionFields(protect) = {a, b, c, d}
  BY Zenon DEF Protection, ProtectionFields
<1>. HIDE DEF a, b, c, d, p
<1>2. ToSet(p) = {a, b, c, d} /\ ToSet(t) = {x, y, z}
  <2>1. ToSet(p) = {a, b, c, d}
    BY <1>1, FourFields
  <2>2. ToSet(t) = {x, y, z}
    BY ThreeFields
  <2>. QED
    BY <2>1, <2>2
<1>3. p \in Seq(T) /\ t \in Seq(T)
  BY <1>1
<1>. HIDE DEF t, T
<1>4. p \o t \in Seq(T) /\ ToSet(p \o t) = ToSet(p) \cup ToSet(t)
  BY <1>3, ToSetConcat
<1>5. /\ Cdb(p \o t, at).endian = "big"
      /\ Cdb(p \o t, at).fields = {Byte("op_code", 0), ControlByte(at)} \cup ToSet(p \o t)
  BY <1>4, CdbFields, Zenon
<1>6. ToSet(p \o t) = ProtectionFields(protect) \cup {x, y, z}
  BY <1>1, <1>2, <1>4, Zenon
<1>. QED
  BY <1>5, <1>6, Zenon DEF p, t

\* A name that one field only has.
Alone(name, f, fields) == f \in fields /\ f.name = name /\ \A g \in fields : g.name = name => g = f

LEMMA AloneField ==
    ASSUME NEW s, NEW f, NEW name, Alone(name, f, s.fields), NEW bytes
    PROVE  Unpack(s, bytes)[name] = Unpacked(s, f, bytes)
BY NamedField DEF Alone

LEMMA ProtectedNames ==
    ASSUME NEW protect \in {"rd_protect", "wr_protect"}, NEW at,
           NEW g \in {Byte("op_code", 0), ControlByte(at)} \cup ProtectionFields(protect)
    PROVE  g.name \notin {"lba", "transfer_length", "group_number"}
BY DEF Byte, ControlByte, ProtectionFields, Bits, Flag, Pkd

LEMMA Transfer10Fields ==
    ASSUME NEW protect \in {"rd_protect", "wr_protect"}
    PROVE  /\ Transfer10(protect).endian = "big"
           /\ Alone("lba", Long("lba", 2), Transfer10(protect).fields)
           /\ Alone("transfer_length", Word("transfer_length", 7), Transfer10(protect).fields)
<1>. DEFINE x == Long("lba", 2)
            y == Bits("group_number", 4, 0, 6)
            z == Word("transfer_length", 7)
            s == Transfer10(protect)
            rest == {Byte("op_code", 0), ControlByte(9)} \cup ProtectionFields(protect)
<1>1. /\ s.endian = "big"
      /\ s.fields = {Byte("op_code", 0), ControlByte(9)}
                    \cup (ProtectionFields(protect) \cup {x, y, z})
  BY ProtectedFields DEF Transfer10
<1>2. x.name = "lba" /\ y.name = "group_number" /\ z.name = "transfer_length"
  BY DEF Long, Bits, Word, Pkd
<1>3. \A g \in rest : g.name # "lba" /\ g.name # "transfer_length"
  BY ProtectedNames
<1>. HIDE DEF x, y, z, s
<1>4. s.fields = rest \cup {x, y, z}
  BY <1>1
<1>. HIDE DEF rest
<1>. QED
  BY <1>1, <1>2, <1>3, <1>4 DEF Alone, x, z, s

LEMMA Transfer12Fields ==
    ASSUME NEW protect \in {"rd_protect", "wr_protect"}
    PROVE  /\ Transfer12(protect).endian = "big"
           /\ Alone("lba", Long("lba", 2), Transfer12(protect).fields)
           /\ Alone("transfer_length", Long("transfer_length", 6), Transfer12(protect).fields)
<1>. DEFINE x == Long("lba", 2)
            y == Long("transfer_length", 6)
            z == Bits("group_number", 4, 0, 10)
            s == Transfer12(protect)
            rest == {Byte("op_code", 0), ControlByte(11)} \cup ProtectionFields(protect)
<1>1. /\ s.endian = "big"
      /\ s.fields = {Byte("op_code", 0), ControlByte(11)}
                    \cup (ProtectionFields(protect) \cup {x, y, z})
  BY ProtectedFields DEF Transfer12
<1>2. x.name = "lba" /\ y.name = "transfer_length" /\ z.name = "group_number"
  BY DEF Long, Bits, Pkd
<1>3. \A g \in rest : g.name # "lba" /\ g.name # "transfer_length"
  BY ProtectedNames
<1>. HIDE DEF x, y, z, s
<1>4. s.fields = rest \cup {x, y, z}
  BY <1>1
<1>. HIDE DEF rest
<1>. QED
  BY <1>1, <1>2, <1>3, <1>4 DEF Alone, x, y, s

LEMMA Read6Alone ==
    /\ Alone("lba", Pkd("lba", u32, 4, 0, 1, 3), Read6Command.fields)
    /\ Alone("transfer_length", Byte("transfer_length", 4), Read6Command.fields)
<1>. DEFINE a == Byte("op_code", 0)
            b == ControlByte(5)
            c == Pkd("lba", u32, 4, 0, 1, 3)
            d == Byte("transfer_length", 4)
<1>1. a.name = "op_code" /\ b.name = "control" /\ c.name = "lba" /\ d.name = "transfer_length"
  BY DEF Byte, ControlByte, Pkd
<1>2. Read6Command.fields = {a, b, c, d}
  BY Read6Fields
<1>. HIDE DEF a, b, c, d
<1>. QED
  BY <1>1, <1>2 DEF Alone, c, d

-----------------------------------------------------------------------------
(* Address and length of a transfer *)

Short(d, first) == 65536 * (d[first] % 32) + 256 * d[first + 1] + d[first + 2]

LEMMA ShortNumber ==
    ASSUME NEW in, NEW out, Len(out) = 4, out[1] = 0, out[2] = in[1] % 32,
           out[3] = in[2], out[4] = in[3], \A k \in 1..4 : out[k] \in byte
    PROVE  Number(out) = Short(in, 1)
<1>1. out[2] \in byte /\ out[3] \in byte /\ out[4] \in byte
  OBVIOUS
<1>2. Number(out) = 16777216 * out[1] + 65536 * out[2] + 256 * out[3] + out[4]
  <2>1. Len(out) \in 1..4
    OBVIOUS
  <2>. QED
    BY <2>1, Numbers, SMT
<1>3. Number(out) = 65536 * out[2] + 256 * out[3] + out[4]
  BY <1>1, <1>2, SMT DEF byte
<1>. QED
  BY <1>3, SMT DEF Short

\* The command block of a wrapper.
Data(d) == d \in Seq(byte) /\ Len(d) = 16

LEMMA Decode6 ==
    ASSUME NEW d, Data(d)
    PROVE  /\ Unpack(Read6Command, d)["lba"] = Short(d, 2)
           /\ Unpack(Read6Command, d)["transfer_length"] = d[5]
<1>. DEFINE f == Pkd("lba", u32, 4, 0, 1, 3)
            g == Byte("transfer_length", 4)
            in == SubSeq(d, 2, 4)
            out == AlignBig(4, 0, in, 4)
            s == Read6Command
<1>1. s.endian = "big" /\ Alone("lba", f, s.fields) /\ Alone("transfer_length", g, s.fields)
  BY Read6Fields, Read6Alone, Zenon
<1>3. FirstByte(f) = 2 /\ LastByte(f) = 4 /\ StartBit(f) = 4 /\ EndBit(f) = 0 /\ f.type = u32
  <2>1. Placed(f, "lba", u32, 4, 1, 3)
    BY PkdPlace
  <2>. QED
    BY <2>1 DEF Placed
<1>4. u32.kind = "number" /\ u32.bytes = 4
  BY DEF u32, Type
<1>5. in \in Seq(byte) /\ Len(in) = 3 /\ in[1] = d[2] /\ in[2] = d[3] /\ in[3] = d[4]
  <2>. DEFINE i == 1
              j == 3
  <2>1. i \in Nat /\ j \in Nat /\ i <= j /\ j + 1 <= Len(d) /\ j - i + 1 = 3
        /\ in = SubSeq(d, i + 1, j + 1) /\ i + 1 = 2 /\ i + 2 = 3 /\ i + 3 = 4
        /\ d \in Seq(byte)
    BY DEF Data
  <2>. HIDE DEF i, j, in
  <2>2. in \in Seq(byte) /\ Len(in) = j - i + 1 /\ \A k \in 1..(j - i + 1) : in[k] = d[i + k]
    BY <2>1, Piece
  <2>. QED
    BY <2>1, <2>2
<1>7. Unpacked(s, g, d) = d[5]
  <2>. DEFINE i == 4
  <2>1. i \in Nat /\ i + 1 <= Len(d) /\ d \in Seq(byte)
    BY DEF Data
  <2>2. Unpacked(s, Byte("transfer_length", i), d) = d[i + 1]
    <3>. HIDE DEF i, s
    <3>. QED
      BY <1>1, <2>1, ByteBig
  <2>. QED
    BY <2>2
<1>. HIDE DEF f, g, in, out, s
<1>8. Unpacked(s, f, d) = FromBytes("big", u32, Align("big", 4, 0, in, 4))
  BY <1>1, <1>3, <1>4, Zenon DEF Unpacked, in
<1>9. Unpacked(s, f, d) = Number(out)
  BY <1>4, <1>8 DEF FromBytes, Align, InOrder, out
<1>10. /\ Len(out) = 4 /\ out[1] = 0 /\ out[2] = in[1] % 32
       /\ out[3] = in[2] /\ out[4] = in[3] /\ \A k \in 1..4 : out[k] \in byte
  BY <1>5, ShortAddress DEF out
<1>11. Number(out) = Short(in, 1)
  BY <1>10, ShortNumber
<1>12. Short(in, 1) = Short(d, 2)
  BY <1>5, SMT DEF Short
<1>13. Unpack(s, d)["lba"] = Unpacked(s, f, d) /\ Unpack(s, d)["transfer_length"] = Unpacked(s, g, d)
  <2>. DEFINE lba == "lba"
              length == "transfer_length"
  <2>1. Alone(lba, f, s.fields) /\ Alone(length, g, s.fields)
    BY <1>1
  <2>2. Unpack(s, d)[lba] = Unpacked(s, f, d) /\ Unpack(s, d)[length] = Unpacked(s, g, d)
    <3>. HIDE DEF lba, length
    <3>. QED
      BY <2>1, AloneField
  <2>. QED
    BY <2>2
<1>. QED
  BY <1>7, <1>9, <1>11, <1>12, <1>13 DEF s

LEMMA DecodeLong ==
    ASSUME NEW s, s.endian = "big", NEW name, NEW i \in Nat, Alone(name, Long(name, i), s.fields),
           NEW d, Data(d), i + 4 <= 16
    PROVE  Unpack(s, d)[name] = Big(d, i + 1)
<1>. DEFINE f == Long(name, i)
<1>1. Unpacked(s, f, d) = Big(d, i + 1)
  BY LongBig DEF Data
<1>2. Unpack(s, d)[name] = Unpacked(s, f, d)
  <2>1. Alone(name, f, s.fields)
    OBVIOUS
  <2>. HIDE DEF f
  <2>. QED
    BY <2>1, AloneField
<1>. QED
  BY <1>1, <1>2

LEMMA DecodeWord ==
    ASSUME NEW s, s.endian = "big", NEW name, NEW i \in Nat, Alone(name, Word(name, i), s.fields),
           NEW d, Data(d), i + 2 <= 16
    PROVE  Unpack(s, d)[name] = 256 * d[i + 1] + d[i + 2]
<1>. DEFINE f == Word(name, i)
<1>1. Unpacked(s, f, d) = 256 * d[i + 1] + d[i + 2]
  <2>1. d \in Seq(byte) /\ i + 2 <= Len(d)
    BY DEF Data
  <2>. QED
    BY <2>1, WordBig
<1>2. Unpack(s, d)[name] = Unpacked(s, f, d)
  <2>1. Alone(name, f, s.fields)
    OBVIOUS
  <2>. HIDE DEF f
  <2>. QED
    BY <2>1, AloneField
<1>. QED
  BY <1>1, <1>2

LEMMA Decode10 ==
    ASSUME NEW protect \in {"rd_protect", "wr_protect"}, NEW d, Data(d)
    PROVE  /\ Unpack(Transfer10(protect), d)["lba"] = Big(d, 3)
           /\ Unpack(Transfer10(protect), d)["transfer_length"] = 256 * d[8] + d[9]
<1>. DEFINE s == Transfer10(protect)
            lba == "lba"
            length == "transfer_length"
            i == 2
            k == 7
<1>1. /\ s.endian = "big" /\ Alone(lba, Long(lba, i), s.fields)
      /\ Alone(length, Word(length, k), s.fields)
  BY Transfer10Fields
<1>2. /\ i \in Nat /\ i + 4 <= 16 /\ i + 1 = 3
      /\ k \in Nat /\ k + 2 <= 16 /\ k + 1 = 8 /\ k + 2 = 9
  OBVIOUS
<1>3. Unpack(s, d)[lba] = Big(d, 3)
  <2>1. Unpack(s, d)[lba] = Big(d, i + 1)
    <3>. HIDE DEF s, lba, length, i, k
    <3>. QED
      BY <1>1, <1>2, DecodeLong
  <2>. QED
    BY <1>2, <2>1
<1>4. Unpack(s, d)[length] = 256 * d[8] + d[9]
  <2>1. Unpack(s, d)[length] = 256 * d[k + 1] + d[k + 2]
    <3>. HIDE DEF s, lba, length, i, k
    <3>. QED
      BY <1>1, <1>2, DecodeWord
  <2>. QED
    BY <1>2, <2>1
<1>. QED
  BY <1>3, <1>4

LEMMA Decode12 ==
    ASSUME NEW protect \in {"rd_protect", "wr_protect"}, NEW d, Data(d)
    PROVE  /\ Unpack(Transfer12(protect), d)["lba"] = Big(d, 3)
           /\ Unpack(Transfer12(protect), d)["transfer_length"] = Big(d, 7)
<1>. DEFINE s == Transfer12(protect)
            lba == "lba"
            length == "transfer_length"
            i == 2
            k == 6
<1>1. /\ s.endian = "big" /\ Alone(lba, Long(lba, i), s.fields)
      /\ Alone(length, Long(length, k), s.fields)
  BY Transfer12Fields
<1>2. i \in Nat /\ i + 4 <= 16 /\ i + 1 = 3 /\ k \in Nat /\ k + 4 <= 16 /\ k + 1 = 7
  OBVIOUS
<1>3. Unpack(s, d)[lba] = Big(d, 3)
  <2>1. Unpack(s, d)[lba] = Big(d, i + 1)
    <3>. HIDE DEF s, lba, length, i, k
    <3>. QED
      BY <1>1, <1>2, DecodeLong
  <2>. QED
    BY <1>2, <2>1
<1>4. Unpack(s, d)[length] = Big(d, 7)
  <2>1. Unpack(s, d)[length] = Big(d, k + 1)
    <3>. HIDE DEF s, lba, length, i, k
    <3>. QED
      BY <1>1, <1>2, DecodeLong
  <2>. QED
    BY <1>2, <2>1
<1>. QED
  BY <1>3, <1>4

-----------------------------------------------------------------------------
(* Op codes *)

Taken == {"Read6", "Read10", "Read12", "ReadCapacity10", "ReadFormatCapacities", "Inquiry",
          "TestUnitReady", "ModeSense6", "ModeSense10", "ModeSelect6", "ModeSelect10",
          "PreventAllowMediumRemoval", "RequestSense", "Write6", "Write10", "Write12", "Format",
          "SendDiagnostic", "ReportLuns", "StartStopUnit", "Verify10", "SynchronizeCache10"}

LEMMA TakenCommands == DOMAIN CommandTable = Taken
BY Zenon DEF CommandTable, Taken

LEMMA TransferEntries ==
    /\ CommandTable["Read6"] = <<"Read", Read6Command>>
    /\ CommandTable["Read10"] = <<"Read", Read10Command>>
    /\ CommandTable["Read12"] = <<"Read", Read12Command>>
    /\ CommandTable["Write6"] = <<"Write", Write6Command>>
    /\ CommandTable["Write10"] = <<"Write", Write10Command>>
    /\ CommandTable["Write12"] = <<"Write", Write12Command>>
BY DEF CommandTable

LEMMA CommandOps ==
    /\ CommandTable["Read6"][1] = "Read" /\ CommandTable["Read10"][1] = "Read"
    /\ CommandTable["Read12"][1] = "Read" /\ CommandTable["ReadCapacity10"][1] = "ReadCapacity"
    /\ CommandTable["ReadFormatCapacities"][1] = "ReadFormatCapacities"
    /\ CommandTable["Inquiry"][1] = "Inquiry"
    /\ CommandTable["TestUnitReady"][1] = "TestUnitReady"
    /\ CommandTable["ModeSense6"][1] = "ModeSense" /\ CommandTable["ModeSense10"][1] = "ModeSense"
    /\ CommandTable["ModeSelect6"][1] = "ModeSelect"
    /\ CommandTable["ModeSelect10"][1] = "ModeSelect"
    /\ CommandTable["PreventAllowMediumRemoval"][1] = "PreventAllowMediumRemoval"
    /\ CommandTable["RequestSense"][1] = "RequestSense"
    /\ CommandTable["Write6"][1] = "Write" /\ CommandTable["Write10"][1] = "Write"
    /\ CommandTable["Write12"][1] = "Write" /\ CommandTable["Format"][1] = "Format"
    /\ CommandTable["SendDiagnostic"][1] = "SendDiagnostic"
    /\ CommandTable["ReportLuns"][1] = "ReportLuns"
    /\ CommandTable["StartStopUnit"][1] = "StartStopUnit"
    /\ CommandTable["Verify10"][1] = "Verify"
    /\ CommandTable["SynchronizeCache10"][1] = "SynchronizeCache"
BY DEF CommandTable

LEMMA TakenCodes ==
    /\ OpCode["Read6"] = 8 /\ OpCode["Read10"] = 40 /\ OpCode["Read12"] = 168
    /\ OpCode["ReadCapacity10"] = 37 /\ OpCode["ReadFormatCapacities"] = 35
    /\ OpCode["Inquiry"] = 18 /\ OpCode["TestUnitReady"] = 0 /\ OpCode["ModeSense6"] = 26
    /\ OpCode["ModeSense10"] = 90 /\ OpCode["ModeSelect6"] = 21 /\ OpCode["ModeSelect10"] = 85
    /\ OpCode["PreventAllowMediumRemoval"] = 30 /\ OpCode["RequestSense"] = 3
    /\ OpCode["Write6"] = 10 /\ OpCode["Write10"] = 42 /\ OpCode["Write12"] = 170
    /\ OpCode["Format"] = 4 /\ OpCode["SendDiagnostic"] = 29 /\ OpCode["ReportLuns"] = 160
    /\ OpCode["StartStopUnit"] = 27 /\ OpCode["Verify10"] = 47
    /\ OpCode["SynchronizeCache10"] = 53
BY SMT DEF OpCode

LEMMA OpsByCode ==
    ASSUME NEW n \in DOMAIN CommandTable, NEW op, op = CommandTable[n][1]
    PROVE  /\ op # "None"
           /\ op \in {"Read", "Write"} => OpCode[n] \in Codes.Read \cup Codes.Write
           /\ \A k \in DOMAIN Codes : OpCode[n] \in Codes[k] => op = k
<1>1. n \in Taken
  BY TakenCommands
<1>2. op # "None"
  BY <1>1, CommandOps, SMT DEF Taken
<1>3. op \in {"Read", "Write"} => OpCode[n] \in {8, 40, 168} \cup {10, 42, 170}
  BY <1>1, CommandOps, TakenCodes, SMT DEF Taken
<1>4. /\ OpCode[n] \in {0} => op = "TestUnitReady"
      /\ OpCode[n] \in {3} => op = "RequestSense"
      /\ OpCode[n] \in {8, 40, 168} => op = "Read"
      /\ OpCode[n] \in {10, 42, 170} => op = "Write"
      /\ OpCode[n] \in {18} => op = "Inquiry"
      /\ OpCode[n] \in {26} => op = "ModeSense"
      /\ OpCode[n] \in {30} => op = "PreventAllowMediumRemoval"
      /\ OpCode[n] \in {35} => op = "ReadFormatCapacities"
      /\ OpCode[n] \in {37} => op = "ReadCapacity"
  BY <1>1, CommandOps, TakenCodes, SMT DEF Taken
<1>5. \A k \in DOMAIN Codes : OpCode[n] \in Codes[k] => op = k
  BY <1>4, SMT DEF Codes
<1>. QED
  BY <1>2, <1>3, <1>5, SMT DEF Codes

LEMMA TransfersByCode ==
    ASSUME NEW n \in DOMAIN CommandTable
    PROVE  /\ OpCode[n] = 8 => n = "Read6"
           /\ OpCode[n] = 40 => n = "Read10"
           /\ OpCode[n] = 168 => n = "Read12"
           /\ OpCode[n] = 10 => n = "Write6"
           /\ OpCode[n] = 42 => n = "Write10"
           /\ OpCode[n] = 170 => n = "Write12"
<1>1. n \in Taken
  BY TakenCommands
<1>. QED
  BY <1>1, TakenCodes, SMT DEF Taken

-----------------------------------------------------------------------------
(* Commands *)

LEMMA FirstIsTaken ==
    ASSUME NEW c \in Commands
    PROVE  Cbw(c).data[1] = c.cdb[1]
<1>. DEFINE m == Len(c.cdb)
<1>1. m \in 1..16
  BY CdbBytes
<1>2. \A k \in 1..m : Cbw(c).data[k] = c.cdb[k]
  BY Understood
<1>. HIDE DEF m
<1>. QED
  BY <1>1, <1>2

\* What the standard says of a read or a write.
LEMMA TransferFormed ==
    ASSUME NEW c \in Commands, c.op \in {"Read", "Write"}
    PROVE  /\ c.cdb[1] \in Codes[c.op] /\ Addresses(c.cdb, c.lba, c.count)
           /\ c.len = c.count * BlockBytes
           /\ c.dir = (IF c.op = "Read" THEN "in" ELSE "out")
BY CommandsAssumption, Zenon DEF WellFormed

LEMMA LastOfConcat ==
    ASSUME NEW S, NEW s \in Seq(S), NEW t \in Seq(S), Len(t) = 1
    PROVE  Len(s \o t) = Len(s) + 1 /\ (s \o t)[Len(s) + 1] = t[1]
<1>1. /\ Len(s \o t) = Len(s) + Len(t)
      /\ \A k \in 1..(Len(s) + Len(t)) :
           (s \o t)[k] = IF k <= Len(s) THEN s[k] ELSE t[k - Len(s)]
  BY ConcatProperties
<1>. DEFINE m == Len(s)
            u == s \o t
<1>2. m \in Nat
  OBVIOUS
<1>3. Len(u) = m + 1 /\ \A k \in 1..(m + 1) : u[k] = IF k <= m THEN s[k] ELSE t[k - m]
  BY <1>1
<1>. HIDE DEF m, u
<1>4. u[m + 1] = t[1]
  BY <1>2, <1>3
<1>. QED
  BY <1>3, <1>4 DEF m, u

\* A structure is as long as its control byte is far.
LEMMA CdbLength ==
    ASSUME NEW S, NEW fields \in Seq(S), NEW at \in Nat
    PROVE  Cdb(fields, at).bytes = at + 1
<1>. DEFINE a == Byte("op_code", 0)
            z == ControlByte(at)
            T == S \cup {a, z}
            u == <<a>>
            v == <<z>>
            w == u \o fields
<1>1. Cdb(fields, at) = Struct("big", w \o v)
  BY Zenon DEF Cdb, ControlByte
<1>2. z.end = 8 * at + 7
  BY DEF ControlByte, Pkd
<1>. HIDE DEF a, z
<1>3. u \in Seq(T) /\ fields \in Seq(T) /\ v \in Seq(T) /\ Len(v) = 1 /\ v[1] = z
  OBVIOUS
<1>. HIDE DEF T, u, v
<1>4. w \in Seq(T)
  BY <1>3
<1>. HIDE DEF w
<1>. DEFINE y == w \o v
<1>5. Len(y) = Len(w) + 1 /\ y[Len(w) + 1] = z
  BY <1>3, <1>4, LastOfConcat
<1>. HIDE DEF y
<1>6. y[Len(y)] = z
  BY <1>5
<1>7. Struct("big", y).bytes = 1 + ((8 * at + 7) \div 8)
  BY <1>2, <1>6, Zenon DEF Struct
<1>. QED
  BY <1>1, <1>7, SMT DEF y

\* The library's MODE SENSE of 10 bytes is a byte too long for one that has them.
LEMMA ModeSense10IsLong == CommandTable["ModeSense10"][2].bytes = 11
<1>. DEFINE fields == <<Flag("long_lba_accepted", 4, 1), Flag("disable_block_descriptors", 3, 1),
                        Pkd("page_control", PageControl, 7, 6, 2, 2), Bits("page_code", 5, 0, 2),
                        Byte("subpage_code", 3), Word("allocation_length", 8)>>
            S == {Flag("long_lba_accepted", 4, 1), Flag("disable_block_descriptors", 3, 1),
                  Pkd("page_control", PageControl, 7, 6, 2, 2), Bits("page_code", 5, 0, 2),
                  Byte("subpage_code", 3), Word("allocation_length", 8)}
<1>1. fields \in Seq(S)
  OBVIOUS
<1>2. CommandTable["ModeSense10"][2] = Cdb(fields, 10)
  BY Zenon DEF CommandTable, ModeSense10Command
<1>. HIDE DEF fields, S
<1>3. Cdb(fields, 10).bytes = 10 + 1
  BY <1>1, CdbLength
<1>. QED
  BY <1>2, <1>3

LEMMA RejectedIsRefused ==
    ASSUME NEW c \in Commands, c.op = "Rejected"
    PROVE  ~ExtractsFromCbw(Cbw(c))
<1>. DEFINE cbw == Cbw(c)
<1>1. \/ c.cdb[1] \notin {OpCode[n] : n \in DOMAIN CommandTable}
      \/ c.cdb[1] = OpCode["ModeSense10"] /\ Len(c.cdb) = 10
  BY CommandsAssumption DEF WellFormed
<1>2. cbw.data_length = Len(c.cdb) /\ cbw.data[1] = c.cdb[1]
  BY Understood, FirstIsTaken
<1>. HIDE DEF cbw
<1>3. ASSUME NEW n \in NameOf(cbw), cbw.data_length >= CommandTable[n][2].bytes
      PROVE  FALSE
  <2>1. n \in DOMAIN CommandTable /\ OpCode[n] = c.cdb[1]
    BY <1>2 DEF NameOf
  <2>2. OpCode[n] = 90 /\ Len(c.cdb) = 10
    BY <1>1, <2>1, TakenCodes
  <2>3. n = "ModeSense10"
    BY <2>1, <2>2, TakenCommands, TakenCodes, SMT DEF Taken
  <2>. DEFINE b == CommandTable[n][2].bytes
              k == cbw.data_length
  <2>4. b = 11 /\ k = 10 /\ k >= b
    BY <1>2, <1>3, <2>2, <2>3, ModeSense10IsLong
  <2>. HIDE DEF b, k
  <2>. QED
    BY <2>4
<1>. QED
  BY <1>3 DEF ExtractsFromCbw, cbw

LEMMA OthersFormed ==
    ASSUME NEW c \in Commands, c.op \notin {"Read", "Write"}
    PROVE  \/ c.op = "Unsupported" /\ c.cdb[1] \notin Codes.Read \cup Codes.Write
           \/ c.op = "Rejected" /\ ~ExtractsFromCbw(Cbw(c))
           \/ c.op \in DOMAIN Codes /\ c.cdb[1] \in Codes[c.op]
<1>1. WellFormed(c)
  BY CommandsAssumption
<1>2. CASE c.op = "Unsupported"
  BY <1>1, <1>2 DEF WellFormed
<1>3. CASE c.op = "Rejected"
  BY <1>3, RejectedIsRefused
<1>4. CASE c.op \notin {"Unsupported", "Rejected"}
  BY <1>1, <1>4 DEF WellFormed
<1>. QED
  BY <1>2, <1>3, <1>4

LEMMA CommandFacts ==
    ASSUME NEW c \in Commands
    PROVE  /\ c.len \in Nat /\ c.dir \in {"in", "out"}
           /\ c.op \in {"Read", "Write"} =>
                /\ c.lba \in Nat /\ c.count \in Nat /\ c.len = c.count * BlockBytes
                /\ c.dir = (IF c.op = "Read" THEN "in" ELSE "out")
<1>1. c.len \in Nat /\ c.dir \in {"in", "out"}
  BY CommandsAssumption, SMT DEF WellFormed, FourBytes
<1>2. ASSUME c.op \in {"Read", "Write"} PROVE c.lba \in Nat /\ c.count \in Nat
  <2>1. Addresses(c.cdb, c.lba, c.count)
    BY <1>2, TransferFormed
  <2>2. \A k \in 1..Len(c.cdb) : c.cdb[k] \in Nat
    <3>1. \A x \in byte : x \in Nat
      BY DEF byte
    <3>2. \A k \in 1..Len(c.cdb) : c.cdb[k] \in byte
      BY CdbBytes
    <3>. QED
      BY <3>1, <3>2
  <2>. DEFINE d == c.cdb
              n == Len(d)
  <2>. HIDE DEF d, n
  <2>3. \A k \in 1..n : d[k] \in Nat
    BY <2>2 DEF d, n
  <2>4. \/ n = 6 /\ c.lba = 65536 * (d[2] % 32) + 256 * d[3] + d[4] /\ c.count = d[5]
        \/ n = 10 /\ c.lba = Big(d, 3) /\ c.count = 256 * d[8] + d[9]
        \/ n = 12 /\ c.lba = Big(d, 3) /\ c.count = Big(d, 7)
    BY <2>1, SMT DEF Addresses, d, n
  <2>5. CASE n = 6
    BY <2>3, <2>4, <2>5, SMT
  <2>6. CASE n = 10
    BY <2>3, <2>4, <2>6, SMT DEF Big
  <2>7. CASE n = 12
    BY <2>3, <2>4, <2>7, SMT DEF Big
  <2>. QED
    BY <2>4, <2>5, <2>6, <2>7, SMT
<1>. QED
  BY <1>1, <1>2, TransferFormed

LEMMA ShortIsTaken ==
    ASSUME NEW d, NEW c \in Commands, Data(d), Len(c.cdb) = 6,
           \A k \in 1..Len(c.cdb) : d[k] = c.cdb[k]
    PROVE  Short(d, 2) = 65536 * (c.cdb[2] % 32) + 256 * c.cdb[3] + c.cdb[4] /\ d[5] = c.cdb[5]
<1>1. d[2] = c.cdb[2] /\ d[3] = c.cdb[3] /\ d[4] = c.cdb[4] /\ d[5] = c.cdb[5]
  <2>1. \A k \in 1..6 : d[k] = c.cdb[k]
    BY Zenon
  <2>. QED
    BY <2>1
<1>. QED
  BY <1>1, SMT DEF Short

\* The fields of a read or a write are those of its op code.
LEMMA TransferExtracted ==
    ASSUME NEW c \in Commands, c.op \in {"Read", "Write"}, NEW d, Data(d),
           \A k \in 1..Len(c.cdb) : d[k] = c.cdb[k],
           NEW n \in DOMAIN CommandTable, OpCode[n] = c.cdb[1]
    PROVE  /\ Unpack(CommandTable[n][2], d)["lba"] = c.lba
           /\ Unpack(CommandTable[n][2], d)["transfer_length"] = c.count
<1>1. Addresses(c.cdb, c.lba, c.count)
  BY TransferFormed
<1>. DEFINE e == c.cdb
            s == CommandTable[n][2]
<1>2. CASE /\ Len(e) = 6 /\ e[1] \in {8, 10}
           /\ c.lba = 65536 * (e[2] % 32) + 256 * e[3] + e[4] /\ c.count = e[5]
  <2>1. s = Read6Command
    <3>1. n \in {"Read6", "Write6"}
      BY <1>2, TransfersByCode
    <3>. QED
      BY <3>1, TransferEntries DEF Write6Command
  <2>2. Unpack(s, d)["lba"] = Short(d, 2) /\ Unpack(s, d)["transfer_length"] = d[5]
    BY <2>1, Decode6
  <2>. QED
    BY <1>2, <2>2, ShortIsTaken, SMT
<1>3. CASE /\ Len(e) = 10 /\ e[1] \in {40, 42}
           /\ c.lba = Big(e, 3) /\ c.count = 256 * e[8] + e[9]
  <2>1. s = Transfer10("rd_protect") \/ s = Transfer10("wr_protect")
    <3>1. n \in {"Read10", "Write10"}
      BY <1>3, TransfersByCode
    <3>. QED
      BY <3>1, TransferEntries DEF Read10Command, Write10Command
  <2>2. Unpack(s, d)["lba"] = Big(d, 3) /\ Unpack(s, d)["transfer_length"] = 256 * d[8] + d[9]
    BY <2>1, Decode10
  <2>3. \A k \in 1..10 : d[k] = e[k]
    BY <1>3, Zenon
  <2>4. d[3] = e[3] /\ d[4] = e[4] /\ d[5] = e[5] /\ d[6] = e[6] /\ d[8] = e[8] /\ d[9] = e[9]
    BY <2>3
  <2>. QED
    BY <1>3, <2>2, <2>4, SMT DEF Big
<1>4. CASE /\ Len(e) = 12 /\ e[1] \in {168, 170}
           /\ c.lba = Big(e, 3) /\ c.count = Big(e, 7)
  <2>1. s = Transfer12("rd_protect") \/ s = Transfer12("wr_protect")
    <3>1. n \in {"Read12", "Write12"}
      BY <1>4, TransfersByCode
    <3>. QED
      BY <3>1, TransferEntries DEF Read12Command, Write12Command
  <2>2. Unpack(s, d)["lba"] = Big(d, 3) /\ Unpack(s, d)["transfer_length"] = Big(d, 7)
    BY <2>1, Decode12
  <2>3. \A k \in 1..12 : d[k] = e[k]
    BY <1>4, Zenon
  <2>4. /\ d[3] = e[3] /\ d[4] = e[4] /\ d[5] = e[5] /\ d[6] = e[6]
        /\ d[7] = e[7] /\ d[8] = e[8] /\ d[9] = e[9] /\ d[10] = e[10]
    BY <2>3
  <2>. QED
    BY <1>4, <2>2, <2>4, SMT DEF Big
<1>. QED
  BY <1>1, <1>2, <1>3, <1>4, SMT DEF Addresses

\* What the device makes of a command it knows.
LEMMA Extracted ==
    ASSUME NEW c \in Commands, ExtractsFromCbw(Cbw(c)),
           NEW e, e = ExtractFromCbw(Cbw(c))
    PROVE  /\ e # None
           /\ e.op = c.op \/ c.op = "Unsupported"
           /\ e.op \in {"Read", "Write"} => e.op = c.op /\ e.lba = c.lba /\ e.count = c.count
<1>. DEFINE cbw == Cbw(c)
            n == CHOOSE k \in NameOf(cbw) : TRUE
            op == CommandTable[n][1]
            f == Unpack(CommandTable[n][2], cbw.data)
<1>1. /\ Data(cbw.data) /\ \A k \in 1..Len(c.cdb) : cbw.data[k] = c.cdb[k]
      /\ cbw.data[1] = c.cdb[1]
  BY Understood, FirstIsTaken DEF Data
<1>2. n \in DOMAIN CommandTable /\ OpCode[n] = c.cdb[1]
  <2>1. \E k : k \in NameOf(cbw)
    BY Zenon DEF ExtractsFromCbw
  <2>2. n \in NameOf(cbw)
    BY <2>1
  <2>. HIDE DEF n, cbw
  <2>. QED
    BY <1>1, <2>2 DEF NameOf
<1>3. e = CASE op \in {"Read", "Write"} ->
                 [None EXCEPT !.op = op, !.lba = f.lba, !.count = f.transfer_length]
            [] op = "ModeSense" ->
                 [None EXCEPT !.op = op,
                              !.current = (n = "ModeSense6" /\ f.page_control = CurrentValues)]
            [] OTHER -> [None EXCEPT !.op = op]
  BY Zenon DEF ExtractFromCbw
<1>. HIDE DEF n, f, op
<1>4. /\ op # "None"
      /\ op \in {"Read", "Write"} => OpCode[n] \in Codes.Read \cup Codes.Write
      /\ \A k \in DOMAIN Codes : OpCode[n] \in Codes[k] => op = k
  BY <1>2, OpsByCode, Zenon DEF op
<1>5. /\ e.op = op
      /\ op \in {"Read", "Write"} => e.lba = f.lba /\ e.count = f.transfer_length
  <2>1. CASE op \in {"Read", "Write"}
    BY <1>3, <2>1 DEF None
  <2>2. CASE op = "ModeSense"
    BY <1>3, <2>2 DEF None
  <2>3. CASE op \notin {"Read", "Write", "ModeSense"}
    BY <1>3, <2>3 DEF None
  <2>. QED
    BY <2>1, <2>2, <2>3
<1>6. e # None
  BY <1>4, <1>5 DEF None
<1>7. CASE c.op \in {"Read", "Write"}
  <2>1. op = c.op
    BY <1>2, <1>4, <1>7, TransferFormed DEF Codes
  <2>2. f.lba = c.lba /\ f.transfer_length = c.count
    BY <1>1, <1>2, <1>7, TransferExtracted DEF f
  <2>. QED
    BY <1>5, <1>6, <1>7, <2>1, <2>2
<1>8. CASE c.op \notin {"Read", "Write"}
  <2>1. CASE c.op = "Unsupported" /\ c.cdb[1] \notin Codes.Read \cup Codes.Write
    BY <1>2, <1>4, <1>5, <1>6, <2>1
  <2>2. CASE c.op \in DOMAIN Codes /\ c.cdb[1] \in Codes[c.op]
    BY <1>2, <1>4, <1>5, <1>6, <1>8, <2>2
  <2>. QED
    BY <1>8, <2>1, <2>2, OthersFormed
<1>. QED
  BY <1>7, <1>8

-----------------------------------------------------------------------------
(* The invariant *)

BotFields == {"state", "cbw", "buf", "di", "residue", "status", "full", "done"}
HostFields == {"st", "cmd", "got", "left", "ok", "tag", "residue", "why", "asked", "erased"}
ScsiFields == {"cmd", "lba", "end", "sense"}

Plain(s) ==
    /\ Len(s) \in Nat /\ s = [k \in 1..Len(s) |-> s[k]]
    /\ \A k \in 1..Len(s) : s[k][1][1] # "csw"

PlainIn(t) == t = <<>> \/ (t = <<t[1]>> /\ Plain(t[1]))

Listening(d, r, s, h) ==
    /\ d.b.state \in {"WaitingForCommand", "NeedToSendStatus"} /\ d.b.buf = <<>>
    /\ d.b.state = "NeedToSendStatus" => d.b.residue = 0
    /\ s.cmd = None
    /\ \/ r = <<>> /\ h.st # "out" /\ (h.st = "idle" => d.tx = <<>>)
       \/ /\ h.cmd \in Commands /\ d.tx = <<>>
          /\ r = << << <<"cbw", HostCbw(h.cmd)>> >> >>
          /\ h.left = h.cmd.len /\ h.st = IF h.cmd.len = 0 THEN "status" ELSE h.cmd.dir

Answering(d, r, s, h) ==
    /\ d.b.state \in {"NeedZlp", "NeedToSendStatus"}
    /\ Len(d.b.buf) = CswBytes /\ d.b.di = 0 /\ d.b.residue = CswBytes
    /\ s.cmd = None /\ r = <<>> /\ h.st \in {"in", "status"} /\ PlainIn(d.tx)

Sending(d, r, s, h) ==
    /\ d.b.state = "SendingDataToHost"
    /\ h.cmd \in Commands /\ h.cmd.dir = "in" /\ d.b.cbw = Cbw(h.cmd)
    /\ r = <<>> /\ h.st \in {"in", "status"}
    /\ PlainIn(d.tx) /\ Plain(d.b.buf)
    /\ d.b.residue \in Nat /\ d.b.di \in 0..Len(d.b.buf)
    /\ d.b.di = Len(d.b.buf) => d.b.buf = <<>>
    /\ \/ s.cmd = None /\ ~d.b.done /\ d.b.buf = <<>> /\ d.tx = <<>> /\ d.b.residue = h.cmd.len
       \/ s.cmd = None /\ d.b.done /\ d.b.buf # <<>> /\ d.b.residue > 0
       \/ /\ s.cmd = ExtractFromCbw(d.b.cbw) /\ ExtractsFromCbw(d.b.cbw)
          /\ s.cmd.op = "Read" /\ ~d.b.done
          /\ s.lba \in Nat /\ s.end \in Nat /\ s.lba <= s.end
          /\ d.b.residue = Len(d.b.buf) - d.b.di + (s.end - s.lba + 1) * BlockBytes

Receiving(d, r, s, h) ==
    /\ d.b.state = "ReceivingDataFromHost"
    /\ h.cmd \in Commands /\ h.cmd.dir = "out" /\ d.b.cbw = Cbw(h.cmd)
    /\ s.cmd = None /\ d.tx = <<>>
    /\ h.left \in Nat /\ h.st = IF h.left = 0 THEN "status" ELSE "out"
    /\ \/ r = <<>> /\ d.b.residue = h.left
       \/ /\ r = <<r[1]>> /\ Len(r[1]) \in Nat \ {0}
          /\ d.b.residue = h.left + Len(r[1])

Phase(d, r, s, h) ==
    \/ Listening(d, r, s, h) \/ Answering(d, r, s, h)
    \/ Sending(d, r, s, h) \/ Receiving(d, r, s, h)

ProtocolInv ==
    /\ DOMAIN bot = BotFields /\ DOMAIN scsi = ScsiFields /\ DOMAIN host = HostFields
    /\ Phase(Device, rx, scsi, host)

LEMMA Sizes ==
    /\ BlockBytes \in Nat \ {0} /\ CswBytes \in Nat \ {0} /\ PacketSize \in Nat \ {0}
    /\ ReplyBytes \in Nat \ {0} /\ CswBytes < PacketSize /\ PacketSize <= BlockBytes
BY DiskAssumption, GeometryAssumption

(* The bytes of answers and packets *)

LEMMA EmptyIsPlain == Plain(<<>>)
BY DEF Plain

LEMMA PlainIsSeq ==
    ASSUME NEW s, Plain(s)
    PROVE  s \in Seq({s[k] : k \in 1..Len(s)})
BY DEF Plain

LEMMA SeqShape ==
    ASSUME NEW S, NEW s \in Seq(S)
    PROVE  s = [k \in 1..Len(s) |-> s[k]] /\ Len(s) \in Nat
OBVIOUS

LEMMA OneIsPlain ==
    ASSUME NEW p, Plain(p)
    PROVE  PlainIn(<<p>>)
BY DEF PlainIn

LEMMA BytesArePlain ==
    ASSUME NEW content, NEW n \in Nat, content[1] # "csw"
    PROVE  Plain(Bytes(content, n)) /\ Len(Bytes(content, n)) = n
<1>1. Bytes(content, n) \in Seq({<<content, k>> : k \in 1..n})
  BY DEF Bytes
<1>2. Len(Bytes(content, n)) = n
  BY <1>1 DEF Bytes
<1>3. \A k \in 1..n : Bytes(content, n)[k] = <<content, k>>
  BY DEF Bytes
<1>. QED
  BY <1>1, <1>2, <1>3 DEF Plain, Bytes

LEMMA PlainConcat ==
    ASSUME NEW s, NEW t, Plain(s), Plain(t)
    PROVE  Plain(s \o t) /\ Len(s \o t) = Len(s) + Len(t)
<1>. DEFINE S == {s[k] : k \in 1..Len(s)} \cup {t[k] : k \in 1..Len(t)}
<1>1. s \in Seq(S) /\ t \in Seq(S) /\ Len(s) \in Nat /\ Len(t) \in Nat
  BY DEF Plain
<1>2. /\ s \o t \in Seq(S) /\ Len(s \o t) = Len(s) + Len(t)
      /\ \A k \in 1..(Len(s) + Len(t)) :
           (s \o t)[k] = IF k <= Len(s) THEN s[k] ELSE t[k - Len(s)]
  BY <1>1, ConcatProperties
<1>3. \A k \in 1..Len(s \o t) : (s \o t)[k][1][1] # "csw"
  BY <1>1, <1>2 DEF Plain
<1>4. s \o t = [k \in 1..Len(s \o t) |-> (s \o t)[k]]
  BY <1>2, SeqShape, Zenon
<1>. QED
  BY <1>1, <1>2, <1>3, <1>4 DEF Plain

LEMMA PlainSubSeq ==
    ASSUME NEW s, Plain(s), NEW m \in Nat, NEW n \in Nat, m + n <= Len(s)
    PROVE  Plain(SubSeq(s, m + 1, m + n)) /\ Len(SubSeq(s, m + 1, m + n)) = n
<1>. DEFINE S == {s[k] : k \in 1..Len(s)}
            u == SubSeq(s, m + 1, m + n)
<1>1. s \in Seq(S) /\ Len(s) \in Nat
  BY DEF Plain
<1>2. u = [k \in 1..n |-> s[m + k]]
  BY <1>1, m + n - (m + 1) + 1 = n
<1>3. /\ \A k \in 1..n : m + k \in 1..Len(s) /\ u[k] = s[m + k] /\ u[k] \in S
      /\ u \in Seq(S) /\ Len(u) = n
  BY <1>1, <1>2
<1>. QED
  BY <1>2, <1>3, SeqShape DEF Plain

LEMMA PlainIsNoCsw ==
    ASSUME NEW p, Plain(p)
    PROVE  ~IsCsw(p)
BY Sizes DEF Plain, IsCsw

\* No sector of the volume looks like a status.
LEMMA SectorsArePlain ==
    ASSUME NEW f, NEW hint, NEW lba
    PROVE  EmfatRead(f, hint, lba).data[1] # "csw"
<1>1. ReadMbrSector(f)[1] # "csw" /\ ReadBootSector(f)[1] # "csw" /\ ReadFsinfoSector(f)[1] # "csw"
  BY DEF ReadMbrSector, ReadBootSector, ReadFsinfoSector
<1>2. \A i : ReadFatSector(f, hint, i).data[1] # "csw"
  BY DEF ReadFatSector
<1>3. \A i : FillDirSector(f, i)[1] # "csw"
  BY DEF FillDirSector
<1>4. \A i, o : FileSector(f, i, o)[1] # "csw"
  BY DEF FileSector
<1>5. \A r : ReadDataSector(f, hint, r).data[1] # "csw"
  BY <1>3, <1>4 DEF ReadDataSector
<1>. QED
  BY <1>1, <1>2, <1>5 DEF EmfatRead

LEMMA BlocksArePlain ==
    ASSUME NEW lba
    PROVE  Plain(ReadBlock(lba).data) /\ Len(ReadBlock(lba).data) = BlockBytes
<1>1. <<"stale">>[1] # "csw"
  OBVIOUS
<1>2. Plain(Junk) /\ Len(Junk) = BlockBytes
  BY <1>1, Sizes, BytesArePlain DEF Junk
<1>3. LET r == EmfatRead(fs, last, lba)
      IN Plain(Bytes(r.data, BlockBytes)) /\ Len(Bytes(r.data, BlockBytes)) = BlockBytes
  BY Sizes, SectorsArePlain, BytesArePlain
<1>. QED
  BY <1>2, <1>3 DEF ReadBlock

LEMMA RepliesArePlain ==
    ASSUME NEW op
    PROVE  Plain(Reply(op)) /\ Len(Reply(op)) = ReplyBytes
<1>1. \A x : <<"reply", x>>[1] # "csw"
  OBVIOUS
<1>. QED
  BY <1>1, Sizes, BytesArePlain DEF Reply

-----------------------------------------------------------------------------
(* The transport *)

IsDevice(d) == DOMAIN d = {"b", "tx"} /\ DOMAIN d.b = BotFields

LEMMA BlocksLeft ==
    ASSUME NEW lba \in Nat, NEW end \in Nat, lba <= end
    PROVE  (end - lba + 1) * BlockBytes \in Nat \ {0}
<1>1. end - lba + 1 \in Nat \ {0}
  OBVIOUS
<1>2. \A x, y \in Nat \ {0} : x * y \in Nat \ {0}
  OBVIOUS
<1>. QED
  BY <1>1, <1>2, Sizes

\* A packet of a queued answer is a piece of it that is not empty, and what is
\* forgotten of the answer is all of it or the piece.
Sends(d, f, n) ==
    /\ n \in 1..PacketSize /\ n <= Len(d.b.buf) - d.b.di /\ n <= d.b.residue
    /\ n \in {Len(d.b.buf) - d.b.di, d.b.residue, PacketSize}
    /\ f.tx = <<SubSeq(d.b.buf, d.b.di + 1, d.b.di + n)>>
    /\ f.b.state = d.b.state /\ f.b.cbw = d.b.cbw /\ f.b.done = d.b.done
    /\ f.b.residue = d.b.residue - n
    /\ \/ /\ d.b.di + n = Len(d.b.buf) \/ d.b.residue = n
          /\ f.b.buf = <<>> /\ f.b.di = 0
       \/ /\ d.b.di + n # Len(d.b.buf) /\ d.b.residue # n
          /\ f.b.buf = d.b.buf /\ f.b.di = d.b.di + n

LEMMA FlushSends ==
    ASSUME NEW d, IsDevice(d), Queued(d.b), d.tx = <<>>,
           Len(d.b.buf) \in Nat, d.b.di \in Nat, d.b.residue \in Nat
    PROVE  IsDevice(Flush(d)) /\ \E n : Sends(d, Flush(d), n)
<1>. DEFINE b == d.b
            Ok(n) == n <= Len(b.buf) - b.di /\ n <= b.residue /\ n <= PacketSize
            S == {Len(b.buf) - b.di, b.residue, PacketSize}
            len == CHOOSE n \in S : Ok(n)
            empty == b.di + len = Len(b.buf) \/ b.residue = len
            g == [b EXCEPT !.full = (len = PacketSize),
                           !.residue = @ - len,
                           !.buf = IF empty THEN <<>> ELSE @,
                           !.di = IF empty THEN 0 ELSE @ + len]
<1>1. len \in S /\ Ok(len)
  <2>1. \E n \in S : Ok(n)
    BY Sizes DEF Queued
  <2>. HIDE DEF S, Ok
  <2>. QED
    BY <2>1
<1>2. Flush(d) = [tx |-> <<SubSeq(b.buf, b.di + 1, b.di + len)>>, b |-> g]
  BY Zenon DEF Flush, WouldBlock
<1>. HIDE DEF len
<1>3. len \in 1..PacketSize
  BY <1>1, Sizes DEF Queued
<1>4. DOMAIN b = BotFields
  BY DEF IsDevice
<1>5. /\ DOMAIN g = BotFields
      /\ g.state = b.state /\ g.cbw = b.cbw /\ g.done = b.done /\ g.residue = b.residue - len
      /\ g.buf = (IF empty THEN <<>> ELSE b.buf) /\ g.di = (IF empty THEN 0 ELSE b.di + len)
  BY <1>4 DEF BotFields
<1>. HIDE DEF g
<1>6. Flush(d).b = g /\ Flush(d).tx = <<SubSeq(b.buf, b.di + 1, b.di + len)>> /\ IsDevice(Flush(d))
  BY <1>2, <1>5 DEF IsDevice
<1>. HIDE DEF Flush
<1>7. Sends(d, Flush(d), len)
  BY <1>1, <1>3, <1>5, <1>6 DEF Sends
<1>. QED
  BY <1>6, <1>7

\* When the data is over the status goes out at once or waits its turn.
LEMMA EndOfTransfer ==
    ASSUME NEW d, IsDevice(d), PlainIn(d.tx),
           NEW s, s.cmd = None, NEW h, h.st \in {"in", "status"}
    PROVE  LET e == EndDataTransfer(d)
           IN /\ IsDevice(e)
              /\ Listening(e, <<>>, s, h) \/ Answering(e, <<>>, s, h)
<1>. DEFINE b == PackCsw(d.b)
            z == [d EXCEPT !.b = [b EXCEPT !.state = "NeedZlp"]]
            n == [d EXCEPT !.b = [b EXCEPT !.state = "NeedToSendStatus"]]
            e == EndDataTransfer(d)
<1>1. /\ DOMAIN b = BotFields /\ b.state = d.b.state /\ b.di = 0 /\ b.residue = CswBytes
      /\ Len(b.buf) = CswBytes
  <2>1. Len(Bytes(<<"csw", Csw(d.b)>>, CswBytes)) = CswBytes
    BY Sizes DEF Bytes
  <2>. QED
    BY <2>1 DEF PackCsw, IsDevice, BotFields
<1>2. /\ IsDevice(z) /\ z.tx = d.tx /\ z.b.state = "NeedZlp"
      /\ z.b.buf = b.buf /\ z.b.di = 0 /\ z.b.residue = CswBytes
      /\ IsDevice(n) /\ n.tx = d.tx /\ n.b.state = "NeedToSendStatus"
      /\ n.b.buf = b.buf /\ n.b.di = 0 /\ n.b.residue = CswBytes
  BY <1>1 DEF IsDevice, BotFields
<1>3. e = IF NeedsZlp(b) THEN SendZlp(z) ELSE Flush(n)
  BY DEF EndDataTransfer
<1>. HIDE DEF b, z, n, e
<1>4. CASE NeedsZlp(b)
  <2>1. e = SendZlp(z)
    BY <1>3, <1>4
  <2>2. CASE z.tx = <<>>
    <3>1. e = [tx |-> << <<>> >>, b |-> [z.b EXCEPT !.state = "NeedToSendStatus"]]
      BY <2>1, <2>2 DEF SendZlp, WouldBlock
    <3>2. IsDevice(e) /\ Answering(e, <<>>, s, h)
      <4>1. PlainIn(<< <<>> >>)
        BY EmptyIsPlain DEF PlainIn
      <4>. QED
        BY <3>1, <1>1, <1>2, <4>1 DEF IsDevice, BotFields, Answering
    <3>. QED
      BY <3>2 DEF e
  <2>3. CASE z.tx # <<>>
    <3>1. e = z
      BY <2>1, <2>3 DEF SendZlp, WouldBlock
    <3>. QED
      BY <3>1, <1>1, <1>2 DEF Answering, e
  <2>. QED
    BY <2>2, <2>3
<1>5. CASE ~NeedsZlp(b)
  <2>1. e = Flush(n)
    BY <1>3, <1>5
  <2>2. CASE n.tx = <<>>
    <3>1. Queued(n.b)
      BY <1>1, <1>2, Sizes DEF Queued
    <3>2. /\ IsDevice(e) /\ e.b.buf = <<>> /\ e.b.residue = 0 /\ e.b.state = "NeedToSendStatus"
      <4>1. IsDevice(e) /\ \E k : Sends(n, e, k)
        BY <2>1, <2>2, <3>1, <1>1, <1>2, FlushSends, Sizes
      <4>. QED
        BY <4>1, <1>1, <1>2, Sizes DEF Sends
    <3>. QED
      BY <3>2 DEF Listening, e
  <2>3. CASE n.tx # <<>>
    <3>1. e = n
      BY <2>1, <2>3 DEF Flush, WouldBlock
    <3>. QED
      BY <3>1, <1>1, <1>2 DEF Answering, e
  <2>. QED
    BY <2>2, <2>3
<1>. QED
  BY <1>4, <1>5

\* A step of the transport that writes keeps the phase it is in or ends it.
LEMMA WriteKeepsPhase ==
    ASSUME NEW d, IsDevice(d), NEW r, NEW s, NEW h, Phase(d, r, s, h)
    PROVE  IsDevice(Write(d)) /\ Phase(Write(d), r, s, h)
<1>1. CASE Listening(d, r, s, h)
  <2>1. CASE d.b.state = "WaitingForCommand"
    <3>1. Write(d) = d
      BY <2>1 DEF Write
    <3>. QED
      BY <3>1
  <2>2. CASE d.b.state = "NeedToSendStatus"
    <3>1. Flush(d) = d
      BY <1>1, <2>2 DEF Flush, Queued, Listening
    <3>2. Write(d) = [d EXCEPT !.b.state = "WaitingForCommand"]
      BY <1>1, <2>2, <3>1 DEF Write, Listening
    <3>. QED
      BY <1>1, <3>2 DEF Listening, Phase, IsDevice, BotFields
  <2>. QED
    BY <1>1, <2>1, <2>2 DEF Listening
<1>2. CASE Answering(d, r, s, h)
  <2>1. CASE d.b.state = "NeedZlp"
    <3>1. Write(d) = SendZlp(d)
      BY <2>1 DEF Write
    <3>2. PlainIn(<< <<>> >>)
      BY EmptyIsPlain DEF PlainIn
    <3>3. CASE d.tx = <<>>
      BY <1>2, <3>1, <3>2, <3>3 DEF SendZlp, WouldBlock, Answering, Phase, IsDevice, BotFields
    <3>4. CASE d.tx # <<>>
      BY <3>1, <3>4 DEF SendZlp, WouldBlock
    <3>. QED
      BY <3>3, <3>4
  <2>2. CASE d.b.state = "NeedToSendStatus"
    <3>1. Write(d) = IF Flush(d).b.residue = 0
                     THEN [Flush(d) EXCEPT !.b.state = "WaitingForCommand"] ELSE Flush(d)
      BY <2>2 DEF Write
    <3>2. CASE d.tx = <<>>
      <4>1. Queued(d.b)
        BY <1>2, Sizes DEF Answering, Queued
      <4>2. IsDevice(Flush(d)) /\ Flush(d).b.residue = 0 /\ Flush(d).b.buf = <<>>
        <5>1. IsDevice(Flush(d)) /\ \E k : Sends(d, Flush(d), k)
          BY <1>2, <3>2, <4>1, FlushSends, Sizes DEF Answering
        <5>. QED
          BY <1>2, <5>1, Sizes DEF Sends, Answering
      <4>. HIDE DEF Flush
      <4>3. Write(d) = [Flush(d) EXCEPT !.b.state = "WaitingForCommand"]
        BY <3>1, <4>2
      <4>. QED
        BY <1>2, <4>2, <4>3 DEF Answering, Listening, Phase, IsDevice, BotFields
    <3>3. CASE d.tx # <<>>
      <4>1. Flush(d) = d /\ d.b.residue # 0
        BY <1>2, <3>3, Sizes DEF Flush, WouldBlock, Answering
      <4>. QED
        BY <3>1, <4>1
    <3>. QED
      BY <3>2, <3>3
  <2>. QED
    BY <1>2, <2>1, <2>2 DEF Answering
<1>3. CASE Sending(d, r, s, h)
  <2>. DEFINE f == Flush(d)
  <2>1. r = <<>> /\ h.st \in {"in", "status"} /\ PlainIn(d.tx) /\ d.b.state = "SendingDataToHost"
    BY <1>3 DEF Sending
  <2>2. CASE Queued(d.b) /\ WouldBlock(d)
    <3>1. Write(d) = d
      BY <2>1, <2>2 DEF Write
    <3>. QED
      BY <3>1
  <2>3. CASE ~Queued(d.b)
    <3>1. Write(d) = CheckEndDataTransfer(d)
      BY <2>1, <2>3 DEF Write, Flush
    <3>2. CASE EndsDataTransfer(d.b)
      <4>1. s.cmd = None
        <5>1. CASE s.cmd # None
          <6>1. /\ ~d.b.done /\ s.lba \in Nat /\ s.end \in Nat /\ s.lba <= s.end
                /\ d.b.residue = Len(d.b.buf) - d.b.di + (s.end - s.lba + 1) * BlockBytes
                /\ Len(d.b.buf) - d.b.di \in Nat
            BY <1>3, <5>1 DEF Sending, Plain
          <6>2. d.b.residue # 0
            BY <6>1, BlocksLeft
          <6>. QED
            BY <2>1, <3>2, <6>1, <6>2 DEF EndsDataTransfer
        <5>. QED
          BY <5>1
      <4>. QED
        BY <2>1, <3>1, <3>2, <4>1, EndOfTransfer DEF CheckEndDataTransfer, Phase
    <3>3. CASE ~EndsDataTransfer(d.b)
      BY <3>1, <3>3 DEF CheckEndDataTransfer
    <3>. QED
      BY <3>2, <3>3
  <2>4. CASE Queued(d.b) /\ d.tx = <<>>
    <3>1. Write(d) = CheckEndDataTransfer(f)
      BY <2>1, <2>4 DEF Write, WouldBlock
    <3>2. IsDevice(f) /\ \E n : Sends(d, f, n)
      BY <1>3, <2>4, FlushSends DEF Sending, Plain
    <3>. HIDE DEF f
    <3>n. PICK n : Sends(d, f, n)
      BY <3>2
    <3>3. IsDevice(f) /\ PlainIn(f.tx)
      <4>1. Plain(SubSeq(d.b.buf, d.b.di + 1, d.b.di + n))
        <5>1. Plain(d.b.buf) /\ d.b.di \in Nat /\ n \in Nat /\ d.b.di + n <= Len(d.b.buf)
          BY <1>3, <3>n DEF Sending, Plain, Sends
        <5>. QED
          BY <5>1, PlainSubSeq
      <4>2. f.tx = <<SubSeq(d.b.buf, d.b.di + 1, d.b.di + n)>>
        BY <3>n DEF Sends
      <4>. QED
        BY <3>2, <4>1, <4>2, OneIsPlain
    <3>4. CASE EndsDataTransfer(f.b)
      <4>1. s.cmd = None
        <5>1. CASE s.cmd # None
          <6>1. /\ f.b.residue = d.b.residue - n /\ ~f.b.done /\ n <= Len(d.b.buf) - d.b.di
                /\ d.b.residue = Len(d.b.buf) - d.b.di + (s.end - s.lba + 1) * BlockBytes
                /\ s.lba \in Nat /\ s.end \in Nat /\ s.lba <= s.end
                /\ Len(d.b.buf) \in Nat /\ d.b.di \in Nat
            BY <1>3, <3>n, <5>1 DEF Sending, Plain, Sends
          <6>2. (s.end - s.lba + 1) * BlockBytes \in Nat \ {0}
            BY <6>1, BlocksLeft
          <6>3. n \in Nat
            BY <3>n DEF Sends
          <6>4. f.b.residue # 0
            <7>. DEFINE m == (s.end - s.lba + 1) * BlockBytes
            <7>1. /\ f.b.residue = d.b.residue - n /\ n <= Len(d.b.buf) - d.b.di
                  /\ d.b.residue = Len(d.b.buf) - d.b.di + m
                  /\ Len(d.b.buf) \in Nat /\ d.b.di \in Nat /\ m \in Nat \ {0}
              BY <6>1, <6>2
            <7>. HIDE DEF m
            <7>. QED
              BY <6>3, <7>1
          <6>. QED
            BY <3>n, <3>4, <6>1, <6>4, <2>1 DEF EndsDataTransfer, Sends
        <5>. QED
          BY <5>1
      <4>. QED
        BY <2>1, <3>1, <3>3, <3>4, <4>1, EndOfTransfer DEF CheckEndDataTransfer, Phase
    <3>5. CASE ~EndsDataTransfer(f.b)
      <4>1. Sending(f, r, s, h)
        <5>1. /\ f.b.state = "SendingDataToHost" /\ h.cmd \in Commands /\ h.cmd.dir = "in"
              /\ f.b.cbw = Cbw(h.cmd) /\ f.b.done = d.b.done
          BY <1>3, <3>n DEF Sending, Sends
        <5>2. /\ Plain(f.b.buf) /\ f.b.di \in 0..Len(f.b.buf)
              /\ f.b.di = Len(f.b.buf) => f.b.buf = <<>>
              /\ f.b.buf = <<>> => f.b.di = 0
          <6>1. /\ n \in Nat \ {0} /\ n <= Len(d.b.buf) - d.b.di /\ Plain(d.b.buf)
                /\ Len(d.b.buf) \in Nat /\ d.b.di \in Nat /\ Len(<<>>) = 0
            BY <1>3, <3>n DEF Sending, Sends, Plain
          <6>2. CASE f.b.buf = <<>> /\ f.b.di = 0
            BY <6>1, <6>2, EmptyIsPlain
          <6>3. CASE f.b.buf = d.b.buf /\ f.b.di = d.b.di + n /\ d.b.di + n # Len(d.b.buf)
            BY <6>1, <6>3
          <6>. QED
            BY <3>n, <6>2, <6>3 DEF Sends
        <5>3. f.b.residue \in Nat \ {0}
          BY <1>3, <2>1, <3>n, <3>5, <5>1 DEF Sending, Sends, EndsDataTransfer
        <5>4. ~(s.cmd = None /\ ~d.b.done /\ d.b.buf = <<>>)
          BY <1>3, <2>4 DEF Queued, Sending
        <5>5. CASE s.cmd = None /\ d.b.done
          <6>1. f.b.buf # <<>>
            BY <3>5, <5>1, <5>2, <5>5 DEF EndsDataTransfer
          <6>. QED
            BY <2>1, <3>3, <5>1, <5>2, <5>3, <5>5, <6>1 DEF Sending
        <5>6. CASE ~(s.cmd = None /\ d.b.done)
          <6>. DEFINE m == (s.end - s.lba + 1) * BlockBytes
          <6>1. /\ s.cmd = ExtractFromCbw(d.b.cbw) /\ ExtractsFromCbw(d.b.cbw)
                /\ s.cmd.op = "Read" /\ ~d.b.done
                /\ s.lba \in Nat /\ s.end \in Nat /\ s.lba <= s.end
                /\ d.b.residue = Len(d.b.buf) - d.b.di + m
            BY <1>3, <5>4, <5>6 DEF Sending
          <6>2. m \in Nat \ {0}
            BY <6>1, BlocksLeft
          <6>. HIDE DEF m
          <6>3. f.b.residue = Len(f.b.buf) - f.b.di + m
            <7>1. /\ Len(d.b.buf) \in Nat /\ d.b.di \in Nat /\ n \in Nat /\ Len(<<>>) = 0
                  /\ f.b.residue = d.b.residue - n /\ n <= Len(d.b.buf) - d.b.di
              BY <1>3, <3>n DEF Sending, Sends, Plain
            <7>2. \/ /\ d.b.di + n = Len(d.b.buf) \/ d.b.residue = n
                     /\ f.b.buf = <<>> /\ f.b.di = 0
                  \/ f.b.buf = d.b.buf /\ f.b.di = d.b.di + n
              BY <3>n DEF Sends
            <7>3. CASE f.b.buf = <<>> /\ f.b.di = 0
              <8>1. Len(f.b.buf) - f.b.di = 0
                BY <7>1, <7>3
              <8>2. CASE d.b.di + n = Len(d.b.buf)
                BY <6>1, <6>2, <7>1, <8>1, <8>2
              <8>3. CASE d.b.residue = n
                BY <6>1, <6>2, <7>1, <8>3
              <8>4. CASE f.b.buf = d.b.buf /\ f.b.di = d.b.di + n
                BY <6>1, <6>2, <7>1, <8>4
              <8>. QED
                BY <7>2, <8>2, <8>3, <8>4
            <7>4. CASE f.b.buf = d.b.buf /\ f.b.di = d.b.di + n
              BY <6>1, <6>2, <7>1, <7>4
            <7>. QED
              BY <7>2, <7>3, <7>4
          <6>. QED
            BY <2>1, <3>3, <3>n, <5>1, <5>2, <5>3, <6>1, <6>3 DEF Sending, Sends, m
        <5>. QED
          BY <5>5, <5>6
      <4>. QED
        BY <3>1, <3>3, <3>5, <4>1 DEF CheckEndDataTransfer, Phase
    <3>. QED
      BY <3>4, <3>5
  <2>. QED
    BY <2>2, <2>3, <2>4 DEF WouldBlock
<1>4. CASE Receiving(d, r, s, h)
  <2>1. Write(d) = d
    BY <1>4 DEF Write, Receiving
  <2>. QED
    BY <2>1
<1>. QED
  BY <1>1, <1>2, <1>3, <1>4 DEF Phase

\* The reading step of a poll: device and OUT endpoint after it.
ReadOf(d, r) ==
    CASE d.b.state = "WaitingForCommand" -> WaitingForCommand(d, r)
      [] d.b.state = "ReceivingDataFromHost" -> ReceivingDataFromHost(d, r)
      [] OTHER -> d
LeftOf(d, r) == IF Takes(d.b) THEN <<>> ELSE r

LEMMA EmptyHasRoom ==
    ASSUME NEW b, b.buf = <<>>
    PROVE  Room(b)
BY Sizes DEF Room

\* A wrapper that arrives begins the transfer that the host is waiting for.
LEMMA CommandBegins ==
    ASSUME NEW d, IsDevice(d), d.tx = <<>>, d.b.state = "WaitingForCommand",
           NEW s, s.cmd = None, NEW h, h.cmd \in Commands, h.left = h.cmd.len,
           h.st = IF h.cmd.len = 0 THEN "status" ELSE h.cmd.dir, d.b.buf = <<>>,
           NEW r, r = << << <<"cbw", HostCbw(h.cmd)>> >> >>
    PROVE  LET e == WaitingForCommand(d, r)
           IN IsDevice(e) /\ Phase(e, <<>>, s, h)
<1>. DEFINE c == h.cmd
            b == TransitionToData(d.b, Cbw(c))
            n == [d EXCEPT !.b = b]
            e == WaitingForCommand(d, r)
<1>1. r # <<>> /\ r[1][1][2] = HostCbw(c)
  OBVIOUS
<1>2. e = IF n.b.state = "ReceivingDataFromHost" THEN ReceivingDataFromHost(n, <<>>) ELSE n
  BY <1>1, EmptyHasRoom DEF WaitingForCommand, Cbw
<1>3. /\ c.len \in Nat /\ c.dir \in {"in", "out"}
      /\ Cbw(c).data_transfer_length = c.len
      /\ Cbw(c).direction = DeviceToHost <=> c.dir = "in"
  BY CommandFacts, Understood DEF DeviceToHost
<1>4. /\ IsDevice(n) /\ n.tx = <<>> /\ n.b.buf = <<>> /\ n.b.di = 0 /\ n.b.cbw = Cbw(c)
      /\ n.b.residue = c.len /\ n.b.done = FALSE
      /\ n.b.state = (IF c.dir = "in" THEN "SendingDataToHost" ELSE "ReceivingDataFromHost")
  BY <1>3 DEF TransitionToData, IsDevice, BotFields
<1>. HIDE DEF n, e
<1>5. CASE c.dir = "in"
  <2>1. e = n
    BY <1>2, <1>4, <1>5
  <2>2. Sending(n, <<>>, s, h)
    BY <1>3, <1>4, <1>5, EmptyIsPlain DEF Sending, PlainIn
  <2>. QED
    BY <1>4, <2>1, <2>2 DEF Phase, e
<1>6. CASE c.dir = "out"
  <2>1. e = ReceivingDataFromHost(n, <<>>)
    BY <1>2, <1>4, <1>6
  <2>2. Room(n.b)
    BY <1>4, EmptyHasRoom
  <2>3. CASE c.len = 0
    <3>1. EndsDataTransfer(n.b)
      BY <1>4, <1>6, <2>3 DEF EndsDataTransfer
    <3>2. e = EndDataTransfer(n)
      BY <1>4, <2>1, <2>3, <3>1 DEF ReceivingDataFromHost, CheckEndDataTransfer
    <3>3. h.st = "status" /\ PlainIn(n.tx)
      BY <1>4, <2>3 DEF PlainIn
    <3>4. IsDevice(e) /\ (Listening(e, <<>>, s, h) \/ Answering(e, <<>>, s, h))
      BY <1>4, <3>2, <3>3, EndOfTransfer
    <3>. QED
      BY <3>4 DEF Phase, e
  <2>4. CASE c.len # 0
    <3>1. e = n
      BY <1>3, <1>4, <2>1, <2>2, <2>4 DEF ReceivingDataFromHost
    <3>2. Receiving(n, <<>>, s, h)
      BY <1>3, <1>4, <1>6, <2>4 DEF Receiving
    <3>. QED
      BY <1>4, <3>1, <3>2 DEF Phase, e
  <2>. QED
    BY <2>3, <2>4
<1>. QED
  BY <1>3, <1>5, <1>6

\* Data that arrives counts down the residue.
LEMMA DataArrives ==
    ASSUME NEW d, IsDevice(d), NEW r, NEW s, NEW h, Receiving(d, r, s, h)
    PROVE  LET e == ReceivingDataFromHost(d, r)
           IN IsDevice(e) /\ Phase(e, LeftOf(d, r), s, h)
<1>. DEFINE e == ReceivingDataFromHost(d, r)
            n == [d EXCEPT !.b.buf = @ \o r[1],
                           !.b.residue = IF @ >= Len(r[1]) THEN @ - Len(r[1]) ELSE 0]
<1>0. /\ d.b.state = "ReceivingDataFromHost" /\ d.tx = <<>> /\ PlainIn(<<>>)
      /\ h.left \in Nat /\ s.cmd = None
      /\ h.st = (IF h.left = 0 THEN "status" ELSE "out")
  BY DEF Receiving, PlainIn
<1>1. CASE d.b.residue > 0 /\ Room(d.b) /\ r = <<>>
  <2>1. e = d /\ LeftOf(d, r) = r
    BY <1>1 DEF ReceivingDataFromHost, LeftOf
  <2>. QED
    BY <2>1 DEF Phase
<1>2. CASE d.b.residue > 0 /\ Room(d.b) /\ r # <<>>
  <2>1. e = CheckEndDataTransfer(n) /\ LeftOf(d, r) = <<>>
    BY <1>0, <1>2 DEF ReceivingDataFromHost, LeftOf, Takes
  <2>2. Len(r[1]) \in Nat /\ d.b.residue = h.left + Len(r[1])
    BY <1>2 DEF Receiving
  <2>3. /\ IsDevice(n) /\ n.tx = <<>> /\ n.b.residue = h.left
        /\ n.b.state = "ReceivingDataFromHost" /\ n.b.cbw = d.b.cbw
    <3>1. /\ DOMAIN n = {"b", "tx"} /\ n.tx = d.tx /\ DOMAIN n.b = BotFields
          /\ n.b.state = d.b.state /\ n.b.cbw = d.b.cbw
          /\ n.b.residue = (IF d.b.residue >= Len(r[1]) THEN d.b.residue - Len(r[1]) ELSE 0)
      BY DEF IsDevice, BotFields
    <3>. QED
      BY <1>0, <2>2, <3>1 DEF IsDevice
  <2>. HIDE DEF n, e
  <2>4. CASE EndsDataTransfer(n.b)
    <3>1. e = EndDataTransfer(n) /\ h.st = "status"
      BY <1>0, <2>1, <2>3, <2>4 DEF CheckEndDataTransfer, EndsDataTransfer
    <3>2. IsDevice(e) /\ (Listening(e, <<>>, s, h) \/ Answering(e, <<>>, s, h))
      BY <1>0, <2>3, <3>1, EndOfTransfer
    <3>. QED
      BY <2>1, <3>2 DEF Phase, e
  <2>5. CASE ~EndsDataTransfer(n.b)
    <3>1. e = n
      BY <2>1, <2>5 DEF CheckEndDataTransfer
    <3>2. Receiving(n, <<>>, s, h)
      BY <2>3 DEF Receiving
    <3>. QED
      BY <2>1, <2>3, <3>1, <3>2 DEF Phase, e
  <2>. QED
    BY <2>4, <2>5
<1>3. CASE ~(d.b.residue > 0 /\ Room(d.b))
  <2>1. e = CheckEndDataTransfer(d) /\ LeftOf(d, r) = r
    BY <1>0, <1>3 DEF ReceivingDataFromHost, LeftOf, Takes
  <2>. HIDE DEF e
  <2>2. CASE EndsDataTransfer(d.b)
    <3>1. r = <<>> /\ h.st = "status"
      BY <1>0, <2>2 DEF Receiving, EndsDataTransfer
    <3>2. IsDevice(e) /\ (Listening(e, <<>>, s, h) \/ Answering(e, <<>>, s, h))
      BY <1>0, <2>1, <2>2, <3>1, EndOfTransfer DEF CheckEndDataTransfer
    <3>. QED
      BY <2>1, <3>1, <3>2 DEF Phase, e
  <2>3. CASE ~EndsDataTransfer(d.b)
    BY <2>1, <2>3 DEF CheckEndDataTransfer, Phase, e
  <2>. QED
    BY <2>2, <2>3
<1>. QED
  BY <1>1, <1>2, <1>3

LEMMA ReadKeepsPhase ==
    ASSUME NEW d, IsDevice(d), NEW r, NEW s, NEW h, Phase(d, r, s, h)
    PROVE  IsDevice(ReadOf(d, r)) /\ Phase(ReadOf(d, r), LeftOf(d, r), s, h)
<1>1. CASE d.b.state = "WaitingForCommand"
  <2>1. ReadOf(d, r) = WaitingForCommand(d, r)
    BY <1>1 DEF ReadOf
  <2>2. Listening(d, r, s, h)
    BY <1>1 DEF Phase, Answering, Sending, Receiving
  <2>3. LeftOf(d, r) = <<>>
    BY <1>1, <2>2, EmptyHasRoom DEF LeftOf, Takes, Listening
  <2>4. CASE r = <<>>
    BY <2>1, <2>3, <2>4 DEF WaitingForCommand
  <2>5. CASE r # <<>>
    BY <1>1, <2>1, <2>2, <2>3, <2>5, CommandBegins DEF Listening
  <2>. QED
    BY <2>4, <2>5
<1>2. CASE d.b.state = "ReceivingDataFromHost"
  <2>1. ReadOf(d, r) = ReceivingDataFromHost(d, r)
    BY <1>2 DEF ReadOf
  <2>2. Receiving(d, r, s, h)
    BY <1>2 DEF Phase, Listening, Answering, Sending
  <2>. QED
    BY <2>1, <2>2, DataArrives
<1>3. CASE d.b.state \notin {"WaitingForCommand", "ReceivingDataFromHost"}
  <2>1. ReadOf(d, r) = d /\ LeftOf(d, r) = r
    BY <1>3 DEF ReadOf, LeftOf, Takes
  <2>. QED
    BY <2>1
<1>. QED
  BY <1>1, <1>2, <1>3

-----------------------------------------------------------------------------
(* The commands *)

\* What a command that is not Read does to the transport.
LEMMA OtherCommands ==
    ASSUME NEW cmd, NEW new \in BOOLEAN, cmd.op # "Read", DOMAIN bot = BotFields
    PROVE  LET p == ProcessCommand(cmd, new)
           IN /\ p.result \in {"Done", "hardware", "illegal"}
              /\ DOMAIN p.b = BotFields
              /\ p.b.state = bot.state /\ p.b.cbw = bot.cbw /\ p.b.residue = bot.residue
              /\ cmd.op # "Write" => /\ p.b.buf = bot.buf \/ p.b.buf = bot.buf \o Reply(cmd.op)
                                     /\ p.b.di = bot.di
<1>. DEFINE same == [b |-> bot, lba |-> scsi.lba, end |-> scsi.end, last |-> last,
                     result |-> "Done"]
            p == ProcessCommand(cmd, new)
<1>1. CASE cmd.op = "Write"
  <2>. DEFINE lba == IF new THEN cmd.lba ELSE scsi.lba
              end == IF new THEN cmd.lba + cmd.count - 1 ELSE scsi.end
              len == IF bot.residue = 0 /\ Len(bot.buf) # BlockBytes
                     THEN Len(bot.buf) - bot.di ELSE BlockBytes
              all == bot.di + len = Len(bot.buf)
              q == [bot EXCEPT !.buf = IF all THEN <<>> ELSE @, !.di = IF all THEN 0 ELSE @ + len]
  <2>1. p = [same EXCEPT !.b = q, !.lba = lba, !.end = end, !.result = "hardware"]
    BY <1>1, Zenon DEF ProcessCommand
  <2>2. /\ DOMAIN q = BotFields
        /\ q.state = bot.state /\ q.cbw = bot.cbw /\ q.residue = bot.residue
    BY DEF BotFields
  <2>. HIDE DEF q, lba, end
  <2>3. p.b = q /\ p.result = "hardware"
    BY <2>1
  <2>. HIDE DEF p
  <2>. QED
    BY <1>1, <2>2, <2>3 DEF p
<1>2. CASE cmd.op \in {"TestUnitReady", "PreventAllowMediumRemoval"}
  <2>1. p = same
    BY <1>2 DEF ProcessCommand
  <2>. QED
    BY <1>2, <2>1
<1>3. CASE /\ cmd.op \notin {"Write", "TestUnitReady", "PreventAllowMediumRemoval"}
           /\ \/ cmd.op \in {"Inquiry", "ReadCapacity", "RequestSense", "ReadFormatCapacities"}
              \/ cmd.op = "ModeSense" /\ cmd.current
  <2>1. p = [same EXCEPT !.b.buf = @ \o Reply(cmd.op)]
    BY <1>3 DEF ProcessCommand
  <2>2. p.b = [bot EXCEPT !.buf = @ \o Reply(cmd.op)] /\ p.result = "Done"
    BY <2>1
  <2>. HIDE DEF p
  <2>. QED
    BY <1>3, <2>2 DEF BotFields, p
<1>4. CASE /\ cmd.op \notin {"Write", "TestUnitReady", "PreventAllowMediumRemoval"}
           /\ ~ \/ cmd.op \in {"Inquiry", "ReadCapacity", "RequestSense", "ReadFormatCapacities"}
                \/ cmd.op = "ModeSense" /\ cmd.current
  <2>1. p = [same EXCEPT !.result = "illegal"]
    BY <1>4 DEF ProcessCommand
  <2>. QED
    BY <1>4, <2>1
<1>. QED
  BY <1>1, <1>2, <1>3, <1>4

\* What a Read does at a block: the next one remains unless it was the last or
\* could not be read.
ReadsAt(p, lba, end) ==
    /\ DOMAIN p.b = BotFields
    /\ p.b = [bot EXCEPT !.buf = @ \o ReadBlock(lba).data]
    /\ p.end = end
    /\ \/ p.result \in {"Done", "hardware"}
       \/ p.result = "Ongoing" /\ p.lba = lba + 1 /\ lba + 1 <= end

LEMMA ReadCommand ==
    ASSUME NEW cmd, cmd.op = "Read", DOMAIN bot = BotFields
    PROVE  /\ ReadsAt(ProcessCommand(cmd, TRUE), cmd.lba, cmd.lba + cmd.count - 1)
           /\ ReadsAt(ProcessCommand(cmd, FALSE), scsi.lba, scsi.end)
<1>1. ASSUME NEW p, NEW lba, NEW end,
             p = LET r == ReadBlock(lba)
                 IN [ b |-> [bot EXCEPT !.buf = @ \o r.data],
                      lba |-> IF r.ok THEN lba + 1 ELSE lba, end |-> end, last |-> r.last,
                      result |-> IF ~r.ok THEN "hardware"
                                 ELSE IF lba + 1 <= end THEN "Ongoing" ELSE "Done" ]
      PROVE  ReadsAt(p, lba, end)
  <2>. DEFINE r == ReadBlock(lba)
  <2>. HIDE DEF r
  <2>1. DOMAIN [bot EXCEPT !.buf = @ \o r.data] = BotFields
    OBVIOUS
  <2>. QED
    BY <1>1, <2>1 DEF ReadsAt, r
<1>2. ReadsAt(ProcessCommand(cmd, TRUE), cmd.lba, cmd.lba + cmd.count - 1)
  BY <1>1 DEF ProcessCommand
<1>3. ReadsAt(ProcessCommand(cmd, FALSE), scsi.lba, scsi.end)
  BY <1>1 DEF ProcessCommand
<1>. QED
  BY <1>2, <1>3

\* The end of a command that answers.
LEMMA StatusOfAnswer ==
    ASSUME NEW d, IsDevice(d), d.b.state = "SendingDataToHost", NEW status,
           Plain(d.b.buf), d.b.di = 0, d.b.residue \in Nat, PlainIn(d.tx),
           d.tx = <<>> \/ (d.b.residue > 0 /\ d.b.buf # <<>>),
           NEW s, s.cmd = None, NEW h, h.cmd \in Commands, h.cmd.dir = "in",
           d.b.cbw = Cbw(h.cmd), h.st \in {"in", "status"}
    PROVE  LET e == SendStatus(d, status)
           IN IsDevice(e) /\ Phase(e, <<>>, s, h) /\ ~SendBlocks(d)
<1>. DEFINE n == [d EXCEPT !.b.status = status, !.b.done = TRUE]
            e == SendStatus(d, status)
            q == [d.b EXCEPT !.done = TRUE]
<1>1. /\ IsDevice(n) /\ n.b.state = "SendingDataToHost" /\ n.b.done /\ n.tx = d.tx
      /\ n.b.buf = d.b.buf /\ n.b.di = 0 /\ n.b.residue = d.b.residue /\ n.b.cbw = d.b.cbw
  BY DEF IsDevice, BotFields
<1>2. /\ q.state = "SendingDataToHost" /\ q.done /\ q.residue = d.b.residue
      /\ q.di = 0 /\ q.buf = d.b.buf
  BY DEF IsDevice, BotFields
<1>3. e = CheckEndDataTransfer(n)
  BY DEF SendStatus
<1>. HIDE DEF n, e, q
<1>4. d.b.buf # <<>> => Len(d.b.buf) # 0
  BY DEF Plain
<1>5. ~SendBlocks(d)
  <2>1. SendBlocks(d) <=> EndsDataTransfer(q) /\ WouldBlock(d)
    BY DEF SendBlocks, q
  <2>. QED
    BY <1>2, <1>4, <2>1 DEF EndsDataTransfer, WouldBlock
<1>6. CASE EndsDataTransfer(n.b)
  <2>1. IsDevice(e) /\ (Listening(e, <<>>, s, h) \/ Answering(e, <<>>, s, h))
    BY <1>1, <1>3, <1>6, EndOfTransfer DEF CheckEndDataTransfer
  <2>. QED
    BY <1>5, <2>1 DEF Phase, e
<1>7. CASE ~EndsDataTransfer(n.b)
  <2>1. e = n
    BY <1>3, <1>7 DEF CheckEndDataTransfer
  <2>2. Len(d.b.buf) # 0 /\ d.b.residue # 0
    BY <1>1, <1>7 DEF EndsDataTransfer
  <2>3. Sending(n, <<>>, s, h)
    BY <1>1, <2>2 DEF Sending, Plain
  <2>. QED
    BY <1>1, <1>5, <2>1, <2>3 DEF Phase, e
<1>. QED
  BY <1>6, <1>7

\* The end of a command that takes data.
LEMMA StatusOfData ==
    ASSUME NEW d, IsDevice(d), NEW status, NEW r, NEW s, NEW h, Receiving(d, r, s, h)
    PROVE  LET e == SendStatus(d, status)
           IN IsDevice(e) /\ Phase(e, r, s, h) /\ ~SendBlocks(d)
<1>. DEFINE n == [d EXCEPT !.b.status = status, !.b.done = TRUE]
            e == SendStatus(d, status)
<1>1. /\ IsDevice(n) /\ n.b.state = d.b.state /\ n.tx = d.tx
      /\ n.b.residue = d.b.residue /\ n.b.cbw = d.b.cbw
  BY DEF IsDevice, BotFields
<1>2. e = CheckEndDataTransfer(n)
  BY DEF SendStatus
<1>. HIDE DEF n, e
<1>3. ~SendBlocks(d) /\ PlainIn(n.tx) /\ d.b.state = "ReceivingDataFromHost"
  BY <1>1 DEF SendBlocks, Receiving, WouldBlock, PlainIn
<1>4. CASE EndsDataTransfer(n.b)
  <2>1. r = <<>> /\ h.st = "status" /\ s.cmd = None
    BY <1>1, <1>3, <1>4 DEF Receiving, EndsDataTransfer
  <2>2. IsDevice(e) /\ (Listening(e, <<>>, s, h) \/ Answering(e, <<>>, s, h))
    BY <1>1, <1>2, <1>3, <1>4, <2>1, EndOfTransfer DEF CheckEndDataTransfer
  <2>. QED
    BY <1>3, <2>1, <2>2 DEF Phase, e
<1>5. CASE ~EndsDataTransfer(n.b)
  <2>1. e = n
    BY <1>2, <1>5 DEF CheckEndDataTransfer
  <2>2. Receiving(n, r, s, h)
    BY <1>1 DEF Receiving
  <2>. QED
    BY <1>1, <1>3, <2>1, <2>2 DEF Phase, e
<1>. QED
  BY <1>4, <1>5

-----------------------------------------------------------------------------
(* The steps *)

LEMMA PhaseOf ==
    ASSUME NEW d, NEW g, g.b = d.b, g.tx = d.tx, NEW r, NEW s, NEW h, Phase(d, r, s, h)
    PROVE  Phase(g, r, s, h)
BY Zenon DEF Phase, Listening, Answering, Sending, Receiving

LEMMA DeviceShape ==
    ASSUME ProtocolInv
    PROVE  IsDevice(Device) /\ Device.b = bot /\ Device.tx = tx
BY DEF ProtocolInv, Device, IsDevice

\* A step of the device that keeps the phase keeps the invariant.
LEMMA DeviceKeeps ==
    ASSUME ProtocolInv, NEW d, IsDevice(d), Becomes(d), Phase(d, rx', scsi', host),
           DOMAIN scsi' = ScsiFields, UNCHANGED host
    PROVE  ProtocolInv'
<1>1. bot' = d.b /\ DOMAIN bot' = BotFields /\ Device'.b = d.b /\ Device'.tx = d.tx
  BY DEF Becomes, IsDevice, Device
<1>2. Phase(Device', rx', scsi', host')
  BY <1>1, PhaseOf
<1>. QED
  BY <1>1, <1>2 DEF ProtocolInv

LEMMA PollWriteInv ==
    ASSUME ProtocolInv, PollWrite \/ PollWriteAgain
    PROVE  ProtocolInv'
<1>1. /\ Becomes(Write(Device)) /\ UNCHANGED <<rx, scsi, host>>
  BY DEF PollWrite, PollWriteAgain
<1>2. IsDevice(Write(Device)) /\ Phase(Write(Device), rx, scsi, host)
  BY DeviceShape, WriteKeepsPhase DEF ProtocolInv
<1>. HIDE DEF Write
<1>3. DOMAIN scsi' = ScsiFields
  BY <1>1 DEF ProtocolInv
<1>. QED
  BY <1>1, <1>2, <1>3, DeviceKeeps

LEMMA PollReadInv ==
    ASSUME ProtocolInv, PollRead
    PROVE  ProtocolInv'
<1>1. /\ Becomes(ReadOf(Device, rx)) /\ rx' = LeftOf(Device, rx) /\ UNCHANGED <<scsi, host>>
  BY DeviceShape DEF PollRead, ReadOf, LeftOf
<1>2. IsDevice(ReadOf(Device, rx)) /\ Phase(ReadOf(Device, rx), LeftOf(Device, rx), scsi, host)
  BY DeviceShape, ReadKeepsPhase DEF ProtocolInv
<1>3. DOMAIN scsi' = ScsiFields
  BY <1>1 DEF ProtocolInv
<1>. QED
  BY <1>1, <1>2, <1>3, DeviceKeeps

LEMMA FinishInv ==
    ASSUME ProtocolInv, NEW p, NEW cmd, FinishCommand(p, cmd), UNCHANGED <<rx, host>>,
           p.result # "Ongoing", DOMAIN p.b = BotFields,
           NEW status, status = IF p.result = "Done" THEN CommandOk ELSE CommandError,
           NEW d, d = [b |-> p.b, tx |-> tx], ~SendBlocks(d), NEW e, e = SendStatus(d, status),
           IsDevice(e), \A s : s.cmd = None => Phase(e, rx, s, host)
    PROVE  ProtocolInv'
<1>1. /\ Becomes(e)
      /\ scsi' = [cmd |-> None, lba |-> 0, end |-> 0, sense |-> MapErrorToSense(p.result)]
  BY Zenon DEF FinishCommand
<1>2. scsi'.cmd = None /\ DOMAIN scsi' = ScsiFields
  BY <1>1 DEF ScsiFields
<1>. QED
  BY <1>1, <1>2, DeviceKeeps

\* The command that is run: the one of the host, its address that of the next
\* block and as many blocks left as are still to come.
LEMMA PollCommandInv ==
    ASSUME ProtocolInv, PollCommand
    PROVE  ProtocolInv'
<1>. DEFINE new == scsi.cmd = None
            c == host.cmd
            cmd == IF new THEN ExtractFromCbw(bot.cbw) ELSE scsi.cmd
            p == ProcessCommand(cmd, new)
            d == [b |-> p.b, tx |-> tx]
            status == IF p.result = "Done" THEN CommandOk ELSE CommandError
            e == SendStatus(d, status)
<1>1. /\ ~Skips(bot) /\ (new => Transferring(bot) /\ ExtractsFromCbw(bot.cbw))
      /\ FinishCommand(p, cmd) /\ UNCHANGED <<rx, host>>
  BY DEF PollCommand
<1>2. /\ IsDevice(Device) /\ Device.b = bot /\ Device.tx = tx
      /\ DOMAIN bot = BotFields /\ DOMAIN scsi = ScsiFields /\ Phase(Device, rx, scsi, host)
  BY DeviceShape DEF ProtocolInv
<1>3. \/ Sending(Device, rx, scsi, host) /\ (new => bot.buf = <<>> /\ tx = <<>>) /\ bot.buf = <<>>
      \/ Receiving(Device, rx, scsi, host) /\ new
  <2>1. ~Listening(Device, rx, scsi, host) /\ ~Answering(Device, rx, scsi, host)
    BY <1>1, <1>2 DEF Listening, Answering, Transferring
  <2>2. Sending(Device, rx, scsi, host) => bot.buf = <<>>
    BY <1>1, <1>2 DEF Sending, Skips
  <2>3. Sending(Device, rx, scsi, host) /\ new => tx = <<>>
    <3>1. new => scsi.cmd.op # "Read"
      BY DEF None
    <3>. QED
      BY <1>2, <2>2, <3>1 DEF Sending
  <2>. QED
    BY <1>2, <2>1, <2>2, <2>3 DEF Phase, Receiving
<1>a. Sending(Device, rx, scsi, host) =>
        /\ bot.di = 0 /\ ~bot.done /\ rx = <<>> /\ PlainIn(tx)
        /\ bot.state = "SendingDataToHost" /\ c.dir = "in" /\ host.st \in {"in", "status"}
        /\ bot.residue \in Nat
        /\ new => bot.residue = c.len
  <2>1. new => scsi.cmd.op # "Read"
    BY DEF None
  <2>2. Len(<<>>) = 0
    OBVIOUS
  <2>3. \A k \in 0..0 : k = 0
    OBVIOUS
  <2>. SUFFICES ASSUME Sending(Device, rx, scsi, host)
               PROVE  /\ bot.di = 0 /\ ~bot.done /\ rx = <<>> /\ PlainIn(tx)
                      /\ bot.state = "SendingDataToHost" /\ c.dir = "in"
                      /\ host.st \in {"in", "status"} /\ bot.residue \in Nat
                      /\ new => bot.residue = c.len
    OBVIOUS
  <2>4. bot.buf = <<>>
    BY <1>3 DEF Sending, Receiving
  <2>5. bot.di = 0
    BY <1>2, <2>2, <2>3, <2>4 DEF Sending
  <2>6. ~bot.done /\ (new => bot.residue = c.len)
    BY <1>2, <2>1, <2>4 DEF Sending
  <2>. QED
    BY <1>2, <2>5, <2>6 DEF Sending
<1>4. c \in Commands /\ bot.cbw = Cbw(c) /\ (new => cmd # None)
  BY <1>1, <1>2, <1>3, Extracted DEF Sending, Receiving
<1>5. /\ cmd = ExtractFromCbw(Cbw(c)) /\ ExtractsFromCbw(Cbw(c))
  BY <1>1, <1>2, <1>3, <1>4 DEF Sending
<1>6. /\ cmd \in {ExtractFromCbw(Cbw(c))}
      /\ cmd.op \in {"Read", "Write"} => cmd.op = c.op /\ cmd.lba = c.lba /\ cmd.count = c.count
  BY <1>4, <1>5, Extracted
<1>7. /\ c.len \in Nat
      /\ c.op \in {"Read", "Write"} =>
           /\ c.lba \in Nat /\ c.count \in Nat /\ c.len = c.count * BlockBytes
           /\ c.dir = (IF c.op = "Read" THEN "in" ELSE "out")
  BY <1>4, CommandFacts
<1>. HIDE DEF cmd
<1>8. CASE Receiving(Device, rx, scsi, host) /\ new
  <2>1. cmd.op # "Read"
    BY <1>2, <1>6, <1>7, <1>8 DEF Receiving
  <2>2. /\ p.result # "Ongoing" /\ DOMAIN p.b = BotFields
        /\ p.b.state = bot.state /\ p.b.cbw = bot.cbw /\ p.b.residue = bot.residue
    BY <1>2, <2>1, OtherCommands
  <2>. HIDE DEF p
  <2>3. IsDevice(d) /\ d.b = p.b /\ d.tx = tx
    BY <2>2 DEF IsDevice
  <2>. HIDE DEF d
  <2>4. Receiving(d, rx, scsi, host)
    BY <1>2, <1>8, <2>2, <2>3 DEF Receiving
  <2>5. \A s : s.cmd = None => Receiving(d, rx, s, host)
    BY <2>4 DEF Receiving
  <2>6. IsDevice(e) /\ ~SendBlocks(d) /\ \A s : s.cmd = None => Phase(e, rx, s, host)
    BY <2>3, <2>4, <2>5, StatusOfData
  <2>. QED
    BY <1>1, <2>2, <2>6, FinishInv DEF d
<1>9. CASE Sending(Device, rx, scsi, host) /\ cmd.op # "Read"
  <2>1. new
    BY <1>2, <1>9 DEF Sending, cmd
  <2>2. cmd.op # "Write"
    BY <1>2, <1>6, <1>7, <1>9 DEF Sending
  <2>3. /\ p.result # "Ongoing" /\ DOMAIN p.b = BotFields
        /\ p.b.state = bot.state /\ p.b.cbw = bot.cbw /\ p.b.residue = bot.residue
        /\ p.b.buf = bot.buf \/ p.b.buf = bot.buf \o Reply(cmd.op)
        /\ p.b.di = bot.di
    BY <1>2, <1>9, <2>2, OtherCommands
  <2>. HIDE DEF p
  <2>4. bot.buf = <<>> /\ tx = <<>> /\ bot.di = 0 /\ rx = <<>>
    BY <1>3, <1>a, <1>9, <2>1, Zenon DEF Receiving, Sending
  <2>5. Plain(p.b.buf)
    BY <2>3, <2>4, EmptyIsPlain, RepliesArePlain, PlainConcat
  <2>6. IsDevice(d) /\ d.b = p.b /\ d.tx = tx
    BY <2>3 DEF IsDevice
  <2>. HIDE DEF d
  <2>7. /\ d.b.state = "SendingDataToHost" /\ Plain(d.b.buf) /\ d.b.di = 0 /\ d.b.residue \in Nat
        /\ PlainIn(d.tx) /\ d.tx = <<>> /\ d.b.cbw = Cbw(c)
        /\ c.dir = "in" /\ host.st \in {"in", "status"}
    BY <1>2, <1>9, <2>3, <2>4, <2>5, <2>6 DEF Sending
  <2>8. \A s : s.cmd = None => IsDevice(e) /\ ~SendBlocks(d) /\ Phase(e, <<>>, s, host)
    BY <1>4, <2>6, <2>7, StatusOfAnswer
  <2>9. None = [cmd |-> None].cmd
    OBVIOUS
  <2>. QED
    BY <1>1, <2>3, <2>4, <2>8, <2>9, FinishInv DEF d
<1>10. CASE Sending(Device, rx, scsi, host) /\ cmd.op = "Read"
  <2>. DEFINE lba == IF new THEN cmd.lba ELSE scsi.lba
              end == IF new THEN cmd.lba + cmd.count - 1 ELSE scsi.end
              data == ReadBlock(lba).data
  <2>1. /\ bot.buf = <<>> /\ bot.di = 0 /\ rx = <<>> /\ PlainIn(tx) /\ ~bot.done
        /\ bot.state = "SendingDataToHost" /\ c.dir = "in" /\ host.st \in {"in", "status"}
    BY <1>3, <1>a, <1>10 DEF Receiving, Sending
  <2>2. /\ lba \in Nat /\ end \in Int
        /\ bot.residue \in Nat /\ bot.residue = (end - lba + 1) * BlockBytes
        /\ tx = <<>> \/ bot.residue > 0
    <3>1. CASE new
      <4>1. /\ lba = c.lba /\ end = c.lba + c.count - 1 /\ tx = <<>>
            /\ c.lba \in Nat /\ c.count \in Nat
            /\ c.len = c.count * BlockBytes /\ c.len \in Nat /\ bot.residue = c.len
        <5>1. bot.residue = c.len /\ tx = <<>>
          BY <1>3, <1>a, <1>10, <3>1, Zenon DEF Receiving, Sending
        <5>. QED
          BY <1>6, <1>7, <1>10, <3>1, <5>1
      <4>2. end - lba + 1 = c.count /\ lba \in Nat /\ end \in Int
        BY <4>1
      <4>. QED
        BY <4>1, <4>2
    <3>2. CASE ~new
      <4>1. /\ lba = scsi.lba /\ end = scsi.end /\ scsi.lba \in Nat /\ scsi.end \in Nat
            /\ scsi.lba <= scsi.end
            /\ bot.residue = Len(bot.buf) - bot.di + (scsi.end - scsi.lba + 1) * BlockBytes
        BY <1>2, <1>10, <3>2 DEF Sending
      <4>2. (scsi.end - scsi.lba + 1) * BlockBytes \in Nat \ {0}
        BY <4>1, BlocksLeft
      <4>. QED
        BY <2>1, <4>1, <4>2
    <3>. QED
      BY <3>1, <3>2
  <2>3. Plain(data) /\ Len(data) = BlockBytes
    BY BlocksArePlain
  <2>. HIDE DEF data, lba, end
  <2>4. /\ DOMAIN p.b = BotFields /\ p.b = [bot EXCEPT !.buf = @ \o data] /\ p.end = end
        /\ \/ p.result \in {"Done", "hardware"}
           \/ p.result = "Ongoing" /\ p.lba = lba + 1 /\ lba + 1 <= end
    <3>1. ASSUME new PROVE ReadsAt(p, lba, end)
      <4>1. new = TRUE
        BY <3>1
      <4>. HIDE DEF new
      <4>2. p = ProcessCommand(cmd, TRUE) /\ lba = cmd.lba /\ end = cmd.lba + cmd.count - 1
        BY <4>1 DEF lba, end
      <4>. QED
        BY <1>2, <1>10, <4>2, ReadCommand
    <3>2. ASSUME ~new PROVE ReadsAt(p, lba, end)
      <4>1. new = FALSE
        BY <3>2
      <4>. HIDE DEF new
      <4>2. p = ProcessCommand(cmd, FALSE) /\ lba = scsi.lba /\ end = scsi.end
        BY <4>1 DEF lba, end
      <4>. QED
        BY <1>2, <1>10, <4>2, ReadCommand
    <3>3. ReadsAt(p, lba, end)
      BY <3>1, <3>2
    <3>. QED
      BY <3>3 DEF ReadsAt, data
  <2>5. Plain(<<>> \o data) /\ Len(<<>> \o data) = BlockBytes
    BY <2>3, Sizes, EmptyIsPlain, PlainConcat
  <2>6. /\ p.b.state = "SendingDataToHost" /\ p.b.cbw = Cbw(c) /\ p.b.residue = bot.residue
        /\ p.b.di = 0 /\ ~p.b.done /\ Plain(p.b.buf) /\ Len(p.b.buf) = BlockBytes
    BY <1>2, <1>4, <2>1, <2>4, <2>5 DEF BotFields
  <2>. HIDE DEF p
  <2>7. IsDevice(d) /\ d.b = p.b /\ d.tx = tx
    BY <2>4 DEF IsDevice
  <2>. HIDE DEF d
  <2>8. CASE p.result # "Ongoing"
    <3>1. d.b.buf # <<>>
      BY <2>6, <2>7, Sizes
    <3>2. \A s : s.cmd = None => IsDevice(e) /\ ~SendBlocks(d) /\ Phase(e, <<>>, s, host)
      BY <1>4, <2>1, <2>2, <2>6, <2>7, <3>1, StatusOfAnswer
    <3>3. None = [cmd |-> None].cmd
      OBVIOUS
    <3>. QED
      BY <1>1, <2>1, <2>4, <2>8, <3>2, <3>3, FinishInv DEF d
  <2>9. CASE p.result = "Ongoing"
    <3>1. /\ Becomes(d) /\ scsi' = [scsi EXCEPT !.lba = p.lba, !.end = p.end, !.cmd = cmd]
      BY <1>1, <2>7, <2>9, Zenon DEF FinishCommand, Becomes
    <3>2. /\ DOMAIN scsi' = ScsiFields /\ scsi'.cmd = cmd /\ scsi'.lba = lba + 1 /\ scsi'.end = end
      BY <1>2, <2>4, <2>9, <3>1 DEF ScsiFields
    <3>3. p.b.residue = Len(p.b.buf) - p.b.di + (end - (lba + 1) + 1) * BlockBytes
      BY <2>2, <2>6, Sizes
    <3>4. lba + 1 \in Nat /\ end \in Nat /\ lba + 1 <= end
      BY <2>2, <2>4, <2>9
    <3>5. Sending(d, rx, scsi', host)
      <4>1. /\ d.b.state = "SendingDataToHost" /\ d.b.cbw = Cbw(c) /\ PlainIn(d.tx)
            /\ Plain(d.b.buf) /\ d.b.residue \in Nat
            /\ d.b.di \in 0..Len(d.b.buf) /\ d.b.di # Len(d.b.buf)
        BY <2>1, <2>2, <2>6, <2>7, Sizes
      <4>2. scsi'.cmd = ExtractFromCbw(d.b.cbw) /\ ExtractsFromCbw(d.b.cbw) /\ scsi'.cmd.op = "Read"
        BY <1>5, <1>10, <3>2, <4>1
      <4>3. /\ scsi'.lba \in Nat /\ scsi'.end \in Nat /\ scsi'.lba <= scsi'.end
            /\ d.b.residue = Len(d.b.buf) - d.b.di + (scsi'.end - scsi'.lba + 1) * BlockBytes
        BY <2>7, <3>2, <3>3, <3>4
      <4>. QED
        BY <1>4, <2>1, <2>6, <2>7, <4>1, <4>2, <4>3 DEF Sending
    <3>. QED
      BY <1>1, <2>7, <3>1, <3>2, <3>5, DeviceKeeps DEF Phase
  <2>. QED
    BY <2>8, <2>9
<1>. QED
  BY <1>3, <1>8, <1>9, <1>10

LEMMA QuietInv ==
    ASSUME ProtocolInv, UNCHANGED <<bot, tx, rx, scsi, host>>
    PROVE  ProtocolInv'
<1>1. UNCHANGED <<bot, rx, scsi, host>> /\ UNCHANGED Device
  BY DEF Device
<1>. QED
  BY <1>1 DEF ProtocolInv

\* A step of the host keeps the phase of the device.
LEMMA HostKeeps ==
    ASSUME ProtocolInv, UNCHANGED <<bot, scsi>>, DOMAIN host' = HostFields,
           Phase([b |-> bot, tx |-> tx'], rx', scsi, host')
    PROVE  ProtocolInv'
<1>1. UNCHANGED <<bot, scsi>> /\ Device' = [b |-> bot, tx |-> tx']
  BY DEF Device
<1>. QED
  BY <1>1 DEF ProtocolInv

LEMMA HostSendInv ==
    ASSUME ProtocolInv, HostSend
    PROVE  ProtocolInv'
<1>1. PICK c \in Commands :
         /\ rx' = << << <<"cbw", HostCbws[c]>> >> >>
         /\ host' = [host EXCEPT !.cmd = c, !.got = <<>>, !.left = c.len, !.tag = 0,
                                 !.residue = 0, !.ok = FALSE, !.erased = erasing,
                                 !.asked = host.why, !.why = "any",
                                 !.st = IF c.len = 0 THEN "status" ELSE c.dir]
  BY DEF HostSend
<1>2. host.st = "idle" /\ rx = <<>> /\ UNCHANGED <<bot, scsi, tx>>
  BY DEF HostSend
<1>3. /\ DOMAIN host' = HostFields /\ host'.cmd = c /\ host'.left = c.len
      /\ host'.st = (IF c.len = 0 THEN "status" ELSE c.dir)
  BY <1>1 DEF ProtocolInv, HostFields
<1>4. Listening(Device, rx, scsi, host)
  BY <1>2 DEF ProtocolInv, Phase, Answering, Sending, Receiving
<1>5. HostCbws[c] = HostCbw(c)
  BY Zenon DEF HostCbws
<1>6. Listening([b |-> bot, tx |-> tx'], rx', scsi, host')
  BY <1>1, <1>2, <1>3, <1>4, <1>5 DEF Listening, Device
<1>. QED
  BY <1>2, <1>3, <1>6, HostKeeps DEF Phase

LEMMA HostOutInv ==
    ASSUME ProtocolInv, HostOut
    PROVE  ProtocolInv'
<1>. DEFINE n == IF host.left < PacketSize THEN host.left ELSE PacketSize
<1>1. /\ host.st = "out" /\ rx = <<>> /\ UNCHANGED <<bot, scsi, tx>>
      /\ rx' = <<Bytes(<<"data">>, n)>>
      /\ host' = [host EXCEPT !.left = @ - n, !.st = IF host.left = n THEN "status" ELSE @]
  BY DEF HostOut
<1>2. Receiving(Device, rx, scsi, host) /\ host.left \in Nat \ {0} /\ DOMAIN host = HostFields
  <2>1. Receiving(Device, rx, scsi, host) /\ DOMAIN host = HostFields
    <3>1. CASE Listening(Device, rx, scsi, host)
      BY <1>1, <3>1 DEF Listening
    <3>. QED
      BY <1>1, <3>1 DEF ProtocolInv, Phase, Answering, Sending
  <2>. QED
    BY <1>1, <2>1 DEF Receiving
<1>3. n \in Nat \ {0} /\ host.left - n \in Nat
  BY <1>2, Sizes
<1>4. Len(Bytes(<<"data">>, n)) = n
  BY <1>3 DEF Bytes
<1>. HIDE DEF n
<1>5. /\ DOMAIN host' = HostFields /\ host'.cmd = host.cmd /\ host'.left = host.left - n
      /\ host'.st = (IF host.left = n THEN "status" ELSE "out")
  BY <1>1, <1>2 DEF HostFields
<1>6. rx' = <<rx'[1]>> /\ Len(rx'[1]) = n
  BY <1>1, <1>4
<1>7. host'.st = (IF host'.left = 0 THEN "status" ELSE "out")
  BY <1>2, <1>3, <1>5
<1>8. Receiving([b |-> bot, tx |-> tx'], rx', scsi, host')
  BY <1>1, <1>2, <1>3, <1>5, <1>6, <1>7 DEF Receiving, Device
<1>. QED
  BY <1>1, <1>5, <1>8, HostKeeps DEF Phase

LEMMA HostTakeInv ==
    ASSUME ProtocolInv, HostTake
    PROVE  ProtocolInv'
<1>. DEFINE p == tx[1]
            more == [host EXCEPT !.got = @ \o p, !.left = @ - Len(p)]
            csw == p[1][1][2]
<1>1. /\ host.st \in {"in", "status"} /\ tx # <<>> /\ tx' = <<>> /\ UNCHANGED <<bot, scsi, rx>>
      /\ host' =
            IF IsCsw(p) /\ (host.st = "status" \/ host.got = <<>>)
            THEN [host EXCEPT !.st = "idle", !.ok = (csw[13] = 0),
                              !.tag = HostNumber(csw, 5), !.residue = HostNumber(csw, 9),
                              !.why = Why(host.cmd, csw[13] = 0)]
            ELSE IF host.st = "status" THEN [host EXCEPT !.got = @ \o p]
            ELSE [more EXCEPT !.st = IF Len(p) < PacketSize \/ more.left <= 0
                                     THEN "status" ELSE @]
  BY Zenon DEF HostTake
<1>2. /\ Phase(Device, rx, scsi, host) /\ DOMAIN host = HostFields
      /\ Device.b = bot /\ Device.tx = tx
  BY DEF ProtocolInv, Device
<1>3. /\ DOMAIN host' = HostFields /\ host'.cmd = host.cmd
      /\ host'.st \in {"idle", "in", "status"}
      /\ ~IsCsw(p) => host'.st \in {"in", "status"}
  <2>1. CASE IsCsw(p) /\ (host.st = "status" \/ host.got = <<>>)
    BY <1>1, <1>2, <2>1 DEF HostFields
  <2>2. CASE ~(IsCsw(p) /\ (host.st = "status" \/ host.got = <<>>)) /\ host.st = "status"
    BY <1>1, <1>2, <2>2 DEF HostFields
  <2>3. CASE ~(IsCsw(p) /\ (host.st = "status" \/ host.got = <<>>)) /\ host.st # "status"
    BY <1>1, <1>2, <2>3 DEF HostFields
  <2>. QED
    BY <2>1, <2>2, <2>3
<1>. DEFINE d == [b |-> bot, tx |-> <<>>]
<1>4. d.b = bot /\ d.tx = <<>> /\ PlainIn(<<>>)
  BY DEF PlainIn
<1>5. PlainIn(tx) => host'.st \in {"in", "status"}
  BY <1>1, <1>3, PlainIsNoCsw DEF PlainIn
<1>. HIDE DEF d
<1>6. CASE Listening(Device, rx, scsi, host)
  <2>1. Listening(d, rx, scsi, host')
    BY <1>1, <1>2, <1>3, <1>4, <1>6 DEF Listening
  <2>. QED
    BY <1>1, <1>3, <2>1, HostKeeps DEF Phase, d
<1>7. CASE Answering(Device, rx, scsi, host)
  <2>1. Answering(d, rx, scsi, host')
    BY <1>1, <1>2, <1>4, <1>5, <1>7 DEF Answering
  <2>. QED
    BY <1>1, <1>3, <2>1, HostKeeps DEF Phase, d
<1>8. CASE Sending(Device, rx, scsi, host)
  <2>1. Sending(d, rx, scsi, host')
    BY <1>1, <1>2, <1>3, <1>4, <1>5, <1>8 DEF Sending
  <2>. QED
    BY <1>1, <1>3, <2>1, HostKeeps DEF Phase, d
<1>9. CASE Receiving(Device, rx, scsi, host)
  BY <1>1, <1>2, <1>9 DEF Receiving
<1>. QED
  BY <1>2, <1>6, <1>7, <1>8, <1>9 DEF Phase

LEMMA ResetInv ==
    ASSUME ProtocolInv, Reset
    PROVE  ProtocolInv'
<1>1. /\ bot' = ResetTransport(bot) /\ scsi' = ResetScsi(scsi) /\ rx' = <<>> /\ tx' = <<>>
      /\ host' = [host EXCEPT !.st = "idle", !.cmd = None, !.got = <<>>, !.ok = FALSE,
                              !.left = 0, !.why = "any", !.asked = "any"]
  BY DEF Reset
<1>2. /\ DOMAIN bot' = BotFields /\ bot'.state = "WaitingForCommand" /\ bot'.buf = <<>>
  BY <1>1 DEF ProtocolInv, ResetTransport, BotFields
<1>3. /\ DOMAIN scsi' = ScsiFields /\ scsi'.cmd = None
  BY <1>1 DEF ResetScsi, ScsiFields
<1>4. DOMAIN host' = HostFields /\ host'.st = "idle"
  BY <1>1 DEF ProtocolInv, HostFields
<1>5. Device'.b = bot' /\ Device'.tx = <<>>
  BY <1>1 DEF Device
<1>6. Listening(Device', rx', scsi', host')
  BY <1>1, <1>2, <1>3, <1>4, <1>5 DEF Listening
<1>. QED
  BY <1>2, <1>3, <1>4, <1>6 DEF ProtocolInv, Phase

LEMMA FlashEreaseInv ==
    ASSUME ProtocolInv, FlashErease
    PROVE  ProtocolInv'
<1>1. /\ UNCHANGED <<bot, scsi, rx, tx>>
      /\ host' = [host EXCEPT !.erased = @ \/ (host.st # "idle" /\ ~erasing)]
  BY Zenon DEF FlashErease
<1>2. /\ DOMAIN host' = HostFields /\ host'.st = host.st /\ host'.cmd = host.cmd
      /\ host'.left = host.left
  BY <1>1 DEF ProtocolInv, HostFields
<1>3. Phase(Device, rx, scsi, host')
  BY <1>2 DEF ProtocolInv, Phase, Listening, Answering, Sending, Receiving
<1>. QED
  BY <1>1, <1>2, <1>3, HostKeeps DEF Device

LEMMA InitInv == Init => ProtocolInv
<1>. SUFFICES ASSUME Init PROVE ProtocolInv
  OBVIOUS
<1>1. /\ DOMAIN bot = BotFields /\ DOMAIN scsi = ScsiFields /\ DOMAIN host = HostFields
      /\ bot.state = "WaitingForCommand" /\ bot.buf = <<>> /\ scsi.cmd = None
      /\ rx = <<>> /\ tx = <<>> /\ host.st = "idle"
  BY DEF Init, BotFields, ScsiFields, HostFields
<1>2. Listening(Device, rx, scsi, host)
  BY <1>1 DEF Listening, Device
<1>. QED
  BY <1>1, <1>2 DEF ProtocolInv, Phase

LEMMA StepInv == ProtocolInv /\ [Next]_vars => ProtocolInv'
<1>. SUFFICES ASSUME ProtocolInv, [Next]_vars PROVE ProtocolInv'
  OBVIOUS
<1>1. CASE PollWrite \/ PollWriteAgain
  BY <1>1, PollWriteInv
<1>2. CASE PollRead
  BY <1>2, PollReadInv
<1>3. CASE PollSkip \/ PollUnknown \/ OtherEvent
  BY <1>3, QuietInv DEF PollSkip, PollUnknown, OtherEvent
<1>4. CASE PollCommand
  BY <1>4, PollCommandInv
<1>5. CASE HostSend
  BY <1>5, HostSendInv
<1>6. CASE HostOut
  BY <1>6, HostOutInv
<1>7. CASE HostTake
  BY <1>7, HostTakeInv
<1>8. CASE Reset
  BY <1>8, ResetInv
<1>9. CASE FlashErease
  BY <1>9, FlashEreaseInv
<1>10. CASE UNCHANGED vars
  BY <1>10, QuietInv DEF vars
<1>. QED
  BY <1>1, <1>2, <1>3, <1>4, <1>5, <1>6, <1>7, <1>8, <1>9, <1>10 DEF Next, Poll

LEMMA ProtocolUnderstands == ProtocolInv => CommandsAreUnderstood
<1>. SUFFICES ASSUME ProtocolInv PROVE CommandsAreUnderstood
  OBVIOUS
<1>1. /\ Phase(Device, rx, scsi, host) /\ Device.b = bot
  BY DEF ProtocolInv, Device
<1>2. ASSUME Transferring(bot)
      PROVE  /\ bot.cbw.tag = host.cmd.tag
             /\ bot.cbw.data_transfer_length = host.cmd.len
             /\ (bot.cbw.direction = DeviceToHost) = (host.cmd.dir = "in")
  <2>1. host.cmd \in Commands /\ bot.cbw = Cbw(host.cmd)
    BY <1>1, <1>2 DEF Phase, Transferring, Listening, Answering, Sending, Receiving
  <2>. QED
    BY <2>1, Understood DEF DeviceToHost
<1>3. ASSUME scsi.cmd # None
      PROVE  /\ scsi.cmd.op = host.cmd.op \/ host.cmd.op = "Unsupported"
             /\ scsi.cmd.op \in {"Read", "Write"} =>
                  scsi.cmd.lba = host.cmd.lba /\ scsi.cmd.count = host.cmd.count
  <2>1. /\ host.cmd \in Commands /\ bot.cbw = Cbw(host.cmd)
        /\ scsi.cmd = ExtractFromCbw(bot.cbw) /\ ExtractsFromCbw(bot.cbw)
    BY <1>1, <1>3 DEF Phase, Listening, Answering, Sending, Receiving
  <2>. QED
    BY <2>1, Extracted
<1>. QED
  BY <1>2, <1>3 DEF CommandsAreUnderstood

\* A command is understood as the host means it, whatever resets, erases,
\* events of other classes and packets come between any two steps.
THEOREM CommandsUnderstood == Spec => []CommandsAreUnderstood
<1>1. Init => ProtocolInv
  BY InitInv
<1>2. ProtocolInv /\ [Next]_vars => ProtocolInv'
  BY StepInv
<1>3. ProtocolInv => CommandsAreUnderstood
  BY ProtocolUnderstands
<1>. QED
  BY <1>1, <1>2, <1>3, PTL DEF Spec
=============================================================================
