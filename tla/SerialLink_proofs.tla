-------------------------- MODULE SerialLink_proofs --------------------------
(***************************************************************************)
(* What is proved of the serial port, for every set of bodies, every size  *)
(* of packets and buffers and any number of requests.                      *)
(*                                                                         *)
(* The argument for the framing: while every request fits a packet and     *)
(* none is cut, each of the three places bytes can be in - what the host   *)
(* has left, the endpoint, the read buffer - holds whole requests, but for *)
(* what the protobuf thread has read of the first one.  A read can then    *)
(* never fall short, and the next byte is always the one it looks for.     *)
(***************************************************************************)
EXTENDS SerialLink, SequenceTheorems, TLAPS

-----------------------------------------------------------------------------
(* Sequences of bytes *)

\* The first n elements and the rest.
LEMMA Cut ==
    ASSUME NEW S, NEW s \in Seq(S), NEW n \in 0..Len(s)
    PROVE  /\ SubSeq(s, 1, n) \in Seq(S) /\ Len(SubSeq(s, 1, n)) = n
           /\ \A i \in 1..n : SubSeq(s, 1, n)[i] = s[i]
           /\ SubSeq(s, n + 1, Len(s)) \in Seq(S)
           /\ Len(SubSeq(s, n + 1, Len(s))) = Len(s) - n
           /\ \A i \in 1..Len(s) - n : SubSeq(s, n + 1, Len(s))[i] = s[i + n]
<1>1. Len(s) \in Nat /\ \A i \in 1..Len(s) : s[i] \in S
  BY ElementOfSeq, LenProperties
<1>2. /\ SubSeq(s, 1, n) \in Seq(S) /\ Len(SubSeq(s, 1, n)) = n
      /\ \A i \in 1..n : SubSeq(s, 1, n)[i] = s[i]
  <2>1. \A i \in 1..n : s[i] \in S
    BY <1>1
  <2>. QED
    BY <1>1, <2>1, SubSeqProperties
<1>3. /\ SubSeq(s, n + 1, Len(s)) \in Seq(S)
      /\ Len(SubSeq(s, n + 1, Len(s))) = Len(s) - n
      /\ \A i \in 1..Len(s) - n : SubSeq(s, n + 1, Len(s))[i] = s[i + n]
  <2>1. \A i \in n + 1..Len(s) : s[i] \in S
    BY <1>1
  <2>. QED
    BY <1>1, <2>1, SubSeqProperties
<1>. QED
  BY <1>2, <1>3

\* What SerialStream::read of up to n bytes takes and leaves.
LEMMA ReadsSome ==
    ASSUME NEW n \in Nat, rx \in Seq(Nat), Len(rx) <= RxSize, Reads(n)
    PROVE  /\ Available(n) \in Seq(Nat) /\ Len(Available(n)) = Smaller(n, Len(rx))
           /\ \A i \in 1..Smaller(n, Len(rx)) : Available(n)[i] = rx[i]
           /\ rx' \in Seq(Nat) /\ Len(rx') = Len(rx) - Smaller(n, Len(rx))
           /\ \A i \in 1..Len(rx') : rx'[i] = rx[i + Smaller(n, Len(rx))]
           /\ Len(rx) > 0 /\ Len(rx') <= RxSize
<1>1. Len(rx) \in Nat \ {0}
  BY EmptySeq DEF Reads
<1>2. Smaller(n, Len(rx)) \in 0..Len(rx)
  BY <1>1 DEF Smaller
<1>3. rx' = SubSeq(rx, Smaller(n, Len(rx)) + 1, Len(rx))
  BY DEF Reads
<1>4. /\ Available(n) \in Seq(Nat) /\ Len(Available(n)) = Smaller(n, Len(rx))
      /\ \A i \in 1..Smaller(n, Len(rx)) : Available(n)[i] = rx[i]
  BY <1>2, Cut DEF Available
<1>5. /\ rx' \in Seq(Nat) /\ Len(rx') = Len(rx) - Smaller(n, Len(rx))
      /\ \A i \in 1..Len(rx) - Smaller(n, Len(rx)) : rx'[i] = rx[i + Smaller(n, Len(rx))]
  BY <1>2, <1>3, Cut
<1>6. Len(rx') <= RxSize
  BY <1>1, <1>2, <1>5, LinkAssumption
<1>. QED
  BY <1>1, <1>4, <1>5, <1>6

\* The buffer of a body holds as many bytes as the header said.
LEMMA FilledType ==
    ASSUME size \in Nat, NEW bytes \in Seq(Nat)
    PROVE  Filled(bytes) \in Seq(Nat) /\ Len(Filled(bytes)) = size
<1>1. Filled(bytes) \in [1..size -> Nat]
  BY ElementOfSeq, LenProperties DEF Filled
<1>. QED
  BY <1>1, SeqDef, LenProperties

-----------------------------------------------------------------------------
(* Types *)

\* A request on the wire: magick, size and body.
Message(body) == <<Magic, Len(body)>> \o body

LEMMA MessageIs ==
    ASSUME NEW body \in Bodies
    PROVE  /\ Message(body) \in Seq(Nat) /\ Len(body) \in 1..MaxSize
           /\ body \in Seq(Nat) /\ Len(body) \in Nat
           /\ Len(Message(body)) = 2 + Len(body)
           /\ Message(body)[1] = Magic /\ Message(body)[2] = Len(body)
           /\ \A i \in 1..Len(body) : Message(body)[i + 2] = body[i]
<1>1. body \in Seq(Nat) /\ Len(body) \in 1..MaxSize /\ Magic \in Nat
  BY LinkAssumption
<1>2. /\ <<Magic, Len(body)>> \in Seq(Nat) /\ Len(<<Magic, Len(body)>>) = 2
      /\ <<Magic, Len(body)>>[1] = Magic /\ <<Magic, Len(body)>>[2] = Len(body)
  BY <1>1, LinkAssumption
<1>. QED
  BY <1>1, <1>2, ConcatProperties DEF Message

LEMMA InitType == Init => TypeOK
<1>1. /\ <<>> \in Seq(Nat) /\ <<>> \in Seq(Bodies) /\ <<>> \in Seq(Seq(Nat))
      /\ Len(<<>>) <= PacketSize /\ Len(<<>>) <= RxSize
      /\ 0 \in 0..TxSize /\ 0 \in 0..ResponseSize
  BY LinkAssumption, EmptySeq
<1>. SUFFICES ASSUME Init PROVE TypeOK
  OBVIOUS
<1>2. /\ wire \in Seq(Nat) /\ ep \in Seq(Nat) /\ rx \in Seq(Nat)
      /\ sent \in Seq(Bodies) /\ executed \in Seq(Seq(Nat))
      /\ Len(ep) <= PacketSize /\ Len(rx) <= RxSize
  BY <1>1 DEF Init
<1>3. tx \in 0..TxSize /\ left \in 0..ResponseSize /\ size \in Nat
  BY <1>1 DEF Init
<1>. QED
  BY <1>2, <1>3 DEF Init, TypeOK

\* The host and its bus.
LEMMA HostType ==
    ASSUME TypeOK, Host
    PROVE  TypeOK'
<1>1. CASE SendRequest
  <2>1. PICK body \in Bodies :
          /\ wire' = Message(body) /\ sent' = Append(sent, body)
          /\ split' = (split \/ Len(wire') > PacketSize)
    BY <1>1 DEF SendRequest, Message
  <2>2. wire' \in Seq(Nat) /\ sent' \in Seq(Bodies) /\ split' \in BOOLEAN
    BY <2>1, MessageIs, AppendProperties DEF TypeOK
  <2>3. UNCHANGED <<busVars, portVars, usbdVars, lock, protVars, protNote>>
    BY <1>1 DEF SendRequest
  <2>. QED
    BY <2>2, <2>3 DEF TypeOK, busVars, portVars, usbdVars, protVars
<1>2. CASE GiveUp
  <2>1. wire' \in Seq(Nat) /\ split' \in BOOLEAN
    BY <1>2, EmptySeq DEF GiveUp
  <2>. QED
    BY <1>2, <2>1 DEF GiveUp, TypeOK, busVars, portVars, usbdVars, protVars
<1>3. CASE PutPacket
  <2>1. Smaller(PacketSize, Len(wire)) \in 0..Len(wire)
        /\ Smaller(PacketSize, Len(wire)) <= PacketSize
    BY LinkAssumption, LenProperties DEF Smaller, TypeOK
  <2>2. wire' \in Seq(Nat) /\ ep' \in Seq(Nat) /\ Len(ep') <= PacketSize
    BY <1>3, <2>1, Cut DEF PutPacket, TypeOK
  <2>. QED
    BY <1>3, <2>2 DEF PutPacket, TypeOK, portVars, usbdVars, protVars
<1>4. CASE ReadIn
  <2>1. tx' \in 0..TxSize /\ inDone' \in BOOLEAN
    BY <1>4, LinkAssumption DEF ReadIn
  <2>. QED
    BY <1>4, <2>1 DEF ReadIn, TypeOK, hostVars, usbdVars, protVars
<1>. QED
  BY <1>1, <1>2, <1>3, <1>4 DEF Host

LEMMA UsbdType ==
    ASSUME TypeOK, Interrupt \/ UsbdThread
    PROVE  TypeOK'
<1>1. CASE Interrupt
  BY <1>1 DEF Interrupt, TypeOK, hostVars, busVars, portVars, protVars
<1>2. CASE Poll
  <2>1. rx' \in Seq(Nat) /\ Len(rx') <= RxSize
    BY <1>2, ConcatProperties DEF Poll, TypeOK
  <2>2. ep' \in Seq(Nat) /\ Len(ep') <= PacketSize
    BY <1>2, EmptySeq, LinkAssumption DEF Poll
  <2>. QED
    BY <1>2, <2>1, <2>2 DEF Poll, TypeOK, hostVars, usbdVars, protVars
<1>3. CASE LockTimeout
  BY <1>3 DEF LockTimeout, TypeOK, hostVars, busVars, portVars, usbdVars, protVars
<1>4. CASE Sleep
  BY <1>4 DEF Sleep, TypeOK, hostVars, busVars, portVars, protVars
<1>5. CASE Wake
  BY <1>5 DEF Wake, TypeOK, hostVars, busVars, portVars, protVars
<1>. QED
  BY <1>1, <1>2, <1>3, <1>4, <1>5 DEF UsbdThread

LEMMA ProtobufType ==
    ASSUME TypeOK, ProtobufThread
    PROVE  TypeOK'
<1>1. CASE Block
  BY <1>1 DEF Block, TypeOK, hostVars, busVars, portVars, usbdVars
<1>2. CASE Unblock
  BY <1>2 DEF Unblock, TypeOK, hostVars, busVars, portVars, usbdVars
<1>3. CASE ReadMagick
  <2>1. Reads(1) /\ need' \in {"magick", "size"}
    BY <1>3 DEF ReadMagick
  <2>2. rx' \in Seq(Nat) /\ Len(rx') <= RxSize
    BY <2>1, ReadsSome DEF TypeOK
  <2>. QED
    BY <1>3, <2>1, <2>2 DEF ReadMagick, TypeOK, hostVars, busVars, usbdVars
<1>4. CASE ReadSize
  <2>1. Reads(1) /\ need' \in {"magick", "body"}
    BY <1>4 DEF ReadSize
  <2>2. /\ rx' \in Seq(Nat) /\ Len(rx') <= RxSize
    BY <2>1, ReadsSome DEF TypeOK
  <2>3. size' \in Nat /\ (need' = "body" => size' \in 1..MaxSize)
    <3>1. rx \in Seq(Nat) /\ 1 \in 1..Len(rx)
      BY <2>1, ReadsSome, LenProperties DEF TypeOK
    <3>. QED
      BY <1>4, <3>1, ElementOfSeq DEF ReadSize
  <2>. QED
    BY <1>4, <2>1, <2>2, <2>3 DEF ReadSize, TypeOK, hostVars, busVars, usbdVars
<1>5. CASE ReadBody
  <2>1. /\ Reads(size) /\ need' = "magick" /\ prot = "read"
        /\ UNCHANGED <<hostVars, busVars, tx, usbdVars, lock, size, protNote>>
    BY <1>5 DEF ReadBody, BodySize, Reads
  <2>2. /\ rx' \in Seq(Nat) /\ Len(rx') <= RxSize
        /\ Available(size) \in Seq(Nat)
    BY <2>1, ReadsSome DEF TypeOK
  <2>3. Filled(Available(size)) \in Seq(Nat)
    BY <2>2, FilledType DEF TypeOK
  <2>4. /\ executed' \in {executed, Append(executed, Filled(Available(size)))}
        /\ left' \in {left, ResponseSize} /\ prot' \in {"read", "write"}
    BY <1>5, <2>1 DEF ReadBody, BodySize
  <2>5. executed' \in Seq(Seq(Nat))
    <3>1. executed \in Seq(Seq(Nat))
      BY DEF TypeOK
    <3>2. Append(executed, Filled(Available(size))) \in Seq(Seq(Nat))
      BY <2>3, <3>1, AppendProperties
    <3>. QED
      BY <2>4, <3>1, <3>2
  <2>6. left' \in 0..ResponseSize
    BY <2>4, LinkAssumption DEF TypeOK
  <2>. QED
    BY <2>1, <2>2, <2>4, <2>5, <2>6 DEF TypeOK, hostVars, busVars, usbdVars
<1>6. CASE WriteResponse
  <2>1. /\ tx' \in 0..TxSize /\ left' \in 0..ResponseSize
        /\ prot = "write" /\ prot' \in {"read", "write"}
    BY <1>6, LinkAssumption DEF WriteResponse, Smaller, TypeOK
  <2>. QED
    BY <1>6, <2>1 DEF WriteResponse, TypeOK, hostVars, busVars, usbdVars
<1>. QED
  BY <1>1, <1>2, <1>3, <1>4, <1>5, <1>6 DEF ProtobufThread

LEMMA StepType == TypeOK /\ [Next]_vars => TypeOK'
<1>1. CASE UNCHANGED vars
  BY <1>1 DEF vars, TypeOK, hostVars, busVars, portVars, usbdVars, protVars
<1>. QED
  BY <1>1, HostType, UsbdType, ProtobufType DEF Next

\* The state keeps its types for all sizes and bodies, and the mutex is kept
\* exactly by a protobuf thread that waits for bytes (block_thread, read).
THEOREM LinkType == Spec => []TypeOK
BY InitType, StepType, PTL DEF Spec

-----------------------------------------------------------------------------
(* The interrupt *)

\* A usbd thread that waits has its notification or an interrupt that can bring
\* it: the interrupt masks itself only as it notifies (USB_FS, usbd).
LEMMA CanBeWoken == Spec => [](usbd = "wait" => usbdNote \/ ~masked)
<1>. DEFINE Awake == usbd = "wait" => usbdNote \/ ~masked
<1>1. Init => Awake
  BY DEF Init
<1>2. Awake /\ [Next]_vars => Awake'
  BY DEF Next, Host, SendRequest, GiveUp, PutPacket, ReadIn, Interrupt, UsbdThread, Poll,
         LockTimeout, Sleep, Wake, ProtobufThread, Block, Unblock, ReadMagick, ReadSize,
         ReadBody, WriteResponse, vars, usbdVars
<1>. QED
  BY <1>1, <1>2, PTL DEF Spec

\* No event of the bus is slept on, whatever the sizes of the buffers and the
\* order of interrupt, unmask and wait (usbd.rs:106-145).
THEOREM EventsAreHeard == Spec => []NoSleepOnEvent
<1>1. (usbd = "wait" => usbdNote \/ ~masked) => NoSleepOnEvent
  BY DEF NoSleepOnEvent
<1>. QED
  BY CanBeWoken, <1>1, PTL

-----------------------------------------------------------------------------
(* The framing *)

\* Bytes of request k of msgs, and that the first n have such.
Size(msgs, k) == 2 + Len(msgs[k])

Sized(msgs, n) == \A k \in 1..n : Size(msgs, k) \in Nat

\* The r bytes of rest are what is left of the b bytes of buf without the first n.
Drops(rest, r, buf, b, n) == r = b - n /\ \A i \in 1..r : rest[i] = buf[i + n]

\* The buffer buf with its b bytes holds the requests done + 1 .. here of msgs
\* one behind the other, but for the first c bytes, which are read: start[k]
\* bytes, counted with those, are before request k.
Starts == [Nat -> Int]

Framed(start, done, here, c, buf, b, msgs) ==
    /\ start[done + 1] = 0
    /\ start[here + 1] = c + b
    /\ \A k \in done + 1..here :
         /\ start[k + 1] = start[k] + Size(msgs, k)
         /\ start[k + 1] <= c + b
         /\ \A i \in 1..Size(msgs, k) :
              start[k] + i > c => buf[start[k] + i - c] = Message(msgs[k])[i]

Shifted(new, start, m) == \A k \in Nat : new[k] = start[k] - m

LEMMA RequestSize ==
    ASSUME NEW msgs \in Seq(Bodies)
    PROVE  \A n \in 0..Len(msgs) :
             /\ Sized(msgs, n)
             /\ \A k \in 1..n : msgs[k] \in Bodies /\ Size(msgs, k) \in Nat
<1>1. \A k \in 1..Len(msgs) : msgs[k] \in Bodies
  BY ElementOfSeq
<1>2. \A body \in Bodies : 2 + Len(body) \in Nat
  BY MessageIs
<1>3. \A k \in 1..Len(msgs) : msgs[k] \in Bodies /\ Size(msgs, k) \in Nat
  BY <1>1, <1>2 DEF Size
<1>. QED
  BY <1>3, LenProperties DEF Sized

\* If there is anything in the buffer, or something has been read of a request,
\* then there is a request.
LEMMA FramedHasRequest ==
    ASSUME NEW start \in Starts, NEW done \in Nat, NEW here \in Nat, done <= here,
           NEW c \in Nat, NEW buf, NEW b \in Nat, NEW msgs, Sized(msgs, here),
           Framed(start, done, here, c, buf, b, msgs), c + b > 0
    PROVE  /\ done + 1 \in 1..here
           /\ c + b >= Size(msgs, done + 1)
           /\ \A i \in 1..Size(msgs, done + 1) :
                i > c => buf[i - c] = Message(msgs[done + 1])[i]
<1>1. done < here
  <2>1. start[done + 1] = 0 /\ start[here + 1] = c + b
    BY DEF Framed
  <2>. QED
    BY <2>1
<1>2. done + 1 \in done + 1..here /\ done + 1 \in 1..here
  BY <1>1
<1>3. Size(msgs, done + 1) \in Nat
  BY <1>2 DEF Sized
<1>4. start[done + 1] = 0
  BY DEF Framed
<1>5. /\ start[done + 1 + 1] = start[done + 1] + Size(msgs, done + 1)
      /\ start[done + 1 + 1] <= c + b
  BY <1>2 DEF Framed
<1>6. \A i \in 1..Size(msgs, done + 1) :
        start[done + 1] + i > c =>
          buf[start[done + 1] + i - c] = Message(msgs[done + 1])[i]
  BY <1>2 DEF Framed
<1>7. c + b >= Size(msgs, done + 1)
  BY <1>3, <1>4, <1>5
<1>8. ASSUME NEW i \in 1..Size(msgs, done + 1), i > c
      PROVE  buf[i - c] = Message(msgs[done + 1])[i]
  <2>1. i \in Int
    BY <1>3
  <2>2. start[done + 1] + i = i
    BY <1>4, <2>1
  <2>3. start[done + 1] + i > c
    BY <1>8, <2>2
  <2>4. buf[start[done + 1] + i - c] = Message(msgs[done + 1])[i]
    BY <1>6, <2>3
  <2>5. start[done + 1] + i - c = i - c
    BY <1>4, <2>1
  <2>. QED
    BY <2>4, <2>5
<1>. QED
  BY <1>2, <1>7, <1>8

\* Bytes are read of the first request: what was before the others is less by n,
\* whether they are counted as read or as gone.
LEMMA FramedRest ==
    ASSUME NEW start \in Starts, NEW done \in Nat, NEW here \in Nat,
           NEW c \in Nat, NEW buf, NEW b \in Nat, NEW msgs, Sized(msgs, here),
           Framed(start, done, here, c, buf, b, msgs),
           NEW n \in Nat, NEW rest, NEW r \in Nat, Drops(rest, r, buf, b, n),
           NEW new \in Starts, NEW d \in Nat, Shifted(new, start, c + n - d),
           NEW first \in Nat, first >= done, new[first + 1] = 0
    PROVE  Framed(new, first, here, d, rest, r, msgs)
<1>1. r = b - n
  BY DEF Drops
<1>2. start[here + 1] = c + b /\ new[here + 1] = start[here + 1] - (c + n - d)
  BY DEF Framed, Shifted
<1>3. new[here + 1] = d + r
  BY <1>1, <1>2
<1>4. ASSUME NEW k \in first + 1..here
      PROVE  /\ new[k + 1] = new[k] + Size(msgs, k) /\ new[k + 1] <= d + r
             /\ \A i \in 1..Size(msgs, k) :
                  new[k] + i > d => rest[new[k] + i - d] = Message(msgs[k])[i]
  <2>1. k \in Nat /\ k + 1 \in Nat /\ k \in done + 1..here /\ k \in 1..here
    OBVIOUS
  <2>2. PICK z \in Nat : z = Size(msgs, k)
    BY <2>1 DEF Sized
  <2>3. PICK s \in Int : s = start[k]
    BY <2>1 DEF Starts
  <2>4. start[k + 1] = s + z /\ s + z <= c + b
    BY <2>1, <2>2, <2>3 DEF Framed
  <2>5. PICK x \in Int : x = new[k] /\ x = s - (c + n - d)
    BY <2>1, <2>3 DEF Starts, Shifted
  <2>6. new[k + 1] = (s + z) - (c + n - d)
    BY <2>1, <2>4 DEF Shifted
  <2>7. new[k + 1] = x + z /\ x + z <= d + r
    BY <1>1, <2>4, <2>5, <2>6
  <2>8. ASSUME NEW i \in 1..z, x + i > d
        PROVE  rest[x + i - d] = Message(msgs[k])[i]
    <3>1. PICK j \in Int : j = x + i - d
      OBVIOUS
    <3>2. j \in 1..r /\ j + n = s + i - c /\ s + i > c
      BY <1>1, <2>5, <2>7, <2>8, <3>1
    <3>3. rest[j] = buf[j + n]
      BY <3>2 DEF Drops
    <3>4. buf[s + i - c] = Message(msgs[k])[i]
      BY <2>1, <2>2, <2>3, <3>2 DEF Framed
    <3>. QED
      BY <3>1, <3>2, <3>3, <3>4
  <2>. QED
    BY <2>2, <2>5, <2>7, <2>8
<1>. QED
  BY <1>3, <1>4 DEF Framed

\* A request arrives: it lies behind the others.
LEMMA FramedMore ==
    ASSUME NEW start \in Starts, NEW done \in Nat, NEW here \in Nat, done <= here,
           NEW c \in Nat, NEW buf, NEW b \in Nat, NEW msgs, Sized(msgs, here + 1),
           Framed(start, done, here, c, buf, b, msgs),
           NEW more, NEW m \in Nat, m = b + Size(msgs, here + 1),
           \A i \in 1..b : more[i] = buf[i],
           \A i \in 1..Size(msgs, here + 1) : more[b + i] = Message(msgs[here + 1])[i]
    PROVE  \E new \in Starts : Framed(new, done, here + 1, c, more, m, msgs)
<1>. DEFINE new == [start EXCEPT ![here + 2] = c + m]
<1>1. /\ new \in Starts /\ new[here + 2] = c + m
      /\ \A k \in 1..here + 1 : new[k] = start[k]
  BY DEF Starts
<1>. HIDE DEF new
<1>2. start[done + 1] = 0 /\ start[here + 1] = c + b
  BY DEF Framed
<1>3. PICK z \in Nat : z = Size(msgs, here + 1)
  BY DEF Sized
<1>4. new[done + 1] = 0 /\ new[here + 1] = c + b
  BY <1>1, <1>2
<1>5. ASSUME NEW k \in done + 1..here + 1
      PROVE  /\ new[k + 1] = new[k] + Size(msgs, k) /\ new[k + 1] <= c + m
             /\ \A i \in 1..Size(msgs, k) :
                  new[k] + i > c => more[new[k] + i - c] = Message(msgs[k])[i]
  <2>1. CASE k = here + 1
    <3>1. new[k + 1] = c + m /\ new[k] = c + b
      BY <1>1, <1>4, <2>1
    <3>2. ASSUME NEW i \in 1..Size(msgs, k)
          PROVE  more[new[k] + i - c] = Message(msgs[k])[i]
      <4>1. new[k] + i - c = b + i
        BY <1>3, <2>1, <3>1
      <4>. QED
        BY <2>1, <4>1
    <3>. QED
      BY <1>3, <2>1, <3>1, <3>2
  <2>2. CASE k \in done + 1..here
    <3>1. PICK w \in Nat : w = Size(msgs, k)
      BY <2>2 DEF Sized
    <3>2. PICK s \in Int : s = start[k] /\ s = new[k]
      BY <1>1, <2>2 DEF Starts
    <3>3. start[k + 1] = s + w /\ s + w <= c + b /\ new[k + 1] = start[k + 1]
      BY <1>1, <2>2, <3>1, <3>2 DEF Framed
    <3>4. ASSUME NEW i \in 1..w, s + i > c
          PROVE  more[s + i - c] = Message(msgs[k])[i]
      <4>1. PICK j \in Int : j = s + i - c
        OBVIOUS
      <4>2. j \in 1..b
        BY <3>3, <3>4, <4>1
      <4>3. buf[s + i - c] = Message(msgs[k])[i]
        BY <2>2, <3>1, <3>2, <3>4 DEF Framed
      <4>. QED
        BY <4>1, <4>2, <4>3
    <3>. QED
      BY <1>3, <3>1, <3>2, <3>3, <3>4
  <2>. QED
    BY <2>1, <2>2
<1>6. Framed(new, done, here + 1, c, more, m, msgs)
  BY <1>1, <1>4, <1>5 DEF Framed
<1>. QED
  BY <1>1, <1>6

\* What the host sends later changes nothing of it.
LEMMA FramedSent ==
    ASSUME NEW start, NEW done \in Nat, NEW here \in Nat, NEW c, NEW buf, NEW b,
           NEW msgs, NEW longer, \A k \in 1..here : longer[k] = msgs[k],
           Framed(start, done, here, c, buf, b, msgs)
    PROVE  Framed(start, done, here, c, buf, b, longer)
<1>1. \A k \in done + 1..here : longer[k] = msgs[k] /\ Size(longer, k) = Size(msgs, k)
  BY DEF Size
<1>. QED
  BY <1>1 DEF Framed

-----------------------------------------------------------------------------
(* The inductive invariant *)

Held(bytes) == IF bytes = <<>> THEN 0 ELSE 1

\* Requests that are in the read buffer or were taken from it.
Arrived == Len(sent) - Held(wire) - Held(ep)

\* Bytes that the protobuf thread has read of the request it is at.
Consumed == IF need = "magick" THEN 0 ELSE IF need = "size" THEN 1 ELSE 2

\* What the host has not sent and what is in the endpoint are whole requests,
\* the last ones, and a request that is left is left as one packet.
WholePackets ==
    /\ wire # <<>> => /\ Len(sent) > 0 /\ wire = Message(sent[Len(sent)])
                     /\ Len(wire) <= PacketSize
    /\ ep # <<>> => Arrived + 1 \in 1..Len(sent) /\ ep = Message(sent[Arrived + 1])

\* The first requests were executed, the others that arrived are in the buffer.
WholeRequests ==
    /\ Arrived \in Nat /\ Len(executed) <= Arrived
    /\ \A k \in 1..Len(executed) : executed[k] = sent[k]
    /\ \E start \in Starts :
         Framed(start, Len(executed), Arrived, Consumed, rx, Len(rx), sent)

\* A size that was read is that of the request the thread is at.
SizeInHand == need = "body" => size = Len(sent[Len(executed) + 1])

Inv == ~split => WholePackets /\ WholeRequests /\ SizeInHand

\* Steps that touch neither bytes nor requests.
LEMMA QuietInv ==
    ASSUME Inv, UNCHANGED <<wire, ep, rx, sent, executed, need, size, split>>
    PROVE  Inv'
BY DEF Inv, WholePackets, WholeRequests, SizeInHand, Arrived, Held, Consumed

LEMMA InitInv == Init => Inv
<1>. SUFFICES ASSUME Init PROVE WholePackets /\ WholeRequests /\ SizeInHand
  BY DEF Inv
<1>. DEFINE start == [k \in Nat |-> 0]
<1>1. start \in Starts /\ start[1] = 0
  BY DEF Starts
<1>. HIDE DEF start
<1>2. Len(sent) = 0 /\ Len(executed) = 0 /\ Len(rx) = 0
  BY EmptySeq DEF Init
<1>3. Arrived = 0 /\ Consumed = 0
  BY <1>2 DEF Init, Arrived, Held, Consumed
<1>4. Framed(start, 0, 0, 0, rx, 0, sent)
  BY <1>1 DEF Framed
<1>. QED
  BY <1>1, <1>2, <1>3, <1>4 DEF Init, WholePackets, WholeRequests, SizeInHand

LEMMA Lengths ==
    ASSUME TypeOK
    PROVE  /\ Len(wire) \in Nat /\ Len(ep) \in Nat /\ Len(rx) \in Nat
           /\ Len(sent) \in Nat /\ Len(executed) \in Nat /\ Consumed \in 0..2
           /\ Held(wire) \in 0..1 /\ Held(ep) \in 0..1
BY LenProperties DEF TypeOK, Held, Consumed

\* The request the protobuf thread is at, if there is one, and its bytes.
LEMMA AtRequest ==
    ASSUME TypeOK, WholeRequests, Consumed > 0 \/ rx # <<>>
    PROVE  LET here == Len(executed) + 1 IN
           /\ here \in 1..Arrived /\ Arrived \in 0..Len(sent) /\ sent[here] \in Bodies
           /\ Consumed + Len(rx) >= Size(sent, here)
           /\ \A i \in 1..Size(sent, here) :
                i > Consumed => rx[i - Consumed] = Message(sent[here])[i]
<1>1. /\ Arrived \in Nat /\ Len(executed) <= Arrived /\ Arrived \in 0..Len(sent)
      /\ Consumed + Len(rx) > 0 /\ Consumed \in Nat
      /\ Len(executed) \in Nat /\ Len(rx) \in Nat
  BY Lengths, EmptySeq DEF WholeRequests, Arrived, TypeOK
<1>2. PICK start \in Starts :
        Framed(start, Len(executed), Arrived, Consumed, rx, Len(rx), sent)
  BY DEF WholeRequests
<1>3. /\ Sized(sent, Arrived)
      /\ \A k \in 1..Arrived : sent[k] \in Bodies
  BY <1>1, RequestSize DEF TypeOK
<1>4. /\ Len(executed) + 1 \in 1..Arrived
      /\ Consumed + Len(rx) >= Size(sent, Len(executed) + 1)
      /\ \A i \in 1..Size(sent, Len(executed) + 1) :
           i > Consumed => rx[i - Consumed] = Message(sent[Len(executed) + 1])[i]
  BY <1>1, <1>2, <1>3, FramedHasRequest
<1>. QED
  BY <1>1, <1>3, <1>4

LEMMA SendRequestInv ==
    ASSUME TypeOK, TypeOK', Inv, SendRequest
    PROVE  Inv'
<1>. SUFFICES ASSUME ~split' PROVE (WholePackets /\ WholeRequests /\ SizeInHand)'
  BY DEF Inv
<1>1. PICK body \in Bodies :
        /\ wire' = Message(body) /\ sent' = Append(sent, body)
        /\ split' = (split \/ Len(wire') > PacketSize)
  BY DEF SendRequest, Message
<1>2. /\ wire = <<>> /\ UNCHANGED <<ep, rx, executed, need, size>> /\ ~split
  BY <1>1 DEF SendRequest, busVars, portVars, protVars
<1>3. WholePackets /\ WholeRequests /\ SizeInHand
  BY <1>2 DEF Inv
<1>4. /\ Len(sent') = Len(sent) + 1 /\ sent'[Len(sent) + 1] = body
      /\ \A k \in 1..Len(sent) : sent'[k] = sent[k]
  BY <1>1, AppendProperties DEF TypeOK
<1>5. wire' # <<>> /\ Len(wire') <= PacketSize
  <2>1. ~(Len(wire') > PacketSize)
    BY <1>1
  <2>2. Len(wire') = 2 + Len(body) /\ Len(body) \in Nat
    BY <1>1, MessageIs
  <2>. QED
    BY <2>1, <2>2, EmptySeq, LinkAssumption
<1>6. Arrived' = Arrived /\ Consumed' = Consumed
  BY <1>2, <1>4, <1>5, Lengths DEF Arrived, Held, Consumed
<1>7. Arrived \in Nat /\ Arrived <= Len(sent) /\ Len(executed) <= Arrived
  BY <1>3, Lengths DEF WholeRequests, Arrived
<1>8. WholePackets'
  BY <1>1, <1>2, <1>3, <1>4, <1>5, <1>6, Lengths DEF WholePackets
<1>9. WholeRequests'
  <2>1. PICK start \in Starts :
          Framed(start, Len(executed), Arrived, Consumed, rx, Len(rx), sent)
    BY <1>3 DEF WholeRequests
  <2>2. \A k \in 1..Arrived : sent'[k] = sent[k]
    BY <1>4, <1>7, Lengths
  <2>3. Framed(start, Len(executed), Arrived, Consumed, rx, Len(rx), sent')
    BY <1>7, <2>1, <2>2, FramedSent, Lengths
  <2>4. \A k \in 1..Len(executed) : executed[k] = sent'[k]
    BY <1>3, <1>7, <2>2, Lengths DEF WholeRequests
  <2>. QED
    BY <1>2, <1>6, <1>7, <2>3, <2>4 DEF WholeRequests
<1>10. SizeInHand'
  <2>. SUFFICES ASSUME need = "body" PROVE size = Len(sent'[Len(executed) + 1])
    BY <1>2 DEF SizeInHand
  <2>1. Len(executed) + 1 \in 1..Arrived
    BY <1>3, AtRequest DEF Consumed
  <2>. QED
    BY <1>3, <1>4, <1>7, <2>1, Lengths DEF SizeInHand
<1>. QED
  BY <1>8, <1>9, <1>10

LEMMA PutPacketInv ==
    ASSUME TypeOK, TypeOK', Inv, PutPacket
    PROVE  Inv'
<1>. SUFFICES ASSUME ~split' PROVE (WholePackets /\ WholeRequests /\ SizeInHand)'
  BY DEF Inv
<1>1. /\ wire # <<>> /\ ep = <<>> /\ UNCHANGED <<rx, executed, need, size, sent, split>>
  BY DEF PutPacket, portVars, protVars
<1>2. WholePackets /\ WholeRequests /\ SizeInHand
  BY <1>1 DEF Inv
<1>3. Len(wire) <= PacketSize /\ wire = Message(sent[Len(sent)]) /\ Len(sent) > 0
  BY <1>1, <1>2 DEF WholePackets
<1>4. Smaller(PacketSize, Len(wire)) = Len(wire)
  BY <1>3, Lengths, LinkAssumption DEF Smaller
<1>5. ep' = wire /\ wire' = <<>>
  <2>1. ep' = SubSeq(wire, 1, Len(wire)) /\ wire' = SubSeq(wire, Len(wire) + 1, Len(wire))
    BY <1>4 DEF PutPacket
  <2>. QED
    BY <2>1, SubSeqFull, SubSeqEmpty, Lengths DEF TypeOK
<1>6. Arrived' = Arrived /\ Consumed' = Consumed /\ Arrived = Len(sent) - 1
  BY <1>1, <1>5, Lengths DEF Arrived, Held, Consumed
<1>7. WholePackets'
  BY <1>1, <1>3, <1>5, <1>6, Lengths DEF WholePackets
<1>8. WholeRequests' /\ SizeInHand'
  BY <1>1, <1>2, <1>6 DEF WholeRequests, SizeInHand
<1>. QED
  BY <1>7, <1>8

LEMMA PollInv ==
    ASSUME TypeOK, TypeOK', Inv, Poll
    PROVE  Inv'
<1>. SUFFICES ASSUME ~split' PROVE (WholePackets /\ WholeRequests /\ SizeInHand)'
  BY DEF Inv
<1>1. /\ UNCHANGED <<wire, sent, split, executed, need, size>>
      /\ rx' = rx \o ep /\ ep' = <<>>
  BY DEF Poll, hostVars, protVars
<1>2. WholePackets /\ WholeRequests /\ SizeInHand
  BY <1>1 DEF Inv
<1>3. WholePackets' /\ SizeInHand' /\ Consumed' = Consumed
  BY <1>1, <1>2 DEF WholePackets, SizeInHand, Consumed
<1>4. CASE ep = <<>>
  <2>1. rx' = rx /\ Arrived' = Arrived
    BY <1>1, <1>4, ConcatEmptySeq DEF TypeOK, Arrived
  <2>. QED
    BY <1>1, <1>2, <1>3, <2>1 DEF WholeRequests
<1>5. CASE ep # <<>>
  <2>1. /\ Arrived + 1 \in 1..Len(sent) /\ ep = Message(sent[Arrived + 1])
        /\ Arrived \in Nat /\ Len(executed) <= Arrived
    BY <1>2, <1>5 DEF WholePackets, WholeRequests
  <2>2. Arrived' = Arrived + 1
    BY <1>1, <1>5, Lengths DEF Arrived, Held
  <2>3. sent[Arrived + 1] \in Bodies /\ Sized(sent, Arrived + 1)
    BY <2>1, RequestSize, Lengths DEF TypeOK
  <2>4. Len(ep) = Size(sent, Arrived + 1)
    BY <2>1, <2>3, MessageIs DEF Size
  <2>5. /\ Len(rx') = Len(rx) + Size(sent, Arrived + 1)
        /\ \A i \in 1..Len(rx) : rx'[i] = rx[i]
        /\ \A i \in 1..Size(sent, Arrived + 1) : rx'[Len(rx) + i] = Message(sent[Arrived + 1])[i]
    <3>1. /\ Len(rx') = Len(rx) + Len(ep)
          /\ \A i \in 1..Len(rx) + Len(ep) :
               rx'[i] = IF i <= Len(rx) THEN rx[i] ELSE ep[i - Len(rx)]
      BY <1>1, ConcatProperties DEF TypeOK
    <3>2. \A i \in 1..Len(rx) : i \in 1..Len(rx) + Len(ep) /\ i <= Len(rx)
      BY Lengths
    <3>3. \A i \in 1..Len(ep) : /\ Len(rx) + i \in 1..Len(rx) + Len(ep)
                                /\ ~(Len(rx) + i <= Len(rx))
                                /\ Len(rx) + i - Len(rx) = i
      BY Lengths
    <3>4. \A i \in 1..Len(rx) : rx'[i] = rx[i]
      BY <3>1, <3>2
    <3>5. \A i \in 1..Len(ep) : rx'[Len(rx) + i] = ep[i]
      BY <3>1, <3>3
    <3>. QED
      BY <2>1, <2>4, <3>1, <3>4, <3>5
  <2>6. PICK start \in Starts :
          Framed(start, Len(executed), Arrived, Consumed, rx, Len(rx), sent)
    BY <1>2 DEF WholeRequests
  <2>7. \E new \in Starts :
          Framed(new, Len(executed), Arrived + 1, Consumed, rx', Len(rx'), sent)
    <3>1. Len(rx') \in Nat /\ Len(rx) \in Nat /\ Len(executed) \in Nat /\ Consumed \in Nat
      BY Lengths, LenProperties DEF TypeOK
    <3>. QED
      BY <2>1, <2>3, <2>5, <2>6, <3>1, FramedMore
  <2>8. \A k \in 1..Len(executed) : executed[k] = sent[k]
    BY <1>2 DEF WholeRequests
  <2>. QED
    BY <1>1, <1>3, <2>1, <2>2, <2>7, <2>8, Lengths DEF WholeRequests
<1>. QED
  BY <1>3, <1>4, <1>5

\* One byte is read of the request the thread is at.
LEMMA ByteRead ==
    ASSUME TypeOK, WholeRequests, Consumed \in 0..1, Reads(1)
    PROVE  /\ Len(executed) + 1 \in 1..Arrived
           /\ sent[Len(executed) + 1] \in Bodies
           /\ rx[1] = Message(sent[Len(executed) + 1])[Consumed + 1]
           /\ \E start \in Starts :
                Framed(start, Len(executed), Arrived, Consumed + 1, rx', Len(rx'), sent)
<1>1. /\ Len(rx) \in Nat /\ Len(rx) > 0 /\ rx # <<>>
      /\ rx' \in Seq(Nat) /\ Len(rx') \in Nat /\ Len(executed) \in Nat
  BY ReadsSome, Lengths, LenProperties DEF TypeOK, Reads
<1>2. Drops(rx', Len(rx'), rx, Len(rx), 1)
  <2>1. Smaller(1, Len(rx)) = 1
    <3>1. PICK b \in Nat : b = Len(rx) /\ b > 0
      BY <1>1
    <3>. QED
      BY <3>1 DEF Smaller
  <2>. QED
    BY <2>1, ReadsSome DEF TypeOK, Drops
<1>3. /\ Len(executed) + 1 \in 1..Arrived /\ Arrived \in 0..Len(sent)
      /\ sent[Len(executed) + 1] \in Bodies
      /\ \A i \in 1..Size(sent, Len(executed) + 1) :
           i > Consumed => rx[i - Consumed] = Message(sent[Len(executed) + 1])[i]
  BY <1>1, AtRequest
<1>4. rx[1] = Message(sent[Len(executed) + 1])[Consumed + 1]
  <2>1. Consumed + 1 \in 1..Size(sent, Len(executed) + 1)
    BY <1>3, MessageIs DEF Size
  <2>2. Consumed + 1 > Consumed /\ (Consumed + 1) - Consumed = 1
    OBVIOUS
  <2>3. rx[(Consumed + 1) - Consumed] = Message(sent[Len(executed) + 1])[Consumed + 1]
    BY <1>3, <2>1, <2>2
  <2>. QED
    BY <2>2, <2>3
<1>5. PICK start \in Starts :
        Framed(start, Len(executed), Arrived, Consumed, rx, Len(rx), sent)
  BY DEF WholeRequests
<1>6. Framed(start, Len(executed), Arrived, Consumed + 1, rx', Len(rx'), sent)
  <2>1. Shifted(start, start, Consumed + 1 - (Consumed + 1))
    BY DEF Shifted, Starts
  <2>2. start[Len(executed) + 1] = 0
    BY <1>5 DEF Framed
  <2>3. Sized(sent, Arrived)
    BY <1>3, RequestSize DEF TypeOK
  <2>4. Arrived \in Nat /\ Consumed \in Nat /\ Consumed + 1 \in Nat
    BY <1>3
  <2>. QED
    BY <1>1, <1>2, <1>5, <2>1, <2>2, <2>3, <2>4, FramedRest
<1>. QED
  BY <1>3, <1>4, <1>5, <1>6

LEMMA ReadMagickInv ==
    ASSUME TypeOK, Inv, ReadMagick
    PROVE  Inv'
<1>. SUFFICES ASSUME ~split' PROVE (WholePackets /\ WholeRequests /\ SizeInHand)'
  BY DEF Inv
<1>1. /\ UNCHANGED <<wire, ep, sent, split, executed>> /\ Reads(1) /\ need = "magick"
      /\ need' = (IF rx[1] = Magic THEN "size" ELSE "magick")
  BY DEF ReadMagick, hostVars, busVars
<1>2. WholePackets /\ WholeRequests
  BY <1>1 DEF Inv
<1>3. Consumed = 0
  BY <1>1 DEF Consumed
<1>4. rx[1] = Magic
  BY <1>1, <1>2, <1>3, ByteRead, MessageIs
<1>5. need' = "size" /\ Consumed' = Consumed + 1 /\ Arrived' = Arrived
  BY <1>1, <1>3, <1>4 DEF Consumed, Arrived
<1>6. \E start \in Starts :
        Framed(start, Len(executed), Arrived, Consumed + 1, rx', Len(rx'), sent)
  BY <1>1, <1>2, <1>3, ByteRead
<1>7. WholePackets' /\ SizeInHand'
  BY <1>1, <1>2, <1>5 DEF WholePackets, SizeInHand
<1>8. WholeRequests'
  BY <1>1, <1>2, <1>5, <1>6 DEF WholeRequests
<1>. QED
  BY <1>7, <1>8

LEMMA ReadSizeInv ==
    ASSUME TypeOK, Inv, ReadSize
    PROVE  Inv'
<1>. SUFFICES ASSUME ~split' PROVE (WholePackets /\ WholeRequests /\ SizeInHand)'
  BY DEF Inv
<1>1. /\ UNCHANGED <<wire, ep, sent, split, executed>> /\ Reads(1) /\ need = "size"
      /\ size' = rx[1] /\ need' = (IF rx[1] \in 1..MaxSize THEN "body" ELSE "magick")
  BY DEF ReadSize, hostVars, busVars
<1>2. WholePackets /\ WholeRequests
  BY <1>1 DEF Inv
<1>3. Consumed = 1
  BY <1>1 DEF Consumed
<1>4. rx[1] = Len(sent[Len(executed) + 1]) /\ rx[1] \in 1..MaxSize
  BY <1>1, <1>2, <1>3, ByteRead, MessageIs
<1>5. need' = "body" /\ Consumed' = Consumed + 1 /\ Arrived' = Arrived
  BY <1>1, <1>3, <1>4 DEF Consumed, Arrived
<1>6. \E start \in Starts :
        Framed(start, Len(executed), Arrived, Consumed + 1, rx', Len(rx'), sent)
  BY <1>1, <1>2, <1>3, ByteRead
<1>7. WholePackets' /\ SizeInHand'
  BY <1>1, <1>2, <1>4, <1>5 DEF WholePackets, SizeInHand
<1>8. WholeRequests'
  BY <1>1, <1>2, <1>5, <1>6 DEF WholeRequests
<1>. QED
  BY <1>7, <1>8

\* The body of the request the thread is at is there as a whole, and decodes.
LEMMA BodyIsThere ==
    ASSUME TypeOK, WholeRequests, SizeInHand, need = "body"
    PROVE  /\ size <= Len(rx) /\ Smaller(size, Len(rx)) = size
           /\ Len(executed) + 1 \in 1..Arrived /\ Arrived \in 0..Len(sent)
           /\ Size(sent, Len(executed) + 1) = 2 + size
           /\ Filled(Available(size)) = sent[Len(executed) + 1]
           /\ Filled(Available(size)) \in Bodies
<1>. DEFINE body == sent[Len(executed) + 1]
<1>1. Consumed = 2 /\ size = Len(body) /\ Len(rx) \in Nat /\ size \in Nat
  BY Lengths DEF Consumed, SizeInHand, TypeOK
<1>2. /\ Len(executed) + 1 \in 1..Arrived /\ Arrived \in 0..Len(sent) /\ body \in Bodies
      /\ Consumed + Len(rx) >= Size(sent, Len(executed) + 1)
      /\ \A i \in 1..Size(sent, Len(executed) + 1) :
           i > Consumed => rx[i - Consumed] = Message(body)[i]
  BY <1>1, AtRequest
<1>. HIDE DEF body
<1>3. Size(sent, Len(executed) + 1) = 2 + size
  BY <1>1 DEF Size, body
<1>4. size <= Len(rx) /\ Smaller(size, Len(rx)) = size
  BY <1>1, <1>2, <1>3 DEF Smaller
<1>5. \A i \in 1..size : rx[i] = body[i]
  <2>. TAKE i \in 1..size
  <2>1. i + 2 \in 1..2 + size /\ i + 2 > 2 /\ i + 2 - 2 = i
    BY <1>1
  <2>2. rx[i] = Message(body)[i + 2]
    BY <1>1, <1>2, <1>3, <2>1
  <2>. QED
    BY <1>1, <1>2, <2>2, MessageIs
<1>6. /\ Len(Available(size)) = size
      /\ \A i \in 1..size : Available(size)[i] = rx[i]
  BY <1>1, <1>4, Cut DEF Available, TypeOK
<1>7. body \in [1..size -> Nat]
  BY <1>1, <1>2, LenProperties, LinkAssumption
<1>8. Filled(Available(size)) = [i \in 1..size |-> body[i]]
  BY <1>5, <1>6 DEF Filled
<1>9. Filled(Available(size)) = body
  BY <1>7, <1>8
<1>. QED
  BY <1>2, <1>3, <1>4, <1>9 DEF body

LEMMA ReadBodyInv ==
    ASSUME TypeOK, TypeOK', Inv, ReadBody
    PROVE  Inv'
<1>. SUFFICES ASSUME ~split' PROVE (WholePackets /\ WholeRequests /\ SizeInHand)'
  BY DEF Inv
<1>. DEFINE done == Len(executed)
            data == Filled(Available(size))
<1>1. /\ UNCHANGED <<wire, ep, sent, split>> /\ Reads(size)
      /\ need = "body" /\ need' = "magick"
  BY DEF ReadBody, BodySize, hostVars, busVars
<1>2. WholePackets /\ WholeRequests /\ SizeInHand
  BY <1>1 DEF Inv
<1>3. /\ size <= Len(rx) /\ Smaller(size, Len(rx)) = size
      /\ done + 1 \in 1..Arrived /\ Arrived \in 0..Len(sent)
      /\ Size(sent, done + 1) = 2 + size /\ data = sent[done + 1] /\ data \in Bodies
  BY <1>1, <1>2, BodyIsThere
<1>4. /\ executed' = Append(executed, sent[done + 1])
      /\ Len(executed') = done + 1 /\ done \in Nat
      /\ \A k \in 1..done : executed'[k] = executed[k]
      /\ executed'[done + 1] = sent[done + 1]
  <2>1. executed' = Append(executed, data)
    BY <1>3 DEF ReadBody, BodySize, Decoded
  <2>2. data \in Seq(Nat) /\ executed \in Seq(Seq(Nat))
    BY <1>3, MessageIs DEF TypeOK
  <2>. QED
    BY <1>3, <2>1, <2>2, AppendProperties, LenProperties
<1>. HIDE DEF data
<1>5. Consumed = 2 /\ Consumed' = 0 /\ Arrived' = Arrived
  BY <1>1 DEF Consumed, Arrived
<1>6. WholePackets' /\ SizeInHand'
  BY <1>1, <1>2, <1>5 DEF WholePackets, SizeInHand
<1>7. \E start \in Starts : Framed(start, done + 1, Arrived, 0, rx', Len(rx'), sent)
  <2>1. PICK start \in Starts : Framed(start, done, Arrived, 2, rx, Len(rx), sent)
    BY <1>2, <1>5 DEF WholeRequests
  <2>2. PICK n \in Nat : n = size
    BY DEF TypeOK
  <2>3. start[done + 1 + 1] = 2 + n
    <3>1. done + 1 \in done + 1..Arrived
      BY <1>3, <1>4
    <3>. QED
      BY <1>3, <2>1, <2>2, <3>1 DEF Framed
  <2>4. PICK new \in Starts : new = [k \in Nat |-> start[k] - (2 + n)]
    <3>1. [k \in Nat |-> start[k] - (2 + n)] \in Starts
      BY <2>1, <2>2 DEF Starts
    <3>. QED
      BY <3>1
  <2>5. Shifted(new, start, 2 + n - 0) /\ new[done + 1 + 1] = 0
    BY <1>4, <2>3, <2>4 DEF Shifted
  <2>6. /\ Drops(rx', Len(rx'), rx, Len(rx), n) /\ Len(rx) \in Nat /\ Len(rx') \in Nat
    BY <1>1, <1>3, <2>2, ReadsSome, LenProperties DEF TypeOK, Drops
  <2>7. Sized(sent, Arrived) /\ Arrived \in Nat /\ done + 1 \in Nat /\ done + 1 >= done
    BY <1>3, <1>4, RequestSize DEF TypeOK
  <2>8. Framed(new, done + 1, Arrived, 0, rx', Len(rx'), sent)
    BY <1>4, <2>1, <2>5, <2>6, <2>7, FramedRest
  <2>. QED
    BY <2>8
<1>8. \A k \in 1..done + 1 : executed'[k] = sent[k]
  BY <1>2, <1>4 DEF WholeRequests
<1>9. WholeRequests'
  BY <1>1, <1>3, <1>4, <1>5, <1>7, <1>8 DEF WholeRequests
<1>. QED
  BY <1>6, <1>9

LEMMA StepInv == TypeOK /\ TypeOK' /\ Inv /\ [Next]_vars => Inv'
<1>. SUFFICES ASSUME TypeOK, TypeOK', Inv, [Next]_vars
              PROVE  Inv'
  OBVIOUS
<1>1. CASE GiveUp
  BY <1>1 DEF GiveUp, Inv
<1>2. CASE ReadIn \/ Interrupt \/ LockTimeout \/ Sleep \/ Wake \/ UNCHANGED vars
  <2>1. UNCHANGED <<wire, ep, rx, sent, executed, need, size, split>>
    BY <1>2 DEF ReadIn, Interrupt, LockTimeout, Sleep, Wake, vars, hostVars, busVars, portVars,
                protVars
  <2>. QED
    BY <2>1, QuietInv
<1>3. CASE Block \/ Unblock \/ WriteResponse
  <2>1. UNCHANGED <<wire, ep, rx, sent, executed, need, size, split>>
    BY <1>3 DEF Block, Unblock, WriteResponse, hostVars, busVars, portVars
  <2>. QED
    BY <2>1, QuietInv
<1>. QED
  BY <1>1, <1>2, <1>3, SendRequestInv, PutPacketInv, PollInv, ReadMagickInv, ReadSizeInv,
     ReadBodyInv DEF Next, Host, UsbdThread, ProtobufThread

LEMMA Invariant == Spec => [](TypeOK /\ Inv)
<1>1. TypeOK /\ Inv /\ [Next]_vars => TypeOK' /\ Inv'
  BY StepType, StepInv
<1>. QED
  BY InitType, InitInv, <1>1, PTL DEF Spec

\* While every request fits a packet and none is cut, what is executed is what
\* was sent, for any bodies, even such that look like headers, any packet size
\* and any number of requests sent ahead (protobuf_server.rs:45-56).
THEOREM RequestsInOrder == Spec => []ExecutedAsSent
<1>1. TypeOK /\ Inv => ExecutedAsSent
  <2>. SUFFICES ASSUME TypeOK, Inv, ~split PROVE IsPrefix(executed, sent)
    BY DEF ExecutedAsSent
  <2>1. /\ Len(executed) <= Len(sent) /\ Len(executed) \in Nat /\ Len(sent) \in Nat
        /\ \A k \in 1..Len(executed) : executed[k] = sent[k]
    BY Lengths DEF Inv, WholeRequests, Arrived
  <2>2. SubSeq(executed, 1, Len(executed)) = executed
    BY SubSeqFull DEF TypeOK
  <2>3. sent \in Seq(Seq(Nat)) /\ executed \in Seq(Seq(Nat))
    BY SeqMonotonic, LinkAssumption DEF TypeOK
  <2>4. /\ SubSeq(sent, 1, Len(executed)) \in Seq(Seq(Nat))
        /\ Len(SubSeq(sent, 1, Len(executed))) = Len(executed)
        /\ \A k \in 1..Len(executed) : SubSeq(sent, 1, Len(executed))[k] = sent[k]
    BY <2>1, <2>3, Cut
  <2>5. SubSeq(sent, 1, Len(executed)) = executed
    BY <2>1, <2>3, <2>4, SeqEqual
  <2>. QED
    BY <2>1, <2>2, <2>5 DEF IsPrefix
<1>. QED
  BY Invariant, <1>1, PTL

=============================================================================
