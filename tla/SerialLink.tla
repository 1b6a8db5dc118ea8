----------------------------- MODULE SerialLink -----------------------------
(***************************************************************************)
(* The virtual serial port: bytes of the host through the USB interrupt    *)
(* and the usbd thread into the port's buffer, out of it by the protobuf   *)
(* thread, and the response back.  The two threads share the mutex of the  *)
(* port, which the protobuf thread keeps while it waits for bytes, and the *)
(* interrupt is level-triggered and masked from its first entry until the  *)
(* usbd thread has nothing left to do.  usbd has the higher priority.      *)
(***************************************************************************)
EXTENDS Naturals, Sequences, SequencesExt

CONSTANTS
    Magic,          \* Info::Magick
    MaxSize,        \* largest accepted body (1500)
    Bodies,         \* request bodies a host sends, sequences of bytes
    PacketSize,     \* bytes of one bulk packet (64)
    RxSize,         \* read buffer of the port
    TxSize,         \* its write buffer
    ResponseSize,   \* bytes of an encoded response
    MaxRequests

ASSUME LinkAssumption ==
    /\ PacketSize \in Nat \ {0} /\ TxSize \in Nat \ {0} /\ ResponseSize \in Nat
    /\ RxSize \in Nat /\ RxSize >= PacketSize
    /\ Magic \in Nat /\ MaxSize \in Nat
    /\ Bodies \subseteq Seq(Nat)
    /\ \A b \in Bodies : Len(b) \in 1..MaxSize

VARIABLES
    wire,       \* bytes of the request the host has not yet put on the bus
    ep,         \* packet in the OUT endpoint
    inDone,     \* an IN transfer is complete and not yet noticed
    rx,         \* read buffer of the port
    tx,         \* number of bytes in its write buffer
    masked,     \* interrupt USB_FS in the NVIC
    usbd,       \* usbd thread: "lock" or "wait" for a notification
    usbdNote,   \* its notification value is not zero
    lock,       \* "free", or "protobuf" while that thread waits for bytes
    prot,       \* protobuf thread: "read", "blocked" or "write"
    need,       \* what it reads: "magick", "size" or "body"
    size,       \* size from the header
    protNote,   \* its notification value is not zero
    left,       \* bytes of the response still to write
    sent,       \* ghost: bodies the host has sent
    executed,   \* ghost: bodies given to process_requiest
    split       \* ghost: some request took more than a packet or was cut

hostVars == <<wire, sent, split>>
busVars == <<ep, inDone>>
portVars == <<rx, tx>>
usbdVars == <<masked, usbd, usbdNote>>
protVars == <<prot, need, size, left, executed>>
vars == <<hostVars, busVars, portVars, usbdVars, lock, protVars, protNote>>

Init ==
    /\ wire = <<>> /\ ep = <<>> /\ inDone = FALSE
    /\ rx = <<>> /\ tx = 0
    /\ masked = TRUE /\ usbd = "lock" /\ usbdNote = FALSE
    /\ lock = "free"
    /\ prot = "read" /\ need = "magick" /\ size = 0 /\ protNote = FALSE
    /\ left = 0
    /\ sent = <<>> /\ executed = <<>> /\ split = FALSE

-----------------------------------------------------------------------------
(* The host and its bus *)

Smaller(a, b) == IF a < b THEN a ELSE b

\* The host writes magick, size and body in one call; whether it waited for the
\* previous answer is its affair.
SendRequest ==
    /\ wire = <<>> /\ Len(sent) < MaxRequests
    /\ \E body \in Bodies :
         /\ wire' = <<Magic, Len(body)>> \o body
         /\ sent' = Append(sent, body)
         /\ split' = (split \/ Len(wire') > PacketSize)
    /\ UNCHANGED <<busVars, portVars, usbdVars, lock, protVars, protNote>>

\* A write that takes too long is given up, the rest of the request is lost.
GiveUp ==
    /\ wire # <<>>
    /\ wire' = <<>> /\ split' = TRUE
    /\ UNCHANGED <<sent, busVars, portVars, usbdVars, lock, protVars, protNote>>

\* The endpoint takes a packet when it is empty.
PutPacket ==
    /\ wire # <<>> /\ ep = <<>>
    /\ LET n == Smaller(PacketSize, Len(wire)) IN
         /\ ep' = SubSeq(wire, 1, n)
         /\ wire' = SubSeq(wire, n + 1, Len(wire))
    /\ UNCHANGED <<sent, split, inDone, portVars, usbdVars, lock, protVars, protNote>>

\* The host polls the IN endpoint.
ReadIn ==
    /\ tx > 0 /\ ~inDone
    /\ tx' = 0 /\ inDone' = TRUE
    /\ UNCHANGED <<hostVars, ep, rx, usbdVars, lock, protVars, protNote>>

-----------------------------------------------------------------------------
(* The interrupt and the usbd thread *)

Event == ep # <<>> \/ inDone

\* USB_FS: notify the thread; the event is still there, so mask the interrupt.
Interrupt ==
    /\ Event /\ ~masked
    /\ usbdNote' = TRUE /\ masked' = TRUE
    /\ UNCHANGED <<hostVars, busVars, portVars, usbd, lock, protVars, protNote>>

\* usb_dev.poll under the port's mutex: the packet goes into the read buffer.
Poll ==
    /\ usbd = "lock" /\ lock = "free" /\ Event
    /\ Len(rx) + Len(ep) <= RxSize
    /\ rx' = rx \o ep /\ ep' = <<>> /\ inDone' = FALSE
    /\ protNote' = TRUE
    /\ UNCHANGED <<hostVars, tx, usbdVars, lock, protVars>>

\* A plausible slip: a mutex that was not obtained counts as "nothing to do".
LockTimeout_Sleeps ==
    /\ usbd = "lock" /\ lock = "protobuf"
    /\ usbd' = "wait" /\ masked' = FALSE
    /\ UNCHANGED <<hostVars, busVars, portVars, usbdNote, lock, protVars, protNote>>

\* The mutex was not to be had for 1 ms: wake the thread that has it.
LockTimeout ==
    /\ usbd = "lock" /\ lock = "protobuf"
    /\ protNote' = TRUE
    /\ UNCHANGED <<hostVars, busVars, portVars, usbdVars, lock, protVars>>

\* A plausible slip: the interrupt is not unmasked before the wait.
Sleep_Masked ==
    /\ usbd = "lock" /\ lock = "free" /\ ~Event
    /\ usbd' = "wait"
    /\ UNCHANGED <<hostVars, busVars, portVars, masked, usbdNote, lock, protVars, protNote>>

\* Nothing to poll: unmask and wait for the interrupt.
Sleep ==
    /\ usbd = "lock" /\ lock = "free" /\ ~Event
    /\ usbd' = "wait" /\ masked' = FALSE
    /\ UNCHANGED <<hostVars, busVars, portVars, usbdNote, lock, protVars, protNote>>

Wake ==
    /\ usbd = "wait" /\ usbdNote
    /\ usbd' = "lock" /\ usbdNote' = FALSE /\ masked' = TRUE
    /\ UNCHANGED <<hostVars, busVars, portVars, lock, protVars, protNote>>

UsbdThread == Poll \/ LockTimeout \/ Sleep \/ Wake

\* usbd is blocked, on the notification or on the mutex: others get the CPU.
CpuFree == \/ usbd = "wait" /\ ~usbdNote
           \/ usbd = "lock" /\ lock = "protobuf"

-----------------------------------------------------------------------------
(* The protobuf thread *)

\* SerialStream::read of up to n bytes: whatever is there, if there is any.
Available(n) == SubSeq(rx, 1, Smaller(n, Len(rx)))
Reads(n) ==
    /\ CpuFree /\ prot = "read" /\ lock = "free" /\ rx # <<>>
    /\ rx' = SubSeq(rx, Smaller(n, Len(rx)) + 1, Len(rx))

\* Nothing there: block_thread, inside the match that holds the mutex.
Block ==
    /\ CpuFree /\ prot = "read" /\ lock = "free" /\ rx = <<>>
    /\ prot' = "blocked" /\ lock' = "protobuf"
    /\ UNCHANGED <<hostVars, busVars, portVars, usbdVars, need, size, left, executed, protNote>>

Unblock ==
    /\ CpuFree /\ prot = "blocked" /\ protNote
    /\ protNote' = FALSE /\ prot' = "read" /\ lock' = "free"
    /\ UNCHANGED <<hostVars, busVars, portVars, usbdVars, need, size, left, executed>>

\* decode_magick: any other byte is an error, and the next one is tried.
ReadMagick ==
    /\ need = "magick" /\ Reads(1)
    /\ need' = IF rx[1] = Magic THEN "size" ELSE "magick"
    /\ UNCHANGED <<hostVars, busVars, tx, usbdVars, lock, prot, size, left, executed, protNote>>

\* decode_msg_size; sizes here fit one byte of the varint.
ReadSize ==
    /\ need = "size" /\ Reads(1)
    /\ size' = rx[1]
    /\ need' = IF rx[1] \in 1..MaxSize THEN "body" ELSE "magick"
    /\ UNCHANGED <<hostVars, busVars, tx, usbdVars, lock, prot, left, executed, protNote>>

\* The buffer of read_all has the size of the header and is zero where the read
\* fell short.
Filled(bytes) == [i \in 1..size |-> IF i <= Len(bytes) THEN bytes[i] ELSE 0]

\* A plausible slip: one byte too many.
BodySize_OneMore == size + 1

BodySize == size

\* A whole request decodes; a cut one, filled with zeros, may do so too.
Decoded(data) == IF data \in Bodies THEN {TRUE} ELSE BOOLEAN

\* recive_message_body and process_requiest.
ReadBody ==
    /\ need = "body" /\ Reads(BodySize)
    /\ LET data == Filled(Available(BodySize)) IN
         \E ok \in Decoded(data) :
            IF ok THEN /\ executed' = Append(executed, data)
                       /\ left' = ResponseSize /\ prot' = "write"
                  ELSE UNCHANGED <<executed, left, prot>>
    /\ need' = "magick"
    /\ UNCHANGED <<hostVars, busVars, tx, usbdVars, lock, size, protNote>>

\* write_responce: what fits, then 1 ms later the rest; nothing else is read
\* meanwhile.
WriteResponse ==
    /\ CpuFree /\ prot = "write" /\ lock = "free" /\ tx < TxSize
    /\ LET n == Smaller(left, TxSize - tx) IN
         /\ tx' = tx + n /\ left' = left - n
         /\ prot' = IF n = left THEN "read" ELSE "write"
    /\ UNCHANGED <<hostVars, busVars, rx, usbdVars, lock, need, size, executed, protNote>>

ProtobufThread ==
    Block \/ Unblock \/ ReadMagick \/ ReadSize \/ ReadBody \/ WriteResponse

-----------------------------------------------------------------------------
Host == SendRequest \/ GiveUp \/ PutPacket \/ ReadIn

Next == Host \/ Interrupt \/ UsbdThread \/ ProtobufThread

Spec == Init /\ [][Next]_vars

\* The bus and the interrupt act by themselves, usbd runs when it is ready, the
\* protobuf thread whenever usbd is blocked; the host reads, nothing else is
\* asked of it.
Fairness ==
    /\ WF_vars(PutPacket) /\ WF_vars(ReadIn) /\ WF_vars(Interrupt)
    /\ WF_vars(UsbdThread) /\ SF_vars(ProtobufThread)

FairSpec == Spec /\ Fairness

-----------------------------------------------------------------------------
(* Properties *)

\* Types; the mutex is kept exactly by a protobuf thread that waits for bytes.
TypeOK ==
    /\ wire \in Seq(Nat) /\ ep \in Seq(Nat) /\ rx \in Seq(Nat)
    /\ sent \in Seq(Bodies) /\ executed \in Seq(Seq(Nat))
    /\ Len(ep) <= PacketSize /\ Len(rx) <= RxSize /\ size \in Nat
    /\ tx \in 0..TxSize /\ left \in 0..ResponseSize
    /\ inDone \in BOOLEAN /\ masked \in BOOLEAN /\ split \in BOOLEAN
    /\ usbdNote \in BOOLEAN /\ protNote \in BOOLEAN
    /\ usbd \in {"lock", "wait"} /\ prot \in {"read", "blocked", "write"}
    /\ need \in {"magick", "size", "body"}
    /\ (need = "body") => size \in 1..MaxSize
    /\ lock \in {"free", "protobuf"}
    /\ (lock = "protobuf") <=> (prot = "blocked")

\* The usbd thread never sleeps on an event: masked interrupt, pending packet
\* and no notification do not come together (usbd.rs:106-145, the mask set by
\* the interrupt and again by the thread, the unmask before the wait).
NoSleepOnEvent == usbd = "wait" /\ Event => usbdNote \/ ~masked

\* As long as every request fits a packet and none is cut, what is executed is
\* what was sent, in that order, each once: no message is taken for a part of
\* another (protobuf_server.rs:45-56, whose read is content with one byte).
ExecutedAsSent == ~split => IsPrefix(executed, sent)

\* ... and every request is executed in the end, although one thread keeps the
\* mutex while it waits for bytes that the other needs the mutex to deliver
\* (protobuf_server.rs:25-36, usbd.rs:101-104).
SentIsExecuted ==
    \A n \in 1..MaxRequests :
      Len(sent) >= n ~> Len(executed) >= n \/ split
=============================================================================
