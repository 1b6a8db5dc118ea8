------------------------------ MODULE UsbDisk ------------------------------
(***************************************************************************)
(* The USB disk: a host, the bulk-only transport, the SCSI commands on top *)
(* of it and the virtual FAT volume behind them.  The transport and the    *)
(* commands are the ones of the library copy kept in the repository.  The  *)
(* class is polled only when the USB peripheral has an event, a poll has   *)
(* four steps and the host may move a packet between any two of them.      *)
(* Host and device understand each other only by bytes: the host's are     *)
(* those of the standards, the device's those of ScsiWire.                 *)
(***************************************************************************)
EXTENDS Emfat, ScsiWire

CONSTANTS
    BlockBytes,     \* BLOCK_BYTES, also the size of the transport's buffer
    PacketSize,     \* max_packet_size
    CswBytes,       \* bytes of a status, less than a packet
    ReplyBytes,     \* bytes of the answers to commands that are not Read
    ReadmeBytes, ConfigBytes, InfoBytes, InfoMax, PageBytes, FlashPages,
                    \* sizes of the files of build_files_table
    Full, Undefined, \* states of the memory that are not a page number
    MemoryStates,   \* what the memory holds at boot
    Commands        \* what a host sends

ASSUME DiskAssumption ==
    /\ {CswBytes, PacketSize, ReplyBytes} \subseteq Nat \ {0}
    /\ BlockBytes = Sect /\ CswBytes < PacketSize /\ PacketSize <= BlockBytes
    /\ MemoryStates \subseteq 0..FlashPages \cup {Full, Undefined}

\* A command of the host: its command block cdb, what the host means by it (op,
\* lba, number of blocks), and direction, length and tag of its transfer.
\* Unsupported stands for what extract_from_cbw knows and process_command does
\* not, Rejected for what extract_from_cbw returns as an error.

VARIABLES
    mem,        \* state of the memory when the table of files was built
    erasing,    \* ERASE_IN_PROGRESS
    bot,        \* BulkOnlyTransport
    scsi,       \* Scsi
    last,       \* last_entry of emfat
    pc,         \* next step of a poll: "event", "read", "receive", "write"
    inDone,     \* an IN transfer is complete and not yet noticed
    rx, tx,     \* the endpoints, sequences of at most one packet
    host        \* the host: what it sent, what it got

vars == <<mem, erasing, bot, scsi, last, pc, inDone, rx, tx, host>>

-----------------------------------------------------------------------------
(* The volume *)

Entry(dir, size, max) == [dir |-> dir, size |-> size, max |-> max]

\* A packed text (one of three), config.var, storage.var, and the two views of
\* the memory, the second only when it would show something.
BuildFilesTable(m) ==
    LET flash == FlashPages * PageBytes
        used == m * PageBytes
    IN << Entry(TRUE, 0, 0),
          Entry(FALSE, ReadmeBytes, ReadmeBytes),
          Entry(FALSE, ConfigBytes, ConfigBytes),
          Entry(FALSE, InfoBytes, InfoMax),
          Entry(FALSE, flash, flash) >>
       \o IF m \in {Full, Undefined, 0} THEN <<>> ELSE <<Entry(FALSE, used, used)>>

Volume == [m \in MemoryStates |-> EmfatInit(BuildFilesTable(m))]
fs == Volume[mem]

MaxLba == fs.diskSectors

Bytes(content, n) == [k \in 1..n |-> <<content, k>>]
Junk == Bytes(<<"stale">>, BlockBytes)

-----------------------------------------------------------------------------
(* Bulk-only transport.  buf holds the bytes up to buffer_i, di is data_i. *)

Queued(b) == b.di < Len(b.buf) /\ b.residue > 0
Room(b) == BlockBytes - Len(b.buf) >= PacketSize
Transferring(b) == b.state \in {"SendingDataToHost", "ReceivingDataFromHost"}

\* A device is the pair of the transport and the IN endpoint.
WouldBlock(d) == d.tx # <<>>

Flush(d) ==
    IF ~Queued(d.b) \/ WouldBlock(d) THEN d
    ELSE LET b == d.b
             len == CHOOSE n \in {Len(b.buf) - b.di, b.residue, PacketSize} :
                       /\ n <= Len(b.buf) - b.di /\ n <= b.residue /\ n <= PacketSize
             empty == b.di + len = Len(b.buf) \/ b.residue = len
         IN [ tx |-> <<SubSeq(b.buf, b.di + 1, b.di + len)>>,
              b |-> [b EXCEPT !.full = (len = PacketSize),
                              !.residue = @ - len,
                              !.buf = IF empty THEN <<>> ELSE @,
                              !.di = IF empty THEN 0 ELSE @ + len] ]

SendZlp(d) ==
    IF WouldBlock(d) THEN d
    ELSE [tx |-> << <<>> >>, b |-> [d.b EXCEPT !.state = "NeedToSendStatus"]]

NoCbw == Default(CommandBlockWrapper)

Csw(b) ==
    Pack(CommandStatusWrapper, [signature |-> CswSignature, tag |-> b.cbw.tag,
                                data_residue |-> b.residue, status |-> b.status])

\* The wrapper and the status are not read again and are forgotten.
PackCsw(b) ==
    [b EXCEPT !.buf = Bytes(<<"csw", Csw(b)>>, CswBytes), !.di = 0, !.residue = CswBytes,
              !.cbw = NoCbw, !.status = CommandOk]

\* The residue is that of the status by now, so a full last packet is enough.
NeedsZlp(b) == b.full /\ b.state = "SendingDataToHost" /\ b.residue > 0

\* A plausible slip: the status is left for the next write.
EndDataTransfer_NextWrite(d) ==
    LET b == PackCsw(d.b)
    IN [d EXCEPT !.b = [b EXCEPT !.state = IF NeedsZlp(b) THEN "NeedZlp" ELSE "NeedToSendStatus"]]

EndDataTransfer(d) ==
    LET b == PackCsw(d.b)
    IN IF NeedsZlp(b)
       THEN SendZlp([d EXCEPT !.b = [b EXCEPT !.state = "NeedZlp"]])
       ELSE Flush([d EXCEPT !.b = [b EXCEPT !.state = "NeedToSendStatus"]])

EndsDataTransfer(b) ==
    \/ b.state = "ReceivingDataFromHost" /\ b.residue = 0 /\ b.di = Len(b.buf)
    \/ b.state = "SendingDataToHost" /\ (b.residue = 0 \/ (b.done /\ b.di = Len(b.buf)))

CheckEndDataTransfer(d) ==
    IF EndsDataTransfer(d.b) THEN EndDataTransfer(d) ELSE d

Write(d) ==
    CASE d.b.state = "SendingDataToHost" ->
            IF Queued(d.b) /\ WouldBlock(d) THEN d ELSE CheckEndDataTransfer(Flush(d))
      [] d.b.state = "NeedZlp" -> SendZlp(d)
      [] d.b.state = "NeedToSendStatus" ->
            LET f == Flush(d)
            IN IF f.b.residue = 0 THEN [f EXCEPT !.b.state = "WaitingForCommand"] ELSE f
      [] OTHER -> d

TransitionToData(b, cbw) ==
    [b EXCEPT !.buf = <<>>, !.di = 0, !.done = FALSE, !.cbw = cbw,
              !.residue = cbw.data_transfer_length, !.status = CommandOk,
              !.state = IF cbw.direction = DeviceToHost THEN "SendingDataToHost"
                                                        ELSE "ReceivingDataFromHost"]

\* read_packet of an empty endpoint is an early return.
ReceivingDataFromHost(d, packets) ==
    IF d.b.residue > 0 /\ Room(d.b)
    THEN IF packets = <<>> THEN d
         ELSE LET n == Len(packets[1])
              IN CheckEndDataTransfer(
                   [d EXCEPT !.b.buf = @ \o packets[1],
                             !.b.residue = IF @ >= n THEN @ - n ELSE 0])
    ELSE CheckEndDataTransfer(d)

WaitingForCommand(d, packets) ==
    IF packets = <<>> \/ ~Room(d.b) THEN d
    ELSE LET n == [d EXCEPT !.b = TransitionToData(@, Unpack(CommandBlockWrapper, packets[1][1][2]))]
         IN IF n.b.state = "ReceivingDataFromHost" THEN ReceivingDataFromHost(n, <<>>)
            ELSE n

Takes(b) ==
    \/ b.state = "WaitingForCommand" /\ Room(b)
    \/ b.state = "ReceivingDataFromHost" /\ b.residue > 0 /\ Room(b)

SendStatus(d, status) ==
    CheckEndDataTransfer([d EXCEPT !.b.status = status, !.b.done = TRUE])

SendBlocks(d) == EndsDataTransfer([d.b EXCEPT !.done = TRUE]) /\ WouldBlock(d)

-----------------------------------------------------------------------------
(* SCSI commands *)

\* Answers that fit one buffer.
Reply(op) ==
    Bytes(<<"reply", CASE op = "Inquiry" -> InquiryAnswer
                       [] op = "ReadCapacity" -> CapacityAnswer(MaxLba, BlockBytes)
                       [] op = "RequestSense" -> SenseAnswer(scsi.sense)
                       [] op = "ModeSense" -> ModeSenseAnswer
                       [] OTHER -> FormatCapacitiesAnswer(MaxLba, BlockBytes)>>,
          ReplyBytes)

Skips(b) ==
    IF b.state = "ReceivingDataFromHost"
    THEN Len(b.buf) # BlockBytes /\ b.residue # 0
    ELSE b.buf # <<>>

\* BlockDevice: the volume is read unless the memory is being erased, and it is
\* never written.
ReadBlock(lba) ==
    IF erasing THEN [ok |-> FALSE, data |-> Junk, last |-> last]
    ELSE LET r == EmfatRead(fs, last, lba)
         IN [ok |-> TRUE, data |-> Bytes(r.data, BlockBytes), last |-> r.last]

\* process_command of cmd: what becomes of the transport, of lba, lba_end and
\* last_entry, and its result.
ProcessCommand(cmd, new) ==
    LET same == [b |-> bot, lba |-> scsi.lba, end |-> scsi.end, last |-> last,
                 result |-> "Done"]
        lba == IF new THEN cmd.lba ELSE scsi.lba
        end == IF new THEN cmd.lba + cmd.count - 1 ELSE scsi.end
    IN CASE cmd.op = "Read" ->
              LET r == ReadBlock(lba)
              IN [ b |-> [bot EXCEPT !.buf = @ \o r.data],
                   lba |-> IF r.ok THEN lba + 1 ELSE lba, end |-> end, last |-> r.last,
                   result |-> IF ~r.ok THEN "hardware"
                              ELSE IF lba + 1 <= end THEN "Ongoing" ELSE "Done" ]
         [] cmd.op = "Write" ->
              LET len == IF bot.residue = 0 /\ Len(bot.buf) # BlockBytes
                         THEN Len(bot.buf) - bot.di ELSE BlockBytes
                  all == bot.di + len = Len(bot.buf)
              IN [ same EXCEPT !.b = [bot EXCEPT !.buf = IF all THEN <<>> ELSE @,
                                                 !.di = IF all THEN 0 ELSE @ + len],
                               !.lba = lba, !.end = end, !.result = "hardware" ]
         [] cmd.op \in {"TestUnitReady", "PreventAllowMediumRemoval"} -> same
         [] \/ cmd.op \in {"Inquiry", "ReadCapacity", "RequestSense", "ReadFormatCapacities"}
            \/ cmd.op = "ModeSense" /\ cmd.current ->
              [same EXCEPT !.b.buf = @ \o Reply(cmd.op)]
         [] OTHER -> [same EXCEPT !.result = "illegal"]

-----------------------------------------------------------------------------
(* A poll: write, read, receive_command, write.  An error ends it early. *)

Init ==
    /\ mem \in MemoryStates /\ erasing = FALSE
    /\ bot = [state |-> "WaitingForCommand", cbw |-> NoCbw,
              buf |-> <<>>, di |-> 0, residue |-> 0, status |-> CommandOk, full |-> FALSE, done |-> FALSE]
    /\ scsi = [cmd |-> None, lba |-> 0, end |-> 0, sense |-> NoSense]
    /\ last = 1 /\ pc = "event" /\ inDone = FALSE /\ rx = <<>> /\ tx = <<>>
    /\ host = [st |-> "idle", cmd |-> None, got |-> <<>>, left |-> 0, ok |-> TRUE,
               tag |-> 0, residue |-> 0, why |-> "any", asked |-> "any", erased |-> FALSE]

Becomes(d) == bot' = d.b /\ tx' = d.tx

Device == [b |-> bot, tx |-> tx]

PollWrite ==
    /\ pc = "event" /\ (rx # <<>> \/ inDone)
    /\ inDone' = FALSE
    /\ Becomes(Write(Device))
    /\ pc' = "read"
    /\ UNCHANGED <<mem, erasing, scsi, last, rx, host>>

PollRead ==
    /\ pc = "read"
    /\ Becomes(CASE bot.state = "WaitingForCommand" -> WaitingForCommand(Device, rx)
                 [] bot.state = "ReceivingDataFromHost" -> ReceivingDataFromHost(Device, rx)
                 [] OTHER -> Device)
    /\ rx' = IF Takes(bot) THEN <<>> ELSE rx
    /\ pc' = "receive"
    /\ UNCHANGED <<mem, erasing, scsi, last, inDone, host>>

\* Nothing to do, or nothing that can be done now.
PollSkip ==
    /\ pc = "receive"
    /\ Skips(bot) \/ (scsi.cmd = None /\ ~Transferring(bot))
    /\ pc' = "write"
    /\ UNCHANGED <<mem, erasing, bot, scsi, last, inDone, rx, tx, host>>

\* extract_from_cbw fails: the error is returned at once.
PollUnknown ==
    /\ pc = "receive" /\ ~Skips(bot)
    /\ scsi.cmd = None /\ Transferring(bot) /\ ~ExtractsFromCbw(bot.cbw)
    /\ pc' = "event"
    /\ UNCHANGED <<mem, erasing, bot, scsi, last, inDone, rx, tx, host>>

MapErrorToSense(result) ==
    CASE result = "Done" -> NoSense [] result = "illegal" -> IllegalRequest
      [] OTHER -> HardwareError

ResetTransport(b) ==
    [b EXCEPT !.buf = <<>>, !.di = 0, !.done = FALSE, !.state = "WaitingForCommand"]
\* A plausible slip: the command survives the reset.
ResetScsi_KeepsCommand(s) == [s EXCEPT !.lba = 0, !.end = 0, !.sense = NoSense]

ResetScsi(s) == [cmd |-> None, lba |-> 0, end |-> 0, sense |-> NoSense]

\* The command is cleared, the blocks it had left forgotten and the sense set
\* only when the status got out of the way; an error also ends the poll.
FinishCommand(p, cmd) ==
    LET d == [b |-> p.b, tx |-> tx]
        status == IF p.result = "Done" THEN CommandOk ELSE CommandError
        lbas == [scsi EXCEPT !.lba = p.lba, !.end = p.end, !.cmd = cmd]
    IN IF p.result = "Ongoing"
       THEN /\ bot' = p.b /\ tx' = tx /\ scsi' = lbas /\ pc' = "write"
       ELSE /\ Becomes(SendStatus(d, status))
            /\ IF SendBlocks(d)
               THEN scsi' = lbas /\ pc' = "write"
               ELSE /\ scsi' = [cmd |-> None, lba |-> 0, end |-> 0,
                                sense |-> MapErrorToSense(p.result)]
                    /\ pc' = IF p.result = "Done" THEN "write" ELSE "event"

PollCommand ==
    /\ pc = "receive" /\ ~Skips(bot)
    /\ LET new == scsi.cmd = None
           cmd == IF new THEN ExtractFromCbw(bot.cbw) ELSE scsi.cmd
           p == ProcessCommand(cmd, new)
       IN /\ new => Transferring(bot) /\ ExtractsFromCbw(bot.cbw)
          /\ FinishCommand(p, cmd)
          /\ last' = p.last
    /\ UNCHANGED <<mem, erasing, inDone, rx, host>>

PollWriteAgain ==
    /\ pc = "write"
    /\ Becomes(Write(Device))
    /\ pc' = "event"
    /\ UNCHANGED <<mem, erasing, scsi, last, inDone, rx, host>>

Poll == PollWrite \/ PollRead \/ PollSkip \/ PollUnknown \/ PollCommand \/ PollWriteAgain

-----------------------------------------------------------------------------
(* The host.  It sends the next command when it has the status of the last *)
(* one, takes a short packet or the length it asked for as the end of the  *)
(* data, a status in place of the data as a status, and tries again when   *)
(* it gets an empty packet in place of a status.  It may reset the bus at  *)
(* any time.                                                               *)

\* The wrappers as the transport's standard lays them out.
LittleEndian(n, v) == [k \in 1..n |-> (v \div 256^(k - 1)) % 256]
HostCbw(c) ==
    <<85, 83, 66, 67>> \o LittleEndian(4, c.tag) \o LittleEndian(4, c.len)
    \o <<IF c.dir = "in" THEN 128 ELSE 0, 0, Len(c.cdb)>>
    \o c.cdb \o [k \in 1..(16 - Len(c.cdb)) |-> 0]
HostCbws == [c \in Commands |-> HostCbw(c)]

\* What a host may send.  The op codes of the commands, by the standards; reads
\* and writes come in three lengths.
Codes ==
    [TestUnitReady |-> {0}, RequestSense |-> {3}, Read |-> {8, 40, 168},
     Write |-> {10, 42, 170}, Inquiry |-> {18}, ModeSense |-> {26},
     PreventAllowMediumRemoval |-> {30}, ReadFormatCapacities |-> {35},
     ReadCapacity |-> {37}]

\* The number of four bytes, the highest first.
Big(d, first) ==
    16777216 * d[first] + 65536 * d[first + 1] + 256 * d[first + 2] + d[first + 3]

FourBytes(v) == v \in Nat /\ v \div 16777216 < 256

\* Address and number of blocks in a command block of 6, 10 or 12 bytes.  No
\* host asks for no block at all (a zero says 256 in the shortest form) or for
\* one beyond the last that 32 bits can name: lba + count - 1, u32 in the code,
\* does not wrap.
Addresses(d, lba, count) ==
    /\ count # 0 /\ FourBytes(lba + count)
    /\ \/ /\ Len(d) = 6 /\ d[1] \in {8, 10}
          /\ lba = 65536 * (d[2] % 32) + 256 * d[3] + d[4]
          /\ count = d[5]
       \/ /\ Len(d) = 10 /\ d[1] \in {40, 42}
          /\ lba = Big(d, 3) /\ count = 256 * d[8] + d[9]
       \/ /\ Len(d) = 12 /\ d[1] \in {168, 170}
          /\ lba = Big(d, 3) /\ count = Big(d, 7)

\* The bytes of a command say what the host means.  What process_command does
\* not know is any command but a read or a write; what extract_from_cbw rejects
\* has an op code of no command, or is a MODE SENSE of ten bytes.
WellFormed(c) ==
    /\ FourBytes(c.tag) /\ FourBytes(c.len) /\ c.dir \in {"in", "out"}
    /\ c.cdb \in Seq(0..255) /\ Len(c.cdb) \in 1..16
    /\ CASE c.op \in {"Read", "Write"} ->
              /\ c.cdb[1] \in Codes[c.op]
              /\ Addresses(c.cdb, c.lba, c.count)
              /\ c.len = c.count * BlockBytes
              /\ c.dir = IF c.op = "Read" THEN "in" ELSE "out"
         [] c.op = "Unsupported" -> c.cdb[1] \notin Codes.Read \cup Codes.Write
         [] c.op = "Rejected" ->
              \/ c.cdb[1] \notin {OpCode[n] : n \in DOMAIN CommandTable}
              \/ c.cdb[1] = OpCode["ModeSense10"] /\ Len(c.cdb) = 10
         [] OTHER -> c.op \in DOMAIN Codes /\ c.cdb[1] \in Codes[c.op]

ASSUME CommandsAssumption == \A c \in Commands : WellFormed(c)

HostNumber(bytes, first) ==
    bytes[first] + 256 * bytes[first + 1] + 65536 * bytes[first + 2]
    + 16777216 * bytes[first + 3]

HostSend ==
    /\ host.st = "idle" /\ rx = <<>>
    /\ \E c \in Commands :
         /\ rx' = << << <<"cbw", HostCbws[c]>> >> >>
         /\ host' = [host EXCEPT !.cmd = c, !.got = <<>>, !.left = c.len, !.tag = 0,
                                 !.residue = 0, !.ok = FALSE, !.erased = erasing,
                                 !.asked = host.why, !.why = "any",
                                 !.st = IF c.len = 0 THEN "status" ELSE c.dir]
    /\ UNCHANGED <<mem, erasing, bot, scsi, last, pc, inDone, tx>>

HostOut ==
    /\ host.st = "out" /\ rx = <<>>
    /\ LET n == IF host.left < PacketSize THEN host.left ELSE PacketSize
       IN /\ rx' = <<Bytes(<<"data">>, n)>>
          /\ host' = [host EXCEPT !.left = @ - n,
                                  !.st = IF host.left = n THEN "status" ELSE @]
    /\ UNCHANGED <<mem, erasing, bot, scsi, last, pc, inDone, tx>>

IsCsw(p) ==
    /\ Len(p) = CswBytes /\ p[1][1][1] = "csw"
    /\ SubSeq(p[1][1][2], 1, 4) = <<85, 83, 66, 83>>

\* What the host expects of the next RequestSense.
Why(c, ok) ==
    IF ok THEN "any" ELSE IF c.op = "Unsupported" THEN "illegal" ELSE "hardware"

HostTake ==
    /\ host.st \in {"in", "status"} /\ tx # <<>>
    /\ LET p == tx[1]
           more == [host EXCEPT !.got = @ \o p, !.left = @ - Len(p)]
       IN host' =
            IF IsCsw(p) /\ (host.st = "status" \/ host.got = <<>>)
            THEN LET csw == p[1][1][2]
                 IN [host EXCEPT !.st = "idle", !.ok = (csw[13] = 0),
                                 !.tag = HostNumber(csw, 5), !.residue = HostNumber(csw, 9),
                                 !.why = Why(host.cmd, csw[13] = 0)]
            ELSE IF host.st = "status" THEN [host EXCEPT !.got = @ \o p]
            ELSE [more EXCEPT !.st = IF Len(p) < PacketSize \/ more.left <= 0
                                     THEN "status" ELSE @]
    /\ tx' = <<>> /\ inDone' = TRUE
    /\ UNCHANGED <<mem, erasing, bot, scsi, last, pc, rx>>

\* A bus reset, handled between two polls.
Reset ==
    /\ pc = "event" /\ host.st # "idle"
    /\ bot' = ResetTransport(bot) /\ scsi' = ResetScsi(scsi)
    /\ rx' = <<>> /\ tx' = <<>> /\ inDone' = FALSE
    /\ host' = [host EXCEPT !.st = "idle", !.cmd = None, !.got = <<>>, !.ok = FALSE,
                            !.left = 0, !.why = "any", !.asked = "any"]
    /\ UNCHANGED <<mem, erasing, last, pc>>

\* Any other event of the peripheral, such as a packet of the serial port.
OtherEvent ==
    /\ pc = "event" /\ ~inDone
    /\ inDone' = TRUE
    /\ UNCHANGED <<mem, erasing, bot, scsi, last, pc, rx, tx, host>>

\* flash_erease and the end of its task.
FlashErease ==
    /\ erasing' = ~erasing
    /\ host' = [host EXCEPT !.erased = @ \/ (host.st # "idle" /\ ~erasing)]
    /\ UNCHANGED <<mem, bot, scsi, last, pc, inDone, rx, tx>>

Next == Poll \/ HostSend \/ HostOut \/ HostTake \/ Reset \/ OtherEvent \/ FlashErease

Spec == Init /\ [][Next]_vars

\* The control flow of a poll: the steps of Poll are those that change pc.
PollTurn ==
    \/ pc = "event" /\ (rx # <<>> \/ inDone) /\ pc' = "read"
    \/ pc = "read" /\ pc' = "receive"
    \/ pc = "receive" /\ pc' \in {"write", "event"}
    \/ pc = "write" /\ pc' = "event"

\* The usbd thread serves the events of the peripheral, and the host moves the
\* packets of a transfer it has begun.
FairSpec == Spec /\ WF_pc(PollTurn) /\ WF_vars(HostOut) /\ WF_vars(HostTake)

-----------------------------------------------------------------------------
(* What a host should see.  The volume is stated a second time, as a whole *)
(* and not sector by sector.                                               *)

RefRoundUp(n, unit) == CHOOSE k \in 1..(n + 1) : k * unit >= n /\ (k = 1 \/ (k - 1) * unit < n)

\* Clusters of entry i that hold data, and all that are set aside for it.
RefUsed(tab, i) == IF tab[i].dir THEN 1 ELSE RefRoundUp(tab[i].size, Clust)
RefHeld(tab, i) == IF tab[i].dir THEN 1 ELSE RefRoundUp(tab[i].max, Clust)
RefFirst(tab, i) == 2 + FoldFunctionOnSet(+, 0, [k \in DOMAIN tab |-> RefHeld(tab, k)], 1..(i - 1))

\* The table of all clusters: every file is one chain that ends at its last
\* used cluster.
RefFat(tab) ==
    LET chain(i) == [k \in 1..RefHeld(tab, i) |->
                        IF k = RefUsed(tab, i) THEN EOF
                        ELSE IF k > RefUsed(tab, i) THEN FREE
                        ELSE RefFirst(tab, i) + k]
    IN <<ROOT_END, EOF>> \o FlattenSeq([i \in DOMAIN tab |-> chain(i)])

RefDir(tab) ==
    <<VolLabel>> \o [k \in 1..(Len(tab) - 1) |->
                        <<k + 1, RefFirst(tab, k + 1), tab[k + 1].size>>]

\* Sectors of the data region; Unspecified is a sector nothing is promised about.
Unspecified == <<"any">>
RefData(tab) ==
    LET listing(k) == <<"dir", SubSeq(RefDir(tab), (k - 1) * DirPerSect + 1,
                                      Min({k * DirPerSect, Len(tab)}))>>
        entry(i) ==
            [k \in 1..(RefHeld(tab, i) * SectPerClust) |->
                IF tab[i].dir THEN listing(k)
                ELSE IF (k - 1) * Sect < tab[i].size THEN <<"file", i, (k - 1) * Sect>>
                ELSE Unspecified]
    IN FlattenSeq([i \in DOMAIN tab |-> entry(i)])

RefVolume ==
    [m \in MemoryStates |-> [data |-> RefData(Volume[m].tab), fat |-> RefFat(Volume[m].tab)]]

RefSector(m, lba) ==
    LET v == Volume[m]
        data == RefVolume[m].data
        fat == RefVolume[m].fat
        k == (lba - v.fat1) % (v.fat2 - v.fat1)
        size == v.root + Len(data) - BootLba
    IN IF lba = 0 THEN <<"mbr", BootLba, size>>
       ELSE IF lba = BootLba THEN <<"boot", size, v.fat2 - v.fat1>>
       ELSE IF lba >= v.root
       THEN IF lba - v.root < Len(data) THEN data[lba - v.root + 1] ELSE Unspecified
       ELSE IF lba >= v.fat1
       THEN <<"fat", [j \in 1..FatPerSect |->
                 IF k * FatPerSect + j <= Len(fat) THEN fat[k * FatPerSect + j] ELSE RESERVED]>>
       ELSE Unspecified

RefRead(c) ==
    FlattenSeq([n \in 1..c.count |-> Bytes(RefSector(mem, c.lba + n - 1), BlockBytes)])

Agrees(got, want) ==
    /\ Len(got) = Len(want)
    /\ \A k \in DOMAIN got : want[k][1] = Unspecified \/ got[k] = want[k]

-----------------------------------------------------------------------------
(* Properties *)

TypeOK ==
    /\ mem \in MemoryStates /\ {erasing, inDone} \subseteq BOOLEAN
    /\ bot.state \in {"WaitingForCommand", "SendingDataToHost", "ReceivingDataFromHost",
                      "NeedToSendStatus", "NeedZlp"}
    /\ Len(bot.buf) <= BlockBytes
    /\ bot.di \in 0..Len(bot.buf) /\ (bot.di = Len(bot.buf) => bot.di = 0)
    /\ scsi.sense \in {NoSense, HardwareError, IllegalRequest}
    /\ last \in 1..Len(fs.tab)
    /\ Len(rx) <= 1 /\ Len(tx) <= 1
    /\ \A p \in ToSet(rx) \cup ToSet(tx) : Len(p) <= PacketSize

\* The answer to a command is the one to this command: the bytes of the disk at
\* its address or the whole reply, no byte of another answer among them, a
\* residue that counts what did not come, and a failure only of what the
\* device refuses or, for a read, of a memory that is being erased
\* (bulk_only_transport.rs, scsi.rs, emfat.c).
Answered == host.st = "idle" /\ host.cmd # None

\* What the bytes of an answer say to a host.
SaysSense(r, why) ==
    /\ r[1] % 128 = 112
    /\ why = "illegal" => r[3] % 16 = 5 /\ r[13] = 32 /\ r[14] = 0
    /\ why = "hardware" => r[3] % 16 = 4
SaysDisk(r) ==
    r[1] = 0 /\ r[2] \div 128 = 1 /\ r[4] % 16 = 2 /\ r[5] >= 31 /\ r[8] = 0
SaysCapacity(r) ==
    /\ Number(SubSeq(r, 5, 8)) = BlockBytes
    /\ Number(SubSeq(r, 1, 4)) + 1 >= fs.diskSectors
SaysNoCache(r) ==
    /\ r[1] = Len(r) - 1 /\ r[4] = 0 /\ r[5] % 64 = 8 /\ r[6] = Len(r) - 6
    /\ (r[7] \div 4) % 2 = 0

AnswersAreFaithful ==
    Answered =>
      LET c == host.cmd
          n == IF c.len < ReplyBytes THEN c.len ELSE ReplyBytes
          reply == host.got[1][1][2]
      IN /\ host.tag = c.tag
         /\ host.ok => /\ host.residue = c.len - Len(host.got)
                       /\ c.op \in {"Write", "Unsupported"} => c.len = 0
         /\ ~host.ok => \/ c.op \in {"Write", "Unsupported"}
                        \/ c.op = "Read" /\ host.erased
         /\ host.ok /\ c.op = "Read" => Agrees(host.got, RefRead(c))
         /\ host.ok /\ c.op \in {"Inquiry", "RequestSense", "ReadCapacity", "ModeSense"} =>
              /\ host.got = Bytes(<<"reply", reply>>, n)
              /\ CASE c.op = "Inquiry" -> SaysDisk(reply)
                   [] c.op = "ReadCapacity" -> SaysCapacity(reply)
                   [] c.op = "ModeSense" -> SaysNoCache(reply)
                   [] OTHER -> SaysSense(reply, host.asked)

\* The device does what the host means: what it takes from the bytes of the
\* wrapper and of the command block is what the host put there by the standard,
\* whatever lies in the fields around it (packing_codegen/src/lib.rs 465-497,
\* big.rs, little.rs, read.rs, write.rs, command.rs 34-74).
CommandsAreUnderstood ==
    /\ Transferring(bot) =>
         /\ bot.cbw.tag = host.cmd.tag
         /\ bot.cbw.data_transfer_length = host.cmd.len
         /\ (bot.cbw.direction = DeviceToHost) = (host.cmd.dir = "in")
    /\ scsi.cmd # None =>
         /\ scsi.cmd.op = host.cmd.op \/ host.cmd.op = "Unsupported"
         /\ scsi.cmd.op \in {"Read", "Write"} =>
              scsi.cmd.lba = host.cmd.lba /\ scsi.cmd.count = host.cmd.count

\* A command that the device knows is answered with a status, unless the memory
\* is erased meanwhile or the host gives up: the transport and the commands
\* never wait for each other, whatever packet ends the data (bulk_only_transport.rs
\* 187-202, scsi.rs 118-321).
Answerable(c) ==
    /\ c.op # "Rejected"
    /\ ~(c.op = "Unsupported" /\ c.dir = "out" /\ c.len > 0)

CommandAnswered ==
    host.st # "idle" /\ Answerable(host.cmd) ~> host.st = "idle" \/ host.erased

=============================================================================
