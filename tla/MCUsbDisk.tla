----------------------------- MODULE MCUsbDisk -----------------------------
(* UsbDisk for TLC: the commands of a host, laid out by the standards.  A    *)
(* block is read from every region of the volume; a command without data has *)
(* the OUT direction.  What surrounds the fields that count is not zero.     *)
EXTENDS UsbDisk

Command(op, dir, len, tag, cdb) ==
    [op |-> op, dir |-> dir, len |-> len, tag |-> tag, lba |-> 0, count |-> 0, cdb |-> cdb]

BigEndian(n, v) == [k \in 1..n |-> (v \div 256^(n - k)) % 256]

\* Command blocks of 6, 10 and 12 bytes; the five highest bits of a 6 byte
\* address share their byte with a field of three bits.
Cdb6(op, lba, count) ==
    <<op, 7 * 32 + lba \div 65536>> \o BigEndian(2, lba % 65536) \o <<count, 255>>
Cdb10(op, lba, count) ==
    <<op, 250>> \o BigEndian(4, lba) \o <<31>> \o BigEndian(2, count) \o <<255>>
Cdb12(op, lba, count) ==
    <<op, 250>> \o BigEndian(4, lba) \o BigEndian(4, count) \o <<31, 255>>

Transfer(op, dir, lba, count, cdb) ==
    [Command(op, dir, count * BlockBytes, 16909060 + lba, cdb) EXCEPT
        !.lba = lba, !.count = count]

\* The partition table; boot and file system information; two sectors of the
\* FAT; the root directory or a file; the last two files, or nothing.
Reads == { Transfer("Read", "in", 0, 1, Cdb6(8, 0, 1)),
           Transfer("Read", "in", 3, 2, Cdb10(40, 3, 2)),
           Transfer("Read", "in", 6, 2, Cdb12(168, 6, 2)),
           Transfer("Read", "in", 11, 1, Cdb10(40, 11, 1)),
           Transfer("Read", "in", 26, 2, Cdb6(8, 26, 2)) }

\* Addresses of three and four bytes.
Writes == { Transfer("Write", "out", 2032131, 2, Cdb6(10, 2032131, 2)),
            Transfer("Write", "out", 16909060, 1, Cdb12(170, 16909060, 1)) }

\* A SYNCHRONIZE CACHE and a MODE SELECT, and a MODE SENSE for default values;
\* a READ CAPACITY of 16 bytes, and a MODE SENSE of 10.
Others ==
    { Command("TestUnitReady", "out", 0, 1, <<0, 224, 0, 0, 0, 255>>),
      Command("Inquiry", "in", 3, 2, <<18, 224, 0, 0, 36, 255>>),
      Command("RequestSense", "in", 1, 3, <<3, 224, 0, 0, 18, 255>>),
      Command("ReadCapacity", "in", 1, 4, Cdb10(37, 0, 0)),
      Command("ModeSense", "in", 1, 5, <<26, 255, 63, 0, 192, 255>>),
      Command("ReadFormatCapacities", "in", 1, 6, Cdb10(35, 0, 252)),
      Command("Unsupported", "in", 2, 7, <<26, 0, 191, 0, 192, 0>>),
      Command("Unsupported", "out", 0, 8, Cdb10(53, 0, 0)),
      Command("Unsupported", "out", 2, 9, <<21, 17, 0, 0, 2, 0>>),
      Command("Rejected", "in", 2, 10, <<158, 16, 0, 0, 0, 0, 0, 0, 0, 0, 0, 0, 0, 32, 0, 0>>),
      Command("Rejected", "in", 2, 11, <<90, 0, 63, 0, 0, 0, 0, 0, 192, 0>>) }

HostCommands == Reads \cup Writes \cup Others
=============================================================================
