------------------------------- MODULE Emfat -------------------------------
(***************************************************************************)
(* emfat: a FAT32 volume that exists only while it is read.  The layout    *)
(* follows from the table of files when the volume is made; every sector   *)
(* is computed when it is asked for.  A table is a sequence of entries     *)
(* [dir, size, max]; entry 1 is the root directory and the others are its  *)
(* files, as EMfatStorage builds it.  A sector is a tuple that says what   *)
(* it holds.                                                               *)
(***************************************************************************)
EXTENDS Naturals, Sequences

CONSTANTS
    Sect,           \* bytes of a sector (512)
    SectPerClust,   \* sectors of a cluster (8)
    FatEntry,       \* bytes of an entry of the FAT (4)
    DirEntry,       \* bytes of an entry of a directory (32)
    BootLba         \* boot_lba (62)

ASSUME GeometryAssumption ==
    /\ {Sect, SectPerClust, FatEntry, DirEntry, BootLba} \subseteq Nat \ {0}
    /\ Sect % FatEntry = 0 /\ Sect % DirEntry = 0

FREE == "free"          \* CLUST_FREE
RESERVED == "reserved"  \* CLUST_RESERVED
EOF == "eof"            \* CLUST_EOF
ROOT_END == "rootend"   \* CLUST_ROOT_END

Clust == SectPerClust * Sect
FatPerSect == Sect \div FatEntry
DirPerSect == Sect \div DirEntry

SizeToNSect(s) == IF s = 0 THEN 1 ELSE (s + Sect - 1) \div Sect
SizeToNClust(s) == IF s = 0 THEN 1 ELSE (s + Clust - 1) \div Clust

-----------------------------------------------------------------------------
(* Making the volume *)

\* The first file becomes the directory's sub and is not counted.
NumSubentry(tab) == IF Len(tab) < 2 THEN 0 ELSE Len(tab) - 2

UsedClusters(tab, i) ==
    SizeToNClust(IF tab[i].dir THEN NumSubentry(tab) * DirEntry ELSE tab[i].size)

ReservedClusters(tab, i) ==
    IF tab[i].dir THEN UsedClusters(tab, i) ELSE SizeToNClust(tab[i].max)

EmfatInit(tab) ==
    LET next[i \in 0..Len(tab)] ==      \* first cluster behind entry i
            IF i = 0 THEN 2 ELSE next[i - 1] + ReservedClusters(tab, i)
        numClust == next[Len(tab)] - 2
        sectPerFat == SizeToNSect(numClust * FatEntry)
        fat1 == BootLba + 2
    IN [ tab |-> tab,
         first |-> [i \in 1..Len(tab) |-> next[i - 1]],
         last |-> [i \in 1..Len(tab) |-> next[i - 1] + UsedClusters(tab, i) - 1],
         lastReserved |-> [i \in 1..Len(tab) |-> next[i] - 1],
         numClust |-> numClust,
         fat1 |-> fat1,
         fat2 |-> fat1 + sectPerFat,
         root |-> fat1 + 2 * sectPerFat,
         diskSectors |-> numClust * SectPerClust + fat1 + 2 * sectPerFat ]

-----------------------------------------------------------------------------
(* Finding the entry of a cluster.  The search starts at the entry that was *)
(* found last and goes only one way.                                        *)

IsClustOf(fs, c, i) == fs.first[i] <= c /\ c <= fs.lastReserved[i]

NONE == 0

FindEntry(fs, c, nearest) ==
    LET way == IF fs.first[nearest] > c THEN 1..nearest ELSE nearest..Len(fs.tab)
        found == {i \in way : IsClustOf(fs, c, i)}
    IN IF found = {} THEN NONE ELSE CHOOSE i \in found : TRUE

Locate(fs, c, hint) == IF IsClustOf(fs, c, hint) THEN hint ELSE FindEntry(fs, c, hint)

-----------------------------------------------------------------------------
(* Sectors.  A reader returns the sector and the entry to start from next   *)
(* time.                                                                    *)

ReadMbrSector(fs) == <<"mbr", BootLba, fs.diskSectors - BootLba>>
ReadBootSector(fs) == <<"boot", fs.diskSectors - BootLba, fs.fat2 - fs.fat1>>
ReadFsinfoSector(fs) == <<"fsinfo", fs.numClust + 2>>

FatValue(fs, c, i) ==
    IF c = fs.last[i] THEN EOF
    ELSE IF ~fs.tab[i].dir /\ c > fs.last[i] THEN FREE
    ELSE c + 1

ReadFatSector(fs, hint, index) ==
    LET clust(k) == index * FatPerSect + k - 1
        le[k \in 0..FatPerSect] ==
            IF k = 0 THEN hint
            ELSE IF clust(k) < 2 THEN le[k - 1]
            ELSE LET i == Locate(fs, clust(k), le[k - 1])
                 IN IF i = NONE THEN hint ELSE i
        value(k) ==
            IF clust(k) = 0 THEN ROOT_END
            ELSE IF clust(k) = 1 THEN EOF
            ELSE IF IsClustOf(fs, clust(k), le[k]) THEN FatValue(fs, clust(k), le[k])
            ELSE RESERVED
    IN [ data |-> <<"fat", [k \in 1..FatPerSect |-> value(k)]>>,
         last |-> le[FatPerSect] ]

FillEntry(fs, i) == <<i, fs.first[i], fs.tab[i].size>>
VolLabel == <<0>>

\* The label comes before the files, so only the first sector has it.
FillDirSector(fs, rel) ==
    LET n == IF rel = 0 THEN 0 ELSE rel * DirPerSect - 1    \* files to skip
        room == IF rel = 0 THEN DirPerSect - 1 ELSE DirPerSect
        avail == IF n + 1 < Len(fs.tab) THEN Len(fs.tab) - n - 1 ELSE 0
        entries == [k \in 1..(IF avail < room THEN avail ELSE room) |->
                        FillEntry(fs, n + 1 + k)]
    IN <<"dir", IF rel = 0 THEN <<VolLabel>> \o entries ELSE entries>>

\* What a callback gives for the file's sector at an offset: behind the end of
\* the file spaces or what the buffer held, depending on the file.
FileSector(fs, i, offset) ==
    IF offset < fs.tab[i].size THEN <<"file", i, offset>> ELSE <<"past end">>

ReadDataSector(fs, hint, rel) ==
    LET c == rel \div SectPerClust + 2
        s == rel % SectPerClust
        i == Locate(fs, c, hint)
    IN IF i = NONE THEN [data |-> <<"dead">>, last |-> hint]
       ELSE [ data |-> IF fs.tab[i].dir THEN FillDirSector(fs, s)
                       ELSE FileSector(fs, i, (c - fs.first[i]) * Clust + s * Sect),
              last |-> i ]

EmfatRead(fs, hint, lba) ==
    CASE lba >= fs.root -> ReadDataSector(fs, hint, lba - fs.root)
      [] lba = 0 -> [data |-> ReadMbrSector(fs), last |-> hint]
      [] lba = BootLba + 1 -> [data |-> ReadFsinfoSector(fs), last |-> hint]
      [] lba = BootLba -> [data |-> ReadBootSector(fs), last |-> hint]
      [] lba >= fs.fat1 /\ lba < fs.fat2 -> ReadFatSector(fs, hint, lba - fs.fat1)
      [] lba >= fs.fat2 /\ lba < fs.root -> ReadFatSector(fs, hint, lba - fs.fat2)
      [] OTHER -> [data |-> <<"zero">>, last |-> hint]
=============================================================================
