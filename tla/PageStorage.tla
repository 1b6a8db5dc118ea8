---------------------------- MODULE PageStorage ----------------------------
(***************************************************************************)
(* The data memory: main_data_storage/mod.rs, the writer of diff_writer.rs *)
(* and the storage behind them.  In recorder mode pages are acquired and   *)
(* written chunk by chunk; in USB mode the memory is cleared by a task of  *)
(* its own and shown to the host.  The two modes never run in one boot,    *)
(* and power may go at any step; what the firmware keeps in RAM is then    *)
(* lost and found again by scanning the memory.                            *)
(*                                                                         *)
(* The flash chip itself is external: a chunk is programmed over what is   *)
(* there, a program or an erase that is cut short leaves something else    *)
(* than it was to, and a failed program raises a flag that nothing in the  *)
(* firmware clears.                                                        *)
(***************************************************************************)
EXTENDS Integers

CONSTANTS
    Size,       \* pages of the memory
    ChunkCount, \* programs (256 bytes) per page (4096 bytes)
    MaxBlocks,  \* bound on the blocks recorded
    MaxBoots,   \* bound on the boots
    MaxFaults   \* bound on the faults of chip, driver and task creation

ASSUME StorageAssumption ==
    /\ {Size, ChunkCount} \subseteq Nat \ {0}
    /\ {MaxBlocks, MaxBoots, MaxFaults} \subseteq Nat

Pages  == 0 .. Size - 1
Chunks == 1 .. ChunkCount   \* chunk 1 holds the header
Blocks == 1 .. MaxBlocks

\* What a chunk holds when it does not hold that of a block.
Blank     == 0
Torn      == -1
Scratched == -2     \* partly programmed, but the identifiers still read blank
Content   == {Blank, Torn, Scratched} \cup Blocks

\* MemoryState, when it is not PartialUsed(page).
Undefined == -1
FullUsed  == -2

VARIABLES
    flash,      \* contents of the memory, by page and chunk
    failure,    \* PROGRAM_FAILURE of the chip's flag status register
    mode,       \* the mode of this boot, "off" without power
    boots,      \* boots so far
    cache,      \* NEXT_EMPTY_PAGE
    writer,     \* FlashDiffWriter and the page it has in hand
    recorded,   \* number of blocks recorded, over all boots
    begun,      \* number of blocks recorded before this boot
    faults,     \* number of faults so far
    doomed,     \* number of blocks recorded before the last clear began
    erasing,    \* ERASE_IN_PROGRESS
    eraser      \* the FlashClr task

vars == <<flash, failure, mode, boots, cache, writer, recorded, begun, faults,
          doomed, erasing, eraser>>
usbVars == <<doomed, erasing, eraser>>

TypeOK ==
    /\ flash \in [Pages -> [Chunks -> Content]]
    /\ failure \in BOOLEAN
    /\ mode \in {"off", "recorder", "usb"}
    /\ boots \in 0 .. MaxBoots
    /\ cache \in Pages \cup {Undefined, FullUsed}
    /\ writer \in [stage : {"idle", "aqured", "writing", "halted"},
                   next : 0 .. Size, dest : Pages,
                   block : {0} \cup Blocks, chunk : Chunks]
    /\ recorded \in 0 .. MaxBlocks
    /\ begun \in 0 .. recorded
    /\ doomed \in 0 .. recorded
    /\ faults \in 0 .. MaxFaults
    /\ erasing \in BOOLEAN
    /\ eraser \in {"none", "posted", "first", "second"}

IdleWriter == [stage |-> "idle", next |-> 0, dest |-> 0, block |-> 0, chunk |-> 1]

BlankPage == [c \in Chunks |-> Blank]

Init ==
    /\ flash = [p \in Pages |-> BlankPage]
    /\ failure = FALSE
    /\ mode = "off"
    /\ boots = 0
    /\ cache = Undefined
    /\ writer = IdleWriter
    /\ recorded = 0
    /\ begun = 0
    /\ doomed = 0
    /\ faults = 0
    /\ erasing = FALSE
    /\ eraser = "none"

\* Chip, driver or task creation fails, at most MaxFaults times.
Fault == faults < MaxFaults /\ faults' = faults + 1

-----------------------------------------------------------------------------
(* The search for an empty page *)

\* A page is taken for erased when one of its two identifiers reads FFFFFFFF.
HeaderBlank(p) == flash[p][1] \in {Blank, Scratched}

Lowest(ps) == CHOOSE p \in ps : \A q \in ps : p <= q

Scan(start) ==
    LET empty == {p \in Pages : start <= p /\ HeaderBlank(p)}
    IN  IF empty = {} THEN FullUsed ELSE Lowest(empty)

\* Mutant: the remembered page is returned whatever was asked for.
FindNextEmptyPage_AnyCached(start) ==
    IF cache # Undefined THEN cache ELSE Scan(start)

\* Mutant: at the end of the memory the search goes round to its beginning.
FindNextEmptyPage_GoesRound(start) ==
    CASE cache \in Pages /\ start <= cache -> cache
      [] cache = FullUsed                  -> FullUsed
      [] OTHER -> IF Scan(start) = FullUsed THEN Scan(0) ELSE Scan(start)

\* find_next_empty_page: what it returns it also remembers.
FindNextEmptyPage(start) ==
    CASE cache \in Pages /\ start <= cache -> cache
      [] cache = FullUsed                  -> FullUsed
      [] OTHER                             -> Scan(start)

-----------------------------------------------------------------------------
(* Recorder mode *)

\* Mutant: the page in hand is counted twice.
NextPage_Twice(ep) == ep + 2

NextPage(ep) == ep + 1

\* try_create_new_page: with the memory full the processor is halted; when the
\* settings are locked for longer than 10 ms, the caller tries again.
TryCreateNewPage ==
    /\ mode = "recorder" /\ writer.stage = "idle" /\ recorded < MaxBlocks
    /\ LET ep == FindNextEmptyPage(writer.next)
       IN  /\ cache' = ep
           /\ IF ep = FullUsed
              THEN /\ writer' = [writer EXCEPT !.stage = "halted"]
                   /\ UNCHANGED recorded
              ELSE \/ /\ writer' = [writer EXCEPT !.next = ep]
                      /\ UNCHANGED recorded
                   \/ /\ recorded' = recorded + 1
                      /\ writer' = [stage |-> "aqured", next |-> NextPage(ep),
                                    dest |-> ep, block |-> recorded', chunk |-> 1]
    /\ UNCHANGED <<flash, failure, mode, boots, begun, faults, usbVars>>

WriteEnds == writer' = [writer EXCEPT !.stage = "idle", !.chunk = 1]

\* write: the page is selected; when that fails the page is given up.
SelectPage ==
    /\ mode = "recorder" /\ writer.stage = "aqured"
    /\ \/ writer' = [writer EXCEPT !.stage = "writing"] /\ UNCHANGED faults
       \/ WriteEnds /\ Fault
    /\ UNCHANGED <<flash, failure, mode, boots, cache, recorded, begun, usbVars>>

\* A program only clears bits.
Programmed(old, new) == IF old = Blank THEN new ELSE Torn

\* write_block, one chunk: check_write_ok ends the write when an earlier program
\* has failed; that of the last chunk is never looked at.
WriteChunk ==
    /\ mode = "recorder" /\ writer.stage = "writing"
    /\ \/ /\ failure
          /\ WriteEnds
          /\ UNCHANGED <<flash, failure, faults>>
       \/ /\ ~failure
          /\ LET old == flash[writer.dest][writer.chunk]
             IN  \/ /\ flash' = [flash EXCEPT ![writer.dest][writer.chunk] =
                                   Programmed(old, writer.block)]
                    /\ UNCHANGED <<failure, faults>>
                 \/ /\ Fault
                    /\ flash' = [flash EXCEPT ![writer.dest][writer.chunk] = Torn]
                    /\ failure' = TRUE
          /\ IF writer.chunk = ChunkCount
             THEN WriteEnds
             ELSE writer' = [writer EXCEPT !.chunk = @ + 1]
    /\ UNCHANGED <<mode, boots, cache, recorded, begun, usbVars>>

-----------------------------------------------------------------------------
(* USB mode *)

\* flash_erease: the flag is set before the task that clears it is created.
FlashErease ==
    /\ mode = "usb" /\ ~erasing
    /\ erasing' = TRUE
    /\ \/ eraser' = "posted" /\ UNCHANGED faults
       \/ Fault /\ UNCHANGED eraser
    /\ UNCHANGED <<flash, failure, mode, boots, cache, writer, recorded, begun,
                   doomed>>

\* The task sends the erase of the first die, or gives up.
EraseBegins ==
    /\ mode = "usb" /\ eraser = "posted"
    /\ \/ eraser' = "first" /\ doomed' = recorded /\ UNCHANGED <<erasing, faults>>
       \/ Fault /\ eraser' = "none" /\ erasing' = FALSE /\ UNCHANGED doomed
    /\ UNCHANGED <<flash, failure, mode, boots, cache, writer, recorded, begun>>

\* The first die holds every page the firmware addresses.
FirstDieErased ==
    /\ mode = "usb" /\ eraser = "first"
    /\ flash' = [p \in Pages |-> BlankPage]
    /\ eraser' = "second"
    /\ UNCHANGED <<failure, mode, boots, cache, writer, recorded, begun,
                   faults, doomed, erasing>>

\* Mutant: the flag is left set.
FlagAfterErase_Kept == erasing

FlagAfterErase == FALSE

SecondDieErased ==
    /\ mode = "usb" /\ eraser = "second"
    /\ eraser' = "none"
    /\ erasing' = FlagAfterErase
    /\ UNCHANGED <<flash, failure, mode, boots, cache, writer, recorded, begun,
                   faults, doomed>>

-----------------------------------------------------------------------------
(* Power *)

\* init: the state of the memory is found by scanning it.
Boot ==
    /\ mode = "off" /\ boots < MaxBoots
    /\ mode' \in {"recorder", "usb"}
    /\ boots' = boots + 1
    /\ cache' = Scan(0)
    /\ begun' = recorded
    /\ UNCHANGED <<flash, failure, writer, recorded, faults, usbVars>>

\* What an interrupted erase leaves of a page.
InterruptedErase(page) ==
    {page, BlankPage, [c \in Chunks |-> Torn],
     [c \in Chunks |-> IF c = 1 THEN Scratched ELSE Torn]}

\* What an interrupted program leaves of a chunk.
InterruptedProgram(c, old) ==
    {old, Torn} \cup (IF c = 1 /\ old = Blank THEN {Scratched} ELSE {})

PowerLoss ==
    /\ mode # "off"
    /\ mode' = "off"
    /\ IF writer.stage = "writing" /\ ~failure
       THEN \E left \in InterruptedProgram(writer.chunk, flash[writer.dest][writer.chunk]) :
              flash' = [flash EXCEPT ![writer.dest][writer.chunk] = left]
       ELSE IF eraser = "first"
       THEN /\ flash' \in [Pages -> UNION {InterruptedErase(flash[p]) : p \in Pages}]
            /\ \A p \in Pages : flash'[p] \in InterruptedErase(flash[p])
       ELSE UNCHANGED flash
    /\ failure' = FALSE
    /\ cache' = Undefined
    /\ writer' = IdleWriter
    /\ erasing' = FALSE
    /\ eraser' = "none"
    /\ UNCHANGED <<boots, recorded, begun, faults, doomed>>

Next ==
    \/ TryCreateNewPage \/ SelectPage \/ WriteChunk
    \/ FlashErease \/ EraseBegins \/ FirstDieErased \/ SecondDieErased
    \/ Boot \/ PowerLoss

Spec == Init /\ [][Next]_vars

\* The task is runnable from its creation and the chip finishes every erase.
FairSpec == Spec /\ WF_vars(EraseBegins \/ FirstDieErased \/ SecondDieErased)

-----------------------------------------------------------------------------
(* Properties *)

\* The block a page holds whole, if it does.
Complete(p) == flash[p][1] \in Blocks /\ \A c \in Chunks : flash[p][c] = flash[p][1]

\* A page being written is still free as long as nothing has gone wrong.
FreeYet(p) ==
    \A c \in Chunks :
       \/ flash[p][c] = Blank
       \/ /\ writer.stage = "writing" /\ writer.dest = p /\ c < writer.chunk
          /\ flash[p][c] = writer.block

\* The memory implements the log: pages once whole are never written again, a
\* failed or interrupted write costs its own page only, blocks are appended in
\* the order they were recorded (try_create_new_page, write, flash_erease).
Log == INSTANCE PageLog WITH
    log <- [p \in Pages |-> IF Complete(p) THEN flash[p][1]
                            ELSE IF FreeYet(p) THEN 0 ELSE -1],
    clearing <- eraser = "first"

LogSpec == Log!Spec

\* Without faults the writer takes the lowest page that reads erased, whatever
\* power losses came before, and halts for lack of memory only when no page
\* reads erased (find_next_empty_page and its memory; "Memory full, power down").
NoEmptyPageSkipped ==
    faults = 0 =>
       /\ writer.stage = "aqured" => \A p \in Pages : p < writer.dest => ~HeaderBlank(p)
       /\ writer.stage = "halted" => \A p \in Pages : ~HeaderBlank(p)

\* Faults or not, the whole blocks of one boot lie in the memory in the order
\* they were recorded, which is how they are told from those of other boots:
\* their numbers start at zero at every boot.
SeriesInOrder ==
    \A p, q \in Pages :
       /\ Complete(p) /\ Complete(q)
       /\ mode = "recorder" /\ begun < flash[p][1] /\ flash[p][1] < flash[q][1]
       => p < q

\* build_files_table: pages below the one found at boot are in data_use.hs.
InUsedFile(p) == p < cache

\* As long as nothing has failed and the memory is not full, data_use.hs holds
\* every whole block recorded since the last clear began, even when that clear
\* was cut short.
UsedFileCovers ==
    faults = 0 /\ mode = "usb" /\ cache # FullUsed =>
       \A p \in Pages : Complete(p) /\ doomed < flash[p][1] => InUsedFile(p)

\* Reads of the host are refused while the memory is cleared, and not for good,
\* unless the task of the clear could not be created.
EraseEnds == (erasing /\ eraser # "none") ~> ~erasing

=============================================================================
