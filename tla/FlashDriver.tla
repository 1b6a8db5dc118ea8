---------------------------- MODULE FlashDriver ----------------------------
(***************************************************************************)
(* The driver of the data flash: the QSPI peripheral, the chip behind it,  *)
(* the driver with its sleep timer, and the tasks that use it.  In         *)
(* recorder mode one task looks for an empty page and writes it; in        *)
(* high-performance mode the USB thread maps pages for the host to read    *)
(* while another task may erase the chip.                                  *)
(* Every call takes the driver's mutex for itself, so the state a call     *)
(* leaves behind may be gone when the next one comes.  A page is named by  *)
(* its 16 MB segment, the part of its address that the driver keeps.       *)
(***************************************************************************)
EXTENDS Naturals, Sequences, FiniteSets

CONSTANTS
    Segments,       \* values of the address extender
    DieSegments,    \* segments of the dies, in the order they are erased
    Chunks,         \* write_max_bytes pieces of a page
    NoSegment       \* extender_value 0xff; no pointer; no page

ASSUME FlashAssumption ==
    /\ DieSegments \in Seq(Segments) /\ DieSegments # <<>>
    /\ Chunks \in Nat \ {0}
    /\ NoSegment \notin Segments

VARIABLES
    hw,         \* chip, peripheral and driver, see HwType
    lock,       \* holder of the driver's mutex
    boot,       \* "off", "identify", "configure", "start", "run", "blocked"
    mode,       \* "recorder" or "high"
    user,       \* the recorder or the USB thread, see UserType
    ptr,        \* page of the pointer that the USB stack still has to copy from
    late,       \* the sleep timer or an erase came before that copy
    erasing,    \* ERASE_IN_PROGRESS
    eraser      \* task FlashClr: [pc, die]

vars == <<hw, lock, boot, mode, user, ptr, late, erasing, eraser>>

HwType ==
    [ asleep : BOOLEAN, quad : BOOLEAN, wel : BOOLEAN,      \* the chip
      ext : Segments, wip : {"no", "program", "erase"},
      fmode : {"indirect", "mapped"}, busy : BOOLEAN,       \* the peripheral
      qpi : BOOLEAN,
      sleep : {"Slepping", "Waiting", "Working"},           \* the driver
      extender : Segments \cup {NoSegment}, timer : BOOLEAN,
      failed : BOOLEAN,     \* the call in progress has met an error
      deaf : BOOLEAN,       \* the chip missed a command
      astray : BOOLEAN ]    \* a page was read or written in the wrong segment

UserType ==
    [ pc : {"idle", "select", "map", "read", "write", "chunk", "drop"},
      job : {"none", "search", "store", "serve"},
      page : Segments \cup {NoSegment}, chunk : 0..Chunks ]
EraserType == [pc : {"none", "begin", "wait", "end"}, die : 0..Len(DieSegments)]

-----------------------------------------------------------------------------
(* The peripheral.  A command is refused while the peripheral is busy and  *)
(* an error ends the call: what follows in the call is not done.           *)

SameMode(h) == h.quad = h.qpi
Listens(h) == ~h.asleep /\ h.wip = "no" /\ SameMode(h)

Command(h, heard, done) ==
    CASE h.failed -> h
      [] h.busy /\ ~h.failed -> [h EXCEPT !.failed = TRUE]
      [] ~h.busy /\ ~h.failed ->
            IF heard THEN [done EXCEPT !.fmode = "indirect"]
            ELSE [h EXCEPT !.fmode = "indirect", !.deaf = TRUE]

\* One that reads from the chip, and one that writes to it.
Transfer(h, heard) == Command(h, heard, h)

Write(h, heard, done) == Command(h, heard, done)

\* The abort frees the peripheral; the mode changes with the next command.
AbortTransmission(h) == [h EXCEPT !.busy = FALSE]

ApplyConfig(h, qpi) ==
    IF h.failed THEN h ELSE [AbortTransmission(h) EXCEPT !.qpi = qpi]

StartMemoryMapping(h) ==
    IF h.busy THEN [h EXCEPT !.failed = TRUE] ELSE [h EXCEPT !.fmode = "mapped"]

\* A read of the mapped memory goes on fetching until it is aborted.
ReadMapped(h) == [h EXCEPT !.busy = TRUE]

-----------------------------------------------------------------------------
(* The driver *)

IsMemoryMapped(h) == h.fmode = "mapped"

CancelMemoryMapping(h) ==
    IF ~h.failed /\ IsMemoryMapped(h) THEN AbortTransmission(h) ELSE h

SetMemoryMapping(h) == IF IsMemoryMapped(h) THEN h ELSE StartMemoryMapping(h)

WriteEnable(h) == Write(h, Listens(h), [h EXCEPT !.wel = TRUE])

\* The flag status is readable while the chip programs or erases.
ReadStatus(h) == Transfer(h, ~h.asleep /\ SameMode(h))

IsBusy(h) == ReadStatus(CancelMemoryMapping(h))

\* A plausible slip: an extender that was set once is taken to be right.
SetAddrExtender_Once(h, x) ==
    IF h.extender # NoSegment THEN h
    ELSE LET e == WriteEnable(CancelMemoryMapping(h))
             w == Write(e, Listens(e) /\ e.wel, [e EXCEPT !.ext = x, !.wel = FALSE])
         IN IF w.failed THEN w ELSE [w EXCEPT !.extender = x]

SetAddrExtender(h, x) ==
    IF h.failed \/ h.extender = x THEN h
    ELSE LET e == WriteEnable(CancelMemoryMapping(h))
             w == Write(e, Listens(e) /\ e.wel, [e EXCEPT !.ext = x, !.wel = FALSE])
         IN IF w.failed THEN w ELSE [w EXCEPT !.extender = x]

WakeUp(h) ==
    LET c == CancelMemoryMapping(h)
        w == IF h.sleep = "Slepping"
             THEN Write(c, SameMode(c), [c EXCEPT !.asleep = FALSE]) ELSE h
    IN IF w.failed THEN w ELSE [w EXCEPT !.sleep = "Working"]

WantSleep(h) ==
    IF h.sleep = "Working" THEN [h EXCEPT !.sleep = "Waiting", !.timer = TRUE] ELSE h

EnterSleep(h) ==
    LET c == CancelMemoryMapping(h)
        s == Write(c, Listens(c), [c EXCEPT !.asleep = TRUE])
    IN IF s.failed THEN s ELSE [s EXCEPT !.sleep = "Slepping"]

SelectPage(h, x) == SetAddrExtender(WakeUp(h), x)

\* One piece of write_block, when the chip is ready for it.
ProgramChunk(h, x, ok) ==
    LET s == ReadStatus(WriteEnable(h))
        p == Write(s, Listens(s) /\ s.wel,
                      [s EXCEPT !.wip = "program", !.astray = @ \/ s.ext # x])
    IN IF ok THEN p ELSE s

DieErase(h, die) ==
    LET x == DieSegments[die]
        s == WriteEnable(SetAddrExtender(WriteEnable(h), x))
    IN Write(s, Listens(s) /\ s.wel,
                [s EXCEPT !.wip = "erase", !.astray = @ \/ s.ext # x])

\* An error is handed to the caller, who goes on to something else.
Ended(h) == [h EXCEPT !.failed = FALSE]

-----------------------------------------------------------------------------
(* Boot *)

Idle == [pc |-> "idle", job |-> "none", page |-> NoSegment, chunk |-> 0]
NoEraser == [pc |-> "none", die |-> 0]

Init ==
    /\ hw \in [ asleep : {FALSE}, quad : {FALSE}, wel : {FALSE}, ext : {DieSegments[1]},
                wip : {"no"}, fmode : {"indirect"}, busy : {FALSE}, qpi : {FALSE},
                sleep : {"Slepping"}, extender : {NoSegment}, timer : {FALSE},
                failed : {FALSE}, deaf : {FALSE}, astray : {FALSE} ]
    /\ lock = "free" /\ boot = "off" /\ mode = "high"
    /\ user = Idle /\ eraser = NoEraser
    /\ ptr = NoSegment /\ late = FALSE /\ erasing = FALSE

\* A plausible slip: the chip keeps the state it had.
ResetPulse_None(h) == h

\* The reset pin: the chip forgets what it did and every volatile setting.
ResetPulse(h) ==
    [h EXCEPT !.asleep = FALSE, !.quad = FALSE, !.wel = FALSE, !.wip = "no",
              !.ext = DieSegments[1]]

\* The work mode is made: the peripheral is configured and the chip reset.
CreateQspi ==
    /\ boot = "off"
    /\ mode' \in {"recorder", "high"}
    /\ hw' = [ResetPulse(hw) EXCEPT !.fmode = "indirect", !.busy = FALSE, !.qpi = FALSE]
    /\ boot' = "identify"
    /\ UNCHANGED <<lock, user, ptr, late, erasing, eraser>>

\* QSpiDriver::init up to the configuration.  The chip may be another one.
Identify ==
    /\ boot = "identify"
    /\ LET c == ApplyConfig(hw, FALSE)
           id == Transfer(c, Listens(c))
       IN \/ boot' = "blocked" /\ hw' = Ended(id)
          \/ boot' = "configure" /\ hw' = WakeUp(id)
    /\ UNCHANGED <<lock, mode, user, ptr, late, erasing, eraser>>

FlashPrepareQspi(h) ==
    LET e == WriteEnable(Transfer(h, Listens(h)))
    IN Write(e, Listens(e) /\ e.wel, [e EXCEPT !.quad = TRUE, !.wel = FALSE])

FlashFinaliseConfig(h) == Transfer(h, Listens(h))

Configure ==
    /\ boot = "configure"
    /\ hw' = FlashFinaliseConfig(ApplyConfig(FlashPrepareQspi(hw), TRUE))
    /\ boot' = "start"
    /\ UNCHANGED <<lock, mode, user, ptr, late, erasing, eraser>>

\* The rest of init and the search for the first empty page, which reads pages
\* until it finds one; it runs before the tasks do.
Start ==
    /\ boot = "start"
    /\ \E x \in Segments :
         hw' = WantSleep(ReadMapped(SetMemoryMapping(
                   SelectPage(Transfer(hw, Listens(hw)), x))))
    /\ boot' = "run"
    /\ UNCHANGED <<lock, mode, user, ptr, late, erasing, eraser>>

\* The controller restarts, the chip stays powered.
Restart ==
    /\ boot # "off"
    /\ boot' = "off"
    /\ hw' = [hw EXCEPT !.sleep = "Slepping", !.extender = NoSegment, !.timer = FALSE]
    /\ lock' = "free" /\ user' = Idle /\ eraser' = NoEraser
    /\ ptr' = NoSegment /\ late' = FALSE /\ erasing' = FALSE
    /\ UNCHANGED mode

-----------------------------------------------------------------------------
(* Whoever opens a page: the recorder, to look for an empty one or to fill *)
(* it, or the USB thread.  Both wait for the mutex without limit.          *)

Opens(from) == boot = "run" /\ user.pc = from /\ lock = "free"

OpenPage(job) ==
    /\ boot = "run" /\ user.pc = "idle"
    /\ \E x \in Segments :
         user' = [pc |-> "select", job |-> job, page |-> x, chunk |-> 0]
    /\ UNCHANGED <<hw, lock, boot, mode, ptr, late, erasing, eraser>>

\* The recorder waits 10 ticks and more before it looks at the next page
\* (recorder_processor.rs 397, 528): the last program is over by then.
Settled == hw.wip = "no"

\* A page of the search for an empty one.
BeginSearch == mode = "recorder" /\ Settled /\ OpenPage("search")

\* The page is full.
BeginWrite == mode = "recorder" /\ Settled /\ OpenPage("store")

\* read_block: nothing is read while the chip is erased.
BeginRead == mode = "high" /\ ptr = NoSegment /\ ~erasing /\ OpenPage("serve")

\* An error makes no accessor, and nobody asks for sleep.
Select ==
    /\ Opens("select")
    /\ LET h == SelectPage(hw, user.page)
       IN /\ hw' = Ended(h)
          /\ user' = IF h.failed THEN Idle
                     ELSE [user EXCEPT !.pc = IF user.job = "store"
                                              THEN "write" ELSE "map"]
    /\ UNCHANGED <<lock, boot, mode, ptr, late, erasing, eraser>>

\* The pointer leaves for the USB stack; the search reads through it at once.
MapToMem ==
    /\ Opens("map")
    /\ hw' = SetMemoryMapping(hw)
    /\ IF user.job = "serve"
       THEN user' = [user EXCEPT !.pc = "drop"] /\ ptr' = user.page /\ late' = FALSE
       ELSE user' = [user EXCEPT !.pc = "read"] /\ UNCHANGED <<ptr, late>>
    /\ UNCHANGED <<lock, boot, mode, erasing, eraser>>

Mapped(h, x) == IsMemoryMapped(h) /\ ~h.asleep /\ h.wip = "no" /\ h.ext = x

ReadHeader ==
    /\ boot = "run" /\ user.pc = "read"
    /\ hw' = [ReadMapped(hw) EXCEPT !.astray = @ \/ ~Mapped(hw, user.page)]
    /\ user' = [user EXCEPT !.pc = "drop"]
    /\ UNCHANGED <<lock, boot, mode, ptr, late, erasing, eraser>>

BeginWriteBlock ==
    /\ Opens("write")
    /\ lock' = "user"
    /\ user' = [user EXCEPT !.pc = "chunk"]
    /\ hw' = CancelMemoryMapping(hw)
    /\ UNCHANGED <<boot, mode, ptr, late, erasing, eraser>>

LastChunk(n) == n + 1 = Chunks

\* The chip is asked until it is ready, with a delay that keeps the mutex.
WriteBlock ==
    /\ boot = "run" /\ user.pc = "chunk" /\ hw.wip = "no"
    /\ \E ok \in BOOLEAN :
         LET h == ProgramChunk(IsBusy(hw), user.page, ok)
             last == h.failed \/ ~ok \/ LastChunk(user.chunk)
         IN /\ hw' = Ended(h)
            /\ user' = [user EXCEPT !.chunk = @ + 1, !.pc = IF last THEN "drop" ELSE @]
            /\ lock' = IF last THEN "free" ELSE lock
    /\ UNCHANGED <<boot, mode, ptr, late, erasing, eraser>>

\* The accessor asks for sleep only if nobody holds the mutex.
DropAccessor ==
    /\ boot = "run" /\ user.pc = "drop"
    /\ hw' = IF lock = "free" THEN WantSleep(hw) ELSE hw
    /\ user' = Idle
    /\ UNCHANGED <<lock, boot, mode, ptr, late, erasing, eraser>>

Use ==
    \/ Select \/ MapToMem \/ ReadHeader
    \/ BeginWriteBlock \/ WriteBlock \/ DropAccessor

\* The USB stack copies a packet, or the last one, through the pointer.
CopyPacket ==
    /\ user.pc = "idle" /\ ptr # NoSegment /\ Mapped(hw, ptr)
    /\ hw' = ReadMapped(hw)
    /\ ptr' \in {ptr, NoSegment}
    /\ UNCHANGED <<lock, boot, mode, user, late, erasing, eraser>>

\* The host gives up the transfer: a bus reset empties the buffer.
ForgetPointer ==
    /\ user.pc = "idle" /\ ptr # NoSegment
    /\ ptr' = NoSegment
    /\ UNCHANGED <<hw, lock, boot, mode, user, late, erasing, eraser>>

-----------------------------------------------------------------------------
(* Erasing.  The request and the task have a lower priority than the USB   *)
(* thread: they run when it waits for its events or for the mutex.         *)

LowRuns == boot = "run" /\ (user.pc = "idle" \/ (user.pc # "drop" /\ lock # "free"))

FlashErease ==
    /\ LowRuns /\ mode = "high" /\ ~erasing
    /\ erasing' = TRUE
    /\ eraser' = [pc |-> "begin", die |-> 1]
    /\ UNCHANGED <<hw, lock, boot, mode, user, ptr, late>>

\* erase: a taken mutex and a busy chip are errors.
BeginErase ==
    /\ LowRuns /\ eraser.pc = "begin"
    /\ LET h == ReadStatus(WakeUp(CancelMemoryMapping(hw)))
           begun == DieErase(h, 1)
       IN IF lock # "free" \/ h.failed \/ hw.wip # "no"
          THEN /\ hw' = IF lock # "free" THEN hw ELSE Ended(WantSleep(h))
               /\ eraser' = [eraser EXCEPT !.pc = "end"] /\ UNCHANGED lock
          ELSE /\ hw' = Ended(begun)
               /\ eraser' = [eraser EXCEPT !.pc = IF begun.failed THEN "end" ELSE "wait"]
               /\ lock' = IF begun.failed THEN lock ELSE "eraser"
    /\ late' = (ptr # NoSegment)
    /\ UNCHANGED <<boot, mode, user, ptr, erasing>>

\* A plausible slip: nobody asks for sleep after an erase.
NextDie_StaysAwake ==
    /\ LowRuns /\ eraser.pc = "wait" /\ hw.wip = "no"
    /\ LET h == ReadStatus(hw)
           next == DieErase(h, eraser.die + 1)
       IN IF eraser.die < Len(DieSegments)
          THEN /\ hw' = next /\ eraser' = [eraser EXCEPT !.die = @ + 1] /\ UNCHANGED lock
          ELSE /\ hw' = h /\ eraser' = [eraser EXCEPT !.pc = "end"] /\ lock' = "free"
    /\ UNCHANGED <<boot, mode, user, ptr, late, erasing>>

\* The die is done: the next one, or the end of the call.
NextDie ==
    /\ LowRuns /\ eraser.pc = "wait" /\ hw.wip = "no"
    /\ LET h == ReadStatus(hw)
           next == DieErase(h, eraser.die + 1)
       IN IF eraser.die < Len(DieSegments) /\ ~next.failed
          THEN /\ hw' = next /\ eraser' = [eraser EXCEPT !.die = @ + 1] /\ UNCHANGED lock
          ELSE /\ hw' = IF eraser.die < Len(DieSegments) THEN Ended(next) ELSE WantSleep(h)
               /\ eraser' = [eraser EXCEPT !.pc = "end"] /\ lock' = "free"
    /\ UNCHANGED <<boot, mode, user, ptr, late, erasing>>

EndErase ==
    /\ LowRuns /\ eraser.pc = "end"
    /\ erasing' = FALSE /\ eraser' = NoEraser
    /\ UNCHANGED <<hw, lock, boot, mode, user, ptr, late>>

Erase == BeginErase \/ NextDie \/ EndErase

-----------------------------------------------------------------------------
(* Time *)

\* The chip is done with a program or an erase.
ChipDone ==
    /\ hw.wip # "no"
    /\ hw' = [hw EXCEPT !.wip = "no", !.wel = FALSE]
    /\ UNCHANGED <<lock, boot, mode, user, ptr, late, erasing, eraser>>

\* The sleep timer, in the timer task, above all others: 10 ms after the last
\* request, longer than a program takes.  It reloads itself, so a turn at which
\* the mutex is taken or the driver is not waiting is only skipped.
SleepTimer ==
    /\ boot = "run" /\ hw.timer /\ lock = "free" /\ hw.sleep = "Waiting"
    /\ hw.wip # "program"
    /\ LET h == EnterSleep(hw)
       IN hw' = IF h.failed THEN Ended(h) ELSE [h EXCEPT !.timer = FALSE]
    /\ late' = (late \/ ptr # NoSegment)
    /\ UNCHANGED <<lock, boot, mode, user, ptr, erasing, eraser>>

Next ==
    \/ CreateQspi \/ Identify \/ Configure \/ Start \/ Restart
    \/ BeginSearch \/ BeginWrite \/ BeginRead \/ Use \/ CopyPacket \/ ForgetPointer
    \/ FlashErease \/ Erase \/ ChipDone \/ SleepTimer

Spec == Init /\ [][Next]_vars

\* When a task can go on: the steps of Use and Erase are those that change user
\* and eraser from there.
UserTurn ==
    /\ boot = "run" /\ user.pc # "idle"
    /\ \/ user.pc \in {"read", "drop"} \/ lock = "free"
       \/ user.pc = "chunk" /\ hw.wip = "no"
    /\ user' \in UserType

EraserTurn ==
    /\ LowRuns /\ eraser.pc # "none"
    /\ eraser.pc = "wait" => hw.wip = "no"
    /\ eraser' \in EraserType

\* Tasks that have work and the mutex do it, the chip finishes what it does, and
\* the timer task runs.  Nobody has to begin anything.
FairSpec ==
    /\ Spec
    /\ WF_user(UserTurn) /\ WF_eraser(EraserTurn)
    /\ WF_vars(ChipDone) /\ WF_vars(SleepTimer)

-----------------------------------------------------------------------------
(* Properties *)

TypeOK ==
    /\ hw \in HwType
    /\ lock \in {"free", "user", "eraser"}
    /\ boot \in {"off", "identify", "configure", "start", "run", "blocked"}
    /\ mode \in {"recorder", "high"}
    /\ user \in UserType /\ eraser \in EraserType
    /\ ptr \in Segments \cup {NoSegment} /\ late \in BOOLEAN /\ erasing \in BOOLEAN

\* The chip takes every command the driver sends: none but the wake-up goes to a
\* sleeping chip, none but a status read to one that programs or erases, none in
\* the wrong bus mode, no write without its enable, none is refused by the
\* peripheral; and what is written or erased is in the segment it was meant for.
\* Whatever a restart interrupted (qspi_driver.rs 116-503, common.rs 117-145).
CommandsAreHeard == ~hw.deaf /\ ~hw.astray /\ ~hw.failed

\* A page whose pointer the USB stack holds stays mapped until it is copied,
\* unless the host lets the sleep timer run out or somebody erases the chip
\* (callbacks.rs 138-158, qspi_storage.rs 57-105).
MappedUntilTaken == ptr # NoSegment /\ ~late => Mapped(hw, ptr)

\* The chip is not left awake: when nobody uses it, it sleeps or somebody comes
\* (qspi_storage.rs 76-82, qspi_driver.rs 191-206, 495-503).
Unused == boot = "run" /\ user.pc = "idle" /\ eraser.pc = "none"

AwakeOnlyInUse == []<>(hw.asleep \/ ~Unused)
=============================================================================
