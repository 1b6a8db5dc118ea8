--------------------------- MODULE Startup_proofs ---------------------------
(***************************************************************************)
(* What is proved about FlashDriver and Startup for any segments, dies and *)
(* page size.  The driver first: its theorems are about Spec, and hold of  *)
(* the firmware because every step of StartupSpec is one of the driver or  *)
(* leaves it alone.                                                        *)
(***************************************************************************)
EXTENDS Startup, TLAPS

(***************************************************************************)
(* The operations of the driver.  Ready is a chip that hears a command and *)
(* a peripheral that is busy with nothing but a mapping.                   *)
(***************************************************************************)

Flawless(h) == ~h.failed /\ ~h.deaf /\ ~h.astray
BusyMapping(h) == h.busy => h.fmode = "mapped"

Ready(h) ==
    /\ h \in HwType /\ Flawless(h) /\ BusyMapping(h)
    /\ ~h.asleep /\ h.wip = "no" /\ SameMode(h)

Free(h) == ~h.busy /\ h.fmode = "indirect"

SameBus(r, h) == r.quad = h.quad /\ r.qpi = h.qpi
Same(r, h) ==
    /\ SameBus(r, h) /\ r.sleep = h.sleep /\ r.timer = h.timer
    /\ r.ext = h.ext /\ r.extender = h.extender

\* A mapping is given up, the rest stays (quadspi.rs abort_transmission).
LEMMA Cancelled ==
    ASSUME NEW h, Ready(h)
    PROVE  LET r == CancelMemoryMapping(h)
           IN Ready(r) /\ ~r.busy /\ Same(r, h)
<1> DEFINE r == CancelMemoryMapping(h)
<1>1. r = h \/ r = [h EXCEPT !.busy = FALSE]
  BY DEF CancelMemoryMapping, AbortTransmission
<1>2. ~r.busy
  BY DEF Ready, Flawless, BusyMapping, CancelMemoryMapping, IsMemoryMapped,
         AbortTransmission, HwType
<1> HIDE DEF r
<1> QED
  BY <1>1, <1>2 DEF Ready, Same, SameBus, Flawless, BusyMapping, SameMode, HwType, r

\* A chip that is ready hears a read.
LEMMA Transferred ==
    ASSUME NEW h, Ready(h), ~h.busy
    PROVE  LET r == Transfer(h, Listens(h))
           IN Ready(r) /\ Free(r) /\ Same(r, h)
<1>1. Transfer(h, Listens(h)) = [h EXCEPT !.fmode = "indirect"]
  BY DEF Transfer, Command, Listens, Ready, Flawless
<1> QED
  BY <1>1 DEF Ready, Same, SameBus, Flawless, BusyMapping, Free, SameMode, HwType

\* So it does a status read, ...
LEMMA StatusRead ==
    ASSUME NEW h, Ready(h), ~h.busy
    PROVE  LET r == ReadStatus(h)
           IN Ready(r) /\ Free(r) /\ Same(r, h) /\ r.wel = h.wel
<1>1. ReadStatus(h) = [h EXCEPT !.fmode = "indirect"]
  BY DEF ReadStatus, Transfer, Command, Ready, Flawless
<1> QED
  BY <1>1 DEF Ready, Same, SameBus, Flawless, BusyMapping, Free, SameMode, HwType

\* ... and a write enable.
LEMMA WriteEnabled ==
    ASSUME NEW h, Ready(h), ~h.busy
    PROVE  LET r == WriteEnable(h)
           IN Ready(r) /\ Free(r) /\ Same(r, h) /\ r.wel
<1>1. WriteEnable(h) = [[h EXCEPT !.wel = TRUE] EXCEPT !.fmode = "indirect"]
  BY DEF WriteEnable, Write, Command, Listens, Ready, Flawless
<1> QED
  BY <1>1 DEF Ready, Same, SameBus, Flawless, BusyMapping, Free, SameMode, HwType

\* The extender the driver remembers is the one of the chip, or none.
Remembered(h) == h.extender = NoSegment \/ h.ext = h.extender

\* After set_addr_extender the chip has the wanted segment.
LEMMA ExtenderSet ==
    ASSUME NEW h, Ready(h), Remembered(h), NEW x \in Segments
    PROVE  LET r == SetAddrExtender(h, x)
           IN /\ Ready(r) /\ SameBus(r, h) /\ r.sleep = h.sleep /\ r.timer = h.timer
              /\ r.ext = x /\ r.extender = x
              /\ (Free(h) => Free(r))
<1> DEFINE c == CancelMemoryMapping(h)
           e == WriteEnable(c)
           w == Write(e, Listens(e) /\ e.wel, [e EXCEPT !.ext = x, !.wel = FALSE])
<1>1. CASE h.extender = x
  BY <1>1, FlashAssumption DEF SetAddrExtender, Remembered, SameBus
<1>2. CASE h.extender # x
  <2>1. Ready(c) /\ ~c.busy /\ Same(c, h)
    BY Cancelled
  <2>2. Ready(e) /\ Free(e) /\ Same(e, h) /\ e.wel
    BY <2>1, WriteEnabled DEF Same, SameBus
  <2>3. Ready(w) /\ Free(w) /\ w.ext = x /\ SameBus(w, h) /\ w.sleep = h.sleep
          /\ w.timer = h.timer
    BY <2>2 DEF Ready, Same, SameBus, Flawless, BusyMapping, Free, Write, Command,
                Listens, SameMode, HwType
  <2>4. SetAddrExtender(h, x) = [w EXCEPT !.extender = x]
    BY <1>2, <2>3 DEF SetAddrExtender, Ready, Flawless
  <2> HIDE DEF w
  <2> QED
    BY <2>3, <2>4 DEF Ready, SameBus, Flawless, BusyMapping, Free, SameMode, HwType
<1> QED
  BY <1>1, <1>2

\* After wake_up the chip is awake, if it slept only where the driver knows.
LEMMA WokenUp ==
    ASSUME NEW h, h \in HwType, Flawless(h), BusyMapping(h), h.wip = "no", SameMode(h),
           h.asleep => h.sleep = "Slepping"
    PROVE  LET r == WakeUp(h)
           IN /\ Ready(r) /\ SameBus(r, h) /\ r.sleep = "Working"
              /\ r.ext = h.ext /\ r.extender = h.extender
              /\ (Free(h) => Free(r)) /\ (~h.busy => ~r.busy)
<1> DEFINE c == CancelMemoryMapping(h)
           w == Write(c, SameMode(c), [c EXCEPT !.asleep = FALSE])
<1>1. CASE h.sleep = "Slepping"
  <2>1. /\ c \in HwType /\ Flawless(c) /\ ~c.busy /\ c.wip = "no" /\ SameMode(c)
        /\ SameBus(c, h) /\ c.ext = h.ext /\ c.extender = h.extender
    BY DEF Flawless, BusyMapping, SameBus, CancelMemoryMapping, IsMemoryMapped,
           AbortTransmission, SameMode, HwType
  <2> HIDE DEF c
  <2>2. w = [[c EXCEPT !.asleep = FALSE] EXCEPT !.fmode = "indirect"]
    BY <2>1 DEF Write, Command, Flawless
  <2> HIDE DEF w
  <2>3. Ready(w) /\ Free(w) /\ SameBus(w, h) /\ w.ext = h.ext /\ w.extender = h.extender
    BY <2>1, <2>2 DEF Ready, Flawless, BusyMapping, Free, SameBus, SameMode, HwType
  <2>4. WakeUp(h) = [w EXCEPT !.sleep = "Working"]
    BY <1>1, <2>3 DEF WakeUp, Ready, Flawless, c, w
  <2> QED
    BY <2>3, <2>4 DEF Ready, SameBus, Flawless, BusyMapping, Free, SameMode, HwType
<1>2. CASE h.sleep # "Slepping"
  <2>1. WakeUp(h) = [h EXCEPT !.sleep = "Working"]
    BY <1>2 DEF WakeUp, Flawless
  <2> QED
    BY <1>2, <2>1 DEF Ready, SameBus, Flawless, BusyMapping, Free, SameMode, HwType
<1> QED
  BY <1>1, <1>2

LEMMA PageSelected ==
    ASSUME NEW h, h \in HwType, Flawless(h), BusyMapping(h), h.wip = "no", SameMode(h),
           h.asleep => h.sleep = "Slepping", Remembered(h), NEW x \in Segments
    PROVE  LET r == SelectPage(h, x)
           IN Ready(r) /\ r.sleep = "Working" /\ r.ext = x /\ r.extender = x /\ SameBus(r, h)
<1>1. Remembered(WakeUp(h))
  BY WokenUp DEF Remembered
<1> QED
  BY <1>1, WokenUp, ExtenderSet DEF SelectPage, SameBus

\* A piece of a page goes to the segment it is meant for.
LEMMA ChunkProgrammed ==
    ASSUME NEW h, Ready(h), ~h.busy, NEW ok \in BOOLEAN
    PROVE  LET r == ProgramChunk(h, h.ext, ok)
           IN /\ r \in HwType /\ Flawless(r) /\ Free(r) /\ Same(r, h) /\ ~r.asleep
              /\ r.wip \in {"no", "program"}
<1> DEFINE e == WriteEnable(h)
           s == ReadStatus(e)
           p == Write(s, Listens(s) /\ s.wel,
                         [s EXCEPT !.wip = "program", !.astray = @ \/ s.ext # h.ext])
<1>1. Ready(e) /\ Free(e) /\ Same(e, h) /\ e.wel
  BY WriteEnabled
<1>2. Ready(s) /\ Free(s) /\ Same(s, h) /\ s.wel
  BY <1>1, StatusRead DEF Same, SameBus, Free
<1>3. p \in HwType /\ Flawless(p) /\ Free(p) /\ Same(p, h) /\ ~p.asleep /\ p.wip = "program"
  BY <1>2 DEF Ready, Same, SameBus, Flawless, BusyMapping, Free, Write, Command,
              Listens, SameMode, HwType
<1>4. ProgramChunk(h, h.ext, ok) = IF ok THEN p ELSE s
  BY DEF ProgramChunk
<1> HIDE DEF p, s
<1> QED
  BY <1>2, <1>3, <1>4 DEF Ready

\* An erase goes to the die it is meant for.
LEMMA DieErased ==
    ASSUME NEW h, Ready(h), ~h.busy, Remembered(h), NEW die \in 1..Len(DieSegments)
    PROVE  LET r == DieErase(h, die)
           IN /\ r \in HwType /\ Flawless(r) /\ Free(r) /\ SameBus(r, h) /\ ~r.asleep
              /\ r.sleep = h.sleep /\ r.ext = r.extender /\ r.wip = "erase"
<1> DEFINE x == DieSegments[die]
           f == WriteEnable(h)
           a == SetAddrExtender(f, x)
           s == WriteEnable(a)
           w == Write(s, Listens(s) /\ s.wel,
                         [s EXCEPT !.wip = "erase", !.astray = @ \/ s.ext # x])
<1>0. x \in Segments
  BY FlashAssumption
<1>1. Ready(f) /\ Free(f) /\ Same(f, h) /\ Remembered(f)
  BY WriteEnabled DEF Same, Remembered
<1>2. Ready(a) /\ Free(a) /\ SameBus(a, h) /\ a.sleep = h.sleep /\ a.ext = x /\ a.extender = x
  BY <1>0, <1>1, ExtenderSet DEF Same, SameBus
<1>3. Ready(s) /\ Free(s) /\ SameBus(s, h) /\ s.sleep = h.sleep /\ s.ext = x
        /\ s.extender = x /\ s.wel
  BY <1>2, WriteEnabled DEF Same, SameBus, Free
<1>4. w \in HwType /\ Flawless(w) /\ Free(w) /\ SameBus(w, h) /\ ~w.asleep
        /\ w.sleep = h.sleep /\ w.ext = w.extender /\ w.wip = "erase"
  <2> HIDE DEF s, x
  <2> QED
    BY <1>3 DEF Ready, SameBus, Flawless, BusyMapping, Free, Write, Command,
                Listens, SameMode, HwType
<1>5. DieErase(h, die) = w
  BY DEF DieErase
<1> HIDE DEF w
<1> QED
  BY <1>4, <1>5

\* The chip goes to sleep.
LEMMA FallenAsleep ==
    ASSUME NEW h, Ready(h)
    PROVE  LET r == EnterSleep(h)
           IN /\ r \in HwType /\ Flawless(r) /\ Free(r) /\ SameBus(r, h) /\ r.asleep
              /\ r.sleep = "Slepping" /\ r.ext = h.ext /\ r.extender = h.extender
              /\ r.wip = "no"
<1> DEFINE c == CancelMemoryMapping(h)
           a == Write(c, Listens(c), [c EXCEPT !.asleep = TRUE])
<1>1. Ready(c) /\ ~c.busy /\ Same(c, h)
  BY Cancelled
<1> HIDE DEF c
<1>2. a = [[c EXCEPT !.asleep = TRUE] EXCEPT !.fmode = "indirect"]
  BY <1>1 DEF Write, Command, Listens, Ready, Flawless
<1> HIDE DEF a
<1>3. /\ a \in HwType /\ Flawless(a) /\ Free(a) /\ SameBus(a, h) /\ a.asleep
      /\ a.ext = h.ext /\ a.extender = h.extender /\ a.wip = "no"
  BY <1>1, <1>2 DEF Ready, Flawless, Free, Same, SameBus, HwType
<1>4. EnterSleep(h) = [a EXCEPT !.sleep = "Slepping"]
  BY <1>3 DEF EnterSleep, Flawless, a, c
<1> QED
  BY <1>3, <1>4 DEF SameBus, Flawless, Free, HwType

\* A page is mapped.
LEMMA MappingSet ==
    ASSUME NEW h, Ready(h)
    PROVE  LET r == SetMemoryMapping(h)
           IN Ready(r) /\ Same(r, h) /\ r.fmode = "mapped"
BY DEF Ready, Same, SameBus, Flawless, BusyMapping, SetMemoryMapping, IsMemoryMapped,
       StartMemoryMapping, SameMode, HwType

-----------------------------------------------------------------------------
(***************************************************************************)
(* What the driver keeps.                                                  *)
(***************************************************************************)

\* Until the driver runs nobody uses it.
NobodyYet ==
    boot # "run" =>
      user = Idle /\ eraser = NoEraser /\ lock = "free" /\ ptr = NoSegment /\ ~erasing

\* A restart takes what the driver knew, the reset pulse what the chip did; then
\* chip and peripheral go through the same bus modes.
BroughtUp ==
    /\ boot = "off" => hw.sleep = "Slepping" /\ hw.extender = NoSegment
    /\ boot \in {"identify", "configure", "start"} =>
         Ready(hw) /\ Free(hw) /\ hw.extender = NoSegment
    /\ boot = "identify" => hw.sleep = "Slepping"
    /\ boot \in {"configure", "start"} => hw.sleep = "Working"
    /\ boot \in {"identify", "configure"} => ~hw.quad

\* While it runs the driver knows what the chip does.
Known(h) ==
    /\ SameMode(h) /\ h.ext = h.extender /\ (h.asleep <=> h.sleep = "Slepping")
    /\ h.asleep => h.wip = "no" /\ h.fmode = "indirect"

KnownChip == (boot # "off" => BusyMapping(hw)) /\ (boot = "run" => Known(hw))

\* From select_page to the end of the accessor's work the chip is awake with the
\* page's segment, though the mutex is given back in between.
PageInHand ==
    /\ user.pc \in {"map", "read", "write", "chunk"} =>
         hw.sleep = "Working" /\ hw.ext = user.page
    /\ user.pc \in {"select", "map", "read", "write"} => hw.wip = "no"
    /\ user.pc = "read" => hw.fmode = "mapped"
    /\ user.pc # "idle" => user.page \in Segments /\ ((user.job = "serve") = (mode = "high"))
    /\ (user.pc = "chunk") = (lock = "user")
    /\ user.pc \in {"write", "chunk"} => user.job = "store"
    /\ user.pc \in {"select", "write", "chunk"} => user.chunk < Chunks

\* The chip is erased while the USB thread waits for an event, and only the
\* eraser has the chip then.
ErasesAlone ==
    /\ eraser.pc # "none" => erasing
    /\ erasing => mode = "high" /\ user.pc = "idle"
    /\ (eraser.pc = "wait") = (lock = "eraser")
    /\ eraser.pc = "wait" =>
         /\ hw.sleep = "Working" /\ hw.fmode = "indirect"
         /\ ptr # NoSegment => late
    /\ eraser.pc \in {"begin", "wait"} => eraser.die \in 1..Len(DieSegments)
    /\ boot = "run" /\ hw.wip = "erase" => eraser.pc = "wait"
    /\ boot = "run" /\ hw.wip = "program" => mode = "recorder"

PointerHeld == ptr # NoSegment => mode = "high" /\ user.pc \in {"idle", "drop"}

DriverInv ==
    /\ TypeOK /\ CommandsAreHeard /\ MappedUntilTaken
    /\ NobodyYet /\ BroughtUp /\ KnownChip /\ PageInHand /\ ErasesAlone /\ PointerHeld

-----------------------------------------------------------------------------

\* A die's segment is a segment.
LEMMA FirstDie == DieSegments[1] \in Segments /\ 1 \in 1..Len(DieSegments)
BY FlashAssumption

\* While nobody uses the driver, what it keeps is what bringing it up keeps.
Booting ==
    /\ boot \in {"off", "identify", "configure", "start", "blocked"}
    /\ user = Idle /\ eraser = NoEraser /\ lock = "free" /\ ptr = NoSegment /\ erasing = FALSE
    /\ late \in BOOLEAN /\ mode \in {"recorder", "high"}
    /\ hw \in HwType /\ Flawless(hw) /\ BroughtUp /\ (boot # "off" => BusyMapping(hw))

LEMMA WhileBooting == Booting => DriverInv
<1> SUFFICES ASSUME Booting PROVE DriverInv
  OBVIOUS
<1>1. /\ user.pc = "idle" /\ user \in UserType
      /\ eraser.pc = "none" /\ eraser \in EraserType
  BY FlashAssumption DEF Booting, Idle, NoEraser, UserType, EraserType
<1>2. TypeOK
  BY <1>1 DEF Booting, TypeOK
<1>3. CommandsAreHeard /\ MappedUntilTaken /\ NobodyYet /\ BroughtUp /\ KnownChip
  BY DEF Booting, CommandsAreHeard, Flawless, MappedUntilTaken, NobodyYet, KnownChip
<1>4. PageInHand /\ ErasesAlone /\ PointerHeld
  BY <1>1 DEF Booting, PageInHand, ErasesAlone, PointerHeld
<1> QED
  BY <1>2, <1>3, <1>4 DEF DriverInv

LEMMA StillBooting == Booting' => DriverInv'
BY WhileBooting, PTL

LEMMA DriverInit == Init => DriverInv
<1> SUFFICES ASSUME Init PROVE Booting
  BY WhileBooting
<1>1. hw \in HwType /\ Flawless(hw) /\ hw.sleep = "Slepping" /\ hw.extender = NoSegment
  BY FirstDie DEF Init, HwType, Flawless
<1> QED
  BY <1>1 DEF Init, Booting, BroughtUp

LEMMA CreateQspiKeeps ==
    ASSUME DriverInv, CreateQspi
    PROVE  DriverInv'
<1>1. /\ hw \in HwType /\ Flawless(hw) /\ hw.sleep = "Slepping" /\ hw.extender = NoSegment
      /\ late \in BOOLEAN
      /\ user = Idle /\ eraser = NoEraser /\ lock = "free" /\ ptr = NoSegment /\ erasing = FALSE
  BY DEF DriverInv, TypeOK, CommandsAreHeard, BroughtUp, CreateQspi, NobodyYet, Flawless
<1>2. Ready(hw)' /\ Free(hw)' /\ hw'.sleep = "Slepping" /\ hw'.extender = NoSegment
        /\ ~hw'.quad
  BY <1>1, FirstDie
     DEF CreateQspi, ResetPulse, HwType, Ready, Flawless, BusyMapping, SameMode, Free
<1> QED
  BY <1>1, <1>2, StillBooting DEF CreateQspi, Booting, BroughtUp, Ready

LEMMA IdentifyKeeps ==
    ASSUME DriverInv, Identify
    PROVE  DriverInv'
<1> DEFINE c == ApplyConfig(hw, FALSE)
           id == Transfer(c, Listens(c))
<1>1. /\ Ready(hw) /\ Free(hw) /\ hw.extender = NoSegment /\ ~hw.quad /\ hw.sleep = "Slepping"
      /\ late \in BOOLEAN /\ mode \in {"recorder", "high"}
      /\ user = Idle /\ eraser = NoEraser /\ lock = "free" /\ ptr = NoSegment /\ erasing = FALSE
  BY DEF DriverInv, TypeOK, BroughtUp, Identify, NobodyYet
<1>2. Ready(c) /\ Free(c) /\ c.extender = NoSegment /\ ~c.quad
  BY <1>1 DEF ApplyConfig, AbortTransmission, Ready, Free, Flawless, BusyMapping, SameMode,
              HwType
<1>3. Ready(id) /\ Free(id) /\ id.extender = NoSegment /\ ~id.quad
  BY <1>2, Transferred DEF Same, SameBus, Free
<1> HIDE DEF id
<1>4. CASE boot' = "blocked" /\ hw' = Ended(id)
  <2>1. (hw \in HwType)' /\ Flawless(hw)' /\ BusyMapping(hw)'
    BY <1>3, <1>4 DEF Ended, Ready, Flawless, BusyMapping, HwType
  <2> QED
    BY <1>1, <1>4, <2>1, StillBooting DEF Identify, Booting, BroughtUp
<1>5. CASE boot' = "configure" /\ hw' = WakeUp(id)
  <2>1. Ready(hw)' /\ Free(hw)' /\ hw'.sleep = "Working" /\ hw'.extender = NoSegment
          /\ ~hw'.quad
    BY <1>3, <1>5, WokenUp DEF Ready, SameBus
  <2> QED
    BY <1>1, <1>5, <2>1, StillBooting DEF Identify, Booting, BroughtUp, Ready
<1> QED
  BY <1>4, <1>5 DEF Identify, id

LEMMA ConfigureKeeps ==
    ASSUME DriverInv, Configure
    PROVE  DriverInv'
<1> DEFINE t == Transfer(hw, Listens(hw))
           e == WriteEnable(t)
           q == Write(e, Listens(e) /\ e.wel, [e EXCEPT !.quad = TRUE, !.wel = FALSE])
           a == ApplyConfig(q, TRUE)
<1>1. /\ Ready(hw) /\ Free(hw) /\ hw.extender = NoSegment /\ hw.sleep = "Working"
      /\ late \in BOOLEAN /\ mode \in {"recorder", "high"}
      /\ user = Idle /\ eraser = NoEraser /\ lock = "free" /\ ptr = NoSegment /\ erasing = FALSE
  BY DEF DriverInv, TypeOK, BroughtUp, Configure, NobodyYet
<1>2. Ready(e) /\ Free(e) /\ Same(e, hw) /\ e.wel
  BY <1>1, Transferred, WriteEnabled DEF Same, SameBus, Free
<1>3. Ready(a) /\ Free(a) /\ a.extender = NoSegment /\ a.sleep = "Working"
  <2> HIDE DEF e
  <2>1. q = [[e EXCEPT !.quad = TRUE, !.wel = FALSE] EXCEPT !.fmode = "indirect"]
    BY <1>2 DEF Write, Command, Listens, Ready, Flawless, Free
  <2> HIDE DEF q
  <2>2. /\ q \in HwType /\ Flawless(q) /\ ~q.asleep /\ q.wip = "no" /\ q.quad
        /\ Free(q) /\ q.extender = NoSegment /\ q.sleep = "Working"
    BY <1>1, <1>2, <2>1 DEF Ready, Flawless, Free, Same, HwType
  <2>3. a = [[q EXCEPT !.busy = FALSE] EXCEPT !.qpi = TRUE]
    BY <2>2 DEF ApplyConfig, AbortTransmission, Flawless
  <2> QED
    BY <2>2, <2>3 DEF Ready, Free, Flawless, BusyMapping, SameMode, HwType
<1>4. hw' = Transfer(a, Listens(a))
  BY DEF Configure, FlashPrepareQspi, FlashFinaliseConfig
<1> HIDE DEF a
<1>5. Ready(hw)' /\ Free(hw)' /\ hw'.extender = NoSegment /\ hw'.sleep = "Working"
  BY <1>3, <1>4, Transferred DEF Same, Free
<1> QED
  BY <1>1, <1>5, StillBooting DEF Configure, Booting, BroughtUp, Ready

LEMMA RestartKeeps ==
    ASSUME DriverInv, Restart
    PROVE  DriverInv'
<1>1. (hw \in HwType)' /\ Flawless(hw)' /\ hw'.sleep = "Slepping" /\ hw'.extender = NoSegment
  BY DEF DriverInv, TypeOK, CommandsAreHeard, Restart, HwType, Flawless
<1> QED
  BY <1>1, StillBooting DEF Restart, Booting, BroughtUp, DriverInv, TypeOK

\* Without an error the end of a call changes nothing.
LEMMA EndsWell ==
    ASSUME NEW h, h \in HwType, Flawless(h)
    PROVE  Ended(h) = h
BY DEF Ended, Flawless, HwType

\* Asking for sleep changes nothing else.
LEMMA SleepWanted ==
    ASSUME NEW h, h \in HwType
    PROVE  LET r == WantSleep(h)
           IN /\ r \in HwType /\ SameBus(r, h) /\ r.ext = h.ext /\ r.extender = h.extender
              /\ r.asleep = h.asleep /\ r.wip = h.wip /\ r.fmode = h.fmode /\ r.busy = h.busy
              /\ r.failed = h.failed /\ r.deaf = h.deaf /\ r.astray = h.astray
              /\ (r.sleep = "Slepping" <=> h.sleep = "Slepping")
              /\ (h.sleep = "Working" => r.sleep = "Waiting")
<1>1. CASE h.sleep = "Working"
  <2>1. WantSleep(h) = [h EXCEPT !.sleep = "Waiting", !.timer = TRUE]
    BY <1>1 DEF WantSleep
  <2> QED
    BY <1>1, <2>1 DEF SameBus, HwType
<1>2. CASE h.sleep # "Working"
  BY <1>2 DEF SameBus, WantSleep
<1> QED
  BY <1>1, <1>2

\* The driver runs, and nobody has opened a page or erases.
LEMMA StartDriverKeeps ==
    ASSUME DriverInv, Start
    PROVE  DriverInv'
<1>1. /\ Ready(hw) /\ Free(hw) /\ hw.extender = NoSegment /\ hw.sleep = "Working"
      /\ late \in BOOLEAN /\ mode \in {"recorder", "high"}
      /\ user = Idle /\ eraser = NoEraser /\ lock = "free" /\ ptr = NoSegment /\ erasing = FALSE
  BY DEF DriverInv, TypeOK, BroughtUp, Start, NobodyYet
<1>2. PICK x \in Segments :
        hw' = WantSleep(ReadMapped(SetMemoryMapping(
                  SelectPage(Transfer(hw, Listens(hw)), x))))
  BY DEF Start
<1> DEFINE t == Transfer(hw, Listens(hw))
           p == SelectPage(t, x)
           m == SetMemoryMapping(p)
           r == ReadMapped(m)
<1>3. Ready(t) /\ t.extender = NoSegment /\ t.sleep = "Working"
  BY <1>1, Transferred DEF Free, Same
<1>4. Ready(p) /\ p.sleep = "Working" /\ p.ext = p.extender
  BY <1>3, PageSelected DEF Ready, Remembered
<1>5. Ready(m) /\ Same(m, p) /\ m.fmode = "mapped"
  BY <1>4, MappingSet
<1>6. Ready(r) /\ r.fmode = "mapped" /\ r.ext = r.extender /\ r.sleep = "Working"
  <2> HIDE DEF m
  <2> QED
    BY <1>4, <1>5 DEF ReadMapped, Ready, Flawless, BusyMapping, Same, SameMode, HwType
<1>7. hw' = WantSleep(r)
  BY <1>2
<1> HIDE DEF r
<1>8. /\ (hw \in HwType)' /\ Flawless(hw)' /\ BusyMapping(hw)' /\ Known(hw)'
      /\ hw'.wip = "no"
  BY <1>6, <1>7, SleepWanted DEF Ready, Flawless, BusyMapping, Known, SameBus, SameMode
<1>9. /\ user'.pc = "idle" /\ (user \in UserType)' /\ user' = user
      /\ eraser'.pc = "none" /\ (eraser \in EraserType)' /\ eraser' = eraser
  BY <1>1, FlashAssumption DEF Start, Idle, NoEraser, UserType, EraserType
<1>10. boot' = "run" /\ lock' = "free" /\ ptr' = NoSegment /\ erasing' = FALSE /\ late' = late /\ mode' = mode
  BY <1>1 DEF Start
<1>11. TypeOK'
  BY <1>1, <1>8, <1>9, <1>10 DEF TypeOK
<1>12. (CommandsAreHeard /\ MappedUntilTaken /\ NobodyYet /\ BroughtUp /\ KnownChip)'
  BY <1>8, <1>10
     DEF CommandsAreHeard, Flawless, MappedUntilTaken, NobodyYet, BroughtUp, KnownChip
<1>13. (PageInHand /\ ErasesAlone /\ PointerHeld)'
  BY <1>8, <1>9, <1>10 DEF PageInHand, ErasesAlone, PointerHeld
<1> QED
  BY <1>11, <1>12, <1>13 DEF DriverInv

-----------------------------------------------------------------------------
(* While the driver runs. *)

Running ==
    /\ boot = "run" /\ TypeOK /\ Flawless(hw) /\ BusyMapping(hw) /\ Known(hw)
    /\ MappedUntilTaken /\ PageInHand /\ ErasesAlone /\ PointerHeld

LEMMA WhileRunning == Running => DriverInv
BY DEF Running, DriverInv, CommandsAreHeard, Flawless, NobodyYet, BroughtUp, KnownChip

LEMMA StillRunning == Running' => DriverInv'
BY WhileRunning, PTL

LEMMA RunsNow == DriverInv /\ boot = "run" => Running
BY DEF Running, DriverInv, CommandsAreHeard, Flawless, KnownChip

LEMMA OpenPageKeeps ==
    ASSUME DriverInv, NEW job \in {"search", "store", "serve"}, OpenPage(job),
           hw.wip = "no", ~erasing, ptr = NoSegment,
           (job = "serve") = (mode = "high")
    PROVE  DriverInv'
<1>1. Running
  BY RunsNow DEF OpenPage
<1>2. PICK x \in Segments :
        user' = [pc |-> "select", job |-> job, page |-> x, chunk |-> 0]
  BY DEF OpenPage
<1>3. TypeOK'
  BY <1>1, <1>2, FlashAssumption DEF Running, TypeOK, OpenPage, UserType
<1>4. (Flawless(hw) /\ BusyMapping(hw) /\ Known(hw) /\ MappedUntilTaken)'
  BY <1>1 DEF Running, OpenPage, Flawless, BusyMapping, Known, SameMode, MappedUntilTaken,
              Mapped, IsMemoryMapped
<1>5. (PageInHand /\ ErasesAlone /\ PointerHeld)'
  BY <1>1, <1>2, FlashAssumption DEF Running, OpenPage, PageInHand, ErasesAlone, PointerHeld
<1> QED
  BY <1>1, <1>3, <1>4, <1>5, StillRunning DEF Running, OpenPage

LEMMA BeginKeeps ==
    ASSUME DriverInv, BeginSearch \/ BeginWrite \/ BeginRead
    PROVE  DriverInv'
<1>1. Running
  BY RunsNow DEF BeginSearch, BeginWrite, BeginRead, OpenPage
<1>2. CASE BeginSearch
  BY <1>1, <1>2, OpenPageKeeps DEF BeginSearch, Settled, Running, ErasesAlone, PointerHeld
<1>3. CASE BeginWrite
  BY <1>1, <1>3, OpenPageKeeps DEF BeginWrite, Settled, Running, ErasesAlone, PointerHeld
<1>4. CASE BeginRead
  <2>1. hw.wip = "no"
    BY <1>1, <1>4 DEF BeginRead, Running, ErasesAlone, TypeOK, HwType
  <2> QED
    BY <1>4, <2>1, OpenPageKeeps DEF BeginRead
<1> QED
  BY <1>2, <1>3, <1>4

LEMMA SelectKeeps ==
    ASSUME DriverInv, Select
    PROVE  DriverInv'
<1> DEFINE h == SelectPage(hw, user.page)
<1>1. Running
  BY RunsNow DEF Select, Opens
<1>2. user.pc = "select" /\ lock = "free" /\ user \in UserType /\ user.page \in Segments
        /\ hw.wip = "no" /\ ~erasing /\ ptr = NoSegment
  BY <1>1 DEF Select, Opens, Running, TypeOK, PageInHand, ErasesAlone, PointerHeld
<1>3. Ready(h) /\ h.sleep = "Working" /\ h.ext = user.page /\ h.extender = user.page
  BY <1>1, <1>2, PageSelected DEF Running, TypeOK, Known, Remembered
<1>4. hw' = Ended(h) /\ ~h.failed
  BY <1>3 DEF Select, Ready, Flawless
<1>5. user' = [user EXCEPT !.pc = IF user.job = "store" THEN "write" ELSE "map"]
  BY <1>4 DEF Select
<1> HIDE DEF h
<1>6. Ready(hw)' /\ hw'.sleep = "Working" /\ hw'.ext = user.page /\ hw'.extender = user.page
  BY <1>3, <1>4 DEF Ended, Ready, Flawless, BusyMapping, SameMode, HwType
<1>7. /\ (user \in UserType)' /\ user'.page = user.page /\ user'.job = user.job
      /\ user'.chunk = user.chunk /\ user'.pc \in {"write", "map"} /\ (user'.pc = "write" => user.job = "store")
  BY <1>2, <1>5 DEF UserType
<1>8. UNCHANGED <<lock, boot, mode, ptr, late, erasing, eraser>>
  BY DEF Select
<1>9. TypeOK'
  BY <1>1, <1>6, <1>7, <1>8 DEF Running, TypeOK, Ready
<1>10. (Flawless(hw) /\ BusyMapping(hw) /\ Known(hw) /\ MappedUntilTaken)'
  BY <1>2, <1>6, <1>8 DEF Ready, Known, MappedUntilTaken
<1>11. (PageInHand /\ ErasesAlone /\ PointerHeld)'
  BY <1>1, <1>2, <1>6, <1>7, <1>8
     DEF Running, Ready, PageInHand, ErasesAlone, PointerHeld
<1> QED
  BY <1>1, <1>8, <1>9, <1>10, <1>11, StillRunning DEF Running

LEMMA MapToMemKeeps ==
    ASSUME DriverInv, MapToMem
    PROVE  DriverInv'
<1>1. Running
  BY RunsNow DEF MapToMem, Opens
<1>2. /\ user.pc = "map" /\ lock = "free" /\ user \in UserType /\ user.page \in Segments
      /\ hw.wip = "no" /\ hw.sleep = "Working" /\ hw.ext = user.page
      /\ ~erasing /\ ptr = NoSegment /\ (user.job = "serve" <=> mode = "high")
  BY <1>1 DEF MapToMem, Opens, Running, TypeOK, PageInHand, ErasesAlone, PointerHeld
<1>3. Ready(hw)
  BY <1>1, <1>2 DEF Running, TypeOK, Ready, Known
<1>4. Ready(hw)' /\ hw'.sleep = "Working" /\ hw'.ext = user.page /\ hw'.extender = hw'.ext
        /\ hw'.fmode = "mapped"
  BY <1>1, <1>2, <1>3, MappingSet DEF MapToMem, Same, Running, Known
<1>5. /\ (user \in UserType)' /\ user'.page = user.page /\ user'.job = user.job
      /\ user'.pc = IF user.job = "serve" THEN "drop" ELSE "read"
      /\ ptr' = (IF user.job = "serve" THEN user.page ELSE ptr)
      /\ late' \in BOOLEAN
  BY <1>1, <1>2 DEF MapToMem, UserType, Running, TypeOK
<1>6. UNCHANGED <<lock, boot, mode, erasing, eraser>>
  BY DEF MapToMem
<1>7. TypeOK'
  BY <1>1, <1>2, <1>4, <1>5, <1>6 DEF Running, TypeOK, Ready
<1>8. (Flawless(hw) /\ BusyMapping(hw) /\ Known(hw) /\ MappedUntilTaken)'
  BY <1>2, <1>4, <1>5 DEF Ready, Known, MappedUntilTaken, Mapped, IsMemoryMapped
<1>9. (PageInHand /\ ErasesAlone /\ PointerHeld)'
  BY <1>1, <1>2, <1>4, <1>5, <1>6
     DEF Running, Ready, PageInHand, ErasesAlone, PointerHeld
<1> QED
  BY <1>1, <1>6, <1>7, <1>8, <1>9, StillRunning DEF Running

LEMMA ReadHeaderKeeps ==
    ASSUME DriverInv, ReadHeader
    PROVE  DriverInv'
<1>1. Running
  BY RunsNow DEF ReadHeader
<1>2. /\ user.pc = "read" /\ user \in UserType /\ user.page \in Segments
      /\ hw.wip = "no" /\ hw.sleep = "Working" /\ hw.ext = user.page /\ hw.fmode = "mapped"
      /\ ~erasing /\ ptr = NoSegment
  BY <1>1 DEF ReadHeader, Running, TypeOK, PageInHand, ErasesAlone, PointerHeld
<1>3. Ready(hw) /\ Mapped(hw, user.page) /\ hw.extender = hw.ext
  BY <1>1, <1>2 DEF Running, TypeOK, Ready, Known, Mapped, IsMemoryMapped
<1>4. Ready(hw)' /\ hw'.sleep = "Working" /\ hw'.extender = hw'.ext
  BY <1>2, <1>3 DEF ReadHeader, ReadMapped, Ready, Flawless, BusyMapping, SameMode, HwType
<1>5. (user \in UserType)' /\ user'.page = user.page /\ user'.job = user.job
        /\ user'.pc = "drop"
  BY <1>2 DEF ReadHeader, UserType
<1>6. UNCHANGED <<lock, boot, mode, ptr, late, erasing, eraser>>
  BY DEF ReadHeader
<1>7. TypeOK'
  BY <1>1, <1>4, <1>5, <1>6 DEF Running, TypeOK, Ready
<1>8. (Flawless(hw) /\ BusyMapping(hw) /\ Known(hw) /\ MappedUntilTaken)'
  BY <1>2, <1>4, <1>6 DEF Ready, Known, MappedUntilTaken
<1>9. (PageInHand /\ ErasesAlone /\ PointerHeld)'
  BY <1>1, <1>2, <1>4, <1>5, <1>6
     DEF Running, Ready, PageInHand, ErasesAlone, PointerHeld
<1> QED
  BY <1>1, <1>6, <1>7, <1>8, <1>9, StillRunning DEF Running

LEMMA BeginWriteBlockKeeps ==
    ASSUME DriverInv, BeginWriteBlock
    PROVE  DriverInv'
<1>1. Running
  BY RunsNow DEF BeginWriteBlock, Opens
<1>2. /\ user.pc = "write" /\ lock = "free" /\ user \in UserType /\ user.page \in Segments
      /\ hw.wip = "no" /\ hw.sleep = "Working" /\ hw.ext = user.page
      /\ ~erasing /\ ptr = NoSegment
  BY <1>1 DEF BeginWriteBlock, Opens, Running, TypeOK, PageInHand, ErasesAlone, PointerHeld
<1>3. Ready(hw) /\ hw.extender = hw.ext
  BY <1>1, <1>2 DEF Running, TypeOK, Ready, Known
<1>4. Ready(hw)' /\ hw'.sleep = "Working" /\ hw'.ext = user.page /\ hw'.extender = hw'.ext
  BY <1>2, <1>3, Cancelled DEF BeginWriteBlock, Same
<1>5. (user \in UserType)' /\ user'.page = user.page /\ user'.job = user.job
        /\ user'.pc = "chunk" /\ user'.chunk = user.chunk
  BY <1>2 DEF BeginWriteBlock, UserType
<1>6. lock' = "user" /\ UNCHANGED <<boot, mode, ptr, late, erasing, eraser>>
  BY DEF BeginWriteBlock
<1>7. TypeOK'
  BY <1>1, <1>4, <1>5, <1>6 DEF Running, TypeOK, Ready
<1>8. (Flawless(hw) /\ BusyMapping(hw) /\ Known(hw) /\ MappedUntilTaken)'
  BY <1>2, <1>4, <1>6 DEF Ready, Known, MappedUntilTaken
<1>9. (PageInHand /\ ErasesAlone /\ PointerHeld)'
  BY <1>1, <1>2, <1>4, <1>5, <1>6
     DEF Running, Ready, PageInHand, ErasesAlone, PointerHeld
<1> QED
  BY <1>1, <1>6, <1>7, <1>8, <1>9, StillRunning DEF Running

LEMMA WriteBlockKeeps ==
    ASSUME DriverInv, WriteBlock
    PROVE  DriverInv'
<1>1. Running
  BY RunsNow DEF WriteBlock
<1>2. /\ user.pc = "chunk" /\ lock = "user" /\ user \in UserType /\ user.page \in Segments
      /\ hw.wip = "no" /\ hw.sleep = "Working" /\ hw.ext = user.page
      /\ user.chunk \in Nat /\ user.chunk < Chunks /\ user.job = "store"
      /\ mode = "recorder" /\ ~erasing /\ ptr = NoSegment
  BY <1>1 DEF WriteBlock, Running, TypeOK, UserType, PageInHand, ErasesAlone, PointerHeld
<1>3. Ready(hw) /\ hw.extender = hw.ext
  BY <1>1, <1>2 DEF Running, TypeOK, Ready, Known
<1> DEFINE c == IsBusy(hw)
<1>4. Ready(c) /\ ~c.busy /\ Same(c, hw)
  BY <1>3, Cancelled, StatusRead DEF IsBusy, Free, Same, SameBus
<1>5. PICK ok \in BOOLEAN :
        LET h == ProgramChunk(c, user.page, ok)
            last == h.failed \/ ~ok \/ LastChunk(user.chunk)
        IN /\ hw' = Ended(h)
           /\ user' = [user EXCEPT !.chunk = @ + 1, !.pc = IF last THEN "drop" ELSE @]
           /\ lock' = IF last THEN "free" ELSE lock
  BY DEF WriteBlock
<1> DEFINE h == ProgramChunk(c, c.ext, ok)
           last == ~ok \/ LastChunk(user.chunk)
<1>6. /\ h \in HwType /\ Flawless(h) /\ Free(h) /\ Same(h, c) /\ ~h.asleep
      /\ h.wip \in {"no", "program"} /\ c.ext = user.page
  BY <1>2, <1>4, ChunkProgrammed DEF Same
<1>7. /\ hw' = h
      /\ user' = [user EXCEPT !.chunk = @ + 1, !.pc = IF last THEN "drop" ELSE @]
      /\ lock' = IF last THEN "free" ELSE lock
  BY <1>5, <1>6, EndsWell DEF Flawless
<1> HIDE DEF h, c
<1>8. /\ (hw \in HwType)' /\ Flawless(hw)' /\ BusyMapping(hw)' /\ Known(hw)'
      /\ hw'.sleep = "Working" /\ hw'.ext = user.page /\ hw'.wip \in {"no", "program"}
  BY <1>2, <1>3, <1>4, <1>6, <1>7
     DEF Flawless, BusyMapping, Known, Free, Same, SameBus, SameMode, Ready
<1>9. /\ user'.page = user.page /\ user'.job = user.job /\ user'.chunk = user.chunk + 1
      /\ user'.pc = IF last THEN "drop" ELSE "chunk"
      /\ (~last => user'.chunk < Chunks)
  BY <1>2, <1>7, FlashAssumption DEF LastChunk, UserType
<1>10. (user \in UserType)'
  <2>1. user.chunk + 1 \in 0..Chunks
    BY <1>2, FlashAssumption
  <2> QED
    BY <1>2, <1>7, <2>1 DEF UserType
<1>11. UNCHANGED <<boot, mode, ptr, late, erasing, eraser>>
  BY DEF WriteBlock
<1> HIDE DEF last
<1>12. TypeOK'
  BY <1>1, <1>2, <1>7, <1>8, <1>10, <1>11 DEF Running, TypeOK
<1>13. MappedUntilTaken'
  BY <1>2, <1>11 DEF MappedUntilTaken
<1>14. (PageInHand /\ ErasesAlone /\ PointerHeld)'
  BY <1>1, <1>2, <1>7, <1>8, <1>9, <1>11
     DEF Running, PageInHand, ErasesAlone, PointerHeld
<1> QED
  BY <1>1, <1>8, <1>11, <1>12, <1>13, <1>14, StillRunning DEF Running

LEMMA DropAccessorKeeps ==
    ASSUME DriverInv, DropAccessor
    PROVE  DriverInv'
<1>1. Running
  BY RunsNow DEF DropAccessor
<1>2. user.pc = "drop" /\ lock # "user" /\ ~erasing /\ hw \in HwType
  BY <1>1 DEF DropAccessor, Running, TypeOK, PageInHand, ErasesAlone
<1>3. lock = "free"
  BY <1>1, <1>2 DEF Running, TypeOK, ErasesAlone
<1>4. /\ (hw \in HwType)' /\ Flawless(hw)' /\ BusyMapping(hw)' /\ Known(hw)'
      /\ hw'.ext = hw.ext /\ hw'.fmode = hw.fmode /\ hw'.asleep = hw.asleep /\ hw'.wip = hw.wip
  BY <1>1, <1>2, <1>3, SleepWanted
     DEF DropAccessor, Running, Flawless, BusyMapping, Known, SameBus, SameMode
<1>5. (user \in UserType)' /\ user'.pc = "idle"
  BY FlashAssumption DEF DropAccessor, Idle, UserType
<1>6. UNCHANGED <<lock, boot, mode, ptr, late, erasing, eraser>>
  BY DEF DropAccessor
<1>7. TypeOK'
  BY <1>1, <1>4, <1>5, <1>6 DEF Running, TypeOK
<1>8. MappedUntilTaken'
  BY <1>1, <1>4, <1>6 DEF Running, MappedUntilTaken, Mapped, IsMemoryMapped
<1>9. (PageInHand /\ ErasesAlone /\ PointerHeld)'
  BY <1>1, <1>2, <1>4, <1>5, <1>6
     DEF Running, PageInHand, ErasesAlone, PointerHeld
<1> QED
  BY <1>1, <1>4, <1>6, <1>7, <1>8, <1>9, StillRunning DEF Running

LEMMA CopyPacketKeeps ==
    ASSUME DriverInv, CopyPacket
    PROVE  DriverInv'
<1>1. Running
  BY RunsNow DEF CopyPacket, DriverInv, NobodyYet
<1>2. /\ user.pc = "idle" /\ hw \in HwType /\ hw.fmode = "mapped" /\ hw' = ReadMapped(hw)
      /\ ptr' \in {ptr, NoSegment} /\ Mapped(hw, ptr)
      /\ UNCHANGED <<lock, boot, mode, user, late, erasing, eraser>>
  BY <1>1 DEF CopyPacket, Running, TypeOK, Mapped, IsMemoryMapped
<1>3. /\ (hw \in HwType)' /\ Flawless(hw)' /\ BusyMapping(hw)' /\ Known(hw)'
      /\ hw'.ext = hw.ext /\ hw'.fmode = hw.fmode /\ hw'.asleep = hw.asleep /\ hw'.wip = hw.wip
      /\ hw'.sleep = hw.sleep
  BY <1>1, <1>2 DEF ReadMapped, Running, Flawless, BusyMapping, Known, SameMode, HwType
<1>4. TypeOK'
  BY <1>1, <1>2, <1>3 DEF Running, TypeOK
<1>5. MappedUntilTaken'
  BY <1>2, <1>3 DEF MappedUntilTaken, Mapped, IsMemoryMapped
<1>6. (PageInHand /\ ErasesAlone /\ PointerHeld)'
  BY <1>1, <1>2, <1>3 DEF Running, PageInHand, ErasesAlone, PointerHeld
<1> QED
  BY <1>1, <1>2, <1>3, <1>4, <1>5, <1>6, StillRunning DEF Running

LEMMA ForgetPointerKeeps ==
    ASSUME DriverInv, ForgetPointer
    PROVE  DriverInv'
<1>1. Running
  BY RunsNow DEF ForgetPointer, DriverInv, NobodyYet
<1>2. ptr' = NoSegment /\ UNCHANGED <<hw, lock, boot, mode, user, late, erasing, eraser>>
  BY DEF ForgetPointer
<1> QED
  BY <1>1, <1>2, StillRunning
     DEF Running, TypeOK, Flawless, BusyMapping, Known, SameMode, MappedUntilTaken,
         PageInHand, ErasesAlone, PointerHeld

LEMMA FlashEreaseKeeps ==
    ASSUME DriverInv, FlashErease
    PROVE  DriverInv'
<1>1. Running
  BY RunsNow DEF FlashErease, LowRuns
<1>2. mode = "high" /\ ~erasing /\ eraser.pc = "none" /\ lock # "eraser"
  BY <1>1 DEF FlashErease, Running, TypeOK, EraserType, ErasesAlone
<1>3. user.pc = "idle"
  BY <1>1, <1>2 DEF FlashErease, LowRuns, Running, TypeOK, PageInHand
<1>4. erasing' = TRUE /\ eraser' = [pc |-> "begin", die |-> 1]
        /\ UNCHANGED <<hw, lock, boot, mode, user, ptr, late>>
  BY DEF FlashErease
<1>5. TypeOK'
  <2>1. (eraser \in EraserType)'
    BY <1>4, FirstDie DEF EraserType
  <2> QED
    BY <1>1, <1>4, <2>1 DEF Running, TypeOK
<1>6. (Flawless(hw) /\ BusyMapping(hw) /\ Known(hw) /\ MappedUntilTaken)'
  BY <1>1, <1>4 DEF Running, Flawless, BusyMapping, Known, SameMode, MappedUntilTaken,
                    Mapped, IsMemoryMapped
<1>7. (PageInHand /\ ErasesAlone /\ PointerHeld)'
  BY <1>1, <1>2, <1>3, <1>4, FirstDie DEF Running, PageInHand, ErasesAlone, PointerHeld
<1> QED
  BY <1>1, <1>4, <1>5, <1>6, <1>7, StillRunning DEF Running

\* Nobody holds the mutex when an erase begins, and the chip is not busy.
LEMMA BeginEraseKeeps ==
    ASSUME DriverInv, BeginErase
    PROVE  DriverInv'
<1> DEFINE c == CancelMemoryMapping(hw)
           w == WakeUp(c)
           h == ReadStatus(w)
           begun == DieErase(h, 1)
<1>1. Running
  BY RunsNow DEF BeginErase, LowRuns
<1>2. /\ eraser.pc = "begin" /\ eraser \in EraserType /\ erasing /\ mode = "high"
      /\ user.pc = "idle" /\ eraser.die \in 1..Len(DieSegments)
      /\ lock = "free" /\ hw.wip = "no" /\ hw \in HwType
  BY <1>1 DEF BeginErase, Running, TypeOK, HwType, PageInHand, ErasesAlone
<1>3. /\ c \in HwType /\ Flawless(c) /\ ~c.busy /\ c.wip = "no" /\ SameMode(c)
      /\ (c.asleep => c.sleep = "Slepping") /\ c.ext = c.extender
  BY <1>1, <1>2 DEF Running, Known, Flawless, BusyMapping, CancelMemoryMapping,
                    IsMemoryMapped, AbortTransmission, SameMode, HwType
<1>4. Ready(w) /\ ~w.busy /\ w.ext = w.extender /\ w.sleep = "Working"
  <2> HIDE DEF c
  <2> QED
    BY <1>3, WokenUp DEF BusyMapping
<1>5. Ready(h) /\ Free(h) /\ h.ext = h.extender /\ h.sleep = "Working"
  <2> HIDE DEF w
  <2> QED
    BY <1>4, StatusRead DEF Same
<1>6. /\ begun \in HwType /\ Flawless(begun) /\ Free(begun) /\ SameBus(begun, h)
      /\ ~begun.asleep /\ begun.sleep = "Working" /\ begun.ext = begun.extender
      /\ begun.wip = "erase"
  <2> HIDE DEF h
  <2> QED
    BY <1>5, FirstDie, DieErased DEF Free, Remembered
<1>7. hw' = Ended(begun) /\ eraser' = [eraser EXCEPT !.pc = "wait"] /\ lock' = "eraser"
  BY <1>2, <1>5, <1>6 DEF BeginErase, Ready, Flawless
<1> HIDE DEF begun, h
<1>8. late' = (ptr # NoSegment) /\ UNCHANGED <<boot, mode, user, ptr, erasing>>
  BY DEF BeginErase
<1>9. /\ (hw \in HwType)' /\ Flawless(hw)' /\ BusyMapping(hw)' /\ Known(hw)'
      /\ hw'.wip = "erase" /\ hw'.sleep = "Working" /\ hw'.fmode = "indirect"
  BY <1>5, <1>6, <1>7, EndsWell
     DEF Ready, Free, Flawless, BusyMapping, Known, SameBus, SameMode
<1>10. (eraser \in EraserType)' /\ eraser'.pc = "wait" /\ eraser'.die = eraser.die
  BY <1>2, <1>7 DEF EraserType
<1>11. TypeOK'
  BY <1>1, <1>7, <1>8, <1>9, <1>10 DEF Running, TypeOK
<1>12. MappedUntilTaken'
  BY <1>8 DEF MappedUntilTaken
<1>13. (PageInHand /\ ErasesAlone /\ PointerHeld)'
  BY <1>1, <1>2, <1>7, <1>8, <1>9, <1>10
     DEF Running, PageInHand, ErasesAlone, PointerHeld
<1> QED
  BY <1>1, <1>8, <1>9, <1>11, <1>12, <1>13, StillRunning DEF Running

LEMMA NextDieKeeps ==
    ASSUME DriverInv, NextDie
    PROVE  DriverInv'
<1> DEFINE h == ReadStatus(hw)
           next == DieErase(h, eraser.die + 1)
<1>1. Running
  BY RunsNow DEF NextDie, LowRuns
<1>2. /\ eraser.pc = "wait" /\ eraser \in EraserType /\ erasing /\ mode = "high"
      /\ user.pc = "idle" /\ lock = "eraser" /\ hw.wip = "no" /\ hw \in HwType
      /\ hw.sleep = "Working" /\ hw.fmode = "indirect" /\ (ptr # NoSegment => late)
      /\ eraser.die \in Nat /\ eraser.die >= 1 /\ eraser.die <= Len(DieSegments)
  BY <1>1, FlashAssumption
     DEF NextDie, Running, TypeOK, EraserType, PageInHand, ErasesAlone
<1>3. Ready(hw) /\ ~hw.busy /\ hw.ext = hw.extender
  BY <1>1, <1>2 DEF Running, Ready, Known, BusyMapping
<1>4. Ready(h) /\ Free(h) /\ h.ext = h.extender /\ h.sleep = "Working"
  BY <1>2, <1>3, StatusRead DEF Same
<1>5. UNCHANGED <<boot, mode, user, ptr, late, erasing>>
  BY DEF NextDie
<1> HIDE DEF h
<1>6. CASE eraser.die < Len(DieSegments)
  <2>1. eraser.die + 1 \in 1..Len(DieSegments)
    BY <1>2, <1>6, FlashAssumption
  <2>2. /\ next \in HwType /\ Flawless(next) /\ Free(next) /\ SameBus(next, h)
        /\ ~next.asleep /\ next.sleep = "Working" /\ next.ext = next.extender
        /\ next.wip = "erase"
    BY <1>4, <2>1, DieErased DEF Free, Remembered
  <2>3. hw' = next /\ eraser' = [eraser EXCEPT !.die = @ + 1] /\ lock' = lock
    BY <1>6, <2>2 DEF NextDie, Flawless, h
  <2> HIDE DEF next
  <2>4. /\ (hw \in HwType)' /\ Flawless(hw)' /\ BusyMapping(hw)' /\ Known(hw)'
        /\ hw'.wip = "erase" /\ hw'.sleep = "Working" /\ hw'.fmode = "indirect"
    BY <1>4, <2>2, <2>3 DEF Ready, Free, Flawless, BusyMapping, Known, SameBus, SameMode
  <2>5. (eraser \in EraserType)' /\ eraser'.pc = "wait" /\ eraser'.die \in 1..Len(DieSegments)
    BY <1>2, <2>1, <2>3 DEF EraserType
  <2>6. TypeOK'
    BY <1>1, <1>5, <2>3, <2>4, <2>5 DEF Running, TypeOK
  <2>7. MappedUntilTaken'
    BY <1>2, <1>5 DEF MappedUntilTaken
  <2>8. (PageInHand /\ ErasesAlone /\ PointerHeld)'
    BY <1>1, <1>2, <1>5, <2>3, <2>4, <2>5
       DEF Running, PageInHand, ErasesAlone, PointerHeld
  <2> QED
    BY <1>1, <1>5, <2>4, <2>6, <2>7, <2>8, StillRunning DEF Running
<1>7. CASE ~(eraser.die < Len(DieSegments))
  <2>1. hw' = WantSleep(h) /\ eraser' = [eraser EXCEPT !.pc = "end"] /\ lock' = "free"
    BY <1>7 DEF NextDie, h
  <2>2. /\ (hw \in HwType)' /\ Flawless(hw)' /\ BusyMapping(hw)' /\ Known(hw)'
        /\ hw'.wip = "no"
    BY <1>4, <2>1, SleepWanted
       DEF Ready, Free, Flawless, BusyMapping, Known, SameBus, SameMode
  <2>3. (eraser \in EraserType)' /\ eraser'.pc = "end"
    BY <1>2, <2>1 DEF EraserType
  <2>4. TypeOK'
    BY <1>1, <1>5, <2>1, <2>2, <2>3 DEF Running, TypeOK
  <2>5. MappedUntilTaken'
    BY <1>2, <1>5 DEF MappedUntilTaken
  <2>6. (PageInHand /\ ErasesAlone /\ PointerHeld)'
    BY <1>1, <1>2, <1>5, <2>1, <2>2, <2>3
       DEF Running, PageInHand, ErasesAlone, PointerHeld
  <2> QED
    BY <1>1, <1>5, <2>2, <2>4, <2>5, <2>6, StillRunning DEF Running
<1> QED
  BY <1>6, <1>7

LEMMA EndEraseKeeps ==
    ASSUME DriverInv, EndErase
    PROVE  DriverInv'
<1>1. Running
  BY RunsNow DEF EndErase, LowRuns
<1>2. eraser.pc = "end" /\ erasing' = FALSE /\ eraser' = NoEraser
        /\ UNCHANGED <<hw, lock, boot, mode, user, ptr, late>>
  BY DEF EndErase
<1>3. (eraser \in EraserType)' /\ eraser'.pc = "none"
  BY <1>2, FlashAssumption DEF NoEraser, EraserType
<1>4. TypeOK'
  BY <1>1, <1>2, <1>3 DEF Running, TypeOK
<1>5. (Flawless(hw) /\ BusyMapping(hw) /\ Known(hw) /\ MappedUntilTaken)'
  BY <1>1, <1>2 DEF Running, Flawless, BusyMapping, Known, SameMode, MappedUntilTaken,
                    Mapped, IsMemoryMapped
<1>6. (PageInHand /\ ErasesAlone /\ PointerHeld)'
  BY <1>1, <1>2, <1>3 DEF Running, PageInHand, ErasesAlone, PointerHeld
<1> QED
  BY <1>1, <1>2, <1>4, <1>5, <1>6, StillRunning DEF Running

LEMMA ChipDoneKeeps ==
    ASSUME DriverInv, ChipDone
    PROVE  DriverInv'
<1>1. hw.wip # "no" /\ hw' = [hw EXCEPT !.wip = "no", !.wel = FALSE] /\ hw \in HwType
        /\ UNCHANGED <<lock, boot, mode, user, ptr, late, erasing, eraser>>
  BY DEF ChipDone, DriverInv, TypeOK
<1>2. /\ (hw \in HwType)' /\ hw'.wip = "no" /\ hw'.asleep = hw.asleep
      /\ hw'.ext = hw.ext /\ hw'.extender = hw.extender /\ SameBus(hw', hw)
      /\ hw'.sleep = hw.sleep /\ hw'.fmode = hw.fmode /\ hw'.busy = hw.busy
      /\ hw'.failed = hw.failed /\ hw'.deaf = hw.deaf /\ hw'.astray = hw.astray
  BY <1>1 DEF HwType, SameBus
<1>3. TypeOK'
  BY <1>1, <1>2 DEF DriverInv, TypeOK
<1>4. (CommandsAreHeard /\ MappedUntilTaken /\ NobodyYet)'
  BY <1>1, <1>2 DEF DriverInv, CommandsAreHeard, MappedUntilTaken, Mapped, IsMemoryMapped,
                    NobodyYet
<1>5. (BroughtUp /\ KnownChip)'
  BY <1>1, <1>2 DEF DriverInv, BroughtUp, Ready, KnownChip, Known, BusyMapping, SameBus,
                    SameMode
<1>6. (PageInHand /\ ErasesAlone /\ PointerHeld)'
  BY <1>1, <1>2 DEF DriverInv, PageInHand, ErasesAlone, PointerHeld
<1> QED
  BY <1>3, <1>4, <1>5, <1>6 DEF DriverInv

\* The chip is put to sleep between two uses only.
LEMMA SleepTimerKeeps ==
    ASSUME DriverInv, SleepTimer
    PROVE  DriverInv'
<1> DEFINE h == EnterSleep(hw)
<1>1. Running
  BY RunsNow DEF SleepTimer
<1>2. /\ lock = "free" /\ hw.sleep = "Waiting" /\ hw.wip = "no" /\ hw \in HwType
      /\ eraser.pc # "wait"
  BY <1>1 DEF SleepTimer, Running, TypeOK, HwType, ErasesAlone
<1>3. Ready(hw) /\ hw.ext = hw.extender
  BY <1>1, <1>2 DEF Running, Ready, Known
<1>4. /\ h \in HwType /\ Flawless(h) /\ Free(h) /\ SameBus(h, hw) /\ h.asleep
      /\ h.sleep = "Slepping" /\ h.ext = h.extender /\ h.wip = "no"
  BY <1>3, FallenAsleep
<1>5. hw' = [h EXCEPT !.timer = FALSE]
  BY <1>4 DEF SleepTimer, Flawless
<1> HIDE DEF h
<1>6. (hw \in HwType)' /\ Flawless(hw)' /\ BusyMapping(hw)' /\ Known(hw)' /\ hw'.wip = "no"
  BY <1>3, <1>4, <1>5
     DEF Ready, Free, Flawless, BusyMapping, Known, SameBus, SameMode, HwType
<1>7. late' = (late \/ ptr # NoSegment)
        /\ UNCHANGED <<lock, boot, mode, user, ptr, erasing, eraser>>
  BY DEF SleepTimer
<1>8. TypeOK'
  BY <1>1, <1>6, <1>7 DEF Running, TypeOK
<1>9. MappedUntilTaken'
  BY <1>7 DEF MappedUntilTaken
<1>10. (PageInHand /\ ErasesAlone /\ PointerHeld)'
  BY <1>1, <1>2, <1>6, <1>7 DEF Running, PageInHand, ErasesAlone, PointerHeld
<1> QED
  BY <1>1, <1>6, <1>7, <1>8, <1>9, <1>10, StillRunning DEF Running

LEMMA DriverStep == DriverInv /\ [Next]_vars => DriverInv'
<1> SUFFICES ASSUME DriverInv, [Next]_vars
             PROVE  DriverInv'
  OBVIOUS
<1>1. CASE CreateQspi \/ Identify \/ Configure \/ Start \/ Restart
  BY <1>1, CreateQspiKeeps, IdentifyKeeps, ConfigureKeeps, StartDriverKeeps, RestartKeeps
<1>2. CASE BeginSearch \/ BeginWrite \/ BeginRead
  BY <1>2, BeginKeeps
<1>3. CASE Use
  BY <1>3, SelectKeeps, MapToMemKeeps, ReadHeaderKeeps, BeginWriteBlockKeeps,
     WriteBlockKeeps, DropAccessorKeeps
     DEF Use
<1>4. CASE CopyPacket \/ ForgetPointer
  BY <1>4, CopyPacketKeeps, ForgetPointerKeeps
<1>5. CASE FlashErease \/ Erase
  BY <1>5, FlashEreaseKeeps, BeginEraseKeeps, NextDieKeeps, EndEraseKeeps DEF Erase
<1>6. CASE ChipDone \/ SleepTimer
  BY <1>6, ChipDoneKeeps, SleepTimerKeeps
<1>7. CASE UNCHANGED vars
  BY <1>7
     DEF vars, DriverInv, TypeOK, CommandsAreHeard, MappedUntilTaken, Mapped, IsMemoryMapped,
         NobodyYet, BroughtUp, Ready, Free, Flawless, BusyMapping, SameMode, KnownChip, Known,
         PageInHand, ErasesAlone, PointerHeld
<1> QED
  BY <1>1, <1>2, <1>3, <1>4, <1>5, <1>6, <1>7 DEF Next

LEMMA DriverKeeps == Spec => []DriverInv
BY DriverInit, DriverStep, PTL DEF Spec

-----------------------------------------------------------------------------
(***************************************************************************)
(* The firmware keeps to the driver.                                       *)
(***************************************************************************)

\* Every step of main, of a task or of the hardware is one of the driver or does
\* not touch it.
LEMMA StepOfDriver == [StartupNext]_allVars => [Next]_vars
<1> SUFFICES ASSUME [StartupNext]_allVars
             PROVE  Next \/ UNCHANGED vars
  OBVIOUS
<1>1. CASE Main
  <2>1. CASE ModeNew
    BY <2>1 DEF ModeNew, NewHighPerformance, NewRecorder, NewMode, Next
  <2>2. CASE BringUpFlash
    BY <2>2 DEF BringUpFlash, Next
  <2>3. CASE IniStatic \/ HighFreeze \/ ConfigureUsb48 \/ HseReady \/ SetDividers
               \/ ShutDownMsi \/ MasterInit
    BY <2>3 DEF IniStatic, HighFreeze, ConfigureUsb48, HseReady, SetDividers, ShutDownMsi,
                MasterInit
  <2>4. CASE StartThreads \/ EnableSelectedChannels \/ StartScheduler
    BY <2>4 DEF StartThreads, EnableSelectedChannels, StartScheduler
  <2> QED
    BY <1>1, <2>1, <2>2, <2>3, <2>4 DEF Main
<1>2. CASE TaskSetup
  BY <1>2 DEF TaskSetup, StartMaster, ConfigureCounters, SetCallback, OpenDma, InitialTargets,
              ReceiveCommand, StartDelayOver, RegisterUsbd, UsbEnable, BuildDevice,
              StartProtobuf, FirstWait
<1>3. CASE UseFlash
  BY <1>3 DEF UseFlash, Next
<1>4. CASE FlashTimer \/ FlashChip \/ StartupRestart
  BY <1>4 DEF FlashTimer, FlashChip, StartupRestart, Next
<1>5. CASE SwitchSource \/ PlugOrPull \/ UNCHANGED allVars
  BY <1>5 DEF SwitchSource, PlugOrPull, allVars
<1> QED
  BY <1>1, <1>2, <1>3, <1>4, <1>5 DEF StartupNext

LEMMA DriverOfStartup == StartupSpec => Spec
BY StepOfDriver, PTL DEF StartupSpec, StartupInit, Spec

\* No command of the driver is lost, refused or sent to the wrong segment, from
\* the first boot on and whatever a restart interrupts, for any number of segments
\* and dies and any page (qspi_driver.rs 116-503, common.rs 117-145).
THEOREM DriverIsHeard == StartupSpec => []CommandsAreHeard
BY DriverOfStartup, DriverKeeps, PTL DEF DriverInv

\* A page that the USB stack still has to copy from stays mapped, unless the sleep
\* timer or an erase came first (callbacks.rs 138-158, qspi_storage.rs 57-105).
THEOREM PageStaysMapped == StartupSpec => []MappedUntilTaken
BY DriverOfStartup, DriverKeeps, PTL DEF DriverInv

-----------------------------------------------------------------------------
(***************************************************************************)
(* What the start-up keeps.                                                *)
(***************************************************************************)

MainStates == {"check", "static", "pll", "usb48", "hse", "dividers", "switch",
               "master", "storage", "tasks", "channels", "scheduler", "run"}
TaskStates == {"none", "delay", "master", "p_callback", "p_irq", "t_callback", "t_irq",
               "targets", "bus", "enable", "build", "protobuf", "wait", "loop"}
IrqType == [Interrupts -> [open : BOOLEAN, prio : 0..255]]

AfterMaster == {"storage", "tasks", "channels", "scheduler", "run"}
WithTasks == {"channels", "scheduler", "run"}

\* main has set up what the tasks take for granted.
MainFirst ==
    /\ main \notin {"check", "static"} => "SETTINGS" \in made
    /\ ("MATSTER_COUNTER" \in made <=> main \in AfterMaster)
    /\ main \in AfterMaster => irq["TIM6_DAC"].prio = MasterCounterIrqPrio
    /\ irq["TIM6_DAC"].open => main = "run"
    /\ \A t \in Tasks : task[t] # "none" => main \in WithTasks
    /\ main = "check" => queue = 0

\* A counter's interrupt is opened after its callback is left.
CountersFirst ==
    /\ task["SensProc"] = "p_irq" => "DMA1_CH6_CB" \in made
    /\ task["SensProc"] = "t_irq" => "DMA1_CH2_CB" \in made
    /\ irq["DMA1_CH6"].open => "DMA1_CH6_CB" \in made /\ irq["DMA1_CH6"].prio = DmaIrqPrio
    /\ irq["DMA1_CH2"].open => "DMA1_CH2_CB" \in made /\ irq["DMA1_CH2"].prio = DmaIrqPrio

\* The USB thread leaves its handle, then gives the interrupt its priority, then
\* opens it, and there is one in high-performance mode only.
UsbFirst ==
    /\ task["Usbd"] \in {"enable", "build", "protobuf", "wait", "loop"} => "USBD_THREAD" \in made
    /\ task["Usbd"] \in {"protobuf", "wait", "loop"} => irq["USB_FS"].prio = UsbInterruptPrio
    /\ irq["USB_FS"].open => "USBD_THREAD" \in made /\ irq["USB_FS"].prio = UsbInterruptPrio
    /\ task["Usbd"] # "none" => mode = "high"

\* The clock tree at each point of main.
RunsFrom(src) == clk.src = src /\ clk.want = src /\ src \in clk.ready
Slow == clk.hpre = 1 /\ clk.ppre1 = 1 /\ clk.latency = 0 /\ RunsFrom("msi")
ForRecorder == clk.hpre = 8 /\ clk.ppre1 = 1 /\ clk.latency = 0
ForHigh == clk.hpre = 1 /\ clk.ppre1 = 1 /\ clk.latency = 4 /\ RunsFrom("pll") /\ ~clk.lpr

ClockSteps ==
    /\ main \in {"check", "static", "pll", "hse", "dividers"} => Slow
    /\ main \in {"check", "static", "pll"} => ~clk.lpr
    /\ main \in {"pll", "usb48"} => mode = "high"
    /\ main \in {"hse", "dividers", "switch"} => mode = "recorder" /\ clk.pwren
    /\ main \in {"check", "static", "pll", "hse", "dividers", "switch", "usb48"} => ~clk.usb
    /\ main \in {"static"} => clk.pwren
    /\ main \in {"dividers", "switch"} => "hse" \in clk.ready
    /\ main = "switch" => ForRecorder /\ clk.want = "hse" /\ clk.src \in {"msi", "hse"} \cap clk.ready
    /\ main = "usb48" => ForHigh
    /\ main \in AfterMaster \cup {"master"} =>
         /\ mode = "high" => ForHigh /\ clk.clk48 /\ (clk.usb => clk.usv)
         /\ mode = "recorder" => ForRecorder /\ RunsFrom("hse") /\ clk.lpr /\ ~clk.usb

StartOK == StartupTypeOK /\ MainFirst /\ CountersFirst /\ UsbFirst /\ ClockSteps

LEMMA Frequencies ==
    /\ CoreFrequency("high") = 80 /\ CoreFrequency("recorder") = 3
    /\ AhbDivider(1) = 1 /\ AhbDivider(Xtal \div FreeRtosFreq) = 8
    /\ CoreFrequency("high") \div (CoreFrequency("high") \div Apb1Devider) = 1
    /\ (Xtal \div 8) \div (FreeRtosFreq \div Apb1Devider) = 1
    /\ ApbDivider(1) = 1 /\ WaitStates(80) = 4 /\ WaitStates(3) = 0 /\ WaitStates(0) = 0 /\ WaitStates(4) = 0
    /\ Xtal \div 8 = 3
BY DEF CoreFrequency, Xtal, PllCfg, FreeRtosFreq, Apb1Devider, AhbDivider, ApbDivider,
       WaitStates

LEMMA StartOKInit == StartupInit /\ TypeOK => StartOK
BY DEF StartupInit, StartOK, StartupTypeOK, Init, MainFirst, CountersFirst, UsbFirst,
       ClockSteps, ResetClock, ClockType, ClosedIrq, Interrupts, Tasks, Capacity, Slow,
       RunsFrom, AfterMaster, WithTasks

\* What the parts promise.
LEMMA ServedAndFitting == StartOK => HandlersAreServed /\ ClockTreeFits
<1> SUFFICES ASSUME StartOK PROVE HandlersAreServed /\ ClockTreeFits
  OBVIOUS
<1>1. HandlersAreServed
  <2>1. /\ Level(MasterCounterIrqPrio) >= Level(IrqHighestPrio)
        /\ Level(DmaIrqPrio) >= Level(IrqHighestPrio)
        /\ Level(UsbInterruptPrio) >= Level(IrqHighestPrio)
    BY DEF Level, MasterCounterIrqPrio, DmaIrqPrio, UsbInterruptPrio, IrqHighestPrio
  <2>2. irq["TIM6_DAC"].open => "MATSTER_COUNTER" \in made /\ irq["TIM6_DAC"].prio = MasterCounterIrqPrio
    BY DEF StartOK, MainFirst, AfterMaster
  <2> QED
    BY <2>1, <2>2 DEF StartOK, CountersFirst, UsbFirst, HandlersAreServed, Interrupts, Static
<1>2. ClockTreeFits
  <2>1. mode \in {"recorder", "high"} /\ main \in MainStates
    BY DEF StartOK, StartupTypeOK, TypeOK, MainStates
  <2>2. CASE main \in {"check", "static", "pll", "hse", "dividers"}
    <3>1. Core(clk) = 4 /\ clk.latency = 0 /\ clk.src \in clk.ready /\ ~clk.usb
            /\ "MATSTER_COUNTER" \notin made
      BY <2>2 DEF StartOK, ClockSteps, Slow, RunsFrom, MainFirst, AfterMaster, Core,
                  SourceFrequency
    <3> QED
      BY <3>1, Frequencies DEF ClockTreeFits
  <2>3. CASE main = "switch"
    <3>1. Core(clk) \in {0, 3} /\ clk.latency = 0 /\ clk.src \in clk.ready /\ ~clk.usb
            /\ "MATSTER_COUNTER" \notin made
      BY <2>3 DEF StartOK, ClockSteps, ForRecorder, MainFirst, AfterMaster, Core,
                  SourceFrequency, Xtal
    <3> QED
      BY <3>1, Frequencies DEF ClockTreeFits
  <2>4. CASE main = "usb48"
    <3>1. Core(clk) = 80 /\ clk.latency = 4 /\ clk.src \in clk.ready /\ ~clk.usb
            /\ "MATSTER_COUNTER" \notin made
      BY <2>4 DEF StartOK, ClockSteps, ForHigh, RunsFrom, MainFirst, AfterMaster, Core,
                  SourceFrequency, Xtal, PllCfg
    <3> QED
      BY <3>1, Frequencies DEF ClockTreeFits
  <2>5. CASE main \in AfterMaster \cup {"master"} /\ mode = "high"
    <3>1. /\ ForHigh /\ (clk.usb => clk.clk48 /\ clk.usv)
      BY <2>5 DEF StartOK, ClockSteps
    <3>2. Core(clk) = 80 /\ TimerClock(clk) = 80 /\ clk.latency = 4 /\ clk.src \in clk.ready
            /\ clk.lpr = FALSE
      BY <3>1 DEF ForHigh, RunsFrom, Core, TimerClock, SourceFrequency, Xtal, PllCfg,
                  StartOK, StartupTypeOK, ClockType
    <3>3. MasterCounterFrequency("high") = 80
            /\ 80 * Xtal2MasterMultiplier("high")[2] = Xtal * Xtal2MasterMultiplier("high")[1]
      BY DEF MasterCounterFrequency, CoreFrequency, Xtal, PllCfg, Apb1Devider,
             Xtal2MasterMultiplier, HighMultiplier
    <3>4. clk.latency >= WaitStates(Core(clk))
      BY <3>2, Frequencies
    <3>7. clk.lpr = (mode = "recorder")
      BY <2>5, <3>2, Zenon
    <3>5. TimerClock(clk) = MasterCounterFrequency(mode)
      BY <2>5, <3>2, <3>3
    <3>6. TimerClock(clk) * Xtal2MasterMultiplier(mode)[2] = Xtal * Xtal2MasterMultiplier(mode)[1]
      BY <2>5, <3>2, <3>3
    <3> QED
      BY <3>1, <3>2, <3>4, <3>5, <3>6, <3>7 DEF ClockTreeFits
  <2>6. CASE main \in AfterMaster \cup {"master"} /\ mode = "recorder"
    <3>1. ForRecorder /\ RunsFrom("hse") /\ clk.lpr /\ ~clk.usb
      BY <2>6 DEF StartOK, ClockSteps
    <3>2. Core(clk) = 3 /\ TimerClock(clk) = 3 /\ clk.latency = 0 /\ clk.src \in clk.ready
            /\ clk.lpr = TRUE
      BY <3>1 DEF ForRecorder, RunsFrom, Core, TimerClock, SourceFrequency, Xtal,
                  StartOK, StartupTypeOK, ClockType
    <3>3. MasterCounterFrequency("recorder") = 3
            /\ 3 * Xtal2MasterMultiplier("recorder")[2]
                  = Xtal * Xtal2MasterMultiplier("recorder")[1]
      BY DEF MasterCounterFrequency, CoreFrequency, Xtal, FreeRtosFreq, Apb1Devider,
             Xtal2MasterMultiplier, RecorderMultiplier
    <3>4. clk.latency >= WaitStates(Core(clk))
      BY <3>2, Frequencies
    <3>7. clk.lpr = (mode = "recorder")
      BY <2>6, <3>2, Zenon
    <3>5. TimerClock(clk) = MasterCounterFrequency(mode)
      BY <2>6, <3>2, <3>3
    <3>6. TimerClock(clk) * Xtal2MasterMultiplier(mode)[2] = Xtal * Xtal2MasterMultiplier(mode)[1]
      BY <2>6, <3>2, <3>3
    <3> QED
      BY <3>1, <3>2, <3>4, <3>5, <3>6, <3>7 DEF ClockTreeFits
  <2> QED
    BY <2>1, <2>2, <2>3, <2>4, <2>5, <2>6 DEF MainStates, AfterMaster
<1> QED
  BY <1>1, <1>2

\* The writes to the clock tree keep its fields in range.
ClockOf(R, S, H, P, L) ==
    [ ready : R, src : S, want : S, hpre : H, ppre1 : P, latency : L, pwren : BOOLEAN,
      lpr : BOOLEAN, clk48 : BOOLEAN, usv : BOOLEAN, usb : BOOLEAN ]

Writable(c, T, R, S, H, P, L) ==
    /\ [c EXCEPT !.pwren = TRUE] \in T
    /\ [c EXCEPT !.clk48 = TRUE] \in T
    /\ [c EXCEPT !.lpr = TRUE] \in T
    /\ [c EXCEPT !.usv = TRUE] \in T
    /\ [c EXCEPT !.usb = TRUE] \in T
    /\ \A r \in R : [c EXCEPT !.ready = r] \in T
    /\ \A s \in S : [c EXCEPT !.src = s] \in T
    /\ \A r \in R, s \in S, h \in H, p \in P, l \in L :
         [c EXCEPT !.ready = r, !.src = s, !.want = s, !.hpre = h, !.ppre1 = p,
                   !.latency = l] \in T
    /\ \A s \in S, h \in H, p \in P, l \in L :
         [c EXCEPT !.hpre = h, !.latency = l, !.want = s, !.ppre1 = p] \in T

LEMMA ClockWritten ==
    ASSUME NEW R, NEW S, NEW H, NEW P, NEW L, NEW c \in ClockOf(R, S, H, P, L)
    PROVE  Writable(c, ClockOf(R, S, H, P, L), R, S, H, P, L)
BY DEF ClockOf, Writable

Sources == {"msi", "hse", "pll"}

LEMMA ClockTyped ==
    ASSUME NEW c \in ClockType
    PROVE  Writable(c, ClockType, SUBSET Sources, Sources, 1..512, 1..16, 0..4)
<1>1. ClockType = ClockOf(SUBSET Sources, Sources, 1..512, 1..16, 0..4)
  BY DEF ClockOf, ClockType, Sources
<1> QED
  BY <1>1, ClockWritten

SameClock(c, d) ==
    /\ c.ready = d.ready /\ c.src = d.src /\ c.want = d.want
    /\ c.hpre = d.hpre /\ c.ppre1 = d.ppre1 /\ c.latency = d.latency

\* What the handlers need is there while main only sets the clock.
LEMMA SameHandlers ==
    ASSUME StartOK, main' \in MainStates, main' # "check", main' \notin AfterMaster,
           "SETTINGS" \in made' \/ main' = "static", made \subseteq made',
           made' \subseteq made \cup {"SETTINGS"},
           UNCHANGED <<irq, task, queue>>, main \notin AfterMaster,
           mode' = mode \/ main = "check"
    PROVE  (MainFirst /\ CountersFirst /\ UsbFirst)'
<1>1. \A t \in Tasks : task[t] = "none"
  BY DEF StartOK, MainFirst, WithTasks, AfterMaster
<1> QED
  BY <1>1 DEF StartOK, MainFirst, CountersFirst, UsbFirst, MainStates, AfterMaster, Tasks

LEMMA ModeNewKeeps ==
    ASSUME StartOK, TypeOK', ModeNew
    PROVE  StartOK'
<1>1. /\ main = "check" /\ main' = "static" /\ UNCHANGED <<made, irq, task, queue>>
      /\ queue = 0 /\ clk' = [clk EXCEPT !.pwren = TRUE] /\ clk \in ClockType
      /\ cable' \in BOOLEAN
  BY DEF ModeNew, Go, NewHighPerformance, NewRecorder, NewMode, StartOK, MainFirst,
         StartupTypeOK, IsUsbConnected
<1>2. (clk \in ClockType)' /\ clk'.pwren
        /\ SameClock(clk', clk) /\ clk'.lpr = clk.lpr /\ clk'.usb = clk.usb
  <2>1. (clk \in ClockType)'
    BY <1>1, ClockTyped DEF Writable
  <2>2. clk'.pwren
    BY <1>1 DEF ClockType, SameClock
  <2>3. SameClock(clk', clk)
    BY <1>1 DEF ClockType, SameClock
  <2>4. clk'.lpr = clk.lpr /\ clk'.usb = clk.usb
    BY <1>1 DEF ClockType, SameClock
  <2> QED BY <2>1, <2>2, <2>3, <2>4
<1>3. StartupTypeOK'
  BY <1>1, <1>2 DEF StartOK, StartupTypeOK, Capacity
<1>4. ClockSteps'
  BY <1>1, <1>2 DEF StartOK, ClockSteps, Slow, RunsFrom, AfterMaster, SameClock
<1>5. (MainFirst /\ CountersFirst /\ UsbFirst)'
  BY <1>1, SameHandlers DEF MainStates, AfterMaster
<1> QED
  BY <1>3, <1>4, <1>5 DEF StartOK

LEMMA IniStaticKeeps ==
    ASSUME StartOK, TypeOK', IniStatic
    PROVE  StartOK'
<1>1. /\ main = "static" /\ made' = made \cup {"SETTINGS"}
      /\ main' = IF mode = "high" THEN "pll" ELSE "hse"
      /\ UNCHANGED <<mode, cable, clk, irq, task, queue>> /\ mode \in {"recorder", "high"}
  BY DEF IniStatic, Go, vars, StartOK, StartupTypeOK, TypeOK
<1>2. StartupTypeOK'
  BY <1>1 DEF StartOK, StartupTypeOK, Capacity, Statics
<1>3. ClockSteps'
  BY <1>1 DEF StartOK, ClockSteps, Slow, RunsFrom, AfterMaster
<1>4. (MainFirst /\ CountersFirst /\ UsbFirst)'
  BY <1>1, SameHandlers DEF MainStates, AfterMaster
<1> QED
  BY <1>2, <1>3, <1>4 DEF StartOK

LEMMA HighFreezeKeeps ==
    ASSUME StartOK, TypeOK', HighFreeze
    PROVE  StartOK'
<1>1. /\ main = "pll" /\ main' = "usb48"
      /\ UNCHANGED <<mode, cable, made, irq, task, queue>>
      /\ clk' = [clk EXCEPT !.ready = {"hse", "pll"}, !.src = "pll", !.want = "pll",
                            !.hpre = 1, !.ppre1 = 1, !.latency = 4]
      /\ clk \in ClockType
  BY Frequencies DEF HighFreeze, Go, vars, StartOK, StartupTypeOK
<1>2. (clk \in ClockType)'
  <2>1. /\ {"hse", "pll"} \in SUBSET Sources /\ "pll" \in Sources /\ "hse" \in Sources
        /\ 1 \in 1..512 /\ 8 \in 1..512 /\ 1 \in 1..16 /\ 0 \in 0..4 /\ 4 \in 0..4
    BY DEF Sources
  <2> QED
    BY <1>1, <2>1, ClockTyped DEF Writable
<1>3. StartupTypeOK'
  BY <1>1, <1>2 DEF StartOK, StartupTypeOK, Capacity
<1>4. /\ clk'.ready = {"hse", "pll"} /\ clk'.src = "pll" /\ clk'.want = "pll" /\ clk'.hpre = 1
      /\ clk'.ppre1 = 1 /\ clk'.latency = 4 /\ clk'.lpr = clk.lpr /\ clk'.usb = clk.usb
  BY <1>1 DEF ClockType
<1>5. ClockSteps'
  BY <1>1, <1>4 DEF StartOK, ClockSteps, ForHigh, RunsFrom, AfterMaster
<1>6. (MainFirst /\ CountersFirst /\ UsbFirst)'
  BY <1>1, SameHandlers DEF MainStates, AfterMaster, StartOK, MainFirst
<1> QED
  BY <1>3, <1>5, <1>6 DEF StartOK

LEMMA ConfigureUsb48Keeps ==
    ASSUME StartOK, TypeOK', ConfigureUsb48
    PROVE  StartOK'
<1>1. /\ main = "usb48" /\ main' = "master"
      /\ UNCHANGED <<mode, cable, made, irq, task, queue>>
      /\ clk' = [clk EXCEPT !.clk48 = TRUE]
      /\ clk \in ClockType
  BY DEF ConfigureUsb48, Go, vars, StartOK, StartupTypeOK
<1>2. (clk \in ClockType)'
  BY <1>1, ClockTyped DEF Writable
<1>3. StartupTypeOK'
  BY <1>1, <1>2 DEF StartOK, StartupTypeOK, Capacity
<1>4. SameClock(clk', clk) /\ clk'.lpr = clk.lpr /\ clk'.usb = clk.usb /\ clk'.clk48
  BY <1>1 DEF ClockType, SameClock
<1>5. ClockSteps'
  BY <1>1, <1>4 DEF StartOK, ClockSteps, ForHigh, RunsFrom, AfterMaster, SameClock
<1>6. (MainFirst /\ CountersFirst /\ UsbFirst)'
  BY <1>1, SameHandlers DEF MainStates, AfterMaster, StartOK, MainFirst
<1> QED
  BY <1>3, <1>5, <1>6 DEF StartOK

LEMMA HseReadyKeeps ==
    ASSUME StartOK, TypeOK', HseReady
    PROVE  StartOK'
<1>1. /\ main = "hse" /\ main' = "dividers"
      /\ UNCHANGED <<mode, cable, made, irq, task, queue>>
      /\ clk' = [clk EXCEPT !.ready = clk.ready \cup {"hse"}]
      /\ clk \in ClockType
  BY DEF HseReady, Go, vars, StartOK, StartupTypeOK
<1>2. (clk \in ClockType)'
  <2>1. clk.ready \cup {"hse"} \in SUBSET Sources
    BY <1>1 DEF ClockType, Sources
  <2> QED
    BY <1>1, <2>1, ClockTyped DEF Writable
<1>3. StartupTypeOK'
  BY <1>1, <1>2 DEF StartOK, StartupTypeOK, Capacity
<1>4. /\ clk'.ready = clk.ready \cup {"hse"} /\ clk'.src = clk.src /\ clk'.want = clk.want
      /\ clk'.hpre = clk.hpre /\ clk'.ppre1 = clk.ppre1 /\ clk'.latency = clk.latency
      /\ clk'.pwren = clk.pwren /\ clk'.usb = clk.usb
  BY <1>1 DEF ClockType
<1>5. ClockSteps'
  BY <1>1, <1>4 DEF StartOK, ClockSteps, Slow, RunsFrom, AfterMaster
<1>6. (MainFirst /\ CountersFirst /\ UsbFirst)'
  BY <1>1, SameHandlers DEF MainStates, AfterMaster, StartOK, MainFirst
<1> QED
  BY <1>3, <1>5, <1>6 DEF StartOK

LEMMA SetDividersKeeps ==
    ASSUME StartOK, TypeOK', SetDividers
    PROVE  StartOK'
<1>1. /\ main = "dividers" /\ main' = "switch"
      /\ UNCHANGED <<mode, cable, made, irq, task, queue>>
      /\ clk' = [clk EXCEPT !.hpre = 8, !.latency = 0, !.want = "hse", !.ppre1 = 1]
      /\ clk \in ClockType
  BY Frequencies DEF SetDividers, Go, vars, StartOK, StartupTypeOK
<1>2. (clk \in ClockType)'
  <2>1. /\ {"hse", "pll"} \in SUBSET Sources /\ "pll" \in Sources /\ "hse" \in Sources
        /\ 1 \in 1..512 /\ 8 \in 1..512 /\ 1 \in 1..16 /\ 0 \in 0..4 /\ 4 \in 0..4
    BY DEF Sources
  <2> QED
    BY <1>1, <2>1, ClockTyped DEF Writable
<1>3. StartupTypeOK'
  BY <1>1, <1>2 DEF StartOK, StartupTypeOK, Capacity
<1>4. /\ clk'.ready = clk.ready /\ clk'.src = clk.src /\ clk'.want = "hse"
      /\ clk'.hpre = 8 /\ clk'.ppre1 = 1 /\ clk'.latency = 0
      /\ clk'.pwren = clk.pwren /\ clk'.usb = clk.usb
  BY <1>1 DEF ClockType
<1>5. ClockSteps'
  BY <1>1, <1>4 DEF StartOK, ClockSteps, Slow, RunsFrom, ForRecorder, AfterMaster
<1>6. (MainFirst /\ CountersFirst /\ UsbFirst)'
  BY <1>1, SameHandlers DEF MainStates, AfterMaster, StartOK, MainFirst
<1> QED
  BY <1>3, <1>5, <1>6 DEF StartOK

\* Only while main waits for the switch is another source wanted.
LEMMA SwitchSourceKeeps ==
    ASSUME StartOK, TypeOK', SwitchSource
    PROVE  StartOK'
<1>1. /\ clk.src # clk.want /\ clk' = [clk EXCEPT !.src = clk.want] /\ clk \in ClockType
      /\ UNCHANGED <<mode, cable, main, made, irq, task, queue>>
      /\ main \in MainStates /\ mode \in {"recorder", "high"}
  BY DEF SwitchSource, vars, StartOK, StartupTypeOK, TypeOK, MainStates
<1>2. main = "switch" /\ clk.want = "hse"
  BY <1>1 DEF StartOK, ClockSteps, Slow, RunsFrom, ForHigh, AfterMaster, MainStates
<1>3. (clk \in ClockType)'
  BY <1>1, <1>2, ClockTyped DEF Writable, Sources
<1>4. StartupTypeOK'
  BY <1>1, <1>3 DEF StartOK, StartupTypeOK, Capacity
<1>5. /\ clk'.ready = clk.ready /\ clk'.src = "hse" /\ clk'.want = "hse"
      /\ clk'.hpre = clk.hpre /\ clk'.ppre1 = clk.ppre1 /\ clk'.latency = clk.latency
      /\ clk'.pwren = clk.pwren /\ clk'.usb = clk.usb
  BY <1>1, <1>2 DEF ClockType
<1>6. ClockSteps'
  BY <1>1, <1>2, <1>5 DEF StartOK, ClockSteps, ForRecorder, AfterMaster
<1>7. (MainFirst /\ CountersFirst /\ UsbFirst)'
  BY <1>1 DEF StartOK, MainFirst, CountersFirst, UsbFirst
<1> QED
  BY <1>4, <1>6, <1>7 DEF StartOK

LEMMA ShutDownMsiKeeps ==
    ASSUME StartOK, TypeOK', ShutDownMsi
    PROVE  StartOK'
<1> DEFINE c == [clk EXCEPT !.ready = clk.ready \ {"msi"}]
<1>1. /\ main = "switch" /\ main' = "master" /\ clk.src = "hse"
      /\ UNCHANGED <<mode, cable, made, irq, task, queue>>
      /\ clk' = PowerWrite(c, [c EXCEPT !.lpr = TRUE])
      /\ clk \in ClockType
  BY DEF ShutDownMsi, Switched, vars, StartOK, StartupTypeOK
<1>2. clk.pwren /\ mode = "recorder"
  BY <1>1 DEF StartOK, ClockSteps
<1>3. /\ c \in ClockType /\ c.pwren /\ c.ready = clk.ready \ {"msi"} /\ c.src = clk.src
      /\ c.want = clk.want /\ c.hpre = clk.hpre /\ c.ppre1 = clk.ppre1
      /\ c.latency = clk.latency /\ c.usb = clk.usb
  <2>1. clk.ready \ {"msi"} \in SUBSET Sources
    BY <1>1 DEF ClockType, Sources
  <2>2. c \in ClockType
    BY <1>1, <2>1, ClockTyped DEF Writable
  <2> QED
    BY <1>1, <1>2, <2>2 DEF ClockType
<1> HIDE DEF c
<1>4. clk' = [c EXCEPT !.lpr = TRUE]
  BY <1>1, <1>3 DEF PowerWrite
<1>5. (clk \in ClockType)'
  BY <1>3, <1>4, ClockTyped DEF Writable
<1>6. StartupTypeOK'
  BY <1>1, <1>5 DEF StartOK, StartupTypeOK, Capacity
<1>7. SameClock(clk', c) /\ clk'.lpr /\ clk'.usb = c.usb
  BY <1>3, <1>4 DEF ClockType, SameClock
<1>8. ClockSteps'
  BY <1>1, <1>2, <1>3, <1>7
     DEF StartOK, ClockSteps, ForRecorder, RunsFrom, AfterMaster, SameClock
<1>9. (MainFirst /\ CountersFirst /\ UsbFirst)'
  BY <1>1, SameHandlers DEF MainStates, AfterMaster, StartOK, MainFirst
<1> QED
  BY <1>6, <1>8, <1>9 DEF StartOK

\* The clock tree is left alone.
LEMMA ClockLeft ==
    ASSUME StartOK, UNCHANGED <<mode, clk>>,
           \/ main' = main
           \/ main \in AfterMaster \cup {"master"} /\ main' \in AfterMaster
    PROVE  ClockSteps'
BY DEF StartOK, ClockSteps, Slow, RunsFrom, ForRecorder, ForHigh, AfterMaster

\* What a step of main or a task may do to the interrupts keeps their type.
LEMMA IrqWritten ==
    ASSUME irq \in IrqType, NEW i \in Interrupts, NEW prio \in 0..255
    PROVE  /\ [irq EXCEPT ![i].prio = prio] \in IrqType
           /\ [irq EXCEPT ![i].open = TRUE] \in IrqType
           /\ [irq EXCEPT ![i] = [open |-> TRUE, prio |-> prio]] \in IrqType
<1> DEFINE Handler == [open : BOOLEAN, prio : 0..255]
<1>1. irq[i] \in Handler
  BY DEF IrqType
<1>2. /\ [irq[i] EXCEPT !.prio = prio] \in Handler /\ [irq[i] EXCEPT !.open = TRUE] \in Handler
      /\ [open |-> TRUE, prio |-> prio] \in Handler
  BY <1>1
<1>3. irq \in [Interrupts -> Handler]
  BY DEF IrqType
<1>4. IrqType = [Interrupts -> Handler]
  BY DEF IrqType
<1> HIDE DEF Handler
<1> QED
  BY <1>2, <1>3, <1>4

LEMMA Priorities ==
    MasterCounterIrqPrio \in 0..255 /\ DmaIrqPrio \in 0..255 /\ UsbInterruptPrio \in 0..255
BY DEF MasterCounterIrqPrio, DmaIrqPrio, UsbInterruptPrio, IrqHighestPrio

LEMMA MasterInitKeeps ==
    ASSUME StartOK, TypeOK', MasterInit
    PROVE  StartOK'
<1>1. /\ main = "master" /\ main' = "storage" /\ UNCHANGED <<mode, cable, clk, task, queue>>
      /\ irq' = [irq EXCEPT !["TIM6_DAC"].prio = MasterCounterIrqPrio]
      /\ made' = made \cup {"MATSTER_COUNTER"} /\ irq \in IrqType
  BY DEF MasterInit, Go, SetPriority, vars, StartOK, StartupTypeOK, IrqType
<1>2. (irq \in IrqType)'
  BY <1>1, IrqWritten, Priorities DEF Interrupts
<1>3. /\ irq'["TIM6_DAC"].prio = MasterCounterIrqPrio
      /\ irq'["TIM6_DAC"].open = irq["TIM6_DAC"].open
      /\ irq'["DMA1_CH6"] = irq["DMA1_CH6"] /\ irq'["DMA1_CH2"] = irq["DMA1_CH2"]
      /\ irq'["USB_FS"] = irq["USB_FS"]
  BY <1>1 DEF IrqType, Interrupts
<1>4. StartupTypeOK'
  BY <1>1, <1>2 DEF StartOK, StartupTypeOK, Capacity, IrqType, Statics, Static, Interrupts
<1>5. ClockSteps'
  BY <1>1, ClockLeft DEF AfterMaster
<1>6. (MainFirst /\ CountersFirst /\ UsbFirst)'
  BY <1>1, <1>3 DEF StartOK, MainFirst, CountersFirst, UsbFirst, AfterMaster, WithTasks
<1> QED
  BY <1>4, <1>5, <1>6 DEF StartOK

LEMMA BringUpFlashKeeps ==
    ASSUME StartOK, TypeOK', BringUpFlash
    PROVE  StartOK'
<1>1. /\ main = "storage" /\ main' \in {"storage", "tasks"}
      /\ made' \in {made, made \cup {"STORAGE_IMPL"}}
      /\ UNCHANGED <<mode, cable, clk, irq, task, queue>>
  BY DEF BringUpFlash, Identify, Configure, Start
<1>2. StartupTypeOK'
  BY <1>1 DEF StartOK, StartupTypeOK, Capacity, Statics
<1>3. ClockSteps'
  BY <1>1, ClockLeft DEF AfterMaster
<1>4. (MainFirst /\ CountersFirst /\ UsbFirst)'
  BY <1>1 DEF StartOK, MainFirst, CountersFirst, UsbFirst, AfterMaster, WithTasks
<1> QED
  BY <1>2, <1>3, <1>4 DEF StartOK

LEMMA StartThreadsKeeps ==
    ASSUME StartOK, TypeOK', StartThreads
    PROVE  StartOK'
<1>1. /\ main = "tasks" /\ main' \in {"channels", "scheduler"}
      /\ UNCHANGED <<mode, cable, clk, made, irq, queue>>
      /\ task \in [Tasks -> TaskStates]
      /\ \A t \in Tasks : task[t] = "none"
  BY DEF StartThreads, HighThreads, RecorderThreads, Go, vars, StartOK, StartupTypeOK, TaskStates,
         MainFirst, WithTasks
<1>2. /\ task' \in [Tasks -> TaskStates]
      /\ task'["SensProc"] = "master" /\ task'["Usbd"] \in {"none", "bus"}
      /\ task'["Usbd"] = "bus" => mode = "high"
  BY <1>1 DEF StartThreads, HighThreads, RecorderThreads, Tasks, TaskStates
<1>3. StartupTypeOK'
  BY <1>1, <1>2 DEF StartOK, StartupTypeOK, Capacity, TaskStates
<1>4. ClockSteps'
  BY <1>1, ClockLeft DEF AfterMaster
<1>5. (MainFirst /\ CountersFirst /\ UsbFirst)'
  BY <1>1, <1>2 DEF StartOK, MainFirst, CountersFirst, UsbFirst, AfterMaster, WithTasks
<1> QED
  BY <1>3, <1>4, <1>5 DEF StartOK

LEMMA SchedulerKeeps ==
    ASSUME StartOK, TypeOK', EnableSelectedChannels \/ StartScheduler
    PROVE  StartOK'
<1>1. /\ main \in {"channels", "scheduler"} /\ main' \in {"channels", "scheduler", "run"}
      /\ UNCHANGED <<mode, cable, clk, made, irq, task>>
      /\ (queue' = queue \/ (queue' = queue + 1 /\ queue < Capacity(mode)))
      /\ queue \in 0..Capacity(mode)
  BY DEF EnableSelectedChannels, StartScheduler, Go, vars, StartOK, StartupTypeOK
<1>2. StartupTypeOK'
  <2>1. queue' \in 0..Capacity(mode)
    BY <1>1 DEF Capacity
  <2> QED
    BY <1>1, <2>1 DEF StartOK, StartupTypeOK, Capacity
<1>3. ClockSteps'
  BY <1>1, ClockLeft DEF AfterMaster
<1>4. (MainFirst /\ CountersFirst /\ UsbFirst)'
  BY <1>1 DEF StartOK, MainFirst, CountersFirst, UsbFirst, AfterMaster, WithTasks
<1> QED
  BY <1>2, <1>3, <1>4 DEF StartOK

\* The statics are lost with the tasks.
LEMMA StartupRestartKeeps ==
    ASSUME StartOK, TypeOK', StartupRestart
    PROVE  StartOK'
<1>1. /\ main' = "check" /\ clk' = ResetClock /\ made' = {} /\ irq' = ClosedIrq
      /\ task' = [t \in Tasks |-> "none"] /\ queue' = 0 /\ cable' = cable
      /\ (mode \in {"recorder", "high"})'
  BY DEF StartupRestart, TypeOK
<1>2. StartupTypeOK'
  BY <1>1 DEF StartOK, StartupTypeOK, ResetClock, ClockType, ClosedIrq, Interrupts, Capacity
<1> QED
  BY <1>1, <1>2 DEF StartOK, MainFirst, CountersFirst, UsbFirst, ClockSteps, Slow, RunsFrom,
                    ResetClock, ClosedIrq, Interrupts, Tasks, AfterMaster, WithTasks

\* The driver at work, the cable, and steps that change nothing.
LEMMA OthersKeep ==
    ASSUME StartOK, TypeOK',
           UseFlash \/ FlashTimer \/ FlashChip \/ PlugOrPull \/ UNCHANGED allVars
    PROVE  StartOK'
<1>1. UNCHANGED <<mode, main, clk, made, irq, task, queue>> /\ cable' \in {cable, ~cable}
  <2>1. CASE UseFlash
    BY <2>1 DEF UseFlash, startVars, BeginSearch, BeginWrite, BeginRead, OpenPage, Use, Select,
                MapToMem, ReadHeader, BeginWriteBlock, WriteBlock, DropAccessor, CopyPacket,
                ForgetPointer, FlashErease, Erase, BeginErase, NextDie, EndErase
  <2>2. CASE FlashTimer \/ FlashChip
    BY <2>2 DEF FlashTimer, FlashChip, SleepTimer, ChipDone, startVars
  <2>3. CASE PlugOrPull
    BY <2>3 DEF PlugOrPull, vars
  <2>4. CASE UNCHANGED allVars
    BY <2>4 DEF allVars, startVars, vars
  <2> QED
    BY <2>1, <2>2, <2>3, <2>4
<1>2. StartupTypeOK'
  BY <1>1 DEF StartOK, StartupTypeOK, Capacity
<1>3. ClockSteps'
  BY <1>1, ClockLeft
<1>4. (MainFirst /\ CountersFirst /\ UsbFirst)'
  BY <1>1 DEF StartOK, MainFirst, CountersFirst, UsbFirst
<1> QED
  BY <1>2, <1>3, <1>4 DEF StartOK

\* A task goes on, the others wait.
LEMMA TaskWent ==
    ASSUME StartOK, NEW t \in Tasks, NEW from, NEW to \in TaskStates, Step(t, from, to)
    PROVE  /\ main = "run" /\ task[t] = from /\ task'[t] = to /\ (task \in [Tasks -> TaskStates])'
           /\ \A u \in Tasks : u # t => task'[u] = task[u]
BY DEF StartOK, StartupTypeOK, Step, Runs, TaskStates

\* What is left to show of a task's step that leaves the clock tree alone.
LEMMA TaskStepTyped ==
    ASSUME StartOK, TypeOK', UNCHANGED <<mode, cable, main, clk>>, (task \in [Tasks -> TaskStates])',
           (irq \in IrqType)', made' \subseteq Statics, queue' \in 0..Capacity(mode)
    PROVE  StartupTypeOK' /\ ClockSteps'
BY ClockLeft DEF StartOK, StartupTypeOK, TaskStates, IrqType, Capacity

LEMMA StartMasterKeeps ==
    ASSUME StartOK, TypeOK', StartMaster
    PROVE  StartOK'
<1>1. main = "run" /\ "MATSTER_COUNTER" \in made
  BY DEF StartMaster, Step, Runs, StartOK, MainFirst, AfterMaster
<1>2. /\ Step("SensProc", "master", "p_callback")
      /\ irq' = [irq EXCEPT !["TIM6_DAC"].open = TRUE] /\ irq \in IrqType
      /\ UNCHANGED <<mode, cable, main, clk, made, queue>>
      /\ made \subseteq Statics /\ queue \in 0..Capacity(mode)
  BY <1>1 DEF StartMaster, Unmask, vars, StartOK, StartupTypeOK, IrqType
<1>3. /\ task'["SensProc"] = "p_callback" /\ task'["Usbd"] = task["Usbd"]
      /\ (task \in [Tasks -> TaskStates])'
  BY <1>2, TaskWent DEF Tasks, TaskStates
<1>4. (irq \in IrqType)'
  BY <1>2, IrqWritten, Priorities DEF Interrupts
<1>5. /\ irq'["TIM6_DAC"].prio = irq["TIM6_DAC"].prio
      /\ irq'["DMA1_CH6"] = irq["DMA1_CH6"] /\ irq'["DMA1_CH2"] = irq["DMA1_CH2"]
      /\ irq'["USB_FS"] = irq["USB_FS"]
  BY <1>2 DEF IrqType, Interrupts
<1>6. (MainFirst /\ CountersFirst /\ UsbFirst)'
  BY <1>1, <1>2, <1>3, <1>5
     DEF StartOK, MainFirst, CountersFirst, UsbFirst, AfterMaster, WithTasks
<1> QED
  BY <1>2, <1>3, <1>4, <1>6, TaskStepTyped DEF StartOK

LEMMA ConfigureCountersKeeps ==
    ASSUME StartOK, TypeOK', ConfigureCounters
    PROVE  StartOK'
<1>0. irq \in IrqType /\ made \subseteq Statics /\ queue \in 0..Capacity(mode)
  BY DEF StartOK, StartupTypeOK, IrqType
<1>1. CASE SetCallback("DMA1_CH6", "p_callback", "p_irq")
           \/ SetCallback("DMA1_CH2", "t_callback", "t_irq")
  <2>1. PICK i \in {"DMA1_CH6", "DMA1_CH2"} :
          /\ Step("SensProc", IF i = "DMA1_CH6" THEN "p_callback" ELSE "t_callback",
                              IF i = "DMA1_CH6" THEN "p_irq" ELSE "t_irq")
          /\ made' = made \cup {Static(i)}
          /\ UNCHANGED <<mode, cable, main, clk, irq, queue>>
    BY <1>1 DEF SetCallback, vars
  <2>2. /\ task'["SensProc"] = (IF i = "DMA1_CH6" THEN "p_irq" ELSE "t_irq")
        /\ main = "run" /\ task'["Usbd"] = task["Usbd"]
        /\ (task \in [Tasks -> TaskStates])'
    BY <2>1, TaskWent DEF Tasks, TaskStates
  <2>3. made' \subseteq Statics
    BY <1>0, <2>1 DEF Statics, Interrupts
  <2>4. (MainFirst /\ CountersFirst /\ UsbFirst)'
    BY <2>1, <2>2
       DEF StartOK, MainFirst, CountersFirst, UsbFirst, AfterMaster, WithTasks, Static
  <2> QED
    BY <1>0, <2>1, <2>2, <2>3, <2>4, TaskStepTyped DEF StartOK
<1>2. CASE OpenDma("DMA1_CH6", "p_irq", "t_callback") \/ OpenDma("DMA1_CH2", "t_irq", "targets")
  <2>1. PICK i \in {"DMA1_CH6", "DMA1_CH2"} :
          /\ Step("SensProc", IF i = "DMA1_CH6" THEN "p_irq" ELSE "t_irq",
                              IF i = "DMA1_CH6" THEN "t_callback" ELSE "targets")
          /\ irq' = [irq EXCEPT ![i] = [open |-> TRUE, prio |-> DmaIrqPrio]]
          /\ UNCHANGED <<mode, cable, main, clk, made, queue>>
    BY <1>2 DEF OpenDma, vars
  <2>2. /\ task["SensProc"] = (IF i = "DMA1_CH6" THEN "p_irq" ELSE "t_irq")
        /\ task'["SensProc"] \in {"t_callback", "targets"}
        /\ main = "run" /\ task'["Usbd"] = task["Usbd"]
        /\ (task \in [Tasks -> TaskStates])'
    BY <2>1, TaskWent DEF Tasks, TaskStates
  <2>3. (irq \in IrqType)'
    BY <1>0, <2>1, IrqWritten, Priorities DEF Interrupts
  <2>4. /\ irq'[i] = [open |-> TRUE, prio |-> DmaIrqPrio]
        /\ \A j \in Interrupts : j # i => irq'[j] = irq[j]
    BY <1>0, <2>1 DEF IrqType, Interrupts
  <2>5. irq'["TIM6_DAC"] = irq["TIM6_DAC"] /\ irq'["USB_FS"] = irq["USB_FS"]
    BY <2>4 DEF Interrupts
  <2>6. (MainFirst /\ UsbFirst)'
    BY <2>1, <2>2, <2>5 DEF StartOK, MainFirst, UsbFirst, AfterMaster, WithTasks
  <2>7. CountersFirst'
    BY <2>1, <2>2, <2>4 DEF StartOK, CountersFirst, Interrupts
  <2> QED
    BY <1>0, <2>1, <2>2, <2>3, <2>6, <2>7, TaskStepTyped DEF StartOK
<1> QED
  BY <1>1, <1>2 DEF ConfigureCounters

\* Steps of a task that open nothing.
LEMMA TasksGoOn ==
    ASSUME StartOK, TypeOK', InitialTargets \/ ReceiveCommand \/ StartDelayOver
    PROVE  StartOK'
<1>0. /\ irq \in IrqType /\ made \subseteq Statics /\ queue \in 0..Capacity(mode)
      /\ task \in [Tasks -> TaskStates]
  BY DEF StartOK, StartupTypeOK, IrqType, TaskStates
<1>1. UNCHANGED <<mode, cable, main, clk, made, irq>>
  BY DEF InitialTargets, ReceiveCommand, StartDelayOver, vars
<1>2. main = "run" /\ "SETTINGS" \in made
  BY DEF InitialTargets, ReceiveCommand, StartDelayOver, Step, Runs, StartOK, MainFirst
<1>3. /\ (task \in [Tasks -> TaskStates])' /\ task'["Usbd"] = task["Usbd"]
      /\ (task'["SensProc"] = task["SensProc"] \/ task'["SensProc"] = "loop")
  <2>1. CASE InitialTargets
    <3>1. Step("SensProc", "targets", "loop")
      BY <1>2, <2>1 DEF InitialTargets
    <3> QED
      BY <3>1, TaskWent DEF Tasks, TaskStates
  <2>2. CASE ReceiveCommand
    BY <1>0, <2>2 DEF ReceiveCommand
  <2>3. CASE StartDelayOver
    <3>1. Step("RecCtrl", "delay", "loop")
      BY <2>3 DEF StartDelayOver
    <3> QED
      BY <3>1, TaskWent DEF Tasks, TaskStates
  <2> QED
    BY <2>1, <2>2, <2>3
<1>4. queue' \in 0..Capacity(mode)
  BY <1>0 DEF InitialTargets, ReceiveCommand, StartDelayOver, Capacity
<1>5. (MainFirst /\ CountersFirst /\ UsbFirst)'
  BY <1>1, <1>2, <1>3 DEF StartOK, MainFirst, CountersFirst, UsbFirst, AfterMaster, WithTasks
<1> QED
  BY <1>0, <1>1, <1>3, <1>4, <1>5, TaskStepTyped DEF StartOK

LEMMA UsbThreadKeeps ==
    ASSUME StartOK, TypeOK', RegisterUsbd \/ BuildDevice \/ StartProtobuf \/ FirstWait
    PROVE  StartOK'
<1>0. /\ irq \in IrqType /\ made \subseteq Statics /\ queue \in 0..Capacity(mode)
      /\ task \in [Tasks -> TaskStates] /\ UNCHANGED <<mode, cable, main, clk, queue>>
  BY DEF StartOK, StartupTypeOK, IrqType, TaskStates, RegisterUsbd, BuildDevice, StartProtobuf,
         FirstWait, vars
<1>1. CASE RegisterUsbd
  <2>1. Step("Usbd", "bus", "enable") /\ made' = made \cup {"USBD_THREAD"} /\ irq' = irq
    BY <1>1 DEF RegisterUsbd
  <2>2. /\ task["Usbd"] = "bus" /\ task'["Usbd"] = "enable"
        /\ main = "run" /\ task'["SensProc"] = task["SensProc"]
        /\ (task \in [Tasks -> TaskStates])'
    BY <2>1, TaskWent DEF Tasks, TaskStates
  <2>3. made' \subseteq Statics
    BY <1>0, <2>1 DEF Statics, Interrupts, Static
  <2>4. (MainFirst /\ CountersFirst /\ UsbFirst)'
    BY <1>0, <2>1, <2>2 DEF StartOK, MainFirst, CountersFirst, UsbFirst, AfterMaster, WithTasks
  <2> QED
    BY <1>0, <2>1, <2>2, <2>3, <2>4, TaskStepTyped DEF StartOK
<1>2. CASE BuildDevice
  <2>1. Step("Usbd", "build", "protobuf") /\ made' = made
          /\ irq' = [irq EXCEPT !["USB_FS"].prio = UsbInterruptPrio]
    BY <1>2 DEF BuildDevice, SetPriority
  <2>2. /\ task["Usbd"] = "build" /\ task'["Usbd"] = "protobuf"
        /\ main = "run" /\ task'["SensProc"] = task["SensProc"]
        /\ (task \in [Tasks -> TaskStates])'
    BY <2>1, TaskWent DEF Tasks, TaskStates
  <2>3. (irq \in IrqType)'
    BY <1>0, <2>1, IrqWritten, Priorities DEF Interrupts
  <2>4. /\ irq'["USB_FS"].prio = UsbInterruptPrio /\ irq'["USB_FS"].open = irq["USB_FS"].open
        /\ irq'["TIM6_DAC"] = irq["TIM6_DAC"] /\ irq'["DMA1_CH6"] = irq["DMA1_CH6"]
        /\ irq'["DMA1_CH2"] = irq["DMA1_CH2"]
    BY <1>0, <2>1 DEF IrqType, Interrupts
  <2>5. (MainFirst /\ CountersFirst /\ UsbFirst)'
    BY <1>0, <2>1, <2>2, <2>4
       DEF StartOK, MainFirst, CountersFirst, UsbFirst, AfterMaster, WithTasks
  <2> QED
    BY <1>0, <2>1, <2>2, <2>3, <2>5, TaskStepTyped DEF StartOK
<1>3. CASE StartProtobuf
  <2>1. /\ task["Usbd"] = "protobuf" /\ main = "run" /\ made' = made /\ irq' = irq
        /\ task' = [task EXCEPT !["Usbd"] = "wait", !["Protobuf"] = "loop"]
    BY <1>3 DEF StartProtobuf, Runs
  <2>2. /\ task'["Usbd"] = "wait" /\ task'["SensProc"] = task["SensProc"]
        /\ (task \in [Tasks -> TaskStates])'
    BY <1>0, <2>1 DEF Tasks, TaskStates
  <2>3. (MainFirst /\ CountersFirst /\ UsbFirst)'
    BY <1>0, <2>1, <2>2 DEF StartOK, MainFirst, CountersFirst, UsbFirst, AfterMaster, WithTasks
  <2> QED
    BY <1>0, <2>1, <2>2, <2>3, TaskStepTyped DEF StartOK
<1>4. CASE FirstWait
  <2>1. Step("Usbd", "wait", "loop") /\ made' = made /\ irq' = [irq EXCEPT !["USB_FS"].open = TRUE]
    BY <1>4 DEF FirstWait, Unmask
  <2>2. /\ task["Usbd"] = "wait" /\ task'["Usbd"] = "loop"
        /\ main = "run" /\ task'["SensProc"] = task["SensProc"]
        /\ (task \in [Tasks -> TaskStates])'
    BY <2>1, TaskWent DEF Tasks, TaskStates
  <2>3. (irq \in IrqType)'
    BY <1>0, <2>1, IrqWritten, Priorities DEF Interrupts
  <2>4. /\ irq'["USB_FS"].prio = irq["USB_FS"].prio
        /\ irq'["TIM6_DAC"] = irq["TIM6_DAC"] /\ irq'["DMA1_CH6"] = irq["DMA1_CH6"]
        /\ irq'["DMA1_CH2"] = irq["DMA1_CH2"]
    BY <1>0, <2>1 DEF IrqType, Interrupts
  <2>5. (MainFirst /\ CountersFirst /\ UsbFirst)'
    BY <1>0, <2>1, <2>2, <2>4
       DEF StartOK, MainFirst, CountersFirst, UsbFirst, AfterMaster, WithTasks
  <2> QED
    BY <1>0, <2>1, <2>2, <2>3, <2>5, TaskStepTyped DEF StartOK
<1> QED
  BY <1>1, <1>2, <1>3, <1>4

\* The power control has its clock before the supply is declared valid.
LEMMA UsbEnableKeeps ==
    ASSUME StartOK, TypeOK', UsbEnable
    PROVE  StartOK'
<1> DEFINE c == [clk EXCEPT !.pwren = TRUE]
           v == [c EXCEPT !.usv = TRUE]
<1>1. /\ Step("Usbd", "enable", "build") /\ clk' = [PowerWrite(c, v) EXCEPT !.usb = TRUE]
      /\ UNCHANGED <<mode, cable, main, made, irq, queue>>
      /\ clk \in ClockType
  BY DEF UsbEnable, vars, StartOK, StartupTypeOK
<1>2. /\ task["Usbd"] = "enable" /\ task'["Usbd"] = "build" /\ main = "run"
      /\ task'["SensProc"] = task["SensProc"] /\ (task \in [Tasks -> TaskStates])'
  BY <1>1, TaskWent DEF Tasks, TaskStates
<1>3. mode = "high" /\ ForHigh /\ clk.clk48
  BY <1>2 DEF StartOK, UsbFirst, ClockSteps, AfterMaster
<1>4. c \in ClockType /\ v \in ClockType
  BY <1>1, ClockTyped DEF Writable
<1>5. c.pwren /\ SameClock(c, clk) /\ c.clk48 = clk.clk48 /\ c.lpr = clk.lpr
  BY <1>1 DEF ClockType, SameClock
<1> HIDE DEF c
<1>6. v.usv /\ SameClock(v, clk) /\ v.clk48 = clk.clk48 /\ v.lpr = clk.lpr
  BY <1>4, <1>5 DEF ClockType, SameClock
<1> HIDE DEF v
<1>7. clk' = [v EXCEPT !.usb = TRUE]
  BY <1>1, <1>5 DEF PowerWrite
<1>8. (clk \in ClockType)'
  BY <1>4, <1>7, ClockTyped DEF Writable
<1>9. clk'.usv /\ SameClock(clk', clk) /\ clk'.clk48 = clk.clk48 /\ clk'.lpr = clk.lpr
  BY <1>4, <1>6, <1>7 DEF ClockType, SameClock
<1>10. StartupTypeOK'
  BY <1>1, <1>2, <1>8 DEF StartOK, StartupTypeOK, Capacity, TaskStates
<1>11. ClockSteps'
  BY <1>1, <1>2, <1>3, <1>9 DEF ClockSteps, ForHigh, RunsFrom, SameClock, AfterMaster
<1>12. (MainFirst /\ CountersFirst /\ UsbFirst)'
  BY <1>1, <1>2 DEF StartOK, MainFirst, CountersFirst, UsbFirst, AfterMaster, WithTasks
<1> QED
  BY <1>10, <1>11, <1>12 DEF StartOK

LEMMA StartStep == StartOK /\ TypeOK' /\ [StartupNext]_allVars => StartOK'
<1> SUFFICES ASSUME StartOK, TypeOK', [StartupNext]_allVars
             PROVE  StartOK'
  OBVIOUS
<1>1. CASE Main
  BY <1>1, ModeNewKeeps, IniStaticKeeps, HighFreezeKeeps, ConfigureUsb48Keeps, HseReadyKeeps,
     SetDividersKeeps, ShutDownMsiKeeps, MasterInitKeeps, BringUpFlashKeeps, StartThreadsKeeps,
     SchedulerKeeps
     DEF Main
<1>2. CASE SwitchSource
  BY <1>2, SwitchSourceKeeps
<1>3. CASE TaskSetup
  BY <1>3, StartMasterKeeps, ConfigureCountersKeeps, TasksGoOn, UsbThreadKeeps, UsbEnableKeeps
     DEF TaskSetup
<1>4. CASE StartupRestart
  BY <1>4, StartupRestartKeeps
<1>5. CASE UseFlash \/ FlashTimer \/ FlashChip \/ PlugOrPull \/ UNCHANGED allVars
  BY <1>5, OthersKeep
<1> QED
  BY <1>1, <1>2, <1>3, <1>4, <1>5 DEF StartupNext

LEMMA StartKeeps == StartupSpec => [](TypeOK /\ StartOK)
<1>1. StartupSpec => []TypeOK
  BY DriverOfStartup, DriverKeeps, PTL DEF DriverInv
<1> QED
  BY <1>1, StartOKInit, StartStep, PTL DEF StartupSpec

\* The variables keep their types; in particular no task panics because a static it
\* takes for granted has no value, and the command queue never holds more than it
\* has room for (main.rs 45-86, master_counter.rs 60-67, sensor_processor.rs 174-208,
\* high_performance_mode.rs 440-465).
THEOREM StartupType == StartupSpec => []StartupTypeOK
BY StartKeeps, PTL DEF StartOK

\* No interrupt is opened before what its handler works on is made, nor with a
\* priority from which the kernel must not be called (usbd.rs 40-42, 82-83, 110,
\* 131-146; master_counter.rs 39-67; in_counters_l433.rs 48-50, 147-149; config.rs
\* 11-22).
THEOREM InterruptsAreServed == StartupSpec => []HandlersAreServed
BY StartKeeps, ServedAndFitting, PTL

\* At every step of either mode's start-up the core has a clock that runs and wait
\* states that fit, and the reference counter has the frequency that time stamps
\* and measured frequencies assume (recorder_mode.rs 33-68, 160-306, 526-531;
\* high_performance_mode.rs 26-70, 252-316; usb_periph.rs 32-89).
THEOREM ClockFits == StartupSpec => []ClockTreeFits
BY StartKeeps, ServedAndFitting, PTL

=============================================================================
