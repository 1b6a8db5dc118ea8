------------------------------ MODULE Startup ------------------------------
(***************************************************************************)
(* From reset to running tasks.  The USB supply decides the work mode; the *)
(* mode sets up clocks, statics, storage and tasks while the kernel keeps  *)
(* interrupts masked, starts the scheduler, and each task finishes its own *)
(* setup in the order of the priorities.  The flash driver is the one of   *)
(* FlashDriver: it is brought up on the way, and used once the task that   *)
(* uses it has come to its loop.  The controller may restart at any step,  *)
(* the cable may come and go at any step.                                  *)
(* Frequencies are in MHz.                                                 *)
(***************************************************************************)
EXTENDS FlashDriver

VARIABLES
    cable,  \* the USB supply is there
    main,   \* where the main function is
    clk,    \* clock tree and power control, see ClockType
    made,   \* statics that have been given their value
    irq,    \* interrupt -> [open : unmasked, prio : of its handler]
    task,   \* task -> where it is
    queue   \* commands in the queue of the sensor thread

startVars == <<cable, main, clk, made, irq, task, queue>>
allVars == <<vars, startVars>>

Interrupts == {"TIM6_DAC", "DMA1_CH6", "DMA1_CH2", "USB_FS"}
Tasks == {"SensProc", "RecCtrl", "Usbd", "Protobuf"}

\* The static a handler works on.
Static(i) ==
    CASE i = "TIM6_DAC" -> "MATSTER_COUNTER"
      [] i = "DMA1_CH6" -> "DMA1_CH6_CB"
      [] i = "DMA1_CH2" -> "DMA1_CH2_CB"
      [] i = "USB_FS"   -> "USBD_THREAD"

Statics == {Static(i) : i \in Interrupts} \cup {"SETTINGS", "STORAGE_IMPL"}

-----------------------------------------------------------------------------
(* Numbers *)

Xtal == 24
FreeRtosFreq == 3
PllCfg == <<6, 40, 2>>
Apb1Devider == 1

IrqHighestPrio == 80
DmaIrqPrio == IrqHighestPrio + 5
MasterCounterIrqPrio == IrqHighestPrio + 10
UsbInterruptPrio == MasterCounterIrqPrio + 1

\* The core keeps the upper four bits of a priority.
Level(prio) == prio \div 16

\* A plausible slip: fewer places than channels to start.
Capacity_Short(m) == IF m = "high" THEN 3 ELSE 40

Capacity(m) == IF m = "high" THEN 15 ELSE 40

BootCommands == 4

\* ClockConfigProvider of each mode.
CoreFrequency(m) ==
    IF m = "high" THEN (Xtal * PllCfg[2]) \div (PllCfg[1] * PllCfg[3]) ELSE FreeRtosFreq

MasterCounterFrequency(m) ==
    LET apb1 == CoreFrequency(m) \div Apb1Devider
    IN IF Apb1Devider > 1 THEN 2 * apb1 ELSE apb1

\* The factor from the crystal to the reference counter, as a quotient.
RecorderMultiplier == <<IF Apb1Devider > 1 THEN 2 ELSE 1, Xtal \div FreeRtosFreq>>
HighMultiplier ==
    <<PllCfg[2] * (IF Apb1Devider > 1 THEN 2 ELSE 1),
      PllCfg[1] * PllCfg[3] * Apb1Devider>>
Xtal2MasterMultiplier(m) == IF m = "high" THEN HighMultiplier ELSE RecorderMultiplier

\* Dividers that freeze picks for a wanted ratio.
AhbDivider(ratio) ==
    CASE ratio = 1 -> 1        [] ratio = 2 -> 2         [] ratio \in 3..5 -> 4
      [] ratio \in 6..11 -> 8  [] ratio \in 12..39 -> 16 [] ratio \in 40..95 -> 64
      [] ratio \in 96..191 -> 128 [] ratio \in 192..383 -> 256 [] ratio > 383 -> 512

ApbDivider(ratio) ==
    CASE ratio = 1 -> 1        [] ratio = 2 -> 2         [] ratio \in 3..5 -> 4
      [] ratio \in 6..11 -> 8  [] ratio > 11 -> 16

WaitStates(hclk) ==
    CASE hclk <= 16 -> 0 [] hclk \in 17..32 -> 1 [] hclk \in 33..48 -> 2
      [] hclk \in 49..64 -> 3 [] hclk > 64 -> 4

-----------------------------------------------------------------------------
(* The clock tree as it stands *)

ClockType ==
    [ ready : SUBSET {"msi", "hse", "pll"}, src : {"msi", "hse", "pll"},
      want : {"msi", "hse", "pll"}, hpre : 1..512, ppre1 : 1..16, latency : 0..4,
      pwren : BOOLEAN,              \* clock of the power control
      lpr : BOOLEAN,                \* low-power run
      clk48 : BOOLEAN,              \* PLLSAI1Q is the 48 MHz clock
      usv : BOOLEAN, usb : BOOLEAN ]    \* USB supply valid, USB clocked

ResetClock ==
    [ ready |-> {"msi"}, src |-> "msi", want |-> "msi", hpre |-> 1, ppre1 |-> 1,
      latency |-> 0, pwren |-> FALSE, lpr |-> FALSE, clk48 |-> FALSE,
      usv |-> FALSE, usb |-> FALSE ]

SourceFrequency(src) ==
    CASE src = "msi" -> 4
      [] src = "hse" -> Xtal
      [] src = "pll" -> (Xtal * PllCfg[2]) \div (PllCfg[1] * PllCfg[3])

Core(c) == SourceFrequency(c.src) \div c.hpre
TimerClock(c) ==
    IF c.ppre1 > 1 THEN 2 * (Core(c) \div c.ppre1) ELSE Core(c)

\* A write to the power control is lost while it has no clock.
PowerWrite(c, written) == IF c.pwren THEN written ELSE c

-----------------------------------------------------------------------------
(* main *)

ClosedIrq == [i \in Interrupts |-> [open |-> FALSE, prio |-> 0]]

StartupInit ==
    /\ Init
    /\ cable \in BOOLEAN /\ main = "check" /\ clk = ResetClock /\ made = {}
    /\ irq = ClosedIrq /\ task = [t \in Tasks |-> "none"] /\ queue = 0

Go(from, to) == main = from /\ main' = to

\* is_usb_connected: the supply monitor is read up to three times, and the first
\* read that sees the supply is the last.  The power control is left as it was.
IsUsbConnected == cable' \in {cable, TRUE}

\* The mode is made: pins with the generators off, DMA channels, mutexes, the
\* command queue; the power control gets its clock and the flash is reset.
NewMode(m) ==
    /\ mode' = m
    /\ CreateQspi
    /\ clk' = [clk EXCEPT !.pwren = TRUE]
    /\ UNCHANGED <<made, irq, task, queue>>

NewHighPerformance == cable' /\ NewMode("high")
NewRecorder == ~cable' /\ NewMode("recorder")

ModeNew ==
    /\ Go("check", "static")
    /\ IsUsbConnected
    /\ NewHighPerformance \/ NewRecorder

IniStatic ==
    /\ Go("static", IF mode = "high" THEN "pll" ELSE "hse")
    /\ made' = made \cup {"SETTINGS"}
    /\ UNCHANGED <<vars, cable, clk, irq, task, queue>>

\* freeze of the library: crystal and PLL run before the core moves to them.
HighFreeze ==
    /\ Go("pll", "usb48")
    /\ clk' = [clk EXCEPT !.ready = {"hse", "pll"}, !.src = "pll", !.want = "pll",
                          !.hpre = AhbDivider(1),
                          !.ppre1 = ApbDivider(CoreFrequency("high") \div
                                      (CoreFrequency("high") \div Apb1Devider)),
                          !.latency = WaitStates(CoreFrequency("high"))]
    /\ UNCHANGED <<vars, cable, made, irq, task, queue>>

\* The wait after PLLSAI1 is switched on ends at once, before it is ready.
ConfigureUsb48 ==
    /\ Go("usb48", "master")
    /\ clk' = [clk EXCEPT !.clk48 = TRUE]
    /\ UNCHANGED <<vars, cable, made, irq, task, queue>>

\* freeze of the recorder: the crystal is waited for ...
HseReady ==
    /\ Go("hse", "dividers")
    /\ clk' = [clk EXCEPT !.ready = @ \cup {"hse"}]
    /\ UNCHANGED <<vars, cable, made, irq, task, queue>>

\* ... wait states, dividers and the source are written ...
SetDividers ==
    /\ Go("dividers", "switch")
    /\ LET hpre == AhbDivider(Xtal \div FreeRtosFreq)
           hclk == Xtal \div hpre
       IN clk' = [clk EXCEPT !.hpre = hpre, !.latency = WaitStates(hclk), !.want = "hse",
                             !.ppre1 = ApbDivider(hclk \div (FreeRtosFreq \div Apb1Devider))]
    /\ UNCHANGED <<vars, cable, made, irq, task, queue>>

\* The hardware moves to the source when it can.
SwitchSource ==
    /\ clk.src # clk.want
    /\ clk' = [clk EXCEPT !.src = clk.want]
    /\ UNCHANGED <<vars, cable, main, made, irq, task, queue>>

\* A plausible slip: the old source is switched off without a look at the new.
Switched_Unread == main = "switch"

Switched == main = "switch" /\ clk.src = "hse"

\* ... and MSI is shut down, low-power run switched on.
ShutDownMsi ==
    /\ Switched /\ main' = "master"
    /\ clk' = LET c == [clk EXCEPT !.ready = @ \ {"msi"}]
              IN PowerWrite(c, [c EXCEPT !.lpr = TRUE])
    /\ UNCHANGED <<vars, cable, made, irq, task, queue>>

SetPriority(i, prio) == irq' = [irq EXCEPT ![i].prio = prio]
Unmask(i) == irq' = [irq EXCEPT ![i].open = TRUE]

MasterInit ==
    /\ Go("master", "storage")
    /\ SetPriority("TIM6_DAC", MasterCounterIrqPrio)
    /\ made' = made \cup {"MATSTER_COUNTER"}
    /\ UNCHANGED <<vars, cable, clk, task, queue>>

\* main_data_storage::init: the driver is brought up and the pages are looked
\* through.  An unknown chip leaves the storage blocked.
BringUpFlash ==
    /\ main = "storage"
    /\ Identify \/ Configure \/ Start
    /\ made' = IF boot' = "run" THEN made \cup {"STORAGE_IMPL"} ELSE made
    /\ main' = IF boot' \in {"run", "blocked"} THEN "tasks" ELSE main
    /\ UNCHANGED <<cable, clk, irq, task, queue>>

\* The tasks of the mode.
HighThreads ==
    /\ mode = "high" /\ Go("tasks", "channels")
    /\ task' = [task EXCEPT !["Usbd"] = "bus", !["SensProc"] = "master"]

RecorderThreads ==
    /\ mode = "recorder" /\ Go("tasks", "scheduler")
    /\ task' = [task EXCEPT !["RecCtrl"] = "delay", !["SensProc"] = "master"]

StartThreads ==
    /\ HighThreads \/ RecorderThreads
    /\ UNCHANGED <<vars, cable, clk, made, irq, queue>>

\* A command for each channel, sent with SETTINGS held and without a limit.
EnableSelectedChannels ==
    /\ main = "channels" /\ queue < Capacity(mode)
    /\ queue' = queue + 1
    /\ main' = IF queue' = BootCommands THEN "scheduler" ELSE main
    /\ UNCHANGED <<vars, cable, clk, made, irq, task>>

StartScheduler ==
    /\ Go("scheduler", "run")
    /\ UNCHANGED <<vars, cable, clk, made, irq, task, queue>>

Main ==
    \/ ModeNew \/ IniStatic \/ HighFreeze \/ ConfigureUsb48
    \/ HseReady \/ SetDividers \/ ShutDownMsi \/ MasterInit
    \/ BringUpFlash \/ StartThreads \/ EnableSelectedChannels \/ StartScheduler

-----------------------------------------------------------------------------
(* The tasks *)

Prio(t) ==
    CASE t = "SensProc" -> 8 [] t = "RecCtrl" -> 4 [] t = "Usbd" -> 3 [] t = "Protobuf" -> 2

\* A task waits for a command, for a time to pass or for an event.
Waits(t) ==
    \/ task[t] \in {"none", "delay"}
    \/ task[t] = "loop" /\ (t = "SensProc" => queue = 0)

\* The cpu: the scheduler runs, no task of higher priority can, and nobody spins
\* with interrupts masked.
Runs(t) ==
    /\ main = "run"
    /\ \A u \in Tasks : Prio(u) > Prio(t) => Waits(u)
    /\ task["Usbd"] = "enable" => t = "Usbd"

Step(t, from, to) == Runs(t) /\ task[t] = from /\ task' = [task EXCEPT ![t] = to]

\* sensor_processor: the reference counter is started, ...
StartMaster ==
    /\ Step("SensProc", "master",
            IF "MATSTER_COUNTER" \in made THEN "p_callback" ELSE "panic")
    /\ Unmask("TIM6_DAC")
    /\ UNCHANGED <<vars, cable, main, clk, made, queue>>

\* A plausible slip: the interrupt is unmasked before its handler has something
\* to call.
SetCallback_Late(i, from, to) ==
    /\ Step("SensProc", from, to)
    /\ Unmask(i) /\ UNCHANGED made
    /\ UNCHANGED <<vars, cable, main, clk, queue>>

\* ... and configure of each counter leaves its callback, ...
SetCallback(i, from, to) ==
    /\ Step("SensProc", from, to)
    /\ made' = made \cup {Static(i)}
    /\ UNCHANGED <<vars, cable, main, clk, irq, queue>>

\* ... then the priority, and opens the interrupt.
OpenDma(i, from, to) ==
    /\ Step("SensProc", from, to)
    /\ irq' = [irq EXCEPT ![i] = [open |-> TRUE, prio |-> DmaIrqPrio]]
    /\ UNCHANGED <<vars, cable, main, clk, made, queue>>

ConfigureCounters ==
    \/ SetCallback("DMA1_CH6", "p_callback", "p_irq")
    \/ OpenDma("DMA1_CH6", "p_irq", "t_callback")
    \/ SetCallback("DMA1_CH2", "t_callback", "t_irq")
    \/ OpenDma("DMA1_CH2", "t_irq", "targets")

\* The initial targets need the settings.
InitialTargets ==
    /\ Step("SensProc", "targets", IF "SETTINGS" \in made THEN "loop" ELSE "panic")
    /\ UNCHANGED <<vars, cable, main, clk, made, irq, queue>>

\* What a command does is in SensorProcessor.
ReceiveCommand ==
    /\ Runs("SensProc") /\ task["SensProc"] = "loop" /\ queue > 0
    /\ queue' = queue - 1
    /\ UNCHANGED <<vars, cable, main, clk, made, irq, task>>

\* The recorder's controller waits for its start delay.
StartDelayOver ==
    /\ Step("RecCtrl", "delay", "loop")
    /\ UNCHANGED <<vars, cable, main, clk, made, irq, queue>>

\* usbd: the thread leaves its handle for the handler, ...
RegisterUsbd ==
    /\ Step("Usbd", "bus", "enable")
    /\ made' = made \cup {"USBD_THREAD"}
    /\ UNCHANGED <<vars, cable, main, clk, irq, queue>>

\* ... and enables the peripheral with interrupts masked, spinning until the
\* supply is there.
UsbEnable ==
    /\ cable
    /\ Step("Usbd", "enable", "build")
    /\ clk' = LET c == [clk EXCEPT !.pwren = TRUE]
              IN [PowerWrite(c, [c EXCEPT !.usv = TRUE]) EXCEPT !.usb = TRUE]
    /\ UNCHANGED <<vars, cable, main, made, irq, queue>>

\* The disk and the serial port are made, the interrupt gets its priority.
BuildDevice ==
    /\ Step("Usbd", "build", "protobuf")
    /\ SetPriority("USB_FS", UsbInterruptPrio)
    /\ UNCHANGED <<vars, cable, main, clk, made, queue>>

StartProtobuf ==
    /\ Runs("Usbd") /\ task["Usbd"] = "protobuf"
    /\ task' = [task EXCEPT !["Usbd"] = "wait", !["Protobuf"] = "loop"]
    /\ UNCHANGED <<vars, cable, main, clk, made, irq, queue>>

\* The first poll that brings nothing: the interrupt is opened.
FirstWait ==
    /\ Step("Usbd", "wait", "loop")
    /\ Unmask("USB_FS")
    /\ UNCHANGED <<vars, cable, main, clk, made, queue>>

TaskSetup ==
    \/ StartMaster \/ ConfigureCounters \/ InitialTargets \/ ReceiveCommand
    \/ StartDelayOver
    \/ RegisterUsbd \/ UsbEnable \/ BuildDevice \/ StartProtobuf \/ FirstWait

\* The flash is used by the task of the mode, when it has come to its loop.
FlashUser == IF mode = "high" THEN "Usbd" ELSE "RecCtrl"
InLoop(t) == main = "run" /\ task[t] = "loop"

UseFlash ==
    /\ InLoop(FlashUser)
    /\ \/ BeginSearch \/ BeginWrite \/ BeginRead \/ Use \/ CopyPacket \/ ForgetPointer
       \/ (InLoop("Protobuf") /\ FlashErease) \/ Erase
    /\ UNCHANGED startVars

\* The timer task runs with the scheduler.
FlashTimer == main = "run" /\ SleepTimer /\ UNCHANGED startVars
FlashChip == ChipDone /\ UNCHANGED startVars

-----------------------------------------------------------------------------

PlugOrPull ==
    /\ cable' = ~cable
    /\ UNCHANGED <<vars, main, clk, made, irq, task, queue>>

StartupRestart ==
    /\ main # "check"
    /\ Restart
    /\ main' = "check" /\ clk' = ResetClock /\ made' = {} /\ irq' = ClosedIrq
    /\ task' = [t \in Tasks |-> "none"] /\ queue' = 0
    /\ UNCHANGED cable

StartupNext ==
    \/ Main \/ SwitchSource \/ TaskSetup
    \/ UseFlash \/ FlashTimer \/ FlashChip
    \/ PlugOrPull \/ StartupRestart

\* The crystal starts, main and the tasks run when they can, delays pass; the
\* tasks that use the flash, the chip and the timer as in FlashDriver.
StartupSpec ==
    /\ StartupInit /\ [][StartupNext]_allVars
    /\ WF_main(Main) /\ WF_queue(Main) /\ WF_boot(Main)
    /\ WF_clk(SwitchSource) /\ WF_<<task, queue>>(TaskSetup)
    /\ WF_user(UserTurn) /\ WF_eraser(EraserTurn)
    /\ WF_vars(FlashChip) /\ WF_vars(FlashTimer)

-----------------------------------------------------------------------------
(* Properties *)

StartupTypeOK ==
    /\ TypeOK
    /\ cable \in BOOLEAN
    /\ main \in {"check", "static", "pll", "usb48", "hse", "dividers", "switch",
                 "master", "storage", "tasks", "channels", "scheduler", "run"}
    /\ clk \in ClockType /\ made \subseteq Statics
    /\ irq \in [Interrupts -> [open : BOOLEAN, prio : 0..255]]
    /\ task \in [Tasks -> {"none", "delay", "master", "p_callback", "p_irq",
                           "t_callback", "t_irq", "targets", "bus", "enable",
                           "build", "protobuf", "wait", "loop"}]
    /\ queue \in 0..Capacity(mode)

\* An interrupt that can come finds what its handler works on, and has a
\* priority from which the kernel may be called: no edge, no overflow and no USB
\* event is swallowed, and no kernel call comes from above the kernel's ceiling,
\* where the reset priority of every interrupt is (usbd.rs 40-42, 82-83, 110,
\* 131-146; master_counter.rs 39-67; in_counters_l433.rs 48-50, 147-149; config.rs
\* 11-22).
HandlersAreServed ==
    \A i \in Interrupts :
      irq[i].open => /\ Static(i) \in made
                     /\ Level(irq[i].prio) >= Level(IrqHighestPrio)

\* The core always has a clock that runs and wait states that fit it; the
\* reference counter runs at the frequency that time stamps assume and at the
\* multiple of the crystal that every measured frequency is computed with; USB is
\* enabled with its clock and its supply only (recorder_mode.rs 33-68, 160-306,
\* 526-531; high_performance_mode.rs 26-70, 252-316; usb_periph.rs 32-89).
ClockTreeFits ==
    /\ clk.src \in clk.ready
    /\ clk.latency >= WaitStates(Core(clk))
    /\ "MATSTER_COUNTER" \in made =>
         /\ TimerClock(clk) = MasterCounterFrequency(mode)
         /\ LET k == Xtal2MasterMultiplier(mode) IN TimerClock(clk) * k[2] = Xtal * k[1]
         /\ clk.lpr = (mode = "recorder")
    /\ clk.usb => clk.clk48 /\ clk.usv

\* The firmware comes up: every task of its mode is in its loop, whatever the
\* flash is, unless the controller restarts again or the cable is pulled before
\* the USB thread has enabled the peripheral (main.rs 45-86).
Up ==
    /\ InLoop("SensProc") /\ queue = 0
    /\ IF mode = "high" THEN InLoop("Usbd") /\ InLoop("Protobuf") ELSE InLoop("RecCtrl")

BootEnds == []<>(Up \/ main = "check" \/ (task["Usbd"] = "enable" /\ ~cable))
=============================================================================
