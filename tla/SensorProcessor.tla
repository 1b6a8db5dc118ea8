-------------------------- MODULE SensorProcessor --------------------------
(***************************************************************************)
(* The sensor thread of the recorder: one command queue, fed by            *)
(*   - the DMA interrupts of the two frequency-meter timers (Capture),     *)
(*   - the callbacks of the FreeRTOS software timers (Expire),             *)
(*   - the recorder controller or the protobuf thread (Clients),            *)
(*   - the sensor thread itself, which re-posts Start commands,            *)
(* and drained by the sensor thread, which drives the FreqmeterController  *)
(* of every frequency channel and the AnalogChannel of every ADC channel.  *)
(*                                                                         *)
(* Time is abstract: a capture or the expiry of an armed timer may happen  *)
(* at any moment.  A capture and the interrupt handler it raises are one   *)
(* step, because the handler preempts every task; a handler of the sensor  *)
(* thread is split where an interrupt or another task may come in between. *)
(***************************************************************************)
EXTENDS Naturals, Sequences, FiniteSets

CONSTANTS
    FChannels,        \* the frequency channels: Pressure, Temperature
    AChannels,        \* the ADC channels: TCPU, Vbat
    QueueSize,        \* capacity of the command queue (15 or 40 in the code)
    StartCount,       \* config::F_CH_START_COUNT
    HighPerformance,  \* TRUE: HighPerformanceProcessor, FALSE: RecorderProcessor
    WrapedCaptures,   \* values MasterTimerInfo::update_captured_value may flag
    CycleNames,       \* bound on the numbering of a channel's measuring cycles;
                      \* with 1 they are not told apart
    Free              \* nobody holds the settings mutex

Channels == FChannels \cup AChannels

ASSUME ConstantsAssumption ==
    /\ FChannels \cap AChannels = {}
    /\ QueueSize \in Nat \ {0}
    /\ StartCount \in Nat \ {0}
    /\ CycleNames \in Nat \ {0}
    /\ HighPerformance \in BOOLEAN
    /\ WrapedCaptures \subseteq BOOLEAN
    /\ Free \notin Channels

VARIABLES
    queue,    \* the FreeRTOS queue of commands
    cur,      \* the command the sensor thread is handling, or what is left of it
    power,    \* generator enable pin of a frequency channel
    start,    \* FreqmeterController::start
    cen, opm, \* counter-enable and one-pulse bits of the channel's timer
    cycle,    \* the cycle the timer was last started for
    first,    \* what became of the Start edge of that cycle, if cycles have names
    prev,     \* FreqmeterController::prev, as the edge whose capture it holds
    guard,    \* the channel's software timer, as the timer daemon sees it
    pend,     \* the net timer command still in the daemon's command queue
    lost,     \* the command that would revive the channel was dropped
    enabled,  \* settings: P_enabled, T_enabled, TCPUEnabled, VBatEnabled
    unsent,   \* channels enable_selected_channels has still to post
    settings  \* holder of the settings mutex: Free or the channel being enabled

hwVars    == <<cen, opm, cycle, first>>
ctrlVars  == <<power, start, prev>>
timerVars == <<guard, pend>>
userVars  == <<enabled, unsent, settings>>
vars      == <<queue, cur, hwVars, ctrlVars, timerVars, lost, userVars>>

-----------------------------------------------------------------------------
(* Commands *)

StartCmd(c, i)             == [kind |-> "Start", ch |-> c, count |-> i]
StopCmd(c)                 == [kind |-> "Stop", ch |-> c]
ReadyCmd(c, ev, w)         == [kind |-> "Ready", ch |-> c, ev |-> ev, wraped |-> w,
                               cycle |-> cycle[c], first |-> first[c]]
ReadACmd(c)                == [kind |-> "ReadA", ch |-> c]
TimeoutCmd(c)              == [kind |-> "Timeout", ch |-> c]

\* The measuring cycles of a channel are numbered round CycleNames; 0 is the
\* cycle of an edge that was never captured.
Cycles == 0 .. CycleNames

\* The fate of a Start edge: not captured yet, posted to the queue, posted with
\* the wraped flag, or dropped because the queue was full.
Fate == {"none", "posted", "wraped", "dropped"}

Command ==
    [kind : {"Start"}, ch : Channels, count : 0 .. StartCount]
      \cup [kind : {"Stop"}, ch : Channels]
      \cup [kind : {"Ready"}, ch : FChannels, ev : {"Start", "Stop"},
            wraped : BOOLEAN,
            cycle : Cycles, first : Fate]
      \cup [kind : {"ReadA"}, ch : AChannels]
      \cup [kind : {"Timeout"}, ch : FChannels]

NoCommand == [kind |-> "None"]

\* What is left of a handler after set_target: restart the channel.
FinishCmd(c) == [kind |-> "Finish", ch |-> c]

Edge   == [cycle : Cycles, ev : {"Start", "Stop"}]
NoEdge == [cycle |-> 0, ev |-> "Stop"]

\* The edge a capture is of.
EdgeOf(cmd) == IF CycleNames = 1 THEN NoEdge ELSE [cycle |-> cmd.cycle, ev |-> cmd.ev]

TypeOK ==
    /\ queue \in Seq(Command)
    /\ Len(queue) <= QueueSize
    /\ cur \in Command \cup {NoCommand} \cup [kind : {"Finish"}, ch : FChannels]
    /\ power \in [FChannels -> BOOLEAN]
    /\ start \in [FChannels -> BOOLEAN]
    /\ cen \in [FChannels -> BOOLEAN]
    /\ opm \in [FChannels -> BOOLEAN]
    /\ cycle \in [FChannels -> Cycles]
    /\ first \in [FChannels -> Fate]
    /\ prev \in [FChannels -> Edge]
    /\ guard \in [Channels -> {"off", "armed"}]
    /\ pend \in [Channels -> {"none", "start", "stop"}]
    /\ lost \in [Channels -> BOOLEAN]
    /\ enabled \in [Channels -> BOOLEAN]
    /\ unsent \subseteq Channels
    /\ settings \in Channels \cup {Free}

-----------------------------------------------------------------------------
(* Start of the firmware: the queue is empty, every channel is off.  In    *)
(* high-performance mode enable_selected_channels then posts one command   *)
(* per channel; in recorder mode the settings' flags are the recorder's.   *)

Init ==
    /\ queue = <<>>
    /\ cur = NoCommand
    /\ power = [c \in FChannels |-> FALSE]
    /\ start = [c \in FChannels |-> FALSE]
    /\ cen = [c \in FChannels |-> FALSE]
    /\ opm = [c \in FChannels |-> FALSE]
    /\ cycle = [c \in FChannels |-> 0]
    /\ first = [c \in FChannels |-> "none"]
    /\ prev = [c \in FChannels |-> NoEdge]
    /\ guard = [c \in Channels |-> "off"]
    /\ pend = [c \in Channels |-> "none"]
    /\ lost = [c \in Channels |-> FALSE]
    /\ enabled \in IF HighPerformance
                   THEN [Channels -> BOOLEAN]
                   ELSE {[c \in Channels |-> TRUE]}
    /\ unsent = IF HighPerformance THEN Channels ELSE {}
    /\ settings = Free

-----------------------------------------------------------------------------
(* The queue *)

HasRoom == Len(queue) < QueueSize

\* Queue::send with an infinite timeout: the caller waits for room.
Send(cmd) == HasRoom /\ queue' = Append(queue, cmd)

\* Mutant: a zero-timeout send that trusts the queue to have room.
SendOrDrop_NoRoomCheck(cmd) ==
    /\ queue' = Append(queue, cmd)
    /\ UNCHANGED lost

\* send_command: zero timeout, a command that finds the queue full is dropped.
\* The drop is recorded when it costs the channel its only way back to life.
SendOrDrop(cmd) ==
    \/ /\ HasRoom
       /\ queue' = Append(queue, cmd)
       /\ UNCHANGED lost
    \/ /\ ~HasRoom
       /\ lost' = [lost EXCEPT ![cmd.ch] = TRUE]
       /\ UNCHANGED queue

-----------------------------------------------------------------------------
(* FreqmeterController *)

\* Mutant: cold_start leaves the timer in one-pulse mode.
ColdStart_KeepsOnePulse(c) ==
    /\ cen' = [cen EXCEPT ![c] = TRUE]
    /\ opm' = opm
    /\ cycle' = [cycle EXCEPT ![c] = (@ % CycleNames) + 1]
    /\ first' = [first EXCEPT ![c] = "none"]

\* InCounter::cold_start: the timer starts a new cycle, out of one-pulse mode.
ColdStart(c) ==
    /\ cen' = [cen EXCEPT ![c] = TRUE]
    /\ opm' = [opm EXCEPT ![c] = FALSE]
    /\ cycle' = [cycle EXCEPT ![c] = (@ % CycleNames) + 1]
    /\ first' = [first EXCEPT ![c] = "none"]

\* Mutant: the guard is stopped and not started again.
Restart_GuardNotStarted(c) ==
    /\ start' = [start EXCEPT ![c] = TRUE]
    /\ pend' = [pend EXCEPT ![c] = "stop"]
    /\ lost' = [lost EXCEPT ![c] = FALSE]
    /\ ColdStart(c)
    /\ UNCHANGED <<power, guard>>

\* restart, and set_target, whose last call is restart: the guard timer is
\* stopped and started (the net command is "start"), the timer is started cold.
Restart(c) ==
    /\ start' = [start EXCEPT ![c] = TRUE]
    /\ pend' = [pend EXCEPT ![c] = "start"]
    /\ lost' = [lost EXCEPT ![c] = FALSE]
    /\ ColdStart(c)
    /\ UNCHANGED <<power, guard>>

\* diasble: guard and timer stopped, generator off.  Neither start nor opm
\* is reset.
Diasble(c) ==
    /\ pend' = [pend EXCEPT ![c] = "stop"]
    /\ cen' = [cen EXCEPT ![c] = FALSE]
    /\ power' = [power EXCEPT ![c] = FALSE]
    /\ UNCHANGED <<guard, start, opm, cycle, first, lost>>

-----------------------------------------------------------------------------
(* Interrupts and timer callbacks *)

\* An update event of the timer: the DMA copies the master counter, its
\* interrupt handler labels the capture by the one-pulse bit, sets that bit
\* on the first capture of a cycle (the second one then stops the timer) and
\* posts ReadyFChannel, which is dropped when the queue is full.
Capture(c) ==
    /\ cen[c] /\ power[c]
    /\ \E w \in WrapedCaptures :
         LET ev == IF opm[c] THEN "Stop" ELSE "Start"
             fate == IF ~HasRoom THEN "dropped" ELSE IF w THEN "wraped" ELSE "posted"
         IN  /\ queue' = IF HasRoom THEN Append(queue, ReadyCmd(c, ev, w)) ELSE queue
             /\ first' = [first EXCEPT ![c] = IF opm[c] \/ CycleNames = 1 THEN @ ELSE fate]
    /\ cen' = [cen EXCEPT ![c] = ~opm[c]]
    /\ opm' = [opm EXCEPT ![c] = TRUE]
    /\ UNCHANGED <<cur, cycle, ctrlVars, timerVars, lost, userVars>>

\* A one-shot software timer expires before the daemon reads the commands
\* still queued for it: its callback posts a command or loses it.
Expire(c) ==
    /\ guard[c] = "armed"
    /\ guard' = [guard EXCEPT ![c] = "off"]
    /\ SendOrDrop(IF c \in FChannels THEN TimeoutCmd(c) ELSE ReadACmd(c))
    /\ UNCHANGED <<cur, hwVars, ctrlVars, pend, userVars>>

\* The timer daemon executes the start and stop commands queued for a timer.
TimerDaemon(c) ==
    /\ pend[c] # "none"
    /\ guard' = [guard EXCEPT ![c] = IF pend[c] = "start" THEN "armed" ELSE "off"]
    /\ pend' = [pend EXCEPT ![c] = "none"]
    /\ UNCHANGED <<queue, cur, hwVars, ctrlVars, lost, userVars>>

-----------------------------------------------------------------------------
(* The sensor thread *)

Receive ==
    /\ cur = NoCommand
    /\ queue # <<>>
    /\ cur' = Head(queue)
    /\ queue' = Tail(queue)
    /\ UNCHANGED <<hwVars, ctrlVars, timerVars, lost, userVars>>

Done == cur' = NoCommand

\* read_settings waits for the settings mutex.
CanReadSettings == settings = Free

\* Start(FChannel(c), i): power on at 0, count to StartCount by re-posting the
\* command, then start the timer and its guard.
HandleStartF ==
    /\ cur.kind = "Start" /\ cur.ch \in FChannels
    /\ LET c == cur.ch
       IN \/ /\ cur.count = StartCount
             /\ start' = [start EXCEPT ![c] = TRUE]
             /\ ColdStart(c)
             /\ pend' = [pend EXCEPT ![c] = "start"]
             /\ lost' = [lost EXCEPT ![c] = FALSE]
             /\ UNCHANGED <<queue, power>>
          \/ /\ cur.count # StartCount
             /\ power' = [power EXCEPT ![c] = @ \/ cur.count = 0]
             /\ SendOrDrop(StartCmd(c, cur.count + 1))
             /\ UNCHANGED <<start, hwVars, pend>>
    /\ Done
    /\ UNCHANGED <<prev, guard, userVars>>

\* Stop(FChannel(c)).
HandleStopF ==
    /\ cur.kind = "Stop" /\ cur.ch \in FChannels
    /\ Diasble(cur.ch)
    /\ Done
    /\ UNCHANGED <<queue, prev, userVars>>

\* Start(AChannel(c), _): init_cycle.  Stop(AChannel(c)): stop.
HandleAnalog ==
    /\ cur.kind \in {"Start", "Stop"} /\ cur.ch \in AChannels
    /\ pend' = [pend EXCEPT ![cur.ch] = IF cur.kind = "Start" THEN "start" ELSE "stop"]
    /\ lost' = [lost EXCEPT ![cur.ch] = FALSE]
    /\ Done
    /\ UNCHANGED <<queue, hwVars, ctrlVars, guard, userVars>>

\* ReadyFChannel with the wraped flag: the cycle is restarted.
HandleWraped ==
    /\ cur.kind = "Ready" /\ cur.wraped
    /\ Restart(cur.ch)
    /\ Done
    /\ UNCHANGED <<queue, prev, userVars>>

\* ReadyFChannel of a Start event: input_captured keeps it, no result yet.
HandleStartEdge ==
    /\ cur.kind = "Ready" /\ ~cur.wraped /\ cur.ev = "Start"
    /\ prev' = [prev EXCEPT ![cur.ch] = EdgeOf(cur)]
    /\ Done
    /\ UNCHANGED <<queue, hwVars, power, start, timerVars, lost, userVars>>

\* Mutant: the high-performance mode never looks at the enable flag.
ContinueWork_Always(c) == TRUE

\* The value the processors return for "continue": the recorder always goes
\* on, the high-performance mode does while the channel is enabled.
ContinueWork(c) == HighPerformance => enabled[c]

IsResult(cmd) == cmd.kind = "Ready" /\ ~cmd.wraped /\ cmd.ev = "Stop"

\* ReadyFChannel of a Stop event: input_captured yields captured - prev, the
\* processor decides; a new target restarts the channel a first time.
HandleResult ==
    /\ IsResult(cur)
    /\ CanReadSettings
    /\ LET c == cur.ch
       IN /\ prev' = [prev EXCEPT ![c] = EdgeOf(cur)]
          /\ \/ /\ ContinueWork(c)
                /\ Restart(c)
                /\ cur' \in {NoCommand, FinishCmd(c)}
             \/ /\ ~ContinueWork(c)
                /\ Diasble(c)
                /\ Done
    /\ UNCHANGED <<queue, userVars>>

\* TimeoutFChannel: both processors return a new target when they continue, so
\* set_target restarts the channel, start is TRUE and enabled() holds: the
\* branch that would post Start(c, 0) is never taken.
HandleTimeout ==
    /\ cur.kind = "Timeout"
    /\ CanReadSettings
    /\ LET c == cur.ch
       IN \/ /\ ContinueWork(c)
             /\ Restart(c)
             /\ cur' = FinishCmd(c)
          \/ /\ ~ContinueWork(c)
             /\ Diasble(c)
             /\ Done
    /\ UNCHANGED <<queue, prev, userVars>>

\* The restart that follows set_target.
FinishRestart ==
    /\ cur.kind = "Finish"
    /\ Restart(cur.ch)
    /\ Done
    /\ UNCHANGED <<queue, prev, userVars>>

\* ReadAChannel: the recorder measures once; in high-performance mode the
\* timer is started again while the channel is enabled, and set_period, which
\* is change_period of the timer, starts it too.
HandleReadA ==
    /\ cur.kind = "ReadA"
    /\ CanReadSettings
    /\ \E newPeriod \in BOOLEAN :
         pend' = IF HighPerformance /\ (newPeriod \/ enabled[cur.ch])
                 THEN [pend EXCEPT ![cur.ch] = "start"]
                 ELSE pend
    /\ Done
    /\ UNCHANGED <<queue, hwVars, ctrlVars, guard, lost, userVars>>

SensorThread ==
    \/ Receive
    \/ HandleStartF
    \/ HandleStopF
    \/ HandleAnalog
    \/ HandleWraped
    \/ HandleStartEdge
    \/ HandleResult
    \/ HandleTimeout
    \/ FinishRestart
    \/ HandleReadA

-----------------------------------------------------------------------------
(* The threads that post commands *)

\* RecorderController: startup and process_sensor_event (infinite timeout).
RecorderStart(c) ==
    /\ ~HighPerformance
    /\ Send(StartCmd(c, 0))
    /\ UNCHANGED <<cur, hwVars, ctrlVars, timerVars, lost, userVars>>

RecorderStop(c) ==
    /\ ~HighPerformance
    /\ c \in FChannels
    /\ Send(StopCmd(c))
    /\ UNCHANGED <<cur, hwVars, ctrlVars, timerVars, lost, userVars>>

\* enable_selected_channels, one command per channel under the settings mutex.
BootSend(c) ==
    /\ c \in unsent
    /\ settings = Free
    /\ Send(IF enabled[c] THEN StartCmd(c, 0) ELSE StopCmd(c))
    /\ unsent' = unsent \ {c}
    /\ UNCHANGED <<cur, hwVars, ctrlVars, timerVars, lost, enabled, settings>>

\* update_settings enables a channel: it takes the settings mutex ...
UserEnable(c) ==
    /\ HighPerformance
    /\ unsent = {}
    /\ settings = Free
    /\ ~enabled[c]
    /\ settings' = c
    /\ UNCHANGED <<queue, cur, hwVars, ctrlVars, timerVars, lost, enabled, unsent>>

\* Mutant: the Start is sent with a zero timeout and the flag stored anyway.
UserEnableSend_ZeroTimeout(c) ==
    /\ settings = c
    /\ queue' = IF HasRoom THEN Append(queue, StartCmd(c, 0)) ELSE queue
    /\ enabled' = [enabled EXCEPT ![c] = TRUE]
    /\ settings' = Free
    /\ UNCHANGED <<cur, hwVars, ctrlVars, timerVars, lost, unsent>>

\* ... posts Start(c, 0) with an infinite timeout, mutex still held, stores the
\* flag and releases the mutex.
UserEnableSend(c) ==
    /\ settings = c
    /\ Send(StartCmd(c, 0))
    /\ enabled' = [enabled EXCEPT ![c] = TRUE]
    /\ settings' = Free
    /\ UNCHANGED <<cur, hwVars, ctrlVars, timerVars, lost, unsent>>

\* update_settings disables a channel: only the flag is stored.
UserDisable(c) ==
    /\ HighPerformance
    /\ unsent = {}
    /\ settings = Free
    /\ enabled[c]
    /\ enabled' = [enabled EXCEPT ![c] = FALSE]
    /\ UNCHANGED <<queue, cur, hwVars, ctrlVars, timerVars, lost, unsent, settings>>

Clients(c) ==
    \/ RecorderStart(c)
    \/ RecorderStop(c)
    \/ BootSend(c)
    \/ UserEnable(c)
    \/ UserEnableSend(c)
    \/ UserDisable(c)

-----------------------------------------------------------------------------

Next ==
    \/ SensorThread
    \/ \E c \in FChannels : Capture(c)
    \/ \E c \in Channels : Expire(c)
    \/ \E c \in Channels : TimerDaemon(c)
    \/ \E c \in Channels : Clients(c)

Spec == Init /\ [][Next]_vars

\* The sensor thread and the timer daemon have the highest task priority, and
\* an armed timer does expire unless a command reaches the daemon first.
Fairness ==
    /\ WF_vars(SensorThread)
    /\ \A c \in Channels : WF_vars(TimerDaemon(c))
    /\ \A c \in Channels : WF_vars(Expire(c))

FairSpec == Spec /\ Fairness

-----------------------------------------------------------------------------
(* Properties *)

\* A command of channel c of one of the kinds is queued or being handled.
InFlight(c, kinds) ==
    \/ cur.kind \in kinds /\ cur.ch = c
    \/ \E i \in DOMAIN queue : queue[i].kind \in kinds /\ queue[i].ch = c

\* Something that will bring the sensor thread back to channel c exists: its
\* software timer runs or will be started, or a command is on its way.
Watched(c) ==
    \/ guard[c] = "armed" /\ pend[c] # "stop"
    \/ pend[c] = "start"
    \/ InFlight(c, {"Start", "Timeout", "ReadA", "Finish"})

\* A frequency channel whose generator or counter is on never dies silently:
\* the no-signal guard, or a command that leads back to it, exists unless that
\* command was dropped because the queue was full (sensor_processor.rs, the
\* guard callbacks, the Start re-posts and every restart and diasble).
RunningChannelIsWatched ==
    \A c \in FChannels : power[c] \/ cen[c] => Watched(c) \/ lost[c]

\* In high-performance mode every channel the settings enable is powered (or
\* its Start is on the way) and watched, whatever disable, enable, results and
\* timeouts were interleaved (process_settings.rs, process_f_result).
EnabledChannelLives ==
    HighPerformance =>
      \A c \in Channels : enabled[c] /\ c \notin unsent =>
        /\ Watched(c) \/ lost[c]
        /\ c \in FChannels => power[c] \/ InFlight(c, {"Start"})

\* input_captured never sees a Stop capture of a cycle that captured no Start,
\* and pairs it with the Start capture of its own cycle whenever that Start
\* reached the sensor thread unwraped: restarts, timeouts and target changes
\* never mix the captures of two cycles.
ResultIsOneCycle ==
    IsResult(cur) =>
      /\ cur.first # "none"
      /\ cur.first = "posted" =>
           prev[cur.ch] = [cycle |-> cur.cycle, ev |-> "Start"]

\* A frequency channel whose counter runs is served again: its captures, its
\* guard or a command bring the sensor thread back to it, unless the command
\* of the guard was dropped (FreqmeterController::start, restart).
RunningChannelIsServed ==
    \A c \in FChannels :
      cen[c] ~> (cur # NoCommand /\ cur.ch = c) \/ lost[c]

\* In high-performance mode a channel the settings disable for good ends with
\* its counter stopped and its generator off, although update_settings sends
\* no Stop command: a result or the guard turns it off.
DisabledChannelGoesDark ==
    \A c \in FChannels :
      <>[](~enabled[c] /\ settings = Free /\ unsent = {} /\ ~lost[c])
        => <>[](~power[c] /\ ~cen[c])

-----------------------------------------------------------------------------
(* What comments of the code say and the code does not do *)

\* sensor_processor.rs:130, the queue fills up and data that do not fit are
\* ignored "so as not to get stuck completely": the sensor thread, the only
\* reader of the queue, never waits for a mutex whose holder waits for room.
SensorThreadNeverStuck ==
    ~ /\ settings # Free
      /\ ~HasRoom
      /\ cur.kind \in {"Timeout", "ReadA"} \/ IsResult(cur)

=============================================================================
