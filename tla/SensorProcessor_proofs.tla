----------------------- MODULE SensorProcessor_proofs -----------------------
(* Theorems about SensorProcessor, for every set of channels, every queue  *)
(* size and both work modes.                                               *)
EXTENDS SensorProcessor, TLAPS

(***************************************************************************)
(* Appending to and reading from the queue keeps it a queue of commands.   *)
(***************************************************************************)
LEMMA AppendCommand ==
  ASSUME TypeOK, HasRoom, NEW cmd \in Command
  PROVE  Append(queue, cmd) \in Seq(Command) /\ Len(Append(queue, cmd)) <= QueueSize
BY ConstantsAssumption DEF TypeOK, HasRoom

LEMMA ReceiveCommand ==
  ASSUME TypeOK, queue # <<>>
  PROVE  /\ Head(queue) \in Command
         /\ Tail(queue) \in Seq(Command)
         /\ Len(Tail(queue)) <= QueueSize
BY ConstantsAssumption DEF TypeOK

(***************************************************************************)
(* What the kind of the command being handled says about its channel and   *)
(* its fields.                                                             *)
(***************************************************************************)
LEMMA CurFields ==
  ASSUME TypeOK
  PROVE  /\ cur.kind \in {"Ready", "Timeout", "Finish"} => cur.ch \in FChannels
         /\ cur.kind = "ReadA" => cur.ch \in AChannels
         /\ cur.kind \in {"Start", "Stop"} => cur.ch \in Channels
         /\ cur.kind = "Start" => cur.count \in 0 .. StartCount
         /\ cur.kind = "Ready" => cur.cycle \in Cycles
BY DEF TypeOK, Command, NoCommand

(***************************************************************************)
(* The pieces of FreqmeterController keep their variables in their types.  *)
(***************************************************************************)
LEMMA ColdStartType ==
  ASSUME TypeOK, NEW c \in FChannels, ColdStart(c)
  PROVE  /\ cen' \in [FChannels -> BOOLEAN]
         /\ opm' \in [FChannels -> BOOLEAN]
         /\ cycle' \in [FChannels -> Cycles]
         /\ first' \in [FChannels -> Fate]
<1>1. (cycle[c] % CycleNames) + 1 \in Cycles
  BY ConstantsAssumption DEF TypeOK, Cycles
<1>. QED
  BY <1>1 DEF TypeOK, ColdStart, Fate

LEMMA RestartType ==
  ASSUME TypeOK, NEW c \in FChannels, Restart(c)
  PROVE  /\ power' \in [FChannels -> BOOLEAN]
         /\ start' \in [FChannels -> BOOLEAN]
         /\ cen' \in [FChannels -> BOOLEAN]
         /\ opm' \in [FChannels -> BOOLEAN]
         /\ cycle' \in [FChannels -> Cycles]
         /\ first' \in [FChannels -> Fate]
         /\ guard' \in [Channels -> {"off", "armed"}]
         /\ pend' \in [Channels -> {"none", "start", "stop"}]
         /\ lost' \in [Channels -> BOOLEAN]
BY ColdStartType DEF TypeOK, Restart

LEMMA DiasbleType ==
  ASSUME TypeOK, NEW c \in FChannels, Diasble(c)
  PROVE  /\ power' \in [FChannels -> BOOLEAN]
         /\ start' \in [FChannels -> BOOLEAN]
         /\ cen' \in [FChannels -> BOOLEAN]
         /\ opm' \in [FChannels -> BOOLEAN]
         /\ cycle' \in [FChannels -> Cycles]
         /\ first' \in [FChannels -> Fate]
         /\ guard' \in [Channels -> {"off", "armed"}]
         /\ pend' \in [Channels -> {"none", "start", "stop"}]
         /\ lost' \in [Channels -> BOOLEAN]
BY DEF TypeOK, Diasble

(***************************************************************************)
(* Sending, with or without a drop.                                        *)
(***************************************************************************)
LEMMA SendType ==
  ASSUME TypeOK, NEW cmd \in Command, Send(cmd)
  PROVE  queue' \in Seq(Command) /\ Len(queue') <= QueueSize
BY AppendCommand DEF Send

LEMMA SendOrDropType ==
  ASSUME TypeOK, NEW cmd \in Command, cmd.ch \in Channels, SendOrDrop(cmd)
  PROVE  /\ queue' \in Seq(Command)
         /\ Len(queue') <= QueueSize
         /\ lost' \in [Channels -> BOOLEAN]
<1>1. CASE HasRoom
  BY <1>1, AppendCommand DEF SendOrDrop, TypeOK
<1>2. CASE ~HasRoom
  BY <1>2 DEF SendOrDrop, TypeOK
<1>. QED
  BY <1>1, <1>2

(***************************************************************************)
(* Type correctness.                                                       *)
(***************************************************************************)
LEMMA InitType == Init => TypeOK
<1>. SUFFICES ASSUME Init PROVE TypeOK
  OBVIOUS
<1>1. queue \in Seq(Command) /\ Len(queue) <= QueueSize
  BY ConstantsAssumption DEF Init
<1>2. enabled \in [Channels -> BOOLEAN]
  BY DEF Init
<1>. QED
  BY <1>1, <1>2, ConstantsAssumption
     DEF Init, TypeOK, Cycles, Edge, NoEdge, Fate

\* The edge of a capture of cycle n.
LEMMA EdgeType ==
  ASSUME NEW cmd, cmd.cycle \in Cycles, cmd.ev \in {"Start", "Stop"}
  PROVE  EdgeOf(cmd) \in Edge
<1>1. NoEdge \in Edge
  BY ConstantsAssumption DEF NoEdge, Edge, Cycles
<1>2. [cycle |-> cmd.cycle, ev |-> cmd.ev] \in Edge
  BY DEF Edge
<1>. QED
  BY <1>1, <1>2 DEF EdgeOf

LEMMA StepType == TypeOK /\ [Next]_vars => TypeOK'
<1>. SUFFICES ASSUME TypeOK, [Next]_vars PROVE TypeOK'
  OBVIOUS
<1>. USE CurFields
<1>1. CASE UNCHANGED vars
  BY <1>1 DEF TypeOK, vars, hwVars, ctrlVars, timerVars, userVars
<1>2. CASE Receive
  BY <1>2, ReceiveCommand
     DEF Receive, TypeOK, hwVars, ctrlVars, timerVars, userVars
<1>3. CASE HandleStartF
  <2>. DEFINE c == cur.ch
  <2>1. c \in FChannels /\ c \in Channels
    BY <1>3 DEF HandleStartF, Channels
  <2>2. CASE cur.count = StartCount
    BY <1>3, <2>1, <2>2, ColdStartType
       DEF HandleStartF, TypeOK, Done, ctrlVars, userVars, Channels
  <2>3. CASE cur.count # StartCount
    <3>1. StartCmd(c, cur.count + 1) \in Command
      BY <1>3, <2>1, <2>3, ConstantsAssumption
         DEF HandleStartF, StartCmd, Command
    <3>2. /\ queue' \in Seq(Command)
          /\ Len(queue') <= QueueSize
          /\ lost' \in [Channels -> BOOLEAN]
      BY <1>3, <2>1, <2>3, <3>1, SendOrDropType DEF HandleStartF, StartCmd
    <3>. QED
      BY <1>3, <2>1, <2>3, <3>2
         DEF HandleStartF, TypeOK, Done, hwVars, userVars
  <2>. QED
    BY <2>2, <2>3
<1>4. CASE HandleStopF
  BY <1>4, DiasbleType DEF HandleStopF, TypeOK, Done, userVars
<1>5. CASE HandleAnalog
  BY <1>5 DEF HandleAnalog, TypeOK, Done, hwVars, ctrlVars, userVars
<1>6. CASE HandleWraped
  BY <1>6, RestartType DEF HandleWraped, TypeOK, Done, userVars
<1>7. CASE HandleStartEdge
  <2>1. EdgeOf(cur) \in Edge
    BY <1>7, EdgeType DEF HandleStartEdge
  <2>. QED
    BY <1>7, <2>1 DEF HandleStartEdge, TypeOK, Done, hwVars, timerVars, userVars
<1>8. CASE HandleResult
  <2>1. EdgeOf(cur) \in Edge
    BY <1>8, EdgeType DEF HandleResult, IsResult
  <2>. QED
    BY <1>8, <2>1, RestartType, DiasbleType
       DEF HandleResult, IsResult, TypeOK, Done, FinishCmd, userVars
<1>9. CASE HandleTimeout
  BY <1>9, RestartType, DiasbleType
     DEF HandleTimeout, TypeOK, Done, FinishCmd, userVars
<1>10. CASE FinishRestart
  BY <1>10, RestartType DEF FinishRestart, TypeOK, Done, userVars
<1>11. CASE HandleReadA
  BY <1>11 DEF HandleReadA, TypeOK, Done, hwVars, ctrlVars, userVars, Channels
<1>12. ASSUME NEW c \in FChannels, Capture(c) PROVE TypeOK'
  <2>1. PICK w \in WrapedCaptures, ev \in {"Start", "Stop"} :
          /\ queue' = IF HasRoom THEN Append(queue, ReadyCmd(c, ev, w)) ELSE queue
          /\ first' \in [FChannels -> Fate]
    BY <1>12 DEF Capture, TypeOK, Fate
  <2>2. ReadyCmd(c, ev, w) \in Command
    BY ConstantsAssumption DEF ReadyCmd, Command, TypeOK
  <2>3. queue' \in Seq(Command) /\ Len(queue') <= QueueSize
    BY <2>1, <2>2, AppendCommand DEF TypeOK
  <2>. QED
    BY <1>12, <2>1, <2>3 DEF Capture, TypeOK, ctrlVars, timerVars, userVars
<1>13. ASSUME NEW c \in Channels, Expire(c) PROVE TypeOK'
  <2>. DEFINE cmd == IF c \in FChannels THEN TimeoutCmd(c) ELSE ReadACmd(c)
  <2>1. cmd \in Command /\ cmd.ch \in Channels
    BY DEF TimeoutCmd, ReadACmd, Command, Channels
  <2>2. /\ queue' \in Seq(Command)
        /\ Len(queue') <= QueueSize
        /\ lost' \in [Channels -> BOOLEAN]
    BY <1>13, <2>1, SendOrDropType DEF Expire
  <2>. QED
    BY <1>13, <2>2 DEF Expire, TypeOK, hwVars, ctrlVars, userVars
<1>14. ASSUME NEW c \in Channels, TimerDaemon(c) PROVE TypeOK'
  BY <1>14 DEF TimerDaemon, TypeOK, hwVars, ctrlVars, userVars
<1>15. ASSUME NEW c \in Channels, Clients(c) PROVE TypeOK'
  <2>1. StartCmd(c, 0) \in Command /\ StopCmd(c) \in Command
    BY ConstantsAssumption DEF StartCmd, StopCmd, Command
  <2>2. CASE RecorderStart(c) \/ RecorderStop(c) \/ BootSend(c)
    BY <2>1, <2>2, SendType
       DEF RecorderStart, RecorderStop, BootSend, TypeOK,
           hwVars, ctrlVars, timerVars, userVars
  <2>3. CASE UserEnable(c) \/ UserDisable(c)
    BY <2>3 DEF UserEnable, UserDisable, TypeOK, hwVars, ctrlVars, timerVars
  <2>4. CASE UserEnableSend(c)
    BY <2>1, <2>4, SendType
       DEF UserEnableSend, TypeOK, hwVars, ctrlVars, timerVars
  <2>. QED
    BY <1>15, <2>2, <2>3, <2>4 DEF Clients
<1>. QED
  BY <1>1, <1>2, <1>3, <1>4, <1>5, <1>6, <1>7, <1>8, <1>9, <1>10, <1>11,
     <1>12, <1>13, <1>14, <1>15
     DEF Next, SensorThread

(***************************************************************************)
(* Every behaviour of the sensor thread keeps its types: in particular the *)
(* command queue never outgrows its capacity.                              *)
(***************************************************************************)
THEOREM SensorProcessorType == Spec => []TypeOK
BY InitType, StepType, PTL DEF Spec

-----------------------------------------------------------------------------

(***************************************************************************)
(* A command in flight stays in flight when another one is appended, and   *)
(* when the sensor thread takes the next one from the queue.               *)
(***************************************************************************)
LEMMA AppendKeepsInFlight ==
  ASSUME TypeOK, NEW c, NEW kinds, NEW cmd \in Command,
         queue' = Append(queue, cmd)
  PROVE  /\ (\E i \in DOMAIN queue : queue[i].kind \in kinds /\ queue[i].ch = c)
              => \E i \in DOMAIN queue' : queue'[i].kind \in kinds /\ queue'[i].ch = c
         /\ cmd.kind \in kinds /\ cmd.ch = c
              => \E i \in DOMAIN queue' : queue'[i].kind \in kinds /\ queue'[i].ch = c
<1>1. /\ Len(queue') = Len(queue) + 1
      /\ DOMAIN queue = 1 .. Len(queue)
      /\ DOMAIN queue' = 1 .. Len(queue')
      /\ Len(queue) \in Nat
      /\ \A i \in 1 .. Len(queue) : queue'[i] = queue[i]
      /\ queue'[Len(queue) + 1] = cmd
  BY DEF TypeOK
<1>2. Len(queue) + 1 \in DOMAIN queue'
  BY <1>1
<1>3. \A i \in DOMAIN queue : i \in DOMAIN queue'
  BY <1>1
<1>. QED
  BY <1>1, <1>2, <1>3

LEMMA ReceiveKeepsInFlight ==
  ASSUME TypeOK, NEW c, NEW kinds, Receive,
         \E i \in DOMAIN queue : queue[i].kind \in kinds /\ queue[i].ch = c
  PROVE  InFlight(c, kinds)'
<1>1. PICK i \in DOMAIN queue : queue[i].kind \in kinds /\ queue[i].ch = c
  OBVIOUS
<1>2. /\ Len(queue') = Len(queue) - 1
      /\ DOMAIN queue = 1 .. Len(queue)
      /\ DOMAIN queue' = 1 .. Len(queue')
      /\ Len(queue) \in Nat
      /\ \A k \in 1 .. Len(queue) - 1 : queue'[k] = queue[k + 1]
      /\ cur' = queue[1]
  BY DEF TypeOK, Receive
<1>3. CASE i = 1
  BY <1>1, <1>2, <1>3 DEF InFlight
<1>4. CASE i # 1
  <2>1. i - 1 \in DOMAIN queue' /\ queue'[i - 1] = queue[i]
    BY <1>2, <1>4
  <2>. QED
    BY <1>1, <2>1 DEF InFlight
<1>. QED
  BY <1>3, <1>4

(***************************************************************************)
(* A step that at most appends to the queue, and after which a watched     *)
(* channel's timers and the handled command still count, leaves it watched.*)
(***************************************************************************)
LEMMA WatchedKept ==
  ASSUME TypeOK, NEW c, Watched(c),
         UNCHANGED queue \/ \E cmd \in Command : queue' = Append(queue, cmd),
         guard[c] = "armed" /\ pend[c] # "stop"
           => (guard[c] = "armed" /\ pend[c] # "stop")' \/ (pend[c] = "start")',
         pend[c] = "start" => (pend[c] = "start" \/ (guard[c] = "armed" /\ pend[c] # "stop"))',
         cur.kind \in {"Start", "Timeout", "ReadA", "Finish"} /\ cur.ch = c
           => UNCHANGED cur
  PROVE  Watched(c)'
<1>. DEFINE kinds == {"Start", "Timeout", "ReadA", "Finish"}
            Queued == \E i \in DOMAIN queue : queue[i].kind \in kinds /\ queue[i].ch = c
<1>1. Queued => Queued'
  <2>1. CASE UNCHANGED queue
    BY <2>1
  <2>2. ASSUME NEW cmd \in Command, queue' = Append(queue, cmd)
        PROVE  Queued => Queued'
    BY <2>2, AppendKeepsInFlight
  <2>. QED
    BY <2>1, <2>2
<1>. QED
  BY <1>1 DEF Watched, InFlight

(***************************************************************************)
(* A restarted channel is watched by its guard, a disabled one needs no    *)
(* watch, and neither touches another channel.                             *)
(***************************************************************************)
LEMMA RestartWatches ==
  ASSUME TypeOK, RunningChannelIsWatched, NEW d \in FChannels, Restart(d),
         UNCHANGED queue, cur.ch = d
  PROVE  RunningChannelIsWatched'
<1>. SUFFICES ASSUME NEW c \in FChannels, (power[c] \/ cen[c])'
              PROVE  (Watched(c) \/ lost[c])'
  BY DEF RunningChannelIsWatched
<1>1. CASE c = d
  BY <1>1 DEF Restart, TypeOK, Watched, Channels
<1>2. CASE c # d
  <2>1. /\ power[c] \/ cen[c]
        /\ guard'[c] = guard[c] /\ pend'[c] = pend[c] /\ lost'[c] = lost[c]
    BY <1>2 DEF Restart, ColdStart, TypeOK, Channels
  <2>2. CASE lost[c]
    BY <2>1, <2>2
  <2>3. CASE Watched(c)
    BY <1>2, <2>1, <2>3, WatchedKept
  <2>. QED
    BY <2>1, <2>2, <2>3 DEF RunningChannelIsWatched
<1>. QED
  BY <1>1, <1>2

LEMMA DiasbleKeepsWatch ==
  ASSUME TypeOK, RunningChannelIsWatched, NEW d \in FChannels, Diasble(d),
         UNCHANGED queue, cur.ch = d
  PROVE  RunningChannelIsWatched'
<1>. SUFFICES ASSUME NEW c \in FChannels, (power[c] \/ cen[c])'
              PROVE  (Watched(c) \/ lost[c])'
  BY DEF RunningChannelIsWatched
<1>1. c # d
  BY DEF Diasble, TypeOK
<1>2. /\ power[c] \/ cen[c]
      /\ guard'[c] = guard[c] /\ pend'[c] = pend[c] /\ lost'[c] = lost[c]
  BY <1>1 DEF Diasble, TypeOK, Channels
<1>3. CASE lost[c]
  BY <1>2, <1>3
<1>4. CASE Watched(c)
  BY <1>1, <1>2, <1>4, WatchedKept
<1>. QED
  BY <1>2, <1>3, <1>4 DEF RunningChannelIsWatched

LEMMA StepWatched ==
  TypeOK /\ RunningChannelIsWatched /\ [Next]_vars => RunningChannelIsWatched'
<1>. SUFFICES ASSUME TypeOK, RunningChannelIsWatched, [Next]_vars
              PROVE  RunningChannelIsWatched'
  OBVIOUS
<1>. DEFINE Calm ==
       /\ \A c \in FChannels :
            /\ (power[c] \/ cen[c])' => power[c] \/ cen[c]
            /\ guard'[c] = guard[c] /\ pend'[c] = pend[c] /\ lost'[c] = lost[c]
            /\ cur.kind \in {"Start", "Timeout", "ReadA", "Finish"} /\ cur.ch = c
                 => UNCHANGED cur
       /\ UNCHANGED queue \/ \E cmd \in Command : queue' = Append(queue, cmd)
<1>calm. Calm => RunningChannelIsWatched'
  <2>. SUFFICES ASSUME Calm, NEW c \in FChannels, power[c] \/ cen[c]
                PROVE  (Watched(c) \/ lost[c])'
    BY DEF RunningChannelIsWatched
  <2>1. CASE lost[c]
    BY <2>1
  <2>2. CASE Watched(c)
    BY <2>2, WatchedKept
  <2>. QED
    BY <2>1, <2>2 DEF RunningChannelIsWatched
<1>. HIDE DEF Calm
<1>. USE CurFields
<1>1. CASE UNCHANGED vars
  BY <1>1, <1>calm DEF Calm, vars, hwVars, ctrlVars, timerVars, userVars
<1>2. CASE Receive
  <2>. SUFFICES ASSUME NEW c \in FChannels, power[c] \/ cen[c]
                PROVE  (Watched(c) \/ lost[c])'
    BY <1>2 DEF RunningChannelIsWatched, Receive, hwVars, ctrlVars
  <2>1. guard'[c] = guard[c] /\ pend'[c] = pend[c] /\ lost'[c] = lost[c]
    BY <1>2 DEF Receive, timerVars
  <2>2. InFlight(c, {"Start", "Timeout", "ReadA", "Finish"})
          => InFlight(c, {"Start", "Timeout", "ReadA", "Finish"})'
    BY <1>2, ReceiveKeepsInFlight DEF Receive, InFlight, NoCommand
  <2>. QED
    BY <2>1, <2>2 DEF RunningChannelIsWatched, Watched
<1>3. CASE HandleStartF
  <2>. SUFFICES ASSUME NEW c \in FChannels, (power[c] \/ cen[c])'
                PROVE  (Watched(c) \/ lost[c])'
    BY DEF RunningChannelIsWatched
  <2>1. cur.ch \in FChannels /\ c \in Channels /\ cur.ch \in Channels
    BY <1>3 DEF HandleStartF, Channels
  <2>2. CASE c # cur.ch
    <3>1. /\ power[c] \/ cen[c]
          /\ guard'[c] = guard[c] /\ pend'[c] = pend[c]
      BY <1>3, <2>1, <2>2 DEF HandleStartF, ColdStart, TypeOK, hwVars
    <3>2. \/ UNCHANGED queue /\ lost'[c] = lost[c]
          \/ \E cmd \in Command : queue' = Append(queue, cmd) /\ UNCHANGED lost
      <4>1. CASE cur.count = StartCount
        BY <1>3, <2>1, <2>2, <4>1 DEF HandleStartF, TypeOK
      <4>2. CASE cur.count # StartCount
        <5>1. StartCmd(cur.ch, cur.count + 1) \in Command
          BY <1>3, <2>1, <4>2, ConstantsAssumption
             DEF HandleStartF, StartCmd, Command
        <5>. QED
          BY <1>3, <2>1, <2>2, <4>2, <5>1
             DEF HandleStartF, SendOrDrop, StartCmd, TypeOK
      <4>. QED
        BY <4>1, <4>2
    <3>3. CASE lost[c]
      BY <3>2, <3>3
    <3>4. CASE Watched(c)
      BY <2>2, <3>1, <3>2, <3>4, WatchedKept
    <3>. QED
      BY <3>1, <3>3, <3>4 DEF RunningChannelIsWatched
  <2>3. CASE c = cur.ch /\ cur.count = StartCount
    BY <1>3, <2>1, <2>3 DEF HandleStartF, TypeOK, Watched
  <2>4. CASE c = cur.ch /\ cur.count # StartCount
    <3>. DEFINE cmd == StartCmd(c, cur.count + 1)
    <3>1. cmd \in Command /\ cmd.kind = "Start" /\ cmd.ch = c
      BY <1>3, <2>1, <2>4, ConstantsAssumption
         DEF HandleStartF, StartCmd, Command
    <3>2. queue' = Append(queue, cmd) \/ lost'[c]
      BY <1>3, <2>1, <2>4 DEF HandleStartF, SendOrDrop, StartCmd, TypeOK
    <3>. HIDE DEF cmd
    <3>. QED
      BY <3>1, <3>2, AppendKeepsInFlight DEF Watched, InFlight
  <2>. QED
    BY <2>2, <2>3, <2>4
<1>4. CASE HandleStopF
  BY <1>4, DiasbleKeepsWatch DEF HandleStopF
<1>5. CASE HandleAnalog
  <2>1. cur.ch \in Channels /\ cur.ch \notin FChannels
    BY <1>5, ConstantsAssumption DEF HandleAnalog, Channels
  <2>2. \A c \in FChannels :
          guard'[c] = guard[c] /\ pend'[c] = pend[c] /\ lost'[c] = lost[c]
    BY <1>5, <2>1 DEF HandleAnalog, TypeOK, Channels
  <2>3. UNCHANGED <<queue, power, cen>>
    BY <1>5 DEF HandleAnalog, hwVars, ctrlVars
  <2>. QED
    BY <1>calm, <2>1, <2>2, <2>3 DEF Calm
<1>6. CASE HandleWraped
  BY <1>6, RestartWatches DEF HandleWraped
<1>7. CASE HandleStartEdge
  BY <1>7, <1>calm DEF Calm, HandleStartEdge, hwVars, timerVars
<1>8. CASE HandleResult
  BY <1>8, RestartWatches, DiasbleKeepsWatch DEF HandleResult, IsResult
<1>9. CASE HandleTimeout
  BY <1>9, RestartWatches, DiasbleKeepsWatch DEF HandleTimeout
<1>10. CASE FinishRestart
  BY <1>10, RestartWatches DEF FinishRestart
<1>11. CASE HandleReadA
  <2>1. cur.ch \in Channels /\ cur.ch \notin FChannels
    BY <1>11, ConstantsAssumption DEF HandleReadA, Channels
  <2>2. \A c \in FChannels :
          guard'[c] = guard[c] /\ pend'[c] = pend[c] /\ lost'[c] = lost[c]
    BY <1>11, <2>1 DEF HandleReadA, TypeOK, Channels
  <2>3. UNCHANGED <<queue, power, cen>>
    BY <1>11 DEF HandleReadA, hwVars, ctrlVars
  <2>. QED
    BY <1>calm, <2>1, <2>2, <2>3 DEF Calm
<1>12. ASSUME NEW c \in FChannels, Capture(c) PROVE RunningChannelIsWatched'
  <2>1. PICK w \in BOOLEAN, ev \in {"Start", "Stop"} :
          queue' = IF HasRoom THEN Append(queue, ReadyCmd(c, ev, w)) ELSE queue
    BY <1>12, ConstantsAssumption DEF Capture
  <2>2. ReadyCmd(c, ev, w) \in Command
    BY DEF ReadyCmd, Command, TypeOK
  <2>3. \A d \in FChannels : (power[d] \/ cen[d])' => power[d] \/ cen[d]
    BY <1>12 DEF Capture, TypeOK, ctrlVars
  <2>. QED
    BY <1>12, <1>calm, <2>1, <2>2, <2>3 DEF Calm, Capture, timerVars
<1>13. ASSUME NEW d \in Channels, Expire(d) PROVE RunningChannelIsWatched'
  <2>. SUFFICES ASSUME NEW c \in FChannels, power[c] \/ cen[c]
                PROVE  (Watched(c) \/ lost[c])'
    BY <1>13 DEF RunningChannelIsWatched, Expire, hwVars, ctrlVars
  <2>. DEFINE cmd == IF d \in FChannels THEN TimeoutCmd(d) ELSE ReadACmd(d)
  <2>1. /\ cmd \in Command /\ cmd.ch = d /\ c \in Channels
        /\ d \in FChannels => cmd.kind = "Timeout"
    BY DEF TimeoutCmd, ReadACmd, Command, Channels
  <2>2. SendOrDrop(cmd) /\ UNCHANGED cur /\ UNCHANGED pend
    BY <1>13 DEF Expire
  <2>. HIDE DEF cmd
  <2>3. CASE c = d
    BY <2>1, <2>2, <2>3, AppendKeepsInFlight
       DEF SendOrDrop, TypeOK, Watched, InFlight
  <2>4. CASE c # d
    <3>1. guard'[c] = guard[c] /\ pend'[c] = pend[c] /\ lost'[c] = lost[c]
      BY <1>13, <2>1, <2>2, <2>4 DEF Expire, SendOrDrop, TypeOK
    <3>2. CASE lost[c]
      BY <3>1, <3>2
    <3>3. CASE Watched(c)
      BY <2>1, <2>2, <3>1, <3>3, WatchedKept DEF SendOrDrop
    <3>. QED
      BY <3>2, <3>3 DEF RunningChannelIsWatched
  <2>. QED
    BY <2>3, <2>4
<1>14. ASSUME NEW d \in Channels, TimerDaemon(d) PROVE RunningChannelIsWatched'
  <2>. SUFFICES ASSUME NEW c \in FChannels, power[c] \/ cen[c]
                PROVE  (Watched(c) \/ lost[c])'
    BY <1>14 DEF RunningChannelIsWatched, TimerDaemon, hwVars, ctrlVars
  <2>1. CASE lost[c]
    BY <1>14, <2>1 DEF TimerDaemon
  <2>2. CASE Watched(c)
    BY <1>14, <2>2 DEF TimerDaemon, TypeOK, Watched, InFlight, Channels
  <2>. QED
    BY <2>1, <2>2 DEF RunningChannelIsWatched
<1>15. ASSUME NEW c \in Channels, Clients(c) PROVE RunningChannelIsWatched'
  <2>1. StartCmd(c, 0) \in Command /\ StopCmd(c) \in Command
    BY ConstantsAssumption DEF StartCmd, StopCmd, Command
  <2>. QED
    BY <1>15, <1>calm, <2>1
       DEF Calm, Clients, RecorderStart, RecorderStop, BootSend, UserEnable,
           UserEnableSend, UserDisable, Send, hwVars, ctrlVars, timerVars
<1>. QED
  BY <1>1, <1>2, <1>3, <1>4, <1>5, <1>6, <1>7, <1>8, <1>9, <1>10, <1>11,
     <1>12, <1>13, <1>14, <1>15
     DEF Next, SensorThread

(***************************************************************************)
(* A frequency channel whose generator or counter is on is always watched, *)
(* or its reviving command was dropped by a full queue: restart, diasble,  *)
(* the guard callbacks and the Start re-posts leave no other way to die.   *)
(***************************************************************************)
THEOREM RunningChannelWatched == Spec => []RunningChannelIsWatched
<1>1. Init => RunningChannelIsWatched
  BY DEF Init, RunningChannelIsWatched
<1>. QED
  BY <1>1, SensorProcessorType, StepWatched, PTL DEF Spec

-----------------------------------------------------------------------------

(***************************************************************************)
(* High-performance mode.  A channel the settings enable was either told to*)
(* start after every Stop still queued for it, or has been powered since.  *)
(***************************************************************************)
IsStart0(cmd, c) == cmd.kind = "Start" /\ cmd.ch = c /\ cmd.count = 0
IsStop(cmd, c)   == cmd.kind = "Stop" /\ cmd.ch = c

\* Start(c, 0), the command that powers the channel, is on its way.
StartComing(c) ==
    \/ IsStart0(cur, c)
    \/ \E i \in DOMAIN queue : IsStart0(queue[i], c)

\* Behind every Stop(c) comes a Start(c, 0).
StopsAreOld(c) ==
    /\ IsStop(cur, c) => \E j \in DOMAIN queue : IsStart0(queue[j], c)
    /\ \A i \in DOMAIN queue : IsStop(queue[i], c)
         => \E j \in DOMAIN queue : i < j /\ IsStart0(queue[j], c)

Alive(c) ==
    enabled[c] /\ c \notin unsent =>
      /\ Watched(c) \/ lost[c]
      /\ c \in FChannels => power[c] \/ StartComing(c)
      /\ StopsAreOld(c)

AllAlive == HighPerformance => \A c \in Channels : Alive(c)

\* Where the commands are after one has been appended.
LEMMA AfterAppend ==
  ASSUME TypeOK, NEW cmd \in Command, queue' = Append(queue, cmd)
  PROVE  /\ Len(queue) \in Nat
         /\ DOMAIN queue = 1 .. Len(queue)
         /\ DOMAIN queue' = 1 .. Len(queue) + 1
         /\ \A i \in DOMAIN queue : i \in DOMAIN queue' /\ queue'[i] = queue[i]
         /\ Len(queue) + 1 \in DOMAIN queue'
         /\ queue'[Len(queue) + 1] = cmd
BY DEF TypeOK

(***************************************************************************)
(* A step that leaves the channel's timers and flags alone, appends nothing*)
(* but what is no Stop of the channel and takes no Stop in hand keeps the  *)
(* order of Stop and Start.                                                *)
(***************************************************************************)
LEMMA OrderKept ==
  ASSUME TypeOK, NEW c,
         UNCHANGED queue
           \/ \E cmd \in Command : ~IsStop(cmd, c) /\ queue' = Append(queue, cmd),
         cur' = cur \/ ~IsStop(cur', c),
         StopsAreOld(c)
  PROVE  StopsAreOld(c)'
<1>1. CASE UNCHANGED queue
  BY <1>1 DEF StopsAreOld
<1>2. ASSUME NEW cmd \in Command, ~IsStop(cmd, c), queue' = Append(queue, cmd)
      PROVE  StopsAreOld(c)'
  <2>1. /\ Len(queue) \in Nat
        /\ DOMAIN queue = 1 .. Len(queue)
        /\ DOMAIN queue' = 1 .. Len(queue) + 1
        /\ \A i \in DOMAIN queue : i \in DOMAIN queue' /\ queue'[i] = queue[i]
        /\ queue'[Len(queue) + 1] = cmd
    BY <1>2, AfterAppend
  <2>2. IsStop(cur, c)' => \E j \in DOMAIN queue' : IsStart0(queue'[j], c)
    <3>1. SUFFICES ASSUME IsStop(cur', c)
                   PROVE  \E j \in DOMAIN queue' : IsStart0(queue'[j], c)
      OBVIOUS
    <3>2. PICK j \in DOMAIN queue : IsStart0(queue[j], c)
      BY <3>1 DEF StopsAreOld
    <3>. QED
      BY <2>1, <3>2
  <2>3. ASSUME NEW i \in DOMAIN queue', IsStop(queue'[i], c)
        PROVE  \E j \in DOMAIN queue' : i < j /\ IsStart0(queue'[j], c)
    <3>0. i # Len(queue) + 1
      BY <1>2, <2>1, <2>3
    <3>1. i \in DOMAIN queue
      BY <2>1, <3>0
    <3>2. PICK j \in DOMAIN queue : i < j /\ IsStart0(queue[j], c)
      BY <2>1, <2>3, <3>1 DEF StopsAreOld
    <3>. QED
      BY <2>1, <3>2
  <2>. QED
    BY <2>2, <2>3 DEF StopsAreOld
<1>. QED
  BY <1>1, <1>2

LEMMA ComingKept ==
  ASSUME TypeOK, NEW c,
         UNCHANGED queue \/ \E cmd \in Command : queue' = Append(queue, cmd),
         cur' = cur \/ ~IsStart0(cur, c),
         StartComing(c)
  PROVE  StartComing(c)'
<1>1. CASE UNCHANGED queue
  BY <1>1 DEF StartComing
<1>2. ASSUME NEW cmd \in Command, queue' = Append(queue, cmd)
      PROVE  StartComing(c)'
  BY <1>2, AfterAppend DEF StartComing
<1>. QED
  BY <1>1, <1>2

(***************************************************************************)
(* A step that is not about the channel leaves it alive.                   *)
(***************************************************************************)
LEMMA AliveKept ==
  ASSUME TypeOK, NEW c \in Channels, Alive(c),
         UNCHANGED queue
           \/ \E cmd \in Command : ~IsStop(cmd, c) /\ queue' = Append(queue, cmd),
         guard[c] = "armed" /\ pend[c] # "stop"
           => (guard[c] = "armed" /\ pend[c] # "stop")' \/ (pend[c] = "start")',
         pend[c] = "start" => (pend[c] = "start" \/ (guard[c] = "armed" /\ pend[c] # "stop"))',
         lost[c] => lost'[c],
         enabled'[c] => enabled[c],
         c \in unsent => c \in unsent',
         c \in FChannels /\ power[c] => power'[c],
         cur.kind \in {"Start", "Timeout", "ReadA", "Finish"} /\ cur.ch = c
           => UNCHANGED cur,
         cur' = cur \/ cur'.kind # "Stop"
  PROVE  Alive(c)'
<1>. SUFFICES ASSUME enabled'[c], c \notin unsent' PROVE Alive(c)'
  BY DEF Alive
<1>1. /\ Watched(c) \/ lost[c]
      /\ c \in FChannels => power[c] \/ StartComing(c)
      /\ StopsAreOld(c)
  BY DEF Alive
<1>2. Watched(c)' \/ lost'[c]
  BY <1>1, WatchedKept
<1>3. StopsAreOld(c)'
  BY <1>1, OrderKept DEF IsStop
<1>4. StartComing(c) => StartComing(c)'
  BY ComingKept DEF IsStart0
<1>. QED
  BY <1>1, <1>2, <1>3, <1>4 DEF Alive

(***************************************************************************)
(* A channel that was just sent its Start is alive, a disabled one need    *)
(* not be.                                                                 *)
(***************************************************************************)
LEMMA StartedIsAlive ==
  ASSUME TypeOK, NEW c \in Channels, queue' = Append(queue, StartCmd(c, 0)), UNCHANGED cur
  PROVE  Alive(c)'
<1>1. /\ StartCmd(c, 0) \in Command
      /\ IsStart0(StartCmd(c, 0), c)
  BY ConstantsAssumption DEF StartCmd, Command, IsStart0
<1>. DEFINE n == Len(queue) + 1
<1>2. /\ Len(queue) \in Nat
      /\ DOMAIN queue' = 1 .. n
      /\ n \in DOMAIN queue'
      /\ queue'[n] = StartCmd(c, 0)
  BY <1>1, AfterAppend
<1>3. IsStart0(queue'[n], c)
  BY <1>1, <1>2
<1>4. StartComing(c)' /\ Watched(c)'
  BY <1>2, <1>3 DEF StartComing, Watched, InFlight, IsStart0
<1>5. \A i \in DOMAIN queue' : IsStop(queue'[i], c) => i < n
  <2>1. SUFFICES ASSUME NEW i \in DOMAIN queue', IsStop(queue'[i], c) PROVE i < n
    OBVIOUS
  <2>2. i # n
    BY <1>3, <2>1 DEF IsStart0, IsStop
  <2>. QED
    BY <1>2, <2>2
<1>6. StopsAreOld(c)'
  BY <1>2, <1>3, <1>5 DEF StopsAreOld
<1>. QED
  BY <1>4, <1>6 DEF Alive

LEMMA DisabledNeedNotBe ==
  ASSUME NEW c, ~enabled'[c]
  PROVE  Alive(c)'
BY DEF Alive

(***************************************************************************)
(* A restart watches its channel, diasble is called for a disabled one.    *)
(***************************************************************************)
LEMMA RestartAlive ==
  ASSUME TypeOK, NEW c \in Channels, Alive(c), NEW d \in FChannels, Restart(d),
         UNCHANGED <<queue, enabled, unsent>>,
         cur.ch = d, cur.kind # "Start", cur'.kind # "Stop"
  PROVE  Alive(c)'
<1>1. CASE c # d
  <2>1. /\ guard'[c] = guard[c] /\ pend'[c] = pend[c] /\ lost'[c] = lost[c]
        /\ power' = power
    BY <1>1 DEF Restart, TypeOK, Channels
  <2>. QED
    BY <1>1, <2>1, AliveKept
<1>2. CASE c = d
  <2>1. Watched(c)' /\ power' = power
    BY <1>2 DEF Restart, TypeOK, Watched, Channels
  <2>2. StopsAreOld(c) => StopsAreOld(c)'
    BY OrderKept DEF IsStop
  <2>3. StartComing(c) => StartComing(c)'
    BY ComingKept DEF IsStart0
  <2>. QED
    BY <2>1, <2>2, <2>3 DEF Alive
<1>. QED
  BY <1>1, <1>2

LEMMA DiasbleAlive ==
  ASSUME TypeOK, NEW c \in Channels, Alive(c), NEW d \in FChannels, Diasble(d),
         UNCHANGED <<queue, enabled, unsent>>,
         cur.ch = d, cur' = NoCommand, ~enabled[d]
  PROVE  Alive(c)'
<1>1. CASE c # d
  <2>1. /\ guard'[c] = guard[c] /\ pend'[c] = pend[c] /\ lost'[c] = lost[c]
        /\ c \in FChannels => power'[c] = power[c]
    BY <1>1 DEF Diasble, TypeOK, Channels
  <2>2. cur'.kind # "Stop"
    BY DEF NoCommand
  <2>. QED
    BY <1>1, <2>1, <2>2, AliveKept
<1>2. CASE c = d
  BY <1>2, DisabledNeedNotBe
<1>. QED
  BY <1>1, <1>2

(***************************************************************************)
(* The Start and Stop handlers.                                            *)
(***************************************************************************)
LEMMA StartHandlerAlive ==
  ASSUME TypeOK, NEW c \in Channels, Alive(c), HandleStartF
  PROVE  Alive(c)'
<1>0. /\ cur.kind = "Start" /\ cur.ch \in FChannels /\ cur.ch \in Channels
      /\ cur.count \in 0 .. StartCount
      /\ cur' = NoCommand /\ cur'.kind # "Stop"
      /\ UNCHANGED <<prev, guard, enabled, unsent, settings>>
  BY CurFields DEF HandleStartF, Done, NoCommand, userVars, Channels
<1>1. CASE cur.count = StartCount
  <2>1. /\ UNCHANGED <<queue, power>>
        /\ pend' = [pend EXCEPT ![cur.ch] = "start"]
        /\ lost' = [lost EXCEPT ![cur.ch] = FALSE]
    BY <1>1 DEF HandleStartF
  <2>2. ~IsStart0(cur, c)
    BY <1>1, ConstantsAssumption DEF IsStart0
  <2>3. CASE c # cur.ch
    BY <1>0, <2>1, <2>3, AliveKept DEF TypeOK
  <2>4. CASE c = cur.ch
    <3>1. Watched(c)'
      BY <2>1, <2>4 DEF Watched, TypeOK
    <3>2. StopsAreOld(c) => StopsAreOld(c)'
      BY <1>0, <2>1, OrderKept DEF IsStop
    <3>3. StartComing(c) => StartComing(c)'
      BY <2>1, <2>2, ComingKept
    <3>. QED
      BY <1>0, <2>1, <3>1, <3>2, <3>3 DEF Alive
  <2>. QED
    BY <2>3, <2>4
<1>2. CASE cur.count # StartCount
  <2>. DEFINE cmd == StartCmd(cur.ch, cur.count + 1)
  <2>1. cmd \in Command /\ cmd.kind = "Start" /\ cmd.ch = cur.ch
    BY <1>0, <1>2, ConstantsAssumption DEF StartCmd, Command
  <2>2. /\ power' = [power EXCEPT ![cur.ch] = @ \/ cur.count = 0]
        /\ SendOrDrop(cmd)
        /\ UNCHANGED pend
    BY <1>2 DEF HandleStartF
  <2>. HIDE DEF cmd
  <2>3. UNCHANGED queue \/ queue' = Append(queue, cmd)
    BY <2>2 DEF SendOrDrop
  <2>4. ~IsStop(cmd, c)
    BY <2>1 DEF IsStop
  <2>5. CASE c # cur.ch
    <3>1. lost'[c] = lost[c] /\ (c \in FChannels => power'[c] = power[c])
      BY <1>0, <2>1, <2>2, <2>5 DEF SendOrDrop, TypeOK
    <3>. QED
      BY <1>0, <2>1, <2>2, <2>3, <2>4, <2>5, <3>1, AliveKept
  <2>6. CASE c = cur.ch
    <3>1. Watched(c)' \/ lost'[c]
      <4>1. CASE queue' = Append(queue, cmd)
        BY <2>1, <2>6, <4>1, AfterAppend DEF Watched, InFlight
      <4>2. CASE ~HasRoom
        BY <2>1, <2>2, <2>6, <4>2 DEF SendOrDrop, TypeOK
      <4>. QED
        BY <2>2, <4>1, <4>2 DEF SendOrDrop
    <3>2. StopsAreOld(c) => StopsAreOld(c)'
      BY <1>0, <2>1, <2>3, <2>4, OrderKept DEF IsStop
    <3>3. power[c] \/ StartComing(c) => power'[c] \/ StartComing(c)'
      <4>1. CASE cur.count = 0 \/ power[c]
        BY <1>0, <2>2, <2>6, <4>1 DEF TypeOK
      <4>2. CASE cur.count # 0
        <5>1. ~IsStart0(cur, c)
          BY <4>2 DEF IsStart0
        <5>2. StartComing(c) => StartComing(c)'
          BY <2>1, <2>3, <5>1, ComingKept
        <5>. QED
          BY <4>1, <5>2
      <4>. QED
        BY <4>1, <4>2
    <3>. QED
      BY <1>0, <3>1, <3>2, <3>3 DEF Alive
  <2>. QED
    BY <2>5, <2>6
<1>. QED
  BY <1>1, <1>2

\* The Start behind a Stop keeps the stopped channel alive.
LEMMA StoppedIsStarted ==
  ASSUME NEW c, Alive(c), IsStop(cur, c),
         UNCHANGED <<queue, enabled, unsent>>, cur' = NoCommand
  PROVE  Alive(c)'
<1>. SUFFICES ASSUME enabled[c], c \notin unsent PROVE Alive(c)'
  BY DEF Alive
<1>1. StopsAreOld(c)
  BY DEF Alive
<1>2. PICK j \in DOMAIN queue : IsStart0(queue[j], c)
  BY <1>1 DEF StopsAreOld
<1>3. StartComing(c)' /\ Watched(c)'
  BY <1>2 DEF StartComing, Watched, InFlight, IsStart0
<1>4. StopsAreOld(c)'
  BY <1>1 DEF StopsAreOld, IsStop, NoCommand
<1>. QED
  BY <1>3, <1>4 DEF Alive

LEMMA StopHandlerAlive ==
  ASSUME TypeOK, NEW c \in Channels, Alive(c), HandleStopF
  PROVE  Alive(c)'
<1>1. /\ cur.kind = "Stop" /\ cur.ch \in FChannels /\ cur.ch \in Channels
      /\ Diasble(cur.ch)
      /\ cur' = NoCommand /\ cur'.kind # "Stop"
      /\ UNCHANGED <<queue, enabled, unsent>>
  BY DEF HandleStopF, Done, NoCommand, userVars, Channels
<1>2. CASE c = cur.ch
  BY <1>1, <1>2, StoppedIsStarted DEF IsStop
<1>3. CASE c # cur.ch
  <2>1. /\ guard'[c] = guard[c] /\ pend'[c] = pend[c] /\ lost'[c] = lost[c]
        /\ c \in FChannels => power'[c] = power[c]
    BY <1>1, <1>3 DEF Diasble, TypeOK
  <2>. QED
    BY <1>1, <1>3, <2>1, AliveKept
<1>. QED
  BY <1>2, <1>3

LEMMA AnalogHandlerAlive ==
  ASSUME TypeOK, NEW c \in Channels, Alive(c), HandleAnalog
  PROVE  Alive(c)'
<1>1. /\ cur.kind \in {"Start", "Stop"} /\ cur.ch \in AChannels /\ cur.ch \in Channels
      /\ cur.ch \notin FChannels
      /\ pend' = [pend EXCEPT ![cur.ch] = IF cur.kind = "Start" THEN "start" ELSE "stop"]
      /\ lost' = [lost EXCEPT ![cur.ch] = FALSE]
      /\ cur' = NoCommand /\ cur'.kind # "Stop"
      /\ UNCHANGED <<queue, enabled, unsent, guard, power>>
  BY ConstantsAssumption DEF HandleAnalog, Done, NoCommand, userVars, ctrlVars, Channels
<1>2. CASE c # cur.ch
  <2>1. pend'[c] = pend[c] /\ lost'[c] = lost[c]
    BY <1>1, <1>2 DEF TypeOK
  <2>. QED
    BY <1>1, <1>2, <2>1, AliveKept
<1>3. CASE c = cur.ch /\ cur.kind = "Stop"
  BY <1>1, <1>3, StoppedIsStarted DEF IsStop
<1>4. CASE c = cur.ch /\ cur.kind = "Start"
  <2>1. Watched(c)'
    BY <1>1, <1>4 DEF Watched, TypeOK
  <2>2. StopsAreOld(c) => StopsAreOld(c)'
    BY <1>1, OrderKept DEF IsStop
  <2>. QED
    BY <1>1, <1>4, <2>1, <2>2 DEF Alive
<1>. QED
  BY <1>1, <1>2, <1>3, <1>4

(***************************************************************************)
(* Taking the next command from the queue changes no order.                *)
(***************************************************************************)
LEMMA ReceiveAlive ==
  ASSUME TypeOK, NEW c \in Channels, Alive(c), Receive
  PROVE  Alive(c)'
<1>. SUFFICES ASSUME enabled[c], c \notin unsent PROVE Alive(c)'
  BY DEF Alive, Receive, userVars
<1>1. /\ UNCHANGED <<power, guard, pend, lost, enabled, unsent>>
      /\ cur = NoCommand
  BY DEF Receive, ctrlVars, timerVars, userVars
<1>2. /\ Len(queue) \in Nat
      /\ DOMAIN queue = 1 .. Len(queue)
      /\ DOMAIN queue' = 1 .. Len(queue) - 1
      /\ \A k \in 1 .. Len(queue) - 1 : queue'[k] = queue[k + 1]
      /\ cur' = queue[1]
  BY DEF TypeOK, Receive
<1>3. Watched(c) => Watched(c)'
  <2>1. InFlight(c, {"Start", "Timeout", "ReadA", "Finish"})
          => InFlight(c, {"Start", "Timeout", "ReadA", "Finish"})'
    <3>1. cur.kind \notin {"Start", "Timeout", "ReadA", "Finish"}
      BY <1>1 DEF NoCommand
    <3>. SUFFICES ASSUME InFlight(c, {"Start", "Timeout", "ReadA", "Finish"})
                  PROVE  InFlight(c, {"Start", "Timeout", "ReadA", "Finish"})'
      OBVIOUS
    <3>2. \E i \in DOMAIN queue : /\ queue[i].kind \in {"Start", "Timeout", "ReadA", "Finish"}
                                  /\ queue[i].ch = c
      BY <3>1 DEF InFlight
    <3>. QED
      BY <3>2, ReceiveKeepsInFlight
  <2>. QED
    BY <1>1, <2>1 DEF Watched
\* What is at j > 1 moves one place on.
<1>4. \A j \in DOMAIN queue : 1 < j => j - 1 \in DOMAIN queue' /\ queue'[j - 1] = queue[j]
  BY <1>2
<1>5. StartComing(c) => StartComing(c)'
  <2>1. SUFFICES ASSUME StartComing(c) PROVE StartComing(c)'
    OBVIOUS
  <2>2. PICK j \in DOMAIN queue : IsStart0(queue[j], c)
    BY <1>1, <2>1 DEF StartComing, IsStart0, NoCommand
  <2>3. CASE j = 1
    BY <1>2, <2>2, <2>3 DEF StartComing
  <2>4. CASE j # 1
    <3>1. 1 < j
      BY <1>2, <2>4
    <3>. QED
      BY <1>4, <2>2, <3>1 DEF StartComing
  <2>. QED
    BY <2>3, <2>4
<1>6. StopsAreOld(c) => StopsAreOld(c)'
  <2>1. SUFFICES ASSUME StopsAreOld(c) PROVE StopsAreOld(c)'
    OBVIOUS
  <2>2. IsStop(cur', c) => \E j \in DOMAIN queue' : IsStart0(queue'[j], c)
    <3>1. SUFFICES ASSUME IsStop(cur', c) PROVE \E j \in DOMAIN queue' : IsStart0(queue'[j], c)
      OBVIOUS
    <3>2. 1 \in DOMAIN queue
      BY <1>2 DEF Receive, TypeOK
    <3>3. PICK j \in DOMAIN queue : 1 < j /\ IsStart0(queue[j], c)
      BY <1>2, <2>1, <3>1, <3>2 DEF StopsAreOld
    <3>. QED
      BY <1>4, <3>3
  <2>3. ASSUME NEW i \in DOMAIN queue', IsStop(queue'[i], c)
        PROVE  \E j \in DOMAIN queue' : i < j /\ IsStart0(queue'[j], c)
    <3>1. i + 1 \in DOMAIN queue /\ queue'[i] = queue[i + 1] /\ i \in Nat /\ 1 <= i
      BY <1>2
    <3>2. PICK j \in DOMAIN queue : i + 1 < j /\ IsStart0(queue[j], c)
      BY <2>1, <2>3, <3>1 DEF StopsAreOld
    <3>3. j \in Nat /\ 1 < j /\ i < j - 1
      BY <1>2, <3>1, <3>2
    <3>. QED
      BY <1>4, <3>2, <3>3
  <2>. QED
    BY <2>2, <2>3 DEF StopsAreOld
<1>. QED
  BY <1>1, <1>3, <1>5, <1>6 DEF Alive

(***************************************************************************)
(* Every step of high-performance mode keeps every channel alive.          *)
(***************************************************************************)
LEMMA ThreadKeepsAlive ==
  ASSUME TypeOK, HighPerformance, \A e \in Channels : Alive(e), SensorThread
  PROVE  \A c \in Channels : Alive(c)'
<1>. SUFFICES ASSUME NEW c \in Channels PROVE Alive(c)'
  OBVIOUS
<1>. USE CurFields
<1>1. CASE Receive
  BY <1>1, ReceiveAlive
<1>2. CASE HandleStartF
  BY <1>2, StartHandlerAlive
<1>3. CASE HandleStopF
  BY <1>3, StopHandlerAlive
<1>4. CASE HandleAnalog
  BY <1>4, AnalogHandlerAlive
<1>5. CASE HandleWraped
  <2>1. cur'.kind # "Stop" /\ UNCHANGED <<enabled, unsent>>
    BY <1>5 DEF HandleWraped, Done, NoCommand, userVars
  <2>. QED
    BY <1>5, <2>1, RestartAlive DEF HandleWraped
<1>6. CASE HandleStartEdge
  <2>1. cur'.kind # "Stop" /\ UNCHANGED <<queue, power, guard, pend, lost, enabled, unsent>>
    BY <1>6 DEF HandleStartEdge, Done, NoCommand, userVars, timerVars
  <2>2. cur.kind = "Ready"
    BY <1>6 DEF HandleStartEdge
  <2>. QED
    BY <2>1, <2>2, AliveKept
<1>7. CASE HandleResult
  <2>1. cur'.kind # "Stop" /\ UNCHANGED <<queue, enabled, unsent>> /\ cur.kind = "Ready"
    BY <1>7 DEF HandleResult, IsResult, Done, NoCommand, FinishCmd, userVars
  <2>2. CASE ContinueWork(cur.ch)
    BY <1>7, <2>1, <2>2, RestartAlive DEF HandleResult
  <2>3. CASE ~ContinueWork(cur.ch)
    BY <1>7, <2>1, <2>3, DiasbleAlive DEF HandleResult, ContinueWork, Done
  <2>. QED
    BY <2>2, <2>3
<1>8. CASE HandleTimeout
  <2>1. cur'.kind # "Stop" /\ UNCHANGED <<queue, enabled, unsent>> /\ cur.kind = "Timeout"
    BY <1>8 DEF HandleTimeout, Done, NoCommand, FinishCmd, userVars
  <2>2. CASE ContinueWork(cur.ch)
    BY <1>8, <2>1, <2>2, RestartAlive DEF HandleTimeout
  <2>3. CASE ~ContinueWork(cur.ch)
    BY <1>8, <2>1, <2>3, DiasbleAlive DEF HandleTimeout, ContinueWork, Done
  <2>. QED
    BY <2>2, <2>3
<1>9. CASE FinishRestart
  <2>1. cur'.kind # "Stop" /\ UNCHANGED <<enabled, unsent>>
    BY <1>9 DEF FinishRestart, Done, NoCommand, userVars
  <2>. QED
    BY <1>9, <2>1, RestartAlive DEF FinishRestart
<1>10. CASE HandleReadA
  <2>1. /\ cur.kind = "ReadA" /\ cur.ch \in AChannels /\ cur.ch \in Channels
        /\ cur.ch \notin FChannels
        /\ cur' = NoCommand /\ cur'.kind # "Stop"
        /\ UNCHANGED <<queue, power, guard, lost, enabled, unsent>>
        /\ \/ pend' = [pend EXCEPT ![cur.ch] = "start"]
           \/ pend' = pend /\ ~enabled[cur.ch]
    BY <1>10, ConstantsAssumption
       DEF HandleReadA, Done, NoCommand, ctrlVars, userVars, Channels
  <2>2. CASE c # cur.ch
    <3>1. pend'[c] = pend[c]
      BY <2>1, <2>2 DEF TypeOK
    <3>. QED
      BY <2>1, <2>2, <3>1, AliveKept
  <2>3. CASE c = cur.ch /\ enabled[c]
    <3>1. Watched(c)'
      BY <2>1, <2>3 DEF Watched, TypeOK
    <3>2. StopsAreOld(c) => StopsAreOld(c)'
      BY <2>1, OrderKept DEF IsStop
    <3>. QED
      BY <2>1, <2>3, <3>1, <3>2 DEF Alive
  <2>4. CASE c = cur.ch /\ ~enabled[c]
    BY <2>1, <2>4, DisabledNeedNotBe
  <2>. QED
    BY <2>2, <2>3, <2>4
<1>. QED
  BY <1>1, <1>2, <1>3, <1>4, <1>5, <1>6, <1>7, <1>8, <1>9, <1>10 DEF SensorThread

LEMMA ClientsKeepAlive ==
  ASSUME TypeOK, HighPerformance, NEW c \in Channels, Alive(c),
         NEW d \in Channels, Clients(d)
  PROVE  Alive(c)'
<1>1. /\ StartCmd(d, 0) \in Command /\ StopCmd(d) \in Command
      /\ ~IsStop(StartCmd(d, 0), c)
      /\ c # d => ~IsStop(StopCmd(d), c)
  BY ConstantsAssumption DEF StartCmd, StopCmd, Command, IsStop
<1>2. UNCHANGED <<cur, power, guard, pend, lost>>
  BY DEF Clients, RecorderStart, RecorderStop, BootSend, UserEnable, UserEnableSend,
         UserDisable, ctrlVars, timerVars
<1>3. CASE BootSend(d)
  <2>1. /\ queue' = Append(queue, IF enabled[d] THEN StartCmd(d, 0) ELSE StopCmd(d))
        /\ unsent' = unsent \ {d}
        /\ UNCHANGED enabled
    BY <1>3 DEF BootSend, Send
  <2>2. CASE c # d
    <3>1. \E cmd \in Command : ~IsStop(cmd, c) /\ queue' = Append(queue, cmd)
      BY <1>1, <2>1, <2>2
    <3>. QED
      BY <1>2, <2>1, <2>2, <3>1, AliveKept
  <2>3. CASE c = d /\ enabled[c]
    BY <1>2, <2>1, <2>3, StartedIsAlive
  <2>4. CASE c = d /\ ~enabled[c]
    BY <2>1, <2>4, DisabledNeedNotBe
  <2>. QED
    BY <2>2, <2>3, <2>4
<1>4. CASE UserEnable(d)
  BY <1>2, <1>4, AliveKept DEF UserEnable
<1>5. CASE UserEnableSend(d)
  <2>1. /\ queue' = Append(queue, StartCmd(d, 0))
        /\ enabled' = [enabled EXCEPT ![d] = TRUE]
        /\ UNCHANGED unsent
    BY <1>5 DEF UserEnableSend, Send
  <2>2. CASE c = d
    BY <1>2, <2>1, <2>2, StartedIsAlive
  <2>3. CASE c # d
    <3>1. enabled'[c] = enabled[c]
      BY <2>1, <2>3 DEF TypeOK
    <3>2. \E cmd \in Command : ~IsStop(cmd, c) /\ queue' = Append(queue, cmd)
      BY <1>1, <2>1
    <3>. QED
      BY <1>2, <2>1, <3>1, <3>2, AliveKept
  <2>. QED
    BY <2>2, <2>3
<1>6. CASE UserDisable(d)
  <2>1. enabled' = [enabled EXCEPT ![d] = FALSE] /\ UNCHANGED <<queue, unsent>>
    BY <1>6 DEF UserDisable
  <2>2. enabled'[c] => enabled[c]
    BY <2>1 DEF TypeOK
  <2>. QED
    BY <1>2, <2>1, <2>2, AliveKept
<1>. QED
  BY <1>3, <1>4, <1>5, <1>6 DEF Clients, RecorderStart, RecorderStop

LEMMA StepAlive == TypeOK /\ AllAlive /\ [Next]_vars => AllAlive'
<1>. SUFFICES ASSUME TypeOK, HighPerformance, \A e \in Channels : Alive(e), [Next]_vars
              PROVE  \A c \in Channels : Alive(c)'
  BY DEF AllAlive
<1>1. CASE SensorThread
  BY <1>1, ThreadKeepsAlive
<1>2. CASE ~SensorThread
  <2>. SUFFICES ASSUME NEW c \in Channels PROVE Alive(c)'
    OBVIOUS
  <2>1. CASE UNCHANGED vars
    BY <2>1, AliveKept DEF vars, hwVars, ctrlVars, timerVars, userVars
  <2>2. ASSUME NEW d \in FChannels, Capture(d) PROVE Alive(c)'
    <3>1. PICK w \in BOOLEAN, ev \in {"Start", "Stop"} :
            queue' = IF HasRoom THEN Append(queue, ReadyCmd(d, ev, w)) ELSE queue
      BY <2>2, ConstantsAssumption DEF Capture
    <3>2. ReadyCmd(d, ev, w) \in Command /\ ~IsStop(ReadyCmd(d, ev, w), c)
      BY DEF ReadyCmd, Command, TypeOK, IsStop
    <3>3. UNCHANGED <<cur, power, guard, pend, lost, enabled, unsent>>
      BY <2>2 DEF Capture, ctrlVars, timerVars, userVars
    <3>. QED
      BY <3>1, <3>2, <3>3, AliveKept
  <2>3. ASSUME NEW d \in Channels, Expire(d) PROVE Alive(c)'
    <3>. DEFINE cmd == IF d \in FChannels THEN TimeoutCmd(d) ELSE ReadACmd(d)
    <3>1. /\ cmd \in Command /\ cmd.ch = d
          /\ cmd.kind \in {"Timeout", "ReadA"}
          /\ ~IsStop(cmd, c)
      BY DEF TimeoutCmd, ReadACmd, Command, Channels, IsStop
    <3>2. /\ SendOrDrop(cmd)
          /\ guard' = [guard EXCEPT ![d] = "off"]
          /\ UNCHANGED <<cur, power, pend, enabled, unsent>>
      BY <2>3 DEF Expire, ctrlVars, userVars
    <3>. HIDE DEF cmd
    <3>3. UNCHANGED queue \/ queue' = Append(queue, cmd)
      BY <3>2 DEF SendOrDrop
    <3>4. CASE c # d
      <4>1. guard'[c] = guard[c] /\ lost'[c] = lost[c]
        BY <3>1, <3>2, <3>4 DEF SendOrDrop, TypeOK
      <4>. QED
        BY <3>1, <3>2, <3>3, <4>1, AliveKept
    <3>5. CASE c = d
      <4>1. Watched(c)' \/ lost'[c]
        <5>1. CASE queue' = Append(queue, cmd)
          BY <3>1, <3>5, <5>1, AfterAppend DEF Watched, InFlight
        <5>2. CASE ~HasRoom
          BY <3>1, <3>2, <3>5, <5>2 DEF SendOrDrop, TypeOK
        <5>. QED
          BY <3>2, <5>1, <5>2 DEF SendOrDrop
      <4>2. StopsAreOld(c) => StopsAreOld(c)'
        BY <3>1, <3>2, <3>3, OrderKept
      <4>3. StartComing(c) => StartComing(c)'
        BY <3>1, <3>2, <3>3, ComingKept
      <4>. QED
        BY <3>2, <4>1, <4>2, <4>3 DEF Alive
    <3>. QED
      BY <3>4, <3>5
  <2>4. ASSUME NEW d \in Channels, TimerDaemon(d) PROVE Alive(c)'
    <3>1. /\ UNCHANGED <<queue, cur, power, lost, enabled, unsent>>
          /\ pend[d] # "none"
          /\ guard' = [guard EXCEPT ![d] = IF pend[d] = "start" THEN "armed" ELSE "off"]
          /\ pend' = [pend EXCEPT ![d] = "none"]
      BY <2>4 DEF TimerDaemon, ctrlVars, userVars
    <3>2. /\ guard[c] = "armed" /\ pend[c] # "stop"
               => guard'[c] = "armed" /\ pend'[c] # "stop"
          /\ pend[c] = "start"
               => pend'[c] = "start" \/ (guard'[c] = "armed" /\ pend'[c] # "stop")
      <4>1. CASE c # d
        BY <3>1, <4>1 DEF TypeOK
      <4>2. CASE c = d
        <5>1. pend'[c] = "none" /\ guard'[c] = IF pend[c] = "start" THEN "armed" ELSE "off"
          BY <3>1, <4>2 DEF TypeOK
        <5>2. pend[c] \in {"start", "stop"}
          BY <3>1, <4>2 DEF TypeOK
        <5>. QED
          BY <5>1, <5>2
      <4>. QED
        BY <4>1, <4>2
    <3>. QED
      BY <3>1, <3>2, AliveKept
  <2>5. ASSUME NEW d \in Channels, Clients(d) PROVE Alive(c)'
    BY <2>5, ClientsKeepAlive
  <2>. QED
    BY <1>2, <2>1, <2>2, <2>3, <2>4, <2>5 DEF Next
<1>. QED
  BY <1>1, <1>2

(***************************************************************************)
(* In high-performance mode a channel the settings enable is powered, or   *)
(* its Start is on its way, and it is watched: no interleaving of boot,    *)
(* enable, disable, results and timeouts leaves an enabled channel dead    *)
(* (update_settings, process_f_result, process_f_signal_lost).             *)
(***************************************************************************)
THEOREM EnabledChannelIsAlive == Spec => []EnabledChannelLives
<1>1. Init => AllAlive
  BY DEF Init, AllAlive, Alive
<1>2. AllAlive => EnabledChannelLives
  <2>1. \A c : StartComing(c) => InFlight(c, {"Start"})
    BY DEF StartComing, InFlight, IsStart0
  <2>. QED
    BY <2>1 DEF AllAlive, Alive, EnabledChannelLives
<1>. QED
  BY <1>1, <1>2, SensorProcessorType, StepAlive, PTL DEF Spec

-----------------------------------------------------------------------------

(***************************************************************************)
(* The commands input_captured has still to see, in their order: the one   *)
(* being handled, at place 0, then the queue.  Kept are the captures of a  *)
(* channel without the wraped flag.                                        *)
(***************************************************************************)
line == [k \in 0 .. Len(queue) |-> IF k = 0 THEN cur ELSE queue[k]]

Kept(cmd, c)    == cmd.kind = "Ready" /\ cmd.ch = c /\ ~cmd.wraped
StartOf(n, cmd) == cmd.cycle = n /\ cmd.ev = "Start"

\* In line s the last capture of c before place i is the Start of cycle n; if
\* there is none, edge p is.
Paired(p, s, c, n, i) ==
    \/ \E j \in 0 .. i - 1 : /\ Kept(s[j], c) /\ StartOf(n, s[j])
                             /\ \A k \in 0 .. i - 1 : j < k => ~Kept(s[k], c)
    \/ /\ \A k \in 0 .. i - 1 : ~Kept(s[k], c)
       /\ p = [cycle |-> n, ev |-> "Start"]

\* Every Stop on its way follows the Start of its own cycle, if that was posted.
StopsPaired(c) ==
    \A i \in 0 .. Len(queue) : Kept(line[i], c) /\ line[i].ev = "Stop" =>
       /\ line[i].first # "none"
       /\ line[i].first = "posted" => Paired(prev[c], line, c, line[i].cycle, i)

\* So will the Stop the timer has yet to capture.
TimerPaired(c) ==
    opm[c] =>
       /\ first[c] # "none"
       /\ cen[c] /\ first[c] = "posted"
            => Paired(prev[c], line, c, cycle[c], Len(queue) + 1)

CyclesPaired == \A c \in FChannels : StopsPaired(c) /\ TimerPaired(c)

(***************************************************************************)
(* The capture before a place stays what it is when the captures before    *)
(* the place do.                                                           *)
(***************************************************************************)
LEMMA PairedKept ==
  ASSUME NEW p, NEW s, NEW t, NEW c, NEW n, NEW i \in Nat, Paired(p, s, c, n, i),
         \A k \in 0 .. i - 1 : /\ Kept(t[k], c) <=> Kept(s[k], c)
                               /\ Kept(s[k], c) => t[k] = s[k]
  PROVE  Paired(p, t, c, n, i)
<1>1. CASE \E j \in 0 .. i - 1 : /\ Kept(s[j], c) /\ StartOf(n, s[j])
                                 /\ \A k \in 0 .. i - 1 : j < k => ~Kept(s[k], c)
  <2>1. PICK j \in 0 .. i - 1 : /\ Kept(s[j], c) /\ StartOf(n, s[j])
                                /\ \A k \in 0 .. i - 1 : j < k => ~Kept(s[k], c)
    BY <1>1
  <2>. QED
    BY <2>1 DEF Paired
<1>2. CASE (\A k \in 0 .. i - 1 : ~Kept(s[k], c)) /\ p = [cycle |-> n, ev |-> "Start"]
  BY <1>2 DEF Paired
<1>. QED
  BY <1>1, <1>2 DEF Paired

\* A place that holds no capture of the channel may be passed over.
LEMMA PairedPassesOver ==
  ASSUME NEW p, NEW s, NEW c, NEW n, NEW i \in Nat, Paired(p, s, c, n, i), ~Kept(s[i], c)
  PROVE  Paired(p, s, c, n, i + 1)
<1>0. \A k \in 0 .. (i + 1) - 1 : k \in 0 .. i - 1 \/ k = i
  OBVIOUS
<1>1. CASE \E j \in 0 .. i - 1 : /\ Kept(s[j], c) /\ StartOf(n, s[j])
                                 /\ \A k \in 0 .. i - 1 : j < k => ~Kept(s[k], c)
  <2>1. PICK j \in 0 .. i - 1 : /\ Kept(s[j], c) /\ StartOf(n, s[j])
                                /\ \A k \in 0 .. i - 1 : j < k => ~Kept(s[k], c)
    BY <1>1
  <2>2. /\ j \in 0 .. (i + 1) - 1
        /\ \A k \in 0 .. (i + 1) - 1 : j < k => ~Kept(s[k], c)
    BY <1>0, <2>1
  <2>. QED
    BY <2>1, <2>2 DEF Paired
<1>2. CASE (\A k \in 0 .. i - 1 : ~Kept(s[k], c)) /\ p = [cycle |-> n, ev |-> "Start"]
  <2>1. \A k \in 0 .. (i + 1) - 1 : ~Kept(s[k], c)
    BY <1>0, <1>2
  <2>. QED
    BY <1>2, <2>1 DEF Paired
<1>. QED
  BY <1>1, <1>2 DEF Paired

\* A Start at a place is the capture before the next place.
LEMMA StartPairs ==
  ASSUME NEW p, NEW s, NEW c, NEW n, NEW i \in Nat, Kept(s[i], c), StartOf(n, s[i])
  PROVE  Paired(p, s, c, n, i + 1)
<1>1. i \in 0 .. (i + 1) - 1 /\ \A k \in 0 .. (i + 1) - 1 : ~(i < k)
  OBVIOUS
<1>. QED
  BY <1>1 DEF Paired

(***************************************************************************)
(* The line after a command has been posted, or the queue left alone.      *)
(***************************************************************************)
LEMMA LineAppended ==
  ASSUME TypeOK, NEW cmd \in Command, queue' = Append(queue, cmd)
  PROVE  /\ Len(queue) \in Nat
         /\ Len(queue') = Len(queue) + 1
         /\ line[0] = cur /\ line'[0] = cur'
         /\ \A k \in 1 .. Len(queue) : line[k] = queue[k] /\ line'[k] = line[k]
         /\ line'[Len(queue) + 1] = cmd
BY DEF TypeOK, line

LEMMA LineAlone ==
  ASSUME TypeOK, UNCHANGED queue
  PROVE  /\ Len(queue) \in Nat
         /\ Len(queue') = Len(queue)
         /\ line[0] = cur /\ line'[0] = cur'
         /\ \A k \in 1 .. Len(queue) : line'[k] = line[k]
BY DEF TypeOK, line

(***************************************************************************)
(* A step that takes no capture of the channel in hand or out of it and    *)
(* posts none leaves the channel's captures in the line alone.             *)
(***************************************************************************)
LineCalm(c) ==
    /\ UNCHANGED queue
         \/ \E cmd \in Command : ~Kept(cmd, c) /\ queue' = Append(queue, cmd)
    /\ cur' = cur \/ (~Kept(cur, c) /\ ~Kept(cur', c))
    /\ prev'[c] = prev[c]

LEMMA CalmLine ==
  ASSUME TypeOK, NEW c, LineCalm(c)
  PROVE  /\ Len(queue) \in Nat
         /\ \/ Len(queue') = Len(queue)
            \/ Len(queue') = Len(queue) + 1 /\ ~Kept(line'[Len(queue) + 1], c)
         /\ \A k \in 0 .. Len(queue) : /\ Kept(line'[k], c) <=> Kept(line[k], c)
                                       /\ Kept(line[k], c) => line'[k] = line[k]
<1>1. \A k \in 0 .. Len(queue) : k = 0 \/ k \in 1 .. Len(queue)
  BY DEF TypeOK
<1>2. CASE UNCHANGED queue
  BY <1>1, <1>2, LineAlone DEF LineCalm
<1>3. ASSUME NEW cmd \in Command, ~Kept(cmd, c), queue' = Append(queue, cmd)
      PROVE  /\ Len(queue) \in Nat
             /\ Len(queue') = Len(queue) + 1 /\ ~Kept(line'[Len(queue) + 1], c)
             /\ \A k \in 0 .. Len(queue) : /\ Kept(line'[k], c) <=> Kept(line[k], c)
                                           /\ Kept(line[k], c) => line'[k] = line[k]
  BY <1>1, <1>3, LineAppended DEF LineCalm
<1>. QED
  BY <1>2, <1>3 DEF LineCalm

LEMMA CalmKeepsPaired ==
  ASSUME TypeOK, NEW c, LineCalm(c),
         NEW x, NEW i \in 0 .. Len(queue) + 1, Paired(prev[c], line, c, x, i)
  PROVE  Paired(prev'[c], line', c, x, i)
<1>. DEFINE n == Len(queue)
<1>1. /\ n \in Nat
      /\ \A k \in 0 .. n : /\ Kept(line'[k], c) <=> Kept(line[k], c)
                           /\ Kept(line[k], c) => line'[k] = line[k]
  BY CalmLine
<1>. HIDE DEF n
<1>2. i \in Nat /\ \A k \in 0 .. i - 1 : k \in 0 .. n
  BY <1>1 DEF n
<1>. QED
  BY <1>1, <1>2, PairedKept DEF LineCalm

LEMMA StopsKeepPaired ==
  ASSUME TypeOK, NEW c, StopsPaired(c), LineCalm(c)
  PROVE  StopsPaired(c)'
<1>. DEFINE n == Len(queue)
            m == Len(queue')
<1>1. /\ n \in Nat
      /\ m = n \/ (m = n + 1 /\ ~Kept(line'[n + 1], c))
      /\ \A k \in 0 .. n : /\ Kept(line'[k], c) <=> Kept(line[k], c)
                           /\ Kept(line[k], c) => line'[k] = line[k]
  BY CalmLine
<1>. HIDE DEF n, m
<1>2. ASSUME NEW i \in 0 .. m, Kept(line'[i], c), line'[i].ev = "Stop"
      PROVE  /\ line'[i].first # "none"
             /\ line'[i].first = "posted" => Paired(prev'[c], line', c, line'[i].cycle, i)
  <2>1. i \in 0 .. n /\ i \in 0 .. n + 1
    BY <1>1, <1>2
  <2>2. Kept(line[i], c) /\ line'[i] = line[i]
    BY <1>1, <1>2, <2>1
  <2>3. /\ line[i].first # "none"
        /\ line[i].first = "posted" => Paired(prev[c], line, c, line[i].cycle, i)
    BY <1>2, <2>1, <2>2 DEF StopsPaired, n
  <2>. QED
    BY <2>1, <2>2, <2>3, CalmKeepsPaired DEF n
<1>. QED
  BY <1>2 DEF StopsPaired, m

(***************************************************************************)
(* If such a step lets no other cycle of the channel's timer pass for this *)
(* one, what the timer has yet to capture stays paired too.                *)
(***************************************************************************)
\* The timer of c waits for no other capture than it did before.
TimerCalm(c) ==
    opm'[c] => /\ opm[c] /\ first'[c] = first[c]
               /\ cen'[c] => cen[c] /\ cycle'[c] = cycle[c]

LEMMA OthersKeepCycles ==
  ASSUME TypeOK, NEW c, StopsPaired(c), TimerPaired(c), LineCalm(c), TimerCalm(c)
  PROVE  StopsPaired(c)' /\ TimerPaired(c)'
<1>. DEFINE n == Len(queue)
            m == Len(queue')
<1>1. n \in Nat /\ (m = n \/ (m = n + 1 /\ ~Kept(line'[n + 1], c)))
  BY CalmLine
<1>. HIDE DEF n, m
<1>2. ASSUME opm'[c]
      PROVE  /\ first'[c] # "none"
             /\ cen'[c] /\ first'[c] = "posted"
                  => Paired(prev'[c], line', c, cycle'[c], m + 1)
  <2>1. first'[c] # "none"
    BY <1>2 DEF TimerPaired, TimerCalm
  <2>2. ASSUME cen'[c], first'[c] = "posted"
        PROVE  Paired(prev'[c], line', c, cycle'[c], m + 1)
    <3>1. Paired(prev[c], line, c, cycle'[c], n + 1) /\ n + 1 \in 0 .. n + 1
      BY <1>1, <1>2, <2>2 DEF TimerPaired, TimerCalm, n
    <3>2. Paired(prev'[c], line', c, cycle'[c], n + 1)
      BY <3>1, CalmKeepsPaired DEF n
    <3>3. CASE m = n
      BY <3>2, <3>3
    <3>4. CASE m = n + 1 /\ ~Kept(line'[n + 1], c)
      <4>1. n + 1 \in Nat
        BY <1>1
      <4>. QED
        BY <3>2, <3>4, <4>1, PairedPassesOver
    <3>. QED
      BY <1>1, <3>3, <3>4
  <2>. QED
    BY <2>1, <2>2
<1>. QED
  BY <1>2, StopsKeepPaired DEF TimerPaired, m

(***************************************************************************)
(* A capture of the channel itself: its Start is the last capture on the   *)
(* way, its Stop was going to be paired before it was captured.            *)
(***************************************************************************)
LEMMA CaptureKeepsCycles ==
  ASSUME TypeOK, CycleNames # 1, NEW c \in FChannels, StopsPaired(c), TimerPaired(c),
         Capture(c)
  PROVE  StopsPaired(c)' /\ TimerPaired(c)'
<1>. DEFINE ev == IF opm[c] THEN "Stop" ELSE "Start"
            n  == Len(queue)
<1>1. PICK w \in BOOLEAN :
        /\ queue' = IF HasRoom THEN Append(queue, ReadyCmd(c, ev, w)) ELSE queue
        /\ first'[c] = IF opm[c] THEN first[c]
                       ELSE IF ~HasRoom THEN "dropped" ELSE IF w THEN "wraped" ELSE "posted"
  BY ConstantsAssumption DEF Capture, TypeOK
<1>2. /\ cen[c] /\ cen'[c] = ~opm[c] /\ opm'[c]
      /\ UNCHANGED <<cur, cycle, prev>>
      /\ opm[c] \in BOOLEAN
  BY DEF Capture, TypeOK, ctrlVars
<1>. DEFINE cmd == ReadyCmd(c, ev, w)
<1>3. /\ cmd \in Command
      /\ cmd.kind = "Ready" /\ cmd.ch = c /\ cmd.wraped = w /\ cmd.ev = ev
      /\ cmd.cycle = cycle[c] /\ cmd.first = first[c]
  BY DEF ReadyCmd, Command, TypeOK
<1>4. first'[c] # "none"
  BY <1>1, <1>2 DEF TimerPaired
<1>. HIDE DEF cmd
<1>5. CASE ~HasRoom \/ w
  <2>1. ~Kept(cmd, c) \/ ~HasRoom
    BY <1>3, <1>5 DEF Kept
  <2>2. LineCalm(c)
    BY <1>1, <1>2, <1>3, <2>1 DEF cmd, LineCalm
  <2>3. CASE opm[c]
    BY <1>1, <1>2, <2>2, <2>3, OthersKeepCycles DEF TimerCalm
  <2>4. CASE ~opm[c]
    \* The Start did not get through: nothing is promised about its cycle.
    <3>1. first'[c] # "posted"
      BY <1>1, <1>5, <2>4
    <3>2. TimerPaired(c)'
      BY <1>4, <3>1 DEF TimerPaired
    <3>3. StopsPaired(c)'
      BY <2>2, StopsKeepPaired
    <3>. QED
      BY <3>2, <3>3
  <2>. QED
    BY <1>2, <2>3, <2>4
<1>6. CASE HasRoom /\ ~w
  <2>1. queue' = Append(queue, cmd)
    BY <1>1, <1>6 DEF cmd
  <2>2. /\ n \in Nat
        /\ Len(queue') = n + 1
        /\ \A k \in 0 .. n : line'[k] = line[k]
        /\ line'[n + 1] = cmd
        /\ Kept(cmd, c)
    <3>1. \A k \in 0 .. n : k = 0 \/ k \in 1 .. n
      OBVIOUS
    <3>2. Kept(cmd, c)
      BY <1>3, <1>6 DEF Kept
    <3>. QED
      BY <1>2, <1>3, <2>1, <3>1, <3>2, LineAppended
  <2>. HIDE DEF n
  <2>3. ASSUME NEW x, NEW i \in 0 .. n + 1, Paired(prev[c], line, c, x, i)
        PROVE  Paired(prev'[c], line', c, x, i)
    <3>1. i \in Nat /\ \A k \in 0 .. i - 1 : k \in 0 .. n
      BY <2>2
    <3>. QED
      BY <1>2, <2>2, <2>3, <3>1, PairedKept
  <2>4. ASSUME NEW i \in 0 .. n, Kept(line[i], c), line[i].ev = "Stop"
        PROVE  /\ line[i].first # "none"
               /\ line[i].first = "posted" => Paired(prev'[c], line', c, line[i].cycle, i)
    <3>1. /\ line[i].first # "none"
          /\ line[i].first = "posted" => Paired(prev[c], line, c, line[i].cycle, i)
      BY <2>4 DEF StopsPaired, n
    <3>2. i \in 0 .. n + 1
      BY <2>2
    <3>. QED
      BY <2>3, <3>1, <3>2
  <2>5. ASSUME opm[c]
        PROVE  /\ cmd.first # "none"
               /\ cmd.first = "posted" => Paired(prev'[c], line', c, cmd.cycle, n + 1)
    <3>1. /\ first[c] # "none"
          /\ first[c] = "posted" => Paired(prev[c], line, c, cycle[c], n + 1)
      BY <1>2, <2>5 DEF TimerPaired, n
    <3>2. n + 1 \in 0 .. n + 1
      BY <2>2
    <3>. QED
      BY <1>3, <2>3, <3>1, <3>2
  <2>6. StopsPaired(c)'
    <3>. SUFFICES ASSUME NEW i \in 0 .. n + 1, Kept(line'[i], c), line'[i].ev = "Stop"
                  PROVE  /\ line'[i].first # "none"
                         /\ line'[i].first = "posted"
                              => Paired(prev'[c], line', c, line'[i].cycle, i)
      BY <2>2 DEF StopsPaired
    <3>1. CASE i \in 0 .. n
      BY <2>2, <2>4, <3>1
    <3>2. CASE i = n + 1
      <4>1. opm[c]
        BY <1>3, <2>2, <3>2
      <4>. QED
        BY <2>2, <2>5, <3>2, <4>1
    <3>. QED
      BY <2>2, <3>1, <3>2
  <2>7. TimerPaired(c)'
    <3>1. CASE opm[c]
      BY <1>2, <1>4, <3>1 DEF TimerPaired
    <3>2. CASE ~opm[c]
      <4>1. StartOf(cycle'[c], line'[n + 1]) /\ Kept(line'[n + 1], c)
        BY <1>2, <1>3, <2>2, <3>2 DEF StartOf
      <4>2. n + 1 \in Nat
        BY <2>2
      <4>3. Paired(prev'[c], line', c, cycle'[c], n + 1 + 1)
        BY <4>1, <4>2, StartPairs
      <4>. QED
        BY <1>4, <2>2, <4>3 DEF TimerPaired
    <3>. QED
      BY <1>2, <3>1, <3>2
  <2>. QED
    BY <2>6, <2>7
<1>. QED
  BY <1>1, <1>5, <1>6

(***************************************************************************)
(* Taking the next command from the queue: the line moves up by one place. *)
(***************************************************************************)
LEMMA ReceiveKeepsCycles ==
  ASSUME TypeOK, NEW c, StopsPaired(c), TimerPaired(c), Receive
  PROVE  StopsPaired(c)' /\ TimerPaired(c)'
<1>. DEFINE n == Len(queue) - 1
<1>1. /\ n \in Nat
      /\ Len(queue) = n + 1
      /\ Len(queue') = n
      /\ \A k \in 0 .. n : line'[k] = line[k + 1]
      /\ line[0] = NoCommand
  BY DEF TypeOK, Receive, line
<1>. HIDE DEF n
<1>2. ~Kept(line[0], c)
  BY <1>1 DEF Kept, NoCommand
<1>3. UNCHANGED <<prev, opm, cen, first, cycle>>
  BY DEF Receive, ctrlVars, hwVars
<1>4. ASSUME NEW x, NEW i \in 0 .. n + 1, Paired(prev[c], line, c, x, i + 1)
      PROVE  Paired(prev'[c], line', c, x, i)
  <2>0. i \in Nat /\ \A k \in 0 .. i - 1 : k \in 0 .. n /\ k + 1 \in 0 .. (i + 1) - 1
    BY <1>1
  <2>1. CASE \E j \in 0 .. (i + 1) - 1 :
               /\ Kept(line[j], c) /\ StartOf(x, line[j])
               /\ \A k \in 0 .. (i + 1) - 1 : j < k => ~Kept(line[k], c)
    <3>1. PICK j \in 0 .. (i + 1) - 1 :
            /\ Kept(line[j], c) /\ StartOf(x, line[j])
            /\ \A k \in 0 .. (i + 1) - 1 : j < k => ~Kept(line[k], c)
      BY <2>1
    <3>2. j # 0
      BY <1>2, <3>1
    <3>. DEFINE h == j - 1
    <3>3. h \in 0 .. i - 1 /\ h \in 0 .. n /\ h + 1 = j
      BY <1>1, <2>0, <3>2
    <3>4. \A k \in 0 .. i - 1 : h < k => j < k + 1
      BY <2>0, <3>3
    <3>. HIDE DEF h
    <3>5. Kept(line'[h], c) /\ StartOf(x, line'[h])
      BY <1>1, <3>1, <3>3
    <3>6. \A k \in 0 .. i - 1 : h < k => ~Kept(line'[k], c)
      BY <1>1, <2>0, <3>1, <3>4
    <3>. QED
      BY <3>3, <3>5, <3>6 DEF Paired
  <2>2. CASE /\ \A k \in 0 .. (i + 1) - 1 : ~Kept(line[k], c)
             /\ prev[c] = [cycle |-> x, ev |-> "Start"]
    <3>1. \A k \in 0 .. i - 1 : ~Kept(line'[k], c)
      BY <1>1, <2>0, <2>2
    <3>. QED
      BY <1>3, <2>2, <3>1 DEF Paired
  <2>. QED
    BY <1>4, <2>1, <2>2 DEF Paired
<1>5. ASSUME NEW i \in 0 .. n, Kept(line'[i], c), line'[i].ev = "Stop"
      PROVE  /\ line'[i].first # "none"
             /\ line'[i].first = "posted" => Paired(prev'[c], line', c, line'[i].cycle, i)
  <2>1. i \in 0 .. n + 1 /\ i + 1 \in 0 .. Len(queue) /\ line'[i] = line[i + 1]
    BY <1>1
  <2>2. /\ line[i + 1].first # "none"
        /\ line[i + 1].first = "posted" => Paired(prev[c], line, c, line[i + 1].cycle, i + 1)
    BY <1>5, <2>1 DEF StopsPaired
  <2>. QED
    BY <1>4, <2>1, <2>2
<1>6. ASSUME opm'[c]
      PROVE  /\ first'[c] # "none"
             /\ cen'[c] /\ first'[c] = "posted"
                  => Paired(prev'[c], line', c, cycle'[c], n + 1)
  <2>1. /\ first[c] # "none"
        /\ cen[c] /\ first[c] = "posted"
             => Paired(prev[c], line, c, cycle[c], n + 1 + 1)
    BY <1>1, <1>3, <1>6 DEF TimerPaired
  <2>2. n + 1 \in 0 .. n + 1
    BY <1>1
  <2>. QED
    BY <1>3, <1>4, <2>1, <2>2
<1>. QED
  BY <1>1, <1>5, <1>6 DEF StopsPaired, TimerPaired

(***************************************************************************)
(* input_captured stores the capture in prev: what came behind it in the   *)
(* line is paired as before.                                               *)
(***************************************************************************)
LEMMA TakenKeepsPaired ==
  ASSUME TypeOK, CycleNames # 1, NEW c, NEW x, NEW i \in 1 .. Len(queue) + 1,
         UNCHANGED queue, ~Kept(cur', c),
         Kept(cur, c), prev'[c] = EdgeOf(cur),
         Paired(prev[c], line, c, x, i)
  PROVE  Paired(prev'[c], line', c, x, i)
<1>1. /\ Len(queue) \in Nat
      /\ line[0] = cur /\ line'[0] = cur'
      /\ \A k \in 1 .. Len(queue) : line'[k] = line[k]
      /\ i \in Nat /\ 0 \in 0 .. i - 1
      /\ \A k \in 0 .. i - 1 : k = 0 \/ k \in 1 .. Len(queue)
  BY LineAlone
<1>2. PICK j \in 0 .. i - 1 : /\ Kept(line[j], c) /\ StartOf(x, line[j])
                              /\ \A k \in 0 .. i - 1 : j < k => ~Kept(line[k], c)
  BY <1>1 DEF Paired
<1>3. CASE j = 0
  <2>1. \A k \in 0 .. i - 1 : k # 0 => 0 < k
    OBVIOUS
  <2>2. \A k \in 0 .. i - 1 : ~Kept(line'[k], c)
    BY <1>1, <1>2, <1>3, <2>1
  <2>3. prev'[c] = [cycle |-> x, ev |-> "Start"]
    BY <1>1, <1>2, <1>3 DEF StartOf, EdgeOf
  <2>. QED
    BY <2>2, <2>3 DEF Paired
<1>4. CASE j # 0
  <2>1. Kept(line'[j], c) /\ StartOf(x, line'[j])
    BY <1>1, <1>2, <1>4
  <2>2. \A k \in 0 .. i - 1 : j < k => ~Kept(line'[k], c)
    BY <1>1, <1>2
  <2>. QED
    BY <2>1, <2>2 DEF Paired
<1>. QED
  BY <1>3, <1>4

LEMMA TakenKeepsCycles ==
  ASSUME TypeOK, CycleNames # 1, NEW c, StopsPaired(c), TimerPaired(c),
         UNCHANGED queue, ~Kept(cur', c),
         Kept(cur, c), prev'[c] = EdgeOf(cur), TimerCalm(c)
  PROVE  StopsPaired(c)' /\ TimerPaired(c)'
<1>1. /\ Len(queue) \in Nat
      /\ line'[0] = cur'
      /\ \A k \in 1 .. Len(queue) : line'[k] = line[k]
      /\ \A k \in 0 .. Len(queue) : k = 0 \/ k \in 1 .. Len(queue)
      /\ \A k \in 1 .. Len(queue) : k \in 1 .. Len(queue) + 1 /\ k \in 0 .. Len(queue)
      /\ Len(queue) + 1 \in 1 .. Len(queue) + 1
  BY LineAlone
<1>2. ASSUME NEW i \in 0 .. Len(queue), Kept(line'[i], c), line'[i].ev = "Stop"
      PROVE  /\ line'[i].first # "none"
             /\ line'[i].first = "posted" => Paired(prev'[c], line', c, line'[i].cycle, i)
  <2>1. i \in 1 .. Len(queue)
    BY <1>1, <1>2
  <2>2. i \in 1 .. Len(queue) + 1 /\ i \in 0 .. Len(queue) /\ line'[i] = line[i]
    BY <1>1, <2>1
  <2>3. /\ line[i].first # "none"
        /\ line[i].first = "posted" => Paired(prev[c], line, c, line[i].cycle, i)
    BY <1>2, <2>2 DEF StopsPaired
  <2>. QED
    BY <2>2, <2>3, TakenKeepsPaired
<1>3. ASSUME opm'[c]
      PROVE  /\ first'[c] # "none"
             /\ cen'[c] /\ first'[c] = "posted"
                  => Paired(prev'[c], line', c, cycle'[c], Len(queue) + 1)
  <2>1. first'[c] # "none"
    BY <1>3 DEF TimerPaired, TimerCalm
  <2>2. ASSUME cen'[c], first'[c] = "posted"
        PROVE  Paired(prev'[c], line', c, cycle'[c], Len(queue) + 1)
    BY <1>1, <1>3, <2>2, TakenKeepsPaired DEF TimerPaired, TimerCalm
  <2>. QED
    BY <2>1, <2>2
<1>. QED
  BY <1>2, <1>3 DEF StopsPaired, TimerPaired

(***************************************************************************)
(* Restarting a channel or turning it off ends the wait for its Stop, and  *)
(* touches no other channel's timer.                                       *)
(***************************************************************************)
LEMMA ColdStartCalm ==
  ASSUME TypeOK, NEW c \in FChannels, NEW d \in FChannels, ColdStart(d)
  PROVE  TimerCalm(c)
<1>1. CASE c = d
  BY <1>1 DEF ColdStart, TypeOK, TimerCalm
<1>2. CASE c # d
  BY <1>2 DEF ColdStart, TypeOK, TimerCalm
<1>. QED
  BY <1>1, <1>2

LEMMA RestartCalm ==
  ASSUME TypeOK, NEW c \in FChannels, NEW d \in FChannels, Restart(d) \/ Diasble(d)
  PROVE  TimerCalm(c)
<1>1. CASE Restart(d)
  BY <1>1, ColdStartCalm DEF Restart
<1>2. CASE Diasble(d)
  BY <1>2 DEF Diasble, TypeOK, TimerCalm
<1>. QED
  BY <1>1, <1>2

(***************************************************************************)
(* Every step keeps the cycles of every channel apart.                     *)
(***************************************************************************)
LEMMA ThreadKeepsCycles ==
  ASSUME TypeOK, CycleNames # 1, NEW c \in FChannels, StopsPaired(c), TimerPaired(c),
         SensorThread
  PROVE  StopsPaired(c)' /\ TimerPaired(c)'
<1>. USE CurFields
<1>none. ~Kept(NoCommand, c) /\ ~Kept(FinishCmd(cur.ch), c)
  BY DEF Kept, NoCommand, FinishCmd
<1>calm. LineCalm(c) /\ TimerCalm(c) => StopsPaired(c)' /\ TimerPaired(c)'
  BY OthersKeepCycles
<1>1. CASE Receive
  BY <1>1, ReceiveKeepsCycles
<1>2. CASE HandleStartF
  <2>1. /\ cur.kind = "Start" /\ cur.ch \in FChannels
        /\ cur' = NoCommand /\ UNCHANGED prev
    BY <1>2 DEF HandleStartF, Done
  <2>2. CASE cur.count = StartCount
    <3>1. UNCHANGED queue /\ ColdStart(cur.ch)
      BY <1>2, <2>2 DEF HandleStartF
    <3>2. TimerCalm(c)
      BY <2>1, <3>1, ColdStartCalm
    <3>. QED
      BY <1>none, <1>calm, <2>1, <3>1, <3>2 DEF LineCalm, Kept
  <2>3. CASE cur.count # StartCount
    <3>. DEFINE cmd == StartCmd(cur.ch, cur.count + 1)
    <3>1. cmd \in Command /\ ~Kept(cmd, c)
      BY <2>1, <2>3, ConstantsAssumption DEF StartCmd, Command, Kept, Channels
    <3>2. SendOrDrop(cmd) /\ UNCHANGED <<cen, opm, cycle, first>>
      BY <1>2, <2>3 DEF HandleStartF, hwVars
    <3>. HIDE DEF cmd
    <3>3. UNCHANGED queue \/ queue' = Append(queue, cmd)
      BY <3>2 DEF SendOrDrop
    <3>4. LineCalm(c)
      BY <1>none, <2>1, <3>1, <3>3 DEF LineCalm, Kept
    <3>. QED
      BY <1>calm, <3>2, <3>4 DEF TimerCalm
  <2>. QED
    BY <2>2, <2>3
<1>3. CASE HandleStopF
  <2>1. LineCalm(c)
    BY <1>3, <1>none DEF HandleStopF, Done, LineCalm, Kept
  <2>2. TimerCalm(c)
    BY <1>3, RestartCalm DEF HandleStopF
  <2>. QED
    BY <1>calm, <2>1, <2>2
<1>4. CASE HandleAnalog \/ HandleReadA
  <2>1. LineCalm(c)
    BY <1>4, <1>none DEF HandleAnalog, HandleReadA, Done, LineCalm, Kept, ctrlVars
  <2>2. TimerCalm(c)
    BY <1>4 DEF HandleAnalog, HandleReadA, TimerCalm, hwVars
  <2>. QED
    BY <1>calm, <2>1, <2>2
<1>5. CASE HandleWraped
  <2>1. LineCalm(c)
    BY <1>5, <1>none DEF HandleWraped, Done, LineCalm, Kept
  <2>2. TimerCalm(c)
    BY <1>5, RestartCalm DEF HandleWraped
  <2>. QED
    BY <1>calm, <2>1, <2>2
<1>6. CASE HandleStartEdge
  <2>1. /\ cur.kind = "Ready" /\ ~cur.wraped /\ cur.ch \in FChannels
        /\ prev' = [prev EXCEPT ![cur.ch] = EdgeOf(cur)]
        /\ cur' = NoCommand
        /\ UNCHANGED <<queue, cen, opm, cycle, first>>
    BY <1>6 DEF HandleStartEdge, Done, hwVars
  <2>2. TimerCalm(c)
    BY <2>1 DEF TimerCalm
  <2>3. CASE cur.ch = c
    BY <1>none, <2>1, <2>2, <2>3, TakenKeepsCycles DEF Kept, TypeOK
  <2>4. CASE cur.ch # c
    BY <1>none, <1>calm, <2>1, <2>2, <2>4 DEF LineCalm, Kept, TypeOK
  <2>. QED
    BY <2>3, <2>4
<1>7. CASE HandleResult
  <2>1. /\ cur.kind = "Ready" /\ ~cur.wraped /\ cur.ch \in FChannels
        /\ prev' = [prev EXCEPT ![cur.ch] = EdgeOf(cur)]
        /\ ~Kept(cur', c)
        /\ UNCHANGED queue
    BY <1>7, <1>none DEF HandleResult, IsResult, Done
  <2>2. TimerCalm(c)
    BY <1>7, <2>1, RestartCalm DEF HandleResult
  <2>3. CASE cur.ch = c
    BY <2>1, <2>2, <2>3, TakenKeepsCycles DEF Kept, TypeOK
  <2>4. CASE cur.ch # c
    BY <1>calm, <2>1, <2>2, <2>4 DEF LineCalm, Kept, TypeOK
  <2>. QED
    BY <2>3, <2>4
<1>8. CASE HandleTimeout
  <2>1. LineCalm(c)
    BY <1>8, <1>none DEF HandleTimeout, Done, LineCalm, Kept
  <2>2. TimerCalm(c)
    BY <1>8, RestartCalm DEF HandleTimeout
  <2>. QED
    BY <1>calm, <2>1, <2>2
<1>9. CASE FinishRestart
  <2>1. LineCalm(c)
    BY <1>9, <1>none DEF FinishRestart, Done, LineCalm, Kept
  <2>2. TimerCalm(c)
    BY <1>9, RestartCalm DEF FinishRestart
  <2>. QED
    BY <1>calm, <2>1, <2>2
<1>. QED
  BY <1>1, <1>2, <1>3, <1>4, <1>5, <1>6, <1>7, <1>8, <1>9 DEF SensorThread

LEMMA StepCycles == CycleNames # 1 /\ TypeOK /\ CyclesPaired /\ [Next]_vars => CyclesPaired'
<1>. SUFFICES ASSUME CycleNames # 1, TypeOK, CyclesPaired, [Next]_vars,
                     NEW c \in FChannels
              PROVE  StopsPaired(c)' /\ TimerPaired(c)'
  BY DEF CyclesPaired
<1>0. StopsPaired(c) /\ TimerPaired(c)
  BY DEF CyclesPaired
<1>1. CASE SensorThread
  BY <1>0, <1>1, ThreadKeepsCycles
<1>2. CASE UNCHANGED vars
  BY <1>0, <1>2, OthersKeepCycles DEF vars, hwVars, ctrlVars, LineCalm, TimerCalm
<1>3. ASSUME NEW d \in FChannels, Capture(d) PROVE StopsPaired(c)' /\ TimerPaired(c)'
  <2>1. CASE c = d
    BY <1>0, <1>3, <2>1, CaptureKeepsCycles
  <2>2. CASE c # d
    <3>1. PICK w \in BOOLEAN, ev \in {"Start", "Stop"} :
            queue' = IF HasRoom THEN Append(queue, ReadyCmd(d, ev, w)) ELSE queue
      BY <1>3, ConstantsAssumption DEF Capture
    <3>2. ReadyCmd(d, ev, w) \in Command /\ ~Kept(ReadyCmd(d, ev, w), c)
      BY <2>2 DEF ReadyCmd, Command, TypeOK, Kept
    <3>3. LineCalm(c)
      BY <1>3, <3>1, <3>2 DEF LineCalm, Capture, ctrlVars
    <3>4. TimerCalm(c)
      BY <1>3, <2>2 DEF Capture, TypeOK, TimerCalm
    <3>. QED
      BY <1>0, <3>3, <3>4, OthersKeepCycles
  <2>. QED
    BY <2>1, <2>2
<1>4. ASSUME NEW d \in Channels, Expire(d) PROVE StopsPaired(c)' /\ TimerPaired(c)'
  <2>. DEFINE cmd == IF d \in FChannels THEN TimeoutCmd(d) ELSE ReadACmd(d)
  <2>1. cmd \in Command /\ ~Kept(cmd, c)
    BY DEF TimeoutCmd, ReadACmd, Command, Channels, Kept
  <2>2. SendOrDrop(cmd) /\ UNCHANGED <<cur, prev, cen, opm, cycle, first>>
    BY <1>4 DEF Expire, hwVars, ctrlVars
  <2>. HIDE DEF cmd
  <2>3. LineCalm(c)
    BY <2>1, <2>2 DEF SendOrDrop, LineCalm
  <2>. QED
    BY <1>0, <2>2, <2>3, OthersKeepCycles DEF TimerCalm
<1>5. ASSUME NEW d \in Channels, TimerDaemon(d) PROVE StopsPaired(c)' /\ TimerPaired(c)'
  BY <1>0, <1>5, OthersKeepCycles DEF TimerDaemon, hwVars, ctrlVars, LineCalm, TimerCalm
<1>6. ASSUME NEW d \in Channels, Clients(d) PROVE StopsPaired(c)' /\ TimerPaired(c)'
  <2>1. /\ StartCmd(d, 0) \in Command /\ StopCmd(d) \in Command
        /\ ~Kept(StartCmd(d, 0), c) /\ ~Kept(StopCmd(d), c)
    BY ConstantsAssumption DEF StartCmd, StopCmd, Command, Kept
  <2>2. /\ UNCHANGED <<cur, prev, cen, opm, cycle, first>>
        /\ \/ UNCHANGED queue
           \/ queue' = Append(queue, StartCmd(d, 0))
           \/ queue' = Append(queue, StopCmd(d))
    BY <1>6 DEF Clients, RecorderStart, RecorderStop, BootSend, UserEnable,
                UserEnableSend, UserDisable, Send, hwVars, ctrlVars
  <2>3. LineCalm(c)
    BY <2>1, <2>2 DEF LineCalm
  <2>. QED
    BY <1>0, <2>2, <2>3, OthersKeepCycles DEF TimerCalm
<1>. QED
  BY <1>1, <1>2, <1>3, <1>4, <1>5, <1>6 DEF Next

(***************************************************************************)
(* input_captured never sees a Stop capture of a cycle that captured no    *)
(* Start, and subtracts the Start of the same cycle whenever that capture  *)
(* reached it unwraped: no restart, timeout, target change or dropped      *)
(* command mixes two cycles of a channel (FreqmeterController::            *)
(* input_captured, the DMA interrupt handlers, cold_start).  The cycles    *)
(* need names of their own to tell them apart.                             *)
(***************************************************************************)
THEOREM ResultsAreOneCycle == CycleNames # 1 => (Spec => []ResultIsOneCycle)
<1>. SUFFICES ASSUME CycleNames # 1 PROVE Spec => []ResultIsOneCycle
  OBVIOUS
<1>1. Init => CyclesPaired
  <2>. SUFFICES ASSUME Init PROVE CyclesPaired
    OBVIOUS
  <2>1. Len(queue) = 0 /\ \A i \in 0 .. Len(queue) : line[i] = NoCommand
    BY DEF Init, line
  <2>2. \A c \in FChannels : StopsPaired(c)
    BY <2>1 DEF StopsPaired, Kept, NoCommand
  <2>3. \A c \in FChannels : TimerPaired(c)
    BY DEF Init, TimerPaired
  <2>. QED
    BY <2>2, <2>3 DEF CyclesPaired
<1>2. TypeOK /\ CyclesPaired => ResultIsOneCycle
  <2>. SUFFICES ASSUME TypeOK, CyclesPaired, IsResult(cur)
                PROVE  /\ cur.first # "none"
                       /\ cur.first = "posted" =>
                            prev[cur.ch] = [cycle |-> cur.cycle, ev |-> "Start"]
    BY DEF ResultIsOneCycle
  <2>. DEFINE c == cur.ch
  <2>1. /\ c \in FChannels /\ Kept(cur, c) /\ cur.ev = "Stop"
        /\ line[0] = cur /\ 0 \in 0 .. Len(queue)
    BY CurFields DEF IsResult, Kept, TypeOK, line
  <2>. HIDE DEF c
  <2>2. /\ cur.first # "none"
        /\ cur.first = "posted" => Paired(prev[c], line, c, cur.cycle, 0)
    BY <2>1 DEF CyclesPaired, StopsPaired
  <2>3. Paired(prev[c], line, c, cur.cycle, 0) => prev[c] = [cycle |-> cur.cycle, ev |-> "Start"]
    BY DEF Paired
  <2>. QED
    BY <2>2, <2>3 DEF c
<1>3. TypeOK /\ CyclesPaired /\ [Next]_vars => CyclesPaired'
  BY StepCycles
<1>. QED
  BY <1>1, <1>2, <1>3, SensorProcessorType, PTL DEF Spec

=============================================================================
