----------------------- MODULE RecorderSchedule_proofs -----------------------
(* Theorems about RecorderSchedule, for all periods, preheat times, page    *)
(* sizes and durations of the handlers.                                     *)
EXTENDS RecorderSchedule, Integers, TLAPS

(***************************************************************************)
(* The page ends before the u32 counters of ToWriteCounter wrap: two events*)
(* for each sample, each after at most a period, with handlers of at most  *)
(* MaxDone ticks.                                                          *)
(***************************************************************************)
RoundFits(B)   == \A p \in Periods : p + MaxDone <= B
PageEndsInTime == \E B \in Nat : RoundFits(B) /\ 2 * PageSamples * B <= CounterSpan

-----------------------------------------------------------------------------
(* The invariant *)

\* Where the controller is once the event of a channel has been handled.
Handled(c) == pc \in (IF c = "P" THEN {"T", "advance"} ELSE {"advance"})

Asleep(c) == IF state[c] = "Sleeping" THEN 1 ELSE 0

\* Every sample and every preheat of a page raises this by one at least.
Events == 2 * filled - Asleep("P") - Asleep("T")

Due(c) == c \in enabled /\ (WantsPreheat(c) \/ WantsSample(c))

\* Since the page began, at most B ticks have been counted for each event.
Paced(B) ==
  LET Counters(n) == \A c \in Chs : counter[c] <= n
      Slept       == B - MaxDone - 1
  IN  /\ pc = "sleep" => Counters(Events * B)
      /\ pc = "P" => Counters(Events * B + Slept) /\ \E c \in Chs : Due(c)
      /\ pc = "T" => \/ Counters((Events - 1) * B + Slept)
                     \/ Counters(Events * B + Slept) /\ Due("T")
      /\ pc = "advance" => Counters((Events - 1) * B + Slept)

Bounds ==
    /\ Collecting => filled < PageSamples
    /\ sampled \subseteq enabled

\* What the power of a channel has to do with its state.
Power(c) ==
    /\ ~HeatMeasureStop(c) => state[c] = "Ready"
    /\ Collecting /\ state[c] = "Sleeping" => ~on[c]
    /\ Collecting /\ state[c] = "Heating" => on[c]

PowerInTime(c) ==
    /\ pc \in {"page", "finish"} /\ ~slow => on[c]
    /\ Collecting /\ state[c] = "Ready" /\ ~slow => on[c]

\* A sleeping channel has its preheat time ahead, or was sampled this moment.
SleepsEarly(c) ==
    Collecting /\ ~slow /\ state[c] = "Sleeping" =>
      \/ ~Handled(c) /\ ToWrite(c) >= preheat[c]
      \/ Handled(c) /\ (ToWrite(c) = 0 \/ ToWrite(c) > preheat[c])

\* A channel that was due has been sampled.
NoneSkipped(c) ==
    Handled(c) /\ ToWrite(c) = 0 =>
       /\ c \in sampled /\ since[c] = 0
       /\ HeatMeasureStop(c) => state[c] = "Sleeping"

\* Since a sample as much time has passed as was counted, or a whole period.
PeriodPassed(c) ==
    Collecting /\ c \in sampled =>
      \/ since[c] >= period[c]
      \/ /\ since[c] >= counter[c] % period[c]
         /\ counter[c] % period[c] = 0 => Handled(c)

\* Exactly as much, while the handlers take no time.
PeriodExact(c) ==
    Collecting /\ ~slow /\ c \in sampled =>
      \/ since[c] = period[c] - ToWrite(c)
      \/ Handled(c) /\ ToWrite(c) = 0

\* A channel that sleeps no more is warm by its next sample.
Warm(c) ==
    /\ pc = "boot2" => /\ heat[c] + ShortestPreheat >= preheat[c]
                       /\ preheat[c] # ShortestPreheat => on[c]
    /\ pc \notin {"boot", "boot2"} /\ ~HeatMeasureStop(c) => on[c] /\ heat[c] = preheat[c]
    /\ Collecting /\ ~slow /\ c \in sampled /\ HeatMeasureStop(c) =>
         /\ state[c] # "Ready"
         /\ state[c] = "Heating" => heat[c] + ToWrite(c) >= preheat[c]

ChannelInv(c) ==
    /\ Power(c) /\ PowerInTime(c) /\ SleepsEarly(c) /\ NoneSkipped(c)
    /\ PeriodPassed(c) /\ PeriodExact(c) /\ Warm(c)

Schedule == \A c \in enabled : ChannelInv(c)

-----------------------------------------------------------------------------
(* Arithmetic *)

LEMMA Multiple ==
  ASSUME NEW p \in Nat \ {0}, NEW v \in Nat
  PROVE  (p * v) % p = 0
OBVIOUS

\* Counting on within a period, and to its end.
LEMMA WithinPeriod ==
  ASSUME NEW p \in Nat \ {0}, NEW k \in Nat, NEW t \in Nat
  PROVE  /\ k % p \in 0 .. p - 1
         /\ (k % p) + t < p => (k + t) % p = (k % p) + t
         /\ (k % p) + t = p => (k + t) % p = 0
<1>. DEFINE r == k % p
            q == k \div p
<1>1. r \in 0 .. p - 1 /\ q \in Nat /\ k = p * q + r
  OBVIOUS
<1>. HIDE DEF r, q
<1>2. CASE r + t < p
  <2>1. k + t = p * q + (r + t) /\ r + t \in 0 .. p - 1
    BY <1>1, <1>2
  <2>. QED
    BY <1>1, <1>2, <2>1 DEF r
<1>3. CASE r + t = p
  <2>0. p * (q + 1) = p * q + p
    BY <1>1
  <2>1. k + t = p * (q + 1) /\ q + 1 \in Nat
    BY <1>1, <1>3, <2>0
  <2>2. (k + t) % p = 0
    BY <2>1, Multiple
  <2>. QED
    BY <1>1, <1>3, <2>2 DEF r
<1>. QED
  BY <1>1, <1>2, <1>3 DEF r

\* The time left to the next sample, as a function of period and counter.
Left(p, k) == (p - (k % p)) % p

LEMMA LeftIs ==
  ASSUME NEW p \in Nat \ {0}, NEW k \in Nat
  PROVE  /\ Left(p, k) \in 0 .. p - 1
         /\ k % p \in 0 .. p - 1
         /\ Left(p, k) = 0 <=> k % p = 0
         /\ k % p # 0 => Left(p, k) = p - (k % p)
<1>. DEFINE r == k % p
<1>1. r \in 0 .. p - 1
  BY WithinPeriod
<1>2. (p - r) % p \in 0 .. p - 1 /\ (r = 0 => (p - r) % p = 0) /\ (r # 0 => (p - r) % p = p - r)
  <2>. HIDE DEF r
  <2>1. CASE r = 0
    BY <2>1
  <2>2. CASE r # 0
    <3>1. p - r \in 0 .. p - 1
      BY <1>1, <2>2
    <3>2. \A x \in 0 .. p - 1 : x % p = x
      OBVIOUS
    <3>. QED
      BY <2>2, <3>1, <3>2
  <2>. QED
    BY <2>1, <2>2
<1>. HIDE DEF r
<1>. QED
  BY <1>1, <1>2 DEF Left, r

LEMMA LeftAfter ==
  ASSUME NEW p \in Nat \ {0}, NEW k \in Nat, NEW t \in Nat
  PROVE  /\ t <= Left(p, k) => Left(p, k + t) = Left(p, k) - t
         /\ Left(p, k) = 0 /\ 1 <= t /\ t <= p => Left(p, k + t) = p - t
<1>. DEFINE r == k % p
            s == (k + t) % p
            a == Left(p, k)
            b == Left(p, k + t)
<1>1. /\ r \in 0 .. p - 1
      /\ r + t < p => s = r + t
      /\ r + t = p => s = 0
  BY WithinPeriod
<1>2. /\ a \in 0 .. p - 1 /\ (a = 0 <=> r = 0) /\ (r # 0 => a = p - r)
  BY LeftIs
<1>3. /\ b \in 0 .. p - 1 /\ (b = 0 <=> s = 0) /\ (s # 0 => b = p - s)
  <2>1. k + t \in Nat
    OBVIOUS
  <2>. QED
    BY <2>1, LeftIs
<1>. HIDE DEF r, s, a, b
<1>4. t <= a => b = a - t
  <2>1. CASE r = 0
    BY <1>1, <1>2, <1>3, <2>1
  <2>2. CASE r # 0 /\ t < a
    BY <1>1, <1>2, <1>3, <2>2
  <2>3. CASE r # 0 /\ t = a
    BY <1>1, <1>2, <1>3, <2>3
  <2>. QED
    BY <1>1, <1>2, <2>1, <2>2, <2>3
<1>5. a = 0 /\ 1 <= t /\ t <= p => b = p - t
  BY <1>1, <1>2, <1>3
<1>. QED
  BY <1>4, <1>5 DEF a, b

LEMMA ToWriteIsLeft ==
  ASSUME NEW c
  PROVE  ToWrite(c) = Left(period[c], counter[c])
BY DEF ToWrite, Left

LEMMA Times ==
  ASSUME NEW B \in Nat, NEW r \in Int, NEW s \in Int, r <= s
  PROVE  /\ r * B \in Int
         /\ r * B <= s * B
         /\ (r + 1) * B = r * B + B
<1>1. \E d \in Nat : s = r + d
  <2>1. s - r \in Nat /\ s = r + (s - r)
    OBVIOUS
  <2>. QED
    BY <2>1
<1>2. PICK d \in Nat : s = r + d
  BY <1>1
<1>3. s * B = r * B + d * B /\ d * B \in Nat
  BY <1>2
<1>. QED
  BY <1>3

-----------------------------------------------------------------------------
(* Types *)

LEMMA ConstantTypes ==
  /\ \A p \in Periods : p \in Nat \ {0}
  /\ \A h \in Preheats : h \in Nat \ {0}
  /\ PageSamples \in Nat \ {0} /\ CounterSpan \in Nat \ {0} /\ PreheatMultiplier \in Nat \ {0}
  /\ AdaptationInterval \in Nat /\ AnalogDelay \in Nat /\ MaxDone \in Nat
BY ScheduleAssumption

\* The times of a channel, and what they are when it sleeps.
LEMMA ChannelTimes ==
  ASSUME TypeOK, NEW c \in Chs
  PROVE  /\ period[c] \in Nat \ {0} /\ preheat[c] \in Nat \ {0} /\ counter[c] \in Nat
         /\ heat[c] \in 0 .. preheat[c] /\ since[c] \in 0 .. 2 * period[c]
         /\ ToWrite(c) \in 0 .. period[c] - 1
         /\ ToNextEvent(c) \in 0 .. ToWrite(c)
         /\ HeatMeasureStop(c) \in BOOLEAN
         /\ HeatMeasureStop(c) /\ state[c] = "Sleeping" /\ ToWrite(c) >= preheat[c]
              => ToNextEvent(c) = ToWrite(c) - preheat[c]
         /\ ~(HeatMeasureStop(c) /\ state[c] = "Sleeping" /\ ToWrite(c) >= preheat[c])
              => ToNextEvent(c) = ToWrite(c)
<1>1. /\ period[c] \in Nat \ {0} /\ preheat[c] \in Nat \ {0} /\ counter[c] \in Nat
      /\ heat[c] \in 0 .. preheat[c] /\ since[c] \in 0 .. 2 * period[c]
  BY ConstantTypes DEF TypeOK
<1>2. ToWrite(c) \in 0 .. period[c] - 1
  BY <1>1, LeftIs, ToWriteIsLeft
<1>3. HeatMeasureStop(c) \in BOOLEAN
  BY DEF HeatMeasureStop
<1>. QED
  BY <1>1, <1>2, <1>3 DEF ToNextEvent

\* What passing time does to the warmth of a channel.
LEMMA HeatedIs ==
  ASSUME TypeOK, NEW power, NEW t \in Nat, NEW c \in Chs
  PROVE  /\ Heated(power, heat, t)[c] \in 0 .. preheat[c]
         /\ power[c] => /\ Heated(power, heat, t)[c] >= heat[c]
                        /\ \/ Heated(power, heat, t)[c] = heat[c] + t
                           \/ Heated(power, heat, t)[c] = preheat[c]
BY ChannelTimes DEF Heated, Smaller

LEMMA HeatedType ==
  ASSUME TypeOK, NEW power, NEW t \in Nat
  PROVE  Heated(power, heat, t) \in [Chs -> Nat]
BY ChannelTimes DEF Heated, Smaller

LEMMA ElapsedIs ==
  ASSUME TypeOK, NEW t \in Nat, Elapsed(t), NEW c \in Chs
  PROVE  /\ since' \in [Chs -> Nat]
         /\ since'[c] \in 0 .. 2 * period[c]
         /\ since'[c] = since[c] + t \/ since'[c] = 2 * period[c]
         /\ since[c] + t <= 2 * period[c] => since'[c] = since[c] + t
BY ChannelTimes DEF Elapsed, Smaller

LEMMA TickType ==
  ASSUME TypeOK, NEW t \in Nat, Tick(t)
  PROVE  /\ counter' \in [Chs -> 0 .. CounterSpan - 1]
         /\ \A c \in Chs : counter[c] + t < CounterSpan => counter'[c] = counter[c] + t
<1>. DEFINE n(c) == counter[c] + t
<1>1. counter' = [c \in Chs |-> n(c) % CounterSpan]
  BY DEF Tick
<1>2. \A c \in Chs : n(c) \in Nat
  BY ChannelTimes
<1>. HIDE DEF n
<1>3. \A c \in Chs : /\ n(c) % CounterSpan \in 0 .. CounterSpan - 1
                     /\ n(c) < CounterSpan => n(c) % CounterSpan = n(c)
  <2>. SUFFICES ASSUME NEW c \in Chs
                PROVE  /\ n(c) % CounterSpan \in 0 .. CounterSpan - 1
                       /\ n(c) < CounterSpan => n(c) % CounterSpan = n(c)
    OBVIOUS
  <2>. QED
    BY <1>2, ConstantTypes
<1>. QED
  BY <1>1, <1>3 DEF n

LEMMA NoSampleType ==
  NoSample \in [ch : Chs \cup {"none"}, first : BOOLEAN, gap : Nat, heated : BOOLEAN]
BY DEF NoSample

LEMMA InitType == Init => TypeOK /\ Bounds
<1>. SUFFICES ASSUME Init PROVE TypeOK /\ Bounds
  OBVIOUS
<1>1. /\ counter \in [Chs -> 0 .. CounterSpan - 1]
      /\ heat \in [Chs -> Nat] /\ since \in [Chs -> Nat]
      /\ filled \in 0 .. PageSamples
      /\ \A c \in Chs : /\ period[c] \in Nat \ {0} /\ preheat[c] \in Nat \ {0}
                        /\ heat[c] = 0 /\ since[c] = 0
  BY ConstantTypes DEF Init
<1>2. \A c \in Chs : heat[c] \in 0 .. preheat[c] /\ since[c] \in 0 .. 2 * period[c]
  BY <1>1
<1>. QED
  BY <1>1, <1>2, NoSampleType DEF Init, TypeOK, Bounds, Collecting

LEMMA PowerOnType ==
  ASSUME TypeOK, NEW cs
  PROVE  PowerOn(cs) \in [Chs -> BOOLEAN]
BY DEF TypeOK, PowerOn

\* The actions that wait, and those that handle an event.
LEMMA WaitType ==
  ASSUME TypeOK, Bounds, BootFirst \/ BootSecond \/ NewPage \/ Finish \/ Sleep \/ Advance
  PROVE  TypeOK' /\ Bounds'
<1>. USE ConstantTypes
<1>0. /\ LongestPreheat \in Nat /\ ShortestPreheat \in Nat
      /\ LongestPreheat - ShortestPreheat \in Nat /\ 2 * LongestPreheat \in Nat
  <2>1. preheat["P"] \in Nat /\ preheat["T"] \in Nat
    BY ChannelTimes DEF Chs
  <2>. QED
    BY <2>1 DEF LongestPreheat, ShortestPreheat, Larger, Smaller
\* All that an action has to show of the times.
<1>1. ASSUME UNCHANGED <<period, preheat, enabled>>,
             on' \in [Chs -> BOOLEAN],
             NEW t \in Nat, NEW power, heat' = Heated(power, heat, t),
             counter' \in [Chs -> 0 .. CounterSpan - 1],
             since' \in [Chs -> Nat], \A d \in Chs : since'[d] \in 0 .. 2 * period[d],
             state' \in [Chs -> {"Ready", "Heating", "Sleeping"}],
             filled' \in {0, filled}, sampled' \in {{}, sampled},
             slow' \in BOOLEAN, sample' \in {NoSample, sample},
             \/ pc' \in {"boot2", "page"}
             \/ pc' \in {"sleep", "P"} /\ (filled' = 0 \/ Collecting)
      PROVE  TypeOK' /\ Bounds'
  <2>1. \A d \in Chs : heat'[d] \in 0 .. preheat'[d] /\ since'[d] \in 0 .. 2 * period'[d]
    BY <1>1, HeatedIs
  <2>2. filled' \in 0 .. PageSamples /\ (Collecting' => filled' < PageSamples)
    BY <1>1 DEF TypeOK, Bounds, Collecting
  <2>3. heat' \in [Chs -> Nat]
    BY <1>1, HeatedType
  <2>. QED
    BY <1>1, <2>1, <2>2, <2>3, NoSampleType DEF TypeOK, Bounds
<1>2. CASE BootFirst
  <2>. DEFINE both   == ShortestPreheat = LongestPreheat
              longer == IF preheat["P"] > preheat["T"] THEN {"P"} ELSE {"T"}
              delay  == IF both THEN 2 * LongestPreheat
                        ELSE LongestPreheat - ShortestPreheat
              cs     == IF both THEN Chs ELSE longer
  <2>1. delay \in Nat
    BY <1>0
  <2>2. on' = PowerOn(cs) /\ heat' = Heated(on', heat, delay)
    BY <1>2 DEF BootFirst
  <2>3. pc' \in {"boot2", "page"}
    BY <1>2 DEF BootFirst
  <2>. HIDE DEF delay, cs
  <2>4. on' \in [Chs -> BOOLEAN]
    BY <2>2, PowerOnType
  <2>. QED
    BY <1>1, <1>2, <2>1, <2>2, <2>3, <2>4 DEF BootFirst, cfgVars, TypeOK
<1>3. CASE BootSecond
  <2>1. on' \in [Chs -> BOOLEAN]
    BY <1>3, PowerOnType DEF BootSecond
  <2>. QED
    BY <1>0, <1>1, <1>3, <2>1 DEF BootSecond, cfgVars, TypeOK
<1>4. CASE NewPage
  <2>1. /\ counter' \in [Chs -> 0 .. CounterSpan - 1]
        /\ since' \in [Chs -> Nat] /\ \A d \in Chs : since'[d] \in 0 .. 2 * period[d]
    BY <1>4, ChannelTimes DEF NewPage
  <2>. QED
    BY <1>1, <1>4, <2>1 DEF NewPage, cfgVars, TypeOK
<1>5. CASE Finish
  <2>. DEFINE t == (LongestPreheat \div PreheatMultiplier) + AdaptationInterval
  <2>1. t \in Nat
    BY <1>0
  <2>2. heat' = Heated(on, heat, t)
    BY <1>5 DEF Finish
  <2>. HIDE DEF t
  <2>. QED
    BY <1>1, <1>5, <2>1, <2>2 DEF Finish, cfgVars, TypeOK
<1>6. CASE Sleep
  <2>1. PICK c \in enabled : /\ Tick(ToNextEvent(c))
                             /\ heat' = Heated(on, heat, ToNextEvent(c))
                             /\ Elapsed(ToNextEvent(c))
    BY <1>6 DEF Sleep
  <2>. DEFINE t == ToNextEvent(c)
  <2>2. t \in Nat
    <3>1. c \in Chs
      BY DEF TypeOK
    <3>. QED
      BY <3>1, ChannelTimes
  <2>3. Tick(t) /\ heat' = Heated(on, heat, t) /\ Elapsed(t)
    BY <2>1
  <2>. HIDE DEF t
  <2>4. counter' \in [Chs -> 0 .. CounterSpan - 1]
    BY <2>2, <2>3, TickType
  <2>5. since' \in [Chs -> Nat] /\ \A d \in Chs : since'[d] \in 0 .. 2 * period[d]
    <3>1. Chs # {}
      BY DEF Chs
    <3>. QED
      BY <3>1, <2>2, <2>3, ElapsedIs
  <2>. QED
    BY <1>1, <1>6, <2>2, <2>3, <2>4, <2>5 DEF Sleep, cfgVars, TypeOK, Collecting
<1>7. CASE Advance
  <2>1. PICK done \in 0 .. MaxDone :
          /\ Tick(Counted(done))
          /\ heat' = Heated(on, heat, done + Counted(done))
          /\ Elapsed(done + Counted(done))
          /\ slow' = (slow \/ done > 0)
    BY <1>7 DEF Advance
  <2>2. Counted(done) \in Nat /\ done + Counted(done) \in Nat
    BY DEF Counted, Larger
  <2>3. counter' \in [Chs -> 0 .. CounterSpan - 1]
    BY <2>1, <2>2, TickType
  <2>4. since' \in [Chs -> Nat] /\ \A d \in Chs : since'[d] \in 0 .. 2 * period[d]
    <3>1. Chs # {}
      BY DEF Chs
    <3>. QED
      BY <3>1, <2>1, <2>2, ElapsedIs
  <2>5. slow' \in BOOLEAN
    BY <2>1
  <2>. QED
    BY <1>1, <1>7, <2>1, <2>2, <2>3, <2>4, <2>5 DEF Advance, cfgVars, TypeOK, Collecting
<1>. QED
  BY <1>2, <1>3, <1>4, <1>5, <1>6, <1>7

LEMMA EventType ==
  ASSUME TypeOK, Bounds, NEW c \in Chs, ProcessSensorEvent(c)
  PROVE  TypeOK' /\ Bounds'
<1>. USE ConstantTypes
<1>1. /\ pc = c /\ c \in {"P", "T"} /\ filled \in 0 .. PageSamples - 1
      /\ heat' = Heated(on', heat, 0)
      /\ UNCHANGED <<period, preheat, enabled, counter, slow>>
  BY DEF ProcessSensorEvent, TypeOK, Bounds, Collecting, cfgVars, Chs
<1>2. heat' \in [Chs -> Nat] /\ \A d \in Chs : heat'[d] \in 0 .. preheat[d]
  BY <1>1, HeatedIs, HeatedType
<1>3. CASE WantsSample(c) /\ TakeSample(c)
  <2>1. c \in enabled
    BY <1>3 DEF WantsSample
  <2>2. filled' = filled + 1 /\ filled' \in 0 .. PageSamples
    BY <1>1, <1>3 DEF TakeSample
  <2>3. sample' \in [ch : Chs \cup {"none"}, first : BOOLEAN, gap : Nat, heated : BOOLEAN]
    BY <1>3, ChannelTimes DEF TakeSample, TypeOK
  <2>4. since' \in [Chs -> Nat] /\ \A d \in Chs : since'[d] \in 0 .. 2 * period[d]
    BY <1>3, ChannelTimes DEF TakeSample, TypeOK
  <2>5. sampled' = sampled \cup {c}
    BY <1>3 DEF TakeSample
  <2>6. /\ state' \in [Chs -> {"Ready", "Heating", "Sleeping"}]
        /\ on' \in [Chs -> BOOLEAN]
        /\ pc' \in {"finish", "T", "advance"}
        /\ pc' # "finish" => filled' # PageSamples
    <3>1. CASE PageFull(filled')
      BY <1>3, <3>1, PowerOnType DEF TakeSample, TypeOK, PowerAtPageEnd
    <3>2. CASE ~PageFull(filled')
      BY <1>3, <3>2 DEF TakeSample, TypeOK, PageFull
    <3>. QED
      BY <3>1, <3>2
  <2>. QED
    BY <1>1, <1>2, <2>1, <2>2, <2>3, <2>4, <2>5, <2>6 DEF TypeOK, Bounds, Collecting
<1>4. CASE ~(WantsSample(c) /\ TakeSample(c))
  <2>1. /\ state' \in [Chs -> {"Ready", "Heating", "Sleeping"}]
        /\ on' \in [Chs -> BOOLEAN]
        /\ pc' \in {"T", "advance"}
        /\ sample' = NoSample
        /\ UNCHANGED <<filled, since, sampled>>
    BY <1>4, PowerOnType DEF ProcessSensorEvent, TypeOK
  <2>. QED
    BY <1>1, <1>2, <2>1, NoSampleType DEF TypeOK, Bounds, Collecting
<1>. QED
  BY <1>3, <1>4

LEMMA StepType == TypeOK /\ Bounds /\ [Next]_vars => TypeOK' /\ Bounds'
<1>1. ASSUME TypeOK, Bounds, UNCHANGED vars PROVE TypeOK' /\ Bounds'
  BY <1>1 DEF TypeOK, Bounds, Collecting, vars, cfgVars
<1>. QED
  BY <1>1, WaitType, EventType DEF Next

(***************************************************************************)
(* The controller keeps its types; in particular no page is overfilled and *)
(* the counters stay u32 (ToWriteCounter, DataBlock::push_data).           *)
(***************************************************************************)
THEOREM ScheduleType == Spec => []TypeOK
BY InitType, StepType, PTL DEF Spec

-----------------------------------------------------------------------------
(* Channels between and during the events *)

\* The counters and the clocks of the channels advance; the counters by t, which
\* does not wrap them, the clocks by e.
Passed(t, e) ==
    /\ UNCHANGED <<period, preheat, enabled, state, filled, on, sampled>>
    /\ \A c \in Chs : counter'[c] = counter[c] + t
    /\ heat' = Heated(on, heat, e)
    /\ Elapsed(e)

LEMMA ChannelPassed ==
  ASSUME TypeOK, NEW c \in Chs, NEW t \in Nat, NEW e \in Nat, t <= e, Passed(t, e)
  PROVE  /\ t <= ToWrite(c) => ToWrite(c)' = ToWrite(c) - t
         /\ ToWrite(c) = 0 /\ t = 1 => ToWrite(c)' = period[c] - 1
         /\ ToWrite(c)' \in 0 .. period[c] - 1
         /\ since[c] >= period[c] => since'[c] >= period[c]
         /\ since[c] + e <= 2 * period[c] => since'[c] = since[c] + e
         /\ on[c] => \/ heat'[c] = heat[c] + e
                     \/ heat'[c] = preheat[c]
         /\ heat'[c] \in 0 .. preheat[c]
         /\ HeatMeasureStop(c)' <=> HeatMeasureStop(c)
<1>1. /\ counter'[c] = counter[c] + t /\ period' = period /\ preheat' = preheat
      /\ heat' = Heated(on, heat, e) /\ Elapsed(e)
  BY DEF Passed
<1>2. period[c] \in Nat \ {0} /\ counter[c] \in Nat /\ since[c] \in Nat
  BY ChannelTimes
<1>3. ToWrite(c)' = Left(period[c], counter[c] + t) /\ ToWrite(c) = Left(period[c], counter[c])
  BY <1>1 DEF ToWrite, Left
<1>4. /\ t <= ToWrite(c) => ToWrite(c)' = ToWrite(c) - t
      /\ ToWrite(c) = 0 /\ t = 1 => ToWrite(c)' = period[c] - 1
      /\ ToWrite(c)' \in 0 .. period[c] - 1
  <2>. DEFINE p == period[c]
              k == counter[c]
  <2>1. p \in Nat \ {0} /\ k \in Nat /\ k + t \in Nat
    BY <1>2
  <2>. HIDE DEF p, k
  <2>2. /\ t <= Left(p, k) => Left(p, k + t) = Left(p, k) - t
        /\ Left(p, k) = 0 /\ 1 <= t /\ t <= p => Left(p, k + t) = p - t
    BY <2>1, LeftAfter
  <2>3. Left(p, k + t) \in 0 .. p - 1
    BY <2>1, LeftIs
  <2>4. Left(p, k) = 0 /\ t = 1 => Left(p, k + t) = p - 1
    BY <2>1, <2>2
  <2>. QED
    BY <1>3, <2>2, <2>3, <2>4 DEF p, k
<1>5. /\ since[c] >= period[c] => since'[c] >= period[c]
      /\ since[c] + e <= 2 * period[c] => since'[c] = since[c] + e
  BY <1>1, <1>2, ElapsedIs
<1>6. /\ on[c] => \/ heat'[c] = heat[c] + e
                  \/ heat'[c] = preheat[c]
      /\ heat'[c] \in 0 .. preheat[c]
  BY <1>1, HeatedIs
<1>7. HeatMeasureStop(c)' <=> HeatMeasureStop(c)
  BY <1>1 DEF HeatMeasureStop
<1>. QED
  BY <1>4, <1>5, <1>6, <1>7

\* However long it was, a sample before it is a period ago when it is due again.
LEMMA PeriodPasses ==
  ASSUME TypeOK, NEW c \in Chs, NEW t \in Nat, NEW e \in Nat, t <= e, Passed(t, e),
         Collecting, pc' \in {"sleep", "P"}, c \in sampled, PeriodPassed(c),
         t >= 1 \/ ~Handled(c)
  PROVE  \/ since'[c] >= period[c]
         \/ /\ since'[c] >= counter'[c] % period[c]
            /\ counter'[c] % period[c] # 0
<1>. DEFINE p == period[c]
            r == counter[c] % p
            s == counter'[c] % p
            x == since[c]
            y == since'[c]
<1>1. /\ p \in Nat \ {0} /\ x \in Nat
      /\ y \in Nat /\ (y = x + e \/ y = 2 * p)
      /\ counter'[c] = counter[c] + t
      /\ counter[c] \in Nat
  BY ChannelTimes, ElapsedIs DEF Passed
<1>2. /\ r \in 0 .. p - 1
      /\ r + t < p => s = r + t
  <2>. DEFINE k == counter[c]
  <2>1. p \in Nat \ {0} /\ k \in Nat /\ r = k % p /\ s = (k + t) % p
    BY <1>1
  <2>. HIDE DEF p, k, r, s
  <2>. QED
    BY <2>1, WithinPeriod
<1>3. x >= p \/ (x >= r /\ (r = 0 => t >= 1))
  BY DEF PeriodPassed
<1>. HIDE DEF p, r, s, x, y
<1>4. y >= p \/ (y >= s /\ s # 0)
  <2>1. CASE x >= p
    BY <1>1, <2>1
  <2>2. CASE x >= r /\ r + t < p /\ (r = 0 => t >= 1)
    BY <1>1, <1>2, <2>2
  <2>3. CASE x >= r /\ r + t >= p
    BY <1>1, <1>2, <2>3
  <2>. QED
    BY <1>1, <1>2, <1>3, <2>1, <2>2, <2>3
<1>. QED
  BY <1>4 DEF p, s, y

(***************************************************************************)
(* Sleeping to the next event of all channels passes none of one channel.  *)
(***************************************************************************)
LEMMA SleepKeepsChannel ==
  ASSUME TypeOK, NEW c \in Chs, ChannelInv(c), NEW t \in Nat, Passed(t, t),
         pc = "sleep", pc' = "P", UNCHANGED slow, t <= ToNextEvent(c)
  PROVE  ChannelInv(c)'
<1>0. /\ Collecting /\ ~Handled(c) /\ Collecting' /\ ~Handled(c)'
      /\ pc' \notin {"boot", "boot2", "page", "finish"} /\ pc \notin {"boot", "boot2"}
  BY DEF Collecting, Handled, Chs
<1>1. /\ period' = period /\ preheat' = preheat /\ state' = state /\ on' = on
      /\ sampled' = sampled /\ slow' = slow
  BY DEF Passed
<1>2. /\ period[c] \in Nat \ {0} /\ preheat[c] \in Nat \ {0}
      /\ heat[c] \in Nat /\ since[c] \in Nat
      /\ ToWrite(c) \in 0 .. period[c] - 1
      /\ ToNextEvent(c) \in 0 .. ToWrite(c)
      /\ HeatMeasureStop(c) /\ state[c] = "Sleeping" /\ ToWrite(c) >= preheat[c]
           => ToNextEvent(c) = ToWrite(c) - preheat[c]
  BY ChannelTimes
<1>3. t <= ToWrite(c)
  BY <1>2
<1>4. /\ ToWrite(c)' = ToWrite(c) - t
      /\ since[c] + t <= 2 * period[c] => since'[c] = since[c] + t
      /\ on[c] => \/ heat'[c] = heat[c] + t
                  \/ heat'[c] = preheat[c]
      /\ heat'[c] \in 0 .. preheat[c]
      /\ HeatMeasureStop(c)' <=> HeatMeasureStop(c)
  BY <1>3, ChannelPassed
<1>5. Power(c)' /\ PowerInTime(c)'
  BY <1>0, <1>1, <1>4 DEF ChannelInv, Power, PowerInTime
<1>6. SleepsEarly(c)'
  BY <1>0, <1>1, <1>2, <1>4 DEF ChannelInv, Power, SleepsEarly
<1>7. NoneSkipped(c)'
  BY <1>0 DEF NoneSkipped
<1>8. PeriodPassed(c)'
  BY <1>0, <1>1, PeriodPasses DEF ChannelInv, PeriodPassed
<1>9. PeriodExact(c)'
  BY <1>0, <1>1, <1>2, <1>3, <1>4 DEF ChannelInv, PeriodExact
<1>10. Warm(c)'
  BY <1>0, <1>1, <1>2, <1>3, <1>4 DEF ChannelInv, Warm, Power
<1>. QED
  BY <1>5, <1>6, <1>7, <1>8, <1>9, <1>10 DEF ChannelInv

(***************************************************************************)
(* The handlers' own time.                                                 *)
(***************************************************************************)
LEMMA AdvanceKeepsChannel ==
  ASSUME TypeOK, NEW c \in Chs, ChannelInv(c), NEW done \in Nat,
         Passed(Counted(done), done + Counted(done)),
         pc = "advance", pc' = "sleep", slow' = (slow \/ done > 0)
  PROVE  ChannelInv(c)'
<1>. DEFINE t == Counted(done)
            e == done + t
<1>0. /\ Collecting /\ Handled(c) /\ Collecting' /\ ~Handled(c)'
      /\ pc' \notin {"boot", "boot2", "page", "finish"} /\ pc \notin {"boot", "boot2"}
  BY DEF Collecting, Handled, Chs
<1>1. /\ period' = period /\ preheat' = preheat /\ state' = state /\ on' = on
      /\ sampled' = sampled
      /\ ~slow' => ~slow
  BY DEF Passed
<1>t. /\ t \in Nat /\ e \in Nat /\ t <= e /\ t >= 1
      /\ ~slow' => t = 1 /\ e = 1
  <2>1. ~slow' => ~(done > 0)
    OBVIOUS
  <2>. QED
    BY <2>1 DEF Counted, Larger
<1>2. /\ period[c] \in Nat \ {0} /\ preheat[c] \in Nat \ {0}
      /\ heat[c] \in Nat /\ since[c] \in Nat
      /\ ToWrite(c) \in 0 .. period[c] - 1
      /\ HeatMeasureStop(c) <=> preheat[c] < period[c]
  BY ChannelTimes DEF HeatMeasureStop
<1>3. Passed(t, e)
  OBVIOUS
<1>. HIDE DEF t, e
<1>4. /\ t <= ToWrite(c) => ToWrite(c)' = ToWrite(c) - t
      /\ ToWrite(c) = 0 /\ t = 1 => ToWrite(c)' = period[c] - 1
      /\ since[c] + e <= 2 * period[c] => since'[c] = since[c] + e
      /\ on[c] => \/ heat'[c] = heat[c] + e
                  \/ heat'[c] = preheat[c]
      /\ heat'[c] \in 0 .. preheat[c]
      /\ HeatMeasureStop(c)' <=> HeatMeasureStop(c)
  BY <1>t, <1>3, ChannelPassed
<1>5. Power(c)' /\ PowerInTime(c)'
  BY <1>0, <1>1, <1>4 DEF ChannelInv, Power, PowerInTime
<1>6. SleepsEarly(c)'
  BY <1>0, <1>1, <1>t, <1>2, <1>4 DEF ChannelInv, Power, SleepsEarly
<1>7. NoneSkipped(c)'
  BY <1>0 DEF NoneSkipped
<1>8. PeriodPassed(c)'
  BY <1>0, <1>1, <1>t, <1>3, PeriodPasses DEF ChannelInv, PeriodPassed
<1>9. PeriodExact(c)'
  BY <1>0, <1>1, <1>t, <1>2, <1>4 DEF ChannelInv, PeriodExact, NoneSkipped
<1>10. Warm(c)'
  BY <1>0, <1>1, <1>t, <1>2, <1>4 DEF ChannelInv, Warm, Power, NoneSkipped
<1>. QED
  BY <1>5, <1>6, <1>7, <1>8, <1>9, <1>10 DEF ChannelInv

(***************************************************************************)
(* The handler of one channel leaves the other alone, except that the end  *)
(* of a page powers it.                                                    *)
(***************************************************************************)
LEMMA EventIs ==
  ASSUME TypeOK, NEW c \in Chs, ProcessSensorEvent(c)
  PROVE  /\ pc = c /\ Collecting /\ ~Handled(c)
         /\ pc' = (IF c = "P" THEN "T" ELSE "advance") \/ pc' = "finish"
         /\ UNCHANGED <<period, preheat, enabled, counter, slow>>
         /\ \A d \in Chs : /\ ToWrite(d)' = ToWrite(d)
                           /\ HeatMeasureStop(d)' <=> HeatMeasureStop(d)
                           /\ on[d] /\ on'[d] => heat'[d] = heat[d]
                           /\ heat'[d] \in Nat
<1>1. /\ pc = c /\ c \in {"P", "T"}
      /\ pc' = (IF c = "P" THEN "T" ELSE "advance") \/ pc' = "finish"
      /\ UNCHANGED <<period, preheat, enabled, counter, slow>>
      /\ heat' = Heated(on', heat, 0)
  BY DEF ProcessSensorEvent, TakeSample, cfgVars, Chs
<1>2. \A d \in Chs : /\ ToWrite(d)' = ToWrite(d)
                     /\ HeatMeasureStop(d)' <=> HeatMeasureStop(d)
  BY <1>1 DEF ToWrite, HeatMeasureStop
<1>3. \A d \in Chs : /\ on[d] /\ on'[d] => heat'[d] = heat[d]
                     /\ heat'[d] \in Nat
  BY <1>1, ChannelTimes DEF Heated, Smaller
<1>. QED
  BY <1>1, <1>2, <1>3 DEF Collecting, Handled

LEMMA OtherKeepsChannel ==
  ASSUME TypeOK, NEW c \in Chs, ProcessSensorEvent(c),
         NEW d \in enabled, d \in Chs, d # c, ChannelInv(d)
  PROVE  ChannelInv(d)'
<1>1. /\ Collecting
      /\ period' = period /\ preheat' = preheat /\ counter' = counter /\ slow' = slow
      /\ pc' # "finish" => (Handled(d)' <=> Handled(d))
      /\ pc' = "finish" => ~Collecting' /\ ~Handled(d)'
      /\ pc' \notin {"boot", "boot2", "page"} /\ pc \notin {"boot", "boot2"}
      /\ ToWrite(d)' = ToWrite(d)
      /\ HeatMeasureStop(d)' <=> HeatMeasureStop(d)
      /\ on[d] /\ on'[d] => heat'[d] = heat[d]
  BY EventIs DEF Collecting, Handled, Chs
<1>2. /\ state'[d] = state[d] /\ since'[d] = since[d]
      /\ d \in sampled' <=> d \in sampled
      /\ pc' # "finish" => on'[d] = on[d]
      /\ pc' = "finish" => on'[d]
  <2>1. CASE WantsPreheat(c)
    BY <2>1 DEF ProcessSensorEvent, TypeOK, PowerOn, WantsSample
  <2>2. CASE WantsSample(c) /\ TakeSample(c)
    <3>1. CASE PageFull(filled')
      <4>1. on'[d] /\ pc' = "finish"
        BY <2>2, <3>1 DEF TakeSample, PowerAtPageEnd, PowerOn
      <4>. QED
        BY <2>2, <3>1, <4>1 DEF TakeSample, TypeOK
    <3>2. CASE ~PageFull(filled')
      BY <2>2, <3>2 DEF TakeSample, TypeOK
    <3>. QED
      BY <3>1, <3>2
  <2>3. CASE ~WantsPreheat(c) /\ ~WantsSample(c)
    BY <2>3 DEF ProcessSensorEvent, Chs
  <2>. QED
    BY <2>1, <2>2, <2>3 DEF ProcessSensorEvent
<1>3. /\ Power(d)' /\ PowerInTime(d)'
  BY <1>1, <1>2 DEF ChannelInv, Power, PowerInTime
<1>4. SleepsEarly(d)' /\ NoneSkipped(d)'
  BY <1>1, <1>2 DEF ChannelInv, SleepsEarly, NoneSkipped, Handled
<1>5. PeriodPassed(d)' /\ PeriodExact(d)'
  BY <1>1, <1>2 DEF ChannelInv, PeriodPassed, PeriodExact, Collecting
<1>6. Warm(d)'
  BY <1>1, <1>2 DEF ChannelInv, Warm, Power, Collecting
<1>. QED
  BY <1>3, <1>4, <1>5, <1>6 DEF ChannelInv

(***************************************************************************)
(* What a channel may be when its sample is due.                           *)
(***************************************************************************)
LEMMA DueIsReady ==
  ASSUME TypeOK, NEW c \in Chs, ChannelInv(c), pc = c, WantsSample(c)
  PROVE  /\ c \in enabled /\ ToWrite(c) = 0 /\ counter[c] % period[c] = 0
         /\ ~slow => state[c] # "Sleeping" /\ on[c]
         /\ c \in sampled => since[c] >= period[c]
         /\ c \in sampled /\ ~slow => since[c] = period[c] /\ heat[c] >= preheat[c]
<1>1. /\ Collecting /\ ~Handled(c) /\ pc \notin {"boot", "boot2"}
  BY DEF Collecting, Handled, Chs
<1>2. /\ period[c] \in Nat \ {0} /\ preheat[c] \in Nat \ {0} /\ counter[c] \in Nat
      /\ heat[c] \in Nat /\ since[c] \in Nat
      /\ state[c] \in {"Ready", "Heating", "Sleeping"}
  BY ChannelTimes DEF TypeOK
<1>3. c \in enabled /\ ToWrite(c) = 0
  BY DEF WantsSample
<1>4. counter[c] % period[c] = 0
  BY <1>2, <1>3, LeftIs, ToWriteIsLeft
<1>5. ~slow => state[c] # "Sleeping" /\ on[c]
  BY <1>1, <1>2, <1>3 DEF ChannelInv, SleepsEarly, Power, PowerInTime
<1>6. c \in sampled => since[c] >= period[c]
  BY <1>1, <1>4 DEF ChannelInv, PeriodPassed
<1>7. c \in sampled /\ ~slow => since[c] = period[c]
  BY <1>1, <1>2, <1>3 DEF ChannelInv, PeriodExact
<1>8. c \in sampled /\ ~slow => heat[c] >= preheat[c]
  BY <1>1, <1>2, <1>3, <1>5 DEF ChannelInv, Warm
<1>. QED
  BY <1>3, <1>4, <1>5, <1>6, <1>7, <1>8

(***************************************************************************)
(* The handler of the channel itself: the three ways it goes.              *)
(***************************************************************************)
LEMMA OwnKeepsChannel ==
  ASSUME TypeOK, NEW c \in Chs, c \in enabled, ProcessSensorEvent(c), ChannelInv(c)
  PROVE  ChannelInv(c)'
<1>1. /\ Collecting /\ ~Handled(c) /\ pc = c
      /\ period' = period /\ preheat' = preheat /\ counter' = counter /\ slow' = slow
      /\ pc' # "finish" => Handled(c)' /\ Collecting'
      /\ pc' = "finish" => ~Collecting' /\ ~Handled(c)'
      /\ pc' \notin {"boot", "boot2", "page"} /\ pc \notin {"boot", "boot2"}
      /\ ToWrite(c)' = ToWrite(c)
      /\ HeatMeasureStop(c)' <=> HeatMeasureStop(c)
      /\ on[c] /\ on'[c] => heat'[c] = heat[c]
      /\ heat'[c] \in Nat
  BY EventIs DEF Collecting, Handled, Chs
<1>2. /\ period[c] \in Nat \ {0} /\ preheat[c] \in Nat \ {0} /\ counter[c] \in Nat
      /\ heat[c] \in Nat /\ since[c] \in Nat
      /\ ToWrite(c) \in 0 .. period[c] - 1
      /\ state[c] \in {"Ready", "Heating", "Sleeping"}
  BY ChannelTimes DEF TypeOK
<1>3. CASE WantsPreheat(c)
  <2>1. /\ HeatMeasureStop(c) /\ state[c] = "Sleeping" /\ ToWrite(c) = preheat[c]
        /\ state'[c] = "Heating" /\ on'[c]
        /\ since' = since /\ sampled' = sampled /\ pc' # "finish"
    BY <1>3 DEF ProcessSensorEvent, WantsPreheat, WantsSample, TypeOK, PowerOn, Chs
  <2>2. Power(c)' /\ PowerInTime(c)'
    BY <1>1, <2>1 DEF Power, PowerInTime
  <2>3. SleepsEarly(c)' /\ NoneSkipped(c)'
    BY <1>1, <1>2, <2>1 DEF SleepsEarly, NoneSkipped
  <2>4. PeriodPassed(c)' /\ PeriodExact(c)'
    BY <1>1, <1>2, <2>1 DEF ChannelInv, PeriodPassed, PeriodExact
  <2>5. Warm(c)'
    BY <1>1, <1>2, <2>1 DEF Warm
  <2>. QED
    BY <2>2, <2>3, <2>4, <2>5 DEF ChannelInv
<1>4. CASE WantsSample(c) /\ TakeSample(c)
  <2>0. /\ ToWrite(c) = 0 /\ counter[c] % period[c] = 0
        /\ ~slow => on[c]
    BY <1>1, <1>4, DueIsReady
  <2>1. since'[c] = 0 /\ c \in sampled'
    BY <1>4 DEF TakeSample, TypeOK
  <2>2. ~HeatMeasureStop(c) => on[c] /\ heat[c] = preheat[c] /\ state[c] = "Ready"
    BY <1>1 DEF ChannelInv, Warm, Power
  <2>3. CASE PageFull(filled')
    <3>1. /\ pc' = "finish"
          /\ state'[c] = IF HeatMeasureStop(c) THEN "Ready" ELSE state[c]
          /\ on'[c] = on[c]
      BY <1>4, <2>3 DEF TakeSample, TypeOK, PowerAtPageEnd, PowerOn
    <3>2. Power(c)' /\ PowerInTime(c)' /\ Warm(c)'
      BY <1>1, <2>0, <2>2, <3>1 DEF Power, PowerInTime, Warm
    <3>. QED
      BY <1>1, <3>1, <3>2
         DEF ChannelInv, SleepsEarly, NoneSkipped, PeriodPassed, PeriodExact
  <2>4. CASE ~PageFull(filled')
    <3>1. /\ pc' # "finish"
          /\ state'[c] = IF HeatMeasureStop(c) THEN "Sleeping" ELSE "Ready"
          /\ on'[c] <=> on[c] /\ ~HeatMeasureStop(c)
      BY <1>4, <2>4 DEF TakeSample, TypeOK
    <3>2. Power(c)' /\ PowerInTime(c)'
      BY <1>1, <2>2, <3>1 DEF Power, PowerInTime
    <3>3. SleepsEarly(c)' /\ NoneSkipped(c)' /\ PeriodExact(c)'
      BY <1>1, <2>0, <2>1, <3>1 DEF SleepsEarly, NoneSkipped, PeriodExact
    <3>4. PeriodPassed(c)'
      BY <1>1, <1>2, <2>0, <2>1, <3>1 DEF PeriodPassed
    <3>5. Warm(c)'
      BY <1>1, <2>2, <3>1 DEF Warm
    <3>. QED
      BY <3>2, <3>3, <3>4, <3>5 DEF ChannelInv
  <2>. QED
    BY <2>3, <2>4
<1>5. CASE ~WantsPreheat(c) /\ ~WantsSample(c)
  <2>1. /\ ToWrite(c) # 0
        /\ HeatMeasureStop(c) /\ state[c] = "Sleeping" => ToWrite(c) # preheat[c]
        /\ state' = state /\ on' = on /\ since' = since /\ sampled' = sampled
        /\ pc' # "finish"
    BY <1>5 DEF ProcessSensorEvent, WantsPreheat, WantsSample
  <2>2. Power(c)' /\ PowerInTime(c)'
    BY <1>1, <2>1 DEF ChannelInv, Power, PowerInTime
  <2>3. SleepsEarly(c)' /\ NoneSkipped(c)'
    BY <1>1, <1>2, <2>1 DEF ChannelInv, Power, SleepsEarly, NoneSkipped
  <2>4. PeriodPassed(c)' /\ PeriodExact(c)'
    BY <1>1, <2>1 DEF ChannelInv, PeriodPassed, PeriodExact
  <2>5. Warm(c)'
    BY <1>1, <2>1 DEF ChannelInv, Warm, Power
  <2>. QED
    BY <2>2, <2>3, <2>4, <2>5 DEF ChannelInv
<1>. QED
  BY <1>3, <1>4, <1>5 DEF ProcessSensorEvent

(***************************************************************************)
(* Boot, the end of a page and the beginning of the next.                  *)
(***************************************************************************)
LEMMA BootKeepsChannel ==
  ASSUME TypeOK, NEW c \in Chs, c \in enabled, ChannelInv(c), BootFirst \/ BootSecond
  PROVE  ChannelInv(c)'
<1>1. /\ preheat' = preheat /\ period' = period /\ state' = state
      /\ HeatMeasureStop(c)' <=> HeatMeasureStop(c)
      /\ pc' \in {"boot2", "page"}
      /\ ~Collecting' /\ ~Handled(c)'
  BY DEF BootFirst, BootSecond, cfgVars, HeatMeasureStop, Collecting, Handled
<1>2. /\ preheat[c] \in Nat /\ heat[c] \in Nat
      /\ ShortestPreheat \in Nat /\ LongestPreheat \in Nat
      /\ ShortestPreheat <= LongestPreheat
      /\ preheat[c] \in {ShortestPreheat, LongestPreheat}
      /\ preheat[c] # ShortestPreheat
           => c = (IF preheat["P"] > preheat["T"] THEN "P" ELSE "T")
      /\ ShortestPreheat' = ShortestPreheat
  <2>1. /\ preheat["P"] \in Nat /\ preheat["T"] \in Nat /\ c \in {"P", "T"}
        /\ heat[c] \in Nat
    BY ChannelTimes DEF Chs
  <2>. QED
    BY <1>1, <2>1 DEF ShortestPreheat, LongestPreheat, Smaller, Larger
<1>3. CASE BootFirst
  <2>. DEFINE both   == ShortestPreheat = LongestPreheat
              longer == IF preheat["P"] > preheat["T"] THEN {"P"} ELSE {"T"}
              delay  == IF both THEN 2 * LongestPreheat
                        ELSE LongestPreheat - ShortestPreheat
              cs     == IF both THEN Chs ELSE longer
  <2>1. /\ on' = PowerOn(cs) /\ heat' = Heated(on', heat, delay)
        /\ pc' = IF both THEN "page" ELSE "boot2"
    BY <1>3 DEF BootFirst
  <2>2. both \/ preheat[c] # ShortestPreheat => on'[c]
    BY <1>2, <2>1 DEF PowerOn
  <2>3. /\ delay \in Nat
        /\ both => delay >= preheat[c]
        /\ ~both => delay = LongestPreheat - ShortestPreheat
    BY <1>2
  <2>. HIDE DEF cs, delay
  <2>4. /\ heat'[c] \in Nat
        /\ on'[c] => /\ heat'[c] \in 0 .. preheat[c]
                     /\ heat'[c] = heat[c] + delay \/ heat'[c] = preheat[c]
    BY <2>1, <2>3, HeatedIs
  <2>5. Warm(c)'
    <3>1. CASE both
      <4>1. on'[c] /\ heat'[c] = preheat[c]
        BY <1>2, <2>2, <2>3, <2>4, <3>1
      <4>. QED
        BY <1>1, <2>1, <3>1, <4>1 DEF Warm
    <3>2. CASE ~both
      <4>1. /\ heat'[c] + ShortestPreheat >= preheat[c]
            /\ preheat[c] # ShortestPreheat => on'[c]
        BY <1>2, <2>2, <2>3, <2>4, <3>2
      <4>. QED
        BY <1>1, <1>2, <2>1, <3>2, <4>1 DEF Warm
    <3>. QED
      BY <3>1, <3>2
  <2>6. Power(c)' /\ PowerInTime(c)'
    BY <1>1, <2>1, <2>2 DEF ChannelInv, Power, PowerInTime
  <2>. QED
    BY <1>1, <2>5, <2>6
       DEF ChannelInv, SleepsEarly, NoneSkipped, PeriodPassed, PeriodExact
<1>4. CASE BootSecond
  <2>1. on'[c] /\ pc' = "page" /\ pc = "boot2" /\ heat' = Heated(on', heat, ShortestPreheat)
    BY <1>4 DEF BootSecond, PowerOn
  <2>2. heat'[c] = preheat[c]
    <3>1. /\ heat'[c] \in 0 .. preheat[c]
          /\ heat'[c] = heat[c] + ShortestPreheat \/ heat'[c] = preheat[c]
      BY <1>2, <2>1, HeatedIs
    <3>2. heat[c] + ShortestPreheat >= preheat[c]
      BY <2>1 DEF ChannelInv, Warm
    <3>. QED
      BY <1>2, <3>1, <3>2
  <2>3. Warm(c)' /\ Power(c)' /\ PowerInTime(c)'
    BY <1>1, <2>1, <2>2 DEF ChannelInv, Warm, Power, PowerInTime
  <2>. QED
    BY <1>1, <2>3 DEF ChannelInv, SleepsEarly, NoneSkipped, PeriodPassed, PeriodExact
<1>. QED
  BY <1>3, <1>4

LEMMA PageKeepsChannel ==
  ASSUME TypeOK, NEW c \in Chs, c \in enabled, ChannelInv(c), NewPage \/ Finish
  PROVE  ChannelInv(c)'
<1>1. /\ preheat' = preheat /\ period' = period /\ on' = on /\ slow' = slow
      /\ HeatMeasureStop(c)' <=> HeatMeasureStop(c)
      /\ pc \in {"page", "finish"} /\ pc' \in {"page", "sleep"}
      /\ ~Handled(c)'
  BY DEF NewPage, Finish, cfgVars, HeatMeasureStop, Handled
<1>2. \E t \in Nat : heat' = Heated(on, heat, t)
  <2>1. LongestPreheat \in Nat
    BY ChannelTimes DEF LongestPreheat, Larger, Chs
  <2>2. (LongestPreheat \div PreheatMultiplier) + AdaptationInterval \in Nat
    BY <2>1, ConstantTypes
  <2>3. CASE NewPage
    BY <2>3, ConstantTypes DEF NewPage
  <2>4. CASE Finish
    BY <2>2, <2>4 DEF Finish
  <2>. QED
    BY <2>3, <2>4
<1>3. on[c] /\ heat[c] = preheat[c] => heat'[c] = preheat[c]
  BY <1>2, HeatedIs, ChannelTimes
<1>4. CASE NewPage
  <2>1. state'[c] = "Ready" /\ sampled' = {}
    BY <1>4 DEF NewPage
  <2>2. Power(c)' /\ PowerInTime(c)'
    BY <1>1, <2>1 DEF ChannelInv, Power, PowerInTime
  <2>3. Warm(c)'
    BY <1>1, <1>3, <2>1 DEF ChannelInv, Warm
  <2>. QED
    BY <1>1, <2>1, <2>2, <2>3
       DEF ChannelInv, SleepsEarly, NoneSkipped, PeriodPassed, PeriodExact
<1>5. CASE Finish
  <2>1. state' = state /\ ~Collecting' /\ pc' = "page" /\ pc = "finish"
    BY <1>5 DEF Finish, Collecting
  <2>2. Power(c)' /\ PowerInTime(c)'
    BY <1>1, <2>1 DEF ChannelInv, Power, PowerInTime
  <2>3. Warm(c)'
    BY <1>1, <1>3, <2>1 DEF ChannelInv, Warm
  <2>. QED
    BY <1>1, <2>1, <2>2, <2>3
       DEF ChannelInv, SleepsEarly, NoneSkipped, PeriodPassed, PeriodExact
<1>. QED
  BY <1>4, <1>5

-----------------------------------------------------------------------------
(* The page ends in time *)

\* B is long enough for an event, the page short enough for the counters.
Fits(B) == B \in Nat /\ RoundFits(B) /\ 2 * PageSamples * B <= CounterSpan

LEMMA EventsAre ==
  ASSUME TypeOK
  PROVE  Events \in Int /\ Events <= 2 * filled
BY DEF Events, Asleep, TypeOK

\* One more event fits the counters.
LEMMA RoomLeft ==
  ASSUME TypeOK, Bounds, Collecting, NEW B, Fits(B)
  PROVE  /\ B \in Nat /\ B >= 1
         /\ Events * B \in Int /\ Events * B + B < CounterSpan
         /\ (Events - 1) * B + B = Events * B
         /\ \A c \in Chs : period[c] + MaxDone <= B
<1>1. B \in Nat /\ \A c \in Chs : period[c] \in Nat \ {0} /\ period[c] + MaxDone <= B
  BY ConstantTypes, ChannelTimes DEF Fits, RoundFits, TypeOK
<1>2. B >= 1
  <2>1. "P" \in Chs
    BY DEF Chs
  <2>. QED
    BY <1>1, <2>1, ConstantTypes
<1>3. Events \in Int /\ Events <= 2 * PageSamples - 2 /\ 2 * PageSamples \in Int
  <2>1. filled \in Nat /\ filled <= PageSamples - 1
    BY ConstantTypes DEF TypeOK, Bounds
  <2>. QED
    BY <2>1, EventsAre, ConstantTypes
<1>. DEFINE n == Events
            m == 2 * PageSamples
<1>4. n \in Int /\ m \in Int /\ n <= m - 2 /\ m * B <= CounterSpan
  BY <1>3 DEF Fits
<1>. HIDE DEF n, m
<1>5. n * B \in Int /\ n * B <= (m - 2) * B
  BY <1>1, <1>4, Times
<1>6. (m - 2 + 1) * B = (m - 2) * B + B /\ (m - 1 + 1) * B = (m - 1) * B + B
  BY <1>1, <1>4, Times
<1>7. m - 2 + 1 = m - 1 /\ m - 1 + 1 = m
  BY <1>4
<1>8. (n - 1 + 1) * B = (n - 1) * B + B /\ n - 1 + 1 = n
  BY <1>1, <1>4, Times
<1>9. (m - 2) * B \in Int /\ (m - 1) * B \in Int
  BY <1>1, <1>4, Times
<1>10. n * B + B < CounterSpan
  BY <1>1, <1>2, <1>4, <1>5, <1>6, <1>7, <1>9, ConstantTypes
<1>. QED
  BY <1>1, <1>2, <1>5, <1>8, <1>10 DEF n

\* The controller sleeps without a wrap, and something is due when it wakes.
LEMMA SleepPasses ==
  ASSUME TypeOK, Bounds, NEW B, Fits(B), Paced(B), Sleep
  PROVE  /\ \E t \in Nat : /\ Passed(t, t)
                           /\ \A o \in enabled : t <= ToNextEvent(o)
         /\ pc = "sleep" /\ pc' = "P" /\ UNCHANGED slow
         /\ Paced(B)'
<1>1. /\ pc = "sleep" /\ pc' = "P" /\ Collecting
      /\ UNCHANGED <<period, preheat, enabled, state, filled, on, sampled, slow>>
  BY DEF Sleep, cfgVars, Collecting
<1>2. PICK e \in enabled : /\ \A o \in enabled : ToNextEvent(e) <= ToNextEvent(o)
                           /\ Tick(ToNextEvent(e))
                           /\ heat' = Heated(on, heat, ToNextEvent(e))
                           /\ Elapsed(ToNextEvent(e))
  BY DEF Sleep
<1>. DEFINE t == ToNextEvent(e)
<1>3. /\ e \in Chs /\ period[e] \in Nat \ {0} /\ preheat[e] \in Nat \ {0}
      /\ t \in 0 .. ToWrite(e) /\ ToWrite(e) \in 0 .. period[e] - 1
  <2>1. e \in Chs
    BY DEF TypeOK
  <2>. QED
    BY <2>1, ChannelTimes
<1>4. /\ Events * B \in Int /\ Events * B + B < CounterSpan
      /\ B \in Nat /\ period[e] + MaxDone <= B
      /\ \A c \in Chs : counter[c] \in Nat /\ counter[c] <= Events * B
  BY <1>1, <1>3, RoomLeft, ChannelTimes DEF Paced
<1>5. t \in Nat /\ t <= B - MaxDone - 1
  BY <1>3, <1>4, ConstantTypes
<1>6. \A c \in Chs : counter[c] + t < CounterSpan
  BY <1>4, <1>5, ConstantTypes
<1>7. \A c \in Chs : counter'[c] = counter[c] + t
  BY <1>2, <1>5, <1>6, TickType
<1>8. Passed(t, t)
  BY <1>1, <1>2, <1>7 DEF Passed
<1>9. Events' = Events
  BY <1>1 DEF Events, Asleep
<1>10. Due(e)'
  <2>1. /\ ToWrite(e)' = ToWrite(e) - t
        /\ HeatMeasureStop(e)' <=> HeatMeasureStop(e)
    BY <1>3, <1>5, <1>8, ChannelPassed
  <2>2. CASE HeatMeasureStop(e) /\ state[e] = "Sleeping" /\ ToWrite(e) >= preheat[e]
    <3>1. ToWrite(e)' = preheat'[e]
      BY <1>1, <1>3, <2>1, <2>2, ChannelTimes
    <3>. QED
      BY <1>1, <2>1, <2>2, <3>1 DEF Due, WantsPreheat
  <2>3. CASE ~(HeatMeasureStop(e) /\ state[e] = "Sleeping" /\ ToWrite(e) >= preheat[e])
    <3>1. ToWrite(e)' = 0 /\ preheat'[e] # 0
      BY <1>1, <1>3, <2>1, <2>3, ChannelTimes
    <3>. QED
      BY <1>1, <3>1 DEF Due, WantsPreheat, WantsSample
  <2>. QED
    BY <2>2, <2>3
<1>11. \A c \in Chs : counter'[c] <= Events * B + (B - MaxDone - 1)
  BY <1>4, <1>5, <1>7, ConstantTypes
<1>12. Paced(B)'
  BY <1>1, <1>3, <1>9, <1>10, <1>11 DEF Paced
<1>. QED
  BY <1>1, <1>2, <1>5, <1>8, <1>12

\* So do the handlers.
LEMMA AdvancePasses ==
  ASSUME TypeOK, Bounds, NEW B, Fits(B), Paced(B), Advance
  PROVE  /\ \E done \in Nat : /\ Passed(Counted(done), done + Counted(done))
                              /\ slow' = (slow \/ done > 0)
         /\ pc = "advance" /\ pc' = "sleep"
         /\ Paced(B)'
<1>1. /\ pc = "advance" /\ pc' = "sleep" /\ Collecting
      /\ UNCHANGED <<period, preheat, enabled, state, filled, on, sampled>>
  BY DEF Advance, cfgVars, Collecting
<1>2. PICK done \in 0 .. MaxDone : /\ Tick(Counted(done))
                                   /\ heat' = Heated(on, heat, done + Counted(done))
                                   /\ Elapsed(done + Counted(done))
                                   /\ slow' = (slow \/ done > 0)
  BY DEF Advance
<1>. DEFINE t == Counted(done)
<1>3. done \in Nat /\ t \in Nat /\ t <= MaxDone + 1
  BY ConstantTypes DEF Counted, Larger
<1>. DEFINE n == (Events - 1) * B
<1>4. /\ Events * B \in Int /\ Events * B + B < CounterSpan
      /\ n + B = Events * B
      /\ B \in Nat
      /\ \A c \in Chs : counter[c] \in Nat /\ counter[c] <= n + (B - MaxDone - 1)
  BY <1>1, RoomLeft, ChannelTimes DEF Paced
<1>5. n \in Int
  BY <1>4, EventsAre
<1>. HIDE DEF n, t
<1>6. \A c \in Chs : counter[c] + t <= Events * B
  BY <1>3, <1>4, <1>5, ConstantTypes
<1>7. \A c \in Chs : counter[c] + t < CounterSpan
  BY <1>3, <1>4, <1>6, ConstantTypes
<1>8. \A c \in Chs : counter'[c] = counter[c] + t
  BY <1>2, <1>3, <1>7, TickType DEF t
<1>9. Passed(t, done + t)
  BY <1>1, <1>2, <1>8 DEF Passed, t
<1>10. Paced(B)'
  <2>1. Events' = Events
    BY <1>1 DEF Events, Asleep
  <2>. QED
    BY <1>1, <1>6, <1>8, <2>1 DEF Paced
<1>. QED
  BY <1>1, <1>2, <1>3, <1>9, <1>10 DEF t

\* An event raises Events; without one nothing changes but the place in the round.
LEMMA EventRaises ==
  ASSUME TypeOK, NEW c \in Chs, ProcessSensorEvent(c), pc' # "finish"
  PROVE  /\ Events \in Int /\ Events' \in Int
         /\ Due(c) => Events' >= Events + 1
         /\ ~Due(c) => /\ Events' = Events
                       /\ \A d \in Chs : Due(d)' <=> Due(d)
<1>1. /\ UNCHANGED <<period, preheat, enabled, counter>>
      /\ filled \in Nat /\ state \in [Chs -> {"Ready", "Heating", "Sleeping"}]
  BY ConstantTypes DEF ProcessSensorEvent, cfgVars, TypeOK
<1>2. CASE WantsPreheat(c)
  <2>1. /\ state[c] = "Sleeping" /\ state' = [state EXCEPT ![c] = "Heating"]
        /\ filled' = filled /\ Due(c)
    BY <1>2 DEF ProcessSensorEvent, WantsPreheat, WantsSample, Due
  <2>2. Events' = Events + 1
    BY <1>1, <2>1 DEF Events, Asleep, Chs
  <2>. QED
    BY <2>1, <2>2, EventsAre
<1>3. CASE WantsSample(c) /\ TakeSample(c)
  <2>1. /\ filled' = filled + 1 /\ Due(c)
        /\ \E s \in {"Ready", "Sleeping"} : state' = [state EXCEPT ![c] = s]
    BY <1>3 DEF TakeSample, WantsSample, Due
  <2>2. Events \in Int /\ Events' \in Int /\ Events' >= Events + 1
    BY <1>1, <2>1 DEF Events, Asleep, Chs
  <2>. QED
    BY <2>1, <2>2
<1>4. CASE ~WantsPreheat(c) /\ ~WantsSample(c)
  <2>1. state' = state /\ filled' = filled /\ ~Due(c)
    BY <1>4 DEF ProcessSensorEvent, Due
  <2>2. Events' = Events
    BY <2>1 DEF Events, Asleep
  <2>3. \A d \in Chs : Due(d)' <=> Due(d)
    BY <1>1, <2>1
       DEF Due, WantsPreheat, WantsSample, ToWrite, HeatMeasureStop
  <2>. QED
    BY <2>1, <2>2, <2>3, EventsAre
<1>. QED
  BY <1>2, <1>3, <1>4 DEF ProcessSensorEvent

LEMMA EventPaced ==
  ASSUME TypeOK, Bounds, NEW B, Fits(B), Paced(B), NEW c \in Chs, ProcessSensorEvent(c)
  PROVE  Paced(B)'
<1>1. /\ pc = c /\ Collecting /\ counter' = counter /\ c \in {"P", "T"}
      /\ pc' = (IF c = "P" THEN "T" ELSE "advance") \/ pc' = "finish"
  BY EventIs DEF Chs
<1>2. CASE pc' = "finish"
  BY <1>2 DEF Paced
<1>3. CASE pc' # "finish"
  <2>. DEFINE n    == Events
              m    == Events'
              Slept == B - MaxDone - 1
  <2>1. /\ n \in Int /\ m \in Int
        /\ Due(c) => m >= n + 1
        /\ ~Due(c) => m = n /\ \A d \in Chs : Due(d)' <=> Due(d)
    BY <1>3, EventRaises
  <2>2. B \in Nat /\ Slept \in Int /\ \A d \in Chs : counter[d] \in Nat
    BY <1>1, RoomLeft, ChannelTimes, ConstantTypes
  <2>3. c = "P" => /\ \A d \in Chs : counter[d] <= n * B + Slept
                   /\ Due("P") \/ Due("T")
    BY <1>1 DEF Paced, Chs
  <2>4. c = "T" => \/ \A d \in Chs : counter[d] <= (n - 1) * B + Slept
                   \/ Due("T") /\ \A d \in Chs : counter[d] <= n * B + Slept
    BY <1>1 DEF Paced
  <2>5. c = "P" => /\ pc' = "T"
                   /\ \/ \A d \in Chs : counter[d] <= (m - 1) * B + Slept
                      \/ Due("T")' /\ \A d \in Chs : counter[d] <= m * B + Slept
    <3>. HIDE DEF n, m, Slept
    <3>1. CASE c = "P" /\ Due(c)
      <4>1. m - 1 \in Int /\ n <= m - 1
        BY <2>1, <3>1
      <4>2. n * B \in Int /\ n * B <= (m - 1) * B /\ (m - 1) * B \in Int
        BY <2>1, <2>2, <4>1, Times
      <4>3. \A d \in Chs : counter[d] <= (m - 1) * B + Slept
        BY <2>2, <2>3, <3>1, <4>2
      <4>. QED
        BY <1>1, <1>3, <3>1, <4>3
    <3>2. CASE c = "P" /\ ~Due(c)
      BY <1>1, <1>3, <2>1, <2>3, <3>2 DEF Chs
    <3>. QED
      BY <3>1, <3>2
  <2>6. c = "T" => /\ pc' = "advance"
                   /\ \A d \in Chs : counter[d] <= (m - 1) * B + Slept
    <3>. HIDE DEF n, m, Slept
    <3>1. CASE c = "T" /\ \A d \in Chs : counter[d] <= (n - 1) * B + Slept
      <4>1. m - 1 \in Int /\ n - 1 \in Int /\ n - 1 <= m - 1
        BY <2>1
      <4>2. (n - 1) * B \in Int /\ (n - 1) * B <= (m - 1) * B /\ (m - 1) * B \in Int
        BY <2>2, <4>1, Times
      <4>3. \A d \in Chs : counter[d] <= (m - 1) * B + Slept
        BY <2>2, <3>1, <4>2
      <4>. QED
        BY <1>1, <1>3, <3>1, <4>3
    <3>2. CASE c = "T" /\ Due("T") /\ \A d \in Chs : counter[d] <= n * B + Slept
      <4>1. m - 1 \in Int /\ n <= m - 1
        BY <2>1, <3>2
      <4>2. n * B \in Int /\ n * B <= (m - 1) * B /\ (m - 1) * B \in Int
        BY <2>1, <2>2, <4>1, Times
      <4>3. \A d \in Chs : counter[d] <= (m - 1) * B + Slept
        BY <2>2, <3>2, <4>2
      <4>. QED
        BY <1>1, <1>3, <3>2, <4>3
    <3>. QED
      BY <2>4, <3>1, <3>2
  <2>. QED
    BY <1>1, <2>5, <2>6 DEF Paced
<1>. QED
  BY <1>2, <1>3

-----------------------------------------------------------------------------
(* The invariant of the schedule *)

IInv(B) == TypeOK /\ Bounds /\ Paced(B) /\ Schedule /\ SamplesKeepSchedule

LEMMA InitInv ==
  ASSUME NEW B
  PROVE  Init => IInv(B)
<1>. SUFFICES ASSUME Init PROVE IInv(B)
  OBVIOUS
<1>1. TypeOK /\ Bounds
  BY InitType
<1>2. /\ pc = "boot" /\ sample.ch = "none" /\ \A c \in Chs : state[c] = "Ready"
  BY DEF Init, NoSample
<1>3. Paced(B)
  BY <1>2 DEF Paced
<1>4. Schedule
  BY <1>1, <1>2
     DEF Schedule, TypeOK, Collecting, Handled, ChannelInv, Power, PowerInTime,
         SleepsEarly, NoneSkipped, PeriodPassed, PeriodExact, Warm
<1>. QED
  BY <1>1, <1>2, <1>3, <1>4 DEF IInv, SamplesKeepSchedule

LEMMA PacedStep ==
  ASSUME TypeOK, Bounds, NEW B, Fits(B), Paced(B), [Next]_vars
  PROVE  Paced(B)'
<1>1. CASE BootFirst \/ BootSecond \/ Finish
  BY <1>1 DEF BootFirst, BootSecond, Finish, Paced
<1>2. CASE NewPage
  <2>1. pc' = "sleep" /\ filled' = 0 /\ \A c \in Chs : counter'[c] = 0 /\ state'[c] = "Ready"
    BY <1>2 DEF NewPage
  <2>2. Events' = 0
    BY <2>1 DEF Events, Asleep, Chs
  <2>3. B \in Nat
    BY DEF Fits
  <2>. QED
    BY <2>1, <2>2, <2>3 DEF Paced
<1>3. CASE UNCHANGED vars
  BY <1>3 DEF Paced, Events, Asleep, Due, WantsPreheat, WantsSample, ToWrite,
              HeatMeasureStop, vars, cfgVars
<1>. QED
  BY <1>1, <1>2, <1>3, SleepPasses, AdvancePasses, EventPaced DEF Next

\* Every enabled channel keeps its invariant, whoever moves.
LEMMA ScheduleStep ==
  ASSUME TypeOK, Bounds, NEW B, Fits(B), Paced(B), Schedule, [Next]_vars
  PROVE  Schedule'
<1>. SUFFICES ASSUME NEW c \in enabled, ChannelInv(c), c \in Chs
              PROVE  ChannelInv(c)'
  <2>1. enabled' = enabled
    BY DEF Next, BootFirst, BootSecond, NewPage, Sleep, ProcessSensorEvent, Advance,
           Finish, vars, cfgVars
  <2>. QED
    BY <2>1 DEF Schedule, TypeOK
<1>1. CASE Sleep
  <2>1. PICK t \in Nat : Passed(t, t) /\ \A o \in enabled : t <= ToNextEvent(o)
    BY <1>1, SleepPasses
  <2>2. pc = "sleep" /\ pc' = "P" /\ UNCHANGED slow
    BY <1>1, SleepPasses
  <2>. QED
    BY <2>1, <2>2, SleepKeepsChannel
<1>2. CASE Advance
  <2>1. PICK done \in Nat : /\ Passed(Counted(done), done + Counted(done))
                            /\ slow' = (slow \/ done > 0)
    BY <1>2, AdvancePasses
  <2>2. pc = "advance" /\ pc' = "sleep"
    BY <1>2, AdvancePasses
  <2>. QED
    BY <2>1, <2>2, AdvanceKeepsChannel
<1>3. ASSUME NEW d \in Chs, ProcessSensorEvent(d)
      PROVE  ChannelInv(c)'
  BY <1>3, OwnKeepsChannel, OtherKeepsChannel
<1>4. CASE UNCHANGED vars
  BY <1>4 DEF ChannelInv, Power, PowerInTime, SleepsEarly, NoneSkipped, PeriodPassed,
              PeriodExact, Warm, Collecting, Handled, HeatMeasureStop, ToWrite,
              ShortestPreheat, vars, cfgVars
<1>. QED
  BY <1>1, <1>2, <1>3, <1>4, BootKeepsChannel, PageKeepsChannel DEF Next

\* A sample is taken when its channel is due, hence when it is ready.
LEMMA SampleStep ==
  ASSUME TypeOK, Schedule, SamplesKeepSchedule, [Next]_vars
  PROVE  SamplesKeepSchedule'
<1>1. ASSUME NEW c \in Chs, ProcessSensorEvent(c), WantsSample(c), TakeSample(c)
      PROVE  SamplesKeepSchedule'
  <2>1. pc = c /\ c \in enabled /\ ChannelInv(c)
    BY <1>1 DEF ProcessSensorEvent, WantsSample, Schedule
  <2>2. /\ ~slow => on[c]
        /\ c \in sampled => since[c] >= period[c]
        /\ c \in sampled /\ ~slow => since[c] = period[c] /\ heat[c] >= preheat[c]
    BY <1>1, <2>1, DueIsReady
  <2>3. sample' = [ch |-> c, first |-> c \notin sampled, gap |-> since[c],
                   heated |-> on[c] /\ heat[c] >= preheat[c]]
    BY <1>1 DEF TakeSample
  <2>4. period' = period /\ slow' = slow
    BY <1>1 DEF ProcessSensorEvent, cfgVars
  <2>. QED
    BY <2>2, <2>3, <2>4 DEF SamplesKeepSchedule
<1>2. ASSUME NEW c \in Chs, ProcessSensorEvent(c), ~(WantsSample(c) /\ TakeSample(c))
      PROVE  SamplesKeepSchedule'
  <2>1. sample' = NoSample
    BY <1>2 DEF ProcessSensorEvent
  <2>. QED
    BY <2>1 DEF SamplesKeepSchedule, NoSample
<1>3. CASE BootFirst \/ BootSecond \/ UNCHANGED vars
  BY <1>3 DEF BootFirst, BootSecond, SamplesKeepSchedule, vars, cfgVars
<1>4. CASE NewPage \/ Sleep \/ Advance \/ Finish
  BY <1>4 DEF NewPage, Sleep, Advance, Finish, SamplesKeepSchedule, NoSample
<1>. QED
  BY <1>1, <1>2, <1>3, <1>4 DEF Next

LEMMA InvStep ==
  ASSUME NEW B, Fits(B), IInv(B), [Next]_vars
  PROVE  IInv(B)'
BY StepType, PacedStep, ScheduleStep, SampleStep DEF IInv

LEMMA InvHolds == PageEndsInTime => (Spec => [](Schedule /\ SamplesKeepSchedule))
<1>. SUFFICES ASSUME PageEndsInTime
              PROVE  Spec => [](Schedule /\ SamplesKeepSchedule)
  OBVIOUS
<1>1. PICK B : Fits(B)
  BY DEF PageEndsInTime, Fits
<1>2. Init => IInv(B)
  BY InitInv
<1>3. IInv(B) /\ [Next]_vars => IInv(B)'
  BY <1>1, InvStep
<1>4. IInv(B) => Schedule /\ SamplesKeepSchedule
  BY DEF IInv
<1>. QED
  BY <1>2, <1>3, <1>4, PTL DEF Spec

(***************************************************************************)
(* accept_state, enable_p_channel and enable_t_channel: what the recorder  *)
(* thinks of a channel is what it told it, for every pair of periods and   *)
(* preheat times, as long as no page outlasts the u32 counters.            *)
(***************************************************************************)
THEOREM SleepingChannelsAreOff == PageEndsInTime => (Spec => []SleepingMeansOff)
<1>1. Schedule => SleepingMeansOff
  BY DEF Schedule, ChannelInv, Power, PowerInTime, SleepingMeansOff
<1>. SUFFICES ASSUME PageEndsInTime
              PROVE  Spec => []SleepingMeansOff
  OBVIOUS
<1>2. Spec => [](Schedule /\ SamplesKeepSchedule)
  BY InvHolds
<1>. QED
  BY <1>1, <1>2, PTL

(***************************************************************************)
(* to_write, to_next_event, process_sensor_event: no two samples of a      *)
(* channel in a page are less than a period apart, none is skipped or cold *)
(* while handling them takes no time.                                      *)
(***************************************************************************)
THEOREM SamplesComeOnTime == PageEndsInTime => (Spec => []SamplesKeepSchedule)
<1>. SUFFICES ASSUME PageEndsInTime
              PROVE  Spec => []SamplesKeepSchedule
  OBVIOUS
<1>1. Spec => [](Schedule /\ SamplesKeepSchedule)
  BY InvHolds
<1>. QED
  BY <1>1, PTL

=============================================================================
