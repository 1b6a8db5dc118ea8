-------------------------- MODULE RecorderSchedule --------------------------
(***************************************************************************)
(* RecorderProcessor::controller: when the recorder powers its two         *)
(* frequency channels, samples them into a page and starts the next page.  *)
(*                                                                         *)
(* Between samples a channel whose period is longer than its preheat time  *)
(* sleeps and is raised again one preheat time before the next sample.     *)
(* The schedule is kept in counters that are advanced by what the code     *)
(* believes has passed; heat and since are ghosts that measure what really *)
(* passed.  A unit of time stands for one tick; the measured duration of a *)
(* pass through the event handlers is any value up to MaxDone.             *)
(***************************************************************************)
EXTENDS Naturals

CONSTANTS
    Periods,             \* write periods the settings may ask for
    Preheats,            \* preheat times the measuring times lead to
    PageSamples,         \* samples that fill a page
    PreheatMultiplier,   \* config::PREHEAT_MULTIPLIER
    AdaptationInterval,  \* config::MINIMUM_ADAPTATION_INTERVAL
    AnalogDelay,         \* ticks the analog channels are given
    CounterSpan,         \* 2^32, the span of ToWriteCounter::counter
    MaxDone              \* longest pass through the event handlers, in ticks

Chs == {"P", "T"}

ASSUME ScheduleAssumption ==
    /\ Periods \cup Preheats \cup {PageSamples, PreheatMultiplier, CounterSpan}
         \subseteq Nat \ {0}
    /\ {AdaptationInterval, AnalogDelay, MaxDone} \subseteq Nat

VARIABLES
    period,   \* FChCfg: write_period_ms of each channel
    preheat,  \* FChCfg: preheat_time_ms of each channel
    enabled,  \* FChCfg: p_en, t_en
    pc,       \* where the controller is
    counter,  \* ToWriteCounter::counter of each channel
    state,    \* ToWriteCounter::cur_state of each channel
    filled,   \* samples in the page
    on,       \* the last command sent for the channel was Start
    heat,     \* time since the channel was powered, up to its preheat time
    since,    \* time since the channel's last sample in this page, up to twice its
              \* period
    sampled,  \* channels sampled in this page
    slow,     \* handling events has taken time
    sample    \* the sample taken by the last step, if it took one

cfgVars == <<period, preheat, enabled>>
vars    == <<cfgVars, pc, counter, state, filled, on, heat, since,
             sampled, slow, sample>>

NoSample == [ch |-> "none", first |-> TRUE, gap |-> 0, heated |-> TRUE]

TypeOK ==
    /\ period \in [Chs -> Periods]
    /\ preheat \in [Chs -> Preheats]
    /\ enabled \in SUBSET Chs
    /\ pc \in {"boot", "boot2", "page", "sleep", "P", "T", "advance", "finish"}
    /\ counter \in [Chs -> 0 .. CounterSpan - 1]
    /\ state \in [Chs -> {"Ready", "Heating", "Sleeping"}]
    /\ filled \in 0 .. PageSamples
    /\ on \in [Chs -> BOOLEAN]
    /\ heat \in [Chs -> Nat]
    /\ since \in [Chs -> Nat]
    /\ \A c \in Chs : heat[c] \in 0 .. preheat[c] /\ since[c] \in 0 .. 2 * period[c]
    /\ sampled \in SUBSET Chs
    /\ slow \in BOOLEAN
    /\ sample \in [ch : Chs \cup {"none"}, first : BOOLEAN, gap : Nat,
                   heated : BOOLEAN]

\* The configuration is read once, before the controller starts.  With no
\* channel enabled the controller sleeps for good.
Init ==
    /\ period \in [Chs -> Periods]
    /\ preheat \in [Chs -> Preheats]
    /\ enabled \in SUBSET Chs \ {{}}
    /\ pc = "boot"
    /\ counter = [c \in Chs |-> 0]
    /\ state = [c \in Chs |-> "Ready"]
    /\ filled = 0
    /\ on = [c \in Chs |-> FALSE]
    /\ heat = [c \in Chs |-> 0]
    /\ since = [c \in Chs |-> 0]
    /\ sampled = {}
    /\ slow = FALSE
    /\ sample = NoSample

-----------------------------------------------------------------------------
(* Time and power *)

Smaller(a, b) == IF a < b THEN a ELSE b
Larger(a, b)  == IF a > b THEN a ELSE b

LongestPreheat  == Larger(preheat["P"], preheat["T"])
ShortestPreheat == Smaller(preheat["P"], preheat["T"])

\* Time passes for the channels that are powered in power and in no other.
Heated(power, h, t) ==
    [c \in Chs |-> IF power[c] THEN Smaller(h[c] + t, preheat[c]) ELSE 0]

Elapsed(t) == since' = [c \in Chs |-> Smaller(since[c] + t, 2 * period[c])]

\* enable_p_channel, enable_t_channel: Start is sent to an enabled channel; it
\* powers a generator that is off and leaves the power of one that is on.
PowerOn(cs) == [c \in Chs |-> on[c] \/ c \in cs \cap enabled]

-----------------------------------------------------------------------------
(* ToWriteCounter *)

\* tick: the counters advance; they are u32 and never reset within a page.
Tick(t) == counter' = [c \in Chs |-> (counter[c] + t) % CounterSpan]

HeatMeasureStop(c) == preheat[c] < period[c]

\* Mutant: at the moment of a sample, a whole period is left.
ToWrite_NeverZero(c) == period[c] - (counter[c] % period[c])

\* to_write: time left to the next sample.
ToWrite(c) == (period[c] - (counter[c] % period[c])) % period[c]

\* to_next_event: how long a channel may be left alone.
ToNextEvent(c) ==
    IF HeatMeasureStop(c) /\ state[c] = "Sleeping" /\ ToWrite(c) >= preheat[c]
    THEN ToWrite(c) - preheat[c]
    ELSE ToWrite(c)

\* is_event.
WantsPreheat(c) ==
    /\ c \in enabled
    /\ HeatMeasureStop(c) /\ state[c] = "Sleeping"
    /\ ToWrite(c) = preheat[c]

WantsSample(c) == c \in enabled /\ ToWrite(c) = 0 /\ ~WantsPreheat(c)

-----------------------------------------------------------------------------
(* Boot: the channel with the longer preheat time is powered first. *)

BootFirst ==
    /\ pc = "boot"
    /\ LET both   == ShortestPreheat = LongestPreheat
           longer == IF preheat["P"] > preheat["T"] THEN {"P"} ELSE {"T"}
           delay  == IF both THEN 2 * LongestPreheat
                     ELSE LongestPreheat - ShortestPreheat
       IN  /\ on' = PowerOn(IF both THEN Chs ELSE longer)
           /\ heat' = Heated(on', heat, delay)
           /\ pc' = IF both THEN "page" ELSE "boot2"
    /\ UNCHANGED <<cfgVars, counter, state, filled, since, sampled, slow, sample>>

BootSecond ==
    /\ pc = "boot2"
    /\ on' = PowerOn(Chs)
    /\ heat' = Heated(on', heat, ShortestPreheat)
    /\ pc' = "page"
    /\ UNCHANGED <<cfgVars, counter, state, filled, since, sampled, slow, sample>>

-----------------------------------------------------------------------------
(* A page *)

\* The analog channels are started and given AnalogDelay ticks, the page is
\* created and its header written, both counters start anew as channel_heated.
NewPage ==
    /\ pc = "page"
    /\ heat' = Heated(on, heat, AnalogDelay)
    /\ counter' = [c \in Chs |-> 0]
    /\ state' = [c \in Chs |-> "Ready"]
    /\ since' = [c \in Chs |-> 0]
    /\ sampled' = {}
    /\ filled' = 0
    /\ sample' = NoSample
    /\ pc' = "sleep"
    /\ UNCHANGED <<cfgVars, on, slow>>

\* The controller sleeps to the nearest event of an enabled channel.
Sleep ==
    /\ pc = "sleep"
    /\ \E c \in enabled :
         LET t == ToNextEvent(c)
         IN  /\ \A o \in enabled : t <= ToNextEvent(o)
             /\ Tick(t)
             /\ heat' = Heated(on, heat, t)
             /\ Elapsed(t)
    /\ pc' = "P"
    /\ sample' = NoSample
    /\ UNCHANGED <<cfgVars, state, filled, on, sampled, slow>>

\* push_data: the sample that fills the page.
PageFull(n) == n = PageSamples

\* Mutant: at the end of a page the other channel is left as it is.
PowerAtPageEnd_Left(c) == on

\* The other channel is raised too, the one just sampled was never stopped.
PowerAtPageEnd(c) == PowerOn(Chs \ {c})

\* A sample goes into the page: a full page ends the collection and leaves
\* both channels on, else a channel that preheats goes to sleep.
TakeSample(c) ==
    /\ filled' = filled + 1
    /\ sample' = [ch |-> c, first |-> c \notin sampled, gap |-> since[c],
                  heated |-> on[c] /\ heat[c] >= preheat[c]]
    /\ since' = [since EXCEPT ![c] = 0]
    /\ sampled' = sampled \cup {c}
    /\ IF PageFull(filled')
       THEN /\ state' = [state EXCEPT ![c] = IF HeatMeasureStop(c) THEN "Ready" ELSE @]
            /\ on' = PowerAtPageEnd(c)
            /\ pc' = "finish"
       ELSE /\ state' = [state EXCEPT ![c] = IF HeatMeasureStop(c) THEN "Sleeping"
                                             ELSE "Ready"]
            /\ on' = [on EXCEPT ![c] = @ /\ ~HeatMeasureStop(c)]
            /\ pc' = IF c = "P" THEN "T" ELSE "advance"

\* process_sensor_event, first for the pressure, then for the temperature.
ProcessSensorEvent(c) ==
    /\ pc = c
    /\ \/ /\ WantsPreheat(c)
          /\ on' = PowerOn({c})
          /\ state' = [state EXCEPT ![c] = "Heating"]
          /\ sample' = NoSample
          /\ pc' = IF c = "P" THEN "T" ELSE "advance"
          /\ UNCHANGED <<filled, since, sampled>>
       \/ /\ WantsSample(c)
          /\ TakeSample(c)
       \/ /\ ~WantsPreheat(c) /\ ~WantsSample(c)
          /\ sample' = NoSample
          /\ pc' = IF c = "P" THEN "T" ELSE "advance"
          /\ UNCHANGED <<state, filled, on, since, sampled>>
    /\ heat' = Heated(on', heat, 0)
    /\ UNCHANGED <<cfgVars, counter, slow>>

\* Mutant: the counters are advanced by the measured time alone.
Counted_Measured(done) == done

\* At least one tick, so that the same event is not handled twice.
Counted(done) == Larger(done, 1)

\* The handlers took done ticks; the controller sleeps that long once more and
\* advances the counters by it.
Advance ==
    /\ pc = "advance"
    /\ \E done \in 0 .. MaxDone :
         LET t == Counted(done)
         IN  /\ Tick(t)
             /\ heat' = Heated(on, heat, done + t)
             /\ Elapsed(done + t)
             /\ slow' = (slow \/ done > 0)
    /\ sample' = NoSample
    /\ pc' = "sleep"
    /\ UNCHANGED <<cfgVars, state, filled, on, sampled>>

\* The page is written and the adaptation awaited; the time of the write is
\* part of the wait.
Finish ==
    /\ pc = "finish"
    /\ heat' = Heated(on, heat, LongestPreheat \div PreheatMultiplier
                                  + AdaptationInterval)
    /\ sample' = NoSample
    /\ pc' = "page"
    /\ UNCHANGED <<cfgVars, counter, state, filled, on, since, sampled, slow>>

Next ==
    \/ BootFirst \/ BootSecond
    \/ NewPage
    \/ Sleep
    \/ \E c \in Chs : ProcessSensorEvent(c)
    \/ Advance
    \/ Finish

\* The controller is a task of its own that nothing blocks for good.
Spec     == Init /\ [][Next]_vars
FairSpec == Spec /\ WF_vars(Next)

-----------------------------------------------------------------------------
(* Properties *)

Collecting == pc \in {"sleep", "P", "T", "advance"}

\* The schedule's idea of a channel and the commands sent for it agree, across
\* the end and beginning of pages: a channel thought asleep is off, one thought
\* heating is on, and so is one thought ready, as long as handling events has
\* taken no time (accept_state, enable_p_channel, enable_t_channel).
SleepingMeansOff ==
    Collecting => \A c \in enabled :
       /\ state[c] = "Sleeping" => ~on[c]
       /\ state[c] = "Heating" => on[c]
       /\ state[c] = "Ready" /\ ~slow => on[c]

\* However long the handlers take, the samples of a channel in a page are at
\* least a period apart.  As long as handling events has taken no time they are
\* exactly one apart - none is skipped, none taken twice - and a channel that was
\* put to sleep has been powered for its whole preheat time when it is sampled.
SamplesKeepSchedule ==
    sample.ch # "none" /\ ~sample.first =>
       /\ sample.gap >= period[sample.ch]
       /\ ~slow => sample.gap = period[sample.ch] /\ sample.heated

\* Every page is filled in the end, however the handlers' time falls.
PagesKeepComing == []<>(pc = "finish")

=============================================================================
