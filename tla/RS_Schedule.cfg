\* Periods below, equal to and above the preheat times; handling the events
\* takes up to two ticks.
CONSTANTS
    Periods = {1, 3, 4, 6}
    Preheats = {2, 3, 5}
    PageSamples = 5
    PreheatMultiplier = 2
    AdaptationInterval = 1
    AnalogDelay = 1
    CounterSpan = 100
    MaxDone = 2
SPECIFICATION FairSpec
INVARIANTS SleepingMeansOff SamplesKeepSchedule
PROPERTIES PagesKeepComing
