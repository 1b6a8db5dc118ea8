\* Reload values up to 3; targets with the prescalers 0, 1 and 2.
CONSTANTS
    MaxReload = 4
    Targets = {1, 4, 6, 9}
    Many = 14
SPECIFICATION FairCounterSpec
INVARIANTS CounterTypeOK
PROPERTIES StopIsOnePeriod CycleEnds
