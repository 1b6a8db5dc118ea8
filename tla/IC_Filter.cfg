\* Two signals a span apart on a clock of seventy ticks.
CONSTANTS
    Modulus = 70
    SelfSpan = 12
    Window = 2
    Signals = {{27, 28}, {39, 40}}
SPECIFICATION FilterSpec
 
PROPERTIES FilterRepairsIsolatedNeedle
