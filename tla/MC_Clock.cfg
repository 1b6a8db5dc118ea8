\* Two values of the counter; six of the extender, three of them told apart
\* in a capture, so that a lap behind differs from a lap late.
CONSTANTS
    Span = 2
    ExtSpan = 6
    LapSpan = 3
    MaxPreempt = 1
SPECIFICATION Spec
INVARIANTS TypeOK ExtenderTracksLaps AcceptedCaptureExact NeedleIsOneSpan TimeStampBracketed
