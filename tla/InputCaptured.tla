--------------------------- MODULE InputCaptured ---------------------------
(***************************************************************************)
(* FreqmeterController::input_captured: the duration of a measuring cycle  *)
(* as the difference of two 32-bit captures of the reference clock, and    *)
(* the filter that looks for "needles", durations one span of the hardware *)
(* counter off because one of the two captures was.                        *)
(*                                                                         *)
(* The captures are those MasterCounter promises: exact, or one whole span *)
(* late (MasterCounter!NeedleIsOneSpan).  Every cycle is measured from its *)
(* own Start capture (SensorProcessor!ResultIsOneCycle).  Arithmetic is    *)
(* that of the release build, modulo 2^32.                                 *)
(***************************************************************************)
EXTENDS Integers

CONSTANTS
    Modulus,    \* 2^32
    SelfSpan,   \* MASTER_SELF_MAX_VALUE
    Window,     \* DETECT_WINDOW
    Signals     \* the signals: sets of durations, each set narrower than Window

Durations == UNION Signals

\* A measured cycle is longer than two spans of the reference counter and
\* shorter than its period: measuring times are 20 ms to 5 s, a span 3.3 ms,
\* the period 214 s.
ASSUME InputAssumption ==
    /\ SelfSpan \in Nat \ {0}
    /\ Window \in Nat \ {0}
    /\ 4 * Window < SelfSpan
    /\ \A d \in Durations : d \in Nat /\ 2 * SelfSpan + Window < d /\ d + 2 * SelfSpan < Modulus
    /\ \A s \in Signals : \A d1, d2 \in s : d1 - d2 < Window
    /\ Modulus \in Nat \ {0}

None == -1

VARIABLES
    signal,     \* the signal now measured, a member of Signals
    prev,       \* the Start capture
    prev_diff,  \* FreqmeterController::prev_diff, None or the diff it holds
    edge,       \* the Start edge: is its Stop due, when was it, how late its capture
    true,       \* duration of the cycle last handled
    raw,        \* error its two captures left in it: -SelfSpan, 0 or SelfSpan
    result,     \* what input_captured returned for it
    branch,     \* "kept", needle "down" or needle "up"
    age,        \* cycles of this signal measured so far, up to 2
    clean       \* cycles without a needle since the last one or a retarget, up to 2

filterVars == <<signal, prev, prev_diff, edge, true, raw, result, branch, age, clean>>

Captures == 0 .. Modulus - 1

FilterTypeOK ==
    /\ signal \in Signals
    /\ prev \in Captures
    /\ prev_diff \in Captures \cup {None}
    /\ edge \in [due : BOOLEAN, begun : Captures, late : {0, SelfSpan}]
    /\ true \in Durations \cup {0}
    /\ raw \in {-SelfSpan, 0, SelfSpan}
    /\ result \in Captures
    /\ branch \in {"kept", "down", "up"}
    /\ age \in 0 .. 2
    /\ clean \in 0 .. 2

FilterInit ==
    /\ signal \in Signals
    /\ prev = 0
    /\ prev_diff = None
    /\ edge = [due |-> FALSE, begun |-> 0, late |-> 0]
    /\ true = 0
    /\ raw = 0
    /\ result = 0
    /\ branch = "kept"
    /\ age = 0
    /\ clean = 0

-----------------------------------------------------------------------------

AbsDiff(a, b) == IF a < b THEN b - a ELSE a - b

\* captured - prev, or u32::MAX - prev + captured when the clock has wrapped,
\* which is one less than the ticks that passed.
RawDiff(p, c) == IF p <= c THEN c - p ELSE Modulus - 1 - p + c

\* prev_diff says the diff is off by a span, give or take the window.
IsNeedle(pd, diff) ==
    /\ pd # None
    /\ AbsDiff(pd, diff) <= SelfSpan + Window
    /\ AbsDiff(pd, diff) >= SelfSpan - Window

\* Mutant: a needle is corrected in the wrong direction.
Correction_WrongWay(pd, diff) == IF pd > diff THEN -SelfSpan ELSE SelfSpan

\* A needle down is raised by a span, a needle up is lowered.
Correction(pd, diff) == IF pd > diff THEN SelfSpan ELSE -SelfSpan

\* The Start capture, of an edge at any moment of the clock.
StartCaptured ==
    /\ ~edge.due
    /\ \E begun \in Captures, late \in {0, SelfSpan} :
         /\ edge' = [due |-> TRUE, begun |-> begun, late |-> late]
         /\ prev' = (begun + late) % Modulus
    /\ UNCHANGED <<signal, prev_diff, true, raw, result, branch, age, clean>>

\* prev_diff is forgotten after a correction, else it is the new diff.
NextPrevDiff(needle, diff) == IF needle THEN None ELSE diff

Bounded(n) == IF n > 2 THEN 2 ELSE n

\* The Stop capture, a duration of the signal later.
StopCaptured ==
    /\ edge.due
    /\ \E d \in signal, late \in {0, SelfSpan} :
         LET captured == (edge.begun + d + late) % Modulus
             diff     == RawDiff(prev, captured)
             needle   == IsNeedle(prev_diff, diff)
             shift    == IF needle THEN Correction(prev_diff, diff) ELSE 0
         IN  /\ true' = d
             /\ raw' = late - edge.late
             /\ result' = (diff + shift) % Modulus
             /\ branch' = CASE ~needle -> "kept"
                            [] needle /\ prev_diff > diff -> "down"
                            [] OTHER -> "up"
             /\ prev_diff' = NextPrevDiff(needle, diff)
             /\ prev' = (captured + shift) % Modulus
             /\ clean' = IF late # edge.late THEN 0
                         ELSE Bounded(clean + 1)
    /\ age' = Bounded(age + 1)
    /\ edge' = [edge EXCEPT !.due = FALSE]
    /\ UNCHANGED signal

\* set_target: another duration is measured from now on.  prev_diff keeps the
\* diff of the old target.
SetTarget ==
    /\ ~edge.due
    /\ signal' \in Signals \ {signal}
    /\ age' = 0
    /\ clean' = 0
    /\ UNCHANGED <<prev, prev_diff, edge, true, raw, result, branch>>

FilterNext == StartCaptured \/ StopCaptured \/ SetTarget

FilterSpec == FilterInit /\ [][FilterNext]_filterVars

-----------------------------------------------------------------------------
(* Properties *)

Measured == ~edge.due /\ age # 0

\* Exact but for the tick lost when the 32-bit clock wraps.
Exact(r, d) == r \in {d - 1, d}

\* After two clean cycles of a signal, a needle is repaired and a clean cycle
\* is left alone (the DETECT_WINDOW block).
FilterRepairsIsolatedNeedle ==
    [][edge.due /\ ~edge'.due /\ clean = 2
         => Exact(result', true')]_filterVars

\* However needles follow each other, errors never add up: a result is at most
\* one span off, even where the filter "corrects" what was right; only the
\* first cycle after a change of target may be two spans off, because
\* prev_diff is still that of the old target.  The second clean cycle after a
\* needle or a change of target is exact again, whatever prev_diff it found.
ErrorStaysBounded ==
    Measured =>
       /\ AbsDiff(result, true) <= (IF age < 2 THEN 2 ELSE 1) * SelfSpan + 1
       /\ clean = 2 => Exact(result, true)

=============================================================================
