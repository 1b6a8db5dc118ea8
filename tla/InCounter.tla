----------------------------- MODULE InCounter -----------------------------
(***************************************************************************)
(* One frequency-meter timer, TIM1 or TIM2, at the grain of its registers: *)
(* the timer counts the edges of the signal, an overflow makes the DMA     *)
(* copy the reference counter and raises the DMA interrupt, whose handler  *)
(* labels the capture by the one-pulse bit, and the sensor thread starts,  *)
(* stops and retargets the timer in between.  SensorProcessor takes an     *)
(* overflow with its handler, and a cold start, for one step each; here    *)
(* they overlap.                                                           *)
(* Time passes in edges of the signal.  A handler may come any number of   *)
(* edges late: the CPU stalls while the internal flash is erased.          *)
(***************************************************************************)
EXTENDS Naturals

CONSTANTS
    MaxReload,  \* u16::MAX
    Targets,    \* the targets set_target32 is called with
    Many        \* bound on the edges told apart

VARIABLES
    tim,    \* registers of the timer: [cen, opm, psc, arr, cnt, sub], where sub
            \* is the count of the prescaler
    dmaIrq, \* the DMA has copied the reference counter, its interrupt is pending
    dmaIsr, \* the handler: where it is, and the one-pulse bit it has read
    task,   \* the sensor thread in this driver
    cr1,    \* the one-pulse bit the thread has read with cr1
    run,    \* edges since the reference counter was copied
    span,   \* edges from the capture last reported as Start to that copy
    slip    \* an overflow met the one-pulse bit in a moment of change

counterVars == <<tim, dmaIrq, dmaIsr, task, cr1, run, span, slip>>

\* More edges than Many are all the same.
UpTo(n) == IF n < Many THEN n ELSE Many

-----------------------------------------------------------------------------
(* The target: one counter of 16 bits behind a prescaler *)

Fits(t, p) == t \div p < MaxReload

\* transform_target32: the first prescaler that leaves a reload value that fits.
\* It panics when there is none.
Divider(t) ==
    CHOOSE p \in 1..(MaxReload - 1) :
      Fits(t, p) /\ \A q \in 1..(p - 1) : ~Fits(t, q)

Shortened(target) == IF target < 2 THEN 2 ELSE target - 1

TransformTarget32(target) ==
    LET t == Shortened(target)
        p == Divider(t)
    IN [psc |-> p - 1, arr |-> t \div p]

\* A plausible slip: the value before it was "found to be 1 more".
AsTarget32_OneLess(psc, arr) == (psc + 1) * arr

AsTarget32(psc, arr) == (psc + 1) * arr + 1

\* What the timer counts from one overflow to the next.
Period(psc, arr) == (psc + 1) * (arr + 1)

ASSUME InCounterAssumption ==
    /\ MaxReload \in Nat /\ MaxReload > 2
    /\ Targets \subseteq Nat
    /\ Many \in Nat
    /\ \A target \in Targets \cup {1} :
         /\ \E p \in 1..(MaxReload - 1) : Fits(Shortened(target), p)
         /\ LET x == TransformTarget32(target) IN Period(x.psc, x.arr) < Many

-----------------------------------------------------------------------------

\* configure: the timer is reset and set to the initial target; an update event
\* made by software raises no DMA request.
Configure(target) ==
    [ cen |-> FALSE, opm |-> FALSE, cnt |-> 0, sub |-> 0,
      psc |-> TransformTarget32(target).psc, arr |-> TransformTarget32(target).arr ]

CounterInit ==
    /\ tim = Configure(1)
    /\ dmaIrq = FALSE
    /\ dmaIsr = [at |-> "out", opm |-> FALSE]
    /\ task = "idle" /\ cr1 = FALSE
    /\ run = Many /\ span = Many
    /\ slip = FALSE

-----------------------------------------------------------------------------
(* The hardware *)

Wraps == tim.sub = tim.psc /\ tim.cnt = tim.arr

\* An edge that the timer only counts, or that it does not even see.
PlainEdge ==
    /\ ~(tim.cen /\ Wraps)
    /\ run' = UpTo(run + 1)
    /\ tim' = IF ~tim.cen THEN tim
              ELSE IF tim.sub < tim.psc THEN [tim EXCEPT !.sub = @ + 1]
              ELSE [tim EXCEPT !.sub = 0, !.cnt = @ + 1]
    /\ UNCHANGED <<dmaIrq, dmaIsr, task, cr1, span, slip>>

\* An overflow.  In one-pulse mode the timer stops.  The slip is an overflow
\* while the handler of the one before is between its reads of cr1 and of the
\* copy, or after it has read the one-pulse bit and not yet set it.
CounterOverflow ==
    /\ tim.cen /\ Wraps
    /\ tim' = [tim EXCEPT !.sub = 0, !.cnt = 0, !.cen = ~tim.opm]
    /\ dmaIrq' = TRUE
    /\ run' = 0
    /\ span' = UpTo(span + run + 1)
    /\ slip' = (slip \/ dmaIsr.at # "out")
    /\ UNCHANGED <<dmaIsr, task, cr1>>

Edge == PlainEdge \/ CounterOverflow

-----------------------------------------------------------------------------
(* The interrupt handler, above every task *)

\* The flag is cleared and the one-pulse bit read.
EnterHandler ==
    /\ dmaIrq /\ dmaIsr.at = "out"
    /\ dmaIrq' = FALSE
    /\ dmaIsr' = [at |-> "read", opm |-> tim.opm]
    /\ UNCHANGED <<tim, task, cr1, run, span, slip>>

\* A plausible slip: the timer is left to run.
SetOpm_Never == UNCHANGED tim

SetOpm == tim' = [tim EXCEPT !.opm = TRUE]

LabelCapture ==
    /\ dmaIsr.at = "read"
    /\ IF dmaIsr.opm THEN UNCHANGED tim ELSE SetOpm
    /\ dmaIsr' = [dmaIsr EXCEPT !.at = "label"]
    /\ UNCHANGED <<dmaIrq, task, cr1, run, span, slip>>

\* call_dma_cb: the copy goes to the sensor thread as Start or as Stop.
Report ==
    /\ dmaIsr.at = "label"
    /\ dmaIsr' = [at |-> "out", opm |-> FALSE]
    /\ span' = IF dmaIsr.opm THEN span ELSE 0
    /\ UNCHANGED <<tim, dmaIrq, task, cr1, run, slip>>

Handler == EnterHandler \/ LabelCapture \/ Report

-----------------------------------------------------------------------------
(* The sensor thread, when no handler runs *)

TaskRuns(at) == dmaIsr.at = "out" /\ task = at

\* A plausible slip: the one-pulse bit of the last cycle stays.
ColdStart_KeepsOnePulse ==
    /\ TaskRuns("idle") \/ TaskRuns("restart")
    /\ tim' = [tim EXCEPT !.cen = FALSE, !.cnt = tim.arr - 1]
    /\ task' = "cold"
    /\ slip' = dmaIrq
    /\ UNCHANGED <<dmaIrq, dmaIsr, cr1, run, span>>

\* cold_start: the timer is stopped, taken out of one-pulse mode and set to one
\* before its last value ...  The slip is an interrupt still pending here: its
\* handler will put the timer into one-pulse mode again.
ColdStart ==
    /\ TaskRuns("idle") \/ TaskRuns("restart")
    /\ tim' = [tim EXCEPT !.cen = FALSE, !.opm = FALSE, !.cnt = tim.arr - 1]
    /\ task' = "cold"
    /\ slip' = dmaIrq
    /\ UNCHANGED <<dmaIrq, dmaIsr, cr1, run, span>>

\* ... and started, by a read of cr1 ...
ReadCr1 ==
    /\ TaskRuns("cold")
    /\ cr1' = tim.opm
    /\ task' = "start"
    /\ UNCHANGED <<tim, dmaIrq, dmaIsr, run, span, slip>>

\* ... and a write, which also writes the one-pulse bit that was read.
WriteCr1 ==
    /\ TaskRuns("start")
    /\ tim' = [tim EXCEPT !.cen = TRUE, !.opm = cr1]
    /\ cr1' = FALSE
    /\ task' = "idle"
    /\ UNCHANGED <<dmaIrq, dmaIsr, run, span, slip>>

\* A plausible slip: the target is changed under a running timer.
Stop_Running ==
    /\ TaskRuns("idle")
    /\ UNCHANGED tim
    /\ task' \in {"idle", "retarget"}
    /\ UNCHANGED <<dmaIrq, dmaIsr, cr1, run, span, slip>>

\* stop, alone or as the beginning of set_target.
Stop ==
    /\ TaskRuns("idle")
    /\ tim' = [tim EXCEPT !.cen = FALSE]
    /\ task' \in {"idle", "retarget"}
    /\ UNCHANGED <<dmaIrq, dmaIsr, cr1, run, span, slip>>

\* set_target has waited for the timer daemon: no interrupt is pending.  A
\* running timer would be a panic.  The update event loads the prescaler.
SetTarget32 ==
    /\ TaskRuns("retarget") /\ ~dmaIrq
    /\ \E target \in Targets :
         LET x == TransformTarget32(target)
         IN IF tim.cen THEN task' = "panic" /\ UNCHANGED tim
            ELSE /\ tim' = [tim EXCEPT !.psc = x.psc, !.arr = x.arr,
                                       !.cnt = 0, !.sub = 0]
                 /\ task' = "restart"
    /\ UNCHANGED <<dmaIrq, dmaIsr, cr1, run, span, slip>>

Task == ColdStart \/ ReadCr1 \/ WriteCr1 \/ Stop \/ SetTarget32

CounterNext == Edge \/ Handler \/ Task

CounterSpec == CounterInit /\ [][CounterNext]_counterVars

\* The signal is there, and the handler runs when its interrupt is raised.
FairCounterSpec == CounterSpec /\ WF_counterVars(Edge) /\ WF_counterVars(Handler)

-----------------------------------------------------------------------------
(* Properties *)

Registers ==
    [ cen : BOOLEAN, opm : BOOLEAN, psc : Nat, arr : Nat \ {0},
      cnt : Nat, sub : Nat ]

CounterTypeOK ==
    /\ tim \in Registers
    /\ dmaIrq \in BOOLEAN
    /\ dmaIsr \in [at : {"out", "read", "label"}, opm : BOOLEAN]
    /\ task \in {"idle", "cold", "start", "retarget", "restart"}
    /\ cr1 \in BOOLEAN
    /\ run \in 0..Many /\ span \in 0..Many
    /\ slip \in BOOLEAN
    /\ tim.cnt <= tim.arr /\ tim.sub <= tim.psc

\* A Stop comes exactly one period of the timer after the Start reported before
\* it, and the target reported with both is that number of edges less the
\* prescaler, however late the handlers are and wherever the thread starts,
\* stops or retargets the timer; the only exceptions are the two windows of
\* slip (in_counters_l433.rs 180-186, 471-474, 546-575).
ReportsStop == dmaIsr.at = "label" /\ dmaIsr.opm /\ dmaIsr'.at = "out"

StopIsOnePeriod ==
    [][ReportsStop /\ ~slip =>
         span = AsTarget32(tim.psc, tim.arr) + tim.psc]_counterVars

\* A timer that runs stops by itself, unless the thread does it: the bit that
\* the handler sets is never lost for good (in_counters_l433.rs 167-186, 546-565).
CycleEnds == tim.cen ~> ~tim.cen

\* The target reported for a target is at most that, and at most what the timer
\* counts, which is less than one step of the prescaler too long
\* (in_counters_l433.rs 471-489).
TargetKept ==
    \A target \in Targets :
      target > 2 =>
        LET x == TransformTarget32(target)
        IN /\ AsTarget32(x.psc, x.arr) <= target
           /\ target <= Period(x.psc, x.arr)
           /\ Period(x.psc, x.arr) <= target + x.psc
           /\ x.psc = 0 => AsTarget32(x.psc, x.arr) = target
=============================================================================
