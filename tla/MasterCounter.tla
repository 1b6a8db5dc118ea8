--------------------------- MODULE MasterCounter ---------------------------
(***************************************************************************)
(* The reference clock of every measurement: a free-running 16-bit timer,  *)
(* extended in software by its overflow interrupt, captured by DMA on the  *)
(* edges of the input signal and read by threads for time stamps.          *)
(*                                                                         *)
(* Three parties run at once: the hardware (counting, overflowing, copying *)
(* the counter), two interrupt handlers of equal priority - they do not    *)
(* nest, and the DMA handler, whose number is lower, is taken first - and  *)
(* a thread that either may interrupt.                                     *)
(*                                                                         *)
(* laps and the lap fields of captures and reads are ghosts: the number of *)
(* overflows that really happened, modulo ExtSpan.                         *)
(***************************************************************************)
EXTENDS Naturals

CONSTANTS
    Span,        \* values of the hardware counter (2^16)
    ExtSpan,     \* values of the software extender (2^32)
    LapSpan,     \* extender values told apart in a 32-bit capture (2^16)
    MaxPreempt   \* overflows while a thread is between the two reads of value64

ASSUME ClockAssumption ==
    /\ Span \in Nat \ {0}
    /\ ExtSpan \in Nat \ {0}
    /\ LapSpan \in Nat \ {0}
    /\ MaxPreempt \in Nat

VARIABLES
    cnt,   \* hardware counter
    uif,   \* its update flag, copied to bit 31 of what the DMA reads
    irq,   \* the overflow interrupt is pending in the NVIC
    isr,   \* where the overflow handler is
    ext,   \* MasterCounter::extander
    laps,  \* overflows so far
    dma,   \* the capture: "none", "copied" by the DMA, interrupt "raised"
    buf,   \* the DMA buffer
    out,   \* the capture last posted to the sensor thread
    rd     \* the time-stamp read of a thread

vars == <<cnt, uif, irq, isr, ext, laps, dma, buf, out, rd>>

Cnts == 0 .. Span - 1
Exts == 0 .. ExtSpan - 1

\* Mutant: the extender is not cut to its width.
NextLap_NoWrap(l) == l + 1

\* wrapping_add(1).
NextLap(l) == (l + 1) % ExtSpan

\* The part of the extender that survives value | (ext << 16) in 32 bits.
Lap32(e) == e % LapSpan

NoOut  == [cnt |-> 0, lap |-> 0, wraped |-> TRUE, at |-> 0, late |-> FALSE]
NoRead == [step |-> "none", cnt |-> 0, at |-> 0, since |-> 0, ext |-> 0]

TypeOK ==
    /\ cnt \in Cnts
    /\ uif \in BOOLEAN
    /\ irq \in BOOLEAN
    /\ isr \in {"idle", "clear", "extend"}
    /\ ext \in Exts
    /\ laps \in Exts
    /\ dma \in {"none", "copied", "raised"}
    /\ buf \in [cnt : Cnts, uif : BOOLEAN, lap : Exts, late : BOOLEAN]
    /\ out \in [cnt : Cnts, lap : 0 .. LapSpan - 1, wraped : BOOLEAN, at : Exts,
                late : BOOLEAN]
    /\ rd \in [step : {"none", "half", "done"}, cnt : Cnts, at : Exts,
               since : 0 .. MaxPreempt, ext : Exts]

\* start: the update event that loads the prescaler sets the flag, so the
\* handler runs once before the counter has gone round.
Init ==
    /\ cnt = 0
    /\ uif = TRUE
    /\ irq = TRUE
    /\ isr = "idle"
    /\ ext = 0
    /\ laps = NextLap(0)
    /\ dma = "none"
    /\ buf = [cnt |-> 0, uif |-> FALSE, lap |-> 0, late |-> FALSE]
    /\ out = NoOut
    /\ rd = NoRead

-----------------------------------------------------------------------------
(* Hardware *)

Count ==
    /\ cnt < Span - 1
    /\ cnt' = cnt + 1
    /\ UNCHANGED <<uif, irq, isr, ext, laps, dma, buf, out, rd>>

\* The handlers are in time: an overflow is served, and a DMA copy has raised
\* its interrupt, before the counter has gone round once more.
HandlersInTime ==
    /\ ~uif /\ isr = "idle"
    /\ dma = "copied" => buf.lap = laps

Overflow ==
    /\ cnt = Span - 1
    /\ HandlersInTime
    /\ rd.step = "half" => rd.since < MaxPreempt
    /\ cnt' = 0
    /\ uif' = TRUE
    /\ irq' = TRUE
    /\ laps' = NextLap(laps)
    /\ rd' = IF rd.step = "half" THEN [rd EXCEPT !.since = @ + 1] ELSE rd
    /\ UNCHANGED <<isr, ext, dma, buf, out>>

\* The DMA copies the counter with its flag on an edge of the input; its
\* interrupt is raised at once or late.
Copy ==
    /\ dma = "none"
    /\ \E late \in BOOLEAN :
         /\ buf' = [cnt |-> cnt, uif |-> uif, lap |-> laps, late |-> late]
         /\ dma' = IF late THEN "copied" ELSE "raised"
    /\ UNCHANGED <<cnt, uif, irq, isr, ext, laps, out, rd>>

Raise ==
    /\ dma = "copied"
    /\ dma' = "raised"
    /\ UNCHANGED <<cnt, uif, irq, isr, ext, laps, buf, out, rd>>

-----------------------------------------------------------------------------
(* The overflow handler: TIM6_DAC, master_ovf, ovf_irq *)

\* The NVIC takes it when no DMA interrupt is pending and clears its bit.
OvfEnter ==
    /\ isr = "idle" /\ irq
    /\ dma # "raised"
    /\ isr' = "clear"
    /\ irq' = FALSE
    /\ UNCHANGED <<cnt, uif, ext, laps, dma, buf, out, rd>>

\* Mutant: the update flag of the timer is not cleared.
OvfClear_KeepsFlag ==
    /\ isr = "clear"
    /\ irq' = FALSE
    /\ isr' = "extend"
    /\ UNCHANGED <<cnt, uif, ext, laps, dma, buf, out, rd>>

\* clear_interrupt: flag and pending bit, in a critical section ...
OvfClear ==
    /\ isr = "clear"
    /\ uif' = FALSE
    /\ irq' = FALSE
    /\ isr' = "extend"
    /\ UNCHANGED <<cnt, ext, laps, dma, buf, out, rd>>

\* ... in which the extender is incremented.  On return the NVIC takes the
\* interrupt again if the timer still requests it.
OvfExtend ==
    /\ isr = "extend"
    /\ ext' = NextLap(ext)
    /\ isr' = "idle"
    /\ irq' = uif
    /\ UNCHANGED <<cnt, uif, laps, dma, buf, out, rd>>

-----------------------------------------------------------------------------
(* The DMA handler: DMA1_CH2 / DMA1_CH6, cycle_finished *)

\* wrap_result_if_ovf_common: flagged in the copy, or pending now.
Wraped == buf.uif \/ irq

\* Mutant: the handler may interrupt the overflow handler, which has no
\* critical section.
DmaHandler_Nested ==
    /\ dma = "raised"
    /\ out' = [cnt |-> buf.cnt, lap |-> Lap32(ext), wraped |-> Wraped,
               at |-> buf.lap, late |-> buf.late]
    /\ dma' = "none"
    /\ UNCHANGED <<cnt, uif, irq, isr, ext, laps, buf, rd>>

\* update_captured_value, posted to the sensor thread.
DmaHandler ==
    /\ isr = "idle"
    /\ dma = "raised"
    /\ out' = [cnt |-> buf.cnt, lap |-> Lap32(ext), wraped |-> Wraped,
               at |-> buf.lap, late |-> buf.late]
    /\ dma' = "none"
    /\ UNCHANGED <<cnt, uif, irq, isr, ext, laps, buf, rd>>

-----------------------------------------------------------------------------
(* A thread reads a time stamp: value64, uptime_ms *)

\* counter.value() drops the flag bit ...
ReadCnt ==
    /\ isr = "idle"
    /\ rd.step # "half"
    /\ rd' = [step |-> "half", cnt |-> cnt, at |-> laps, since |-> 0, ext |-> 0]
    /\ UNCHANGED <<cnt, uif, irq, isr, ext, laps, dma, buf, out>>

\* ... and wrap_result_if_ovf_common reads the extender after it; the wraped
\* flag is not looked at by uptime_ms.
ReadExt ==
    /\ isr = "idle"
    /\ rd.step = "half"
    /\ rd' = [rd EXCEPT !.step = "done", !.ext = ext]
    /\ UNCHANGED <<cnt, uif, irq, isr, ext, laps, dma, buf, out>>

-----------------------------------------------------------------------------

Next ==
    \/ Count \/ Overflow \/ Copy \/ Raise
    \/ OvfEnter \/ OvfClear \/ OvfExtend
    \/ DmaHandler
    \/ ReadCnt \/ ReadExt

Spec == Init /\ [][Next]_vars

-----------------------------------------------------------------------------
(* Properties *)

\* Every overflow is counted exactly once: the extender is the number of laps,
\* or one behind while the overflow's handler has not finished (ovf_irq).
ExtenderTracksLaps ==
    laps = IF uif \/ isr = "extend" THEN NextLap(ext) ELSE ext

\* A capture posted without the wraped flag carries the lap in which the DMA
\* copied the counter: critical section, flag bit and pending check together
\* leave no interleaving of overflow and capture that mixes two laps, if the
\* DMA raises its interrupt with the copy (the comment in ovf_irq).
AcceptedCaptureExact ==
    ~out.late /\ ~out.wraped => out.lap = Lap32(out.at)

\* Whatever the latency of the DMA interrupt, an accepted capture is exact or
\* one whole span late: the "needle" input_captured looks for, and no other.
NeedleIsOneSpan ==
    ~out.wraped => out.lap \in {Lap32(out.at), Lap32(NextLap(out.at))}

\* A time stamp read while overflows, handlers and other tasks come between
\* its two halves is never older than one span before the read began nor newer
\* than the lap in which it ended (value64, uptime_ms).
TimeStampBracketed ==
    rd.step = "done" =>
      \/ NextLap(rd.ext) = rd.at
      \/ \E k \in 0 .. rd.since : rd.ext = (rd.at + k) % ExtSpan

=============================================================================
