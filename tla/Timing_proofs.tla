--------------------------- MODULE Timing_proofs ---------------------------
(***************************************************************************)
(* From the registers of two timers to the duration of a measuring cycle:  *)
(* what MasterCounter guarantees of captures and time stamps, that its     *)
(* captures are those InputCaptured reckons with, what InputCaptured makes *)
(* of them, and what InCounter counts between a Start and a Stop, for every*)
(* width, span, window and target.                                         *)
(*                                                                         *)
(* The invariant of the clock ties a capture still on its way to the state *)
(* of the overflow handler; that relation, and not the posted value, is    *)
(* what every step preserves.  The invariant of the filter says how far    *)
(* the diff held in prev_diff is from a duration of the signal, that of    *)
(* the counter how many edges have passed at every point of a cycle.       *)
(***************************************************************************)
EXTENDS MasterCounter, InputCaptured, InCounter, WellFoundedInduction, TLAPS

\* A remainder is below its divisor: laps and extender stay in their ranges.
LEMMA ModRange ==
    ASSUME NEW a \in Nat, NEW n \in Nat \ {0}
    PROVE  a % n \in 0 .. n - 1
  OBVIOUS

LEMMA NextLapRange ==
    ASSUME NEW l \in Exts
    PROVE  NextLap(l) \in Exts
  <1>1. l + 1 \in Nat
    BY ClockAssumption DEF Exts
  <1>2. QED
    BY <1>1, ModRange, ClockAssumption DEF NextLap, Exts

LEMMA Lap32Range ==
    ASSUME NEW e \in Exts
    PROVE  Lap32(e) \in 0 .. LapSpan - 1
  <1>1. e \in Nat
    BY ClockAssumption DEF Exts
  <1>2. QED
    BY <1>1, ModRange, ClockAssumption DEF Lap32

-----------------------------------------------------------------------------
(* Types *)

LEMMA InitType == Init => TypeOK
  <1>1. 0 \in Exts /\ 0 \in Cnts /\ 0 \in 0 .. MaxPreempt /\ 0 \in 0 .. LapSpan - 1
    BY ClockAssumption DEF Exts, Cnts
  <1>2. NextLap(0) \in Exts
    BY <1>1, NextLapRange
  <1>3. QED
    BY <1>1, <1>2 DEF Init, TypeOK, NoOut, NoRead

LEMMA StepType == TypeOK /\ [Next]_vars => TypeOK'
  <1> SUFFICES ASSUME TypeOK, [Next]_vars
               PROVE  TypeOK'
    OBVIOUS
  <1> USE DEF TypeOK
  <1>1. CASE Count
    BY <1>1, ClockAssumption DEF Count, Cnts
  <1>2. CASE Overflow
    <2>1. cnt' \in Cnts
      BY <1>2, ClockAssumption DEF Overflow, Cnts
    <2>2. laps' \in Exts
      BY <1>2, NextLapRange DEF Overflow
    <2>3. rd' \in [step : {"none", "half", "done"}, cnt : Cnts, at : Exts,
                   since : 0 .. MaxPreempt, ext : Exts]
      BY <1>2, ClockAssumption DEF Overflow
    <2>4. QED
      BY <1>2, <2>1, <2>2, <2>3 DEF Overflow
  <1>3. CASE Copy
    BY <1>3 DEF Copy
  <1>4. CASE Raise
    BY <1>4 DEF Raise
  <1>5. CASE OvfEnter
    BY <1>5 DEF OvfEnter
  <1>6. CASE OvfClear
    BY <1>6 DEF OvfClear
  <1>7. CASE OvfExtend
    BY <1>7, NextLapRange DEF OvfExtend
  <1>8. CASE DmaHandler
    BY <1>8, Lap32Range DEF DmaHandler, Wraped
  <1>9. CASE ReadCnt
    BY <1>9, ClockAssumption DEF ReadCnt, Exts
  <1>10. CASE ReadExt
    BY <1>10 DEF ReadExt
  <1>11. CASE UNCHANGED vars
    BY <1>11 DEF vars
  <1>12. QED
    BY <1>1, <1>2, <1>3, <1>4, <1>5, <1>6, <1>7, <1>8, <1>9, <1>10, <1>11
    DEF Next

\* TypeOK for every width: no step takes the counter, the extender or a
\* posted capture out of its range (start, ovf_irq, wrap_result_if_ovf).
THEOREM MasterCounterType == Spec => []TypeOK
  BY InitType, StepType, PTL DEF Spec

-----------------------------------------------------------------------------
(* The inductive invariant *)

\* The NVIC and the timer agree on an overflow nobody is serving yet, and the
\* handler clears the flag before it increments the extender.
HandlerStage ==
    /\ isr = "idle" => irq = uif
    /\ isr = "clear" => uif
    /\ isr = "extend" => ~uif

\* With the interrupt raised by the copy itself, a capture copied without the
\* flag meets the overflow handler only after it has cleared the flag, and a
\* later overflow waits for the capture.
RaisedAtOnce ==
    ~buf.late =>
      /\ dma # "copied"
      /\ dma = "raised" /\ ~buf.uif =>
           /\ isr # "clear"
           /\ isr = "extend" => buf.lap = laps
           /\ isr = "idle" => ext = buf.lap

\* With latency, the overflow handler may finish between copy and interrupt:
\* the DMA handler then reads the extender of the capture or the next one, and
\* any later overflow is pending when it looks.
ReadableLap ==
    dma # "none" /\ ~buf.uif =>
      /\ isr = "idle" /\ ~uif => ext \in {buf.lap, NextLap(buf.lap)}
      /\ isr = "idle" /\ uif /\ dma = "copied" => laps = NextLap(buf.lap)
      /\ isr = "clear" => laps = NextLap(buf.lap)
      /\ isr = "extend" => laps \in {buf.lap, NextLap(buf.lap)}

ClockInv ==
    /\ ExtenderTracksLaps
    /\ HandlerStage
    /\ RaisedAtOnce
    /\ ReadableLap
    /\ AcceptedCaptureExact
    /\ NeedleIsOneSpan

LEMMA InitClock == Init => ClockInv
  BY DEF Init, NoOut, NextLap, Lap32, ClockInv, ExtenderTracksLaps, HandlerStage,
         RaisedAtOnce, ReadableLap, AcceptedCaptureExact, NeedleIsOneSpan

LEMMA StepClock == TypeOK /\ ClockInv /\ [Next]_vars => ClockInv'
  <1> SUFFICES ASSUME TypeOK, ClockInv, [Next]_vars
               PROVE  ClockInv'
    OBVIOUS
  <1> USE DEF TypeOK, ClockInv, ExtenderTracksLaps, HandlerStage, RaisedAtOnce,
              ReadableLap, AcceptedCaptureExact, NeedleIsOneSpan
  <1>1. CASE Count
    BY <1>1 DEF Count
  <1>2. CASE Overflow
    \* The handlers are in time: the overflow meets no unserved one.
    <2>1. ~uif /\ isr = "idle" /\ ext = laps
      BY <1>2 DEF Overflow, HandlersInTime
    <2>2. dma = "copied" => buf.lap = laps
      BY <1>2 DEF Overflow, HandlersInTime
    <2>3. QED
      BY <1>2, <2>1, <2>2 DEF Overflow
  <1>3. CASE Copy
    BY <1>3 DEF Copy
  <1>4. CASE Raise
    BY <1>4 DEF Raise
  <1>5. CASE OvfEnter
    BY <1>5, ClockAssumption DEF OvfEnter
  <1>6. CASE OvfClear
    BY <1>6 DEF OvfClear
  <1>7. CASE OvfExtend
    BY <1>7 DEF OvfExtend
  <1>8. CASE DmaHandler
    \* An accepted capture was read with no overflow pending.
    <2>1. ~out'.wraped => ~buf.uif /\ ~uif /\ isr = "idle"
      BY <1>8 DEF DmaHandler, Wraped
    <2>2. QED
      BY <1>8, <2>1 DEF DmaHandler
  <1>9. CASE ReadCnt
    BY <1>9 DEF ReadCnt
  <1>10. CASE ReadExt
    BY <1>10 DEF ReadExt
  <1>11. CASE UNCHANGED vars
    BY <1>11 DEF vars
  <1>12. QED
    BY <1>1, <1>2, <1>3, <1>4, <1>5, <1>6, <1>7, <1>8, <1>9, <1>10, <1>11
    DEF Next

LEMMA ClockInvariant == Spec => [](TypeOK /\ ClockInv)
  BY InitType, InitClock, StepType, StepClock, PTL DEF Spec

\* Every overflow is counted exactly once, for every width of counter and
\* extender: nothing is lost or counted twice between the timer's flag, the
\* NVIC's pending bit and the increment (ovf_irq).
THEOREM OverflowsCounted == Spec => []ExtenderTracksLaps
  <1>1. ClockInv => ExtenderTracksLaps
    BY DEF ClockInv
  <1>2. QED
    BY <1>1, ClockInvariant, PTL

\* When a copy raises its interrupt at once, a capture posted without the
\* wraped flag carries the lap it was copied in (update_captured_value).
THEOREM CapturesExact == Spec => []AcceptedCaptureExact
  <1>1. ClockInv => AcceptedCaptureExact
    BY DEF ClockInv
  <1>2. QED
    BY <1>1, ClockInvariant, PTL

\* With any latency an accepted capture is at most one whole span late.
THEOREM NeedlesAreOneSpan == Spec => []NeedleIsOneSpan
  <1>1. ClockInv => NeedleIsOneSpan
    BY DEF ClockInv
  <1>2. QED
    BY <1>1, ClockInvariant, PTL

-----------------------------------------------------------------------------
(* Time stamps *)

\* Remainders follow an increment, with or without a turn.
LEMMA ModStep ==
    ASSUME NEW a \in Nat, NEW n \in Nat \ {0}
    PROVE  ((a % n) + 1) % n = (a + 1) % n
  <1> DEFINE r == a % n
             q == a \div n
  <1>1. r \in 0 .. n - 1 /\ q \in Nat /\ a = n * q + r
    OBVIOUS
  <1> HIDE DEF r, q
  <1>2. CASE r + 1 < n
    <2>1. a + 1 = n * q + (r + 1)
      BY <1>1
    <2>2. (a + 1) % n = r + 1 /\ (r + 1) % n = r + 1
      BY <1>1, <1>2, <2>1
    <2>3. QED
      BY <2>2 DEF r
  <1>3. CASE r + 1 = n
    <2>1. a + 1 = n * (q + 1) + 0
      BY <1>1, <1>3
    <2>2. (a + 1) % n = 0
      BY <1>1, <2>1
    <2>3. (r + 1) % n = 0
      BY <1>1, <1>3
    <2>4. QED
      BY <2>2, <2>3 DEF r
  <1>4. QED
    BY <1>1, <1>2, <1>3

\* Two laps with the same successor are the same.
LEMMA NextLapInjective ==
    ASSUME NEW e \in Exts, NEW f \in Exts, NextLap(e) = NextLap(f)
    PROVE  e = f
  <1>1. \A g \in Exts : NextLap(g) = IF g + 1 < ExtSpan THEN g + 1 ELSE 0
    BY ClockAssumption DEF NextLap, Exts
  <1>2. QED
    BY <1>1, ClockAssumption DEF Exts

\* The reader between its halves counts the overflows it has seen.
ReaderCounts == rd.step = "half" => laps = (rd.at + rd.since) % ExtSpan

LEMMA InitRead == Init => ReaderCounts /\ TimeStampBracketed
  BY DEF Init, NoRead, ReaderCounts, TimeStampBracketed

LEMMA StepRead ==
    TypeOK /\ ClockInv /\ ReaderCounts /\ TimeStampBracketed /\ [Next]_vars
      => ReaderCounts' /\ TimeStampBracketed'
  <1> SUFFICES ASSUME TypeOK, ClockInv, ReaderCounts, TimeStampBracketed, [Next]_vars
               PROVE  ReaderCounts' /\ TimeStampBracketed'
    OBVIOUS
  <1>1. CASE Overflow
    <2>1. CASE rd.step = "half"
      <3>1. rd' = [rd EXCEPT !.since = @ + 1] /\ laps' = NextLap(laps)
        BY <1>1, <2>1 DEF Overflow
      <3>2. rd'.step = "half" /\ rd'.at = rd.at /\ rd'.since = rd.since + 1
        BY <3>1, <2>1 DEF TypeOK
      <3>3. rd.at \in Nat /\ rd.since \in Nat
        BY ClockAssumption DEF TypeOK, Exts
      <3>4. laps' = (((rd.at + rd.since) % ExtSpan) + 1) % ExtSpan
        BY <3>1, <2>1 DEF ReaderCounts, NextLap
      <3>5. laps' = (rd.at + rd.since + 1) % ExtSpan
        <4> DEFINE a == rd.at + rd.since
        <4>1. a \in Nat
          BY <3>3
        <4>2. laps' = ((a % ExtSpan) + 1) % ExtSpan
          BY <3>4
        <4> HIDE DEF a
        <4>3. laps' = (a + 1) % ExtSpan
          BY <4>1, <4>2, ModStep, ClockAssumption
        <4>4. QED
          BY <4>3 DEF a
      <3>6. rd'.at + rd'.since = rd.at + rd.since + 1
        BY <3>2, <3>3
      <3>7. QED
        BY <3>2, <3>5, <3>6 DEF ReaderCounts, TimeStampBracketed
    <2>2. CASE rd.step # "half"
      <3>1. rd' = rd
        BY <1>1, <2>2 DEF Overflow
      <3>2. QED
        BY <2>2, <3>1 DEF ReaderCounts, TimeStampBracketed
    <2>3. QED
      BY <2>1, <2>2
  <1>2. CASE ReadCnt
    <2>1. rd'.step = "half" /\ rd'.at = laps /\ rd'.since = 0 /\ laps' = laps
      BY <1>2 DEF ReadCnt
    <2>2. laps \in Nat /\ laps < ExtSpan
      BY ClockAssumption DEF TypeOK, Exts
    <2>3. (laps + 0) % ExtSpan = laps
      BY <2>2, ClockAssumption
    <2>4. QED
      BY <2>1, <2>3 DEF ReaderCounts, TimeStampBracketed
  <1>3. CASE ReadExt
    <2>1. rd.step = "half" /\ isr = "idle" /\ rd' = [rd EXCEPT !.step = "done", !.ext = ext]
      BY <1>3 DEF ReadExt
    <2>2. rd'.step = "done" /\ rd'.ext = ext /\ rd'.at = rd.at /\ rd'.since = rd.since
      BY <2>1 DEF TypeOK
    <2>3. laps = (rd.at + rd.since) % ExtSpan
      BY <2>1 DEF ReaderCounts
    <2>4. /\ rd.at \in Exts /\ ext \in Exts
          /\ rd.at \in Nat /\ rd.at < ExtSpan /\ rd.since \in Nat
      BY ClockAssumption DEF TypeOK, Exts
    <2>5. CASE ~uif
      <3>1. ext = laps
        BY <2>1, <2>5 DEF ClockInv, ExtenderTracksLaps
      <3>2. rd'.since \in 0 .. rd'.since
        BY <2>2, <2>4
      <3>3. QED
        BY <2>2, <2>3, <3>1, <3>2 DEF ReaderCounts, TimeStampBracketed
    <2>6. CASE uif
      <3>1. NextLap(ext) = laps
        BY <2>6 DEF ClockInv, ExtenderTracksLaps
      <3>2. CASE rd.since = 0
        <4>1. (rd.at + 0) % ExtSpan = rd.at
          BY <2>4, ClockAssumption
        <4>2. QED
          BY <2>2, <2>3, <3>1, <3>2, <4>1 DEF ReaderCounts, TimeStampBracketed
      <3>3. CASE rd.since # 0
        <4> DEFINE k == rd.since - 1
        <4>1. k \in Nat /\ k \in 0 .. rd'.since /\ rd.at + rd.since = rd.at + k + 1
              /\ rd.at + k \in Nat
          BY <2>2, <2>4, <3>3
        <4> HIDE DEF k
        <4>2. NextLap((rd.at + k) % ExtSpan) = laps
          BY <2>3, <4>1, ModStep, ClockAssumption DEF NextLap
        <4>3. (rd.at + k) % ExtSpan \in Exts
          BY <4>1, ModRange, ClockAssumption DEF Exts
        <4>4. ext = (rd.at + k) % ExtSpan
          BY <2>4, <3>1, <4>2, <4>3, NextLapInjective
        <4>5. QED
          BY <2>2, <4>1, <4>4 DEF ReaderCounts, TimeStampBracketed
      <3>4. QED
        BY <3>2, <3>3
    <2>7. QED
      BY <2>5, <2>6
  <1>4. CASE rd' = rd /\ laps' = laps
    BY <1>4 DEF ReaderCounts, TimeStampBracketed
  <1>5. QED
    BY <1>1, <1>2, <1>3, <1>4
    DEF Next, Count, Copy, Raise, OvfEnter, OvfClear, OvfExtend, DmaHandler, vars

\* A time stamp is at most one span older than the moment its reading began
\* and not newer than its end, however many overflows, handlers and other
\* tasks come between the counter and the extender (value64, uptime_ms).
THEOREM TimeStampsBracketed == Spec => []TimeStampBracketed
  BY InitRead, StepRead, ClockInvariant, PTL DEF Spec

-----------------------------------------------------------------------------
(* From captures to the filter *)

\* The widths of the code: a capture has 32 bits, so many of them laps, and the
\* filter's span is that of the counter.
Widths ==
    /\ Modulus = Span * LapSpan
    /\ SelfSpan = Span
    /\ ExtSpan % LapSpan = 0

\* value | (extander << 16).
Moment(c, lap) == c + Span * lap

\* An accepted capture is the moment of its edge or one span more: what
\* StartCaptured and StopCaptured may make of an edge, and nothing else.
CaptureOfAnEdge ==
    ~out.wraped =>
      LET begun == Moment(out.cnt, Lap32(out.at))
      IN  /\ begun \in Captures
          /\ \E late \in {0, SelfSpan} :
               Moment(out.cnt, out.lap) = (begun + late) % Modulus

\* The laps told apart in a capture follow each other as the laps do.
LEMMA Lap32Next ==
    ASSUME NEW l \in Exts, ExtSpan % LapSpan = 0
    PROVE  Lap32(NextLap(l)) = IF Lap32(l) + 1 < LapSpan THEN Lap32(l) + 1 ELSE 0
  <1>1. l \in Nat /\ l < ExtSpan /\ LapSpan \in Nat \ {0} /\ ExtSpan \in Nat \ {0}
    BY ClockAssumption DEF Exts
  <1>2. ((l % LapSpan) + 1) % LapSpan = (l + 1) % LapSpan
    BY <1>1, ModStep
  <1> DEFINE a == l % LapSpan
  <1>3. a \in 0 .. LapSpan - 1
    BY <1>1, ModRange
  <1> HIDE DEF a
  <1>4. (a + 1) % LapSpan = IF a + 1 < LapSpan THEN a + 1 ELSE 0
    <2>1. CASE a + 1 < LapSpan
      BY <1>1, <1>3, <2>1
    <2>2. CASE a + 1 = LapSpan
      BY <1>1, <1>3, <2>2
    <2> QED
      BY <1>1, <1>3, <2>1, <2>2
  <1>5. NextLap(l) % LapSpan = (l + 1) % LapSpan
    <2>1. CASE l + 1 < ExtSpan
      <3>1. (l + 1) % ExtSpan = l + 1
        BY <1>1, <2>1
      <3> QED
        BY <3>1 DEF NextLap
    <2>2. CASE l + 1 = ExtSpan
      <3>1. NextLap(l) = 0
        BY <1>1, <2>2 DEF NextLap
      <3>2. 0 % LapSpan = 0
        BY <1>1
      <3> QED
        BY <2>2, <3>1, <3>2
    <2> QED
      BY <1>1, <2>1, <2>2
  <1> QED
    BY <1>2, <1>4, <1>5 DEF Lap32, a

\* A moment, and the moment a span later.
LEMMA MomentPlusSpan ==
    ASSUME NEW c \in Cnts, NEW a \in 0 .. LapSpan - 1
    PROVE  LET M == Span * LapSpan
           IN  /\ M \in Nat \ {0}
               /\ Moment(c, a) \in 0 .. M - 1
               /\ Moment(c, a) % M = Moment(c, a)
               /\ (Moment(c, a) + Span) % M = Moment(c, IF a + 1 < LapSpan THEN a + 1 ELSE 0)
  <1> DEFINE M == Span * LapSpan
             m(b) == Moment(c, b)
  <1>1. /\ Span \in Nat \ {0} /\ LapSpan \in Nat \ {0}
        /\ c \in Nat /\ c < Span /\ a \in Nat /\ a < LapSpan
    BY ClockAssumption DEF Cnts
  <1>2. M \in Nat \ {0}
    BY <1>1
  <1>3. \A b \in 0 .. LapSpan - 1 : m(b) \in 0 .. M - 1
    <2> SUFFICES ASSUME NEW b \in 0 .. LapSpan - 1
                 PROVE  m(b) \in 0 .. M - 1
      OBVIOUS
    <2>1. PICK k \in Nat : LapSpan = b + 1 + k
      <3>1. LapSpan - b - 1 \in Nat /\ LapSpan = b + 1 + (LapSpan - b - 1)
        BY <1>1
      <3> QED
        BY <3>1
    <2>2. M = Span * b + Span + Span * k /\ Span * k \in Nat /\ Span * b \in Nat
      BY <1>1, <2>1
    <2> HIDE DEF M
    <2> QED
      BY <1>1, <2>2 DEF Moment
  <1>4. (m(a) + Span) % M = m(IF a + 1 < LapSpan THEN a + 1 ELSE 0)
    <2>1. CASE a + 1 < LapSpan
      <3>1. m(a) + Span = m(a + 1)
        BY <1>1 DEF Moment
      <3>2. m(a + 1) \in 0 .. M - 1
        BY <1>1, <1>3, <2>1
      <3> HIDE DEF m, M
      <3> QED
        BY <1>2, <2>1, <3>1, <3>2
    <2>2. CASE a + 1 = LapSpan
      <3>1. m(a) + Span = c + M
        <4>1. LapSpan = a + 1
          BY <2>2
        <4>2. M = Span * a + Span
          BY <1>1, <4>1
        <4> QED
          BY <1>1, <4>2 DEF Moment
      <3>2. m(0) = c
        BY <1>1 DEF Moment
      <3>3. m(0) \in 0 .. M - 1
        BY <1>1, <1>3
      <3> HIDE DEF m, M
      <3>4. (c + M) % M = c
        <4>1. c \in 0 .. M - 1 /\ c + M = M * 1 + c
          BY <1>2, <3>2, <3>3
        <4> QED
          BY <1>2, <4>1
      <3> QED
        BY <2>2, <3>1, <3>2, <3>4
    <2> QED
      BY <1>1, <2>1, <2>2
  <1>5. m(a) \in 0 .. M - 1
    BY <1>1, <1>3
  <1>6. m(a) % M = m(a)
    <2> HIDE DEF m, M
    <2> QED
      BY <1>2, <1>5
  <1> QED
    BY <1>2, <1>4, <1>5, <1>6

\* What MasterCounter posts to the sensor thread is what InputCaptured takes
\* for granted of a capture (update_captured_value, input_captured): with the
\* widths of the code, no accepted capture is anything but exact or a needle.
THEOREM CapturesFeedFilter == Widths => (Spec => []CaptureOfAnEdge)
  <1>1. Widths /\ TypeOK /\ NeedleIsOneSpan => CaptureOfAnEdge
    <2> SUFFICES ASSUME Widths, TypeOK, NeedleIsOneSpan, ~out.wraped
                 PROVE  LET begun == Moment(out.cnt, Lap32(out.at))
                        IN  /\ begun \in Captures
                            /\ \E late \in {0, SelfSpan} :
                                 Moment(out.cnt, out.lap) = (begun + late) % Modulus
      BY DEF CaptureOfAnEdge
    <2> DEFINE a == Lap32(out.at)
               begun == Moment(out.cnt, a)
    <2>1. out.cnt \in Cnts /\ out.at \in Exts /\ a \in 0 .. LapSpan - 1
      BY Lap32Range DEF TypeOK
    <2>2. out.lap = a \/ out.lap = IF a + 1 < LapSpan THEN a + 1 ELSE 0
      BY <2>1, Lap32Next DEF NeedleIsOneSpan, Widths
    <2> HIDE DEF a
    <2>3. /\ begun \in 0 .. Modulus - 1
          /\ begun % Modulus = begun
          /\ (begun + SelfSpan) % Modulus
               = Moment(out.cnt, IF a + 1 < LapSpan THEN a + 1 ELSE 0)
      BY <2>1, MomentPlusSpan DEF Widths
    <2> HIDE DEF begun
    <2>4. (begun + 0) % Modulus = begun
      BY <2>3
    <2>5. begun \in Captures
      BY <2>3 DEF Captures
    <2>6. \E late \in {0, SelfSpan} : Moment(out.cnt, out.lap) = (begun + late) % Modulus
      <3>1. CASE out.lap = a
        BY <2>4, <3>1 DEF begun
      <3>2. CASE out.lap = IF a + 1 < LapSpan THEN a + 1 ELSE 0
        BY <2>3, <3>2
      <3> QED
        BY <2>2, <3>1, <3>2
    <2> QED
      BY <2>5, <2>6 DEF begun, a
  <1> SUFFICES ASSUME Widths
               PROVE  Spec => []CaptureOfAnEdge
    OBVIOUS
  <1>2. TypeOK /\ NeedleIsOneSpan => CaptureOfAnEdge
    BY <1>1
  <1> QED
    BY <1>2, MasterCounterType, NeedlesAreOneSpan, PTL

-----------------------------------------------------------------------------
(* The filter: what its state says *)
\* A diff measured for a duration d with the error r: the clock may have
\* wrapped and lost a tick.
DiffOf(diff, d, r) == diff \in {d + r - 1, d + r}

\* The Start capture of the cycle that is due is prev.
StartHeld == edge.due => prev = (edge.begun + edge.late) % Modulus

\* What prev_diff holds was measured of this signal, with some error.
DiffOfSignal ==
    age # 0 /\ prev_diff # None
        => \E d \in signal : \E r \in {-SelfSpan, 0, SelfSpan} : DiffOf(prev_diff, d, r)

\* After a cycle without a needle it was measured without an error.
CleanDiff ==
    clean # 0 /\ prev_diff # None => \E d \in signal : DiffOf(prev_diff, d, 0)

\* After two of them it is there.
TwoCleanHeld == clean = 2 => prev_diff # None

CleanAged == clean <= age

\* ErrorStaysBounded, of the last result also while the next cycle runs.
LastResult ==
    age # 0 =>
       /\ AbsDiff(result, true) <= (IF age < 2 THEN 2 ELSE 1) * SelfSpan + 1
       /\ clean = 2 => Exact(result, true)

FilterInv ==
    /\ FilterTypeOK
    /\ StartHeld
    /\ DiffOfSignal
    /\ CleanDiff
    /\ TwoCleanHeld
    /\ CleanAged
    /\ LastResult

-----------------------------------------------------------------------------
(* Arithmetic *)

\* Up to one turn above or below the range, the remainder adds or takes one.
LEMMA OneTurn ==
    ASSUME NEW m \in Nat, m > 0, NEW x \in Int, -m <= x, x < 2 * m
    PROVE  x % m = IF x < 0 THEN x + m ELSE IF x < m THEN x ELSE x - m
<1>1. CASE x < 0
    <2>1. x + m \in 0 .. m - 1 /\ x = m * (-1) + (x + m)
        BY <1>1
    <2> QED BY <2>1, <1>1
<1>2. CASE 0 <= x /\ x < m
    BY <1>2
<1>3. CASE m <= x
    <2>1. x - m \in 0 .. m - 1 /\ x = m * 1 + (x - m)
        BY <1>3
    <2> QED BY <2>1, <1>3
<1> QED BY <1>1, <1>2, <1>3

\* What the assumption says of a duration.
LEMMA DurationFits ==
    ASSUME NEW s \in Signals, NEW d \in s
    PROVE  /\ d \in Nat
           /\ 2 * SelfSpan + Window < d
           /\ d + 2 * SelfSpan < Modulus
BY InputAssumption DEF Durations

\* RawDiff of two captures of a cycle: the ticks between them, less one if the
\* clock wrapped.
LEMMA DiffOfCaptures ==
    ASSUME NEW s \in Signals, NEW d \in s,
           NEW begun \in Captures, NEW l0 \in {0, SelfSpan}, NEW l1 \in {0, SelfSpan}
    PROVE  LET diff == RawDiff((begun + l0) % Modulus, (begun + d + l1) % Modulus)
           IN  diff \in Int /\ DiffOf(diff, d, l1 - l0)
<1> DEFINE x == begun + l0
           y == begun + d + l1
<1>1. /\ d \in Nat /\ SelfSpan \in Nat /\ Window \in Nat /\ Modulus \in Nat
      /\ 2 * SelfSpan + Window < d
      /\ d + 2 * SelfSpan < Modulus
      /\ SelfSpan > 0
    BY DurationFits, InputAssumption
<1>2. /\ begun \in Nat /\ begun < Modulus
      /\ l0 \in Nat /\ l0 <= SelfSpan /\ l1 \in Nat /\ l1 <= SelfSpan
    BY <1>1 DEF Captures
<1>3. /\ x \in Nat /\ y \in Nat
      /\ x < 2 * Modulus /\ y < 2 * Modulus
      /\ x < y /\ y < x + Modulus
      /\ y - x = d + (l1 - l0)
    BY <1>1, <1>2
<1> HIDE DEF x, y
<1>4. /\ x % Modulus = IF x < Modulus THEN x ELSE x - Modulus
      /\ y % Modulus = IF y < Modulus THEN y ELSE y - Modulus
    BY <1>1, <1>3, OneTurn
<1>5. RawDiff(x % Modulus, y % Modulus) \in {y - x - 1, y - x}
    BY <1>1, <1>3, <1>4 DEF RawDiff
<1> QED BY <1>1, <1>2, <1>3, <1>5 DEF x, y, DiffOf

\* Two diffs with the same error are no needle of each other.
LEMMA SameErrorNoNeedle ==
    ASSUME NEW s \in Signals, NEW p \in s, NEW d \in s,
           NEW pd \in Int, NEW diff \in Int, NEW r \in Int,
           DiffOf(pd, p, r), DiffOf(diff, d, r)
    PROVE  ~IsNeedle(pd, diff)
<1>1. /\ p \in Nat /\ d \in Nat /\ SelfSpan \in Nat /\ Window \in Nat
      /\ p - d < Window /\ d - p < Window /\ 4 * Window < SelfSpan
      /\ Window > 0
    BY InputAssumption, DurationFits
<1> QED BY <1>1 DEF DiffOf, IsNeedle, AbsDiff

\* After a clean diff one with an error is a needle, and the correction takes
\* the error away.
LEMMA NeedleAfterClean ==
    ASSUME NEW s \in Signals, NEW p \in s, NEW d \in s,
           NEW pd \in Int, NEW diff \in Int, NEW r \in {-SelfSpan, SelfSpan},
           pd # None, DiffOf(pd, p, 0), DiffOf(diff, d, r)
    PROVE  IsNeedle(pd, diff) /\ Correction(pd, diff) = -r
<1>1. /\ p \in Nat /\ d \in Nat /\ SelfSpan \in Nat /\ Window \in Nat
      /\ p - d < Window /\ d - p < Window /\ 4 * Window < SelfSpan
      /\ Window > 0
    BY InputAssumption, DurationFits
<1>2. CASE r = SelfSpan
    BY <1>1, <1>2 DEF DiffOf, IsNeedle, AbsDiff, Correction
<1>3. CASE r = -SelfSpan
    BY <1>1, <1>3 DEF DiffOf, IsNeedle, AbsDiff, Correction
<1> QED BY <1>2, <1>3

\* A correction never doubles an error, if prev_diff is of the same signal.
LEMMA NoDoubleError ==
    ASSUME NEW s \in Signals, NEW p \in s, NEW d \in s,
           NEW pd \in Int, NEW diff \in Int,
           NEW q \in {-SelfSpan, 0, SelfSpan}, NEW r \in {-SelfSpan, 0, SelfSpan},
           DiffOf(pd, p, q), DiffOf(diff, d, r),
           IsNeedle(pd, diff)
    PROVE  r + Correction(pd, diff) \in {-SelfSpan, 0, SelfSpan}
<1>1. /\ p \in Nat /\ d \in Nat /\ SelfSpan \in Nat /\ Window \in Nat
      /\ p - d < Window /\ d - p < Window /\ 4 * Window < SelfSpan
      /\ Window > 0
    BY InputAssumption, DurationFits
<1>2. CASE pd > diff
    <2>1. r # SelfSpan
        BY <1>1, <1>2 DEF DiffOf, IsNeedle, AbsDiff
    <2>2. Correction(pd, diff) = SelfSpan
        BY <1>2 DEF Correction
    <2> QED BY <1>1, <2>1, <2>2
<1>3. CASE ~(pd > diff)
    <2>1. r # -SelfSpan
        BY <1>1, <1>3 DEF DiffOf, IsNeedle, AbsDiff
    <2>2. Correction(pd, diff) = -SelfSpan
        BY <1>3 DEF Correction
    <2> QED BY <1>1, <2>1, <2>2
<1> QED BY <1>2, <1>3

-----------------------------------------------------------------------------
(* What one cycle does *)

\* The shift input_captured applies to a diff.
ShiftOf(pd, diff) == IF IsNeedle(pd, diff) THEN Correction(pd, diff) ELSE 0

LEMMA ShiftIsSpan ==
    ASSUME NEW pd, NEW diff
    PROVE  ShiftOf(pd, diff) \in {-SelfSpan, 0, SelfSpan}
BY DEF ShiftOf, Correction

\* A Stop capture, in terms of the duration, the error of the two captures and
\* the diff that came of them: no arithmetic of the filter wraps.
LEMMA OneCycle ==
    ASSUME FilterTypeOK, StartHeld, StopCaptured
    PROVE  \E d \in signal : \E r \in {-SelfSpan, 0, SelfSpan} : \E diff \in Captures :
              /\ DiffOf(diff, d, r)
              /\ true' = d
              /\ raw' = r
              /\ result' = diff + ShiftOf(prev_diff, diff)
              /\ result' \in Captures
              /\ branch' \in {"kept", "down", "up"}
              /\ prev_diff' = NextPrevDiff(IsNeedle(prev_diff, diff), diff)
              /\ prev' \in Captures
              /\ clean' = IF r # 0 THEN 0 ELSE Bounded(clean + 1)
<1>1. PICK d \in signal, late \in {0, SelfSpan} :
         LET captured == (edge.begun + d + late) % Modulus
             diff     == RawDiff(prev, captured)
             needle   == IsNeedle(prev_diff, diff)
             shift    == IF needle THEN Correction(prev_diff, diff) ELSE 0
         IN  /\ true' = d
             /\ raw' = late - edge.late
             /\ result' = (diff + shift) % Modulus
             /\ branch' = CASE ~needle -> "kept"
                            [] needle /\ prev_diff > diff -> "down"
                            [] OTHER -> "up"
             /\ prev_diff' = NextPrevDiff(needle, diff)
             /\ prev' = (captured + shift) % Modulus
             /\ clean' = IF late # edge.late THEN 0
                         ELSE Bounded(clean + 1)
    BY DEF StopCaptured
<1> DEFINE captured == (edge.begun + d + late) % Modulus
           diff     == RawDiff(prev, captured)
           shift    == ShiftOf(prev_diff, diff)
           r        == late - edge.late
<1>2. /\ true' = d
      /\ raw' = r
      /\ result' = (diff + shift) % Modulus
      /\ branch' \in {"kept", "down", "up"}
      /\ prev_diff' = NextPrevDiff(IsNeedle(prev_diff, diff), diff)
      /\ prev' = (captured + shift) % Modulus
      /\ clean' = IF late # edge.late THEN 0 ELSE Bounded(clean + 1)
    BY <1>1 DEF ShiftOf
<1>3. /\ signal \in Signals
      /\ edge.begun \in Captures /\ edge.late \in {0, SelfSpan}
      /\ SelfSpan \in Nat /\ Window \in Nat /\ Modulus \in Nat /\ SelfSpan > 0
      /\ d \in Nat /\ 2 * SelfSpan + Window < d /\ d + 2 * SelfSpan < Modulus
    BY InputAssumption, DurationFits DEF FilterTypeOK
<1>4. prev = (edge.begun + edge.late) % Modulus
    BY DEF StopCaptured, StartHeld
<1>5. diff \in Int /\ DiffOf(diff, d, r)
    BY <1>3, <1>4, DiffOfCaptures
<1>6. shift \in {-SelfSpan, 0, SelfSpan}
    BY ShiftIsSpan
<1>7. captured \in Int /\ 0 <= captured /\ captured < Modulus
    <2> DEFINE y == edge.begun + d + late
    <2>1. y \in Int /\ 0 <= y /\ y < 2 * Modulus
        BY <1>3 DEF Captures
    <2>2. captured = y % Modulus
        OBVIOUS
    <2> HIDE DEF y, captured
    <2>3. captured = IF y < 0 THEN y + Modulus ELSE IF y < Modulus THEN y ELSE y - Modulus
        BY <2>1, <2>2, <1>3, OneTurn
    <2> QED BY <2>1, <2>3, <1>3
<1>8. r \in {-SelfSpan, 0, SelfSpan} /\ (late # edge.late <=> r # 0)
    BY <1>3
<1> HIDE DEF captured, diff, shift, r
<1>9. diff \in Captures
    BY <1>3, <1>5, <1>8 DEF DiffOf, Captures
<1>10. diff + shift \in Int /\ 0 <= diff + shift /\ diff + shift < Modulus
    BY <1>3, <1>5, <1>6, <1>8 DEF DiffOf
<1>11. (diff + shift) % Modulus = diff + shift
    BY <1>10, <1>3, OneTurn
<1>12. result' = diff + shift /\ result' \in Captures
    BY <1>2, <1>3, <1>10, <1>11 DEF Captures
<1>13. prev' \in Captures
    <2> DEFINE c == captured + shift
    <2>1. c \in Int /\ -Modulus <= c /\ c < 2 * Modulus
        BY <1>3, <1>6, <1>7
    <2>2. prev' = c % Modulus
        BY <1>2
    <2> HIDE DEF c
    <2>3. prev' = IF c < 0 THEN c + Modulus ELSE IF c < Modulus THEN c ELSE c - Modulus
        BY <2>1, <2>2, <1>3, OneTurn
    <2> QED BY <2>1, <2>3, <1>3 DEF Captures
<1>14. clean' = IF r # 0 THEN 0 ELSE Bounded(clean + 1)
    BY <1>2, <1>8
<1>15. d \in signal /\ r \in {-SelfSpan, 0, SelfSpan} /\ diff \in Captures
    BY <1>8, <1>9
<1> QED
    BY <1>15, <1>2, <1>5, <1>12, <1>13, <1>14 DEF shift

-----------------------------------------------------------------------------
(* The invariant *)

LEMMA InitFilter == FilterInit => FilterInv
<1> SUFFICES ASSUME FilterInit PROVE FilterInv
    OBVIOUS
<1>1. FilterTypeOK
    <2>1. 0 \in Captures
        BY InputAssumption DEF Captures
    <2> QED BY <2>1, InputAssumption DEF FilterInit, FilterTypeOK
<1>2. StartHeld
    BY DEF FilterInit, StartHeld
<1>3. age = 0 /\ clean = 0
    BY DEF FilterInit
<1>4. DiffOfSignal /\ CleanDiff /\ TwoCleanHeld /\ CleanAged /\ LastResult
    BY <1>3 DEF DiffOfSignal, CleanDiff, TwoCleanHeld, CleanAged, LastResult
<1> QED
    BY <1>1, <1>2, <1>4 DEF FilterInv

\* After a Stop the result is at most one span off, two in the first cycle, and
\* exact after a clean cycle before it.
LEMMA StopKeepsResult ==
    ASSUME FilterInv, StopCaptured
    PROVE  /\ AbsDiff(result', true') <= (IF age < 1 THEN 2 ELSE 1) * SelfSpan + 1
           /\ clean' = 2 => Exact(result', true') /\ prev_diff' # None
           /\ clean = 2 => Exact(result', true')
<1>1. PICK d \in signal, r \in {-SelfSpan, 0, SelfSpan}, diff \in Captures :
         /\ DiffOf(diff, d, r)
         /\ true' = d
         /\ result' = diff + ShiftOf(prev_diff, diff)
         /\ prev_diff' = NextPrevDiff(IsNeedle(prev_diff, diff), diff)
         /\ clean' = IF r # 0 THEN 0 ELSE Bounded(clean + 1)
    BY OneCycle DEF FilterInv
<1>2. /\ signal \in Signals /\ SelfSpan \in Nat /\ d \in Nat /\ diff \in Int /\ diff >= 0
      /\ prev_diff \in Int
      /\ age \in Nat /\ clean \in Nat /\ SelfSpan > 0
    BY InputAssumption, DurationFits DEF FilterInv, FilterTypeOK, Captures, None
<1>3. DiffOf(diff, d, r) => \A e \in {-SelfSpan, 0, SelfSpan} :
         /\ r + e = 0 => Exact(diff + e, d)
         /\ AbsDiff(diff + e, d) <= 2 * SelfSpan + 1
         /\ r + e \in {-SelfSpan, 0, SelfSpan} => AbsDiff(diff + e, d) <= SelfSpan + 1
    <2> SUFFICES ASSUME DiffOf(diff, d, r), NEW e \in {-SelfSpan, 0, SelfSpan}
                 PROVE  /\ r + e = 0 => Exact(diff + e, d)
                        /\ AbsDiff(diff + e, d) <= 2 * SelfSpan + 1
                        /\ r + e \in {-SelfSpan, 0, SelfSpan}
                             => AbsDiff(diff + e, d) <= SelfSpan + 1
        OBVIOUS
    <2>1. r \in {-SelfSpan, 0, SelfSpan} /\ e \in Int /\ r \in Int
        BY <1>2
    <2>2. diff + e \in {d + (r + e) - 1, d + (r + e)}
        BY <1>2, <2>1 DEF DiffOf
    <2>3. \A k \in Nat : -k <= r + e /\ r + e <= k => AbsDiff(diff + e, d) <= k + 1
        BY <1>2, <2>1, <2>2 DEF AbsDiff
    <2>4. -(2 * SelfSpan) <= r + e /\ r + e <= 2 * SelfSpan /\ 2 * SelfSpan \in Nat
        BY <1>2, <2>1
    <2> QED BY <1>2, <2>1, <2>2, <2>3, <2>4 DEF Exact
<1> DEFINE e == ShiftOf(prev_diff, diff)
<1>4. e \in {-SelfSpan, 0, SelfSpan}
    BY ShiftIsSpan
<1>5. ASSUME age # 0
      PROVE  r + e \in {-SelfSpan, 0, SelfSpan}
    <2>1. CASE IsNeedle(prev_diff, diff)
        <3>1. PICK p \in signal, q \in {-SelfSpan, 0, SelfSpan} : DiffOf(prev_diff, p, q)
            BY <1>5, <2>1 DEF FilterInv, DiffOfSignal, IsNeedle
        <3>2. q \in Int
            BY <1>2
        <3> QED BY <1>1, <1>2, <2>1, <3>1, NoDoubleError DEF ShiftOf
    <2>2. CASE ~IsNeedle(prev_diff, diff)
        <3>1. e = 0
            BY <2>2 DEF ShiftOf
        <3> HIDE DEF e
        <3> QED BY <1>2, <3>1
    <2> QED BY <2>1, <2>2
<1>6. ASSUME clean' = 2
      PROVE  r = 0 /\ e = 0 /\ prev_diff' # None
    <2>1. r = 0 /\ clean # 0
        BY <1>1, <1>2, <1>6 DEF Bounded
    <2>2. ~IsNeedle(prev_diff, diff)
        <3>1. SUFFICES ASSUME prev_diff # None PROVE ~IsNeedle(prev_diff, diff)
            BY DEF IsNeedle
        <3>2. PICK p \in signal : DiffOf(prev_diff, p, 0)
            BY <2>1, <3>1 DEF FilterInv, CleanDiff
        <3> QED BY <1>1, <1>2, <2>1, <3>2, SameErrorNoNeedle
    <2>3. prev_diff' = diff
        BY <1>1, <2>2 DEF NextPrevDiff
    <2> QED BY <2>1, <2>2, <2>3, <1>2 DEF ShiftOf, None
<1>7. ASSUME clean = 2
      PROVE  r + e = 0
    <2>1. prev_diff # None
        BY <1>7 DEF FilterInv, TwoCleanHeld
    <2>2. PICK p \in signal : DiffOf(prev_diff, p, 0)
        BY <1>7, <2>1 DEF FilterInv, CleanDiff
    <2>3. CASE r = 0
        <3>1. ~IsNeedle(prev_diff, diff)
            BY <1>1, <1>2, <2>2, <2>3, SameErrorNoNeedle
        <3> QED BY <3>1, <2>3 DEF ShiftOf
    <2>4. CASE r # 0
        <3>1. r \in {-SelfSpan, SelfSpan}
            BY <2>4
        <3>2. IsNeedle(prev_diff, diff) /\ Correction(prev_diff, diff) = -r
            BY <1>1, <1>2, <2>1, <2>2, <3>1, NeedleAfterClean
        <3>3. e = -r
            BY <3>2 DEF ShiftOf
        <3> HIDE DEF e
        <3> QED BY <3>1, <3>3, <1>2
    <2> QED BY <2>3, <2>4
<1>8. result' = diff + e /\ true' = d
    BY <1>1
<1> HIDE DEF e
<1>9. /\ AbsDiff(result', true') <= 2 * SelfSpan + 1
      /\ age # 0 => AbsDiff(result', true') <= SelfSpan + 1
    BY <1>1, <1>3, <1>4, <1>5, <1>8
<1>10. r + e = 0 => Exact(result', true')
    BY <1>1, <1>3, <1>4, <1>8
<1>11. AbsDiff(result', true') <= (IF age < 1 THEN 2 ELSE 1) * SelfSpan + 1
    <2>1. CASE age = 0
        BY <2>1, <1>9, <1>2
    <2>2. CASE age # 0
        BY <2>2, <1>9, <1>2
    <2> QED BY <2>1, <2>2
<1>12. clean' = 2 => r + e = 0 /\ prev_diff' # None
    BY <1>6
<1> QED BY <1>7, <1>10, <1>11, <1>12

\* A Stop keeps what is said of prev_diff.
LEMMA StopKeepsDiff ==
    ASSUME FilterInv, StopCaptured
    PROVE  DiffOfSignal' /\ CleanDiff'
<1>1. PICK d \in signal, r \in {-SelfSpan, 0, SelfSpan}, diff \in Captures :
         /\ DiffOf(diff, d, r)
         /\ prev_diff' = NextPrevDiff(IsNeedle(prev_diff, diff), diff)
         /\ clean' = IF r # 0 THEN 0 ELSE Bounded(clean + 1)
    BY OneCycle DEF FilterInv
<1>2. signal' = signal
    BY DEF StopCaptured
<1>3. prev_diff' # None => DiffOf(prev_diff', d, r)
    BY <1>1 DEF NextPrevDiff
<1>4. clean' # 0 => r = 0
    BY <1>1
<1> QED BY <1>1, <1>2, <1>3, <1>4 DEF DiffOfSignal, CleanDiff

\* A Stop keeps the types.
LEMMA StopKeepsTypes ==
    ASSUME FilterInv, StopCaptured
    PROVE  FilterTypeOK' /\ StartHeld' /\ CleanAged'
<1>1. PICK d \in signal, r \in {-SelfSpan, 0, SelfSpan}, diff \in Captures :
         /\ true' = d
         /\ raw' = r
         /\ result' \in Captures
         /\ branch' \in {"kept", "down", "up"}
         /\ prev_diff' = NextPrevDiff(IsNeedle(prev_diff, diff), diff)
         /\ prev' \in Captures
         /\ clean' = IF r # 0 THEN 0 ELSE Bounded(clean + 1)
    BY OneCycle DEF FilterInv
<1>2. /\ signal' = signal
      /\ edge' = [edge EXCEPT !.due = FALSE]
      /\ age' = Bounded(age + 1)
    BY DEF StopCaptured
<1>3. /\ signal \in Signals
      /\ edge \in [due : BOOLEAN, begun : Captures, late : {0, SelfSpan}]
      /\ age \in 0 .. 2 /\ clean \in 0 .. 2 /\ clean <= age
    BY DEF FilterInv, FilterTypeOK, CleanAged
<1>4. age' \in 0 .. 2 /\ clean' \in 0 .. 2 /\ clean' <= age'
    BY <1>1, <1>2, <1>3 DEF Bounded
<1>5. edge' \in [due : BOOLEAN, begun : Captures, late : {0, SelfSpan}] /\ ~edge'.due
    BY <1>2, <1>3
<1>6. true' \in Durations \cup {0}
    BY <1>1, <1>3 DEF Durations
<1>7. prev_diff' \in Captures \cup {None}
    BY <1>1 DEF NextPrevDiff
<1> QED BY <1>1, <1>2, <1>3, <1>4, <1>5, <1>6, <1>7 DEF FilterTypeOK, StartHeld, CleanAged

LEMMA StopKeepsInv ==
    ASSUME FilterInv, StopCaptured
    PROVE  FilterInv'
<1>1. FilterTypeOK' /\ StartHeld' /\ CleanAged' /\ DiffOfSignal' /\ CleanDiff'
    BY StopKeepsTypes, StopKeepsDiff
<1>2. age' = Bounded(age + 1) /\ age \in 0 .. 2
    BY DEF StopCaptured, FilterInv, FilterTypeOK
<1>3. age' < 2 <=> age < 1
    BY <1>2 DEF Bounded
<1>4. LastResult' /\ TwoCleanHeld'
    BY <1>3, StopKeepsResult DEF LastResult, TwoCleanHeld
<1> QED BY <1>1, <1>4 DEF FilterInv

LEMMA StartKeepsInv ==
    ASSUME FilterInv, StartCaptured
    PROVE  FilterInv'
<1>1. PICK begun \in Captures, late \in {0, SelfSpan} :
         /\ edge' = [due |-> TRUE, begun |-> begun, late |-> late]
         /\ prev' = (begun + late) % Modulus
    BY DEF StartCaptured
<1>2. UNCHANGED <<signal, prev_diff, true, raw, result, branch, age, clean>>
    BY DEF StartCaptured
<1>3. /\ edge' \in [due : BOOLEAN, begun : Captures, late : {0, SelfSpan}]
      /\ edge'.begun = begun /\ edge'.late = late
    BY <1>1
<1>4. prev' \in Captures
    BY <1>1, InputAssumption DEF Captures
<1>5. FilterTypeOK' /\ StartHeld'
    BY <1>1, <1>2, <1>3, <1>4 DEF FilterInv, FilterTypeOK, StartHeld
<1> QED
    BY <1>2, <1>5 DEF FilterInv, DiffOfSignal, CleanDiff, TwoCleanHeld, CleanAged, LastResult

LEMMA TargetKeepsInv ==
    ASSUME FilterInv, SetTarget
    PROVE  FilterInv'
<1>1. /\ ~edge.due /\ signal' \in Signals /\ age' = 0 /\ clean' = 0
      /\ UNCHANGED <<prev, prev_diff, edge, true, raw, result, branch>>
    BY DEF SetTarget
<1>2. FilterTypeOK'
    BY <1>1 DEF FilterInv, FilterTypeOK
<1> QED
    BY <1>1, <1>2 DEF FilterInv, StartHeld, DiffOfSignal, CleanDiff, TwoCleanHeld, CleanAged,
       LastResult

LEMMA StepFilter == FilterInv /\ [FilterNext]_filterVars => FilterInv'
<1> SUFFICES ASSUME FilterInv, [FilterNext]_filterVars PROVE FilterInv'
    OBVIOUS
<1>1. CASE StartCaptured
    BY <1>1, StartKeepsInv
<1>2. CASE StopCaptured
    BY <1>2, StopKeepsInv
<1>3. CASE SetTarget
    BY <1>3, TargetKeepsInv
<1>4. CASE UNCHANGED filterVars
    BY <1>4 DEF filterVars, FilterInv, FilterTypeOK, StartHeld, DiffOfSignal, CleanDiff, TwoCleanHeld,
       CleanAged, LastResult
<1> QED BY <1>1, <1>2, <1>3, <1>4 DEF FilterNext

LEMMA FilterInvariant == FilterSpec => []FilterInv
BY InitFilter, StepFilter, PTL DEF FilterSpec

-----------------------------------------------------------------------------
(* The theorems *)

\* The state of input_captured keeps its types: captures and diffs are 32 bits
\* wide, and the two captures of a cycle are at most a span apart in error.
THEOREM FilterType == FilterSpec => []FilterTypeOK
<1>1. FilterInv => FilterTypeOK
    BY DEF FilterInv
<1> QED BY <1>1, FilterInvariant, PTL

\* Errors of the captures never add up in the results of the filter: a result
\* is at most one span off, two in the first cycle after a change of target,
\* and exact again after two clean cycles.
THEOREM ErrorsNeverAddUp == FilterSpec => []ErrorStaysBounded
<1>1. FilterInv => ErrorStaysBounded
    BY DEF FilterInv, LastResult, ErrorStaysBounded, Measured
<1> QED BY <1>1, FilterInvariant, PTL

\* After two clean cycles of a signal the next result is exact, whether its
\* captures were exact or one of them a span late: DETECT_WINDOW repairs
\* every isolated needle and nothing else.
THEOREM NeedleRepaired == FilterSpec => FilterRepairsIsolatedNeedle
<1>1. FilterInv /\ [FilterNext]_filterVars => [edge.due /\ ~edge'.due /\ clean = 2 => Exact(result', true')]_filterVars
    <2> SUFFICES ASSUME FilterInv, FilterNext, edge.due, ~edge'.due, clean = 2
                 PROVE  Exact(result', true')
        BY DEF filterVars
    <2>1. StopCaptured
        BY DEF FilterNext, StartCaptured, SetTarget
    <2> QED BY <2>1, StopKeepsResult
<1> QED BY <1>1, FilterInvariant, PTL DEF FilterSpec, FilterRepairsIsolatedNeedle

-----------------------------------------------------------------------------
(***************************************************************************)
(* Division, as transform_target32 uses it.                                *)
(***************************************************************************)
LEMMA QuotientBounds ==
  ASSUME NEW t \in Nat, NEW p \in Nat \ {0}
  PROVE  /\ t \div p \in Nat
         /\ p * (t \div p) <= t
         /\ t < p * (t \div p) + p
         /\ p <= t => t \div p >= 1
BY SMTT(60)

\* A target that some prescaler fits gets the first one that does, and it leaves
\* a reload value of at least 1.
LEMMA DividerFits ==
  ASSUME NEW t \in Nat \ {0},
         \E p \in 1..(MaxReload - 1) : Fits(t, p)
  PROVE  /\ Divider(t) \in 1..(MaxReload - 1)
         /\ Fits(t, Divider(t))
         /\ Divider(t) <= t
<1>. DEFINE F == {p \in 1..(MaxReload - 1) : Fits(t, p)}
            R == OpToRel(<, Nat)
<1>1. F # {} /\ F \subseteq Nat
  BY InCounterAssumption
<1>2. PICK p \in F : \A q \in F : ~ <<q, p>> \in R
  <2>. HIDE DEF F, R
  <2>. QED
    BY <1>1, NatLessThanWellFounded, WFMin DEF R
<1>3. p \in 1..(MaxReload - 1) /\ Fits(t, p)
  OBVIOUS
<1>4. \A q \in 1..(p - 1) : ~Fits(t, q)
  <2>1. SUFFICES ASSUME NEW q \in 1..(p - 1), Fits(t, q)
                 PROVE  FALSE
    OBVIOUS
  <2>2. q \in 1..(MaxReload - 1) /\ q < p /\ p \in Nat /\ q \in Nat
    BY <1>3, InCounterAssumption
  <2>3. q \in F
    BY <2>1, <2>2
  <2>4. <<q, p>> \in R
    BY <2>2 DEF OpToRel
  <2>. QED
    BY <1>2, <2>3, <2>4
<1>5. /\ Divider(t) \in 1..(MaxReload - 1)
      /\ Fits(t, Divider(t))
      /\ \A q \in 1..(Divider(t) - 1) : ~Fits(t, q)
  BY <1>3, <1>4, Zenon DEF Divider
<1>6. ASSUME NEW d \in 1..(MaxReload - 1), d > t,
             \A q \in 1..(d - 1) : ~Fits(t, q)
      PROVE  FALSE
  <2>1. t \div t = 1
    BY SMTT(30)
  <2>. QED
    BY <1>6, <2>1, InCounterAssumption DEF Fits
<1>. QED
  BY <1>5, <1>6, InCounterAssumption

(***************************************************************************)
(* The inductive invariant.                                                *)
(***************************************************************************)

\* Edges since the counter was last 0.
Position == tim.cnt * (tim.psc + 1) + tim.sub

\* The registers hold what set_target32 has put there, and the thread changes
\* them under a stopped timer only.
Configured ==
    /\ Period(tim.psc, tim.arr) < Many
    /\ task \in {"cold", "start", "retarget", "restart"} => ~tim.cen

\* A cold start meets no interrupt of the cycle before.
CleanStart ==
    /\ task \in {"cold", "start"} => ~dmaIrq /\ dmaIsr.at = "out" /\ ~tim.opm
    /\ task = "start" => ~cr1

\* From the first overflow on, the counter counts from the last copy.
CountsFromCopy ==
    tim.cen /\ (tim.opm \/ dmaIrq \/ dmaIsr.at # "out") => run = Position

\* The second overflow cannot come before the Start is reported.
StartReported ==
    tim.cen /\ tim.opm /\ dmaIsr.at = "out" => span = 0 /\ ~dmaIrq

\* An overflow in one-pulse mode is the end of the period.
PeriodOver ==
    \/ dmaIsr.at = "out" /\ dmaIrq /\ tim.opm
    \/ dmaIsr.at # "out" /\ dmaIsr.opm

StoppedByPeriod ==
    PeriodOver => ~tim.cen /\ span = Period(tim.psc, tim.arr)

HandlerInStep ==
    dmaIsr.at # "out" =>
      /\ ~dmaIrq
      /\ tim.opm <=> (dmaIsr.opm \/ dmaIsr.at = "label")

CounterInv ==
    /\ CounterTypeOK
    /\ Configured
    /\ ~slip => /\ CleanStart
                /\ CountsFromCopy
                /\ StartReported
                /\ StoppedByPeriod
                /\ HandlerInStep

-----------------------------------------------------------------------------
(* What a target becomes *)

LEMMA RegistersOfTarget ==
  ASSUME NEW target \in Targets \cup {1}
  PROVE  /\ TransformTarget32(target).psc \in Nat
         /\ TransformTarget32(target).arr \in Nat \ {0}
         /\ Period(TransformTarget32(target).psc, TransformTarget32(target).arr) < Many
<1>. DEFINE t == Shortened(target)
<1>1. target \in Nat
  BY InCounterAssumption
<1>2. t \in Nat \ {0}
  BY <1>1 DEF Shortened
<1>3. \E p \in 1..(MaxReload - 1) : Fits(t, p)
  BY InCounterAssumption
<1>. HIDE DEF t
<1>4. Divider(t) \in Nat \ {0} /\ Divider(t) <= t
  BY <1>2, <1>3, DividerFits, InCounterAssumption
<1>5. t \div Divider(t) \in Nat /\ t \div Divider(t) >= 1
  BY <1>2, <1>4, QuotientBounds
<1>6. /\ TransformTarget32(target).psc = Divider(t) - 1
      /\ TransformTarget32(target).arr = t \div Divider(t)
  BY DEF TransformTarget32, t
<1>7. Period(TransformTarget32(target).psc, TransformTarget32(target).arr) < Many
  BY InCounterAssumption
<1>. QED
  BY <1>4, <1>5, <1>6, <1>7

\* However a target is split into prescaler and reload value, the number of edges
\* reported is at most the target, and the number counted at least the target
\* and too long by less than a step of the prescaler; without a prescaler both
\* are exact (in_counters_l433.rs 471-489).
THEOREM TargetIsKept == TargetKept
<1>1. SUFFICES ASSUME NEW target \in Targets, target > 2
               PROVE  LET x == TransformTarget32(target)
                      IN /\ AsTarget32(x.psc, x.arr) <= target
                         /\ target <= Period(x.psc, x.arr)
                         /\ Period(x.psc, x.arr) <= target + x.psc
                         /\ x.psc = 0 => AsTarget32(x.psc, x.arr) = target
  BY DEF TargetKept
<1>. DEFINE t == Shortened(target)
            d == Divider(t)
            q == t \div d
<1>2. target \in Nat /\ t = target - 1
  BY <1>1, InCounterAssumption DEF Shortened
<1>3. \E p \in 1..(MaxReload - 1) : Fits(t, p)
  BY InCounterAssumption
<1>4. TransformTarget32(target) = [psc |-> d - 1, arr |-> q]
  BY DEF TransformTarget32
<1>5. t \in Nat \ {0}
  BY <1>1, <1>2
<1>. HIDE DEF t
<1>6. d \in Nat \ {0} /\ d <= t
  BY <1>3, <1>5, DividerFits, InCounterAssumption
<1>. HIDE DEF d
<1>7. q \in Nat /\ d * q <= t /\ t < d * q + d
  BY <1>5, <1>6, QuotientBounds
<1>8. d = 1 => q = t
  BY <1>5 DEF q
<1>. HIDE DEF q
<1>9. /\ AsTarget32(d - 1, q) = d * q + 1
      /\ Period(d - 1, q) = d * q + d
  BY <1>6, <1>7 DEF AsTarget32, Period
<1>10. d * q \in Nat
  BY <1>6, <1>7
<1>. QED
  BY <1>2, <1>4, <1>6, <1>7, <1>8, <1>9, <1>10

-----------------------------------------------------------------------------
(* The invariant *)

\* One edge of a running timer is one position on, the last one the overflow.
LEMMA PositionMoves ==
  ASSUME NEW psc \in Nat, NEW arr \in Nat, NEW value \in 0..arr, NEW sub \in 0..psc
  PROVE  /\ value * (psc + 1) + sub \in Nat
         /\ (value + 1) * (psc + 1) + 0 = value * (psc + 1) + psc + 1
         /\ 0 * (psc + 1) + 0 = 0
         /\ arr * (psc + 1) + psc + 1 = Period(psc, arr)
         /\ (value < arr \/ sub < psc) =>
              value * (psc + 1) + sub + 1 < Period(psc, arr)
<1>1. (arr + 1) * (psc + 1) = arr * (psc + 1) + psc + 1
  OBVIOUS
<1>2. (psc + 1) * (arr + 1) = (arr + 1) * (psc + 1)
  OBVIOUS
<1>3. value * (psc + 1) \in Nat /\ arr * (psc + 1) \in Nat
  OBVIOUS
<1>4. value < arr => value * (psc + 1) + psc + 1 <= arr * (psc + 1)
  <2>1. SUFFICES ASSUME value < arr
                 PROVE  value * (psc + 1) + psc + 1 <= arr * (psc + 1)
    OBVIOUS
  <2>2. PICK k \in Nat : arr = value + 1 + k
    <3>1. arr - value - 1 \in Nat /\ arr = value + 1 + (arr - value - 1)
      BY <2>1
    <3>. QED
      BY <3>1
  <2>3. arr * (psc + 1) = value * (psc + 1) + (psc + 1) + k * (psc + 1)
    BY <2>2, SMTT(30)
  <2>4. k * (psc + 1) \in Nat
    BY <2>2
  <2>. QED
    BY <2>3, <2>4, <1>3
<1>. QED
  BY <1>1, <1>2, <1>3, <1>4 DEF Period

LEMMA ManyIsNat == Many \in Nat
BY InCounterAssumption

LEMMA InitCounter == CounterInit => CounterInv
<1>1. /\ TransformTarget32(1).psc \in Nat
      /\ TransformTarget32(1).arr \in Nat \ {0}
      /\ Period(TransformTarget32(1).psc, TransformTarget32(1).arr) < Many
  BY RegistersOfTarget
<1>2. ASSUME CounterInit
      PROVE  CounterTypeOK
  <2>1. tim \in Registers
    BY <1>1, <1>2 DEF CounterInit, Configure, Registers
  <2>2. tim.cnt <= tim.arr /\ tim.sub <= tim.psc
    BY <1>1, <1>2 DEF CounterInit, Configure
  <2>3. run \in 0..Many /\ span \in 0..Many
    BY <1>2, ManyIsNat DEF CounterInit
  <2>4. /\ dmaIrq \in BOOLEAN /\ cr1 \in BOOLEAN /\ slip \in BOOLEAN
        /\ dmaIsr \in [at : {"out", "read", "label"}, opm : BOOLEAN]
        /\ task \in {"idle", "cold", "start", "retarget", "restart"}
    BY <1>2 DEF CounterInit
  <2>. QED
    BY <2>1, <2>2, <2>3, <2>4 DEF CounterTypeOK
<1>3. ASSUME CounterInit
      PROVE  Configured
  BY <1>1, <1>3 DEF CounterInit, Configure, Configured
<1>4. ASSUME CounterInit
      PROVE  CleanStart /\ HandlerInStep
  BY <1>4 DEF CounterInit, Configure, CleanStart, HandlerInStep
<1>5. ASSUME CounterInit
      PROVE  CountsFromCopy /\ StartReported /\ StoppedByPeriod
  <2>1. ~dmaIrq /\ dmaIsr.at = "out" /\ ~tim.opm
    BY <1>5 DEF CounterInit, Configure
  <2>2. ~tim.cen
    BY <1>5 DEF CounterInit, Configure
  <2>. QED
    BY <2>1, <2>2 DEF CountsFromCopy, StartReported, StoppedByPeriod, PeriodOver
<1>. QED
  BY <1>2, <1>3, <1>4, <1>5 DEF CounterInv

LEMMA EdgeInv ==
  ASSUME CounterInv, Edge
  PROVE  CounterInv'
<1>. USE ManyIsNat
<1>1. /\ tim.psc \in Nat /\ tim.arr \in Nat /\ tim.cnt \in 0..tim.arr
      /\ tim.sub \in 0..tim.psc /\ run \in 0..Many /\ span \in 0..Many
  BY DEF CounterInv, CounterTypeOK, Registers
<1>2. /\ Position \in Nat
      /\ Period(tim.psc, tim.arr) < Many
  BY <1>1, PositionMoves DEF CounterInv, Configured, Position
<1>3. CASE PlainEdge
  <2>1. CounterTypeOK'
    <3>1. tim' \in Registers
      <4>1. tim \in Registers
        BY DEF CounterInv, CounterTypeOK
      <4>2. CASE ~tim.cen
        BY <1>3, <4>1, <4>2 DEF PlainEdge
      <4>3. CASE tim.cen /\ tim.sub < tim.psc
        <5>1. tim' = [tim EXCEPT !.sub = tim.sub + 1]
          BY <1>3, <4>3 DEF PlainEdge
        <5>2. tim.sub + 1 \in Nat
          BY <1>1
        <5>. QED
          BY <4>1, <5>1, <5>2 DEF Registers
      <4>4. CASE tim.cen /\ ~(tim.sub < tim.psc)
        <5>1. tim' = [tim EXCEPT !.sub = 0, !.cnt = tim.cnt + 1]
          BY <1>3, <4>4 DEF PlainEdge
        <5>2. tim.cnt + 1 \in Nat
          BY <1>1
        <5>. QED
          BY <4>1, <5>1, <5>2 DEF Registers
      <4>. QED
        BY <4>2, <4>3, <4>4
    <3>2. tim'.cnt <= tim'.arr /\ tim'.sub <= tim'.psc
      BY <1>1, <1>3 DEF PlainEdge, Wraps, CounterInv, CounterTypeOK, Registers
    <3>3. run' \in 0..Many
      BY <1>1, <1>3 DEF PlainEdge, UpTo
    <3>. QED
      BY <1>3, <3>1, <3>2, <3>3 DEF PlainEdge, CounterInv, CounterTypeOK
  <2>2. ASSUME tim.cen
        PROVE  Position' = Position + 1 /\ Position + 1 < Many
    <3>1. CASE tim.sub < tim.psc
      <4>1. tim'.cnt = tim.cnt /\ tim'.psc = tim.psc /\ tim'.sub = tim.sub + 1
        BY <1>3, <2>2, <3>1 DEF PlainEdge, CounterInv, CounterTypeOK, Registers
      <4>2. Position' = Position + 1
        BY <1>1, <4>1, PositionMoves DEF Position
      <4>3. Position + 1 < Period(tim.psc, tim.arr)
        BY <1>1, <3>1, PositionMoves DEF Position
      <4>4. Period(tim.psc, tim.arr) \in Nat
        BY <1>1 DEF Period
      <4>. QED
        BY <1>2, <4>2, <4>3, <4>4
    <3>2. CASE ~(tim.sub < tim.psc)
      <4>1. tim.sub = tim.psc /\ tim.cnt < tim.arr
        BY <1>1, <1>3, <2>2, <3>2 DEF PlainEdge, Wraps
      <4>2. tim'.cnt = tim.cnt + 1 /\ tim'.psc = tim.psc /\ tim'.sub = 0
        BY <1>3, <2>2, <3>2 DEF PlainEdge, CounterInv, CounterTypeOK, Registers
      <4>3. Position' = Position + 1
        BY <1>1, <4>1, <4>2, PositionMoves DEF Position
      <4>4. Position + 1 < Period(tim.psc, tim.arr)
        BY <1>1, <4>1, PositionMoves DEF Position
      <4>5. Period(tim.psc, tim.arr) \in Nat
        BY <1>1 DEF Period
      <4>. QED
        BY <1>2, <4>3, <4>4, <4>5
    <3>. QED
      BY <3>1, <3>2
  <2>3. /\ tim'.cen = tim.cen /\ tim'.opm = tim.opm
        /\ tim'.psc = tim.psc /\ tim'.arr = tim.arr
    BY <1>3 DEF PlainEdge, CounterInv, CounterTypeOK, Registers
  <2>4. run = Position /\ tim.cen => run' = Position'
    BY <1>2, <1>3, <2>2 DEF PlainEdge, UpTo
  <2>. QED
    BY <1>3, <2>1, <2>3, <2>4
    DEF PlainEdge, CounterInv, Configured, CleanStart, CountsFromCopy, StartReported,
        StoppedByPeriod, PeriodOver, HandlerInStep
<1>4. CASE CounterOverflow
  <2>1. CounterTypeOK'
    <3>1. tim' \in Registers
      BY <1>4 DEF CounterOverflow, CounterInv, CounterTypeOK, Registers
    <3>2. tim'.cnt <= tim'.arr /\ tim'.sub <= tim'.psc
      BY <1>1, <1>4 DEF CounterOverflow, CounterInv, CounterTypeOK, Registers
    <3>3. run' \in 0..Many /\ span' \in 0..Many
      BY <1>1, <1>4 DEF CounterOverflow, UpTo
    <3>4. dmaIrq' \in BOOLEAN /\ slip' \in BOOLEAN
      BY <1>4 DEF CounterOverflow, CounterInv, CounterTypeOK
    <3>. QED
      BY <1>4, <3>1, <3>2, <3>3, <3>4 DEF CounterOverflow, CounterInv, CounterTypeOK
  <2>2. /\ tim'.cen = ~tim.opm /\ tim'.opm = tim.opm
        /\ tim'.psc = tim.psc /\ tim'.arr = tim.arr /\ Position' = 0
        /\ tim.cen /\ dmaIrq' /\ run' = 0 /\ dmaIsr' = dmaIsr
        /\ task' = task /\ cr1' = cr1
        /\ slip' = (slip \/ dmaIsr.at # "out")
    BY <1>1, <1>4, PositionMoves DEF CounterOverflow, CounterInv, CounterTypeOK, Registers, Position
  <2>3. task \notin {"cold", "start", "retarget", "restart"}
    BY <2>2 DEF CounterInv, Configured
  <2>4. ASSUME ~slip', tim.opm
        PROVE  span' = Period(tim.psc, tim.arr)
    <3>1. run = Position /\ span = 0
      BY <2>2, <2>4, Zenon DEF CounterInv, CountsFromCopy, StartReported
    <3>2. Position + 1 = Period(tim.psc, tim.arr)
      BY <1>1, <1>4, PositionMoves DEF CounterOverflow, Wraps, Position
    <3>3. span' = UpTo(span + run + 1)
      BY <1>4 DEF CounterOverflow
    <3>. QED
      BY <1>1, <1>2, <3>1, <3>2, <3>3 DEF UpTo
  <2>. QED
    BY <1>2, <2>1, <2>2, <2>3, <2>4
    DEF CounterInv, Configured, CleanStart, CountsFromCopy, StartReported,
        StoppedByPeriod, PeriodOver, HandlerInStep
<1>. QED
  BY <1>3, <1>4 DEF Edge

LEMMA HandlerInv ==
  ASSUME CounterInv, Handler
  PROVE  CounterInv'
<1>1. tim \in Registers /\ tim'.cnt = tim.cnt /\ tim'.sub = tim.sub
      /\ tim'.psc = tim.psc /\ tim'.arr = tim.arr /\ tim'.cen = tim.cen
  BY DEF CounterInv, CounterTypeOK, Registers, Handler, EnterHandler, LabelCapture, SetOpm, Report
<1>2. /\ Position' = Position
      /\ Period(tim.psc, tim.arr)' = Period(tim.psc, tim.arr)
  BY <1>1 DEF Position
<1>3. Configured'
  BY <1>1, <1>2
  DEF CounterInv, Configured, Handler, EnterHandler, LabelCapture, Report
<1>4. CASE EnterHandler
  <2>1. CounterTypeOK'
    BY <1>4 DEF EnterHandler, CounterInv, CounterTypeOK, Registers
  <2>2. dmaIsr'.at = "read" /\ dmaIsr'.opm = tim.opm /\ UNCHANGED <<tim, task, cr1, run, span, slip>>
        /\ dmaIrq /\ dmaIsr.at = "out" /\ ~dmaIrq'
    BY <1>4 DEF EnterHandler
  <2>. QED
    BY <1>2, <1>3, <2>1, <2>2
    DEF CounterInv, CleanStart, CountsFromCopy, StartReported, StoppedByPeriod,
        PeriodOver, HandlerInStep
<1>5. CASE LabelCapture
  <2>1. /\ dmaIsr.at = "read" /\ dmaIsr'.at = "label" /\ dmaIsr'.opm = dmaIsr.opm
        /\ UNCHANGED <<dmaIrq, task, cr1, run, span, slip>>
        /\ tim'.opm = (IF dmaIsr.opm THEN tim.opm ELSE TRUE)
    BY <1>5 DEF LabelCapture, SetOpm, CounterInv, CounterTypeOK, Registers
  <2>2. CounterTypeOK'
    <3>1. tim' \in Registers
      BY <1>5 DEF LabelCapture, SetOpm, CounterInv, CounterTypeOK, Registers
    <3>2. dmaIsr' \in [at : {"out", "read", "label"}, opm : BOOLEAN]
      BY <1>5 DEF LabelCapture, CounterInv, CounterTypeOK
    <3>. QED
      BY <1>1, <2>1, <3>1, <3>2 DEF CounterInv, CounterTypeOK
  <2>. QED
    BY <1>1, <1>2, <1>3, <2>1, <2>2
    DEF CounterInv, CleanStart, CountsFromCopy, StartReported, StoppedByPeriod,
        PeriodOver, HandlerInStep
<1>6. CASE Report
  <2>1. /\ dmaIsr.at = "label" /\ dmaIsr'.at = "out" /\ dmaIsr'.opm = FALSE
        /\ UNCHANGED <<tim, dmaIrq, task, cr1, run, slip>>
        /\ ~dmaIsr.opm => span' = 0
    BY <1>6 DEF Report
  <2>2. CounterTypeOK'
    BY <1>6, ManyIsNat DEF Report, CounterInv, CounterTypeOK
  <2>. QED
    BY <1>1, <1>2, <1>3, <2>1, <2>2
    DEF CounterInv, CleanStart, CountsFromCopy, StartReported, StoppedByPeriod,
        PeriodOver, HandlerInStep
<1>. QED
  BY <1>4, <1>5, <1>6 DEF Handler

LEMMA TaskInv ==
  ASSUME CounterInv, Task
  PROVE  CounterInv'
<1>0. dmaIsr.at = "out" /\ UNCHANGED <<dmaIrq, dmaIsr, run, span>>
  BY DEF Task, ColdStart, ReadCr1, WriteCr1, Stop, SetTarget32, TaskRuns
<1>1. tim \in Registers /\ tim.cnt <= tim.arr /\ tim.sub <= tim.psc
  BY DEF CounterInv, CounterTypeOK
<1>2. CASE ColdStart
  <2>1. /\ tim' = [tim EXCEPT !.cen = FALSE, !.opm = FALSE, !.cnt = tim.arr - 1]
        /\ task' = "cold" /\ slip' = dmaIrq /\ cr1' = cr1
    BY <1>2 DEF ColdStart
  <2>2. tim.arr - 1 \in Nat /\ tim.arr - 1 <= tim.arr
    BY <1>1 DEF Registers
  <2>3. tim' \in Registers /\ tim'.cnt <= tim'.arr /\ tim'.sub <= tim'.psc
        /\ tim'.psc = tim.psc /\ tim'.arr = tim.arr
    BY <1>1, <2>1, <2>2 DEF Registers
  <2>4. ~tim'.cen /\ ~tim'.opm
    BY <1>1, <2>1 DEF Registers
  <2>5. CounterTypeOK'
    BY <1>0, <2>1, <2>3 DEF CounterInv, CounterTypeOK
  <2>. QED
    BY <1>0, <2>1, <2>3, <2>4, <2>5
    DEF CounterInv, Configured, CleanStart, CountsFromCopy, StartReported,
        StoppedByPeriod, PeriodOver, HandlerInStep
<1>3. CASE ReadCr1
  <2>1. CounterTypeOK'
    BY <1>3 DEF ReadCr1, CounterInv, CounterTypeOK, Registers
  <2>. QED
    BY <1>3, <2>1
    DEF ReadCr1, TaskRuns, CounterInv, Configured, CleanStart, CountsFromCopy, Position,
        StartReported, StoppedByPeriod, PeriodOver, HandlerInStep
<1>4. CASE WriteCr1
  <2>1. /\ tim' = [tim EXCEPT !.cen = TRUE, !.opm = cr1]
        /\ task = "start" /\ task' = "idle" /\ slip' = slip /\ cr1' = FALSE
    BY <1>4 DEF WriteCr1, TaskRuns
  <2>2. tim' \in Registers /\ tim'.cnt <= tim'.arr /\ tim'.sub <= tim'.psc
        /\ tim'.psc = tim.psc /\ tim'.arr = tim.arr
    BY <1>1, <2>1 DEF Registers, CounterInv, CounterTypeOK
  <2>3. tim'.opm = cr1
    BY <1>1, <2>1 DEF Registers
  <2>4. CounterTypeOK'
    BY <1>0, <2>1, <2>2 DEF CounterInv, CounterTypeOK
  <2>. QED
    BY <1>0, <2>1, <2>2, <2>3, <2>4
    DEF CounterInv, Configured, CleanStart, CountsFromCopy, StartReported,
        StoppedByPeriod, PeriodOver, HandlerInStep
<1>5. CASE Stop
  <2>1. /\ tim' = [tim EXCEPT !.cen = FALSE]
        /\ task' \in {"idle", "retarget"} /\ slip' = slip /\ cr1' = cr1
    BY <1>5 DEF Stop
  <2>2. tim' \in Registers /\ tim'.cnt <= tim'.arr /\ tim'.sub <= tim'.psc
        /\ tim'.psc = tim.psc /\ tim'.arr = tim.arr
        /\ ~tim'.cen /\ tim'.opm = tim.opm
    BY <1>1, <2>1 DEF Registers
  <2>3. CounterTypeOK'
    BY <1>0, <2>1, <2>2 DEF CounterInv, CounterTypeOK
  <2>. QED
    BY <1>0, <2>1, <2>2, <2>3
    DEF CounterInv, Configured, CleanStart, CountsFromCopy, StartReported,
        StoppedByPeriod, PeriodOver, HandlerInStep
<1>6. CASE SetTarget32
  <2>1. ~tim.cen /\ ~dmaIrq /\ slip' = slip /\ cr1' = cr1
    BY <1>6 DEF SetTarget32, TaskRuns, CounterInv, Configured
  <2>2. PICK target \in Targets :
          /\ tim' = [tim EXCEPT !.psc = TransformTarget32(target).psc,
                                !.arr = TransformTarget32(target).arr,
                                !.cnt = 0, !.sub = 0]
          /\ task' = "restart"
    BY <1>6, <2>1 DEF SetTarget32
  <2>. DEFINE psc == TransformTarget32(target).psc
              arr == TransformTarget32(target).arr
  <2>3. psc \in Nat /\ arr \in Nat \ {0} /\ Period(psc, arr) < Many
    BY RegistersOfTarget
  <2>4. tim' = [tim EXCEPT !.psc = psc, !.arr = arr, !.cnt = 0, !.sub = 0]
    BY <2>2
  <2>. HIDE DEF psc, arr
  <2>5. /\ tim' \in Registers /\ tim'.cnt <= tim'.arr /\ tim'.sub <= tim'.psc
        /\ tim'.psc = psc /\ tim'.arr = arr
    <3>1. tim'.psc = psc /\ tim'.arr = arr /\ tim'.cnt = 0 /\ tim'.sub = 0
      BY <1>1, <2>4 DEF Registers
    <3>2. 0 \in Nat /\ 0 <= psc /\ 0 <= arr
      BY <2>3
    <3>3. tim' \in Registers
      BY <1>1, <2>3, <2>4, <3>2, Zenon DEF Registers
    <3>. QED
      BY <3>1, <3>2, <3>3
  <2>6. ~tim'.cen /\ tim'.opm = tim.opm
    BY <1>1, <2>1, <2>4 DEF Registers
  <2>7. CounterTypeOK'
    BY <1>0, <2>1, <2>2, <2>5 DEF CounterInv, CounterTypeOK
  <2>8. Period(tim.psc, tim.arr)' < Many
    BY <2>3, <2>5
  <2>. QED
    BY <1>0, <2>1, <2>2, <2>6, <2>7, <2>8
    DEF CounterInv, Configured, CleanStart, CountsFromCopy, StartReported,
        StoppedByPeriod, PeriodOver, HandlerInStep
<1>. QED
  BY <1>2, <1>3, <1>4, <1>5, <1>6 DEF Task

LEMMA StutterInv ==
  ASSUME CounterInv, UNCHANGED counterVars
  PROVE  CounterInv'
BY DEF counterVars, CounterInv, CounterTypeOK, Configured, CleanStart, CountsFromCopy, Position,
       StartReported, StoppedByPeriod, PeriodOver, HandlerInStep

LEMMA CounterInvariant == CounterSpec => []CounterInv
<1>1. CounterInv /\ [CounterNext]_counterVars => CounterInv'
  BY EdgeInv, HandlerInv, TaskInv, StutterInv DEF CounterNext
<1>. QED
  BY InitCounter, <1>1, PTL DEF CounterSpec

\* Every register of the timer holds a value of its type, the counters never
\* pass the values they are compared with, and set_target32 never meets a running
\* timer, which would be its panic.
THEOREM CounterType == CounterSpec => []CounterTypeOK
<1>1. CounterInv => CounterTypeOK
  BY DEF CounterInv
<1>. QED
  BY CounterInvariant, <1>1, PTL

\* What the timer counts is what is reported as its target and the prescaler.
LEMMA PeriodOfTarget ==
  ASSUME NEW psc \in Nat, NEW arr \in Nat
  PROVE  Period(psc, arr) = AsTarget32(psc, arr) + psc
<1>1. (psc + 1) * (arr + 1) = (psc + 1) * arr + (psc + 1)
  OBVIOUS
<1>. QED
  BY <1>1 DEF Period, AsTarget32

\* A Stop comes one period after the Start reported before it, for every target,
\* whatever the delays of the handler and wherever the thread starts, stops or
\* retargets the timer, the two windows of slip excepted.
THEOREM StopAfterOnePeriod == CounterSpec => StopIsOnePeriod
<1>1. ASSUME CounterInv, ReportsStop, ~slip
      PROVE  span = AsTarget32(tim.psc, tim.arr) + tim.psc
  <2>1. span = Period(tim.psc, tim.arr)
    BY <1>1 DEF ReportsStop, CounterInv, StoppedByPeriod, PeriodOver
  <2>2. tim.psc \in Nat /\ tim.arr \in Nat
    BY <1>1 DEF CounterInv, CounterTypeOK, Registers
  <2>3. Period(tim.psc, tim.arr) = AsTarget32(tim.psc, tim.arr) + tim.psc
    BY <2>2, PeriodOfTarget
  <2>. QED
    BY <2>1, <2>3
<1>2. CounterInv /\ [CounterNext]_counterVars =>
        [ReportsStop /\ ~slip => span = AsTarget32(tim.psc, tim.arr) + tim.psc]_counterVars
  BY <1>1
<1>. QED
  BY CounterInvariant, <1>2, PTL DEF CounterSpec, StopIsOnePeriod
=============================================================================
