--------------------------- MODULE MetricsWindow ---------------------------
(***************************************************************************)
(* The window of a request for a metrics history: resolve clamps the range *)
(* to the retention, and chooses a step so coarse that the answer can be   *)
(* drawn and so aligned that every bucket holds whole samples.  Times and  *)
(* steps are i64 without a bound, and wrap around in a release build (a    *)
(* debug build panics).  A request that leaves out `to` gets the present,  *)
(* a time like any other here.                                             *)
(***************************************************************************)
EXTENDS Integers, FiniteSets

CONSTANTS
    MaxInt,  \* i64::MAX
    Second,  \* the times a request may name, and its steps
    Unset    \* a field the request leaves out

SampleInterval == 15
MetricsRetention == 7 * 24 * 60 * 60
DefaultRange == 60 * 60
MaxPoints == 240

MinInt == -MaxInt - 1
ASSUME RetentionFits == MaxInt \in Nat /\ MaxInt > MetricsRetention + MaxPoints
ASSUME SecondsAreIntegers == Second \subseteq MinInt .. MaxInt
ASSUME UnsetIsNoSecond == Unset \notin Int

\* What is left in 64 bits of the sum or difference of two integers.
Wrap(x) ==
    CASE x > MaxInt -> x - 2 * (MaxInt + 1)
      [] x < MinInt -> x + 2 * (MaxInt + 1)
      [] OTHER -> x

\* Division as Rust and SQLite do it, towards zero.
Divided(x, d) == IF x >= 0 THEN x \div d ELSE -((-x) \div d)

Greater(a, b) == IF a >= b THEN a ELSE b
ceil_div(value, divisor) == Divided(Wrap(value + divisor - 1), divisor)

From(from, to) == IF from = Unset THEN Wrap(to - DefaultRange) ELSE from

\* A request that is answered: forwards in time, with a positive step.
Accepted(from, to, step) == From(from, to) < to /\ (step = Unset \/ step > 0)

Clamped(from, to) == Greater(From(from, to), Wrap(to - MetricsRetention))

\* At least what is asked for, what MaxPoints takes, and one interval.
Wanted(span, step) ==
    Greater(Greater(IF step = Unset THEN SampleInterval ELSE step, ceil_div(span, MaxPoints)),
            SampleInterval)

\* Mutant: rounded down to whole samples.
Aligned_Down(s) == (s \div SampleInterval) * SampleInterval
Aligned(s) == ceil_div(s, SampleInterval) * SampleInterval

resolve(from, to, step) ==
    LET start == Clamped(from, to)
    IN  [from |-> start, to |-> to, step |-> Aligned(Wanted(Wrap(to - start), step))]

\* The bucket of a sample in the series' statements: ts / step, times step.
Bucket(ts, step) == Divided(ts, step) * step

\* No more than one row more than what can be drawn, as the first and the last
\* bucket may be cut by the range; each a whole number of samples wide; and no
\* finer than asked for.
Graphable(w, step) ==
    /\ w.from < w.to /\ w.to - w.from <= MetricsRetention
    /\ w.step > 0 /\ w.step % SampleInterval = 0
    /\ step # Unset => w.step >= step
    /\ w.to - w.from <= MaxPoints * w.step
    /\ Bucket(w.to, w.step) - Bucket(w.from, w.step) <= MaxPoints * w.step

\* The retention before `to` and the step rounded up are i64, which is not checked.
Fits(to, step) ==
    /\ to - MetricsRetention >= MinInt
    /\ step = Unset \/ step <= MaxInt - (SampleInterval - 1)

\* A request that is answered gets a window that can be drawn, the step making up
\* for whatever span is left after clamping and rounding it to whole samples never
\* making it finer, exactly if nothing overflows: for a time or a step beyond that,
\* the window is empty or its step negative.
WindowsGraphable ==
    \A from, step \in Second \union {Unset}, to \in Second :
        Accepted(from, to, step) => (Graphable(resolve(from, to, step), step) <=> Fits(to, step))
=============================================================================
