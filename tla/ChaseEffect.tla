---------------------------- MODULE ChaseEffect ----------------------------
(***************************************************************************)
(* The arithmetic of a chase: what an effect shows at a position, and how  *)
(* the position moves (components/dmxbox_effects).                         *)
(*                                                                         *)
(* A chase is a list of steps.  A step starts `time` after the one before, *)
(* fades in, dwells and fades out, and may still be fading when its        *)
(* successors, or the next pass of the chase, have begun.  Times are whole *)
(* numbers here and microseconds in a double in the code; the multiplier   *)
(* a rate fader stands for is a whole number as well.                      *)
(***************************************************************************)
EXTENDS Integers, Sequences, FiniteSetsExt

CONSTANTS
    Channels,       \* channels a step can light
    Full,           \* the highest level, 255
    Wrap            \* effect_length_us and offset_us are kept modulo this, 2^32

ASSUME FullAssumption == Full \in Nat \ {0}
ASSUME WrapAssumption == Wrap \in Nat \ {0}

Level == 0..Full
Dark == [ch \in Channels |-> 0]
Step == [time : Nat, in : Nat, dwell : Nat, out : Nat, level : [Channels -> Level]]

MultiplyLevels(a, b) ==
    IF a = Full THEN b
    ELSE IF b = Full THEN a
    ELSE IF a = 0 \/ b = 0 THEN 0
    ELSE (a * b) \div Full

(* prepare_loaded_effect: a step without a shape is on for its time.       *)
Prepared(s) ==
    IF s.in = 0 /\ s.dwell = 0 /\ s.out = 0 THEN [s EXCEPT !.dwell = s.time] ELSE s

(* prepare_loaded_effect: where the steps start, and where the last ends.  *)
Offset(steps, n) ==
    LET sum[i \in 0..(n - 1)] == IF i = 0 THEN 0 ELSE (sum[i - 1] + steps[i].time) % Wrap
    IN  sum[n - 1]

EffectLength(steps) == Offset(steps, Len(steps) + 1)

(* advance_chase_effect_progress.  Without a length the position is not    *)
(* brought back: whatever the cast of the quotient yields is multiplied by *)
(* the length.                                                             *)
AdvanceUnlooped(progress, first_pass, rate, time, length) ==    \* mutant: first_pass is kept
    LET p == progress + time * rate
    IN  IF p < length THEN [progress |-> p, first_pass |-> first_pass]
        ELSE [progress |-> IF length = 0 THEN p ELSE p % length, first_pass |-> first_pass]

Advance(progress, first_pass, rate, time, length) ==
    LET p == progress + time * rate
    IN  IF p < length THEN [progress |-> p, first_pass |-> first_pass]
        ELSE [progress |-> IF length = 0 THEN p ELSE p % length, first_pass |-> FALSE]

(* The fade level of a step p after its start.                             *)
Fade(step, p) ==
    LET s == Prepared(step)
        q == p - s.in - s.dwell
    IN  CASE p <= 0       -> 0
          [] q >= s.out   -> 0
          [] p > 0 /\ p < s.in -> (Full * p) \div s.in
          [] p > 0 /\ p >= s.in /\ q < 0 -> Full
          [] p > 0 /\ q >= 0 /\ q < s.out -> (Full * (s.out - q)) \div s.out

(* progress_in_step: steps of the previous pass may overlap.               *)
ProgressInStepAlways(steps, n, progress, first_pass) ==  \* mutant: even in the first pass
    LET p == progress - Offset(steps, n)
    IN  IF p < 0 THEN p + EffectLength(steps) ELSE p

ProgressInStep(steps, n, progress, first_pass) ==
    LET p == progress - Offset(steps, n)
    IN  IF p < 0 /\ ~first_pass THEN p + EffectLength(steps) ELSE p

(* What one step at fade level f adds to a channel.                        *)
Dimmed(effect_level, f, channel_level) ==
    MultiplyLevels(MultiplyLevels(effect_level, f), channel_level)

(* process_chase_effect: the highest of the steps, channel by channel.     *)
Chase(steps, effect_level, progress, first_pass) ==
    [ch \in Channels |->
        Max({0} \cup {Dimmed(effect_level, Fade(steps[n], ProgressInStep(steps, n, progress, first_pass)),
                             steps[n].level[ch]) : n \in 1..Len(steps)})]
-----------------------------------------------------------------------------
(* Reference: a chase laid out in time, pass after pass without end.  Step *)
(* n of pass k starts at n's offset in the k-th repetition of the whole;   *)
(* what is seen at a moment is the highest of everything that is lit then. *)
LaidOut(steps, effect_level, now) ==
    LET length == EffectLength(steps)
        passes == 0..(IF length = 0 THEN 0 ELSE now \div length)
    IN  [ch \in Channels |->
            Max({0} \cup {Dimmed(effect_level, Fade(steps[n], now - k * length - Offset(steps, n)),
                                 steps[n].level[ch]) : n \in 1..Len(steps), k \in passes})]

(* No step is longer than the whole chase.                                 *)
Fits(steps) ==
    \A n \in 1..Len(steps) :
        LET s == Prepared(steps[n]) IN s.in + s.dwell + s.out <= EffectLength(steps)

(* No step starts after the end, as it may when the sum has gone round.    *)
Unwrapped(steps) == \A n \in 1..Len(steps) : Offset(steps, n) <= EffectLength(steps)
=============================================================================
