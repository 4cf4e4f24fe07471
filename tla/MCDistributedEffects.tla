------------------------ MODULE MCDistributedEffects ------------------------
(* Two boxes with one chase of two steps that overlap.                     *)
EXTENDS DistributedEffects

MCBox == {1, 2}
MCChannels == {"red", "blue"}

Lit(ch) == [c \in MCChannels |-> IF c = ch THEN Full ELSE 0]
MCSteps == <<[time |-> 2, in |-> 2, dwell |-> 0, out |-> 1, level |-> Lit("red")],
             [time |-> 1, in |-> 0, dwell |-> 1, out |-> 1, level |-> Lit("blue")]>>
MCEffects == [b \in MCBox |-> <<[distributed_id |-> 3 - b, steps |-> MCSteps]>>]
Down == [level |-> 0, rate |-> 1]
Up == [level |-> Full, rate |-> 1]
MCFaders == [b \in MCBox |-> IF b = 1 THEN {Down, Up} ELSE {Down}]

(* What the theorems about this module suppose, c being 3.                 *)
ASSUME LoopableAssumption ==
    \A b \in MCBox : \A e \in Indexes(b) : Fits(Steps(b, e)) /\ Unwrapped(Steps(b, e))
ASSUME LengthsAssumption == \A b \in MCBox : \A e \in Indexes(b) : Distributed(b, e) => Length[b][e] = 3
=============================================================================
