--------------------------- MODULE MCEffectStore ---------------------------
(* Small instances of EffectStore for TLC.                                 *)
EXTENDS EffectStore

StepsOf == {<<0, 1>>}
Sample == <<1>>

(* With four ids, 1 to 3 are positive ids, 7 is taken for 3, 4 for 0 and  *)
(* 40 is refused.                                                          *)
Numbers == {Number(n) : n \in {1, 2, 3}}
Odd == {Number(0), Number(4), Number(7), Number(40), Word("other")}
Steps == Word("steps")
MCPaths ==
    {<<>>, <<Number(1), Word("other")>>, <<Number(1), Steps, Number(1), Steps>>}
    \cup {<<n>> : n \in Numbers \cup Odd}
    \cup {<<n, Steps>> : n \in Numbers}
    \cup {<<n, Steps, Number(1)>> : n \in Numbers}
    \cup {<<Number(1), Steps, m>> : m \in Odd}
=============================================================================
