----------------------------- MODULE PipelineCycle -----------------------------
(***************************************************************************)
(* The iterations of a set of pipelines, whoever serves them: a pipeline   *)
(* starts an iteration later than its last, holds blocks only within it,   *)
(* and is empty again when it ends. An iteration is aborted before any     *)
(* block was staged, and may then be started again.                        *)
(***************************************************************************)
EXTENDS Naturals

CONSTANTS Pipelines, MaxIteration

VARIABLES
    running,    \* pipelines in an iteration
    at,         \* pipeline -> its last iteration
    loaded      \* pipelines that hold blocks

vars == <<running, at, loaded>>

Init == running = {} /\ at = [p \in Pipelines |-> 0] /\ loaded = {}

\* A pipeline whose last iteration is 0 may never have run.
Start(p, i) ==
    /\ p \notin running \cup loaded
    /\ at[p] = 0 \/ at[p] < i
    /\ running' = running \cup {p}
    /\ at' = [at EXCEPT ![p] = i]
    /\ UNCHANGED loaded

Stage(p) ==
    /\ p \in running
    /\ loaded' = loaded \cup {p}
    /\ UNCHANGED <<running, at>>

End(p) ==
    /\ p \in running
    /\ running' = running \ {p}
    /\ loaded' = loaded \ {p}
    /\ UNCHANGED at

Abort(p) ==
    /\ p \in running \ loaded
    /\ running' = running \ {p}
    /\ at' = [at EXCEPT ![p] = IF @ = 0 THEN MaxIteration ELSE @ - 1]
    /\ UNCHANGED loaded

Next == \E p \in Pipelines : \/ \E i \in 0..MaxIteration : Start(p, i)
                             \/ Stage(p) \/ End(p) \/ Abort(p)

Spec == Init /\ [][Next]_vars

================================================================================
