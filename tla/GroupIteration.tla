--------------------------- MODULE GroupIteration ---------------------------
(***************************************************************************)
(* What DistributedPipelineHandle promises the ranks of a client: an       *)
(* iteration starts on a group of servers at once, holds the blocks of all *)
(* ranks when it is executed, and ends with every server free of them; at  *)
(* any point it may fail instead, for good.                                *)
(***************************************************************************)
EXTENDS Naturals

CONSTANTS Servers, Ranks, FirstIteration, LastIteration

VARIABLES
    phase,      \* "idle", "started", "executed", "done", "failed"
    iteration,  \* that of the next or current start
    group,      \* servers on which it runs
    blocks      \* server -> ranks whose block it holds

vars == <<phase, iteration, group, blocks>>

Staged == UNION {blocks[s] : s \in group}

Init == /\ phase = "idle" /\ iteration = FirstIteration
        /\ group = {} /\ blocks = [s \in Servers |-> {}]

Start == /\ phase = "idle" /\ phase' = "started"
         /\ group' \in (SUBSET Servers) \ {{}}
         /\ UNCHANGED <<iteration, blocks>>

Fail == /\ phase # "done" /\ phase' = "failed"
        /\ group' = {} /\ blocks' = [s \in Servers |-> {}]
        /\ UNCHANGED iteration

Stage(r, s) == /\ phase = "started"
               /\ r \notin Staged /\ s \in group
               /\ blocks' = [blocks EXCEPT ![s] = @ \cup {r}]
               /\ UNCHANGED <<phase, iteration, group>>

Execute == /\ phase = "started" /\ phase' = "executed"
           /\ Staged = Ranks
           /\ UNCHANGED <<iteration, group, blocks>>

Cleanup(s) == /\ phase = "executed"
              /\ s \in group
              /\ group' = group \ {s}
              /\ blocks' = [blocks EXCEPT ![s] = {}]
              /\ UNCHANGED <<phase, iteration>>

End == /\ phase = "executed" /\ group = {}
       /\ IF iteration = LastIteration
          THEN phase' = "done" /\ UNCHANGED iteration
          ELSE phase' = "idle" /\ iteration' = iteration + 1
       /\ UNCHANGED <<group, blocks>>

Next == \/ Start \/ Fail \/ Execute \/ End
        \/ \E s \in Servers : Cleanup(s) \/ \E r \in Ranks : Stage(r, s)

Spec == Init /\ [][Next]_vars

==============================================================================
