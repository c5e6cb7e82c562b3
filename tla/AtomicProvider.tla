---------------------------- MODULE AtomicProvider ----------------------------
(***************************************************************************)
(* What a provider promises the clients of its pipelines: every call finds *)
(* the pipeline registered under its name, acts on it at one instant       *)
(* before its answer, and an error changes nothing. A pipeline runs one    *)
(* iteration at a time, its backend holds blocks only while it runs, and   *)
(* the provider leaves only when none runs.                                *)
(*                                                                         *)
(* It promises less to administrators. A pipeline is replaced whatever it  *)
(* does, and a destroy may miss the effect of a call that has not answered *)
(* yet: calls that found the pipeline before are served on it all the same.*)
(***************************************************************************)
EXTENDS Naturals

CONSTANTS Names, Objects, Handlers, Requests, MaxIteration, NoObject, NoRequest

VARIABLES
    table,      \* name -> the pipeline registered under it
    made,       \* pipelines created so far
    running,    \* pipelines in an iteration
    at,         \* pipeline -> its last iteration
    loaded,     \* pipelines whose backend holds blocks
    gone,       \* the provider left
    call,       \* per handler: the request it serves
    target,     \* per handler: the pipeline its call found, if any yet
    answer      \* per handler: "IDLE", "NONE" before its answer, its answer

pipelineVars == <<table, made, running, at, loaded, gone>>
vars == <<pipelineVars, call, target, answer>>

PipelineOps == {"start", "stage", "execute", "cleanup", "abort"}

Answer(h, code) == answer' = [answer EXCEPT ![h] = code] /\ UNCHANGED <<call, target>>

\* Iteration 0 of a pipeline that never ran is no obstacle to another 0.
Startable(o, i) == o \notin running /\ (at[o] # 0 => at[o] < i)
RunsAt(o, i) == o \in running /\ at[o] = i

Accepts(o, c) == IF c.op = "start" THEN Startable(o, c.iteration)
                 ELSE RunsAt(o, c.iteration)

Serves(h, op, o) == /\ answer[h] = "NONE"
                    /\ call[h].op = op
                    /\ target[h] = o
                    /\ Accepts(o, call[h])

Init ==
    /\ table \in [Names -> Objects \cup {NoObject}]
    /\ \A n \in Names : table[n] # NoObject => table[n][1] = n
    /\ made = {table[n] : n \in Names} \ {NoObject}
    /\ running = {} /\ loaded = {}
    /\ at = [o \in Objects |-> 0]
    /\ gone = FALSE
    /\ call = [h \in Handlers |-> NoRequest]
    /\ target = [h \in Handlers |-> NoObject]
    /\ answer = [h \in Handlers |-> "IDLE"]

Receive(h, r) ==
    /\ ~gone /\ answer[h] = "IDLE"
    /\ call' = [call EXCEPT ![h] = r]
    /\ answer' = [answer EXCEPT ![h] = "NONE"]
    /\ UNCHANGED <<pipelineVars, target>>

Find(h) ==
    /\ answer[h] = "NONE" /\ target[h] = NoObject
    /\ call[h].op \in PipelineOps
    /\ table[call[h].name] # NoObject
    /\ target' = [target EXCEPT ![h] = table[call[h].name]]
    /\ UNCHANGED <<pipelineVars, call, answer>>

Return(h) ==
    /\ answer[h] \notin {"IDLE", "NONE"}
    /\ call' = [call EXCEPT ![h] = NoRequest]
    /\ target' = [target EXCEPT ![h] = NoObject]
    /\ answer' = [answer EXCEPT ![h] = "IDLE"]
    /\ UNCHANGED pipelineVars

------------------------------------------------------------------------------
(* Calls that change nothing. *)

\* Why pipeline o refuses call c, or fails to serve it.
Obstacle(o, c, code) ==
    \/ c.op = "start" /\ o \in running /\ code = "PIPELINE_IS_ACTIVE"
    \/ c.op # "start" /\ o \notin running /\ code = "PIPELINE_NOT_ACTIVE"
    \/ /\ c.op = "start" <=> o \notin running
       /\ ~Accepts(o, c) /\ code = "INVALID_ITERATION"
    \/ c.op # "abort" /\ Accepts(o, c) /\ code = "BACKEND_ERROR"

\* Some call that changed pipeline o has not answered yet.
Unsettled(o) == \E g \in Handlers : /\ target[g] = o /\ answer[g] = "SUCCESS"
                                    /\ call[g].op # "stage"

Reason(h, code) ==
    LET c == call[h] IN
    \/ c.op = "start" /\ target[h] = NoObject /\ code = "INVALID_GROUP_HASH"
    \/ c.op = "create" /\ code = "CREATE_ERROR"
    \/ /\ c.op # "create" /\ target[h] = NoObject
       /\ table[c.name] = NoObject /\ code = "INVALID_PIPELINE_NAME"
    \/ /\ c.op = "destroy" /\ table[c.name] # NoObject
       /\ table[c.name] \in running \/ Unsettled(table[c.name])
       /\ code = "PIPELINE_IS_ACTIVE"
    \/ /\ c.op \in PipelineOps /\ target[h] # NoObject
       /\ Obstacle(target[h], c, code)

Refuse(h, code) ==
    /\ answer[h] = "NONE"
    /\ Reason(h, code)
    /\ Answer(h, code)
    /\ UNCHANGED pipelineVars

Check(h) ==
    /\ answer[h] = "NONE" /\ call[h].op = "check"
    /\ table[call[h].name] # NoObject
    /\ Answer(h, "SUCCESS")
    /\ UNCHANGED pipelineVars

Execute(h, o) ==
    /\ Serves(h, "execute", o) /\ ~call[h].auto
    /\ Answer(h, "SUCCESS")
    /\ UNCHANGED pipelineVars

------------------------------------------------------------------------------
(* Calls that change a pipeline. *)

Start(h, o) ==
    /\ Serves(h, "start", o)
    /\ running' = running \cup {o}
    /\ at' = [at EXCEPT ![o] = call[h].iteration]
    /\ Answer(h, "SUCCESS")
    /\ UNCHANGED <<table, made, loaded, gone>>

Stage(h, o) ==
    /\ Serves(h, "stage", o)
    /\ loaded' = loaded \cup {o}
    /\ Answer(h, "SUCCESS")
    /\ UNCHANGED <<table, made, running, at, gone>>

\* A cleanup, or the one at the end of an execute.
End(h, o) ==
    /\ Serves(h, "cleanup", o) \/ (Serves(h, "execute", o) /\ call[h].auto)
    /\ running' = running \ {o}
    /\ loaded' = loaded \ {o}
    /\ Answer(h, "SUCCESS")
    /\ UNCHANGED <<table, made, at, gone>>

\* The iteration may start again; that before iteration 0 is the largest.
Abort(h, o) ==
    /\ Serves(h, "abort", o)
    /\ o \notin loaded
    /\ running' = running \ {o}
    /\ at' = [at EXCEPT ![o] = IF @ = 0 THEN MaxIteration ELSE @ - 1]
    /\ Answer(h, "SUCCESS")
    /\ UNCHANGED <<table, made, loaded, gone>>

------------------------------------------------------------------------------
(* Administration. *)

Create(h, o) ==
    /\ answer[h] = "NONE" /\ call[h].op = "create"
    /\ o \in Objects \ made /\ o[1] = call[h].name
    /\ table' = [table EXCEPT ![o[1]] = o]
    /\ made' = made \cup {o}
    /\ Answer(h, "SUCCESS")
    /\ UNCHANGED <<running, at, loaded, gone>>

\* The pipeline is unregistered whatever its backend answers.
Destroy(h, code) ==
    /\ answer[h] = "NONE" /\ call[h].op = "destroy"
    /\ table[call[h].name] \in made \ loaded
    /\ table[call[h].name] \notin running \/ Unsettled(table[call[h].name])
    /\ code \in {"SUCCESS", "BACKEND_ERROR"}
    /\ table' = [table EXCEPT ![call[h].name] = NoObject]
    /\ Answer(h, code)
    /\ UNCHANGED <<made, running, at, loaded, gone>>

Leave ==
    /\ running = {}
    /\ gone' = TRUE
    /\ table' = [n \in Names |-> NoObject]
    /\ UNCHANGED <<made, running, at, loaded, call, target, answer>>

Codes == {"INVALID_GROUP_HASH", "INVALID_PIPELINE_NAME", "PIPELINE_IS_ACTIVE",
          "PIPELINE_NOT_ACTIVE", "INVALID_ITERATION", "CREATE_ERROR",
          "BACKEND_ERROR", "SUCCESS"}

Next ==
    \/ \E h \in Handlers :
         \/ Find(h) \/ Return(h) \/ Check(h)
         \/ \E r \in Requests : Receive(h, r)
         \/ \E code \in Codes : Refuse(h, code) \/ Destroy(h, code)
         \/ \E o \in Objects : \/ Execute(h, o) \/ Start(h, o) \/ Stage(h, o)
                               \/ End(h, o) \/ Abort(h, o) \/ Create(h, o)
    \/ Leave

Spec == Init /\ [][Next]_vars

==============================================================================
