---------------------------- MODULE ExclusiveJobs ----------------------------
(***************************************************************************)
(* What a job queue promises its handlers, with no lease, clock, attempt   *)
(* or table: a job is executed by one worker at a time, only the worker    *)
(* executing it settles it or gives it back, it is taken back only from a  *)
(* worker that no longer executes it, and a settled job stays settled.     *)
(***************************************************************************)
CONSTANTS Workers, Jobs

VARIABLES
    phase,      \* of each job: unknown, open, held or settled
    holders     \* the workers executing each job

vars == <<phase, holders>>

Init == /\ phase = [j \in Jobs |-> "unknown"]
        /\ holders = [j \in Jobs |-> {}]

Submit(j) == /\ phase[j] = "unknown"
             /\ phase' = [phase EXCEPT ![j] = "open"]
             /\ UNCHANGED holders

Take(j, w) == /\ phase[j] = "open" /\ holders[j] = {}
              /\ \A i \in Jobs : w \notin holders[i]
              /\ phase' = [phase EXCEPT ![j] = "held"]
              /\ holders' = [holders EXCEPT ![j] = {w}]

\* A worker took the job and never learnt of it.
TakeUnaware(j) == /\ phase[j] = "open" /\ holders[j] = {}
                  /\ phase' = [phase EXCEPT ![j] = "held"]
                  /\ UNCHANGED holders

\* The worker dies, or cannot report what became of the job.
Abandon(w) == /\ holders' = [j \in Jobs |-> holders[j] \ {w}]
              /\ UNCHANGED phase

\* Held jobs that nobody executes any more are offered again.
Reopen(S) == /\ \A j \in S : phase[j] = "held" /\ holders[j] = {}
             /\ phase' = [j \in Jobs |-> IF j \in S THEN "open" ELSE phase[j]]
             /\ UNCHANGED holders

\* The worker executing the job ends it or gives it back.
Report(j, w, result) == /\ phase[j] = "held" /\ holders[j] = {w}
                        /\ phase' = [phase EXCEPT ![j] = result]
                        /\ holders' = [holders EXCEPT ![j] = {}]

Next == \/ \E j \in Jobs : Submit(j) \/ TakeUnaware(j)
        \/ \E j \in Jobs, w \in Workers : \/ Take(j, w)
                                          \/ Report(j, w, "settled")
                                          \/ Report(j, w, "open")
        \/ \E w \in Workers : Abandon(w)
        \/ \E S \in SUBSET Jobs : Reopen(S)

Spec == Init /\ [][Next]_vars
=============================================================================
