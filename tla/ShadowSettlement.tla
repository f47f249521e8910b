-------------------------- MODULE ShadowSettlement --------------------------
(***************************************************************************)
(* What the shadow outbox promises of its jobs, whoever works on them and  *)
(* whatever fails (docs/architecture/ADR_MAT_GOV_03B_SHADOW_PINNING.md,    *)
(* "Worker, cache and reconciliation"): each job is settled once, either   *)
(* evaluated or given up, it stays settled, and within a session version   *)
(* the jobs are settled in the order of their sequence numbers.            *)
(***************************************************************************)
EXTENDS Naturals, Sequences

VARIABLE jobs  \* [version, outcome] of every captured job, in capture order

Init == jobs = <<>>

\* A job of a session version in use, or of a new one.
Capture ==
  \E version \in 1..(Len(jobs) + 1) :
    jobs' = Append(jobs, [version |-> version, outcome |-> "open"])

\* The next job of its session version to be settled.
IsNext(i) ==
  /\ jobs[i].outcome = "open"
  /\ \A j \in 1..(i - 1) : jobs[j].version = jobs[i].version => jobs[j].outcome # "open"

\* Jobs of several session versions may be settled together.
Settle(outcome) ==
  jobs' = [i \in DOMAIN jobs |->
             IF i \in DOMAIN outcome THEN [jobs[i] EXCEPT !.outcome = outcome[i]] ELSE jobs[i]]

Next ==
  \/ Capture
  \/ \E S \in SUBSET {i \in DOMAIN jobs : IsNext(i)} :
       \E outcome \in [S -> {"evaluated", "failed"}] : Settle(outcome)

Spec == Init /\ [][Next]_jobs
=============================================================================
