---------------------------- MODULE ShadowOutbox ----------------------------
(***************************************************************************)
(* The durable outbox of the material-ruleset shadow: jobs captured under  *)
(* a session version, leased, evaluated and settled by isolated workers.   *)
(*                                                                         *)
(* Code: material_shadow/worker.py (MaterialShadowWorker),                 *)
(* db/material_shadow.py (persist_pin_and_job, terminate_binding).  Every  *)
(* database transaction is one step; a worker may be interrupted between   *)
(* any two.  No clock is kept: the backoff of a pending job and the lease  *)
(* of a processing one run out at some moment, when the row turns "ripe".  *)
(* What a pass may know of revocations is fixed when the pass begins,      *)
(* because drain_once takes its time once.                                 *)
(***************************************************************************)
EXTENDS Integers, FiniteSets, Sequences

CONSTANTS
  Sessions,     \* sessions (tenant and session reference)
  Bindings,     \* bindings a capture may run under
  Workers,      \* worker identities, one live process each
  NoWorker,     \* lease_owner is NULL
  MaxAttempts,  \* max_attempts
  BatchSize,    \* batch_size of drain_once
  Faults,       \* cache, ruleset or database errors may end an evaluation
  MaxJobs,      \* bound on the jobs ever captured
  MaxCrashes    \* bound on worker crashes

ASSUME ShadowOutboxAssumption ==
  /\ NoWorker \notin Workers
  /\ MaxAttempts \in Nat \ {0} /\ BatchSize \in Nat \ {0}
  /\ Faults \in BOOLEAN
  /\ MaxJobs \in Nat /\ MaxCrashes \in Nat

VARIABLES
  versions,     \* V2MaterialShadowSessionVersion rows: session and frozen binding
  outbox,       \* V2MaterialShadowOutbox rows, in the order of their creation
  evaluations,  \* V2MaterialShadowEvaluation rows: job and the attempt that wrote it
  revoked,      \* bindings with an effective REVOKED or TERMINATED event
  worker,       \* what each worker has in hand
  crashes       \* crashes so far

vars == <<versions, outbox, evaluations, revoked, worker, crashes>>
-----------------------------------------------------------------------------
Job == [version  : Nat \ {0},            \* session_version_id
        status   : {"pending", "processing", "done", "failed"},
        attempts : 0..MaxAttempts,
        owner    : Workers \cup {NoWorker},
        ripe     : BOOLEAN]              \* next_attempt_at, lease_expires_at <= now

Version == [session : Sessions, binding : Bindings]

Pass == [batch : SUBSET Nat,             \* jobs leased by this pass, not yet handled
         known : SUBSET Bindings]        \* bindings revoked when the pass began

Init ==
  /\ versions = <<>> /\ outbox = <<>> /\ evaluations = {} /\ revoked = {}
  /\ worker = [w \in Workers |-> [batch |-> {}, known |-> {}]]
  /\ crashes = 0
-----------------------------------------------------------------------------
(* Capture and revocation.                                                 *)

\* The head of the session's chain of versions, 0 when it has none.
IsHead(v, s) ==
  IF \E u \in DOMAIN versions : versions[u].session = s
  THEN /\ v \in DOMAIN versions /\ versions[v].session = s
       /\ \A u \in DOMAIN versions : versions[u].session = s => u <= v
  ELSE v = 0

Captured(version) ==
  outbox' = Append(outbox, [version |-> version, status |-> "pending", attempts |-> 0,
                            owner |-> NoWorker, ripe |-> TRUE])

\* Pin, session version and job in one transaction.  A session is frozen to
\* its binding: another one takes an explicit upgrade, a version of its own.
\* (A capture that was made before is answered from its row.)  The binding is
\* looked up as of the caller's acquired_at, so one revoked since then passes.
PersistPinAndJob(s, b) ==
  /\ Len(outbox) < MaxJobs
  /\ \E head \in 0..Len(versions) :
       /\ IsHead(head, s)
       /\ IF head # 0 /\ versions[head].binding = b
          THEN Captured(head) /\ UNCHANGED versions
          ELSE /\ versions' = Append(versions, [session |-> s, binding |-> b])
               /\ Captured(Len(versions) + 1)
  /\ UNCHANGED <<evaluations, revoked, worker, crashes>>

TerminateBinding(b) ==
  /\ b \notin revoked
  /\ revoked' = revoked \cup {b}
  /\ UNCHANGED <<versions, outbox, evaluations, worker, crashes>>
-----------------------------------------------------------------------------
(* _claim                                                                  *)

Unfinished(i) == outbox[i].status \in {"pending", "processing"}

\* Mutant: the attempt bound is tested strictly.
ExhaustedLate(i) ==
  outbox[i].status = "processing" /\ outbox[i].ripe /\ outbox[i].attempts > MaxAttempts

\* Leases that ran out at the attempt bound are failed before anything else.
Exhausted(i) ==
  outbox[i].status = "processing" /\ outbox[i].ripe /\ outbox[i].attempts >= MaxAttempts

\* Mutants: a claim overtakes a job in work, or takes one whose lease runs.
ClaimableOvertaking(i) ==
  /\ Unfinished(i) /\ outbox[i].ripe /\ outbox[i].attempts < MaxAttempts
  /\ \A j \in 1..(i - 1) :
       outbox[j].version = outbox[i].version => outbox[j].status # "pending"
ClaimableEarly(i) ==
  /\ Unfinished(i) /\ outbox[i].attempts < MaxAttempts
  /\ \A j \in 1..(i - 1) :
       outbox[j].version = outbox[i].version => ~Unfinished(j) \/ Exhausted(j)

\* A job waits for the earlier jobs of its session version; one that this
\* very claim gives up no longer counts.
Claimable(i) ==
  /\ Unfinished(i) /\ outbox[i].ripe /\ outbox[i].attempts < MaxAttempts
  /\ \A j \in 1..(i - 1) :
       outbox[j].version = outbox[i].version => ~Unfinished(j) \/ Exhausted(j)

GivenUp(row) == [row EXCEPT !.status = "failed", !.owner = NoWorker, !.ripe = FALSE]

\* Mutant: taking over an expired lease costs no attempt.
LeasedFree(row, w) ==
  [row EXCEPT !.status = "processing", !.owner = w, !.ripe = FALSE,
              !.attempts = IF row.status = "pending" THEN @ + 1 ELSE @]

Leased(row, w) ==
  [row EXCEPT !.status = "processing", !.attempts = @ + 1, !.owner = w, !.ripe = FALSE]

Claim(w) ==
  /\ worker[w].batch = {}
  /\ \E batch \in SUBSET {i \in DOMAIN outbox : Claimable(i)} :
       /\ Cardinality(batch) <= BatchSize
       /\ Cardinality(batch) < BatchSize => \A i \in DOMAIN outbox : Claimable(i) => i \in batch
       /\ batch # {} \/ \E i \in DOMAIN outbox : Exhausted(i)
       /\ outbox' = [i \in DOMAIN outbox |-> IF Exhausted(i) THEN GivenUp(outbox[i])
                                             ELSE IF i \in batch THEN Leased(outbox[i], w)
                                             ELSE outbox[i]]
       /\ worker' = [worker EXCEPT ![w] = [batch |-> batch, known |-> revoked]]
  /\ UNCHANGED <<versions, evaluations, revoked, crashes>>
-----------------------------------------------------------------------------
(* drain_once, one job after the other.                                    *)

Inactive(w, i) == versions[outbox[i].version].binding \in worker[w].known

\* The fence of _complete and _fail: still processing, still mine, unexpired.
Holds(w, i) ==
  outbox[i].status = "processing" /\ outbox[i].owner = w /\ ~outbox[i].ripe

Handled(w, i) == worker' = [worker EXCEPT ![w].batch = @ \ {i}]

Complete(w, i) ==
  /\ i \in worker[w].batch /\ Holds(w, i) /\ ~Inactive(w, i)
  /\ evaluations' = IF \E e \in evaluations : e.job = i THEN evaluations
                    ELSE evaluations \cup {[job |-> i, attempt |-> outbox[i].attempts]}
  /\ outbox' = [outbox EXCEPT ![i] = [@ EXCEPT !.status = "done", !.owner = NoWorker]]
  /\ Handled(w, i)
  /\ UNCHANGED <<versions, revoked, crashes>>

\* An inactive binding, a missing key and a drifted snapshot are terminal.
Fail(w, i, terminal) ==
  /\ i \in worker[w].batch /\ Holds(w, i)
  /\ (Inactive(w, i) /\ terminal) \/ Faults
  /\ outbox' = [outbox EXCEPT ![i] =
                  IF terminal \/ @.attempts >= MaxAttempts THEN GivenUp(@)
                  ELSE [@ EXCEPT !.status = "pending", !.owner = NoWorker]]
  /\ Handled(w, i)
  /\ UNCHANGED <<versions, evaluations, revoked, crashes>>

\* ShadowLeaseLost, and _fail answers None: somebody else has the job.
LeaseLost(w, i) ==
  /\ i \in worker[w].batch /\ ~Holds(w, i)
  /\ Handled(w, i)
  /\ UNCHANGED <<versions, outbox, evaluations, revoked, crashes>>

Crash(w) ==
  /\ worker[w].batch # {} /\ crashes < MaxCrashes
  /\ crashes' = crashes + 1
  /\ worker' = [worker EXCEPT ![w].batch = {}]
  /\ UNCHANGED <<versions, outbox, evaluations, revoked>>

\* Time passes: a backoff or a lease runs out.
Ripen(i) ==
  /\ Unfinished(i) /\ ~outbox[i].ripe
  /\ outbox' = [outbox EXCEPT ![i].ripe = TRUE]
  /\ UNCHANGED <<versions, evaluations, revoked, worker, crashes>>

Handle(w) ==
  \E i \in worker[w].batch :
    \/ Complete(w, i) \/ LeaseLost(w, i)
    \/ \E terminal \in BOOLEAN : Fail(w, i, terminal)

Work(w) == Claim(w) \/ Handle(w)

Next ==
  \/ \E s \in Sessions, b \in Bindings : PersistPinAndJob(s, b)
  \/ \E b \in Bindings : TerminateBinding(b)
  \/ \E w \in Workers : Work(w) \/ Crash(w)
  \/ \E i \in DOMAIN outbox : Ripen(i)

Spec == Init /\ [][Next]_vars

\* Workers are called again and again, and time passes.
FairSpec ==
  /\ Spec
  /\ \A w \in Workers : WF_vars(Work(w))
  /\ \A i \in 1..MaxJobs : WF_vars(i \in DOMAIN outbox /\ Ripen(i))
-----------------------------------------------------------------------------
\* The CHECK constraint on a row's lease.
LeaseState(row) ==
  /\ row.status = "processing" => row.owner # NoWorker /\ row.attempts > 0
  /\ row.status # "processing" => row.owner = NoWorker

\* The update trigger of the outbox table: finished rows are immutable, and
\* an attempt is consumed by a claim and by nothing else.
RowGuard(old, new) ==
  /\ new.version = old.version
  /\ old.status \in {"done", "failed"} => new = old
  /\ new.attempts \in {old.attempts, old.attempts + 1}
  /\ new.status = "processing" => new.attempts = old.attempts + 1 /\ new.owner # NoWorker
  /\ new.status # "processing" => new.attempts = old.attempts /\ new.owner = NoWorker

\* Every row has the shape its columns and the CHECK constraint allow.
TypeOK ==
  /\ versions \in Seq(Version)
  /\ outbox \in Seq(Job)
  /\ evaluations \subseteq [job : Nat, attempt : Nat]
  /\ revoked \subseteq Bindings
  /\ worker \in [Workers -> Pass] /\ \A w \in Workers : worker[w].batch \subseteq DOMAIN outbox
  /\ crashes \in 0..MaxCrashes
  /\ \A i \in DOMAIN outbox : LeaseState(outbox[i])

\* What the ADR promises: the rows, read as ShadowSettlement's jobs, follow
\* it.  A job is "evaluated" when it is done with exactly one evaluation and
\* "failed" or "open" only without any.
EvaluationsOf(i) == {e \in evaluations : e.job = i}

Outcome(i) ==
  IF EvaluationsOf(i) = {} /\ Unfinished(i) THEN "open"
  ELSE IF EvaluationsOf(i) = {} /\ outbox[i].status = "failed" THEN "failed"
  ELSE IF (\E e \in evaluations : EvaluationsOf(i) = {e}) /\ outbox[i].status = "done" THEN "evaluated"
  ELSE "torn"

Jobs == [i \in DOMAIN outbox |-> [version |-> outbox[i].version, outcome |-> Outcome(i)]]

Settlement == INSTANCE ShadowSettlement WITH jobs <- Jobs

SettlesInOrder == Settlement!Spec

\* "Completion and failure require the same unexpired owner lease": while a
\* worker's lease on a job has not run out, nobody but that worker handling
\* the job touches its row.
LeaseRespected ==
  [][\A w \in Workers, i \in DOMAIN outbox :
       Holds(w, i) /\ outbox'[i] # outbox[i] =>
         \/ outbox'[i] = [outbox[i] EXCEPT !.ripe = TRUE]
         \/ i \in worker[w].batch \ worker'[w].batch]_vars

\* The trigger never rejects what the worker writes: a rejected row would roll
\* back the whole claim, the same one on every pass.
GuardAccepts ==
  [][\A i \in DOMAIN outbox :
       outbox'[i] \notin {outbox[i], [outbox[i] EXCEPT !.ripe = TRUE]} =>
         RowGuard(outbox[i], outbox'[i])]_vars

\* Every captured job is settled in the end: no session is blocked for ever
\* by an earlier job.
JobsSettle == \A i \in 1..MaxJobs : i \in DOMAIN outbox ~> i \in DOMAIN outbox /\ ~Unfinished(i)
=============================================================================
