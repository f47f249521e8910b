--------------------------- MODULE KnowledgeOutbox ---------------------------
(***************************************************************************)
(* Draining the knowledge outbox into the vector index: workers lease a    *)
(* window of rows, collapse it to the newest row of each claim, project    *)
(* the removals and then the upserts in one call each, and settle the rows *)
(* one transaction at a time.                                              *)
(*                                                                         *)
(* Code: knowledge/outbox_worker.py, memory/outbox_daemon.py (the loop);   *)
(* the ledger is KnowledgeLedger.  The index (Qdrant) is external: a call  *)
(* applies a batch as a whole, and one that raises may have applied it.    *)
(* No clock is kept: a retry that is backing off and a lease that may have *)
(* expired are due or not due at each claim.                               *)
(***************************************************************************)
EXTENDS KnowledgeLedger

CONSTANTS
  Drainers,        \* processes that drain: the daemon, a release's "drain-all"
  DrainBatch,      \* outbox_batch_size, positive
  DrainAttempts,   \* outbox_max_attempts, positive
  DrainFaults,     \* BOOLEAN: embedding and index calls may fail
  LeasesHold,      \* BOOLEAN: a pass ends before outbox_claim_timeout_s
  MaxDrainCrashes  \* bound on worker crashes

VARIABLES
  index,        \* the vector index: the version stored for a claim, 0 for none
  drainer,      \* the pass each worker is in
  drainCrashes  \* crashes so far

drainVars == <<ledger, index, drainer, drainCrashes>>
undrained == <<documents, imports, verdict, torn>>  \* what a drain leaves alone
-----------------------------------------------------------------------------
Rows == 1..MaxRows

DrainPass ==
  [phase   : {"idle"} \cup Events,     \* the group being projected or settled
   window  : SUBSET Rows,              \* the rows this pass has leased
   tries   : [Rows -> Nat],            \* their attempts as loaded at the lease
   open    : SUBSET Rows,              \* rows of the group still to be settled
   verdict : {"none", "done", "failed"},
   seen    : ClaimRow \cup {Nothing}]  \* the claim as _done has read it

DrainIdle == [phase |-> "idle", window |-> {}, tries |-> [i \in Rows |-> 0],
              open |-> {}, verdict |-> "none", seen |-> Nothing]

DrainInit ==
  /\ LedgerInit
  /\ index = [c \in Claims |-> 0]
  /\ drainer = [w \in Drainers |-> DrainIdle]
  /\ drainCrashes = 0
-----------------------------------------------------------------------------
(* _claim_rows                                                             *)

\* With leases that hold, only the lease of a worker that is gone runs out.
Expirable(i) == LeasesHold => \A w \in Drainers : i \notin drainer[w].window

\* Mutants: rows already done are leased again; rows of a dead worker never are.
EligibleAgain(due) == {i \in DOMAIN queue : queue[i].status \in {"pending", "done"}}
EligibleOnce(due) ==
  {i \in DOMAIN queue : queue[i].status = "pending" /\ (queue[i].attempts = 0 \/ i \in due)}

\* Rows to lease when the rows in due have served their backoff or timeout; a
\* row that has not been tried has no backoff.
Eligible(due) ==
  {i \in DOMAIN queue :
     \/ queue[i].status = "pending" /\ (queue[i].attempts = 0 \/ i \in due)
     \/ queue[i].status = "processing" /\ i \in due /\ Expirable(i)}

\* Mutant: a window takes the newest rows first.
LastOf(S) == {i \in S : Cardinality({j \in S : j >= i}) <= DrainBatch}

FirstOf(S) == {i \in S : Cardinality({j \in S : j <= i}) <= DrainBatch}

\* The rows of a claim in a window, of which the newest stands for all.
Of(window, c) == {i \in window : queue[i].claim = c}
OldestOf(window, c) == CHOOSE i \in Of(window, c) : \A j \in Of(window, c) : i <= j
NewestOf(window, c) == CHOOSE i \in Of(window, c) : \A j \in Of(window, c) : j <= i

Group(window, event) ==
  {i \in window : queue[NewestOf(window, queue[i].claim)].event = event}

\* Removals come before upserts; without rows left the pass is over.
PhaseAfter(phase, window) ==
  IF phase = "idle" /\ Group(window, "delete") # {} THEN "delete"
  ELSE IF phase # "upsert" /\ Group(window, "upsert") # {} THEN "upsert"
  ELSE "idle"

Lease(w, due) ==
  /\ drainer[w].phase = "idle"
  /\ LET window == FirstOf(Eligible(due))
     IN /\ window # {}
        /\ queue' = [i \in DOMAIN queue |->
                       IF i \in window THEN [queue[i] EXCEPT !.status = "processing"]
                       ELSE queue[i]]
        /\ drainer' = [drainer EXCEPT ![w] =
                        [DrainIdle EXCEPT !.phase = PhaseAfter("idle", window), !.window = window,
                                          !.tries = [i \in Rows |-> IF i \in window
                                                       THEN queue[i].attempts ELSE 0]]]
  /\ UNCHANGED <<undrained, claims, index, drainCrashes>>
-----------------------------------------------------------------------------
(* drain_knowledge_outbox                                                  *)

\* One embedding and index call for the whole group.  A call that raises may
\* have reached the index before it failed.
Project(w, ok) ==
  /\ drainer[w].phase # "idle" /\ drainer[w].verdict = "none"
  /\ LET group == Group(drainer[w].window, drainer[w].phase)
         applied == [c \in Claims |->
                       IF Of(group, c) = {} THEN index[c] ELSE queue[NewestOf(group, c)].version]
     IN /\ index' \in {applied} \cup (IF ok THEN {} ELSE {index})
        /\ drainer' = [drainer EXCEPT ![w].open = group,
                                      ![w].verdict = IF ok THEN "done" ELSE "failed"]
  /\ UNCHANGED <<ledger, drainCrashes>>

\* The rows are settled claim by claim, each claim's rows in their order.
Before(window, i, j) ==
  LET first(k) == OldestOf(window, queue[k].claim)
  IN first(i) < first(j) \/ (first(i) = first(j) /\ i <= j)

RowTurn(w, i) ==
  /\ i \in drainer[w].open
  /\ \A j \in drainer[w].open : Before(drainer[w].window, i, j)

\* The pass after row i is settled; after the last row of a group, the next.
Settled(w, i) ==
  LET p == drainer[w]
      next == PhaseAfter(p.phase, p.window)
  IN IF p.open # {i} THEN [p EXCEPT !.open = @ \ {i}, !.seen = Nothing]
     ELSE IF next = "idle" THEN DrainIdle
     ELSE [p EXCEPT !.phase = next, !.open = {}, !.verdict = "none", !.seen = Nothing]

\* _done, first half: the claim is read, without a lock.
ReadClaim(w, i) ==
  /\ RowTurn(w, i) /\ drainer[w].verdict = "done" /\ drainer[w].seen = Nothing
  /\ queue[i].event = "upsert"
  /\ drainer' = [drainer EXCEPT ![w].seen = claims[queue[i].claim]]
  /\ UNCHANGED <<ledger, index, drainCrashes>>

\* Mutant: the version the row was queued for is not compared.
MarkedAny(claim, seen, version) ==
  [claim EXCEPT !.sync = "synced", !.synced = seen.version]

\* The claim as the commit leaves it: only what differs from the claim that
\* was read is written.
Marked(claim, seen, version) ==
  IF seen.version # version THEN claim
  ELSE [claim EXCEPT !.sync = IF seen.sync = "synced" THEN @ ELSE "synced",
                     !.synced = IF seen.synced = version THEN @ ELSE version]

\* _done, second half: row and claim are written and committed.
MarkDone(w, i) ==
  /\ RowTurn(w, i) /\ drainer[w].verdict = "done"
  /\ queue[i].event = "upsert" => drainer[w].seen # Nothing
  /\ LET row == queue[i]
     IN claims' = IF row.event = "delete" THEN claims
                  ELSE [claims EXCEPT ![row.claim] = Marked(@, drainer[w].seen, row.version)]
  /\ queue' = [queue EXCEPT ![i].status = "done"]
  /\ drainer' = [drainer EXCEPT ![w] = Settled(w, i)]
  /\ UNCHANGED <<undrained, index, drainCrashes>>

\* _failed: one more attempt, the last one fails the row and flags the claim.
MarkFailed(w, i) ==
  /\ RowTurn(w, i) /\ drainer[w].verdict = "failed"
  /\ LET attempts == drainer[w].tries[i] + 1
         final == attempts >= DrainAttempts
     IN /\ queue' = [queue EXCEPT ![i].attempts = attempts,
                                  ![i].status = IF final THEN "failed" ELSE "pending"]
        /\ claims' = IF final THEN [claims EXCEPT ![queue[i].claim].sync = "failed"]
                     ELSE claims
  /\ drainer' = [drainer EXCEPT ![w] = Settled(w, i)]
  /\ UNCHANGED <<undrained, index, drainCrashes>>

\* The process dies; the rows it had leased stay in processing.
DrainCrash(w) ==
  /\ drainer[w].phase # "idle" /\ drainCrashes < MaxDrainCrashes
  /\ drainCrashes' = drainCrashes + 1
  /\ drainer' = [drainer EXCEPT ![w] = DrainIdle]
  /\ UNCHANGED <<ledger, index>>

DrainWork(w) ==
  \/ \E due \in SUBSET DOMAIN queue : Lease(w, due)
  \/ \E ok \in (IF DrainFaults THEN BOOLEAN ELSE {TRUE}) : Project(w, ok)
  \/ \E i \in DOMAIN queue : ReadClaim(w, i) \/ MarkDone(w, i) \/ MarkFailed(w, i)

DrainNext ==
  \/ LedgerNext /\ UNCHANGED <<index, drainer, drainCrashes>>
  \/ \E w \in Drainers : DrainWork(w) \/ DrainCrash(w)

DrainSpec == DrainInit /\ [][DrainNext]_drainVars

\* The daemon polls for ever and every call it makes ends.
FairDrainSpec == DrainSpec /\ \A w \in Drainers : WF_drainVars(DrainWork(w))
-----------------------------------------------------------------------------
DrainTypeOK ==
  /\ LedgerTypeOK
  /\ index \in [Claims -> Nat]
  /\ drainer \in [Drainers -> DrainPass]
  /\ drainCrashes \in 0..MaxDrainCrashes

Drained(c) == \A i \in DOMAIN queue : queue[i].claim = c => queue[i].status = "done"

\* "preserving final-state semantics": when everything queued for a claim is
\* done, the index holds what the ledger serves and nothing else.  (Not while an
\* import has overwritten a change of the claim it had not read.)
FinalState ==
  \A c \in Claims : claims[c] # Nothing /\ torn[c] # "open" /\ Drained(c) =>
    index[c] = IF Served(claims[c]) THEN claims[c].version ELSE 0

\* A version recorded as synced and still current is the one in the index, as
\* long as no import has written over what it had not read: from then on two
\* rows of the claim may carry the same version.
SyncedIsIndexed ==
  \A c \in Claims :
    claims[c] # Nothing /\ torn[c] = "no" /\ claims[c].synced = claims[c].version
      => index[c] = claims[c].version

\* A row that is done or has failed for good stays that way.
SettledRowsStay ==
  [][\A i \in DOMAIN queue : queue[i].status \in {"done", "failed"}
                               => queue'[i].status = queue[i].status]_drainVars

AtRest == \A i \in DOMAIN queue : queue[i].status \in {"done", "failed"}

\* Whatever fails or crashes, every row is settled in the end: the outbox, whose
\* rows are bounded, comes to rest whenever it is not.
RowsSettle == ~AtRest ~> AtRest

\* What the index has been told of a claim: its rows that are settled, or whose
\* call has returned.  The newest of them is the point the index has reached.
Told(c) ==
  {i \in DOMAIN queue : /\ queue[i].claim = c
                        /\ \/ queue[i].status = "done"
                           \/ \E w \in Drainers : i \in drainer[w].open}

Reached(c) == IF Told(c) = {} THEN 0 ELSE CHOOSE i \in Told(c) : \A j \in Told(c) : j <= i

Said(i) == [claim |-> queue[i].claim, version |-> queue[i].version]

\* While nothing fails, windows, removals before upserts and collapsed rows do
\* not show: the index follows the ledger's rows claim by claim, never back.
Follower == INSTANCE FollowingIndex WITH
  said <- [i \in DOMAIN queue |-> Said(i)], reached <- [c \in Claims |-> Reached(c)]

IndexFollows == Follower!Spec
=============================================================================
