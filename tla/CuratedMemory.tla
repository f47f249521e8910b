---------------------------- MODULE CuratedMemory ----------------------------
(***************************************************************************)
(* Curated memory: the life of a memory item under status requests and the *)
(* purge, the outbox that mirrors it into the vector index row by row, and *)
(* the retrieval that finds candidates in the index and revalidates them   *)
(* against the table before a prompt sees them.                            *)
(*                                                                         *)
(* Code: memory/curated.py, db/memory_store.py (PostgresMemoryStore),      *)
(* memory/purge.py, memory/outbox_worker.py, memory/retrieval.py,          *)
(* memory/policy.py, memory/context_assembler.py.  The index (Qdrant) is   *)
(* external.  Its payload is never read, so it is the set of its points,   *)
(* and an outbox row carries no payload.  The model has one drainer, the   *)
(* daemon.  No clock is kept: a grace period elapses in a step of its own, *)
(* a backoff or a lease is over or not at each claim.                      *)
(***************************************************************************)
EXTENDS Integers, FiniteSets, Sequences

CONSTANTS
  MemoryItems,       \* ids of memory items
  MemoryTypes,       \* types users file
  MemoryScopes,      \* scopes users file under
  MemoryHandlers,    \* status requests served at the same time
  MemoryBatch,       \* outbox_batch_size
  MemoryMaxAttempts, \* outbox_max_attempts
  MemoryReapBatch,   \* items a pass of the reaper takes at most
  MemoryFetch,       \* candidates a query asks the index for (k * 4)
  MemoryMaxRows,     \* bound on the outbox rows ever written
  MemoryMaxCrashes   \* bound on crashes of the daemon

ASSUME CuratedMemoryAssumption ==
  /\ IsFiniteSet(MemoryHandlers)
  /\ MemoryBatch \in Nat \ {0} /\ MemoryMaxAttempts \in Nat \ {0}
  /\ MemoryReapBatch \in Nat \ {0} /\ MemoryFetch \in Nat
  /\ MemoryMaxRows \in Nat /\ MemoryMaxCrashes \in Nat

VARIABLES
  memoryTable,     \* the row of each item, NoItem before it is filed
  memoryEvents,    \* its audit events: the statuses it was moved to
  memoryOutbox,    \* outbox rows in the order of their ids
  memoryIndex,     \* items that have a point in the index
  memoryRequest,   \* what each status request has read
  memoryPass,      \* the pass the daemon is in
  memoryReaper,    \* the pass of the reaper: the items it has selected
  memoryCrashes,   \* crashes of the daemon so far
  memoryRetrieval, \* the retrieval under way
  memoryStanding   \* history: items not withdrawn at some time since it began

memoryVars == <<memoryTable, memoryEvents, memoryOutbox, memoryIndex, memoryRequest,
                memoryPass, memoryReaper, memoryCrashes, memoryRetrieval, memoryStanding>>
-----------------------------------------------------------------------------
MemoryStatuses == {"candidate", "implicit_context", "confirmed", "rejected",
                   "deprecated", "deleted_pending_purge", "purged"}
MemoryUsages == {"style_only", "ask_clarifying_question_only", "context_only",
                 "case_context_non_authoritative", "never"}

MemoryItem == [type : MemoryTypes, scope : MemoryScopes,
               status : MemoryStatuses \ {"purged"},
               purge : {"unset", "ahead", "elapsed"}]  \* purge_after
NoItem == [type |-> "none", status |-> "none"]         \* never filed
Purged == [type |-> "none", status |-> "purged"]       \* the row is gone again

Stored(i) == memoryTable[i] \notin {NoItem, Purged}

MemoryIdle == [todo |-> {}, tries |-> [n \in 1..MemoryMaxRows |-> 0], call |-> "none"]
MemoryClosed == [item |-> "none"]
NoRetrieval == [open |-> FALSE, left |-> {}, entries |-> {}]

\* _VALID_TRANSITIONS; the purge is not a status action.
ValidTransitions ==
  [s \in MemoryStatuses |->
     CASE s \in {"candidate", "implicit_context"} ->
            {"confirmed", "rejected", "deleted_pending_purge"}
       [] s = "confirmed" -> {"deprecated", "deleted_pending_purge"}
       [] s \in {"rejected", "deprecated"} -> {"deleted_pending_purge"}
       [] OTHER -> {}]

\* Mutant: a deprecated item is still surfaced.
InjectableButRejected(status) ==
  status \notin {"rejected", "deleted_pending_purge", "purged"}

\* NEVER_INJECTABLE_STATUSES
Injectable(status) ==
  status \notin {"rejected", "deprecated", "deleted_pending_purge", "purged"}

MemoryRow(i, event) == [item |-> i, event |-> event, status |-> "pending", attempts |-> 0]

MemoryInit ==
  /\ memoryTable = [i \in MemoryItems |-> NoItem]
  /\ memoryEvents = [i \in MemoryItems |-> <<>>]
  /\ memoryOutbox = <<>>
  /\ memoryIndex = {}
  /\ memoryRequest = [h \in MemoryHandlers |-> MemoryClosed]
  /\ memoryPass = MemoryIdle
  /\ memoryReaper = [batch |-> <<>>, heard |-> [i \in MemoryItems |-> 0]]
  /\ memoryCrashes = 0
  /\ memoryRetrieval = NoRetrieval
  /\ memoryStanding = {}

\* The bound leaves room for n rows and for what open requests and the reaper are
\* about to write.
MemoryRoom(n) ==
  Len(memoryOutbox) + Cardinality({h \in MemoryHandlers : memoryRequest[h] # MemoryClosed})
    + Len(memoryReaper.batch) + n <= MemoryMaxRows

Withdrawn(item) == item.status \in {"rejected", "deprecated", "deleted_pending_purge",
                                    "purged", "none"}

\* The history follows every write of the table while a retrieval is open.
StandingFollows ==
  memoryStanding' = IF memoryRetrieval.open
                    THEN memoryStanding \cup {i \in MemoryItems : ~Withdrawn(memoryTable'[i])}
                    ELSE {}
-----------------------------------------------------------------------------
(* Status requests and the purge.                                          *)

CreateCandidate(i, type, scope) ==
  /\ memoryTable[i] = NoItem /\ MemoryRoom(1)
  /\ memoryTable' = [memoryTable EXCEPT ![i] = [type |-> type, scope |-> scope,
                                                status |-> "candidate", purge |-> "unset"]]
  /\ memoryOutbox' = Append(memoryOutbox, MemoryRow(i, "upsert"))
  /\ StandingFollows
  /\ UNCHANGED <<memoryEvents, memoryIndex, memoryRequest, memoryPass, memoryReaper,
                 memoryCrashes, memoryRetrieval>>

\* transition_status up to the check; the row is read without a lock.
TransitionRead(h, i, status) ==
  /\ memoryRequest[h] = MemoryClosed /\ MemoryRoom(1)
  /\ Stored(i) /\ status \in ValidTransitions[memoryTable[i].status]
  /\ memoryRequest' = [memoryRequest EXCEPT ![h] = [item |-> i, to |-> status]]
  /\ UNCHANGED <<memoryTable, memoryEvents, memoryOutbox, memoryIndex, memoryPass,
                 memoryReaper, memoryCrashes, memoryRetrieval, memoryStanding>>

\* The commit writes the columns the request changed; the update of a row that
\* is gone fails and the transaction is rolled back.
TransitionCommit(h) ==
  LET r == memoryRequest[h]
  IN /\ r # MemoryClosed
     /\ memoryRequest' = [memoryRequest EXCEPT ![h] = MemoryClosed]
     /\ IF Stored(r.item)
        THEN /\ memoryTable' = [memoryTable EXCEPT
                  ![r.item].status = r.to,
                  ![r.item].purge = IF r.to = "deleted_pending_purge" THEN "ahead" ELSE @]
             /\ memoryEvents' = [memoryEvents EXCEPT ![r.item] = Append(@, r.to)]
             /\ memoryOutbox' = Append(memoryOutbox, MemoryRow(r.item, "upsert"))
             /\ StandingFollows
        ELSE UNCHANGED <<memoryTable, memoryEvents, memoryOutbox, memoryStanding>>
     /\ UNCHANGED <<memoryIndex, memoryPass, memoryReaper, memoryCrashes, memoryRetrieval>>

GraceElapses(i) ==
  /\ Stored(i) /\ memoryTable[i].purge = "ahead"
  /\ memoryTable' = [memoryTable EXCEPT ![i].purge = "elapsed"]
  /\ UNCHANGED <<memoryEvents, memoryOutbox, memoryIndex, memoryRequest, memoryPass,
                 memoryReaper, memoryCrashes, memoryRetrieval, memoryStanding>>

\* Mutant: whatever has no purge date ahead is reaped.
ReapableUndated(i) == Stored(i) /\ memoryTable[i].purge # "ahead"

Reapable(i) == Stored(i) /\ memoryTable[i].status = "deleted_pending_purge"
                         /\ memoryTable[i].purge = "elapsed"

\* reap_purge_pending reads the items due, or a full batch of them, without a
\* lock and in the order of their ids (which is open here).  History: how many
\* events each of them had.
ReapSelect(n, batch) ==
  LET due == {i \in MemoryItems : Reapable(i)}
      selected == {batch[k] : k \in 1..n}
  IN /\ memoryReaper.batch = <<>>
     /\ selected \subseteq due /\ (selected = due \/ n = MemoryReapBatch)
     /\ \A k, m \in 1..n : batch[k] = batch[m] => k = m
     /\ MemoryRoom(n)
     /\ memoryReaper' = [batch |-> batch,
          heard |-> [i \in MemoryItems |-> IF i \in selected THEN Len(memoryEvents[i])
                                           ELSE memoryReaper.heard[i]]]
     /\ UNCHANGED <<memoryTable, memoryEvents, memoryOutbox, memoryIndex, memoryRequest,
                    memoryPass, memoryCrashes, memoryRetrieval, memoryStanding>>

\* A transition of the item was committed after the reaper selected it, and its
\* outbox row still waits.
Overtaken(i, n) ==
  /\ memoryOutbox[n].item = i /\ memoryOutbox[n].status = "pending"
  /\ memoryOutbox[n].attempts = 0
  /\ \A o \in DOMAIN memoryOutbox : memoryOutbox[o].item = i => o <= n
  /\ Len(memoryEvents[i]) > memoryReaper.heard[i]

\* The items are deleted by their keys, in one transaction, whatever has become
\* of them meanwhile.  The rows of the items in ahead were written before that
\* of the transition that has overtaken the reaper: their ids are the lower ones.
ReapCommit(ahead) ==
  LET batch == memoryReaper.batch
      selected == {batch[k] : k \in DOMAIN batch}
      Behind(n) == memoryOutbox[n].item \in ahead /\ Overtaken(memoryOutbox[n].item, n)
  IN /\ batch # <<>>
     /\ \A i \in ahead : i \in selected /\ \E n \in DOMAIN memoryOutbox : Overtaken(i, n)
     /\ memoryTable' = [i \in MemoryItems |-> IF i \in selected THEN Purged ELSE memoryTable[i]]
     /\ memoryEvents' = [i \in MemoryItems |->
          IF i \in selected THEN Append(memoryEvents[i], "purged") ELSE memoryEvents[i]]
     /\ memoryOutbox' =
          [n \in DOMAIN memoryOutbox |->
             IF Behind(n) THEN [memoryOutbox[n] EXCEPT !.event = "delete"] ELSE memoryOutbox[n]]
          \o [k \in DOMAIN batch |->
                MemoryRow(batch[k], IF batch[k] \in ahead THEN "upsert" ELSE "delete")]
     /\ memoryReaper' = [memoryReaper EXCEPT !.batch = <<>>]
     /\ StandingFollows
     /\ UNCHANGED <<memoryIndex, memoryRequest, memoryPass, memoryCrashes, memoryRetrieval>>

\* The reaper fails or dies before its commit.
ReapLost ==
  /\ memoryReaper.batch # <<>>
  /\ memoryReaper' = [memoryReaper EXCEPT !.batch = <<>>]
  /\ UNCHANGED <<memoryTable, memoryEvents, memoryOutbox, memoryIndex, memoryRequest,
                 memoryPass, memoryCrashes, memoryRetrieval, memoryStanding>>
-----------------------------------------------------------------------------
(* drain_outbox                                                            *)

\* Mutant: a lease that was lost is never taken over.
MemoryEligibleOnce(due) ==
  {n \in DOMAIN memoryOutbox :
     memoryOutbox[n].status = "pending" /\ (memoryOutbox[n].attempts = 0 \/ n \in due)}

\* A row whose attempt failed waits for its backoff, a leased row for the
\* timeout of the lease; due says for which of them the wait is over.
MemoryEligible(due) ==
  {n \in DOMAIN memoryOutbox :
     \/ memoryOutbox[n].status = "pending" /\ (memoryOutbox[n].attempts = 0 \/ n \in due)
     \/ memoryOutbox[n].status = "processing" /\ n \in due}

MemoryLease(due) ==
  LET leased == {n \in MemoryEligible(due) :
                   Cardinality({o \in MemoryEligible(due) : o <= n}) <= MemoryBatch}
  IN /\ memoryPass = MemoryIdle /\ leased # {}
     /\ memoryOutbox' = [n \in DOMAIN memoryOutbox |->
          IF n \in leased THEN [memoryOutbox[n] EXCEPT !.status = "processing"]
          ELSE memoryOutbox[n]]
     /\ memoryPass' = [MemoryIdle EXCEPT !.todo = leased,
          !.tries = [n \in 1..MemoryMaxRows |->
                       IF n \in leased THEN memoryOutbox[n].attempts ELSE 0]]
     /\ UNCHANGED <<memoryTable, memoryEvents, memoryIndex, memoryRequest, memoryReaper,
                    memoryCrashes, memoryRetrieval, memoryStanding>>

MemoryTurn == CHOOSE n \in memoryPass.todo : \A o \in memoryPass.todo : n <= o

\* Mutant: a delete row is projected like any other.
ProjectedAnyway(index, row) == index \cup {row.item}

Projected(index, row) ==
  IF row.event = "delete" THEN index \ {row.item} ELSE index \cup {row.item}

\* One call per row; a call that raises may have reached the index.
MemoryProject(ok) ==
  /\ memoryPass.todo # {} /\ memoryPass.call = "none"
  /\ memoryIndex' \in {Projected(memoryIndex, memoryOutbox[MemoryTurn])}
                        \cup (IF ok THEN {} ELSE {memoryIndex})
  /\ memoryPass' = [memoryPass EXCEPT !.call = IF ok THEN "done" ELSE "failed"]
  /\ UNCHANGED <<memoryTable, memoryEvents, memoryOutbox, memoryRequest, memoryReaper,
                 memoryCrashes, memoryRetrieval, memoryStanding>>

\* _mark_done, _mark_retry_or_failed
MemorySettled(row, call, tries) ==
  IF call = "done" THEN [row EXCEPT !.status = "done"]
  ELSE [row EXCEPT !.attempts = tries + 1,
                   !.status = IF tries + 1 >= MemoryMaxAttempts THEN "failed" ELSE "pending"]

MemoryMark ==
  /\ memoryPass.call # "none"
  /\ memoryOutbox' = [memoryOutbox EXCEPT
       ![MemoryTurn] = MemorySettled(@, memoryPass.call, memoryPass.tries[MemoryTurn])]
  /\ memoryPass' = IF memoryPass.todo = {MemoryTurn} THEN MemoryIdle
                   ELSE [memoryPass EXCEPT !.todo = @ \ {MemoryTurn}, !.call = "none",
                                           !.tries[MemoryTurn] = 0]
  /\ UNCHANGED <<memoryTable, memoryEvents, memoryIndex, memoryRequest, memoryReaper,
                 memoryCrashes, memoryRetrieval, memoryStanding>>

\* The daemon dies and is restarted; what it had leased stays in processing.
MemoryCrash ==
  /\ memoryPass # MemoryIdle /\ memoryCrashes < MemoryMaxCrashes
  /\ memoryCrashes' = memoryCrashes + 1
  /\ memoryPass' = MemoryIdle
  /\ UNCHANGED <<memoryTable, memoryEvents, memoryOutbox, memoryIndex, memoryRequest,
                 memoryReaper, memoryRetrieval, memoryStanding>>
-----------------------------------------------------------------------------
(* Retrieval for a prompt.                                                 *)

\* usage_for
Usage(item) ==
  CASE ~Injectable(item.status) -> "never"
    [] item.status = "implicit_context" -> "ask_clarifying_question_only"
    [] item.type = "case_parameter" ->
         IF item.status = "confirmed" /\ item.scope = "case"
         THEN "case_context_non_authoritative" ELSE "never"
    [] item.type = "preference" -> "style_only"
    [] item.type = "technical_note" -> "context_only"
    [] OTHER -> "never"

\* The index answers with the nearest points, whichever these are.
Query(found) ==
  /\ ~memoryRetrieval.open
  /\ found \subseteq memoryIndex
  /\ Cardinality(found) <= MemoryFetch
  /\ found = memoryIndex \/ Cardinality(found) = MemoryFetch
  /\ memoryRetrieval' = [open |-> TRUE, left |-> found, entries |-> {}]
  /\ memoryStanding' = {i \in MemoryItems : ~Withdrawn(memoryTable[i])}
  /\ UNCHANGED <<memoryTable, memoryEvents, memoryOutbox, memoryIndex, memoryRequest,
                 memoryPass, memoryReaper, memoryCrashes>>

\* revalidate reads the items one by one; what the policy allows of them goes
\* into the bundle (the limits on entries and tokens only shorten it).
Revalidate(i) ==
  /\ i \in memoryRetrieval.left
  /\ LET item == memoryTable[i]
         valid == Stored(i) /\ Injectable(item.status) /\ item.purge # "elapsed"
         usage == IF valid THEN Usage(item) ELSE "never"
     IN memoryRetrieval' = [memoryRetrieval EXCEPT !.left = @ \ {i},
          !.entries = IF usage = "never" THEN @ ELSE @ \cup {[item |-> i, usage |-> usage]}]
  /\ UNCHANGED <<memoryTable, memoryEvents, memoryOutbox, memoryIndex, memoryRequest,
                 memoryPass, memoryReaper, memoryCrashes, memoryStanding>>

\* The bundle is rendered, or an error of the lookup leaves an empty one.
Assemble ==
  /\ memoryRetrieval.open
  /\ memoryRetrieval' = NoRetrieval
  /\ memoryStanding' = {}
  /\ UNCHANGED <<memoryTable, memoryEvents, memoryOutbox, memoryIndex, memoryRequest,
                 memoryPass, memoryReaper, memoryCrashes>>
-----------------------------------------------------------------------------
MemoryRequestStep ==
  \/ \E i \in MemoryItems :
       \/ \E type \in MemoryTypes, scope \in MemoryScopes : CreateCandidate(i, type, scope)
       \/ \E h \in MemoryHandlers, status \in MemoryStatuses : TransitionRead(h, i, status)
       \/ GraceElapses(i)
  \/ \E h \in MemoryHandlers : TransitionCommit(h)
  \/ \E n \in 1..MemoryReapBatch : \E batch \in [1..n -> MemoryItems] : ReapSelect(n, batch)
  \/ \E ahead \in SUBSET MemoryItems : ReapCommit(ahead)
  \/ ReapLost

MemoryDrain ==
  \/ \E due \in SUBSET DOMAIN memoryOutbox : MemoryLease(due)
  \/ \E ok \in BOOLEAN : MemoryProject(ok)
  \/ MemoryMark

MemoryRead ==
  \/ \E found \in SUBSET MemoryItems : Query(found)
  \/ \E i \in MemoryItems : Revalidate(i)
  \/ Assemble

MemoryNext == MemoryRequestStep \/ MemoryDrain \/ MemoryCrash \/ MemoryRead

MemorySpec == MemoryInit /\ [][MemoryNext]_memoryVars
-----------------------------------------------------------------------------
MemoryTypeOK ==
  /\ memoryTable \in [MemoryItems -> MemoryItem \cup {NoItem, Purged}]
  /\ memoryEvents \in [MemoryItems -> Seq(MemoryStatuses)]
  /\ memoryOutbox \in Seq([item : MemoryItems, event : {"upsert", "delete"},
                           status : {"pending", "processing", "done", "failed"},
                           attempts : 0..MemoryMaxAttempts])
  /\ memoryIndex \subseteq MemoryItems
  /\ memoryRequest \in [MemoryHandlers -> [item : MemoryItems, to : MemoryStatuses]
                                            \cup {MemoryClosed}]
  /\ memoryPass \in [todo : SUBSET DOMAIN memoryOutbox,
                     tries : [1..MemoryMaxRows -> 0..MemoryMaxAttempts],
                     call : {"none", "done", "failed"}]
  /\ memoryReaper \in [batch : Seq(MemoryItems), heard : [MemoryItems -> Nat]]
  /\ memoryCrashes \in 0..MemoryMaxCrashes
  /\ memoryRetrieval \in [open : BOOLEAN, left : SUBSET MemoryItems,
                          entries : SUBSET [item : MemoryItems, usage : MemoryUsages]]
  /\ memoryStanding \subseteq MemoryItems

\* "every Qdrant result is re-checked against LIVE Postgres before it may ever
\* reach a prompt": however stale the index is, an item that was rejected,
\* deprecated, deleted or purged when the query began, and all the time since,
\* is not in the bundle.
RetrievalSafe == \A e \in memoryRetrieval.entries : e.item \in memoryStanding

\* When all rows of an item are done, its point is in the index if the item is
\* stored, even after failed calls and crashes; the point of a purged item is
\* gone, unless a row of it was retried, the daemon crashed on the way, or a
\* transition that overtook the reaper left a row behind the removal.
IndexSettles ==
  \A i \in MemoryItems :
    LET rows == {n \in DOMAIN memoryOutbox : memoryOutbox[n].item = i}
    IN (\A n \in rows : memoryOutbox[n].status = "done") =>
         /\ Stored(i) => i \in memoryIndex
         /\ memoryTable[i] = Purged /\ (\A n \in rows : memoryOutbox[n].attempts = 0)
              /\ (\E n \in rows : memoryOutbox[n].event = "delete" /\ \A o \in rows : o <= n)
              /\ memoryCrashes = 0 => i \notin memoryIndex

\* Only an item whose deletion was the last word on it when the reaper selected
\* it is purged, though a confirmation may have overtaken the deletion before,
\* or the reaper since.
PurgedWasDeleted ==
  \A i \in MemoryItems : memoryTable[i] = Purged =>
    LET heard == memoryReaper.heard[i]
    IN heard \in DOMAIN memoryEvents[i] /\ memoryEvents[i][heard] = "deleted_pending_purge"

MemoryAtRest ==
  \A n \in DOMAIN memoryOutbox : memoryOutbox[n].status \in {"done", "failed"}

\* Whatever fails or crashes, every row is projected or given up in the end: the
\* outbox, whose rows are bounded, comes to rest whenever it is not.
MemoryRowsSettle == ~MemoryAtRest ~> MemoryAtRest

\* "DELETED_PENDING_PURGE/PURGED are terminal from the status-action API's
\* perspective": an item that was deleted stays deleted until it is purged.
DeletionStands ==
  [][\A i \in MemoryItems : memoryTable[i].status = "deleted_pending_purge"
       => memoryTable'[i].status \in {"deleted_pending_purge", "purged"}]_memoryTable
=============================================================================
