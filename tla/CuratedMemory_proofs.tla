------------------------ MODULE CuratedMemory_proofs ------------------------
(***************************************************************************)
(* Proofs about CuratedMemory, for any items, any number of requests at    *)
(* the same time, any batch sizes, any number of attempts and crashes.     *)
(***************************************************************************)
EXTENDS CuratedMemory, FiniteSetTheorems, WellFoundedInduction, TLAPS

OutboxRow == [item : MemoryItems, event : {"upsert", "delete"},
              status : {"pending", "processing", "done", "failed"},
              attempts : 0..MemoryMaxAttempts]
OutboxIds == 1..Len(memoryOutbox)
OpenRequests == {h \in MemoryHandlers : memoryRequest[h] # MemoryClosed}

\* The items the reaper has selected.
Selected == {memoryReaper.batch[k] : k \in 1..Len(memoryReaper.batch)}

\* Every open request, and every item selected, will find room for its row.
RowsFit == Len(memoryOutbox) + Cardinality(OpenRequests) + Len(memoryReaper.batch)
             <= MemoryMaxRows

\* No request purges an item.
RequestsMove ==
  \A h \in OpenRequests :
    memoryRequest[h].to \in {"confirmed", "rejected", "deprecated", "deleted_pending_purge"}

\* A row that may be tried has an attempt left; one that was given up was tried.
AttemptsLeft ==
  \A n \in OutboxIds :
    /\ memoryOutbox[n].status \in {"pending", "processing"}
         => memoryOutbox[n].attempts < MemoryMaxAttempts
    /\ memoryOutbox[n].status = "failed" => memoryOutbox[n].attempts > 0

\* The daemon works on rows in processing and knows their attempts.
PassHolds ==
  /\ memoryPass.call # "none" => memoryPass.todo # {}
  /\ \A n \in memoryPass.todo : /\ memoryOutbox[n].status = "processing"
                                /\ memoryPass.tries[n] = memoryOutbox[n].attempts

MemoryTypeInv == MemoryTypeOK /\ RowsFit /\ RequestsMove /\ AttemptsLeft /\ PassHolds
-----------------------------------------------------------------------------
(* Rows are appended or rewritten in place.                                *)

\* Appending keeps the rows there are and adds the others behind them.
LEMMA Extended ==
  ASSUME NEW R, NEW s \in Seq(R), NEW e \in Seq(R), NEW t, t = s \o e
  PROVE  /\ t \in Seq(R) /\ Len(t) = Len(s) + Len(e)
         /\ \A n \in 1..Len(s) : t[n] = s[n]
         /\ \A n \in (Len(s) + 1)..Len(t) : n - Len(s) \in 1..Len(e) /\ t[n] = e[n - Len(s)]
OBVIOUS

\* One row more.
LEMMA OneMore ==
  ASSUME NEW R, NEW s \in Seq(R), NEW x \in R, NEW t, t = Append(s, x)
  PROVE  /\ t \in Seq(R) /\ Len(t) = Len(s) + 1 /\ t[Len(s) + 1] = x
         /\ \A n \in 1..Len(s) : t[n] = s[n]
OBVIOUS

\* Appending one element is appending the sequence of it.
LEMMA OneBehind ==
  ASSUME NEW R, NEW s \in Seq(R), NEW x \in R, NEW e, e = <<x>>
  PROVE  Append(s, x) = s \o e
OBVIOUS

\* The same number of rows, each of its type.
LEMMA Rewritten ==
  ASSUME NEW R, NEW s \in Seq(R), NEW t, DOMAIN t = DOMAIN s, t = [n \in DOMAIN s |-> t[n]],
         \A n \in 1..Len(s) : t[n] \in R
  PROVE  t \in Seq(R) /\ Len(t) = Len(s)
<1>1. Len(s) \in Nat /\ DOMAIN s = 1..Len(s)
  OBVIOUS
<1>2. t \in [1..Len(s) -> R]
  BY <1>1
<1> QED BY <1>1, <1>2

\* A set of natural numbers has a least one.
LEMMA Least ==
  ASSUME NEW S \in SUBSET Nat, S # {}
  PROVE  \E n \in S : \A o \in S : n <= o
<1>1. PICK n \in S : \A o \in S : ~(<<o, n>> \in OpToRel(<, Nat))
  BY WFMin, NatLessThanWellFounded
<1>2. OpToRel(<, Nat) = {ss \in Nat \X Nat : ss[1] < ss[2]}
  BY DEF OpToRel
<1>3. ASSUME NEW o \in S PROVE n <= o
  <2>1. <<o, n>> \notin {ss \in Nat \X Nat : ss[1] < ss[2]}
    BY <1>1, <1>2
  <2> QED BY <2>1
<1> QED BY <1>3

\* The daemon's turn is the first row it has left to do.
LEMMA TurnIsFirst ==
  ASSUME MemoryTypeOK, memoryPass.todo # {}
  PROVE  /\ MemoryTurn \in memoryPass.todo
         /\ \A n \in memoryPass.todo : MemoryTurn <= n
<1>1. memoryPass.todo \in SUBSET Nat
  BY DEF MemoryTypeOK
<1>2. \E n \in memoryPass.todo : \A o \in memoryPass.todo : n <= o
  BY <1>1, Least
<1> QED BY <1>2 DEF MemoryTurn

\* The open requests can be counted.
LEMMA OpenCount ==
  ASSUME NEW S \in SUBSET MemoryHandlers
  PROVE  /\ Cardinality(S) \in Nat
         /\ \A h \in MemoryHandlers \ S : Cardinality(S \cup {h}) = Cardinality(S) + 1
         /\ \A h \in S : Cardinality(S \ {h}) = Cardinality(S) - 1
<1>1. IsFiniteSet(S)
  BY CuratedMemoryAssumption, FS_Subset
<1> QED BY <1>1, FS_CardinalityType, FS_AddElement, FS_RemoveElement

\* A record that is filed is neither the absent nor the purged one, and an open
\* request is not a closed one.
LEMMA RecordsDiffer ==
  /\ \A x \in MemoryItem : x # NoItem /\ x # Purged
  /\ \A r \in [item : MemoryItems, to : MemoryStatuses] : r # MemoryClosed
  /\ NoItem # Purged
<1>1. ASSUME NEW x \in MemoryItem PROVE x # NoItem /\ x # Purged
  <2>1. "purge" \in DOMAIN x /\ "purge" \notin DOMAIN NoItem /\ "purge" \notin DOMAIN Purged
    BY DEF MemoryItem, NoItem, Purged
  <2> QED BY <2>1
<1>2. ASSUME NEW r \in [item : MemoryItems, to : MemoryStatuses] PROVE r # MemoryClosed
  <2>1. "to" \in DOMAIN r /\ "to" \notin DOMAIN MemoryClosed
    BY DEF MemoryClosed
  <2> QED BY <2>1
<1>3. NoItem # Purged
  BY DEF NoItem, Purged
<1> QED BY <1>1, <1>2, <1>3
-----------------------------------------------------------------------------
(* Types.                                                                  *)

\* What the type invariant says of rows and pass, without the DOMAIN.
LEMMA OutboxShape ==
  ASSUME MemoryTypeOK
  PROVE  /\ memoryOutbox \in Seq(OutboxRow) /\ Len(memoryOutbox) \in Nat
         /\ DOMAIN memoryOutbox = OutboxIds
         /\ \A n \in OutboxIds : memoryOutbox[n] \in OutboxRow
         /\ memoryPass.todo \subseteq OutboxIds
         /\ memoryPass.tries \in [1..MemoryMaxRows -> 0..MemoryMaxAttempts]
         /\ memoryPass.call \in {"none", "done", "failed"}
<1>1. memoryOutbox \in Seq(OutboxRow)
  BY DEF MemoryTypeOK, OutboxRow
<1>2. Len(memoryOutbox) \in Nat /\ DOMAIN memoryOutbox = OutboxIds
  BY <1>1 DEF OutboxIds
<1>3. \A n \in OutboxIds : memoryOutbox[n] \in OutboxRow
  BY <1>1 DEF OutboxIds
<1>4. /\ memoryPass.todo \in SUBSET DOMAIN memoryOutbox
      /\ memoryPass.tries \in [1..MemoryMaxRows -> 0..MemoryMaxAttempts]
      /\ memoryPass.call \in {"none", "done", "failed"}
  BY DEF MemoryTypeOK
<1> QED BY <1>1, <1>2, <1>3, <1>4

\* What the type invariant says of the reaper.
LEMMA ReaperShape ==
  ASSUME MemoryTypeOK
  PROVE  /\ memoryReaper.batch \in Seq(MemoryItems) /\ Len(memoryReaper.batch) \in Nat
         /\ DOMAIN memoryReaper.batch = 1..Len(memoryReaper.batch)
         /\ memoryReaper.heard \in [MemoryItems -> Nat]
         /\ Selected \subseteq MemoryItems
         /\ memoryReaper = [batch |-> memoryReaper.batch, heard |-> memoryReaper.heard]
<1>1. /\ memoryReaper.batch \in Seq(MemoryItems) /\ memoryReaper.heard \in [MemoryItems -> Nat]
      /\ memoryReaper = [batch |-> memoryReaper.batch, heard |-> memoryReaper.heard]
  BY DEF MemoryTypeOK
<1>2. /\ Len(memoryReaper.batch) \in Nat
      /\ DOMAIN memoryReaper.batch = 1..Len(memoryReaper.batch)
      /\ \A k \in 1..Len(memoryReaper.batch) : memoryReaper.batch[k] \in MemoryItems
  BY <1>1
<1> QED BY <1>1, <1>2 DEF Selected

\* The rows fit into the bound.
LEMMA WithinBound ==
  ASSUME MemoryTypeInv
  PROVE  Len(memoryOutbox) \in 0..MemoryMaxRows
<1>1. Cardinality(OpenRequests) \in Nat
  BY OpenCount DEF OpenRequests
<1>2. Len(memoryOutbox) \in Nat /\ Len(memoryReaper.batch) \in Nat
  BY OutboxShape, ReaperShape DEF MemoryTypeInv
<1> QED BY <1>1, <1>2, CuratedMemoryAssumption DEF MemoryTypeInv, RowsFit

\* A row that is written for the first time.
LEMMA FreshRow ==
  ASSUME NEW i \in MemoryItems, NEW event \in {"upsert", "delete"}
  PROVE  /\ MemoryRow(i, event) \in OutboxRow
         /\ MemoryRow(i, event).item = i /\ MemoryRow(i, event).event = event
         /\ MemoryRow(i, event).status = "pending" /\ MemoryRow(i, event).attempts = 0
BY CuratedMemoryAssumption DEF MemoryRow, OutboxRow

\* The rows as they are, or rewritten in place: all that may change of a row is
\* its event, and only while it waits.
SameButEvents(rows) ==
  /\ Len(rows) = Len(memoryOutbox)
  /\ \A n \in OutboxIds :
       /\ rows[n].item = memoryOutbox[n].item /\ rows[n].status = memoryOutbox[n].status
       /\ rows[n].attempts = memoryOutbox[n].attempts
       /\ memoryOutbox[n].status # "pending" => rows[n].event = memoryOutbox[n].event

\* Most steps leave the rows as they are.
LEMMA SameRows ==
  ASSUME MemoryTypeInv
  PROVE  memoryOutbox \in Seq(OutboxRow) /\ SameButEvents(memoryOutbox)
BY OutboxShape DEF MemoryTypeInv, SameButEvents

\* Fresh rows behind the others leave the pass and the attempts as they are.
LEMMA FreshRowsKeepPass ==
  ASSUME MemoryTypeInv, NEW rows \in Seq(OutboxRow), SameButEvents(rows),
         NEW e \in Seq(OutboxRow), memoryOutbox' = rows \o e,
         \A k \in 1..Len(e) : e[k].status = "pending" /\ e[k].attempts = 0,
         memoryPass' = memoryPass
  PROVE  /\ memoryOutbox' \in Seq(OutboxRow)
         /\ Len(memoryOutbox') = Len(memoryOutbox) + Len(e)
         /\ memoryPass' \in [todo : SUBSET DOMAIN memoryOutbox',
                             tries : [1..MemoryMaxRows -> 0..MemoryMaxAttempts],
                             call : {"none", "done", "failed"}]
         /\ AttemptsLeft' /\ PassHolds'
<1>0. MemoryTypeOK
  BY DEF MemoryTypeInv
<1>1. /\ memoryOutbox' \in Seq(OutboxRow)
      /\ Len(memoryOutbox') = Len(rows) + Len(e)
      /\ \A n \in 1..Len(rows) : memoryOutbox'[n] = rows[n]
      /\ \A n \in (Len(rows) + 1)..Len(memoryOutbox') :
           n - Len(rows) \in 1..Len(e) /\ memoryOutbox'[n] = e[n - Len(rows)]
  BY Extended
<1>2. Len(memoryOutbox) \in Nat /\ Len(e) \in Nat /\ Len(rows) = Len(memoryOutbox)
  BY <1>0, OutboxShape DEF SameButEvents
<1>3. \A n \in OutboxIds : /\ n \in OutboxIds'
                           /\ memoryOutbox'[n].status = memoryOutbox[n].status
                           /\ memoryOutbox'[n].attempts = memoryOutbox[n].attempts
  BY <1>1, <1>2 DEF OutboxIds, SameButEvents
<1>4. \A n \in OutboxIds' \ OutboxIds :
        memoryOutbox'[n].status = "pending" /\ memoryOutbox'[n].attempts = 0
  BY <1>1, <1>2 DEF OutboxIds
<1>5. AttemptsLeft'
  <2>1. SUFFICES ASSUME NEW n \in OutboxIds'
                 PROVE  /\ memoryOutbox'[n].status \in {"pending", "processing"}
                             => memoryOutbox'[n].attempts < MemoryMaxAttempts
                        /\ memoryOutbox'[n].status = "failed" => memoryOutbox'[n].attempts > 0
    BY DEF AttemptsLeft
  <2>2. CASE n \in OutboxIds
    BY <1>3, <2>2 DEF MemoryTypeInv, AttemptsLeft
  <2>3. CASE n \notin OutboxIds
    <3>1. memoryOutbox'[n].status = "pending" /\ memoryOutbox'[n].attempts = 0
      BY <1>4, <2>1, <2>3
    <3> QED BY <3>1, CuratedMemoryAssumption
  <2> QED BY <2>2, <2>3
<1>6. DOMAIN memoryOutbox \subseteq DOMAIN memoryOutbox'
  BY <1>0, <1>1, <1>2, OutboxShape DEF OutboxIds
<1>7. memoryPass' \in [todo : SUBSET DOMAIN memoryOutbox',
                       tries : [1..MemoryMaxRows -> 0..MemoryMaxAttempts],
                       call : {"none", "done", "failed"}]
  BY <1>0, <1>6 DEF MemoryTypeOK
<1>8. PassHolds'
  <2>1. memoryPass.todo \subseteq OutboxIds
    BY <1>0, OutboxShape
  <2> QED BY <1>3, <2>1 DEF MemoryTypeInv, PassHolds
<1> QED BY <1>1, <1>2, <1>5, <1>7, <1>8

\* A row after its settlement: one attempt more, and given up after the last.
LEMMA SettledRow ==
  ASSUME NEW row \in OutboxRow, NEW call \in {"done", "failed"},
         NEW tries \in 0..MemoryMaxAttempts, tries < MemoryMaxAttempts,
         NEW after, after = MemorySettled(row, call, tries)
  PROVE  /\ after \in OutboxRow /\ after.item = row.item /\ after.event = row.event
         /\ call = "done" => after.status = "done" /\ after.attempts = row.attempts
         /\ call = "failed" => after.status \in {"pending", "failed"} /\ after.attempts = tries + 1
         /\ after.status = "pending" => after.attempts < MemoryMaxAttempts
<1>1. CASE call = "done"
  <2>1. after = [row EXCEPT !.status = "done"]
    BY <1>1 DEF MemorySettled
  <2> QED BY <1>1, <2>1 DEF OutboxRow
<1>2. CASE call = "failed"
  <2>1. PICK status \in {"pending", "failed"} :
          /\ after = [row EXCEPT !.attempts = tries + 1, !.status = status]
          /\ status = "pending" => ~(tries + 1 >= MemoryMaxAttempts)
    BY <1>2 DEF MemorySettled
  <2>2. tries + 1 \in 0..MemoryMaxAttempts /\ MemoryMaxAttempts \in Nat
    BY CuratedMemoryAssumption
  <2>3. /\ after \in OutboxRow /\ after.item = row.item /\ after.event = row.event
        /\ after.status = status /\ after.attempts = tries + 1
    BY <2>1, <2>2 DEF OutboxRow
  <2> QED BY <1>2, <2>1, <2>2, <2>3
<1> QED BY <1>1, <1>2

\* The pass that leaves row n behind.
LEMMA NextPass ==
  ASSUME NEW p, NEW T, p \in [todo : SUBSET T, tries : [1..MemoryMaxRows -> 0..MemoryMaxAttempts],
                              call : {"none", "done", "failed"}],
         NEW n \in 1..MemoryMaxRows,
         NEW q, q = [p EXCEPT !.todo = p.todo \ {n}, !.call = "none", !.tries[n] = 0]
  PROVE  /\ q \in [todo : SUBSET T, tries : [1..MemoryMaxRows -> 0..MemoryMaxAttempts],
                   call : {"none", "done", "failed"}]
         /\ q.todo = p.todo \ {n} /\ q.call = "none"
         /\ \A m \in 1..MemoryMaxRows : m # n => q.tries[m] = p.tries[m]
<1>1. q = [todo |-> p.todo \ {n}, tries |-> [p.tries EXCEPT ![n] = 0], call |-> "none"]
  OBVIOUS
<1>2. [p.tries EXCEPT ![n] = 0] \in [1..MemoryMaxRows -> 0..MemoryMaxAttempts]
  BY CuratedMemoryAssumption
<1>3. p.todo \ {n} \in SUBSET T
  OBVIOUS
<1>4. /\ q.todo = p.todo \ {n} /\ q.call = "none" /\ q.tries = [p.tries EXCEPT ![n] = 0]
      /\ p.tries \in [1..MemoryMaxRows -> 0..MemoryMaxAttempts]
  BY <1>1
<1>5. q \in [todo : SUBSET T, tries : [1..MemoryMaxRows -> 0..MemoryMaxAttempts],
             call : {"none", "done", "failed"}]
  <2>1. ASSUME NEW d \in SUBSET T, NEW f \in [1..MemoryMaxRows -> 0..MemoryMaxAttempts]
        PROVE  [todo |-> d, tries |-> f, call |-> "none"]
                 \in [todo : SUBSET T, tries : [1..MemoryMaxRows -> 0..MemoryMaxAttempts],
                     call : {"none", "done", "failed"}]
    OBVIOUS
  <2> QED BY <1>1, <1>2, <1>3, <2>1
<1> QED BY <1>4, <1>5

\* The idle pass.
LEMMA IdlePass ==
  /\ \A T : MemoryIdle \in [todo : SUBSET T, tries : [1..MemoryMaxRows -> 0..MemoryMaxAttempts],
                            call : {"none", "done", "failed"}]
  /\ MemoryIdle.todo = {} /\ MemoryIdle.call = "none"
BY CuratedMemoryAssumption DEF MemoryIdle
-----------------------------------------------------------------------------
(* What the steps of the daemon do to the rows.                            *)

\* A lease takes rows that may be tried and leaves no untried row before them.
LEMMA LeaseEffect ==
  ASSUME MemoryTypeInv, NEW due, MemoryLease(due)
  PROVE  /\ memoryPass.todo = {} /\ memoryPass.call = "none"
         /\ memoryOutbox' \in Seq(OutboxRow) /\ Len(memoryOutbox') = Len(memoryOutbox)
         /\ memoryPass' \in [todo : SUBSET OutboxIds,
                             tries : [1..MemoryMaxRows -> 0..MemoryMaxAttempts],
                             call : {"none", "done", "failed"}]
         /\ memoryPass'.call = "none"
         /\ \A n \in memoryPass'.todo :
              /\ memoryOutbox[n].status \in {"pending", "processing"}
              /\ memoryOutbox'[n].status = "processing"
              /\ memoryOutbox'[n].item = memoryOutbox[n].item
              /\ memoryOutbox'[n].event = memoryOutbox[n].event
              /\ memoryOutbox'[n].attempts = memoryOutbox[n].attempts
              /\ memoryPass'.tries[n] = memoryOutbox[n].attempts
         /\ \A n \in OutboxIds \ memoryPass'.todo : memoryOutbox'[n] = memoryOutbox[n]
         /\ \A n \in memoryPass'.todo, m \in OutboxIds :
              m < n /\ memoryOutbox[m].status = "pending" /\ memoryOutbox[m].attempts = 0
                => m \in memoryPass'.todo
<1> DEFINE E == MemoryEligible(due)
           leased == {n \in E : Cardinality({o \in E : o <= n}) <= MemoryBatch}
           tries == [n \in 1..MemoryMaxRows |-> IF n \in leased THEN memoryOutbox[n].attempts ELSE 0]
<1>0. MemoryTypeOK
  BY DEF MemoryTypeInv
<1>1. /\ DOMAIN memoryOutbox = OutboxIds /\ memoryOutbox \in Seq(OutboxRow)
      /\ \A n \in OutboxIds : memoryOutbox[n] \in OutboxRow
  BY <1>0, OutboxShape
<1>2. E \subseteq OutboxIds /\ \A n \in E : memoryOutbox[n].status \in {"pending", "processing"}
  BY <1>1 DEF MemoryEligible
<1>3. OutboxIds \subseteq 1..MemoryMaxRows
  BY WithinBound, CuratedMemoryAssumption DEF OutboxIds
<1>4. /\ memoryPass = MemoryIdle
      /\ memoryOutbox' = [n \in DOMAIN memoryOutbox |->
           IF n \in leased THEN [memoryOutbox[n] EXCEPT !.status = "processing"] ELSE memoryOutbox[n]]
      /\ memoryPass' = [MemoryIdle EXCEPT !.todo = leased, !.tries = tries]
  BY DEF MemoryLease
<1>5. memoryPass.todo = {} /\ memoryPass.call = "none"
  BY <1>4, IdlePass
<1>6. memoryPass' = [todo |-> leased, tries |-> tries, call |-> "none"]
  <2> HIDE DEF leased, tries
  <2> QED BY <1>4 DEF MemoryIdle
<1>7. leased \subseteq OutboxIds
  BY <1>2
<1>8. tries \in [1..MemoryMaxRows -> 0..MemoryMaxAttempts]
  <2>1. \A n \in leased : memoryOutbox[n].attempts \in 0..MemoryMaxAttempts
    BY <1>1, <1>7 DEF OutboxRow
  <2> QED BY <2>1, CuratedMemoryAssumption
<1>9. \A n \in leased : tries[n] = memoryOutbox[n].attempts
  BY <1>3, <1>7
<1>10. memoryPass' \in [todo : SUBSET OutboxIds,
                        tries : [1..MemoryMaxRows -> 0..MemoryMaxAttempts],
                        call : {"none", "done", "failed"}]
       /\ memoryPass'.todo = leased /\ memoryPass'.tries = tries /\ memoryPass'.call = "none"
  <2> HIDE DEF leased, tries
  <2> QED BY <1>6, <1>7, <1>8
<1>11. \A n \in OutboxIds : memoryOutbox'[n] = IF n \in leased
                              THEN [memoryOutbox[n] EXCEPT !.status = "processing"]
                              ELSE memoryOutbox[n]
  BY <1>1, <1>4
<1>12. \A n \in leased : /\ memoryOutbox'[n] \in OutboxRow
                         /\ memoryOutbox'[n].status = "processing"
                         /\ memoryOutbox'[n].item = memoryOutbox[n].item
                         /\ memoryOutbox'[n].event = memoryOutbox[n].event
                         /\ memoryOutbox'[n].attempts = memoryOutbox[n].attempts
  <2>1. ASSUME NEW row \in OutboxRow, NEW new, new = [row EXCEPT !.status = "processing"]
        PROVE  /\ new \in OutboxRow /\ new.status = "processing" /\ new.item = row.item
               /\ new.event = row.event /\ new.attempts = row.attempts
    BY <2>1 DEF OutboxRow
  <2> HIDE DEF leased
  <2>2. \A n \in leased : /\ memoryOutbox[n] \in OutboxRow
                          /\ memoryOutbox'[n] = [memoryOutbox[n] EXCEPT !.status = "processing"]
    BY <1>1, <1>7, <1>11
  <2>3. SUFFICES ASSUME NEW n \in leased
                 PROVE  /\ memoryOutbox'[n] \in OutboxRow
                        /\ memoryOutbox'[n].status = "processing"
                        /\ memoryOutbox'[n].item = memoryOutbox[n].item
                        /\ memoryOutbox'[n].event = memoryOutbox[n].event
                        /\ memoryOutbox'[n].attempts = memoryOutbox[n].attempts
    OBVIOUS
  <2> QED BY <2>1, <2>2
<1>13. \A n \in OutboxIds \ leased : memoryOutbox'[n] = memoryOutbox[n]
  BY <1>11
<1>14. memoryOutbox' \in Seq(OutboxRow) /\ Len(memoryOutbox') = Len(memoryOutbox)
  <2>1. DOMAIN memoryOutbox' = DOMAIN memoryOutbox
        /\ memoryOutbox' = [n \in DOMAIN memoryOutbox |-> memoryOutbox'[n]]
    BY <1>4
  <2>2. \A n \in 1..Len(memoryOutbox) : memoryOutbox'[n] \in OutboxRow
    BY <1>1, <1>12, <1>13 DEF OutboxIds
  <2> QED BY <1>1, <2>1, <2>2, Rewritten
<1>15. ASSUME NEW n \in leased, NEW m \in OutboxIds, m < n, memoryOutbox[m].status = "pending",
              memoryOutbox[m].attempts = 0
       PROVE  m \in leased
  <2>1. m \in E
    BY <1>1, <1>15 DEF MemoryEligible
  <2>2. {o \in E : o <= m} \subseteq {o \in E : o <= n}
    BY <1>2, <1>15 DEF OutboxIds
  <2>3. IsFiniteSet({o \in E : o <= n})
    <3>1. IsFiniteSet(1..MemoryMaxRows)
      BY FS_Interval, CuratedMemoryAssumption
    <3>2. {o \in E : o <= n} \subseteq 1..MemoryMaxRows
      BY <1>2, <1>3
    <3> QED BY <3>1, <3>2, FS_Subset
  <2>4. /\ Cardinality({o \in E : o <= m}) <= Cardinality({o \in E : o <= n})
        /\ Cardinality({o \in E : o <= m}) \in Nat /\ Cardinality({o \in E : o <= n}) \in Nat
    BY <2>2, <2>3, FS_Subset, FS_CardinalityType
  <2>5. Cardinality({o \in E : o <= n}) <= MemoryBatch
    BY <1>15
  <2> QED BY <2>1, <2>4, <2>5, CuratedMemoryAssumption
<1> HIDE DEF leased, tries
<1>16. \A n \in leased : memoryOutbox[n].status \in {"pending", "processing"}
  BY <1>2 DEF leased
<1> QED BY <1>5, <1>9, <1>10, <1>12, <1>13, <1>14, <1>15, <1>16

\* A mark settles the row whose turn it is and takes it off the pass.
LEMMA MarkEffect ==
  ASSUME MemoryTypeInv, MemoryMark
  PROVE  /\ MemoryTurn \in memoryPass.todo /\ MemoryTurn \in OutboxIds
         /\ memoryPass.call \in {"done", "failed"}
         /\ memoryOutbox' \in Seq(OutboxRow) /\ Len(memoryOutbox') = Len(memoryOutbox)
         /\ \A n \in OutboxIds : n # MemoryTurn => memoryOutbox'[n] = memoryOutbox[n]
         /\ memoryOutbox'[MemoryTurn].item = memoryOutbox[MemoryTurn].item
         /\ memoryOutbox'[MemoryTurn].event = memoryOutbox[MemoryTurn].event
         /\ memoryPass.call = "done" =>
              /\ memoryOutbox'[MemoryTurn].status = "done"
              /\ memoryOutbox'[MemoryTurn].attempts = memoryOutbox[MemoryTurn].attempts
         /\ memoryPass.call = "failed" =>
              /\ memoryOutbox'[MemoryTurn].status \in {"pending", "failed"}
              /\ memoryOutbox'[MemoryTurn].attempts > 0
         /\ memoryOutbox'[MemoryTurn].status = "pending" =>
              memoryOutbox'[MemoryTurn].attempts < MemoryMaxAttempts
         /\ memoryPass' \in [todo : SUBSET OutboxIds,
                             tries : [1..MemoryMaxRows -> 0..MemoryMaxAttempts],
                             call : {"none", "done", "failed"}]
         /\ memoryPass'.todo = memoryPass.todo \ {MemoryTurn} /\ memoryPass'.call = "none"
         /\ \A n \in memoryPass'.todo : memoryPass'.tries[n] = memoryPass.tries[n]
<1>0. MemoryTypeOK
  BY DEF MemoryTypeInv
<1>1. PICK t : t = MemoryTurn
  OBVIOUS
<1>2. memoryPass.call \in {"done", "failed"} /\ memoryPass.todo # {}
  BY <1>0, OutboxShape DEF MemoryMark, MemoryTypeInv, PassHolds
<1>3. t \in memoryPass.todo
  BY <1>0, <1>1, <1>2, TurnIsFirst
<1>4. /\ memoryOutbox \in Seq(OutboxRow) /\ DOMAIN memoryOutbox = OutboxIds
      /\ memoryPass.todo \subseteq OutboxIds /\ t \in OutboxIds
      /\ memoryOutbox[t] \in OutboxRow
      /\ memoryPass.tries \in [1..MemoryMaxRows -> 0..MemoryMaxAttempts]
  BY <1>0, <1>3, OutboxShape
<1>5. OutboxIds \subseteq 1..MemoryMaxRows
  BY WithinBound, CuratedMemoryAssumption DEF OutboxIds
<1>6. PICK after : after = MemorySettled(memoryOutbox[t], memoryPass.call, memoryPass.tries[t])
  OBVIOUS
<1>7. memoryOutbox' = [memoryOutbox EXCEPT ![t] = after]
  BY <1>1, <1>6 DEF MemoryMark
<1>8. memoryPass.tries[t] \in 0..MemoryMaxAttempts /\ memoryPass.tries[t] < MemoryMaxAttempts
  <2>1. memoryPass.tries[t] = memoryOutbox[t].attempts /\ memoryOutbox[t].status = "processing"
    BY <1>3 DEF MemoryTypeInv, PassHolds
  <2> QED BY <1>4, <1>5, <2>1 DEF MemoryTypeInv, AttemptsLeft
<1>9. /\ after \in OutboxRow /\ after.item = memoryOutbox[t].item
      /\ after.event = memoryOutbox[t].event
      /\ memoryPass.call = "done" => after.status = "done" /\ after.attempts = memoryOutbox[t].attempts
      /\ memoryPass.call = "failed" =>
           after.status \in {"pending", "failed"} /\ after.attempts = memoryPass.tries[t] + 1
      /\ after.status = "pending" => after.attempts < MemoryMaxAttempts
  BY <1>2, <1>4, <1>6, <1>8, SettledRow
<1>10. memoryPass.call = "failed" => after.attempts > 0
  BY <1>8, <1>9
<1>11. /\ memoryOutbox' \in Seq(OutboxRow) /\ Len(memoryOutbox') = Len(memoryOutbox)
       /\ memoryOutbox'[t] = after
       /\ \A n \in OutboxIds : n # t => memoryOutbox'[n] = memoryOutbox[n]
  BY <1>4, <1>7, <1>9 DEF OutboxIds
<1>12. memoryPass \in [todo : SUBSET OutboxIds,
                       tries : [1..MemoryMaxRows -> 0..MemoryMaxAttempts],
                       call : {"none", "done", "failed"}]
  BY <1>0, <1>4 DEF MemoryTypeOK
<1>13. /\ memoryPass' \in [todo : SUBSET OutboxIds,
                           tries : [1..MemoryMaxRows -> 0..MemoryMaxAttempts],
                           call : {"none", "done", "failed"}]
       /\ memoryPass'.todo = memoryPass.todo \ {t} /\ memoryPass'.call = "none"
       /\ \A n \in memoryPass'.todo : memoryPass'.tries[n] = memoryPass.tries[n]
  <2>1. CASE memoryPass.todo = {t}
    <3>1. memoryPass' = MemoryIdle
      BY <1>1, <2>1 DEF MemoryMark
    <3> QED BY <2>1, <3>1, IdlePass
  <2>2. CASE memoryPass.todo # {t}
    <3>1. PICK q : q = [memoryPass EXCEPT !.todo = memoryPass.todo \ {t}, !.call = "none",
                                          !.tries[t] = 0]
      OBVIOUS
    <3>2. memoryPass' = q
      BY <1>1, <2>2, <3>1 DEF MemoryMark
    <3>3. t \in 1..MemoryMaxRows
      BY <1>4, <1>5
    <3>4. /\ q \in [todo : SUBSET OutboxIds,
                    tries : [1..MemoryMaxRows -> 0..MemoryMaxAttempts],
                    call : {"none", "done", "failed"}]
          /\ q.todo = memoryPass.todo \ {t} /\ q.call = "none"
          /\ \A m \in 1..MemoryMaxRows : m # t => q.tries[m] = memoryPass.tries[m]
      BY <1>12, <3>1, <3>3, NextPass
    <3> QED BY <1>4, <1>5, <3>2, <3>4
  <2> QED BY <2>1, <2>2
<1> QED BY <1>1, <1>2, <1>3, <1>4, <1>9, <1>10, <1>11, <1>13
-----------------------------------------------------------------------------
(* What requests and the reaper do.                                        *)

PurgeDates == {"unset", "ahead", "elapsed"}
MoveTargets == {"confirmed", "rejected", "deprecated", "deleted_pending_purge"}
Moved(item, to, purge) == [[item EXCEPT !.status = to] EXCEPT !.purge = purge]

\* The row of an item after a committed transition.
LEMMA MovedItem ==
  ASSUME NEW item \in MemoryItem, NEW to \in MoveTargets, NEW purge \in PurgeDates,
         NEW x, x = Moved(item, to, purge)
  PROVE  x \in MemoryItem /\ x.status = to
<1>1. x = [type |-> item.type, scope |-> item.scope, status |-> to, purge |-> purge]
  BY DEF MemoryItem, Moved
<1> QED BY <1>1 DEF MemoryItem, MemoryStatuses, MoveTargets, PurgeDates

\* What the commit of an open request does, and that it writes nothing for an
\* item that is gone.
LEMMA CommitEffect ==
  ASSUME MemoryTypeInv, NEW h \in MemoryHandlers, TransitionCommit(h),
         NEW i, NEW to, i = memoryRequest[h].item, to = memoryRequest[h].to
  PROVE  /\ i \in MemoryItems
         /\ to \in {"confirmed", "rejected", "deprecated", "deleted_pending_purge"}
         /\ memoryRequest' = [memoryRequest EXCEPT ![h] = MemoryClosed] /\ h \in OpenRequests
         /\ Stored(i) =>
              /\ memoryTable' \in [MemoryItems -> MemoryItem \cup {NoItem, Purged}]
              /\ memoryTable'[i] \in MemoryItem /\ memoryTable'[i].status = to
              /\ \A j \in MemoryItems : j # i => memoryTable'[j] = memoryTable[j]
              /\ memoryEvents' = [memoryEvents EXCEPT ![i] = Append(memoryEvents[i], to)]
              /\ memoryOutbox' = Append(memoryOutbox, MemoryRow(i, "upsert"))
              /\ StandingFollows
         /\ ~Stored(i) => UNCHANGED <<memoryTable, memoryEvents, memoryOutbox, memoryStanding>>
         /\ UNCHANGED <<memoryIndex, memoryPass, memoryReaper, memoryCrashes, memoryRetrieval>>
<1>0. memoryTable \in [MemoryItems -> MemoryItem \cup {NoItem, Purged}]
  BY DEF MemoryTypeInv, MemoryTypeOK
<1>1. memoryRequest[h] # MemoryClosed /\ h \in OpenRequests
  BY DEF TransitionCommit, OpenRequests
<1>2. i \in MemoryItems /\ to \in MemoryStatuses
  BY <1>1 DEF MemoryTypeInv, MemoryTypeOK
<1>3. to \in {"confirmed", "rejected", "deprecated", "deleted_pending_purge"}
  BY <1>1 DEF MemoryTypeInv, RequestsMove
<1>4. ASSUME Stored(i)
      PROVE  /\ memoryTable' \in [MemoryItems -> MemoryItem \cup {NoItem, Purged}]
             /\ memoryTable'[i] \in MemoryItem /\ memoryTable'[i].status = to
             /\ \A j \in MemoryItems : j # i => memoryTable'[j] = memoryTable[j]
  <2>1. memoryTable[i] \in MemoryItem
    BY <1>0, <1>2, <1>4 DEF Stored
  <2>2. PICK purge \in PurgeDates :
          memoryTable' = [memoryTable EXCEPT ![i].status = to, ![i].purge = purge]
    <3>1. memoryTable' = [memoryTable EXCEPT ![i].status = to,
                            ![i].purge = IF to = "deleted_pending_purge" THEN "ahead" ELSE @]
      BY <1>4 DEF TransitionCommit
    <3>2. memoryTable[i].purge \in PurgeDates
      BY <2>1 DEF MemoryItem, PurgeDates
    <3>3. [memoryTable[i] EXCEPT !.status = to].purge = memoryTable[i].purge
      BY <2>1 DEF MemoryItem
    <3>4. CASE to = "deleted_pending_purge"
      BY <3>1, <3>4 DEF PurgeDates
    <3>5. CASE to # "deleted_pending_purge"
      BY <1>0, <1>2, <3>1, <3>2, <3>3, <3>5
    <3> QED BY <3>4, <3>5
  <2>3. to \in MoveTargets
    BY <1>3 DEF MoveTargets
  <2>4. PICK x : x = Moved(memoryTable[i], to, purge)
    OBVIOUS
  <2>5. x \in MemoryItem /\ x.status = to
    BY <2>1, <2>3, <2>4, MovedItem
  <2>6. memoryTable' = [memoryTable EXCEPT ![i] = x]
    BY <1>0, <1>2, <2>2, <2>4 DEF Moved
  <2> QED BY <1>0, <1>2, <2>5, <2>6
<1>5. /\ memoryRequest' = [memoryRequest EXCEPT ![h] = MemoryClosed]
      /\ UNCHANGED <<memoryIndex, memoryPass, memoryReaper, memoryCrashes, memoryRetrieval>>
      /\ Stored(i) =>
           /\ memoryEvents' = [memoryEvents EXCEPT ![i] = Append(memoryEvents[i], to)]
           /\ memoryOutbox' = Append(memoryOutbox, MemoryRow(i, "upsert"))
           /\ StandingFollows
      /\ ~Stored(i) => UNCHANGED <<memoryTable, memoryEvents, memoryOutbox, memoryStanding>>
  BY DEF TransitionCommit
<1> QED BY <1>1, <1>2, <1>3, <1>4, <1>5

\* What the selection of the reaper does: it takes due items only.
LEMMA ReapSelectEffect ==
  ASSUME MemoryTypeInv, NEW n \in 1..MemoryReapBatch, NEW batch \in [1..n -> MemoryItems],
         ReapSelect(n, batch)
  PROVE  /\ memoryReaper.batch = <<>>
         /\ memoryReaper' \in [batch : Seq(MemoryItems), heard : [MemoryItems -> Nat]]
         /\ Len(memoryReaper'.batch) = n /\ n \in Nat
         /\ Selected' \subseteq {i \in MemoryItems : Reapable(i)}
         /\ \A i \in MemoryItems : memoryReaper'.heard[i] =
              IF i \in Selected' THEN Len(memoryEvents[i]) ELSE memoryReaper.heard[i]
<1> DEFINE S == {batch[k] : k \in 1..n}
           heard == [i \in MemoryItems |-> IF i \in S THEN Len(memoryEvents[i])
                                           ELSE memoryReaper.heard[i]]
<1>1. /\ memoryReaper.batch = <<>> /\ S \subseteq {i \in MemoryItems : Reapable(i)}
      /\ memoryReaper' = [batch |-> batch, heard |-> heard]
  BY DEF ReapSelect
<1>2. n \in Nat /\ batch \in Seq(MemoryItems) /\ Len(batch) = n
  BY CuratedMemoryAssumption
<1>3. heard \in [MemoryItems -> Nat]
  <2>1. \A i \in MemoryItems : Len(memoryEvents[i]) \in Nat /\ memoryReaper.heard[i] \in Nat
    BY ReaperShape DEF MemoryTypeInv, MemoryTypeOK
  <2> QED BY <2>1
<1>4. memoryReaper'.batch = batch /\ memoryReaper'.heard = heard
  BY <1>1
<1>5. Selected' = S
  BY <1>2, <1>4 DEF Selected
<1>6. memoryReaper' \in [batch : Seq(MemoryItems), heard : [MemoryItems -> Nat]]
  <2> HIDE DEF heard
  <2> QED BY <1>1, <1>2, <1>3
<1> QED BY <1>1, <1>2, <1>4, <1>5, <1>6

\* What the commit of the reaper does to the outbox: one row more for each item
\* selected, and rows that wait may have become the deletion.
LEMMA ReapCommitEffect ==
  ASSUME MemoryTypeInv, NEW ahead, ReapCommit(ahead)
  PROVE  \E rows \in Seq(OutboxRow), e \in Seq(OutboxRow) :
           /\ memoryOutbox' = rows \o e /\ SameButEvents(rows)
           /\ \A n \in OutboxIds : memoryOutbox[n].item \notin Selected
                                      => rows[n] = memoryOutbox[n]
           /\ Len(e) = Len(memoryReaper.batch)
           /\ \A k \in 1..Len(e) : /\ e[k].item \in Selected
                                    /\ e[k].status = "pending" /\ e[k].attempts = 0
<1>0. /\ MemoryTypeOK /\ memoryOutbox \in Seq(OutboxRow) /\ DOMAIN memoryOutbox = OutboxIds
      /\ Len(memoryOutbox) \in Nat /\ \A n \in OutboxIds : memoryOutbox[n] \in OutboxRow
  BY OutboxShape DEF MemoryTypeInv
<1>1. PICK batch : batch = memoryReaper.batch
  OBVIOUS
<1>2. /\ batch \in Seq(MemoryItems) /\ Len(batch) \in Nat /\ DOMAIN batch = 1..Len(batch)
      /\ Selected = {batch[k] : k \in 1..Len(batch)}
  BY <1>0, <1>1, ReaperShape DEF Selected
<1> DEFINE Behind(n) == memoryOutbox[n].item \in ahead /\ Overtaken(memoryOutbox[n].item, n)
           rows == [n \in DOMAIN memoryOutbox |->
                      IF Behind(n) THEN [memoryOutbox[n] EXCEPT !.event = "delete"]
                      ELSE memoryOutbox[n]]
           e == [k \in DOMAIN batch |->
                   MemoryRow(batch[k], IF batch[k] \in ahead THEN "upsert" ELSE "delete")]
<1>3. memoryOutbox' = rows \o e /\ ahead \subseteq Selected
  BY <1>1, <1>2 DEF ReapCommit
<1>4. ASSUME NEW n \in OutboxIds
      PROVE  /\ rows[n] \in OutboxRow
             /\ rows[n].item = memoryOutbox[n].item /\ rows[n].status = memoryOutbox[n].status
             /\ rows[n].attempts = memoryOutbox[n].attempts
             /\ memoryOutbox[n].status # "pending" => rows[n].event = memoryOutbox[n].event
             /\ memoryOutbox[n].item \notin Selected => rows[n] = memoryOutbox[n]
  <2>1. memoryOutbox[n] \in OutboxRow
    BY <1>0
  <2>2. CASE ~Behind(n)
    BY <1>0, <2>1, <2>2
  <2>3. CASE Behind(n)
    <3>1. rows[n] = [memoryOutbox[n] EXCEPT !.event = "delete"]
      BY <1>0, <2>3
    <3>2. memoryOutbox[n].item \in Selected /\ memoryOutbox[n].status = "pending"
      BY <1>3, <2>3 DEF Overtaken
    <3> HIDE DEF rows
    <3>3. ASSUME NEW row \in OutboxRow, NEW new, new = [row EXCEPT !.event = "delete"]
          PROVE  /\ new \in OutboxRow /\ new.item = row.item /\ new.status = row.status
                 /\ new.attempts = row.attempts
      BY <3>3 DEF OutboxRow
    <3> QED BY <2>1, <3>1, <3>2, <3>3
  <2> QED BY <2>2, <2>3
<1>5. rows \in Seq(OutboxRow) /\ Len(rows) = Len(memoryOutbox)
  <2>1. DOMAIN rows = DOMAIN memoryOutbox /\ rows = [n \in DOMAIN memoryOutbox |-> rows[n]]
    OBVIOUS
  <2> HIDE DEF rows
  <2>2. \A n \in 1..Len(memoryOutbox) : rows[n] \in OutboxRow
    BY <1>4 DEF OutboxIds
  <2> QED BY <1>0, <2>1, <2>2, Rewritten
<1>6. ASSUME NEW k \in 1..Len(batch)
      PROVE  /\ e[k] \in OutboxRow /\ e[k].item \in Selected
             /\ e[k].status = "pending" /\ e[k].attempts = 0
  <2>1. PICK event \in {"upsert", "delete"} : e[k] = MemoryRow(batch[k], event)
    BY <1>2
  <2>2. batch[k] \in MemoryItems /\ batch[k] \in Selected
    BY <1>2
  <2> HIDE DEF e
  <2> QED BY <2>1, <2>2, FreshRow
<1>7. e \in Seq(OutboxRow) /\ Len(e) = Len(batch)
  <2>1. e = [k \in 1..Len(batch) |-> e[k]]
    BY <1>2
  <2> HIDE DEF e
  <2>2. \A k \in 1..Len(batch) : e[k] \in OutboxRow
    BY <1>6
  <2> QED BY <1>2, <2>1, <2>2
<1>8. SameButEvents(rows)
  <2> HIDE DEF rows
  <2> QED BY <1>4, <1>5 DEF SameButEvents
<1> HIDE DEF rows, e
<1> QED BY <1>1, <1>3, <1>4, <1>5, <1>6, <1>7, <1>8

\* And to the items: those selected are purged, whatever they have become.
LEMMA ReapCommitPurges ==
  ASSUME MemoryTypeInv, NEW ahead, ReapCommit(ahead)
  PROVE  /\ memoryTable' = [i \in MemoryItems |-> IF i \in Selected THEN Purged
                                                  ELSE memoryTable[i]]
         /\ memoryEvents' = [i \in MemoryItems |->
              IF i \in Selected THEN Append(memoryEvents[i], "purged") ELSE memoryEvents[i]]
         /\ memoryReaper' \in [batch : Seq(MemoryItems), heard : [MemoryItems -> Nat]]
         /\ memoryReaper'.batch = <<>> /\ memoryReaper'.heard = memoryReaper.heard
         /\ StandingFollows
         /\ UNCHANGED <<memoryIndex, memoryRequest, memoryPass, memoryCrashes, memoryRetrieval>>
<1>1. PICK S : S = {memoryReaper.batch[k] : k \in DOMAIN memoryReaper.batch}
  OBVIOUS
<1>2. S = Selected /\ memoryReaper.heard \in [MemoryItems -> Nat]
      /\ memoryReaper = [batch |-> memoryReaper.batch, heard |-> memoryReaper.heard]
  BY <1>1, ReaperShape DEF MemoryTypeInv, Selected
<1>3. /\ memoryTable' = [i \in MemoryItems |-> IF i \in S THEN Purged ELSE memoryTable[i]]
      /\ memoryEvents' = [i \in MemoryItems |->
           IF i \in S THEN Append(memoryEvents[i], "purged") ELSE memoryEvents[i]]
      /\ memoryReaper' = [memoryReaper EXCEPT !.batch = <<>>]
      /\ StandingFollows
      /\ UNCHANGED <<memoryIndex, memoryRequest, memoryPass, memoryCrashes, memoryRetrieval>>
  BY <1>1 DEF ReapCommit
<1>4. memoryReaper' = [batch |-> <<>>, heard |-> memoryReaper.heard]
  BY <1>2, <1>3
<1>5. /\ memoryReaper' \in [batch : Seq(MemoryItems), heard : [MemoryItems -> Nat]]
      /\ memoryReaper'.batch = <<>> /\ memoryReaper'.heard = memoryReaper.heard
  BY <1>2, <1>4
<1> QED BY <1>2, <1>3, <1>5
-----------------------------------------------------------------------------
(* The type invariant, action by action.                                   *)

\* The types that the rows and the pass of the daemon do not occur in.
OtherTypes ==
  /\ memoryTable \in [MemoryItems -> MemoryItem \cup {NoItem, Purged}]
  /\ memoryEvents \in [MemoryItems -> Seq(MemoryStatuses)]
  /\ memoryIndex \subseteq MemoryItems
  /\ memoryRequest \in [MemoryHandlers -> [item : MemoryItems, to : MemoryStatuses]
                                            \cup {MemoryClosed}]
  /\ memoryReaper \in [batch : Seq(MemoryItems), heard : [MemoryItems -> Nat]]
  /\ memoryCrashes \in 0..MemoryMaxCrashes
  /\ memoryRetrieval \in [open : BOOLEAN, left : SUBSET MemoryItems,
                          entries : SUBSET [item : MemoryItems, usage : MemoryUsages]]
  /\ memoryStanding \subseteq MemoryItems

PassTypes(rows) == [todo : SUBSET rows, tries : [1..MemoryMaxRows -> 0..MemoryMaxAttempts],
                    call : {"none", "done", "failed"}]

\* Together they are the type invariant.
LEMMA TypesTogether ==
  MemoryTypeOK <=> /\ OtherTypes /\ memoryOutbox \in Seq(OutboxRow)
                   /\ memoryPass \in PassTypes(DOMAIN memoryOutbox)
BY DEF MemoryTypeOK, OtherTypes, PassTypes, OutboxRow

\* The history of a retrieval is a set of items.
LEMMA StandingType ==
  ASSUME OtherTypes, StandingFollows
  PROVE  memoryStanding' \subseteq MemoryItems
BY DEF OtherTypes, StandingFollows

\* A step that only adds fresh rows for as many requests as it ends, or within
\* the room it has checked, keeps what the invariant says of the outbox.
LEMMA RowsStep ==
  ASSUME MemoryTypeInv, OtherTypes', RowsFit', RequestsMove',
         NEW rows \in Seq(OutboxRow), SameButEvents(rows),
         NEW e \in Seq(OutboxRow), memoryOutbox' = rows \o e,
         \A k \in 1..Len(e) : e[k].status = "pending" /\ e[k].attempts = 0,
         memoryPass' = memoryPass
  PROVE  MemoryTypeInv'
<1>1. /\ memoryOutbox' \in Seq(OutboxRow) /\ memoryPass' \in PassTypes(DOMAIN memoryOutbox')
      /\ AttemptsLeft' /\ PassHolds'
  BY FreshRowsKeepPass DEF PassTypes
<1>2. MemoryTypeOK'
  BY <1>1 DEF MemoryTypeOK, OtherTypes, PassTypes, OutboxRow
<1> QED BY <1>1, <1>2 DEF MemoryTypeInv

\* A step that leaves outbox and pass alone keeps what it says of them.
LEMMA RowsUnchanged ==
  ASSUME MemoryTypeInv, OtherTypes', RowsFit', RequestsMove',
         UNCHANGED <<memoryOutbox, memoryPass>>
  PROVE  MemoryTypeInv'
<1>1. MemoryTypeOK'
  BY DEF MemoryTypeInv, MemoryTypeOK, OtherTypes
<1> QED BY <1>1 DEF MemoryTypeInv, AttemptsLeft, PassHolds, OutboxIds

\* A step that leaves rows, requests and reaper alone leaves them room.
LEMMA RoomUnchanged ==
  ASSUME MemoryTypeInv, memoryRequest' = memoryRequest, memoryReaper' = memoryReaper,
         Len(memoryOutbox') = Len(memoryOutbox)
  PROVE  RowsFit' /\ RequestsMove'
BY DEF MemoryTypeInv, RowsFit, RequestsMove, OpenRequests

\* Requests and the reaper keep the types.
LEMMA TypeRequest ==
  ASSUME MemoryTypeInv, MemoryRequestStep
  PROVE  MemoryTypeInv'
<1>0. OtherTypes /\ MemoryTypeOK /\ Len(memoryOutbox) \in Nat /\ Len(memoryReaper.batch) \in Nat
  BY TypesTogether, OutboxShape, ReaperShape DEF MemoryTypeInv
<1>1. ASSUME NEW i \in MemoryItems, NEW type \in MemoryTypes, NEW scope \in MemoryScopes,
             CreateCandidate(i, type, scope)
      PROVE  MemoryTypeInv'
  <2>1. PICK e : e = <<MemoryRow(i, "upsert")>>
    OBVIOUS
  <2>2. /\ e \in Seq(OutboxRow) /\ Len(e) = 1
        /\ \A k \in 1..Len(e) : e[k].status = "pending" /\ e[k].attempts = 0
    BY <2>1, FreshRow
  <2>3. memoryOutbox' = memoryOutbox \o e
    <3>1. MemoryRow(i, "upsert") \in OutboxRow /\ memoryOutbox \in Seq(OutboxRow)
      BY <1>0, OutboxShape, FreshRow
    <3>2. memoryOutbox' = Append(memoryOutbox, MemoryRow(i, "upsert"))
      BY <1>1 DEF CreateCandidate
    <3> QED BY <2>1, <3>1, <3>2, OneBehind
  <2>4. Len(memoryOutbox') = Len(memoryOutbox) + 1
    <3>1. memoryPass' = memoryPass
      BY <1>1 DEF CreateCandidate
    <3>2. Len(memoryOutbox') = Len(memoryOutbox) + Len(e)
      BY <2>2, <2>3, <3>1, SameRows, FreshRowsKeepPass
    <3> QED BY <2>2, <3>2
  <2>5. memoryTable' \in [MemoryItems -> MemoryItem \cup {NoItem, Purged}]
    <3>1. [type |-> type, scope |-> scope, status |-> "candidate", purge |-> "unset"] \in MemoryItem
      BY DEF MemoryItem, MemoryStatuses
    <3> QED BY <1>0, <1>1, <3>1 DEF CreateCandidate, OtherTypes
  <2>6. memoryStanding' \subseteq MemoryItems
    BY <1>0, <1>1, StandingType DEF CreateCandidate
  <2>7. OtherTypes'
    BY <1>0, <1>1, <2>5, <2>6 DEF CreateCandidate, OtherTypes
  <2>8. RequestsMove'
    BY <1>1 DEF CreateCandidate, MemoryTypeInv, RequestsMove, OpenRequests
  <2>9. RowsFit'
    <3>1. Len(memoryOutbox) + Cardinality(OpenRequests) + Len(memoryReaper.batch) + 1
            <= MemoryMaxRows
      BY <1>1 DEF CreateCandidate, MemoryRoom, OpenRequests
    <3>2. OpenRequests' = OpenRequests /\ memoryReaper' = memoryReaper
      BY <1>1 DEF CreateCandidate, OpenRequests
    <3>3. Cardinality(OpenRequests) \in Nat
      BY OpenCount DEF OpenRequests
    <3> QED BY <1>0, <2>4, <3>1, <3>2, <3>3 DEF RowsFit
  <2>10. memoryPass' = memoryPass
    BY <1>1 DEF CreateCandidate
  <2> QED BY <2>2, <2>3, <2>7, <2>8, <2>9, <2>10, SameRows, RowsStep
<1>2. ASSUME NEW i \in MemoryItems, NEW h \in MemoryHandlers, NEW status \in MemoryStatuses,
             TransitionRead(h, i, status)
      PROVE  MemoryTypeInv'
  <2>1. [item |-> i, to |-> status] \in [item : MemoryItems, to : MemoryStatuses]
    OBVIOUS
  <2>2. /\ memoryRequest' = [memoryRequest EXCEPT ![h] = [item |-> i, to |-> status]]
        /\ memoryRequest[h] = MemoryClosed
        /\ UNCHANGED <<memoryTable, memoryEvents, memoryOutbox, memoryIndex, memoryPass,
                       memoryReaper, memoryCrashes, memoryRetrieval, memoryStanding>>
    BY <1>2 DEF TransitionRead
  <2>3. OtherTypes'
    BY <1>0, <2>1, <2>2 DEF OtherTypes
  <2>4. [item |-> i, to |-> status] # MemoryClosed
    BY <2>1, RecordsDiffer
  <2>5. OpenRequests' = OpenRequests \cup {h} /\ h \notin OpenRequests
    BY <1>0, <2>2, <2>4 DEF OpenRequests, OtherTypes
  <2>6. RowsFit'
    <3>1. Len(memoryOutbox) + Cardinality(OpenRequests) + Len(memoryReaper.batch) + 1
            <= MemoryMaxRows
      BY <1>2 DEF TransitionRead, MemoryRoom, OpenRequests
    <3>2. Cardinality(OpenRequests') = Cardinality(OpenRequests) + 1 /\ Cardinality(OpenRequests) \in Nat
      <4>1. OpenRequests \in SUBSET MemoryHandlers
        BY DEF OpenRequests
      <4>2. PICK S \in SUBSET MemoryHandlers : S = OpenRequests
        BY <4>1
      <4> QED BY <2>5, <4>2, OpenCount
    <3> QED BY <1>0, <2>2, <3>1, <3>2 DEF RowsFit
  <2>7. RequestsMove'
    <3>1. status \in {"confirmed", "rejected", "deprecated", "deleted_pending_purge"}
      <4>1. memoryTable[i] \in MemoryItem
        BY <1>0, <1>2 DEF TransitionRead, Stored, OtherTypes
      <4>2. memoryTable[i].status \in MemoryStatuses
        BY <4>1 DEF MemoryItem
      <4>3. status \in ValidTransitions[memoryTable[i].status]
        BY <1>2 DEF TransitionRead
      <4> QED BY <4>2, <4>3 DEF ValidTransitions, MemoryStatuses
    <3>2. memoryRequest'[h].to = status /\ \A g \in MemoryHandlers : g # h => memoryRequest'[g] = memoryRequest[g]
      BY <1>0, <2>2 DEF OtherTypes
    <3> QED BY <2>5, <3>1, <3>2 DEF MemoryTypeInv, RequestsMove, OpenRequests
  <2> QED BY <2>2, <2>3, <2>6, <2>7, RowsUnchanged
<1>3. ASSUME NEW i \in MemoryItems, GraceElapses(i) PROVE MemoryTypeInv'
  <2>1. memoryTable' \in [MemoryItems -> MemoryItem \cup {NoItem, Purged}]
    <3>1. memoryTable[i] \in MemoryItem
      BY <1>0, <1>3 DEF GraceElapses, Stored, OtherTypes
    <3>2. [memoryTable[i] EXCEPT !.purge = "elapsed"] \in MemoryItem
      BY <3>1 DEF MemoryItem
    <3> QED BY <1>0, <1>3, <3>2 DEF GraceElapses, OtherTypes
  <2>2. OtherTypes' /\ UNCHANGED <<memoryOutbox, memoryPass, memoryRequest, memoryReaper>>
    BY <1>0, <1>3, <2>1 DEF GraceElapses, OtherTypes
  <2> QED BY <2>2, RowsUnchanged, RoomUnchanged
<1>4. ASSUME NEW h \in MemoryHandlers, TransitionCommit(h) PROVE MemoryTypeInv'
  <2>0. PICK i, to : i = memoryRequest[h].item /\ to = memoryRequest[h].to
    OBVIOUS
  <2>1. /\ i \in MemoryItems
        /\ to \in {"confirmed", "rejected", "deprecated", "deleted_pending_purge"}
        /\ memoryRequest' = [memoryRequest EXCEPT ![h] = MemoryClosed] /\ h \in OpenRequests
        /\ UNCHANGED <<memoryIndex, memoryPass, memoryReaper, memoryCrashes, memoryRetrieval>>
    BY <1>4, <2>0, CommitEffect
  <2>2. OpenRequests' = OpenRequests \ {h}
    BY <1>0, <2>1 DEF OpenRequests, OtherTypes
  <2>3. Cardinality(OpenRequests') = Cardinality(OpenRequests) - 1 /\ Cardinality(OpenRequests) \in Nat
    <3>1. OpenRequests \in SUBSET MemoryHandlers
      BY DEF OpenRequests
    <3>2. PICK S \in SUBSET MemoryHandlers : S = OpenRequests
      BY <3>1
    <3> QED BY <2>1, <2>2, <3>2, OpenCount
  <2>4. RequestsMove'
    BY <1>0, <2>1, <2>2 DEF MemoryTypeInv, RequestsMove, OpenRequests, OtherTypes
  <2>5. CASE Stored(i)
    <3>1. /\ memoryTable' \in [MemoryItems -> MemoryItem \cup {NoItem, Purged}]
          /\ memoryEvents' = [memoryEvents EXCEPT ![i] = Append(memoryEvents[i], to)]
          /\ memoryOutbox' = Append(memoryOutbox, MemoryRow(i, "upsert"))
          /\ StandingFollows
      BY <1>4, <2>0, <2>5, CommitEffect
    <3>2. memoryEvents' \in [MemoryItems -> Seq(MemoryStatuses)]
      <4>1. to \in MemoryStatuses /\ memoryEvents[i] \in Seq(MemoryStatuses)
        BY <1>0, <2>1 DEF OtherTypes, MemoryStatuses
      <4>2. Append(memoryEvents[i], to) \in Seq(MemoryStatuses)
        BY <4>1
      <4> QED BY <1>0, <3>1, <4>2 DEF OtherTypes
    <3>3. OtherTypes'
      BY <1>0, <2>1, <3>1, <3>2, StandingType DEF OtherTypes
    <3>4. PICK e : e = <<MemoryRow(i, "upsert")>>
      OBVIOUS
    <3>5. /\ e \in Seq(OutboxRow) /\ Len(e) = 1
          /\ \A k \in 1..Len(e) : e[k].status = "pending" /\ e[k].attempts = 0
      BY <2>1, <3>4, FreshRow
    <3>6. memoryOutbox' = memoryOutbox \o e
      <4>1. MemoryRow(i, "upsert") \in OutboxRow /\ memoryOutbox \in Seq(OutboxRow)
        BY <1>0, <2>1, OutboxShape, FreshRow
      <4> QED BY <3>1, <3>4, <4>1, OneBehind
    <3>7. Len(memoryOutbox') = Len(memoryOutbox) + 1
      <4>1. Len(memoryOutbox') = Len(memoryOutbox) + Len(e)
        BY <2>1, <3>5, <3>6, SameRows, FreshRowsKeepPass
      <4> QED BY <3>5, <4>1
    <3>8. RowsFit'
      BY <1>0, <2>1, <2>3, <3>7 DEF MemoryTypeInv, RowsFit
    <3> QED BY <2>1, <2>4, <3>3, <3>5, <3>6, <3>8, SameRows, RowsStep
  <2>6. CASE ~Stored(i)
    <3>1. UNCHANGED <<memoryTable, memoryEvents, memoryOutbox, memoryStanding>>
      BY <1>4, <2>0, <2>6, CommitEffect
    <3>2. OtherTypes'
      BY <1>0, <2>1, <3>1 DEF OtherTypes
    <3>3. RowsFit'
      BY <1>0, <2>1, <2>3, <3>1, CuratedMemoryAssumption DEF MemoryTypeInv, RowsFit
    <3> QED BY <2>1, <2>4, <3>1, <3>2, <3>3, RowsUnchanged
  <2> QED BY <2>5, <2>6
<1>5. ASSUME NEW n \in 1..MemoryReapBatch, NEW batch \in [1..n -> MemoryItems],
             ReapSelect(n, batch)
      PROVE  MemoryTypeInv'
  <2>1. UNCHANGED <<memoryTable, memoryEvents, memoryOutbox, memoryIndex, memoryRequest,
                    memoryPass, memoryCrashes, memoryRetrieval, memoryStanding>>
    BY <1>5 DEF ReapSelect
  <2>2. /\ memoryReaper.batch = <<>> /\ Len(memoryReaper'.batch) = n /\ n \in Nat
        /\ memoryReaper' \in [batch : Seq(MemoryItems), heard : [MemoryItems -> Nat]]
    BY <1>5, ReapSelectEffect
  <2>3. OtherTypes'
    BY <1>0, <2>1, <2>2 DEF OtherTypes
  <2>4. RowsFit'
    <3>1. Len(memoryOutbox) + Cardinality(OpenRequests) + Len(memoryReaper.batch) + n
            <= MemoryMaxRows
      BY <1>5 DEF ReapSelect, MemoryRoom, OpenRequests
    <3>2. OpenRequests' = OpenRequests
      BY <2>1 DEF OpenRequests
    <3>3. Cardinality(OpenRequests) \in Nat /\ Len(memoryReaper.batch) = 0
      BY <2>2, OpenCount DEF OpenRequests
    <3> QED BY <1>0, <2>1, <2>2, <3>1, <3>2, <3>3 DEF RowsFit
  <2>5. RequestsMove'
    BY <2>1 DEF MemoryTypeInv, RequestsMove, OpenRequests
  <2> QED BY <2>1, <2>3, <2>4, <2>5, RowsUnchanged
<1>6. ASSUME NEW ahead, ReapCommit(ahead) PROVE MemoryTypeInv'
  <2>1. PICK rows \in Seq(OutboxRow), e \in Seq(OutboxRow) :
          /\ memoryOutbox' = rows \o e /\ SameButEvents(rows)
          /\ Len(e) = Len(memoryReaper.batch)
          /\ \A k \in 1..Len(e) : e[k].status = "pending" /\ e[k].attempts = 0
    BY <1>6, ReapCommitEffect
  <2>2. /\ memoryTable' = [i \in MemoryItems |-> IF i \in Selected THEN Purged
                                                 ELSE memoryTable[i]]
        /\ memoryEvents' = [i \in MemoryItems |->
             IF i \in Selected THEN Append(memoryEvents[i], "purged") ELSE memoryEvents[i]]
        /\ memoryReaper' \in [batch : Seq(MemoryItems), heard : [MemoryItems -> Nat]]
        /\ memoryReaper'.batch = <<>> /\ StandingFollows
        /\ UNCHANGED <<memoryIndex, memoryRequest, memoryPass, memoryCrashes, memoryRetrieval>>
    BY <1>6, ReapCommitPurges
  <2>3. memoryTable' \in [MemoryItems -> MemoryItem \cup {NoItem, Purged}]
    BY <1>0, <2>2 DEF OtherTypes
  <2>4. memoryEvents' \in [MemoryItems -> Seq(MemoryStatuses)]
    <3>1. \A i \in MemoryItems : /\ memoryEvents[i] \in Seq(MemoryStatuses)
                                 /\ Append(memoryEvents[i], "purged") \in Seq(MemoryStatuses)
      BY <1>0 DEF OtherTypes, MemoryStatuses
    <3> QED BY <2>2, <3>1
  <2>5. memoryStanding' \subseteq MemoryItems
    BY <1>0, <2>2, StandingType
  <2>6. OtherTypes'
    BY <1>0, <2>2, <2>3, <2>4, <2>5 DEF OtherTypes
  <2>7. RowsFit'
    <3>1. OpenRequests' = OpenRequests /\ Cardinality(OpenRequests) \in Nat
      BY <2>2, OpenCount DEF OpenRequests
    <3>2. Len(memoryOutbox') = Len(memoryOutbox) + Len(memoryReaper.batch)
      BY <2>1, <2>2, FreshRowsKeepPass
    <3>3. Len(memoryReaper'.batch) = 0
      BY <2>2
    <3> QED BY <1>0, <3>1, <3>2, <3>3 DEF MemoryTypeInv, RowsFit
  <2>8. RequestsMove'
    BY <2>2 DEF MemoryTypeInv, RequestsMove, OpenRequests
  <2> QED BY <2>1, <2>2, <2>6, <2>7, <2>8, RowsStep
<1>7. CASE ReapLost
  <2>1. /\ memoryReaper' = [memoryReaper EXCEPT !.batch = <<>>]
        /\ UNCHANGED <<memoryTable, memoryEvents, memoryOutbox, memoryIndex, memoryRequest,
                       memoryPass, memoryCrashes, memoryRetrieval, memoryStanding>>
    BY <1>7 DEF ReapLost
  <2>2. /\ memoryReaper' \in [batch : Seq(MemoryItems), heard : [MemoryItems -> Nat]]
        /\ Len(memoryReaper'.batch) = 0
    <3>1. /\ memoryReaper = [batch |-> memoryReaper.batch, heard |-> memoryReaper.heard]
          /\ memoryReaper.heard \in [MemoryItems -> Nat]
      BY <1>0, ReaperShape
    <3>2. memoryReaper' = [batch |-> <<>>, heard |-> memoryReaper.heard]
      BY <2>1, <3>1
    <3> QED BY <3>1, <3>2
  <2>3. OtherTypes'
    BY <1>0, <2>1, <2>2 DEF OtherTypes
  <2>4. RowsFit'
    <3>1. OpenRequests' = OpenRequests /\ Cardinality(OpenRequests) \in Nat
      BY <2>1, OpenCount DEF OpenRequests
    <3> QED BY <1>0, <2>1, <2>2, <3>1, CuratedMemoryAssumption DEF MemoryTypeInv, RowsFit
  <2>5. RequestsMove'
    BY <2>1 DEF MemoryTypeInv, RequestsMove, OpenRequests
  <2> QED BY <2>1, <2>3, <2>4, <2>5, RowsUnchanged
<1> QED BY <1>1, <1>2, <1>3, <1>4, <1>5, <1>6, <1>7 DEF MemoryRequestStep

\* The daemon keeps the types.
LEMMA TypeDrain ==
  ASSUME MemoryTypeInv, MemoryDrain
  PROVE  MemoryTypeInv'
<1>0. MemoryTypeOK /\ OtherTypes
  BY TypesTogether DEF MemoryTypeInv
<1>1. ASSUME NEW due, MemoryLease(due) PROVE MemoryTypeInv'
  <2>1. UNCHANGED <<memoryTable, memoryEvents, memoryIndex, memoryRequest, memoryReaper,
                    memoryCrashes, memoryRetrieval, memoryStanding>>
    BY <1>1 DEF MemoryLease
  <2>2. /\ memoryOutbox' \in Seq(OutboxRow) /\ Len(memoryOutbox') = Len(memoryOutbox)
        /\ memoryPass' \in PassTypes(OutboxIds) /\ memoryPass'.call = "none"
        /\ \A n \in memoryPass'.todo :
             /\ memoryOutbox[n].status \in {"pending", "processing"}
             /\ memoryOutbox'[n].status = "processing"
             /\ memoryOutbox'[n].attempts = memoryOutbox[n].attempts
             /\ memoryPass'.tries[n] = memoryOutbox[n].attempts
        /\ \A n \in OutboxIds \ memoryPass'.todo : memoryOutbox'[n] = memoryOutbox[n]
    BY <1>1, LeaseEffect DEF PassTypes
  <2>3. OutboxIds' = OutboxIds /\ DOMAIN memoryOutbox' = OutboxIds
    BY <2>2 DEF OutboxIds
  <2>4. MemoryTypeOK'
    BY <1>0, <2>1, <2>2, <2>3 DEF MemoryTypeOK, OtherTypes, PassTypes, OutboxRow
  <2>5. AttemptsLeft'
    BY <2>2, <2>3 DEF MemoryTypeInv, AttemptsLeft
  <2>6. PassHolds'
    BY <2>2 DEF PassHolds
  <2>7. RowsFit' /\ RequestsMove'
    BY <2>1, <2>2, RoomUnchanged
  <2> QED BY <2>4, <2>5, <2>6, <2>7 DEF MemoryTypeInv
<1>2. ASSUME NEW ok \in BOOLEAN, MemoryProject(ok) PROVE MemoryTypeInv'
  <2>1. /\ memoryPass.todo # {}
        /\ memoryIndex' = memoryIndex \/ memoryIndex' = Projected(memoryIndex, memoryOutbox[MemoryTurn])
        /\ memoryPass' = [memoryPass EXCEPT !.call = IF ok THEN "done" ELSE "failed"]
        /\ UNCHANGED <<memoryTable, memoryEvents, memoryOutbox, memoryRequest, memoryReaper,
                       memoryCrashes, memoryRetrieval, memoryStanding>>
    BY <1>2 DEF MemoryProject
  <2>2. memoryOutbox[MemoryTurn] \in OutboxRow
    BY <1>0, <2>1, TurnIsFirst, OutboxShape
  <2>3. memoryIndex' \subseteq MemoryItems
    BY <1>0, <2>1, <2>2 DEF Projected, OutboxRow, OtherTypes
  <2>4. memoryPass' \in PassTypes(DOMAIN memoryOutbox)
        /\ memoryPass'.todo = memoryPass.todo /\ memoryPass'.tries = memoryPass.tries
    BY <1>0, <2>1 DEF MemoryTypeOK, PassTypes
  <2>5. MemoryTypeOK'
    BY <1>0, <2>1, <2>3, <2>4 DEF MemoryTypeOK, OtherTypes, PassTypes
  <2>6. AttemptsLeft' /\ PassHolds'
    BY <2>1, <2>4 DEF MemoryTypeInv, AttemptsLeft, PassHolds, OutboxIds
  <2>7. RowsFit' /\ RequestsMove'
    BY <2>1, RoomUnchanged
  <2> QED BY <2>5, <2>6, <2>7 DEF MemoryTypeInv
<1>3. ASSUME MemoryMark PROVE MemoryTypeInv'
  <2>1. UNCHANGED <<memoryTable, memoryEvents, memoryIndex, memoryRequest, memoryReaper,
                    memoryCrashes, memoryRetrieval, memoryStanding>>
    BY <1>3 DEF MemoryMark
  <2>2. PICK t : t = MemoryTurn
    OBVIOUS
  <2>3. /\ t \in memoryPass.todo /\ t \in OutboxIds /\ memoryPass.call \in {"done", "failed"}
        /\ memoryOutbox' \in Seq(OutboxRow) /\ Len(memoryOutbox') = Len(memoryOutbox)
        /\ \A n \in OutboxIds : n # t => memoryOutbox'[n] = memoryOutbox[n]
        /\ memoryPass.call = "done" => memoryOutbox'[t].status = "done"
        /\ memoryPass.call = "failed" =>
             memoryOutbox'[t].status \in {"pending", "failed"} /\ memoryOutbox'[t].attempts > 0
        /\ memoryOutbox'[t].status = "pending" => memoryOutbox'[t].attempts < MemoryMaxAttempts
        /\ memoryPass' \in PassTypes(OutboxIds)
        /\ memoryPass'.todo = memoryPass.todo \ {t} /\ memoryPass'.call = "none"
        /\ \A n \in memoryPass'.todo : memoryPass'.tries[n] = memoryPass.tries[n]
    BY <1>3, <2>2, MarkEffect DEF PassTypes
  <2>4. OutboxIds' = OutboxIds /\ DOMAIN memoryOutbox' = OutboxIds
    BY <2>3 DEF OutboxIds
  <2>5. MemoryTypeOK'
    BY <1>0, <2>1, <2>3, <2>4 DEF MemoryTypeOK, OtherTypes, PassTypes, OutboxRow
  <2>6. AttemptsLeft'
    <3>1. SUFFICES ASSUME NEW n \in OutboxIds
                   PROVE  /\ memoryOutbox'[n].status \in {"pending", "processing"}
                               => memoryOutbox'[n].attempts < MemoryMaxAttempts
                          /\ memoryOutbox'[n].status = "failed" => memoryOutbox'[n].attempts > 0
      BY <2>4 DEF AttemptsLeft
    <3>2. CASE n = t
      BY <2>3, <3>2
    <3>3. CASE n # t
      BY <2>3, <3>3 DEF MemoryTypeInv, AttemptsLeft
    <3> QED BY <3>2, <3>3
  <2>7. PassHolds'
    <3>1. memoryPass.todo \subseteq OutboxIds
      BY <1>0, OutboxShape
    <3> QED BY <2>3, <3>1 DEF MemoryTypeInv, PassHolds
  <2>8. RowsFit' /\ RequestsMove'
    BY <2>1, <2>3, RoomUnchanged
  <2> QED BY <2>5, <2>6, <2>7, <2>8 DEF MemoryTypeInv
<1> QED BY <1>1, <1>2, <1>3 DEF MemoryDrain

\* The policy answers with one of its usages.
LEMMA UsageType == \A item : Usage(item) \in MemoryUsages
BY DEF Usage, MemoryUsages

\* A crash and a retrieval keep the types.
LEMMA TypeOthers ==
  ASSUME MemoryTypeInv, MemoryCrash \/ MemoryRead \/ UNCHANGED memoryVars
  PROVE  MemoryTypeInv'
<1>0. MemoryTypeOK /\ OtherTypes
  BY TypesTogether DEF MemoryTypeInv
<1>1. CASE MemoryCrash
  <2>1. /\ memoryPass' = MemoryIdle /\ memoryCrashes < MemoryMaxCrashes
        /\ memoryCrashes' = memoryCrashes + 1
        /\ UNCHANGED <<memoryTable, memoryEvents, memoryOutbox, memoryIndex, memoryRequest,
                       memoryReaper, memoryRetrieval, memoryStanding>>
    BY <1>1 DEF MemoryCrash
  <2>2. memoryCrashes' \in 0..MemoryMaxCrashes
    BY <1>0, <2>1, CuratedMemoryAssumption DEF OtherTypes
  <2>3. memoryPass' \in PassTypes(DOMAIN memoryOutbox)
        /\ memoryPass'.todo = {} /\ memoryPass'.call = "none"
    BY <2>1, IdlePass DEF PassTypes
  <2>4. MemoryTypeOK'
    BY <1>0, <2>1, <2>2, <2>3 DEF MemoryTypeOK, OtherTypes, PassTypes
  <2>5. AttemptsLeft' /\ PassHolds'
    BY <2>1, <2>3 DEF MemoryTypeInv, AttemptsLeft, PassHolds, OutboxIds
  <2>6. RowsFit' /\ RequestsMove'
    BY <2>1, RoomUnchanged
  <2> QED BY <2>4, <2>5, <2>6 DEF MemoryTypeInv
<1>2. CASE MemoryRead
  <2>1. UNCHANGED <<memoryTable, memoryEvents, memoryOutbox, memoryIndex, memoryRequest,
                    memoryPass, memoryReaper, memoryCrashes>>
    BY <1>2 DEF MemoryRead, Query, Revalidate, Assemble
  <2>2. memoryStanding' \subseteq MemoryItems
    BY <1>0, <1>2 DEF MemoryRead, Query, Revalidate, Assemble, OtherTypes
  <2>3. memoryRetrieval' \in [open : BOOLEAN, left : SUBSET MemoryItems,
                              entries : SUBSET [item : MemoryItems, usage : MemoryUsages]]
    <3>1. ASSUME NEW found \in SUBSET MemoryItems, Query(found)
          PROVE  memoryRetrieval' \in [open : BOOLEAN, left : SUBSET MemoryItems,
                              entries : SUBSET [item : MemoryItems, usage : MemoryUsages]]
      BY <3>1 DEF Query
    <3>2. ASSUME NEW i \in MemoryItems, Revalidate(i)
          PROVE  memoryRetrieval' \in [open : BOOLEAN, left : SUBSET MemoryItems,
                              entries : SUBSET [item : MemoryItems, usage : MemoryUsages]]
      <4>1. PICK usage :
              /\ usage = IF Stored(i) /\ Injectable(memoryTable[i].status)
                            /\ memoryTable[i].purge # "elapsed"
                         THEN Usage(memoryTable[i]) ELSE "never"
              /\ memoryRetrieval' = [memoryRetrieval EXCEPT !.left = @ \ {i},
                   !.entries = IF usage = "never" THEN @ ELSE @ \cup {[item |-> i, usage |-> usage]}]
        BY <3>2 DEF Revalidate
      <4>5. usage \in MemoryUsages
        BY <4>1, UsageType DEF MemoryUsages
      <4>2. memoryRetrieval \in [open : BOOLEAN, left : SUBSET MemoryItems,
                              entries : SUBSET [item : MemoryItems, usage : MemoryUsages]]
        BY <1>0 DEF OtherTypes
      <4>3. PICK entries \in SUBSET [item : MemoryItems, usage : MemoryUsages] :
              memoryRetrieval' = [memoryRetrieval EXCEPT !.left = @ \ {i}, !.entries = entries]
        <5>1. [item |-> i, usage |-> usage] \in [item : MemoryItems, usage : MemoryUsages]
          BY <4>5
        <5>2. PICK entries :
                /\ entries = IF usage = "never" THEN memoryRetrieval.entries
                             ELSE memoryRetrieval.entries \cup {[item |-> i, usage |-> usage]}
                /\ memoryRetrieval' = [memoryRetrieval EXCEPT !.left = @ \ {i}, !.entries = entries]
          BY <4>1, <4>2
        <5>3. memoryRetrieval.entries \in SUBSET [item : MemoryItems, usage : MemoryUsages]
          BY <4>2
        <5>4. entries \in SUBSET [item : MemoryItems, usage : MemoryUsages]
          BY <5>1, <5>2, <5>3
        <5> QED BY <5>2, <5>4
      <4>4. memoryRetrieval' = [open |-> memoryRetrieval.open, left |-> memoryRetrieval.left \ {i},
                                entries |-> entries]
        BY <4>2, <4>3
      <4> QED BY <4>2, <4>4
    <3>3. CASE Assemble
      BY <3>3 DEF Assemble, NoRetrieval
    <3> QED BY <1>2, <3>1, <3>2, <3>3 DEF MemoryRead
  <2>4. OtherTypes'
    BY <1>0, <2>1, <2>2, <2>3 DEF OtherTypes
  <2> QED BY <2>1, <2>4, RowsUnchanged, RoomUnchanged
<1>3. CASE UNCHANGED memoryVars
  <2>1. OtherTypes' /\ UNCHANGED <<memoryOutbox, memoryPass, memoryRequest, memoryReaper>>
    BY <1>0, <1>3 DEF OtherTypes, memoryVars
  <2> QED BY <2>1, RowsUnchanged, RoomUnchanged
<1> QED BY <1>1, <1>2, <1>3

\* Nothing is filed, written or asked at first.
LEMMA TypeInit == MemoryInit => MemoryTypeInv
<1> SUFFICES ASSUME MemoryInit PROVE MemoryTypeInv
  OBVIOUS
<1>1. /\ memoryOutbox = <<>> /\ Len(memoryOutbox) = 0 /\ DOMAIN memoryOutbox = {} /\ OutboxIds = {}
  BY DEF MemoryInit, OutboxIds
<1>2. OpenRequests = {} /\ Cardinality(OpenRequests) = 0
  BY FS_EmptySet DEF MemoryInit, OpenRequests
<1>3. OtherTypes /\ Len(memoryReaper.batch) = 0
  BY CuratedMemoryAssumption DEF MemoryInit, OtherTypes, NoRetrieval
<1>4. memoryPass \in PassTypes({}) /\ memoryPass.todo = {} /\ memoryPass.call = "none"
  BY IdlePass DEF MemoryInit, PassTypes
<1>5. MemoryTypeOK
  BY <1>1, <1>3, <1>4, TypesTogether
<1> QED BY <1>1, <1>2, <1>3, <1>4, <1>5, CuratedMemoryAssumption
        DEF MemoryTypeInv, RowsFit, RequestsMove, AttemptsLeft, PassHolds

\* Every step keeps the types.
LEMMA TypeStep == MemoryTypeInv /\ [MemoryNext]_memoryVars => MemoryTypeInv'
BY TypeRequest, TypeDrain, TypeOthers DEF MemoryNext

\* The type invariant of curated memory.
THEOREM CuratedTypes == MemorySpec => []MemoryTypeOK
<1>1. MemoryTypeInv => MemoryTypeOK
  BY DEF MemoryTypeInv
<1> QED BY <1>1, TypeInit, TypeStep, PTL DEF MemorySpec
-----------------------------------------------------------------------------
(* Nothing withdrawn reaches a prompt.                                     *)

NotWithdrawn == {i \in MemoryItems : ~Withdrawn(memoryTable[i])}

\* While a retrieval is open, the history holds every item that is in force.
RetrievalInv ==
  /\ ~memoryRetrieval.open => memoryRetrieval = NoRetrieval
  /\ memoryRetrieval.open => NotWithdrawn \subseteq memoryStanding
  /\ RetrievalSafe

\* A step that writes the table, and the history with it.
LEMMA HistoryKeepsUp ==
  ASSUME RetrievalInv, memoryRetrieval' = memoryRetrieval, StandingFollows
  PROVE  RetrievalInv'
<1>1. CASE memoryRetrieval.open
  BY <1>1 DEF RetrievalInv, StandingFollows, RetrievalSafe, NotWithdrawn
<1>2. CASE ~memoryRetrieval.open
  BY <1>2 DEF RetrievalInv, RetrievalSafe, NoRetrieval
<1> QED BY <1>1, <1>2

\* A step that moves no status and touches no retrieval.
LEMMA NothingWithdrawn ==
  ASSUME RetrievalInv, UNCHANGED <<memoryRetrieval, memoryStanding>>,
         \A i \in MemoryItems : memoryTable'[i].status = memoryTable[i].status
  PROVE  RetrievalInv'
<1>1. NotWithdrawn' = NotWithdrawn
  BY DEF NotWithdrawn, Withdrawn
<1> QED BY <1>1 DEF RetrievalInv, RetrievalSafe

\* What is read of the table and found injectable is in force at that moment.
LEMMA InjectableStands ==
  ASSUME MemoryTypeOK, NEW i \in MemoryItems, Stored(i), Injectable(memoryTable[i].status)
  PROVE  i \in NotWithdrawn
<1>1. memoryTable[i].status # "none"
  <2>1. memoryTable[i] \in MemoryItem
    BY DEF Stored, MemoryTypeOK
  <2>2. memoryTable[i].status \in MemoryStatuses
    BY <2>1 DEF MemoryItem
  <2> QED BY <2>2 DEF MemoryStatuses
<1> QED BY <1>1 DEF NotWithdrawn, Withdrawn, Injectable

\* Every step keeps the history and the bundle.
LEMMA RetrievalStep ==
  ASSUME MemoryTypeOK, RetrievalInv, [MemoryNext]_memoryVars
  PROVE  RetrievalInv'
<1>1. CASE MemoryRequestStep
  <2>1. ASSUME NEW i \in MemoryItems, NEW type, NEW scope, CreateCandidate(i, type, scope)
        PROVE  RetrievalInv'
    BY <2>1, HistoryKeepsUp DEF CreateCandidate
  <2>2. ASSUME NEW i \in MemoryItems, NEW h, NEW status, TransitionRead(h, i, status)
        PROVE  RetrievalInv'
    BY <2>2, NothingWithdrawn DEF TransitionRead
  <2>3. ASSUME NEW i \in MemoryItems, GraceElapses(i) PROVE RetrievalInv'
    <3>1. /\ memoryTable' = [memoryTable EXCEPT ![i].purge = "elapsed"]
          /\ UNCHANGED <<memoryRetrieval, memoryStanding>>
      BY <2>3 DEF GraceElapses
    <3>2. \A j \in MemoryItems : memoryTable'[j].status = memoryTable[j].status
      BY <3>1 DEF MemoryTypeOK, MemoryItem, NoItem, Purged
    <3> QED BY <3>1, <3>2, NothingWithdrawn
  <2>4. ASSUME NEW h \in MemoryHandlers, TransitionCommit(h) PROVE RetrievalInv'
    <3>1. CASE Stored(memoryRequest[h].item)
      BY <2>4, <3>1, HistoryKeepsUp DEF TransitionCommit
    <3>2. CASE ~Stored(memoryRequest[h].item)
      BY <2>4, <3>2, NothingWithdrawn DEF TransitionCommit
    <3> QED BY <3>1, <3>2
  <2>5. ASSUME NEW ahead, ReapCommit(ahead) PROVE RetrievalInv'
    BY <2>5, HistoryKeepsUp DEF ReapCommit
  <2>6. ASSUME ReapLost \/ \E n, batch : ReapSelect(n, batch) PROVE RetrievalInv'
    BY <2>6, NothingWithdrawn DEF ReapLost, ReapSelect
  <2> QED BY <1>1, <2>1, <2>2, <2>3, <2>4, <2>5, <2>6 DEF MemoryRequestStep
<1>2. CASE MemoryDrain \/ MemoryCrash \/ UNCHANGED memoryVars
  BY <1>2, NothingWithdrawn
     DEF MemoryDrain, MemoryLease, MemoryProject, MemoryMark, MemoryCrash, memoryVars
<1>3. CASE MemoryRead
  <2>1. ASSUME NEW found, Query(found) PROVE RetrievalInv'
    BY <2>1 DEF Query, RetrievalInv, RetrievalSafe, NotWithdrawn
  <2>2. ASSUME NEW i \in MemoryItems, Revalidate(i) PROVE RetrievalInv'
    <3>1. PICK usage :
            /\ usage = IF Stored(i) /\ Injectable(memoryTable[i].status)
                          /\ memoryTable[i].purge # "elapsed"
                       THEN Usage(memoryTable[i]) ELSE "never"
            /\ memoryRetrieval' = [memoryRetrieval EXCEPT !.left = @ \ {i},
                 !.entries = IF usage = "never" THEN @ ELSE @ \cup {[item |-> i, usage |-> usage]}]
      BY <2>2 DEF Revalidate
    <3>2. UNCHANGED <<memoryTable, memoryStanding>> /\ i \in memoryRetrieval.left
      BY <2>2 DEF Revalidate
    <3>3. memoryRetrieval.open
      BY <3>2 DEF RetrievalInv, NoRetrieval
    <3>4. memoryRetrieval'.open = memoryRetrieval.open
      BY <3>1 DEF MemoryTypeOK
    <3>5. memoryRetrieval'.entries = IF usage = "never" THEN memoryRetrieval.entries
                                     ELSE memoryRetrieval.entries \cup {[item |-> i, usage |-> usage]}
      <4>1. memoryRetrieval = [open |-> memoryRetrieval.open, left |-> memoryRetrieval.left,
                               entries |-> memoryRetrieval.entries]
        BY DEF MemoryTypeOK
      <4> QED BY <3>1, <4>1
    <3>6. usage # "never" => i \in memoryStanding
      BY <3>1, <3>3, InjectableStands DEF RetrievalInv
    <3>7. \A e \in memoryRetrieval'.entries : e.item \in memoryStanding
      BY <3>5, <3>6 DEF RetrievalInv, RetrievalSafe
    <3> QED BY <3>2, <3>3, <3>4, <3>7 DEF RetrievalInv, RetrievalSafe, NotWithdrawn
  <2>3. CASE Assemble
    BY <2>3 DEF Assemble, RetrievalInv, RetrievalSafe, NoRetrieval
  <2> QED BY <1>3, <2>1, <2>2, <2>3 DEF MemoryRead
<1> QED BY <1>1, <1>2, <1>3 DEF MemoryNext

\* "every Qdrant result is re-checked against LIVE Postgres before it may ever
\* reach a prompt": whatever the index answers and however requests, reaper and
\* daemon interleave with the checks, an item in the bundle was in force at some
\* time since the query began.
THEOREM PromptsHoldLiveMemory == MemorySpec => []RetrievalSafe
<1>1. MemoryInit => RetrievalInv
  BY DEF MemoryInit, RetrievalInv, RetrievalSafe, NoRetrieval
<1>2. RetrievalInv /\ MemoryTypeOK /\ [MemoryNext]_memoryVars => RetrievalInv'
  BY RetrievalStep
<1>3. RetrievalInv => RetrievalSafe
  BY DEF RetrievalInv
<1> QED BY <1>1, <1>2, <1>3, CuratedTypes, PTL DEF MemorySpec
-----------------------------------------------------------------------------
(* Only what was deleted is purged.                                        *)

\* When the reaper selected the item, its last event was the deletion.
HeardDeletion(i) ==
  /\ memoryReaper.heard[i] \in 1..Len(memoryEvents[i])
  /\ memoryEvents[i][memoryReaper.heard[i]] = "deleted_pending_purge"

\* The last event of a stored item is its status; what the reaper has selected,
\* or purged, it has found deleted.
EventsTell(i) ==
  /\ memoryTable[i] = NoItem => memoryEvents[i] = <<>>
  /\ Stored(i) => memoryTable[i].status = IF memoryEvents[i] = <<>> THEN "candidate"
                                         ELSE memoryEvents[i][Len(memoryEvents[i])]
  /\ memoryTable[i] = Purged \/ i \in Selected => HeardDeletion(i)

AllEventsTell == \A i \in MemoryItems : EventsTell(i)

\* The events after one more.
LEMMA OneEventMore ==
  ASSUME NEW s \in Seq(MemoryStatuses), NEW x \in MemoryStatuses, NEW t, t = Append(s, x)
  PROVE  /\ t \in Seq(MemoryStatuses) /\ Len(s) \in Nat /\ Len(t) = Len(s) + 1 /\ t[Len(t)] = x
         /\ t # <<>> /\ \A n \in 1..Len(s) : n \in 1..Len(t) /\ t[n] = s[n]
<1>1. /\ t \in Seq(MemoryStatuses) /\ Len(s) \in Nat /\ Len(t) = Len(s) + 1
      /\ t[Len(s) + 1] = x /\ \A n \in 1..Len(s) : t[n] = s[n]
  BY OneMore
<1>2. t # <<>>
  BY <1>1
<1> QED BY <1>1, <1>2

\* What the reaper has heard stays as it was when there is one event more.
LEMMA StillHeard ==
  ASSUME NEW i \in MemoryItems, HeardDeletion(i), memoryEvents[i] \in Seq(MemoryStatuses),
         NEW x \in MemoryStatuses, memoryEvents'[i] = Append(memoryEvents[i], x),
         memoryReaper'.heard[i] = memoryReaper.heard[i]
  PROVE  HeardDeletion(i)'
<1>1. PICK s : s = memoryEvents[i]
  OBVIOUS
<1>2. PICK t : t = memoryEvents'[i]
  OBVIOUS
<1>3. \A n \in 1..Len(s) : n \in 1..Len(t) /\ t[n] = s[n]
  BY <1>1, <1>2, OneEventMore
<1> QED BY <1>1, <1>2, <1>3 DEF HeardDeletion

\* An item whose row and events stay as they are, and of which the reaper hears
\* nothing new.
LEMMA SameEvents ==
  ASSUME NEW i \in MemoryItems, EventsTell(i), memoryEvents'[i] = memoryEvents[i],
         memoryReaper'.heard[i] = memoryReaper.heard[i], i \in Selected' => i \in Selected,
         \/ memoryTable'[i] = memoryTable[i]
         \/ Stored(i) /\ Stored(i)' /\ memoryTable'[i].status = memoryTable[i].status
  PROVE  EventsTell(i)'
BY DEF EventsTell, Stored, HeardDeletion

\* An item of which nothing changes, while the reaper stands still.
LEMMA SameReaper ==
  ASSUME memoryReaper' = memoryReaper
  PROVE  /\ \A i \in MemoryItems : memoryReaper'.heard[i] = memoryReaper.heard[i]
         /\ Selected' = Selected
BY DEF Selected

\* A committed request writes its event, the reaper the purge of what it deletes.
LEMMA EventsStep ==
  ASSUME MemoryTypeInv, AllEventsTell, [MemoryNext]_memoryVars
  PROVE  AllEventsTell'
<1>0. /\ memoryTable \in [MemoryItems -> MemoryItem \cup {NoItem, Purged}]
      /\ memoryEvents \in [MemoryItems -> Seq(MemoryStatuses)]
  BY DEF MemoryTypeInv, MemoryTypeOK
<1>1. SUFFICES ASSUME NEW i \in MemoryItems PROVE EventsTell(i)'
  BY DEF AllEventsTell
<1>2. EventsTell(i)
  BY DEF AllEventsTell
<1>3. CASE MemoryRequestStep
  <2>1. ASSUME NEW j \in MemoryItems, NEW type \in MemoryTypes, NEW scope \in MemoryScopes,
               CreateCandidate(j, type, scope)
        PROVE  EventsTell(i)'
    <3>1. memoryReaper' = memoryReaper /\ memoryEvents' = memoryEvents
      BY <2>1 DEF CreateCandidate
    <3>2. CASE i # j
      <4>1. memoryTable'[i] = memoryTable[i]
        BY <1>0, <2>1, <3>2 DEF CreateCandidate
      <4> QED BY <1>2, <3>1, <4>1, SameReaper, SameEvents
    <3>3. CASE i = j
      <4>1. /\ memoryEvents'[i] = <<>> /\ (i \in Selected => HeardDeletion(i))
            /\ memoryTable'[i] = [type |-> type, scope |-> scope, status |-> "candidate",
                                  purge |-> "unset"]
        BY <1>0, <1>2, <2>1, <3>3 DEF CreateCandidate, EventsTell
      <4>2. memoryTable'[i] \in MemoryItem /\ memoryTable'[i].status = "candidate"
        BY <4>1 DEF MemoryItem, MemoryStatuses
      <4>3. memoryTable'[i] # NoItem /\ memoryTable'[i] # Purged
        BY <4>2, RecordsDiffer
      <4>4. i \in Selected' => HeardDeletion(i)'
        BY <3>1, <4>1, SameReaper DEF HeardDeletion
      <4> QED BY <4>1, <4>2, <4>3, <4>4 DEF EventsTell
    <3> QED BY <3>2, <3>3
  <2>2. ASSUME NEW j \in MemoryItems, NEW h, NEW status, TransitionRead(h, j, status)
        PROVE  EventsTell(i)'
    <3>1. UNCHANGED <<memoryTable, memoryEvents, memoryReaper>>
      BY <2>2 DEF TransitionRead
    <3> QED BY <1>2, <3>1, SameReaper, SameEvents
  <2>3. ASSUME NEW j \in MemoryItems, GraceElapses(j) PROVE EventsTell(i)'
    <3>1. /\ memoryTable' = [memoryTable EXCEPT ![j].purge = "elapsed"] /\ Stored(j)
          /\ memoryEvents' = memoryEvents /\ memoryReaper' = memoryReaper
      BY <2>3 DEF GraceElapses
    <3>2. CASE i # j
      <4>1. memoryTable'[i] = memoryTable[i]
        BY <1>0, <3>1, <3>2
      <4> QED BY <1>2, <3>1, <4>1, SameReaper, SameEvents
    <3>3. CASE i = j
      <4>1. memoryTable[i] \in MemoryItem
        BY <1>0, <3>1, <3>3 DEF Stored
      <4>2. memoryTable'[i] \in MemoryItem /\ memoryTable'[i].status = memoryTable[i].status
        BY <1>0, <3>1, <3>3, <4>1 DEF MemoryItem
      <4>3. Stored(i) /\ Stored(i)'
        BY <3>1, <3>3, <4>2, RecordsDiffer DEF Stored
      <4> QED BY <1>2, <3>1, <4>2, <4>3, SameReaper, SameEvents
    <3> QED BY <3>2, <3>3
  <2>4. ASSUME NEW h \in MemoryHandlers, TransitionCommit(h) PROVE EventsTell(i)'
    <3>0. PICK j, to : j = memoryRequest[h].item /\ to = memoryRequest[h].to
      OBVIOUS
    <3>1. j \in MemoryItems /\ to \in MemoryStatuses /\ memoryReaper' = memoryReaper
      BY <2>4, <3>0, CommitEffect DEF MemoryStatuses
    <3>2. CASE ~Stored(j)
      <4>1. UNCHANGED <<memoryTable, memoryEvents>>
        BY <2>4, <3>0, <3>2, CommitEffect
      <4> QED BY <1>2, <3>1, <4>1, SameReaper, SameEvents
    <3>3. CASE Stored(j) /\ i # j
      <4>1. /\ memoryTable'[i] = memoryTable[i]
            /\ memoryEvents' = [memoryEvents EXCEPT ![j] = Append(memoryEvents[j], to)]
        BY <2>4, <3>0, <3>3, CommitEffect
      <4>2. memoryEvents'[i] = memoryEvents[i]
        BY <1>0, <3>3, <4>1
      <4> QED BY <1>2, <3>1, <4>1, <4>2, SameReaper, SameEvents
    <3>4. CASE Stored(j) /\ i = j
      <4>1. /\ memoryTable'[i] \in MemoryItem /\ memoryTable'[i].status = to
            /\ memoryEvents' = [memoryEvents EXCEPT ![i] = Append(memoryEvents[i], to)]
        BY <2>4, <3>0, <3>4, CommitEffect
      <4>2. memoryEvents'[i] = Append(memoryEvents[i], to)
        BY <1>0, <4>1
      <4>3. memoryEvents[i] \in Seq(MemoryStatuses)
        BY <1>0
      <4>4. memoryEvents'[i] # <<>> /\ memoryEvents'[i][Len(memoryEvents'[i])] = to
        BY <3>1, <4>2, <4>3, OneEventMore
      <4>5. memoryTable'[i] # NoItem /\ memoryTable'[i] # Purged
        BY <4>1, RecordsDiffer
      <4>6. i \in Selected' => HeardDeletion(i)'
        BY <1>2, <3>1, <4>2, <4>3, SameReaper, StillHeard DEF EventsTell
      <4> QED BY <4>1, <4>4, <4>5, <4>6 DEF EventsTell
    <3> QED BY <3>2, <3>3, <3>4
  <2>5. ASSUME NEW n \in 1..MemoryReapBatch, NEW batch \in [1..n -> MemoryItems],
               ReapSelect(n, batch)
        PROVE  EventsTell(i)'
    <3>1. UNCHANGED <<memoryTable, memoryEvents>>
      BY <2>5 DEF ReapSelect
    <3>2. /\ Selected' \subseteq {j \in MemoryItems : Reapable(j)}
          /\ memoryReaper'.heard[i] = IF i \in Selected' THEN Len(memoryEvents[i])
                                      ELSE memoryReaper.heard[i]
      BY <2>5, ReapSelectEffect
    <3>3. CASE i \notin Selected'
      BY <1>2, <3>1, <3>2, <3>3, SameEvents
    <3>4. CASE i \in Selected'
      <4>1. Stored(i) /\ memoryTable[i].status = "deleted_pending_purge"
        BY <3>2, <3>4 DEF Reapable
      <4>2. /\ memoryEvents[i] # <<>>
            /\ memoryEvents[i][Len(memoryEvents[i])] = "deleted_pending_purge"
        BY <1>2, <4>1 DEF EventsTell
      <4>3. Len(memoryEvents[i]) \in 1..Len(memoryEvents[i])
        <5>1. memoryEvents[i] \in Seq(MemoryStatuses)
          BY <1>0
        <5> QED BY <4>2, <5>1
      <4>4. HeardDeletion(i)'
        BY <3>1, <3>2, <3>4, <4>2, <4>3 DEF HeardDeletion
      <4>5. Stored(i)'
        BY <3>1, <4>1 DEF Stored
      <4> QED BY <1>2, <3>1, <4>1, <4>4, <4>5 DEF EventsTell
    <3> QED BY <3>3, <3>4
  <2>6. ASSUME NEW ahead, ReapCommit(ahead) PROVE EventsTell(i)'
    <3>1. /\ memoryTable' = [j \in MemoryItems |-> IF j \in Selected THEN Purged
                                                   ELSE memoryTable[j]]
          /\ memoryEvents' = [j \in MemoryItems |->
               IF j \in Selected THEN Append(memoryEvents[j], "purged") ELSE memoryEvents[j]]
          /\ memoryReaper'.batch = <<>> /\ memoryReaper'.heard = memoryReaper.heard
      BY <2>6, ReapCommitPurges
    <3>2. i \notin Selected'
      BY <3>1 DEF Selected
    <3>3. CASE i \notin Selected
      BY <1>2, <3>1, <3>2, <3>3, SameEvents
    <3>4. CASE i \in Selected
      <4>1. HeardDeletion(i)
        BY <1>2, <3>4 DEF EventsTell
      <4>2. memoryEvents'[i] = Append(memoryEvents[i], "purged") /\ memoryTable'[i] = Purged
        BY <3>1, <3>4
      <4>3. memoryEvents[i] \in Seq(MemoryStatuses) /\ "purged" \in MemoryStatuses
        BY <1>0 DEF MemoryStatuses
      <4>4. HeardDeletion(i)'
        BY <3>1, <4>1, <4>2, <4>3, StillHeard
      <4>5. ~Stored(i)' /\ memoryTable'[i] # NoItem
        BY <4>2, RecordsDiffer DEF Stored
      <4> QED BY <4>4, <4>5 DEF EventsTell
    <3> QED BY <3>3, <3>4
  <2>7. CASE ReapLost
    <3>1. /\ UNCHANGED <<memoryTable, memoryEvents>>
          /\ memoryReaper'.batch = <<>> /\ memoryReaper'.heard = memoryReaper.heard
      <4>1. memoryReaper = [batch |-> memoryReaper.batch, heard |-> memoryReaper.heard]
        BY ReaperShape DEF MemoryTypeInv
      <4>2. /\ UNCHANGED <<memoryTable, memoryEvents>>
            /\ memoryReaper' = [memoryReaper EXCEPT !.batch = <<>>]
        BY <2>7 DEF ReapLost
      <4> QED BY <4>1, <4>2
    <3>2. i \notin Selected'
      BY <3>1 DEF Selected
    <3> QED BY <1>2, <3>1, <3>2, SameEvents
  <2> QED BY <1>3, <2>1, <2>2, <2>3, <2>4, <2>5, <2>6, <2>7 DEF MemoryRequestStep
<1>4. CASE MemoryDrain \/ MemoryCrash \/ MemoryRead \/ UNCHANGED memoryVars
  <2>1. UNCHANGED <<memoryTable, memoryEvents, memoryReaper>>
    BY <1>4 DEF MemoryDrain, MemoryLease, MemoryProject, MemoryMark, MemoryCrash, MemoryRead,
                Query, Revalidate, Assemble, memoryVars
  <2> QED BY <1>2, <2>1, SameReaper, SameEvents
<1> QED BY <1>3, <1>4 DEF MemoryNext

\* purge.py deletes by key what it selected without a lock: though a transition
\* may commit between the two, or have overtaken the deletion before, whatever is
\* purged had the deletion for its last event when the reaper selected it.
THEOREM PurgeFollowsDeletion == MemorySpec => []PurgedWasDeleted
<1>1. MemoryInit => AllEventsTell
  <2>1. ASSUME MemoryInit, NEW i \in MemoryItems PROVE EventsTell(i)
    <3>1. /\ memoryEvents[i] = <<>> /\ memoryTable[i] = NoItem /\ NoItem # Purged
          /\ memoryReaper.batch = <<>>
      BY <2>1, RecordsDiffer DEF MemoryInit
    <3>2. Selected = {}
      BY <3>1 DEF Selected
    <3> QED BY <3>1, <3>2 DEF EventsTell, Stored
  <2> QED BY <2>1 DEF AllEventsTell
<1>2. MemoryTypeInv /\ AllEventsTell /\ [MemoryNext]_memoryVars => AllEventsTell'
  BY EventsStep
<1>3. MemoryTypeInv /\ AllEventsTell => PurgedWasDeleted
  <2>1. SUFFICES ASSUME MemoryTypeInv, AllEventsTell, NEW i \in MemoryItems,
                        memoryTable[i] = Purged
                 PROVE  /\ memoryReaper.heard[i] \in DOMAIN memoryEvents[i]
                        /\ memoryEvents[i][memoryReaper.heard[i]] = "deleted_pending_purge"
    BY DEF PurgedWasDeleted
  <2>2. DOMAIN memoryEvents[i] = 1..Len(memoryEvents[i])
    BY <2>1 DEF MemoryTypeInv, MemoryTypeOK
  <2> QED BY <2>1, <2>2 DEF AllEventsTell, EventsTell, HeardDeletion
<1> QED BY <1>1, <1>2, <1>3, TypeInit, TypeStep, PTL DEF MemorySpec
-----------------------------------------------------------------------------
(* The index follows the outbox.                                           *)

ItemRows(i) == {n \in OutboxIds : memoryOutbox[n].item = i}
IsDelete(n) == memoryOutbox[n].event = "delete"

\* The rows the index has been told of; the mark may still be to come.
AppliedRows == {n \in OutboxIds : \/ memoryOutbox[n].status = "done"
                                  \/ memoryPass.call = "done" /\ n = MemoryTurn}

\* A stored item has rows, none of them a deletion.
RowsTell(i) ==
  /\ memoryTable[i] = NoItem => ItemRows(i) = {}
  /\ Stored(i) => ItemRows(i) # {} /\ \A n \in ItemRows(i) : ~IsDelete(n)

StoredIsIndexed(i) == Stored(i) /\ ItemRows(i) \cap AppliedRows # {} => i \in memoryIndex

\* No attempt at a row of the item has failed.
Untried(i) == \A n \in ItemRows(i) : memoryOutbox[n].attempts = 0

AppliedInOrder(i) ==
  Untried(i) => \A m, n \in ItemRows(i) : m < n /\ n \in AppliedRows => m \in AppliedRows

\* The newest row of the item is its deletion.
LastIsDelete(i, d) == d \in ItemRows(i) /\ IsDelete(d) /\ \A n \in ItemRows(i) : n <= d

DeletedIsGone(i) ==
  Untried(i) /\ (\E d \in AppliedRows : LastIsDelete(i, d)) => i \notin memoryIndex

\* The pass has all rows in processing, and no row waits untried before one of them.
PassInOrder ==
  /\ \A n \in OutboxIds : memoryOutbox[n].status = "processing" => n \in memoryPass.todo
  /\ \A n \in memoryPass.todo, m \in OutboxIds :
       m < n /\ memoryOutbox[m].status = "pending" => memoryOutbox[m].attempts > 0

\* Until the daemon crashes, rows are applied in order as long as none fails.
Undisturbed ==
  memoryCrashes = 0 =>
    PassInOrder /\ \A i \in MemoryItems : AppliedInOrder(i) /\ DeletedIsGone(i)

IndexInv == (\A i \in MemoryItems : RowsTell(i) /\ StoredIsIndexed(i)) /\ Undisturbed

\* Fresh rows behind the others: none of them is applied or in the pass.
LEMMA RowsAdded ==
  ASSUME MemoryTypeInv, NEW rows \in Seq(OutboxRow), SameButEvents(rows),
         NEW e \in Seq(OutboxRow), memoryOutbox' = rows \o e,
         \A k \in 1..Len(e) : e[k].status = "pending" /\ e[k].attempts = 0,
         memoryPass' = memoryPass
  PROVE  /\ OutboxIds \subseteq OutboxIds' /\ OutboxIds' \subseteq Nat
         /\ \A n \in OutboxIds : memoryOutbox'[n] = rows[n]
         /\ \A n \in OutboxIds' \ OutboxIds :
              /\ \A m \in OutboxIds : m < n
              /\ n - Len(memoryOutbox) \in 1..Len(e)
              /\ memoryOutbox'[n] = e[n - Len(memoryOutbox)]
         /\ \A k \in 1..Len(e) : /\ Len(memoryOutbox) + k \in OutboxIds' \ OutboxIds
                                 /\ memoryOutbox'[Len(memoryOutbox) + k] = e[k]
         /\ Len(memoryOutbox) \in Nat
         /\ AppliedRows' = AppliedRows
<1>0. MemoryTypeOK
  BY DEF MemoryTypeInv
<1>1. /\ Len(memoryOutbox') = Len(rows) + Len(e)
      /\ \A n \in 1..Len(rows) : memoryOutbox'[n] = rows[n]
      /\ \A n \in (Len(rows) + 1)..Len(memoryOutbox') :
           n - Len(rows) \in 1..Len(e) /\ memoryOutbox'[n] = e[n - Len(rows)]
  BY Extended
<1>2. Len(memoryOutbox) \in Nat /\ Len(e) \in Nat /\ Len(rows) = Len(memoryOutbox)
  BY <1>0, OutboxShape DEF SameButEvents
<1>3. OutboxIds \subseteq OutboxIds' /\ OutboxIds' \subseteq Nat
      /\ \A n \in OutboxIds : memoryOutbox'[n] = rows[n]
  BY <1>1, <1>2 DEF OutboxIds
<1>4. \A n \in OutboxIds' \ OutboxIds :
        /\ \A m \in OutboxIds : m < n
        /\ n - Len(memoryOutbox) \in 1..Len(e)
        /\ memoryOutbox'[n] = e[n - Len(memoryOutbox)]
  BY <1>1, <1>2 DEF OutboxIds
<1>5. \A k \in 1..Len(e) : /\ Len(memoryOutbox) + k \in OutboxIds' \ OutboxIds
                           /\ memoryOutbox'[Len(memoryOutbox) + k] = e[k]
  <2>1. SUFFICES ASSUME NEW k \in 1..Len(e)
                 PROVE  /\ Len(memoryOutbox) + k \in OutboxIds' \ OutboxIds
                        /\ memoryOutbox'[Len(memoryOutbox) + k] = e[k]
    OBVIOUS
  <2>2. PICK n : n = Len(memoryOutbox) + k
    OBVIOUS
  <2>3. n \in OutboxIds' \ OutboxIds /\ n - Len(memoryOutbox) = k
    BY <1>1, <1>2, <2>2 DEF OutboxIds
  <2>4. memoryOutbox'[n] = e[k]
    BY <1>4, <2>3
  <2> QED BY <2>2, <2>3, <2>4
<1>6. AppliedRows' = AppliedRows
  <2>1. MemoryTurn' = MemoryTurn
    BY DEF MemoryTurn
  <2>2. memoryPass.call = "done" => MemoryTurn \in OutboxIds
    BY <1>0, TurnIsFirst, OutboxShape DEF MemoryTypeInv, PassHolds
  <2>3. \A n \in OutboxIds' \ OutboxIds : memoryOutbox'[n].status = "pending"
    BY <1>4
  <2>4. \A n \in OutboxIds : memoryOutbox'[n].status = memoryOutbox[n].status
    BY <1>3 DEF SameButEvents
  <2> QED BY <1>3, <2>1, <2>2, <2>3, <2>4 DEF AppliedRows
<1> QED BY <1>2, <1>3, <1>4, <1>5, <1>6

\* An applied row waits no longer.
LEMMA AppliedNotPending ==
  ASSUME MemoryTypeInv, NEW n \in AppliedRows
  PROVE  n \in OutboxIds /\ memoryOutbox[n].status # "pending"
<1>1. n \in OutboxIds
  BY DEF AppliedRows
<1>2. memoryPass.call = "done" => memoryOutbox[MemoryTurn].status = "processing"
  BY TurnIsFirst DEF MemoryTypeInv, PassHolds
<1> QED BY <1>1, <1>2 DEF AppliedRows

\* A step of the daemon rewrites rows in place: what they are about stays, and an
\* attempt is not forgotten.
RowsRewritten ==
  /\ OutboxIds' = OutboxIds
  /\ \A n \in OutboxIds : /\ memoryOutbox'[n].item = memoryOutbox[n].item
                          /\ memoryOutbox'[n].event = memoryOutbox[n].event
                          /\ memoryOutbox'[n].attempts = 0 => memoryOutbox[n].attempts = 0
  /\ memoryTable' = memoryTable

\* So what the rows tell of the items stays.
LEMMA RewrittenRowsTell ==
  ASSUME RowsRewritten, NEW i
  PROVE  /\ ItemRows(i)' = ItemRows(i)
         /\ \A n \in OutboxIds : IsDelete(n)' <=> IsDelete(n)
         /\ Untried(i)' => Untried(i)
         /\ Stored(i)' <=> Stored(i)
         /\ RowsTell(i) => RowsTell(i)'
<1>1. ItemRows(i)' = ItemRows(i) /\ ItemRows(i) \subseteq OutboxIds
  BY DEF RowsRewritten, ItemRows
<1>2. \A n \in OutboxIds : IsDelete(n)' <=> IsDelete(n)
  BY DEF RowsRewritten, IsDelete
<1>3. Untried(i)' => Untried(i)
  BY <1>1 DEF RowsRewritten, Untried
<1>4. Stored(i)' <=> Stored(i)
  BY DEF RowsRewritten, Stored
<1>5. RowsTell(i) => RowsTell(i)'
  BY <1>1, <1>2, <1>4 DEF RowsTell, RowsRewritten
<1> QED BY <1>1, <1>2, <1>3, <1>4, <1>5

\* A lease applies nothing and keeps the order.
LEMMA LeaseApplies ==
  ASSUME MemoryTypeInv, NEW due, MemoryLease(due)
  PROVE  /\ RowsRewritten /\ AppliedRows' = AppliedRows
         /\ UNCHANGED <<memoryIndex, memoryCrashes>>
         /\ PassInOrder => PassInOrder'
<1>1. /\ memoryPass.todo = {} /\ memoryPass.call = "none"
      /\ Len(memoryOutbox') = Len(memoryOutbox) /\ memoryPass'.call = "none"
      /\ memoryPass'.todo \subseteq OutboxIds
      /\ \A n \in memoryPass'.todo :
           /\ memoryOutbox[n].status \in {"pending", "processing"}
           /\ memoryOutbox'[n].status = "processing"
           /\ memoryOutbox'[n].item = memoryOutbox[n].item
           /\ memoryOutbox'[n].event = memoryOutbox[n].event
           /\ memoryOutbox'[n].attempts = memoryOutbox[n].attempts
      /\ \A n \in OutboxIds \ memoryPass'.todo : memoryOutbox'[n] = memoryOutbox[n]
  BY LeaseEffect
<1>2. \A n \in memoryPass'.todo, m \in OutboxIds :
        m < n /\ memoryOutbox[m].status = "pending" /\ memoryOutbox[m].attempts = 0
          => m \in memoryPass'.todo
  BY LeaseEffect
<1>3. OutboxIds' = OutboxIds
  BY <1>1 DEF OutboxIds
<1>4. RowsRewritten
  BY <1>1, <1>3 DEF RowsRewritten, MemoryLease
<1>5. AppliedRows' = AppliedRows
  BY <1>1, <1>3 DEF AppliedRows
<1>6. ASSUME PassInOrder PROVE PassInOrder'
  <2>1. \A n \in OutboxIds : memoryOutbox'[n].status = "processing" => n \in memoryPass'.todo
    BY <1>1, <1>6 DEF PassInOrder
  <2>2. ASSUME NEW n \in memoryPass'.todo, NEW m \in OutboxIds, m < n,
               memoryOutbox'[m].status = "pending"
        PROVE  memoryOutbox'[m].attempts > 0
    <3>1. m \notin memoryPass'.todo /\ memoryOutbox'[m] = memoryOutbox[m]
      BY <1>1, <2>2
    <3>2. memoryOutbox[m].attempts # 0
      BY <1>2, <2>2, <3>1
    <3>3. memoryOutbox[m].attempts \in 0..MemoryMaxAttempts
      BY OutboxShape DEF MemoryTypeInv, OutboxRow
    <3> QED BY <3>1, <3>2, <3>3
  <2> QED BY <1>3, <2>1, <2>2 DEF PassInOrder
<1> QED BY <1>4, <1>5, <1>6 DEF MemoryLease

\* A call that succeeds applies the row whose turn it is, one that fails none.
LEMMA ProjectApplies ==
  ASSUME MemoryTypeInv, NEW ok \in BOOLEAN, MemoryProject(ok)
  PROVE  /\ RowsRewritten /\ MemoryTurn \in OutboxIds /\ MemoryTurn \notin AppliedRows
         /\ AppliedRows' = IF ok THEN AppliedRows \cup {MemoryTurn} ELSE AppliedRows
         /\ memoryOutbox[MemoryTurn].status = "processing"
         /\ \A n \in memoryPass.todo : MemoryTurn \in memoryPass.todo /\ MemoryTurn <= n
         /\ memoryCrashes' = memoryCrashes
         /\ PassInOrder => PassInOrder'
<1>0. MemoryTypeOK
  BY DEF MemoryTypeInv
<1>1. /\ memoryPass.todo # {} /\ memoryPass.call = "none"
      /\ memoryPass' = [memoryPass EXCEPT !.call = IF ok THEN "done" ELSE "failed"]
      /\ UNCHANGED <<memoryTable, memoryOutbox, memoryCrashes>>
  BY DEF MemoryProject
<1>2. memoryPass'.call = (IF ok THEN "done" ELSE "failed") /\ memoryPass'.todo = memoryPass.todo
  BY <1>0, <1>1 DEF MemoryTypeOK
<1>3. MemoryTurn \in memoryPass.todo /\ MemoryTurn \in OutboxIds
      /\ memoryOutbox[MemoryTurn].status = "processing"
      /\ \A n \in memoryPass.todo : MemoryTurn <= n
  BY <1>0, <1>1, TurnIsFirst, OutboxShape DEF MemoryTypeInv, PassHolds
<1>4. MemoryTurn' = MemoryTurn
  BY <1>2 DEF MemoryTurn
<1>5. OutboxIds' = OutboxIds /\ RowsRewritten
  BY <1>1 DEF OutboxIds, RowsRewritten
<1>6. MemoryTurn \notin AppliedRows
  BY <1>1, <1>3 DEF AppliedRows
<1>7. AppliedRows' = IF ok THEN AppliedRows \cup {MemoryTurn} ELSE AppliedRows
  BY <1>1, <1>2, <1>3, <1>4, <1>5 DEF AppliedRows
<1>8. PassInOrder => PassInOrder'
  BY <1>1, <1>2, <1>5 DEF PassInOrder
<1> QED BY <1>1, <1>3, <1>5, <1>6, <1>7, <1>8

\* The mark applies nothing.
LEMMA MarkApplies ==
  ASSUME MemoryTypeInv, MemoryMark
  PROVE  /\ RowsRewritten /\ AppliedRows' = AppliedRows
         /\ UNCHANGED <<memoryIndex, memoryCrashes>>
         /\ PassInOrder => PassInOrder'
<1>1. PICK t : t = MemoryTurn
  OBVIOUS
<1>2. /\ t \in memoryPass.todo /\ t \in OutboxIds /\ memoryPass.call \in {"done", "failed"}
      /\ Len(memoryOutbox') = Len(memoryOutbox)
      /\ \A n \in OutboxIds : n # t => memoryOutbox'[n] = memoryOutbox[n]
      /\ memoryOutbox'[t].item = memoryOutbox[t].item
      /\ memoryOutbox'[t].event = memoryOutbox[t].event
      /\ memoryPass.call = "done" => /\ memoryOutbox'[t].status = "done"
                                     /\ memoryOutbox'[t].attempts = memoryOutbox[t].attempts
      /\ memoryPass.call = "failed" => /\ memoryOutbox'[t].status \in {"pending", "failed"}
                                       /\ memoryOutbox'[t].attempts > 0
      /\ memoryPass'.todo = memoryPass.todo \ {t} /\ memoryPass'.call = "none"
  BY <1>1, MarkEffect
<1>3. OutboxIds' = OutboxIds
  BY <1>2 DEF OutboxIds
<1>4. RowsRewritten
  BY <1>2, <1>3 DEF RowsRewritten, MemoryMark
<1>5. memoryOutbox[t].status = "processing"
  BY <1>2 DEF MemoryTypeInv, PassHolds
<1>6. AppliedRows' = AppliedRows
  BY <1>1, <1>2, <1>3, <1>5 DEF AppliedRows
<1>7. ASSUME PassInOrder PROVE PassInOrder'
  <2>1. \A n \in OutboxIds : memoryOutbox'[n].status = "processing" => n \in memoryPass'.todo
    BY <1>2, <1>7 DEF PassInOrder
  <2>2. \A n \in memoryPass'.todo, m \in OutboxIds :
          m < n /\ memoryOutbox'[m].status = "pending" => memoryOutbox'[m].attempts > 0
    BY <1>2, <1>7 DEF PassInOrder
  <2> QED BY <1>3, <2>1, <2>2 DEF PassInOrder
<1> QED BY <1>4, <1>6, <1>7 DEF MemoryMark

\* The first row left to do comes in order: what is before it has been applied.
LEMMA TurnInOrder ==
  ASSUME MemoryTypeInv, PassInOrder, memoryPass.todo # {}, NEW i, Untried(i),
         MemoryTurn \in ItemRows(i), NEW m \in ItemRows(i), m < MemoryTurn
  PROVE  m \in AppliedRows
<1>0. MemoryTypeOK
  BY DEF MemoryTypeInv
<1>1. MemoryTurn \in memoryPass.todo /\ \A n \in memoryPass.todo : MemoryTurn <= n
  BY <1>0, TurnIsFirst
<1>2. m \in OutboxIds /\ memoryOutbox[m].attempts = 0 /\ m \in Nat /\ MemoryTurn \in Nat
  <2>1. memoryPass.todo \subseteq Nat /\ OutboxIds \subseteq Nat
    BY <1>0, OutboxShape DEF OutboxIds
  <2> QED BY <1>1, <2>1 DEF ItemRows, Untried
<1>3. m \notin memoryPass.todo
  BY <1>1, <1>2
<1>4. memoryOutbox[m].status \notin {"processing", "pending", "failed"}
  BY <1>1, <1>2, <1>3 DEF PassInOrder, MemoryTypeInv, AttemptsLeft
<1>5. memoryOutbox[m].status = "done"
  BY <1>0, <1>2, <1>4, OutboxShape DEF OutboxRow
<1> QED BY <1>2, <1>5 DEF AppliedRows

\* The daemon keeps the index in step with the rows.
LEMMA IndexDrain ==
  ASSUME MemoryTypeInv, IndexInv, MemoryDrain
  PROVE  IndexInv'
<1>0. MemoryTypeOK
  BY DEF MemoryTypeInv
<1>1. ASSUME RowsRewritten, AppliedRows' = AppliedRows, UNCHANGED <<memoryIndex, memoryCrashes>>,
             PassInOrder => PassInOrder'
      PROVE  IndexInv'
  <2>1. ASSUME NEW i \in MemoryItems PROVE RowsTell(i)' /\ StoredIsIndexed(i)'
    BY <1>1, RewrittenRowsTell DEF IndexInv, StoredIsIndexed
  <2>2. ASSUME NEW i \in MemoryItems, AppliedInOrder(i), DeletedIsGone(i)
        PROVE  AppliedInOrder(i)' /\ DeletedIsGone(i)'
    <3>1. /\ ItemRows(i)' = ItemRows(i) /\ (Untried(i)' => Untried(i))
          /\ \A n \in ItemRows(i) : IsDelete(n)' <=> IsDelete(n)
      BY <1>1, RewrittenRowsTell DEF ItemRows
    <3>2. AppliedInOrder(i)'
      BY <1>1, <2>2, <3>1 DEF AppliedInOrder
    <3>3. DeletedIsGone(i)'
      BY <1>1, <2>2, <3>1 DEF DeletedIsGone, LastIsDelete
    <3> QED BY <3>2, <3>3
  <2> QED BY <1>1, <2>1, <2>2 DEF IndexInv, Undisturbed
<1>2. ASSUME NEW due, MemoryLease(due) PROVE IndexInv'
  BY <1>1, <1>2, LeaseApplies
<1>3. CASE MemoryMark
  BY <1>1, <1>3, MarkApplies
<1>4. ASSUME NEW ok \in BOOLEAN, MemoryProject(ok) PROVE IndexInv'
  <2>1. PICK t : t = MemoryTurn
    OBVIOUS
  <2>2. /\ RowsRewritten /\ t \in OutboxIds /\ t \notin AppliedRows
        /\ AppliedRows' = IF ok THEN AppliedRows \cup {t} ELSE AppliedRows
        /\ memoryCrashes' = memoryCrashes /\ (PassInOrder => PassInOrder')
    BY <1>4, <2>1, ProjectApplies
  <2>3. /\ \/ memoryIndex' = Projected(memoryIndex, memoryOutbox[t])
           \/ ~ok /\ memoryIndex' = memoryIndex
        /\ memoryPass.todo # {}
    BY <1>4, <2>1 DEF MemoryProject
  <2>4. PICK j : j = memoryOutbox[t].item
    OBVIOUS
  <2>5. /\ \A i \in MemoryItems : i # j => (i \in memoryIndex' <=> i \in memoryIndex)
        /\ IsDelete(t) => memoryIndex' \subseteq memoryIndex /\ (ok => j \notin memoryIndex')
        /\ ~IsDelete(t) => memoryIndex \subseteq memoryIndex' /\ (ok => j \in memoryIndex')
    BY <2>3, <2>4 DEF Projected, IsDelete
  <2>6. \A i : i = j <=> t \in ItemRows(i)
    BY <2>2, <2>4 DEF ItemRows
  <2>7. ASSUME NEW i \in MemoryItems PROVE RowsTell(i)' /\ StoredIsIndexed(i)'
    <3>1. ItemRows(i)' = ItemRows(i) /\ (Stored(i)' <=> Stored(i)) /\ RowsTell(i)'
      BY <2>2, RewrittenRowsTell DEF IndexInv
    <3>2. ASSUME Stored(i), ItemRows(i) \cap AppliedRows' # {} PROVE i \in memoryIndex'
      <4>1. CASE i # j
        BY <2>2, <2>5, <2>6, <3>2, <4>1 DEF IndexInv, StoredIsIndexed
      <4>2. CASE i = j
        <5>1. ~IsDelete(t)
          BY <2>6, <3>2, <4>2 DEF IndexInv, RowsTell
        <5>2. CASE ok
          BY <2>5, <4>2, <5>1, <5>2
        <5>3. CASE ~ok
          BY <2>2, <2>5, <3>2, <5>1, <5>3 DEF IndexInv, StoredIsIndexed
        <5> QED BY <5>2, <5>3
      <4> QED BY <4>1, <4>2
    <3> QED BY <3>1, <3>2 DEF StoredIsIndexed
  <2>8. ASSUME NEW i \in MemoryItems, PassInOrder, AppliedInOrder(i), DeletedIsGone(i)
        PROVE  AppliedInOrder(i)' /\ DeletedIsGone(i)'
    <3>1. /\ ItemRows(i)' = ItemRows(i) /\ (Untried(i)' => Untried(i))
          /\ \A n \in ItemRows(i) : IsDelete(n)' <=> IsDelete(n)
      BY <2>2, RewrittenRowsTell DEF ItemRows
    <3>2. ASSUME Untried(i), NEW m \in ItemRows(i), NEW n \in ItemRows(i), m < n, n \in AppliedRows'
          PROVE  m \in AppliedRows'
      <4>1. CASE n \in AppliedRows
        BY <2>2, <2>8, <3>2, <4>1 DEF AppliedInOrder
      <4>2. CASE n = t
        <5>1. m \in AppliedRows
          BY <2>1, <2>3, <2>8, <3>2, <4>2, TurnInOrder
        <5> QED BY <2>2, <5>1
      <4> QED BY <2>2, <3>2, <4>1, <4>2
    <3>3. ASSUME Untried(i), NEW d \in AppliedRows', LastIsDelete(i, d)
          PROVE  i \notin memoryIndex'
      <4>1. CASE i # j
        <5>1. d # t
          BY <2>6, <3>3, <4>1 DEF LastIsDelete
        <5> QED BY <2>2, <2>5, <2>8, <3>3, <4>1, <5>1 DEF DeletedIsGone
      <4>2. CASE i = j /\ IsDelete(t)
        <5>1. CASE d \in AppliedRows
          BY <2>5, <2>8, <3>3, <4>2, <5>1 DEF DeletedIsGone
        <5>2. CASE d \notin AppliedRows
          BY <2>2, <2>5, <3>3, <4>2, <5>2
        <5> QED BY <5>1, <5>2
      <4>3. CASE i = j /\ ~IsDelete(t)
        <5>1. d \in AppliedRows /\ t \in ItemRows(i) /\ d \in ItemRows(i) /\ t # d
          BY <2>2, <2>6, <3>3, <4>3 DEF LastIsDelete
        <5>2. t <= d /\ t \in Nat /\ d \in Nat
          BY <1>0, <3>3, <5>1, OutboxShape DEF LastIsDelete, ItemRows, OutboxIds
        <5>3. t \in AppliedRows
          BY <2>8, <3>3, <5>1, <5>2 DEF AppliedInOrder
        <5> QED BY <2>2, <5>3
      <4> QED BY <4>1, <4>2, <4>3
    <3>4. AppliedInOrder(i)'
      BY <3>1, <3>2 DEF AppliedInOrder
    <3>5. DeletedIsGone(i)'
      BY <3>1, <3>3 DEF DeletedIsGone, LastIsDelete
    <3> QED BY <3>4, <3>5
  <2>9. Undisturbed'
    <3>1. SUFFICES ASSUME memoryCrashes' = 0
                   PROVE  PassInOrder' /\ \A i \in MemoryItems : AppliedInOrder(i)' /\ DeletedIsGone(i)'
      BY DEF Undisturbed
    <3>2. PassInOrder /\ \A i \in MemoryItems : AppliedInOrder(i) /\ DeletedIsGone(i)
      BY <2>2, <3>1 DEF IndexInv, Undisturbed
    <3> QED BY <2>2, <2>8, <3>2
  <2> QED BY <2>7, <2>9 DEF IndexInv
<1> QED BY <1>2, <1>3, <1>4 DEF MemoryDrain

\* The row of a request, behind the others.
LEMMA OneUpsert ==
  ASSUME MemoryTypeOK, NEW j \in MemoryItems, memoryOutbox' = Append(memoryOutbox, MemoryRow(j, "upsert"))
  PROVE  \E e \in Seq(OutboxRow) :
           /\ memoryOutbox' = memoryOutbox \o e /\ Len(e) = 1
           /\ \A k \in 1..Len(e) : /\ e[k].item = j /\ e[k].event = "upsert"
                                   /\ e[k].status = "pending" /\ e[k].attempts = 0
<1>1. PICK e : e = <<MemoryRow(j, "upsert")>>
  OBVIOUS
<1>2. MemoryRow(j, "upsert") \in OutboxRow /\ memoryOutbox \in Seq(OutboxRow)
  BY OutboxShape, FreshRow
<1>3. memoryOutbox' = memoryOutbox \o e
  BY <1>1, <1>2, OneBehind
<1>4. /\ e \in Seq(OutboxRow) /\ Len(e) = 1
      /\ \A k \in 1..Len(e) : /\ e[k].item = j /\ e[k].event = "upsert"
                              /\ e[k].status = "pending" /\ e[k].attempts = 0
  BY <1>1, <1>2, FreshRow
<1> QED BY <1>3, <1>4

\* Fresh rows leave the order of the applied ones alone.
LEMMA UndisturbedByRows ==
  ASSUME MemoryTypeInv, Undisturbed, NEW rows \in Seq(OutboxRow), SameButEvents(rows),
         NEW e \in Seq(OutboxRow), memoryOutbox' = rows \o e,
         \A k \in 1..Len(e) : e[k].status = "pending" /\ e[k].attempts = 0,
         UNCHANGED <<memoryPass, memoryIndex, memoryCrashes>>
  PROVE  Undisturbed'
<1>1. /\ OutboxIds \subseteq OutboxIds' /\ OutboxIds' \subseteq Nat
      /\ \A n \in OutboxIds :
           /\ memoryOutbox'[n].item = memoryOutbox[n].item
           /\ memoryOutbox'[n].status = memoryOutbox[n].status
           /\ memoryOutbox'[n].attempts = memoryOutbox[n].attempts
           /\ memoryOutbox[n].status # "pending" => memoryOutbox'[n].event = memoryOutbox[n].event
      /\ \A n \in OutboxIds' \ OutboxIds :
           (\A m \in OutboxIds : m < n) /\ memoryOutbox'[n].status = "pending"
      /\ AppliedRows' = AppliedRows
  <2>1. /\ OutboxIds \subseteq OutboxIds' /\ OutboxIds' \subseteq Nat /\ AppliedRows' = AppliedRows
        /\ \A n \in OutboxIds : memoryOutbox'[n] = rows[n]
        /\ \A n \in OutboxIds' \ OutboxIds :
             /\ \A m \in OutboxIds : m < n
             /\ n - Len(memoryOutbox) \in 1..Len(e)
             /\ memoryOutbox'[n] = e[n - Len(memoryOutbox)]
    BY RowsAdded
  <2> QED BY <2>1 DEF SameButEvents
<1>2. memoryPass.todo \subseteq OutboxIds /\ AppliedRows \subseteq OutboxIds
  BY OutboxShape DEF MemoryTypeInv, AppliedRows
<1>3. PassInOrder => PassInOrder'
  <2>1. SUFFICES ASSUME PassInOrder PROVE PassInOrder'
    OBVIOUS
  <2>2. \A n \in OutboxIds' : memoryOutbox'[n].status = "processing" => n \in memoryPass.todo
    BY <1>1, <2>1 DEF PassInOrder
  <2>3. ASSUME NEW n \in memoryPass.todo, NEW m \in OutboxIds', m < n,
               memoryOutbox'[m].status = "pending"
        PROVE  memoryOutbox'[m].attempts > 0
    <3>1. m \in OutboxIds
      <4>1. n \in OutboxIds /\ n \in Nat /\ m \in Nat
        BY <1>1, <1>2
      <4>2. ~(n < m)
        BY <2>3, <4>1
      <4> QED BY <1>1, <4>1, <4>2
    <3> QED BY <1>1, <2>1, <2>3, <3>1 DEF PassInOrder
  <2> QED BY <2>2, <2>3 DEF PassInOrder
<1>4. ASSUME NEW i \in MemoryItems, AppliedInOrder(i), DeletedIsGone(i)
      PROVE  AppliedInOrder(i)' /\ DeletedIsGone(i)'
  <2>1. ItemRows(i)' \cap OutboxIds = ItemRows(i) /\ ItemRows(i)' \subseteq OutboxIds'
    BY <1>1 DEF ItemRows
  <2>2. Untried(i)' => Untried(i)
    BY <1>1, <2>1 DEF Untried
  <2>3. AppliedInOrder(i)'
    <3>1. ASSUME Untried(i)', NEW m \in ItemRows(i)', NEW n \in ItemRows(i)', m < n, n \in AppliedRows
          PROVE  m \in AppliedRows
      <4>1. n \in ItemRows(i)
        BY <1>2, <2>1, <3>1
      <4>2. m \in OutboxIds
        <5>1. n \in OutboxIds /\ m \in OutboxIds' /\ m \in Nat /\ n \in Nat
          BY <1>1, <1>2, <2>1, <3>1
        <5>2. ~(n < m)
          BY <3>1, <5>1
        <5> QED BY <1>1, <5>1, <5>2
      <4> QED BY <1>4, <2>1, <2>2, <3>1, <4>1, <4>2 DEF AppliedInOrder
    <3> QED BY <1>1, <3>1 DEF AppliedInOrder
  <2>4. ASSUME NEW d \in AppliedRows, LastIsDelete(i, d)' PROVE LastIsDelete(i, d)
    <3>1. d \in OutboxIds /\ memoryOutbox'[d].event = memoryOutbox[d].event
      BY <1>1, AppliedNotPending
    <3>2. d \in ItemRows(i)' /\ IsDelete(d)' /\ \A n \in ItemRows(i)' : n <= d
      BY <2>4 DEF LastIsDelete
    <3> QED BY <2>1, <3>1, <3>2 DEF LastIsDelete, IsDelete
  <2>5. DeletedIsGone(i)'
    BY <1>1, <1>4, <2>2, <2>4 DEF DeletedIsGone
  <2> QED BY <2>3, <2>5
<1> QED BY <1>3, <1>4 DEF Undisturbed

\* Fresh rows of other items tell nothing new of this one.
LEMMA OtherItemsRows ==
  ASSUME MemoryTypeInv, NEW rows \in Seq(OutboxRow), SameButEvents(rows),
         NEW e \in Seq(OutboxRow), memoryOutbox' = rows \o e,
         \A k \in 1..Len(e) : e[k].status = "pending" /\ e[k].attempts = 0,
         UNCHANGED <<memoryPass, memoryIndex>>,
         NEW i \in MemoryItems, RowsTell(i), StoredIsIndexed(i),
         \A n \in OutboxIds : memoryOutbox[n].item = i => rows[n] = memoryOutbox[n],
         \A k \in 1..Len(e) : e[k].item # i, memoryTable'[i] = memoryTable[i]
  PROVE  RowsTell(i)' /\ StoredIsIndexed(i)'
<1>1. /\ OutboxIds \subseteq OutboxIds'
      /\ \A n \in OutboxIds : /\ memoryOutbox'[n].item = memoryOutbox[n].item
                              /\ memoryOutbox[n].item = i => memoryOutbox'[n] = memoryOutbox[n]
      /\ \A n \in OutboxIds' \ OutboxIds : memoryOutbox'[n].item # i
      /\ AppliedRows' = AppliedRows
  <2>1. /\ OutboxIds \subseteq OutboxIds' /\ AppliedRows' = AppliedRows
        /\ \A n \in OutboxIds : memoryOutbox'[n] = rows[n]
        /\ \A n \in OutboxIds' \ OutboxIds :
             /\ n - Len(memoryOutbox) \in 1..Len(e)
             /\ memoryOutbox'[n] = e[n - Len(memoryOutbox)]
    BY RowsAdded
  <2> QED BY <2>1 DEF SameButEvents
<1>2. ItemRows(i)' = ItemRows(i)
  BY <1>1 DEF ItemRows
<1>3. \A n \in ItemRows(i) : IsDelete(n)' <=> IsDelete(n)
  BY <1>1 DEF IsDelete, ItemRows
<1>4. Stored(i)' <=> Stored(i)
  BY DEF Stored
<1>5. RowsTell(i)'
  BY <1>2, <1>3, <1>4 DEF RowsTell
<1>6. StoredIsIndexed(i)'
  BY <1>1, <1>2, <1>4 DEF StoredIsIndexed
<1> QED BY <1>5, <1>6

\* An upsert behind the rows of an item that is stored, or filed now.
LEMMA UpsertBehind ==
  ASSUME MemoryTypeInv, NEW j \in MemoryItems, RowsTell(j), StoredIsIndexed(j),
         memoryOutbox' = Append(memoryOutbox, MemoryRow(j, "upsert")),
         UNCHANGED <<memoryPass, memoryIndex>>,
         memoryTable[j] = NoItem \/ Stored(j), memoryTable'[j] \in MemoryItem
  PROVE  RowsTell(j)' /\ StoredIsIndexed(j)'
<1>1. PICK e \in Seq(OutboxRow) :
        /\ memoryOutbox' = memoryOutbox \o e /\ Len(e) = 1
        /\ \A k \in 1..Len(e) : /\ e[k].item = j /\ e[k].event = "upsert"
                                /\ e[k].status = "pending" /\ e[k].attempts = 0
  BY OneUpsert DEF MemoryTypeInv
<1>2. /\ OutboxIds \subseteq OutboxIds'
      /\ \A n \in OutboxIds : memoryOutbox'[n] = memoryOutbox[n]
      /\ \A n \in OutboxIds' \ OutboxIds : memoryOutbox'[n].event = "upsert"
      /\ Len(memoryOutbox) + 1 \in OutboxIds' /\ memoryOutbox'[Len(memoryOutbox) + 1].item = j
      /\ AppliedRows' = AppliedRows
  <2>1. /\ OutboxIds \subseteq OutboxIds' /\ AppliedRows' = AppliedRows
        /\ \A n \in OutboxIds : memoryOutbox'[n] = memoryOutbox[n]
        /\ \A n \in OutboxIds' \ OutboxIds :
             /\ n - Len(memoryOutbox) \in 1..Len(e)
             /\ memoryOutbox'[n] = e[n - Len(memoryOutbox)]
        /\ \A k \in 1..Len(e) : /\ Len(memoryOutbox) + k \in OutboxIds' \ OutboxIds
                                /\ memoryOutbox'[Len(memoryOutbox) + k] = e[k]
    <3>1. memoryOutbox \in Seq(OutboxRow) /\ SameButEvents(memoryOutbox)
      BY SameRows
    <3>2. \A k \in 1..Len(e) : e[k].status = "pending" /\ e[k].attempts = 0
      BY <1>1
    <3> QED BY <1>1, <3>1, <3>2, RowsAdded
  <2>2. 1 \in 1..Len(e) /\ e[1].item = j
    BY <1>1
  <2>3. ASSUME NEW n \in OutboxIds' \ OutboxIds PROVE memoryOutbox'[n].event = "upsert"
    <3>1. PICK k \in 1..Len(e) : memoryOutbox'[n] = e[k]
      BY <2>1
    <3>2. e[k].event = "upsert"
      BY <1>1
    <3> QED BY <3>1, <3>2
  <2>4. Len(memoryOutbox) + 1 \in OutboxIds' /\ memoryOutbox'[Len(memoryOutbox) + 1] = e[1]
    BY <2>1, <2>2
  <2> QED BY <2>1, <2>2, <2>3, <2>4
<1>3. Len(memoryOutbox) + 1 \in ItemRows(j)'
  BY <1>2 DEF ItemRows
<1>4. \A n \in ItemRows(j) : ~IsDelete(n)
  BY DEF RowsTell
<1>5. \A n \in ItemRows(j)' : ~IsDelete(n)'
  BY <1>2, <1>4 DEF IsDelete, ItemRows
<1>6. Stored(j)' /\ memoryTable'[j] # NoItem /\ memoryTable'[j] # Purged
  BY RecordsDiffer DEF Stored
<1>7. RowsTell(j)'
  BY <1>3, <1>5, <1>6 DEF RowsTell
<1>8. StoredIsIndexed(j)'
  <2>1. AppliedRows \subseteq OutboxIds
    BY OutboxShape, TurnIsFirst DEF MemoryTypeInv, PassHolds, AppliedRows
  <2>2. ItemRows(j)' \cap AppliedRows \subseteq ItemRows(j)
    BY <1>2, <2>1 DEF ItemRows
  <2>3. SUFFICES ASSUME ItemRows(j)' \cap AppliedRows # {} PROVE j \in memoryIndex
    BY <1>2 DEF StoredIsIndexed
  <2>4. ItemRows(j) \cap AppliedRows # {}
    BY <2>2, <2>3
  <2>5. Stored(j)
    BY <2>4 DEF RowsTell
  <2> QED BY <2>4, <2>5 DEF StoredIsIndexed
<1> QED BY <1>7, <1>8

\* Requests and the reaper keep it as well.
LEMMA IndexRequest ==
  ASSUME MemoryTypeInv, IndexInv, MemoryRequestStep
  PROVE  IndexInv'
<1>0. /\ MemoryTypeOK /\ memoryTable \in [MemoryItems -> MemoryItem \cup {NoItem, Purged}]
      /\ Undisturbed /\ \A i \in MemoryItems : RowsTell(i) /\ StoredIsIndexed(i)
  BY DEF MemoryTypeInv, MemoryTypeOK, IndexInv
<1>1. ASSUME NEW j \in MemoryItems, memoryTable[j] = NoItem \/ Stored(j),
             memoryTable'[j] \in MemoryItem,
             \A i \in MemoryItems : i # j => memoryTable'[i] = memoryTable[i],
             memoryOutbox' = Append(memoryOutbox, MemoryRow(j, "upsert")),
             UNCHANGED <<memoryPass, memoryIndex, memoryCrashes>>
      PROVE  IndexInv'
  <2>1. PICK e \in Seq(OutboxRow) :
          /\ memoryOutbox' = memoryOutbox \o e /\ Len(e) = 1
          /\ \A k \in 1..Len(e) : /\ e[k].item = j /\ e[k].event = "upsert"
                                  /\ e[k].status = "pending" /\ e[k].attempts = 0
    BY <1>0, <1>1, OneUpsert
  <2>2. Undisturbed'
    BY <1>0, <1>1, <2>1, SameRows, UndisturbedByRows
  <2>3. ASSUME NEW i \in MemoryItems PROVE RowsTell(i)' /\ StoredIsIndexed(i)'
    <3>1. CASE i # j
      <4>1. \A k \in 1..Len(e) : e[k].item # i
        BY <2>1, <3>1
      <4> QED BY <1>0, <1>1, <2>1, <3>1, <4>1, SameRows, OtherItemsRows
    <3>2. CASE i = j
      BY <1>0, <1>1, <3>2, UpsertBehind
    <3> QED BY <3>1, <3>2
  <2> QED BY <2>2, <2>3 DEF IndexInv
<1>2. ASSUME NEW j \in MemoryItems, NEW type \in MemoryTypes, NEW scope \in MemoryScopes,
             CreateCandidate(j, type, scope)
      PROVE  IndexInv'
  <2>1. [type |-> type, scope |-> scope, status |-> "candidate", purge |-> "unset"] \in MemoryItem
    BY DEF MemoryItem, MemoryStatuses
  <2>2. /\ memoryTable[j] = NoItem /\ memoryTable'[j] \in MemoryItem
        /\ \A i \in MemoryItems : i # j => memoryTable'[i] = memoryTable[i]
        /\ memoryOutbox' = Append(memoryOutbox, MemoryRow(j, "upsert"))
        /\ UNCHANGED <<memoryPass, memoryIndex, memoryCrashes>>
    BY <1>0, <1>2, <2>1 DEF CreateCandidate
  <2> QED BY <1>1, <2>2
<1>3. ASSUME UNCHANGED <<memoryOutbox, memoryPass, memoryIndex, memoryCrashes>>,
             \A i \in MemoryItems : \/ memoryTable'[i] = memoryTable[i]
                                    \/ Stored(i) /\ Stored(i)'
      PROVE  IndexInv'
  <2>1. AppliedRows' = AppliedRows /\ OutboxIds' = OutboxIds
    BY <1>3 DEF AppliedRows, OutboxIds, MemoryTurn
  <2>2. Undisturbed'
    BY <1>0, <1>3, <2>1 DEF Undisturbed, PassInOrder, AppliedInOrder, DeletedIsGone, Untried,
                            LastIsDelete, ItemRows, IsDelete
  <2>3. ASSUME NEW i \in MemoryItems PROVE RowsTell(i)' /\ StoredIsIndexed(i)'
    <3>1. ItemRows(i)' = ItemRows(i) /\ \A n \in ItemRows(i) : IsDelete(n)' <=> IsDelete(n)
      BY <1>3, <2>1 DEF ItemRows, IsDelete
    <3>2. /\ Stored(i)' <=> Stored(i)
          /\ memoryTable'[i] = NoItem => memoryTable[i] = NoItem
          /\ memoryTable'[i] = Purged => memoryTable[i] = Purged
      BY <1>3 DEF Stored
    <3>3. RowsTell(i)'
      BY <1>0, <3>1, <3>2 DEF RowsTell
    <3>4. StoredIsIndexed(i)'
      BY <1>0, <1>3, <2>1, <3>1, <3>2 DEF StoredIsIndexed
    <3> QED BY <3>3, <3>4
  <2> QED BY <2>2, <2>3 DEF IndexInv
<1>4. ASSUME NEW j \in MemoryItems, NEW h, NEW status, TransitionRead(h, j, status)
      PROVE  IndexInv'
  BY <1>3, <1>4 DEF TransitionRead
<1>5. ASSUME NEW j \in MemoryItems, GraceElapses(j) PROVE IndexInv'
  <2>1. /\ memoryTable' = [memoryTable EXCEPT ![j].purge = "elapsed"] /\ memoryTable[j] \in MemoryItem
        /\ UNCHANGED <<memoryOutbox, memoryPass, memoryIndex, memoryCrashes>>
    BY <1>0, <1>5 DEF GraceElapses, Stored
  <2>2. memoryTable'[j] \in MemoryItem /\ \A i \in MemoryItems : i # j => memoryTable'[i] = memoryTable[i]
    BY <1>0, <2>1 DEF MemoryItem
  <2>3. Stored(j) /\ Stored(j)'
    BY <2>1, <2>2, RecordsDiffer DEF Stored
  <2> QED BY <1>3, <2>1, <2>2, <2>3
<1>6. ASSUME NEW h \in MemoryHandlers, TransitionCommit(h) PROVE IndexInv'
  <2>1. PICK j, to : j = memoryRequest[h].item /\ to = memoryRequest[h].to
    OBVIOUS
  <2>2. j \in MemoryItems /\ UNCHANGED <<memoryIndex, memoryPass, memoryCrashes>>
    BY <1>6, <2>1, CommitEffect
  <2>3. CASE Stored(j)
    <3>1. /\ memoryTable'[j] \in MemoryItem
          /\ \A i \in MemoryItems : i # j => memoryTable'[i] = memoryTable[i]
          /\ memoryOutbox' = Append(memoryOutbox, MemoryRow(j, "upsert"))
      BY <1>6, <2>1, <2>3, CommitEffect
    <3> QED BY <1>1, <2>2, <2>3, <3>1
  <2>4. CASE ~Stored(j)
    <3>1. UNCHANGED <<memoryTable, memoryOutbox>>
      BY <1>6, <2>1, <2>4, CommitEffect
    <3> QED BY <1>3, <2>2, <3>1
  <2> QED BY <2>3, <2>4
<1>7. ASSUME NEW ahead, ReapCommit(ahead) PROVE IndexInv'
  <2>1. PICK rows \in Seq(OutboxRow), e \in Seq(OutboxRow) :
          /\ memoryOutbox' = rows \o e /\ SameButEvents(rows)
          /\ \A n \in OutboxIds : memoryOutbox[n].item \notin Selected
                                     => rows[n] = memoryOutbox[n]
          /\ \A k \in 1..Len(e) : /\ e[k].item \in Selected
                                   /\ e[k].status = "pending" /\ e[k].attempts = 0
    BY <1>7, ReapCommitEffect
  <2>2. /\ memoryTable' = [j \in MemoryItems |-> IF j \in Selected THEN Purged
                                                 ELSE memoryTable[j]]
        /\ UNCHANGED <<memoryPass, memoryIndex, memoryCrashes>>
    BY <1>7, ReapCommitPurges
  <2>3. Undisturbed'
    BY <1>0, <2>1, <2>2, UndisturbedByRows
  <2>4. ASSUME NEW i \in MemoryItems PROVE RowsTell(i)' /\ StoredIsIndexed(i)'
    <3>1. CASE i \notin Selected
      <4>1. /\ \A k \in 1..Len(e) : e[k].item # i
            /\ \A n \in OutboxIds : memoryOutbox[n].item = i => rows[n] = memoryOutbox[n]
            /\ memoryTable'[i] = memoryTable[i]
        BY <2>1, <2>2, <3>1
      <4> QED BY <1>0, <2>1, <2>2, <4>1, OtherItemsRows
    <3>2. CASE i \in Selected
      <4>1. ~Stored(i)' /\ memoryTable'[i] # NoItem
        BY <2>2, <3>2, RecordsDiffer DEF Stored
      <4> QED BY <4>1 DEF RowsTell, StoredIsIndexed
    <3> QED BY <3>1, <3>2
  <2> QED BY <2>3, <2>4 DEF IndexInv
<1>8. ASSUME ReapLost \/ \E n, batch : ReapSelect(n, batch) PROVE IndexInv'
  BY <1>3, <1>8 DEF ReapLost, ReapSelect
<1> QED BY <1>2, <1>4, <1>5, <1>6, <1>7, <1>8 DEF MemoryRequestStep

\* A crash only forgets what was under way; retrievals touch none of it.
LEMMA IndexOthers ==
  ASSUME MemoryTypeInv, IndexInv, MemoryCrash \/ MemoryRead \/ UNCHANGED memoryVars
  PROVE  IndexInv'
<1>1. CASE MemoryCrash
  <2>1. /\ memoryPass'.call = "none" /\ memoryCrashes' = memoryCrashes + 1
        /\ UNCHANGED <<memoryTable, memoryOutbox, memoryIndex>>
    BY <1>1, IdlePass DEF MemoryCrash
  <2>2. memoryCrashes' # 0
    BY <2>1, CuratedMemoryAssumption DEF MemoryTypeInv, MemoryTypeOK
  <2>3. OutboxIds' = OutboxIds /\ AppliedRows' \subseteq AppliedRows
    BY <2>1 DEF AppliedRows, OutboxIds
  <2>4. ASSUME NEW i \in MemoryItems PROVE RowsTell(i)' /\ StoredIsIndexed(i)'
    <3>1. /\ ItemRows(i)' = ItemRows(i) /\ (Stored(i)' <=> Stored(i))
          /\ \A n \in ItemRows(i) : IsDelete(n)' <=> IsDelete(n)
      BY <2>1, <2>3 DEF ItemRows, Stored, IsDelete
    <3>2. RowsTell(i) /\ StoredIsIndexed(i)
      BY DEF IndexInv
    <3>3. RowsTell(i)'
      BY <2>1, <3>1, <3>2 DEF RowsTell
    <3>4. StoredIsIndexed(i)'
      BY <2>1, <2>3, <3>1, <3>2 DEF StoredIsIndexed
    <3> QED BY <3>3, <3>4
  <2> QED BY <2>2, <2>4 DEF IndexInv, Undisturbed
<1>2. CASE MemoryRead \/ UNCHANGED memoryVars
  <2>1. UNCHANGED <<memoryTable, memoryOutbox, memoryIndex, memoryPass, memoryCrashes>>
    BY <1>2 DEF MemoryRead, Query, Revalidate, Assemble, memoryVars
  <2>2. AppliedRows' = AppliedRows /\ OutboxIds' = OutboxIds
    BY <2>1 DEF AppliedRows, OutboxIds, MemoryTurn
  <2> QED BY <2>1, <2>2 DEF IndexInv, Undisturbed, PassInOrder, AppliedInOrder, DeletedIsGone,
                            LastIsDelete, Untried, ItemRows, IsDelete, RowsTell,
                            StoredIsIndexed, Stored
<1> QED BY <1>1, <1>2

\* Once all rows of an item are done, the index agrees with the table about it:
\* however requests, reaper, daemon, failed calls and crashes interleave, its
\* point is there if the item is stored; and it is gone if the item was purged
\* and the deletion is the newest of its rows, no row of it was tried twice and
\* the daemon did not crash.
THEOREM IndexAgrees == MemorySpec => []IndexSettles
<1>1. MemoryInit => IndexInv
  <2>1. SUFFICES ASSUME MemoryInit PROVE IndexInv
    OBVIOUS
  <2>2. /\ OutboxIds = {} /\ AppliedRows = {} /\ memoryPass.todo = {}
    BY <2>1, IdlePass DEF MemoryInit, OutboxIds, AppliedRows
  <2>3. ASSUME NEW i \in MemoryItems
        PROVE  RowsTell(i) /\ StoredIsIndexed(i) /\ AppliedInOrder(i) /\ DeletedIsGone(i)
    <3>1. memoryTable[i] = NoItem /\ ~Stored(i) /\ ItemRows(i) = {}
      BY <2>1, <2>2 DEF MemoryInit, Stored, ItemRows
    <3> QED BY <2>2, <3>1 DEF RowsTell, StoredIsIndexed, AppliedInOrder, DeletedIsGone
  <2>4. PassInOrder
    BY <2>2 DEF PassInOrder
  <2> QED BY <2>3, <2>4 DEF IndexInv, Undisturbed
<1>2. MemoryTypeInv /\ IndexInv /\ [MemoryNext]_memoryVars => IndexInv'
  BY IndexRequest, IndexDrain, IndexOthers DEF MemoryNext
<1>3. MemoryTypeInv /\ IndexInv => IndexSettles
  <2> DEFINE Rows(i) == {n \in DOMAIN memoryOutbox : memoryOutbox[n].item = i}
  <2>1. SUFFICES ASSUME MemoryTypeInv, IndexInv, NEW i \in MemoryItems,
                        \A n \in Rows(i) : memoryOutbox[n].status = "done"
                 PROVE  /\ Stored(i) => i \in memoryIndex
                        /\ memoryTable[i] = Purged
                             /\ (\A n \in Rows(i) : memoryOutbox[n].attempts = 0)
                             /\ (\E n \in Rows(i) : memoryOutbox[n].event = "delete"
                                                    /\ \A o \in Rows(i) : o <= n)
                             /\ memoryCrashes = 0 => i \notin memoryIndex
    BY DEF IndexSettles
  <2>2. Rows(i) = ItemRows(i)
    BY <2>1, OutboxShape DEF MemoryTypeInv, ItemRows
  <2> HIDE DEF Rows
  <2>3. ItemRows(i) \subseteq AppliedRows
    BY <2>1, <2>2 DEF ItemRows, AppliedRows
  <2>4. RowsTell(i) /\ StoredIsIndexed(i)
    BY <2>1 DEF IndexInv
  <2>5. Stored(i) => i \in memoryIndex
    BY <2>3, <2>4 DEF RowsTell, StoredIsIndexed
  <2>6. ASSUME memoryCrashes = 0, \A n \in ItemRows(i) : memoryOutbox[n].attempts = 0,
               NEW d \in ItemRows(i), memoryOutbox[d].event = "delete",
               \A o \in ItemRows(i) : o <= d
        PROVE  i \notin memoryIndex
    <3>1. LastIsDelete(i, d) /\ Untried(i)
      BY <2>6 DEF LastIsDelete, IsDelete, Untried
    <3>2. DeletedIsGone(i)
      BY <2>1, <2>6 DEF IndexInv, Undisturbed
    <3> QED BY <2>3, <2>6, <3>1, <3>2 DEF DeletedIsGone
  <2> QED BY <2>2, <2>5, <2>6
<1> QED BY <1>1, <1>2, <1>3, TypeInit, TypeStep, PTL DEF MemorySpec
=============================================================================
