------------------------- MODULE CaseDecisions_proofs -------------------------
(***************************************************************************)
(* Proofs about CaseDecisions, for any cases, subjects and threads.        *)
(***************************************************************************)
EXTENDS CaseDecisions, FiniteSetTheorems, TLAPS

\* The row of a case or decision is held by one transaction at a time, so what
\* it has read of the row and its dependants is still so when it commits.
TransactionInv ==
  \A t \in Threads :
    /\ transaction[t].kind = "snapshot" =>
         /\ Exists(transaction[t].row)
         /\ transaction[t].revision = caseRecords[transaction[t].row].revision + 1
    /\ transaction[t].kind = "approval" =>
         /\ transaction[t].row \in DOMAIN decisions
         /\ transaction[t].actor # decisions[transaction[t].row].author
         /\ \A review \in ReviewsOf(transaction[t].row) : review.actor # transaction[t].actor
         /\ transaction[t].statuses = {review.status : review \in ReviewsOf(transaction[t].row)}
    /\ \A u \in Threads :
         t # u /\ transaction[t] # NoTransaction /\ transaction[u] # NoTransaction
           /\ transaction[t].kind = transaction[u].kind
           => transaction[t].row # transaction[u].row

\* Snapshots are of cases that exist.
SnapshotsOfCases == \A n \in DOMAIN snapshots : Exists(snapshots[n].case)

DecisionsInv ==
  /\ DecisionsTypeOK /\ TransactionInv /\ SnapshotsOfCases
  /\ RevisionsAreGapless /\ StatusIsTheReviews /\ ReviewsAreIndependent
-----------------------------------------------------------------------------
(* Types.                                                                  *)

\* Opening a transaction keeps the table of transactions.
LEMMA OpenedType ==
  ASSUME DecisionsTypeOK, NEW t \in Threads, NEW tx \in OpenTransaction,
         transaction' = [transaction EXCEPT ![t] = tx]
  PROVE  transaction' \in [Threads -> OpenTransaction]
BY DEF DecisionsTypeOK

\* An open transaction is of the kind it says.
LEMMA OpenType ==
  ASSUME DecisionsTypeOK, NEW t \in Threads
  PROVE  /\ transaction[t].kind \in {"none", "snapshot", "approval"}
         /\ transaction[t].kind = "none" <=> transaction[t] = NoTransaction
         /\ transaction[t].kind = "snapshot" =>
              transaction[t].row \in Cases /\ transaction[t].revision \in Nat \ {0}
         /\ transaction[t].kind = "approval" =>
              /\ transaction[t].row \in Nat \ {0} /\ transaction[t].actor \in Reviewers
              /\ transaction[t].statuses \in SUBSET ApprovalStatuses
<1>1. transaction[t] \in OpenTransaction
  BY DEF DecisionsTypeOK
<1> QED BY <1>1 DEF OpenTransaction, NoTransaction

\* Reviews are rows of the table.
LEMMA ReviewType ==
  ASSUME DecisionsTypeOK, NEW d
  PROVE  \A review \in ReviewsOf(d) : review \in Approval
<1>1. \A n \in DOMAIN approvals : approvals[n] \in Approval
  BY DEF DecisionsTypeOK
<1> QED BY <1>1 DEF ReviewsOf

\* Every request keeps the types of the tables.
LEMMA DecisionsTypeStep ==
  DecisionsTypeOK /\ TransactionInv /\ [DecisionsNext]_decisionVars => DecisionsTypeOK'
<1> SUFFICES ASSUME DecisionsTypeOK, TransactionInv, [DecisionsNext]_decisionVars
             PROVE  DecisionsTypeOK'
  OBVIOUS
<1>0. NoTransaction \in OpenTransaction
  BY DEF OpenTransaction
<1>1. ASSUME NEW c \in Cases, NEW actor \in Subjects, CreateCase(c, actor)
      PROVE  DecisionsTypeOK'
  <2>1. [owner |-> actor, revision |-> 0] \in CaseRecord
    BY DEF CaseRecord
  <2> QED BY <1>1, <2>1 DEF CreateCase, DecisionsTypeOK
<1>2. ASSUME NEW c \in Cases, NEW actor \in Subjects, NEW t \in Threads,
             BeginSnapshot(t, c, actor)
      PROVE  DecisionsTypeOK'
  <2>1. caseRecords[c] \in CaseRecord
    BY <1>2 DEF BeginSnapshot, MayAccess, Exists, DecisionsTypeOK
  <2>2. [kind |-> "snapshot", row |-> c, revision |-> NextRevision(c)] \in OpenTransaction
    BY <2>1 DEF OpenTransaction, CaseRecord, NextRevision
  <2> QED BY <1>2, <2>2, OpenedType DEF BeginSnapshot, DecisionsTypeOK
<1>3. ASSUME NEW t \in Threads, NEW evidence \in SUBSET EvidenceRefs, CommitSnapshot(t, evidence)
      PROVE  DecisionsTypeOK'
  <2>1. transaction[t].row \in Cases /\ transaction[t].revision \in Nat \ {0}
    BY <1>3, OpenType DEF CommitSnapshot
  <2>2. [case |-> transaction[t].row, revision |-> transaction[t].revision,
         evidence |-> evidence] \in Snapshot
    BY <2>1 DEF Snapshot
  <2>3. caseRecords[transaction[t].row] \in CaseRecord
    BY <1>3, <2>1 DEF CommitSnapshot, TransactionInv, Exists, DecisionsTypeOK
  <2>4. Revised(caseRecords[transaction[t].row], transaction[t].revision) \in CaseRecord
    BY <2>1, <2>3 DEF Revised, CaseRecord
  <2>5. snapshots' \in Seq(Snapshot)
    BY <1>3, <2>2 DEF CommitSnapshot, DecisionsTypeOK
  <2>6. caseRecords' \in [Cases -> CaseRecord \cup {NoCase}]
    BY <1>3, <2>4 DEF CommitSnapshot, DecisionsTypeOK
  <2>7. transaction' \in [Threads -> OpenTransaction]
    BY <1>0, <1>3, OpenedType DEF CommitSnapshot
  <2> QED BY <1>3, <2>5, <2>6, <2>7 DEF CommitSnapshot, DecisionsTypeOK
<1>4. ASSUME NEW c \in Cases, NEW actor \in Subjects, NEW snapshot \in DOMAIN snapshots,
             NEW evidence \in SUBSET EvidenceRefs, NEW supersedes \in {0} \cup DOMAIN decisions,
             CreateDecision(c, snapshot, evidence, supersedes, actor)
      PROVE  DecisionsTypeOK'
  <2>1. snapshot \in Nat \ {0} /\ supersedes \in Nat
    BY DEF DecisionsTypeOK
  <2>2. [case |-> c, snapshot |-> snapshot, evidence |-> evidence, supersedes |-> supersedes,
         author |-> actor, status |-> "review_required"] \in Decision
    BY <2>1 DEF Decision
  <2> QED BY <1>4, <2>2 DEF CreateDecision, DecisionsTypeOK
<1>5. ASSUME NEW t \in Threads, NEW d \in DOMAIN decisions, NEW actor \in Reviewers,
             BeginApproval(t, d, actor)
      PROVE  DecisionsTypeOK'
  <2>1. d \in Nat \ {0}
    BY DEF DecisionsTypeOK
  <2>2. \A review \in ReviewsOf(d) : review.status \in ApprovalStatuses
    BY ReviewType DEF Approval
  <2>3. [kind |-> "approval", row |-> d, actor |-> actor,
         statuses |-> {review.status : review \in ReviewsOf(d)}] \in OpenTransaction
    BY <2>1, <2>2 DEF OpenTransaction
  <2> QED BY <1>5, <2>3, OpenedType DEF BeginApproval, Independent, DecisionsTypeOK
<1>6. ASSUME NEW t \in Threads, NEW status \in ApprovalStatuses, CommitApproval(t, status)
      PROVE  DecisionsTypeOK'
  <2>1. /\ transaction[t].row \in Nat \ {0} /\ transaction[t].actor \in Reviewers
        /\ transaction[t].row \in DOMAIN decisions
    BY <1>6, OpenType DEF CommitApproval, TransactionInv
  <2>2. [decision |-> transaction[t].row, status |-> status,
         actor |-> transaction[t].actor] \in Approval
    BY <2>1 DEF Approval
  <2>3. Aggregate(transaction[t].statuses \cup {status}) \in ApprovalStatuses
    BY DEF Aggregate, ApprovalStatuses
  <2>4. approvals' \in Seq(Approval)
    BY <1>6, <2>2 DEF CommitApproval, DecisionsTypeOK
  <2>5. decisions[transaction[t].row] \in Decision
    BY <2>1 DEF DecisionsTypeOK
  <2>6. [decisions[transaction[t].row] EXCEPT
           !.status = Aggregate(transaction[t].statuses \cup {status})] \in Decision
    BY <2>3, <2>5 DEF Decision
  <2>7. decisions' \in Seq(Decision)
    BY <1>6, <2>1, <2>6 DEF CommitApproval, DecisionsTypeOK
  <2>8. transaction' \in [Threads -> OpenTransaction]
    BY <1>0, <1>6, OpenedType DEF CommitApproval
  <2> QED BY <1>6, <2>4, <2>7, <2>8 DEF CommitApproval, DecisionsTypeOK
<1>7. ASSUME NEW t \in Threads, Rollback(t)
      PROVE  DecisionsTypeOK'
  BY <1>0, <1>7, OpenedType DEF Rollback, DecisionsTypeOK
<1>8. CASE UNCHANGED decisionVars
  BY <1>8 DEF decisionVars, DecisionsTypeOK
<1> QED BY <1>1, <1>2, <1>3, <1>4, <1>5, <1>6, <1>7, <1>8 DEF DecisionsNext
-----------------------------------------------------------------------------
(* What a step leaves alone.                                               *)

\* A case exists for good.
LEMMA CasesStay ==
  ASSUME DecisionsTypeOK, TransactionInv, [DecisionsNext]_decisionVars, NEW c \in Cases, Exists(c)
  PROVE  Exists(c)'
<1>1. caseRecords[c] \in CaseRecord
  BY DEF Exists, DecisionsTypeOK
<1>2. CASE caseRecords' = caseRecords
  BY <1>2 DEF Exists
<1>3. ASSUME NEW d \in Cases, NEW actor \in Subjects, CreateCase(d, actor)
      PROVE  Exists(c)'
  BY <1>3 DEF CreateCase, Exists, DecisionsTypeOK
<1>4. ASSUME NEW t \in Threads, NEW evidence \in SUBSET EvidenceRefs, CommitSnapshot(t, evidence)
      PROVE  Exists(c)'
  <2>1. transaction[t].row \in Cases /\ transaction[t].revision \in Nat \ {0}
    BY <1>4, OpenType DEF CommitSnapshot
  <2>2. caseRecords[transaction[t].row] \in CaseRecord
    BY <1>4, <2>1 DEF CommitSnapshot, TransactionInv, Exists, DecisionsTypeOK
  <2>3. Revised(caseRecords[transaction[t].row], transaction[t].revision).revision
          = transaction[t].revision
    BY <2>2 DEF Revised, CaseRecord
  <2>4. caseRecords'[c] = caseRecords[c]
          \/ caseRecords'[c] = Revised(caseRecords[transaction[t].row], transaction[t].revision)
    BY <1>4, <2>1 DEF CommitSnapshot, DecisionsTypeOK
  <2>5. caseRecords'[c].revision # -1
    BY <1>1, <2>1, <2>3, <2>4 DEF CaseRecord
  <2> QED BY <2>5 DEF Exists, NoCase
<1> QED
  BY <1>2, <1>3, <1>4
  DEF DecisionsNext, decisionVars, BeginSnapshot, CreateDecision,
    BeginApproval, Independent, CommitApproval,
      Rollback

\* A new review is one of its decision's and of no other.
LEMMA ReviewAdded ==
  ASSUME DecisionsTypeOK, NEW new \in Approval, approvals' = Append(approvals, new), NEW d
  PROVE  ReviewsOf(d)' = ReviewsOf(d) \cup (IF new.decision = d THEN {new} ELSE {})
<1>1. /\ DOMAIN approvals' = DOMAIN approvals \cup {Len(approvals) + 1}
      /\ Len(approvals) + 1 \notin DOMAIN approvals
      /\ \A n \in DOMAIN approvals : approvals'[n] = approvals[n]
      /\ approvals'[Len(approvals) + 1] = new
  BY DEF DecisionsTypeOK
<1> QED BY <1>1 DEF ReviewsOf
-----------------------------------------------------------------------------
(* What a transaction has read stays true until it commits.                *)

\* The claims of TransactionInv about one transaction.
ReadStillTrue(t) ==
  /\ transaction[t].kind = "snapshot" =>
       /\ Exists(transaction[t].row)
       /\ transaction[t].revision = caseRecords[transaction[t].row].revision + 1
  /\ transaction[t].kind = "approval" =>
       /\ transaction[t].row \in DOMAIN decisions
       /\ transaction[t].actor # decisions[transaction[t].row].author
       /\ \A review \in ReviewsOf(transaction[t].row) : review.actor # transaction[t].actor
       /\ transaction[t].statuses = {review.status : review \in ReviewsOf(transaction[t].row)}

RowsApart(t, u) ==
  t # u /\ transaction[t] # NoTransaction /\ transaction[u] # NoTransaction
    /\ transaction[t].kind = transaction[u].kind
    => transaction[t].row # transaction[u].row

LEMMA TransactionInvParts ==
  TransactionInv <=> /\ \A t \in Threads : ReadStillTrue(t)
                     /\ \A t, u \in Threads : RowsApart(t, u)
BY DEF TransactionInv, ReadStillTrue, RowsApart

\* A transaction that is open on a free row is apart from all others, and one
\* that ends no longer counts.
LEMMA RowsStayApart ==
  ASSUME DecisionsTypeOK, TransactionInv, NEW t \in Threads, NEW tx,
         transaction' = [transaction EXCEPT ![t] = tx],
         tx # NoTransaction => RowFree(tx.kind, tx.row)
  PROVE  \A u, w \in Threads : RowsApart(u, w)'
<1>1. \A u \in Threads : transaction'[u] = IF u = t THEN tx ELSE transaction[u]
  BY DEF DecisionsTypeOK
<1>2. \A u, w \in Threads : RowsApart(u, w)
  BY TransactionInvParts
<1> QED BY <1>1, <1>2 DEF RowsApart, RowFree

\* Requests keep TransactionInv.
LEMMA TransactionStep ==
  DecisionsTypeOK /\ TransactionInv /\ [DecisionsNext]_decisionVars => TransactionInv'
<1> SUFFICES ASSUME DecisionsTypeOK, TransactionInv, [DecisionsNext]_decisionVars
             PROVE  TransactionInv'
  OBVIOUS
<1>a. /\ \A t \in Threads : ReadStillTrue(t)
      /\ \A t, u \in Threads : RowsApart(t, u)
  BY TransactionInvParts
<1>b. \A t \in Threads : transaction[t].kind = "snapshot" => transaction[t].row \in Cases
  BY OpenType
<1>1. ASSUME NEW c \in Cases, NEW actor \in Subjects, CreateCase(c, actor)
      PROVE  TransactionInv'
  <2>1. \A t \in Threads : ReadStillTrue(t)'
    <3>1. ASSUME NEW t \in Threads, transaction[t].kind = "snapshot"
          PROVE  caseRecords'[transaction[t].row] = caseRecords[transaction[t].row]
      BY <1>a, <1>b, <1>1, <3>1 DEF CreateCase, ReadStillTrue, Exists, DecisionsTypeOK
    <3> QED BY <1>a, <1>1, <3>1 DEF CreateCase, ReadStillTrue, Exists, ReviewsOf
  <2>2. \A t, u \in Threads : RowsApart(t, u)'
    BY <1>a, <1>1 DEF CreateCase, RowsApart
  <2> QED BY <2>1, <2>2 DEF TransactionInv, ReadStillTrue, RowsApart
<1>2. ASSUME NEW c \in Cases, NEW actor \in Subjects, NEW t \in Threads,
             BeginSnapshot(t, c, actor)
      PROVE  TransactionInv'
  <2> DEFINE tx == [kind |-> "snapshot", row |-> c, revision |-> NextRevision(c)]
  <2>1. \A u \in Threads : transaction'[u] = IF u = t THEN tx ELSE transaction[u]
    BY <1>2 DEF BeginSnapshot, DecisionsTypeOK
  <2>2. \A u \in Threads : ReadStillTrue(u)'
    BY <1>a, <1>2, <2>1 DEF BeginSnapshot, ReadStillTrue, Exists, ReviewsOf, MayAccess, NextRevision
  <2>3. \A u, w \in Threads : RowsApart(u, w)'
    BY <1>2, RowsStayApart DEF BeginSnapshot
  <2> QED BY <2>2, <2>3 DEF TransactionInv, ReadStillTrue, RowsApart
<1>3. ASSUME NEW t \in Threads, NEW evidence \in SUBSET EvidenceRefs, CommitSnapshot(t, evidence)
      PROVE  TransactionInv'
  <2>1. \A u \in Threads : transaction'[u] = IF u = t THEN NoTransaction ELSE transaction[u]
    BY <1>3 DEF CommitSnapshot, DecisionsTypeOK
  <2>2. transaction[t].row \in Cases
    BY <1>3, OpenType DEF CommitSnapshot
  <2>3. \A u \in Threads \ {t} :
          transaction[u].kind = "snapshot" =>
            /\ transaction[u].row # transaction[t].row
            /\ caseRecords'[transaction[u].row] = caseRecords[transaction[u].row]
    <3>1. \A u \in Threads : transaction[u].kind = "snapshot" => transaction[u] # NoTransaction
      BY DEF NoTransaction
    <3> QED BY <1>3, <1>a, <1>b, <3>1 DEF CommitSnapshot, RowsApart, DecisionsTypeOK
  <2>4. \A u \in Threads : ReadStillTrue(u)'
    BY <1>a, <1>3, <2>1, <2>3 DEF CommitSnapshot, ReadStillTrue, Exists, ReviewsOf, NoTransaction
  <2>5. \A u, w \in Threads : RowsApart(u, w)'
    BY <1>3, RowsStayApart DEF CommitSnapshot
  <2> QED BY <2>4, <2>5 DEF TransactionInv, ReadStillTrue, RowsApart
<1>4. ASSUME NEW c \in Cases, NEW actor \in Subjects, NEW snapshot \in DOMAIN snapshots,
             NEW evidence \in SUBSET EvidenceRefs, NEW supersedes \in {0} \cup DOMAIN decisions,
             CreateDecision(c, snapshot, evidence, supersedes, actor)
      PROVE  TransactionInv'
  <2>1. \A d \in DOMAIN decisions : d \in DOMAIN decisions' /\ decisions'[d] = decisions[d]
    BY <1>4 DEF CreateDecision, DecisionsTypeOK
  <2>2. \A u \in Threads : ReadStillTrue(u)'
    BY <1>a, <1>4, <2>1 DEF CreateDecision, ReadStillTrue, Exists, ReviewsOf
  <2>3. \A u, w \in Threads : RowsApart(u, w)'
    BY <1>a, <1>4 DEF CreateDecision, RowsApart
  <2> QED BY <2>2, <2>3 DEF TransactionInv, ReadStillTrue, RowsApart
<1>5. ASSUME NEW t \in Threads, NEW d \in DOMAIN decisions, NEW actor \in Reviewers,
             BeginApproval(t, d, actor)
      PROVE  TransactionInv'
  <2> DEFINE tx == [kind |-> "approval", row |-> d, actor |-> actor,
                    statuses |-> {review.status : review \in ReviewsOf(d)}]
  <2>1. \A u \in Threads : transaction'[u] = IF u = t THEN tx ELSE transaction[u]
    BY <1>5 DEF BeginApproval, Independent, DecisionsTypeOK
  <2>2. \A u \in Threads : ReadStillTrue(u)'
    BY <1>a, <1>5, <2>1 DEF BeginApproval, Independent, ReadStillTrue, Exists, ReviewsOf
  <2>3. \A u, w \in Threads : RowsApart(u, w)'
    BY <1>5, RowsStayApart DEF BeginApproval, Independent
  <2> QED BY <2>2, <2>3 DEF TransactionInv, ReadStillTrue, RowsApart
<1>6. ASSUME NEW t \in Threads, NEW status \in ApprovalStatuses, CommitApproval(t, status)
      PROVE  TransactionInv'
  <2> DEFINE new == [decision |-> transaction[t].row, status |-> status,
                     actor |-> transaction[t].actor]
  <2>1. \A u \in Threads : transaction'[u] = IF u = t THEN NoTransaction ELSE transaction[u]
    BY <1>6 DEF CommitApproval, DecisionsTypeOK
  <2>2. transaction[t].row \in Nat \ {0} /\ transaction[t].actor \in Reviewers
    BY <1>6, OpenType DEF CommitApproval
  <2>3. new \in Approval
    BY <2>2 DEF Approval
  <2>4. \A d : d # transaction[t].row => ReviewsOf(d)' = ReviewsOf(d)
    <3> TAKE d
    <3> HAVE d # transaction[t].row
    <3>1. approvals' = Append(approvals, new)
      BY <1>6 DEF CommitApproval
    <3>2. ReviewsOf(d)' = ReviewsOf(d) \cup (IF new.decision = d THEN {new} ELSE {})
      BY <2>3, <3>1, ReviewAdded
    <3> QED BY <3>2
  <2>5. \A d \in DOMAIN decisions :
          d \in DOMAIN decisions' /\ decisions'[d].author = decisions[d].author
    BY <1>6 DEF CommitApproval, DecisionsTypeOK, Decision
  <2>6. \A u \in Threads \ {t} :
          transaction[u].kind = "approval" => transaction[u].row # transaction[t].row
    BY <1>a, <1>6 DEF CommitApproval, RowsApart, NoTransaction
  <2>7. \A u \in Threads \ {t} : ReadStillTrue(u)'
    <3> TAKE u \in Threads \ {t}
    <3>1. ReadStillTrue(u) /\ transaction'[u] = transaction[u]
      BY <1>a, <2>1
    <3>2. PICK d : d = transaction[u].row /\ d = transaction'[u].row
      BY <3>1
    <3>3. transaction[u].kind = "approval" => ReviewsOf(d)' = ReviewsOf(d)
      BY <2>4, <2>6, <3>2
    <3>4. caseRecords' = caseRecords
      BY <1>6 DEF CommitApproval
    <3> QED BY <2>5, <3>1, <3>2, <3>3, <3>4 DEF ReadStillTrue, ReviewsOf, Exists
  <2>8. ReadStillTrue(t)'
    BY <2>1 DEF ReadStillTrue, NoTransaction
  <2>9. \A u, w \in Threads : RowsApart(u, w)'
    BY <1>6, RowsStayApart DEF CommitApproval
  <2> QED BY <2>7, <2>8, <2>9 DEF TransactionInv, ReadStillTrue, RowsApart
<1>7. ASSUME NEW t \in Threads, Rollback(t)
      PROVE  TransactionInv'
  <2>1. \A u \in Threads : transaction'[u] = IF u = t THEN NoTransaction ELSE transaction[u]
    BY <1>7 DEF Rollback, DecisionsTypeOK
  <2>2. \A u \in Threads : ReadStillTrue(u)'
    BY <1>a, <1>7, <2>1 DEF Rollback, ReadStillTrue, Exists, ReviewsOf, NoTransaction
  <2>3. \A u, w \in Threads : RowsApart(u, w)'
    BY <1>7, RowsStayApart DEF Rollback
  <2> QED BY <2>2, <2>3 DEF TransactionInv, ReadStillTrue, RowsApart
<1>8. CASE UNCHANGED decisionVars
  BY <1>8 DEF decisionVars, TransactionInv, Exists, ReviewsOf
<1> QED BY <1>1, <1>2, <1>3, <1>4, <1>5, <1>6, <1>7, <1>8 DEF DecisionsNext
-----------------------------------------------------------------------------
(* The numbering of the snapshots.                                         *)

SnapshotInv == DecisionsTypeOK /\ TransactionInv /\ SnapshotsOfCases /\ RevisionsAreGapless

LEMMA SnapshotType ==
  DecisionsTypeOK => \A n \in DOMAIN snapshots : snapshots[n] \in Snapshot
BY DEF DecisionsTypeOK

\* A request other than the commit of a snapshot keeps the numbering.
LEMMA NumberingKept ==
  ASSUME SnapshotInv, snapshots' = snapshots,
         \A c \in Cases : Exists(c) => Exists(c)' /\ caseRecords'[c] = caseRecords[c],
         \A c \in Cases : Exists(c)' /\ ~Exists(c) => caseRecords'[c].revision = 0
  PROVE  SnapshotsOfCases' /\ RevisionsAreGapless'
<1>1. \A n \in DOMAIN snapshots : snapshots[n].case \in Cases
  BY SnapshotType DEF SnapshotInv, Snapshot
<1>2. SnapshotsOfCases'
  <2>1. \A n \in DOMAIN snapshots : Exists(snapshots[n].case) /\ snapshots'[n] = snapshots[n]
    BY DEF SnapshotInv, SnapshotsOfCases
  <2> QED BY <1>1, <2>1 DEF SnapshotsOfCases, Exists
<1>3. ASSUME NEW c \in Cases, Exists(c)'
      PROVE  LET of == {n \in DOMAIN snapshots' : snapshots'[n].case = c}
             IN /\ {snapshots'[n].revision : n \in of} = 1..caseRecords'[c].revision
                /\ \A n, m \in of : snapshots'[n].revision = snapshots'[m].revision => n = m
  <2>1. CASE Exists(c)
    BY <2>1 DEF SnapshotInv, RevisionsAreGapless
  <2>2. CASE ~Exists(c)
    <3>1. {n \in DOMAIN snapshots' : snapshots'[n].case = c} = {}
      BY <2>2 DEF SnapshotInv, SnapshotsOfCases
    <3>2. 1..caseRecords'[c].revision = {}
      BY <1>3, <2>2
    <3> QED BY <3>1, <3>2
  <2> QED BY <2>1, <2>2
<1> QED BY <1>2, <1>3 DEF RevisionsAreGapless

\* The committed snapshot is the next one of its case.
LEMMA NumberingCommitted ==
  ASSUME SnapshotInv, NEW t \in Threads, NEW evidence \in SUBSET EvidenceRefs,
         CommitSnapshot(t, evidence)
  PROVE  SnapshotsOfCases' /\ RevisionsAreGapless'
<1> USE DEF SnapshotInv
<1> PICK row \in Cases : row = transaction[t].row
  BY OpenType DEF CommitSnapshot
<1> DEFINE new == [case |-> row, revision |-> transaction[t].revision, evidence |-> evidence]
           last == Len(snapshots) + 1
<1>1. /\ Exists(row) /\ caseRecords[row] \in CaseRecord
      /\ transaction[t].revision = caseRecords[row].revision + 1
  BY DEF CommitSnapshot, TransactionInv, Exists, DecisionsTypeOK
<1>2. /\ DOMAIN snapshots' = DOMAIN snapshots \cup {last} /\ last \notin DOMAIN snapshots
      /\ \A n \in DOMAIN snapshots : snapshots'[n] = snapshots[n]
      /\ snapshots'[last] = new
  BY DEF CommitSnapshot, DecisionsTypeOK
<1>3. /\ \A c \in Cases : c # row => caseRecords'[c] = caseRecords[c]
      /\ caseRecords'[row].revision = caseRecords[row].revision + 1
      /\ caseRecords[row].revision \in Nat
  <2>1. Revised(caseRecords[row], transaction[t].revision).revision = transaction[t].revision
    BY <1>1 DEF Revised, CaseRecord
  <2> QED BY <1>1, <2>1 DEF CommitSnapshot, DecisionsTypeOK, CaseRecord
<1>4. SnapshotsOfCases'
  <2>1. \A n \in DOMAIN snapshots : snapshots[n].case \in Cases /\ Exists(snapshots[n].case)
    BY SnapshotType DEF SnapshotsOfCases, Snapshot
  <2>2. \A c \in Cases : Exists(c) => Exists(c)'
    BY <1>1, <1>3 DEF Exists, NoCase, CaseRecord
  <2> QED BY <1>1, <1>2, <2>1, <2>2 DEF SnapshotsOfCases, Exists
<1>5. ASSUME NEW c \in Cases, Exists(c)'
      PROVE  LET of == {n \in DOMAIN snapshots' : snapshots'[n].case = c}
             IN /\ {snapshots'[n].revision : n \in of} = 1..caseRecords'[c].revision
                /\ \A n, m \in of : snapshots'[n].revision = snapshots'[m].revision => n = m
  <2> DEFINE before == {n \in DOMAIN snapshots : snapshots[n].case = c}
             after == {n \in DOMAIN snapshots' : snapshots'[n].case = c}
  <2>1. CASE c # row
    <3>1. Exists(c) /\ caseRecords'[c] = caseRecords[c]
      BY <1>3, <1>5, <2>1 DEF Exists
    <3>2. after = before
      BY <1>2, <2>1
    <3>3. \A n \in before : snapshots'[n].revision = snapshots[n].revision
      BY <1>2
    <3>4. /\ {snapshots[n].revision : n \in before} = 1..caseRecords[c].revision
          /\ \A n, m \in before : snapshots[n].revision = snapshots[m].revision => n = m
      BY <3>1 DEF RevisionsAreGapless
    <3> QED BY <3>1, <3>2, <3>3, <3>4
  <2>2. CASE c = row
    <3>1. after = before \cup {last} /\ last \notin before
      BY <1>2, <2>2
    <3>2. /\ \A n \in before : snapshots'[n].revision = snapshots[n].revision
          /\ snapshots'[last].revision = caseRecords[row].revision + 1
      BY <1>1, <1>2
    <3>3. /\ {snapshots[n].revision : n \in before} = 1..caseRecords[row].revision
          /\ \A n, m \in before : snapshots[n].revision = snapshots[m].revision => n = m
      BY <1>1, <2>2 DEF RevisionsAreGapless
    <3>4. 1..caseRecords'[c].revision = 1..caseRecords[row].revision
                                          \cup {caseRecords[row].revision + 1}
      BY <1>3, <2>2
    <3>5. \A n \in before : snapshots[n].revision # caseRecords[row].revision + 1
      BY <1>3, <3>3
    <3>6. {snapshots'[n].revision : n \in after} = 1..caseRecords'[c].revision
      BY <3>1, <3>2, <3>3, <3>4
    <3>7. \A n, m \in after : snapshots'[n].revision = snapshots'[m].revision => n = m
      BY <3>1, <3>2, <3>3, <3>5
    <3> QED BY <3>6, <3>7
  <2> QED BY <2>1, <2>2
<1> QED BY <1>4, <1>5 DEF RevisionsAreGapless

LEMMA SnapshotStep == SnapshotInv /\ [DecisionsNext]_decisionVars => SnapshotInv'
<1> SUFFICES ASSUME SnapshotInv, [DecisionsNext]_decisionVars
             PROVE  SnapshotInv'
  OBVIOUS
<1>1. DecisionsTypeOK' /\ TransactionInv'
  BY DecisionsTypeStep, TransactionStep DEF SnapshotInv
<1>2. CASE snapshots' = snapshots /\ caseRecords' = caseRecords
  BY <1>1, <1>2, NumberingKept DEF SnapshotInv, Exists
<1>3. ASSUME NEW c \in Cases, NEW actor \in Subjects, CreateCase(c, actor)
      PROVE  SnapshotInv'
  <2>1. \A d \in Cases : Exists(d) => Exists(d)' /\ caseRecords'[d] = caseRecords[d]
    BY <1>3 DEF SnapshotInv, CreateCase, Exists, DecisionsTypeOK
  <2>2. \A d \in Cases : Exists(d)' /\ ~Exists(d) => caseRecords'[d].revision = 0
    BY <1>3 DEF SnapshotInv, CreateCase, Exists, DecisionsTypeOK
  <2> QED BY <1>1, <1>3, <2>1, <2>2, NumberingKept DEF SnapshotInv, CreateCase
<1>4. ASSUME NEW t \in Threads, NEW evidence \in SUBSET EvidenceRefs, CommitSnapshot(t, evidence)
      PROVE  SnapshotInv'
  BY <1>1, <1>4, NumberingCommitted DEF SnapshotInv
<1> QED
  BY <1>2, <1>3, <1>4
  DEF DecisionsNext, decisionVars, BeginSnapshot, CreateDecision,
    BeginApproval, Independent, CommitApproval,
      Rollback
-----------------------------------------------------------------------------
(* The reviews.                                                            *)

\* What StatusIsTheReviews says of one decision.
StatusOf(d) ==
  IF ReviewsOf(d) = {} THEN decisions[d].status = "review_required"
  ELSE \A status \in ApprovalStatuses :
         decisions[d].status = status <=>
           /\ \E review \in ReviewsOf(d) : review.status = status
           /\ \A review \in ReviewsOf(d) :
                /\ review.status = "rejected" => status = "rejected"
                /\ review.status = "conditional" => status # "approved"

ReviewInv == DecisionsTypeOK /\ TransactionInv /\ StatusIsTheReviews /\ ReviewsAreIndependent

\* The aggregate of a set of statuses is the strictest of them.
LEMMA AggregateIsStrictest ==
  ASSUME NEW statuses \in SUBSET ApprovalStatuses, statuses # {}, NEW status \in ApprovalStatuses
  PROVE  Aggregate(statuses) = status <=>
           /\ status \in statuses
           /\ \A other \in statuses : /\ other = "rejected" => status = "rejected"
                                      /\ other = "conditional" => status # "approved"
BY DEF Aggregate, ApprovalStatuses

\* The commit of a review keeps both properties: the statuses its transaction
\* has read are those of all other reviews of the decision.
LEMMA ReviewCommitted ==
  ASSUME ReviewInv, NEW t \in Threads, NEW status \in ApprovalStatuses, CommitApproval(t, status)
  PROVE  StatusIsTheReviews' /\ ReviewsAreIndependent'
<1> USE DEF ReviewInv
<1> PICK row \in Nat \ {0}, actor \in Reviewers, statuses \in SUBSET ApprovalStatuses :
      /\ row = transaction[t].row /\ actor = transaction[t].actor
      /\ statuses = transaction[t].statuses
  BY OpenType DEF CommitApproval
<1> DEFINE new == [decision |-> row, status |-> status, actor |-> actor]
           last == Len(approvals) + 1
<1>1. /\ row \in DOMAIN decisions /\ actor # decisions[row].author
      /\ \A review \in ReviewsOf(row) : review.actor # actor
      /\ statuses = {review.status : review \in ReviewsOf(row)}
  BY DEF CommitApproval, TransactionInv
<1>2. new \in Approval
  BY DEF Approval
<1>3. /\ approvals' = Append(approvals, new)
      /\ DOMAIN approvals' = DOMAIN approvals \cup {last} /\ last \notin DOMAIN approvals
      /\ \A n \in DOMAIN approvals : approvals'[n] = approvals[n]
      /\ approvals'[last] = new
  BY DEF CommitApproval, DecisionsTypeOK
<1>4. \A d : ReviewsOf(d)' = ReviewsOf(d) \cup (IF new.decision = d THEN {new} ELSE {})
  BY <1>2, <1>3, ReviewAdded
<1>5. /\ DOMAIN decisions' = DOMAIN decisions
      /\ \A d \in DOMAIN decisions : decisions'[d].author = decisions[d].author
      /\ \A d \in DOMAIN decisions : d # row => decisions'[d] = decisions[d]
      /\ decisions'[row].status = Aggregate(statuses \cup {status})
  <2>1. \A d \in DOMAIN decisions : decisions[d] \in Decision
    BY DEF DecisionsTypeOK
  <2>2. decisions' = [decisions EXCEPT ![row].status = Aggregate(statuses \cup {status})]
    BY DEF CommitApproval
  <2> QED BY <1>1, <2>1, <2>2 DEF Decision
<1>6. ASSUME NEW d \in DOMAIN decisions
      PROVE  StatusOf(d)'
  <2>1. CASE d # row
    <3>1. ReviewsOf(d)' = ReviewsOf(d) /\ decisions'[d] = decisions[d]
      BY <1>4, <1>5, <2>1
    <3>2. StatusOf(d)
      BY DEF StatusIsTheReviews, StatusOf
    <3> QED BY <3>1, <3>2 DEF StatusOf
  <2>2. CASE d = row
    <3>1. ReviewsOf(d)' = ReviewsOf(row) \cup {new}
      BY <1>4, <2>2
    <3>2. \A review \in ReviewsOf(row) : review \in Approval
      BY ReviewType
    <3>3. {review.status : review \in ReviewsOf(row) \cup {new}} = statuses \cup {new.status}
      BY <1>1
    <3>4. {review.status : review \in ReviewsOf(d)'} = statuses \cup {status}
      BY <3>1, <3>3
    <3>5. statuses \cup {status} \in SUBSET ApprovalStatuses /\ statuses \cup {status} # {}
      OBVIOUS
    <3>6. \A st \in ApprovalStatuses :
            decisions'[d].status = st <=>
              /\ st \in statuses \cup {status}
              /\ \A other \in statuses \cup {status} :
                   /\ other = "rejected" => st = "rejected"
                   /\ other = "conditional" => st # "approved"
      BY <1>5, <2>2, <3>5, AggregateIsStrictest
    <3>7. ReviewsOf(d)' # {}
      BY <3>1
    <3>8. \A st : st \in statuses \cup {status} <=>
                    \E review \in ReviewsOf(d)' : review.status = st
      BY <3>4
    <3> QED BY <3>6, <3>7, <3>8 DEF StatusOf
  <2> QED BY <2>1, <2>2
<1>7. StatusIsTheReviews'
  BY <1>5, <1>6 DEF StatusIsTheReviews, StatusOf
<1>8. \A n \in DOMAIN approvals : approvals[n].decision = row => approvals[n].actor # actor
  BY <1>1 DEF ReviewsOf
<1>9. ReviewsAreIndependent'
  BY <1>1, <1>3, <1>5, <1>8 DEF ReviewsAreIndependent
<1> QED BY <1>7, <1>9

LEMMA ReviewStep == ReviewInv /\ [DecisionsNext]_decisionVars => ReviewInv'
<1> SUFFICES ASSUME ReviewInv, [DecisionsNext]_decisionVars
             PROVE  ReviewInv'
  OBVIOUS
<1>1. DecisionsTypeOK' /\ TransactionInv'
  BY DecisionsTypeStep, TransactionStep DEF ReviewInv
<1>2. CASE approvals' = approvals /\ decisions' = decisions
  BY <1>1, <1>2 DEF ReviewInv, StatusIsTheReviews, ReviewsAreIndependent, ReviewsOf
<1>3. ASSUME NEW c \in Cases, NEW actor \in Subjects, NEW snapshot \in DOMAIN snapshots,
             NEW evidence \in SUBSET EvidenceRefs, NEW supersedes \in {0} \cup DOMAIN decisions,
             CreateDecision(c, snapshot, evidence, supersedes, actor)
      PROVE  ReviewInv'
  <2> DEFINE last == Len(decisions) + 1
  <2>1. /\ DOMAIN decisions' = DOMAIN decisions \cup {last} /\ last \notin DOMAIN decisions
        /\ \A d \in DOMAIN decisions : decisions'[d] = decisions[d]
        /\ decisions'[last].status = "review_required"
        /\ approvals' = approvals
    BY <1>3 DEF ReviewInv, CreateDecision, DecisionsTypeOK
  <2>2. ReviewsOf(last) = {}
    BY <2>1 DEF ReviewInv, ReviewsAreIndependent, ReviewsOf
  <2>3. \A d : ReviewsOf(d)' = ReviewsOf(d)
    BY <2>1 DEF ReviewsOf
  <2>4. \A d \in DOMAIN decisions : StatusOf(d)
    BY DEF ReviewInv, StatusIsTheReviews, StatusOf
  <2>5. \A d \in DOMAIN decisions' : StatusOf(d)'
    <3> TAKE d \in DOMAIN decisions'
    <3>1. ReviewsOf(d)' = ReviewsOf(d)
      BY <2>3
    <3>2. CASE d \in DOMAIN decisions
      BY <2>1, <2>4, <3>1, <3>2 DEF StatusOf
    <3>3. CASE d = last
      BY <2>1, <2>2, <3>1, <3>3 DEF StatusOf
    <3> QED BY <2>1, <3>2, <3>3
  <2>6. StatusIsTheReviews'
    BY <2>5 DEF StatusIsTheReviews, StatusOf
  <2>7. ReviewsAreIndependent'
    BY <2>1 DEF ReviewInv, ReviewsAreIndependent
  <2> QED BY <1>1, <2>6, <2>7 DEF ReviewInv
<1>4. ASSUME NEW t \in Threads, NEW status \in ApprovalStatuses, CommitApproval(t, status)
      PROVE  ReviewInv'
  BY <1>1, <1>4, ReviewCommitted DEF ReviewInv
<1> QED
  BY <1>2, <1>3, <1>4
  DEF DecisionsNext, decisionVars, CreateCase, BeginSnapshot, CommitSnapshot,
    BeginApproval, Independent,
      Rollback
-----------------------------------------------------------------------------
LEMMA DecisionsInitInv == DecisionsInit => DecisionsInv
<1> SUFFICES ASSUME DecisionsInit
             PROVE  DecisionsInv
  OBVIOUS
<1>1. DecisionsTypeOK
  BY DEF DecisionsInit, DecisionsTypeOK, OpenTransaction
<1>2. TransactionInv
  <2>1. \A t \in Threads : transaction[t] = NoTransaction
    BY DEF DecisionsInit
  <2>2. NoTransaction.kind = "none"
    BY DEF NoTransaction
  <2>3. \A t \in Threads : ReadStillTrue(t)
    BY <2>1, <2>2 DEF ReadStillTrue
  <2>4. \A t, u \in Threads : RowsApart(t, u)
    BY <2>1 DEF RowsApart
  <2> QED BY <2>3, <2>4, TransactionInvParts
<1>3. SnapshotsOfCases /\ RevisionsAreGapless
  BY DEF DecisionsInit, SnapshotsOfCases, RevisionsAreGapless, Exists
<1>4. StatusIsTheReviews /\ ReviewsAreIndependent
  BY DEF DecisionsInit, StatusIsTheReviews, ReviewsAreIndependent
<1> QED BY <1>1, <1>2, <1>3, <1>4 DEF DecisionsInv

LEMMA DecisionsInvariant == DecisionsSpec => []DecisionsInv
<1>1. DecisionsInv /\ [DecisionsNext]_decisionVars => DecisionsInv'
  BY SnapshotStep, ReviewStep DEF DecisionsInv, SnapshotInv, ReviewInv
<1> QED BY <1>1, DecisionsInitInv, PTL DEF DecisionsSpec

\* Rows and open transactions are of their types.
THEOREM DecisionTypesCorrect == DecisionsSpec => []DecisionsTypeOK
<1>1. DecisionsInv => DecisionsTypeOK
  BY DEF DecisionsInv
<1> QED BY <1>1, DecisionsInvariant, PTL

\* However many threads file snapshots of a case, they are numbered 1, 2, ...
\* up to the revision the record of the case shows.
THEOREM SnapshotsNumbered == DecisionsSpec => []RevisionsAreGapless
<1>1. DecisionsInv => RevisionsAreGapless
  BY DEF DecisionsInv
<1> QED BY <1>1, DecisionsInvariant, PTL

\* The status of a decision is the strictest of all its reviews: no concurrent
\* review is lost.
THEOREM NoReviewLost == DecisionsSpec => []StatusIsTheReviews
<1>1. DecisionsInv => StatusIsTheReviews
  BY DEF DecisionsInv
<1> QED BY <1>1, DecisionsInvariant, PTL

\* Nobody reviews a decision twice, or one of their own.
THEOREM ReviewersIndependent == DecisionsSpec => []ReviewsAreIndependent
<1>1. DecisionsInv => ReviewsAreIndependent
  BY DEF DecisionsInv
<1> QED BY <1>1, DecisionsInvariant, PTL
-----------------------------------------------------------------------------
(* The refinement of SerialDecisions.                                      *)

\* The record of a case counts its snapshots.
LEMMA RevisionCounts ==
  ASSUME DecisionsInv, NEW c \in Cases, Exists(c)
  PROVE  Serial!Filed(c) = caseRecords[c].revision
<1> DEFINE of == {n \in DOMAIN snapshots : snapshots[n].case = c}
           last == caseRecords[c].revision
           number == [n \in of |-> snapshots[n].revision]
<1>1. last \in Nat
  <2>1. caseRecords[c] \in CaseRecord
    BY DEF DecisionsInv, DecisionsTypeOK, Exists
  <2> QED BY <2>1 DEF CaseRecord
<1>2. /\ {snapshots[n].revision : n \in of} = 1..last
      /\ \A n, m \in of : snapshots[n].revision = snapshots[m].revision => n = m
  BY DEF DecisionsInv, RevisionsAreGapless
<1>3. IsFiniteSet(of)
  <2>1. of \subseteq 1..Len(snapshots) /\ Len(snapshots) \in Nat
    BY DEF DecisionsInv, DecisionsTypeOK
  <2> QED BY <2>1, FS_Interval, FS_Subset
<1>4. number \in Surjection(of, 1..last)
  <2>1. \A m \in 1..last : \E n \in of : number[n] = m
    BY <1>2
  <2>2. number \in [of -> 1..last]
    BY <1>2
  <2> QED BY <2>1, <2>2 DEF Surjection
<1>5. number \in Injection(of, 1..last)
  <2>1. \A n, m \in of : number[n] = number[m] => n = m
    BY <1>2
  <2> QED BY <1>4, <2>1 DEF Surjection, Injection, IsInjective
<1>6. Cardinality(of) = Cardinality(1..last)
  BY <1>3, <1>4, <1>5, FS_Surjection
<1>7. Cardinality(1..last) = last
  BY <1>1, FS_Interval
<1>8. Serial!Cardinality(of) = Cardinality(of)
  BY DEF Serial!Cardinality, Cardinality
<1> QED BY <1>6, <1>7, <1>8 DEF Serial!Filed

\* The first of rejected, conditional and approved that occurs is the strictest.
LEMMA AggregateIsTheStrictest ==
  ASSUME NEW statuses \in SUBSET ApprovalStatuses, statuses # {}
  PROVE  Serial!Strictest(statuses) = Aggregate(statuses)
<1> DEFINE rank == Serial!Strictness
           top(s) == \A other \in statuses : rank[other] <= rank[s]
<1>1. rank["approved"] = 1 /\ rank["conditional"] = 2 /\ rank["rejected"] = 3
  BY DEF Serial!Strictness
<1>2. Aggregate(statuses) \in statuses
  BY DEF Aggregate, ApprovalStatuses
<1>3. top(Aggregate(statuses))
  BY <1>1 DEF Aggregate, ApprovalStatuses
<1>4. ASSUME NEW s \in statuses, top(s) PROVE s = Aggregate(statuses)
  <2>1. rank[Aggregate(statuses)] = rank[s]
    <3>1. rank[Aggregate(statuses)] <= rank[s] /\ rank[s] <= rank[Aggregate(statuses)]
      BY <1>2, <1>3, <1>4
    <3>2. \A status \in ApprovalStatuses : rank[status] \in Int
      <4> HIDE DEF rank
      <4> QED BY <1>1 DEF ApprovalStatuses
    <3>3. rank[s] \in Int /\ rank[Aggregate(statuses)] \in Int
      BY <1>2, <3>2
    <3> HIDE DEF rank
    <3> QED BY <3>1, <3>3
  <2>2. s \in ApprovalStatuses /\ Aggregate(statuses) \in ApprovalStatuses
    BY <1>2
  <2> HIDE DEF rank
  <2> QED BY <1>1, <2>1, <2>2 DEF ApprovalStatuses
<1> HIDE DEF rank, top
<1>5. (CHOOSE s \in statuses : top(s)) = Aggregate(statuses)
  BY <1>2, <1>3, <1>4
<1> QED BY <1>5 DEF Serial!Strictest, rank, top

\* A snapshot takes the number it would take if it were filed at its commit.
LEMMA SnapshotFiled ==
  ASSUME DecisionsInv, NEW t \in Threads, NEW evidence \in SUBSET EvidenceRefs,
         CommitSnapshot(t, evidence)
  PROVE  Serial!Next
<1> PICK row \in Cases : row = transaction[t].row
  BY OpenType DEF CommitSnapshot, DecisionsInv
<1>1. Exists(row) /\ transaction[t].revision = caseRecords[row].revision + 1
  BY DEF CommitSnapshot, DecisionsInv, TransactionInv
<1>2. transaction[t].revision = Serial!Filed(row) + 1
  BY <1>1, RevisionCounts
<1>3. Serial!File(row, evidence)
  BY <1>1, <1>2 DEF CommitSnapshot, Serial!File, Exists, Revised
<1> QED BY <1>3 DEF Serial!Next

\* A decision is taken in one step in either view.
LEMMA DecisionTaken ==
  ASSUME DecisionsInv, NEW c \in Cases, NEW actor \in Subjects, NEW snapshot \in DOMAIN snapshots,
         NEW evidence \in SUBSET EvidenceRefs, NEW supersedes \in {0} \cup DOMAIN decisions,
         CreateDecision(c, snapshot, evidence, supersedes, actor)
  PROVE  Serial!Next
<1>1. snapshots[snapshot].case = c
  BY DEF CreateDecision
<1>2. actor \in Reviewers \cup {caseRecords[c].owner}
  BY DEF CreateDecision, MayAccess
<1>3. Serial!Decide(snapshot, evidence, supersedes, actor)
  BY <1>1, <1>2 DEF CreateDecision, Serial!Decide
<1> QED BY <1>3 DEF Serial!Next

\* A review counts with all reviews committed before it, and is by somebody new.
LEMMA ReviewVoted ==
  ASSUME DecisionsInv, NEW t \in Threads, NEW status \in ApprovalStatuses,
         CommitApproval(t, status)
  PROVE  Serial!Next
<1> DEFINE row == transaction[t].row
           actor == transaction[t].actor
<1>1. /\ row \in DOMAIN decisions /\ actor \in Reviewers
      /\ actor # decisions[row].author
      /\ \A review \in ReviewsOf(row) : review.actor # actor
      /\ transaction[t].statuses = {review.status : review \in ReviewsOf(row)}
  BY OpenType DEF CommitApproval, DecisionsInv, TransactionInv
<1>2. \A n \in Serial!VotesOn(row) : approvals[n].actor # actor
  BY <1>1 DEF Serial!VotesOn, ReviewsOf
<1>3. {approvals[n].status : n \in Serial!VotesOn(row)} = transaction[t].statuses
  BY <1>1 DEF Serial!VotesOn, ReviewsOf
<1>4. Serial!Strictest({status} \cup transaction[t].statuses)
        = Aggregate(transaction[t].statuses \cup {status})
  <2>1. transaction[t].statuses \in SUBSET ApprovalStatuses
    BY OpenType DEF CommitApproval, DecisionsInv
  <2>2. {status} \cup transaction[t].statuses = transaction[t].statuses \cup {status}
    OBVIOUS
  <2> QED BY <2>1, <2>2, AggregateIsTheStrictest
<1>5. Serial!Vote(row, actor, status)
  BY <1>1, <1>2, <1>3, <1>4 DEF CommitApproval, Serial!Vote
<1>6. status \in DOMAIN Serial!Strictness
  BY DEF Serial!Strictness, ApprovalStatuses
<1> QED BY <1>1, <1>5, <1>6 DEF Serial!Next

serialVars == <<caseRecords, snapshots, decisions, approvals>>

\* The stores of case decisions behave as if each request was served alone, at
\* its commit: no overlap of requests yields a number, a vote or a status that
\* one after the other would not (SerialDecisions).
THEOREM DecisionsSerialized == DecisionsSpec => DecisionsAreSerial
<1>1. DecisionsInit => Serial!Init
  BY DEF DecisionsInit, Serial!Init
<1>2. DecisionsInv /\ [DecisionsNext]_decisionVars => [Serial!Next]_serialVars
  <2> SUFFICES ASSUME DecisionsInv, [DecisionsNext]_decisionVars
               PROVE  Serial!Next \/ UNCHANGED serialVars
    OBVIOUS
  <2>1. ASSUME NEW c \in Cases, NEW actor \in Subjects, CreateCase(c, actor)
        PROVE  Serial!Next
    <3>1. Serial!Open(c, actor)
      BY <2>1 DEF CreateCase, Exists, Serial!Open
    <3> QED BY <3>1 DEF Serial!Next
  <2>2. ASSUME NEW c \in Cases, NEW actor \in Subjects, NEW t \in Threads,
               BeginSnapshot(t, c, actor)
        PROVE  UNCHANGED serialVars
    BY <2>2 DEF BeginSnapshot, serialVars
  <2>3. ASSUME NEW t \in Threads, NEW d \in DOMAIN decisions, NEW actor \in Reviewers,
               BeginApproval(t, d, actor)
        PROVE  UNCHANGED serialVars
    BY <2>3 DEF BeginApproval, serialVars
  <2>4. ASSUME NEW t \in Threads, Rollback(t)
        PROVE  UNCHANGED serialVars
    BY <2>4 DEF Rollback, serialVars
  <2>5. CASE UNCHANGED decisionVars
    BY <2>5 DEF decisionVars, serialVars
  <2> QED BY <2>1, <2>2, <2>3, <2>4, <2>5, SnapshotFiled, DecisionTaken, ReviewVoted
          DEF DecisionsNext
<1> QED BY <1>1, <1>2, DecisionsInvariant, PTL
        DEF DecisionsSpec, DecisionsAreSerial, Serial!Spec, serialVars
=============================================================================
