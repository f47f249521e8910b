---------------------------- MODULE CaseDecisions ----------------------------
(***************************************************************************)
(* Case decision records: the snapshots of a case, the decisions taken on  *)
(* them and the reviews that make up a decision's status.                  *)
(*                                                                         *)
(* Code: db/case_decisions.py (PostgresCaseDecisionStore),                 *)
(* core/decision_records.py, api/routes/case_records.py (who may call).    *)
(* A snapshot and a review read rows under SELECT ... FOR UPDATE and write *)
(* in the commit: two steps of a server thread, with others in between.    *)
(* Decisions only read rows that never change, in one step.                *)
(***************************************************************************)
EXTENDS Integers, FiniteSets, Sequences

CONSTANTS
  Cases,         \* case ids
  Subjects,      \* authenticated users
  Reviewers,     \* those with the reviewer role
  EvidenceRefs,  \* references a snapshot may carry
  Threads,       \* requests served at the same time
  MaxSnapshots,  \* bound on the snapshots of all cases
  MaxDecisions   \* bound on the decisions of all cases

ASSUME CaseDecisionsAssumption ==
  Reviewers \subseteq Subjects /\ MaxSnapshots \in Nat /\ MaxDecisions \in Nat

VARIABLES
  caseRecords,  \* V2CaseRecord: [owner, revision], NoCase before it is created
  snapshots,    \* V2CaseSnapshot rows in the order of their commits
  decisions,    \* V2DecisionRecord rows
  approvals,    \* V2DecisionApproval rows in the order of their ids
  transaction   \* the open transaction of each thread, and what it has read

decisionVars == <<caseRecords, snapshots, decisions, approvals, transaction>>
-----------------------------------------------------------------------------
ApprovalStatuses == {"approved", "conditional", "rejected"}

CaseRecord == [owner : Subjects, revision : Nat]
NoCase == [revision |-> -1]
Exists(c) == caseRecords[c] # NoCase

Snapshot == [case : Cases, revision : Nat \ {0}, evidence : SUBSET EvidenceRefs]
Decision == [case : Cases, snapshot : Nat \ {0}, evidence : SUBSET EvidenceRefs,
             supersedes : Nat,  \* 0 for none
             author : Subjects, status : ApprovalStatuses \cup {"review_required"}]
Approval == [decision : Nat \ {0}, status : ApprovalStatuses, actor : Reviewers]

NoTransaction == [kind |-> "none"]

DecisionsInit ==
  /\ caseRecords = [c \in Cases |-> NoCase]
  /\ snapshots = <<>> /\ decisions = <<>> /\ approvals = <<>>
  /\ transaction = [t \in Threads |-> NoTransaction]

\* Mutant: the row is read without FOR UPDATE.
RowUnlocked(kind, row) == TRUE

\* Nobody else holds the row of the case or the decision FOR UPDATE.
RowFree(kind, row) ==
  \A t \in Threads : transaction[t].kind = kind => transaction[t].row # row

\* _require_case_access: others are told that there is no such case.
MayAccess(c, actor) == Exists(c) /\ (actor = caseRecords[c].owner \/ actor \in Reviewers)
-----------------------------------------------------------------------------
CreateCase(c, actor) ==
  /\ ~Exists(c)
  /\ caseRecords' = [caseRecords EXCEPT ![c] = [owner |-> actor, revision |-> 0]]
  /\ UNCHANGED <<snapshots, decisions, approvals, transaction>>

NextRevision(c) == caseRecords[c].revision + 1

BeginSnapshot(t, c, actor) ==
  /\ transaction[t] = NoTransaction /\ MayAccess(c, actor) /\ RowFree("snapshot", c)
  /\ transaction' = [transaction EXCEPT
       ![t] = [kind |-> "snapshot", row |-> c, revision |-> NextRevision(c)]]
  /\ UNCHANGED <<caseRecords, snapshots, decisions, approvals>>

\* uq_v2_case_snapshot_revision; a commit that breaks it is rolled back.
Unnumbered(c, revision) ==
  \A n \in DOMAIN snapshots : snapshots[n].case = c => snapshots[n].revision # revision

\* Mutant: the record of the case forgets the revision it has reached.
RevisedOnce(record, revision) == IF revision = 1 THEN [record EXCEPT !.revision = 1] ELSE record

Revised(record, revision) == [record EXCEPT !.revision = revision]

CommitSnapshot(t, evidence) ==
  LET tx == transaction[t]
  IN /\ tx.kind = "snapshot" /\ Len(snapshots) < MaxSnapshots
     /\ Unnumbered(tx.row, tx.revision)
     /\ snapshots' = Append(snapshots, [case |-> tx.row, revision |-> tx.revision,
                                        evidence |-> evidence])
     /\ caseRecords' = [caseRecords EXCEPT ![tx.row] = Revised(@, tx.revision)]
     /\ transaction' = [transaction EXCEPT ![t] = NoTransaction]
     /\ UNCHANGED <<decisions, approvals>>

\* Any snapshot of the case will do, not only the newest; the decision that is
\* superseded is left as it is.
CreateDecision(c, snapshot, evidence, supersedes, actor) ==
  /\ Len(decisions) < MaxDecisions /\ MayAccess(c, actor)
  /\ snapshots[snapshot].case = c
  /\ evidence # {} /\ evidence \subseteq snapshots[snapshot].evidence
  /\ supersedes # 0 => decisions[supersedes].case = c
  /\ decisions' = Append(decisions,
       [case |-> c, snapshot |-> snapshot, evidence |-> evidence, supersedes |-> supersedes,
        author |-> actor, status |-> "review_required"])
  /\ UNCHANGED <<caseRecords, snapshots, approvals, transaction>>

ReviewsOf(d) == {approvals[n] : n \in {m \in DOMAIN approvals : approvals[m].decision = d}}

\* Mutant: authors may review what they have decided.
IndependentOnce(d, actor) == \A review \in ReviewsOf(d) : review.actor # actor

\* A reviewer other than the author, who has not reviewed the decision yet.
Independent(d, actor) ==
  actor # decisions[d].author /\ \A review \in ReviewsOf(d) : review.actor # actor

BeginApproval(t, d, actor) ==
  /\ transaction[t] = NoTransaction /\ RowFree("approval", d) /\ Independent(d, actor)
  /\ transaction' = [transaction EXCEPT
       ![t] = [kind |-> "approval", row |-> d, actor |-> actor,
               statuses |-> {review.status : review \in ReviewsOf(d)}]]
  /\ UNCHANGED <<caseRecords, snapshots, decisions, approvals>>

\* _aggregate_review_status
Aggregate(statuses) ==
  IF "rejected" \in statuses THEN "rejected"
  ELSE IF "conditional" \in statuses THEN "conditional" ELSE "approved"

CommitApproval(t, status) ==
  LET tx == transaction[t]
  IN /\ tx.kind = "approval"
     /\ approvals' = Append(approvals, [decision |-> tx.row, status |-> status,
                                        actor |-> tx.actor])
     /\ decisions' = [decisions EXCEPT
          ![tx.row].status = Aggregate(tx.statuses \cup {status})]
     /\ transaction' = [transaction EXCEPT ![t] = NoTransaction]
     /\ UNCHANGED <<caseRecords, snapshots>>

\* The connection is lost or a check fails: the transaction is rolled back.
Rollback(t) ==
  /\ transaction[t] # NoTransaction
  /\ transaction' = [transaction EXCEPT ![t] = NoTransaction]
  /\ UNCHANGED <<caseRecords, snapshots, decisions, approvals>>

DecisionsNext ==
  \/ \E c \in Cases, actor \in Subjects :
       \/ CreateCase(c, actor)
       \/ \E t \in Threads : BeginSnapshot(t, c, actor)
       \/ \E snapshot \in DOMAIN snapshots, evidence \in SUBSET EvidenceRefs,
             supersedes \in {0} \cup DOMAIN decisions :
            CreateDecision(c, snapshot, evidence, supersedes, actor)
  \/ \E t \in Threads :
       \/ \E evidence \in SUBSET EvidenceRefs : CommitSnapshot(t, evidence)
       \/ \E d \in DOMAIN decisions, actor \in Reviewers : BeginApproval(t, d, actor)
       \/ \E status \in ApprovalStatuses : CommitApproval(t, status)
       \/ Rollback(t)

DecisionsSpec == DecisionsInit /\ [][DecisionsNext]_decisionVars
-----------------------------------------------------------------------------
OpenTransaction ==
  [kind : {"snapshot"}, row : Cases, revision : Nat \ {0}]
    \cup [kind : {"approval"}, row : Nat \ {0}, actor : Reviewers,
          statuses : SUBSET ApprovalStatuses]
    \cup {NoTransaction}

DecisionsTypeOK ==
  /\ caseRecords \in [Cases -> CaseRecord \cup {NoCase}]
  /\ snapshots \in Seq(Snapshot)
  /\ decisions \in Seq(Decision)
  /\ approvals \in Seq(Approval)
  /\ transaction \in [Threads -> OpenTransaction]

\* The snapshots of a case are numbered 1, 2, ... up to the revision its record
\* shows, without a gap and each number once, whoever files them concurrently.
RevisionsAreGapless ==
  \A c \in Cases : Exists(c) =>
    LET of == {n \in DOMAIN snapshots : snapshots[n].case = c}
    IN /\ {snapshots[n].revision : n \in of} = 1..caseRecords[c].revision
       /\ \A n, m \in of : snapshots[n].revision = snapshots[m].revision => n = m

\* A decision that was reviewed shows what all its reviews amount to: no
\* concurrent review is lost and a rejection is never outvoted.
StatusIsTheReviews ==
  \A d \in DOMAIN decisions :
    IF ReviewsOf(d) = {} THEN decisions[d].status = "review_required"
    ELSE \A status \in ApprovalStatuses :
           decisions[d].status = status <=>
             /\ \E review \in ReviewsOf(d) : review.status = status
             /\ \A review \in ReviewsOf(d) :
                  /\ review.status = "rejected" => status = "rejected"
                  /\ review.status = "conditional" => status # "approved"

\* "reviewer already recorded a decision review": two concurrent requests of a
\* reviewer do not count twice, and nobody reviews a decision of their own.
ReviewsAreIndependent ==
  \A n, m \in DOMAIN approvals :
    /\ approvals[n].decision \in DOMAIN decisions
    /\ approvals[n].actor # decisions[approvals[n].decision].author
    /\ approvals[n].decision = approvals[m].decision /\ approvals[n].actor = approvals[m].actor
         => n = m

\* Requests that overlap have the effect of the same requests served one after
\* the other, each at its commit: what the locks on the rows are for.
Serial == INSTANCE SerialDecisions WITH cases <- caseRecords, votes <- approvals

DecisionsAreSerial == Serial!Spec
=============================================================================
