------------------------------- MODULE AIReview -------------------------------
(***************************************************************************)
(* Review of material evidence by agents: a creator submits claims, an     *)
(* independent challenger run reports findings, an adjudicator disposes of *)
(* every finding, and what passes is cross-reviewed until withdrawn.       *)
(*                                                                         *)
(* Code: db/material_evidence_ai_review.py (the repository),               *)
(* core/material_evidence_ai_review.py (eligibility and transitions),      *)
(* material_evidence_ai_review/audit.py (reports and adjudications),       *)
(* material_evidence_ai_review/runner.py (the receipt of a challenger run).*)
(* No row is locked: a transaction reads the lifecycle, decides, reads it  *)
(* again and inserts the next sequence number; other commits fall between, *)
(* and only the unique sequence number decides who was first.  A receipt   *)
(* lives in the memory of its process and is spent before the commit.      *)
(* A report stands for that of its claims with the worst verdict; stored   *)
(* content is immutable and taken to validate.                             *)
(***************************************************************************)
EXTENDS Integers, Sequences, FiniteSets

CONSTANTS
  Submissions,   \* review snapshots
  AgentRuns,     \* run ids of creators, challengers and adjudicators
  Creators,      \* the runs that submit
  AgentReports,  \* the challenger reports considered
  Jobs           \* processes using the repository

VARIABLES
  submission,     \* the stored snapshot: its creator run, and its eligibility
  agentLifecycle, \* the lifecycle events of a snapshot, by sequence number
  challenges,     \* rows of v2_material_evidence_ai_challenges
  adjudications,  \* rows of v2_material_evidence_ai_adjudications
  receipt,        \* _PENDING_RUN_RECEIPTS of each process
  work            \* the open transaction of each process

agentVars == <<submission, agentLifecycle, challenges, adjudications, receipt, work>>
-----------------------------------------------------------------------------
\* Severe findings have severity MEDIUM or above; minor and note are LOW, a
\* note only in the category non_factual_documentation.
FindingKinds == {"severe", "minor", "note"}
Verdicts == {"PASS", "CHANGES_REQUIRED", "QUARANTINE"}
Dispositions == {"corrected", "quarantined", "accepted"}
AgentStates == {"draft", "challenged", "cross_reviewed", "changes_required",
                "quarantined", "revoked"}
AgentEvents == AgentStates \ {"draft"}
Outcomes == {"cross_reviewed", "changes_required", "quarantined"}

\* ClaudeClaimAuditResultV1: a PASS carries LOW findings only, anything else
\* carries findings.
ValidReports ==
  {r \in [verdict : Verdicts, findings : SUBSET FindingKinds] :
     IF r.verdict = "PASS" THEN "severe" \notin r.findings ELSE r.findings # {}}

ASSUME ReportsAssumption == AgentReports \subseteq ValidReports
ASSUME CreatorsAssumption == Creators \subseteq AgentRuns

NotSubmitted == [stored |-> FALSE]
NoReceipt == [held |-> FALSE]
NoWork == [op |-> "none"]

Submission == [stored : {TRUE}, creator : AgentRuns, eligible : BOOLEAN]
Receipt == [held : {TRUE}, review : Submissions, run : AgentRuns, report : AgentReports]
Challenge == [review : Submissions, run : AgentRuns, report : AgentReports]
Adjudication == [review : Submissions, run : AgentRuns, outcome : Outcomes,
                 dispositions : UNION {[F -> Dispositions] : F \in SUBSET FindingKinds}]

AgentInit ==
  /\ submission = [s \in Submissions |-> NotSubmitted]
  /\ agentLifecycle = [s \in Submissions |-> <<>>]
  /\ challenges = {}
  /\ adjudications = {}
  /\ receipt = [j \in Jobs |-> NoReceipt]
  /\ work = [j \in Jobs |-> NoWork]
-----------------------------------------------------------------------------
\* The state _replay derives from the events.
AgentState(s) ==
  IF agentLifecycle[s] = <<>> THEN "draft" ELSE agentLifecycle[s][Len(agentLifecycle[s])]

\* Mutant: a later adjudication may pass what an earlier one sent back.
AgentAllowedCleared ==
  [draft |-> {"challenged", "changes_required", "quarantined", "revoked"},
   challenged |-> {"cross_reviewed", "changes_required", "quarantined", "revoked"},
   cross_reviewed |-> {"quarantined", "revoked"},
   changes_required |-> {"cross_reviewed", "quarantined", "revoked"},
   quarantined |-> {"revoked"},
   revoked |-> {}]

\* Mutant: a quarantine is not final.
AgentAllowedReopened ==
  [draft |-> {"challenged", "changes_required", "quarantined", "revoked"},
   challenged |-> {"cross_reviewed", "changes_required", "quarantined", "revoked"},
   cross_reviewed |-> {"quarantined", "revoked"},
   changes_required |-> {"quarantined", "revoked"},
   quarantined |-> {"cross_reviewed", "revoked"},
   revoked |-> {}]

\* transition_ai_review: the events a state allows.
AgentAllowed ==
  [draft |-> {"challenged", "changes_required", "quarantined", "revoked"},
   challenged |-> {"cross_reviewed", "changes_required", "quarantined", "revoked"},
   cross_reviewed |-> {"quarantined", "revoked"},
   changes_required |-> {"quarantined", "revoked"},
   quarantined |-> {"revoked"},
   revoked |-> {}]

\* Mutant: any LOW finding may be accepted.
AcceptableMinor(report, dispositions) ==
  \A f \in report.findings :
    /\ f = "severe" => dispositions[f] \in {"corrected", "quarantined"}
    /\ dispositions[f] = "accepted" => f # "severe"

\* create_adjudication: which dispositions are admitted, and their outcome.
Acceptable(report, dispositions) ==
  \A f \in report.findings :
    /\ f = "severe" => dispositions[f] \in {"corrected", "quarantined"}
    /\ dispositions[f] = "accepted" => f = "note"

OutcomeOf(report, dispositions) ==
  LET disposed(how) == \E f \in report.findings : dispositions[f] = how
  IN CASE disposed("quarantined") \/ report.verdict = "QUARANTINE" -> "quarantined"
       [] OTHER -> IF disposed("corrected") \/ report.verdict = "CHANGES_REQUIRED"
                   THEN "changes_required" ELSE "cross_reviewed"

\* changes_required needs a replacement artifact, and only corrections have one.
Replaced(report, dispositions) ==
  OutcomeOf(report, dispositions) = "changes_required" =>
    \E f \in report.findings : dispositions[f] = "corrected"
-----------------------------------------------------------------------------
StoreSubmission(s, creator, eligible) ==
  /\ submission[s] = NotSubmitted
  /\ submission' = [submission EXCEPT ![s] = [stored |-> TRUE, creator |-> creator,
                                              eligible |-> eligible]]
  /\ UNCHANGED <<agentLifecycle, challenges, adjudications, receipt, work>>

\* run_claude_challenge: the run writes no row, it leaves a receipt.
RunChallenger(j, s, run, report) ==
  /\ submission[s].stored /\ submission[s].eligible /\ run # submission[s].creator
  /\ receipt[j] = NoReceipt
  /\ receipt' = [receipt EXCEPT ![j] = [held |-> TRUE, review |-> s, run |-> run,
                                        report |-> report]]
  /\ UNCHANGED <<submission, agentLifecycle, challenges, adjudications, work>>

\* record_challenge up to the row: the receipt is gone, whatever comes after.
BeginChallenge(j) ==
  /\ work[j] = NoWork /\ receipt[j] # NoReceipt
  /\ AgentState(receipt[j].review) = "draft"
  /\ work' = [work EXCEPT ![j] =
       [op |-> "challenge", review |-> receipt[j].review, event |-> "challenged",
        phase |-> "decided", sequence |-> 0,
        row |-> [review |-> receipt[j].review, run |-> receipt[j].run,
                 report |-> receipt[j].report]]]
  /\ receipt' = [receipt EXCEPT ![j] = NoReceipt]
  /\ UNCHANGED <<submission, agentLifecycle, challenges, adjudications>>

\* record_adjudication up to the row, derived from the stored challenge.
BeginAdjudication(j, c, run, dispositions) ==
  /\ work[j] = NoWork
  /\ AgentState(c.review) = "challenged"
  /\ run \notin {submission[c.review].creator, c.run}
  /\ Acceptable(c.report, dispositions) /\ Replaced(c.report, dispositions)
  /\ work' = [work EXCEPT ![j] =
       [op |-> "adjudicate", review |-> c.review,
        event |-> OutcomeOf(c.report, dispositions), phase |-> "decided", sequence |-> 0,
        row |-> [review |-> c.review, run |-> run, dispositions |-> dispositions,
                 outcome |-> OutcomeOf(c.report, dispositions)]]]
  /\ UNCHANGED <<submission, agentLifecycle, challenges, adjudications, receipt>>

\* record_quarantine and record_revocation decide nothing before they append.
BeginWithdrawal(j, s, event) ==
  /\ work[j] = NoWork /\ submission[s].stored
  /\ work' = [work EXCEPT ![j] = [op |-> "withdraw", review |-> s, event |-> event,
                                  phase |-> "decided", sequence |-> 0]]
  /\ UNCHANGED <<submission, agentLifecycle, challenges, adjudications, receipt>>

\* _append_lifecycle: replay once more, transition, take the next number.
AppendEvent(j) ==
  /\ work[j] # NoWork /\ work[j].phase = "decided"
  /\ work[j].event \in AgentAllowed[AgentState(work[j].review)]
  /\ work' = [work EXCEPT ![j].phase = "appended",
                          ![j].sequence = Len(agentLifecycle[work[j].review]) + 1]
  /\ UNCHANGED <<submission, agentLifecycle, challenges, adjudications, receipt>>

\* Mutant: nothing keeps two transactions from taking the same number.
FirstWithSequenceAny(j) == work[j].sequence > 0

\* The unique constraint on (review, sequence number).
FirstWithSequence(j) == work[j].sequence = Len(agentLifecycle[work[j].review]) + 1

CommitWork(j) ==
  /\ work[j] # NoWork /\ work[j].phase = "appended" /\ FirstWithSequence(j)
  /\ agentLifecycle' = [agentLifecycle EXCEPT ![work[j].review] = Append(@, work[j].event)]
  /\ challenges' = IF work[j].op = "challenge" THEN challenges \cup {work[j].row} ELSE challenges
  /\ adjudications' = IF work[j].op = "adjudicate" THEN adjudications \cup {work[j].row}
                      ELSE adjudications
  /\ work' = [work EXCEPT ![j] = NoWork]
  /\ UNCHANGED <<submission, receipt>>

\* The transition or the number is refused, or the database fails.
AbortWork(j) ==
  /\ work[j] # NoWork
  /\ work' = [work EXCEPT ![j] = NoWork]
  /\ UNCHANGED <<submission, agentLifecycle, challenges, adjudications, receipt>>

RestartJob(j) ==
  /\ receipt' = [receipt EXCEPT ![j] = NoReceipt]
  /\ work' = [work EXCEPT ![j] = NoWork]
  /\ UNCHANGED <<submission, agentLifecycle, challenges, adjudications>>
-----------------------------------------------------------------------------
AgentNext ==
  \/ \E s \in Submissions, creator \in Creators, eligible \in BOOLEAN :
       StoreSubmission(s, creator, eligible)
  \/ \E j \in Jobs :
       \/ \E s \in Submissions, run \in AgentRuns, report \in AgentReports :
            RunChallenger(j, s, run, report)
       \/ BeginChallenge(j)
       \/ \E c \in challenges, run \in AgentRuns :
            \E dispositions \in [c.report.findings -> Dispositions] :
              BeginAdjudication(j, c, run, dispositions)
       \/ \E s \in Submissions, event \in {"quarantined", "revoked"} : BeginWithdrawal(j, s, event)
       \/ AppendEvent(j)
       \/ CommitWork(j)
       \/ AbortWork(j)
       \/ RestartJob(j)

AgentSpec == AgentInit /\ [][AgentNext]_agentVars
-----------------------------------------------------------------------------
Decided == [op : {"withdraw"}, review : Submissions, event : {"quarantined", "revoked"},
            phase : {"decided", "appended"}, sequence : Nat]
           \cup [op : {"challenge"}, review : Submissions, event : {"challenged"},
                 phase : {"decided", "appended"}, sequence : Nat, row : Challenge]
           \cup [op : {"adjudicate"}, review : Submissions, event : Outcomes,
                 phase : {"decided", "appended"}, sequence : Nat, row : Adjudication]

\* Rows, receipts and open transactions are of their types, and only what was
\* stored is reviewed.
AgentTypeOK ==
  /\ submission \in [Submissions -> Submission \cup {NotSubmitted}]
  /\ agentLifecycle \in [Submissions -> Seq(AgentEvents)]
  /\ challenges \subseteq Challenge
  /\ adjudications \subseteq Adjudication
  /\ receipt \in [Jobs -> Receipt \cup {NoReceipt}]
  /\ work \in [Jobs -> Decided \cup {NoWork}]
  /\ \A s \in Submissions : agentLifecycle[s] # <<>> => submission[s].stored

\* "a snapshot may be challenged exactly once": processes race from the draft
\* with receipts of their own, unlocked; there is never a second challenge, and
\* there is one exactly when the lifecycle says so.
ChallengedOnce ==
  \A s \in Submissions :
    /\ \A c, d \in challenges : c.review = s /\ d.review = s => c = d
    /\ Cardinality({n \in DOMAIN agentLifecycle[s] : agentLifecycle[s][n] = "challenged"})
         = Cardinality({c \in challenges : c.review = s})

\* Whatever was cross-reviewed, be it withdrawn since, was eligible, its
\* challenge passed, nothing but notes was accepted, and creator, challenger
\* and adjudicator were three runs.
CrossReviewIsClean ==
  \A s \in Submissions :
    (\E n \in DOMAIN agentLifecycle[s] : agentLifecycle[s][n] = "cross_reviewed") =>
      /\ submission[s].eligible
      /\ \E c \in challenges, a \in adjudications :
           /\ c.review = s /\ a.review = s /\ a.outcome = "cross_reviewed"
           /\ c.report.verdict = "PASS" /\ c.report.findings \subseteq {"note"}
           /\ Cardinality({submission[s].creator, c.run, a.run}) = 3

\* Two adjudications of one challenge can both be stored: the second decides
\* while the review is challenged and appends after the first committed.  Then
\* the last word is a quarantine: adjudications that disagree never leave a
\* review standing.
DisagreementQuarantines ==
  \A a, b \in adjudications :
    a.review = b.review /\ a # b => AgentState(a.review) \in {"quarantined", "revoked"}

\* Though nothing is locked and every decision rests on an earlier reading, each
\* commit is one the stored lifecycle allows at that moment: a challenge of a
\* draft, the first verdict on it or a later quarantine, a withdrawal.
Atomic == INSTANCE AtomicAIReview WITH state <- [s \in Submissions |-> AgentState(s)]

ReviewsAreAtomic == Atomic!Spec
=============================================================================
