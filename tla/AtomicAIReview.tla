--------------------------- MODULE AtomicAIReview ---------------------------
(***************************************************************************)
(* What the review by agents promises, as if every decision was taken on   *)
(* the lifecycle as it is when its event is stored                         *)
(* (db/material_evidence_ai_review.py reads first, locks nothing and       *)
(* relies on the sequence numbers): one challenge from the draft, verdicts *)
(* of an adjudicator on that challenge, and after a verdict nothing but    *)
(* quarantine and revocation.                                              *)
(***************************************************************************)
EXTENDS Naturals

CONSTANTS Submissions, AgentRuns, AgentReports, NotSubmitted

VARIABLES
  submission,     \* [stored, creator, eligible] of every stored snapshot
  state,          \* where the lifecycle of a snapshot stands
  challenges,     \* [review, run, report]
  adjudications   \* [review, run, outcome, dispositions]

Init ==
  /\ submission = [s \in Submissions |-> NotSubmitted]
  /\ state = [s \in Submissions |-> "draft"]
  /\ challenges = {} /\ adjudications = {}

Submit(s, creator, eligible) ==
  /\ submission[s] = NotSubmitted
  /\ submission' = [submission EXCEPT ![s] = [stored |-> TRUE, creator |-> creator,
                                              eligible |-> eligible]]
  /\ UNCHANGED <<state, challenges, adjudications>>

\* An independent run reports on an eligible draft that nobody has challenged.
ChallengeDraft(s, run, report) ==
  /\ submission[s] # NotSubmitted /\ submission[s].eligible /\ run # submission[s].creator
  /\ state[s] = "draft" /\ \A c \in challenges : c.review # s
  /\ state' = [state EXCEPT ![s] = "challenged"]
  /\ challenges' = challenges \cup {[review |-> s, run |-> run, report |-> report]}
  /\ UNCHANGED <<submission, adjudications>>

\* When an outcome is due: a review stands only on a PASS whose findings are
\* notes, all accepted; a severe finding is never accepted.
Due(report, d, outcome) ==
  /\ \A f \in report.findings : d[f] = "accepted" => f = "note"
  /\ \/ /\ outcome = "cross_reviewed"
        /\ report.verdict = "PASS"
        /\ \A f \in report.findings : d[f] = "accepted"
     \/ /\ outcome = "changes_required"
        /\ report.verdict # "QUARANTINE"
        /\ \A f \in report.findings : d[f] # "quarantined"
        /\ \E f \in report.findings : d[f] = "corrected"
     \/ /\ outcome = "quarantined"
        /\ report.verdict = "QUARANTINE" \/ \E f \in report.findings : d[f] = "quarantined"

\* The first verdict on a challenge decides; a later one can only quarantine.
Adjudicate(c, run, outcome) ==
  /\ \/ state[c.review] = "challenged"
     \/ state[c.review] \in {"cross_reviewed", "changes_required"} /\ outcome = "quarantined"
  /\ run # c.run /\ run # submission[c.review].creator
  /\ state' = [state EXCEPT ![c.review] = outcome]
  /\ \E d \in [c.report.findings -> {"corrected", "quarantined", "accepted"}] :
       /\ Due(c.report, d, outcome)
       /\ adjudications' = adjudications \cup
            {[review |-> c.review, run |-> run, outcome |-> outcome, dispositions |-> d]}
  /\ UNCHANGED <<submission, challenges>>

\* By hand, from every state but the last ones.
Withdraw(s, event) ==
  /\ submission[s] # NotSubmitted
  /\ state[s] \notin {event, "revoked"}
  /\ state' = [state EXCEPT ![s] = event]
  /\ UNCHANGED <<submission, challenges, adjudications>>

Next ==
  \/ \E s \in Submissions, creator \in AgentRuns, eligible \in BOOLEAN :
       Submit(s, creator, eligible)
  \/ \E s \in Submissions, run \in AgentRuns, report \in AgentReports :
       ChallengeDraft(s, run, report)
  \/ \E c \in challenges, run \in AgentRuns,
        outcome \in {"cross_reviewed", "changes_required", "quarantined"} :
       Adjudicate(c, run, outcome)
  \/ \E s \in Submissions, event \in {"quarantined", "revoked"} : Withdraw(s, event)

Spec == Init /\ [][Next]_<<submission, state, challenges, adjudications>>
=============================================================================
