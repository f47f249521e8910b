-------------------------- MODULE SerialDecisions ---------------------------
(***************************************************************************)
(* What the stores of case decisions promise their callers, as if one      *)
(* request was served after the other (db/case_decisions.py locks rows to  *)
(* that end): a snapshot takes the next number of its case, a reviewer     *)
(* has one vote per decision that is not their own, and a decision shows   *)
(* the strictest of its votes.                                             *)
(***************************************************************************)
EXTENDS Integers, FiniteSets, Sequences

CONSTANTS Cases, Subjects, Reviewers, EvidenceRefs, NoCase

VARIABLES
  cases,      \* [owner, revision] of every case that was created
  snapshots,  \* snapshots in the order of their filing
  decisions,  \* decisions in the order of their creation
  votes       \* [decision, status, actor] of every review, in their order

Init ==
  /\ cases = [c \in Cases |-> NoCase]
  /\ snapshots = <<>> /\ decisions = <<>> /\ votes = <<>>

Open(c, owner) ==
  /\ cases[c] = NoCase
  /\ cases' = [cases EXCEPT ![c] = [owner |-> owner, revision |-> 0]]
  /\ UNCHANGED <<snapshots, decisions, votes>>

\* The number of a snapshot tells how many its case had before it.
Filed(c) == Cardinality({n \in DOMAIN snapshots : snapshots[n].case = c})

File(c, evidence) ==
  /\ cases[c] # NoCase
  /\ snapshots' = Append(snapshots, [case |-> c, revision |-> Filed(c) + 1,
                                     evidence |-> evidence])
  /\ cases' = [cases EXCEPT ![c].revision = Filed(c) + 1]
  /\ UNCHANGED <<decisions, votes>>

\* A decision rests on evidence of one snapshot of its case.
Decide(n, evidence, supersedes, author) ==
  /\ evidence # {} /\ evidence \subseteq snapshots[n].evidence
  /\ author \in Reviewers \cup {cases[snapshots[n].case].owner}
  /\ supersedes # 0 => decisions[supersedes].case = snapshots[n].case
  /\ decisions' = Append(decisions,
       [case |-> snapshots[n].case, snapshot |-> n, evidence |-> evidence,
        supersedes |-> supersedes, author |-> author, status |-> "review_required"])
  /\ UNCHANGED <<cases, snapshots, votes>>

VotesOn(d) == {n \in DOMAIN votes : votes[n].decision = d}

Strictness == [approved |-> 1, conditional |-> 2, rejected |-> 3]

Strictest(statuses) ==
  CHOOSE s \in statuses : \A other \in statuses : Strictness[other] <= Strictness[s]

Vote(d, actor, status) ==
  /\ actor # decisions[d].author
  /\ \A n \in VotesOn(d) : votes[n].actor # actor
  /\ votes' = Append(votes, [decision |-> d, status |-> status, actor |-> actor])
  /\ decisions' = [decisions EXCEPT
       ![d].status = Strictest({status} \cup {votes[n].status : n \in VotesOn(d)})]
  /\ UNCHANGED <<cases, snapshots>>

Next ==
  \/ \E c \in Cases, owner \in Subjects : Open(c, owner)
  \/ \E c \in Cases, evidence \in SUBSET EvidenceRefs : File(c, evidence)
  \/ \E n \in DOMAIN snapshots, evidence \in SUBSET EvidenceRefs,
        supersedes \in {0} \cup DOMAIN decisions, author \in Subjects :
       Decide(n, evidence, supersedes, author)
  \/ \E d \in DOMAIN decisions, actor \in Reviewers, status \in DOMAIN Strictness :
       Vote(d, actor, status)

Spec == Init /\ [][Next]_<<cases, snapshots, decisions, votes>>
=============================================================================
