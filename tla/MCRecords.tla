------------------------------- MODULE MCRecords -------------------------------
(* The stores of durable records for TLC, one at a time: each behaviour is one *)
(* of one part, chosen at the start; the others rest.                         *)
EXTENDS CaseDecisions, EvidenceReview, AIReview, BackupRetention, CuratedMemory, TLC

VARIABLE part

\* Challenges that pass with a note and with a finding that may not be accepted,
\* and one that fails though its only finding may be accepted.
Reports == {[verdict |-> "PASS", findings |-> {"note"}],
            [verdict |-> "PASS", findings |-> {"minor"}],
            [verdict |-> "CHANGES_REQUIRED", findings |-> {"note"}]}

\* The runs that do not submit are alike, and so are the processes.
AlikeAgents == Permutations(AgentRuns \ Creators) \cup Permutations(Jobs)

\* Retries and retrievals are examined with one outbox row less than the rest,
\* retrievals without crashes.
MemoryBound ==
  /\ memoryRetrieval'.open => Len(memoryOutbox') < MemoryMaxRows /\ memoryCrashes' = 0
  /\ Len(memoryOutbox') = MemoryMaxRows =>
       \A n \in DOMAIN memoryOutbox' : memoryOutbox'[n].attempts = 0

RecordsInit ==
  /\ part \in {"decisions", "evidence", "agents", "backups", "memory"}
  /\ DecisionsInit /\ ReviewInit /\ AgentInit /\ BackupInit /\ MemoryInit

DecisionsPart == part = "decisions" /\ DecisionsNext
  /\ UNCHANGED <<part, reviewVars, agentVars, backupVars, memoryVars>>
EvidencePart == part = "evidence" /\ ReviewNext
  /\ UNCHANGED <<part, decisionVars, agentVars, backupVars, memoryVars>>
AgentsPart == part = "agents" /\ AgentNext
  /\ UNCHANGED <<part, decisionVars, reviewVars, backupVars, memoryVars>>
BackupsPart == part = "backups" /\ BackupNext
  /\ UNCHANGED <<part, decisionVars, reviewVars, agentVars, memoryVars>>
MemoryPart == part = "memory" /\ MemoryNext /\ MemoryBound
  /\ UNCHANGED <<part, decisionVars, reviewVars, agentVars, backupVars>>

RecordsNext ==
  DecisionsPart \/ EvidencePart \/ AgentsPart \/ BackupsPart \/ MemoryPart

RecordsSpec ==
  RecordsInit
  /\ [][RecordsNext]_<<part, decisionVars, reviewVars, agentVars, backupVars,
                        memoryVars>>
================================================================================
