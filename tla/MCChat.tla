-------------------------------- MODULE MCChat --------------------------------
(* What a chat turn rests on, for TLC, one at a time: the knowledge ledger, its *)
(* vector index, the memory of a case under a client that keeps at most one     *)
(* request open, and the turn itself.  Each behaviour is one of one part,       *)
(* chosen at the start; the others rest.                                        *)
EXTENDS CaseMemory, KnowledgeOutbox, TurnPipeline, TLC

CONSTANTS
  LedgerClaim,                            \* the ledger is examined with one claim,
  QueueContent, QueueContract, QueueRows, \* its index with one content and contract
  QueueExtra                              \* and with more rows for a torn import

VARIABLE part

indexVars == <<index, drainer, drainCrashes>>

\* How far the examination of the ledger and that of its index go.
LedgerBound == \A c \in Claims \ {LedgerClaim} : claims'[c] = Nothing
QueueBound ==
  /\ Len(queue') <= QueueRows
       + (IF \E c \in Claims : torn'[c] # "no" THEN QueueExtra ELSE 0)
  /\ \A c \in Claims : claims'[c] # Nothing =>
       claims'[c].document = QueueContent /\ claims'[c].contract = QueueContract

\* One request of each kind that the policy and the guards tell apart.
Kinds == {<<"knowledge", {}>>, <<"knowledge", {"fields"}>>, <<"knowledge", {"risk"}>>,
          <<"knowledge", {"untrusted"}>>, <<"smalltalk", {}>>, <<"ambiguous", {"risk"}>>,
          <<"ambiguous", {}>>, <<"comparison", {"unresolved"}>>, <<"technical", {"missing"}>>,
          <<"technical", {"risk"}>>, <<"technical", {"risk", "trap", "matrix", "conflicts"}>>,
          <<"technical", {"deep", "verdict", "computed"}>>,
          <<"technical", {"matrix", "verdict"}>>, <<"technical", {"decoded"}>>,
          <<"technical", {"override", "verdict"}>>}
Asked == {[tenant |-> n, question |-> q, route |-> kind[1], traits |-> kind[2]] :
            n \in Tenants, q \in Questions, kind \in Kinds}
OneFault == {{}} \cup {{fault} : fault \in TextFaults}

\* The requests of a case are alike.
AlikeRequests == Permutations(Turns) \cup Permutations(Controls)

ChatInit ==
  /\ part \in {"ledger", "queue", "case", "turns"}
  /\ DrainInit /\ Init /\ TurnInit
  /\ part = "turns" \/ deployment = [knowledge |-> TRUE, verifier |-> TRUE]

LedgerPart == part = "ledger" /\ LedgerNext /\ LedgerBound
  /\ UNCHANGED <<part, indexVars, vars, turnVars>>
QueuePart == part = "queue" /\ DrainNext /\ QueueBound
  /\ UNCHANGED <<part, vars, turnVars>>
CasePart == part = "case" /\ Next
  /\ UNCHANGED <<part, drainVars, turnVars>>
TurnsPart == part = "turns" /\ TurnNext
  /\ UNCHANGED <<part, drainVars, vars>>

ChatSpec ==
  ChatInit
  /\ [][LedgerPart \/ QueuePart \/ CasePart \/ TurnsPart]_<<part, drainVars, vars, turnVars>>
================================================================================
