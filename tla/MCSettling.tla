------------------------------ MODULE MCSettling ------------------------------
(* The three outboxes for TLC, one at a time: curated memory, the material     *)
(* shadow outbox, the knowledge outbox. Each is drained for ever, and every    *)
(* row must be settled in the end.                                             *)
EXTENDS CuratedMemory, ShadowOutbox, KnowledgeOutbox

VARIABLE part

SettlingInit == part \in {"memory", "shadow", "knowledge"} /\ MemoryInit /\ Init /\ DrainInit

MemoryPart == part = "memory" /\ (MemoryRequestStep \/ MemoryDrain \/ MemoryCrash)
  /\ UNCHANGED <<part, vars, drainVars>>
ShadowPart == part = "shadow" /\ Next /\ UNCHANGED <<part, memoryVars, drainVars>>
KnowledgePart == part = "knowledge" /\ DrainNext /\ UNCHANGED <<part, memoryVars, vars>>

settlingVars == <<part, memoryVars, vars, drainVars>>

\* The daemon drains the memory outbox, shadow workers and drainers of the
\* knowledge outbox work and time passes.
SettlingSpec ==
  /\ SettlingInit /\ [][MemoryPart \/ ShadowPart \/ KnowledgePart]_settlingVars
  /\ WF_memoryVars(part = "memory" /\ MemoryDrain)
  /\ \A w \in Workers : WF_vars(part = "shadow" /\ Work(w))
  /\ \A i \in 1..MaxJobs : WF_vars(part = "shadow" /\ i \in DOMAIN outbox /\ Ripen(i))
  /\ \A w \in Drainers : WF_drainVars(part = "knowledge" /\ DrainWork(w))
================================================================================
