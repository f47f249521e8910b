---------------------------- MODULE MCCaseMemory ----------------------------
(* CaseMemory for TLC. *)
EXTENDS CaseMemory

\* With many requests open, a restart is examined where it ends a wait for a
\* remember task; elsewhere it only makes open requests fail.
RestartWhileWaiting ==
  /\ \/ \E t \in Turns : turn[t].phase = "waiting"
     \/ \E c \in Controls : control[c].phase = "waiting"
  /\ Restart

ConcurrentNext ==
  \/ \E t \in Turns : TurnStep(t)
  \/ \E c \in Controls : ControlStep(c)
  \/ RestartWhileWaiting

\* FairSpec with this bound.
ConcurrentSpec == Init /\ [][ConcurrentNext]_vars /\ Fairness
=============================================================================
