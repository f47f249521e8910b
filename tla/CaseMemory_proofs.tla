-------------------------- MODULE CaseMemory_proofs --------------------------
(***************************************************************************)
(* Proofs about CaseMemory, for any number of requests and fields.         *)
(***************************************************************************)
EXTENDS CaseMemory, FiniteSetTheorems, TLAPS

\* Stating nothing changes nothing.
LEMMA StatedNothing ==
  ASSUME NEW fs \in [Fields -> Values], NEW r
  PROVE  Stated(fs, r, {}) = fs
BY DEF Stated

\* Stating values of the right kind keeps the type of the facts.
LEMMA StatedType ==
  ASSUME NEW V, NEW fs \in [Fields -> V], NEW r \in V, NEW S
  PROVE  Stated(fs, r, S) \in [Fields -> V]
BY DEF Stated

\* Marking turns as overtaken touches nothing but the mark.
LEMMA OvertakenType ==
  ASSUME TypeOK, NEW w \in Writes, NEW S
  PROVE  Overtaken(w, S) \in [Turns -> Turn]
BY DEF Overtaken, TypeOK, Turn

\* An edit of some fields moves the revision, of none leaves it.
LEMMA EditCount ==
  ASSUME NEW S \in SUBSET Fields
  PROVE  /\ Cardinality(S) \in Nat
         /\ S # {} => Cardinality(S) > 0
         /\ S = {} => Cardinality(S) = 0
<1>1. IsFiniteSet(S)
  BY CaseMemoryAssumption, FS_Subset
<1>2. Cardinality(S) \in Nat
  BY <1>1, FS_CardinalityType
<1>3. Cardinality(S) = 0 <=> S = {}
  BY <1>1, FS_EmptySet
<1> QED BY <1>2, <1>3

\* One entry of the turn table may be replaced by another of its type.
LEMMA TurnEntry ==
  ASSUME TypeOK, NEW T \in [Turns -> Turn], NEW t \in Turns, NEW x \in Turn
  PROVE  [T EXCEPT ![t] = x] \in [Turns -> Turn]
OBVIOUS

\* An evaluation leaves a revision in the row.
LEMMA EvaluatedType ==
  ASSUME TypeOK, NEW fs, NEW rev \in Nat, NEW i \in Evaluated(fs, rev)
  PROVE  i \in Nat \cup {NoRow}
BY DEF Evaluated, TypeOK

\* What is promoted was stated by a turn.
LEMMA PromotedType ==
  ASSUME TypeOK, NEW t \in Turns, NEW S \in SUBSET Fields, NEW complete,
         NEW d \in Promoted(t, S, complete)
  PROVE  d \in [Fields -> Turns \cup {NoOne}]
<1>1. Stated(durable, t, S) \in [Fields -> Turns \cup {NoOne}]
  BY StatedType DEF TypeOK
<1> QED BY <1>1 DEF Promoted, TypeOK

\* The initial state has the right types.
LEMMA TypeInit == Init => TypeOK
BY CaseMemoryAssumption DEF Init, TypeOK, NoSession, NoFacts, NoRow, Values, Turn, Control,
   TurnPhases, ControlPhases, Writes

\* The steps of a turn keep the types.
LEMMA TypeTurn ==
  ASSUME TypeOK, NEW t \in Turns, TurnStep(t)
  PROVE  TypeOK'
<1> USE DEF Values
<1> t \in Values OBVIOUS
<1>1. CASE AwaitBeforeTurn(t)
  <2>1. turn[t] \in Turn /\ pending \in Turns \cup {NoOne}
    BY DEF TypeOK
  <2>2. [turn[t] EXCEPT !.phase = "waiting", !.awaits = pending] \in Turn
    BY <2>1 DEF Turn, TurnPhases
  <2> QED BY <1>1, <2>2 DEF AwaitBeforeTurn, TypeOK, store
<1>2. CASE AbortedTurn(t)
  <2>1. [turn[t] EXCEPT !.phase = "failed"] \in Turn
    BY DEF TypeOK, Turn, TurnPhases
  <2> QED BY <1>2, <2>1 DEF AbortedTurn, TypeOK, store
<1>3. CASE Recall(t)
  BY <1>3 DEF Recall, TypeOK, Turn, TurnPhases, store, RecalledRevision, Writes
<1>4. CASE AnswerFails(t)
  <2>1. [turn[t] EXCEPT !.phase = "failed"] \in Turn
    BY DEF TypeOK, Turn, TurnPhases
  <2> QED BY <1>4, <2>1 DEF AnswerFails, TypeOK, store
<1>5. CASE RejectTurn(t)
  <2>1. [turn[t] EXCEPT !.phase = "rejected"] \in Turn
    BY DEF TypeOK, Turn, TurnPhases
  <2> QED BY <1>5, <2>1 DEF RejectTurn, TypeOK, store
<1>6. ASSUME NEW S \in SUBSET Fields, NEW complete \in Completes, CommitTurn(t, S, complete)
      PROVE  TypeOK'
  <2>1. facts' \in [Fields -> Values] /\ durable' \in [Fields -> Turns \cup {NoOne}]
    BY <1>6, StatedType, PromotedType DEF CommitTurn, TypeOK
  <2>2. session' \in [exists : BOOLEAN, revision : Nat, turns : Nat] /\ messages' \in Seq(Turns)
    BY <1>6 DEF CommitTurn, TypeOK
  <2>3. turn' \in [Turns -> Turn]
    BY <1>6, <2>1, <2>2, OvertakenType DEF CommitTurn, TypeOK, Turn, TurnPhases, Writes
  <2>4. derived' \in [Fields -> Values] /\ interview' \in Nat \cup {NoRow}
    BY <1>6, <2>1, <2>2, EvaluatedType DEF CommitTurn, TypeOK
  <2> QED BY <1>6, <2>1, <2>2, <2>3, <2>4 DEF CommitTurn, TypeOK
<1>7. ASSUME NEW S \in SUBSET Fields, NEW complete \in Completes, RememberLands(t, S, complete)
      PROVE  TypeOK'
  <2>1. facts' \in [Fields -> Values] /\ durable' \in [Fields -> Turns \cup {NoOne}]
    BY <1>7, StatedType, PromotedType DEF RememberLands, TypeOK
  <2>2. session' \in [exists : BOOLEAN, revision : Nat, turns : Nat]
    <3>1. session' = [session EXCEPT !.exists = TRUE,
                                     !.revision = session.revision + (IF S # {} THEN 1 ELSE 0)]
      BY <1>7 DEF RememberLands
    <3>2. session.revision + (IF S # {} THEN 1 ELSE 0) \in Nat
      BY DEF TypeOK
    <3> QED BY <3>1, <3>2 DEF TypeOK
  <2>3. turn' \in [Turns -> Turn]
    <3>1. [turn[t] EXCEPT !.phase = "settled"] \in Turn
      BY DEF TypeOK, Turn, TurnPhases
    <3>2. Overtaken("turn", S # {}) \in [Turns -> Turn]
      BY OvertakenType DEF Writes
    <3> QED BY <1>7, <3>1, <3>2, TurnEntry DEF RememberLands
  <2>4. derived' \in [Fields -> Values] /\ interview' \in Nat \cup {NoRow}
    BY <1>7, <2>1, <2>2, EvaluatedType DEF RememberLands, TypeOK
  <2> QED BY <1>7, <2>1, <2>2, <2>3, <2>4 DEF RememberLands, TypeOK, Deregistered
<1>8. CASE RememberLost(t)
  <2>1. [turn[t] EXCEPT !.phase = "settled"] \in Turn
    BY DEF TypeOK, Turn, TurnPhases
  <2> QED BY <1>8, <2>1 DEF RememberLost, TypeOK, store, Deregistered
<1>9. CASE Disconnect(t)
  <2>1. \A u \in Turns : turn[u] \in Turn /\ [turn[u] EXCEPT !.phase = "cancelled"] \in Turn
    BY DEF TypeOK, Turn, TurnPhases
  <2>2. turn' \in [Turns -> Turn]
    BY <1>9, <2>1 DEF Disconnect
  <2>3. pending' \in Turns \cup {NoOne}
    BY <1>9 DEF Disconnect, TypeOK
  <2> QED BY <1>9, <2>2, <2>3 DEF Disconnect, TypeOK, store
<1> QED BY <1>1, <1>2, <1>3, <1>4, <1>5, <1>6, <1>7, <1>8, <1>9 DEF TurnStep

\* The steps of a control request keep the types.
LEMMA TypeControl ==
  ASSUME TypeOK, NEW c \in Controls, ControlStep(c)
  PROVE  TypeOK'
<1> USE DEF Values
<1> c \in Values /\ NoOne \in Values OBVIOUS
<1>1. CASE AwaitBeforeControl(c)
  BY <1>1 DEF AwaitBeforeControl, TypeOK, Control, ControlPhases, store
<1>2. CASE AbortedControl(c)
  BY <1>2 DEF AbortedControl, TypeOK, Control, ControlPhases, store
<1>3. ASSUME NEW S \in SUBSET Fields, NEW complete \in Completes, EditFacts(c, S, complete)
      PROVE  TypeOK'
  <2>1. facts' \in [Fields -> Values] /\ session' \in [exists : BOOLEAN, revision : Nat, turns : Nat]
    <3>1. facts' \in [Fields -> Values]
      BY <1>3, StatedType DEF EditFacts, TypeOK
    <3>2. session.revision + Cardinality(S) \in Nat
      BY EditCount DEF TypeOK
    <3> QED BY <1>3, <3>1, <3>2 DEF EditFacts, TypeOK
  <2>2. turn' \in [Turns -> Turn]
    BY <1>3, OvertakenType DEF EditFacts, Writes
  <2>3. /\ derived' \in [Fields -> Values] /\ interview' \in Nat \cup {NoRow}
        /\ control' \in [Controls -> Control]
    <3>1. interview' \in Nat \cup {NoRow}
      BY <1>3, <2>1, EvaluatedType DEF EditFacts, TypeOK
    <3>2. control' \in [Controls -> Control]
      BY <1>3 DEF EditFacts, TypeOK, Finished, Control, ControlPhases
    <3> QED BY <1>3, <2>1, <3>1, <3>2 DEF EditFacts, TypeOK
  <2> QED BY <1>3, <2>1, <2>2, <2>3 DEF EditFacts, TypeOK
<1>4. ASSUME NEW f \in Fields, NEW complete \in Completes, ForgetFact(c, f, complete)
      PROVE  TypeOK'
  <2>1. facts' \in [Fields -> Values] /\ session' \in [exists : BOOLEAN, revision : Nat, turns : Nat]
    <3>1. facts' \in [Fields -> Values]
      BY <1>4, StatedType DEF ForgetFact, TypeOK
    <3>2. session' = [session EXCEPT !.revision =
                        session.revision + (IF facts[f] # NoOne THEN 1 ELSE 0)]
      BY <1>4 DEF ForgetFact
    <3> QED BY <3>1, <3>2 DEF TypeOK
  <2>2. turn' \in [Turns -> Turn]
    BY <1>4, OvertakenType DEF ForgetFact, Writes
  <2>3. /\ derived' \in [Fields -> Values] /\ interview' \in Nat \cup {NoRow}
        /\ control' \in [Controls -> Control]
    <3>1. interview' \in Nat \cup {NoRow}
      BY <1>4, <2>1, EvaluatedType DEF ForgetFact, TypeOK
    <3>2. control' \in [Controls -> Control]
      <4>1. Finished(c, "forgotten") \/ Finished(c, "failed")
        BY <1>4 DEF ForgetFact
      <4> QED BY <4>1 DEF TypeOK, Finished, Control, ControlPhases
    <3> QED BY <1>4, <2>1, <3>1, <3>2 DEF ForgetFact, TypeOK
  <2> QED BY <1>4, <2>1, <2>2, <2>3 DEF ForgetFact, TypeOK
<1>5. ASSUME NEW complete \in Completes, ForgetAll(c, complete)
      PROVE  TypeOK'
  <2>1. turn' \in [Turns -> Turn]
    BY <1>5, OvertakenType DEF ForgetAll, Writes
  <2> QED BY <1>5, <2>1 DEF ForgetAll, TypeOK, NoSession, NoFacts, InterviewCleared,
             Finished, Control, ControlPhases
<1>6. CASE Compute(c)
  BY <1>6 DEF Compute, TypeOK, Finished, Control, ControlPhases
<1>7. CASE RefreshInterview(c)
  BY <1>7 DEF RefreshInterview, TypeOK, Evaluated, RecalledRevision, Finished, Control, ControlPhases
<1> QED BY <1>1, <1>2, <1>3, <1>4, <1>5, <1>6, <1>7 DEF ControlStep

\* Every step keeps the types.
LEMMA TypeStep == TypeOK /\ [Next]_vars => TypeOK'
<1> SUFFICES ASSUME TypeOK, [Next]_vars PROVE TypeOK'
  OBVIOUS
<1>1. CASE \E t \in Turns : TurnStep(t)
  BY <1>1, TypeTurn
<1>2. CASE \E c \in Controls : ControlStep(c)
  BY <1>2, TypeControl
<1>3. CASE Restart
  <2>1. \A t \in Turns : turn[t] \in Turn /\ [turn[t] EXCEPT !.phase = "failed"] \in Turn
    BY DEF TypeOK, Turn, TurnPhases
  <2>2. \A c \in Controls : /\ control[c] \in Control
                           /\ [control[c] EXCEPT !.phase = "failed"] \in Control
    BY DEF TypeOK, Control, ControlPhases
  <2>3. restarts' \in 0..MaxRestarts
    BY <1>3, CaseMemoryAssumption DEF Restart, TypeOK
  <2> QED BY <1>3, <2>1, <2>2, <2>3 DEF Restart, TypeOK, store
<1>4. CASE UNCHANGED vars
  BY <1>4 DEF vars, store, TypeOK
<1> QED BY <1>1, <1>2, <1>3, <1>4 DEF Next

\* Every variable of the case memory has its type in every reachable state:
\* revisions stay natural numbers and every fact is stated by a request.
THEOREM CaseMemoryTypes == Spec => []TypeOK
<1> QED BY TypeInit, TypeStep, PTL DEF Spec
-----------------------------------------------------------------------------
(* The optimistic revision check.  The induction needs to know that a turn *)
(* whose revision is still the current one has not been overtaken, and     *)
(* that a case without a row has nothing a clear could take away.          *)

CheckInv == TypeOK /\ SnapshotSound /\ NoOrphans

\* A write that moves the revision, or a clear, leaves every snapshot sound:
\* it marks each turn it overtakes.
LEMMA SoundOvertaken ==
  ASSUME CheckInv, NEW u \in Turns, NEW w \in Writes, NEW moved \in BOOLEAN,
         turn'[u] = Overtaken(w, moved)[u], session'.revision \in Nat,
         moved => w = "clear" \/ session'.revision > session.revision,
         ~moved => session'.revision = session.revision /\ facts' = facts
  PROVE  Sound(u)'
<1>1. turn[u] \in Turn /\ session.revision \in Nat /\ Sound(u)
  BY DEF CheckInv, TypeOK, SnapshotSound
<1>2. CASE Outstanding(u) /\ moved
  <2>1. turn'[u] = [turn[u] EXCEPT !.overtaken = @ \cup {w}]
    BY <1>2 DEF Overtaken
  <2>2. /\ turn'[u].overtaken = turn[u].overtaken \cup {w}
        /\ turn'[u].revision = turn[u].revision /\ turn[u].revision \in Nat
    BY <1>1, <2>1 DEF Turn
  <2>3. CASE "clear" \in turn'[u].overtaken
    BY <2>3 DEF Sound
  <2>4. CASE "clear" \notin turn'[u].overtaken
    <3>1. turn[u].revision <= session.revision
      BY <1>1, <1>2, <2>2, <2>4 DEF Sound
    <3>2. session'.revision > session.revision
      BY <1>2, <2>2, <2>4
    <3>3. turn'[u].revision < session'.revision /\ turn'[u].overtaken # {}
      BY <1>1, <2>2, <3>1, <3>2
    <3> QED BY <1>1, <2>2, <3>3 DEF Sound, Current
  <2> QED BY <2>3, <2>4
<1>3. CASE ~(Outstanding(u) /\ moved)
  <2>1. turn'[u] = turn[u]
    BY <1>3 DEF Overtaken
  <2> QED BY <1>1, <1>3, <2>1 DEF Sound, Current, Outstanding
<1> QED BY <1>2, <1>3

\* A step that leaves the case alone and a turn alone, or takes its snapshot
\* out of use, leaves the snapshot sound.
LEMMA SoundKept ==
  ASSUME CheckInv, NEW u \in Turns, session' = session, facts' = facts,
         turn'[u] = turn[u] \/ turn'[u].phase \notin {"answering", "distilling"}
  PROVE  Sound(u)'
BY DEF CheckInv, SnapshotSound, Sound, Outstanding, Current

\* Every step of a chat turn keeps the check sound.
LEMMA CheckTurn ==
  ASSUME CheckInv, NEW t \in Turns, TurnStep(t)
  PROVE  SnapshotSound' /\ NoOrphans'
<1>0. TypeOK /\ TypeOK'
  BY TypeTurn DEF CheckInv
<1>1. CASE /\ UNCHANGED <<session, facts>>
           /\ \A u \in Turns : \/ turn'[u] = turn[u]
                                \/ turn'[u].phase \notin {"answering", "distilling"}
  BY <1>1, SoundKept DEF CheckInv, SnapshotSound, NoOrphans
<1>2. CASE AwaitBeforeTurn(t) \/ AbortedTurn(t) \/ AnswerFails(t) \/ RejectTurn(t) \/ RememberLost(t)
  <2>1. PICK p \in {"waiting", "failed", "rejected", "settled"} :
          \/ turn' = [turn EXCEPT ![t] = [turn[t] EXCEPT !.phase = p]]
          \/ turn' = [turn EXCEPT ![t] = [turn[t] EXCEPT !.phase = p, !.awaits = pending]]
    BY <1>2 DEF AwaitBeforeTurn, AbortedTurn, AnswerFails, RejectTurn, RememberLost
  <2>2. turn[t] \in Turn /\ turn \in [Turns -> Turn]
    BY <1>0 DEF TypeOK
  <2>3. turn'[t].phase = p /\ \A u \in Turns \ {t} : turn'[u] = turn[u]
    BY <2>1, <2>2 DEF Turn
  <2>4. UNCHANGED <<session, facts>>
    BY <1>2 DEF AwaitBeforeTurn, AbortedTurn, AnswerFails, RejectTurn, RememberLost, store
  <2> QED BY <1>1, <2>3, <2>4
<1>3. CASE Disconnect(t)
  <2>1. \A u \in Turns : turn'[u] = turn[u] \/ turn'[u] = [turn[u] EXCEPT !.phase = "cancelled"]
    BY <1>3 DEF Disconnect
  <2>2. \A u \in Turns : [turn[u] EXCEPT !.phase = "cancelled"].phase = "cancelled"
    BY <1>0 DEF TypeOK, Turn
  <2> QED BY <1>1, <1>3, <2>1, <2>2 DEF Disconnect, store
<1>4. CASE Recall(t)
  <2>1. UNCHANGED <<session, facts>>
    BY <1>4 DEF Recall, store
  <2>2. turn'[t] = [phase |-> "answering", revision |-> RecalledRevision,
                    awaits |-> NoOne, seen |-> facts, overtaken |-> {}]
    BY <1>0, <1>4 DEF Recall, TypeOK
  <2>3. RecalledRevision <= session.revision
    BY <1>0 DEF RecalledRevision, TypeOK
  <2>4. Sound(t)'
    BY <2>1, <2>2, <2>3 DEF Sound
  <2>5. \A u \in Turns \ {t} : turn'[u] = turn[u]
    BY <1>0, <1>4 DEF Recall, TypeOK
  <2> QED BY <2>1, <2>4, <2>5, SoundKept DEF CheckInv, SnapshotSound, NoOrphans
<1>5. ASSUME NEW S \in SUBSET Fields, NEW complete \in Completes, CommitTurn(t, S, complete)
      PROVE  SnapshotSound' /\ NoOrphans'
  <2>1. session'.exists /\ session'.revision = session.revision + (IF S # {} THEN 1 ELSE 0)
    BY <1>5 DEF CommitTurn
  <2>2. facts' = Stated(facts, t, S) /\ (S = {} => facts' = facts)
    BY <1>0, <1>5, StatedNothing DEF CommitTurn, TypeOK
  <2>3. Overtaken("turn", S # {}) \in [Turns -> Turn]
    BY <1>0, OvertakenType DEF Writes
  <2>4. /\ turn'[t].overtaken = {} /\ turn'[t].seen = facts'
        /\ turn'[t].revision = session'.revision
    BY <1>5, <2>2, <2>3 DEF CommitTurn
  <2>5. Sound(t)'
    BY <1>0, <2>4 DEF Sound, TypeOK
  <2>6. ASSUME NEW u \in Turns \ {t}
        PROVE  Sound(u)'
    <3>1. turn'[u] = Overtaken("turn", S # {})[u]
      BY <1>5, <2>3 DEF CommitTurn
    <3>2. session.revision \in Nat /\ session'.revision \in Nat /\ "turn" \in Writes
      BY <1>0 DEF TypeOK, Writes
    <3>3. S # {} => session'.revision > session.revision
      BY <2>1, <3>2
    <3>4. ~(S # {}) => session'.revision = session.revision /\ facts' = facts
      BY <2>1, <2>2, <3>2
    <3> QED BY <3>1, <3>2, <3>3, <3>4, SoundOvertaken
  <2> QED BY <2>1, <2>5, <2>6 DEF SnapshotSound, NoOrphans
<1>6. ASSUME NEW S \in SUBSET Fields, NEW complete \in Completes, RememberLands(t, S, complete)
      PROVE  SnapshotSound' /\ NoOrphans'
  <2>1. session'.exists /\ session'.revision = session.revision + (IF S # {} THEN 1 ELSE 0)
    <3>1. session' = [session EXCEPT !.exists = TRUE,
                                     !.revision = session.revision + (IF S # {} THEN 1 ELSE 0)]
      BY <1>6 DEF RememberLands
    <3> QED BY <1>0, <3>1 DEF TypeOK
  <2>2. S = {} => facts' = facts
    BY <1>0, <1>6, StatedNothing DEF RememberLands, TypeOK
  <2>3. Overtaken("turn", S # {}) \in [Turns -> Turn]
    BY <1>0, OvertakenType DEF Writes
  <2>4. turn'[t].phase = "settled"
    <3>1. turn'[t] = [turn[t] EXCEPT !.phase = "settled"]
      BY <1>6, <2>3 DEF RememberLands
    <3> QED BY <1>0, <3>1 DEF TypeOK, Turn
  <2>5. ASSUME NEW u \in Turns \ {t}
        PROVE  Sound(u)'
    <3>1. turn'[u] = Overtaken("turn", S # {})[u]
      BY <1>6, <2>3 DEF RememberLands
    <3>2. session.revision \in Nat /\ session'.revision \in Nat /\ "turn" \in Writes
      BY <1>0 DEF TypeOK, Writes
    <3>3. S # {} => session'.revision > session.revision
      BY <2>1, <3>2
    <3>4. ~(S # {}) => session'.revision = session.revision /\ facts' = facts
      BY <2>1, <2>2, <3>2
    <3> QED BY <3>1, <3>2, <3>3, <3>4, SoundOvertaken
  <2> QED BY <2>1, <2>4, <2>5 DEF SnapshotSound, Sound, Outstanding, NoOrphans
<1> QED BY <1>2, <1>3, <1>4, <1>5, <1>6 DEF TurnStep

\* A mutation of the memory surface keeps every snapshot sound, given what it
\* does to the revision and the facts.
LEMMA CheckMutation ==
  ASSUME CheckInv, TypeOK', NEW w \in Writes, NEW moved \in BOOLEAN,
         turn' = Overtaken(w, moved),
         moved => w = "clear" \/ session'.revision > session.revision,
         ~moved => session'.revision = session.revision /\ facts' = facts
  PROVE  SnapshotSound'
<1>1. session'.revision \in Nat
  BY DEF TypeOK
<1>2. ASSUME NEW u \in Turns PROVE Sound(u)'
  <2>1. turn'[u] = Overtaken(w, moved)[u]
    OBVIOUS
  <2> QED BY <1>1, <2>1, SoundOvertaken
<1> QED BY <1>2 DEF SnapshotSound

\* Every step of the memory surface keeps the check sound.
LEMMA CheckControl ==
  ASSUME CheckInv, NEW c \in Controls, ControlStep(c)
  PROVE  SnapshotSound' /\ NoOrphans'
<1>0. TypeOK /\ TypeOK' /\ session.revision \in Nat /\ session'.revision \in Nat
  <2>1. TypeOK /\ TypeOK'
    BY TypeControl DEF CheckInv
  <2> QED BY <2>1 DEF TypeOK
<1>1. CASE AwaitBeforeControl(c) \/ AbortedControl(c) \/ Compute(c) \/ RefreshInterview(c)
  <2>1. UNCHANGED <<session, facts, turn>>
    BY <1>1 DEF AwaitBeforeControl, AbortedControl, Compute, RefreshInterview, store
  <2> QED BY <2>1, SoundKept DEF CheckInv, SnapshotSound, NoOrphans
<1>2. ASSUME NEW S \in SUBSET Fields, NEW complete \in Completes, EditFacts(c, S, complete)
      PROVE  SnapshotSound' /\ NoOrphans'
  <2>1. /\ turn' = Overtaken("edit", S # {})
        /\ session'.revision = session.revision + Cardinality(S)
        /\ session'.exists = (session.exists \/ S # {})
    BY <1>2 DEF EditFacts
  <2>2. S = {} => facts' = facts
    BY <1>0, <1>2, StatedNothing DEF EditFacts, TypeOK
  <2>3. S # {} => session'.revision > session.revision
    BY <1>0, <2>1, EditCount
  <2>4. ~(S # {}) => session'.revision = session.revision /\ facts' = facts
    BY <1>0, <2>1, <2>2, EditCount
  <2>5. SnapshotSound'
    BY <1>0, <2>1, <2>3, <2>4, CheckMutation DEF Writes
  <2> QED BY <2>1, <2>4, <2>5 DEF CheckInv, NoOrphans
<1>3. ASSUME NEW f \in Fields, NEW complete \in Completes, ForgetFact(c, f, complete)
      PROVE  SnapshotSound' /\ NoOrphans'
  <2> DEFINE known == facts[f] # NoOne
  <2>1. /\ turn' = Overtaken("edit", known)
        /\ session' = [session EXCEPT !.revision = session.revision + (IF known THEN 1 ELSE 0)]
    BY <1>3 DEF ForgetFact
  <2>2. /\ session'.revision = session.revision + (IF known THEN 1 ELSE 0)
        /\ session'.exists = session.exists
    BY <1>0, <2>1 DEF TypeOK
  <2>3. ~known => facts' = facts
    BY <1>0, <1>3 DEF ForgetFact, Stated, TypeOK
  <2>4. SnapshotSound'
    <3>1. "edit" \in Writes /\ known \in BOOLEAN
      BY DEF Writes
    <3>2. known => session'.revision > session.revision
      BY <1>0, <2>2
    <3>3. ~known => session'.revision = session.revision /\ facts' = facts
      BY <1>0, <2>2, <2>3
    <3> HIDE DEF known
    <3> QED BY <1>0, <2>1, <3>1, <3>2, <3>3, CheckMutation
  <2>5. ~session.exists => ~known
    BY DEF CheckInv, NoOrphans, NoFacts
  <2> QED BY <1>0, <2>2, <2>3, <2>4, <2>5 DEF CheckInv, NoOrphans
<1>4. ASSUME NEW complete \in Completes, ForgetAll(c, complete)
      PROVE  SnapshotSound' /\ NoOrphans'
  <2>1. /\ turn' = Overtaken("clear", session.exists)
        /\ session' = NoSession /\ facts' = NoFacts
    BY <1>4 DEF ForgetAll
  <2>2. session.exists \in BOOLEAN
    BY <1>0 DEF TypeOK
  <2>3. ~session.exists => session'.revision = session.revision /\ facts' = facts
    BY <2>1 DEF CheckInv, NoOrphans, NoSession
  <2>4. SnapshotSound'
    <3>1. "clear" \in Writes
      BY DEF Writes
    <3> QED BY <1>0, <2>1, <2>2, <2>3, <3>1, CheckMutation
  <2> QED BY <2>1, <2>4 DEF NoOrphans, NoSession
<1> QED BY <1>1, <1>2, <1>3, <1>4 DEF ControlStep

\* The invariant behind the revision check holds at first.
LEMMA CheckInit == Init => CheckInv
<1>1. Init => TypeOK
  BY TypeInit
<1>2. Init => SnapshotSound /\ NoOrphans
  BY DEF Init, SnapshotSound, Sound, Outstanding, NoOrphans, NoSession
<1> QED BY <1>1, <1>2 DEF CheckInv

\* Every step keeps it.
LEMMA CheckStep == CheckInv /\ [Next]_vars => CheckInv'
<1> SUFFICES ASSUME CheckInv, [Next]_vars PROVE CheckInv'
  OBVIOUS
<1>0. TypeOK /\ TypeOK'
  BY TypeStep DEF CheckInv
<1>1. CASE \E t \in Turns : TurnStep(t)
  BY <1>0, <1>1, CheckTurn DEF CheckInv
<1>2. CASE \E c \in Controls : ControlStep(c)
  BY <1>0, <1>2, CheckControl DEF CheckInv
<1>3. CASE Restart
  <2>1. \A u \in Turns : turn'[u] = turn[u] \/ turn'[u] = [turn[u] EXCEPT !.phase = "failed"]
    BY <1>3 DEF Restart
  <2>2. \A u \in Turns : [turn[u] EXCEPT !.phase = "failed"].phase = "failed"
    BY <1>0 DEF TypeOK, Turn
  <2>3. UNCHANGED <<session, facts>>
    BY <1>3 DEF Restart, store
  <2> QED BY <1>0, <2>1, <2>2, <2>3, SoundKept DEF CheckInv, SnapshotSound, NoOrphans
<1>4. CASE UNCHANGED vars
  <2>1. UNCHANGED <<session, facts, turn>>
    BY <1>4 DEF vars, store
  <2> QED BY <1>0, <2>1, SoundKept DEF CheckInv, SnapshotSound, NoOrphans
<1> QED BY <1>1, <1>2, <1>3, <1>4 DEF Next

\* Only the commit of a turn and the merge of its remember task write as t.
LEMMA WhoCommits ==
  ASSUME CheckInv, [Next]_vars, NEW t \in Turns, Commits(t)
  PROVE  Outstanding(t) /\ Current(t)
<1>0. TypeOK
  BY DEF CheckInv
<1>1. messages \in Seq(Turns) /\ facts \in [Fields -> Values]
  BY <1>0 DEF TypeOK
<1>2. messages # Append(messages, t) /\ <<>> # Append(messages, t)
  BY <1>1
<1>3. ASSUME NEW r, r # t, NEW S, facts' = Stated(facts, r, S)
      PROVE  messages' = Append(messages, t)
  BY <1>3 DEF Commits, Stated
<1>4. t # NoOne /\ t \notin Controls
  BY CaseMemoryAssumption
<1>5. ASSUME UNCHANGED <<messages, facts>> PROVE FALSE
  BY <1>2, <1>5 DEF Commits
<1>6. ASSUME NEW u \in Turns, TurnStep(u) PROVE Outstanding(t) /\ Current(t)
  <2>1. \/ UNCHANGED <<messages, facts>>
        \/ \E S \in SUBSET Fields, complete \in Completes :
             CommitTurn(u, S, complete) \/ RememberLands(u, S, complete)
    BY <1>6 DEF TurnStep, AwaitBeforeTurn, AbortedTurn, Recall, AnswerFails, RejectTurn,
                RememberLost, Disconnect, store
  <2>2. ASSUME NEW S \in SUBSET Fields, NEW complete \in Completes,
               CommitTurn(u, S, complete) \/ RememberLands(u, S, complete)
        PROVE  Outstanding(t) /\ Current(t)
    <3>1. Outstanding(u) /\ Current(u) /\ facts' = Stated(facts, u, S)
      BY <2>2 DEF CommitTurn, RememberLands, Outstanding
    <3>2. messages' = Append(messages, u) \/ messages' = messages
      BY <2>2 DEF CommitTurn, RememberLands
    <3>3. u = t
      <4>1. SUFFICES ASSUME u # t PROVE FALSE
        OBVIOUS
      <4>2. messages' = Append(messages, t)
        BY <1>3, <3>1, <4>1
      <4>3. Append(messages, u) # Append(messages, t)
        BY <1>1, <4>1
      <4> QED BY <1>2, <3>2, <4>2, <4>3
    <3> QED BY <3>1, <3>3
  <2> QED BY <1>5, <2>1, <2>2
<1>7. ASSUME NEW c \in Controls, ControlStep(c) PROVE FALSE
  <2>1. \/ UNCHANGED <<messages, facts>>
        \/ messages' = <<>> /\ facts' = NoFacts
        \/ messages' = messages /\ \E S : facts' = Stated(facts, c, S)
        \/ messages' = messages /\ \E S : facts' = Stated(facts, NoOne, S)
    BY <1>7 DEF ControlStep, AwaitBeforeControl, AbortedControl, EditFacts, ForgetFact,
                ForgetAll, Compute, RefreshInterview, store
  <2>2. CASE messages' = <<>> /\ facts' = NoFacts
    BY <1>2, <1>4, <2>2 DEF Commits, NoFacts
  <2> QED BY <1>2, <1>3, <1>4, <1>5, <2>1, <2>2
<1>8. CASE Restart \/ UNCHANGED vars
  BY <1>5, <1>8 DEF Restart, vars, store
<1> QED BY <1>6, <1>7, <1>8 DEF Next

\* The revision check of record_turn and merge_facts works for any number of
\* turns, edits and restarts of one case, as long as nobody clears it: what a
\* turn writes was computed from the very facts it is written onto.
THEOREM StaleWritesAreRejected == Spec => StaleOutputRejected
<1>1. CheckInv /\ [Next]_vars =>
        [\A t \in Turns : Commits(t) /\ "clear" \notin turn[t].overtaken
                            => facts = turn[t].seen]_vars
  <2>1. SUFFICES ASSUME CheckInv, [Next]_vars, NEW t \in Turns, Commits(t),
                        "clear" \notin turn[t].overtaken
                 PROVE  facts = turn[t].seen
    OBVIOUS
  <2>2. Outstanding(t) /\ Current(t)
    BY <2>1, WhoCommits
  <2> QED BY <2>1, <2>2 DEF CheckInv, SnapshotSound, Sound
<1> QED BY <1>1, CheckInit, CheckStep, PTL DEF Spec, StaleOutputRejected
-----------------------------------------------------------------------------
(* The interview row.                                                      *)

\* An evaluation at a revision the case has kept leaves the row behind it.
LEMMA EvaluatedBehind ==
  ASSUME TypeOK, InterviewNotAhead, NEW fs, NEW rev \in Nat, NEW i \in Evaluated(fs, rev),
         NEW now \in Nat, rev <= now, session.revision <= now
  PROVE  i <= now
BY DEF Evaluated, InterviewNotAhead, TypeOK, NoRow

\* Every step keeps the interview no further than its case, when storage does
\* not fail.
LEMMA InterviewStep ==
  ASSUME Faults = FALSE, TypeOK, InterviewNotAhead, [Next]_vars
  PROVE  InterviewNotAhead'
<1>0. TypeOK' /\ Completes = {TRUE}
  BY TypeStep DEF Completes
<1>1. session.revision \in Nat /\ session'.revision \in Nat
  BY <1>0 DEF TypeOK
<1>2. CASE UNCHANGED <<session, interview>>
  BY <1>2 DEF InterviewNotAhead
<1>3. ASSUME session.revision <= session'.revision,
             \/ interview' = interview
             \/ \E fs : interview' \in Evaluated(fs, session'.revision)
      PROVE  InterviewNotAhead'
  <2>1. interview <= session'.revision
    BY <1>1, <1>3 DEF InterviewNotAhead, TypeOK, NoRow
  <2> QED BY <1>1, <1>3, <2>1, EvaluatedBehind DEF InterviewNotAhead
<1>4. ASSUME NEW t \in Turns, TurnStep(t) PROVE InterviewNotAhead'
  <2>1. ASSUME NEW S \in SUBSET Fields, NEW complete \in Completes,
               CommitTurn(t, S, complete) \/ RememberLands(t, S, complete)
        PROVE  InterviewNotAhead'
    <3>1. session.revision <= session'.revision
      <4>1. CASE CommitTurn(t, S, complete)
        BY <1>1, <4>1 DEF CommitTurn
      <4>2. CASE RememberLands(t, S, complete)
        <5>1. session' = [session EXCEPT !.exists = TRUE,
                                         !.revision = session.revision + (IF S # {} THEN 1 ELSE 0)]
          BY <4>2 DEF RememberLands
        <5> QED BY <1>1, <5>1 DEF TypeOK
      <4> QED BY <2>1, <4>1, <4>2
    <3>2. \/ interview' = interview
          \/ \E fs : interview' \in Evaluated(fs, session'.revision)
      BY <2>1 DEF CommitTurn, RememberLands
    <3> QED BY <1>3, <3>1, <3>2
  <2> QED BY <1>2, <1>4, <2>1 DEF TurnStep, AwaitBeforeTurn, AbortedTurn, Recall,
                AnswerFails, RejectTurn, RememberLost, Disconnect, store
<1>5. ASSUME NEW c \in Controls, ControlStep(c) PROVE InterviewNotAhead'
  <2>1. CASE AwaitBeforeControl(c) \/ AbortedControl(c) \/ Compute(c)
    BY <1>2, <2>1 DEF AwaitBeforeControl, AbortedControl, Compute, store
  <2>2. CASE RefreshInterview(c)
    <3>1. session' = session /\ interview' \in Evaluated(facts, RecalledRevision)
      BY <2>2 DEF RefreshInterview
    <3>2. RecalledRevision \in Nat /\ RecalledRevision <= session.revision
      BY <1>1 DEF RecalledRevision
    <3> QED BY <1>1, <3>1, <3>2, EvaluatedBehind DEF InterviewNotAhead
  <2>3. ASSUME NEW S \in SUBSET Fields, NEW complete \in Completes, EditFacts(c, S, complete)
        PROVE  InterviewNotAhead'
    <3>1. session.revision <= session'.revision
      BY <1>1, <2>3, EditCount DEF EditFacts
    <3>2. \/ interview' = interview
          \/ \E fs : interview' \in Evaluated(fs, session'.revision)
      BY <2>3 DEF EditFacts
    <3> QED BY <1>3, <3>1, <3>2
  <2>4. ASSUME NEW f \in Fields, NEW complete \in Completes, ForgetFact(c, f, complete)
        PROVE  InterviewNotAhead'
    <3>1. session' = [session EXCEPT !.revision =
                        session.revision + (IF facts[f] # NoOne THEN 1 ELSE 0)]
      BY <2>4 DEF ForgetFact
    <3>2. session.revision <= session'.revision
      BY <1>1, <3>1 DEF TypeOK
    <3>3. \/ interview' = interview
          \/ \E fs : interview' \in Evaluated(fs, session'.revision)
      BY <2>4 DEF ForgetFact
    <3> QED BY <1>3, <3>2, <3>3
  <2>5. ASSUME NEW complete \in Completes, ForgetAll(c, complete) PROVE InterviewNotAhead'
    BY <1>0, <2>5 DEF ForgetAll, InterviewCleared, InterviewNotAhead, NoSession, NoRow
  <2> QED BY <1>5, <2>1, <2>2, <2>3, <2>4, <2>5 DEF ControlStep
<1>6. CASE Restart \/ UNCHANGED vars
  BY <1>2, <1>6 DEF Restart, vars, store
<1> QED BY <1>4, <1>5, <1>6 DEF Next

\* As long as the best-effort interview clear of "alles vergessen" succeeds,
\* the interview row is never ahead of the case, so the adaptive interview
\* never answers StaleInterviewState for the current case.
THEOREM InterviewFollowsCase ==
  ASSUME Faults = FALSE
  PROVE  Spec => []InterviewNotAhead
<1>1. Init => TypeOK /\ InterviewNotAhead
  BY TypeInit DEF Init, InterviewNotAhead, NoSession, NoRow
<1>2. (TypeOK /\ InterviewNotAhead) /\ [Next]_vars => (TypeOK /\ InterviewNotAhead)'
  BY TypeStep, InterviewStep
<1> QED BY <1>1, <1>2, PTL DEF Spec
-----------------------------------------------------------------------------
(* Promotion to cross-session memory.                                      *)

\* What is promoted is either nothing, or just what is merged.
LEMMA PromotedIsStated ==
  ASSUME TypeOK, NEW t \in Turns, NEW S \in SUBSET Fields, NEW complete,
         NEW d \in Promoted(t, S, complete), NEW f \in Fields, d[f] # durable[f]
  PROVE  d[f] = Stated(facts, t, S)[f]
BY DEF Promoted, Stated, TypeOK

\* Whatever fails and whoever interferes, a fact enters the cross-session
\* memory only in the step that merges it into the case: an extraction that is
\* discarded on a conflict leaves no trace there.
THEOREM MergedBeforePromoted == Spec => PromotionFollowsMerge
<1>1. TypeOK /\ [Next]_vars =>
        [\A f \in Fields : durable'[f] # durable[f] => facts'[f] = durable'[f]]_vars
  <2>1. SUFFICES ASSUME TypeOK, [Next]_vars, NEW f \in Fields, durable'[f] # durable[f]
                 PROVE  facts'[f] = durable'[f]
    OBVIOUS
  <2>2. ASSUME NEW t \in Turns, NEW S \in SUBSET Fields, NEW complete \in Completes,
               CommitTurn(t, S, complete) \/ RememberLands(t, S, complete)
        PROVE  facts'[f] = durable'[f]
    <3>1. facts' = Stated(facts, t, S) /\ durable' \in Promoted(t, S, complete)
      BY <2>2 DEF CommitTurn, RememberLands
    <3> QED BY <2>1, <3>1, PromotedIsStated
  <2>3. ASSUME durable' = durable PROVE FALSE
    BY <2>1, <2>3
  <2>4. CASE \E t \in Turns : TurnStep(t)
    BY <2>2, <2>3, <2>4 DEF TurnStep, AwaitBeforeTurn, AbortedTurn, Recall, AnswerFails,
                            RejectTurn, RememberLost, Disconnect, store
  <2>5. CASE \E c \in Controls : ControlStep(c)
    BY <2>3, <2>5 DEF ControlStep, AwaitBeforeControl, AbortedControl, EditFacts, ForgetFact,
                      ForgetAll, Compute, RefreshInterview, store
  <2>6. CASE Restart \/ UNCHANGED vars
    BY <2>3, <2>6 DEF Restart, vars, store
  <2> QED BY <2>1, <2>4, <2>5, <2>6 DEF Next
<1> QED BY <1>1, TypeInit, TypeStep, PTL DEF Spec, PromotionFollowsMerge
-----------------------------------------------------------------------------
(* Forgetting.  With a client that has at most one open request for the    *)
(* case, awaiting the ONE registered task is awaiting all of them: a turn  *)
(* that distils is registered (or awaited by its own run), whoever waits   *)
(* waits for it, and nobody answers meanwhile.                             *)

Distilling(t) == turn[t].phase = "distilling"

AtMostOneOpen ==
  /\ \A t, u \in Turns : Open(t) /\ Open(u) => t = u
  /\ \A c \in Controls : control[c].phase = "waiting" =>
       /\ \A t \in Turns : ~Open(t)
       /\ \A d \in Controls : control[d].phase = "waiting" => c = d

TaskRegistered == \A u \in Turns : Distilling(u) => Inline \/ pending = u

TaskAwaited ==
  \A u \in Turns : Distilling(u) =>
    /\ \A t \in Turns : /\ turn[t].phase # "answering"
                        /\ turn[t].phase = "waiting" => turn[t].awaits = u
    /\ \A c \in Controls : control[c].phase = "waiting" => control[c].awaits = u

FlushCovers == AtMostOneOpen /\ TaskRegistered /\ TaskAwaited

InTranscript(u) == \E i \in 1..Len(messages) : messages[i] = u

\* Who has stated a fact or may still state one is in the transcript.
StatedInTranscript ==
  \A u \in Turns : Distilling(u) \/ (\E f \in Fields : facts[f] = u) => InTranscript(u)

ForgetInv == TypeOK /\ FlushCovers /\ StatedInTranscript

\* Marking turns as overtaken leaves them where they are.
LEMMA OvertakenPhase ==
  ASSUME TypeOK, NEW w, NEW moved, NEW u \in Turns
  PROVE  /\ Overtaken(w, moved)[u].phase = turn[u].phase
         /\ Overtaken(w, moved)[u].awaits = turn[u].awaits
BY DEF Overtaken, TypeOK, Turn

\* A step in which requests at most end, and only a task that has ended leaves
\* the registry, keeps everybody covered.
LEMMA EndingKeepsCover ==
  ASSUME FlushCovers,
         \A u \in Turns :
           \/ turn'[u].phase \notin {"waiting", "answering", "distilling"}
           \/ turn'[u].phase = turn[u].phase /\ turn'[u].awaits = turn[u].awaits,
         \A c \in Controls : control'[c].phase # "waiting" \/ control'[c] = control[c],
         \A u \in Turns : turn'[u].phase = "distilling" /\ pending = u => pending' = u
  PROVE  FlushCovers'
<1>1. \A u \in Turns : Open(u)' => Open(u)
  BY DEF Open
<1>2. AtMostOneOpen'
  BY <1>1 DEF FlushCovers, AtMostOneOpen
<1>3. TaskRegistered'
  BY DEF FlushCovers, TaskRegistered, Distilling
<1>4. TaskAwaited'
  BY DEF FlushCovers, TaskAwaited, Distilling
<1> QED BY <1>2, <1>3, <1>4 DEF FlushCovers

\* With one request at a time, whoever is through flush_memory finds no task
\* of an earlier turn at work.
LEMMA FlushedMeansQuiet ==
  ASSUME OneRequest = TRUE, FlushCovers, NEW u \in Turns,
         \/ pending = NoOne /\ ClientFree
         \/ \E t \in Turns : turn[t].phase = "waiting" /\ turn[turn[t].awaits].phase # "distilling"
         \/ \E c \in Controls : /\ control[c].phase = "waiting"
                                /\ turn[control[c].awaits].phase # "distilling"
  PROVE  ~Distilling(u)
<1>1. u # NoOne
  BY CaseMemoryAssumption
<1>2. CASE pending = NoOne /\ ClientFree
  BY <1>1, <1>2 DEF ClientFree, FlushCovers, TaskRegistered, Distilling, Open
<1> QED BY <1>2 DEF FlushCovers, TaskAwaited, Distilling

\* A turn that is let in (it begins to wait, or to answer) is the only open
\* request, and finds only the task it waits for at work.
LEMMA EnteringKeepsCover ==
  ASSUME FlushCovers, NEW t \in Turns,
         \A u \in Turns \ {t} : ~Open(u),
         \A c \in Controls : control[c].phase # "waiting",
         \A u \in Turns \ {t} : turn'[u] = turn[u],
         control' = control, pending' = pending,
         \/ turn'[t].phase = "waiting" /\ turn'[t].awaits = pending /\ ~Inline
         \/ turn'[t].phase = "waiting" /\ \A u \in Turns : ~Distilling(u)
         \/ turn'[t].phase = "answering" /\ \A u \in Turns : ~Distilling(u)
  PROVE  FlushCovers'
<1>1. \A u \in Turns \ {t} : ~Open(u)'
  BY DEF Open
<1>2. AtMostOneOpen'
  BY <1>1 DEF AtMostOneOpen
<1>3. TaskRegistered'
  BY DEF FlushCovers, TaskRegistered, Distilling
<1>4. TaskAwaited'
  BY <1>1 DEF FlushCovers, TaskAwaited, TaskRegistered, Distilling, Open
<1> QED BY <1>2, <1>3, <1>4 DEF FlushCovers

\* Each step of a turn keeps everybody covered.
LEMMA CoverTurn ==
  ASSUME OneRequest = TRUE, TypeOK, FlushCovers, NEW t \in Turns, TurnStep(t)
  PROVE  FlushCovers'
<1>0. turn[t] \in Turn /\ turn \in [Turns -> Turn]
  BY DEF TypeOK
<1>1. CASE AbortedTurn(t) \/ AnswerFails(t) \/ RejectTurn(t) \/ RememberLost(t)
  <2>1. PICK p \in {"failed", "rejected", "settled"} :
          turn' = [turn EXCEPT ![t] = [turn[t] EXCEPT !.phase = p]]
    BY <1>1 DEF AbortedTurn, AnswerFails, RejectTurn, RememberLost
  <2>2. turn'[t].phase = p /\ \A u \in Turns \ {t} : turn'[u] = turn[u]
    BY <1>0, <2>1 DEF Turn
  <2>3. control' = control /\ pending' \in {pending, Deregistered(t)}
    BY <1>1 DEF AbortedTurn, AnswerFails, RejectTurn, RememberLost
  <2> QED BY <2>2, <2>3, EndingKeepsCover DEF Deregistered
<1>2. CASE Disconnect(t)
  <2>1. PICK hit \in SUBSET Turns :
          /\ turn' = [u \in Turns |-> IF u \in hit THEN [turn[u] EXCEPT !.phase = "cancelled"]
                                      ELSE turn[u]]
          /\ pending' = IF pending \in hit THEN NoOne ELSE pending
    <3> DEFINE hit == IF turn[t].phase = "waiting" /\ turn[turn[t].awaits].phase = "distilling"
                      THEN {t, turn[t].awaits} \cap Turns ELSE {t}
    <3>1. turn[t].awaits \in Turns \cup {NoOne}
      BY <1>0 DEF Turn
    <3>2. turn' = [u \in Turns |-> IF u \in hit THEN [turn[u] EXCEPT !.phase = "cancelled"]
                                   ELSE turn[u]]
      BY <1>2 DEF Disconnect
    <3>3. pending' = IF pending \in hit THEN NoOne ELSE pending
      BY <1>2, <3>1 DEF Disconnect, TypeOK
    <3> QED BY <3>2, <3>3
  <2>2. \A u \in hit : turn'[u].phase = "cancelled"
    BY <1>0, <2>1 DEF Turn
  <2>3. \A u \in Turns \ hit : turn'[u] = turn[u]
    BY <2>1
  <2>4. control' = control
    BY <1>2 DEF Disconnect
  <2>5. \A u \in Turns : turn'[u].phase = "distilling" /\ pending = u => pending' = u
    BY <2>1, <2>2
  <2> QED BY <2>2, <2>3, <2>4, <2>5, EndingKeepsCover
<1>3. CASE AwaitBeforeTurn(t)
  <2>1. /\ \A u \in Turns : ~Open(u)
        /\ \A c \in Controls : control[c].phase # "waiting"
    BY <1>3 DEF AwaitBeforeTurn, ClientFree
  <2>2. turn' = [turn EXCEPT ![t] = [turn[t] EXCEPT !.phase = "waiting", !.awaits = pending]]
    BY <1>3 DEF AwaitBeforeTurn
  <2>3. turn'[t].phase = "waiting" /\ turn'[t].awaits = pending
    BY <1>0, <2>2 DEF Turn
  <2>4. Inline => \A u \in Turns : ~Distilling(u)
    BY <2>1 DEF Open, Distilling
  <2>5. \A u \in Turns \ {t} : turn'[u] = turn[u]
    BY <1>0, <2>2
  <2>6. control' = control /\ pending' = pending
    BY <1>3 DEF AwaitBeforeTurn
  <2> QED BY <2>1, <2>3, <2>4, <2>5, <2>6, EnteringKeepsCover
<1>4. CASE Recall(t)
  <2>1. /\ \A u \in Turns \ {t} : ~Open(u)
        /\ \A c \in Controls : control[c].phase # "waiting"
    BY <1>4 DEF Recall, Flushed, ClientFree, FlushCovers, AtMostOneOpen, Open
  <2>2. \A u \in Turns : ~Distilling(u)
    BY <1>4, FlushedMeansQuiet DEF Recall, Flushed
  <2>3. turn'[t].phase = "answering" /\ \A u \in Turns \ {t} : turn'[u] = turn[u]
    BY <1>0, <1>4 DEF Recall
  <2>4. control' = control /\ pending' = pending
    BY <1>4 DEF Recall
  <2> QED BY <2>1, <2>2, <2>3, <2>4, EnteringKeepsCover
<1>5. ASSUME NEW S \in SUBSET Fields, NEW complete \in Completes, CommitTurn(t, S, complete)
      PROVE  FlushCovers'
  <2>1. /\ turn'[t].phase \in {"failed", "distilling", "settled"}
        /\ \A u \in Turns \ {t} : /\ turn'[u].phase = turn[u].phase
                                  /\ turn'[u].awaits = turn[u].awaits
    <3>1. Overtaken("turn", S # {}) \in [Turns -> Turn]
      BY OvertakenType DEF Writes
    <3>2. \A u \in Turns \ {t} : turn'[u] = Overtaken("turn", S # {})[u]
      BY <1>5, <3>1 DEF CommitTurn
    <3>3. turn'[t].phase \in {"failed", "distilling", "settled"}
      BY <1>5, <3>1 DEF CommitTurn
    <3> QED BY <3>2, <3>3, OvertakenPhase
  <2>2. control' = control
    BY <1>5 DEF CommitTurn
  <2>3. turn'[t].phase = "distilling" => Inline \/ pending' = t
    <3>1. turn'[t].phase = "distilling" => complete /\ Distiller
      <4>1. Overtaken("turn", S # {}) \in [Turns -> Turn]
        BY OvertakenType DEF Writes
      <4> QED BY <1>5, <4>1 DEF CommitTurn
    <3> QED BY <1>5, <3>1 DEF CommitTurn
  <2>4. Open(t) /\ \A u \in Turns : ~Distilling(u)
    BY <1>5 DEF CommitTurn, Open, FlushCovers, TaskAwaited
  <2>5. /\ \A u \in Turns \ {t} : ~Open(u)
        /\ \A c \in Controls : control[c].phase # "waiting"
    BY <2>4 DEF FlushCovers, AtMostOneOpen
  <2>6. \A u \in Turns \ {t} : ~Open(u)' /\ ~Distilling(u)'
    BY <2>1, <2>4, <2>5 DEF Open, Distilling
  <2>7. AtMostOneOpen'
    BY <2>2, <2>5, <2>6 DEF AtMostOneOpen
  <2>8. TaskRegistered' /\ TaskAwaited'
    BY <2>1, <2>2, <2>3, <2>5, <2>6 DEF TaskRegistered, TaskAwaited, Distilling, Open
  <2> QED BY <2>7, <2>8 DEF FlushCovers
<1>6. ASSUME NEW S \in SUBSET Fields, NEW complete \in Completes, RememberLands(t, S, complete)
      PROVE  FlushCovers'
  <2>1. /\ turn'[t].phase = "settled"
        /\ \A u \in Turns \ {t} : turn'[u] = Overtaken("turn", S # {})[u]
    <3>1. Overtaken("turn", S # {}) \in [Turns -> Turn]
      BY OvertakenType DEF Writes
    <3>2. [turn[t] EXCEPT !.phase = "settled"].phase = "settled"
      BY <1>0 DEF Turn
    <3> QED BY <1>6, <3>1, <3>2 DEF RememberLands
  <2>2. \A u \in Turns \ {t} : /\ turn'[u].phase = turn[u].phase
                               /\ turn'[u].awaits = turn[u].awaits
    BY <2>1, OvertakenPhase
  <2>3. control' = control /\ pending' = Deregistered(t)
    BY <1>6 DEF RememberLands
  <2> QED BY <2>1, <2>2, <2>3, EndingKeepsCover DEF Deregistered
<1> QED BY <1>1, <1>2, <1>3, <1>4, <1>5, <1>6 DEF TurnStep

\* So does each step of a memory request.
LEMMA CoverControl ==
  ASSUME OneRequest = TRUE, TypeOK, FlushCovers, NEW c \in Controls, ControlStep(c)
  PROVE  FlushCovers'
<1>0. control \in [Controls -> Control] /\ turn \in [Turns -> Turn]
  BY DEF TypeOK
<1>1. ASSUME \/ control' = [control EXCEPT ![c].phase = "failed"]
             \/ \E p \in ControlPhases \ {"waiting"} : Finished(c, p),
             pending' = pending,
             turn' = turn \/ \E w, moved : turn' = Overtaken(w, moved)
      PROVE  FlushCovers'
  <2>1. control'[c].phase # "waiting" /\ \A d \in Controls \ {c} : control'[d] = control[d]
    BY <1>0, <1>1 DEF Finished, Control
  <2>2. \A u \in Turns : turn'[u].phase = turn[u].phase /\ turn'[u].awaits = turn[u].awaits
    BY <1>1, OvertakenPhase
  <2> QED BY <1>1, <2>1, <2>2, EndingKeepsCover
<1>2. CASE AwaitBeforeControl(c)
  <2>1. /\ \A u \in Turns : ~Open(u)
        /\ \A d \in Controls : control[d].phase # "waiting"
    BY <1>2 DEF AwaitBeforeControl, ClientFree
  <2>2. /\ control'[c] = [phase |-> "waiting", awaits |-> pending]
        /\ \A d \in Controls \ {c} : control'[d] = control[d]
    BY <1>0, <1>2 DEF AwaitBeforeControl
  <2>3. turn' = turn /\ pending' = pending
    BY <1>2 DEF AwaitBeforeControl
  <2>4. AtMostOneOpen'
    BY <2>1, <2>2, <2>3 DEF AtMostOneOpen, Open
  <2>5. TaskRegistered' /\ TaskAwaited'
    BY <2>1, <2>2, <2>3 DEF FlushCovers, TaskRegistered, TaskAwaited, Distilling, Open
  <2> QED BY <2>4, <2>5 DEF FlushCovers
<1>3. CASE AbortedControl(c)
  BY <1>1, <1>3 DEF AbortedControl
<1>4. CASE Compute(c) \/ RefreshInterview(c)
  BY <1>1, <1>4 DEF Compute, RefreshInterview, ControlPhases
<1>5. ASSUME NEW S \in SUBSET Fields, NEW complete \in Completes, EditFacts(c, S, complete)
      PROVE  FlushCovers'
  BY <1>1, <1>5 DEF EditFacts, ControlPhases
<1>6. ASSUME NEW f \in Fields, NEW complete \in Completes, ForgetFact(c, f, complete)
      PROVE  FlushCovers'
  BY <1>1, <1>6 DEF ForgetFact, ControlPhases
<1>7. ASSUME NEW complete \in Completes, ForgetAll(c, complete)
      PROVE  FlushCovers'
  BY <1>1, <1>7 DEF ForgetAll, ControlPhases
<1> QED BY <1>2, <1>3, <1>4, <1>5, <1>6, <1>7 DEF ControlStep

\* Without a new statement or a new task everybody stays in the transcript.
LEMMA TranscriptKept ==
  ASSUME StatedInTranscript, NEW t \in Turns \cup Controls \cup {NoOne}, NEW S,
         messages' = messages,
         facts' = facts \/ facts' = Stated(facts, t, S),
         t \in Turns => InTranscript(t),
         \A u \in Turns : Distilling(u)' => Distilling(u)
  PROVE  StatedInTranscript'
<1>1. SUFFICES ASSUME NEW u \in Turns, Distilling(u)' \/ (\E f \in Fields : facts'[f] = u)
               PROVE  InTranscript(u)
  BY DEF StatedInTranscript, InTranscript
<1>2. CASE u = t
  BY <1>2
<1>3. CASE u # t
  BY <1>1, <1>3 DEF StatedInTranscript, Stated
<1> QED BY <1>2, <1>3

\* Each step of a turn states facts only as a turn of the transcript.
LEMMA TranscriptTurn ==
  ASSUME TypeOK, StatedInTranscript, NEW t \in Turns, TurnStep(t)
  PROVE  StatedInTranscript'
<1>0. turn[t] \in Turn /\ turn \in [Turns -> Turn] /\ messages \in Seq(Turns)
  BY DEF TypeOK
<1>1. ASSUME UNCHANGED <<messages, facts>>, \A u \in Turns : Distilling(u)' => Distilling(u)
      PROVE  StatedInTranscript'
  <2>1. NoOne \notin Turns
    BY CaseMemoryAssumption
  <2> QED BY <1>1, <2>1, TranscriptKept
<1>2. CASE AwaitBeforeTurn(t) \/ AbortedTurn(t) \/ AnswerFails(t) \/ RejectTurn(t) \/ RememberLost(t)
  <2>1. PICK p \in {"waiting", "failed", "rejected", "settled"} :
          \/ turn' = [turn EXCEPT ![t] = [turn[t] EXCEPT !.phase = p]]
          \/ turn' = [turn EXCEPT ![t] = [turn[t] EXCEPT !.phase = p, !.awaits = pending]]
    BY <1>2 DEF AwaitBeforeTurn, AbortedTurn, AnswerFails, RejectTurn, RememberLost
  <2>2. turn'[t].phase = p /\ \A u \in Turns \ {t} : turn'[u] = turn[u]
    BY <1>0, <2>1 DEF Turn
  <2>3. UNCHANGED <<messages, facts>>
    BY <1>2 DEF AwaitBeforeTurn, AbortedTurn, AnswerFails, RejectTurn, RememberLost, store
  <2> QED BY <1>1, <2>2, <2>3 DEF Distilling
<1>3. CASE Recall(t)
  <2>1. turn'[t].phase = "answering" /\ \A u \in Turns \ {t} : turn'[u] = turn[u]
    BY <1>0, <1>3 DEF Recall
  <2> QED BY <1>1, <1>3, <2>1 DEF Distilling, Recall, store
<1>4. CASE Disconnect(t)
  <2>1. \A u \in Turns : turn'[u] = turn[u] \/ turn'[u] = [turn[u] EXCEPT !.phase = "cancelled"]
    BY <1>4 DEF Disconnect
  <2>2. \A u \in Turns : [turn[u] EXCEPT !.phase = "cancelled"].phase = "cancelled"
    BY <1>0 DEF Turn
  <2>3. \A u \in Turns : Distilling(u)' => Distilling(u)
    BY <2>1, <2>2 DEF Distilling
  <2> QED BY <1>1, <1>4, <2>3 DEF Disconnect, store
<1>5. ASSUME NEW S \in SUBSET Fields, NEW complete \in Completes, CommitTurn(t, S, complete)
      PROVE  StatedInTranscript'
  <2>1. messages' = Append(messages, t) /\ facts' = Stated(facts, t, S)
    BY <1>5 DEF CommitTurn
  <2>2. \A u \in Turns \ {t} : turn'[u].phase = turn[u].phase
    <3>1. Overtaken("turn", S # {}) \in [Turns -> Turn]
      BY OvertakenType DEF Writes
    <3>2. \A u \in Turns \ {t} : turn'[u] = Overtaken("turn", S # {})[u]
      BY <1>5, <3>1 DEF CommitTurn
    <3> QED BY <3>2, OvertakenPhase
  <2>3. InTranscript(t)' /\ \A u \in Turns : InTranscript(u) => InTranscript(u)'
    <3>1. /\ Len(messages') = Len(messages) + 1 /\ Len(messages) \in Nat
          /\ messages'[Len(messages) + 1] = t
          /\ \A i \in 1..Len(messages) : messages'[i] = messages[i]
      BY <1>0, <2>1
    <3> QED BY <3>1 DEF InTranscript
  <2>4. SUFFICES ASSUME NEW u \in Turns, u # t,
                        Distilling(u)' \/ (\E f \in Fields : facts'[f] = u)
                 PROVE  InTranscript(u)
    BY <2>3 DEF StatedInTranscript
  <2> QED BY <2>1, <2>2, <2>4 DEF StatedInTranscript, Stated, Distilling
<1>6. ASSUME NEW S \in SUBSET Fields, NEW complete \in Completes, RememberLands(t, S, complete)
      PROVE  StatedInTranscript'
  <2>1. Overtaken("turn", S # {}) \in [Turns -> Turn]
    BY OvertakenType DEF Writes
  <2>2. [turn[t] EXCEPT !.phase = "settled"].phase = "settled"
    BY <1>0 DEF Turn
  <2>3. turn'[t].phase = "settled" /\ \A u \in Turns \ {t} : turn'[u] = Overtaken("turn", S # {})[u]
    BY <1>6, <2>1, <2>2 DEF RememberLands
  <2>4. \A u \in Turns : Distilling(u)' => Distilling(u)
    BY <2>3, OvertakenPhase DEF Distilling
  <2>5. InTranscript(t)
    BY <1>6 DEF RememberLands, StatedInTranscript, Distilling
  <2>6. messages' = messages /\ facts' = Stated(facts, t, S)
    BY <1>6 DEF RememberLands
  <2> QED BY <2>4, <2>5, <2>6, TranscriptKept
<1> QED BY <1>2, <1>3, <1>4, <1>5, <1>6 DEF TurnStep

\* A memory request states facts in its own name, or clears everything when
\* no task is left that could state a fact afterwards.
LEMMA TranscriptControl ==
  ASSUME OneRequest = TRUE, TypeOK, FlushCovers, StatedInTranscript,
         NEW c \in Controls, ControlStep(c)
  PROVE  StatedInTranscript'
<1>0. c \notin Turns /\ NoOne \notin Turns
  BY CaseMemoryAssumption
<1>1. ASSUME UNCHANGED <<messages, turn>>,
             \/ facts' = facts
             \/ \E S : facts' = Stated(facts, c, S) \/ facts' = Stated(facts, NoOne, S)
      PROVE  StatedInTranscript'
  <2>1. \A u \in Turns : Distilling(u)' => Distilling(u)
    BY <1>1 DEF Distilling
  <2> QED BY <1>0, <1>1, <2>1, TranscriptKept
<1>2. ASSUME messages' = messages, NEW w, NEW moved, turn' = Overtaken(w, moved),
             \E S : facts' = Stated(facts, c, S) \/ facts' = Stated(facts, NoOne, S)
      PROVE  StatedInTranscript'
  <2>1. \A u \in Turns : Distilling(u)' => Distilling(u)
    BY <1>2, OvertakenPhase DEF Distilling
  <2> QED BY <1>0, <1>2, <2>1, TranscriptKept
<1>3. CASE AwaitBeforeControl(c) \/ AbortedControl(c) \/ Compute(c) \/ RefreshInterview(c)
  BY <1>1, <1>3 DEF AwaitBeforeControl, AbortedControl, Compute, RefreshInterview, store
<1>4. ASSUME NEW S \in SUBSET Fields, NEW complete \in Completes, EditFacts(c, S, complete)
      PROVE  StatedInTranscript'
  BY <1>2, <1>4 DEF EditFacts
<1>5. ASSUME NEW f \in Fields, NEW complete \in Completes, ForgetFact(c, f, complete)
      PROVE  StatedInTranscript'
  BY <1>2, <1>5 DEF ForgetFact
<1>6. ASSUME NEW complete \in Completes, ForgetAll(c, complete)
      PROVE  StatedInTranscript'
  <2>1. \A u \in Turns : ~Distilling(u)
    BY <1>6, FlushedMeansQuiet DEF ForgetAll, Flushed
  <2>2. turn' = Overtaken("clear", session.exists) /\ facts' = NoFacts
    BY <1>6 DEF ForgetAll
  <2>3. \A u \in Turns : ~Distilling(u)'
    BY <2>1, <2>2, OvertakenPhase DEF Distilling
  <2> QED BY <1>0, <2>2, <2>3 DEF StatedInTranscript, NoFacts
<1> QED BY <1>3, <1>4, <1>5, <1>6 DEF ControlStep

\* Every step keeps the invariant behind forgetting.
LEMMA ForgetStep ==
  ASSUME OneRequest = TRUE, ForgetInv, [Next]_vars
  PROVE  ForgetInv'
<1>0. TypeOK /\ FlushCovers /\ StatedInTranscript /\ TypeOK'
  BY TypeStep DEF ForgetInv
<1>1. CASE \E t \in Turns : TurnStep(t)
  BY <1>0, <1>1, CoverTurn, TranscriptTurn DEF ForgetInv
<1>2. CASE \E c \in Controls : ControlStep(c)
  BY <1>0, <1>2, CoverControl, TranscriptControl DEF ForgetInv
<1>3. CASE Restart
  <2>1. \A u \in Turns : turn'[u].phase \notin {"waiting", "answering", "distilling"}
    <3>1. \A u \in Turns : turn[u] \in Turn
      BY <1>0 DEF TypeOK
    <3>2. \A u \in Turns : [turn[u] EXCEPT !.phase = "failed"].phase = "failed"
      BY <3>1 DEF Turn
    <3> QED BY <1>3, <3>2 DEF Restart
  <2>2. \A c \in Controls : control'[c].phase # "waiting"
    <3>1. \A c \in Controls : control[c] \in Control
      BY <1>0 DEF TypeOK
    <3>2. \A c \in Controls : [control[c] EXCEPT !.phase = "failed"].phase = "failed"
      BY <3>1 DEF Control
    <3> QED BY <1>3, <3>2 DEF Restart
  <2>3. FlushCovers'
    BY <1>0, <2>1, <2>2, EndingKeepsCover
  <2>4. StatedInTranscript'
    BY <1>0, <1>3, <2>1, TranscriptKept, CaseMemoryAssumption DEF Restart, store, Distilling
  <2> QED BY <1>0, <2>3, <2>4 DEF ForgetInv
<1>4. CASE UNCHANGED vars
  <2>1. UNCHANGED <<messages, facts, pending, turn, control>>
    BY <1>4 DEF vars, store
  <2>2. FlushCovers'
    BY <1>0, <2>1, EndingKeepsCover
  <2>3. StatedInTranscript'
    BY <1>0, <2>1, TranscriptKept, CaseMemoryAssumption DEF Distilling
  <2> QED BY <1>0, <2>2, <2>3 DEF ForgetInv
<1> QED BY <1>1, <1>2, <1>3, <1>4 DEF Next

\* It holds at first.
LEMMA ForgetInit == Init => ForgetInv
<1> SUFFICES ASSUME Init PROVE ForgetInv
  OBVIOUS
<1>1. TypeOK
  BY TypeInit
<1>2. /\ \A u \in Turns : turn[u].phase = "idle"
      /\ \A c \in Controls : control[c].phase = "idle"
      /\ \A f \in Fields : facts[f] = NoOne
  BY DEF Init, NoFacts
<1>3. FlushCovers
  BY <1>2 DEF FlushCovers, AtMostOneOpen, TaskRegistered, TaskAwaited, Open, Distilling
<1>4. StatedInTranscript
  BY <1>2, CaseMemoryAssumption DEF StatedInTranscript, Distilling
<1> QED BY <1>1, <1>3, <1>4 DEF ForgetInv

\* For a client with at most one open request for the case, which is what the
\* frontend is, "alles vergessen" is final: no task that was still distilling
\* brings a fact back, whatever fails, is cancelled or restarted.
THEOREM ForgottenForGood ==
  ASSUME OneRequest = TRUE
  PROVE  Spec => []ForgottenStaysForgotten
<1>1. ForgetInv => ForgottenStaysForgotten
  <2>1. SUFFICES ASSUME ForgetInv, NEW f \in Fields, facts[f] \in Turns
                 PROVE  \E i \in DOMAIN messages : messages[i] = facts[f]
    BY DEF ForgottenStaysForgotten
  <2>2. InTranscript(facts[f]) /\ messages \in Seq(Turns)
    BY <2>1 DEF ForgetInv, StatedInTranscript, TypeOK
  <2> QED BY <2>2 DEF InTranscript
<1>2. ForgetInv /\ [Next]_vars => ForgetInv'
  BY ForgetStep
<1> QED BY <1>1, <1>2, ForgetInit, PTL DEF Spec
=============================================================================
