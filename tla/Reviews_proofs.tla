---------------------------- MODULE Reviews_proofs ----------------------------
(***************************************************************************)
(* Proofs about EvidenceReview and AIReview, for any reviews, experts and  *)
(* catalogs, submissions, runs, reports and processes.                     *)
(***************************************************************************)
EXTENDS EvidenceReview, AIReview, FiniteSetTheorems, TLAPS

Withdrawals == {"rejected", "revoked", "quarantined"}

HasBeen(d, types) == \E n \in DOMAIN lifecycle[d] : lifecycle[d][n].type \in types

\* What the events of a review say of each other: who reviewed is not the
\* creator, an approval rests on a review, a withdrawal is the last word, and
\* what was approved stays so until it is withdrawn.
LifecycleInv ==
  \A d \in Dossiers :
    /\ \A n \in DOMAIN lifecycle[d] :
         lifecycle[d][n].type \in {"reviewed", "rejected"} =>
           lifecycle[d][n].actor # dossier[d].creator
    /\ StateOf(lifecycle[d]) = "reviewed" => HasBeen(d, {"reviewed"})
    /\ Approved(d) => StateOf(lifecycle[d]) = "reviewed" /\ HasBeen(d, {"approved"})
    /\ HasBeen(d, Withdrawals) => StateOf(lifecycle[d]) \in Withdrawals
    /\ HasBeen(d, {"approved"}) => Approved(d) \/ HasBeen(d, Withdrawals)

\* A catalog is stored only once each of its reviews has been approved.
CatalogInv ==
  \A k \in Catalogs :
    /\ storing[k].open =>
         /\ ~catalog[k].stored /\ storing[k].left \subseteq storing[k].entries
         /\ \A e \in storing[k].entries \ storing[k].left : HasBeen(e, {"approved"})
    /\ catalog[k].stored => \A e \in catalog[k].entries : HasBeen(e, {"approved"})

\* If what an access has yet to read is approved now, there was a moment at
\* which all it rests on was: approvals do not come back.
AccessInv ==
  /\ capability.phase = "review" /\ (\A e \in Basis : Approved(e)) => jointly
  /\ capability.phase = "load" =>
       /\ capability.left \subseteq catalog[capability.catalog].entries
       /\ (\A e \in capability.left : Approved(e)) => jointly
  /\ capability.phase \in {"assert", "answered"} => jointly

ReviewInv == ReviewTypeOK /\ LifecycleInv /\ FourEyes /\ CatalogInv /\ AccessInv
-----------------------------------------------------------------------------
(* What a lifecycle event does.                                            *)

\* The events of the review it is about grow by one, of the outcome that
\* transition_review_projection gives it; nothing else is touched.
LEMMA RecordEffect ==
  ASSUME ReviewTypeOK, NEW d \in Dossiers, NEW type \in EventTypes, NEW actor \in Experts,
         Record(d, type, actor)
  PROVE  \E event \in LifecycleEvent :
           /\ event.type = type /\ event.actor = actor
           /\ event.state = Outcome(lifecycle[d], type).state
           /\ event.approval = Outcome(lifecycle[d], type).approval
           /\ lifecycle' = [lifecycle EXCEPT ![d] = Append(@, event)]
           /\ StateOf(lifecycle'[d]) = event.state
           /\ ApprovalOf(lifecycle'[d]) = event.approval
           /\ DOMAIN lifecycle'[d] = DOMAIN lifecycle[d] \cup {Len(lifecycle[d]) + 1}
           /\ \A n \in DOMAIN lifecycle[d] : lifecycle'[d][n] = lifecycle[d][n]
           /\ lifecycle'[d][Len(lifecycle[d]) + 1] = event
<1> DEFINE events == lifecycle[d]
           event == [type |-> type, actor |-> actor, state |-> Outcome(events, type).state,
                     approval |-> Outcome(events, type).approval]
<1>1. events \in Seq(LifecycleEvent)
  BY DEF ReviewTypeOK
<1>2. StateOf(events) \in FactualStates
  <2> HIDE DEF events
  <2>1. CASE events = <<>>
    BY <2>1 DEF StateOf, FactualStates
  <2>2. CASE events # <<>>
    <3>1. events[Len(events)] \in LifecycleEvent
      BY <1>1, <2>2
    <3> QED BY <2>2, <3>1 DEF StateOf, LastEvent, LifecycleEvent
  <2> QED BY <2>1, <2>2
<1>3. Outcome(events, type).state \in FactualStates
  BY <1>2 DEF Outcome, EventTypes, FactualStates
<1>4. Outcome(events, type).approval \in ApprovalStates
  BY DEF Outcome, EventTypes, ApprovalStates
<1>5. event \in LifecycleEvent
  BY <1>3, <1>4 DEF LifecycleEvent
<1>6. lifecycle' = [lifecycle EXCEPT ![d] = Append(@, event)]
  BY DEF Record
<1>7. lifecycle'[d] = Append(events, event)
  BY <1>6 DEF ReviewTypeOK
<1> HIDE DEF event, events
<1>8. /\ Append(events, event) # <<>> /\ Len(Append(events, event)) = Len(events) + 1
      /\ DOMAIN Append(events, event) = DOMAIN events \cup {Len(events) + 1}
      /\ \A n \in DOMAIN events : Append(events, event)[n] = events[n]
      /\ Append(events, event)[Len(events) + 1] = event
  BY <1>1, <1>5
<1>9. StateOf(lifecycle'[d]) = event.state /\ ApprovalOf(lifecycle'[d]) = event.approval
  BY <1>7, <1>8 DEF StateOf, ApprovalOf, LastEvent
<1> QED BY <1>5, <1>6, <1>7, <1>8, <1>9 DEF event, events

\* Every step of the system is of one of these kinds; most leave the events
\* alone, and all but two leave the reviews alone.
LEMMA StepKinds ==
  ASSUME ReviewTypeOK, [ReviewNext]_reviewVars
  PROVE  \/ \E d \in Dossiers, type \in EventTypes, actor \in Experts : Record(d, type, actor)
         \/ /\ lifecycle' = lifecycle
            /\ \A d \in Dossiers : lifecycle[d] # <<>> => dossier'[d] = dossier[d]
<1>1. ASSUME NEW d \in Dossiers, NEW actor \in Experts, CreateReview(d, actor)
      PROVE  \A e \in Dossiers : lifecycle[e] # <<>> => dossier'[e] = dossier[e]
  <2>1. ~dossier[d].stored
    BY <1>1 DEF CreateReview, NoDossier
  <2> QED BY <1>1, <2>1 DEF CreateReview, ReviewTypeOK
<1>2. ASSUME NEW d \in Dossiers, NEW actor \in Experts, NEW approvable \in BOOLEAN,
             StoreReview(d, actor, approvable)
      PROVE  \A e \in Dossiers : lifecycle[e] # <<>> => dossier'[e] = dossier[e]
  BY <1>2 DEF StoreReview, ReviewTypeOK
<1> QED BY <1>1, <1>2 DEF ReviewNext, reviewVars, CreateReview, StoreReview, BeginCatalog,
          CheckEntry, CommitCatalog, RefuseCatalog, BeginAccess, AccessReview, AccessEntry,
          AccessRound, EndAccess
-----------------------------------------------------------------------------
(* Types.                                                                  *)

\* Every step keeps the types, the stored reviews that were acted upon and
\* what an access refers to.
LEMMA ReviewTypeStep == ReviewTypeOK /\ [ReviewNext]_reviewVars => ReviewTypeOK'
<1> SUFFICES ASSUME ReviewTypeOK, [ReviewNext]_reviewVars PROVE ReviewTypeOK'
  OBVIOUS
<1> USE DEF ReviewTypeOK
<1>1. ASSUME NEW d \in Dossiers, NEW actor \in Experts, CreateReview(d, actor)
      PROVE  ReviewTypeOK'
  <2>1. ~dossier[d].stored
    BY <1>1 DEF CreateReview, NoDossier
  <2>2. [creator |-> actor, stored |-> FALSE, approvable |-> FALSE] \in Dossier
    BY DEF Dossier
  <2>3. dossier' \in [Dossiers -> Dossier \cup {NoDossier}]
    BY <1>1, <2>2 DEF CreateReview
  <2>4. \A e \in Dossiers : dossier[e].stored => dossier'[e] = dossier[e]
    BY <1>1, <2>1 DEF CreateReview
  <2>5. capability # NoAccess => capability.review \in Dossiers
    BY DEF Access
  <2> QED BY <1>1, <2>3, <2>4, <2>5 DEF CreateReview
<1>2. ASSUME NEW d \in Dossiers, NEW actor \in Experts, NEW approvable \in BOOLEAN,
             StoreReview(d, actor, approvable)
      PROVE  ReviewTypeOK'
  <2>1. dossier[d] \in Dossier
    BY <1>2 DEF StoreReview
  <2>2. [dossier[d] EXCEPT !.stored = TRUE, !.approvable = approvable] \in Dossier
    BY <2>1 DEF Dossier
  <2>3. dossier' = [dossier EXCEPT ![d] = [dossier[d] EXCEPT !.stored = TRUE,
                                                            !.approvable = approvable]]
    BY <1>2 DEF StoreReview
  <2>4. dossier' \in [Dossiers -> Dossier \cup {NoDossier}]
    BY <2>2, <2>3
  <2>5. \A e \in Dossiers : dossier[e].stored => dossier'[e].stored
    BY <2>1, <2>3 DEF Dossier
  <2>6. capability # NoAccess => capability.review \in Dossiers
    BY DEF Access
  <2> QED BY <1>2, <2>4, <2>5, <2>6 DEF StoreReview
<1>3. ASSUME NEW d \in Dossiers, NEW type \in EventTypes, NEW actor \in Experts,
             Record(d, type, actor)
      PROVE  ReviewTypeOK'
  <2>1. PICK event \in LifecycleEvent : lifecycle' = [lifecycle EXCEPT ![d] = Append(@, event)]
    BY <1>3, RecordEffect
  <2>2. lifecycle' \in [Dossiers -> Seq(LifecycleEvent)]
    BY <2>1
  <2>3. dossier[d].stored /\ jointly' \in BOOLEAN
    BY <1>3 DEF Record
  <2>4. \A e \in Dossiers : lifecycle'[e] # <<>> => dossier[e].stored
    BY <2>1, <2>3
  <2> QED BY <1>3, <2>2, <2>3, <2>4 DEF Record
<1>4. ASSUME NEW k \in Catalogs, NEW entries \in SUBSET Dossiers, BeginCatalog(k, entries)
      PROVE  ReviewTypeOK'
  <2>1. [open |-> TRUE, entries |-> entries, left |-> entries] \in StoringCatalog
    BY DEF StoringCatalog
  <2> QED BY <1>4, <2>1 DEF BeginCatalog
<1>5. ASSUME NEW k \in Catalogs, NEW d \in Dossiers, CheckEntry(k, d)
      PROVE  ReviewTypeOK'
  <2>1. storing[k] \in StoringCatalog
    BY <1>5 DEF CheckEntry, NotStoring
  <2>2. [storing[k] EXCEPT !.left = @ \ {d}] \in StoringCatalog
    BY <2>1 DEF StoringCatalog
  <2> QED BY <1>5, <2>2 DEF CheckEntry
<1>6. ASSUME NEW k \in Catalogs, CommitCatalog(k)
      PROVE  ReviewTypeOK'
  <2>1. storing[k] \in StoringCatalog
    BY <1>6 DEF CommitCatalog, NotStoring
  <2>2. [stored |-> TRUE, entries |-> storing[k].entries] \in StoredCatalog
    BY <2>1 DEF StoringCatalog, StoredCatalog
  <2>3. \A j \in Catalogs : catalog[j].stored => catalog'[j].stored
    BY <1>6 DEF CommitCatalog
  <2>4. capability # NoAccess => capability.catalog \in Catalogs
    BY DEF Access
  <2> QED BY <1>6, <2>2, <2>3, <2>4 DEF CommitCatalog
<1>7. ASSUME NEW k \in Catalogs, RefuseCatalog(k)
      PROVE  ReviewTypeOK'
  BY <1>7 DEF RefuseCatalog
<1>8. ASSUME NEW d \in Dossiers, NEW k \in Catalogs, BeginAccess(d, k)
      PROVE  ReviewTypeOK'
  <2>1. [phase |-> "review", review |-> d, catalog |-> k, left |-> {}] \in Access
    BY DEF Access
  <2>2. jointly' \in BOOLEAN
    BY <1>8 DEF BeginAccess
  <2> QED BY <1>8, <2>1, <2>2 DEF BeginAccess
<1>9. ASSUME AccessReview \/ AccessRound \/ \E d \in Dossiers : AccessEntry(d)
      PROVE  ReviewTypeOK'
  <2>1. capability \in Access /\ capability # NoAccess
    BY <1>9 DEF AccessReview, AccessRound, AccessEntry, NoAccess
  <2>2. catalog[capability.catalog] \in StoredCatalog
    BY <2>1 DEF Access, NoCatalog
  <2>3. \A phase \in {"load", "assert", "answered"}, left \in SUBSET Dossiers :
          [capability EXCEPT !.phase = phase, !.left = left] \in Access
    BY <2>1 DEF Access
  <2>4. \A phase \in {"load", "assert", "answered"}, left \in SUBSET Dossiers :
          /\ [capability EXCEPT !.phase = phase] \in Access
          /\ [capability EXCEPT !.left = left] \in Access
    BY <2>1 DEF Access
  <2>5. catalog[capability.catalog].entries \in SUBSET Dossiers
    BY <2>2 DEF StoredCatalog
  <2>6. capability.left \in SUBSET Dossiers
    BY <2>1 DEF Access
  <2>7. /\ capability' \in Access /\ capability'.review = capability.review
        /\ capability'.catalog = capability.catalog
    <3>1. CASE AccessReview
      BY <2>1, <2>3, <2>5, <3>1 DEF AccessReview, Access
    <3>2. CASE AccessRound
      BY <2>1, <2>3, <2>4, <2>5, <3>2 DEF AccessRound, Access
    <3>3. ASSUME NEW d \in Dossiers, AccessEntry(d)
          PROVE  /\ capability' \in Access /\ capability'.review = capability.review
                 /\ capability'.catalog = capability.catalog
      <4>1. capability' = [capability EXCEPT !.left = capability.left \ {d}]
        BY <3>3 DEF AccessEntry
      <4> QED BY <2>1, <2>4, <2>6, <4>1 DEF Access
    <3> QED BY <1>9, <3>1, <3>2, <3>3
  <2> QED BY <1>9, <2>1, <2>7 DEF AccessReview, AccessRound, AccessEntry
<1>10. ASSUME EndAccess PROVE ReviewTypeOK'
  BY <1>10 DEF EndAccess
<1>11. CASE UNCHANGED reviewVars
  BY <1>11 DEF reviewVars
<1> QED BY <1>1, <1>2, <1>3, <1>4, <1>5, <1>6, <1>7, <1>8, <1>9, <1>10, <1>11 DEF ReviewNext

\* The declared types hold throughout.
THEOREM ReviewTypeCorrect == ReviewSpec => []ReviewTypeOK
<1>1. ReviewInit => ReviewTypeOK
  <2> SUFFICES ASSUME ReviewInit PROVE ReviewTypeOK
    OBVIOUS
  <2>1. \A d \in Dossiers : lifecycle[d] = <<>>
    BY DEF ReviewInit
  <2>2. lifecycle \in [Dossiers -> Seq(LifecycleEvent)]
    BY DEF ReviewInit
  <2> QED BY <2>1, <2>2 DEF ReviewInit, ReviewTypeOK
<1>2. ReviewTypeOK /\ [ReviewNext]_reviewVars => ReviewTypeOK'
  BY ReviewTypeStep
<1> QED BY <1>1, <1>2, PTL DEF ReviewSpec
-----------------------------------------------------------------------------
(* The lifecycle of a review.                                              *)

\* Every step keeps what the events of a review say of each other.
LEMMA LifecycleStep ==
  ReviewTypeOK /\ LifecycleInv /\ FourEyes /\ [ReviewNext]_reviewVars
    => LifecycleInv' /\ FourEyes'
<1> SUFFICES ASSUME ReviewTypeOK, LifecycleInv, FourEyes, [ReviewNext]_reviewVars
             PROVE  LifecycleInv' /\ FourEyes'
  OBVIOUS
<1>1. ASSUME lifecycle' = lifecycle,
             \A d \in Dossiers : lifecycle[d] # <<>> => dossier'[d] = dossier[d]
      PROVE  LifecycleInv' /\ FourEyes'
  <2>1. \A d \in Dossiers : \A n \in DOMAIN lifecycle[d] : dossier'[d] = dossier[d]
    <3> SUFFICES ASSUME NEW d \in Dossiers, NEW n \in DOMAIN lifecycle[d]
                 PROVE  lifecycle[d] # <<>>
      BY <1>1
    <3> QED BY DEF ReviewTypeOK
  <2> QED BY <1>1, <2>1 DEF LifecycleInv, FourEyes, Approved, HasBeen
<1>2. ASSUME NEW d \in Dossiers, NEW type \in EventTypes, NEW actor \in Experts,
             Record(d, type, actor)
      PROVE  LifecycleInv' /\ FourEyes'
  <2> DEFINE events == lifecycle[d]
             last == Len(events) + 1
  <2>1. PICK event \in LifecycleEvent :
          /\ event.type = type /\ event.actor = actor
          /\ event.state = Outcome(events, type).state
          /\ event.approval = Outcome(events, type).approval
          /\ lifecycle' = [lifecycle EXCEPT ![d] = Append(@, event)]
          /\ StateOf(lifecycle'[d]) = event.state
          /\ ApprovalOf(lifecycle'[d]) = event.approval
          /\ DOMAIN lifecycle'[d] = DOMAIN events \cup {last}
          /\ \A n \in DOMAIN events : lifecycle'[d][n] = events[n]
          /\ lifecycle'[d][last] = event
    BY <1>2, RecordEffect
  <2>2. /\ \A e \in Dossiers \ {d} : lifecycle'[e] = lifecycle[e]
        /\ dossier' = dossier /\ DOMAIN events = 1..Len(events) /\ Len(events) \in Nat
    BY <1>2, <2>1 DEF Record, ReviewTypeOK
  <2>3. Allowed(events, type, actor, dossier[d].creator) /\ (type = "approved" => dossier[d].approvable)
    BY <1>2 DEF Record
  <2>4. \A types : HasBeen(d, types)' <=> HasBeen(d, types) \/ type \in types
    BY <2>1 DEF HasBeen
  <2>5. /\ HasBeen(d, Withdrawals) => StateOf(events) \in Withdrawals
        /\ HasBeen(d, {"approved"}) => Approved(d) \/ HasBeen(d, Withdrawals)
        /\ StateOf(events) = "reviewed" => HasBeen(d, {"reviewed"})
        /\ Approved(d) => StateOf(events) = "reviewed" /\ HasBeen(d, {"approved"})
    BY DEF LifecycleInv
  <2> HIDE DEF events, last
  <2>6. Approved(d) <=> ApprovalOf(events) = "approved"
    BY DEF Approved, events
  <2>7. Approved(d)' <=> event.approval = "approved"
    BY <2>1 DEF Approved
  <2>8. /\ event.state = "reviewed" => HasBeen(d, {"reviewed"})'
        /\ Approved(d)' => event.state = "reviewed" /\ HasBeen(d, {"approved"})'
        /\ HasBeen(d, Withdrawals)' => event.state \in Withdrawals
        /\ HasBeen(d, {"approved"})' => Approved(d)' \/ HasBeen(d, Withdrawals)'
    <3> USE DEF Withdrawals
    <3>1. CASE type = "reviewed"
      BY <2>1, <2>3, <2>4, <2>5, <2>6, <2>7, <3>1 DEF Allowed, Outcome
    <3>2. CASE type = "rejected"
      BY <2>1, <2>3, <2>4, <2>5, <2>6, <2>7, <3>2 DEF Allowed, Outcome
    <3>3. CASE type = "approved"
      BY <2>1, <2>3, <2>4, <2>5, <2>6, <2>7, <3>3 DEF Allowed, Outcome
    <3>4. CASE type = "revoked"
      BY <2>1, <2>3, <2>4, <2>5, <2>6, <2>7, <3>4 DEF Allowed, Outcome
    <3>5. CASE type = "quarantined"
      BY <2>1, <2>3, <2>4, <2>5, <2>6, <2>7, <3>5 DEF Allowed, Outcome
    <3> QED BY <3>1, <3>2, <3>3, <3>4, <3>5 DEF EventTypes
  <2>9. type \in {"reviewed", "rejected"} => actor # dossier[d].creator
    BY <2>3 DEF Allowed
  <2>10. type = "approved" =>
           /\ actor # dossier[d].creator
           /\ \E m \in DOMAIN events : /\ events[m].type = "reviewed"
                                       /\ events[m].actor \notin {dossier[d].creator, actor}
    <3> SUFFICES ASSUME type = "approved"
                 PROVE  /\ actor \notin {dossier[d].creator} \cup ReviewerOf(events)
                        /\ \E m \in DOMAIN events : events[m].type = "reviewed"
      BY DEF ReviewerOf, ActorsOf, LifecycleInv, events
    <3> QED BY <2>3, <2>5 DEF Allowed, HasBeen, events
  <2>11. ASSUME NEW e \in Dossiers, e # d
         PROVE  /\ lifecycle'[e] = lifecycle[e] /\ (Approved(e)' <=> Approved(e))
                /\ \A types : HasBeen(e, types)' <=> HasBeen(e, types)
    BY <2>2, <2>11 DEF Approved, HasBeen
  <2>12. LifecycleInv'
    <3>1. \A n \in DOMAIN lifecycle'[d] : lifecycle'[d][n].type \in {"reviewed", "rejected"} =>
            lifecycle'[d][n].actor # dossier[d].creator
      BY <2>1, <2>9 DEF LifecycleInv, events
    <3>2. StateOf(lifecycle'[d]) = event.state
      BY <2>1
    <3> QED BY <2>2, <2>8, <2>11, <3>1, <3>2 DEF LifecycleInv
  <2>13. FourEyes'
    <3>1. ASSUME NEW n \in DOMAIN lifecycle'[d], lifecycle'[d][n].type = "approved"
          PROVE  /\ dossier[d].approvable
                 /\ lifecycle'[d][n].actor # dossier[d].creator
                 /\ \E m \in 1..(n - 1) :
                      /\ lifecycle'[d][m].type = "reviewed"
                      /\ lifecycle'[d][m].actor \notin {dossier[d].creator, lifecycle'[d][n].actor}
      <4>1. CASE n = last
        BY <2>1, <2>2, <2>3, <2>10, <3>1, <4>1 DEF last
      <4>2. CASE n # last
        <5>1. n \in DOMAIN events /\ lifecycle'[d][n] = events[n]
          BY <2>1, <4>2
        <5>2. \A m \in 1..(n - 1) : lifecycle'[d][m] = events[m]
          BY <2>1, <2>2, <5>1
        <5> QED BY <3>1, <5>1, <5>2 DEF FourEyes, events
      <4> QED BY <4>1, <4>2
    <3> QED BY <2>2, <2>11, <3>1 DEF FourEyes
  <2> QED BY <2>12, <2>13
<1> QED BY <1>1, <1>2, StepKinds

\* A review that was withdrawn, or once approved, does not become approved, and
\* what happened to a review has happened for good.
LEMMA ApprovalsDoNotReturn ==
  ASSUME ReviewTypeOK, LifecycleInv, [ReviewNext]_reviewVars, NEW e \in Dossiers
  PROVE  /\ HasBeen(e, {"approved"}) => HasBeen(e, {"approved"})'
         /\ HasBeen(e, {"approved"}) /\ Approved(e)' => Approved(e)
         /\ HasBeen(e, Withdrawals) => ~Approved(e)'
<1>1. CASE lifecycle' = lifecycle
  BY <1>1 DEF HasBeen, Approved, LifecycleInv, Withdrawals
<1>2. ASSUME NEW d \in Dossiers, NEW type \in EventTypes, NEW actor \in Experts,
             Record(d, type, actor)
      PROVE  /\ HasBeen(e, {"approved"}) => HasBeen(e, {"approved"})'
             /\ HasBeen(e, {"approved"}) /\ Approved(e)' => Approved(e)
             /\ HasBeen(e, Withdrawals) => ~Approved(e)'
  <2>1. PICK event \in LifecycleEvent :
          /\ event.approval = Outcome(lifecycle[d], type).approval
          /\ lifecycle' = [lifecycle EXCEPT ![d] = Append(@, event)]
          /\ ApprovalOf(lifecycle'[d]) = event.approval
          /\ DOMAIN lifecycle'[d] = DOMAIN lifecycle[d] \cup {Len(lifecycle[d]) + 1}
          /\ \A n \in DOMAIN lifecycle[d] : lifecycle'[d][n] = lifecycle[d][n]
    BY <1>2, RecordEffect
  <2>2. CASE e # d
    <3>1. lifecycle'[e] = lifecycle[e]
      BY <2>1, <2>2 DEF ReviewTypeOK
    <3> QED BY <3>1 DEF HasBeen, Approved, LifecycleInv, Withdrawals
  <2>3. CASE e = d
    <3>1. HasBeen(d, {"approved"}) => HasBeen(d, {"approved"})'
      BY <2>1 DEF HasBeen
    <3>2. Allowed(lifecycle[d], type, actor, dossier[d].creator)
      BY <1>2 DEF Record
    <3>3. HasBeen(d, Withdrawals) => StateOf(lifecycle[d]) \in Withdrawals /\ ~Approved(d)
      BY DEF LifecycleInv, Withdrawals
    <3>4. HasBeen(d, {"approved"}) => Approved(d) \/ HasBeen(d, Withdrawals)
      BY DEF LifecycleInv
    <3>5. Approved(d)' => type = "approved"
      BY <2>1 DEF Approved, Outcome, EventTypes
    <3>6. type = "approved" => StateOf(lifecycle[d]) = "reviewed" /\ ~Approved(d)
      BY <3>2 DEF Allowed, Approved
    <3> QED BY <2>3, <3>1, <3>3, <3>4, <3>5, <3>6 DEF Withdrawals
  <2> QED BY <2>2, <2>3
<1> QED BY <1>1, <1>2, StepKinds
-----------------------------------------------------------------------------
(* Catalogs and accesses.                                                  *)

\* A catalog is stored only on reviews that have been approved.
LEMMA CatalogStep ==
  ReviewTypeOK /\ LifecycleInv /\ CatalogInv /\ [ReviewNext]_reviewVars => CatalogInv'
<1> SUFFICES ASSUME ReviewTypeOK, LifecycleInv, CatalogInv, [ReviewNext]_reviewVars
             PROVE  CatalogInv'
  OBVIOUS
<1>1. \A e \in Dossiers : HasBeen(e, {"approved"}) => HasBeen(e, {"approved"})'
  BY ApprovalsDoNotReturn
<1>2. \A k \in Catalogs :
        /\ storing[k].open => storing[k].entries \subseteq Dossiers
        /\ catalog[k].stored => catalog[k].entries \subseteq Dossiers
  <2> TAKE k \in Catalogs
  <2>1. storing[k].open => storing[k] \in StoringCatalog
    BY DEF ReviewTypeOK, NotStoring
  <2>2. catalog[k].stored => catalog[k] \in StoredCatalog
    BY DEF ReviewTypeOK, NoCatalog
  <2> QED BY <2>1, <2>2 DEF StoringCatalog, StoredCatalog
<1>3. ASSUME UNCHANGED <<catalog, storing>> PROVE CatalogInv'
  BY <1>1, <1>2, <1>3 DEF CatalogInv
<1>4. ASSUME NEW k \in Catalogs, NEW entries \in SUBSET Dossiers, BeginCatalog(k, entries)
      PROVE  CatalogInv'
  <2>1. storing' = [storing EXCEPT ![k] = [open |-> TRUE, entries |-> entries, left |-> entries]]
    BY <1>4 DEF BeginCatalog
  <2>2. ~catalog[k].stored /\ catalog' = catalog
    BY <1>4 DEF BeginCatalog, NoCatalog
  <2> QED BY <1>1, <1>2, <2>1, <2>2 DEF CatalogInv, ReviewTypeOK
<1>5. ASSUME NEW k \in Catalogs, NEW d \in Dossiers, CheckEntry(k, d)
      PROVE  CatalogInv'
  <2>1. Approved(d) /\ d \in storing[k].left /\ storing[k].open /\ catalog' = catalog
    BY <1>5 DEF CheckEntry, EntryValid
  <2>2. HasBeen(d, {"approved"})
    BY <2>1 DEF LifecycleInv
  <2>3. storing' = [storing EXCEPT ![k].left = @ \ {d}]
    BY <1>5 DEF CheckEntry
  <2>4. storing[k] \in StoringCatalog
    BY <2>1 DEF ReviewTypeOK, NotStoring
  <2>5. /\ storing'[k].left = storing[k].left \ {d} /\ storing'[k].entries = storing[k].entries
        /\ storing'[k].open /\ \A j \in Catalogs \ {k} : storing'[j] = storing[j]
    BY <2>1, <2>3, <2>4 DEF ReviewTypeOK, StoringCatalog
  <2>6. \A e \in storing'[k].entries \ storing'[k].left : HasBeen(e, {"approved"})'
    BY <1>1, <1>2, <2>1, <2>2, <2>5 DEF CatalogInv
  <2> QED BY <1>1, <1>2, <2>1, <2>5, <2>6 DEF CatalogInv
<1>6. ASSUME NEW k \in Catalogs, CommitCatalog(k)
      PROVE  CatalogInv'
  <2>1. /\ storing[k].open /\ storing[k].left = {}
        /\ storing' = [storing EXCEPT ![k] = NotStoring]
        /\ catalog' = [catalog EXCEPT ![k] = [stored |-> TRUE, entries |-> storing[k].entries]]
    BY <1>6 DEF CommitCatalog
  <2>2. \A e \in storing[k].entries : HasBeen(e, {"approved"})'
    BY <1>1, <1>2, <2>1 DEF CatalogInv
  <2>3. /\ ~storing'[k].open /\ catalog'[k].entries = storing[k].entries
        /\ \A j \in Catalogs \ {k} : storing'[j] = storing[j] /\ catalog'[j] = catalog[j]
    BY <2>1 DEF ReviewTypeOK, NotStoring
  <2> QED BY <1>1, <1>2, <2>2, <2>3 DEF CatalogInv
<1>7. ASSUME NEW k \in Catalogs, RefuseCatalog(k)
      PROVE  CatalogInv'
  BY <1>1, <1>2, <1>7 DEF RefuseCatalog, CatalogInv, ReviewTypeOK, NotStoring
<1> QED BY <1>3, <1>4, <1>5, <1>6, <1>7 DEF ReviewNext, reviewVars, CreateReview, StoreReview,
          Record, BeginAccess, AccessReview, AccessEntry, AccessRound, EndAccess

\* However approvals come and go between the reads of an access, it is answered
\* only if all it rests on was approved at one moment.
LEMMA AccessStep ==
  ReviewInv /\ [ReviewNext]_reviewVars => AccessInv'
<1> SUFFICES ASSUME ReviewInv, [ReviewNext]_reviewVars PROVE AccessInv'
  OBVIOUS
<1> USE DEF ReviewInv
<1>1. \A e \in Dossiers : HasBeen(e, {"approved"}) /\ Approved(e)' => Approved(e)
  BY ApprovalsDoNotReturn
<1>2. ASSUME capability.phase \in {"review", "load", "assert", "answered"}
      PROVE  /\ capability \in Access /\ capability # NoAccess
             /\ capability.review \in Dossiers /\ capability.catalog \in Catalogs
             /\ catalog[capability.catalog].stored
             /\ catalog[capability.catalog].entries \subseteq Dossiers
             /\ \A e \in catalog[capability.catalog].entries : HasBeen(e, {"approved"})
  <2>1. capability \in Access /\ capability # NoAccess
    BY <1>2 DEF ReviewTypeOK, NoAccess
  <2>2. catalog[capability.catalog].stored /\ capability.catalog \in Catalogs
    BY <2>1 DEF ReviewTypeOK, Access
  <2>3. catalog[capability.catalog] \in StoredCatalog
    BY <2>2 DEF ReviewTypeOK, NoCatalog
  <2>4. \A e \in catalog[capability.catalog].entries : HasBeen(e, {"approved"})
    BY <2>2 DEF CatalogInv
  <2>5. catalog[capability.catalog].entries \subseteq Dossiers
    BY <2>3 DEF StoredCatalog
  <2> QED BY <2>1, <2>2, <2>4, <2>5 DEF Access
<1>3. ASSUME UNCHANGED <<capability, catalog>>,
             jointly => jointly',
             capability.phase = "review" /\ (\A e \in Basis : Approved(e)') => jointly'
      PROVE  AccessInv'
  <2>1. Basis' = Basis
    BY <1>3 DEF Basis
  <2>2. capability.phase = "load" /\ (\A e \in capability.left : Approved(e)') => jointly'
    BY <1>1, <1>2, <1>3 DEF AccessInv
  <2> QED BY <1>3, <2>1, <2>2 DEF AccessInv, Approved
<1>4. ASSUME NEW d \in Dossiers, NEW type \in EventTypes, NEW actor \in Experts,
             Record(d, type, actor)
      PROVE  AccessInv'
  <2>1. UNCHANGED <<capability, catalog>>
    BY <1>4 DEF Record
  <2>2. jointly' = (jointly \/ (capability # NoAccess /\ \A e \in Basis : Approved(e)'))
    BY <1>4 DEF Record, Approved
  <2>3. capability.phase = "review" => capability # NoAccess
    BY DEF NoAccess
  <2>4. jointly \in BOOLEAN /\ (capability.phase = "review" /\ (\A e \in Basis : Approved(e)') => jointly')
    BY <2>2, <2>3 DEF ReviewTypeOK
  <2> QED BY <1>3, <2>1, <2>2, <2>4
<1>5. ASSUME NEW k \in Catalogs, CommitCatalog(k)
      PROVE  AccessInv'
  <2>1. UNCHANGED <<lifecycle, capability, jointly>> /\ ~catalog[k].stored
    BY <1>5 DEF CommitCatalog, CatalogInv
  <2>2. capability.phase \in {"review", "load"} =>
          catalog'[capability.catalog] = catalog[capability.catalog]
    BY <1>2, <1>5, <2>1 DEF CommitCatalog, ReviewTypeOK
  <2>3. capability.phase = "review" => Basis' = Basis
    BY <2>1, <2>2 DEF Basis
  <2> QED BY <2>1, <2>2, <2>3 DEF AccessInv, Approved
<1>6. ASSUME NEW d \in Dossiers, NEW k \in Catalogs, BeginAccess(d, k)
      PROVE  AccessInv'
  <2>1. /\ capability' = [phase |-> "review", review |-> d, catalog |-> k, left |-> {}]
        /\ jointly' = (Approved(d) /\ \A e \in catalog[k].entries : Approved(e))
        /\ lifecycle' = lifecycle /\ catalog' = catalog
    BY <1>6 DEF BeginAccess
  <2>2. Basis' = {d} \cup catalog[k].entries
    BY <2>1 DEF Basis
  <2>3. (\A e \in Basis' : Approved(e)') => jointly'
    BY <2>1, <2>2 DEF Approved
  <2> QED BY <2>1, <2>3 DEF AccessInv
<1>7. CASE AccessReview
  <2>1. /\ capability.phase = "review" /\ Approved(capability.review)
        /\ capability' = [capability EXCEPT !.phase = "load",
                                            !.left = catalog[capability.catalog].entries]
        /\ UNCHANGED <<lifecycle, catalog, jointly>>
    BY <1>7 DEF AccessReview
  <2>2. /\ capability'.phase = "load" /\ capability'.catalog = capability.catalog
        /\ capability'.left = catalog[capability.catalog].entries
    BY <1>2, <2>1 DEF Access
  <2>3. (\A e \in capability'.left : Approved(e)) => jointly
    BY <2>1, <2>2 DEF AccessInv, Basis
  <2> QED BY <2>1, <2>2, <2>3 DEF AccessInv, Approved
<1>8. ASSUME NEW d \in Dossiers, AccessEntry(d)
      PROVE  AccessInv'
  <2>1. /\ capability.phase \in {"load", "assert"} /\ Approved(d) /\ d \in capability.left
        /\ capability' = [capability EXCEPT !.left = @ \ {d}]
        /\ UNCHANGED <<lifecycle, catalog, jointly>>
    BY <1>8 DEF AccessEntry, EntryValid
  <2>2. /\ capability'.phase = capability.phase /\ capability'.catalog = capability.catalog
        /\ capability'.left = capability.left \ {d}
    BY <1>2, <2>1 DEF Access
  <2> QED BY <2>1, <2>2 DEF AccessInv, Approved
<1>9. CASE AccessRound
  <2>1. /\ capability.phase \in {"load", "assert"} /\ capability.left = {}
        /\ capability'.phase \in {"assert", "answered"} /\ jointly' = jointly
    BY <1>2, <1>9 DEF AccessRound, Access
  <2> QED BY <2>1 DEF AccessInv
<1>10. CASE EndAccess
  BY <1>10 DEF EndAccess, AccessInv, NoAccess
<1>11. CASE UNCHANGED <<lifecycle, capability, catalog, jointly>>
  <2>1. \A e : Approved(e)' <=> Approved(e)
    BY <1>11 DEF Approved
  <2> QED BY <1>3, <1>11, <2>1 DEF AccessInv
<1> QED BY <1>4, <1>5, <1>6, <1>7, <1>8, <1>9, <1>10, <1>11 DEF ReviewNext, reviewVars,
          CreateReview, StoreReview, BeginCatalog, CheckEntry, RefuseCatalog
-----------------------------------------------------------------------------
(* The theorems.                                                           *)

\* All of it together is invariant.
LEMMA ReviewInvariant == ReviewSpec => []ReviewInv
<1>1. ReviewInit => ReviewInv
  <2> SUFFICES ASSUME ReviewInit PROVE ReviewInv
    OBVIOUS
  <2>1. \A d \in Dossiers : lifecycle[d] = <<>> /\ DOMAIN lifecycle[d] = {}
    BY DEF ReviewInit
  <2>2. LifecycleInv /\ FourEyes
    BY <2>1 DEF LifecycleInv, FourEyes, HasBeen, Approved, StateOf, ApprovalOf
  <2>3. CatalogInv /\ AccessInv
    BY DEF ReviewInit, CatalogInv, AccessInv, NotStoring, NoCatalog, NoAccess
  <2>4. lifecycle \in [Dossiers -> Seq(LifecycleEvent)]
    BY DEF ReviewInit
  <2> QED BY <2>1, <2>2, <2>3, <2>4 DEF ReviewInv, ReviewInit, ReviewTypeOK
<1>2. ReviewInv /\ [ReviewNext]_reviewVars => ReviewInv'
  BY ReviewTypeStep, LifecycleStep, CatalogStep, AccessStep DEF ReviewInv
<1> QED BY <1>1, <1>2, PTL DEF ReviewSpec

\* Four eyes: an approval is by a third person, after a review by a second.
THEOREM ApprovedByAThird == ReviewSpec => []FourEyes
<1>1. ReviewInv => FourEyes
  BY DEF ReviewInv
<1> QED BY <1>1, ReviewInvariant, PTL

\* A review that was rejected, revoked or quarantined is never approved again.
THEOREM WithdrawnForGood == ReviewSpec => WithdrawalIsFinal
<1>1. ReviewInv /\ [ReviewNext]_reviewVars =>
        [\A d \in Dossiers :
           (\E n \in DOMAIN lifecycle[d] : lifecycle[d][n].type \in {"rejected", "revoked", "quarantined"})
             => ~Approved(d)']_reviewVars
  BY ApprovalsDoNotReturn DEF ReviewInv, HasBeen, Withdrawals
<1> QED BY <1>1, ReviewInvariant, PTL DEF ReviewSpec, WithdrawalIsFinal

\* Reviewed rules are handed out only if everything they rest on was approved
\* at one moment of the access, for any number of entries and experts.
THEOREM AnswersRestOnOneMoment == ReviewSpec => []AnswersAreCurrent
<1>1. ReviewInv => AnswersAreCurrent
  BY DEF ReviewInv, AccessInv, AnswersAreCurrent
<1> QED BY <1>1, ReviewInvariant, PTL
-----------------------------------------------------------------------------
(* Reviews by agents.                                                      *)

\* The run is an independent one, and what it reviews is eligible.
Fit(s, run) ==
  submission[s].stored /\ submission[s].eligible /\ run # submission[s].creator

\* An adjudication rests on a challenge, by a third run; it passes only what was
\* challenged with a pass and nothing but notes.
RestsOnChallenge(a) ==
  \E c \in challenges :
    /\ c.review = a.review /\ a.run \notin {submission[a.review].creator, c.run}
    /\ a.outcome = "cross_reviewed" => c.report.verdict = "PASS" /\ c.report.findings \subseteq {"note"}

ReceiptsFit ==
  \A j \in Jobs : receipt[j] # NoReceipt => Fit(receipt[j].review, receipt[j].run)

\* What an open transaction has decided stays true until it commits; the event it
\* will append is allowed if nobody has appended another one meanwhile.
WorkFits(w) ==
  /\ w # NoWork => submission[w.review].stored
  /\ w.op = "challenge" => w.row.review = w.review /\ Fit(w.review, w.row.run)
  /\ w.op = "adjudicate" =>
       w.row.review = w.review /\ w.row.outcome = w.event /\ RestsOnChallenge(w.row)
  /\ w # NoWork /\ w.phase = "appended" =>
       /\ w.sequence <= Len(agentLifecycle[w.review]) + 1
       /\ w.sequence = Len(agentLifecycle[w.review]) + 1
            => w.event \in AgentAllowed[AgentState(w.review)]

\* There is one challenge or none, and it is the first event.
ChallengeFirst ==
  \A s \in Submissions :
    /\ \A c, d \in challenges : c.review = s /\ d.review = s => c = d
    /\ (\E c \in challenges : c.review = s)
         <=> agentLifecycle[s] # <<>> /\ agentLifecycle[s][1] = "challenged"
    /\ \A n \in DOMAIN agentLifecycle[s] : agentLifecycle[s][n] = "challenged" => n = 1

\* What was cross-reviewed has an adjudication that says so, and whatever was
\* adjudicated is no more a challenge that waits.
AdjudicationsCount ==
  /\ \A a \in adjudications :
       RestsOnChallenge(a) /\ AgentState(a.review) \notin {"draft", "challenged"}
  /\ \A s \in Submissions, n \in Nat :
       n \in DOMAIN agentLifecycle[s] /\ agentLifecycle[s][n] = "cross_reviewed" =>
         \E a \in adjudications : a.review = s /\ a.outcome = "cross_reviewed"

AgentInv ==
  /\ AgentTypeOK /\ ReceiptsFit
  /\ \A j \in Jobs : WorkFits(work[j])
  /\ \A c \in challenges : Fit(c.review, c.run)
  /\ ChallengeFirst /\ AdjudicationsCount /\ DisagreementQuarantines
-----------------------------------------------------------------------------
(* Types.                                                                  *)

\* What kinds of open transactions there are.
LEMMA WorkKinds ==
  ASSUME NEW w \in Decided \cup {NoWork}
  PROVE  /\ w # NoWork <=> w.op \in {"withdraw", "challenge", "adjudicate"}
         /\ w = NoWork <=> w.op = "none"
         /\ w # NoWork => /\ w.review \in Submissions /\ w.event \in AgentEvents
                          /\ w.sequence \in Nat /\ w.phase \in {"decided", "appended"}
         /\ w.op = "withdraw" => w.event \in {"quarantined", "revoked"}
         /\ w.op = "challenge" => w.event = "challenged" /\ w.row \in Challenge
         /\ w.op = "adjudicate" => w.event \in Outcomes /\ w.row \in Adjudication
  BY DEF Decided, NoWork, AgentEvents, AgentStates, Outcomes

\* An open transaction that takes its number stays one of its kind.
LEMMA NumberedWork ==
  ASSUME NEW w \in Decided, NEW n \in Nat
  PROVE  LET v == [w EXCEPT !.phase = "appended", !.sequence = n]
         IN /\ v \in Decided /\ v.op = w.op /\ v.review = w.review /\ v.event = w.event
            /\ v.phase = "appended" /\ v.sequence = n
            /\ w.op # "withdraw" => v.row = w.row
<1> DEFINE v == [w EXCEPT !.phase = "appended", !.sequence = n]
<1>1. CASE w \in [op : {"withdraw"}, review : Submissions, event : {"quarantined", "revoked"},
                  phase : {"decided", "appended"}, sequence : Nat]
  BY <1>1 DEF Decided
<1>2. CASE w \in [op : {"challenge"}, review : Submissions, event : {"challenged"},
                  phase : {"decided", "appended"}, sequence : Nat, row : Challenge]
  BY <1>2 DEF Decided
<1>3. CASE w \in [op : {"adjudicate"}, review : Submissions, event : Outcomes,
                  phase : {"decided", "appended"}, sequence : Nat, row : Adjudication]
  BY <1>3 DEF Decided
<1> QED BY <1>1, <1>2, <1>3 DEF Decided

\* Every step keeps the types; that events are only about what is stored rests on
\* what open transactions know.
LEMMA AgentTypeStep ==
  ASSUME AgentTypeOK, \A j \in Jobs : WorkFits(work[j]), [AgentNext]_agentVars
  PROVE  AgentTypeOK'
<1> USE DEF AgentTypeOK
<1>1. ASSUME NEW s \in Submissions, NEW creator \in Creators, NEW eligible \in BOOLEAN,
             StoreSubmission(s, creator, eligible)
      PROVE AgentTypeOK'
  <2>1. [stored |-> TRUE, creator |-> creator, eligible |-> eligible] \in Submission
    BY CreatorsAssumption DEF Submission
  <2> QED BY <1>1, <2>1 DEF StoreSubmission, NotSubmitted
<1>2. ASSUME NEW j \in Jobs, NEW s \in Submissions, NEW run \in AgentRuns,
             NEW report \in AgentReports, RunChallenger(j, s, run, report)
      PROVE AgentTypeOK'
  BY <1>2 DEF RunChallenger, Receipt
<1>3. ASSUME NEW j \in Jobs, BeginChallenge(j) PROVE AgentTypeOK'
  <2>1. receipt[j] \in Receipt
    BY <1>3 DEF BeginChallenge
  <2>2. [review |-> receipt[j].review, run |-> receipt[j].run, report |-> receipt[j].report]
          \in Challenge
    BY <2>1 DEF Receipt, Challenge
  <2>3. [op |-> "challenge", review |-> receipt[j].review, event |-> "challenged",
         phase |-> "decided", sequence |-> 0,
         row |-> [review |-> receipt[j].review, run |-> receipt[j].run,
                  report |-> receipt[j].report]] \in Decided
    BY <2>1, <2>2 DEF Receipt, Decided
  <2> QED BY <1>3, <2>3 DEF BeginChallenge
<1>4. ASSUME NEW j \in Jobs, NEW c \in challenges, NEW run \in AgentRuns,
             NEW dispositions \in [c.report.findings -> Dispositions],
             BeginAdjudication(j, c, run, dispositions)
      PROVE AgentTypeOK'
  <2>1. c \in Challenge /\ c.report \in AgentReports /\ c.report.findings \subseteq FindingKinds
    BY ReportsAssumption DEF Challenge, ValidReports
  <2>2. OutcomeOf(c.report, dispositions) \in Outcomes
    BY DEF OutcomeOf, Outcomes
  <2>3. dispositions \in UNION {[F -> Dispositions] : F \in SUBSET FindingKinds}
    BY <2>1
  <2>4. [review |-> c.review, run |-> run, dispositions |-> dispositions,
         outcome |-> OutcomeOf(c.report, dispositions)] \in Adjudication
    BY <2>1, <2>2, <2>3 DEF Adjudication, Challenge
  <2>5. [op |-> "adjudicate", review |-> c.review,
         event |-> OutcomeOf(c.report, dispositions), phase |-> "decided", sequence |-> 0,
         row |-> [review |-> c.review, run |-> run, dispositions |-> dispositions,
                  outcome |-> OutcomeOf(c.report, dispositions)]] \in Decided
    BY <2>1, <2>2, <2>4 DEF Decided, Challenge
  <2> QED BY <1>4, <2>5 DEF BeginAdjudication
<1>5. ASSUME NEW j \in Jobs, NEW s \in Submissions, NEW event \in {"quarantined", "revoked"},
             BeginWithdrawal(j, s, event)
      PROVE AgentTypeOK'
  <2>1. [op |-> "withdraw", review |-> s, event |-> event, phase |-> "decided",
         sequence |-> 0] \in Decided
    BY DEF Decided
  <2> QED BY <1>5, <2>1 DEF BeginWithdrawal
<1>6. ASSUME NEW j \in Jobs, AppendEvent(j) PROVE AgentTypeOK'
  <2>1. work[j] \in Decided /\ work[j].review \in Submissions
    BY <1>6, WorkKinds DEF AppendEvent
  <2> DEFINE n == Len(agentLifecycle[work[j].review]) + 1
  <2>2. n \in Nat
    BY <2>1
  <2>3. work' = [work EXCEPT ![j] = [work[j] EXCEPT !.phase = "appended", !.sequence = n]]
    BY <1>6 DEF AppendEvent
  <2>4. [work[j] EXCEPT !.phase = "appended", !.sequence = n] \in Decided
    BY <2>1, <2>2, NumberedWork
  <2> QED BY <1>6, <2>3, <2>4 DEF AppendEvent
<1>7. ASSUME NEW j \in Jobs, CommitWork(j) PROVE AgentTypeOK'
  <2> DEFINE s == work[j].review
  <2>1. work[j] \in Decided /\ s \in Submissions /\ work[j].event \in AgentEvents
    BY <1>7, WorkKinds DEF CommitWork
  <2>2. submission[s].stored
    BY <1>7 DEF CommitWork, WorkFits
  <2>3. challenges' \subseteq Challenge
    BY <1>7, WorkKinds DEF CommitWork
  <2>4. adjudications' \subseteq Adjudication
    BY <1>7, WorkKinds DEF CommitWork
  <2>5. agentLifecycle' = [agentLifecycle EXCEPT ![s] = Append(agentLifecycle[s], work[j].event)]
    BY <1>7 DEF CommitWork
  <2>6. agentLifecycle' \in [Submissions -> Seq(AgentEvents)]
    BY <2>1, <2>5
  <2>7. \A t \in Submissions : agentLifecycle'[t] # <<>> => submission[t].stored
    BY <2>1, <2>2, <2>5
  <2> QED BY <1>7, <2>3, <2>4, <2>6, <2>7 DEF CommitWork
<1>8. ASSUME NEW j \in Jobs, AbortWork(j) \/ RestartJob(j) PROVE AgentTypeOK'
  BY <1>8 DEF AbortWork, RestartJob
<1>9. CASE UNCHANGED agentVars
  BY <1>9 DEF agentVars
<1> QED BY <1>1, <1>2, <1>3, <1>4, <1>5, <1>6, <1>7, <1>8, <1>9 DEF AgentNext
-----------------------------------------------------------------------------
(* What no step changes.                                                   *)

\* Submissions are immutable, challenges and adjudications stay, and only a
\* commit adds to them and to the lifecycles.
LEMMA RecordsStay ==
  ASSUME AgentTypeOK, [AgentNext]_agentVars
  PROVE  /\ \A s \in Submissions : submission[s].stored => submission'[s] = submission[s]
         /\ challenges \subseteq challenges' /\ adjudications \subseteq adjudications'
         /\ \/ /\ agentLifecycle' = agentLifecycle
               /\ challenges' = challenges /\ adjudications' = adjudications
            \/ \E j \in Jobs : CommitWork(j)
<1>1. \A s \in Submissions : submission[s].stored => submission'[s] = submission[s]
  <2>1. ASSUME NEW s \in Submissions, NEW creator \in Creators, NEW eligible \in BOOLEAN,
               StoreSubmission(s, creator, eligible)
        PROVE \A r \in Submissions : submission[r].stored => submission'[r] = submission[r]
    BY <2>1 DEF StoreSubmission, NotSubmitted, AgentTypeOK
  <2>2. UNCHANGED submission \/ \E s \in Submissions, creator \in Creators, eligible \in BOOLEAN :
                                   StoreSubmission(s, creator, eligible)
    BY DEF AgentNext, agentVars, RunChallenger, BeginChallenge, BeginAdjudication,
           BeginWithdrawal, AppendEvent, CommitWork, AbortWork, RestartJob
  <2> QED BY <2>1, <2>2
<1>2. \/ /\ agentLifecycle' = agentLifecycle
         /\ challenges' = challenges /\ adjudications' = adjudications
      \/ \E j \in Jobs : CommitWork(j)
  <2>1. CASE UNCHANGED agentVars
    BY <2>1 DEF agentVars
  <2>2. ASSUME NEW s \in Submissions, NEW creator \in Creators, NEW eligible \in BOOLEAN,
               StoreSubmission(s, creator, eligible)
        PROVE agentLifecycle' = agentLifecycle /\ challenges' = challenges
              /\ adjudications' = adjudications
    BY <2>2 DEF StoreSubmission
  <2>3. ASSUME NEW j \in Jobs,
               \/ \E s \in Submissions, run \in AgentRuns, report \in AgentReports :
                    RunChallenger(j, s, run, report)
               \/ BeginChallenge(j)
               \/ \E c \in challenges, run \in AgentRuns :
                    \E dispositions \in [c.report.findings -> Dispositions] :
                      BeginAdjudication(j, c, run, dispositions)
               \/ \E s \in Submissions, event \in {"quarantined", "revoked"} :
                    BeginWithdrawal(j, s, event)
               \/ AppendEvent(j) \/ AbortWork(j) \/ RestartJob(j)
        PROVE agentLifecycle' = agentLifecycle /\ challenges' = challenges
              /\ adjudications' = adjudications
    BY <2>3 DEF RunChallenger, BeginChallenge, BeginAdjudication, BeginWithdrawal, AppendEvent,
                AbortWork, RestartJob
  <2> QED BY <2>1, <2>2, <2>3 DEF AgentNext
<1> QED BY <1>1, <1>2 DEF CommitWork

\* A run that fits goes on to do so.
LEMMA FitStays ==
  ASSUME AgentTypeOK, [AgentNext]_agentVars, NEW s \in Submissions, NEW run, Fit(s, run)
  PROVE  Fit(s, run)'
  BY RecordsStay DEF Fit

\* So does what rests on a challenge.
LEMMA RestStays ==
  ASSUME AgentTypeOK, [AgentNext]_agentVars, NEW a \in Adjudication,
         submission[a.review].stored, RestsOnChallenge(a)
  PROVE  RestsOnChallenge(a)'
<1>1. a.review \in Submissions
  BY DEF Adjudication
<1> QED BY <1>1, RecordsStay DEF RestsOnChallenge

\* What a commit does to the lifecycles.
LEMMA CommitEffect ==
  ASSUME AgentTypeOK, NEW j \in Jobs, WorkFits(work[j]), CommitWork(j),
         NEW s, s = work[j].review
  PROVE  /\ s \in Submissions /\ submission[s].stored /\ submission' = submission
         /\ work[j].event \in AgentEvents
         /\ work[j].event \in AgentAllowed[AgentState(s)]
         /\ Len(agentLifecycle[s]) \in Nat
         /\ Len(agentLifecycle'[s]) = Len(agentLifecycle[s]) + 1
         /\ DOMAIN agentLifecycle'[s] = DOMAIN agentLifecycle[s] \cup {Len(agentLifecycle[s]) + 1}
         /\ DOMAIN agentLifecycle[s] = 1..Len(agentLifecycle[s])
         /\ agentLifecycle'[s] # <<>>
         /\ AgentState(s)' = work[j].event
         /\ \A n \in 1..Len(agentLifecycle[s]) : agentLifecycle'[s][n] = agentLifecycle[s][n]
         /\ agentLifecycle'[s][Len(agentLifecycle[s]) + 1] = work[j].event
         /\ \A t \in Submissions : t # s =>
              agentLifecycle'[t] = agentLifecycle[t] /\ AgentState(t)' = AgentState(t)
<1>1. s \in Submissions /\ work[j].event \in AgentEvents
  BY WorkKinds DEF AgentTypeOK, CommitWork
<1>2. agentLifecycle[s] \in Seq(AgentEvents)
  BY <1>1 DEF AgentTypeOK
<1>3. agentLifecycle'[s] = Append(agentLifecycle[s], work[j].event)
  BY <1>1 DEF CommitWork, AgentTypeOK
<1>4. work[j].event \in AgentAllowed[AgentState(s)] /\ submission[s].stored
  BY DEF CommitWork, FirstWithSequence, WorkFits
<1>5. /\ Len(agentLifecycle[s]) \in Nat
      /\ Len(agentLifecycle'[s]) = Len(agentLifecycle[s]) + 1
      /\ agentLifecycle'[s] # <<>>
      /\ DOMAIN agentLifecycle[s] = 1..Len(agentLifecycle[s])
      /\ DOMAIN agentLifecycle'[s] = 1..(Len(agentLifecycle[s]) + 1)
      /\ \A n \in 1..Len(agentLifecycle[s]) : agentLifecycle'[s][n] = agentLifecycle[s][n]
      /\ agentLifecycle'[s][Len(agentLifecycle[s]) + 1] = work[j].event
  BY <1>1, <1>2, <1>3
<1>6. AgentState(s)' = work[j].event
  BY <1>5 DEF AgentState
<1>7. \A t \in Submissions : t # s => agentLifecycle'[t] = agentLifecycle[t]
  BY DEF CommitWork, AgentTypeOK
<1>8. \A t \in Submissions : t # s => AgentState(t)' = AgentState(t)
  BY <1>7 DEF AgentState
<1>9. submission' = submission
  BY DEF CommitWork
<1>10. 1..(Len(agentLifecycle[s]) + 1) = (1..Len(agentLifecycle[s])) \cup {Len(agentLifecycle[s]) + 1}
  BY <1>5
<1> QED BY <1>1, <1>4, <1>5, <1>6, <1>7, <1>8, <1>9, <1>10

\* What is adjudicated as cross-reviewed was challenged with a pass and nothing
\* but notes: every finding was accepted, and only a note may be.
LEMMA OutcomeClean ==
  ASSUME NEW report \in AgentReports, NEW dispositions \in [report.findings -> Dispositions],
         Acceptable(report, dispositions), OutcomeOf(report, dispositions) = "cross_reviewed"
  PROVE  report.verdict = "PASS" /\ report.findings \subseteq {"note"}
<1>1. /\ \A f \in report.findings : dispositions[f] \notin {"quarantined", "corrected"}
      /\ report.verdict \notin {"QUARANTINE", "CHANGES_REQUIRED"}
  BY DEF OutcomeOf
<1>2. report.verdict \in Verdicts
  BY ReportsAssumption DEF ValidReports
<1>3. \A f \in report.findings : dispositions[f] = "accepted"
  BY <1>1 DEF Dispositions
<1> QED BY <1>1, <1>2, <1>3 DEF Acceptable, Verdicts

\* From which states an event is allowed.
LEMMA AllowedFrom ==
  ASSUME AgentTypeOK, NEW s \in Submissions, NEW event \in AgentAllowed[AgentState(s)]
  PROVE  /\ AgentState(s) = "draft" <=> agentLifecycle[s] = <<>>
         /\ event = "challenged" => agentLifecycle[s] = <<>>
         /\ event \in Outcomes \ {"quarantined"} => AgentState(s) \in {"draft", "challenged"}
         /\ event \in {"quarantined", "revoked"} \/ AgentState(s) \in {"draft", "challenged"}
         /\ AgentState(s) \in {"quarantined", "revoked"} => event = "revoked"
<1>1. agentLifecycle[s] \in Seq(AgentEvents)
  BY DEF AgentTypeOK
<1>2. agentLifecycle[s] # <<>> => AgentState(s) \in AgentEvents
  BY <1>1 DEF AgentState
<1>3. agentLifecycle[s] = <<>> => AgentState(s) = "draft"
  BY DEF AgentState
<1>4. AgentState(s) \in AgentStates
  BY <1>2, <1>3 DEF AgentEvents, AgentStates
<1> QED BY <1>2, <1>3, <1>4 DEF AgentAllowed, AgentEvents, AgentStates, Outcomes

\* What a transaction has decided stays true whatever the others do: a commit
\* about the same review makes its number too small.
LEMMA DecisionStays ==
  ASSUME AgentTypeOK, \A j \in Jobs : WorkFits(work[j]), [AgentNext]_agentVars,
         NEW w \in Decided \cup {NoWork}, WorkFits(w)
  PROVE  WorkFits(w)'
<1>1. CASE w = NoWork
  BY <1>1, WorkKinds DEF WorkFits
<1>2. CASE w # NoWork
  <2>1. w.review \in Submissions /\ submission[w.review].stored /\ w.sequence \in Nat
    BY <1>2, WorkKinds DEF WorkFits
  <2>2. submission[w.review].stored'
    BY <2>1, RecordsStay
  <2>3. w.op = "challenge" => w.row.review = w.review /\ Fit(w.review, w.row.run)'
    BY <2>1, FitStays DEF WorkFits
  <2>4. ASSUME w.op = "adjudicate"
        PROVE w.row.review = w.review /\ w.row.outcome = w.event /\ RestsOnChallenge(w.row)'
    <3>1. w.row \in Adjudication
      BY <2>4, WorkKinds
    <3>2. w.row.review = w.review /\ w.row.outcome = w.event /\ RestsOnChallenge(w.row)
      BY <2>4 DEF WorkFits
    <3> QED BY <3>1, <3>2, <2>1, RestStays
  <2>5. ASSUME w.phase = "appended"
        PROVE /\ w.sequence <= Len(agentLifecycle'[w.review]) + 1
              /\ w.sequence = Len(agentLifecycle'[w.review]) + 1
                   => w.event \in AgentAllowed[AgentState(w.review)']
    <3>1. /\ w.sequence <= Len(agentLifecycle[w.review]) + 1
          /\ w.sequence = Len(agentLifecycle[w.review]) + 1
               => w.event \in AgentAllowed[AgentState(w.review)]
      BY <1>2, <2>5 DEF WorkFits
    <3>2. CASE agentLifecycle' = agentLifecycle
      BY <3>1, <3>2 DEF AgentState
    <3>3. ASSUME NEW k \in Jobs, CommitWork(k), work[k].review # w.review
          PROVE agentLifecycle'[w.review] = agentLifecycle[w.review]
                /\ AgentState(w.review)' = AgentState(w.review)
      BY <2>1, <3>3, CommitEffect
    <3>4. ASSUME NEW k \in Jobs, CommitWork(k), work[k].review = w.review
          PROVE /\ Len(agentLifecycle[w.review]) \in Nat
                /\ Len(agentLifecycle'[w.review]) = Len(agentLifecycle[w.review]) + 1
      BY <2>1, <3>4, CommitEffect
    <3>5. ASSUME NEW k \in Jobs, CommitWork(k), work[k].review = w.review
          PROVE w.sequence < Len(agentLifecycle'[w.review]) + 1
      BY <2>1, <3>1, <3>4, <3>5
    <3> QED BY <2>1, <3>1, <3>2, <3>3, <3>4, <3>5, RecordsStay
  <2> QED BY <1>2, <2>2, <2>3, <2>4, <2>5 DEF WorkFits
<1> QED BY <1>1, <1>2

\* Every open transaction rests on what is stored: what it decides when it
\* begins, what it takes as its number, and what it keeps meanwhile.
LEMMA DecisionsFit ==
  ASSUME AgentTypeOK, ReceiptsFit, \A j \in Jobs : WorkFits(work[j]),
         \A c \in challenges : Fit(c.review, c.run), [AgentNext]_agentVars,
         NEW i \in Jobs, NEW w, w = work'[i]
  PROVE  WorkFits(w)'
<1>1. CASE w = NoWork
  BY <1>1 DEF WorkFits, NoWork
<1>2. CASE w = work[i]
  BY <1>2, DecisionStays DEF AgentTypeOK
<1>3. ASSUME BeginChallenge(i) PROVE WorkFits(w)'
  <2>1. /\ receipt[i] \in Receipt /\ Fit(receipt[i].review, receipt[i].run)
        /\ submission' = submission
    BY <1>3 DEF BeginChallenge, AgentTypeOK, ReceiptsFit
  <2>2. w = [op |-> "challenge", review |-> receipt[i].review, event |-> "challenged",
             phase |-> "decided", sequence |-> 0,
             row |-> [review |-> receipt[i].review, run |-> receipt[i].run,
                      report |-> receipt[i].report]]
    BY <1>3 DEF BeginChallenge, AgentTypeOK
  <2>3. /\ w.op = "challenge" /\ w.phase = "decided" /\ w.row.review = w.review
        /\ w.review = receipt[i].review /\ w.row.run = receipt[i].run
    BY <2>2
  <2>4. submission'[w.review].stored /\ Fit(w.review, w.row.run)'
    BY <2>1, <2>3 DEF Fit
  <2> QED BY <2>3, <2>4 DEF WorkFits
<1>4. ASSUME NEW c \in challenges, NEW run \in AgentRuns,
             NEW dispositions \in [c.report.findings -> Dispositions],
             BeginAdjudication(i, c, run, dispositions)
      PROVE WorkFits(w)'
  <2> DEFINE outcome == OutcomeOf(c.report, dispositions)
  <2>1. /\ c \in Challenge /\ c.report \in AgentReports /\ submission[c.review].stored
        /\ submission' = submission /\ challenges' = challenges
        /\ run \notin {submission[c.review].creator, c.run}
        /\ Acceptable(c.report, dispositions)
    BY <1>4 DEF BeginAdjudication, AgentTypeOK, Challenge, Fit
  <2>2. w = [op |-> "adjudicate", review |-> c.review, event |-> outcome,
             phase |-> "decided", sequence |-> 0,
             row |-> [review |-> c.review, run |-> run, dispositions |-> dispositions,
                      outcome |-> outcome]]
    BY <1>4 DEF BeginAdjudication, AgentTypeOK
  <2>3. outcome = "cross_reviewed" =>
          c.report.verdict = "PASS" /\ c.report.findings \subseteq {"note"}
    BY <2>1, OutcomeClean
  <2> HIDE DEF outcome
  <2>4. /\ w.op = "adjudicate" /\ w.phase = "decided" /\ w.review = c.review
        /\ w.row.review = c.review /\ w.row.outcome = outcome /\ w.event = outcome
        /\ w.row.run = run
    BY <2>2
  <2>5. RestsOnChallenge(w.row)' /\ submission'[w.review].stored
    BY <2>1, <2>3, <2>4 DEF RestsOnChallenge
  <2> QED BY <2>4, <2>5 DEF WorkFits
<1>5. ASSUME NEW s \in Submissions, NEW event \in {"quarantined", "revoked"},
             BeginWithdrawal(i, s, event)
      PROVE WorkFits(w)'
  <2>1. w = [op |-> "withdraw", review |-> s, event |-> event, phase |-> "decided",
             sequence |-> 0]
    BY <1>5 DEF BeginWithdrawal, AgentTypeOK
  <2> QED BY <1>5, <2>1 DEF BeginWithdrawal, WorkFits
<1>6. ASSUME AppendEvent(i) PROVE WorkFits(w)'
  <2> DEFINE n == Len(agentLifecycle[work[i].review]) + 1
  <2>1. /\ work[i] \in Decided /\ work[i] # NoWork /\ work[i].review \in Submissions
        /\ WorkFits(work[i])
    BY <1>6, WorkKinds DEF AppendEvent, AgentTypeOK
  <2>2. n \in Nat
    BY <2>1 DEF AgentTypeOK
  <2> DEFINE v == [work[i] EXCEPT !.phase = "appended", !.sequence = n]
  <2>3. w = v
    BY <1>6 DEF AppendEvent, AgentTypeOK
  <2>4. /\ submission' = submission /\ agentLifecycle' = agentLifecycle
        /\ challenges' = challenges
        /\ work[i].event \in AgentAllowed[AgentState(work[i].review)]
    BY <1>6 DEF AppendEvent
  <2>5. /\ w \in Decided /\ w.op = work[i].op /\ w.review = work[i].review
        /\ w.event = work[i].event /\ w.phase = "appended" /\ w.sequence = n
        /\ work[i].op # "withdraw" => w.row = work[i].row
    <3> HIDE DEF n
    <3>1. /\ v \in Decided /\ v.op = work[i].op /\ v.review = work[i].review
          /\ v.event = work[i].event /\ v.phase = "appended" /\ v.sequence = n
          /\ work[i].op # "withdraw" => v.row = work[i].row
      BY <2>1, <2>2, NumberedWork, Zenon
    <3> HIDE DEF v
    <3> QED BY <2>3, <3>1
  <2>6. /\ w.sequence <= Len(agentLifecycle'[w.review]) + 1
        /\ w.event \in AgentAllowed[AgentState(w.review)']
    BY <2>2, <2>4, <2>5 DEF AgentState
  <2>7. w.op = "challenge" => w.row.review = w.review /\ Fit(w.review, w.row.run)'
    BY <2>1, <2>4, <2>5 DEF WorkFits, Fit
  <2>8. w.op = "adjudicate" =>
          w.row.review = w.review /\ w.row.outcome = w.event /\ RestsOnChallenge(w.row)'
    BY <2>1, <2>4, <2>5 DEF WorkFits, RestsOnChallenge
  <2>9. submission'[w.review].stored
    BY <2>1, <2>4, <2>5 DEF WorkFits
  <2> QED BY <2>6, <2>7, <2>8, <2>9 DEF WorkFits
<1>7. ASSUME NEW j \in Jobs,
             \/ \E s \in Submissions, run \in AgentRuns, report \in AgentReports :
                  RunChallenger(j, s, run, report)
             \/ CommitWork(j) \/ AbortWork(j) \/ RestartJob(j)
      PROVE w = work[i] \/ w = NoWork
  BY <1>7 DEF RunChallenger, CommitWork, AbortWork, RestartJob, AgentTypeOK
<1>8. ASSUME NEW j \in Jobs, j # i,
             \/ BeginChallenge(j)
             \/ \E c \in challenges, run \in AgentRuns :
                  \E dispositions \in [c.report.findings -> Dispositions] :
                    BeginAdjudication(j, c, run, dispositions)
             \/ \E s \in Submissions, event \in {"quarantined", "revoked"} :
                  BeginWithdrawal(j, s, event)
             \/ AppendEvent(j)
      PROVE w = work[i]
  BY <1>8 DEF BeginChallenge, BeginAdjudication, BeginWithdrawal, AppendEvent, AgentTypeOK
<1>9. ASSUME NEW s \in Submissions, NEW creator \in Creators, NEW eligible \in BOOLEAN,
             StoreSubmission(s, creator, eligible)
      PROVE w = work[i]
  BY <1>9 DEF StoreSubmission
<1>10. CASE UNCHANGED agentVars
  BY <1>2, <1>10 DEF agentVars
<1> QED BY <1>1, <1>2, <1>3, <1>4, <1>5, <1>6, <1>7, <1>8, <1>9, <1>10 DEF AgentNext
-----------------------------------------------------------------------------
(* The invariant.                                                          *)

\* Receipts are of independent runs on what is eligible.
LEMMA ReceiptsStep ==
  ASSUME AgentTypeOK, AgentTypeOK', ReceiptsFit, [AgentNext]_agentVars
  PROVE  ReceiptsFit'
<1>1. \A k \in Jobs : receipt'[k] = receipt[k] \/ receipt'[k] = NoReceipt
                      \/ Fit(receipt'[k].review, receipt'[k].run)
  <2>1. ASSUME NEW j \in Jobs, NEW s \in Submissions, NEW run \in AgentRuns,
               NEW report \in AgentReports, RunChallenger(j, s, run, report), NEW k \in Jobs
        PROVE receipt'[k] = receipt[k] \/ Fit(receipt'[k].review, receipt'[k].run)
    BY <2>1 DEF RunChallenger, Fit, AgentTypeOK
  <2>2. ASSUME NEW j \in Jobs, BeginChallenge(j) \/ RestartJob(j), NEW k \in Jobs
        PROVE receipt'[k] = receipt[k] \/ receipt'[k] = NoReceipt
    BY <2>2 DEF BeginChallenge, RestartJob, AgentTypeOK
  <2>3. ASSUME NEW j \in Jobs,
               \/ \E c \in challenges, run \in AgentRuns :
                    \E dispositions \in [c.report.findings -> Dispositions] :
                      BeginAdjudication(j, c, run, dispositions)
               \/ \E s \in Submissions, event \in {"quarantined", "revoked"} :
                    BeginWithdrawal(j, s, event)
               \/ AppendEvent(j) \/ CommitWork(j) \/ AbortWork(j)
        PROVE receipt' = receipt
    BY <2>3 DEF BeginAdjudication, BeginWithdrawal, AppendEvent, CommitWork, AbortWork
  <2>4. ASSUME NEW s \in Submissions, NEW creator \in Creators, NEW eligible \in BOOLEAN,
               StoreSubmission(s, creator, eligible)
        PROVE receipt' = receipt
    BY <2>4 DEF StoreSubmission
  <2>5. CASE UNCHANGED agentVars
    BY <2>5 DEF agentVars
  <2> QED BY <2>1, <2>2, <2>3, <2>4, <2>5 DEF AgentNext
<1>2. ASSUME NEW j \in Jobs, NEW r, r = receipt'[j], r # NoReceipt
      PROVE Fit(r.review, r.run)'
  <2>1. r.review \in Submissions
    BY <1>2 DEF AgentTypeOK, Receipt
  <2>2. Fit(r.review, r.run)
    BY <1>1, <1>2 DEF ReceiptsFit
  <2> QED BY <2>1, <2>2, FitStays
<1> QED BY <1>2 DEF ReceiptsFit, Fit

\* Challenges are by independent runs on what is eligible.
LEMMA ChallengesStep ==
  ASSUME AgentTypeOK, \A j \in Jobs : WorkFits(work[j]),
         \A c \in challenges : Fit(c.review, c.run), [AgentNext]_agentVars,
         NEW c \in challenges'
  PROVE  Fit(c.review, c.run)'
<1>1. c \in challenges \/ \E j \in Jobs : CommitWork(j) /\ work[j].op = "challenge" /\ c = work[j].row
  BY RecordsStay DEF CommitWork
<1>2. c.review \in Submissions /\ Fit(c.review, c.run)
  BY <1>1, WorkKinds DEF AgentTypeOK, WorkFits, Challenge
<1> QED BY <1>2, FitStays

\* The only challenge comes first: it is committed on the empty lifecycle, and no
\* later event is a challenge.
LEMMA ChallengeFirstStep ==
  ASSUME AgentTypeOK, \A j \in Jobs : WorkFits(work[j]), ChallengeFirst, [AgentNext]_agentVars
  PROVE  ChallengeFirst'
<1>1. CASE agentLifecycle' = agentLifecycle /\ challenges' = challenges
  BY <1>1 DEF ChallengeFirst
<1>2. ASSUME NEW j \in Jobs, CommitWork(j) PROVE ChallengeFirst'
  <2>1. PICK s : s = work[j].review
    OBVIOUS
  <2>2. /\ s \in Submissions /\ submission[s].stored /\ submission' = submission
        /\ work[j].event \in AgentEvents
        /\ work[j].event \in AgentAllowed[AgentState(s)]
        /\ Len(agentLifecycle[s]) \in Nat
        /\ DOMAIN agentLifecycle'[s] = DOMAIN agentLifecycle[s] \cup {Len(agentLifecycle[s]) + 1}
        /\ DOMAIN agentLifecycle[s] = 1..Len(agentLifecycle[s])
        /\ agentLifecycle'[s] # <<>>
        /\ \A n \in DOMAIN agentLifecycle[s] : agentLifecycle'[s][n] = agentLifecycle[s][n]
        /\ agentLifecycle'[s][Len(agentLifecycle[s]) + 1] = work[j].event
        /\ \A t \in Submissions : t # s => agentLifecycle'[t] = agentLifecycle[t]
    <3>1. WorkFits(work[j])
      OBVIOUS
    <3>2. \A t \in Submissions : t # s => agentLifecycle'[t] = agentLifecycle[t]
      BY <1>2, <2>1, <3>1, CommitEffect
    <3>3. \A n \in 1..Len(agentLifecycle[s]) : agentLifecycle'[s][n] = agentLifecycle[s][n]
      BY <1>2, <2>1, <3>1, CommitEffect
    <3>4. /\ DOMAIN agentLifecycle'[s] = DOMAIN agentLifecycle[s] \cup {Len(agentLifecycle[s]) + 1}
          /\ DOMAIN agentLifecycle[s] = 1..Len(agentLifecycle[s])
      BY <1>2, <2>1, <3>1, CommitEffect
    <3>5. /\ s \in Submissions /\ submission[s].stored /\ submission' = submission
          /\ work[j].event \in AgentEvents
          /\ work[j].event \in AgentAllowed[AgentState(s)]
          /\ Len(agentLifecycle[s]) \in Nat
          /\ agentLifecycle'[s] # <<>>
          /\ agentLifecycle'[s][Len(agentLifecycle[s]) + 1] = work[j].event
      BY <1>2, <2>1, <3>1, CommitEffect
    <3> QED BY <3>2, <3>3, <3>4, <3>5
  <2> DEFINE old == agentLifecycle[s]
             new == agentLifecycle'[s]
  <2>3. work[j].event = "challenged" => old = <<>>
    BY <2>2, AllowedFrom
  <2>4. old = <<>> <=> Len(old) = 0
    BY <2>2 DEF AgentTypeOK
  <2>5. /\ work[j].op = "challenge" <=> work[j].event = "challenged"
        /\ work[j].op = "challenge" => work[j].row.review = s
    BY <1>2, <2>1, WorkKinds DEF WorkFits, AgentTypeOK, CommitWork, Outcomes
  <2>6. challenges' = IF work[j].op = "challenge" THEN challenges \cup {work[j].row}
                      ELSE challenges
    BY <1>2 DEF CommitWork
  <2>7. \A t \in Submissions : t # s =>
          \A c : c.review = t => (c \in challenges' <=> c \in challenges)
    BY <2>5, <2>6
  <2>8. ASSUME NEW t \in Submissions, t # s
        PROVE /\ \A c, d \in challenges' : c.review = t /\ d.review = t => c = d
              /\ (\E c \in challenges' : c.review = t)
                   <=> agentLifecycle'[t] # <<>> /\ agentLifecycle'[t][1] = "challenged"
              /\ \A n \in DOMAIN agentLifecycle'[t] :
                   agentLifecycle'[t][n] = "challenged" => n = 1
    BY <2>2, <2>7, <2>8 DEF ChallengeFirst
  <2>9. CASE work[j].op = "challenge"
    <3>1. old = <<>> /\ Len(old) = 0 /\ DOMAIN old = {} /\ DOMAIN new = {1} /\ new[1] = "challenged"
      BY <2>2, <2>3, <2>4, <2>5, <2>9
    <3>2. ~ \E c \in challenges : c.review = s
      BY <2>2, <3>1 DEF ChallengeFirst
    <3>3. challenges' = challenges \cup {work[j].row} /\ work[j].row.review = s
      BY <2>5, <2>6, <2>9
    <3>4. /\ \A c, d \in challenges' : c.review = s /\ d.review = s => c = d
          /\ \E c \in challenges' : c.review = s
      BY <3>2, <3>3
    <3>5. \A n \in DOMAIN new : new[n] = "challenged" => n = 1
      BY <3>1
    <3> HIDE DEF old, new
    <3> QED BY <2>2, <2>8, <3>1, <3>4, <3>5 DEF ChallengeFirst, old, new
  <2>10. CASE work[j].op # "challenge"
    <3>1. challenges' = challenges /\ work[j].event # "challenged"
      BY <2>5, <2>6, <2>10
    <3>2. \A n \in DOMAIN new : new[n] = "challenged" => n \in DOMAIN old /\ old[n] = "challenged"
      BY <2>2, <3>1
    <3>3. new[1] = "challenged" <=> old # <<>> /\ old[1] = "challenged"
      BY <2>2, <2>4, <3>1
    <3>4. \A n \in DOMAIN new : new[n] = "challenged" => n = 1
      BY <2>2, <3>2 DEF ChallengeFirst
    <3> HIDE DEF old, new
    <3> QED BY <2>2, <2>8, <3>1, <3>3, <3>4 DEF ChallengeFirst, old, new
  <2> QED BY <2>9, <2>10
<1> QED BY <1>1, <1>2, RecordsStay

\* Adjudications rest on a challenge, end its wait, and are the only ones to
\* cross-review.
LEMMA AdjudicationsStep ==
  ASSUME AgentTypeOK, \A j \in Jobs : WorkFits(work[j]), AdjudicationsCount,
         \A c \in challenges : Fit(c.review, c.run), [AgentNext]_agentVars
  PROVE  AdjudicationsCount'
<1>1. ASSUME NEW a \in Adjudication, submission[a.review].stored, RestsOnChallenge(a)
      PROVE RestsOnChallenge(a)'
  BY <1>1, RestStays
<1>2. \A a \in adjudications : a \in Adjudication /\ a.review \in Submissions
                             /\ submission[a.review].stored /\ RestsOnChallenge(a)
  BY DEF AdjudicationsCount, RestsOnChallenge, Fit, AgentTypeOK, Adjudication
<1>3. CASE agentLifecycle' = agentLifecycle /\ adjudications' = adjudications
  <2>1. \A a \in adjudications' : RestsOnChallenge(a)'
    BY <1>1, <1>2, <1>3
  <2>2. \A a \in adjudications' : AgentState(a.review)' \notin {"draft", "challenged"}
    BY <1>3 DEF AdjudicationsCount, AgentState
  <2> QED BY <1>3, <2>1, <2>2 DEF AdjudicationsCount
<1>4. ASSUME NEW j \in Jobs, CommitWork(j) PROVE AdjudicationsCount'
  <2>1. PICK s : s = work[j].review
    OBVIOUS
  <2>2. WorkFits(work[j])
    OBVIOUS
  <2>3. /\ s \in Submissions /\ work[j].event \in AgentAllowed[AgentState(s)]
        /\ AgentState(s)' = work[j].event
    BY <1>4, <2>1, <2>2, CommitEffect
  <2>4. \A t \in Submissions : t # s =>
          agentLifecycle'[t] = agentLifecycle[t] /\ AgentState(t)' = AgentState(t)
    BY <1>4, <2>1, <2>2, CommitEffect
  <2>5. /\ Len(agentLifecycle[s]) \in Nat
        /\ DOMAIN agentLifecycle'[s] = DOMAIN agentLifecycle[s] \cup {Len(agentLifecycle[s]) + 1}
        /\ DOMAIN agentLifecycle[s] = 1..Len(agentLifecycle[s])
    BY <1>4, <2>1, <2>2, CommitEffect
  <2>6. \A n \in 1..Len(agentLifecycle[s]) : agentLifecycle'[s][n] = agentLifecycle[s][n]
    BY <1>4, <2>1, <2>2, CommitEffect
  <2>7. agentLifecycle'[s][Len(agentLifecycle[s]) + 1] = work[j].event
    BY <1>4, <2>1, <2>2, CommitEffect
  <2>8. \/ adjudications' = adjudications /\ work[j].op # "adjudicate"
        \/ /\ adjudications' = adjudications \cup {work[j].row} /\ work[j].op = "adjudicate"
           /\ work[j].row \in Adjudication /\ work[j].row.review = s
           /\ work[j].row.outcome = work[j].event /\ work[j].event \in Outcomes
           /\ RestsOnChallenge(work[j].row)
    BY <1>4, <2>1, <2>2, WorkKinds DEF CommitWork, WorkFits, AgentTypeOK
  <2>9. submission[s].stored
    BY <1>4, <2>1, <2>2, CommitEffect
  <2>10. ASSUME NEW a \in adjudications'
         PROVE RestsOnChallenge(a)' /\ AgentState(a.review)' \notin {"draft", "challenged"}
    <3>1. a \in Adjudication /\ submission[a.review].stored /\ RestsOnChallenge(a)
      BY <1>2, <2>8, <2>9
    <3>2. CASE a \in adjudications /\ a.review # s
      BY <1>1, <1>2, <2>4, <3>1, <3>2 DEF AdjudicationsCount
    <3>3. CASE a \in adjudications /\ a.review = s
      <4>1. AgentState(s) \notin {"draft", "challenged"}
        BY <3>3 DEF AdjudicationsCount
      <4>2. work[j].event \in {"quarantined", "revoked"}
        BY <2>3, <4>1, AllowedFrom
      <4> QED BY <1>1, <2>3, <3>1, <3>3, <4>2
    <3>4. CASE a \notin adjudications
      BY <1>1, <2>3, <2>8, <3>1, <3>4 DEF Outcomes
    <3> QED BY <3>2, <3>3, <3>4
  <2>11. ASSUME NEW t \in Submissions, NEW n \in Nat,
                n \in DOMAIN agentLifecycle'[t], agentLifecycle'[t][n] = "cross_reviewed"
         PROVE \E a \in adjudications' : a.review = t /\ a.outcome = "cross_reviewed"
    <3>1. CASE n \in DOMAIN agentLifecycle[t] /\ agentLifecycle[t][n] = "cross_reviewed"
      BY <2>8, <3>1 DEF AdjudicationsCount
    <3>2. CASE t = s /\ n = Len(agentLifecycle[s]) + 1
      <4>1. work[j].event = "cross_reviewed"
        BY <2>7, <2>11, <3>2
      <4>2. work[j].op = "adjudicate"
        BY <1>4, <4>1, WorkKinds DEF CommitWork, AgentTypeOK
      <4> QED BY <2>8, <3>2, <4>1, <4>2
    <3> QED BY <2>4, <2>5, <2>6, <2>11, <3>1, <3>2
  <2> QED BY <2>10, <2>11 DEF AdjudicationsCount
<1> QED BY <1>3, <1>4, RecordsStay

\* A second adjudication of a review can only quarantine it, and of what is
\* quarantined only a revocation follows.
LEMMA DisagreementStep ==
  ASSUME AgentTypeOK, \A j \in Jobs : WorkFits(work[j]), AdjudicationsCount,
         DisagreementQuarantines, [AgentNext]_agentVars
  PROVE  DisagreementQuarantines'
<1>1. CASE agentLifecycle' = agentLifecycle /\ adjudications' = adjudications
  BY <1>1 DEF DisagreementQuarantines, AgentState
<1>2. ASSUME NEW j \in Jobs, CommitWork(j),
             NEW a \in adjudications', NEW b \in adjudications', a.review = b.review, a # b
      PROVE AgentState(a.review)' \in {"quarantined", "revoked"}
  <2>1. PICK s : s = work[j].review
    OBVIOUS
  <2>2. WorkFits(work[j])
    OBVIOUS
  <2>3. /\ s \in Submissions /\ work[j].event \in AgentAllowed[AgentState(s)]
        /\ AgentState(s)' = work[j].event
    BY <1>2, <2>1, <2>2, CommitEffect
  <2>4. \A t \in Submissions : t # s => AgentState(t)' = AgentState(t)
    BY <1>2, <2>1, <2>2, CommitEffect
  <2>5. \A d \in adjudications' :
          d \in adjudications \/ (work[j].op = "adjudicate" /\ d = work[j].row /\ d.review = s)
    <3>1. \/ adjudications' = adjudications
          \/ work[j].op = "adjudicate" /\ adjudications' = adjudications \cup {work[j].row}
      BY <1>2 DEF CommitWork
    <3>2. work[j].op = "adjudicate" => work[j].row.review = s
      BY <2>1, <2>2 DEF WorkFits
    <3> QED BY <3>1, <3>2
  <2>6. \A d \in adjudications : d.review \in Submissions
    BY DEF AgentTypeOK, Adjudication
  <2>7. CASE a.review # s
    BY <1>2, <2>4, <2>5, <2>6, <2>7 DEF DisagreementQuarantines
  <2>8. CASE a.review = s
    <3>1. PICK d \in adjudications : d.review = s
      BY <1>2, <2>5, <2>8
    <3>2. AgentState(s) \notin {"draft", "challenged"}
      BY <3>1 DEF AdjudicationsCount
    <3>3. work[j].event \in {"quarantined", "revoked"}
      BY <2>3, <3>2, AllowedFrom
    <3> QED BY <2>3, <2>8, <3>3
  <2> QED BY <2>7, <2>8
<1> QED BY <1>1, <1>2, RecordsStay DEF DisagreementQuarantines

\* The invariant holds from the beginning.
LEMMA AgentInvInit == AgentInit => AgentInv
<1> SUFFICES ASSUME AgentInit PROVE AgentInv
  OBVIOUS
<1>1. AgentTypeOK
  BY DEF AgentInit, AgentTypeOK
<1>2. ReceiptsFit /\ \A c \in challenges : Fit(c.review, c.run)
  BY DEF AgentInit, ReceiptsFit
<1>3. \A j \in Jobs : WorkFits(work[j])
  BY DEF AgentInit, WorkFits, NoWork
<1>4. ChallengeFirst /\ AdjudicationsCount /\ DisagreementQuarantines
  BY DEF AgentInit, ChallengeFirst, AdjudicationsCount, DisagreementQuarantines
<1> QED BY <1>1, <1>2, <1>3, <1>4 DEF AgentInv

\* Every step keeps it.
LEMMA AgentInvStep ==
  ASSUME AgentInv, [AgentNext]_agentVars
  PROVE  AgentInv'
<1>1. /\ AgentTypeOK /\ ReceiptsFit /\ \A j \in Jobs : WorkFits(work[j])
      /\ \A c \in challenges : Fit(c.review, c.run)
      /\ ChallengeFirst /\ AdjudicationsCount /\ DisagreementQuarantines
  BY DEF AgentInv
<1>2. AgentTypeOK'
  BY <1>1, AgentTypeStep
<1>3. ReceiptsFit'
  BY <1>1, <1>2, ReceiptsStep
<1>4. \A j \in Jobs : \A w : w = work'[j] => WorkFits(w)'
  BY <1>1, DecisionsFit
<1>5. (\A j \in Jobs : WorkFits(work[j]))'
  BY <1>4 DEF WorkFits, Fit, RestsOnChallenge, AgentState
<1>6. (\A c \in challenges : Fit(c.review, c.run))'
  BY <1>1, ChallengesStep
<1>7. ChallengeFirst'
  BY <1>1, ChallengeFirstStep
<1>8. AdjudicationsCount'
  BY <1>1, AdjudicationsStep
<1>9. DisagreementQuarantines'
  BY <1>1, DisagreementStep
<1> QED BY <1>2, <1>3, <1>5, <1>6, <1>7, <1>8, <1>9 DEF AgentInv

\* So it is one.
LEMMA AgentInvariant == AgentSpec => []AgentInv
<1>1. AgentInit => AgentInv
  BY AgentInvInit
<1>2. AgentInv /\ [AgentNext]_agentVars => AgentInv'
  BY AgentInvStep
<1> QED BY <1>1, <1>2, PTL DEF AgentSpec
-----------------------------------------------------------------------------
(* What it implies.                                                        *)

\* However many processes hold receipts of their own and race from the draft,
\* record_challenge leaves one challenge of a review, and its lifecycle says
\* "challenged" exactly when there is one.
THEOREM OneChallenge == AgentSpec => []ChallengedOnce
<1>1. ASSUME AgentInv PROVE ChallengedOnce
  <2>1. ChallengeFirst
    BY <1>1 DEF AgentInv
  <2>2. ASSUME NEW s \in Submissions
        PROVE /\ \A c, d \in challenges : c.review = s /\ d.review = s => c = d
              /\ Cardinality({n \in DOMAIN agentLifecycle[s] : agentLifecycle[s][n] = "challenged"})
                   = Cardinality({c \in challenges : c.review = s})
    <3> DEFINE positions == {n \in DOMAIN agentLifecycle[s] : agentLifecycle[s][n] = "challenged"}
               rows == {c \in challenges : c.review = s}
    <3>1. \A c, d \in challenges : c.review = s /\ d.review = s => c = d
      BY <2>1 DEF ChallengeFirst
    <3>2. CASE rows = {}
      <4>1. ~ (agentLifecycle[s] # <<>> /\ agentLifecycle[s][1] = "challenged")
        BY <2>1, <3>2 DEF ChallengeFirst
      <4>2. agentLifecycle[s] \in Seq(AgentEvents)
        BY <1>1 DEF AgentInv, AgentTypeOK
      <4>3. positions = {}
        BY <2>1, <4>1, <4>2 DEF ChallengeFirst
      <4> QED BY <3>1, <3>2, <4>3
    <3>3. ASSUME NEW c \in rows PROVE Cardinality(positions) = Cardinality(rows)
      <4>1. rows = {c}
        BY <3>1
      <4>2. agentLifecycle[s] # <<>> /\ agentLifecycle[s][1] = "challenged"
        BY <2>1 DEF ChallengeFirst
      <4>3. 1 \in DOMAIN agentLifecycle[s]
        BY <1>1, <4>2 DEF AgentInv, AgentTypeOK
      <4>4. positions = {1}
        BY <2>1, <4>2, <4>3 DEF ChallengeFirst
      <4> HIDE DEF positions, rows
      <4> QED BY <4>1, <4>4, FS_Singleton
    <3> QED BY <3>1, <3>2, <3>3
  <2> QED BY <2>2 DEF ChallengedOnce
<1> QED BY <1>1, AgentInvariant, PTL

\* Runs that differ pairwise are three.
LEMMA ThreeRuns ==
  ASSUME NEW x, NEW y, NEW z, x # y, z \notin {x, y}
  PROVE  Cardinality({x, y, z}) = 3
<1>1. PICK one : one = {x}
  OBVIOUS
<1>2. IsFiniteSet(one) /\ Cardinality(one) = 1 /\ y \notin one
  BY <1>1, FS_Singleton
<1>3. PICK two : two = one \cup {y}
  OBVIOUS
<1>4. IsFiniteSet(two) /\ Cardinality(two) = Cardinality(one) + 1
  BY <1>2, <1>3, FS_AddElement
<1>5. z \notin two
  BY <1>1, <1>3
<1>6. Cardinality(two \cup {z}) = Cardinality(two) + 1
  BY <1>4, <1>5, FS_AddElement
<1>7. two \cup {z} = {x, y, z}
  BY <1>1, <1>3
<1>8. Cardinality({x, y, z}) = Cardinality(two) + 1
  BY <1>6, <1>7
<1> QED BY <1>2, <1>4, <1>8

\* A cross review, even one withdrawn since, is what record_adjudication derived
\* from a challenge that passed with nothing but notes, on an eligible review, and
\* three different runs took part.
THEOREM CleanCrossReview == AgentSpec => []CrossReviewIsClean
<1>1. ASSUME AgentInv PROVE CrossReviewIsClean
  <2>1. /\ AgentTypeOK /\ AdjudicationsCount
        /\ \A c \in challenges : Fit(c.review, c.run)
    BY <1>1 DEF AgentInv
  <2>2. ASSUME NEW s \in Submissions, NEW n \in DOMAIN agentLifecycle[s],
               agentLifecycle[s][n] = "cross_reviewed"
        PROVE /\ submission[s].eligible
              /\ \E c \in challenges, a \in adjudications :
                   /\ c.review = s /\ a.review = s /\ a.outcome = "cross_reviewed"
                   /\ c.report.verdict = "PASS" /\ c.report.findings \subseteq {"note"}
                   /\ Cardinality({submission[s].creator, c.run, a.run}) = 3
    <3>1. n \in Nat
      BY <2>1, <2>2 DEF AgentTypeOK
    <3>2. PICK a \in adjudications : a.review = s /\ a.outcome = "cross_reviewed"
      BY <2>1, <2>2, <3>1 DEF AdjudicationsCount
    <3>3. PICK c \in challenges :
            /\ c.review = s /\ a.run \notin {submission[s].creator, c.run}
            /\ c.report.verdict = "PASS" /\ c.report.findings \subseteq {"note"}
      BY <2>1, <3>2 DEF AdjudicationsCount, RestsOnChallenge
    <3>4. submission[s].eligible /\ c.run # submission[s].creator
      BY <2>1, <3>3 DEF Fit
    <3>5. Cardinality({submission[s].creator, c.run, a.run}) = 3
      BY <3>3, <3>4, ThreeRuns
    <3> QED BY <3>2, <3>3, <3>4, <3>5
  <2> QED BY <2>2 DEF CrossReviewIsClean
<1> QED BY <1>1, AgentInvariant, PTL

\* Two adjudications that both decided while the review was challenged leave it
\* quarantined, or revoked after that.
THEOREM DisagreementIsQuarantined == AgentSpec => []DisagreementQuarantines
<1>1. AgentInv => DisagreementQuarantines
  BY DEF AgentInv
<1> QED BY <1>1, AgentInvariant, PTL
-----------------------------------------------------------------------------
(* The refinement of AtomicAIReview.                                       *)

\* An adjudication that is open was due when it was decided, and still is: what
\* it rests on is never deleted.
DueWork(w) ==
  w.op = "adjudicate" =>
    \E c \in challenges :
      /\ c.review = w.review /\ w.row.run \notin {submission[w.review].creator, c.run}
      /\ w.row.dispositions \in [c.report.findings -> Dispositions]
      /\ Atomic!Due(c.report, w.row.dispositions, w.event)

AtomicInv == AgentInv /\ \A j \in Jobs : DueWork(work[j])

\* create_adjudication admits dispositions exactly when their outcome is due.
LEMMA OutcomeIsDue ==
  ASSUME NEW report \in AgentReports, NEW d \in [report.findings -> Dispositions],
         Acceptable(report, d), Replaced(report, d)
  PROVE  Atomic!Due(report, d, OutcomeOf(report, d))
<1>1. report.verdict \in Verdicts /\ \A f \in report.findings : d[f] \in Dispositions
  BY ReportsAssumption DEF ValidReports
<1>2. \A f \in report.findings : d[f] = "accepted" => f = "note"
  BY DEF Acceptable
<1>3. CASE OutcomeOf(report, d) = "cross_reviewed"
  <2>1. report.verdict = "PASS"
    BY <1>3, OutcomeClean
  <2>2. \A f \in report.findings : d[f] \notin {"quarantined", "corrected"}
    BY <1>3 DEF OutcomeOf
  <2>3. \A f \in report.findings : d[f] = "accepted"
    BY <1>1, <2>2 DEF Dispositions
  <2> QED BY <1>2, <1>3, <2>1, <2>3 DEF Atomic!Due
<1>4. CASE OutcomeOf(report, d) = "changes_required"
  <2>1. report.verdict # "QUARANTINE" /\ \A f \in report.findings : d[f] # "quarantined"
    BY <1>4 DEF OutcomeOf
  <2>2. \E f \in report.findings : d[f] = "corrected"
    BY <1>4 DEF Replaced
  <2> QED BY <1>2, <1>4, <2>1, <2>2 DEF Atomic!Due
<1>5. CASE OutcomeOf(report, d) = "quarantined"
  <2>1. report.verdict = "QUARANTINE" \/ \E f \in report.findings : d[f] = "quarantined"
    BY <1>5 DEF OutcomeOf
  <2> QED BY <1>2, <1>5, <2>1 DEF Atomic!Due
<1> QED BY <1>3, <1>4, <1>5 DEF OutcomeOf

\* What is due stays due.
LEMMA DueStays ==
  ASSUME AgentInv, [AgentNext]_agentVars, NEW w \in Decided \cup {NoWork}, DueWork(w)
  PROVE  DueWork(w)'
<1> SUFFICES ASSUME w.op = "adjudicate" PROVE DueWork(w)'
  BY DEF DueWork
<1>1. PICK c \in challenges :
        /\ c.review = w.review /\ w.row.run \notin {submission[w.review].creator, c.run}
        /\ w.row.dispositions \in [c.report.findings -> Dispositions]
        /\ Atomic!Due(c.report, w.row.dispositions, w.event)
  BY DEF DueWork
<1>2. w.review \in Submissions /\ submission[w.review].stored
  BY <1>1, WorkKinds DEF AgentInv, Fit
<1>3. c \in challenges' /\ submission'[w.review] = submission[w.review]
  BY <1>2, RecordsStay DEF AgentInv
<1> QED BY <1>1, <1>3 DEF DueWork, Atomic!Due

LEMMA DueWorkStep ==
  ASSUME AtomicInv, [AgentNext]_agentVars, NEW i \in Jobs, NEW w, w = work'[i]
  PROVE  DueWork(w)'
<1> USE DEF AtomicInv
<1>1. work \in [Jobs -> Decided \cup {NoWork}] /\ DueWork(work[i])
  BY DEF AgentInv, AgentTypeOK
<1>2. CASE w = NoWork
  BY <1>2 DEF DueWork, NoWork
<1>3. CASE w = work[i]
  BY <1>1, <1>3, DueStays
<1>4. ASSUME BeginChallenge(i) \/ \E s \in Submissions, event \in {"quarantined", "revoked"} :
                                     BeginWithdrawal(i, s, event)
      PROVE DueWork(w)'
  <2>1. w.op \in {"challenge", "withdraw"}
    BY <1>1, <1>4 DEF BeginChallenge, BeginWithdrawal
  <2> QED BY <2>1 DEF DueWork
<1>5. ASSUME NEW c \in challenges, NEW run \in AgentRuns,
             NEW d \in [c.report.findings -> Dispositions], BeginAdjudication(i, c, run, d)
      PROVE DueWork(w)'
  <2> DEFINE outcome == OutcomeOf(c.report, d)
  <2>1. w = [op |-> "adjudicate", review |-> c.review, event |-> outcome,
             phase |-> "decided", sequence |-> 0,
             row |-> [review |-> c.review, run |-> run, dispositions |-> d, outcome |-> outcome]]
    BY <1>1, <1>5 DEF BeginAdjudication
  <2>2. c.report \in AgentReports
    BY DEF AgentInv, AgentTypeOK, Challenge
  <2>3. Atomic!Due(c.report, d, outcome)
    BY <1>5, <2>2, OutcomeIsDue DEF BeginAdjudication
  <2>4. /\ run \notin {submission[c.review].creator, c.run}
        /\ UNCHANGED <<submission, challenges>>
    BY <1>5 DEF BeginAdjudication
  <2> HIDE DEF outcome
  <2>5. /\ w.review = c.review /\ w.event = outcome
        /\ w.row.run = run /\ w.row.dispositions = d
    BY <2>1
  <2> QED BY <2>3, <2>4, <2>5 DEF DueWork, Atomic!Due
<1>6. ASSUME AppendEvent(i) PROVE DueWork(w)'
  <2> DEFINE n == Len(agentLifecycle[work[i].review]) + 1
             v == [work[i] EXCEPT !.phase = "appended", !.sequence = n]
  <2>1. work[i] \in Decided /\ work[i].review \in Submissions
    BY <1>1, <1>6, WorkKinds DEF AppendEvent
  <2>2. n \in Nat
    BY <2>1 DEF AgentInv, AgentTypeOK
  <2>3. w = v
    BY <1>1, <1>6 DEF AppendEvent
  <2>4. /\ w.op = work[i].op /\ w.review = work[i].review /\ w.event = work[i].event
        /\ work[i].op # "withdraw" => w.row = work[i].row
    <3> HIDE DEF n
    <3>1. /\ v \in Decided /\ v.op = work[i].op /\ v.review = work[i].review
          /\ v.event = work[i].event /\ v.phase = "appended" /\ v.sequence = n
          /\ work[i].op # "withdraw" => v.row = work[i].row
      BY <2>1, <2>2, NumberedWork, Zenon
    <3> HIDE DEF v
    <3> QED BY <2>3, <3>1
  <2>5. UNCHANGED <<submission, challenges>>
    BY <1>6 DEF AppendEvent
  <2> HIDE DEF n, v
  <2> QED BY <1>1, <2>4, <2>5 DEF DueWork, Atomic!Due
<1>7. ASSUME NEW j \in Jobs,
             \/ \E s \in Submissions, run \in AgentRuns, report \in AgentReports :
                  RunChallenger(j, s, run, report)
             \/ CommitWork(j) \/ AbortWork(j) \/ RestartJob(j)
      PROVE w = work[i] \/ w = NoWork
  BY <1>1, <1>7 DEF RunChallenger, CommitWork, AbortWork, RestartJob
<1>8. ASSUME NEW j \in Jobs, j # i,
             \/ BeginChallenge(j)
             \/ \E c \in challenges, run \in AgentRuns :
                  \E d \in [c.report.findings -> Dispositions] : BeginAdjudication(j, c, run, d)
             \/ \E s \in Submissions, event \in {"quarantined", "revoked"} :
                  BeginWithdrawal(j, s, event)
             \/ AppendEvent(j)
      PROVE w = work[i]
  BY <1>1, <1>8 DEF BeginChallenge, BeginAdjudication, BeginWithdrawal, AppendEvent
<1>9. ASSUME NEW s \in Submissions, NEW creator \in Creators, NEW eligible \in BOOLEAN,
             StoreSubmission(s, creator, eligible)
      PROVE w = work[i]
  BY <1>9 DEF StoreSubmission
<1>10. CASE UNCHANGED agentVars
  BY <1>3, <1>10 DEF agentVars
<1> QED BY <1>2, <1>3, <1>4, <1>5, <1>6, <1>7, <1>8, <1>9, <1>10 DEF AgentNext

LEMMA AtomicInvariant == AgentSpec => []AtomicInv
<1>1. AgentInit => AtomicInv
  BY AgentInvInit DEF AtomicInv, AgentInit, DueWork, NoWork
<1>2. AtomicInv /\ [AgentNext]_agentVars => AtomicInv'
  <2> SUFFICES ASSUME AtomicInv, [AgentNext]_agentVars PROVE AtomicInv'
    OBVIOUS
  <2>1. AgentInv'
    BY AgentInvStep DEF AtomicInv
  <2>2. \A i \in Jobs : \A w : w = work'[i] => DueWork(w)'
    BY DueWorkStep
  <2>3. (\A i \in Jobs : DueWork(work[i]))'
    BY <2>2, Zenon DEF DueWork
  <2> QED BY <2>1, <2>3 DEF AtomicInv
<1> QED BY <1>1, <1>2, PTL DEF AgentSpec

State == [s \in Submissions |-> AgentState(s)]

\* The commit of an event is one that the stored lifecycle allows.
LEMMA CommitMaps ==
  ASSUME AtomicInv, NEW j \in Jobs, CommitWork(j)
  PROVE  Atomic!Next
<1> USE DEF AtomicInv, AgentInv
<1>1. PICK s : s = work[j].review
  OBVIOUS
<1>2. PICK event : event = work[j].event
  OBVIOUS
<1>3. /\ s \in Submissions /\ submission[s].stored /\ submission' = submission
      /\ event \in AgentEvents /\ event \in AgentAllowed[AgentState(s)]
      /\ AgentState(s)' = event
      /\ \A t \in Submissions : t # s => AgentState(t)' = AgentState(t)
  BY <1>1, <1>2, CommitEffect
<1>4. State' = [State EXCEPT ![s] = event]
  BY <1>3 DEF State
<1>5. /\ work[j] \in Decided /\ work[j].op \in {"withdraw", "challenge", "adjudicate"}
      /\ work[j] \in Decided \cup {NoWork}
  BY WorkKinds DEF CommitWork, AgentTypeOK
<1>6. submission[s] # NotSubmitted
  BY <1>3 DEF NotSubmitted
<1>7. WorkFits(work[j]) /\ DueWork(work[j])
  OBVIOUS
<1>8. AgentState(s) = "draft" <=> agentLifecycle[s] = <<>>
  BY <1>3, AllowedFrom
<1>9. CASE work[j].op = "challenge"
  <2>1. PICK row \in Challenge : row = work[j].row
    BY <1>5, <1>9, WorkKinds
  <2>2. event = "challenged" /\ row.review = s /\ Fit(s, row.run)
    BY <1>1, <1>2, <1>5, <1>7, <1>9, <2>1, WorkKinds DEF WorkFits
  <2>3. AgentState(s) = "draft"
    BY <1>3, <1>8, <2>2, AllowedFrom
  <2>4. \A c \in challenges : c.review # s
    BY <1>3, <1>8, <2>3 DEF ChallengeFirst
  <2>5. row = [review |-> s, run |-> row.run, report |-> row.report]
        /\ row.run \in AgentRuns /\ row.report \in AgentReports
    BY <2>1, <2>2 DEF Challenge
  <2>6. challenges' = challenges \cup {row} /\ adjudications' = adjudications
    BY <1>9, <2>1 DEF CommitWork
  <2>7. Atomic!ChallengeDraft(s, row.run, row.report)
    BY <1>3, <1>4, <1>6, <2>2, <2>3, <2>4, <2>5, <2>6 DEF Atomic!ChallengeDraft, State, Fit
  <2> QED BY <1>3, <2>5, <2>7 DEF Atomic!Next
<1>10. CASE work[j].op = "adjudicate"
  <2>1. PICK row \in Adjudication : row = work[j].row
    BY <1>5, <1>10, WorkKinds
  <2>2. event \in Outcomes /\ row.review = s /\ row.outcome = event
    BY <1>1, <1>2, <1>5, <1>7, <1>10, <2>1, WorkKinds DEF WorkFits
  <2>3. PICK c \in challenges :
          /\ c.review = s /\ row.run \notin {submission[s].creator, c.run}
          /\ row.dispositions \in [c.report.findings -> Dispositions]
          /\ Atomic!Due(c.report, row.dispositions, event)
    BY <1>1, <1>2, <1>7, <1>10, <2>1 DEF DueWork
  <2>4. AgentState(s) # "draft"
    BY <1>3, <1>8, <2>3 DEF ChallengeFirst
  <2>5. \/ AgentState(s) = "challenged"
        \/ AgentState(s) \in {"cross_reviewed", "changes_required"} /\ event = "quarantined"
    <3>1. AgentState(s) \in AgentEvents
      <4>1. agentLifecycle[s] \in Seq(AgentEvents)
        BY <1>3 DEF AgentTypeOK
      <4> QED BY <1>8, <2>4, <4>1 DEF AgentState
    <3> QED BY <1>3, <2>2, <2>4, <3>1 DEF AgentAllowed, AgentEvents, AgentStates, Outcomes
  <2>6. row = [review |-> s, run |-> row.run, outcome |-> event,
               dispositions |-> row.dispositions] /\ row.run \in AgentRuns
    BY <2>1, <2>2 DEF Adjudication
  <2>7. challenges' = challenges /\ adjudications' = adjudications \cup {row}
    BY <1>10, <2>1 DEF CommitWork
  <2>8. Atomic!Adjudicate(c, row.run, event)
    BY <1>3, <1>4, <2>3, <2>5, <2>6, <2>7 DEF Atomic!Adjudicate, State, Dispositions
  <2> QED BY <2>2, <2>6, <2>8 DEF Atomic!Next, Outcomes
<1>11. CASE work[j].op = "withdraw"
  <2>1. event \in {"quarantined", "revoked"}
    BY <1>2, <1>5, <1>11, WorkKinds
  <2>2. AgentState(s) \notin {event, "revoked"}
    BY <1>3, <2>1 DEF AgentAllowed
  <2>3. challenges' = challenges /\ adjudications' = adjudications
    BY <1>11 DEF CommitWork
  <2>4. Atomic!Withdraw(s, event)
    BY <1>3, <1>4, <1>6, <2>2, <2>3 DEF Atomic!Withdraw, State
  <2> QED BY <1>3, <2>1, <2>4 DEF Atomic!Next
<1> QED BY <1>5, <1>9, <1>10, <1>11

atomicVars == <<submission, State, challenges, adjudications>>

\* Unlocked though they are, the steps of reviews by agents have the effect of
\* steps that each decide on the stored lifecycle and store at once: the readings
\* of a transaction may be old, what it commits is not (AtomicAIReview).
THEOREM AgentsReviewAtomically == AgentSpec => ReviewsAreAtomic
<1>1. AgentInit => Atomic!Init
  BY DEF AgentInit, Atomic!Init, AgentState
<1>2. AtomicInv /\ [AgentNext]_agentVars => [Atomic!Next]_atomicVars
  <2> SUFFICES ASSUME AtomicInv, [AgentNext]_agentVars
               PROVE  Atomic!Next \/ UNCHANGED atomicVars
    OBVIOUS
  <2>1. ASSUME NEW s \in Submissions, NEW creator \in Creators, NEW eligible \in BOOLEAN,
               StoreSubmission(s, creator, eligible)
        PROVE  Atomic!Next
    <3>1. State' = State
      BY <2>1 DEF StoreSubmission, State, AgentState
    <3>2. Atomic!Submit(s, creator, eligible)
      BY <2>1, <3>1 DEF StoreSubmission, Atomic!Submit, State
    <3>3. creator \in AgentRuns
      BY CreatorsAssumption
    <3> QED BY <3>2, <3>3 DEF Atomic!Next
  <2>2. CASE /\ UNCHANGED <<submission, agentLifecycle, challenges, adjudications>>
    BY <2>2 DEF atomicVars, State, AgentState
  <2> QED BY <2>1, <2>2, CommitMaps
          DEF AgentNext, agentVars, RunChallenger, BeginChallenge, BeginAdjudication,
              BeginWithdrawal, AppendEvent, AbortWork, RestartJob
<1> QED BY <1>1, <1>2, AtomicInvariant, PTL
        DEF AgentSpec, ReviewsAreAtomic, Atomic!Spec, atomicVars, State
===============================================================================
