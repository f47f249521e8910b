---------------------------- MODULE EvidenceReview ----------------------------
(***************************************************************************)
(* Reviewed material evidence: the four-eyes lifecycle of a review, medium *)
(* catalogs that rest on approved reviews, and the live capability that    *)
(* hands out reviewed rules only while everything it rests on is approved. *)
(*                                                                         *)
(* Code: db/material_evidence_review.py and its v2, core/                  *)
(* material_evidence_review.py (the transitions), db/medium_catalog.py,    *)
(* db/material_reviewed_rules.py, core/material_reviewed_rules.py.         *)
(* A lifecycle event is decided and appended while the row of its review   *)
(* is locked: one step.  A catalog is checked before the transaction that  *)
(* stores it, and the capability reads each review in a session of its     *)
(* own: many steps, with lifecycle events in between.  A review stands for *)
(* one stored snapshot of a dossier.  Stored content is immutable and      *)
(* addressed by its hash; that it still validates is taken for granted,    *)
(* except for the conditions of an approval.                               *)
(***************************************************************************)
EXTENDS Integers, Sequences, FiniteSets

CONSTANTS
  Dossiers,  \* reviews
  Experts,   \* verified humans; the roles they hold only narrow who may act
  Catalogs   \* medium catalog snapshots

VARIABLES
  dossier,     \* the review's row: creator and what an approval depends on
  lifecycle,   \* its lifecycle events in the order of their sequence numbers
  catalog,     \* the reviews the entries of a stored catalog rest on
  storing,     \* the store_snapshot under way of each catalog
  capability,  \* an access to the held reviewed rules
  jointly      \* history: all the access rests on was approved at one moment

reviewVars == <<dossier, lifecycle, catalog, storing, capability, jointly>>
-----------------------------------------------------------------------------
EventTypes == {"reviewed", "rejected", "approved", "revoked", "quarantined"}
FactualStates == {"draft", "reviewed", "rejected", "revoked", "quarantined"}
ApprovalStates == {"not_approved", "approved", "revoked", "quarantined"}

LifecycleEvent == [type : EventTypes, actor : Experts,
                   state : FactualStates, approval : ApprovalStates]
Dossier == [creator : Experts, stored : BOOLEAN, approvable : BOOLEAN]
NoDossier == [stored |-> FALSE]
NoCatalog == [stored |-> FALSE]
NotStoring == [open |-> FALSE]
NoAccess == [phase |-> "none"]

ReviewInit ==
  /\ dossier = [d \in Dossiers |-> NoDossier]
  /\ lifecycle = [d \in Dossiers |-> <<>>]
  /\ catalog = [k \in Catalogs |-> NoCatalog]
  /\ storing = [k \in Catalogs |-> NotStoring]
  /\ capability = NoAccess
  /\ jointly = FALSE
-----------------------------------------------------------------------------
(* The projection of a review: what _replay makes of its events.           *)

LastEvent(events) == events[Len(events)]
StateOf(events) == IF events = <<>> THEN "draft" ELSE LastEvent(events).state
ApprovalOf(events) == IF events = <<>> THEN "not_approved" ELSE LastEvent(events).approval
ActorsOf(events, types) ==
  {events[n].actor : n \in {m \in DOMAIN events : events[m].type \in types}}
ReviewerOf(events) == ActorsOf(events, {"reviewed", "rejected"})

Approved(d) == ApprovalOf(lifecycle[d]) = "approved"

\* Mutants: the reviewer may approve; a quarantine only suspends the approval.
AllowedSelfApproval(events, type, actor, creator) ==
  CASE type \in {"reviewed", "rejected"} -> StateOf(events) = "draft" /\ actor # creator
    [] type = "approved" -> /\ StateOf(events) = "reviewed"
                            /\ ApprovalOf(events) = "not_approved"
                            /\ actor # creator
    [] type = "revoked" -> /\ ApprovalOf(events) = "approved"
                           /\ actor \notin {creator} \cup ReviewerOf(events)
    [] type = "quarantined" -> /\ StateOf(events) \notin {"rejected", "revoked", "quarantined"}
                               /\ actor \notin {creator} \cup ReviewerOf(events)
OutcomeSuspended(events, type) ==
  CASE type = "reviewed" -> [state |-> "reviewed", approval |-> "not_approved"]
    [] type = "rejected" -> [state |-> "rejected", approval |-> "not_approved"]
    [] type = "approved" -> [state |-> StateOf(events), approval |-> "approved"]
    [] type = "revoked" -> [state |-> "revoked", approval |-> "revoked"]
    [] type = "quarantined" -> [state |-> StateOf(events), approval |-> "not_approved"]

\* transition_review_projection: who may bring about which event, and when.
Allowed(events, type, actor, creator) ==
  CASE type \in {"reviewed", "rejected"} -> StateOf(events) = "draft" /\ actor # creator
    [] type = "approved" -> /\ StateOf(events) = "reviewed"
                            /\ ApprovalOf(events) = "not_approved"
                            /\ actor \notin {creator} \cup ReviewerOf(events)
    [] type = "revoked" -> /\ ApprovalOf(events) = "approved"
                           /\ actor \notin {creator} \cup ReviewerOf(events)
    [] type = "quarantined" -> /\ StateOf(events) \notin {"rejected", "revoked", "quarantined"}
                               /\ actor \notin {creator} \cup ReviewerOf(events)

Outcome(events, type) ==
  CASE type = "reviewed" -> [state |-> "reviewed", approval |-> "not_approved"]
    [] type = "rejected" -> [state |-> "rejected", approval |-> "not_approved"]
    [] type = "approved" -> [state |-> StateOf(events), approval |-> "approved"]
    [] type = "revoked" -> [state |-> "revoked", approval |-> "revoked"]
    [] type = "quarantined" -> [state |-> "quarantined", approval |-> "quarantined"]
-----------------------------------------------------------------------------
(* The reviews.                                                            *)

CreateReview(d, creator) ==
  /\ dossier[d] = NoDossier
  /\ dossier' = [dossier EXCEPT ![d] = [creator |-> creator, stored |-> FALSE,
                                        approvable |-> FALSE]]
  /\ UNCHANGED <<lifecycle, catalog, storing, capability, jointly>>

\* approvable: no source with unknown or restricted rights, no conflicting or
\* superseding claims, no claim text out of bounds.
StoreReview(d, actor, approvable) ==
  /\ dossier[d] # NoDossier /\ ~dossier[d].stored /\ dossier[d].creator = actor
  /\ dossier' = [dossier EXCEPT ![d].stored = TRUE, ![d].approvable = approvable]
  /\ UNCHANGED <<lifecycle, catalog, storing, capability, jointly>>

\* What the open access rests on: its review and the reviews of its catalog.
Basis == {capability.review} \cup catalog[capability.catalog].entries

\* record_review, record_rejection, record_approval, record_revocation and
\* record_quarantine, by way of _append_event.
Record(d, type, actor) ==
  /\ dossier[d].stored
  /\ Allowed(lifecycle[d], type, actor, dossier[d].creator)
  /\ type = "approved" => dossier[d].approvable
  /\ lifecycle' = [lifecycle EXCEPT ![d] = Append(@,
       [type |-> type, actor |-> actor, state |-> Outcome(lifecycle[d], type).state,
        approval |-> Outcome(lifecycle[d], type).approval])]
  /\ jointly' = \/ jointly
                \/ capability # NoAccess /\ \A e \in Basis : Approved(e)'
  /\ UNCHANGED <<dossier, catalog, storing, capability>>
-----------------------------------------------------------------------------
(* Medium catalogs: store_snapshot checks every entry, then stores.        *)

BeginCatalog(k, entries) ==
  /\ catalog[k] = NoCatalog /\ ~storing[k].open
  /\ storing' = [storing EXCEPT ![k] = [open |-> TRUE, entries |-> entries, left |-> entries]]
  /\ UNCHANGED <<dossier, lifecycle, catalog, capability, jointly>>

\* Mutant: an entry only has to name a stored review.
EntryValidStored(d) == dossier[d].stored

\* _validate_evidence of one entry: the review is stored and approved now.
EntryValid(d) == dossier[d].stored /\ Approved(d)

CheckEntry(k, d) ==
  /\ storing[k].open /\ d \in storing[k].left /\ EntryValid(d)
  /\ storing' = [storing EXCEPT ![k].left = @ \ {d}]
  /\ UNCHANGED <<dossier, lifecycle, catalog, capability, jointly>>

CommitCatalog(k) ==
  /\ storing[k].open /\ storing[k].left = {}
  /\ catalog' = [catalog EXCEPT ![k] = [stored |-> TRUE, entries |-> storing[k].entries]]
  /\ storing' = [storing EXCEPT ![k] = NotStoring]
  /\ UNCHANGED <<dossier, lifecycle, capability, jointly>>

RefuseCatalog(k) ==
  /\ storing[k].open /\ \E d \in storing[k].left : ~EntryValid(d)
  /\ storing' = [storing EXCEPT ![k] = NotStoring]
  /\ UNCHANGED <<dossier, lifecycle, catalog, capability, jointly>>
-----------------------------------------------------------------------------
(* Reviewed rules: load_capability and every access to what it returned go *)
(* through _load_and_validate: the review, then all entries of the catalog,*)
(* then (catalog.assert_current) all entries again.                        *)

BeginAccess(d, k) ==
  /\ capability = NoAccess
  /\ dossier[d].stored /\ catalog[k].stored
  /\ capability' = [phase |-> "review", review |-> d, catalog |-> k, left |-> {}]
  /\ jointly' = (Approved(d) /\ \A e \in catalog[k].entries : Approved(e))
  /\ UNCHANGED <<dossier, lifecycle, catalog, storing>>

AccessReview ==
  /\ capability.phase = "review"
  /\ StateOf(lifecycle[capability.review]) = "reviewed" /\ Approved(capability.review)
  /\ capability' = [capability EXCEPT !.phase = "load",
                                      !.left = catalog[capability.catalog].entries]
  /\ UNCHANGED <<dossier, lifecycle, catalog, storing, jointly>>

AccessEntry(d) ==
  /\ capability.phase \in {"load", "assert"} /\ d \in capability.left /\ EntryValid(d)
  /\ capability' = [capability EXCEPT !.left = @ \ {d}]
  /\ UNCHANGED <<dossier, lifecycle, catalog, storing, jointly>>

AccessRound ==
  /\ capability.phase \in {"load", "assert"} /\ capability.left = {}
  /\ capability' = IF capability.phase = "load"
                   THEN [capability EXCEPT !.phase = "assert",
                                           !.left = catalog[capability.catalog].entries]
                   ELSE [capability EXCEPT !.phase = "answered"]
  /\ UNCHANGED <<dossier, lifecycle, catalog, storing, jointly>>

\* The caller has its answer, or the access failed.
EndAccess ==
  /\ \/ capability.phase = "answered"
     \/ capability.phase = "review" /\ ~Approved(capability.review)
     \/ capability.phase \in {"load", "assert"} /\ \E d \in capability.left : ~EntryValid(d)
  /\ capability' = NoAccess
  /\ jointly' = FALSE
  /\ UNCHANGED <<dossier, lifecycle, catalog, storing>>
-----------------------------------------------------------------------------
ReviewNext ==
  \/ \E d \in Dossiers, actor \in Experts :
       \/ CreateReview(d, actor)
       \/ \E approvable \in BOOLEAN : StoreReview(d, actor, approvable)
       \/ \E type \in EventTypes : Record(d, type, actor)
  \/ \E k \in Catalogs :
       \/ \E entries \in SUBSET Dossiers : BeginCatalog(k, entries)
       \/ \E d \in Dossiers : CheckEntry(k, d)
       \/ CommitCatalog(k)
       \/ RefuseCatalog(k)
  \/ \E d \in Dossiers, k \in Catalogs : BeginAccess(d, k)
  \/ AccessReview
  \/ \E d \in Dossiers : AccessEntry(d)
  \/ AccessRound
  \/ EndAccess

ReviewSpec == ReviewInit /\ [][ReviewNext]_reviewVars
-----------------------------------------------------------------------------
StoredCatalog == [stored : {TRUE}, entries : SUBSET Dossiers]
StoringCatalog == [open : {TRUE}, entries : SUBSET Dossiers, left : SUBSET Dossiers]
Access == [phase : {"review", "load", "assert", "answered"}, review : Dossiers,
           catalog : Catalogs, left : SUBSET Dossiers]

ReviewTypeOK ==
  /\ dossier \in [Dossiers -> Dossier \cup {NoDossier}]
  /\ lifecycle \in [Dossiers -> Seq(LifecycleEvent)]
  /\ \A d \in Dossiers : lifecycle[d] # <<>> => dossier[d].stored
  /\ catalog \in [Catalogs -> StoredCatalog \cup {NoCatalog}]
  /\ storing \in [Catalogs -> StoringCatalog \cup {NotStoring}]
  /\ capability \in Access \cup {NoAccess}
  /\ capability # NoAccess =>
       dossier[capability.review].stored /\ catalog[capability.catalog].stored
  /\ jointly \in BOOLEAN

\* "approver must differ from creator and reviewer": whatever was approved, be
\* it withdrawn since, had been approved by a third person after a review by a
\* second one, and only if its content allowed it.
FourEyes ==
  \A d \in Dossiers : \A n \in DOMAIN lifecycle[d] :
    lifecycle[d][n].type = "approved" =>
      /\ dossier[d].approvable
      /\ lifecycle[d][n].actor # dossier[d].creator
      /\ \E m \in 1..(n - 1) :
           /\ lifecycle[d][m].type = "reviewed"
           /\ lifecycle[d][m].actor \notin {dossier[d].creator, lifecycle[d][n].actor}

\* An approval that was revoked or quarantined never comes back.
WithdrawalIsFinal ==
  [][\A d \in Dossiers :
       (\E n \in DOMAIN lifecycle[d] : lifecycle[d][n].type \in {"rejected", "revoked", "quarantined"})
         => ~Approved(d)']_reviewVars

\* The access reads one review after the other while approvals come and go;
\* still an access that is answered had a moment at which its review and all
\* reviews of its catalog were approved together: rules are never handed out
\* on approvals that never held at the same time, or were withdrawn before.
AnswersAreCurrent == capability.phase = "answered" => jointly
=============================================================================
