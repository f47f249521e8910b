--------------------------- MODULE KnowledgeLedger ---------------------------
(***************************************************************************)
(* The technical-knowledge ledger: document revisions, the life of a claim *)
(* under automated catalog imports and human reviews, and the outbox rows  *)
(* that each change leaves for the vector index.                           *)
(*                                                                         *)
(* Code: knowledge/ledger.py (PostgresKnowledgeLedger), db/models.py       *)
(* (V2KnowledgeDocument, V2KnowledgeClaim, V2KnowledgeOutbox).  Every      *)
(* operation is one transaction.  It locks the claims it changes, and is   *)
(* one step, except an import of a claim that was inactive when the import *)
(* looked for the claims to lock: that one is read later, without a lock,  *)
(* and written at the commit, and other transactions may commit between    *)
(* the three.  Only one import of a source runs at a time.                 *)
(* Each claim stands in a source document of its own.  The text of a claim *)
(* is part of its identity; everything else an import declares about it    *)
(* and a review depends on is its "contract" (authority_fingerprint).      *)
(***************************************************************************)
EXTENDS Integers, FiniteSets, Sequences

CONSTANTS
  Claims,     \* claim identities
  Contents,   \* contents of a source document (content_sha256)
  Contracts,  \* authority fingerprints
  Nothing,    \* no such row
  MaxRows     \* bound on the outbox rows ever written

VARIABLES
  documents,  \* revision number of each imported content of a claim's source
  claims,     \* V2KnowledgeClaim rows, Nothing before the first import
  queue,      \* V2KnowledgeOutbox rows in the order of their ids
  imports,    \* the import under way that has not locked the claim
  verdict,    \* history: the last human verdict on the claim as it stands
  torn        \* history: an import wrote over a change of the claim it had not read

ledger == <<documents, claims, queue, imports, verdict, torn>>
-----------------------------------------------------------------------------
ReviewStates == {"approved", "draft", "quarantined", "rejected"}
Declared == {"approved", "draft", "quarantined"}  \* what _review_status yields
Servable == {"approved", "draft"}                 \* what resolve_claims answers with
SyncStates == {"pending", "synced", "failed"}
Events == {"upsert", "delete"}

\* review_origin; a human one counts as "policy" when reviewed_by names no human.
Origins == {"human", "seed", "policy", "unreviewed"}
HumanOrigins == {"human", "seed"}  \* _HUMAN_REVIEW_ORIGINS

ClaimRow == [version : Nat, status : ReviewStates, active : BOOLEAN,
          origin : Origins,
          contract : Contracts, document : Contents,
          sync : SyncStates, synced : Nat]
Row == [claim : Claims, event : Events,
        version : Nat,              \* of the payload; a delete carries none
        status : {"pending", "processing", "done", "failed"}, attempts : Nat]

\* missed: the claim was inactive when the import locked the active ones.
UnlockedImport == [missed : BOOLEAN, seen : ClaimRow \cup {Nothing}]
NoImport == [missed |-> FALSE, seen |-> Nothing]

ASSUME KnowledgeLedgerAssumption ==
  IsFiniteSet(Contents) /\ Nothing \notin ClaimRow /\ MaxRows \in Nat

Event(status) == IF status \in Servable THEN "upsert" ELSE "delete"

\* Mutant: the payload is built before the version is raised.
QueuedBehind(c, event, version) ==
  [claim |-> c, event |-> event, version |-> IF event = "upsert" THEN version - 1 ELSE 0,
   status |-> "pending", attempts |-> 0]

Queued(c, event, version) ==
  [claim |-> c, event |-> event, version |-> IF event = "upsert" THEN version ELSE 0,
   status |-> "pending", attempts |-> 0]

LedgerInit ==
  /\ documents = [c \in Claims |-> [k \in Contents |-> 0]]
  /\ claims = [c \in Claims |-> Nothing]
  /\ queue = <<>>
  /\ imports = [c \in Claims |-> NoImport]
  /\ verdict = [c \in Claims |-> "none"]
  /\ torn = [c \in Claims |-> "no"]

\* The row of the claim changes and the index is told about it.
Saved(c, claim, event, version) ==
  /\ Len(queue) < MaxRows
  /\ claims' = [claims EXCEPT ![c] = claim]
  /\ queue' = Append(queue, Queued(c, event, version))

\* A write by a transaction that knows the claim as it stands.
Mended(c) == torn' = [torn EXCEPT ![c] = IF @ = "open" THEN "mended" ELSE @]
Written(c, claim, event) == Saved(c, claim, event, claim.version) /\ Mended(c)

\* A verdict on a claim is a new version of it, not yet in the index.
Amended(claim, status, active, origin) ==
  [claim EXCEPT !.status = status, !.active = active, !.origin = origin,
                !.version = @ + 1, !.sync = "pending"]

\* The verdict that is left when an automated write declares the contract.
Left(c, contract) ==
  verdict' = [verdict EXCEPT ![c] = IF claims[c].contract = contract /\ torn[c] # "open"
                                    THEN @ ELSE "none"]
-----------------------------------------------------------------------------
(* Catalog imports.                                                        *)

\* A content not seen before becomes the next revision of the source (they
\* are numbered 1, 2, ...); a content seen before keeps the revision it has.
Registered(revisions, content) ==
  IF revisions[content] # 0 THEN revisions
  ELSE [revisions EXCEPT ![content] = 1 + Cardinality({k \in Contents : revisions[k] # 0})]

\* Mutant: only an approval is respected.
PreservableApproval(claim, current) ==
  claim.origin \in HumanOrigins /\ claim.status = "approved" /\ current

\* A human verdict an import has to respect; an approval only while current.
Preservable(claim, current) ==
  /\ claim.origin \in HumanOrigins
  /\ \/ claim.status \in {"quarantined", "rejected"}
     \/ claim.status = "approved" /\ current

Reconciled(claim, contract, declared, current) ==
  IF ~Preservable(claim, current) THEN declared
  ELSE IF claim.contract = contract THEN claim.status
  ELSE IF declared = "approved" THEN "approved" ELSE "quarantined"

\* review_origin of a status that no human review has decided.
Assigned(before, status) ==
  IF status = "approved" THEN "seed"
  ELSE IF status = "draft" /\ before = "draft" THEN "unreviewed" ELSE "policy"

\* The claim after an import; edited: some other declared field differs.
Imported(claim, content, contract, declared, current, edited) ==
  LET status  == Reconciled(claim, contract, declared, current)
      kept    == Preservable(claim, current) /\ claim.contract = contract
      desired == [claim EXCEPT !.status = status, !.active = status # "rejected",
                               !.origin = IF kept THEN @ ELSE Assigned(claim.status, status),
                               !.contract = contract, !.document = content]
      changed == edited \/ desired # claim
  IN IF ~changed /\ claim.sync # "failed" THEN claim
     ELSE [desired EXCEPT !.version = IF changed THEN @ + 1 ELSE @, !.sync = "pending"]

\* reviewed_by is set anew with the origin left as it was: the name of the
\* importer, or none, stands where that of a reviewer may have come meanwhile.
Unsigned(seen, desired) ==
  \/ seen.origin = "policy" /\ (seen.status # desired.status \/ seen.contract # desired.contract)
  \/ seen.origin = "unreviewed"

\* The commit writes the columns that differ from the row that was read.
Merged(now, seen, desired, unsigned) ==
  LET column(was, wanted, is) == IF wanted = was THEN is ELSE wanted
  IN [version  |-> column(seen.version, desired.version, now.version),
      status   |-> column(seen.status, desired.status, now.status),
      active   |-> column(seen.active, desired.active, now.active),
      origin   |-> IF unsigned /\ desired.origin = seen.origin /\ now.origin = "human"
                   THEN "policy" ELSE column(seen.origin, desired.origin, now.origin),
      contract |-> column(seen.contract, desired.contract, now.contract),
      document |-> column(seen.document, desired.document, now.document),
      sync     |-> column(seen.sync, desired.sync, now.sync),
      synced   |-> now.synced]

ImportNew(c, content, contract, declared) ==
  /\ claims[c] = Nothing
  /\ documents' = [documents EXCEPT ![c] = Registered(@, content)]
  /\ Written(c, [version |-> 1, status |-> declared, active |-> TRUE,
                 origin |-> Assigned("draft", declared), contract |-> contract,
                 document |-> content, sync |-> "pending", synced |-> 0],
             Event(declared))
  /\ UNCHANGED <<imports, verdict>>

\* The catalog contains the active claim, which the import has locked.
ImportAgain(c, content, contract, declared, current, edited) ==
  /\ claims[c] # Nothing /\ claims[c].active
  /\ documents' = [documents EXCEPT ![c] = Registered(@, content)]
  /\ LET after == Imported(claims[c], content, contract, declared, current, edited)
     IN IF after = claims[c] THEN UNCHANGED <<claims, queue, torn>>
        ELSE Written(c, after, Event(after.status))
  /\ Left(c, contract)
  /\ UNCHANGED imports

\* The catalog of the source does not contain the claim.
ImportWithout(c, content) ==
  /\ claims[c] # Nothing
  /\ documents' = [documents EXCEPT ![c] = Registered(@, content)]
  /\ IF claims[c].active
     THEN /\ Written(c, Amended(claims[c], claims[c].status, FALSE, claims[c].origin), "delete")
          /\ Left(c, claims[c].contract)
     ELSE UNCHANGED <<claims, queue, verdict, torn>>
  /\ UNCHANGED imports

\* The catalog contains the claim, which is not among those the import locks.
ImportMisses(c) ==
  /\ claims[c] # Nothing /\ ~claims[c].active
  /\ imports' = [imports EXCEPT ![c].missed = TRUE]
  /\ UNCHANGED <<documents, claims, queue, verdict, torn>>

\* Its row is read when its turn comes, as it is then and without a lock.
ImportReads(c) ==
  /\ imports[c].missed /\ imports[c].seen = Nothing
  /\ imports' = [imports EXCEPT ![c].seen = claims[c]]
  /\ UNCHANGED <<documents, claims, queue, verdict, torn>>

ImportCommits(c, content, contract, declared, current, edited, unsigned) ==
  LET seen == imports[c].seen
      desired == Imported(seen, content, contract, declared, current, edited)
  IN /\ seen # Nothing
     /\ unsigned => Unsigned(seen, desired)
     /\ documents' = [documents EXCEPT ![c] = Registered(@, content)]
     /\ IF desired = seen THEN UNCHANGED <<claims, queue, torn>>
        ELSE /\ Saved(c, Merged(claims[c], seen, desired, unsigned),
                       Event(desired.status), desired.version)
             /\ IF seen.version = claims[c].version THEN Mended(c)
                ELSE torn' = [torn EXCEPT ![c] = "open"]
     /\ Left(c, contract)
     /\ imports' = [imports EXCEPT ![c] = NoImport]

\* The import fails or its process dies; nothing of it is kept.
ImportLost(c) ==
  /\ imports[c] # NoImport
  /\ imports' = [imports EXCEPT ![c] = NoImport]
  /\ UNCHANGED <<documents, claims, queue, verdict, torn>>
-----------------------------------------------------------------------------
(* Human review and the retirement of a card.                              *)

ReviewClaim(c, status) ==
  /\ claims[c] # Nothing
  /\ Written(c, Amended(claims[c], status, status # "rejected", "human"), Event(status))
  /\ verdict' = [verdict EXCEPT ![c] = status]
  /\ UNCHANGED <<documents, imports>>

\* A verdict that repeats the status without new metadata (an approval always
\* has some) is answered and not recorded, whoever has set the status.
ReviewAgain(c) ==
  /\ claims[c] # Nothing /\ claims[c].status # "approved"
  /\ verdict' = [verdict EXCEPT ![c] = IF claims[c].origin = "human" THEN claims[c].status
                                       ELSE "repeated"]
  /\ UNCHANGED <<documents, claims, queue, imports, torn>>

RetireCard(c) ==
  /\ claims[c] # Nothing /\ claims[c].active
  /\ Written(c, Amended(claims[c], "rejected", FALSE, "policy"), "delete")
  /\ verdict' = [verdict EXCEPT ![c] = "none"]
  /\ UNCHANGED <<documents, imports>>

Declares(c, content, contract, declared) ==
  \/ ImportNew(c, content, contract, declared)
  \/ \E current, edited \in BOOLEAN :
       ImportAgain(c, content, contract, declared, current, edited)

Import(c) ==
  \/ /\ imports[c] = NoImport
     /\ \/ ImportMisses(c)
        \/ \E content \in Contents :
             \/ ImportWithout(c, content)
             \/ \E contract \in Contracts, declared \in Declared :
                  Declares(c, content, contract, declared)
  \/ ImportReads(c) \/ ImportLost(c)
  \/ \E content \in Contents, contract \in Contracts, declared \in Declared,
        current, edited, unsigned \in BOOLEAN :
       ImportCommits(c, content, contract, declared, current, edited, unsigned)

LedgerStep(c) ==
  \/ Import(c)
  \/ \E status \in ReviewStates : ReviewClaim(c, status)
  \/ ReviewAgain(c) \/ RetireCard(c)

LedgerNext == \E c \in Claims : LedgerStep(c)

LedgerSpec == LedgerInit /\ [][LedgerNext]_ledger
-----------------------------------------------------------------------------
LedgerTypeOK ==
  /\ documents \in [Claims -> [Contents -> Nat]]
  /\ claims \in [Claims -> ClaimRow \cup {Nothing}]
  /\ queue \in Seq(Row)
  /\ imports \in [Claims -> UnlockedImport]
  /\ verdict \in [Claims -> ReviewStates \cup {"none", "repeated"}]
  /\ torn \in [Claims -> {"no", "open", "mended"}]

Newest(i) == \A j \in DOMAIN queue : queue[j].claim = queue[i].claim => j <= i

Served(claim) == claim.active /\ claim.status \in Servable

\* The newest outbox row of a claim tells the index what the ledger says: the
\* current version of a claim it may serve, the removal of any other.  The
\* exception is a claim that an import has written without having read its last
\* change; the next write to the claim, whatever it is, ends the exception.
NewestRowIsCurrent ==
  \A i \in DOMAIN queue : Newest(i) /\ torn[queue[i].claim] # "open" =>
    LET claim == claims[queue[i].claim]
    IN IF Served(claim) THEN queue[i].event = "upsert" /\ queue[i].version = claim.version
       ELSE queue[i].event = "delete"

\* A recorded human verdict that quarantines or rejects a claim keeps it from
\* being served through any number of removals and returns, by every import
\* that declares the same contract and has read the verdict.
VerdictStands ==
  \A c \in Claims :
    verdict[c] \in {"quarantined", "rejected"} /\ torn[c] # "open" => ~Served(claims[c])

\* "test_replace_catalog_is_atomic_versioned_and_idempotent": importing the
\* same catalog a second time leaves the review status alone.
ImportIsIdempotent ==
  \A c \in Claims : claims[c] # Nothing =>
    \A content \in Contents, contract \in Contracts, declared \in Declared,
       current, edited \in BOOLEAN :
      LET once == Imported(claims[c], content, contract, declared, current, edited)
          twice == Imported(once, content, contract, declared, current, FALSE)
      IN twice.status = once.status
=============================================================================
