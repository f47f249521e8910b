-------------------------- MODULE Knowledge_proofs --------------------------
(***************************************************************************)
(* Proofs about KnowledgeLedger and KnowledgeOutbox, for any claims,       *)
(* contents and contracts, any workers and any batch size.                 *)
(***************************************************************************)
EXTENDS KnowledgeOutbox, FiniteSetTheorems, WellFoundedInduction, TLAPS

\* Registering a content keeps the revision numbers natural numbers.
LEMMA RegisteredType ==
  ASSUME NEW revisions \in [Contents -> Nat], NEW content \in Contents
  PROVE  Registered(revisions, content) \in [Contents -> Nat]
<1>1. IsFiniteSet({k \in Contents : revisions[k] # 0})
  BY KnowledgeLedgerAssumption, FS_Subset
<1>2. Cardinality({k \in Contents : revisions[k] # 0}) \in Nat
  BY <1>1, FS_CardinalityType
<1> QED BY <1>2 DEF Registered

\* The origin an import gives a status that no human has decided.
LEMMA AssignedType == \A before, status : Assigned(before, status) \in Origins
BY DEF Assigned, Origins

\* An import leaves a claim of the right type that says what was declared or
\* preserved; it raises the version unless it leaves the claim as it was, or
\* only queues it again after its row has failed.
LEMMA ImportedShape ==
  ASSUME NEW claim \in ClaimRow, NEW content \in Contents, NEW contract \in Contracts,
         NEW declared \in Declared, NEW current \in BOOLEAN, NEW edited \in BOOLEAN,
         NEW after, after = Imported(claim, content, contract, declared, current, edited)
  PROVE  /\ after \in ClaimRow
         /\ after.status = Reconciled(claim, contract, declared, current)
         /\ after # claim => (after.active <=> after.status # "rejected")
         /\ after.origin = IF Preservable(claim, current) /\ claim.contract = contract
                           THEN claim.origin ELSE Assigned(claim.status, after.status)
         /\ after.contract = contract /\ after.document = content /\ after.synced = claim.synced
         /\ \/ after.version = claim.version + 1 /\ after.sync = "pending"
            \/ after = claim
            \/ claim.sync = "failed" /\ after = [claim EXCEPT !.sync = "pending"]
<1> DEFINE status == Reconciled(claim, contract, declared, current)
           kept == Preservable(claim, current) /\ claim.contract = contract
           origin == IF kept THEN claim.origin ELSE Assigned(claim.status, status)
           desired == [claim EXCEPT !.status = status, !.active = status # "rejected",
                                    !.origin = origin,
                                    !.contract = contract, !.document = content]
           changed == edited \/ desired # claim
           written == [desired EXCEPT !.version = IF changed THEN desired.version + 1
                                                  ELSE desired.version,
                                      !.sync = "pending"]
<1>1. status \in ReviewStates
  BY DEF Reconciled, Declared, ReviewStates, ClaimRow
<1>2. origin \in Origins
  BY AssignedType DEF ClaimRow
<1>3. /\ desired \in ClaimRow /\ desired.status = status /\ (desired.active <=> status # "rejected")
      /\ desired.origin = origin /\ desired.contract = contract /\ desired.document = content
      /\ desired.version = claim.version /\ desired.synced = claim.synced
  <2> HIDE DEF status, origin
  <2> QED BY <1>1, <1>2 DEF ClaimRow
<1>4. \/ after = claim /\ desired = claim
      \/ after = written /\ (changed \/ claim.sync = "failed")
  <2>1. after = IF ~changed /\ claim.sync # "failed" THEN claim ELSE written
    BY DEF Imported
  <2>2. ~changed => desired = claim
    OBVIOUS
  <2> HIDE DEF desired, changed, written
  <2> QED BY <2>1, <2>2
<1>5. changed \in BOOLEAN /\ (~changed => desired = claim)
  OBVIOUS
<1>6. /\ written \in ClaimRow /\ written.status = status /\ (written.active <=> status # "rejected")
      /\ written.origin = origin /\ written.contract = contract /\ written.document = content
      /\ written.sync = "pending" /\ written.synced = claim.synced
      /\ written.version = IF changed THEN claim.version + 1 ELSE claim.version
      /\ ~changed => written = [claim EXCEPT !.sync = "pending"]
  <2> HIDE DEF desired, changed, status, origin
  <2>1. (IF changed THEN desired.version + 1 ELSE desired.version) \in Nat
    BY <1>3 DEF ClaimRow
  <2>2. ~changed => written = [claim EXCEPT !.sync = "pending"]
    BY <1>3, <1>5 DEF ClaimRow
  <2> QED BY <1>3, <2>1, <2>2 DEF ClaimRow, SyncStates
<1>7. /\ after \in ClaimRow /\ after.status = status
      /\ after # claim => (after.active <=> status # "rejected")
      /\ after.origin = origin /\ after.contract = contract /\ after.document = content
      /\ after.synced = claim.synced
  <2> HIDE DEF written, changed, status, origin, desired
  <2> QED BY <1>3, <1>4, <1>6
<1>8. \/ after.version = claim.version + 1 /\ after.sync = "pending"
      \/ after = claim
      \/ claim.sync = "failed" /\ after = [claim EXCEPT !.sync = "pending"]
  <2> HIDE DEF written, changed, status, origin, desired
  <2> QED BY <1>4, <1>5, <1>6
<1> HIDE DEF written, changed, desired
<1> QED BY <1>7, <1>8
-----------------------------------------------------------------------------
(* What a write makes of a claim.                                          *)

\* An amended claim is a claim.
LEMMA AmendedType ==
  ASSUME NEW claim \in ClaimRow, NEW status \in ReviewStates, NEW active \in BOOLEAN,
         NEW origin \in Origins
  PROVE  /\ Amended(claim, status, active, origin) \in ClaimRow
         /\ Amended(claim, status, active, origin).status = status
         /\ Amended(claim, status, active, origin).active <=> active
         /\ Amended(claim, status, active, origin).origin = origin
         /\ Amended(claim, status, active, origin).contract = claim.contract
         /\ Amended(claim, status, active, origin).sync = "pending"
         /\ Amended(claim, status, active, origin).synced = claim.synced
         /\ Amended(claim, status, active, origin).version = claim.version + 1
<1>1. PICK n \in Nat : n = claim.version + 1
  BY DEF ClaimRow
<1>2. Amended(claim, status, active, origin) =
        [claim EXCEPT !.status = status, !.active = active, !.origin = origin,
                      !.version = n, !.sync = "pending"]
  BY <1>1 DEF Amended
<1> QED BY <1>1, <1>2 DEF ClaimRow, SyncStates

\* The merge of two claims takes each column from one of them.
MergeOf(now, seen, desired, unsigned, claim) ==
  /\ claim \in ClaimRow
  /\ claim.version = IF desired.version = seen.version THEN now.version ELSE desired.version
  /\ claim.status = IF desired.status = seen.status THEN now.status ELSE desired.status
  /\ claim.active = IF desired.active = seen.active THEN now.active ELSE desired.active
  /\ claim.contract = IF desired.contract = seen.contract THEN now.contract ELSE desired.contract
  /\ claim.document = IF desired.document = seen.document THEN now.document ELSE desired.document
  /\ claim.sync = IF desired.sync = seen.sync THEN now.sync ELSE desired.sync
  /\ claim.synced = now.synced
  /\ ~(unsigned /\ now.origin = "human") =>
       claim.origin = IF desired.origin = seen.origin THEN now.origin ELSE desired.origin

\* That is what a commit without a lock leaves.
LEMMA MergedShape ==
  ASSUME NEW now \in ClaimRow, NEW seen \in ClaimRow, NEW desired \in ClaimRow, NEW unsigned
  PROVE  MergeOf(now, seen, desired, unsigned, Merged(now, seen, desired, unsigned))
<1>0. PICK claim : claim = Merged(now, seen, desired, unsigned)
  OBVIOUS
<1>1. PICK active \in BOOLEAN :
        active = IF desired.active = seen.active THEN now.active ELSE desired.active
  BY DEF ClaimRow
<1>2. PICK origin \in Origins :
        origin = IF unsigned /\ desired.origin = seen.origin /\ now.origin = "human" THEN "policy"
                 ELSE IF desired.origin = seen.origin THEN now.origin ELSE desired.origin
  BY DEF ClaimRow, Origins
<1>3. claim =
        [version |-> IF desired.version = seen.version THEN now.version ELSE desired.version,
         status |-> IF desired.status = seen.status THEN now.status ELSE desired.status,
         active |-> active, origin |-> origin,
         contract |-> IF desired.contract = seen.contract THEN now.contract ELSE desired.contract,
         document |-> IF desired.document = seen.document THEN now.document ELSE desired.document,
         sync |-> IF desired.sync = seen.sync THEN now.sync ELSE desired.sync,
         synced |-> now.synced]
  BY <1>0, <1>1, <1>2 DEF Merged
<1>4. claim \in ClaimRow
  BY <1>3 DEF ClaimRow
<1>5. MergeOf(now, seen, desired, unsigned, claim)
  BY <1>1, <1>2, <1>3, <1>4 DEF MergeOf
<1> QED BY <1>0, <1>5

-----------------------------------------------------------------------------
(* What a step of the ledger writes.                                       *)

\* Two states of a claim that say the same.
Alike(one, other) ==
  /\ one.status = other.status /\ one.active = other.active /\ one.origin = other.origin
  /\ one.contract = other.contract /\ one.document = other.document

\* What an import has read without a lock is an earlier state of the claim, and
\* its present one if the version is the same.
ReadingsHold ==
  \A c \in Claims :
    /\ claims[c] # Nothing => claims[c].version >= 1
    /\ LET seen == imports[c].seen
       IN seen # Nothing =>
            /\ claims[c] # Nothing /\ seen.version >= 1 /\ seen.version <= claims[c].version
            /\ seen.version = claims[c].version => Alike(seen, claims[c])

LedgerInv == LedgerTypeOK /\ ReadingsHold

\* A row of the claim has failed for good, now or when an import read the claim.
Flagged(c) ==
  \/ claims[c].sync = "failed"
  \/ imports[c].seen # Nothing /\ imports[c].seen.sync = "failed"

\* What a transaction that knows the claim enqueues is what the index should do.
Truthful(claim, event) == event = IF Served(claim) THEN "upsert" ELSE "delete"

\* A claim starts in version 1, and every write by a transaction that knows it
\* raises the version, unless it only queues the claim again after a failure.
Advances(c, claim) ==
  IF claims[c] = Nothing THEN claim.version = 1 /\ claim.synced = 0 /\ claim.sync = "pending"
  ELSE /\ claim.synced = claims[c].synced /\ claim.sync \in {"pending", claims[c].sync}
       /\ \/ claim.version = claims[c].version + 1
          \/ Flagged(c) /\ claim.version = claims[c].version /\ Alike(claims[c], claim)

\* A commit that overwrites what it has not read raises nothing.
Overwrites(c, claim, version) ==
  /\ claims[c] # Nothing /\ imports'[c].seen = Nothing
  /\ version >= 1 /\ version <= claims[c].version
  /\ claim.version >= 1 /\ claim.version <= claims[c].version
  /\ claim.sync \in {"pending", claims[c].sync}

\* The event of a status suits a claim whose activity is its status.
LEMMA EventsFit ==
  ASSUME NEW claim
  PROVE  /\ (claim.active <=> claim.status # "rejected") => Truthful(claim, Event(claim.status))
         /\ ~claim.active => Truthful(claim, "delete")
         /\ \A status : Event(status) \in Events
         /\ "delete" \in Events
BY DEF Truthful, Event, Served, Servable, Events

\* A commit of what was read without a lock: the claim was left as it was, or the
\* reading was up to date and the claim is what a locked import makes of it, or
\* it was not, and the version of neither the row nor the claim is a new one.
LEMMA CommitEffect ==
  ASSUME LedgerInv, NEW c \in Claims, NEW content \in Contents, NEW contract \in Contracts,
         NEW declared \in Declared, NEW current \in BOOLEAN, NEW edited \in BOOLEAN,
         NEW unsigned \in BOOLEAN,
         ImportCommits(c, content, contract, declared, current, edited, unsigned)
  PROVE  /\ claims[c] # Nothing /\ claims[c] \in ClaimRow
         /\ \/ UNCHANGED <<claims, queue, torn>>
            \/ \E claim \in ClaimRow :
                 /\ Written(c, claim, Event(claim.status))
                 /\ claim.active <=> claim.status # "rejected"
                 /\ Advances(c, claim)
                 /\ claim.status = Reconciled(claims[c], contract, declared, current)
                 /\ claim.origin = IF Preservable(claims[c], current) /\ claims[c].contract = contract
                                   THEN claims[c].origin
                                   ELSE Assigned(claims[c].status, claim.status)
            \/ \E claim \in ClaimRow, event \in Events, version \in Nat :
                 /\ Saved(c, claim, event, version)
                 /\ torn' = [torn EXCEPT ![c] = "open"]
                 /\ Overwrites(c, claim, version)
<1>1. PICK seen : seen = imports[c].seen
  OBVIOUS
<1>2. PICK desired : desired = Imported(seen, content, contract, declared, current, edited)
  OBVIOUS
<1>3. PICK claim : claim = Merged(claims[c], seen, desired, unsigned)
  OBVIOUS
<1>4. /\ seen # Nothing /\ (unsigned => Unsigned(seen, desired))
      /\ \/ UNCHANGED <<claims, queue, torn>>
         \/ /\ desired # seen
            /\ Saved(c, claim, Event(desired.status), desired.version)
            /\ IF seen.version = claims[c].version THEN Mended(c)
               ELSE torn' = [torn EXCEPT ![c] = "open"]
      /\ imports' = [imports EXCEPT ![c] = NoImport]
  BY <1>1, <1>2, <1>3 DEF ImportCommits
<1>5. /\ claims[c] # Nothing /\ seen.version >= 1 /\ seen.version <= claims[c].version
      /\ seen.version = claims[c].version => Alike(seen, claims[c])
      /\ claims[c].version >= 1
  BY <1>1, <1>4 DEF LedgerInv, ReadingsHold
<1>6. seen \in ClaimRow /\ claims[c] \in ClaimRow /\ seen.version \in Nat
  BY <1>1, <1>4, <1>5 DEF LedgerInv, LedgerTypeOK, UnlockedImport, ClaimRow
<1>7. /\ desired \in ClaimRow
      /\ desired.status = Reconciled(seen, contract, declared, current)
      /\ desired # seen => (desired.active <=> desired.status # "rejected")
      /\ desired.origin = IF Preservable(seen, current) /\ seen.contract = contract
                          THEN seen.origin ELSE Assigned(seen.status, desired.status)
      /\ \/ desired.version = seen.version + 1 /\ desired.sync = "pending"
         \/ desired = seen
         \/ seen.sync = "failed" /\ desired = [seen EXCEPT !.sync = "pending"]
  BY <1>2, <1>6, ImportedShape
<1>8. MergeOf(claims[c], seen, desired, unsigned, claim)
  BY <1>3, <1>6, <1>7, MergedShape
<1>9. /\ claim.version = IF desired.version = seen.version THEN claims[c].version
                         ELSE desired.version
      /\ claim.sync = IF desired.sync = seen.sync THEN claims[c].sync ELSE desired.sync
      /\ claim.synced = claims[c].synced
      /\ claim \in ClaimRow
  BY <1>8 DEF MergeOf
<1>10. claims[c].version \in Nat /\ desired.version \in Nat /\ Event(desired.status) \in Events
  BY <1>6, <1>7, EventsFit DEF ClaimRow
<1>11. claim.sync \in {"pending", claims[c].sync}
  BY <1>6, <1>7, <1>9 DEF ClaimRow
<1>12. desired.version = seen.version + 1 \/ desired.version = seen.version
  BY <1>6, <1>7 DEF ClaimRow
<1>13. CASE seen.version = claims[c].version /\ desired # seen
  <2>1. Alike(seen, claims[c])
    BY <1>5, <1>13
  <2>2. /\ claim.status = desired.status /\ claim.active = desired.active
        /\ claim.contract = desired.contract /\ claim.document = desired.document
    BY <1>8, <2>1 DEF Alike, MergeOf
  <2>3. ~(unsigned /\ claims[c].origin = "human")
    BY <1>4, <2>1 DEF Unsigned, Alike
  <2>4. claim.origin = desired.origin
    BY <1>8, <2>1, <2>3 DEF Alike, MergeOf
  <2>5. claim.version = desired.version
    BY <1>9, <1>13
  <2>6. /\ claim.status = Reconciled(claims[c], contract, declared, current)
        /\ claim.origin = IF Preservable(claims[c], current) /\ claims[c].contract = contract
                          THEN claims[c].origin ELSE Assigned(claims[c].status, claim.status)
    <3>1. Preservable(seen, current) = Preservable(claims[c], current)
      BY <2>1 DEF Alike, Preservable
    <3>2. Reconciled(seen, contract, declared, current)
            = Reconciled(claims[c], contract, declared, current)
      BY <2>1, <3>1 DEF Alike, Reconciled
    <3> QED BY <1>7, <2>1, <2>2, <2>4, <3>1, <3>2 DEF Alike
  <2>7. Advances(c, claim)
    <3>1. CASE desired.version = seen.version + 1
      BY <1>5, <1>9, <1>11, <1>13, <2>5, <3>1 DEF Advances
    <3>2. CASE seen.sync = "failed" /\ desired = [seen EXCEPT !.sync = "pending"]
      <4>1. desired.version = seen.version /\ Alike(seen, desired)
        BY <1>6, <3>2 DEF ClaimRow, Alike
      <4>2. Alike(claims[c], claim)
        BY <2>1, <2>2, <2>4, <4>1 DEF Alike
      <4>3. Flagged(c)
        BY <1>1, <1>4, <3>2 DEF Flagged
      <4> QED BY <1>5, <1>9, <1>11, <1>13, <2>5, <4>1, <4>2, <4>3 DEF Advances
    <3> QED BY <1>7, <1>13, <3>1, <3>2
  <2>8. (claim.active <=> claim.status # "rejected")
    BY <1>7, <1>13, <2>2
  <2>9. UNCHANGED <<claims, queue, torn>> \/ Written(c, claim, Event(claim.status))
    BY <1>4, <1>13, <2>2, <2>5 DEF Written
  <2> QED BY <1>5, <1>6, <1>9, <2>6, <2>7, <2>8, <2>9
<1>14. CASE seen.version # claims[c].version
  <2>1. seen.version + 1 <= claims[c].version
    BY <1>5, <1>6, <1>10, <1>14
  <2>2. /\ desired.version >= 1 /\ desired.version <= claims[c].version
        /\ claim.version >= 1 /\ claim.version <= claims[c].version
    BY <1>5, <1>6, <1>9, <1>10, <1>12, <2>1
  <2>3. imports'[c].seen = Nothing
    BY <1>4 DEF NoImport, LedgerInv, LedgerTypeOK
  <2>4. Overwrites(c, claim, desired.version)
    BY <1>5, <1>11, <2>2, <2>3 DEF Overwrites
  <2> QED BY <1>4, <1>5, <1>6, <1>9, <1>10, <1>14, <2>4
<1>15. CASE desired = seen
  BY <1>4, <1>5, <1>6, <1>15
<1> QED BY <1>13, <1>14, <1>15

\* A step of the ledger writes nothing, or one claim with a truthful row behind
\* it, or it overwrites what it has not read.
LEMMA LedgerEffect ==
  ASSUME LedgerInv, LedgerNext
  PROVE  \/ UNCHANGED <<claims, queue, torn>>
         \/ \E c \in Claims, claim \in ClaimRow, event \in Events :
              Written(c, claim, event) /\ Truthful(claim, event) /\ Advances(c, claim)
         \/ \E c \in Claims, claim \in ClaimRow, event \in Events, version \in Nat :
              /\ Saved(c, claim, event, version)
              /\ torn' = [torn EXCEPT ![c] = "open"]
              /\ Overwrites(c, claim, version)
<1> DEFINE Writes(c) ==
      \E claim \in ClaimRow, event \in Events :
        Written(c, claim, event) /\ Truthful(claim, event) /\ Advances(c, claim)
<1>1. Nothing \notin ClaimRow
  BY KnowledgeLedgerAssumption
<1>2. ASSUME NEW c \in Claims, NEW content \in Contents, NEW contract \in Contracts,
             NEW declared \in Declared, ImportNew(c, content, contract, declared)
      PROVE  Writes(c)
  <2>1. PICK claim : claim = [version |-> 1, status |-> declared, active |-> TRUE,
                       origin |-> Assigned("draft", declared), contract |-> contract,
                       document |-> content, sync |-> "pending", synced |-> 0]
    OBVIOUS
  <2>2. claim \in ClaimRow /\ claim.status = declared
    BY <2>1, AssignedType DEF ClaimRow, Declared, ReviewStates, SyncStates
  <2>3. (claim.active <=> claim.status # "rejected")
    BY <2>1 DEF Declared
  <2>4. Written(c, claim, Event(claim.status)) /\ claims[c] = Nothing
    BY <1>2, <2>1, <2>2 DEF ImportNew
  <2>5. Advances(c, claim)
    BY <2>1, <2>4 DEF Advances
  <2> QED BY <2>2, <2>3, <2>4, <2>5, EventsFit
<1>3. ASSUME NEW c \in Claims, NEW content \in Contents, NEW contract \in Contracts,
             NEW declared \in Declared, NEW current \in BOOLEAN, NEW edited \in BOOLEAN,
             ImportAgain(c, content, contract, declared, current, edited)
      PROVE  UNCHANGED <<claims, queue, torn>> \/ Writes(c)
  <2>1. PICK after : after = Imported(claims[c], content, contract, declared, current, edited)
    OBVIOUS
  <2>2. claims[c] # Nothing /\ claims[c] \in ClaimRow
    BY <1>3 DEF ImportAgain, LedgerInv, LedgerTypeOK
  <2>3. after \in ClaimRow
    BY <2>1, <2>2, ImportedShape
  <2>4. CASE after = claims[c]
    BY <1>3, <2>1, <2>4 DEF ImportAgain
  <2>5. CASE after # claims[c]
    <3>1. /\ (after.active <=> after.status # "rejected") /\ after.synced = claims[c].synced
          /\ \/ after.version = claims[c].version + 1 /\ after.sync = "pending"
             \/ claims[c].sync = "failed" /\ after = [claims[c] EXCEPT !.sync = "pending"]
      BY <2>1, <2>2, <2>5, ImportedShape
    <3>2. Written(c, after, Event(after.status))
      BY <1>3, <2>1, <2>5 DEF ImportAgain
    <3>3. Advances(c, after)
      <4>1. CASE after.version = claims[c].version + 1 /\ after.sync = "pending"
        BY <2>2, <3>1, <4>1 DEF Advances
      <4>2. CASE claims[c].sync = "failed" /\ after = [claims[c] EXCEPT !.sync = "pending"]
        <5>1. /\ after.sync = "pending" /\ after.version = claims[c].version
              /\ after.synced = claims[c].synced /\ Alike(claims[c], after)
          BY <2>2, <4>2 DEF ClaimRow, Alike
        <5> QED BY <2>2, <4>2, <5>1 DEF Advances, Flagged
      <4> QED BY <3>1, <4>1, <4>2
    <3> QED BY <2>3, <3>1, <3>2, <3>3, EventsFit
  <2> QED BY <2>4, <2>5
<1>4. ASSUME NEW c \in Claims, claims[c] # Nothing, NEW status \in ReviewStates,
             NEW active \in BOOLEAN, NEW origin \in Origins, NEW event \in Events,
             NEW after, after = Amended(claims[c], status, active, origin),
             Written(c, after, event), Truthful(after, event)
      PROVE  Writes(c)
  <2>1. claims[c] \in ClaimRow
    BY <1>4 DEF LedgerInv, LedgerTypeOK
  <2>2. /\ after \in ClaimRow /\ after.sync = "pending"
        /\ after.synced = claims[c].synced /\ after.version = claims[c].version + 1
    BY <1>4, <2>1, AmendedType
  <2>3. Advances(c, after)
    BY <1>4, <2>2 DEF Advances
  <2> QED BY <1>4, <2>2, <2>3
<1>5. ASSUME NEW c \in Claims, NEW content \in Contents, ImportWithout(c, content)
      PROVE  UNCHANGED <<claims, queue, torn>> \/ Writes(c)
  <2>1. /\ claims[c] # Nothing /\ claims[c] \in ClaimRow
        /\ claims[c].status \in ReviewStates /\ claims[c].origin \in Origins
    BY <1>5 DEF ImportWithout, LedgerInv, LedgerTypeOK, ClaimRow
  <2>2. PICK after : after = Amended(claims[c], claims[c].status, FALSE, claims[c].origin)
    OBVIOUS
  <2>3. ~after.active
    BY <2>1, <2>2, AmendedType
  <2>4. UNCHANGED <<claims, queue, torn>> \/ Written(c, after, "delete")
    BY <1>5, <2>2 DEF ImportWithout
  <2>5. CASE Written(c, after, "delete")
    <3>1. Truthful(after, "delete") /\ "delete" \in Events /\ FALSE \in BOOLEAN
      BY <2>3, EventsFit
    <3> QED BY <1>4, <2>1, <2>2, <2>5, <3>1
  <2> QED BY <2>4, <2>5
<1>6. ASSUME NEW c \in Claims, NEW status \in ReviewStates, ReviewClaim(c, status)
      PROVE  Writes(c)
  <2>1. PICK active \in BOOLEAN : active = (status # "rejected")
    OBVIOUS
  <2>2. claims[c] # Nothing /\ claims[c] \in ClaimRow /\ "human" \in Origins
    BY <1>6 DEF ReviewClaim, LedgerInv, LedgerTypeOK, Origins
  <2>3. PICK after : after = Amended(claims[c], status, active, "human")
    OBVIOUS
  <2>4. after.status = status /\ (after.active <=> active)
    BY <2>2, <2>3, AmendedType
  <2>5. Written(c, after, Event(status))
    BY <1>6, <2>1, <2>3 DEF ReviewClaim
  <2>6. Truthful(after, Event(status)) /\ Event(status) \in Events
    BY <2>1, <2>4, EventsFit
  <2> QED BY <1>4, <2>2, <2>3, <2>5, <2>6
<1>7. ASSUME NEW c \in Claims, RetireCard(c)
      PROVE  Writes(c)
  <2>1. /\ claims[c] # Nothing /\ claims[c] \in ClaimRow
        /\ "rejected" \in ReviewStates /\ "policy" \in Origins /\ FALSE \in BOOLEAN
    BY <1>7 DEF RetireCard, LedgerInv, LedgerTypeOK, ReviewStates, Origins
  <2>2. PICK after : after = Amended(claims[c], "rejected", FALSE, "policy")
    OBVIOUS
  <2>3. ~after.active
    BY <2>1, <2>2, AmendedType
  <2>4. Written(c, after, "delete")
    BY <1>7, <2>2 DEF RetireCard
  <2>5. Truthful(after, "delete") /\ "delete" \in Events
    BY <2>3, EventsFit
  <2> QED BY <1>4, <2>1, <2>2, <2>4, <2>5
<1>8. ASSUME NEW c \in Claims,
             ImportMisses(c) \/ ImportReads(c) \/ ImportLost(c) \/ ReviewAgain(c)
      PROVE  UNCHANGED <<claims, queue, torn>>
  BY <1>8 DEF ImportMisses, ImportReads, ImportLost, ReviewAgain
<1>9. PICK c \in Claims : LedgerStep(c)
  BY DEF LedgerNext
<1>10. CASE \E content \in Contents, contract \in Contracts, declared \in Declared,
               current, edited, unsigned \in BOOLEAN :
              ImportCommits(c, content, contract, declared, current, edited, unsigned)
  <2>1. PICK content \in Contents, contract \in Contracts, declared \in Declared,
             current, edited, unsigned \in BOOLEAN :
               ImportCommits(c, content, contract, declared, current, edited, unsigned)
    BY <1>10
  <2>2. CASE \E claim \in ClaimRow :
               /\ Written(c, claim, Event(claim.status))
               /\ claim.active <=> claim.status # "rejected"
               /\ Advances(c, claim)
    BY <2>2, EventsFit
  <2> HIDE DEF Writes
  <2> QED BY <2>1, <2>2, CommitEffect DEF Writes
<1>11. CASE \E content \in Contents :
              \/ ImportWithout(c, content)
              \/ \E contract \in Contracts, declared \in Declared :
                   Declares(c, content, contract, declared)
  <2> HIDE DEF Writes
  <2>1. UNCHANGED <<claims, queue, torn>> \/ Writes(c)
    BY <1>2, <1>3, <1>5, <1>11 DEF Declares
  <2> QED BY <2>1 DEF Writes
<1>12. CASE (\E status \in ReviewStates : ReviewClaim(c, status)) \/ RetireCard(c)
  <2> HIDE DEF Writes
  <2>1. Writes(c)
    BY <1>6, <1>7, <1>12
  <2> QED BY <2>1 DEF Writes
<1> HIDE DEF Writes
<1> QED BY <1>8, <1>9, <1>10, <1>11, <1>12 DEF LedgerStep, Import

\* What such a write comes to.
Writes(c, claim, event, version) ==
  /\ Saved(c, claim, event, version)
  /\ \/ Mended(c) /\ version = claim.version /\ Truthful(claim, event) /\ Advances(c, claim)
     \/ torn' = [torn EXCEPT ![c] = "open"] /\ Overwrites(c, claim, version)

LEMMA LedgerWrites ==
  ASSUME LedgerInv, LedgerNext
  PROVE  \/ UNCHANGED <<claims, queue, torn>>
         \/ \E c \in Claims, claim \in ClaimRow, event \in Events, version \in Nat :
              Writes(c, claim, event, version)
<1>1. \A claim \in ClaimRow : claim.version \in Nat
  BY DEF ClaimRow
<1> QED BY <1>1, LedgerEffect DEF Writes, Written
-----------------------------------------------------------------------------
(* Types, and what unlocked imports have read.                             *)

\* Writing a claim and queueing its row keeps both tables.
LEMMA SavedType ==
  ASSUME LedgerTypeOK, NEW c \in Claims, NEW claim \in ClaimRow, NEW event \in Events,
         NEW version \in Nat, Saved(c, claim, event, version)
  PROVE  claims' \in [Claims -> ClaimRow \cup {Nothing}] /\ queue' \in Seq(Row)
<1>1. Queued(c, event, version) \in Row
  BY DEF Queued, Row
<1> QED BY <1>1 DEF Saved, LedgerTypeOK

\* What a step does to the readings and verdicts, and to no other claim's.
LEMMA HistoryEffect ==
  ASSUME LedgerTypeOK, LedgerNext
  PROVE  /\ documents' \in [Claims -> [Contents -> Nat]]
         /\ imports' \in [Claims -> UnlockedImport]
         /\ verdict' \in [Claims -> ReviewStates \cup {"none", "repeated"}]
         /\ \A c \in Claims :
              \/ imports'[c].seen \in {imports[c].seen, Nothing}
              \/ imports'[c].seen = claims[c] /\ claims' = claims
<1>1. ASSUME NEW c \in Claims, NEW content \in Contents,
             documents' = [documents EXCEPT ![c] = Registered(@, content)]
      PROVE  documents' \in [Claims -> [Contents -> Nat]]
  BY <1>1, RegisteredType DEF LedgerTypeOK
<1>2. ASSUME NEW c \in Claims, NEW contract, Left(c, contract)
      PROVE  verdict' \in [Claims -> ReviewStates \cup {"none", "repeated"}]
  BY <1>2 DEF Left, LedgerTypeOK
<1>3. ASSUME NEW c \in Claims, imports' = [imports EXCEPT ![c] = NoImport]
      PROVE  /\ imports' \in [Claims -> UnlockedImport]
             /\ \A d \in Claims : imports'[d].seen \in {imports[d].seen, Nothing}
  BY <1>3 DEF NoImport, UnlockedImport, LedgerTypeOK
<1>4. ASSUME imports' = imports
      PROVE  /\ imports' \in [Claims -> UnlockedImport]
             /\ \A d \in Claims : imports'[d].seen \in {imports[d].seen, Nothing}
  BY <1>4 DEF LedgerTypeOK
<1>5. PICK c \in Claims : LedgerStep(c)
  BY DEF LedgerNext
<1>6. CASE \E content \in Contents, contract \in Contracts, declared \in Declared :
             Declares(c, content, contract, declared)
  <2>1. \E content \in Contents : documents' = [documents EXCEPT ![c] = Registered(@, content)]
    BY <1>6 DEF Declares, ImportNew, ImportAgain
  <2>2. imports' = imports /\ (verdict' = verdict \/ \E contract : Left(c, contract))
    BY <1>6 DEF Declares, ImportNew, ImportAgain
  <2> QED BY <1>1, <1>2, <1>4, <2>1, <2>2 DEF LedgerTypeOK
<1>7. CASE \E content \in Contents : ImportWithout(c, content)
  <2>1. \E content \in Contents : documents' = [documents EXCEPT ![c] = Registered(@, content)]
    BY <1>7 DEF ImportWithout
  <2>2. imports' = imports /\ (verdict' = verdict \/ \E contract : Left(c, contract))
    BY <1>7 DEF ImportWithout
  <2> QED BY <1>1, <1>2, <1>4, <2>1, <2>2 DEF LedgerTypeOK
<1>8. CASE ImportMisses(c)
  <2>1. PICK import \in UnlockedImport : import = imports[c]
    BY DEF LedgerTypeOK
  <2>2. [import EXCEPT !.missed = TRUE] \in UnlockedImport
        /\ [import EXCEPT !.missed = TRUE].seen = imports[c].seen
    BY <2>1 DEF UnlockedImport
  <2>3. imports' = [imports EXCEPT ![c] = [import EXCEPT !.missed = TRUE]]
    BY <1>8, <2>1 DEF ImportMisses, LedgerTypeOK
  <2>4. \A d \in Claims : imports'[d].seen = imports[d].seen
    BY <2>2, <2>3 DEF LedgerTypeOK
  <2> QED BY <1>8, <2>2, <2>3, <2>4 DEF ImportMisses, LedgerTypeOK
<1>9. CASE ImportReads(c)
  <2>1. PICK import \in UnlockedImport : import = imports[c]
    BY DEF LedgerTypeOK
  <2>2. [import EXCEPT !.seen = claims[c]] \in UnlockedImport
        /\ [import EXCEPT !.seen = claims[c]].seen = claims[c]
    BY <2>1 DEF UnlockedImport, LedgerTypeOK
  <2>3. imports' = [imports EXCEPT ![c] = [import EXCEPT !.seen = claims[c]]]
    BY <1>9, <2>1 DEF ImportReads, LedgerTypeOK
  <2>4. claims' = claims /\ documents' = documents /\ verdict' = verdict
    BY <1>9 DEF ImportReads
  <2>5. \A d \in Claims : imports'[d].seen = imports[d].seen \/ imports'[d].seen = claims[d]
    BY <2>2, <2>3 DEF LedgerTypeOK
  <2>6. imports' \in [Claims -> UnlockedImport]
    BY <2>2, <2>3 DEF LedgerTypeOK
  <2> QED BY <2>4, <2>5, <2>6 DEF LedgerTypeOK
<1>10. CASE ImportLost(c)
  BY <1>3, <1>10 DEF ImportLost, LedgerTypeOK
<1>11. CASE \E content \in Contents, contract \in Contracts, declared \in Declared,
               current, edited, unsigned \in BOOLEAN :
              ImportCommits(c, content, contract, declared, current, edited, unsigned)
  <2>0. PICK content \in Contents, contract \in Contracts, declared \in Declared,
             current, edited, unsigned \in BOOLEAN :
               ImportCommits(c, content, contract, declared, current, edited, unsigned)
    BY <1>11
  <2>1. documents' = [documents EXCEPT ![c] = Registered(@, content)]
    BY <2>0 DEF ImportCommits
  <2>2. imports' = [imports EXCEPT ![c] = NoImport] /\ Left(c, contract)
    BY <2>0 DEF ImportCommits
  <2> QED BY <1>1, <1>2, <1>3, <2>1, <2>2
<1>12. CASE \E status \in ReviewStates : ReviewClaim(c, status)
  BY <1>4, <1>12 DEF ReviewClaim, LedgerTypeOK
<1>13. CASE ReviewAgain(c)
  <2>1. claims[c] \in ClaimRow /\ claims[c].status \in ReviewStates
    BY <1>13 DEF ReviewAgain, LedgerTypeOK, ClaimRow
  <2> QED BY <1>4, <1>13, <2>1 DEF ReviewAgain, LedgerTypeOK
<1>14. CASE RetireCard(c)
  BY <1>4, <1>14 DEF RetireCard, LedgerTypeOK
<1> QED
  BY <1>5, <1>6, <1>7, <1>8, <1>9, <1>10, <1>11, <1>12, <1>13, <1>14 DEF LedgerStep, Import

\* Every import, review and retirement keeps the types.
LEMMA LedgerTypeStep == LedgerInv /\ [LedgerNext]_ledger => LedgerTypeOK'
<1> SUFFICES ASSUME LedgerInv, [LedgerNext]_ledger PROVE LedgerTypeOK'
  OBVIOUS
<1> USE DEF LedgerInv
<1>1. CASE UNCHANGED ledger
  BY <1>1 DEF ledger, LedgerTypeOK
<1>2. CASE LedgerNext
  <2>1. CASE UNCHANGED <<claims, queue, torn>>
    BY <1>2, <2>1, HistoryEffect DEF LedgerTypeOK
  <2>2. ASSUME NEW c \in Claims, NEW claim \in ClaimRow, NEW event \in Events,
               NEW version \in Nat, Saved(c, claim, event, version),
               Mended(c) \/ torn' = [torn EXCEPT ![c] = "open"]
        PROVE  LedgerTypeOK'
    <3>1. claims' \in [Claims -> ClaimRow \cup {Nothing}] /\ queue' \in Seq(Row)
      BY <2>2, SavedType
    <3>2. torn' \in [Claims -> {"no", "open", "mended"}]
      BY <2>2 DEF Mended, LedgerTypeOK
    <3> QED BY <1>2, <3>1, <3>2, HistoryEffect DEF LedgerTypeOK
  <2>3. \A claim \in ClaimRow : claim.version \in Nat
    BY DEF ClaimRow
  <2> QED BY <1>2, <2>1, <2>2, <2>3, LedgerEffect DEF Written
<1> QED BY <1>1, <1>2

\* So they keep the readings of the imports under way.
LEMMA ReadingsStep == LedgerInv /\ [LedgerNext]_ledger => ReadingsHold'
<1> SUFFICES ASSUME LedgerInv, [LedgerNext]_ledger PROVE ReadingsHold'
  OBVIOUS
<1>1. CASE UNCHANGED ledger
  BY <1>1 DEF ledger, LedgerInv, ReadingsHold, Alike
<1>2. CASE LedgerNext
  <2>0. ASSUME NEW d \in Claims, claims[d] # Nothing
        PROVE  claims[d] \in ClaimRow /\ claims[d].version \in Nat /\ Alike(claims[d], claims[d])
    BY <2>0 DEF LedgerInv, LedgerTypeOK, ClaimRow, Alike
  <2>1. ASSUME NEW d \in Claims, claims'[d] = claims[d],
               \/ imports'[d].seen \in {imports[d].seen, Nothing}
               \/ imports'[d].seen = claims[d]
        PROVE  /\ claims'[d] # Nothing => claims'[d].version >= 1
               /\ LET seen == imports'[d].seen
                  IN seen # Nothing =>
                       /\ claims'[d] # Nothing /\ seen.version >= 1
                       /\ seen.version <= claims'[d].version
                       /\ seen.version = claims'[d].version => Alike(seen, claims'[d])
    BY <2>0, <2>1 DEF LedgerInv, ReadingsHold
  <2>2. CASE UNCHANGED <<claims, queue, torn>>
    <3>1. \A d \in Claims : claims'[d] = claims[d]
      BY <2>2
    <3> QED BY <1>2, <2>1, <3>1, HistoryEffect DEF LedgerInv, ReadingsHold, Alike
  <2>3. ASSUME NEW c \in Claims, NEW claim \in ClaimRow, NEW event, NEW version,
               Saved(c, claim, event, version),
               Advances(c, claim) \/ Overwrites(c, claim, version)
        PROVE  ReadingsHold'
    <3>1. /\ claims'[c] = claim /\ \A d \in Claims \ {c} : claims'[d] = claims[d]
          /\ claims' # claims => imports'[c].seen \in {imports[c].seen, Nothing}
          /\ \A d \in Claims : \/ imports'[d].seen \in {imports[d].seen, Nothing}
                               \/ imports'[d].seen = claims[d] /\ claims' = claims
      BY <1>2, <2>3, HistoryEffect DEF Saved, LedgerInv, LedgerTypeOK
    <3>2. claim # Nothing /\ claim.version \in Nat
      BY KnowledgeLedgerAssumption DEF ClaimRow
    <3>3. ASSUME claims' # claims
          PROVE  /\ claim.version >= 1
                 /\ LET seen == imports'[c].seen
                    IN seen # Nothing =>
                         /\ seen.version >= 1 /\ seen.version <= claim.version
                         /\ seen.version = claim.version => Alike(seen, claim)
      <4>1. CASE claims[c] = Nothing
        <5>1. imports[c].seen = Nothing
          BY <4>1 DEF LedgerInv, ReadingsHold
        <5>2. imports'[c].seen = Nothing /\ claim.version = 1
          BY <2>3, <3>1, <3>3, <4>1, <5>1 DEF Advances, Overwrites
        <5> QED BY <5>2
      <4>2. CASE claims[c] # Nothing /\ Overwrites(c, claim, version)
        BY <4>2 DEF Overwrites
      <4>3. CASE claims[c] # Nothing /\ Advances(c, claim)
        <5>1. claims[c].version \in Nat /\ claims[c].version >= 1
          BY <2>0, <4>3 DEF LedgerInv, ReadingsHold
        <5>2. \/ claim.version = claims[c].version + 1
              \/ claim.version = claims[c].version /\ Alike(claims[c], claim)
          BY <4>3 DEF Advances
        <5>3. CASE imports'[c].seen = Nothing
          BY <5>1, <5>2, <5>3
        <5>4. CASE imports'[c].seen # Nothing
          <6>1. PICK seen : seen = imports'[c].seen
            OBVIOUS
          <6>2. seen = imports[c].seen /\ seen # Nothing
            BY <3>1, <3>3, <5>4, <6>1
          <6>3. /\ seen.version \in Nat /\ seen.version >= 1 /\ seen.version <= claims[c].version
                /\ seen.version = claims[c].version => Alike(seen, claims[c])
            BY <6>2 DEF LedgerInv, ReadingsHold, LedgerTypeOK, UnlockedImport, ClaimRow
          <6>4. CASE claim.version = claims[c].version + 1
            BY <3>2, <5>1, <6>1, <6>3, <6>4
          <6>5. CASE claim.version = claims[c].version /\ Alike(claims[c], claim)
            BY <5>1, <6>1, <6>3, <6>5 DEF Alike
          <6> QED BY <5>2, <6>4, <6>5
        <5> QED BY <5>3, <5>4
      <4> QED BY <2>3, <4>1, <4>2, <4>3
    <3>4. CASE claims' # claims
      BY <2>1, <3>1, <3>2, <3>3, <3>4 DEF ReadingsHold, Alike
    <3>5. CASE claims' = claims
      <4>1. \A d \in Claims : claims'[d] = claims[d]
        BY <3>5
      <4> QED BY <2>1, <3>1, <4>1 DEF ReadingsHold, Alike
    <3> QED BY <3>4, <3>5
  <2> QED BY <1>2, <2>2, <2>3, LedgerEffect DEF Written
<1> QED BY <1>1, <1>2

\* An empty ledger has the right types and no import under way.
LEMMA LedgerTypeInit == LedgerInit => LedgerInv
<1>1. LedgerInit => LedgerTypeOK
  BY DEF LedgerInit, LedgerTypeOK, NoImport, UnlockedImport
<1>2. LedgerInit => ReadingsHold
  BY DEF LedgerInit, ReadingsHold, NoImport
<1> QED BY <1>1, <1>2 DEF LedgerInv

\* Every row of the ledger and of its outbox has its type in every state.
THEOREM LedgerTypes == LedgerSpec => []LedgerTypeOK
<1>1. LedgerInv /\ [LedgerNext]_ledger => LedgerInv'
  BY LedgerTypeStep, ReadingsStep DEF LedgerInv
<1>2. LedgerInv => LedgerTypeOK
  BY DEF LedgerInv
<1> QED BY <1>1, <1>2, LedgerTypeInit, PTL DEF LedgerSpec
-----------------------------------------------------------------------------
(* The queue carries the ledger's last word on every claim.                *)

\* A row queued with a write that the claim's newest change was known to carries
\* the event and version of what it wrote; the rows of other claims stay what
\* they were, and a claim that is torn asks nothing of its rows.
LEMMA SavedIsCurrent ==
  ASSUME LedgerTypeOK, NewestRowIsCurrent, NEW c \in Claims, NEW claim \in ClaimRow,
         NEW event \in Events, NEW version, Saved(c, claim, event, version),
         \/ Mended(c) /\ version = claim.version /\ Truthful(claim, event)
         \/ torn' = [torn EXCEPT ![c] = "open"]
  PROVE  NewestRowIsCurrent'
<1> DEFINE n == Len(queue)
<1>1. /\ queue \in Seq(Row) /\ n \in Nat /\ DOMAIN queue = 1..n
      /\ queue' = Append(queue, Queued(c, event, version))
      /\ claims' = [claims EXCEPT ![c] = claim]
      /\ \A d \in Claims \ {c} : torn'[d] = torn[d]
  BY DEF LedgerTypeOK, Saved, Mended
<1>2. /\ DOMAIN queue' = 1..(n + 1)
      /\ queue'[n + 1] = Queued(c, event, version)
      /\ \A i \in 1..n : queue'[i] = queue[i]
  BY <1>1
<1>3. ASSUME NEW i \in DOMAIN queue', Newest(i)', torn'[queue'[i].claim] # "open"
      PROVE  LET cl == claims'[queue'[i].claim]
             IN IF Served(cl) THEN queue'[i].event = "upsert" /\ queue'[i].version = cl.version
                ELSE queue'[i].event = "delete"
  <2>1. CASE i = n + 1
    <3>1. /\ queue'[i].claim = c /\ queue'[i].event = event
          /\ event = "upsert" => queue'[i].version = version
      BY <1>2, <2>1 DEF Queued
    <3>2. claims'[c] = claim
      BY <1>1 DEF LedgerTypeOK
    <3>3. version = claim.version /\ Truthful(claim, event)
      BY <1>3, <3>1 DEF LedgerTypeOK
    <3> QED BY <3>1, <3>2, <3>3 DEF Truthful
  <2>2. CASE i \in 1..n
    <3>1. queue'[i] = queue[i]
      BY <1>2, <2>2
    <3>2. queue[i].claim # c
      <4>1. SUFFICES ASSUME queue[i].claim = c PROVE FALSE
        OBVIOUS
      <4>2. n + 1 \in DOMAIN queue' /\ queue'[n + 1].claim = c
        BY <1>1, <1>2 DEF Queued
      <4>3. n + 1 <= i
        BY <1>3, <3>1, <4>1, <4>2 DEF Newest
      <4> QED BY <1>1, <2>2, <4>3
    <3>3. /\ claims'[queue[i].claim] = claims[queue[i].claim]
          /\ torn'[queue[i].claim] = torn[queue[i].claim]
      <4>1. queue[i].claim \in Claims
        <5>1. queue[i] \in Row
          BY <1>1, <2>2
        <5> QED BY <5>1 DEF Row
      <4> QED BY <1>1, <3>2, <4>1 DEF LedgerTypeOK
    <3>4. Newest(i)
      <4>1. ASSUME NEW j \in DOMAIN queue, queue[j].claim = queue[i].claim
            PROVE  j <= i
        <5>1. j \in DOMAIN queue' /\ queue'[j].claim = queue'[i].claim
          BY <1>1, <1>2, <3>1, <4>1
        <5> QED BY <1>3, <5>1 DEF Newest
      <4> QED BY <4>1 DEF Newest
    <3>5. torn[queue[i].claim] # "open"
      BY <1>3, <3>1, <3>3
    <3> QED BY <1>1, <2>2, <3>1, <3>3, <3>4, <3>5 DEF NewestRowIsCurrent
  <2> QED BY <1>1, <1>2, <2>1, <2>2
<1> QED BY <1>3 DEF NewestRowIsCurrent

\* Every step keeps the newest row of each claim current.
LEMMA QueueStep ==
  ASSUME LedgerInv, NewestRowIsCurrent, [LedgerNext]_ledger
  PROVE  NewestRowIsCurrent'
<1>1. CASE UNCHANGED <<claims, queue, torn>>
  BY <1>1 DEF NewestRowIsCurrent, Newest
<1>2. CASE LedgerNext
  BY <1>1, <1>2, LedgerEffect, SavedIsCurrent DEF Written, LedgerInv
<1> QED BY <1>1, <1>2 DEF ledger

\* An empty queue has no stale newest row.
LEMMA QueueInit == LedgerInit => NewestRowIsCurrent
BY DEF LedgerInit, NewestRowIsCurrent

\* Whatever is imported, reviewed and retired in whatever order, and whatever
\* commits between the steps of an import that reads a claim without a lock, the
\* newest outbox row of a claim tells the index what the ledger says of it now,
\* unless the last write to the claim was an import that had not read the change
\* before it.  So a worker may collapse a window to the newest row of each claim.
THEOREM QueueCarriesTheLedger == LedgerSpec => []NewestRowIsCurrent
<1>1. LedgerInit => LedgerInv /\ NewestRowIsCurrent
  BY LedgerTypeInit, QueueInit
<1>2. (LedgerInv /\ NewestRowIsCurrent) /\ [LedgerNext]_ledger
        => (LedgerInv /\ NewestRowIsCurrent)'
  BY LedgerTypeStep, ReadingsStep, QueueStep DEF LedgerInv
<1> QED BY <1>1, <1>2, PTL DEF LedgerSpec
-----------------------------------------------------------------------------
(* A human verdict outlives automated imports.                             *)

Adverse == {"quarantined", "rejected"}

\* Why a verdict stands: it is still the claim's status and still marked as
\* human, which is what the next import looks at.
VerdictKept ==
  \A c \in Claims :
    /\ torn[c] = "open" => claims[c] # Nothing
    /\ verdict[c] \in Adverse =>
         /\ claims[c] # Nothing
         /\ torn[c] # "open" => claims[c].origin \in HumanOrigins /\ claims[c].status = verdict[c]

\* An import that knows the claim and declares its contract respects a verdict.
LEMMA VerdictRespected ==
  ASSUME VerdictKept, NEW c \in Claims, torn[c] # "open", verdict[c] \in Adverse
  PROVE  /\ claims[c].origin \in HumanOrigins
         /\ \A current : Preservable(claims[c], current)
         /\ \A declared, current :
              Reconciled(claims[c], claims[c].contract, declared, current) = verdict[c]
<1>1. claims[c].origin \in HumanOrigins /\ claims[c].status = verdict[c]
  BY DEF VerdictKept
<1>2. \A current : Preservable(claims[c], current)
  BY <1>1 DEF Preservable, Adverse
<1> QED BY <1>1, <1>2 DEF Reconciled

\* No step undoes a human verdict but another review, a retirement, a change of
\* the contract, or an import that has not read it.
LEMMA VerdictStep ==
  ASSUME LedgerInv, VerdictKept, [LedgerNext]_ledger
  PROVE  VerdictKept'
<1> USE DEF LedgerInv
<1>1. ASSUME NEW c \in Claims, NEW claim \in ClaimRow, claims' = [claims EXCEPT ![c] = claim],
             \A d \in Claims \ {c} : verdict'[d] = verdict[d] /\ torn'[d] = torn[d],
             verdict'[c] \in Adverse /\ torn'[c] # "open"
               => claim.origin \in HumanOrigins /\ claim.status = verdict'[c]
      PROVE  VerdictKept'
  <2>1. ASSUME NEW d \in Claims
        PROVE  /\ torn'[d] = "open" => claims'[d] # Nothing
               /\ verdict'[d] \in Adverse =>
                    /\ claims'[d] # Nothing
                    /\ torn'[d] # "open" =>
                         claims'[d].origin \in HumanOrigins /\ claims'[d].status = verdict'[d]
    <3>1. CASE d = c
      <4>1. claims'[d] = claim /\ claim # Nothing
        BY <1>1, <3>1, KnowledgeLedgerAssumption DEF LedgerTypeOK
      <4> QED BY <1>1, <3>1, <4>1
    <3>2. CASE d # c
      <4>1. claims'[d] = claims[d]
        BY <1>1, <3>2 DEF LedgerTypeOK
      <4> QED BY <1>1, <3>2, <4>1 DEF VerdictKept
    <3> QED BY <3>1, <3>2
  <2> QED BY <2>1 DEF VerdictKept
<1>2. ASSUME UNCHANGED <<claims, torn>>,
             \A d \in Claims : verdict'[d] = verdict[d] \/ verdict'[d] \notin Adverse
      PROVE  VerdictKept'
  BY <1>2 DEF VerdictKept
<1>3. ASSUME NEW c \in Claims, NEW claim, NEW event, NEW version, Saved(c, claim, event, version),
             Mended(c)
      PROVE  /\ claims' = [claims EXCEPT ![c] = claim]
             /\ \A d \in Claims \ {c} : torn'[d] = torn[d]
  BY <1>3 DEF Saved, Mended, LedgerTypeOK
<1>4. ASSUME NEW c \in Claims, NEW content \in Contents, NEW contract \in Contracts,
             NEW declared \in Declared, ImportNew(c, content, contract, declared)
      PROVE  VerdictKept'
  <2>1. PICK claim : claim = [version |-> 1, status |-> declared, active |-> TRUE,
                       origin |-> Assigned("draft", declared), contract |-> contract,
                       document |-> content, sync |-> "pending", synced |-> 0]
    OBVIOUS
  <2>2. claim \in ClaimRow
    BY <2>1, AssignedType DEF ClaimRow, Declared, ReviewStates, SyncStates
  <2>3. verdict[c] \notin Adverse /\ verdict' = verdict
    BY <1>4 DEF ImportNew, VerdictKept
  <2>4. Written(c, claim, Event(declared))
    BY <1>4, <2>1 DEF ImportNew
  <2> QED BY <1>1, <1>3, <2>2, <2>3, <2>4 DEF Written
<1>5. ASSUME NEW c \in Claims, NEW content \in Contents, NEW contract \in Contracts,
             NEW declared \in Declared, NEW current \in BOOLEAN, NEW edited \in BOOLEAN,
             ImportAgain(c, content, contract, declared, current, edited)
      PROVE  VerdictKept'
  <2>1. PICK after : after = Imported(claims[c], content, contract, declared, current, edited)
    OBVIOUS
  <2>2. claims[c] \in ClaimRow
    BY <1>5 DEF ImportAgain, LedgerTypeOK
  <2>3. /\ after \in ClaimRow
        /\ after.status = Reconciled(claims[c], contract, declared, current)
        /\ after.origin = IF Preservable(claims[c], current) /\ claims[c].contract = contract
                          THEN claims[c].origin ELSE Assigned(claims[c].status, after.status)
    BY <2>1, <2>2, ImportedShape
  <2>4. /\ UNCHANGED <<claims, queue, torn>> \/ Written(c, after, Event(after.status))
        /\ Left(c, contract)
    BY <1>5, <2>1 DEF ImportAgain
  <2>5. /\ \A d \in Claims \ {c} : verdict'[d] = verdict[d]
        /\ verdict'[c] = IF claims[c].contract = contract /\ torn[c] # "open"
                         THEN verdict[c] ELSE "none"
    BY <2>4 DEF Left, LedgerTypeOK
  <2>6. CASE UNCHANGED <<claims, queue, torn>>
    BY <1>2, <2>5, <2>6 DEF Adverse
  <2>7. CASE Written(c, after, Event(after.status))
    <3>1. ASSUME verdict'[c] \in Adverse
          PROVE  after.origin \in HumanOrigins /\ after.status = verdict'[c]
      <4>1. claims[c].contract = contract /\ torn[c] # "open" /\ verdict'[c] = verdict[c]
        BY <2>5, <3>1 DEF Adverse
      <4>2. /\ claims[c].origin \in HumanOrigins /\ Preservable(claims[c], current)
            /\ Reconciled(claims[c], contract, declared, current) = verdict[c]
        BY <3>1, <4>1, VerdictRespected
      <4> QED BY <2>3, <4>1, <4>2
    <3> QED BY <1>1, <1>3, <2>3, <2>5, <2>7, <3>1 DEF Written
  <2> QED BY <2>4, <2>6, <2>7
<1>6. ASSUME NEW c \in Claims, NEW content \in Contents, ImportWithout(c, content)
      PROVE  VerdictKept'
  <2>1. claims[c] \in ClaimRow /\ claims[c].status \in ReviewStates /\ claims[c].origin \in Origins
    BY <1>6 DEF ImportWithout, LedgerTypeOK, ClaimRow
  <2>2. PICK after : after = Amended(claims[c], claims[c].status, FALSE, claims[c].origin)
    OBVIOUS
  <2>3. after \in ClaimRow /\ after.status = claims[c].status /\ after.origin = claims[c].origin
    BY <2>1, <2>2, AmendedType
  <2>4. \/ UNCHANGED <<claims, queue, verdict, torn>>
        \/ Written(c, after, "delete") /\ Left(c, claims[c].contract)
    BY <1>6, <2>2 DEF ImportWithout
  <2>5. CASE UNCHANGED <<claims, queue, verdict, torn>>
    BY <1>2, <2>5
  <2>6. CASE Written(c, after, "delete") /\ Left(c, claims[c].contract)
    <3>1. /\ \A d \in Claims \ {c} : verdict'[d] = verdict[d]
          /\ verdict'[c] = IF torn[c] # "open" THEN verdict[c] ELSE "none"
      BY <2>6 DEF Left, LedgerTypeOK
    <3>2. verdict'[c] \in Adverse => after.origin \in HumanOrigins /\ after.status = verdict'[c]
      BY <2>3, <3>1 DEF VerdictKept, Adverse
    <3> QED BY <1>1, <1>3, <2>3, <2>6, <3>1, <3>2 DEF Written
  <2> QED BY <2>4, <2>5, <2>6
<1>7. ASSUME NEW c \in Claims, ImportMisses(c) \/ ImportReads(c) \/ ImportLost(c)
      PROVE  VerdictKept'
  <2>1. UNCHANGED <<claims, torn, verdict>>
    BY <1>7 DEF ImportMisses, ImportReads, ImportLost
  <2> QED BY <1>2, <2>1
<1>8. ASSUME NEW c \in Claims, NEW content \in Contents, NEW contract \in Contracts,
             NEW declared \in Declared, NEW current \in BOOLEAN, NEW edited \in BOOLEAN,
             NEW unsigned \in BOOLEAN,
             ImportCommits(c, content, contract, declared, current, edited, unsigned)
      PROVE  VerdictKept'
  <2>1. /\ \A d \in Claims \ {c} : verdict'[d] = verdict[d]
        /\ verdict'[c] = IF claims[c].contract = contract /\ torn[c] # "open"
                         THEN verdict[c] ELSE "none"
    BY <1>8 DEF ImportCommits, Left, LedgerTypeOK
  <2>2. CASE UNCHANGED <<claims, queue, torn>>
    BY <1>2, <2>1, <2>2 DEF Adverse
  <2>3. ASSUME NEW claim \in ClaimRow, Written(c, claim, Event(claim.status)),
               claim.status = Reconciled(claims[c], contract, declared, current),
               claim.origin = IF Preservable(claims[c], current) /\ claims[c].contract = contract
                              THEN claims[c].origin ELSE Assigned(claims[c].status, claim.status)
        PROVE  VerdictKept'
    <3>1. ASSUME verdict'[c] \in Adverse
          PROVE  claim.origin \in HumanOrigins /\ claim.status = verdict'[c]
      <4>1. claims[c].contract = contract /\ torn[c] # "open" /\ verdict'[c] = verdict[c]
        BY <2>1, <3>1 DEF Adverse
      <4>2. /\ claims[c].origin \in HumanOrigins /\ Preservable(claims[c], current)
            /\ Reconciled(claims[c], contract, declared, current) = verdict[c]
        BY <3>1, <4>1, VerdictRespected
      <4> QED BY <2>3, <4>1, <4>2
    <3> QED BY <1>1, <1>3, <2>1, <2>3, <3>1 DEF Written
  <2>4. ASSUME NEW claim \in ClaimRow, NEW event, NEW version, Saved(c, claim, event, version),
               torn' = [torn EXCEPT ![c] = "open"]
        PROVE  VerdictKept'
    <3>1. /\ torn'[c] = "open" /\ \A d \in Claims \ {c} : torn'[d] = torn[d]
          /\ claims' = [claims EXCEPT ![c] = claim]
      BY <2>4 DEF Saved, LedgerTypeOK
    <3> QED BY <1>1, <2>1, <3>1
  <2> QED BY <1>8, <2>2, <2>3, <2>4, CommitEffect
<1>9. ASSUME NEW c \in Claims, NEW status \in ReviewStates, ReviewClaim(c, status)
      PROVE  VerdictKept'
  <2>1. PICK active \in BOOLEAN : active = (status # "rejected")
    OBVIOUS
  <2>2. claims[c] \in ClaimRow /\ "human" \in Origins
    BY <1>9 DEF ReviewClaim, LedgerTypeOK, Origins
  <2>3. PICK after : after = Amended(claims[c], status, active, "human")
    OBVIOUS
  <2>4. after \in ClaimRow /\ after.status = status /\ after.origin = "human"
    BY <2>2, <2>3, AmendedType
  <2>5. Written(c, after, Event(status)) /\ verdict' = [verdict EXCEPT ![c] = status]
    BY <1>9, <2>1, <2>3 DEF ReviewClaim
  <2>6. verdict'[c] = status /\ \A d \in Claims \ {c} : verdict'[d] = verdict[d]
    BY <2>5 DEF LedgerTypeOK
  <2>7. after.origin \in HumanOrigins
    BY <2>4 DEF HumanOrigins
  <2> QED BY <1>1, <1>3, <2>4, <2>5, <2>6, <2>7 DEF Written
<1>10. ASSUME NEW c \in Claims, ReviewAgain(c)
       PROVE  VerdictKept'
  <2>1. /\ claims[c] # Nothing /\ UNCHANGED <<claims, torn>>
        /\ verdict'[c] = IF claims[c].origin = "human" THEN claims[c].status ELSE "repeated"
        /\ \A d \in Claims \ {c} : verdict'[d] = verdict[d]
    BY <1>10 DEF ReviewAgain, LedgerTypeOK
  <2> QED BY <2>1 DEF VerdictKept, Adverse, HumanOrigins
<1>11. ASSUME NEW c \in Claims, RetireCard(c)
       PROVE  VerdictKept'
  <2>1. claims[c] \in ClaimRow /\ "rejected" \in ReviewStates /\ "policy" \in Origins
    BY <1>11 DEF RetireCard, LedgerTypeOK, ReviewStates, Origins
  <2>2. PICK after : after = Amended(claims[c], "rejected", FALSE, "policy")
    OBVIOUS
  <2>3. after \in ClaimRow
    BY <2>1, <2>2, AmendedType
  <2>4. Written(c, after, "delete") /\ verdict' = [verdict EXCEPT ![c] = "none"]
    BY <1>11, <2>2 DEF RetireCard
  <2>5. verdict'[c] \notin Adverse /\ \A d \in Claims \ {c} : verdict'[d] = verdict[d]
    BY <2>4 DEF LedgerTypeOK, Adverse
  <2> QED BY <1>1, <1>3, <2>3, <2>4, <2>5 DEF Written
<1>12. CASE UNCHANGED ledger
  BY <1>2, <1>12 DEF ledger
<1>13. CASE LedgerNext
  <2>1. PICK c \in Claims : LedgerStep(c)
    BY <1>13 DEF LedgerNext
  <2> QED
    BY <1>4, <1>5, <1>6, <1>7, <1>8, <1>9, <1>10, <1>11, <2>1 DEF LedgerStep, Import, Declares
<1> QED BY <1>12, <1>13

\* A claim that a recorded human verdict quarantines or rejects stays unserved
\* through any number of imports, removals and returns under the same contract,
\* until a human reviews it again, its contract changes, its card is retired or
\* an import overwrites the verdict without having read it.
THEOREM HumanVerdictsStand == LedgerSpec => []VerdictStands
<1>1. LedgerInit => LedgerInv /\ VerdictKept
  BY LedgerTypeInit DEF LedgerInit, VerdictKept, Adverse
<1>2. (LedgerInv /\ VerdictKept) /\ [LedgerNext]_ledger => (LedgerInv /\ VerdictKept)'
  BY LedgerTypeStep, ReadingsStep, VerdictStep DEF LedgerInv
<1>3. VerdictKept => VerdictStands
  BY DEF VerdictKept, VerdictStands, Served, Servable, Adverse
<1> QED BY <1>1, <1>2, <1>3, PTL DEF LedgerSpec
-----------------------------------------------------------------------------
(* Draining: types and groups.                                             *)

OutboxIds == 1..Len(queue)

\* The rows of a claim, the newest of them and the groups of a window, in a given outbox.
ClaimIn(rows, S, c) == {i \in S : rows[i].claim = c}
NewestIn(rows, S, c) == CHOOSE i \in ClaimIn(rows, S, c) : \A j \in ClaimIn(rows, S, c) : j <= i
GroupIn(rows, S, event) == {i \in S : rows[NewestIn(rows, S, rows[i].claim)].event = event}

\* The bound on rows holds.
RowsFit == Len(queue) <= MaxRows

\* No row is about a claim that does not exist.
RowsHaveClaims == \A i \in OutboxIds : claims[queue[i].claim] # Nothing

\* A pass has leased rows that exist, and settles rows of the group it projected.
PassesHold ==
  \A w \in Drainers :
    /\ drainer[w].window \subseteq OutboxIds
    /\ drainer[w].verdict = "none" => drainer[w].open = {}
    /\ drainer[w].verdict # "none" =>
         /\ drainer[w].phase # "idle"
         /\ drainer[w].open \subseteq GroupIn(queue, drainer[w].window, drainer[w].phase)

DrainInv == DrainTypeOK /\ ReadingsHold /\ RowsFit /\ RowsHaveClaims /\ PassesHold

\* What every step does to the rows there are: what they are about stays.
RowsKept ==
  /\ OutboxIds \subseteq OutboxIds'
  /\ \A i \in OutboxIds : /\ queue'[i].claim = queue[i].claim
                          /\ queue'[i].event = queue[i].event
                          /\ queue'[i].version = queue[i].version

\* A set of natural numbers has a least one, and one below a bound a greatest.
LEMMA Extremes ==
  ASSUME NEW S \in SUBSET Nat, S # {}
  PROVE  /\ \E n \in S : \A o \in S : n <= o
         /\ \A b \in Nat : (\A n \in S : n <= b) => \E n \in S : \A o \in S : o <= n
<1>1. ASSUME NEW T \in SUBSET Nat, T # {} PROVE \E n \in T : \A o \in T : n <= o
  <2>1. PICK n \in T : \A o \in T : ~(<<o, n>> \in OpToRel(<, Nat))
    BY <1>1, WFMin, NatLessThanWellFounded
  <2>2. OpToRel(<, Nat) = {ss \in Nat \X Nat : ss[1] < ss[2]}
    BY DEF OpToRel
  <2>3. ASSUME NEW o \in T PROVE n <= o
    <3>1. <<o, n>> \notin {ss \in Nat \X Nat : ss[1] < ss[2]}
      BY <2>1, <2>2
    <3> QED BY <3>1
  <2> QED BY <2>3
<1>2. ASSUME NEW b \in Nat, \A n \in S : n <= b PROVE \E n \in S : \A o \in S : o <= n
  <2>1. PICK T : T = {b - n : n \in S}
    OBVIOUS
  <2>2. T \in SUBSET Nat /\ T # {}
    <3>1. \A n \in S : b - n \in Nat
      BY <1>2
    <3> QED BY <2>1, <3>1
  <2>3. PICK d \in T : \A o \in T : d <= o
    BY <1>1, <2>2
  <2>4. PICK n \in S : d = b - n
    BY <2>1
  <2>5. ASSUME NEW o \in S PROVE o <= n
    <3>1. d <= b - o
      BY <2>1, <2>3
    <3> QED BY <2>4, <3>1
  <2> QED BY <2>5
<1> QED BY <1>1, <1>2

\* The rows there are.
LEMMA OutboxShape ==
  ASSUME LedgerTypeOK
  PROVE  /\ Len(queue) \in Nat /\ DOMAIN queue = OutboxIds /\ OutboxIds \subseteq Nat
         /\ \A i \in OutboxIds : queue[i] \in Row
BY DEF LedgerTypeOK, OutboxIds

\* They are what the model calls so.
LEMMA InTerms ==
  \A S, c, event : /\ Of(S, c) = ClaimIn(queue, S, c) /\ NewestOf(S, c) = NewestIn(queue, S, c)
                   /\ Group(S, event) = GroupIn(queue, S, event)
<1>1. \A S, c : Of(S, c) = ClaimIn(queue, S, c) /\ NewestOf(S, c) = NewestIn(queue, S, c)
  BY DEF Of, NewestOf, ClaimIn, NewestIn
<1>2. \A S, event : Group(S, event) = GroupIn(queue, S, event)
  BY <1>1 DEF Group, GroupIn
<1> QED BY <1>1, <1>2

\* The newest row of a claim in a window is one of its rows, behind the others.
LEMMA NewestExists ==
  ASSUME LedgerTypeOK, NEW S \in SUBSET OutboxIds, NEW c, NEW i \in S, queue[i].claim = c
  PROVE  /\ NewestIn(queue, S, c) \in S /\ queue[NewestIn(queue, S, c)].claim = c
         /\ \A j \in S : queue[j].claim = c => j <= NewestIn(queue, S, c)
<1>1. PICK T : T = ClaimIn(queue, S, c)
  OBVIOUS
<1>2. T \in SUBSET Nat /\ T # {} /\ \A n \in T : n <= Len(queue)
  <2>1. T \subseteq OutboxIds /\ i \in T
    BY <1>1 DEF ClaimIn
  <2> QED BY <2>1, OutboxShape DEF OutboxIds
<1>3. \E n \in T : \A o \in T : o <= n
  BY <1>2, Extremes, OutboxShape
<1>4. NewestIn(queue, S, c) \in T /\ \A o \in T : o <= NewestIn(queue, S, c)
  BY <1>1, <1>3 DEF NewestIn
<1> QED BY <1>1, <1>4 DEF ClaimIn

\* So every row of a window belongs to one group, with all rows of its claim.
LEMMA GroupShape ==
  ASSUME LedgerTypeOK, NEW S \in SUBSET OutboxIds
  PROVE  /\ \A event : GroupIn(queue, S, event) \subseteq S
         /\ GroupIn(queue, S, "delete") \cup GroupIn(queue, S, "upsert") = S
         /\ GroupIn(queue, S, "delete") \cap GroupIn(queue, S, "upsert") = {}
         /\ \A event, i, j :
              i \in GroupIn(queue, S, event) /\ j \in S /\ queue[j].claim = queue[i].claim
                => j \in GroupIn(queue, S, event)
<1>1. ASSUME NEW i \in S PROVE queue[NewestIn(queue, S, queue[i].claim)].event \in Events
  <2>1. NewestIn(queue, S, queue[i].claim) \in OutboxIds
    BY NewestExists
  <2> QED BY <2>1, OutboxShape DEF Row
<1>2. \A event : GroupIn(queue, S, event) \subseteq S
  BY DEF GroupIn
<1>3. GroupIn(queue, S, "delete") \cup GroupIn(queue, S, "upsert") = S
  BY <1>1 DEF GroupIn, Events
<1>4. GroupIn(queue, S, "delete") \cap GroupIn(queue, S, "upsert") = {}
  BY DEF GroupIn
<1>5. ASSUME NEW event, NEW i \in GroupIn(queue, S, event), NEW j \in S,
             queue[j].claim = queue[i].claim
      PROVE  j \in GroupIn(queue, S, event)
  BY <1>5 DEF GroupIn
<1> QED BY <1>2, <1>3, <1>4, <1>5

\* Two outboxes that agree about the rows of a window agree about its groups.
LEMMA GroupsAgree ==
  ASSUME NEW r, NEW s, NEW S,
         \A i \in S : s[i].claim = r[i].claim /\ s[i].event = r[i].event,
         \A i \in S : NewestIn(r, S, r[i].claim) \in S
  PROVE  /\ \A c : ClaimIn(s, S, c) = ClaimIn(r, S, c) /\ NewestIn(s, S, c) = NewestIn(r, S, c)
         /\ \A event : GroupIn(s, S, event) = GroupIn(r, S, event)
<1>1. ASSUME NEW c PROVE ClaimIn(s, S, c) = ClaimIn(r, S, c)
  BY DEF ClaimIn
<1>2. ASSUME NEW c PROVE NewestIn(s, S, c) = NewestIn(r, S, c)
  BY <1>1 DEF NewestIn
<1>3. ASSUME NEW event PROVE GroupIn(s, S, event) = GroupIn(r, S, event)
  <2>1. ASSUME NEW i \in S
        PROVE  s[NewestIn(s, S, s[i].claim)].event = r[NewestIn(r, S, r[i].claim)].event
    BY <1>2
  <2> QED BY <2>1 DEF GroupIn
<1> QED BY <1>1, <1>2, <1>3

\* Groups depend only on what rows are about.
LEMMA GroupsKept ==
  ASSUME LedgerTypeOK, RowsKept, NEW S \in SUBSET OutboxIds
  PROVE  /\ \A c : /\ ClaimIn(queue', S, c) = ClaimIn(queue, S, c)
                   /\ NewestIn(queue', S, c) = NewestIn(queue, S, c)
         /\ \A event : GroupIn(queue', S, event) = GroupIn(queue, S, event)
<1>1. PICK r, s : r = queue /\ s = queue'
  OBVIOUS
<1>2. \A i \in S : s[i].claim = r[i].claim /\ s[i].event = r[i].event
  BY <1>1 DEF RowsKept
<1>3. \A i \in S : NewestIn(r, S, r[i].claim) \in S
  BY <1>1, NewestExists
<1>4. /\ \A c : ClaimIn(s, S, c) = ClaimIn(r, S, c) /\ NewestIn(s, S, c) = NewestIn(r, S, c)
      /\ \A event : GroupIn(s, S, event) = GroupIn(r, S, event)
  BY <1>2, <1>3, GroupsAgree
<1> QED BY <1>1, <1>4
-----------------------------------------------------------------------------
(* Draining: what the steps of a worker do.                                *)

\* The parts of a pass, and the pass that has none.
LEMMA PassShape ==
  /\ \A p \in DrainPass : /\ p.phase \in {"idle"} \cup Events /\ p.window \in SUBSET Rows
                          /\ p.tries \in [Rows -> Nat] /\ p.open \in SUBSET Rows
                          /\ p.verdict \in {"none", "done", "failed"} /\ p.seen \in ClaimRow \cup {Nothing}
  /\ DrainIdle \in DrainPass /\ DrainIdle.phase = "idle" /\ DrainIdle.window = {} /\ DrainIdle.open = {}
  /\ DrainIdle.verdict = "none" /\ DrainIdle.seen = Nothing
BY DEF DrainPass, DrainIdle

\* The rows fit into the bound.
LEMMA WithinBound ==
  ASSUME DrainInv
  PROVE  OutboxIds \subseteq Rows
BY OutboxShape, KnowledgeLedgerAssumption DEF DrainInv, DrainTypeOK, RowsFit, OutboxIds, Rows

\* What an idle worker does next, and one that has settled a group.
LEMMA NextPhase ==
  \A phase, window :
    /\ PhaseAfter(phase, window) \in {"idle"} \cup Events
    /\ PhaseAfter("delete", window) \in {"idle", "upsert"}
    /\ PhaseAfter("upsert", window) = "idle"
BY DEF PhaseAfter, Events

\* Rewriting some rows in place keeps the outbox.
LEMMA RowsRewritten ==
  ASSUME LedgerTypeOK, DOMAIN queue' = DOMAIN queue, queue' = [i \in DOMAIN queue |-> queue'[i]],
         \A i \in OutboxIds : /\ queue'[i] \in Row /\ queue'[i].claim = queue[i].claim
                              /\ queue'[i].event = queue[i].event
                              /\ queue'[i].version = queue[i].version
  PROVE  /\ queue' \in Seq(Row) /\ Len(queue') = Len(queue) /\ OutboxIds' = OutboxIds
         /\ RowsKept
<1>1. Len(queue) \in Nat /\ DOMAIN queue = OutboxIds
  BY OutboxShape
<1>2. queue' \in [1..Len(queue) -> Row]
  BY <1>1 DEF OutboxIds
<1>3. queue' \in Seq(Row) /\ Len(queue') = Len(queue)
  BY <1>1, <1>2
<1> QED BY <1>3 DEF OutboxIds, RowsKept

\* A lease takes rows that wait, or that a lease has run out of, oldest first.
LEMMA LeaseEffect ==
  ASSUME DrainInv, NEW w \in Drainers, NEW due, Lease(w, due)
  PROVE  \E q \in DrainPass :
           /\ drainer' = [drainer EXCEPT ![w] = q] /\ drainer[w].phase = "idle"
           /\ q.window \subseteq OutboxIds /\ q.phase = PhaseAfter("idle", q.window)
           /\ q.open = {} /\ q.verdict = "none" /\ q.seen = Nothing
           /\ \A i \in q.window : /\ \/ queue[i].status = "pending"
                                     \/ queue[i].status = "processing" /\ Expirable(i)
                                  /\ queue'[i].status = "processing"
                                  /\ queue'[i].attempts = queue[i].attempts
           /\ \A i \in OutboxIds \ q.window : queue'[i] = queue[i]
           /\ DrainBatch \in Nat => \A i \in q.window, j \in OutboxIds :
                                     j < i /\ queue[j].status = "pending" /\ queue[j].attempts = 0
                                       => j \in q.window
           /\ RowsKept /\ OutboxIds' = OutboxIds /\ queue' \in Seq(Row) /\ Len(queue') = Len(queue)
           /\ UNCHANGED <<undrained, claims, index, drainCrashes>>
<1>0. LedgerTypeOK /\ DrainTypeOK
  BY DEF DrainInv, DrainTypeOK
<1>1. /\ Len(queue) \in Nat /\ DOMAIN queue = OutboxIds /\ OutboxIds \subseteq Nat
      /\ \A i \in OutboxIds : queue[i] \in Row
  BY <1>0, OutboxShape
<1>2. OutboxIds \subseteq Rows
  BY WithinBound
<1>3. PICK E : E = Eligible(due)
  OBVIOUS
<1>4. /\ E \subseteq OutboxIds
      /\ \A i \in E : \/ queue[i].status = "pending"
                      \/ queue[i].status = "processing" /\ Expirable(i)
      /\ \A i \in OutboxIds : queue[i].status = "pending" /\ queue[i].attempts = 0 => i \in E
  BY <1>1, <1>3 DEF Eligible
<1>5. PICK window : window = FirstOf(E)
  OBVIOUS
<1>6. window \subseteq E
  BY <1>5 DEF FirstOf
<1>7. PICK tries : tries = [i \in Rows |-> IF i \in window THEN queue[i].attempts ELSE 0]
  OBVIOUS
<1>8. tries \in [Rows -> Nat]
  BY <1>1, <1>4, <1>6, <1>7 DEF Row
<1>9. PICK phase : phase = PhaseAfter("idle", window)
  OBVIOUS
<1>10. PICK idle : idle = DrainIdle
  OBVIOUS
<1>11. PICK q : q = [idle EXCEPT !.phase = phase, !.window = window, !.tries = tries]
  OBVIOUS
<1>20. /\ q \in DrainPass /\ q.window = window /\ q.phase = phase /\ q.open = {}
       /\ q.verdict = "none" /\ q.seen = Nothing
  <2>1. window \in SUBSET Rows
    BY <1>2, <1>4, <1>6
  <2>2. phase \in {"idle"} \cup Events
    BY <1>9, NextPhase
  <2>3. idle \in DrainPass /\ idle.open = {} /\ idle.verdict = "none" /\ idle.seen = Nothing
    BY <1>10, PassShape
  <2> QED BY <1>8, <1>11, <2>1, <2>2, <2>3 DEF DrainPass
<1>21. drainer' = [drainer EXCEPT ![w] = q] /\ drainer[w].phase = "idle"
  BY <1>3, <1>5, <1>7, <1>9, <1>10, <1>11 DEF Lease
<1>12. queue' = [i \in DOMAIN queue |->
          IF i \in window THEN [queue[i] EXCEPT !.status = "processing"] ELSE queue[i]]
  BY <1>3, <1>5 DEF Lease
<1>13. \A i \in OutboxIds \ window : queue'[i] = queue[i]
  BY <1>1, <1>12
<1>14. \A i \in window : /\ queue'[i] \in Row /\ queue'[i].status = "processing"
                         /\ queue'[i].claim = queue[i].claim /\ queue'[i].event = queue[i].event
                         /\ queue'[i].version = queue[i].version
                         /\ queue'[i].attempts = queue[i].attempts
  <2>1. ASSUME NEW row \in Row, NEW new, new = [row EXCEPT !.status = "processing"]
        PROVE  /\ new \in Row /\ new.status = "processing" /\ new.claim = row.claim
               /\ new.event = row.event /\ new.version = row.version /\ new.attempts = row.attempts
    BY <2>1 DEF Row
  <2>2. \A i \in window : /\ queue[i] \in Row
                          /\ queue'[i] = [queue[i] EXCEPT !.status = "processing"]
    BY <1>1, <1>4, <1>6, <1>12
  <2>3. SUFFICES ASSUME NEW i \in window
                 PROVE  /\ queue'[i] \in Row /\ queue'[i].status = "processing"
                        /\ queue'[i].claim = queue[i].claim /\ queue'[i].event = queue[i].event
                        /\ queue'[i].version = queue[i].version
                        /\ queue'[i].attempts = queue[i].attempts
    OBVIOUS
  <2> QED BY <2>1, <2>2
<1>15. /\ queue' \in Seq(Row) /\ Len(queue') = Len(queue) /\ OutboxIds' = OutboxIds
       /\ RowsKept
  <2>1. DOMAIN queue' = DOMAIN queue /\ queue' = [i \in DOMAIN queue |-> queue'[i]]
    BY <1>12
  <2>2. \A i \in OutboxIds : /\ queue'[i] \in Row /\ queue'[i].claim = queue[i].claim
                             /\ queue'[i].event = queue[i].event
                             /\ queue'[i].version = queue[i].version
    BY <1>1, <1>13, <1>14
  <2> QED BY <1>0, <2>1, <2>2, RowsRewritten
<1>16. DrainBatch \in Nat => \A i \in window, j \in OutboxIds :
                              j < i /\ queue[j].status = "pending" /\ queue[j].attempts = 0
                                => j \in window
  <2>0. SUFFICES ASSUME DrainBatch \in Nat, NEW i \in window, NEW j \in OutboxIds, j < i,
                        queue[j].status = "pending", queue[j].attempts = 0
                 PROVE  j \in window
    OBVIOUS
  <2>1. j \in E /\ i \in E /\ i \in Nat /\ j \in Nat
    BY <1>1, <1>4, <1>6, <2>0
  <2>2. E \subseteq Nat
    BY <1>1, <1>4
  <2>3. {o \in E : o <= j} \subseteq {o \in E : o <= i}
    <3>1. ASSUME NEW o \in E, o <= j PROVE o <= i
      <4>1. o \in Nat
        BY <2>2
      <4> QED BY <2>0, <2>1, <3>1, <4>1
    <3> QED BY <3>1
  <2>4. IsFiniteSet({o \in E : o <= i})
    <3>1. IsFiniteSet(1..Len(queue))
      BY <1>1, FS_Interval
    <3>2. {o \in E : o <= i} \subseteq 1..Len(queue)
      BY <1>4 DEF OutboxIds
    <3> QED BY <3>1, <3>2, FS_Subset
  <2>5. /\ Cardinality({o \in E : o <= j}) <= Cardinality({o \in E : o <= i})
        /\ Cardinality({o \in E : o <= j}) \in Nat /\ Cardinality({o \in E : o <= i}) \in Nat
    BY <2>3, <2>4, FS_Subset, FS_CardinalityType
  <2>6. Cardinality({o \in E : o <= i}) <= DrainBatch
    BY <1>5 DEF FirstOf
  <2> QED BY <1>5, <2>0, <2>1, <2>5, <2>6 DEF FirstOf
<1>17. UNCHANGED <<undrained, claims, index, drainCrashes>>
  BY DEF Lease
<1> QED BY <1>4, <1>6, <1>9, <1>13, <1>14, <1>15, <1>16, <1>17, <1>20, <1>21

\* One call sends the group of the phase; the call that succeeds has been applied.
LEMMA ProjectEffect ==
  ASSUME DrainInv, NEW w \in Drainers, NEW ok \in BOOLEAN, Project(w, ok)
  PROVE  \E q \in DrainPass :
           /\ drainer' = [drainer EXCEPT ![w] = q]
           /\ drainer[w].phase # "idle" /\ drainer[w].verdict = "none"
           /\ q.phase = drainer[w].phase /\ q.window = drainer[w].window /\ q.seen = drainer[w].seen
           /\ q.open = GroupIn(queue, drainer[w].window, drainer[w].phase)
           /\ q.verdict = IF ok THEN "done" ELSE "failed"
           /\ index' \in [Claims -> Nat]
           /\ ok => \A c \in Claims :
                index'[c] = IF ClaimIn(queue, q.open, c) = {} THEN index[c]
                            ELSE queue[NewestIn(queue, q.open, c)].version
           /\ UNCHANGED <<undrained, claims, queue, drainCrashes>>
<1>0. LedgerTypeOK /\ index \in [Claims -> Nat] /\ drainer \in [Drainers -> DrainPass]
  BY DEF DrainInv, DrainTypeOK
<1>1. PICK p : p = drainer[w]
  OBVIOUS
<1>2. p \in DrainPass /\ p.window \in SUBSET OutboxIds
  BY <1>0, <1>1 DEF DrainInv, PassesHold
<1>3. PICK group : group = GroupIn(queue, p.window, p.phase)
  OBVIOUS
<1>4. group \in SUBSET OutboxIds /\ group \in SUBSET Rows
  BY <1>0, <1>2, <1>3, GroupShape, WithinBound
<1>5. group = Group(drainer[w].window, drainer[w].phase)
  BY <1>1, <1>3, InTerms
<1>6. PICK applied : applied = [c \in Claims |->
                       IF ClaimIn(queue, group, c) = {} THEN index[c]
                       ELSE queue[NewestIn(queue, group, c)].version]
  OBVIOUS
<1>7. applied \in [Claims -> Nat]
  <2>1. ASSUME NEW c \in Claims, ClaimIn(queue, group, c) # {}
        PROVE  queue[NewestIn(queue, group, c)].version \in Nat
    <3>1. PICK i \in group : queue[i].claim = c
      BY <2>1 DEF ClaimIn
    <3>2. NewestIn(queue, group, c) \in OutboxIds
      BY <1>0, <1>4, <3>1, NewestExists
    <3> QED BY <1>0, <3>2, OutboxShape DEF Row
  <2> QED BY <1>0, <1>6, <2>1
<1>8. applied = [c \in Claims |-> IF Of(group, c) = {} THEN index[c]
                                   ELSE queue[NewestOf(group, c)].version]
  BY <1>6, InTerms
<1>9. PICK v : v = IF ok THEN "done" ELSE "failed"
  OBVIOUS
<1>10. PICK q : q = [p EXCEPT !.open = group, !.verdict = v]
  OBVIOUS
<1>11. /\ q \in DrainPass /\ q.phase = p.phase /\ q.window = p.window /\ q.seen = p.seen
       /\ q.open = group /\ q.verdict = v
  BY <1>2, <1>4, <1>9, <1>10 DEF DrainPass
<1>12. /\ drainer[w].phase # "idle" /\ drainer[w].verdict = "none"
       /\ index' \in {applied} \cup (IF ok THEN {} ELSE {index})
       /\ drainer' = [drainer EXCEPT ![w].open = group, ![w].verdict = v]
       /\ UNCHANGED <<undrained, claims, queue, drainCrashes>>
  BY <1>5, <1>8, <1>9 DEF Project, ledger, undrained
<1>13. drainer' = [drainer EXCEPT ![w] = q]
  BY <1>0, <1>1, <1>10, <1>12
<1>14. index' \in [Claims -> Nat] /\ (ok => index' = applied)
  BY <1>0, <1>7, <1>12
<1>15. ok => \A c \in Claims : index'[c] = IF ClaimIn(queue, group, c) = {} THEN index[c]
                                           ELSE queue[NewestIn(queue, group, c)].version
  BY <1>6, <1>14
<1> QED BY <1>1, <1>3, <1>9, <1>11, <1>12, <1>13, <1>14, <1>15

\* Reading the claim changes only what the pass has seen.
LEMMA ReadEffect ==
  ASSUME DrainInv, NEW w \in Drainers, NEW i \in OutboxIds, ReadClaim(w, i)
  PROVE  \E q \in DrainPass :
           /\ drainer' = [drainer EXCEPT ![w] = q]
           /\ q.phase = drainer[w].phase /\ q.window = drainer[w].window /\ q.open = drainer[w].open
           /\ q.verdict = drainer[w].verdict /\ q.seen = claims[queue[i].claim]
           /\ drainer[w].verdict = "done" /\ i \in drainer[w].open
           /\ UNCHANGED <<undrained, claims, queue, index, drainCrashes>>
<1>1. LedgerTypeOK /\ drainer \in [Drainers -> DrainPass] /\ queue[i] \in Row
  BY OutboxShape DEF DrainInv, DrainTypeOK
<1>2. PICK p : p = drainer[w]
  OBVIOUS
<1>3. PICK s : s = claims[queue[i].claim]
  OBVIOUS
<1>4. s \in ClaimRow \cup {Nothing}
  BY <1>1, <1>3 DEF LedgerTypeOK, Row
<1>5. PICK q : q = [p EXCEPT !.seen = s]
  OBVIOUS
<1>6. /\ q \in DrainPass /\ q.phase = p.phase /\ q.window = p.window /\ q.open = p.open
      /\ q.verdict = p.verdict /\ q.seen = s
  <2>1. p \in DrainPass
    BY <1>1, <1>2
  <2> QED BY <1>4, <1>5, <2>1 DEF DrainPass
<1>7. drainer' = [drainer EXCEPT ![w] = q]
  BY <1>1, <1>2, <1>3, <1>5 DEF ReadClaim
<1> QED BY <1>2, <1>3, <1>6, <1>7 DEF ReadClaim, RowTurn, ledger, undrained

\* The pass after a row is settled: the rest of its group, the group of the
\* upserts, or none.
LEMMA SettledEffect ==
  ASSUME DrainInv, NEW w \in Drainers, NEW i \in OutboxIds, RowTurn(w, i), drainer[w].verdict # "none"
  PROVE  \E q \in DrainPass :
           /\ q = Settled(w, i) /\ q.seen = Nothing
           /\ \/ /\ q.phase = drainer[w].phase /\ q.window = drainer[w].window
                 /\ q.verdict = drainer[w].verdict /\ q.open = drainer[w].open \ {i}
              \/ /\ drainer[w].open = {i} /\ q = DrainIdle
                 /\ drainer[w].phase = "delete" => Group(drainer[w].window, "upsert") = {}
              \/ /\ drainer[w].open = {i} /\ drainer[w].phase = "delete" /\ q.phase = "upsert"
                 /\ q.window = drainer[w].window /\ q.open = {} /\ q.verdict = "none"
<1>1. PICK p : p = drainer[w]
  OBVIOUS
<1>2. p \in DrainPass /\ p.phase \in Events
  <2>1. p \in DrainPass /\ p.phase # "idle"
    BY <1>1 DEF DrainInv, DrainTypeOK, PassesHold
  <2> QED BY <2>1, PassShape
<1>3. PICK next : next = PhaseAfter(p.phase, p.window)
  OBVIOUS
<1>4. /\ next \in {"idle", "upsert"}
      /\ next = "upsert" => p.phase = "delete"
      /\ p.phase = "delete" /\ next = "idle" => Group(p.window, "upsert") = {}
  BY <1>2, <1>3 DEF PhaseAfter, Events
<1>5. CASE p.open # {i}
  <2>1. PICK q : q = [p EXCEPT !.open = p.open \ {i}, !.seen = Nothing]
    OBVIOUS
  <2>2. /\ q \in DrainPass /\ q.phase = p.phase /\ q.window = p.window /\ q.verdict = p.verdict
        /\ q.open = p.open \ {i} /\ q.seen = Nothing
    BY <1>2, <2>1 DEF DrainPass
  <2>3. q = Settled(w, i)
    BY <1>1, <1>5, <2>1 DEF Settled
  <2> QED BY <1>1, <2>2, <2>3
<1>6. CASE p.open = {i} /\ next = "idle"
  <2>1. Settled(w, i) = DrainIdle
    BY <1>1, <1>3, <1>6 DEF Settled
  <2> QED BY <1>1, <1>4, <1>6, <2>1, PassShape
<1>7. CASE p.open = {i} /\ next = "upsert"
  <2>1. PICK q : q = [p EXCEPT !.phase = next, !.open = {}, !.verdict = "none", !.seen = Nothing]
    OBVIOUS
  <2>2. /\ q \in DrainPass /\ q.phase = "upsert" /\ q.window = p.window /\ q.verdict = "none"
        /\ q.open = {} /\ q.seen = Nothing
    BY <1>2, <1>7, <2>1 DEF DrainPass, Events
  <2>3. q = Settled(w, i)
    BY <1>1, <1>3, <1>7, <2>1 DEF Settled
  <2> QED BY <1>1, <1>4, <1>7, <2>2, <2>3
<1> QED BY <1>4, <1>5, <1>6, <1>7

\* A row that is settled is the only one that changes.
LEMMA RowSettled ==
  ASSUME LedgerTypeOK, NEW i \in OutboxIds, NEW row \in Row, queue' = [queue EXCEPT ![i] = row],
         row.claim = queue[i].claim, row.event = queue[i].event, row.version = queue[i].version
  PROVE  /\ queue' \in Seq(Row) /\ Len(queue') = Len(queue) /\ OutboxIds' = OutboxIds
         /\ RowsKept /\ queue'[i] = row
         /\ \A j \in OutboxIds : j # i => queue'[j] = queue[j]
<1>1. DOMAIN queue = OutboxIds /\ \A j \in OutboxIds : queue[j] \in Row
  BY OutboxShape
<1>2. /\ DOMAIN queue' = DOMAIN queue /\ queue' = [j \in DOMAIN queue |-> queue'[j]]
      /\ queue'[i] = row /\ \A j \in OutboxIds : j # i => queue'[j] = queue[j]
  BY <1>1
<1>3. \A j \in OutboxIds : /\ queue'[j] \in Row /\ queue'[j].claim = queue[j].claim
                           /\ queue'[j].event = queue[j].event
                           /\ queue'[j].version = queue[j].version
  BY <1>1, <1>2
<1> QED BY <1>2, <1>3, RowsRewritten

\* What marking a claim leaves alone: its version and what is served of it.
LEMMA MarkedShape ==
  ASSUME NEW claim \in ClaimRow, NEW seen \in ClaimRow, NEW version \in Nat
  PROVE  /\ Marked(claim, seen, version) \in ClaimRow
         /\ Marked(claim, seen, version).version = claim.version
         /\ Alike(claim, Marked(claim, seen, version))
         /\ Marked(claim, seen, version).sync \in {claim.sync, "synced"}
         /\ Marked(claim, seen, version).synced \in {claim.synced, version}
         /\ Marked(claim, seen, version).synced # claim.synced => seen.version = version
<1>1. PICK mark, count : /\ mark = IF seen.sync = "synced" THEN claim.sync ELSE "synced"
                         /\ count = IF seen.synced = version THEN claim.synced ELSE version
  OBVIOUS
<1>2. mark \in SyncStates /\ mark \in {claim.sync, "synced"} /\ count \in Nat
      /\ count \in {claim.synced, version}
  BY <1>1 DEF ClaimRow, SyncStates
<1>3. PICK m : m = [claim EXCEPT !.sync = mark, !.synced = count]
  OBVIOUS
<1>4. /\ m \in ClaimRow /\ m.version = claim.version /\ Alike(claim, m)
      /\ m.sync = mark /\ m.synced = count
  BY <1>2, <1>3 DEF ClaimRow, Alike
<1>5. Marked(claim, seen, version) = IF seen.version # version THEN claim ELSE m
  BY <1>1, <1>3 DEF Marked
<1>6. Alike(claim, claim)
  BY DEF Alike
<1> QED BY <1>2, <1>4, <1>5, <1>6

\* The claims there are, their versions and all they say but how they are synced.
ClaimsKept ==
  \A c \in Claims :
    /\ claims'[c] = Nothing <=> claims[c] = Nothing
    /\ claims[c] # Nothing => /\ claims'[c].version = claims[c].version
                              /\ Alike(claims[c], claims'[c])

\* That is enough for what imports under way have read.
LEMMA ReadingsKept ==
  ASSUME ReadingsHold, ClaimsKept, imports' = imports
  PROVE  ReadingsHold'
BY DEF ReadingsHold, ClaimsKept, Alike

\* Settling a row that was projected marks it done, and its claim if it was read
\* in the version of the row.
LEMMA DoneEffect ==
  ASSUME DrainInv, NEW w \in Drainers, NEW i \in OutboxIds, MarkDone(w, i)
  PROVE  /\ RowTurn(w, i) /\ drainer[w].verdict = "done"
         /\ drainer' = [drainer EXCEPT ![w] = Settled(w, i)]
         /\ queue' \in Seq(Row) /\ Len(queue') = Len(queue) /\ OutboxIds' = OutboxIds
         /\ RowsKept /\ queue'[i].status = "done" /\ queue'[i].attempts = queue[i].attempts
         /\ \A j \in OutboxIds : j # i => queue'[j] = queue[j]
         /\ claims' \in [Claims -> ClaimRow \cup {Nothing}] /\ ClaimsKept
         /\ \/ claims' = claims
            \/ \E m \in ClaimRow :
                 /\ claims' = [claims EXCEPT ![queue[i].claim] = m] /\ queue[i].event = "upsert"
                 /\ m.version = claims[queue[i].claim].version
                 /\ m.sync \in {claims[queue[i].claim].sync, "synced"}
                 /\ m.synced \in {claims[queue[i].claim].synced, queue[i].version}
         /\ UNCHANGED <<undrained, index, drainCrashes>>
<1>1. LedgerTypeOK /\ claims \in [Claims -> ClaimRow \cup {Nothing}] /\ drainer[w] \in DrainPass
  BY DEF DrainInv, DrainTypeOK, LedgerTypeOK
<1>2. PICK row : row = queue[i]
  OBVIOUS
<1>3. row \in Row /\ row.claim \in Claims /\ row.version \in Nat /\ row.event \in Events
  BY <1>1, <1>2, OutboxShape DEF Row
<1>4. PICK claim : claim = claims[row.claim]
  OBVIOUS
<1>5. claim \in ClaimRow
  BY <1>1, <1>2, <1>3, <1>4 DEF DrainInv, RowsHaveClaims
<1>6. /\ RowTurn(w, i) /\ drainer[w].verdict = "done"
      /\ drainer' = [drainer EXCEPT ![w] = Settled(w, i)]
      /\ row.event = "upsert" => drainer[w].seen # Nothing
      /\ queue' = [queue EXCEPT ![i].status = "done"]
      /\ claims' = IF row.event = "delete" THEN claims
                   ELSE [claims EXCEPT ![row.claim] = Marked(claim, drainer[w].seen, row.version)]
      /\ UNCHANGED <<undrained, index, drainCrashes>>
  BY <1>1, <1>2, <1>4 DEF MarkDone
<1>7. PICK new : new = [row EXCEPT !.status = "done"]
  OBVIOUS
<1>8. /\ new \in Row /\ new.claim = row.claim /\ new.event = row.event
      /\ new.version = row.version /\ new.status = "done" /\ new.attempts = row.attempts
  BY <1>3, <1>7 DEF Row
<1>9. queue' = [queue EXCEPT ![i] = new]
  BY <1>2, <1>6, <1>7
<1>10. /\ queue' \in Seq(Row) /\ Len(queue') = Len(queue) /\ OutboxIds' = OutboxIds
       /\ RowsKept /\ queue'[i] = new /\ \A j \in OutboxIds : j # i => queue'[j] = queue[j]
  BY <1>1, <1>2, <1>8, <1>9, RowSettled
<1>11. CASE row.event = "delete"
  <2>1. claims' = claims
    BY <1>6, <1>11
  <2>2. ClaimsKept
    BY <2>1 DEF ClaimsKept, Alike
  <2> QED BY <1>1, <1>2, <1>6, <1>8, <1>10, <2>1, <2>2
<1>12. CASE row.event = "upsert"
  <2>1. PICK seen : seen = drainer[w].seen
    OBVIOUS
  <2>2. seen \in ClaimRow
    BY <1>1, <1>6, <1>12, <2>1, PassShape
  <2>3. PICK m : m = Marked(claim, seen, row.version)
    OBVIOUS
  <2>4. /\ m \in ClaimRow /\ m.version = claim.version /\ Alike(claim, m)
        /\ m.sync \in {claim.sync, "synced"}
        /\ m.synced \in {claim.synced, row.version}
    BY <1>3, <1>5, <2>2, <2>3, MarkedShape
  <2>5. claims' = [claims EXCEPT ![row.claim] = m]
    BY <1>6, <1>12, <2>1, <2>3
  <2>6. claims' \in [Claims -> ClaimRow \cup {Nothing}]
    BY <1>1, <1>3, <2>4, <2>5
  <2>7. ClaimsKept
    <3>1. Nothing \notin ClaimRow
      BY KnowledgeLedgerAssumption
    <3> QED BY <1>1, <1>3, <1>4, <1>5, <2>4, <2>5, <3>1 DEF ClaimsKept, Alike
  <2> QED BY <1>2, <1>4, <1>6, <1>8, <1>10, <1>12, <2>4, <2>5, <2>6, <2>7
<1> QED BY <1>3, <1>11, <1>12 DEF Events

\* Settling a row whose call failed returns it or fails it for good.
LEMMA FailedEffect ==
  ASSUME DrainInv, NEW w \in Drainers, NEW i \in OutboxIds, MarkFailed(w, i)
  PROVE  /\ RowTurn(w, i) /\ drainer[w].verdict = "failed"
         /\ drainer' = [drainer EXCEPT ![w] = Settled(w, i)]
         /\ queue' \in Seq(Row) /\ Len(queue') = Len(queue) /\ OutboxIds' = OutboxIds
         /\ RowsKept /\ queue'[i].status \in {"failed", "pending"}
         /\ \A j \in OutboxIds : j # i => queue'[j] = queue[j]
         /\ claims' \in [Claims -> ClaimRow \cup {Nothing}] /\ ClaimsKept
         /\ UNCHANGED <<undrained, index, drainCrashes>>
<1>1. /\ LedgerTypeOK /\ claims \in [Claims -> ClaimRow \cup {Nothing}]
      /\ drainer[w].tries \in [Rows -> Nat] /\ i \in Rows
  BY PassShape, WithinBound DEF DrainInv, DrainTypeOK, LedgerTypeOK
<1>2. PICK row : row = queue[i]
  OBVIOUS
<1>3. row \in Row /\ row.claim \in Claims
  BY <1>1, <1>2, OutboxShape DEF Row
<1>4. PICK claim : claim = claims[row.claim]
  OBVIOUS
<1>5. claim \in ClaimRow
  BY <1>1, <1>2, <1>3, <1>4 DEF DrainInv, RowsHaveClaims
<1>6. PICK attempts : attempts = drainer[w].tries[i] + 1
  OBVIOUS
<1>7. PICK final \in BOOLEAN : final <=> attempts >= DrainAttempts
  OBVIOUS
<1>8. PICK status : status = IF final THEN "failed" ELSE "pending"
  OBVIOUS
<1>9. /\ RowTurn(w, i) /\ drainer[w].verdict = "failed"
      /\ drainer' = [drainer EXCEPT ![w] = Settled(w, i)]
      /\ queue' = [queue EXCEPT ![i].attempts = attempts, ![i].status = status]
      /\ claims' = IF final THEN [claims EXCEPT ![row.claim].sync = "failed"] ELSE claims
      /\ UNCHANGED <<undrained, index, drainCrashes>>
  BY <1>2, <1>6, <1>7, <1>8 DEF MarkFailed
<1>10. PICK new : new = [row EXCEPT !.attempts = attempts, !.status = status]
  OBVIOUS
<1>11. /\ new \in Row /\ new.claim = row.claim /\ new.event = row.event
       /\ new.version = row.version /\ new.status \in {"failed", "pending"}
  <2>1. attempts \in Nat
    BY <1>1, <1>6
  <2> QED BY <1>3, <1>8, <1>10, <2>1 DEF Row
<1>12. queue' = [queue EXCEPT ![i] = new]
  BY <1>2, <1>9, <1>10
<1>13. /\ queue' \in Seq(Row) /\ Len(queue') = Len(queue) /\ OutboxIds' = OutboxIds
       /\ RowsKept /\ queue'[i] = new /\ \A j \in OutboxIds : j # i => queue'[j] = queue[j]
  BY <1>1, <1>2, <1>11, <1>12, RowSettled
<1>14. claims' \in [Claims -> ClaimRow \cup {Nothing}] /\ ClaimsKept
  <2>1. PICK m : m = [claim EXCEPT !.sync = "failed"]
    OBVIOUS
  <2>2. m \in ClaimRow /\ m.version = claim.version /\ Alike(claim, m)
    BY <1>5, <2>1 DEF ClaimRow, SyncStates, Alike
  <2>3. claims' = [claims EXCEPT ![row.claim] = m] \/ claims' = claims
    BY <1>4, <1>9, <2>1
  <2>4. Nothing \notin ClaimRow
    BY KnowledgeLedgerAssumption
  <2>5. CASE claims' = claims
    BY <1>1, <2>5 DEF ClaimsKept, Alike
  <2>6. CASE claims' = [claims EXCEPT ![row.claim] = m]
    <3>1. claims' \in [Claims -> ClaimRow \cup {Nothing}]
      BY <1>1, <1>3, <2>2, <2>6
    <3>2. ClaimsKept
      BY <1>1, <1>3, <1>4, <1>5, <2>2, <2>4, <2>6 DEF ClaimsKept, Alike
    <3> QED BY <3>1, <3>2
  <2> QED BY <2>3, <2>5, <2>6
<1> QED BY <1>9, <1>11, <1>13, <1>14

\* A pass whose parts agree with the rows.
PassHolds(p) ==
  /\ p.window \subseteq OutboxIds
  /\ p.verdict = "none" => p.open = {}
  /\ p.verdict # "none" => p.phase # "idle" /\ p.open \subseteq GroupIn(queue, p.window, p.phase)

\* Whatever a worker does: rows stay what they are about, claims what they serve.
LEMMA WorkerMoves ==
  ASSUME DrainInv, MaxDrainCrashes \in Nat, NEW w \in Drainers, DrainWork(w) \/ DrainCrash(w)
  PROVE  /\ queue' \in Seq(Row) /\ Len(queue') = Len(queue) /\ OutboxIds' = OutboxIds
         /\ RowsKept /\ claims' \in [Claims -> ClaimRow \cup {Nothing}] /\ ClaimsKept
         /\ index' \in [Claims -> Nat] /\ drainCrashes' \in 0..MaxDrainCrashes
         /\ UNCHANGED undrained
         /\ \E q \in DrainPass : drainer' = [drainer EXCEPT ![w] = q] /\ PassHolds(q)
<1>1. /\ LedgerTypeOK /\ drainer \in [Drainers -> DrainPass] /\ index \in [Claims -> Nat]
      /\ drainCrashes \in 0..MaxDrainCrashes /\ claims \in [Claims -> ClaimRow \cup {Nothing}]
      /\ queue \in Seq(Row) /\ DOMAIN queue = OutboxIds
  BY OutboxShape DEF DrainInv, DrainTypeOK, LedgerTypeOK
<1>2. PassHolds(drainer[w]) /\ drainer[w].window \in SUBSET OutboxIds
  BY DEF DrainInv, PassesHold, PassHolds
<1>3. UNCHANGED claims => claims' \in [Claims -> ClaimRow \cup {Nothing}] /\ ClaimsKept
  BY <1>1 DEF ClaimsKept, Alike
<1>4. UNCHANGED queue => /\ queue' \in Seq(Row) /\ Len(queue') = Len(queue)
                          /\ OutboxIds' = OutboxIds /\ RowsKept
  BY <1>1 DEF OutboxIds, RowsKept
<1>5. ASSUME NEW due, Lease(w, due)
      PROVE  \E q \in DrainPass : drainer' = [drainer EXCEPT ![w] = q] /\ PassHolds(q)
  BY <1>5, LeaseEffect DEF PassHolds
<1>6. ASSUME NEW due, Lease(w, due)
      PROVE  /\ queue' \in Seq(Row) /\ Len(queue') = Len(queue) /\ OutboxIds' = OutboxIds
             /\ RowsKept /\ UNCHANGED <<undrained, claims, index, drainCrashes>>
  BY <1>6, LeaseEffect
<1>7. ASSUME NEW ok \in BOOLEAN, Project(w, ok)
      PROVE  /\ index' \in [Claims -> Nat] /\ UNCHANGED <<undrained, claims, queue, drainCrashes>>
             /\ \E q \in DrainPass : drainer' = [drainer EXCEPT ![w] = q] /\ PassHolds(q)
  <2>1. PICK q \in DrainPass :
           /\ drainer' = [drainer EXCEPT ![w] = q]
           /\ drainer[w].phase # "idle" /\ drainer[w].verdict = "none"
           /\ q.phase = drainer[w].phase /\ q.window = drainer[w].window
           /\ q.open = GroupIn(queue, drainer[w].window, drainer[w].phase)
           /\ q.verdict = IF ok THEN "done" ELSE "failed"
           /\ index' \in [Claims -> Nat] /\ UNCHANGED <<undrained, claims, queue, drainCrashes>>
    BY <1>7, ProjectEffect
  <2>2. PassHolds(q)
    BY <1>2, <2>1 DEF PassHolds
  <2> QED BY <2>1, <2>2
<1>8. ASSUME NEW i \in OutboxIds, ReadClaim(w, i)
      PROVE  /\ UNCHANGED <<undrained, claims, queue, index, drainCrashes>>
             /\ \E q \in DrainPass : drainer' = [drainer EXCEPT ![w] = q] /\ PassHolds(q)
  <2>1. PICK q \in DrainPass :
           /\ drainer' = [drainer EXCEPT ![w] = q]
           /\ q.phase = drainer[w].phase /\ q.window = drainer[w].window /\ q.open = drainer[w].open
           /\ q.verdict = drainer[w].verdict
           /\ UNCHANGED <<undrained, claims, queue, index, drainCrashes>>
    BY <1>8, ReadEffect
  <2>2. PassHolds(q)
    BY <1>2, <2>1 DEF PassHolds
  <2> QED BY <2>1, <2>2
<1>9. ASSUME NEW i \in OutboxIds, RowTurn(w, i), drainer[w].verdict # "none",
             drainer' = [drainer EXCEPT ![w] = Settled(w, i)]
      PROVE  \E q \in DrainPass : drainer' = [drainer EXCEPT ![w] = q] /\ PassHolds(q)
  <2>1. PICK q \in DrainPass :
           /\ q = Settled(w, i)
           /\ \/ /\ q.phase = drainer[w].phase /\ q.window = drainer[w].window
                 /\ q.verdict = drainer[w].verdict /\ q.open = drainer[w].open \ {i}
              \/ q = DrainIdle
              \/ /\ q.phase = "upsert" /\ q.window = drainer[w].window
                 /\ q.open = {} /\ q.verdict = "none"
    BY <1>9, SettledEffect
  <2>2. PassHolds(q)
    BY <1>2, <2>1, PassShape DEF PassHolds
  <2> QED BY <1>9, <2>1, <2>2
<1>10. ASSUME NEW i \in OutboxIds, MarkDone(w, i)
       PROVE  /\ queue' \in Seq(Row) /\ Len(queue') = Len(queue) /\ OutboxIds' = OutboxIds
              /\ RowsKept /\ claims' \in [Claims -> ClaimRow \cup {Nothing}] /\ ClaimsKept
              /\ UNCHANGED <<undrained, index, drainCrashes>>
              /\ \E q \in DrainPass : drainer' = [drainer EXCEPT ![w] = q] /\ PassHolds(q)
  BY <1>9, <1>10, DoneEffect
<1>11. ASSUME NEW i \in OutboxIds, MarkFailed(w, i)
       PROVE  /\ queue' \in Seq(Row) /\ Len(queue') = Len(queue) /\ OutboxIds' = OutboxIds
              /\ RowsKept /\ claims' \in [Claims -> ClaimRow \cup {Nothing}] /\ ClaimsKept
              /\ UNCHANGED <<undrained, index, drainCrashes>>
              /\ \E q \in DrainPass : drainer' = [drainer EXCEPT ![w] = q] /\ PassHolds(q)
  BY <1>9, <1>11, FailedEffect
<1>12. ASSUME DrainCrash(w)
       PROVE  /\ UNCHANGED <<undrained, claims, queue, index>> /\ drainCrashes' \in 0..MaxDrainCrashes
              /\ \E q \in DrainPass : drainer' = [drainer EXCEPT ![w] = q] /\ PassHolds(q)
  <2>1. DrainIdle \in DrainPass /\ PassHolds(DrainIdle)
    BY PassShape DEF PassHolds
  <2>2. drainer' = [drainer EXCEPT ![w] = DrainIdle] /\ UNCHANGED <<undrained, claims, queue, index>>
    BY <1>12 DEF DrainCrash, ledger, undrained
  <2>3. drainCrashes' \in 0..MaxDrainCrashes
    BY <1>1, <1>12 DEF DrainCrash
  <2> QED BY <2>1, <2>2, <2>3
<1>13. CASE DrainWork(w)
  <2>1. CASE \E due \in SUBSET DOMAIN queue : Lease(w, due)
    BY <1>1, <1>3, <1>5, <1>6, <2>1
  <2>2. CASE \E ok \in (IF DrainFaults THEN BOOLEAN ELSE {TRUE}) : Project(w, ok)
    <3>1. PICK ok \in BOOLEAN : Project(w, ok)
      BY <2>2
    <3> QED BY <1>1, <1>3, <1>4, <1>7, <3>1
  <2>3. CASE \E i \in DOMAIN queue : ReadClaim(w, i) \/ MarkDone(w, i) \/ MarkFailed(w, i)
    <3>1. PICK i \in OutboxIds : ReadClaim(w, i) \/ MarkDone(w, i) \/ MarkFailed(w, i)
      BY <1>1, <2>3
    <3>2. CASE ReadClaim(w, i)
      BY <1>1, <1>3, <1>4, <1>8, <3>2
    <3>3. CASE MarkDone(w, i)
      BY <1>1, <1>10, <3>3
    <3>4. CASE MarkFailed(w, i)
      BY <1>1, <1>11, <3>4
    <3> QED BY <3>1, <3>2, <3>3, <3>4
  <2> QED BY <1>13, <2>1, <2>2, <2>3 DEF DrainWork
<1>14. CASE DrainCrash(w)
  BY <1>1, <1>3, <1>4, <1>12, <1>14
<1> QED BY <1>13, <1>14
-----------------------------------------------------------------------------
(* Draining: types in every state.                                         *)

\* A write of the ledger adds one row behind the others.
LEMMA RowAppended ==
  ASSUME LedgerTypeOK, NEW c \in Claims, NEW claim \in ClaimRow, NEW event \in Events,
         NEW version, Saved(c, claim, event, version)
  PROVE  /\ Len(queue) < MaxRows /\ Len(queue') = Len(queue) + 1
         /\ OutboxIds' = OutboxIds \cup {Len(queue) + 1} /\ Len(queue) + 1 \notin OutboxIds
         /\ \A i \in OutboxIds : i < Len(queue) + 1 /\ queue'[i] = queue[i]
         /\ queue'[Len(queue) + 1] = Queued(c, event, version)
         /\ claims' = [claims EXCEPT ![c] = claim] /\ claims'[c] = claim
         /\ \A d \in Claims : d # c => claims'[d] = claims[d]
         /\ RowsKept
<1>1. /\ queue \in Seq(Row) /\ Len(queue) \in Nat /\ claims \in [Claims -> ClaimRow \cup {Nothing}]
      /\ queue' = Append(queue, Queued(c, event, version)) /\ Len(queue) < MaxRows
      /\ claims' = [claims EXCEPT ![c] = claim]
  BY DEF LedgerTypeOK, Saved
<1>2. PICK n \in Nat : n = Len(queue)
  BY <1>1
<1>3. /\ Len(queue') = n + 1 /\ queue'[n + 1] = Queued(c, event, version)
      /\ \A i \in 1..n : queue'[i] = queue[i]
  BY <1>1, <1>2
<1>4. OutboxIds' = 1..(n + 1) /\ OutboxIds = 1..n
  BY <1>2, <1>3 DEF OutboxIds
<1>5. OutboxIds' = OutboxIds \cup {n + 1} /\ n + 1 \notin OutboxIds /\ \A i \in OutboxIds : i < n + 1
  BY <1>4
<1>6. RowsKept
  BY <1>3, <1>4, <1>5 DEF RowsKept
<1> QED BY <1>1, <1>2, <1>3, <1>4, <1>5, <1>6

\* A pass agrees with the rows after a step that keeps what they are about.
LEMMA PassKept ==
  ASSUME LedgerTypeOK, RowsKept, NEW p, PassHolds(p)
  PROVE  /\ p.window \subseteq OutboxIds'
         /\ p.verdict = "none" => p.open = {}
         /\ p.verdict # "none" => /\ p.phase # "idle"
                                  /\ p.open \subseteq GroupIn(queue', p.window, p.phase)
<1>1. PICK S, e : S = p.window /\ e = p.phase
  OBVIOUS
<1>2. S \in SUBSET OutboxIds
  BY <1>1 DEF PassHolds
<1>3. GroupIn(queue', S, e) = GroupIn(queue, S, e)
  BY <1>2, GroupsKept
<1> QED BY <1>1, <1>2, <1>3 DEF PassHolds, RowsKept

\* At first the outbox is empty and every worker idle.
LEMMA DrainInvInit ==
  ASSUME DrainInit, MaxDrainCrashes \in Nat
  PROVE  DrainInv
<1>1. LedgerTypeOK /\ ReadingsHold
  BY LedgerTypeInit DEF DrainInit, LedgerInv
<1>2. queue = <<>> /\ OutboxIds = {} /\ Len(queue) = 0
  BY DEF DrainInit, LedgerInit, OutboxIds
<1>3. DrainTypeOK
  BY <1>1, PassShape DEF DrainInit, DrainTypeOK
<1>4. RowsFit /\ RowsHaveClaims
  BY <1>2, KnowledgeLedgerAssumption DEF RowsFit, RowsHaveClaims
<1>5. PassesHold
  BY PassShape DEF DrainInit, PassesHold
<1> QED BY <1>1, <1>3, <1>4, <1>5 DEF DrainInv

\* Every step keeps types, rows and passes in agreement.
LEMMA DrainInvStep ==
  ASSUME DrainInv, MaxDrainCrashes \in Nat, [DrainNext]_drainVars
  PROVE  DrainInv'
<1>1. /\ LedgerTypeOK /\ drainer \in [Drainers -> DrainPass] /\ index \in [Claims -> Nat]
      /\ drainCrashes \in 0..MaxDrainCrashes /\ MaxRows \in Nat /\ Len(queue) \in Nat
      /\ \A i \in OutboxIds : queue[i] \in Row
  BY OutboxShape, KnowledgeLedgerAssumption DEF DrainInv, DrainTypeOK
<1>2. \A w \in Drainers : PassHolds(drainer[w])
  BY DEF DrainInv, PassesHold, PassHolds
<1>3. Nothing \notin ClaimRow
  BY KnowledgeLedgerAssumption
<1>0. LedgerInv
  BY <1>1 DEF DrainInv, LedgerInv
<1>4. CASE UNCHANGED drainVars
  <2>1. ReadingsHold'
    BY <1>0, <1>4, ReadingsStep DEF drainVars
  <2> QED BY <1>4, <2>1 DEF drainVars, ledger, DrainInv, DrainTypeOK, LedgerTypeOK, RowsFit,
                            RowsHaveClaims, OutboxIds, PassesHold
<1>5. ASSUME LedgerNext, UNCHANGED <<index, drainer, drainCrashes>> PROVE DrainInv'
  <2>1. LedgerTypeOK' /\ DrainTypeOK' /\ ReadingsHold'
    BY <1>0, <1>1, <1>5, LedgerTypeStep, ReadingsStep DEF DrainTypeOK
  <2>2. CASE UNCHANGED <<claims, queue>>
    BY <1>5, <2>1, <2>2 DEF DrainInv, RowsFit, RowsHaveClaims, OutboxIds, PassesHold
  <2>3. ASSUME NEW c \in Claims, NEW claim \in ClaimRow, NEW event \in Events,
               NEW version \in Nat, Writes(c, claim, event, version)
        PROVE  DrainInv'
    <3>1. /\ Len(queue) < MaxRows /\ Len(queue') = Len(queue) + 1
          /\ OutboxIds' = OutboxIds \cup {Len(queue) + 1}
          /\ \A i \in OutboxIds : queue'[i] = queue[i]
          /\ queue'[Len(queue) + 1] = Queued(c, event, version)
          /\ claims'[c] = claim /\ \A d \in Claims : d # c => claims'[d] = claims[d]
          /\ RowsKept
      BY <1>1, <2>3, RowAppended DEF Writes
    <3>2. RowsFit'
      BY <1>1, <3>1 DEF RowsFit
    <3>3. RowsHaveClaims'
      <4>1. ASSUME NEW i \in OutboxIds PROVE claims'[queue'[i].claim] # Nothing
        <5>1. queue[i].claim \in Claims
          BY <1>1 DEF Row
        <5> QED BY <1>3, <3>1, <5>1 DEF DrainInv, RowsHaveClaims
      <4>2. claims'[queue'[Len(queue) + 1].claim] # Nothing
        BY <1>3, <3>1 DEF Queued
      <4> QED BY <3>1, <4>1, <4>2 DEF RowsHaveClaims
    <3>4. PassesHold'
      BY <1>1, <1>2, <1>5, <3>1, PassKept DEF PassesHold
    <3> QED BY <2>1, <3>2, <3>3, <3>4 DEF DrainInv
  <2> QED BY <1>0, <1>5, <2>2, <2>3, LedgerWrites
<1>6. ASSUME NEW w \in Drainers, DrainWork(w) \/ DrainCrash(w) PROVE DrainInv'
  <2>1. /\ queue' \in Seq(Row) /\ Len(queue') = Len(queue) /\ OutboxIds' = OutboxIds
        /\ RowsKept /\ claims' \in [Claims -> ClaimRow \cup {Nothing}] /\ ClaimsKept
        /\ index' \in [Claims -> Nat] /\ drainCrashes' \in 0..MaxDrainCrashes
        /\ UNCHANGED undrained
        /\ \E q \in DrainPass : drainer' = [drainer EXCEPT ![w] = q] /\ PassHolds(q)
    BY <1>6, WorkerMoves
  <2>2. PICK q \in DrainPass : drainer' = [drainer EXCEPT ![w] = q] /\ PassHolds(q)
    BY <2>1
  <2>3. drainer' \in [Drainers -> DrainPass] /\ \A v \in Drainers : PassHolds(drainer'[v])
    BY <1>1, <1>2, <2>2
  <2>4. DrainTypeOK'
    BY <1>1, <2>1, <2>3 DEF DrainTypeOK, LedgerTypeOK, undrained
  <2>5. RowsFit'
    BY <2>1 DEF DrainInv, RowsFit
  <2>6. RowsHaveClaims'
    <3>1. ASSUME NEW i \in OutboxIds PROVE claims'[queue'[i].claim] # Nothing
      <4>1. queue[i].claim \in Claims /\ queue'[i].claim = queue[i].claim
        BY <1>1, <2>1 DEF Row, RowsKept
      <4> QED BY <2>1, <4>1 DEF DrainInv, RowsHaveClaims, ClaimsKept
    <3> QED BY <2>1, <3>1 DEF RowsHaveClaims
  <2>7. PassesHold'
    BY <1>1, <2>1, <2>3, PassKept DEF PassesHold
  <2>8. ReadingsHold'
    BY <2>1, ReadingsKept DEF DrainInv, undrained
  <2> QED BY <2>4, <2>5, <2>6, <2>7, <2>8 DEF DrainInv
<1> QED BY <1>4, <1>5, <1>6 DEF DrainNext

\* Whatever the workers and the ledger do, every row, pass and index entry has its
\* type, and a pass settles only rows of the group it has projected.
THEOREM OutboxTypes ==
  ASSUME MaxDrainCrashes \in Nat
  PROVE  DrainSpec => []DrainTypeOK
<1>1. DrainInit => DrainInv
  BY DrainInvInit
<1>2. DrainInv /\ [DrainNext]_drainVars => DrainInv'
  BY DrainInvStep
<1>3. DrainInv => DrainTypeOK
  BY DEF DrainInv
<1> QED BY <1>1, <1>2, <1>3, PTL DEF DrainSpec

\* Rows that stay and claims that serve the same keep the newest rows current.
LEMMA CurrentKept ==
  ASSUME LedgerTypeOK, NewestRowIsCurrent, RowsHaveClaims, RowsKept, ClaimsKept,
         DOMAIN queue' = DOMAIN queue, torn' = torn
  PROVE  NewestRowIsCurrent'
<1>1. DOMAIN queue = OutboxIds /\ \A i \in OutboxIds : queue[i] \in Row
  BY OutboxShape
<1>2. ASSUME NEW i \in OutboxIds, Newest(i)', torn'[queue'[i].claim] # "open"
      PROVE  LET cl == claims'[queue'[i].claim]
             IN IF Served(cl) THEN queue'[i].event = "upsert" /\ queue'[i].version = cl.version
                ELSE queue'[i].event = "delete"
  <2>1. \A j \in OutboxIds : /\ queue'[j].claim = queue[j].claim /\ queue'[j].event = queue[j].event
                             /\ queue'[j].version = queue[j].version
    BY DEF RowsKept
  <2>2. Newest(i)
    BY <1>1, <1>2, <2>1 DEF Newest
  <2>3. queue[i].claim \in Claims /\ claims[queue[i].claim] # Nothing
    BY <1>1 DEF Row, RowsHaveClaims
  <2>4. /\ claims'[queue[i].claim].version = claims[queue[i].claim].version
        /\ Served(claims'[queue[i].claim]) <=> Served(claims[queue[i].claim])
    BY <2>3 DEF ClaimsKept, Served, Alike
  <2>5. torn[queue[i].claim] # "open"
    BY <1>2, <2>1
  <2> QED BY <1>1, <2>1, <2>2, <2>4, <2>5 DEF NewestRowIsCurrent
<1> QED BY <1>1, <1>2 DEF NewestRowIsCurrent

\* Neither the ledger nor a worker makes the newest row of a claim stale.
LEMMA CurrentStep ==
  ASSUME DrainInv, NewestRowIsCurrent, MaxDrainCrashes \in Nat, [DrainNext]_drainVars
  PROVE  NewestRowIsCurrent'
<1>1. LedgerTypeOK /\ LedgerInv /\ RowsHaveClaims /\ DOMAIN queue = OutboxIds
  BY OutboxShape DEF DrainInv, DrainTypeOK, LedgerInv
<1>2. CASE UNCHANGED drainVars
  BY <1>1, <1>2, QueueStep DEF drainVars, ledger
<1>3. CASE LedgerNext
  BY <1>1, <1>3, QueueStep
<1>4. ASSUME NEW w \in Drainers, DrainWork(w) \/ DrainCrash(w) PROVE NewestRowIsCurrent'
  <2>1. /\ queue' \in Seq(Row) /\ OutboxIds' = OutboxIds /\ RowsKept /\ ClaimsKept
        /\ torn' = torn
    BY <1>4, WorkerMoves DEF undrained
  <2>2. DOMAIN queue' = DOMAIN queue
    BY <1>1, <2>1 DEF OutboxIds
  <2> QED BY <1>1, <2>1, <2>2, CurrentKept
<1> QED BY <1>2, <1>3, <1>4 DEF DrainNext

\* Draining does not disturb it: retries, lost leases and crashes of any number of
\* workers leave the newest row of each claim saying what the ledger says, but of
\* a claim whose last change an import has overwritten without having read it.
THEOREM DrainedQueueCarriesTheLedger ==
  ASSUME MaxDrainCrashes \in Nat
  PROVE  DrainSpec => []NewestRowIsCurrent
<1>1. DrainInit => DrainInv /\ NewestRowIsCurrent
  BY DrainInvInit, QueueInit DEF DrainInit
<1>2. DrainInv /\ NewestRowIsCurrent /\ [DrainNext]_drainVars => DrainInv' /\ NewestRowIsCurrent'
  BY DrainInvStep, CurrentStep
<1> QED BY <1>1, <1>2, PTL DEF DrainSpec
-----------------------------------------------------------------------------
(* While leases hold, every row a pass still has to settle is its own.     *)

\* What a pass has still to settle: rows of the group in hand, and the upserts
\* that follow its removals.
OutstandingIn(rows, p) ==
  (IF p.phase = "idle" THEN {}
   ELSE IF p.verdict = "none" THEN GroupIn(rows, p.window, p.phase) ELSE p.open)
  \cup (IF p.phase = "delete" THEN GroupIn(rows, p.window, "upsert") ELSE {})

\* These rows are in processing and no other worker has them to settle.
HeldRows ==
  /\ \A w \in Drainers : \A i \in OutstandingIn(queue, drainer[w]) : queue[i].status = "processing"
  /\ \A w, v \in Drainers :
       w # v => OutstandingIn(queue, drainer[w]) \cap OutstandingIn(queue, drainer[v]) = {}

HoldInv == DrainInv /\ HeldRows

\* They are rows of the pass's window, and stay the same rows.
LEMMA OutstandingShape ==
  ASSUME LedgerTypeOK, NEW p, PassHolds(p)
  PROVE  /\ OutstandingIn(queue, p) \subseteq p.window
         /\ p.phase = "idle" => OutstandingIn(queue, p) = {}
         /\ RowsKept => OutstandingIn(queue', p) = OutstandingIn(queue, p)
<1>1. PICK S, e : S = p.window /\ e = p.phase
  OBVIOUS
<1>2. S \in SUBSET OutboxIds
  BY <1>1 DEF PassHolds
<1>3. \A event : GroupIn(queue, S, event) \subseteq S
  BY <1>2, GroupShape
<1>4. OutstandingIn(queue, p) \subseteq p.window
  BY <1>1, <1>3 DEF OutstandingIn, PassHolds
<1>5. p.phase = "idle" => OutstandingIn(queue, p) = {}
  BY DEF OutstandingIn
<1>6. ASSUME RowsKept PROVE OutstandingIn(queue', p) = OutstandingIn(queue, p)
  <2>1. \A event : GroupIn(queue', S, event) = GroupIn(queue, S, event)
    BY <1>2, <1>6, GroupsKept
  <2> QED BY <1>1, <2>1 DEF OutstandingIn
<1> QED BY <1>4, <1>5, <1>6

\* A pass that settles a row has settled that row and nothing is added.
LEMMA SettledOutstanding ==
  ASSUME DrainInv, NEW w \in Drainers, NEW i \in OutboxIds, RowTurn(w, i),
         drainer[w].verdict # "none", NEW q \in DrainPass, q = Settled(w, i)
  PROVE  /\ i \in OutstandingIn(queue, drainer[w]) /\ PassHolds(q)
         /\ OutstandingIn(queue, q) = OutstandingIn(queue, drainer[w]) \ {i}
         /\ q.window \subseteq drainer[w].window
<1>1. PICK p : p = drainer[w]
  OBVIOUS
<1>2. p \in DrainPass /\ LedgerTypeOK /\ PassHolds(p) /\ p.verdict # "none"
  BY <1>1 DEF DrainInv, DrainTypeOK, PassesHold, PassHolds
<1>3. PICK S : S = p.window
  OBVIOUS
<1>4. /\ S \in SUBSET OutboxIds /\ p.open \subseteq GroupIn(queue, S, p.phase)
      /\ p.phase \in {"delete", "upsert"} /\ i \in p.open
  BY <1>1, <1>2, <1>3, PassShape DEF PassHolds, RowTurn, Events
<1>5. /\ GroupIn(queue, S, "delete") \cap GroupIn(queue, S, "upsert") = {}
      /\ GroupIn(queue, S, "delete") \cup GroupIn(queue, S, "upsert") = S
  BY <1>2, <1>4, GroupShape
<1>6. OutstandingIn(queue, p) =
        p.open \cup (IF p.phase = "delete" THEN GroupIn(queue, S, "upsert") ELSE {})
  BY <1>2, <1>3, <1>4 DEF OutstandingIn
<1>7. i \in OutstandingIn(queue, p)
  BY <1>4, <1>6
<1>8. \/ q.phase = p.phase /\ q.window = p.window /\ q.verdict = p.verdict /\ q.open = p.open \ {i}
      \/ /\ p.open = {i} /\ q = DrainIdle
         /\ p.phase = "delete" => Group(p.window, "upsert") = {}
      \/ /\ p.open = {i} /\ p.phase = "delete" /\ q.phase = "upsert"
         /\ q.window = p.window /\ q.open = {} /\ q.verdict = "none"
  BY <1>1, <1>2, SettledEffect
<1>9. CASE q.phase = p.phase /\ q.window = p.window /\ q.verdict = p.verdict /\ q.open = p.open \ {i}
  <2>1. OutstandingIn(queue, q) =
          (p.open \ {i}) \cup (IF p.phase = "delete" THEN GroupIn(queue, S, "upsert") ELSE {})
    BY <1>2, <1>3, <1>4, <1>9 DEF OutstandingIn
  <2>2. p.phase = "delete" => i \notin GroupIn(queue, S, "upsert")
    BY <1>4, <1>5
  <2>3. PassHolds(q)
    BY <1>2, <1>9 DEF PassHolds
  <2> QED BY <1>1, <1>6, <1>7, <1>9, <2>1, <2>2, <2>3
<1>10. CASE p.open = {i} /\ q = DrainIdle /\ (p.phase = "delete" => Group(p.window, "upsert") = {})
  <2>1. OutstandingIn(queue, q) = {} /\ PassHolds(q) /\ q.window = {}
    BY <1>10, PassShape DEF OutstandingIn, PassHolds
  <2>2. OutstandingIn(queue, p) = {i}
    BY <1>3, <1>6, <1>10, InTerms
  <2> QED BY <1>1, <2>1, <2>2
<1>11. CASE /\ p.open = {i} /\ p.phase = "delete" /\ q.phase = "upsert"
            /\ q.window = p.window /\ q.open = {} /\ q.verdict = "none"
  <2>1. OutstandingIn(queue, q) = GroupIn(queue, S, "upsert")
    BY <1>3, <1>11 DEF OutstandingIn
  <2>2. OutstandingIn(queue, p) = {i} \cup GroupIn(queue, S, "upsert")
    BY <1>6, <1>11
  <2>3. i \notin GroupIn(queue, S, "upsert")
    BY <1>4, <1>5, <1>11
  <2>4. PassHolds(q)
    BY <1>2, <1>11 DEF PassHolds
  <2> QED BY <1>1, <1>11, <2>1, <2>2, <2>3, <2>4
<1> QED BY <1>8, <1>9, <1>10, <1>11

\* When one worker's pass changes and nobody loses a row, the rows stay held.
LEMMA StillHeld ==
  ASSUME HoldInv, RowsKept, NEW w \in Drainers, NEW q \in DrainPass, PassHolds(q),
         drainer' = [drainer EXCEPT ![w] = q],
         \A i \in OutstandingIn(queue, q) :
           /\ queue'[i].status = "processing"
           /\ \A v \in Drainers : v # w => i \notin OutstandingIn(queue, drainer[v]),
         \A v \in Drainers : v # w =>
           \A i \in OutstandingIn(queue, drainer[v]) : queue'[i].status = "processing"
  PROVE  HeldRows'
<1>1. /\ LedgerTypeOK /\ drainer \in [Drainers -> DrainPass]
      /\ \A v \in Drainers : PassHolds(drainer[v])
  BY DEF HoldInv, DrainInv, DrainTypeOK, PassesHold, PassHolds
<1>2. drainer'[w] = q /\ \A v \in Drainers : v # w => drainer'[v] = drainer[v]
  BY <1>1
<1>3. OutstandingIn(queue', drainer'[w]) = OutstandingIn(queue, q)
  BY <1>1, <1>2, OutstandingShape
<1>4. \A v \in Drainers : v # w => OutstandingIn(queue', drainer'[v]) = OutstandingIn(queue, drainer[v])
  BY <1>1, <1>2, OutstandingShape
<1>5. ASSUME NEW v \in Drainers, NEW i \in OutstandingIn(queue', drainer'[v])
      PROVE  queue'[i].status = "processing"
  BY <1>3, <1>4
<1>6. ASSUME NEW u \in Drainers, NEW v \in Drainers, u # v,
             NEW i \in OutstandingIn(queue', drainer'[u]), i \in OutstandingIn(queue', drainer'[v])
      PROVE  FALSE
  <2>1. CASE u = w
    BY <1>3, <1>4, <1>6, <2>1
  <2>2. CASE v = w
    BY <1>3, <1>4, <1>6, <2>2
  <2>3. CASE u # w /\ v # w
    BY <1>4, <1>6, <2>3 DEF HoldInv, HeldRows
  <2> QED BY <2>1, <2>2, <2>3
<1> QED BY <1>5, <1>6 DEF HeldRows

\* A row that is done or has failed for good, in one step.
RowsStay == \A i \in OutboxIds : queue[i].status \in {"done", "failed"}
                                   => queue'[i].status = queue[i].status

\* Settling a row: only the worker that holds it does.
LEMMA HoldSettle ==
  ASSUME HoldInv, NEW w \in Drainers, NEW i \in OutboxIds, RowTurn(w, i), drainer[w].verdict # "none",
         drainer' = [drainer EXCEPT ![w] = Settled(w, i)], RowsKept,
         \A j \in OutboxIds : j # i => queue'[j] = queue[j]
  PROVE  HeldRows' /\ RowsStay
<1>1. DrainInv /\ HeldRows
  BY DEF HoldInv
<1>2. \A v \in Drainers : OutstandingIn(queue, drainer[v]) \subseteq OutboxIds
  <2>1. ASSUME NEW v \in Drainers PROVE OutstandingIn(queue, drainer[v]) \subseteq OutboxIds
    <3>1. LedgerTypeOK /\ PassHolds(drainer[v])
      BY <1>1 DEF DrainInv, DrainTypeOK, PassesHold, PassHolds
    <3> QED BY <3>1, OutstandingShape DEF PassHolds
  <2> QED BY <2>1
<1>3. PICK q \in DrainPass : q = Settled(w, i)
  BY <1>1, SettledEffect
<1>4. /\ i \in OutstandingIn(queue, drainer[w]) /\ PassHolds(q)
      /\ OutstandingIn(queue, q) = OutstandingIn(queue, drainer[w]) \ {i}
  BY <1>1, <1>3, SettledOutstanding
<1>5. queue[i].status = "processing"
  BY <1>1, <1>4 DEF HeldRows
<1>6. RowsStay
  BY <1>5 DEF RowsStay
<1>7. ASSUME NEW j \in OutstandingIn(queue, q)
      PROVE  /\ queue'[j].status = "processing"
             /\ \A v \in Drainers : v # w => j \notin OutstandingIn(queue, drainer[v])
  <2>1. j \in OutboxIds /\ j # i /\ j \in OutstandingIn(queue, drainer[w])
    BY <1>2, <1>4
  <2> QED BY <1>1, <2>1 DEF HeldRows
<1>8. ASSUME NEW v \in Drainers, v # w, NEW j \in OutstandingIn(queue, drainer[v])
      PROVE  queue'[j].status = "processing"
  <2>1. j \in OutboxIds /\ j # i
    BY <1>1, <1>2, <1>4, <1>8 DEF HeldRows
  <2> QED BY <1>1, <2>1 DEF HeldRows
<1>9. HeldRows'
  BY <1>3, <1>4, <1>7, <1>8, StillHeld
<1> QED BY <1>6, <1>9

\* Every step leaves the rows held and the settled rows alone.
LEMMA HoldStep ==
  ASSUME HoldInv, MaxDrainCrashes \in Nat, LeasesHold = TRUE, [DrainNext]_drainVars
  PROVE  HeldRows' /\ RowsStay
<1>1. /\ DrainInv /\ HeldRows /\ LedgerTypeOK /\ drainer \in [Drainers -> DrainPass]
      /\ DOMAIN queue = OutboxIds
  BY OutboxShape DEF HoldInv, DrainInv, DrainTypeOK
<1>2. \A v \in Drainers : PassHolds(drainer[v])
  BY <1>1 DEF DrainInv, PassesHold, PassHolds
<1>3. \A v \in Drainers : /\ OutstandingIn(queue, drainer[v]) \subseteq drainer[v].window
                          /\ OutstandingIn(queue, drainer[v]) \subseteq OutboxIds
                          /\ RowsKept => OutstandingIn(queue', drainer[v]) = OutstandingIn(queue, drainer[v])
  BY <1>1, <1>2, OutstandingShape DEF PassHolds
<1>4. CASE UNCHANGED <<queue, drainer>>
  BY <1>1, <1>4 DEF HeldRows, RowsStay
<1>5. ASSUME LedgerNext, UNCHANGED drainer PROVE HeldRows' /\ RowsStay
  <2>1. ASSUME NEW c \in Claims, NEW claim \in ClaimRow, NEW event \in Events,
               NEW version \in Nat, Writes(c, claim, event, version)
        PROVE  HeldRows' /\ RowsStay
    <3>1. RowsKept /\ \A i \in OutboxIds : queue'[i] = queue[i]
      BY <1>1, <2>1, RowAppended DEF Writes
    <3>2. \A v \in Drainers : OutstandingIn(queue', drainer'[v]) = OutstandingIn(queue, drainer[v])
      BY <1>3, <1>5, <3>1
    <3>3. HeldRows'
      BY <1>1, <1>3, <3>1, <3>2 DEF HeldRows
    <3> QED BY <3>1, <3>3 DEF RowsStay
  <2>2. LedgerInv
    BY <1>1 DEF DrainInv, LedgerInv
  <2> QED BY <1>4, <1>5, <2>1, <2>2, LedgerWrites
<1>6. ASSUME NEW w \in Drainers, NEW due, Lease(w, due) PROVE HeldRows' /\ RowsStay
  <2>1. PICK q \in DrainPass :
           /\ drainer' = [drainer EXCEPT ![w] = q] /\ drainer[w].phase = "idle"
           /\ q.window \subseteq OutboxIds /\ q.phase = PhaseAfter("idle", q.window)
           /\ q.open = {} /\ q.verdict = "none" /\ q.seen = Nothing
           /\ \A i \in q.window : /\ \/ queue[i].status = "pending"
                                     \/ queue[i].status = "processing" /\ Expirable(i)
                                  /\ queue'[i].status = "processing"
           /\ \A i \in OutboxIds \ q.window : queue'[i] = queue[i]
           /\ RowsKept
    BY <1>1, <1>6, LeaseEffect
  <2>2. PassHolds(q)
    BY <2>1 DEF PassHolds
  <2>3. OutstandingIn(queue, q) \subseteq q.window
    BY <1>1, <2>2, OutstandingShape
  <2>4. ASSUME NEW v \in Drainers, NEW i \in OutstandingIn(queue, drainer[v]) PROVE i \notin q.window
    <3>1. queue[i].status = "processing" /\ i \in drainer[v].window
      BY <1>1, <1>3 DEF HeldRows
    <3> QED BY <2>1, <3>1 DEF Expirable
  <2>5. HeldRows'
    <3>1. ASSUME NEW i \in OutstandingIn(queue, q)
          PROVE  /\ queue'[i].status = "processing"
                 /\ \A v \in Drainers : v # w => i \notin OutstandingIn(queue, drainer[v])
      BY <2>1, <2>3, <2>4
    <3>2. ASSUME NEW v \in Drainers, v # w, NEW i \in OutstandingIn(queue, drainer[v])
          PROVE  queue'[i].status = "processing"
      <4>1. i \in OutboxIds \ q.window /\ queue[i].status = "processing"
        BY <1>1, <1>3, <2>4 DEF HeldRows
      <4> QED BY <2>1, <4>1
    <3> QED BY <2>1, <2>2, <3>1, <3>2, StillHeld
  <2>6. RowsStay
    <3>1. ASSUME NEW i \in OutboxIds, queue[i].status \in {"done", "failed"}
          PROVE  queue'[i].status = queue[i].status
      BY <2>1, <3>1
    <3> QED BY <3>1 DEF RowsStay
  <2> QED BY <2>5, <2>6
<1>7. ASSUME NEW w \in Drainers, NEW q \in DrainPass, drainer' = [drainer EXCEPT ![w] = q], PassHolds(q),
             queue' = queue, OutstandingIn(queue, q) \subseteq OutstandingIn(queue, drainer[w])
      PROVE  HeldRows' /\ RowsStay
  <2>1. RowsKept
    BY <1>7 DEF RowsKept, OutboxIds
  <2>2. ASSUME NEW i \in OutstandingIn(queue, q)
        PROVE  /\ queue'[i].status = "processing"
               /\ \A v \in Drainers : v # w => i \notin OutstandingIn(queue, drainer[v])
    BY <1>1, <1>7 DEF HeldRows
  <2>3. ASSUME NEW v \in Drainers, v # w, NEW i \in OutstandingIn(queue, drainer[v])
        PROVE  queue'[i].status = "processing"
    BY <1>1, <1>7 DEF HeldRows
  <2>4. HeldRows'
    BY <1>7, <2>1, <2>2, <2>3, StillHeld
  <2> QED BY <1>7, <2>4 DEF RowsStay
<1>8. ASSUME NEW w \in Drainers, NEW ok \in BOOLEAN, Project(w, ok) PROVE HeldRows' /\ RowsStay
  <2>1. PICK q \in DrainPass :
           /\ drainer' = [drainer EXCEPT ![w] = q]
           /\ drainer[w].phase # "idle" /\ drainer[w].verdict = "none"
           /\ q.phase = drainer[w].phase /\ q.window = drainer[w].window
           /\ q.open = GroupIn(queue, drainer[w].window, drainer[w].phase)
           /\ q.verdict = IF ok THEN "done" ELSE "failed"
           /\ queue' = queue
    BY <1>1, <1>8, ProjectEffect
  <2>2. PassHolds(q)
    BY <1>2, <2>1 DEF PassHolds
  <2>3. OutstandingIn(queue, q) = OutstandingIn(queue, drainer[w])
    BY <2>1 DEF OutstandingIn
  <2> QED BY <1>7, <2>1, <2>2, <2>3
<1>9. ASSUME NEW w \in Drainers, NEW i \in OutboxIds, ReadClaim(w, i) PROVE HeldRows' /\ RowsStay
  <2>1. PICK q \in DrainPass :
           /\ drainer' = [drainer EXCEPT ![w] = q]
           /\ q.phase = drainer[w].phase /\ q.window = drainer[w].window /\ q.open = drainer[w].open
           /\ q.verdict = drainer[w].verdict /\ queue' = queue
    BY <1>1, <1>9, ReadEffect
  <2>2. PassHolds(q)
    BY <1>2, <2>1 DEF PassHolds
  <2>3. OutstandingIn(queue, q) = OutstandingIn(queue, drainer[w])
    BY <2>1 DEF OutstandingIn
  <2> QED BY <1>7, <2>1, <2>2, <2>3
<1>10. ASSUME NEW w \in Drainers, NEW i \in OutboxIds, MarkDone(w, i) \/ MarkFailed(w, i)
       PROVE  HeldRows' /\ RowsStay
  <2>1. /\ RowTurn(w, i) /\ drainer[w].verdict # "none"
        /\ drainer' = [drainer EXCEPT ![w] = Settled(w, i)] /\ RowsKept
        /\ \A j \in OutboxIds : j # i => queue'[j] = queue[j]
    <3>1. CASE MarkDone(w, i)
      BY <1>1, <3>1, DoneEffect
    <3>2. CASE MarkFailed(w, i)
      BY <1>1, <3>2, FailedEffect
    <3> QED BY <1>10, <3>1, <3>2
  <2> QED BY <2>1, HoldSettle
<1>11. ASSUME NEW w \in Drainers, DrainCrash(w) PROVE HeldRows' /\ RowsStay
  <2>1. drainer' = [drainer EXCEPT ![w] = DrainIdle] /\ queue' = queue
    BY <1>11 DEF DrainCrash, ledger
  <2>2. DrainIdle \in DrainPass /\ PassHolds(DrainIdle) /\ OutstandingIn(queue, DrainIdle) = {}
    BY PassShape DEF PassHolds, OutstandingIn
  <2> QED BY <1>7, <2>1, <2>2
<1>12. ASSUME NEW w \in Drainers, DrainWork(w) PROVE HeldRows' /\ RowsStay
  <2>1. CASE \E due \in SUBSET DOMAIN queue : Lease(w, due)
    BY <1>6, <2>1
  <2>2. CASE \E ok \in (IF DrainFaults THEN BOOLEAN ELSE {TRUE}) : Project(w, ok)
    <3>1. PICK ok \in BOOLEAN : Project(w, ok)
      BY <2>2
    <3> QED BY <1>8, <3>1
  <2>3. CASE \E i \in DOMAIN queue : ReadClaim(w, i) \/ MarkDone(w, i) \/ MarkFailed(w, i)
    BY <1>1, <1>9, <1>10, <2>3
  <2> QED BY <1>12, <2>1, <2>2, <2>3 DEF DrainWork
<1> QED BY <1>4, <1>5, <1>11, <1>12 DEF DrainNext, drainVars, ledger

\* However many workers drain, fail and crash: while passes end before their
\* leases do, a row that is done or has failed for good is not settled again.
THEOREM SettledForGood ==
  ASSUME MaxDrainCrashes \in Nat, LeasesHold = TRUE
  PROVE  DrainSpec => SettledRowsStay
<1>1. DrainInit => HoldInv
  <2> SUFFICES ASSUME DrainInit PROVE HoldInv
    OBVIOUS
  <2>1. DrainInv
    BY DrainInvInit
  <2>2. \A w \in Drainers : OutstandingIn(queue, drainer[w]) = {}
    BY PassShape DEF DrainInit, OutstandingIn
  <2> QED BY <2>1, <2>2 DEF HoldInv, HeldRows
<1>2. HoldInv /\ [DrainNext]_drainVars => HoldInv' /\ RowsStay
  <2> SUFFICES ASSUME HoldInv, [DrainNext]_drainVars PROVE HoldInv' /\ RowsStay
    OBVIOUS
  <2>1. DrainInv'
    BY DrainInvStep DEF HoldInv
  <2>2. HeldRows' /\ RowsStay
    BY HoldStep
  <2> QED BY <2>1, <2>2 DEF HoldInv
<1>3. HoldInv => DOMAIN queue = OutboxIds
  BY OutboxShape DEF HoldInv, DrainInv, DrainTypeOK
<1>4. HoldInv /\ [DrainNext]_drainVars =>
        [\A i \in DOMAIN queue : queue[i].status \in {"done", "failed"}
                                    => queue'[i].status = queue[i].status]_drainVars
  BY <1>2, <1>3 DEF RowsStay
<1> QED BY <1>1, <1>2, <1>4, PTL DEF DrainSpec, SettledRowsStay
-----------------------------------------------------------------------------
(* One worker whose calls all succeed: the index follows the ledger.       *)

\* The rows the index has been told about: settled, or projected and still open.
AppliedIn(rows, p) == {i \in 1..Len(rows) : rows[i].status = "done" \/ i \in p.open}

\* Versions grow: no claim is flagged, and of a claim that no import has torn none
\* is synced beyond its version and a row in the version of the claim is the newest.
VersionsGrow ==
  /\ \A c \in Claims : claims[c] # Nothing =>
       /\ ~Flagged(c) /\ (torn[c] = "no" => claims[c].synced <= claims[c].version)
       /\ \E i \in OutboxIds : queue[i].claim = c
  /\ \A i \in OutboxIds :
       /\ queue[i].event = "delete" => queue[i].version = 0
       /\ queue[i].event = "upsert" /\ torn[queue[i].claim] = "no" =>
            /\ queue[i].version <= claims[queue[i].claim].version
            /\ queue[i].version = claims[queue[i].claim].version =>
                 \A j \in OutboxIds : queue[j].claim = queue[i].claim => j <= i

\* Rows are worked off in their order, and those in processing are the pass's.
RowsInOrder(rows, p) ==
  /\ \A i \in 1..Len(rows) : rows[i].status # "failed" /\ rows[i].attempts = 0
  /\ \A i, j \in 1..Len(rows) : i < j /\ rows[i].status = "pending" => rows[j].status = "pending"
  /\ \A i \in 1..Len(rows) : rows[i].status = "processing" <=> i \in OutstandingIn(rows, p)
  /\ \A i \in 1..Len(rows), j \in p.window :
       i \notin p.window /\ rows[i].status # "pending" => i < j
  /\ p.verdict # "failed"

\* The index holds what the last row it has been told about says of a claim.
IndexTells(rows, p, stored) ==
  \A c \in Claims :
    /\ (\A i \in AppliedIn(rows, p) : rows[i].claim # c) => stored[c] = 0
    /\ \A i \in AppliedIn(rows, p) :
         rows[i].claim = c /\ (\A j \in AppliedIn(rows, p) : rows[j].claim = c => j <= i)
           => stored[c] = rows[i].version

\* A claim recorded as synced in its version was sent in that version.
SyncedWasSent(rows, p, table, tears) ==
  \A c \in Claims :
    table[c] # Nothing /\ tears[c] = "no" /\ table[c].synced = table[c].version =>
      \E i \in AppliedIn(rows, p) :
        rows[i].claim = c /\ rows[i].event = "upsert" /\ rows[i].version = table[c].version

QuietInv(w) ==
  /\ DrainInv /\ NewestRowIsCurrent /\ VersionsGrow /\ RowsInOrder(queue, drainer[w])
  /\ IndexTells(queue, drainer[w], index) /\ SyncedWasSent(queue, drainer[w], claims, torn)

\* While the rows the index knows stay the same, so does what it has to hold.
LEMMA SameRowsApplied ==
  ASSUME NEW rows, NEW new, NEW p, NEW q, NEW stored, IndexTells(rows, p, stored),
         AppliedIn(new, q) = AppliedIn(rows, p),
         \A i \in AppliedIn(rows, p) : new[i].claim = rows[i].claim /\ new[i].version = rows[i].version
  PROVE  IndexTells(new, q, stored)
<1>1. ASSUME NEW c \in Claims, \A i \in AppliedIn(new, q) : new[i].claim # c
      PROVE  stored[c] = 0
  BY <1>1 DEF IndexTells
<1>2. ASSUME NEW c \in Claims, NEW i \in AppliedIn(new, q), new[i].claim = c,
             \A j \in AppliedIn(new, q) : new[j].claim = c => j <= i
      PROVE  stored[c] = new[i].version
  BY <1>2 DEF IndexTells
<1> HIDE DEF AppliedIn
<1> QED BY <1>1, <1>2 DEF IndexTells

\* A write tears at most its claim, and a claim it leaves whole it raises.
LEMMA TornWritten ==
  ASSUME LedgerTypeOK, NEW c \in Claims, NEW claim \in ClaimRow, NEW event \in Events,
         NEW version \in Nat, Writes(c, claim, event, version)
  PROVE  /\ \A d \in Claims : d # c => torn'[d] = torn[d]
         /\ torn'[c] = "no" => torn[c] = "no" /\ version = claim.version /\ Advances(c, claim)
<1>1. torn \in [Claims -> {"no", "open", "mended"}]
  BY DEF LedgerTypeOK
<1>2. CASE Mended(c) /\ version = claim.version /\ Advances(c, claim)
  BY <1>1, <1>2 DEF Mended
<1>3. CASE torn' = [torn EXCEPT ![c] = "open"]
  BY <1>1, <1>3
<1> QED BY <1>2, <1>3 DEF Writes

\* The ledger flags no claim.
LEMMA NoneFlagged ==
  ASSUME DrainInv, VersionsGrow, LedgerNext,
         \/ claims' = claims
         \/ \E c \in Claims, claim \in ClaimRow, event \in Events, version \in Nat :
              Writes(c, claim, event, version)
  PROVE  \A d \in Claims : claims'[d] # Nothing => ~Flagged(d)'
<1>1. LedgerTypeOK /\ ReadingsHold
  BY DEF DrainInv, DrainTypeOK
<1> SUFFICES ASSUME NEW d \in Claims, claims'[d] # Nothing PROVE ~Flagged(d)'
  OBVIOUS
<1>2. \/ imports'[d].seen \in {imports[d].seen, Nothing}
      \/ imports'[d].seen = claims[d] /\ claims' = claims
  BY <1>1, HistoryEffect
<1>3. \/ claims[d] # Nothing /\ ~Flagged(d)
      \/ claims[d] = Nothing /\ imports[d].seen = Nothing
  BY <1>1 DEF VersionsGrow, ReadingsHold
<1>4. claims'[d].sync # "failed"
  <2>1. CASE claims' = claims
    BY <1>3, <2>1 DEF Flagged
  <2>2. ASSUME NEW c \in Claims, NEW claim \in ClaimRow, NEW event \in Events,
               NEW version \in Nat, Writes(c, claim, event, version)
        PROVE  claims'[d].sync # "failed"
    <3>1. claims'[c] = claim /\ (d # c => claims'[d] = claims[d])
      BY <1>1, <2>2, RowAppended DEF Writes
    <3>2. CASE d # c
      BY <1>3, <3>1, <3>2 DEF Flagged
    <3>3. CASE d = c
      <4>1. Advances(c, claim) \/ Overwrites(c, claim, version)
        BY <2>2 DEF Writes
      <4> QED BY <1>3, <3>1, <3>3, <4>1 DEF Flagged, Advances, Overwrites
    <3> QED BY <3>2, <3>3
  <2> QED BY <2>1, <2>2
<1> QED BY <1>2, <1>3, <1>4 DEF Flagged

\* A write raises the version above every earlier row of a claim it leaves whole.
LEMMA VersionsWritten ==
  ASSUME DrainInv, VersionsGrow, LedgerNext, NEW c \in Claims, NEW claim \in ClaimRow,
         NEW event \in Events, NEW version \in Nat, Writes(c, claim, event, version)
  PROVE  VersionsGrow' /\ (torn'[c] = "no" => claim.synced # claim.version)
<1>1. /\ LedgerTypeOK /\ claims \in [Claims -> ClaimRow \cup {Nothing}] /\ Nothing \notin ClaimRow
      /\ \A i \in OutboxIds : queue[i] \in Row
  BY OutboxShape, KnowledgeLedgerAssumption DEF DrainInv, DrainTypeOK, LedgerTypeOK
<1>2. /\ OutboxIds' = OutboxIds \cup {Len(queue) + 1} /\ Len(queue) + 1 \notin OutboxIds
      /\ \A i \in OutboxIds : i < Len(queue) + 1 /\ queue'[i] = queue[i]
      /\ queue'[Len(queue) + 1] = Queued(c, event, version)
      /\ claims'[c] = claim /\ \A d \in Claims : d # c => claims'[d] = claims[d]
  BY <1>1, RowAppended DEF Writes
<1>3. PICK n : n = Len(queue) + 1
  OBVIOUS
<1>4. /\ queue'[n].claim = c /\ queue'[n].event = event
      /\ queue'[n].version = IF event = "upsert" THEN version ELSE 0
  BY <1>2, <1>3 DEF Queued
<1>5. /\ \A d \in Claims : d # c => torn'[d] = torn[d]
      /\ torn'[c] = "no" => torn[c] = "no" /\ version = claim.version /\ Advances(c, claim)
  BY <1>1, TornWritten
<1>6. ASSUME torn'[c] = "no"
      PROVE  /\ claim.version \in Nat /\ claim.synced \in Nat /\ claim.synced < claim.version
             /\ version = claim.version
  <2>1. CASE claims[c] = Nothing
    BY <1>5, <1>6, <2>1 DEF Advances, ClaimRow
  <2>2. CASE claims[c] # Nothing
    <3>1. claims[c] \in ClaimRow /\ claims[c].synced <= claims[c].version /\ ~Flagged(c)
      BY <1>1, <1>5, <1>6, <2>2 DEF VersionsGrow
    <3>2. claims[c].version \in Nat /\ claims[c].synced \in Nat
      BY <3>1 DEF ClaimRow
    <3> QED BY <1>5, <1>6, <2>2, <3>1, <3>2 DEF Advances, ClaimRow
  <2> QED BY <1>5, <1>6, <2>1, <2>2
<1>7. ASSUME torn'[c] = "no",
             NEW i \in OutboxIds, queue[i].claim = c, queue[i].event = "upsert"
      PROVE  queue[i].version < claim.version
  <2>1. claims[c] # Nothing
    BY <1>7 DEF DrainInv, RowsHaveClaims
  <2>2. claims[c] \in ClaimRow /\ queue[i].version <= claims[c].version /\ ~Flagged(c)
    BY <1>1, <1>5, <1>7, <2>1 DEF VersionsGrow
  <2>3. claims[c].version \in Nat /\ queue[i].version \in Nat
    BY <1>1, <2>2 DEF ClaimRow, Row
  <2>4. claim.version = claims[c].version + 1
    BY <1>5, <1>7, <2>1, <2>2 DEF Advances
  <2> QED BY <2>2, <2>3, <2>4
<1>8. ASSUME NEW d \in Claims, claims'[d] # Nothing
      PROVE  /\ ~Flagged(d)' /\ (torn'[d] = "no" => claims'[d].synced <= claims'[d].version)
             /\ \E i \in OutboxIds' : queue'[i].claim = d
  <2>1. ~Flagged(d)'
    BY <1>8, NoneFlagged
  <2>2. CASE d = c
    BY <1>2, <1>3, <1>4, <1>6, <2>1, <2>2
  <2>3. CASE d # c
    <3>1. claims'[d] = claims[d] /\ claims[d] # Nothing /\ torn'[d] = torn[d]
      BY <1>2, <1>5, <1>8, <2>3
    <3>2. PICK i \in OutboxIds : queue[i].claim = d
      BY <3>1 DEF VersionsGrow
    <3>3. \E j \in OutboxIds' : queue'[j].claim = d
      BY <1>2, <3>2
    <3>4. torn'[d] = "no" => claims'[d].synced <= claims'[d].version
      BY <3>1 DEF VersionsGrow
    <3> QED BY <2>1, <3>3, <3>4
  <2> QED BY <2>2, <2>3
<1>9. ASSUME NEW i \in OutboxIds'
      PROVE  /\ queue'[i].event = "delete" => queue'[i].version = 0
             /\ queue'[i].event = "upsert" /\ torn'[queue'[i].claim] = "no" =>
                  /\ queue'[i].version <= claims'[queue'[i].claim].version
                  /\ queue'[i].version = claims'[queue'[i].claim].version =>
                       \A j \in OutboxIds' : queue'[j].claim = queue'[i].claim => j <= i
  <2>1. CASE i = n
    <3>1. n \in Int /\ \A j \in OutboxIds' : j <= n
      BY <1>1, <1>2, <1>3, OutboxShape
    <3> QED BY <1>2, <1>4, <1>6, <2>1, <3>1
  <2>2. CASE i \in OutboxIds /\ queue[i].claim = c
    <3>1. queue'[i] = queue[i] /\ claims'[queue'[i].claim] = claim
      BY <1>2, <2>2
    <3>2. queue[i].event = "upsert" /\ torn'[c] = "no" => queue[i].version < claim.version
      BY <1>7, <2>2
    <3>3. queue[i].version \in Nat
      BY <1>1, <2>2 DEF Row
    <3>4. queue[i].event = "delete" => queue[i].version = 0
      BY <2>2 DEF VersionsGrow
    <3> QED BY <1>6, <2>2, <3>1, <3>2, <3>3, <3>4
  <2>3. CASE i \in OutboxIds /\ queue[i].claim # c
    <3>1. queue[i].claim \in Claims
      BY <1>1, <2>3 DEF Row
    <3>2. /\ queue'[i] = queue[i] /\ claims'[queue'[i].claim] = claims[queue[i].claim]
          /\ torn'[queue'[i].claim] = torn[queue[i].claim]
      BY <1>2, <1>5, <2>3, <3>1
    <3>3. ASSUME NEW j \in OutboxIds', queue'[j].claim = queue'[i].claim
          PROVE  j \in OutboxIds /\ queue[j].claim = queue[i].claim
      BY <1>2, <1>3, <1>4, <2>3, <3>2, <3>3
    <3> QED BY <2>3, <3>2, <3>3 DEF VersionsGrow
  <2> QED BY <1>2, <1>3, <2>1, <2>2, <2>3
<1> QED BY <1>6, <1>8, <1>9 DEF VersionsGrow

\* A worker that flags no claim and records no version beyond it keeps them growing.
LEMMA VersionsKept ==
  ASSUME DrainInv, VersionsGrow, RowsKept, ClaimsKept, OutboxIds' = OutboxIds,
         torn' = torn, imports' = imports,
         \A c \in Claims : claims[c] # Nothing =>
           /\ claims'[c].sync # "failed"
           /\ torn[c] = "no" => claims'[c].synced <= claims[c].version
  PROVE  VersionsGrow'
<1>1. \A i \in OutboxIds : queue[i].claim \in Claims /\ claims[queue[i].claim] # Nothing
  BY OutboxShape DEF DrainInv, DrainTypeOK, RowsHaveClaims, Row
<1>2. \A i \in OutboxIds : /\ queue'[i].claim = queue[i].claim /\ queue'[i].event = queue[i].event
                           /\ queue'[i].version = queue[i].version
  BY DEF RowsKept
<1>3. ASSUME NEW c \in Claims, claims'[c] # Nothing
      PROVE  /\ ~Flagged(c)' /\ (torn'[c] = "no" => claims'[c].synced <= claims'[c].version)
             /\ \E i \in OutboxIds' : queue'[i].claim = c
  <2>1. claims[c] # Nothing /\ claims'[c].version = claims[c].version
    BY <1>3 DEF ClaimsKept
  <2>2. PICK i \in OutboxIds : queue[i].claim = c
    BY <2>1 DEF VersionsGrow
  <2>3. ~Flagged(c)'
    BY <2>1 DEF VersionsGrow, Flagged
  <2>4. torn'[c] = "no" => claims'[c].synced <= claims'[c].version
    BY <2>1
  <2> QED BY <1>2, <2>2, <2>3, <2>4
<1>4. ASSUME NEW i \in OutboxIds
      PROVE  /\ queue'[i].event = "delete" => queue'[i].version = 0
             /\ queue'[i].event = "upsert" /\ torn'[queue'[i].claim] = "no" =>
                  /\ queue'[i].version <= claims'[queue'[i].claim].version
                  /\ queue'[i].version = claims'[queue'[i].claim].version =>
                       \A j \in OutboxIds : queue'[j].claim = queue'[i].claim => j <= i
  <2>1. claims'[queue'[i].claim].version = claims[queue[i].claim].version
    BY <1>1, <1>2 DEF ClaimsKept
  <2>2. torn'[queue'[i].claim] = torn[queue[i].claim]
    BY <1>2
  <2> QED BY <1>2, <2>1, <2>2 DEF VersionsGrow
<1> QED BY <1>3, <1>4 DEF VersionsGrow

\* A step that writes nothing keeps them too.
LEMMA VersionsRest ==
  ASSUME DrainInv, VersionsGrow, UNCHANGED <<claims, queue, torn>>,
         LedgerNext \/ UNCHANGED imports
  PROVE  VersionsGrow'
<1>1. ASSUME NEW d \in Claims, claims[d] # Nothing PROVE ~Flagged(d)'
  <2>1. CASE LedgerNext
    BY <1>1, <2>1, NoneFlagged
  <2>2. CASE UNCHANGED imports
    BY <1>1, <2>2 DEF VersionsGrow, Flagged
  <2> QED BY <2>1, <2>2
<1> QED BY <1>1 DEF VersionsGrow, OutboxIds

\* A new row waits behind all others.
LEMMA QuietWritten ==
  ASSUME DrainInv, VersionsGrow, LedgerNext, NEW p, PassHolds(p), RowsInOrder(queue, p),
         IndexTells(queue, p, index), SyncedWasSent(queue, p, claims, torn),
         NEW c \in Claims, NEW claim \in ClaimRow, NEW event \in Events, NEW version \in Nat,
         Writes(c, claim, event, version)
  PROVE  /\ RowsInOrder(queue', p) /\ IndexTells(queue', p, index)
         /\ SyncedWasSent(queue', p, claims', torn') /\ AppliedIn(queue', p) = AppliedIn(queue, p)
<1>1. LedgerTypeOK
  BY DEF DrainInv, DrainTypeOK
<1>2. /\ OutboxIds' = OutboxIds \cup {Len(queue) + 1} /\ Len(queue) + 1 \notin OutboxIds
      /\ \A i \in OutboxIds : i < Len(queue) + 1 /\ queue'[i] = queue[i]
      /\ queue'[Len(queue) + 1] = Queued(c, event, version)
      /\ claims'[c] = claim /\ \A d \in Claims : d # c => claims'[d] = claims[d]
      /\ RowsKept
  BY <1>1, RowAppended DEF Writes
<1>3. PICK n : n = Len(queue) + 1
  OBVIOUS
<1>4. queue'[n].status = "pending" /\ queue'[n].attempts = 0
  BY <1>2, <1>3 DEF Queued
<1>5. p.window \subseteq OutboxIds /\ p.open \subseteq OutboxIds
  <2>1. p.verdict # "none" => GroupIn(queue, p.window, p.phase) \subseteq p.window
    BY <1>1, GroupShape DEF PassHolds
  <2> QED BY <2>1 DEF PassHolds
<1>6. AppliedIn(queue', p) = AppliedIn(queue, p)
  <2>1. ASSUME NEW i \in OutboxIds' PROVE i \in AppliedIn(queue', p) <=> i \in AppliedIn(queue, p)
    <3>1. CASE i = n
      BY <1>2, <1>3, <1>4, <1>5, <3>1 DEF AppliedIn, OutboxIds
    <3>2. CASE i \in OutboxIds
      BY <1>2, <3>2 DEF AppliedIn, OutboxIds
    <3> QED BY <1>2, <1>3, <3>1, <3>2
  <2>2. AppliedIn(queue', p) \subseteq OutboxIds' /\ AppliedIn(queue, p) \subseteq OutboxIds'
    BY <1>2 DEF AppliedIn, OutboxIds
  <2> QED BY <2>1, <2>2
<1>7. AppliedIn(queue, p) \subseteq OutboxIds
  BY DEF AppliedIn, OutboxIds
<1>8. IndexTells(queue', p, index)
  <2>1. PICK rows, new, stored : rows = queue /\ new = queue' /\ stored = index
    OBVIOUS
  <2>2. \A i \in AppliedIn(rows, p) : new[i].claim = rows[i].claim /\ new[i].version = rows[i].version
    BY <1>2, <1>7, <2>1
  <2>3. IndexTells(rows, p, stored) /\ AppliedIn(new, p) = AppliedIn(rows, p)
    BY <1>6, <2>1
  <2>4. IndexTells(new, p, stored)
    BY <2>2, <2>3, SameRowsApplied
  <2> QED BY <2>1, <2>4
<1>9. SyncedWasSent(queue', p, claims', torn')
  <2>1. ASSUME NEW d \in Claims, claims'[d] # Nothing, torn'[d] = "no",
               claims'[d].synced = claims'[d].version
        PROVE  \E i \in AppliedIn(queue', p) : /\ queue'[i].claim = d /\ queue'[i].event = "upsert"
                                                /\ queue'[i].version = claims'[d].version
    <3>1. d # c
      BY <1>2, <2>1, VersionsWritten
    <3>2. claims'[d] = claims[d] /\ torn'[d] = torn[d]
      BY <1>1, <1>2, <3>1, TornWritten
    <3>3. PICK i \in AppliedIn(queue, p) : /\ queue[i].claim = d /\ queue[i].event = "upsert"
                                            /\ queue[i].version = claims[d].version
      BY <2>1, <3>2 DEF SyncedWasSent
    <3> QED BY <1>2, <1>6, <1>7, <3>2, <3>3
  <2> QED BY <2>1 DEF SyncedWasSent
<1>10. RowsInOrder(queue', p)
  <2>1. OutstandingIn(queue', p) = OutstandingIn(queue, p) /\ OutstandingIn(queue, p) \subseteq OutboxIds
    BY <1>1, <1>2, <1>5, OutstandingShape
  <2>2. ASSUME NEW i \in OutboxIds'
        PROVE  /\ queue'[i].status # "failed" /\ queue'[i].attempts = 0
               /\ queue'[i].status = "processing" <=> i \in OutstandingIn(queue', p)
    <3>1. CASE i = n
      BY <1>2, <1>3, <1>4, <2>1, <3>1
    <3>2. CASE i \in OutboxIds
      BY <1>2, <2>1, <3>2 DEF RowsInOrder, OutboxIds
    <3> QED BY <1>2, <1>3, <3>1, <3>2
  <2>3. ASSUME NEW i \in OutboxIds', NEW j \in OutboxIds', i < j, queue'[i].status = "pending"
        PROVE  queue'[j].status = "pending"
    <3>1. CASE j = n
      BY <1>4, <3>1
    <3>2. CASE j \in OutboxIds
      <4>1. i \in OutboxIds
        <5>1. j < n /\ j \in Int /\ n \in Int
          BY <1>1, <1>2, <1>3, <3>2, OutboxShape
        <5> QED BY <1>2, <1>3, <2>3, <5>1
      <4> QED BY <1>2, <2>3, <3>2, <4>1 DEF RowsInOrder, OutboxIds
    <3> QED BY <1>2, <1>3, <3>1, <3>2
  <2>4. ASSUME NEW i \in OutboxIds', NEW j \in p.window, i \notin p.window, queue'[i].status # "pending"
        PROVE  i < j
    <3>1. i \in OutboxIds /\ queue'[i] = queue[i]
      BY <1>2, <1>3, <1>4, <2>4
    <3> QED BY <2>4, <3>1 DEF RowsInOrder, OutboxIds
  <2> QED BY <2>2, <2>3, <2>4 DEF RowsInOrder, OutboxIds
<1> QED BY <1>6, <1>8, <1>9, <1>10

\* What a new pass has still to settle is its window.
LEMMA LeasedOutstanding ==
  ASSUME LedgerTypeOK, NEW q, q.window \subseteq OutboxIds, q.phase = PhaseAfter("idle", q.window),
         q.verdict = "none"
  PROVE  OutstandingIn(queue, q) = q.window
<1>1. PICK S : S = q.window
  OBVIOUS
<1>2. PICK del, ups : del = GroupIn(queue, S, "delete") /\ ups = GroupIn(queue, S, "upsert")
  OBVIOUS
<1>3. del \cup ups = S
  BY <1>1, <1>2, GroupShape
<1>4. q.phase = IF del # {} THEN "delete" ELSE IF ups # {} THEN "upsert" ELSE "idle"
  BY <1>1, <1>2, InTerms DEF PhaseAfter
<1> QED BY <1>1, <1>2, <1>3, <1>4 DEF OutstandingIn

\* The window of a lease follows what has been settled and precedes what waits.
LEMMA QuietLease ==
  ASSUME NEW w \in Drainers, DrainInv, DrainBatch \in Nat, RowsInOrder(queue, drainer[w]),
         IndexTells(queue, drainer[w], index), SyncedWasSent(queue, drainer[w], claims, torn),
         NEW due, Lease(w, due)
  PROVE  /\ RowsInOrder(queue', drainer'[w]) /\ IndexTells(queue', drainer'[w], index)
         /\ SyncedWasSent(queue', drainer'[w], claims, torn)
         /\ AppliedIn(queue', drainer'[w]) = AppliedIn(queue, drainer[w])
<1>1. PICK q \in DrainPass :
           /\ drainer' = [drainer EXCEPT ![w] = q] /\ drainer[w].phase = "idle"
           /\ q.window \subseteq OutboxIds /\ q.phase = PhaseAfter("idle", q.window)
           /\ q.open = {} /\ q.verdict = "none"
           /\ \A i \in q.window : /\ \/ queue[i].status = "pending"
                                     \/ queue[i].status = "processing" /\ Expirable(i)
                                  /\ queue'[i].status = "processing"
                                  /\ queue'[i].attempts = queue[i].attempts
           /\ \A i \in OutboxIds \ q.window : queue'[i] = queue[i]
           /\ DrainBatch \in Nat => \A i \in q.window, j \in OutboxIds :
                                     j < i /\ queue[j].status = "pending" /\ queue[j].attempts = 0
                                       => j \in q.window
           /\ RowsKept /\ OutboxIds' = OutboxIds
  BY LeaseEffect
<1>2. PICK p : p = drainer[w]
  OBVIOUS
<1>3. /\ LedgerTypeOK /\ PassHolds(p) /\ p.phase = "idle" /\ p.open = {} /\ drainer'[w] = q
      /\ OutboxIds \subseteq Nat
  BY <1>1, <1>2, OutboxShape DEF DrainInv, DrainTypeOK, PassesHold, PassHolds
<1>4. OutstandingIn(queue, p) = {}
  BY <1>3, OutstandingShape
<1>5. /\ \A i \in OutboxIds : /\ queue[i].status # "failed" /\ queue[i].attempts = 0
                              /\ queue[i].status # "processing"
      /\ \A i, j \in OutboxIds : i < j /\ queue[i].status = "pending" => queue[j].status = "pending"
  BY <1>2, <1>4 DEF RowsInOrder, OutboxIds
<1>6. \A i \in q.window : queue[i].status = "pending"
  BY <1>1, <1>5
<1>7. OutstandingIn(queue', q) = q.window
  <2>1. PassHolds(q)
    BY <1>1 DEF PassHolds
  <2> QED BY <1>1, <1>3, <2>1, LeasedOutstanding, OutstandingShape
<1>8. AppliedIn(queue', q) = AppliedIn(queue, p)
  <2>1. \A i \in OutboxIds : queue'[i].status = "done" <=> queue[i].status = "done"
    BY <1>1, <1>6
  <2> QED BY <1>1, <1>3, <2>1 DEF AppliedIn, OutboxIds
<1>9. AppliedIn(queue, p) \subseteq OutboxIds
  BY DEF AppliedIn, OutboxIds
<1>10. IndexTells(queue', q, index)
  <2>1. PICK rows, new, stored : rows = queue /\ new = queue' /\ stored = index
    OBVIOUS
  <2>2. \A i \in AppliedIn(rows, p) : new[i].claim = rows[i].claim /\ new[i].version = rows[i].version
    BY <1>1, <1>9, <2>1 DEF RowsKept
  <2>3. IndexTells(rows, p, stored) /\ AppliedIn(new, q) = AppliedIn(rows, p)
    BY <1>2, <1>8, <2>1
  <2>4. IndexTells(new, q, stored)
    BY <2>2, <2>3, SameRowsApplied
  <2> QED BY <2>1, <2>4
<1>11. SyncedWasSent(queue', q, claims, torn)
  BY <1>1, <1>2, <1>8, <1>9 DEF SyncedWasSent, RowsKept
<1>12. RowsInOrder(queue', q)
  <2>1. ASSUME NEW i \in OutboxIds
        PROVE  /\ queue'[i].status # "failed" /\ queue'[i].attempts = 0
               /\ queue'[i].status = "processing" <=> i \in OutstandingIn(queue', q)
    BY <1>1, <1>5, <1>7
  <2>2. ASSUME NEW i \in OutboxIds, NEW j \in OutboxIds, i < j, queue'[i].status = "pending"
        PROVE  queue'[j].status = "pending"
    <3>1. i \notin q.window /\ queue[i].status = "pending" /\ queue[i].attempts = 0
      BY <1>1, <1>5, <2>2
    <3>2. j \notin q.window
      BY <1>1, <2>2, <3>1
    <3> QED BY <1>1, <1>5, <2>2, <3>1, <3>2
  <2>3. ASSUME NEW i \in OutboxIds, NEW j \in q.window, i \notin q.window, queue'[i].status # "pending"
        PROVE  i < j
    <3>1. queue[i].status # "pending" /\ queue[j].status = "pending" /\ j \in OutboxIds /\ i # j
      BY <1>1, <1>6, <2>3
    <3>2. ~(j < i)
      BY <1>5, <3>1
    <3> QED BY <1>3, <3>1, <3>2
  <2> QED BY <1>1, <2>1, <2>2, <2>3 DEF RowsInOrder, OutboxIds
<1> QED BY <1>2, <1>3, <1>8, <1>10, <1>11, <1>12

\* A call that succeeds brings the index to the newest rows of its group.
LEMMA QuietProject ==
  ASSUME NEW w \in Drainers, DrainInv, RowsInOrder(queue, drainer[w]),
         IndexTells(queue, drainer[w], index), SyncedWasSent(queue, drainer[w], claims, torn),
         Project(w, TRUE)
  PROVE  /\ RowsInOrder(queue', drainer'[w]) /\ IndexTells(queue', drainer'[w], index')
         /\ SyncedWasSent(queue', drainer'[w], claims', torn')
<1>1. PICK q \in DrainPass :
           /\ drainer' = [drainer EXCEPT ![w] = q]
           /\ drainer[w].phase # "idle" /\ drainer[w].verdict = "none"
           /\ q.phase = drainer[w].phase /\ q.window = drainer[w].window
           /\ q.open = GroupIn(queue, drainer[w].window, drainer[w].phase)
           /\ q.verdict = "done"
           /\ \A c \in Claims :
                index'[c] = IF ClaimIn(queue, q.open, c) = {} THEN index[c]
                            ELSE queue[NewestIn(queue, q.open, c)].version
           /\ UNCHANGED <<claims, queue, torn>>
  BY ProjectEffect DEF undrained
<1>2. PICK p : p = drainer[w]
  OBVIOUS
<1>3. /\ LedgerTypeOK /\ PassHolds(p) /\ drainer'[w] = q /\ p.window \in SUBSET OutboxIds
      /\ p.open = {} /\ OutboxIds \subseteq Nat
  BY <1>1, <1>2, OutboxShape DEF DrainInv, DrainTypeOK, PassesHold, PassHolds
<1>4. PICK group : group = q.open
  OBVIOUS
<1>5. /\ group \in SUBSET OutboxIds /\ group \subseteq p.window
      /\ \A i \in group, j \in p.window : queue[j].claim = queue[i].claim => j \in group
  <2>1. group = GroupIn(queue, p.window, p.phase)
    BY <1>1, <1>2, <1>4
  <2>2. /\ group \subseteq p.window
        /\ \A i, j : i \in group /\ j \in p.window /\ queue[j].claim = queue[i].claim => j \in group
    BY <1>3, <2>1, GroupShape
  <2> QED BY <1>3, <2>2
<1>6. OutstandingIn(queue, q) = OutstandingIn(queue, p)
  BY <1>1, <1>2 DEF OutstandingIn
<1>7. RowsInOrder(queue, q)
  BY <1>1, <1>2, <1>6 DEF RowsInOrder
<1>8. AppliedIn(queue, q) = AppliedIn(queue, p) \cup group
  BY <1>3, <1>4, <1>5 DEF AppliedIn, OutboxIds
<1>9. SyncedWasSent(queue, q, claims, torn)
  BY <1>2, <1>8 DEF SyncedWasSent
<1>10. IndexTells(queue, q, index')
  <2>1. ASSUME NEW c \in Claims, ClaimIn(queue, group, c) = {}
        PROVE  /\ (\A i \in AppliedIn(queue, q) : queue[i].claim # c) => index'[c] = 0
               /\ \A i \in AppliedIn(queue, q) :
                    queue[i].claim = c
                    /\ (\A j \in AppliedIn(queue, q) : queue[j].claim = c => j <= i)
                      => index'[c] = queue[i].version
    <3>1. index'[c] = index[c]
      BY <1>1, <1>4, <2>1
    <3>2. \A i \in group : queue[i].claim # c
      BY <2>1 DEF ClaimIn
    <3> QED BY <1>2, <1>8, <3>1, <3>2 DEF IndexTells
  <2>2. ASSUME NEW c \in Claims, ClaimIn(queue, group, c) # {}
        PROVE  \E n \in AppliedIn(queue, q) :
                 /\ queue[n].claim = c /\ index'[c] = queue[n].version
                 /\ \A i \in AppliedIn(queue, q) :
                      queue[i].claim = c
                      /\ (\A j \in AppliedIn(queue, q) : queue[j].claim = c => j <= i) => i = n
    <3>1. PICK k \in group : queue[k].claim = c
      BY <2>2 DEF ClaimIn
    <3>2. PICK n : n = NewestIn(queue, group, c)
      OBVIOUS
    <3>3. n \in group /\ queue[n].claim = c /\ \A j \in group : queue[j].claim = c => j <= n
      BY <1>3, <1>5, <3>1, <3>2, NewestExists
    <3>4. index'[c] = queue[n].version
      BY <1>1, <1>4, <2>2, <3>2
    <3>5. ASSUME NEW i \in AppliedIn(queue, q), queue[i].claim = c,
                 \A j \in AppliedIn(queue, q) : queue[j].claim = c => j <= i
          PROVE  i = n
      <4>1. n <= i /\ n \in Nat /\ i \in Nat /\ i \in OutboxIds
        BY <1>3, <1>5, <1>8, <3>3, <3>5 DEF AppliedIn, OutboxIds
      <4>2. CASE i \in group
        BY <3>3, <3>5, <4>1, <4>2
      <4>3. CASE i \notin group
        <5>1. i \notin p.window
          BY <1>5, <3>3, <3>5, <4>3
        <5>2. queue[i].status = "done"
          BY <1>3, <1>8, <4>3 DEF AppliedIn
        <5>3. i < n
          BY <1>2, <1>5, <3>3, <4>1, <5>1, <5>2 DEF RowsInOrder, OutboxIds
        <5> QED BY <4>1, <5>3
      <4> QED BY <4>2, <4>3
    <3> QED BY <1>8, <3>3, <3>4, <3>5
  <2> HIDE DEF AppliedIn
  <2> QED BY <2>1, <2>2 DEF IndexTells
<1> QED BY <1>1, <1>3, <1>7, <1>9, <1>10

\* A row that is settled has been sent, and so has the version recorded with it.
LEMMA QuietDone ==
  ASSUME NEW w \in Drainers, DrainInv, VersionsGrow, RowsInOrder(queue, drainer[w]),
         IndexTells(queue, drainer[w], index), SyncedWasSent(queue, drainer[w], claims, torn),
         NEW i \in OutboxIds, MarkDone(w, i)
  PROVE  /\ RowsInOrder(queue', drainer'[w]) /\ IndexTells(queue', drainer'[w], index')
         /\ SyncedWasSent(queue', drainer'[w], claims', torn') /\ VersionsGrow'
         /\ AppliedIn(queue', drainer'[w]) = AppliedIn(queue, drainer[w])
<1>1. /\ RowTurn(w, i) /\ drainer[w].verdict = "done"
      /\ drainer' = [drainer EXCEPT ![w] = Settled(w, i)] /\ OutboxIds' = OutboxIds
      /\ RowsKept /\ queue'[i].status = "done" /\ queue'[i].attempts = queue[i].attempts
      /\ \A j \in OutboxIds : j # i => queue'[j] = queue[j]
      /\ ClaimsKept
      /\ \/ claims' = claims
         \/ \E m \in ClaimRow :
              /\ claims' = [claims EXCEPT ![queue[i].claim] = m] /\ queue[i].event = "upsert"
              /\ m.version = claims[queue[i].claim].version
              /\ m.sync \in {claims[queue[i].claim].sync, "synced"}
              /\ m.synced \in {claims[queue[i].claim].synced, queue[i].version}
      /\ UNCHANGED <<index, torn, imports>>
  BY DoneEffect DEF undrained
<1>2. PICK p : p = drainer[w]
  OBVIOUS
<1>3. PICK q \in DrainPass : q = Settled(w, i) /\ drainer'[w] = q
  BY <1>1, SettledEffect DEF DrainInv, DrainTypeOK
<1>4. /\ i \in OutstandingIn(queue, p) /\ PassHolds(q)
      /\ OutstandingIn(queue, q) = OutstandingIn(queue, p) \ {i}
  BY <1>1, <1>2, <1>3, SettledOutstanding
<1>5. /\ LedgerTypeOK /\ claims \in [Claims -> ClaimRow \cup {Nothing}]
      /\ queue[i] \in Row /\ queue[i].claim \in Claims /\ claims[queue[i].claim] # Nothing
      /\ i \in p.open /\ i \in p.window
  <2>1. LedgerTypeOK /\ PassHolds(p) /\ i \in p.open /\ p.verdict = "done"
    BY <1>1, <1>2 DEF DrainInv, DrainTypeOK, PassesHold, PassHolds, RowTurn
  <2>2. p.open \subseteq p.window
    BY <2>1, GroupShape DEF PassHolds
  <2> QED BY <2>1, <2>2, OutboxShape DEF LedgerTypeOK, Row, DrainInv, RowsHaveClaims
<1>6. OutstandingIn(queue', q) = OutstandingIn(queue, p) \ {i}
  BY <1>1, <1>4, <1>5, OutstandingShape
<1>7. \/ q.window = p.window /\ q.verdict = "done" /\ q.open = p.open \ {i}
      \/ p.open = {i} /\ q.window = {} /\ q.open = {} /\ q.verdict = "none"
      \/ p.open = {i} /\ q.window = p.window /\ q.open = {} /\ q.verdict = "none"
  BY <1>1, <1>2, <1>3, SettledEffect, PassShape
<1>8. AppliedIn(queue', q) = AppliedIn(queue, p)
  <2>1. \A j \in OutboxIds : queue'[j].status = "done" \/ j \in q.open
                               <=> queue[j].status = "done" \/ j \in p.open
    BY <1>1, <1>5, <1>7
  <2> QED BY <1>1, <2>1 DEF AppliedIn, OutboxIds
<1>9. AppliedIn(queue, p) \subseteq OutboxIds /\ i \in AppliedIn(queue, p)
  BY <1>5 DEF AppliedIn, OutboxIds
<1>10. IndexTells(queue', q, index)
  <2>1. PICK rows, new, stored : rows = queue /\ new = queue' /\ stored = index
    OBVIOUS
  <2>2. \A j \in AppliedIn(rows, p) : new[j].claim = rows[j].claim /\ new[j].version = rows[j].version
    BY <1>1, <1>9, <2>1 DEF RowsKept
  <2>3. IndexTells(rows, p, stored) /\ AppliedIn(new, q) = AppliedIn(rows, p)
    BY <1>2, <1>8, <2>1
  <2>4. IndexTells(new, q, stored)
    BY <2>2, <2>3, SameRowsApplied
  <2> QED BY <2>1, <2>4
<1>11. ASSUME NEW c \in Claims, claims[c] # Nothing
       PROVE  /\ claims'[c].sync # "failed" /\ claims'[c].version = claims[c].version
              /\ \/ claims'[c].synced = claims[c].synced
                 \/ /\ c = queue[i].claim /\ queue[i].event = "upsert"
                    /\ claims'[c].synced = queue[i].version
  <2>1. claims[c].sync # "failed"
    BY <1>11 DEF VersionsGrow, Flagged
  <2>2. CASE claims' = claims
    BY <2>1, <2>2
  <2>3. ASSUME NEW m \in ClaimRow,
               claims' = [claims EXCEPT ![queue[i].claim] = m], queue[i].event = "upsert",
               m.version = claims[queue[i].claim].version,
               m.sync \in {claims[queue[i].claim].sync, "synced"},
               m.synced \in {claims[queue[i].claim].synced, queue[i].version}
        PROVE  /\ claims'[c].sync # "failed" /\ claims'[c].version = claims[c].version
               /\ \/ claims'[c].synced = claims[c].synced
                  \/ /\ c = queue[i].claim /\ queue[i].event = "upsert"
                     /\ claims'[c].synced = queue[i].version
    <3>1. CASE c = queue[i].claim
      BY <1>5, <2>1, <2>3, <3>1
    <3>2. CASE c # queue[i].claim
      BY <1>5, <2>1, <2>3, <3>2
    <3> QED BY <3>1, <3>2
  <2> QED BY <1>1, <2>2, <2>3
<1>12. VersionsGrow'
  <2>1. ASSUME NEW c \in Claims, claims[c] # Nothing
        PROVE  /\ claims'[c].sync # "failed"
               /\ torn[c] = "no" => claims'[c].synced <= claims[c].version
    <3>1. torn[c] = "no" => claims[c].synced <= claims[c].version
      BY <2>1 DEF VersionsGrow
    <3>2. queue[i].event = "upsert" /\ torn[queue[i].claim] = "no"
            => queue[i].version <= claims[queue[i].claim].version
      BY DEF VersionsGrow
    <3> QED BY <1>11, <2>1, <3>1, <3>2
  <2> QED BY <1>1, <2>1, VersionsKept
<1>13. SyncedWasSent(queue', q, claims', torn')
  <2>1. ASSUME NEW c \in Claims, claims'[c] # Nothing, torn'[c] = "no",
               claims'[c].synced = claims'[c].version
        PROVE  \E j \in AppliedIn(queue', q) : /\ queue'[j].claim = c /\ queue'[j].event = "upsert"
                                                /\ queue'[j].version = claims'[c].version
    <3>1. claims[c] # Nothing
      BY <1>1, <2>1 DEF ClaimsKept
    <3>2. CASE claims'[c].synced = claims[c].synced
      <4>1. PICK j \in AppliedIn(queue, p) : /\ queue[j].claim = c /\ queue[j].event = "upsert"
                                              /\ queue[j].version = claims[c].version
        BY <1>1, <1>2, <1>11, <2>1, <3>1, <3>2 DEF SyncedWasSent
      <4> QED BY <1>1, <1>8, <1>9, <1>11, <3>1, <4>1 DEF RowsKept
    <3>3. CASE /\ c = queue[i].claim /\ queue[i].event = "upsert"
               /\ claims'[c].synced = queue[i].version
      BY <1>1, <1>8, <1>9, <2>1, <3>3 DEF RowsKept
    <3> QED BY <1>11, <3>1, <3>2, <3>3
  <2> QED BY <2>1 DEF SyncedWasSent
<1>14. RowsInOrder(queue', q)
  <2>1. queue[i].status = "processing"
    BY <1>2, <1>4 DEF RowsInOrder, OutboxIds
  <2>2. ASSUME NEW j \in OutboxIds
        PROVE  /\ queue'[j].status # "failed" /\ queue'[j].attempts = 0
               /\ queue'[j].status = "processing" <=> j \in OutstandingIn(queue', q)
    <3>1. CASE j = i
      BY <1>1, <1>6, <3>1 DEF RowsInOrder, OutboxIds
    <3>2. CASE j # i
      BY <1>1, <1>2, <1>6, <3>2 DEF RowsInOrder, OutboxIds
    <3> QED BY <3>1, <3>2
  <2>3. ASSUME NEW j \in OutboxIds
        PROVE  queue'[j].status = "pending" <=> queue[j].status = "pending"
    BY <1>1, <2>1
  <2>4. ASSUME NEW j \in OutboxIds, NEW k \in OutboxIds, j < k, queue'[j].status = "pending"
        PROVE  queue'[k].status = "pending"
    BY <2>3, <2>4 DEF RowsInOrder, OutboxIds
  <2>5. ASSUME NEW j \in OutboxIds, NEW k \in q.window, j \notin q.window, queue'[j].status # "pending"
        PROVE  j < k
    BY <1>2, <1>7, <2>3, <2>5 DEF RowsInOrder, OutboxIds
  <2>6. q.verdict # "failed"
    BY <1>7
  <2> QED BY <1>1, <2>2, <2>4, <2>5, <2>6 DEF RowsInOrder, OutboxIds
<1> QED BY <1>1, <1>2, <1>3, <1>8, <1>10, <1>12, <1>13, <1>14

\* The parts of the invariant that one step could disturb.
LEMMA QuietStep ==
  ASSUME NEW w, Drainers = {w}, DrainFaults = FALSE, MaxDrainCrashes = 0, DrainBatch \in Nat,
         QuietInv(w), [DrainNext]_drainVars
  PROVE  /\ VersionsGrow' /\ RowsInOrder(queue', drainer'[w])
         /\ IndexTells(queue', drainer'[w], index')
         /\ SyncedWasSent(queue', drainer'[w], claims', torn')
<1>1. /\ DrainInv /\ NewestRowIsCurrent /\ VersionsGrow /\ RowsInOrder(queue, drainer[w])
      /\ IndexTells(queue, drainer[w], index) /\ SyncedWasSent(queue, drainer[w], claims, torn)
      /\ w \in Drainers
  BY DEF QuietInv
<1>2. /\ LedgerTypeOK /\ PassHolds(drainer[w]) /\ drainCrashes \in 0..MaxDrainCrashes
      /\ DOMAIN queue = OutboxIds
  BY <1>1, OutboxShape DEF DrainInv, DrainTypeOK, PassesHold, PassHolds
<1>3. CASE /\ UNCHANGED <<claims, queue, torn, drainer, index>>
           /\ LedgerNext \/ UNCHANGED imports
  <2>1. VersionsGrow'
    BY <1>1, <1>3, VersionsRest
  <2> QED BY <1>1, <1>3, <2>1
<1>4. ASSUME UNCHANGED <<claims, queue, torn, imports, index>>, RowsInOrder(queue, drainer'[w]),
             AppliedIn(queue, drainer'[w]) = AppliedIn(queue, drainer[w])
      PROVE  /\ VersionsGrow' /\ RowsInOrder(queue', drainer'[w])
             /\ IndexTells(queue', drainer'[w], index')
             /\ SyncedWasSent(queue', drainer'[w], claims', torn')
  <2>1. VersionsGrow'
    BY <1>1, <1>4, VersionsRest
  <2>2. IndexTells(queue, drainer'[w], index)
    BY <1>1, <1>4, SameRowsApplied
  <2>3. SyncedWasSent(queue, drainer'[w], claims, torn)
    BY <1>1, <1>4 DEF SyncedWasSent
  <2> QED BY <1>4, <2>1, <2>2, <2>3
<1>5. CASE LedgerNext /\ UNCHANGED <<index, drainer, drainCrashes>>
  <2>1. ASSUME NEW c \in Claims, NEW claim \in ClaimRow, NEW event \in Events,
               NEW version \in Nat, Writes(c, claim, event, version)
        PROVE  /\ VersionsGrow' /\ RowsInOrder(queue', drainer'[w])
               /\ IndexTells(queue', drainer'[w], index')
               /\ SyncedWasSent(queue', drainer'[w], claims', torn')
    <3>1. VersionsGrow'
      BY <1>1, <1>5, <2>1, VersionsWritten
    <3>2. PICK p : p = drainer[w]
      OBVIOUS
    <3>3. /\ RowsInOrder(queue', p) /\ IndexTells(queue', p, index)
          /\ SyncedWasSent(queue', p, claims', torn')
      BY <1>1, <1>2, <1>5, <2>1, <3>2, QuietWritten
    <3> QED BY <1>5, <3>1, <3>2, <3>3
  <2>2. LedgerInv
    BY <1>1 DEF DrainInv, DrainTypeOK, LedgerInv
  <2> QED BY <1>3, <1>5, <2>1, <2>2, LedgerWrites
<1>6. ASSUME NEW due, Lease(w, due)
      PROVE  /\ VersionsGrow' /\ RowsInOrder(queue', drainer'[w])
             /\ IndexTells(queue', drainer'[w], index')
             /\ SyncedWasSent(queue', drainer'[w], claims', torn')
  <2>1. RowsKept /\ OutboxIds' = OutboxIds /\ UNCHANGED <<claims, torn, imports, index>>
    BY <1>1, <1>6, LeaseEffect DEF undrained
  <2>2. /\ ClaimsKept
        /\ \A c \in Claims : claims[c] # Nothing =>
             /\ claims'[c].sync # "failed"
             /\ torn[c] = "no" => claims'[c].synced <= claims[c].version
    BY <1>1, <2>1 DEF ClaimsKept, Alike, VersionsGrow, Flagged
  <2>3. VersionsGrow'
    BY <1>1, <2>1, <2>2, VersionsKept
  <2> QED BY <1>1, <1>6, <2>1, <2>3, QuietLease
<1>7. ASSUME Project(w, TRUE)
      PROVE  /\ VersionsGrow' /\ RowsInOrder(queue', drainer'[w])
             /\ IndexTells(queue', drainer'[w], index')
             /\ SyncedWasSent(queue', drainer'[w], claims', torn')
  <2>1. VersionsGrow'
    BY <1>1, <1>7, VersionsRest DEF Project, ledger
  <2> QED BY <1>1, <1>7, <2>1, QuietProject
<1>8. ASSUME NEW i \in OutboxIds, ReadClaim(w, i)
      PROVE  /\ VersionsGrow' /\ RowsInOrder(queue', drainer'[w])
             /\ IndexTells(queue', drainer'[w], index')
             /\ SyncedWasSent(queue', drainer'[w], claims', torn')
  <2>1. PICK q \in DrainPass :
           /\ drainer' = [drainer EXCEPT ![w] = q]
           /\ q.phase = drainer[w].phase /\ q.window = drainer[w].window /\ q.open = drainer[w].open
           /\ q.verdict = drainer[w].verdict
           /\ UNCHANGED <<claims, queue, torn, imports, index>>
    BY <1>1, <1>8, ReadEffect DEF undrained
  <2>2. drainer'[w] = q
    BY <1>1, <2>1 DEF DrainInv, DrainTypeOK
  <2>3. OutstandingIn(queue, q) = OutstandingIn(queue, drainer[w])
    BY <2>1 DEF OutstandingIn
  <2>4. RowsInOrder(queue, q)
    BY <1>1, <2>1, <2>3 DEF RowsInOrder
  <2>5. AppliedIn(queue, q) = AppliedIn(queue, drainer[w])
    BY <2>1 DEF AppliedIn
  <2> QED BY <1>4, <2>1, <2>2, <2>4, <2>5
<1>9. ASSUME NEW i \in OutboxIds PROVE ~MarkFailed(w, i)
  BY <1>1 DEF MarkFailed, RowsInOrder
<1>10. ~DrainCrash(w)
  BY <1>2 DEF DrainCrash
<1>11. CASE DrainWork(w)
  <2>1. CASE \E due \in SUBSET DOMAIN queue : Lease(w, due)
    BY <1>6, <2>1
  <2>2. CASE \E ok \in (IF DrainFaults THEN BOOLEAN ELSE {TRUE}) : Project(w, ok)
    BY <1>7, <2>2
  <2>3. CASE \E i \in DOMAIN queue : ReadClaim(w, i) \/ MarkDone(w, i) \/ MarkFailed(w, i)
    <3>1. PICK i \in OutboxIds : ReadClaim(w, i) \/ MarkDone(w, i)
      BY <1>2, <1>9, <2>3
    <3>2. CASE MarkDone(w, i)
      BY <1>1, <3>2, QuietDone
    <3> QED BY <1>8, <3>1, <3>2
  <2> QED BY <1>11, <2>1, <2>2, <2>3 DEF DrainWork
<1> QED BY <1>3, <1>5, <1>10, <1>11 DEF DrainNext, drainVars, ledger

\* The invariant holds in every state.
LEMMA QuietInvariant ==
  ASSUME NEW w, Drainers = {w}, DrainFaults = FALSE, MaxDrainCrashes = 0, DrainBatch \in Nat
  PROVE  DrainSpec => []QuietInv(w)
<1>1. DrainInit => QuietInv(w)
  <2> SUFFICES ASSUME DrainInit PROVE QuietInv(w)
    OBVIOUS
  <2>1. DrainInv /\ NewestRowIsCurrent
    BY DrainInvInit, QueueInit DEF DrainInit
  <2>2. /\ Len(queue) = 0 /\ OutboxIds = {} /\ 1..Len(queue) = {} /\ drainer[w] = DrainIdle
        /\ \A c \in Claims : claims[c] = Nothing /\ index[c] = 0
    BY DEF DrainInit, LedgerInit, OutboxIds
  <2>3. AppliedIn(queue, drainer[w]) = {}
    BY <2>2 DEF AppliedIn
  <2>4. VersionsGrow /\ RowsInOrder(queue, drainer[w])
    BY <2>2, PassShape DEF VersionsGrow, RowsInOrder
  <2>5. IndexTells(queue, drainer[w], index) /\ SyncedWasSent(queue, drainer[w], claims, torn)
    BY <2>2, <2>3 DEF IndexTells, SyncedWasSent
  <2> QED BY <2>1, <2>4, <2>5 DEF QuietInv
<1>2. QuietInv(w) /\ [DrainNext]_drainVars => QuietInv(w)'
  <2> SUFFICES ASSUME QuietInv(w), [DrainNext]_drainVars PROVE QuietInv(w)'
    OBVIOUS
  <2>1. DrainInv /\ NewestRowIsCurrent
    BY DEF QuietInv
  <2>2. DrainInv' /\ NewestRowIsCurrent'
    BY <2>1, DrainInvStep, CurrentStep
  <2>3. /\ VersionsGrow' /\ RowsInOrder(queue', drainer'[w])
        /\ IndexTells(queue', drainer'[w], index')
        /\ SyncedWasSent(queue', drainer'[w], claims', torn')
    BY QuietStep
  <2> QED BY <2>2, <2>3 DEF QuietInv
<1> QED BY <1>1, <1>2, PTL DEF DrainSpec

\* One worker whose calls succeed, whatever is imported, reviewed and retired while
\* it drains in windows of any size: when all rows of a claim are done, the index
\* holds the version the ledger serves, or nothing; except of a claim that an import
\* has written over a change it had not read, until the next write to it.
THEOREM IndexReachesTheLedger ==
  ASSUME NEW w, Drainers = {w}, DrainFaults = FALSE, MaxDrainCrashes = 0, DrainBatch \in Nat
  PROVE  DrainSpec => []FinalState
<1>1. QuietInv(w) => FinalState
  <2> SUFFICES ASSUME QuietInv(w), NEW c \in Claims, claims[c] # Nothing,
                      torn[c] # "open", Drained(c)
               PROVE  index[c] = IF Served(claims[c]) THEN claims[c].version ELSE 0
    BY DEF FinalState
  <2>1. /\ LedgerTypeOK /\ NewestRowIsCurrent /\ VersionsGrow
        /\ IndexTells(queue, drainer[w], index) /\ DOMAIN queue = OutboxIds
    BY OutboxShape DEF QuietInv, DrainInv, DrainTypeOK
  <2>2. PICK k \in OutboxIds : queue[k].claim = c
    BY <2>1 DEF VersionsGrow
  <2>3. PICK S \in SUBSET OutboxIds : S = OutboxIds
    OBVIOUS
  <2>4. PICK n : n = NewestIn(queue, S, c)
    OBVIOUS
  <2>5. n \in OutboxIds /\ queue[n].claim = c /\ \A j \in OutboxIds : queue[j].claim = c => j <= n
    BY <2>1, <2>2, <2>3, <2>4, NewestExists
  <2>6. Newest(n)
    BY <2>1, <2>5 DEF Newest
  <2>7. n \in AppliedIn(queue, drainer[w]) /\ AppliedIn(queue, drainer[w]) \subseteq OutboxIds
    BY <2>1, <2>5 DEF Drained, AppliedIn, OutboxIds
  <2>8. index[c] = queue[n].version
    BY <2>1, <2>5, <2>7 DEF IndexTells
  <2>9. IF Served(claims[c]) THEN queue[n].version = claims[c].version
        ELSE queue[n].event = "delete"
    BY <2>1, <2>5, <2>6 DEF NewestRowIsCurrent
  <2>10. queue[n].event = "delete" => queue[n].version = 0
    BY <2>1, <2>5 DEF VersionsGrow
  <2> QED BY <2>8, <2>9, <2>10
<1> QED BY <1>1, QuietInvariant, PTL

\* For that worker, a claim recorded as synced in its current version is in the
\* index in that version, at every moment and not only when the queue is empty, as
\* long as no import has torn the claim.
THEOREM SyncedIsInTheIndex ==
  ASSUME NEW w, Drainers = {w}, DrainFaults = FALSE, MaxDrainCrashes = 0, DrainBatch \in Nat
  PROVE  DrainSpec => []SyncedIsIndexed
<1>1. QuietInv(w) => SyncedIsIndexed
  <2> SUFFICES ASSUME QuietInv(w), NEW c \in Claims, claims[c] # Nothing,
                      torn[c] = "no", claims[c].synced = claims[c].version
               PROVE  index[c] = claims[c].version
    BY DEF SyncedIsIndexed
  <2>1. /\ VersionsGrow /\ IndexTells(queue, drainer[w], index)
        /\ SyncedWasSent(queue, drainer[w], claims, torn)
    BY DEF QuietInv
  <2>2. PICK i \in AppliedIn(queue, drainer[w]) :
          /\ queue[i].claim = c /\ queue[i].event = "upsert"
          /\ queue[i].version = claims[c].version
    BY <2>1 DEF SyncedWasSent
  <2>3. AppliedIn(queue, drainer[w]) \subseteq OutboxIds
    BY DEF AppliedIn, OutboxIds
  <2>4. \A j \in OutboxIds : queue[j].claim = c => j <= i
    BY <2>1, <2>2, <2>3 DEF VersionsGrow
  <2> QED BY <2>1, <2>2, <2>3, <2>4 DEF IndexTells
<1> QED BY <1>1, QuietInvariant, PTL
-----------------------------------------------------------------------------
(* The refinement of FollowingIndex.                                       *)

\* The version of a claim is at most the number of rows it has been given.
VersionsCount ==
  \A c \in Claims : claims[c] # Nothing =>
    claims[c].version <= Cardinality(ClaimIn(queue, OutboxIds, c))

\* The greatest of a set of numbers.
LEMMA GreatestOf ==
  ASSUME NEW T \in SUBSET Nat, NEW n \in T, \A j \in T : j <= n
  PROVE  (CHOOSE i \in T : \A j \in T : j <= i) = n
<1>1. ASSUME NEW i \in T, \A j \in T : j <= i PROVE i = n
  <2>1. i <= n /\ n <= i
    BY <1>1
  <2> QED BY <2>1
<1> QED BY <1>1

\* A step of the undisturbed worker's system writes a row, projects a group, or
\* changes nothing of what is said and known.
QuietWrite(w) ==
  \E c \in Claims, claim \in ClaimRow, event \in Events, version \in Nat :
    /\ Writes(c, claim, event, version)
    /\ AppliedIn(queue', drainer'[w]) = AppliedIn(queue, drainer[w])
    /\ UNCHANGED index

QuietRest(w) ==
  /\ RowsKept /\ OutboxIds' = OutboxIds /\ ClaimsKept /\ UNCHANGED index
  /\ AppliedIn(queue', drainer'[w]) = AppliedIn(queue, drainer[w])

LEMMA QuietKinds ==
  ASSUME NEW w, Drainers = {w}, DrainFaults = FALSE, MaxDrainCrashes = 0, DrainBatch \in Nat,
         QuietInv(w), [DrainNext]_drainVars
  PROVE  QuietWrite(w) \/ Project(w, TRUE) \/ QuietRest(w)
<1>1. /\ DrainInv /\ VersionsGrow /\ RowsInOrder(queue, drainer[w])
      /\ IndexTells(queue, drainer[w], index) /\ SyncedWasSent(queue, drainer[w], claims, torn)
      /\ w \in Drainers
  BY DEF QuietInv
<1>2. /\ LedgerTypeOK /\ PassHolds(drainer[w]) /\ drainCrashes \in 0..MaxDrainCrashes
      /\ DOMAIN queue = OutboxIds
  BY <1>1, OutboxShape DEF DrainInv, DrainTypeOK, PassesHold, PassHolds
<1>3. CASE UNCHANGED <<claims, queue, drainer, index>>
  BY <1>3 DEF QuietRest, RowsKept, ClaimsKept, Alike, OutboxIds
<1>4. CASE LedgerNext /\ UNCHANGED <<index, drainer, drainCrashes>>
  <2>1. ASSUME NEW c \in Claims, NEW claim \in ClaimRow, NEW event \in Events,
               NEW version \in Nat, Writes(c, claim, event, version)
        PROVE  QuietWrite(w)
    <3>1. PICK p : p = drainer[w]
      OBVIOUS
    <3>2. AppliedIn(queue', p) = AppliedIn(queue, p)
      BY <1>1, <1>2, <1>4, <2>1, <3>1, QuietWritten
    <3> QED BY <1>4, <2>1, <3>1, <3>2 DEF QuietWrite
  <2>2. LedgerInv
    BY <1>1 DEF DrainInv, DrainTypeOK, LedgerInv
  <2> QED BY <1>3, <1>4, <2>1, <2>2, LedgerWrites
<1>5. ASSUME NEW due, Lease(w, due) PROVE QuietRest(w)
  <2>1. RowsKept /\ OutboxIds' = OutboxIds /\ UNCHANGED <<claims, index>>
    BY <1>1, <1>5, LeaseEffect
  <2>2. AppliedIn(queue', drainer'[w]) = AppliedIn(queue, drainer[w])
    BY <1>1, <1>5, QuietLease
  <2> QED BY <2>1, <2>2 DEF QuietRest, ClaimsKept, Alike
<1>6. ASSUME NEW i \in OutboxIds, ReadClaim(w, i) PROVE QuietRest(w)
  <2>1. PICK q \in DrainPass :
           /\ drainer' = [drainer EXCEPT ![w] = q] /\ q.open = drainer[w].open
           /\ UNCHANGED <<claims, queue, index>>
    BY <1>1, <1>6, ReadEffect
  <2>2. drainer'[w] = q
    BY <1>1, <2>1 DEF DrainInv, DrainTypeOK
  <2>3. AppliedIn(queue', drainer'[w]) = AppliedIn(queue, drainer[w])
    BY <2>1, <2>2 DEF AppliedIn
  <2> QED BY <2>1, <2>3 DEF QuietRest, RowsKept, ClaimsKept, Alike, OutboxIds
<1>7. ASSUME NEW i \in OutboxIds, MarkDone(w, i) PROVE QuietRest(w)
  <2>1. RowsKept /\ OutboxIds' = OutboxIds /\ ClaimsKept /\ UNCHANGED index
    BY <1>1, <1>7, DoneEffect
  <2>2. AppliedIn(queue', drainer'[w]) = AppliedIn(queue, drainer[w])
    BY <1>1, <1>7, QuietDone
  <2> QED BY <2>1, <2>2 DEF QuietRest
<1>8. ASSUME NEW i \in OutboxIds PROVE ~MarkFailed(w, i)
  BY <1>1 DEF MarkFailed, RowsInOrder
<1>9. ~DrainCrash(w)
  BY <1>2 DEF DrainCrash
<1>10. CASE DrainWork(w)
  <2>1. CASE \E ok \in (IF DrainFaults THEN BOOLEAN ELSE {TRUE}) : Project(w, ok)
    BY <2>1
  <2>2. CASE \E i \in DOMAIN queue : ReadClaim(w, i) \/ MarkDone(w, i) \/ MarkFailed(w, i)
    BY <1>2, <1>6, <1>7, <1>8, <2>2
  <2> QED BY <1>5, <1>10, <2>1, <2>2 DEF DrainWork
<1> QED BY <1>3, <1>4, <1>9, <1>10 DEF DrainNext, drainVars, ledger

\* The rows of a claim are finitely many, none of a claim that does not exist.
LEMMA RowsCounted ==
  ASSUME DrainInv, VersionsCount, NEW c \in Claims
  PROVE  /\ IsFiniteSet(ClaimIn(queue, OutboxIds, c))
         /\ Cardinality(ClaimIn(queue, OutboxIds, c)) \in Nat
         /\ claims[c] # Nothing =>
              claims[c].version <= Cardinality(ClaimIn(queue, OutboxIds, c))
<1>1. IsFiniteSet(ClaimIn(queue, OutboxIds, c))
  <2>1. Len(queue) \in Nat /\ ClaimIn(queue, OutboxIds, c) \subseteq OutboxIds
    BY OutboxShape DEF DrainInv, DrainTypeOK, ClaimIn
  <2>2. IsFiniteSet(1..Len(queue))
    BY <2>1, FS_Interval
  <2>3. ClaimIn(queue, OutboxIds, c) \in SUBSET (1..Len(queue))
    BY <2>1 DEF OutboxIds
  <2> QED BY <2>2, <2>3, FS_Subset
<1> QED BY <1>1, FS_CardinalityType DEF VersionsCount

\* A write goes at most one beyond the rows its claim has been given.
LEMMA WriteCounts ==
  ASSUME DrainInv, VersionsGrow, VersionsCount, NEW c \in Claims, NEW claim \in ClaimRow,
         NEW event \in Events, NEW version \in Nat, Writes(c, claim, event, version)
  PROVE  /\ version \in 1..(Cardinality(ClaimIn(queue, OutboxIds, c)) + 1)
         /\ claim.version <= Cardinality(ClaimIn(queue, OutboxIds, c)) + 1
<1>1. PICK count : count = Cardinality(ClaimIn(queue, OutboxIds, c))
  OBVIOUS
<1>2. count \in Nat /\ (claims[c] # Nothing => claims[c].version <= count)
  BY <1>1, RowsCounted
<1>3. claims[c] # Nothing => /\ claims[c].version \in Nat /\ claims[c].version >= 1
                             /\ ~Flagged(c)
  <2>1. claims[c] \in ClaimRow \cup {Nothing} /\ ReadingsHold
    BY DEF DrainInv, DrainTypeOK, LedgerTypeOK
  <2> QED BY <2>1 DEF ReadingsHold, VersionsGrow, ClaimRow
<1>4. claim.version \in Nat
  BY DEF ClaimRow
<1>5. version \in 1..(count + 1) /\ claim.version <= count + 1
  <2>1. CASE version = claim.version /\ Advances(c, claim)
    BY <1>2, <1>3, <1>4, <2>1 DEF Advances
  <2>2. CASE Overwrites(c, claim, version)
    BY <1>2, <1>3, <1>4, <2>2 DEF Overwrites
  <2> QED BY <2>1, <2>2 DEF Writes
<1> QED BY <1>1, <1>5

LEMMA VersionsCountStep ==
  ASSUME NEW w, Drainers = {w}, DrainFaults = FALSE, MaxDrainCrashes = 0, DrainBatch \in Nat,
         QuietInv(w), VersionsCount, [DrainNext]_drainVars
  PROVE  VersionsCount'
<1>1. DrainInv /\ VersionsGrow /\ LedgerTypeOK
  BY DEF QuietInv, DrainInv, DrainTypeOK
<1>2. ASSUME RowsKept, OutboxIds' = OutboxIds, ClaimsKept PROVE VersionsCount'
  <2>1. ASSUME NEW c \in Claims PROVE ClaimIn(queue', OutboxIds', c) = ClaimIn(queue, OutboxIds, c)
    BY <1>2 DEF ClaimIn, RowsKept
  <2> QED BY <1>2, <2>1 DEF VersionsCount, ClaimsKept
<1>3. ASSUME NEW c \in Claims, NEW claim \in ClaimRow, NEW event \in Events,
             NEW version \in Nat, Writes(c, claim, event, version)
      PROVE  VersionsCount'
  <2>1. PICK n : n = Len(queue) + 1
    OBVIOUS
  <2>2. /\ OutboxIds' = OutboxIds \cup {n} /\ n \notin OutboxIds
        /\ \A i \in OutboxIds : queue'[i] = queue[i]
        /\ queue'[n].claim = c /\ claims'[c] = claim
        /\ \A d \in Claims : d # c => claims'[d] = claims[d]
    <3>1. /\ OutboxIds' = OutboxIds \cup {n} /\ n \notin OutboxIds
          /\ \A i \in OutboxIds : queue'[i] = queue[i]
          /\ queue'[n] = Queued(c, event, version) /\ claims'[c] = claim
          /\ \A d \in Claims : d # c => claims'[d] = claims[d]
      <4>1. Saved(c, claim, event, version)
        BY <1>3 DEF Writes
      <4> QED BY <1>1, <4>1, <2>1, RowAppended
    <3>2. Queued(c, event, version).claim = c
      BY DEF Queued
    <3> QED BY <3>1, <3>2
  <2>3. ASSUME NEW d \in Claims, d # c
        PROVE  ClaimIn(queue', OutboxIds', d) = ClaimIn(queue, OutboxIds, d)
    BY <2>2, <2>3 DEF ClaimIn
  <2>4. PICK T : T = ClaimIn(queue, OutboxIds, c)
    OBVIOUS
  <2>5. ClaimIn(queue', OutboxIds', c) = T \cup {n} /\ n \notin T
    BY <2>2, <2>4 DEF ClaimIn
  <2>6. Cardinality(T \cup {n}) = Cardinality(T) + 1
    BY <1>1, <2>4, <2>5, RowsCounted, FS_AddElement
  <2>7. claim.version <= Cardinality(T) + 1
    BY <1>1, <1>3, <2>4, WriteCounts
  <2> QED BY <2>2, <2>3, <2>5, <2>6, <2>7 DEF VersionsCount
<1>4. ASSUME Project(w, TRUE) PROVE VersionsCount'
  BY <1>4 DEF Project, ledger, VersionsCount, OutboxIds
<1> QED BY <1>2, <1>3, <1>4, QuietKinds DEF QuietWrite, QuietRest

FollowInv(w) == QuietInv(w) /\ VersionsCount

LEMMA FollowInvariant ==
  ASSUME NEW w, Drainers = {w}, DrainFaults = FALSE, MaxDrainCrashes = 0, DrainBatch \in Nat
  PROVE  DrainSpec => []FollowInv(w)
<1>1. DrainInit => VersionsCount
  BY DEF DrainInit, LedgerInit, VersionsCount
<1>2. QuietInv(w) /\ VersionsCount /\ [DrainNext]_drainVars => VersionsCount'
  BY VersionsCountStep
<1>3. FollowInv(w) <=> QuietInv(w) /\ VersionsCount
  BY DEF FollowInv
<1> QED BY <1>1, <1>2, <1>3, QuietInvariant, PTL DEF DrainSpec
-----------------------------------------------------------------------------
(* The steps of the copy.                                                  *)

Word == [claim : Claims, version : Nat]
SaidRows == [i \in DOMAIN queue |-> Said(i)]
ReachedRows == [c \in Claims |-> Reached(c)]

\* What the ledger has said, as a sequence.
WordsOf(rows) == [i \in DOMAIN rows |-> [claim |-> rows[i].claim, version |-> rows[i].version]]

LEMMA WordsShape ==
  ASSUME NEW rows \in Seq(Row)
  PROVE  /\ WordsOf(rows) \in Seq(Word) /\ Len(WordsOf(rows)) = Len(rows)
         /\ \A i \in 1..Len(rows) :
              WordsOf(rows)[i] = [claim |-> rows[i].claim, version |-> rows[i].version]
<1>1. DOMAIN rows = 1..Len(rows) /\ Len(rows) \in Nat
  OBVIOUS
<1>2. WordsOf(rows) \in [1..Len(rows) -> Word]
  <2>1. \A i \in 1..Len(rows) : rows[i] \in Row
    OBVIOUS
  <2>2. \A row \in Row : [claim |-> row.claim, version |-> row.version] \in Word
    BY DEF Row, Word
  <2> QED BY <1>1, <2>1, <2>2 DEF WordsOf
<1> QED BY <1>1, <1>2 DEF WordsOf

LEMMA SaidIsWords == SaidRows = WordsOf(queue) /\ SaidRows' = WordsOf(queue')
BY DEF SaidRows, WordsOf, Said

\* The abstract count of what was said of a claim is the number of its rows.
LEMMA MentionsCounted ==
  ASSUME LedgerTypeOK, NEW c
  PROVE  Follower!Mentions(c) = Cardinality(ClaimIn(queue, OutboxIds, c))
<1> DEFINE T == {n \in DOMAIN SaidRows : SaidRows[n].claim = c}
<1>1. T = ClaimIn(queue, OutboxIds, c)
  BY OutboxShape DEF SaidRows, Said, ClaimIn
<1>2. Follower!Cardinality(T) = Cardinality(T)
  BY DEF Follower!Cardinality, Cardinality
<1> QED BY <1>1, <1>2 DEF Follower!Mentions, SaidRows

\* With one worker, a claim's rows that the index has been told of.
LEMMA ToldRows ==
  ASSUME NEW w, Drainers = {w}, DrainTypeOK
  PROVE  \A c : Told(c) = {i \in AppliedIn(queue, drainer[w]) : queue[i].claim = c}
BY OutboxShape DEF Told, AppliedIn, DrainTypeOK, OutboxIds

\* What is reached depends on these rows only.
LEMMA SameReached ==
  ASSUME \A c \in Claims : Told(c)' = Told(c)
  PROVE  ReachedRows' = ReachedRows
<1>1. ASSUME NEW c \in Claims PROVE Reached(c)' = Reached(c)
  <2>1. Told(c)' = Told(c)
    OBVIOUS
  <2> QED BY <2>1 DEF Reached
<1> QED BY <1>1 DEF ReachedRows

\* The point that is reached is one of these rows, the newest.
LEMMA ReachedShape ==
  ASSUME NEW w, Drainers = {w}, DrainTypeOK, NEW c
  PROVE  /\ Told(c) \in SUBSET OutboxIds
         /\ Told(c) = {} => Reached(c) = 0
         /\ Told(c) # {} => Reached(c) \in Told(c)
         /\ Reached(c) \in 0..Len(queue)
<1>1. Told(c) \in SUBSET OutboxIds /\ OutboxIds \subseteq Nat /\ Len(queue) \in Nat
  BY ToldRows, OutboxShape DEF AppliedIn, OutboxIds, DrainTypeOK
<1>2. PICK T : T = Told(c)
  OBVIOUS
<1>3. ASSUME T # {} PROVE \E n \in T : \A o \in T : o <= n
  <2>1. T \in SUBSET Nat /\ \A n \in T : n <= Len(queue)
    BY <1>1, <1>2 DEF OutboxIds
  <2> QED BY <1>1, <1>3, <2>1, Extremes
<1>4. T # {} => Reached(c) \in T
  BY <1>2, <1>3 DEF Reached
<1> QED BY <1>1, <1>2, <1>4 DEF Reached, OutboxIds

followVars == <<SaidRows, ReachedRows, index>>

\* A row that is written is the next word of the ledger.
LEMMA WriteMaps ==
  ASSUME NEW w, Drainers = {w}, FollowInv(w), FollowInv(w)', QuietWrite(w)
  PROVE  Follower!Next
<1>1. /\ DrainInv /\ VersionsGrow /\ VersionsCount /\ LedgerTypeOK /\ DrainTypeOK
      /\ DrainTypeOK' /\ queue \in Seq(Row) /\ queue' \in Seq(Row)
  BY DEF FollowInv, QuietInv, DrainInv, DrainTypeOK, LedgerTypeOK
<1>2. PICK c \in Claims, claim \in ClaimRow, event \in Events, version \in Nat :
        /\ Writes(c, claim, event, version)
        /\ AppliedIn(queue', drainer'[w]) = AppliedIn(queue, drainer[w]) /\ UNCHANGED index
  BY DEF QuietWrite
<1>3. PICK n : n = Len(queue) + 1
  OBVIOUS
<1>4. /\ Len(queue') = n /\ n \in Nat /\ Len(queue) = n - 1
      /\ \A i \in OutboxIds : queue'[i] = queue[i]
      /\ queue'[n] = Queued(c, event, version) /\ RowsKept
  BY <1>1, <1>2, <1>3, RowAppended, OutboxShape DEF Writes
<1>5. PICK word : word = [claim |-> c, version |-> IF event = "upsert" THEN version ELSE 0]
  OBVIOUS
<1>6. word \in Word
  BY <1>5 DEF Word
<1>7. SaidRows' = Append(SaidRows, word)
  <2>1. PICK old, new : old = WordsOf(queue) /\ new = WordsOf(queue')
    OBVIOUS
  <2>2. /\ old \in Seq(Word) /\ Len(old) = n - 1 /\ new \in Seq(Word) /\ Len(new) = n
        /\ \A i \in 1..(n - 1) : new[i] = old[i]
        /\ new[n] = word
    <3>1. /\ old \in Seq(Word) /\ Len(old) = n - 1 /\ new \in Seq(Word) /\ Len(new) = n
          /\ \A i \in 1..(n - 1) :
               old[i] = [claim |-> queue[i].claim, version |-> queue[i].version]
          /\ \A i \in 1..n : new[i] = [claim |-> queue'[i].claim, version |-> queue'[i].version]
      BY <1>1, <1>4, <2>1, WordsShape
    <3>2. 1..(n - 1) = OutboxIds /\ 1..(n - 1) \subseteq 1..n /\ n \in 1..n
      BY <1>4, <1>3, <1>1, OutboxShape DEF OutboxIds
    <3>3. queue'[n].claim = c /\ queue'[n].version = IF event = "upsert" THEN version ELSE 0
      BY <1>4 DEF Queued
    <3> QED BY <1>4, <1>5, <3>1, <3>2, <3>3
  <2>3. new = Append(old, word)
    BY <1>4, <1>6, <2>2
  <2> QED BY <2>1, <2>3, SaidIsWords
<1>8. ReachedRows' = ReachedRows
  <2>1. ASSUME NEW d \in Claims PROVE Told(d)' = Told(d)
    <3>1. Told(d) = {i \in AppliedIn(queue, drainer[w]) : queue[i].claim = d}
      BY <1>1, ToldRows
    <3>2. Told(d)' = {i \in AppliedIn(queue', drainer'[w]) : queue'[i].claim = d}
      BY <1>1, OutboxShape DEF Told, AppliedIn, DrainTypeOK, LedgerTypeOK
    <3>3. AppliedIn(queue, drainer[w]) \subseteq OutboxIds
      BY DEF AppliedIn, OutboxIds
    <3> QED BY <1>2, <1>4, <3>1, <3>2, <3>3
  <2> QED BY <2>1, SameReached
<1>9. version \in 1..(Follower!Mentions(c) + 1)
  BY <1>1, <1>2, WriteCounts, MentionsCounted
<1>10. CASE event = "upsert"
  <2>1. Follower!Serve(c, version)
    BY <1>2, <1>5, <1>7, <1>8, <1>10 DEF Follower!Serve, SaidRows, ReachedRows
  <2> QED BY <1>9, <2>1 DEF Follower!Next
<1>11. CASE event = "delete"
  <2>1. Follower!Remove(c)
    BY <1>2, <1>5, <1>7, <1>8, <1>11 DEF Follower!Remove, SaidRows, ReachedRows
  <2> QED BY <2>1 DEF Follower!Next
<1> QED BY <1>10, <1>11 DEF Events

\* A call moves the claims of its group on to their newest rows in it: these
\* come after all the index has been told of these claims before.
LEMMA ProjectMaps ==
  ASSUME NEW w, Drainers = {w}, FollowInv(w), FollowInv(w)', Project(w, TRUE)
  PROVE  Follower!Next
<1>1. /\ DrainInv /\ LedgerTypeOK /\ DrainTypeOK /\ DrainTypeOK' /\ w \in Drainers
      /\ RowsInOrder(queue, drainer[w]) /\ PassHolds(drainer[w])
  BY DEF FollowInv, QuietInv, DrainInv, DrainTypeOK, PassesHold, PassHolds
<1>2. PICK q \in DrainPass :
           /\ drainer' = [drainer EXCEPT ![w] = q]
           /\ drainer[w].phase # "idle" /\ drainer[w].verdict = "none"
           /\ q.window = drainer[w].window
           /\ q.open = GroupIn(queue, drainer[w].window, drainer[w].phase)
           /\ index' \in [Claims -> Nat]
           /\ \A c \in Claims :
                index'[c] = IF ClaimIn(queue, q.open, c) = {} THEN index[c]
                            ELSE queue[NewestIn(queue, q.open, c)].version
           /\ UNCHANGED <<claims, queue>>
  BY <1>1, ProjectEffect
<1>3. PICK p, group : p = drainer[w] /\ group = q.open
  OBVIOUS
<1>4. /\ drainer'[w] = q /\ p.window \in SUBSET OutboxIds /\ p.open = {} /\ PassHolds(p)
      /\ OutboxIds \subseteq Nat /\ DOMAIN queue = OutboxIds
  BY <1>1, <1>2, <1>3, OutboxShape DEF DrainTypeOK, PassHolds
<1>5. /\ group \in SUBSET OutboxIds /\ group \subseteq p.window
      /\ \A i \in group, j \in p.window : queue[j].claim = queue[i].claim => j \in group
      /\ \A i \in group : queue[i].status = "processing"
  <2>1. group = GroupIn(queue, p.window, p.phase)
    BY <1>2, <1>3
  <2>2. /\ group \subseteq p.window
        /\ \A i, j : i \in group /\ j \in p.window /\ queue[j].claim = queue[i].claim => j \in group
    BY <1>1, <1>4, <2>1, GroupShape
  <2>3. group \subseteq OutstandingIn(queue, p)
    BY <1>2, <1>3, <2>1 DEF OutstandingIn
  <2> QED BY <1>1, <1>3, <1>4, <2>2, <2>3 DEF RowsInOrder, OutboxIds
<1>6. \A c : Told(c) = {i \in OutboxIds : queue[i].claim = c /\ queue[i].status = "done"}
  BY <1>1, <1>3, <1>4, ToldRows DEF AppliedIn, OutboxIds
<1>7. \A c : Told(c)' = Told(c) \cup ClaimIn(queue, group, c)
  BY <1>2, <1>3, <1>4, <1>5, <1>6 DEF Told, ClaimIn
<1>8. SaidRows' = SaidRows
  BY <1>2 DEF SaidRows, Said
<1>9. ASSUME NEW c \in Claims, ClaimIn(queue, group, c) = {}
      PROVE  Reached(c)' = Reached(c) /\ index'[c] = index[c]
  <2>1. Told(c)' = Told(c)
    BY <1>7, <1>9
  <2>2. index'[c] = index[c]
    BY <1>2, <1>3, <1>9
  <2> QED BY <2>1, <2>2 DEF Reached
<1>10. ASSUME NEW c \in Claims, ClaimIn(queue, group, c) # {}
       PROVE  \E n \in OutboxIds :
                /\ Reached(c)' = n /\ Reached(c) < n
                /\ queue[n].claim = c /\ index'[c] = queue[n].version
  <2>1. PICK k \in group : queue[k].claim = c
    BY <1>10 DEF ClaimIn
  <2>2. PICK n : n = NewestIn(queue, group, c)
    OBVIOUS
  <2>3. n \in group /\ queue[n].claim = c /\ \A j \in group : queue[j].claim = c => j <= n
    BY <1>1, <1>5, <2>1, <2>2, NewestExists
  <2>4. index'[c] = queue[n].version
    BY <1>2, <1>3, <1>10, <2>2
  <2>5. ASSUME NEW i \in Told(c) PROVE i < n
    <3>1. i \in OutboxIds /\ queue[i].claim = c /\ queue[i].status = "done"
      BY <1>6
    <3>2. i \notin p.window
      BY <1>5, <2>3, <3>1
    <3> QED BY <1>1, <1>3, <1>5, <2>3, <3>1, <3>2 DEF RowsInOrder, OutboxIds
  <2>6. PICK T : T = Told(c)'
    OBVIOUS
  <2>7. T \in SUBSET Nat /\ n \in T /\ \A j \in T : j <= n
    <3>1. T = Told(c) \cup ClaimIn(queue, group, c)
      BY <1>7, <2>6
    <3>2. Told(c) \in SUBSET Nat /\ ClaimIn(queue, group, c) \in SUBSET Nat /\ n \in Nat
      BY <1>4, <1>5, <1>6, <2>3 DEF ClaimIn
    <3>3. n \in ClaimIn(queue, group, c) /\ \A j \in ClaimIn(queue, group, c) : j <= n
      BY <2>3 DEF ClaimIn
    <3>4. \A i \in Told(c) : i <= n
      BY <2>5, <3>2
    <3> QED BY <3>1, <3>2, <3>3, <3>4
  <2>8. (CHOOSE i \in T : \A j \in T : j <= i) = n
    BY <2>7, GreatestOf
  <2>9. Reached(c)' = n
    BY <2>6, <2>7, <2>8 DEF Reached
  <2>10. Reached(c) < n
    <3>1. n \in Nat /\ 0 < n
      BY <1>5, <2>3 DEF OutboxIds
    <3> QED BY <1>1, <2>5, <3>1, ReachedShape
  <2> QED BY <1>5, <2>3, <2>4, <2>9, <2>10
<1>11. PICK to : to = ReachedRows'
  OBVIOUS
<1>12. \A c \in Claims : to[c] = Reached(c)' /\ ReachedRows[c] = Reached(c)
  BY <1>11 DEF ReachedRows
<1>13. \A c \in Claims : Reached(c) \in 0..Len(queue)
  BY <1>1, ReachedShape
<1>14. \A i \in OutboxIds : SaidRows[i] = Said(i)
  BY <1>4 DEF SaidRows
<1>15. Len(SaidRows) = Len(queue)
  BY <1>1, SaidIsWords, WordsShape DEF LedgerTypeOK
<1>16. to \in [Claims -> 0..Len(SaidRows)]
  <2>1. \A c \in Claims : Reached(c)' \in 0..Len(queue)
    BY <1>9, <1>10, <1>13, OutboxShape, <1>1 DEF OutboxIds
  <2>2. to = [c \in Claims |-> Reached(c)']
    BY <1>11 DEF ReachedRows
  <2> QED BY <1>15, <2>1, <2>2
<1>17. \A c \in Claims : to[c] # ReachedRows[c] =>
         to[c] > ReachedRows[c] /\ SaidRows[to[c]].claim = c
  <2> TAKE c \in Claims
  <2>1. CASE ClaimIn(queue, group, c) = {}
    BY <1>9, <1>12, <2>1
  <2>2. CASE ClaimIn(queue, group, c) # {}
    <3>1. PICK n \in OutboxIds : /\ Reached(c)' = n /\ Reached(c) < n /\ queue[n].claim = c
      BY <1>10, <2>2
    <3>2. SaidRows[n] = [claim |-> queue[n].claim, version |-> queue[n].version]
      BY <1>14, <3>1 DEF Said
    <3> QED BY <1>4, <1>12, <1>13, <3>1, <3>2
  <2> QED BY <2>1, <2>2
<1>18. index' = [c \in Claims |-> IF to[c] = ReachedRows[c] THEN index[c]
                                   ELSE SaidRows[to[c]].version]
  <2>1. ASSUME NEW c \in Claims
        PROVE  index'[c] = IF to[c] = ReachedRows[c] THEN index[c] ELSE SaidRows[to[c]].version
    <3>1. CASE ClaimIn(queue, group, c) = {}
      BY <1>9, <1>12, <3>1
    <3>2. CASE ClaimIn(queue, group, c) # {}
      <4>1. PICK n \in OutboxIds : /\ Reached(c)' = n /\ Reached(c) < n
                                   /\ index'[c] = queue[n].version
        BY <1>10, <3>2
      <4>2. SaidRows[n] = [claim |-> queue[n].claim, version |-> queue[n].version]
        BY <1>14, <4>1 DEF Said
      <4>3. to[c] = n /\ to[c] # ReachedRows[c]
        BY <1>4, <1>12, <1>13, <4>1
      <4> QED BY <4>1, <4>2, <4>3
    <3> QED BY <3>1, <3>2
  <2> QED BY <1>2, <2>1
<1>19. Follower!Follow
  BY <1>8, <1>11, <1>16, <1>17, <1>18 DEF Follower!Follow, SaidRows, ReachedRows
<1> QED BY <1>19 DEF Follower!Next

\* All other steps are not seen.
LEMMA RestMaps ==
  ASSUME NEW w, Drainers = {w}, FollowInv(w), FollowInv(w)', QuietRest(w)
  PROVE  UNCHANGED followVars
<1>1. /\ DrainTypeOK /\ DrainTypeOK' /\ queue \in Seq(Row) /\ queue' \in Seq(Row)
      /\ LedgerTypeOK
  BY DEF FollowInv, QuietInv, DrainInv, DrainTypeOK, LedgerTypeOK
<1>2. DOMAIN queue = OutboxIds /\ DOMAIN queue' = OutboxIds' /\ OutboxIds' = OutboxIds
  BY <1>1 DEF OutboxIds, QuietRest
<1>3. SaidRows' = SaidRows
  <2>1. \A i \in OutboxIds : Said(i)' = Said(i)
    BY DEF QuietRest, RowsKept, Said
  <2> QED BY <1>2, <2>1 DEF SaidRows
<1>4. ASSUME NEW d \in Claims PROVE Told(d)' = Told(d)
  <2>1. Told(d) = {i \in AppliedIn(queue, drainer[w]) : queue[i].claim = d}
    BY <1>1, ToldRows
  <2>2. Told(d)' = {i \in AppliedIn(queue', drainer'[w]) : queue'[i].claim = d}
    BY <1>1, <1>2 DEF Told, AppliedIn, OutboxIds
  <2>3. AppliedIn(queue, drainer[w]) \subseteq OutboxIds
    BY DEF AppliedIn, OutboxIds
  <2> QED BY <2>1, <2>2, <2>3 DEF QuietRest, RowsKept
<1>5. ReachedRows' = ReachedRows
  BY <1>4, SameReached
<1> QED BY <1>3, <1>5 DEF followVars, QuietRest

\* One worker whose calls succeed makes the index a copy that follows the ledger
\* claim by claim, whatever windows it takes and however it groups them, and
\* never holds a version beyond the number of times the ledger has spoken of the
\* claim (FollowingIndex); torn claims included.
THEOREM IndexFollowsTheLedger ==
  ASSUME NEW w, Drainers = {w}, DrainFaults = FALSE, MaxDrainCrashes = 0, DrainBatch \in Nat
  PROVE  DrainSpec => IndexFollows
<1>1. DrainInit => Follower!Init
  <2> SUFFICES ASSUME DrainInit PROVE Follower!Init
    OBVIOUS
  <2>1. queue = <<>> /\ DOMAIN queue = {} /\ index = [c \in Claims |-> 0]
    BY DEF DrainInit, LedgerInit
  <2>2. SaidRows = <<>>
    BY <2>1 DEF SaidRows
  <2>3. \A c \in Claims : Reached(c) = 0
    BY <2>1 DEF Reached, Told
  <2> QED BY <2>1, <2>2, <2>3 DEF Follower!Init, SaidRows
<1>2. FollowInv(w) /\ FollowInv(w)' /\ [DrainNext]_drainVars => [Follower!Next]_followVars
  <2> SUFFICES ASSUME FollowInv(w), FollowInv(w)', [DrainNext]_drainVars
               PROVE  Follower!Next \/ UNCHANGED followVars
    OBVIOUS
  <2>1. QuietWrite(w) \/ Project(w, TRUE) \/ QuietRest(w)
    BY QuietKinds DEF FollowInv
  <2> QED BY <2>1, WriteMaps, ProjectMaps, RestMaps
<1> QED BY <1>1, <1>2, FollowInvariant, PTL
        DEF DrainSpec, IndexFollows, Follower!Spec, followVars, SaidRows, ReachedRows
=============================================================================
