------------------------- MODULE BackupRetention_proofs -------------------------
(***************************************************************************)
(* Proofs about BackupRetention for any number of runs, any ages and any   *)
(* number of copies to keep: no snapshot is lost, and enough copies stay.  *)
(***************************************************************************)
EXTENDS BackupRetention, TLAPS, FiniteSetTheorems

\* A run that has not written its checksum file yet, and one whose snapshot the
\* server must still have.
Early == {"idle", "leased", "created", "copied", "linked", "published"}
Unsafe == {"created", "copied", "linked", "published", "recorded", "gated"}

\* The snapshot of a run that has not gone further is on the server, or there is
\* none yet.
ServerKeeps ==
  \A r \in BackupRuns :
    /\ phase[r] \in Unsafe => r \in remote
    /\ phase[r] \in {"idle", "leased"} => r \notin taken

\* Once the gate is passed the server may delete: something else has the snapshot.
GateIsSafe ==
  \A r \in BackupRuns : phase[r] = "gated" =>
    \/ "final" \in copy[r].names /\ copy[r].content = 0
    \/ offsite[r] = 0
    \/ r \in excused

\* A receipt speaks of what is stored offsite.
ProofIsOffsite ==
  \A r \in BackupRuns : proof[r].content # -1 => offsite[r] = proof[r].content

\* Nothing is kept of a copy that was pruned, and only written checksums are.
PrunedIsGone ==
  /\ \A r \in BackupRuns : phase[r] \in Early => sidecar[r] = -1
  /\ \A r \in pruned : copy[r].names = {} /\ phase[r] \notin Early

KeptCopies == {r \in BackupRuns : "final" \in copy[r].names /\ sidecar[r] # -1}

\* The initial state has the right types.
LEMMA TypeHoldsInitially == BackupInit => BackupTypeOK
  BY BackupAssumption DEF BackupInit, BackupTypeOK, Damage, Phases, Active, NoCopy, NoProof

\* Every step of a run, of retention and of the outside world keeps the types.
LEMMA TypeIsKept == BackupTypeOK /\ [BackupNext]_backupVars => BackupTypeOK'
  <1> SUFFICES ASSUME BackupTypeOK, [BackupNext]_backupVars PROVE BackupTypeOK'
    OBVIOUS
  <1> USE BackupAssumption DEF BackupTypeOK, Phases, Active, Damage, files, outside, history
  <1>1. ASSUME NEW r \in BackupRuns, StartBackup(r) PROVE BackupTypeOK'
    BY <1>1 DEF StartBackup, Goes
  <1>2. ASSUME NEW r \in BackupRuns, CreateSnapshot(r) PROVE BackupTypeOK'
    BY <1>2 DEF CreateSnapshot, Goes
  <1>3. ASSUME NEW r \in BackupRuns, NEW content \in 0..1, CopySnapshot(r, content)
        PROVE BackupTypeOK'
    BY <1>3 DEF CopySnapshot, Goes
  <1>4. ASSUME NEW r \in BackupRuns, Publish(r) PROVE BackupTypeOK'
    BY <1>4 DEF Publish, Goes
  <1>5. ASSUME NEW r \in BackupRuns, DropPartial(r) PROVE BackupTypeOK'
    <2>1. CASE /\ Goes(r, "linked", "published") /\ UNCHANGED lease
              /\ copy' = [copy EXCEPT ![r].names = {"final"}]
      BY <1>5, <2>1 DEF DropPartial, Goes
    <2>2. CASE /\ Goes(r, "linked", "failed") /\ lease' = NoRun
              /\ copy' = [copy EXCEPT ![r].names = {"partial"}]
      BY <1>5, <2>2 DEF DropPartial, Goes
    <2> QED BY <1>5, <2>1, <2>2 DEF DropPartial
  <1>6. ASSUME NEW r \in BackupRuns, WriteChecksum(r) PROVE BackupTypeOK'
    BY <1>6 DEF WriteChecksum, Goes
  <1>7. ASSUME NEW r \in BackupRuns,
               NEW policy \in {"verified-local", "verified-offsite"}, PassGate(r, policy)
        PROVE BackupTypeOK'
    BY <1>7 DEF PassGate, Goes
  <1>8. ASSUME NEW r \in BackupRuns, DeleteSnapshot(r) PROVE BackupTypeOK'
    BY <1>8 DEF DeleteSnapshot, Goes
  <1>9. ASSUME NEW r \in BackupRuns, FailRun(r) PROVE BackupTypeOK'
    BY <1>9 DEF FailRun
  <1>10. ASSUME NEW r \in BackupRuns, SelectCandidates(r) PROVE BackupTypeOK'
    BY <1>10 DEF SelectCandidates, Goes
  <1>11. ASSUME NEW r \in BackupRuns, CompleteBackup(r) PROVE BackupTypeOK'
    BY <1>11 DEF CompleteBackup, Goes
  <1>12. ASSUME NEW r \in BackupRuns, NEW c \in BackupRuns, PruneCandidate(r, c)
         PROVE BackupTypeOK'
    <2>1. CASE Needed(c)
      BY <1>12, <2>1 DEF PruneCandidate
    <2>2. CASE ~Needed(c)
      <3>1. /\ Goes(r, "pruning", "unlinking")
            /\ copy' = [copy EXCEPT ![c].names = {}]
            /\ pruned' = pruned \cup {c}
            /\ UNCHANGED <<backupClock, lease, remote, sidecar, outside, taken, excused, candidates>>
        BY <1>12, <2>2 DEF PruneCandidate
      <3>2. copy' \in [BackupRuns ->
              [names : SUBSET {"partial", "final"}, content : Damage, written : Nat]]
        BY <3>1
      <3> QED BY <3>1, <3>2 DEF Goes
    <2> QED BY <2>1, <2>2
  <1>13. ASSUME NEW r \in BackupRuns, NEW c \in BackupRuns, UnlinkChecksum(r, c)
         PROVE BackupTypeOK'
    BY <1>13 DEF UnlinkChecksum, Goes
  <1>14. ASSUME NEW r \in BackupRuns, Upload(r) PROVE BackupTypeOK'
    BY <1>14 DEF Upload
  <1>15. ASSUME NEW r \in BackupRuns, WriteReceipt(r) PROVE BackupTypeOK'
    BY <1>15 DEF WriteReceipt
  <1>16. ASSUME NEW r \in BackupRuns, Rot(r) PROVE BackupTypeOK'
    <2>1. copy' \in [BackupRuns ->
            [names : SUBSET {"partial", "final"}, content : Damage, written : Nat]]
      BY <1>16 DEF Rot
    <2>2. excused' \subseteq BackupRuns
      BY <1>16 DEF Rot
    <2> QED BY <1>16, <2>1, <2>2 DEF Rot
  <1>17. CASE BackupTick
    BY <1>17 DEF BackupTick
  <1>18. CASE UNCHANGED backupVars
    BY <1>18 DEF backupVars
  <1> QED
    BY <1>1, <1>2, <1>3, <1>4, <1>5, <1>6, <1>7, <1>8, <1>9, <1>10, <1>11, <1>12, <1>13,
       <1>14, <1>15, <1>16, <1>17, <1>18 DEF BackupNext

\* Every variable has its type, and a run is under way exactly when it holds the
\* storage lease: at most one run mutates at any time.
THEOREM BackupsAreTyped == BackupSpec => []BackupTypeOK
  <1> QED BY TypeHoldsInitially, TypeIsKept, PTL DEF BackupSpec

\* All that is known of where the snapshots are.
CustodyInv == ServerKeeps /\ GateIsSafe /\ ProofIsOffsite /\ PrunedIsGone /\ NoSnapshotLost

\* Every step keeps each snapshot in somebody's custody.
LEMMA CustodyIsKept ==
  BackupTypeOK /\ CustodyInv /\ [BackupNext]_backupVars => CustodyInv'
  <1> SUFFICES ASSUME BackupTypeOK, CustodyInv, [BackupNext]_backupVars PROVE CustodyInv'
    OBVIOUS
  <1> USE DEF CustodyInv, ServerKeeps, GateIsSafe, ProofIsOffsite, PrunedIsGone, NoSnapshotLost,
              Early, Unsafe, BackupTypeOK, Active, Phases, Damage, files, outside, history
  <1>1. ASSUME NEW r \in BackupRuns, StartBackup(r) PROVE CustodyInv'
    BY <1>1 DEF StartBackup, Goes
  <1>2. ASSUME NEW r \in BackupRuns, CreateSnapshot(r) PROVE CustodyInv'
    BY <1>2 DEF CreateSnapshot, Goes
  <1>3. ASSUME NEW r \in BackupRuns, NEW content \in 0..1, CopySnapshot(r, content)
        PROVE CustodyInv'
    BY <1>3 DEF CopySnapshot, Goes
  <1>4. ASSUME NEW r \in BackupRuns, Publish(r) PROVE CustodyInv'
    BY <1>4 DEF Publish, Goes
  <1>5. ASSUME NEW r \in BackupRuns, DropPartial(r) PROVE CustodyInv'
    <2>1. CASE /\ Goes(r, "linked", "published") /\ UNCHANGED lease
              /\ copy' = [copy EXCEPT ![r].names = {"final"}]
      BY <1>5, <2>1 DEF DropPartial, Goes
    <2>2. CASE /\ Goes(r, "linked", "failed") /\ lease' = NoRun
              /\ copy' = [copy EXCEPT ![r].names = {"partial"}]
      <3>1. r \in remote
        BY <2>2 DEF Goes
      <3>2. \A x \in BackupRuns \ {r} : copy'[x] = copy[x] /\ phase'[x] = phase[x]
        BY <2>2 DEF Goes
      <3>3. phase[r] = "linked" /\ phase'[r] = "failed" /\ copy'[r].content = copy[r].content
        BY <2>2 DEF Goes
      <3> QED BY <1>5, <3>1, <3>2, <3>3 DEF DropPartial
    <2> QED BY <1>5, <2>1, <2>2 DEF DropPartial
  <1>6. ASSUME NEW r \in BackupRuns, WriteChecksum(r) PROVE CustodyInv'
    BY <1>6 DEF WriteChecksum, Goes
  <1>7. ASSUME NEW r \in BackupRuns,
               NEW policy \in {"verified-local", "verified-offsite"}, PassGate(r, policy)
        PROVE CustodyInv'
    BY <1>7 DEF PassGate, Goes, GateOpen, VerifiedLocally
  <1>8. ASSUME NEW r \in BackupRuns, DeleteSnapshot(r) PROVE CustodyInv'
    BY <1>8 DEF DeleteSnapshot, Goes
  <1>9. ASSUME NEW r \in BackupRuns, FailRun(r) PROVE CustodyInv'
    BY <1>9 DEF FailRun
  <1>10. ASSUME NEW r \in BackupRuns, SelectCandidates(r) PROVE CustodyInv'
    BY <1>10 DEF SelectCandidates, Goes
  <1>11. ASSUME NEW r \in BackupRuns, CompleteBackup(r) PROVE CustodyInv'
    BY <1>11 DEF CompleteBackup, Goes
  <1>12. ASSUME NEW r \in BackupRuns, NEW c \in BackupRuns, PruneCandidate(r, c)
        PROVE CustodyInv'
    <2>1. CASE Needed(c)
      BY <1>12, <2>1 DEF PruneCandidate
    <2>2. CASE ~Needed(c)
      <3>1. /\ phase[r] = "pruning" /\ phase' = [phase EXCEPT ![r] = "unlinking"]
            /\ copy' = [copy EXCEPT ![c].names = {}]
            /\ pruned' = pruned \cup {c}
            /\ UNCHANGED <<remote, sidecar, outside, taken, excused>>
        BY <1>12, <2>2 DEF PruneCandidate, Goes
      <3>2. /\ sidecar[c] = copy[c].content /\ proof[c].content = copy[c].content
            /\ copy[c].content # -1
        BY <1>12 DEF PruneCandidate, ReceiptHolds, VerifiedLocally
      <3>3. offsite[c] = copy[c].content /\ phase[c] \notin Early
        BY <3>2
      <3>4. \A x \in BackupRuns : phase[x] # "gated"
        BY <3>1
      <3>5. /\ copy'[c].names = {} /\ copy'[c].content = copy[c].content
            /\ \A x \in BackupRuns \ {c} : copy'[x] = copy[x]
        BY <3>1
      <3>6. \A x \in BackupRuns \ {r} : phase'[x] = phase[x]
        BY <3>1
      <3>7. ServerKeeps' /\ GateIsSafe' /\ ProofIsOffsite'
        BY <3>1, <3>4, <3>6
      <3>8. PrunedIsGone'
        BY <3>1, <3>3, <3>5, <3>6
      <3>9. NoSnapshotLost'
        BY <3>1, <3>3, <3>5
      <3> QED BY <3>7, <3>8, <3>9
    <2> QED BY <2>1, <2>2
  <1>13. ASSUME NEW r \in BackupRuns, NEW c \in BackupRuns, UnlinkChecksum(r, c)
        PROVE CustodyInv'
    BY <1>13 DEF UnlinkChecksum, Goes
  <1>14. ASSUME NEW r \in BackupRuns, Upload(r) PROVE CustodyInv'
    BY <1>14 DEF Upload
  <1>15. ASSUME NEW r \in BackupRuns, WriteReceipt(r) PROVE CustodyInv'
    BY <1>15 DEF WriteReceipt, VerifiedLocally
  <1>16. ASSUME NEW r \in BackupRuns, Rot(r) PROVE CustodyInv'
    BY <1>16 DEF Rot
  <1>17. CASE BackupTick
    BY <1>17 DEF BackupTick
  <1>18. CASE UNCHANGED backupVars
    BY <1>18 DEF backupVars
  <1> QED
    BY <1>1, <1>2, <1>3, <1>4, <1>5, <1>6, <1>7, <1>8, <1>9, <1>10, <1>11, <1>12, <1>13,
       <1>14, <1>15, <1>16, <1>17, <1>18 DEF BackupNext
-----------------------------------------------------------------------------
(* How many copies stay.                                                   *)

\* A set of copies that only grows keeps its number.
LEMMA MoreCopies ==
  ASSUME NEW A \in SUBSET BackupRuns, NEW B \in SUBSET BackupRuns, A \subseteq B,
         Cardinality(A) >= MinLocalCopies
  PROVE  Cardinality(B) >= MinLocalCopies
  <1>1. IsFiniteSet(B)
    BY BackupAssumption, FS_Subset
  <1>2. Cardinality(A) <= Cardinality(B) /\ Cardinality(A) \in Nat /\ Cardinality(B) \in Nat
    BY <1>1, FS_Subset, FS_CardinalityType
  <1> QED BY <1>2, BackupAssumption

\* One copy less than a set of more than enough leaves enough.
LEMMA OneCopyLess ==
  ASSUME NEW A \in SUBSET BackupRuns, NEW c \in A, ~(Cardinality(A) <= MinLocalCopies)
  PROVE  Cardinality(A \ {c}) >= MinLocalCopies
  <1>1. IsFiniteSet(A)
    BY BackupAssumption, FS_Subset
  <1>2. Cardinality(A \ {c}) = Cardinality(A) - 1 /\ Cardinality(A) \in Nat
    BY <1>1, FS_RemoveElement, FS_CardinalityType
  <1> QED BY <1>2, BackupAssumption

\* Every step leaves enough copies; only a pruning takes one away.
LEMMA EnoughIsKept ==
  BackupTypeOK /\ CustodyInv /\ EnoughCopies /\ [BackupNext]_backupVars => EnoughCopies'
  <1> SUFFICES ASSUME BackupTypeOK, CustodyInv, EnoughCopies, [BackupNext]_backupVars
               PROVE  EnoughCopies'
    OBVIOUS
  <1>1. ASSUME KeptCopies \subseteq KeptCopies', pruned' = pruned PROVE EnoughCopies'
    BY <1>1, MoreCopies DEF EnoughCopies, KeptCopies
  <1> USE DEF CustodyInv, PrunedIsGone, Early, BackupTypeOK, Damage, files, outside, history
  <1>2. ASSUME NEW r \in BackupRuns, StartBackup(r) PROVE EnoughCopies'
    <2>1. KeptCopies \subseteq KeptCopies' /\ pruned' = pruned
      BY <1>2 DEF KeptCopies, StartBackup, Goes
    <2> QED BY <2>1, <1>1
  <1>3. ASSUME NEW r \in BackupRuns, CreateSnapshot(r) PROVE EnoughCopies'
    <2>1. KeptCopies \subseteq KeptCopies' /\ pruned' = pruned
      BY <1>3 DEF KeptCopies, CreateSnapshot, Goes
    <2> QED BY <2>1, <1>1
  <1>4. ASSUME NEW r \in BackupRuns, NEW content \in 0..1, CopySnapshot(r, content)
        PROVE  EnoughCopies'
    <2>1. KeptCopies \subseteq KeptCopies' /\ pruned' = pruned
      BY <1>4 DEF KeptCopies, CopySnapshot, Goes
    <2> QED BY <2>1, <1>1
  <1>5. ASSUME NEW r \in BackupRuns, Publish(r) PROVE EnoughCopies'
    <2>1. KeptCopies \subseteq KeptCopies' /\ pruned' = pruned
      BY <1>5 DEF KeptCopies, Publish, Goes
    <2> QED BY <2>1, <1>1
  <1>6. ASSUME NEW r \in BackupRuns, DropPartial(r) PROVE EnoughCopies'
    <2>1. KeptCopies \subseteq KeptCopies' /\ pruned' = pruned
      BY <1>6 DEF KeptCopies, DropPartial, Goes
    <2> QED BY <2>1, <1>1
  <1>7. ASSUME NEW r \in BackupRuns, WriteChecksum(r) PROVE EnoughCopies'
    <2>1. KeptCopies \subseteq KeptCopies' /\ pruned' = pruned
      BY <1>7 DEF KeptCopies, WriteChecksum, Goes
    <2> QED BY <2>1, <1>1
  <1>8. ASSUME NEW r \in BackupRuns,
               NEW policy \in {"verified-local", "verified-offsite"}, PassGate(r, policy)
        PROVE  EnoughCopies'
    <2>1. KeptCopies \subseteq KeptCopies' /\ pruned' = pruned
      BY <1>8 DEF KeptCopies, PassGate, Goes
    <2> QED BY <2>1, <1>1
  <1>9. ASSUME NEW r \in BackupRuns, DeleteSnapshot(r) PROVE EnoughCopies'
    <2>1. KeptCopies \subseteq KeptCopies' /\ pruned' = pruned
      BY <1>9 DEF KeptCopies, DeleteSnapshot, Goes
    <2> QED BY <2>1, <1>1
  <1>10. ASSUME NEW r \in BackupRuns, FailRun(r) PROVE EnoughCopies'
    <2>1. KeptCopies \subseteq KeptCopies' /\ pruned' = pruned
      BY <1>10 DEF KeptCopies, FailRun
    <2> QED BY <2>1, <1>1
  <1>11. ASSUME NEW r \in BackupRuns, SelectCandidates(r) PROVE EnoughCopies'
    <2>1. KeptCopies \subseteq KeptCopies' /\ pruned' = pruned
      BY <1>11 DEF KeptCopies, SelectCandidates, Goes
    <2> QED BY <2>1, <1>1
  <1>12. ASSUME NEW r \in BackupRuns, CompleteBackup(r) PROVE EnoughCopies'
    <2>1. KeptCopies \subseteq KeptCopies' /\ pruned' = pruned
      BY <1>12 DEF KeptCopies, CompleteBackup, Goes
    <2> QED BY <2>1, <1>1
  <1>13. ASSUME NEW r \in BackupRuns, NEW c \in BackupRuns, UnlinkChecksum(r, c)
        PROVE  EnoughCopies'
    <2>1. KeptCopies \subseteq KeptCopies' /\ pruned' = pruned
      BY <1>13 DEF KeptCopies, UnlinkChecksum, Goes
    <2> QED BY <2>1, <1>1
  <1>14. ASSUME NEW r \in BackupRuns, Upload(r) PROVE EnoughCopies'
    <2>1. KeptCopies \subseteq KeptCopies' /\ pruned' = pruned
      BY <1>14 DEF KeptCopies, Upload
    <2> QED BY <2>1, <1>1
  <1>15. ASSUME NEW r \in BackupRuns, WriteReceipt(r) PROVE EnoughCopies'
    <2>1. KeptCopies \subseteq KeptCopies' /\ pruned' = pruned
      BY <1>15 DEF KeptCopies, WriteReceipt
    <2> QED BY <2>1, <1>1
  <1>16. ASSUME NEW r \in BackupRuns, Rot(r) PROVE EnoughCopies'
    <2>1. KeptCopies \subseteq KeptCopies' /\ pruned' = pruned
      BY <1>16 DEF KeptCopies, Rot
    <2> QED BY <2>1, <1>1
  <1>17. ASSUME NEW r \in BackupRuns, NEW c \in BackupRuns, PruneCandidate(r, c)
         PROVE  EnoughCopies'
    <2> DEFINE verified == {o \in BackupRuns : VerifiedLocally(o)}
    <2>1. CASE Needed(c)
      <3>1. KeptCopies \subseteq KeptCopies' /\ pruned' = pruned
        BY <1>17, <2>1 DEF PruneCandidate, KeptCopies
      <3> QED BY <3>1, <1>1
    <2>2. CASE ~Needed(c)
      <3>1. c \in verified
        BY <1>17 DEF PruneCandidate, ReceiptHolds
      <3>2. Cardinality(verified \ {c}) >= MinLocalCopies
        BY <3>1, <2>2, OneCopyLess DEF Needed
      <3>3. copy' = [copy EXCEPT ![c].names = {}] /\ sidecar' = sidecar
        BY <1>17, <2>2 DEF PruneCandidate
      <3>4. verified \ {c} \subseteq KeptCopies'
        BY <3>3 DEF KeptCopies, VerifiedLocally
      <3>5. Cardinality(KeptCopies') >= MinLocalCopies
        BY <3>2, <3>4, MoreCopies DEF KeptCopies
      <3> QED BY <3>5 DEF EnoughCopies, KeptCopies
    <2> QED BY <2>1, <2>2
  <1>18. CASE BackupTick \/ UNCHANGED backupVars
    <2>1. KeptCopies \subseteq KeptCopies' /\ pruned' = pruned
      BY <1>18 DEF KeptCopies, BackupTick, backupVars
    <2> QED BY <2>1, <1>1
  <1> QED
    BY <1>2, <1>3, <1>4, <1>5, <1>6, <1>7, <1>8, <1>9, <1>10, <1>11, <1>12, <1>13,
       <1>14, <1>15, <1>16, <1>17, <1>18 DEF BackupNext
-----------------------------------------------------------------------------
\* The inductive invariant holds in every behaviour.
LEMMA BackupInvHolds == BackupSpec => [](BackupTypeOK /\ CustodyInv /\ EnoughCopies)
  <1>1. BackupInit => CustodyInv /\ EnoughCopies
    BY DEF BackupInit, CustodyInv, ServerKeeps, GateIsSafe, ProofIsOffsite, PrunedIsGone,
           NoSnapshotLost, EnoughCopies, NoProof, Early, Unsafe
  <1> QED BY <1>1, TypeHoldsInitially, TypeIsKept, CustodyIsKept, EnoughIsKept, PTL
          DEF BackupSpec

\* What the server was once told to keep is never lost by a run, however it fails,
\* nor by retention (verify_bound_backup, verify_offsite_receipt, prune_backups).
THEOREM SnapshotsAreKept == BackupSpec => []NoSnapshotLost
  <1> QED BY BackupInvHolds, PTL DEF CustodyInv

\* Retention never leaves fewer copies with a checksum than it was told to keep.
THEOREM CopiesAreKept == BackupSpec => []EnoughCopies
  <1> QED BY BackupInvHolds, PTL
=============================================================================
