--------------------------- MODULE BackupRetention ---------------------------
(***************************************************************************)
(* The life of the Qdrant backups: a snapshot on the server, its copy in   *)
(* the target directory, the offsite copy, and what may be deleted when.   *)
(*                                                                         *)
(* Code: ops/backup_qdrant.sh (one run), ops/backup_safety.py (checksums,  *)
(* receipts, the gate of the remote deletion, retention) and               *)
(* ops/production-storage-lease.sh. The Postgres scripts are the same run  *)
(* without the snapshot on the server. A run may fail or be killed at      *)
(* every command, files rot on the disk, and an external workflow uploads  *)
(* copies and files receipts while runs are under way, without a lock.     *)
(*                                                                         *)
(* The lock of the target directory is left out: who takes it holds the    *)
(* lease of the whole storage, so it is always free. Left out too: free    *)
(* space, which only decides whether a run fails.                          *)
(***************************************************************************)
EXTENDS Integers, FiniteSets

CONSTANTS
  BackupRuns,      \* runs of the script; each names its copy by a fresh token
  NoRun,
  RetentionAge,    \* RETENTION_DAYS
  ReceiptAge,      \* MAX_RECEIPT_AGE_SECONDS
  MinLocalCopies,  \* BACKUP_MIN_LOCAL_COPIES
  MaxBackupClock,  \* bound on the time
  MaxDamage        \* bound on how often one file rots

ASSUME BackupAssumption ==
  /\ IsFiniteSet(BackupRuns) /\ NoRun \notin BackupRuns
  /\ RetentionAge \in Nat /\ ReceiptAge \in Nat /\ MinLocalCopies \in Nat \ {0}
  /\ MaxBackupClock \in Nat /\ MaxDamage \in Nat

VARIABLES
  backupClock,
  lease,       \* the run that holds the storage mutation lease
  phase,       \* how far each run has come
  remote,      \* runs whose snapshot is on the Qdrant server
  copy,        \* the local file of each run: [names, content, written]
  sidecar,     \* the content whose digest the .sha256 file holds, -1 without one
  offsite,     \* the content of the offsite object, -1 without one
  proof,       \* the offsite receipt: [content, at]
  candidates,  \* copies the retention of the running run has still to deal with
  taken,       \* history: snapshots the server has taken
  pruned,      \* history: copies retention has deleted
  excused      \* history: copies that rotted when the server had none any more

files == <<copy, sidecar>>
outside == <<offsite, proof>>
history == <<taken, pruned, excused>>
backupVars == <<backupClock, lease, phase, remote, copy, sidecar, offsite, proof,
                candidates, taken, pruned, excused>>
-----------------------------------------------------------------------------
Active == {"leased", "created", "copied", "linked", "published", "recorded", "gated",
           "cleaned", "pruning", "unlinking"}
Phases == Active \cup {"idle", "done", "failed"}

\* A content is the number of times it was damaged: 0 is what the server sent.
Damage == Nat

NoCopy == [names |-> {}, content |-> 0, written |-> 0]
NoProof == [content |-> -1, at |-> 0]

BackupInit ==
  /\ backupClock = 0 /\ lease = NoRun
  /\ phase = [r \in BackupRuns |-> "idle"]
  /\ remote = {} /\ candidates = {} /\ taken = {} /\ pruned = {} /\ excused = {}
  /\ copy = [r \in BackupRuns |-> NoCopy]
  /\ sidecar = [r \in BackupRuns |-> -1] /\ offsite = [r \in BackupRuns |-> -1]
  /\ proof = [r \in BackupRuns |-> NoProof]

\* verify_local_backup, of a file with a single link.
VerifiedLocally(r) == copy[r].names = {"final"} /\ sidecar[r] = copy[r].content

\* verify_offsite_receipt
ReceiptHolds(r) ==
  /\ VerifiedLocally(r)
  /\ proof[r].content = copy[r].content
  /\ backupClock - proof[r].at <= ReceiptAge

Goes(r, from, to) == phase[r] = from /\ phase' = [phase EXCEPT ![r] = to]
-----------------------------------------------------------------------------
(* A run.                                                                  *)

\* Nobody waits for the lease: a run that finds it taken fails.
StartBackup(r) ==
  /\ IF lease = NoRun THEN Goes(r, "idle", "leased") /\ lease' = r
     ELSE Goes(r, "idle", "failed") /\ UNCHANGED lease
  /\ UNCHANGED <<backupClock, remote, files, outside, candidates, history>>

\* The server takes the snapshot; its answer may not arrive or not be usable.
CreateSnapshot(r) ==
  /\ phase[r] = "leased" /\ remote' = remote \cup {r} /\ taken' = taken \cup {r}
  /\ \/ Goes(r, "leased", "created") /\ UNCHANGED lease
     \/ Goes(r, "leased", "failed") /\ lease' = NoRun
  /\ UNCHANGED <<backupClock, files, outside, candidates, pruned, excused>>

\* docker cp into the partial file, which may end with a damaged copy.
CopySnapshot(r, content) ==
  /\ Goes(r, "created", "copied")
  /\ copy' = [copy EXCEPT ![r] = [names |-> {"partial"}, content |-> content,
                                  written |-> backupClock]]
  /\ UNCHANGED <<backupClock, lease, remote, sidecar, outside, candidates, history>>

\* Size and digest are those the server told; publish_no_clobber adds the name.
Publish(r) ==
  /\ Goes(r, "copied", "linked") /\ copy[r].content = 0
  /\ copy' = [copy EXCEPT ![r].names = {"partial", "final"}]
  /\ UNCHANGED <<backupClock, lease, remote, sidecar, outside, candidates, history>>

\* The partial name goes; if that fails the final name is taken back.
DropPartial(r) ==
  /\ \/ /\ Goes(r, "linked", "published") /\ UNCHANGED lease
        /\ copy' = [copy EXCEPT ![r].names = {"final"}]
     \/ /\ Goes(r, "linked", "failed") /\ lease' = NoRun
        /\ copy' = [copy EXCEPT ![r].names = {"partial"}]
  /\ UNCHANGED <<backupClock, remote, sidecar, outside, candidates, history>>

\* The digest is that of the file as it is now, not the one the server told.
WriteChecksum(r) ==
  /\ Goes(r, "published", "recorded")
  /\ sidecar' = [sidecar EXCEPT ![r] = copy[r].content]
  /\ UNCHANGED <<backupClock, lease, remote, copy, outside, candidates, history>>

\* Mutant: the gate trusts the checksum file.
GateOpenLocally(r, policy) == VerifiedLocally(r)

\* remote-delete-eligible: the open file still is what the server sent.
GateOpen(r, policy) ==
  /\ VerifiedLocally(r) /\ copy[r].content = 0
  /\ policy = "verified-offsite" => ReceiptHolds(r)

PassGate(r, policy) ==
  /\ Goes(r, "recorded", "gated") /\ GateOpen(r, policy)
  /\ UNCHANGED <<backupClock, lease, remote, files, outside, candidates, history>>

\* The server deletes the snapshot; without its confirmation the run fails.
DeleteSnapshot(r) ==
  /\ phase[r] = "gated" /\ remote' = remote \ {r}
  /\ \/ Goes(r, "gated", "cleaned") /\ UNCHANGED lease
     \/ Goes(r, "gated", "failed") /\ lease' = NoRun
  /\ UNCHANGED <<backupClock, files, outside, candidates, history>>

\* Any command fails, or a signal ends the run. The trap removes the partial
\* name; SIGKILL leaves it.
FailRun(r) ==
  /\ phase[r] \in Active
  /\ phase' = [phase EXCEPT ![r] = "failed"] /\ lease' = NoRun
  /\ copy' \in {copy, [copy EXCEPT ![r].names = @ \ {"partial"}]}
  /\ UNCHANGED <<backupClock, remote, sidecar, outside, candidates, history>>
-----------------------------------------------------------------------------
(* Retention, at the end of a run.                                         *)

SelectCandidates(r) ==
  /\ Goes(r, "cleaned", "pruning")
  /\ candidates' = {c \in BackupRuns :
       ReceiptHolds(c) /\ copy[c].written < backupClock - RetentionAge}
  /\ UNCHANGED <<backupClock, lease, remote, files, outside, history>>

\* Mutant: the copy that is about to go is counted among those that stay.
NeededOffByOne(c) == Cardinality({o \in BackupRuns : VerifiedLocally(o)}) < MinLocalCopies

\* Without this one fewer copies than asked for would verify.
Needed(c) == Cardinality({o \in BackupRuns : VerifiedLocally(o)}) <= MinLocalCopies

\* The oldest candidate, with a receipt that still holds (otherwise the run
\* fails), is deleted unless it is needed.
PruneCandidate(r, c) ==
  /\ phase[r] = "pruning" /\ c \in candidates
  /\ \A o \in candidates : copy[c].written <= copy[o].written
  /\ ReceiptHolds(c)
  /\ IF Needed(c) THEN candidates' = candidates \ {c} /\ UNCHANGED <<phase, copy, pruned>>
     ELSE /\ Goes(r, "pruning", "unlinking")
          /\ copy' = [copy EXCEPT ![c].names = {}]
          /\ pruned' = pruned \cup {c}
          /\ UNCHANGED candidates
  /\ UNCHANGED <<backupClock, lease, remote, sidecar, outside, taken, excused>>

UnlinkChecksum(r, c) ==
  /\ Goes(r, "unlinking", "pruning") /\ c \in candidates \cap pruned
  /\ candidates' = candidates \ {c}
  /\ sidecar' = [sidecar EXCEPT ![c] = -1]
  /\ UNCHANGED <<backupClock, lease, remote, copy, outside, history>>

CompleteBackup(r) ==
  /\ Goes(r, "pruning", "done") /\ candidates = {} /\ lease' = NoRun
  /\ UNCHANGED <<backupClock, remote, files, outside, candidates, history>>
-----------------------------------------------------------------------------
(* What goes on beside the runs.                                           *)

\* The external workflow stores the copy as it finds it.
Upload(r) ==
  /\ "final" \in copy[r].names /\ offsite[r] = -1
  /\ offsite' = [offsite EXCEPT ![r] = copy[r].content]
  /\ UNCHANGED <<backupClock, lease, phase, remote, files, proof, candidates, history>>

\* write_offsite_receipt: what was downloaded and decrypted is the local copy.
WriteReceipt(r) ==
  /\ VerifiedLocally(r) /\ offsite[r] = copy[r].content
  /\ proof' = [proof EXCEPT ![r] = [content |-> copy[r].content, at |-> backupClock]]
  /\ UNCHANGED <<backupClock, lease, phase, remote, files, offsite, candidates, history>>

\* A file rots. Nobody can notice when the server has no snapshot any more, or
\* is about to be told to delete it.
Rot(r) ==
  /\ "final" \in copy[r].names /\ copy[r].content < MaxDamage
  /\ copy' = [copy EXCEPT ![r].content = @ + 1]
  /\ excused' = IF r \notin remote \/ phase[r] = "gated" THEN excused \cup {r} ELSE excused
  /\ UNCHANGED <<backupClock, lease, phase, remote, sidecar, outside, candidates, taken, pruned>>

BackupTick ==
  /\ backupClock < MaxBackupClock /\ backupClock' = backupClock + 1
  /\ UNCHANGED <<lease, phase, remote, files, outside, candidates, history>>

BackupNext ==
  \/ \E r \in BackupRuns :
       \/ StartBackup(r) \/ CreateSnapshot(r)
       \/ \E content \in 0..1 : CopySnapshot(r, content)
       \/ Publish(r) \/ DropPartial(r) \/ WriteChecksum(r)
       \/ \E policy \in {"verified-local", "verified-offsite"} : PassGate(r, policy)
       \/ DeleteSnapshot(r) \/ FailRun(r)
       \/ SelectCandidates(r) \/ CompleteBackup(r)
       \/ \E c \in BackupRuns : PruneCandidate(r, c) \/ UnlinkChecksum(r, c)
       \/ Upload(r) \/ WriteReceipt(r) \/ Rot(r)
  \/ BackupTick

BackupSpec == BackupInit /\ [][BackupNext]_backupVars
-----------------------------------------------------------------------------
BackupTypeOK ==
  /\ backupClock \in Nat
  /\ lease \in BackupRuns \cup {NoRun}
  /\ phase \in [BackupRuns -> Phases]
  /\ \A r \in BackupRuns : phase[r] \in Active <=> lease = r
  /\ remote \subseteq BackupRuns /\ candidates \subseteq BackupRuns
  /\ taken \subseteq BackupRuns /\ pruned \subseteq BackupRuns /\ excused \subseteq BackupRuns
  /\ copy \in [BackupRuns ->
       [names : SUBSET {"partial", "final"}, content : Damage, written : Nat]]
  /\ sidecar \in [BackupRuns -> Damage \cup {-1}]
  /\ offsite \in [BackupRuns -> Damage \cup {-1}]
  /\ proof \in [BackupRuns -> [content : Damage \cup {-1}, at : Nat]]

\* A snapshot the server has taken is still there: on the server, in an intact
\* local copy or in an intact offsite copy. Runs that fail or are killed, retention
\* with stale or outdated receipts, damaged copies and files that rot lose nothing,
\* unless the rot comes when the server has no snapshot any more.
NoSnapshotLost ==
  \A r \in taken :
    \/ r \in remote
    \/ "final" \in copy[r].names /\ copy[r].content = 0
    \/ offsite[r] = 0
    \/ r \in excused

\* Whatever is deleted by retention, in however many runs, BACKUP_MIN_LOCAL_COPIES
\* copies with a checksum stay in the directory (they may rot later).
EnoughCopies ==
  pruned # {} =>
    Cardinality({r \in BackupRuns : "final" \in copy[r].names /\ sidecar[r] # -1})
      >= MinLocalCopies
=============================================================================
