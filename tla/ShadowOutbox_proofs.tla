------------------------ MODULE ShadowOutbox_proofs ------------------------
(***************************************************************************)
(* Proofs about ShadowOutbox, for any sessions, bindings, workers, batch   *)
(* size and attempt bound.                                                 *)
(***************************************************************************)
EXTENDS ShadowOutbox, TLAPS

Good(row) == row \in Job /\ LeaseState(row)

\* What each kind of write makes of a row.
LEMMA GivenUpRow ==
  ASSUME NEW row \in Job
  PROVE  /\ Good(GivenUp(row))
         /\ row.status \in {"pending", "processing"} => RowGuard(row, GivenUp(row))
         /\ GivenUp(row).status = "failed" /\ GivenUp(row).version = row.version
BY ShadowOutboxAssumption DEF GivenUp, Good, Job, LeaseState, RowGuard

\* A claimed row is in work under its new owner.
LEMMA LeasedRow ==
  ASSUME NEW row \in Job, row.attempts < MaxAttempts, NEW w \in Workers
  PROVE  /\ Good(Leased(row, w))
         /\ Leased(row, w).status = "processing" /\ Leased(row, w).version = row.version
         /\ row.status \in {"pending", "processing"} => RowGuard(row, Leased(row, w))
<1>1. PICK n \in 0..MaxAttempts : n = row.attempts + 1 /\ n > 0
  BY ShadowOutboxAssumption DEF Job
<1>2. Leased(row, w) = [row EXCEPT !.status = "processing", !.attempts = n,
                                   !.owner = w, !.ripe = FALSE]
  BY <1>1 DEF Leased
<1>3. /\ Leased(row, w) \in Job /\ Leased(row, w).status = "processing"
      /\ Leased(row, w).version = row.version /\ Leased(row, w).attempts = n
      /\ Leased(row, w).owner = w
  BY <1>2 DEF Job
<1> QED BY <1>1, <1>3, ShadowOutboxAssumption DEF Good, LeaseState, RowGuard

\* A row put back or completed carries no lease.
LEMMA ReturnedRow ==
  ASSUME NEW row \in Job, NEW status \in {"pending", "done"}, NEW after,
         after = [row EXCEPT !.status = status, !.owner = NoWorker]
  PROVE  /\ Good(after) /\ after.status = status /\ after.version = row.version
         /\ row.status \in {"pending", "processing"} => RowGuard(row, after)
BY ShadowOutboxAssumption DEF Good, Job, LeaseState, RowGuard

\* Time changes nothing of a row but its ripeness.
LEMMA RipeRow ==
  ASSUME NEW row, Good(row)
  PROVE  /\ Good([row EXCEPT !.ripe = TRUE])
         /\ [row EXCEPT !.ripe = TRUE].status = row.status
         /\ [row EXCEPT !.ripe = TRUE].version = row.version
BY DEF Good, Job, LeaseState
-----------------------------------------------------------------------------
(* What a step does to the rows that are there.                            *)

Changes(k) ==
  \/ outbox'[k] = outbox[k]
  \/ Unfinished(k) /\ outbox'[k] = [outbox[k] EXCEPT !.ripe = TRUE]
  \/ Exhausted(k) /\ outbox'[k] = GivenUp(outbox[k])
  \/ /\ Claimable(k) /\ ~Exhausted(k)
     /\ \E w \in Workers : outbox'[k] = Leased(outbox[k], w)
     /\ \A j \in DOMAIN outbox : Exhausted(j) => outbox'[j] = GivenUp(outbox[j])
  \/ \E w \in Workers :
       /\ Holds(w, k) /\ k \in worker[w].batch \ worker'[w].batch
       /\ outbox'[k] \in {GivenUp(outbox[k]),
                         [outbox[k] EXCEPT !.status = "pending", !.owner = NoWorker],
                         [outbox[k] EXCEPT !.status = "done", !.owner = NoWorker]}

InPlace ==
  /\ outbox' = [k \in DOMAIN outbox |-> outbox'[k]]
  /\ \A k \in DOMAIN outbox : Changes(k)

Capturing == \E s \in Sessions, b \in Bindings : PersistPinAndJob(s, b)

\* A claim writes the exhausted rows and the rows of its batch.
LEMMA ClaimInPlace ==
  ASSUME TypeOK, NEW w \in Workers, Claim(w)
  PROVE  InPlace
<1>1. PICK batch \in SUBSET {i \in DOMAIN outbox : Claimable(i)} :
        outbox' = [i \in DOMAIN outbox |-> IF Exhausted(i) THEN GivenUp(outbox[i])
                                          ELSE IF i \in batch THEN Leased(outbox[i], w)
                                          ELSE outbox[i]]
  BY DEF Claim
<1>2. ASSUME NEW k \in DOMAIN outbox PROVE Changes(k)
  BY <1>1 DEF Changes
<1> QED BY <1>1, <1>2 DEF InPlace

\* A step that writes one row leaves the others alone.
LEMMA OneRowInPlace ==
  ASSUME TypeOK, NEW i \in DOMAIN outbox, NEW row, outbox' = [outbox EXCEPT ![i] = row]
  PROVE  /\ outbox' = [k \in DOMAIN outbox |-> outbox'[k]]
         /\ outbox'[i] = row
         /\ \A k \in DOMAIN outbox : k # i => outbox'[k] = outbox[k]
         /\ Changes(i) => \A k \in DOMAIN outbox : Changes(k)
<1>1. outbox' = [k \in DOMAIN outbox |-> IF k = i THEN row ELSE outbox[k]]
  BY DEF TypeOK
<1>2. \A k \in DOMAIN outbox : k # i => outbox'[k] = outbox[k]
  BY <1>1
<1> QED BY <1>1, <1>2 DEF Changes

\* Every step but a capture writes rows in place, and each write is one of
\* those above.
LEMMA StepInPlace ==
  ASSUME TypeOK, [Next]_vars, ~Capturing
  PROVE  InPlace
<1>0. outbox = [k \in DOMAIN outbox |-> outbox[k]]
  BY DEF TypeOK
<1>1. CASE outbox' = outbox
  BY <1>0, <1>1 DEF InPlace, Changes
<1>2. ASSUME NEW w \in Workers, NEW i \in worker[w].batch,
             \/ Complete(w, i)
             \/ \E terminal \in BOOLEAN : Fail(w, i, terminal)
      PROVE  InPlace
  <2>1. Holds(w, i) /\ worker' = [worker EXCEPT ![w].batch = @ \ {i}]
    BY <1>2 DEF Complete, Fail, Handled
  <2>2. i \in worker[w].batch \ worker'[w].batch
    BY <2>1 DEF TypeOK, Pass
  <2>3. PICK row \in {GivenUp(outbox[i]),
                      [outbox[i] EXCEPT !.status = "pending", !.owner = NoWorker],
                      [outbox[i] EXCEPT !.status = "done", !.owner = NoWorker]} :
          outbox' = [outbox EXCEPT ![i] = row]
    BY <1>2 DEF Complete, Fail
  <2>4. i \in DOMAIN outbox
    BY DEF TypeOK
  <2> QED BY <2>1, <2>2, <2>3, <2>4, OneRowInPlace DEF Changes, InPlace
<1>3. ASSUME NEW i \in DOMAIN outbox, Ripen(i) PROVE InPlace
  <2>1. outbox' = [outbox EXCEPT ![i] = [outbox[i] EXCEPT !.ripe = TRUE]]
    BY <1>3 DEF Ripen
  <2> QED BY <1>3, <2>1, OneRowInPlace DEF Changes, InPlace, Ripen
<1>4. ASSUME NEW w \in Workers, Handle(w) PROVE InPlace
  BY <1>1, <1>2, <1>4 DEF Handle, LeaseLost
<1>5. ASSUME NEW w \in Workers, Crash(w) PROVE InPlace
  BY <1>1, <1>5 DEF Crash
<1> QED
  BY <1>1, <1>3, <1>4, <1>5, ClaimInPlace
  DEF Next, Capturing, Work, TerminateBinding, vars

\* Rows written in place are rows again, and the trigger accepts them.
LEMMA ChangedRow ==
  ASSUME TypeOK, NEW k \in DOMAIN outbox, Changes(k)
  PROVE  /\ Good(outbox'[k]) /\ outbox'[k].version = outbox[k].version
         /\ outbox'[k] \in {outbox[k], [outbox[k] EXCEPT !.ripe = TRUE]}
            \/ RowGuard(outbox[k], outbox'[k])
<1>1. Good(outbox[k])
  BY DEF TypeOK, Good
<1>2. CASE outbox'[k] = outbox[k] \/ outbox'[k] = [outbox[k] EXCEPT !.ripe = TRUE]
  BY <1>1, <1>2, RipeRow
<1>3. CASE Exhausted(k) /\ outbox'[k] = GivenUp(outbox[k])
  BY <1>1, <1>3, GivenUpRow DEF Good, Exhausted
<1>4. ASSUME NEW w \in Workers, Claimable(k), outbox'[k] = Leased(outbox[k], w)
      PROVE  Good(outbox'[k]) /\ outbox'[k].version = outbox[k].version
             /\ RowGuard(outbox[k], outbox'[k])
  BY <1>1, <1>4, LeasedRow DEF Good, Claimable, Unfinished
<1>5. ASSUME NEW w \in Workers, Holds(w, k),
             outbox'[k] \in {GivenUp(outbox[k]),
                            [outbox[k] EXCEPT !.status = "pending", !.owner = NoWorker],
                            [outbox[k] EXCEPT !.status = "done", !.owner = NoWorker]}
      PROVE  Good(outbox'[k]) /\ outbox'[k].version = outbox[k].version
             /\ RowGuard(outbox[k], outbox'[k])
  <2>1. outbox[k] \in Job /\ outbox[k].status = "processing"
    BY <1>1, <1>5 DEF Good, Holds
  <2>2. CASE outbox'[k] = GivenUp(outbox[k])
    BY <2>1, <2>2, GivenUpRow
  <2>3. CASE outbox'[k] = [outbox[k] EXCEPT !.status = "pending", !.owner = NoWorker]
    BY <2>1, <2>3, ReturnedRow
  <2>4. CASE outbox'[k] = [outbox[k] EXCEPT !.status = "done", !.owner = NoWorker]
    BY <2>1, <2>4, ReturnedRow
  <2> QED BY <1>5, <2>2, <2>3, <2>4
<1> QED BY <1>2, <1>3, <1>4, <1>5 DEF Changes, Good
-----------------------------------------------------------------------------
(* Types.                                                                  *)

\* A transaction that rewrites rows in place keeps the table a table.
LEMMA RowsInPlace ==
  ASSUME outbox \in Seq(Job), DOMAIN outbox' = DOMAIN outbox,
         outbox' = [k \in DOMAIN outbox |-> outbox'[k]],
         \A k \in DOMAIN outbox : outbox'[k] \in Job
  PROVE  outbox' \in Seq(Job) /\ Len(outbox') = Len(outbox)
<1>1. DOMAIN outbox = 1..Len(outbox) /\ Len(outbox) \in Nat
  OBVIOUS
<1>2. outbox' \in [1..Len(outbox) -> Job]
  BY <1>1
<1> QED BY <1>1, <1>2

\* A capture appends a fresh row of the session's head, or of a new version.
LEMMA CapturedRow ==
  ASSUME TypeOK, Capturing
  PROVE  \E version \in Nat \ {0} :
           /\ Captured(version)
           /\ \/ version \in DOMAIN versions /\ UNCHANGED versions
              \/ /\ version = Len(versions) + 1
                 /\ \E new \in Version : versions' = Append(versions, new)
<1>1. PICK s \in Sessions, b \in Bindings, head \in 0..Len(versions) :
        IF head # 0 /\ versions[head].binding = b
        THEN Captured(head) /\ UNCHANGED versions
        ELSE /\ versions' = Append(versions, [session |-> s, binding |-> b])
             /\ Captured(Len(versions) + 1)
  BY DEF Capturing, PersistPinAndJob
<1>2. Len(versions) \in Nat /\ DOMAIN versions = 1..Len(versions)
  BY DEF TypeOK
<1>3. [session |-> s, binding |-> b] \in Version
  BY DEF Version
<1>4. CASE head # 0 /\ versions[head].binding = b
  <2>1. head \in Nat \ {0} /\ head \in DOMAIN versions
    BY <1>2, <1>4
  <2> QED BY <1>1, <1>4, <2>1
<1>5. CASE ~(head # 0 /\ versions[head].binding = b)
  BY <1>1, <1>2, <1>3, <1>5
<1> QED BY <1>4, <1>5

\* The captured row is the last one, and the others stay.
LEMMA CapturedTypes ==
  ASSUME TypeOK, NEW version \in Nat \ {0}, Captured(version)
  PROVE  /\ outbox' \in Seq(Job) /\ Len(outbox') = Len(outbox) + 1
         /\ \A k \in DOMAIN outbox : outbox'[k] = outbox[k]
         /\ Good(outbox'[Len(outbox')])
         /\ outbox'[Len(outbox')].version = version
         /\ outbox'[Len(outbox')].status = "pending"
<1> DEFINE row == [version |-> version, status |-> "pending", attempts |-> 0,
                   owner |-> NoWorker, ripe |-> TRUE]
<1>1. Good(row) /\ row \in Job /\ row.version = version /\ row.status = "pending"
  BY ShadowOutboxAssumption DEF Good, Job, LeaseState
<1>2. outbox' = Append(outbox, row)
  BY DEF Captured
<1> HIDE DEF row
<1> QED BY <1>1, <1>2 DEF TypeOK

\* Every step keeps the types and the CHECK constraint.
LEMMA TypeStep == TypeOK /\ [Next]_vars => TypeOK'
<1> SUFFICES ASSUME TypeOK, [Next]_vars PROVE TypeOK'
  OBVIOUS
<1>1. outbox' \in Seq(Job) /\ \A k \in DOMAIN outbox' : LeaseState(outbox'[k])
  <2>1. CASE Capturing
    <3>1. PICK version \in Nat \ {0} : Captured(version)
      BY <2>1, CapturedRow
    <3>2. \A k \in DOMAIN outbox' : k \in DOMAIN outbox \/ k = Len(outbox')
      BY <3>1, CapturedTypes DEF TypeOK
    <3> QED BY <3>1, <3>2, CapturedTypes DEF TypeOK, Good
  <2>2. CASE ~Capturing
    <3>1. InPlace
      BY <2>2, StepInPlace
    <3>2. \A k \in DOMAIN outbox : Good(outbox'[k])
      BY <3>1, ChangedRow DEF InPlace
    <3>3. DOMAIN outbox' = DOMAIN outbox
      BY <3>1 DEF InPlace
    <3> QED BY <3>1, <3>2, <3>3, RowsInPlace DEF InPlace, Good, TypeOK
  <2> QED BY <2>1, <2>2
<1>2. versions' \in Seq(Version)
  <2>1. CASE Capturing
    <3>1. UNCHANGED versions \/ \E new \in Version : versions' = Append(versions, new)
      BY <2>1, CapturedRow
    <3> QED BY <3>1 DEF TypeOK
  <2>2. CASE ~Capturing
    BY <2>2 DEF Next, Capturing, TerminateBinding, Work, Claim, Handle, Complete, Fail,
                LeaseLost, Crash, Ripen, TypeOK, vars
  <2> QED BY <2>1, <2>2
<1>3. evaluations' \subseteq [job : Nat, attempt : Nat]
  <2>1. ASSUME NEW w \in Workers, NEW i, Complete(w, i)
        PROVE  evaluations' \subseteq [job : Nat, attempt : Nat]
    <3>1. i \in Nat /\ outbox[i] \in Job
      BY <2>1 DEF Complete, TypeOK
    <3>2. outbox[i].attempts \in Nat
      BY <3>1, ShadowOutboxAssumption DEF Job
    <3> QED BY <2>1, <3>1, <3>2 DEF Complete, TypeOK
  <2> QED BY <2>1 DEF Next, PersistPinAndJob, TerminateBinding, Work, Claim, Handle, Fail,
                      LeaseLost, Crash, Ripen, TypeOK, vars
<1>4. revoked' \subseteq Bindings
  BY DEF Next, PersistPinAndJob, TerminateBinding, Work, Claim, Handle, Complete, Fail,
         LeaseLost, Crash, Ripen, TypeOK, vars
<1>5. worker' \in [Workers -> Pass]
  <2>1. ASSUME NEW w \in Workers, Claim(w) PROVE worker' \in [Workers -> Pass]
    <3>1. PICK batch \in SUBSET DOMAIN outbox :
            worker' = [worker EXCEPT ![w] = [batch |-> batch, known |-> revoked]]
      BY <2>1 DEF Claim
    <3>2. [batch |-> batch, known |-> revoked] \in Pass
      BY DEF TypeOK, Pass
    <3> QED BY <3>1, <3>2 DEF TypeOK
  <2>2. ASSUME NEW w \in Workers, NEW i, Handled(w, i) PROVE worker' \in [Workers -> Pass]
    BY <2>2 DEF Handled, TypeOK, Pass
  <2>3. ASSUME NEW w \in Workers, Crash(w) PROVE worker' \in [Workers -> Pass]
    BY <2>3 DEF Crash, TypeOK, Pass
  <2> QED BY <2>1, <2>2, <2>3 DEF Next, PersistPinAndJob, TerminateBinding, Work, Handle,
                                  Complete, Fail, LeaseLost, Ripen, TypeOK, vars
<1>6. crashes' \in 0..MaxCrashes
  <2>1. ASSUME NEW w \in Workers, Crash(w) PROVE crashes' \in 0..MaxCrashes
    BY <2>1, ShadowOutboxAssumption DEF Crash, TypeOK
  <2> QED BY <2>1 DEF Next, PersistPinAndJob, TerminateBinding, Work, Claim, Handle, Complete,
                      Fail, LeaseLost, Ripen, TypeOK, vars
<1>7. ASSUME NEW w \in Workers PROVE worker'[w].batch \subseteq DOMAIN outbox'
  <2>1. DOMAIN outbox \subseteq DOMAIN outbox'
    <3>1. CASE Capturing
      BY <3>1, CapturedRow, CapturedTypes DEF TypeOK
    <3>2. CASE ~Capturing
      BY <3>2, StepInPlace DEF InPlace
    <3> QED BY <3>1, <3>2
  <2>2. worker'[w].batch \subseteq DOMAIN outbox
    <3>1. ASSUME NEW v \in Workers, Claim(v) PROVE worker'[w].batch \subseteq DOMAIN outbox
      BY <3>1 DEF Claim, TypeOK
    <3>2. ASSUME NEW v \in Workers, NEW i, Handled(v, i)
          PROVE  worker'[w].batch \subseteq DOMAIN outbox
      BY <3>2 DEF Handled, TypeOK, Pass
    <3>3. ASSUME NEW v \in Workers, Crash(v) PROVE worker'[w].batch \subseteq DOMAIN outbox
      BY <3>3 DEF Crash, TypeOK, Pass
    <3> QED BY <3>1, <3>2, <3>3 DEF Next, PersistPinAndJob, TerminateBinding, Work, Handle,
                                    Complete, Fail, LeaseLost, Ripen, TypeOK, vars
  <2> QED BY <2>1, <2>2
<1> QED BY <1>1, <1>2, <1>3, <1>4, <1>5, <1>6, <1>7 DEF TypeOK

\* Every row keeps the shape of its columns and the CHECK constraint on its
\* lease, whatever workers, crashes and clocks do (TypeOK).
THEOREM ShadowTypes == Spec => []TypeOK
<1>1. Init => TypeOK
  BY ShadowOutboxAssumption DEF Init, TypeOK, Pass
<1> QED BY <1>1, TypeStep, PTL DEF Spec
-----------------------------------------------------------------------------
(* Leases and the trigger.                                                 *)

\* While a lease runs, nobody but its owner, handling the job, touches the
\* row: claims, retries and other workers' late answers included.
THEOREM LeasesHold == Spec => LeaseRespected
<1>1. TypeOK /\ [Next]_vars =>
        [\A w \in Workers, i \in DOMAIN outbox :
           Holds(w, i) /\ outbox'[i] # outbox[i] =>
             \/ outbox'[i] = [outbox[i] EXCEPT !.ripe = TRUE]
             \/ i \in worker[w].batch \ worker'[w].batch]_vars
  <2> SUFFICES ASSUME TypeOK, [Next]_vars, NEW w \in Workers, NEW i \in DOMAIN outbox,
                      Holds(w, i), outbox'[i] # outbox[i],
                      outbox'[i] # [outbox[i] EXCEPT !.ripe = TRUE]
               PROVE  i \in worker[w].batch \ worker'[w].batch
    OBVIOUS
  <2>1. ~Capturing
    BY CapturedRow, CapturedTypes
  <2>2. Changes(i)
    BY <2>1, StepInPlace DEF InPlace
  <2>3. \A v \in Workers : Holds(v, i) => v = w
    BY DEF Holds
  <2> QED BY <2>2, <2>3 DEF Changes, Exhausted, Claimable, Holds, TypeOK, Job
<1> QED BY <1>1, ShadowTypes, PTL DEF Spec, LeaseRespected

\* The update trigger of the outbox table accepts every write of a worker.
THEOREM TriggerAccepts == Spec => GuardAccepts
<1>1. TypeOK /\ [Next]_vars =>
        [\A i \in DOMAIN outbox :
           outbox'[i] \notin {outbox[i], [outbox[i] EXCEPT !.ripe = TRUE]} =>
             RowGuard(outbox[i], outbox'[i])]_vars
  <2> SUFFICES ASSUME TypeOK, [Next]_vars, NEW i \in DOMAIN outbox,
                      outbox'[i] \notin {outbox[i], [outbox[i] EXCEPT !.ripe = TRUE]}
               PROVE  RowGuard(outbox[i], outbox'[i])
    OBVIOUS
  <2>1. ~Capturing
    BY CapturedRow, CapturedTypes
  <2> QED BY <2>1, StepInPlace, ChangedRow DEF InPlace
<1> QED BY <1>1, ShadowTypes, PTL DEF Spec, GuardAccepts
-----------------------------------------------------------------------------
(* The refinement of ShadowSettlement.                                     *)

\* Versions are numbered in the order of their first jobs.
VersionsUsed ==
  /\ Len(versions) <= Len(outbox)
  /\ \A k \in DOMAIN outbox : outbox[k].version \in DOMAIN versions

\* One evaluation for each job that is done, none for any other.
EvaluatedOnce ==
  /\ \A e \in evaluations : e.job \in DOMAIN outbox /\ outbox[e.job].status = "done"
  /\ \A e, f \in evaluations : e.job = f.job => e = f
  /\ \A k \in DOMAIN outbox : outbox[k].status = "done" => \E e \in evaluations : e.job = k

\* A job in work has no unfinished job of its version before it.
InTurn ==
  \A i, j \in DOMAIN outbox :
    j < i /\ outbox[j].version = outbox[i].version /\ outbox[i].status = "processing" =>
      ~Unfinished(j)

OutboxInv == TypeOK /\ VersionsUsed /\ EvaluatedOnce /\ InTurn

\* A row is done by the step that writes its evaluation, and by no other.
EvaluationStep ==
  \/ /\ UNCHANGED evaluations
     /\ \A k \in DOMAIN outbox : outbox'[k].status = "done" => outbox[k].status = "done"
  \/ \E i \in DOMAIN outbox :
       /\ Unfinished(i) /\ outbox'[i].status = "done"
       /\ \A k \in DOMAIN outbox : k # i => outbox'[k] = outbox[k]
       /\ evaluations' = IF \E e \in evaluations : e.job = i THEN evaluations
                         ELSE evaluations \cup {[job |-> i, attempt |-> outbox[i].attempts]}

\* Only _complete writes an evaluation, and it completes the row with it.
LEMMA EvaluationsFollow ==
  ASSUME TypeOK, [Next]_vars, ~Capturing
  PROVE  EvaluationStep
<1>0. \A k \in DOMAIN outbox : outbox[k] \in Job
  BY DEF TypeOK
<1>1. CASE UNCHANGED <<outbox, evaluations>>
  BY <1>1 DEF EvaluationStep
<1>2. ASSUME NEW w \in Workers, Claim(w) PROVE EvaluationStep
  <2>1. PICK batch \in SUBSET {i \in DOMAIN outbox : Claimable(i)} :
          outbox' = [i \in DOMAIN outbox |-> IF Exhausted(i) THEN GivenUp(outbox[i])
                                            ELSE IF i \in batch THEN Leased(outbox[i], w)
                                            ELSE outbox[i]]
    BY <1>2 DEF Claim
  <2>2. ASSUME NEW k \in DOMAIN outbox, outbox'[k].status = "done"
        PROVE  outbox[k].status = "done"
    BY <1>0, <2>1, <2>2, GivenUpRow, LeasedRow DEF Claimable
  <2> QED BY <1>2, <2>2 DEF Claim, EvaluationStep
<1>3. ASSUME NEW w \in Workers, NEW i \in worker[w].batch, Complete(w, i)
      PROVE  EvaluationStep
  <2>1. i \in DOMAIN outbox /\ Unfinished(i)
    BY <1>3 DEF Complete, TypeOK, Holds, Unfinished
  <2>2. outbox' = [outbox EXCEPT ![i] = [outbox[i] EXCEPT !.status = "done",
                                                          !.owner = NoWorker]]
    BY <1>3 DEF Complete
  <2>3. outbox'[i].status = "done" /\ \A k \in DOMAIN outbox : k # i => outbox'[k] = outbox[k]
    BY <1>0, <2>1, <2>2, OneRowInPlace, ReturnedRow
  <2> QED BY <1>3, <2>1, <2>3 DEF Complete, EvaluationStep
<1>4. ASSUME NEW w \in Workers, NEW i \in worker[w].batch, NEW terminal \in BOOLEAN,
             Fail(w, i, terminal)
      PROVE  EvaluationStep
  <2>1. i \in DOMAIN outbox /\ outbox[i] \in Job
    BY <1>0 DEF TypeOK
  <2>2. PICK row \in {GivenUp(outbox[i]),
                      [outbox[i] EXCEPT !.status = "pending", !.owner = NoWorker]} :
          outbox' = [outbox EXCEPT ![i] = row]
    BY <1>4 DEF Fail
  <2>3. row.status # "done"
    BY <2>1, <2>2, GivenUpRow, ReturnedRow
  <2>4. \A k \in DOMAIN outbox : outbox'[k].status = "done" => outbox[k].status = "done"
    BY <2>1, <2>2, <2>3, OneRowInPlace
  <2> QED BY <1>4, <2>4 DEF Fail, EvaluationStep
<1>5. ASSUME NEW i \in DOMAIN outbox, Ripen(i) PROVE EvaluationStep
  <2>1. outbox' = [outbox EXCEPT ![i] = [outbox[i] EXCEPT !.ripe = TRUE]]
    BY <1>5 DEF Ripen
  <2>2. [outbox[i] EXCEPT !.ripe = TRUE].status = outbox[i].status
    BY <1>0 DEF Job
  <2>3. \A k \in DOMAIN outbox : outbox'[k].status = "done" => outbox[k].status = "done"
    BY <2>1, <2>2, OneRowInPlace
  <2> QED BY <1>5, <2>3 DEF Ripen, EvaluationStep
<1> QED
  BY <1>1, <1>2, <1>3, <1>4, <1>5
  DEF Next, Capturing, Work, Handle, LeaseLost, Crash, TerminateBinding, vars

\* Finished rows stay as they are.
LEMMA FinishedStays ==
  ASSUME NEW k \in DOMAIN outbox, Changes(k), ~Unfinished(k)
  PROVE  outbox'[k] = outbox[k]
BY DEF Changes, Unfinished, Exhausted, Claimable, Holds

\* Every step keeps each version in use by a job.
LEMMA VersionsUsedStep == OutboxInv /\ [Next]_vars => VersionsUsed'
<1> SUFFICES ASSUME OutboxInv, [Next]_vars PROVE VersionsUsed'
  OBVIOUS
<1> USE DEF OutboxInv
<1>1. CASE Capturing
  <2>1. PICK version \in Nat \ {0} :
          /\ Captured(version)
          /\ \/ version \in DOMAIN versions /\ UNCHANGED versions
             \/ /\ version = Len(versions) + 1
                /\ \E new \in Version : versions' = Append(versions, new)
    BY <1>1, CapturedRow
  <2>2. /\ Len(versions) \in Nat /\ Len(versions') \in {Len(versions), Len(versions) + 1}
        /\ DOMAIN versions \subseteq DOMAIN versions' /\ version \in DOMAIN versions'
    BY <2>1 DEF TypeOK
  <2>3. Len(outbox') = Len(outbox) + 1 /\ Len(outbox) \in Nat
    BY <2>1, CapturedTypes DEF TypeOK
  <2>4. ASSUME NEW k \in DOMAIN outbox' PROVE outbox'[k].version \in DOMAIN versions'
    <3>1. k \in DOMAIN outbox \/ k = Len(outbox')
      BY <2>1, CapturedTypes DEF TypeOK
    <3> QED BY <2>1, <2>2, <3>1, CapturedTypes DEF VersionsUsed
  <2> QED BY <2>2, <2>3, <2>4 DEF VersionsUsed
<1>2. CASE ~Capturing
  <2>1. InPlace /\ DOMAIN outbox' = DOMAIN outbox
    BY <1>2, StepInPlace DEF InPlace
  <2>2. \A k \in DOMAIN outbox : outbox'[k].version = outbox[k].version
    BY <2>1, ChangedRow DEF InPlace
  <2>3. Len(outbox') = Len(outbox)
    BY <2>1, ChangedRow, RowsInPlace DEF InPlace, Good, TypeOK
  <2>4. UNCHANGED versions
    BY <1>2 DEF Next, Capturing, TerminateBinding, Work, Claim, Handle, Complete, Fail,
                LeaseLost, Crash, Ripen, vars
  <2> QED BY <2>1, <2>2, <2>3, <2>4 DEF VersionsUsed
<1> QED BY <1>1, <1>2

\* Every step keeps one evaluation per done job, and none for others.
LEMMA EvaluatedOnceStep == OutboxInv /\ [Next]_vars => EvaluatedOnce'
<1> SUFFICES ASSUME OutboxInv, [Next]_vars PROVE EvaluatedOnce'
  OBVIOUS
<1> USE DEF OutboxInv
<1>1. CASE Capturing
  <2>1. PICK version \in Nat \ {0} : Captured(version)
    BY <1>1, CapturedRow
  <2>2. UNCHANGED evaluations
    BY <1>1 DEF Capturing, PersistPinAndJob
  <2>3. /\ \A k \in DOMAIN outbox' : k \in DOMAIN outbox \/ k = Len(outbox')
        /\ DOMAIN outbox \subseteq DOMAIN outbox'
    BY <2>1, CapturedTypes DEF TypeOK
  <2> QED BY <2>1, <2>2, <2>3, CapturedTypes DEF EvaluatedOnce
<1>2. CASE ~Capturing
  <2>1. EvaluationStep /\ DOMAIN outbox' = DOMAIN outbox
    BY <1>2, StepInPlace, EvaluationsFollow DEF InPlace
  <2>2. CASE UNCHANGED evaluations
             /\ \A k \in DOMAIN outbox : outbox'[k].status = "done" => outbox[k].status = "done"
    <3>1. \A k \in DOMAIN outbox : outbox[k].status = "done" => outbox'[k] = outbox[k]
      BY <1>2, StepInPlace, FinishedStays DEF InPlace, Unfinished
    <3> QED BY <2>1, <2>2, <3>1 DEF EvaluatedOnce
  <2>3. ASSUME NEW i \in DOMAIN outbox, Unfinished(i), outbox'[i].status = "done",
               \A k \in DOMAIN outbox : k # i => outbox'[k] = outbox[k],
               evaluations' = IF \E e \in evaluations : e.job = i THEN evaluations
                              ELSE evaluations \cup {[job |-> i, attempt |-> outbox[i].attempts]}
        PROVE  EvaluatedOnce'
    <3>1. \A e \in evaluations : e.job # i
      BY <2>3 DEF EvaluatedOnce, Unfinished
    <3> DEFINE new == [job |-> i, attempt |-> outbox[i].attempts]
    <3>2. new.job = i /\ evaluations' = evaluations \cup {new}
      BY <2>3, <3>1
    <3> HIDE DEF new
    <3>3. \A e \in evaluations' : e.job \in DOMAIN outbox' /\ outbox'[e.job].status = "done"
      BY <2>1, <2>3, <3>1, <3>2 DEF EvaluatedOnce
    <3>4. \A e, f \in evaluations' : e.job = f.job => e = f
      BY <3>1, <3>2 DEF EvaluatedOnce
    <3>5. \A k \in DOMAIN outbox' :
            outbox'[k].status = "done" => \E e \in evaluations' : e.job = k
      BY <2>1, <2>3, <3>2 DEF EvaluatedOnce
    <3> QED BY <3>3, <3>4, <3>5 DEF EvaluatedOnce
  <2> QED BY <2>1, <2>2, <2>3 DEF EvaluationStep
<1> QED BY <1>1, <1>2

\* Every step keeps the jobs of a version in turn.
LEMMA InTurnStep == OutboxInv /\ [Next]_vars => InTurn'
<1> SUFFICES ASSUME OutboxInv, [Next]_vars PROVE InTurn'
  OBVIOUS
<1> USE DEF OutboxInv
<1>1. CASE Capturing
  <2>1. PICK version \in Nat \ {0} : Captured(version)
    BY <1>1, CapturedRow
  <2>2. \A k \in DOMAIN outbox' : k \in DOMAIN outbox \/ k = Len(outbox')
    BY <2>1, CapturedTypes DEF TypeOK
  <2> SUFFICES ASSUME NEW i \in DOMAIN outbox', NEW j \in DOMAIN outbox', j < i,
                      outbox'[j].version = outbox'[i].version,
                      outbox'[i].status = "processing"
               PROVE  ~Unfinished(j)'
    BY DEF InTurn
  <2>3. i \in DOMAIN outbox
    BY <2>1, <2>2, CapturedTypes
  <2>4. j \in DOMAIN outbox
    <3>1. Len(outbox') = Len(outbox) + 1 /\ i \in 1..Len(outbox)
      BY <2>1, <2>3, CapturedTypes DEF TypeOK
    <3>2. j # Len(outbox')
      BY <3>1 DEF TypeOK
    <3> QED BY <2>2, <3>2
  <2> QED BY <2>1, <2>3, <2>4, CapturedTypes DEF InTurn, Unfinished
<1>2. CASE ~Capturing
  <2>1. InPlace /\ DOMAIN outbox' = DOMAIN outbox
    BY <1>2, StepInPlace DEF InPlace
  <2> SUFFICES ASSUME NEW i \in DOMAIN outbox, NEW j \in DOMAIN outbox, j < i,
                      outbox'[j].version = outbox'[i].version,
                      outbox'[i].status = "processing"
               PROVE  ~Unfinished(j)'
    BY <2>1 DEF InTurn
  <2>2. Changes(i) /\ Changes(j) /\ outbox[j].version = outbox[i].version
    BY <2>1, ChangedRow DEF InPlace
  <2>3. outbox[i] \in Job /\ outbox[j] \in Job
    BY DEF TypeOK
  <2>4. CASE outbox[i].status = "processing"
    BY <2>2, <2>4, FinishedStays DEF InTurn, Unfinished
  <2>5. CASE outbox[i].status # "processing"
    <3>1. Claimable(i) /\ \A k \in DOMAIN outbox : Exhausted(k) => outbox'[k] = GivenUp(outbox[k])
      <4>1. outbox'[i] # outbox[i] /\ outbox'[i] # [outbox[i] EXCEPT !.ripe = TRUE]
        BY <2>3, <2>5 DEF Job
      <4> QED BY <2>2, <2>5, <4>1 DEF Changes, Exhausted, Holds
    <3>2. j \in 1..(i - 1)
      BY DEF TypeOK
    <3>3. CASE Exhausted(j)
      BY <2>3, <3>1, <3>3, GivenUpRow DEF Unfinished
    <3>4. CASE ~Unfinished(j)
      BY <2>2, <3>4, FinishedStays DEF Unfinished
    <3> QED BY <2>2, <3>1, <3>2, <3>3, <3>4 DEF Claimable
  <2> QED BY <2>4, <2>5
<1> QED BY <1>1, <1>2

\* The inductive invariant of the refinement.
LEMMA OutboxInvariant == Spec => []OutboxInv
<1>1. Init => OutboxInv
  BY ShadowOutboxAssumption
  DEF Init, OutboxInv, TypeOK, Pass, VersionsUsed, EvaluatedOnce, InTurn
<1>2. OutboxInv /\ [Next]_vars => OutboxInv'
  BY TypeStep, VersionsUsedStep, EvaluatedOnceStep, InTurnStep DEF OutboxInv
<1> QED BY <1>1, <1>2, PTL DEF Spec

\* What the mapping makes of a job.
LEMMA OutcomeOf ==
  ASSUME OutboxInv, NEW k \in DOMAIN outbox
  PROVE  Outcome(k) = IF Unfinished(k) THEN "open"
                      ELSE IF outbox[k].status = "done" THEN "evaluated" ELSE "failed"
<1>1. outbox[k].status \in {"pending", "processing", "done", "failed"}
  <2>1. outbox[k] \in Job
    BY DEF OutboxInv, TypeOK
  <2> QED BY <2>1 DEF Job
<1>2. CASE outbox[k].status = "done"
  <2>1. PICK e \in evaluations : e.job = k
    BY <1>2 DEF OutboxInv, EvaluatedOnce
  <2>2. EvaluationsOf(k) = {e}
    BY <2>1 DEF OutboxInv, EvaluatedOnce, EvaluationsOf
  <2> QED BY <1>2, <2>2 DEF Outcome, Unfinished
<1>3. CASE outbox[k].status # "done"
  <2>1. EvaluationsOf(k) = {}
    BY <1>3 DEF OutboxInv, EvaluatedOnce, EvaluationsOf
  <2> QED BY <1>1, <1>3, <2>1 DEF Outcome, Unfinished
<1> QED BY <1>2, <1>3

\* A capture is a capture of the abstract outbox.
LEMMA CaptureMaps ==
  ASSUME OutboxInv, OutboxInv', [Next]_vars, Capturing
  PROVE  Settlement!Capture
<1>1. PICK version \in Nat \ {0} : Captured(version)
  BY CapturedRow DEF OutboxInv
<1>0. PICK n \in Nat : n = Len(outbox)
  BY DEF OutboxInv, TypeOK
<1>2. n \in Nat /\ Len(outbox') = n + 1 /\ DOMAIN outbox = 1..n /\ DOMAIN outbox' = 1..(n + 1)
  BY <1>0, <1>1, CapturedTypes DEF OutboxInv, TypeOK
<1>3. outbox'[n + 1].version = version /\ outbox'[n + 1].status = "pending"
      /\ \A k \in 1..n : outbox'[k] = outbox[k]
  BY <1>1, <1>2, CapturedTypes DEF OutboxInv
<1>4. \A k \in 1..n : Outcome(k)' = Outcome(k)
  <2> TAKE k \in 1..n
  <2>1. UNCHANGED evaluations /\ outbox'[k] = outbox[k]
    BY <1>3 DEF Capturing, PersistPinAndJob
  <2> QED BY <2>1 DEF Outcome, EvaluationsOf, Unfinished
<1>5. Outcome(n + 1)' = "open"
  <2>1. UNCHANGED evaluations /\ \A e \in evaluations : e.job # n + 1
    BY <1>2 DEF Capturing, PersistPinAndJob, OutboxInv, EvaluatedOnce
  <2>2. EvaluationsOf(n + 1)' = {}
    BY <2>1 DEF EvaluationsOf
  <2> QED BY <1>3, <2>2 DEF Outcome, Unfinished
<1>6. version \in 1..(Len(Jobs) + 1)
  <2>1. version \in DOMAIN versions' /\ Len(versions') <= n + 1 /\ Len(versions') \in Nat
    BY <1>2, <1>3 DEF OutboxInv, VersionsUsed, TypeOK
  <2>2. DOMAIN versions' = 1..Len(versions')
    BY DEF OutboxInv, TypeOK
  <2>3. Len(Jobs) = n
    BY <1>2 DEF Jobs
  <2> QED BY <1>2, <2>1, <2>2, <2>3
<1>7. Jobs' = Append(Jobs, [version |-> version, outcome |-> "open"])
  <2> DEFINE new == [version |-> version, outcome |-> "open"]
  <2>1. Jobs' = [k \in 1..(n + 1) |-> [version |-> outbox'[k].version, outcome |-> Outcome(k)']]
    BY <1>2 DEF Jobs
  <2>2. Jobs = [k \in 1..n |-> [version |-> outbox[k].version, outcome |-> Outcome(k)]]
    BY <1>2 DEF Jobs
  <2>3. Append(Jobs, new) = [k \in 1..(n + 1) |-> IF k = n + 1 THEN new ELSE Jobs[k]]
    BY <1>2, <2>2
  <2>4. ASSUME NEW k \in 1..(n + 1) PROVE Jobs'[k] = Append(Jobs, new)[k]
    <3>1. CASE k = n + 1
      BY <1>3, <1>5, <2>1, <2>3, <3>1
    <3>2. CASE k # n + 1
      <4>1. k \in 1..n
        BY <1>2, <3>2
      <4> QED BY <1>3, <1>4, <2>1, <2>2, <2>3, <3>2, <4>1
    <3> QED BY <3>1, <3>2
  <2>5. Jobs' = [k \in 1..(n + 1) |-> Jobs'[k]]
    BY <2>1
  <2>6. Append(Jobs, new) = [k \in 1..(n + 1) |-> Append(Jobs, new)[k]]
    BY <2>3
  <2> HIDE DEF new
  <2>7. [k \in 1..(n + 1) |-> Jobs'[k]] = [k \in 1..(n + 1) |-> Append(Jobs, new)[k]]
    BY <2>4
  <2>8. Jobs' = Append(Jobs, new)
    BY <2>5, <2>6, <2>7, Zenon
  <2> QED BY <2>8 DEF new
<1> QED BY <1>6, <1>7 DEF Settlement!Capture

\* The jobs a step settles were each next in their version.
LEMMA SettleMaps ==
  ASSUME OutboxInv, OutboxInv', [Next]_vars, ~Capturing
  PROVE  Settlement!Next
<1>1. InPlace /\ DOMAIN outbox' = DOMAIN outbox
  BY StepInPlace DEF InPlace, OutboxInv
<1>2. PICK S : S = {k \in DOMAIN outbox : Unfinished(k) /\ ~Unfinished(k)'}
  OBVIOUS
<1>3. PICK f : f = [k \in S |-> Outcome(k)']
  OBVIOUS
<1>4. DOMAIN Jobs = DOMAIN outbox /\ S \subseteq DOMAIN outbox
  BY <1>2 DEF Jobs
<1>5. ASSUME NEW k \in DOMAIN outbox
      PROVE  /\ Outcome(k) = IF Unfinished(k) THEN "open"
                             ELSE IF outbox[k].status = "done" THEN "evaluated" ELSE "failed"
             /\ Jobs[k].outcome = Outcome(k) /\ Jobs[k].version = outbox[k].version
  BY OutcomeOf DEF Jobs
<1>6. ASSUME NEW k \in DOMAIN outbox'
      PROVE  Outcome(k)' \in {"open", "evaluated", "failed"}
             /\ (Outcome(k)' = "open" <=> Unfinished(k)')
  <2>1. outbox'[k].status \in {"pending", "processing", "done", "failed"}
    <3>1. outbox'[k] \in Job
      BY DEF OutboxInv, TypeOK
    <3> QED BY <3>1 DEF Job
  <2>2. CASE outbox'[k].status = "done"
    <3>1. PICK e \in evaluations' : e.job = k
      BY <2>2 DEF OutboxInv, EvaluatedOnce
    <3>2. EvaluationsOf(k)' = {e}
      BY <3>1 DEF OutboxInv, EvaluatedOnce, EvaluationsOf
    <3> QED BY <2>2, <3>2 DEF Outcome, Unfinished
  <2>3. CASE outbox'[k].status # "done"
    <3>1. EvaluationsOf(k)' = {}
      BY <2>3 DEF OutboxInv, EvaluatedOnce, EvaluationsOf
    <3> QED BY <2>1, <2>3, <3>1 DEF Outcome, Unfinished
  <2> QED BY <2>2, <2>3
<1>7. f \in [S -> {"evaluated", "failed"}]
  BY <1>1, <1>2, <1>3, <1>6
<1>8. ASSUME NEW k \in S PROVE Settlement!IsNext(k)
  <2>1. k \in DOMAIN outbox /\ Unfinished(k) /\ ~Unfinished(k)' /\ Changes(k)
    BY <1>1, <1>2 DEF InPlace
  <2>2. outbox[k] \in Job
    BY <2>1 DEF OutboxInv, TypeOK
  <2>3. outbox[k].status = "processing"
    <3>1. outbox'[k] # outbox[k] /\ outbox'[k] # [outbox[k] EXCEPT !.ripe = TRUE]
      BY <2>1, <2>2, RipeRow DEF Unfinished, Job
    <3>2. ASSUME NEW w \in Workers, Claimable(k) PROVE outbox'[k] # Leased(outbox[k], w)
      BY <2>1, <2>2, <3>2, LeasedRow DEF Claimable, Unfinished
    <3> QED BY <2>1, <3>1, <3>2 DEF Changes, Exhausted, Holds
  <2>4. ASSUME NEW j \in 1..(k - 1), Jobs[j].version = Jobs[k].version
        PROVE  Jobs[j].outcome # "open"
    <3>1. j \in DOMAIN outbox /\ j < k
      BY <2>1 DEF OutboxInv, TypeOK
    <3>2. ~Unfinished(j)
      BY <1>5, <2>1, <2>3, <2>4, <3>1 DEF OutboxInv, InTurn
    <3> QED BY <1>5, <3>1, <3>2
  <2> QED BY <1>5, <2>1, <2>4 DEF Settlement!IsNext
<1>9. ASSUME NEW k \in DOMAIN outbox
      PROVE  Jobs'[k] = IF k \in S THEN [Jobs[k] EXCEPT !.outcome = f[k]] ELSE Jobs[k]
  <2>1. Jobs'[k] = [version |-> outbox'[k].version, outcome |-> Outcome(k)']
    BY <1>1 DEF Jobs
  <2>2. Jobs[k] = [version |-> outbox[k].version, outcome |-> Outcome(k)]
    BY DEF Jobs
  <2>3. outbox'[k].version = outbox[k].version /\ Changes(k)
    BY <1>1, ChangedRow DEF InPlace, OutboxInv
  <2>4. CASE k \in S
    BY <1>3, <2>1, <2>2, <2>3, <2>4
  <2>5. CASE Unfinished(k) /\ Unfinished(k)'
    BY <1>1, <1>2, <1>5, <1>6, <2>1, <2>2, <2>3, <2>5
  <2>6. CASE ~Unfinished(k)
    <3>1. outbox'[k] = outbox[k]
      BY <2>3, <2>6, FinishedStays
    <3>2. Outcome(k)' = Outcome(k)
      <4>1. CASE UNCHANGED evaluations
        BY <3>1, <4>1 DEF Outcome, EvaluationsOf, Unfinished
      <4>2. ASSUME NEW i \in DOMAIN outbox, Unfinished(i),
                   evaluations' = IF \E e \in evaluations : e.job = i THEN evaluations
                                  ELSE evaluations \cup {[job |-> i,
                                                         attempt |-> outbox[i].attempts]}
            PROVE  Outcome(k)' = Outcome(k)
        <5>1. i # k
          BY <2>6, <4>2
        <5>2. EvaluationsOf(k)' = EvaluationsOf(k)
          BY <4>2, <5>1 DEF EvaluationsOf
        <5>3. \A e \in EvaluationsOf(k) : e \in evaluations /\ e \in evaluations'
          BY <5>2 DEF EvaluationsOf
        <5>4. (\E e \in evaluations : EvaluationsOf(k) = {e}) <=>
              (\E e \in evaluations' : EvaluationsOf(k)' = {e})
          BY <5>2, <5>3
        <5> QED BY <3>1, <5>2, <5>4 DEF Outcome, Unfinished
      <4> QED BY <4>1, <4>2, EvaluationsFollow DEF EvaluationStep, OutboxInv
    <3> QED BY <1>2, <2>1, <2>2, <2>3, <2>6, <3>2
  <2> QED BY <1>2, <2>4, <2>5, <2>6
<1>10. Settlement!Settle(f)
  <2>1. DOMAIN f = S
    BY <1>3
  <2>2. Jobs' = [k \in DOMAIN outbox |-> Jobs'[k]]
    BY <1>1 DEF Jobs
  <2>3. [k \in DOMAIN outbox |-> Jobs'[k]] =
        [k \in DOMAIN outbox |-> IF k \in S THEN [Jobs[k] EXCEPT !.outcome = f[k]] ELSE Jobs[k]]
    BY <1>9
  <2>4. Jobs' = [k \in DOMAIN outbox |->
                   IF k \in S THEN [Jobs[k] EXCEPT !.outcome = f[k]] ELSE Jobs[k]]
    BY <2>2, <2>3, Zenon
  <2> QED BY <1>4, <2>1, <2>4 DEF Settlement!Settle
<1> QED BY <1>4, <1>7, <1>8, <1>10 DEF Settlement!Next

\* The outbox keeps its promise: whatever workers and crashes do, each job is
\* settled once, with exactly one evaluation or none, and no job overtakes an
\* earlier one of its session version (ShadowSettlement).
THEOREM OutboxSettlesInOrder == Spec => SettlesInOrder
<1>1. Init => Settlement!Init
  BY DEF Init, Settlement!Init, Jobs
<1>2. OutboxInv /\ OutboxInv' /\ [Next]_vars => [Settlement!Next]_Jobs
  <2> SUFFICES ASSUME OutboxInv, OutboxInv', [Next]_vars PROVE Settlement!Next
    OBVIOUS
  <2> QED BY CaptureMaps, SettleMaps DEF Settlement!Next
<1> QED BY <1>1, <1>2, OutboxInvariant, PTL DEF Spec, SettlesInOrder, Settlement!Spec
=============================================================================
