------------------------ MODULE TurnPipeline_proofs -------------------------
(***************************************************************************)
(* What a chat turn guarantees, for any number of turns, requests, claims  *)
(* and texts. A step changes the record of one turn; the invariant says of *)
(* each record what its step implies, and of the cache that it is plain.   *)
(***************************************************************************)
EXTENDS TurnPipeline, TLAPS

\* Texts are generated at most three times, and each way to a further one is
\* taken once.
Counted(x) ==
  /\ x.step \in {"idle", "grounding", "grounded", "generating"} =>
       x.calls = 0 /\ x.regenerated = FALSE
  /\ x.step = "regenerating" => x.calls = 1
  /\ x.step = "drafted" => x.calls = IF x.regenerated THEN 2 ELSE 1
  /\ x.step \in {"verifying", "criticising", "criticising again", "correcting"} => x.calls <= 2

\* What a plan promises about the request and the evidence it was made for.
Sound(x) ==
  /\ x.plan.model =>
       /\ x.hit = FALSE
       /\ Evidence(x) \/ x.request.route \in {"smalltalk", "intake"}
       /\ Technical(x.request) /\ Has(x, "risk") => x.plan.review
  /\ x.plan.critic => x.plan.model
  /\ x.plan.class = "S0" /\ x.request.route = "knowledge" => Evidence(x) /\ x.plan.model

\* The generator and the critic work only for a plan that asks for them.
Planned(x) ==
  /\ x.step \in {"idle", "grounding", "grounded"} => x.plan = NoPlan
  /\ x.step \in {"generating", "regenerating", "drafted"} => x.plan.model
  /\ x.calls > 0 => x.plan.model
  /\ x.step \in {"criticising", "criticising again", "correcting", "rechecking"} => CriticDue(x)
  /\ Sound(x)

\* From the first text on there is an answer.
Answered(x) ==
  /\ x.step # "idle" => x.request \in Requests
  /\ x.step \notin {"idle", "grounding", "grounded", "generating", "failed"} => x.answer \in Answer
  /\ x.step = "grounded" /\ x.hit => x.answer \in Answer
  /\ x.step = "grounding" => x.hit = FALSE

\* What the guards before a step have removed.
Screened(x) ==
  /\ x.step \in {"closing", "settling", "done"} /\ x.answer.by = "model" =>
       "parametric" \notin x.answer.faults
  /\ x.step \in {"settling", "done"} =>
       /\ "leak" \notin x.answer.faults
       /\ Guarded(x) => "contract" \notin x.answer.faults
  /\ /\ x.hit /\ x.answer.by # "fixed"
     /\ x.step \in {"grounded", "verifying", "closing", "settling", "done"}
     => "contract" \notin x.answer.faults

\* A model text where the critic is due comes with the critic's verdict on it.
Verified(x) ==
  x.step \in {"closing", "settling", "done"} /\ CriticDue(x) /\ x.answer.by = "model" =>
    x.verdict.draft = x.answer.draft /\ x.verdict.result # "trap"

Fresh(x) ==
  /\ ~x.hit => x.facts \subseteq x.seen
  /\ x.step # "idle" => served \subseteq x.seen

\* Record and mappings agree with the answer.
Reported(x) ==
  /\ x.step \in {"settling", "done"} =>
       x.recorded = x.answer /\ (x.mapped # NoAnswer => x.mapped = x.answer)
  /\ x.recorded # NoAnswer => x.step \in {"settling", "done", "failed"}

RecordInv(x) ==
  Counted(x) /\ Planned(x) /\ Answered(x) /\ Screened(x) /\ Verified(x) /\ Fresh(x) /\ Reported(x)

TurnInv == TurnTypeOK /\ CacheIsPlain /\ \A t \in ChatTurns : RecordInv(chat[t])

-----------------------------------------------------------------------------
\* A step that changes the record of one turn keeps what is known of the records
\* if the new one fits.
LEMMA OneRecordKeeps ==
  ASSUME TurnInv, NEW t \in ChatTurns, NEW x \in TurnRecord, RecordInv(x),
         chat' = [chat EXCEPT ![t] = x], served' = served, deployment' = deployment
  PROVE  chat' \in [ChatTurns -> TurnRecord] /\ \A u \in ChatTurns : RecordInv(chat[u])'
<1>1. chat' \in [ChatTurns -> TurnRecord]
  BY DEF TurnInv, TurnTypeOK
<1>2. ASSUME NEW u \in ChatTurns PROVE RecordInv(chat[u])'
  <2>1. chat'[u] = IF u = t THEN x ELSE chat[u]
    BY DEF TurnInv, TurnTypeOK
  <2>2. RecordInv(chat[u])
    BY DEF TurnInv
  <2>3. RecordInv(chat'[u])
    BY <2>1, <2>2
  <2>4. Counted(chat[u])' /\ Planned(chat[u])'
    BY <2>3 DEF RecordInv, Counted, Planned, Sound, CriticDue, Evidence, Has
  <2>5. Answered(chat[u])' /\ Reported(chat[u])'
    BY <2>3 DEF RecordInv, Answered, Reported
  <2>6. Screened(chat[u])'
    BY <2>3 DEF RecordInv, Screened, Guarded, Contract, Evidence, Has
  <2>7. Verified(chat[u])' /\ Fresh(chat[u])'
    BY <2>3 DEF RecordInv, Verified, Fresh, CriticDue
  <2> QED BY <2>4, <2>5, <2>6, <2>7 DEF RecordInv
<1> QED BY <1>1, <1>2

\* Most steps leave the cache alone as well.
LEMMA BecomesKeeps ==
  ASSUME TurnInv, NEW t \in ChatTurns, NEW x \in TurnRecord, RecordInv(x), Becomes(t, x)
  PROVE  TurnInv'
<1>1. chat' \in [ChatTurns -> TurnRecord] /\ \A u \in ChatTurns : RecordInv(chat[u])'
  BY OneRecordKeeps DEF Becomes
<1>2. TurnTypeOK'
  BY <1>1 DEF TurnInv, TurnTypeOK, Becomes
<1>3. CacheIsPlain'
  BY DEF TurnInv, CacheIsPlain, Becomes
<1> QED BY <1>1, <1>2, <1>3 DEF TurnInv

\* The record of a turn under way.
LEMMA RecordOf ==
  ASSUME TurnInv, NEW t \in ChatTurns
  PROVE  chat[t] \in TurnRecord /\ RecordInv(chat[t])
BY DEF TurnInv, TurnTypeOK

LEMMA ReceiveKeeps ==
  ASSUME TurnInv, NEW t \in ChatTurns, NEW r \in Requests, Receive(t, r)
  PROVE  TurnInv'
<1> DEFINE entry == Lookup(r)
           hit == ~Refused(r) /\ entry # NoEntry
           answer == IF hit THEN entry.answer ELSE NoAnswer
           facts == IF hit /\ ~Early(r) THEN entry.answer.facts ELSE {}
           step == IF Refused(r) THEN "failed"
                   ELSE IF hit \/ Early(r) THEN "grounded" ELSE "grounding"
           y == [chat[t] EXCEPT !.request = r, !.seen = served, !.hit = hit,
                                !.answer = answer, !.facts = facts, !.step = step]
<1>1. chat[t] \in TurnRecord /\ RecordInv(chat[t]) /\ chat[t].step = "idle" /\ Becomes(t, y)
  BY RecordOf DEF Receive
<1>2. r \in Request /\ served \subseteq LedgerClaims
  BY TurnAssumption DEF TurnInv, TurnTypeOK
<1>3. hit => entry \in Entry /\ "contract" \notin entry.answer.faults
  <2>1. SUFFICES ASSUME hit PROVE entry \in Entry /\ "contract" \notin entry.answer.faults
    OBVIOUS
  <2>2. Key(r) \in Tenants \X Questions
    BY <1>2 DEF Key, Request
  <2>3. entry = cache[Key(r)] /\ entry # NoEntry
    BY <2>1 DEF Lookup
  <2> QED BY <2>2, <2>3 DEF TurnInv, TurnTypeOK, CacheIsPlain
<1>4. hit => entry.answer \in Answer
  BY <1>3 DEF Entry
<1>5. y \in TurnRecord
  <2>1. answer \in Answer \cup {NoAnswer}
    BY <1>4
  <2>2. facts \in SUBSET LedgerClaims
    BY <1>4 DEF Answer
  <2>3. step \in Steps
    BY DEF Steps, Awaiting
  <2>4. hit \in BOOLEAN
    OBVIOUS
  <2> HIDE DEF entry, hit, answer, facts, step
  <2> QED BY <1>1, <1>2, <2>1, <2>2, <2>3, <2>4 DEF TurnRecord
<1>6. RecordInv(y)
  <2>1. /\ y.request = r /\ y.seen = served /\ y.hit = hit
        /\ y.answer = answer /\ y.facts = facts /\ y.recorded = NoAnswer
    BY <1>1 DEF TurnRecord, RecordInv, Reported
  <2>2. y.plan = NoPlan /\ y.calls = 0 /\ y.regenerated = FALSE /\ y.step = step
    BY <1>1 DEF TurnRecord, RecordInv, Counted, Planned
  <2>3. step \in {"failed", "grounded", "grounding"} /\ (step = "grounding" => hit = FALSE)
    OBVIOUS
  <2>4. (hit => answer = entry.answer) /\ (~hit => facts = {})
    OBVIOUS
  <2> HIDE DEF y, entry, hit, answer, facts, step
  <2>5. /\ y.step \notin {"generating", "regenerating", "drafted"}
        /\ y.step \notin {"criticising", "criticising again", "correcting", "rechecking"}
        /\ ~(y.calls > 0) /\ y.plan = NoPlan
    <3>1. y.step \notin {"generating", "regenerating", "drafted"}
      BY <2>2, <2>3
    <3>2. y.step \notin {"criticising", "criticising again", "correcting", "rechecking"}
      BY <2>2, <2>3
    <3>3. ~(y.calls > 0)
      BY <2>2
    <3> QED BY <2>2, <3>1, <3>2, <3>3
  <2>6. Sound(y)
    BY <2>2 DEF Sound, NoPlan
  <2>7. Counted(y) /\ Planned(y)
    <3>1. Counted(y)
      BY <2>2, <2>3 DEF Counted
    <3>2. Planned(y)
      BY <2>5, <2>6 DEF Planned
    <3> QED BY <3>1, <3>2
  <2>8. Answered(y)
    BY <2>1, <2>2, <2>3, <2>4, <1>4 DEF Answered
  <2>9. Screened(y) /\ Verified(y)
    BY <2>1, <2>2, <2>3, <2>4, <1>3 DEF Screened, Verified
  <2>10. Fresh(y) /\ Reported(y)
    BY <2>1, <2>2, <2>3, <2>4 DEF Fresh, Reported
  <2> QED BY <2>7, <2>8, <2>9, <2>10 DEF RecordInv
<1> HIDE DEF y
<1> QED BY <1>1, <1>5, <1>6, BecomesKeeps
-----------------------------------------------------------------------------
\* What a step in the middle of a turn carries over, whatever else it changes.
LEMMA Carried ==
  ASSUME NEW x \in TurnRecord, NEW y \in TurnRecord, RecordInv(x),
         x.step \notin {"idle", "settling", "done", "failed"},
         y.step \notin {"idle", "settling", "done"},
         y.request = x.request, y.hit = x.hit, y.facts = x.facts, y.plan = x.plan,
         y.seen = x.seen, y.recorded = x.recorded
  PROVE  /\ Sound(y) /\ Fresh(y) /\ Reported(y)
         /\ CriticDue(y) = CriticDue(x)
         /\ y.request \in Requests
<1>1. Sound(y)
  BY DEF RecordInv, Planned, Sound, Evidence, Has
<1>2. Fresh(y)
  BY DEF RecordInv, Fresh
<1>3. Reported(y)
  BY DEF RecordInv, Reported
<1>4. CriticDue(y) = CriticDue(x)
  BY DEF CriticDue
<1>5. y.request \in Requests
  BY DEF RecordInv, Answered
<1> QED BY <1>1, <1>2, <1>3, <1>4, <1>5

LEMMA GroundKeeps ==
  ASSUME TurnInv, NEW t \in ChatTurns, NEW points \in SUBSET LedgerClaims, Ground(t, points)
  PROVE  TurnInv'
<1> DEFINE x == chat[t]
           y == [x EXCEPT !.step = "grounded", !.facts = Revalidated(points)]
<1>1. x \in TurnRecord /\ RecordInv(x) /\ x.step = "grounding" /\ Becomes(t, y)
  BY RecordOf DEF Ground
<1> HIDE DEF x
<1>2. Revalidated(points) \subseteq LedgerClaims /\ Revalidated(points) \subseteq served
  BY DEF Revalidated
<1>3. y \in TurnRecord
  BY <1>1, <1>2 DEF TurnRecord, Steps
<1>4. /\ y.step = "grounded" /\ y.facts = Revalidated(points) /\ y.calls = x.calls
      /\ y.regenerated = x.regenerated /\ y.plan = x.plan /\ y.request = x.request
      /\ y.seen = x.seen /\ y.recorded = x.recorded /\ y.hit = x.hit
  BY <1>1 DEF TurnRecord
<1>5. x.plan = NoPlan /\ x.calls = 0 /\ x.regenerated = FALSE /\ x.hit = FALSE
      /\ x.request \in Requests
  BY <1>1 DEF RecordInv, Planned, Counted, Answered
<1>6. served \subseteq x.seen /\ x.recorded = NoAnswer
  BY <1>1 DEF RecordInv, Fresh, Reported
<1> HIDE DEF y
<1>7. RecordInv(y)
  <2>1. Counted(y)
    BY <1>4, <1>5 DEF Counted
  <2>2. Sound(y)
    BY <1>4, <1>5 DEF Sound, NoPlan
  <2>3. ~(y.calls > 0)
    BY <1>4, <1>5
  <2>4. Planned(y)
    BY <1>4, <1>5, <2>2, <2>3 DEF Planned
  <2>5. Answered(y)
    BY <1>4, <1>5 DEF Answered
  <2>6. Screened(y) /\ Verified(y)
    BY <1>4, <1>5 DEF Screened, Verified
  <2>7. Fresh(y) /\ Reported(y)
    BY <1>2, <1>4, <1>6 DEF Fresh, Reported
  <2> QED BY <2>1, <2>4, <2>5, <2>6, <2>7 DEF RecordInv
<1> QED BY <1>1, <1>3, <1>7, BecomesKeeps

\* The first rule of the policy that fits never lets a model work without evidence
\* outside small talk, or in a risky technical case without a review.
LEMMA PlanIsSound ==
  ASSUME NEW x \in TurnRecord, x.request \in Requests
  PROVE  LET plan == DecideExecution(x)
         IN /\ plan \in Plan
            /\ plan.model =>
                 /\ x.hit = FALSE
                 /\ Evidence(x) \/ x.request.route \in {"smalltalk", "intake"}
                 /\ Technical(x.request) /\ Has(x, "risk") => plan.review
            /\ plan.critic => plan.model
            /\ plan.class = "S0" /\ x.request.route = "knowledge" => Evidence(x) /\ plan.model
<1>1. x.request.route \in Routes /\ x.hit \in BOOLEAN
  BY TurnAssumption DEF TurnRecord, Request
<1>2. DecideExecution(x) \in Plan
  BY DEF DecideExecution, With, Without, Plan
<1>3. DecideExecution(x).model = TRUE =>
        /\ x.hit = FALSE
        /\ Evidence(x) \/ x.request.route \in {"smalltalk", "intake"}
        /\ Technical(x.request) /\ Has(x, "risk") => DecideExecution(x).review = TRUE
  BY <1>1 DEF DecideExecution, With, Without, Unsupported, Undecided, Technical, Has, Routes
<1>4. DecideExecution(x).critic = TRUE => DecideExecution(x).model = TRUE
  BY DEF DecideExecution, With, Without
<1>5. DecideExecution(x).class = "S0" /\ x.request.route = "knowledge" =>
        Evidence(x) /\ DecideExecution(x).model = TRUE
  BY <1>1 DEF DecideExecution, With, Without, Unsupported, Technical
<1>6. /\ DecideExecution(x).model \in BOOLEAN /\ DecideExecution(x).critic \in BOOLEAN
      /\ DecideExecution(x).review \in BOOLEAN
  BY <1>2 DEF Plan
<1> QED BY <1>2, <1>3, <1>4, <1>5, <1>6
LEMMA DecideKeeps ==
  ASSUME TurnInv, NEW t \in ChatTurns, Decide(t)
  PROVE  TurnInv'
<1> DEFINE x == chat[t]
           plan == DecideExecution(x)
           step == IF plan.model THEN "generating" ELSE "verifying"
           answer == IF plan.model \/ x.hit THEN x.answer ELSE Fixed(x, {})
           y == [x EXCEPT !.plan = plan, !.step = step, !.answer = answer]
<1>1. x \in TurnRecord /\ RecordInv(x) /\ x.step = "grounded" /\ Becomes(t, y)
  BY RecordOf DEF Decide
<1> HIDE DEF x
<1>2. /\ x.calls = 0 /\ x.regenerated = FALSE /\ x.request \in Requests
      /\ x.recorded = NoAnswer /\ (x.hit => x.answer \in Answer)
  BY <1>1 DEF RecordInv, Counted, Answered, Reported
<1>3. /\ plan \in Plan
      /\ plan.model =>
           /\ x.hit = FALSE
           /\ Evidence(x) \/ x.request.route \in {"smalltalk", "intake"}
           /\ Technical(x.request) /\ Has(x, "risk") => plan.review
      /\ plan.critic => plan.model
      /\ plan.class = "S0" /\ x.request.route = "knowledge" => Evidence(x) /\ plan.model
  BY <1>1, <1>2, PlanIsSound
<1>4. Fixed(x, {}) \in Answer
  BY <1>1 DEF Fixed, Answer, TurnRecord
<1>5. answer \in Answer \cup {NoAnswer} /\ step \in {"generating", "verifying"}
  BY <1>1, <1>4 DEF TurnRecord
<1>6. /\ step = "generating" => plan.model
      /\ step = "verifying" => answer \in Answer
      /\ x.hit => answer = x.answer \/ answer.by = "fixed"
  BY <1>2, <1>4
<1> HIDE DEF plan, step, answer
<1>7. y \in TurnRecord
  BY <1>1, <1>3, <1>5 DEF TurnRecord, Steps, Awaiting
<1>8. /\ y.step = step /\ y.plan = plan /\ y.answer = answer /\ y.calls = x.calls
      /\ y.regenerated = x.regenerated /\ y.request = x.request /\ y.facts = x.facts
      /\ y.seen = x.seen /\ y.recorded = x.recorded /\ y.hit = x.hit
  BY <1>1 DEF TurnRecord
<1> HIDE DEF y
<1>9. RecordInv(y)
  <2>1. Counted(y)
    BY <1>2, <1>5, <1>8 DEF Counted
  <2>2. Sound(y)
    BY <1>3, <1>8 DEF Sound, Evidence, Has
  <2>3. ~(y.calls > 0)
    BY <1>2, <1>8
  <2>4. Planned(y)
    BY <1>5, <1>6, <1>8, <2>2, <2>3 DEF Planned
  <2>5. Answered(y)
    BY <1>2, <1>5, <1>6, <1>8 DEF Answered
  <2>6. Screened(y) /\ Verified(y)
    BY <1>1, <1>5, <1>6, <1>8 DEF Screened, Verified, RecordInv
  <2>7. Fresh(y)
    BY <1>1, <1>5, <1>8 DEF Fresh, RecordInv
  <2>8. Reported(y)
    BY <1>2, <1>5, <1>8 DEF Reported
  <2> QED BY <2>1, <2>4, <2>5, <2>6, <2>7, <2>8 DEF RecordInv
<1> QED BY <1>1, <1>7, <1>9, BecomesKeeps

\* A generated text is the next one of its turn.
LEMMA DraftFits ==
  ASSUME NEW x \in TurnRecord, NEW faults \in DraftFaults, x.calls <= 2
  PROVE  Draft(x, faults) \in Answer /\ x.calls + 1 \in 0..3
<1>1. x.calls \in 0..3 /\ x.facts \in SUBSET LedgerClaims
  BY DEF TurnRecord
<1>2. faults \in SUBSET TextFaults
  BY TurnAssumption
<1>3. x.calls + 1 \in 0..3
  BY <1>1
<1> QED BY <1>1, <1>2, <1>3 DEF Draft, Answer

LEMMA GenerateKeeps ==
  ASSUME TurnInv, NEW t \in ChatTurns, NEW faults \in DraftFaults, Generate(t, faults)
  PROVE  TurnInv'
<1> DEFINE x == chat[t]
           y == [x EXCEPT !.step = "drafted", !.answer = Draft(x, faults),
                          !.calls = x.calls + 1, !.regenerated = (x.step = "regenerating")]
<1>1. x \in TurnRecord /\ RecordInv(x) /\ x.step \in {"generating", "regenerating"} /\ Becomes(t, y)
  BY RecordOf DEF Generate
<1> HIDE DEF x
<1>2. /\ x.step = "generating" => x.calls = 0
      /\ x.step = "regenerating" => x.calls = 1
      /\ x.plan.model
  BY <1>1 DEF RecordInv, Counted, Planned
<1>3. Draft(x, faults) \in Answer /\ x.calls + 1 \in 0..3
  BY <1>1, <1>2, DraftFits
<1>4. y \in TurnRecord
  BY <1>1, <1>3 DEF TurnRecord, Steps
<1>5. /\ y.step = "drafted" /\ y.answer = Draft(x, faults) /\ y.calls = x.calls + 1
      /\ y.plan = x.plan /\ y.request = x.request /\ y.facts = x.facts
      /\ y.seen = x.seen /\ y.recorded = x.recorded /\ y.hit = x.hit
  BY <1>1 DEF TurnRecord
<1>6. /\ x.step = "regenerating" => y.regenerated = TRUE
      /\ x.step = "generating" => y.regenerated = FALSE
  BY <1>1 DEF TurnRecord
<1> HIDE DEF y
<1>7. RecordInv(y)
  <2>1. Counted(y)
    BY <1>1, <1>2, <1>5, <1>6 DEF Counted
  <2>2. Sound(y) /\ Fresh(y) /\ Reported(y) /\ y.request \in Requests
    BY <1>1, <1>4, <1>5, Carried
  <2>3. Planned(y)
    BY <1>2, <1>5, <2>2 DEF Planned
  <2>4. Answered(y)
    BY <1>3, <1>5, <2>2 DEF Answered
  <2>5. Screened(y) /\ Verified(y)
    BY <1>5 DEF Screened, Verified
  <2> QED BY <2>1, <2>2, <2>3, <2>4, <2>5 DEF RecordInv
<1> QED BY <1>1, <1>4, <1>7, BecomesKeeps

LEMMA CorrectKeeps ==
  ASSUME TurnInv, NEW t \in ChatTurns, NEW faults \in DraftFaults, Correct(t, faults)
  PROVE  TurnInv'
<1> DEFINE x == chat[t]
           y == [x EXCEPT !.step = "rechecking", !.answer = Draft(x, faults),
                          !.calls = x.calls + 1]
<1>1. x \in TurnRecord /\ RecordInv(x) /\ x.step = "correcting" /\ Becomes(t, y)
  BY RecordOf DEF Correct
<1> HIDE DEF x
<1>2. x.calls <= 2 /\ CriticDue(x) /\ (x.plan.critic => x.plan.model)
  BY <1>1 DEF RecordInv, Counted, Planned, Sound
<1>3. Draft(x, faults) \in Answer /\ x.calls + 1 \in 0..3
  BY <1>1, <1>2, DraftFits
<1>4. y \in TurnRecord
  BY <1>1, <1>3 DEF TurnRecord, Steps, Awaiting
<1>5. /\ y.step = "rechecking" /\ y.answer = Draft(x, faults) /\ y.calls = x.calls + 1
      /\ y.plan = x.plan /\ y.request = x.request /\ y.facts = x.facts
      /\ y.seen = x.seen /\ y.recorded = x.recorded /\ y.hit = x.hit
  BY <1>1 DEF TurnRecord
<1> HIDE DEF y
<1>6. RecordInv(y)
  <2>1. Counted(y)
    BY <1>5 DEF Counted
  <2>2. Sound(y) /\ Fresh(y) /\ Reported(y) /\ y.request \in Requests /\ CriticDue(y) = CriticDue(x)
    BY <1>1, <1>4, <1>5, Carried
  <2>3. Planned(y)
    BY <1>2, <1>5, <2>2 DEF Planned, CriticDue
  <2>4. Answered(y)
    BY <1>3, <1>5, <2>2 DEF Answered
  <2>5. Screened(y) /\ Verified(y)
    BY <1>5 DEF Screened, Verified
  <2> QED BY <2>1, <2>2, <2>3, <2>4, <2>5 DEF RecordInv
<1> QED BY <1>1, <1>4, <1>6, BecomesKeeps
LEMMA FallbackFits ==
  ASSUME NEW x \in TurnRecord, NEW value \in BOOLEAN
  PROVE  /\ Fallback(x, value) \in Answer /\ Fallback(x, value).by = "fallback"
         /\ Fallback(x, value).faults \cap {"contract", "leak"} = {}
BY DEF Fallback, Answer, TurnRecord, TextFaults

\* A draft goes on to verification, to a regeneration, or is replaced.
LEMMA ReviewDraftKeeps ==
  ASSUME TurnInv, NEW t \in ChatTurns, NEW value \in BOOLEAN, ReviewDraft(t, value)
  PROVE  TurnInv'
<1> DEFINE x == chat[t]
           passed == [x EXCEPT !.step = "verifying", !.mapped = Mapped(x)]
           again == [x EXCEPT !.step = "regenerating"]
           replaced == [x EXCEPT !.step = "verifying", !.answer = Fallback(x, value),
                                 !.mapped = Mapped(x), !.hedged = TRUE]
<1>1. x \in TurnRecord /\ RecordInv(x) /\ x.step = "drafted"
  BY RecordOf DEF ReviewDraft
<1>2. \/ Becomes(t, passed)
      \/ x.regenerated = FALSE /\ Becomes(t, again)
      \/ Becomes(t, replaced)
  BY <1>1 DEF ReviewDraft, TurnRecord
<1> HIDE DEF x
<1>3. /\ x.calls = (IF x.regenerated THEN 2 ELSE 1)
      /\ x.plan.model /\ (x.plan.model => x.hit = FALSE) /\ x.answer \in Answer
  BY <1>1 DEF RecordInv, Counted, Planned, Sound, Answered
<1>4. Mapped(x) \in Answer \cup {NoAnswer}
  BY <1>3 DEF Mapped
<1>5. ASSUME NEW y \in TurnRecord, y.step = "verifying", y.answer \in Answer, y.calls = x.calls,
             y.plan = x.plan, y.request = x.request, y.facts = x.facts, y.seen = x.seen,
             y.recorded = x.recorded, y.hit = x.hit
      PROVE  RecordInv(y)
  <2>1. Counted(y)
    BY <1>3, <1>5 DEF Counted
  <2>2. Sound(y) /\ Fresh(y) /\ Reported(y) /\ y.request \in Requests
    BY <1>1, <1>5, Carried
  <2>3. Planned(y)
    BY <1>3, <1>5, <2>2 DEF Planned
  <2>4. Answered(y)
    BY <1>5, <2>2 DEF Answered
  <2>5. Screened(y) /\ Verified(y)
    BY <1>3, <1>5 DEF Screened, Verified
  <2> QED BY <2>1, <2>2, <2>3, <2>4, <2>5 DEF RecordInv
<1>6. CASE Becomes(t, passed)
  <2>1. passed \in TurnRecord
    BY <1>1, <1>4 DEF TurnRecord, Steps
  <2>2. /\ passed.step = "verifying" /\ passed.answer = x.answer /\ passed.calls = x.calls
        /\ passed.plan = x.plan /\ passed.request = x.request /\ passed.facts = x.facts
        /\ passed.seen = x.seen /\ passed.recorded = x.recorded /\ passed.hit = x.hit
    BY <1>1 DEF TurnRecord
  <2> HIDE DEF passed
  <2>3. RecordInv(passed)
    BY <1>3, <1>5, <2>1, <2>2
  <2> QED BY <1>6, <2>1, <2>3, BecomesKeeps
<1>7. CASE Becomes(t, replaced)
  <2>1. Fallback(x, value) \in Answer
    BY <1>1, FallbackFits
  <2>2. replaced \in TurnRecord
    BY <1>1, <1>4, <2>1 DEF TurnRecord, Steps
  <2>3. /\ replaced.step = "verifying" /\ replaced.answer = Fallback(x, value)
        /\ replaced.calls = x.calls /\ replaced.plan = x.plan /\ replaced.request = x.request
        /\ replaced.facts = x.facts /\ replaced.seen = x.seen
        /\ replaced.recorded = x.recorded /\ replaced.hit = x.hit
    BY <1>1 DEF TurnRecord
  <2> HIDE DEF replaced
  <2>4. RecordInv(replaced)
    BY <1>5, <2>1, <2>2, <2>3
  <2> QED BY <1>7, <2>2, <2>4, BecomesKeeps
<1>8. CASE x.regenerated = FALSE /\ Becomes(t, again)
  <2>1. again \in TurnRecord
    BY <1>1 DEF TurnRecord, Steps, Awaiting
  <2>2. /\ again.step = "regenerating" /\ again.answer = x.answer /\ again.calls = x.calls
        /\ again.plan = x.plan /\ again.request = x.request /\ again.facts = x.facts
        /\ again.seen = x.seen /\ again.recorded = x.recorded /\ again.hit = x.hit
    BY <1>1 DEF TurnRecord
  <2> HIDE DEF again
  <2>3. Counted(again)
    BY <1>3, <1>8, <2>2 DEF Counted
  <2>4. Sound(again) /\ Fresh(again) /\ Reported(again) /\ again.request \in Requests
    BY <1>1, <2>1, <2>2, Carried
  <2>5. Planned(again)
    BY <1>3, <2>2, <2>4 DEF Planned
  <2>6. Answered(again)
    BY <1>3, <2>2, <2>4 DEF Answered
  <2>7. Screened(again) /\ Verified(again)
    BY <2>2 DEF Screened, Verified
  <2>8. RecordInv(again)
    BY <2>3, <2>4, <2>5, <2>6, <2>7 DEF RecordInv
  <2> QED BY <1>8, <2>1, <2>8, BecomesKeeps
<1> QED BY <1>2, <1>6, <1>7, <1>8

-----------------------------------------------------------------------------
\* A turn that is verified: its text is made, and no guard of the end has seen it.
InVerification(x) ==
  x.step \in {"verifying", "criticising", "criticising again", "rechecking"}

LEMMA FixedFits ==
  ASSUME NEW x \in TurnRecord, NEW clause \in BOOLEAN
  PROVE  /\ Fixed(x, Clause(clause)) \in Answer /\ Fixed(x, Clause(clause)).by = "fixed"
         /\ "leak" \notin Fixed(x, Clause(clause)).faults
BY DEF Fixed, Clause, Answer, TurnRecord, TextFaults

\* Every hedge leads to the last guards.
LEMMA HedgeFits ==
  ASSUME NEW x \in TurnRecord, RecordInv(x), InVerification(x), NEW clause \in BOOLEAN
  PROVE  Hedge(x, clause) \in TurnRecord /\ RecordInv(Hedge(x, clause))
<1> DEFINE y == Hedge(x, clause)
<1>1. Fixed(x, Clause(clause)) \in Answer /\ Fixed(x, Clause(clause)).by = "fixed"
  BY FixedFits
<1>2. y \in TurnRecord
  BY <1>1 DEF Hedge, TurnRecord, Steps
<1>3. /\ y.step = "closing" /\ y.answer = Fixed(x, Clause(clause)) /\ y.calls = x.calls
      /\ y.plan = x.plan /\ y.request = x.request /\ y.facts = x.facts
      /\ y.seen = x.seen /\ y.recorded = x.recorded /\ y.hit = x.hit
  BY DEF Hedge, TurnRecord
<1> HIDE DEF y
<1>4. Counted(y)
  BY <1>3 DEF Counted
<1>5. Sound(y) /\ Fresh(y) /\ Reported(y) /\ y.request \in Requests
  BY <1>2, <1>3, Carried DEF InVerification
<1>6. Planned(y)
  <2>1. x.calls > 0 => x.plan.model
    BY DEF RecordInv, Planned
  <2> QED BY <1>3, <1>5, <2>1 DEF Planned
<1>7. Answered(y)
  BY <1>1, <1>3, <1>5 DEF Answered
<1>8. Screened(y) /\ Verified(y)
  BY <1>1, <1>3 DEF Screened, Verified
<1>9. RecordInv(y)
  BY <1>4, <1>5, <1>6, <1>7, <1>8 DEF RecordInv
<1> QED BY <1>2, <1>9 DEF y

\* A text that the checks let pass goes to the last guards as it is.
LEMMA PassingFits ==
  ASSUME NEW x \in TurnRecord, RecordInv(x), InVerification(x), ~Parametric(x),
         x.hit => x.step = "verifying",
         CriticDue(x) => x.verdict.draft = x.answer.draft /\ x.verdict.result # "trap"
  PROVE  /\ [x EXCEPT !.step = "closing"] \in TurnRecord
         /\ RecordInv([x EXCEPT !.step = "closing"])
<1> DEFINE y == [x EXCEPT !.step = "closing"]
<1>1. y \in TurnRecord
  BY DEF TurnRecord, Steps
<1>2. /\ y.step = "closing" /\ y.answer = x.answer /\ y.calls = x.calls
      /\ y.plan = x.plan /\ y.request = x.request /\ y.facts = x.facts
      /\ y.seen = x.seen /\ y.recorded = x.recorded /\ y.hit = x.hit /\ y.verdict = x.verdict
  BY DEF TurnRecord
<1> HIDE DEF y
<1>3. Counted(y)
  BY <1>2 DEF Counted
<1>4. /\ Sound(y) /\ Fresh(y) /\ Reported(y) /\ y.request \in Requests
      /\ CriticDue(y) = CriticDue(x)
  BY <1>1, <1>2, Carried DEF InVerification
<1>5. Planned(y)
  <2>1. x.calls > 0 => x.plan.model
    BY DEF RecordInv, Planned
  <2> QED BY <1>2, <1>4, <2>1 DEF Planned
<1>6. Answered(y)
  BY <1>2, <1>4 DEF RecordInv, Answered, InVerification
<1>7. Screened(y)
  <2>1. x.hit /\ x.answer.by # "fixed" => "contract" \notin x.answer.faults
    BY DEF RecordInv, Screened
  <2> QED BY <1>2, <2>1 DEF Screened, Parametric
<1>8. Verified(y)
  BY <1>2, <1>4 DEF Verified
<1>9. RecordInv(y)
  BY <1>3, <1>4, <1>5, <1>6, <1>7, <1>8 DEF RecordInv
<1> QED BY <1>1, <1>9 DEF y
\* Where the critic is due, a text may go to it and to a correction.
LEMMA CriticFits ==
  ASSUME NEW x \in TurnRecord, RecordInv(x), CriticDue(x),
         x.step \in {"verifying", "criticising", "criticising again"},
         NEW s \in {"criticising", "criticising again", "correcting"}
  PROVE  [x EXCEPT !.step = s] \in TurnRecord /\ RecordInv([x EXCEPT !.step = s])
<1> DEFINE y == [x EXCEPT !.step = s]
<1>1. y \in TurnRecord
  BY DEF TurnRecord, Steps, Awaiting
<1>2. /\ y.step = s /\ y.answer = x.answer /\ y.calls = x.calls
      /\ y.plan = x.plan /\ y.request = x.request /\ y.facts = x.facts
      /\ y.seen = x.seen /\ y.recorded = x.recorded /\ y.hit = x.hit
  BY DEF TurnRecord
<1> HIDE DEF y
<1>3. Counted(y)
  BY <1>2 DEF RecordInv, Counted
<1>4. /\ Sound(y) /\ Fresh(y) /\ Reported(y) /\ y.request \in Requests
      /\ CriticDue(y) = CriticDue(x)
  BY <1>1, <1>2, Carried
<1>5. Planned(y)
  <2>1. x.calls > 0 => x.plan.model
    BY DEF RecordInv, Planned
  <2> QED BY <1>2, <1>4, <2>1 DEF Planned
<1>6. Answered(y)
  BY <1>2, <1>4 DEF RecordInv, Answered
<1>7. Screened(y) /\ Verified(y)
  BY <1>2 DEF Screened, Verified
<1>8. RecordInv(y)
  BY <1>3, <1>4, <1>5, <1>6, <1>7 DEF RecordInv
<1> QED BY <1>1, <1>8 DEF y

LEMMA VerifyKeeps ==
  ASSUME TurnInv, NEW t \in ChatTurns, NEW clause \in BOOLEAN, Verify(t, clause)
  PROVE  TurnInv'
<1> DEFINE x == chat[t]
<1>1. x \in TurnRecord /\ RecordInv(x) /\ x.step = "verifying"
  BY RecordOf DEF Verify
<1>2. \/ Becomes(t, Hedge(x, clause))
      \/ CriticDue(x) /\ Becomes(t, [x EXCEPT !.step = "criticising"])
      \/ ~CriticDue(x) /\ ~Parametric(x) /\ Becomes(t, [x EXCEPT !.step = "closing"])
  <2>1. CASE CriticDue(x)
    BY <2>1 DEF Verify
  <2>2. CASE ~CriticDue(x)
    BY <2>2 DEF Verify
  <2> QED BY <2>1, <2>2
<1> HIDE DEF x
<1>3. InVerification(x)
  BY <1>1 DEF InVerification
<1>4. CASE Becomes(t, Hedge(x, clause))
  BY <1>1, <1>3, <1>4, HedgeFits, BecomesKeeps
<1>5. CASE CriticDue(x) /\ Becomes(t, [x EXCEPT !.step = "criticising"])
  <2>1. [x EXCEPT !.step = "criticising"] \in TurnRecord /\ RecordInv([x EXCEPT !.step = "criticising"])
    BY <1>1, <1>5, CriticFits
  <2> QED BY <1>5, <2>1, BecomesKeeps
<1>6. CASE ~CriticDue(x) /\ ~Parametric(x) /\ Becomes(t, [x EXCEPT !.step = "closing"])
  <2>1. [x EXCEPT !.step = "closing"] \in TurnRecord /\ RecordInv([x EXCEPT !.step = "closing"])
    BY <1>1, <1>3, <1>6, PassingFits
  <2> QED BY <1>6, <2>1, BecomesKeeps
<1> QED BY <1>2, <1>4, <1>5, <1>6

\* The number of the call that made a text, 0 where no call did.
LEMMA DraftNumber ==
  ASSUME NEW x \in TurnRecord
  PROVE  x.answer.draft \in 0..3
<1>1. x.answer \in Answer \/ x.answer = NoAnswer
  BY DEF TurnRecord
<1>2. \A a \in Answer : a.draft \in 0..3
  BY DEF Answer
<1>3. NoAnswer.draft = 0 /\ 0 \in 0..3
  BY DEF NoAnswer
<1> QED BY <1>1, <1>2, <1>3

\* A verdict is noted beside the text it is about and changes nothing else.
LEMMA JudgedFits ==
  ASSUME NEW x \in TurnRecord, RecordInv(x), NEW v \in CriticVerdicts,
         x.step \in {"criticising", "criticising again", "rechecking"}
  PROVE  /\ Judged(x, v) \in TurnRecord /\ RecordInv(Judged(x, v))
         /\ Judged(x, v).step = x.step /\ Judged(x, v).answer = x.answer
         /\ Judged(x, v).verdict.draft = x.answer.draft /\ Judged(x, v).verdict.result = v
         /\ CriticDue(Judged(x, v)) /\ Judged(x, v).hit = FALSE
<1> DEFINE y == Judged(x, v)
<1>1. x.answer.draft \in 0..3
  BY DraftNumber
<1>2. y \in TurnRecord
  BY <1>1 DEF Judged, TurnRecord
<1>3. /\ y.step = x.step /\ y.answer = x.answer /\ y.calls = x.calls
      /\ y.plan = x.plan /\ y.request = x.request /\ y.facts = x.facts
      /\ y.seen = x.seen /\ y.recorded = x.recorded /\ y.hit = x.hit
  BY DEF Judged, TurnRecord
<1>11. y.verdict.draft = x.answer.draft /\ y.verdict.result = v
  BY DEF Judged, TurnRecord
<1> HIDE DEF y
<1>4. CriticDue(x) /\ x.hit = FALSE
  <2>1. CriticDue(x) /\ (x.plan.critic => x.plan.model) /\ (x.plan.model => x.hit = FALSE)
    BY DEF RecordInv, Planned, Sound
  <2> QED BY <2>1 DEF CriticDue
<1>5. Counted(y)
  BY <1>3 DEF RecordInv, Counted
<1>6. /\ Sound(y) /\ Fresh(y) /\ Reported(y) /\ y.request \in Requests
      /\ CriticDue(y) = CriticDue(x)
  BY <1>2, <1>3, Carried
<1>7. Planned(y)
  <2>1. x.calls > 0 => x.plan.model
    BY DEF RecordInv, Planned
  <2> QED BY <1>3, <1>4, <1>6, <2>1 DEF Planned
<1>8. Answered(y)
  BY <1>3, <1>6 DEF RecordInv, Answered
<1>9. Screened(y) /\ Verified(y)
  BY <1>3 DEF Screened, Verified
<1>10. RecordInv(y)
  BY <1>5, <1>6, <1>7, <1>8, <1>9 DEF RecordInv
<1>12. CriticDue(y) /\ y.hit = FALSE
  BY <1>3, <1>4, <1>6
<1>13. y.step = x.step /\ y.answer = x.answer
  BY <1>3
<1> QED BY <1>2, <1>10, <1>11, <1>12, <1>13 DEF y

LEMMA CriticiseKeeps ==
  ASSUME TurnInv, NEW t \in ChatTurns, NEW v \in CriticVerdicts,
         NEW noted \in BOOLEAN, NEW clause \in BOOLEAN, Criticise(t, v, noted, clause)
  PROVE  TurnInv'
<1> DEFINE w == chat[t]
           x == Judged(w, v)
<1>1. /\ w \in TurnRecord /\ RecordInv(w)
      /\ w.step \in {"criticising", "criticising again"}
  <2>1. w \in TurnRecord /\ RecordInv(w)
    BY RecordOf
  <2>2. x.step = w.step
    BY <2>1 DEF Judged, TurnRecord
  <2> QED BY <2>1, <2>2 DEF Criticise
<1>2. /\ x \in TurnRecord /\ RecordInv(x) /\ x.step \in {"criticising", "criticising again"}
      /\ x.verdict.draft = x.answer.draft /\ x.verdict.result = v
      /\ CriticDue(x) /\ x.hit = FALSE
  <2> HIDE DEF w
  <2>1. w.step \in {"criticising", "criticising again", "rechecking"}
    BY <1>1
  <2>2. /\ x \in TurnRecord /\ RecordInv(x) /\ x.step = w.step
        /\ x.verdict.draft = w.answer.draft /\ x.answer = w.answer /\ x.verdict.result = v
        /\ CriticDue(x) /\ x.hit = FALSE
    BY <1>1, <2>1, JudgedFits
  <2> QED BY <1>1, <2>2
<1>3. \/ Becomes(t, [x EXCEPT !.step = "criticising again"])
      \/ v # "trap" /\ ~Parametric(x) /\ Becomes(t, [x EXCEPT !.step = "closing"])
      \/ Becomes(t, Hedge(x, clause))
      \/ Becomes(t, [x EXCEPT !.step = "correcting"])
  BY DEF Criticise
<1> HIDE DEF x
<1>4. InVerification(x)
  BY <1>2 DEF InVerification
<1>5. CASE Becomes(t, [x EXCEPT !.step = "criticising again"])
  <2>1. /\ [x EXCEPT !.step = "criticising again"] \in TurnRecord
        /\ RecordInv([x EXCEPT !.step = "criticising again"])
    BY <1>2, CriticFits
  <2> QED BY <1>5, <2>1, BecomesKeeps
<1>6. CASE v # "trap" /\ ~Parametric(x) /\ Becomes(t, [x EXCEPT !.step = "closing"])
  <2>1. x.verdict.draft = x.answer.draft /\ x.verdict.result # "trap"
    BY <1>2, <1>6
  <2>2. [x EXCEPT !.step = "closing"] \in TurnRecord /\ RecordInv([x EXCEPT !.step = "closing"])
    BY <1>2, <1>4, <1>6, <2>1, PassingFits
  <2> QED BY <1>6, <2>2, BecomesKeeps
<1>7. CASE Becomes(t, Hedge(x, clause))
  BY <1>2, <1>4, <1>7, HedgeFits, BecomesKeeps
<1>8. CASE Becomes(t, [x EXCEPT !.step = "correcting"])
  <2>1. [x EXCEPT !.step = "correcting"] \in TurnRecord /\ RecordInv([x EXCEPT !.step = "correcting"])
    BY <1>2, CriticFits
  <2> QED BY <1>8, <2>1, BecomesKeeps
<1> QED BY <1>3, <1>5, <1>6, <1>7, <1>8

LEMMA RecheckKeeps ==
  ASSUME TurnInv, NEW t \in ChatTurns, NEW v \in CriticVerdicts, NEW clause \in BOOLEAN,
         Recheck(t, v, clause)
  PROVE  TurnInv'
<1> DEFINE w == chat[t]
           x == Judged(w, v)
<1>1. /\ w \in TurnRecord /\ RecordInv(w) /\ w.step = "rechecking"
  <2>1. w \in TurnRecord /\ RecordInv(w)
    BY RecordOf
  <2>2. x.step = w.step
    BY <2>1 DEF Judged, TurnRecord
  <2> QED BY <2>1, <2>2 DEF Recheck
<1>2. /\ x \in TurnRecord /\ RecordInv(x) /\ x.step = "rechecking"
      /\ x.verdict.draft = x.answer.draft /\ x.verdict.result = v /\ x.hit = FALSE
  <2> HIDE DEF w
  <2>1. w.step \in {"criticising", "criticising again", "rechecking"}
    BY <1>1
  <2>2. /\ x \in TurnRecord /\ RecordInv(x) /\ x.step = w.step
        /\ x.verdict.draft = w.answer.draft /\ x.answer = w.answer /\ x.verdict.result = v
        /\ CriticDue(x) /\ x.hit = FALSE
    BY <1>1, <2>1, JudgedFits
  <2> QED BY <1>1, <2>2
<1>3. \/ Becomes(t, Hedge(x, clause))
      \/ v # "trap" /\ ~Parametric(x) /\ Becomes(t, [x EXCEPT !.step = "closing"])
  BY DEF Recheck
<1> HIDE DEF x
<1>4. InVerification(x)
  BY <1>2 DEF InVerification
<1>5. CASE Becomes(t, Hedge(x, clause))
  BY <1>2, <1>4, <1>5, HedgeFits, BecomesKeeps
<1>6. CASE v # "trap" /\ ~Parametric(x) /\ Becomes(t, [x EXCEPT !.step = "closing"])
  <2>1. x.verdict.draft = x.answer.draft /\ x.verdict.result # "trap"
    BY <1>2, <1>6
  <2>2. [x EXCEPT !.step = "closing"] \in TurnRecord /\ RecordInv([x EXCEPT !.step = "closing"])
    BY <1>2, <1>4, <1>6, <2>1, PassingFits
  <2> QED BY <1>6, <2>2, BecomesKeeps
<1> QED BY <1>3, <1>5, <1>6
-----------------------------------------------------------------------------
LEMMA SettleKeeps ==
  ASSUME TurnInv, NEW t \in ChatTurns, Settle(t)
  PROVE  TurnInv'
<1> DEFINE x == chat[t]
           y == [x EXCEPT !.step = "done"]
<1>1. x \in TurnRecord /\ RecordInv(x) /\ x.step = "settling" /\ Becomes(t, y)
  BY RecordOf DEF Settle
<1> HIDE DEF x
<1>2. y \in TurnRecord
  BY <1>1 DEF TurnRecord, Steps
<1>3. /\ y.step = "done" /\ y.answer = x.answer /\ y.calls = x.calls
      /\ y.plan = x.plan /\ y.request = x.request /\ y.facts = x.facts
      /\ y.seen = x.seen /\ y.recorded = x.recorded /\ y.hit = x.hit
      /\ y.mapped = x.mapped /\ y.verdict = x.verdict
  BY <1>1 DEF TurnRecord
<1> HIDE DEF y
<1>4. RecordInv(y)
  <2>1. Counted(y)
    BY <1>3 DEF Counted
  <2>2. Sound(y)
    BY <1>1, <1>3 DEF RecordInv, Planned, Sound, Evidence, Has
  <2>3. Planned(y)
    <3>1. x.calls > 0 => x.plan.model
      BY <1>1 DEF RecordInv, Planned
    <3> QED BY <1>3, <2>2, <3>1 DEF Planned
  <2>4. Answered(y)
    BY <1>1, <1>3 DEF RecordInv, Answered
  <2>5. Screened(y)
    BY <1>1, <1>3 DEF RecordInv, Screened, Guarded, Contract, Evidence, Has
  <2>6. Verified(y)
    BY <1>1, <1>3 DEF RecordInv, Verified, CriticDue
  <2>7. Fresh(y)
    BY <1>1, <1>3 DEF RecordInv, Fresh
  <2>8. Reported(y)
    BY <1>1, <1>3 DEF RecordInv, Reported
  <2> QED BY <2>1, <2>3, <2>4, <2>5, <2>6, <2>7, <2>8 DEF RecordInv
<1> QED BY <1>1, <1>2, <1>4, BecomesKeeps

LEMMA AbortKeeps ==
  ASSUME TurnInv, NEW t \in ChatTurns, Abort(t)
  PROVE  TurnInv'
<1> DEFINE x == chat[t]
           y == [x EXCEPT !.step = "failed"]
<1>1. x \in TurnRecord /\ RecordInv(x) /\ x.step \in Awaiting /\ Becomes(t, y)
  BY RecordOf DEF Abort
<1> HIDE DEF x
<1>2. y \in TurnRecord
  BY <1>1 DEF TurnRecord, Steps
<1>3. /\ y.step = "failed" /\ y.answer = x.answer /\ y.calls = x.calls
      /\ y.plan = x.plan /\ y.request = x.request /\ y.facts = x.facts
      /\ y.seen = x.seen /\ y.recorded = x.recorded /\ y.hit = x.hit
  BY <1>1 DEF TurnRecord
<1>4. x.step # "idle"
  BY <1>1 DEF Awaiting
<1> HIDE DEF y
<1>5. RecordInv(y)
  <2>1. Counted(y)
    BY <1>3 DEF Counted
  <2>2. Sound(y)
    BY <1>1, <1>3 DEF RecordInv, Planned, Sound, Evidence, Has
  <2>3. Planned(y)
    <3>1. x.calls > 0 => x.plan.model
      BY <1>1 DEF RecordInv, Planned
    <3> QED BY <1>3, <2>2, <3>1 DEF Planned
  <2>4. Answered(y)
    BY <1>1, <1>3, <1>4 DEF RecordInv, Answered
  <2>5. Screened(y) /\ Verified(y)
    BY <1>3 DEF Screened, Verified
  <2>6. Fresh(y)
    BY <1>1, <1>3, <1>4 DEF RecordInv, Fresh
  <2>7. Reported(y)
    BY <1>3 DEF Reported
  <2> QED BY <2>1, <2>3, <2>4, <2>5, <2>6, <2>7 DEF RecordInv
<1> QED BY <1>1, <1>2, <1>5, BecomesKeeps

LEMMA IdleFits == Idle \in TurnRecord /\ RecordInv(Idle)
<1>1. Idle \in TurnRecord
  BY DEF Idle, TurnRecord, Steps
<1>2. /\ Idle.step = "idle" /\ Idle.plan = NoPlan /\ Idle.calls = 0 /\ Idle.regenerated = FALSE
      /\ Idle.facts = {} /\ Idle.recorded = NoAnswer /\ Idle.hit = FALSE
  BY DEF Idle
<1>3. Counted(Idle)
  BY <1>2 DEF Counted
<1>4. Sound(Idle)
  BY <1>2 DEF Sound, NoPlan
<1>5. ~(Idle.calls > 0)
  BY <1>2
<1>6. Planned(Idle)
  BY <1>2, <1>4, <1>5 DEF Planned
<1>7. Answered(Idle) /\ Screened(Idle) /\ Verified(Idle)
  BY <1>2 DEF Answered, Screened, Verified
<1>8. Fresh(Idle) /\ Reported(Idle)
  BY <1>2 DEF Fresh, Reported
<1> QED BY <1>1, <1>3, <1>6, <1>7, <1>8 DEF RecordInv

LEMMA LeaveKeeps ==
  ASSUME TurnInv, NEW t \in ChatTurns, Leave(t)
  PROVE  TurnInv'
BY IdleFits, BecomesKeeps DEF Leave

\* The last guards: what is shown afterwards leaks nothing, keeps to the contract
\* where there is one, and the mappings are its own.
LEMMA ClosedFits ==
  ASSUME NEW x \in TurnRecord, RecordInv(x), x.step = "closing",
         NEW clause \in BOOLEAN, NEW value \in BOOLEAN
  PROVE  LET y == Closed(x, clause, value)
         IN /\ y \in TurnRecord
            /\ /\ y.plan = x.plan /\ y.request = x.request /\ y.facts = x.facts
               /\ y.seen = x.seen /\ y.recorded = x.recorded /\ y.hit = x.hit
               /\ y.verdict = x.verdict /\ y.calls = x.calls
            /\ y.answer \in Answer
            /\ y.answer = x.answer \/ y.answer.by # "model"
            /\ "leak" \notin y.answer.faults
            /\ Guarded(y) => "contract" \notin y.answer.faults
            /\ y.hit /\ y.answer.by # "fixed" => "contract" \notin y.answer.faults
            /\ y.mapped # NoAnswer => y.mapped = y.answer
<1> DEFINE o == Overridden(x, clause)
           w == WithoutLeak(o, clause)
           y == FinalGuard(w, Leaks(o), value)
<1>1. x.answer \in Answer
  BY DEF RecordInv, Answered
<1>2. /\ o \in TurnRecord /\ o.plan = x.plan /\ o.request = x.request /\ o.facts = x.facts
      /\ o.seen = x.seen /\ o.recorded = x.recorded /\ o.hit = x.hit
      /\ o.verdict = x.verdict /\ o.calls = x.calls /\ o.answer \in Answer
      /\ o.answer = x.answer \/ o.answer.by = "fixed"
  <2>1. CASE Has(x, "override")
    <3>1. /\ Fixed(x, Clause(clause)) \in Answer /\ Fixed(x, Clause(clause)).by = "fixed"
      BY FixedFits
    <3>2. o = [x EXCEPT !.answer = Fixed(x, Clause(clause))]
      BY <2>1 DEF Overridden
    <3> QED BY <3>1, <3>2 DEF TurnRecord
  <2>2. CASE ~Has(x, "override")
    BY <1>1, <2>2 DEF Overridden
  <2> QED BY <2>1, <2>2
<1> HIDE DEF o
<1>3. /\ w \in TurnRecord /\ w.plan = x.plan /\ w.request = x.request /\ w.facts = x.facts
      /\ w.seen = x.seen /\ w.recorded = x.recorded /\ w.hit = x.hit
      /\ w.verdict = x.verdict /\ w.calls = x.calls /\ w.answer \in Answer
      /\ w.answer = x.answer \/ w.answer.by = "fixed"
      /\ "leak" \notin w.answer.faults
  <2>1. CASE Leaks(o)
    <3>1. /\ Fixed(o, Clause(clause)) \in Answer /\ Fixed(o, Clause(clause)).by = "fixed"
          /\ "leak" \notin Fixed(o, Clause(clause)).faults
      BY <1>2, FixedFits
    <3>2. w = [o EXCEPT !.answer = Fixed(o, Clause(clause))]
      BY <2>1 DEF WithoutLeak
    <3> QED BY <1>2, <3>1, <3>2 DEF TurnRecord
  <2>2. CASE ~Leaks(o)
    BY <1>2, <2>2 DEF WithoutLeak, Leaks
  <2> QED BY <2>1, <2>2
<1> HIDE DEF w
<1>4. /\ Fallback(w, value) \in Answer /\ Fallback(w, value).by = "fallback"
      /\ Fallback(w, value).faults \cap {"contract", "leak"} = {}
  BY <1>3, FallbackFits
<1>5. FinalMapping(w, Leaks(o)) \in {w.answer, NoAnswer}
      /\ (Blocked(w) => FinalMapping(w, Leaks(o)) = NoAnswer)
  BY DEF FinalMapping, Mapped
<1>6. y \in TurnRecord
  BY <1>3, <1>4, <1>5 DEF FinalGuard, TurnRecord
<1>7. /\ y.plan = x.plan /\ y.request = x.request /\ y.facts = x.facts
      /\ y.seen = x.seen /\ y.recorded = x.recorded /\ y.hit = x.hit
      /\ y.verdict = x.verdict /\ y.calls = x.calls
      /\ y.answer = (IF Blocked(w) THEN Fallback(w, value) ELSE w.answer)
      /\ y.mapped = FinalMapping(w, Leaks(o))
  BY <1>3 DEF FinalGuard, TurnRecord
<1>8. Guarded(y) = Guarded(w)
  BY <1>3, <1>7 DEF Guarded, Contract, Evidence, Has
<1>9. Blocked(w) => x.plan.model /\ x.hit = FALSE
  BY <1>3 DEF Blocked, Guarded, RecordInv, Planned, Sound
<1>10. x.hit /\ x.answer.by # "fixed" => "contract" \notin x.answer.faults
  BY DEF RecordInv, Screened
<1>11. Closed(x, clause, value) = y
  BY DEF Closed, o, w
<1> HIDE DEF y
<1>12. CASE Blocked(w)
  <2>1. y.answer = Fallback(w, value) /\ y.mapped = NoAnswer
    BY <1>5, <1>7, <1>12
  <2> QED BY <1>4, <1>6, <1>7, <1>9, <1>11, <1>12, <2>1
<1>13. CASE ~Blocked(w)
  <2>1. y.answer = w.answer
    BY <1>7, <1>13
  <2>2. Guarded(y) => "contract" \notin y.answer.faults
    BY <1>8, <1>13, <2>1 DEF Blocked
  <2>3. y.hit /\ y.answer.by # "fixed" => "contract" \notin y.answer.faults
    BY <1>3, <1>7, <1>10, <2>1
  <2>4. y.mapped # NoAnswer => y.mapped = y.answer
    BY <1>5, <1>7, <2>1
  <2>5. y.answer \in Answer /\ (y.answer = x.answer \/ y.answer.by # "model")
        /\ "leak" \notin y.answer.faults
    BY <1>3, <2>1
  <2> QED BY <1>6, <1>7, <1>11, <2>2, <2>3, <2>4, <2>5
<1> QED BY <1>12, <1>13
LEMMA CloseKeeps ==
  ASSUME TurnInv, NEW t \in ChatTurns, NEW clause \in BOOLEAN, NEW value \in BOOLEAN,
         NEW accepted \in BOOLEAN, Close(t, clause, value, accepted)
  PROVE  TurnInv'
<1> DEFINE x == chat[t]
           y == Closed(x, clause, value)
           shown == [y EXCEPT !.step = "settling", !.recorded = y.answer]
           refused == [y EXCEPT !.step = "failed"]
           z == IF accepted THEN shown ELSE refused
<1>1. /\ x \in TurnRecord /\ RecordInv(x) /\ x.step = "closing"
      /\ chat' = [chat EXCEPT ![t] = z] /\ cache' = Cached(y)
      /\ served' = served /\ deployment' = deployment
  BY RecordOf DEF Close, Recorded
<1> HIDE DEF x
<1>2. /\ y \in TurnRecord
      /\ /\ y.plan = x.plan /\ y.request = x.request /\ y.facts = x.facts
         /\ y.seen = x.seen /\ y.recorded = x.recorded /\ y.hit = x.hit
         /\ y.verdict = x.verdict /\ y.calls = x.calls
      /\ y.answer \in Answer
      /\ y.answer = x.answer \/ y.answer.by # "model"
      /\ "leak" \notin y.answer.faults
      /\ Guarded(y) => "contract" \notin y.answer.faults
      /\ y.hit /\ y.answer.by # "fixed" => "contract" \notin y.answer.faults
      /\ y.mapped # NoAnswer => y.mapped = y.answer
  BY <1>1, ClosedFits
<1> HIDE DEF y
<1>3. x.calls > 0 => x.plan.model
  BY <1>1 DEF RecordInv, Planned
<1>4. ASSUME NEW n \in TurnRecord, n.step \in {"settling", "failed"},
             n.plan = y.plan, n.request = y.request, n.facts = y.facts, n.seen = y.seen,
             n.hit = y.hit, n.verdict = y.verdict, n.calls = y.calls, n.answer = y.answer,
             n.mapped = y.mapped, n.step = "settling" => n.recorded = y.answer
      PROVE  RecordInv(n)
  <2>1. Counted(n)
    BY <1>4 DEF Counted
  <2>2. Sound(n)
    BY <1>1, <1>2, <1>4 DEF RecordInv, Planned, Sound, Evidence, Has
  <2>3. Planned(n)
    BY <1>2, <1>3, <1>4, <2>2 DEF Planned
  <2>4. Answered(n)
    BY <1>1, <1>2, <1>4 DEF RecordInv, Answered
  <2>5. Screened(n)
    <3>1. n.answer.by = "model" => "parametric" \notin n.answer.faults
      BY <1>1, <1>2, <1>4 DEF RecordInv, Screened
    <3>2. Guarded(n) = Guarded(y)
      BY <1>4 DEF Guarded, Contract, Evidence, Has
    <3> QED BY <1>2, <1>4, <3>1, <3>2 DEF Screened
  <2>6. Verified(n)
    BY <1>1, <1>2, <1>4 DEF RecordInv, Verified, CriticDue
  <2>7. Fresh(n)
    BY <1>1, <1>2, <1>4 DEF RecordInv, Fresh
  <2>8. Reported(n)
    BY <1>2, <1>4 DEF Reported
  <2> QED BY <2>1, <2>3, <2>4, <2>5, <2>6, <2>7, <2>8 DEF RecordInv
<1>5. shown \in TurnRecord /\ refused \in TurnRecord
  BY <1>2 DEF TurnRecord, Steps, Awaiting
<1>6. /\ shown.step = "settling" /\ shown.plan = y.plan /\ shown.request = y.request
      /\ shown.facts = y.facts /\ shown.seen = y.seen /\ shown.hit = y.hit
      /\ shown.verdict = y.verdict /\ shown.calls = y.calls /\ shown.answer = y.answer
      /\ shown.mapped = y.mapped /\ shown.recorded = y.answer
  BY <1>2 DEF TurnRecord
<1>7. /\ refused.step = "failed" /\ refused.plan = y.plan /\ refused.request = y.request
      /\ refused.facts = y.facts /\ refused.seen = y.seen /\ refused.hit = y.hit
      /\ refused.verdict = y.verdict /\ refused.calls = y.calls /\ refused.answer = y.answer
      /\ refused.mapped = y.mapped
  BY <1>2 DEF TurnRecord
<1> HIDE DEF shown, refused
<1>8. RecordInv(shown) /\ RecordInv(refused)
  BY <1>4, <1>5, <1>6, <1>7
<1>9. z \in TurnRecord /\ RecordInv(z)
  BY <1>5, <1>8
<1> HIDE DEF z
<1>10. chat' \in [ChatTurns -> TurnRecord] /\ \A u \in ChatTurns : RecordInv(chat[u])'
  BY <1>1, <1>9, OneRecordKeeps
<1> DEFINE stored == [answer |-> y.answer, of |-> y.request]
<1>11. \/ cache' = cache
       \/ /\ cache' = [cache EXCEPT ![Key(y.request)] = stored]
          /\ Cacheable(y.request) /\ y.hit = FALSE /\ y.plan.class = "S0"
  BY <1>1, <1>2 DEF Cached, TurnRecord
<1>12. CASE cache' = cache
  BY <1>1, <1>10, <1>12 DEF TurnInv, TurnTypeOK, CacheIsPlain
<1>13. CASE /\ cache' = [cache EXCEPT ![Key(y.request)] = stored]
            /\ Cacheable(y.request) /\ y.hit = FALSE /\ y.plan.class = "S0"
  <2>1. y.request \in Requests
    BY <1>1, <1>2 DEF RecordInv, Answered
  <2>2. stored \in Entry
    BY <1>2, <2>1 DEF Entry
  <2>3. Key(y.request) \in Tenants \X Questions
    BY <2>1, TurnAssumption DEF Key, Request
  <2>4. TurnTypeOK'
    BY <1>1, <1>10, <1>13, <2>2, <2>3 DEF TurnInv, TurnTypeOK
  <2>5. y.request.route = "knowledge"
        /\ y.request.traits \cap {"fields", "conflicts", "missing", "risk", "untrusted"} = {}
    BY <1>13 DEF Cacheable
  <2>6. Guarded(y)
    <3>1. x.plan.class = "S0" /\ x.request.route = "knowledge" => Evidence(x) /\ x.plan.model
      BY <1>1 DEF RecordInv, Planned, Sound
    <3>2. Evidence(y) /\ y.plan.model
      BY <1>2, <1>13, <2>5, <3>1 DEF Evidence, Has
    <3> QED BY <3>2 DEF Guarded, Contract
  <2>7. {"contract", "leak"} \cap stored.answer.faults = {}
    BY <1>2, <2>6
  <2>8. CacheIsPlain'
    <3> SUFFICES ASSUME NEW k \in Tenants \X Questions, cache'[k] # NoEntry
                 PROVE  /\ cache'[k].of.traits
                             \cap {"fields", "conflicts", "missing", "risk", "untrusted"} = {}
                        /\ {"contract", "leak"} \cap cache'[k].answer.faults = {}
      BY DEF CacheIsPlain
    <3>1. cache'[k] = IF k = Key(y.request) THEN stored ELSE cache[k]
      BY <1>13 DEF TurnInv, TurnTypeOK
    <3>2. CASE k = Key(y.request)
      BY <2>5, <2>7, <3>1, <3>2
    <3>3. CASE k # Key(y.request)
      BY <3>1, <3>3 DEF TurnInv, CacheIsPlain
    <3> QED BY <3>2, <3>3
  <2> QED BY <1>10, <2>4, <2>8 DEF TurnInv
<1> QED BY <1>11, <1>12, <1>13

-----------------------------------------------------------------------------
LEMMA ExpireKeeps ==
  ASSUME TurnInv, NEW k \in Tenants \X Questions, Expire(k)
  PROVE  TurnInv'
<1>1. TurnTypeOK'
  BY DEF TurnInv, TurnTypeOK, Expire
<1>2. CacheIsPlain'
  <2> SUFFICES ASSUME NEW l \in Tenants \X Questions, cache'[l] # NoEntry
               PROVE  /\ cache'[l].of.traits
                           \cap {"fields", "conflicts", "missing", "risk", "untrusted"} = {}
                      /\ {"contract", "leak"} \cap cache'[l].answer.faults = {}
    BY DEF CacheIsPlain
  <2>1. cache'[l] = cache[l]
    BY DEF TurnInv, TurnTypeOK, Expire
  <2> QED BY <2>1 DEF TurnInv, CacheIsPlain
<1>3. ASSUME NEW u \in ChatTurns PROVE RecordInv(chat[u])'
  BY DEF TurnInv, Expire, RecordInv, Counted, Planned, Sound, Answered, Screened, Verified,
         Fresh, Reported, CriticDue, Guarded, Contract, Evidence, Has
<1> QED BY <1>1, <1>2, <1>3 DEF TurnInv

LEMMA WithdrawKeeps ==
  ASSUME TurnInv, NEW c \in LedgerClaims, Withdraw(c)
  PROVE  TurnInv'
<1>1. TurnTypeOK' /\ CacheIsPlain'
  BY DEF TurnInv, TurnTypeOK, CacheIsPlain, Withdraw
<1>2. ASSUME NEW u \in ChatTurns PROVE RecordInv(chat[u])'
  <2>1. RecordInv(chat[u]) /\ chat' = chat /\ deployment' = deployment /\ served' \subseteq served
    BY DEF TurnInv, Withdraw
  <2>2. Fresh(chat[u])'
    BY <2>1 DEF RecordInv, Fresh
  <2>3. Planned(chat[u])' /\ Verified(chat[u])'
    BY <2>1 DEF RecordInv, Planned, Sound, Verified, CriticDue, Evidence, Has
  <2>4. Counted(chat[u])' /\ Answered(chat[u])' /\ Reported(chat[u])'
    BY <2>1 DEF RecordInv, Counted, Answered, Reported
  <2>5. Screened(chat[u])'
    BY <2>1 DEF RecordInv, Screened, Guarded, Contract, Evidence, Has
  <2> QED BY <2>2, <2>3, <2>4, <2>5 DEF RecordInv
<1> QED BY <1>1, <1>2 DEF TurnInv

LEMMA ApproveKeeps ==
  ASSUME TurnInv, NEW c \in LedgerClaims, Approve(c)
  PROVE  TurnInv'
<1>1. \A u \in ChatTurns :
        chat'[u] = [chat[u] EXCEPT !.seen = chat[u].seen \cup {c}]
  BY DEF TurnInv, TurnTypeOK, Approve
<1>2. \A u \in ChatTurns : chat'[u] \in TurnRecord
  <2> SUFFICES ASSUME NEW u \in ChatTurns PROVE chat'[u] \in TurnRecord
    OBVIOUS
  <2> DEFINE x == chat[u]
  <2>1. x \in TurnRecord
    BY RecordOf
  <2>2. chat'[u] = [x EXCEPT !.seen = x.seen \cup {c}]
    BY <1>1
  <2> HIDE DEF x
  <2>3. [x EXCEPT !.seen = x.seen \cup {c}] \in TurnRecord
    BY <2>1 DEF TurnRecord
  <2> QED BY <2>2, <2>3
<1>3. TurnTypeOK' /\ CacheIsPlain'
  BY <1>2 DEF TurnInv, TurnTypeOK, CacheIsPlain, Approve
<1>4. ASSUME NEW u \in ChatTurns PROVE RecordInv(chat[u])'
  <2> DEFINE x == chat[u]
             y == chat'[u]
  <2>1. x \in TurnRecord /\ RecordInv(x)
    BY RecordOf
  <2>2. deployment' = deployment /\ served' = served \cup {c}
    BY DEF Approve
  <2>3. y = [x EXCEPT !.seen = x.seen \cup {c}]
    BY <1>1
  <2> HIDE DEF x, y
  <2>4. /\ y.step = x.step /\ y.answer = x.answer /\ y.calls = x.calls
        /\ y.plan = x.plan /\ y.request = x.request /\ y.facts = x.facts
        /\ y.recorded = x.recorded /\ y.hit = x.hit /\ y.mapped = x.mapped
        /\ y.verdict = x.verdict /\ y.regenerated = x.regenerated
        /\ y.seen = x.seen \cup {c}
    BY <2>1, <2>3 DEF TurnRecord
  <2>5. Counted(y) /\ Answered(y) /\ Reported(y)
    BY <2>1, <2>4 DEF RecordInv, Counted, Answered, Reported
  <2>6. Sound(y)
    BY <2>1, <2>4 DEF RecordInv, Planned, Sound, Evidence, Has
  <2>7. Planned(y) /\ Verified(y)
    BY <2>1, <2>4, <2>6 DEF RecordInv, Planned, Verified, CriticDue
  <2>8. Screened(y)
    BY <2>1, <2>4 DEF RecordInv, Screened, Guarded, Contract, Evidence, Has
  <2>9. /\ ~y.hit => y.facts \subseteq y.seen
        /\ y.step # "idle" => served' \subseteq y.seen
    BY <2>1, <2>2, <2>4 DEF RecordInv, Fresh
  <2> USE DEF y
  <2>10. Counted(chat[u])' /\ Answered(chat[u])' /\ Reported(chat[u])'
    BY <2>5 DEF Counted, Answered, Reported
  <2>11. Planned(chat[u])' /\ Verified(chat[u])'
    BY <2>2, <2>7 DEF Planned, Sound, Verified, CriticDue, Evidence, Has
  <2>12. Screened(chat[u])'
    BY <2>8 DEF Screened, Guarded, Contract, Evidence, Has
  <2>13. Fresh(chat[u])'
    BY <2>9 DEF Fresh
  <2> QED BY <2>10, <2>11, <2>12, <2>13 DEF RecordInv
<1> QED BY <1>3, <1>4 DEF TurnInv

-----------------------------------------------------------------------------
LEMMA InitTurnInv == TurnInit => TurnInv
<1> SUFFICES ASSUME TurnInit PROVE TurnInv
  OBVIOUS
<1>1. Idle \in TurnRecord /\ \A t \in ChatTurns : RecordInv(chat[t])
  BY IdleFits DEF TurnInit
<1>2. TurnTypeOK
  BY <1>1 DEF TurnInit, TurnTypeOK
<1>3. CacheIsPlain
  BY DEF TurnInit, CacheIsPlain
<1> QED BY <1>1, <1>2, <1>3 DEF TurnInv

LEMMA NextTurnInv == TurnInv /\ [TurnNext]_turnVars => TurnInv'
<1> SUFFICES ASSUME TurnInv, [TurnNext]_turnVars PROVE TurnInv'
  OBVIOUS
<1>1. CASE UNCHANGED turnVars
  <2>1. TurnTypeOK' /\ CacheIsPlain'
    BY <1>1 DEF turnVars, TurnInv, TurnTypeOK, CacheIsPlain
  <2>2. ASSUME NEW u \in ChatTurns PROVE RecordInv(chat[u])'
    BY <1>1 DEF turnVars, TurnInv, RecordInv, Counted, Planned, Sound, Answered, Screened,
       Verified, Fresh, Reported, CriticDue, Guarded, Contract, Evidence, Has
  <2> QED BY <2>1, <2>2 DEF TurnInv
<1>2. CASE World
  BY <1>2, ExpireKeeps, WithdrawKeeps, ApproveKeeps DEF World
<1>3. ASSUME NEW t \in ChatTurns, ChatStep(t) PROVE TurnInv'
  BY <1>3, ReceiveKeeps, GroundKeeps, DecideKeeps, GenerateKeeps, CorrectKeeps,
     ReviewDraftKeeps, VerifyKeeps, CriticiseKeeps, RecheckKeeps, CloseKeeps, SettleKeeps,
     AbortKeeps, LeaveKeeps DEF ChatStep
<1> QED BY <1>1, <1>2, <1>3 DEF TurnNext

\* The invariant of all records and of the cache.
THEOREM TurnInvariant == TurnSpec => []TurnInv
BY InitTurnInv, NextTurnInv, PTL DEF TurnSpec

\* At most three texts are generated for a turn, and the records keep their types.
THEOREM TurnTypeCorrect == TurnSpec => []TurnTypeOK
<1>1. TurnInv => TurnTypeOK
  BY DEF TurnInv
<1> QED BY <1>1, TurnInvariant, PTL

\* What is shown has passed the guards, by whatever way the turn went.
THEOREM ShippedIsAlwaysGuarded == TurnSpec => []ShippedIsGuarded
<1>1. TurnInv => ShippedIsGuarded
  BY DEF TurnInv, RecordInv, Screened, ShippedIsGuarded, Done
<1> QED BY <1>1, TurnInvariant, PTL

\* A shown text of the model is the one the critic saw last and did not object to.
THEOREM ShippedIsAlwaysVerified == TurnSpec => []ShippedIsTheVerified
<1>1. TurnInv => ShippedIsTheVerified
  BY DEF TurnInv, RecordInv, Verified, ShippedIsTheVerified, Done
<1> QED BY <1>1, TurnInvariant, PTL

\* Answers that are generated rest on claims served during the turn.
THEOREM GeneratedIsAlwaysFresh == TurnSpec => []FreshUnlessCached
<1>1. TurnInv => FreshUnlessCached
  BY DEF TurnInv, RecordInv, Fresh, FreshUnlessCached
<1> QED BY <1>1, TurnInvariant, PTL

\* The execution policy calls no model without evidence, and none in a risky
\* technical case without a review.
THEOREM PolicyIsAlwaysSafe == TurnSpec => []PolicyIsSafe
<1>1. TurnInv => PolicyIsSafe
  BY DEF TurnInv, RecordInv, Planned, Sound, PolicyIsSafe
<1> QED BY <1>1, TurnInvariant, PTL

\* The cache holds answers that fit every asker and have passed the guards.
THEOREM CacheIsAlwaysPlain == TurnSpec => []CacheIsPlain
<1>1. TurnInv => CacheIsPlain
  BY DEF TurnInv
<1> QED BY <1>1, TurnInvariant, PTL

\* The claim mappings belong to the answer they are shown with.
THEOREM MappingIsAlwaysOfTheAnswer == TurnSpec => []MappingIsOfTheAnswer
<1>1. TurnInv => MappingIsOfTheAnswer
  BY DEF TurnInv, RecordInv, Reported, MappingIsOfTheAnswer, Done
<1> QED BY <1>1, TurnInvariant, PTL

\* The case remembers what was shown, and nothing of a turn under way.
THEOREM RecordedIsAlwaysShipped == TurnSpec => []RecordedIsShipped
<1>1. TurnInv => RecordedIsShipped
  BY DEF TurnInv, RecordInv, Reported, RecordedIsShipped, Done
<1> QED BY <1>1, TurnInvariant, PTL
=============================================================================
