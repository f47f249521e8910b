----------------------------- MODULE CaseMemory -----------------------------
(***************************************************************************)
(* The memory of ONE case (tenant, session): the transcript, the facts the *)
(* user stated, the kernel values derived from them and the interview row, *)
(* as chat turns, background "remember" tasks and user edits interleave on *)
(* the event loop of the API process.                                      *)
(*                                                                         *)
(* Code: pipeline/pipeline.py (run, flush_memory, _schedule_remember,      *)
(* _remember_and_refresh_interview, compute_for), api/routes/              *)
(* conversations.py and compute.py, db/conversation_memory.py,             *)
(* db/interview.py, db/cross_session_memory.py, api/sse.py.                *)
(*                                                                         *)
(* Everything a coroutine does between two awaits is one step; what the    *)
(* code awaits (a pending task, the answer of the model, the distiller) is *)
(* where another coroutine may run.  A fact's value is named by the        *)
(* request that stated it, so "who wrote this" is the value itself; a      *)
(* derived slice is named by the facts it was computed from.               *)
(***************************************************************************)
EXTENDS Integers, FiniteSets, Sequences

CONSTANTS
  Turns,      \* chat requests of this case
  Controls,   \* requests of the memory surface (edit, forget, clear, compute, refresh)
  Fields,     \* fact fields ("feld")
  NoOne,      \* no request: an absent fact, an empty registry slot
  Distiller,  \* a distiller is wired (settings.distill_enabled)
  Inline,     \* adaptive_interview_enabled: run() awaits the distiller itself
  OneRequest, \* the client has at most one open request for the case
  Faults,     \* a store call may raise after an earlier one of the handler committed
  MaxRestarts \* bound on process restarts

ASSUME CaseMemoryAssumption ==
  /\ IsFiniteSet(Fields)
  /\ NoOne \notin Turns \cup Controls
  /\ Turns \cap Controls = {}
  /\ Distiller \in BOOLEAN /\ Inline \in BOOLEAN
  /\ OneRequest \in BOOLEAN /\ Faults \in BOOLEAN
  /\ MaxRestarts \in Nat

VARIABLES
  session,   \* V2Session row: exists, case_revision, turns
  messages,  \* V2Message rows, one entry per exchange
  facts,     \* V2Fact rows: field -> the request that stated the value
  derived,   \* V2Derived slice: the facts it was computed from
  interview, \* state_revision of the V2InterviewState row, NoRow when absent
  durable,   \* V2DurableFact rows of the owner (cross-session memory)
  pending,   \* Pipeline._pending_remember[key]: the turn whose task is registered
  turn,      \* progress of each chat request and of its remember task
  control,   \* progress of each memory-surface request
  restarts   \* process restarts so far

store == <<session, messages, facts, derived, interview, durable>>
vars == <<store, pending, turn, control, restarts>>
-----------------------------------------------------------------------------
NoRow == -1
NoFacts == [f \in Fields |-> NoOne]
NoSession == [exists |-> FALSE, revision |-> 0, turns |-> 0]

\* A request is "waiting" inside flush_memory, an open turn is "answering"
\* while the model generates and "distilling" while its remember task runs.
TurnPhases == {"idle", "waiting", "answering", "distilling",
               "settled", "rejected", "cancelled", "failed"}
ControlPhases == {"idle", "waiting", "edited", "forgotten", "cleared",
                  "computed", "refreshed", "failed"}
Writes == {"edit", "turn", "clear"}

Values == Turns \cup Controls \cup {NoOne}
Turn == [phase     : TurnPhases,
         revision  : Nat,                 \* expected_case_revision
         awaits    : Turns \cup {NoOne},  \* the task flush_memory awaits
         seen      : [Fields -> Values],  \* history: the facts at that revision
         overtaken : SUBSET Writes]       \* history: changes of the case since then
Control == [phase : ControlPhases, awaits : Turns \cup {NoOne}]

Init ==
  /\ session = NoSession /\ messages = <<>> /\ facts = NoFacts
  /\ derived = NoFacts /\ interview = NoRow /\ durable = NoFacts
  /\ pending = NoOne
  /\ turn = [t \in Turns |-> [phase |-> "idle", revision |-> 0,
                              awaits |-> NoOne, seen |-> NoFacts, overtaken |-> {}]]
  /\ control = [c \in Controls |-> [phase |-> "idle", awaits |-> NoOne]]
  /\ restarts = 0
-----------------------------------------------------------------------------
(* What the store operations do.                                           *)

Stated(fs, r, S) == [f \in Fields |-> IF f \in S THEN r ELSE fs[f]]

\* Mutant: the revision is read before the last change.
RecalledOneBehind ==
  IF messages = <<>> /\ facts = NoFacts THEN 0 ELSE session.revision - 1

\* recall: without messages and facts it answers MemoryView(), whose missing
\* case_state_v2 the pipeline reads as revision 0, whatever the row says.
RecalledRevision ==
  IF messages = <<>> /\ facts = NoFacts THEN 0 ELSE session.revision

\* The interview row after one evaluation of facts fs at revision rev: an
\* unknown or unsupported scope saves nothing, an older revision than the
\* stored one is refused (StaleInterviewState), else the row takes rev.
Evaluated(fs, rev) ==
  {interview} \cup (IF fs # NoFacts /\ interview <= rev THEN {rev} ELSE {})

\* Mutant: any earlier revision passes the check.
CurrentOrOlder(t) == turn[t].revision <= session.revision

\* Turns whose snapshot of the case is still to be used for a write, and the
\* optimistic check of record_turn and merge_facts on it.
Outstanding(t) == turn[t].phase \in {"answering", "distilling"}
Current(t) == turn[t].revision = session.revision

Overtaken(write, S) ==
  [t \in Turns |-> IF Outstanding(t) /\ S
                   THEN [turn[t] EXCEPT !.overtaken = @ \cup {write}]
                   ELSE turn[t]]

\* After a fault only a prefix of the handler's store calls has committed.
Completes == IF Faults THEN BOOLEAN ELSE {TRUE}

\* remember_durable: the facts just committed become cross-session memory; a
\* fault may come before or after it.
Promoted(t, S, complete) ==
  {Stated(durable, t, S)} \cup (IF complete THEN {} ELSE {durable})

\* Mutant: "alles vergessen" leaves the interview row.
InterviewKept(complete) == interview

InterviewCleared(complete) == IF complete THEN NoRow ELSE interview
-----------------------------------------------------------------------------
(* The flush discipline: every request awaits the registered task first.   *)

Open(t) == \/ turn[t].phase \in {"waiting", "answering"}
           \/ Inline /\ turn[t].phase = "distilling"

ClientFree == OneRequest => /\ \A t \in Turns : ~Open(t)
                            /\ \A c \in Controls : control[c].phase # "waiting"

\* Mutant: a new request does not look at the registry.
FlushedUnawaited(r) ==
  \/ r.phase = "idle" /\ ClientFree
  \/ r.phase = "waiting" /\ turn[r.awaits].phase \notin {"distilling", "cancelled"}

\* flush_memory is through: nothing was registered, or the task it awaited
\* has ended without being cancelled.
Flushed(r) ==
  \/ r.phase = "idle" /\ pending = NoOne /\ ClientFree
  \/ r.phase = "waiting" /\ turn[r.awaits].phase \notin {"distilling", "cancelled"}

AwaitBeforeTurn(t) ==
  /\ turn[t].phase = "idle" /\ pending # NoOne /\ ClientFree
  /\ turn' = [turn EXCEPT ![t] = [@ EXCEPT !.phase = "waiting", !.awaits = pending]]
  /\ UNCHANGED <<store, pending, control, restarts>>

AwaitBeforeControl(c) ==
  /\ control[c].phase = "idle" /\ pending # NoOne /\ ClientFree
  /\ control' = [control EXCEPT ![c] = [phase |-> "waiting", awaits |-> pending]]
  /\ UNCHANGED <<store, pending, turn, restarts>>

\* Awaiting a cancelled task raises CancelledError, which flush_memory does
\* not catch: the waiting request ends without having done anything.
AbortedTurn(t) ==
  /\ turn[t].phase = "waiting" /\ turn[turn[t].awaits].phase = "cancelled"
  /\ turn' = [turn EXCEPT ![t].phase = "failed"]
  /\ UNCHANGED <<store, pending, control, restarts>>

\* Mutant: the cancellation never reaches the waiting request.
AbortedControlHangs(c) == FALSE

AbortedControl(c) ==
  /\ control[c].phase = "waiting" /\ turn[control[c].awaits].phase = "cancelled"
  /\ control' = [control EXCEPT ![c].phase = "failed"]
  /\ UNCHANGED <<store, pending, turn, restarts>>
-----------------------------------------------------------------------------
(* A chat turn.                                                            *)

Recall(t) ==
  /\ Flushed(turn[t])
  /\ turn' = [turn EXCEPT ![t] = [phase |-> "answering", revision |-> RecalledRevision,
                                  awaits |-> NoOne, seen |-> facts, overtaken |-> {}]]
  /\ UNCHANGED <<store, pending, control, restarts>>

AnswerFails(t) ==
  /\ turn[t].phase = "answering"
  /\ turn' = [turn EXCEPT ![t].phase = "failed"]
  /\ UNCHANGED <<store, pending, control, restarts>>

\* record_turn raises CaseRevisionConflict: the answer is not committed.
RejectTurn(t) ==
  /\ turn[t].phase = "answering" /\ ~Current(t)
  /\ turn' = [turn EXCEPT ![t].phase = "rejected"]
  /\ UNCHANGED <<store, pending, control, restarts>>

\* record_turn with the facts S that the deterministic extractors found in
\* the question, then the branch that settles the rest of the turn.
CommitTurn(t, S, complete) ==
  /\ turn[t].phase = "answering" /\ Current(t)
  /\ LET revision == session.revision + (IF S # {} THEN 1 ELSE 0)
         phase == IF ~complete THEN "failed"
                  ELSE IF Distiller THEN "distilling" ELSE "settled"
     IN /\ session' = [exists |-> TRUE, revision |-> revision, turns |-> session.turns + 1]
        /\ turn' = [Overtaken("turn", S # {}) EXCEPT
                      ![t] = [phase |-> phase, revision |-> revision,
                              awaits |-> NoOne, seen |-> Stated(facts, t, S),
                              overtaken |-> {}]]
  /\ messages' = Append(messages, t)
  /\ facts' = Stated(facts, t, S)
  /\ durable' \in Promoted(t, S, complete)
  /\ pending' = IF complete /\ Distiller /\ ~Inline THEN t ELSE pending
  /\ IF complete /\ ~Distiller
     THEN /\ derived' = facts'
          /\ interview' \in Evaluated(facts', session'.revision)
     ELSE UNCHANGED <<derived, interview>>
  /\ UNCHANGED <<control, restarts>>
-----------------------------------------------------------------------------
(* The remember task of a recorded turn.                                   *)

\* The task is done; its callback removes it from the registry, unless a
\* later turn has taken the slot.
Deregistered(t) == IF pending = t THEN NoOne ELSE pending

\* merge_facts with the distilled facts S at the expected revision, the
\* promotion to cross-session memory, the recompute and the interview.
RememberLands(t, S, complete) ==
  /\ turn[t].phase = "distilling" /\ Current(t)
  /\ session' = [session EXCEPT !.exists = TRUE,
                                !.revision = @ + (IF S # {} THEN 1 ELSE 0)]
  /\ facts' = Stated(facts, t, S)
  /\ turn' = [Overtaken("turn", S # {}) EXCEPT ![t] = [turn[t] EXCEPT !.phase = "settled"]]
  /\ pending' = Deregistered(t)
  /\ durable' \in Promoted(t, S, complete)
  /\ IF complete
     THEN derived' = facts' /\ interview' \in Evaluated(facts', session'.revision)
     ELSE UNCHANGED <<derived, interview>>
  /\ UNCHANGED <<messages, control, restarts>>

\* Mutant: the discarded facts are promoted all the same.
RememberLostPromoted(t) ==
  /\ turn[t].phase = "distilling"
  /\ turn' = [turn EXCEPT ![t].phase = "settled"]
  /\ pending' = Deregistered(t)
  /\ \E f \in Fields : durable' = [durable EXCEPT ![f] = t]
  /\ UNCHANGED <<session, messages, facts, derived, interview, control, restarts>>

\* The distiller raised, or the case has moved on (CaseRevisionConflict):
\* the background wrapper logs it and the turn's facts are lost.
RememberLost(t) ==
  /\ turn[t].phase = "distilling"
  /\ turn' = [turn EXCEPT ![t].phase = "settled"]
  /\ pending' = Deregistered(t)
  /\ UNCHANGED <<store, control, restarts>>
-----------------------------------------------------------------------------
(* The client of a stream goes away: the run is cancelled, and with it the *)
(* task the run was awaiting - its own distiller call, or the remember     *)
(* task of an EARLIER turn when it was still inside flush_memory.          *)

Disconnect(t) ==
  /\ Open(t)
  /\ LET hit == IF turn[t].phase = "waiting" /\ turn[turn[t].awaits].phase = "distilling"
                THEN {t, turn[t].awaits} ELSE {t}
     IN /\ turn' = [u \in Turns |-> IF u \in hit
                                    THEN [turn[u] EXCEPT !.phase = "cancelled"]
                                    ELSE turn[u]]
        /\ pending' = IF pending \in hit THEN NoOne ELSE pending
  /\ UNCHANGED <<store, control, restarts>>
-----------------------------------------------------------------------------
(* The memory surface: flush, mutate, recompute, re-evaluate.              *)

Finished(c, phase) ==
  control' = [control EXCEPT ![c] = [phase |-> phase, awaits |-> NoOne]]

\* PUT one fact, or POST the parameter form: each field is an edit_fact of
\* its own, then one recompute over the merged inputs.
EditFacts(c, S, complete) ==
  /\ Flushed(control[c])
  /\ session' = [exists   |-> session.exists \/ S # {},
                 revision |-> session.revision + Cardinality(S),
                 turns    |-> session.turns]
  /\ facts' = Stated(facts, c, S)
  /\ turn' = Overtaken("edit", S # {})
  /\ IF complete
     THEN /\ derived' = facts'
          /\ interview' \in Evaluated(facts', session'.revision)
          /\ Finished(c, "edited")
     ELSE UNCHANGED <<derived, interview>> /\ Finished(c, "failed")
  /\ UNCHANGED <<messages, durable, pending, restarts>>

ForgetFact(c, f, complete) ==
  /\ Flushed(control[c])
  /\ LET known == facts[f] # NoOne
     IN /\ session' = [session EXCEPT !.revision = @ + (IF known THEN 1 ELSE 0)]
        /\ turn' = Overtaken("edit", known)
  /\ facts' = Stated(facts, NoOne, {f})
  /\ IF complete
     THEN /\ derived' = facts'
          /\ interview' \in Evaluated(facts', session'.revision)
          /\ Finished(c, "forgotten")
     ELSE UNCHANGED <<derived, interview>> /\ Finished(c, "failed")
  /\ UNCHANGED <<messages, durable, pending, restarts>>

\* "Alles vergessen".  A failing interview clear is logged and swallowed.
ForgetAll(c, complete) ==
  /\ Flushed(control[c])
  /\ session' = NoSession /\ messages' = <<>> /\ facts' = NoFacts
  /\ derived' = NoFacts
  /\ interview' = InterviewCleared(complete)
  /\ turn' = Overtaken("clear", session.exists)
  /\ Finished(c, "cleared")
  /\ UNCHANGED <<durable, pending, restarts>>

Compute(c) ==
  /\ Flushed(control[c])
  /\ derived' = facts
  /\ Finished(c, "computed")
  /\ UNCHANGED <<session, messages, facts, interview, durable, pending, turn, restarts>>

RefreshInterview(c) ==
  /\ Flushed(control[c])
  /\ interview' \in Evaluated(facts, RecalledRevision)
  /\ Finished(c, "refreshed")
  /\ UNCHANGED <<session, messages, facts, derived, durable, pending, turn, restarts>>
-----------------------------------------------------------------------------
\* The process restarts: every coroutine and the registry are gone.
Restart ==
  /\ restarts < MaxRestarts
  /\ restarts' = restarts + 1
  /\ pending' = NoOne
  /\ turn' = [t \in Turns |->
                IF turn[t].phase \in {"waiting", "answering", "distilling"}
                THEN [turn[t] EXCEPT !.phase = "failed"] ELSE turn[t]]
  /\ control' = [c \in Controls |-> IF control[c].phase = "waiting"
                                    THEN [control[c] EXCEPT !.phase = "failed"]
                                    ELSE control[c]]
  /\ UNCHANGED store

TurnStep(t) ==
  \/ AwaitBeforeTurn(t) \/ AbortedTurn(t)
  \/ Recall(t) \/ AnswerFails(t) \/ RejectTurn(t)
  \/ \E S \in SUBSET Fields, complete \in Completes :
       CommitTurn(t, S, complete) \/ RememberLands(t, S, complete)
  \/ RememberLost(t)
  \/ Disconnect(t)

ControlStep(c) ==
  \/ AwaitBeforeControl(c) \/ AbortedControl(c)
  \/ \E complete \in Completes :
       \/ \E S \in SUBSET Fields : EditFacts(c, S, complete)
       \/ \E f \in Fields : ForgetFact(c, f, complete)
       \/ ForgetAll(c, complete)
  \/ Compute(c) \/ RefreshInterview(c)

Next == \/ \E t \in Turns : TurnStep(t)
        \/ \E c \in Controls : ControlStep(c)
        \/ Restart

Spec == Init /\ [][Next]_vars

\* A distiller call ends (its client has a timeout) and a coroutine whose
\* awaited task has ended is resumed; nothing obliges a client to send.
RememberEnds(t) == \/ RememberLost(t)
                   \/ \E S \in SUBSET Fields, complete \in Completes :
                        RememberLands(t, S, complete)
ResumeTurn(t) == turn[t].phase = "waiting" /\ (Recall(t) \/ AbortedTurn(t))
ResumeControl(c) == control[c].phase = "waiting" /\ ControlStep(c)

Fairness == /\ \A t \in Turns : WF_vars(RememberEnds(t)) /\ WF_vars(ResumeTurn(t))
            /\ \A c \in Controls : WF_vars(ResumeControl(c))

FairSpec == Spec /\ Fairness
-----------------------------------------------------------------------------
\* Every variable has its type.
TypeOK ==
  /\ session \in [exists : BOOLEAN, revision : Nat, turns : Nat]
  /\ messages \in Seq(Turns)
  /\ facts \in [Fields -> Values] /\ derived \in [Fields -> Values]
  /\ durable \in [Fields -> Turns \cup {NoOne}]
  /\ interview \in Nat \cup {NoRow}
  /\ pending \in Turns \cup {NoOne}
  /\ turn \in [Turns -> Turn]
  /\ control \in [Controls -> Control]
  /\ restarts \in 0..MaxRestarts

\* Turn t writes to the case: it appends its exchange or sets a fact.
Commits(t) == \/ messages' = Append(messages, t)
              \/ \E f \in Fields : facts[f] # t /\ facts'[f] = t

\* The optimistic revision check works within one life of the case: until
\* somebody clears the case, a turn writes its answer and its distilled facts
\* only onto the very facts they were computed from.
StaleOutputRejected ==
  [][\A t \in Turns : Commits(t) /\ "clear" \notin turn[t].overtaken
                        => facts = turn[t].seen]_vars

\* Why: while its snapshot is to be used, a turn holds a revision the case has
\* not passed without the turn being marked, and its facts until it is marked.
Sound(t) ==
  Outstanding(t) /\ "clear" \notin turn[t].overtaken =>
    /\ turn[t].revision <= session.revision
    /\ Current(t) => turn[t].overtaken = {}
    /\ turn[t].overtaken = {} => facts = turn[t].seen

SnapshotSound == \A t \in Turns : Sound(t)

\* A case without a session row has no facts and revision 0.
NoOrphans == ~session.exists => facts = NoFacts /\ session.revision = 0

\* What core/contracts.py:1066 says without that restriction: "The case
\* changed after generation started; stale output must not be committed."
StaleOutputNeverCommitted ==
  [][\A t \in Turns : Commits(t) => facts = turn[t].seen]_vars

\* "A late distill must never re-create what the user just deleted": a fact
\* stated by a turn is only there while that turn is in the transcript.
ForgottenStaysForgotten ==
  \A f \in Fields : facts[f] \in Turns => \E i \in DOMAIN messages : messages[i] = facts[f]

\* A turn refused with CaseRevisionConflict had been overtaken by a change.
ConflictIsReal == \A t \in Turns : turn[t].phase = "rejected" => turn[t].overtaken # {}

\* Only what was merged into the case becomes cross-session memory: the
\* facts of a discarded remember are not promoted either.
PromotionFollowsMerge ==
  [][\A f \in Fields : durable'[f] # durable[f] => facts'[f] = durable'[f]]_vars

\* The interview row never belongs to a later revision than the case has, so
\* an evaluation of the current case is never refused as stale.
InterviewNotAhead == interview <= session.revision

\* No request stays in flush_memory for ever.
FlushEnds ==
  /\ \A t \in Turns : turn[t].phase = "waiting" ~> turn[t].phase # "waiting"
  /\ \A c \in Controls : control[c].phase = "waiting" ~> control[c].phase # "waiting"
=============================================================================
