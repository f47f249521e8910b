---------------------------- MODULE TurnPipeline ----------------------------
(***************************************************************************)
(* A chat turn from the request to the answer that is recorded and shown:  *)
(* grounding, execution policy, generation, the guards, the LLM critic     *)
(* (L3), the cache of exact answers and the record of the turn.            *)
(*                                                                         *)
(* Code: pipeline/pipeline.py (Pipeline.run), orchestration (execution     *)
(* policy, answer cache), core/l3_verifier.py, core/output_guard.py,       *)
(* core/l1_generator.py, with the settings of .env.prod.example. The turns *)
(* of the process interleave where run awaits; everything between two      *)
(* awaits is one step. Claims are approved and withdrawn meanwhile.        *)
(*                                                                         *)
(* A text is what the guards tell of it: the faults it has. Left out: what *)
(* is computed or parsed for display only, streaming of drafts, and what   *)
(* CaseMemory has of the memory of the case.                               *)
(***************************************************************************)
EXTENDS Integers, FiniteSets

CONSTANTS
  ChatTurns,    \* places for chat requests under way in one process
  Tenants,
  Questions,    \* texts up to case and spaces
  Requests,     \* the requests there are, see Request
  LedgerClaims, \* reviewed claims of the knowledge ledger
  DraftFaults   \* the sets of faults that generated texts may have

VARIABLES
  chat,       \* the progress of each turn
  cache,      \* InProcessExactAnswerCache._entries
  served,     \* claims the ledger serves now
  deployment  \* settings of the process: knowledge pilot, verifier

turnVars == <<chat, cache, served, deployment>>
-----------------------------------------------------------------------------
\* general_sealing_knowledge and material_knowledge are "knowledge";
\* engineering_case, leakage_troubleshooting, rfq_manufacturer_brief "technical".
Routes == {"smalltalk", "intake", "knowledge", "comparison", "technical", "ambiguous"}

\* fields, conflicts, missing: of the case. unresolved: a comparison with nothing
\* to refer to. matrix, trap: reviewed facts beside the claims. verdict: the
\* material check has one. computed: the kernel has a value. deep: many documents
\* or tool steps. decoded: a part designation. override: the question is one that
\* a deterministic renderer or refusal answers.
Traits == {"fields", "conflicts", "missing", "unresolved", "risk", "untrusted", "matrix",
           "trap", "verdict", "computed", "deep", "decoded", "override"}

Request == [tenant : Tenants, question : Questions, route : Routes, traits : SUBSET Traits]

\* What the guards find in a text: claims beside the contract, values of the
\* kernel it has not computed, interchangeable parts, confidential text.
TextFaults == {"contract", "parametric", "equivalence", "leak"}

ASSUME TurnAssumption ==
  Requests \subseteq Request /\ DraftFaults \subseteq SUBSET TextFaults /\ {} \in DraftFaults

\* facts: grounding_facts. draft: which call of the generator made it, 0 for none.
Answer == [by : {"model", "fallback", "fixed"}, faults : SUBSET TextFaults,
           facts : SUBSET LedgerClaims, draft : 0..3]
NoAnswer == [by |-> "nobody", faults |-> {}, facts |-> {}, draft |-> 0]

CriticVerdicts == {"clean", "advisory", "trap", "unparsed"}
NoVerdict == [draft |-> -1, result |-> "none"]

Plan == [class : {"D0", "D1", "S0", "S1", "C1", "C2", "H1"}, model : BOOLEAN,
         critic : BOOLEAN, review : BOOLEAN]
NoPlan == [class |-> "none", model |-> FALSE, critic |-> FALSE, review |-> FALSE]

NoRequest == [route |-> "none", traits |-> {}]
NoEntry == [answer |-> NoAnswer, of |-> NoRequest]
Entry == [answer : Answer, of : Requests]

Awaiting == {"grounding", "generating", "regenerating", "criticising",
             "criticising again", "correcting", "rechecking", "settling"}
Steps == Awaiting \cup {"idle", "grounded", "drafted", "verifying", "closing",
                        "done", "failed"}

\* verdict: of the critic, the last. mapped: the answer that the claim mappings
\* of the guard are about. seen: history, claims served at some time of the turn.
Idle == [step |-> "idle", request |-> NoRequest, hit |-> FALSE, facts |-> {}, plan |-> NoPlan,
         answer |-> NoAnswer, calls |-> 0, regenerated |-> FALSE, hedged |-> FALSE,
         verdict |-> NoVerdict, mapped |-> NoAnswer, recorded |-> NoAnswer, seen |-> {}]

TurnInit ==
  /\ chat = [t \in ChatTurns |-> Idle]
  /\ cache = [k \in Tenants \X Questions |-> NoEntry]
  /\ served = LedgerClaims
  /\ deployment \in [knowledge : BOOLEAN, verifier : BOOLEAN]

Has(x, trait) == trait \in x.request.traits

Becomes(t, x) == chat' = [chat EXCEPT ![t] = x] /\ UNCHANGED <<cache, served, deployment>>
-----------------------------------------------------------------------------
(* Receiving a request: recall, route, cache.                              *)

\* Mutant: answers given in a case are cached too.
CacheableInCases(r) == r.route = "knowledge" /\ r.traits \cap {"risk", "untrusted"} = {}

Cacheable(r) ==
  /\ r.route = "knowledge"
  /\ r.traits \cap {"fields", "conflicts", "missing", "risk", "untrusted"} = {}

Key(r) == <<r.tenant, r.question>>
Lookup(r) == IF Cacheable(r) THEN cache[Key(r)] ELSE NoEntry

\* early_clarification: what is missing is asked before anything is retrieved.
Early(r) ==
  \/ "unresolved" \in r.traits
  \/ (r.route \in {"comparison", "technical", "ambiguous"} /\ "missing" \in r.traits)

Refused(r) == r.route \in {"knowledge", "comparison"} /\ ~deployment.knowledge

Receive(t, r) ==
  /\ chat[t].step = "idle"
  /\ LET entry == Lookup(r)
         hit == ~Refused(r) /\ entry # NoEntry
     IN Becomes(t, [chat[t] EXCEPT
          !.request = r, !.seen = served, !.hit = hit,
          !.answer = IF hit THEN entry.answer ELSE NoAnswer,
          !.facts = IF hit /\ ~Early(r) THEN entry.answer.facts ELSE {},
          !.step = IF Refused(r) THEN "failed"
                   ELSE IF hit \/ Early(r) THEN "grounded" ELSE "grounding"])

\* Mutant: what the index finds is taken as it is.
RevalidatedNever(points) == points

\* resolve_claims drops what the ledger does not serve.
Revalidated(points) == points \cap served

\* The index may be out of date and a failing search finds nothing.
Ground(t, points) ==
  /\ chat[t].step = "grounding"
  /\ Becomes(t, [chat[t] EXCEPT !.step = "grounded", !.facts = Revalidated(points)])
-----------------------------------------------------------------------------
(* The execution policy.                                                   *)

Evidence(x) == x.facts # {} \/ Has(x, "matrix")

Technical(r) == r.route \in {"comparison", "technical"}

\* Mutant: a risk without evidence is no reason to stop.
UndecidedConflict(x) == Has(x, "conflicts")

Undecided(x) == Has(x, "conflicts") \/ ~Evidence(x)

Without(class, review) == [class |-> class, model |-> FALSE, critic |-> FALSE, review |-> review]
With(class, critic, review) == [class |-> class, model |-> TRUE, critic |-> critic, review |-> review]

Unsupported(x) ==
  \/ x.request.route \in {"knowledge", "comparison"}
  \/ (Technical(x.request) /\ ~Has(x, "risk"))

\* decide_execution, the first rule that fits.
DecideExecution(x) ==
  LET r == x.request
      missing == r.traits \cap {"missing", "unresolved"} # {}
  IN IF x.hit THEN Without("D0", FALSE)
     ELSE IF r.route = "ambiguous"
       THEN IF Has(x, "risk") THEN Without("H1", TRUE) ELSE Without("D1", FALSE)
     ELSE IF Technical(r) /\ missing THEN Without("D1", FALSE)
     ELSE IF ~Evidence(x) /\ Unsupported(x) THEN Without("D1", FALSE)
     ELSE IF Technical(r) /\ Has(x, "risk") /\ Undecided(x) THEN Without("H1", TRUE)
     ELSE IF Technical(r) /\ r.traits \cap {"risk", "conflicts", "trap"} # {}
       THEN With("C2", FALSE, TRUE)
     ELSE IF r.route = "knowledge" /\ ~Has(x, "untrusted") THEN With("S0", FALSE, FALSE)
     ELSE IF r.traits \cap {"deep", "untrusted"} # {} THEN With("C1", FALSE, FALSE)
     ELSE IF r.route \in {"smalltalk", "intake"} THEN With("S0", FALSE, FALSE)
     ELSE With("S1", TRUE, FALSE)

Fixed(x, faults) == [by |-> "fixed", faults |-> faults, facts |-> x.facts, draft |-> 0]

Decide(t) ==
  LET x == chat[t]
      plan == DecideExecution(x)
  IN /\ x.step = "grounded"
     /\ Becomes(t, [x EXCEPT
          !.plan = plan, !.step = IF plan.model THEN "generating" ELSE "verifying",
          !.answer = IF plan.model \/ x.hit THEN @ ELSE Fixed(x, {})])
-----------------------------------------------------------------------------
(* Generation and the first pass of the output guard.                      *)

Draft(x, faults) == [by |-> "model", faults |-> faults, facts |-> x.facts, draft |-> x.calls + 1]

\* fail_closed_answer: lines of the contract only. A reviewed claim may assert a value.
Fallback(x, value) ==
  [by |-> "fallback", faults |-> IF value THEN {"parametric"} ELSE {}, facts |-> x.facts, draft |-> 0]

\* build_contract with a material verdict, else build_guard_contract.
Contract(x) ==
  IF Has(x, "verdict") THEN "strict"
  ELSE IF Evidence(x) \/ Has(x, "trap") \/ Has(x, "computed") THEN "general" ELSE "none"

Guarded(x) == x.plan.model /\ Contract(x) # "none"

\* One answer of the generator, with its own repair and fallbacks.
Generate(t, faults) ==
  LET x == chat[t]
  IN /\ x.step \in {"generating", "regenerating"}
     /\ Becomes(t, [x EXCEPT !.step = "drafted", !.answer = Draft(x, faults),
                             !.calls = @ + 1, !.regenerated = (x.step = "regenerating")])

\* The mapping of a guarded text, which the final pass makes anew.
Mapped(x) == IF Contract(x) = "strict" THEN x.answer ELSE NoAnswer

ReviewDraft(t, value) ==
  LET x == chat[t]
      blocked == Guarded(x) /\ "contract" \in x.answer.faults
  IN /\ x.step = "drafted"
     /\ \/ ~blocked /\ Becomes(t, [x EXCEPT !.step = "verifying", !.mapped = Mapped(x)])
        \/ blocked /\ ~x.regenerated /\ Becomes(t, [x EXCEPT !.step = "regenerating"])
        \/ /\ blocked /\ x.regenerated
           /\ Becomes(t, [x EXCEPT !.step = "verifying", !.answer = Fallback(x, value),
                                   !.mapped = Mapped(x), !.hedged = TRUE])
-----------------------------------------------------------------------------
(* Verification: the deterministic checks, and the critic where it is due. *)

CriticDue(x) == deployment.verifier /\ x.plan.critic

Equivalent(x) == Has(x, "decoded") /\ "equivalence" \in x.answer.faults
Parametric(x) == "parametric" \in x.answer.faults

\* clause: the hedge misses a clause that the contract asks for.
Clause(clause) == IF clause THEN {} ELSE {"contract"}
Hedge(x, clause) ==
  [x EXCEPT !.step = "closing", !.answer = Fixed(x, Clause(clause)), !.hedged = TRUE]

\* run_parametric_guard, or the first lines of run_verify.
Verify(t, clause) ==
  LET x == chat[t]
      blocked == Equivalent(x) \/ (~CriticDue(x) /\ Parametric(x))
  IN /\ x.step = "verifying"
     /\ \/ blocked /\ Becomes(t, Hedge(x, clause))
        \/ ~blocked /\ Becomes(t,
             [x EXCEPT !.step = IF CriticDue(x) THEN "criticising" ELSE "closing"])

\* "trap": a reviewed trap or cell of the matrix, or a speed over its limit.
Judged(x, v) == [x EXCEPT !.verdict = [draft |-> x.answer.draft, result |-> v]]

\* An answer of the critic. Some traps have no note to correct a text with.
Criticise(t, v, noted, clause) ==
  LET x == Judged(chat[t], v)
      again == x.step = "criticising again"
  IN /\ x.step \in {"criticising", "criticising again"}
     /\ \/ v = "unparsed" /\ ~again /\ Becomes(t, [x EXCEPT !.step = "criticising again"])
        \/ /\ v \in {"clean", "advisory"} /\ ~Parametric(x)
           /\ Becomes(t, [x EXCEPT !.step = "closing"])
        \/ /\ (v = "unparsed" /\ again) \/ v = "trap"
           /\ ~Parametric(x) /\ ~noted
           /\ Becomes(t, Hedge(x, clause))
        \/ /\ v # "unparsed" \/ again
           /\ Parametric(x) \/ (v = "trap" /\ noted)
           /\ Becomes(t, [x EXCEPT !.step = "correcting"])

\* Mutant: the corrected text is taken as it comes.
CorrectUnchecked(t, faults) ==
  LET x == chat[t]
  IN /\ x.step = "correcting"
     /\ Becomes(t, [x EXCEPT !.step = "closing", !.answer = Draft(x, faults), !.calls = @ + 1])

Correct(t, faults) ==
  LET x == chat[t]
  IN /\ x.step = "correcting"
     /\ Becomes(t, [x EXCEPT !.step = "rechecking", !.answer = Draft(x, faults), !.calls = @ + 1])

\* Mutant: only the critic is asked again.
RecheckTraps(t, v, clause) ==
  LET x == Judged(chat[t], v)
  IN /\ x.step = "rechecking"
     /\ Becomes(t, IF v = "trap" THEN Hedge(x, clause) ELSE [x EXCEPT !.step = "closing"])

\* Whether the critic answered is not looked at here.
Recheck(t, v, clause) ==
  LET x == Judged(chat[t], v)
  IN /\ x.step = "rechecking"
     /\ Becomes(t, IF v = "trap" \/ Parametric(x) THEN Hedge(x, clause)
                   ELSE [x EXCEPT !.step = "closing"])
-----------------------------------------------------------------------------
(* The last guards, the cache and the record of the turn: no await between. *)

\* The deterministic renderers and the refusal of what asks for secrets.
Overridden(x, clause) ==
  IF Has(x, "override") THEN [x EXCEPT !.answer = Fixed(x, Clause(clause))] ELSE x

Leaks(x) == "leak" \in x.answer.faults
WithoutLeak(x, clause) == IF Leaks(x) THEN [x EXCEPT !.answer = Fixed(x, Clause(clause))] ELSE x

Blocked(x) == Guarded(x) /\ "contract" \in x.answer.faults

\* Mutant: the mapping of the first pass stays.
MappedOnce(x, leaked) == x.mapped

FinalMapping(x, leaked) ==
  IF Guarded(x) /\ ~Blocked(x) /\ ~x.hedged /\ ~leaked THEN Mapped(x) ELSE NoAnswer

\* leaked: the exfiltration guard has replaced the text.
FinalGuard(x, leaked, value) ==
  [x EXCEPT !.answer = IF Blocked(x) THEN Fallback(x, value) ELSE @,
            !.mapped = FinalMapping(x, leaked)]

Closed(x, clause, value) ==
  LET y == Overridden(x, clause)
  IN FinalGuard(WithoutLeak(y, clause), Leaks(y), value)

Cached(x) ==
  IF Cacheable(x.request) /\ ~x.hit /\ x.plan.class = "S0"
  THEN [cache EXCEPT ![Key(x.request)] = [answer |-> x.answer, of |-> x.request]]
  ELSE cache

\* Mutant: what the generator said is recorded.
RecordedDraft(x, y) == x.answer

Recorded(x, y) == y.answer

\* record_turn refuses a turn whose case has changed; the answer is cached by then.
Close(t, clause, value, accepted) ==
  LET x == chat[t]
      y == Closed(x, clause, value)
  IN /\ x.step = "closing"
     /\ chat' = [chat EXCEPT ![t] =
          IF accepted THEN [y EXCEPT !.step = "settling", !.recorded = Recorded(x, y)]
          ELSE [y EXCEPT !.step = "failed"]]
     /\ cache' = Cached(y)
     /\ UNCHANGED <<served, deployment>>

\* The distiller has answered, or was given up.
Settle(t) ==
  /\ chat[t].step = "settling"
  /\ Becomes(t, [chat[t] EXCEPT !.step = "done"])

\* The client goes away, or what is awaited fails.
Abort(t) ==
  /\ chat[t].step \in Awaiting
  /\ Becomes(t, [chat[t] EXCEPT !.step = "failed"])
\* The next request takes the place of an ended one.
Leave(t) ==
  /\ chat[t].step \in {"done", "failed"}
  /\ Becomes(t, Idle)
-----------------------------------------------------------------------------
(* The rest of the world.                                                  *)

\* The time to live has passed, or the entry gives way to others.
Expire(k) ==
  /\ cache[k] # NoEntry
  /\ cache' = [cache EXCEPT ![k] = NoEntry]
  /\ UNCHANGED <<chat, served, deployment>>

Withdraw(c) ==
  /\ c \in served
  /\ served' = served \ {c}
  /\ UNCHANGED <<chat, cache, deployment>>

Approve(c) ==
  /\ c \notin served
  /\ served' = served \cup {c}
  /\ chat' = [t \in ChatTurns |-> [chat[t] EXCEPT !.seen = @ \cup {c}]]
  /\ UNCHANGED <<cache, deployment>>

ChatStep(t) ==
  \/ \E r \in Requests : Receive(t, r)
  \/ \E points \in SUBSET LedgerClaims : Ground(t, points)
  \/ Decide(t)
  \/ \E faults \in DraftFaults : Generate(t, faults) \/ Correct(t, faults)
  \/ \E value \in BOOLEAN : ReviewDraft(t, value)
  \/ \E clause \in BOOLEAN : Verify(t, clause)
  \/ \E v \in CriticVerdicts, noted, clause \in BOOLEAN : Criticise(t, v, noted, clause)
  \/ \E v \in CriticVerdicts, clause \in BOOLEAN : Recheck(t, v, clause)
  \/ \E clause, value, accepted \in BOOLEAN : Close(t, clause, value, accepted)
  \/ Settle(t)
  \/ Abort(t)
  \/ Leave(t)

World ==
  \/ \E k \in Tenants \X Questions : Expire(k)
  \/ \E c \in LedgerClaims : Withdraw(c) \/ Approve(c)

TurnNext == World \/ \E t \in ChatTurns : ChatStep(t)

TurnSpec == TurnInit /\ [][TurnNext]_turnVars
-----------------------------------------------------------------------------
TurnRecord == [
  step : Steps, request : Requests \cup {NoRequest}, hit : BOOLEAN, facts : SUBSET LedgerClaims,
  plan : Plan \cup {NoPlan}, answer : Answer \cup {NoAnswer}, calls : 0..3,
  regenerated : BOOLEAN, hedged : BOOLEAN,
  verdict : [draft : 0..3, result : CriticVerdicts] \cup {NoVerdict},
  mapped : Answer \cup {NoAnswer}, recorded : Answer \cup {NoAnswer}, seen : SUBSET LedgerClaims]

\* At most three texts are generated for a turn: the draft, one regeneration for
\* the output guard, one correction for the critic.
TurnTypeOK ==
  /\ chat \in [ChatTurns -> TurnRecord]
  /\ cache \in [Tenants \X Questions -> Entry \cup {NoEntry}]
  /\ served \subseteq LedgerClaims
  /\ deployment \in [knowledge : BOOLEAN, verifier : BOOLEAN]

Done(x) == x.step = "done"

\* What reaches the user leaks nothing, asserts no value that the kernel has not
\* computed (unless a reviewed claim does), and keeps to the contract wherever there
\* is one, also when it was answered from the cache and whichever of the later
\* guards replaced the text.
ShippedIsGuarded ==
  \A t \in ChatTurns :
    LET x == chat[t]
    IN Done(x) =>
         /\ "leak" \notin x.answer.faults
         /\ x.answer.by = "model" => "parametric" \notin x.answer.faults
         /\ Guarded(x) \/ (x.hit /\ x.answer.by # "fixed") => "contract" \notin x.answer.faults

\* Where the critic is due, a text of the model that ships is the one the critic
\* was asked about last, and the critic did not object: no later draft slips past it.
ShippedIsTheVerified ==
  \A t \in ChatTurns :
    LET x == chat[t]
    IN Done(x) /\ CriticDue(x) /\ x.answer.by = "model" =>
         x.verdict.draft = x.answer.draft /\ x.verdict.result # "trap"

\* An answer generated in the turn rests on claims that the ledger served at some
\* time of the turn, however old the index that found them is.
FreshUnlessCached ==
  \A t \in ChatTurns :
    LET x == chat[t]
    IN Done(x) /\ ~x.hit /\ x.answer.by # "fixed" => x.facts \subseteq x.seen

\* No model is called without reviewed evidence outside small talk, none in a risky
\* technical case without a review by a human, none beside a cached answer.
PolicyIsSafe ==
  \A t \in ChatTurns :
    LET x == chat[t]
    IN x.calls > 0 =>
         /\ Evidence(x) \/ x.request.route \in {"smalltalk", "intake"}
         /\ Technical(x.request) /\ Has(x, "risk") => x.plan.review
         /\ ~x.hit

\* A cached answer was given without a case, a risk or foreign content, so that it
\* fits every later asker, and has passed the guards that a hit does not pass again.
CacheIsPlain ==
  \A k \in Tenants \X Questions :
    LET entry == cache[k]
    IN entry # NoEntry =>
         /\ entry.of.traits \cap {"fields", "conflicts", "missing", "risk", "untrusted"} = {}
         /\ {"contract", "leak"} \cap entry.answer.faults = {}

\* The claim mappings shown beside an answer are those of that very answer, not of
\* a draft that a later guard has replaced.
MappingIsOfTheAnswer ==
  \A t \in ChatTurns :
    LET x == chat[t] IN Done(x) /\ x.mapped # NoAnswer => x.mapped = x.answer

\* What the case remembers of a turn is what was shown, and it remembers nothing
\* of a turn that has not passed the last guard.
RecordedIsShipped ==
  \A t \in ChatTurns :
    LET x == chat[t]
    IN /\ Done(x) => x.recorded = x.answer
       /\ x.recorded # NoAnswer => x.step \in {"settling", "done", "failed"}

\* orchestration/answer_cache.py: "no cross-tenant or stale-knowledge fallback".
\* No shown answer rests on claims that were withdrawn before its turn began.
NoStaleKnowledge ==
  \A t \in ChatTurns :
    LET x == chat[t] IN Done(x) /\ x.answer.by # "fixed" => x.facts \subseteq x.seen

\* run_verify: a verdict that does not parse is no verdict, "never PASS". A text of
\* the model that ships where the critic is due has a verdict.
NeverPassesUnverified ==
  \A t \in ChatTurns :
    LET x == chat[t]
    IN Done(x) /\ CriticDue(x) /\ x.answer.by = "model" => x.verdict.result # "unparsed"
=============================================================================
