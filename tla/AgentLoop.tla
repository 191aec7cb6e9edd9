------------------------------ MODULE AgentLoop ------------------------------
(***************************************************************************)
(* The agent's Planner -> Executor -> Critic loop for one media, goal and  *)
(* mode (agent-py/app/agent/loop.py), as the Run RPC calls it: several     *)
(* runs, each of which resumes from the checkpoints the earlier ones left. *)
(*                                                                         *)
(* A run is interrupted by a failed call, a deadline, a budget or the end  *)
(* of the process.  A step is a model call together with the checkpoint    *)
(* that stores its answer: a run that ends between the two leaves what one *)
(* that ends before the call leaves.                                       *)
(*                                                                         *)
(* Of a plan only its existence is kept, of a context whether a draft was  *)
(* written from it, of an answer what the checks of the code tell apart.   *)
(***************************************************************************)
EXTENDS Naturals

CONSTANTS Runs,       \* the Run calls for this goal
          MaxRounds,  \* AGENT_MAX_ROUNDS
          MaxTokens,  \* the token budget of a run, in model calls
          Chunks,     \* the chunks of a long video, each to be summarised; 0 for a short one
          Overlap     \* may a run start while an earlier one is still going?

ASSUME AgentAssumption == /\ MaxRounds \in Nat \ {0}
                          /\ MaxTokens \in Nat
                          /\ Chunks \in Nat
                          /\ Overlap \in BOOLEAN

VARIABLES chunked,     \* is there a checkpoint media:chunks?
          planned,     \* is there a checkpoint goal:<digest>:plan?
          critic,      \* checkpoint goal:<digest>:criticState
          result,      \* checkpoint goal:<digest>:result
          stage,       \* checkpoint goal:<digest>:stage
          pc,          \* where each run is
          state,       \* `state` of _run_within_budget (`saved`, at first)
          resumed,     \* is the result in hand the draft of an earlier run?
          spent        \* model calls of the run (AgentTelemetry.current_usage)

store == <<chunked, planned, critic, result, stage>>
vars == <<chunked, planned, critic, result, stage, pc, state, resumed, spent>>

----------------------------------------------------------------------------
(* Data                                                                    *)

\* What a critique can ask for: rewriting, missing requirements, other evidence.
Needs == {"feedback", "missing", "evidence"}

Critiques == [verdict : {"none", "passed", "failed"}, needs : SUBSET Needs]
NoCritique == [verdict |-> "none", needs |-> {}]

\* An AnalysisResult: is it complete (_is_result_valid), and what is its evidence worth?  There is none, or all of
\* it is taken from the context the result was written from and bound to the conclusions, or some of it is not.
Results == [valid : BOOLEAN, evidence : {"none", "real", "bogus"}]
NoResult == [valid |-> FALSE, evidence |-> "none"]

\* What execute() may return.
Drafts == {r \in Results : r.valid => r.evidence # "none"}

States == [round : Nat, result : Results, critique : Critiques]
NoState == [round |-> 0, result |-> NoResult, critique |-> NoCritique]

Exists(s) == s # NoState

\* What EvidenceVerificationService may say of a result: evidence copied from the context in hand is found there,
\* invented evidence is not, and evidence of an earlier run's selection of segments may or may not be.
Supported(r, elsewhere) == IF r.evidence = "bogus" THEN {FALSE} ELSE IF elsewhere THEN BOOLEAN ELSE {TRUE}

\* Mutant: structure is left to the model.
EnforceNoStructure(r, q) == q

\* _enforce_structure_bounds: an incomplete result never passes.
EnforceStructure(r, q) ==
  IF r.valid THEN q ELSE [verdict |-> "failed", needs |-> q.needs \cup {"feedback"}]

\* The consistency rules of _enforce_evidence_bounds: a critique with demands does not pass, one that fails
\* without any asks for a rewrite.
Consistent(q) ==
  [verdict |-> IF q.needs # {} THEN "failed" ELSE q.verdict,
   needs |-> IF q.verdict = "failed" /\ q.needs = {} THEN {"feedback"} ELSE q.needs]

\* _enforce_evidence_bounds: what cannot be found in the context is sent back for other evidence.
EnforceEvidence(r, supported, q) ==
  IF r.evidence = "none" \/ supported
    THEN Consistent(q)
    ELSE [verdict |-> "failed", needs |-> q.needs \cup {"feedback", "evidence"}]

\* The critique that is kept, for the model's answer q.
Judged(r, supported, q) == EnforceEvidence(r, supported, EnforceStructure(r, q))

\* terminal: nothing is left to do but to keep the result.
Terminal(s) == /\ s.critique.verdict # "none"
               /\ s.round >= MaxRounds \/ s.critique.verdict = "passed"

\* The stage that save_result records.
CompletedStage(s) ==
  IF s.critique.verdict = "passed" THEN "ANALYSIS_COMPLETED" ELSE "ANALYSIS_COMPLETED_WITH_WARNINGS"

Stages == {"NONE", "PLAN_COMPLETED", "EXECUTOR_COMPLETED", "CRITIC_PASSED", "CRITIC_RETRY_REQUIRED",
           "ANALYSIS_COMPLETED", "ANALYSIS_COMPLETED_WITH_WARNINGS"}

Steps == {"idle", "load", "select", "resolve", "planned", "retry", "replan", "round", "drafted", "finish", "done"}

----------------------------------------------------------------------------
Init ==
  /\ chunked = FALSE /\ planned = FALSE /\ critic = NoState /\ result = NoState /\ stage = "NONE"
  /\ pc = [r \in Runs |-> "idle"]
  /\ state = [r \in Runs |-> NoState]
  /\ resumed = [r \in Runs |-> FALSE]
  /\ spent = [r \in Runs |-> 0]

GoTo(r, step) == pc' = [pc EXCEPT ![r] = step]

\* _structured_chat: an answer that is no JSON is asked for once more.
Asked == 1 .. 2

\* _retrieval_intent: a long video is searched with the help of the model, if it answers.
Retrieval == IF Chunks = 0 THEN {0} ELSE 0 .. 2

Spend(r, calls) == spent' = [spent EXCEPT ![r] = @ + calls]

\* The call returns or raises; what it knew is gone.
Return(r) ==
  /\ GoTo(r, "done")
  /\ state' = [state EXCEPT ![r] = NoState]
  /\ resumed' = [resumed EXCEPT ![r] = FALSE]
  /\ spent' = [spent EXCEPT ![r] = 0]

\* The token half of _check_budget; a deadline is an Interrupt.
WithinBudget(r) == spent[r] <= MaxTokens

\* AgentService.run, AgentLoopService.run: a call of Run.  The gateway's lock admits one call at a time; a call
\* whose gateway died goes on in the agent, though, and may overlap with the next one.
Start(r) ==
  /\ pc[r] = "idle"
  /\ Overlap \/ \A q \in Runs \ {r} : pc[q] \in {"idle", "done"}
  /\ GoTo(r, "load")
  /\ UNCHANGED <<store, state, resumed, spent>>

\* What a run makes of the checkpoint it finds.
Saved == IF Terminal(critic) /\ ~critic.result.valid THEN [critic EXCEPT !.round = 0] ELSE critic

\* The checkpoint a run starts from.  A terminal one is the answer, unless its result is incomplete: then the
\* rounds start again, with the last critique as feedback.
Load(r) ==
  /\ pc[r] = "load"
  /\ state' = [state EXCEPT ![r] = Saved]
  /\ GoTo(r, IF Terminal(critic) /\ critic.result.valid THEN "finish" ELSE "select")
  /\ UNCHANGED <<store, resumed, spent>>

\* select_relevant: the segments for the goal.  The first run on a long video summarises and saves its chunks.
Select(r) ==
  /\ pc[r] = "select"
  /\ \E calls \in IF chunked THEN {0} ELSE 0 .. 2 * Chunks, more \in Retrieval : Spend(r, calls + more)
  /\ chunked' = (Chunks > 0)
  /\ GoTo(r, "resolve")
  /\ UNCHANGED <<planned, critic, result, stage, state, resumed>>

\* _resolve_plan: the plan on record, or a new one that is saved.  The Planner is asked a second time if its first
\* answer needs repair; a plan that is still invalid ends the run (Interrupt).
ResolvePlan(r) ==
  /\ pc[r] = "resolve"
  /\ IF planned \/ Exists(state[r])
       THEN UNCHANGED <<planned, stage, spent>>
       ELSE /\ planned' = TRUE
            /\ stage' = "PLAN_COMPLETED"
            /\ \E calls \in 1 .. 4 : Spend(r, calls)
  /\ GoTo(r, "planned")
  /\ UNCHANGED <<chunked, critic, result, state, resumed>>

\* Mutant: a draft is taken for a finished round and the next one begun.
PlannedForgetsDraft(r) ==
  /\ pc[r] = "planned"
  /\ WithinBudget(r)
  /\ GoTo(r, IF state[r].critique.verdict = "failed" THEN "retry"
             ELSE IF state[r].round < MaxRounds THEN "round"
             ELSE "drafted")
  /\ UNCHANGED <<store, state, resumed, spent>>

\* After the Planner: a failed critique is worked on, a draft nobody has criticised goes to the Critic, otherwise
\* the next round begins.
Planned(r) ==
  LET uncriticised == state[r].critique.verdict = "none" /\ state[r].round > 0
  IN /\ pc[r] = "planned"
     /\ WithinBudget(r)
     /\ resumed' = [resumed EXCEPT ![r] = uncriticised]
     /\ GoTo(r, IF state[r].critique.verdict = "failed" THEN "retry"
                ELSE IF uncriticised THEN "drafted"
                ELSE "round")
     /\ UNCHANGED <<store, state, spent>>

\* _context_for_retry: other segments, if the critique asks for more than a rewrite.
Retry(r) ==
  LET needs == state[r].critique.needs
  IN /\ pc[r] = "retry"
     /\ \E calls \in IF needs \cap {"missing", "evidence"} # {} THEN Retrieval ELSE {0} : Spend(r, calls)
     /\ GoTo(r, IF "missing" \in needs THEN "replan" ELSE "round")
     /\ UNCHANGED <<store, state, resumed>>

\* _revise_plan_for_retry: the plan is revised and saved.  Every exception is caught, and the run goes on with the
\* plan it has, even if the database stored the revised one before the error.
Replan(r) ==
  /\ pc[r] = "replan"
  /\ \E calls \in 0 .. 2 : Spend(r, calls)
  /\ stage' \in {stage, "PLAN_COMPLETED"}
  /\ GoTo(r, "round")
  /\ UNCHANGED <<chunked, planned, critic, result, state, resumed>>

\* Mutant: no budget check before the round.
ExecuteUnchecked(r) ==
  /\ pc[r] = "round"
  /\ \E draft \in Drafts :
       critic' = [round |-> state[r].round + 1, result |-> draft, critique |-> NoCritique]
  /\ state' = [state EXCEPT ![r] = critic']
  /\ stage' = "EXECUTOR_COMPLETED"
  /\ resumed' = [resumed EXCEPT ![r] = FALSE]
  /\ \E calls \in Asked : Spend(r, calls)
  /\ GoTo(r, "drafted")
  /\ UNCHANGED <<chunked, planned, result>>

\* _execute_round up to the Critic: the draft is a checkpoint of its own.
Execute(r) ==
  /\ pc[r] = "round"
  /\ WithinBudget(r)
  /\ \E draft \in Drafts :
       critic' = [round |-> state[r].round + 1, result |-> draft, critique |-> NoCritique]
  /\ state' = [state EXCEPT ![r] = critic']
  /\ stage' = "EXECUTOR_COMPLETED"
  /\ resumed' = [resumed EXCEPT ![r] = FALSE]
  /\ \E calls \in Asked : Spend(r, calls)
  /\ GoTo(r, "drafted")
  /\ UNCHANGED <<chunked, planned, result>>

\* Mutant: the loop is left after the first round.
AfterCriticGivesUp(r, s) == "finish"

\* Where a run goes once its round is criticised.  The for loop ends when the Critic passes; a draft that was
\* resumed is criticised before the loop, which then runs whatever the verdict.
AfterCritic(r, s) ==
  IF s.round >= MaxRounds THEN "finish"
  ELSE IF s.critique.verdict = "failed" THEN "retry"
  ELSE IF resumed[r] THEN "round"
  ELSE "finish"

\* _critique_round, after the budget check that precedes it.
Critique(r) ==
  /\ pc[r] = "drafted"
  /\ WithinBudget(r)
  /\ \E q \in [verdict : {"passed", "failed"}, needs : SUBSET Needs],
        supported \in Supported(state[r].result, resumed[r]) :
       critic' = [state[r] EXCEPT !.critique = Judged(state[r].result, supported, q)]
  /\ state' = [state EXCEPT ![r] = critic']
  /\ stage' = IF critic'.critique.verdict = "passed" THEN "CRITIC_PASSED" ELSE "CRITIC_RETRY_REQUIRED"
  /\ \E calls \in Asked : Spend(r, calls)
  /\ GoTo(r, AfterCritic(r, critic'))
  /\ UNCHANGED <<chunked, planned, result, resumed>>

\* Mutant: the run waits for a result that is complete.
FinishWaits(r) ==
  /\ pc[r] = "finish"
  /\ state[r].result.valid
  /\ result' = state[r] /\ stage' = CompletedStage(state[r])
  /\ Return(r)
  /\ UNCHANGED <<chunked, planned, critic>>

\* _validate_result and save_result: the answer of the run.  An incomplete result is an error instead.
Finish(r) ==
  /\ pc[r] = "finish"
  /\ IF state[r].result.valid
       THEN result' = state[r] /\ stage' = CompletedStage(state[r])
       ELSE UNCHANGED <<result, stage>>
  /\ Return(r)
  /\ UNCHANGED <<chunked, planned, critic>>

\* _check_budget: the run is over its budget.
BudgetStop(r) ==
  /\ pc[r] \in {"planned", "round", "drafted"}
  /\ ~WithinBudget(r)
  /\ Return(r)
  /\ UNCHANGED store

\* A model or store call fails for good, the deadline of open_budget strikes, or the process ends.  The checkpoint
\* of the last step is in the store.
Interrupt(r) ==
  /\ pc[r] \notin {"idle", "done"}
  /\ Return(r)
  /\ UNCHANGED store

\* The steps a run takes on its own.
Proceed(r) == \/ Load(r) \/ Select(r) \/ ResolvePlan(r) \/ Planned(r) \/ Retry(r) \/ Replan(r)
              \/ Execute(r) \/ Critique(r) \/ Finish(r) \/ BudgetStop(r)

Next == \E r \in Runs : Start(r) \/ Proceed(r) \/ Interrupt(r)

Spec == Init /\ [][Next]_vars

\* A handler thread that runs goes on.
FairSpec == Spec /\ \A r \in Runs : WF_vars(Proceed(r))

----------------------------------------------------------------------------
(* Properties                                                              *)

\* Every variable has its type, and no checkpoint is beyond the last round (AGENT_MAX_ROUNDS).
TypeOK ==
  /\ chunked \in BOOLEAN /\ planned \in BOOLEAN
  /\ critic \in States /\ critic.round <= MaxRounds
  /\ result \in States
  /\ stage \in Stages
  /\ pc \in [Runs -> Steps]
  /\ state \in [Runs -> States]
  /\ resumed \in [Runs -> BOOLEAN]
  /\ spent \in [Runs -> Nat]

\* A saved result is complete, and either passed the Critic or has used up the rounds: no interruption and no
\* resumption lets an unfinished draft through (loop.py, _run_within_budget, save_result).
ResultIsFinal == Exists(result) => result.result.valid /\ Terminal(result)

\* Whatever the model says, a checkpoint says "passed" only of a complete result none of whose evidence is
\* invented and of which nothing more is demanded (loop.py, _enforce_structure_bounds, _enforce_evidence_bounds).
PassedIsVerified ==
  \A s \in {critic, result} :
    s.critique.verdict = "passed" => s.result.valid /\ s.result.evidence = "real" /\ s.critique.needs = {}

\* Once past the Planner a run ends within six model calls of its budget: criticising, refreshing the evidence and
\* replanning, each asked twice, are all that lies between two checks; before, the summaries of the chunks come on
\* top and are not checked (loop.py, _check_budget).
BudgetBounded ==
  \A r \in Runs : spent[r] <= IF pc[r] \in {"resolve", "planned"} THEN 2 * Chunks + 6 ELSE MaxTokens + 6

\* Once the result is saved, no later run changes the checkpoint it came from or hides it behind another stage
\* (loop.py, terminal checkpoint).
ResultStands == Exists(result) => critic = result /\ stage = CompletedStage(result)

\* The order of rounds: a saved draft is criticised, never made again or skipped; only an incomplete last round
\* starts them anew.
RoundStep ==
  critic' # critic =>
    IF critic.critique.verdict = "none" /\ critic.round > 0
      THEN critic'.round = critic.round /\ critic'.result = critic.result
      ELSE \/ critic'.round = critic.round + 1
           \/ critic'.round = 1 /\ Terminal(critic) /\ ~critic.result.valid

\* Rounds follow each other across interruptions and resumptions (loop.py:151, resuming from the Executor draft).
RoundsAdvance == [][RoundStep]_vars

\* A run that has begun ends (loop.py, the bounded rounds).
RunsEnd == \A r \in Runs : pc[r] = "load" ~> pc[r] = "done"

=============================================================================
