--------------------------- MODULE AgentLoopProofs ---------------------------
(***************************************************************************)
(* The agent loop, for any number of runs, rounds and any budget: what is  *)
(* saved as a result is final and verified, and budgets hold, even if runs *)
(* overlap; if they do not, a result stands and rounds follow each other.  *)
(***************************************************************************)
EXTENDS AgentLoop, TLAPS

\* A result with all its parts has evidence (_is_result_valid).
Sound(s) == s.result.valid => s.result.evidence # "none"

Verified(s) == s.critique.verdict = "passed" =>
                 s.result.valid /\ s.result.evidence = "real" /\ s.critique.needs = {}

Starting == {"select", "resolve", "planned"}
Looping == {"retry", "replan", "round"}

\* What a run has in hand: rounds stay in their bound, nothing passes unverified, and what is about to be saved is
\* terminal.
RunInv(r) ==
  /\ state[r].round <= MaxRounds
  /\ Sound(state[r]) /\ Verified(state[r])
  /\ pc[r] \in Starting => state[r].critique.verdict = "none" \/ state[r].round < MaxRounds
  /\ pc[r] \in Looping => state[r].round < MaxRounds
  /\ pc[r] = "drafted" => state[r].round > 0 /\ state[r].critique.verdict = "none"
  /\ pc[r] = "finish" => Terminal(state[r])

LoopInv ==
  /\ TypeOK
  /\ Sound(critic) /\ Verified(critic) /\ Verified(result)
  /\ ResultIsFinal
  /\ \A r \in Runs : RunInv(r)

\* The Critic's rules, whatever the model answers.
LEMMA JudgedIsVerified ==
  ASSUME NEW s \in States, Sound(s), NEW elsewhere \in BOOLEAN, NEW supported \in Supported(s.result, elsewhere),
         NEW q \in [verdict : {"passed", "failed"}, needs : SUBSET Needs]
  PROVE  LET c == Judged(s.result, supported, q)
         IN /\ c \in Critiques
            /\ c.verdict \in {"passed", "failed"}
            /\ c.verdict = "passed" => s.result.valid /\ s.result.evidence = "real" /\ c.needs = {}
<1> DEFINE e == EnforceStructure(s.result, q)
<1>1. /\ e \in [verdict : {"passed", "failed"}, needs : SUBSET Needs]
      /\ ~s.result.valid => e.needs # {}
  BY DEF EnforceStructure, Needs
<1>2. supported \in BOOLEAN /\ (s.result.evidence = "bogus" => ~supported)
  BY DEF Supported
<1>3. s.result.evidence \in {"none", "real", "bogus"} /\ s.result.valid \in BOOLEAN
  BY DEF States, Results
<1>4. CASE s.result.evidence = "none" \/ supported
  <2>1. Judged(s.result, supported, q) = Consistent(e)
    BY <1>4 DEF Judged, EnforceEvidence
  <2>2. /\ Consistent(e) \in [verdict : {"passed", "failed"}, needs : SUBSET Needs]
        /\ Consistent(e).verdict = "passed" => e.needs = {} /\ Consistent(e).needs = {}
    <3> HIDE DEF e
    <3> QED BY <1>1 DEF Consistent, Needs
  <2>3. Consistent(e).verdict = "passed" => s.result.valid /\ s.result.evidence = "real"
    BY <1>1, <1>2, <1>3, <1>4, <2>2 DEF Sound
  <2> QED BY <2>1, <2>2, <2>3 DEF Critiques
<1>5. CASE ~(s.result.evidence = "none" \/ supported)
  BY <1>1, <1>5 DEF Judged, EnforceEvidence, Critiques, Needs
<1> QED BY <1>4, <1>5

LEMMA NothingYet == NoState \in States /\ Sound(NoState) /\ Verified(NoState) /\ NoState.round = 0
BY DEF NoState, NoResult, NoCritique, States, Results, Critiques, Needs, Sound, Verified

LEMMA LoopInit == Init => LoopInv
<1> SUFFICES ASSUME Init PROVE LoopInv
  OBVIOUS
<1>1. TypeOK
  <2>1. chunked \in BOOLEAN /\ planned \in BOOLEAN /\ resumed \in [Runs -> BOOLEAN]
    BY Zenon DEF Init
  <2>2. critic \in States /\ critic.round <= MaxRounds /\ result \in States /\ stage \in Stages
    BY NothingYet, AgentAssumption DEF Init, Stages
  <2>3. pc \in [Runs -> Steps] /\ state \in [Runs -> States] /\ spent \in [Runs -> Nat]
    BY NothingYet DEF Init, Steps
  <2> QED BY <2>1, <2>2, <2>3 DEF TypeOK
<1>2. ResultIsFinal
  BY DEF Init, ResultIsFinal, Exists
<1>3. ASSUME NEW r \in Runs PROVE RunInv(r)
  BY NothingYet, AgentAssumption DEF Init, RunInv, Starting, Looping
<1> QED BY <1>1, <1>2, <1>3, NothingYet DEF Init, LoopInv

\* A run that returns leaves nothing behind.
LEMMA ReturnKeeps ==
  ASSUME LoopInv, NEW r \in Runs, Return(r), chunked' \in BOOLEAN, planned' \in BOOLEAN, stage' \in Stages, critic' = critic,
         result' = result \/ (result' = state[r] /\ pc[r] = "finish" /\ state[r].result.valid)
  PROVE  LoopInv'
<1>2. TypeOK'
  BY NothingYet DEF LoopInv, TypeOK, Return, GoTo, Steps
<1>3. Verified(result)' /\ ResultIsFinal'
  BY DEF LoopInv, RunInv, ResultIsFinal, Verified, Terminal
<1>4. ASSUME NEW q \in Runs PROVE RunInv(q)'
  <2>1. CASE q = r
    BY NothingYet, <2>1, AgentAssumption DEF LoopInv, TypeOK, RunInv, Return, GoTo, Starting, Looping, Sound, Verified
  <2>2. CASE q # r
    BY <2>2 DEF LoopInv, TypeOK, RunInv, Return, GoTo, Sound, Verified, Terminal
  <2> QED BY <2>1, <2>2
<1> QED BY <1>2, <1>3, <1>4 DEF LoopInv, Sound, Verified

\* A step of r that leaves the checkpoints alone.
LEMMA OthersKept ==
  ASSUME LoopInv, NEW r \in Runs, NEW q \in Runs, q # r,
         pc'[q] = pc[q], state'[q] = state[q]
  PROVE  RunInv(q)'
BY DEF LoopInv, RunInv, Sound, Verified, Terminal

LEMMA LoopStep ==
  ASSUME LoopInv, NEW r \in Runs, Start(r) \/ Proceed(r) \/ Interrupt(r)
  PROVE  LoopInv'
<1> USE AgentAssumption
<1>1. CASE Start(r)
  <2>1. TypeOK' BY <1>1 DEF LoopInv, TypeOK, Start, GoTo, store, Steps
  <2>2. ASSUME NEW q \in Runs PROVE RunInv(q)'
    BY <1>1 DEF LoopInv, TypeOK, Start, GoTo, RunInv, Starting, Looping, Sound, Verified, Terminal
  <2> QED BY <1>1, <2>1, <2>2 DEF LoopInv, Start, store, Sound, Verified, ResultIsFinal, Exists, Terminal
<1>2. CASE Load(r)
  <2> DEFINE s == Saved
  <2>1. /\ s \in States /\ s.round <= MaxRounds /\ Sound(s) /\ Verified(s)
        /\ s.result = critic.result /\ s.critique = critic.critique
    BY DEF Saved, LoopInv, TypeOK, States, Sound, Verified, Terminal
  <2>2. TypeOK' BY <1>2, <2>1 DEF LoopInv, TypeOK, Load, GoTo, store, Steps
  <2>3. RunInv(r)'
    <3>1. state'[r] = s /\ pc'[r] = IF Terminal(critic) /\ critic.result.valid THEN "finish" ELSE "select"
      BY <1>2 DEF LoopInv, TypeOK, Load, GoTo
    <3>2. Sound(state[r])' /\ Verified(state[r])' /\ (state[r].round <= MaxRounds)'
      BY <2>1, <3>1 DEF Sound, Verified
    <3>3. CASE Terminal(critic) /\ critic.result.valid
      <4>1. s = critic BY <3>3 DEF Saved
      <4> QED BY <3>1, <3>2, <3>3, <4>1 DEF RunInv, Starting, Looping, Terminal
    <3>4. CASE Terminal(critic) /\ ~critic.result.valid
      <4>1. s.round = 0 BY <3>4 DEF Saved, LoopInv, TypeOK, States
      <4> QED BY <3>1, <3>2, <3>4, <4>1 DEF RunInv, Starting, Looping
    <3>5. CASE ~Terminal(critic)
      <4>1. s = critic BY <3>5 DEF Saved
      <4> QED BY <3>1, <3>2, <3>5, <4>1 DEF RunInv, Starting, Looping, Terminal, LoopInv, TypeOK, States
    <3> QED BY <3>3, <3>4, <3>5
  <2>4. ASSUME NEW q \in Runs, q # r PROVE RunInv(q)'
    BY <1>2, <2>4, OthersKept DEF LoopInv, TypeOK, Load, GoTo
  <2> QED BY <1>2, <2>2, <2>3, <2>4 DEF LoopInv, Load, store, Sound, Verified, ResultIsFinal, Exists, Terminal
<1>3. CASE Select(r) \/ ResolvePlan(r) \/ Planned(r) \/ Retry(r) \/ Replan(r)
  <2>1. /\ critic' = critic /\ result' = result /\ state' = state
        /\ chunked' \in BOOLEAN /\ planned' \in BOOLEAN /\ stage' \in Stages
        /\ resumed' \in [Runs -> BOOLEAN] /\ spent' \in [Runs -> Nat]
    <3>1. critic' = critic /\ result' = result /\ state' = state
      BY <1>3 DEF Select, ResolvePlan, Planned, Retry, Replan, store
    <3>2. stage' \in Stages
      BY <1>3 DEF LoopInv, TypeOK, Select, ResolvePlan, Planned, Retry, Replan, store, Stages
    <3>3. planned' \in BOOLEAN /\ chunked' \in BOOLEAN
      <4>1. /\ planned' = planned \/ planned' = TRUE
            /\ chunked' = chunked \/ chunked' = (Chunks > 0)
        BY <1>3 DEF Select, ResolvePlan, Planned, Retry, Replan, store
      <4>2. (Chunks > 0) \in BOOLEAN OBVIOUS
      <4> QED BY <4>1, <4>2, Zenon DEF LoopInv, TypeOK
    <3>4. resumed' \in [Runs -> BOOLEAN]
      BY <1>3 DEF LoopInv, TypeOK, Select, ResolvePlan, Planned, Retry, Replan, store
    <3>5. spent' \in [Runs -> Nat]
      <4>1. spent' = spent \/ \E calls \in Nat : Spend(r, calls)
        BY <1>3 DEF Select, ResolvePlan, Planned, Retry, Replan, store, Retrieval
      <4> QED BY <4>1 DEF Spend, LoopInv, TypeOK
    <3> QED BY <3>1, <3>2, <3>3, <3>4, <3>5
  <2>2. PICK step \in {"resolve", "planned", "retry", "drafted", "round", "replan"} : pc' = [pc EXCEPT ![r] = step]
    BY <1>3 DEF Select, ResolvePlan, Planned, Retry, Replan, GoTo
  <2>3. TypeOK' BY <2>1, <2>2 DEF LoopInv, TypeOK, Steps
  <2>4. RunInv(r)'
    <3>1. RunInv(r) /\ pc'[r] = step /\ state'[r] = state[r] BY <2>1, <2>2 DEF LoopInv, TypeOK
    <3>2. step \in Starting => pc[r] \in Starting
      BY <1>3, <2>2, <3>1 DEF LoopInv, TypeOK, Select, ResolvePlan, Planned, Retry, Replan, GoTo, Starting
    <3>3. step \in Looping => state[r].round < MaxRounds
      BY <1>3, <2>2, <3>1
         DEF LoopInv, TypeOK, Select, ResolvePlan, Planned, Retry, Replan, GoTo, RunInv, Starting, Looping, States
    <3>4. step = "drafted" => state[r].round > 0 /\ state[r].critique.verdict = "none"
      BY <1>3, <2>2, <3>1 DEF LoopInv, TypeOK, Select, ResolvePlan, Planned, Retry, Replan, GoTo
    <3> QED BY <3>1, <3>2, <3>3, <3>4 DEF RunInv, Sound, Verified, Starting, Looping
  <2>5. ASSUME NEW q \in Runs, q # r PROVE RunInv(q)'
    BY <2>1, <2>2, <2>5, OthersKept DEF LoopInv, TypeOK
  <2> QED BY <2>1, <2>3, <2>4, <2>5 DEF LoopInv, Sound, Verified, ResultIsFinal, Exists, Terminal
<1>4. CASE Execute(r)
  <2>1. PICK draft \in Drafts :
          critic' = [round |-> state[r].round + 1, result |-> draft, critique |-> NoCritique]
    BY <1>4 DEF Execute
  <2>2. RunInv(r) /\ state[r].round < MaxRounds /\ state[r].round \in Nat
    BY <1>4 DEF Execute, LoopInv, TypeOK, RunInv, Looping, States
  <2>3. /\ critic' \in States /\ critic'.round <= MaxRounds /\ critic'.round > 0
        /\ critic'.critique.verdict = "none" /\ Sound(critic)' /\ Verified(critic)'
    BY <2>1, <2>2 DEF Drafts, States, NoCritique, Critiques, Needs, Sound, Verified
  <2>4. TypeOK' BY <1>4, <2>3 DEF Execute, LoopInv, TypeOK, GoTo, Spend, Asked, Stages, Steps
  <2>5. RunInv(r)'
    BY <1>4, <2>3 DEF Execute, LoopInv, TypeOK, GoTo, RunInv, Starting, Looping, Sound, Verified
  <2>6. ASSUME NEW q \in Runs, q # r PROVE RunInv(q)'
    BY <1>4, <2>6, OthersKept DEF Execute, LoopInv, TypeOK, GoTo
  <2> QED BY <1>4, <2>3, <2>4, <2>5, <2>6 DEF Execute, LoopInv, Verified, ResultIsFinal, Exists, Terminal
<1>5. CASE Critique(r)
  <2>1. PICK q \in [verdict : {"passed", "failed"}, needs : SUBSET Needs],
             supported \in Supported(state[r].result, resumed[r]) :
          critic' = [state[r] EXCEPT !.critique = Judged(state[r].result, supported, q)]
    BY <1>5 DEF Critique
  <2> DEFINE c == Judged(state[r].result, supported, q)
  <2>2. state[r] \in States /\ resumed[r] \in BOOLEAN /\ Sound(state[r]) /\ RunInv(r)
    BY DEF LoopInv, TypeOK, RunInv
  <2>3. /\ c \in Critiques /\ c.verdict \in {"passed", "failed"}
        /\ c.verdict = "passed" => state[r].result.valid /\ state[r].result.evidence = "real" /\ c.needs = {}
    BY <2>2, JudgedIsVerified
  <2> HIDE DEF c
  <2>4. critic' = [state[r] EXCEPT !.critique = c] BY <2>1 DEF c
  <2>5. /\ critic' \in States /\ critic'.round = state[r].round /\ critic'.result = state[r].result
        /\ critic'.critique = c
    BY <2>2, <2>3, <2>4 DEF States
  <2>6. critic'.round <= MaxRounds /\ Sound(critic)' /\ Verified(critic)'
    BY <2>2, <2>3, <2>5 DEF RunInv, Sound, Verified
  <2>7. AfterCritic(r, critic') \in {"finish", "retry", "round"}
    BY DEF AfterCritic
  <2>8. TypeOK' BY <1>5, <2>5, <2>6, <2>7 DEF Critique, LoopInv, TypeOK, GoTo, Spend, Asked, Stages, Steps
  <2>9. RunInv(r)'
    <3>1. state'[r] = critic' /\ pc'[r] = AfterCritic(r, critic')
      BY <1>5 DEF Critique, LoopInv, TypeOK, GoTo
    <3>2. critic'.round \in Nat BY <2>5 DEF States
    <3>3. AfterCritic(r, critic') # "finish" => critic'.round < MaxRounds
      BY <3>2 DEF AfterCritic
    <3>4. AfterCritic(r, critic') = "finish" => Terminal(critic')
      BY <2>3, <2>5, <3>2 DEF AfterCritic, Terminal
    <3> QED BY <2>6, <2>7, <3>1, <3>3, <3>4 DEF RunInv, Starting, Looping, Sound, Verified, Terminal
  <2>10. ASSUME NEW p \in Runs, p # r PROVE RunInv(p)'
    BY <1>5, <2>10, OthersKept DEF Critique, LoopInv, TypeOK, GoTo
  <2> QED BY <1>5, <2>6, <2>8, <2>9, <2>10 DEF Critique, LoopInv, Verified, ResultIsFinal, Exists, Terminal
<1>6. CASE Finish(r)
  <2>1. stage' \in Stages /\ planned' \in BOOLEAN /\ chunked' \in BOOLEAN
    BY <1>6 DEF Finish, LoopInv, TypeOK, CompletedStage, Stages
  <2> QED BY <1>6, <2>1, ReturnKeeps DEF Finish
<1>7. CASE BudgetStop(r) \/ Interrupt(r)
  BY <1>7, ReturnKeeps DEF BudgetStop, Interrupt, store, LoopInv, TypeOK
<1> QED BY <1>1, <1>2, <1>3, <1>4, <1>5, <1>6, <1>7 DEF Proceed

LEMMA LoopInductive ==
  ASSUME LoopInv, [Next]_vars
  PROVE  LoopInv'
<1>1. CASE UNCHANGED vars
  BY <1>1 DEF vars, LoopInv, TypeOK, RunInv, Sound, Verified, ResultIsFinal, Exists, Terminal
<1>2. CASE Next
  BY <1>2, LoopStep DEF Next
<1> QED BY <1>1, <1>2

LEMMA LoopAlways == Spec => []LoopInv
BY LoopInit, LoopInductive, PTL DEF Spec

\* The state of the loop has its type; the round of a checkpoint stays within AGENT_MAX_ROUNDS, resumed or not.
THEOREM AgentTypeCorrect == Spec => []TypeOK
<1>1. LoopInv => TypeOK BY DEF LoopInv
<1> QED BY <1>1, LoopAlways, PTL

\* What save_result stores is complete and terminal, whatever was interrupted and whichever runs overlap.
THEOREM ResultsAreFinal == Spec => []ResultIsFinal
<1>1. LoopInv => ResultIsFinal BY DEF LoopInv
<1> QED BY <1>1, LoopAlways, PTL

\* A critique that passes has been verified by the code, whatever the model answered.
THEOREM PassesAreVerified == Spec => []PassedIsVerified
<1>1. LoopInv => PassedIsVerified BY DEF LoopInv, Verified, PassedIsVerified
<1> QED BY <1>1, LoopAlways, PTL

----------------------------------------------------------------------------
(* Budgets                                                                 *)

\* The most that can have been spent when a run is at a step.
Overdraft == [step \in Steps |->
  CASE step \in {"idle", "load", "select", "done"} -> 0
    [] step = "resolve" -> 2 * Chunks + 2
    [] step = "planned" -> 2 * Chunks + 6
    [] step \in {"drafted", "retry", "finish"} -> MaxTokens + 2
    [] step = "replan" -> MaxTokens + 4
    [] OTHER -> MaxTokens + 6]

BudgetInv ==
  /\ pc \in [Runs -> Steps]
  /\ spent \in [Runs -> Nat]
  /\ \A r \in Runs : spent[r] <= Overdraft[pc[r]]

LEMMA OverdraftIs ==
  /\ Overdraft["idle"] = 0 /\ Overdraft["load"] = 0 /\ Overdraft["select"] = 0 /\ Overdraft["done"] = 0
  /\ Overdraft["resolve"] = 2 * Chunks + 2 /\ Overdraft["planned"] = 2 * Chunks + 6
  /\ Overdraft["drafted"] = MaxTokens + 2 /\ Overdraft["retry"] = MaxTokens + 2
  /\ Overdraft["finish"] = MaxTokens + 2
  /\ Overdraft["replan"] = MaxTokens + 4
  /\ Overdraft["round"] = MaxTokens + 6
BY DEF Overdraft, Steps

\* A step that leaves no more spent than its target allows.
LEMMA BudgetMove ==
  ASSUME BudgetInv, NEW r \in Runs, NEW step \in Steps, NEW n \in Nat, n <= Overdraft[step],
         pc' = [pc EXCEPT ![r] = step], spent' = [spent EXCEPT ![r] = n]
  PROVE  BudgetInv'
BY DEF BudgetInv

LEMMA BudgetStep ==
  ASSUME BudgetInv, NEW r \in Runs, Start(r) \/ Proceed(r) \/ Interrupt(r)
  PROVE  BudgetInv'
<1> USE AgentAssumption
<1>0. spent[r] \in Nat /\ spent[r] <= Overdraft[pc[r]] /\ spent = [spent EXCEPT ![r] = spent[r]]
  BY DEF BudgetInv
<1>1. CASE Start(r) \/ Load(r)
  <2>1. PICK step \in {"load", "select", "finish"} : pc' = [pc EXCEPT ![r] = step]
    BY <1>1 DEF Start, Load, GoTo
  <2>2. spent[r] = 0 /\ spent' = spent
    BY <1>0, <1>1, OverdraftIs DEF Start, Load
  <2>3. step \in Steps /\ spent[r] <= Overdraft[step]
    BY <2>2, OverdraftIs DEF Steps
  <2> QED BY <1>0, <2>1, <2>2, <2>3, BudgetMove
<1>2. CASE Select(r)
  <2>1. PICK calls \in (IF chunked THEN {0} ELSE 0 .. 2 * Chunks), more \in Retrieval :
          spent' = [spent EXCEPT ![r] = spent[r] + (calls + more)]
    BY <1>2 DEF Select, Spend
  <2>2. calls \in Nat /\ calls <= 2 * Chunks /\ more \in Nat /\ more <= 2
    BY DEF Retrieval
  <2>3. spent[r] + (calls + more) \in Nat /\ spent[r] + (calls + more) <= Overdraft["resolve"]
    BY <1>0, <1>2, <2>2, OverdraftIs DEF Select
  <2> QED BY <1>2, <2>1, <2>3, BudgetMove DEF Select, GoTo, Steps
<1>3. CASE ResolvePlan(r)
  <2>1. PICK calls \in 0 .. 4 : spent' = [spent EXCEPT ![r] = spent[r] + calls]
    <3>1. CASE spent' = spent
      <4>1. spent' = [spent EXCEPT ![r] = spent[r] + 0] BY <1>0, <3>1
      <4> QED BY <4>1
    <3>2. CASE \E calls \in 1 .. 4 : Spend(r, calls)
      <4>1. PICK calls \in 1 .. 4 : spent' = [spent EXCEPT ![r] = spent[r] + calls] BY <3>2 DEF Spend
      <4>2. calls \in 0 .. 4 OBVIOUS
      <4> QED BY <4>1, <4>2
    <3> QED BY <1>3, <3>1, <3>2 DEF ResolvePlan
  <2>2. spent[r] + calls \in Nat /\ spent[r] + calls <= Overdraft["planned"]
    BY <1>0, <1>3, OverdraftIs DEF ResolvePlan
  <2> QED BY <1>3, <2>1, <2>2, BudgetMove DEF ResolvePlan, GoTo, Steps
<1>4. CASE Planned(r)
  <2>1. PICK step \in {"retry", "drafted", "round"} : pc' = [pc EXCEPT ![r] = step]
    BY <1>4 DEF Planned, GoTo
  <2>2. step \in Steps /\ spent[r] <= Overdraft[step] /\ spent' = spent
    BY <1>0, <1>4, OverdraftIs DEF Planned, WithinBudget, Steps
  <2> QED BY <1>0, <2>1, <2>2, BudgetMove
<1>5. CASE Retry(r)
  <2>1. PICK calls \in Retrieval \cup {0} : spent' = [spent EXCEPT ![r] = spent[r] + calls]
    BY <1>5 DEF Retry, Spend
  <2>2. PICK step \in {"replan", "round"} : pc' = [pc EXCEPT ![r] = step]
    BY <1>5 DEF Retry, GoTo
  <2>3. step \in Steps /\ spent[r] + calls \in Nat /\ spent[r] + calls <= Overdraft[step]
    BY <1>0, <1>5, OverdraftIs DEF Retry, Retrieval, Steps
  <2> QED BY <2>1, <2>2, <2>3, BudgetMove
<1>6. CASE Replan(r)
  <2>1. PICK calls \in 0 .. 2 : spent' = [spent EXCEPT ![r] = spent[r] + calls]
    BY <1>6 DEF Replan, Spend
  <2>2. spent[r] + calls \in Nat /\ spent[r] + calls <= Overdraft["round"]
    BY <1>0, <1>6, OverdraftIs DEF Replan
  <2> QED BY <1>6, <2>1, <2>2, BudgetMove DEF Replan, GoTo, Steps
<1>7. CASE Execute(r) \/ Critique(r)
  <2>1. PICK calls \in 1 .. 2 : spent' = [spent EXCEPT ![r] = spent[r] + calls] /\ spent[r] <= MaxTokens
    BY <1>7 DEF Execute, Critique, Spend, Asked, WithinBudget
  <2>2. PICK step \in {"drafted", "finish", "retry", "round"} : pc' = [pc EXCEPT ![r] = step]
    BY <1>7 DEF Execute, Critique, GoTo, AfterCritic
  <2>3. step \in Steps /\ spent[r] + calls \in Nat /\ spent[r] + calls <= Overdraft[step]
    BY <1>0, <2>1, OverdraftIs DEF Steps
  <2> QED BY <2>1, <2>2, <2>3, BudgetMove
<1>8. CASE Finish(r) \/ BudgetStop(r) \/ Interrupt(r)
  <2>1. pc' = [pc EXCEPT ![r] = "done"] /\ spent' = [spent EXCEPT ![r] = 0]
    BY <1>8 DEF Finish, BudgetStop, Interrupt, Return, GoTo
  <2>2. "done" \in Steps /\ 0 <= Overdraft["done"]
    BY OverdraftIs DEF Steps
  <2> QED BY <2>1, <2>2, BudgetMove
<1> QED BY <1>1, <1>2, <1>3, <1>4, <1>5, <1>6, <1>7, <1>8 DEF Proceed

\* Past the Planner no run makes more than six model calls beyond its budget.
THEOREM BudgetsHold == Spec => []BudgetBounded
<1> USE AgentAssumption
<1>1. Init => BudgetInv
  BY OverdraftIs DEF Init, BudgetInv, Steps
<1>2. BudgetInv /\ [Next]_vars => BudgetInv'
  <2>1. CASE UNCHANGED vars BY <2>1 DEF vars, BudgetInv
  <2> QED BY <2>1, BudgetStep DEF Next
<1>3. BudgetInv => BudgetBounded
  <2> SUFFICES ASSUME BudgetInv, NEW r \in Runs
               PROVE  spent[r] <= IF pc[r] \in {"resolve", "planned"} THEN 2 * Chunks + 6 ELSE MaxTokens + 6
    BY DEF BudgetBounded
  <2>1. spent[r] <= Overdraft[pc[r]] /\ spent[r] \in Nat /\ pc[r] \in Steps BY DEF BudgetInv
  <2> QED BY <2>1, OverdraftIs DEF Steps
<1> QED BY <1>1, <1>2, <1>3, PTL DEF Spec

----------------------------------------------------------------------------
(* Runs that do not overlap                                                *)

Active(r) == pc[r] \notin {"idle", "done"}

\* What the run in hand has to do with the store, if it is alone: it works on the checkpoint, and none is at work
\* once there is a result.
AloneInv(r) ==
  /\ \A q \in Runs : Active(q) /\ Active(r) => q = r
  /\ Exists(result) => pc[r] \in {"idle", "load", "finish", "done"}
  /\ pc[r] \in {"drafted", "finish"} => state[r] = critic
  /\ pc[r] \in Starting \cup Looping => state[r] = Saved
  /\ pc[r] \in Looping => state[r].critique.verdict # "none" \/ state[r].round = 0

SoloInv ==
  /\ LoopInv
  /\ ResultStands
  /\ \A r \in Runs : AloneInv(r)

LEMMA SoloInit == Init => SoloInv
BY LoopInit DEF Init, SoloInv, ResultStands, AloneInv, Active, Exists, Starting, Looping

\* It is enough to look at the run that takes the step: the others are not at work.
LEMMA OnlyOne ==
  ASSUME SoloInv, NEW r \in Runs, NEW step \in Steps, pc' = [pc EXCEPT ![r] = step],
         \A q \in Runs \ {r} : ~Active(q),
         LoopInv', ResultStands',
         Exists(result') => step \in {"idle", "load", "finish", "done"},
         step \in {"drafted", "finish"} => state'[r] = critic',
         step \in Starting \cup Looping => state'[r] = Saved',
         step \in Looping => state'[r].critique.verdict # "none" \/ state'[r].round = 0
  PROVE  SoloInv'
<1>1. pc \in [Runs -> Steps] /\ pc'[r] = step /\ \A q \in Runs \ {r} : pc'[q] = pc[q]
  BY DEF SoloInv, LoopInv, TypeOK
<1>2. \A q \in Runs \ {r} : pc[q] \in {"idle", "done"}
  BY DEF Active
<1>3. ASSUME NEW q \in Runs PROVE AloneInv(q)'
  <2>1. CASE q = r
    BY <1>1, <1>2, <2>1 DEF AloneInv, Active
  <2>2. CASE q # r
    BY <1>1, <1>2, <2>2 DEF AloneInv, Active, Starting, Looping
  <2> QED BY <2>1, <2>2
<1> QED BY <1>3 DEF SoloInv

LEMMA SoloStep ==
  ASSUME ~Overlap, SoloInv, NEW r \in Runs, Start(r) \/ Proceed(r) \/ Interrupt(r)
  PROVE  SoloInv'
<1> USE AgentAssumption
<1>1. LoopInv /\ LoopInv' /\ AloneInv(r) /\ ResultStands /\ TypeOK
  BY LoopStep DEF SoloInv, LoopInv
<1>2. \A q \in Runs \ {r} : ~Active(q)
  <2>1. CASE Start(r)
    BY <2>1 DEF Start, Active
  <2>2. CASE Proceed(r) \/ Interrupt(r)
    <3>1. Active(r)
      BY <2>2 DEF Active, Proceed, Interrupt, Load, Select, ResolvePlan, Planned, Retry, Replan, Execute, Critique,
                  Finish, BudgetStop
    <3> QED BY <1>1, <3>1 DEF AloneInv
  <2> QED BY <2>1, <2>2
<1>3. CASE Start(r)
  <2>1. pc' = [pc EXCEPT ![r] = "load"] /\ critic' = critic /\ result' = result /\ stage' = stage
    BY <1>3 DEF Start, GoTo, store
  <2>2. ResultStands' BY <1>1, <2>1 DEF ResultStands, Exists, CompletedStage
  <2> QED BY <1>1, <1>2, <2>1, <2>2, OnlyOne DEF Starting, Looping, Steps
<1>4. CASE Load(r)
  <2> DEFINE step == IF Terminal(critic) /\ critic.result.valid THEN "finish" ELSE "select"
  <2>1. /\ pc' = [pc EXCEPT ![r] = step] /\ critic' = critic /\ result' = result /\ stage' = stage
        /\ state'[r] = Saved /\ Saved' = Saved
    BY <1>1, <1>4 DEF Load, GoTo, store, TypeOK, Saved, Terminal
  <2>2. ResultStands' BY <1>1, <2>1 DEF ResultStands, Exists, CompletedStage
  <2>3. Exists(result) => step = "finish"
    BY <1>1 DEF LoopInv, ResultIsFinal, ResultStands
  <2>4. step = "finish" => Saved = critic
    BY DEF Saved
  <2>5. step \in {"finish", "select"} OBVIOUS
  <2> HIDE DEF step
  <2> QED BY <1>1, <1>2, <2>1, <2>2, <2>3, <2>4, <2>5, OnlyOne DEF Starting, Looping, Steps, Exists
<1>5. CASE Select(r) \/ ResolvePlan(r) \/ Planned(r) \/ Retry(r) \/ Replan(r)
  <2>1. critic' = critic /\ result' = result /\ state' = state /\ Saved' = Saved
    BY <1>5 DEF Select, ResolvePlan, Planned, Retry, Replan, store, Saved, Terminal
  <2>2. pc[r] \in Starting \cup Looping
    BY <1>5 DEF Select, ResolvePlan, Planned, Retry, Replan, Starting, Looping
  <2>3. ~Exists(result) /\ ResultStands'
    BY <1>1, <2>1, <2>2 DEF AloneInv, Starting, Looping, ResultStands, Exists
  <2>4. PICK step \in {"resolve", "planned", "retry", "drafted", "round", "replan"} : pc' = [pc EXCEPT ![r] = step]
    BY <1>5 DEF Select, ResolvePlan, Planned, Retry, Replan, GoTo
  <2>5. pc'[r] = step BY <1>1, <2>4 DEF TypeOK
  <2>6. state[r] = Saved BY <1>1, <2>2 DEF AloneInv
  <2>7. state[r] \in States BY <1>1 DEF TypeOK
  <2>8. step = "drafted" => Saved = critic
    <3> SUFFICES ASSUME step = "drafted" PROVE Saved = critic
      OBVIOUS
    <3>1. Planned(r) /\ state[r].critique.verdict = "none"
      BY <1>5, <2>5, <1>1 DEF Select, ResolvePlan, Planned, Retry, Replan, GoTo, TypeOK
    <3>2. critic \in States /\ (Terminal(critic) => critic.critique.verdict # "none")
      BY <1>1 DEF TypeOK, Terminal
    <3> QED BY <2>6, <3>1, <3>2 DEF Saved, States
  <2>9. step \in Looping => state[r].critique.verdict # "none" \/ state[r].round = 0
    <3>1. CASE Planned(r)
      BY <1>1, <2>5, <2>7, <3>1 DEF Planned, GoTo, TypeOK, Looping, States
    <3>2. CASE Retry(r) \/ Replan(r)
      BY <1>1, <3>2 DEF Retry, Replan, AloneInv, Looping
    <3>3. CASE Select(r) \/ ResolvePlan(r)
      BY <1>1, <2>5, <3>3 DEF Select, ResolvePlan, GoTo, TypeOK, Looping
    <3> QED BY <1>5, <3>1, <3>2, <3>3
  <2> QED BY <1>1, <1>2, <2>1, <2>3, <2>4, <2>6, <2>8, <2>9, OnlyOne DEF Steps, Exists
<1>6. CASE Execute(r)
  <2>1. pc' = [pc EXCEPT ![r] = "drafted"] /\ result' = result /\ state'[r] = critic'
    BY <1>1, <1>6 DEF Execute, GoTo, TypeOK
  <2>2. ~Exists(result)
    BY <1>1, <1>6 DEF Execute, AloneInv
  <2>3. ~Exists(result') /\ ResultStands' BY <2>1, <2>2 DEF ResultStands, Exists
  <2> QED BY <1>1, <1>2, <2>1, <2>3, OnlyOne DEF Starting, Looping, Steps
<1>7. CASE Critique(r)
  <2> DEFINE step == AfterCritic(r, critic')
  <2>1. pc' = [pc EXCEPT ![r] = step] /\ result' = result /\ state'[r] = critic'
    BY <1>1, <1>7 DEF Critique, GoTo, TypeOK
  <2>2. ~Exists(result)
    BY <1>1, <1>7 DEF Critique, AloneInv
  <2>3. ~Exists(result') /\ ResultStands' BY <2>1, <2>2 DEF ResultStands, Exists
  <2>4. step \in {"finish", "retry", "round"} BY DEF AfterCritic
  <2>5. critic'.critique.verdict # "none" /\ (step # "finish" => Saved' = critic')
    <3>1. PICK q \in [verdict : {"passed", "failed"}, needs : SUBSET Needs],
               supported \in Supported(state[r].result, resumed[r]) :
            critic' = [state[r] EXCEPT !.critique = Judged(state[r].result, supported, q)]
      BY <1>7 DEF Critique
    <3>2. state[r] \in States /\ resumed[r] \in BOOLEAN /\ Sound(state[r])
      BY <1>1 DEF LoopInv, TypeOK, RunInv
    <3>3. Judged(state[r].result, supported, q).verdict \in {"passed", "failed"}
      BY <3>2, JudgedIsVerified
    <3>4. critic'.critique.verdict \in {"passed", "failed"}
      BY <3>1, <3>2, <3>3 DEF States
    <3>5. critic' \in States /\ Verified(critic')
      BY <1>1 DEF LoopInv, TypeOK, Verified
    <3>6. step # "finish" => ~(critic'.round >= MaxRounds)
      BY DEF AfterCritic
    <3>7. step # "finish" => ~(Terminal(critic') /\ ~critic'.result.valid)
      BY <3>5, <3>6 DEF Terminal, Verified
    <3> QED BY <3>4, <3>7 DEF Saved, Terminal
  <2> HIDE DEF step
  <2> QED BY <1>1, <1>2, <2>1, <2>3, <2>4, <2>5, OnlyOne DEF Starting, Looping, Steps
<1>8. CASE Finish(r)
  <2>1. pc' = [pc EXCEPT ![r] = "done"] /\ critic' = critic /\ state[r] = critic
    BY <1>1, <1>8 DEF Finish, Return, GoTo, AloneInv
  <2>2. ResultStands'
    <3>1. CASE state[r].result.valid
      BY <1>8, <2>1, <3>1 DEF Finish, ResultStands, CompletedStage
    <3>2. CASE ~state[r].result.valid
      BY <1>1, <1>8, <2>1, <3>2 DEF Finish, ResultStands, CompletedStage, Exists
    <3> QED BY <3>1, <3>2
  <2> QED BY <1>1, <1>2, <2>1, <2>2, OnlyOne DEF Starting, Looping, Steps
<1>9. CASE BudgetStop(r) \/ Interrupt(r)
  <2>1. pc' = [pc EXCEPT ![r] = "done"] /\ critic' = critic /\ result' = result /\ stage' = stage
    BY <1>9 DEF BudgetStop, Interrupt, Return, GoTo, store
  <2>2. ResultStands' BY <1>1, <2>1 DEF ResultStands, Exists, CompletedStage
  <2> QED BY <1>1, <1>2, <2>1, <2>2, OnlyOne DEF Starting, Looping, Steps
<1> QED BY <1>3, <1>4, <1>5, <1>6, <1>7, <1>8, <1>9 DEF Proceed

LEMMA SoloInductive ==
  ASSUME ~Overlap, SoloInv, [Next]_vars
  PROVE  SoloInv'
<1>1. CASE UNCHANGED vars
  <2>1. LoopInv' BY <1>1, LoopInductive DEF SoloInv
  <2>2. ResultStands' BY <1>1 DEF vars, SoloInv, ResultStands, Exists, CompletedStage
  <2>3. ASSUME NEW r \in Runs PROVE AloneInv(r)'
    BY <1>1 DEF vars, SoloInv, AloneInv, Active, Exists, Saved, Terminal
  <2> QED BY <2>1, <2>2, <2>3 DEF SoloInv
<1>2. CASE Next
  BY <1>2, SoloStep DEF Next
<1> QED BY <1>1, <1>2

\* If the lock keeps runs apart, a saved result stands: no later run touches the checkpoint or the stage it left.
THEOREM ResultsStand ==
  ASSUME ~Overlap
  PROVE  Spec => []ResultStands
<1>1. SoloInv => ResultStands BY DEF SoloInv
<1> QED BY <1>1, SoloInit, SoloInductive, PTL DEF Spec

LEMMA RoundStepHolds ==
  ASSUME SoloInv, [Next]_vars
  PROVE  [RoundStep]_vars
<1> SUFFICES ASSUME NEW r \in Runs, Start(r) \/ Proceed(r) \/ Interrupt(r), critic' # critic
             PROVE  RoundStep
  BY DEF Next, RoundStep
<1>1. Execute(r) \/ Critique(r)
  BY DEF Proceed, Start, Interrupt, Load, Select, ResolvePlan, Planned, Retry, Replan, Finish, BudgetStop, store
<1>2. AloneInv(r) /\ critic \in States /\ state[r] \in States
  BY DEF SoloInv, LoopInv, TypeOK
<1>3. CASE Execute(r)
  <2>1. critic'.round = state[r].round + 1 BY <1>3 DEF Execute
  <2>2. state[r] = Saved /\ (state[r].critique.verdict # "none" \/ state[r].round = 0)
    BY <1>2, <1>3 DEF Execute, AloneInv, Looping
  <2>3. CASE Terminal(critic) /\ ~critic.result.valid
    <3>1. state[r].round = 0 /\ critic.critique.verdict # "none"
      BY <1>2, <2>2, <2>3 DEF Saved, Terminal, States
    <3> QED BY <2>1, <2>3, <3>1 DEF RoundStep
  <2>4. CASE ~(Terminal(critic) /\ ~critic.result.valid)
    <3>1. state[r] = critic BY <2>2, <2>4 DEF Saved
    <3> QED BY <1>2, <2>1, <2>2, <3>1 DEF RoundStep, States
  <2> QED BY <2>3, <2>4
<1>4. CASE Critique(r)
  <2>1. state[r] = critic BY <1>2, <1>4 DEF Critique, AloneInv
  <2>2. critic'.round = critic.round /\ critic'.result = critic.result
    BY <1>2, <1>4, <2>1 DEF Critique, States
  <2>3. critic.critique.verdict = "none" /\ critic.round > 0
    BY <1>4, <2>1 DEF Critique, SoloInv, LoopInv, RunInv
  <2> QED BY <2>2, <2>3 DEF RoundStep
<1> QED BY <1>1, <1>3, <1>4

\* If the lock keeps runs apart, rounds follow each other across interruptions and resumptions.
THEOREM RoundsFollow ==
  ASSUME ~Overlap
  PROVE  Spec => RoundsAdvance
BY SoloInit, SoloInductive, RoundStepHolds, PTL DEF Spec, RoundsAdvance

=============================================================================
