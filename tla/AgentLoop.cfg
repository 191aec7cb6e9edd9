\* Four calls on a video of one chunk, three rounds: a call can be interrupted in each round, and
\* the last one find any checkpoint.
\* Eight model calls let a run of three rounds end, or not.
CONSTANTS
    Runs = {r1, r2, r3, r4}
    MaxRounds = 3
    MaxTokens = 8
    Chunks = 1
    Overlap = FALSE
SPECIFICATION FairSpec
\* The calls are over.
CHECK_DEADLOCK FALSE
INVARIANTS ResultIsFinal PassedIsVerified BudgetBounded 
PROPERTIES RoundsAdvance RunsEnd
