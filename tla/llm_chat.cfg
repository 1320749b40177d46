SPECIFICATION Spec
CHECK_DEADLOCK FALSE
CONSTANTS
    Parts = 3
    MaxQuestions = 3
INVARIANTS OwnPieces AnswerComplete CrashNeedsHaste
