SPECIFICATION FairSpec
INVARIANTS TypeOK CompletionIsEarned
PROPERTIES NoOrphans DeadlineEndsTheRun VerdictIsFinal
CHECK_DEADLOCK FALSE
