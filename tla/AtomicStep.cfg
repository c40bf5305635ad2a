SPECIFICATION FairSpec
CONSTANTS
    Params = {w1, w2}
    Readers = {sampler}
    MaxAttempts = 2
    MaxInterrupts = 1
INVARIANTS TypeOK ServedPolicyIsLive AnswersAreOnePolicy RaisedStepIsUndone
PROPERTIES LeaseIsReturned
CHECK_DEADLOCK FALSE
