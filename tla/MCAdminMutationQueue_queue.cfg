CONSTANT Requests = {r1, r2, r3}
SPECIFICATION Spec
INVARIANT TypeOK
INVARIANT AnswersTruthful
PROPERTY NeverRunsAgain
PROPERTY StopInLoopHonoured
PROPERTY ImplementsPromise
