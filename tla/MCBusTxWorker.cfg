SPECIFICATION FairSpec
INVARIANTS AnswersAreTrue
PROPERTIES PromiseSpec StopEnds
