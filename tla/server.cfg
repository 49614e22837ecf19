SPECIFICATION FairServerSpec
CONSTANT MaxContexts = 4
INVARIANTS AnswersAreTrue NothingLeaks OnceUnlessItRaised TelemetryOutlives CompleteMeansFlushed
PROPERTY ReverseOrder StartupIsAnswered
CHECK_DEADLOCK FALSE
