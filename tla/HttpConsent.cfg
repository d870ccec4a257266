SPECIFICATION FairSpec
CONSTANT Calls = {c1, c2, c3}
INVARIANTS
    TypeOK
    GrantIsTheAnswer
    TableIsInFlight
PROPERTIES
    ImplementsPromise
    EveryQuestionIsDecided
