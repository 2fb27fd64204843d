SPECIFICATION FairSpec
CONSTANTS
    Input <- MCInput
    MaxDepth = 5
    MaxInt = 99
INVARIANTS TypeOK NeverPanics SpanIsFound DecodesTheGrammar HashCoversMeta
PROPERTY ParseReturns
CHECK_DEADLOCK FALSE
