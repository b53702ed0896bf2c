\* Every deployment with every request, to the end of the request.
SPECIFICATION FairSpec
CONSTANTS
    KeySize = 4
    Overhead = 2
    Deployments <- MCDeployments
    Requests <- MCRequests
INVARIANTS AgentIsUnderstood SameGateOnBothListeners AnswerTellsStore AnswerIsWhole SignatureCoversAnswer SignerAtRest
PROPERTIES EveryRequestEnds
\* A request that has been answered is over.
CHECK_DEADLOCK FALSE
