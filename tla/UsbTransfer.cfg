\* Endpoints that count no NAKs, give up at the first (the ADK's data
\* endpoints), or later.
CONSTANTS
    NakLimits = {0, 1}
    NakCounts = 3
    RetryLimit = 3
    MaxPackets = 2
SPECIFICATION FairSpec
INVARIANTS TypeOK ReceivedOnce
PROPERTIES OutDelivers OutStaysInStep FlipPutsOutOfStep InStaysInStep TransfersReturn
