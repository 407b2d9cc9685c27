SPECIFICATION FairSpec
CONSTANT MaxPushes = 3
INVARIANT TypeOK
INVARIANT EverythingPlayed
INVARIANT NothingLeftOver
INVARIANT ConnectionReturned
INVARIANT QueueOutlivesHandlers
INVARIANT RejectionReported
PROPERTY EndReachesSpeaker
\* A session ends, and the server may stay silent for ever.
CHECK_DEADLOCK FALSE
