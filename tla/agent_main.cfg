SPECIFICATION FairSpec
CONSTANTS
  MaxConsecutiveReadTimeouts = 6
  MaxConsecutiveDecodeErrors = 2
  Second = 2
  MaxReconnectBackoff = 5
  MaxFailures = 4
  ReadDeadline = 1
INVARIANTS HopelessPeerLeft DeadSinceDirective BackoffSchedule OneRetryAfterSignal SilentPeerRetriedSoon
PROPERTIES KeepsReconnecting SignalExits SilentPeerLeft
