\* One future under a timeout and a signal.
SPECIFICATION Spec
CONSTANTS
    Delays <- MCDelays
    Budget = 10
    Interval = 4
    Slack = 1
    Rounding = 1
    None = None
INVARIANT InTime
\* A future that has ended is polled no more.
CHECK_DEADLOCK FALSE
