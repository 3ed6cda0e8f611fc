\* One registry is enough: the log says Done after a request Harbor refused.
CONSTANTS
    N = 1
    BackoffLimit = 0
SPECIFICATION Spec
INVARIANTS DoneIsTrue
CHECK_DEADLOCK FALSE
