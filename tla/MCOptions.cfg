SPECIFICATION Spec
CONSTANTS
    CommandLines <- MCCommandLines
    Lines <- MCLines
    Words <- MCWords
    MaxLen = 6
    MaxLines = 3
\* main goes on in module Daemon, or has exited
CHECK_DEADLOCK FALSE
INVARIANT LastGivenWins
