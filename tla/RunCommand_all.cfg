CONSTANTS
    MaxDeeds = 5
    Scripts <- MCScripts
    Window = 2
    BUFFER = 2

SPECIFICATION FairSpec

INVARIANT ChannelFreed

PROPERTY ShownSpec
PROPERTY CommandReturns

\* do_command returns, or waits for a command that waits for it
CHECK_DEADLOCK FALSE
