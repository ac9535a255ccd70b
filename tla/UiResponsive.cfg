\* One Start; two queued commands, so that a second certificate command can find the
\* first one under way.
SPECIFICATION UiSpec
CONSTANTS
    MaxStarts = 1
    MaxQueue = 2
    FullMode = FALSE
    Listeners = {"socks"}
    Periodic = {"save"}
PROPERTY UiResponsive
CHECK_DEADLOCK FALSE
