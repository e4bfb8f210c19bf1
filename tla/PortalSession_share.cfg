\* Two captures, so that one's failures can meet the other's session. Ticks:
\* one for 5 s, two for 30 s, in their order.
SPECIFICATION Spec
CONSTANTS
    Captures = {m1, m2}
    Asker = asker
    None = none
    MaxFailures = 2
    Pause = 1
    Peace = 2
    MaxAsks = 1
    Names = {1, 2, 3}
PROPERTIES PeaceAfterNo CloseHasCause AskedAgain CapturesRecover
\* With every screen streaming and "Ask again" used up nothing is left to do.
CHECK_DEADLOCK FALSE
