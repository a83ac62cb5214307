SPECIFICATION Spec
CONSTANTS
    Texts <- MCTexts
    Rules <- MCRules
    Documented <- MCDocumented
INVARIANT DocumentedCommandsReachable
CHECK_DEADLOCK FALSE
