\* Two turns with models of different providers.
CONSTANTS
    Loads <- SwitchingOnly
SPECIFICATION Spec
CHECK_DEADLOCK FALSE
INVARIANTS
    QuestionReachesModel
