\* One to three turns of a session, each with a model of any provider.
CONSTANTS
    Loads <- AllLoads
SPECIFICATION Spec
CHECK_DEADLOCK FALSE
INVARIANTS
    TypeOK
    AnswerAsSent
    CallsAnsweredInPlace
    OrphansExplained
PROPERTIES
    StepsBuildOn
