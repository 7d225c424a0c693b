SPECIFICATION Spec
CONSTANTS
    Models <- TotemModels
    Plans <- MCPlans
    Sound <- MCSound
    All = All
    None = None
CHECK_DEADLOCK FALSE
INVARIANTS
    PromisedRoutesServed
    RoutesKeepTheirController
    SoundClassesStart
    OpenRoutesAreDeclared
    BodiesReachTheRow
    AcceptedBodiesFitTheRow
    SchemasKeepTheirDeclaration
