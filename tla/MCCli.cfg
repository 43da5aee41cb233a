SPECIFICATION Spec
CONSTANTS
    V6 <- MCV6
    Canonical <- MCCanonical
    Wildcard = 1
    ProxyNames = {2}
    Args <- MCArgs
    Hosts <- MCHosts
    Answers <- MCAnswers
INVARIANTS
    TypeOK
    KilledAsAsked
    ExitIsTrue
    DockerPrecedence
