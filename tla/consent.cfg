CONSTANTS
    Clients = {c1, c2}
    MaxTime = 1
    MaxEvents = 3
    MaxSessions = 2
SPECIFICATION Spec
INVARIANTS VersionsCount RevokesEndGrants OpenedWithConsent
SYMMETRY Callers
