SPECIFICATION Spec
CONSTANTS
    Apps = {chess, golf}
    NoApp = none
    MaxCerts = 2
    MaxTroubles = 3
INVARIANTS Agreement PROPERTIES PinnedTruly RetryPairs 
