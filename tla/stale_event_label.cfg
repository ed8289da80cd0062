\* A pool of three labels: a CHANGED re-registration that finds no free
\* label leaves its event NOT_REGISTERED with the old label, which a later
\* interim timeout on the reused label matches first.
CONSTANTS
    NumLabels = 3
    NoTimer = NoTimer
    NoList = NoList
    Junk = Junk
    JunkLabels = {Junk}
    ReqIds = {1, 2, 3, 4, 5, 6, 7}
    PeerEventLists <- MCEventLists
    PeerAttrLists <- MCMixedAttrLists
    PeerFeatureSets <- MCFeatureSets
    StatusCodes = {"ok", "rej"}
    NotifCodes = {"interim"}
    PlayStates = {"playing", "stopped"}
    TimerRace = FALSE
    PeerLate = FALSE
    JniRace = FALSE
    MaxQueue = 3
    MaxSessions = 1
    MaxChanges = 2
    MaxAppCmds = 1
    MaxTimeouts = 1
    MaxPolls = 1
    MaxFeatEvts = 0
SPECIFICATION Spec
CONSTRAINT IdsAvailable
INVARIANT RegistryMatchesRequests
