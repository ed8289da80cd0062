\* The target answers a request after its timeout was handled: the
\* response is dispatched by its label although that label is free or
\* already owned by a newer request.
CONSTANTS
    NumLabels = 7
    NoTimer = NoTimer
    NoList = NoList
    Junk = Junk
    JunkLabels = {Junk}
    ReqIds = {1, 2, 3, 4, 5, 6, 7}
    PeerEventLists <- MCEventLists
    PeerAttrLists <- MCMixedAttrLists
    PeerFeatureSets <- MCFeatureSets
    StatusCodes = {"ok", "rej"}
    NotifCodes = {"interim"}
    PlayStates = {"playing", "stopped"}
    TimerRace = FALSE
    PeerLate = TRUE
    JniRace = FALSE
    MaxQueue = 3
    MaxSessions = 1
    MaxChanges = 1
    MaxAppCmds = 0
    MaxTimeouts = 1
    MaxPolls = 1
    MaxFeatEvts = 0
SPECIFICATION Spec
CONSTRAINT IdsAvailable
PROPERTY UnknownLabelDiscarded
