\* A target whose player application settings are all extended
\* attributes (ids above 0x80): the first value query uses attrs[0].
CONSTANTS
    NumLabels = 7
    NoTimer = NoTimer
    NoList = NoList
    Junk = Junk
    JunkLabels = {Junk}
    ReqIds = {1, 2, 3, 4, 5, 6, 7}
    PeerEventLists <- MCEventLists
    PeerAttrLists <- MCExtOnlyAttrLists
    PeerFeatureSets <- MCFeatureSets
    StatusCodes = {"ok", "rej"}
    NotifCodes = {"interim"}
    PlayStates = {"playing", "stopped"}
    TimerRace = FALSE
    PeerLate = FALSE
    JniRace = FALSE
    MaxQueue = 3
    MaxSessions = 1
    MaxChanges = 1
    MaxAppCmds = 0
    MaxTimeouts = 1
    MaxPolls = 1
    MaxFeatEvts = 0
SPECIFICATION Spec
CONSTRAINT IdsAvailable
INVARIANT AppValuesMatchAttrs
