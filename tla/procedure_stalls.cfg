\* A command of the post-connect procedure times out or is rejected: the
\* handlers of GetCapabilities and of the value and current-value queries
\* return on an error status, and the interim timeout of the last event
\* starts nothing, so no next command is sent.
CONSTANTS
    NumLabels = 7
    NoTimer = NoTimer
    NoList = NoList
    Junk = Junk
    JunkLabels = {Junk}
    ReqIds = {1, 2, 3, 4, 5, 6, 7}
    PeerEventLists <- MCEventLists
    PeerAttrLists <- MCMixedAttrLists
    PeerFeatureSets <- MCFeatureSets
    StatusCodes = {"ok", "rej"}
    NotifCodes = {"interim", "rej"}
    PlayStates = {"playing", "stopped"}
    TimerRace = FALSE
    PeerLate = FALSE
    JniRace = FALSE
    MaxQueue = 3
    MaxSessions = 1
    MaxChanges = 1
    MaxAppCmds = 0
    MaxTimeouts = 1
    MaxPolls = 1
    MaxFeatEvts = 0
SPECIFICATION FairSpec
CONSTRAINT IdsAvailable
PROPERTY ProcedureCompletes
