\* A PLAY_STATUS re-registration answered INTERIM(stopped) after a
\* CHANGED(playing): the poll timer started earlier keeps running.
CONSTANTS
    NumLabels = 7
    NoTimer = NoTimer
    NoList = NoList
    Junk = Junk
    JunkLabels = {Junk}
    ReqIds = {1, 2, 3, 4, 5, 6, 7}
    PeerEventLists <- MCEventLists
    PeerAttrLists <- MCMixedAttrLists
    PeerFeatureSets <- MCFeatureSets
    StatusCodes = {"ok", "rej"}
    NotifCodes = {"interim"}
    PlayStates = {"playing", "stopped"}
    TimerRace = FALSE
    PeerLate = FALSE
    JniRace = FALSE
    MaxQueue = 3
    MaxSessions = 1
    MaxChanges = 1
    MaxAppCmds = 0
    MaxTimeouts = 1
    MaxPolls = 1
    MaxFeatEvts = 0
SPECIFICATION Spec
CONSTRAINT IdsAvailable
INVARIANT PollOnlyWhilePlaying
