\* Liveness of the post-connect procedure against a target that answers
\* every command with success: the engine reaches rc_ctrl_procedure_complete,
\* in the second session too, after handle_rc_disconnect reset its flags.
CONSTANTS
    NumLabels = 7
    NoTimer = NoTimer
    NoList = NoList
    Junk = Junk
    JunkLabels = {Junk}
    ReqIds = {1, 2, 3, 4, 5, 6, 7}
    PeerEventLists <- MCEventLists
    PeerAttrLists <- MCMixedAttrLists
    PeerFeatureSets <- MCFeatureSets
    StatusCodes = {"ok"}
    NotifCodes = {"interim"}
    PlayStates = {"playing", "stopped"}
    TimerRace = FALSE
    PeerLate = FALSE
    JniRace = FALSE
    MaxQueue = 3
    MaxSessions = 2
    MaxChanges = 1
    MaxAppCmds = 0
    MaxTimeouts = 0
    MaxPolls = 1
    MaxFeatEvts = 0
SPECIFICATION FairSpec
CONSTRAINT IdsAvailable
PROPERTY ProcedureCompletes
