\* The controller engine with the application thread and the target's
\* feature updates: change_player_app_setting takes a label from JNI and
\* an RC_FEAT arrives after the procedure started.  CHANGED notifications
\* are left to core_safety.cfg to keep the two state spaces apart.
\* JniRace = FALSE: BTIF does not run between change_player_app_setting's
\* send and its start_control_command_timer.  With TRUE, the control alarm
\* can release another command's label and LabelsOwnedByLive fails.
CONSTANTS
    NumLabels = 7
    NoTimer = NoTimer
    NoList = NoList
    Junk = Junk
    JunkLabels = {Junk}
    ReqIds = {1, 2, 3, 4, 5, 6, 7}
    PeerEventLists <- MCEventLists
    PeerAttrLists <- MCMixedAttrLists
    PeerFeatureSets <- MCFeatureSets
    StatusCodes = {"ok", "rej"}
    NotifCodes = {"interim", "rej"}
    PlayStates = {"playing", "stopped"}
    TimerRace = FALSE
    PeerLate = FALSE
    JniRace = FALSE
    MaxQueue = 3
    MaxSessions = 1
    MaxChanges = 0
    MaxAppCmds = 1
    MaxTimeouts = 1
    MaxPolls = 1
    MaxFeatEvts = 1
SPECIFICATION Spec
CONSTRAINT IdsAvailable
INVARIANT TypeOK
INVARIANT LabelsOwnedByLive
INVARIANT RegistryMatchesRequests
INVARIANT AppValuesMatchAttrs
PROPERTY TimeoutOnlyForLive
PROPERTY LeaseRefined
