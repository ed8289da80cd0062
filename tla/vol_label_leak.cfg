\* The remote's answer to the volume registration may fail to parse:
\* handle_rc_metamsg_rsp sets rc_vol_label to MAX_LABEL before releasing it.
CONSTANTS
    NumLabels = 3
    NoTimer = NoTimer
    Volumes = {40, 60}
    PeerFeatureSets = {{}, {"RCTG", "ADV_CTRL"}}
    AbsVolumeBlocked = FALSE
    SetVolCodes = {"accept", "rej"}
    RegCodes = {"interim"}
    ParseErrPdus = {"REG_NOTIF"}
    JniRace = FALSE
    TgPdus = {}
    TgEvents = {}
    TgArgs = {}
    PeerLabels = {0}
    MaxTgCmds = 0
    MaxAppRsps = 0
    MaxQueue = 3
    MaxSessions = 2
    MaxFeatEvts = 1
    MaxSetVols = 2
    MaxPeerChanges = 2
SPECIFICATION Spec
INVARIANT LabelsAccounted
