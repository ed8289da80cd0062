\* Safety of the target role: absolute volume, with a remote that accepts
\* the registration and answers SetAbsoluteVolume with accept or reject
\* (the answer may fail to parse), and the remote's own commands:
\* GetPlayStatus and registrations for PLAY_POS and UIDS_CHANGED, with a
\* PLAY_POS interval of 0 among them, answered by the application.  Two
\* sessions, a feature report, one set_volume call, one volume change on
\* the remote, two commands from it and one answer of the application.
\* The BTIF thread does not run while set_volume is between its checks and
\* its send.  Under weak fairness of BTIF, of the remote's answers and of a
\* set_volume in progress, the volume subscription is always re-established.
CONSTANTS
    NumLabels = 3
    NoTimer = NoTimer
    Volumes = {40, 60}
    PeerFeatureSets = {{}, {"RCTG", "ADV_CTRL"}}
    AbsVolumeBlocked = FALSE
    SetVolCodes = {"accept", "rej"}
    RegCodes = {"interim"}
    ParseErrPdus = {"SET_ABS_VOL"}
    JniRace = FALSE
    TgPdus = {"GET_PLAY_STATUS", "REG_NOTIF"}
    TgEvents = {"PLAY_POS", "UIDS"}
    TgArgs = {"ok", "bad"}
    PeerLabels = {0}
    MaxTgCmds = 2
    MaxAppRsps = 1
    MaxQueue = 3
    MaxSessions = 2
    MaxFeatEvts = 1
    MaxSetVols = 1
    MaxPeerChanges = 1
SPECIFICATION FairSpec
INVARIANT TypeOK
INVARIANT LabelsAccounted
INVARIANT NotificationsAnswerRegistrations
PROPERTY
    VolumeSubscribes
