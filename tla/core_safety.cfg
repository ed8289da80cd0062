\* Safety of the controller engine with a well-behaved scheduler: alarms
\* fire only while the BTIF queue is empty and the target answers only
\* requests the engine still waits for.  The pool is as large as the
\* number of requests that can be outstanding, so it never runs out.
\* The target may reject a RegisterNotification as well as a status command.
CONSTANTS
    NumLabels = 7
    NoTimer = NoTimer
    NoList = NoList
    Junk = Junk
    JunkLabels = {Junk}
    ReqIds = {1, 2, 3, 4, 5, 6, 7}
    PeerEventLists <- MCEventLists
    PeerAttrLists <- MCMixedAttrLists
    PeerFeatureSets <- MCFeatureSets
    StatusCodes = {"ok", "rej"}
    NotifCodes = {"interim", "rej"}
    PlayStates = {"playing", "stopped"}
    TimerRace = FALSE
    PeerLate = FALSE
    JniRace = FALSE
    MaxQueue = 3
    MaxSessions = 1
    MaxChanges = 1
    MaxAppCmds = 0
    MaxTimeouts = 1
    MaxPolls = 1
    MaxFeatEvts = 0
SPECIFICATION Spec
CONSTRAINT IdsAvailable
INVARIANT TypeOK
INVARIANT LabelsOwnedByLive
INVARIANT RegistryMatchesRequests
INVARIANT AppValuesMatchAttrs
PROPERTY TimeoutOnlyForLive
PROPERTY LeaseRefined
