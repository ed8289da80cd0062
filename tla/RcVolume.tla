------------------------------ MODULE RcVolume ------------------------------
(***************************************************************************)
(* Absolute volume in the target (TG, A2DP source) role of btif_rc.cc:     *)
(* the engine registers for the remote's VOLUME_CHANGED notification on a  *)
(* label it keeps in btif_rc_cb.rc_vol_label, re-registers on every        *)
(* CHANGED, and sends SetAbsoluteVolume from the application thread.      *)
(*                                                                         *)
(* Actors:                                                                 *)
(*   - the remote device, which holds the commands it was sent, answers    *)
(*     them, and sends CHANGED when its volume moves while it holds the    *)
(*     registration;                                                       *)
(*   - BTU posting BTA's RC open/close/feature events and the remote's     *)
(*     answers, in order, to the BTIF queue (btifq);                       *)
(*   - the BTIF thread running one queued item at a time (btif_rc_handler, *)
(*     handle_rc_metamsg_cmd for an answer);                               *)
(*   - the JNI thread running set_volume, whose checks and whose           *)
(*     get_transaction and send are separate steps: only lbllock is taken, *)
(*     and only inside get_transaction.                                    *)
(*                                                                         *)
(* The ghost out holds the commands sent on a session and not finally      *)
(* answered: a label in use that no such command carries is lost.          *)
(***************************************************************************)
EXTENDS TxnPool, Integers, Sequences

CONSTANTS
    Volumes,          \* volumes set_volume is called with / the remote holds
    PeerFeatureSets,  \* peer_features BTA reports in RC_OPEN / RC_FEAT
    AbsVolumeBlocked, \* interop entry, absolute_volume_disabled() or AVDTP
                      \* address differing from the AVCTP one
    SetVolCodes,      \* answers to SetAbsoluteVolume: "accept", "rej", "not_impl"
    RegCodes,         \* first answers to the registration: "interim", "rej", ...
    ParseErrPdus,     \* PDUs whose answers AVRC_ParsResponse may fail on
    JniRace,          \* BTIF may run while set_volume is in progress
    TgPdus,           \* PDUs of the commands the remote (as CT) sends us
    TgEvents,         \* events it may register for
    TgArgs,           \* "ok", "bad" (PLAY_POS param 0 / num_attr 0xFF),
                      \* "parse_err" (AVRC_ParsCommand fails)
    PeerLabels,       \* labels the remote gives its commands
    MaxQueue, MaxSessions, MaxFeatEvts, MaxSetVols, MaxPeerChanges,
    MaxTgCmds, MaxAppRsps

ASSUME MaxQueue \in Nat \ {0}

MaxLabel  == NumLabels  \* MAX_LABEL == MAX_TRANSACTIONS_PER_SESSION
MaxVolume == 128        \* MAX_VOLUME: no volume known
NoReg == -1             \* the remote holds no registration

(* rc_pdu_info[] slots (IDX_GET_PLAY_STATUS_RSP, IDX_GET_ELEMENT_ATTR_RSP) *)
(* and the events register_notification_rsp answers.                       *)
PduQueued == {"GET_PLAY_STATUS", "GET_ELEM_ATTR"}
RspEvents == {"PLAY_STATUS", "TRACK", "PLAY_POS"}
NoNotif   == [e \in TgEvents |-> [bNotify |-> FALSE, label |-> 0]]
NoPduInfo == [p \in PduQueued |-> [pending |-> FALSE, label |-> 0]]

VARIABLES
    link,       \* the BTA RC link is up
    connected,  \* btif_rc_cb.rc_connected
    features,   \* btif_rc_cb.rc_features
    volLabel,   \* btif_rc_cb.rc_vol_label
    volume,     \* btif_rc_cb.rc_volume
    pool,       \* device.transaction[] (module TxnPool); no alarm is armed
    pending,    \* commands the remote holds: [lbl, pdu, val]
    peerReg,    \* label of the registration the remote answered INTERIM on
    peerVol,    \* the remote's volume
    btifq,      \* BTIF work queue
    jni,        \* set_volume in progress: the volume, or 0 when idle
    out,        \* ghost: commands sent and not finally answered
    notif,      \* btif_rc_cb.rc_notif[]: [bNotify, label] per event
    pduInfo,    \* btif_rc_cb.rc_pdu_info[]: [is_rsp_pending, label]
    tgOut,      \* commands the remote sent us and awaits a final answer
    stray,      \* ghost: answers the remote got for no command it holds
    budget

vars == <<link, connected, features, volLabel, volume, pool, pending, peerReg,
          peerVol, btifq, jni, out, notif, pduInfo, tgOut, stray, budget>>
tgVars == <<notif, pduInfo, tgOut, stray>>

S == [link |-> link, connected |-> connected, features |-> features,
      volLabel |-> volLabel, volume |-> volume, pool |-> pool,
      pending |-> pending, out |-> out, btifq |-> btifq, notif |-> notif,
      pduInfo |-> pduInfo, tgOut |-> tgOut, stray |-> stray]

Commit(s) ==
    /\ connected' = s.connected /\ features' = s.features
    /\ volLabel' = s.volLabel /\ volume' = s.volume /\ pool' = s.pool
    /\ pending' = s.pending /\ out' = s.out
    /\ notif' = s.notif /\ pduInfo' = s.pduInfo /\ tgOut' = s.tgOut
    /\ stray' = s.stray

(* BTRC_FEAT_ABSOLUTE_VOLUME: the remote is a target with advanced control. *)
AbsVolCapable(f) == {"RCTG", "ADV_CTRL"} \subseteq f

(* BTA_AvMetaCmd on rc_handle: the command reaches the remote only on the *)
(* link the engine believes it is on, up and with its close not waiting   *)
(* in the BTIF queue; the ghost records it while the session exists.      *)
OnCurrentLink(s) ==
    s.link /\ ~\E i \in DOMAIN s.btifq : s.btifq[i].kind = "close"

MetaCmd(s, c) ==
    [s EXCEPT !.pending = IF OnCurrentLink(s) THEN @ \cup {c} ELSE @,
              !.out = IF s.connected THEN @ \cup {c} ELSE @]

(* register_volumechange(lbl): sent only if the label is in use. *)
RegisterVolumechange(s, lbl) ==
    IF InUse(s.pool, lbl)
    THEN MetaCmd(s, [lbl |-> lbl, pdu |-> "REG_NOTIF", val |-> 0])
    ELSE s

(* get_transaction, then rc_vol_label = lbl and register_volumechange. *)
TakeVolLabel(s) ==
    IF HasFree(s.pool)
    THEN LET l == FirstFree(s.pool)
         IN RegisterVolumechange([s EXCEPT !.pool = Acquire(@, l),
                                           !.volLabel = l], l)
    ELSE s

(* Mutation: the "already in progress" test is missing. *)
HandleRcFeaturesNoInProgressCheck(s) ==
    LET s1 == IF AbsVolumeBlocked
              THEN [s EXCEPT !.features = @ \ {"ADV_CTRL"}] ELSE s
    IN IF AbsVolCapable(s1.features) THEN TakeVolLabel(s1) ELSE s1

(* handle_rc_features (TG callbacks registered): ADV_CTRL is dropped when *)
(* absolute volume is blocked; then, for an absolute-volume target,       *)
(* register for VOLUME_CHANGED unless the kept label is still in use.     *)
HandleRcFeatures(s) ==
    LET s1 == IF AbsVolumeBlocked
              THEN [s EXCEPT !.features = @ \ {"ADV_CTRL"}] ELSE s
    IN IF ~AbsVolCapable(s1.features) THEN s1
       ELSE IF s1.volLabel = MaxLabel THEN TakeVolLabel(s1)
       ELSE IF InUse(s1.pool, s1.volLabel) THEN s1
       ELSE TakeVolLabel(s1)

(* Mutation: handle_rc_connect does not call handle_rc_features. *)
HandleRcConnectNoFeatures(s, f) ==
    [s EXCEPT !.features = f, !.volLabel = MaxLabel, !.volume = MaxVolume,
              !.connected = TRUE]

(* handle_rc_connect: a successful open of the one peer. *)
HandleRcConnect(s, f) ==
    LET s1 == [s EXCEPT !.features = f, !.volLabel = MaxLabel,
                        !.volume = MaxVolume, !.connected = TRUE]
    IN IF f # {} THEN HandleRcFeatures(s1) ELSE s1

(* Mutation: rc_notif[] survives the disconnect. *)
HandleRcDisconnectKeepNotif(s) ==
    [s EXCEPT !.connected = FALSE, !.features = {}, !.volLabel = MaxLabel,
              !.volume = MaxVolume, !.pool = InitAll(@), !.out = {}]

(* handle_rc_disconnect: rc_notif[] is cleared, rc_pdu_info[] is not. *)
HandleRcDisconnect(s) ==
    [s EXCEPT !.connected = FALSE, !.features = {}, !.volLabel = MaxLabel,
              !.volume = MaxVolume, !.pool = InitAll(@), !.out = {},
              !.notif = NoNotif]

(* BTA_AV_RC_FEAT_EVT *)
HandleRcFeat(s, f) == HandleRcFeatures([s EXCEPT !.features = f])

(* release_transaction *)
ReleaseLabel(s, l) == [s EXCEPT !.pool = Release(@, l)]

(* Mutation: the cached volume follows every SetAbsoluteVolume answer,   *)
(* whatever its ctype.                                                   *)
UpstreamsRspEvtAnyCode(s, a) ==
    IF a.pdu = "SET_ABS_VOL" \/ a.code = "changed"
    THEN [s EXCEPT !.volume = a.val]
    ELSE s

(* btif_rc_upstreams_rsp_evt: the cached volume follows a CHANGED         *)
(* notification and an accepted SetAbsoluteVolume.                        *)
UpstreamsRspEvt(s, a) ==
    IF \/ a.pdu = "REG_NOTIF" /\ a.code = "changed"
       \/ a.pdu = "SET_ABS_VOL" /\ a.code = "accept"
    THEN [s EXCEPT !.volume = a.val]
    ELSE s

(* handle_rc_metamsg_rsp.  On a parse error of the volume registration's *)
(* answer rc_vol_label is reset to MAX_LABEL before it is released, so    *)
(* release_transaction(MAX_LABEL) finds no slot (lines 1933-1934).        *)
HandleRcMetamsgRsp(s, a) ==
    IF a.parse = "err"
    THEN IF a.pdu = "REG_NOTIF" /\ s.volLabel = a.lbl
         THEN LET s1 == [s EXCEPT !.volLabel = MaxLabel]
              IN ReleaseLabel(s1, s1.volLabel)
         ELSE IF a.pdu = "SET_ABS_VOL" THEN ReleaseLabel(s, a.lbl)
         ELSE s
    ELSE IF a.pdu = "REG_NOTIF" /\ s.volLabel # a.lbl THEN s
    ELSE UpstreamsRspEvt(
           IF a.pdu = "REG_NOTIF" /\ a.code = "changed"
           THEN RegisterVolumechange(s, s.volLabel)
           ELSE IF a.pdu = "SET_ABS_VOL" THEN ReleaseLabel(s, a.lbl)
           ELSE s,
           a)

(* Ghost: the command an answer belongs to is settled, unless the answer *)
(* is an INTERIM, after which the remote still owes the CHANGED.          *)
Answered(s, a) ==
    IF a.code = "interim" THEN s
    ELSE [s EXCEPT !.out = @ \ {[lbl |-> a.lbl, pdu |-> a.pdu, val |-> a.cmdVal]}]

(* handle_rc_metamsg_cmd for a response: handled only on a label in use. *)
HandleRcMetamsgCmd(s, a) ==
    IF InUse(s.pool, a.lbl) THEN HandleRcMetamsgRsp(s, a) ELSE s

(* BTA_AvMetaRsp: an answer to the remote's command lbl.  It reaches the  *)
(* remote only on the current link; there it settles the command it     *)
(* answers (an INTERIM leaves it open), and an answer to no command the  *)
(* remote holds is recorded in the ghost stray.                           *)
MetaRsp(s, lbl, pdu, ev, interim) ==
    LET m == {c \in s.tgOut : c.lbl = lbl /\ c.pdu = pdu /\ c.ev = ev}
    IN IF ~OnCurrentLink(s) THEN s
       ELSE IF m = {}
       THEN [s EXCEPT !.stray = @ \cup {[lbl |-> lbl, pdu |-> pdu, ev |-> ev]}]
       ELSE IF interim THEN s
       ELSE [s EXCEPT !.tgOut = @ \ m]

(* send_reject_response; AVRC_BldResponse is taken to succeed. *)
SendRejectResponse(s, c) == MetaRsp(s, c.lbl, c.pdu, c.ev, FALSE)

(* send_metamsg_rsp for a CHANGED to REGISTER_NOTIFICATION: sent on the   *)
(* label kept in rc_notif[] if connected and registered, and the event   *)
(* is de-registered either way.                                           *)
SendChanged(s, ev) ==
    LET s1 == [s EXCEPT !.notif[ev].bNotify = FALSE]
    IN IF s.connected /\ s.notif[ev].bNotify
       THEN MetaRsp(s1, s.notif[ev].label, "REG_NOTIF", ev, FALSE)
       ELSE s1

(* handle_uid_changed_notification: INTERIM and CHANGED at once. *)
HandleUidChangedNotification(s, c) ==
    SendChanged(MetaRsp(s, c.lbl, "REG_NOTIF", c.ev, TRUE), c.ev)

(* btif_rc_upstreams_evt: GetPlayStatus and GetElementAttributes wait for  *)
(* the application in rc_pdu_info[] (FILL_PDU_QUEUE); a registration goes *)
(* to the application, except PLAY_POS with interval 0, which is rejected *)
(* and de-registered; the application-settings PDUs and unknown PDUs are  *)
(* rejected; InformDisplayCharset is accepted while connected.            *)
BtifRcUpstreamsEvt(s, c) ==
    CASE c.pdu \in PduQueued ->
           IF c.pdu = "GET_ELEM_ATTR" /\ c.arg = "bad"
           THEN SendRejectResponse(s, c)
           ELSE [s EXCEPT !.pduInfo[c.pdu] = [pending |-> TRUE, label |-> c.lbl]]
      [] c.pdu = "REG_NOTIF" ->
           IF c.ev = "PLAY_POS" /\ c.arg = "bad"
           THEN [SendRejectResponse(s, c) EXCEPT !.notif[c.ev].bNotify = FALSE]
           ELSE s
      [] c.pdu = "INFORM_CHARSET" ->
           IF s.connected THEN MetaRsp(s, c.lbl, c.pdu, c.ev, FALSE) ELSE s
      [] OTHER -> SendRejectResponse(s, c)

(* handle_rc_metamsg_cmd for a command: a parse error is rejected; a      *)
(* registration is recorded in rc_notif[event_id - 1] before anything     *)
(* else, and UIDS_CHANGED is answered at once.                            *)
HandleTgCmd(s, c) ==
    IF c.arg = "parse_err" THEN SendRejectResponse(s, c)
    ELSE LET s1 == IF c.pdu = "REG_NOTIF"
                   THEN [s EXCEPT !.notif[c.ev] =
                                    [bNotify |-> TRUE, label |-> c.lbl]]
                   ELSE s
         IN IF c.pdu = "REG_NOTIF" /\ c.ev = "UIDS"
            THEN HandleUidChangedNotification(s1, c)
            ELSE BtifRcUpstreamsEvt(s1, c)

(* One item of the BTIF queue (btif_rc_handler). *)
Handle(s, it) ==
    CASE it.kind = "rsp"   -> HandleRcMetamsgCmd(Answered(s, it), it)
      [] it.kind = "cmd"   -> HandleTgCmd(s, it)
      [] it.kind = "open"  -> HandleRcConnect(s, it.f)
      [] it.kind = "close" -> HandleRcDisconnect(s)
      [] it.kind = "feat"  -> HandleRcFeat(s, it.f)

(* set_volume, first part: CHECK_RC_CONNECTED, the DONE shortcut when     *)
(* rc_volume already equals the volume, and the feature test.  A call     *)
(* that returns here changes nothing and is not a step.                   *)
SetVolumeChecks(s, v) ==
    s.connected /\ s.volume # v /\ AbsVolCapable(s.features)

(* set_volume, second part: get_transaction and BTA_AvMetaCmd; no alarm  *)
(* guards the command.                                                    *)
SetVolumeSend(s, v) ==
    IF HasFree(s.pool)
    THEN LET l == FirstFree(s.pool)
         IN MetaCmd([s EXCEPT !.pool = Acquire(@, l)],
                    [lbl |-> l, pdu |-> "SET_ABS_VOL", val |-> v])
    ELSE s

(* ----------------------------------------------------------------------- *)
(* The specification.                                                      *)
(* ----------------------------------------------------------------------- *)

Init ==
    /\ link = FALSE /\ connected = FALSE /\ features = {}
    /\ volLabel = MaxLabel /\ volume = MaxVolume   \* init()
    /\ pool = EmptyPool /\ pending = {} /\ peerReg = NoReg
    /\ peerVol \in Volumes
    /\ btifq = <<>> /\ jni = 0 /\ out = {}
    /\ notif = NoNotif /\ pduInfo = NoPduInfo /\ tgOut = {} /\ stray = {}
    /\ budget = [sessions |-> 0, feats |-> 0, setVols |-> 0, changes |-> 0,
                 tgCmds |-> 0, appRsps |-> 0]

Post(it) == /\ Len(btifq) < MaxQueue
            /\ btifq' = Append(btifq, it)

(* The remote's answer to command c: an accepted SetAbsoluteVolume sets   *)
(* its volume, an INTERIM keeps the registration; a rejection carries     *)
(* no volume, and the parser leaves the zeroed field.                     *)
PeerReply(c) ==
    \E code \in (IF c.pdu = "SET_ABS_VOL" THEN SetVolCodes ELSE RegCodes) :
      \E parse \in IF c.pdu \in ParseErrPdus THEN {"ok", "err"} ELSE {"ok"} :
        LET v == CASE code = "accept"  -> c.val
                   [] code = "interim" -> peerVol
                   [] OTHER            -> 0
        IN /\ Post([kind |-> "rsp", lbl |-> c.lbl, pdu |-> c.pdu, code |-> code,
                    parse |-> parse, val |-> v, cmdVal |-> c.val])
           /\ pending' = pending \ {c}
           /\ peerVol' = IF code = "accept" THEN c.val ELSE peerVol
           /\ peerReg' = IF code = "interim" THEN c.lbl ELSE peerReg
           /\ UNCHANGED <<link, connected, features, volLabel, volume, pool,
                          jni, out, budget, tgVars>>

PeerRespond == \E c \in pending : PeerReply(c)

(* The remote's volume moves (its own volume keys); the registration it  *)
(* holds, if any, is completed with CHANGED.                             *)
PeerVolumeChange ==
    /\ link
    /\ budget.changes < MaxPeerChanges
    /\ \E v \in Volumes \ {peerVol} :
         /\ peerVol' = v
         /\ IF peerReg = NoReg THEN UNCHANGED btifq
            ELSE \E parse \in IF "REG_NOTIF" \in ParseErrPdus
                              THEN {"ok", "err"} ELSE {"ok"} :
                   Post([kind |-> "rsp", lbl |-> peerReg, pdu |-> "REG_NOTIF",
                         code |-> "changed", parse |-> parse, val |-> v,
                         cmdVal |-> 0])
    /\ peerReg' = NoReg
    /\ budget' = [budget EXCEPT !.changes = @ + 1]
    /\ UNCHANGED <<link, connected, features, volLabel, volume, pool, pending,
                   jni, out, tgVars>>

(* BTA: the RC channel opens (BTA_AV_RC_OPEN_EVT). *)
LinkUp ==
    /\ ~link
    /\ budget.sessions < MaxSessions
    /\ \E f \in PeerFeatureSets : Post([kind |-> "open", f |-> f])
    /\ link' = TRUE
    /\ budget' = [budget EXCEPT !.sessions = @ + 1]
    /\ UNCHANGED <<connected, features, volLabel, volume, pool, pending,
                   peerReg, peerVol, jni, out, tgVars>>

(* BTA: the RC channel closes; the remote forgets every command. *)
LinkDown ==
    /\ link
    /\ Post([kind |-> "close"])
    /\ link' = FALSE
    /\ pending' = {} /\ peerReg' = NoReg /\ tgOut' = {}
    /\ UNCHANGED <<connected, features, volLabel, volume, pool, peerVol, jni,
                   out, budget, notif, pduInfo, stray>>

(* BTA: the remote's features are reported (BTA_AV_RC_FEAT_EVT). *)
FeatureUpdate ==
    /\ link
    /\ budget.feats < MaxFeatEvts
    /\ \E f \in PeerFeatureSets : Post([kind |-> "feat", f |-> f])
    /\ budget' = [budget EXCEPT !.feats = @ + 1]
    /\ UNCHANGED <<link, connected, features, volLabel, volume, pool, pending,
                   peerReg, peerVol, jni, out, tgVars>>

(* The remote, as controller, sends a command on a label none of its    *)
(* open commands carries (BTA_AV_META_MSG_EVT with a command ctype).      *)
PeerCommand ==
    /\ link
    /\ budget.tgCmds < MaxTgCmds
    /\ \E pdu \in TgPdus, arg \in TgArgs,
         lbl \in PeerLabels \ {c.lbl : c \in tgOut} :
         \E ev \in IF pdu = "REG_NOTIF" THEN TgEvents ELSE {"none"} :
           /\ Post([kind |-> "cmd", lbl |-> lbl, pdu |-> pdu, ev |-> ev,
                    arg |-> arg])
           /\ tgOut' = tgOut \cup {[lbl |-> lbl, pdu |-> pdu, ev |-> ev]}
    /\ budget' = [budget EXCEPT !.tgCmds = @ + 1]
    /\ UNCHANGED <<link, connected, features, volLabel, volume, pool, pending,
                   peerReg, peerVol, jni, out, notif, pduInfo, stray>>

(* JNI: get_play_status_rsp / get_element_attr_rsp.  CHECK_RC_CONNECTED   *)
(* and SEND_METAMSG_RSP: with no command waiting in rc_pdu_info[] the call *)
(* returns and is not a step; else the answer goes on the kept label and  *)
(* the slot is cleared.                                                    *)
PduRsp(s, p) ==
    MetaRsp([s EXCEPT !.pduInfo[p] = [pending |-> FALSE, label |-> 0]],
            s.pduInfo[p].label, p, "none", FALSE)

AppPduRsp ==
    /\ \E p \in PduQueued \cap TgPdus :
         /\ connected /\ pduInfo[p].pending
         /\ Commit(PduRsp(S, p))
    /\ UNCHANGED <<link, peerReg, peerVol, btifq, jni, budget>>

(* JNI: register_notification_rsp.  Not connected, not registered or an  *)
(* event outside PLAY_STATUS, TRACK_CHANGE and PLAY_POS returns; INTERIM  *)
(* (AVRC_CMD_NOTIF) goes on the kept label; CHANGED via send_metamsg_rsp. *)
RegisterNotificationRsp(s, ev, type) ==
    IF type = "interim"
    THEN MetaRsp(s, s.notif[ev].label, "REG_NOTIF", ev, TRUE)
    ELSE SendChanged(s, ev)

AppNotifRsp ==
    /\ budget.appRsps < MaxAppRsps
    /\ \E ev \in TgEvents \cap RspEvents, type \in {"interim", "changed"} :
         /\ connected /\ notif[ev].bNotify
         /\ Commit(RegisterNotificationRsp(S, ev, type))
    /\ budget' = [budget EXCEPT !.appRsps = @ + 1]
    /\ UNCHANGED <<link, peerReg, peerVol, btifq, jni>>

(* BTIF: run the handler of the oldest queued item.  Unless the model lets *)
(* it race set_volume, BTIF waits for a set_volume call in progress.       *)
BtifDispatch ==
    /\ btifq # <<>>
    /\ JniRace \/ jni = 0
    /\ btifq' = Tail(btifq)
    /\ Commit(Handle([S EXCEPT !.btifq = Tail(@)], Head(btifq)))
    /\ UNCHANGED <<link, peerReg, peerVol, jni, budget>>

(* JNI: set_volume passes its checks. *)
SetVolumeCall ==
    /\ jni = 0
    /\ budget.setVols < MaxSetVols
    /\ \E v \in Volumes : SetVolumeChecks(S, v) /\ jni' = v
    /\ budget' = [budget EXCEPT !.setVols = @ + 1]
    /\ UNCHANGED <<link, connected, features, volLabel, volume, pool, pending,
                   peerReg, peerVol, btifq, out, tgVars>>

(* JNI: set_volume takes a label and sends. *)
SetVolumeIssue ==
    /\ jni # 0
    /\ Commit(SetVolumeSend(S, jni))
    /\ jni' = 0
    /\ UNCHANGED <<link, peerReg, peerVol, btifq, budget>>

(* Every session is closed and handled and the application is idle. *)
Idle ==
    /\ ~link /\ budget.sessions = MaxSessions /\ btifq = <<>> /\ ~connected
    /\ jni = 0
    /\ UNCHANGED vars

Next ==
    \/ PeerRespond
    \/ PeerVolumeChange
    \/ LinkUp
    \/ LinkDown
    \/ FeatureUpdate
    \/ BtifDispatch
    \/ SetVolumeCall
    \/ SetVolumeIssue
    \/ PeerCommand
    \/ AppPduRsp
    \/ AppNotifRsp
    \/ Idle

Spec == Init /\ [][Next]_vars

(* BTIF drains its queue, the remote answers every command it holds, and *)
(* a set_volume call that has passed its checks runs to its end.  The     *)
(* link, the remote's keys and commands, and the application are not     *)
(* fair.                                                                  *)
Fairness ==
    /\ WF_vars(BtifDispatch)
    /\ WF_vars(PeerRespond)
    /\ WF_vars(SetVolumeIssue)

FairSpec == Spec /\ Fairness

(* ----------------------------------------------------------------------- *)
(* Properties.                                                             *)
(* ----------------------------------------------------------------------- *)

Cmds == [lbl : Labels, pdu : {"SET_ABS_VOL", "REG_NOTIF"}, val : Volumes \cup {0}]

TgMsgs == [lbl : PeerLabels, pdu : TgPdus, ev : TgEvents \cup {"none"}]

(* Every variable has its type; the cached volume is MAX_VOLUME or a     *)
(* volume the remote reported.                                           *)
TypeOK ==
    /\ link \in BOOLEAN /\ connected \in BOOLEAN
    /\ features \in SUBSET UNION PeerFeatureSets
    /\ volLabel \in Labels \cup {MaxLabel}
    /\ volume \in Volumes \cup {MaxVolume}
    /\ pool \in [Labels -> Slot({})]
    /\ pending \subseteq Cmds /\ out \subseteq Cmds
    /\ peerReg \in Labels \cup {NoReg} /\ peerVol \in Volumes
    /\ jni \in Volumes \cup {0}
    /\ notif \in [TgEvents -> [bNotify : BOOLEAN, label : PeerLabels \cup {0}]]
    /\ pduInfo \in [PduQueued -> [pending : BOOLEAN, label : PeerLabels \cup {0}]]
    /\ tgOut \subseteq TgMsgs /\ stray \subseteq TgMsgs

(* The labels of device.transaction[] are accounted for: every label in  *)
(* use is carried by a command of this session that is not yet finally  *)
(* answered, and every such command holds an in-use label no other one   *)
(* holds.  A label in use that no command carries is lost until the     *)
(* session closes.                                                       *)
LabelsAccounted ==
    /\ \A l \in Labels : pool[l].inUse <=> \E c \in out : c.lbl = l
    /\ \A c, d \in out : c.lbl = d.lbl => c = d

(* A connected absolute-volume target is eventually subscribed: the      *)
(* remote holds the VOLUME_CHANGED registration (handle_rc_features,     *)
(* register_volumechange, and the re-registration after CHANGED), unless *)
(* the link goes down.  The session is the engine's on the current link. *)
VolumeSubscribes ==
    (OnCurrentLink(S) /\ connected /\ AbsVolCapable(features))
        ~> (peerReg # NoReg \/ ~link)

(* Every notification the remote receives (an INTERIM or CHANGED from     *)
(* register_notification_rsp, handle_uid_changed_notification, or the    *)
(* rejection of a registration) answers a registration of that event it  *)
(* still holds on that link: rc_notif[] is cleared on disconnect and a    *)
(* CHANGED or a rejected PLAY_POS de-registers the event.                 *)
NotificationsAnswerRegistrations ==
    \A r \in stray : r.pdu # "REG_NOTIF"

=============================================================================
