------------------------------ MODULE RcCtrl -------------------------------
(***************************************************************************)
(* The AVRCP controller (CT, A2DP sink side) engine of btif_rc.cc.         *)
(*                                                                         *)
(* Three kinds of actor share the btif_rc_cb control block:                *)
(*   - the BTU thread: the remote target's answers, RC open/close/feature  *)
(*     events from BTA, and the one-shot alarms, all of which reach the    *)
(*     engine by being posted, in order, to the BTIF work queue (btifq);   *)
(*   - the BTIF thread: takes one item at a time from btifq and runs the   *)
(*     whole handler for it (btif_rc_handler, the timeout handlers);       *)
(*   - the application (JNI) thread: change_player_app_setting.            *)
(*                                                                         *)
(* A handler is modelled as a function from a session record to a session *)
(* record, so that the functions it calls compose in the order the C code *)
(* calls them, and Commit assigns the result to the variables.             *)
(*                                                                         *)
(* The ghost variable live holds the requests the engine has sent and not  *)
(* yet settled, each with a fresh identity, so that properties can tell    *)
(* two requests that reuse one transaction label apart.                    *)
(***************************************************************************)
EXTENDS TxnPool, Integers, SequencesExt

CONSTANTS
    ReqIds,          \* identities of the ghost request records
    PeerEventLists,  \* event lists the target may advertise (GetCapabilities)
    PeerAttrLists,   \* attribute lists it may answer ListPlayerAppAttr with
    PeerFeatureSets, \* the peer_features BTA may report in RC_OPEN / RC_FEAT
    StatusCodes,     \* answers to a status command: "ok" and/or "rej"
    NotifCodes,      \* first answers to RegisterNotification: "interim", "rej"
    PlayStates,      \* play statuses the target may report
    TimerRace,       \* an alarm may fire while BTIF work is still queued
    PeerLate,        \* the target may answer a request the engine gave up on
    JniRace,         \* BTIF may run inside change_player_app_setting
    MaxQueue,        \* bound on the BTIF work queue
    MaxSessions,     \* bound on the RC links the target opens
    MaxChanges,      \* bound on the CHANGED notifications it sends
    MaxAppCmds,      \* bound on JNI calls: app settings and passthrough keys
    MaxTimeouts,     \* bound on command alarms that expire
    MaxPolls,        \* bound on play status alarms that expire
    MaxFeatEvts,     \* bound on BTA_AV_RC_FEAT_EVT reports
    NoList,          \* rc_supported_event_list == NULL
    JunkLabels       \* values an uninitialised p_event->label may hold

ASSUME MaxQueue \in Nat \ {0}

(* AVRC_PLAYER_SETTING_LOW_MENU_EXT: ids above it are extended attributes *)
LowMenuExt == 128

(* The events kept by handle_get_capability_response (lines 2375-2377).  *)
Kept == {"PLAY_STATUS", "TRACK", "APP_SETTING"}

Pdus == {"GET_CAPS", "LIST_ATTR", "LIST_VALUES", "GET_CUR_VAL", "ATTR_TEXT",
         "VALUE_TEXT", "SET_VAL", "REG_NOTIF", "ELEM_ATTR", "PLAY_STATUS",
         "PASSTHRU", "GROUP_NAV"}

(* Passthrough commands: a key (BTA_AvRemoteCmd) and a group navigation  *)
(* key (BTA_AvRemoteVendorUniqueCmd).                                     *)
PassPdus == {"PASSTHRU", "GROUP_NAV"}

VARIABLES
    link,          \* BTA-level RC link to the target is up
    connected,     \* btif_rc_cb.rc_connected
    features,      \* btif_rc_cb.rc_features
    featProcessed, \* btif_rc_cb.rc_features_processed
    procComplete,  \* btif_rc_cb.rc_procedure_complete
    events,        \* rc_supported_event_list: Seq of [id, lbl, st] or NoList
    app,           \* btif_rc_cb.rc_app_settings
    playTimer,     \* rc_play_status_timer is scheduled
    lastPlay,      \* ghost: play status last reported by the target
    pool,          \* device.transaction[] (module TxnPool)
    peer,          \* requests the target holds: [req, phase]
    btifq,         \* BTIF work queue fed by the BTU thread
    live,          \* ghost: requests sent and not yet settled
    crashed,       \* the process dereferenced a NULL event list
    budget,        \* environment stimuli so far, one count per bound
    jniTxn         \* the transaction change_player_app_setting holds between
                   \* get_transaction and start_control_command_timer

vars == <<link, connected, features, featProcessed, procComplete, events, app,
          playTimer, lastPlay, pool, peer, btifq, live, crashed, budget,
          jniTxn>>

(* The session as one record, and its assignment back to the variables. *)
S == [link |-> link, connected |-> connected, features |-> features,
      featProcessed |-> featProcessed, procComplete |-> procComplete,
      events |-> events, app |-> app, playTimer |-> playTimer,
      lastPlay |-> lastPlay, pool |-> pool, peer |-> peer, btifq |-> btifq,
      live |-> live, crashed |-> crashed]

Commit(s) ==
    /\ link' = s.link /\ connected' = s.connected /\ features' = s.features
    /\ featProcessed' = s.featProcessed /\ procComplete' = s.procComplete
    /\ events' = s.events /\ app' = s.app /\ playTimer' = s.playTimer
    /\ lastPlay' = s.lastPlay /\ pool' = s.pool /\ peer' = s.peer
    /\ btifq' = s.btifq /\ live' = s.live /\ crashed' = s.crashed

(* rc_app_settings after the memset in handle_rc_disconnect.  std / ext  *)
(* are attrs[0..num_attrs-1] / ext_attrs[0..num_ext_attrs-1] by attr_id; *)
(* stdVals / extVals record, per slot, the attribute whose value list was *)
(* stored into it (NoVals: none yet).                                    *)
EmptyApp == [started |-> FALSE, std |-> <<>>, ext |-> <<>>,
             stdVals |-> <<>>, extVals |-> <<>>,
             attrIdx |-> 0, extIdx |-> 0, extValIdx |-> 0]

(* ----------------------------------------------------------------------- *)
(* Requests and the label pool.                                            *)
(* ----------------------------------------------------------------------- *)

UsedIds(s) ==
    {r.id : r \in s.live} \cup {p.req.id : p \in s.peer}
    \cup {s.pool[l].timer.req : l \in {m \in Labels : s.pool[m].timer # NoTimer}}
    \cup {s.btifq[i].req.id : i \in {j \in DOMAIN s.btifq : s.btifq[j].kind = "rsp"}}
    \cup {s.btifq[i].rid : i \in {j \in DOMAIN s.btifq : s.btifq[j].kind = "timeout"}}
    \cup {t.rid : t \in jniTxn}

(* The least unused identity, so that equal histories get equal ids. *)
NewId(s) == Min(ReqIds \ UsedIds(s))

(* The common body of every command builder (getcapabilities_cmd ...     *)
(* get_play_status_cmd, change_player_app_setting): CHECK_RC_CONNECTED,  *)
(* get_transaction, BTA_AvVendorCmd, start_*_command_timer.  The command  *)
(* reaches the target only on the link the engine believes it is on: the *)
(* link is up and its close is not still waiting in the BTIF queue.      *)
CanSend(s) == s.connected /\ HasFree(s.pool)

OnCurrentLink(s) ==
    s.link /\ ~\E i \in DOMAIN s.btifq : s.btifq[i].kind = "close"

SendCmd(s, pdu, arg) ==
    IF ~CanSend(s) THEN s
    ELSE LET l == FirstFree(s.pool)
             r == [id |-> NewId(s), lbl |-> l, pdu |-> pdu, arg |-> arg]
         IN [s EXCEPT !.pool = ArmTimer(Acquire(@, l), l, [pdu |-> pdu, req |-> r.id]),
                      !.peer = IF OnCurrentLink(s) THEN @ \cup {[req |-> r, phase |-> "new"]}
                               ELSE @,
                      !.live = @ \cup {r}]

(* send_passthrough_cmd / send_groupnavigation_cmd after CHECK_RC_       *)
(* CONNECTED and the RCTG test: get_transaction and the send; no alarm is *)
(* armed, so only the answer gives the label back.  change_player_app_    *)
(* setting runs the same statements before it arms its alarm.             *)
SendPassthroughCmd(s, pdu) ==
    LET l == FirstFree(s.pool)
        r == [id |-> NewId(s), lbl |-> l, pdu |-> pdu, arg |-> "none"]
    IN [s EXCEPT !.pool = Acquire(@, l),
                 !.peer = IF OnCurrentLink(s) THEN @ \cup {[req |-> r, phase |-> "new"]}
                          ELSE @,
                 !.live = @ \cup {r}]

(* The command builders of btif_rc.cc, each SendCmd with its PDU. *)
GetcapabilitiesCmd(s, capId)       == SendCmd(s, "GET_CAPS", capId)
ListPlayerAppSettingAttribCmd(s)   == SendCmd(s, "LIST_ATTR", "none")
ListPlayerAppSettingValueCmd(s, a) == SendCmd(s, "LIST_VALUES", a)
GetPlayerAppSettingCmd(s)          == SendCmd(s, "GET_CUR_VAL", "none")
GetPlayerAppSettingAttrTextCmd(s)  == SendCmd(s, "ATTR_TEXT", "none")
GetPlayerAppSettingValueTextCmd(s) == SendCmd(s, "VALUE_TEXT", "none")
RegisterNotificationCmd(s, ev)     == SendCmd(s, "REG_NOTIF", ev)
GetElementAttributeCmd(s)          == SendCmd(s, "ELEM_ATTR", "none")
GetPlayStatusCmd(s)                == SendCmd(s, "PLAY_STATUS", "none")

(* Mutation: the label is looked up again after get_transaction took one, *)
(* so the event records the next free label instead of its own.          *)
RegisterEventNextLabel(s, i) ==
    IF ~CanSend(s) THEN s
    ELSE LET s1 == RegisterNotificationCmd(s, s.events[i].id)
         IN [s1 EXCEPT !.events[i].lbl = IF HasFree(s1.pool) THEN FirstFree(s1.pool)
                                          ELSE @,
                       !.events[i].st = "REGISTERED"]

(* register_for_event_notification(events[i]): a label, the command, then *)
(* label and eREGISTERED recorded in the event and the interim timer set. *)
RegisterEvent(s, i) ==
    IF ~CanSend(s) THEN s
    ELSE [RegisterNotificationCmd(s, s.events[i].id)
             EXCEPT !.events[i].lbl = FirstFree(s.pool),
                    !.events[i].st = "REGISTERED"]

IsUnregistered(e) == e.st = "NOT_REGISTERED"

(* The loop "register the first eNOT_REGISTERED event" of lines           *)
(* 2515-2526 / 2060-2071.                                                  *)
RegisterNextEvent(s) ==
    LET i == SelectInSeq(s.events, IsUnregistered) IN
    IF i = 0 THEN s ELSE RegisterEvent(s, i)

(* rc_ctrl_procedure_complete *)
ProcedureComplete(s) ==
    IF s.procComplete THEN s
    ELSE GetElementAttributeCmd([s EXCEPT !.procComplete = TRUE])

StartPlayTimer(s) == [s EXCEPT !.playTimer = TRUE]
StopPlayTimer(s)  == [s EXCEPT !.playTimer = FALSE]

(* ----------------------------------------------------------------------- *)
(* Response handlers.  st is "ok", "rej" or "timeout" (BTIF_RC_STS_TIMEOUT *)
(* from the timeout handlers); arg is the request's argument; data the     *)
(* payload of an "ok" answer.                                              *)
(* ----------------------------------------------------------------------- *)

(* Mutation: every advertised event is kept, PLAY_POS_CHANGED included. *)
HandleGetCapabilityResponseUnfiltered(s, st, arg, data, junk) ==
    IF st # "ok" THEN s
    ELSE IF arg = "EVENTS"
    THEN LET s1 == [s EXCEPT !.events =
                      [k \in 1 .. Len(data) |->
                          [id |-> data[k], lbl |-> junk[k], st |-> "NOT_REGISTERED"]]]
         IN IF Len(data) > 0 THEN RegisterEvent(s1, 1) ELSE s1
    ELSE GetcapabilitiesCmd(s, "EVENTS")

(* handle_get_capability_response.  The events kept start eNOT_REGISTERED *)
(* with the label osi_malloc left in them (junk[k]).                      *)
HandleGetCapabilityResponse(s, st, arg, data, junk) ==
    IF st # "ok" THEN s
    ELSE IF arg = "EVENTS"
    THEN LET evs == SelectSeq(data, LAMBDA e : e \in Kept)
             s1  == [s EXCEPT !.events =
                        [k \in 1 .. Len(evs) |->
                            [id |-> evs[k], lbl |-> junk[k], st |-> "NOT_REGISTERED"]]]
         IN IF Len(evs) > 0 THEN RegisterEvent(s1, 1) ELSE s1
    ELSE GetcapabilitiesCmd(s, "EVENTS")

(* The INTERIM branch of handle_notification_response. *)
NotifInterim(s, ev, val) ==
    LET s1 == IF ev = "PLAY_STATUS"
              THEN LET s0 == [s EXCEPT !.lastPlay = val]
                   IN IF val = "playing" THEN StartPlayTimer(s0) ELSE s0
              ELSE s
        i  == SelectInSeq(s1.events, LAMBDA e : e.id = ev)
        s2 == IF i = 0 THEN s1 ELSE [s1 EXCEPT !.events[i].st = "INTERIM"]
        j  == SelectInSeq(s2.events, IsUnregistered)
    IN IF j # 0 THEN RegisterEvent(s2, j)
       ELSE IF s2.app.started THEN s2
       ELSE LET s3 == [s2 EXCEPT !.app.started = TRUE]
            IN IF "APP_SETTING" \in s3.features
               THEN ListPlayerAppSettingAttribCmd(s3)
               ELSE ProcedureComplete(s3)

(* The CHANGED branch: re-register the event, then act on its value. *)
NotifChanged(s, ev, val) ==
    LET i  == SelectInSeq(s.events, LAMBDA e : e.id = ev)
        s1 == IF i = 0 THEN s
              ELSE RegisterEvent([s EXCEPT !.events[i].st = "NOT_REGISTERED"], i)
    IN CASE ev = "PLAY_STATUS" ->
              LET s2 == [s1 EXCEPT !.lastPlay = val]
              IN IF val = "playing" THEN StartPlayTimer(s2) ELSE StopPlayTimer(s2)
         [] ev = "TRACK" ->
              IF val = "valid" THEN GetElementAttributeCmd(s1) ELSE s1
         [] OTHER -> s1

(* handle_notification_response; list_foreach / list_begin abort on the  *)
(* NULL list.                                                             *)
HandleNotificationResponse(s, code, ev, val) ==
    IF code \notin {"interim", "changed"} THEN s
    ELSE IF s.events = NoList THEN [s EXCEPT !.crashed = TRUE]
    ELSE IF code = "interim" THEN NotifInterim(s, ev, val)
    ELSE NotifChanged(s, ev, val)

(* Mutation: the first query reads a slot that is still zero. *)
Attr0Zeroed(a) == 0

(* attrs[0].attr_id: 0 (memset by handle_rc_disconnect) if no standard   *)
(* attribute was stored.                                                  *)
Attr0(a) == IF a.std # <<>> THEN a.std[1] ELSE 0

NoVals == -1

Unset(n) == [k \in 1 .. n |-> NoVals]

(* handle_app_attr_response *)
HandleAppAttrResponse(s, st, data) ==
    IF st # "ok" THEN ProcedureComplete(s)
    ELSE LET std == SelectSeq(data, LAMBDA a : a <= LowMenuExt)
             ext == SelectSeq(data, LAMBDA a : a > LowMenuExt)
             s1  == [s EXCEPT !.app.std = @ \o std, !.app.ext = @ \o ext,
                              !.app.stdVals = @ \o Unset(Len(std)),
                              !.app.extVals = @ \o Unset(Len(ext)),
                              !.app.attrIdx = 0, !.app.extIdx = 0,
                              !.app.extValIdx = 0]
         IN IF Len(data) > 0 THEN ListPlayerAppSettingValueCmd(s1, Attr0(s1.app))
            ELSE s1

(* handle_app_val_response: the values answered for attribute forAttr are *)
(* stored into the next standard slot, else into the next extended slot.  *)
HandleAppValResponse(s, st, forAttr) ==
    LET a == s.app IN
    IF st # "ok" THEN s
    ELSE IF a.attrIdx < Len(a.std)
    THEN LET k  == a.attrIdx + 1
             s1 == [s EXCEPT !.app.stdVals[k] = forAttr, !.app.attrIdx = k]
         IN IF k < Len(a.std) THEN ListPlayerAppSettingValueCmd(s1, a.std[k + 1])
            ELSE IF a.extIdx < Len(a.ext)
            THEN ListPlayerAppSettingValueCmd([s1 EXCEPT !.app.extIdx = 0], a.ext[1])
            ELSE GetPlayerAppSettingCmd(s1)
    ELSE IF a.extIdx < Len(a.ext)
    THEN LET k  == a.extIdx + 1
             s1 == [s EXCEPT !.app.extVals[k] = forAttr, !.app.extIdx = k]
         IN IF k < Len(a.ext) THEN ListPlayerAppSettingValueCmd(s1, a.ext[k + 1])
            ELSE GetPlayerAppSettingAttrTextCmd(s1)
    ELSE s

(* Mutation: the current values are reported but the procedure is not  *)
(* completed.                                                           *)
HandleAppCurValResponseNoComplete(s, st) == s

(* handle_app_cur_val_response *)
HandleAppCurValResponse(s, st) ==
    IF st # "ok" THEN s ELSE ProcedureComplete(s)

(* Error path shared by the two text handlers: drop the extended menu and *)
(* fetch the current values of the standard attributes.                  *)
DropExtAttrs(s) ==
    GetPlayerAppSettingCmd(
        [s EXCEPT !.app.ext = <<>>, !.app.extVals = <<>>, !.app.extIdx = 0])

(* handle_app_attr_txt_response *)
HandleAppAttrTxtResponse(s, st) ==
    IF st # "ok" THEN DropExtAttrs(s) ELSE GetPlayerAppSettingValueTextCmd(s)

(* handle_app_attr_val_txt_response *)
HandleAppAttrValTxtResponse(s, st) ==
    LET v == s.app.extValIdx + 1 IN
    IF st # "ok" THEN DropExtAttrs(s)
    ELSE IF v < Len(s.app.ext)
    THEN GetPlayerAppSettingValueTextCmd([s EXCEPT !.app.extValIdx = v])
    ELSE [GetPlayerAppSettingCmd([s EXCEPT !.app.extValIdx = v])
             EXCEPT !.app.std = <<>>, !.app.stdVals = <<>>]

(* handle_get_elem_attr_response: a timeout is retried. *)
HandleGetElemAttrResponse(s, st) ==
    IF st = "timeout" THEN GetElementAttributeCmd(s) ELSE s

(* Ghost: the request with identity rid is settled once its handler has  *)
(* run, so that the commands the handler sends get fresh identities.     *)
Settled(s, rid) == [s EXCEPT !.live = {x \in @ : x.id # rid}]

(* Mutation: the release_transaction call is missing. *)
ReleaseLabelDropped(s, l) == s

(* release_transaction *)
ReleaseLabel(s, l) == [s EXCEPT !.pool = Release(@, l)]

(* handle_avk_rc_metamsg_rsp: the answer's label is not checked against  *)
(* the pool; the PDU handler runs, then the label is released, except     *)
(* after an INTERIM, where only the timer is cancelled (clear_cmd_timeout).*)
HandleAvkRcMetamsgRsp(s, r, code, data, junk) ==
    LET st  == IF code \in {"ok", "changed", "interim"} THEN "ok" ELSE "rej"
        res ==
          IF r.pdu = "REG_NOTIF"
          THEN LET s1 == HandleNotificationResponse(s, code, r.arg, data)
               IN IF code = "interim" THEN [s1 EXCEPT !.pool = CancelTimer(@, r.lbl)]
                  ELSE ReleaseLabel(s1, r.lbl)
          ELSE ReleaseLabel(
                 CASE r.pdu = "GET_CAPS"    -> HandleGetCapabilityResponse(s, st, r.arg, data, junk)
                   [] r.pdu = "LIST_ATTR"   -> HandleAppAttrResponse(s, st, data)
                   [] r.pdu = "LIST_VALUES" -> HandleAppValResponse(s, st, data)
                   [] r.pdu = "GET_CUR_VAL" -> HandleAppCurValResponse(s, st)
                   [] r.pdu = "ATTR_TEXT"   -> HandleAppAttrTxtResponse(s, st)
                   [] r.pdu = "VALUE_TEXT"  -> HandleAppAttrValTxtResponse(s, st)
                   [] r.pdu = "ELEM_ATTR"   -> HandleGetElemAttrResponse(s, st)
                   [] OTHER                 -> s,      \* SET_VAL, PLAY_STATUS: HAL only
                 r.lbl)
    IN IF code = "interim" THEN res ELSE Settled(res, r.id)

(* handle_rc_passthrough_rsp / handle_rc_vendorunique_rsp: the label is  *)
(* released, unchecked, if the peer has the RCTG feature.                  *)
HandleRcPassthroughRsp(s, r) ==
    Settled(IF "RCTG" \in s.features THEN ReleaseLabel(s, r.lbl) ELSE s, r.id)

(* Mutation: the timed-out event is left in the list. *)
InterimTimeoutKeepsEvent(s, l) ==
    IF s.events = NoList THEN [s EXCEPT !.crashed = TRUE]
    ELSE RegisterNextEvent(s)

(* rc_notification_interim_timout: remove the first event carrying the    *)
(* label, then register the next unregistered one.                        *)
RcNotificationInterimTimeout(s, l) ==
    IF s.events = NoList THEN [s EXCEPT !.crashed = TRUE]
    ELSE RegisterNextEvent(
           [s EXCEPT !.events = RemoveFirstMatch(@, LAMBDA e : e.lbl = l)])

(* The switch of btif_rc_status_cmd_timeout_handler: the PDU's handler   *)
(* with BTIF_RC_STS_TIMEOUT.  The value-text timeout goes to the          *)
(* attribute-text handler, as in the code.                                *)
TimeoutRoute(s, l, pdu) ==
    CASE pdu = "REG_NOTIF"   -> RcNotificationInterimTimeout(s, l)
      [] pdu = "GET_CAPS"    -> HandleGetCapabilityResponse(s, "timeout", "none", <<>>, <<>>)
      [] pdu = "LIST_ATTR"   -> HandleAppAttrResponse(s, "timeout", <<>>)
      [] pdu = "LIST_VALUES" -> HandleAppValResponse(s, "timeout", 0)
      [] pdu = "GET_CUR_VAL" -> HandleAppCurValResponse(s, "timeout")
      [] pdu = "ATTR_TEXT"   -> HandleAppAttrTxtResponse(s, "timeout")
      [] pdu = "VALUE_TEXT"  -> HandleAppAttrTxtResponse(s, "timeout")
      [] pdu = "ELEM_ATTR"   -> HandleGetElemAttrResponse(s, "timeout")
      [] OTHER               -> s   \* PLAY_STATUS, SET_VAL: HAL callback only

(* Mutation: the label is released before the PDU's handler runs, so the *)
(* command the handler sends may take the same label.                    *)
CmdTimeoutHandlerReleaseFirst(s, l, pdu, rid) ==
    Settled(TimeoutRoute(ReleaseLabel(s, l), l, pdu), rid)

(* btif_rc_status_cmd_timeout_handler and btif_rc_control_cmd_timeout_     *)
(* handler, run on BTIF with the context the alarm copied: the switch,     *)
(* then release_transaction.                                               *)
CmdTimeoutHandler(s, l, pdu, rid) ==
    Settled(ReleaseLabel(TimeoutRoute(s, l, pdu), l), rid)

(* btif_rc_play_status_timeout_handler *)
PlayStatusTimeoutHandler(s) == StartPlayTimer(GetPlayStatusCmd(s))

(* handle_rc_ctrl_features (sink enabled): start the procedure once. *)
CtrlCapable(f) == "RCTG" \in f \/ {"RCCT", "ADV_CTRL"} \subseteq f

HandleRcCtrlFeatures(s) ==
    IF CtrlCapable(s.features) /\ {"METADATA", "VENDOR"} \subseteq s.features
       /\ ~s.featProcessed
    THEN GetcapabilitiesCmd([s EXCEPT !.featProcessed = TRUE], "COMPANY_ID")
    ELSE s

(* handle_rc_connect (BTA_AV_SUCCESS, the one peer).  The procedure flags  *)
(* are not reset here.                                                    *)
HandleRcConnect(s, f) ==
    LET s1 == [s EXCEPT !.features = f, !.connected = TRUE]
    IN IF CtrlCapable(f) THEN HandleRcCtrlFeatures(s1) ELSE s1

(* handle_rc_disconnect *)
HandleRcDisconnect(s) ==
    [s EXCEPT !.app = EmptyApp, !.featProcessed = FALSE,
              !.procComplete = FALSE, !.playTimer = FALSE, !.events = NoList,
              !.connected = FALSE, !.features = {}, !.pool = InitAll(@),
              !.live = {}]

(* BTA_AV_RC_FEAT_EVT in btif_rc_handler *)
HandleRcFeat(s, f) ==
    LET s1 == [s EXCEPT !.features = f]
    IN IF s1.connected THEN HandleRcCtrlFeatures(s1) ELSE s1

(* One item of the BTIF queue, by kind. *)
Handle(s, it, junk) ==
    CASE it.kind = "rsp" /\ it.req.pdu \in PassPdus -> HandleRcPassthroughRsp(s, it.req)
      [] it.kind = "rsp"       -> HandleAvkRcMetamsgRsp(s, it.req, it.code, it.data, junk)
      [] it.kind = "timeout"   -> CmdTimeoutHandler(s, it.lbl, it.pdu, it.rid)
      [] it.kind = "playtimer" -> PlayStatusTimeoutHandler(s)
      [] it.kind = "open"      -> HandleRcConnect(s, it.f)
      [] it.kind = "close"     -> HandleRcDisconnect(s)
      [] it.kind = "feat"      -> HandleRcFeat(s, it.f)

(* ----------------------------------------------------------------------- *)
(* The specification.                                                      *)
(* ----------------------------------------------------------------------- *)

Init ==
    /\ link = FALSE /\ connected = FALSE /\ features = {}
    /\ featProcessed = FALSE /\ procComplete = FALSE
    /\ events = NoList /\ app = EmptyApp
    /\ playTimer = FALSE /\ lastPlay = "none"
    /\ pool = EmptyPool /\ peer = {} /\ btifq = <<>> /\ live = {}
    /\ crashed = FALSE
    /\ jniTxn = {}
    /\ budget = [sessions |-> 0, changes |-> 0, appCmds |-> 0, timeouts |-> 0,
                 polls |-> 0, feats |-> 0]

Post(it) == /\ Len(btifq) < MaxQueue
            /\ btifq' = Append(btifq, it)

(* An alarm posts to BTIF only when nothing else is queued, unless the    *)
(* model lets it race queued work.                                        *)
AlarmMayFire == TimerRace \/ btifq = <<>>

(* The request was given up on: its timeout is queued or handled. *)
GivenUp(r) ==
    \/ r \notin live
    \/ \E i \in DOMAIN btifq : btifq[i].kind = "timeout" /\ btifq[i].rid = r.id

NotifValues(ev) ==
    CASE ev = "PLAY_STATUS" -> PlayStates
      [] ev = "TRACK"       -> {"valid", "invalid"}
      [] OTHER              -> {"none"}

Codes(p) ==
    IF p.req.pdu # "REG_NOTIF" THEN StatusCodes
    ELSE IF p.phase = "new" THEN NotifCodes ELSE {"changed"}

(* The payload of an answer.  A rejection's payload is ignored by every  *)
(* handler; it is the empty value of the same shape, so that the answers  *)
(* to one request stay comparable.                                       *)
Payloads(r, code) ==
    CASE r.pdu = "GET_CAPS" /\ r.arg = "EVENTS" -> IF code = "rej" THEN {<<>>} ELSE PeerEventLists
      [] r.pdu = "LIST_ATTR"                    -> IF code = "rej" THEN {<<>>} ELSE PeerAttrLists
      [] r.pdu = "LIST_VALUES"                  -> {r.arg}
      [] r.pdu = "REG_NOTIF"                    -> IF code = "rej" THEN {"none"} ELSE NotifValues(r.arg)
      [] OTHER                                  -> {"none"}

(* BTU: the target answers a request it holds; after an INTERIM it keeps *)
(* the registration until it sends CHANGED.                              *)
PeerReply(p) ==
    \E code \in Codes(p) :
      \E data \in Payloads(p.req, code) :
        /\ PeerLate \/ ~GivenUp(p.req)
        /\ Post([kind |-> "rsp", req |-> p.req, code |-> code, data |-> data])
        /\ code = "changed" => budget.changes < MaxChanges
        /\ peer' = IF code = "interim"
                   THEN (peer \ {p}) \cup {[p EXCEPT !.phase = "interim"]}
                   ELSE peer \ {p}
        /\ budget' = IF code = "changed" THEN [budget EXCEPT !.changes = @ + 1]
                     ELSE budget
        /\ UNCHANGED <<link, connected, features, featProcessed, procComplete,
                       events, app, playTimer, lastPlay, pool, live, crashed, jniTxn>>

PeerAnswer == \E p \in peer : PeerReply(p)

(* The first answer to a command (not a later CHANGED, which waits for the *)
(* player's state to change).                                              *)
PeerRespond == \E p \in peer : p.phase = "new" /\ PeerReply(p)

(* BTU: a command alarm expires (btif_rc_status_cmd_timer_timeout /       *)
(* btif_rc_control_cmd_timer_timeout) and posts its context to BTIF.       *)
CmdTimerExpires(l) ==
    /\ pool[l].timer # NoTimer
    /\ AlarmMayFire
    /\ budget.timeouts < MaxTimeouts
    /\ Post([kind |-> "timeout", lbl |-> l, pdu |-> pool[l].timer.pdu,
             rid |-> pool[l].timer.req])
    /\ pool' = [pool EXCEPT ![l].timer = NoTimer]
    /\ budget' = [budget EXCEPT !.timeouts = @ + 1]
    /\ UNCHANGED <<link, connected, features, featProcessed, procComplete,
                   events, app, playTimer, lastPlay, peer, live, crashed, jniTxn>>

(* BTU: the play status alarm expires. *)
PlayTimerExpires ==
    /\ playTimer
    /\ AlarmMayFire
    /\ budget.polls < MaxPolls
    /\ Post([kind |-> "playtimer"])
    /\ playTimer' = FALSE
    /\ budget' = [budget EXCEPT !.polls = @ + 1]
    /\ UNCHANGED <<link, connected, features, featProcessed, procComplete,
                   events, app, lastPlay, pool, peer, live, crashed, jniTxn>>

(* BTA: the RC channel opens (BTA_AV_RC_OPEN_EVT). *)
LinkUp ==
    /\ ~link
    /\ budget.sessions < MaxSessions
    /\ \E f \in PeerFeatureSets : Post([kind |-> "open", f |-> f])
    /\ link' = TRUE
    /\ budget' = [budget EXCEPT !.sessions = @ + 1]
    /\ UNCHANGED <<connected, features, featProcessed, procComplete, events,
                   app, playTimer, lastPlay, pool, peer, live, crashed, jniTxn>>

(* BTA: the RC channel closes (BTA_AV_RC_CLOSE_EVT); the target forgets  *)
(* every request.                                                        *)
LinkDown ==
    /\ link
    /\ Post([kind |-> "close"])
    /\ link' = FALSE
    /\ peer' = {}
    /\ UNCHANGED <<connected, features, featProcessed, procComplete, events,
                   app, playTimer, lastPlay, pool, live, crashed, budget, jniTxn>>

(* BTA: the target's features are reported (BTA_AV_RC_FEAT_EVT). *)
FeatureUpdate ==
    /\ link
    /\ budget.feats < MaxFeatEvts
    /\ \E f \in PeerFeatureSets : Post([kind |-> "feat", f |-> f])
    /\ budget' = [budget EXCEPT !.feats = @ + 1]
    /\ UNCHANGED <<link, connected, features, featProcessed, procComplete,
                   events, app, playTimer, lastPlay, pool, peer, live, crashed, jniTxn>>

(* BTIF: run the handler of the oldest queued item.  Unless JniRace, it  *)
(* waits while change_player_app_setting is between its two steps.        *)
BtifDispatch ==
    /\ btifq # <<>>
    /\ ~crashed
    /\ JniRace \/ jniTxn = {}
    /\ LET it   == Head(btifq)
           nEvs == IF it.kind = "rsp" /\ it.req.pdu = "GET_CAPS" /\ it.code = "ok"
                      /\ it.req.arg = "EVENTS"
                   THEN Len(it.data) ELSE 0
       IN \E junk \in [1 .. nEvs -> JunkLabels] :
            Commit(Handle([S EXCEPT !.btifq = Tail(@)], it, junk))
    /\ UNCHANGED <<budget, jniTxn>>

(* JNI: change_player_app_setting up to BTA_AvVendorCmd: CHECK_RC_       *)
(* CONNECTED, get_transaction and the send, with no alarm yet.  Only       *)
(* get_transaction holds lbllock, so BTIF may run before the next step.    *)
ChangePlayerAppSetting ==
    /\ jniTxn = {}
    /\ CanSend(S)
    /\ ~crashed
    /\ budget.appCmds < MaxAppCmds
    /\ Commit(SendPassthroughCmd(S, "SET_VAL"))
    /\ jniTxn' = {[lbl |-> FirstFree(pool), rid |-> NewId(S)]}
    /\ budget' = [budget EXCEPT !.appCmds = @ + 1]

(* JNI: the call's last statement, start_control_command_timer on the     *)
(* slot it took: alarm_free, alarm_new, alarm_set, whether or not BTIF     *)
(* has answered, released or re-used the slot in the meantime.            *)
StartControlCommandTimer ==
    /\ \E t \in jniTxn :
         pool' = ArmTimer(pool, t.lbl, [pdu |-> "SET_VAL", req |-> t.rid])
    /\ jniTxn' = {}
    /\ UNCHANGED <<link, connected, features, featProcessed, procComplete,
                   events, app, playTimer, lastPlay, peer, btifq, live,
                   crashed, budget>>

(* JNI: send_passthrough_cmd or send_groupnavigation_cmd.  A call that  *)
(* fails CHECK_RC_CONNECTED, the RCTG test or get_transaction changes     *)
(* nothing and is not a step.                                             *)
SendPassthrough ==
    /\ ~crashed
    /\ budget.appCmds < MaxAppCmds
    /\ CanSend(S) /\ "RCTG" \in features
    /\ \E pdu \in PassPdus : Commit(SendPassthroughCmd(S, pdu))
    /\ budget' = [budget EXCEPT !.appCmds = @ + 1]
    /\ UNCHANGED jniTxn

(* The last session is closed and handled: the engine waits, idle, for a  *)
(* connection the bounds no longer allow.  Any other state without a step *)
(* is a deadlock.                                                         *)
Idle ==
    /\ ~link /\ budget.sessions = MaxSessions /\ btifq = <<>> /\ ~connected
    /\ UNCHANGED vars

Next ==
    \/ PeerAnswer
    \/ \E l \in Labels : CmdTimerExpires(l)
    \/ PlayTimerExpires
    \/ LinkUp
    \/ LinkDown
    \/ FeatureUpdate
    \/ BtifDispatch
    \/ ChangePlayerAppSetting
    \/ StartControlCommandTimer
    \/ SendPassthrough
    \/ Idle

Spec == Init /\ [][Next]_vars

(* The steps of BtifDispatch are exactly the steps that take the head of  *)
(* btifq (every other action appends), and it is enabled exactly when      *)
(* that is; so its weak fairness is stated on this characterisation, which *)
(* TLC evaluates without re-running the handlers.                          *)
BtifDequeue == btifq # <<>> /\ ~crashed /\ btifq' = Tail(btifq)

(* The BTIF worker thread drains its queue (btif_transfer_context), an     *)
(* armed alarm fires (alarm_set_on_queue), and the target answers a        *)
(* command it holds (the AVRCP target's obligation to respond; a CHANGED   *)
(* is not owed).  The link, the application thread and the feature        *)
(* reports are not fair.                                                   *)
Fairness ==
    /\ WF_btifq(BtifDequeue)
    /\ WF_vars(\E l \in Labels : CmdTimerExpires(l))
    /\ WF_vars(PlayTimerExpires)
    /\ WF_vars(PeerRespond)

FairSpec == Spec /\ Fairness

(* Every explored state leaves two identities for the requests one       *)
(* handler may send.                                                     *)
IdsAvailable == Cardinality(UsedIds(S)) + 2 <= Cardinality(ReqIds)

(* ----------------------------------------------------------------------- *)
(* Properties.                                                             *)
(* ----------------------------------------------------------------------- *)

AttrIds == UNION {ToSet(a) : a \in PeerAttrLists} \cup {0}

(* Types are stated per PDU: attribute ids are numbers, the rest strings. *)
ArgOK(pdu, x) ==
    CASE pdu = "REG_NOTIF"   -> x \in Kept
      [] pdu = "LIST_VALUES" -> x \in AttrIds
      [] pdu = "GET_CAPS"    -> x \in {"EVENTS", "COMPANY_ID"}
      [] OTHER               -> x = "none"

ReqOK(r) ==
    /\ DOMAIN r = {"id", "lbl", "pdu", "arg"}
    /\ r.id \in ReqIds /\ r.lbl \in Labels /\ r.pdu \in Pdus
    /\ ArgOK(r.pdu, r.arg)

ItemOK(it) ==
    CASE it.kind = "rsp"     -> /\ ReqOK(it.req)
                                /\ it.code \in {"ok", "rej", "interim", "changed"}
                                /\ it.data \in Payloads(it.req, it.code)
      [] it.kind = "timeout" -> it.lbl \in Labels /\ it.pdu \in Pdus /\ it.rid \in ReqIds
      [] it.kind \in {"open", "feat"} -> it.f \in PeerFeatureSets
      [] OTHER               -> it.kind \in {"playtimer", "close"}

EvRec == [id : Kept, lbl : Labels \cup JunkLabels,
          st : {"NOT_REGISTERED", "REGISTERED", "INTERIM"}]

TypeOK ==
    /\ {link, connected, featProcessed, procComplete, playTimer, crashed}
           \subseteq BOOLEAN
    /\ features \in PeerFeatureSets \cup {{}}
    /\ events = NoList \/ events \in Seq(EvRec)
    /\ app \in [started : BOOLEAN, std : Seq(AttrIds), ext : Seq(AttrIds),
                stdVals : Seq(AttrIds \cup {NoVals}),
                extVals : Seq(AttrIds \cup {NoVals}),
                attrIdx : Nat, extIdx : Nat, extValIdx : Nat]
    /\ lastPlay \in PlayStates \cup {"none"}
    /\ pool \in [Labels -> Slot([pdu : Pdus, req : ReqIds])]
    /\ \A p \in peer : ReqOK(p.req) /\ p.phase \in {"new", "interim"}
    /\ \A r \in live : ReqOK(r)
    /\ \A i \in DOMAIN btifq : ItemOK(btifq[i])
    /\ jniTxn \subseteq [lbl : Labels, rid : ReqIds] /\ Cardinality(jniTxn) <= 1

(* Transaction labels (get_transaction / release_transaction): every     *)
(* outstanding request holds an in-use label of its own, and every label  *)
(* in use belongs to an outstanding request -- no label is shared, lost   *)
(* or leaked by any interleaving of answers, alarms and link events.      *)
LabelsOwnedByLive ==
    /\ \A r \in live : InUse(pool, r.lbl)
    /\ \A r1, r2 \in live : r1.lbl = r2.lbl => r1 = r2
    /\ \A l \in Labels : InUse(pool, l) => \E r \in live : r.lbl = l

(* The notification registry (rc_supported_event_list) agrees with the   *)
(* wire where the code relies on it: rc_notification_interim_timout and    *)
(* iterate_supported_event_list_for_timeout find a timed-out registration  *)
(* as the first event carrying its label, so every outstanding             *)
(* RegisterNotification is found that way, on its own event, marked       *)
(* registered or interim; and no event is registered twice at once.  An   *)
(* event a rejection left eREGISTERED with a released label is allowed     *)
(* until that label is reused.                                             *)
FirstWithLabel(l) == SelectInSeq(events, LAMBDA e : e.lbl = l)

RegistryMatchesRequests ==
    events # NoList =>
      /\ \A r \in live :
           r.pdu = "REG_NOTIF" =>
             LET i == FirstWithLabel(r.lbl)
             IN i # 0 /\ events[i].id = r.arg /\ events[i].st # "NOT_REGISTERED"
      /\ \A r1, r2 \in live :
           (r1.pdu = "REG_NOTIF" /\ r2.pdu = "REG_NOTIF" /\ r1.arg = r2.arg)
             => r1 = r2

(* The player application settings walk (handle_app_attr_response,       *)
(* handle_app_val_response): the value list stored in a standard or       *)
(* extended attribute slot is the one the target returned for that       *)
(* slot's attribute.                                                      *)
AppValuesMatchAttrs ==
    /\ \A k \in DOMAIN app.stdVals : app.stdVals[k] \in {NoVals, app.std[k]}
    /\ \A k \in DOMAIN app.extVals : app.extVals[k] \in {NoVals, app.ext[k]}

(* A command timeout handler runs only for the request its alarm was     *)
(* armed for, while that request is still outstanding on that label: once *)
(* the label is released (response handled, link closed) its timeout      *)
(* never fires (btif_rc_status_cmd_timeout_handler, release_transaction). *)
TimeoutOnlyForLive ==
    [][ BtifDispatch /\ Head(btifq).kind = "timeout"
        => \E r \in live : r.id = Head(btifq).rid /\ r.lbl = Head(btifq).lbl
      ]_vars

(* The BTIF thread never dereferences a NULL rc_supported_event_list: a  *)
(* notification answer or an interim timeout is handled only while the   *)
(* list exists (rc_notification_interim_timout, list_foreach).           *)
NoNullEventList == ~crashed

(* A response whose label is not in use is discarded without effect      *)
(* (handle_avk_rc_metamsg_rsp): it neither runs a PDU handler nor         *)
(* releases a label.                                                      *)
UnknownLabelDiscarded ==
    [][ BtifDispatch /\ Head(btifq).kind = "rsp"
        /\ ~InUse(pool, Head(btifq).req.lbl)
        => UNCHANGED <<events, app, procComplete, playTimer, pool, peer, live>>
      ]_vars

(* The play status poll (rc_play_status_timer) runs only while the last  *)
(* play status the target reported is PLAYING.                           *)
PollOnlyWhilePlaying == playTimer => lastPlay = "playing"
(* The post-connect procedure (handle_rc_ctrl_features ... rc_ctrl_      *)
(* procedure_complete) is never left half-way: once the engine is          *)
(* connected, it eventually reaches rc_ctrl_procedure_complete unless the  *)
(* link goes down.  Every step must send the next command from the answer  *)
(* or the timeout of the previous one.                                     *)
ProcedureCompletes == connected ~> (procComplete \/ ~link)
(* The refinement mapping onto LabelLease: label l is leased to the      *)
(* outstanding request that carries it (identity 0: none).                *)
LeaseHolder ==
    [l \in Labels |-> IF \E r \in live : r.lbl = l
                      THEN (CHOOSE r \in live : r.lbl = l).id ELSE 0]

Lease == INSTANCE LabelLease WITH Requests <- ReqIds, NoOwner <- 0,
                                  holder <- LeaseHolder

(* get_transaction / release_transaction implement the lease: no answer,  *)
(* alarm, retry or disconnect hands a label from one request to another   *)
(* without giving it back, or gives one request two labels.               *)
LeaseRefined == Lease!Spec
=============================================================================
