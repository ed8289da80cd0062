# TLA+ models of the AVRCP controller engine in `btif_rc.cc`

This directory models `src/btif/src/btif_rc.cc`, the Bluetooth interface layer for
AVRCP remote control. It concentrates on the controller (CT) role: the A2DP sink
that drives a remote target (a phone). The models are checked with TLC.

## The system

`btif_rc.cc` has two halves:

- **The target (TG) half.** Answers a remote controller. It handles passthrough
  keys through uinput, the metadata commands in `rc_pdu_info`, and absolute
  volume (`set_volume`, `rc_vol_label`).
- **The controller (CT) half.** After connecting, it runs a fixed procedure
  against the target:
  1. `GetCapabilities(COMPANY_ID)`, then `GetCapabilities(EVENTS)`.
  2. `RegisterNotification` for each kept event, one at a time. Each waits for
     an INTERIM answer or an interim timeout.
  3. The player-application-settings walk: list the attributes, the values of
     each standard and then each extended attribute, the texts, and the
     current values.
  4. `rc_ctrl_procedure_complete`, which sends `GetElementAttributes`.

  After that, CHANGED notifications re-register their event, and a PLAYING
  status starts a periodic `GetPlayStatus` poll.

Three threads act on `btif_rc_cb` and on the label pool `device.transaction[]`:

| Thread | What it does |
|---|---|
| BTU | Receives the target's answers and BTA's RC open/close/feature events, and runs the one-shot alarms. None of these touch the state directly: each is posted with `btif_transfer_context` to the BTIF queue. |
| BTIF | Runs one queued item at a time to completion (`btif_rc_handler`, the timeout handlers). |
| JNI | Calls `change_player_app_setting`, which takes a label and sends a command directly. |

Every command takes a transaction label from the pool (`get_transaction`) and
arms a per-label alarm. The answer is matched by its label
(`handle_avk_rc_metamsg_rsp`). The label is released after the answer, or after
the alarm's timeout handler has run.

## Modules

| Module | Models |
|---|---|
| `TxnPool.tla` | The label pool as a function from label to `[inUse, timer]`. Operators: `get_transaction` (`FirstFree`, `Acquire`), `get_transaction_by_lbl` (`InUse`), `clear_cmd_timeout` (`CancelTimer`), `start_*_command_timer` (`ArmTimer`), `release_transaction` / `initialize_transaction` (`Release`), `init_all_transactions` (`InitAll`). |
| `RcCtrl.tla` | The CT engine and its environment. |
| `LabelLease.tla` | The abstract specification of the label pool: which request each label is leased to. |
| `RcVolume.tla` | Absolute volume in the TG (source) role: `rc_vol_label`, `rc_volume`, `set_volume`, the volume part of `handle_rc_features`, `register_volumechange`, `handle_rc_metamsg_rsp`, and a remote that holds one VOLUME_CHANGED registration; composed with TG command handling on the same link and BTIF queue: `handle_rc_metamsg_cmd` for a command, `btif_rc_upstreams_evt`, `rc_notif[]`, `rc_pdu_info[]`, `send_metamsg_rsp`, `send_reject_response` and the application's `*_rsp` answers. |
| `MCRcCtrl.tla` | The small constant values (event lists, attribute lists, feature sets) that the cfgs use. |

### How `RcCtrl` is built

Each C handler is a pure operator from a session record to a session record,
named after the C function: `HandleRcConnect`, `HandleGetCapabilityResponse`,
`HandleNotificationResponse`, `HandleAppValResponse`, `CmdTimeoutHandler`, and
so on. A handler that calls another function applies that function's operator,
in the order the code calls it. `Commit` writes the final record into the
variables. So one BTIF step (`BtifDispatch`) is one whole handler, including the
`release_transaction` it ends with. All command builders share `SendCmd`:
`CHECK_RC_CONNECTED`, `get_transaction`, the send, then the alarm.
`change_player_app_setting` runs on the JNI thread, and only its
`get_transaction` holds `lbllock`. So it is two steps. `ChangePlayerAppSetting`
takes the label and sends; `StartControlCommandTimer` arms the control alarm on
that slot later, whatever BTIF has done with the slot in between. The variable
`jniTxn` holds the slot between the two steps.
The passthrough keys are the exception: `send_passthrough_cmd` and
`send_groupnavigation_cmd` (`SendPassthroughCmd`) also test the peer's RCTG
feature, take a label from the same pool and arm no alarm. Their answer
(BTA_AV_REMOTE_RSP, `HandleRcPassthroughRsp`) releases the label only if the
peer has RCTG, without checking that the label is in use.

The environment's actions:

| Action | What happens |
|---|---|
| `PeerAnswer` | The target answers a request it holds. |
| `CmdTimerExpires` | A label's alarm fires and posts its context. |
| `PlayTimerExpires` | The play-status alarm fires and posts a poll. |
| `LinkUp` | BTA posts RC_OPEN. |
| `LinkDown` | BTA posts RC_CLOSE, and the target forgets every request. |
| `FeatureUpdate` | BTA posts RC_FEAT. |
| `ChangePlayerAppSetting` | The JNI call up to `BTA_AvVendorCmd`. |
| `StartControlCommandTimer` | Its last statement, `start_control_command_timer` (line 3561). |
| `SendPassthrough` | The JNI passthrough or group navigation key. |
| `Idle` | The stop the bounds allow: the last session is closed and its close handled. |

The model has four ghost variables, used only by the properties:

- `live`: the requests sent and not yet settled, each with a fresh id from
  `ReqIds`, so that two requests reusing one label can be told apart. A request
  is settled (`Settled`) after its handler has run, so the commands that handler
  sends get ids that differ from the one just answered;
- `lastPlay`: the last play status reported;
- `crashed`: a walk of a NULL event list;
- `budget`: counters that bound the environment.

Three constants choose the scheduling:

- `TimerRace`: an alarm may fire while other work is queued on BTIF.
- `PeerLate`: the target may answer a request after its timeout was posted.
- `JniRace`: BTIF may run between the two steps of `change_player_app_setting`.

The passing runs set all three to FALSE. This is the well-behaved schedule the code
implicitly assumes. The violation runs set `TimerRace` or `PeerLate` to TRUE to show what happens
when that assumption fails. Every run sets `JniRace` to FALSE, because no run slot
is left for it. With `JniRace = TRUE`, `app_thread.cfg` breaks `LabelsOwnedByLive`
in 11 states:

1. the SET_VAL answer is handled and its label released;
2. GetCapabilities(EVENTS) takes the label;
3. the JNI thread arms its control alarm on the slot, replacing
   GetCapabilities' alarm;
4. the alarm fires, and `btif_rc_control_cmd_timeout_handler` releases the
   label GetCapabilities still holds.

The hazard at line 3561 records this.

## Properties

| Property | Kind | What it says |
|---|---|---|
| `TypeOK` | type | Every variable has its type. |
| `LabelsOwnedByLive` | safety | Every outstanding request holds an in-use label of its own, and every in-use label belongs to one. |
| `RegistryMatchesRequests` | safety | Every outstanding RegisterNotification is the first event of the list carrying its label (the search `iterate_supported_event_list_for_timeout` does, line 2024), on its own event, marked registered or interim; and no event is registered twice at once. |
| `AppValuesMatchAttrs` | safety | The value list stored in an attribute slot belongs to that slot's attribute. |
| `TimeoutOnlyForLive` | action | A timeout handled on BTIF belongs to a request still outstanding on that label. |
| `NoNullEventList` | safety | No handler walks the event list after `handle_rc_disconnect` freed it. |
| `UnknownLabelDiscarded` | action | An answer on a label not in use changes nothing. |
| `PollOnlyWhilePlaying` | safety | The play-status poll timer is armed only while the last reported status is playing. |
| `LeaseRefined` | refinement | The label bookkeeping implements `LabelLease`: a label passes from one request to another only by being released first, and no request holds two labels. |
| `ProcedureCompletes` | liveness | A connected session eventually completes the controller procedure, or loses its link. |
| `RcVolume!TypeOK` | type | Every variable of the volume model has its type; `rc_volume` is `MAX_VOLUME` or a volume the remote reported. |
| `LabelsAccounted` | safety | (`RcVolume`) Every label in use carries exactly one volume command of the session that is not finally answered, and no other label is in use. |
| `NotificationsAnswerRegistrations` | safety | (`RcVolume`) Every notification the remote receives (INTERIM, CHANGED or the rejection of a registration) answers a registration of that event it still holds on that link. |
| `VolumeSubscribes` | liveness | (`RcVolume`) A connected absolute-volume target on the current link eventually holds the VOLUME_CHANGED registration, unless the link goes down. |

## Runs

| Run | Expect | Shows |
|---|---|---|
| `core_safety` | pass (about 923k states, 1.5 min) | One session, with answers and rejections (a RegisterNotification may be rejected too), one timeout, one CHANGED re-registration and one poll, keeps the four invariants, `TimeoutOnlyForLive` and `LeaseRefined`. |
| `app_thread` | pass (about 865k states, 1.5 min) | The same properties hold with one JNI call (`SetPlayerAppValue`, a passthrough key or a group navigation key) and an RC_FEAT update, with `JniRace = FALSE`. With `JniRace = TRUE` they do not (see above). A passthrough answer that kept its label would break `LabelsOwnedByLive` here. |
| `timer_race` | violation | An alarm fires while the answer to its request is still queued on BTIF. `alarm_cancel` cannot take back the posted timeout, so the timeout handler runs for a settled request and releases its label (line 2133). |
| `stale_timeout_crash` | violation | A RegisterNotification timeout queued before RC_CLOSE runs `list_foreach` on the NULL event list (line 2046). |
| `late_answer` | violation | `handle_avk_rc_metamsg_rsp` never checks the label. A late GET_CAPS answer re-runs the handler, sends GET_CAPS(EVENTS), and frees the label that request just took. |
| `ext_only_attrs` | violation | With only extended attributes, `attrs[0].attr_id` (0) is queried, and its values are stored against the first extended attribute (line 2676). |
| `interim_paused` | violation | INTERIM(stopped) after CHANGED(playing) leaves the poll timer running. Only the CHANGED branch stops it. |
| `procedure_completes` | pass (about 83k states) | With OK answers and no timeouts, over two sessions, `ProcedureCompletes` holds under the fairness below; the second procedure runs because `handle_rc_disconnect` reset the procedure flags. |
| `procedure_stalls` | violation | With rejects (of RegisterNotification too) and one timeout allowed, the procedure never completes. TLC's trace is a rejected GetCapabilities, which `handle_get_capability_response` returns on (line 2359). A rejected RegisterNotification (line 2545), timeouts (the "Todo: retry"), errors of the value queries (2705, 2790) and the last event's interim timeout (the TODO at 2064) stall it the same way. |
| `vol_safety` | pass (about 416k states, 2 min) | `RcVolume`: over two sessions, a feature report, one `set_volume` call, one volume move on the remote and two commands from the remote with one answer of the application, `TypeOK`, `LabelsAccounted` and `NotificationsAnswerRegistrations` hold, and `VolumeSubscribes` holds under fairness. |
| `vol_label_leak` | violation | `RcVolume`: a registration answer that fails to parse sets `rc_vol_label = MAX_LABEL` and then calls `release_transaction(rc_vol_label)`, a label with no slot (lines 1933-1934). The real label stays in use with no command on it. |
| `stale_event_label` | violation | With 3 labels, a failed re-registration leaves a stale label in an event. A later interim timeout on the reused label removes the wrong event (line 2024). |

Each property of the passing runs has a mutant in `PROJECT.json`: a plausible bug
in the code it is about, which TLC shows the property catches. For example,
`ReleaseKeepsTimer` is a release that leaves the alarm armed, and
`InterimTimeoutKeepsEvent` is a timeout handler that does not remove its event.

## Bounds and why they are enough

- **Labels.** The passing runs use 7 labels, as many as request ids. The pool can
  never run dry, so the properties are about ordering, not exhaustion. Pool
  exhaustion is the subject of `stale_event_label`, with 3 labels.
- **Queue.** `MaxQueue = 3` lets an answer, a timeout and a close be queued
  together, which is the interleaving the timer and close races need.
- **One session.** One session with one CHANGED notification, one timeout and one
  poll reaches every handler:
  - every `RegisterNotification` path (interim, reject, timeout, changed);
  - the whole settings walk (one standard and one extended attribute);
  - procedure completion.

  `procedure_completes` runs two sessions: liveness over the second one
  depends on `handle_rc_disconnect` resetting the procedure flags, and it
  costs 83k states. Two sessions in `core_safety` take over two minutes, too
  close to the time limit for the mutant runs.
- **Answer codes.** `core_safety`, `app_thread` and `procedure_stalls` let
  the target reject a RegisterNotification (`NotifCodes`). The code handles
  neither branch for it (2451, 2545). It releases the label at 3208 and
  leaves the event eREGISTERED with no request, and the procedure stalls.
  `RegistryMatchesRequests` allows such an event until its label is reused.
  `procedure_completes` answers everything with success (`NotifCodes =
  {"interim"}`), since one rejection is enough to stall the procedure
  (`procedure_stalls`).
- **Split runs.** App commands and CHANGED notifications are in separate runs.
  Together they multiply the state space past the time limit, and they do not
  interact except through the pool, which both runs exercise.
- **Volume.** `RcVolume` uses 3 labels, two volumes and two sessions. The
  volumes let `set_volume` and a move on the remote each change the value. Two
  sessions with a feature report reach the "already in progress" test of
  `handle_rc_features`, and a reconnect with the old close still queued.
  `vol_safety` has one `set_volume` call and one volume move: with the TG
  command path composed in, a second call multiplies the state space tenfold
  (to about 4M states) and a second move doubles it, past the time limit.
  The one call still races the registration for a label; the second move
  only repeated the re-registration the first one already exercises.
- **TG commands.** The remote sends two commands, on one label
  (`PeerLabels = {0}`), from GetPlayStatus and registrations for PLAY_POS
  and UIDS_CHANGED, with PLAY_POS interval 0 among the arguments; the
  application answers one notification (`MaxAppRsps` bounds only
  `register_notification_rsp`; the answers to queued PDUs are not counted,
  since fairness makes them happen). That reaches a registration before and after a
  reconnect, the rejected PLAY_POS, the immediate UIDS answer, and a CHANGED
  or INTERIM from the application. The application-setting, InformDisplayCharset
  and GetElementAttributes branches have no effect on `rc_notif[]` and are
  left to `TgPdus` of a larger run.
- **Passthrough.** `app_thread` allows one JNI call, which may be any of the
  three. A passthrough key shares the pool with the procedure's commands. So
  one call reaches a passthrough label held while the procedure runs, and
  answered, timed out or closed in any order with it. All feature sets in
  `MCRcCtrl` include RCTG, because a peer without RCTG gets no CT procedure.
  So the answer's "no RCTG, label kept" branch is not reached. The hazard list
  records this.
- **Ids.** `IdsAvailable` keeps two request ids free, so that one handler can
  always send the one or two commands it sends.

## Absolute volume (`RcVolume`)

In the source role, BTIF hands the remote's answers to `handle_rc_metamsg_cmd`.
For an answer on a label in use, that calls `handle_rc_metamsg_rsp`. The module
keeps the session as a record, as `RcCtrl` does, and uses `TxnPool` for the
labels, with no alarm: neither the registration nor SetAbsoluteVolume arms one.

- **`set_volume`** runs on the JNI thread in two steps:
  - `SetVolumeCall` makes the checks (`CHECK_RC_CONNECTED`, the
    `BT_STATUS_DONE` shortcut on `rc_volume`, and the feature test);
  - `SetVolumeIssue` calls `get_transaction` and `BTA_AvMetaCmd`.

  A call that returns at a check changes nothing, so it is not a step.
  `JniRace = FALSE`, the schedule the code assumes, keeps BTIF from running
  between the two steps. With `JniRace = TRUE`, BTIF can handle RC_CLOSE in
  between, and `LabelsAccounted` fails. That case is a hazard in
  `PROJECT.json`, not a run.
- **The remote** holds the commands it was sent (`pending`) and the
  registration it answered INTERIM on (`peerReg`). When its volume moves
  (`PeerVolumeChange`), it completes that registration with CHANGED.
  `ParseErrPdus` chooses the answers that `AVRC_ParsResponse`, which is
  outside this source, may fail on.
- **The ghost `out`** holds the commands of the current session that are not
  finally answered.

Properties of the volume model:

- **`LabelsAccounted`:** the labels in use are exactly those of `out`, one
  command each.
- **`VolumeSubscribes`:** a connected absolute-volume target on the current
  link ends up with the remote holding the registration. It is checked under
  weak fairness of BTIF, of the remote's answers, and of a `set_volume` in
  progress. A rejected registration is dropped for the connection by design,
  so `vol_safety` lets the remote only accept it. A parsed reject keeps its
  label, which `LabelsAccounted` would report.

## TG command handling (in `RcVolume`)

A command from the remote arrives at BTIF as `BTA_AV_META_MSG_EVT` and goes to
`handle_rc_metamsg_cmd` (`HandleTgCmd`):

- a command `AVRC_ParsCommand` fails on is rejected on its label;
- a RegisterNotification is first recorded in `rc_notif[event_id - 1]`
  (`bNotify`, `label`); UIDS_CHANGED is answered INTERIM and CHANGED at once
  (`HandleUidChangedNotification`);
- everything else goes to `btif_rc_upstreams_evt` (`BtifRcUpstreamsEvt`).
  GetPlayStatus and GetElementAttributes wait in `rc_pdu_info[]`
  (`FILL_PDU_QUEUE`). A registration goes to the application, except PLAY_POS
  with interval 0, which is rejected and de-registered.

The application answers on the JNI thread, each answer as one step:

- `AppPduRsp`: `get_play_status_rsp` and `get_element_attr_rsp`, through
  `SEND_METAMSG_RSP`, on the label kept in `rc_pdu_info[]`;
- `AppNotifRsp`: `register_notification_rsp`, INTERIM or CHANGED, on the label
  kept in `rc_notif[]`. A CHANGED de-registers the event (`SendChanged`).

`MetaRsp` is `BTA_AvMetaRsp`: an answer reaches the remote only on the current
link. There it settles the command it answers (`tgOut`), and an answer to no
command the remote holds goes to the ghost `stray`.

`NotificationsAnswerRegistrations` says that no notification is stray. It
depends on `handle_rc_disconnect` clearing `rc_notif[]` (the mutant
`HandleRcDisconnectKeepNotif` keeps it, and a CHANGED after a reconnect goes to
the new remote on the old label). It is stated for notifications only, because
the model reaches a stray GetPlayStatus answer: `handle_rc_disconnect` does not
clear `rc_pdu_info[]`. A GetPlayStatus handled just before a close is still
pending after the next open, and `get_play_status_rsp` answers the new remote
on the old label (trace: open, command, close, open, get_play_status_rsp).
This is listed as a hazard; no violation run states it yet.

`FILL_PDU_QUEUE` keeps one label per PDU kind in `rc_pdu_info[]`. A second
GetPlayStatus on another label, sent before the first is answered, overwrites
the slot, and the first command is never answered. `vol_safety` gives the remote
one label (`PeerLabels = {0}`), so this cannot happen there. A scratch
configuration with two labels and fairness of the application's answer violates
"a queued GetPlayStatus is eventually answered". Two labels put `vol_safety`
past the time limit, so the hazard at line 1368 records the overwrite without a
run.

## Refinement

`LabelLease.tla` says what the pool promises, with one variable: `holder[l]`,
the request label `l` is leased to, or none. In one step a label keeps its holder,
is given back, or, if it was free, is leased to a request that held no label.
No request holds two labels. `RcCtrl` instantiates it with `LeaseHolder`, the
request of `live` that carries each label, and `LeaseRefined` checks
`Lease!Spec` as a property. The mutant `CmdTimeoutHandlerReleaseFirst`
releases the label before the timeout's handler runs. This lets the command
that handler sends take the same label in the same step, which the abstract
specification forbids.

## Fairness

The liveness runs of `RcCtrl` (`procedure_completes` and `procedure_stalls`) use `FairSpec`,
which adds weak fairness of:

- **BTIF dispatch**, stated as `WF_btifq(BtifDequeue)`. The BTIF thread loops
  over its queue, so a posted context is eventually run. `BtifDequeue` is
  enabled exactly when `BtifDispatch` is. Only `BtifDispatch` takes the queue's
  head, and every other action only appends. So fairness of the dequeue is
  fairness of the dispatch, and it is far cheaper for TLC to evaluate.
- **Each command alarm and the play-status alarm.** An armed one-shot alarm
  fires.
- **The target's first answer** (`PeerRespond`, phase `new` only). A target
  answers each command once, INTERIM included. A CHANGED notification is the
  target's choice, so it is not assumed. Assuming it would hide the stall at
  line 2064, because a CHANGED re-registers the event.

Under this fairness the procedure completes when every answer is OK. It stalls
as soon as one answer is a timeout or a reject.

## Not modelled

- **TG passthrough commands and uinput** (`handle_rc_passthrough_cmd`,
  `btif_rc_check_handle_pending_play`, `send_key`, `init_uinput`,
  `close_uinput`). This code has protocol state: `rc_pending_play`, and the
  keys held down in the uinput device. A model of it was built on top of
  `RcCtrl`. Even with two keys and one AV stream change, it multiplied the
  states of the smallest run more than 25 times, past the time limit. It
  needs a model of its own, and no run is left for one. Its hazards, from
  reading the code, are in the hazard list:
  - a STOP release is dropped (line 733) once the STOP press has suspended
    the stream, so KEY_STOPCD stays held;
  - `rc_pending_play` survives `handle_rc_disconnect`, so a PLAY queued in
    one session is replayed in the next one;
  - a FAST_FOR or REWIND press goes to the application, and a link loss
    before the release leaves it held;
  - a second RC_OPEN leaks the uinput descriptor.
- **The rest of the TG half.** The continuation PDUs and the contents of the answers (play status,
  attribute texts); `AVRC_BldResponse` failure, which the model takes to
  succeed.
- **The INTERIM volume.** `rc_volume` ignores the volume an INTERIM reports, and
  so does the spec. No property relates `rc_volume` to the remote's volume.
- **CT absolute volume (sink role).** `handle_avk_rc_metamsg_cmd`,
  `btif_rc_ctrl_upstreams_rsp_cmd`, `set_volume_rsp` and
  `volume_change_notification_rsp` pass the remote's label to the application
  and answer with the label it returns. btif keeps no state between the two,
  so there is nothing to check.
- **PDU encoding and BTA transport.** A PDU is its kind and argument.
- **Text payloads.** Attribute and value texts are not modelled.
- **Builder failure.** The model assumes `AVRC_BldCommand` succeeds.
- **Handle reuse on a fast reconnect.** BTA is not in this source, so the model
  delivers a command only while its link is current.

## Plan for later work

0. A model of its own for the TG passthrough and uinput keys (see "Not
   modelled"), with a property that no key stays held after its release.

1. Runs with `JniRace = TRUE`, for `RcCtrl` (hazard at 3561) and
   `RcVolume`, and one with a rejected volume registration, if the run budget
   allows. Each breaks label ownership today.
2. A reconnect run: open and close twice. It covers `procComplete` not being
   reset by `handle_rc_connect`, and the failure of `AVRC_BldCommand` as an
   input.
3. A violation run for the stale `rc_pdu_info[]` answer after a reconnect,
   stated as a property of GetPlayStatus answers.
