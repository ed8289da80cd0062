------------------------------ MODULE TxnPool ------------------------------
(***************************************************************************)
(* The transaction-label pool of btif_rc.cc (rc_device_t device): a fixed  *)
(* array of MAX_TRANSACTIONS_PER_SESSION slots, slot l carrying label l,   *)
(* an in_use flag and a one-shot alarm (txn_timer) whose context records   *)
(* the PDU it guards.  Every operation is a pure function of the pool, so  *)
(* that a handler that acquires, arms and releases in sequence is modelled *)
(* as the composition of these functions in the order the C code calls    *)
(* them.  All of them run under device.lbllock, so each is atomic.         *)
(***************************************************************************)
EXTENDS Naturals, FiniteSetsExt

CONSTANTS
    NumLabels,      \* MAX_TRANSACTIONS_PER_SESSION (16 in the code)
    NoTimer         \* an alarm that is not scheduled

ASSUME NumLabels \in Nat \ {0}

Labels == 0 .. (NumLabels - 1)

\* A pool: per label, whether it is in use and the scheduled alarm's
\* context (or NoTimer).
Slot(Ctx) == [inUse : BOOLEAN, timer : Ctx \cup {NoTimer}]

\* initialize_transaction(lbl) on a fresh pool: lbl_init / init().
EmptyPool == [l \in Labels |-> [inUse |-> FALSE, timer |-> NoTimer]]

FreeLabels(pool) == {l \in Labels : ~pool[l].inUse}

\* get_transaction: scans slots 0.. and takes the first one not in use;
\* BT_STATUS_NOMEM when there is none (callers test HasFree first).
HasFree(pool)   == FreeLabels(pool) # {}
FirstFree(pool) == Min(FreeLabels(pool))
Acquire(pool, l) == [pool EXCEPT ![l].inUse = TRUE]

\* get_transaction_by_lbl: the slot only when it is in use.
InUse(pool, l) == l \in Labels /\ pool[l].inUse

\* clear_cmd_timeout(lbl): looks the label up and cancels its alarm; a
\* label that is not in use is left alone.
CancelTimer(pool, l) ==
    IF InUse(pool, l) THEN [pool EXCEPT ![l].timer = NoTimer] ELSE pool

\* start_status_command_timer / start_control_command_timer /
\* register_for_event_notification: alarm_free the old alarm, alarm_new,
\* alarm_set with the new context.
ArmTimer(pool, l, ctx) == [pool EXCEPT ![l].timer = ctx]

\* Mutation: the slot is freed but its alarm is left scheduled.
ReleaseKeepsTimer(pool, l) ==
    IF InUse(pool, l) THEN [pool EXCEPT ![l].inUse = FALSE] ELSE pool

\* release_transaction(lbl): only a label in use is reset, and
\* initialize_transaction cancels a scheduled alarm before clearing in_use.
Release(pool, l) ==
    IF InUse(pool, l)
    THEN [pool EXCEPT ![l] = [inUse |-> FALSE, timer |-> NoTimer]]
    ELSE pool

\* init_all_transactions (handle_rc_disconnect): initialize_transaction on
\* every slot.  A scheduled alarm is cancelled through clear_cmd_timeout,
\* which only finds slots still in use.
InitAll(pool) ==
    [l \in Labels |->
        [inUse |-> FALSE,
         timer |-> IF pool[l].inUse THEN NoTimer ELSE pool[l].timer]]
=============================================================================
