---------------------------- MODULE SessionStore ----------------------------
(***************************************************************************)
(* The SQLite session store under the aggregate                            *)
(* (crates/autoharness-store-sqlite/src/sqlite_store.rs, context_store.rs). *)
(*                                                                         *)
(* An accepted command is appended in one transaction: the version check,  *)
(* the event rows, and for each event an update of the projection tables   *)
(* that repeats the legality checks against the rows themselves. A third   *)
(* function therefore judges what decide and apply_one have already        *)
(* judged, from a coarser state: an attempt row knows no AwaitingTools and *)
(* no CancellationRequested, and tool calls have no rows at all. A refused *)
(* append rolls back and leaves both sides as they were, so each action    *)
(* below is an action of Session together with what the store does to its  *)
(* rows, enabled only if the store accepts.                                *)
(*                                                                         *)
(* Deletion is the store's own operation. It erases the rows and leaves    *)
(* the engine's aggregate in memory, where later commands still find it.   *)
(***************************************************************************)
EXTENDS Session

VARIABLES
    sessionRow,  \* sessions: status, model, last_sequence (0 without a row)
    inputRow,    \* admitted_inputs.state
    attemptRow,  \* provider_attempts
    cancelAsked, \* rows whose cancellation_requested_at_ms is not null
    message,     \* state of the attempt's row of transcript_messages
    bindingRow,  \* context_turn_bindings, with the sequence of bound_event_id
    \* AttemptBindingState, which load_attempt_binding_state folds from
    \* session_events whenever it is needed
    foldTurns,   \* turns_started
    foldReady,   \* dispatch_ready
    foldPending, \* pending_binding
    foldLimit    \* max_turns

foldVars == <<foldTurns, foldReady, foldPending, foldLimit>>
projectionVars ==
    <<inputRow, attemptRow, cancelAsked, message, bindingRow, foldVars>>
rowVars == <<sessionRow, projectionVars>>
storeVars == <<vars, rowVars>>

SettledRow == {"completed", "failed", "cancelled", "unknown"}
UnsettledRow == {"prepared", "in_flight"}

SessionRows ==
    [ status  : {"absent", "active", "archived"},
      model   : Models \cup {None},
      version : 0 .. MaxSequence ]
AttemptRows ==
    [ state    : {"absent"} \cup UnsettledRow \cup SettledRow,
      retryOf  : Attempts \cup {None},
      prepared : 0 .. MaxSequence ]  \* prepared_sequence

NoSession == [status |-> "absent", model |-> None, version |-> 0]
NoAttempt == [state |-> "absent", retryOf |-> None, prepared |-> 0]

\* A session the tables know nothing of.
StoreInit ==
    /\ Init
    /\ sessionRow = NoSession
    /\ inputRow = [i \in Inputs |-> "absent"]
    /\ attemptRow = [a \in Attempts |-> NoAttempt]
    /\ cancelAsked = {}
    /\ message = [a \in Attempts |-> "absent"]
    /\ bindingRow = [t \in ContextTurns |-> Unbound]
    /\ foldTurns = [a \in Attempts |-> 0]
    /\ foldReady = {}
    /\ foldPending = {}
    /\ foldLimit = [a \in Attempts |-> None]

Present == sessionRow # NoSession
\* Erased, while the engine keeps the aggregate.
Deleted == created /\ ~Present

-----------------------------------------------------------------------------
(* The checks apply_projection makes on each event.                        *)

AcceptInput(i) == inputRow[i] = "absent"
AcceptPrepare(a, i, prior, inputKnown) ==
    /\ attemptRow[a].state = "absent"
    /\ prior # None => attemptRow[prior].state \in SettledRow
    /\ inputKnown
AcceptStart(a) == attemptRow[a].state = "prepared"
AcceptUsage(a) == attemptRow[a].state = "in_flight"
AcceptText(a) ==
    attemptRow[a].state = "in_flight" /\ message[a] \in {"absent", "streaming"}
AcceptCancellation(a) ==
    attemptRow[a].state = "in_flight" /\ a \notin cancelAsked
\* Mutant: only a started attempt may be settled.
SettleStartedOnly(a, to) == attemptRow[a].state = "in_flight"
\* settle_attempt: only a failure may settle an attempt that never started.
AcceptSettle(a, to) ==
    \/ attemptRow[a].state = "in_flight"
    \/ to = "failed" /\ attemptRow[a].state = "prepared"
\* reconcile_unbound_turn_conflict, validate_binding_boundary and the keys of
\* context_turn_bindings.
AcceptBind(a, t, turn) ==
    /\ bindingRow[t] = Unbound
    /\ \A u \in ContextTurns :
          bindingRow[u].attempt = a => bindingRow[u].runTurn # turn
    /\ attemptRow[a].state = "in_flight"
    /\ a \in foldReady
    /\ a \notin foldPending
    /\ turn = foldTurns[a] + 1
    /\ foldLimit[a] # None => turn <= foldLimit[a]
\* validate_run_turn_binding: the event just before this one bound the turn.
AcceptRunTurn(a, turn) ==
    \E t \in ContextTurns :
        /\ bindingRow[t].attempt = a
        /\ bindingRow[t].runTurn = turn
        /\ bindingRow[t].sequence = lastSequence

-----------------------------------------------------------------------------
(* append: the version check, then the rows of each event.                 *)

\* VersionConflict unless the row is at the version the engine decided on;
\* with no row the version is 0 and only SessionCreated may come first.
SaveSession(row) ==
    /\ Present
    /\ sessionRow.version = lastSequence
    /\ sessionRow' = [row EXCEPT !.version = lastSequence']

NoRowButSession == UNCHANGED projectionVars

StoreCreateSession ==
    /\ CreateSession
    /\ sessionRow.version = lastSequence
    /\ sessionRow' = [NoSession EXCEPT !.status = "active",
                                       !.version = lastSequence']
    /\ NoRowButSession

StoreRenameSession ==
    /\ RenameSession
    /\ SaveSession(sessionRow)
    /\ NoRowButSession

StoreArchiveSession ==
    /\ ArchiveSession
    /\ SaveSession([sessionRow EXCEPT !.status = "archived"])
    /\ NoRowButSession

StoreUnarchiveSession ==
    /\ UnarchiveSession
    /\ SaveSession([sessionRow EXCEPT !.status = "active"])
    /\ NoRowButSession

StoreSelectModel(m) ==
    /\ SelectModel(m)
    /\ SaveSession([sessionRow EXCEPT !.model = m])
    /\ NoRowButSession

StoreAdmitPrompt(i) ==
    /\ AdmitPrompt(i)
    /\ SaveSession(sessionRow)
    /\ AcceptInput(i)
    /\ inputRow' = [inputRow EXCEPT ![i] = "admitted"]
    /\ UNCHANGED <<attemptRow, cancelAsked, message, bindingRow, foldVars>>

\* AttemptPrepared marks its input promoted, on a retry as well.
InsertAttempt(a, i, prior) ==
    /\ inputRow' = [inputRow EXCEPT ![i] = "promoted"]
    /\ attemptRow' = [attemptRow EXCEPT ![a] =
          [state |-> "prepared", retryOf |-> prior, prepared |-> lastSequence']]
    /\ UNCHANGED <<cancelAsked, message, bindingRow, foldVars>>

StoreAdmitPromptAndPrepareAttempt(i, a) ==
    /\ AdmitPromptAndPrepareAttempt(i, a)
    /\ SaveSession(sessionRow)
    /\ AcceptInput(i)
    /\ AcceptPrepare(a, i, None, TRUE)
    /\ InsertAttempt(a, i, None)

StorePrepareAttempt(a, i, prior) ==
    /\ PrepareAttempt(a, i, prior)
    /\ SaveSession(sessionRow)
    /\ AcceptPrepare(a, i, prior, inputRow[i] # "absent")
    /\ InsertAttempt(a, i, prior)

StoreStartAttempt(a) ==
    /\ StartAttempt(a)
    /\ SaveSession(sessionRow)
    /\ AcceptStart(a)
    /\ attemptRow' = [attemptRow EXCEPT ![a].state = "in_flight"]
    /\ foldReady' = foldReady \cup {a}
    /\ UNCHANGED <<inputRow, cancelAsked, message, bindingRow, foldTurns,
                   foldPending, foldLimit>>

\* The first text inserts the message, later text extends it.
StoreAppendAttemptText(a) ==
    /\ RecordOutput(a)
    /\ SaveSession(sessionRow)
    /\ AcceptText(a)
    /\ message' = [message EXCEPT ![a] = "streaming"]
    /\ UNCHANGED <<inputRow, attemptRow, cancelAsked, bindingRow, foldVars>>

StoreRecordAttemptUsage(a) ==
    /\ RecordOutput(a)
    /\ SaveSession(sessionRow)
    /\ AcceptUsage(a)
    /\ NoRowButSession

StoreRequestAttemptCancellation(a) ==
    /\ RequestAttemptCancellation(a)
    /\ SaveSession(sessionRow)
    /\ AcceptCancellation(a)
    /\ cancelAsked' = cancelAsked \cup {a}
    /\ UNCHANGED <<inputRow, attemptRow, message, bindingRow, foldVars>>

\* A settled attempt's message takes the state of its row.
MessageState(state) == IF state = "completed" THEN "complete" ELSE state

\* Mutant: settling leaves the transcript message streaming.
SettleRowOnly(a, to) ==
    /\ AcceptSettle(a, to)
    /\ attemptRow' = [attemptRow EXCEPT ![a].state = to]
    /\ UNCHANGED <<inputRow, cancelAsked, message, bindingRow, foldVars>>

\* settle_attempt: the row, and the message if the attempt wrote one.
SettleRow(a, to) ==
    /\ AcceptSettle(a, to)
    /\ attemptRow' = [attemptRow EXCEPT ![a].state = to]
    /\ message' = [message EXCEPT ![a] =
                     IF @ = "absent" THEN "absent" ELSE MessageState(to)]
    /\ UNCHANGED <<inputRow, cancelAsked, bindingRow, foldVars>>

StoreCompleteAttempt(a) ==
    CompleteAttempt(a) /\ SaveSession(sessionRow) /\ SettleRow(a, "completed")
StoreFailAttempt(a, advised) ==
    FailAttempt(a, advised) /\ SaveSession(sessionRow) /\ SettleRow(a, "failed")
StoreCancelAttempt(a) ==
    CancelAttempt(a) /\ SaveSession(sessionRow) /\ SettleRow(a, "cancelled")
StoreMarkAttemptUnknown(a) ==
    MarkAttemptUnknown(a) /\ SaveSession(sessionRow) /\ SettleRow(a, "unknown")

\* Events without rows of their own still count in the fold over the log.
FoldOnly ==
    UNCHANGED <<inputRow, attemptRow, cancelAsked, message, bindingRow>>

StoreConfigureRunBudget(a, limit) ==
    /\ ConfigureRunBudget(a, limit)
    /\ SaveSession(sessionRow)
    /\ foldLimit' = [foldLimit EXCEPT ![a] = limit]
    /\ FoldOnly
    /\ UNCHANGED <<foldTurns, foldReady, foldPending>>

\* commit_context_turn_and_bind: one transaction for the turn, its binding
\* row and the event.
StoreBindContextTurn(a, t, turn) ==
    /\ BindContextTurn(a, t, turn)
    /\ SaveSession(sessionRow)
    /\ AcceptBind(a, t, turn)
    /\ bindingRow' = [bindingRow EXCEPT ![t] =
          [attempt |-> a, runTurn |-> turn, sequence |-> lastSequence']]
    /\ foldPending' = foldPending \cup {a}
    /\ UNCHANGED <<inputRow, attemptRow, cancelAsked, message, foldTurns,
                   foldReady, foldLimit>>

StoreStartRunTurn(a) ==
    /\ StartRunTurn(a)
    /\ SaveSession(sessionRow)
    /\ AcceptRunTurn(a, NextTurn(a))
    /\ foldTurns' = [foldTurns EXCEPT ![a] = NextTurn(a)]
    /\ foldReady' = foldReady \ {a}
    /\ foldPending' = foldPending \ {a}
    /\ FoldOnly
    /\ UNCHANGED foldLimit

StorePauseAttemptForTools(a) ==
    /\ PauseAttemptForTools(a)
    /\ SaveSession(sessionRow)
    /\ foldReady' = foldReady \ {a}
    /\ FoldOnly
    /\ UNCHANGED <<foldTurns, foldPending, foldLimit>>

StoreResumeAttemptAfterTools(a) ==
    /\ ResumeAttemptAfterTools(a)
    /\ SaveSession(sessionRow)
    /\ foldReady' = foldReady \cup {a}
    /\ FoldOnly
    /\ UNCHANGED <<foldTurns, foldPending, foldLimit>>

\* Tool events are stored and project nothing.
StoreToolStep(c) ==
    ToolStep(c) /\ SaveSession(sessionRow) /\ NoRowButSession

-----------------------------------------------------------------------------
(* delete_session.                                                         *)

\* Mutant: only attempts in flight hold a deletion back.
NothingInFlight == \A a \in Attempts : attemptRow[a].state # "in_flight"
NothingUnsettled == \A a \in Attempts : attemptRow[a].state \notin UnsettledRow

\* DELETE FROM provider_attempts visits the rows in order of
\* prepared_sequence, and retry_of_attempt_id is ON DELETE RESTRICT, checked
\* row by row: a row that a later row still refers to cannot go.
AttemptRowsDeletable ==
    ~ \E a, b \in Attempts :
        /\ attemptRow[b].retryOf = a
        /\ attemptRow[a].prepared < attemptRow[b].prepared

\* One transaction, under the version the caller saw; the engine's aggregate
\* is not touched.
DeleteSession(expected) ==
    /\ Present
    /\ expected = sessionRow.version
    /\ NothingUnsettled
    /\ AttemptRowsDeletable
    /\ sessionRow' = NoSession
    /\ inputRow' = [i \in Inputs |-> "absent"]
    /\ attemptRow' = [a \in Attempts |-> NoAttempt]
    /\ cancelAsked' = {}
    /\ message' = [a \in Attempts |-> "absent"]
    /\ bindingRow' = [t \in ContextTurns |-> Unbound]
    /\ foldTurns' = [a \in Attempts |-> 0]
    /\ foldReady' = {}
    /\ foldPending' = {}
    /\ foldLimit' = [a \in Attempts |-> None]
    /\ UNCHANGED vars

-----------------------------------------------------------------------------

StoreLifecycleStep ==
    \/ StoreCreateSession
    \/ StoreRenameSession
    \/ StoreArchiveSession
    \/ StoreUnarchiveSession
    \/ \E m \in Models : StoreSelectModel(m)
    \/ \E i \in Inputs : StoreAdmitPrompt(i)
    \/ \E i \in Inputs, a \in Attempts : StoreAdmitPromptAndPrepareAttempt(i, a)
    \/ \E a \in Attempts, i \in Inputs, prior \in Attempts \cup {None} :
          StorePrepareAttempt(a, i, prior)

StoreAttemptStep(a) ==
    \/ StoreStartAttempt(a)
    \/ StoreAppendAttemptText(a)
    \/ StoreRecordAttemptUsage(a)
    \/ StoreRequestAttemptCancellation(a)
    \/ StoreCompleteAttempt(a)
    \/ \E advised \in BOOLEAN : StoreFailAttempt(a, advised)
    \/ StoreCancelAttempt(a)
    \/ StoreMarkAttemptUnknown(a)
    \/ \E limit \in TurnLimits : StoreConfigureRunBudget(a, limit)
    \/ \E t \in ContextTurns, turn \in 1 .. NextTurn(a) :
          StoreBindContextTurn(a, t, turn)
    \/ StoreStartRunTurn(a)
    \/ StorePauseAttemptForTools(a)
    \/ StoreResumeAttemptAfterTools(a)

StoreNext ==
    \/ StoreLifecycleStep
    \/ \E a \in Attempts : StoreAttemptStep(a)
    \/ \E c \in Calls : StoreToolStep(c)
    \/ \E expected \in 0 .. MaxSequence : DeleteSession(expected)

StoreSpec == StoreInit /\ [][StoreNext]_storeVars

-----------------------------------------------------------------------------
(* Properties.                                                             *)

\* The rows satisfy the tables' CHECK constraints.
StoreTypeOK ==
    /\ sessionRow \in SessionRows
    /\ inputRow \in [Inputs -> {"absent", "admitted", "promoted"}]
    /\ attemptRow \in [Attempts -> AttemptRows]
    /\ cancelAsked \subseteq Attempts
    /\ message \in [Attempts -> {"absent", "streaming", "complete", "failed",
                                 "cancelled", "unknown"}]
    /\ bindingRow \in [ContextTurns -> ContextTurnBinding]
    /\ foldTurns \in [Attempts -> Nat]
    /\ foldReady \subseteq Attempts
    /\ foldPending \subseteq Attempts
    /\ foldLimit \in [Attempts -> TurnLimits \cup {None}]

\* provider_attempts.state as the aggregate's status determines it.
RowState(s) ==
    CASE s = "Absent" -> "absent"
      [] s = "Prepared" -> "prepared"
      [] s \in {"InFlight", "AwaitingTools", "CancellationRequested"}
           -> "in_flight"
      [] s = "Completed" -> "completed"
      [] s = "Failed" -> "failed"
      [] s = "Cancelled" -> "cancelled"
      [] s = "Unknown" -> "unknown"

SessionRowMatches ==
    /\ sessionRow.model = selectedModel
    /\ sessionRow.version = lastSequence
    /\ IF created
         THEN sessionRow.status = IF archived THEN "archived" ELSE "active"
         ELSE sessionRow = NoSession
InputRowsMatch ==
    /\ \A i \in Inputs :
          /\ inputRow[i] = "absent" <=> i \notin admitted
          /\ inputRow[i] = "promoted" <=> promotedBy[i] # None
    /\ \A a \in Attempts :
          status[a] # "Absent" => inputRow[request[a].input] = "promoted"
AttemptRowsMatch ==
    \A a \in Attempts :
        /\ attemptRow[a].state = RowState(status[a])
        /\ attemptRow[a].retryOf = request[a].retryOf
        /\ status[a] \in {"Absent", "Prepared", "InFlight", "AwaitingTools"} =>
              a \notin cancelAsked
MessagesMatch ==
    \A a \in Attempts :
        message[a] # "absent" =>
            message[a] = IF status[a] \in SettledAttempt
                           THEN MessageState(RowState(status[a]))
                           ELSE "streaming"
FoldMatches ==
    /\ foldTurns = turnsStarted
    /\ foldReady = dispatchReady
    /\ foldLimit = maxTurns
    /\ \A a \in Attempts : a \in foldPending <=> PendingBindings(a) # {}

\* Until the session is deleted, its rows say what its aggregate says, although
\* the two are updated by different code: no message streams for a settled
\* attempt, a paused or cancelling attempt counts as in flight, a retry leaves
\* its input promoted, and the fold over the log that guards the next binding
\* agrees with the aggregate's own bookkeeping.
ProjectionMatchesAggregate ==
    ~Deleted =>
        /\ SessionRowMatches
        /\ InputRowsMatch
        /\ AttemptRowsMatch
        /\ MessagesMatch
        /\ bindingRow = binding
        /\ FoldMatches

\* Whatever decide accepts, the store accepts: no accepted command of a session
\* that exists is refused by the append, which the coordinator would treat as
\* an internal failure and stop.
StoreAcceptsDecisions ==
    ~Deleted =>
      /\ sessionRow.version = lastSequence
      /\ \A i \in Inputs, a \in Attempts :
            /\ DecideAdmitPrompt(i) => AcceptInput(i)
            /\ DecideAdmitPromptAndPrepareAttempt(i, a) =>
                  AcceptInput(i) /\ AcceptPrepare(a, i, None, TRUE)
            /\ \A prior \in Attempts \cup {None} :
                  DecidePrepareAttempt(a, i, prior) =>
                    AcceptPrepare(a, i, prior, inputRow[i] # "absent")
      /\ \A a \in Attempts :
            /\ DecideStartAttempt(a) => AcceptStart(a)
            /\ DecideRecordOutput(a) => AcceptText(a) /\ AcceptUsage(a)
            /\ DecideRequestAttemptCancellation(a) => AcceptCancellation(a)
            /\ DecideCompleteAttempt(a) => AcceptSettle(a, "completed")
            /\ DecideFailAttempt(a) => AcceptSettle(a, "failed")
            /\ DecideCancelAttempt(a) => AcceptSettle(a, "cancelled")
            /\ DecideMarkAttemptUnknown(a) => AcceptSettle(a, "unknown")
            /\ \A t \in ContextTurns, turn \in 1 .. NextTurn(a) :
                  DecideBindContextTurn(a, t, turn) => AcceptBind(a, t, turn)
            /\ DecideStartRunTurn(a) => AcceptRunTurn(a, NextTurn(a))

\* Deletion looks at attempt rows only, and still never erases a session with
\* an attempt that may continue or a tool call that may still run or wait.
DeletionStep ==
    Present /\ sessionRow' = NoSession =>
        /\ \A a \in Attempts : status[a] \in SettledAttempt \cup {"Absent"}
        /\ \A c \in Calls : callStatus[c] \in SettledCall \cup {"Absent"}
DeletionLosesNoWork == [][DeletionStep]_storeVars

\* The engine still holds the aggregate of a deleted session and decides
\* commands on it, but nothing it decides brings a row back.
ResurrectionStep == Deleted => UNCHANGED storeVars
DeletedSessionStaysDeleted == [][ResurrectionStep]_storeVars

\* What coordinator.rs says of delete_session ("Permanently deletes a settled
\* session"): a session with no unfinished attempt can be deleted.
SettledSessionIsDeletable ==
    Present /\ NothingUnsettled => AttemptRowsDeletable

=============================================================================
