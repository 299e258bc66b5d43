----------------------------- MODULE SessionReads -----------------------------
(***************************************************************************)
(* What is read back of a session: the log that compaction and a rebuild   *)
(* of the projections walk from its first event, and the projection rows   *)
(* that startup and the client's views load.                               *)
(*                                                                         *)
(* Each reader judges again what the writer has already accepted.          *)
(* pending_session_facts_from_events (crates/autoharness-memory/src/       *)
(* compaction.rs) has its own machine of inputs and tool calls;            *)
(* validate_complete_streams and the validate method of every row          *)
(* (sqlite_store.rs) compare the columns with each other and with the      *)
(* events they cite. A reader that refuses what was written makes the      *)
(* session unreadable for ever: the log is never rewritten.                *)
(*                                                                         *)
(* Every reader is a fold over the log, so it is kept up to date event by  *)
(* event, next to the step of SessionStore that appends the events.        *)
(***************************************************************************)
EXTENDS SessionStore

VARIABLES
    columns,     \* of admitted_inputs, provider_attempts and transcript_messages
    streamCheck, \* what validate_complete_streams knows after the last event
    facts        \* what pending_session_facts_from_events knows after it

readVars == <<columns, streamCheck, facts>>
readsVars == <<storeVars, readVars>>

NoColumns ==
    [ promoted |-> {},                          \* inputs with promoted_at_ms
      started  |-> {},                          \* attempts with started_at_ms
      settled  |-> [a \in Attempts |-> None],   \* kind of settled_event_id
      failure  |-> {},                          \* attempts with failure_json
      segments |-> {} ]                         \* attempts with transcript_segments

NoStream == [created |-> FALSE, inputs |-> {}, count |-> 0, valid |-> TRUE]

NoFacts ==
    [ inputs   |-> [i \in Inputs |-> "absent"],
      attempts |-> {},
      stage    |-> [c \in Calls |-> "absent"],
      policy   |-> [c \in Calls |-> None],
      answer   |-> [c \in Calls |-> None],
      valid    |-> TRUE ]

ReadsInit ==
    StoreInit /\ columns = NoColumns /\ streamCheck = NoStream /\ facts = NoFacts

-----------------------------------------------------------------------------
(* The payloads the readers tell apart.                                    *)

Payload(kind) ==
    [kind |-> kind, input |-> None, attempt |-> None, call |-> None,
     retryOf |-> None, verdict |-> None]
OfInput(kind, i) == [Payload(kind) EXCEPT !.input = i]
OfAttempt(kind, a) == [Payload(kind) EXCEPT !.attempt = a]
OfCall(kind, c) == [Payload(kind) EXCEPT !.call = c]
Prepared(a, i, prior) ==
    [Payload("AttemptPrepared") EXCEPT !.attempt = a, !.input = i, !.retryOf = prior]
ProposedEvent(c, a) == [OfCall("ToolCallProposed", c) EXCEPT !.attempt = a]
Ruled(kind, c, verdict) == [OfCall(kind, c) EXCEPT !.verdict = verdict]

SettlesAttempt ==
    {"AttemptCompleted", "AttemptFailed", "AttemptCancelled", "AttemptMarkedUnknown"}

\* An absent call and an absent settlement are told from every real one.
ASSUME AbsentAssumption == None \notin Calls \cup SettlesAttempt

-----------------------------------------------------------------------------
(* The columns apply_projection writes beside the states of SessionStore.  *)

ColumnsAfter(cols, e) ==
    CASE e.kind = "AttemptPrepared" ->
            [cols EXCEPT !.promoted = @ \cup {e.input}]
      [] e.kind = "AttemptStarted" ->
            [cols EXCEPT !.started = @ \cup {e.attempt}]
      [] e.kind = "AttemptTextAppended" ->
            [cols EXCEPT !.segments = @ \cup {e.attempt}]
      [] e.kind \in SettlesAttempt ->
            [cols EXCEPT !.settled[e.attempt] = e.kind,
                         !.failure = IF e.kind = "AttemptFailed"
                                       THEN @ \cup {e.attempt} ELSE @]
      [] OTHER -> cols

-----------------------------------------------------------------------------
(* validate_complete_streams, which rebuild_projections runs before it     *)
(* touches a row.                                                          *)

StreamAccepts(s, e) ==
    IF e.kind = "SessionCreated"
      THEN ~s.created
      ELSE s.created /\ (e.kind = "InputAdmitted" => e.input \notin s.inputs)

StreamAfter(s, e) ==
    [ created |-> s.created \/ e.kind = "SessionCreated",
      inputs  |-> IF e.kind = "InputAdmitted" THEN s.inputs \cup {e.input} ELSE s.inputs,
      count   |-> s.count + 1,
      valid   |-> s.valid /\ StreamAccepts(s, e) ]

-----------------------------------------------------------------------------
(* pending_session_facts_from_events: inputs not yet promoted and calls    *)
(* not yet settled, which no compaction may summarise away.                *)

\* Mutant: a retry, too, must find its input unpromoted.
PromotesOnce(f, e) == f.inputs[e.input] = "pending"

\* Only a first attempt promotes its input.
PromotionAllowed(f, e) ==
    IF e.retryOf = None THEN f.inputs[e.input] = "pending"
                        ELSE f.inputs[e.input] # "absent"

CallSettlement == {"ToolCallCompleted", "ToolCallFailed", "ToolCallMarkedUnknown"}

\* The stages require_tool_stage asks for.
StagesBefore(kind) ==
    CASE kind = "ToolPermissionRecorded" -> {"Proposed"}
      [] kind = "ToolPermissionAnswered" -> {"PermissionPending"}
      [] kind = "ToolCallStarted" -> {"Authorized"}
      [] kind \in CallSettlement -> {"Running"}
      [] kind = "ToolCallDenied" -> {"DeniedPending"}
      [] kind = "ToolCallCancelled" ->
            {"Proposed", "PermissionPending", "Authorized", "Running"}

FactsAccept(f, e) ==
    CASE e.kind = "InputAdmitted" -> f.inputs[e.input] = "absent"
      [] e.kind = "AttemptPrepared" ->
            e.attempt \notin f.attempts /\ PromotionAllowed(f, e)
      [] e.kind = "ToolCallProposed" ->
            e.attempt \in f.attempts /\ f.stage[e.call] = "absent"
      [] e.kind = "ToolPermissionAnswered" ->
            /\ f.stage[e.call] \in StagesBefore(e.kind)
            /\ f.policy[e.call] = "Ask"
      [] e.call # None /\ e.kind \notin {"ToolCallProposed", "ToolPermissionAnswered"} ->
            f.stage[e.call] \in StagesBefore(e.kind)
      [] OTHER -> TRUE

\* A recorded outcome and a given answer both have a "Deny".
StageAfter(e) ==
    CASE e.kind = "ToolCallProposed" -> "Proposed"
      [] e.kind \in {"ToolPermissionRecorded", "ToolPermissionAnswered"} ->
            [Deny |-> "DeniedPending", Ask |-> "PermissionPending",
             Allow |-> "Authorized", AllowOnce |-> "Authorized"][e.verdict]
      [] e.kind = "ToolCallStarted" -> "Running"
      [] OTHER -> "Settled"

FactsAfter(f, e) ==
    CASE ~f.valid \/ ~FactsAccept(f, e) -> [f EXCEPT !.valid = FALSE]
      [] f.valid /\ FactsAccept(f, e) /\ e.kind = "InputAdmitted" ->
            [f EXCEPT !.inputs[e.input] = "pending"]
      [] f.valid /\ FactsAccept(f, e) /\ e.kind = "AttemptPrepared" ->
            [f EXCEPT !.attempts = @ \cup {e.attempt},
                      !.inputs[e.input] = IF e.retryOf = None THEN "promoted" ELSE @]
      [] f.valid /\ FactsAccept(f, e) /\ e.call # None ->
            [f EXCEPT !.stage[e.call] = StageAfter(e),
                      !.policy[e.call] =
                          IF e.kind = "ToolPermissionRecorded" THEN e.verdict ELSE @,
                      !.answer[e.call] =
                          IF e.kind = "ToolPermissionAnswered" THEN e.verdict ELSE @]
      [] OTHER -> f

\* The facts whose hashes the compaction boundary fixes.
PendingSessionFacts(f) ==
    {<<"input", i>> : i \in {i \in Inputs : f.inputs[i] = "pending"}}
      \cup {<<"permission", c>> : c \in {c \in Calls : f.stage[c] = "PermissionPending"}}
      \cup {<<"tool", c, f.stage[c], f.policy[c], f.answer[c]>> :
              c \in {c \in Calls : f.stage[c] \notin {"absent", "Settled"}}}

-----------------------------------------------------------------------------
(* One appended batch, as every reader will see it.                        *)

Emit(e) ==
    /\ columns' = ColumnsAfter(columns, e)
    /\ streamCheck' = StreamAfter(streamCheck, e)
    /\ facts' = FactsAfter(facts, e)

\* The first prompt of an untitled session names it in the same batch.
AfterAdmission(After(_, _), s, i) ==
    LET admission == After(s, OfInput("InputAdmitted", i))
    IN  IF AutomaticallyTitles THEN After(admission, Payload("SessionRenamed"))
                               ELSE admission

EmitAdmission(i) ==
    /\ columns' = AfterAdmission(ColumnsAfter, columns, i)
    /\ streamCheck' = AfterAdmission(StreamAfter, streamCheck, i)
    /\ facts' = AfterAdmission(FactsAfter, facts, i)

EmitAdmissionAndAttempt(i, a) ==
    /\ columns' = ColumnsAfter(AfterAdmission(ColumnsAfter, columns, i), Prepared(a, i, None))
    /\ streamCheck' = StreamAfter(AfterAdmission(StreamAfter, streamCheck, i), Prepared(a, i, None))
    /\ facts' = FactsAfter(AfterAdmission(FactsAfter, facts, i), Prepared(a, i, None))

ReadLifecycleStep ==
    \/ StoreCreateSession /\ Emit(Payload("SessionCreated"))
    \/ StoreRenameSession /\ Emit(Payload("SessionRenamed"))
    \/ StoreArchiveSession /\ Emit(Payload("SessionArchived"))
    \/ StoreUnarchiveSession /\ Emit(Payload("SessionUnarchived"))
    \/ \E m \in Models : StoreSelectModel(m) /\ Emit(Payload("ModelSelected"))
    \/ \E i \in Inputs : StoreAdmitPrompt(i) /\ EmitAdmission(i)
    \/ \E i \in Inputs, a \in Attempts :
          /\ StoreAdmitPromptAndPrepareAttempt(i, a)
          /\ EmitAdmissionAndAttempt(i, a)
    \/ \E a \in Attempts, i \in Inputs, prior \in Attempts \cup {None} :
          StorePrepareAttempt(a, i, prior) /\ Emit(Prepared(a, i, prior))

ReadAttemptStep(a) ==
    \/ StoreStartAttempt(a) /\ Emit(OfAttempt("AttemptStarted", a))
    \/ StoreAppendAttemptText(a) /\ Emit(OfAttempt("AttemptTextAppended", a))
    \/ StoreRecordAttemptUsage(a) /\ Emit(OfAttempt("AttemptUsageRecorded", a))
    \/ /\ StoreRequestAttemptCancellation(a)
       /\ Emit(OfAttempt("AttemptCancellationRequested", a))
    \/ StoreCompleteAttempt(a) /\ Emit(OfAttempt("AttemptCompleted", a))
    \/ \E advised \in BOOLEAN :
          StoreFailAttempt(a, advised) /\ Emit(OfAttempt("AttemptFailed", a))
    \/ StoreCancelAttempt(a) /\ Emit(OfAttempt("AttemptCancelled", a))
    \/ StoreMarkAttemptUnknown(a) /\ Emit(OfAttempt("AttemptMarkedUnknown", a))
    \/ \E limit \in TurnLimits :
          /\ StoreConfigureRunBudget(a, limit)
          /\ Emit(OfAttempt("RunBudgetConfigured", a))
    \/ \E t \in ContextTurns, turn \in 1 .. NextTurn(a) :
          StoreBindContextTurn(a, t, turn) /\ Emit(OfAttempt("ContextTurnBound", a))
    \/ StoreStartRunTurn(a) /\ Emit(OfAttempt("RunTurnStarted", a))
    \/ StorePauseAttemptForTools(a) /\ Emit(OfAttempt("AttemptPausedForTools", a))
    \/ StoreResumeAttemptAfterTools(a) /\ Emit(OfAttempt("AttemptResumedAfterTools", a))

\* StoreToolStep, command by command.
StoreTool(step, e) == step /\ SaveSession(sessionRow) /\ NoRowButSession /\ Emit(e)

ReadToolStep(c) ==
    \/ \E a \in Attempts : StoreTool(ProposeToolCall(c, a), ProposedEvent(c, a))
    \/ \E outcome \in {"Allow", "Ask", "Deny"} :
          StoreTool(RecordToolPermission(c, outcome),
                    Ruled("ToolPermissionRecorded", c, outcome))
    \/ \E given \in {"AllowOnce", "Deny"} :
          StoreTool(AnswerToolPermission(c, given),
                    Ruled("ToolPermissionAnswered", c, given))
    \/ StoreTool(StartToolCall(c), OfCall("ToolCallStarted", c))
    \/ StoreTool(CompleteToolCall(c), OfCall("ToolCallCompleted", c))
    \/ StoreTool(FailToolCall(c), OfCall("ToolCallFailed", c))
    \/ StoreTool(MarkToolCallUnknown(c), OfCall("ToolCallMarkedUnknown", c))
    \/ StoreTool(DenyToolCall(c), OfCall("ToolCallDenied", c))
    \/ StoreTool(CancelToolCall(c), OfCall("ToolCallCancelled", c))

\* Deletion takes the events with the rows.
ReadDeletion ==
    /\ \E expected \in 0 .. MaxSequence : DeleteSession(expected)
    /\ columns' = NoColumns /\ streamCheck' = NoStream /\ facts' = NoFacts

ReadsNext ==
    \/ ReadLifecycleStep
    \/ \E a \in Attempts : ReadAttemptStep(a)
    \/ \E c \in Calls : ReadToolStep(c)
    \/ ReadDeletion

ReadsSpec == ReadsInit /\ [][ReadsNext]_readsVars

-----------------------------------------------------------------------------
(* The checks of each row's validate.                                      *)

\* SessionProjectionRow: the log is whole, from 1 to last_sequence.
SessionReadable == streamCheck.created /\ streamCheck.count = sessionRow.version

\* InputProjectionRow: promoted_at_ms is set exactly for a promoted input.
InputReadable(i) == inputRow[i] = "promoted" <=> i \in columns.promoted

\* Mutant: a failed attempt, like the other settled ones, must have started.
StateReadableStarted(state, started, settled) ==
    CASE state = "prepared" -> ~started /\ ~settled
      [] state = "in_flight" -> started /\ ~settled
      [] OTHER -> started /\ settled

\* AttemptProjectionRow: the state against the two timestamps.
StateReadable(state, started, settled) ==
    CASE state = "prepared" -> ~started /\ ~settled
      [] state = "in_flight" -> started /\ ~settled
      [] state = "failed" -> settled
      [] OTHER -> started /\ settled

\* settled_payload_matches
SettledPayloadMatches(state, kind) ==
    \/ state = "completed" /\ kind = "AttemptCompleted"
    \/ state = "failed" /\ kind = "AttemptFailed"
    \/ state = "cancelled" /\ kind = "AttemptCancelled"
    \/ state = "unknown" /\ kind = "AttemptMarkedUnknown"

AttemptReadable(a) ==
    LET state == attemptRow[a].state
        kind == columns.settled[a]
    IN  /\ StateReadable(state, a \in columns.started, kind # None)
        /\ state = "failed" <=> a \in columns.failure
        /\ kind # None => SettledPayloadMatches(state, kind)

\* TranscriptSegmentRow: a segment cites the AttemptTextAppended event, of its
\* own attempt, that it was inserted for.
HasSegment(a) == a \in columns.segments

\* TranscriptMessageRow: a message without a segment is refused. (The order of
\* first_sequence, the segments and last_sequence is that of the log.)
MessageReadable(a) == message[a] # "absent" <=> HasSegment(a)

-----------------------------------------------------------------------------
(* Properties.                                                             *)

\* Whatever was appended can be read: no accepted command leaves a row that
\* list_sessions, load_admitted_inputs, load_attempts or load_transcript calls
\* corrupt, nor a log that rebuild_projections refuses to replay.
EveryRowIsReadable ==
    /\ streamCheck.valid
    /\ Present => SessionReadable
    /\ \A i \in Inputs : inputRow[i] # "absent" => InputReadable(i)
    /\ \A a \in Attempts :
          /\ attemptRow[a].state # "absent" => AttemptReadable(a)
          /\ MessageReadable(a)

\* Compaction's own reading of the log finds every log the engine wrote valid,
\* and what it calls pending is exactly the unsettled work of the aggregate:
\* prompts without an attempt, open permission questions, and calls with the
\* stage and the permission evidence the aggregate records for them.
PendingFactsAreUnsettledWork ==
    /\ facts.valid
    /\ ~Deleted =>
          PendingSessionFacts(facts) =
            {<<"input", i>> : i \in {i \in admitted : promotedBy[i] = None}}
              \cup {<<"permission", c>> :
                      c \in {c \in Calls : callStatus[c] = "PermissionPending"}}
              \cup {<<"tool", c, callStatus[c], policy[c], answer[c]>> :
                      c \in {c \in Calls : callStatus[c] \in ToolCallStatus \ SettledCall}}

=============================================================================
