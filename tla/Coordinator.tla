----------------------------- MODULE Coordinator -----------------------------
(***************************************************************************)
(* The application coordinator (crates/autoharness-app/src/coordinator.rs) *)
(* running one session, and the startup recovery of the engine actor       *)
(* (engine_actor.rs). The coordinator is one task: it takes an intent, a   *)
(* provider-stream event or a tool result, and runs its handler to the end *)
(* before it takes the next. A handler is a sequence of durable commands   *)
(* with in-memory work between them, and the process may stop between any  *)
(* two of them; "todo" is what the running handler still has to do.        *)
(*                                                                         *)
(* The durable commands are the actions of Session. Provider streams and   *)
(* tool executions are spawned tasks that reach the coordinator through    *)
(* one channel. A task may be delayed for as long as it likes before it    *)
(* sends, so taking a task's message at an arbitrary moment covers every   *)
(* queueing order, a message queued before a cancellation included.        *)
(***************************************************************************)
EXTENDS Session, Sequences

CONSTANTS
    ProposalCalls,   \* calls of the memory-proposal tool, persisted in place
    Outcomes,        \* what PermissionPolicy::evaluate may answer
    RestartModes,    \* "current": the session is the one the process opens;
                     \* "opened": it is opened later, through open_session
    ProviderAtStart, \* whether a provider credential is found at startup
    CredentialMayLapse, \* a catalog refresh may be refused by the provider
    MaxConcurrency,  \* RunLimits.max_concurrency
    MaxOutputs,      \* bound: text and usage events recorded
    MaxEdits,        \* bound: renames and model selections after the first
    MaxRestarts      \* bound: process starts after the first

ASSUME ProposalCallsAssumption == ProposalCalls \subseteq Calls
ASSUME OutcomesAssumption == Outcomes \subseteq {"Allow", "Ask", "Deny"}
ASSUME RestartModesAssumption == RestartModes \subseteq {"current", "opened"}
ASSUME ProviderAssumption ==
    ProviderAtStart \subseteq BOOLEAN /\ CredentialMayLapse \in BOOLEAN
ASSUME BoundsAssumption ==
    {MaxConcurrency, MaxOutputs, MaxEdits, MaxRestarts} \subseteq Nat

VARIABLES
    phase,      \* "up", "recovering", "down" after a crash or a shutdown,
                \* "stopped" after a handler's error ended Coordinator::run
    todo,       \* the rest of the handler, as <<operation, subject>> pairs
    order,      \* the aggregate's attempts, oldest first
    \* ActiveAttempt
    active,     \* attempt_id, or None
    slots,      \* budget.active_tools
    guarded,    \* credential_ingress.is_some()
    cancelled,  \* attempts whose cancellation token is cancelled
    provider,   \* provider.is_some()
    \* spawned tasks
    stream,     \* per attempt: "closed", "open", "called" (a tool call was
                \* emitted this turn) or "lost" with the process
    runner,     \* per call: the attempt whose token its task holds, or None
    \* what an observer has seen
    sent,       \* per attempt: provider requests sent
    ran,        \* per call: executions handed to the tool runtime
    committed,  \* proposals in the memory ledger
    stranded,   \* runs that open_session showed without making them active
    outputs, edits, restarts

taskVars == <<stream, runner>>
activeVars == <<active, slots, guarded, cancelled>>
worldVars == <<sent, ran, committed, stranded>>
boundVars == <<outputs, edits, restarts>>
coordVars ==
    <<phase, todo, order, activeVars, provider, taskVars, worldVars, boundVars>>
allVars == <<vars, coordVars>>

CoordInit ==
    /\ Init
    /\ phase = "up"
    /\ todo = <<>>
    /\ order = <<>>
    /\ active = None
    /\ slots = 0
    /\ guarded = FALSE
    /\ cancelled = {}
    /\ provider \in ProviderAtStart
    /\ stream = [a \in Attempts |-> "closed"]
    /\ runner = [c \in Calls |-> None]
    /\ sent = [a \in Attempts |-> 0]
    /\ ran = [c \in Calls |-> 0]
    /\ committed = {}
    /\ stranded = {}
    /\ outputs = 0 /\ edits = 0 /\ restarts = 0

-----------------------------------------------------------------------------
(* Handlers.                                                               *)

Idle == phase = "up" /\ todo = <<>>
Now(operation, subject) == todo # <<>> /\ Head(todo) = <<operation, subject>>
Then(steps) == todo' = steps \o Tail(todo)
Done == Then(<<>>)
Return(steps) == todo' = steps

Live(a) == stream[a] \in {"open", "called"}
ActiveSettled == active # None => CallsSettled(active)
UnsettledCalls(a) == {c \in CallsOf(a) : callStatus[c] \notin SettledCall}

StartSteps(a) ==
    << <<"configure", a>>, <<"start", a>>, <<"bind", a>>, <<"dispatch", a>> >>
ContinueSteps(a) == << <<"bind", a>>, <<"dispatch", a>> >>
FailSteps(a) == << <<"settle", a>>, <<"fail", a>> >>
AbortSteps(a) == << <<"settle", a>>, <<"abort", a>> >>
ResumeSteps == << <<"maybeResume", None>> >>

\* The process ends: the spawned tasks, the tokens and the active attempt are
\* gone, the log stays. A request whose attempt was still listening has lost
\* its outcome.
ProcessEnds(how) ==
    /\ phase' = how
    /\ todo' = <<>>
    /\ active' = None /\ slots' = 0 /\ guarded' = FALSE /\ cancelled' = {}
    /\ stream' = [a \in Attempts |->
          IF Live(a) /\ active = a THEN "lost"
          ELSE IF Live(a) THEN "closed" ELSE stream[a]]
    /\ runner' = [c \in Calls |-> None]

\* A handler's error is passed up to Coordinator::run, which returns it.
HandlerFails == ProcessEnds("stopped")

-----------------------------------------------------------------------------
(* Intents of the user.                                                    *)

EditVars ==
    /\ edits' = edits + 1
    /\ UNCHANGED <<phase, todo, order, activeVars, provider, taskVars,
                   worldVars, outputs, restarts>>

CreateOrSelect ==
    /\ Idle
    /\ \/ CreateSession
       \/ selectedModel = None /\ \E m \in Models : SelectModel(m)
    /\ UNCHANGED coordVars

EditSession ==
    /\ Idle
    /\ edits < MaxEdits
    /\ \/ RenameSession
       \/ ArchiveSession
       \/ UnarchiveSession
       \/ selectedModel # None /\ \E m \in Models : SelectModel(m)
    /\ EditVars

SubmitPrompt(i, a) ==
    /\ Idle /\ active = None /\ provider
    /\ AdmitPromptAndPrepareAttempt(i, a)
    /\ order' = Append(order, a)
    /\ Return(StartSteps(a))
    /\ UNCHANGED <<phase, activeVars, provider, taskVars, worldVars, boundVars>>

RetryAttempt(prior, a) ==
    /\ Idle /\ active = None /\ provider
    /\ request[prior].input # None
    /\ PrepareAttempt(a, request[prior].input, prior)
    /\ order' = Append(order, a)
    /\ Return(StartSteps(a))
    /\ UNCHANGED <<phase, activeVars, provider, taskVars, worldVars, boundVars>>

Cancel(a) ==
    /\ Idle /\ active = a
    /\ RequestAttemptCancellation(a)
    /\ cancelled' = cancelled \cup {a}
    /\ Return(IF status[a] = "AwaitingTools"
                THEN << <<"cancelCalls", a>> >> ELSE <<>>)
    /\ UNCHANGED <<phase, order, active, slots, guarded, provider, taskVars,
                   worldVars, boundVars>>

\* Mutant: the handler waits for the running calls to settle first.
CancelCallsAfterTools(a) ==
    /\ Now("cancelCalls", a)
    /\ LET waiting == {c \in UnsettledCalls(a) : callStatus[c] # "Running"}
       IN  \/ /\ \E c \in waiting : CancelToolCall(c)
              /\ UNCHANGED <<todo, active>>
           \/ /\ waiting = {} /\ CallsSettled(a)
              /\ CancelAttempt(a)
              /\ active' = None
              /\ Done
    /\ UNCHANGED <<phase, order, slots, guarded, cancelled, provider, taskVars,
                   worldVars, boundVars>>

\* The calls of a paused attempt that have not started are cancelled, and
\* the attempt with them unless one is running.
CancelCalls(a) ==
    /\ Now("cancelCalls", a)
    /\ LET waiting == {c \in UnsettledCalls(a) : callStatus[c] # "Running"}
       IN  \/ /\ \E c \in waiting : CancelToolCall(c)
              /\ UNCHANGED <<todo, active>>
           \/ /\ waiting = {} /\ CallsSettled(a)
              /\ CancelAttempt(a)
              /\ active' = None
              /\ Done
           \/ /\ waiting = {} /\ ~CallsSettled(a)
              /\ Done
              /\ UNCHANGED <<vars, active>>
    /\ UNCHANGED <<phase, order, slots, guarded, cancelled, provider, taskVars,
                   worldVars, boundVars>>

\* answer_permission looks at the call only, not at the attempt it belongs to.
AnswerPermission(c, given) ==
    /\ Idle
    /\ AnswerToolPermission(c, given)
    /\ Return(<< <<IF given = "AllowOnce" THEN "startCall" ELSE "deny", c>> >>
                \o ResumeSteps)
    /\ UNCHANGED <<phase, order, activeVars, provider, taskVars, worldVars,
                   boundVars>>

\* A new API key; refused while an attempt is active.
SubmitCredential ==
    /\ Idle /\ active = None /\ ~provider
    /\ provider' = TRUE
    /\ Return(ResumeSteps)
    /\ UNCHANGED <<vars, phase, order, activeVars, taskVars, worldVars,
                   boundVars>>

-----------------------------------------------------------------------------
(* start_attempt, and the same tail in maybe_resume_after_tools.           *)

\* The only handler steps that touch nothing but the log and todo.
LogOnly ==
    UNCHANGED <<phase, order, activeVars, provider, taskVars, worldVars,
                boundVars>>

\* build_request is tried before anything else of the attempt is durable.
Configure(a) ==
    /\ Now("configure", a)
    /\ \/ \E limit \in TurnLimits : ConfigureRunBudget(a, limit) /\ Done
       \/ \E advised \in BOOLEAN : FailAttempt(a, advised) /\ Return(<<>>)
    /\ LogOnly

Start(a) ==
    /\ Now("start", a)
    /\ StartAttempt(a)
    /\ Done
    /\ LogOnly

\* prepare_and_bind_context binds one frozen context turn, or fails closed.
Bind(a) ==
    /\ Now("bind", a)
    /\ \/ \E t \in ContextTurns : BindContextTurn(a, t, NextTurn(a)) /\ Done
       \/ Return(<< <<"fail", a>> >>) /\ UNCHANGED vars
    /\ LogOnly

\* The turn is durable before the request is sent; a missing credential guard
\* or a refused StartRunTurn fails the attempt instead.
Dispatch(a) ==
    /\ Now("dispatch", a)
    /\ \/ StartRunTurn(a) /\ Then(<< <<"spawn", a>> >>)
       \/ Return(<< <<"fail", a>> >>) /\ UNCHANGED vars
    /\ LogOnly

Spawn(a) ==
    /\ Now("spawn", a)
    /\ stream' = [stream EXCEPT ![a] = "open"]
    /\ sent' = [sent EXCEPT ![a] = @ + 1]
    /\ active' = a
    /\ slots' = IF active = a THEN slots ELSE 0
    /\ guarded' = TRUE
    /\ Done
    /\ UNCHANGED <<vars, phase, order, cancelled, provider, runner, ran,
                   committed, stranded, boundVars>>

\* A live catalog lets a recovered, already bound turn go out, if nothing was
\* logged since the binding.
ResumeBound(a) ==
    /\ Idle /\ active = None /\ provider
    /\ StartRunTurn(a)
    /\ Return(<< <<"spawn", a>> >>)
    /\ LogOnly

\* A catalog refresh refused for its credential drops the provider, whatever
\* is running.
CatalogRefused ==
    /\ Idle /\ provider /\ CredentialMayLapse
    /\ provider' = FALSE
    /\ UNCHANGED <<vars, phase, todo, order, activeVars, taskVars, worldVars,
                   boundVars>>

-----------------------------------------------------------------------------
(* Settling an attempt.                                                    *)

\* What settle_attempt_tools_conservatively records for an unsettled call.
SettleConservatively(c) ==
    \/ callStatus[c] = "Running" /\ MarkToolCallUnknown(c)
    \/ callStatus[c] = "DeniedPending" /\ DenyToolCall(c)
    \/ callStatus[c] \in {"Proposed", "PermissionPending", "Authorized"}
          /\ CancelToolCall(c)

\* Mutant: settling the calls leaves the tasks running.
TokenKept(a) == cancelled

\* The active attempt's token is cancelled before its calls are settled.
TokenAfterSettle(a) == IF active = a THEN cancelled \cup {a} ELSE cancelled

Settle(a) ==
    /\ Now("settle", a)
    /\ cancelled' = TokenAfterSettle(a)
    /\ \/ \E c \in UnsettledCalls(a) : SettleConservatively(c)
          /\ UNCHANGED todo
       \/ CallsSettled(a) /\ Done /\ UNCHANGED vars
    /\ UNCHANGED <<phase, order, active, slots, guarded, provider, taskVars,
                   worldVars, boundVars>>

\* FailAttempt and then active = None.
Fail(a) ==
    /\ Now("fail", a)
    /\ \E advised \in BOOLEAN : FailAttempt(a, advised)
    /\ active' = None
    /\ Return(<<>>)
    /\ UNCHANGED <<phase, order, slots, guarded, cancelled, provider, taskVars,
                   worldVars, boundVars>>

\* fail_run_budget takes whichever attempt is active and cancels its token. For
\* a stranded run that is another one, which nobody settles then.
Abort(a) ==
    /\ Now("abort", a)
    /\ \E advised \in BOOLEAN : FailAttempt(a, advised)
    /\ active' = None
    /\ cancelled' = cancelled \cup ({active} \ {None})
    /\ stranded' = IF a \in stranded
                     THEN stranded \cup ({active} \ {None}) ELSE stranded
    /\ Return(<<>>)
    /\ UNCHANGED <<phase, order, slots, guarded, provider, taskVars, sent, ran,
                   committed, boundVars>>

\* Mutant: the attempt is released even though a call is still open.
ReleaseOnCancel(a) ==
    \/ CallsSettled(a) /\ CancelAttempt(a) /\ active' = None
    \/ ~CallsSettled(a) /\ UNCHANGED vars /\ active' = None

\* CancelAttempt once every call is settled; nothing while one is not.
CancelIfSettled(a) ==
    \/ CallsSettled(a) /\ CancelAttempt(a) /\ active' = None
    \/ ~CallsSettled(a) /\ UNCHANGED <<vars, active>>

MaybeResume ==
    /\ Now("maybeResume", None)
    /\ \/ /\ active = None
          /\ Done /\ UNCHANGED <<vars, guarded>>
       \/ /\ active # None
          /\ status[active] # "AwaitingTools"
          /\ Done /\ UNCHANGED <<vars, guarded>>
       \/ /\ active # None
          /\ status[active] = "AwaitingTools"
          /\ \/ /\ ~guarded          \* credential_ingress_guard failed
                /\ Return(FailSteps(active))
                /\ UNCHANGED <<vars, guarded>>
             \/ /\ ~provider \/ ~ActiveSettled
                /\ guarded' = TRUE
                /\ Done /\ UNCHANGED vars
             \/ /\ provider /\ ActiveSettled  \* budget.start_turn refused
                /\ guarded' = TRUE
                /\ Return(AbortSteps(active))
                /\ UNCHANGED vars
             \/ /\ provider
                /\ WithinTurnLimit(active)
                /\ ResumeAttemptAfterTools(active)
                /\ guarded' = TRUE
                /\ Then(ContinueSteps(active))
    /\ UNCHANGED <<phase, order, active, slots, cancelled, provider, taskVars,
                   worldVars, boundVars>>

-----------------------------------------------------------------------------
(* Tool calls.                                                             *)

Permission(c) ==
    /\ Now("permission", c)
    /\ \E outcome \in Outcomes :
          /\ RecordToolPermission(c, outcome)
          /\ Then(CASE outcome = "Allow" -> << <<"startCall", c>> >>
                    [] outcome = "Deny"  -> << <<"deny", c>> >>
                    [] outcome = "Ask"   -> <<>>)
    /\ LogOnly

Deny(c) ==
    /\ Now("deny", c)
    /\ DenyToolCall(c)
    /\ Done
    /\ LogOnly

StartCall(c) ==
    /\ Now("startCall", c)
    /\ \/ /\ StartToolCall(c)
          /\ Then(<< <<"launch", c>> >>)
          /\ UNCHANGED <<phase, activeVars, taskVars>>
       \/ /\ ~DecideStartToolCall(c)
          /\ HandlerFails
          /\ UNCHANGED vars
    /\ UNCHANGED <<order, provider, worldVars, boundVars>>

\* budget.start_tool: there is room for one more running tool.
StartToolAdmits == slots < MaxConcurrency

\* The call is durably started; now the active attempt's budget admits it and
\* the active attempt's token goes with it.
Launch(c) ==
    /\ Now("launch", c)
    /\ \/ /\ active = None
          /\ HandlerFails
          /\ UNCHANGED <<vars, ran>>
       \/ /\ active # None                   \* budget.start_tool refused
          /\ FailToolCall(c)
          /\ Done
          /\ UNCHANGED <<phase, activeVars, taskVars, ran>>
       \/ /\ active # None /\ StartToolAdmits
          /\ slots' = slots + 1
          /\ IF c \in ProposalCalls
               THEN /\ Then(<< <<"propose", c>> >>)
                    /\ UNCHANGED <<runner, ran>>
               ELSE /\ Done
                    /\ runner' = [runner EXCEPT ![c] = active]
                    /\ ran' = [ran EXCEPT ![c] = @ + 1]
          /\ UNCHANGED <<vars, phase, active, guarded, cancelled, stream>>
    /\ UNCHANGED <<order, provider, sent, committed, stranded, boundVars>>

\* Mutant: a finished tool keeps its slot.
SlotKept(c) == slots

\* finish_tool: saturating, and only for the active attempt's own call.
ReleasedSlots(c) ==
    IF active = callAttempt[c] /\ slots > 0 THEN slots - 1 ELSE slots

\* persist_memory_proposal commits to the memory ledger, is refused safely, or
\* cannot tell, and then the process stops.
Propose(c) ==
    /\ Now("propose", c)
    /\ \/ /\ committed' = committed \cup {c}
          /\ Then(<< <<"proposed", c>> >>)
          /\ UNCHANGED <<vars, phase, activeVars, taskVars>>
       \/ /\ FailToolCall(c)
          /\ slots' = ReleasedSlots(c)
          /\ Then(ResumeSteps)
          /\ UNCHANGED <<phase, active, guarded, cancelled, taskVars, committed>>
       \/ /\ committed' \in {committed, committed \cup {c}}
          /\ HandlerFails
          /\ UNCHANGED vars
    /\ UNCHANGED <<order, provider, sent, ran, stranded, boundVars>>

Proposed(c) ==
    /\ Now("proposed", c)
    /\ CompleteToolCall(c)
    /\ slots' = ReleasedSlots(c)
    /\ Then(ResumeSteps)
    /\ UNCHANGED <<phase, order, active, guarded, cancelled, provider, taskVars,
                   worldVars, boundVars>>

\* handle_tool_result. A result for a call that is no longer running is
\* dropped, and its slot is not released.
ToolResult(c) ==
    /\ Idle
    /\ runner[c] # None
    /\ runner' = [runner EXCEPT ![c] = None]
    /\ \/ /\ callStatus[c] # "Running"
          /\ UNCHANGED <<vars, todo, slots>>
       \/ /\ slots' = ReleasedSlots(c)
          /\ \/ /\ MarkToolCallUnknown(c)            \* output suppressed
                /\ Return(ResumeSteps)
             \/ /\ active # None /\ guarded          \* output over budget
                /\ MarkToolCallUnknown(c)
                /\ Return(AbortSteps(callAttempt[c]))
             \/ /\ active # None /\ guarded
                /\ CompleteToolCall(c)
                /\ Return(<< <<"afterTool", None>> >>)
             \/ /\ MarkToolCallUnknown(c)            \* the tool failed
                /\ Return(<< <<"afterTool", None>> >>)
    /\ UNCHANGED <<phase, order, active, guarded, cancelled, provider, stream,
                   worldVars, boundVars>>

\* Mutant: nobody looks whether the paused turn can go on.
AfterToolWithoutResume ==
    /\ Now("afterTool", None)
    /\ LET cancels == /\ active # None
                      /\ status[active] = "CancellationRequested"
                      /\ ActiveSettled
       IN  \/ cancels /\ CancelAttempt(active) /\ active' = None /\ Done
           \/ ~cancels /\ Done /\ UNCHANGED <<vars, active>>
    /\ UNCHANGED <<phase, order, slots, guarded, cancelled, provider, taskVars,
                   worldVars, boundVars>>

AfterTool ==
    /\ Now("afterTool", None)
    /\ LET cancels == /\ active # None
                      /\ status[active] = "CancellationRequested"
                      /\ ActiveSettled
       IN  \/ cancels /\ CancelAttempt(active) /\ active' = None /\ Done
           \/ ~cancels /\ Then(ResumeSteps) /\ UNCHANGED <<vars, active>>
    /\ UNCHANGED <<phase, order, slots, guarded, cancelled, provider, taskVars,
                   worldVars, boundVars>>

-----------------------------------------------------------------------------
(* Events of a provider stream. spawn_stream stops after a terminal event; *)
(* events for an attempt that is not active are dropped.                   *)

Close(a) == stream' = [stream EXCEPT ![a] = "closed"]

StreamVars ==
    UNCHANGED <<phase, order, slots, guarded, cancelled, provider, runner,
                worldVars, edits, restarts>>

\* Text and usage: recorded, or the run is failed because the text carries a
\* credential or exceeds the budget.
StreamOutput(a) ==
    /\ Idle /\ active = a /\ Live(a)
    /\ outputs < MaxOutputs
    /\ outputs' = outputs + 1
    /\ \/ RecordOutput(a) /\ UNCHANGED todo
       \/ Return(FailSteps(a)) /\ UNCHANGED vars
       \/ Return(AbortSteps(a)) /\ UNCHANGED vars
    /\ UNCHANGED <<active, stream>>
    /\ StreamVars

\* A tool call, ignored once cancellation is requested. A call that carries a
\* credential or cannot be planned fails the run.
StreamCall(a, c) ==
    /\ Idle /\ active = a /\ Live(a)
    /\ status[a] # "CancellationRequested"
    /\ stream' = [stream EXCEPT ![a] = "called"]
    /\ \/ ProposeToolCall(c, a) /\ Return(<< <<"permission", c>> >>)
       \/ Return(FailSteps(a)) /\ UNCHANGED vars
       \/ Return(AbortSteps(a)) /\ UNCHANGED vars
    /\ UNCHANGED <<active, outputs>>
    /\ StreamVars

\* Completed for tool calls, which an adapter reports only after a call.
StreamPaused(a) ==
    /\ Idle /\ active = a /\ stream[a] = "called"
    /\ Close(a)
    /\ \/ /\ status[a] = "CancellationRequested"
          /\ CancelIfSettled(a)
          /\ UNCHANGED todo
       \/ /\ status[a] # "CancellationRequested"
          /\ PauseAttemptForTools(a)
          /\ Return(ResumeSteps)
          /\ UNCHANGED active
    /\ UNCHANGED outputs
    /\ StreamVars

\* Completed for any other reason; completion_payload makes it a completion or
\* a failure. Calls still open are orphans and fail the run.
StreamCompleted(a) ==
    /\ Idle /\ active = a /\ Live(a)
    /\ Close(a)
    /\ \/ /\ UnsettledCalls(a) # {}
          /\ Return(FailSteps(a))
          /\ UNCHANGED <<vars, active>>
       \/ /\ UnsettledCalls(a) = {}
          /\ CompleteAttempt(a) \/ \E advised \in BOOLEAN : FailAttempt(a, advised)
          /\ active' = None
          /\ UNCHANGED todo
    /\ UNCHANGED outputs
    /\ StreamVars

\* Cancelled, or an error: the end of a stream whose token is cancelled, of
\* one that timed out, and of one the provider broke.
StreamEnded(a) ==
    /\ Idle /\ active = a /\ Live(a)
    /\ Close(a)
    /\ \/ /\ status[a] = "CancellationRequested"
          /\ CancelIfSettled(a)
          /\ UNCHANGED todo
       \/ /\ status[a] # "CancellationRequested"
          /\ Return(FailSteps(a))
          /\ UNCHANGED <<vars, active>>
    /\ UNCHANGED outputs
    /\ StreamVars

\* The terminal event of a stream nobody listens to any more.
StreamDropped(a) ==
    /\ Idle /\ active # a /\ Live(a)
    /\ Close(a)
    /\ UNCHANGED <<vars, todo, active, outputs>>
    /\ StreamVars

-----------------------------------------------------------------------------
(* Crash, restart and reconcile_interrupted_attempts.                      *)

\* The process dies, or is shut down, between two durable commands.
Crash ==
    /\ phase \in {"up", "recovering"}
    /\ restarts < MaxRestarts
    /\ ProcessEnds("down")
    /\ UNCHANGED <<vars, order, provider, worldVars, boundVars>>

Restart ==
    /\ phase \in {"down", "stopped"}
    /\ restarts < MaxRestarts
    /\ restarts' = restarts + 1
    /\ phase' = "recovering"
    /\ Return(<< <<"recoverCalls", None>> >>
                \o [n \in DOMAIN order |-> <<"recoverAttempt", order[n]>>])
    /\ UNCHANGED <<vars, order, activeVars, provider, taskVars, worldVars,
                   outputs, edits>>

\* Mutant: a call that was started is cancelled by recovery.
RecoverByCancelling(c) ==
    \/ callStatus[c] = "DeniedPending" /\ DenyToolCall(c)
    \/ callStatus[c] \in {"Proposed", "Authorized", "Running"} /\ CancelToolCall(c)
    \/ /\ callStatus[c] = "PermissionPending"
       /\ status[callAttempt[c]] \in {"InFlight", "CancellationRequested"}
       /\ CancelToolCall(c)

\* A committed proposal is completed; any other call that was started is
\* unknown; an ask survives only under an attempt that is already paused.
RecoverCall(c) ==
    \/ callStatus[c] = "Running" /\ c \in committed /\ CompleteToolCall(c)
    \/ callStatus[c] = "Running" /\ c \notin committed /\ MarkToolCallUnknown(c)
    \/ callStatus[c] = "DeniedPending" /\ DenyToolCall(c)
    \/ callStatus[c] \in {"Proposed", "Authorized"} /\ CancelToolCall(c)
    \/ /\ callStatus[c] = "PermissionPending"
       /\ status[callAttempt[c]] \in {"InFlight", "CancellationRequested"}
       /\ CancelToolCall(c)

KeepsAsking(c) ==
    /\ callStatus[c] = "PermissionPending"
    /\ status[callAttempt[c]] \notin {"InFlight", "CancellationRequested"}

RecoverCalls ==
    /\ Now("recoverCalls", None)
    /\ \/ \E c \in Calls : RecoverCall(c) /\ UNCHANGED todo
       \/ /\ \A c \in Calls :
                callStatus[c] \in SettledCall \cup {"Absent"} \/ KeepsAsking(c)
          /\ Done
          /\ UNCHANGED vars
    /\ LogOnly

\* load_exact_pending_context_turn: the binding is still the last event.
ExactPendingContext(a) ==
    /\ a \in dispatchReady
    /\ \E t \in PendingBindings(a) : binding[t].sequence = lastSequence

\* Mutant: a turn that was started counts as not dispatched.
InterruptedAnywhere(a) ==
    /\ status[a] \in {"Prepared", "InFlight", "CancellationRequested"}
    /\ ~ExactPendingContext(a)

\* The provider cannot have been asked for the turn that was interrupted.
InterruptedBeforeDispatch(a) ==
    \/ status[a] = "Prepared"
    \/ /\ status[a] = "InFlight"
       /\ ~ExactPendingContext(a)
       /\ a \in dispatchReady \/ turnsStarted[a] = 0
    \/ status[a] = "CancellationRequested" /\ turnsStarted[a] = 0

RecoverAttempt(a) ==
    /\ Now("recoverAttempt", a)
    /\ Done
    /\ \/ /\ status[a] \in SettledAttempt \cup {"AwaitingTools"}
          /\ UNCHANGED vars
       \/ /\ status[a] = "InFlight" /\ ExactPendingContext(a)
          /\ UNCHANGED vars
       \/ InterruptedBeforeDispatch(a) /\ FailAttempt(a, TRUE)
       \/ /\ \/ status[a] = "InFlight" /\ a \notin dispatchReady
             \/ status[a] = "CancellationRequested"
          /\ turnsStarted[a] > 0
          /\ MarkAttemptUnknown(a)
    /\ LogOnly

\* Mutant: a paused attempt is not made active again.
NothingPaused == None

\* recover_active_attempt: the newest paused attempt of the session.
NewestPaused ==
    LET paused == {n \in DOMAIN order : status[order[n]] = "AwaitingTools"}
    IN  IF paused = {} THEN None
        ELSE order[CHOOSE n \in paused : \A m \in paused : m <= n]

PausedRuns == {a \in Attempts : status[a] = "AwaitingTools"}

\* The process opens its current session with the newest paused attempt active,
\* or another one; open_session then shows this session with no active attempt.
\* A paused run that is not active is stranded: one of an opened session, and
\* one that such a run has left behind.
Boot(mode) ==
    /\ phase = "recovering" /\ todo = <<>>
    /\ phase' = "up"
    /\ provider' \in ProviderAtStart
    /\ active' = IF mode = "current" THEN NewestPaused ELSE None
    /\ stranded' = IF mode = "opened" \/ stranded # {}
                     THEN PausedRuns \ {active'} ELSE {}
    /\ Return(IF provider' \/ mode = "opened" THEN ResumeSteps ELSE <<>>)
    /\ UNCHANGED <<vars, order, slots, guarded, cancelled, taskVars, sent, ran,
                   committed, boundVars>>

-----------------------------------------------------------------------------

HandlerStep ==
    \/ \E a \in Attempts :
          \/ CancelCalls(a) \/ Configure(a) \/ Start(a) \/ Bind(a)
          \/ Dispatch(a) \/ Spawn(a) \/ Settle(a) \/ Fail(a) \/ Abort(a)
    \/ \E c \in Calls :
          \/ Permission(c) \/ Deny(c) \/ StartCall(c) \/ Launch(c)
          \/ Propose(c) \/ Proposed(c)
    \/ MaybeResume
    \/ AfterTool

UserIntent ==
    \/ CreateOrSelect
    \/ EditSession
    \/ \E i \in Inputs, a \in Attempts : SubmitPrompt(i, a)
    \/ \E prior, a \in Attempts : RetryAttempt(prior, a)
    \/ \E a \in Attempts : Cancel(a)
    \/ \E c \in Calls, given \in {"AllowOnce", "Deny"} :
          AnswerPermission(c, given)
    \/ SubmitCredential

StreamEnds(a) ==
    StreamPaused(a) \/ StreamCompleted(a) \/ StreamEnded(a) \/ StreamDropped(a)

StreamStep(a) ==
    \/ StreamOutput(a)
    \/ \E c \in Calls : StreamCall(a, c)
    \/ StreamEnds(a)

CatalogStep == CatalogRefused \/ \E a \in Attempts : ResumeBound(a)

RecoveryStep ==
    \/ RecoverCalls
    \/ \E a \in Attempts : RecoverAttempt(a)
    \/ \E mode \in RestartModes : Boot(mode)

CoordNext ==
    \/ HandlerStep
    \/ UserIntent
    \/ \E a \in Attempts : StreamStep(a)
    \/ \E c \in Calls : ToolResult(c)
    \/ CatalogStep
    \/ Crash
    \/ Restart
    \/ RecoveryStep

CoordSpec == CoordInit /\ [][CoordNext]_allVars

\* The coordinator task keeps running its handler; a stream whose token is
\* cancelled reaches a terminal event (the adapters and limit_stream select on
\* the token); a tool execution returns (ToolRuntime::execute has a deadline and
\* listens to the token); recovery runs to its end. Messages are ready only
\* between handlers, and tokio::select! picks a ready branch at random, so a
\* waiting message is not passed over for ever: strong fairness. Nothing is
\* assumed of a stream that is not cancelled: limit_stream restarts its idle
\* deadline at every event, and the launch-time Gemini adapter has none.
FairSpec ==
    /\ CoordSpec
    /\ WF_allVars(HandlerStep)
    /\ \A a \in Attempts : SF_allVars(a \in cancelled /\ StreamEnds(a))
    /\ \A c \in Calls : SF_allVars(ToolResult(c))
    /\ WF_allVars(RecoveryStep)

\* The same with a user who answers every permission request.
AnsweredSpec ==
    /\ FairSpec
    /\ \A c \in Calls :
          WF_allVars(\E given \in {"AllowOnce", "Deny"} :
                        AnswerPermission(c, given))

-----------------------------------------------------------------------------
(* Properties.                                                             *)

\* The coordinator's own state is well formed.
CoordTypeOK ==
    /\ phase \in {"up", "recovering", "down", "stopped"}
    /\ active \in Attempts \cup {None}
    /\ slots \in 0 .. MaxConcurrency
    /\ guarded \in BOOLEAN /\ provider \in BOOLEAN
    /\ cancelled \subseteq Attempts
    /\ stream \in [Attempts -> {"closed", "open", "called", "lost"}]
    /\ runner \in [Calls -> Attempts \cup {None}]
    /\ sent \in [Attempts -> Nat]
    /\ ran \in [Calls -> Nat]
    /\ committed \subseteq ProposalCalls
    /\ stranded \subseteq Attempts

\* No provider request is repeated and none is forgotten: an attempt sends at
\* most one request per durable turn, across crashes too, and a request whose
\* outcome was lost with the process leaves its attempt Unknown once recovery
\* is over, never failed, cancelled or completed.
ProviderRequestsAccounted ==
    \A a \in Attempts :
        /\ sent[a] <= turnsStarted[a]
        /\ stream[a] = "lost" =>
              /\ status[a] \in {"InFlight", "CancellationRequested", "Unknown"}
              /\ phase = "up" => status[a] = "Unknown"

\* A tool runs at most once, whatever crashes and restarts do; a call that is
\* recorded as failed, denied or cancelled never ran; and a proposal in the
\* memory ledger belongs to a call that completed or is still to be
\* reconciled.
ToolEffectsAccounted ==
    \A c \in Calls :
        /\ ran[c] <= 1
        /\ callStatus[c] \in {"Failed", "Denied", "Cancelled"} => ran[c] = 0
        /\ c \in committed => callStatus[c] \in {"Running", "Completed"}

\* Between handlers every unsettled attempt is the active one, or a bound turn
\* that startup recovery kept for the next live catalog: nothing else would
\* ever settle it. The exceptions all come from open_session, which shows a
\* paused run without making it active, and from fail_run_budget, which then
\* takes the run that is active instead of such a one.
EveryRunHasAnOwner ==
    Idle =>
        /\ active # None =>
              status[active] \in
                {"InFlight", "AwaitingTools", "CancellationRequested"}
        /\ \A a \in Attempts :
              status[a] \notin SettledAttempt \cup {"Absent"} =>
                \/ active = a
                \/ a \in stranded
                \/ /\ restarts > 0
                   /\ status[a] = "InFlight"
                   /\ PendingBindings(a) # {}

\* Between handlers nothing runs or waits without somebody responsible for it. A
\* running call has a task that will report it; a stream whose run is no longer
\* active was cancelled; so was a tool task, and a pending ask belongs to the
\* active run, except where the run was stranded.
NothingIsOrphaned ==
    Idle =>
        /\ \A c \in Calls : callStatus[c] = "Running" => runner[c] # None
        /\ \A a \in Attempts : Live(a) /\ active # a => a \in cancelled
        /\ \A c \in Calls :
              callAttempt[c] \notin stranded =>
                /\ runner[c] \in {None, active} \cup cancelled
                /\ callStatus[c] = "PermissionPending" => active = callAttempt[c]

\* The in-memory concurrency budget of the active run never forgets one of its
\* running calls, and counts nothing else, through suppressed outputs, refused
\* starts and restarts, unless a stranded run's tool took a slot and kept it.
SlotsCountRunningCalls ==
    Idle /\ active # None =>
        LET running == {c \in CallsOf(active) : callStatus[c] = "Running"}
        IN  /\ Cardinality(running) <= slots
            /\ stranded = {} => Cardinality(running) = slots

\* A refused command stops the coordinator in two cases only, both an answer of
\* the user: a call is allowed whose run is being cancelled, or one of a stranded
\* run while no run is active. (A memory proposal whose commit is ambiguous
\* stops it too; a failure of the store itself ends it between any two commands,
\* which is Crash.)
OnlyAnswersStopIt ==
    [][ phase # "stopped" /\ phase' = "stopped" =>
          \E c \in Calls :
            \/ Now("propose", c)
            \/ /\ Now("startCall", c)
               /\ answer[c] = "AllowOnce"
               /\ status[callAttempt[c]] = "CancellationRequested"
            \/ /\ Now("launch", c)
               /\ active = None /\ callAttempt[c] \in stranded ]_allVars

\* A requested cancellation reaches every effect of the attempt: its stream
\* ends and no tool task holds its token any more.
CancellationReachesEffects ==
    \A a \in Attempts :
        status[a] = "CancellationRequested" ~>
            ~Live(a) /\ \A c \in Calls : runner[c] # a

\* A run does not hang by itself: it is released, or it waits for a person (an
\* unanswered permission, a requested cancellation, a missing credential), or its
\* provider keeps the stream open for ever, which no deadline of the run ends.
RunsDoNotHang ==
    \A a \in Attempts :
        active = a ~>
            \/ active # a
            \/ status[a] = "CancellationRequested"
            \/ ~provider
            \/ \E c \in CallsOf(a) : callStatus[c] = "PermissionPending"
            \/ []Live(a)

\* docs/architecture/OVERVIEW.md, "Completion, failure, or cancellation settles
\* the attempt", for a run cancelled while it waits for a permission answer; a
\* coordinator that stops instead is not counted against it.
CancellationSettlesAskedRun ==
    \A a \in Attempts :
        /\ status[a] = "CancellationRequested"
        /\ \E c \in CallsOf(a) : callStatus[c] = "PermissionPending"
        ~> status[a] \in SettledAttempt \/ phase = "stopped"

\* The same sentence, for a run cancelled while a tool is running and nothing
\* waits for an answer.
CancellationSettlesRunningRun ==
    \A a \in Attempts :
        /\ status[a] = "CancellationRequested"
        /\ \A c \in CallsOf(a) : callStatus[c] # "PermissionPending"
        ~> status[a] \in SettledAttempt \/ phase = "stopped"

\* The comment on open_session: no pending permission can be orphaned. An ask
\* that is still pending has an active attempt, so that its answer is acted on.
NoOrphanedPermission ==
    Idle =>
        \A c \in Calls :
            callStatus[c] = "PermissionPending" => active = callAttempt[c]

=============================================================================
