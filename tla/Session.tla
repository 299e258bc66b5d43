------------------------------- MODULE Session -------------------------------
(***************************************************************************)
(* The session aggregate (crates/autoharness-engine/src/aggregate.rs): the *)
(* state one session's durable events reconstruct, the decision the engine *)
(* takes on each command, and the effect of the events it emits.           *)
(*                                                                         *)
(* Every command appears three times, as it does in the code:              *)
(*   DecideX   the checks of SessionAggregate::decide                      *)
(*   ReplayY   the checks SessionAggregate::apply_one repeats on the       *)
(*             emitted event Y, live and again at every restart            *)
(*   X         the action: decide accepts and the events are applied       *)
(*                                                                         *)
(* Identities (inputs, attempts, calls, context turns) are model values;   *)
(* prompt, response text, usage and tool payloads are abstracted away, but *)
(* the commands that record them still consume a session sequence.         *)
(***************************************************************************)
EXTENDS Integers, FiniteSets

CONSTANTS
    Inputs,        \* InputId
    Attempts,      \* AttemptId
    Calls,         \* ToolCallId
    ContextTurns,  \* ContextTurnId
    Models,        \* ModelRef
    TurnLimits,    \* the RunLimits.max_turns a run may be configured with
    MaxSequence,   \* SessionSequence::MAX
    None           \* Option::None

ASSUME MaxSequenceAssumption == MaxSequence \in Nat
ASSUME TurnLimitsAssumption == TurnLimits \subseteq Nat \ {0}
ASSUME NoneAssumption ==
    /\ None \notin Attempts
    /\ None \notin Models
    /\ None \notin Nat
    /\ None \notin {"Allow", "Ask", "Deny", "AllowOnce"}

SettledAttempt == {"Completed", "Failed", "Cancelled", "Unknown"}
AttemptStatus ==
    {"Prepared", "InFlight", "AwaitingTools", "CancellationRequested"}
        \cup SettledAttempt

SettledCall == {"Completed", "Failed", "Denied", "Cancelled", "Unknown"}
ToolCallStatus ==
    {"Proposed", "PermissionPending", "Authorized", "DeniedPending", "Running"}
        \cup SettledCall

\* What AttemptPrepared fixes for the life of an attempt.
AttemptRequest ==
    [ input   : Inputs \cup {None},
      model   : Models \cup {None},
      retryOf : Attempts \cup {None} ]

\* Sequence 0 is a context turn that no event has bound.
ContextTurnBinding ==
    [ attempt  : Attempts \cup {None},
      runTurn  : Nat,
      sequence : 0 .. MaxSequence ]

VARIABLES
    \* the session
    created,       \* is_created
    archived,      \* is_archived
    titled,        \* title.is_some()
    selectedModel, \* selected_model
    admitted,      \* admitted_input_ids
    promotedBy,    \* AdmittedInput.promoted_by
    \* AttemptProjection, by attempt
    status,        \* "Absent" until AttemptPrepared
    request,       \* input_id, model, retry_of
    retryable,     \* failures whose retry advice is not Never
    maxTurns,      \* run_limits.max_turns
    turnsStarted,
    dispatchReady, \* provider_dispatch_ready
    \* ToolCallProjection, by call
    callStatus,    \* "Absent" until ToolCallProposed
    callAttempt,   \* attempt_id
    policy,        \* policy_decision
    answer,        \* human_answer
    \* context_turn_bindings of every attempt, by context turn
    binding,
    lastSequence   \* last_sequence, 0 before the first event

sessionVars == <<created, archived, titled, selectedModel, admitted, promotedBy>>
attemptVars ==
    <<status, request, retryable, maxTurns, turnsStarted, dispatchReady>>
callVars == <<callStatus, callAttempt, policy, answer>>
vars == <<sessionVars, attemptVars, callVars, binding, lastSequence>>

NoRequest == [input |-> None, model |-> None, retryOf |-> None]
Unbound == [attempt |-> None, runTurn |-> 0, sequence |-> 0]

\* SessionAggregate::empty
Init ==
    /\ created = FALSE
    /\ archived = FALSE
    /\ titled = FALSE
    /\ selectedModel = None
    /\ admitted = {}
    /\ promotedBy = [i \in Inputs |-> None]
    /\ status = [a \in Attempts |-> "Absent"]
    /\ request = [a \in Attempts |-> NoRequest]
    /\ retryable = {}
    /\ maxTurns = [a \in Attempts |-> None]
    /\ turnsStarted = [a \in Attempts |-> 0]
    /\ dispatchReady = {}
    /\ callStatus = [c \in Calls |-> "Absent"]
    /\ callAttempt = [c \in Calls |-> None]
    /\ policy = [c \in Calls |-> None]
    /\ answer = [c \in Calls |-> None]
    /\ binding = [t \in ContextTurns |-> Unbound]
    /\ lastSequence = 0

-----------------------------------------------------------------------------
(* What the aggregate answers about itself.                                *)

CallsOf(a) == {c \in Calls : callAttempt[c] = a}
CallsSettled(a) == \A c \in CallsOf(a) : callStatus[c] \in SettledCall

NextTurn(a) == turnsStarted[a] + 1

\* pending_context_turn: bindings are pushed in turn order, so the last one
\* is the one for the next turn exactly when such a binding exists.
PendingBindings(a) ==
    {t \in ContextTurns :
        binding[t].attempt = a /\ binding[t].runTurn = NextTurn(a)}

WithinTurnLimit(a) ==
    maxTurns[a] # None => NextTurn(a) <= maxTurns[a]

CanRetry(a) ==
    \/ status[a] = "Failed" /\ a \in retryable
    \/ status[a] \in {"Cancelled", "Unknown"}

AutomaticallyTitles == admitted = {} /\ ~titled

\* require_attempt_status, require_tool_call_status and the archived guard.
AttemptIn(a, allowed) == ~archived /\ status[a] \in allowed
CallIn(c, allowed) == ~archived /\ callStatus[c] \in allowed

\* The events of a command take the next n sequences (engine.rs prepare);
\* SessionSequence::checked_next refuses to pass the maximum.
Commit(n) ==
    /\ lastSequence + n <= MaxSequence
    /\ lastSequence' = lastSequence + n

-----------------------------------------------------------------------------
(* decide: the checks each command passes.                                 *)

DecideCreateSession == ~created
DecideRenameSession == created
DecideArchiveSession ==
    /\ created
    /\ ~archived
    /\ \A a \in Attempts : status[a] \in SettledAttempt \cup {"Absent"}
DecideUnarchiveSession == created /\ archived
DecideSelectModel == ~archived /\ created
DecideAdmitPrompt(i) == ~archived /\ created /\ i \notin admitted
DecideAdmitPromptAndPrepareAttempt(i, a) ==
    /\ DecideAdmitPrompt(i)
    /\ status[a] = "Absent"
    /\ selectedModel # None
DecidePrepareAttempt(a, i, prior) ==
    /\ ~archived /\ created
    /\ status[a] = "Absent"
    /\ i \in admitted
    /\ IF prior # None
         THEN CanRetry(prior) /\ request[prior].input = i
         ELSE promotedBy[i] = None /\ selectedModel # None

DecideStartAttempt(a) == AttemptIn(a, {"Prepared"})
DecideRecordOutput(a) == AttemptIn(a, {"InFlight", "CancellationRequested"})
DecideRequestAttemptCancellation(a) ==
    AttemptIn(a, {"InFlight", "AwaitingTools"})
DecideCompleteAttempt(a) ==
    /\ AttemptIn(a, {"InFlight", "AwaitingTools", "CancellationRequested"})
    /\ CallsSettled(a)
\* Mutant: a failure does not wait for the tool calls.
FailWithOpenCalls(a) ==
    AttemptIn(a, {"Prepared", "InFlight", "AwaitingTools",
                  "CancellationRequested"})
DecideFailAttempt(a) ==
    /\ AttemptIn(a, {"Prepared", "InFlight", "AwaitingTools",
                     "CancellationRequested"})
    /\ CallsSettled(a)
DecideCancelAttempt(a) ==
    AttemptIn(a, {"CancellationRequested"}) /\ CallsSettled(a)
DecideMarkAttemptUnknown(a) ==
    AttemptIn(a, {"InFlight", "CancellationRequested"}) /\ CallsSettled(a)
DecideConfigureRunBudget(a) ==
    AttemptIn(a, {"Prepared"}) /\ maxTurns[a] = None
DecideBindContextTurn(a, t, turn) ==
    /\ AttemptIn(a, {"InFlight"})
    /\ binding[t] = Unbound
    /\ a \in dispatchReady
    /\ turn = NextTurn(a)
    /\ PendingBindings(a) = {}
    /\ WithinTurnLimit(a)
DecideStartRunTurn(a) ==
    /\ AttemptIn(a, {"InFlight"})
    /\ a \in dispatchReady
    /\ \E t \in PendingBindings(a) : binding[t].sequence = lastSequence
    /\ WithinTurnLimit(a)
\* Mutant: pausing does not look at provider_dispatch_ready.
PauseBeforeDispatch(a) ==
    /\ AttemptIn(a, {"InFlight"})
    /\ CallsOf(a) # {}
DecidePauseAttemptForTools(a) ==
    /\ AttemptIn(a, {"InFlight"})
    /\ a \notin dispatchReady
    /\ turnsStarted[a] > 0
    /\ CallsOf(a) # {}
DecideResumeAttemptAfterTools(a) ==
    AttemptIn(a, {"AwaitingTools"}) /\ CallsSettled(a)

DecideProposeToolCall(c, a) ==
    AttemptIn(a, {"InFlight"}) /\ callStatus[c] = "Absent"
DecideRecordToolPermission(c) == CallIn(c, {"Proposed"})
DecideAnswerToolPermission(c) == CallIn(c, {"PermissionPending"})
DecideStartToolCall(c) ==
    /\ CallIn(c, {"Authorized"})
    /\ AttemptIn(callAttempt[c], {"InFlight", "AwaitingTools"})
DecideSettleRunningCall(c) == CallIn(c, {"Running"})
DecideDenyToolCall(c) == CallIn(c, {"DeniedPending"})
DecideCancelToolCall(c) ==
    CallIn(c, {"Proposed", "PermissionPending", "Authorized", "Running"})

-----------------------------------------------------------------------------
(* apply_one: the checks replay makes on each event. They know nothing of  *)
(* the archived guard, of the settled-work guard or of the command; a live *)
(* event has sequence lastSequence + 1.                                    *)

ReplayAttemptPrepared(a, i, prior, model, admittedThen) ==
    /\ created
    /\ status[a] = "Absent"
    /\ i \in admittedThen
    /\ IF prior # None
         THEN /\ CanRetry(prior)
              /\ request[prior].input = i
              /\ request[prior].model = model
         ELSE promotedBy[i] = None /\ selectedModel = model
ReplayAttempt(a, allowed) == status[a] \in allowed
ReplayAttemptSettled(a, allowed) ==
    CallsSettled(a) /\ status[a] \in allowed
ReplayRunBudgetConfigured(a) ==
    maxTurns[a] = None /\ status[a] = "Prepared"
ReplayContextTurnBound(a, t, turn) ==
    /\ created
    /\ binding[t] = Unbound
    /\ status[a] = "InFlight"
    /\ a \in dispatchReady
    /\ turn = NextTurn(a)
    /\ PendingBindings(a) = {}
    /\ WithinTurnLimit(a)
ReplayRunTurnStarted(a, turn, sequence) ==
    /\ a \in dispatchReady
    /\ \E t \in PendingBindings(a) :
          binding[t].runTurn = turn /\ binding[t].sequence + 1 = sequence
    /\ turn = NextTurn(a)
    /\ WithinTurnLimit(a)
    /\ status[a] = "InFlight"
ReplayToolCallProposed(c, a) ==
    created /\ callStatus[c] = "Absent" /\ status[a] = "InFlight"
ReplayToolCall(c, allowed) == callStatus[c] \in allowed
ReplayToolCallStarted(c) ==
    /\ callAttempt[c] \in Attempts
    /\ status[callAttempt[c]] \in {"InFlight", "AwaitingTools"}
    /\ callStatus[c] = "Authorized"
ReplayAttemptPausedForTools(a) ==
    /\ a \notin dispatchReady
    /\ turnsStarted[a] > 0
    /\ CallsOf(a) # {}
    /\ status[a] = "InFlight"

-----------------------------------------------------------------------------
(* Session lifecycle commands.                                             *)

CreateSession ==
    /\ DecideCreateSession
    /\ created' = TRUE
    /\ Commit(1)
    /\ UNCHANGED <<archived, titled, selectedModel, admitted, promotedBy,
                   attemptVars, callVars, binding>>

RenameSession ==
    /\ DecideRenameSession
    /\ titled' = TRUE
    /\ Commit(1)
    /\ UNCHANGED <<created, archived, selectedModel, admitted, promotedBy,
                   attemptVars, callVars, binding>>

ArchiveSession ==
    /\ DecideArchiveSession
    /\ archived' = TRUE
    /\ Commit(1)
    /\ UNCHANGED <<created, titled, selectedModel, admitted, promotedBy,
                   attemptVars, callVars, binding>>

UnarchiveSession ==
    /\ DecideUnarchiveSession
    /\ archived' = FALSE
    /\ Commit(1)
    /\ UNCHANGED <<created, titled, selectedModel, admitted, promotedBy,
                   attemptVars, callVars, binding>>

SelectModel(m) ==
    /\ DecideSelectModel
    /\ selectedModel' = m
    /\ Commit(1)
    /\ UNCHANGED <<created, archived, titled, admitted, promotedBy,
                   attemptVars, callVars, binding>>

\* admit_prompt_events: the first prompt of an untitled session names it,
\* with a second event of the same batch.
AdmitPrompt(i) ==
    /\ DecideAdmitPrompt(i)
    /\ admitted' = admitted \cup {i}
    /\ titled' = (titled \/ AutomaticallyTitles)
    /\ Commit(IF AutomaticallyTitles THEN 2 ELSE 1)
    /\ UNCHANGED <<created, archived, selectedModel, promotedBy,
                   attemptVars, callVars, binding>>

\* AttemptPrepared: a fresh projection, everything else still at its default.
Prepare(a, i, m, prior) ==
    /\ status' = [status EXCEPT ![a] = "Prepared"]
    /\ request' = [request EXCEPT ![a] =
          [input |-> i, model |-> m, retryOf |-> prior]]
    /\ promotedBy' = IF prior # None THEN promotedBy
                                     ELSE [promotedBy EXCEPT ![i] = a]
    /\ UNCHANGED <<retryable, maxTurns, turnsStarted, dispatchReady>>

AdmitPromptAndPrepareAttempt(i, a) ==
    /\ DecideAdmitPromptAndPrepareAttempt(i, a)
    /\ admitted' = admitted \cup {i}
    /\ titled' = (titled \/ AutomaticallyTitles)
    /\ Prepare(a, i, selectedModel, None)
    /\ Commit(IF AutomaticallyTitles THEN 3 ELSE 2)
    /\ UNCHANGED <<created, archived, selectedModel, callVars, binding>>

\* A retry keeps the model of the attempt it repeats and does not promote
\* the input again.
AttemptModel(prior) ==
    IF prior # None THEN request[prior].model ELSE selectedModel

PrepareAttempt(a, i, prior) ==
    /\ DecidePrepareAttempt(a, i, prior)
    /\ Prepare(a, i, AttemptModel(prior), prior)
    /\ Commit(1)
    /\ UNCHANGED <<created, archived, titled, selectedModel, admitted,
                   callVars, binding>>

-----------------------------------------------------------------------------
(* Provider-attempt commands.                                              *)

MoveAttempt(a, to) ==
    /\ status' = [status EXCEPT ![a] = to]
    /\ Commit(1)
    /\ UNCHANGED <<sessionVars, request, maxTurns, turnsStarted, callVars,
                   binding>>

StartAttempt(a) ==
    /\ DecideStartAttempt(a)
    /\ dispatchReady' = dispatchReady \cup {a}
    /\ MoveAttempt(a, "InFlight")
    /\ UNCHANGED retryable

\* AppendAttemptText and RecordAttemptUsage: same guard, and only payloads
\* the model abstracts away are stored.
RecordOutput(a) ==
    /\ DecideRecordOutput(a)
    /\ Commit(1)
    /\ UNCHANGED <<sessionVars, attemptVars, callVars, binding>>

RequestAttemptCancellation(a) ==
    /\ DecideRequestAttemptCancellation(a)
    /\ MoveAttempt(a, "CancellationRequested")
    /\ UNCHANGED <<retryable, dispatchReady>>

CompleteAttempt(a) ==
    /\ DecideCompleteAttempt(a)
    /\ MoveAttempt(a, "Completed")
    /\ UNCHANGED <<retryable, dispatchReady>>

FailAttempt(a, advised) ==
    /\ DecideFailAttempt(a)
    /\ retryable' = IF advised THEN retryable \cup {a} ELSE retryable
    /\ MoveAttempt(a, "Failed")
    /\ UNCHANGED dispatchReady

CancelAttempt(a) ==
    /\ DecideCancelAttempt(a)
    /\ MoveAttempt(a, "Cancelled")
    /\ UNCHANGED <<retryable, dispatchReady>>

MarkAttemptUnknown(a) ==
    /\ DecideMarkAttemptUnknown(a)
    /\ MoveAttempt(a, "Unknown")
    /\ UNCHANGED <<retryable, dispatchReady>>

ConfigureRunBudget(a, limit) ==
    /\ DecideConfigureRunBudget(a)
    /\ maxTurns' = [maxTurns EXCEPT ![a] = limit]
    /\ Commit(1)
    /\ UNCHANGED <<sessionVars, status, request, retryable, turnsStarted,
                   dispatchReady, callVars, binding>>

BindContextTurn(a, t, turn) ==
    /\ DecideBindContextTurn(a, t, turn)
    /\ binding' = [binding EXCEPT ![t] =
          [attempt |-> a, runTurn |-> turn, sequence |-> lastSequence + 1]]
    /\ Commit(1)
    /\ UNCHANGED <<sessionVars, attemptVars, callVars>>

StartRunTurn(a) ==
    /\ DecideStartRunTurn(a)
    /\ turnsStarted' = [turnsStarted EXCEPT ![a] = NextTurn(a)]
    /\ dispatchReady' = dispatchReady \ {a}
    /\ Commit(1)
    /\ UNCHANGED <<sessionVars, status, request, retryable, maxTurns,
                   callVars, binding>>

PauseAttemptForTools(a) ==
    /\ DecidePauseAttemptForTools(a)
    /\ MoveAttempt(a, "AwaitingTools")
    /\ UNCHANGED <<retryable, dispatchReady>>

ResumeAttemptAfterTools(a) ==
    /\ DecideResumeAttemptAfterTools(a)
    /\ dispatchReady' = dispatchReady \cup {a}
    /\ MoveAttempt(a, "InFlight")
    /\ UNCHANGED retryable

-----------------------------------------------------------------------------
(* Tool-call commands.                                                     *)

MoveCall(c, to) ==
    /\ callStatus' = [callStatus EXCEPT ![c] = to]
    /\ Commit(1)
    /\ UNCHANGED <<sessionVars, attemptVars, binding>>

ProposeToolCall(c, a) ==
    /\ DecideProposeToolCall(c, a)
    /\ callAttempt' = [callAttempt EXCEPT ![c] = a]
    /\ MoveCall(c, "Proposed")
    /\ UNCHANGED <<policy, answer>>

PermissionStatus(outcome) ==
    CASE outcome = "Deny"  -> "DeniedPending"
      [] outcome = "Ask"   -> "PermissionPending"
      [] outcome = "Allow" -> "Authorized"

RecordToolPermission(c, outcome) ==
    /\ DecideRecordToolPermission(c)
    /\ policy' = [policy EXCEPT ![c] = outcome]
    /\ MoveCall(c, PermissionStatus(outcome))
    /\ UNCHANGED <<callAttempt, answer>>

AnswerStatus(given) ==
    IF given = "AllowOnce" THEN "Authorized" ELSE "DeniedPending"

AnswerToolPermission(c, given) ==
    /\ DecideAnswerToolPermission(c)
    /\ answer' = [answer EXCEPT ![c] = given]
    /\ MoveCall(c, AnswerStatus(given))
    /\ UNCHANGED <<callAttempt, policy>>

StartToolCall(c) ==
    /\ DecideStartToolCall(c)
    /\ MoveCall(c, "Running")
    /\ UNCHANGED <<callAttempt, policy, answer>>

SettleCall(c, to) == MoveCall(c, to) /\ UNCHANGED <<callAttempt, policy, answer>>

CompleteToolCall(c) == DecideSettleRunningCall(c) /\ SettleCall(c, "Completed")
FailToolCall(c) == DecideSettleRunningCall(c) /\ SettleCall(c, "Failed")
MarkToolCallUnknown(c) == DecideSettleRunningCall(c) /\ SettleCall(c, "Unknown")
DenyToolCall(c) == DecideDenyToolCall(c) /\ SettleCall(c, "Denied")
CancelToolCall(c) == DecideCancelToolCall(c) /\ SettleCall(c, "Cancelled")

-----------------------------------------------------------------------------

LifecycleStep ==
    \/ CreateSession
    \/ RenameSession
    \/ ArchiveSession
    \/ UnarchiveSession
    \/ \E m \in Models : SelectModel(m)
    \/ \E i \in Inputs : AdmitPrompt(i)
    \/ \E i \in Inputs, a \in Attempts : AdmitPromptAndPrepareAttempt(i, a)
    \/ \E a \in Attempts, i \in Inputs, prior \in Attempts \cup {None} :
          PrepareAttempt(a, i, prior)

AttemptStep(a) ==
    \/ StartAttempt(a)
    \/ RecordOutput(a)
    \/ RequestAttemptCancellation(a)
    \/ CompleteAttempt(a)
    \/ \E advised \in BOOLEAN : FailAttempt(a, advised)
    \/ CancelAttempt(a)
    \/ MarkAttemptUnknown(a)
    \/ \E limit \in TurnLimits : ConfigureRunBudget(a, limit)
    \/ \E t \in ContextTurns, turn \in 1 .. NextTurn(a) :
          BindContextTurn(a, t, turn)
    \/ StartRunTurn(a)
    \/ PauseAttemptForTools(a)
    \/ ResumeAttemptAfterTools(a)

ToolStep(c) ==
    \/ \E a \in Attempts : ProposeToolCall(c, a)
    \/ \E outcome \in {"Allow", "Ask", "Deny"} :
          RecordToolPermission(c, outcome)
    \/ \E given \in {"AllowOnce", "Deny"} : AnswerToolPermission(c, given)
    \/ StartToolCall(c)
    \/ CompleteToolCall(c)
    \/ FailToolCall(c)
    \/ MarkToolCallUnknown(c)
    \/ DenyToolCall(c)
    \/ CancelToolCall(c)

Next ==
    \/ LifecycleStep
    \/ \E a \in Attempts : AttemptStep(a)
    \/ \E c \in Calls : ToolStep(c)

Spec == Init /\ [][Next]_vars

-----------------------------------------------------------------------------
(* Properties.                                                             *)

\* The aggregate keeps the shape apply_one gives it.
TypeOK ==
    /\ created \in BOOLEAN
    /\ archived \in BOOLEAN
    /\ titled \in BOOLEAN
    /\ selectedModel \in Models \cup {None}
    /\ admitted \subseteq Inputs
    /\ promotedBy \in [Inputs -> Attempts \cup {None}]
    /\ status \in [Attempts -> AttemptStatus \cup {"Absent"}]
    /\ request \in [Attempts -> AttemptRequest]
    /\ retryable \subseteq Attempts
    /\ maxTurns \in [Attempts -> TurnLimits \cup {None}]
    /\ turnsStarted \in [Attempts -> Nat]
    /\ dispatchReady \subseteq Attempts
    /\ callStatus \in [Calls -> ToolCallStatus \cup {"Absent"}]
    /\ callAttempt \in [Calls -> Attempts \cup {None}]
    /\ policy \in [Calls -> {"Allow", "Ask", "Deny", None}]
    /\ answer \in [Calls -> {"AllowOnce", "Deny", None}]
    /\ binding \in [ContextTurns -> ContextTurnBinding]
    /\ lastSequence \in 0 .. MaxSequence

\* What exists was introduced by an event: nothing precedes creation, an
\* identity is blank until its event, a call belongs to an attempt that
\* exists, and permission evidence follows the call's own lifecycle.
Provenance ==
    /\ ~created => /\ ~archived
                   /\ admitted = {}
                   /\ \A a \in Attempts : status[a] = "Absent"
    /\ \A i \in Inputs : promotedBy[i] # None => i \in admitted
    /\ \A a \in Attempts :
          status[a] = "Absent" =>
            /\ request[a] = NoRequest
            /\ maxTurns[a] = None
            /\ turnsStarted[a] = 0
            /\ a \notin dispatchReady \cup retryable
    /\ \A a \in Attempts : status[a] = "Prepared" => turnsStarted[a] = 0
    /\ \A c \in Calls :
          IF callStatus[c] = "Absent"
            THEN callAttempt[c] = None /\ policy[c] = None /\ answer[c] = None
            ELSE /\ callAttempt[c] \in Attempts
                 /\ status[callAttempt[c]] # "Absent"
    /\ \A c \in Calls :
          /\ callStatus[c] = "Proposed" =>
                policy[c] = None /\ answer[c] = None
          /\ callStatus[c] = "PermissionPending" =>
                policy[c] = "Ask" /\ answer[c] = None

\* A settled attempt has no tool call that may still run: whatever order the
\* provider, the tools and the user act in, require_attempt_tool_calls_settled
\* holds back the settlement, and no call is proposed or started under a
\* settled parent.
SettledAttemptsHaveSettledCalls ==
    \A c \in Calls :
        callStatus[c] \in ToolCallStatus \ SettledCall =>
            /\ callAttempt[c] \in Attempts
            /\ status[callAttempt[c]] \in
                  {"InFlight", "AwaitingTools", "CancellationRequested"}

\* An archived session has no work left: the archive guard looks at attempts
\* only, and still no tool call can be waiting or running behind it.
ArchivedSessionIsQuiet ==
    archived =>
        /\ \A a \in Attempts : status[a] \in SettledAttempt \cup {"Absent"}
        /\ \A c \in Calls : callStatus[c] \in SettledCall \cup {"Absent"}

\* An external effect is never started without durable permission evidence:
\* the policy allowed the call, or it asked and a human allowed it once. A
\* denied call never runs.
PermissionEvidence ==
    \A c \in Calls :
        /\ callStatus[c] \in {"Authorized", "Running", "Completed", "Failed",
                               "Unknown"}
             => \/ policy[c] = "Allow" /\ answer[c] = None
                \/ policy[c] = "Ask" /\ answer[c] = "AllowOnce"
        /\ callStatus[c] \in {"DeniedPending", "Denied"}
             => policy[c] = "Deny" \/ answer[c] = "Deny"

\* Every provider turn of an attempt was dispatched with exactly one durable
\* context binding of its own, at most one binding waits for its dispatch, and
\* the turns stay within the run's configured limit.
ExactContextPerTurn ==
    /\ \A t \in ContextTurns :
          IF binding[t].sequence = 0
            THEN binding[t] = Unbound
            ELSE /\ binding[t].attempt \in Attempts
                 /\ binding[t].runTurn \in 1 .. NextTurn(binding[t].attempt)
                 /\ binding[t].sequence <= lastSequence
    /\ \A t, u \in ContextTurns :
          /\ t # u
          /\ binding[t].sequence # 0
          /\ binding[t].attempt = binding[u].attempt
          => binding[t].runTurn # binding[u].runTurn
    /\ \A a \in Attempts :
          /\ \A n \in 1 .. turnsStarted[a] :
                \E t \in ContextTurns :
                    binding[t].attempt = a /\ binding[t].runTurn = n
          /\ maxTurns[a] # None =>
                turnsStarted[a] <= maxTurns[a]

\* An input is promoted by exactly one first attempt, and every other attempt
\* at it repeats an earlier one of the same input and model that settled
\* without completing: no input is sent to a second model by a retry.
RetryLineage ==
    /\ \A i \in Inputs : \A a \in Attempts :
          promotedBy[i] = a <=> /\ status[a] # "Absent"
                                /\ request[a].input = i
                                /\ request[a].retryOf = None
    /\ \A a \in Attempts :
          status[a] # "Absent" =>
            /\ request[a].input \in admitted
            /\ request[a].model \in Models
            /\ request[a].retryOf # None =>
                 LET prior == request[a].retryOf
                 IN  /\ status[prior] \in {"Failed", "Cancelled", "Unknown"}
                     /\ request[prior].input = request[a].input
                     /\ request[prior].model = request[a].model

\* The session as a whole: whatever order commands arrive in, its parts agree
\* about what settled, what is archived, what a person allowed, which context
\* each turn was sent with and which attempt repeats which (decide). No part is
\* preserved by itself: together they are inductive.
AggregateIsConsistent ==
    /\ TypeOK
    /\ Provenance
    /\ SettledAttemptsHaveSettledCalls
    /\ ArchivedSessionIsQuiet
    /\ PermissionEvidence
    /\ ExactContextPerTurn
    /\ RetryLineage

\* Whatever decide accepts, apply_one accepts: a command is never committed
\* whose events would be refused when the log is replayed at the next start.
\* The two functions check different things (replay knows no archived guard,
\* requires creation where decide does not, and compares adjacency through the
\* event's own sequence).
ReplayAcceptsDecisions ==
    /\ \A i \in Inputs, a \in Attempts :
          DecideAdmitPromptAndPrepareAttempt(i, a) =>
            ReplayAttemptPrepared(a, i, None, selectedModel, admitted \cup {i})
    /\ \A a \in Attempts, i \in Inputs, prior \in Attempts \cup {None} :
          DecidePrepareAttempt(a, i, prior) =>
            ReplayAttemptPrepared(a, i, prior, AttemptModel(prior), admitted)
    /\ \A a \in Attempts :
          /\ DecideStartAttempt(a) => ReplayAttempt(a, {"Prepared"})
          /\ DecideRecordOutput(a) =>
                ReplayAttempt(a, {"InFlight", "CancellationRequested"})
          /\ DecideRequestAttemptCancellation(a) =>
                ReplayAttempt(a, {"InFlight", "AwaitingTools"})
          /\ DecideCompleteAttempt(a) =>
                ReplayAttemptSettled(a, {"InFlight", "AwaitingTools",
                                         "CancellationRequested"})
          /\ DecideFailAttempt(a) =>
                ReplayAttemptSettled(a, {"Prepared", "InFlight",
                    "AwaitingTools", "CancellationRequested"})
          /\ DecideCancelAttempt(a) =>
                ReplayAttemptSettled(a, {"CancellationRequested"})
          /\ DecideMarkAttemptUnknown(a) =>
                ReplayAttemptSettled(a, {"InFlight", "CancellationRequested"})
          /\ DecideConfigureRunBudget(a) => ReplayRunBudgetConfigured(a)
          /\ \A t \in ContextTurns, turn \in 1 .. NextTurn(a) :
                DecideBindContextTurn(a, t, turn) =>
                  ReplayContextTurnBound(a, t, turn)
          /\ DecideStartRunTurn(a) =>
                ReplayRunTurnStarted(a, NextTurn(a), lastSequence + 1)
          /\ DecidePauseAttemptForTools(a) => ReplayAttemptPausedForTools(a)
          /\ DecideResumeAttemptAfterTools(a) =>
                ReplayAttemptSettled(a, {"AwaitingTools"})
    /\ \A c \in Calls :
          /\ \A a \in Attempts :
                DecideProposeToolCall(c, a) => ReplayToolCallProposed(c, a)
          /\ DecideRecordToolPermission(c) => ReplayToolCall(c, {"Proposed"})
          /\ DecideAnswerToolPermission(c) =>
                ReplayToolCall(c, {"PermissionPending"})
          /\ DecideStartToolCall(c) => ReplayToolCallStarted(c)
          /\ DecideSettleRunningCall(c) => ReplayToolCall(c, {"Running"})
          /\ DecideDenyToolCall(c) => ReplayToolCall(c, {"DeniedPending"})
          /\ DecideCancelToolCall(c) =>
                ReplayToolCall(c, {"Proposed", "PermissionPending",
                                   "Authorized", "Running"})

\* A settled attempt and a settled call are history: no later command changes
\* them, and the binding a turn was dispatched with is never replaced.
HistoryStep ==
    /\ \A a \in Attempts :
          status[a] \in SettledAttempt =>
            /\ status'[a] = status[a]
            /\ request'[a] = request[a]
            /\ turnsStarted'[a] = turnsStarted[a]
    /\ \A c \in Calls :
          callStatus[c] \in SettledCall =>
            /\ callStatus'[c] = callStatus[c]
            /\ callAttempt'[c] = callAttempt[c]
            /\ policy'[c] = policy[c] /\ answer'[c] = answer[c]
    /\ \A t \in ContextTurns :
          binding[t] # Unbound => binding'[t] = binding[t]
HistoryIsFinal == [][HistoryStep]_vars

=============================================================================
