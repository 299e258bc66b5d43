-------------------------- MODULE Coordinator_proof --------------------------
(***************************************************************************)
(* The theorems of the session, of its store and of its readers, and, on   *)
(* top of them, those of the coordinator.                                  *)
(*                                                                         *)
(* Part one is about Session, SessionStore and SessionReads, for every set *)
(* of identities, every set of turn limits and every sequence bound.       *)
(* Session's step lemmas come in threes, one per group of commands of      *)
(* SessionAggregate::decide (lifecycle, provider attempt, tool call); IInv *)
(* is their conjunction, and the theorems about Spec follow from IInv.     *)
(* Each action of the store is an action of the aggregate with more        *)
(* guards, so the invariants of Session carry over; with them, the rows    *)
(* are shown to mirror the aggregate, and from that follow the theorems    *)
(* about what the store accepts and what deletion may erase. Every step of *)
(* the readers is a step of the store in turn: RowsInv says what the       *)
(* columns and the stream check hold in terms of the rows, FactsInv that   *)
(* compaction's machine is a function of the aggregate.                    *)
(*                                                                         *)
(* Part two is about Coordinator, with two inductive invariants.           *)
(*                                                                         *)
(* EffectIInv holds for every restart mode: the session's own invariant    *)
(* (every step of the coordinator is a step of Session), the shape of the  *)
(* handlers (Control), and what a handler's step may rely on when its turn *)
(* comes (EffectFacts). It gives the bounds on provider requests and on    *)
(* tool executions.                                                        *)
(*                                                                         *)
(* OwnerIInv adds who is responsible for an unsettled run, a task or a     *)
(* slot, in the session the process opens and in one opened later through  *)
(* open_session, where a paused run is stranded.                           *)
(***************************************************************************)
EXTENDS Coordinator, SessionReads, SequenceTheorems, FiniteSetTheorems,
        WellFoundedInduction, TLAPS

-----------------------------------------------------------------------------
(* Part one: the session, its store and its readers.                       *)


\* SessionAggregate::empty is well formed.
LEMMA TypeInit == Init => TypeOK
<1> SUFFICES ASSUME Init PROVE TypeOK
  OBVIOUS
<1>1. /\ created \in BOOLEAN /\ archived \in BOOLEAN /\ titled \in BOOLEAN
      /\ selectedModel \in Models \cup {None}
      /\ admitted \subseteq Inputs
      /\ promotedBy \in [Inputs -> Attempts \cup {None}]
  BY DEF Init
<1>2. /\ status \in [Attempts -> AttemptStatus \cup {"Absent"}]
      /\ request \in [Attempts -> AttemptRequest]
      /\ retryable \subseteq Attempts
      /\ maxTurns \in [Attempts -> TurnLimits \cup {None}]
      /\ turnsStarted \in [Attempts -> Nat]
      /\ dispatchReady \subseteq Attempts
  BY DEF Init, NoRequest, AttemptRequest
<1>3. /\ callStatus \in [Calls -> ToolCallStatus \cup {"Absent"}]
      /\ callAttempt \in [Calls -> Attempts \cup {None}]
      /\ policy \in [Calls -> {"Allow", "Ask", "Deny", None}]
      /\ answer \in [Calls -> {"AllowOnce", "Deny", None}]
  BY DEF Init
<1>4. /\ binding \in [ContextTurns -> ContextTurnBinding]
      /\ lastSequence \in 0 .. MaxSequence
  BY MaxSequenceAssumption DEF Init, Unbound, ContextTurnBinding
<1> QED
  BY <1>1, <1>2, <1>3, <1>4 DEF TypeOK

\* The session-lifecycle commands keep every projection well formed.
LEMMA LifecycleType == TypeOK /\ LifecycleStep => TypeOK'
<1> SUFFICES ASSUME TypeOK, LifecycleStep PROVE TypeOK'
  OBVIOUS
<1> USE MaxSequenceAssumption DEF TypeOK, Commit, attemptVars, callVars
<1>1. CASE CreateSession
  BY <1>1 DEF CreateSession
<1>2. CASE RenameSession
  BY <1>2 DEF RenameSession
<1>3. CASE ArchiveSession
  BY <1>3 DEF ArchiveSession
<1>4. CASE UnarchiveSession
  <2>1. archived' \in BOOLEAN
    BY <1>4 DEF UnarchiveSession
  <2> QED
    BY <1>4, <2>1 DEF UnarchiveSession
<1>5. ASSUME NEW m \in Models, SelectModel(m) PROVE TypeOK'
  BY <1>5 DEF SelectModel
<1>6. ASSUME NEW i \in Inputs, AdmitPrompt(i) PROVE TypeOK'
  BY <1>6 DEF AdmitPrompt, AutomaticallyTitles
<1>7. ASSUME NEW i \in Inputs, NEW a \in Attempts,
             AdmitPromptAndPrepareAttempt(i, a)
      PROVE  TypeOK'
  BY <1>7 DEF AdmitPromptAndPrepareAttempt, AutomaticallyTitles, Prepare,
              AttemptRequest, AttemptStatus
<1>8. ASSUME NEW a \in Attempts, NEW i \in Inputs,
             NEW prior \in Attempts \cup {None}, PrepareAttempt(a, i, prior)
      PROVE  TypeOK'
  BY <1>8 DEF PrepareAttempt, Prepare, AttemptModel, AttemptRequest,
              AttemptStatus
<1> QED
  BY <1>1, <1>2, <1>3, <1>4, <1>5, <1>6, <1>7, <1>8 DEF LifecycleStep

\* The provider-attempt commands keep every projection well formed.
LEMMA AttemptType ==
  ASSUME NEW a \in Attempts PROVE TypeOK /\ AttemptStep(a) => TypeOK'
<1> SUFFICES ASSUME TypeOK, AttemptStep(a) PROVE TypeOK'
  OBVIOUS
<1> USE MaxSequenceAssumption
    DEF TypeOK, Commit, sessionVars, attemptVars, callVars, MoveAttempt,
        AttemptStatus, SettledAttempt
<1>1. CASE StartAttempt(a)
  BY <1>1 DEF StartAttempt
<1>2. CASE RecordOutput(a)
  BY <1>2 DEF RecordOutput
<1>3. CASE RequestAttemptCancellation(a)
  BY <1>3 DEF RequestAttemptCancellation
<1>4. CASE CompleteAttempt(a)
  BY <1>4 DEF CompleteAttempt
<1>5. ASSUME NEW advised \in BOOLEAN, FailAttempt(a, advised)
      PROVE  TypeOK'
  BY <1>5 DEF FailAttempt
<1>6. CASE CancelAttempt(a)
  BY <1>6 DEF CancelAttempt
<1>7. CASE MarkAttemptUnknown(a)
  BY <1>7 DEF MarkAttemptUnknown
<1>8. ASSUME NEW limit \in TurnLimits, ConfigureRunBudget(a, limit)
      PROVE  TypeOK'
  BY <1>8 DEF ConfigureRunBudget
<1>9. ASSUME NEW t \in ContextTurns, NEW turn \in 1 .. NextTurn(a),
             BindContextTurn(a, t, turn)
      PROVE  TypeOK'
  BY <1>9 DEF BindContextTurn, ContextTurnBinding, NextTurn
<1>10. CASE StartRunTurn(a)
  BY <1>10 DEF StartRunTurn, NextTurn
<1>11. CASE PauseAttemptForTools(a)
  BY <1>11 DEF PauseAttemptForTools
<1>12. CASE ResumeAttemptAfterTools(a)
  BY <1>12 DEF ResumeAttemptAfterTools
<1> QED
  BY <1>1, <1>2, <1>3, <1>4, <1>5, <1>6, <1>7, <1>8, <1>9, <1>10, <1>11,
     <1>12 DEF AttemptStep

\* The tool-call commands keep every projection well formed.
LEMMA ToolType ==
  ASSUME NEW c \in Calls PROVE TypeOK /\ ToolStep(c) => TypeOK'
<1> SUFFICES ASSUME TypeOK, ToolStep(c) PROVE TypeOK'
  OBVIOUS
<1> USE MaxSequenceAssumption
    DEF TypeOK, Commit, sessionVars, attemptVars, MoveCall, SettleCall,
        ToolCallStatus, SettledCall
<1>1. ASSUME NEW a \in Attempts, ProposeToolCall(c, a) PROVE TypeOK'
  BY <1>1 DEF ProposeToolCall
<1>2. ASSUME NEW outcome \in {"Allow", "Ask", "Deny"},
             RecordToolPermission(c, outcome)
      PROVE  TypeOK'
  BY <1>2 DEF RecordToolPermission, PermissionStatus
<1>3. ASSUME NEW given \in {"AllowOnce", "Deny"},
             AnswerToolPermission(c, given)
      PROVE  TypeOK'
  BY <1>3 DEF AnswerToolPermission, AnswerStatus
<1>4. CASE StartToolCall(c)
  BY <1>4 DEF StartToolCall
<1>5. CASE CompleteToolCall(c)
  BY <1>5 DEF CompleteToolCall
<1>6. CASE FailToolCall(c)
  BY <1>6 DEF FailToolCall
<1>7. CASE MarkToolCallUnknown(c)
  BY <1>7 DEF MarkToolCallUnknown
<1>8. CASE DenyToolCall(c)
  BY <1>8 DEF DenyToolCall
<1>9. CASE CancelToolCall(c)
  BY <1>9 DEF CancelToolCall
<1> QED
  BY <1>1, <1>2, <1>3, <1>4, <1>5, <1>6, <1>7, <1>8, <1>9 DEF ToolStep

\* Type correctness of the aggregate (apply_one keeps every projection well
\* formed), for any number of attempts, calls and context turns.
THEOREM TypeCorrect == Spec => []TypeOK
<1>1. TypeOK /\ [Next]_vars => TypeOK'
  <2> SUFFICES ASSUME TypeOK, [Next]_vars PROVE TypeOK'
    OBVIOUS
  <2>1. CASE LifecycleStep
    BY <2>1, LifecycleType
  <2>2. CASE \E a \in Attempts : AttemptStep(a)
    BY <2>2, AttemptType
  <2>3. CASE \E c \in Calls : ToolStep(c)
    BY <2>3, ToolType
  <2>4. CASE UNCHANGED vars
    BY <2>4 DEF vars, sessionVars, attemptVars, callVars, TypeOK
  <2> QED
    BY <2>1, <2>2, <2>3, <2>4 DEF Next
<1> QED
  BY <1>1, TypeInit, PTL DEF Spec

-----------------------------------------------------------------------------
(* Provenance.                                                             *)

\* Everything in the aggregate was introduced by an event. It survives
\* the session-lifecycle commands.
LEMMA LifecycleProvenance ==
  ASSUME TypeOK, Provenance, LifecycleStep
  PROVE  Provenance'
<1> USE NoneAssumption DEF TypeOK, Provenance, Commit, NoRequest,
    AutomaticallyTitles, attemptVars, callVars, sessionVars, AttemptIn,
    CallIn, MoveAttempt, MoveCall, SettleCall, AttemptStatus,
    SettledAttempt, ToolCallStatus, SettledCall
<1>1. CASE CreateSession
  BY <1>1 DEF CreateSession, DecideCreateSession
<1>2. CASE RenameSession
  BY <1>2 DEF RenameSession, DecideRenameSession
<1>3. CASE ArchiveSession
  BY <1>3 DEF ArchiveSession, DecideArchiveSession
<1>4. CASE UnarchiveSession
  BY <1>4 DEF UnarchiveSession, DecideUnarchiveSession
<1>5. ASSUME NEW m \in Models, SelectModel(m) PROVE Provenance'
  BY <1>5 DEF SelectModel, DecideSelectModel
<1>6. ASSUME NEW i \in Inputs, AdmitPrompt(i) PROVE Provenance'
  BY <1>6 DEF AdmitPrompt, DecideAdmitPrompt
<1>7. ASSUME NEW i \in Inputs, NEW a \in Attempts,
             AdmitPromptAndPrepareAttempt(i, a)
      PROVE  Provenance'
  BY <1>7 DEF AdmitPromptAndPrepareAttempt,
              DecideAdmitPromptAndPrepareAttempt, DecideAdmitPrompt, Prepare
<1>8. ASSUME NEW a \in Attempts, NEW i \in Inputs,
             NEW prior \in Attempts \cup {None}, PrepareAttempt(a, i, prior)
      PROVE  Provenance'
  BY <1>8 DEF PrepareAttempt, DecidePrepareAttempt, Prepare, AttemptModel, CanRetry
<1> QED
  BY <1>1, <1>2, <1>3, <1>4, <1>5, <1>6, <1>7, <1>8 DEF LifecycleStep

\* Everything in the aggregate was introduced by an event. It survives
\* the provider-attempt commands.
LEMMA AttemptProvenance ==
  ASSUME NEW a \in Attempts, TypeOK, Provenance, AttemptStep(a)
  PROVE  Provenance'
<1> USE NoneAssumption DEF TypeOK, Provenance, Commit, NoRequest,
    AutomaticallyTitles, attemptVars, callVars, sessionVars, AttemptIn,
    CallIn, MoveAttempt, MoveCall, SettleCall, AttemptStatus,
    SettledAttempt, ToolCallStatus, SettledCall
<1>1. CASE StartAttempt(a)
  BY <1>1 DEF StartAttempt, DecideStartAttempt
<1>2. CASE RecordOutput(a)
  BY <1>2 DEF RecordOutput, DecideRecordOutput
<1>3. CASE RequestAttemptCancellation(a)
  BY <1>3 DEF RequestAttemptCancellation,
              DecideRequestAttemptCancellation
<1>4. CASE CompleteAttempt(a)
  BY <1>4 DEF CompleteAttempt, DecideCompleteAttempt
<1>5. ASSUME NEW advised \in BOOLEAN, FailAttempt(a, advised)
      PROVE  Provenance'
  BY <1>5 DEF FailAttempt, DecideFailAttempt
<1>6. CASE CancelAttempt(a)
  BY <1>6 DEF CancelAttempt, DecideCancelAttempt
<1>7. CASE MarkAttemptUnknown(a)
  BY <1>7 DEF MarkAttemptUnknown, DecideMarkAttemptUnknown
<1>8. ASSUME NEW limit \in TurnLimits, ConfigureRunBudget(a, limit)
      PROVE  Provenance'
  BY <1>8 DEF ConfigureRunBudget, DecideConfigureRunBudget
<1>9. ASSUME NEW t \in ContextTurns, NEW turn \in 1 .. NextTurn(a),
             BindContextTurn(a, t, turn)
      PROVE  Provenance'
  BY <1>9 DEF BindContextTurn, DecideBindContextTurn
<1>10. CASE StartRunTurn(a)
  BY <1>10 DEF StartRunTurn, DecideStartRunTurn
<1>11. CASE PauseAttemptForTools(a)
  BY <1>11 DEF PauseAttemptForTools, DecidePauseAttemptForTools
<1>12. CASE ResumeAttemptAfterTools(a)
  BY <1>12 DEF ResumeAttemptAfterTools,
              DecideResumeAttemptAfterTools
<1> QED
  BY <1>1, <1>2, <1>3, <1>4, <1>5, <1>6, <1>7, <1>8, <1>9, <1>10, <1>11, <1>12 DEF AttemptStep

\* Everything in the aggregate was introduced by an event. It survives
\* the tool-call commands.
LEMMA ToolProvenance ==
  ASSUME NEW c \in Calls, TypeOK, Provenance, ToolStep(c)
  PROVE  Provenance'
<1> USE NoneAssumption DEF TypeOK, Provenance, Commit, NoRequest,
    AutomaticallyTitles, attemptVars, callVars, sessionVars, AttemptIn,
    CallIn, MoveAttempt, MoveCall, SettleCall, AttemptStatus,
    SettledAttempt, ToolCallStatus, SettledCall
<1>1. ASSUME NEW a \in Attempts, ProposeToolCall(c, a) PROVE Provenance'
  BY <1>1 DEF ProposeToolCall, DecideProposeToolCall
<1>2. ASSUME NEW outcome \in {"Allow", "Ask", "Deny"},
             RecordToolPermission(c, outcome)
      PROVE  Provenance'
  BY <1>2 DEF RecordToolPermission, DecideRecordToolPermission,
              PermissionStatus
<1>3. ASSUME NEW given \in {"AllowOnce", "Deny"},
             AnswerToolPermission(c, given)
      PROVE  Provenance'
  BY <1>3 DEF AnswerToolPermission, DecideAnswerToolPermission,
              AnswerStatus
<1>4. CASE StartToolCall(c)
  BY <1>4 DEF StartToolCall, DecideStartToolCall
<1>5. CASE CompleteToolCall(c)
  BY <1>5 DEF CompleteToolCall, DecideSettleRunningCall
<1>6. CASE FailToolCall(c)
  BY <1>6 DEF FailToolCall, DecideSettleRunningCall
<1>7. CASE MarkToolCallUnknown(c)
  BY <1>7 DEF MarkToolCallUnknown, DecideSettleRunningCall
<1>8. CASE DenyToolCall(c)
  BY <1>8 DEF DenyToolCall, DecideDenyToolCall
<1>9. CASE CancelToolCall(c)
  BY <1>9 DEF CancelToolCall, DecideCancelToolCall
<1> QED
  BY <1>1, <1>2, <1>3, <1>4, <1>5, <1>6, <1>7, <1>8, <1>9 DEF ToolStep

-----------------------------------------------------------------------------
(* Settled attempts.                                                       *)

\* No tool call is left open under a settled attempt. It survives the
\* session-lifecycle commands.
LEMMA LifecycleSettledCalls ==
  ASSUME TypeOK, Provenance, SettledAttemptsHaveSettledCalls, LifecycleStep
  PROVE  SettledAttemptsHaveSettledCalls'
<1> USE NoneAssumption DEF TypeOK, Provenance,
    SettledAttemptsHaveSettledCalls, CallsSettled, CallsOf, attemptVars,
    callVars, sessionVars, AttemptIn, CallIn, MoveAttempt, MoveCall,
    SettleCall, AttemptStatus, SettledAttempt, ToolCallStatus, SettledCall
<1>1. CASE CreateSession
  BY <1>1 DEF CreateSession, DecideCreateSession
<1>2. CASE RenameSession
  BY <1>2 DEF RenameSession, DecideRenameSession
<1>3. CASE ArchiveSession
  BY <1>3 DEF ArchiveSession, DecideArchiveSession
<1>4. CASE UnarchiveSession
  BY <1>4 DEF UnarchiveSession, DecideUnarchiveSession
<1>5. ASSUME NEW m \in Models, SelectModel(m) PROVE SettledAttemptsHaveSettledCalls'
  BY <1>5 DEF SelectModel, DecideSelectModel
<1>6. ASSUME NEW i \in Inputs, AdmitPrompt(i) PROVE SettledAttemptsHaveSettledCalls'
  BY <1>6 DEF AdmitPrompt, DecideAdmitPrompt
<1>7. ASSUME NEW i \in Inputs, NEW a \in Attempts,
             AdmitPromptAndPrepareAttempt(i, a)
      PROVE  SettledAttemptsHaveSettledCalls'
  BY <1>7 DEF AdmitPromptAndPrepareAttempt,
              DecideAdmitPromptAndPrepareAttempt, DecideAdmitPrompt, Prepare
<1>8. ASSUME NEW a \in Attempts, NEW i \in Inputs,
             NEW prior \in Attempts \cup {None}, PrepareAttempt(a, i, prior)
      PROVE  SettledAttemptsHaveSettledCalls'
  BY <1>8 DEF PrepareAttempt, DecidePrepareAttempt, Prepare, AttemptModel, CanRetry
<1> QED
  BY <1>1, <1>2, <1>3, <1>4, <1>5, <1>6, <1>7, <1>8 DEF LifecycleStep

\* No tool call is left open under a settled attempt. It survives the
\* provider-attempt commands.
LEMMA AttemptSettledCalls ==
  ASSUME NEW a \in Attempts, TypeOK, Provenance, SettledAttemptsHaveSettledCalls, AttemptStep(a)
  PROVE  SettledAttemptsHaveSettledCalls'
<1> USE NoneAssumption DEF TypeOK, Provenance,
    SettledAttemptsHaveSettledCalls, CallsSettled, CallsOf, attemptVars,
    callVars, sessionVars, AttemptIn, CallIn, MoveAttempt, MoveCall,
    SettleCall, AttemptStatus, SettledAttempt, ToolCallStatus, SettledCall
<1>1. CASE StartAttempt(a)
  BY <1>1 DEF StartAttempt, DecideStartAttempt
<1>2. CASE RecordOutput(a)
  BY <1>2 DEF RecordOutput, DecideRecordOutput
<1>3. CASE RequestAttemptCancellation(a)
  BY <1>3 DEF RequestAttemptCancellation,
              DecideRequestAttemptCancellation
<1>4. CASE CompleteAttempt(a)
  BY <1>4 DEF CompleteAttempt, DecideCompleteAttempt
<1>5. ASSUME NEW advised \in BOOLEAN, FailAttempt(a, advised)
      PROVE  SettledAttemptsHaveSettledCalls'
  BY <1>5 DEF FailAttempt, DecideFailAttempt
<1>6. CASE CancelAttempt(a)
  BY <1>6 DEF CancelAttempt, DecideCancelAttempt
<1>7. CASE MarkAttemptUnknown(a)
  BY <1>7 DEF MarkAttemptUnknown, DecideMarkAttemptUnknown
<1>8. ASSUME NEW limit \in TurnLimits, ConfigureRunBudget(a, limit)
      PROVE  SettledAttemptsHaveSettledCalls'
  BY <1>8 DEF ConfigureRunBudget, DecideConfigureRunBudget
<1>9. ASSUME NEW t \in ContextTurns, NEW turn \in 1 .. NextTurn(a),
             BindContextTurn(a, t, turn)
      PROVE  SettledAttemptsHaveSettledCalls'
  BY <1>9 DEF BindContextTurn, DecideBindContextTurn
<1>10. CASE StartRunTurn(a)
  BY <1>10 DEF StartRunTurn, DecideStartRunTurn
<1>11. CASE PauseAttemptForTools(a)
  BY <1>11 DEF PauseAttemptForTools, DecidePauseAttemptForTools
<1>12. CASE ResumeAttemptAfterTools(a)
  BY <1>12 DEF ResumeAttemptAfterTools,
              DecideResumeAttemptAfterTools
<1> QED
  BY <1>1, <1>2, <1>3, <1>4, <1>5, <1>6, <1>7, <1>8, <1>9, <1>10, <1>11, <1>12 DEF AttemptStep

\* No tool call is left open under a settled attempt. It survives the
\* tool-call commands.
LEMMA ToolSettledCalls ==
  ASSUME NEW c \in Calls, TypeOK, Provenance, SettledAttemptsHaveSettledCalls, ToolStep(c)
  PROVE  SettledAttemptsHaveSettledCalls'
<1> USE NoneAssumption DEF TypeOK, Provenance,
    SettledAttemptsHaveSettledCalls, CallsSettled, CallsOf, attemptVars,
    callVars, sessionVars, AttemptIn, CallIn, MoveAttempt, MoveCall,
    SettleCall, AttemptStatus, SettledAttempt, ToolCallStatus, SettledCall
<1>1. ASSUME NEW a \in Attempts, ProposeToolCall(c, a) PROVE SettledAttemptsHaveSettledCalls'
  BY <1>1 DEF ProposeToolCall, DecideProposeToolCall
<1>2. ASSUME NEW outcome \in {"Allow", "Ask", "Deny"},
             RecordToolPermission(c, outcome)
      PROVE  SettledAttemptsHaveSettledCalls'
  BY <1>2 DEF RecordToolPermission, DecideRecordToolPermission,
              PermissionStatus
<1>3. ASSUME NEW given \in {"AllowOnce", "Deny"},
             AnswerToolPermission(c, given)
      PROVE  SettledAttemptsHaveSettledCalls'
  BY <1>3 DEF AnswerToolPermission, DecideAnswerToolPermission,
              AnswerStatus
<1>4. CASE StartToolCall(c)
  BY <1>4 DEF StartToolCall, DecideStartToolCall
<1>5. CASE CompleteToolCall(c)
  BY <1>5 DEF CompleteToolCall, DecideSettleRunningCall
<1>6. CASE FailToolCall(c)
  BY <1>6 DEF FailToolCall, DecideSettleRunningCall
<1>7. CASE MarkToolCallUnknown(c)
  BY <1>7 DEF MarkToolCallUnknown, DecideSettleRunningCall
<1>8. CASE DenyToolCall(c)
  BY <1>8 DEF DenyToolCall, DecideDenyToolCall
<1>9. CASE CancelToolCall(c)
  BY <1>9 DEF CancelToolCall, DecideCancelToolCall
<1> QED
  BY <1>1, <1>2, <1>3, <1>4, <1>5, <1>6, <1>7, <1>8, <1>9 DEF ToolStep

-----------------------------------------------------------------------------
(* Archived sessions.                                                      *)

\* An archived session has no open attempt and no open call. It survives
\* the session-lifecycle commands.
LEMMA LifecycleArchived ==
  ASSUME TypeOK, Provenance, SettledAttemptsHaveSettledCalls, ArchivedSessionIsQuiet, LifecycleStep
  PROVE  ArchivedSessionIsQuiet'
<1> USE NoneAssumption DEF TypeOK, Provenance,
    SettledAttemptsHaveSettledCalls, ArchivedSessionIsQuiet, attemptVars,
    callVars, sessionVars, AttemptIn, CallIn, MoveAttempt, MoveCall,
    SettleCall, AttemptStatus, SettledAttempt, ToolCallStatus, SettledCall
<1>1. CASE CreateSession
  BY <1>1 DEF CreateSession, DecideCreateSession
<1>2. CASE RenameSession
  BY <1>2 DEF RenameSession, DecideRenameSession
<1>3. CASE ArchiveSession
  BY <1>3 DEF ArchiveSession, DecideArchiveSession
<1>4. CASE UnarchiveSession
  BY <1>4 DEF UnarchiveSession, DecideUnarchiveSession
<1>5. ASSUME NEW m \in Models, SelectModel(m) PROVE ArchivedSessionIsQuiet'
  BY <1>5 DEF SelectModel, DecideSelectModel
<1>6. ASSUME NEW i \in Inputs, AdmitPrompt(i) PROVE ArchivedSessionIsQuiet'
  BY <1>6 DEF AdmitPrompt, DecideAdmitPrompt
<1>7. ASSUME NEW i \in Inputs, NEW a \in Attempts,
             AdmitPromptAndPrepareAttempt(i, a)
      PROVE  ArchivedSessionIsQuiet'
  BY <1>7 DEF AdmitPromptAndPrepareAttempt,
              DecideAdmitPromptAndPrepareAttempt, DecideAdmitPrompt, Prepare
<1>8. ASSUME NEW a \in Attempts, NEW i \in Inputs,
             NEW prior \in Attempts \cup {None}, PrepareAttempt(a, i, prior)
      PROVE  ArchivedSessionIsQuiet'
  BY <1>8 DEF PrepareAttempt, DecidePrepareAttempt, Prepare, AttemptModel, CanRetry
<1> QED
  BY <1>1, <1>2, <1>3, <1>4, <1>5, <1>6, <1>7, <1>8 DEF LifecycleStep

\* An archived session has no open attempt and no open call. It survives
\* the provider-attempt commands.
LEMMA AttemptArchived ==
  ASSUME NEW a \in Attempts, TypeOK, Provenance, SettledAttemptsHaveSettledCalls, ArchivedSessionIsQuiet, AttemptStep(a)
  PROVE  ArchivedSessionIsQuiet'
<1> USE NoneAssumption DEF TypeOK, Provenance,
    SettledAttemptsHaveSettledCalls, ArchivedSessionIsQuiet, attemptVars,
    callVars, sessionVars, AttemptIn, CallIn, MoveAttempt, MoveCall,
    SettleCall, AttemptStatus, SettledAttempt, ToolCallStatus, SettledCall
<1>1. CASE StartAttempt(a)
  BY <1>1 DEF StartAttempt, DecideStartAttempt
<1>2. CASE RecordOutput(a)
  BY <1>2 DEF RecordOutput, DecideRecordOutput
<1>3. CASE RequestAttemptCancellation(a)
  BY <1>3 DEF RequestAttemptCancellation,
              DecideRequestAttemptCancellation
<1>4. CASE CompleteAttempt(a)
  BY <1>4 DEF CompleteAttempt, DecideCompleteAttempt
<1>5. ASSUME NEW advised \in BOOLEAN, FailAttempt(a, advised)
      PROVE  ArchivedSessionIsQuiet'
  BY <1>5 DEF FailAttempt, DecideFailAttempt
<1>6. CASE CancelAttempt(a)
  BY <1>6 DEF CancelAttempt, DecideCancelAttempt
<1>7. CASE MarkAttemptUnknown(a)
  BY <1>7 DEF MarkAttemptUnknown, DecideMarkAttemptUnknown
<1>8. ASSUME NEW limit \in TurnLimits, ConfigureRunBudget(a, limit)
      PROVE  ArchivedSessionIsQuiet'
  BY <1>8 DEF ConfigureRunBudget, DecideConfigureRunBudget
<1>9. ASSUME NEW t \in ContextTurns, NEW turn \in 1 .. NextTurn(a),
             BindContextTurn(a, t, turn)
      PROVE  ArchivedSessionIsQuiet'
  BY <1>9 DEF BindContextTurn, DecideBindContextTurn
<1>10. CASE StartRunTurn(a)
  BY <1>10 DEF StartRunTurn, DecideStartRunTurn
<1>11. CASE PauseAttemptForTools(a)
  BY <1>11 DEF PauseAttemptForTools, DecidePauseAttemptForTools
<1>12. CASE ResumeAttemptAfterTools(a)
  BY <1>12 DEF ResumeAttemptAfterTools,
              DecideResumeAttemptAfterTools
<1> QED
  BY <1>1, <1>2, <1>3, <1>4, <1>5, <1>6, <1>7, <1>8, <1>9, <1>10, <1>11, <1>12 DEF AttemptStep

\* An archived session has no open attempt and no open call. It survives
\* the tool-call commands.
LEMMA ToolArchived ==
  ASSUME NEW c \in Calls, TypeOK, Provenance, SettledAttemptsHaveSettledCalls, ArchivedSessionIsQuiet, ToolStep(c)
  PROVE  ArchivedSessionIsQuiet'
<1> USE NoneAssumption DEF TypeOK, Provenance,
    SettledAttemptsHaveSettledCalls, ArchivedSessionIsQuiet, attemptVars,
    callVars, sessionVars, AttemptIn, CallIn, MoveAttempt, MoveCall,
    SettleCall, AttemptStatus, SettledAttempt, ToolCallStatus, SettledCall
<1>1. ASSUME NEW a \in Attempts, ProposeToolCall(c, a) PROVE ArchivedSessionIsQuiet'
  BY <1>1 DEF ProposeToolCall, DecideProposeToolCall
<1>2. ASSUME NEW outcome \in {"Allow", "Ask", "Deny"},
             RecordToolPermission(c, outcome)
      PROVE  ArchivedSessionIsQuiet'
  BY <1>2 DEF RecordToolPermission, DecideRecordToolPermission,
              PermissionStatus
<1>3. ASSUME NEW given \in {"AllowOnce", "Deny"},
             AnswerToolPermission(c, given)
      PROVE  ArchivedSessionIsQuiet'
  BY <1>3 DEF AnswerToolPermission, DecideAnswerToolPermission,
              AnswerStatus
<1>4. CASE StartToolCall(c)
  BY <1>4 DEF StartToolCall, DecideStartToolCall
<1>5. CASE CompleteToolCall(c)
  BY <1>5 DEF CompleteToolCall, DecideSettleRunningCall
<1>6. CASE FailToolCall(c)
  BY <1>6 DEF FailToolCall, DecideSettleRunningCall
<1>7. CASE MarkToolCallUnknown(c)
  BY <1>7 DEF MarkToolCallUnknown, DecideSettleRunningCall
<1>8. CASE DenyToolCall(c)
  BY <1>8 DEF DenyToolCall, DecideDenyToolCall
<1>9. CASE CancelToolCall(c)
  BY <1>9 DEF CancelToolCall, DecideCancelToolCall
<1> QED
  BY <1>1, <1>2, <1>3, <1>4, <1>5, <1>6, <1>7, <1>8, <1>9 DEF ToolStep

-----------------------------------------------------------------------------
(* Permission evidence.                                                    *)

\* A call that was authorized or ran has its permission on record. It
\* survives the session-lifecycle commands.
LEMMA LifecyclePermission ==
  ASSUME TypeOK, Provenance, PermissionEvidence, LifecycleStep
  PROVE  PermissionEvidence'
<1> USE NoneAssumption DEF TypeOK, Provenance, PermissionEvidence,
    attemptVars, callVars, sessionVars, AttemptIn, CallIn, MoveAttempt,
    MoveCall, SettleCall, AttemptStatus, SettledAttempt, ToolCallStatus,
    SettledCall
<1>1. CASE CreateSession
  BY <1>1 DEF CreateSession, DecideCreateSession
<1>2. CASE RenameSession
  BY <1>2 DEF RenameSession, DecideRenameSession
<1>3. CASE ArchiveSession
  BY <1>3 DEF ArchiveSession, DecideArchiveSession
<1>4. CASE UnarchiveSession
  BY <1>4 DEF UnarchiveSession, DecideUnarchiveSession
<1>5. ASSUME NEW m \in Models, SelectModel(m) PROVE PermissionEvidence'
  BY <1>5 DEF SelectModel, DecideSelectModel
<1>6. ASSUME NEW i \in Inputs, AdmitPrompt(i) PROVE PermissionEvidence'
  BY <1>6 DEF AdmitPrompt, DecideAdmitPrompt
<1>7. ASSUME NEW i \in Inputs, NEW a \in Attempts,
             AdmitPromptAndPrepareAttempt(i, a)
      PROVE  PermissionEvidence'
  BY <1>7 DEF AdmitPromptAndPrepareAttempt,
              DecideAdmitPromptAndPrepareAttempt, DecideAdmitPrompt, Prepare
<1>8. ASSUME NEW a \in Attempts, NEW i \in Inputs,
             NEW prior \in Attempts \cup {None}, PrepareAttempt(a, i, prior)
      PROVE  PermissionEvidence'
  BY <1>8 DEF PrepareAttempt, DecidePrepareAttempt, Prepare, AttemptModel, CanRetry
<1> QED
  BY <1>1, <1>2, <1>3, <1>4, <1>5, <1>6, <1>7, <1>8 DEF LifecycleStep

\* A call that was authorized or ran has its permission on record. It
\* survives the provider-attempt commands.
LEMMA AttemptPermission ==
  ASSUME NEW a \in Attempts, TypeOK, Provenance, PermissionEvidence, AttemptStep(a)
  PROVE  PermissionEvidence'
<1> USE NoneAssumption DEF TypeOK, Provenance, PermissionEvidence,
    attemptVars, callVars, sessionVars, AttemptIn, CallIn, MoveAttempt,
    MoveCall, SettleCall, AttemptStatus, SettledAttempt, ToolCallStatus,
    SettledCall
<1>1. CASE StartAttempt(a)
  BY <1>1 DEF StartAttempt, DecideStartAttempt
<1>2. CASE RecordOutput(a)
  BY <1>2 DEF RecordOutput, DecideRecordOutput
<1>3. CASE RequestAttemptCancellation(a)
  BY <1>3 DEF RequestAttemptCancellation,
              DecideRequestAttemptCancellation
<1>4. CASE CompleteAttempt(a)
  BY <1>4 DEF CompleteAttempt, DecideCompleteAttempt
<1>5. ASSUME NEW advised \in BOOLEAN, FailAttempt(a, advised)
      PROVE  PermissionEvidence'
  BY <1>5 DEF FailAttempt, DecideFailAttempt
<1>6. CASE CancelAttempt(a)
  BY <1>6 DEF CancelAttempt, DecideCancelAttempt
<1>7. CASE MarkAttemptUnknown(a)
  BY <1>7 DEF MarkAttemptUnknown, DecideMarkAttemptUnknown
<1>8. ASSUME NEW limit \in TurnLimits, ConfigureRunBudget(a, limit)
      PROVE  PermissionEvidence'
  BY <1>8 DEF ConfigureRunBudget, DecideConfigureRunBudget
<1>9. ASSUME NEW t \in ContextTurns, NEW turn \in 1 .. NextTurn(a),
             BindContextTurn(a, t, turn)
      PROVE  PermissionEvidence'
  BY <1>9 DEF BindContextTurn, DecideBindContextTurn
<1>10. CASE StartRunTurn(a)
  BY <1>10 DEF StartRunTurn, DecideStartRunTurn
<1>11. CASE PauseAttemptForTools(a)
  BY <1>11 DEF PauseAttemptForTools, DecidePauseAttemptForTools
<1>12. CASE ResumeAttemptAfterTools(a)
  BY <1>12 DEF ResumeAttemptAfterTools,
              DecideResumeAttemptAfterTools
<1> QED
  BY <1>1, <1>2, <1>3, <1>4, <1>5, <1>6, <1>7, <1>8, <1>9, <1>10, <1>11, <1>12 DEF AttemptStep

\* A call that was authorized or ran has its permission on record. It
\* survives the tool-call commands.
LEMMA ToolPermission ==
  ASSUME NEW c \in Calls, TypeOK, Provenance, PermissionEvidence, ToolStep(c)
  PROVE  PermissionEvidence'
<1> USE NoneAssumption DEF TypeOK, Provenance, PermissionEvidence,
    attemptVars, callVars, sessionVars, AttemptIn, CallIn, MoveAttempt,
    MoveCall, SettleCall, AttemptStatus, SettledAttempt, ToolCallStatus,
    SettledCall
<1>1. ASSUME NEW a \in Attempts, ProposeToolCall(c, a) PROVE PermissionEvidence'
  BY <1>1 DEF ProposeToolCall, DecideProposeToolCall
<1>2. ASSUME NEW outcome \in {"Allow", "Ask", "Deny"},
             RecordToolPermission(c, outcome)
      PROVE  PermissionEvidence'
  BY <1>2 DEF RecordToolPermission, DecideRecordToolPermission,
              PermissionStatus
<1>3. ASSUME NEW given \in {"AllowOnce", "Deny"},
             AnswerToolPermission(c, given)
      PROVE  PermissionEvidence'
  BY <1>3 DEF AnswerToolPermission, DecideAnswerToolPermission,
              AnswerStatus
<1>4. CASE StartToolCall(c)
  BY <1>4 DEF StartToolCall, DecideStartToolCall
<1>5. CASE CompleteToolCall(c)
  BY <1>5 DEF CompleteToolCall, DecideSettleRunningCall
<1>6. CASE FailToolCall(c)
  BY <1>6 DEF FailToolCall, DecideSettleRunningCall
<1>7. CASE MarkToolCallUnknown(c)
  BY <1>7 DEF MarkToolCallUnknown, DecideSettleRunningCall
<1>8. CASE DenyToolCall(c)
  BY <1>8 DEF DenyToolCall, DecideDenyToolCall
<1>9. CASE CancelToolCall(c)
  BY <1>9 DEF CancelToolCall, DecideCancelToolCall
<1> QED
  BY <1>1, <1>2, <1>3, <1>4, <1>5, <1>6, <1>7, <1>8, <1>9 DEF ToolStep

-----------------------------------------------------------------------------
(* Context turns.                                                          *)

\* Every dispatched turn has exactly one context binding. It survives the
\* session-lifecycle commands.
LEMMA LifecycleContext ==
  ASSUME TypeOK, Provenance, ExactContextPerTurn, LifecycleStep
  PROVE  ExactContextPerTurn'
<1> USE NoneAssumption, MaxSequenceAssumption, TurnLimitsAssumption DEF
    TypeOK, Provenance, ExactContextPerTurn, Commit, ContextTurnBinding,
    Unbound, NextTurn, attemptVars, callVars, sessionVars, AttemptIn,
    CallIn, MoveAttempt, MoveCall, SettleCall
<1>1. CASE CreateSession
  BY <1>1 DEF CreateSession, DecideCreateSession
<1>2. CASE RenameSession
  BY <1>2 DEF RenameSession, DecideRenameSession
<1>3. CASE ArchiveSession
  BY <1>3 DEF ArchiveSession, DecideArchiveSession
<1>4. CASE UnarchiveSession
  BY <1>4 DEF UnarchiveSession, DecideUnarchiveSession
<1>5. ASSUME NEW m \in Models, SelectModel(m) PROVE ExactContextPerTurn'
  BY <1>5 DEF SelectModel, DecideSelectModel
<1>6. ASSUME NEW i \in Inputs, AdmitPrompt(i) PROVE ExactContextPerTurn'
  BY <1>6 DEF AdmitPrompt, DecideAdmitPrompt
<1>7. ASSUME NEW i \in Inputs, NEW a \in Attempts,
             AdmitPromptAndPrepareAttempt(i, a)
      PROVE  ExactContextPerTurn'
  BY <1>7 DEF AdmitPromptAndPrepareAttempt,
              DecideAdmitPromptAndPrepareAttempt, DecideAdmitPrompt, Prepare
<1>8. ASSUME NEW a \in Attempts, NEW i \in Inputs,
             NEW prior \in Attempts \cup {None}, PrepareAttempt(a, i, prior)
      PROVE  ExactContextPerTurn'
  BY <1>8 DEF PrepareAttempt, DecidePrepareAttempt, Prepare, AttemptModel, CanRetry
<1> QED
  BY <1>1, <1>2, <1>3, <1>4, <1>5, <1>6, <1>7, <1>8 DEF LifecycleStep

\* Every dispatched turn has exactly one context binding. It survives the
\* provider-attempt commands.
LEMMA AttemptContext ==
  ASSUME NEW a \in Attempts, TypeOK, Provenance, ExactContextPerTurn, AttemptStep(a)
  PROVE  ExactContextPerTurn'
<1> USE NoneAssumption, MaxSequenceAssumption, TurnLimitsAssumption DEF
    TypeOK, Provenance, ExactContextPerTurn, Commit, ContextTurnBinding,
    Unbound, NextTurn, attemptVars, callVars, sessionVars, AttemptIn,
    CallIn, MoveAttempt, MoveCall, SettleCall
<1>1. CASE StartAttempt(a)
  BY <1>1 DEF StartAttempt, DecideStartAttempt
<1>2. CASE RecordOutput(a)
  BY <1>2 DEF RecordOutput, DecideRecordOutput
<1>3. CASE RequestAttemptCancellation(a)
  BY <1>3 DEF RequestAttemptCancellation,
              DecideRequestAttemptCancellation
<1>4. CASE CompleteAttempt(a)
  BY <1>4 DEF CompleteAttempt, DecideCompleteAttempt
<1>5. ASSUME NEW advised \in BOOLEAN, FailAttempt(a, advised)
      PROVE  ExactContextPerTurn'
  BY <1>5 DEF FailAttempt, DecideFailAttempt
<1>6. CASE CancelAttempt(a)
  BY <1>6 DEF CancelAttempt, DecideCancelAttempt
<1>7. CASE MarkAttemptUnknown(a)
  BY <1>7 DEF MarkAttemptUnknown, DecideMarkAttemptUnknown
<1>8. ASSUME NEW limit \in TurnLimits, ConfigureRunBudget(a, limit)
      PROVE  ExactContextPerTurn'
  BY <1>8 DEF ConfigureRunBudget, DecideConfigureRunBudget
<1>9. ASSUME NEW t \in ContextTurns, NEW turn \in 1 .. NextTurn(a),
             BindContextTurn(a, t, turn)
      PROVE  ExactContextPerTurn'
  BY <1>9 DEF BindContextTurn, DecideBindContextTurn, PendingBindings,
              WithinTurnLimit
<1>10. CASE StartRunTurn(a)
  <2>1. PICK t \in ContextTurns : /\ binding[t].attempt = a
                                  /\ binding[t].runTurn = NextTurn(a)
    BY <1>10 DEF StartRunTurn, DecideStartRunTurn, PendingBindings
  <2>2. /\ turnsStarted' = [turnsStarted EXCEPT ![a] = NextTurn(a)]
        /\ maxTurns[a] # None => NextTurn(a) <= maxTurns[a]
        /\ UNCHANGED <<binding, maxTurns>>
        /\ lastSequence' = lastSequence + 1
    BY <1>10 DEF StartRunTurn, DecideStartRunTurn, WithinTurnLimit
  <2>3. ASSUME NEW b \in Attempts, NEW n \in 1 .. turnsStarted'[b]
        PROVE  \E u \in ContextTurns :
                  binding'[u].attempt = b /\ binding'[u].runTurn = n
    <3>1. CASE b = a /\ n = NextTurn(a)
      BY <2>1, <2>2, <3>1
    <3>2. CASE ~(b = a /\ n = NextTurn(a))
      <4>1. n \in 1 .. turnsStarted[b]
        BY <2>2, <3>2
      <4> QED
        BY <2>2, <4>1
    <3> QED
      BY <3>1, <3>2
  <2> QED
    BY <2>2, <2>3
<1>11. CASE PauseAttemptForTools(a)
  BY <1>11 DEF PauseAttemptForTools, DecidePauseAttemptForTools
<1>12. CASE ResumeAttemptAfterTools(a)
  BY <1>12 DEF ResumeAttemptAfterTools,
              DecideResumeAttemptAfterTools
<1> QED
  BY <1>1, <1>2, <1>3, <1>4, <1>5, <1>6, <1>7, <1>8, <1>9, <1>10, <1>11, <1>12 DEF AttemptStep

\* Every dispatched turn has exactly one context binding. It survives the
\* tool-call commands.
LEMMA ToolContext ==
  ASSUME NEW c \in Calls, TypeOK, Provenance, ExactContextPerTurn, ToolStep(c)
  PROVE  ExactContextPerTurn'
<1> USE NoneAssumption, MaxSequenceAssumption, TurnLimitsAssumption DEF
    TypeOK, Provenance, ExactContextPerTurn, Commit, ContextTurnBinding,
    Unbound, NextTurn, attemptVars, callVars, sessionVars, AttemptIn,
    CallIn, MoveAttempt, MoveCall, SettleCall
<1>1. ASSUME NEW a \in Attempts, ProposeToolCall(c, a) PROVE ExactContextPerTurn'
  BY <1>1, SMTT(60) DEF ProposeToolCall, DecideProposeToolCall
<1>2. ASSUME NEW outcome \in {"Allow", "Ask", "Deny"},
             RecordToolPermission(c, outcome)
      PROVE  ExactContextPerTurn'
  BY <1>2 DEF RecordToolPermission, DecideRecordToolPermission,
              PermissionStatus
<1>3. ASSUME NEW given \in {"AllowOnce", "Deny"},
             AnswerToolPermission(c, given)
      PROVE  ExactContextPerTurn'
  BY <1>3 DEF AnswerToolPermission, DecideAnswerToolPermission,
              AnswerStatus
<1>4. CASE StartToolCall(c)
  BY <1>4 DEF StartToolCall, DecideStartToolCall
<1>5. CASE CompleteToolCall(c)
  BY <1>5 DEF CompleteToolCall, DecideSettleRunningCall
<1>6. CASE FailToolCall(c)
  BY <1>6 DEF FailToolCall, DecideSettleRunningCall
<1>7. CASE MarkToolCallUnknown(c)
  BY <1>7 DEF MarkToolCallUnknown, DecideSettleRunningCall
<1>8. CASE DenyToolCall(c)
  BY <1>8 DEF DenyToolCall, DecideDenyToolCall
<1>9. CASE CancelToolCall(c)
  BY <1>9 DEF CancelToolCall, DecideCancelToolCall
<1> QED
  BY <1>1, <1>2, <1>3, <1>4, <1>5, <1>6, <1>7, <1>8, <1>9 DEF ToolStep

-----------------------------------------------------------------------------
(* Retry lineage.                                                          *)

\* An input has one first attempt, and retries repeat it. It survives the
\* session-lifecycle commands.
LEMMA LifecycleLineage ==
  ASSUME TypeOK, Provenance, RetryLineage, LifecycleStep
  PROVE  RetryLineage'
<1> USE NoneAssumption DEF TypeOK, Provenance, RetryLineage, AttemptRequest,
    attemptVars, callVars, sessionVars, AttemptIn, CallIn, MoveAttempt,
    MoveCall, SettleCall, AttemptStatus, SettledAttempt, ToolCallStatus,
    SettledCall
<1>1. CASE CreateSession
  BY <1>1 DEF CreateSession, DecideCreateSession
<1>2. CASE RenameSession
  BY <1>2 DEF RenameSession, DecideRenameSession
<1>3. CASE ArchiveSession
  BY <1>3 DEF ArchiveSession, DecideArchiveSession
<1>4. CASE UnarchiveSession
  BY <1>4 DEF UnarchiveSession, DecideUnarchiveSession
<1>5. ASSUME NEW m \in Models, SelectModel(m) PROVE RetryLineage'
  BY <1>5 DEF SelectModel, DecideSelectModel
<1>6. ASSUME NEW i \in Inputs, AdmitPrompt(i) PROVE RetryLineage'
  BY <1>6 DEF AdmitPrompt, DecideAdmitPrompt
<1>7. ASSUME NEW i \in Inputs, NEW a \in Attempts,
             AdmitPromptAndPrepareAttempt(i, a)
      PROVE  RetryLineage'
  BY <1>7 DEF AdmitPromptAndPrepareAttempt,
              DecideAdmitPromptAndPrepareAttempt, DecideAdmitPrompt, Prepare
<1>8. ASSUME NEW a \in Attempts, NEW i \in Inputs,
             NEW prior \in Attempts \cup {None}, PrepareAttempt(a, i, prior)
      PROVE  RetryLineage'
  BY <1>8 DEF PrepareAttempt, DecidePrepareAttempt, Prepare, AttemptModel, CanRetry
<1> QED
  BY <1>1, <1>2, <1>3, <1>4, <1>5, <1>6, <1>7, <1>8 DEF LifecycleStep

\* An input has one first attempt, and retries repeat it. It survives the
\* provider-attempt commands.
LEMMA AttemptLineage ==
  ASSUME NEW a \in Attempts, TypeOK, Provenance, RetryLineage, AttemptStep(a)
  PROVE  RetryLineage'
<1> USE NoneAssumption DEF TypeOK, Provenance, RetryLineage, AttemptRequest,
    attemptVars, callVars, sessionVars, AttemptIn, CallIn, MoveAttempt,
    MoveCall, SettleCall, AttemptStatus, SettledAttempt, ToolCallStatus,
    SettledCall
<1>1. CASE StartAttempt(a)
  BY <1>1 DEF StartAttempt, DecideStartAttempt
<1>2. CASE RecordOutput(a)
  BY <1>2 DEF RecordOutput, DecideRecordOutput
<1>3. CASE RequestAttemptCancellation(a)
  BY <1>3 DEF RequestAttemptCancellation,
              DecideRequestAttemptCancellation
<1>4. CASE CompleteAttempt(a)
  BY <1>4 DEF CompleteAttempt, DecideCompleteAttempt
<1>5. ASSUME NEW advised \in BOOLEAN, FailAttempt(a, advised)
      PROVE  RetryLineage'
  BY <1>5 DEF FailAttempt, DecideFailAttempt
<1>6. CASE CancelAttempt(a)
  BY <1>6 DEF CancelAttempt, DecideCancelAttempt
<1>7. CASE MarkAttemptUnknown(a)
  BY <1>7 DEF MarkAttemptUnknown, DecideMarkAttemptUnknown
<1>8. ASSUME NEW limit \in TurnLimits, ConfigureRunBudget(a, limit)
      PROVE  RetryLineage'
  BY <1>8 DEF ConfigureRunBudget, DecideConfigureRunBudget
<1>9. ASSUME NEW t \in ContextTurns, NEW turn \in 1 .. NextTurn(a),
             BindContextTurn(a, t, turn)
      PROVE  RetryLineage'
  BY <1>9 DEF BindContextTurn, DecideBindContextTurn
<1>10. CASE StartRunTurn(a)
  BY <1>10 DEF StartRunTurn, DecideStartRunTurn
<1>11. CASE PauseAttemptForTools(a)
  BY <1>11 DEF PauseAttemptForTools, DecidePauseAttemptForTools
<1>12. CASE ResumeAttemptAfterTools(a)
  BY <1>12 DEF ResumeAttemptAfterTools,
              DecideResumeAttemptAfterTools
<1> QED
  BY <1>1, <1>2, <1>3, <1>4, <1>5, <1>6, <1>7, <1>8, <1>9, <1>10, <1>11, <1>12 DEF AttemptStep

\* An input has one first attempt, and retries repeat it. It survives the
\* tool-call commands.
LEMMA ToolLineage ==
  ASSUME NEW c \in Calls, TypeOK, Provenance, RetryLineage, ToolStep(c)
  PROVE  RetryLineage'
<1> USE NoneAssumption DEF TypeOK, Provenance, RetryLineage, AttemptRequest,
    attemptVars, callVars, sessionVars, AttemptIn, CallIn, MoveAttempt,
    MoveCall, SettleCall, AttemptStatus, SettledAttempt, ToolCallStatus,
    SettledCall
<1>1. ASSUME NEW a \in Attempts, ProposeToolCall(c, a) PROVE RetryLineage'
  BY <1>1 DEF ProposeToolCall, DecideProposeToolCall
<1>2. ASSUME NEW outcome \in {"Allow", "Ask", "Deny"},
             RecordToolPermission(c, outcome)
      PROVE  RetryLineage'
  BY <1>2 DEF RecordToolPermission, DecideRecordToolPermission,
              PermissionStatus
<1>3. ASSUME NEW given \in {"AllowOnce", "Deny"},
             AnswerToolPermission(c, given)
      PROVE  RetryLineage'
  BY <1>3 DEF AnswerToolPermission, DecideAnswerToolPermission,
              AnswerStatus
<1>4. CASE StartToolCall(c)
  BY <1>4 DEF StartToolCall, DecideStartToolCall
<1>5. CASE CompleteToolCall(c)
  BY <1>5 DEF CompleteToolCall, DecideSettleRunningCall
<1>6. CASE FailToolCall(c)
  BY <1>6 DEF FailToolCall, DecideSettleRunningCall
<1>7. CASE MarkToolCallUnknown(c)
  BY <1>7 DEF MarkToolCallUnknown, DecideSettleRunningCall
<1>8. CASE DenyToolCall(c)
  BY <1>8 DEF DenyToolCall, DecideDenyToolCall
<1>9. CASE CancelToolCall(c)
  BY <1>9 DEF CancelToolCall, DecideCancelToolCall
<1> QED
  BY <1>1, <1>2, <1>3, <1>4, <1>5, <1>6, <1>7, <1>8, <1>9 DEF ToolStep

-----------------------------------------------------------------------------
(* History.                                                                *)

\* Settled attempts, settled calls and bindings never change. It survives
\* the session-lifecycle commands.
LEMMA LifecycleHistory ==
  ASSUME TypeOK, LifecycleStep
  PROVE  HistoryStep
<1> USE NoneAssumption DEF TypeOK, HistoryStep, attemptVars, callVars,
    sessionVars, AttemptIn, CallIn, MoveAttempt, MoveCall, SettleCall,
    AttemptStatus, SettledAttempt, ToolCallStatus, SettledCall
<1>1. CASE CreateSession
  BY <1>1 DEF CreateSession, DecideCreateSession
<1>2. CASE RenameSession
  BY <1>2 DEF RenameSession, DecideRenameSession
<1>3. CASE ArchiveSession
  BY <1>3 DEF ArchiveSession, DecideArchiveSession
<1>4. CASE UnarchiveSession
  BY <1>4 DEF UnarchiveSession, DecideUnarchiveSession
<1>5. ASSUME NEW m \in Models, SelectModel(m) PROVE HistoryStep
  BY <1>5 DEF SelectModel, DecideSelectModel
<1>6. ASSUME NEW i \in Inputs, AdmitPrompt(i) PROVE HistoryStep
  BY <1>6 DEF AdmitPrompt, DecideAdmitPrompt
<1>7. ASSUME NEW i \in Inputs, NEW a \in Attempts,
             AdmitPromptAndPrepareAttempt(i, a)
      PROVE  HistoryStep
  BY <1>7 DEF AdmitPromptAndPrepareAttempt,
              DecideAdmitPromptAndPrepareAttempt, DecideAdmitPrompt, Prepare
<1>8. ASSUME NEW a \in Attempts, NEW i \in Inputs,
             NEW prior \in Attempts \cup {None}, PrepareAttempt(a, i, prior)
      PROVE  HistoryStep
  BY <1>8 DEF PrepareAttempt, DecidePrepareAttempt, Prepare, AttemptModel, CanRetry
<1> QED
  BY <1>1, <1>2, <1>3, <1>4, <1>5, <1>6, <1>7, <1>8 DEF LifecycleStep

\* Settled attempts, settled calls and bindings never change. It survives
\* the provider-attempt commands.
LEMMA AttemptHistory ==
  ASSUME NEW a \in Attempts, TypeOK, AttemptStep(a)
  PROVE  HistoryStep
<1> USE NoneAssumption DEF TypeOK, HistoryStep, attemptVars, callVars,
    sessionVars, AttemptIn, CallIn, MoveAttempt, MoveCall, SettleCall,
    AttemptStatus, SettledAttempt, ToolCallStatus, SettledCall
<1>1. CASE StartAttempt(a)
  BY <1>1 DEF StartAttempt, DecideStartAttempt
<1>2. CASE RecordOutput(a)
  BY <1>2 DEF RecordOutput, DecideRecordOutput
<1>3. CASE RequestAttemptCancellation(a)
  BY <1>3 DEF RequestAttemptCancellation,
              DecideRequestAttemptCancellation
<1>4. CASE CompleteAttempt(a)
  BY <1>4 DEF CompleteAttempt, DecideCompleteAttempt
<1>5. ASSUME NEW advised \in BOOLEAN, FailAttempt(a, advised)
      PROVE  HistoryStep
  BY <1>5 DEF FailAttempt, DecideFailAttempt
<1>6. CASE CancelAttempt(a)
  BY <1>6 DEF CancelAttempt, DecideCancelAttempt
<1>7. CASE MarkAttemptUnknown(a)
  BY <1>7 DEF MarkAttemptUnknown, DecideMarkAttemptUnknown
<1>8. ASSUME NEW limit \in TurnLimits, ConfigureRunBudget(a, limit)
      PROVE  HistoryStep
  BY <1>8 DEF ConfigureRunBudget, DecideConfigureRunBudget
<1>9. ASSUME NEW t \in ContextTurns, NEW turn \in 1 .. NextTurn(a),
             BindContextTurn(a, t, turn)
      PROVE  HistoryStep
  BY <1>9 DEF BindContextTurn, DecideBindContextTurn
<1>10. CASE StartRunTurn(a)
  BY <1>10 DEF StartRunTurn, DecideStartRunTurn
<1>11. CASE PauseAttemptForTools(a)
  BY <1>11 DEF PauseAttemptForTools, DecidePauseAttemptForTools
<1>12. CASE ResumeAttemptAfterTools(a)
  BY <1>12 DEF ResumeAttemptAfterTools,
              DecideResumeAttemptAfterTools
<1> QED
  BY <1>1, <1>2, <1>3, <1>4, <1>5, <1>6, <1>7, <1>8, <1>9, <1>10, <1>11, <1>12 DEF AttemptStep

\* Settled attempts, settled calls and bindings never change. It survives
\* the tool-call commands.
LEMMA ToolHistory ==
  ASSUME NEW c \in Calls, TypeOK, ToolStep(c)
  PROVE  HistoryStep
<1> USE NoneAssumption DEF TypeOK, HistoryStep, attemptVars, callVars,
    sessionVars, AttemptIn, CallIn, MoveAttempt, MoveCall, SettleCall,
    AttemptStatus, SettledAttempt, ToolCallStatus, SettledCall
<1>1. ASSUME NEW a \in Attempts, ProposeToolCall(c, a) PROVE HistoryStep
  BY <1>1 DEF ProposeToolCall, DecideProposeToolCall
<1>2. ASSUME NEW outcome \in {"Allow", "Ask", "Deny"},
             RecordToolPermission(c, outcome)
      PROVE  HistoryStep
  BY <1>2 DEF RecordToolPermission, DecideRecordToolPermission,
              PermissionStatus
<1>3. ASSUME NEW given \in {"AllowOnce", "Deny"},
             AnswerToolPermission(c, given)
      PROVE  HistoryStep
  BY <1>3 DEF AnswerToolPermission, DecideAnswerToolPermission,
              AnswerStatus
<1>4. CASE StartToolCall(c)
  BY <1>4 DEF StartToolCall, DecideStartToolCall
<1>5. CASE CompleteToolCall(c)
  BY <1>5 DEF CompleteToolCall, DecideSettleRunningCall
<1>6. CASE FailToolCall(c)
  BY <1>6 DEF FailToolCall, DecideSettleRunningCall
<1>7. CASE MarkToolCallUnknown(c)
  BY <1>7 DEF MarkToolCallUnknown, DecideSettleRunningCall
<1>8. CASE DenyToolCall(c)
  BY <1>8 DEF DenyToolCall, DecideDenyToolCall
<1>9. CASE CancelToolCall(c)
  BY <1>9 DEF CancelToolCall, DecideCancelToolCall
<1> QED
  BY <1>1, <1>2, <1>3, <1>4, <1>5, <1>6, <1>7, <1>8, <1>9 DEF ToolStep

-----------------------------------------------------------------------------
(* The inductive invariant and the theorems.                               *)

IInv ==
    /\ TypeOK
    /\ Provenance
    /\ SettledAttemptsHaveSettledCalls
    /\ ArchivedSessionIsQuiet
    /\ PermissionEvidence
    /\ ExactContextPerTurn
    /\ RetryLineage

\* The empty aggregate satisfies the invariant.
LEMMA InvariantInit == Init => IInv
<1> SUFFICES ASSUME Init PROVE IInv
  OBVIOUS
<1>1. TypeOK
  BY TypeInit
<1>2. Provenance
  BY DEF Init, Provenance
<1>3. SettledAttemptsHaveSettledCalls /\ ArchivedSessionIsQuiet
  BY DEF Init, SettledAttemptsHaveSettledCalls, ArchivedSessionIsQuiet,
         ToolCallStatus, SettledCall
<1>4. PermissionEvidence
  BY DEF Init, PermissionEvidence
<1>5. ExactContextPerTurn
  BY DEF Init, ExactContextPerTurn, Unbound, NextTurn
<1>6. RetryLineage
  BY NoneAssumption DEF Init, RetryLineage
<1> QED
  BY <1>1, <1>2, <1>3, <1>4, <1>5, <1>6 DEF IInv

\* Every command of decide, and every stuttering step, keeps the invariant.
LEMMA InvariantStep == IInv /\ [Next]_vars => IInv'
<1> SUFFICES ASSUME IInv, [Next]_vars PROVE IInv'
  OBVIOUS
<1> USE DEF IInv
<1>1. CASE LifecycleStep
  BY <1>1, LifecycleType, LifecycleProvenance, LifecycleSettledCalls,
     LifecycleArchived, LifecyclePermission, LifecycleContext, LifecycleLineage
<1>2. ASSUME NEW a \in Attempts, AttemptStep(a) PROVE IInv'
  BY <1>2, AttemptType, AttemptProvenance, AttemptSettledCalls,
     AttemptArchived, AttemptPermission, AttemptContext, AttemptLineage
<1>3. ASSUME NEW c \in Calls, ToolStep(c) PROVE IInv'
  BY <1>3, ToolType, ToolProvenance, ToolSettledCalls, ToolArchived,
     ToolPermission, ToolContext, ToolLineage
<1>4. CASE UNCHANGED vars
  BY <1>4 DEF vars, sessionVars, attemptVars, callVars, TypeOK, Provenance,
     SettledAttemptsHaveSettledCalls, ArchivedSessionIsQuiet,
     PermissionEvidence, ExactContextPerTurn, NextTurn, RetryLineage
<1> QED
  BY <1>1, <1>2, <1>3, <1>4 DEF Next

\* The invariant holds in every state of every session.
THEOREM Invariant == Spec => []IInv
  BY InvariantInit, InvariantStep, PTL DEF Spec

\* decide's settlement guards are enough: no schedule of provider, tool and
\* user commands leaves a call that may still run under a settled attempt.
THEOREM SettlementSafe == Spec => []SettledAttemptsHaveSettledCalls
<1>1. IInv => SettledAttemptsHaveSettledCalls
  BY DEF IInv
<1> QED
  BY <1>1, Invariant, PTL

\* An archived session (archive checks attempts only) has no open call either.
THEOREM ArchiveSafe == Spec => []ArchivedSessionIsQuiet
<1>1. IInv => ArchivedSessionIsQuiet
  BY DEF IInv
<1> QED
  BY <1>1, Invariant, PTL

\* No tool call is authorized, runs or settles as run without permission.
THEOREM PermissionSafe == Spec => []PermissionEvidence
<1>1. IInv => PermissionEvidence
  BY DEF IInv
<1> QED
  BY <1>1, Invariant, PTL

\* Provider turns and context bindings match one to one, within run limits.
THEOREM ContextSafe == Spec => []ExactContextPerTurn
<1>1. IInv => ExactContextPerTurn
  BY DEF IInv
<1> QED
  BY <1>1, Invariant, PTL

\* Retries keep input and model, and only repeat what settled unsuccessfully.
THEOREM LineageSafe == Spec => []RetryLineage
<1>1. IInv => RetryLineage
  BY DEF IInv
<1> QED
  BY <1>1, Invariant, PTL

\* The aggregate is consistent after every command of every history, for every
\* set of inputs, attempts, calls and models: the conjunction the run checks.
THEOREM AggregateSafe == Spec => []AggregateIsConsistent
<1>1. IInv => AggregateIsConsistent
  BY DEF IInv, AggregateIsConsistent
<1> QED
  BY <1>1, Invariant, PTL

\* What decide accepts, apply_one accepts: in a state satisfying the invariant
\* every accepted command's events pass the replay checks.
LEMMA DecisionsReplay == IInv => ReplayAcceptsDecisions
<1> SUFFICES ASSUME IInv PROVE ReplayAcceptsDecisions
  OBVIOUS
<1> USE NoneAssumption
    DEF IInv, TypeOK, Provenance, AttemptIn, CallIn, AttemptStatus,
        ToolCallStatus, SettledAttempt, SettledCall
<1>1. ASSUME NEW i \in Inputs, NEW a \in Attempts,
             DecideAdmitPromptAndPrepareAttempt(i, a)
      PROVE  ReplayAttemptPrepared(a, i, None, selectedModel,
                                   admitted \cup {i})
  BY <1>1 DEF DecideAdmitPromptAndPrepareAttempt, DecideAdmitPrompt,
              ReplayAttemptPrepared
<1>2. ASSUME NEW a \in Attempts, NEW i \in Inputs,
             NEW prior \in Attempts \cup {None},
             DecidePrepareAttempt(a, i, prior)
      PROVE  ReplayAttemptPrepared(a, i, prior, AttemptModel(prior), admitted)
  BY <1>2 DEF DecidePrepareAttempt, ReplayAttemptPrepared, AttemptModel
<1>3. ASSUME NEW a \in Attempts
      PROVE  /\ DecideStartAttempt(a) => ReplayAttempt(a, {"Prepared"})
             /\ DecideRecordOutput(a) =>
                   ReplayAttempt(a, {"InFlight", "CancellationRequested"})
             /\ DecideRequestAttemptCancellation(a) =>
                   ReplayAttempt(a, {"InFlight", "AwaitingTools"})
             /\ DecideConfigureRunBudget(a) => ReplayRunBudgetConfigured(a)
             /\ DecidePauseAttemptForTools(a) =>
                   ReplayAttemptPausedForTools(a)
  BY DEF DecideStartAttempt, DecideRecordOutput,
         DecideRequestAttemptCancellation, DecideConfigureRunBudget,
         DecidePauseAttemptForTools, ReplayAttempt,
         ReplayRunBudgetConfigured, ReplayAttemptPausedForTools
<1>4. ASSUME NEW a \in Attempts
      PROVE  /\ DecideCompleteAttempt(a) =>
                   ReplayAttemptSettled(a, {"InFlight", "AwaitingTools",
                                            "CancellationRequested"})
             /\ DecideFailAttempt(a) =>
                   ReplayAttemptSettled(a, {"Prepared", "InFlight",
                       "AwaitingTools", "CancellationRequested"})
             /\ DecideCancelAttempt(a) =>
                   ReplayAttemptSettled(a, {"CancellationRequested"})
             /\ DecideMarkAttemptUnknown(a) =>
                   ReplayAttemptSettled(a, {"InFlight",
                                            "CancellationRequested"})
             /\ DecideResumeAttemptAfterTools(a) =>
                   ReplayAttemptSettled(a, {"AwaitingTools"})
  BY DEF DecideCompleteAttempt, DecideFailAttempt, DecideCancelAttempt,
         DecideMarkAttemptUnknown, DecideResumeAttemptAfterTools,
         ReplayAttemptSettled
<1>5. ASSUME NEW a \in Attempts, NEW t \in ContextTurns,
             NEW turn \in 1 .. NextTurn(a), DecideBindContextTurn(a, t, turn)
      PROVE  ReplayContextTurnBound(a, t, turn)
  BY <1>5 DEF DecideBindContextTurn, ReplayContextTurnBound
<1>6. ASSUME NEW a \in Attempts, DecideStartRunTurn(a)
      PROVE  ReplayRunTurnStarted(a, NextTurn(a), lastSequence + 1)
  BY <1>6 DEF DecideStartRunTurn, ReplayRunTurnStarted, PendingBindings
<1>7. ASSUME NEW c \in Calls
      PROVE  /\ DecideRecordToolPermission(c) =>
                   ReplayToolCall(c, {"Proposed"})
             /\ DecideAnswerToolPermission(c) =>
                   ReplayToolCall(c, {"PermissionPending"})
             /\ DecideSettleRunningCall(c) => ReplayToolCall(c, {"Running"})
             /\ DecideDenyToolCall(c) =>
                   ReplayToolCall(c, {"DeniedPending"})
             /\ DecideCancelToolCall(c) =>
                   ReplayToolCall(c, {"Proposed", "PermissionPending",
                                      "Authorized", "Running"})
  BY DEF DecideRecordToolPermission, DecideAnswerToolPermission,
         DecideSettleRunningCall, DecideDenyToolCall, DecideCancelToolCall,
         ReplayToolCall
<1>8. ASSUME NEW c \in Calls
      PROVE  /\ \A a \in Attempts :
                   DecideProposeToolCall(c, a) => ReplayToolCallProposed(c, a)
             /\ DecideStartToolCall(c) => ReplayToolCallStarted(c)
  BY DEF DecideProposeToolCall, ReplayToolCallProposed, DecideStartToolCall,
         ReplayToolCallStarted
<1> HIDE DEF IInv, TypeOK, Provenance, AttemptIn, CallIn
<1> QED
  BY <1>1, <1>2, <1>3, <1>4, <1>5, <1>6, <1>7, <1>8
     DEF ReplayAcceptsDecisions

\* A committed command is never refused when the session is rehydrated: live
\* acceptance by decide implies acceptance by apply_one, for every history.
THEOREM ReplaySafe == Spec => []ReplayAcceptsDecisions
  BY DecisionsReplay, Invariant, PTL

\* Settled attempts, settled calls and used bindings are never rewritten.
THEOREM HistorySafe == Spec => HistoryIsFinal
<1>1. TypeOK /\ [Next]_vars => [HistoryStep]_vars
  BY LifecycleHistory, AttemptHistory, ToolHistory DEF Next
<1> QED
  BY <1>1, TypeCorrect, PTL DEF Spec, HistoryIsFinal

-----------------------------------------------------------------------------
(* The store takes only steps of the aggregate.                            *)

\* An append commits what decide decided; a deletion leaves the aggregate.
LEMMA StoreStepIsSessionStep == [StoreNext]_storeVars => [Next]_vars
<1>1. StoreLifecycleStep => LifecycleStep
  BY DEF StoreLifecycleStep, LifecycleStep, StoreCreateSession,
         StoreRenameSession, StoreArchiveSession, StoreUnarchiveSession,
         StoreSelectModel, StoreAdmitPrompt,
         StoreAdmitPromptAndPrepareAttempt, StorePrepareAttempt
<1>2. ASSUME NEW a \in Attempts PROVE StoreAttemptStep(a) => AttemptStep(a)
  BY DEF StoreAttemptStep, AttemptStep, StoreStartAttempt,
         StoreAppendAttemptText, StoreRecordAttemptUsage,
         StoreRequestAttemptCancellation, StoreCompleteAttempt,
         StoreFailAttempt, StoreCancelAttempt, StoreMarkAttemptUnknown,
         StoreConfigureRunBudget, StoreBindContextTurn, StoreStartRunTurn,
         StorePauseAttemptForTools, StoreResumeAttemptAfterTools
<1>3. ASSUME NEW c \in Calls PROVE StoreToolStep(c) => ToolStep(c)
  BY DEF StoreToolStep
<1>4. ASSUME NEW expected \in 0 .. MaxSequence
      PROVE  DeleteSession(expected) => UNCHANGED vars
  BY DEF DeleteSession
<1>5. UNCHANGED storeVars => UNCHANGED vars
  BY DEF storeVars
<1> QED
  BY <1>1, <1>2, <1>3, <1>4, <1>5 DEF StoreNext, Next

\* The store implements the aggregate: every history of rows is a history of
\* SessionAggregate, so what is shown above holds of the stored session.
THEOREM StoreImplementsSession == StoreSpec => Spec
<1>1. StoreInit => Init
  BY DEF StoreInit
<1> QED
  BY <1>1, StoreStepIsSessionStep, PTL DEF StoreSpec, Spec

\* The invariants of the aggregate hold under the store.
LEMMA StoreInvariant == StoreSpec => []IInv
  BY StoreImplementsSession, Invariant, PTL

-----------------------------------------------------------------------------
(* Tool commands change no row but the session's version, and only         *)
(* session and tool state of the aggregate.                                *)

\* What a tool command leaves alone.
LEMMA ToolFrame ==
  ASSUME NEW c \in Calls, ToolStep(c)
  PROVE  /\ UNCHANGED <<sessionVars, attemptVars, binding>>
         /\ Commit(1)
<1> USE DEF MoveCall, SettleCall
<1> QED
  BY DEF ToolStep, ProposeToolCall, RecordToolPermission,
         AnswerToolPermission, StartToolCall, CompleteToolCall,
         FailToolCall, MarkToolCallUnknown, DenyToolCall, CancelToolCall

-----------------------------------------------------------------------------
(* The rows are well formed.                                               *)

\* Moving one attempt row to a new state leaves every row well formed.
LEMMA RowMove ==
  ASSUME NEW a \in Attempts, NEW to \in UnsettledRow \cup SettledRow, StoreTypeOK
  PROVE  /\ [attemptRow EXCEPT ![a].state = to] \in [Attempts -> AttemptRows]
         /\ \A b \in Attempts :
               /\ [attemptRow EXCEPT ![a].state = to][b].state =
                     IF b = a THEN to ELSE attemptRow[b].state
               /\ [attemptRow EXCEPT ![a].state = to][b].retryOf =
                     attemptRow[b].retryOf
  BY DEF StoreTypeOK, AttemptRows

\* The session-lifecycle appends keep the rows well formed.
LEMMA LifecycleRowsType ==
  ASSUME TypeOK, TypeOK', StoreTypeOK, StoreLifecycleStep
  PROVE  StoreTypeOK'
<1> USE NoneAssumption, MaxSequenceAssumption, TurnLimitsAssumption
    DEF StoreTypeOK, SessionRows, AttemptRows, NoSession,
    UnsettledRow, SettledRow, MessageState, SaveSession, NoRowButSession, projectionVars, foldVars, Commit, MoveAttempt,
    TypeOK, ContextTurnBinding, NextTurn
<1>1. CASE StoreCreateSession
  BY <1>1 DEF StoreCreateSession, CreateSession, DecideCreateSession
<1>2. CASE StoreRenameSession
  BY <1>2 DEF StoreRenameSession, RenameSession, DecideRenameSession
<1>3. CASE StoreArchiveSession
  BY <1>3 DEF StoreArchiveSession, ArchiveSession, DecideArchiveSession
<1>4. CASE StoreUnarchiveSession
  BY <1>4 DEF StoreUnarchiveSession, UnarchiveSession, DecideUnarchiveSession
<1>5. ASSUME NEW m \in Models,
             StoreSelectModel(m)
      PROVE  StoreTypeOK'
  BY <1>5 DEF StoreSelectModel, SelectModel, DecideSelectModel
<1>6. ASSUME NEW i \in Inputs,
             StoreAdmitPrompt(i)
      PROVE  StoreTypeOK'
  BY <1>6 DEF StoreAdmitPrompt, AdmitPrompt, DecideAdmitPrompt,
         AutomaticallyTitles
<1>7. ASSUME NEW i \in Inputs, NEW a \in Attempts,
             StoreAdmitPromptAndPrepareAttempt(i, a)
      PROVE  StoreTypeOK'
  BY <1>7 DEF StoreAdmitPromptAndPrepareAttempt, InsertAttempt,
         AdmitPromptAndPrepareAttempt,
         DecideAdmitPromptAndPrepareAttempt, DecideAdmitPrompt,
         AutomaticallyTitles, Prepare
<1>8. ASSUME NEW a \in Attempts, NEW i \in Inputs,
             NEW prior \in Attempts \cup {None},
             StorePrepareAttempt(a, i, prior)
      PROVE  StoreTypeOK'
  BY <1>8 DEF StorePrepareAttempt, InsertAttempt, PrepareAttempt,
         DecidePrepareAttempt, Prepare
<1> QED
  BY <1>1, <1>2, <1>3, <1>4, <1>5, <1>6, <1>7, <1>8 DEF StoreLifecycleStep

\* The provider-attempt appends keep the rows well formed.
LEMMA AttemptRowsType ==
  ASSUME NEW a \in Attempts, TypeOK, TypeOK', StoreTypeOK, StoreAttemptStep(a)
  PROVE  StoreTypeOK'
<1> USE NoneAssumption, MaxSequenceAssumption, TurnLimitsAssumption
    DEF StoreTypeOK, SessionRows, AttemptRows, NoSession,
    UnsettledRow, SettledRow, MessageState, SaveSession, NoRowButSession, projectionVars, foldVars, Commit, MoveAttempt,
    TypeOK, ContextTurnBinding, NextTurn
<1>1. CASE StoreStartAttempt(a)
  <2>1. attemptRow' \in [Attempts -> AttemptRows]
    <3>1. "in_flight" \in UnsettledRow \cup SettledRow
      OBVIOUS
    <3> QED
      BY <1>1, <3>1, RowMove DEF StoreStartAttempt
  <2> QED
    BY <1>1, <2>1 DEF StoreStartAttempt, StartAttempt
<1>2. CASE StoreAppendAttemptText(a)
  BY <1>2 DEF StoreAppendAttemptText, RecordOutput, DecideRecordOutput
<1>3. CASE StoreRecordAttemptUsage(a)
  BY <1>3 DEF StoreRecordAttemptUsage, RecordOutput, DecideRecordOutput
<1>4. CASE StoreRequestAttemptCancellation(a)
  BY <1>4, SMTT(20) DEF StoreRequestAttemptCancellation, RequestAttemptCancellation,
         DecideRequestAttemptCancellation
<1>5. CASE StoreCompleteAttempt(a)
  <2>1. attemptRow' \in [Attempts -> AttemptRows]
    <3>1. "completed" \in UnsettledRow \cup SettledRow
      OBVIOUS
    <3> QED
      BY <1>5, <3>1, RowMove DEF StoreCompleteAttempt, SettleRow, MessageState
  <2>2. \A b \in Attempts :
           \/ message'[b] = message[b]
           \/ message'[b] \in {"absent", "complete", "completed"}
    BY <1>5 DEF StoreCompleteAttempt, SettleRow, MessageState
  <2>3. message' \in [Attempts -> {"absent", "streaming", "complete", "failed",
                                    "cancelled", "unknown"}]
    BY <1>5, <2>2 DEF StoreCompleteAttempt, SettleRow, MessageState
  <2> QED
    BY <1>5, <2>1, <2>3 DEF StoreCompleteAttempt, SettleRow, CompleteAttempt
<1>6. ASSUME NEW advised \in BOOLEAN,
             StoreFailAttempt(a, advised)
      PROVE  StoreTypeOK'
  <2>1. attemptRow' \in [Attempts -> AttemptRows]
    <3>1. "failed" \in UnsettledRow \cup SettledRow
      OBVIOUS
    <3> QED
      BY <1>6, <3>1, RowMove DEF StoreFailAttempt, SettleRow, MessageState
  <2>2. \A b \in Attempts :
           \/ message'[b] = message[b]
           \/ message'[b] \in {"absent", "complete", "failed"}
    BY <1>6 DEF StoreFailAttempt, SettleRow, MessageState
  <2>3. message' \in [Attempts -> {"absent", "streaming", "complete", "failed",
                                    "cancelled", "unknown"}]
    BY <1>6, <2>2 DEF StoreFailAttempt, SettleRow, MessageState
  <2> QED
    BY <1>6, <2>1, <2>3 DEF StoreFailAttempt, SettleRow, FailAttempt
<1>7. CASE StoreCancelAttempt(a)
  <2>1. attemptRow' \in [Attempts -> AttemptRows]
    <3>1. "cancelled" \in UnsettledRow \cup SettledRow
      OBVIOUS
    <3> QED
      BY <1>7, <3>1, RowMove DEF StoreCancelAttempt, SettleRow, MessageState
  <2>2. \A b \in Attempts :
           \/ message'[b] = message[b]
           \/ message'[b] \in {"absent", "complete", "cancelled"}
    BY <1>7 DEF StoreCancelAttempt, SettleRow, MessageState
  <2>3. message' \in [Attempts -> {"absent", "streaming", "complete", "failed",
                                    "cancelled", "unknown"}]
    BY <1>7, <2>2 DEF StoreCancelAttempt, SettleRow, MessageState
  <2> QED
    BY <1>7, <2>1, <2>3 DEF StoreCancelAttempt, SettleRow, CancelAttempt
<1>8. CASE StoreMarkAttemptUnknown(a)
  <2>1. attemptRow' \in [Attempts -> AttemptRows]
    <3>1. "unknown" \in UnsettledRow \cup SettledRow
      OBVIOUS
    <3> QED
      BY <1>8, <3>1, RowMove DEF StoreMarkAttemptUnknown, SettleRow, MessageState
  <2>2. \A b \in Attempts :
           \/ message'[b] = message[b]
           \/ message'[b] \in {"absent", "complete", "unknown"}
    BY <1>8 DEF StoreMarkAttemptUnknown, SettleRow, MessageState
  <2>3. message' \in [Attempts -> {"absent", "streaming", "complete", "failed",
                                    "cancelled", "unknown"}]
    BY <1>8, <2>2 DEF StoreMarkAttemptUnknown, SettleRow, MessageState
  <2> QED
    BY <1>8, <2>1, <2>3 DEF StoreMarkAttemptUnknown, SettleRow, MarkAttemptUnknown
<1>9. ASSUME NEW limit \in TurnLimits,
             StoreConfigureRunBudget(a, limit)
      PROVE  StoreTypeOK'
  BY <1>9 DEF StoreConfigureRunBudget, FoldOnly, ConfigureRunBudget,
         DecideConfigureRunBudget
<1>10. ASSUME NEW t \in ContextTurns, NEW turn \in 1 .. NextTurn(a),
             StoreBindContextTurn(a, t, turn)
      PROVE  StoreTypeOK'
  BY <1>10 DEF StoreBindContextTurn, BindContextTurn, DecideBindContextTurn
<1>11. CASE StoreStartRunTurn(a)
  BY <1>11 DEF StoreStartRunTurn, FoldOnly, StartRunTurn, DecideStartRunTurn
<1>12. CASE StorePauseAttemptForTools(a)
  BY <1>12 DEF StorePauseAttemptForTools, FoldOnly, PauseAttemptForTools,
         DecidePauseAttemptForTools
<1>13. CASE StoreResumeAttemptAfterTools(a)
  BY <1>13 DEF StoreResumeAttemptAfterTools, FoldOnly, ResumeAttemptAfterTools,
         DecideResumeAttemptAfterTools
<1> QED
  BY <1>1, <1>2, <1>3, <1>4, <1>5, <1>6, <1>7, <1>8, <1>9, <1>10, <1>11,
     <1>12, <1>13 DEF StoreAttemptStep

-----------------------------------------------------------------------------
(* The rows mirror the aggregate, table by table.                          *)

\* The session-lifecycle appends keep sessions in step with the aggregate.
LEMMA LifecycleSessionMatch ==
  ASSUME IInv, IInv', StoreTypeOK, SessionRowMatches, StoreLifecycleStep
  PROVE  SessionRowMatches'
<1> USE NoneAssumption, MaxSequenceAssumption
    DEF SessionRowMatches, SaveSession, Commit, MoveAttempt, TypeOK, IInv,
    Provenance, StoreTypeOK, SessionRows, NoSession, Present, sessionVars, attemptVars, callVars
<1>1. CASE StoreCreateSession
  BY <1>1 DEF StoreCreateSession, CreateSession, DecideCreateSession
<1>2. CASE StoreRenameSession
  BY <1>2 DEF StoreRenameSession, RenameSession, DecideRenameSession
<1>3. CASE StoreArchiveSession
  BY <1>3 DEF StoreArchiveSession, ArchiveSession, DecideArchiveSession
<1>4. CASE StoreUnarchiveSession
  BY <1>4 DEF StoreUnarchiveSession, UnarchiveSession, DecideUnarchiveSession
<1>5. ASSUME NEW m \in Models,
             StoreSelectModel(m)
      PROVE  SessionRowMatches'
  BY <1>5 DEF StoreSelectModel, SelectModel, DecideSelectModel
<1>6. ASSUME NEW i \in Inputs,
             StoreAdmitPrompt(i)
      PROVE  SessionRowMatches'
  BY <1>6 DEF StoreAdmitPrompt, AdmitPrompt, DecideAdmitPrompt,
         AutomaticallyTitles
<1>7. ASSUME NEW i \in Inputs, NEW a \in Attempts,
             StoreAdmitPromptAndPrepareAttempt(i, a)
      PROVE  SessionRowMatches'
  BY <1>7 DEF StoreAdmitPromptAndPrepareAttempt, InsertAttempt,
         AdmitPromptAndPrepareAttempt,
         DecideAdmitPromptAndPrepareAttempt, DecideAdmitPrompt,
         AutomaticallyTitles, Prepare
<1>8. ASSUME NEW a \in Attempts, NEW i \in Inputs,
             NEW prior \in Attempts \cup {None},
             StorePrepareAttempt(a, i, prior)
      PROVE  SessionRowMatches'
  BY <1>8 DEF StorePrepareAttempt, InsertAttempt, PrepareAttempt,
         DecidePrepareAttempt, Prepare
<1> QED
  BY <1>1, <1>2, <1>3, <1>4, <1>5, <1>6, <1>7, <1>8 DEF StoreLifecycleStep

\* The provider-attempt appends keep sessions in step with the aggregate.
LEMMA AttemptSessionMatch ==
  ASSUME NEW a \in Attempts, IInv, IInv', StoreTypeOK, SessionRowMatches, StoreAttemptStep(a)
  PROVE  SessionRowMatches'
<1> USE NoneAssumption, MaxSequenceAssumption
    DEF SessionRowMatches, SaveSession, Commit, MoveAttempt, TypeOK, IInv,
    Provenance, StoreTypeOK, SessionRows, NoSession, Present, sessionVars, attemptVars, callVars
<1>1. CASE StoreStartAttempt(a)
  BY <1>1 DEF StoreStartAttempt, StartAttempt, DecideStartAttempt
<1>2. CASE StoreAppendAttemptText(a)
  BY <1>2 DEF StoreAppendAttemptText, RecordOutput, DecideRecordOutput
<1>3. CASE StoreRecordAttemptUsage(a)
  BY <1>3 DEF StoreRecordAttemptUsage, RecordOutput, DecideRecordOutput
<1>4. CASE StoreRequestAttemptCancellation(a)
  BY <1>4 DEF StoreRequestAttemptCancellation, RequestAttemptCancellation,
         DecideRequestAttemptCancellation
<1>5. CASE StoreCompleteAttempt(a)
  BY <1>5 DEF StoreCompleteAttempt, SettleRow, CompleteAttempt,
         DecideCompleteAttempt
<1>6. ASSUME NEW advised \in BOOLEAN,
             StoreFailAttempt(a, advised)
      PROVE  SessionRowMatches'
  BY <1>6 DEF StoreFailAttempt, SettleRow, FailAttempt, DecideFailAttempt
<1>7. CASE StoreCancelAttempt(a)
  BY <1>7 DEF StoreCancelAttempt, SettleRow, CancelAttempt, DecideCancelAttempt
<1>8. CASE StoreMarkAttemptUnknown(a)
  BY <1>8 DEF StoreMarkAttemptUnknown, SettleRow, MarkAttemptUnknown,
         DecideMarkAttemptUnknown
<1>9. ASSUME NEW limit \in TurnLimits,
             StoreConfigureRunBudget(a, limit)
      PROVE  SessionRowMatches'
  BY <1>9 DEF StoreConfigureRunBudget, FoldOnly, ConfigureRunBudget,
         DecideConfigureRunBudget
<1>10. ASSUME NEW t \in ContextTurns, NEW turn \in 1 .. NextTurn(a),
             StoreBindContextTurn(a, t, turn)
      PROVE  SessionRowMatches'
  BY <1>10 DEF StoreBindContextTurn, BindContextTurn, DecideBindContextTurn
<1>11. CASE StoreStartRunTurn(a)
  BY <1>11 DEF StoreStartRunTurn, FoldOnly, StartRunTurn, DecideStartRunTurn
<1>12. CASE StorePauseAttemptForTools(a)
  BY <1>12 DEF StorePauseAttemptForTools, FoldOnly, PauseAttemptForTools,
         DecidePauseAttemptForTools
<1>13. CASE StoreResumeAttemptAfterTools(a)
  BY <1>13 DEF StoreResumeAttemptAfterTools, FoldOnly, ResumeAttemptAfterTools,
         DecideResumeAttemptAfterTools
<1> QED
  BY <1>1, <1>2, <1>3, <1>4, <1>5, <1>6, <1>7, <1>8, <1>9, <1>10, <1>11,
     <1>12, <1>13 DEF StoreAttemptStep

\* The session-lifecycle appends keep admitted_inputs in step with the aggregate.
LEMMA LifecycleInputsMatch ==
  ASSUME IInv, IInv', StoreTypeOK, InputRowsMatch, StoreLifecycleStep
  PROVE  InputRowsMatch'
<1> USE NoneAssumption
    DEF InputRowsMatch, Provenance, RetryLineage, AttemptIn, NoRowButSession, projectionVars, foldVars, TypeOK, IInv, StoreTypeOK,
    MoveAttempt, sessionVars, attemptVars, callVars
<1>1. CASE StoreCreateSession
  BY <1>1 DEF StoreCreateSession, CreateSession, DecideCreateSession
<1>2. CASE StoreRenameSession
  BY <1>2 DEF StoreRenameSession, RenameSession, DecideRenameSession
<1>3. CASE StoreArchiveSession
  BY <1>3 DEF StoreArchiveSession, ArchiveSession, DecideArchiveSession
<1>4. CASE StoreUnarchiveSession
  BY <1>4 DEF StoreUnarchiveSession, UnarchiveSession, DecideUnarchiveSession
<1>5. ASSUME NEW m \in Models,
             StoreSelectModel(m)
      PROVE  InputRowsMatch'
  BY <1>5 DEF StoreSelectModel, SelectModel, DecideSelectModel
<1>6. ASSUME NEW i \in Inputs,
             StoreAdmitPrompt(i)
      PROVE  InputRowsMatch'
  BY <1>6 DEF StoreAdmitPrompt, AdmitPrompt, DecideAdmitPrompt,
         AutomaticallyTitles
<1>7. ASSUME NEW i \in Inputs, NEW a \in Attempts,
             StoreAdmitPromptAndPrepareAttempt(i, a)
      PROVE  InputRowsMatch'
  BY <1>7 DEF StoreAdmitPromptAndPrepareAttempt, InsertAttempt,
         AdmitPromptAndPrepareAttempt,
         DecideAdmitPromptAndPrepareAttempt, DecideAdmitPrompt,
         AutomaticallyTitles, Prepare
<1>8. ASSUME NEW a \in Attempts, NEW i \in Inputs,
             NEW prior \in Attempts \cup {None},
             StorePrepareAttempt(a, i, prior)
      PROVE  InputRowsMatch'
  <2> USE <1>8 DEF StorePrepareAttempt, InsertAttempt, PrepareAttempt,
               DecidePrepareAttempt, Prepare, CanRetry
  <2>1. i \in admitted /\ admitted' = admitted
    OBVIOUS
  <2>2. promotedBy'[i] # None
    <3>1. CASE prior = None
      BY <3>1
    <3>2. CASE prior # None
      <4>1. status[prior] # "Absent" /\ request[prior].input = i
        BY <3>2
      <4>2. inputRow[i] = "promoted"
        BY <3>2, <4>1
      <4> QED
        BY <3>2, <4>2
    <3> QED
      BY <3>1, <3>2
  <2>3. \A j \in Inputs \ {i} :
           promotedBy'[j] = promotedBy[j] /\ inputRow'[j] = inputRow[j]
    OBVIOUS
  <2>4. inputRow'[i] = "promoted"
    OBVIOUS
  <2>5. ASSUME NEW b \in Attempts, status'[b] # "Absent"
        PROVE  inputRow'[request'[b].input] = "promoted"
    <3>1. CASE b = a
      BY <3>1, <2>4
    <3>2. CASE b # a
      <4>1. status[b] # "Absent" /\ request'[b] = request[b]
        BY <2>5, <3>2
      <4>2. request[b].input \in Inputs
        BY <4>1
      <4> QED
        BY <4>1, <4>2, <2>3, <2>4
    <3> QED
      BY <3>1, <3>2
  <2>6. ASSUME NEW j \in Inputs
        PROVE  /\ inputRow'[j] = "absent" <=> j \notin admitted'
               /\ inputRow'[j] = "promoted" <=> promotedBy'[j] # None
    BY <2>1, <2>2, <2>3, <2>4
  <2> QED
    BY <2>5, <2>6
<1> QED
  BY <1>1, <1>2, <1>3, <1>4, <1>5, <1>6, <1>7, <1>8 DEF StoreLifecycleStep

\* The provider-attempt appends keep admitted_inputs in step with the aggregate.
LEMMA AttemptInputsMatch ==
  ASSUME NEW a \in Attempts, IInv, IInv', StoreTypeOK, InputRowsMatch, StoreAttemptStep(a)
  PROVE  InputRowsMatch'
<1> USE NoneAssumption
    DEF InputRowsMatch, Provenance, RetryLineage, AttemptIn, NoRowButSession, projectionVars, foldVars, TypeOK, IInv, StoreTypeOK,
    MoveAttempt, sessionVars, attemptVars, callVars
<1>1. CASE StoreStartAttempt(a)
  BY <1>1 DEF StoreStartAttempt, StartAttempt, DecideStartAttempt
<1>2. CASE StoreAppendAttemptText(a)
  BY <1>2 DEF StoreAppendAttemptText, RecordOutput, DecideRecordOutput
<1>3. CASE StoreRecordAttemptUsage(a)
  BY <1>3 DEF StoreRecordAttemptUsage, RecordOutput, DecideRecordOutput
<1>4. CASE StoreRequestAttemptCancellation(a)
  BY <1>4 DEF StoreRequestAttemptCancellation, RequestAttemptCancellation,
         DecideRequestAttemptCancellation
<1>5. CASE StoreCompleteAttempt(a)
  BY <1>5 DEF StoreCompleteAttempt, SettleRow, CompleteAttempt,
         DecideCompleteAttempt
<1>6. ASSUME NEW advised \in BOOLEAN,
             StoreFailAttempt(a, advised)
      PROVE  InputRowsMatch'
  BY <1>6 DEF StoreFailAttempt, SettleRow, FailAttempt, DecideFailAttempt
<1>7. CASE StoreCancelAttempt(a)
  BY <1>7 DEF StoreCancelAttempt, SettleRow, CancelAttempt, DecideCancelAttempt
<1>8. CASE StoreMarkAttemptUnknown(a)
  BY <1>8 DEF StoreMarkAttemptUnknown, SettleRow, MarkAttemptUnknown,
         DecideMarkAttemptUnknown
<1>9. ASSUME NEW limit \in TurnLimits,
             StoreConfigureRunBudget(a, limit)
      PROVE  InputRowsMatch'
  BY <1>9 DEF StoreConfigureRunBudget, FoldOnly, ConfigureRunBudget,
         DecideConfigureRunBudget
<1>10. ASSUME NEW t \in ContextTurns, NEW turn \in 1 .. NextTurn(a),
             StoreBindContextTurn(a, t, turn)
      PROVE  InputRowsMatch'
  BY <1>10 DEF StoreBindContextTurn, BindContextTurn, DecideBindContextTurn
<1>11. CASE StoreStartRunTurn(a)
  BY <1>11 DEF StoreStartRunTurn, FoldOnly, StartRunTurn, DecideStartRunTurn
<1>12. CASE StorePauseAttemptForTools(a)
  BY <1>12 DEF StorePauseAttemptForTools, FoldOnly, PauseAttemptForTools,
         DecidePauseAttemptForTools
<1>13. CASE StoreResumeAttemptAfterTools(a)
  BY <1>13 DEF StoreResumeAttemptAfterTools, FoldOnly, ResumeAttemptAfterTools,
         DecideResumeAttemptAfterTools
<1> QED
  BY <1>1, <1>2, <1>3, <1>4, <1>5, <1>6, <1>7, <1>8, <1>9, <1>10, <1>11,
     <1>12, <1>13 DEF StoreAttemptStep

\* The session-lifecycle appends keep provider_attempts in step with the aggregate.
LEMMA LifecycleAttemptsMatch ==
  ASSUME IInv, IInv', StoreTypeOK, AttemptRowsMatch, StoreLifecycleStep
  PROVE  AttemptRowsMatch'
<1> USE NoneAssumption
    DEF AttemptRowsMatch, NoRowButSession, projectionVars, foldVars, TypeOK, IInv, StoreTypeOK,
    RowState, MoveAttempt, AttemptIn, AttemptStatus, SettledAttempt,
    sessionVars, attemptVars, callVars, AttemptRequest, AttemptRows
<1>1. CASE StoreCreateSession
  BY <1>1 DEF StoreCreateSession, CreateSession, DecideCreateSession
<1>2. CASE StoreRenameSession
  BY <1>2 DEF StoreRenameSession, RenameSession, DecideRenameSession
<1>3. CASE StoreArchiveSession
  BY <1>3 DEF StoreArchiveSession, ArchiveSession, DecideArchiveSession
<1>4. CASE StoreUnarchiveSession
  BY <1>4 DEF StoreUnarchiveSession, UnarchiveSession, DecideUnarchiveSession
<1>5. ASSUME NEW m \in Models,
             StoreSelectModel(m)
      PROVE  AttemptRowsMatch'
  BY <1>5 DEF StoreSelectModel, SelectModel, DecideSelectModel
<1>6. ASSUME NEW i \in Inputs,
             StoreAdmitPrompt(i)
      PROVE  AttemptRowsMatch'
  BY <1>6 DEF StoreAdmitPrompt, AdmitPrompt, DecideAdmitPrompt,
         AutomaticallyTitles
<1>7. ASSUME NEW i \in Inputs, NEW a \in Attempts,
             StoreAdmitPromptAndPrepareAttempt(i, a)
      PROVE  AttemptRowsMatch'
  BY <1>7 DEF StoreAdmitPromptAndPrepareAttempt, InsertAttempt,
         AdmitPromptAndPrepareAttempt,
         DecideAdmitPromptAndPrepareAttempt, DecideAdmitPrompt,
         AutomaticallyTitles, Prepare
<1>8. ASSUME NEW a \in Attempts, NEW i \in Inputs,
             NEW prior \in Attempts \cup {None},
             StorePrepareAttempt(a, i, prior)
      PROVE  AttemptRowsMatch'
  BY <1>8 DEF StorePrepareAttempt, InsertAttempt, PrepareAttempt,
         DecidePrepareAttempt, Prepare
<1> QED
  BY <1>1, <1>2, <1>3, <1>4, <1>5, <1>6, <1>7, <1>8 DEF StoreLifecycleStep

\* The provider-attempt appends keep provider_attempts in step with the aggregate.
LEMMA AttemptAttemptsMatch ==
  ASSUME NEW a \in Attempts, IInv, IInv', StoreTypeOK, AttemptRowsMatch, StoreAttemptStep(a)
  PROVE  AttemptRowsMatch'
<1> USE NoneAssumption
    DEF AttemptRowsMatch, NoRowButSession, projectionVars, foldVars, TypeOK, IInv, StoreTypeOK,
    RowState, MoveAttempt, AttemptIn, AttemptStatus, SettledAttempt,
    sessionVars, attemptVars, callVars, AttemptRequest, AttemptRows
<1>1. CASE StoreStartAttempt(a)
  BY <1>1 DEF StoreStartAttempt, StartAttempt, DecideStartAttempt
<1>2. CASE StoreAppendAttemptText(a)
  BY <1>2 DEF StoreAppendAttemptText, RecordOutput, DecideRecordOutput
<1>3. CASE StoreRecordAttemptUsage(a)
  BY <1>3 DEF StoreRecordAttemptUsage, RecordOutput, DecideRecordOutput
<1>4. CASE StoreRequestAttemptCancellation(a)
  BY <1>4 DEF StoreRequestAttemptCancellation, RequestAttemptCancellation,
         DecideRequestAttemptCancellation
<1>5. CASE StoreCompleteAttempt(a)
  BY <1>5 DEF StoreCompleteAttempt, SettleRow, CompleteAttempt,
         DecideCompleteAttempt
<1>6. ASSUME NEW advised \in BOOLEAN,
             StoreFailAttempt(a, advised)
      PROVE  AttemptRowsMatch'
  BY <1>6 DEF StoreFailAttempt, SettleRow, FailAttempt, DecideFailAttempt
<1>7. CASE StoreCancelAttempt(a)
  BY <1>7 DEF StoreCancelAttempt, SettleRow, CancelAttempt, DecideCancelAttempt
<1>8. CASE StoreMarkAttemptUnknown(a)
  BY <1>8 DEF StoreMarkAttemptUnknown, SettleRow, MarkAttemptUnknown,
         DecideMarkAttemptUnknown
<1>9. ASSUME NEW limit \in TurnLimits,
             StoreConfigureRunBudget(a, limit)
      PROVE  AttemptRowsMatch'
  BY <1>9 DEF StoreConfigureRunBudget, FoldOnly, ConfigureRunBudget,
         DecideConfigureRunBudget
<1>10. ASSUME NEW t \in ContextTurns, NEW turn \in 1 .. NextTurn(a),
             StoreBindContextTurn(a, t, turn)
      PROVE  AttemptRowsMatch'
  BY <1>10 DEF StoreBindContextTurn, BindContextTurn, DecideBindContextTurn
<1>11. CASE StoreStartRunTurn(a)
  BY <1>11 DEF StoreStartRunTurn, FoldOnly, StartRunTurn, DecideStartRunTurn
<1>12. CASE StorePauseAttemptForTools(a)
  BY <1>12 DEF StorePauseAttemptForTools, FoldOnly, PauseAttemptForTools,
         DecidePauseAttemptForTools
<1>13. CASE StoreResumeAttemptAfterTools(a)
  BY <1>13 DEF StoreResumeAttemptAfterTools, FoldOnly, ResumeAttemptAfterTools,
         DecideResumeAttemptAfterTools
<1> QED
  BY <1>1, <1>2, <1>3, <1>4, <1>5, <1>6, <1>7, <1>8, <1>9, <1>10, <1>11,
     <1>12, <1>13 DEF StoreAttemptStep

\* The session-lifecycle appends keep transcript_messages in step with the aggregate.
LEMMA LifecycleMessagesMatch ==
  ASSUME IInv, IInv', StoreTypeOK, MessagesMatch, StoreLifecycleStep
  PROVE  MessagesMatch'
<1> USE NoneAssumption
    DEF MessagesMatch, MessageState, NoRowButSession, projectionVars, foldVars, TypeOK, IInv, StoreTypeOK,
    RowState, MoveAttempt, AttemptIn, AttemptStatus, SettledAttempt,
    sessionVars, attemptVars, callVars
<1>1. CASE StoreCreateSession
  BY <1>1 DEF StoreCreateSession, CreateSession, DecideCreateSession
<1>2. CASE StoreRenameSession
  BY <1>2 DEF StoreRenameSession, RenameSession, DecideRenameSession
<1>3. CASE StoreArchiveSession
  BY <1>3 DEF StoreArchiveSession, ArchiveSession, DecideArchiveSession
<1>4. CASE StoreUnarchiveSession
  BY <1>4 DEF StoreUnarchiveSession, UnarchiveSession, DecideUnarchiveSession
<1>5. ASSUME NEW m \in Models,
             StoreSelectModel(m)
      PROVE  MessagesMatch'
  BY <1>5 DEF StoreSelectModel, SelectModel, DecideSelectModel
<1>6. ASSUME NEW i \in Inputs,
             StoreAdmitPrompt(i)
      PROVE  MessagesMatch'
  BY <1>6 DEF StoreAdmitPrompt, AdmitPrompt, DecideAdmitPrompt,
         AutomaticallyTitles
<1>7. ASSUME NEW i \in Inputs, NEW a \in Attempts,
             StoreAdmitPromptAndPrepareAttempt(i, a)
      PROVE  MessagesMatch'
  BY <1>7 DEF StoreAdmitPromptAndPrepareAttempt, InsertAttempt,
         AdmitPromptAndPrepareAttempt,
         DecideAdmitPromptAndPrepareAttempt, DecideAdmitPrompt,
         AutomaticallyTitles, Prepare
<1>8. ASSUME NEW a \in Attempts, NEW i \in Inputs,
             NEW prior \in Attempts \cup {None},
             StorePrepareAttempt(a, i, prior)
      PROVE  MessagesMatch'
  BY <1>8 DEF StorePrepareAttempt, InsertAttempt, PrepareAttempt,
         DecidePrepareAttempt, Prepare
<1> QED
  BY <1>1, <1>2, <1>3, <1>4, <1>5, <1>6, <1>7, <1>8 DEF StoreLifecycleStep

\* The provider-attempt appends keep transcript_messages in step with the aggregate.
LEMMA AttemptMessagesMatch ==
  ASSUME NEW a \in Attempts, IInv, IInv', StoreTypeOK, MessagesMatch, StoreAttemptStep(a)
  PROVE  MessagesMatch'
<1> USE NoneAssumption
    DEF MessagesMatch, MessageState, NoRowButSession, projectionVars, foldVars, TypeOK, IInv, StoreTypeOK,
    RowState, MoveAttempt, AttemptIn, AttemptStatus, SettledAttempt,
    sessionVars, attemptVars, callVars
<1>1. CASE StoreStartAttempt(a)
  BY <1>1 DEF StoreStartAttempt, StartAttempt, DecideStartAttempt
<1>2. CASE StoreAppendAttemptText(a)
  BY <1>2 DEF StoreAppendAttemptText, RecordOutput, DecideRecordOutput
<1>3. CASE StoreRecordAttemptUsage(a)
  BY <1>3 DEF StoreRecordAttemptUsage, RecordOutput, DecideRecordOutput
<1>4. CASE StoreRequestAttemptCancellation(a)
  BY <1>4 DEF StoreRequestAttemptCancellation, RequestAttemptCancellation,
         DecideRequestAttemptCancellation
<1>5. CASE StoreCompleteAttempt(a)
  BY <1>5 DEF StoreCompleteAttempt, SettleRow, CompleteAttempt,
         DecideCompleteAttempt
<1>6. ASSUME NEW advised \in BOOLEAN,
             StoreFailAttempt(a, advised)
      PROVE  MessagesMatch'
  BY <1>6 DEF StoreFailAttempt, SettleRow, FailAttempt, DecideFailAttempt
<1>7. CASE StoreCancelAttempt(a)
  BY <1>7 DEF StoreCancelAttempt, SettleRow, CancelAttempt, DecideCancelAttempt
<1>8. CASE StoreMarkAttemptUnknown(a)
  BY <1>8 DEF StoreMarkAttemptUnknown, SettleRow, MarkAttemptUnknown,
         DecideMarkAttemptUnknown
<1>9. ASSUME NEW limit \in TurnLimits,
             StoreConfigureRunBudget(a, limit)
      PROVE  MessagesMatch'
  BY <1>9 DEF StoreConfigureRunBudget, FoldOnly, ConfigureRunBudget,
         DecideConfigureRunBudget
<1>10. ASSUME NEW t \in ContextTurns, NEW turn \in 1 .. NextTurn(a),
             StoreBindContextTurn(a, t, turn)
      PROVE  MessagesMatch'
  BY <1>10 DEF StoreBindContextTurn, BindContextTurn, DecideBindContextTurn
<1>11. CASE StoreStartRunTurn(a)
  BY <1>11 DEF StoreStartRunTurn, FoldOnly, StartRunTurn, DecideStartRunTurn
<1>12. CASE StorePauseAttemptForTools(a)
  BY <1>12 DEF StorePauseAttemptForTools, FoldOnly, PauseAttemptForTools,
         DecidePauseAttemptForTools
<1>13. CASE StoreResumeAttemptAfterTools(a)
  BY <1>13 DEF StoreResumeAttemptAfterTools, FoldOnly, ResumeAttemptAfterTools,
         DecideResumeAttemptAfterTools
<1> QED
  BY <1>1, <1>2, <1>3, <1>4, <1>5, <1>6, <1>7, <1>8, <1>9, <1>10, <1>11,
     <1>12, <1>13 DEF StoreAttemptStep

\* The session-lifecycle appends keep the fold over session_events in step with the aggregate.
LEMMA LifecycleFoldMatch ==
  ASSUME IInv, IInv', StoreTypeOK, FoldMatches, StoreLifecycleStep
  PROVE  FoldMatches'
<1> USE NoneAssumption
    DEF FoldMatches, NoRowButSession, projectionVars, foldVars, TypeOK, IInv, StoreTypeOK,
    MoveAttempt, AttemptIn, NextTurn, PendingBindings,
    sessionVars, attemptVars, callVars
<1>1. CASE StoreCreateSession
  BY <1>1 DEF StoreCreateSession, CreateSession, DecideCreateSession
<1>2. CASE StoreRenameSession
  BY <1>2 DEF StoreRenameSession, RenameSession, DecideRenameSession
<1>3. CASE StoreArchiveSession
  BY <1>3 DEF StoreArchiveSession, ArchiveSession, DecideArchiveSession
<1>4. CASE StoreUnarchiveSession
  BY <1>4 DEF StoreUnarchiveSession, UnarchiveSession, DecideUnarchiveSession
<1>5. ASSUME NEW m \in Models,
             StoreSelectModel(m)
      PROVE  FoldMatches'
  BY <1>5 DEF StoreSelectModel, SelectModel, DecideSelectModel
<1>6. ASSUME NEW i \in Inputs,
             StoreAdmitPrompt(i)
      PROVE  FoldMatches'
  BY <1>6 DEF StoreAdmitPrompt, AdmitPrompt, DecideAdmitPrompt,
         AutomaticallyTitles
<1>7. ASSUME NEW i \in Inputs, NEW a \in Attempts,
             StoreAdmitPromptAndPrepareAttempt(i, a)
      PROVE  FoldMatches'
  BY <1>7 DEF StoreAdmitPromptAndPrepareAttempt, InsertAttempt,
         AdmitPromptAndPrepareAttempt,
         DecideAdmitPromptAndPrepareAttempt, DecideAdmitPrompt,
         AutomaticallyTitles, Prepare
<1>8. ASSUME NEW a \in Attempts, NEW i \in Inputs,
             NEW prior \in Attempts \cup {None},
             StorePrepareAttempt(a, i, prior)
      PROVE  FoldMatches'
  BY <1>8 DEF StorePrepareAttempt, InsertAttempt, PrepareAttempt,
         DecidePrepareAttempt, Prepare
<1> QED
  BY <1>1, <1>2, <1>3, <1>4, <1>5, <1>6, <1>7, <1>8 DEF StoreLifecycleStep

\* The provider-attempt appends keep the fold over session_events in step with the aggregate.
LEMMA AttemptFoldMatch ==
  ASSUME NEW a \in Attempts, IInv, IInv', StoreTypeOK, FoldMatches, StoreAttemptStep(a)
  PROVE  FoldMatches'
<1> USE NoneAssumption
    DEF FoldMatches, NoRowButSession, projectionVars, foldVars, TypeOK, IInv, StoreTypeOK,
    MoveAttempt, AttemptIn, NextTurn, PendingBindings,
    sessionVars, attemptVars, callVars
<1>1. CASE StoreStartAttempt(a)
  BY <1>1 DEF StoreStartAttempt, StartAttempt, DecideStartAttempt
<1>2. CASE StoreAppendAttemptText(a)
  BY <1>2 DEF StoreAppendAttemptText, RecordOutput, DecideRecordOutput
<1>3. CASE StoreRecordAttemptUsage(a)
  BY <1>3 DEF StoreRecordAttemptUsage, RecordOutput, DecideRecordOutput
<1>4. CASE StoreRequestAttemptCancellation(a)
  BY <1>4 DEF StoreRequestAttemptCancellation, RequestAttemptCancellation,
         DecideRequestAttemptCancellation
<1>5. CASE StoreCompleteAttempt(a)
  BY <1>5 DEF StoreCompleteAttempt, SettleRow, CompleteAttempt,
         DecideCompleteAttempt
<1>6. ASSUME NEW advised \in BOOLEAN,
             StoreFailAttempt(a, advised)
      PROVE  FoldMatches'
  BY <1>6 DEF StoreFailAttempt, SettleRow, FailAttempt, DecideFailAttempt
<1>7. CASE StoreCancelAttempt(a)
  BY <1>7 DEF StoreCancelAttempt, SettleRow, CancelAttempt, DecideCancelAttempt
<1>8. CASE StoreMarkAttemptUnknown(a)
  BY <1>8 DEF StoreMarkAttemptUnknown, SettleRow, MarkAttemptUnknown,
         DecideMarkAttemptUnknown
<1>9. ASSUME NEW limit \in TurnLimits,
             StoreConfigureRunBudget(a, limit)
      PROVE  FoldMatches'
  BY <1>9 DEF StoreConfigureRunBudget, FoldOnly, ConfigureRunBudget,
         DecideConfigureRunBudget
<1>10. ASSUME NEW t \in ContextTurns, NEW turn \in 1 .. NextTurn(a),
             StoreBindContextTurn(a, t, turn)
      PROVE  FoldMatches'
  <2> USE <1>10 DEF StoreBindContextTurn, BindContextTurn, DecideBindContextTurn
  <2>1. foldTurns' = turnsStarted' /\ foldReady' = dispatchReady'
          /\ foldLimit' = maxTurns'
    OBVIOUS
  <2>2. t \in PendingBindings(a)'
    OBVIOUS
  <2>3. ASSUME NEW b \in Attempts, b # a
        PROVE  PendingBindings(b)' = PendingBindings(b)
    BY <2>3 DEF Unbound
  <2> QED
    BY <2>1, <2>2, <2>3
<1>11. CASE StoreStartRunTurn(a)
  <2> USE <1>11 DEF StoreStartRunTurn, FoldOnly, StartRunTurn, DecideStartRunTurn
  <2>1. foldTurns' = turnsStarted' /\ foldReady' = dispatchReady'
          /\ foldLimit' = maxTurns'
    OBVIOUS
  <2>2. PendingBindings(a)' = {}
    <3>1. ASSUME NEW t \in ContextTurns, binding[t].attempt = a
          PROVE  binding[t].runTurn <= NextTurn(a)
      <4>1. binding[t].sequence # 0
        BY <3>1 DEF ExactContextPerTurn, Unbound
      <4> QED
        BY <3>1, <4>1 DEF ExactContextPerTurn
    <3>2. turnsStarted'[a] = NextTurn(a) /\ NextTurn(a) \in Nat
      OBVIOUS
    <3> QED
      BY <3>1, <3>2 DEF ContextTurnBinding
  <2>3. ASSUME NEW b \in Attempts, b # a
        PROVE  PendingBindings(b)' = PendingBindings(b)
    BY <2>3
  <2> QED
    BY <2>1, <2>2, <2>3
<1>12. CASE StorePauseAttemptForTools(a)
  BY <1>12 DEF StorePauseAttemptForTools, FoldOnly, PauseAttemptForTools,
         DecidePauseAttemptForTools
<1>13. CASE StoreResumeAttemptAfterTools(a)
  BY <1>13 DEF StoreResumeAttemptAfterTools, FoldOnly, ResumeAttemptAfterTools,
         DecideResumeAttemptAfterTools
<1> QED
  BY <1>1, <1>2, <1>3, <1>4, <1>5, <1>6, <1>7, <1>8, <1>9, <1>10, <1>11,
     <1>12, <1>13 DEF StoreAttemptStep

-----------------------------------------------------------------------------
(* The inductive invariant.                                                *)

StoreInv == IInv /\ StoreTypeOK /\ ProjectionMatchesAggregate

\* An untouched store mirrors an empty aggregate.
LEMMA StoreInvInit == StoreInit => StoreInv
<1> SUFFICES ASSUME StoreInit PROVE StoreInv
  OBVIOUS
<1> USE NoneAssumption, MaxSequenceAssumption DEF StoreInit, Init
<1>1. IInv
  BY InvariantInit
<1>2. StoreTypeOK
  BY DEF StoreTypeOK, SessionRows, AttemptRows, NoSession, NoAttempt, Unbound,
         ContextTurnBinding
<1>3. SessionRowMatches
  BY DEF SessionRowMatches, NoSession
<1>4. InputRowsMatch
  BY DEF InputRowsMatch
<1>5. AttemptRowsMatch /\ MessagesMatch
  BY DEF AttemptRowsMatch, MessagesMatch, NoAttempt, NoRequest, RowState
<1>6. bindingRow = binding
  OBVIOUS
<1>7. FoldMatches
  BY DEF FoldMatches, PendingBindings, Unbound
<1> QED
  BY <1>1, <1>2, <1>3, <1>4, <1>5, <1>6, <1>7
     DEF StoreInv, ProjectionMatchesAggregate

\* A session that has a row was created, and one that was deleted accepts
\* nothing: every append looks for the row first.
LEMMA DeletedIsFinal ==
  ASSUME StoreInv, Deleted, [StoreNext]_storeVars
  PROVE  UNCHANGED storeVars
<1>1. ~StoreLifecycleStep
  BY DEF Deleted, Present, SaveSession, StoreLifecycleStep, StoreCreateSession,
         CreateSession, DecideCreateSession, StoreRenameSession,
         StoreArchiveSession, StoreUnarchiveSession, StoreSelectModel,
         StoreAdmitPrompt, StoreAdmitPromptAndPrepareAttempt,
         StorePrepareAttempt
<1>2. \A a \in Attempts : ~StoreAttemptStep(a)
  BY DEF Deleted, Present, SaveSession, StoreAttemptStep, StoreStartAttempt,
         StoreAppendAttemptText, StoreRecordAttemptUsage,
         StoreRequestAttemptCancellation, StoreCompleteAttempt,
         StoreFailAttempt, StoreCancelAttempt, StoreMarkAttemptUnknown,
         StoreConfigureRunBudget, StoreBindContextTurn, StoreStartRunTurn,
         StorePauseAttemptForTools, StoreResumeAttemptAfterTools
<1>3. \A c \in Calls : ~StoreToolStep(c)
  BY DEF Deleted, Present, SaveSession, StoreToolStep
<1>4. \A expected \in 0 .. MaxSequence : ~DeleteSession(expected)
  BY DEF Deleted, DeleteSession
<1> QED
  BY <1>1, <1>2, <1>3, <1>4 DEF StoreNext

\* context_turn_bindings repeats the aggregate's bindings.
LEMMA BindingsMatch ==
  ASSUME IInv, bindingRow = binding,
         StoreLifecycleStep \/ \E a \in Attempts : StoreAttemptStep(a)
  PROVE  bindingRow' = binding'
<1> USE DEF NoRowButSession, projectionVars, MoveAttempt, Commit, FoldOnly
<1>1. CASE StoreLifecycleStep
  BY <1>1 DEF StoreLifecycleStep, StoreCreateSession, StoreRenameSession,
         StoreArchiveSession, StoreUnarchiveSession, StoreSelectModel,
         StoreAdmitPrompt, StoreAdmitPromptAndPrepareAttempt,
         StorePrepareAttempt, InsertAttempt, CreateSession, RenameSession,
         ArchiveSession, UnarchiveSession, SelectModel, AdmitPrompt,
         AdmitPromptAndPrepareAttempt, PrepareAttempt
<1>2. ASSUME NEW a \in Attempts, StoreAttemptStep(a)
      PROVE  bindingRow' = binding'
  <2>1. ASSUME NEW t \in ContextTurns, NEW turn \in 1 .. NextTurn(a),
               StoreBindContextTurn(a, t, turn)
        PROVE  bindingRow' = binding'
    BY <2>1 DEF StoreBindContextTurn, BindContextTurn
  <2>2. CASE ~ \E t \in ContextTurns, turn \in 1 .. NextTurn(a) :
                  StoreBindContextTurn(a, t, turn)
    BY <1>2, <2>2 DEF StoreAttemptStep, StoreStartAttempt,
         StoreAppendAttemptText, StoreRecordAttemptUsage,
         StoreRequestAttemptCancellation, StoreCompleteAttempt,
         StoreFailAttempt, StoreCancelAttempt, StoreMarkAttemptUnknown,
         StoreConfigureRunBudget, StoreStartRunTurn,
         StorePauseAttemptForTools, StoreResumeAttemptAfterTools, SettleRow,
         StartAttempt, RecordOutput, RequestAttemptCancellation,
         CompleteAttempt, FailAttempt, CancelAttempt, MarkAttemptUnknown,
         ConfigureRunBudget, StartRunTurn, PauseAttemptForTools,
         ResumeAttemptAfterTools
  <2> QED
    BY <2>1, <2>2
<1> QED
  BY <1>1, <1>2

\* Tool commands leave the mirror intact.
LEMMA ToolRowsMatch ==
  ASSUME NEW c \in Calls, IInv, IInv', StoreTypeOK, SessionRowMatches,
         InputRowsMatch, AttemptRowsMatch, MessagesMatch, bindingRow = binding,
         FoldMatches, StoreToolStep(c)
  PROVE  /\ StoreTypeOK'
         /\ SessionRowMatches' /\ InputRowsMatch' /\ AttemptRowsMatch'
         /\ MessagesMatch' /\ bindingRow' = binding' /\ FoldMatches'
<1>1. /\ UNCHANGED <<sessionVars, attemptVars, binding>>
      /\ UNCHANGED projectionVars
      /\ lastSequence' \in 0 .. MaxSequence
      /\ Present
      /\ sessionRow' = [sessionRow EXCEPT !.version = lastSequence']
  BY ToolFrame DEF StoreToolStep, SaveSession, NoRowButSession, IInv, TypeOK
<1> USE <1>1 DEF sessionVars, attemptVars, projectionVars, foldVars
<1>2. StoreTypeOK'
  BY DEF StoreTypeOK, SessionRows
<1>3. SessionRowMatches'
  BY DEF SessionRowMatches, StoreTypeOK, SessionRows, Present
<1>4. InputRowsMatch' /\ AttemptRowsMatch' /\ MessagesMatch'
  BY DEF InputRowsMatch, AttemptRowsMatch, MessagesMatch
<1>5. bindingRow' = binding' /\ FoldMatches'
  BY DEF FoldMatches, PendingBindings, NextTurn
<1> QED
  BY <1>2, <1>3, <1>4, <1>5

\* Every append and every deletion keeps the mirror.
LEMMA StoreInvStep == StoreInv /\ [StoreNext]_storeVars => StoreInv'
<1> SUFFICES ASSUME StoreInv, [StoreNext]_storeVars PROVE StoreInv'
  OBVIOUS
<1>1. IInv'
  BY InvariantStep, StoreStepIsSessionStep DEF StoreInv
<1>2. CASE Deleted \/ UNCHANGED storeVars
  <2>1. UNCHANGED storeVars
    BY <1>2, DeletedIsFinal
  <2> QED
    BY <2>1, <1>1 DEF StoreInv, storeVars, vars, rowVars, sessionVars,
       attemptVars, projectionVars, foldVars, StoreTypeOK,
       ProjectionMatchesAggregate, Deleted, Present, SessionRowMatches,
       InputRowsMatch, AttemptRowsMatch, MessagesMatch, FoldMatches,
       PendingBindings, NextTurn
<1>3. CASE ~Deleted /\ ~UNCHANGED storeVars
  <2>1. /\ IInv /\ StoreTypeOK /\ TypeOK /\ TypeOK'
        /\ SessionRowMatches /\ InputRowsMatch /\ AttemptRowsMatch
        /\ MessagesMatch /\ bindingRow = binding /\ FoldMatches
    BY <1>1, <1>3 DEF StoreInv, ProjectionMatchesAggregate, IInv
  <2>2. CASE StoreLifecycleStep
    BY <1>1, <2>1, <2>2, LifecycleRowsType, LifecycleSessionMatch,
       LifecycleInputsMatch, LifecycleAttemptsMatch, LifecycleMessagesMatch,
       LifecycleFoldMatch, BindingsMatch
       DEF StoreInv, ProjectionMatchesAggregate
  <2>3. ASSUME NEW a \in Attempts, StoreAttemptStep(a) PROVE StoreInv'
    BY <1>1, <2>1, <2>3, AttemptRowsType, AttemptSessionMatch,
       AttemptInputsMatch, AttemptAttemptsMatch, AttemptMessagesMatch,
       AttemptFoldMatch, BindingsMatch
       DEF StoreInv, ProjectionMatchesAggregate
  <2>4. ASSUME NEW c \in Calls, StoreToolStep(c) PROVE StoreInv'
    BY <1>1, <2>1, <2>4, ToolRowsMatch
       DEF StoreInv, ProjectionMatchesAggregate
  <2>5. ASSUME NEW expected \in 0 .. MaxSequence, DeleteSession(expected)
        PROVE  StoreInv'
    <3>1. Deleted'
      BY <2>1, <2>5 DEF DeleteSession, Deleted, Present, SessionRowMatches,
         vars, sessionVars
    <3>2. StoreTypeOK'
      BY <2>5, MaxSequenceAssumption DEF DeleteSession, StoreTypeOK,
         SessionRows, AttemptRows, NoSession, NoAttempt, Unbound,
         ContextTurnBinding
    <3> QED
      BY <1>1, <3>1, <3>2 DEF StoreInv, ProjectionMatchesAggregate
  <2> QED
    BY <1>3, <2>2, <2>3, <2>4, <2>5 DEF StoreNext
<1> QED
  BY <1>2, <1>3

\* The invariant holds in every reachable state of aggregate and store.
THEOREM StoreInvariantHolds == StoreSpec => []StoreInv
  BY StoreInvInit, StoreInvStep, PTL DEF StoreSpec

-----------------------------------------------------------------------------
(* The theorems.                                                           *)

\* The rows of a session that was not deleted say what its aggregate says.
THEOREM ProjectionSafe == StoreSpec => []ProjectionMatchesAggregate
<1>1. StoreInv => ProjectionMatchesAggregate
  BY DEF StoreInv
<1> QED
  BY <1>1, StoreInvariantHolds, PTL

\* The mirror makes the store's checks redundant: decide's are stronger.
LEMMA MirrorAccepts == StoreInv => StoreAcceptsDecisions
<1> SUFFICES ASSUME StoreInv, ~Deleted PROVE StoreAcceptsDecisions
  BY DEF StoreAcceptsDecisions
<1> USE NoneAssumption
<1>1. /\ IInv /\ StoreTypeOK /\ TypeOK /\ Provenance /\ RetryLineage
      /\ ExactContextPerTurn
      /\ SessionRowMatches /\ InputRowsMatch /\ AttemptRowsMatch
      /\ MessagesMatch /\ bindingRow = binding /\ FoldMatches
  BY DEF StoreInv, ProjectionMatchesAggregate, IInv
<1>2. sessionRow.version = lastSequence
  BY <1>1 DEF SessionRowMatches
<1>3. ASSUME NEW i \in Inputs, NEW a \in Attempts
      PROVE  /\ DecideAdmitPrompt(i) => AcceptInput(i)
             /\ DecideAdmitPromptAndPrepareAttempt(i, a) =>
                  AcceptInput(i) /\ AcceptPrepare(a, i, None, TRUE)
             /\ \A prior \in Attempts \cup {None} :
                  DecidePrepareAttempt(a, i, prior) =>
                    AcceptPrepare(a, i, prior, inputRow[i] # "absent")
  BY <1>1 DEF DecideAdmitPrompt, DecideAdmitPromptAndPrepareAttempt,
     DecidePrepareAttempt, AcceptInput, AcceptPrepare, InputRowsMatch,
     AttemptRowsMatch, CanRetry, RowState, SettledRow
<1>4. ASSUME NEW a \in Attempts
      PROVE  /\ DecideStartAttempt(a) => AcceptStart(a)
             /\ DecideRecordOutput(a) => AcceptText(a) /\ AcceptUsage(a)
             /\ DecideRequestAttemptCancellation(a) => AcceptCancellation(a)
             /\ DecideCompleteAttempt(a) => AcceptSettle(a, "completed")
             /\ DecideFailAttempt(a) => AcceptSettle(a, "failed")
             /\ DecideCancelAttempt(a) => AcceptSettle(a, "cancelled")
             /\ DecideMarkAttemptUnknown(a) => AcceptSettle(a, "unknown")
  BY <1>1 DEF AttemptIn, DecideStartAttempt, DecideRecordOutput,
     DecideRequestAttemptCancellation, DecideCompleteAttempt,
     DecideFailAttempt, DecideCancelAttempt, DecideMarkAttemptUnknown,
     AcceptStart, AcceptText, AcceptUsage, AcceptCancellation, AcceptSettle,
     AttemptRowsMatch, MessagesMatch, RowState, SettledAttempt
<1>5. ASSUME NEW a \in Attempts, NEW t \in ContextTurns,
             NEW turn \in 1 .. NextTurn(a), DecideBindContextTurn(a, t, turn)
      PROVE  AcceptBind(a, t, turn)
  <2>1. ASSUME NEW u \in ContextTurns, bindingRow[u].attempt = a
        PROVE  bindingRow[u].runTurn # turn
    BY <1>1, <1>5, <2>1 DEF DecideBindContextTurn, PendingBindings
  <2> QED
    BY <1>1, <1>5, <2>1 DEF DecideBindContextTurn, AcceptBind, AttemptIn,
       AttemptRowsMatch, RowState, FoldMatches, NextTurn, WithinTurnLimit
<1>6. ASSUME NEW a \in Attempts, DecideStartRunTurn(a)
      PROVE  AcceptRunTurn(a, NextTurn(a))
  BY <1>1, <1>6 DEF DecideStartRunTurn, AcceptRunTurn, PendingBindings
<1> QED
  BY <1>2, <1>3, <1>4, <1>5, <1>6 DEF StoreAcceptsDecisions

\* No accepted command of an existing session is refused by the append.
THEOREM AppendSafe == StoreSpec => []StoreAcceptsDecisions
  BY MirrorAccepts, StoreInvariantHolds, PTL

\* A deletion that passes the row check erases no attempt and no tool call
\* that could still make progress.
THEOREM DeletionSafe == StoreSpec => DeletionLosesNoWork
<1>1. StoreInv /\ [StoreNext]_storeVars => [DeletionStep]_storeVars
  <2> SUFFICES ASSUME StoreInv, StoreNext, Present, sessionRow' = NoSession
               PROVE  DeletionStep
    BY DEF DeletionStep
  <2>1. SessionRowMatches /\ AttemptRowsMatch /\ created
    BY DEF StoreInv, ProjectionMatchesAggregate, Deleted, Present,
           SessionRowMatches
  <2>2. \A row : SaveSession(row) /\ row.status # "absent" /\ row \in SessionRows
                  => sessionRow' # NoSession
    BY DEF SaveSession, SessionRows, NoSession
  <2>3. /\ sessionRow \in SessionRows /\ sessionRow.status # "absent"
        /\ ~SaveSession(sessionRow)
    BY <2>1, <2>2 DEF StoreInv, StoreTypeOK, SessionRowMatches
  <2>4. ~StoreLifecycleStep
    <3>1. ASSUME NEW to \in {"active", "archived"}
          PROVE  ~SaveSession([sessionRow EXCEPT !.status = to])
      BY <2>2, <2>3 DEF SessionRows
    <3>2. ASSUME NEW m \in Models
          PROVE  ~SaveSession([sessionRow EXCEPT !.model = m])
      BY <2>2, <2>3 DEF SessionRows
    <3> QED
      BY <2>1, <2>3, <3>1, <3>2 DEF StoreLifecycleStep, StoreCreateSession,
         CreateSession, DecideCreateSession, StoreRenameSession,
         StoreArchiveSession, StoreUnarchiveSession, StoreSelectModel,
         StoreAdmitPrompt, StoreAdmitPromptAndPrepareAttempt,
         StorePrepareAttempt
  <2>5. /\ \A a \in Attempts : ~StoreAttemptStep(a)
        /\ \A c \in Calls : ~StoreToolStep(c)
    BY <2>3 DEF StoreAttemptStep, StoreStartAttempt, StoreAppendAttemptText,
       StoreRecordAttemptUsage, StoreRequestAttemptCancellation,
       StoreCompleteAttempt, StoreFailAttempt, StoreCancelAttempt,
       StoreMarkAttemptUnknown, StoreConfigureRunBudget, StoreBindContextTurn,
       StoreStartRunTurn, StorePauseAttemptForTools,
       StoreResumeAttemptAfterTools, StoreToolStep
  <2>6. NothingUnsettled
    BY <2>4, <2>5 DEF StoreNext, DeleteSession
  <2>7. \A a \in Attempts : status[a] \in SettledAttempt \cup {"Absent"}
    BY <2>1, <2>6 DEF NothingUnsettled, UnsettledRow, AttemptRowsMatch,
       RowState, StoreInv, IInv, TypeOK, AttemptStatus, SettledAttempt
  <2>8. \A c \in Calls : callStatus[c] \in SettledCall \cup {"Absent"}
    BY <2>7 DEF StoreInv, IInv, TypeOK, SettledAttemptsHaveSettledCalls,
       SettledAttempt, ToolCallStatus
  <2> QED
    BY <2>7, <2>8 DEF DeletionStep
<1> QED
  BY <1>1, StoreInvariantHolds, PTL DEF StoreSpec, DeletionLosesNoWork

\* The aggregate a deletion leaves behind in memory never writes again.
THEOREM NoResurrection == StoreSpec => DeletedSessionStaysDeleted
<1>1. StoreInv /\ [StoreNext]_storeVars => [ResurrectionStep]_storeVars
  BY DeletedIsFinal DEF ResurrectionStep
<1> QED
  BY <1>1, StoreInvariantHolds, PTL DEF StoreSpec, DeletedSessionStaysDeleted

-----------------------------------------------------------------------------
(* Whatever is appended can be read back.                                  *)

\* The readers watch the store and never disturb it.
LEMMA ReadsStepIsStoreStep == [ReadsNext]_readsVars => [StoreNext]_storeVars
<1> SUFFICES ASSUME [ReadsNext]_readsVars PROVE [StoreNext]_storeVars
  OBVIOUS
<1>1. ReadLifecycleStep => StoreLifecycleStep
  BY DEF ReadLifecycleStep, StoreLifecycleStep
<1>2. ASSUME NEW a \in Attempts, ReadAttemptStep(a) PROVE StoreAttemptStep(a)
  BY <1>2 DEF ReadAttemptStep, StoreAttemptStep
<1>3. ASSUME NEW c \in Calls, ReadToolStep(c) PROVE StoreToolStep(c)
  BY <1>3 DEF ReadToolStep, StoreTool, StoreToolStep, ToolStep
<1>4. ReadDeletion => \E expected \in 0 .. MaxSequence : DeleteSession(expected)
  BY DEF ReadDeletion
<1> QED
  BY <1>1, <1>2, <1>3, <1>4 DEF ReadsNext, StoreNext, readsVars

\* The store with its readers implements the store, and so the aggregate: what
\* the other proof modules show holds of the composition the run checks.
THEOREM ReadsImplementStore == ReadsSpec => StoreSpec
<1>1. ReadsInit => StoreInit
  BY DEF ReadsInit
<1> QED
  BY <1>1, ReadsStepIsStoreStep, PTL DEF ReadsSpec, StoreSpec

-----------------------------------------------------------------------------
(* The columns and the stream check.                                       *)

ColumnSets ==
    [ promoted : SUBSET Inputs, started : SUBSET Attempts,
      settled : [Attempts -> SettlesAttempt \cup {None}],
      failure : SUBSET Attempts, segments : SUBSET Attempts ]
StreamSets ==
    [created : BOOLEAN, inputs : SUBSET Inputs, count : Nat, valid : BOOLEAN]

ColumnsType == columns \in ColumnSets /\ streamCheck \in StreamSets

\* An attempt without a row has no columns either.
AttemptColumns(a) ==
    IF attemptRow[a].state = "absent"
      THEN a \notin columns.started /\ columns.settled[a] = None /\ a \notin columns.failure
      ELSE AttemptReadable(a)

StreamMatches ==
    /\ streamCheck.valid
    /\ streamCheck.created <=> Present
    /\ streamCheck.count = sessionRow.version
    /\ \A i \in Inputs : i \in streamCheck.inputs <=> inputRow[i] # "absent"

RowsInv ==
    /\ ColumnsType
    /\ StreamMatches
    /\ \A i \in Inputs : InputReadable(i)
    /\ \A a \in Attempts : AttemptColumns(a) /\ MessageReadable(a)

\* Nothing is written, nothing is read.
LEMMA RowsInvInit == ReadsInit => RowsInv
  BY NoneAssumption DEF ReadsInit, StoreInit, NoColumns, NoStream, RowsInv, ColumnsType,
     ColumnSets, StreamSets,
     StreamMatches, InputReadable, AttemptColumns, MessageReadable, HasSegment,
     NoSession, NoAttempt, Present

\* Every append leaves a session behind whose version it has raised.
LEMMA Saved ==
  ASSUME TypeOK, NEW row, SaveSession(row), row \in SessionRows, NEW n \in Nat \ {0}, Commit(n)
  PROVE  Present /\ Present' /\ sessionRow'.version = sessionRow.version + n
  BY MaxSequenceAssumption DEF TypeOK, SaveSession, SessionRows, Commit, Present, NoSession

Sound(inputs, count) ==
    [created |-> TRUE, inputs |-> inputs, count |-> count, valid |-> TRUE]

\* An event that is neither a creation nor an admission is one more in the
\* stream, and nothing else.
LEMMA StreamQuiet ==
  ASSUME NEW e, ColumnsType, StreamMatches, Present,
         e.kind \notin {"SessionCreated", "InputAdmitted"}
  PROVE  StreamAfter(streamCheck, e) = Sound(streamCheck.inputs, streamCheck.count + 1)
  BY DEF ColumnsType, ColumnSets, StreamSets, StreamMatches, StreamAfter, StreamAccepts, Sound

ColumnEvents ==
    {"AttemptPrepared", "AttemptStarted", "AttemptTextAppended"} \cup SettlesAttempt

\* Any other event writes no column.
LEMMA ColumnsQuiet ==
  ASSUME NEW e, e.kind \notin ColumnEvents
  PROVE  ColumnsAfter(columns, e) = columns
  BY DEF ColumnsAfter, ColumnEvents

\* A step whose event changes no row but the session's.
LEMMA QuietRows ==
  ASSUME RowsInv, Present, Present', NEW e,
         e.kind \notin ColumnEvents, e.kind \notin {"SessionCreated", "InputAdmitted"},
         Emit(e), UNCHANGED <<inputRow, attemptRow, message>>,
         sessionRow'.version = sessionRow.version + 1
  PROVE  RowsInv'
<1>1. columns' = columns /\ streamCheck' = Sound(streamCheck.inputs, streamCheck.count + 1)
  BY StreamQuiet, ColumnsQuiet DEF Emit, RowsInv
<1> QED
  BY <1>1 DEF Sound, RowsInv, ColumnsType, ColumnSets, StreamSets, StreamMatches,
     InputReadable, AttemptColumns,
     AttemptReadable, MessageReadable, HasSegment

\* What each payload says.
LEMMA Fields ==
  ASSUME NEW k, NEW x, NEW y, NEW z
  PROVE  /\ Payload(k).kind = k /\ Payload(k).call = None
         /\ OfInput(k, x).kind = k /\ OfInput(k, x).input = x /\ OfInput(k, x).call = None
         /\ OfAttempt(k, x).kind = k /\ OfAttempt(k, x).attempt = x /\ OfAttempt(k, x).call = None
         /\ OfCall(k, x).kind = k /\ OfCall(k, x).call = x
         /\ Prepared(x, y, z).kind = "AttemptPrepared" /\ Prepared(x, y, z).attempt = x
         /\ Prepared(x, y, z).input = y /\ Prepared(x, y, z).retryOf = z
         /\ Prepared(x, y, z).call = None
         /\ ProposedEvent(x, y).kind = "ToolCallProposed" /\ ProposedEvent(x, y).call = x
         /\ ProposedEvent(x, y).attempt = y
         /\ Ruled(k, x, y).kind = k /\ Ruled(k, x, y).call = x /\ Ruled(k, x, y).verdict = y
  BY DEF Payload, OfInput, OfAttempt, OfCall, Prepared, ProposedEvent, Ruled

\* An admission, with the automatic title or without it.
LEMMA AdmissionRead ==
  ASSUME NEW i \in Inputs, RowsInv, Present, AcceptInput(i)
  PROVE  /\ AfterAdmission(ColumnsAfter, columns, i) = columns
         /\ AfterAdmission(StreamAfter, streamCheck, i) =
              Sound(streamCheck.inputs \cup {i},
                    streamCheck.count + IF AutomaticallyTitles THEN 2 ELSE 1)
<1> DEFINE e == OfInput("InputAdmitted", i)
           r == Payload("SessionRenamed")
           s == Sound(streamCheck.inputs \cup {i}, streamCheck.count + 1)
<1>1. /\ e.kind = "InputAdmitted" /\ e.input = i /\ r.kind = "SessionRenamed"
  BY Fields
<1> HIDE DEF e, r
<1>2. /\ ColumnsAfter(columns, e) = columns /\ ColumnsAfter(columns, r) = columns
  BY <1>1, ColumnsQuiet DEF ColumnEvents, SettlesAttempt
<1>3. StreamAfter(streamCheck, e) = s
  BY <1>1 DEF StreamAfter, StreamAccepts, RowsInv, ColumnsType, ColumnSets, StreamSets,
     StreamMatches, AcceptInput, Sound
<1>5. /\ s.created = TRUE /\ s.valid = TRUE
      /\ s.inputs = streamCheck.inputs \cup {i} /\ s.count = streamCheck.count + 1
  BY DEF Sound
<1>6. streamCheck.count \in Nat
  BY DEF RowsInv, ColumnsType, ColumnSets, StreamSets
<1> HIDE DEF s
<1>4. StreamAfter(s, r) = Sound(streamCheck.inputs \cup {i}, streamCheck.count + 2)
  <2>1. StreamAccepts(s, r) = TRUE
    BY <1>1, <1>5 DEF StreamAccepts
  <2>2. s.count + 1 = streamCheck.count + 2
    BY <1>5, <1>6
  <2>3. (s.created \/ r.kind = "SessionCreated") = TRUE
    BY <1>5
  <2>4. (s.valid /\ StreamAccepts(s, r)) = TRUE
    BY <1>5, <2>1
  <2> QED
    BY <1>1, <1>5, <2>2, <2>3, <2>4, Zenon DEF StreamAfter, Sound
<1> QED
  BY <1>2, <1>3, <1>4 DEF AfterAdmission, e, r, s

Written(promoted, started, settled, failure, segments) ==
    [ promoted |-> promoted, started |-> started, settled |-> settled,
      failure |-> failure, segments |-> segments ]

\* AttemptPrepared writes promoted_at_ms of its input.
LEMMA ColumnsPrepared ==
  ASSUME ColumnsType, NEW a, NEW i \in Inputs, NEW prior
  PROVE  ColumnsAfter(columns, Prepared(a, i, prior)) =
           Written(columns.promoted \cup {i}, columns.started, columns.settled,
                   columns.failure, columns.segments)
<1>1. Prepared(a, i, prior).kind = "AttemptPrepared" /\ Prepared(a, i, prior).input = i
  BY Fields
<1> QED
  BY <1>1 DEF ColumnsAfter, Written, ColumnsType, ColumnSets, StreamSets, SettlesAttempt

\* AttemptStarted writes started_at_ms.
LEMMA ColumnsStarted ==
  ASSUME ColumnsType, NEW a \in Attempts
  PROVE  ColumnsAfter(columns, OfAttempt("AttemptStarted", a)) =
           Written(columns.promoted, columns.started \cup {a}, columns.settled,
                   columns.failure, columns.segments)
<1>1. /\ OfAttempt("AttemptStarted", a).kind = "AttemptStarted"
      /\ OfAttempt("AttemptStarted", a).attempt = a
  BY Fields
<1> QED
  BY <1>1 DEF ColumnsAfter, Written, ColumnsType, ColumnSets, StreamSets, SettlesAttempt

\* AttemptTextAppended writes a segment.
LEMMA ColumnsText ==
  ASSUME ColumnsType, NEW a \in Attempts
  PROVE  ColumnsAfter(columns, OfAttempt("AttemptTextAppended", a)) =
           Written(columns.promoted, columns.started, columns.settled,
                   columns.failure, columns.segments \cup {a})
<1>1. /\ OfAttempt("AttemptTextAppended", a).kind = "AttemptTextAppended"
      /\ OfAttempt("AttemptTextAppended", a).attempt = a
  BY Fields
<1> QED
  BY <1>1 DEF ColumnsAfter, Written, ColumnsType, ColumnSets, StreamSets, SettlesAttempt

\* A settling event is cited, and a failure is kept.
LEMMA ColumnsSettled ==
  ASSUME ColumnsType, NEW a \in Attempts, NEW k \in SettlesAttempt
  PROVE  ColumnsAfter(columns, OfAttempt(k, a)) =
           Written(columns.promoted, columns.started, [columns.settled EXCEPT ![a] = k],
                   columns.failure \cup (IF k = "AttemptFailed" THEN {a} ELSE {}),
                   columns.segments)
<1>1. OfAttempt(k, a).kind = k /\ OfAttempt(k, a).attempt = a
  BY Fields
<1> USE DEF ColumnsAfter, Written, ColumnsType, ColumnSets, StreamSets, SettlesAttempt
<1>2. CASE k = "AttemptFailed"
  BY <1>1, <1>2
<1>3. CASE k # "AttemptFailed"
  <2>1. columns.failure \cup {} = columns.failure
    OBVIOUS
  <2> QED
    BY <1>1, <1>3, <2>1
<1> QED
  BY <1>2, <1>3

-----------------------------------------------------------------------------
(* Each step keeps the rows readable.                                      *)

\* The stream a step that is neither a creation nor an admission leaves.
LEMMA StreamCheckStep ==
  ASSUME RowsInv, Present, Present', NEW e,
         e.kind \notin {"SessionCreated", "InputAdmitted"}, Emit(e),
         sessionRow'.version = sessionRow.version + 1,
         \A j \in Inputs : inputRow'[j] = "absent" <=> inputRow[j] = "absent"
  PROVE  /\ StreamMatches'
         /\ streamCheck' \in StreamSets
<1>1. streamCheck' = Sound(streamCheck.inputs, streamCheck.count + 1)
  BY StreamQuiet DEF Emit, RowsInv
<1> QED
  BY <1>1 DEF Sound, RowsInv, ColumnsType, ColumnSets, StreamSets, StreamMatches

\* A new attempt: prepared, its input promoted, no column of its own yet.
LEMMA PreparedRows ==
  ASSUME RowsInv, StoreTypeOK, NEW a \in Attempts, NEW i \in Inputs, NEW prior,
         attemptRow[a].state = "absent", InsertAttempt(a, i, prior),
         columns' = ColumnsAfter(columns, Prepared(a, i, prior))
  PROVE  /\ columns' \in ColumnSets
         /\ \A j \in Inputs : InputReadable(j)'
         /\ \A b \in Attempts : AttemptColumns(b)' /\ MessageReadable(b)'
<1>1. columns' = Written(columns.promoted \cup {i}, columns.started, columns.settled,
                         columns.failure, columns.segments)
  BY ColumnsPrepared DEF RowsInv
<1>2. \A b \in Attempts :
        attemptRow'[b].state = IF b = a THEN "prepared" ELSE attemptRow[b].state
  BY DEF InsertAttempt, StoreTypeOK, AttemptRows
<1>3. \A j \in Inputs : inputRow'[j] = IF j = i THEN "promoted" ELSE inputRow[j]
  BY DEF InsertAttempt, StoreTypeOK
<1>4. message' = message
  BY DEF InsertAttempt
<1> QED
  BY <1>1, <1>2, <1>3, <1>4 DEF Written, RowsInv, ColumnsType, ColumnSets, StreamSets,
     InputReadable,
     AttemptColumns, AttemptReadable, StateReadable, MessageReadable, HasSegment

\* A started attempt.
LEMMA StartedRows ==
  ASSUME RowsInv, StoreTypeOK, NEW a \in Attempts, AcceptStart(a),
         attemptRow' = [attemptRow EXCEPT ![a].state = "in_flight"],
         UNCHANGED <<inputRow, message>>,
         columns' = ColumnsAfter(columns, OfAttempt("AttemptStarted", a))
  PROVE  /\ columns' \in ColumnSets
         /\ \A j \in Inputs : InputReadable(j)'
         /\ \A b \in Attempts : AttemptColumns(b)' /\ MessageReadable(b)'
<1>1. columns' = Written(columns.promoted, columns.started \cup {a}, columns.settled,
                         columns.failure, columns.segments)
  BY ColumnsStarted DEF RowsInv
<1>2. \A b \in Attempts :
        attemptRow'[b].state = IF b = a THEN "in_flight" ELSE attemptRow[b].state
  BY DEF StoreTypeOK, AttemptRows
<1> QED
  BY <1>1, <1>2 DEF Written, RowsInv, ColumnsType, ColumnSets, StreamSets, InputReadable,
     AcceptStart,
     AttemptColumns, AttemptReadable, StateReadable, MessageReadable, HasSegment

\* A delta: the first one inserts the message and every one inserts a segment.
LEMMA TextRows ==
  ASSUME RowsInv, StoreTypeOK, NEW a \in Attempts,
         message' = [message EXCEPT ![a] = "streaming"],
         UNCHANGED <<inputRow, attemptRow>>,
         columns' = ColumnsAfter(columns, OfAttempt("AttemptTextAppended", a))
  PROVE  /\ columns' \in ColumnSets
         /\ \A j \in Inputs : InputReadable(j)'
         /\ \A b \in Attempts : AttemptColumns(b)' /\ MessageReadable(b)'
<1>1. columns' = Written(columns.promoted, columns.started, columns.settled,
                         columns.failure, columns.segments \cup {a})
  BY ColumnsText DEF RowsInv
<1>2. \A b \in Attempts : message'[b] = IF b = a THEN "streaming" ELSE message[b]
  BY DEF StoreTypeOK
<1> QED
  BY <1>1, <1>2 DEF Written, RowsInv, ColumnsType, ColumnSets, InputReadable,
     AttemptColumns, AttemptReadable, StateReadable, MessageReadable, HasSegment

\* A settled attempt, whose settling event says what its row says.
LEMMA SettledRows ==
  ASSUME RowsInv, StoreTypeOK, NEW a \in Attempts, NEW to \in SettledRow,
         NEW k \in SettlesAttempt, SettledPayloadMatches(to, k), SettleRow(a, to),
         columns' = ColumnsAfter(columns, OfAttempt(k, a))
  PROVE  /\ columns' \in ColumnSets
         /\ \A j \in Inputs : InputReadable(j)'
         /\ \A b \in Attempts : AttemptColumns(b)' /\ MessageReadable(b)'
<1>1. columns' = Written(columns.promoted, columns.started,
                         [columns.settled EXCEPT ![a] = k],
                         columns.failure \cup (IF k = "AttemptFailed" THEN {a} ELSE {}),
                         columns.segments)
  BY ColumnsSettled DEF RowsInv
<1>2. \A b \in Attempts :
        attemptRow'[b].state = IF b = a THEN to ELSE attemptRow[b].state
  BY DEF SettleRow, StoreTypeOK, AttemptRows
<1>3. \A b \in Attempts : message'[b] = "absent" <=> message[b] = "absent"
  BY DEF SettleRow, StoreTypeOK, MessageState, SettledRow
<1>4. columns' \in ColumnSets /\ inputRow' = inputRow /\ columns'.promoted = columns.promoted
      /\ columns'.segments = columns.segments
  BY <1>1 DEF Written, RowsInv, ColumnsType, ColumnSets, SettleRow
<1>5. ASSUME NEW b \in Attempts, b # a PROVE AttemptColumns(b)'
  <2>1. /\ b \in columns'.started <=> b \in columns.started
        /\ columns'.settled[b] = columns.settled[b]
        /\ b \in columns'.failure <=> b \in columns.failure
    BY <1>1, <1>5 DEF Written, RowsInv, ColumnsType, ColumnSets
  <2>2. AttemptColumns(b) /\ attemptRow'[b].state = attemptRow[b].state
    BY <1>2, <1>5 DEF RowsInv
  <2> QED
    BY <2>1, <2>2 DEF AttemptColumns, AttemptReadable
<1>6. AttemptColumns(a)'
  <2>1. /\ a \in columns'.started <=> a \in columns.started
        /\ columns'.settled[a] = k
        /\ a \in columns'.failure <=> (a \in columns.failure \/ k = "AttemptFailed")
    BY <1>1 DEF Written, RowsInv, ColumnsType, ColumnSets
  <2>2. attemptRow'[a].state = to /\ AttemptColumns(a)
    BY <1>2 DEF RowsInv
  <2>3. k # None /\ to # "absent" /\ (to = "failed" <=> k = "AttemptFailed")
    BY AbsentAssumption DEF SettlesAttempt, SettledRow, SettledPayloadMatches
  <2>4. a \notin columns.failure
    BY <2>2 DEF AttemptColumns, AttemptReadable, SettleRow, AcceptSettle
  <2>5. a \in columns.started \/ to = "failed"
    BY <2>2 DEF AttemptColumns, AttemptReadable, StateReadable, SettleRow, AcceptSettle
  <2> QED
    BY <2>1, <2>2, <2>3, <2>4, <2>5 DEF AttemptColumns, AttemptReadable, StateReadable,
       SettledRow
<1> QED
  BY <1>3, <1>4, <1>5, <1>6 DEF RowsInv, InputReadable, MessageReadable, HasSegment

\* A prompt, with the automatic title or without it: the stream has one input
\* more, and no column changes.
LEMMA AdmittedStream ==
  ASSUME RowsInv, StoreTypeOK, Present, Present', NEW i \in Inputs, AcceptInput(i), NEW s,
         s = AfterAdmission(StreamAfter, streamCheck, i),
         inputRow'[i] # "absent",
         \A j \in Inputs \ {i} : inputRow'[j] = inputRow[j]
  PROVE  /\ s \in StreamSets /\ s.created /\ s.valid
         /\ s.count = streamCheck.count + IF AutomaticallyTitles THEN 2 ELSE 1
         /\ \A j \in Inputs : j \in s.inputs <=> inputRow'[j] # "absent"
<1>1. s = Sound(streamCheck.inputs \cup {i}, streamCheck.count + IF AutomaticallyTitles THEN 2 ELSE 1)
  BY AdmissionRead
<1> QED
  BY <1>1 DEF Sound, StreamSets, RowsInv, ColumnsType, StreamMatches

\* The session-lifecycle appends leave readable rows.
LEMMA LifecycleRowsReadable ==
  ASSUME StoreInv, RowsInv, ReadLifecycleStep
  PROVE  RowsInv'
<1>1. StoreTypeOK /\ TypeOK
  BY DEF StoreInv, IInv
<1>2. ASSUME StoreCreateSession, Emit(Payload("SessionCreated")) PROVE RowsInv'
  <2>1. ~Present /\ sessionRow = NoSession
    BY <1>2 DEF StoreCreateSession, CreateSession, DecideCreateSession, StoreInv,
       ProjectionMatchesAggregate, Deleted, Present, SessionRowMatches, StoreTypeOK, SessionRows
  <2>2. sessionRow'.version = 1 /\ Present'
    <3>1. lastSequence' = 1
      BY <1>2, <2>1 DEF StoreCreateSession, CreateSession, Commit, NoSession
    <3>2. sessionRow' = [status |-> "active", model |-> None, version |-> 1]
      BY <1>2, <3>1 DEF StoreCreateSession, NoSession
    <3> QED
      BY <3>2 DEF Present, NoSession
  <2>3. columns' = columns /\ streamCheck' = Sound(streamCheck.inputs, 1)
    <3>1. Payload("SessionCreated").kind = "SessionCreated"
      BY Fields
    <3>2. columns' = columns
      BY <1>2, <3>1, ColumnsQuiet DEF Emit, ColumnEvents, SettlesAttempt
    <3>3. streamCheck.count = 0 /\ streamCheck.created = FALSE /\ streamCheck.valid = TRUE
      BY <2>1 DEF RowsInv, StreamMatches, NoSession, ColumnsType, StreamSets
    <3>4. streamCheck' = StreamAfter(streamCheck, Payload("SessionCreated"))
      BY <1>2 DEF Emit
    <3>5. StreamAccepts(streamCheck, Payload("SessionCreated")) = TRUE
      BY <3>1, <3>3 DEF StreamAccepts
    <3>6. streamCheck.count + 1 = 1
      BY <3>3
    <3>7. (streamCheck.created \/ Payload("SessionCreated").kind = "SessionCreated") = TRUE
      BY <3>1
    <3>8. (streamCheck.valid /\ StreamAccepts(streamCheck, Payload("SessionCreated"))) = TRUE
      BY <3>3, <3>5
    <3>9. Payload("SessionCreated").kind # "InputAdmitted"
      BY <3>1
    <3> QED
      BY <3>2, <3>4, <3>6, <3>7, <3>8, <3>9, Zenon DEF StreamAfter, Sound
  <2>4. UNCHANGED <<inputRow, attemptRow, message>>
    BY <1>2 DEF StoreCreateSession, NoRowButSession, projectionVars
  <2> QED
    BY <2>2, <2>3, <2>4 DEF Sound, RowsInv, ColumnsType, ColumnSets, StreamSets, StreamMatches,
       InputReadable, AttemptColumns, AttemptReadable, MessageReadable, HasSegment
<1>3. ASSUME NEW k \in {"SessionRenamed", "SessionArchived", "SessionUnarchived", "ModelSelected"},
             Emit(Payload(k)), NEW row \in SessionRows, SaveSession(row), Commit(1),
             NoRowButSession
      PROVE  RowsInv'
  <2>1. Payload(k).kind = k
    BY Fields
  <2>2. Present /\ Present' /\ sessionRow'.version = sessionRow.version + 1
    BY <1>1, <1>3, Saved
  <2> QED
    BY <1>3, <2>1, <2>2, QuietRows DEF ColumnEvents, SettlesAttempt, NoRowButSession,
       projectionVars
<1>4. /\ sessionRow \in SessionRows
      /\ \A to \in {"active", "archived"} : [sessionRow EXCEPT !.status = to] \in SessionRows
      /\ \A m \in Models : [sessionRow EXCEPT !.model = m] \in SessionRows
  BY <1>1 DEF StoreTypeOK, SessionRows
<1>5. ASSUME NEW i \in Inputs, StoreAdmitPrompt(i), EmitAdmission(i) PROVE RowsInv'
  <2>1. /\ Present /\ Present' /\ AcceptInput(i)
        /\ sessionRow'.version = sessionRow.version + IF AutomaticallyTitles THEN 2 ELSE 1
    BY <1>1, <1>4, <1>5, Saved DEF StoreAdmitPrompt, AdmitPrompt
  <2>2. columns' = columns
    BY <1>5, <2>1, AdmissionRead DEF EmitAdmission
  <2>3. /\ UNCHANGED <<attemptRow, message>>
        /\ inputRow'[i] = "admitted"
        /\ \A j \in Inputs \ {i} : inputRow'[j] = inputRow[j]
    BY <1>1, <1>5 DEF StoreAdmitPrompt, StoreTypeOK
  <2>4. StreamMatches' /\ streamCheck' \in StreamSets
    <3>1. /\ streamCheck' \in StreamSets /\ streamCheck'.created /\ streamCheck'.valid
          /\ streamCheck'.count = streamCheck.count + IF AutomaticallyTitles THEN 2 ELSE 1
          /\ \A j \in Inputs : j \in streamCheck'.inputs <=> inputRow'[j] # "absent"
      BY <1>1, <1>5, <2>1, <2>3, AdmittedStream DEF EmitAdmission
    <3> QED
      BY <2>1, <3>1 DEF StreamMatches, RowsInv
  <2> QED
    BY <2>1, <2>2, <2>3, <2>4 DEF RowsInv, ColumnsType, InputReadable, AcceptInput,
       AttemptColumns, AttemptReadable, MessageReadable, HasSegment
<1>6. ASSUME NEW i \in Inputs, NEW a \in Attempts, StoreAdmitPromptAndPrepareAttempt(i, a),
             EmitAdmissionAndAttempt(i, a)
      PROVE  RowsInv'
  <2>1. /\ Present /\ Present' /\ AcceptInput(i)
        /\ sessionRow'.version = sessionRow.version + IF AutomaticallyTitles THEN 3 ELSE 2
    BY <1>1, <1>4, <1>6, Saved DEF StoreAdmitPromptAndPrepareAttempt,
       AdmitPromptAndPrepareAttempt
  <2>2. columns' = ColumnsAfter(columns, Prepared(a, i, None))
    BY <1>6, <2>1, AdmissionRead DEF EmitAdmissionAndAttempt
  <2>3. /\ inputRow'[i] = "promoted"
        /\ \A j \in Inputs \ {i} : inputRow'[j] = inputRow[j]
    BY <1>1, <1>6 DEF StoreAdmitPromptAndPrepareAttempt, InsertAttempt, StoreTypeOK
  <2>4. /\ columns' \in ColumnSets
        /\ \A j \in Inputs : InputReadable(j)'
        /\ \A b \in Attempts : AttemptColumns(b)' /\ MessageReadable(b)'
    BY <1>1, <1>6, <2>2, PreparedRows DEF StoreAdmitPromptAndPrepareAttempt, AcceptPrepare
  <2>5. StreamMatches' /\ streamCheck' \in StreamSets
    <3> DEFINE s == AfterAdmission(StreamAfter, streamCheck, i)
               e == Prepared(a, i, None)
    <3>1. /\ s \in StreamSets /\ s.created /\ s.valid
          /\ s.count = streamCheck.count + IF AutomaticallyTitles THEN 2 ELSE 1
          /\ \A j \in Inputs : j \in s.inputs <=> inputRow'[j] # "absent"
      BY <1>1, <2>1, <2>3, AdmittedStream
    <3>2. e.kind = "AttemptPrepared"
      BY Fields
    <3>3. streamCheck' = StreamAfter(s, e)
      BY <1>6 DEF EmitAdmissionAndAttempt
    <3>4. streamCheck.count \in Nat /\ streamCheck.count = sessionRow.version
      BY DEF RowsInv, ColumnsType, StreamSets, StreamMatches
    <3> HIDE DEF s, e
    <3>5. streamCheck' = [created |-> TRUE, inputs |-> s.inputs, count |-> s.count + 1, valid |-> TRUE]
      <4>1. s.created = TRUE /\ s.valid = TRUE
        BY <3>1 DEF StreamSets
      <4> QED
        BY <3>2, <3>3, <4>1 DEF StreamAfter, StreamAccepts
    <3> QED
      BY <2>1, <3>1, <3>4, <3>5 DEF StreamMatches, StreamSets
  <2> QED
    BY <2>4, <2>5 DEF RowsInv, ColumnsType
<1>7. ASSUME NEW a \in Attempts, NEW i \in Inputs, NEW prior \in Attempts \cup {None},
             StorePrepareAttempt(a, i, prior), Emit(Prepared(a, i, prior))
      PROVE  RowsInv'
  <2>1. Present /\ Present' /\ sessionRow'.version = sessionRow.version + 1
    BY <1>1, <1>4, <1>7, Saved DEF StorePrepareAttempt, PrepareAttempt
  <2>2. Prepared(a, i, prior).kind = "AttemptPrepared"
    BY Fields
  <2>3. \A j \in Inputs : inputRow'[j] = "absent" <=> inputRow[j] = "absent"
    BY <1>1, <1>7 DEF StorePrepareAttempt, AcceptPrepare, InsertAttempt, StoreTypeOK
  <2>4. StreamMatches' /\ streamCheck' \in StreamSets
    BY <1>7, <2>1, <2>2, <2>3, StreamCheckStep
  <2> QED
    BY <1>1, <1>7, <2>4, PreparedRows DEF StorePrepareAttempt, AcceptPrepare, Emit, RowsInv,
       ColumnsType
<1> QED
  BY <1>2, <1>3, <1>4, <1>5, <1>6, <1>7 DEF ReadLifecycleStep, StoreRenameSession,
     StoreArchiveSession, StoreUnarchiveSession, StoreSelectModel, RenameSession,
     ArchiveSession, UnarchiveSession, SelectModel

QuietAttemptEvents ==
    {"AttemptUsageRecorded", "AttemptCancellationRequested", "RunBudgetConfigured",
     "ContextTurnBound", "RunTurnStarted", "AttemptPausedForTools",
     "AttemptResumedAfterTools"}

\* The provider-attempt appends leave readable rows; the events above write
\* none but the session's.
LEMMA AttemptRowsReadable ==
  ASSUME StoreInv, RowsInv, NEW a \in Attempts, ReadAttemptStep(a)
  PROVE  RowsInv'
<1>1. StoreTypeOK /\ TypeOK /\ sessionRow \in SessionRows
  BY DEF StoreInv, IInv, StoreTypeOK
<1>2. ASSUME SaveSession(sessionRow), Commit(1)
      PROVE  Present /\ Present' /\ sessionRow'.version = sessionRow.version + 1
  BY <1>1, <1>2, Saved
<1>3. ASSUME NEW k \in QuietAttemptEvents, SaveSession(sessionRow), Commit(1),
             Emit(OfAttempt(k, a)), UNCHANGED <<inputRow, attemptRow, message>>
      PROVE  RowsInv'
  <2>1. OfAttempt(k, a).kind = k
    BY Fields
  <2> QED
    BY <1>2, <1>3, <2>1, QuietRows DEF QuietAttemptEvents, ColumnEvents, SettlesAttempt
<1>4. ASSUME NEW k \in ColumnEvents, SaveSession(sessionRow), Commit(1),
             Emit(OfAttempt(k, a)), UNCHANGED inputRow
      PROVE  StreamMatches' /\ streamCheck' \in StreamSets
  <2>1. OfAttempt(k, a).kind = k
    BY Fields
  <2> QED
    BY <1>2, <1>4, <2>1, StreamCheckStep DEF ColumnEvents, SettlesAttempt
<1>5. ASSUME NEW to \in SettledRow, NEW k \in SettlesAttempt, SettledPayloadMatches(to, k),
             SaveSession(sessionRow), Commit(1), SettleRow(a, to), Emit(OfAttempt(k, a))
      PROVE  RowsInv'
  <2>1. StreamMatches' /\ streamCheck' \in StreamSets
    BY <1>4, <1>5 DEF ColumnEvents, SettleRow
  <2> QED
    BY <1>1, <1>5, <2>1, SettledRows DEF Emit, RowsInv, ColumnsType
<1>6. ASSUME StoreStartAttempt(a), Emit(OfAttempt("AttemptStarted", a)) PROVE RowsInv'
  <2>1. StreamMatches' /\ streamCheck' \in StreamSets
    BY <1>4, <1>6 DEF ColumnEvents, StoreStartAttempt, StartAttempt, MoveAttempt
  <2> QED
    BY <1>1, <1>6, <2>1, StartedRows DEF StoreStartAttempt, Emit, RowsInv, ColumnsType
<1>7. ASSUME StoreAppendAttemptText(a), Emit(OfAttempt("AttemptTextAppended", a))
      PROVE  RowsInv'
  <2>1. StreamMatches' /\ streamCheck' \in StreamSets
    BY <1>4, <1>7 DEF ColumnEvents, StoreAppendAttemptText, RecordOutput
  <2> QED
    BY <1>1, <1>7, <2>1, TextRows DEF StoreAppendAttemptText, Emit, RowsInv, ColumnsType
<1>8. /\ SettledPayloadMatches("completed", "AttemptCompleted")
      /\ SettledPayloadMatches("failed", "AttemptFailed")
      /\ SettledPayloadMatches("cancelled", "AttemptCancelled")
      /\ SettledPayloadMatches("unknown", "AttemptMarkedUnknown")
      /\ SettledRow = {"completed", "failed", "cancelled", "unknown"}
  BY DEF SettledPayloadMatches, SettledRow
<1>9. ASSUME \/ StoreCompleteAttempt(a) /\ Emit(OfAttempt("AttemptCompleted", a))
             \/ \E advised \in BOOLEAN :
                  StoreFailAttempt(a, advised) /\ Emit(OfAttempt("AttemptFailed", a))
             \/ StoreCancelAttempt(a) /\ Emit(OfAttempt("AttemptCancelled", a))
             \/ StoreMarkAttemptUnknown(a) /\ Emit(OfAttempt("AttemptMarkedUnknown", a))
      PROVE  RowsInv'
  <2> USE DEF SettlesAttempt, MoveAttempt
  <2>1. ASSUME StoreCompleteAttempt(a), Emit(OfAttempt("AttemptCompleted", a)) PROVE RowsInv'
    BY <1>5, <1>8, <2>1 DEF StoreCompleteAttempt, CompleteAttempt
  <2>2. ASSUME NEW advised \in BOOLEAN, StoreFailAttempt(a, advised),
               Emit(OfAttempt("AttemptFailed", a))
        PROVE  RowsInv'
    BY <1>5, <1>8, <2>2 DEF StoreFailAttempt, FailAttempt
  <2>3. ASSUME StoreCancelAttempt(a), Emit(OfAttempt("AttemptCancelled", a)) PROVE RowsInv'
    BY <1>5, <1>8, <2>3 DEF StoreCancelAttempt, CancelAttempt
  <2>4. ASSUME StoreMarkAttemptUnknown(a), Emit(OfAttempt("AttemptMarkedUnknown", a))
        PROVE  RowsInv'
    BY <1>5, <1>8, <2>4 DEF StoreMarkAttemptUnknown, MarkAttemptUnknown
  <2> QED
    BY <1>9, <2>1, <2>2, <2>3, <2>4
<1>10. CASE \E k \in QuietAttemptEvents :
              /\ Emit(OfAttempt(k, a)) /\ SaveSession(sessionRow) /\ Commit(1)
              /\ UNCHANGED <<inputRow, attemptRow, message>>
  BY <1>3, <1>10
<1> QED
  BY <1>6, <1>7, <1>9, <1>10 DEF ReadAttemptStep, QuietAttemptEvents, NoRowButSession,
     projectionVars, FoldOnly, MoveAttempt, StoreRecordAttemptUsage, RecordOutput,
     StoreRequestAttemptCancellation, RequestAttemptCancellation,
     StoreConfigureRunBudget, ConfigureRunBudget, StoreBindContextTurn, BindContextTurn,
     StoreStartRunTurn, StartRunTurn, StorePauseAttemptForTools, PauseAttemptForTools,
     StoreResumeAttemptAfterTools, ResumeAttemptAfterTools

ToolEvents ==
    {"ToolCallProposed", "ToolPermissionRecorded", "ToolPermissionAnswered",
     "ToolCallStarted", "ToolCallCompleted", "ToolCallFailed", "ToolCallMarkedUnknown",
     "ToolCallDenied", "ToolCallCancelled"}

\* Tool events project nothing.
LEMMA ToolRowsReadable ==
  ASSUME StoreInv, RowsInv, NEW c \in Calls, ReadToolStep(c)
  PROVE  RowsInv'
<1>1. TypeOK /\ sessionRow \in SessionRows
  BY DEF StoreInv, IInv, StoreTypeOK
<1>2. ToolStep(c) /\ SaveSession(sessionRow) /\ NoRowButSession
  BY DEF ReadToolStep, StoreTool, ToolStep
<1>3. PICK e : Emit(e) /\ e.kind \in ToolEvents
  <2>1. ASSUME NEW a PROVE ProposedEvent(c, a).kind \in ToolEvents
    BY Fields DEF ToolEvents
  <2>2. ASSUME NEW k \in ToolEvents, NEW v
        PROVE  Ruled(k, c, v).kind \in ToolEvents /\ OfCall(k, c).kind \in ToolEvents
    BY Fields
  <2> QED
    BY <2>1, <2>2 DEF ReadToolStep, StoreTool, ToolEvents
<1>4. Present /\ Present' /\ sessionRow'.version = sessionRow.version + 1
  BY <1>1, <1>2, ToolFrame, Saved
<1> QED
  BY <1>2, <1>3, <1>4, QuietRows DEF ToolEvents, ColumnEvents, SettlesAttempt,
     NoRowButSession, projectionVars

\* The rows stay readable.
LEMMA RowsInvStep == StoreInv /\ RowsInv /\ [ReadsNext]_readsVars => RowsInv'
<1> SUFFICES ASSUME StoreInv, RowsInv, [ReadsNext]_readsVars PROVE RowsInv'
  OBVIOUS
<1>2. CASE ReadDeletion
  BY <1>2, NoneAssumption DEF ReadDeletion, DeleteSession, NoColumns, NoStream, RowsInv,
     ColumnsType, ColumnSets, StreamSets, StreamMatches, InputReadable, AttemptColumns,
     MessageReadable, HasSegment, NoSession, NoAttempt, Present
<1>3. CASE UNCHANGED readsVars
  BY <1>3 DEF readsVars, readVars, storeVars, rowVars, projectionVars, RowsInv, ColumnsType,
     StreamMatches, InputReadable, AttemptColumns, AttemptReadable, MessageReadable,
     HasSegment, Present
<1> QED
  BY <1>2, <1>3, LifecycleRowsReadable, AttemptRowsReadable, ToolRowsReadable
     DEF ReadsNext

\* Whatever was appended can be read back: no accepted command leaves a row its
\* own validate refuses, nor a log that rebuild_projections refuses.
THEOREM RowsStayReadable == ReadsSpec => []EveryRowIsReadable
<1>1. RowsInv => EveryRowIsReadable
  BY DEF RowsInv, EveryRowIsReadable, StreamMatches, SessionReadable, AttemptColumns
<1>2. ReadsSpec => []StoreInv
  BY ReadsImplementStore, StoreInvariantHolds, PTL
<1> QED
  BY <1>1, <1>2, RowsInvInit, RowsInvStep, PTL DEF ReadsSpec

-----------------------------------------------------------------------------
(* Compaction's machine, which knows the aggregate's work by other names.  *)

InputFact(i) ==
    IF i \notin admitted THEN "absent"
    ELSE IF promotedBy[i] = None THEN "pending" ELSE "promoted"
CallStage(c) ==
    IF callStatus[c] = "Absent" THEN "absent"
    ELSE IF callStatus[c] \in SettledCall THEN "Settled" ELSE callStatus[c]
Known(inputs, attempts, stage, pol, ans) ==
    [ inputs |-> inputs, attempts |-> attempts, stage |-> stage, policy |-> pol,
      answer |-> ans, valid |-> TRUE ]
AggregateFacts ==
    Known([i \in Inputs |-> InputFact(i)], {a \in Attempts : status[a] # "Absent"},
          [c \in Calls |-> CallStage(c)], policy, answer)

\* Everything the machine knows is determined by the aggregate.
FactsInv == facts = IF Deleted THEN NoFacts ELSE AggregateFacts

\* Events the machine passes over.
LEMMA FactsQuiet ==
  ASSUME NEW I, NEW A, NEW S, NEW P, NEW Q, NEW e, e.call = None,
         e.kind \notin {"InputAdmitted", "AttemptPrepared", "ToolCallProposed",
                        "ToolPermissionAnswered"}
  PROVE  FactsAfter(Known(I, A, S, P, Q), e) = Known(I, A, S, P, Q)
  BY DEF FactsAfter, FactsAccept, Known

\* A prompt waits.
LEMMA FactsAdmitted ==
  ASSUME NEW I, NEW A, NEW S, NEW P, NEW Q, NEW i \in Inputs, I[i] = "absent"
  PROVE  FactsAfter(Known(I, A, S, P, Q), OfInput("InputAdmitted", i)) =
           Known([I EXCEPT ![i] = "pending"], A, S, P, Q)
<1> DEFINE e == OfInput("InputAdmitted", i)
<1>1. e.kind = "InputAdmitted" /\ e.input = i /\ e.call = None
  BY Fields
<1> HIDE DEF e
<1> QED
  BY <1>1 DEF FactsAfter, FactsAccept, Known, e

\* A first attempt promotes its prompt.
LEMMA FactsPromoted ==
  ASSUME NEW I, NEW A, NEW S, NEW P, NEW Q, NEW i \in Inputs, NEW a \in Attempts,
         a \notin A, I[i] = "pending"
  PROVE  FactsAfter(Known(I, A, S, P, Q), Prepared(a, i, None)) =
           Known([I EXCEPT ![i] = "promoted"], A \cup {a}, S, P, Q)
<1> DEFINE e == Prepared(a, i, None)
<1>1. /\ e.kind = "AttemptPrepared" /\ e.input = i /\ e.attempt = a /\ e.retryOf = None
      /\ e.call = None
  BY Fields
<1> HIDE DEF e
<1> QED
  BY <1>1 DEF FactsAfter, FactsAccept, PromotionAllowed, Known, e

\* A retry finds its prompt promoted.
LEMMA FactsRetried ==
  ASSUME NEW I, NEW A, NEW S, NEW P, NEW Q, NEW i \in Inputs, NEW a \in Attempts,
         NEW prior, prior # None, a \notin A, I[i] # "absent", I = [j \in Inputs |-> I[j]]
  PROVE  FactsAfter(Known(I, A, S, P, Q), Prepared(a, i, prior)) =
           Known(I, A \cup {a}, S, P, Q)
<1> DEFINE e == Prepared(a, i, prior)
<1>1. /\ e.kind = "AttemptPrepared" /\ e.input = i /\ e.attempt = a /\ e.retryOf = prior
      /\ e.call = None
  BY Fields
<1> HIDE DEF e
<1>2. [I EXCEPT ![i] = I[i]] = I
  OBVIOUS
<1> QED
  BY <1>1, <1>2 DEF FactsAfter, FactsAccept, PromotionAllowed, Known, e

\* A step that leaves the work as it is and whose event is passed over.
LEMMA QuietFacts ==
  ASSUME FactsInv, ~Deleted, ~Deleted', NEW e, Emit(e), e.call = None,
         e.kind \notin {"InputAdmitted", "AttemptPrepared", "ToolCallProposed",
                        "ToolPermissionAnswered"},
         UNCHANGED <<admitted, promotedBy, callVars>>,
         \A a \in Attempts : status'[a] = "Absent" <=> status[a] = "Absent"
  PROVE  FactsInv'
<1>1. facts' = facts
  BY FactsQuiet DEF Emit, FactsInv, AggregateFacts
<1>2. AggregateFacts' = AggregateFacts
  BY DEF AggregateFacts, InputFact, CallStage, callVars
<1> QED
  BY <1>1, <1>2 DEF FactsInv

\* A prompt, named or not.
LEMMA AdmissionFacts ==
  ASSUME NEW i \in Inputs, i \notin admitted
  PROVE  AfterAdmission(FactsAfter, AggregateFacts, i) =
           Known([[j \in Inputs |-> InputFact(j)] EXCEPT ![i] = "pending"],
                 {a \in Attempts : status[a] # "Absent"},
                 [c \in Calls |-> CallStage(c)], policy, answer)
<1> DEFINE I == [j \in Inputs |-> InputFact(j)]
           A == {a \in Attempts : status[a] # "Absent"}
           S == [c \in Calls |-> CallStage(c)]
<1>1. I[i] = "absent"
  BY DEF InputFact
<1>2. AggregateFacts = Known(I, A, S, policy, answer)
  BY DEF AggregateFacts
<1> HIDE DEF I, A, S
<1>3. FactsAfter(AggregateFacts, OfInput("InputAdmitted", i)) =
        Known([I EXCEPT ![i] = "pending"], A, S, policy, answer)
  BY <1>1, <1>2, FactsAdmitted
<1>4. Payload("SessionRenamed").kind = "SessionRenamed" /\ Payload("SessionRenamed").call = None
  BY Fields
<1>5. FactsAfter(Known([I EXCEPT ![i] = "pending"], A, S, policy, answer),
                 Payload("SessionRenamed")) =
        Known([I EXCEPT ![i] = "pending"], A, S, policy, answer)
  BY <1>4, FactsQuiet
<1>6. AfterAdmission(FactsAfter, AggregateFacts, i) =
        Known([I EXCEPT ![i] = "pending"], A, S, policy, answer)
  BY <1>3, <1>5 DEF AfterAdmission
<1> QED
  BY <1>6 DEF I, A, S

\* The session-lifecycle appends: prompts wait, and first attempts promote them.
LEMMA LifecycleFacts ==
  ASSUME StoreInv, FactsInv, ReadLifecycleStep
  PROVE  FactsInv'
<1>1. TypeOK /\ Provenance /\ StoreTypeOK /\ sessionRow \in SessionRows
  BY DEF StoreInv, IInv, StoreTypeOK
<1>2. ~Deleted
  BY DEF Deleted, ReadLifecycleStep, StoreCreateSession, CreateSession, DecideCreateSession,
     StoreRenameSession, StoreArchiveSession, StoreUnarchiveSession, StoreSelectModel,
     StoreAdmitPrompt, StoreAdmitPromptAndPrepareAttempt, StorePrepareAttempt, SaveSession
<1>3. facts = AggregateFacts
  BY <1>2 DEF FactsInv
<1>4. /\ \A to \in {"active", "archived"} : [sessionRow EXCEPT !.status = to] \in SessionRows
      /\ \A m \in Models : [sessionRow EXCEPT !.model = m] \in SessionRows
  BY <1>1 DEF SessionRows
<1>5. ~Deleted'
  <2>1. CASE StoreCreateSession
    <3>1. sessionRow'.status = "active"
      BY <2>1 DEF StoreCreateSession, NoSession
    <3> QED
      BY <3>1 DEF Deleted, Present, NoSession
  <2>2. ASSUME NEW row \in SessionRows, SaveSession(row), NEW n \in Nat \ {0}, Commit(n)
        PROVE  ~Deleted'
    BY <1>1, <2>2, Saved DEF Deleted
  <2>3. 1 \in Nat \ {0} /\ 2 \in Nat \ {0} /\ 3 \in Nat \ {0}
    OBVIOUS
  <2> QED
    BY <1>1, <1>4, <2>1, <2>2, <2>3 DEF ReadLifecycleStep,
       StoreRenameSession, StoreArchiveSession, StoreUnarchiveSession, StoreSelectModel,
       StoreAdmitPrompt, StoreAdmitPromptAndPrepareAttempt, StorePrepareAttempt,
       RenameSession, ArchiveSession, UnarchiveSession, SelectModel, AdmitPrompt,
       AdmitPromptAndPrepareAttempt, PrepareAttempt
<1>6. ASSUME NEW k \in {"SessionCreated", "SessionRenamed", "SessionArchived",
                        "SessionUnarchived", "ModelSelected"},
             Emit(Payload(k)), UNCHANGED <<admitted, promotedBy, callVars, status>>
      PROVE  FactsInv'
  <2>1. Payload(k).kind = k /\ Payload(k).call = None
    BY Fields
  <2> QED
    BY <1>2, <1>5, <1>6, <2>1, QuietFacts
<1>7. ASSUME NEW i \in Inputs, StoreAdmitPrompt(i), EmitAdmission(i) PROVE FactsInv'
  <2>1. /\ i \notin admitted /\ admitted' = admitted \cup {i}
        /\ UNCHANGED <<promotedBy, status, callStatus, policy, answer>>
    BY <1>7 DEF StoreAdmitPrompt, AdmitPrompt, DecideAdmitPrompt, attemptVars, callVars
  <2>2. promotedBy[i] = None
    BY <1>1, <2>1 DEF Provenance
  <2>3. facts' = Known([[j \in Inputs |-> InputFact(j)] EXCEPT ![i] = "pending"],
                       {a \in Attempts : status[a] # "Absent"},
                       [c \in Calls |-> CallStage(c)], policy, answer)
    BY <1>3, <1>7, <2>1, AdmissionFacts DEF EmitAdmission
  <2>4. [[j \in Inputs |-> InputFact(j)] EXCEPT ![i] = "pending"] =
          [j \in Inputs |-> InputFact(j)']
    BY <2>1, <2>2 DEF InputFact
  <2>5. [c \in Calls |-> CallStage(c)] = [c \in Calls |-> CallStage(c)']
    BY <2>1 DEF CallStage
  <2> QED
    BY <1>5, <2>1, <2>3, <2>4, <2>5 DEF FactsInv, AggregateFacts
<1>8. ASSUME NEW i \in Inputs, NEW a \in Attempts, StoreAdmitPromptAndPrepareAttempt(i, a),
             EmitAdmissionAndAttempt(i, a)
      PROVE  FactsInv'
  <2>1. /\ i \notin admitted /\ admitted' = admitted \cup {i}
        /\ status[a] = "Absent" /\ status' = [status EXCEPT ![a] = "Prepared"]
        /\ promotedBy' = [promotedBy EXCEPT ![i] = a]
        /\ UNCHANGED <<callStatus, policy, answer>>
    BY <1>8 DEF StoreAdmitPromptAndPrepareAttempt, AdmitPromptAndPrepareAttempt,
       DecideAdmitPromptAndPrepareAttempt, DecideAdmitPrompt, Prepare, callVars
  <2> DEFINE I == [[j \in Inputs |-> InputFact(j)] EXCEPT ![i] = "pending"]
             A == {b \in Attempts : status[b] # "Absent"}
             S == [c \in Calls |-> CallStage(c)]
  <2>2. I[i] = "pending" /\ a \notin A
    BY <2>1
  <2>3. AfterAdmission(FactsAfter, facts, i) = Known(I, A, S, policy, answer)
    BY <1>3, <2>1, AdmissionFacts
  <2>4. [I EXCEPT ![i] = "promoted"] = [j \in Inputs |-> InputFact(j)']
    BY <1>1, <2>1, NoneAssumption DEF InputFact, TypeOK
  <2>5. A \cup {a} = {b \in Attempts : status'[b] # "Absent"}
    BY <1>1, <2>1 DEF TypeOK
  <2>6. S = [c \in Calls |-> CallStage(c)']
    BY <2>1 DEF CallStage
  <2> HIDE DEF I, A, S
  <2>7. facts' = Known([I EXCEPT ![i] = "promoted"], A \cup {a}, S, policy, answer)
    <3>1. facts' = FactsAfter(Known(I, A, S, policy, answer), Prepared(a, i, None))
      BY <1>8, <2>3 DEF EmitAdmissionAndAttempt
    <3> QED
      BY <2>2, <3>1, FactsPromoted
  <2> QED
    BY <1>5, <2>1, <2>4, <2>5, <2>6, <2>7 DEF FactsInv, AggregateFacts
<1>9. ASSUME NEW a \in Attempts, NEW i \in Inputs, NEW prior \in Attempts \cup {None},
             StorePrepareAttempt(a, i, prior), Emit(Prepared(a, i, prior))
      PROVE  FactsInv'
  <2>1. /\ i \in admitted /\ UNCHANGED admitted
        /\ status[a] = "Absent" /\ status' = [status EXCEPT ![a] = "Prepared"]
        /\ prior = None => promotedBy[i] = None
        /\ promotedBy' = IF prior # None THEN promotedBy ELSE [promotedBy EXCEPT ![i] = a]
        /\ UNCHANGED <<callStatus, policy, answer>>
    BY <1>9 DEF StorePrepareAttempt, PrepareAttempt, DecidePrepareAttempt, Prepare, callVars
  <2> DEFINE I == [j \in Inputs |-> InputFact(j)]
             A == {b \in Attempts : status[b] # "Absent"}
             S == [c \in Calls |-> CallStage(c)]
  <2>2. a \notin A /\ facts = Known(I, A, S, policy, answer)
    BY <1>3, <2>1 DEF AggregateFacts
  <2>3. facts' = FactsAfter(facts, Prepared(a, i, prior))
    BY <1>9 DEF Emit
  <2>5. A \cup {a} = {b \in Attempts : status'[b] # "Absent"}
    BY <1>1, <2>1 DEF TypeOK
  <2>6. S = [c \in Calls |-> CallStage(c)']
    BY <2>1 DEF CallStage
  <2>7. CASE prior = None
    <3>1. I[i] = "pending"
      BY <2>1, <2>7 DEF InputFact
    <3>2. promotedBy' = [promotedBy EXCEPT ![i] = a]
      BY <2>1, <2>7
    <3>3. [I EXCEPT ![i] = "promoted"] = [j \in Inputs |-> InputFact(j)']
      <4>1. \A j \in Inputs : promotedBy'[j] = IF j = i THEN a ELSE promotedBy[j]
        BY <1>1, <3>2 DEF TypeOK
      <4>2. \A j \in Inputs : InputFact(j)' = IF j = i THEN "promoted" ELSE InputFact(j)
        BY <2>1, <4>1, NoneAssumption DEF InputFact
      <4> QED
        BY <4>2
    <3> HIDE DEF I, A, S
    <3>5. facts' = FactsAfter(Known(I, A, S, policy, answer), Prepared(a, i, None))
      BY <2>2, <2>3, <2>7
    <3>4. facts' = Known([I EXCEPT ![i] = "promoted"], A \cup {a}, S, policy, answer)
      BY <2>2, <3>1, <3>5, FactsPromoted
    <3> QED
      BY <1>5, <2>1, <2>5, <2>6, <3>3, <3>4 DEF FactsInv, AggregateFacts
  <2>8. CASE prior # None
    <3>1. I[i] # "absent" /\ I = [j \in Inputs |-> I[j]]
      BY <2>1 DEF InputFact
    <3>3. I = [j \in Inputs |-> InputFact(j)']
      BY <2>1, <2>8 DEF InputFact
    <3> HIDE DEF I, A, S
    <3>4. facts' = Known(I, A \cup {a}, S, policy, answer)
      BY <2>2, <2>3, <2>8, <3>1, FactsRetried
    <3> QED
      BY <1>5, <2>1, <2>5, <2>6, <3>3, <3>4 DEF FactsInv, AggregateFacts
  <2> QED
    BY <2>7, <2>8
<1> QED
  BY <1>6, <1>7, <1>8, <1>9 DEF ReadLifecycleStep, StoreCreateSession, StoreRenameSession,
     StoreArchiveSession, StoreUnarchiveSession, StoreSelectModel, CreateSession,
     RenameSession, ArchiveSession, UnarchiveSession, SelectModel, attemptVars

\* What becomes of an attempt is nothing to the machine.
LEMMA AttemptFactsFollow ==
  ASSUME StoreInv, FactsInv, NEW a \in Attempts, ReadAttemptStep(a)
  PROVE  FactsInv'
<1>1. TypeOK /\ sessionRow \in SessionRows
  BY DEF StoreInv, IInv, StoreTypeOK
<1>2. AttemptStep(a) /\ SaveSession(sessionRow) /\ Commit(1)
  BY DEF ReadAttemptStep, AttemptStep, MoveAttempt, StoreStartAttempt, StoreAppendAttemptText,
     StoreRecordAttemptUsage, StoreRequestAttemptCancellation, StoreCompleteAttempt,
     StoreFailAttempt, StoreCancelAttempt, StoreMarkAttemptUnknown, StoreConfigureRunBudget,
     StoreBindContextTurn, StoreStartRunTurn, StorePauseAttemptForTools,
     StoreResumeAttemptAfterTools, StartAttempt, RecordOutput, RequestAttemptCancellation,
     CompleteAttempt, FailAttempt, CancelAttempt, MarkAttemptUnknown, ConfigureRunBudget,
     BindContextTurn, StartRunTurn, PauseAttemptForTools, ResumeAttemptAfterTools
<1>3. ~Deleted /\ ~Deleted'
  BY <1>1, <1>2, Saved DEF Deleted
<1>4. PICK k \in QuietAttemptEvents \cup SettlesAttempt
                   \cup {"AttemptStarted", "AttemptTextAppended"} : Emit(OfAttempt(k, a))
  BY DEF ReadAttemptStep, QuietAttemptEvents, SettlesAttempt
<1>5. OfAttempt(k, a).kind = k /\ OfAttempt(k, a).call = None
  BY Fields
<1>6. /\ UNCHANGED <<admitted, promotedBy, callVars>>
      /\ \A b \in Attempts : status'[b] = "Absent" <=> status[b] = "Absent"
  BY <1>1, <1>2 DEF TypeOK, AttemptStep, AttemptIn, sessionVars, attemptVars, MoveAttempt,
     StartAttempt, DecideStartAttempt, RecordOutput, RequestAttemptCancellation,
     DecideRequestAttemptCancellation, CompleteAttempt, DecideCompleteAttempt, FailAttempt,
     DecideFailAttempt, CancelAttempt, DecideCancelAttempt, MarkAttemptUnknown,
     DecideMarkAttemptUnknown, ConfigureRunBudget, BindContextTurn, StartRunTurn,
     PauseAttemptForTools, DecidePauseAttemptForTools, ResumeAttemptAfterTools,
     DecideResumeAttemptAfterTools
<1> QED
  BY <1>3, <1>4, <1>5, <1>6, QuietFacts DEF QuietAttemptEvents, SettlesAttempt

\* Where a tool event leaves its call.
LEMMA CallFactsFollow ==
  ASSUME StoreInv, FactsInv, ~Deleted, ~Deleted', NEW c \in Calls, NEW e, Emit(e), e.call = c,
         e.kind \in ToolEvents, FactsAccept(AggregateFacts, e),
         UNCHANGED <<admitted, promotedBy, status>>,
         NEW to, callStatus' = [callStatus EXCEPT ![c] = to], to # "Absent",
         StageAfter(e) = IF to \in SettledCall THEN "Settled" ELSE to,
         policy' = IF e.kind = "ToolPermissionRecorded"
                     THEN [policy EXCEPT ![c] = e.verdict] ELSE policy,
         answer' = IF e.kind = "ToolPermissionAnswered"
                     THEN [answer EXCEPT ![c] = e.verdict] ELSE answer
  PROVE  FactsInv'
<1> DEFINE I == [j \in Inputs |-> InputFact(j)]
           A == {b \in Attempts : status[b] # "Absent"}
           S == [d \in Calls |-> CallStage(d)]
<1>1. AggregateFacts = Known(I, A, S, policy, answer) /\ facts = AggregateFacts
  BY DEF AggregateFacts, FactsInv
<1>2. [S EXCEPT ![c] = StageAfter(e)] = [d \in Calls |-> CallStage(d)']
  <2>1. \A d \in Calls : callStatus'[d] = IF d = c THEN to ELSE callStatus[d]
    BY DEF StoreInv, IInv, TypeOK
  <2>2. \A d \in Calls : CallStage(d)' = IF d = c THEN StageAfter(e) ELSE CallStage(d)
    BY <2>1 DEF CallStage
  <2> QED
    BY <2>2
<1>3. /\ [policy EXCEPT ![c] = IF e.kind = "ToolPermissionRecorded" THEN e.verdict ELSE @]
           = policy'
      /\ [answer EXCEPT ![c] = IF e.kind = "ToolPermissionAnswered" THEN e.verdict ELSE @]
           = answer'
  BY DEF StoreInv, IInv, TypeOK
<1>4. I = [j \in Inputs |-> InputFact(j)'] /\ A = {b \in Attempts : status'[b] # "Absent"}
  BY DEF InputFact
<1> HIDE DEF I, A, S
<1>5. facts' = FactsAfter(Known(I, A, S, policy, answer), e)
  BY <1>1 DEF Emit
<1>6. FactsAccept(Known(I, A, S, policy, answer), e)
  BY <1>1
<1>7. e.kind \notin {"InputAdmitted", "AttemptPrepared"}
  BY DEF ToolEvents
<1>8. facts' = Known(I, A, [S EXCEPT ![c] = StageAfter(e)], policy', answer')
  <2>1. FactsAfter(Known(I, A, S, policy, answer), e) =
          Known(I, A, [S EXCEPT ![c] = StageAfter(e)],
                [policy EXCEPT ![c] = IF e.kind = "ToolPermissionRecorded" THEN e.verdict ELSE @],
                [answer EXCEPT ![c] = IF e.kind = "ToolPermissionAnswered" THEN e.verdict ELSE @])
    <3>1. c # None
      BY AbsentAssumption
    <3> HIDE DEF FactsAccept, StageAfter
    <3> QED
      BY <1>6, <1>7, <3>1 DEF FactsAfter, Known
  <2> QED
    BY <1>3, <1>5, <2>1
<1> QED
  BY <1>2, <1>4, <1>8 DEF FactsInv, AggregateFacts

\* Each tool command finds its call at the stage the machine asks for.
LEMMA ToolFacts ==
  ASSUME StoreInv, FactsInv, NEW c \in Calls, ReadToolStep(c)
  PROVE  FactsInv'
<1>1. TypeOK /\ Provenance /\ sessionRow \in SessionRows
  BY DEF StoreInv, IInv, StoreTypeOK
<1>2. ToolStep(c) /\ SaveSession(sessionRow) /\ Commit(1)
  BY ToolFrame DEF ReadToolStep, StoreTool, ToolStep
<1>3. ~Deleted /\ ~Deleted'
  BY <1>1, <1>2, Saved DEF Deleted
<1>4. UNCHANGED <<admitted, promotedBy, status>>
  BY <1>2, ToolFrame DEF sessionVars, attemptVars
<1>5. /\ AggregateFacts.stage[c] = CallStage(c) /\ AggregateFacts.policy[c] = policy[c]
      /\ AggregateFacts.attempts = {b \in Attempts : status[b] # "Absent"}
  BY DEF AggregateFacts, Known
<1>6. ASSUME NEW a \in Attempts, StoreTool(ProposeToolCall(c, a), ProposedEvent(c, a))
      PROVE  FactsInv'
  <2> DEFINE e == ProposedEvent(c, a)
  <2>1. e.kind = "ToolCallProposed" /\ e.call = c /\ e.attempt = a
    BY Fields
  <2>2. /\ status[a] = "InFlight" /\ callStatus[c] = "Absent" /\ Emit(e)
        /\ callStatus' = [callStatus EXCEPT ![c] = "Proposed"]
        /\ UNCHANGED <<policy, answer>>
    BY <1>6 DEF StoreTool, ProposeToolCall, DecideProposeToolCall, AttemptIn, MoveCall
  <2> HIDE DEF e
  <2>3. FactsAccept(AggregateFacts, e)
    BY <1>5, <2>1, <2>2 DEF FactsAccept, CallStage
  <2>4. StageAfter(e) = "Proposed" /\ "Proposed" \notin SettledCall /\ e.kind \in ToolEvents
    BY <2>1 DEF StageAfter, SettledCall, ToolEvents
  <2> QED
    BY <1>3, <1>4, <2>1, <2>2, <2>3, <2>4, CallFactsFollow
<1>7. ASSUME NEW outcome \in {"Allow", "Ask", "Deny"},
             StoreTool(RecordToolPermission(c, outcome),
                       Ruled("ToolPermissionRecorded", c, outcome))
      PROVE  FactsInv'
  <2> DEFINE e == Ruled("ToolPermissionRecorded", c, outcome)
  <2>1. e.kind = "ToolPermissionRecorded" /\ e.call = c /\ e.verdict = outcome
    BY Fields
  <2>2. /\ callStatus[c] = "Proposed" /\ Emit(e)
        /\ callStatus' = [callStatus EXCEPT ![c] = PermissionStatus(outcome)]
        /\ policy' = [policy EXCEPT ![c] = outcome] /\ UNCHANGED answer
    BY <1>7 DEF StoreTool, RecordToolPermission, DecideRecordToolPermission, CallIn, MoveCall
  <2> HIDE DEF e
  <2>3. FactsAccept(AggregateFacts, e)
    <3>1. CallStage(c) \in StagesBefore(e.kind) /\ c # None
      BY <2>1, <2>2, AbsentAssumption DEF CallStage, StagesBefore, CallSettlement, SettledCall
    <3> QED
      BY <1>5, <2>1, <3>1 DEF FactsAccept
  <2>4. /\ StageAfter(e) = PermissionStatus(outcome) /\ e.kind \in ToolEvents
        /\ PermissionStatus(outcome) \notin SettledCall \cup {"Absent"}
    BY <2>1 DEF StageAfter, PermissionStatus, SettledCall, ToolEvents
  <2> QED
    BY <1>3, <1>4, <2>1, <2>2, <2>3, <2>4, CallFactsFollow
<1>8. ASSUME NEW given \in {"AllowOnce", "Deny"},
             StoreTool(AnswerToolPermission(c, given),
                       Ruled("ToolPermissionAnswered", c, given))
      PROVE  FactsInv'
  <2> DEFINE e == Ruled("ToolPermissionAnswered", c, given)
  <2>1. e.kind = "ToolPermissionAnswered" /\ e.call = c /\ e.verdict = given
    BY Fields
  <2>2. /\ callStatus[c] = "PermissionPending" /\ Emit(e)
        /\ callStatus' = [callStatus EXCEPT ![c] = AnswerStatus(given)]
        /\ answer' = [answer EXCEPT ![c] = given] /\ UNCHANGED policy
    BY <1>8 DEF StoreTool, AnswerToolPermission, DecideAnswerToolPermission, CallIn, MoveCall
  <2>5. policy[c] = "Ask"
    BY <1>1, <2>2 DEF Provenance
  <2> HIDE DEF e
  <2>3. FactsAccept(AggregateFacts, e)
    <3>1. CallStage(c) \in StagesBefore(e.kind)
      BY <2>1, <2>2 DEF CallStage, StagesBefore, CallSettlement, SettledCall
    <3> QED
      BY <1>5, <2>1, <2>5, <3>1 DEF FactsAccept
  <2>4. /\ StageAfter(e) = AnswerStatus(given) /\ e.kind \in ToolEvents
        /\ AnswerStatus(given) \notin SettledCall \cup {"Absent"}
    BY <2>1 DEF StageAfter, AnswerStatus, SettledCall, ToolEvents
  <2> QED
    BY <1>3, <1>4, <2>1, <2>2, <2>3, <2>4, CallFactsFollow
<1>9. ASSUME StoreTool(StartToolCall(c), OfCall("ToolCallStarted", c)) PROVE FactsInv'
  <2> DEFINE e == OfCall("ToolCallStarted", c)
  <2>1. e.kind = "ToolCallStarted" /\ e.call = c
    BY Fields
  <2>2. /\ callStatus[c] = "Authorized" /\ Emit(e)
        /\ callStatus' = [callStatus EXCEPT ![c] = "Running"]
        /\ UNCHANGED <<policy, answer>>
    BY <1>9 DEF StoreTool, StartToolCall, DecideStartToolCall, CallIn, MoveCall
  <2> HIDE DEF e
  <2>3. FactsAccept(AggregateFacts, e)
    <3>1. CallStage(c) \in StagesBefore(e.kind) /\ c # None
      BY <2>1, <2>2, AbsentAssumption DEF CallStage, StagesBefore, CallSettlement, SettledCall
    <3> QED
      BY <1>5, <2>1, <3>1 DEF FactsAccept
  <2>4. StageAfter(e) = "Running" /\ "Running" \notin SettledCall /\ e.kind \in ToolEvents
    BY <2>1 DEF StageAfter, SettledCall, ToolEvents
  <2> QED
    BY <1>3, <1>4, <2>1, <2>2, <2>3, <2>4, CallFactsFollow
<1>10. ASSUME NEW k \in {"ToolCallCompleted", "ToolCallFailed", "ToolCallMarkedUnknown",
                         "ToolCallDenied", "ToolCallCancelled"},
              NEW to \in SettledCall, Emit(OfCall(k, c)), SettleCall(c, to),
              callStatus[c] \in StagesBefore(k)
       PROVE  FactsInv'
  <2> DEFINE e == OfCall(k, c)
  <2>1. e.kind = k /\ e.call = c
    BY Fields
  <2>2. /\ callStatus' = [callStatus EXCEPT ![c] = to] /\ UNCHANGED <<policy, answer>>
    BY <1>10 DEF SettleCall, MoveCall
  <2> HIDE DEF e
  <2>3. FactsAccept(AggregateFacts, e)
    <3>1. CallStage(c) \in StagesBefore(k)
      BY <1>10 DEF CallStage, StagesBefore, CallSettlement, SettledCall
    <3>2. c # None
      BY AbsentAssumption
    <3> QED
      BY <1>5, <1>10, <2>1, <3>1, <3>2 DEF FactsAccept
  <2>4. StageAfter(e) = "Settled" /\ e.kind \in ToolEvents /\ to # "Absent"
    BY <1>10, <2>1 DEF StageAfter, ToolEvents, SettledCall
  <2>5. Emit(e)
    BY <1>10 DEF e
  <2> QED
    BY <1>3, <1>4, <2>1, <2>2, <2>3, <2>4, <2>5, CallFactsFollow
<1>11. /\ StoreTool(CompleteToolCall(c), OfCall("ToolCallCompleted", c)) => FactsInv'
       /\ StoreTool(FailToolCall(c), OfCall("ToolCallFailed", c)) => FactsInv'
       /\ StoreTool(MarkToolCallUnknown(c), OfCall("ToolCallMarkedUnknown", c)) => FactsInv'
       /\ StoreTool(DenyToolCall(c), OfCall("ToolCallDenied", c)) => FactsInv'
       /\ StoreTool(CancelToolCall(c), OfCall("ToolCallCancelled", c)) => FactsInv'
  BY <1>10 DEF StoreTool, CompleteToolCall, FailToolCall, MarkToolCallUnknown, DenyToolCall,
     CancelToolCall, DecideSettleRunningCall, DecideDenyToolCall, DecideCancelToolCall,
     CallIn, StagesBefore, CallSettlement, SettledCall
<1> QED
  BY <1>6, <1>7, <1>8, <1>9, <1>11 DEF ReadToolStep

\* The machine stays in step with the aggregate.
LEMMA FactsInvStep ==
  StoreInv /\ FactsInv /\ [ReadsNext]_readsVars => FactsInv'
<1> SUFFICES ASSUME StoreInv, FactsInv, [ReadsNext]_readsVars PROVE FactsInv'
  OBVIOUS
<1>2. CASE ReadDeletion
  <2>1. created /\ created' = created /\ ~Present' /\ facts' = NoFacts
    BY <1>2 DEF ReadDeletion, DeleteSession, StoreInv, ProjectionMatchesAggregate, Deleted,
       Present, SessionRowMatches, vars, sessionVars
  <2> QED
    BY <2>1 DEF FactsInv, Deleted
<1>3. CASE UNCHANGED readsVars
  BY <1>3 DEF readsVars, readVars, storeVars, rowVars, vars, sessionVars, attemptVars,
     callVars, FactsInv, AggregateFacts, InputFact, CallStage, Deleted, Present
<1> QED
  BY <1>2, <1>3, LifecycleFacts, AttemptFactsFollow, ToolFacts DEF ReadsNext

\* Compaction's own reading of the log accepts every log the engine wrote, and
\* the facts it freezes are exactly the unsettled work of the aggregate.
THEOREM PendingFactsSafe == ReadsSpec => []PendingFactsAreUnsettledWork
<1>1. ReadsInit => FactsInv
  <2> SUFFICES ASSUME ReadsInit PROVE FactsInv
    OBVIOUS
  <2>1. ~Deleted /\ facts = NoFacts
    BY DEF ReadsInit, StoreInit, Init, Deleted
  <2>2. [i \in Inputs |-> InputFact(i)] = [i \in Inputs |-> "absent"]
    BY DEF ReadsInit, StoreInit, Init, InputFact
  <2>3. {a \in Attempts : status[a] # "Absent"} = {}
    BY DEF ReadsInit, StoreInit, Init
  <2>4. [c \in Calls |-> CallStage(c)] = [c \in Calls |-> "absent"]
    BY DEF ReadsInit, StoreInit, Init, CallStage
  <2>5. policy = [c \in Calls |-> None] /\ answer = [c \in Calls |-> None]
    BY DEF ReadsInit, StoreInit, Init
  <2> QED
    BY <2>1, <2>2, <2>3, <2>4, <2>5 DEF FactsInv, AggregateFacts, Known, NoFacts
<1>2. StoreInv /\ FactsInv => PendingFactsAreUnsettledWork
  <2> SUFFICES ASSUME StoreInv, FactsInv PROVE PendingFactsAreUnsettledWork
    OBVIOUS
  <2>1. facts.valid
    BY DEF FactsInv, NoFacts, AggregateFacts, Known
  <2>2. ASSUME ~Deleted
        PROVE  /\ \A i \in Inputs : facts.inputs[i] = InputFact(i)
               /\ \A c \in Calls : /\ facts.stage[c] = CallStage(c)
                                   /\ facts.policy[c] = policy[c]
                                   /\ facts.answer[c] = answer[c]
    BY <2>2 DEF FactsInv, AggregateFacts, Known
  <2>3. TypeOK /\ Provenance
    BY DEF StoreInv, IInv
  <2>4. \A i \in Inputs : InputFact(i) = "pending" <=> i \in admitted /\ promotedBy[i] = None
    BY DEF InputFact
  <2>5. \A c \in Calls :
          /\ CallStage(c) = "PermissionPending" <=> callStatus[c] = "PermissionPending"
          /\ CallStage(c) \notin {"absent", "Settled"} <=>
               callStatus[c] \in ToolCallStatus \ SettledCall
          /\ callStatus[c] \in ToolCallStatus \ SettledCall => CallStage(c) = callStatus[c]
    BY <2>3 DEF TypeOK, CallStage, ToolCallStatus, SettledCall
  <2>6. ASSUME ~Deleted
        PROVE  /\ {i \in Inputs : facts.inputs[i] = "pending"} =
                    {i \in admitted : promotedBy[i] = None}
               /\ {c \in Calls : facts.stage[c] = "PermissionPending"} =
                    {c \in Calls : callStatus[c] = "PermissionPending"}
               /\ {c \in Calls : facts.stage[c] \notin {"absent", "Settled"}} =
                    {c \in Calls : callStatus[c] \in ToolCallStatus \ SettledCall}
    BY <2>2, <2>3, <2>4, <2>5, <2>6 DEF TypeOK
  <2>7. ASSUME ~Deleted
        PROVE  {<<"tool", c, facts.stage[c], facts.policy[c], facts.answer[c]>> :
                  c \in {c \in Calls : facts.stage[c] \notin {"absent", "Settled"}}} =
               {<<"tool", c, callStatus[c], policy[c], answer[c]>> :
                  c \in {c \in Calls : callStatus[c] \in ToolCallStatus \ SettledCall}}
    BY <2>2, <2>5, <2>6, <2>7
  <2> QED
    BY <2>1, <2>6, <2>7 DEF PendingFactsAreUnsettledWork, PendingSessionFacts
<1>3. ReadsSpec => []StoreInv
  BY ReadsImplementStore, StoreInvariantHolds, PTL
<1> QED
  BY <1>1, <1>2, <1>3, FactsInvStep, PTL DEF ReadsSpec

-----------------------------------------------------------------------------
(* Part two: the coordinator.                                              *)

-----------------------------------------------------------------------------
(* Handlers: which steps a phase runs, and what follows each of them.      *)

AttemptOps == {"configure", "start", "bind", "dispatch", "spawn", "cancelCalls",
               "settle", "fail", "abort"}
CallOps == {"permission", "startCall", "deny", "launch", "propose", "proposed"}
HandlerSteps ==
    (AttemptOps \X Attempts) \cup (CallOps \X Calls)
        \cup ({"maybeResume", "afterTool"} \X {None})
RecoverAttemptSteps == {"recoverAttempt"} \X Attempts
RecoverySteps == ({"recoverCalls"} \X {None}) \cup RecoverAttemptSteps

\* What the coordinator may still have to do while it is up: every handler and
\* every rest of one. A permission answer and a memory proposal end by looking
\* whether the paused turn can go on, so that step may be left behind another.
Resume == <<"maybeResume", None>>
AttemptHandlers(a) ==
    { << <<"configure", a>>, <<"start", a>>, <<"bind", a>>, <<"dispatch", a>> >>,
      << <<"start", a>>, <<"bind", a>>, <<"dispatch", a>> >>,
      << <<"bind", a>>, <<"dispatch", a>> >>,
      << <<"bind", a>>, <<"dispatch", a>>, Resume >>,
      << <<"dispatch", a>> >>, << <<"dispatch", a>>, Resume >>,
      << <<"spawn", a>> >>, << <<"spawn", a>>, Resume >>,
      << <<"cancelCalls", a>> >>,
      << <<"settle", a>>, <<"fail", a>> >>, << <<"settle", a>>, <<"abort", a>> >>,
      << <<"fail", a>> >>, << <<"abort", a>> >> }
CallHandlers(c) ==
    { << <<"permission", c>> >>,
      << <<"startCall", c>> >>, << <<"startCall", c>>, Resume >>,
      << <<"deny", c>> >>, << <<"deny", c>>, Resume >>,
      << <<"launch", c>> >>, << <<"launch", c>>, Resume >>,
      << <<"propose", c>> >>, << <<"propose", c>>, Resume >>,
      << <<"proposed", c>> >>, << <<"proposed", c>>, Resume >> }
UpHandler ==
    \/ todo \in { <<>>, <<Resume>>, <<Resume, Resume>>, << <<"afterTool", None>> >> }
    \/ \E a \in Attempts : todo \in AttemptHandlers(a)
    \/ \E c \in Calls : todo \in CallHandlers(c)

\* A handler of the running process, a recovery, or nothing.
HandlerType ==
    /\ phase = "up" => UpHandler
    /\ phase = "recovering" =>
          /\ todo \in Seq(RecoverySteps)
          /\ todo # <<>> => Tail(todo) \in Seq(RecoverAttemptSteps)
    /\ phase \in {"down", "stopped"} => todo = <<>>

\* What follows each step of a handler.
Rest == {<<>>, <<Resume>>}
HandlerShape ==
    /\ \A a \in Attempts :
          /\ Now("configure", a) =>
                Tail(todo) = << <<"start", a>>, <<"bind", a>>, <<"dispatch", a>> >>
          /\ Now("start", a) => Tail(todo) = << <<"bind", a>>, <<"dispatch", a>> >>
          /\ Now("bind", a) =>
                Tail(todo) \in { << <<"dispatch", a>> >>, << <<"dispatch", a>>, Resume >> }
          /\ Now("dispatch", a) => Tail(todo) \in Rest
          /\ Now("spawn", a) => Tail(todo) \in Rest
          /\ Now("cancelCalls", a) => Tail(todo) = <<>>
          /\ Now("settle", a) =>
                Tail(todo) \in { << <<"fail", a>> >>, << <<"abort", a>> >> }
    /\ \A c \in Calls :
          /\ Now("permission", c) => Tail(todo) = <<>>
          /\ Now("startCall", c) => Tail(todo) \in Rest
          /\ Now("deny", c) => Tail(todo) \in Rest
          /\ Now("launch", c) => Tail(todo) \in Rest
          /\ Now("propose", c) => Tail(todo) \in Rest
          /\ Now("proposed", c) => Tail(todo) \in Rest
    /\ Now("maybeResume", None) => Tail(todo) \in Rest
    /\ Now("afterTool", None) => Tail(todo) = <<>>

\* A process that is not up has no tasks, no tokens and no active attempt.
QuietUnlessUp ==
    phase # "up" =>
        /\ active = None /\ slots = 0 /\ ~guarded /\ cancelled = {}
        /\ \A a \in Attempts : ~Live(a)
        /\ \A c \in Calls : runner[c] = None

BoundsType ==
    /\ outputs \in Nat /\ edits \in Nat /\ restarts \in Nat
    /\ phase = "recovering" => restarts > 0

Control == CoordTypeOK /\ BoundsType /\ HandlerType /\ QuietUnlessUp

-----------------------------------------------------------------------------
(* What a step may rely on when its turn comes.                            *)

AttemptStages ==
    \A a \in Attempts :
        /\ Now("configure", a) \/ Now("start", a) =>
              status[a] = "Prepared" /\ active = None
        /\ Now("bind", a) \/ Now("dispatch", a) =>
              /\ status[a] = "InFlight" /\ a \in dispatchReady
              /\ active \in {None, a}
        /\ Now("spawn", a) =>
              /\ status[a] = "InFlight" /\ a \notin dispatchReady
              /\ sent[a] < turnsStarted[a] /\ CallsSettled(a)
              /\ active \in {None, a}
        /\ Now("fail", a) => active \in {None, a}
        /\ Now("settle", a) /\ Tail(todo) = << <<"fail", a>> >> => active = a
        /\ Now("cancelCalls", a) => active = a /\ status[a] = "CancellationRequested"

CallStages ==
    \A c \in Calls :
        /\ Now("permission", c) =>
              callStatus[c] = "Proposed" /\ status[callAttempt[c]] = "InFlight"
        /\ Now("startCall", c) =>
              /\ callStatus[c] = "Authorized"
              /\ answer[c] = "AllowOnce" \/ status[callAttempt[c]] = "InFlight"
        /\ Now("launch", c) => callStatus[c] = "Running" /\ ran[c] = 0
        /\ Now("propose", c) \/ Now("proposed", c) =>
              callStatus[c] = "Running" /\ c \in ProposalCalls

\* Attempts: what is active can be active, what listens was sent, a paused
\* attempt listens to nothing, and a turn that waits for its dispatch has no
\* open calls.
AttemptFacts ==
    /\ active # None =>
          status[active] \in {"InFlight", "AwaitingTools", "CancellationRequested"}
    /\ \A a \in Attempts :
          /\ stream[a] # "closed" => turnsStarted[a] > 0
          /\ status[a] = "AwaitingTools" => ~Live(a)
          /\ Live(a) /\ active = a => a \notin dispatchReady
          /\ a \in dispatchReady /\ status[a] = "InFlight" => CallsSettled(a)
          /\ PendingBindings(a) # {} => a \in dispatchReady
          /\ phase = "up" /\ status[a] = "CancellationRequested" => a \in cancelled

\* Requests that were sent, and those whose outcome was lost.
RequestFacts ==
    \A a \in Attempts :
        /\ sent[a] <= turnsStarted[a]
        /\ stream[a] = "lost" =>
              /\ status[a] \in {"InFlight", "CancellationRequested", "Unknown"}
              /\ a \notin dispatchReady
              /\ phase = "up" => status[a] = "Unknown"

\* Executions and proposals.
CallFacts ==
    \A c \in Calls :
        /\ ran[c] \in {0, 1}
        /\ ran[c] = 1 => /\ callStatus[c] \in {"Running", "Completed", "Unknown"}
                         /\ c \notin ProposalCalls
        /\ runner[c] # None => ran[c] = 1
        /\ c \in committed => callStatus[c] \in {"Running", "Completed"}
        /\ phase = "up" /\ c \in committed /\ callStatus[c] = "Running" =>
              Now("proposed", c)
        /\ phase = "up" /\ callStatus[c] = "Running" =>
              \/ runner[c] # None
              \/ Now("launch", c) \/ Now("propose", c) \/ Now("proposed", c)

\* The log's attempts in order, and what startup recovery still has to do.
ToRecover(a) == \E n \in DOMAIN todo : todo[n] = <<"recoverAttempt", a>>
RecoveryFacts ==
    /\ order \in Seq(Attempts)
    /\ \A a \in Attempts : status[a] # "Absent" => \E n \in DOMAIN order : order[n] = a
    /\ \A n \in DOMAIN order : status[order[n]] # "Absent"
    /\ \A m, n \in DOMAIN order : order[m] = order[n] => m = n
    /\ phase = "recovering" =>
          /\ \A a \in Attempts :
                status[a] \in {"Prepared", "InFlight", "CancellationRequested"} =>
                  \/ ToRecover(a)
                  \/ status[a] = "InFlight" /\ PendingBindings(a) # {}
          /\ ~Now("recoverCalls", None) =>
                \A c \in Calls :
                    \/ callStatus[c] \in SettledCall \cup {"Absent"}
                    \/ KeepsAsking(c)


-----------------------------------------------------------------------------

\* A step of a handler is a command of the session, or leaves the log alone.
LEMMA HandlerRefines == TypeOK /\ CoordTypeOK /\ HandlerStep => [Next]_vars
<1> SUFFICES ASSUME TypeOK, CoordTypeOK, HandlerStep PROVE [Next]_vars
  OBVIOUS
<1> USE DEF Next, AttemptStep, ToolStep, LogOnly
<1>1. ASSUME NEW a \in Attempts, CancelCalls(a) PROVE [Next]_vars
  BY <1>1 DEF CancelCalls, UnsettledCalls, CallsOf
<1>2. ASSUME NEW a \in Attempts, Configure(a) PROVE [Next]_vars
  BY <1>2 DEF Configure
<1>3. ASSUME NEW a \in Attempts, Start(a) PROVE [Next]_vars
  BY <1>3 DEF Start
<1>4. ASSUME NEW a \in Attempts, Bind(a) PROVE [Next]_vars
  <2>1. NextTurn(a) \in 1 .. NextTurn(a)
    BY DEF NextTurn, TypeOK
  <2> QED
    BY <1>4, <2>1 DEF Bind
<1>5. ASSUME NEW a \in Attempts, Dispatch(a) PROVE [Next]_vars
  BY <1>5 DEF Dispatch
<1>6. ASSUME NEW a \in Attempts, Spawn(a) PROVE [Next]_vars
  BY <1>6 DEF Spawn
<1>7. ASSUME NEW a \in Attempts, Settle(a) PROVE [Next]_vars
  BY <1>7 DEF Settle, UnsettledCalls, CallsOf, SettleConservatively
<1>8. ASSUME NEW a \in Attempts, Fail(a) \/ Abort(a) PROVE [Next]_vars
  BY <1>8 DEF Fail, Abort
<1>9. ASSUME NEW c \in Calls, Permission(c) PROVE [Next]_vars
  BY <1>9, OutcomesAssumption DEF Permission
<1>10. ASSUME NEW c \in Calls, Deny(c) \/ StartCall(c) PROVE [Next]_vars
  BY <1>10 DEF Deny, StartCall
<1>11. ASSUME NEW c \in Calls, Launch(c) PROVE [Next]_vars
  BY <1>11 DEF Launch
<1>12. ASSUME NEW c \in Calls, Propose(c) \/ Proposed(c) PROVE [Next]_vars
  BY <1>12 DEF Propose, Proposed
<1>13. CASE MaybeResume
  BY <1>13 DEF MaybeResume, CoordTypeOK
<1>14. CASE AfterTool
  BY <1>14 DEF AfterTool, CoordTypeOK
<1> QED
  BY <1>1, <1>2, <1>3, <1>4, <1>5, <1>6, <1>7, <1>8, <1>9, <1>10, <1>11, <1>12,
     <1>13, <1>14 DEF HandlerStep

\* So is an intent of the user.
LEMMA IntentRefines == TypeOK /\ UserIntent => [Next]_vars
<1> SUFFICES ASSUME TypeOK, UserIntent PROVE [Next]_vars
  OBVIOUS
<1> USE DEF Next, LifecycleStep, AttemptStep, ToolStep
<1>1. CASE CreateOrSelect \/ EditSession
  BY <1>1 DEF CreateOrSelect, EditSession
<1>2. ASSUME NEW i \in Inputs, NEW a \in Attempts, SubmitPrompt(i, a) PROVE [Next]_vars
  BY <1>2 DEF SubmitPrompt
<1>3. ASSUME NEW prior \in Attempts, NEW a \in Attempts, RetryAttempt(prior, a) PROVE [Next]_vars
  <2>1. request[prior].input \in Inputs
    BY <1>3 DEF RetryAttempt, TypeOK, AttemptRequest
  <2> QED
    BY <1>3, <2>1 DEF RetryAttempt
<1>4. ASSUME NEW a \in Attempts, Cancel(a) PROVE [Next]_vars
  BY <1>4 DEF Cancel
<1>5. ASSUME NEW c \in Calls, NEW given \in {"AllowOnce", "Deny"}, AnswerPermission(c, given)
      PROVE  [Next]_vars
  BY <1>5 DEF AnswerPermission
<1>6. CASE SubmitCredential
  BY <1>6 DEF SubmitCredential
<1> QED
  BY <1>1, <1>2, <1>3, <1>4, <1>5, <1>6 DEF UserIntent

\* So is a message of a stream or of a tool task.
LEMMA TaskRefines ==
  ASSUME TypeOK,
         (\E a \in Attempts : StreamStep(a)) \/ (\E c \in Calls : ToolResult(c))
  PROVE  [Next]_vars
<1> USE DEF Next, AttemptStep, ToolStep
<1>1. ASSUME NEW a \in Attempts, StreamOutput(a) PROVE [Next]_vars
  BY <1>1 DEF StreamOutput
<1>2. ASSUME NEW a \in Attempts, NEW c \in Calls, StreamCall(a, c) PROVE [Next]_vars
  BY <1>2 DEF StreamCall
<1>3. ASSUME NEW a \in Attempts, StreamPaused(a) PROVE [Next]_vars
  BY <1>3 DEF StreamPaused, CancelIfSettled
<1>4. ASSUME NEW a \in Attempts, StreamCompleted(a) PROVE [Next]_vars
  BY <1>4 DEF StreamCompleted
<1>5. ASSUME NEW a \in Attempts, StreamEnded(a) \/ StreamDropped(a) PROVE [Next]_vars
  BY <1>5 DEF StreamEnded, StreamDropped, CancelIfSettled
<1>6. ASSUME NEW c \in Calls, ToolResult(c) PROVE [Next]_vars
  BY <1>6 DEF ToolResult
<1> QED
  BY <1>1, <1>2, <1>3, <1>4, <1>5, <1>6 DEF StreamStep, StreamEnds

\* So is a step of the catalog, of a crash, of a restart and of recovery.
LEMMA ProcessRefines ==
  ASSUME TypeOK, CatalogStep \/ Crash \/ Restart \/ RecoveryStep
  PROVE  [Next]_vars
<1> USE DEF Next, AttemptStep, ToolStep, LogOnly
<1>1. CASE CatalogStep
  BY <1>1 DEF CatalogStep, CatalogRefused, ResumeBound
<1>2. CASE Crash \/ Restart
  BY <1>2 DEF Crash, Restart
<1>3. CASE RecoverCalls
  BY <1>3 DEF RecoverCalls, RecoverCall
<1>4. ASSUME NEW a \in Attempts, RecoverAttempt(a) PROVE [Next]_vars
  BY <1>4 DEF RecoverAttempt
<1>5. ASSUME NEW mode \in RestartModes, Boot(mode) PROVE [Next]_vars
  BY <1>5 DEF Boot
<1> QED
  BY <1>1, <1>2, <1>3, <1>4, <1>5 DEF RecoveryStep

-----------------------------------------------------------------------------
(* Control.                                                                *)

HandlerOps == AttemptOps \cup CallOps \cup {"maybeResume", "afterTool"}

\* What follows each step of a handler that works on an attempt.
LEMMA ShapeOfAttemptHandler ==
  ASSUME NEW a \in Attempts, todo \in AttemptHandlers(a)
  PROVE  todo \in Seq(HandlerSteps) /\ HandlerShape
<1>1. CASE todo = << <<"configure", a>>, <<"start", a>>, <<"bind", a>>, <<"dispatch", a>> >>
  BY <1>1 DEF HandlerShape, Now, Rest, Resume, HandlerSteps, AttemptOps, CallOps
<1>2. CASE todo = << <<"start", a>>, <<"bind", a>>, <<"dispatch", a>> >>
  BY <1>2 DEF HandlerShape, Now, Rest, Resume, HandlerSteps, AttemptOps, CallOps
<1>3. CASE todo = << <<"bind", a>>, <<"dispatch", a>> >>
  BY <1>3 DEF HandlerShape, Now, Rest, Resume, HandlerSteps, AttemptOps, CallOps
<1>4. CASE todo = << <<"bind", a>>, <<"dispatch", a>>, Resume >>
  BY <1>4 DEF HandlerShape, Now, Rest, Resume, HandlerSteps, AttemptOps, CallOps
<1>5. CASE todo = << <<"dispatch", a>> >>
  BY <1>5 DEF HandlerShape, Now, Rest, Resume, HandlerSteps, AttemptOps, CallOps
<1>6. CASE todo = << <<"dispatch", a>>, Resume >>
  BY <1>6 DEF HandlerShape, Now, Rest, Resume, HandlerSteps, AttemptOps, CallOps
<1>7. CASE todo = << <<"spawn", a>> >>
  BY <1>7 DEF HandlerShape, Now, Rest, Resume, HandlerSteps, AttemptOps, CallOps
<1>8. CASE todo = << <<"spawn", a>>, Resume >>
  BY <1>8 DEF HandlerShape, Now, Rest, Resume, HandlerSteps, AttemptOps, CallOps
<1>9. CASE todo = << <<"cancelCalls", a>> >>
  BY <1>9 DEF HandlerShape, Now, Rest, Resume, HandlerSteps, AttemptOps, CallOps
<1>10. CASE todo = << <<"settle", a>>, <<"fail", a>> >>
  BY <1>10 DEF HandlerShape, Now, Rest, Resume, HandlerSteps, AttemptOps, CallOps
<1>11. CASE todo = << <<"settle", a>>, <<"abort", a>> >>
  BY <1>11 DEF HandlerShape, Now, Rest, Resume, HandlerSteps, AttemptOps, CallOps
<1>12. CASE todo = << <<"fail", a>> >>
  BY <1>12 DEF HandlerShape, Now, Rest, Resume, HandlerSteps, AttemptOps, CallOps
<1>13. CASE todo = << <<"abort", a>> >>
  BY <1>13 DEF HandlerShape, Now, Rest, Resume, HandlerSteps, AttemptOps, CallOps
<1> QED
  BY <1>1, <1>2, <1>3, <1>4, <1>5, <1>6, <1>7, <1>8, <1>9, <1>10, <1>11, <1>12, <1>13 DEF AttemptHandlers

\* The same for a handler that works on a call.
LEMMA ShapeOfCallHandler ==
  ASSUME NEW c \in Calls, todo \in CallHandlers(c)
  PROVE  todo \in Seq(HandlerSteps) /\ HandlerShape
<1>1. CASE todo = << <<"permission", c>> >>
  BY <1>1 DEF HandlerShape, Now, Rest, Resume, HandlerSteps, AttemptOps, CallOps
<1>2. CASE todo = << <<"startCall", c>> >>
  BY <1>2 DEF HandlerShape, Now, Rest, Resume, HandlerSteps, AttemptOps, CallOps
<1>3. CASE todo = << <<"startCall", c>>, Resume >>
  BY <1>3 DEF HandlerShape, Now, Rest, Resume, HandlerSteps, AttemptOps, CallOps
<1>4. CASE todo = << <<"deny", c>> >>
  BY <1>4 DEF HandlerShape, Now, Rest, Resume, HandlerSteps, AttemptOps, CallOps
<1>5. CASE todo = << <<"deny", c>>, Resume >>
  BY <1>5 DEF HandlerShape, Now, Rest, Resume, HandlerSteps, AttemptOps, CallOps
<1>6. CASE todo = << <<"launch", c>> >>
  BY <1>6 DEF HandlerShape, Now, Rest, Resume, HandlerSteps, AttemptOps, CallOps
<1>7. CASE todo = << <<"launch", c>>, Resume >>
  BY <1>7 DEF HandlerShape, Now, Rest, Resume, HandlerSteps, AttemptOps, CallOps
<1>8. CASE todo = << <<"propose", c>> >>
  BY <1>8 DEF HandlerShape, Now, Rest, Resume, HandlerSteps, AttemptOps, CallOps
<1>9. CASE todo = << <<"propose", c>>, Resume >>
  BY <1>9 DEF HandlerShape, Now, Rest, Resume, HandlerSteps, AttemptOps, CallOps
<1>10. CASE todo = << <<"proposed", c>> >>
  BY <1>10 DEF HandlerShape, Now, Rest, Resume, HandlerSteps, AttemptOps, CallOps
<1>11. CASE todo = << <<"proposed", c>>, Resume >>
  BY <1>11 DEF HandlerShape, Now, Rest, Resume, HandlerSteps, AttemptOps, CallOps
<1> QED
  BY <1>1, <1>2, <1>3, <1>4, <1>5, <1>6, <1>7, <1>8, <1>9, <1>10, <1>11 DEF CallHandlers

\* A handler of the running process has the shape HandlerShape names.
LEMMA ShapeOfHandler ==
  ASSUME UpHandler PROVE todo \in Seq(HandlerSteps) /\ HandlerShape
<1>1. CASE todo = <<>>
  BY <1>1 DEF HandlerShape, Now, Rest, Resume, HandlerSteps, AttemptOps, CallOps
<1>2. CASE todo = <<Resume>>
  BY <1>2 DEF HandlerShape, Now, Rest, Resume, HandlerSteps, AttemptOps, CallOps
<1>3. CASE todo = <<Resume, Resume>>
  BY <1>3 DEF HandlerShape, Now, Rest, Resume, HandlerSteps, AttemptOps, CallOps
<1>4. CASE todo = << <<"afterTool", None>> >>
  BY <1>4 DEF HandlerShape, Now, Rest, Resume, HandlerSteps, AttemptOps, CallOps
<1> QED
  BY <1>1, <1>2, <1>3, <1>4, ShapeOfAttemptHandler, ShapeOfCallHandler DEF UpHandler

\* Only the running process has a handler's step to take.
LEMMA HandlerIsUp ==
  ASSUME CoordTypeOK, HandlerType, NEW op \in HandlerOps, NEW x, Now(op, x)
  PROVE  phase = "up" /\ todo \in Seq(HandlerSteps) /\ todo # <<>> /\ HandlerShape
<1>1. todo # <<>> /\ Head(todo) = <<op, x>>
  BY DEF Now
<1>2. phase # "recovering"
  <2> SUFFICES ASSUME todo \in Seq(RecoverySteps) PROVE FALSE
    BY DEF HandlerType
  <2>1. <<op, x>> \in RecoverySteps
    BY <1>1
  <2> QED
    BY <2>1 DEF RecoverySteps, RecoverAttemptSteps, HandlerOps, AttemptOps, CallOps
<1>3. phase = "up"
  BY <1>1, <1>2 DEF HandlerType, CoordTypeOK
<1> QED
  BY <1>1, <1>3, ShapeOfHandler DEF HandlerType

\* Done drops the step that was taken.
LEMMA DoneTail ==
  ASSUME NEW S, todo \in Seq(S), todo # <<>>, Done PROVE todo' = Tail(todo)
  BY DEF Done, Then

\* One step in front of nothing.
LEMMA ConcatOneNone == ASSUME NEW x PROVE <<x>> \o <<>> = <<x>>
<1>1. <<x>> \in Seq({x})
  OBVIOUS
<1> QED
  BY <1>1, ConcatEmptySeq

\* One step in front of another.
LEMMA ConcatOneOne == ASSUME NEW x, NEW y PROVE <<x>> \o <<y>> = <<x, y>>
<1> DEFINE S == {x, y}
           s == <<x>> \o <<y>>
<1>1. <<x>> \in Seq(S) /\ <<y>> \in Seq(S) /\ <<x, y>> \in Seq(S)
  OBVIOUS
<1>2. s \in Seq(S) /\ Len(s) = 2 /\ s[1] = x /\ s[2] = y
  BY <1>1, ConcatProperties
<1>3. Len(<<x, y>>) = 2 /\ \A i \in 1 .. Len(s) : s[i] = <<x, y>>[i]
  BY <1>2
<1> HIDE DEF s, S
<1> QED
  BY <1>1, <1>2, <1>3, SeqEqual DEF s

\* Two steps in front of the rest of a handler.
LEMMA ConcatTwo ==
  ASSUME NEW x, NEW y, NEW z
  PROVE  <<x, y>> \o <<>> = <<x, y>> /\ <<x, y>> \o <<z>> = <<x, y, z>>
<1> DEFINE S == {x, y, z}
           s == <<x, y>> \o <<z>>
<1>1. <<x, y>> \in Seq(S) /\ <<z>> \in Seq(S) /\ <<x, y, z>> \in Seq(S)
  OBVIOUS
<1>2. s \in Seq(S) /\ Len(s) = 3 /\ s[1] = x /\ s[2] = y /\ s[3] = z
  BY <1>1, ConcatProperties
<1>3. Len(<<x, y, z>>) = 3 /\ \A i \in 1 .. Len(s) : s[i] = <<x, y, z>>[i]
  BY <1>2
<1>4. <<x, y>> \o <<>> = <<x, y>>
  BY <1>1, ConcatEmptySeq
<1> HIDE DEF s, S
<1> QED
  BY <1>1, <1>2, <1>3, <1>4, SeqEqual DEF s

\* What is to do after one step is put in front of the rest of a handler.
LEMMA ThenOne ==
  ASSUME NEW x, Tail(todo) \in Rest, Then(<<x>>)
  PROVE  todo' \in { <<x>>, <<x, Resume>> }
  BY ConcatOneNone, ConcatOneOne DEF Then, Rest

\* The same for two steps.
LEMMA ThenTwo ==
  ASSUME NEW x, NEW y, Tail(todo) \in Rest, Then(<<x, y>>)
  PROVE  todo' \in { <<x, y>>, <<x, y, Resume>> }
  BY ConcatTwo DEF Then, Rest

\* The head of a handler that starts with one step.
LEMMA OneHead ==
  ASSUME NEW x, NEW s, s \in { <<x>>, <<x, Resume>> } PROVE s # <<>> /\ Head(s) = x
  OBVIOUS

\* The head of a handler that starts with two.
LEMMA TwoHead ==
  ASSUME NEW x, NEW y, NEW s, s \in { <<x, y>>, <<x, y, Resume>> } PROVE s # <<>> /\ Head(s) = x
  OBVIOUS

-----------------------------------------------------------------------------
(* What each step of a handler does to the rest of it.                     *)

\* A step that leads to one other, with or without the resume behind it.
LEMMA LeadsTo ==
  ASSUME NEW op, NEW x, todo' \in { << <<op, x>> >>, << <<op, x>>, Resume >> }
  PROVE  Now(op, x)'
  BY DEF Now

\* Cancelling the calls of a paused run ends the handler.
LEMMA CancelCallsNext ==
  ASSUME Control, NEW a \in Attempts, CancelCalls(a)
  PROVE  /\ phase = "up" /\ phase' = "up" /\ Now("cancelCalls", a) /\ UpHandler'
         /\ \/ todo' = todo /\ UNCHANGED active
            \/ todo' = <<>>
<1>1. phase = "up" /\ todo \in Seq(HandlerSteps) /\ todo # <<>> /\ HandlerShape /\ Now("cancelCalls", a)
  BY HandlerIsUp DEF CancelCalls, Control, HandlerOps, AttemptOps
<1>2. UpHandler
  BY <1>1 DEF Control, HandlerType
<1>3. Tail(todo) = <<>>
  BY <1>1 DEF HandlerShape
<1>4. (todo' = todo /\ UNCHANGED active) \/ todo' = <<>>
  BY <1>1, <1>3, DoneTail DEF CancelCalls
<1>5. UpHandler'
  BY <1>2, <1>4 DEF UpHandler
<1> QED
  BY <1>1, <1>4, <1>5 DEF CancelCalls

\* Configuring leads to the start, or the attempt is failed at once.
LEMMA ConfigureNext ==
  ASSUME Control, NEW a \in Attempts, Configure(a)
  PROVE  /\ phase = "up" /\ phase' = "up" /\ Now("configure", a) /\ UpHandler'
         /\ \/ (\E limit \in TurnLimits : ConfigureRunBudget(a, limit)) /\ Now("start", a)'
            \/ (\E advised \in BOOLEAN : FailAttempt(a, advised)) /\ todo' = <<>>
<1>1. phase = "up" /\ todo \in Seq(HandlerSteps) /\ todo # <<>> /\ HandlerShape /\ Now("configure", a)
  BY HandlerIsUp DEF Configure, Control, HandlerOps, AttemptOps
<1>2. Tail(todo) = << <<"start", a>>, <<"bind", a>>, <<"dispatch", a>> >>
  BY <1>1 DEF HandlerShape
<1>3. CASE (\E limit \in TurnLimits : ConfigureRunBudget(a, limit)) /\ Done
  <2>1. todo' = << <<"start", a>>, <<"bind", a>>, <<"dispatch", a>> >>
    BY <1>1, <1>2, <1>3, DoneTail
  <2>2. Now("start", a)'
    BY <2>1 DEF Now
  <2>3. UpHandler'
    BY <2>1 DEF UpHandler, AttemptHandlers
  <2> QED
    BY <1>1, <1>3, <2>2, <2>3 DEF Configure, LogOnly
<1>4. CASE \E advised \in BOOLEAN : FailAttempt(a, advised) /\ Return(<<>>)
  BY <1>1, <1>4 DEF Configure, LogOnly, Return, UpHandler
<1> QED
  BY <1>3, <1>4 DEF Configure

\* The start leads to the binding.
LEMMA StartNext ==
  ASSUME Control, NEW a \in Attempts, Start(a)
  PROVE  /\ phase = "up" /\ phase' = "up" /\ Now("start", a) /\ UpHandler'
         /\ StartAttempt(a) /\ Now("bind", a)'
<1>1. phase = "up" /\ todo \in Seq(HandlerSteps) /\ todo # <<>> /\ HandlerShape /\ Now("start", a)
  BY HandlerIsUp DEF Start, Control, HandlerOps, AttemptOps
<1>2. todo' = << <<"bind", a>>, <<"dispatch", a>> >>
  BY <1>1, DoneTail DEF HandlerShape, Start
<1>3. Now("bind", a)'
  BY <1>2 DEF Now
<1>4. UpHandler'
  BY <1>2 DEF UpHandler, AttemptHandlers
<1> QED
  BY <1>1, <1>3, <1>4 DEF Start, LogOnly

\* The binding leads to the dispatch, or to the failure.
LEMMA BindNext ==
  ASSUME Control, NEW a \in Attempts, Bind(a)
  PROVE  /\ phase = "up" /\ phase' = "up" /\ Now("bind", a) /\ UpHandler'
         /\ \/ (\E t \in ContextTurns : BindContextTurn(a, t, NextTurn(a))) /\ Now("dispatch", a)'
            \/ UNCHANGED vars /\ Now("fail", a)'
<1>1. phase = "up" /\ todo \in Seq(HandlerSteps) /\ todo # <<>> /\ HandlerShape /\ Now("bind", a)
  BY HandlerIsUp DEF Bind, Control, HandlerOps, AttemptOps
<1>2. CASE (\E t \in ContextTurns : BindContextTurn(a, t, NextTurn(a))) /\ Done
  <2>1. todo' \in { << <<"dispatch", a>> >>, << <<"dispatch", a>>, Resume >> }
    BY <1>1, <1>2, DoneTail DEF HandlerShape
  <2>2. Now("dispatch", a)'
    BY <2>1, LeadsTo
  <2>3. UpHandler'
    BY <2>1 DEF UpHandler, AttemptHandlers
  <2> QED
    BY <1>1, <1>2, <2>2, <2>3 DEF Bind, LogOnly
<1>3. CASE Return(<< <<"fail", a>> >>) /\ UNCHANGED vars
  <2>1. todo' = << <<"fail", a>> >>
    BY <1>3 DEF Return
  <2>2. Now("fail", a)'
    BY <2>1 DEF Now
  <2>3. UpHandler'
    BY <2>1 DEF UpHandler, AttemptHandlers
  <2> QED
    BY <1>1, <1>3, <2>2, <2>3 DEF Bind, LogOnly
<1> QED
  BY <1>2, <1>3 DEF Bind

\* The dispatch leads to the request, or to the failure.
LEMMA DispatchNext ==
  ASSUME Control, NEW a \in Attempts, Dispatch(a)
  PROVE  /\ phase = "up" /\ phase' = "up" /\ Now("dispatch", a) /\ UpHandler'
         /\ \/ StartRunTurn(a) /\ Now("spawn", a)'
            \/ UNCHANGED vars /\ Now("fail", a)'
<1>1. phase = "up" /\ HandlerShape /\ Now("dispatch", a)
  BY HandlerIsUp DEF Dispatch, Control, HandlerOps, AttemptOps
<1>2. CASE StartRunTurn(a) /\ Then(<< <<"spawn", a>> >>)
  <2>1. todo' \in { << <<"spawn", a>> >>, << <<"spawn", a>>, Resume >> }
    BY <1>1, <1>2, ThenOne DEF HandlerShape
  <2>2. Now("spawn", a)'
    BY <2>1, LeadsTo
  <2>3. UpHandler'
    BY <2>1 DEF UpHandler, AttemptHandlers
  <2> QED
    BY <1>1, <1>2, <2>2, <2>3 DEF Dispatch, LogOnly
<1>3. CASE Return(<< <<"fail", a>> >>) /\ UNCHANGED vars
  <2>1. todo' = << <<"fail", a>> >>
    BY <1>3 DEF Return
  <2>2. Now("fail", a)'
    BY <2>1 DEF Now
  <2>3. UpHandler'
    BY <2>1 DEF UpHandler, AttemptHandlers
  <2> QED
    BY <1>1, <1>3, <2>2, <2>3 DEF Dispatch, LogOnly
<1> QED
  BY <1>2, <1>3 DEF Dispatch

\* The request ends the handler, but for a resume.
LEMMA SpawnNext ==
  ASSUME Control, NEW a \in Attempts, Spawn(a)
  PROVE  /\ phase = "up" /\ phase' = "up" /\ Now("spawn", a) /\ UpHandler'
         /\ todo' \in Rest
<1>1. phase = "up" /\ todo \in Seq(HandlerSteps) /\ todo # <<>> /\ HandlerShape /\ Now("spawn", a)
  BY HandlerIsUp DEF Spawn, Control, HandlerOps, AttemptOps
<1>2. todo' \in Rest
  BY <1>1, DoneTail DEF HandlerShape, Spawn
<1> QED
  BY <1>1, <1>2 DEF Spawn, UpHandler, Rest

\* Settling goes on until the calls are settled, then fails or aborts.
LEMMA SettleNext ==
  ASSUME Control, NEW a \in Attempts, Settle(a)
  PROVE  /\ phase = "up" /\ phase' = "up" /\ Now("settle", a) /\ UpHandler'
         /\ Tail(todo) \in { << <<"fail", a>> >>, << <<"abort", a>> >> }
         /\ \/ (\E c \in UnsettledCalls(a) : SettleConservatively(c)) /\ todo' = todo
            \/ CallsSettled(a) /\ UNCHANGED vars /\ todo' = Tail(todo)
<1>1. phase = "up" /\ todo \in Seq(HandlerSteps) /\ todo # <<>> /\ HandlerShape /\ Now("settle", a)
  BY HandlerIsUp DEF Settle, Control, HandlerOps, AttemptOps
<1>2. UpHandler
  BY <1>1 DEF Control, HandlerType
<1>3. Tail(todo) \in { << <<"fail", a>> >>, << <<"abort", a>> >> }
  BY <1>1 DEF HandlerShape
<1>4. \/ (\E c \in UnsettledCalls(a) : SettleConservatively(c)) /\ todo' = todo
      \/ CallsSettled(a) /\ UNCHANGED vars /\ todo' = Tail(todo)
  BY <1>1, DoneTail DEF Settle
<1>5. UpHandler'
  BY <1>2, <1>3, <1>4 DEF UpHandler, AttemptHandlers
<1> QED
  BY <1>1, <1>3, <1>4, <1>5 DEF Settle

\* Failing ends the handler.
LEMMA FailNext ==
  ASSUME Control, NEW a \in Attempts, Fail(a) \/ Abort(a)
  PROVE  phase = "up" /\ phase' = "up" /\ UpHandler' /\ todo' = <<>>
<1>1. phase = "up"
  BY HandlerIsUp DEF Fail, Abort, Control, HandlerOps, AttemptOps
<1> QED
  BY <1>1 DEF Fail, Abort, Return, UpHandler

\* A permission leads to the start of the call, to its denial, or to a wait.
LEMMA PermissionNext ==
  ASSUME Control, NEW c \in Calls, Permission(c)
  PROVE  /\ phase = "up" /\ phase' = "up" /\ Now("permission", c) /\ UpHandler'
         /\ \E outcome \in Outcomes :
               /\ RecordToolPermission(c, outcome)
               /\ \/ outcome = "Allow" /\ Now("startCall", c)'
                  \/ outcome = "Deny" /\ Now("deny", c)'
                  \/ outcome = "Ask" /\ todo' = <<>>
<1>1. phase = "up" /\ HandlerShape /\ Now("permission", c)
  BY HandlerIsUp DEF Permission, Control, HandlerOps, CallOps
<1>2. Tail(todo) = <<>>
  BY <1>1 DEF HandlerShape
<1>3. PICK outcome \in Outcomes :
         /\ RecordToolPermission(c, outcome)
         /\ Then(CASE outcome = "Allow" -> << <<"startCall", c>> >>
                    [] outcome = "Deny"  -> << <<"deny", c>> >>
                    [] outcome = "Ask"   -> <<>>)
  BY DEF Permission
<1>4. CASE outcome = "Allow"
  <2>1. todo' = << <<"startCall", c>> >>
    BY <1>2, <1>3, <1>4, ConcatOneNone DEF Then
  <2> QED
    BY <1>1, <1>3, <1>4, <2>1 DEF Permission, LogOnly, Now, UpHandler, CallHandlers
<1>5. CASE outcome = "Deny"
  <2>1. todo' = << <<"deny", c>> >>
    BY <1>2, <1>3, <1>5, ConcatOneNone DEF Then
  <2> QED
    BY <1>1, <1>3, <1>5, <2>1 DEF Permission, LogOnly, Now, UpHandler, CallHandlers
<1>6. CASE outcome = "Ask"
  <2>1. todo' = <<>>
    BY <1>2, <1>3, <1>6 DEF Then
  <2> QED
    BY <1>1, <1>3, <1>6, <2>1 DEF Permission, LogOnly, UpHandler
<1> QED
  BY <1>4, <1>5, <1>6, OutcomesAssumption

\* A denial ends the handler, but for a resume.
LEMMA DenyNext ==
  ASSUME Control, NEW c \in Calls, Deny(c)
  PROVE  /\ phase = "up" /\ phase' = "up" /\ Now("deny", c) /\ UpHandler'
         /\ todo' \in Rest
<1>1. phase = "up" /\ todo \in Seq(HandlerSteps) /\ todo # <<>> /\ HandlerShape /\ Now("deny", c)
  BY HandlerIsUp DEF Deny, Control, HandlerOps, CallOps
<1>2. todo' \in Rest
  BY <1>1, DoneTail DEF HandlerShape, Deny
<1> QED
  BY <1>1, <1>2 DEF Deny, LogOnly, UpHandler, Rest

\* A started call is launched; a refused start stops the process.
LEMMA StartCallNext ==
  ASSUME Control, NEW c \in Calls, StartCall(c)
  PROVE  /\ phase = "up" /\ Now("startCall", c)
         /\ \/ StartToolCall(c) /\ phase' = "up" /\ UpHandler' /\ Now("launch", c)'
            \/ ~DecideStartToolCall(c) /\ HandlerFails /\ UNCHANGED vars
<1>1. phase = "up" /\ HandlerShape /\ Now("startCall", c)
  BY HandlerIsUp DEF StartCall, Control, HandlerOps, CallOps
<1>2. CASE StartToolCall(c) /\ Then(<< <<"launch", c>> >>) /\ UNCHANGED phase
  <2>1. todo' \in { << <<"launch", c>> >>, << <<"launch", c>>, Resume >> }
    BY <1>1, <1>2, ThenOne DEF HandlerShape
  <2>2. Now("launch", c)'
    BY <2>1, LeadsTo
  <2>3. UpHandler'
    BY <2>1 DEF UpHandler, CallHandlers
  <2> QED
    BY <1>1, <1>2, <2>2, <2>3
<1> QED
  BY <1>1, <1>2 DEF StartCall

\* A launched call runs, is proposed, or is failed by the budget.
LEMMA LaunchNext ==
  ASSUME Control, NEW c \in Calls, Launch(c)
  PROVE  /\ phase = "up" /\ Now("launch", c)
         /\ \/ active = None /\ HandlerFails /\ UNCHANGED <<vars, ran>>
            \/ /\ active # None /\ FailToolCall(c) /\ phase' = "up" /\ UpHandler' /\ todo' \in Rest
               /\ UNCHANGED <<activeVars, taskVars, ran>>
            \/ /\ active # None /\ StartToolAdmits /\ phase' = "up" /\ UpHandler'
               /\ slots' = slots + 1
               /\ UNCHANGED <<vars, active, guarded, cancelled, stream>>
               /\ \/ c \in ProposalCalls /\ Now("propose", c)' /\ UNCHANGED <<runner, ran>>
                  \/ /\ c \notin ProposalCalls /\ todo' \in Rest
                     /\ runner' = [runner EXCEPT ![c] = active]
                     /\ ran' = [ran EXCEPT ![c] = @ + 1]
<1>1. phase = "up" /\ todo \in Seq(HandlerSteps) /\ todo # <<>> /\ HandlerShape /\ Now("launch", c)
  BY HandlerIsUp DEF Launch, Control, HandlerOps, CallOps
<1>2. Tail(todo) \in Rest
  BY <1>1 DEF HandlerShape
<1>3. Done => todo' \in Rest /\ UpHandler'
  BY <1>1, <1>2, DoneTail DEF UpHandler, Rest
<1>4. Then(<< <<"propose", c>> >>) => Now("propose", c)' /\ UpHandler'
  <2> SUFFICES ASSUME Then(<< <<"propose", c>> >>) PROVE Now("propose", c)' /\ UpHandler'
    OBVIOUS
  <2>1. todo' \in { << <<"propose", c>> >>, << <<"propose", c>>, Resume >> }
    BY <1>2, ThenOne
  <2> QED
    BY <2>1, LeadsTo DEF UpHandler, CallHandlers
<1> QED
  BY <1>1, <1>3, <1>4 DEF Launch

\* A proposal is committed, refused, or stops the process.
LEMMA ProposeNext ==
  ASSUME Control, NEW c \in Calls, Propose(c)
  PROVE  /\ phase = "up" /\ Now("propose", c)
         /\ \/ /\ committed' = committed \cup {c} /\ Now("proposed", c)' /\ UpHandler'
               /\ UNCHANGED <<vars, phase, activeVars, taskVars>>
            \/ /\ FailToolCall(c) /\ slots' = ReleasedSlots(c) /\ Now("maybeResume", None)' /\ UpHandler'
               /\ UNCHANGED <<phase, active, guarded, cancelled, taskVars, committed>>
            \/ /\ committed' \in {committed, committed \cup {c}}
               /\ HandlerFails /\ UNCHANGED vars
<1>1. phase = "up" /\ HandlerShape /\ Now("propose", c)
  BY HandlerIsUp DEF Propose, Control, HandlerOps, CallOps
<1>2. Tail(todo) \in Rest
  BY <1>1 DEF HandlerShape
<1>3. Then(<< <<"proposed", c>> >>) => Now("proposed", c)' /\ UpHandler'
  <2> SUFFICES ASSUME Then(<< <<"proposed", c>> >>) PROVE Now("proposed", c)' /\ UpHandler'
    OBVIOUS
  <2>1. todo' \in { << <<"proposed", c>> >>, << <<"proposed", c>>, Resume >> }
    BY <1>2, ThenOne
  <2> QED
    BY <2>1, LeadsTo DEF UpHandler, CallHandlers
<1>4. Then(ResumeSteps) => Now("maybeResume", None)' /\ UpHandler'
  <2> SUFFICES ASSUME Then(ResumeSteps) PROVE Now("maybeResume", None)' /\ UpHandler'
    OBVIOUS
  <2>1. todo' \in { <<Resume>>, <<Resume, Resume>> }
    BY <1>2, ThenOne DEF ResumeSteps, Resume
  <2> QED
    BY <2>1, LeadsTo DEF UpHandler, Resume
<1> QED
  BY <1>1, <1>3, <1>4 DEF Propose

\* A committed proposal resumes the run.
LEMMA ProposedNext ==
  ASSUME Control, NEW c \in Calls, Proposed(c)
  PROVE  /\ phase = "up" /\ phase' = "up" /\ Now("proposed", c) /\ UpHandler'
         /\ Now("maybeResume", None)'
<1>1. phase = "up" /\ HandlerShape /\ Now("proposed", c)
  BY HandlerIsUp DEF Proposed, Control, HandlerOps, CallOps
<1>2. todo' \in { <<Resume>>, <<Resume, Resume>> }
  BY <1>1, ThenOne DEF HandlerShape, Proposed, ResumeSteps, Resume
<1> QED
  BY <1>1, <1>2, LeadsTo DEF UpHandler, Resume, Proposed

\* A resume does nothing, releases the run, or starts its next turn.
LEMMA MaybeResumeNext ==
  ASSUME Control, MaybeResume
  PROVE  /\ phase = "up" /\ phase' = "up" /\ Now("maybeResume", None) /\ UpHandler'
         /\ \/ UNCHANGED vars /\ todo' \in Rest
            \/ /\ active \in Attempts /\ UNCHANGED vars /\ Now("settle", active)'
               /\ Tail(todo') \in {<< <<"fail", active>> >>, << <<"abort", active>> >>}
            \/ active \in Attempts /\ ResumeAttemptAfterTools(active) /\ Now("bind", active)'
<1>1. phase = "up" /\ todo \in Seq(HandlerSteps) /\ todo # <<>> /\ HandlerShape
      /\ Now("maybeResume", None) /\ phase' = "up" /\ active' = active
  BY HandlerIsUp DEF MaybeResume, Control, HandlerOps
<1>2. Tail(todo) \in Rest
  BY <1>1 DEF HandlerShape
<1>3. Done => todo' \in Rest /\ UpHandler'
  BY <1>1, <1>2, DoneTail DEF UpHandler, Rest
<1>4. ASSUME active \in Attempts, Return(FailSteps(active)) \/ Return(AbortSteps(active))
      PROVE  /\ Now("settle", active)' /\ UpHandler'
             /\ Tail(todo') \in {<< <<"fail", active>> >>, << <<"abort", active>> >>}
  <2>1. CASE Return(FailSteps(active))
    <3>1. todo' = << <<"settle", active>>, <<"fail", active>> >>
      BY <2>1 DEF Return, FailSteps
    <3> QED
      BY <1>1, <1>4, <3>1 DEF Now, UpHandler, AttemptHandlers
  <2>2. CASE Return(AbortSteps(active))
    <3>1. todo' = << <<"settle", active>>, <<"abort", active>> >>
      BY <2>2 DEF Return, AbortSteps
    <3> QED
      BY <1>1, <1>4, <3>1 DEF Now, UpHandler, AttemptHandlers
  <2> QED
    BY <1>4, <2>1, <2>2
<1>5. ASSUME active \in Attempts, Then(ContinueSteps(active))
      PROVE  Now("bind", active)' /\ UpHandler'
  <2>1. todo' \in { << <<"bind", active>>, <<"dispatch", active>> >>,
                    << <<"bind", active>>, <<"dispatch", active>>, Resume >> }
    BY <1>2, <1>5, ThenTwo DEF ContinueSteps
  <2>2. Now("bind", active)'
    BY <1>1, <2>1, TwoHead DEF Now
  <2> QED
    BY <1>5, <2>1, <2>2 DEF UpHandler, AttemptHandlers
<1>6. active # None => active \in Attempts
  BY DEF Control, CoordTypeOK
<1> QED
  BY <1>1, <1>3, <1>4, <1>5, <1>6 DEF MaybeResume

\* A tool result cancels the run or tries to resume it.
LEMMA AfterToolNext ==
  ASSUME Control, AfterTool
  PROVE  /\ phase = "up" /\ phase' = "up" /\ Now("afterTool", None) /\ UpHandler'
         /\ \/ active \in Attempts /\ CancelAttempt(active) /\ active' = None /\ todo' = <<>>
            \/ UNCHANGED <<vars, active>> /\ todo' = <<Resume>>
<1>1. phase = "up" /\ todo \in Seq(HandlerSteps) /\ todo # <<>> /\ HandlerShape
      /\ Now("afterTool", None) /\ phase' = "up"
  BY HandlerIsUp DEF AfterTool, Control, HandlerOps
<1>2. Tail(todo) = <<>>
  BY <1>1 DEF HandlerShape
<1>3. Done => todo' = <<>> /\ UpHandler'
  BY <1>1, <1>2, DoneTail DEF UpHandler
<1>4. Then(ResumeSteps) => todo' = <<Resume>> /\ UpHandler'
  BY <1>2, ConcatOneNone DEF Then, ResumeSteps, Resume, UpHandler
<1>5. active # None => active \in Attempts
  BY DEF Control, CoordTypeOK
<1> QED
  BY <1>1, <1>3, <1>4, <1>5 DEF AfterTool

-----------------------------------------------------------------------------
(* Control is preserved.                                                   *)

\* A process that ends leaves nothing to do.
LEMMA EndedControl ==
  ASSUME Control, NEW how \in {"down", "stopped"}, ProcessEnds(how),
         committed' \subseteq ProposalCalls,
         UNCHANGED <<provider, sent, ran, stranded, boundVars>>
  PROVE  Control'
<1>1. CoordTypeOK'
  <2>1. stream' \in [Attempts -> {"closed", "open", "called", "lost"}]
    BY DEF Control, CoordTypeOK, ProcessEnds, Live
  <2>2. slots' \in 0 .. MaxConcurrency
    BY BoundsAssumption DEF ProcessEnds
  <2> QED
    BY <2>1, <2>2 DEF Control, CoordTypeOK, ProcessEnds
<1>2. HandlerType'
  BY DEF ProcessEnds, HandlerType
<1>3. QuietUnlessUp'
  BY DEF ProcessEnds, QuietUnlessUp, Live, Control, CoordTypeOK
<1>4. BoundsType'
  BY DEF ProcessEnds, Control, BoundsType, boundVars
<1> QED
  BY <1>1, <1>2, <1>3, <1>4 DEF Control

\* A step of a process that stays up.
LEMMA UpControl ==
  ASSUME phase' = "up", UpHandler', CoordTypeOK', outputs' \in Nat, edits' \in Nat, restarts' \in Nat
  PROVE  Control'
  BY DEF Control, HandlerType, QuietUnlessUp, BoundsType

\* The steps of a handler keep the control invariant.
LEMMA HandlerControl ==
  ASSUME Control, CallStages, HandlerStep PROVE Control'
<1> USE DEF boundVars, activeVars, taskVars, worldVars
<1>0. CoordTypeOK /\ outputs \in Nat /\ edits \in Nat /\ restarts \in Nat
  BY DEF Control, BoundsType
<1>1. ASSUME NEW a \in Attempts, CancelCalls(a) PROVE Control'
  <2>1. CoordTypeOK'
    BY <1>0, <1>1, CancelCallsNext DEF CoordTypeOK, CancelCalls
  <2> QED
    BY <1>0, <1>1, <2>1, CancelCallsNext, UpControl DEF CancelCalls
<1>2. ASSUME NEW a \in Attempts, Configure(a) PROVE Control'
  <2>1. CoordTypeOK'
    BY <1>0, <1>2, ConfigureNext DEF CoordTypeOK, Configure, LogOnly
  <2> QED
    BY <1>0, <1>2, <2>1, ConfigureNext, UpControl DEF Configure, LogOnly
<1>3. ASSUME NEW a \in Attempts, Start(a) PROVE Control'
  <2>1. CoordTypeOK'
    BY <1>0, <1>3, StartNext DEF CoordTypeOK, Start, LogOnly
  <2> QED
    BY <1>0, <1>3, <2>1, StartNext, UpControl DEF Start, LogOnly
<1>4. ASSUME NEW a \in Attempts, Bind(a) PROVE Control'
  <2>1. CoordTypeOK'
    BY <1>0, <1>4, BindNext DEF CoordTypeOK, Bind, LogOnly
  <2> QED
    BY <1>0, <1>4, <2>1, BindNext, UpControl DEF Bind, LogOnly
<1>5. ASSUME NEW a \in Attempts, Dispatch(a) PROVE Control'
  <2>1. CoordTypeOK'
    BY <1>0, <1>5, DispatchNext DEF CoordTypeOK, Dispatch, LogOnly
  <2> QED
    BY <1>0, <1>5, <2>1, DispatchNext, UpControl DEF Dispatch, LogOnly
<1>6. ASSUME NEW a \in Attempts, Spawn(a) PROVE Control'
  <2>0. slots' \in 0 .. MaxConcurrency
    BY <1>0, <1>6, BoundsAssumption DEF CoordTypeOK, Spawn
  <2>1. CoordTypeOK'
    BY <1>0, <1>6, <2>0, SpawnNext DEF CoordTypeOK, Spawn
  <2> QED
    BY <1>0, <1>6, <2>1, SpawnNext, UpControl DEF Spawn
<1>7. ASSUME NEW a \in Attempts, Settle(a) PROVE Control'
  <2>1. CoordTypeOK'
    BY <1>0, <1>7, SettleNext DEF CoordTypeOK, Settle, TokenAfterSettle
  <2> QED
    BY <1>0, <1>7, <2>1, SettleNext, UpControl DEF Settle, TokenAfterSettle
<1>8. ASSUME NEW a \in Attempts, Fail(a) PROVE Control'
  <2>1. CoordTypeOK'
    BY <1>0, <1>8, FailNext DEF CoordTypeOK, Fail
  <2> QED
    BY <1>0, <1>8, <2>1, FailNext, UpControl DEF Fail
<1>9. ASSUME NEW a \in Attempts, Abort(a) PROVE Control'
  <2>1. CoordTypeOK'
    BY <1>0, <1>9, FailNext DEF CoordTypeOK, Abort
  <2> QED
    BY <1>0, <1>9, <2>1, FailNext, UpControl DEF Abort
<1>10. ASSUME NEW c \in Calls, Permission(c) PROVE Control'
  <2>1. CoordTypeOK'
    BY <1>0, <1>10, PermissionNext DEF CoordTypeOK, Permission, LogOnly
  <2> QED
    BY <1>0, <1>10, <2>1, PermissionNext, UpControl DEF Permission, LogOnly
<1>11. ASSUME NEW c \in Calls, Deny(c) PROVE Control'
  <2>1. CoordTypeOK'
    BY <1>0, <1>11, DenyNext DEF CoordTypeOK, Deny, LogOnly
  <2> QED
    BY <1>0, <1>11, <2>1, DenyNext, UpControl DEF Deny, LogOnly
<1>12. ASSUME NEW c \in Calls, StartCall(c) PROVE Control'
  <2>1. CASE HandlerFails
    BY <1>0, <1>12, <2>1, EndedControl DEF StartCall, HandlerFails, CoordTypeOK
  <2>2. CASE StartToolCall(c) /\ phase' = "up" /\ UpHandler' /\ UNCHANGED <<activeVars, taskVars>>
    <3>1. CoordTypeOK'
      BY <1>0, <1>12, <2>2 DEF CoordTypeOK, StartCall
    <3> QED
      BY <1>0, <1>12, <2>2, <3>1, UpControl DEF StartCall
  <2> QED
    BY <1>12, <2>1, <2>2, StartCallNext DEF StartCall
<1>13. ASSUME NEW c \in Calls, Launch(c) PROVE Control'
  <2>1. CASE HandlerFails /\ UNCHANGED ran
    BY <1>0, <1>13, <2>1, EndedControl DEF Launch, HandlerFails, CoordTypeOK
  <2>2. CASE phase' = "up" /\ UpHandler' /\ UNCHANGED <<activeVars, taskVars, ran>>
    <3>1. CoordTypeOK'
      BY <1>0, <1>13, <2>2 DEF CoordTypeOK, Launch
    <3> QED
      BY <1>0, <1>13, <2>2, <3>1, UpControl DEF Launch
  <2>3. CASE /\ phase' = "up" /\ UpHandler' /\ StartToolAdmits /\ active # None
             /\ slots' = slots + 1
             /\ UNCHANGED <<active, guarded, cancelled, stream>>
             /\ \/ UNCHANGED <<runner, ran>>
                \/ /\ runner' = [runner EXCEPT ![c] = active]
                   /\ ran' = [ran EXCEPT ![c] = @ + 1]
    <3>1. slots' \in 0 .. MaxConcurrency
      BY <1>0, <2>3, BoundsAssumption DEF CoordTypeOK, StartToolAdmits
    <3>2. CoordTypeOK'
      BY <1>0, <1>13, <2>3, <3>1 DEF CoordTypeOK, Launch
    <3> QED
      BY <1>0, <1>13, <2>3, <3>2, UpControl DEF Launch
  <2> QED
    BY <1>13, <2>1, <2>2, <2>3, LaunchNext
<1>14. ASSUME NEW c \in Calls, Propose(c) PROVE Control'
  <2>0. c \in ProposalCalls
    BY <1>14 DEF Propose, CallStages
  <2>1. CASE HandlerFails /\ committed' \in {committed, committed \cup {c}}
    BY <1>0, <1>14, <2>0, <2>1, EndedControl DEF Propose, HandlerFails, CoordTypeOK
  <2>2. CASE /\ phase' = "up" /\ UpHandler' /\ committed' = committed \cup {c}
             /\ UNCHANGED <<activeVars, taskVars>>
    <3>1. CoordTypeOK'
      BY <1>0, <1>14, <2>0, <2>2 DEF CoordTypeOK, Propose
    <3> QED
      BY <1>0, <1>14, <2>2, <3>1, UpControl DEF Propose
  <2>3. CASE /\ phase' = "up" /\ UpHandler' /\ slots' = ReleasedSlots(c)
             /\ UNCHANGED <<active, guarded, cancelled, taskVars, committed>>
    <3>1. slots' \in 0 .. MaxConcurrency
      BY <1>0, <2>3, BoundsAssumption DEF CoordTypeOK, ReleasedSlots
    <3>2. CoordTypeOK'
      BY <1>0, <1>14, <2>3, <3>1 DEF CoordTypeOK, Propose
    <3> QED
      BY <1>0, <1>14, <2>3, <3>2, UpControl DEF Propose
  <2> QED
    BY <1>14, <2>1, <2>2, <2>3, ProposeNext
<1>15. ASSUME NEW c \in Calls, Proposed(c) PROVE Control'
  <2>1. slots' \in 0 .. MaxConcurrency
    BY <1>0, <1>15, BoundsAssumption DEF CoordTypeOK, ReleasedSlots, Proposed
  <2>2. CoordTypeOK'
    BY <1>0, <1>15, <2>1, ProposedNext DEF CoordTypeOK, Proposed
  <2> QED
    BY <1>0, <1>15, <2>2, ProposedNext, UpControl DEF Proposed
<1>16. ASSUME MaybeResume PROVE Control'
  <2>1. guarded' \in BOOLEAN
    BY <1>0, <1>16 DEF CoordTypeOK, MaybeResume
  <2>2. CoordTypeOK'
    BY <1>0, <1>16, <2>1, MaybeResumeNext DEF CoordTypeOK, MaybeResume
  <2> QED
    BY <1>0, <1>16, <2>2, MaybeResumeNext, UpControl DEF MaybeResume
<1>17. ASSUME AfterTool PROVE Control'
  <2>1. CoordTypeOK'
    BY <1>0, <1>17, AfterToolNext DEF CoordTypeOK, AfterTool
  <2> QED
    BY <1>0, <1>17, <2>1, AfterToolNext, UpControl DEF AfterTool
<1> QED
  BY <1>1, <1>2, <1>3, <1>4, <1>5, <1>6, <1>7, <1>8, <1>9, <1>10, <1>11, <1>12, <1>13, <1>14, <1>15, <1>16, <1>17 DEF HandlerStep

\* A process between handlers has nothing left to do.
LEMMA IdleHandler ==
  ASSUME Control, Idle PROVE phase = "up" /\ todo = <<>> /\ UpHandler
  BY DEF Idle, UpHandler

\* The intents of the user keep the control invariant.
LEMMA IntentControl ==
  ASSUME Control, UserIntent PROVE Control'
<1> USE DEF boundVars, activeVars, taskVars, worldVars, coordVars
<1>0. CoordTypeOK /\ outputs \in Nat /\ edits \in Nat /\ restarts \in Nat
  BY DEF Control, BoundsType
<1>1. ASSUME CreateOrSelect PROVE Control'
  <2>1. CoordTypeOK'
    BY <1>0, <1>1 DEF CreateOrSelect, CoordTypeOK
  <2>2. UpHandler' /\ phase' = "up"
    BY <1>1, IdleHandler DEF CreateOrSelect, UpHandler
  <2> QED
    BY <1>0, <1>1, <2>1, <2>2, UpControl DEF CreateOrSelect
<1>2. ASSUME EditSession PROVE Control'
  <2>1. CoordTypeOK'
    BY <1>0, <1>2 DEF EditSession, EditVars, CoordTypeOK
  <2>2. UpHandler' /\ phase' = "up"
    BY <1>2, IdleHandler DEF EditSession, EditVars, UpHandler
  <2> QED
    BY <1>0, <1>2, <2>1, <2>2, UpControl DEF EditSession, EditVars
<1>3. ASSUME NEW i \in Inputs, NEW a \in Attempts, SubmitPrompt(i, a) PROVE Control'
  <2>1. CoordTypeOK'
    BY <1>0, <1>3 DEF SubmitPrompt, CoordTypeOK
  <2>2. UpHandler' /\ phase' = "up"
    BY <1>3, IdleHandler DEF SubmitPrompt, Return, StartSteps, UpHandler, AttemptHandlers
  <2> QED
    BY <1>0, <1>3, <2>1, <2>2, UpControl DEF SubmitPrompt
<1>4. ASSUME NEW prior \in Attempts, NEW a \in Attempts, RetryAttempt(prior, a) PROVE Control'
  <2>1. CoordTypeOK'
    BY <1>0, <1>4 DEF RetryAttempt, CoordTypeOK
  <2>2. UpHandler' /\ phase' = "up"
    BY <1>4, IdleHandler DEF RetryAttempt, Return, StartSteps, UpHandler, AttemptHandlers
  <2> QED
    BY <1>0, <1>4, <2>1, <2>2, UpControl DEF RetryAttempt
<1>5. ASSUME NEW a \in Attempts, Cancel(a) PROVE Control'
  <2>1. CoordTypeOK'
    BY <1>0, <1>5 DEF Cancel, CoordTypeOK
  <2>2. todo' = << <<"cancelCalls", a>> >> \/ todo' = <<>>
    BY <1>5 DEF Cancel, Return
  <2>3. UpHandler' /\ phase' = "up"
    BY <1>5, <2>2, IdleHandler DEF Cancel, UpHandler, AttemptHandlers
  <2> QED
    BY <1>0, <1>5, <2>1, <2>3, UpControl DEF Cancel
<1>6. ASSUME NEW c \in Calls, NEW given \in {"AllowOnce", "Deny"}, AnswerPermission(c, given)
      PROVE  Control'
  <2>1. CoordTypeOK'
    BY <1>0, <1>6 DEF AnswerPermission, CoordTypeOK
  <2>2. \/ todo' = << <<"startCall", c>>, Resume >>
        \/ todo' = << <<"deny", c>>, Resume >>
    BY <1>6, ConcatOneOne DEF AnswerPermission, Return, ResumeSteps, Resume
  <2>3. UpHandler' /\ phase' = "up"
    BY <1>6, <2>2, IdleHandler DEF AnswerPermission, UpHandler, CallHandlers
  <2> QED
    BY <1>0, <1>6, <2>1, <2>3, UpControl DEF AnswerPermission
<1>7. ASSUME SubmitCredential PROVE Control'
  <2>1. CoordTypeOK'
    BY <1>0, <1>7 DEF SubmitCredential, CoordTypeOK
  <2>2. UpHandler' /\ phase' = "up"
    BY <1>7, IdleHandler DEF SubmitCredential, UpHandler, Return, ResumeSteps, Resume
  <2> QED
    BY <1>0, <1>7, <2>1, <2>2, UpControl DEF SubmitCredential
<1> QED
  BY <1>1, <1>2, <1>3, <1>4, <1>5, <1>6, <1>7 DEF UserIntent

\* So do the messages of streams and tools.
LEMMA TaskControl ==
  ASSUME IInv, Control,
         (\E a \in Attempts : StreamStep(a)) \/ (\E c \in Calls : ToolResult(c))
  PROVE  Control'
<1> USE DEF boundVars, activeVars, taskVars, worldVars, StreamVars, Close
<1>0. CoordTypeOK /\ outputs \in Nat /\ edits \in Nat /\ restarts \in Nat
  BY DEF Control, BoundsType
<1>f. ASSUME NEW a \in Attempts, Return(FailSteps(a)) \/ Return(AbortSteps(a)) PROVE UpHandler'
  BY <1>f DEF Return, FailSteps, AbortSteps, UpHandler, AttemptHandlers
<1>e. ASSUME Idle, UNCHANGED todo PROVE UpHandler'
  BY <1>e, IdleHandler DEF UpHandler
<1>r. Return(ResumeSteps) => UpHandler'
  BY DEF Return, ResumeSteps, Resume, UpHandler
<1>1. ASSUME NEW a \in Attempts, StreamOutput(a) PROVE Control'
  <2>1. CoordTypeOK'
    BY <1>0, <1>1 DEF StreamOutput, CoordTypeOK
  <2>2. UpHandler' /\ phase' = "up"
    BY <1>1, <1>f, <1>e, IdleHandler DEF StreamOutput
  <2> QED
    BY <1>0, <1>1, <2>1, <2>2, UpControl DEF StreamOutput
<1>2. ASSUME NEW a \in Attempts, NEW c \in Calls, StreamCall(a, c) PROVE Control'
  <2>1. CoordTypeOK'
    BY <1>0, <1>2 DEF StreamCall, CoordTypeOK
  <2>2. Return(<< <<"permission", c>> >>) => UpHandler'
    BY DEF Return, UpHandler, CallHandlers
  <2>3. UpHandler' /\ phase' = "up"
    BY <1>2, <1>f, <2>2, IdleHandler DEF StreamCall
  <2> QED
    BY <1>0, <1>2, <2>1, <2>3, UpControl DEF StreamCall
<1>3. ASSUME NEW a \in Attempts, StreamPaused(a) PROVE Control'
  <2>1. CoordTypeOK'
    BY <1>0, <1>3 DEF StreamPaused, CancelIfSettled, CoordTypeOK
  <2>2. UpHandler' /\ phase' = "up"
    BY <1>3, <1>r, <1>e, IdleHandler DEF StreamPaused
  <2> QED
    BY <1>0, <1>3, <2>1, <2>2, UpControl DEF StreamPaused
<1>4. ASSUME NEW a \in Attempts, StreamCompleted(a) PROVE Control'
  <2>1. CoordTypeOK'
    BY <1>0, <1>4 DEF StreamCompleted, CoordTypeOK
  <2>2. UpHandler' /\ phase' = "up"
    BY <1>4, <1>f, <1>e, IdleHandler DEF StreamCompleted
  <2> QED
    BY <1>0, <1>4, <2>1, <2>2, UpControl DEF StreamCompleted
<1>5. ASSUME NEW a \in Attempts, StreamEnded(a) PROVE Control'
  <2>1. CoordTypeOK'
    BY <1>0, <1>5 DEF StreamEnded, CancelIfSettled, CoordTypeOK
  <2>2. UpHandler' /\ phase' = "up"
    BY <1>5, <1>f, <1>e, IdleHandler DEF StreamEnded
  <2> QED
    BY <1>0, <1>5, <2>1, <2>2, UpControl DEF StreamEnded
<1>6. ASSUME NEW a \in Attempts, StreamDropped(a) PROVE Control'
  <2>1. CoordTypeOK'
    BY <1>0, <1>6 DEF StreamDropped, CoordTypeOK
  <2>2. UpHandler' /\ phase' = "up"
    BY <1>6, <1>e, IdleHandler DEF StreamDropped
  <2> QED
    BY <1>0, <1>6, <2>1, <2>2, UpControl DEF StreamDropped
<1>7. ASSUME NEW c \in Calls, ToolResult(c) PROVE Control'
  <2>1. slots' \in 0 .. MaxConcurrency
    BY <1>0, <1>7, BoundsAssumption DEF ToolResult, ReleasedSlots, CoordTypeOK
  <2>2. CoordTypeOK'
    BY <1>0, <1>7, <2>1 DEF ToolResult, CoordTypeOK
  <2>3. Return(<< <<"afterTool", None>> >>) => UpHandler'
    BY DEF Return, UpHandler
  <2>4. MarkToolCallUnknown(c) => callAttempt[c] \in Attempts
    BY DEF MarkToolCallUnknown, DecideSettleRunningCall, CallIn, IInv, TypeOK, Provenance
  <2>5. UpHandler' /\ phase' = "up"
    BY <1>7, <1>f, <1>r, <1>e, <2>3, <2>4, IdleHandler DEF ToolResult
  <2> QED
    BY <1>0, <1>7, <2>2, <2>5, UpControl DEF ToolResult
<1> QED
  BY <1>1, <1>2, <1>3, <1>4, <1>5, <1>6, <1>7 DEF StreamStep, StreamEnds

\* The steps of a recovery.
LEMMA RecoverySequence ==
  ASSUME order \in Seq(Attempts),
         NEW rec, rec = [n \in DOMAIN order |-> <<"recoverAttempt", order[n]>>],
         NEW s, s = << <<"recoverCalls", None>> >> \o rec
  PROVE  /\ rec \in Seq(RecoverAttemptSteps)
         /\ s \in Seq(RecoverySteps) /\ s # <<>>
         /\ Head(s) = <<"recoverCalls", None>> /\ Tail(s) = rec
         /\ \A n \in DOMAIN order : n + 1 \in DOMAIN s /\ s[n + 1] = <<"recoverAttempt", order[n]>>
<1>1. DOMAIN order = 1 .. Len(order) /\ Len(order) \in Nat
  OBVIOUS
<1>2. rec \in Seq(RecoverAttemptSteps) /\ Len(rec) = Len(order)
  <2>1. \A n \in 1 .. Len(order) : rec[n] \in RecoverAttemptSteps
    BY <1>1 DEF RecoverAttemptSteps
  <2>2. rec = [n \in 1 .. Len(order) |-> rec[n]]
    BY <1>1
  <2> QED
    BY <1>1, <2>1, <2>2, IsASeq
<1>3. << <<"recoverCalls", None>> >> \in Seq(RecoverySteps) /\ rec \in Seq(RecoverySteps)
  BY <1>2 DEF RecoverySteps
<1>4. s \in Seq(RecoverySteps) /\ s # <<>> /\ Head(s) = <<"recoverCalls", None>> /\ Tail(s) = rec
  BY <1>3
<1>5. ASSUME NEW n \in DOMAIN order
      PROVE  n + 1 \in DOMAIN s /\ s[n + 1] = <<"recoverAttempt", order[n]>>
  <2>1. n + 1 \in 1 .. 1 + Len(rec) /\ Len(s) = 1 + Len(rec) /\ s[n + 1] = rec[n]
    BY <1>1, <1>2, <1>3, ConcatProperties
  <2> QED
    BY <1>1, <1>4, <2>1
<1> QED
  BY <1>2, <1>4, <1>5

\* A recovery step is taken by a process that recovers.
LEMMA RecoveryIsRecovering ==
  ASSUME CoordTypeOK, HandlerType, NEW x,
         NEW op \in {"recoverCalls", "recoverAttempt"}, Now(op, x)
  PROVE  phase = "recovering" /\ todo \in Seq(RecoverySteps) /\ todo # <<>>
<1>1. phase # "up"
  <2> SUFFICES ASSUME UpHandler PROVE FALSE
    BY DEF HandlerType
  <2>1. <<op, x>> \in HandlerSteps
    BY ShapeOfHandler DEF Now
  <2> QED
    BY <2>1 DEF HandlerSteps, AttemptOps, CallOps
<1> QED
  BY <1>1 DEF HandlerType, CoordTypeOK, Now

\* A set of numbers has a least one.
LEMMA MinExists ==
  ASSUME NEW T \in SUBSET Nat, T # {} PROVE \E n \in T : \A m \in T : n <= m
<1>1. PICK n \in T : \A m \in T : ~(<<m, n>> \in OpToRel(<, Nat))
  BY NatLessThanWellFounded, WFMin
<1>2. \A m \in T : <<m, n>> \in Nat \X Nat
  OBVIOUS
<1>3. \A m \in T : ~(m < n)
  BY <1>1, <1>2 DEF OpToRel
<1> QED
  BY <1>3

\* A bounded set of numbers has a greatest one.
LEMMA MaxExists ==
  ASSUME NEW N \in Nat, NEW T \in SUBSET (1 .. N), T # {}
  PROVE  \E n \in T : \A m \in T : m <= n
<1> DEFINE D == {N - n : n \in T}
<1>1. D \in SUBSET Nat
  <2>1. \A n \in T : N - n \in Nat
    OBVIOUS
  <2> QED
    BY <2>1
<1>2. D # {}
  BY Zenon
<1>3. PICK d \in D : \A e \in D : d <= e
  <2> HIDE DEF D
  <2> QED
    BY <1>1, <1>2, MinExists
<1>5. PICK n \in T : d = N - n
  BY <1>3
<1>6. \A m \in T : N - n <= N - m
  BY <1>3, <1>5
<1> QED
  BY <1>6

\* recover_active_attempt finds a paused attempt, and none only if there is none.
LEMMA NewestIsPaused ==
  ASSUME RecoveryFacts
  PROVE  /\ NewestPaused \in Attempts \cup {None}
         /\ NewestPaused # None => status[NewestPaused] = "AwaitingTools"
         /\ NewestPaused = None => \A a \in Attempts : status[a] # "AwaitingTools"
<1> DEFINE paused == {n \in DOMAIN order : status[order[n]] = "AwaitingTools"}
<1>1. order \in Seq(Attempts) /\ DOMAIN order = 1 .. Len(order) /\ Len(order) \in Nat
  BY DEF RecoveryFacts
<1>2. CASE paused = {}
  <2>1. NewestPaused = None
    BY <1>2 DEF NewestPaused
  <2> QED
    BY <1>2, <2>1 DEF RecoveryFacts
<1>3. CASE paused # {}
  <2>1. paused \in SUBSET (1 .. Len(order))
    BY <1>1
  <2>2. \E n \in paused : \A m \in paused : m <= n
    <3> HIDE DEF paused
    <3> QED
      BY <1>1, <1>3, <2>1, MaxExists
  <2>3. NewestPaused = order[CHOOSE n \in paused : \A m \in paused : m <= n]
    BY <1>3 DEF NewestPaused
  <2>4. PICK n \in paused : NewestPaused = order[n]
    BY <2>2, <2>3
  <2>5. NewestPaused \in Attempts /\ status[NewestPaused] = "AwaitingTools"
    BY <1>1, <2>4
  <2> QED
    BY <2>5, NoneAssumption
<1> QED
  BY <1>2, <1>3

\* Recovery keeps the rest of its steps.
LEMMA RecoveryGoesOn ==
  ASSUME HandlerType, phase = "recovering", phase' = "recovering", todo # <<>>,
         todo' = todo \/ todo' = Tail(todo)
  PROVE  HandlerType'
<1>1. todo \in Seq(RecoverySteps) /\ Tail(todo) \in Seq(RecoverAttemptSteps)
  BY DEF HandlerType
<1>2. CASE todo' = todo
  BY <1>1, <1>2 DEF HandlerType
<1>3. CASE todo' = Tail(todo)
  <2>1. Tail(todo) \in Seq(RecoverySteps)
    BY <1>1
  <2>2. Tail(todo) # <<>> => Tail(Tail(todo)) \in Seq(RecoverAttemptSteps)
    BY <1>1
  <2> QED
    BY <1>3, <2>1, <2>2 DEF HandlerType
<1> QED
  BY <1>2, <1>3

\* The catalog, a crash, a restart and recovery keep the control invariant.
LEMMA ProcessControl ==
  ASSUME Control, RecoveryFacts, IInv, CatalogStep \/ Crash \/ Restart \/ RecoveryStep
  PROVE  Control'
<1> USE DEF boundVars, activeVars, taskVars, worldVars
<1>0. CoordTypeOK /\ outputs \in Nat /\ edits \in Nat /\ restarts \in Nat
  BY DEF Control, BoundsType
<1>1. ASSUME CatalogRefused PROVE Control'
  <2>1. CoordTypeOK'
    BY <1>0, <1>1 DEF CatalogRefused, CoordTypeOK
  <2>2. UpHandler' /\ phase' = "up"
    BY <1>1, IdleHandler DEF CatalogRefused, UpHandler
  <2> QED
    BY <1>0, <1>1, <2>1, <2>2, UpControl DEF CatalogRefused
<1>2. ASSUME NEW a \in Attempts, ResumeBound(a) PROVE Control'
  <2>1. CoordTypeOK'
    BY <1>0, <1>2 DEF ResumeBound, LogOnly, CoordTypeOK
  <2>2. UpHandler' /\ phase' = "up"
    BY <1>2, IdleHandler DEF ResumeBound, LogOnly, UpHandler, AttemptHandlers, Return
  <2> QED
    BY <1>0, <1>2, <2>1, <2>2, UpControl DEF ResumeBound, LogOnly
<1>3. ASSUME Crash PROVE Control'
  BY <1>0, <1>3, EndedControl DEF Crash, CoordTypeOK
<1>4. ASSUME Restart PROVE Control'
  <2>1. CoordTypeOK'
    BY <1>0, <1>4 DEF Restart, CoordTypeOK
  <2>2. HandlerType'
    BY <1>4, RecoverySequence DEF Restart, HandlerType, Return, RecoveryFacts, Now
  <2>3. QuietUnlessUp'
    BY <1>4 DEF Restart, QuietUnlessUp, Control, Live
  <2>4. BoundsType'
    BY <1>0, <1>4 DEF Restart, BoundsType
  <2> QED
    BY <2>1, <2>2, <2>3, <2>4 DEF Control
<1>5. ASSUME RecoverCalls PROVE Control'
  <2>1. CoordTypeOK' /\ BoundsType' /\ QuietUnlessUp'
    BY <1>0, <1>5 DEF RecoverCalls, LogOnly, CoordTypeOK, Control, BoundsType, QuietUnlessUp, Live
  <2>2. phase = "recovering" /\ todo \in Seq(RecoverySteps) /\ todo # <<>> /\ Now("recoverCalls", None)
    BY <1>0, <1>5, RecoveryIsRecovering DEF RecoverCalls, Control
  <2>3. HandlerType /\ Tail(todo) \in Seq(RecoverAttemptSteps)
    BY <2>2 DEF Control, HandlerType
  <2>4. todo' = todo \/ todo' = Tail(todo)
    BY <1>5, <2>2, DoneTail DEF RecoverCalls
  <2>5. HandlerType'
    BY <1>5, <2>2, <2>3, <2>4, RecoveryGoesOn DEF RecoverCalls, LogOnly
  <2> QED
    BY <2>1, <2>5 DEF Control
<1>6. ASSUME NEW a \in Attempts, RecoverAttempt(a) PROVE Control'
  <2>1. CoordTypeOK' /\ BoundsType' /\ QuietUnlessUp'
    BY <1>0, <1>6 DEF RecoverAttempt, LogOnly, CoordTypeOK, Control, BoundsType, QuietUnlessUp, Live
  <2>2. phase = "recovering" /\ todo \in Seq(RecoverySteps) /\ todo # <<>>
    BY <1>0, <1>6, RecoveryIsRecovering DEF RecoverAttempt, Control
  <2>3. todo' = Tail(todo)
    BY <1>6, <2>2, DoneTail DEF RecoverAttempt
  <2>4. HandlerType'
    BY <1>6, <2>2, <2>3, RecoveryGoesOn DEF RecoverAttempt, LogOnly, Control
  <2> QED
    BY <2>1, <2>4 DEF Control
<1>7. ASSUME NEW mode \in RestartModes, Boot(mode) PROVE Control'
  <2>1. active' \in Attempts \cup {None}
    BY <1>7, NewestIsPaused DEF Boot
  <2>2. CoordTypeOK'
    BY <1>0, <1>7, <2>1, ProviderAssumption DEF Boot, CoordTypeOK, PausedRuns
  <2>3. todo' = <<>> \/ todo' = <<Resume>>
    BY <1>7 DEF Boot, Return, ResumeSteps, Resume
  <2>4. UpHandler' /\ phase' = "up"
    BY <1>7, <2>3 DEF Boot, UpHandler
  <2> QED
    BY <1>0, <1>7, <2>2, <2>4, UpControl DEF Boot
<1> QED
  BY <1>1, <1>2, <1>3, <1>4, <1>5, <1>6, <1>7 DEF CatalogStep, RecoveryStep

-----------------------------------------------------------------------------
(* The effect invariant: what a step finds, and what the world has seen.   *)
(* First what each kind of change keeps, whichever action makes it.        *)

EffectFacts ==
    /\ AttemptStages /\ CallStages /\ AttemptFacts /\ RequestFacts /\ CallFacts
    /\ RecoveryFacts

\* A handler that is over, or that only has to look whether a paused turn can
\* go on, relies on nothing.
NoStage == todo = <<>> \/ Head(todo) \in {Resume, <<"afterTool", None>>}

\* At no stage nothing is relied on.
LEMMA NoStageFacts ==
  ASSUME NoStage
  PROVE  AttemptStages /\ CallStages
  BY DEF NoStage, AttemptStages, CallStages, Now, Resume

\* The rest of a handler is at no stage.
LEMMA RestIsNoStage ==
  ASSUME todo \in Rest \/ todo = <<>> \/ Now("maybeResume", None) \/ Now("afterTool", None)
  PROVE  NoStage
<1>1. ASSUME todo = <<Resume>> PROVE Head(todo) = Resume
  BY <1>1
<1> QED
  BY <1>1 DEF NoStage, Rest, Now, Resume

\* The order of the log changes only with a new attempt.
LEMMA OrderKept ==
  ASSUME RecoveryFacts, order' = order, phase' # "recovering",
         \A a \in Attempts : status'[a] = "Absent" <=> status[a] = "Absent"
  PROVE  RecoveryFacts'
<1>1. \A n \in DOMAIN order : order[n] \in Attempts
  BY DEF RecoveryFacts
<1> QED
  BY <1>1 DEF RecoveryFacts

\* A step of the running process that leaves the attempts of the log and the
\* streams alone, may settle calls, and may cancel tokens or release the
\* active attempt.
LEMMA AttemptsKept ==
  ASSUME AttemptFacts, RequestFacts, RecoveryFacts, phase = "up", phase' = "up",
         UNCHANGED <<status, turnsStarted, dispatchReady, binding, stream, sent, order>>,
         active' \in {active, None}, cancelled \subseteq cancelled',
         \A b \in Attempts : b \in dispatchReady /\ CallsSettled(b) => CallsSettled(b)'
  PROVE  AttemptFacts' /\ RequestFacts' /\ RecoveryFacts'
<1>1. AttemptFacts'
  BY NoneAssumption DEF AttemptFacts, Live, PendingBindings, NextTurn, CallsSettled, CallsOf
<1>2. RequestFacts'
  BY DEF RequestFacts
<1> QED
  BY <1>1, <1>2, OrderKept

\* A step of the running process that settles attempt a and releases it.
LEMMA AttemptSettles ==
  ASSUME TypeOK, CoordTypeOK, AttemptFacts, RequestFacts, RecoveryFacts, phase = "up", phase' = "up",
         NEW a \in Attempts, NEW s \in SettledAttempt,
         status[a] \notin SettledAttempt \cup {"Absent"},
         status' = [status EXCEPT ![a] = s],
         UNCHANGED <<turnsStarted, dispatchReady, callVars, binding, sent, order>>,
         stream' \in {stream, [stream EXCEPT ![a] = "closed"]},
         active' \in {active, None}, active' # a, cancelled \subseteq cancelled'
  PROVE  AttemptFacts' /\ RequestFacts' /\ RecoveryFacts'
<1> USE DEF TypeOK, CoordTypeOK, SettledAttempt, callVars
<1>1. AttemptFacts'
  BY NoneAssumption DEF AttemptFacts, Live, PendingBindings, NextTurn, CallsSettled, CallsOf
<1>2. RequestFacts'
  BY DEF RequestFacts
<1>3. RecoveryFacts'
  BY OrderKept
<1> QED
  BY <1>1, <1>2, <1>3

\* A step that touches no call, no execution and no proposal, under a handler
\* that is not about to launch a call.
NoLaunch == \A c \in Calls : ~Now("launch", c) /\ ~Now("propose", c) /\ ~Now("proposed", c)

\* A step that leaves the calls alone keeps their facts.
LEMMA CallsKept ==
  ASSUME CallFacts, NoLaunch, phase = "up", UNCHANGED <<callStatus, ran, runner, committed>>
  PROVE  CallFacts'
  BY DEF CallFacts, NoLaunch

\* A call that does not run moves on, but not to Running.
LEMMA WaitingCallMoves ==
  ASSUME TypeOK, CallFacts, NoLaunch, phase = "up", NEW c \in Calls, NEW s \in ToolCallStatus,
         callStatus[c] \in {"Absent", "Proposed", "PermissionPending", "Authorized", "DeniedPending"},
         s # "Running", callStatus' = [callStatus EXCEPT ![c] = s],
         UNCHANGED <<ran, runner, committed>>
  PROVE  CallFacts'
  BY DEF CallFacts, NoLaunch, TypeOK

\* A running call settles.
LEMMA RunningCallSettles ==
  ASSUME TypeOK, CoordTypeOK, CallFacts, phase = "up", NEW c \in Calls, NEW s \in SettledCall,
         \A d \in Calls \ {c} : ~Now("launch", d) /\ ~Now("propose", d) /\ ~Now("proposed", d),
         callStatus[c] = "Running", callStatus' = [callStatus EXCEPT ![c] = s],
         ran[c] = 0 \/ s \in {"Completed", "Unknown"},
         c \notin committed \/ s = "Completed",
         runner' \in {runner, [runner EXCEPT ![c] = None]},
         UNCHANGED <<ran, committed>>
  PROVE  CallFacts'
  BY DEF CallFacts, TypeOK, CoordTypeOK, SettledCall

\* A settled call leaves its attempt's calls as settled as they were.
LEMMA SettlingKeepsSettled ==
  ASSUME TypeOK, NEW c \in Calls, NEW s \in SettledCall, UNCHANGED callAttempt,
         callStatus' = [callStatus EXCEPT ![c] = s]
  PROVE  \A b \in Attempts : CallsSettled(b) => CallsSettled(b)'
  BY DEF CallsSettled, CallsOf, TypeOK

\* The process ends, with nothing durable in the same step but a proposal.
LEMMA EndedFacts ==
  ASSUME TypeOK, Control, EffectFacts, NEW how \in {"down", "stopped"}, ProcessEnds(how),
         UNCHANGED <<vars, order, sent, ran>>,
         committed' = committed \/
            \E c \in Calls : callStatus[c] = "Running" /\ committed' = committed \cup {c}
  PROVE  EffectFacts'
<1> USE DEF EffectFacts, ProcessEnds, vars, attemptVars, callVars
<1>0. CoordTypeOK /\ QuietUnlessUp
  BY DEF Control
<1>1. AttemptStages' /\ CallStages'
  BY NoStageFacts DEF AttemptStages, CallStages, Now
<1>2. AttemptFacts'
  BY <1>0 DEF AttemptFacts, Live, PendingBindings, NextTurn, CallsSettled, CallsOf, CoordTypeOK
<1>3. RequestFacts'
  <2> SUFFICES ASSUME NEW a \in Attempts
               PROVE  /\ sent'[a] <= turnsStarted'[a]
                      /\ stream'[a] = "lost" =>
                            /\ status'[a] \in {"InFlight", "CancellationRequested", "Unknown"}
                            /\ a \notin dispatchReady'
    BY DEF RequestFacts
  <2>1. CASE Live(a) /\ active = a
    BY <1>0, <2>1, NoneAssumption DEF RequestFacts, AttemptFacts, CoordTypeOK
  <2>2. CASE ~(Live(a) /\ active = a)
    BY <1>0, <2>2 DEF RequestFacts, CoordTypeOK
  <2> QED
    BY <2>1, <2>2
<1>4. CallFacts'
  BY <1>0 DEF CallFacts, CoordTypeOK
<1>5. RecoveryFacts'
  BY OrderKept
<1> QED
  BY <1>1, <1>2, <1>3, <1>4, <1>5

\* A bound turn is started: nothing is bound for the turn after it yet.
LEMMA TurnStarts ==
  ASSUME IInv, CoordTypeOK, AttemptFacts, RequestFacts, RecoveryFacts, phase = "up", phase' = "up",
         NEW a \in Attempts, StartRunTurn(a), UNCHANGED <<order, active, cancelled, stream, sent>>
  PROVE  AttemptFacts' /\ RequestFacts' /\ RecoveryFacts'
<1> USE DEF StartRunTurn, Commit, callVars
<1>0. TypeOK
  BY DEF IInv
<1>1. PendingBindings(a)' = {}
  BY <1>0, NoneAssumption DEF PendingBindings, NextTurn, IInv, ExactContextPerTurn, TypeOK, Unbound
<1>2. \A b \in Attempts \ {a} : PendingBindings(b)' = PendingBindings(b)
  BY <1>0 DEF PendingBindings, NextTurn, TypeOK
<1>3. AttemptFacts'
  BY <1>0, <1>1, <1>2 DEF AttemptFacts, Live, CallsSettled, CallsOf, NextTurn, TypeOK
<1>4. RequestFacts'
  BY <1>0 DEF RequestFacts, NextTurn, TypeOK, CoordTypeOK
<1>5. RecoveryFacts'
  BY OrderKept
<1> QED
  BY <1>3, <1>4, <1>5

\* The steps of a handler.
LEMMA AttemptHandlerFacts ==
  ASSUME IInv, Control, EffectFacts, NEW a \in Attempts,
         CancelCalls(a) \/ Configure(a) \/ Start(a) \/ Bind(a) \/ Dispatch(a)
            \/ Spawn(a) \/ Settle(a) \/ Fail(a) \/ Abort(a)
  PROVE  EffectFacts'
<1> USE DEF EffectFacts, boundVars, activeVars, taskVars, worldVars, LogOnly, vars, sessionVars,
            attemptVars, callVars, Commit, MoveAttempt, MoveCall, SettleCall, AttemptIn, CallIn
<1>0. TypeOK /\ CoordTypeOK
  BY DEF IInv, Control
<1>1. ASSUME CancelCalls(a) PROVE EffectFacts'
  <2>1. phase = "up" /\ phase' = "up" /\ Now("cancelCalls", a)
    BY <1>1, CancelCallsNext
  <2>2. NoLaunch /\ active = a /\ status[a] = "CancellationRequested"
    BY <2>1 DEF AttemptStages, NoLaunch, Now
  <2>3. ASSUME NEW c \in UnsettledCalls(a), callStatus[c] # "Running", CancelToolCall(c),
               UNCHANGED <<todo, active>>
        PROVE  EffectFacts'
    <3>1. /\ c \in Calls /\ callStatus[c] \in {"Proposed", "PermissionPending", "Authorized"}
          /\ UNCHANGED <<attemptVars, callAttempt, binding>>
          /\ callStatus' = [callStatus EXCEPT ![c] = "Cancelled"]
      BY <2>3 DEF UnsettledCalls, CallsOf, CancelToolCall, DecideCancelToolCall
    <3>2. AttemptStages' /\ CallStages'
      BY <2>1, <2>2, <2>3, <3>1 DEF AttemptStages, CallStages, Now
    <3>3. AttemptFacts' /\ RequestFacts' /\ RecoveryFacts'
      BY <1>0, <1>1, <2>1, <2>3, <3>1, SettlingKeepsSettled, AttemptsKept DEF CancelCalls, SettledCall
    <3>4. CallFacts'
      <4>1. UNCHANGED <<ran, runner, committed>>
        BY <1>1 DEF CancelCalls
      <4> QED
        BY <1>0, <2>1, <2>2, <3>1, <4>1, WaitingCallMoves DEF ToolCallStatus, SettledCall
    <3> QED
      BY <3>2, <3>3, <3>4
  <2>4. ASSUME CancelAttempt(a), active' = None, todo' = <<>> PROVE EffectFacts'
    <3>1. UNCHANGED <<turnsStarted, dispatchReady, callVars, binding>> /\ status' = [status EXCEPT ![a] = "Cancelled"]
      BY <2>4 DEF CancelAttempt
    <3>2. AttemptFacts' /\ RequestFacts' /\ RecoveryFacts'
      BY <1>0, <1>1, <2>1, <2>2, <2>4, <3>1, NoneAssumption, AttemptSettles DEF CancelCalls, SettledAttempt
    <3>3. CallFacts'
      BY <1>1, <2>1, <2>2, <3>1, CallsKept DEF CancelCalls
    <3> QED
      BY <2>4, <3>2, <3>3, NoStageFacts DEF NoStage, AttemptStages, CallStages, Now
  <2>5. ASSUME UNCHANGED <<vars, active>>, todo' = <<>> PROVE EffectFacts'
    <3>1. AttemptFacts' /\ RequestFacts' /\ RecoveryFacts'
      BY <1>1, <2>1, <2>5, AttemptsKept DEF CancelCalls, CallsSettled, CallsOf
    <3>2. CallFacts'
      BY <1>1, <2>1, <2>2, <2>5, CallsKept DEF CancelCalls
    <3> QED
      BY <2>5, <3>1, <3>2 DEF AttemptStages, CallStages, Now
  <2>6. Done => todo' = <<>>
    BY <1>1, <2>1, HandlerIsUp, DoneTail DEF Control, HandlerOps, AttemptOps, HandlerShape
  <2> QED
    BY <1>1, <2>3, <2>4, <2>5, <2>6 DEF CancelCalls
<1>2. ASSUME Configure(a) PROVE EffectFacts'
  <2>1. /\ phase = "up" /\ phase' = "up" /\ Now("configure", a)
        /\ \/ (\E limit \in TurnLimits : ConfigureRunBudget(a, limit)) /\ Now("start", a)'
           \/ (\E advised \in BOOLEAN : FailAttempt(a, advised)) /\ todo' = <<>>
    BY <1>2, ConfigureNext
  <2>2. NoLaunch /\ status[a] = "Prepared" /\ active = None
    BY <2>1 DEF AttemptStages, NoLaunch, Now
  <2>3. CallFacts'
    BY <1>2, <2>1, <2>2, CallsKept DEF Configure, ConfigureRunBudget, FailAttempt
  <2>4. ASSUME NEW limit \in TurnLimits, ConfigureRunBudget(a, limit), Now("start", a)' PROVE EffectFacts'
    <3>1. UNCHANGED <<status, turnsStarted, dispatchReady, callVars, binding>>
      BY <2>4 DEF ConfigureRunBudget
    <3>2. AttemptStages' /\ CallStages'
      BY <1>2, <2>2, <2>4, <3>1 DEF AttemptStages, CallStages, Now, Configure
    <3>3. AttemptFacts' /\ RequestFacts' /\ RecoveryFacts'
      BY <1>2, <2>1, <3>1, AttemptsKept DEF Configure, CallsSettled, CallsOf
    <3> QED
      BY <2>3, <3>2, <3>3
  <2>5. ASSUME NEW advised \in BOOLEAN, FailAttempt(a, advised), todo' = <<>> PROVE EffectFacts'
    <3>1. UNCHANGED <<turnsStarted, dispatchReady, callVars, binding>> /\ status' = [status EXCEPT ![a] = "Failed"]
      BY <2>5 DEF FailAttempt
    <3>2. AttemptFacts' /\ RequestFacts' /\ RecoveryFacts'
      BY <1>0, <1>2, <2>1, <2>2, <3>1, NoneAssumption, AttemptSettles DEF Configure, SettledAttempt
    <3> QED
      BY <2>3, <2>5, <3>2 DEF AttemptStages, CallStages, Now
  <2> QED
    BY <2>1, <2>4, <2>5
<1>3. ASSUME Start(a) PROVE EffectFacts'
  <2>1. phase = "up" /\ phase' = "up" /\ Now("start", a) /\ StartAttempt(a) /\ Now("bind", a)'
    BY <1>3, StartNext
  <2>2. NoLaunch /\ status[a] = "Prepared" /\ active = None
    BY <2>1 DEF AttemptStages, NoLaunch, Now
  <2>3. /\ UNCHANGED <<turnsStarted, callVars, binding>> /\ status' = [status EXCEPT ![a] = "InFlight"]
        /\ dispatchReady' = dispatchReady \cup {a}
    BY <2>1 DEF StartAttempt
  <2>4. UNCHANGED <<order, activeVars, taskVars, worldVars>>
    BY <1>3 DEF Start
  <2>5. AttemptStages' /\ CallStages'
    BY <1>0, <2>1, <2>2, <2>3, <2>4 DEF AttemptStages, CallStages, Now, TypeOK
  <2>6. \A c \in CallsOf(a) : callStatus[c] \in SettledCall
    BY <1>0, <2>2, NoneAssumption
       DEF IInv, SettledAttemptsHaveSettledCalls, Provenance, CallsOf, TypeOK, ToolCallStatus
  <2>7. AttemptFacts'
    <3>1. \A b \in Attempts : PendingBindings(b)' = PendingBindings(b) /\ CallsSettled(b)' = CallsSettled(b)
      BY <2>3 DEF PendingBindings, NextTurn, CallsSettled, CallsOf
    <3> QED
      BY <1>0, <2>1, <2>2, <2>3, <2>4, <2>6, <3>1, NoneAssumption DEF AttemptFacts, Live, CallsSettled, TypeOK
  <2>8. RequestFacts'
    BY <1>0, <2>1, <2>2, <2>3, <2>4 DEF RequestFacts, TypeOK
  <2>9. CallFacts'
    BY <2>1, <2>2, <2>3, <2>4, CallsKept
  <2>10. RecoveryFacts'
    BY <1>0, <2>1, <2>2, <2>3, <2>4, OrderKept DEF TypeOK
  <2> QED
    BY <2>5, <2>7, <2>8, <2>9, <2>10
<1>4. ASSUME Bind(a) PROVE EffectFacts'
  <2>1. /\ phase = "up" /\ phase' = "up" /\ Now("bind", a)
        /\ \/ (\E t \in ContextTurns : BindContextTurn(a, t, NextTurn(a))) /\ Now("dispatch", a)'
           \/ UNCHANGED vars /\ Now("fail", a)'
    BY <1>4, BindNext
  <2>2. NoLaunch /\ status[a] = "InFlight" /\ a \in dispatchReady /\ active \in {None, a}
    BY <2>1 DEF AttemptStages, NoLaunch, Now
  <2>3. UNCHANGED <<order, activeVars, taskVars, worldVars>>
    BY <1>4 DEF Bind
  <2>4. ASSUME NEW t \in ContextTurns, BindContextTurn(a, t, NextTurn(a)), Now("dispatch", a)'
        PROVE  EffectFacts'
    <3>1. /\ UNCHANGED <<attemptVars, callVars>>
          /\ binding' = [binding EXCEPT ![t] =
                [attempt |-> a, runTurn |-> NextTurn(a), sequence |-> lastSequence + 1]]
      BY <2>4 DEF BindContextTurn
    <3>2. AttemptStages' /\ CallStages'
      BY <2>2, <2>3, <2>4, <3>1 DEF AttemptStages, CallStages, Now
    <3>3. \A b \in Attempts \ {a} : PendingBindings(b)' \subseteq PendingBindings(b)
      BY <1>0, <3>1 DEF PendingBindings, NextTurn, TypeOK
    <3>4. AttemptFacts'
      BY <1>0, <2>1, <2>2, <2>3, <3>1, <3>3
         DEF AttemptFacts, Live, CallsSettled, CallsOf
    <3>5. RequestFacts'
      BY <2>1, <2>3, <3>1 DEF RequestFacts
    <3>6. CallFacts' /\ RecoveryFacts'
      BY <2>1, <2>2, <2>3, <3>1, CallsKept, OrderKept
    <3> QED
      BY <3>2, <3>4, <3>5, <3>6
  <2>5. ASSUME UNCHANGED vars, Now("fail", a)' PROVE EffectFacts'
    <3>1. AttemptStages' /\ CallStages'
      BY <2>2, <2>3, <2>5 DEF AttemptStages, CallStages, Now
    <3>2. AttemptFacts' /\ RequestFacts' /\ RecoveryFacts'
      BY <2>1, <2>3, <2>5, AttemptsKept DEF CallsSettled, CallsOf
    <3> QED
      BY <2>1, <2>2, <2>3, <2>5, <3>1, <3>2, CallsKept
  <2> QED
    BY <2>1, <2>4, <2>5
<1>5. ASSUME Dispatch(a) PROVE EffectFacts'
  <2>1. /\ phase = "up" /\ phase' = "up" /\ Now("dispatch", a)
        /\ \/ StartRunTurn(a) /\ Now("spawn", a)'
           \/ UNCHANGED vars /\ Now("fail", a)'
    BY <1>5, DispatchNext
  <2>2. NoLaunch /\ status[a] = "InFlight" /\ a \in dispatchReady /\ active \in {None, a}
    BY <2>1 DEF AttemptStages, NoLaunch, Now
  <2>3. UNCHANGED <<order, activeVars, taskVars, worldVars>>
    BY <1>5 DEF Dispatch
  <2>4. ASSUME StartRunTurn(a), Now("spawn", a)' PROVE EffectFacts'
    <3>1. AttemptFacts' /\ RequestFacts' /\ RecoveryFacts'
      BY <1>0, <2>1, <2>2, <2>3, <2>4, TurnStarts
    <3>2. /\ UNCHANGED <<status, callVars>> /\ dispatchReady' = dispatchReady \ {a}
          /\ turnsStarted' = [turnsStarted EXCEPT ![a] = NextTurn(a)]
      BY <2>4 DEF StartRunTurn
    <3>3. CallsSettled(a) /\ sent[a] <= turnsStarted[a]
      BY <2>2 DEF AttemptFacts, RequestFacts
    <3>4. AttemptStages' /\ CallStages'
      BY <1>0, <2>2, <2>3, <2>4, <3>2, <3>3
         DEF AttemptStages, CallStages, Now, NextTurn, CallsSettled, CallsOf, TypeOK, CoordTypeOK
    <3>5. CallFacts'
      BY <2>1, <2>2, <2>3, <3>2, CallsKept
    <3> QED
      BY <3>1, <3>4, <3>5
  <2>5. ASSUME UNCHANGED vars, Now("fail", a)' PROVE EffectFacts'
    <3>1. AttemptStages' /\ CallStages'
      BY <2>2, <2>3, <2>5 DEF AttemptStages, CallStages, Now
    <3>2. AttemptFacts' /\ RequestFacts' /\ RecoveryFacts'
      BY <2>1, <2>3, <2>5, AttemptsKept DEF CallsSettled, CallsOf
    <3> QED
      BY <2>1, <2>2, <2>3, <2>5, <3>1, <3>2, CallsKept
  <2> QED
    BY <2>1, <2>4, <2>5
<1>6. ASSUME Spawn(a) PROVE EffectFacts'
  <2>1. phase = "up" /\ phase' = "up" /\ Now("spawn", a) /\ todo' \in Rest
    BY <1>6, SpawnNext
  <2>2. /\ NoLaunch /\ status[a] = "InFlight" /\ a \notin dispatchReady
        /\ sent[a] < turnsStarted[a] /\ active \in {None, a}
    BY <2>1 DEF AttemptStages, NoLaunch, Now
  <2>3. /\ stream' = [stream EXCEPT ![a] = "open"] /\ sent' = [sent EXCEPT ![a] = @ + 1]
        /\ active' = a /\ UNCHANGED <<vars, order, cancelled, runner, ran, committed>>
    BY <1>6 DEF Spawn
  <2>4. AttemptStages' /\ CallStages'
    BY <2>1, NoStageFacts, RestIsNoStage DEF AttemptStages, CallStages, Now, Rest, Resume
  <2>5. AttemptFacts'
    BY <1>0, <2>1, <2>2, <2>3
       DEF AttemptFacts, Live, CallsSettled, CallsOf, PendingBindings, NextTurn, TypeOK, CoordTypeOK
  <2>6. RequestFacts'
    BY <1>0, <2>1, <2>2, <2>3 DEF RequestFacts, TypeOK, CoordTypeOK
  <2>7. CallFacts' /\ RecoveryFacts'
    BY <2>1, <2>2, <2>3, CallsKept, OrderKept
  <2> QED
    BY <2>4, <2>5, <2>6, <2>7
<1>7. ASSUME Settle(a) PROVE EffectFacts'
  <2>1. /\ phase = "up" /\ phase' = "up" /\ Now("settle", a)
        /\ Tail(todo) \in { << <<"fail", a>> >>, << <<"abort", a>> >> }
        /\ \/ (\E c \in UnsettledCalls(a) : SettleConservatively(c)) /\ todo' = todo
           \/ CallsSettled(a) /\ UNCHANGED vars /\ todo' = Tail(todo)
    BY <1>7, SettleNext
  <2>2. NoLaunch /\ (Tail(todo) = << <<"fail", a>> >> => active = a)
    BY <2>1 DEF AttemptStages, NoLaunch, Now
  <2>3. cancelled \subseteq cancelled' /\ UNCHANGED <<order, active, taskVars, worldVars>>
    BY <1>7 DEF Settle, TokenAfterSettle
  <2>4. ASSUME NEW c \in UnsettledCalls(a), SettleConservatively(c), todo' = todo PROVE EffectFacts'
    <3>1. UNCHANGED <<attemptVars, callAttempt, binding>> /\ c \in Calls
      BY <2>4 DEF UnsettledCalls, CallsOf, SettleConservatively, MarkToolCallUnknown, DenyToolCall, CancelToolCall
    <3>2. \/ callStatus[c] = "Running" /\ callStatus' = [callStatus EXCEPT ![c] = "Unknown"]
          \/ callStatus[c] = "DeniedPending" /\ callStatus' = [callStatus EXCEPT ![c] = "Denied"]
          \/ /\ callStatus[c] \in {"Proposed", "PermissionPending", "Authorized"}
             /\ callStatus' = [callStatus EXCEPT ![c] = "Cancelled"]
      BY <2>4 DEF SettleConservatively, MarkToolCallUnknown, DenyToolCall, CancelToolCall
    <3>3. AttemptStages' /\ CallStages'
      BY <2>1, <2>2, <2>3, <2>4, <3>1 DEF AttemptStages, CallStages, Now
    <3>4. \A b \in Attempts : CallsSettled(b) => CallsSettled(b)'
      BY <1>0, <3>1, <3>2, SettlingKeepsSettled DEF SettledCall
    <3>5. AttemptFacts' /\ RequestFacts' /\ RecoveryFacts'
      BY <2>1, <2>3, <3>1, <3>4, AttemptsKept
    <3>6. CallFacts'
      <4>1. CASE callStatus[c] = "Running"
        <5>1. c \notin committed
          BY <2>1, <2>2, <3>1, <4>1 DEF CallFacts, NoLaunch
        <5> QED
          BY <1>0, <2>1, <2>2, <2>3, <3>1, <3>2, <4>1, <5>1, RunningCallSettles DEF NoLaunch, SettledCall
      <4>2. CASE callStatus[c] # "Running"
        BY <1>0, <2>1, <2>2, <2>3, <3>1, <3>2, <4>2, WaitingCallMoves DEF ToolCallStatus, SettledCall
      <4> QED
        BY <4>1, <4>2
    <3> QED
      BY <3>3, <3>5, <3>6
  <2>5. ASSUME UNCHANGED vars, todo' = Tail(todo) PROVE EffectFacts'
    <3>1. AttemptStages' /\ CallStages'
      <4>1. CASE todo' = << <<"fail", a>> >>
        <5>1. Head(todo') = <<"fail", a>>
          BY <4>1
        <5>2. active' = a
          BY <2>2, <2>3, <2>5, <4>1
        <5> QED
          BY <5>1, <5>2 DEF AttemptStages, CallStages, Now
      <4>2. CASE todo' = << <<"abort", a>> >>
        BY <4>2 DEF AttemptStages, CallStages, Now
      <4> QED
        BY <2>1, <2>5, <4>1, <4>2
    <3>2. AttemptFacts' /\ RequestFacts' /\ RecoveryFacts'
      BY <2>1, <2>3, <2>5, AttemptsKept DEF CallsSettled, CallsOf
    <3> QED
      BY <2>1, <2>2, <2>3, <2>5, <3>1, <3>2, CallsKept
  <2> QED
    BY <2>1, <2>4, <2>5
<1>8. ASSUME Fail(a) \/ Abort(a) PROVE EffectFacts'
  <2>1. phase = "up" /\ phase' = "up" /\ todo' = <<>>
    BY <1>8, FailNext
  <2>2. NoLaunch
    BY <1>8 DEF NoLaunch, Now, Fail, Abort
  <2>3. PICK advised \in BOOLEAN : FailAttempt(a, advised)
    BY <1>8 DEF Fail, Abort
  <2>4. /\ UNCHANGED <<turnsStarted, dispatchReady, callVars, binding>>
        /\ status' = [status EXCEPT ![a] = "Failed"]
        /\ status[a] \in {"Prepared", "InFlight", "AwaitingTools", "CancellationRequested"}
    BY <2>3 DEF FailAttempt, DecideFailAttempt
  <2>5. active' = None /\ cancelled \subseteq cancelled' /\ UNCHANGED <<order, taskVars, sent, ran, committed>>
    BY <1>8 DEF Fail, Abort
  <2>6. AttemptFacts' /\ RequestFacts' /\ RecoveryFacts'
    BY <1>0, <2>1, <2>4, <2>5, NoneAssumption, AttemptSettles DEF SettledAttempt
  <2>7. CallFacts'
    BY <2>1, <2>2, <2>4, <2>5, CallsKept
  <2> QED
    BY <2>1, <2>6, <2>7 DEF AttemptStages, CallStages, Now
<1> QED
  BY <1>1, <1>2, <1>3, <1>4, <1>5, <1>6, <1>7, <1>8

\* The steps of a handler that works on a call.
LEMMA CallHandlerFacts ==
  ASSUME IInv, Control, EffectFacts, NEW c \in Calls,
         Permission(c) \/ Deny(c) \/ StartCall(c) \/ Launch(c) \/ Propose(c) \/ Proposed(c)
  PROVE  EffectFacts'
<1> USE DEF EffectFacts, boundVars, activeVars, taskVars, worldVars, LogOnly, vars, sessionVars,
            attemptVars, callVars, Commit, MoveAttempt, MoveCall, SettleCall, AttemptIn, CallIn
<1>0. TypeOK /\ CoordTypeOK
  BY DEF IInv, Control
<1>1. ASSUME Permission(c) PROVE EffectFacts'
  <2>1. phase = "up" /\ phase' = "up" /\ Now("permission", c)
    BY <1>1, PermissionNext
  <2>2. PICK outcome \in Outcomes :
           /\ RecordToolPermission(c, outcome)
           /\ \/ outcome = "Allow" /\ Now("startCall", c)'
              \/ outcome = "Deny" /\ Now("deny", c)'
              \/ outcome = "Ask" /\ todo' = <<>>
    BY <1>1, PermissionNext
  <2>3. NoLaunch /\ callStatus[c] = "Proposed" /\ status[callAttempt[c]] = "InFlight"
    BY <2>1 DEF CallStages, NoLaunch, Now
  <2>4. UNCHANGED <<order, activeVars, taskVars, worldVars>>
    BY <1>1 DEF Permission
  <2>5. /\ UNCHANGED <<attemptVars, callAttempt, answer, binding>>
        /\ callStatus' = [callStatus EXCEPT ![c] = PermissionStatus(outcome)]
        /\ PermissionStatus(outcome) \in {"DeniedPending", "PermissionPending", "Authorized"}
        /\ outcome = "Allow" => PermissionStatus(outcome) = "Authorized"
    BY <2>2, OutcomesAssumption DEF RecordToolPermission, PermissionStatus
  <2>6. AttemptStages' /\ CallStages'
    BY <1>0, <2>2, <2>3, <2>4, <2>5 DEF AttemptStages, CallStages, Now, TypeOK
  <2>7. \A b \in Attempts : CallsSettled(b) => CallsSettled(b)'
    BY <1>0, <2>3, <2>5 DEF CallsSettled, CallsOf, TypeOK, SettledCall
  <2>8. AttemptFacts' /\ RequestFacts' /\ RecoveryFacts'
    BY <2>1, <2>4, <2>5, <2>7, AttemptsKept
  <2>9. CallFacts'
    BY <1>0, <2>1, <2>3, <2>4, <2>5, WaitingCallMoves DEF ToolCallStatus
  <2> QED
    BY <2>6, <2>8, <2>9
<1>2. ASSUME Deny(c) PROVE EffectFacts'
  <2>1. phase = "up" /\ phase' = "up" /\ Now("deny", c) /\ todo' \in Rest
    BY <1>2, DenyNext
  <2>2. NoLaunch
    BY <2>1 DEF NoLaunch, Now
  <2>3. /\ callStatus[c] = "DeniedPending" /\ callStatus' = [callStatus EXCEPT ![c] = "Denied"]
        /\ UNCHANGED <<order, activeVars, taskVars, worldVars, attemptVars, callAttempt, binding>>
    BY <1>2 DEF Deny, DenyToolCall, DecideDenyToolCall
  <2>4. AttemptFacts' /\ RequestFacts' /\ RecoveryFacts'
    BY <1>0, <2>1, <2>3, SettlingKeepsSettled, AttemptsKept DEF SettledCall
  <2>5. CallFacts'
    BY <1>0, <2>1, <2>2, <2>3, WaitingCallMoves DEF ToolCallStatus, SettledCall
  <2> QED
    BY <2>1, <2>4, <2>5 DEF AttemptStages, CallStages, Now, Rest, Resume
<1>3. ASSUME StartCall(c) PROVE EffectFacts'
  <2>1. /\ phase = "up" /\ Now("startCall", c)
        /\ \/ StartToolCall(c) /\ phase' = "up" /\ Now("launch", c)'
           \/ HandlerFails /\ UNCHANGED vars
    BY <1>3, StartCallNext
  <2>2. NoLaunch /\ callStatus[c] = "Authorized"
    BY <2>1 DEF CallStages, NoLaunch, Now
  <2>3. UNCHANGED <<order, provider, worldVars, boundVars>>
    BY <1>3 DEF StartCall
  <2>4. ASSUME StartToolCall(c), phase' = "up", Now("launch", c)' PROVE EffectFacts'
    <3>1. /\ callStatus' = [callStatus EXCEPT ![c] = "Running"]
          /\ UNCHANGED <<attemptVars, callAttempt, binding>>
      BY <2>4 DEF StartToolCall
    <3>2. UNCHANGED <<activeVars, taskVars>>
      BY <1>3, <2>4 DEF StartCall, HandlerFails, ProcessEnds
    <3>3. ran[c] = 0
      BY <2>2 DEF CallFacts
    <3>4. AttemptStages' /\ CallStages'
      BY <1>0, <2>3, <2>4, <3>1, <3>3 DEF AttemptStages, CallStages, Now, TypeOK
    <3>5. \A b \in Attempts : CallsSettled(b) => CallsSettled(b)'
      BY <1>0, <2>2, <3>1 DEF CallsSettled, CallsOf, TypeOK, SettledCall
    <3>6. AttemptFacts' /\ RequestFacts' /\ RecoveryFacts'
      BY <2>1, <2>3, <2>4, <3>1, <3>2, <3>5, AttemptsKept
    <3>7. CallFacts'
      BY <1>0, <2>1, <2>2, <2>3, <2>4, <3>1, <3>2, <3>3 DEF CallFacts, NoLaunch, TypeOK
    <3> QED
      BY <3>4, <3>6, <3>7
  <2>5. ASSUME HandlerFails, UNCHANGED vars PROVE EffectFacts'
    BY <1>0, <2>3, <2>5, EndedFacts DEF HandlerFails
  <2> QED
    BY <2>1, <2>4, <2>5
<1>4. ASSUME Launch(c) PROVE EffectFacts'
  <2>1. phase = "up" /\ Now("launch", c)
    BY <1>4, LaunchNext
  <2>2. /\ callStatus[c] = "Running" /\ ran[c] = 0
        /\ \A d \in Calls \ {c} : ~Now("launch", d) /\ ~Now("propose", d) /\ ~Now("proposed", d)
        /\ ~Now("propose", c) /\ ~Now("proposed", c)
    BY <2>1 DEF CallStages, Now
  <2>3. c \notin committed /\ runner[c] = None
    BY <2>1, <2>2 DEF CallFacts
  <2>4. UNCHANGED <<order, provider, sent, committed, boundVars>>
    BY <1>4 DEF Launch
  <2>5. ASSUME HandlerFails, UNCHANGED <<vars, ran>> PROVE EffectFacts'
    BY <1>0, <2>4, <2>5, EndedFacts DEF HandlerFails
  <2>6. ASSUME FailToolCall(c), phase' = "up", todo' \in Rest, UNCHANGED <<activeVars, taskVars, ran>>
        PROVE  EffectFacts'
    <3>1. /\ callStatus' = [callStatus EXCEPT ![c] = "Failed"]
          /\ UNCHANGED <<attemptVars, callAttempt, binding>>
      BY <2>6 DEF FailToolCall
    <3>2. AttemptFacts' /\ RequestFacts' /\ RecoveryFacts'
      BY <1>0, <2>1, <2>4, <2>6, <3>1, SettlingKeepsSettled, AttemptsKept DEF SettledCall
    <3>3. CallFacts'
      BY <1>0, <2>1, <2>2, <2>3, <2>4, <2>6, <3>1, RunningCallSettles DEF SettledCall
    <3> QED
      BY <2>6, <3>2, <3>3 DEF AttemptStages, CallStages, Now, Rest, Resume
  <2>7. ASSUME phase' = "up", UNCHANGED <<vars, active, guarded, cancelled, stream>>,
               \/ c \in ProposalCalls /\ Now("propose", c)' /\ UNCHANGED <<runner, ran>>
               \/ /\ c \notin ProposalCalls /\ todo' \in Rest /\ active # None
                  /\ runner' = [runner EXCEPT ![c] = active]
                  /\ ran' = [ran EXCEPT ![c] = @ + 1]
        PROVE  EffectFacts'
    <3>1. AttemptFacts' /\ RequestFacts' /\ RecoveryFacts'
      BY <2>1, <2>4, <2>7, AttemptsKept DEF CallsSettled, CallsOf
    <3>2. CallFacts'
      BY <1>0, <2>1, <2>2, <2>3, <2>4, <2>7 DEF CallFacts, Now, CoordTypeOK
    <3>3. AttemptStages' /\ CallStages'
      BY <2>2, <2>7 DEF AttemptStages, CallStages, Now, Rest, Resume
    <3> QED
      BY <3>1, <3>2, <3>3
  <2> QED
    BY <1>4, <2>5, <2>6, <2>7, LaunchNext
<1>5. ASSUME Propose(c) PROVE EffectFacts'
  <2>1. phase = "up" /\ Now("propose", c)
    BY <1>5, ProposeNext
  <2>2. /\ callStatus[c] = "Running" /\ c \in ProposalCalls
        /\ \A d \in Calls \ {c} : ~Now("launch", d) /\ ~Now("propose", d) /\ ~Now("proposed", d)
        /\ ~Now("launch", c) /\ ~Now("proposed", c)
    BY <2>1 DEF CallStages, Now
  <2>3. c \notin committed /\ ran[c] = 0
    BY <2>1, <2>2 DEF CallFacts
  <2>4. UNCHANGED <<order, provider, sent, ran, boundVars>>
    BY <1>5 DEF Propose
  <2>5. ASSUME committed' = committed \cup {c}, Now("proposed", c)', UNCHANGED <<vars, phase, activeVars, taskVars>>
        PROVE  EffectFacts'
    <3>1. AttemptFacts' /\ RequestFacts' /\ RecoveryFacts'
      BY <2>1, <2>4, <2>5, AttemptsKept DEF CallsSettled, CallsOf
    <3>2. CallFacts'
      BY <1>0, <2>1, <2>2, <2>3, <2>4, <2>5 DEF CallFacts
    <3>3. AttemptStages' /\ CallStages'
      BY <2>2, <2>5 DEF AttemptStages, CallStages, Now
    <3> QED
      BY <3>1, <3>2, <3>3
  <2>6. ASSUME FailToolCall(c), Now("maybeResume", None)',
               UNCHANGED <<phase, active, guarded, cancelled, taskVars, committed>>
        PROVE  EffectFacts'
    <3>1. /\ callStatus' = [callStatus EXCEPT ![c] = "Failed"]
          /\ UNCHANGED <<attemptVars, callAttempt, binding>>
      BY <2>6 DEF FailToolCall
    <3>2. AttemptFacts' /\ RequestFacts' /\ RecoveryFacts'
      BY <1>0, <2>1, <2>4, <2>6, <3>1, SettlingKeepsSettled, AttemptsKept DEF SettledCall
    <3>3. CallFacts'
      BY <1>0, <2>1, <2>2, <2>3, <2>4, <2>6, <3>1, RunningCallSettles DEF SettledCall
    <3> QED
      BY <2>6, <3>2, <3>3 DEF AttemptStages, CallStages, Now
  <2>7. ASSUME committed' \in {committed, committed \cup {c}}, HandlerFails, UNCHANGED vars PROVE EffectFacts'
    BY <1>0, <2>2, <2>4, <2>7, EndedFacts DEF HandlerFails
  <2> QED
    BY <1>5, <2>5, <2>6, <2>7, ProposeNext
<1>6. ASSUME Proposed(c) PROVE EffectFacts'
  <2>1. phase = "up" /\ phase' = "up" /\ Now("proposed", c) /\ Now("maybeResume", None)'
    BY <1>6, ProposedNext
  <2>2. /\ callStatus[c] = "Running"
        /\ \A d \in Calls \ {c} : ~Now("launch", d) /\ ~Now("propose", d) /\ ~Now("proposed", d)
    BY <2>1 DEF CallStages, Now
  <2>3. /\ callStatus' = [callStatus EXCEPT ![c] = "Completed"]
        /\ UNCHANGED <<order, active, cancelled, taskVars, worldVars, attemptVars, callAttempt, binding>>
    BY <1>6 DEF Proposed, CompleteToolCall
  <2>4. AttemptFacts' /\ RequestFacts' /\ RecoveryFacts'
    BY <1>0, <2>1, <2>3, SettlingKeepsSettled, AttemptsKept DEF SettledCall
  <2>5. CallFacts'
    BY <1>0, <2>1, <2>2, <2>3, RunningCallSettles DEF SettledCall
  <2> QED
    BY <2>1, <2>4, <2>5 DEF AttemptStages, CallStages, Now
<1> QED
  BY <1>1, <1>2, <1>3, <1>4, <1>5, <1>6

\* The steps that look whether a paused run can go on.
LEMMA PausedHandlerFacts ==
  ASSUME IInv, Control, EffectFacts, MaybeResume \/ AfterTool
  PROVE  EffectFacts'
<1> USE DEF EffectFacts, boundVars, activeVars, taskVars, worldVars, LogOnly, vars, sessionVars,
            attemptVars, callVars, Commit, MoveAttempt, MoveCall, SettleCall, AttemptIn, CallIn
<1>0. TypeOK /\ CoordTypeOK
  BY DEF IInv, Control
<1>1. ASSUME MaybeResume PROVE EffectFacts'
  <2>1. /\ phase = "up" /\ phase' = "up" /\ Now("maybeResume", None)
        /\ \/ UNCHANGED vars /\ todo' \in Rest
           \/ /\ active \in Attempts /\ UNCHANGED vars /\ Now("settle", active)'
              /\ Tail(todo') \in {<< <<"fail", active>> >>, << <<"abort", active>> >>}
           \/ active \in Attempts /\ ResumeAttemptAfterTools(active) /\ Now("bind", active)'
    BY <1>1, MaybeResumeNext
  <2>2. NoLaunch /\ UNCHANGED <<order, active, cancelled, taskVars, worldVars>>
    BY <1>1, <2>1 DEF NoLaunch, Now, MaybeResume
  <2>3. CASE UNCHANGED vars
    <3>1. AttemptFacts' /\ RequestFacts' /\ RecoveryFacts'
      BY <2>1, <2>2, <2>3, AttemptsKept DEF CallsSettled, CallsOf
    <3>2. CallFacts'
      BY <2>1, <2>2, <2>3, CallsKept
    <3>3. AttemptStages' /\ CallStages'
      <4>1. CASE todo' \in Rest
        BY <4>1 DEF AttemptStages, CallStages, Now, Rest, Resume
      <4>2. CASE Now("settle", active)'
        BY <2>2, <4>2 DEF AttemptStages, CallStages, Now
      <4>3. CASE Now("bind", active)' /\ ResumeAttemptAfterTools(active) /\ active \in Attempts
        BY <1>0, <2>3, <4>3 DEF ResumeAttemptAfterTools, DecideResumeAttemptAfterTools, TypeOK
      <4> QED
        BY <2>1, <4>1, <4>2, <4>3
    <3> QED
      BY <3>1, <3>2, <3>3
  <2>4. CASE active \in Attempts /\ ResumeAttemptAfterTools(active) /\ Now("bind", active)'
    <3>1. /\ status[active] = "AwaitingTools" /\ CallsSettled(active)
          /\ status' = [status EXCEPT ![active] = "InFlight"]
          /\ dispatchReady' = dispatchReady \cup {active}
          /\ UNCHANGED <<turnsStarted, callVars, binding>>
      BY <2>4 DEF ResumeAttemptAfterTools, DecideResumeAttemptAfterTools
    <3>2. AttemptStages' /\ CallStages'
      BY <1>0, <2>2, <2>4, <3>1 DEF AttemptStages, CallStages, Now, TypeOK
    <3>3. \A b \in Attempts : PendingBindings(b)' = PendingBindings(b) /\ CallsSettled(b)' = CallsSettled(b)
      BY <3>1 DEF PendingBindings, NextTurn, CallsSettled, CallsOf
    <3>4. AttemptFacts'
      BY <1>0, <2>1, <2>2, <2>4, <3>1, <3>3 DEF AttemptFacts, Live, TypeOK
    <3>5. RequestFacts'
      BY <1>0, <2>1, <2>2, <2>4, <3>1 DEF RequestFacts, TypeOK
    <3>6. CallFacts'
      BY <2>1, <2>2, <3>1, CallsKept
    <3>7. RecoveryFacts'
      BY <1>0, <2>1, <2>2, <2>4, <3>1, OrderKept DEF TypeOK
    <3> QED
      BY <3>2, <3>4, <3>5, <3>6, <3>7
  <2> QED
    BY <2>1, <2>3, <2>4
<1>2. ASSUME AfterTool PROVE EffectFacts'
  <2>1. /\ phase = "up" /\ phase' = "up" /\ Now("afterTool", None)
        /\ \/ active \in Attempts /\ CancelAttempt(active) /\ active' = None /\ todo' = <<>>
           \/ UNCHANGED <<vars, active>> /\ todo' = <<Resume>>
    BY <1>2, AfterToolNext
  <2>2. NoLaunch /\ UNCHANGED <<order, cancelled, taskVars, worldVars>>
    BY <1>2, <2>1 DEF NoLaunch, Now, AfterTool
  <2>3. AttemptStages' /\ CallStages'
    BY <2>1 DEF AttemptStages, CallStages, Now, Resume
  <2>4. CallFacts'
    BY <2>1, <2>2, CallsKept DEF CancelAttempt
  <2>5. CASE active \in Attempts /\ CancelAttempt(active) /\ active' = None
    <3>1. /\ status[active] = "CancellationRequested"
          /\ status' = [status EXCEPT ![active] = "Cancelled"]
          /\ UNCHANGED <<turnsStarted, dispatchReady, callVars, binding>>
      BY <2>5 DEF CancelAttempt, DecideCancelAttempt
    <3>2. AttemptFacts' /\ RequestFacts' /\ RecoveryFacts'
      BY <1>0, <2>1, <2>2, <2>5, <3>1, NoneAssumption, AttemptSettles DEF SettledAttempt
    <3> QED
      BY <2>3, <2>4, <3>2
  <2>6. CASE UNCHANGED <<vars, active>>
    <3>1. AttemptFacts' /\ RequestFacts' /\ RecoveryFacts'
      BY <2>1, <2>2, <2>6, AttemptsKept DEF CallsSettled, CallsOf
    <3> QED
      BY <2>3, <2>4, <3>1
  <2> QED
    BY <2>1, <2>5, <2>6
<1> QED
  BY <1>1, <1>2

\* A new attempt goes to the end of the log's order.
LEMMA OrderGrows ==
  ASSUME TypeOK, RecoveryFacts, phase' # "recovering", NEW a \in Attempts,
         status[a] = "Absent", status' = [status EXCEPT ![a] = "Prepared"],
         order' = Append(order, a)
  PROVE  RecoveryFacts'
<1> USE DEF TypeOK
<1>1. order \in Seq(Attempts) /\ order' \in Seq(Attempts)
  BY DEF RecoveryFacts
<1>2. /\ DOMAIN order = 1 .. Len(order) /\ DOMAIN order' = 1 .. Len(order) + 1
      /\ Len(order) \in Nat /\ order'[Len(order) + 1] = a
      /\ \A n \in 1 .. Len(order) : order'[n] = order[n]
  BY <1>1
<1>3. \A n \in 1 .. Len(order) : order[n] # a /\ order[n] \in Attempts
  <2> SUFFICES ASSUME NEW n \in 1 .. Len(order) PROVE order[n] # a /\ order[n] \in Attempts
    OBVIOUS
  <2>1. n \in DOMAIN order
    BY <1>2
  <2>2. order[n] \in Attempts
    BY <1>1, <2>1
  <2>3. status[order[n]] # "Absent"
    BY <2>1 DEF RecoveryFacts
  <2> QED
    BY <2>2, <2>3
<1>4. ASSUME NEW b \in Attempts, status'[b] # "Absent" PROVE \E n \in DOMAIN order' : order'[n] = b
  <2>1. CASE b = a
    <3>1. Len(order) + 1 \in DOMAIN order'
      BY <1>2
    <3> QED
      BY <1>2, <2>1, <3>1
  <2>2. CASE b # a
    <3>1. PICK n \in DOMAIN order : order[n] = b
      BY <1>4, <2>2 DEF RecoveryFacts
    <3>2. n \in DOMAIN order' /\ order'[n] = b
      BY <1>2, <3>1
    <3> QED
      BY <3>2
  <2> QED
    BY <2>1, <2>2
<1>5. ASSUME NEW n \in DOMAIN order' PROVE status'[order'[n]] # "Absent"
  <2>1. CASE n = Len(order) + 1
    BY <1>2, <2>1
  <2>2. CASE n \in 1 .. Len(order)
    BY <1>2, <1>3, <2>2 DEF RecoveryFacts
  <2> QED
    BY <1>2, <2>1, <2>2
<1>6. ASSUME NEW m \in DOMAIN order', NEW n \in DOMAIN order', order'[m] = order'[n] PROVE m = n
  <2>1. CASE m \in 1 .. Len(order) /\ n \in 1 .. Len(order)
    BY <1>2, <1>6, <2>1 DEF RecoveryFacts
  <2>2. CASE m = Len(order) + 1 \/ n = Len(order) + 1
    BY <1>2, <1>3, <1>6, <2>2
  <2> QED
    BY <1>2, <2>1, <2>2
<1> QED
  BY <1>1, <1>4, <1>5, <1>6 DEF RecoveryFacts

\* A new attempt: nothing is known of it yet.
LEMMA AttemptAppears ==
  ASSUME IInv, CoordTypeOK, EffectFacts, phase = "up", phase' = "up", NEW a \in Attempts,
         status[a] = "Absent", status' = [status EXCEPT ![a] = "Prepared"],
         order' = Append(order, a), Return(StartSteps(a)), active = None, NoLaunch,
         UNCHANGED <<turnsStarted, dispatchReady, callVars, binding, activeVars, taskVars, worldVars>>
  PROVE  EffectFacts'
<1> USE DEF EffectFacts, activeVars, taskVars, worldVars, callVars
<1>0. TypeOK
  BY DEF IInv
<1>1. Head(todo') = <<"configure", a>>
  BY DEF Return, StartSteps
<1>2. AttemptStages' /\ CallStages'
  BY <1>0, <1>1 DEF AttemptStages, CallStages, Now, TypeOK
<1>3. \A b \in Attempts : PendingBindings(b)' = PendingBindings(b) /\ CallsSettled(b)' = CallsSettled(b)
  BY DEF PendingBindings, NextTurn, CallsSettled, CallsOf
<1>4. AttemptFacts'
  BY <1>0, <1>3 DEF AttemptFacts, Live, TypeOK
<1>5. RequestFacts'
  BY <1>0 DEF RequestFacts, TypeOK
<1>6. CallFacts'
  BY CallsKept
<1>7. RecoveryFacts'
  BY <1>0, OrderGrows
<1> QED
  BY <1>2, <1>4, <1>5, <1>6, <1>7

\* Intents of the user.
LEMMA IntentFacts ==
  ASSUME IInv, Control, EffectFacts, UserIntent
  PROVE  EffectFacts'
<1> USE DEF EffectFacts, boundVars, activeVars, taskVars, worldVars, coordVars, LogOnly, vars, sessionVars,
            attemptVars, callVars, Commit, MoveAttempt, MoveCall, SettleCall, AttemptIn, CallIn
<1>0. TypeOK /\ CoordTypeOK
  BY DEF IInv, Control
<1>i. Idle => phase = "up" /\ NoLaunch
  BY DEF Idle, NoLaunch, Now
<1>1. ASSUME CreateOrSelect \/ EditSession PROVE EffectFacts'
  <2>1. /\ phase = "up" /\ phase' = "up" /\ NoLaunch /\ todo' = <<>>
        /\ UNCHANGED <<order, active, cancelled, taskVars, worldVars>>
    BY <1>1, <1>i DEF CreateOrSelect, EditSession, EditVars, Idle
  <2>2. UNCHANGED <<attemptVars, callVars, binding>>
    BY <1>1 DEF CreateOrSelect, EditSession, CreateSession, RenameSession, ArchiveSession,
                UnarchiveSession, SelectModel
  <2>3. AttemptFacts' /\ RequestFacts' /\ RecoveryFacts'
    BY <2>1, <2>2, AttemptsKept DEF CallsSettled, CallsOf
  <2>4. CallFacts'
    BY <2>1, <2>2, CallsKept
  <2> QED
    BY <2>1, <2>3, <2>4 DEF AttemptStages, CallStages, Now
<1>2. ASSUME NEW i \in Inputs, NEW a \in Attempts, SubmitPrompt(i, a) PROVE EffectFacts'
  BY <1>0, <1>2, <1>i, AttemptAppears
     DEF SubmitPrompt, AdmitPromptAndPrepareAttempt, DecideAdmitPromptAndPrepareAttempt, Prepare
<1>3. ASSUME NEW prior \in Attempts, NEW a \in Attempts, RetryAttempt(prior, a) PROVE EffectFacts'
  BY <1>0, <1>3, <1>i, AttemptAppears DEF RetryAttempt, PrepareAttempt, DecidePrepareAttempt, Prepare
<1>4. ASSUME NEW a \in Attempts, Cancel(a) PROVE EffectFacts'
  <2>1. /\ phase = "up" /\ phase' = "up" /\ NoLaunch /\ active = a
        /\ cancelled' = cancelled \cup {a} /\ UNCHANGED <<order, active, taskVars, worldVars>>
    BY <1>4, <1>i DEF Cancel, Idle
  <2>2. /\ status[a] \in {"InFlight", "AwaitingTools"}
        /\ status' = [status EXCEPT ![a] = "CancellationRequested"]
        /\ UNCHANGED <<turnsStarted, dispatchReady, callVars, binding>>
    BY <1>4 DEF Cancel, RequestAttemptCancellation, DecideRequestAttemptCancellation
  <2>3. AttemptStages' /\ CallStages'
    <3>1. CASE todo' = << <<"cancelCalls", a>> >>
      BY <1>0, <2>1, <2>2, <3>1 DEF AttemptStages, CallStages, Now, TypeOK
    <3>2. CASE todo' = <<>>
      BY <3>2 DEF AttemptStages, CallStages, Now
    <3> QED
      BY <1>4, <3>1, <3>2 DEF Cancel, Return
  <2>4. \A b \in Attempts : PendingBindings(b)' = PendingBindings(b) /\ CallsSettled(b)' = CallsSettled(b)
    BY <2>2 DEF PendingBindings, NextTurn, CallsSettled, CallsOf
  <2>5. AttemptFacts'
    BY <1>0, <2>1, <2>2, <2>4 DEF AttemptFacts, Live, TypeOK
  <2>6. RequestFacts'
    BY <1>0, <2>1, <2>2 DEF RequestFacts, TypeOK
  <2>7. CallFacts'
    BY <2>1, <2>2, CallsKept
  <2>8. RecoveryFacts'
    BY <1>0, <2>1, <2>2, OrderKept DEF TypeOK
  <2> QED
    BY <2>3, <2>5, <2>6, <2>7, <2>8
<1>5. ASSUME NEW c \in Calls, NEW given \in {"AllowOnce", "Deny"}, AnswerPermission(c, given)
      PROVE  EffectFacts'
  <2>1. /\ phase = "up" /\ phase' = "up" /\ NoLaunch
        /\ UNCHANGED <<order, active, cancelled, taskVars, worldVars>>
    BY <1>5, <1>i DEF AnswerPermission, Idle
  <2>2. /\ callStatus[c] = "PermissionPending" /\ answer' = [answer EXCEPT ![c] = given]
        /\ callStatus' = [callStatus EXCEPT ![c] = AnswerStatus(given)]
        /\ AnswerStatus(given) \in {"Authorized", "DeniedPending"}
        /\ given = "AllowOnce" => AnswerStatus(given) = "Authorized"
        /\ UNCHANGED <<attemptVars, callAttempt, binding>>
    BY <1>5 DEF AnswerPermission, AnswerToolPermission, DecideAnswerToolPermission, AnswerStatus
  <2>3. AttemptStages' /\ CallStages'
    <3>1. CASE given = "AllowOnce"
      <4>1. todo' = << <<"startCall", c>>, Resume >>
        BY <1>5, <3>1, ConcatOneOne DEF AnswerPermission, Return, ResumeSteps, Resume
      <4>2. Head(todo') = <<"startCall", c>>
        BY <4>1
      <4> QED
        BY <1>0, <2>2, <3>1, <4>2 DEF AttemptStages, CallStages, Now, TypeOK
    <3>2. CASE given # "AllowOnce"
      <4>1. todo' = << <<"deny", c>>, Resume >>
        BY <1>5, <3>2, ConcatOneOne DEF AnswerPermission, Return, ResumeSteps, Resume
      <4>2. Head(todo') = <<"deny", c>>
        BY <4>1
      <4> QED
        BY <4>2 DEF AttemptStages, CallStages, Now
    <3> QED
      BY <3>1, <3>2
  <2>4. \A b \in Attempts : CallsSettled(b) => CallsSettled(b)'
    BY <1>0, <2>2 DEF CallsSettled, CallsOf, TypeOK, SettledCall
  <2>5. AttemptFacts' /\ RequestFacts' /\ RecoveryFacts'
    BY <2>1, <2>2, <2>4, AttemptsKept
  <2>6. CallFacts'
    BY <1>0, <2>1, <2>2, WaitingCallMoves DEF ToolCallStatus
  <2> QED
    BY <2>3, <2>5, <2>6
<1>6. ASSUME SubmitCredential PROVE EffectFacts'
  <2>1. /\ phase = "up" /\ phase' = "up" /\ NoLaunch /\ todo' = <<Resume>>
        /\ UNCHANGED <<vars, order, active, cancelled, taskVars, worldVars>>
    BY <1>6, <1>i DEF SubmitCredential, Idle, Return, ResumeSteps, Resume
  <2>2. AttemptFacts' /\ RequestFacts' /\ RecoveryFacts'
    BY <2>1, AttemptsKept DEF CallsSettled, CallsOf
  <2>3. CallFacts'
    BY <2>1, CallsKept
  <2> QED
    BY <2>1, <2>2, <2>3 DEF AttemptStages, CallStages, Now, Resume
<1> QED
  BY <1>1, <1>2, <1>3, <1>4, <1>5, <1>6 DEF UserIntent

\* Streams and tool results. A stream that closes changes nothing but itself.
LEMMA StreamCloses ==
  ASSUME CoordTypeOK, AttemptFacts, RequestFacts, RecoveryFacts, phase = "up", phase' = "up",
         NEW a \in Attempts, stream' \in {stream, [stream EXCEPT ![a] = "closed"]},
         UNCHANGED <<status, turnsStarted, dispatchReady, callVars, binding, sent, order, active, cancelled>>
  PROVE  AttemptFacts' /\ RequestFacts' /\ RecoveryFacts'
<1> USE DEF CoordTypeOK, callVars
<1>1. AttemptFacts'
  BY DEF AttemptFacts, Live, PendingBindings, NextTurn, CallsSettled, CallsOf
<1>2. RequestFacts'
  BY DEF RequestFacts
<1> QED
  BY <1>1, <1>2, OrderKept

\* The handlers that settle a run start with the active attempt.
LEMMA SettlingStage ==
  ASSUME NEW a \in Attempts, active' = a, Return(FailSteps(a)) \/ Return(AbortSteps(a))
  PROVE  AttemptStages' /\ CallStages'
<1>1. Head(todo') = <<"settle", a>>
  <2>1. CASE todo' = << <<"settle", a>>, <<"fail", a>> >>
    BY <2>1
  <2>2. CASE todo' = << <<"settle", a>>, <<"abort", a>> >>
    BY <2>2
  <2> QED
    BY <2>1, <2>2 DEF Return, FailSteps, AbortSteps
<1> QED
  BY <1>1 DEF AttemptStages, CallStages, Now

\* Events of a provider stream.
LEMMA StreamFacts ==
  ASSUME IInv, Control, EffectFacts, NEW a \in Attempts, StreamStep(a)
  PROVE  EffectFacts'
<1> USE DEF EffectFacts, boundVars, activeVars, taskVars, worldVars, vars, sessionVars, StreamVars, Close,
            attemptVars, callVars, Commit, MoveAttempt, MoveCall, SettleCall, AttemptIn, CallIn
<1>0. TypeOK /\ CoordTypeOK
  BY DEF IInv, Control
<1>i. /\ phase = "up" /\ phase' = "up" /\ todo = <<>> /\ NoLaunch
      /\ UNCHANGED <<order, cancelled, runner, worldVars>>
  BY DEF StreamStep, StreamEnds, StreamOutput, StreamCall, StreamPaused, StreamCompleted,
         StreamEnded, StreamDropped, Idle, NoLaunch, Now
<1>f. ASSUME active = a, UNCHANGED <<vars, active>>, Return(FailSteps(a)) \/ Return(AbortSteps(a)),
             stream' \in {stream, [stream EXCEPT ![a] = "closed"]}
      PROVE  EffectFacts'
  BY <1>0, <1>i, <1>f, SettlingStage, StreamCloses, CallsKept
\* a run that is over when its stream is
<1>s. ASSUME NEW s \in SettledAttempt, status[a] \notin SettledAttempt \cup {"Absent"}, active' = None,
             status' = [status EXCEPT ![a] = s], stream' = [stream EXCEPT ![a] = "closed"],
             UNCHANGED <<todo, turnsStarted, dispatchReady, callVars, binding>>
      PROVE  EffectFacts'
  <2>1. AttemptFacts' /\ RequestFacts' /\ RecoveryFacts'
    BY <1>0, <1>i, <1>s, NoneAssumption, AttemptSettles
  <2>2. CallFacts'
    BY <1>i, <1>s, CallsKept
  <2> QED
    BY <1>i, <1>s, <2>1, <2>2 DEF AttemptStages, CallStages, Now
<1>c. ASSUME CancelIfSettled(a), stream' = [stream EXCEPT ![a] = "closed"], UNCHANGED todo
      PROVE  EffectFacts'
  <2>1. CASE CancelAttempt(a) /\ active' = None
    BY <1>s, <1>c, <2>1 DEF CancelAttempt, DecideCancelAttempt, SettledAttempt
  <2>2. CASE UNCHANGED <<vars, active>>
    <3>1. AttemptFacts' /\ RequestFacts' /\ RecoveryFacts' /\ CallFacts'
      BY <1>0, <1>i, <1>c, <2>2, StreamCloses, CallsKept
    <3> QED
      BY <1>i, <1>c, <3>1 DEF AttemptStages, CallStages, Now
  <2> QED
    BY <1>c, <2>1, <2>2 DEF CancelIfSettled
<1>1. ASSUME StreamOutput(a) PROVE EffectFacts'
  <2>1. CASE RecordOutput(a) /\ UNCHANGED todo
    <3>1. UNCHANGED <<attemptVars, callVars, binding, active, stream>>
      BY <1>1, <2>1 DEF RecordOutput, StreamOutput
    <3>2. AttemptFacts' /\ RequestFacts' /\ RecoveryFacts' /\ CallFacts'
      BY <1>0, <1>i, <3>1, StreamCloses, CallsKept
    <3> QED
      BY <1>i, <2>1, <3>2 DEF AttemptStages, CallStages, Now
  <2> QED
    BY <1>1, <1>f, <2>1 DEF StreamOutput
<1>2. ASSUME NEW c \in Calls, StreamCall(a, c) PROVE EffectFacts'
  <2>1. /\ active = a /\ active' = a /\ Live(a) /\ status[a] # "CancellationRequested"
        /\ stream' = [stream EXCEPT ![a] = "called"]
    BY <1>2 DEF StreamCall
  <2>2. a \notin dispatchReady /\ status[a] = "InFlight"
    BY <1>0, <2>1, NoneAssumption DEF AttemptFacts
  <2>3. ASSUME UNCHANGED <<status, turnsStarted, dispatchReady, binding>>,
               \A b \in Attempts \ {a} : CallsSettled(b)' = CallsSettled(b)
        PROVE  AttemptFacts' /\ RequestFacts' /\ RecoveryFacts'
    <3>1. AttemptFacts'
      BY <1>0, <1>i, <2>1, <2>2, <2>3 DEF AttemptFacts, Live, PendingBindings, NextTurn, CoordTypeOK
    <3>2. RequestFacts'
      BY <1>0, <1>i, <2>1, <2>2, <2>3 DEF RequestFacts, CoordTypeOK
    <3> QED
      BY <1>i, <2>3, <3>1, <3>2, OrderKept
  <2>4. CASE ProposeToolCall(c, a) /\ Return(<< <<"permission", c>> >>)
    <3>1. /\ UNCHANGED <<attemptVars, binding>> /\ callStatus[c] = "Absent"
          /\ callStatus' = [callStatus EXCEPT ![c] = "Proposed"]
          /\ callAttempt' = [callAttempt EXCEPT ![c] = a]
      BY <2>4 DEF ProposeToolCall, DecideProposeToolCall
    <3>2. callAttempt[c] = None
      BY <3>1 DEF IInv, Provenance
    <3>3. \A b \in Attempts \ {a} : CallsSettled(b)' = CallsSettled(b)
      BY <1>0, <3>1, <3>2, NoneAssumption DEF CallsSettled, CallsOf, TypeOK
    <3>4. AttemptFacts' /\ RequestFacts' /\ RecoveryFacts'
      BY <2>3, <3>1, <3>3
    <3>5. CallFacts'
      BY <1>0, <1>i, <3>1, WaitingCallMoves DEF ToolCallStatus
    <3>6. Head(todo') = <<"permission", c>>
      BY <2>4 DEF Return
    <3>7. AttemptStages' /\ CallStages'
      BY <1>0, <2>2, <3>1, <3>6 DEF AttemptStages, CallStages, Now, TypeOK
    <3> QED
      BY <3>4, <3>5, <3>7
  <2>5. CASE UNCHANGED vars /\ (Return(FailSteps(a)) \/ Return(AbortSteps(a)))
    <3>1. AttemptFacts' /\ RequestFacts' /\ RecoveryFacts'
      BY <2>3, <2>5 DEF CallsSettled, CallsOf
    <3> QED
      BY <1>i, <2>1, <2>5, <3>1, SettlingStage, CallsKept
  <2> QED
    BY <1>2, <2>4, <2>5 DEF StreamCall
<1>3. ASSUME StreamPaused(a) PROVE EffectFacts'
  <2>1. CASE PauseAttemptForTools(a) /\ Return(ResumeSteps) /\ UNCHANGED active
    <3>1. /\ status[a] = "InFlight" /\ a \notin dispatchReady
          /\ status' = [status EXCEPT ![a] = "AwaitingTools"]
          /\ UNCHANGED <<turnsStarted, dispatchReady, callVars, binding>>
          /\ stream' = [stream EXCEPT ![a] = "closed"] /\ active = a /\ todo' = <<Resume>>
      BY <1>3, <2>1 DEF StreamPaused, PauseAttemptForTools, DecidePauseAttemptForTools, Return,
                        ResumeSteps, Resume
    <3>2. \A b \in Attempts : PendingBindings(b)' = PendingBindings(b) /\ CallsSettled(b)' = CallsSettled(b)
      BY <3>1 DEF PendingBindings, NextTurn, CallsSettled, CallsOf
    <3>3. AttemptFacts'
      BY <1>0, <1>i, <2>1, <3>1, <3>2 DEF AttemptFacts, Live, TypeOK, CoordTypeOK
    <3>4. RequestFacts'
      BY <1>0, <1>i, <3>1 DEF RequestFacts, TypeOK, CoordTypeOK
    <3>5. CallFacts'
      BY <1>i, <3>1, CallsKept
    <3>6. RecoveryFacts'
      BY <1>0, <1>i, <3>1, OrderKept DEF TypeOK
    <3> QED
      BY <3>1, <3>3, <3>4, <3>5, <3>6 DEF AttemptStages, CallStages, Now, Resume
  <2> QED
    BY <1>3, <1>c, <2>1 DEF StreamPaused
<1>4. ASSUME StreamCompleted(a) PROVE EffectFacts'
  <2>1. CASE CompleteAttempt(a) /\ active' = None /\ UNCHANGED todo
    BY <1>4, <1>s, <2>1 DEF StreamCompleted, CompleteAttempt, DecideCompleteAttempt, SettledAttempt
  <2>2. ASSUME NEW advised \in BOOLEAN, FailAttempt(a, advised), active' = None, UNCHANGED todo
        PROVE  EffectFacts'
    BY <1>4, <1>s, <2>2 DEF StreamCompleted, FailAttempt, DecideFailAttempt, SettledAttempt
  <2> QED
    BY <1>4, <1>f, <2>1, <2>2 DEF StreamCompleted
<1>5. ASSUME StreamEnded(a) PROVE EffectFacts'
  BY <1>5, <1>c, <1>f DEF StreamEnded
<1>6. ASSUME StreamDropped(a) PROVE EffectFacts'
  <2>1. AttemptFacts' /\ RequestFacts' /\ RecoveryFacts' /\ CallFacts'
    BY <1>0, <1>i, <1>6, StreamCloses, CallsKept DEF StreamDropped
  <2> QED
    BY <1>i, <1>6, <2>1 DEF StreamDropped, AttemptStages, CallStages, Now
<1> QED
  BY <1>1, <1>2, <1>3, <1>4, <1>5, <1>6 DEF StreamStep, StreamEnds

\* The result of a tool.
LEMMA ToolResultFacts ==
  ASSUME IInv, Control, EffectFacts, NEW c \in Calls, ToolResult(c)
  PROVE  EffectFacts'
<1> USE DEF EffectFacts, boundVars, activeVars, taskVars, worldVars, vars, sessionVars,
            attemptVars, callVars, Commit, MoveCall, SettleCall, CallIn
<1>0. TypeOK /\ CoordTypeOK
  BY DEF IInv, Control
<1>1. /\ phase = "up" /\ phase' = "up" /\ todo = <<>> /\ NoLaunch /\ runner[c] # None
      /\ runner' = [runner EXCEPT ![c] = None]
      /\ UNCHANGED <<order, active, cancelled, stream, worldVars>>
  BY DEF ToolResult, Idle, NoLaunch, Now
<1>2. CASE callStatus[c] # "Running" /\ UNCHANGED <<vars, todo>>
  <2>1. AttemptFacts' /\ RequestFacts' /\ RecoveryFacts'
    BY <1>1, <1>2, AttemptsKept DEF CallsSettled, CallsOf
  <2>2. CallFacts'
    BY <1>0, <1>1, <1>2 DEF CallFacts, NoLaunch, CoordTypeOK
  <2> QED
    BY <1>1, <1>2, <2>1, <2>2 DEF AttemptStages, CallStages, Now
<1>3. ASSUME MarkToolCallUnknown(c) \/ CompleteToolCall(c),
             todo' \in {<<Resume>>, << <<"afterTool", None>> >>, AbortSteps(callAttempt[c])}
      PROVE  EffectFacts'
  <2>1. PICK s \in {"Unknown", "Completed"} :
           callStatus[c] = "Running" /\ callStatus' = [callStatus EXCEPT ![c] = s]
    BY <1>3 DEF MarkToolCallUnknown, CompleteToolCall, DecideSettleRunningCall
  <2>2. UNCHANGED <<attemptVars, callAttempt, binding>>
    BY <1>3 DEF MarkToolCallUnknown, CompleteToolCall
  <2>3. c \notin committed
    BY <1>1, <2>1 DEF CallFacts, NoLaunch
  <2>4. AttemptFacts' /\ RequestFacts' /\ RecoveryFacts'
    BY <1>0, <1>1, <2>1, <2>2, SettlingKeepsSettled, AttemptsKept DEF SettledCall
  <2>5. CallFacts'
    BY <1>0, <1>1, <2>1, <2>3, RunningCallSettles DEF SettledCall, NoLaunch
  <2>6. AttemptStages' /\ CallStages'
    <3>1. CASE todo' = <<Resume>>
      BY <3>1 DEF AttemptStages, CallStages, Now, Resume
    <3>2. CASE todo' = << <<"afterTool", None>> >>
      BY <3>2 DEF AttemptStages, CallStages, Now
    <3>3. CASE todo' = AbortSteps(callAttempt[c])
      <4>1. /\ Head(todo') = <<"settle", callAttempt[c]>>
            /\ Tail(todo') = << <<"abort", callAttempt[c]>> >>
        BY <3>3 DEF AbortSteps
      <4>2. \A a \in Attempts : << <<"abort", callAttempt[c]>> >> # << <<"fail", a>> >>
        OBVIOUS
      <4> QED
        BY <4>1, <4>2 DEF AttemptStages, CallStages, Now
    <3> QED
      BY <1>3, <3>1, <3>2, <3>3
  <2> QED
    BY <2>4, <2>5, <2>6
<1> QED
  BY <1>2, <1>3 DEF ToolResult, Return, ResumeSteps, Resume

\* What recovery still has to do is not lost when a step is taken off.
LEMMA ToRecoverTail ==
  ASSUME NEW S, todo \in Seq(S), todo # <<>>, todo' = Tail(todo), NEW a,
         ToRecover(a), Head(todo) # <<"recoverAttempt", a>>
  PROVE  ToRecover(a)'
<1>1. PICK n \in DOMAIN todo : todo[n] = <<"recoverAttempt", a>>
  BY DEF ToRecover
<1>2. Len(todo) \in Nat /\ n \in 1 .. Len(todo) /\ n # 1
  BY <1>1
<1>3. DOMAIN Tail(todo) = 1 .. Len(todo) - 1 /\ n - 1 \in 1 .. Len(todo) - 1
  BY <1>2
<1>4. Tail(todo)[n - 1] = todo[n]
  BY <1>2, <1>3
<1> QED
  BY <1>1, <1>3, <1>4 DEF ToRecover

\* The catalog, crashes and restarts.
LEMMA ProcessFacts ==
  ASSUME IInv, Control, EffectFacts, CatalogStep \/ Crash \/ Restart
  PROVE  EffectFacts'
<1> USE DEF EffectFacts, boundVars, activeVars, taskVars, worldVars, LogOnly, vars, sessionVars,
            attemptVars, callVars
<1>0. TypeOK /\ CoordTypeOK /\ QuietUnlessUp
  BY DEF IInv, Control
<1>1. ASSUME CatalogRefused PROVE EffectFacts'
  <2>1. /\ phase = "up" /\ phase' = "up" /\ NoLaunch /\ todo' = <<>>
        /\ UNCHANGED <<vars, order, active, cancelled, taskVars, worldVars>>
    BY <1>1 DEF CatalogRefused, Idle, NoLaunch, Now
  <2>2. AttemptFacts' /\ RequestFacts' /\ RecoveryFacts' /\ CallFacts'
    BY <2>1, AttemptsKept, CallsKept DEF CallsSettled, CallsOf
  <2> QED
    BY <2>1, <2>2 DEF AttemptStages, CallStages, Now
<1>2. ASSUME NEW a \in Attempts, ResumeBound(a) PROVE EffectFacts'
  <2>1. /\ phase = "up" /\ phase' = "up" /\ NoLaunch /\ active = None
        /\ UNCHANGED <<order, activeVars, taskVars, worldVars>>
    BY <1>2 DEF ResumeBound, Idle, NoLaunch, Now
  <2>2. StartRunTurn(a) /\ status[a] = "InFlight" /\ a \in dispatchReady
    BY <1>2 DEF ResumeBound, StartRunTurn, DecideStartRunTurn, AttemptIn
  <2>3. AttemptFacts' /\ RequestFacts' /\ RecoveryFacts'
    BY <1>0, <2>1, <2>2, TurnStarts
  <2>4. /\ UNCHANGED <<status, callVars>> /\ dispatchReady' = dispatchReady \ {a}
        /\ turnsStarted' = [turnsStarted EXCEPT ![a] = NextTurn(a)]
    BY <2>2 DEF StartRunTurn
  <2>5. CallsSettled(a) /\ sent[a] <= turnsStarted[a]
    BY <2>2 DEF AttemptFacts, RequestFacts
  <2>6. Head(todo') = <<"spawn", a>>
    BY <1>2 DEF ResumeBound, Return
  <2>7. AttemptStages' /\ CallStages'
    BY <1>0, <2>1, <2>2, <2>4, <2>5, <2>6
       DEF AttemptStages, CallStages, Now, NextTurn, CallsSettled, CallsOf, TypeOK, CoordTypeOK
  <2>8. CallFacts'
    BY <2>1, <2>4, CallsKept
  <2> QED
    BY <2>3, <2>7, <2>8
<1>3. ASSUME Crash PROVE EffectFacts'
  BY <1>0, <1>3, EndedFacts DEF Crash
<1>4. ASSUME Restart PROVE EffectFacts'
  <2>1. /\ phase \in {"down", "stopped"} /\ phase' = "recovering"
        /\ UNCHANGED <<vars, order, activeVars, taskVars, worldVars>>
        /\ todo' = << <<"recoverCalls", None>> >> \o [n \in DOMAIN order |-> <<"recoverAttempt", order[n]>>]
    BY <1>4 DEF Restart, Return
  <2>2. order \in Seq(Attempts)
    BY DEF RecoveryFacts
  <2>3. /\ Head(todo') = <<"recoverCalls", None>> /\ todo' # <<>>
        /\ \A n \in DOMAIN order : n + 1 \in DOMAIN todo' /\ todo'[n + 1] = <<"recoverAttempt", order[n]>>
    BY <2>1, <2>2, RecoverySequence
  <2>4. AttemptStages' /\ CallStages'
    BY <2>3 DEF AttemptStages, CallStages, Now
  <2>5. AttemptFacts' /\ RequestFacts'
    BY <2>1 DEF AttemptFacts, RequestFacts, Live, PendingBindings, NextTurn, CallsSettled, CallsOf
  <2>6. CallFacts'
    BY <2>1 DEF CallFacts
  <2>7. \A a \in Attempts : status[a] # "Absent" => ToRecover(a)'
    <3> SUFFICES ASSUME NEW a \in Attempts, status[a] # "Absent" PROVE ToRecover(a)'
      OBVIOUS
    <3>1. PICK n \in DOMAIN order : order[n] = a
      BY DEF RecoveryFacts
    <3> QED
      BY <2>3, <3>1 DEF ToRecover
  <2>8. RecoveryFacts'
    BY <2>1, <2>3, <2>7 DEF RecoveryFacts, Now
  <2> QED
    BY <2>4, <2>5, <2>6, <2>8
<1> QED
  BY <1>1, <1>2, <1>3, <1>4 DEF CatalogStep

\* Startup recovery: settling what was interrupted.
LEMMA RecoveringFacts ==
  ASSUME IInv, Control, EffectFacts, RecoverCalls \/ \E a \in Attempts : RecoverAttempt(a)
  PROVE  EffectFacts'
<1> USE DEF EffectFacts, boundVars, activeVars, taskVars, worldVars, LogOnly, vars, sessionVars,
            attemptVars, callVars, MoveAttempt, MoveCall, SettleCall, AttemptIn, CallIn
<1>0. TypeOK /\ CoordTypeOK /\ QuietUnlessUp
  BY DEF IInv, Control
<1>1. ASSUME RecoverCalls PROVE EffectFacts'
  <2>1. phase = "recovering" /\ todo \in Seq(RecoverySteps) /\ todo # <<>> /\ Now("recoverCalls", None)
    BY <1>0, <1>1, RecoveryIsRecovering DEF RecoverCalls, Control
  <2>2. UNCHANGED <<phase, order, activeVars, taskVars, worldVars>>
    BY <1>1 DEF RecoverCalls
  <2>3. ASSUME NEW c \in Calls, RecoverCall(c), UNCHANGED todo PROVE EffectFacts'
    <3>1. UNCHANGED <<attemptVars, callAttempt, binding>>
      BY <2>3 DEF RecoverCall, CompleteToolCall, MarkToolCallUnknown, DenyToolCall, CancelToolCall
    <3>2. \/ callStatus[c] = "Running" /\ c \in committed /\ callStatus' = [callStatus EXCEPT ![c] = "Completed"]
          \/ callStatus[c] = "Running" /\ c \notin committed /\ callStatus' = [callStatus EXCEPT ![c] = "Unknown"]
          \/ callStatus[c] = "DeniedPending" /\ callStatus' = [callStatus EXCEPT ![c] = "Denied"]
          \/ /\ callStatus[c] \in {"Proposed", "Authorized", "PermissionPending"}
             /\ callStatus' = [callStatus EXCEPT ![c] = "Cancelled"]
      BY <2>3 DEF RecoverCall, CompleteToolCall, MarkToolCallUnknown, DenyToolCall, CancelToolCall
    <3>3. \A b \in Attempts : CallsSettled(b) => CallsSettled(b)'
      BY <1>0, <3>1, <3>2, SettlingKeepsSettled DEF SettledCall
    <3>4. AttemptStages' /\ CallStages'
      BY <2>1, <2>3 DEF AttemptStages, CallStages, Now
    <3>5. AttemptFacts'
      BY <2>1, <2>2, <3>1, <3>3 DEF AttemptFacts, Live, PendingBindings, NextTurn, CallsSettled, CallsOf
    <3>6. RequestFacts'
      BY <2>1, <2>2, <3>1 DEF RequestFacts
    <3>7. CallFacts'
      BY <1>0, <2>1, <2>2, <3>2 DEF CallFacts, TypeOK
    <3>8. RecoveryFacts'
      BY <2>1, <2>2, <2>3, <3>1 DEF RecoveryFacts, ToRecover, PendingBindings, NextTurn, Now
    <3> QED
      BY <3>4, <3>5, <3>6, <3>7, <3>8
  <2>4. ASSUME UNCHANGED vars, Done,
               \A c \in Calls : callStatus[c] \in SettledCall \cup {"Absent"} \/ KeepsAsking(c)
        PROVE  EffectFacts'
    <3>1. todo' = Tail(todo) /\ Tail(todo) \in Seq(RecoverAttemptSteps)
      BY <2>1, <2>4, DoneTail DEF Control, HandlerType
    <3>2. AttemptStages' /\ CallStages'
      <4>1. todo' # <<>> => Head(todo') \in RecoverAttemptSteps
        BY <3>1
      <4> QED
        BY <4>1 DEF RecoverAttemptSteps, AttemptStages, CallStages, Now
    <3>3. AttemptFacts'
      BY <2>1, <2>2, <2>4 DEF AttemptFacts, Live, PendingBindings, NextTurn, CallsSettled, CallsOf
    <3>4. RequestFacts' /\ CallFacts'
      BY <2>1, <2>2, <2>4 DEF RequestFacts, CallFacts
    <3>5. \A a \in Attempts : ToRecover(a) => ToRecover(a)'
      BY <2>1, <3>1, ToRecoverTail DEF Now
    <3>6. RecoveryFacts'
      BY <2>1, <2>2, <2>4, <3>5 DEF RecoveryFacts, PendingBindings, NextTurn, KeepsAsking
    <3> QED
      BY <3>2, <3>3, <3>4, <3>6
  <2> QED
    BY <1>1, <2>3, <2>4 DEF RecoverCalls
<1>2. ASSUME NEW a \in Attempts, RecoverAttempt(a) PROVE EffectFacts'
  <2>1. phase = "recovering" /\ todo \in Seq(RecoverySteps) /\ todo # <<>> /\ Now("recoverAttempt", a)
    BY <1>0, <1>2, RecoveryIsRecovering DEF RecoverAttempt, Control
  <2>2. UNCHANGED <<phase, order, activeVars, taskVars, worldVars>>
    BY <1>2 DEF RecoverAttempt
  <2>3. todo' = Tail(todo) /\ Tail(todo) \in Seq(RecoverAttemptSteps)
    BY <1>2, <2>1, DoneTail DEF RecoverAttempt, Control, HandlerType
  <2>4. AttemptStages' /\ CallStages'
    <3>1. todo' # <<>> => Head(todo') \in RecoverAttemptSteps
      BY <2>3
    <3> QED
      BY <3>1 DEF RecoverAttemptSteps, AttemptStages, CallStages, Now
  <2>5. \A b \in Attempts \ {a} : ToRecover(b) => ToRecover(b)'
    BY <2>1, <2>3, ToRecoverTail DEF Now
  <2>6. ~Now("recoverCalls", None)
    BY <2>1 DEF Now
  <2>7. CASE UNCHANGED vars
    <3>1. AttemptFacts'
      BY <2>1, <2>2, <2>7 DEF AttemptFacts, Live, PendingBindings, NextTurn, CallsSettled, CallsOf
    <3>2. RequestFacts' /\ CallFacts'
      BY <2>1, <2>2, <2>7 DEF RequestFacts, CallFacts
    <3>3. status[a] \in SettledAttempt \cup {"AwaitingTools"} \/ (status[a] = "InFlight" /\ PendingBindings(a) # {})
      BY <1>0, <1>2, <2>7 DEF RecoverAttempt, ExactPendingContext, FailAttempt, MarkAttemptUnknown, Commit, TypeOK
    <3>4. RecoveryFacts'
      BY <1>0, <2>1, <2>2, <2>5, <2>6, <2>7, <3>3
         DEF RecoveryFacts, PendingBindings, NextTurn, KeepsAsking, SettledAttempt
    <3> QED
      BY <2>4, <3>1, <3>2, <3>4
  <2>8. ASSUME NEW s \in {"Failed", "Unknown"}, status' = [status EXCEPT ![a] = s],
               UNCHANGED <<turnsStarted, dispatchReady, callVars, binding>>,
               status[a] \in {"Prepared", "InFlight", "AwaitingTools", "CancellationRequested"},
               s = "Unknown" \/ stream[a] # "lost"
        PROVE  EffectFacts'
    <3>1. \A b \in Attempts : PendingBindings(b)' = PendingBindings(b) /\ CallsSettled(b)' = CallsSettled(b)
      BY <2>8 DEF PendingBindings, NextTurn, CallsSettled, CallsOf
    <3>2. AttemptFacts'
      BY <1>0, <2>1, <2>2, <2>8, <3>1 DEF AttemptFacts, Live, TypeOK, QuietUnlessUp
    <3>3. RequestFacts'
      BY <1>0, <2>1, <2>2, <2>8 DEF RequestFacts, TypeOK
    <3>4. CallFacts'
      BY <2>1, <2>2, <2>8 DEF CallFacts
    <3>5. \A c \in Calls : KeepsAsking(c) => KeepsAsking(c)'
      BY <1>0, <2>8 DEF KeepsAsking, TypeOK
    <3>6. \A n \in DOMAIN order : order[n] \in Attempts
      BY DEF RecoveryFacts
    <3>7. RecoveryFacts'
      BY <1>0, <2>1, <2>2, <2>5, <2>6, <2>8, <3>1, <3>5, <3>6 DEF RecoveryFacts, TypeOK
    <3> QED
      BY <2>4, <3>2, <3>3, <3>4, <3>7
  <2>9. CASE InterruptedBeforeDispatch(a) /\ FailAttempt(a, TRUE)
    <3>1. stream[a] # "lost"
      BY <1>0, <2>9 DEF InterruptedBeforeDispatch, RequestFacts, AttemptFacts, TypeOK
    <3> QED
      BY <2>8, <2>9, <3>1 DEF FailAttempt, DecideFailAttempt
  <2>10. CASE MarkAttemptUnknown(a)
    BY <2>8, <2>10 DEF MarkAttemptUnknown, DecideMarkAttemptUnknown
  <2> QED
    BY <1>2, <2>7, <2>9, <2>10 DEF RecoverAttempt
<1> QED
  BY <1>1, <1>2

\* The end of the recovery.
LEMMA BootFacts ==
  ASSUME IInv, Control, EffectFacts, NEW mode \in RestartModes, Boot(mode)
  PROVE  EffectFacts'
<1> USE DEF EffectFacts, taskVars, worldVars, boundVars, vars, attemptVars, callVars
<1>0. TypeOK /\ CoordTypeOK /\ QuietUnlessUp
  BY DEF IInv, Control
<1>1. /\ phase = "recovering" /\ phase' = "up" /\ todo = <<>>
      /\ UNCHANGED <<vars, order, cancelled, taskVars, sent, ran, committed>>
  BY DEF Boot
<1>2. active' \in Attempts \cup {None} /\ (active' # None => status[active'] = "AwaitingTools")
  BY NewestIsPaused DEF Boot
<1>3. AttemptStages' /\ CallStages'
  <2>1. CASE todo' = <<>>
    BY <2>1 DEF AttemptStages, CallStages, Now
  <2>2. CASE todo' = <<Resume>>
    BY <2>2 DEF AttemptStages, CallStages, Now, Resume
  <2> QED
    BY <2>1, <2>2 DEF Boot, Return, ResumeSteps, Resume
<1>4. \A a \in Attempts :
         /\ status[a] \notin {"Prepared", "CancellationRequested"}
         /\ status[a] = "InFlight" => PendingBindings(a) # {}
  BY <1>1 DEF RecoveryFacts, ToRecover
<1>5. AttemptFacts'
  BY <1>0, <1>1, <1>2, <1>4 DEF AttemptFacts, QuietUnlessUp, Live, PendingBindings, NextTurn, CallsSettled, CallsOf
<1>6. RequestFacts'
  BY <1>1, <1>4 DEF RequestFacts, AttemptFacts
<1>7. \A c \in Calls : callStatus[c] # "Running"
  BY <1>1 DEF RecoveryFacts, Now, KeepsAsking, SettledCall
<1>8. CallFacts'
  BY <1>1, <1>7 DEF CallFacts
<1>9. RecoveryFacts'
  BY <1>1, OrderKept
<1> QED
  BY <1>3, <1>5, <1>6, <1>8, <1>9

\* The first process satisfies the control and the effect facts.
LEMMA EffectInit ==
  ASSUME CoordInit
  PROVE  Control /\ EffectFacts
<1> USE DEF CoordInit, Init
<1>1. CoordTypeOK
  <2>1. slots \in 0 .. MaxConcurrency
    BY BoundsAssumption
  <2>2. provider \in BOOLEAN
    BY ProviderAssumption
  <2> QED
    BY <2>1, <2>2 DEF CoordTypeOK
<1>2. BoundsType /\ HandlerType /\ QuietUnlessUp
  BY DEF BoundsType, HandlerType, UpHandler, QuietUnlessUp
<1>3. AttemptStages /\ CallStages
  BY DEF AttemptStages, CallStages, Now
<1>4. AttemptFacts
  BY NoneAssumption DEF AttemptFacts, Live, PendingBindings, Unbound
<1>5. RequestFacts /\ CallFacts
  BY DEF RequestFacts, CallFacts
<1>6. RecoveryFacts
  BY DEF RecoveryFacts
<1> QED
  BY <1>1, <1>2, <1>3, <1>4, <1>5, <1>6 DEF Control, EffectFacts

-----------------------------------------------------------------------------
(* The effect theorems.                                                    *)

EffectIInv == IInv /\ Control /\ EffectFacts

\* Every step of the coordinator is a step of the session.
LEMMA CoordRefines ==
  ASSUME TypeOK, CoordTypeOK, [CoordNext]_allVars
  PROVE  [Next]_vars
<1>1. CASE UNCHANGED allVars
  BY <1>1 DEF allVars
<1>2. CASE CoordNext
  BY <1>2, HandlerRefines, IntentRefines, TaskRefines, ProcessRefines DEF CoordNext
<1> QED
  BY <1>1, <1>2

\* The effect invariant is inductive.
LEMMA EffectStep ==
  ASSUME EffectIInv, [CoordNext]_allVars
  PROVE  EffectIInv'
<1> USE DEF EffectIInv
<1>1. IInv'
  BY CoordRefines, InvariantStep DEF IInv, Control
<1>2. CASE UNCHANGED allVars
  <2> USE <1>2 DEF allVars, vars, sessionVars, attemptVars, callVars, coordVars, activeVars, taskVars,
                   worldVars, boundVars
  <2>1. Control'
    BY DEF Control, CoordTypeOK, BoundsType, HandlerType, UpHandler, QuietUnlessUp, Live
  <2>2. AttemptStages' /\ CallStages'
    BY DEF EffectFacts, AttemptStages, CallStages, Now, CallsSettled, CallsOf
  <2>3. AttemptFacts'
    BY DEF EffectFacts, AttemptFacts, Live, PendingBindings, NextTurn, CallsSettled, CallsOf
  <2>4. RequestFacts' /\ CallFacts'
    BY DEF EffectFacts, RequestFacts, CallFacts, Now
  <2>5. RecoveryFacts'
    BY DEF EffectFacts, RecoveryFacts, ToRecover, PendingBindings, NextTurn, Now, KeepsAsking
  <2> QED
    BY <1>1, <2>1, <2>2, <2>3, <2>4, <2>5 DEF EffectFacts
<1>3. CASE HandlerStep
  <2>1. Control'
    BY <1>3, HandlerControl DEF EffectFacts
  <2>2. EffectFacts'
    BY <1>3, AttemptHandlerFacts, CallHandlerFacts, PausedHandlerFacts DEF HandlerStep
  <2> QED
    BY <1>1, <2>1, <2>2
<1>4. CASE UserIntent
  BY <1>1, <1>4, IntentControl, IntentFacts
<1>5. CASE (\E a \in Attempts : StreamStep(a)) \/ (\E c \in Calls : ToolResult(c))
  BY <1>1, <1>5, TaskControl, StreamFacts, ToolResultFacts
<1>6. CASE CatalogStep \/ Crash \/ Restart \/ RecoveryStep
  <2>1. Control'
    BY <1>6, ProcessControl DEF EffectFacts
  <2>2. EffectFacts'
    BY <1>6, ProcessFacts, RecoveringFacts, BootFacts DEF RecoveryStep
  <2> QED
    BY <1>1, <2>1, <2>2
<1> QED
  BY <1>2, <1>3, <1>4, <1>5, <1>6 DEF CoordNext

\* The inductive invariant of the coordinator, for every restart mode.
THEOREM EffectInvariant == CoordSpec => []EffectIInv
<1>1. CoordInit => EffectIInv
  BY EffectInit, InvariantInit DEF CoordInit, EffectIInv
<1> QED
  BY <1>1, EffectStep, PTL DEF CoordSpec

\* The coordinator implements the session: whatever its handlers, streams,
\* tools, crashes and recoveries do, the log sees only what decide accepts.
\* Every theorem about Spec therefore holds of the coordinator.
THEOREM CoordinatorImplementsSession == CoordSpec => Spec
<1>1. CoordInit => Init
  BY DEF CoordInit
<1>2. EffectIInv /\ [CoordNext]_allVars => [Next]_vars
  BY CoordRefines DEF EffectIInv, IInv, Control
<1> QED
  BY <1>1, <1>2, EffectInvariant, PTL DEF CoordSpec, Spec

\* So the log of a running coordinator is consistent, and its history final.
THEOREM CoordinatorKeepsTheLog == CoordSpec => []AggregateIsConsistent /\ HistoryIsFinal
  BY CoordinatorImplementsSession, AggregateSafe, HistorySafe

\* The coordinator's own state is well formed: in particular the running tools
\* never exceed max_concurrency.
THEOREM CoordTypeCorrect == CoordSpec => []CoordTypeOK
<1>1. EffectIInv => CoordTypeOK
  BY DEF EffectIInv, Control
<1> QED
  BY <1>1, EffectInvariant, PTL

\* No provider request is sent twice for one durable turn, and a request whose
\* outcome was lost with the process ends as Unknown, whatever the number of
\* attempts, calls and crashes.
THEOREM RequestsSafe == CoordSpec => []ProviderRequestsAccounted
<1>1. EffectIInv => ProviderRequestsAccounted
  BY DEF EffectIInv, EffectFacts, RequestFacts, ProviderRequestsAccounted
<1> QED
  BY <1>1, EffectInvariant, PTL

\* A tool runs at most once, never under a record that says it did not run, and
\* every proposal in the memory ledger belongs to a completed or open call.
THEOREM EffectsSafe == CoordSpec => []ToolEffectsAccounted
<1>1. EffectIInv => ToolEffectsAccounted
  BY DEF EffectIInv, EffectFacts, CallFacts, ToolEffectsAccounted
<1> QED
  BY <1>1, EffectInvariant, PTL

-----------------------------------------------------------------------------
(* Owners: the active run, the handler that starts or fails one, recovery, *)
(* or nobody, for a run that open_session stranded.                        *)

Unsettled(a) == status[a] \notin SettledAttempt \cup {"Absent"}
Handles(a) ==
    \E op \in {"configure", "start", "bind", "dispatch", "spawn", "fail"} : Now(op, a)
Dormant(a) == restarts > 0 /\ status[a] = "InFlight" /\ PendingBindings(a) # {}

\* Every unsettled attempt is active, being started or failed, kept by recovery
\* for the next live catalog, or stranded.
Owned ==
    phase = "up" =>
        \A a \in Attempts :
            Unsettled(a) => active = a \/ Handles(a) \/ Dormant(a) \/ a \in stranded

\* recover_active_attempt takes the newest paused attempt: there is no other
\* while none is stranded.
OnePaused ==
    stranded = {} =>
        \A a, b \in Attempts :
            status[a] = "AwaitingTools" /\ status[b] = "AwaitingTools" => a = b

\* A run is settled and aborted while it is the active one, or stranded.
SettlesActive ==
    \A a \in Attempts : Now("settle", a) \/ Now("abort", a) => active = a \/ a \in stranded

\* A stream outside the active run has a cancelled token, and so has a tool task
\* unless its run is stranded; a run is failed when its calls are settled and its
\* stream is over or cancelled.
TokensCancelled ==
    /\ \A a \in Attempts : Live(a) /\ active # a => a \in cancelled
    /\ \A c \in Calls :
          runner[c] # None /\ callAttempt[c] \notin stranded =>
            /\ runner[c] = callAttempt[c]
            /\ runner[c] # active => runner[c] \in cancelled
            /\ runner[c] \notin cancelled => callStatus[c] = "Running"
    /\ \A a \in Attempts :
          Now("fail", a) \/ Now("abort", a) =>
              CallsSettled(a) /\ (a \in cancelled \/ ~Live(a))

\* The budget counts the running calls of the active run it has admitted, until
\* the run is released, and nothing else while no run is stranded.
RunningCalls == {c \in Calls : callStatus[c] = "Running"}
Admitted == {c \in RunningCalls : ~Now("launch", c) /\ callAttempt[c] = active}
Releasing == \E a \in Attempts : Now("settle", a) \/ Now("fail", a) \/ Now("abort", a)
SlotsMatch ==
    /\ IsFiniteSet(RunningCalls)
    /\ active # None /\ ~Releasing =>
          /\ Cardinality(Admitted) <= slots
          /\ stranded = {} => Cardinality(Admitted) = slots

OwnerFacts == Owned /\ OnePaused /\ SettlesActive /\ TokensCancelled /\ SlotsMatch


\* While the process is up, a call that may still run belongs to the active run
\* or to a stranded one.
LEMMA OpenCallIsActive ==
  ASSUME EffectIInv, Owned, TokensCancelled, phase = "up", NEW c \in Calls,
         callStatus[c] \in ToolCallStatus \ SettledCall, callAttempt[c] \notin stranded
  PROVE  active = callAttempt[c] /\ active \in Attempts
<1> USE DEF EffectIInv, EffectFacts
<1> DEFINE a == callAttempt[c]
<1>1. a \in Attempts /\ status[a] \in {"InFlight", "AwaitingTools", "CancellationRequested"}
  BY DEF IInv, SettledAttemptsHaveSettledCalls
<1>2. ~CallsSettled(a)
  BY <1>1 DEF CallsSettled, CallsOf
<1>3. ~Handles(a)
  BY <1>1, <1>2 DEF Handles, AttemptStages, AttemptFacts, TokensCancelled
<1>4. ~Dormant(a)
  BY <1>1, <1>2 DEF Dormant, AttemptFacts
<1> QED
  BY <1>1, <1>3, <1>4 DEF Owned, Unsettled, SettledAttempt

\* In particular a running call does.
LEMMA RunningCallIsActive ==
  ASSUME EffectIInv, Owned, TokensCancelled, phase = "up", NEW c \in Calls, callStatus[c] = "Running",
         callAttempt[c] \notin stranded
  PROVE  active = callAttempt[c] /\ active \in Attempts
  BY OpenCallIsActive DEF ToolCallStatus, SettledCall

\* A step of the running process that leaves the attempts' status, the bindings
\* and the active attempt alone.
LEMMA OwnersKept ==
  ASSUME Owned, OnePaused, phase = "up",
         UNCHANGED <<status, turnsStarted, binding, restarts, active, stranded>>,
         \A a \in Attempts : Handles(a) => active = a \/ Handles(a)'
  PROVE  Owned' /\ OnePaused'
<1>1. \A a \in Attempts : PendingBindings(a)' = PendingBindings(a)
  BY DEF PendingBindings, NextTurn
<1>2. Owned'
  BY <1>1 DEF Owned, Unsettled, Dormant
<1> QED
  BY <1>2 DEF OnePaused

\* A step that settles attempt a; no other run was active or being handled.
LEMMA OwnerSettles ==
  ASSUME TypeOK, Owned, OnePaused, phase = "up", NEW a \in Attempts, NEW s \in SettledAttempt,
         status' = [status EXCEPT ![a] = s], active \in {a, None},
         UNCHANGED <<turnsStarted, binding, restarts, stranded>>,
         \A b \in Attempts \ {a} : ~Handles(b)
  PROVE  Owned' /\ OnePaused'
<1> USE DEF TypeOK
<1>1. \A b \in Attempts : PendingBindings(b)' = PendingBindings(b)
  BY DEF PendingBindings, NextTurn
<1>2. \A b \in Attempts \ {a} : status'[b] = status[b]
  OBVIOUS
<1>3. Owned'
  BY <1>1, <1>2, NoneAssumption DEF Owned, Unsettled, Dormant
<1>4. OnePaused'
  BY <1>2 DEF OnePaused, SettledAttempt
<1> QED
  BY <1>3, <1>4

\* A step that closes no stream and starts no task, settles no call that runs
\* under a live token, and goes on to no failure.
NoRelease == \A a \in Attempts : ~Now("settle", a) /\ ~Now("fail", a) /\ ~Now("abort", a)

\* A step that keeps the active run, the tasks and the tokens.
LEMMA TokensKept ==
  ASSUME TokensCancelled, UNCHANGED <<active, callAttempt, runner, stranded>>,
         \A a \in Attempts : Live(a)' => Live(a),
         cancelled \subseteq cancelled', NoRelease',
         \A c \in Calls : callStatus[c] = "Running" /\ runner[c] # None => callStatus'[c] = "Running"
  PROVE  TokensCancelled' /\ SettlesActive'
  BY DEF TokensCancelled, SettlesActive, NoRelease

\* The active run is released: every task of it has a cancelled token or has
\* settled its call.
LEMMA TokensReleased ==
  ASSUME EffectIInv, CoordTypeOK', TokensCancelled, NEW a \in Attempts, active = a \/ active = None, active' = None,
         UNCHANGED <<callAttempt, callStatus, runner, stranded>>, cancelled \subseteq cancelled', NoRelease',
         \A b \in Attempts : Live(b)' => Live(b),
         Live(a)' => a \in cancelled', CallsSettled(a)
  PROVE  TokensCancelled' /\ SettlesActive'
<1>1. ASSUME NEW c \in Calls, runner'[c] # None, callAttempt'[c] \notin stranded'
      PROVE  /\ runner'[c] = callAttempt'[c] /\ runner'[c] \in cancelled'
  <2>1. runner[c] = callAttempt[c] /\ runner[c] = runner'[c]
    BY <1>1 DEF TokensCancelled
  <2>2. CASE runner[c] = a
    <3>1. callStatus[c] # "Running"
      BY <2>1, <2>2 DEF CallsSettled, CallsOf, SettledCall
    <3> QED
      BY <1>1, <2>1, <2>2, <3>1 DEF TokensCancelled
  <2>3. CASE runner[c] # a
    BY <1>1, <2>1, <2>3, NoneAssumption DEF TokensCancelled
  <2> QED
    BY <2>2, <2>3, <2>1
<1>2. \A b \in Attempts : Live(b)' => b \in cancelled'
  BY NoneAssumption DEF TokensCancelled
<1> QED
  BY <1>1, <1>2 DEF TokensCancelled, SettlesActive, NoRelease

\* The running calls and the slots stay.
LEMMA SlotsKept ==
  ASSUME SlotsMatch, UNCHANGED <<slots, active, stranded>>, Releasing => Releasing',
         RunningCalls' = RunningCalls, Admitted' = Admitted
  PROVE  SlotsMatch'
  BY DEF SlotsMatch

\* The run is being released, or is not active: only finiteness matters.
LEMMA SlotsReleased ==
  ASSUME SlotsMatch, RunningCalls' \subseteq RunningCalls, active' = None \/ Releasing'
  PROVE  SlotsMatch'
  BY FS_Subset DEF SlotsMatch

\* A running call settles and gives its slot back, if it is the active run's.
LEMMA SlotReleased ==
  ASSUME EffectIInv, Owned, TokensCancelled, SlotsMatch, phase = "up", ~Releasing,
         NEW c \in Calls, callStatus[c] = "Running", ~Now("launch", c), slots' = ReleasedSlots(c),
         UNCHANGED <<active, callAttempt, stranded>>, NEW s \in SettledCall, callStatus' = [callStatus EXCEPT ![c] = s],
         \A d \in Calls : ~Now("launch", d) /\ ~Now("launch", d)'
  PROVE  SlotsMatch'
<1>0. TypeOK /\ CoordTypeOK
  BY DEF EffectIInv, IInv, Control
<1>1. IsFiniteSet(RunningCalls) /\ IsFiniteSet(Admitted) /\ Cardinality(Admitted) \in Nat
  BY FS_Subset, FS_CardinalityType DEF SlotsMatch, Admitted
<1>2. RunningCalls' \subseteq RunningCalls /\ IsFiniteSet(RunningCalls')
  <2>1. RunningCalls' \subseteq RunningCalls
    BY <1>0 DEF RunningCalls, SettledCall, TypeOK
  <2> QED
    BY <1>1, <2>1, FS_Subset
<1>3. CASE active = callAttempt[c]
  <2>1. Admitted' = Admitted \ {c} /\ c \in Admitted
    BY <1>0, <1>3 DEF RunningCalls, Admitted, SettledCall, TypeOK
  <2>2. Cardinality(Admitted') = Cardinality(Admitted) - 1
    BY <1>1, <2>1, FS_RemoveElement
  <2>3. Cardinality(Admitted') \in Nat
    BY <1>1, <2>1, FS_RemoveElement, FS_CardinalityType
  <2>4. ASSUME Cardinality(Admitted) <= slots PROVE slots' = slots - 1
    BY <1>0, <1>1, <1>3, <2>2, <2>3, <2>4 DEF ReleasedSlots, CoordTypeOK
  <2>5. slots \in Nat
    BY <1>0, BoundsAssumption DEF CoordTypeOK
  <2>6. active' # None => active # None
    OBVIOUS
  <2> QED
    BY <1>1, <1>2, <2>2, <2>3, <2>4, <2>5, <2>6 DEF SlotsMatch
<1>4. CASE active # callAttempt[c]
  <2>1. Admitted' = Admitted
    BY <1>0, <1>4 DEF RunningCalls, Admitted, SettledCall, TypeOK
  <2>2. slots' = slots
    BY <1>4 DEF ReleasedSlots
  <2> QED
    BY <1>2, <2>1, <2>2 DEF SlotsMatch
<1> QED
  BY <1>3, <1>4

\* A bound turn is started: from here the handler's spawn step owns the run.
LEMMA TurnOwned ==
  ASSUME EffectIInv, OwnerFacts, phase = "up", phase' = "up", NEW a \in Attempts, StartRunTurn(a),
         \A b \in Attempts \ {a} : ~Handles(b), ~Releasing, \A c \in Calls : ~Now("launch", c),
         Now("spawn", a)', UNCHANGED <<active, slots, cancelled, stream, runner, restarts, stranded>>
  PROVE  OwnerFacts'
<1> USE DEF OwnerFacts, StartRunTurn, callVars
<1>0. TypeOK
  BY DEF EffectIInv, IInv
<1>1. Handles(a)' /\ NoRelease' /\ ~Releasing' /\ \A c \in Calls : ~Now("launch", c)'
  BY DEF Handles, NoRelease, Releasing, Now
<1>2. \A b \in Attempts \ {a} : PendingBindings(b)' = PendingBindings(b)
  BY <1>0 DEF PendingBindings, NextTurn, TypeOK
<1>3. Owned' /\ OnePaused'
  BY <1>1, <1>2 DEF Owned, OnePaused, Unsettled, Dormant
<1>4. TokensCancelled' /\ SettlesActive'
  BY <1>1, TokensKept DEF Live
<1>5. RunningCalls' = RunningCalls /\ Admitted' = Admitted
  BY <1>1 DEF RunningCalls, Admitted
<1>6. SlotsMatch'
  BY <1>5, SlotsKept
<1> QED
  BY <1>3, <1>4, <1>6

\* The process ends: nobody is active and nothing runs any more.
LEMMA EndedOwners ==
  ASSUME EffectIInv, OwnerFacts, NEW how \in {"down", "stopped"}, ProcessEnds(how), UNCHANGED <<vars, stranded>>
  PROVE  OwnerFacts'
<1> USE DEF OwnerFacts, ProcessEnds, vars, attemptVars, callVars
<1>0. CoordTypeOK
  BY DEF EffectIInv, Control
<1>1. Owned' /\ OnePaused' /\ SettlesActive'
  BY DEF Owned, OnePaused, SettlesActive, Now
<1>2. \A a \in Attempts : ~Live(a)' /\ ~Now("fail", a)' /\ ~Now("abort", a)'
  BY <1>0 DEF Live, Now, CoordTypeOK
<1>3. TokensCancelled'
  BY <1>2 DEF TokensCancelled
<1>4. SlotsMatch'
  BY DEF SlotsMatch, RunningCalls
<1> QED
  BY <1>1, <1>3, <1>4

\* The steps of a handler.
LEMMA AttemptHandlerOwners ==
  ASSUME EffectIInv, EffectIInv', OwnerFacts, NEW a \in Attempts,
         CancelCalls(a) \/ Configure(a) \/ Start(a) \/ Bind(a) \/ Dispatch(a)
            \/ Spawn(a) \/ Settle(a) \/ Fail(a) \/ Abort(a)
  PROVE  OwnerFacts'
<1> USE DEF OwnerFacts, EffectIInv, EffectFacts, boundVars, activeVars, taskVars, worldVars, LogOnly, vars,
            sessionVars, attemptVars, callVars, Commit, MoveAttempt, MoveCall, SettleCall, AttemptIn, CallIn
<1>0. TypeOK /\ CoordTypeOK /\ CoordTypeOK' /\ Control
  BY DEF IInv, Control
\* the run is failed, whichever handler does it
<1>f. ASSUME NEW s \in SettledAttempt, phase = "up", phase' = "up", todo' = <<>>, status' = [status EXCEPT ![a] = s],
             CallsSettled(a), active \in {a, None}, active' = None, a \in cancelled' \/ ~Live(a),
             cancelled \subseteq cancelled', \A b \in Attempts \ {a} : ~Handles(b),
             UNCHANGED <<turnsStarted, binding, restarts, callVars, runner, stream, stranded>>
      PROVE  OwnerFacts'
  <2>1. Owned' /\ OnePaused'
    BY <1>0, <1>f, OwnerSettles
  <2>2. NoRelease' /\ \A b \in Attempts : Live(b)' = Live(b)
    BY <1>f DEF NoRelease, Now, Live
  <2>3. TokensCancelled' /\ SettlesActive'
    BY <1>0, <1>f, <2>2, TokensReleased
  <2>4. SlotsMatch'
    BY <1>f, SlotsReleased DEF RunningCalls
  <2> QED
    BY <2>1, <2>3, <2>4
<1>1. ASSUME CancelCalls(a) PROVE OwnerFacts'
  <2>1. phase = "up" /\ phase' = "up" /\ Now("cancelCalls", a)
    BY <1>0, <1>1, CancelCallsNext
  <2>2. /\ \A b \in Attempts : ~Handles(b)
        /\ NoRelease /\ ~Releasing /\ \A c \in Calls : ~Now("launch", c)
    BY <2>1 DEF Handles, NoRelease, Releasing, Now
  <2>3. active = a /\ status[a] = "CancellationRequested" /\ a \in cancelled
    BY <2>1 DEF AttemptStages, AttemptFacts
  <2>4. UNCHANGED <<slots, cancelled, stream, runner, restarts, stranded>>
    BY <1>1 DEF CancelCalls
  <2>5. ASSUME UNCHANGED <<status, turnsStarted, binding, active, callAttempt>>, todo' = todo \/ todo' = <<>>,
               \A c \in Calls : callStatus'[c] = "Running" <=> callStatus[c] = "Running"
        PROVE  OwnerFacts'
    <3>1. NoRelease' /\ ~Releasing' /\ \A c \in Calls : ~Now("launch", c)'
      BY <2>2, <2>5 DEF NoRelease, Releasing, Now
    <3>2. Owned' /\ OnePaused'
      BY <2>1, <2>2, <2>4, <2>5, OwnersKept
    <3>3. TokensCancelled' /\ SettlesActive'
      BY <2>4, <2>5, <3>1, TokensKept DEF Live
    <3>4. RunningCalls' = RunningCalls /\ Admitted' = Admitted
      BY <2>2, <2>5, <3>1 DEF RunningCalls, Admitted
    <3>5. SlotsMatch'
      BY <2>2, <2>4, <2>5, <3>4, SlotsKept
    <3> QED
      BY <3>2, <3>3, <3>5
  <2>6. ASSUME NEW c \in UnsettledCalls(a), callStatus[c] # "Running", CancelToolCall(c), UNCHANGED <<todo, active>>
        PROVE  OwnerFacts'
    <3>1. /\ c \in Calls /\ UNCHANGED <<attemptVars, callAttempt, binding>>
          /\ callStatus' = [callStatus EXCEPT ![c] = "Cancelled"]
      BY <2>6 DEF UnsettledCalls, CallsOf, CancelToolCall
    <3> QED
      BY <1>0, <2>5, <2>6, <3>1 DEF TypeOK
  <2>7. Done => todo' = <<>>
    BY <1>0, <1>1, <2>1, HandlerIsUp, DoneTail DEF Control, HandlerOps, AttemptOps, HandlerShape
  <2>8. ASSUME CancelAttempt(a), active' = None, Done PROVE OwnerFacts'
    BY <1>f, <2>1, <2>2, <2>3, <2>4, <2>7, <2>8 DEF CancelAttempt, DecideCancelAttempt, SettledAttempt
  <2> QED
    BY <1>1, <2>5, <2>6, <2>7, <2>8 DEF CancelCalls
<1>2. ASSUME Configure(a) PROVE OwnerFacts'
  <2>1. /\ phase = "up" /\ phase' = "up" /\ Now("configure", a)
        /\ \/ (\E limit \in TurnLimits : ConfigureRunBudget(a, limit)) /\ Now("start", a)'
           \/ (\E advised \in BOOLEAN : FailAttempt(a, advised)) /\ todo' = <<>>
    BY <1>0, <1>2, ConfigureNext
  <2>2. UNCHANGED <<active, slots, cancelled, stream, runner, restarts, stranded>>
    BY <1>2 DEF Configure
  <2>3. /\ \A b \in Attempts \ {a} : ~Handles(b)
        /\ ~Releasing /\ active = None /\ \A c \in Calls : ~Now("launch", c)
    BY <2>1 DEF Handles, Releasing, Now, AttemptStages
  <2>4. CASE (\E limit \in TurnLimits : ConfigureRunBudget(a, limit)) /\ Now("start", a)'
    <3>1. UNCHANGED <<status, turnsStarted, callVars, binding>>
      BY <2>4 DEF ConfigureRunBudget
    <3>2. Handles(a)' /\ NoRelease' /\ \A c \in Calls : ~Now("launch", c)'
      BY <2>4 DEF Handles, NoRelease, Now
    <3>3. Owned' /\ OnePaused'
      BY <2>1, <2>2, <2>3, <3>1, <3>2, OwnersKept
    <3>4. TokensCancelled' /\ SettlesActive'
      BY <2>2, <3>1, <3>2, TokensKept DEF Live
    <3>5. SlotsMatch'
      BY <2>2, <2>3, <3>1, SlotsReleased DEF RunningCalls
    <3> QED
      BY <3>3, <3>4, <3>5
  <2>5. ASSUME NEW advised \in BOOLEAN, FailAttempt(a, advised), todo' = <<>> PROVE OwnerFacts'
    <3>1. a \in cancelled \/ ~Live(a)
      BY <2>3, NoneAssumption DEF TokensCancelled
    <3> QED
      BY <1>f, <2>1, <2>2, <2>3, <2>5, <3>1 DEF FailAttempt, DecideFailAttempt, SettledAttempt
  <2> QED
    BY <2>1, <2>4, <2>5
<1>3. ASSUME Start(a) PROVE OwnerFacts'
  <2>1. phase = "up" /\ phase' = "up" /\ Now("start", a) /\ StartAttempt(a) /\ Now("bind", a)'
    BY <1>0, <1>3, StartNext
  <2>2. UNCHANGED <<active, slots, cancelled, stream, runner, restarts, stranded>>
    BY <1>3 DEF Start
  <2>3. (\A b \in Attempts \ {a} : ~Handles(b)) /\ status[a] = "Prepared" /\ active = None
    BY <2>1 DEF Handles, Now, AttemptStages
  <2>4. status' = [status EXCEPT ![a] = "InFlight"] /\ UNCHANGED <<turnsStarted, callVars, binding>>
    BY <2>1 DEF StartAttempt
  <2>5. Handles(a)' /\ NoRelease'
    BY <2>1 DEF Handles, NoRelease, Now
  <2>6. \A b \in Attempts \ {a} : PendingBindings(b)' = PendingBindings(b) /\ status'[b] = status[b]
    BY <1>0, <2>4 DEF PendingBindings, NextTurn, TypeOK
  <2>7. Owned'
    BY <2>1, <2>2, <2>3, <2>5, <2>6 DEF Owned, Unsettled, Dormant
  <2>8. OnePaused'
    BY <1>0, <2>2, <2>4, <2>6 DEF OnePaused, TypeOK
  <2>9. TokensCancelled' /\ SettlesActive'
    BY <2>2, <2>4, <2>5, TokensKept DEF Live
  <2>10. SlotsMatch'
    BY <2>2, <2>3, <2>4, SlotsReleased DEF RunningCalls
  <2> QED
    BY <2>7, <2>8, <2>9, <2>10
\* a turn that cannot be prepared or sent: the run is failed next
<1>n. ASSUME phase = "up", phase' = "up", Now("bind", a) \/ Now("dispatch", a), Now("fail", a)',
             UNCHANGED <<vars, active, slots, cancelled, stream, runner, restarts, stranded>>
      PROVE  OwnerFacts'
  <2>1. /\ \A b \in Attempts \ {a} : ~Handles(b)
        /\ status[a] = "InFlight" /\ a \in dispatchReady /\ active \in {None, a}
    BY <1>n DEF Handles, Now, AttemptStages
  <2>2. Handles(a)' /\ Releasing' /\ \A b \in Attempts :
           ~Now("settle", b)' /\ ~Now("abort", b)' /\ (Now("fail", b)' => b = a)
    BY <1>n DEF Handles, Releasing, Now
  <2>3. Owned' /\ OnePaused'
    BY <1>n, <2>1, <2>2, OwnersKept
  <2>4. CallsSettled(a) /\ (a \in cancelled \/ ~Live(a))
    BY <1>0, <2>1, NoneAssumption DEF AttemptFacts, TokensCancelled
  <2>5. TokensCancelled' /\ SettlesActive'
    BY <1>n, <2>2, <2>4 DEF TokensCancelled, SettlesActive, Live, CallsSettled, CallsOf
  <2>6. SlotsMatch'
    BY <1>n, <2>2, SlotsReleased DEF RunningCalls
  <2> QED
    BY <2>3, <2>5, <2>6
<1>4. ASSUME Bind(a) PROVE OwnerFacts'
  <2>1. /\ phase = "up" /\ phase' = "up" /\ Now("bind", a)
        /\ \/ (\E t \in ContextTurns : BindContextTurn(a, t, NextTurn(a))) /\ Now("dispatch", a)'
           \/ UNCHANGED vars /\ Now("fail", a)'
    BY <1>0, <1>4, BindNext
  <2>2. UNCHANGED <<active, slots, cancelled, stream, runner, restarts, stranded>>
    BY <1>4 DEF Bind
  <2>3. ASSUME NEW t \in ContextTurns, BindContextTurn(a, t, NextTurn(a)), Now("dispatch", a)' PROVE OwnerFacts'
    <3>1. /\ UNCHANGED <<attemptVars, callVars>> /\ binding[t] = Unbound
          /\ binding' = [binding EXCEPT ![t] =
                [attempt |-> a, runTurn |-> NextTurn(a), sequence |-> lastSequence + 1]]
      BY <2>3 DEF BindContextTurn, DecideBindContextTurn
    <3>2. \A b \in Attempts \ {a} : ~Handles(b)
      BY <2>1 DEF Handles, Now
    <3>3. ~Releasing /\ ~Releasing' /\ Handles(a)' /\ NoRelease'
          /\ \A c \in Calls : ~Now("launch", c) /\ ~Now("launch", c)'
      BY <2>1, <2>3 DEF Handles, Releasing, NoRelease, Now
    <3>4. \A b \in Attempts \ {a} : PendingBindings(b)' = PendingBindings(b)
      BY <1>0, <3>1, NoneAssumption DEF PendingBindings, NextTurn, TypeOK, Unbound
    <3>5. Owned' /\ OnePaused'
      BY <2>1, <2>2, <3>1, <3>2, <3>3, <3>4 DEF Owned, OnePaused, Unsettled, Dormant
    <3>6. TokensCancelled' /\ SettlesActive'
      BY <2>2, <3>1, <3>3, TokensKept DEF Live
    <3>7. RunningCalls' = RunningCalls /\ Admitted' = Admitted
      BY <2>2, <3>1, <3>3 DEF RunningCalls, Admitted
    <3>8. SlotsMatch'
      BY <2>2, <3>3, <3>7, SlotsKept
    <3> QED
      BY <3>5, <3>6, <3>8
  <2> QED
    BY <1>n, <2>1, <2>2, <2>3
<1>5. ASSUME Dispatch(a) PROVE OwnerFacts'
  <2>1. /\ phase = "up" /\ phase' = "up" /\ Now("dispatch", a)
        /\ \/ StartRunTurn(a) /\ Now("spawn", a)'
           \/ UNCHANGED vars /\ Now("fail", a)'
    BY <1>0, <1>5, DispatchNext
  <2>2. UNCHANGED <<active, slots, cancelled, stream, runner, restarts, stranded>>
    BY <1>5 DEF Dispatch
  <2>3. ASSUME StartRunTurn(a), Now("spawn", a)' PROVE OwnerFacts'
    <3>1. \A b \in Attempts \ {a} : ~Handles(b)
      BY <2>1 DEF Handles, Now
    <3>2. ~Releasing /\ \A c \in Calls : ~Now("launch", c)
      BY <2>1 DEF Releasing, Now
    <3> QED
      BY <2>1, <2>2, <2>3, <3>1, <3>2, TurnOwned
  <2> QED
    BY <1>n, <2>1, <2>2, <2>3
<1>6. ASSUME Spawn(a) PROVE OwnerFacts'
  <2>1. phase = "up" /\ phase' = "up" /\ Now("spawn", a) /\ todo' \in Rest
    BY <1>0, <1>6, SpawnNext
  <2>2. /\ UNCHANGED <<vars, cancelled, runner, restarts, stranded>> /\ active' = a
        /\ stream' = [stream EXCEPT ![a] = "open"] /\ slots' = IF active = a THEN slots ELSE 0
    BY <1>6 DEF Spawn
  <2>3. /\ \A b \in Attempts \ {a} : ~Handles(b)
        /\ ~Releasing /\ \A c \in Calls : ~Now("launch", c)
        /\ CallsSettled(a) /\ active \in {None, a}
    BY <2>1 DEF Handles, Releasing, Now, AttemptStages
  <2>4. NoRelease' /\ ~Releasing' /\ \A c \in Calls : ~Now("launch", c)'
    BY <2>1 DEF NoRelease, Releasing, Now, Rest, Resume
  <2>5. \A b \in Attempts : PendingBindings(b)' = PendingBindings(b)
    BY <2>2 DEF PendingBindings, NextTurn
  <2>6. Owned' /\ OnePaused'
    BY <2>1, <2>2, <2>3, <2>5, NoneAssumption DEF Owned, OnePaused, Unsettled, Dormant
  <2>7. \A b \in Attempts \ {a} : Live(b)' = Live(b)
    BY <1>0, <2>2 DEF Live, CoordTypeOK
  <2>8. TokensCancelled' /\ SettlesActive'
    BY <2>2, <2>3, <2>4, <2>7, NoneAssumption DEF TokensCancelled, SettlesActive, NoRelease
  <2>9. Admitted' = {} /\ RunningCalls' = RunningCalls
    BY <2>2, <2>3 DEF RunningCalls, Admitted, CallsSettled, CallsOf, SettledCall
  <2>10. active = a => Admitted = {}
    BY <2>3 DEF RunningCalls, Admitted, CallsSettled, CallsOf, SettledCall
  <2>11. slots' \in Nat /\ (stranded = {} => slots' = 0)
    <3>1. slots \in Nat /\ Cardinality({}) = 0
      BY <1>0, BoundsAssumption, FS_EmptySet DEF CoordTypeOK
    <3>2. ASSUME active = a, stranded = {} PROVE slots = 0
      BY <2>3, <2>10, <3>1, <3>2, NoneAssumption DEF SlotsMatch
    <3> QED
      BY <2>2, <2>3, <3>1, <3>2
  <2>12. SlotsMatch'
    BY <2>2, <2>9, <2>11, FS_EmptySet DEF SlotsMatch
  <2> QED
    BY <2>6, <2>8, <2>12
<1>7. ASSUME Settle(a) PROVE OwnerFacts'
  <2>1. /\ phase = "up" /\ phase' = "up" /\ Now("settle", a)
        /\ Tail(todo) \in { << <<"fail", a>> >>, << <<"abort", a>> >> }
        /\ \/ (\E c \in UnsettledCalls(a) : SettleConservatively(c)) /\ todo' = todo
           \/ CallsSettled(a) /\ UNCHANGED vars /\ todo' = Tail(todo)
    BY <1>0, <1>7, SettleNext
  <2>2. (active = a \/ a \in stranded) /\ \A b \in Attempts : ~Handles(b)
    BY <2>1 DEF SettlesActive, Handles, Now
  <2>3. cancelled' = (IF active = a THEN cancelled \cup {a} ELSE cancelled) /\ UNCHANGED <<active, slots, stream, runner, restarts, stranded>>
    BY <1>7, <2>2 DEF Settle, TokenAfterSettle
  <2>4. ASSUME NEW c \in UnsettledCalls(a), SettleConservatively(c), todo' = todo PROVE OwnerFacts'
    <3>1. UNCHANGED <<attemptVars, callAttempt, binding>> /\ c \in Calls /\ callAttempt[c] = a
      BY <2>4 DEF UnsettledCalls, CallsOf, SettleConservatively, MarkToolCallUnknown, DenyToolCall, CancelToolCall
    <3>2. PICK s \in SettledCall : callStatus' = [callStatus EXCEPT ![c] = s]
      BY <2>4 DEF SettleConservatively, MarkToolCallUnknown, DenyToolCall, CancelToolCall, SettledCall
    <3>3. Owned' /\ OnePaused'
      BY <2>1, <2>2, <2>3, <3>1, OwnersKept
    <3>4. \A b \in Attempts : (Now("settle", b) \/ Now("abort", b) \/ Now("fail", b))' => b = a /\ Now("settle", a)'
      BY <2>1, <2>4 DEF Now
    <3>5. \A b \in Attempts : ~(Now("abort", b) \/ Now("fail", b))'
      BY <2>1, <2>4 DEF Now
    <3>6. TokensCancelled' /\ SettlesActive'
      BY <1>0, <2>2, <2>3, <3>1, <3>2, <3>4, <3>5 DEF TokensCancelled, SettlesActive, Live, TypeOK
    <3>7. RunningCalls' \subseteq RunningCalls /\ Releasing'
      BY <1>0, <2>1, <2>4, <3>1, <3>2 DEF RunningCalls, Releasing, Now, SettledCall, TypeOK
    <3> QED
      BY <3>3, <3>6, <3>7, SlotsReleased
  <2>5. ASSUME CallsSettled(a), UNCHANGED vars, todo' = Tail(todo) PROVE OwnerFacts'
    <3>1. Head(todo') \in {<<"fail", a>>, <<"abort", a>>} /\ todo' # <<>>
      <4>1. CASE todo' = << <<"fail", a>> >>
        BY <4>1
      <4>2. CASE todo' = << <<"abort", a>> >>
        BY <4>2
      <4> QED
        BY <2>1, <2>5, <4>1, <4>2
    <3>2. Owned' /\ OnePaused'
      BY <2>1, <2>2, <2>3, <2>5, OwnersKept
    <3>3. \A b \in Attempts : (Now("settle", b) \/ Now("abort", b) \/ Now("fail", b))' => b = a
      BY <3>1 DEF Now
    <3>4. CallsSettled(a)'
      BY <2>5 DEF CallsSettled, CallsOf
    <3>5. TokensCancelled' /\ SettlesActive'
      BY <2>2, <2>3, <2>5, <3>3, <3>4 DEF TokensCancelled, SettlesActive, Live
    <3>6. RunningCalls' \subseteq RunningCalls /\ Releasing'
      BY <2>5, <3>1 DEF RunningCalls, Releasing, Now
    <3> QED
      BY <3>2, <3>5, <3>6, SlotsReleased
  <2> QED
    BY <2>1, <2>4, <2>5
<1>8. ASSUME Fail(a) \/ Abort(a) PROVE OwnerFacts'
  <2>1. phase = "up" /\ phase' = "up" /\ todo' = <<>> /\ (Now("fail", a) \/ Now("abort", a))
    BY <1>0, <1>8, FailNext DEF Fail, Abort
  <2>2. /\ \A b \in Attempts \ {a} : ~Handles(b)
        /\ active \in {None, a} \/ (Abort(a) /\ a \in stranded)
    BY <1>8, <2>1 DEF Handles, Now, AttemptStages, SettlesActive, Fail
  <2>3. PICK advised \in BOOLEAN : FailAttempt(a, advised)
    BY <1>8 DEF Fail, Abort
  <2>4. CallsSettled(a) /\ (a \in cancelled \/ ~Live(a))
    BY <2>1 DEF TokensCancelled
  <2>5. /\ active' = None /\ cancelled \subseteq cancelled'
        /\ UNCHANGED <<stream, runner, restarts>>
    BY <1>8 DEF Fail, Abort
  <2>6. /\ status' = [status EXCEPT ![a] = "Failed"]
        /\ UNCHANGED <<turnsStarted, binding, callVars>>
    BY <2>3 DEF FailAttempt
  <2>7. CASE active \in {None, a} /\ UNCHANGED stranded
    BY <1>f, <2>1, <2>2, <2>4, <2>5, <2>6, <2>7 DEF SettledAttempt
  \* the active run goes with the one that failed
  <2>8. CASE /\ active \in Attempts /\ cancelled' = cancelled \cup {active}
             /\ stranded' = stranded \cup {active}
    <3>1. NoRelease' /\ \A b \in Attempts : Live(b)' = Live(b) /\ PendingBindings(b)' = PendingBindings(b)
      BY <2>1, <2>5, <2>6 DEF NoRelease, Now, Live, PendingBindings, NextTurn
    <3>2. \A b \in Attempts \ {a} : status'[b] = status[b]
      BY <1>0, <2>6 DEF TypeOK
    <3>3. status'[a] = "Failed"
      BY <1>0, <2>6 DEF TypeOK
    <3>4. Owned'
      BY <2>1, <2>2, <2>5, <2>8, <3>1, <3>2, <3>3 DEF Owned, Unsettled, Dormant, SettledAttempt
    <3>5. OnePaused' /\ SettlesActive'
      BY <2>8, <3>1 DEF OnePaused, SettlesActive, NoRelease
    <3>6. \A b \in Attempts : Live(b)' => b \in cancelled'
      BY <2>8, <3>1 DEF TokensCancelled
    <3>7. ASSUME NEW c \in Calls, runner'[c] # None, callAttempt'[c] \notin stranded'
          PROVE  runner'[c] = callAttempt'[c] /\ runner'[c] \in cancelled'
      BY <2>5, <2>6, <2>8, <3>7 DEF TokensCancelled
    <3>8. TokensCancelled'
      BY <3>1, <3>6, <3>7 DEF TokensCancelled, NoRelease
    <3>9. SlotsMatch'
      BY <2>5, <2>6, SlotsReleased DEF RunningCalls
    <3> QED
      BY <3>4, <3>5, <3>8, <3>9
  <2>9. CASE Fail(a)
    BY <2>2, <2>7, <2>9, <2>1 DEF Fail, AttemptStages, Now
  <2>10. CASE Abort(a)
    <3>1. cancelled' = cancelled \cup ({active} \ {None})
      BY <2>10 DEF Abort
    <3>2. CASE a \in stranded
      <4>1. stranded' = stranded \cup ({active} \ {None})
        BY <2>10, <3>2 DEF Abort
      <4>2. CASE active = None
        BY <2>7, <4>1, <4>2
      <4>3. CASE active # None
        BY <1>0, <2>8, <3>1, <4>1, <4>3 DEF CoordTypeOK
      <4> QED
        BY <4>2, <4>3
    <3>3. CASE a \notin stranded
      BY <2>2, <2>7, <2>10, <3>3 DEF Abort
    <3> QED
      BY <3>2, <3>3
  <2> QED
    BY <1>8, <2>9, <2>10
<1> QED
  BY <1>1, <1>2, <1>3, <1>4, <1>5, <1>6, <1>7, <1>8

\* The steps of a handler that works on a call.
LEMMA CallHandlerOwners ==
  ASSUME EffectIInv, EffectIInv', OwnerFacts, NEW c \in Calls,
         Permission(c) \/ Deny(c) \/ StartCall(c) \/ Launch(c) \/ Propose(c) \/ Proposed(c)
  PROVE  OwnerFacts'
<1> USE DEF OwnerFacts, EffectIInv, EffectFacts, boundVars, activeVars, taskVars, worldVars, LogOnly, vars,
            sessionVars, attemptVars, callVars, Commit, MoveCall, SettleCall, AttemptIn, CallIn
<1>0. TypeOK /\ CoordTypeOK /\ CoordTypeOK' /\ Control
  BY DEF IInv, Control
<1>n. /\ phase = "up" /\ ~Releasing
      /\ \A b \in Attempts : ~Handles(b)
      /\ \A d \in Calls \ {c} : ~Now("launch", d)
  <2>1. \E op \in CallOps : Now(op, c)
    BY DEF Permission, Deny, StartCall, Launch, Propose, Proposed, CallOps
  <2>2. phase = "up"
    BY <1>0, <2>1, HandlerIsUp DEF Control, HandlerOps
  <2> QED
    BY <2>1, <2>2 DEF Handles, Releasing, Now, CallOps
\* a call moves and neither owners nor tasks do
<1>m. ASSUME phase' = "up", NoRelease', UNCHANGED <<attemptVars, callAttempt, binding, active, cancelled, stream, restarts, stranded>>,
             UNCHANGED runner,
             NEW s, callStatus' = [callStatus EXCEPT ![c] = s], callStatus[c] # "Running" \/ runner[c] = None
      PROVE  Owned' /\ OnePaused' /\ TokensCancelled' /\ SettlesActive'
  <2>1. Owned' /\ OnePaused'
    BY <1>n, <1>m, OwnersKept
  <2>2. \A d \in Calls : callStatus[d] = "Running" /\ runner[d] # None => callStatus'[d] = "Running"
    BY <1>0, <1>m DEF TypeOK
  <2>3. TokensCancelled' /\ SettlesActive'
    BY <1>m, <2>2, TokensKept DEF Live
  <2> QED
    BY <2>1, <2>3
<1>w. ASSUME phase' = "up", NoRelease', UNCHANGED <<attemptVars, callAttempt, binding, active, slots, cancelled, stream, restarts, stranded>>,
             UNCHANGED runner, ~Now("launch", c), \A d \in Calls : ~Now("launch", d)', callStatus[c] # "Running",
             NEW s, s # "Running", callStatus' = [callStatus EXCEPT ![c] = s]
      PROVE  OwnerFacts'
  <2>1. RunningCalls' = RunningCalls /\ Admitted' = Admitted
    BY <1>0, <1>n, <1>w DEF RunningCalls, Admitted, TypeOK
  <2>2. SlotsMatch'
    BY <1>n, <1>w, <2>1, SlotsKept
  <2> QED
    BY <1>m, <1>w, <2>2
\* the process stops
<1>h. ASSUME HandlerFails, UNCHANGED vars PROVE OwnerFacts'
  <2>1. UNCHANGED stranded
    BY DEF Permission, Deny, StartCall, Launch, Propose, Proposed
  <2> QED
    BY <1>h, <2>1, EndedOwners DEF HandlerFails
<1>1. ASSUME Permission(c) PROVE OwnerFacts'
  <2>1. phase' = "up" /\ Now("permission", c)
    BY <1>0, <1>1, PermissionNext
  <2>2. PICK outcome \in Outcomes :
           /\ RecordToolPermission(c, outcome)
           /\ \/ outcome = "Allow" /\ Now("startCall", c)'
              \/ outcome = "Deny" /\ Now("deny", c)'
              \/ outcome = "Ask" /\ todo' = <<>>
    BY <1>0, <1>1, PermissionNext
  <2>3. NoRelease' /\ ~Now("launch", c) /\ \A d \in Calls : ~Now("launch", d)'
    BY <2>1, <2>2 DEF NoRelease, Now
  <2>4. PermissionStatus(outcome) # "Running" /\ callStatus[c] # "Running"
    BY <2>2, OutcomesAssumption DEF PermissionStatus, RecordToolPermission, DecideRecordToolPermission
  <2>5. UNCHANGED <<active, slots, cancelled, stream, runner, restarts, stranded>>
    BY <1>1 DEF Permission
  <2> QED
    BY <1>w, <2>1, <2>2, <2>3, <2>4, <2>5 DEF RecordToolPermission
<1>2. ASSUME Deny(c) PROVE OwnerFacts'
  <2>1. phase' = "up" /\ Now("deny", c) /\ todo' \in Rest
    BY <1>0, <1>2, DenyNext
  <2>2. NoRelease' /\ ~Now("launch", c) /\ \A d \in Calls : ~Now("launch", d)'
    BY <2>1 DEF NoRelease, Now, Rest, Resume
  <2>3. UNCHANGED <<active, slots, cancelled, stream, runner, restarts, stranded>>
    BY <1>2 DEF Deny
  <2> QED
    BY <1>2, <1>w, <2>1, <2>2, <2>3 DEF Deny, DenyToolCall, DecideDenyToolCall
<1>3. ASSUME StartCall(c) PROVE OwnerFacts'
  <2>1. /\ Now("startCall", c)
        /\ \/ StartToolCall(c) /\ phase' = "up" /\ Now("launch", c)'
           \/ HandlerFails /\ UNCHANGED vars
    BY <1>0, <1>3, StartCallNext
  <2>2. ASSUME StartToolCall(c), phase' = "up", Now("launch", c)' PROVE OwnerFacts'
    <3>1. UNCHANGED <<active, slots, cancelled, stream, runner, restarts, stranded>>
      BY <1>3, <2>2 DEF StartCall, HandlerFails, ProcessEnds
    <3>2. /\ callStatus[c] = "Authorized" /\ callStatus' = [callStatus EXCEPT ![c] = "Running"]
          /\ UNCHANGED <<attemptVars, callAttempt, binding>>
      BY <2>2 DEF StartToolCall, DecideStartToolCall
    <3>3. NoRelease' /\ ~Releasing' /\ ~Now("launch", c) /\ \A d \in Calls \ {c} : ~Now("launch", d)'
      BY <2>1, <2>2 DEF NoRelease, Releasing, Now
    <3>4. Owned' /\ OnePaused' /\ TokensCancelled' /\ SettlesActive'
      BY <1>m, <2>2, <3>1, <3>2, <3>3
    <3>5. RunningCalls' = RunningCalls \cup {c} /\ Admitted' = Admitted
      BY <1>0, <1>n, <2>2, <3>1, <3>2, <3>3 DEF RunningCalls, Admitted, TypeOK
    <3>6. SlotsMatch'
      BY <1>n, <3>1, <3>3, <3>5, FS_AddElement DEF SlotsMatch
    <3> QED
      BY <3>4, <3>6
  <2> QED
    BY <1>h, <2>1, <2>2
<1>4. ASSUME Launch(c) PROVE OwnerFacts'
  <2>1. Now("launch", c)
    BY <1>0, <1>4, LaunchNext
  <2>2. callStatus[c] = "Running" /\ ran[c] = 0 /\ runner[c] = None /\ ~Now("propose", c)
    BY <1>n, <2>1 DEF CallStages, CallFacts, Now
  <2>3. active = callAttempt[c] \/ callAttempt[c] \in stranded
    BY <1>n, <2>2, RunningCallIsActive
  <2>4. UNCHANGED <<restarts, stranded>>
    BY <1>4 DEF Launch
  <2>5. ASSUME FailToolCall(c), phase' = "up", todo' \in Rest, UNCHANGED <<activeVars, taskVars, ran>>
        PROVE  OwnerFacts'
    <3>1. /\ callStatus' = [callStatus EXCEPT ![c] = "Failed"]
          /\ UNCHANGED <<attemptVars, callAttempt, binding>>
      BY <2>5 DEF FailToolCall
    <3>2. NoRelease' /\ ~Releasing' /\ \A d \in Calls : ~Now("launch", d)'
      BY <2>5 DEF NoRelease, Releasing, Now, Rest, Resume
    <3>3. Owned' /\ OnePaused' /\ TokensCancelled' /\ SettlesActive'
      BY <1>m, <2>2, <2>4, <2>5, <3>1, <3>2
    <3>4. RunningCalls' \subseteq RunningCalls /\ Admitted' = Admitted
      BY <1>0, <1>n, <2>1, <2>5, <3>1, <3>2 DEF RunningCalls, Admitted, TypeOK
    <3>5. SlotsMatch'
      BY <1>n, <2>4, <2>5, <3>4, FS_Subset DEF SlotsMatch
    <3> QED
      BY <3>3, <3>5
  <2>6. ASSUME phase' = "up", UNCHANGED <<vars, active, guarded, cancelled, stream>>, slots' = slots + 1,
               \/ c \in ProposalCalls /\ Now("propose", c)' /\ UNCHANGED <<runner, ran>>
               \/ /\ c \notin ProposalCalls /\ todo' \in Rest /\ active # None
                  /\ runner' = [runner EXCEPT ![c] = active]
                  /\ ran' = [ran EXCEPT ![c] = @ + 1]
        PROVE  OwnerFacts'
    <3>1. NoRelease' /\ ~Releasing' /\ \A d \in Calls : ~Now("launch", d)'
      BY <2>6 DEF NoRelease, Releasing, Now, Rest, Resume
    <3>2. Owned' /\ OnePaused'
      BY <1>n, <2>4, <2>6, OwnersKept
    <3>3. SettlesActive'
      BY <3>1 DEF SettlesActive, NoRelease
    <3>4. \A d \in Calls : runner'[d] = runner[d] \/ (d = c /\ runner'[d] = active)
      BY <1>0, <2>6 DEF CoordTypeOK
    <3>5. TokensCancelled'
      BY <2>2, <2>3, <2>4, <2>6, <3>1, <3>4 DEF TokensCancelled, NoRelease, Live
    <3>6. /\ RunningCalls' = RunningCalls /\ c \notin Admitted /\ Admitted \subseteq RunningCalls
          /\ Admitted' = IF callAttempt[c] = active THEN Admitted \cup {c} ELSE Admitted
      BY <1>n, <2>1, <2>2, <2>6, <3>1 DEF RunningCalls, Admitted
    <3>7. IsFiniteSet(Admitted) /\ Cardinality(Admitted) \in Nat /\ slots \in Nat
      BY <1>0, <3>6, BoundsAssumption, FS_Subset, FS_CardinalityType DEF SlotsMatch, CoordTypeOK
    <3>8. /\ callAttempt[c] = active => Cardinality(Admitted') = Cardinality(Admitted) + 1
          /\ callAttempt[c] # active => Cardinality(Admitted') = Cardinality(Admitted)
      BY <3>6, <3>7, FS_AddElement
    <3>9. SlotsMatch'
      <4>1. IsFiniteSet(RunningCalls')
        BY <3>6 DEF SlotsMatch
      <4>2. ASSUME active' # None
            PROVE  /\ Cardinality(Admitted') <= slots'
                   /\ stranded' = {} => Cardinality(Admitted') = slots'
        <5>1. Cardinality(Admitted) <= slots /\ (stranded = {} => Cardinality(Admitted) = slots)
          BY <1>n, <2>6, <4>2 DEF SlotsMatch
        <5>2. stranded' = {} => callAttempt[c] = active
          BY <2>3, <2>4
        <5> QED
          BY <2>4, <2>6, <3>7, <3>8, <5>1, <5>2
      <4> QED
        BY <4>1, <4>2 DEF SlotsMatch
    <3> QED
      BY <3>2, <3>3, <3>5, <3>9
  <2> QED
    BY <1>0, <1>4, <1>h, <2>5, <2>6, LaunchNext
\* a memory proposal whose call settles
<1>p. ASSUME NEW s \in SettledCall, phase' = "up", callStatus[c] = "Running", runner[c] = None, ~Now("launch", c),
             callStatus' = [callStatus EXCEPT ![c] = s], slots' = ReleasedSlots(c), Now("maybeResume", None)',
             UNCHANGED <<attemptVars, callAttempt, binding, active, cancelled, stream, restarts, stranded>>, UNCHANGED runner
      PROVE  OwnerFacts'
  <2>1. NoRelease' /\ \A d \in Calls : ~Now("launch", d)'
    BY <1>p DEF NoRelease, Now
  <2>2. Owned' /\ OnePaused' /\ TokensCancelled' /\ SettlesActive'
    BY <1>m, <1>p, <2>1
  <2>3. SlotsMatch'
    BY <1>n, <1>p, <2>1, SlotReleased
  <2> QED
    BY <2>2, <2>3
<1>5. ASSUME Propose(c) PROVE OwnerFacts'
  <2>1. Now("propose", c)
    BY <1>0, <1>5, ProposeNext
  <2>2. callStatus[c] = "Running" /\ runner[c] = None /\ ~Now("launch", c)
    BY <1>n, <2>1 DEF CallStages, CallFacts, Now
  <2>3. UNCHANGED <<restarts, stranded>>
    BY <1>5 DEF Propose
  <2>4. ASSUME Now("proposed", c)', UNCHANGED <<vars, phase, activeVars, taskVars>>
        PROVE  OwnerFacts'
    <3>1. NoRelease' /\ \A d \in Calls : ~Now("launch", d)'
      BY <2>4 DEF NoRelease, Now
    <3>2. Owned' /\ OnePaused'
      BY <1>n, <2>3, <2>4, OwnersKept
    <3>3. TokensCancelled' /\ SettlesActive'
      BY <2>3, <2>4, <3>1, TokensKept DEF Live
    <3>4. RunningCalls' = RunningCalls /\ Admitted' = Admitted
      BY <1>n, <2>2, <2>4, <3>1 DEF RunningCalls, Admitted
    <3>5. SlotsMatch'
      BY <1>n, <2>3, <2>4, <3>4, SlotsKept
    <3> QED
      BY <3>2, <3>3, <3>5
  <2>5. ASSUME FailToolCall(c), slots' = ReleasedSlots(c), Now("maybeResume", None)',
               UNCHANGED <<phase, active, guarded, cancelled, taskVars>>
        PROVE  OwnerFacts'
    BY <1>n, <1>p, <2>2, <2>3, <2>5 DEF FailToolCall, SettledCall
  <2> QED
    BY <1>0, <1>5, <1>h, <2>4, <2>5, ProposeNext
<1>6. ASSUME Proposed(c) PROVE OwnerFacts'
  <2>1. phase' = "up" /\ Now("proposed", c) /\ Now("maybeResume", None)'
    BY <1>0, <1>6, ProposedNext
  <2>2. callStatus[c] = "Running" /\ runner[c] = None /\ ~Now("launch", c)
    BY <1>n, <2>1 DEF CallStages, CallFacts, Now
  <2> QED
    BY <1>6, <1>p, <2>1, <2>2 DEF Proposed, CompleteToolCall, SettledCall
<1> QED
  BY <1>1, <1>2, <1>3, <1>4, <1>5, <1>6

\* A step that leaves attempts, calls and the active run alone and starts no
\* release.
LEMMA OwnersUntouched ==
  ASSUME OwnerFacts, phase = "up", NoRelease', ~Releasing,
         UNCHANGED <<status, turnsStarted, binding, callAttempt, callStatus, active, cancelled, slots, restarts, stranded>>,
         UNCHANGED runner, \A a \in Attempts : ~Handles(a), \A a \in Attempts : Live(a)' => Live(a),
         \A c \in Calls : ~Now("launch", c) /\ ~Now("launch", c)'
  PROVE  OwnerFacts'
<1> USE DEF OwnerFacts
<1>1. Owned' /\ OnePaused'
  BY OwnersKept
<1>2. TokensCancelled' /\ SettlesActive'
  BY TokensKept
<1>3. RunningCalls' = RunningCalls /\ Admitted' = Admitted
  BY DEF RunningCalls, Admitted
<1>4. SlotsMatch'
  BY <1>3, SlotsKept
<1> QED
  BY <1>1, <1>2, <1>4

\* The active run is about to be settled.
LEMMA ReleaseBegins ==
  ASSUME OwnerFacts, phase = "up", active \in Attempts, Now("settle", active)',
         UNCHANGED <<status, turnsStarted, binding, callAttempt, active, cancelled, restarts, stranded>>,
         UNCHANGED runner, \A a \in Attempts : ~Handles(a), \A a \in Attempts : Live(a)' => Live(a),
         UNCHANGED callStatus
  PROVE  OwnerFacts'
<1> USE DEF OwnerFacts
<1>1. Owned' /\ OnePaused'
  BY OwnersKept
<1>2. SettlesActive'
  BY DEF SettlesActive, Now
<1>3. TokensCancelled'
  BY DEF TokensCancelled, Now
<1>4. Releasing'
  BY DEF Releasing
<1>5. SlotsMatch'
  BY <1>4, SlotsReleased DEF RunningCalls
<1> QED
  BY <1>1, <1>2, <1>3, <1>5

\* The active run settles, with its calls settled and its stream over or its
\* token cancelled.
LEMMA RunSettles ==
  ASSUME EffectIInv, EffectIInv', OwnerFacts, NEW a \in Attempts, NEW s \in SettledAttempt,
         phase = "up", todo' = <<>>, status' = [status EXCEPT ![a] = s],
         CallsSettled(a), active = a, active' = None, Live(a)' => a \in cancelled,
         \A b \in Attempts : ~Handles(b), \A b \in Attempts : Live(b)' => Live(b),
         UNCHANGED <<turnsStarted, binding, restarts, callVars, runner, cancelled, stranded>>
  PROVE  OwnerFacts'
<1> USE DEF OwnerFacts, callVars
<1>0. TypeOK /\ CoordTypeOK'
  BY DEF EffectIInv, IInv, Control
<1>1. Owned' /\ OnePaused'
  BY <1>0, OwnerSettles
<1>2. NoRelease'
  BY DEF NoRelease, Now
<1>3. TokensCancelled' /\ SettlesActive'
  BY <1>0, <1>2, TokensReleased
<1>4. SlotsMatch'
  BY SlotsReleased DEF RunningCalls
<1> QED
  BY <1>1, <1>3, <1>4

\* The steps that look whether a paused run can go on.
LEMMA PausedHandlerOwners ==
  ASSUME EffectIInv, EffectIInv', OwnerFacts, MaybeResume \/ AfterTool
  PROVE  OwnerFacts'
<1> USE DEF EffectIInv, EffectFacts, boundVars, activeVars, taskVars, worldVars, LogOnly, vars,
            sessionVars, attemptVars, callVars, Commit, MoveAttempt, AttemptIn
<1>0. TypeOK /\ CoordTypeOK /\ CoordTypeOK' /\ Control
  BY DEF IInv, Control
<1>1. ASSUME MaybeResume PROVE OwnerFacts'
  <2>1. /\ phase = "up" /\ phase' = "up" /\ Now("maybeResume", None)
        /\ \/ UNCHANGED vars /\ todo' \in Rest
           \/ /\ active \in Attempts /\ UNCHANGED vars /\ Now("settle", active)'
              /\ Tail(todo') \in {<< <<"fail", active>> >>, << <<"abort", active>> >>}
           \/ active \in Attempts /\ ResumeAttemptAfterTools(active) /\ Now("bind", active)'
    BY <1>0, <1>1, MaybeResumeNext
  <2>2. UNCHANGED <<active, slots, cancelled, stream, runner, restarts, stranded>>
    BY <1>1 DEF MaybeResume
  <2>3. /\ \A b \in Attempts : ~Handles(b)
        /\ ~Releasing /\ \A c \in Calls : ~Now("launch", c)
    BY <2>1 DEF Handles, Releasing, Now
  <2>4. CASE UNCHANGED vars /\ todo' \in Rest
    <3>1. NoRelease' /\ \A c \in Calls : ~Now("launch", c)'
      BY <2>4 DEF NoRelease, Now, Rest, Resume
    <3> QED
      BY <2>1, <2>2, <2>3, <2>4, <3>1, OwnersUntouched DEF Live
  <2>5. CASE active \in Attempts /\ UNCHANGED vars /\ Now("settle", active)'
    BY <2>1, <2>2, <2>3, <2>5, ReleaseBegins DEF Live
  <2>6. CASE active \in Attempts /\ ResumeAttemptAfterTools(active) /\ Now("bind", active)'
    <3> USE DEF OwnerFacts
    <3>1. /\ status[active] = "AwaitingTools" /\ status' = [status EXCEPT ![active] = "InFlight"]
          /\ UNCHANGED <<turnsStarted, callVars, binding>>
      BY <2>6 DEF ResumeAttemptAfterTools, DecideResumeAttemptAfterTools
    <3>2. NoRelease' /\ ~Releasing' /\ \A c \in Calls : ~Now("launch", c)'
      BY <2>6 DEF NoRelease, Releasing, Now
    <3>3. \A b \in Attempts \ {active} : PendingBindings(b)' = PendingBindings(b) /\ status'[b] = status[b]
      BY <1>0, <3>1 DEF PendingBindings, NextTurn, TypeOK
    <3>4. Owned'
      BY <2>1, <2>2, <2>3, <3>3 DEF Owned, Unsettled, Dormant
    <3>5. OnePaused'
      BY <1>0, <2>2, <2>6, <3>1, <3>3 DEF OnePaused, TypeOK
    <3>6. TokensCancelled' /\ SettlesActive'
      BY <2>2, <3>1, <3>2, TokensKept DEF Live
    <3>7. RunningCalls' = RunningCalls /\ Admitted' = Admitted
      BY <2>2, <2>3, <3>1, <3>2 DEF RunningCalls, Admitted
    <3>8. SlotsMatch'
      BY <2>2, <2>3, <3>7, SlotsKept
    <3> QED
      BY <3>4, <3>5, <3>6, <3>8
  <2> QED
    BY <2>1, <2>4, <2>5, <2>6
<1>2. ASSUME AfterTool PROVE OwnerFacts'
  <2>1. /\ phase = "up" /\ phase' = "up" /\ Now("afterTool", None)
        /\ \/ active \in Attempts /\ CancelAttempt(active) /\ active' = None /\ todo' = <<>>
           \/ UNCHANGED <<vars, active>> /\ todo' = <<Resume>>
    BY <1>0, <1>2, AfterToolNext
  <2>2. UNCHANGED <<slots, cancelled, stream, runner, restarts, stranded>>
    BY <1>2 DEF AfterTool
  <2>3. /\ \A b \in Attempts : ~Handles(b)
        /\ ~Releasing /\ \A c \in Calls : ~Now("launch", c)
    BY <2>1 DEF Handles, Releasing, Now
  <2>4. CASE active \in Attempts /\ CancelAttempt(active) /\ active' = None /\ todo' = <<>>
    <3>1. /\ status[active] = "CancellationRequested" /\ CallsSettled(active)
          /\ status' = [status EXCEPT ![active] = "Cancelled"]
          /\ UNCHANGED <<turnsStarted, binding, callVars>>
      BY <2>4 DEF CancelAttempt, DecideCancelAttempt
    <3>2. active \in cancelled
      BY <2>1, <2>4, <3>1 DEF AttemptFacts
    <3> QED
      BY <2>1, <2>2, <2>3, <2>4, <3>1, <3>2, RunSettles DEF SettledAttempt, Live
  <2>5. CASE UNCHANGED <<vars, active>> /\ todo' = <<Resume>>
    <3>1. NoRelease' /\ \A c \in Calls : ~Now("launch", c)'
      BY <2>5 DEF NoRelease, Now, Resume
    <3> QED
      BY <2>1, <2>2, <2>3, <2>5, <3>1, OwnersUntouched DEF Live
  <2> QED
    BY <2>1, <2>4, <2>5
<1> QED
  BY <1>1, <1>2

\* Intents of the user.
LEMMA IntentOwners ==
  ASSUME EffectIInv, EffectIInv', OwnerFacts, UserIntent
  PROVE  OwnerFacts'
<1> USE DEF EffectIInv, EffectFacts, boundVars, activeVars, taskVars, worldVars, coordVars, LogOnly, vars,
            sessionVars, attemptVars, callVars, Commit, MoveAttempt, MoveCall, AttemptIn, CallIn
<1>0. TypeOK /\ CoordTypeOK /\ CoordTypeOK' /\ Control
  BY DEF IInv, Control
<1>i. Idle
  BY DEF UserIntent, CreateOrSelect, EditSession, SubmitPrompt, RetryAttempt, Cancel, AnswerPermission,
         SubmitCredential
<1>n. /\ phase = "up" /\ ~Releasing /\ todo = <<>>
      /\ \A b \in Attempts : ~Handles(b)
      /\ \A c \in Calls : ~Now("launch", c)
  BY <1>i DEF Idle, Handles, Releasing, Now
<1>1. ASSUME CreateOrSelect \/ EditSession PROVE OwnerFacts'
  <2>1. UNCHANGED <<todo, active, cancelled, slots, restarts, runner, stream, stranded>>
    BY <1>1 DEF CreateOrSelect, EditSession, EditVars
  <2>2. UNCHANGED <<attemptVars, callVars, binding>>
    BY <1>1 DEF CreateOrSelect, EditSession, CreateSession, RenameSession, ArchiveSession,
                UnarchiveSession, SelectModel
  <2>3. NoRelease' /\ \A c \in Calls : ~Now("launch", c)'
    BY <1>n, <2>1 DEF NoRelease, Now
  <2> QED
    BY <1>n, <2>1, <2>2, <2>3, OwnersUntouched DEF Live
\* a new attempt is owned by the handler that starts it
<1>p. ASSUME NEW a \in Attempts, status[a] = "Absent", status' = [status EXCEPT ![a] = "Prepared"],
             Return(StartSteps(a)), active = None, UNCHANGED <<turnsStarted, callVars, binding, restarts, stranded>>,
             UNCHANGED <<activeVars, taskVars>>
      PROVE  OwnerFacts'
  <2> USE DEF OwnerFacts
  <2>1. Now("configure", a)'
    BY <1>p DEF Return, StartSteps, Now
  <2>2. Handles(a)' /\ NoRelease'
    BY <2>1 DEF Handles, NoRelease, Now
  <2>3. \A b \in Attempts : PendingBindings(b)' = PendingBindings(b)
    BY <1>p DEF PendingBindings, NextTurn
  <2>4. \A b \in Attempts \ {a} : status'[b] = status[b]
    BY <1>0, <1>p DEF TypeOK
  <2>5. Owned'
    BY <1>n, <1>p, <2>2, <2>3, <2>4 DEF Owned, Unsettled, Dormant
  <2>6. OnePaused'
    BY <1>0, <1>p, <2>4 DEF OnePaused, TypeOK
  <2>7. TokensCancelled' /\ SettlesActive'
    BY <1>p, <2>2, TokensKept DEF Live
  <2>8. SlotsMatch'
    BY <1>p, SlotsReleased DEF RunningCalls
  <2> QED
    BY <2>5, <2>6, <2>7, <2>8
<1>2. ASSUME NEW i \in Inputs, NEW a \in Attempts, SubmitPrompt(i, a) PROVE OwnerFacts'
  BY <1>2, <1>p DEF SubmitPrompt, AdmitPromptAndPrepareAttempt, DecideAdmitPromptAndPrepareAttempt, Prepare
<1>3. ASSUME NEW prior \in Attempts, NEW a \in Attempts, RetryAttempt(prior, a) PROVE OwnerFacts'
  BY <1>3, <1>p DEF RetryAttempt, PrepareAttempt, DecidePrepareAttempt, Prepare
<1>4. ASSUME NEW a \in Attempts, Cancel(a) PROVE OwnerFacts'
  <2> USE DEF OwnerFacts
  <2>1. active = a /\ cancelled' = cancelled \cup {a} /\ UNCHANGED <<active, slots, stream, runner, restarts, stranded>>
    BY <1>4 DEF Cancel
  <2>2. /\ status' = [status EXCEPT ![a] = "CancellationRequested"]
        /\ UNCHANGED <<turnsStarted, callVars, binding>>
    BY <1>4 DEF Cancel, RequestAttemptCancellation
  <2>3. todo' = << <<"cancelCalls", a>> >> \/ todo' = <<>>
    BY <1>4 DEF Cancel, Return
  <2>4. NoRelease' /\ ~Releasing' /\ \A c \in Calls : ~Now("launch", c)'
    <3>1. CASE todo' = << <<"cancelCalls", a>> >>
      BY <3>1 DEF NoRelease, Releasing, Now
    <3>2. CASE todo' = <<>>
      BY <3>2 DEF NoRelease, Releasing, Now
    <3> QED
      BY <2>3, <3>1, <3>2
  <2>5. \A b \in Attempts \ {a} : status'[b] = status[b] /\ PendingBindings(b)' = PendingBindings(b)
    BY <1>0, <2>2 DEF TypeOK, PendingBindings, NextTurn
  <2>6. Owned'
    BY <1>n, <2>1, <2>5 DEF Owned, Unsettled, Dormant
  <2>7. OnePaused'
    BY <1>0, <2>1, <2>2, <2>5 DEF OnePaused, TypeOK
  <2>8. TokensCancelled' /\ SettlesActive'
    BY <2>1, <2>2, <2>4, TokensKept DEF Live
  <2>9. RunningCalls' = RunningCalls /\ Admitted' = Admitted
    BY <1>n, <2>1, <2>2, <2>4 DEF RunningCalls, Admitted
  <2>10. SlotsMatch'
    BY <1>n, <2>1, <2>9, SlotsKept
  <2> QED
    BY <2>6, <2>7, <2>8, <2>10
<1>5. ASSUME NEW c \in Calls, NEW given \in {"AllowOnce", "Deny"}, AnswerPermission(c, given)
      PROVE  OwnerFacts'
  <2> USE DEF OwnerFacts
  <2>1. UNCHANGED <<active, slots, cancelled, stream, runner, restarts, stranded>>
    BY <1>5 DEF AnswerPermission
  <2>2. /\ callStatus[c] = "PermissionPending"
        /\ callStatus' = [callStatus EXCEPT ![c] = AnswerStatus(given)]
        /\ AnswerStatus(given) # "Running"
        /\ UNCHANGED <<attemptVars, callAttempt, binding>>
    BY <1>5 DEF AnswerPermission, AnswerToolPermission, DecideAnswerToolPermission, AnswerStatus
  <2>3. NoRelease' /\ ~Releasing' /\ \A d \in Calls : ~Now("launch", d)'
    <3>1. PICK op \in {"startCall", "deny"} : todo' = << <<op, c>>, Resume >>
      BY <1>5, ConcatOneOne DEF AnswerPermission, Return, ResumeSteps, Resume
    <3>2. Head(todo') = <<op, c>>
      BY <3>1
    <3> QED
      BY <3>2 DEF NoRelease, Releasing, Now
  <2>4. Owned' /\ OnePaused'
    BY <1>n, <2>1, <2>2, OwnersKept
  <2>5. \A d \in Calls : callStatus'[d] = "Running" <=> callStatus[d] = "Running"
    BY <1>0, <2>2 DEF TypeOK
  <2>6. TokensCancelled' /\ SettlesActive'
    BY <2>1, <2>2, <2>3, <2>5, TokensKept DEF Live
  <2>7. RunningCalls' = RunningCalls /\ Admitted' = Admitted
    BY <1>n, <2>1, <2>2, <2>3, <2>5 DEF RunningCalls, Admitted
  <2>8. SlotsMatch'
    BY <1>n, <2>1, <2>7, SlotsKept
  <2> QED
    BY <2>4, <2>6, <2>8
<1>6. ASSUME SubmitCredential PROVE OwnerFacts'
  <2>1. todo' = <<Resume>> /\ UNCHANGED <<vars, active, cancelled, slots, restarts, runner, stream, stranded>>
    BY <1>6 DEF SubmitCredential, Return, ResumeSteps, Resume
  <2>2. NoRelease' /\ \A c \in Calls : ~Now("launch", c)'
    BY <2>1 DEF NoRelease, Now, Resume
  <2> QED
    BY <1>n, <2>1, <2>2, OwnersUntouched DEF Live
<1> QED
  BY <1>1, <1>2, <1>3, <1>4, <1>5, <1>6 DEF UserIntent

\* Events of a provider stream.
LEMMA StreamOwners ==
  ASSUME EffectIInv, EffectIInv', OwnerFacts, NEW a \in Attempts, StreamStep(a)
  PROVE  OwnerFacts'
<1> USE DEF EffectIInv, EffectFacts, boundVars, activeVars, taskVars, worldVars, vars, sessionVars,
            StreamVars, Close, attemptVars, callVars, Commit, MoveAttempt, AttemptIn
<1>0. TypeOK /\ CoordTypeOK /\ CoordTypeOK' /\ Control
  BY DEF IInv, Control
<1>i. Idle /\ UNCHANGED <<phase, slots, cancelled, runner, restarts, stranded>>
  BY DEF StreamStep, StreamEnds, StreamOutput, StreamCall, StreamPaused, StreamCompleted, StreamEnded,
         StreamDropped
<1>n. /\ phase = "up" /\ ~Releasing /\ todo = <<>>
      /\ \A b \in Attempts : ~Handles(b)
      /\ \A c \in Calls : ~Now("launch", c)
  BY <1>i DEF Idle, Handles, Releasing, Now
<1>l. \A b \in Attempts : Live(b)' => Live(b)
  BY <1>0 DEF StreamStep, StreamEnds, StreamOutput, StreamCall, StreamPaused, StreamCompleted, StreamEnded,
              StreamDropped, Live, CoordTypeOK
\* the run is failed or aborted
<1>f. ASSUME active = a, UNCHANGED <<vars, active>>, Return(FailSteps(a)) \/ Return(AbortSteps(a))
      PROVE  OwnerFacts'
  <2>1. Now("settle", a)'
    BY <1>f DEF Return, FailSteps, AbortSteps, Now
  <2> QED
    BY <1>f, <1>i, <1>l, <1>n, <2>1, ReleaseBegins
\* nothing but the log, or the stream, changes
<1>u. ASSUME UNCHANGED <<attemptVars, callVars, binding, active, todo>> PROVE OwnerFacts'
  <2>1. NoRelease' /\ \A c \in Calls : ~Now("launch", c)'
    BY <1>n, <1>u DEF NoRelease, Now
  <2> QED
    BY <1>u, <1>i, <1>l, <1>n, <2>1, OwnersUntouched
\* the run is over when its stream is
<1>s. ASSUME NEW s \in SettledAttempt, active = a, active' = None, CallsSettled(a),
             status' = [status EXCEPT ![a] = s], stream' = [stream EXCEPT ![a] = "closed"],
             UNCHANGED <<todo, turnsStarted, callVars, binding>>
      PROVE  OwnerFacts'
  <2>1. ~Live(a)'
    BY <1>0, <1>s DEF Live, CoordTypeOK
  <2> QED
    BY <1>i, <1>l, <1>n, <1>s, <2>1, RunSettles
<1>c. ASSUME CancelIfSettled(a), active = a, stream' = [stream EXCEPT ![a] = "closed"], UNCHANGED todo
      PROVE  OwnerFacts'
  <2>1. CASE CallsSettled(a) /\ CancelAttempt(a) /\ active' = None
    BY <1>s, <1>c, <2>1 DEF CancelAttempt, SettledAttempt
  <2> QED
    BY <1>c, <1>u, <2>1 DEF CancelIfSettled
<1>1. ASSUME StreamOutput(a) PROVE OwnerFacts'
  <2>1. CASE RecordOutput(a) /\ UNCHANGED todo
    BY <1>1, <1>u, <2>1 DEF StreamOutput, RecordOutput
  <2> QED
    BY <1>1, <1>f, <2>1 DEF StreamOutput
<1>2. ASSUME NEW c \in Calls, StreamCall(a, c) PROVE OwnerFacts'
  <2>1. active = a /\ active' = a
    BY <1>2 DEF StreamCall
  <2>2. CASE ProposeToolCall(c, a) /\ Return(<< <<"permission", c>> >>)
    <3> USE DEF OwnerFacts
    <3>1. /\ UNCHANGED <<attemptVars, binding>> /\ callStatus[c] = "Absent"
          /\ callStatus' = [callStatus EXCEPT ![c] = "Proposed"]
          /\ callAttempt' = [callAttempt EXCEPT ![c] = a]
      BY <2>2 DEF ProposeToolCall, DecideProposeToolCall, CallIn, MoveCall
    <3>2. Head(todo') = <<"permission", c>>
      BY <2>2 DEF Return
    <3>3. NoRelease' /\ ~Releasing' /\ \A d \in Calls : ~Now("launch", d)'
      BY <3>2 DEF NoRelease, Releasing, Now
    <3>4. Owned' /\ OnePaused'
      BY <1>i, <1>n, <2>1, <3>1, OwnersKept
    <3>5. \A d \in Calls : callStatus'[d] = "Running" <=> callStatus[d] = "Running"
      BY <1>0, <3>1 DEF TypeOK
    <3>6. runner[c] = None
      BY <3>1 DEF CallFacts
    <3>7. \A d \in Calls \ {c} : callAttempt'[d] = callAttempt[d] /\ callStatus'[d] = callStatus[d]
      BY <1>0, <3>1 DEF TypeOK
    <3>8. TokensCancelled' /\ SettlesActive'
      BY <1>i, <1>l, <2>1, <3>3, <3>6, <3>7 DEF TokensCancelled, SettlesActive, NoRelease
    <3>9. RunningCalls' = RunningCalls /\ Admitted' = Admitted
      BY <1>n, <2>1, <3>1, <3>3, <3>5, <3>7 DEF RunningCalls, Admitted
    <3>10. SlotsMatch'
      BY <1>i, <1>n, <2>1, <3>9, SlotsKept
    <3> QED
      BY <3>4, <3>8, <3>10
  <2> QED
    BY <1>2, <1>f, <2>1, <2>2 DEF StreamCall
<1>3. ASSUME StreamPaused(a) PROVE OwnerFacts'
  <2>1. CASE PauseAttemptForTools(a) /\ Return(ResumeSteps) /\ UNCHANGED active
    <3> USE DEF OwnerFacts
    <3>1. /\ status' = [status EXCEPT ![a] = "AwaitingTools"] /\ UNCHANGED <<turnsStarted, callVars, binding>>
          /\ active = a /\ todo' = <<Resume>>
      BY <1>3, <2>1 DEF StreamPaused, PauseAttemptForTools, Return, ResumeSteps, Resume
    <3>2. NoRelease' /\ ~Releasing' /\ \A d \in Calls : ~Now("launch", d)'
      BY <3>1 DEF NoRelease, Releasing, Now, Resume
    <3>3. \A b \in Attempts \ {a} : status'[b] = status[b] /\ PendingBindings(b)' = PendingBindings(b)
      BY <1>0, <3>1 DEF TypeOK, PendingBindings, NextTurn
    <3>4. Owned'
      BY <1>i, <1>n, <2>1, <3>1, <3>3 DEF Owned, Unsettled, Dormant
    <3>5. stranded = {} => \A b \in Attempts \ {a} : status[b] # "AwaitingTools"
      BY <1>n, <3>1 DEF Owned, Unsettled, Dormant, SettledAttempt
    <3>6. OnePaused'
      BY <1>i, <3>3, <3>5 DEF OnePaused
    <3>7. TokensCancelled' /\ SettlesActive'
      BY <1>i, <1>l, <2>1, <3>1, <3>2, TokensKept
    <3>8. RunningCalls' = RunningCalls /\ Admitted' = Admitted
      BY <1>n, <2>1, <3>1, <3>2 DEF RunningCalls, Admitted
    <3>9. SlotsMatch'
      BY <1>i, <1>n, <2>1, <3>8, SlotsKept
    <3> QED
      BY <3>4, <3>6, <3>7, <3>9
  <2> QED
    BY <1>3, <1>c, <2>1 DEF StreamPaused
<1>4. ASSUME StreamCompleted(a) PROVE OwnerFacts'
  <2>1. CASE UnsettledCalls(a) = {} /\ CompleteAttempt(a) /\ active' = None /\ UNCHANGED todo
    BY <1>4, <1>s, <2>1 DEF StreamCompleted, CompleteAttempt, SettledAttempt, UnsettledCalls, CallsSettled
  <2>2. ASSUME UnsettledCalls(a) = {}, NEW advised \in BOOLEAN, FailAttempt(a, advised), active' = None, UNCHANGED todo
        PROVE  OwnerFacts'
    BY <1>4, <1>s, <2>2 DEF StreamCompleted, FailAttempt, SettledAttempt, UnsettledCalls, CallsSettled
  <2> QED
    BY <1>4, <1>f, <2>1, <2>2 DEF StreamCompleted
<1>5. ASSUME StreamEnded(a) PROVE OwnerFacts'
  BY <1>5, <1>c, <1>f DEF StreamEnded
<1>6. ASSUME StreamDropped(a) PROVE OwnerFacts'
  BY <1>6, <1>u DEF StreamDropped
<1> QED
  BY <1>1, <1>2, <1>3, <1>4, <1>5, <1>6 DEF StreamStep, StreamEnds

\* The result of a tool.
LEMMA ToolResultOwners ==
  ASSUME EffectIInv, EffectIInv', OwnerFacts, NEW c \in Calls, ToolResult(c)
  PROVE  OwnerFacts'
<1> USE DEF OwnerFacts, EffectIInv, EffectFacts, boundVars, activeVars, taskVars, worldVars, vars, sessionVars,
            attemptVars, callVars, Commit, MoveCall, SettleCall, CallIn
<1>0. TypeOK /\ CoordTypeOK /\ CoordTypeOK' /\ Control
  BY DEF IInv, Control
<1>1. /\ phase = "up" /\ todo = <<>> /\ runner[c] # None /\ ~Releasing
      /\ runner' = [runner EXCEPT ![c] = None]
      /\ UNCHANGED <<phase, active, cancelled, stream, restarts, stranded>>
      /\ \A b \in Attempts : ~Handles(b)
      /\ \A d \in Calls : ~Now("launch", d)
  BY DEF ToolResult, Idle, Handles, Releasing, Now
<1>2. runner'[c] = None /\ \A d \in Calls \ {c} : runner'[d] = runner[d]
  BY <1>0, <1>1 DEF CoordTypeOK
<1>t. ASSUME UNCHANGED callAttempt, \A d \in Calls \ {c} : callStatus'[d] = callStatus[d],
             \A a \in Attempts : ~Now("fail", a)' /\ ~Now("abort", a)'
      PROVE  TokensCancelled'
  BY <1>1, <1>2, <1>t DEF TokensCancelled, Live
<1>3. CASE callStatus[c] # "Running" /\ UNCHANGED <<vars, todo, slots>>
  <2>1. NoRelease' /\ \A d \in Calls : ~Now("launch", d)'
    BY <1>1, <1>3 DEF NoRelease, Now
  <2>2. Owned' /\ OnePaused'
    BY <1>1, <1>3, OwnersKept
  <2>3. TokensCancelled' /\ SettlesActive'
    BY <1>t, <1>3, <2>1 DEF NoRelease, SettlesActive
  <2>4. RunningCalls' = RunningCalls /\ Admitted' = Admitted
    BY <1>1, <1>3, <2>1 DEF RunningCalls, Admitted
  <2>5. SlotsMatch'
    BY <1>1, <1>3, <2>4, SlotsKept
  <2> QED
    BY <2>2, <2>3, <2>5
<1>4. ASSUME MarkToolCallUnknown(c) \/ CompleteToolCall(c), slots' = ReleasedSlots(c),
             todo' \in {<<Resume>>, << <<"afterTool", None>> >>, AbortSteps(callAttempt[c])}
      PROVE  OwnerFacts'
  <2>1. PICK s \in {"Unknown", "Completed"} :
           callStatus[c] = "Running" /\ callStatus' = [callStatus EXCEPT ![c] = s]
    BY <1>4 DEF MarkToolCallUnknown, CompleteToolCall, DecideSettleRunningCall
  <2>2. UNCHANGED <<attemptVars, callAttempt, binding>>
    BY <1>4 DEF MarkToolCallUnknown, CompleteToolCall
  <2>3. /\ active = callAttempt[c] \/ callAttempt[c] \in stranded
        /\ callAttempt[c] \in Attempts
    BY <1>1, <2>1, RunningCallIsActive DEF IInv, SettledAttemptsHaveSettledCalls, ToolCallStatus, SettledCall
  <2>4. \A d \in Calls \ {c} : callStatus'[d] = callStatus[d]
    BY <1>0, <2>1 DEF TypeOK
  <2>5. Owned' /\ OnePaused'
    BY <1>1, <2>2, OwnersKept
  <2>6. CASE todo' \in {<<Resume>>, << <<"afterTool", None>> >>}
    <3>1. NoRelease' /\ ~Releasing' /\ \A d \in Calls : ~Now("launch", d)'
      <4>1. CASE todo' = <<Resume>>
        BY <4>1 DEF NoRelease, Releasing, Now, Resume
      <4>2. CASE todo' = << <<"afterTool", None>> >>
        BY <4>2 DEF NoRelease, Releasing, Now
      <4> QED
        BY <2>6, <4>1, <4>2
    <3>2. TokensCancelled' /\ SettlesActive'
      BY <1>t, <2>2, <2>4, <3>1 DEF NoRelease, SettlesActive
    <3>3. SlotsMatch'
      BY <1>1, <1>4, <2>1, <2>2, <3>1, SlotReleased DEF SettledCall
    <3> QED
      BY <2>5, <3>2, <3>3
  <2>7. CASE todo' = AbortSteps(callAttempt[c])
    <3>1. Head(todo') = <<"settle", callAttempt[c]>> /\ todo' # <<>>
      BY <2>3, <2>7 DEF AbortSteps
    <3>2. SettlesActive' /\ Releasing' /\ \A a \in Attempts : ~Now("fail", a)' /\ ~Now("abort", a)'
      BY <1>1, <2>3, <3>1 DEF SettlesActive, Releasing, Now
    <3>3. TokensCancelled'
      BY <1>t, <2>2, <2>4, <3>2
    <3>4. RunningCalls' \subseteq RunningCalls
      BY <2>1, <2>4 DEF RunningCalls
    <3>5. SlotsMatch'
      BY <3>2, <3>4, SlotsReleased
    <3> QED
      BY <2>5, <3>2, <3>3, <3>5
  <2> QED
    BY <1>4, <2>6, <2>7
<1> QED
  BY <1>3, <1>4 DEF ToolResult, Return, ResumeSteps, Resume

\* Outside the running process nothing is owned and nothing runs.
LEMMA QuietOwners ==
  ASSUME EffectIInv', OwnerFacts, phase' \in {"recovering", "down", "stopped"}, UNCHANGED stranded,
         RunningCalls' \subseteq RunningCalls,
         \A a \in Attempts : status'[a] = "AwaitingTools" => status[a] = "AwaitingTools"
  PROVE  OwnerFacts'
<1> USE DEF OwnerFacts
<1>1. QuietUnlessUp' /\ HandlerType'
  BY DEF EffectIInv, Control
<1>2. NoRelease'
  <2>1. CASE todo' = <<>>
    BY <2>1 DEF NoRelease, Now
  <2>2. CASE todo' # <<>>
    <3>1. todo' \in Seq(RecoverySteps)
      BY <1>1, <2>2 DEF HandlerType
    <3>2. Head(todo') \in RecoverySteps
      BY <2>2, <3>1
    <3> QED
      BY <3>2 DEF NoRelease, Now, RecoverySteps, RecoverAttemptSteps
  <2> QED
    BY <2>1, <2>2
<1>3. Owned' /\ OnePaused' /\ SettlesActive'
  BY <1>2 DEF Owned, OnePaused, SettlesActive, NoRelease
<1>4. TokensCancelled'
  BY <1>1, <1>2 DEF TokensCancelled, NoRelease, QuietUnlessUp
<1>5. SlotsMatch'
  BY <1>1, SlotsReleased DEF QuietUnlessUp
<1> QED
  BY <1>3, <1>4, <1>5

\* The catalog, the end of the process and its start.
LEMMA ProcessOwners ==
  ASSUME EffectIInv, EffectIInv', OwnerFacts, CatalogStep \/ Crash \/ Restart
  PROVE  OwnerFacts'
<1> USE DEF boundVars, activeVars, taskVars, worldVars, LogOnly, vars, sessionVars, attemptVars, callVars
<1>n. Idle => /\ phase = "up" /\ ~Releasing
              /\ \A b \in Attempts : ~Handles(b)
              /\ \A c \in Calls : ~Now("launch", c)
  BY DEF Idle, Handles, Releasing, Now
<1>1. ASSUME CatalogRefused PROVE OwnerFacts'
  <2>1. Idle /\ UNCHANGED <<vars, todo, active, cancelled, slots, restarts, runner, stream, stranded>>
    BY <1>1 DEF CatalogRefused
  <2>2. NoRelease' /\ \A c \in Calls : ~Now("launch", c)'
    BY <2>1 DEF Idle, NoRelease, Now
  <2> QED
    BY <1>n, <2>1, <2>2, OwnersUntouched DEF Live
<1>2. ASSUME NEW a \in Attempts, ResumeBound(a) PROVE OwnerFacts'
  <2>1. Now("spawn", a)'
    BY <1>2 DEF ResumeBound, Return, Now
  <2> QED
    BY <1>2, <1>n, <2>1, TurnOwned DEF ResumeBound, Idle
<1>3. ASSUME Crash PROVE OwnerFacts'
  BY <1>3, QuietOwners DEF Crash, ProcessEnds, RunningCalls
<1>4. ASSUME Restart PROVE OwnerFacts'
  BY <1>4, QuietOwners DEF Restart, RunningCalls
<1> QED
  BY <1>1, <1>2, <1>3, <1>4 DEF CatalogStep

\* Recovery settles, and pauses nothing.
LEMMA RecoveringOwners ==
  ASSUME EffectIInv, EffectIInv', OwnerFacts, RecoverCalls \/ \E a \in Attempts : RecoverAttempt(a)
  PROVE  OwnerFacts'
<1> USE DEF EffectIInv, LogOnly, vars, sessionVars, attemptVars, callVars, Commit, MoveAttempt, MoveCall,
            SettleCall, AttemptIn, CallIn
<1>0. TypeOK /\ Control
  BY DEF IInv
<1>1. ASSUME RecoverCalls PROVE OwnerFacts'
  <2>1. phase' = "recovering"
    BY <1>0, <1>1, RecoveryIsRecovering DEF RecoverCalls, Control
  <2>2. ASSUME NEW c \in Calls, RecoverCall(c) PROVE OwnerFacts'
    <3>1. UNCHANGED attemptVars
      BY <2>2 DEF RecoverCall, CompleteToolCall, MarkToolCallUnknown, DenyToolCall, CancelToolCall
    <3>2. PICK s \in SettledCall : callStatus' = [callStatus EXCEPT ![c] = s]
      BY <2>2 DEF RecoverCall, CompleteToolCall, MarkToolCallUnknown, DenyToolCall, CancelToolCall, SettledCall
    <3>3. RunningCalls' \subseteq RunningCalls
      BY <1>0, <3>2 DEF RunningCalls, SettledCall, TypeOK
    <3> QED
      BY <1>1, <2>1, <3>1, <3>3, QuietOwners DEF RecoverCalls, worldVars
  <2> QED
    BY <1>1, <2>1, <2>2, QuietOwners DEF RecoverCalls, RunningCalls, worldVars
<1>2. ASSUME NEW a \in Attempts, RecoverAttempt(a) PROVE OwnerFacts'
  <2>1. phase' = "recovering"
    BY <1>0, <1>2, RecoveryIsRecovering DEF RecoverAttempt, Control
  <2>2. UNCHANGED callVars
    BY <1>2 DEF RecoverAttempt, FailAttempt, MarkAttemptUnknown
  <2>3. status' = status \/ status' = [status EXCEPT ![a] = "Failed"] \/ status' = [status EXCEPT ![a] = "Unknown"]
    BY <1>2 DEF RecoverAttempt, FailAttempt, MarkAttemptUnknown
  <2>4. \A b \in Attempts : status'[b] = "AwaitingTools" => status[b] = "AwaitingTools"
    BY <1>0, <2>3 DEF TypeOK
  <2> QED
    BY <1>2, <2>1, <2>2, <2>4, QuietOwners DEF RunningCalls, RecoverAttempt, worldVars
<1> QED
  BY <1>1, <1>2

\* The process opens its current session or another one: what is left was
\* paused, and is active again or stranded, or was bound and not sent.
LEMMA BootOwners ==
  ASSUME EffectIInv, EffectIInv', OwnerFacts, NEW mode \in RestartModes, Boot(mode)
  PROVE  OwnerFacts'
<1> USE DEF OwnerFacts, EffectIInv, EffectFacts, taskVars, boundVars, vars, attemptVars, callVars
<1>0. TypeOK /\ CoordTypeOK /\ QuietUnlessUp /\ BoundsType
  BY DEF IInv, Control
<1>1. /\ phase = "recovering" /\ phase' = "up" /\ todo = <<>>
      /\ UNCHANGED <<vars, order, slots, cancelled, taskVars, restarts>>
  BY DEF Boot
<1>2. NoRelease' /\ ~Releasing' /\ \A c \in Calls : ~Now("launch", c)'
  <2>1. CASE todo' = <<>>
    BY <2>1 DEF NoRelease, Releasing, Now
  <2>2. CASE todo' = <<Resume>>
    BY <2>2 DEF NoRelease, Releasing, Now, Resume
  <2> QED
    BY <2>1, <2>2 DEF Boot, Return, ResumeSteps, Resume
<1>3. \A a \in Attempts :
         /\ status[a] \notin {"Prepared", "CancellationRequested"}
         /\ status[a] = "InFlight" => PendingBindings(a) # {}
  BY <1>1 DEF RecoveryFacts, ToRecover
<1>4. /\ \A a \in Attempts : status[a] = "AwaitingTools" => active' = a \/ a \in stranded'
      /\ OnePaused'
  <2>1. CASE mode = "opened" \/ stranded # {}
    <3>1. stranded' = PausedRuns \ {active'}
      BY <2>1 DEF Boot
    <3>2. \A a \in Attempts : status[a] = "AwaitingTools" => active' = a \/ a \in stranded'
      BY <3>1 DEF PausedRuns
    <3> QED
      BY <1>1, <3>2 DEF OnePaused
  <2>2. CASE mode # "opened" /\ stranded = {}
    <3>1. stranded' = {} /\ active' = NewestPaused
      BY <2>2, RestartModesAssumption DEF Boot
    <3>2. \A a \in Attempts : status[a] = "AwaitingTools" => active' = a
      BY <1>1, <2>2, <3>1, NewestIsPaused DEF OnePaused
    <3> QED
      BY <1>1, <2>2, <3>2 DEF OnePaused
  <2> QED
    BY <2>1, <2>2
<1>5. \A a \in Attempts : PendingBindings(a)' = PendingBindings(a)
  BY <1>1 DEF PendingBindings, NextTurn
<1>6. restarts > 0
  BY <1>0, <1>1 DEF BoundsType
<1>7. \A a \in Attempts : status[a] \in {"Absent", "InFlight", "AwaitingTools"} \cup SettledAttempt
  BY <1>0, <1>3 DEF TypeOK, SettledAttempt, AttemptStatus
<1>8. Owned'
  BY <1>1, <1>3, <1>4, <1>5, <1>6, <1>7 DEF Owned, Unsettled, Dormant
<1>9. TokensCancelled' /\ SettlesActive'
  BY <1>0, <1>1, <1>2 DEF TokensCancelled, SettlesActive, NoRelease, QuietUnlessUp, Live
<1>10. \A c \in Calls : callStatus[c] # "Running"
  BY <1>1 DEF RecoveryFacts, Now, KeepsAsking, SettledCall
<1>11. RunningCalls' = {} /\ Admitted' = {}
  BY <1>1, <1>10 DEF RunningCalls, Admitted
<1>12. SlotsMatch'
  BY <1>0, <1>1, <1>11, FS_EmptySet DEF SlotsMatch, QuietUnlessUp
<1> QED
  BY <1>4, <1>8, <1>9, <1>12

\* The first process owns everything there is.
LEMMA OwnerInit == CoordInit => OwnerFacts
<1> SUFFICES ASSUME CoordInit PROVE OwnerFacts
  OBVIOUS
<1> USE DEF CoordInit, Init
<1>1. Owned /\ OnePaused /\ SettlesActive
  BY DEF Owned, Unsettled, OnePaused, SettlesActive, Now
<1>2. TokensCancelled
  BY DEF TokensCancelled, Live, Now
<1>3. RunningCalls = {}
  BY DEF RunningCalls
<1>4. SlotsMatch
  BY <1>3, FS_EmptySet DEF SlotsMatch
<1> QED
  BY <1>1, <1>2, <1>4 DEF OwnerFacts

\* Ownership is inductive.
LEMMA OwnerStep ==
  ASSUME EffectIInv, EffectIInv', OwnerFacts, [CoordNext]_allVars
  PROVE  OwnerFacts'
<1>1. CASE UNCHANGED allVars
  <2> USE <1>1 DEF allVars, vars, sessionVars, attemptVars, callVars, coordVars, activeVars, taskVars,
                   worldVars, boundVars, OwnerFacts
  <2>1. \A a \in Attempts : PendingBindings(a)' = PendingBindings(a)
    BY DEF PendingBindings, NextTurn
  <2>2. Owned' /\ OnePaused' /\ SettlesActive'
    BY <2>1 DEF Owned, Unsettled, Dormant, Handles, OnePaused, SettlesActive, Now
  <2>3. TokensCancelled'
    BY DEF TokensCancelled, Live, Now, CallsSettled, CallsOf
  <2>4. SlotsMatch'
    BY DEF SlotsMatch, RunningCalls, Admitted, Releasing, Now
  <2> QED
    BY <2>2, <2>3, <2>4
<1>2. CASE HandlerStep
  BY <1>2, AttemptHandlerOwners, CallHandlerOwners, PausedHandlerOwners DEF HandlerStep
<1>3. CASE UserIntent
  BY <1>3, IntentOwners
<1>4. CASE (\E a \in Attempts : StreamStep(a)) \/ (\E c \in Calls : ToolResult(c))
  BY <1>4, StreamOwners, ToolResultOwners
<1>5. CASE CatalogStep \/ Crash \/ Restart \/ RecoveryStep
  BY <1>5, ProcessOwners, RecoveringOwners, BootOwners DEF RecoveryStep
<1> QED
  BY <1>1, <1>2, <1>3, <1>4, <1>5 DEF CoordNext

-----------------------------------------------------------------------------
(* The owner theorems.                                                     *)

OwnerIInv == EffectIInv /\ OwnerFacts

\* Who owns what, in opened sessions too, is inductive on top of the effect
\* invariant.
THEOREM OwnerInvariant == CoordSpec => []OwnerIInv
<1>1. CoordInit => OwnerIInv
  BY EffectInit, InvariantInit, OwnerInit DEF CoordInit, EffectIInv, OwnerIInv
<1>2. OwnerIInv /\ [CoordNext]_allVars => OwnerIInv'
  BY EffectStep, OwnerStep DEF OwnerIInv
<1> QED
  BY <1>1, <1>2, PTL DEF CoordSpec

\* The concurrency budget of the active run never forgets one of its running
\* calls, and counts nothing else unless a stranded run's tool took a slot.
THEOREM BudgetIsExact == CoordSpec => []SlotsCountRunningCalls
<1>1. OwnerIInv => SlotsCountRunningCalls
  <2> SUFFICES ASSUME OwnerIInv, Idle, active # None
               PROVE  LET running == {c \in CallsOf(active) : callStatus[c] = "Running"}
                      IN  /\ Cardinality(running) <= slots
                          /\ stranded = {} => Cardinality(running) = slots
    BY DEF SlotsCountRunningCalls
  <2>1. phase = "up" /\ ~Releasing /\ \A c \in Calls : ~Now("launch", c)
    BY DEF Idle, Releasing, Now
  <2>2. Admitted = {c \in CallsOf(active) : callStatus[c] = "Running"}
    BY <2>1 DEF Admitted, RunningCalls, CallsOf
  <2> QED
    BY <2>1, <2>2 DEF OwnerIInv, OwnerFacts, SlotsMatch
<1> QED
  BY <1>1, OwnerInvariant, PTL

\* Between handlers nothing runs or waits without somebody responsible for it,
\* except for a stranded run.
THEOREM NothingOrphaned == CoordSpec => []NothingIsOrphaned
<1>1. OwnerIInv => NothingIsOrphaned
  <2> SUFFICES ASSUME OwnerIInv, Idle
               PROVE  /\ \A c \in Calls : callStatus[c] = "Running" => runner[c] # None
                      /\ \A a \in Attempts : Live(a) /\ active # a => a \in cancelled
                      /\ \A c \in Calls :
                            callAttempt[c] \notin stranded =>
                              /\ runner[c] \in {None, active} \cup cancelled
                              /\ callStatus[c] = "PermissionPending" => active = callAttempt[c]
    BY DEF NothingIsOrphaned
  <2> USE DEF OwnerIInv, OwnerFacts
  <2>1. phase = "up" /\ todo = <<>>
    BY DEF Idle
  <2>2. \A c \in Calls : callStatus[c] = "Running" => runner[c] # None
    BY <2>1 DEF EffectIInv, EffectFacts, CallFacts, Now
  <2>3. /\ \A a \in Attempts : Live(a) /\ active # a => a \in cancelled
        /\ \A c \in Calls :
              callAttempt[c] \notin stranded => runner[c] \in {None, active} \cup cancelled
    BY DEF TokensCancelled
  <2>4. \A c \in Calls :
           callAttempt[c] \notin stranded /\ callStatus[c] = "PermissionPending" => active = callAttempt[c]
    BY <2>1, OpenCallIsActive DEF ToolCallStatus, SettledCall
  <2> QED
    BY <2>2, <2>3, <2>4
<1> QED
  BY <1>1, OwnerInvariant, PTL

\* Between handlers every unsettled attempt is the active one, a bound turn that
\* recovery kept for the next live catalog, or stranded.
THEOREM RunsHaveOwners == CoordSpec => []EveryRunHasAnOwner
<1>1. OwnerIInv => EveryRunHasAnOwner
  <2> SUFFICES ASSUME OwnerIInv, Idle
               PROVE  /\ active # None =>
                            status[active] \in {"InFlight", "AwaitingTools", "CancellationRequested"}
                      /\ \A a \in Attempts : Unsettled(a) => active = a \/ a \in stranded \/ Dormant(a)
    BY DEF EveryRunHasAnOwner, Unsettled, Dormant
  <2>1. phase = "up" /\ \A a \in Attempts : ~Handles(a)
    BY DEF Idle, Handles, Now
  <2> QED
    BY <2>1 DEF OwnerIInv, OwnerFacts, EffectIInv, EffectFacts, AttemptFacts, Owned
<1> QED
  BY <1>1, OwnerInvariant, PTL

\* A refused command stops the coordinator only on an answer that came too late,
\* on one for a stranded run, or on an ambiguous memory proposal.
THEOREM StopsOnlyOnAnswers == CoordSpec => OnlyAnswersStopIt
<1> DEFINE Late == phase # "stopped" /\ phase' = "stopped" =>
                     \E c \in Calls :
                        \/ Now("propose", c)
                        \/ /\ Now("startCall", c)
                           /\ answer[c] = "AllowOnce"
                           /\ status[callAttempt[c]] = "CancellationRequested"
                        \/ /\ Now("launch", c)
                           /\ active = None /\ callAttempt[c] \in stranded
<1>1. OwnerIInv /\ [CoordNext]_allVars => [Late]_allVars
  <2> SUFFICES ASSUME OwnerIInv, CoordNext, phase # "stopped", phase' = "stopped" PROVE Late
    BY DEF allVars, coordVars
  <2> USE DEF OwnerIInv, OwnerFacts, EffectIInv, EffectFacts
  <2>0. Control /\ phase' # phase
    OBVIOUS
  <2>1. PICK c \in Calls : StartCall(c) \/ Launch(c) \/ Propose(c)
    <3>1. ~UserIntent
      BY <2>0 DEF UserIntent, CreateOrSelect, EditSession, EditVars, SubmitPrompt, RetryAttempt, Cancel,
                  AnswerPermission, SubmitCredential, coordVars
    <3>2. ~(\E a \in Attempts : StreamStep(a)) /\ ~(\E c \in Calls : ToolResult(c)) /\ ~CatalogStep
      BY <2>0 DEF StreamStep, StreamEnds, StreamOutput, StreamCall, StreamPaused, StreamCompleted,
                  StreamEnded, StreamDropped, StreamVars, ToolResult, CatalogStep, CatalogRefused,
                  ResumeBound, LogOnly
    <3>3. ~Crash /\ ~Restart /\ ~RecoveryStep
      BY <2>0 DEF Crash, ProcessEnds, Restart, RecoveryStep, RecoverCalls, RecoverAttempt, Boot, LogOnly
    <3>4. HandlerStep
      BY <3>1, <3>2, <3>3 DEF CoordNext
    <3> QED
      BY <2>0, <3>4 DEF HandlerStep, CancelCalls, Configure, Start, Bind, Dispatch, Spawn, Settle, Fail, Abort,
                        Permission, Deny, Proposed, MaybeResume, AfterTool, LogOnly
  <2>2. CASE StartCall(c)
    <3>1. phase = "up" /\ Now("startCall", c) /\ ~DecideStartToolCall(c)
      BY <2>0, <2>2, StartCallNext
    <3>2. callStatus[c] = "Authorized" /\ (answer[c] = "AllowOnce" \/ status[callAttempt[c]] = "InFlight")
      BY <3>1 DEF CallStages
    <3>3. status[callAttempt[c]] \in {"InFlight", "AwaitingTools", "CancellationRequested"} /\ ~archived
      BY <3>2 DEF IInv, SettledAttemptsHaveSettledCalls, ArchivedSessionIsQuiet, ToolCallStatus, SettledCall
    <3>4. status[callAttempt[c]] = "CancellationRequested"
      BY <3>1, <3>2, <3>3 DEF DecideStartToolCall, CallIn, AttemptIn
    <3> QED
      BY <3>1, <3>2, <3>4
  <2>3. CASE Launch(c)
    <3>1. phase = "up" /\ Now("launch", c) /\ active = None
      BY <2>0, <2>3, LaunchNext
    <3>2. callStatus[c] = "Running"
      BY <3>1 DEF CallStages
    <3>3. callAttempt[c] \in stranded
      BY <3>1, <3>2, RunningCallIsActive, NoneAssumption
    <3> QED
      BY <3>1, <3>3
  <2>4. CASE Propose(c)
    BY <2>0, <2>4, ProposeNext
  <2> QED
    BY <2>1, <2>2, <2>3, <2>4
<1>2. CoordSpec => [][Late]_allVars
  BY <1>1, OwnerInvariant, PTL DEF CoordSpec
<1> QED
  BY <1>2 DEF OnlyAnswersStopIt

=============================================================================
