------------------------------ MODULE ContextEpochs ------------------------------
(***************************************************************************)
(* Provider-turn context over the memory ledger: how the coordinator       *)
(* (crates/autoharness-app/src/coordinator.rs) prepares the context of a   *)
(* turn, binds it durably (context_store.rs), dispatches it, continues an  *)
(* epoch after tools, compacts history, recovers a bound turn after a      *)
(* crash (engine_actor.rs), and how user, tool and compaction commands     *)
(* reach the ledger around it.                                             *)
(*                                                                         *)
(* One session is followed.  `handler' is the coordinator's place inside   *)
(* the handler it is running: it serves no intent until that is "none".    *)
(***************************************************************************)
EXTENDS MemoryLedger

CONSTANTS
    Authored,       \* the memory the user writes or imports
    Proposal,       \* the identity derived from the proposal tool call
    Compaction,     \* the identity derived from (session, predecessor, cutoff, content)
    Excerpts,       \* whether evidence carries an excerpt: a subset of BOOLEAN
    MaxAttempts,    \* bound: attempts of the session
    MaxTurns,       \* bound: context turns of the session
    MaxMutations,   \* bound: ledger mutations after which the user sends none
    MaxAdmitted     \* memories that fit the context's memory budget

ASSUME MemoryNamesAssumption ==
    /\ {Authored, Proposal, Compaction} = Memories
    /\ Authored # Proposal /\ Authored # Compaction /\ Proposal # Compaction
ASSUME ExcerptsAssumption == Excerpts \subseteq BOOLEAN
ASSUME BoundsAssumption == MaxAttempts \in Nat /\ MaxTurns \in Nat \ {0} /\ MaxMutations \in Nat /\ MaxAdmitted \in Nat

VARIABLES
    session,    \* "open" or "deleted"
    attempt,    \* number of the newest attempt, 0 before the first
    status,     \* its status
    started,    \* its turns_started
    completed,  \* epochs in which completed attempts ended, in order
    epochs,     \* context_epochs: reason, memory generation, predecessor
    identity,   \* what the compaction memory's identity was derived from
    exact,      \* the pending binding is the session's last event
    call,       \* status of the memory proposal tool call
    active,     \* the coordinator's self.active is set
    handler,    \* place in the running handler
    snapshot    \* the prepared context that awaits its commit

contextVars == <<session, attempt, status, started, completed, epochs, identity, exact, call,
                 active, handler, snapshot>>
vars == <<memoryVars, contextVars>>

NoSnapshot == [kind |-> "none"]
NoIdentity == [predecessor |-> 0, cutoff |-> 0]

Init ==
    /\ MemoryInit
    /\ session = "open"
    /\ attempt = 0 /\ status = "none" /\ started = 0
    /\ completed = <<>> /\ epochs = <<>> /\ identity = NoIdentity
    /\ exact = FALSE /\ call = "none" /\ active = FALSE
    /\ handler = "none" /\ snapshot = NoSnapshot

Settled == status \in {"none", "completed", "failed", "unknown"}
Serving == handler = "none"

\* The last committed turn is bound and not yet dispatched.
Pending ==
    /\ status = "inflight" /\ turns # <<>>
    /\ Last(turns).attempt = attempt /\ Last(turns).turn = started + 1

-----------------------------------------------------------------------------
(* Memory commands of the user; refused while a response is active. *)

MemoryMutationReady == Serving /\ ~active /\ mutationGeneration < MaxMutations

RememberMemory(verdict) ==
    /\ MemoryMutationReady
    /\ verdict \in Verdicts("user") /\ CreatePlanned(Authored, verdict)
    /\ AppendMemoryBatch(Authored, PlanCreate(Authored, Workspace, UserDraft(0), verdict))
    /\ UNCHANGED contextVars

ImportMemory(verdict) ==
    /\ MemoryMutationReady
    /\ verdict \in Verdicts("import") /\ CreatePlanned(Authored, verdict)
    /\ AppendMemoryBatch(Authored,
          PlanCreate(Authored, Workspace, UntrustedDraft("import", NoSession, FALSE), verdict))
    /\ UNCHANGED contextVars

ReviseMemory(m, r) ==
    /\ MemoryMutationReady
    /\ NextRevision(m) <= MaxRevisions
    /\ RevisePlanned(m, r, "accepted")
    /\ AppendMemoryBatch(m, PlanRevise(m, r))
    /\ UNCHANGED contextVars

\* The approved content is the proposal's own; erased content is refused.
ApproveMemoryProposal(m, r) ==
    /\ MemoryMutationReady
    /\ NextRevision(m) <= MaxRevisions
    /\ ApprovePlanned(m, r, "accepted") /\ HasContent(m, r)
    /\ AppendMemoryBatch(m, PlanApprove(m, r))
    /\ UNCHANGED contextVars

RejectMemoryProposal(m, r) ==
    /\ MemoryMutationReady
    /\ SinglePlanned(m, r, {"proposed"})
    /\ AppendMemoryBatch(m, PlanSingle("RevisionRejected", r))
    /\ UNCHANGED contextVars

RetractMemory(m, r) ==
    /\ MemoryMutationReady
    /\ SinglePlanned(m, r, {"active"})
    /\ AppendMemoryBatch(m, PlanSingle("MemoryRetracted", r))
    /\ UNCHANGED contextVars

\* Deletion names the last revision.
DeleteMemory(m) ==
    LET r == Len(items[m].revisions)
    IN  /\ MemoryMutationReady
        /\ SinglePlanned(m, r, Deletable)
        /\ AppendMemoryBatch(m, PlanSingle("MemoryDeleted", r))
        /\ UNCHANGED contextVars

-----------------------------------------------------------------------------
(* Starting a run and preparing its context. *)

StartAttempt ==
    /\ Serving /\ ~active /\ Settled /\ session = "open"
    /\ attempt < MaxAttempts /\ Len(turns) < MaxTurns
    /\ attempt' = attempt + 1 /\ status' = "inflight" /\ started' = 0
    /\ handler' = "prepare"
    /\ UNCHANGED <<memoryVars, session, completed, epochs, identity, exact, call, active, snapshot>>

RunTurn == started + 1

\* The baseline turn of the epoch the attempt's previous turn belongs to.
EpochOf(a, n) ==
    LET i == CHOOSE i \in DOMAIN turns : turns[i].attempt = a /\ turns[i].turn = n
    IN  turns[i].epoch

\* A baseline narrowed to what the ledger still has active.
BaselineOfToday(e) ==
    LET i == CHOOSE i \in DOMAIN turns :
                turns[i].epoch = e /\ \A j \in DOMAIN turns : turns[j].epoch = e => i <= j
        today == turns[i].admitted \cap SearchMemory
    IN  [turns[i] EXCEPT !.admitted = today, !.kept = today]

Baseline(e) ==
    LET i == CHOOSE i \in DOMAIN turns :
                turns[i].epoch = e /\ \A j \in DOMAIN turns : turns[j].epoch = e => i <= j
    IN  turns[i]

\* load_frozen_context_content: every retained byte of a turn, or nothing.
ContentRetained(turn) ==
    /\ turn.prelude # "erased"
    /\ turn.kept = turn.admitted
    /\ \A a \in turn.admitted : HasContent(a.memory, a.revision)

FrozenBaselineRetained ==
    RunTurn > 1 => ContentRetained(Baseline(EpochOf(attempt, started)))

\* fail_context_preparation: the attempt fails closed and nothing is sent.
FailContextPreparation ==
    /\ status' = "failed" /\ handler' = "none" /\ active' = FALSE /\ snapshot' = NoSnapshot
    /\ UNCHANGED <<session, attempt, started, completed, epochs, identity, exact, call>>

Snapshot(kind, admitted) ==
    [kind |-> kind, turn |-> RunTurn, admitted |-> admitted, generation |-> generation]

\* Ranking and the token budget: as many complete items as fit, in any order.
Fitting ==
    {admitted \in SUBSET SearchMemory :
        Cardinality(admitted) = Min({MaxAdmitted, Cardinality(SearchMemory)})}

\* First turn of an attempt: a new epoch over what the search returns.
PrepareNewContextEpoch ==
    /\ handler = "prepare" /\ RunTurn = 1
    /\ \E admitted \in Fitting : snapshot' = Snapshot("new", admitted)
    /\ handler' = "bind"
    /\ UNCHANGED <<memoryVars, session, attempt, status, started, completed, epochs, identity,
                   exact, call, active>>

\* A tool continuation repeats the baseline of its epoch.
PrepareFrozenContinuation ==
    /\ handler = "prepare" /\ RunTurn > 1 /\ FrozenBaselineRetained
    /\ snapshot' = Snapshot("frozen", Baseline(EpochOf(attempt, started)).admitted)
    /\ handler' = "bind"
    /\ UNCHANGED <<memoryVars, session, attempt, status, started, completed, epochs, identity,
                   exact, call, active>>

\* compaction_predecessor_epoch: the running attempt's epoch, else the last
\* compaction, else the epoch of the newest completed attempt.
CompactionEpochs == {e \in DOMAIN epochs : epochs[e].reason = "compaction"}

CompactionPredecessor ==
    CASE RunTurn > 1 -> EpochOf(attempt, started)
      [] RunTurn = 1 /\ CompactionEpochs # {} -> Max(CompactionEpochs)
      [] OTHER -> Last(completed)

CompactionIdentity == [predecessor |-> CompactionPredecessor, cutoff |-> Len(completed)]

\* The request does not fit: the history of completed attempts is summarised in
\* a proposal (ensure_compaction_proposal).  Bound: one compaction identity.
Compacts ==
    /\ handler = "prepare" /\ completed # <<>> /\ FrozenBaselineRetained
    /\ CompactionEpochs = {} \/ identity # CompactionIdentity
    /\ identity \in {NoIdentity, CompactionIdentity}

CompactionDraft(excerpt) == UntrustedDraft("compaction", Session, excerpt)

CreateCompactionProposal(excerpt) ==
    /\ Compacts /\ CreatePlanned(Compaction, "needs_review")
    /\ AppendMemoryBatch(Compaction,
          PlanCreate(Compaction, Session, CompactionDraft(excerpt), "needs_review"))
    /\ identity' = CompactionIdentity /\ handler' = "compact"
    /\ UNCHANGED <<session, attempt, status, started, completed, epochs, exact, call, active, snapshot>>

\* The proposal of an earlier try is found committed exactly.
ReuseCompactionProposal ==
    /\ Compacts /\ Exists(Compaction) /\ ExactProposalCommitted(Compaction, "compaction")
    /\ handler' = "compact"
    /\ UNCHANGED <<memoryVars, session, attempt, status, started, completed, epochs, identity,
                   exact, call, active, snapshot>>

PrepareCompactionEpoch ==
    /\ handler = "compact"
    /\ \E admitted \in Fitting : snapshot' = Snapshot("compaction", admitted)
    /\ handler' = "bind"
    /\ UNCHANGED <<memoryVars, session, attempt, status, started, completed, epochs, identity,
                   exact, call, active>>

\* The baseline is erased, the budget cannot be met, or the compaction proposal
\* is neither new nor exactly committed.
PreparationFails ==
    /\ handler = "prepare"
    /\ \/ ~FrozenBaselineRetained
       \/ completed = <<>>
       \/ Compacts /\ Exists(Compaction) /\ ~ExactProposalCommitted(Compaction, "compaction")
    /\ FailContextPreparation
    /\ UNCHANGED memoryVars

-----------------------------------------------------------------------------
(* Committing and binding: commit_context_turn_and_bind, one transaction. *)

NewEpoch == snapshot.kind # "frozen"
SnapshotEpoch == IF NewEpoch THEN Len(epochs) + 1 ELSE EpochOf(attempt, started)

\* validate_context_boundary of a new epoch: the generation the snapshot was
\* taken at, and every admitted revision still active and retained.
BoundaryHolds ==
    /\ snapshot.generation = generation
    /\ \A a \in snapshot.admitted :
          /\ StateOf(items[a.memory], a.revision) = "active"
          /\ HasContent(a.memory, a.revision)

\* validate_frozen_epoch_continuation against the stored baseline.
ContinuationHolds ==
    LET base == Baseline(SnapshotEpoch)
    IN  base.kept = base.admitted /\ base.admitted = snapshot.admitted

\* persist_compaction_boundary: the summary is still an open proposal.
SummaryIsProposed == StateOf(items[Compaction], 1) = "proposed"

CommitAccepts ==
    /\ IF NewEpoch THEN BoundaryHolds ELSE ContinuationHolds
    /\ snapshot.kind = "compaction" => SummaryIsProposed

TurnRow ==
    [attempt |-> attempt, turn |-> snapshot.turn, epoch |-> SnapshotEpoch,
     admitted |-> snapshot.admitted, kept |-> snapshot.admitted,
     prelude |-> IF snapshot.admitted = {} THEN "absent" ELSE "retained"]

EpochRow ==
    [reason |-> snapshot.kind, generation |-> snapshot.generation,
     predecessor |-> IF snapshot.kind = "compaction" THEN CompactionPredecessor ELSE 0]

CommitContextTurnAndBind ==
    /\ handler = "bind" /\ CommitAccepts
    /\ turns' = Append(turns, TurnRow)
    /\ epochs' = IF NewEpoch THEN Append(epochs, EpochRow) ELSE epochs
    /\ exact' = TRUE /\ handler' = "dispatch" /\ snapshot' = NoSnapshot
    /\ UNCHANGED <<items, ledger, generation, mutationGeneration, tombstones, session, attempt,
                   status, started, completed, identity, call, active>>

CommitRefused ==
    /\ handler = "bind" /\ ~CommitAccepts
    /\ FailContextPreparation
    /\ UNCHANGED memoryVars

\* StartRunTurn and spawn_stream: the request leaves.
DispatchTurn ==
    /\ handler = "dispatch"
    /\ started' = started + 1 /\ active' = TRUE /\ exact' = FALSE /\ handler' = "none"
    /\ UNCHANGED <<memoryVars, session, attempt, status, completed, epochs, identity, call, snapshot>>

-----------------------------------------------------------------------------
(* What the provider answers, and the memory proposal tool. *)

Streaming == Serving /\ active /\ status = "inflight"

AttemptCompletes ==
    /\ Streaming
    /\ status' = "completed" /\ active' = FALSE
    /\ completed' = Append(completed, EpochOf(attempt, started))
    /\ UNCHANGED <<memoryVars, session, attempt, started, epochs, identity, exact, call, handler, snapshot>>

AttemptFails ==
    /\ Streaming
    /\ status' = "failed" /\ active' = FALSE
    /\ UNCHANGED <<memoryVars, session, attempt, started, completed, epochs, identity, exact, call,
                   handler, snapshot>>

\* The turn pauses for tools; its proposal call was started first.
PauseForTools ==
    /\ Streaming /\ Len(turns) < MaxTurns
    /\ status' = "awaiting"
    /\ \/ call = "none" /\ call' = "running" /\ handler' = "propose"
       \/ UNCHANGED call /\ handler' = "resume"
    /\ UNCHANGED <<memoryVars, session, attempt, started, completed, epochs, identity, exact,
                   active, snapshot>>

\* persist_memory_proposal: the deterministic command of the call commits.
PersistMemoryProposal(scope, excerpt) ==
    /\ handler = "propose" /\ CreatePlanned(Proposal, "needs_review")
    /\ AppendMemoryBatch(Proposal,
          PlanCreate(Proposal, scope, UntrustedDraft("tool", Session, excerpt), "needs_review"))
    /\ handler' = "proposed"
    /\ UNCHANGED <<session, attempt, status, started, completed, epochs, identity, exact, call,
                   active, snapshot>>

\* A rejected or invalid proposal fails its call and writes nothing.
ProposalRejected ==
    /\ handler = "propose"
    /\ call' = "failed" /\ handler' = "resume"
    /\ UNCHANGED <<memoryVars, session, attempt, status, started, completed, epochs, identity,
                   exact, active, snapshot>>

CompleteToolCall ==
    /\ handler = "proposed"
    /\ call' = "completed" /\ handler' = "resume"
    /\ UNCHANGED <<memoryVars, session, attempt, status, started, completed, epochs, identity,
                   exact, active, snapshot>>

\* maybe_resume_after_tools: back in flight, with the next turn to prepare.
ResumeAfterTools ==
    /\ \/ handler = "resume"
       \/ Serving /\ active /\ status = "awaiting"
    /\ status' = "inflight" /\ handler' = "prepare"
    /\ UNCHANGED <<memoryVars, session, attempt, started, completed, epochs, identity, exact, call,
                   active, snapshot>>

-----------------------------------------------------------------------------
(* Session edits and deletion. *)

\* A rename, an archive or a model selection appends a session event.
EditSession ==
    /\ Serving /\ session = "open" /\ exact
    /\ exact' = FALSE
    /\ UNCHANGED <<memoryVars, session, attempt, status, started, completed, epochs, identity, call,
                   active, handler, snapshot>>

DeleteSession ==
    /\ Serving /\ ~active /\ Settled /\ session = "open"
    /\ EraseSessionMemoryAndEvidence
    /\ session' = "deleted" /\ epochs' = <<>> /\ completed' = <<>>
    /\ UNCHANGED <<attempt, status, started, identity, exact, call, active, handler, snapshot>>

-----------------------------------------------------------------------------
(* Crash and recovery. *)

\* A recovery that does not look for the committed proposal.
RecoveredCallBlind == IF call = "running" THEN "unknown" ELSE call

\* reconcile_committed_memory_proposal.
RecoveredCall ==
    CASE call # "running" -> call
      [] call = "running" /\ ExactProposalCommitted(Proposal, "tool") -> "completed"
      [] OTHER -> "unknown"

\* load_exact_pending_context_turn: bound, last in the session, every byte there.
ExactPendingContext ==
    Pending /\ exact /\ Last(turns).prelude # "erased" /\ Last(turns).kept = Last(turns).admitted

\* is_provider_dispatch_ready: started or resumed, and its next turn not sent.
ProviderDispatchReady ==
    status = "inflight" /\ (Pending \/ handler \in {"prepare", "compact", "bind"})

\* reconcile_interrupted_attempts for the newest attempt.
RecoveredStatus ==
    CASE status # "inflight" -> status
      [] status = "inflight" /\ ExactPendingContext -> "inflight"
      [] ProviderDispatchReady /\ ~ExactPendingContext -> "failed"
      [] status = "inflight" /\ ~ProviderDispatchReady -> "unknown"

\* The process dies anywhere and starts again; recovery runs before any intent,
\* and a run paused for tools becomes the active one.
CrashAndRecover ==
    /\ status' = RecoveredStatus /\ call' = RecoveredCall
    /\ active' = (status = "awaiting") /\ handler' = "none" /\ snapshot' = NoSnapshot
    /\ UNCHANGED <<memoryVars, session, attempt, started, completed, epochs, identity, exact>>

\* A recovered turn sent without loading its retained content again.
ResumeBoundTurnTrusting ==
    /\ Serving /\ ~active /\ Pending /\ exact
    /\ started' = started + 1 /\ active' = TRUE /\ exact' = FALSE
    /\ UNCHANGED <<memoryVars, session, attempt, status, completed, epochs, identity, call, handler, snapshot>>

\* resume_bound_turn_after_live_catalog: the recovered turn is sent if it is
\* exactly what was bound; otherwise a warning is logged and nothing changes.
ResumeBoundTurn ==
    /\ Serving /\ ~active /\ ExactPendingContext /\ ContentRetained(Last(turns))
    /\ started' = started + 1 /\ active' = TRUE /\ exact' = FALSE
    /\ UNCHANGED <<memoryVars, session, attempt, status, completed, epochs, identity, call, handler, snapshot>>

-----------------------------------------------------------------------------
UserMemoryCommand ==
    \/ \E v \in Verdicts("user") : RememberMemory(v)
    \/ \E v \in Verdicts("import") : ImportMemory(v)
    \/ \E m \in Memories : DeleteMemory(m)
    \/ \E m \in Memories, r \in 1..MaxRevisions :
          \/ ReviseMemory(m, r) \/ ApproveMemoryProposal(m, r)
          \/ RejectMemoryProposal(m, r) \/ RetractMemory(m, r)

PrepareStep ==
    \/ PrepareNewContextEpoch \/ PrepareFrozenContinuation \/ PrepareCompactionEpoch
    \/ ReuseCompactionProposal \/ PreparationFails
    \/ \E x \in Excerpts : CreateCompactionProposal(x)

BindStep == CommitContextTurnAndBind \/ CommitRefused \/ DispatchTurn

ToolStep ==
    \/ PauseForTools \/ ProposalRejected \/ CompleteToolCall \/ ResumeAfterTools
    \/ \E s \in Scopes, x \in Excerpts : PersistMemoryProposal(s, x)

SessionStep ==
    StartAttempt \/ AttemptCompletes \/ AttemptFails \/ EditSession \/ DeleteSession

RecoveryStep == CrashAndRecover \/ ResumeBoundTurn

Next == UserMemoryCommand \/ PrepareStep \/ BindStep \/ ToolStep \/ SessionStep \/ RecoveryStep

Spec == Init /\ [][Next]_vars

-----------------------------------------------------------------------------
(* Properties. *)

\* All turns of an epoch belong to one attempt and present the same memory
\* revisions, whatever the user, the tools, a compaction or a crash do between
\* them (validate_frozen_epoch_continuation, insert_or_reconcile_epoch).
EpochIsFrozen ==
    \A i, j \in DOMAIN turns :
        turns[i].epoch = turns[j].epoch =>
            /\ turns[i].admitted = turns[j].admitted
            /\ turns[i].attempt = turns[j].attempt

\* A request leaves only with every admitted byte retained: no dispatch, fresh
\* or recovered, carries a memory deleted since its turn was bound
\* (resume_bound_turn_after_live_catalog, load_frozen_context_content).
DispatchesRetainedContext ==
    [][started' = started + 1 =>
          /\ Last(turns).attempt = attempt /\ Last(turns).turn = started'
          /\ \A a \in Last(turns).admitted : HasContent(a.memory, a.revision)]_vars

\* The settled proposal call tells what is in the ledger: completed exactly when
\* its memory was created, failed or unknown only when it was not, also across a
\* crash between the two stores' commits.
ToolOutcomeMatchesLedger ==
    /\ call = "completed" => Exists(Proposal)
    /\ call \in {"none", "failed", "unknown"} => ~Exists(Proposal)
=============================================================================
