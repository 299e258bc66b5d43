------------------------------ MODULE MemoryLedger ------------------------------
(***************************************************************************)
(* The revisioned memory ledger: the planner of crates/autoharness-app/    *)
(* src/memory_runtime.rs, which turns one command into one batch of        *)
(* operations, and the SQLite store of crates/autoharness-store-sqlite/    *)
(* src/memory_store.rs, which appends the batch, projects it into items,   *)
(* revisions, evidence and a full-text index, and can rebuild every        *)
(* projection from the operations.                                         *)
(*                                                                         *)
(* A revision is named by its number within its memory.  Content, excerpts *)
(* and rendered context are present or erased; their text is abstract.     *)
(* A revision carries at most one piece of evidence.                       *)
(***************************************************************************)
EXTENDS Integers, FiniteSets, Sequences, SequencesExt, FiniteSetsExt

CONSTANTS
    Memories,       \* memory identities
    Session,        \* the session whose runs and deletion are followed
    Workspace,      \* the workspace scope
    NoSession,      \* evidence that names no session; the scope of no memory
    MaxRevisions    \* bound: revisions of one memory

ASSUME ScopeAssumption == Session # Workspace /\ Session # NoSession /\ Workspace # NoSession
ASSUME RevisionsAssumption == MaxRevisions \in Nat \ {0}

VARIABLES
    items,              \* memory_items with their memory_revisions, evidence and index rows
    ledger,             \* memory_operations of each memory, in sequence order
    generation,         \* memory_store_state.generation
    mutationGeneration, \* memory_store_state.mutation_generation
    tombstones,         \* memory_session_erasure_tombstones
    turns               \* context_turns with their admissions, in commit order

memoryVars == <<items, ledger, generation, mutationGeneration, tombstones, turns>>

Scopes == {Workspace, Session}

\* The row of a memory that does not exist.
Absent ==
    [scope |-> NoSession, lifecycle |-> "absent", sequence |-> 0, latest |-> 0,
     active |-> 0, revisions |-> <<>>, fts |-> {}]

MemoryInit ==
    /\ items = [m \in Memories |-> Absent]
    /\ ledger = [m \in Memories |-> <<>>]
    /\ generation = 0
    /\ mutationGeneration = 0
    /\ tombstones = {}
    /\ turns = <<>>

Exists(m) == items[m].sequence > 0
StateOf(item, r) == item.revisions[r].state
Sum(values) == FoldSet(LAMBDA m, total : values[m] + total, 0, DOMAIN values)

-----------------------------------------------------------------------------
(* Operations and drafts. *)

NoDraft == [origin |-> "none", supersedes |-> 0, source |-> NoSession, excerpt |-> FALSE]

\* An explicit user revision; it cites no session.
UserDraft(supersedes) == [NoDraft EXCEPT !.origin = "user", !.supersedes = supersedes]

\* A revision of untrusted origin, derived from the given session or document.
UntrustedDraft(origin, source, excerpt) ==
    [NoDraft EXCEPT !.origin = origin, !.source = source, !.excerpt = excerpt]

Operation(kind, revision, other, draft) ==
    [kind |-> kind, revision |-> revision, other |-> other, draft |-> draft,
     scope |-> NoSession, first |-> FALSE]

\* The causation chain of a batch: its first operation names the command, the
\* others an operation before them.
Batch(ops) == [i \in DOMAIN ops |-> [ops[i] EXCEPT !.first = (i = 1)]]

-----------------------------------------------------------------------------
(* Projection of one operation: apply_operation. *)

SetRevisionState(item, r, state) == [item EXCEPT !.revisions[r].state = state]

RemoveRevisionFromFts(item, r) == [item EXCEPT !.fts = @ \ {r}]

\* apply_revision_projection for the status every planned draft has.
ApplyRevisionProjection(item, r) ==
    [item EXCEPT !.latest = r,
                 !.lifecycle = IF item.active = 0 THEN "proposed" ELSE "active"]

\* The shell row of a created memory.
InsertMemoryItemShell(op) == [Absent EXCEPT !.scope = op.scope, !.lifecycle = "proposed"]

\* The revision row with its evidence; `retained' says whether its sidecars are
\* stored, `erasedBy' which session's deletion took the excerpt.
RevisionRow(draft, retained, erasedBy) ==
    [state |-> "proposed", origin |-> draft.origin, supersedes |-> draft.supersedes,
     source |-> draft.source, content |-> retained,
     excerpt |-> draft.excerpt /\ retained /\ erasedBy = NoSession, erasedBy |-> erasedBy]

InsertRevision(item, op, retained, erasedBy) ==
    LET shell == IF op.kind = "MemoryCreated" THEN InsertMemoryItemShell(op) ELSE item
        row == RevisionRow(op.draft, retained, erasedBy)
    IN  ApplyRevisionProjection([shell EXCEPT !.revisions = Append(@, row)], op.revision)

DeactivateCurrentRevision(item, except) ==
    IF item.active \in {0, except}
    THEN item
    ELSE RemoveRevisionFromFts(SetRevisionState(item, item.active, "superseded"), item.active)

ActivateRevision(item, r) ==
    [SetRevisionState(DeactivateCurrentRevision(item, r), r, "active")
        EXCEPT !.fts = @ \cup {r}, !.lifecycle = "active", !.active = r]

\* A deletion that keeps the bytes of revisions other than the deleted one.
DeleteOnlyThisRevision(item, r) ==
    [SetRevisionState(item, r, "deleted")
        EXCEPT !.fts = {},
               !.lifecycle = "deleted",
               !.active = 0,
               !.revisions[r].content = FALSE,
               !.revisions[r].excerpt = FALSE]

WithoutContent(row) == [row EXCEPT !.content = FALSE, !.excerpt = FALSE]

\* The memory's own part of delete_memory_content; EraseRenderings is the other.
DeleteMemoryContent(item, r) ==
    LET deleted == SetRevisionState(item, r, "deleted")
    IN  [deleted EXCEPT !.fts = {},
                        !.lifecycle = "deleted",
                        !.active = 0,
                        !.revisions = [i \in DOMAIN item.revisions |-> WithoutContent(deleted.revisions[i])]]

\* What require_revision_state and the revision number ask of an operation.
RequireRevisionState(item, op) ==
    LET In(r, states) == r \in DOMAIN item.revisions /\ StateOf(item, r) \in states
    IN  CASE op.kind = "MemoryCreated" -> item = Absent
          [] op.kind = "MemoryRevised" -> op.revision = item.latest + 1
          [] op.kind = "ProposalApproved" ->
                op.revision = item.latest + 1 /\ In(op.other, {"proposed"})
          [] op.kind = "RevisionValidated" -> In(op.revision, {"proposed", "active"})
          [] op.kind \in {"RevisionActivated", "RevisionRejected"} -> In(op.revision, {"proposed"})
          [] op.kind = "RevisionSuperseded" ->
                In(op.revision, {"active", "superseded"}) /\ In(op.other, {"active"})
          [] op.kind = "MemoryRetracted" -> In(op.revision, {"active"})
          [] op.kind = "MemoryDeleted" ->
                In(op.revision, {"proposed", "active", "rejected", "retracted"})

\* The projection of one accepted operation.
ApplyPayload(item, op, retained, erasedBy) ==
    LET r == op.revision
    IN  CASE op.kind \in {"MemoryCreated", "MemoryRevised"} ->
               InsertRevision(item, op, retained, erasedBy)
          [] op.kind = "ProposalApproved" ->
               SetRevisionState(InsertRevision(item, op, retained, erasedBy), op.other, "superseded")
          [] op.kind = "RevisionValidated" -> item
          [] op.kind = "RevisionActivated" -> ActivateRevision(item, r)
          [] op.kind = "RevisionSuperseded" ->
               RemoveRevisionFromFts(SetRevisionState(item, r, "superseded"), r)
          [] op.kind = "RevisionRejected" ->
               [SetRevisionState(item, r, "rejected")
                  EXCEPT !.lifecycle = IF item.active = 0 THEN "rejected" ELSE "active"]
          [] op.kind = "MemoryRetracted" ->
               [RemoveRevisionFromFts(SetRevisionState(item, r, "retracted"), r)
                  EXCEPT !.lifecycle = "retracted", !.active = 0]
          [] op.kind = "MemoryDeleted" -> DeleteMemoryContent(item, r)

\* The item's sequence follows every operation.
ApplyOperation(item, op, retained, erasedBy) ==
    LET applied == ApplyPayload(item, op, retained, erasedBy)
    IN  [applied EXCEPT !.sequence = applied.sequence + 1]

ApplyLive(item, op) == ApplyOperation(item, op, TRUE, NoSession)

\* The item after the first n operations of a batch; no plan has more than four.
Projected(item, batch, n) ==
    LET one == ApplyLive(item, batch[1])
        two == ApplyLive(one, batch[2])
        three == ApplyLive(two, batch[3])
        four == ApplyLive(three, batch[4])
    IN  CASE n = 0 -> item
          [] n = 1 -> one
          [] n = 2 -> two
          [] n = 3 -> three
          [] n = 4 -> four

\* Whether the transaction of a batch succeeds, operation by operation.
StoreAccepts(item, batch) ==
    \A i \in DOMAIN batch : RequireRevisionState(Projected(item, batch, i - 1), batch[i])

\* Rendered copies kept in the prelude although the admission is erased.
EraseAdmissionsOnly(erased) ==
    [i \in DOMAIN turns |-> [turns[i] EXCEPT !.kept = {a \in turns[i].kept : a.memory \notin erased}]]

\* Rendered copies of every turn that admitted a revision of the memory.
EraseRenderings(erased) ==
    [i \in DOMAIN turns |->
        IF \E a \in turns[i].admitted : a.memory \in erased
        THEN [turns[i] EXCEPT !.prelude = "erased",
                              !.kept = {a \in turns[i].kept : a.memory \notin erased}]
        ELSE turns[i]]

\* Eligibility changes when a batch changes the active revision; every batch
\* is a mutation.
EligibilityStep(before, after) == IF before.active = after.active THEN 0 ELSE 1

AppendMemoryBatch(m, batch) ==
    LET after == Projected(items[m], batch, Len(batch))
        deletes == \E i \in DOMAIN batch : batch[i].kind = "MemoryDeleted"
    IN  /\ StoreAccepts(items[m], batch)
        /\ items' = [items EXCEPT ![m] = after]
        /\ ledger' = [ledger EXCEPT ![m] = @ \o batch]
        /\ generation' = generation + EligibilityStep(items[m], after)
        /\ mutationGeneration' = mutationGeneration + 1
        /\ turns' = IF deletes THEN EraseRenderings({m}) ELSE turns
        /\ UNCHANGED tombstones

-----------------------------------------------------------------------------
(* The planner: plan_memory_command. *)

\* validation_status: only an explicit user revision can be accepted outright.
Verdicts(origin) ==
    IF origin = "user" THEN {"accepted", "needs_review", "rejected"} ELSE {"needs_review", "rejected"}

IsExplicitAccepted(draft, verdict) == draft.origin = "user" /\ verdict = "accepted"

Validated(r) == Operation("RevisionValidated", r, 0, NoDraft)
Activated(r) == Operation("RevisionActivated", r, 0, NoDraft)
Superseded(r, by) == Operation("RevisionSuperseded", r, by, NoDraft)

PlanCreate(m, scope, draft, verdict) ==
    LET created == [Operation("MemoryCreated", 1, 0, draft) EXCEPT !.scope = scope]
        review == Batch(<<created, Validated(1)>>)
    IN  IF IsExplicitAccepted(draft, verdict) THEN Append(review, Activated(1)) ELSE review

\* The create command's preconditions: a fresh identity and no rejection.
CreatePlanned(m, verdict) == ~Exists(m) /\ verdict # "rejected"

\* The next revision is taken from the number of revisions loaded.
NextRevision(m) == Len(items[m].revisions) + 1

RevisePlanned(m, r, verdict) ==
    /\ Exists(m) /\ r \in DOMAIN items[m].revisions /\ StateOf(items[m], r) = "active"
    /\ IsExplicitAccepted(UserDraft(r), verdict)

PlanRevise(m, r) ==
    LET next == NextRevision(m)
    IN  Batch(<<Operation("MemoryRevised", next, 0, UserDraft(r)), Validated(next),
                Activated(next), Superseded(r, next)>>)

\* The revision an approval replaces: what the proposal supersedes, or itself.
SupersededBy(m, proposal) ==
    LET named == items[m].revisions[proposal].supersedes
    IN  IF named = 0 THEN proposal ELSE named

ApprovePlanned(m, proposal, verdict) ==
    /\ Exists(m) /\ proposal \in DOMAIN items[m].revisions
    /\ StateOf(items[m], proposal) = "proposed"
    /\ SupersededBy(m, proposal) # proposal => StateOf(items[m], SupersededBy(m, proposal)) = "active"
    /\ IsExplicitAccepted(UserDraft(0), verdict)

PlanApprove(m, proposal) ==
    LET next == NextRevision(m)
        replaced == SupersededBy(m, proposal)
    IN  Batch(<<Operation("ProposalApproved", next, proposal, UserDraft(replaced)), Validated(next),
                Activated(next), Superseded(replaced, next)>>)

\* Reject, retract and delete are one operation on one revision.
SinglePlanned(m, r, states) ==
    Exists(m) /\ r \in DOMAIN items[m].revisions /\ StateOf(items[m], r) \in states

PlanSingle(kind, r) == Batch(<<Operation(kind, r, 0, NoDraft)>>)

Deletable == {"proposed", "active", "rejected", "retracted"}

-----------------------------------------------------------------------------
(* Queries. *)

\* load_memory_content: the sidecar of a revision, if it is still there.
HasContent(m, r) == r \in DOMAIN items[m].revisions /\ items[m].revisions[r].content

\* search_memory: indexed, active and retained revisions in an authorised scope.
SearchMemory ==
    {a \in [memory : Memories, revision : 1..MaxRevisions] :
        /\ a.revision \in items[a.memory].fts
        /\ items[a.memory].scope \in Scopes
        /\ items[a.memory].active = a.revision
        /\ HasContent(a.memory, a.revision)}

\* exact_memory_proposal_committed: the deterministic create command is in the
\* ledger as proposed, was not activated, and its content is retained.
ExactProposalCommitted(m, origin) ==
    /\ Len(ledger[m]) >= 2
    /\ ledger[m][1].kind = "MemoryCreated" /\ ledger[m][1].draft.origin = origin
    /\ ledger[m][2].kind = "RevisionValidated"
    /\ \A i \in DOMAIN ledger[m] : ledger[m][i] # Activated(1)
    /\ HasContent(m, 1)

-----------------------------------------------------------------------------
(* Deleting a session: erase_session_memory_and_evidence, in its transaction. *)

SessionMemories == {m \in Memories : items[m].scope = Session}

\* Excerpts elsewhere that quote the session.
CitesSession(m, r) ==
    items[m].scope # Session /\ items[m].revisions[r].excerpt /\ items[m].revisions[r].source = Session

EvidenceOfSession ==
    {x \in Memories \X (1..MaxRevisions) : x[2] \in DOMAIN items[x[1]].revisions /\ CitesSession(x[1], x[2])}

EraseSessionMemory(m) ==
    LET deleted == DeleteMemoryContent(items[m], items[m].latest)
    IN  [deleted EXCEPT !.revisions =
            [r \in DOMAIN deleted.revisions |-> [deleted.revisions[r] EXCEPT !.state = "deleted"]]]

EraseEvidence(m) ==
    [items[m] EXCEPT !.revisions =
        [r \in DOMAIN items[m].revisions |->
            IF CitesSession(m, r)
            THEN [items[m].revisions[r] EXCEPT !.excerpt = FALSE, !.erasedBy = Session]
            ELSE items[m].revisions[r]]]

\* The context rows of a deleted session go with it.
EraseSessionMemoryAndEvidence ==
    LET mutated == SessionMemories # {} \/ EvidenceOfSession # {}
        eligible == \E m \in SessionMemories : items[m].lifecycle = "active"
    IN  /\ items' = [m \in Memories |->
                        IF m \in SessionMemories THEN EraseSessionMemory(m) ELSE EraseEvidence(m)]
        /\ tombstones' = tombstones \cup SessionMemories
        /\ generation' = generation + (IF mutated /\ eligible THEN 1 ELSE 0)
        /\ mutationGeneration' = mutationGeneration + (IF mutated THEN 1 ELSE 0)
        /\ turns' = <<>>
        /\ UNCHANGED ledger

-----------------------------------------------------------------------------
(* Rebuilding every projection: rebuild_memory_projections. *)

\* load_rebuild_erasures: memories whose bytes must not come back.
DeletedMemories ==
    tombstones \cup {m \in Memories : \E i \in DOMAIN ledger[m] : ledger[m][i].kind = "MemoryDeleted"}

\* Which session's deletion took the excerpt of a revision: recorded in its row,
\* or implied by a tombstone of the session it quotes.
RebuildErasure(m, r, draft) ==
    IF r \in DOMAIN items[m].revisions /\ items[m].revisions[r].erasedBy # NoSession
    THEN items[m].revisions[r].erasedBy
    ELSE IF /\ tombstones # {} /\ draft.excerpt /\ draft.source = Session
            /\ m \notin DeletedMemories
    THEN Session
    ELSE NoSession

\* replay_memory_operations over one memory: its item, and how many of its
\* batches there were and changed the active revision.
ReplayStep(m, replay, op) ==
    LET next == ApplyOperation(replay.item, op, m \notin DeletedMemories,
                               RebuildErasure(m, op.revision, op.draft))
    IN  IF op.first
        THEN [item |-> next, batches |-> replay.batches + 1,
              changes |-> replay.changes + EligibilityStep([active |-> replay.before], replay.item),
              before |-> replay.item.active]
        ELSE [replay EXCEPT !.item = next]

NoReplay == [item |-> Absent, batches |-> 0, changes |-> 0, before |-> 0]

ReplayMemory(m) ==
    LET replayed[n \in 0..Len(ledger[m])] ==
            IF n = 0 THEN NoReplay ELSE ReplayStep(m, replayed[n - 1], ledger[m][n])
    IN  replayed[Len(ledger[m])]

\* rebuild_fts: the active revisions whose content is retained.
RebuildFts(item) ==
    {r \in DOMAIN item.revisions : StateOf(item, r) = "active" /\ item.revisions[r].content}

\* apply_session_erasure_tombstones.
ApplyTombstone(m, item) ==
    IF m \in tombstones
    THEN [item EXCEPT !.lifecycle = "deleted", !.active = 0,
                      !.revisions = [r \in DOMAIN @ |-> [@[r] EXCEPT !.state = "deleted"]]]
    ELSE item

RebuiltItem(m) ==
    LET item == ApplyTombstone(m, ReplayMemory(m).item)
    IN  [item EXCEPT !.fts = RebuildFts(item)]

ErasedEvidence ==
    {x \in Memories \X (1..MaxRevisions) :
        x[2] \in DOMAIN items[x[1]].revisions /\ items[x[1]].revisions[x[2]].erasedBy = Session}

RebuiltGeneration ==
    LET changed == [m \in Memories |->
            LET replay == ReplayMemory(m)
            IN  replay.changes + EligibilityStep([active |-> replay.before], replay.item)]
        eligible == \E m \in tombstones : ReplayMemory(m).item.active # 0
    IN  Sum(changed) + IF eligible THEN 1 ELSE 0

RebuiltMutationGeneration ==
    Sum([m \in Memories |-> ReplayMemory(m).batches])
        + IF tombstones # {} \/ ErasedEvidence # {} THEN 1 ELSE 0

-----------------------------------------------------------------------------
(* Properties of the ledger. *)

\* Rebuilding the projections from the operations reproduces what the live
\* appends and erasures left, row by row, and both generation counters; a
\* rebuild therefore neither revives erased bytes nor makes a prepared context
\* stale (rebuild_memory_projections against append_memory_batch).
RebuildIsIdentity ==
    /\ \A m \in Memories : RebuiltItem(m) = items[m]
    /\ RebuiltGeneration = generation
    /\ RebuiltMutationGeneration = mutationGeneration

\* A deleted memory, by command or with its session, has no content, no
\* excerpt, no index row and no rendered copy left in any turn; evidence that
\* quotes the deleted session is gone from every other memory.
ErasedContentIsGone ==
    /\ \A m \in DeletedMemories :
          /\ items[m].fts = {} /\ items[m].active = 0
          /\ \A r \in DOMAIN items[m].revisions :
                ~items[m].revisions[r].content /\ ~items[m].revisions[r].excerpt
          /\ \A i \in DOMAIN turns : \A a \in turns[i].admitted :
                a.memory = m => turns[i].prelude = "erased" /\ a \notin turns[i].kept
    /\ tombstones # {} => EvidenceOfSession = {}

\* Only a revision the user wrote or approved is ever active or indexed: model,
\* tool, import and compaction proposals never activate by themselves.
OnlyUserRevisionsAreActive ==
    \A m \in Memories :
        /\ items[m].fts = {items[m].active} \ {0}
        /\ items[m].active # 0 =>
              /\ items[m].lifecycle = "active"
              /\ items[m].revisions[items[m].active].origin = "user"
              /\ HasContent(m, items[m].active)

\* The store accepts every batch the planner produces: the planner reads the
\* revisions, the store their rows, and neither refuses what the other allows.
PlansAreAccepted ==
    \A m \in Memories : \A r \in DOMAIN items[m].revisions :
        /\ RevisePlanned(m, r, "accepted") => StoreAccepts(items[m], PlanRevise(m, r))
        /\ ApprovePlanned(m, r, "accepted") => StoreAccepts(items[m], PlanApprove(m, r))
        /\ SinglePlanned(m, r, {"proposed"}) => StoreAccepts(items[m], PlanSingle("RevisionRejected", r))
        /\ SinglePlanned(m, r, {"active"}) => StoreAccepts(items[m], PlanSingle("MemoryRetracted", r))
        /\ SinglePlanned(m, r, Deletable) => StoreAccepts(items[m], PlanSingle("MemoryDeleted", r))

\* The three together. After any history of proposals, approvals, edits,
\* deletions and an erased session, nothing is active that the user did not put
\* there, the planner and the store agree on what may happen next, and content
\* that was deleted is in no revision, index, prelude or snapshot.
LedgerIsSound == OnlyUserRevisionsAreActive /\ PlansAreAccepted /\ ErasedContentIsGone
=============================================================================
