------------------------------ MODULE MemoryView ------------------------------
(***************************************************************************)
(* The memory workspace over the ledger: the paged inspection query of     *)
(* crates/autoharness-store-sqlite/src/memory_store.rs, the view state and *)
(* published page of the coordinator, the workspace of apps/gui/src/       *)
(* features/memory, which queries, reviews and submits, and the export     *)
(* that precedes the deletion of a session.                                *)
(*                                                                         *)
(* Commands reach the coordinator in order, and a projection reaches the   *)
(* workspace no later than the outcome that follows it (GuiClient checks   *)
(* both of that channel).  Every revision written today is valid           *)
(* indefinitely, so no row is ever expired.                                *)
(***************************************************************************)
EXTENDS MemoryLedger

CONSTANTS
    PageSize,       \* MEMORY_VIEW_PAGE_SIZE
    ExportPageSize, \* MAX_MEMORY_INSPECTION_PAGE_SIZE of the export
    Mentions,       \* memories whose text contains the searched literal
    Named,          \* memories whose identity contains it
    Heavy,          \* memories whose row takes more than half of a page's byte budget
    Filters,        \* the queries the workspace tries besides the default one
    Starts,         \* the memories there may be when the coordinator starts: how each
                    \* was created, and when
    MaxUndertakings \* bound: queries, reviews, proposals, session switches and faults together

NoCursor == [updated |-> 0, memory |-> 0]

ASSUME MemoryAssumption == Memories \subseteq Nat \ {0} /\ IsFiniteSet(Memories)
ASSUME PageAssumption == PageSize \in Nat \ {0} /\ ExportPageSize \in Nat \ {0}
ASSUME FilterAssumption ==
    Filters \subseteq [status : {"all", "active", "proposed", "inactive"},
                       scope : {"all", "workspace", "session"}, literal : BOOLEAN, before : {NoCursor}]
ASSUME SeedAssumption ==
    Starts \subseteq [Memories -> [seed : {"none", "explicit", "contradicting", "tool", "compaction"},
                                  at : 0..2]]

VARIABLES
    clock,        \* the latest operation's timestamp
    updated,      \* memory_items.updated_at_ms
    conflicting,  \* revisions whose validation reported a contradiction
    here,         \* whether Session is the coordinator's open session
    exported,     \* revisions whose content is in the session's export file
    view,         \* Coordinator.memory_view
    published,    \* the memories watch
    intents,      \* commands on their way to the coordinator
    outcomes,     \* notices on their way to the workspace
    shown,        \* the workspace's MemoryProjection
    workspace,    \* the workspace's own state
    undertakings, \* how many there were
    halted        \* the coordinator ended

viewVars == <<clock, updated, conflicting, here, exported, view, published, intents, outcomes,
              shown, workspace, undertakings, halted>>
vars == <<memoryVars, viewVars>>

-----------------------------------------------------------------------------
(* The inspection query. *)

DefaultQuery == [status |-> "all", scope |-> "all", literal |-> FALSE, before |-> NoCursor]

\* What the query joins for one memory: its item, its revisions, its timestamp,
\* and whether the latest revision's validation reports a contradiction.
Record(m) ==
    [memory |-> m, item |-> items[m], updated |-> updated[m],
     contradicted |-> <<m, items[m].latest>> \in conflicting]

Tables == {Record(m) : m \in {n \in Memories : Exists(n)}}

CursorOf(record) == [updated |-> record.updated, memory |-> record.memory]
LatestOf(record) == record.item.revisions[record.item.latest]

\* effective_status: what a row is shown as.
EffectiveStatus(record) ==
    IF record.item.lifecycle \in {"active", "proposed"} /\ record.contradicted
    THEN "conflicting" ELSE record.item.lifecycle

MemoryViewStatuses(filter) ==
    CASE filter = "active" -> {"active"}
      [] filter = "proposed" -> {"proposed"}
      [] filter = "inactive" -> {"conflicting", "superseded", "rejected", "retracted", "deleted"}
      [] filter = "all" -> {}

MemoryViewScopes(filter, open) ==
    {s \in Scopes : \/ s = Workspace /\ filter \in {"all", "workspace"}
                    \/ s = Session /\ open /\ filter \in {"all", "session"}}

\* append_effective_status_filter: one clause per requested status.
EffectiveStatusFilter(record, statuses) ==
    LET lifecycle == record.item.lifecycle
    IN  \/ statuses = {}
        \/ lifecycle \in statuses \cap {"active", "proposed"} /\ ~record.contradicted
        \/ "conflicting" \in statuses /\ lifecycle \in {"active", "proposed"} /\ record.contradicted
        \/ lifecycle \in statuses \ {"active", "proposed", "conflicting"}

\* Earlier in time, then in identity.
Precedes(a, b) == a.updated < b.updated \/ (a.updated = b.updated /\ a.memory < b.memory)

\* A boundary that compares the timestamps only.
PastByTime(record, before) == before = NoCursor \/ record.updated < before.updated

\* The boundary of a page: strictly before it.
Past(record, before) == before = NoCursor \/ Precedes(CursorOf(record), before)

MatchesQuery(record, scopes, statuses, literal) ==
    /\ record.item.scope \in scopes
    /\ EffectiveStatusFilter(record, statuses)
    /\ literal => record.memory \in Named \/ (record.memory \in Mentions /\ LatestOf(record).content)

Matching(tables, scopes, statuses, literal, before) ==
    {a \in tables : MatchesQuery(a, scopes, statuses, literal) /\ Past(a, before)}

\* The latest change first: a record follows those that come after it in time,
\* then in identity.
Newer(records, a) == {b \in records : Precedes(CursorOf(a), CursorOf(b))}
Nth(records, n) == CHOOSE a \in records : Cardinality(Newer(records, a)) = n - 1

InspectMemoryPage(tables, scopes, statuses, literal, before, limit) ==
    LET matching == Matching(tables, scopes, statuses, literal, before)
        found == Cardinality(matching)
    IN  [records |-> [n \in 1..(IF found > limit THEN limit ELSE found) |-> Nth(matching, n)],
         more |-> found > limit]

\* What the list shows of a memory.
SummaryOf(record) ==
    [memory |-> record.memory, status |-> EffectiveStatus(record), scope |-> record.item.scope]

\* The revision a command would name, and the sequence it must name.
RevisionContextOf(record) ==
    [revision |-> record.item.latest, proposal |-> record.item.lifecycle = "proposed",
     sequence |-> record.item.sequence]

\* What is retained of the text and of the evidence.
DetailOf(record) == [content |-> LatestOf(record).content, excerpt |-> LatestOf(record).excerpt]

RowOf(record) ==
    LET summary == SummaryOf(record)
        context == RevisionContextOf(record)
        detail == DetailOf(record)
    IN  [memory |-> summary.memory, status |-> summary.status, scope |-> summary.scope,
         revision |-> context.revision, proposal |-> context.proposal, sequence |-> context.sequence,
         content |-> detail.content, excerpt |-> detail.excerpt]

-----------------------------------------------------------------------------
(* The coordinator's view. *)

PageFor(q, tables, open) ==
    InspectMemoryPage(tables, MemoryViewScopes(q.scope, open), MemoryViewStatuses(q.status),
                      q.literal, q.before, PageSize)

RowsOf(page) == [i \in DOMAIN page.records |-> RowOf(page.records[i])]

\* A page answers one view generation and names the ledger's generation; the
\* fields query and open record what it was loaded for.
LoadMemoryView(v, tables, open, ledgerGeneration) ==
    LET page == PageFor(v.query, tables, open)
    IN  [view |-> v.generation, ledger |-> ledgerGeneration, state |-> "ready",
         rows |-> RowsOf(page), stale |-> page.more,
         next |-> IF page.more THEN CursorOf(Last(page.records)) ELSE NoCursor,
         query |-> v.query, open |-> open]

FailedPage(viewGeneration, ledgerGeneration, q) ==
    [view |-> viewGeneration, ledger |-> ledgerGeneration, state |-> "failed", rows |-> <<>>,
     stale |-> FALSE, next |-> NoCursor, query |-> q, open |-> here]

PublishMemories == published' = LoadMemoryView(view', Tables', here', mutationGeneration')

\* The page as the bridge maps it: one over the byte budget is a failure.
MapProjection(page) ==
    IF Cardinality({i \in DOMAIN page.rows : page.rows[i].memory \in Heavy /\ page.rows[i].content}) > 1
    THEN [page EXCEPT !.state = "failed", !.rows = <<>>, !.stale = FALSE, !.next = NoCursor]
    ELSE page

-----------------------------------------------------------------------------
(* The workspace. *)

NoReview == [action |-> "none", row |-> <<>>]

NoWorkspace ==
    [mounted |-> FALSE, query |-> DefaultQuery, generation |-> 0, requested |-> -1,
     failed |-> FALSE, session |-> TRUE, blocked |-> FALSE, review |-> NoReview, busy |-> FALSE,
     early |-> FALSE, foreign |-> 0]

\* The batch a memory was created by before the coordinator started.
SeedBatch(m, seed) ==
    CASE seed = "none" -> <<>>
      [] seed = "explicit" -> PlanCreate(m, Workspace, UserDraft(0), "accepted")
      [] seed = "contradicting" -> PlanCreate(m, Workspace, UserDraft(0), "needs_review")
      [] seed = "tool" -> PlanCreate(m, Workspace, UntrustedDraft("tool", Session, TRUE), "needs_review")
      [] seed = "compaction" ->
            PlanCreate(m, Session, UntrustedDraft("compaction", Session, FALSE), "needs_review")

SeededLedger(start) ==
    /\ ledger = [m \in Memories |-> SeedBatch(m, start[m].seed)]
    /\ items = [m \in Memories |-> Projected(Absent, ledger[m], Len(ledger[m]))]
    /\ generation = Cardinality({m \in Memories : items[m].active # 0})
    /\ mutationGeneration = Cardinality({m \in Memories : Exists(m)})
    /\ tombstones = {} /\ turns = <<>>
    /\ conflicting = {<<m, 1>> : m \in {n \in Memories : start[n].seed = "contradicting"}}
    /\ updated = [m \in Memories |-> start[m].at]

Init ==
    /\ \E start \in Starts : SeededLedger(start)
    /\ clock = 2
    /\ here = TRUE /\ exported = {}
    /\ view = [generation |-> 0, query |-> DefaultQuery]
    /\ published = LoadMemoryView(view, Tables, here, mutationGeneration) /\ shown = published
    /\ intents = <<>> /\ outcomes = <<>>
    /\ workspace = NoWorkspace
    /\ undertakings = 0 /\ halted = FALSE

hostVars == <<memoryVars, clock, updated, conflicting, here, exported, view, published, halted>>
clientVars == <<shown, workspace>>

\* The page on display answers the query on display.
Answered(w, page) ==
    /\ w.mounted /\ ~w.blocked /\ ~w.failed
    /\ page.state = "ready" /\ page.view = w.requested

\* `ready': what every row, detail, review and paging button waits for.
Ready(w, page) == Answered(w, page) /\ ~page.stale

\* A query effect that reuses the generation on display.
NextGenerationSame(w, page) == Max({w.generation, page.view})

NextGeneration(w, page) == Max({w.generation, page.view}) + 1

\* The effect of a changed query, session, refresh count or block: a fresh
\* generation, and the answer to the earlier query no longer counts.
QueryEffect(w, page) ==
    LET g == NextGeneration(w, page)
    IN  [w EXCEPT !.generation = g, !.requested = g, !.failed = FALSE]

Command(kind, g, q, row) == [kind |-> kind, view |-> g, query |-> q, row |-> row]
QueryCommand(w) == Command("query", w.requested, w.query, <<>>)

Undertake == ~halted /\ undertakings < MaxUndertakings /\ undertakings' = undertakings + 1

Issue(w) ==
    /\ Undertake
    /\ workspace' = QueryEffect(w, shown)
    /\ intents' = Append(intents, QueryCommand(workspace'))
    /\ UNCHANGED <<hostVars, outcomes, shown>>

Steady == workspace.mounted /\ ~workspace.blocked /\ ~workspace.busy

\* Nothing is on its way between the workspace and the coordinator.
AllArrived == intents = <<>> /\ outcomes = <<>> /\ shown = MapProjection(published)

\* The generations start over from the page on display.  `early' records that
\* something was on its way, `foreign' counts the outcomes an earlier workspace
\* is still owed: nobody waits for those.
Mount ==
    /\ ~workspace.mounted
    /\ Issue([NoWorkspace EXCEPT !.mounted = TRUE, !.generation = shown.view, !.session = here,
                                 !.early = ~AllArrived, !.foreign = Len(intents) + Len(outcomes)])

Unmount ==
    /\ ~halted /\ workspace.mounted
    /\ workspace' = NoWorkspace
    /\ UNCHANGED <<hostVars, undertakings, intents, outcomes, shown>>

ChangeQuery(filter) == Steady /\ Issue([workspace EXCEPT !.query = filter])

Refresh == Steady /\ Issue(workspace)

\* The buttons that turn pages wait for `ready', and a page with a successor is
\* never ready (AnsweredPageIsReady): nobody turns a page, and every query of
\* the workspace is for a first page.

\* A permission question covers the workspace and takes its dialog away.
Block ==
    /\ ~halted /\ workspace.mounted /\ ~workspace.blocked
    /\ workspace' = [workspace EXCEPT !.blocked = TRUE, !.review = NoReview]
    /\ UNCHANGED <<hostVars, undertakings, intents, outcomes, shown>>

Unblock == workspace.mounted /\ workspace.blocked /\ Issue([workspace EXCEPT !.blocked = FALSE])

\* What the selected row offers.
Offered(row) ==
    LET reviewable == row.content /\ row.proposal /\ row.status \in {"proposed", "conflicting"}
        correctable == row.content /\ (row.status = "active" \/ (row.status = "conflicting" /\ ~row.proposal))
    IN  {"export"} \cup (IF reviewable THEN {"approve", "reject"} ELSE {})
        \cup (IF correctable THEN {"revise"} ELSE {})
        \cup (IF correctable \/ row.status = "active" THEN {"retract"} ELSE {})
        \cup (IF row.status # "deleted" THEN {"delete"} ELSE {})

MayReview ==
    Undertake /\ Ready(workspace, shown) /\ ~workspace.busy /\ workspace.review = NoReview

ReviewRow(i) ==
    /\ MayReview /\ i \in DOMAIN shown.rows
    /\ \E action \in Offered(shown.rows[i]) :
          workspace' = [workspace EXCEPT !.review = [action |-> action, row |-> <<shown.rows[i]>>]]
    /\ UNCHANGED <<hostVars, intents, outcomes, shown>>

\* A new memory has no target that could move on between dialog and submission.
SubmitNew(action) ==
    /\ MayReview
    /\ workspace' = [workspace EXCEPT !.busy = TRUE, !.review = [action |-> action, row |-> <<>>]]
    /\ intents' = Append(intents, Command(action, 0, DefaultQuery, <<>>))
    /\ UNCHANGED <<hostVars, outcomes, shown>>

CloseReview ==
    /\ ~halted /\ workspace.review # NoReview /\ ~workspace.busy
    /\ workspace' = [workspace EXCEPT !.review = NoReview]
    /\ UNCHANGED <<hostVars, undertakings, intents, outcomes, shown>>

\* The reviewed memory left the page or has moved on.
StaleTarget ==
    /\ workspace.review.row # <<>>
    /\ ~\E i \in DOMAIN shown.rows : /\ shown.rows[i].memory = workspace.review.row[1].memory
                                     /\ shown.rows[i].sequence = workspace.review.row[1].sequence

Submit ==
    /\ ~halted /\ workspace.review # NoReview /\ ~workspace.busy
    /\ Ready(workspace, shown) /\ ~StaleTarget
    /\ workspace' = [workspace EXCEPT !.busy = TRUE]
    /\ intents' = Append(intents, Command(workspace.review.action, 0, DefaultQuery, workspace.review.row))
    /\ UNCHANGED <<hostVars, undertakings, outcomes, shown>>

-----------------------------------------------------------------------------
(* What reaches the workspace. *)

\* A page with the session it belongs to; a changed session asks again.
Received(w, page) ==
    IF w.mounted /\ ~w.blocked /\ w.session # here
    THEN QueryEffect([w EXCEPT !.session = here], page)
    ELSE [w EXCEPT !.session = here]

Asks(before, after) == after.requested # before.requested

ReceiveProjection ==
    LET page == MapProjection(published)
        w == Received(workspace, page)
    IN  /\ ~halted /\ (shown # page \/ workspace.session # here)
        /\ shown' = page /\ workspace' = w
        /\ intents' = IF Asks(workspace, w) THEN Append(intents, QueryCommand(w)) ELSE intents
        /\ UNCHANGED <<hostVars, undertakings, outcomes>>

\* The outcome of a query counts only while it is the latest one; a committed
\* change closes its dialog and asks for the page again.
Concluded(w, outcome, page) ==
    IF w.foreign > 0 THEN [w EXCEPT !.foreign = @ - 1]
    ELSE IF outcome.kind = "query"
    THEN IF outcome.view = w.requested /\ outcome.result # "committed"
         THEN [w EXCEPT !.failed = TRUE] ELSE w
    ELSE IF outcome.result = "committed"
    THEN LET done == [w EXCEPT !.busy = FALSE, !.review = NoReview]
         IN  IF w.blocked THEN done ELSE QueryEffect(done, page)
    ELSE [w EXCEPT !.busy = FALSE]

ReceiveOutcome ==
    LET page == MapProjection(published)
        settled == IF workspace.mounted THEN Concluded(workspace, Head(outcomes), page) ELSE workspace
        w == Received(settled, page)
    IN  /\ ~halted /\ outcomes # <<>>
        /\ outcomes' = Tail(outcomes) /\ shown' = page /\ workspace' = w
        /\ intents' = IF Asks(workspace, w) THEN Append(intents, QueryCommand(w)) ELSE intents
        /\ UNCHANGED <<hostVars, undertakings>>

\* The bounded wait for an outcome ran out.
OutcomeUnknown ==
    /\ Undertake /\ workspace.mounted /\ outcomes # <<>>
    /\ outcomes' = Tail(outcomes)
    /\ workspace' = Concluded(workspace, [Head(outcomes) EXCEPT !.result = "unknown"], shown)
    /\ UNCHANGED <<hostVars, intents, shown>>

-----------------------------------------------------------------------------
(* The coordinator. *)

Pending(kind) == ~halted /\ intents # <<>> /\ Head(intents).kind = kind
Target == Head(intents).row[1]

Reply(result) ==
    /\ intents' = Tail(intents)
    /\ outcomes' = Append(outcomes, [kind |-> Head(intents).kind, view |-> Head(intents).view,
                                     result |-> result])

\* query_memories: the view is replaced, then loaded.
QueryMemories ==
    /\ Pending("query")
    /\ view' = [generation |-> Head(intents).view, query |-> Head(intents).query]
    /\ UNCHANGED <<memoryVars, clock, updated, conflicting, here, exported, clientVars, undertakings, halted>>
    /\ PublishMemories /\ Reply("committed")

QueryFails ==
    /\ Pending("query") /\ Undertake
    /\ view' = [generation |-> Head(intents).view, query |-> Head(intents).query]
    /\ published' = FailedPage(Head(intents).view, published.ledger, Head(intents).query)
    /\ Reply("rejected")
    /\ UNCHANGED <<memoryVars, clock, updated, conflicting, here, exported, clientVars, halted>>

\* The timestamp and the contradictions of an appended batch.
Stamp(m, contradicts) ==
    /\ clock' \in {clock, clock + 1}
    /\ updated' = [updated EXCEPT ![m] = clock']
    /\ conflicting' = IF contradicts THEN conflicting \cup {<<m, items'[m].latest>>} ELSE conflicting

\* commit_memory_command: append, publish, answer.  A failed publish ends the
\* coordinator with the change committed and unanswered.
Committed(m, batch, contradicts) ==
    /\ AppendMemoryBatch(m, batch) /\ Stamp(m, contradicts)
    /\ UNCHANGED <<here, exported, view, shown, workspace>>
    /\ \/ PublishMemories /\ Reply("committed") /\ UNCHANGED <<undertakings, halted>>
       \/ /\ Undertake /\ halted' = TRUE
          /\ UNCHANGED <<published, intents, outcomes>>

\* A user's own memory, or an imported one: it may be held for review.
Create(kind, draft) ==
    /\ Pending(kind)
    /\ \E m \in Memories, verdict \in Verdicts(draft.origin), contradicts \in BOOLEAN :
          /\ CreatePlanned(m, verdict)
          /\ contradicts => verdict = "needs_review"
          /\ Committed(m, PlanCreate(m, Workspace, draft, verdict), contradicts)

RememberMemory == Create("remember", UserDraft(0))
ImportMemory == Create("import", UntrustedDraft("import", NoSession, FALSE))

\* A command that does not look at the sequence its author saw.
VersionHoldsAlways == Exists(Target.memory)

\* validate_snapshot: the command names the ledger's last sequence.
VersionHolds == Exists(Target.memory) /\ Target.sequence = items[Target.memory].sequence

\* What each targeted command needs beyond the sequence, and its batch.
ReviseMemory ==
    LET m == Target.memory IN
    /\ Pending("revise") /\ VersionHolds
    /\ \E r \in DOMAIN items[m].revisions :
          RevisePlanned(m, r, "accepted") /\ Committed(m, PlanRevise(m, r), FALSE)

ApproveMemoryProposal ==
    LET m == Target.memory IN
    /\ Pending("approve") /\ VersionHolds
    /\ ApprovePlanned(m, Target.revision, "accepted") /\ HasContent(m, Target.revision)
    /\ Committed(m, PlanApprove(m, Target.revision), FALSE)

RejectMemoryProposal ==
    LET m == Target.memory IN
    /\ Pending("reject") /\ VersionHolds /\ SinglePlanned(m, Target.revision, {"proposed"})
    /\ Committed(m, PlanSingle("RevisionRejected", Target.revision), FALSE)

RetractMemory ==
    LET m == Target.memory IN
    /\ Pending("retract") /\ VersionHolds /\ SinglePlanned(m, Target.revision, {"active"})
    /\ Committed(m, PlanSingle("MemoryRetracted", Target.revision), FALSE)

DeleteMemory ==
    LET m == Target.memory
        r == Len(items[m].revisions)
    IN  /\ Pending("delete") /\ VersionHolds /\ SinglePlanned(m, r, Deletable)
        /\ Committed(m, PlanSingle("MemoryDeleted", r), FALSE)

\* The export of one memory reads the ledger in the authorised scopes.
ExportMemory ==
    /\ Pending("export")
    /\ Exists(Target.memory) /\ items[Target.memory].scope \in MemoryViewScopes("all", here)
    /\ Reply("committed")
    /\ UNCHANGED <<hostVars, undertakings, clientVars>>

\* A run is active, the target is stale, the planner or the validator refuses,
\* or the text holds a configured credential.
MutationRefused ==
    /\ ~halted /\ intents # <<>> /\ Head(intents).kind # "query"
    /\ Reply("rejected")
    /\ UNCHANGED <<hostVars, undertakings, clientVars>>

\* A run's proposal, published at once; a failed publish is only logged.
PersistMemoryProposal(scope) ==
    /\ Undertake /\ here
    /\ \E m \in Memories, contradicts \in BOOLEAN :
          /\ CreatePlanned(m, "needs_review")
          /\ AppendMemoryBatch(m, PlanCreate(m, scope, UntrustedDraft("tool", Session, TRUE), "needs_review"))
          /\ Stamp(m, contradicts)
    /\ UNCHANGED <<here, exported, view, halted, intents, outcomes, shown, workspace>>
    /\ PublishMemories \/ UNCHANGED published

\* A compaction's proposal is not published.
CreateCompactionProposal ==
    /\ Undertake /\ here
    /\ \E m \in Memories :
          /\ CreatePlanned(m, "needs_review")
          /\ AppendMemoryBatch(m, PlanCreate(m, Session, UntrustedDraft("compaction", Session, FALSE),
                                             "needs_review"))
          /\ Stamp(m, FALSE)
    /\ UNCHANGED <<here, exported, view, published, halted, intents, outcomes, shown, workspace>>

\* The user opens another session, or comes back to this one.
OpenSession ==
    /\ Undertake /\ tombstones = {}
    /\ here' = ~here
    /\ UNCHANGED <<memoryVars, clock, updated, conflicting, exported, view, published, halted,
                   intents, outcomes, shown, workspace>>

\* export_session_memories: pages of the session's memories, oldest boundary last.
ExportedFrom[before \in [updated : Nat, memory : Memories \cup {0}]] ==
    LET page == InspectMemoryPage(Tables, {Session}, {}, FALSE, before, ExportPageSize)
    IN  {page.records[i].memory : i \in DOMAIN page.records} \cup
        (IF Len(page.records) < ExportPageSize THEN {} ELSE ExportedFrom[CursorOf(Last(page.records))])

\* What the archive holds: every content of the memories exported.
ExportSession ==
    {x \in ExportedFrom[NoCursor] \X (1..MaxRevisions) : HasContent(x[1], x[2])}

\* Export, then delete in one engine request; another session is open after it,
\* and the memory view is not published.
DeleteSession ==
    /\ Undertake /\ tombstones = {}
    /\ SessionMemories \cup {x[1] : x \in EvidenceOfSession} # {}
    /\ exported' = ExportSession
    /\ EraseSessionMemoryAndEvidence
    /\ here' = FALSE
    /\ UNCHANGED <<clock, updated, conflicting, view, published, halted, intents, outcomes,
                   shown, workspace>>

-----------------------------------------------------------------------------

QueryStep ==
    \/ Mount \/ Unmount \/ Refresh \/ Block \/ Unblock
    \/ \E filter \in Filters : ChangeQuery(filter)

ReviewStep ==
    \/ CloseReview \/ Submit
    \/ SubmitNew("remember") \/ SubmitNew("import")
    \/ \E i \in 1..PageSize : ReviewRow(i)

ReceiveStep == ReceiveProjection \/ ReceiveOutcome \/ OutcomeUnknown

CoordinatorStep ==
    \/ QueryMemories \/ QueryFails
    \/ RememberMemory \/ ImportMemory \/ ReviseMemory \/ ApproveMemoryProposal
    \/ RejectMemoryProposal \/ RetractMemory \/ DeleteMemory \/ ExportMemory
    \/ MutationRefused
    \/ \E scope \in Scopes : PersistMemoryProposal(scope)
    \/ CreateCompactionProposal \/ OpenSession \/ DeleteSession

Next == QueryStep \/ ReviewStep \/ ReceiveStep \/ CoordinatorStep

Spec == Init /\ [][Next]_vars

-----------------------------------------------------------------------------
(* Properties. *)

\* Every row on a page has a status and a scope its query asked for, and a
\* row found by its text still has it: the SQL filter and the status the row is
\* labelled with are computed separately and agree
\* (append_effective_status_filter, effective_status).
RowsMatchQuery ==
    LET q == published.query
    IN  \A i \in DOMAIN published.rows :
            LET row == published.rows[i]
            IN  /\ MemoryViewStatuses(q.status) # {} => row.status \in MemoryViewStatuses(q.status)
                /\ q.scope = "session" => row.scope = Session
                /\ q.scope = "workspace" => row.scope = Workspace
                /\ q.literal => row.content \/ row.memory \in Named

\* A published page that carries the ledger's present generation shows the
\* ledger's present rows: no mutation changes what the page would show without
\* a new generation (load_memory_view, mutation_generation).  The counts of
\* admissions a row also carries follow the turns and not the ledger.
GenerationIdentifiesPage ==
    published.state = "ready" /\ published.ledger = mutationGeneration /\ published.open = here
        => published.rows = RowsOf(PageFor(published.query, Tables, here))

\* The query on display has not been answered on display.
AnswerIsDue ==
    QueryCommand(workspace) \in ToSet(intents) \/ shown # MapProjection(published)

\* A page shown as the answer was loaded for the query on display.  A workspace
\* that was mounted while something was on its way to an earlier one may take
\* an answer to the earlier one's query for its own, but never for good: its
\* own answer is then still due (view_generation, MemoryWorkspace).
AnswerFitsQuery ==
    Answered(workspace, shown) =>
        shown.query = workspace.query \/ (workspace.early /\ AnswerIsDue)

\* A page on display is the one that was asked for, of the ledger it names
\* (query_memories, load_memory_view).
PageIsWhatWasAsked == RowsMatchQuery /\ GenerationIdentifiesPage /\ AnswerFitsQuery

\* A change the user submitted is applied only to the revision, in the state and
\* with the content, that was on display when it was reviewed
\* (expected_last_sequence, validate_snapshot).
ChangesWhatWasReviewed ==
    [][(items' # items /\ Len(intents') < Len(intents) /\ Head(intents).row # <<>>) =>
           /\ Target.status = EffectiveStatus(Record(Target.memory))
           /\ Target.revision = items[Target.memory].latest
           /\ Target.content = HasContent(Target.memory, Target.revision)]_vars

\* Deleting a session leaves the content of every revision it erases in the
\* export written before it (export_session_memories, delete_session).
DeletionIsArchived ==
    [][tombstones' # tombstones =>
           \A m \in tombstones' \ tombstones, r \in 1..MaxRevisions :
               HasContent(m, r) => <<m, r>> \in exported']_vars

\* A page that answers the query on display is put on display, whether or not
\* older pages follow it (MemoryWorkspace, bounded cursor paging).
AnsweredPageIsReady == Answered(workspace, shown) => Ready(workspace, shown)
=============================================================================
