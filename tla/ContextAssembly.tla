---------------------------- MODULE ContextAssembly ----------------------------
(***************************************************************************)
(* What a provider request is put together from: the exchanges of the      *)
(* session, the workspace's AGENTS.md, the compacted history and ranked    *)
(* memories, all within the model's token budget                           *)
(* (coordinator.rs: prepare_context_snapshot; context_runtime.rs; the      *)
(* builder, ranker, sizer and source registry of autoharness-memory).      *)
(*                                                                         *)
(* An exchange is a completed attempt, numbered in the order of            *)
(* completion; only sizes are kept of contents.  ContextEpochs models how  *)
(* the prepared turn is bound and recovered: here binding succeeds, and    *)
(* the question is what the bound requests contain.                        *)
(*                                                                         *)
(* AGENTS.md may change at any time, also between the two times one        *)
(* preparation reads it.  The catalog changes only between handlers.       *)
(***************************************************************************)
EXTENDS Integers, Sequences, FiniteSets, SequencesExt

CONSTANTS
    Queries,        \* sets of candidates that a prompt's search may return
    Limits,         \* token budgets the catalog may report
    ExchangeSizes,  \* sizes of an exchange
    AgentsSizes,    \* sizes of AGENTS.md; different contents differ in size
    GroupsFitting,  \* groups that fit the byte limit of a compacted history
    Framing,        \* what serialising adds to a request with a prelude
    MaxExchanges,   \* bound: completed attempts
    MaxTurns,       \* bound: bound turns
    MaxEdits        \* bound: changes of the file and of the catalog

ASSUME SizesAssumption ==
    /\ Limits \subseteq Nat \ {0} /\ ExchangeSizes \subseteq Nat \ {0}
    /\ AgentsSizes \subseteq Nat \ {0} /\ GroupsFitting \in Nat \ {0} /\ Framing \in Nat

ASSUME QueriesAssumption == \A q \in Queries : IsFiniteSet(q)

VARIABLES
    file,       \* AGENTS.md: how a read ends, and the size of what it returns
    catalog,    \* the budget the catalog reports for the model
    exchanges,  \* sizes of the completed attempts
    own,        \* size of the running attempt's own messages
    runTurn,    \* its next turn, 0 when no attempt runs
    matches,    \* candidates its prompt finds
    turns,      \* bound turns of the session, oldest first
    candidate,  \* the compaction that awaits its proposal
    handler,    \* "idle", "prepare", "compact" or "streaming"
    edits       \* changes of the file and of the catalog so far

vars == <<file, catalog, exchanges, own, runTurn, matches, turns, candidate, handler, edits>>

NoHistory == [cutoff |-> 0, compacted |-> 0, omitted |-> 0, groups |-> {}]

Init ==
    /\ file = [read |-> "absent", size |-> 0]
    /\ catalog \in Limits
    /\ exchanges = <<>> /\ own = 0 /\ runTurn = 0 /\ matches = {}
    /\ turns = <<>> /\ candidate = NoHistory /\ handler = "idle" /\ edits = 0

-----------------------------------------------------------------------------
(* Ranking: DeterministicRankerV1. *)

Eligible(c) ==
    /\ c.status = "active" /\ c.trust # "untrusted_proposal" /\ ~c.conflicted
    /\ c.age >= 0 /\ c.sensitivity \in {"public", "internal"}
    /\ c.inScope /\ c.valid

AuthorityScore(trust) ==
    [user_approved |-> 4000, verified_observation |-> 3000, imported |-> 2000,
     untrusted_proposal |-> 0][trust]

ScopeScore(scope) == [session |-> 800, workspace |-> 600, user |-> 400, agent |-> 200][scope]

\* Age in days.
FreshnessScore(age) ==
    CASE age <= 1 -> 300
      [] age > 1 /\ age <= 7 -> 200
      [] age > 7 /\ age <= 30 -> 100
      [] OTHER -> 0

Score(c) ==
    AuthorityScore(c.trust) + (IF c.exact THEN 2000 ELSE 0) + c.lexical \div 5
      + ScopeScore(c.scope) + FreshnessScore(c.age) + c.confidence \div 20

\* Equal scores are told apart by the revision's identity.
RanksBefore(c, d) ==
    Score(c) > Score(d) \/ (Score(c) = Score(d) /\ c.revision < d.revision)

\* The order is total, so as many candidates rank before one as come before it.
Rank(candidates) ==
    LET eligible == {c \in candidates : Eligible(c)}
        Before(c) == {d \in eligible : RanksBefore(d, c)}
    IN  [i \in 1 .. Cardinality(eligible) |->
            CHOOSE c \in eligible : Cardinality(Before(c)) = i - 1]

-----------------------------------------------------------------------------
(* Sources. *)

Newest(indices) == CHOOSE i \in indices : \A j \in indices : j <= i

Admitting == {i \in DOMAIN turns : turns[i].agents > 0}

\* Mutant: attempts and turns are searched from the oldest on.
OldestWorkspaceAgents ==
    IF Admitting = {} THEN 0
    ELSE turns[CHOOSE i \in Admitting : \A j \in Admitting : i <= j].agents

\* retained_workspace_agents: the newest bound turn that admitted the file, 0
\* when none did. A turn that found it absent does not end the search.
RetainedWorkspaceAgents == IF Admitting = {} THEN 0 ELSE turns[Newest(Admitting)].agents

\* observe_workspace_agents, with the registry's stale retention. Content that
\* is too large, not UTF-8, empty or that holds a credential is an error; so is
\* a failed read with nothing retained.
ObserveWorkspaceAgents ==
    CASE file.read = "available" -> [ok |-> TRUE, size |-> file.size]
      [] file.read = "absent" -> [ok |-> TRUE, size |-> 0]
      [] file.read = "unavailable" ->
            [ok |-> RetainedWorkspaceAgents > 0, size |-> RetainedWorkspaceAgents]
      [] file.read = "rejected" -> [ok |-> FALSE, size |-> 0]

\* Mutant: the count of earlier omissions is not carried over.
CompactHistoryForgetful(prior, cutoff) ==
    LET groups == prior.groups \cup (prior.cutoff + 1 .. cutoff)
        kept == {g \in groups : Cardinality({h \in groups : h > g}) < GroupsFitting}
    IN  [cutoff |-> cutoff,
         compacted |-> prior.compacted + (cutoff - prior.cutoff),
         omitted |-> Cardinality(groups \ kept),
         groups |-> kept]

\* compact_history: the groups of the prior history and the newly completed
\* ones up to the cutoff, of which the oldest are dropped until the rest fits.
CompactHistory(prior, cutoff) ==
    LET groups == prior.groups \cup (prior.cutoff + 1 .. cutoff)
        kept == {g \in groups : Cardinality({h \in groups : h > g}) < GroupsFitting}
    IN  [cutoff |-> cutoff,
         compacted |-> prior.compacted + (cutoff - prior.cutoff),
         omitted |-> prior.omitted + Cardinality(groups \ kept),
         groups |-> kept]

\* load_latest_compaction_checkpoint and load_compacted_history.
RetainedHistory ==
    LET compactions == {i \in DOMAIN turns : turns[i].mode = "compaction"}
    IN  IF compactions = {} THEN NoHistory ELSE turns[Newest(compactions)].history

\* validate_compacted_history, when a retained history is read back.
ValidHistory(h) ==
    /\ h.cutoff > 0 /\ h.groups # {}
    /\ h.compacted = Cardinality(h.groups) + h.omitted
    /\ \A g \in h.groups : g > 0 /\ g <= h.cutoff

HistorySize(h) == Cardinality(h.groups)

-----------------------------------------------------------------------------
(* Building: ContextBuilder::build. *)

\* build_request_after_cutoff: own messages and every exchange after the cutoff.
RequestAfter(cutoff) ==
    own + FoldLeft(LAMBDA total, size : total + size, 0,
                   SubSeq(exchanges, cutoff + 1, Len(exchanges)))

DurableMemoryLimit(limit) == limit \div 4

\* A memory rendered after the ones chosen so far.
Trial(chosen, m) == [revisions |-> chosen.revisions \cup {m.revision}, size |-> chosen.size + m.size]

\* Memories in the order of their rank; one that fits neither its share nor what
\* is left of the total is passed over.
SelectMemories(limit, room) ==
    LET ranked == Rank(matches)
        Fits(trial) == trial.size <= DurableMemoryLimit(limit) /\ trial.size <= room
        selected[n \in 0 .. Len(ranked)] ==
            IF n = 0 THEN [revisions |-> {}, size |-> 0]
            ELSE IF Fits(Trial(selected[n - 1], ranked[n])) THEN Trial(selected[n - 1], ranked[n])
            ELSE selected[n - 1]
    IN  selected[Len(ranked)]

\* Required sources first; an optional one that does not fit is left out.
Build(request, limit, history, agents) ==
    LET required == HistorySize(history)
        room == limit - request - required
        admitted == IF agents <= room THEN agents ELSE 0
        memories == SelectMemories(limit, room - admitted)
    IN  [within |-> request <= limit /\ room >= 0, agents |-> admitted, memories |-> memories,
         prelude |-> required + admitted + memories.size]

\* Mutant: the estimate of the unserialised parts is taken for the request.
EstimateFits(request, prelude, limit) == request + prelude <= limit

\* exact_request_fits: the serialised request, with its prelude.
ExactRequestFits(request, prelude, limit) ==
    request + prelude + (IF prelude = 0 THEN 0 ELSE Framing) <= limit

\* prepare_new_context_epoch and prepare_context_turn, then the exact check.
NewEpoch(mode, cutoff, limit, history) ==
    LET source == ObserveWorkspaceAgents
        request == RequestAfter(cutoff)
        built == Build(request, limit, history, source.size)
    IN  [ outcome |-> CASE ~source.ok -> "error"
                        [] source.ok /\ built.within
                             /\ ExactRequestFits(request, built.prelude, limit) -> "fits"
                        [] OTHER -> "over",
          turn |-> [mode |-> mode, runTurn |-> runTurn, limit |-> limit, catalog |-> catalog,
                    completed |-> Len(exchanges), cutoff |-> cutoff, request |-> request,
                    history |-> history, read |-> file.read,
                    observed |-> source.size, agents |-> built.agents,
                    memories |-> built.memories.revisions,
                    memorySize |-> built.memories.size, prelude |-> built.prelude] ]

\* prepare_frozen_continuation: the prelude of the epoch's baseline before the
\* grown request. A descriptor that changed since the epoch began is an error.
FrozenContinuation(cutoff) ==
    LET base == Last(turns)
        request == RequestAfter(cutoff)
    IN  [ outcome |-> CASE base.catalog # catalog -> "error"
                        [] base.catalog = catalog
                             /\ ExactRequestFits(request, base.prelude, base.limit) -> "fits"
                        [] OTHER -> "over",
          turn |-> [base EXCEPT !.mode = "frozen", !.runTurn = runTurn, !.request = request,
                                !.completed = Len(exchanges), !.cutoff = cutoff] ]

-----------------------------------------------------------------------------
(* prepare_context_snapshot. *)

\* A continuation keeps the budget of its epoch.
TokenBudget == IF runTurn > 1 THEN Last(turns).limit ELSE catalog

Ordinary ==
    LET cutoff == RetainedHistory.cutoff
    IN  IF RequestAfter(cutoff) > TokenBudget THEN [outcome |-> "over"]
        ELSE IF runTurn > 1 THEN FrozenContinuation(cutoff)
        ELSE NewEpoch("new", cutoff, TokenBudget, RetainedHistory)

CompactionAt(cutoff) ==
    NewEpoch("compaction", cutoff, TokenBudget, CompactHistory(RetainedHistory, cutoff))

\* compaction_cutoffs, and among them those whose preflight fits.
FittingCutoffs ==
    {c \in RetainedHistory.cutoff + 1 .. Len(exchanges) : CompactionAt(c).outcome = "fits"}

Bind(turn) ==
    /\ turns' = Append(turns, turn)
    /\ candidate' = NoHistory /\ handler' = "streaming"
    /\ UNCHANGED <<file, catalog, exchanges, own, runTurn, matches, edits>>

PreparationFails ==
    /\ handler' = "idle" /\ runTurn' = 0 /\ own' = 0 /\ matches' = {} /\ candidate' = NoHistory
    /\ UNCHANGED <<file, catalog, exchanges, turns, edits>>

HistoryLoads == RetainedHistory # NoHistory => ValidHistory(RetainedHistory)

PrepareOrdinary ==
    /\ handler = "prepare" /\ HistoryLoads /\ Ordinary.outcome = "fits"
    /\ Bind(Ordinary.turn)

\* select_compaction_candidate: the smallest cutoff that fits. Its proposal is
\* written before the turn is prepared again.
SelectCompactionCandidate ==
    /\ handler = "prepare" /\ HistoryLoads /\ Ordinary.outcome = "over"
    /\ FittingCutoffs # {}
    /\ LET cutoff == CHOOSE c \in FittingCutoffs : \A d \in FittingCutoffs : c <= d
       IN  candidate' = CompactHistory(RetainedHistory, cutoff)
    /\ handler' = "compact"
    /\ UNCHANGED <<file, catalog, exchanges, own, runTurn, matches, turns, edits>>

PrepareFails ==
    /\ handler = "prepare"
    /\ \/ ~HistoryLoads
       \/ Ordinary.outcome = "error"
       \/ Ordinary.outcome = "over" /\ FittingCutoffs = {}
    /\ PreparationFails

CandidateEpoch == NewEpoch("compaction", candidate.cutoff, TokenBudget, candidate)

PrepareCompaction ==
    /\ handler = "compact" /\ CandidateEpoch.outcome = "fits"
    /\ Bind(CandidateEpoch.turn)

CompactionFails ==
    /\ handler = "compact" /\ CandidateEpoch.outcome # "fits"
    /\ PreparationFails

-----------------------------------------------------------------------------
(* The session around it. *)

StartAttempt(query) ==
    /\ handler = "idle" /\ Len(exchanges) < MaxExchanges /\ Len(turns) < MaxTurns
    /\ handler' = "prepare" /\ runTurn' = 1 /\ own' = 1 /\ matches' = query
    /\ UNCHANGED <<file, catalog, exchanges, turns, candidate, edits>>

\* Tool calls and their results become part of the attempt's own messages.
ContinueAfterTools ==
    /\ handler = "streaming" /\ Len(turns) < MaxTurns
    /\ handler' = "prepare" /\ runTurn' = runTurn + 1 /\ own' = own + 1
    /\ UNCHANGED <<file, catalog, exchanges, matches, turns, candidate, edits>>

\* The exchange is at least what the last request already sent of it.
CompleteAttempt(size) ==
    /\ handler = "streaming" /\ size >= own
    /\ exchanges' = Append(exchanges, size)
    /\ handler' = "idle" /\ runTurn' = 0 /\ own' = 0 /\ matches' = {}
    /\ UNCHANGED <<file, catalog, turns, candidate, edits>>

FailAttempt ==
    /\ handler = "streaming"
    /\ handler' = "idle" /\ runTurn' = 0 /\ own' = 0 /\ matches' = {}
    /\ UNCHANGED <<file, catalog, exchanges, turns, candidate, edits>>

-----------------------------------------------------------------------------
(* Outside the session. *)

Contents ==
    {[read |-> r, size |-> 0] : r \in {"absent", "unavailable", "rejected"}}
      \cup {[read |-> "available", size |-> s] : s \in AgentsSizes}

ChangeFile(content) ==
    /\ content # file /\ edits < MaxEdits
    /\ file' = content /\ edits' = edits + 1
    /\ UNCHANGED <<catalog, exchanges, own, runTurn, matches, turns, candidate, handler>>

RefreshCatalog(limit) ==
    /\ handler \in {"idle", "streaming"} /\ limit # catalog /\ edits < MaxEdits
    /\ catalog' = limit /\ edits' = edits + 1
    /\ UNCHANGED <<file, exchanges, own, runTurn, matches, turns, candidate, handler>>

-----------------------------------------------------------------------------
PrepareStep ==
    \/ PrepareOrdinary \/ SelectCompactionCandidate \/ PrepareFails
    \/ PrepareCompaction \/ CompactionFails

AttemptStep ==
    \/ \E q \in Queries : StartAttempt(q)
    \/ ContinueAfterTools \/ FailAttempt
    \/ \E s \in ExchangeSizes : CompleteAttempt(s)

EnvironmentStep ==
    \/ \E c \in Contents : ChangeFile(c)
    \/ \E l \in Limits : RefreshCatalog(l)

Next == PrepareStep \/ AttemptStep \/ EnvironmentStep

Spec == Init /\ [][Next]_vars

-----------------------------------------------------------------------------
(* Properties. *)

\* Every exchange completed before a request is in it exactly once: raw after
\* the cutoff, as a group of the compacted history, or counted among the groups
\* that history omits, which are the oldest. So it stays over repeated
\* compactions, failed attempts and tool continuations of frozen epochs, whose
\* prelude and whose raw messages are taken from different places; and so what a
\* compaction leaves behind passes validate_compacted_history when it is read
\* (build_request_after_cutoff, compact_history, prepare_frozen_continuation).
EveryExchangeIsPresented ==
    \A i \in DOMAIN turns :
        LET t == turns[i]
            h == t.history
        IN  /\ h.cutoff = t.cutoff /\ h.compacted = t.cutoff
            /\ h.omitted + Cardinality(h.groups) = h.compacted
            /\ h.groups = h.omitted + 1 .. h.cutoff
            /\ t.cutoff <= t.completed

\* No bound request exceeds the budget it was prepared for, and memories stay in
\* their share, although AGENTS.md may grow between the preflight of a
\* compaction and its preparation, and a continuation adds messages to a
\* prelude that was sized without them (exact_request_fits, fits_memory_limit).
RequestsFit ==
    \A i \in DOMAIN turns :
        LET t == turns[i]
        IN  /\ t.request + t.prelude + (IF t.prelude = 0 THEN 0 ELSE Framing) <= t.limit
            /\ t.memorySize <= t.limit \div 4
            /\ t.prelude = HistorySize(t.history) + t.agents + t.memorySize

\* While AGENTS.md cannot be read, every new epoch works with the instructions
\* the session's requests carried last, and none is sent when there are none: a
\* failed read is never taken for an absent file, nor for an older content
\* (retained_workspace_agents, observe_one).
InstructionsOutliveFailedReads ==
    \A i \in DOMAIN turns :
        turns[i].mode # "frozen" /\ turns[i].read = "unavailable" =>
            \E j \in 1 .. i - 1 :
                /\ turns[j].agents > 0 /\ turns[j].agents = turns[i].observed
                /\ \A k \in j + 1 .. i - 1 : turns[k].agents = 0

=============================================================================
