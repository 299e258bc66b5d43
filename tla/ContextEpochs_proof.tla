------------------------- MODULE ContextEpochs_proof -------------------------
(***************************************************************************)
(* The theorems of the memory ledger and of the context turns built from   *)
(* it.  SoundItem says of one memory what any history of commands leaves   *)
(* of it: only its last revision may be anything but superseded, and what  *)
(* is active is what is indexed.  TurnFacts relates the frozen turns to    *)
(* the ledger, ContextFacts the place in the running handler to both.      *)
(* RebuildFacts says that every memory is the replay of its operations,    *)
(* but for the sidecars and excerpts that deletions took: Shown is what a  *)
(* rebuild shows of a replay, and it commutes with every operation.        *)
(***************************************************************************)
EXTENDS ContextEpochs, SequenceTheorems, WellFoundedInduction, TLAPS

-----------------------------------------------------------------------------
(* Types. *)

RevisionStates == {"proposed", "active", "superseded", "rejected", "retracted", "deleted"}
Origins == {"user", "import", "tool", "compaction"}
Sources == {Session, NoSession}
Rows ==
    [state : RevisionStates, origin : Origins, supersedes : Nat, source : Sources,
     content : BOOLEAN, excerpt : BOOLEAN, erasedBy : Sources]
Lifecycles == {"absent", "proposed", "active", "rejected", "retracted", "deleted"}
Items ==
    [scope : {Workspace, Session, NoSession}, lifecycle : Lifecycles, sequence : Nat, latest : Nat,
     active : Nat, revisions : Seq(Rows), fts : SUBSET Nat]
Drafts == [origin : Origins \cup {"none"}, supersedes : Nat, source : Sources, excerpt : BOOLEAN]
Kinds ==
    {"MemoryCreated", "MemoryRevised", "ProposalApproved", "RevisionValidated", "RevisionActivated",
     "RevisionRejected", "RevisionSuperseded", "MemoryRetracted", "MemoryDeleted"}
Operations ==
    [kind : Kinds, revision : Nat, other : Nat, draft : Drafts,
     scope : {Workspace, Session, NoSession}, first : BOOLEAN]
Admissions == [memory : Memories, revision : 1..MaxRevisions]
Turns ==
    [attempt : Nat, turn : Nat, epoch : Nat, admitted : SUBSET Admissions, kept : SUBSET Admissions,
     prelude : {"absent", "retained", "erased"}]
Snapshots ==
    [kind : {"new", "frozen", "compaction"}, turn : Nat, admitted : SUBSET Admissions, generation : Nat]
Handlers == {"none", "prepare", "compact", "bind", "dispatch", "propose", "proposed", "resume"}

MemoryTypeOK ==
    /\ items \in [Memories -> Items]
    /\ ledger \in [Memories -> Seq(Operations)]
    /\ generation \in Nat /\ mutationGeneration \in Nat
    /\ tombstones \subseteq Memories
    /\ turns \in Seq(Turns)

ContextTypeOK ==
    /\ session \in {"open", "deleted"}
    /\ attempt \in Nat /\ started \in Nat
    /\ status \in {"none", "inflight", "awaiting", "completed", "failed", "unknown"}
    /\ \E rows : epochs \in Seq(rows)
    /\ call \in {"none", "running", "completed", "failed", "unknown"}
    /\ exact \in BOOLEAN /\ active \in BOOLEAN
    /\ handler \in Handlers
    /\ snapshot \in Snapshots \cup {NoSnapshot}

TypeOK == MemoryTypeOK /\ ContextTypeOK

-----------------------------------------------------------------------------
(* The ledger. *)

LastState(item) == StateOf(item, Len(item.revisions))

\* What a history of commands leaves of one memory: only its last revision can
\* still change.
SoundItem(item) ==
    /\ item.latest = Len(item.revisions)
    /\ item.sequence = 0 => item = Absent
    /\ item.sequence > 0 => Len(item.revisions) > 0
    /\ \A r \in 1 .. Len(item.revisions) - 1 : StateOf(item, r) \in {"superseded", "deleted"}
    /\ item.active \in {0, Len(item.revisions)}
    /\ item.sequence > 0 =>
          /\ item.active # 0 <=> LastState(item) = "active"
          /\ LastState(item) = "proposed" => item.revisions[Len(item.revisions)].supersedes = 0
    /\ item.fts = {item.active} \ {0}
    /\ item.active # 0 =>
          /\ item.lifecycle = "active"
          /\ item.revisions[item.active].origin = "user" /\ item.revisions[item.active].content

\* Nothing of a deleted memory is left, and nothing can be done with it.
ErasedItem(item) ==
    /\ item.sequence > 0 /\ item.fts = {} /\ LastState(item) = "deleted"
    /\ \A r \in DOMAIN item.revisions : ~item.revisions[r].content /\ ~item.revisions[r].excerpt

\* An item quotes the session only while the session is there.
QuotesNothing(item) ==
    item.scope # Session =>
        \A r \in DOMAIN item.revisions : item.revisions[r].excerpt => item.revisions[r].source # Session

LedgerFacts ==
    /\ \A m \in Memories : SoundItem(items[m])
    /\ \A m \in Memories : items[m].sequence = 0 => ledger[m] = <<>>
    /\ \A m \in DeletedMemories : ErasedItem(items[m])
    /\ tombstones # {} => session = "deleted"
    /\ session = "deleted" => \A m \in Memories : QuotesNothing(items[m])

-----------------------------------------------------------------------------
(* The turns. *)

TurnFacts ==
    /\ EpochIsFrozen
    /\ \A i \in DOMAIN turns :
          /\ turns[i].epoch \in DOMAIN epochs
          /\ turns[i].kept \subseteq turns[i].admitted
          /\ \A a \in turns[i].kept : HasContent(a.memory, a.revision)
          /\ \A a \in turns[i].admitted : a.memory \in DeletedMemories => turns[i].prelude = "erased"

\* The running handler and what it has left behind.
ContextFacts ==
    /\ session = "deleted" => turns = <<>> /\ Settled /\ handler = "none" /\ ~active
    /\ started > 0 /\ session = "open" =>
          \E i \in DOMAIN turns : turns[i].attempt = attempt /\ turns[i].turn = started
    /\ handler = "bind" =>
          /\ snapshot # NoSnapshot /\ snapshot.turn = started + 1
          /\ snapshot.kind = "frozen" => started > 0
    /\ handler = "dispatch" =>
          /\ turns # <<>> /\ Last(turns).attempt = attempt /\ Last(turns).turn = started + 1
          /\ Last(turns).kept = Last(turns).admitted

\* The proposal call and its memory.
CallFacts ==
    /\ call = "running" <=> handler \in {"propose", "proposed"}
    /\ handler = "proposed" => ExactProposalCommitted(Proposal, "tool") /\ Exists(Proposal)
    /\ handler = "propose" => ~Exists(Proposal)
    /\ ToolOutcomeMatchesLedger

IInv == TypeOK /\ LedgerFacts /\ TurnFacts /\ ContextFacts /\ CallFacts

-----------------------------------------------------------------------------
(* Operations, one by one. *)

Item(scope, lifecycle, sequence, latest, current, revisions, fts) ==
    [scope |-> scope, lifecycle |-> lifecycle, sequence |-> sequence, latest |-> latest,
     active |-> current, revisions |-> revisions, fts |-> fts]

\* An item is its columns.
LEMMA ItemIs ==
  ASSUME NEW item \in Items
  PROVE  item = Item(item.scope, item.lifecycle, item.sequence, item.latest, item.active, item.revisions, item.fts)
  BY DEF Items, Item

\* The columns of an item.
LEMMA ItemHas ==
  ASSUME NEW scope, NEW lifecycle, NEW sequence, NEW latest, NEW current, NEW revisions, NEW fts,
         NEW item, item = Item(scope, lifecycle, sequence, latest, current, revisions, fts)
  PROVE  /\ item.scope = scope /\ item.lifecycle = lifecycle /\ item.sequence = sequence /\ item.latest = latest
         /\ item.active = current /\ item.revisions = revisions /\ item.fts = fts
  BY DEF Item

\* A sequence and one more element.
LEMMA Appends ==
  ASSUME NEW S, NEW s \in Seq(S), NEW x \in S, NEW t, t = Append(s, x)
  PROVE  t \in Seq(S) /\ Len(t) = Len(s) + 1 /\ t[Len(s) + 1] = x /\ \A i \in 1..Len(s) : t[i] = s[i]
<1>1. Append(s, x) \in Seq(S)
  OBVIOUS
<1>2. Len(Append(s, x)) = Len(s) + 1
  OBVIOUS
<1>3. Append(s, x)[Len(s) + 1] = x
  OBVIOUS
<1>4. \A i \in 1..Len(s) : Append(s, x)[i] = s[i]
  OBVIOUS
<1> QED
  BY <1>1, <1>2, <1>3, <1>4

\* A batch is its operations, the first of which names the command.
LEMMA BatchIs ==
  ASSUME NEW ops \in Seq(Operations)
  PROVE  /\ Batch(ops) \in Seq(Operations) /\ Len(Batch(ops)) = Len(ops) /\ DOMAIN Batch(ops) = 1..Len(ops)
         /\ \A i \in 1..Len(ops) :
               /\ Batch(ops)[i].kind = ops[i].kind /\ Batch(ops)[i].revision = ops[i].revision
               /\ Batch(ops)[i].other = ops[i].other /\ Batch(ops)[i].draft = ops[i].draft
               /\ Batch(ops)[i].scope = ops[i].scope
<1>1. \A i \in 1..Len(ops) : ops[i] \in Operations
  OBVIOUS
<1>2. \A i \in 1..Len(ops) :
         LET op == [ops[i] EXCEPT !.first = (i = 1)]
         IN  /\ op \in Operations /\ op.kind = ops[i].kind /\ op.revision = ops[i].revision
             /\ op.other = ops[i].other /\ op.draft = ops[i].draft /\ op.scope = ops[i].scope
  BY <1>1 DEF Operations
<1>3. Batch(ops) \in [1..Len(ops) -> Operations]
  BY <1>2 DEF Batch
<1>4. Batch(ops) \in Seq(Operations) /\ Len(Batch(ops)) = Len(ops) /\ DOMAIN Batch(ops) = 1..Len(ops)
  BY <1>3
<1> QED
  BY <1>2, <1>4 DEF Batch

\* The planner's operations.
LEMMA OperationIs ==
  ASSUME NEW kind \in Kinds, NEW r \in Nat, NEW other \in Nat, NEW draft \in Drafts
  PROVE  /\ Operation(kind, r, other, draft) \in Operations
         /\ Operation(kind, r, other, draft).kind = kind
         /\ Operation(kind, r, other, draft).revision = r
         /\ Operation(kind, r, other, draft).other = other
         /\ Operation(kind, r, other, draft).draft = draft
  BY DEF Operation, Operations

\* The drafts.
LEMMA DraftIs ==
  ASSUME NEW supersedes \in Nat, NEW origin \in Origins, NEW source \in Sources, NEW excerpt \in BOOLEAN
  PROVE  /\ NoDraft \in Drafts
         /\ UserDraft(supersedes) \in Drafts /\ UserDraft(supersedes).origin = "user"
         /\ UserDraft(supersedes).supersedes = supersedes /\ UserDraft(supersedes).source = NoSession
         /\ ~UserDraft(supersedes).excerpt
         /\ UntrustedDraft(origin, source, excerpt) \in Drafts
         /\ UntrustedDraft(origin, source, excerpt).origin = origin
         /\ UntrustedDraft(origin, source, excerpt).supersedes = 0
         /\ UntrustedDraft(origin, source, excerpt).source = source
  BY DEF NoDraft, UserDraft, UntrustedDraft, Drafts, Sources, Origins

\* The row a draft becomes.
LEMMA RowIs ==
  ASSUME NEW draft \in Drafts, draft.origin # "none"
  PROVE  LET row == RevisionRow(draft, TRUE, NoSession)
         IN  /\ row \in Rows /\ row.state = "proposed" /\ row.origin = draft.origin /\ row.content
             /\ row.supersedes = draft.supersedes /\ row.source = draft.source
             /\ row.excerpt => draft.excerpt
  BY DEF RevisionRow, Drafts, Rows, RevisionStates, Sources

\* Changing the state of a revision.
WithState(revisions, r, state) == [revisions EXCEPT ![r] = [revisions[r] EXCEPT !.state = state]]

\* Setting a state changes the rows of the item and nothing else.
LEMMA SetsState ==
  ASSUME NEW item \in Items, NEW r, NEW state
  PROVE  SetRevisionState(item, r, state) =
            Item(item.scope, item.lifecycle, item.sequence, item.latest, item.active,
                 WithState(item.revisions, r, state), item.fts)
<1>1. PICK revisions : revisions = WithState(item.revisions, r, state)
  OBVIOUS
<1>2. SetRevisionState(item, r, state) = [item EXCEPT !.revisions = revisions]
  BY <1>1 DEF SetRevisionState, WithState
<1>3. [item EXCEPT !.revisions = revisions] =
        Item(item.scope, item.lifecycle, item.sequence, item.latest, item.active, revisions, item.fts)
  BY DEF Items, Item
<1> QED
  BY <1>1, <1>2, <1>3

\* What that leaves.
LEMMA WithStateIs ==
  ASSUME NEW revisions \in Seq(Rows), NEW r \in 1..Len(revisions), NEW state \in RevisionStates
  PROVE  LET after == WithState(revisions, r, state)
         IN  /\ after \in Seq(Rows) /\ Len(after) = Len(revisions)
             /\ after[r].state = state
             /\ \A i \in 1..Len(revisions) \ {r} : after[i] = revisions[i]
             /\ after[r].origin = revisions[r].origin /\ after[r].supersedes = revisions[r].supersedes
             /\ after[r].source = revisions[r].source /\ after[r].content = revisions[r].content
             /\ after[r].excerpt = revisions[r].excerpt /\ after[r].erasedBy = revisions[r].erasedBy
<1>1. revisions[r] \in Rows
  OBVIOUS
<1>2. PICK row : row = [revisions[r] EXCEPT !.state = state]
  OBVIOUS
<1>3. /\ row \in Rows /\ row.state = state /\ row.origin = revisions[r].origin /\ row.supersedes = revisions[r].supersedes
      /\ row.source = revisions[r].source /\ row.content = revisions[r].content
      /\ row.excerpt = revisions[r].excerpt /\ row.erasedBy = revisions[r].erasedBy
  BY <1>1, <1>2 DEF Rows
<1>4. WithState(revisions, r, state) = [revisions EXCEPT ![r] = row]
  BY <1>2 DEF WithState
<1> QED
  BY <1>3, <1>4

\* Every operation takes a sequence.
LEMMA AppliesLive ==
  ASSUME NEW item, NEW op, NEW applied, applied = ApplyPayload(item, op, TRUE, NoSession)
  PROVE  ApplyLive(item, op) = [applied EXCEPT !.sequence = applied.sequence + 1]
  BY DEF ApplyLive, ApplyOperation

\* A new revision of an existing memory.
LEMMA AppliesRevised ==
  ASSUME NEW item \in Items, NEW op, op.kind = "MemoryRevised"
  PROVE  ApplyLive(item, op) =
            Item(item.scope, IF item.active = 0 THEN "proposed" ELSE "active", item.sequence + 1, op.revision,
                 item.active, Append(item.revisions, RevisionRow(op.draft, TRUE, NoSession)), item.fts)
<1>1. PICK row : row = RevisionRow(op.draft, TRUE, NoSession)
  OBVIOUS
<1>2. PICK applied : applied = InsertRevision(item, op, TRUE, NoSession)
  OBVIOUS
<1>3. applied = Item(item.scope, IF item.active = 0 THEN "proposed" ELSE "active", item.sequence, op.revision,
                     item.active, Append(item.revisions, row), item.fts)
  BY <1>1, <1>2, ItemIs DEF InsertRevision, ApplyRevisionProjection, Item, Items
<1>4. ApplyLive(item, op) = [applied EXCEPT !.sequence = applied.sequence + 1]
  <2>1. applied = ApplyPayload(item, op, TRUE, NoSession)
    BY <1>2 DEF ApplyPayload
  <2> QED
    BY <2>1, AppliesLive
<1> QED
  BY <1>1, <1>3, <1>4 DEF Item

\* A new revision that takes the place of a proposal.
LEMMA AppliesApproved ==
  ASSUME NEW item \in Items, NEW op, op.kind = "ProposalApproved"
  PROVE  ApplyLive(item, op) =
            Item(item.scope, IF item.active = 0 THEN "proposed" ELSE "active", item.sequence + 1, op.revision, item.active,
                 WithState(Append(item.revisions, RevisionRow(op.draft, TRUE, NoSession)), op.other, "superseded"),
                 item.fts)
<1>1. PICK row : row = RevisionRow(op.draft, TRUE, NoSession)
  OBVIOUS
<1>2. PICK inserted : inserted = InsertRevision(item, op, TRUE, NoSession)
  OBVIOUS
<1>3. inserted = Item(item.scope, IF item.active = 0 THEN "proposed" ELSE "active", item.sequence, op.revision,
                      item.active, Append(item.revisions, row), item.fts)
  BY <1>1, <1>2, ItemIs DEF InsertRevision, ApplyRevisionProjection, Item, Items
<1>4. PICK revisions : revisions = WithState(Append(item.revisions, row), op.other, "superseded")
  OBVIOUS
<1>5. PICK applied : applied = SetRevisionState(inserted, op.other, "superseded")
  OBVIOUS
<1>6. applied = [inserted EXCEPT !.revisions = revisions]
  BY <1>3, <1>4, <1>5 DEF SetRevisionState, WithState, Item
<1>7. ApplyLive(item, op) = [applied EXCEPT !.sequence = applied.sequence + 1]
  <2>1. applied = ApplyPayload(item, op, TRUE, NoSession)
    BY <1>2, <1>5 DEF ApplyPayload
  <2> QED
    BY <2>1, AppliesLive
<1> QED
  BY <1>1, <1>3, <1>4, <1>6, <1>7 DEF Item

\* A memory is created with its first revision.
LEMMA AppliesCreated ==
  ASSUME NEW item, NEW op, op.kind = "MemoryCreated"
  PROVE  ApplyLive(item, op) =
            Item(op.scope, "proposed", 1, op.revision, 0, <<RevisionRow(op.draft, TRUE, NoSession)>>, {})
<1>1. PICK row : row = RevisionRow(op.draft, TRUE, NoSession)
  OBVIOUS
<1>2. PICK shell : shell = InsertMemoryItemShell(op)
  OBVIOUS
<1>3. shell = Item(op.scope, "proposed", 0, 0, 0, <<>>, {})
  BY <1>2 DEF InsertMemoryItemShell, Absent, Item
<1>4. PICK applied : applied = InsertRevision(item, op, TRUE, NoSession)
  OBVIOUS
<1>5. Append(<<>>, row) = <<row>>
  OBVIOUS
<1>6. applied = ApplyRevisionProjection([shell EXCEPT !.revisions = <<row>>], op.revision)
  <2>1. shell.revisions = <<>>
    BY <1>3 DEF Item
  <2> QED
    BY <1>1, <1>2, <1>4, <1>5, <2>1 DEF InsertRevision
<1>7. applied = Item(op.scope, "proposed", 0, op.revision, 0, <<row>>, {})
  BY <1>3, <1>5, <1>6 DEF ApplyRevisionProjection, Item
<1>8. ApplyLive(item, op) = [applied EXCEPT !.sequence = applied.sequence + 1]
  <2>1. applied = ApplyPayload(item, op, TRUE, NoSession)
    BY <1>4 DEF ApplyPayload
  <2> QED
    BY <2>1, AppliesLive
<1>9. PICK revisions : revisions = <<row>>
  OBVIOUS
<1>10. applied = Item(op.scope, "proposed", 0, op.revision, 0, revisions, {}) /\ applied.sequence + 1 = 1
  BY <1>7, <1>9 DEF Item
<1> QED
  BY <1>1, <1>8, <1>9, <1>10 DEF Item

\* A verdict only takes a sequence.
LEMMA AppliesValidated ==
  ASSUME NEW item \in Items, NEW op, op.kind = "RevisionValidated"
  PROVE  ApplyLive(item, op) =
            Item(item.scope, item.lifecycle, item.sequence + 1, item.latest, item.active, item.revisions, item.fts)
<1>1. ApplyLive(item, op) = [item EXCEPT !.sequence = item.sequence + 1]
  <2>1. item = ApplyPayload(item, op, TRUE, NoSession)
    BY DEF ApplyPayload
  <2> QED
    BY <2>1, AppliesLive
<1> QED
  BY <1>1 DEF Item, Items

\* Activating the first active revision of a memory.
LEMMA AppliesFirstActivation ==
  ASSUME NEW item \in Items, NEW op, op.kind = "RevisionActivated", item.active = 0
  PROVE  ApplyLive(item, op) =
            Item(item.scope, "active", item.sequence + 1, item.latest, op.revision,
                 WithState(item.revisions, op.revision, "active"), item.fts \cup {op.revision})
<1>1. PICK set : set = SetRevisionState(item, op.revision, "active")
  OBVIOUS
<1>2. PICK applied : applied = ActivateRevision(item, op.revision)
  OBVIOUS
<1>3. applied = [set EXCEPT !.fts = set.fts \cup {op.revision}, !.lifecycle = "active", !.active = op.revision]
  BY <1>1, <1>2 DEF ActivateRevision, DeactivateCurrentRevision
<1>4. ApplyLive(item, op) = [applied EXCEPT !.sequence = applied.sequence + 1]
  <2>1. applied = ApplyPayload(item, op, TRUE, NoSession)
    BY <1>2 DEF ApplyPayload
  <2> QED
    BY <2>1, AppliesLive
<1>5. PICK revisions : revisions = WithState(item.revisions, op.revision, "active")
  OBVIOUS
<1>6. set = Item(item.scope, item.lifecycle, item.sequence, item.latest, item.active, revisions, item.fts)
  BY <1>1, <1>5, SetsState
<1> QED
  BY <1>3, <1>4, <1>5, <1>6 DEF Item

\* Activating a revision in the place of another.
LEMMA AppliesNextActivation ==
  ASSUME NEW item \in Items, NEW op, op.kind = "RevisionActivated", item.active # 0, item.active # op.revision
  PROVE  ApplyLive(item, op) =
            Item(item.scope, "active", item.sequence + 1, item.latest, op.revision,
                 WithState(WithState(item.revisions, item.active, "superseded"), op.revision, "active"),
                 (item.fts \ {item.active}) \cup {op.revision})
<1>1. PICK old : old = WithState(item.revisions, item.active, "superseded")
  OBVIOUS
<1>2. PICK superseded : superseded = SetRevisionState(item, item.active, "superseded")
  OBVIOUS
<1>3. PICK deactivated : deactivated = RemoveRevisionFromFts(superseded, item.active)
  OBVIOUS
<1>4. deactivated = Item(item.scope, item.lifecycle, item.sequence, item.latest, item.active, old, item.fts \ {item.active})
  BY <1>1, <1>2, <1>3, SetsState DEF RemoveRevisionFromFts, Item
<1>5. PICK revisions : revisions = WithState(old, op.revision, "active")
  OBVIOUS
<1>6. PICK set : set = SetRevisionState(deactivated, op.revision, "active")
  OBVIOUS
<1>7. set = [deactivated EXCEPT !.revisions = revisions]
  BY <1>4, <1>5, <1>6 DEF SetRevisionState, WithState, Item
<1>8. PICK applied : applied = ActivateRevision(item, op.revision)
  OBVIOUS
<1>9. applied = [set EXCEPT !.fts = set.fts \cup {op.revision}, !.lifecycle = "active", !.active = op.revision]
  BY <1>2, <1>3, <1>6, <1>8 DEF ActivateRevision, DeactivateCurrentRevision
<1>10. ApplyLive(item, op) = [applied EXCEPT !.sequence = applied.sequence + 1]
  <2>1. applied = ApplyPayload(item, op, TRUE, NoSession)
    BY <1>8 DEF ApplyPayload
  <2> QED
    BY <2>1, AppliesLive
<1> QED
  BY <1>1, <1>4, <1>5, <1>7, <1>9, <1>10 DEF Item

\* Superseding a revision.
LEMMA AppliesSuperseded ==
  ASSUME NEW item \in Items, NEW op, op.kind = "RevisionSuperseded"
  PROVE  ApplyLive(item, op) =
            Item(item.scope, item.lifecycle, item.sequence + 1, item.latest, item.active,
                 WithState(item.revisions, op.revision, "superseded"), item.fts \ {op.revision})
<1>1. PICK set : set = SetRevisionState(item, op.revision, "superseded")
  OBVIOUS
<1>2. PICK applied : applied = RemoveRevisionFromFts(set, op.revision)
  OBVIOUS
<1>3. ApplyLive(item, op) = [applied EXCEPT !.sequence = applied.sequence + 1]
  <2>1. applied = ApplyPayload(item, op, TRUE, NoSession)
    BY <1>1, <1>2 DEF ApplyPayload
  <2> QED
    BY <2>1, AppliesLive
<1>4. PICK revisions : revisions = WithState(item.revisions, op.revision, "superseded")
  OBVIOUS
<1>5. set = Item(item.scope, item.lifecycle, item.sequence, item.latest, item.active, revisions, item.fts)
  BY <1>1, <1>4, SetsState
<1> QED
  BY <1>2, <1>3, <1>4, <1>5 DEF RemoveRevisionFromFts, Item

\* Rejecting a proposal, retracting a revision, deleting a memory.
LEMMA AppliesRejected ==
  ASSUME NEW item \in Items, NEW op, op.kind = "RevisionRejected"
  PROVE  ApplyLive(item, op) =
            Item(item.scope, IF item.active = 0 THEN "rejected" ELSE "active", item.sequence + 1, item.latest,
                 item.active, WithState(item.revisions, op.revision, "rejected"), item.fts)
<1>1. PICK set : set = SetRevisionState(item, op.revision, "rejected")
  OBVIOUS
<1>2. PICK applied : applied = [set EXCEPT !.lifecycle = IF item.active = 0 THEN "rejected" ELSE "active"]
  OBVIOUS
<1>3. ApplyLive(item, op) = [applied EXCEPT !.sequence = applied.sequence + 1]
  <2>1. applied = ApplyPayload(item, op, TRUE, NoSession)
    BY <1>1, <1>2 DEF ApplyPayload
  <2> QED
    BY <2>1, AppliesLive
<1>4. PICK revisions : revisions = WithState(item.revisions, op.revision, "rejected")
  OBVIOUS
<1>5. set = Item(item.scope, item.lifecycle, item.sequence, item.latest, item.active, revisions, item.fts)
  BY <1>1, <1>4, SetsState
<1> QED
  BY <1>2, <1>3, <1>4, <1>5 DEF Item

\* Retraction takes the revision out of use.
LEMMA AppliesRetracted ==
  ASSUME NEW item \in Items, NEW op, op.kind = "MemoryRetracted"
  PROVE  ApplyLive(item, op) =
            Item(item.scope, "retracted", item.sequence + 1, item.latest, 0,
                 WithState(item.revisions, op.revision, "retracted"), item.fts \ {op.revision})
<1>1. PICK set : set = SetRevisionState(item, op.revision, "retracted")
  OBVIOUS
<1>2. PICK applied : applied = [RemoveRevisionFromFts(set, op.revision) EXCEPT !.lifecycle = "retracted", !.active = 0]
  OBVIOUS
<1>3. ApplyLive(item, op) = [applied EXCEPT !.sequence = applied.sequence + 1]
  <2>1. applied = ApplyPayload(item, op, TRUE, NoSession)
    BY <1>1, <1>2 DEF ApplyPayload
  <2> QED
    BY <2>1, AppliesLive
<1>4. PICK revisions : revisions = WithState(item.revisions, op.revision, "retracted")
  OBVIOUS
<1>5. set = Item(item.scope, item.lifecycle, item.sequence, item.latest, item.active, revisions, item.fts)
  BY <1>1, <1>4, SetsState
<1> QED
  BY <1>2, <1>3, <1>4, <1>5 DEF RemoveRevisionFromFts, Item

\* Deletion takes the content of every revision.
Emptied(revisions) == [i \in DOMAIN revisions |-> WithoutContent(revisions[i])]

\* The item delete_memory_content leaves.
LEMMA DeletesContent ==
  ASSUME NEW item \in Items, NEW r \in DOMAIN item.revisions
  PROVE  DeleteMemoryContent(item, r) =
            Item(item.scope, "deleted", item.sequence, item.latest, 0,
                 Emptied(WithState(item.revisions, r, "deleted")), {})
<1>1. PICK set : set = SetRevisionState(item, r, "deleted")
  OBVIOUS
<1>2. PICK left : left = Emptied(WithState(item.revisions, r, "deleted"))
  OBVIOUS
<1>3. set = Item(item.scope, item.lifecycle, item.sequence, item.latest, item.active,
                 WithState(item.revisions, r, "deleted"), item.fts)
  BY <1>1, SetsState
<1>4. set.revisions = WithState(item.revisions, r, "deleted") /\ DOMAIN set.revisions = DOMAIN item.revisions
  BY <1>3 DEF Item, WithState
<1>5. [i \in DOMAIN item.revisions |-> WithoutContent(set.revisions[i])] = left
  BY <1>2, <1>4 DEF Emptied
<1>6. DeleteMemoryContent(item, r) = [set EXCEPT !.fts = {}, !.lifecycle = "deleted", !.active = 0, !.revisions = left]
  BY <1>1, <1>5 DEF DeleteMemoryContent
<1> QED
  BY <1>2, <1>3, <1>6 DEF Item

\* MemoryDeleted as one operation.
LEMMA AppliesDeleted ==
  ASSUME NEW item \in Items, NEW op, op.kind = "MemoryDeleted", op.revision \in DOMAIN item.revisions
  PROVE  ApplyLive(item, op) =
            Item(item.scope, "deleted", item.sequence + 1, item.latest, 0,
                 Emptied(WithState(item.revisions, op.revision, "deleted")), {})
<1>1. PICK applied : applied = DeleteMemoryContent(item, op.revision)
  OBVIOUS
<1>2. ApplyLive(item, op) = [applied EXCEPT !.sequence = applied.sequence + 1]
  <2>1. applied = ApplyPayload(item, op, TRUE, NoSession)
    BY <1>1 DEF ApplyPayload
  <2> QED
    BY <2>1, AppliesLive
<1>3. PICK revisions : revisions = Emptied(WithState(item.revisions, op.revision, "deleted"))
  OBVIOUS
<1>4. applied = Item(item.scope, "deleted", item.sequence, item.latest, 0, revisions, {})
  BY <1>1, <1>3, DeletesContent
<1> QED
  BY <1>2, <1>3, <1>4 DEF Item

-----------------------------------------------------------------------------
(* Batches. *)

\* What a batch that deletes nothing keeps of an item.
Extends(before, after) ==
    /\ after.sequence > before.sequence /\ Len(after.revisions) >= Len(before.revisions)
    /\ \A r \in 1..Len(before.revisions) : after.revisions[r].content = before.revisions[r].content

DeletesNothing(batch) == \A i \in DOMAIN batch : batch[i].kind # "MemoryDeleted"

\* The items within a batch of four.
LEMMA ProjectedIs ==
  ASSUME NEW item, NEW batch
  PROVE  /\ Projected(item, batch, 0) = item
         /\ Projected(item, batch, 1) = ApplyLive(item, batch[1])
         /\ Projected(item, batch, 2) = ApplyLive(Projected(item, batch, 1), batch[2])
         /\ Projected(item, batch, 3) = ApplyLive(Projected(item, batch, 2), batch[3])
         /\ Projected(item, batch, 4) = ApplyLive(Projected(item, batch, 3), batch[4])
  BY DEF Projected

\* An item with a last revision to which nothing was done yet.
LEMMA FreshSound ==
  ASSUME NEW scope \in Scopes, NEW row \in Rows, row.state = "proposed", row.supersedes = 0
  PROVE  LET item == Item(scope, "proposed", 2, 1, 0, <<row>>, {})
         IN  item \in Items /\ SoundItem(item)
<1>1. PICK revisions : revisions = <<row>>
  OBVIOUS
<1>2. revisions \in Seq(Rows) /\ Len(revisions) = 1 /\ revisions[1] = row
  BY <1>1
<1>3. PICK item : item = Item(scope, "proposed", 2, 1, 0, revisions, {})
  OBVIOUS
<1>4. /\ item \in Items /\ item.revisions = revisions /\ item.latest = 1 /\ item.active = 0 /\ item.fts = {}
      /\ item.sequence = 2
  BY <1>2, <1>3 DEF Item, Items, Scopes, Lifecycles
<1>5. Len(item.revisions) = 1 /\ LastState(item) = "proposed" /\ item.revisions[1].supersedes = 0
  BY <1>2, <1>4 DEF LastState, StateOf
<1>6. SoundItem(item)
  <2>1. \A r \in 1 .. Len(item.revisions) - 1 : FALSE
    BY <1>5
  <2> QED
    BY <1>4, <1>5, <2>1 DEF SoundItem
<1> QED
  BY <1>1, <1>3, <1>4, <1>6

\* The active last revision of a sound item.
LEMMA ActiveSound ==
  ASSUME NEW scope \in {Workspace, Session, NoSession}, NEW sequence \in Nat \ {0}, NEW revisions \in Seq(Rows), NEW n \in Nat \ {0},
         Len(revisions) = n, revisions[n].state = "active", revisions[n].origin = "user", revisions[n].content,
         \A r \in 1 .. n - 1 : revisions[r].state \in {"superseded", "deleted"}
  PROVE  LET item == Item(scope, "active", sequence, n, n, revisions, {n})
         IN  item \in Items /\ SoundItem(item)
<1>1. PICK item : item = Item(scope, "active", sequence, n, n, revisions, {n})
  OBVIOUS
<1>2. /\ item \in Items /\ item.revisions = revisions /\ item.latest = n /\ item.active = n /\ item.fts = {n}
      /\ item.sequence = sequence /\ item.lifecycle = "active"
  BY <1>1 DEF Item, Items, Lifecycles
<1>3. SoundItem(item)
  BY <1>2 DEF SoundItem, LastState, StateOf
<1> QED
  BY <1>1, <1>2, <1>3

\* The row of a new memory.
FreshRow(row, draft) ==
    /\ row.state = "proposed" /\ row.content /\ row.supersedes = 0 /\ row.origin = draft.origin
    /\ row.excerpt => draft.excerpt

\* The two operations every new memory begins with.
LEMMA CreatesRow ==
  ASSUME NEW scope \in Scopes, NEW draft \in Drafts, draft.origin # "none", draft.supersedes = 0,
         NEW batch, batch[1].kind = "MemoryCreated", batch[1].revision = 1, batch[1].draft = draft,
         batch[1].scope = scope, batch[2].kind = "RevisionValidated"
  PROVE  \E row \in Rows :
            /\ FreshRow(row, draft)
            /\ Projected(Absent, batch, 2) = Item(scope, "proposed", 2, 1, 0, <<row>>, {})
<1>1. PICK row : row = RevisionRow(draft, TRUE, NoSession)
  OBVIOUS
<1>2. row \in Rows /\ FreshRow(row, draft)
  BY <1>1, RowIs DEF FreshRow
<1>3. PICK revisions : revisions = <<row>>
  OBVIOUS
<1>4. revisions \in Seq(Rows)
  BY <1>2, <1>3
<1>5. PICK one : one = Item(scope, "proposed", 1, 1, 0, revisions, {})
  OBVIOUS
<1>6. Projected(Absent, batch, 1) = one
  <2>1. PICK op : op = batch[1]
    OBVIOUS
  <2>2. ApplyLive(Absent, op) = Item(op.scope, "proposed", 1, op.revision, 0, <<RevisionRow(op.draft, TRUE, NoSession)>>, {})
    BY <2>1, AppliesCreated
  <2>3. op.scope = scope /\ op.revision = 1 /\ RevisionRow(op.draft, TRUE, NoSession) = row
    BY <1>1, <2>1
  <2>4. ApplyLive(Absent, op) = one
    BY <1>3, <1>5, <2>2, <2>3
  <2>5. Projected(Absent, batch, 1) = ApplyLive(Absent, op)
    BY <2>1, ProjectedIs
  <2> QED
    BY <2>4, <2>5
<1>7. one \in Items
  BY <1>4, <1>5 DEF Item, Items, Scopes, Lifecycles
<1>8. /\ one.scope = scope /\ one.lifecycle = "proposed" /\ one.sequence + 1 = 2 /\ one.latest = 1
      /\ one.active = 0 /\ one.revisions = revisions /\ one.fts = {}
  BY <1>5 DEF Item
<1>9. ApplyLive(one, batch[2]) = Item(scope, "proposed", 2, 1, 0, revisions, {})
  BY <1>7, <1>8, AppliesValidated
<1>10. Projected(Absent, batch, 2) = Item(scope, "proposed", 2, 1, 0, <<row>>, {})
  BY <1>3, <1>6, <1>9, ProjectedIs
<1> QED
  BY <1>2, <1>10

\* The planner's creation, up to the verdict.
LEMMA PlansReview ==
  ASSUME NEW scope \in Scopes, NEW draft \in Drafts,
         NEW batch, batch = Batch(<<[Operation("MemoryCreated", 1, 0, draft) EXCEPT !.scope = scope], Validated(1)>>)
  PROVE  /\ batch \in Seq(Operations) /\ Len(batch) = 2 /\ DOMAIN batch = 1..2
         /\ batch[1].kind = "MemoryCreated" /\ batch[1].revision = 1 /\ batch[1].draft = draft
         /\ batch[1].scope = scope /\ batch[2].kind = "RevisionValidated"
<1>1. PICK created : created = [Operation("MemoryCreated", 1, 0, draft) EXCEPT !.scope = scope]
  OBVIOUS
<1>2. /\ created \in Operations /\ created.kind = "MemoryCreated" /\ created.revision = 1 /\ created.draft = draft
      /\ created.scope = scope
  BY <1>1 DEF Operation, Operations, Kinds, Scopes
<1>3. PICK validated : validated = Validated(1)
  OBVIOUS
<1>4. validated \in Operations /\ validated.kind = "RevisionValidated"
  <2>1. NoDraft \in Drafts
    BY DEF NoDraft, Drafts, Sources
  <2>2. "RevisionValidated" \in Kinds
    BY DEF Kinds
  <2>3. Operation("RevisionValidated", 1, 0, NoDraft) \in Operations
    BY <2>1, <2>2, OperationIs
  <2>4. Operation("RevisionValidated", 1, 0, NoDraft).kind = "RevisionValidated"
    BY <2>1, <2>2, OperationIs
  <2> QED
    BY <1>3, <2>3, <2>4 DEF Validated
<1>5. PICK ops : ops = <<created, validated>>
  OBVIOUS
<1>6. ops \in Seq(Operations) /\ Len(ops) = 2 /\ ops[1] = created /\ ops[2] = validated
  BY <1>2, <1>4, <1>5
<1>7. batch = Batch(ops)
  BY <1>1, <1>3, <1>5
<1> QED
  BY <1>2, <1>4, <1>6, <1>7, BatchIs

\* A proposal is created: the memory has one revision, which is not active.
LEMMA CreatesProposal ==
  ASSUME NEW m, NEW scope \in Scopes, NEW draft \in Drafts, draft.origin # "none", draft.supersedes = 0,
         NEW verdict, ~IsExplicitAccepted(draft, verdict),
         NEW batch, batch = PlanCreate(m, scope, draft, verdict)
  PROVE  LET after == Projected(Absent, batch, Len(batch))
         IN  /\ batch \in Seq(Operations) /\ DeletesNothing(batch)
             /\ after \in Items /\ SoundItem(after) /\ after.sequence > 0
             /\ DOMAIN after.revisions = {1} /\ after.revisions[1].content
             /\ after.revisions[1].excerpt => draft.excerpt
             /\ Len(batch) = 2 /\ batch[1].kind = "MemoryCreated" /\ batch[1].draft = draft
             /\ batch[2].kind = "RevisionValidated"
<1>1. batch = Batch(<<[Operation("MemoryCreated", 1, 0, draft) EXCEPT !.scope = scope], Validated(1)>>)
  BY DEF PlanCreate
<1>2. /\ batch \in Seq(Operations) /\ Len(batch) = 2 /\ DOMAIN batch = 1..2
      /\ batch[1].kind = "MemoryCreated" /\ batch[1].revision = 1 /\ batch[1].draft = draft
      /\ batch[1].scope = scope /\ batch[2].kind = "RevisionValidated"
  BY <1>1, PlansReview
<1>3. PICK row \in Rows :
            /\ FreshRow(row, draft)
            /\ Projected(Absent, batch, 2) = Item(scope, "proposed", 2, 1, 0, <<row>>, {})
  BY <1>2, CreatesRow
<1>4. PICK after : after = Item(scope, "proposed", 2, 1, 0, <<row>>, {})
  OBVIOUS
<1>5. after \in Items /\ SoundItem(after)
  BY <1>3, <1>4, FreshSound DEF FreshRow
<1>6. after.sequence = 2 /\ after.revisions = <<row>>
  BY <1>4 DEF Item
<1>7. DOMAIN after.revisions = {1} /\ after.revisions[1] = row
  BY <1>6
<1> QED
  BY <1>2, <1>3, <1>4, <1>5, <1>6, <1>7 DEF DeletesNothing, FreshRow

\* The three operations of a memory that is active at once.
LEMMA ActivatesFirst ==
  ASSUME NEW scope \in Scopes, NEW draft \in Drafts, draft.origin = "user", draft.supersedes = 0, ~draft.excerpt,
         NEW batch, batch[1].kind = "MemoryCreated", batch[1].revision = 1, batch[1].draft = draft,
         batch[1].scope = scope, batch[2].kind = "RevisionValidated",
         batch[3].kind = "RevisionActivated", batch[3].revision = 1
  PROVE  LET after == Projected(Absent, batch, 3)
         IN  /\ after \in Items /\ SoundItem(after) /\ after.sequence > 0
             /\ DOMAIN after.revisions = {1} /\ ~after.revisions[1].excerpt
<1>1. draft.origin # "none"
  OBVIOUS
<1>8. PICK row \in Rows :
            /\ FreshRow(row, draft)
            /\ Projected(Absent, batch, 2) = Item(scope, "proposed", 2, 1, 0, <<row>>, {})
  BY <1>1, CreatesRow
<1>9. PICK revisions : revisions = <<row>>
  OBVIOUS
<1>10. revisions \in Seq(Rows) /\ Len(revisions) = 1 /\ revisions[1] = row /\ DOMAIN revisions = {1}
  BY <1>8, <1>9
<1>11. PICK two : two = Item(scope, "proposed", 2, 1, 0, revisions, {})
  OBVIOUS
<1>12. two \in Items
  BY <1>10, <1>11 DEF Item, Items, Lifecycles, Scopes
<1>13. /\ two.scope = scope /\ two.sequence + 1 = 3 /\ two.latest = 1 /\ two.active = 0
       /\ two.revisions = revisions /\ two.fts \cup {1} = {1}
  BY <1>11 DEF Item
<1>14. PICK left : left = WithState(revisions, 1, "active")
  OBVIOUS
<1>15. /\ left \in Seq(Rows) /\ Len(left) = 1 /\ left[1].state = "active" /\ left[1].origin = "user"
       /\ left[1].content /\ ~left[1].excerpt
  <2>1. 1 \in 1..Len(revisions) /\ "active" \in RevisionStates
    BY <1>10 DEF RevisionStates
  <2>2. /\ left \in Seq(Rows) /\ Len(left) = 1 /\ left[1].state = "active" /\ left[1].origin = revisions[1].origin
        /\ left[1].content = revisions[1].content /\ left[1].excerpt = revisions[1].excerpt
    BY <1>10, <1>14, <2>1, WithStateIs, ZenonT(30)
  <2> QED
    BY <1>8, <1>10, <2>2 DEF FreshRow
<1>16. PICK three : three = Item(scope, "active", 3, 1, 1, left, {1})
  OBVIOUS
<1>17. ApplyLive(two, batch[3]) = three
  BY <1>12, <1>13, <1>14, <1>16, AppliesFirstActivation
<1>18. Projected(Absent, batch, 3) = three
  BY <1>8, <1>9, <1>11, <1>17, ProjectedIs
<1>19. three \in Items /\ SoundItem(three)
  <2>1. scope \in {Workspace, Session, NoSession} /\ 3 \in Nat \ {0} /\ 1 \in Nat \ {0} /\ \A r \in 1 .. 1 - 1 : FALSE
    BY DEF Scopes
  <2> QED
    BY <1>15, <1>16, <2>1, ActiveSound
<1>20. three.sequence = 3 /\ three.revisions = left
  BY <1>16 DEF Item
<1>21. DOMAIN three.revisions = {1}
  BY <1>15, <1>20
<1>22. three.sequence > 0 /\ ~three.revisions[1].excerpt
  BY <1>15, <1>20
<1> QED
  BY <1>18, <1>19, <1>21, <1>22

\* What the user writes is active at once.
LEMMA CreatesActive ==
  ASSUME NEW m, NEW verdict, IsExplicitAccepted(UserDraft(0), verdict),
         NEW batch, batch = PlanCreate(m, Workspace, UserDraft(0), verdict)
  PROVE  LET after == Projected(Absent, batch, Len(batch))
         IN  /\ batch \in Seq(Operations) /\ DeletesNothing(batch)
             /\ after \in Items /\ SoundItem(after) /\ after.sequence > 0
             /\ DOMAIN after.revisions = {1} /\ ~after.revisions[1].excerpt
<1>0. PICK draft : draft = UserDraft(0)
  OBVIOUS
<1>1. draft \in Drafts /\ draft.origin = "user" /\ draft.supersedes = 0 /\ ~draft.excerpt
  <2>1. "user" \in Origins /\ NoSession \in Sources
    BY DEF Origins, Sources
  <2> QED
    BY <1>0, <2>1, DraftIs
<1>2. PICK review : review = Batch(<<[Operation("MemoryCreated", 1, 0, draft) EXCEPT !.scope = Workspace], Validated(1)>>)
  OBVIOUS
<1>3. /\ review \in Seq(Operations) /\ Len(review) = 2
      /\ review[1].kind = "MemoryCreated" /\ review[1].revision = 1 /\ review[1].draft = draft
      /\ review[1].scope = Workspace /\ review[2].kind = "RevisionValidated"
  <2>1. Workspace \in Scopes
    BY DEF Scopes
  <2> QED
    BY <1>1, <1>2, <2>1, PlansReview
<1>4. PICK activated : activated = Activated(1)
  OBVIOUS
<1>5. activated \in Operations /\ activated.kind = "RevisionActivated" /\ activated.revision = 1
  BY <1>4 DEF Activated, Operation, Operations, Kinds, NoDraft, Drafts, Sources
<1>6. batch = Append(review, activated)
  BY <1>0, <1>2, <1>4 DEF PlanCreate
<1>7. batch \in Seq(Operations) /\ Len(batch) = 3 /\ batch[1] = review[1] /\ batch[2] = review[2] /\ batch[3] = activated
  <2>1. review \in Seq(Operations) /\ activated \in Operations
    BY <1>3, <1>5
  <2>2. /\ batch \in Seq(Operations) /\ Len(batch) = Len(review) + 1 /\ batch[Len(review) + 1] = activated
        /\ \A i \in 1..Len(review) : batch[i] = review[i]
    BY <1>6, <2>1, Appends
  <2> QED
    BY <1>3, <2>2
<1>8. PICK after : after = Projected(Absent, batch, 3)
  OBVIOUS
<1>9. /\ after \in Items /\ SoundItem(after) /\ after.sequence > 0
      /\ DOMAIN after.revisions = {1} /\ ~after.revisions[1].excerpt
  <2>1. Workspace \in Scopes
    BY DEF Scopes
  <2>2. batch[1].kind = "MemoryCreated" /\ batch[1].revision = 1 /\ batch[1].draft = draft
    BY <1>3, <1>7
  <2>3. batch[1].scope = Workspace /\ batch[2].kind = "RevisionValidated"
    BY <1>3, <1>7
  <2>4. batch[3].kind = "RevisionActivated" /\ batch[3].revision = 1
    BY <1>5, <1>7
  <2> QED
    BY <1>1, <1>8, <2>1, <2>2, <2>3, <2>4, ActivatesFirst
<1>10. DeletesNothing(batch)
  BY <1>3, <1>5, <1>7 DEF DeletesNothing
<1> QED
  BY <1>7, <1>8, <1>9, <1>10

-----------------------------------------------------------------------------
(* Successions: a revision or an approval replaces the last revision. *)

\* What a batch leaves of an item, and that it deletes nothing.
Lawful(item, batch) ==
    LET after == Projected(item, batch, Len(batch))
    IN  /\ batch \in Seq(Operations) /\ DeletesNothing(batch)
        /\ after \in Items /\ SoundItem(after) /\ Extends(item, after)

StaysQuiet(item, batch) == QuotesNothing(item) => QuotesNothing(Projected(item, batch, Len(batch)))

\* A revision was added, and the state of one was set.
Added(revisions, row, after) == after = Append(revisions, row)
StateSet(revisions, r, state, after) == after = WithState(revisions, r, state)

\* The rows with one more.
LEMMA AddedIs ==
  ASSUME NEW revisions \in Seq(Rows), NEW row \in Rows, NEW after, Added(revisions, row, after)
  PROVE  /\ after \in Seq(Rows) /\ Len(after) = Len(revisions) + 1 /\ after[Len(revisions) + 1] = row
         /\ \A i \in 1..Len(revisions) : after[i] = revisions[i]
  BY Appends DEF Added

\* The rows with one state changed.
LEMMA StateSetIs ==
  ASSUME NEW revisions \in Seq(Rows), NEW r \in 1..Len(revisions), NEW state \in RevisionStates,
         NEW after, StateSet(revisions, r, state, after)
  PROVE  /\ after \in Seq(Rows) /\ Len(after) = Len(revisions) /\ after[r].state = state
         /\ \A i \in 1..Len(revisions) \ {r} : after[i] = revisions[i]
         /\ after[r].origin = revisions[r].origin /\ after[r].supersedes = revisions[r].supersedes
         /\ after[r].source = revisions[r].source /\ after[r].content = revisions[r].content
         /\ after[r].excerpt = revisions[r].excerpt /\ after[r].erasedBy = revisions[r].erasedBy
<1>1. after = WithState(revisions, r, state)
  BY DEF StateSet
<1> QED
  BY <1>1, WithStateIs

\* The revisions along a succession: with the new one active, and at the end.
Succession(revisions, n, now, left) ==
    /\ now \in Seq(Rows) /\ Len(now) = n + 1 /\ now[n].state = "superseded" /\ now[n + 1].state = "active"
    /\ left \in Seq(Rows) /\ Len(left) = n + 1 /\ left[n].state = "superseded"
    /\ left[n + 1].state = "active" /\ left[n + 1].origin = "user" /\ left[n + 1].content /\ ~left[n + 1].excerpt
    /\ \A r \in 1..n : /\ left[r].content = revisions[r].content /\ left[r].excerpt = revisions[r].excerpt
                       /\ left[r].source = revisions[r].source
    /\ \A r \in 1 .. n - 1 : left[r].state = revisions[r].state

\* Which rows those are.
LEMMA SucceedsRows ==
  ASSUME NEW revisions \in Seq(Rows), NEW n \in Nat \ {0}, n = Len(revisions),
         NEW row \in Rows, row.origin = "user", row.content, ~row.excerpt,
         NEW longer, Added(revisions, row, longer),
         NEW mid, StateSet(longer, n, "superseded", mid),
         NEW now, StateSet(mid, n + 1, "active", now),
         NEW left, StateSet(now, n, "superseded", left)
  PROVE  /\ longer \in Seq(Rows) /\ Len(longer) = n + 1 /\ longer[n + 1] = row
         /\ mid \in Seq(Rows) /\ Len(mid) = n + 1 /\ mid[n + 1] = row
         /\ Succession(revisions, n, now, left)
<1>0. "superseded" \in RevisionStates /\ "active" \in RevisionStates
  BY DEF RevisionStates
<1>1. longer \in Seq(Rows) /\ Len(longer) = n + 1 /\ longer[n + 1] = row /\ \A i \in 1..n : longer[i] = revisions[i]
  BY AddedIs
<1>2. n \in 1..Len(longer) /\ n + 1 \in 1..Len(longer) /\ n # n + 1
  BY <1>1
<1>3. /\ mid \in Seq(Rows) /\ Len(mid) = Len(longer) /\ mid[n].state = "superseded"
      /\ \A i \in 1..Len(longer) \ {n} : mid[i] = longer[i]
      /\ mid[n].content = longer[n].content /\ mid[n].excerpt = longer[n].excerpt /\ mid[n].source = longer[n].source
  BY <1>0, <1>1, <1>2, StateSetIs
<1>4. n \in 1..Len(mid) /\ n + 1 \in 1..Len(mid)
  BY <1>2, <1>3
<1>5. /\ now \in Seq(Rows) /\ Len(now) = Len(mid) /\ now[n + 1].state = "active"
      /\ \A i \in 1..Len(mid) \ {n + 1} : now[i] = mid[i]
      /\ now[n + 1].content = mid[n + 1].content /\ now[n + 1].excerpt = mid[n + 1].excerpt
      /\ now[n + 1].origin = mid[n + 1].origin
  BY <1>0, <1>3, <1>4, StateSetIs
<1>6. n \in 1..Len(now) /\ n + 1 \in 1..Len(now)
  BY <1>4, <1>5
<1>7. /\ left \in Seq(Rows) /\ Len(left) = Len(now) /\ left[n].state = "superseded"
      /\ \A i \in 1..Len(now) \ {n} : left[i] = now[i]
      /\ left[n].content = now[n].content /\ left[n].excerpt = now[n].excerpt /\ left[n].source = now[n].source
  BY <1>0, <1>5, <1>6, StateSetIs
<1>8. mid[n + 1] = row /\ now[n] = mid[n] /\ left[n + 1] = now[n + 1]
  BY <1>1, <1>2, <1>3, <1>4, <1>5, <1>6, <1>7
<1>9. \A r \in 1 .. n - 1 : left[r] = revisions[r]
  <2> SUFFICES ASSUME NEW r \in 1 .. n - 1 PROVE left[r] = revisions[r]
    OBVIOUS
  <2>1. r \in 1..n /\ r \in 1..Len(longer) \ {n} /\ r \in 1..Len(mid) \ {n + 1} /\ r \in 1..Len(now) \ {n}
    BY <1>1, <1>3, <1>5
  <2>2. longer[r] = revisions[r] /\ mid[r] = longer[r]
    BY <1>1, <1>3, <2>1
  <2>3. now[r] = mid[r] /\ left[r] = now[r]
    BY <1>5, <1>7, <2>1
  <2> QED
    BY <2>2, <2>3
<1>10. \A r \in 1..n : /\ left[r].content = revisions[r].content /\ left[r].excerpt = revisions[r].excerpt
                       /\ left[r].source = revisions[r].source
  <2> SUFFICES ASSUME NEW r \in 1..n
               PROVE  /\ left[r].content = revisions[r].content /\ left[r].excerpt = revisions[r].excerpt
                      /\ left[r].source = revisions[r].source
    OBVIOUS
  <2>1. CASE r = n
    BY <1>1, <1>3, <1>7, <1>8, <2>1
  <2>2. CASE r \in 1 .. n - 1
    BY <1>9, <2>2
  <2> QED
    BY <2>1, <2>2
<1>11. Len(mid) = n + 1 /\ Len(now) = n + 1 /\ Len(left) = n + 1
  BY <1>1, <1>3, <1>5, <1>7
<1> QED
  BY <1>1, <1>3, <1>5, <1>7, <1>8, <1>9, <1>10, <1>11 DEF Succession

\* The batch of a succession.
SuccessionBatch(batch, n, kind, draft) ==
    /\ batch \in Seq(Operations) /\ Len(batch) = 4
    /\ batch[1].kind = kind /\ batch[1].revision = n + 1 /\ batch[1].draft = draft
    /\ kind = "ProposalApproved" => batch[1].other = n
    /\ batch[2].kind = "RevisionValidated" /\ batch[2].revision = n + 1
    /\ batch[3].kind = "RevisionActivated" /\ batch[3].revision = n + 1
    /\ batch[4].kind = "RevisionSuperseded" /\ batch[4].revision = n /\ batch[4].other = n + 1

Succeeds(item, three, op, after) ==
    /\ RequireRevisionState(three, op)
    /\ after \in Items /\ SoundItem(after) /\ Extends(item, after)
    /\ QuotesNothing(item) => QuotesNothing(after)

\* The third operation activates the new revision, the fourth changes nothing more.
LEMMA SucceedsTail ==
  ASSUME NEW item \in Items, SoundItem(item), NEW n \in Nat \ {0}, n = Len(item.revisions),
         NEW scope \in {Workspace, Session, NoSession}, item.scope = scope,
         NEW row \in Rows, row.origin = "user", row.content, ~row.excerpt,
         NEW longer, Added(item.revisions, row, longer),
         NEW mid, StateSet(longer, n, "superseded", mid),
         NEW now, StateSet(mid, n + 1, "active", now),
         NEW three, three = Item(scope, "active", item.sequence + 3, n + 1, n + 1, now, {n + 1}),
         NEW op, op.kind = "RevisionSuperseded", op.revision = n, op.other = n + 1,
         NEW after, after = ApplyLive(three, op)
  PROVE  Succeeds(item, three, op, after)
<1>1. PICK left : StateSet(now, n, "superseded", left)
  BY DEF StateSet
<1>2. item.revisions \in Seq(Rows) /\ item.sequence \in Nat
  BY DEF Items
<1>0. Succession(item.revisions, n, now, left)
  BY <1>1, <1>2, SucceedsRows
<1>3. /\ now \in Seq(Rows) /\ Len(now) = n + 1 /\ now[n].state = "superseded" /\ now[n + 1].state = "active"
      /\ left \in Seq(Rows) /\ Len(left) = n + 1 /\ left[n].state = "superseded"
      /\ left[n + 1].state = "active" /\ left[n + 1].origin = "user" /\ left[n + 1].content /\ ~left[n + 1].excerpt
      /\ \A r \in 1..n : /\ left[r].content = item.revisions[r].content /\ left[r].excerpt = item.revisions[r].excerpt
                         /\ left[r].source = item.revisions[r].source
      /\ \A r \in 1 .. n - 1 : left[r].state = item.revisions[r].state
  BY <1>0 DEF Succession
<1>4. three \in Items
  BY <1>2, <1>3 DEF Item, Items, Lifecycles
<1>5. /\ three.scope = scope /\ three.lifecycle = "active" /\ three.sequence + 1 = item.sequence + 4
      /\ three.latest = n + 1 /\ three.active = n + 1 /\ three.revisions = now /\ three.fts = {n + 1}
  BY <1>2 DEF Item
<1>6. RequireRevisionState(three, op)
  <2>1. n \in DOMAIN three.revisions /\ n + 1 \in DOMAIN three.revisions
    BY <1>3, <1>5
  <2>2. StateOf(three, n) = "superseded" /\ StateOf(three, n + 1) = "active"
    BY <1>3, <1>5 DEF StateOf
  <2> QED
    BY <2>1, <2>2 DEF RequireRevisionState
<1>7. after = Item(scope, "active", item.sequence + 4, n + 1, n + 1, left, {n + 1})
  <2>1. after = Item(three.scope, three.lifecycle, three.sequence + 1, three.latest, three.active,
                     WithState(three.revisions, op.revision, "superseded"), three.fts \ {op.revision})
    BY <1>4, AppliesSuperseded
  <2>2. WithState(three.revisions, op.revision, "superseded") = left
    BY <1>1, <1>5, Zenon DEF StateSet
  <2>3. three.fts \ {op.revision} = {n + 1}
    <3>1. {n + 1} \ {n} = {n + 1}
      OBVIOUS
    <3> QED
      BY <1>5, <3>1, Zenon
  <2> QED
    BY <1>5, <2>1, <2>2, <2>3
<1>8. \A r \in 1 .. (n + 1) - 1 : left[r].state \in {"superseded", "deleted"}
  <2> SUFFICES ASSUME NEW r \in 1..n PROVE left[r].state \in {"superseded", "deleted"}
    OBVIOUS
  <2>1. CASE r = n
    BY <1>3, <2>1
  <2>2. CASE r \in 1 .. n - 1
    BY <1>3, <2>2 DEF SoundItem, StateOf
  <2> QED
    BY <2>1, <2>2
<1>9. after \in Items /\ SoundItem(after)
  <2>1. item.sequence + 4 \in Nat \ {0} /\ n + 1 \in Nat \ {0}
    BY <1>2
  <2> QED
    BY <1>3, <1>7, <1>8, <2>1, ActiveSound, ZenonT(60)
<1>10. after.revisions = left /\ after.sequence = item.sequence + 4 /\ after.scope = scope
  BY <1>7, ItemHas
<1>11. Extends(item, after)
  <2>1. after.sequence > item.sequence
    BY <1>2, <1>10
  <2>2. Len(after.revisions) >= Len(item.revisions)
    BY <1>3, <1>10
  <2>3. \A r \in 1..Len(item.revisions) : after.revisions[r].content = item.revisions[r].content
    BY <1>3, <1>10
  <2> QED
    BY <2>1, <2>2, <2>3 DEF Extends
<1>12. QuotesNothing(item) => QuotesNothing(after)
  <2> SUFFICES ASSUME QuotesNothing(item), scope # Session, NEW r \in DOMAIN left, left[r].excerpt
               PROVE  left[r].source # Session
    BY <1>10 DEF QuotesNothing
  <2>1. r \in 1..n
    BY <1>3
  <2>2. item.revisions[r].excerpt /\ r \in DOMAIN item.revisions
    BY <1>2, <1>3, <2>1
  <2> QED
    BY <1>3, <2>1, <2>2 DEF QuotesNothing
<1> QED
  BY <1>6, <1>9, <1>11, <1>12 DEF Succeeds

\* A batch of four is accepted operation by operation.
LEMMA AcceptsFour ==
  ASSUME NEW item, NEW batch, batch \in Seq(Operations), Len(batch) = 4,
         RequireRevisionState(item, batch[1]),
         RequireRevisionState(Projected(item, batch, 1), batch[2]),
         RequireRevisionState(Projected(item, batch, 2), batch[3]),
         RequireRevisionState(Projected(item, batch, 3), batch[4])
  PROVE  StoreAccepts(item, batch)
<1> SUFFICES ASSUME NEW i \in DOMAIN batch PROVE RequireRevisionState(Projected(item, batch, i - 1), batch[i])
  BY DEF StoreAccepts
<1>1. i \in {1, 2, 3, 4}
  OBVIOUS
<1>2. Projected(item, batch, 0) = item
  BY ProjectedIs
<1>3. 1 - 1 = 0 /\ 2 - 1 = 1 /\ 3 - 1 = 2 /\ 4 - 1 = 3
  OBVIOUS
<1>4. CASE i = 1
  BY <1>2, <1>3, <1>4
<1>5. CASE i = 2
  BY <1>3, <1>5
<1>6. CASE i = 3
  BY <1>3, <1>6
<1>7. CASE i = 4
  BY <1>3, <1>7
<1> QED
  BY <1>1, <1>4, <1>5, <1>6, <1>7

\* The active last revision of a memory.
LEMMA ActiveItem ==
  ASSUME NEW item \in Items, SoundItem(item), item.sequence > 0, NEW n \in Nat \ {0}, n = Len(item.revisions),
         LastState(item) = "active"
  PROVE  item.active = n /\ item.lifecycle = "active" /\ item.fts = {n} /\ item.latest = n
  BY DEF SoundItem

\* A revision of the active one.
LEMMA SucceedsRevised ==
  ASSUME NEW item \in Items, SoundItem(item), item.sequence > 0, NEW n \in Nat \ {0}, n = Len(item.revisions),
         LastState(item) = "active", NEW draft \in Drafts, draft.origin = "user", ~draft.excerpt,
         NEW batch, SuccessionBatch(batch, n, "MemoryRevised", draft)
  PROVE  Lawful(item, batch) /\ StaysQuiet(item, batch) /\ StoreAccepts(item, batch)
<1>1. PICK row : row = RevisionRow(draft, TRUE, NoSession)
  OBVIOUS
<1>2. row \in Rows /\ row.state = "proposed" /\ row.origin = "user" /\ row.content /\ ~row.excerpt
  BY <1>1, RowIs
<1>3. PICK scope : scope = item.scope
  OBVIOUS
<1>4. PICK longer : Added(item.revisions, row, longer)
  BY DEF Added
<1>5. PICK mid : StateSet(longer, n, "superseded", mid)
  BY DEF StateSet
<1>6. PICK now : StateSet(mid, n + 1, "active", now)
  BY DEF StateSet
<1>7. /\ item.revisions \in Seq(Rows) /\ item.sequence \in Nat /\ scope \in {Workspace, Session, NoSession}
      /\ item.active = n /\ item.lifecycle = "active" /\ item.fts = {n} /\ item.latest = n
  <2>1. item.active = n /\ item.lifecycle = "active" /\ item.fts = {n} /\ item.latest = n
    BY ActiveItem
  <2> QED
    BY <1>3, <2>1 DEF Items
<1>8. longer \in Seq(Rows) /\ Len(longer) = n + 1 /\ longer[n + 1] = row
  BY <1>2, <1>4, <1>7, AddedIs
<1>9. PICK one : one = Item(scope, "active", item.sequence + 1, n + 1, n, longer, {n})
  OBVIOUS
<1>10. PICK two : two = Item(scope, "active", item.sequence + 2, n + 1, n, longer, {n})
  OBVIOUS
<1>11. PICK three : three = Item(scope, "active", item.sequence + 3, n + 1, n + 1, now, {n + 1})
  OBVIOUS
<1>12. one \in Items /\ two \in Items
  BY <1>7, <1>8, <1>9, <1>10 DEF Item, Items, Lifecycles
<1>13. /\ batch \in Seq(Operations) /\ Len(batch) = 4
       /\ batch[1].kind = "MemoryRevised" /\ batch[1].revision = n + 1 /\ batch[1].draft = draft
       /\ batch[2].kind = "RevisionValidated" /\ batch[2].revision = n + 1
       /\ batch[3].kind = "RevisionActivated" /\ batch[3].revision = n + 1
       /\ batch[4].kind = "RevisionSuperseded" /\ batch[4].revision = n /\ batch[4].other = n + 1
  BY DEF SuccessionBatch
<1>14. Projected(item, batch, 1) = one
  <2>1. ApplyLive(item, batch[1]) =
            Item(item.scope, IF item.active = 0 THEN "proposed" ELSE "active", item.sequence + 1, batch[1].revision,
                 item.active, Append(item.revisions, RevisionRow(batch[1].draft, TRUE, NoSession)), item.fts)
    BY <1>13, AppliesRevised
  <2>2. (IF item.active = 0 THEN "proposed" ELSE "active") = "active"
    BY <1>7
  <2>3. Append(item.revisions, RevisionRow(batch[1].draft, TRUE, NoSession)) = longer
    BY <1>1, <1>4, <1>13, Zenon DEF Added
  <2>4. ApplyLive(item, batch[1]) = one
    BY <1>3, <1>7, <1>9, <1>13, <2>1, <2>2, <2>3
  <2> QED
    BY <2>4, ProjectedIs
<1>15. Projected(item, batch, 2) = two
  <2>1. ApplyLive(one, batch[2]) =
            Item(one.scope, one.lifecycle, one.sequence + 1, one.latest, one.active, one.revisions, one.fts)
    BY <1>12, <1>13, AppliesValidated
  <2>2. /\ one.scope = scope /\ one.lifecycle = "active" /\ one.sequence = item.sequence + 1
        /\ one.latest = n + 1 /\ one.active = n /\ one.revisions = longer /\ one.fts = {n}
    BY <1>9, ItemHas
  <2>3. one.sequence + 1 = item.sequence + 2
    BY <1>7, <2>2
  <2>4. ApplyLive(one, batch[2]) = two
    BY <1>10, <2>1, <2>2, <2>3, Zenon
  <2> QED
    BY <1>14, <2>4, ProjectedIs
<1>16. /\ two.scope = scope /\ two.lifecycle = "active" /\ two.sequence = item.sequence + 2
       /\ two.latest = n + 1 /\ two.active = n /\ two.revisions = longer /\ two.fts = {n}
  BY <1>10, ItemHas
<1>17. Projected(item, batch, 3) = three
  <2>1. two.active # 0 /\ two.active # batch[3].revision
    BY <1>13, <1>16
  <2>2. ApplyLive(two, batch[3]) =
            Item(two.scope, "active", two.sequence + 1, two.latest, batch[3].revision,
                 WithState(WithState(two.revisions, two.active, "superseded"), batch[3].revision, "active"),
                 (two.fts \ {two.active}) \cup {batch[3].revision})
    BY <1>12, <1>13, <2>1, AppliesNextActivation
  <2>3. WithState(WithState(two.revisions, two.active, "superseded"), batch[3].revision, "active") = now
    BY <1>5, <1>6, <1>13, <1>16, Zenon DEF StateSet
  <2>4. (two.fts \ {two.active}) \cup {batch[3].revision} = {n + 1}
    BY <1>13, <1>16
  <2>5. two.sequence + 1 = item.sequence + 3
    BY <1>7, <1>16
  <2>6. ApplyLive(two, batch[3]) = three
    BY <1>11, <1>13, <1>16, <2>2, <2>3, <2>4, <2>5, Zenon
  <2> QED
    BY <1>15, <2>6, ProjectedIs
<1>18. PICK op : op = batch[4]
  OBVIOUS
<1>19. PICK after : after = ApplyLive(three, op)
  OBVIOUS
<1>20. op.kind = "RevisionSuperseded" /\ op.revision = n /\ op.other = n + 1
  BY <1>13, <1>18
<1>21. Succeeds(item, three, op, after)
  <2>1. item.scope = scope
    BY <1>3
  <2> QED
    BY <1>2, <1>4, <1>5, <1>6, <1>7, <1>11, <1>19, <1>20, <2>1, SucceedsTail
<1>22. Projected(item, batch, Len(batch)) = after
  BY <1>13, <1>17, <1>18, <1>19, ProjectedIs
<1>23. RequireRevisionState(item, batch[1])
  BY <1>7, <1>13 DEF RequireRevisionState
<1>24. n + 1 \in DOMAIN longer /\ longer[n + 1].state = "proposed"
  BY <1>2, <1>8
<1>25. RequireRevisionState(one, batch[2])
  <2>1. one.revisions = longer
    BY <1>9, ItemHas
  <2> QED
    BY <1>13, <1>24, <2>1 DEF RequireRevisionState, StateOf
<1>26. RequireRevisionState(two, batch[3])
  BY <1>13, <1>16, <1>24 DEF RequireRevisionState, StateOf
<1>27. StoreAccepts(item, batch)
  BY <1>13, <1>14, <1>15, <1>17, <1>18, <1>21, <1>23, <1>25, <1>26, AcceptsFour DEF Succeeds
<1>28. DeletesNothing(batch)
  <2> SUFFICES ASSUME NEW i \in DOMAIN batch PROVE batch[i].kind # "MemoryDeleted"
    BY DEF DeletesNothing
  <2>1. i \in {1, 2, 3, 4}
    BY <1>13
  <2> QED
    BY <1>13, <2>1
<1> QED
  BY <1>13, <1>21, <1>22, <1>27, <1>28 DEF Lawful, StaysQuiet, Succeeds

\* A proposal, which is the last revision of its memory.
LEMMA ProposedItem ==
  ASSUME NEW item \in Items, SoundItem(item), item.sequence > 0, NEW n \in Nat \ {0}, n = Len(item.revisions),
         LastState(item) # "active"
  PROVE  item.active = 0 /\ item.fts = {} /\ item.latest = n
  BY DEF SoundItem

\* An approved proposal.
LEMMA SucceedsApproved ==
  ASSUME NEW item \in Items, SoundItem(item), item.sequence > 0, NEW n \in Nat \ {0}, n = Len(item.revisions),
         LastState(item) = "proposed", NEW draft \in Drafts, draft.origin = "user", ~draft.excerpt,
         NEW batch, SuccessionBatch(batch, n, "ProposalApproved", draft)
  PROVE  Lawful(item, batch) /\ StaysQuiet(item, batch) /\ StoreAccepts(item, batch)
<1>1. PICK row : row = RevisionRow(draft, TRUE, NoSession)
  OBVIOUS
<1>2. row \in Rows /\ row.state = "proposed" /\ row.origin = "user" /\ row.content /\ ~row.excerpt
  BY <1>1, RowIs
<1>3. PICK scope : scope = item.scope
  OBVIOUS
<1>4. PICK longer : Added(item.revisions, row, longer)
  BY DEF Added
<1>5. PICK mid : StateSet(longer, n, "superseded", mid)
  BY DEF StateSet
<1>6. PICK now : StateSet(mid, n + 1, "active", now)
  BY DEF StateSet
<1>7. /\ item.revisions \in Seq(Rows) /\ item.sequence \in Nat /\ scope \in {Workspace, Session, NoSession}
      /\ item.active = 0 /\ item.fts = {} /\ item.latest = n
  <2>1. item.active = 0 /\ item.fts = {} /\ item.latest = n
    BY ProposedItem
  <2> QED
    BY <1>3, <2>1 DEF Items
<1>8. mid \in Seq(Rows) /\ Len(mid) = n + 1 /\ mid[n + 1] = row
  <2>1. PICK left : StateSet(now, n, "superseded", left)
    BY DEF StateSet
  <2> QED
    BY <1>2, <1>4, <1>5, <1>6, <1>7, <2>1, SucceedsRows, SMTT(30)
<1>9. PICK one : one = Item(scope, "proposed", item.sequence + 1, n + 1, 0, mid, {})
  OBVIOUS
<1>10. PICK two : two = Item(scope, "proposed", item.sequence + 2, n + 1, 0, mid, {})
  OBVIOUS
<1>11. PICK three : three = Item(scope, "active", item.sequence + 3, n + 1, n + 1, now, {n + 1})
  OBVIOUS
<1>12. one \in Items /\ two \in Items
  BY <1>7, <1>8, <1>9, <1>10 DEF Item, Items, Lifecycles
<1>13. /\ batch \in Seq(Operations) /\ Len(batch) = 4
       /\ batch[1].kind = "ProposalApproved" /\ batch[1].revision = n + 1 /\ batch[1].draft = draft
       /\ batch[1].other = n
       /\ batch[2].kind = "RevisionValidated" /\ batch[2].revision = n + 1
       /\ batch[3].kind = "RevisionActivated" /\ batch[3].revision = n + 1
       /\ batch[4].kind = "RevisionSuperseded" /\ batch[4].revision = n /\ batch[4].other = n + 1
  BY DEF SuccessionBatch
<1>14. Projected(item, batch, 1) = one
  <2>1. ApplyLive(item, batch[1]) =
            Item(item.scope, IF item.active = 0 THEN "proposed" ELSE "active", item.sequence + 1, batch[1].revision,
                 item.active,
                 WithState(Append(item.revisions, RevisionRow(batch[1].draft, TRUE, NoSession)), batch[1].other, "superseded"),
                 item.fts)
    BY <1>13, AppliesApproved
  <2>2. (IF item.active = 0 THEN "proposed" ELSE "active") = "proposed"
    BY <1>7
  <2>3. WithState(Append(item.revisions, RevisionRow(batch[1].draft, TRUE, NoSession)), batch[1].other, "superseded") = mid
    BY <1>1, <1>4, <1>5, <1>13, Zenon DEF Added, StateSet
  <2>4. ApplyLive(item, batch[1]) = one
    BY <1>3, <1>7, <1>9, <1>13, <2>1, <2>2, <2>3
  <2> QED
    BY <2>4, ProjectedIs
<1>15. Projected(item, batch, 2) = two
  <2>1. ApplyLive(one, batch[2]) =
            Item(one.scope, one.lifecycle, one.sequence + 1, one.latest, one.active, one.revisions, one.fts)
    BY <1>12, <1>13, AppliesValidated
  <2>2. /\ one.scope = scope /\ one.lifecycle = "proposed" /\ one.sequence = item.sequence + 1
        /\ one.latest = n + 1 /\ one.active = 0 /\ one.revisions = mid /\ one.fts = {}
    BY <1>9, ItemHas
  <2>3. one.sequence + 1 = item.sequence + 2
    BY <1>7, <2>2
  <2>4. ApplyLive(one, batch[2]) = two
    BY <1>10, <2>1, <2>2, <2>3, Zenon
  <2> QED
    BY <1>14, <2>4, ProjectedIs
<1>16. /\ two.scope = scope /\ two.lifecycle = "proposed" /\ two.sequence = item.sequence + 2
       /\ two.latest = n + 1 /\ two.active = 0 /\ two.revisions = mid /\ two.fts = {}
  BY <1>10, ItemHas
<1>17. Projected(item, batch, 3) = three
  <2>2. ApplyLive(two, batch[3]) =
            Item(two.scope, "active", two.sequence + 1, two.latest, batch[3].revision,
                 WithState(two.revisions, batch[3].revision, "active"), two.fts \cup {batch[3].revision})
    BY <1>12, <1>13, <1>16, AppliesFirstActivation
  <2>3. WithState(two.revisions, batch[3].revision, "active") = now
    BY <1>6, <1>13, <1>16, Zenon DEF StateSet
  <2>4. two.fts \cup {batch[3].revision} = {n + 1}
    BY <1>13, <1>16
  <2>5. two.sequence + 1 = item.sequence + 3
    BY <1>7, <1>16
  <2>6. ApplyLive(two, batch[3]) = three
    BY <1>11, <1>13, <1>16, <2>2, <2>3, <2>4, <2>5, Zenon
  <2> QED
    BY <1>15, <2>6, ProjectedIs
<1>18. PICK op : op = batch[4]
  OBVIOUS
<1>19. PICK after : after = ApplyLive(three, op)
  OBVIOUS
<1>20. op.kind = "RevisionSuperseded" /\ op.revision = n /\ op.other = n + 1
  BY <1>13, <1>18
<1>21. Succeeds(item, three, op, after)
  <2>1. item.scope = scope
    BY <1>3
  <2> QED
    BY <1>2, <1>4, <1>5, <1>6, <1>7, <1>11, <1>19, <1>20, <2>1, SucceedsTail
<1>22. Projected(item, batch, Len(batch)) = after
  BY <1>13, <1>17, <1>18, <1>19, ProjectedIs
<1>23. RequireRevisionState(item, batch[1])
  <2>1. n \in DOMAIN item.revisions /\ StateOf(item, n) = "proposed"
    BY <1>7 DEF LastState
  <2> QED
    BY <1>7, <1>13, <2>1 DEF RequireRevisionState
<1>24. n + 1 \in DOMAIN mid /\ mid[n + 1].state = "proposed"
  BY <1>2, <1>8
<1>25. RequireRevisionState(one, batch[2])
  <2>1. one.revisions = mid
    BY <1>9, ItemHas
  <2> QED
    BY <1>13, <1>24, <2>1 DEF RequireRevisionState, StateOf
<1>26. RequireRevisionState(two, batch[3])
  BY <1>13, <1>16, <1>24 DEF RequireRevisionState, StateOf
<1>27. StoreAccepts(item, batch)
  BY <1>13, <1>14, <1>15, <1>17, <1>18, <1>21, <1>23, <1>25, <1>26, AcceptsFour DEF Succeeds
<1>28. DeletesNothing(batch)
  <2> SUFFICES ASSUME NEW i \in DOMAIN batch PROVE batch[i].kind # "MemoryDeleted"
    BY DEF DeletesNothing
  <2>1. i \in {1, 2, 3, 4}
    BY <1>13
  <2> QED
    BY <1>13, <2>1
<1> QED
  BY <1>13, <1>21, <1>22, <1>27, <1>28 DEF Lawful, StaysQuiet, Succeeds

\* The batch the planner makes of a succession.
LEMMA PlansSuccession ==
  ASSUME NEW kind \in {"MemoryRevised", "ProposalApproved"}, NEW n \in Nat \ {0}, NEW other \in Nat,
         kind = "ProposalApproved" => other = n, NEW draft \in Drafts,
         NEW batch, batch = Batch(<<Operation(kind, n + 1, other, draft), Validated(n + 1),
                                    Activated(n + 1), Superseded(n, n + 1)>>)
  PROVE  SuccessionBatch(batch, n, kind, draft)
<1>0. n \in Nat /\ n + 1 \in Nat /\ 0 \in Nat
  OBVIOUS
<1>1. NoDraft \in Drafts
  BY DEF NoDraft, Drafts, Sources
<1>2. PICK first : first = Operation(kind, n + 1, other, draft)
  OBVIOUS
<1>3. /\ first \in Operations /\ first.kind = kind /\ first.revision = n + 1 /\ first.draft = draft
      /\ first.other = other
  <2>1. kind \in Kinds
    BY DEF Kinds
  <2> QED
    BY <1>0, <1>2, <2>1, OperationIs
<1>4. PICK second : second = Operation("RevisionValidated", n + 1, 0, NoDraft)
  OBVIOUS
<1>5. second \in Operations /\ second.kind = "RevisionValidated" /\ second.revision = n + 1
  <2>1. "RevisionValidated" \in Kinds
    BY DEF Kinds
  <2> QED
    BY <1>0, <1>1, <1>4, <2>1, OperationIs
<1>6. PICK third : third = Operation("RevisionActivated", n + 1, 0, NoDraft)
  OBVIOUS
<1>7. third \in Operations /\ third.kind = "RevisionActivated" /\ third.revision = n + 1
  <2>1. "RevisionActivated" \in Kinds
    BY DEF Kinds
  <2> QED
    BY <1>0, <1>1, <1>6, <2>1, OperationIs
<1>8. PICK fourth : fourth = Operation("RevisionSuperseded", n, n + 1, NoDraft)
  OBVIOUS
<1>9. fourth \in Operations /\ fourth.kind = "RevisionSuperseded" /\ fourth.revision = n /\ fourth.other = n + 1
  <2>1. "RevisionSuperseded" \in Kinds
    BY DEF Kinds
  <2> QED
    BY <1>0, <1>1, <1>8, <2>1, OperationIs
<1>10. PICK ops : ops = <<first, second, third, fourth>>
  OBVIOUS
<1>11. batch = Batch(ops)
  BY <1>2, <1>4, <1>6, <1>8, <1>10 DEF Validated, Activated, Superseded
<1>12. /\ ops \in Seq(Operations) /\ Len(ops) = 4
       /\ ops[1] = first /\ ops[2] = second /\ ops[3] = third /\ ops[4] = fourth
  BY <1>3, <1>5, <1>7, <1>9, <1>10
<1>13. batch \in Seq(Operations) /\ Len(batch) = 4
  BY <1>11, <1>12, BatchIs
<1>14. \A i \in 1..4 : /\ batch[i].kind = ops[i].kind /\ batch[i].revision = ops[i].revision
                       /\ batch[i].other = ops[i].other /\ batch[i].draft = ops[i].draft
  BY <1>11, <1>12, BatchIs
<1>15. /\ batch[1].kind = kind /\ batch[1].revision = n + 1 /\ batch[1].draft = draft /\ batch[1].other = other
       /\ batch[2].kind = "RevisionValidated" /\ batch[2].revision = n + 1
       /\ batch[3].kind = "RevisionActivated" /\ batch[3].revision = n + 1
       /\ batch[4].kind = "RevisionSuperseded" /\ batch[4].revision = n /\ batch[4].other = n + 1
  BY <1>3, <1>5, <1>7, <1>9, <1>12, <1>14
<1> QED
  BY <1>13, <1>15 DEF SuccessionBatch

-----------------------------------------------------------------------------
(* Single operations. *)

SingleBatch(batch, kind, r) ==
    batch \in Seq(Operations) /\ Len(batch) = 1 /\ batch[1].kind = kind /\ batch[1].revision = r

\* The batch the planner makes of a rejection, a retraction or a deletion.
LEMMA PlansSingle ==
  ASSUME NEW kind \in Kinds, NEW r \in Nat, NEW batch, batch = PlanSingle(kind, r)
  PROVE  SingleBatch(batch, kind, r)
<1>1. NoDraft \in Drafts /\ 0 \in Nat
  BY DEF NoDraft, Drafts, Sources
<1>2. PICK op : op = Operation(kind, r, 0, NoDraft)
  OBVIOUS
<1>3. op \in Operations /\ op.kind = kind /\ op.revision = r
  BY <1>1, <1>2, OperationIs
<1>4. PICK ops : ops = <<op>>
  OBVIOUS
<1>5. ops \in Seq(Operations) /\ Len(ops) = 1 /\ ops[1] = op
  BY <1>3, <1>4
<1>6. batch = Batch(ops)
  BY <1>2, <1>4 DEF PlanSingle
<1>7. batch \in Seq(Operations) /\ Len(batch) = 1
  BY <1>5, <1>6, BatchIs
<1>8. batch[1].kind = op.kind /\ batch[1].revision = op.revision
  BY <1>5, <1>6, BatchIs
<1> QED
  BY <1>3, <1>7, <1>8 DEF SingleBatch

\* A single operation is accepted if it is allowed where the item stands.
LEMMA AcceptsOne ==
  ASSUME NEW item, NEW batch, NEW kind, NEW r, SingleBatch(batch, kind, r), RequireRevisionState(item, batch[1])
  PROVE  StoreAccepts(item, batch) /\ Projected(item, batch, Len(batch)) = ApplyLive(item, batch[1])
<1>1. batch \in Seq(Operations) /\ Len(batch) = 1
  BY DEF SingleBatch
<1>2. DOMAIN batch = {1} /\ 1 - 1 = 0
  BY <1>1
<1>3. Projected(item, batch, 0) = item
  BY ProjectedIs
<1> QED
  BY <1>1, <1>2, <1>3, ProjectedIs DEF StoreAccepts

\* An item whose last revision is out of use.
LEMMA InactiveSound ==
  ASSUME NEW scope \in {Workspace, Session, NoSession}, NEW lifecycle \in Lifecycles, NEW sequence \in Nat \ {0},
         NEW revisions \in Seq(Rows), NEW n \in Nat \ {0}, Len(revisions) = n,
         revisions[n].state \in {"rejected", "retracted", "deleted"},
         \A r \in 1 .. n - 1 : revisions[r].state \in {"superseded", "deleted"},
         NEW item, item = Item(scope, lifecycle, sequence, n, 0, revisions, {})
  PROVE  item \in Items /\ SoundItem(item)
<1>1. /\ item \in Items /\ item.revisions = revisions /\ item.latest = n /\ item.active = 0 /\ item.fts = {}
      /\ item.sequence = sequence
  BY DEF Item, Items
<1> QED
  BY <1>1 DEF SoundItem, LastState, StateOf

Continues(item, after) ==
    /\ after \in Items /\ SoundItem(after) /\ Extends(item, after)
    /\ QuotesNothing(item) => QuotesNothing(after)

\* A proposal is rejected or an active revision retracted: its row stays.
LEMMA ClosesRevision ==
  ASSUME NEW item \in Items, SoundItem(item), item.sequence > 0, NEW n \in Nat \ {0}, n = Len(item.revisions),
         NEW lifecycle \in Lifecycles, NEW state \in {"rejected", "retracted"},
         NEW left, StateSet(item.revisions, n, state, left),
         NEW after, after = Item(item.scope, lifecycle, item.sequence + 1, n, 0, left, {})
  PROVE  Continues(item, after)
<1>1. /\ item.revisions \in Seq(Rows) /\ item.sequence \in Nat /\ item.scope \in {Workspace, Session, NoSession}
      /\ n \in 1..Len(item.revisions) /\ state \in RevisionStates
  BY DEF Items, RevisionStates
<1>2. /\ left \in Seq(Rows) /\ Len(left) = n /\ left[n].state = state
      /\ \A i \in 1..n \ {n} : left[i] = item.revisions[i]
      /\ left[n].content = item.revisions[n].content /\ left[n].excerpt = item.revisions[n].excerpt
      /\ left[n].source = item.revisions[n].source
  BY <1>1, StateSetIs
<1>3. \A r \in 1 .. n - 1 : left[r].state \in {"superseded", "deleted"}
  <2> SUFFICES ASSUME NEW r \in 1 .. n - 1 PROVE left[r].state \in {"superseded", "deleted"}
    OBVIOUS
  <2>1. left[r] = item.revisions[r]
    BY <1>2
  <2> QED
    BY <2>1 DEF SoundItem, StateOf
<1>4. after \in Items /\ SoundItem(after)
  <2>1. item.sequence + 1 \in Nat \ {0} /\ left[n].state \in {"rejected", "retracted", "deleted"}
    BY <1>1, <1>2
  <2> QED
    BY <1>1, <1>2, <1>3, <2>1, InactiveSound
<1>5. after.revisions = left /\ after.sequence = item.sequence + 1 /\ after.scope = item.scope
  BY ItemHas
<1>6. \A r \in 1..n : /\ left[r].content = item.revisions[r].content /\ left[r].excerpt = item.revisions[r].excerpt
                      /\ left[r].source = item.revisions[r].source
  BY <1>2
<1>7. Extends(item, after)
  <2>1. after.sequence > item.sequence /\ Len(after.revisions) >= Len(item.revisions)
    BY <1>1, <1>2, <1>5
  <2> QED
    BY <1>5, <1>6, <2>1 DEF Extends
<1>8. QuotesNothing(item) => QuotesNothing(after)
  <2>1. DOMAIN left = 1..n /\ DOMAIN item.revisions = 1..n
    BY <1>1, <1>2
  <2> QED
    BY <1>5, <1>6, <2>1 DEF QuotesNothing
<1> QED
  BY <1>4, <1>7, <1>8 DEF Continues

\* Rejecting the last revision.
LEMMA RejectsProposal ==
  ASSUME NEW item \in Items, SoundItem(item), item.sequence > 0, NEW n \in Nat \ {0}, n = Len(item.revisions),
         LastState(item) = "proposed", NEW batch, SingleBatch(batch, "RevisionRejected", n)
  PROVE  Lawful(item, batch) /\ StaysQuiet(item, batch) /\ StoreAccepts(item, batch)
<1>1. /\ batch \in Seq(Operations) /\ Len(batch) = 1 /\ batch[1].kind = "RevisionRejected" /\ batch[1].revision = n
  BY DEF SingleBatch
<1>2. item.active = 0 /\ item.fts = {} /\ item.latest = n
  BY ProposedItem
<1>3. RequireRevisionState(item, batch[1])
  <2>1. n \in DOMAIN item.revisions /\ StateOf(item, n) = "proposed"
    BY DEF Items, LastState
  <2> QED
    BY <1>1, <2>1 DEF RequireRevisionState
<1>4. StoreAccepts(item, batch) /\ Projected(item, batch, Len(batch)) = ApplyLive(item, batch[1])
  BY <1>3, AcceptsOne
<1>5. PICK after : after = ApplyLive(item, batch[1])
  OBVIOUS
<1>6. PICK left : StateSet(item.revisions, n, "rejected", left)
  BY DEF StateSet
<1>7. after = Item(item.scope, "rejected", item.sequence + 1, n, 0, left, {})
  <2>1. after = Item(item.scope, IF item.active = 0 THEN "rejected" ELSE "active", item.sequence + 1, item.latest,
                     item.active, WithState(item.revisions, batch[1].revision, "rejected"), item.fts)
    BY <1>1, <1>5, AppliesRejected
  <2>2. (IF item.active = 0 THEN "rejected" ELSE "active") = "rejected"
    BY <1>2
  <2>3. WithState(item.revisions, batch[1].revision, "rejected") = left
    BY <1>1, <1>6, Zenon DEF StateSet
  <2> QED
    BY <1>2, <2>1, <2>2, <2>3
<1>8. "rejected" \in Lifecycles /\ "rejected" \in {"rejected", "retracted"}
  BY DEF Lifecycles
<1>9. Continues(item, after)
  BY <1>6, <1>7, <1>8, ClosesRevision
<1>10. DeletesNothing(batch)
  BY <1>1 DEF DeletesNothing
<1> QED
  BY <1>1, <1>4, <1>5, <1>9, <1>10 DEF Lawful, StaysQuiet, Continues

\* Retracting the last revision.
LEMMA RetractsRevision ==
  ASSUME NEW item \in Items, SoundItem(item), item.sequence > 0, NEW n \in Nat \ {0}, n = Len(item.revisions),
         LastState(item) = "active", NEW batch, SingleBatch(batch, "MemoryRetracted", n)
  PROVE  Lawful(item, batch) /\ StaysQuiet(item, batch) /\ StoreAccepts(item, batch)
<1>1. /\ batch \in Seq(Operations) /\ Len(batch) = 1 /\ batch[1].kind = "MemoryRetracted" /\ batch[1].revision = n
  BY DEF SingleBatch
<1>2. item.active = n /\ item.fts = {n} /\ item.latest = n
  BY ActiveItem
<1>3. RequireRevisionState(item, batch[1])
  <2>1. n \in DOMAIN item.revisions /\ StateOf(item, n) = "active"
    BY DEF Items, LastState
  <2> QED
    BY <1>1, <2>1 DEF RequireRevisionState
<1>4. StoreAccepts(item, batch) /\ Projected(item, batch, Len(batch)) = ApplyLive(item, batch[1])
  BY <1>3, AcceptsOne
<1>5. PICK after : after = ApplyLive(item, batch[1])
  OBVIOUS
<1>6. PICK left : StateSet(item.revisions, n, "retracted", left)
  BY DEF StateSet
<1>7. after = Item(item.scope, "retracted", item.sequence + 1, n, 0, left, {})
  <2>1. after = Item(item.scope, "retracted", item.sequence + 1, item.latest, 0,
                     WithState(item.revisions, batch[1].revision, "retracted"), item.fts \ {batch[1].revision})
    BY <1>1, <1>5, AppliesRetracted
  <2>2. item.fts \ {batch[1].revision} = {}
    BY <1>1, <1>2
  <2>3. WithState(item.revisions, batch[1].revision, "retracted") = left
    BY <1>1, <1>6, Zenon DEF StateSet
  <2> QED
    BY <1>2, <2>1, <2>2, <2>3
<1>8. "retracted" \in Lifecycles /\ "retracted" \in {"rejected", "retracted"}
  BY DEF Lifecycles
<1>9. Continues(item, after)
  BY <1>6, <1>7, <1>8, ClosesRevision
<1>10. DeletesNothing(batch)
  BY <1>1 DEF DeletesNothing
<1> QED
  BY <1>1, <1>4, <1>5, <1>9, <1>10 DEF Lawful, StaysQuiet, Continues

\* Emptied rows keep everything but their bytes.
LEMMA EmptiedIs ==
  ASSUME NEW revisions \in Seq(Rows)
  PROVE  /\ Emptied(revisions) \in Seq(Rows) /\ Len(Emptied(revisions)) = Len(revisions)
         /\ \A i \in 1..Len(revisions) :
               /\ ~Emptied(revisions)[i].content /\ ~Emptied(revisions)[i].excerpt
               /\ Emptied(revisions)[i].state = revisions[i].state
<1>1. \A i \in 1..Len(revisions) : revisions[i] \in Rows
  OBVIOUS
<1>2. \A i \in 1..Len(revisions) :
         LET row == WithoutContent(revisions[i])
         IN  row \in Rows /\ ~row.content /\ ~row.excerpt /\ row.state = revisions[i].state
  BY <1>1 DEF WithoutContent, Rows
<1>3. Emptied(revisions) \in [1..Len(revisions) -> Rows]
  BY <1>2 DEF Emptied
<1>4. Emptied(revisions) \in Seq(Rows) /\ Len(Emptied(revisions)) = Len(revisions)
  BY <1>3
<1> QED
  BY <1>2, <1>4 DEF Emptied

\* What is left of an item whose rows are emptied.
LEMMA EmptySound ==
  ASSUME NEW scope \in {Workspace, Session, NoSession}, NEW sequence \in Nat \ {0},
         NEW left \in Seq(Rows), NEW n \in Nat \ {0}, Len(left) = n, left[n].state = "deleted",
         \A r \in 1 .. n - 1 : left[r].state \in {"superseded", "deleted"},
         \A r \in 1..n : ~left[r].content /\ ~left[r].excerpt,
         NEW item, item = Item(scope, "deleted", sequence, n, 0, left, {})
  PROVE  item \in Items /\ SoundItem(item) /\ ErasedItem(item) /\ QuotesNothing(item) /\ item.sequence > 0
<1>0. "deleted" \in Lifecycles /\ left[n].state \in {"rejected", "retracted", "deleted"}
  BY DEF Lifecycles
<1>1. item \in Items /\ SoundItem(item)
  BY <1>0, InactiveSound
<1>2. item.revisions = left /\ item.sequence = sequence /\ item.fts = {} /\ item.scope = scope
  BY ItemHas
<1>3. DOMAIN left = 1..n
  OBVIOUS
<1>4. ErasedItem(item)
  BY <1>2, <1>3 DEF ErasedItem, LastState, StateOf
<1>5. QuotesNothing(item)
  BY <1>2, <1>3 DEF QuotesNothing
<1> QED
  BY <1>1, <1>2, <1>4, <1>5

\* Deleting a memory through its last revision: nothing of it is left.
LEMMA DeletesMemory ==
  ASSUME NEW item \in Items, SoundItem(item), item.sequence > 0, NEW n \in Nat \ {0}, n = Len(item.revisions),
         LastState(item) \in Deletable, NEW batch, SingleBatch(batch, "MemoryDeleted", n)
  PROVE  LET after == Projected(item, batch, Len(batch))
         IN  /\ batch \in Seq(Operations) /\ StoreAccepts(item, batch) /\ ~DeletesNothing(batch)
             /\ after \in Items /\ SoundItem(after) /\ ErasedItem(after) /\ QuotesNothing(after) /\ after.sequence > 0
<1>1. /\ batch \in Seq(Operations) /\ Len(batch) = 1 /\ batch[1].kind = "MemoryDeleted" /\ batch[1].revision = n
  BY DEF SingleBatch
<1>2. /\ item.revisions \in Seq(Rows) /\ item.sequence \in Nat /\ item.scope \in {Workspace, Session, NoSession}
      /\ n \in 1..Len(item.revisions) /\ "deleted" \in RevisionStates /\ n \in DOMAIN item.revisions /\ item.latest = n
  BY DEF Items, RevisionStates, SoundItem
<1>3. RequireRevisionState(item, batch[1])
  <2>1. StateOf(item, n) \in {"proposed", "active", "rejected", "retracted"}
    BY DEF LastState, Deletable
  <2> QED
    BY <1>1, <1>2, <2>1 DEF RequireRevisionState
<1>4. StoreAccepts(item, batch) /\ Projected(item, batch, Len(batch)) = ApplyLive(item, batch[1])
  BY <1>3, AcceptsOne
<1>5. PICK after : after = ApplyLive(item, batch[1])
  OBVIOUS
<1>6. PICK set : StateSet(item.revisions, n, "deleted", set)
  BY DEF StateSet
<1>7. PICK left : left = Emptied(set)
  OBVIOUS
<1>8. after = Item(item.scope, "deleted", item.sequence + 1, n, 0, left, {})
  <2>1. after = Item(item.scope, "deleted", item.sequence + 1, item.latest, 0,
                     Emptied(WithState(item.revisions, batch[1].revision, "deleted")), {})
    BY <1>1, <1>2, <1>5, AppliesDeleted
  <2>2. Emptied(WithState(item.revisions, batch[1].revision, "deleted")) = left
    BY <1>1, <1>6, <1>7, Zenon DEF StateSet
  <2> QED
    BY <1>2, <2>1, <2>2
<1>9. /\ set \in Seq(Rows) /\ Len(set) = n /\ set[n].state = "deleted"
      /\ \A i \in 1..n \ {n} : set[i] = item.revisions[i]
  BY <1>2, <1>6, StateSetIs
<1>10. /\ left \in Seq(Rows) /\ Len(left) = n
       /\ \A i \in 1..n : ~left[i].content /\ ~left[i].excerpt /\ left[i].state = set[i].state
  BY <1>7, <1>9, EmptiedIs
<1>11. \A r \in 1 .. n - 1 : left[r].state \in {"superseded", "deleted"}
  <2> SUFFICES ASSUME NEW r \in 1 .. n - 1 PROVE left[r].state \in {"superseded", "deleted"}
    OBVIOUS
  <2>1. left[r].state = item.revisions[r].state
    BY <1>9, <1>10
  <2> QED
    BY <2>1 DEF SoundItem, StateOf
<1>12. left[n].state = "deleted" /\ item.sequence + 1 \in Nat \ {0}
  BY <1>2, <1>9, <1>10
<1>13. after \in Items /\ SoundItem(after) /\ ErasedItem(after) /\ QuotesNothing(after) /\ after.sequence > 0
  BY <1>2, <1>8, <1>10, <1>11, <1>12, EmptySound
<1>14. ~DeletesNothing(batch)
  BY <1>1 DEF DeletesNothing
<1> QED
  BY <1>1, <1>4, <1>5, <1>13, <1>14

-----------------------------------------------------------------------------
(* The planner's commands. *)

\* What the ledger and the turns need of a command.
Effective(m, batch) ==
    LET after == Projected(items[m], batch, Len(batch))
    IN  /\ batch \in Seq(Operations) /\ after \in Items /\ SoundItem(after) /\ after.sequence > 0
        /\ m \notin DeletedMemories
        /\ IF DeletesNothing(batch) THEN Extends(items[m], after) ELSE ErasedItem(after)
        /\ session = "deleted" => QuotesNothing(after)

\* Only the last revision is still open to a command.
LEMMA OpenIsLast ==
  ASSUME NEW item \in Items, SoundItem(item), item.sequence > 0, NEW r \in DOMAIN item.revisions,
         StateOf(item, r) \notin {"superseded", "deleted"}
  PROVE  r = Len(item.revisions) /\ Len(item.revisions) \in Nat \ {0} /\ LastState(item) = StateOf(item, r)
<1>1. r \in 1..Len(item.revisions) /\ Len(item.revisions) \in Nat
  BY DEF Items
<1>2. r \notin 1 .. Len(item.revisions) - 1
  BY DEF SoundItem
<1>3. r = Len(item.revisions)
  BY <1>1, <1>2
<1> QED
  BY <1>1, <1>3 DEF LastState

\* Which is not the case of a deleted memory.
LEMMA OpenIsNotDeleted ==
  ASSUME LedgerFacts, NEW m \in Memories, LastState(items[m]) # "deleted"
  PROVE  m \notin DeletedMemories
  BY DEF LedgerFacts, ErasedItem

\* A lawful batch on a memory with an open last revision.
LEMMA LawfulIsEffective ==
  ASSUME TypeOK, LedgerFacts, NEW m \in Memories, LastState(items[m]) # "deleted",
         NEW batch, Lawful(items[m], batch), StaysQuiet(items[m], batch)
  PROVE  Effective(m, batch)
<1>1. m \notin DeletedMemories
  BY OpenIsNotDeleted
<1>2. PICK after : after = Projected(items[m], batch, Len(batch))
  OBVIOUS
<1>3. /\ batch \in Seq(Operations) /\ DeletesNothing(batch)
      /\ after \in Items /\ SoundItem(after) /\ Extends(items[m], after)
  BY <1>2 DEF Lawful
<1>4. after.sequence > 0
  <2>1. items[m] \in Items /\ items[m].sequence \in Nat
    BY DEF TypeOK, MemoryTypeOK, Items
  <2>2. after.sequence > items[m].sequence /\ after.sequence \in Nat
    BY <1>3 DEF Extends, Items
  <2> QED
    BY <2>1, <2>2
<1>5. session = "deleted" => QuotesNothing(after)
  BY <1>2 DEF LedgerFacts, StaysQuiet
<1> QED
  BY <1>1, <1>2, <1>3, <1>4, <1>5 DEF Effective

\* The revise command is accepted and effective.
LEMMA ReviseIsEffective ==
  ASSUME TypeOK, LedgerFacts, NEW m \in Memories, NEW r \in DOMAIN items[m].revisions, RevisePlanned(m, r, "accepted"),
         NEW batch, batch = PlanRevise(m, r)
  PROVE  StoreAccepts(items[m], batch) /\ Effective(m, batch)
<1>1. PICK item : item = items[m]
  OBVIOUS
<1>2. item \in Items /\ SoundItem(item) /\ item.sequence > 0 /\ StateOf(item, r) = "active" /\ r \in DOMAIN item.revisions
  BY <1>1 DEF TypeOK, MemoryTypeOK, LedgerFacts, RevisePlanned, Exists
<1>3. PICK n : n = Len(item.revisions)
  OBVIOUS
<1>4. r = n /\ n \in Nat \ {0} /\ LastState(item) = "active"
  BY <1>2, <1>3, OpenIsLast
<1>5. PICK draft : draft = UserDraft(n)
  OBVIOUS
<1>6. draft \in Drafts /\ draft.origin = "user" /\ ~draft.excerpt
  BY <1>4, <1>5 DEF UserDraft, NoDraft, Drafts, Sources, Origins
<1>7. batch = Batch(<<Operation("MemoryRevised", n + 1, 0, draft), Validated(n + 1), Activated(n + 1), Superseded(n, n + 1)>>)
  BY <1>1, <1>3, <1>4, <1>5 DEF PlanRevise, NextRevision
<1>8. SuccessionBatch(batch, n, "MemoryRevised", draft)
  <2>1. "MemoryRevised" \in {"MemoryRevised", "ProposalApproved"} /\ 0 \in Nat /\ "MemoryRevised" # "ProposalApproved"
    OBVIOUS
  <2> QED
    BY <1>4, <1>6, <1>7, <2>1, PlansSuccession
<1>9. Lawful(item, batch) /\ StaysQuiet(item, batch) /\ StoreAccepts(item, batch)
  BY <1>2, <1>3, <1>4, <1>6, <1>8, SucceedsRevised
<1>10. LastState(item) # "deleted"
  BY <1>4
<1> QED
  BY <1>1, <1>9, <1>10, LawfulIsEffective

\* The approve command is accepted and effective.
LEMMA ApproveIsEffective ==
  ASSUME TypeOK, LedgerFacts, NEW m \in Memories, NEW r \in DOMAIN items[m].revisions, ApprovePlanned(m, r, "accepted"),
         NEW batch, batch = PlanApprove(m, r)
  PROVE  StoreAccepts(items[m], batch) /\ Effective(m, batch)
<1>1. PICK item : item = items[m]
  OBVIOUS
<1>2. item \in Items /\ SoundItem(item) /\ item.sequence > 0 /\ StateOf(item, r) = "proposed" /\ r \in DOMAIN item.revisions
  BY <1>1 DEF TypeOK, MemoryTypeOK, LedgerFacts, ApprovePlanned, Exists
<1>3. PICK n : n = Len(item.revisions)
  OBVIOUS
<1>4. r = n /\ n \in Nat \ {0} /\ LastState(item) = "proposed"
  BY <1>2, <1>3, OpenIsLast
<1>5. PICK draft : draft = UserDraft(n)
  OBVIOUS
<1>6. draft \in Drafts /\ draft.origin = "user" /\ ~draft.excerpt
  BY <1>4, <1>5 DEF UserDraft, NoDraft, Drafts, Sources, Origins
<1>0. SupersededBy(m, r) = n
  BY <1>1, <1>2, <1>3, <1>4 DEF SupersededBy, SoundItem
<1>7. batch = Batch(<<Operation("ProposalApproved", n + 1, n, draft), Validated(n + 1), Activated(n + 1), Superseded(n, n + 1)>>)
  BY <1>0, <1>1, <1>3, <1>4, <1>5 DEF PlanApprove, NextRevision
<1>8. SuccessionBatch(batch, n, "ProposalApproved", draft)
  <2>1. "ProposalApproved" \in {"MemoryRevised", "ProposalApproved"} /\ n \in Nat
    BY <1>4
  <2> QED
    BY <1>4, <1>6, <1>7, <2>1, PlansSuccession
<1>9. Lawful(item, batch) /\ StaysQuiet(item, batch) /\ StoreAccepts(item, batch)
  BY <1>2, <1>3, <1>4, <1>6, <1>8, SucceedsApproved
<1>10. LastState(item) # "deleted"
  BY <1>4
<1> QED
  BY <1>1, <1>9, <1>10, LawfulIsEffective

\* The reject command is accepted and effective.
LEMMA RejectIsEffective ==
  ASSUME TypeOK, LedgerFacts, NEW m \in Memories, NEW r \in DOMAIN items[m].revisions, SinglePlanned(m, r, {"proposed"}),
         NEW batch, batch = PlanSingle("RevisionRejected", r)
  PROVE  StoreAccepts(items[m], batch) /\ Effective(m, batch)
<1>1. PICK item : item = items[m]
  OBVIOUS
<1>2. item \in Items /\ SoundItem(item) /\ item.sequence > 0 /\ StateOf(item, r) = "proposed" /\ r \in DOMAIN item.revisions
  BY <1>1 DEF TypeOK, MemoryTypeOK, LedgerFacts, SinglePlanned, Exists
<1>3. PICK n : n = Len(item.revisions)
  OBVIOUS
<1>4. r = n /\ n \in Nat \ {0} /\ LastState(item) = "proposed"
  BY <1>2, <1>3, OpenIsLast
<1>5. "RevisionRejected" \in Kinds /\ r \in Nat
  BY <1>4 DEF Kinds
<1>6. SingleBatch(batch, "RevisionRejected", n)
  BY <1>4, <1>5, PlansSingle
<1>7. Lawful(item, batch) /\ StaysQuiet(item, batch) /\ StoreAccepts(item, batch)
  BY <1>2, <1>3, <1>4, <1>6, RejectsProposal
<1>8. LastState(item) # "deleted"
  BY <1>4
<1> QED
  BY <1>1, <1>7, <1>8, LawfulIsEffective

\* The retract command is accepted and effective.
LEMMA RetractIsEffective ==
  ASSUME TypeOK, LedgerFacts, NEW m \in Memories, NEW r \in DOMAIN items[m].revisions, SinglePlanned(m, r, {"active"}),
         NEW batch, batch = PlanSingle("MemoryRetracted", r)
  PROVE  StoreAccepts(items[m], batch) /\ Effective(m, batch)
<1>1. PICK item : item = items[m]
  OBVIOUS
<1>2. item \in Items /\ SoundItem(item) /\ item.sequence > 0 /\ StateOf(item, r) = "active" /\ r \in DOMAIN item.revisions
  BY <1>1 DEF TypeOK, MemoryTypeOK, LedgerFacts, SinglePlanned, Exists
<1>3. PICK n : n = Len(item.revisions)
  OBVIOUS
<1>4. r = n /\ n \in Nat \ {0} /\ LastState(item) = "active"
  BY <1>2, <1>3, OpenIsLast
<1>5. "MemoryRetracted" \in Kinds /\ r \in Nat
  BY <1>4 DEF Kinds
<1>6. SingleBatch(batch, "MemoryRetracted", n)
  BY <1>4, <1>5, PlansSingle
<1>7. Lawful(item, batch) /\ StaysQuiet(item, batch) /\ StoreAccepts(item, batch)
  BY <1>2, <1>3, <1>4, <1>6, RetractsRevision
<1>8. LastState(item) # "deleted"
  BY <1>4
<1> QED
  BY <1>1, <1>7, <1>8, LawfulIsEffective

\* The delete command is accepted and effective.
LEMMA DeleteIsEffective ==
  ASSUME TypeOK, LedgerFacts, NEW m \in Memories, NEW r \in DOMAIN items[m].revisions, SinglePlanned(m, r, Deletable),
         NEW batch, batch = PlanSingle("MemoryDeleted", r)
  PROVE  StoreAccepts(items[m], batch) /\ Effective(m, batch)
<1>1. PICK item : item = items[m]
  OBVIOUS
<1>2. item \in Items /\ SoundItem(item) /\ item.sequence > 0 /\ StateOf(item, r) \in Deletable /\ r \in DOMAIN item.revisions
  BY <1>1 DEF TypeOK, MemoryTypeOK, LedgerFacts, SinglePlanned, Exists
<1>3. PICK n : n = Len(item.revisions)
  OBVIOUS
<1>4. r = n /\ n \in Nat \ {0} /\ LastState(item) \in Deletable
  <2>1. StateOf(item, r) \notin {"superseded", "deleted"}
    BY <1>2 DEF Deletable
  <2> QED
    BY <1>2, <1>3, <2>1, OpenIsLast
<1>5. "MemoryDeleted" \in Kinds /\ r \in Nat
  BY <1>4 DEF Kinds
<1>6. SingleBatch(batch, "MemoryDeleted", n)
  BY <1>4, <1>5, PlansSingle
<1>7. PICK after : after = Projected(item, batch, Len(batch))
  OBVIOUS
<1>8. /\ batch \in Seq(Operations) /\ StoreAccepts(item, batch) /\ ~DeletesNothing(batch)
      /\ after \in Items /\ SoundItem(after) /\ ErasedItem(after) /\ QuotesNothing(after) /\ after.sequence > 0
  BY <1>2, <1>3, <1>4, <1>6, <1>7, DeletesMemory
<1>9. m \notin DeletedMemories
  <2>1. LastState(items[m]) # "deleted"
    BY <1>1, <1>4 DEF Deletable
  <2> QED
    BY <2>1, OpenIsNotDeleted
<1> QED
  BY <1>1, <1>7, <1>8, <1>9 DEF Effective

\* The planner and the store agree.
LEMMA PlansAccepted ==
  ASSUME TypeOK, LedgerFacts
  PROVE  PlansAreAccepted
<1> SUFFICES ASSUME NEW m \in Memories, NEW r \in DOMAIN items[m].revisions
             PROVE  /\ RevisePlanned(m, r, "accepted") => StoreAccepts(items[m], PlanRevise(m, r))
                    /\ ApprovePlanned(m, r, "accepted") => StoreAccepts(items[m], PlanApprove(m, r))
                    /\ SinglePlanned(m, r, {"proposed"}) => StoreAccepts(items[m], PlanSingle("RevisionRejected", r))
                    /\ SinglePlanned(m, r, {"active"}) => StoreAccepts(items[m], PlanSingle("MemoryRetracted", r))
                    /\ SinglePlanned(m, r, Deletable) => StoreAccepts(items[m], PlanSingle("MemoryDeleted", r))
  BY DEF PlansAreAccepted
<1> QED
  BY ReviseIsEffective, ApproveIsEffective, RejectIsEffective, RetractIsEffective, DeleteIsEffective

\* A new memory: a proposal, or what the user writes.
LEMMA FreshIsEffective ==
  ASSUME TypeOK, LedgerFacts, NEW m \in Memories, ~Exists(m),
         NEW batch, batch \in Seq(Operations), DeletesNothing(batch),
         NEW after, after = Projected(Absent, batch, Len(batch)),
         after \in Items, SoundItem(after), after.sequence > 0, DOMAIN after.revisions = {1},
         session = "deleted" => ~after.revisions[1].excerpt
  PROVE  Effective(m, batch) /\ items[m] = Absent
<1>1. items[m] \in Items /\ SoundItem(items[m])
  BY DEF TypeOK, MemoryTypeOK, LedgerFacts
<1>2. items[m].sequence = 0
  BY <1>1 DEF Exists, Items
<1>3. items[m] = Absent
  BY <1>1, <1>2 DEF SoundItem
<1>4. m \notin DeletedMemories
  BY <1>2 DEF LedgerFacts, ErasedItem
<1>5. Extends(items[m], after)
  <2>1. items[m].revisions = <<>>
    BY <1>3 DEF Absent
  <2>2. Len(items[m].revisions) = 0 /\ \A r \in 1..Len(items[m].revisions) : FALSE
    BY <2>1
  <2>3. Len(after.revisions) >= 0
    BY DEF Items
  <2> QED
    BY <1>2, <2>2, <2>3 DEF Extends
<1>6. session = "deleted" => QuotesNothing(after)
  BY DEF QuotesNothing
<1>7. Projected(items[m], batch, Len(batch)) = after
  BY <1>3
<1> QED
  BY <1>3, <1>4, <1>5, <1>6, <1>7 DEF Effective

\* The create command for a proposal.
LEMMA CreateIsEffective ==
  ASSUME TypeOK, LedgerFacts, NEW m \in Memories, ~Exists(m), NEW scope \in Scopes,
         NEW draft \in Drafts, draft.origin # "none", draft.supersedes = 0, session = "deleted" => ~draft.excerpt,
         NEW verdict, ~IsExplicitAccepted(draft, verdict),
         NEW batch, batch = PlanCreate(m, scope, draft, verdict)
  PROVE  /\ Effective(m, batch) /\ items[m] = Absent
         /\ Len(batch) = 2 /\ batch[1].kind = "MemoryCreated" /\ batch[1].draft = draft
         /\ batch[2].kind = "RevisionValidated"
         /\ Projected(items[m], batch, Len(batch)).revisions[1].content
         /\ DOMAIN Projected(items[m], batch, Len(batch)).revisions = {1}
<1>1. PICK after : after = Projected(Absent, batch, Len(batch))
  OBVIOUS
<1>2. /\ batch \in Seq(Operations) /\ DeletesNothing(batch)
      /\ after \in Items /\ SoundItem(after) /\ after.sequence > 0
      /\ DOMAIN after.revisions = {1} /\ after.revisions[1].content
      /\ after.revisions[1].excerpt => draft.excerpt
      /\ Len(batch) = 2 /\ batch[1].kind = "MemoryCreated" /\ batch[1].draft = draft
      /\ batch[2].kind = "RevisionValidated"
  BY <1>1, CreatesProposal
<1>3. Effective(m, batch) /\ items[m] = Absent
  BY <1>1, <1>2, FreshIsEffective
<1> QED
  BY <1>1, <1>2, <1>3

\* The create command of the user, accepted or left for review.
LEMMA RememberIsEffective ==
  ASSUME TypeOK, LedgerFacts, NEW m \in Memories, ~Exists(m), NEW verdict,
         NEW batch, batch = PlanCreate(m, Workspace, UserDraft(0), verdict)
  PROVE  Effective(m, batch)
<1>1. CASE IsExplicitAccepted(UserDraft(0), verdict)
  <2>1. PICK after : after = Projected(Absent, batch, Len(batch))
    OBVIOUS
  <2>2. /\ batch \in Seq(Operations) /\ DeletesNothing(batch)
        /\ after \in Items /\ SoundItem(after) /\ after.sequence > 0
        /\ DOMAIN after.revisions = {1} /\ ~after.revisions[1].excerpt
    BY <1>1, <2>1, CreatesActive
  <2> QED
    BY <2>1, <2>2, FreshIsEffective
<1>2. CASE ~IsExplicitAccepted(UserDraft(0), verdict)
  <2>1. PICK draft : draft = UserDraft(0)
    OBVIOUS
  <2>2. draft \in Drafts /\ draft.origin # "none" /\ draft.supersedes = 0 /\ ~draft.excerpt
    BY <2>1 DEF UserDraft, NoDraft, Drafts, Sources, Origins
  <2>3. Workspace \in Scopes /\ batch = PlanCreate(m, Workspace, draft, verdict) /\ ~IsExplicitAccepted(draft, verdict)
    BY <1>2, <2>1 DEF Scopes
  <2> QED
    BY <2>2, <2>3, CreateIsEffective
<1> QED
  BY <1>1, <1>2

-----------------------------------------------------------------------------
(* Turns after a deletion. *)

\* A function on 1..n is a sequence.
LEMMA FunctionIsSeq ==
  ASSUME NEW S, NEW n \in Nat, NEW f \in [1..n -> S]
  PROVE  f \in Seq(S)
  OBVIOUS

RenderingsGone(m, left) ==
    /\ left \in Seq(Turns) /\ DOMAIN left = DOMAIN turns
    /\ \A i \in DOMAIN turns :
          /\ left[i].attempt = turns[i].attempt /\ left[i].turn = turns[i].turn
          /\ left[i].epoch = turns[i].epoch /\ left[i].admitted = turns[i].admitted
          /\ left[i].kept \subseteq turns[i].kept /\ \A a \in left[i].kept : a.memory # m
          /\ left[i].prelude \in {turns[i].prelude, "erased"}
          /\ \A a \in turns[i].admitted : a.memory = m => left[i].prelude = "erased"

\* EraseRenderings of one memory.
LEMMA RenderingsErased ==
  ASSUME NEW m, turns \in Seq(Turns), \A i \in DOMAIN turns : turns[i].kept \subseteq turns[i].admitted,
         NEW left, left = EraseRenderings({m})
  PROVE  RenderingsGone(m, left)
<1>1. DOMAIN left = DOMAIN turns
  BY DEF EraseRenderings
<1>2. ASSUME NEW i \in DOMAIN turns
      PROVE  /\ left[i] \in Turns
             /\ left[i].attempt = turns[i].attempt /\ left[i].turn = turns[i].turn
             /\ left[i].epoch = turns[i].epoch /\ left[i].admitted = turns[i].admitted
             /\ left[i].kept \subseteq turns[i].kept /\ \A a \in left[i].kept : a.memory # m
             /\ left[i].prelude \in {turns[i].prelude, "erased"}
             /\ \A a \in turns[i].admitted : a.memory = m => left[i].prelude = "erased"
  <2>1. turns[i] \in Turns /\ turns[i].kept \subseteq turns[i].admitted
    OBVIOUS
  <2>2. CASE \E a \in turns[i].admitted : a.memory = m
    <3>1. PICK kept : kept = {a \in turns[i].kept : a.memory \notin {m}}
      OBVIOUS
    <3>2. left[i] = [turns[i] EXCEPT !.prelude = "erased", !.kept = kept]
      BY <2>2, <3>1 DEF EraseRenderings
    <3>3. kept \subseteq turns[i].kept /\ \A a \in kept : a.memory # m
      BY <3>1
    <3> QED
      BY <2>1, <3>2, <3>3 DEF Turns
  <2>3. CASE ~\E a \in turns[i].admitted : a.memory = m
    <3>1. left[i] = turns[i]
      BY <2>3 DEF EraseRenderings
    <3> QED
      BY <2>1, <2>3, <3>1
  <2> QED
    BY <2>2, <2>3
<1>3. left \in Seq(Turns)
  <2>1. PICK n \in Nat : DOMAIN turns = 1..n
    OBVIOUS
  <2>2. left \in [1..n -> Turns]
    BY <1>1, <1>2, <2>1 DEF EraseRenderings
  <2> QED
    BY <2>2, FunctionIsSeq
<1> QED
  BY <1>1, <1>2, <1>3 DEF RenderingsGone

-----------------------------------------------------------------------------
(* One command committed. *)

SameTurns ==
    /\ DOMAIN turns' = DOMAIN turns
    /\ \A i \in DOMAIN turns : turns'[i].attempt = turns[i].attempt /\ turns'[i].turn = turns[i].turn

\* A committed batch leaves rows of their types, and the turns in place.
LEMMA AppendTypes ==
  ASSUME TypeOK, NEW m \in Memories, NEW batch, Effective(m, batch), TurnFacts, AppendMemoryBatch(m, batch)
  PROVE  MemoryTypeOK' /\ SameTurns
<1>1. PICK after : after = Projected(items[m], batch, Len(batch))
  OBVIOUS
<1>2. after \in Items /\ batch \in Seq(Operations)
  BY <1>1 DEF Effective
<1>3. items' \in [Memories -> Items]
  BY <1>1, <1>2 DEF AppendMemoryBatch, TypeOK, MemoryTypeOK
<1>4. ledger' \in [Memories -> Seq(Operations)]
  <2>1. ledger[m] \o batch \in Seq(Operations)
    BY <1>2, ConcatProperties DEF TypeOK, MemoryTypeOK
  <2> QED
    BY <2>1 DEF AppendMemoryBatch, TypeOK, MemoryTypeOK
<1>5. generation' \in Nat /\ mutationGeneration' \in Nat /\ tombstones' \subseteq Memories
  BY DEF AppendMemoryBatch, EligibilityStep, TypeOK, MemoryTypeOK
<1>6. turns' \in Seq(Turns) /\ SameTurns
  <2>1. CASE turns' = turns
    BY <2>1 DEF TypeOK, MemoryTypeOK, SameTurns
  <2>2. CASE turns' = EraseRenderings({m})
    <3>1. turns \in Seq(Turns) /\ \A i \in DOMAIN turns : turns[i].kept \subseteq turns[i].admitted
      BY DEF TypeOK, MemoryTypeOK, TurnFacts
    <3>2. PICK left : left = EraseRenderings({m})
      OBVIOUS
    <3>3. RenderingsGone(m, left)
      BY <3>1, <3>2, RenderingsErased
    <3> QED
      BY <2>2, <3>2, <3>3 DEF SameTurns, RenderingsGone
  <2> QED
    BY <2>1, <2>2 DEF AppendMemoryBatch
<1> QED
  BY <1>3, <1>4, <1>5, <1>6 DEF MemoryTypeOK

\* Only a deletion marks its memory.
LEMMA AppendDeleted ==
  ASSUME TypeOK, NEW m \in Memories, NEW batch, batch \in Seq(Operations), AppendMemoryBatch(m, batch),
         NEW x \in Memories, x \in DeletedMemories'
  PROVE  x \in DeletedMemories \/ (x = m /\ ~DeletesNothing(batch))
<1>1. tombstones' = tombstones /\ ledger' = [ledger EXCEPT ![m] = ledger[m] \o batch]
  BY DEF AppendMemoryBatch
<1>2. ledger \in [Memories -> Seq(Operations)]
  BY DEF TypeOK, MemoryTypeOK
<1>3. CASE x \in tombstones
  BY <1>3 DEF DeletedMemories
<1>4. CASE x \notin tombstones
  <2>1. PICK i \in DOMAIN ledger'[x] : ledger'[x][i].kind = "MemoryDeleted"
    BY <1>1, <1>4 DEF DeletedMemories
  <2>2. CASE x # m
    <3>1. ledger'[x] = ledger[x]
      BY <1>1, <1>2, <2>2
    <3> QED
      BY <2>1, <3>1 DEF DeletedMemories
  <2>3. CASE x = m
    <3>1. PICK old : old = ledger[m]
      OBVIOUS
    <3>2. old \in Seq(Operations) /\ ledger'[x] = old \o batch
      BY <1>1, <1>2, <2>3, <3>1
    <3>3. /\ Len(old \o batch) = Len(old) + Len(batch)
          /\ \A j \in 1..Len(old) + Len(batch) :
                (old \o batch)[j] = IF j <= Len(old) THEN old[j] ELSE batch[j - Len(old)]
      BY <3>2, ConcatProperties
    <3>4. i \in 1..Len(old) + Len(batch)
      BY <2>1, <3>2, <3>3
    <3>5. CASE i <= Len(old)
      <4>1. i \in DOMAIN old /\ old[i].kind = "MemoryDeleted"
        BY <2>1, <3>2, <3>3, <3>4, <3>5
      <4> QED
        BY <2>3, <3>1, <4>1 DEF DeletedMemories
    <3>6. CASE ~(i <= Len(old))
      <4>1. i - Len(old) \in DOMAIN batch /\ batch[i - Len(old)].kind = "MemoryDeleted"
        BY <2>1, <3>2, <3>3, <3>4, <3>6
      <4> QED
        BY <2>3, <4>1 DEF DeletesNothing
    <3> QED
      BY <3>5, <3>6
  <2> QED
    BY <2>2, <2>3
<1> QED
  BY <1>3, <1>4

\* A committed batch leaves the ledger sound.
LEMMA AppendLedger ==
  ASSUME TypeOK, LedgerFacts, NEW m \in Memories, NEW batch, Effective(m, batch), AppendMemoryBatch(m, batch),
         session' = session
  PROVE  LedgerFacts'
<1>1. PICK after : after = Projected(items[m], batch, Len(batch))
  OBVIOUS
<1>2. /\ batch \in Seq(Operations) /\ after \in Items /\ SoundItem(after) /\ after.sequence > 0
      /\ m \notin DeletedMemories
      /\ ~DeletesNothing(batch) => ErasedItem(after)
      /\ session = "deleted" => QuotesNothing(after)
  BY <1>1 DEF Effective
<1>3. items \in [Memories -> Items] /\ items' = [items EXCEPT ![m] = after] /\ tombstones' = tombstones
  BY <1>1 DEF AppendMemoryBatch, TypeOK, MemoryTypeOK
<1>4. items'[m] = after /\ \A x \in Memories \ {m} : items'[x] = items[x]
  BY <1>3
<1>5. \A x \in Memories \ {m} : ledger'[x] = ledger[x]
  BY DEF AppendMemoryBatch, TypeOK, MemoryTypeOK
<1>6. \A x \in Memories : SoundItem(items'[x])
  BY <1>2, <1>4 DEF LedgerFacts
<1>7. \A x \in Memories : items'[x].sequence = 0 => ledger'[x] = <<>>
  BY <1>2, <1>4, <1>5 DEF LedgerFacts
<1>8. \A x \in DeletedMemories' : ErasedItem(items'[x])
  <2> SUFFICES ASSUME NEW x \in DeletedMemories' PROVE ErasedItem(items'[x])
    OBVIOUS
  <2>1. x \in Memories
    BY <1>3 DEF DeletedMemories, TypeOK, MemoryTypeOK
  <2>2. x \in DeletedMemories \/ (x = m /\ ~DeletesNothing(batch))
    BY <1>2, <2>1, AppendDeleted
  <2>3. CASE x \in DeletedMemories
    <3>1. x # m /\ items'[x] = items[x]
      BY <1>2, <1>4, <2>1, <2>3
    <3> QED
      BY <2>3, <3>1 DEF LedgerFacts
  <2>4. CASE x = m /\ ~DeletesNothing(batch)
    BY <1>2, <1>4, <2>4
  <2> QED
    BY <2>2, <2>3, <2>4
<1>9. tombstones' # {} => session' = "deleted"
  BY <1>3 DEF LedgerFacts
<1>10. session' = "deleted" => \A x \in Memories : QuotesNothing(items'[x])
  BY <1>2, <1>4 DEF LedgerFacts
<1> QED
  BY <1>6, <1>7, <1>8, <1>9, <1>10 DEF LedgerFacts, SoundItem, ErasedItem, QuotesNothing, LastState, StateOf

\* A committed batch leaves the turns in agreement with the ledger.
LEMMA AppendTurns ==
  ASSUME TypeOK, TurnFacts, NEW m \in Memories, NEW batch, Effective(m, batch), AppendMemoryBatch(m, batch),
         epochs' = epochs
  PROVE  TurnFacts'
<1>1. PICK after : after = Projected(items[m], batch, Len(batch))
  OBVIOUS
<1>2. batch \in Seq(Operations) /\ DeletesNothing(batch) => Extends(items[m], after)
  BY <1>1 DEF Effective
<1>3. items \in [Memories -> Items] /\ items' = [items EXCEPT ![m] = after]
  BY <1>1 DEF AppendMemoryBatch, TypeOK, MemoryTypeOK
<1>4. items'[m] = after /\ \A x \in Memories \ {m} : items'[x] = items[x]
  BY <1>3
<1>5. /\ turns \in Seq(Turns) /\ batch \in Seq(Operations) /\ after \in Items
      /\ \A i \in DOMAIN turns : turns[i].kept \subseteq turns[i].admitted
  BY <1>1 DEF TypeOK, MemoryTypeOK, TurnFacts, Effective
<1>6. \A x \in Memories : x \in DeletedMemories' => x \in DeletedMemories \/ (x = m /\ ~DeletesNothing(batch))
  BY <1>5, AppendDeleted
<1>7. \A i \in DOMAIN turns : \A a \in turns[i].admitted : a.memory \in Memories /\ a.revision \in Nat
  <2> SUFFICES ASSUME NEW i \in DOMAIN turns PROVE \A a \in turns[i].admitted : a.memory \in Memories /\ a.revision \in Nat
    OBVIOUS
  <2>1. turns[i] \in Turns
    BY <1>5
  <2>2. turns[i].admitted \subseteq Admissions
    BY <2>1 DEF Turns
  <2> QED
    BY <2>2, RevisionsAssumption DEF Admissions
<1>8. CASE DeletesNothing(batch)
  <2>1. turns' = turns
    BY <1>8 DEF AppendMemoryBatch, DeletesNothing
  <2>2. \A x \in Memories, r \in Nat : HasContent(x, r) => HasContent(x, r)'
    <3> SUFFICES ASSUME NEW x \in Memories, NEW r \in Nat, HasContent(x, r) PROVE HasContent(x, r)'
      OBVIOUS
    <3>1. CASE x # m
      BY <1>4, <3>1 DEF HasContent
    <3>2. CASE x = m
      <4>1. items[m].revisions \in Seq(Rows) /\ after.revisions \in Seq(Rows)
        BY <1>3, <1>5 DEF Items
      <4>2. r \in 1..Len(items[m].revisions) /\ items[m].revisions[r].content
        BY <3>2, <4>1 DEF HasContent
      <4>3. r \in DOMAIN after.revisions /\ after.revisions[r].content
        BY <1>2, <1>5, <1>8, <4>1, <4>2 DEF Extends
      <4> QED
        BY <1>4, <3>2, <4>3 DEF HasContent
    <3> QED
      BY <3>1, <3>2
  <2>3. EpochIsFrozen'
    BY <2>1 DEF TurnFacts, EpochIsFrozen
  <2>4. ASSUME NEW i \in DOMAIN turns
        PROVE  /\ turns[i].epoch \in DOMAIN epochs /\ turns[i].kept \subseteq turns[i].admitted
               /\ \A a \in turns[i].kept : HasContent(a.memory, a.revision)'
               /\ \A a \in turns[i].admitted : a.memory \in DeletedMemories' => turns[i].prelude = "erased"
    <3>1. turns[i].epoch \in DOMAIN epochs /\ turns[i].kept \subseteq turns[i].admitted
      BY DEF TurnFacts
    <3>2. \A a \in turns[i].kept : HasContent(a.memory, a.revision)'
      BY <1>7, <2>2, <3>1 DEF TurnFacts
    <3>3. \A a \in turns[i].admitted : a.memory \in DeletedMemories' => turns[i].prelude = "erased"
      BY <1>6, <1>7, <1>8 DEF TurnFacts
    <3> QED
      BY <3>1, <3>2, <3>3
  <2> QED
    BY <2>1, <2>3, <2>4 DEF TurnFacts
<1>9. CASE ~DeletesNothing(batch)
  <2>1. PICK left : left = EraseRenderings({m})
    OBVIOUS
  <2>2. turns' = left
    BY <1>9, <2>1 DEF AppendMemoryBatch, DeletesNothing
  <2>3. RenderingsGone(m, left)
    BY <1>5, <2>1, RenderingsErased
  <2>4. /\ DOMAIN left = DOMAIN turns
        /\ \A i \in DOMAIN turns :
               /\ left[i].attempt = turns[i].attempt
               /\ left[i].epoch = turns[i].epoch /\ left[i].admitted = turns[i].admitted
               /\ left[i].kept \subseteq turns[i].kept /\ \A a \in left[i].kept : a.memory # m
               /\ left[i].prelude \in {turns[i].prelude, "erased"}
               /\ \A a \in turns[i].admitted : a.memory = m => left[i].prelude = "erased"
    BY <2>3 DEF RenderingsGone
  <2>5. EpochIsFrozen'
    BY <2>2, <2>4 DEF TurnFacts, EpochIsFrozen
  <2>6. ASSUME NEW i \in DOMAIN turns
        PROVE  /\ left[i].epoch \in DOMAIN epochs /\ left[i].kept \subseteq left[i].admitted
               /\ \A a \in left[i].kept : HasContent(a.memory, a.revision)'
               /\ \A a \in left[i].admitted : a.memory \in DeletedMemories' => left[i].prelude = "erased"
    <3>1. left[i].epoch \in DOMAIN epochs /\ left[i].kept \subseteq left[i].admitted
      BY <2>4 DEF TurnFacts
    <3>2. \A a \in left[i].kept : HasContent(a.memory, a.revision)'
      <4> SUFFICES ASSUME NEW a \in left[i].kept PROVE HasContent(a.memory, a.revision)'
        OBVIOUS
      <4>1. a \in turns[i].kept /\ a.memory # m /\ a \in turns[i].admitted
        BY <1>5, <2>4
      <4>2. a.memory \in Memories /\ HasContent(a.memory, a.revision)
        BY <1>7, <4>1 DEF TurnFacts
      <4> QED
        BY <1>4, <4>1, <4>2 DEF HasContent
    <3>3. \A a \in left[i].admitted : a.memory \in DeletedMemories' => left[i].prelude = "erased"
      <4> SUFFICES ASSUME NEW a \in left[i].admitted, a.memory \in DeletedMemories' PROVE left[i].prelude = "erased"
        OBVIOUS
      <4>1. a \in turns[i].admitted /\ a.memory \in Memories
        BY <1>7, <2>4
      <4>2. CASE a.memory \in DeletedMemories
        BY <2>4, <4>1, <4>2 DEF TurnFacts
      <4>3. CASE a.memory = m
        BY <2>4, <4>1, <4>3
      <4> QED
        BY <1>6, <4>1, <4>2, <4>3
    <3> QED
      BY <3>1, <3>2, <3>3
  <2> QED
    BY <2>2, <2>4, <2>5, <2>6 DEF TurnFacts
<1> QED
  BY <1>8, <1>9

-----------------------------------------------------------------------------
(* The session is deleted. *)

\* A memory of the deleted session.
LEMMA SessionMemoryErased ==
  ASSUME TypeOK, LedgerFacts, NEW m \in Memories, items[m].scope = Session, NEW after, after = EraseSessionMemory(m)
  PROVE  after \in Items /\ SoundItem(after) /\ ErasedItem(after) /\ QuotesNothing(after) /\ after.sequence > 0
<1>1. PICK item : item = items[m]
  OBVIOUS
<1>2. item \in Items /\ SoundItem(item) /\ item.scope = Session
  BY <1>1 DEF TypeOK, MemoryTypeOK, LedgerFacts
<1>3. item # Absent
  BY <1>2, ScopeAssumption DEF Absent
<1>4. PICK n : n = Len(item.revisions)
  OBVIOUS
<1>5. item.sequence \in Nat \ {0} /\ n \in Nat \ {0} /\ item.latest = n /\ item.revisions \in Seq(Rows)
  BY <1>2, <1>3, <1>4 DEF SoundItem, Items
<1>6. n \in DOMAIN item.revisions /\ n \in 1..Len(item.revisions) /\ "deleted" \in RevisionStates
  BY <1>4, <1>5 DEF RevisionStates
<1>7. PICK set : StateSet(item.revisions, n, "deleted", set)
  BY DEF StateSet
<1>8. PICK rows : rows = Emptied(set)
  OBVIOUS
<1>9. PICK deleted : deleted = DeleteMemoryContent(item, n)
  OBVIOUS
<1>10. deleted = Item(item.scope, "deleted", item.sequence, n, 0, rows, {})
  <2>1. deleted = Item(item.scope, "deleted", item.sequence, item.latest, 0, Emptied(WithState(item.revisions, n, "deleted")), {})
    BY <1>2, <1>6, <1>9, DeletesContent
  <2>2. Emptied(WithState(item.revisions, n, "deleted")) = rows
    BY <1>7, <1>8, Zenon DEF StateSet
  <2> QED
    BY <1>5, <2>1, <2>2
<1>11. set \in Seq(Rows) /\ Len(set) = n
  BY <1>4, <1>5, <1>6, <1>7, StateSetIs
<1>12. rows \in Seq(Rows) /\ Len(rows) = n /\ \A i \in 1..n : ~rows[i].content /\ ~rows[i].excerpt
  BY <1>8, <1>11, EmptiedIs
<1>13. deleted.revisions = rows
  BY <1>10, ItemHas
<1>14. PICK left : left = [r \in DOMAIN rows |-> [rows[r] EXCEPT !.state = "deleted"]]
  OBVIOUS
<1>15. \A i \in 1..n : /\ left[i] \in Rows /\ left[i].state = "deleted"
                       /\ ~left[i].content /\ ~left[i].excerpt
  <2> SUFFICES ASSUME NEW i \in 1..n
               PROVE  left[i] \in Rows /\ left[i].state = "deleted" /\ ~left[i].content /\ ~left[i].excerpt
    OBVIOUS
  <2>1. rows[i] \in Rows /\ ~rows[i].content /\ ~rows[i].excerpt
    BY <1>12
  <2>2. left[i] = [rows[i] EXCEPT !.state = "deleted"]
    BY <1>12, <1>14
  <2> QED
    BY <1>6, <2>1, <2>2 DEF Rows
<1>16. left \in [1..n -> Rows]
  <2>1. DOMAIN rows = 1..n
    BY <1>12
  <2> QED
    BY <1>14, <1>15, <2>1
<1>17. left \in Seq(Rows) /\ Len(left) = n
  <2>1. left \in Seq(Rows)
    BY <1>5, <1>16, FunctionIsSeq
  <2> QED
    BY <1>5, <1>16, <2>1
<1>18. after = Item(item.scope, "deleted", item.sequence, n, 0, left, {})
  <2>1. after = [deleted EXCEPT !.revisions = left]
    BY <1>1, <1>5, <1>9, <1>13, <1>14 DEF EraseSessionMemory
  <2> QED
    BY <1>10, <2>1 DEF Item
<1>19. \A r \in 1 .. n - 1 : left[r].state \in {"superseded", "deleted"}
  BY <1>5, <1>15
<1>20. left[n].state = "deleted" /\ item.scope \in {Workspace, Session, NoSession}
  BY <1>2, <1>5, <1>15
<1> QED
  BY <1>5, <1>15, <1>17, <1>18, <1>19, <1>20, EmptySound

\* A memory that may have quoted the deleted session.
LEMMA EvidenceErased ==
  ASSUME TypeOK, LedgerFacts, NEW m \in Memories, items[m].scope # Session, NEW after, after = EraseEvidence(m)
  PROVE  /\ after \in Items /\ SoundItem(after) /\ QuotesNothing(after) /\ after.sequence = items[m].sequence
         /\ ErasedItem(items[m]) => ErasedItem(after)
<1>1. PICK item : item = items[m]
  OBVIOUS
<1>2. item \in Items /\ SoundItem(item) /\ item.scope # Session
  BY <1>1 DEF TypeOK, MemoryTypeOK, LedgerFacts
<1>3. PICK n : n = Len(item.revisions)
  OBVIOUS
<1>4. n \in Nat /\ item.revisions \in Seq(Rows) /\ DOMAIN item.revisions = 1..n
  BY <1>2, <1>3 DEF Items
<1>5. PICK left : left = [r \in DOMAIN item.revisions |->
            IF CitesSession(m, r)
            THEN [item.revisions[r] EXCEPT !.excerpt = FALSE, !.erasedBy = Session]
            ELSE item.revisions[r]]
  OBVIOUS
<1>6. ASSUME NEW r \in 1..n
      PROVE  /\ left[r] \in Rows /\ left[r].state = item.revisions[r].state /\ left[r].origin = item.revisions[r].origin
             /\ left[r].supersedes = item.revisions[r].supersedes /\ left[r].content = item.revisions[r].content
             /\ left[r].source = item.revisions[r].source
             /\ left[r].excerpt => item.revisions[r].excerpt /\ left[r].source # Session
  <2>1. item.revisions[r] \in Rows
    BY <1>4
  <2>2. CASE CitesSession(m, r)
    <3>1. left[r] = [item.revisions[r] EXCEPT !.excerpt = FALSE, !.erasedBy = Session]
      BY <1>4, <1>5, <2>2
    <3> QED
      BY <2>1, <3>1 DEF Rows, Sources
  <2>3. CASE ~CitesSession(m, r)
    <3>1. left[r] = item.revisions[r]
      BY <1>4, <1>5, <2>3
    <3>2. item.revisions[r].excerpt => item.revisions[r].source # Session
      BY <1>1, <1>2, <2>3 DEF CitesSession
    <3> QED
      BY <2>1, <3>1, <3>2
  <2> QED
    BY <2>2, <2>3
<1>7. left \in [1..n -> Rows]
  BY <1>4, <1>5, <1>6
<1>8. left \in Seq(Rows) /\ Len(left) = n /\ DOMAIN left = 1..n
  <2>1. left \in Seq(Rows)
    BY <1>4, <1>7, FunctionIsSeq
  <2> QED
    BY <1>4, <1>7, <2>1
<1>9. after = Item(item.scope, item.lifecycle, item.sequence, item.latest, item.active, left, item.fts)
  <2>1. after = [item EXCEPT !.revisions = left]
    BY <1>1, <1>5 DEF EraseEvidence
  <2> QED
    BY <1>2, <2>1 DEF Items, Item
<1>10. /\ after.scope = item.scope /\ after.lifecycle = item.lifecycle /\ after.sequence = item.sequence
       /\ after.latest = item.latest /\ after.active = item.active /\ after.revisions = left /\ after.fts = item.fts
  BY <1>9, ItemHas
<1>11. after \in Items
  BY <1>2, <1>8, <1>9 DEF Item, Items
<1>12. item.sequence = 0 => after = Absent
  <2> SUFFICES ASSUME item.sequence = 0 PROVE after = Absent
    OBVIOUS
  <2>1. item = Absent
    BY <1>2 DEF SoundItem
  <2>2. item.revisions = <<>>
    BY <2>1 DEF Absent
  <2>3. n = 0
    BY <1>3, <2>2
  <2>4. left = <<>>
    BY <1>8, <2>3
  <2> QED
    BY <1>9, <2>1, <2>4 DEF Absent, Item
<1>13. n > 0 => LastState(after) = LastState(item)
  BY <1>3, <1>4, <1>6, <1>8, <1>10 DEF LastState, StateOf
<1>14. SoundItem(after)
  <2>1. after.latest = Len(after.revisions)
    BY <1>2, <1>3, <1>8, <1>10 DEF SoundItem
  <2>2. after.sequence > 0 => Len(after.revisions) > 0
    BY <1>2, <1>3, <1>8, <1>10 DEF SoundItem
  <2>3. \A r \in 1 .. Len(after.revisions) - 1 : StateOf(after, r) \in {"superseded", "deleted"}
    <3> SUFFICES ASSUME NEW r \in 1 .. n - 1 PROVE left[r].state \in {"superseded", "deleted"}
      BY <1>8, <1>10 DEF StateOf
    <3>1. r \in 1..n
      BY <1>4
    <3> QED
      BY <1>2, <1>3, <1>6, <3>1 DEF SoundItem, StateOf
  <2>4. after.active \in {0, Len(after.revisions)} /\ after.fts = {after.active} \ {0}
    BY <1>2, <1>3, <1>8, <1>10 DEF SoundItem
  <2>5. after.sequence > 0 =>
          /\ after.active # 0 <=> LastState(after) = "active"
          /\ LastState(after) = "proposed" => after.revisions[Len(after.revisions)].supersedes = 0
    <3> SUFFICES ASSUME after.sequence > 0
                 PROVE  /\ after.active # 0 <=> LastState(after) = "active"
                        /\ LastState(after) = "proposed" => left[n].supersedes = 0
      BY <1>8, <1>10
    <3>1. n \in 1..n /\ n > 0
      BY <1>4, <1>8, <1>10, <2>2
    <3>2. left[n].supersedes = item.revisions[n].supersedes
      BY <1>6, <3>1
    <3> QED
      BY <1>2, <1>3, <1>10, <1>13, <3>1, <3>2 DEF SoundItem
  <2>6. after.active # 0 =>
          /\ after.lifecycle = "active"
          /\ after.revisions[after.active].origin = "user" /\ after.revisions[after.active].content
    <3> SUFFICES ASSUME item.active # 0
                 PROVE  item.lifecycle = "active" /\ left[item.active].origin = "user" /\ left[item.active].content
      BY <1>10
    <3>1. item.active = n /\ n \in 1..n
      BY <1>2, <1>3, <1>4 DEF SoundItem
    <3>2. left[n].origin = item.revisions[n].origin /\ left[n].content = item.revisions[n].content
      BY <1>6, <3>1
    <3> QED
      BY <1>2, <3>1, <3>2 DEF SoundItem
  <2> QED
    BY <1>10, <1>12, <2>1, <2>2, <2>3, <2>4, <2>5, <2>6 DEF SoundItem
<1>15. QuotesNothing(after)
  BY <1>6, <1>8, <1>10 DEF QuotesNothing
<1>16. ErasedItem(item) => ErasedItem(after)
  <2> SUFFICES ASSUME ErasedItem(item) PROVE ErasedItem(after)
    OBVIOUS
  <2>1. n > 0
    BY <1>2, <1>3 DEF ErasedItem, SoundItem
  <2>2. \A r \in 1..n : ~left[r].content /\ ~left[r].excerpt
    BY <1>4, <1>6 DEF ErasedItem
  <2> QED
    BY <1>8, <1>10, <1>13, <2>1, <2>2 DEF ErasedItem
<1> QED
  BY <1>1, <1>10, <1>11, <1>14, <1>15, <1>16

\* The whole transaction of erase_session_memory_and_evidence.
LEMMA SessionErased ==
  ASSUME TypeOK, LedgerFacts, EraseSessionMemoryAndEvidence, session' = "deleted"
  PROVE  MemoryTypeOK' /\ LedgerFacts' /\ \A m \in Memories : items'[m].sequence = items[m].sequence
<1>1. /\ items' = [m \in Memories |-> IF m \in SessionMemories THEN EraseSessionMemory(m) ELSE EraseEvidence(m)]
      /\ tombstones' = tombstones \cup SessionMemories /\ turns' = <<>> /\ ledger' = ledger
      /\ generation' \in Nat /\ mutationGeneration' \in Nat
  BY DEF EraseSessionMemoryAndEvidence, TypeOK, MemoryTypeOK
<1>2. ASSUME NEW m \in Memories, m \in SessionMemories
      PROVE  /\ items'[m] \in Items /\ SoundItem(items'[m]) /\ ErasedItem(items'[m]) /\ QuotesNothing(items'[m])
             /\ items'[m].sequence > 0 /\ items'[m].sequence = items[m].sequence
  <2>1. PICK after : after = EraseSessionMemory(m)
    OBVIOUS
  <2>2. items'[m] = after /\ items[m].scope = Session
    BY <1>1, <1>2, <2>1 DEF SessionMemories
  <2>3. after \in Items /\ SoundItem(after) /\ ErasedItem(after) /\ QuotesNothing(after) /\ after.sequence > 0
    BY <2>1, <2>2, SessionMemoryErased
  <2>4. after.sequence = items[m].sequence
    <3>1. items[m] \in Items
      BY DEF TypeOK, MemoryTypeOK
    <3> QED
      BY <2>1, <3>1 DEF EraseSessionMemory, DeleteMemoryContent, SetRevisionState, Items
  <2> QED
    BY <2>2, <2>3, <2>4
<1>3. ASSUME NEW m \in Memories, m \notin SessionMemories
      PROVE  /\ items'[m] \in Items /\ SoundItem(items'[m]) /\ QuotesNothing(items'[m])
             /\ items'[m].sequence = items[m].sequence
             /\ ErasedItem(items[m]) => ErasedItem(items'[m])
  <2>1. PICK after : after = EraseEvidence(m)
    OBVIOUS
  <2>2. items'[m] = after /\ items[m].scope # Session
    BY <1>1, <1>3, <2>1 DEF SessionMemories
  <2>3. /\ after \in Items /\ SoundItem(after) /\ QuotesNothing(after) /\ after.sequence = items[m].sequence
        /\ ErasedItem(items[m]) => ErasedItem(after)
    BY <2>1, <2>2, EvidenceErased
  <2> QED
    BY <2>2, <2>3
<1>4. \A m \in Memories : items'[m].sequence = items[m].sequence
  BY <1>2, <1>3
<1>5. \A m \in Memories : SoundItem(items'[m]) /\ QuotesNothing(items'[m])
  BY <1>2, <1>3
<1>6. MemoryTypeOK'
  <2>1. items' \in [Memories -> Items]
    BY <1>1, <1>2, <1>3
  <2>2. turns' \in Seq(Turns) /\ tombstones' \subseteq Memories
    BY <1>1 DEF SessionMemories, TypeOK, MemoryTypeOK
  <2> QED
    BY <1>1, <2>1, <2>2 DEF MemoryTypeOK, TypeOK
<1>7. \A m \in Memories : items'[m].sequence = 0 => ledger'[m] = <<>>
  BY <1>1, <1>4 DEF LedgerFacts
<1>8. \A m \in DeletedMemories' : ErasedItem(items'[m])
  <2> SUFFICES ASSUME NEW m \in DeletedMemories' PROVE ErasedItem(items'[m])
    OBVIOUS
  <2>1. m \in Memories /\ (m \in DeletedMemories \/ m \in SessionMemories)
    BY <1>1 DEF DeletedMemories, SessionMemories, TypeOK, MemoryTypeOK
  <2>2. CASE m \in SessionMemories
    BY <1>2, <2>1, <2>2
  <2>3. CASE m \notin SessionMemories
    <3>1. ErasedItem(items[m])
      BY <2>1, <2>3 DEF LedgerFacts
    <3> QED
      BY <1>3, <2>1, <2>3, <3>1
  <2> QED
    BY <2>2, <2>3
<1>9. LedgerFacts'
  BY <1>5, <1>7, <1>8 DEF LedgerFacts, SoundItem, ErasedItem, QuotesNothing, LastState, StateOf
<1> QED
  BY <1>4, <1>6, <1>9

-----------------------------------------------------------------------------
(* Epochs and their baselines. *)

\* A set of numbers has a least one.
LEMMA LeastExists ==
  ASSUME NEW T \in SUBSET Nat, T # {} PROVE \E n \in T : \A m \in T : n <= m
<1>1. PICK n \in T : \A m \in T : ~(<<m, n>> \in OpToRel(<, Nat))
  BY NatLessThanWellFounded, WFMin
<1>2. \A m \in T : <<m, n>> \in Nat \X Nat
  OBVIOUS
<1>3. \A m \in T : ~(m < n)
  BY <1>1, <1>2 DEF OpToRel
<1> QED
  BY <1>3

\* The first turn of an epoch is its baseline.
LEMMA BaselineIs ==
  ASSUME turns \in Seq(Turns), NEW e, \E i \in DOMAIN turns : turns[i].epoch = e
  PROVE  \E i \in DOMAIN turns : turns[i].epoch = e /\ Baseline(e) = turns[i]
<1> DEFINE T == {i \in DOMAIN turns : turns[i].epoch = e}
<1> DEFINE First(i) == turns[i].epoch = e /\ \A j \in DOMAIN turns : turns[j].epoch = e => i <= j
<1>1. T \in SUBSET Nat /\ T # {}
  OBVIOUS
<1>2. PICK n \in T : \A j \in T : n <= j
  <2> HIDE DEF T
  <2> QED
    BY <1>1, LeastExists
<1>3. n \in DOMAIN turns /\ First(n)
  BY <1>2
<1>4. PICK i : i = CHOOSE k \in DOMAIN turns : First(k)
  OBVIOUS
<1>5. i \in DOMAIN turns /\ First(i)
  <2> HIDE DEF First
  <2> QED
    BY <1>3, <1>4
<1>6. Baseline(e) = turns[i]
  BY <1>4 DEF Baseline
<1> QED
  BY <1>5, <1>6

\* The epoch of a committed turn.
LEMMA EpochOfIs ==
  ASSUME NEW a, NEW n, \E i \in DOMAIN turns : turns[i].attempt = a /\ turns[i].turn = n
  PROVE  \E i \in DOMAIN turns : turns[i].attempt = a /\ turns[i].turn = n /\ EpochOf(a, n) = turns[i].epoch
  BY DEF EpochOf

\* What is put into a commit: bytes that are there, in an epoch that has the
\* same revisions.
LEMMA CommitIsFrozen ==
  ASSUME TypeOK, TurnFacts, ContextFacts, handler = "bind", session = "open", CommitAccepts
  PROVE  /\ \A a \in snapshot.admitted : HasContent(a.memory, a.revision)
         /\ IF NewEpoch THEN SnapshotEpoch = Len(epochs) + 1 ELSE SnapshotEpoch \in DOMAIN epochs
         /\ ~NewEpoch => \A i \in DOMAIN turns : turns[i].epoch = SnapshotEpoch =>
               turns[i].admitted = snapshot.admitted /\ turns[i].attempt = attempt
<1>1. CASE NewEpoch
  BY <1>1 DEF CommitAccepts, BoundaryHolds, SnapshotEpoch
<1>2. CASE ~NewEpoch
  <2>1. turns \in Seq(Turns) /\ SnapshotEpoch = EpochOf(attempt, started)
    BY <1>2 DEF TypeOK, MemoryTypeOK, SnapshotEpoch
  <2>2. started > 0
    BY <1>2 DEF ContextFacts, NewEpoch
  <2>3. PICK k \in DOMAIN turns : turns[k].attempt = attempt /\ turns[k].turn = started /\ SnapshotEpoch = turns[k].epoch
    BY <2>1, <2>2, EpochOfIs DEF ContextFacts
  <2>4. PICK e : e = SnapshotEpoch
    OBVIOUS
  <2>5. PICK b \in DOMAIN turns : turns[b].epoch = e /\ Baseline(e) = turns[b]
    BY <2>1, <2>3, <2>4, BaselineIs
  <2>6. turns[b].kept = turns[b].admitted /\ turns[b].admitted = snapshot.admitted
    BY <1>2, <2>4, <2>5 DEF CommitAccepts, ContinuationHolds
  <2>7. \A a \in snapshot.admitted : HasContent(a.memory, a.revision)
    BY <2>6 DEF TurnFacts
  <2>8. \A i \in DOMAIN turns : turns[i].epoch = e => turns[i].admitted = turns[b].admitted /\ turns[i].attempt = turns[k].attempt
    BY <2>3, <2>4, <2>5 DEF TurnFacts, EpochIsFrozen
  <2>9. e \in DOMAIN epochs
    BY <2>3, <2>4 DEF TurnFacts
  <2> QED
    BY <1>2, <2>3, <2>4, <2>6, <2>7, <2>8, <2>9
<1> QED
  BY <1>1, <1>2

\* The turns after a commit.
LEMMA CommitKeepsTurns ==
  ASSUME TypeOK, LedgerFacts, TurnFacts, ContextFacts, CommitContextTurnAndBind
  PROVE  /\ turns' \in Seq(Turns) /\ (\E rows : epochs' \in Seq(rows)) /\ TurnFacts'
         /\ Len(turns') = Len(turns) + 1 /\ \A i \in DOMAIN turns : turns'[i] = turns[i]
         /\ turns'[Len(turns')].attempt = attempt /\ turns'[Len(turns')].turn = started + 1
         /\ turns'[Len(turns')].kept = turns'[Len(turns')].admitted
<1>1. /\ handler = "bind" /\ CommitAccepts /\ turns' = Append(turns, TurnRow)
      /\ epochs' = (IF NewEpoch THEN Append(epochs, EpochRow) ELSE epochs)
      /\ items' = items /\ ledger' = ledger /\ tombstones' = tombstones
  BY DEF CommitContextTurnAndBind
<1>2. session = "open"
  BY <1>1 DEF ContextFacts, TypeOK, ContextTypeOK
<1>3. PICK row : row = TurnRow
  OBVIOUS
<1>4. PICK e : e = SnapshotEpoch
  OBVIOUS
<1>5. PICK admitted : admitted = snapshot.admitted
  OBVIOUS
<1>6. /\ row.attempt = attempt /\ row.turn = started + 1 /\ row.epoch = e /\ row.admitted = admitted /\ row.kept = admitted
      /\ row.prelude \in {"absent", "retained"}
      /\ row = [attempt |-> attempt, turn |-> started + 1, epoch |-> e, admitted |-> admitted, kept |-> admitted,
                prelude |-> row.prelude]
  BY <1>1, <1>3, <1>4, <1>5 DEF TurnRow, ContextFacts
<1>7. /\ \A a \in admitted : HasContent(a.memory, a.revision)
      /\ IF NewEpoch THEN e = Len(epochs) + 1 ELSE e \in DOMAIN epochs
      /\ ~NewEpoch => \A i \in DOMAIN turns : turns[i].epoch = e => turns[i].admitted = admitted /\ turns[i].attempt = attempt
  BY <1>1, <1>2, <1>4, <1>5, CommitIsFrozen
<1>8. PICK rows : epochs \in Seq(rows)
  BY DEF TypeOK, ContextTypeOK
<1>9. /\ \E more : epochs' \in Seq(more)
      /\ e \in DOMAIN epochs' /\ DOMAIN epochs \subseteq DOMAIN epochs'
      /\ e \in Nat
  <2>1. CASE ~NewEpoch
    BY <1>1, <1>7, <1>8, <2>1
  <2>2. CASE NewEpoch
    <3>1. PICK new : new = EpochRow
      OBVIOUS
    <3>2. PICK longer : longer = Append(epochs, new)
      OBVIOUS
    <3>3. epochs \in Seq(rows \cup {new}) /\ new \in rows \cup {new}
      BY <1>8
    <3>4. longer \in Seq(rows \cup {new}) /\ Len(longer) = Len(epochs) + 1
      BY <3>2, <3>3, Appends
    <3>5. epochs' = longer /\ e = Len(epochs) + 1
      BY <1>1, <1>7, <2>2, <3>1, <3>2
    <3>6. DOMAIN longer = 1 .. Len(epochs) + 1 /\ DOMAIN epochs = 1..Len(epochs) /\ Len(epochs) \in Nat
      BY <1>8, <3>4
    <3> QED
      BY <3>4, <3>5, <3>6
  <2> QED
    BY <2>1, <2>2
<1>10. row \in Turns
  <2>1. admitted \subseteq Admissions
    <3>1. snapshot \in Snapshots
      BY <1>1 DEF TypeOK, ContextTypeOK, ContextFacts
    <3> QED
      BY <1>5, <3>1 DEF Snapshots
  <2>2. attempt \in Nat /\ started + 1 \in Nat
    BY DEF TypeOK, ContextTypeOK
  <2> QED
    BY <1>6, <1>9, <2>1, <2>2 DEF Turns
<1>11. PICK n : n = Len(turns)
  OBVIOUS
<1>12. n \in Nat /\ DOMAIN turns = 1..n /\ turns \in Seq(Turns)
  BY <1>11 DEF TypeOK, MemoryTypeOK
<1>13. PICK left : left = Append(turns, row)
  OBVIOUS
<1>14. left \in Seq(Turns) /\ Len(left) = n + 1 /\ left[n + 1] = row /\ \A i \in 1..n : left[i] = turns[i]
  BY <1>10, <1>11, <1>12, <1>13, Appends
<1>15. turns' = left /\ DOMAIN left = 1 .. n + 1
  BY <1>1, <1>3, <1>12, <1>13, <1>14
<1>16. \A i \in 1..n : turns[i].epoch = e => turns[i].admitted = admitted /\ turns[i].attempt = attempt
  <2>1. CASE ~NewEpoch
    BY <1>7, <1>12, <2>1
  <2>2. CASE NewEpoch
    <3> SUFFICES ASSUME NEW i \in 1..n, turns[i].epoch = e PROVE FALSE
      OBVIOUS
    <3>1. e \in DOMAIN epochs
      BY <1>12 DEF TurnFacts
    <3> QED
      BY <1>7, <1>8, <2>2, <3>1
  <2> QED
    BY <2>1, <2>2
<1>17. EpochIsFrozen'
  <2> SUFFICES ASSUME NEW i \in 1 .. n + 1, NEW j \in 1 .. n + 1, left[i].epoch = left[j].epoch
               PROVE  left[i].admitted = left[j].admitted /\ left[i].attempt = left[j].attempt
    BY <1>15 DEF EpochIsFrozen
  <2>1. CASE i = n + 1 /\ j = n + 1
    BY <2>1
  <2>2. CASE i = n + 1 /\ j \in 1..n
    BY <1>6, <1>14, <1>16, <2>2
  <2>3. CASE i \in 1..n /\ j = n + 1
    BY <1>6, <1>14, <1>16, <2>3
  <2>4. CASE i \in 1..n /\ j \in 1..n
    BY <1>12, <1>14, <2>4 DEF TurnFacts, EpochIsFrozen
  <2> QED
    BY <1>12, <2>1, <2>2, <2>3, <2>4
<1>18. ASSUME NEW i \in 1 .. n + 1
       PROVE  /\ left[i].epoch \in DOMAIN epochs' /\ left[i].kept \subseteq left[i].admitted
              /\ \A a \in left[i].kept : HasContent(a.memory, a.revision)
              /\ \A a \in left[i].admitted : a.memory \in DeletedMemories => left[i].prelude = "erased"
  <2>1. CASE i \in 1..n
    <3>1. left[i] = turns[i] /\ i \in DOMAIN turns
      BY <1>12, <1>14, <2>1
    <3>2. /\ turns[i].epoch \in DOMAIN epochs' /\ turns[i].kept \subseteq turns[i].admitted
          /\ \A a \in turns[i].kept : HasContent(a.memory, a.revision)
          /\ \A a \in turns[i].admitted : a.memory \in DeletedMemories => turns[i].prelude = "erased"
      BY <1>9, <3>1 DEF TurnFacts
    <3> QED
      BY <3>1, <3>2
  <2>2. CASE i = n + 1
    <3>1. \A a \in admitted : a.memory \notin DeletedMemories
      BY <1>7 DEF LedgerFacts, ErasedItem, HasContent
    <3> QED
      BY <1>6, <1>7, <1>9, <1>14, <2>2, <3>1
  <2> QED
    BY <1>12, <2>1, <2>2
<1>19. DeletedMemories' = DeletedMemories /\ \A x, r : HasContent(x, r)' <=> HasContent(x, r)
  BY <1>1 DEF DeletedMemories, HasContent
<1>20. TurnFacts'
  <2>1. ASSUME NEW i \in DOMAIN turns'
        PROVE  /\ turns'[i].epoch \in DOMAIN epochs' /\ turns'[i].kept \subseteq turns'[i].admitted
               /\ \A a \in turns'[i].kept : HasContent(a.memory, a.revision)'
               /\ \A a \in turns'[i].admitted : a.memory \in DeletedMemories' => turns'[i].prelude = "erased"
    BY <1>15, <1>18, <1>19
  <2> QED
    BY <1>17, <2>1 DEF TurnFacts
<1> QED
  BY <1>6, <1>9, <1>11, <1>12, <1>14, <1>15, <1>20

-----------------------------------------------------------------------------
(* Steps. *)

\* The memory commands of the user.
LEMMA UserCommand ==
  ASSUME IInv, NEW m \in Memories, NEW batch, Effective(m, batch), AppendMemoryBatch(m, batch),
         UNCHANGED contextVars, handler = "none", m # Proposal \/ Exists(m)
  PROVE  IInv'
<1>1. /\ session' = session /\ attempt' = attempt /\ status' = status /\ started' = started /\ epochs' = epochs
      /\ exact' = exact /\ call' = call /\ active' = active /\ handler' = handler /\ snapshot' = snapshot
  BY DEF contextVars
<1>2. MemoryTypeOK' /\ SameTurns
  BY AppendTypes DEF IInv
<1>3. LedgerFacts' /\ TurnFacts'
  BY <1>1, AppendLedger, AppendTurns DEF IInv
<1>4. ContextTypeOK'
  BY <1>1 DEF IInv, TypeOK, ContextTypeOK
<1>5. ContextFacts'
  <2>1. session = "deleted" => turns' = <<>>
    BY <1>2 DEF IInv, ContextFacts, SameTurns, MemoryTypeOK
  <2>2. started > 0 /\ session = "open" => \E i \in DOMAIN turns' : turns'[i].attempt = attempt /\ turns'[i].turn = started
    BY <1>2 DEF IInv, ContextFacts, SameTurns
  <2> QED
    BY <1>1, <2>1, <2>2 DEF IInv, ContextFacts, Settled
<1>6. CallFacts'
  <2>1. PICK after : after = Projected(items[m], batch, Len(batch))
    OBVIOUS
  <2>2. items' = [items EXCEPT ![m] = after] /\ after.sequence > 0 /\ items \in [Memories -> Items]
    BY <2>1 DEF AppendMemoryBatch, Effective, IInv, TypeOK, MemoryTypeOK
  <2>3. Proposal \in Memories
    BY MemoryNamesAssumption
  <2>4. Exists(Proposal)' <=> Exists(Proposal)
    BY <2>2, <2>3 DEF Exists
  <2> QED
    BY <1>1, <2>4 DEF IInv, CallFacts, ToolOutcomeMatchesLedger
<1> QED
  BY <1>2, <1>3, <1>4, <1>5, <1>6 DEF IInv, TypeOK

\* A step that leaves the ledger, the turns and the epochs alone.
LEMMA SameLedger ==
  ASSUME IInv, UNCHANGED memoryVars, session' = session, epochs' = epochs, ContextTypeOK', ContextFacts', CallFacts'
  PROVE  IInv'
<1>1. /\ items' = items /\ ledger' = ledger /\ generation' = generation
      /\ mutationGeneration' = mutationGeneration /\ tombstones' = tombstones /\ turns' = turns
  BY DEF memoryVars
<1>2. MemoryTypeOK'
  BY <1>1 DEF IInv, TypeOK, MemoryTypeOK
<1>3. DeletedMemories' = DeletedMemories
  BY <1>1 DEF DeletedMemories
<1>4. LedgerFacts'
  BY <1>1, <1>3 DEF IInv, LedgerFacts, SoundItem, ErasedItem, QuotesNothing, LastState, StateOf
<1>5. TurnFacts'
  BY <1>1, <1>3 DEF IInv, TurnFacts, EpochIsFrozen, HasContent
<1> QED
  BY <1>2, <1>4, <1>5 DEF IInv, TypeOK

\* A step without a proposal call.
LEMMA SameCall ==
  ASSUME IInv, UNCHANGED memoryVars, call' = call, handler \notin {"propose", "proposed"},
         handler' \notin {"propose", "proposed"}
  PROVE  CallFacts'
<1>1. items' = items
  BY DEF memoryVars
<1> QED
  BY <1>1 DEF IInv, CallFacts, ToolOutcomeMatchesLedger, Exists

\* What the search returns can be admitted.
LEMMA FittingAdmissions ==
  ASSUME NEW admitted \in Fitting PROVE admitted \subseteq Admissions
  BY DEF Fitting, SearchMemory, Admissions

\* A prepared context.
LEMMA SnapshotIs ==
  ASSUME TypeOK, NEW kind \in {"new", "frozen", "compaction"}, NEW admitted \in SUBSET Admissions
  PROVE  /\ Snapshot(kind, admitted) \in Snapshots /\ Snapshot(kind, admitted) # NoSnapshot
         /\ Snapshot(kind, admitted).turn = started + 1 /\ Snapshot(kind, admitted).kind = kind
<1>1. PICK s : s = Snapshot(kind, admitted)
  OBVIOUS
<1>2. s = [kind |-> kind, turn |-> started + 1, admitted |-> admitted, generation |-> generation]
  BY <1>1 DEF Snapshot, RunTurn
<1>3. started + 1 \in Nat /\ generation \in Nat
  BY DEF TypeOK, ContextTypeOK, MemoryTypeOK
<1>4. s \in Snapshots /\ s.turn = started + 1 /\ s.kind = kind
  BY <1>2, <1>3 DEF Snapshots
<1>5. s # NoSnapshot
  BY <1>4 DEF NoSnapshot
<1> QED
  BY <1>1, <1>4, <1>5

\* A prepared context waits for its commit.
LEMMA Prepared ==
  ASSUME IInv, NEW kind \in {"new", "frozen", "compaction"}, NEW admitted \in SUBSET Admissions,
         handler \in {"prepare", "compact"}, kind = "frozen" => started > 0,
         snapshot' = Snapshot(kind, admitted), handler' = "bind",
         UNCHANGED <<memoryVars, session, attempt, status, started, completed, epochs, identity, exact, call, active>>
  PROVE  IInv'
<1>1. /\ snapshot' \in Snapshots /\ snapshot' # NoSnapshot /\ snapshot'.turn = started + 1 /\ snapshot'.kind = kind
  BY SnapshotIs DEF IInv
<1>2. CallFacts'
  BY SameCall
<1>3. ContextTypeOK'
  BY <1>1 DEF IInv, TypeOK, ContextTypeOK, Handlers
<1>4. ContextFacts'
  <2>1. NoSnapshot' = NoSnapshot
    BY DEF NoSnapshot
  <2> QED
    BY <1>1, <2>1 DEF IInv, ContextFacts, Settled, memoryVars
<1> QED
  BY <1>2, <1>3, <1>4, SameLedger

\* A step of a handler that does not reach the ledger and binds nothing.
LEMMA PlainStep ==
  ASSUME IInv, UNCHANGED <<memoryVars, session, attempt, started, epochs>>,
         handler' \in Handlers \ {"bind", "dispatch"}, snapshot' \in Snapshots \cup {NoSnapshot},
         status' \in {"none", "inflight", "awaiting", "completed", "failed", "unknown"},
         exact' \in BOOLEAN, active' \in BOOLEAN,
         call' \in {"none", "running", "completed", "failed", "unknown"},
         session = "deleted" => handler' = "none" /\ Settled' /\ ~active', CallFacts'
  PROVE  IInv'
<1>1. ContextTypeOK'
  <2>1. NoSnapshot' = NoSnapshot
    BY DEF NoSnapshot
  <2> QED
    BY <2>1 DEF IInv, TypeOK, ContextTypeOK
<1>2. ContextFacts'
  BY DEF IInv, ContextFacts, memoryVars
<1> QED
  BY <1>1, <1>2, SameLedger

\* Every memory command of the user keeps the invariant.
LEMMA UserSteps ==
  ASSUME IInv, UserMemoryCommand PROVE IInv'
<1>0. TypeOK /\ LedgerFacts /\ Authored \in Memories /\ Authored # Proposal
  BY MemoryNamesAssumption DEF IInv
<1>1. ASSUME NEW v \in Verdicts("user"), RememberMemory(v) PROVE IInv'
  <2>1. PICK batch : batch = PlanCreate(Authored, Workspace, UserDraft(0), v)
    OBVIOUS
  <2>2. /\ AppendMemoryBatch(Authored, batch) /\ UNCHANGED contextVars /\ handler = "none" /\ ~Exists(Authored)
    BY <1>1, <2>1 DEF RememberMemory, MemoryMutationReady, Serving, CreatePlanned
  <2>3. Effective(Authored, batch)
    BY <1>0, <2>1, <2>2, RememberIsEffective
  <2> QED
    BY <1>0, <2>2, <2>3, UserCommand
<1>2. ASSUME NEW v \in Verdicts("import"), ImportMemory(v) PROVE IInv'
  <2>1. PICK draft : draft = UntrustedDraft("import", NoSession, FALSE)
    OBVIOUS
  <2>2. PICK batch : batch = PlanCreate(Authored, Workspace, draft, v)
    OBVIOUS
  <2>3. /\ AppendMemoryBatch(Authored, batch) /\ UNCHANGED contextVars /\ handler = "none" /\ ~Exists(Authored)
    BY <1>2, <2>1, <2>2 DEF ImportMemory, MemoryMutationReady, Serving, CreatePlanned
  <2>4. draft \in Drafts /\ draft.origin # "none" /\ draft.supersedes = 0 /\ ~draft.excerpt /\ draft.origin # "user"
    BY <2>1 DEF UntrustedDraft, NoDraft, Drafts, Origins, Sources
  <2>5. ~IsExplicitAccepted(draft, v) /\ Workspace \in Scopes
    BY <2>4 DEF IsExplicitAccepted, Scopes
  <2>6. Effective(Authored, batch)
    BY <1>0, <2>2, <2>3, <2>4, <2>5, CreateIsEffective
  <2> QED
    BY <1>0, <2>3, <2>6, UserCommand
<1>3. ASSUME NEW m \in Memories, DeleteMemory(m) PROVE IInv'
  <2>1. PICK r : r = Len(items[m].revisions)
    OBVIOUS
  <2>2. PICK batch : batch = PlanSingle("MemoryDeleted", r)
    OBVIOUS
  <2>3. /\ AppendMemoryBatch(m, batch) /\ UNCHANGED contextVars /\ handler = "none" /\ SinglePlanned(m, r, Deletable)
    BY <1>3, <2>1, <2>2 DEF DeleteMemory, MemoryMutationReady, Serving
  <2>4. Exists(m) /\ r \in DOMAIN items[m].revisions
    BY <2>3 DEF SinglePlanned
  <2>5. Effective(m, batch)
    BY <1>0, <2>2, <2>3, <2>4, DeleteIsEffective
  <2> QED
    BY <2>3, <2>4, <2>5, UserCommand
<1>4. ASSUME NEW m \in Memories, NEW r \in 1..MaxRevisions, ReviseMemory(m, r) PROVE IInv'
  <2>1. PICK batch : batch = PlanRevise(m, r)
    OBVIOUS
  <2>2. /\ AppendMemoryBatch(m, batch) /\ UNCHANGED contextVars /\ handler = "none" /\ RevisePlanned(m, r, "accepted")
    BY <1>4, <2>1 DEF ReviseMemory, MemoryMutationReady, Serving
  <2>3. Exists(m) /\ r \in DOMAIN items[m].revisions
    BY <2>2 DEF RevisePlanned
  <2>4. Effective(m, batch)
    BY <1>0, <2>1, <2>2, <2>3, ReviseIsEffective
  <2> QED
    BY <2>2, <2>3, <2>4, UserCommand
<1>5. ASSUME NEW m \in Memories, NEW r \in 1..MaxRevisions, ApproveMemoryProposal(m, r) PROVE IInv'
  <2>1. PICK batch : batch = PlanApprove(m, r)
    OBVIOUS
  <2>2. /\ AppendMemoryBatch(m, batch) /\ UNCHANGED contextVars /\ handler = "none" /\ ApprovePlanned(m, r, "accepted")
    BY <1>5, <2>1 DEF ApproveMemoryProposal, MemoryMutationReady, Serving
  <2>3. Exists(m) /\ r \in DOMAIN items[m].revisions
    BY <2>2 DEF ApprovePlanned
  <2>4. Effective(m, batch)
    BY <1>0, <2>1, <2>2, <2>3, ApproveIsEffective
  <2> QED
    BY <2>2, <2>3, <2>4, UserCommand
<1>6. ASSUME NEW m \in Memories, NEW r \in 1..MaxRevisions, RejectMemoryProposal(m, r) PROVE IInv'
  <2>1. PICK batch : batch = PlanSingle("RevisionRejected", r)
    OBVIOUS
  <2>2. /\ AppendMemoryBatch(m, batch) /\ UNCHANGED contextVars /\ handler = "none" /\ SinglePlanned(m, r, {"proposed"})
    BY <1>6, <2>1 DEF RejectMemoryProposal, MemoryMutationReady, Serving
  <2>3. Exists(m) /\ r \in DOMAIN items[m].revisions
    BY <2>2 DEF SinglePlanned
  <2>4. Effective(m, batch)
    BY <1>0, <2>1, <2>2, <2>3, RejectIsEffective
  <2> QED
    BY <2>2, <2>3, <2>4, UserCommand
<1>7. ASSUME NEW m \in Memories, NEW r \in 1..MaxRevisions, RetractMemory(m, r) PROVE IInv'
  <2>1. PICK batch : batch = PlanSingle("MemoryRetracted", r)
    OBVIOUS
  <2>2. /\ AppendMemoryBatch(m, batch) /\ UNCHANGED contextVars /\ handler = "none" /\ SinglePlanned(m, r, {"active"})
    BY <1>7, <2>1 DEF RetractMemory, MemoryMutationReady, Serving
  <2>3. Exists(m) /\ r \in DOMAIN items[m].revisions
    BY <2>2 DEF SinglePlanned
  <2>4. Effective(m, batch)
    BY <1>0, <2>1, <2>2, <2>3, RetractIsEffective
  <2> QED
    BY <2>2, <2>3, <2>4, UserCommand
<1> QED
  BY <1>1, <1>2, <1>3, <1>4, <1>5, <1>6, <1>7 DEF UserMemoryCommand

\* A proposal of a handler: the memory did not exist, and does.
LEMMA HandlerProposal ==
  ASSUME IInv, NEW m \in Memories, NEW batch, Effective(m, batch), AppendMemoryBatch(m, batch),
         handler \in {"prepare", "propose"}, handler' \in {"compact", "proposed"},
         snapshot' = snapshot,
         UNCHANGED <<session, attempt, status, started, epochs, exact, call, active>>, CallFacts'
  PROVE  IInv'
<1>1. session = "open"
  BY DEF IInv, ContextFacts, TypeOK, ContextTypeOK
<1>2. MemoryTypeOK' /\ SameTurns
  BY AppendTypes DEF IInv
<1>3. LedgerFacts' /\ TurnFacts'
  BY AppendLedger, AppendTurns DEF IInv
<1>4. ContextTypeOK'
  <2>1. NoSnapshot' = NoSnapshot
    BY DEF NoSnapshot
  <2> QED
    BY <2>1 DEF IInv, TypeOK, ContextTypeOK, Handlers
<1>5. ContextFacts'
  <2>1. started > 0 => \E i \in DOMAIN turns' : turns'[i].attempt = attempt /\ turns'[i].turn = started
    BY <1>1, <1>2 DEF IInv, ContextFacts, SameTurns
  <2> QED
    BY <1>1, <2>1 DEF ContextFacts
<1> QED
  BY <1>2, <1>3, <1>4, <1>5 DEF IInv, TypeOK

\* So does the proposal of a compaction,
LEMMA CompactionStep ==
  ASSUME IInv, NEW x \in Excerpts, CreateCompactionProposal(x) PROVE IInv'
<1>0. TypeOK /\ LedgerFacts /\ Compaction \in Memories /\ Compaction # Proposal /\ x \in BOOLEAN
  BY MemoryNamesAssumption, ExcerptsAssumption DEF IInv
<1>1. PICK draft : draft = CompactionDraft(x)
  OBVIOUS
<1>2. PICK batch : batch = PlanCreate(Compaction, Session, draft, "needs_review")
  OBVIOUS
<1>3. /\ AppendMemoryBatch(Compaction, batch) /\ handler = "prepare" /\ handler' = "compact" /\ ~Exists(Compaction)
      /\ UNCHANGED <<session, attempt, status, started, epochs, exact, call, active>> /\ snapshot' = snapshot
  BY <1>1, <1>2 DEF CreateCompactionProposal, Compacts, CreatePlanned
<1>4. draft \in Drafts /\ draft.origin # "none" /\ draft.supersedes = 0 /\ draft.origin # "user"
  BY <1>0, <1>1 DEF CompactionDraft, UntrustedDraft, NoDraft, Drafts, Origins, Sources
<1>5. ~IsExplicitAccepted(draft, "needs_review") /\ Session \in Scopes
  BY <1>4 DEF IsExplicitAccepted, Scopes
<1>6. session # "deleted"
  BY <1>3 DEF IInv, ContextFacts
<1>7. Effective(Compaction, batch)
  BY <1>0, <1>2, <1>3, <1>4, <1>5, <1>6, CreateIsEffective
<1>8. items'[Proposal] = items[Proposal]
  BY <1>0, <1>3, MemoryNamesAssumption DEF AppendMemoryBatch, TypeOK, MemoryTypeOK
<1>9. CallFacts'
  BY <1>3, <1>8 DEF IInv, CallFacts, ToolOutcomeMatchesLedger, Exists
<1> QED
  BY <1>0, <1>3, <1>7, <1>9, HandlerProposal

\* the proposal of the tool,
LEMMA ProposalStep ==
  ASSUME IInv, NEW s \in Scopes, NEW x \in Excerpts, PersistMemoryProposal(s, x) PROVE IInv'
<1>0. TypeOK /\ LedgerFacts /\ Proposal \in Memories /\ x \in BOOLEAN
  BY MemoryNamesAssumption, ExcerptsAssumption DEF IInv
<1>1. PICK draft : draft = UntrustedDraft("tool", Session, x)
  OBVIOUS
<1>2. PICK batch : batch = PlanCreate(Proposal, s, draft, "needs_review")
  OBVIOUS
<1>3. /\ AppendMemoryBatch(Proposal, batch) /\ handler = "propose" /\ handler' = "proposed" /\ ~Exists(Proposal)
      /\ UNCHANGED <<session, attempt, status, started, epochs, exact, call, active>> /\ snapshot' = snapshot
  BY <1>1, <1>2 DEF PersistMemoryProposal, CreatePlanned
<1>4. draft \in Drafts /\ draft.origin # "none" /\ draft.supersedes = 0 /\ draft.origin = "tool"
  BY <1>0, <1>1 DEF UntrustedDraft, NoDraft, Drafts, Origins, Sources
<1>5. ~IsExplicitAccepted(draft, "needs_review")
  BY <1>4 DEF IsExplicitAccepted
<1>6. session # "deleted"
  BY <1>3 DEF IInv, ContextFacts
<1>7. PICK after : after = Projected(items[Proposal], batch, Len(batch))
  OBVIOUS
<1>8. /\ Effective(Proposal, batch) /\ items[Proposal] = Absent
      /\ Len(batch) = 2 /\ batch[1].kind = "MemoryCreated" /\ batch[1].draft = draft
      /\ batch[2].kind = "RevisionValidated"
      /\ after.revisions[1].content /\ DOMAIN after.revisions = {1}
  BY <1>0, <1>2, <1>3, <1>4, <1>5, <1>6, <1>7, CreateIsEffective
<1>9. items'[Proposal] = after /\ after.sequence > 0
  BY <1>0, <1>3, <1>7, <1>8 DEF AppendMemoryBatch, TypeOK, MemoryTypeOK, Effective
<1>10. ledger'[Proposal] = batch
  <2>1. ledger[Proposal] = <<>>
    BY <1>0, <1>8 DEF LedgerFacts, Absent
  <2>2. batch \in Seq(Operations)
    BY <1>8 DEF Effective
  <2>3. <<>> \o batch = batch
    BY <2>2
  <2> QED
    BY <1>0, <1>3, <2>1, <2>3 DEF AppendMemoryBatch, TypeOK, MemoryTypeOK
<1>11. ExactProposalCommitted(Proposal, "tool")'
  <2>1. \A i \in DOMAIN batch : batch[i] # Activated(1)
    <3>1. batch \in Seq(Operations)
      BY <1>8 DEF Effective
    <3>2. Activated(1).kind = "RevisionActivated"
      BY DEF Activated, Operation
    <3>3. \A i \in DOMAIN batch : i \in {1, 2}
      BY <1>8, <3>1
    <3>4. \A i \in DOMAIN batch : batch[i].kind # "RevisionActivated"
      BY <1>8, <3>3
    <3> QED
      BY <3>2, <3>4
  <2>2. HasContent(Proposal, 1)'
    BY <1>8, <1>9 DEF HasContent
  <2>3. Len(ledger'[Proposal]) >= 2 /\ \A i \in DOMAIN ledger'[Proposal] : ledger'[Proposal][i] # Activated(1)
    BY <1>8, <1>10, <2>1, SMTT(30)
  <2>4. /\ ledger'[Proposal][1].kind = "MemoryCreated" /\ ledger'[Proposal][1].draft.origin = "tool"
        /\ ledger'[Proposal][2].kind = "RevisionValidated"
    BY <1>4, <1>8, <1>10
  <2> QED
    BY <2>2, <2>3, <2>4, Zenon DEF ExactProposalCommitted
<1>12. CallFacts'
  BY <1>3, <1>9, <1>11 DEF IInv, CallFacts, ToolOutcomeMatchesLedger, Exists
<1> QED
  BY <1>0, <1>3, <1>8, <1>12, HandlerProposal

\* fail_context_preparation, wherever the preparation or the commit gave up.
LEMMA FailsClosed ==
  ASSUME IInv, handler \in {"prepare", "bind"}, FailContextPreparation, UNCHANGED memoryVars
  PROVE  IInv'
<1>1. /\ status' = "failed" /\ handler' = "none" /\ active' = FALSE /\ snapshot' = NoSnapshot
      /\ UNCHANGED <<session, attempt, started, epochs, exact, call>>
  BY DEF FailContextPreparation
<1>2. CallFacts'
  BY <1>1, SameCall
<1>3. exact' \in BOOLEAN /\ call' \in {"none", "running", "completed", "failed", "unknown"}
  BY <1>1 DEF IInv, TypeOK, ContextTypeOK
<1> QED
  BY <1>1, <1>2, <1>3, PlainStep DEF Handlers, Settled

\* every other step of a preparation,
LEMMA PrepareSteps ==
  ASSUME IInv, PrepareStep PROVE IInv'
<1>1. CASE PrepareNewContextEpoch
  <2>1. PICK admitted \in Fitting : snapshot' = Snapshot("new", admitted)
    BY <1>1 DEF PrepareNewContextEpoch
  <2>2. admitted \in SUBSET Admissions
    BY FittingAdmissions
  <2> QED
    BY <1>1, <2>1, <2>2, Prepared DEF PrepareNewContextEpoch
<1>2. CASE PrepareFrozenContinuation
  <2>1. started > 0 /\ session = "open" /\ turns \in Seq(Turns)
    BY <1>2 DEF PrepareFrozenContinuation, RunTurn, IInv, TypeOK, ContextTypeOK, MemoryTypeOK, ContextFacts
  <2>2. PICK k \in DOMAIN turns : EpochOf(attempt, started) = turns[k].epoch
    BY <2>1, EpochOfIs DEF IInv, ContextFacts
  <2>3. PICK e : e = EpochOf(attempt, started)
    OBVIOUS
  <2>4. PICK b \in DOMAIN turns : Baseline(e) = turns[b]
    BY <2>1, <2>2, <2>3, BaselineIs
  <2>5. Baseline(e).admitted \in SUBSET Admissions
    <3>1. turns[b] \in Turns
      BY <2>1
    <3> QED
      BY <2>4, <3>1 DEF Turns
  <2>6. PICK admitted \in SUBSET Admissions : admitted = Baseline(e).admitted
    BY <2>5
  <2>7. snapshot' = Snapshot("frozen", admitted)
    BY <1>2, <2>3, <2>6 DEF PrepareFrozenContinuation
  <2> QED
    BY <1>2, <2>1, <2>6, <2>7, Prepared DEF PrepareFrozenContinuation
<1>3. CASE PrepareCompactionEpoch
  <2>1. PICK admitted \in Fitting : snapshot' = Snapshot("compaction", admitted)
    BY <1>3 DEF PrepareCompactionEpoch
  <2>2. admitted \in SUBSET Admissions
    BY FittingAdmissions
  <2> QED
    BY <1>3, <2>1, <2>2, Prepared DEF PrepareCompactionEpoch
<1>4. CASE ReuseCompactionProposal
  <2>1. /\ handler = "prepare" /\ handler' = "compact"
        /\ UNCHANGED <<memoryVars, session, attempt, status, started, epochs, exact, call, active, snapshot>>
    BY <1>4 DEF ReuseCompactionProposal, Compacts
  <2>2. CallFacts'
    BY <2>1, SameCall
  <2>3. session # "deleted"
    BY <2>1 DEF IInv, ContextFacts
  <2>4. /\ exact' \in BOOLEAN /\ active' \in BOOLEAN /\ snapshot' \in Snapshots \cup {NoSnapshot}
        /\ call' \in {"none", "running", "completed", "failed", "unknown"}
        /\ status' \in {"none", "inflight", "awaiting", "completed", "failed", "unknown"}
    BY <2>1 DEF IInv, TypeOK, ContextTypeOK
  <2> QED
    BY <2>1, <2>2, <2>3, <2>4, PlainStep DEF Handlers
<1>5. CASE PreparationFails
  BY <1>5, FailsClosed DEF PreparationFails
<1>6. CASE \E x \in Excerpts : CreateCompactionProposal(x)
  BY <1>6, CompactionStep
<1> QED
  BY <1>1, <1>2, <1>3, <1>4, <1>5, <1>6 DEF PrepareStep

\* the commit of a turn and its dispatch,
LEMMA BindSteps ==
  ASSUME IInv, BindStep PROVE IInv'
<1>1. CASE CommitContextTurnAndBind
  <2>1. /\ handler = "bind" /\ exact' = TRUE /\ handler' = "dispatch" /\ snapshot' = NoSnapshot
        /\ UNCHANGED <<items, ledger, generation, mutationGeneration, tombstones, session, attempt,
                       status, started, completed, identity, call, active>>
    BY <1>1 DEF CommitContextTurnAndBind
  <2>2. /\ turns' \in Seq(Turns) /\ (\E rows : epochs' \in Seq(rows)) /\ TurnFacts'
        /\ Len(turns') = Len(turns) + 1 /\ \A i \in DOMAIN turns : turns'[i] = turns[i]
        /\ turns'[Len(turns')].attempt = attempt /\ turns'[Len(turns')].turn = started + 1
        /\ turns'[Len(turns')].kept = turns'[Len(turns')].admitted
    BY <1>1, CommitKeepsTurns DEF IInv
  <2>3. TypeOK'
    BY <2>1, <2>2 DEF IInv, TypeOK, MemoryTypeOK, ContextTypeOK, Handlers, NoSnapshot
  <2>4. LedgerFacts'
    <3>1. DeletedMemories' = DeletedMemories
      BY <2>1 DEF DeletedMemories
    <3> QED
      BY <2>1, <3>1 DEF IInv, LedgerFacts, SoundItem, ErasedItem, QuotesNothing, LastState, StateOf
  <2>5. session = "open"
    BY <2>1 DEF IInv, ContextFacts, TypeOK, ContextTypeOK
  <2>6. ContextFacts'
    <3>1. turns' # <<>> /\ DOMAIN turns \subseteq DOMAIN turns'
      BY <2>2 DEF IInv, TypeOK, MemoryTypeOK
    <3>2. started > 0 => \E i \in DOMAIN turns' : turns'[i].attempt = attempt /\ turns'[i].turn = started
      BY <2>2, <2>5, <3>1 DEF IInv, ContextFacts
    <3> QED
      BY <2>1, <2>2, <2>5, <3>1, <3>2 DEF ContextFacts, Last
  <2>7. CallFacts'
    BY <2>1 DEF IInv, CallFacts, ToolOutcomeMatchesLedger, Exists
  <2> QED
    BY <2>2, <2>3, <2>4, <2>6, <2>7 DEF IInv
<1>2. CASE CommitRefused
  BY <1>2, FailsClosed DEF CommitRefused
<1>3. CASE DispatchTurn
  <2>1. /\ handler = "dispatch" /\ started' = started + 1 /\ active' = TRUE /\ exact' = FALSE /\ handler' = "none"
        /\ UNCHANGED <<memoryVars, session, attempt, status, epochs, call, snapshot>>
    BY <1>3 DEF DispatchTurn
  <2>2. CallFacts'
    BY <2>1, SameCall
  <2>3. ContextTypeOK'
    <3>1. started \in Nat /\ handler' \in Handlers
      BY <2>1 DEF IInv, TypeOK, ContextTypeOK, Handlers
    <3>2. started' \in Nat
      BY <2>1, <3>1
    <3>4. active' \in BOOLEAN /\ exact' \in BOOLEAN
      BY <2>1, Zenon
    <3>3. NoSnapshot' = NoSnapshot
      BY DEF NoSnapshot
    <3> QED
      BY <2>1, <3>1, <3>2, <3>3, <3>4 DEF IInv, TypeOK, ContextTypeOK
  <2>4. ContextFacts'
    <3>1. Len(turns) \in DOMAIN turns
      BY <2>1 DEF IInv, ContextFacts, TypeOK, MemoryTypeOK
    <3>2. turns[Len(turns)].attempt = attempt /\ turns[Len(turns)].turn = started + 1 /\ session # "deleted"
      BY <2>1 DEF IInv, ContextFacts, Last
    <3>3. turns' = turns
      BY <2>1 DEF memoryVars
    <3> QED
      BY <2>1, <3>1, <3>2, <3>3 DEF ContextFacts
  <2> QED
    BY <2>1, <2>2, <2>3, <2>4, SameLedger
<1> QED
  BY <1>1, <1>2, <1>3 DEF BindStep

\* a pause for tools and what follows it,
LEMMA ToolSteps ==
  ASSUME IInv, ToolStep PROVE IInv'
<1>0. /\ exact \in BOOLEAN /\ active \in BOOLEAN /\ snapshot \in Snapshots \cup {NoSnapshot}
      /\ call \in {"none", "running", "completed", "failed", "unknown"}
      /\ status \in {"none", "inflight", "awaiting", "completed", "failed", "unknown"}
      /\ session = "deleted" => handler = "none" /\ ~active
  BY DEF IInv, TypeOK, ContextTypeOK, ContextFacts
<1>1. CASE PauseForTools
  <2>1. /\ handler = "none" /\ active /\ status' = "awaiting"
        /\ UNCHANGED <<memoryVars, session, attempt, started, epochs, exact, active, snapshot>>
        /\ \/ call = "none" /\ call' = "running" /\ handler' = "propose"
           \/ call' = call /\ handler' = "resume"
    BY <1>1 DEF PauseForTools, Streaming, Serving
  <2>2. CallFacts'
    <3>1. items' = items
      BY <2>1 DEF memoryVars
    <3> QED
      BY <2>1, <3>1 DEF IInv, CallFacts, ToolOutcomeMatchesLedger, Exists
  <2> QED
    BY <1>0, <2>1, <2>2, PlainStep DEF Handlers
<1>2. CASE ProposalRejected
  <2>1. /\ handler = "propose" /\ call' = "failed" /\ handler' = "resume"
        /\ UNCHANGED <<memoryVars, session, attempt, status, started, epochs, exact, active, snapshot>>
    BY <1>2 DEF ProposalRejected
  <2>2. CallFacts'
    <3>1. items' = items
      BY <2>1 DEF memoryVars
    <3> QED
      BY <2>1, <3>1 DEF IInv, CallFacts, ToolOutcomeMatchesLedger, Exists
  <2> QED
    BY <1>0, <2>1, <2>2, PlainStep DEF Handlers
<1>3. CASE CompleteToolCall
  <2>1. /\ handler = "proposed" /\ call' = "completed" /\ handler' = "resume"
        /\ UNCHANGED <<memoryVars, session, attempt, status, started, epochs, exact, active, snapshot>>
    BY <1>3 DEF CompleteToolCall
  <2>2. CallFacts'
    <3>1. items' = items
      BY <2>1 DEF memoryVars
    <3> QED
      BY <2>1, <3>1 DEF IInv, CallFacts, ToolOutcomeMatchesLedger, Exists
  <2> QED
    BY <1>0, <2>1, <2>2, PlainStep DEF Handlers
<1>4. CASE ResumeAfterTools
  <2>1. /\ handler \in {"none", "resume"} /\ (handler = "none" => active) /\ status' = "inflight" /\ handler' = "prepare"
        /\ UNCHANGED <<memoryVars, session, attempt, started, epochs, exact, call, active, snapshot>>
    BY <1>4 DEF ResumeAfterTools, Serving
  <2>2. CallFacts'
    BY <2>1, SameCall
  <2> QED
    BY <1>0, <2>1, <2>2, PlainStep DEF Handlers
<1>5. CASE \E s \in Scopes, x \in Excerpts : PersistMemoryProposal(s, x)
  BY <1>5, ProposalStep
<1> QED
  BY <1>1, <1>2, <1>3, <1>4, <1>5 DEF ToolStep

\* the life of the attempt and of the session,
LEMMA SessionSteps ==
  ASSUME IInv, SessionStep PROVE IInv'
<1>0. /\ exact \in BOOLEAN /\ active \in BOOLEAN /\ snapshot \in Snapshots \cup {NoSnapshot}
      /\ call \in {"none", "running", "completed", "failed", "unknown"}
      /\ status \in {"none", "inflight", "awaiting", "completed", "failed", "unknown"}
      /\ session = "deleted" => handler = "none" /\ ~active /\ Settled
  BY DEF IInv, TypeOK, ContextTypeOK, ContextFacts
<1>1. CASE StartAttempt
  <2>1. /\ handler = "none" /\ session = "open" /\ attempt' = attempt + 1 /\ status' = "inflight" /\ started' = 0
        /\ handler' = "prepare" /\ UNCHANGED <<memoryVars, session, epochs, exact, call, active, snapshot>>
    BY <1>1 DEF StartAttempt, Serving
  <2>2. CallFacts'
    BY <2>1, SameCall
  <2>3. ContextTypeOK'
    BY <2>1 DEF IInv, TypeOK, ContextTypeOK, Handlers, NoSnapshot
  <2>4. ContextFacts'
    BY <2>1 DEF ContextFacts
  <2> QED
    BY <2>1, <2>2, <2>3, <2>4, SameLedger
<1>2. CASE AttemptCompletes
  <2>1. /\ handler = "none" /\ active /\ status' = "completed" /\ active' = FALSE
        /\ UNCHANGED <<memoryVars, session, attempt, started, epochs, exact, call, handler, snapshot>>
    BY <1>2 DEF AttemptCompletes, Streaming, Serving
  <2>2. CallFacts'
    BY <2>1, SameCall
  <2> QED
    BY <1>0, <2>1, <2>2, PlainStep DEF Handlers
<1>3. CASE AttemptFails
  <2>1. /\ handler = "none" /\ active /\ status' = "failed" /\ active' = FALSE
        /\ UNCHANGED <<memoryVars, session, attempt, started, epochs, exact, call, handler, snapshot>>
    BY <1>3 DEF AttemptFails, Streaming, Serving
  <2>2. CallFacts'
    BY <2>1, SameCall
  <2> QED
    BY <1>0, <2>1, <2>2, PlainStep DEF Handlers
<1>4. CASE EditSession
  <2>1. /\ handler = "none" /\ session = "open" /\ exact' = FALSE
        /\ UNCHANGED <<memoryVars, session, attempt, status, started, epochs, call, active, handler, snapshot>>
    BY <1>4 DEF EditSession, Serving
  <2>2. CallFacts'
    BY <2>1, SameCall
  <2> QED
    BY <1>0, <2>1, <2>2, PlainStep DEF Handlers
<1>5. CASE DeleteSession
  <2>1. /\ handler = "none" /\ ~active /\ Settled /\ EraseSessionMemoryAndEvidence /\ session' = "deleted" /\ epochs' = <<>>
        /\ UNCHANGED <<attempt, status, started, exact, call, active, handler, snapshot>>
    BY <1>5 DEF DeleteSession, Serving
  <2>2. MemoryTypeOK' /\ LedgerFacts' /\ \A m \in Memories : items'[m].sequence = items[m].sequence
    BY <2>1, SessionErased DEF IInv
  <2>3. turns' = <<>>
    BY <2>1 DEF EraseSessionMemoryAndEvidence
  <2>4. ContextTypeOK'
    <3>1. epochs' \in Seq({})
      BY <2>1
    <3> QED
      BY <2>1, <3>1 DEF IInv, TypeOK, ContextTypeOK, NoSnapshot
  <2>5. TurnFacts'
    <3>1. \A i \in DOMAIN turns' : FALSE
      BY <2>3
    <3> QED
      BY <3>1 DEF TurnFacts, EpochIsFrozen
  <2>6. ContextFacts'
    BY <2>1, <2>3 DEF ContextFacts, Settled
  <2>7. CallFacts'
    <3>1. Exists(Proposal)' <=> Exists(Proposal)
      BY <2>2, MemoryNamesAssumption DEF Exists
    <3> QED
      BY <2>1, <3>1 DEF IInv, CallFacts, ToolOutcomeMatchesLedger
  <2> QED
    BY <2>2, <2>4, <2>5, <2>6, <2>7 DEF IInv, TypeOK
<1> QED
  BY <1>1, <1>2, <1>3, <1>4, <1>5 DEF SessionStep

\* and a crash with its recovery.
LEMMA RecoverySteps ==
  ASSUME IInv, RecoveryStep PROVE IInv'
<1>1. CASE CrashAndRecover
  <2>1. /\ status' = RecoveredStatus /\ call' = RecoveredCall /\ active' = (status = "awaiting")
        /\ handler' = "none" /\ snapshot' = NoSnapshot
        /\ UNCHANGED <<memoryVars, session, attempt, started, epochs, exact>>
    BY <1>1 DEF CrashAndRecover
  <2>2. /\ exact \in BOOLEAN /\ status \in {"none", "inflight", "awaiting", "completed", "failed", "unknown"}
        /\ call \in {"none", "running", "completed", "failed", "unknown"} /\ handler \in Handlers
    BY DEF IInv, TypeOK, ContextTypeOK
  <2>3. /\ status' \in {"none", "inflight", "awaiting", "completed", "failed", "unknown"}
        /\ status # "inflight" => status' = status
    BY <2>1, <2>2 DEF RecoveredStatus, ProviderDispatchReady
  <2>4. /\ call' \in {"none", "completed", "failed", "unknown"}
        /\ call # "running" => call' = call
        /\ call = "running" => call' = IF ExactProposalCommitted(Proposal, "tool") THEN "completed" ELSE "unknown"
    BY <2>1, <2>2 DEF RecoveredCall
  <2>5. CallFacts'
    <3>1. items' = items
      BY <2>1 DEF memoryVars
    <3>2. handler = "propose" => ~ExactProposalCommitted(Proposal, "tool")
      <4> SUFFICES ASSUME handler = "propose" PROVE ~(Len(ledger[Proposal]) >= 2)
        BY DEF ExactProposalCommitted
      <4>1. Proposal \in Memories /\ items[Proposal].sequence \in Nat
        BY MemoryNamesAssumption DEF IInv, TypeOK, MemoryTypeOK, Items
      <4>2. items[Proposal].sequence = 0
        BY <4>1 DEF IInv, CallFacts, Exists
      <4>3. ledger[Proposal] = <<>>
        BY <4>1, <4>2 DEF IInv, LedgerFacts
      <4> QED
        BY <4>3
    <3>3. Exists(Proposal)' <=> Exists(Proposal)
      BY <3>1 DEF Exists
    <3> QED
      BY <2>1, <2>4, <3>2, <3>3 DEF IInv, CallFacts, ToolOutcomeMatchesLedger
  <2>6. session = "deleted" => Settled' /\ ~active'
    BY <2>1, <2>3 DEF IInv, ContextFacts, Settled
  <2> QED
    BY <2>1, <2>2, <2>3, <2>4, <2>5, <2>6, PlainStep DEF Handlers
<1>2. CASE ResumeBoundTurn
  <2>1. /\ handler = "none" /\ Pending /\ started' = started + 1 /\ active' = TRUE /\ exact' = FALSE
        /\ UNCHANGED <<memoryVars, session, attempt, status, epochs, call, handler, snapshot>>
    BY <1>2 DEF ResumeBoundTurn, Serving, ExactPendingContext
  <2>2. CallFacts'
    BY <2>1, SameCall
  <2>3. ContextTypeOK'
    <3>1. started \in Nat /\ handler' \in Handlers
      BY <2>1 DEF IInv, TypeOK, ContextTypeOK, Handlers
    <3>2. started' \in Nat
      BY <2>1, <3>1
    <3>4. active' \in BOOLEAN /\ exact' \in BOOLEAN
      BY <2>1, Zenon
    <3>3. NoSnapshot' = NoSnapshot
      BY DEF NoSnapshot
    <3> QED
      BY <2>1, <3>1, <3>2, <3>3, <3>4 DEF IInv, TypeOK, ContextTypeOK
  <2>4. ContextFacts'
    <3>1. Len(turns) \in DOMAIN turns
      BY <2>1 DEF Pending, IInv, TypeOK, MemoryTypeOK
    <3>2. turns[Len(turns)].attempt = attempt /\ turns[Len(turns)].turn = started + 1 /\ session # "deleted"
      BY <2>1 DEF IInv, ContextFacts, Last, Pending
    <3>3. turns' = turns
      BY <2>1 DEF memoryVars
    <3> QED
      BY <2>1, <3>1, <3>2, <3>3 DEF ContextFacts
  <2> QED
    BY <2>1, <2>2, <2>3, <2>4, SameLedger
<1> QED
  BY <1>1, <1>2 DEF RecoveryStep

-----------------------------------------------------------------------------
(* Theorems. *)

\* The invariant the others rest on: one item of the ledger is sound, the turns
\* agree with the ledger, and the running handler with both.
THEOREM ContextInvariant == Spec => []IInv
<1>1. Init => IInv
  <2> SUFFICES ASSUME Init PROVE IInv
    OBVIOUS
  <2>1. /\ items = [m \in Memories |-> Absent] /\ ledger = [m \in Memories |-> <<>>]
        /\ generation = 0 /\ mutationGeneration = 0 /\ tombstones = {} /\ turns = <<>>
        /\ session = "open" /\ attempt = 0 /\ status = "none" /\ started = 0 /\ epochs = <<>>
        /\ exact = FALSE /\ call = "none" /\ active = FALSE /\ handler = "none" /\ snapshot = NoSnapshot
    BY DEF Init, MemoryInit
  <2>2. Absent \in Items
    BY DEF Absent, Items, Lifecycles
  <2>3. SoundItem(Absent)
    <3>1. Absent.revisions = <<>> /\ Absent.latest = 0 /\ Absent.sequence = 0 /\ Absent.active = 0 /\ Absent.fts = {}
      BY DEF Absent
    <3>2. Len(Absent.revisions) = 0 /\ \A r \in 1 .. Len(Absent.revisions) - 1 : FALSE
      BY <3>1
    <3> QED
      BY <3>1, <3>2 DEF SoundItem
  <2>4. \A i \in DOMAIN turns : FALSE
    BY <2>1
  <2>5. DeletedMemories = {}
    <3>1. \A m \in Memories : \A i \in DOMAIN ledger[m] : FALSE
      BY <2>1
    <3> QED
      BY <2>1, <3>1 DEF DeletedMemories
  <2>6. TypeOK
    <3>1. MemoryTypeOK
      BY <2>1, <2>2 DEF MemoryTypeOK
    <3>2. epochs \in Seq({})
      BY <2>1
    <3> QED
      BY <2>1, <3>1, <3>2 DEF TypeOK, ContextTypeOK, Handlers
  <2>7. LedgerFacts
    BY <2>1, <2>3, <2>5 DEF LedgerFacts
  <2>8. TurnFacts
    BY <2>4 DEF TurnFacts, EpochIsFrozen
  <2>9. ContextFacts
    BY <2>1 DEF ContextFacts
  <2>10. CallFacts
    <3>1. ~Exists(Proposal)
      BY <2>1, MemoryNamesAssumption DEF Exists, Absent
    <3> QED
      BY <2>1, <3>1 DEF CallFacts, ToolOutcomeMatchesLedger
  <2> QED
    BY <2>6, <2>7, <2>8, <2>9, <2>10 DEF IInv
<1>2. IInv /\ [Next]_vars => IInv'
  <2> SUFFICES ASSUME IInv, [Next]_vars PROVE IInv'
    OBVIOUS
  <2>1. CASE Next
    BY <2>1, UserSteps, PrepareSteps, BindSteps, ToolSteps, SessionSteps, RecoverySteps DEF Next
  <2>2. CASE UNCHANGED vars
    <3>1. /\ UNCHANGED memoryVars
          /\ UNCHANGED <<session, attempt, status, started, epochs, exact, call, active, handler, snapshot>>
      BY <2>2 DEF vars, contextVars
    <3>2. ContextTypeOK'
      BY <3>1 DEF IInv, TypeOK, ContextTypeOK, NoSnapshot
    <3>3. items' = items /\ ledger' = ledger /\ turns' = turns
      BY <3>1 DEF memoryVars
    <3>4. ContextFacts'
      BY <3>1, <3>3 DEF IInv, ContextFacts, Settled, NoSnapshot
    <3>5. CallFacts'
      BY <3>1, <3>3 DEF IInv, CallFacts, ToolOutcomeMatchesLedger, Exists, ExactProposalCommitted, HasContent
    <3> QED
      BY <3>1, <3>2, <3>4, <3>5, SameLedger
  <2> QED
    BY <2>1, <2>2
<1> QED
  BY <1>1, <1>2, PTL DEF Spec

\* The ledger is sound after any history of proposals, approvals, edits,
\* deletions and an erased session: only the user's revisions are active or
\* indexed, the store accepts every batch the planner produces, and deleted
\* content is in no revision, index or turn (append_memory_batch against
\* plan_memory_command).
THEOREM LedgerSafe == Spec => []LedgerIsSound
<1>1. IInv => LedgerIsSound
  <2> SUFFICES ASSUME IInv PROVE LedgerIsSound
    OBVIOUS
  <2>0. TypeOK /\ LedgerFacts /\ TurnFacts /\ ContextFacts
    BY DEF IInv
  <2>1. OnlyUserRevisionsAreActive
    <3> SUFFICES ASSUME NEW m \in Memories
                 PROVE  /\ items[m].fts = {items[m].active} \ {0}
                        /\ items[m].active # 0 =>
                              /\ items[m].lifecycle = "active"
                              /\ items[m].revisions[items[m].active].origin = "user"
                              /\ HasContent(m, items[m].active)
      BY DEF OnlyUserRevisionsAreActive
    <3>1. SoundItem(items[m]) /\ items[m] \in Items
      BY <2>0 DEF LedgerFacts, TypeOK, MemoryTypeOK
    <3>2. items[m].active # 0 => items[m].active \in DOMAIN items[m].revisions
      BY <3>1 DEF SoundItem, Items
    <3> QED
      BY <3>1, <3>2 DEF SoundItem, HasContent
  <2>2. PlansAreAccepted
    BY <2>0, PlansAccepted
  <2>3. ErasedContentIsGone
    <3>1. ASSUME NEW m \in DeletedMemories
          PROVE  /\ items[m].fts = {} /\ items[m].active = 0
                 /\ \A r \in DOMAIN items[m].revisions : ~items[m].revisions[r].content /\ ~items[m].revisions[r].excerpt
                 /\ \A i \in DOMAIN turns : \A a \in turns[i].admitted :
                       a.memory = m => turns[i].prelude = "erased" /\ a \notin turns[i].kept
      <4>1. m \in Memories
        BY <2>0 DEF DeletedMemories, TypeOK, MemoryTypeOK
      <4>2. ErasedItem(items[m]) /\ SoundItem(items[m])
        BY <2>0, <4>1 DEF LedgerFacts
      <4>3. items[m].active = 0
        BY <4>2 DEF ErasedItem, SoundItem
      <4>4. \A i \in DOMAIN turns : \A a \in turns[i].admitted :
                       a.memory = m => turns[i].prelude = "erased" /\ a \notin turns[i].kept
        <5> SUFFICES ASSUME NEW i \in DOMAIN turns, NEW a \in turns[i].admitted, a.memory = m
                     PROVE  turns[i].prelude = "erased" /\ a \notin turns[i].kept
          OBVIOUS
        <5>1. turns[i].prelude = "erased"
          BY <2>0 DEF TurnFacts
        <5>2. ~HasContent(a.memory, a.revision)
          BY <4>2 DEF HasContent, ErasedItem
        <5> QED
          BY <2>0, <5>1, <5>2 DEF TurnFacts
      <4> QED
        BY <4>2, <4>3, <4>4 DEF ErasedItem
    <3>2. tombstones # {} => EvidenceOfSession = {}
      <4> SUFFICES ASSUME tombstones # {}, NEW x \in EvidenceOfSession PROVE FALSE
        OBVIOUS
      <4>1. x[1] \in Memories /\ x[2] \in DOMAIN items[x[1]].revisions /\ CitesSession(x[1], x[2])
        BY DEF EvidenceOfSession
      <4>2. QuotesNothing(items[x[1]])
        BY <2>0, <4>1 DEF LedgerFacts
      <4> QED
        BY <4>1, <4>2 DEF CitesSession, QuotesNothing
    <3> QED
      BY <3>1, <3>2 DEF ErasedContentIsGone
  <2> QED
    BY <2>1, <2>2, <2>3 DEF LedgerIsSound
<1> QED
  BY <1>1, ContextInvariant, PTL

\* All turns of an epoch belong to one attempt and present the same memory
\* revisions, whatever happens between them (validate_frozen_epoch_continuation).
THEOREM EpochSafe == Spec => []EpochIsFrozen
<1>1. IInv => EpochIsFrozen
  BY DEF IInv, TurnFacts
<1> QED
  BY <1>1, ContextInvariant, PTL

\* The settled proposal call tells what is in the ledger, also across a crash
\* between the two commits (reconcile_committed_memory_proposal).
THEOREM ToolOutcomeSafe == Spec => []ToolOutcomeMatchesLedger
<1>1. IInv => ToolOutcomeMatchesLedger
  BY DEF IInv, CallFacts
<1> QED
  BY <1>1, ContextInvariant, PTL

\* Every request that leaves, fresh or recovered, has all of its admitted bytes
\* (spawn_stream, resume_bound_turn_after_live_catalog).
THEOREM DispatchSafe == Spec => DispatchesRetainedContext
<1> DEFINE Retained ==
      started' = started + 1 =>
          /\ Last(turns).attempt = attempt /\ Last(turns).turn = started'
          /\ \A a \in Last(turns).admitted : HasContent(a.memory, a.revision)
<1>1. IInv /\ [Next]_vars => [Retained]_vars
  <2> SUFFICES ASSUME IInv, Next, started' = started + 1
               PROVE  /\ Last(turns).attempt = attempt /\ Last(turns).turn = started'
                      /\ \A a \in Last(turns).admitted : HasContent(a.memory, a.revision)
    OBVIOUS
  <2>0. started \in Nat /\ started' # started /\ started' # 0
    BY DEF IInv, TypeOK, ContextTypeOK
  <2>1. CASE DispatchTurn
    <3>1. handler = "dispatch"
      BY <2>1 DEF DispatchTurn
    <3>2. /\ turns # <<>> /\ Last(turns).attempt = attempt /\ Last(turns).turn = started + 1
          /\ Last(turns).kept = Last(turns).admitted
      BY <3>1 DEF IInv, ContextFacts
    <3>3. Len(turns) \in DOMAIN turns
      BY <3>2 DEF IInv, TypeOK, MemoryTypeOK
    <3>4. \A a \in Last(turns).kept : HasContent(a.memory, a.revision)
      BY <3>3 DEF IInv, TurnFacts, Last
    <3> QED
      BY <3>2, <3>4
  <2>2. CASE ResumeBoundTurn
    BY <2>2 DEF ResumeBoundTurn, ExactPendingContext, Pending, ContentRetained
  <2>3. CASE UserMemoryCommand
    <3>1. started' = started
      BY <2>3 DEF UserMemoryCommand, RememberMemory, ImportMemory, DeleteMemory, ReviseMemory,
                  ApproveMemoryProposal, RejectMemoryProposal, RetractMemory, contextVars
    <3> QED
      BY <2>0, <3>1
  <2>4. CASE PrepareStep
    <3>1. started' = started
      BY <2>4 DEF PrepareStep, PrepareNewContextEpoch, PrepareFrozenContinuation, PrepareCompactionEpoch,
                  ReuseCompactionProposal, PreparationFails, FailContextPreparation, CreateCompactionProposal
    <3> QED
      BY <2>0, <3>1
  <2>5. CASE CommitContextTurnAndBind \/ CommitRefused
    <3>1. started' = started
      BY <2>5 DEF CommitContextTurnAndBind, CommitRefused, FailContextPreparation
    <3> QED
      BY <2>0, <3>1
  <2>6. CASE ToolStep
    <3>1. started' = started
      BY <2>6 DEF ToolStep, PauseForTools, ProposalRejected, CompleteToolCall, ResumeAfterTools, PersistMemoryProposal
    <3> QED
      BY <2>0, <3>1
  <2>7. CASE SessionStep
    <3>1. started' \in {0, started}
      BY <2>7 DEF SessionStep, StartAttempt, AttemptCompletes, AttemptFails, EditSession, DeleteSession
    <3> QED
      BY <2>0, <3>1
  <2>8. CASE CrashAndRecover
    <3>1. started' = started
      BY <2>8 DEF CrashAndRecover
    <3> QED
      BY <2>0, <3>1
  <2> QED
    BY <2>1, <2>2, <2>3, <2>4, <2>5, <2>6, <2>7, <2>8 DEF Next, BindStep, RecoveryStep
<1> QED
  BY <1>1, ContextInvariant, PTL DEF Spec, DispatchesRetainedContext

-----------------------------------------------------------------------------
(* What a rebuild shows of a history. *)

\* The row of a revision whose sidecars may be gone, and whose excerpt may have
\* gone with a session.
ShownRow(row, retained, erasedBy) ==
    [state |-> row.state, origin |-> row.origin, supersedes |-> row.supersedes, source |-> row.source,
     content |-> row.content /\ retained, excerpt |-> row.excerpt /\ retained /\ erasedBy = NoSession,
     erasedBy |-> erasedBy]

\* The rows of a memory, with the excerpts each session's deletion took.
ShownRows(rows, retained, e) == [i \in DOMAIN rows |-> ShownRow(rows[i], retained, e[i])]

\* A row shown is a row.
LEMMA ShownRowIs ==
  ASSUME NEW row \in Rows, NEW retained \in BOOLEAN, NEW s \in Sources
  PROVE  ShownRow(row, retained, s) \in Rows
<1>1. (row.content /\ retained) \in BOOLEAN /\ (row.excerpt /\ retained /\ s = NoSession) \in BOOLEAN
  BY Zenon
<1>2. /\ row.state \in RevisionStates /\ row.origin \in Origins /\ row.supersedes \in Nat /\ row.source \in Sources
  BY DEF Rows
<1> QED
  BY <1>1, <1>2, Zenon DEF Rows, ShownRow

\* Rows shown are as many rows.
LEMMA ShownRowsAre ==
  ASSUME NEW rows \in Seq(Rows), NEW retained \in BOOLEAN, NEW e \in [Nat -> Sources]
  PROVE  /\ ShownRows(rows, retained, e) \in Seq(Rows) /\ Len(ShownRows(rows, retained, e)) = Len(rows)
         /\ DOMAIN ShownRows(rows, retained, e) = 1..Len(rows)
         /\ \A i \in 1..Len(rows) : ShownRows(rows, retained, e)[i] = ShownRow(rows[i], retained, e[i])
<1>1. DOMAIN rows = 1..Len(rows) /\ Len(rows) \in Nat /\ \A i \in 1..Len(rows) : rows[i] \in Rows
  OBVIOUS
<1>2. \A i \in 1..Len(rows) : e[i] \in Sources
  BY <1>1
<1>3. \A i \in 1..Len(rows) : ShownRow(rows[i], retained, e[i]) \in Rows
  BY <1>1, <1>2, ShownRowIs
<1>4. PICK shown : shown = ShownRows(rows, retained, e)
  OBVIOUS
<1>5. shown = [i \in 1..Len(rows) |-> ShownRow(rows[i], retained, e[i])]
  BY <1>1, <1>4 DEF ShownRows
<1>6. /\ shown \in [1..Len(rows) -> Rows] /\ DOMAIN shown = 1..Len(rows)
      /\ \A i \in 1..Len(rows) : shown[i] = ShownRow(rows[i], retained, e[i])
  BY <1>3, <1>5
<1>7. shown \in Seq(Rows) /\ Len(shown) = Len(rows)
  <2>1. shown \in Seq(Rows)
    BY <1>1, <1>6, FunctionIsSeq
  <2> QED
    BY <1>1, <1>6, <2>1
<1> QED
  BY <1>4, <1>6, <1>7

\* A row is its columns.
LEMMA SameRow ==
  ASSUME NEW a \in Rows, NEW b \in Rows, a.state = b.state, a.origin = b.origin, a.supersedes = b.supersedes,
         a.source = b.source, a.erasedBy = b.erasedBy, a.content <=> b.content, a.excerpt <=> b.excerpt
  PROVE  a = b
  BY DEF Rows

\* Two sequences of rows with the same rows.
LEMMA SameRows ==
  ASSUME NEW s \in Seq(Rows), NEW t \in Seq(Rows), Len(s) = Len(t), \A i \in 1..Len(s) : s[i] = t[i]
  PROVE  s = t
  BY SeqEqual

\* A revision added shows one more row.
LEMMA ShowsAppend ==
  ASSUME NEW rows \in Seq(Rows), NEW row \in Rows, NEW retained \in BOOLEAN, NEW e \in [Nat -> Sources]
  PROVE  ShownRows(Append(rows, row), retained, e)
            = Append(ShownRows(rows, retained, e), ShownRow(row, retained, e[Len(rows) + 1]))
<1>1. PICK longer : longer = Append(rows, row)
  OBVIOUS
<1>2. /\ longer \in Seq(Rows) /\ Len(longer) = Len(rows) + 1 /\ longer[Len(rows) + 1] = row
      /\ \A i \in 1..Len(rows) : longer[i] = rows[i]
  BY <1>1, Appends
<1>3. PICK s : s = ShownRows(longer, retained, e)
  OBVIOUS
<1>4. PICK old : old = ShownRows(rows, retained, e)
  OBVIOUS
<1>5. PICK last : last = ShownRow(row, retained, e[Len(rows) + 1])
  OBVIOUS
<1>6. PICK t : t = Append(old, last)
  OBVIOUS
<1>7. /\ old \in Seq(Rows) /\ Len(old) = Len(rows)
      /\ \A i \in 1..Len(rows) : old[i] = ShownRow(rows[i], retained, e[i])
  BY <1>4, ShownRowsAre
<1>8. /\ s \in Seq(Rows) /\ Len(s) = Len(rows) + 1
      /\ \A i \in 1..Len(rows) + 1 : s[i] = ShownRow(longer[i], retained, e[i])
  <2>1. /\ s \in Seq(Rows) /\ Len(s) = Len(longer)
        /\ \A i \in 1..Len(longer) : s[i] = ShownRow(longer[i], retained, e[i])
    BY <1>2, <1>3, ShownRowsAre
  <2> QED
    BY <1>2, <2>1
<1>9. Len(rows) \in Nat /\ e[Len(rows) + 1] \in Sources
  OBVIOUS
<1>10. last \in Rows
  BY <1>5, <1>9, ShownRowIs
<1>11. /\ t \in Seq(Rows) /\ Len(t) = Len(rows) + 1 /\ t[Len(rows) + 1] = last
       /\ \A i \in 1..Len(rows) : t[i] = old[i]
  BY <1>6, <1>7, <1>10, Appends
<1>12. ASSUME NEW i \in 1..Len(rows) + 1 PROVE s[i] = t[i]
  <2>1. CASE i = Len(rows) + 1
    BY <1>2, <1>5, <1>8, <1>11, <2>1
  <2>2. CASE i \in 1..Len(rows)
    <3>1. s[i] = ShownRow(longer[i], retained, e[i])
      BY <1>8
    <3>2. longer[i] = rows[i] /\ t[i] = old[i] /\ old[i] = ShownRow(rows[i], retained, e[i])
      BY <1>2, <1>7, <1>11, <2>2
    <3> QED
      BY <3>1, <3>2
  <2> QED
    BY <1>9, <2>1, <2>2
<1>13. s = t
  BY <1>8, <1>11, <1>12, SameRows
<1> QED
  BY <1>1, <1>3, <1>4, <1>5, <1>6, <1>13

\* The row inserted by a replay is the shown row of the live one.
LEMMA ShowsInserted ==
  ASSUME NEW draft \in Drafts, NEW retained \in BOOLEAN, NEW s \in Sources
  PROVE  RevisionRow(draft, retained, s) = ShownRow(RevisionRow(draft, TRUE, NoSession), retained, s)
<1>1. PICK row : row = RevisionRow(draft, TRUE, NoSession)
  OBVIOUS
<1>2. draft.excerpt \in BOOLEAN
  BY DEF Drafts
<1>3. /\ row.state = "proposed" /\ row.origin = draft.origin /\ row.supersedes = draft.supersedes
      /\ row.source = draft.source /\ row.content = TRUE
      /\ row.excerpt = (draft.excerpt /\ TRUE /\ NoSession = NoSession)
  BY <1>1 DEF RevisionRow
<1>4. (row.content /\ retained) = retained
  BY <1>3
<1>5. (row.excerpt /\ retained /\ s = NoSession) = (draft.excerpt /\ retained /\ s = NoSession)
  BY <1>2, <1>3
<1> QED
  BY <1>1, <1>3, <1>4, <1>5, Zenon DEF RevisionRow, ShownRow

\* Setting a state commutes with what is shown.
LEMMA ShowsState ==
  ASSUME NEW rows \in Seq(Rows), NEW r \in Nat, NEW state \in RevisionStates,
         NEW retained \in BOOLEAN, NEW e \in [Nat -> Sources]
  PROVE  WithState(ShownRows(rows, retained, e), r, state) = ShownRows(WithState(rows, r, state), retained, e)
<1>0. PICK old : old = ShownRows(rows, retained, e)
  OBVIOUS
<1>1. /\ old \in Seq(Rows) /\ Len(old) = Len(rows) /\ DOMAIN old = 1..Len(rows)
      /\ \A i \in 1..Len(rows) : old[i] = ShownRow(rows[i], retained, e[i])
  BY <1>0, ShownRowsAre
<1>2. CASE r \in 1..Len(rows)
  <2>1. PICK set : StateSet(rows, r, state, set)
    BY DEF StateSet
  <2>2. /\ set \in Seq(Rows) /\ Len(set) = Len(rows)
        /\ \A i \in 1..Len(rows) \ {r} : set[i] = rows[i]
    BY <1>2, <2>1, StateSetIs
  <2>3. set[r] = [rows[r] EXCEPT !.state = state]
    BY <1>2, <2>1 DEF StateSet, WithState
  <2>4. PICK t : t = WithState(old, r, state)
    OBVIOUS
  <2>5. StateSet(old, r, state, t)
    BY <2>4 DEF StateSet
  <2>6. /\ t \in Seq(Rows) /\ Len(t) = Len(rows) /\ \A i \in 1..Len(rows) \ {r} : t[i] = old[i]
    BY <1>1, <1>2, <2>5, StateSetIs
  <2>7. t[r] = [old[r] EXCEPT !.state = state]
    BY <1>1, <1>2, <2>4 DEF WithState
  <2>8. PICK s : s = ShownRows(set, retained, e)
    OBVIOUS
  <2>9. /\ s \in Seq(Rows) /\ Len(s) = Len(rows)
        /\ \A i \in 1..Len(rows) : s[i] = ShownRow(set[i], retained, e[i])
    <3>1. set \in Seq(Rows)
      BY <2>2
    <3>2. /\ s \in Seq(Rows) /\ Len(s) = Len(set)
          /\ \A i \in 1..Len(set) : s[i] = ShownRow(set[i], retained, e[i])
      BY <2>8, <3>1, ShownRowsAre, Zenon
    <3>3. Len(set) = Len(rows)
      BY <2>2
    <3> QED
      BY <3>2, <3>3, Zenon
  <2>10. t[r] = s[r]
    <3>1. rows[r] \in Rows
      BY <1>2
    <3>2. PICK row : row = rows[r]
      OBVIOUS
    <3>3. PICK c : c = (row.content /\ retained)
      OBVIOUS
    <3>4. PICK x : x = (row.excerpt /\ retained /\ e[r] = NoSession)
      OBVIOUS
    <3>5. old[r] = [state |-> row.state, origin |-> row.origin, supersedes |-> row.supersedes, source |-> row.source,
                    content |-> c, excerpt |-> x, erasedBy |-> e[r]]
      BY <1>1, <1>2, <3>2, <3>3, <3>4, Zenon DEF ShownRow
    <3>6. t[r] = [state |-> state, origin |-> row.origin, supersedes |-> row.supersedes, source |-> row.source,
                  content |-> c, excerpt |-> x, erasedBy |-> e[r]]
      BY <2>7, <3>5
    <3>7. PICK after : after = set[r]
      OBVIOUS
    <3>8. /\ after.state = state /\ after.origin = row.origin /\ after.supersedes = row.supersedes
          /\ after.source = row.source /\ after.content = row.content /\ after.excerpt = row.excerpt
      BY <2>3, <3>1, <3>2, <3>7 DEF Rows
    <3>9. s[r] = ShownRow(after, retained, e[r])
      BY <1>2, <2>9, <3>7
    <3> QED
      BY <3>3, <3>4, <3>6, <3>8, <3>9, Zenon DEF ShownRow
  <2>11. \A i \in 1..Len(rows) : t[i] = s[i]
    <3> SUFFICES ASSUME NEW i \in 1..Len(rows), i # r PROVE t[i] = s[i]
      BY <2>10
    <3>1. t[i] = old[i] /\ set[i] = rows[i]
      BY <2>2, <2>6
    <3> QED
      BY <1>1, <2>9, <3>1
  <2>12. t = s
    BY <2>6, <2>9, <2>11, SameRows
  <2> QED
    BY <1>0, <2>1, <2>4, <2>8, <2>12 DEF StateSet
<1>3. CASE r \notin 1..Len(rows)
  <2>1. WithState(old, r, state) = old
    BY <1>1, <1>3 DEF WithState
  <2>2. WithState(rows, r, state) = rows
    BY <1>3 DEF WithState
  <2> QED
    BY <1>0, <2>1, <2>2
<1> QED
  BY <1>2, <1>3

\* Taking every content commutes with what is shown.
LEMMA ShowsEmptied ==
  ASSUME NEW rows \in Seq(Rows), NEW retained \in BOOLEAN, NEW e \in [Nat -> Sources]
  PROVE  Emptied(ShownRows(rows, retained, e)) = ShownRows(Emptied(rows), retained, e)
<1>0. PICK old : old = ShownRows(rows, retained, e)
  OBVIOUS
<1>1. /\ old \in Seq(Rows) /\ Len(old) = Len(rows) /\ DOMAIN old = 1..Len(rows)
      /\ \A i \in 1..Len(rows) : old[i] = ShownRow(rows[i], retained, e[i])
  BY <1>0, ShownRowsAre
<1>2. DOMAIN rows = 1..Len(rows) /\ \A i \in 1..Len(rows) : rows[i] \in Rows
  OBVIOUS
<1>3. ASSUME NEW i \in 1..Len(rows)
      PROVE  WithoutContent(old[i]) = ShownRow(WithoutContent(rows[i]), retained, e[i])
  <2>1. PICK row : row = rows[i]
    OBVIOUS
  <2>2. row \in Rows /\ e[i] \in Sources
    BY <1>2, <2>1
  <2>3. PICK before : before = old[i]
    OBVIOUS
  <2>4. before \in Rows
    BY <1>1, <2>3
  <2>5. before = ShownRow(row, retained, e[i])
    BY <1>1, <2>1, <2>3
  <2>6. /\ before.state = row.state /\ before.origin = row.origin /\ before.supersedes = row.supersedes
        /\ before.source = row.source /\ before.erasedBy = e[i]
    BY <2>5 DEF ShownRow
  <2>7. PICK left : left = WithoutContent(before)
    OBVIOUS
  <2>8. /\ left \in Rows /\ left.state = row.state /\ left.origin = row.origin /\ left.supersedes = row.supersedes
        /\ left.source = row.source /\ left.erasedBy = e[i] /\ ~left.content /\ ~left.excerpt
    BY <2>4, <2>6, <2>7 DEF WithoutContent, Rows
  <2>9. PICK empty : empty = WithoutContent(row)
    OBVIOUS
  <2>10. /\ empty \in Rows /\ empty.state = row.state /\ empty.origin = row.origin /\ empty.supersedes = row.supersedes
         /\ empty.source = row.source /\ ~empty.content /\ ~empty.excerpt
    BY <2>2, <2>9 DEF WithoutContent, Rows
  <2>11. PICK shown : shown = ShownRow(empty, retained, e[i])
    OBVIOUS
  <2>12. /\ shown \in Rows /\ shown.state = row.state /\ shown.origin = row.origin
         /\ shown.supersedes = row.supersedes /\ shown.source = row.source /\ shown.erasedBy = e[i]
    <3>1. shown \in Rows
      BY <2>2, <2>10, <2>11, ShownRowIs
    <3> QED
      BY <2>10, <2>11, <3>1 DEF ShownRow
  <2>13. ~shown.content /\ ~shown.excerpt
    <3>1. shown.content = (empty.content /\ retained)
      BY <2>11 DEF ShownRow
    <3>2. shown.excerpt = (empty.excerpt /\ retained /\ e[i] = NoSession)
      BY <2>11 DEF ShownRow
    <3> QED
      BY <2>10, <3>1, <3>2
  <2>14. left = shown
    BY <2>8, <2>12, <2>13, SameRow
  <2> QED
    BY <2>1, <2>3, <2>7, <2>9, <2>11, <2>14
<1>4. Emptied(old) = [i \in 1..Len(rows) |-> WithoutContent(old[i])]
  BY <1>1 DEF Emptied
<1>5. PICK empty : empty = Emptied(rows)
  OBVIOUS
<1>6. DOMAIN empty = 1..Len(rows) /\ \A i \in 1..Len(rows) : empty[i] = WithoutContent(rows[i])
  BY <1>2, <1>5 DEF Emptied
<1>7. ShownRows(empty, retained, e) = [i \in 1..Len(rows) |-> ShownRow(empty[i], retained, e[i])]
  BY <1>6 DEF ShownRows
<1>8. \A i \in 1..Len(rows) : WithoutContent(old[i]) = ShownRow(empty[i], retained, e[i])
  BY <1>3, <1>6
<1> QED
  BY <1>0, <1>4, <1>5, <1>7, <1>8

\* The operations that insert a revision.
Inserts == {"MemoryCreated", "MemoryRevised", "ProposalApproved"}

\* An item, with or without its sidecars and what sessions' deletions took.
Shown(y, retained, e) ==
    Item(y.scope, y.lifecycle, y.sequence, y.latest, y.active, ShownRows(y.revisions, retained, e), y.fts)

\* An item shown is an item with the same columns.
LEMMA ShownIs ==
  ASSUME NEW y \in Items, NEW retained \in BOOLEAN, NEW e \in [Nat -> Sources],
         NEW x, x = Shown(y, retained, e)
  PROVE  /\ x \in Items /\ x.scope = y.scope /\ x.lifecycle = y.lifecycle /\ x.sequence = y.sequence
         /\ x.latest = y.latest /\ x.active = y.active /\ x.fts = y.fts
         /\ x.revisions = ShownRows(y.revisions, retained, e)
         /\ Len(x.revisions) = Len(y.revisions) /\ DOMAIN x.revisions = 1..Len(y.revisions)
         /\ \A r \in 1..Len(y.revisions) : x.revisions[r] = ShownRow(y.revisions[r], retained, e[r])
<1>1. y.revisions \in Seq(Rows)
  BY DEF Items
<1>2. PICK rows : rows = ShownRows(y.revisions, retained, e)
  OBVIOUS
<1>3. /\ rows \in Seq(Rows) /\ Len(rows) = Len(y.revisions) /\ DOMAIN rows = 1..Len(y.revisions)
      /\ \A i \in 1..Len(y.revisions) : rows[i] = ShownRow(y.revisions[i], retained, e[i])
  BY <1>1, <1>2, ShownRowsAre
<1>4. x = Item(y.scope, y.lifecycle, y.sequence, y.latest, y.active, rows, y.fts)
  BY <1>2 DEF Shown
<1>5. x \in Items
  BY <1>3, <1>4 DEF Items, Item
<1>6. /\ x.scope = y.scope /\ x.lifecycle = y.lifecycle /\ x.sequence = y.sequence
      /\ x.latest = y.latest /\ x.active = y.active /\ x.fts = y.fts /\ x.revisions = rows
  BY <1>4, ItemHas
<1> QED
  BY <1>2, <1>3, <1>5, <1>6

\* An operation of a replay that adds a revision.
LEMMA ReplaysRevised ==
  ASSUME NEW item \in Items, NEW op, op.kind = "MemoryRevised", NEW retained, NEW s
  PROVE  ApplyOperation(item, op, retained, s) =
            Item(item.scope, IF item.active = 0 THEN "proposed" ELSE "active", item.sequence + 1, op.revision,
                 item.active, Append(item.revisions, RevisionRow(op.draft, retained, s)), item.fts)
<1>1. PICK row : row = RevisionRow(op.draft, retained, s)
  OBVIOUS
<1>2. PICK applied : applied = InsertRevision(item, op, retained, s)
  OBVIOUS
<1>3. applied = Item(item.scope, IF item.active = 0 THEN "proposed" ELSE "active", item.sequence, op.revision,
                     item.active, Append(item.revisions, row), item.fts)
  BY <1>1, <1>2, ItemIs DEF InsertRevision, ApplyRevisionProjection, Item, Items
<1>4. ApplyOperation(item, op, retained, s) = [applied EXCEPT !.sequence = applied.sequence + 1]
  BY <1>2 DEF ApplyOperation, ApplyPayload
<1> QED
  BY <1>1, <1>3, <1>4 DEF Item

\* One that takes the place of a proposal.
LEMMA ReplaysApproved ==
  ASSUME NEW item \in Items, NEW op, op.kind = "ProposalApproved", NEW retained, NEW s
  PROVE  ApplyOperation(item, op, retained, s) =
            Item(item.scope, IF item.active = 0 THEN "proposed" ELSE "active", item.sequence + 1, op.revision, item.active,
                 WithState(Append(item.revisions, RevisionRow(op.draft, retained, s)), op.other, "superseded"),
                 item.fts)
<1>1. PICK row : row = RevisionRow(op.draft, retained, s)
  OBVIOUS
<1>2. PICK inserted : inserted = InsertRevision(item, op, retained, s)
  OBVIOUS
<1>3. inserted = Item(item.scope, IF item.active = 0 THEN "proposed" ELSE "active", item.sequence, op.revision,
                      item.active, Append(item.revisions, row), item.fts)
  BY <1>1, <1>2, ItemIs DEF InsertRevision, ApplyRevisionProjection, Item, Items
<1>4. PICK revisions : revisions = WithState(Append(item.revisions, row), op.other, "superseded")
  OBVIOUS
<1>5. PICK applied : applied = SetRevisionState(inserted, op.other, "superseded")
  OBVIOUS
<1>6. applied = [inserted EXCEPT !.revisions = revisions]
  BY <1>3, <1>4, <1>5 DEF SetRevisionState, WithState, Item
<1>7. ApplyOperation(item, op, retained, s) = [applied EXCEPT !.sequence = applied.sequence + 1]
  BY <1>2, <1>5 DEF ApplyOperation, ApplyPayload
<1> QED
  BY <1>1, <1>3, <1>4, <1>6, <1>7 DEF Item

\* One that creates its memory.
LEMMA ReplaysCreated ==
  ASSUME NEW item, NEW op, op.kind = "MemoryCreated", NEW retained, NEW s
  PROVE  ApplyOperation(item, op, retained, s) =
            Item(op.scope, "proposed", 1, op.revision, 0, <<RevisionRow(op.draft, retained, s)>>, {})
<1>1. PICK row : row = RevisionRow(op.draft, retained, s)
  OBVIOUS
<1>2. PICK shell : shell = InsertMemoryItemShell(op)
  OBVIOUS
<1>3. shell = Item(op.scope, "proposed", 0, 0, 0, <<>>, {})
  BY <1>2 DEF InsertMemoryItemShell, Absent, Item
<1>4. PICK applied : applied = InsertRevision(item, op, retained, s)
  OBVIOUS
<1>5. Append(<<>>, row) = <<row>>
  OBVIOUS
<1>6. applied = ApplyRevisionProjection([shell EXCEPT !.revisions = <<row>>], op.revision)
  <2>1. shell.revisions = <<>>
    BY <1>3 DEF Item
  <2> QED
    BY <1>1, <1>2, <1>4, <1>5, <2>1 DEF InsertRevision
<1>7. applied = Item(op.scope, "proposed", 0, op.revision, 0, <<row>>, {})
  BY <1>3, <1>5, <1>6 DEF ApplyRevisionProjection, Item
<1>8. ApplyOperation(item, op, retained, s) = [applied EXCEPT !.sequence = applied.sequence + 1]
  BY <1>4 DEF ApplyOperation, ApplyPayload
<1>9. PICK revisions : revisions = <<row>>
  OBVIOUS
<1>10. applied = Item(op.scope, "proposed", 0, op.revision, 0, revisions, {}) /\ applied.sequence + 1 = 1
  BY <1>7, <1>9 DEF Item
<1> QED
  BY <1>1, <1>8, <1>9, <1>10 DEF Item

\* Only an insertion depends on what was erased.
LEMMA ReplaysOther ==
  ASSUME NEW item, NEW op, op.kind \in Kinds \ Inserts, NEW retained, NEW s
  PROVE  ApplyOperation(item, op, retained, s) = ApplyLive(item, op)
<1>1. ApplyPayload(item, op, retained, s) = ApplyPayload(item, op, TRUE, NoSession)
  BY DEF ApplyPayload, Kinds, Inserts
<1> QED
  BY <1>1 DEF ApplyOperation, ApplyLive

\* Activating a revision that is active already.
LEMMA AppliesRepeatedActivation ==
  ASSUME NEW item \in Items, NEW op, op.kind = "RevisionActivated", item.active = op.revision
  PROVE  ApplyLive(item, op) =
            Item(item.scope, "active", item.sequence + 1, item.latest, op.revision,
                 WithState(item.revisions, op.revision, "active"), item.fts \cup {op.revision})
<1>1. PICK set : set = SetRevisionState(item, op.revision, "active")
  OBVIOUS
<1>2. PICK applied : applied = ActivateRevision(item, op.revision)
  OBVIOUS
<1>3. applied = [set EXCEPT !.fts = set.fts \cup {op.revision}, !.lifecycle = "active", !.active = op.revision]
  BY <1>1, <1>2 DEF ActivateRevision, DeactivateCurrentRevision
<1>4. ApplyLive(item, op) = [applied EXCEPT !.sequence = applied.sequence + 1]
  <2>1. applied = ApplyPayload(item, op, TRUE, NoSession)
    BY <1>2 DEF ApplyPayload
  <2> QED
    BY <2>1, AppliesLive
<1>5. PICK revisions : revisions = WithState(item.revisions, op.revision, "active")
  OBVIOUS
<1>6. set = Item(item.scope, item.lifecycle, item.sequence, item.latest, item.active, revisions, item.fts)
  BY <1>1, <1>5, SetsState
<1> QED
  BY <1>3, <1>4, <1>5, <1>6 DEF Item

\* An item that a replay can have reached.
Regular(y) ==
    /\ y \in Items /\ y.latest = Len(y.revisions)
    /\ y.lifecycle = "active" <=> y.active # 0

\* The operation can be applied to the item.
OpFits(y, op) ==
    /\ op \in Operations
    /\ op.kind \in Inserts => op.revision = Len(y.revisions) + 1 /\ op.draft.origin # "none"
    /\ op.kind = "MemoryCreated" => y = Absent
    /\ op.kind \notin Inserts => op.revision \in 1..Len(y.revisions)

\* Rows that were kept, but for their states.
Keeps(before, after) ==
    /\ after \in Seq(Rows) /\ Len(after) = Len(before)
    /\ \A r \in 1..Len(before) : after[r].source = before[r].source /\ after[r].excerpt = before[r].excerpt

\* Setting a state keeps the rows.
LEMMA StateKeeps ==
  ASSUME NEW rows \in Seq(Rows), NEW r \in Nat, NEW state \in RevisionStates, NEW after,
         after = WithState(rows, r, state)
  PROVE  Keeps(rows, after)
<1>1. CASE r \in 1..Len(rows)
  <2>1. StateSet(rows, r, state, after)
    BY DEF StateSet
  <2>2. /\ after \in Seq(Rows) /\ Len(after) = Len(rows) /\ \A i \in 1..Len(rows) \ {r} : after[i] = rows[i]
        /\ after[r].source = rows[r].source /\ after[r].excerpt = rows[r].excerpt
    BY <1>1, <2>1, StateSetIs
  <2> QED
    BY <2>2 DEF Keeps
<1>2. CASE r \notin 1..Len(rows)
  <2>1. after = rows
    BY <1>2 DEF WithState
  <2> QED
    BY <2>1 DEF Keeps
<1> QED
  BY <1>1, <1>2

\* What is shown of an item given by its columns.
LEMMA ShowsItem ==
  ASSUME NEW scope, NEW lifecycle, NEW sequence, NEW latest, NEW current, NEW rows, NEW fts, NEW retained, NEW e,
         NEW y, y = Item(scope, lifecycle, sequence, latest, current, rows, fts)
  PROVE  Shown(y, retained, e) = Item(scope, lifecycle, sequence, latest, current, ShownRows(rows, retained, e), fts)
<1>1. /\ y.scope = scope /\ y.lifecycle = lifecycle /\ y.sequence = sequence /\ y.latest = latest
      /\ y.active = current /\ y.revisions = rows /\ y.fts = fts
  BY ItemHas
<1> QED
  BY <1>1 DEF Shown

\* Operations that insert, on what is shown.
LEMMA ShowsInsertion ==
  ASSUME NEW y, Regular(y), NEW op, OpFits(y, op), op.kind \in Inserts,
         NEW retained \in BOOLEAN, NEW e \in [Nat -> Sources]
  PROVE  ApplyOperation(Shown(y, retained, e), op, retained, e[op.revision]) = Shown(ApplyLive(y, op), retained, e)
<1>1. PICK x : x = Shown(y, retained, e)
  OBVIOUS
<1>2. y \in Items /\ y.revisions \in Seq(Rows) /\ Len(y.revisions) \in Nat
  BY DEF Regular, Items
<1>3. /\ x \in Items /\ x.scope = y.scope /\ x.lifecycle = y.lifecycle /\ x.sequence = y.sequence
      /\ x.latest = y.latest /\ x.active = y.active /\ x.fts = y.fts
      /\ x.revisions = ShownRows(y.revisions, retained, e)
  BY <1>1, <1>2, ShownIs
<1>4. /\ op.draft \in Drafts /\ op.draft.origin # "none" /\ op.revision = Len(y.revisions) + 1
      /\ op.revision \in Nat /\ op.other \in Nat
  BY DEF OpFits, Operations
<1>5. PICK s : s = e[op.revision]
  OBVIOUS
<1>6. s \in Sources
  BY <1>4, <1>5
<1>7. PICK row : row = RevisionRow(op.draft, TRUE, NoSession)
  OBVIOUS
<1>8. row \in Rows
  BY <1>4, <1>7, RowIs
<1>9. PICK shown : shown = RevisionRow(op.draft, retained, s)
  OBVIOUS
<1>10. shown = ShownRow(row, retained, s)
  BY <1>4, <1>6, <1>7, <1>9, ShowsInserted
<1>11. PICK longer : longer = Append(y.revisions, row)
  OBVIOUS
<1>12. longer \in Seq(Rows)
  BY <1>2, <1>8, <1>11
<1>13. Append(x.revisions, shown) = ShownRows(longer, retained, e)
  BY <1>2, <1>3, <1>4, <1>5, <1>8, <1>10, <1>11, ShowsAppend
<1>14. PICK lifecycle : lifecycle = IF y.active = 0 THEN "proposed" ELSE "active"
  OBVIOUS
<1>15. CASE op.kind = "MemoryRevised"
  <2>1. ApplyLive(y, op) = Item(y.scope, lifecycle, y.sequence + 1, op.revision, y.active, longer, y.fts)
    BY <1>2, <1>7, <1>11, <1>14, <1>15, AppliesRevised
  <2>2. ApplyOperation(x, op, retained, s) =
           Item(x.scope, IF x.active = 0 THEN "proposed" ELSE "active", x.sequence + 1, op.revision, x.active,
                Append(x.revisions, shown), x.fts)
    BY <1>3, <1>9, <1>15, ReplaysRevised
  <2>3. PICK rows : rows = ShownRows(longer, retained, e)
    OBVIOUS
  <2>4. ApplyOperation(x, op, retained, s) =
           Item(y.scope, lifecycle, y.sequence + 1, op.revision, y.active, rows, y.fts)
    BY <1>3, <1>13, <1>14, <2>2, <2>3
  <2>5. Shown(ApplyLive(y, op), retained, e) =
           Item(y.scope, lifecycle, y.sequence + 1, op.revision, y.active, rows, y.fts)
    BY <2>1, <2>3, ShowsItem
  <2> QED
    BY <1>1, <1>5, <2>4, <2>5
<1>16. CASE op.kind = "ProposalApproved"
  <2>1. PICK left : left = WithState(longer, op.other, "superseded")
    OBVIOUS
  <2>2. ApplyLive(y, op) = Item(y.scope, lifecycle, y.sequence + 1, op.revision, y.active, left, y.fts)
    BY <1>2, <1>7, <1>11, <1>14, <1>16, <2>1, AppliesApproved
  <2>3. PICK mine : mine = WithState(Append(x.revisions, shown), op.other, "superseded")
    OBVIOUS
  <2>4. ApplyOperation(x, op, retained, s) =
           Item(x.scope, IF x.active = 0 THEN "proposed" ELSE "active", x.sequence + 1, op.revision, x.active, mine, x.fts)
    BY <1>3, <1>9, <1>16, <2>3, ReplaysApproved
  <2>5. mine = ShownRows(left, retained, e)
    <3>1. "superseded" \in RevisionStates
      BY DEF RevisionStates
    <3> QED
      BY <1>4, <1>12, <1>13, <2>1, <2>3, <3>1, ShowsState
  <2>6. ApplyOperation(x, op, retained, s) =
           Item(y.scope, lifecycle, y.sequence + 1, op.revision, y.active, mine, y.fts)
    BY <1>3, <1>14, <2>4
  <2>7. Shown(ApplyLive(y, op), retained, e) =
           Item(y.scope, lifecycle, y.sequence + 1, op.revision, y.active, mine, y.fts)
    BY <2>2, <2>5, ShowsItem
  <2> QED
    BY <1>1, <1>5, <2>6, <2>7
<1>17. CASE op.kind = "MemoryCreated"
  <2>1. PICK one : one = <<row>>
    OBVIOUS
  <2>2. ApplyLive(y, op) = Item(op.scope, "proposed", 1, op.revision, 0, one, {})
    BY <1>7, <1>17, <2>1, AppliesCreated
  <2>3. PICK mine : mine = <<shown>>
    OBVIOUS
  <2>4. ApplyOperation(x, op, retained, s) = Item(op.scope, "proposed", 1, op.revision, 0, mine, {})
    BY <1>9, <1>17, <2>3, ReplaysCreated
  <2>5. mine = ShownRows(one, retained, e)
    <3>1. y.revisions = <<>>
      BY <1>17 DEF OpFits, Absent
    <3>2. longer = one
      BY <1>11, <2>1, <3>1
    <3>3. x.revisions = <<>>
      <4>1. ShownRows(<<>>, retained, e) = <<>>
        BY DEF ShownRows
      <4> QED
        BY <1>3, <3>1, <4>1
    <3>4. Append(x.revisions, shown) = mine
      BY <2>3, <3>3
    <3> QED
      BY <1>13, <3>2, <3>4
  <2>6. Shown(ApplyLive(y, op), retained, e) = Item(op.scope, "proposed", 1, op.revision, 0, mine, {})
    BY <2>2, <2>5, ShowsItem
  <2> QED
    BY <1>1, <1>5, <2>4, <2>6
<1> QED
  BY <1>15, <1>16, <1>17 DEF Inserts

\* Operations that do not, on what is shown.
LEMMA ShowsOther ==
  ASSUME NEW y, Regular(y), NEW op, OpFits(y, op), op.kind \notin Inserts,
         NEW retained \in BOOLEAN, NEW e \in [Nat -> Sources], NEW s
  PROVE  ApplyOperation(Shown(y, retained, e), op, retained, s) = Shown(ApplyLive(y, op), retained, e)
<1>1. PICK x : x = Shown(y, retained, e)
  OBVIOUS
<1>2. y \in Items /\ y.revisions \in Seq(Rows) /\ y.active \in Nat
  BY DEF Regular, Items
<1>3. /\ x \in Items /\ x.scope = y.scope /\ x.lifecycle = y.lifecycle /\ x.sequence = y.sequence
      /\ x.latest = y.latest /\ x.active = y.active /\ x.fts = y.fts
      /\ x.revisions = ShownRows(y.revisions, retained, e) /\ DOMAIN x.revisions = 1..Len(y.revisions)
  BY <1>1, <1>2, ShownIs
<1>4. PICK r : r = op.revision
  OBVIOUS
<1>5. r \in 1..Len(y.revisions) /\ r \in Nat /\ op.kind \in Kinds
  BY <1>4 DEF OpFits, Operations
<1>6. PICK mine : mine = ApplyLive(x, op)
  OBVIOUS
<1>7. ApplyOperation(x, op, retained, s) = mine
  BY <1>5, <1>6, ReplaysOther
<1>8. \A state \in RevisionStates :
         WithState(x.revisions, r, state) = ShownRows(WithState(y.revisions, r, state), retained, e)
  BY <1>2, <1>3, <1>5, ShowsState
<1>9. {"superseded", "active", "rejected", "retracted", "deleted"} \subseteq RevisionStates
  BY DEF RevisionStates
<1>10. SUFFICES mine = Shown(ApplyLive(y, op), retained, e)
  BY <1>1, <1>7
<1>11. CASE op.kind = "RevisionValidated"
  <2>1. mine = Item(x.scope, x.lifecycle, x.sequence + 1, x.latest, x.active, x.revisions, x.fts)
    BY <1>3, <1>6, <1>11, AppliesValidated
  <2>2. ApplyLive(y, op) = Item(y.scope, y.lifecycle, y.sequence + 1, y.latest, y.active, y.revisions, y.fts)
    BY <1>2, <1>11, AppliesValidated
  <2>3. Shown(ApplyLive(y, op), retained, e) =
           Item(y.scope, y.lifecycle, y.sequence + 1, y.latest, y.active, ShownRows(y.revisions, retained, e), y.fts)
    BY <2>2, ShowsItem
  <2> QED
    BY <1>3, <2>1, <2>3
<1>12. CASE op.kind = "RevisionActivated" /\ y.active \in {0, r}
  <2>1. mine = Item(x.scope, "active", x.sequence + 1, x.latest, r, WithState(x.revisions, r, "active"), x.fts \cup {r})
    BY <1>3, <1>4, <1>6, <1>12, AppliesFirstActivation, AppliesRepeatedActivation
  <2>2. PICK left : left = WithState(y.revisions, r, "active")
    OBVIOUS
  <2>3. ApplyLive(y, op) = Item(y.scope, "active", y.sequence + 1, y.latest, r, left, y.fts \cup {r})
    BY <1>2, <1>4, <1>12, <2>2, AppliesFirstActivation, AppliesRepeatedActivation
  <2>4. Shown(ApplyLive(y, op), retained, e) =
           Item(y.scope, "active", y.sequence + 1, y.latest, r, ShownRows(left, retained, e), y.fts \cup {r})
    BY <2>3, ShowsItem
  <2>5. WithState(x.revisions, r, "active") = ShownRows(left, retained, e)
    BY <1>8, <1>9, <2>2
  <2> QED
    BY <1>3, <2>1, <2>4, <2>5
<1>13. CASE op.kind = "RevisionActivated" /\ y.active \notin {0, r}
  <2>1. PICK was : was = WithState(x.revisions, x.active, "superseded")
    OBVIOUS
  <2>2. mine = Item(x.scope, "active", x.sequence + 1, x.latest, r, WithState(was, r, "active"),
                    (x.fts \ {x.active}) \cup {r})
    BY <1>3, <1>4, <1>6, <1>13, <2>1, AppliesNextActivation
  <2>3. PICK old : old = WithState(y.revisions, y.active, "superseded")
    OBVIOUS
  <2>4. PICK left : left = WithState(old, r, "active")
    OBVIOUS
  <2>5. ApplyLive(y, op) = Item(y.scope, "active", y.sequence + 1, y.latest, r, left, (y.fts \ {y.active}) \cup {r})
    BY <1>2, <1>4, <1>13, <2>3, <2>4, AppliesNextActivation
  <2>6. old \in Seq(Rows)
    BY <1>2, <1>9, <2>3, StateKeeps DEF Keeps
  <2>7. was = ShownRows(old, retained, e)
    BY <1>2, <1>3, <1>9, <2>1, <2>3, ShowsState
  <2>8. WithState(was, r, "active") = ShownRows(left, retained, e)
    BY <1>5, <1>9, <2>4, <2>6, <2>7, ShowsState
  <2>9. Shown(ApplyLive(y, op), retained, e) =
           Item(y.scope, "active", y.sequence + 1, y.latest, r, ShownRows(left, retained, e), (y.fts \ {y.active}) \cup {r})
    BY <2>5, ShowsItem
  <2> QED
    BY <1>3, <2>2, <2>8, <2>9
<1>14. CASE op.kind = "RevisionSuperseded"
  <2>1. mine = Item(x.scope, x.lifecycle, x.sequence + 1, x.latest, x.active, WithState(x.revisions, r, "superseded"),
                    x.fts \ {r})
    BY <1>3, <1>4, <1>6, <1>14, AppliesSuperseded
  <2>2. PICK left : left = WithState(y.revisions, r, "superseded")
    OBVIOUS
  <2>3. ApplyLive(y, op) = Item(y.scope, y.lifecycle, y.sequence + 1, y.latest, y.active, left, y.fts \ {r})
    BY <1>2, <1>4, <1>14, <2>2, AppliesSuperseded
  <2>4. Shown(ApplyLive(y, op), retained, e) =
           Item(y.scope, y.lifecycle, y.sequence + 1, y.latest, y.active, ShownRows(left, retained, e), y.fts \ {r})
    BY <2>3, ShowsItem
  <2>5. WithState(x.revisions, r, "superseded") = ShownRows(left, retained, e)
    BY <1>8, <1>9, <2>2
  <2> QED
    BY <1>3, <2>1, <2>4, <2>5
<1>15. CASE op.kind = "RevisionRejected"
  <2>0. PICK lifecycle : lifecycle = IF y.active = 0 THEN "rejected" ELSE "active"
    OBVIOUS
  <2>1. mine = Item(x.scope, IF x.active = 0 THEN "rejected" ELSE "active", x.sequence + 1, x.latest, x.active,
                    WithState(x.revisions, r, "rejected"), x.fts)
    BY <1>3, <1>4, <1>6, <1>15, AppliesRejected
  <2>2. PICK left : left = WithState(y.revisions, r, "rejected")
    OBVIOUS
  <2>3. ApplyLive(y, op) = Item(y.scope, lifecycle, y.sequence + 1, y.latest, y.active, left, y.fts)
    BY <1>2, <1>4, <1>15, <2>0, <2>2, AppliesRejected
  <2>4. Shown(ApplyLive(y, op), retained, e) =
           Item(y.scope, lifecycle, y.sequence + 1, y.latest, y.active, ShownRows(left, retained, e), y.fts)
    BY <2>3, ShowsItem
  <2>5. WithState(x.revisions, r, "rejected") = ShownRows(left, retained, e)
    BY <1>8, <1>9, <2>2
  <2> QED
    BY <1>3, <2>0, <2>1, <2>4, <2>5
<1>16. CASE op.kind = "MemoryRetracted"
  <2>1. mine = Item(x.scope, "retracted", x.sequence + 1, x.latest, 0, WithState(x.revisions, r, "retracted"), x.fts \ {r})
    BY <1>3, <1>4, <1>6, <1>16, AppliesRetracted
  <2>2. PICK left : left = WithState(y.revisions, r, "retracted")
    OBVIOUS
  <2>3. ApplyLive(y, op) = Item(y.scope, "retracted", y.sequence + 1, y.latest, 0, left, y.fts \ {r})
    BY <1>2, <1>4, <1>16, <2>2, AppliesRetracted
  <2>4. Shown(ApplyLive(y, op), retained, e) =
           Item(y.scope, "retracted", y.sequence + 1, y.latest, 0, ShownRows(left, retained, e), y.fts \ {r})
    BY <2>3, ShowsItem
  <2>5. WithState(x.revisions, r, "retracted") = ShownRows(left, retained, e)
    BY <1>8, <1>9, <2>2
  <2> QED
    BY <1>3, <2>1, <2>4, <2>5
<1>17. CASE op.kind = "MemoryDeleted"
  <2>0. op.revision \in DOMAIN x.revisions /\ op.revision \in DOMAIN y.revisions
    BY <1>2, <1>3, <1>4, <1>5
  <2>1. mine = Item(x.scope, "deleted", x.sequence + 1, x.latest, 0, Emptied(WithState(x.revisions, r, "deleted")), {})
    BY <1>3, <1>4, <1>6, <1>17, <2>0, AppliesDeleted
  <2>2. PICK left : left = WithState(y.revisions, r, "deleted")
    OBVIOUS
  <2>3. ApplyLive(y, op) = Item(y.scope, "deleted", y.sequence + 1, y.latest, 0, Emptied(left), {})
    BY <1>2, <1>4, <1>17, <2>0, <2>2, AppliesDeleted
  <2>4. Shown(ApplyLive(y, op), retained, e) =
           Item(y.scope, "deleted", y.sequence + 1, y.latest, 0, ShownRows(Emptied(left), retained, e), {})
    BY <2>3, ShowsItem
  <2>5. WithState(x.revisions, r, "deleted") = ShownRows(left, retained, e)
    BY <1>8, <1>9, <2>2
  <2>6. left \in Seq(Rows)
    BY <1>2, <1>5, <1>9, <2>2, StateKeeps DEF Keeps
  <2>7. Emptied(WithState(x.revisions, r, "deleted")) = ShownRows(Emptied(left), retained, e)
    BY <2>5, <2>6, ShowsEmptied
  <2> QED
    BY <1>3, <2>1, <2>4, <2>7
<1> QED
  BY <1>5, <1>11, <1>12, <1>13, <1>14, <1>15, <1>16, <1>17 DEF Kinds, Inserts

\* What one operation leaves of an item.
Follows(y, op, after) ==
    /\ Regular(after) /\ after.scope \in {y.scope, op.scope}
    /\ Len(after.revisions) = IF op.kind \in Inserts THEN Len(y.revisions) + 1 ELSE Len(y.revisions)
    /\ \A r \in 1..Len(y.revisions) :
          /\ after.revisions[r].source = y.revisions[r].source
          /\ op.kind # "MemoryDeleted" => after.revisions[r].excerpt = y.revisions[r].excerpt
    /\ op.kind \in Inserts =>
          /\ after.revisions[op.revision].source = op.draft.source
          /\ after.revisions[op.revision].excerpt = op.draft.excerpt

\* An item whose rows were kept.
LEMMA KeptFollows ==
  ASSUME NEW y, Regular(y), NEW op, op.kind \notin Inserts, NEW rows, Keeps(y.revisions, rows),
         NEW lifecycle \in Lifecycles, NEW current \in Nat, lifecycle = "active" <=> current # 0,
         NEW fts \in SUBSET Nat,
         NEW after, after = Item(y.scope, lifecycle, y.sequence + 1, y.latest, current, rows, fts)
  PROVE  Follows(y, op, after)
<1>1. /\ y \in Items /\ y.scope \in {Workspace, Session, NoSession} /\ y.sequence \in Nat /\ y.latest \in Nat
      /\ y.latest = Len(y.revisions)
  BY DEF Regular, Items
<1>2. /\ after.scope = y.scope /\ after.lifecycle = lifecycle /\ after.latest = y.latest /\ after.active = current /\ after.revisions = rows
  BY ItemHas
<1>3. rows \in Seq(Rows) /\ Len(rows) = Len(y.revisions)
  BY DEF Keeps
<1>4. after \in Items
  BY <1>1, <1>3 DEF Items, Item
<1> QED
  BY <1>1, <1>2, <1>3, <1>4 DEF Follows, Regular, Keeps

\* An operation leaves a regular item.
LEMMA OperationFollows ==
  ASSUME NEW y, Regular(y), NEW op, OpFits(y, op)
  PROVE  Follows(y, op, ApplyLive(y, op))
<1>0. PICK after : after = ApplyLive(y, op)
  OBVIOUS
<1>1. /\ y \in Items /\ y.revisions \in Seq(Rows) /\ y.active \in Nat /\ y.fts \in SUBSET Nat
      /\ y.scope \in {Workspace, Session, NoSession} /\ y.sequence \in Nat /\ y.lifecycle \in Lifecycles
      /\ Len(y.revisions) \in Nat
  BY DEF Regular, Items
<1>2. op.kind \in Kinds /\ op.revision \in Nat /\ op.other \in Nat /\ op.draft \in Drafts
      /\ op.scope \in {Workspace, Session, NoSession}
  BY DEF OpFits, Operations
<1>3. {"superseded", "active", "rejected", "retracted", "deleted"} \subseteq RevisionStates
  BY DEF RevisionStates
<1>4. \A state \in RevisionStates : Keeps(y.revisions, WithState(y.revisions, op.revision, state))
  BY <1>1, <1>2, StateKeeps
<1>5. CASE op.kind \in Inserts
  <2>1. op.draft.origin # "none" /\ op.revision = Len(y.revisions) + 1
    BY <1>5 DEF OpFits
  <2>2. PICK row : row = RevisionRow(op.draft, TRUE, NoSession)
    OBVIOUS
  <2>3. row \in Rows /\ row.source = op.draft.source
    BY <1>2, <2>1, <2>2, RowIs
  <2>4. row.excerpt = op.draft.excerpt
    <3>1. row.excerpt = (op.draft.excerpt /\ TRUE /\ NoSession = NoSession)
      BY <2>2 DEF RevisionRow
    <3>2. op.draft.excerpt \in BOOLEAN
      BY <1>2 DEF Drafts
    <3> QED
      BY <3>1, <3>2
  <2>5. PICK longer : longer = Append(y.revisions, row)
    OBVIOUS
  <2>6. /\ longer \in Seq(Rows) /\ Len(longer) = Len(y.revisions) + 1 /\ longer[op.revision] = row
        /\ \A i \in 1..Len(y.revisions) : longer[i] = y.revisions[i]
    BY <1>1, <2>1, <2>3, <2>5, Appends
  <2>7. ASSUME NEW rows, Keeps(longer, rows), NEW scope \in {Workspace, Session, NoSession},
               scope \in {y.scope, op.scope}, NEW lifecycle \in Lifecycles, NEW sequence \in Nat, NEW current \in Nat,
               lifecycle = "active" <=> current # 0, NEW fts \in SUBSET Nat,
               after = Item(scope, lifecycle, sequence, op.revision, current, rows, fts)
        PROVE  Follows(y, op, after)
    <3>1. /\ after.scope = scope /\ after.lifecycle = lifecycle /\ after.latest = op.revision /\ after.active = current
          /\ after.revisions = rows
      BY <2>7, ItemHas
    <3>2. /\ rows \in Seq(Rows) /\ Len(rows) = Len(y.revisions) + 1
          /\ \A r \in 1..Len(y.revisions) + 1 : rows[r].source = longer[r].source /\ rows[r].excerpt = longer[r].excerpt
      BY <2>6, <2>7 DEF Keeps
    <3>3. after \in Items
      BY <1>2, <2>7, <3>2 DEF Items, Item
    <3>4. Regular(after)
      BY <2>1, <2>7, <3>1, <3>2, <3>3 DEF Regular
    <3>5. \A r \in 1..Len(y.revisions) :
             rows[r].source = y.revisions[r].source /\ rows[r].excerpt = y.revisions[r].excerpt
      <4> SUFFICES ASSUME NEW r \in 1..Len(y.revisions)
                   PROVE  rows[r].source = y.revisions[r].source /\ rows[r].excerpt = y.revisions[r].excerpt
        OBVIOUS
      <4>1. r \in 1..Len(y.revisions) + 1
        BY <1>1
      <4>2. longer[r] = y.revisions[r]
        BY <2>6
      <4> QED
        BY <3>2, <4>1, <4>2
    <3>6. rows[op.revision].source = op.draft.source /\ rows[op.revision].excerpt = op.draft.excerpt
      <4>1. op.revision \in 1..Len(y.revisions) + 1
        BY <1>1, <2>1
      <4> QED
        BY <2>3, <2>4, <2>6, <3>2, <4>1
    <3> QED
      BY <1>5, <2>7, <3>1, <3>2, <3>4, <3>5, <3>6 DEF Follows
  <2>8. Keeps(longer, longer)
    BY <2>6 DEF Keeps
  <2>9. PICK lifecycle : lifecycle = IF y.active = 0 THEN "proposed" ELSE "active"
    OBVIOUS
  <2>10. lifecycle \in Lifecycles /\ (lifecycle = "active" <=> y.active # 0) /\ y.sequence + 1 \in Nat
    BY <1>1, <2>9 DEF Lifecycles
  <2>11. CASE op.kind = "MemoryRevised"
    <3>1. after = Item(y.scope, lifecycle, y.sequence + 1, op.revision, y.active, longer, y.fts)
      BY <1>0, <1>1, <2>2, <2>5, <2>9, <2>11, AppliesRevised
    <3> QED
      BY <1>0, <1>1, <2>7, <2>8, <2>10, <3>1
  <2>12. CASE op.kind = "ProposalApproved"
    <3>1. PICK left : left = WithState(longer, op.other, "superseded")
      OBVIOUS
    <3>2. after = Item(y.scope, lifecycle, y.sequence + 1, op.revision, y.active, left, y.fts)
      BY <1>0, <1>1, <2>2, <2>5, <2>9, <2>12, <3>1, AppliesApproved
    <3>3. Keeps(longer, left)
      BY <1>2, <1>3, <2>6, <3>1, StateKeeps
    <3> QED
      BY <1>0, <1>1, <2>7, <2>10, <3>2, <3>3
  <2>13. CASE op.kind = "MemoryCreated"
    <3>1. y.revisions = <<>>
      BY <2>13 DEF OpFits, Absent
    <3>2. longer = <<row>>
      BY <2>5, <3>1
    <3>3. after = Item(op.scope, "proposed", 1, op.revision, 0, <<row>>, {})
      BY <1>0, <2>2, <2>13, AppliesCreated
    <3>4. after = Item(op.scope, "proposed", 1, op.revision, 0, longer, {})
      BY <3>2, <3>3
    <3>5. /\ "proposed" \in Lifecycles /\ ("proposed" = "active" <=> 0 # 0) /\ 1 \in Nat /\ 0 \in Nat /\ {} \in SUBSET Nat
      BY DEF Lifecycles
    <3> QED
      BY <1>0, <1>2, <2>7, <2>8, <3>4, <3>5
  <2> QED
    BY <1>5, <2>11, <2>12, <2>13 DEF Inserts
<1>6. CASE op.kind \notin Inserts
  <2>0. op.revision \in 1..Len(y.revisions) /\ op.revision # 0
    BY <1>6 DEF OpFits
  <2>1. CASE op.kind = "RevisionValidated"
    <3>1. after = Item(y.scope, y.lifecycle, y.sequence + 1, y.latest, y.active, y.revisions, y.fts)
      BY <1>0, <1>1, <2>1, AppliesValidated
    <3>2. Keeps(y.revisions, y.revisions) /\ (y.lifecycle = "active" <=> y.active # 0)
      BY <1>1 DEF Keeps, Regular
    <3> QED
      BY <1>0, <1>1, <1>6, <3>1, <3>2, KeptFollows
  <2>2. CASE op.kind = "RevisionActivated"
    <3>0. "active" \in Lifecycles /\ ("active" = "active" <=> op.revision # 0)
      BY <2>0 DEF Lifecycles
    <3>1. CASE y.active \in {0, op.revision}
      <4>1. PICK left : left = WithState(y.revisions, op.revision, "active")
        OBVIOUS
      <4>2. PICK fts : fts = y.fts \cup {op.revision}
        OBVIOUS
      <4>3. after = Item(y.scope, "active", y.sequence + 1, y.latest, op.revision, left, fts)
        BY <1>0, <1>1, <2>2, <3>1, <4>1, <4>2, AppliesFirstActivation, AppliesRepeatedActivation
      <4>4. Keeps(y.revisions, left) /\ fts \in SUBSET Nat
        BY <1>1, <1>2, <1>3, <1>4, <4>1, <4>2
      <4> QED
        BY <1>0, <1>2, <1>6, <3>0, <4>3, <4>4, KeptFollows
    <3>2. CASE y.active \notin {0, op.revision}
      <4>1. PICK old : old = WithState(y.revisions, y.active, "superseded")
        OBVIOUS
      <4>2. PICK left : left = WithState(old, op.revision, "active")
        OBVIOUS
      <4>3. PICK fts : fts = (y.fts \ {y.active}) \cup {op.revision}
        OBVIOUS
      <4>4. after = Item(y.scope, "active", y.sequence + 1, y.latest, op.revision, left, fts)
        BY <1>0, <1>1, <2>2, <3>2, <4>1, <4>2, <4>3, AppliesNextActivation
      <4>5. Keeps(y.revisions, old)
        BY <1>1, <1>3, <4>1, StateKeeps
      <4>6. Keeps(old, left)
        <5>1. old \in Seq(Rows)
          BY <4>5 DEF Keeps
        <5> QED
          BY <1>2, <1>3, <4>2, <5>1, StateKeeps
      <4>7. Keeps(y.revisions, left) /\ fts \in SUBSET Nat
        BY <1>1, <1>2, <4>3, <4>5, <4>6 DEF Keeps
      <4> QED
        BY <1>0, <1>2, <1>6, <3>0, <4>4, <4>7, KeptFollows
    <3> QED
      BY <3>1, <3>2
  <2>3. CASE op.kind = "RevisionSuperseded"
    <3>1. PICK left : left = WithState(y.revisions, op.revision, "superseded")
      OBVIOUS
    <3>2. PICK fts : fts = y.fts \ {op.revision}
      OBVIOUS
    <3>3. after = Item(y.scope, y.lifecycle, y.sequence + 1, y.latest, y.active, left, fts)
      BY <1>0, <1>1, <2>3, <3>1, <3>2, AppliesSuperseded
    <3>4. Keeps(y.revisions, left) /\ fts \in SUBSET Nat /\ (y.lifecycle = "active" <=> y.active # 0)
      BY <1>1, <1>3, <1>4, <3>1, <3>2 DEF Regular
    <3> QED
      BY <1>0, <1>1, <1>6, <3>3, <3>4, KeptFollows
  <2>4. CASE op.kind = "RevisionRejected"
    <3>1. PICK left : left = WithState(y.revisions, op.revision, "rejected")
      OBVIOUS
    <3>2. PICK lifecycle : lifecycle = IF y.active = 0 THEN "rejected" ELSE "active"
      OBVIOUS
    <3>3. after = Item(y.scope, lifecycle, y.sequence + 1, y.latest, y.active, left, y.fts)
      BY <1>0, <1>1, <2>4, <3>1, <3>2, AppliesRejected
    <3>4. Keeps(y.revisions, left) /\ lifecycle \in Lifecycles /\ (lifecycle = "active" <=> y.active # 0)
      BY <1>3, <1>4, <3>1, <3>2 DEF Lifecycles
    <3> QED
      BY <1>0, <1>1, <1>6, <3>3, <3>4, KeptFollows
  <2>5. CASE op.kind = "MemoryRetracted"
    <3>1. PICK left : left = WithState(y.revisions, op.revision, "retracted")
      OBVIOUS
    <3>2. PICK fts : fts = y.fts \ {op.revision}
      OBVIOUS
    <3>3. after = Item(y.scope, "retracted", y.sequence + 1, y.latest, 0, left, fts)
      BY <1>0, <1>1, <2>5, <3>1, <3>2, AppliesRetracted
    <3>4. /\ Keeps(y.revisions, left) /\ fts \in SUBSET Nat /\ "retracted" \in Lifecycles /\ 0 \in Nat
          /\ ("retracted" = "active" <=> 0 # 0)
      BY <1>1, <1>3, <1>4, <3>1, <3>2 DEF Lifecycles
    <3> QED
      BY <1>0, <1>6, <3>3, <3>4, KeptFollows
  <2>6. CASE op.kind = "MemoryDeleted"
    <3>1. PICK set : set = WithState(y.revisions, op.revision, "deleted")
      OBVIOUS
    <3>2. PICK left : left = Emptied(set)
      OBVIOUS
    <3>3. after = Item(y.scope, "deleted", y.sequence + 1, y.latest, 0, left, {})
      BY <1>0, <1>1, <2>0, <2>6, <3>1, <3>2, AppliesDeleted
    <3>4. Keeps(y.revisions, set)
      BY <1>3, <1>4, <3>1
    <3>5. set \in Seq(Rows) /\ Len(set) = Len(y.revisions)
      BY <3>4 DEF Keeps
    <3>6. left \in Seq(Rows) /\ Len(left) = Len(y.revisions)
      BY <3>2, <3>5, EmptiedIs
    <3>7. \A r \in 1..Len(y.revisions) : left[r].source = y.revisions[r].source
      <4> SUFFICES ASSUME NEW r \in 1..Len(y.revisions) PROVE left[r].source = y.revisions[r].source
        OBVIOUS
      <4>1. set[r] \in Rows /\ set[r].source = y.revisions[r].source
        BY <3>4, <3>5 DEF Keeps
      <4>2. left[r] = WithoutContent(set[r])
        BY <3>2, <3>5 DEF Emptied
      <4> QED
        BY <4>1, <4>2 DEF WithoutContent, Rows
    <3>8. /\ after.scope = y.scope /\ after.lifecycle = "deleted" /\ after.latest = y.latest /\ after.active = 0
          /\ after.revisions = left
      BY <3>3, ItemHas
    <3>9. after \in Items
      <4>1. y.latest \in Nat
        BY <1>1 DEF Items
      <4> QED
        BY <1>1, <3>3, <3>6, <4>1 DEF Items, Item, Lifecycles
    <3>10. Regular(after)
      BY <3>6, <3>8, <3>9 DEF Regular
    <3> QED
      BY <1>0, <1>6, <2>6, <3>6, <3>7, <3>8, <3>10 DEF Follows
  <2> QED
    BY <1>2, <1>6, <2>1, <2>2, <2>3, <2>4, <2>5, <2>6 DEF Kinds, Inserts
<1> QED
  BY <1>5, <1>6

-----------------------------------------------------------------------------
(* Replaying the operations of a memory with everything retained. *)

Replayed == [item : Items, batches : Nat, changes : Nat, before : Nat]

\* An entry of a replay.
Entry(item, batches, changes, before) ==
    [item |-> item, batches |-> batches, changes |-> changes, before |-> before]

\* The changes of the active revision, with the one of the batch in hand.
Changed(replay) == replay.changes + EligibilityStep([active |-> replay.before], replay.item)

\* One operation, with everything retained.
PureStep(replay, op) ==
    IF op.first
    THEN Entry(ApplyLive(replay.item, op), replay.batches + 1, Changed(replay), replay.item.active)
    ELSE Entry(ApplyLive(replay.item, op), replay.batches, replay.changes, replay.before)

\* A replay of the operations, one by one.
History(ops, f) ==
    /\ f[0] = NoReplay
    /\ \A n \in 0..Len(ops) : f[n] \in Replayed /\ Regular(f[n].item)
    /\ \A n \in 1..Len(ops) : OpFits(f[n - 1].item, ops[n]) /\ f[n] = PureStep(f[n - 1], ops[n])

\* Every draft is the row of its revision; its excerpt is there unless the
\* memory was deleted.
RowsTell(ops, item) ==
    \A i \in DOMAIN ops : ops[i].kind \in Inserts =>
        /\ ops[i].revision \in 1..Len(item.revisions)
        /\ item.revisions[ops[i].revision].source = ops[i].draft.source
        /\ \/ item.revisions[ops[i].revision].excerpt = ops[i].draft.excerpt
           \/ \E j \in DOMAIN ops : ops[j].kind = "MemoryDeleted"

\* The operations lead from nothing to the entry.
Replays(ops, p) == RowsTell(ops, p.item) /\ \E f : History(ops, f) /\ f[Len(ops)] = p

\* The last entry of a replay.
LEMMA ReplaysTo ==
  ASSUME NEW ops \in Seq(Operations), NEW p, Replays(ops, p)
  PROVE  p \in Replayed /\ Regular(p.item)
<1>1. PICK f : History(ops, f) /\ f[Len(ops)] = p
  BY DEF Replays
<1>2. Len(ops) \in 0..Len(ops)
  OBVIOUS
<1> QED
  BY <1>1, <1>2 DEF History

\* An entry after one more operation.
LEMMA PureStepIs ==
  ASSUME NEW p \in Replayed, Regular(p.item), NEW op, OpFits(p.item, op), NEW q, q = PureStep(p, op)
  PROVE  /\ q \in Replayed /\ q.item = ApplyLive(p.item, op) /\ Regular(q.item)
         /\ q.batches = (IF op.first THEN p.batches + 1 ELSE p.batches)
         /\ q.changes = (IF op.first THEN Changed(p) ELSE p.changes)
         /\ q.before = (IF op.first THEN p.item.active ELSE p.before)
<1>1. PICK after : after = ApplyLive(p.item, op)
  OBVIOUS
<1>2. Regular(after)
  BY <1>1, OperationFollows DEF Follows
<1>3. after \in Items
  BY <1>2 DEF Regular
<1>4. /\ p.batches \in Nat /\ p.changes \in Nat /\ p.before \in Nat /\ p.item.active \in Nat
  BY DEF Replayed, Items
<1>5. Changed(p) \in Nat
  BY <1>4 DEF Changed, EligibilityStep
<1>6. q = Entry(after, IF op.first THEN p.batches + 1 ELSE p.batches, IF op.first THEN Changed(p) ELSE p.changes,
                IF op.first THEN p.item.active ELSE p.before)
  BY <1>1 DEF PureStep
<1> QED
  BY <1>1, <1>2, <1>3, <1>4, <1>5, <1>6 DEF Entry, Replayed

\* One more operation.
LEMMA ReplaysNext ==
  ASSUME NEW ops \in Seq(Operations), NEW p, Replays(ops, p), NEW op, OpFits(p.item, op)
  PROVE  Replays(Append(ops, op), PureStep(p, op))
<1>1. PICK f : History(ops, f) /\ f[Len(ops)] = p
  BY DEF Replays
<1>2. p \in Replayed /\ Regular(p.item)
  BY ReplaysTo
<1>3. PICK q : q = PureStep(p, op)
  OBVIOUS
<1>4. q \in Replayed /\ q.item = ApplyLive(p.item, op) /\ Regular(q.item)
  BY <1>2, <1>3, PureStepIs
<1>5. op \in Operations /\ Len(ops) \in Nat
  BY DEF OpFits
<1>6. PICK more : more = Append(ops, op)
  OBVIOUS
<1>7. /\ more \in Seq(Operations) /\ Len(more) = Len(ops) + 1 /\ more[Len(ops) + 1] = op
      /\ \A i \in 1..Len(ops) : more[i] = ops[i]
  BY <1>5, <1>6, Appends
<1>8. PICK g : g = [n \in 0..Len(ops) + 1 |-> IF n = Len(ops) + 1 THEN q ELSE f[n]]
  OBVIOUS
<1>9. g[Len(ops) + 1] = q /\ \A n \in 0..Len(ops) : g[n] = f[n]
  BY <1>5, <1>8
<1>10. History(more, g)
  <2>1. g[0] = NoReplay
    BY <1>1, <1>5, <1>9 DEF History
  <2>2. \A n \in 0..Len(more) : g[n] \in Replayed /\ Regular(g[n].item)
    <3> SUFFICES ASSUME NEW n \in 0..Len(ops) + 1 PROVE g[n] \in Replayed /\ Regular(g[n].item)
      BY <1>7
    <3>1. CASE n = Len(ops) + 1
      BY <1>4, <1>9, <3>1
    <3>2. CASE n \in 0..Len(ops)
      BY <1>1, <1>9, <3>2 DEF History
    <3> QED
      BY <1>5, <3>1, <3>2
  <2>3. \A n \in 1..Len(more) : OpFits(g[n - 1].item, more[n]) /\ g[n] = PureStep(g[n - 1], more[n])
    <3> SUFFICES ASSUME NEW n \in 1..Len(ops) + 1
                 PROVE  OpFits(g[n - 1].item, more[n]) /\ g[n] = PureStep(g[n - 1], more[n])
      BY <1>7
    <3>1. CASE n = Len(ops) + 1
      <4>1. n - 1 = Len(ops) /\ Len(ops) \in 0..Len(ops)
        BY <1>5, <3>1
      <4>2. g[n - 1] = p
        BY <1>1, <1>9, <4>1
      <4> QED
        BY <1>3, <1>7, <1>9, <3>1, <4>2
    <3>2. CASE n \in 1..Len(ops)
      <4>1. n - 1 \in 0..Len(ops) /\ n \in 0..Len(ops)
        BY <1>5, <3>2
      <4>2. g[n - 1] = f[n - 1] /\ g[n] = f[n] /\ more[n] = ops[n]
        BY <1>7, <1>9, <3>2, <4>1
      <4> QED
        BY <1>1, <3>2, <4>2 DEF History
    <3> QED
      BY <1>5, <3>1, <3>2
  <2> QED
    BY <2>1, <2>2, <2>3 DEF History
<1>11. RowsTell(more, q.item)
  <2>1. Follows(p.item, op, q.item)
    BY <1>2, <1>4, OperationFollows
  <2>2. Len(p.item.revisions) \in Nat /\ DOMAIN more = 1..Len(ops) + 1 /\ DOMAIN ops = 1..Len(ops)
    <3>1. p.item.revisions \in Seq(Rows)
      BY <1>2 DEF Regular, Items
    <3> QED
      BY <1>5, <1>7, <3>1
  <2> SUFFICES ASSUME NEW i \in 1..Len(ops) + 1, more[i].kind \in Inserts
               PROVE  /\ more[i].revision \in 1..Len(q.item.revisions)
                      /\ q.item.revisions[more[i].revision].source = more[i].draft.source
                      /\ \/ q.item.revisions[more[i].revision].excerpt = more[i].draft.excerpt
                         \/ \E j \in DOMAIN more : more[j].kind = "MemoryDeleted"
    BY <2>2 DEF RowsTell
  <2>3. CASE i = Len(ops) + 1
    <3>1. more[i] = op /\ op.kind \in Inserts
      BY <1>7, <2>3
    <3>2. op.revision = Len(p.item.revisions) + 1 /\ Len(q.item.revisions) = Len(p.item.revisions) + 1
      BY <2>1, <3>1 DEF OpFits, Follows
    <3>3. /\ q.item.revisions[op.revision].source = op.draft.source
          /\ q.item.revisions[op.revision].excerpt = op.draft.excerpt
      BY <2>1, <3>1 DEF Follows
    <3>4. op.revision \in 1..Len(q.item.revisions)
      BY <2>2, <3>2
    <3> QED
      BY <3>1, <3>3, <3>4
  <2>4. CASE i \in 1..Len(ops)
    <3>1. more[i] = ops[i]
      BY <1>7, <2>4
    <3>2. PICK r : r = ops[i].revision
      OBVIOUS
    <3>3. /\ r \in 1..Len(p.item.revisions) /\ p.item.revisions[r].source = ops[i].draft.source
          /\ \/ p.item.revisions[r].excerpt = ops[i].draft.excerpt
             \/ \E j \in DOMAIN ops : ops[j].kind = "MemoryDeleted"
      BY <2>2, <2>4, <3>1, <3>2 DEF Replays, RowsTell
    <3>4. r \in 1..Len(q.item.revisions)
      BY <2>1, <2>2, <3>3 DEF Follows
    <3>5. q.item.revisions[r].source = ops[i].draft.source
      BY <2>1, <3>3 DEF Follows
    <3>6. \/ q.item.revisions[r].excerpt = ops[i].draft.excerpt
          \/ \E j \in DOMAIN more : more[j].kind = "MemoryDeleted"
      <4>1. CASE \E j \in DOMAIN ops : ops[j].kind = "MemoryDeleted"
        <5>1. PICK j \in 1..Len(ops) : ops[j].kind = "MemoryDeleted"
          BY <2>2, <4>1
        <5>2. j \in DOMAIN more /\ more[j].kind = "MemoryDeleted"
          BY <1>5, <1>7, <2>2, <5>1
        <5> QED
          BY <5>2
      <4>2. CASE op.kind = "MemoryDeleted"
        <5>1. Len(ops) + 1 \in DOMAIN more
          BY <1>5, <2>2
        <5> QED
          BY <1>7, <4>2, <5>1
      <4>3. CASE op.kind # "MemoryDeleted" /\ p.item.revisions[r].excerpt = ops[i].draft.excerpt
        BY <2>1, <3>3, <4>3 DEF Follows
      <4> QED
        BY <3>3, <4>1, <4>2, <4>3
    <3> QED
      BY <3>1, <3>2, <3>4, <3>5, <3>6
  <2> QED
    BY <1>5, <2>3, <2>4
<1> QED
  BY <1>3, <1>6, <1>7, <1>9, <1>10, <1>11 DEF Replays

-----------------------------------------------------------------------------
(* The operations of the planner, replayed. *)

\* What the store asks of an operation, kind by kind.
LEMMA RequireSays ==
  ASSUME NEW item, NEW op, op.kind \in Kinds, RequireRevisionState(item, op)
  PROVE  /\ op.kind = "MemoryCreated" => item = Absent
         /\ op.kind \in {"MemoryRevised", "ProposalApproved"} => op.revision = item.latest + 1
         /\ op.kind \notin Inserts => op.revision \in DOMAIN item.revisions
<1>1. CASE op.kind = "MemoryCreated"
  BY <1>1 DEF RequireRevisionState, Inserts
<1>2. CASE op.kind = "MemoryRevised"
  BY <1>2 DEF RequireRevisionState, Inserts
<1>3. CASE op.kind = "ProposalApproved"
  BY <1>3 DEF RequireRevisionState, Inserts
<1>4. CASE op.kind = "RevisionValidated"
  BY <1>4 DEF RequireRevisionState, Inserts
<1>5. CASE op.kind = "RevisionActivated"
  BY <1>5 DEF RequireRevisionState, Inserts
<1>6. CASE op.kind = "RevisionRejected"
  BY <1>6 DEF RequireRevisionState, Inserts
<1>7. CASE op.kind = "RevisionSuperseded"
  BY <1>7 DEF RequireRevisionState, Inserts
<1>8. CASE op.kind = "MemoryRetracted"
  BY <1>8 DEF RequireRevisionState, Inserts
<1>9. CASE op.kind = "MemoryDeleted"
  BY <1>9 DEF RequireRevisionState, Inserts
<1> QED
  BY <1>1, <1>2, <1>3, <1>4, <1>5, <1>6, <1>7, <1>8, <1>9 DEF Kinds

\* A live item and the replay of its operations: the item shows what the replay
\* left, but for the excerpts a session's deletion took.
Stands(ops, p, e, item) ==
    /\ ops \in Seq(Operations) /\ Replays(ops, p)
    /\ e \in [Nat -> Sources] /\ \A r \in Nat : r > Len(p.item.revisions) => e[r] = NoSession
    /\ item = Shown(p.item, TRUE, e)

\* What the planner puts into its operations.
Planned(op, scope) ==
    /\ op \in Operations /\ op.scope \in {NoSession, scope}
    /\ op.kind \in Inserts => op.draft.origin # "none" /\ op.revision > 0
    /\ op.kind = "MemoryCreated" => op.revision = 1

\* An operation accepted by the store is one the replay can follow.
LEMMA AcceptedFits ==
  ASSUME NEW ops, NEW p, NEW e, NEW item, Stands(ops, p, e, item), NEW op, NEW scope, Planned(op, scope),
         RequireRevisionState(item, op)
  PROVE  OpFits(p.item, op)
<1>1. PICK y : y = p.item
  OBVIOUS
<1>2. Regular(y) /\ y \in Items
  BY <1>1, ReplaysTo DEF Stands, Regular
<1>3. PICK yes : yes = TRUE
  OBVIOUS
<1>0. yes \in BOOLEAN /\ item = Shown(y, yes, e) /\ e \in [Nat -> Sources]
  BY <1>1, <1>3 DEF Stands
<1>4. /\ item \in Items /\ item.scope = y.scope /\ item.lifecycle = y.lifecycle /\ item.sequence = y.sequence
      /\ item.latest = y.latest /\ item.active = y.active /\ item.fts = y.fts
      /\ Len(item.revisions) = Len(y.revisions) /\ DOMAIN item.revisions = 1..Len(y.revisions)
  BY <1>0, <1>2, ShownIs
<1>5. op \in Operations /\ op.kind \in Kinds
  BY DEF Planned, Operations
<1>6. /\ op.kind = "MemoryCreated" => item = Absent
      /\ op.kind \in {"MemoryRevised", "ProposalApproved"} => op.revision = item.latest + 1
      /\ op.kind \notin Inserts => op.revision \in DOMAIN item.revisions
  BY <1>5, RequireSays
<1>7. op.kind = "MemoryCreated" => y = Absent /\ op.revision = Len(y.revisions) + 1
  <2> SUFFICES ASSUME op.kind = "MemoryCreated" PROVE y = Absent /\ op.revision = Len(y.revisions) + 1
    OBVIOUS
  <2>1. item = Absent /\ op.revision = 1
    BY <1>6 DEF Planned
  <2>2. /\ item.scope = NoSession /\ item.lifecycle = "absent" /\ item.sequence = 0 /\ item.latest = 0
        /\ item.active = 0 /\ item.revisions = <<>> /\ item.fts = {}
    BY <2>1 DEF Absent
  <2>3. Len(y.revisions) = 0 /\ y.revisions \in Seq(Rows)
    BY <1>2, <1>4, <2>2 DEF Items
  <2>4. y.revisions = <<>>
    BY <2>3
  <2>5. y = Item(NoSession, "absent", 0, 0, 0, <<>>, {})
    BY <1>2, <1>4, <2>2, <2>4, ItemIs
  <2>6. Absent = Item(NoSession, "absent", 0, 0, 0, <<>>, {})
    BY DEF Absent, Item
  <2> QED
    BY <2>1, <2>3, <2>5, <2>6
<1>8. op.kind \in Inserts => op.revision = Len(y.revisions) + 1 /\ op.draft.origin # "none"
  BY <1>2, <1>4, <1>6, <1>7 DEF Planned, Regular, Inserts
<1> QED
  BY <1>1, <1>4, <1>5, <1>6, <1>7, <1>8 DEF OpFits

\* So they stay together.
LEMMA StandsNext ==
  ASSUME NEW ops, NEW p, NEW e, NEW item, Stands(ops, p, e, item), NEW op, NEW scope, Planned(op, scope),
         RequireRevisionState(item, op)
  PROVE  Stands(Append(ops, op), PureStep(p, op), e, ApplyLive(item, op)) /\ OpFits(p.item, op)
         /\ PureStep(p, op).item.scope \in {p.item.scope, NoSession, scope}
<1>1. PICK y : y = p.item
  OBVIOUS
<1>2. Regular(y) /\ y \in Items /\ p \in Replayed /\ OpFits(y, op) /\ OpFits(p.item, op)
  BY <1>1, ReplaysTo, AcceptedFits DEF Stands, Regular
<1>3. PICK q : q = PureStep(p, op)
  OBVIOUS
<1>4. q.item = ApplyLive(y, op)
  BY <1>1, <1>2, <1>3, PureStepIs
<1>5. Replays(Append(ops, op), q)
  BY <1>2, <1>3, ReplaysNext DEF Stands
<1>6. Append(ops, op) \in Seq(Operations)
  BY DEF Stands, Planned
<1>7. Follows(y, op, q.item)
  BY <1>2, <1>4, OperationFollows
<1>8. e \in [Nat -> Sources] /\ Len(y.revisions) \in Nat /\ \A r \in Nat : r > Len(y.revisions) => e[r] = NoSession
  BY <1>1, <1>2 DEF Stands, Items
<1>9. \A r \in Nat : r > Len(q.item.revisions) => e[r] = NoSession
  BY <1>7, <1>8 DEF Follows
<1>10. ApplyLive(item, op) = Shown(q.item, TRUE, e)
  <2>1. item = Shown(y, TRUE, e) /\ TRUE \in BOOLEAN
    BY <1>1 DEF Stands
  <2>2. CASE op.kind \in Inserts
    <3>1. op.revision = Len(y.revisions) + 1
      BY <1>2, <2>2 DEF OpFits
    <3>2. e[op.revision] = NoSession
      BY <1>8, <3>1
    <3>3. ApplyOperation(item, op, TRUE, e[op.revision]) = Shown(ApplyLive(y, op), TRUE, e)
      BY <1>2, <1>8, <2>1, <2>2, ShowsInsertion
    <3> QED
      BY <1>4, <3>2, <3>3 DEF ApplyLive
  <2>3. CASE op.kind \notin Inserts
    <3>0. PICK yes : yes = TRUE
      OBVIOUS
    <3>1. ApplyOperation(Shown(y, yes, e), op, yes, NoSession) = Shown(ApplyLive(y, op), yes, e)
      <4>1. yes \in BOOLEAN /\ e \in [Nat -> Sources] /\ Regular(y) /\ OpFits(y, op)
        BY <1>2, <1>8, <3>0
      <4> QED
        BY <2>3, <4>1, ShowsOther
    <3> QED
      BY <1>4, <2>1, <3>0, <3>1 DEF ApplyLive
  <2> QED
    BY <2>2, <2>3
<1>11. q.item.scope \in {y.scope, NoSession, scope}
  BY <1>7 DEF Follows, Planned
<1> QED
  BY <1>1, <1>2, <1>3, <1>5, <1>6, <1>8, <1>9, <1>10, <1>11 DEF Stands

\* The batches of the planner: at most four operations, the first of which
\* begins the batch.
PlannedBatch(batch, scope) ==
    /\ batch \in Seq(Operations) /\ Len(batch) \in 1..4
    /\ \A i \in 1..Len(batch) : Planned(batch[i], scope) /\ (batch[i].first <=> i = 1)

\* What a batch leaves of a replay.
AfterBatch(p, q, scope) ==
    /\ q.batches = p.batches + 1
    /\ q.before = p.item.active /\ q.changes = Changed(p)
    /\ q.item.scope \in {p.item.scope, NoSession, scope}

\* The operations up to one of a batch.
Upto(ops, batch, k) == [i \in 1..Len(ops) + k |-> IF i <= Len(ops) THEN ops[i] ELSE batch[i - Len(ops)]]

\* That is a sequence of operations,
LEMMA UptoIs ==
  ASSUME NEW ops \in Seq(Operations), NEW batch \in Seq(Operations), NEW k \in 0..Len(batch)
  PROVE  /\ Upto(ops, batch, k) \in Seq(Operations) /\ Len(Upto(ops, batch, k)) = Len(ops) + k
         /\ \A i \in 1..Len(ops) : Upto(ops, batch, k)[i] = ops[i]
         /\ \A i \in 1..k : Upto(ops, batch, k)[Len(ops) + i] = batch[i]
<1>0. PICK s : s = Upto(ops, batch, k)
  OBVIOUS
<1>1. Len(ops) \in Nat /\ Len(batch) \in Nat /\ k \in Nat /\ k <= Len(batch)
  OBVIOUS
<1>2. /\ \A i \in 1..Len(ops) : ops[i] \in Operations
      /\ \A i \in 1..Len(batch) : batch[i] \in Operations
  OBVIOUS
<1>3. \A i \in 1..Len(ops) + k : (IF i <= Len(ops) THEN ops[i] ELSE batch[i - Len(ops)]) \in Operations
  <2> SUFFICES ASSUME NEW i \in 1..Len(ops) + k
               PROVE  (IF i <= Len(ops) THEN ops[i] ELSE batch[i - Len(ops)]) \in Operations
    OBVIOUS
  <2>1. CASE i <= Len(ops)
    BY <1>1, <1>2, <2>1
  <2>2. CASE ~(i <= Len(ops))
    <3>1. i - Len(ops) \in 1..Len(batch)
      BY <1>1, <2>2
    <3> QED
      BY <1>2, <2>2, <3>1
  <2> QED
    BY <2>1, <2>2
<1>4. s \in [1..Len(ops) + k -> Operations] /\ Len(ops) + k \in Nat
  BY <1>0, <1>1, <1>3 DEF Upto
<1>5. s \in Seq(Operations)
  BY <1>4, FunctionIsSeq
<1>6. Len(s) = Len(ops) + k
  BY <1>4, <1>5
<1>7. ASSUME NEW i \in 1..Len(ops) PROVE s[i] = ops[i]
  <2>1. i \in 1..Len(ops) + k /\ i <= Len(ops)
    BY <1>1
  <2> QED
    BY <1>0, <2>1 DEF Upto
<1>8. ASSUME NEW i \in 1..k PROVE s[Len(ops) + i] = batch[i]
  <2>1. Len(ops) + i \in 1..Len(ops) + k /\ ~(Len(ops) + i <= Len(ops)) /\ (Len(ops) + i) - Len(ops) = i
    BY <1>1
  <2>2. PICK j : j = Len(ops) + i
    OBVIOUS
  <2>3. s[j] = batch[j - Len(ops)]
    BY <1>0, <2>1, <2>2 DEF Upto
  <2> QED
    BY <2>1, <2>2, <2>3
<1> QED
  BY <1>0, <1>5, <1>6, <1>7, <1>8

\* from the ledger before the batch
LEMMA UptoNone ==
  ASSUME NEW ops \in Seq(Operations), NEW batch \in Seq(Operations)
  PROVE  Upto(ops, batch, 0) = ops
<1>1. PICK s : s = Upto(ops, batch, 0)
  OBVIOUS
<1>2. 0 \in 0..Len(batch) /\ Len(ops) + 0 = Len(ops)
  OBVIOUS
<1>3. s \in Seq(Operations) /\ Len(s) = Len(ops) /\ \A i \in 1..Len(ops) : s[i] = ops[i]
  BY <1>1, <1>2, UptoIs
<1> QED
  BY <1>1, <1>3, SeqEqual

\* to the ledger after it.
LEMMA UptoAll ==
  ASSUME NEW ops \in Seq(Operations), NEW batch \in Seq(Operations)
  PROVE  Upto(ops, batch, Len(batch)) = ops \o batch
<1>1. PICK s, n, m : s = Upto(ops, batch, Len(batch)) /\ n = Len(ops) /\ m = Len(batch)
  OBVIOUS
<1>2. n \in Nat /\ m \in Nat /\ m \in 0..m
  BY <1>1
<1>3. /\ s \in Seq(Operations) /\ Len(s) = n + m
      /\ \A i \in 1..n : s[i] = ops[i]
      /\ \A i \in 1..m : s[n + i] = batch[i]
  BY <1>1, <1>2, UptoIs
<1>4. PICK t : t = ops \o batch
  OBVIOUS
<1>5. t \in Seq(Operations) /\ Len(t) = n + m
  BY <1>1, <1>4
<1>6. ASSUME NEW i \in 1..n PROVE t[i] = ops[i]
  BY <1>1, <1>2, <1>4, <1>5, ConcatProperties
<1>7. ASSUME NEW i \in 1..m PROVE t[n + i] = batch[i]
  BY <1>1, <1>2, <1>4, <1>5, ConcatProperties
<1>8. ASSUME NEW i \in 1..n + m PROVE s[i] = t[i]
  <2>1. CASE i \in 1..n
    BY <1>3, <1>6, <2>1
  <2>2. CASE i \notin 1..n
    <3>1. PICK j \in 1..m : i = n + j
      <4>1. i - n \in 1..m /\ i = n + (i - n)
        BY <1>2, <2>2
      <4> QED
        BY <4>1
    <3> QED
      BY <1>3, <1>7, <3>1
  <2> QED
    BY <2>1, <2>2
<1> QED
  BY <1>1, <1>3, <1>4, <1>5, <1>8, SeqEqual

\* One operation more.
LEMMA UptoNext ==
  ASSUME NEW ops \in Seq(Operations), NEW batch \in Seq(Operations), NEW k \in 1..Len(batch)
  PROVE  Append(Upto(ops, batch, k - 1), batch[k]) = Upto(ops, batch, k)
<1>1. PICK s, u, n, l : s = Upto(ops, batch, k - 1) /\ u = Upto(ops, batch, k) /\ n = Len(ops) /\ l = k - 1
  OBVIOUS
<1>2. n \in Nat /\ l \in 0..Len(batch) /\ k \in 0..Len(batch) /\ l \in Nat /\ k = l + 1 /\ k \in Nat
  BY <1>1
<1>3. /\ s \in Seq(Operations) /\ Len(s) = n + l
      /\ \A i \in 1..n : s[i] = ops[i]
      /\ \A i \in 1..l : s[n + i] = batch[i]
  <2>1. s = Upto(ops, batch, l)
    BY <1>1
  <2>2. \A a \in 0..Len(batch) :
            /\ Upto(ops, batch, a) \in Seq(Operations) /\ Len(Upto(ops, batch, a)) = n + a
            /\ \A i \in 1..n : Upto(ops, batch, a)[i] = ops[i]
            /\ \A i \in 1..a : Upto(ops, batch, a)[n + i] = batch[i]
    BY <1>1, UptoIs
  <2> QED
    BY <1>2, <2>1, <2>2, Zenon
<1>4. /\ u \in Seq(Operations) /\ Len(u) = n + k
      /\ \A i \in 1..n : u[i] = ops[i]
      /\ \A i \in 1..k : u[n + i] = batch[i]
  <2>1. u = Upto(ops, batch, k)
    BY <1>1
  <2>2. \A a \in 0..Len(batch) :
            /\ Upto(ops, batch, a) \in Seq(Operations) /\ Len(Upto(ops, batch, a)) = n + a
            /\ \A i \in 1..n : Upto(ops, batch, a)[i] = ops[i]
            /\ \A i \in 1..a : Upto(ops, batch, a)[n + i] = batch[i]
    BY <1>1, UptoIs
  <2> QED
    BY <1>2, <2>1, <2>2, Zenon
<1>5. batch[k] \in Operations
  OBVIOUS
<1>6. PICK t : t = Append(s, batch[k])
  OBVIOUS
<1>7. /\ t \in Seq(Operations) /\ Len(t) = Len(s) + 1 /\ t[Len(s) + 1] = batch[k]
      /\ \A i \in 1..Len(s) : t[i] = s[i]
  BY <1>3, <1>5, <1>6, Appends
<1>8. Len(t) = n + k /\ t[n + k] = batch[k] /\ \A i \in 1..n + l : t[i] = s[i]
  <2>1. Len(s) + 1 = n + k
    BY <1>2, <1>3
  <2> QED
    BY <1>3, <1>7, <2>1
<1>9. ASSUME NEW i \in 1..n + k PROVE t[i] = u[i]
  <2>1. CASE i \in 1..n
    <3>1. i \in 1..n + l
      BY <1>2, <2>1
    <3> QED
      BY <1>3, <1>4, <1>8, <2>1, <3>1
  <2>2. CASE i \notin 1..n
    <3>1. PICK j \in 1..k : i = n + j
      <4>1. i - n \in 1..k /\ i = n + (i - n)
        BY <1>2, <2>2
      <4> QED
        BY <4>1
    <3>2. u[i] = batch[j]
      BY <1>4, <3>1
    <3>3. CASE j = k
      BY <1>8, <3>1, <3>2, <3>3
    <3>4. CASE j # k
      <4>1. j \in 1..l /\ i \in 1..n + l
        BY <1>2, <3>1, <3>4
      <4> QED
        BY <1>3, <1>8, <3>1, <3>2, <4>1
    <3> QED
      BY <3>3, <3>4
  <2> QED
    BY <2>1, <2>2
<1> QED
  BY <1>1, <1>4, <1>6, <1>7, <1>8, <1>9, SeqEqual

\* The replay of a committed batch.
LEMMA StandsBatch ==
  ASSUME NEW ops, NEW p, NEW e, NEW item, Stands(ops, p, e, item), NEW batch, NEW scope, PlannedBatch(batch, scope),
         StoreAccepts(item, batch)
  PROVE  \E q : Stands(ops \o batch, q, e, Projected(item, batch, Len(batch))) /\ AfterBatch(p, q, scope)
<1>0. PICK size : size = Len(batch)
  OBVIOUS
<1>1. /\ batch \in Seq(Operations) /\ size \in 1..4 /\ ops \in Seq(Operations)
      /\ \A i \in 1..size : Planned(batch[i], scope) /\ (batch[i].first <=> i = 1)
  BY <1>0 DEF PlannedBatch, Stands
<1>2. \A i \in 1..size : RequireRevisionState(Projected(item, batch, i - 1), batch[i])
  <2>1. DOMAIN batch = 1..size
    BY <1>0, <1>1
  <2> QED
    BY <2>1 DEF StoreAccepts
<1>3. /\ Projected(item, batch, 0) = item
      /\ Projected(item, batch, 1) = ApplyLive(item, batch[1])
      /\ Projected(item, batch, 2) = ApplyLive(Projected(item, batch, 1), batch[2])
      /\ Projected(item, batch, 3) = ApplyLive(Projected(item, batch, 2), batch[3])
      /\ Projected(item, batch, 4) = ApplyLive(Projected(item, batch, 3), batch[4])
  BY ProjectedIs
<1>4. /\ Upto(ops, batch, 0) = ops /\ Upto(ops, batch, size) = ops \o batch
      /\ \A k \in 1..size : Append(Upto(ops, batch, k - 1), batch[k]) = Upto(ops, batch, k)
  BY <1>0, <1>1, UptoNone, UptoAll, UptoNext
<1>5. p \in Replayed /\ Regular(p.item)
  BY ReplaysTo DEF Stands
<1> DEFINE There(k) == \E q : Stands(Upto(ops, batch, k), q, e, Projected(item, batch, k)) /\ AfterBatch(p, q, scope)
<1>6. There(1)
  <2>1. 1 \in 1..size /\ 1 - 1 = 0
    BY <1>1
  <2>2. Planned(batch[1], scope) /\ batch[1].first
    BY <1>1, <2>1
  <2>3. RequireRevisionState(item, batch[1])
    BY <1>2, <1>3, <2>1
  <2>4. PICK a : a = PureStep(p, batch[1])
    OBVIOUS
  <2>5. Stands(Append(ops, batch[1]), a, e, ApplyLive(item, batch[1])) /\ OpFits(p.item, batch[1])
        /\ a.item.scope \in {p.item.scope, NoSession, scope}
    BY <2>2, <2>3, <2>4, StandsNext
  <2>6. a.batches = p.batches + 1 /\ a.changes = Changed(p) /\ a.before = p.item.active
    BY <1>5, <2>2, <2>4, <2>5, PureStepIs
  <2>7. Append(ops, batch[1]) = Upto(ops, batch, 1)
    BY <1>4, <2>1
  <2> QED
    BY <1>3, <2>5, <2>6, <2>7 DEF AfterBatch
<1>7. ASSUME NEW k \in 2..4, k <= size, There(k - 1),
             Projected(item, batch, k) = ApplyLive(Projected(item, batch, k - 1), batch[k])
      PROVE  There(k)
  <2>1. k \in 1..size /\ k # 1
    BY <1>1, <1>7
  <2>2. Planned(batch[k], scope) /\ ~batch[k].first
    BY <1>1, <2>1
  <2>3. PICK here : here = Projected(item, batch, k - 1)
    OBVIOUS
  <2>4. RequireRevisionState(here, batch[k])
    BY <1>2, <2>1, <2>3
  <2>5. PICK b : Stands(Upto(ops, batch, k - 1), b, e, here) /\ AfterBatch(p, b, scope)
    BY <1>7, <2>3
  <2>6. PICK c : c = PureStep(b, batch[k])
    OBVIOUS
  <2>7. Stands(Append(Upto(ops, batch, k - 1), batch[k]), c, e, ApplyLive(here, batch[k])) /\ OpFits(b.item, batch[k])
        /\ c.item.scope \in {b.item.scope, NoSession, scope}
    BY <2>2, <2>4, <2>5, <2>6, StandsNext
  <2>8. b \in Replayed /\ Regular(b.item)
    BY <2>5, ReplaysTo DEF Stands
  <2>9. c.batches = b.batches /\ c.changes = b.changes /\ c.before = b.before
    BY <2>2, <2>6, <2>7, <2>8, PureStepIs
  <2>10. AfterBatch(p, c, scope)
    BY <2>5, <2>7, <2>9 DEF AfterBatch
  <2>11. Append(Upto(ops, batch, k - 1), batch[k]) = Upto(ops, batch, k)
    BY <1>4, <2>1
  <2>12. Projected(item, batch, k) = ApplyLive(here, batch[k])
    BY <1>7, <2>3
  <2> QED
    BY <2>7, <2>10, <2>11, <2>12
<1> HIDE DEF There
<1>8. ASSUME 2 <= size PROVE There(2)
  <2>1. 2 - 1 = 1 /\ 2 \in 2..4
    OBVIOUS
  <2> QED
    BY <1>3, <1>6, <1>7, <1>8, <2>1
<1>9. ASSUME 3 <= size PROVE There(3)
  <2>1. 3 - 1 = 2 /\ 3 \in 2..4 /\ 2 <= size
    BY <1>1, <1>9
  <2> QED
    BY <1>3, <1>7, <1>8, <1>9, <2>1
<1>10. ASSUME 4 <= size PROVE There(4)
  <2>1. 4 - 1 = 3 /\ 4 \in 2..4 /\ 3 <= size
    BY <1>1, <1>10
  <2> QED
    BY <1>3, <1>7, <1>9, <1>10, <2>1
<1>11. There(size)
  BY <1>1, <1>6, <1>8, <1>9, <1>10
<1> QED
  BY <1>0, <1>4, <1>11 DEF There

\* A batch of planned operations is a planned batch.
LEMMA BatchIsPlanned ==
  ASSUME NEW scope, NEW ops \in Seq(Operations), Len(ops) \in 1..4, \A i \in 1..Len(ops) : Planned(ops[i], scope),
         NEW batch, batch = Batch(ops)
  PROVE  PlannedBatch(batch, scope) /\ Len(batch) = Len(ops)
<1>1. /\ batch \in Seq(Operations) /\ Len(batch) = Len(ops)
      /\ \A i \in 1..Len(ops) :
            /\ batch[i].kind = ops[i].kind /\ batch[i].revision = ops[i].revision
            /\ batch[i].other = ops[i].other /\ batch[i].draft = ops[i].draft
            /\ batch[i].scope = ops[i].scope
  BY BatchIs
<1>2. ASSUME NEW i \in 1..Len(ops) PROVE Planned(batch[i], scope)
  <2>1. batch[i] \in Operations
    BY <1>1
  <2> QED
    BY <1>1, <1>2, <2>1 DEF Planned
<1>3. ASSUME NEW i \in 1..Len(ops) PROVE batch[i].first <=> i = 1
  <2>1. ops[i] \in Operations /\ DOMAIN ops = 1..Len(ops)
    OBVIOUS
  <2>2. PICK one : one = (i = 1)
    OBVIOUS
  <2>3. batch[i] = [ops[i] EXCEPT !.first = one]
    BY <2>1, <2>2 DEF Batch
  <2>4. batch[i].first = one
    BY <2>1, <2>3 DEF Operations
  <2> QED
    BY <2>2, <2>4
<1> QED
  BY <1>1, <1>2, <1>3 DEF PlannedBatch

\* An operation without a draft is planned.
LEMMA PlainIsPlanned ==
  ASSUME NEW scope, NEW kind \in Kinds \ Inserts, NEW r \in Nat, NEW other \in Nat
  PROVE  Planned(Operation(kind, r, other, NoDraft), scope)
<1>1. NoDraft \in Drafts
  BY DEF NoDraft, Drafts, Sources
<1>2. kind \in Kinds /\ kind \notin Inserts /\ kind # "MemoryCreated"
  BY DEF Inserts
<1>3. Operation(kind, r, other, NoDraft) \in Operations /\ Operation(kind, r, other, NoDraft).kind = kind
  BY <1>1, <1>2, OperationIs
<1>4. Operation(kind, r, other, NoDraft).scope = NoSession
  BY DEF Operation
<1> QED
  BY <1>2, <1>3, <1>4 DEF Planned

\* With one.
LEMMA DraftIsPlanned ==
  ASSUME NEW scope, NEW kind \in {"MemoryRevised", "ProposalApproved"}, NEW r \in Nat \ {0}, NEW other \in Nat,
         NEW draft \in Drafts, draft.origin # "none"
  PROVE  Planned(Operation(kind, r, other, draft), scope)
<1>1. kind \in Kinds /\ kind # "MemoryCreated" /\ r \in Nat /\ r > 0
  BY DEF Kinds
<1>2. PICK op : op = Operation(kind, r, other, draft)
  OBVIOUS
<1>3. op \in Operations /\ op.kind = kind /\ op.draft = draft /\ op.revision = r
  BY <1>1, <1>2, OperationIs DEF Operation
<1>4. op.scope = NoSession
  BY <1>2 DEF Operation
<1> QED
  BY <1>1, <1>2, <1>3, <1>4 DEF Planned

\* The plans of the commands on a memory that exists.
LEMMA SinglePlans ==
  ASSUME NEW scope, NEW kind \in Kinds \ Inserts, NEW r \in Nat
  PROVE  PlannedBatch(PlanSingle(kind, r), scope)
<1>1. PICK op : op = Operation(kind, r, 0, NoDraft)
  OBVIOUS
<1>0. Planned(op, scope)
  BY <1>1, PlainIsPlanned
<1>2. Planned(op, scope) /\ op \in Operations
  BY <1>0 DEF Planned
<1>3. PICK ops : ops = <<op>>
  OBVIOUS
<1>4. ops \in Seq(Operations) /\ Len(ops) = 1 /\ \A i \in 1..1 : ops[i] = op
  BY <1>2, <1>3
<1>5. PICK batch : batch = Batch(ops)
  OBVIOUS
<1>6. PlannedBatch(batch, scope)
  <2>1. Len(ops) \in 1..4 /\ \A i \in 1..Len(ops) : Planned(ops[i], scope)
    BY <1>2, <1>4
  <2> QED
    BY <1>4, <1>5, <2>1, BatchIsPlanned
<1> QED
  BY <1>1, <1>3, <1>5, <1>6 DEF PlanSingle

\* One that puts a new revision in the place of another,
LEMMA SuccessionPlans ==
  ASSUME NEW scope, NEW kind \in {"MemoryRevised", "ProposalApproved"}, NEW n \in Nat \ {0}, NEW r \in Nat, NEW other \in Nat,
         NEW draft \in Drafts, draft.origin # "none"
  PROVE  PlannedBatch(Batch(<<Operation(kind, n, other, draft), Validated(n), Activated(n), Superseded(r, n)>>), scope)
<1>0. /\ n \in Nat /\ 0 \in Nat /\ "RevisionValidated" \in Kinds \ Inserts /\ "RevisionActivated" \in Kinds \ Inserts
      /\ "RevisionSuperseded" \in Kinds \ Inserts
  BY DEF Kinds, Inserts
<1>1. PICK a : a = Operation(kind, n, other, draft)
  OBVIOUS
<1>2. PICK b : b = Validated(n)
  OBVIOUS
<1>3. PICK c : c = Activated(n)
  OBVIOUS
<1>4. PICK d : d = Superseded(r, n)
  OBVIOUS
<1>5. Planned(a, scope)
  BY <1>1, DraftIsPlanned
<1>6. Planned(b, scope)
  BY <1>0, <1>2, PlainIsPlanned DEF Validated
<1>7. Planned(c, scope)
  BY <1>0, <1>3, PlainIsPlanned DEF Activated
<1>8. Planned(d, scope)
  BY <1>0, <1>4, PlainIsPlanned DEF Superseded
<1>9. PICK ops : ops = <<a, b, c, d>>
  OBVIOUS
<1>10. a \in Operations /\ b \in Operations /\ c \in Operations /\ d \in Operations
  BY <1>5, <1>6, <1>7, <1>8 DEF Planned
<1>11. ops \in Seq(Operations) /\ Len(ops) = 4 /\ ops[1] = a /\ ops[2] = b /\ ops[3] = c /\ ops[4] = d
  BY <1>9, <1>10
<1>12. \A i \in 1..4 : Planned(ops[i], scope)
  <2>1. \A i \in 1..4 : i = 1 \/ i = 2 \/ i = 3 \/ i = 4
    OBVIOUS
  <2> QED
    BY <1>5, <1>6, <1>7, <1>8, <1>11, <2>1
<1>13. Len(ops) \in 1..4 /\ \A i \in 1..Len(ops) : Planned(ops[i], scope)
  BY <1>11, <1>12
<1>14. PlannedBatch(Batch(ops), scope)
  BY <1>11, <1>13, BatchIsPlanned
<1> QED
  BY <1>1, <1>2, <1>3, <1>4, <1>9, <1>14

\* by a revision of the user
LEMMA RevisePlans ==
  ASSUME NEW scope, NEW m, Len(items[m].revisions) \in Nat, NEW r \in Nat
  PROVE  PlannedBatch(PlanRevise(m, r), scope)
<1>1. PICK n : n = NextRevision(m)
  OBVIOUS
<1>2. n \in Nat \ {0} /\ 0 \in Nat
  BY <1>1 DEF NextRevision
<1>3. PICK draft : draft = UserDraft(r)
  OBVIOUS
<1>4. draft \in Drafts /\ draft.origin # "none"
  BY <1>3 DEF UserDraft, NoDraft, Drafts, Sources, Origins
<1>5. PlannedBatch(Batch(<<Operation("MemoryRevised", n, 0, draft), Validated(n), Activated(n), Superseded(r, n)>>), scope)
  BY <1>2, <1>4, SuccessionPlans
<1> QED
  BY <1>1, <1>3, <1>5 DEF PlanRevise

\* or by the approval of a proposal.
LEMMA ApprovePlans ==
  ASSUME NEW scope, NEW m, items[m] \in Items, NEW r \in DOMAIN items[m].revisions
  PROVE  PlannedBatch(PlanApprove(m, r), scope)
<1>1. PICK n : n = NextRevision(m)
  OBVIOUS
<1>2. n \in Nat \ {0} /\ r \in Nat /\ items[m].revisions[r] \in Rows
  BY <1>1 DEF NextRevision, Items
<1>3. PICK replaced : replaced = SupersededBy(m, r)
  OBVIOUS
<1>4. replaced \in Nat
  BY <1>2, <1>3 DEF SupersededBy, Rows
<1>5. PICK draft : draft = UserDraft(replaced)
  OBVIOUS
<1>6. draft \in Drafts /\ draft.origin # "none"
  BY <1>4, <1>5 DEF UserDraft, NoDraft, Drafts, Sources, Origins
<1>7. PlannedBatch(Batch(<<Operation("ProposalApproved", n, r, draft), Validated(n), Activated(n), Superseded(replaced, n)>>), scope)
  BY <1>2, <1>4, <1>6, SuccessionPlans
<1> QED
  BY <1>1, <1>3, <1>5, <1>7 DEF PlanApprove

\* The plan of a creation.
LEMMA CreatePlans ==
  ASSUME NEW m, NEW scope \in Scopes, NEW draft \in Drafts, draft.origin # "none", NEW verdict
  PROVE  PlannedBatch(PlanCreate(m, scope, draft, verdict), scope)
<1>1. PICK created : created = [Operation("MemoryCreated", 1, 0, draft) EXCEPT !.scope = scope]
  OBVIOUS
<1>2. /\ created \in Operations /\ created.kind = "MemoryCreated" /\ created.revision = 1 /\ created.draft = draft
      /\ created.scope = scope
  BY <1>1 DEF Operation, Operations, Kinds, Scopes
<1>3. Planned(created, scope)
  BY <1>2 DEF Planned
<1>4. PICK validated : validated = Validated(1)
  OBVIOUS
<1>5. PICK activated : activated = Activated(1)
  OBVIOUS
<1>6. "RevisionValidated" \in Kinds \ Inserts /\ "RevisionActivated" \in Kinds \ Inserts /\ 1 \in Nat /\ 0 \in Nat
  BY DEF Kinds, Inserts
<1>7. Planned(validated, scope) /\ Planned(activated, scope)
  BY <1>4, <1>5, <1>6, PlainIsPlanned DEF Validated, Activated
<1>8. validated \in Operations /\ activated \in Operations /\ ~activated.first
  <2>1. activated.first = FALSE
    BY <1>5 DEF Activated, Operation
  <2> QED
    BY <1>7, <2>1 DEF Planned
<1>9. PICK ops : ops = <<created, validated>>
  OBVIOUS
<1>10. ops \in Seq(Operations) /\ Len(ops) = 2 /\ ops[1] = created /\ ops[2] = validated
  BY <1>2, <1>8, <1>9
<1>11. PICK review : review = Batch(ops)
  OBVIOUS
<1>12. PlannedBatch(review, scope) /\ Len(review) = 2
  <2>1. \A i \in 1..2 : i = 1 \/ i = 2
    OBVIOUS
  <2>2. Len(ops) \in 1..4 /\ \A i \in 1..Len(ops) : Planned(ops[i], scope)
    BY <1>3, <1>7, <1>10, <2>1
  <2> QED
    BY <1>10, <1>11, <2>2, BatchIsPlanned
<1>13. PICK batch : batch = Append(review, activated)
  OBVIOUS
<1>14. PlannedBatch(batch, scope)
  <2>1. review \in Seq(Operations)
    BY <1>12 DEF PlannedBatch
  <2>2. /\ batch \in Seq(Operations) /\ Len(batch) = 3 /\ batch[3] = activated
        /\ \A i \in 1..2 : batch[i] = review[i]
    <3>1. /\ batch \in Seq(Operations) /\ Len(batch) = Len(review) + 1 /\ batch[Len(review) + 1] = activated
          /\ \A i \in 1..Len(review) : batch[i] = review[i]
      BY <1>8, <1>13, <2>1, Appends
    <3> QED
      BY <1>12, <3>1
  <2>3. ASSUME NEW i \in 1..3 PROVE Planned(batch[i], scope) /\ (batch[i].first <=> i = 1)
    <3>1. CASE i = 3
      <4>1. batch[3].first <=> 3 = 1
        BY <1>8, <2>2
      <4> QED
        BY <1>7, <2>2, <3>1, <4>1
    <3>2. CASE i # 3
      <4>1. i \in 1..2
        BY <3>2
      <4> QED
        BY <1>12, <2>2, <4>1 DEF PlannedBatch
    <3> QED
      BY <3>1, <3>2
  <2> QED
    BY <2>2, <2>3 DEF PlannedBatch
<1>15. PlanCreate(m, scope, draft, verdict) \in {review, batch}
  BY <1>1, <1>4, <1>5, <1>9, <1>11, <1>13 DEF PlanCreate
<1> QED
  BY <1>12, <1>14, <1>15

-----------------------------------------------------------------------------
(* A rebuild shows the replay. *)

\* Whether a memory's sidecars are still there when a rebuild reads them.
Kept(m) == m \notin DeletedMemories

\* One step of a rebuild, column by column.
LEMMA ReplayStepBegins ==
  ASSUME NEW m, NEW op, op.first, NEW item, NEW batches, NEW changes, NEW before, NEW retained, retained = Kept(m),
         NEW next, next = ApplyOperation(item, op, retained, RebuildErasure(m, op.revision, op.draft))
  PROVE  ReplayStep(m, Entry(item, batches, changes, before), op) =
            Entry(next, batches + 1, changes + EligibilityStep([active |-> before], item), item.active)
<1>1. PICK x : x = Entry(item, batches, changes, before)
  OBVIOUS
<1>2. x.item = item /\ x.batches = batches /\ x.changes = changes /\ x.before = before
  BY <1>1 DEF Entry
<1>3. ReplayStep(m, x, op) =
        Entry(next, batches + 1, changes + EligibilityStep([active |-> before], item), item.active)
  BY <1>2 DEF ReplayStep, Kept, Entry
<1> QED
  BY <1>1, <1>3

\* The same for the operations that follow in a batch.
LEMMA ReplayStepGoesOn ==
  ASSUME NEW m, NEW op, ~op.first, NEW item, NEW batches, NEW changes, NEW before, NEW retained, retained = Kept(m),
         NEW next, next = ApplyOperation(item, op, retained, RebuildErasure(m, op.revision, op.draft))
  PROVE  ReplayStep(m, Entry(item, batches, changes, before), op) = Entry(next, batches, changes, before)
<1>1. PICK x : x = Entry(item, batches, changes, before)
  OBVIOUS
<1>2. x.item = item
  BY <1>1 DEF Entry
<1>3. [x EXCEPT !.item = next] = Entry(next, batches, changes, before)
  BY <1>1 DEF Entry
<1>4. ReplayStep(m, x, op) = [x EXCEPT !.item = next]
  BY <1>2 DEF ReplayStep, Kept
<1> QED
  BY <1>1, <1>3, <1>4

\* What a rebuild shows of an entry.
View(x, retained, e) == Entry(Shown(x.item, retained, e), x.batches, x.changes, x.before)

\* A step of a rebuild shows what a step with everything retained leaves.
LEMMA ShowsStep ==
  ASSUME NEW m, NEW x \in Replayed, Regular(x.item), NEW op, OpFits(x.item, op),
         NEW e \in [Nat -> Sources], NEW retained \in BOOLEAN, retained = Kept(m),
         op.kind \in Inserts => RebuildErasure(m, op.revision, op.draft) = e[op.revision]
  PROVE  ReplayStep(m, View(x, retained, e), op) = View(PureStep(x, op), retained, e)
<1>1. PICK y, next : y = x.item /\ next = ApplyLive(y, op)
  OBVIOUS
<1>2. PICK shown : shown = Shown(y, retained, e)
  OBVIOUS
<1>3. y \in Items /\ Regular(y) /\ OpFits(y, op)
  BY <1>1 DEF Regular
<1>4. shown.active = y.active
  BY <1>2, <1>3, ShownIs
<1>5. PICK erasure : erasure = RebuildErasure(m, op.revision, op.draft)
  OBVIOUS
<1>6. ApplyOperation(shown, op, retained, erasure) = Shown(next, retained, e)
  <2>1. CASE op.kind \in Inserts
    <3>1. erasure = e[op.revision]
      BY <1>5, <2>1
    <3>2. ApplyOperation(Shown(y, retained, e), op, retained, e[op.revision]) = Shown(ApplyLive(y, op), retained, e)
      BY <1>3, <2>1, ShowsInsertion
    <3> QED
      BY <1>1, <1>2, <3>1, <3>2
  <2>2. CASE op.kind \notin Inserts
    <3>1. ApplyOperation(Shown(y, retained, e), op, retained, erasure) = Shown(ApplyLive(y, op), retained, e)
      BY <1>3, <2>2, ShowsOther
    <3> QED
      BY <1>1, <1>2, <3>1
  <2> QED
    BY <2>1, <2>2
<1>7. View(x, retained, e) = Entry(shown, x.batches, x.changes, x.before)
  BY <1>1, <1>2 DEF View
<1>8. EligibilityStep([active |-> x.before], shown) = EligibilityStep([active |-> x.before], y)
  BY <1>4 DEF EligibilityStep
<1>9. PICK c : c = Changed(x)
  OBVIOUS
<1>10. c = x.changes + EligibilityStep([active |-> x.before], shown)
  BY <1>1, <1>8, <1>9 DEF Changed
<1>11. PICK z : z = PureStep(x, op)
  OBVIOUS
<1>12. CASE op.first
  <2>1. z = Entry(next, x.batches + 1, c, y.active)
    BY <1>1, <1>9, <1>11, <1>12 DEF PureStep
  <2>2. z.item = next /\ z.batches = x.batches + 1 /\ z.changes = c /\ z.before = y.active
    BY <2>1 DEF Entry
  <2>3. View(z, retained, e) = Entry(Shown(next, retained, e), x.batches + 1, c, y.active)
    BY <2>2 DEF View
  <2>4. ReplayStep(m, Entry(shown, x.batches, x.changes, x.before), op) =
            Entry(ApplyOperation(shown, op, retained, erasure), x.batches + 1, c, shown.active)
    <3>1. PICK applied : applied = ApplyOperation(shown, op, retained, RebuildErasure(m, op.revision, op.draft))
      OBVIOUS
    <3>2. ReplayStep(m, Entry(shown, x.batches, x.changes, x.before), op) =
            Entry(applied, x.batches + 1, x.changes + EligibilityStep([active |-> x.before], shown), shown.active)
      <4>1. \A w, b, k, a : w = ApplyOperation(shown, op, retained, RebuildErasure(m, op.revision, op.draft)) =>
                ReplayStep(m, Entry(shown, b, k, a), op) = Entry(w, b + 1, k + EligibilityStep([active |-> a], shown), shown.active)
        BY <1>12, ReplayStepBegins
      <4> QED
        BY <3>1, <4>1
    <3> QED
      BY <1>5, <1>10, <3>1, <3>2
  <2> QED
    BY <1>4, <1>6, <1>7, <1>11, <2>3, <2>4
<1>13. CASE ~op.first
  <2>1. z = Entry(next, x.batches, x.changes, x.before)
    BY <1>1, <1>11, <1>13 DEF PureStep
  <2>2. z.item = next /\ z.batches = x.batches /\ z.changes = x.changes /\ z.before = x.before
    BY <2>1 DEF Entry
  <2>3. View(z, retained, e) = Entry(Shown(next, retained, e), x.batches, x.changes, x.before)
    BY <2>2 DEF View
  <2>4. ReplayStep(m, Entry(shown, x.batches, x.changes, x.before), op) =
            Entry(ApplyOperation(shown, op, retained, erasure), x.batches, x.changes, x.before)
    <3>1. PICK applied : applied = ApplyOperation(shown, op, retained, RebuildErasure(m, op.revision, op.draft))
      OBVIOUS
    <3>2. ReplayStep(m, Entry(shown, x.batches, x.changes, x.before), op) = Entry(applied, x.batches, x.changes, x.before)
      <4>1. \A w, b, k, a : w = ApplyOperation(shown, op, retained, RebuildErasure(m, op.revision, op.draft)) =>
                ReplayStep(m, Entry(shown, b, k, a), op) = Entry(w, b, k, a)
        BY <1>13, ReplayStepGoesOn
      <4> QED
        BY <3>1, <4>1
    <3> QED
      BY <1>5, <3>1, <3>2
  <2> QED
    BY <1>6, <1>7, <1>11, <2>3, <2>4
<1> QED
  BY <1>12, <1>13

\* Nothing shows nothing.
LEMMA ShowsNothing ==
  ASSUME NEW retained, NEW e PROVE View(NoReplay, retained, e) = NoReplay
<1>1. ShownRows(<<>>, retained, e) = <<>>
  BY DEF ShownRows
<1>2. Shown(Absent, retained, e) = Absent
  BY <1>1 DEF Shown, Absent, Item
<1>3. NoReplay.item = Absent /\ NoReplay.batches = 0 /\ NoReplay.changes = 0 /\ NoReplay.before = 0
  BY DEF NoReplay
<1> QED
  BY <1>2, <1>3 DEF View, NoReplay, Entry

\* A rebuild of one memory shows the replay of its operations.
LEMMA ReplayIs ==
  ASSUME NEW m, NEW p, NEW e \in [Nat -> Sources], ledger[m] \in Seq(Operations), Replays(ledger[m], p),
         NEW retained \in BOOLEAN, retained = Kept(m),
         \A n \in 1..Len(ledger[m]) : ledger[m][n].kind \in Inserts =>
            RebuildErasure(m, ledger[m][n].revision, ledger[m][n].draft) = e[ledger[m][n].revision]
  PROVE  ReplayMemory(m) = View(p, retained, e)
<1> DEFINE N == Len(ledger[m])
           F(h) == [n \in 0..N |-> IF n = 0 THEN NoReplay ELSE ReplayStep(m, h[n - 1], ledger[m][n])]
           it == CHOOSE h : h = F(h)
<1>1. ReplayMemory(m) = it[N]
  BY DEF ReplayMemory
<1>2. PICK f : History(ledger[m], f) /\ f[N] = p
  BY DEF Replays
<1> DEFINE g == [n \in 0..N |-> View(f[n], retained, e)]
<1>3. N \in Nat
  OBVIOUS
<1>4. g = F(g)
  <2>1. ASSUME NEW n \in 0..N PROVE View(f[n], retained, e) = IF n = 0 THEN NoReplay ELSE ReplayStep(m, g[n - 1], ledger[m][n])
    <3>1. CASE n = 0
      BY <1>2, <3>1, ShowsNothing DEF History
    <3>2. CASE n # 0
      <4>1. n - 1 \in 0..N /\ n \in 1..N
        BY <1>3, <3>2
      <4>2. PICK x, op : x = f[n - 1] /\ op = ledger[m][n]
        OBVIOUS
      <4>3. x \in Replayed /\ Regular(x.item) /\ OpFits(x.item, op) /\ f[n] = PureStep(x, op)
        BY <1>2, <4>1, <4>2 DEF History
      <4>4. op.kind \in Inserts => RebuildErasure(m, op.revision, op.draft) = e[op.revision]
        BY <4>1, <4>2
      <4>5. ReplayStep(m, View(x, retained, e), op) = View(PureStep(x, op), retained, e)
        BY <4>3, <4>4, ShowsStep
      <4>6. g[n - 1] = View(x, retained, e)
        BY <4>1, <4>2
      <4> QED
        BY <3>2, <4>2, <4>3, <4>5, <4>6
    <3> QED
      BY <3>1, <3>2
  <2> QED
    BY <2>1
<1>5. it = F(it)
  <2> HIDE DEF F, g
  <2> QED
    BY <1>4
<1> HIDE DEF it
<1>6. ASSUME NEW n \in 0..N PROVE it[n] = IF n = 0 THEN NoReplay ELSE ReplayStep(m, it[n - 1], ledger[m][n])
  BY <1>5
<1>7. ASSUME NEW n \in 0..N PROVE g[n] = IF n = 0 THEN NoReplay ELSE ReplayStep(m, g[n - 1], ledger[m][n])
  BY <1>4
<1> HIDE DEF F
<1>8. \A n \in 0..N : it[n] = g[n]
  <2> DEFINE T == {n \in 0..N : it[n] # g[n]}
  <2> SUFFICES ASSUME T # {} PROVE FALSE
    OBVIOUS
  <2>1. T \in SUBSET Nat
    BY <1>3
  <2>2. PICK n \in T : \A k \in T : n <= k
    BY <2>1, LeastExists
  <2>3. n \in 0..N /\ it[n] # g[n] /\ n \in Nat
    BY <2>1
  <2>4. CASE n = 0
    BY <1>6, <1>7, <2>3, <2>4
  <2>5. CASE n # 0
    <3>1. n - 1 \in 0..N /\ ~(n <= n - 1)
      BY <1>3, <2>3, <2>5
    <3>2. n - 1 \notin T
      BY <2>2, <3>1
    <3>3. it[n - 1] = g[n - 1]
      BY <3>1, <3>2
    <3> HIDE DEF g
    <3> QED
      BY <1>6, <1>7, <2>3, <2>5, <3>3
  <2> QED
    BY <2>4, <2>5
<1>9. g[N] = View(p, retained, e) /\ N \in 0..N
  BY <1>2, <1>3
<1> QED
  BY <1>1, <1>8, <1>9

-----------------------------------------------------------------------------
(* Every memory is the replay of its operations. *)

\* What a session's deletion leaves of a memory of the session.
Buried(x) ==
    Item(x.scope, "deleted", x.sequence, x.latest, 0,
         [r \in DOMAIN x.revisions |-> [x.revisions[r] EXCEPT !.state = "deleted"]], {})

\* The row of a memory is what the replay of its operations left, but for what
\* a session's deletion took.
Recorded(m, p, e) ==
    /\ ledger[m] \in Seq(Operations) /\ Replays(ledger[m], p)
    /\ e \in [Nat -> Sources] /\ \A r \in Nat : r > Len(p.item.revisions) => e[r] = NoSession
    /\ m \notin tombstones => items[m] = Shown(p.item, TRUE, e)
    /\ m \in tombstones => items[m] = Buried(Shown(p.item, FALSE, e))

\* The session's deletion took an active memory, quoted evidence, anything at all.
Struck(P) == \E m \in tombstones : P[m].item.active # 0
Quoted(E) == \E m \in Memories, r \in 1..MaxRevisions : E[m][r] = Session
Touched(E) == tombstones # {} \/ Quoted(E)

\* Both counters, from the replays.
Tally(P, E) ==
    /\ generation = Changed(P[Authored]) + Changed(P[Proposal]) + Changed(P[Compaction])
                        + (IF Struck(P) THEN 1 ELSE 0)
    /\ mutationGeneration = P[Authored].batches + P[Proposal].batches + P[Compaction].batches
                        + (IF Touched(E) THEN 1 ELSE 0)

\* A deleted session has no memory left, and an open one has taken nothing.
ScopeFacts(E) ==
    /\ session = "open" => \A m \in Memories : \A r \in Nat : E[m][r] = NoSession
    /\ session = "deleted" => \A m \in Memories : items[m].scope = Session => m \in tombstones

\* The replays and what was taken account for all that is stored.
Accounts(P, E) ==
    /\ P \in [Memories -> Replayed]
    /\ \A m \in Memories : Recorded(m, P[m], E[m])
    /\ Tally(P, E) /\ ScopeFacts(E)

\* What a rebuild relies on.
RebuildFacts == \E P, E : Accounts(P, E)

\* Nothing is the replay of nothing.
LEMMA InitAccounts ==
  ASSUME Init PROVE RebuildFacts
<1>1. PICK none : none = [r \in Nat |-> NoSession]
  OBVIOUS
<1>2. PICK P : P = [m \in Memories |-> NoReplay]
  OBVIOUS
<1>3. PICK E : E = [m \in Memories |-> none]
  OBVIOUS
<1>4. none \in [Nat -> Sources] /\ \A r \in Nat : none[r] = NoSession
  BY <1>1 DEF Sources
<1>5. /\ items = [m \in Memories |-> Absent] /\ ledger = [m \in Memories |-> <<>>]
      /\ generation = 0 /\ mutationGeneration = 0 /\ tombstones = {} /\ session = "open"
  BY DEF Init, MemoryInit
<1>6. Absent \in Items /\ Regular(Absent)
  <2>1. Absent \in Items
    BY DEF Absent, Items, Lifecycles
  <2>2. Absent.latest = 0 /\ Absent.revisions = <<>> /\ Absent.lifecycle = "absent" /\ Absent.active = 0
    BY DEF Absent
  <2>3. Len(Absent.revisions) = 0
    BY <2>2
  <2> QED
    BY <2>1, <2>2, <2>3 DEF Regular
<1>7. NoReplay.item = Absent /\ NoReplay.batches = 0 /\ NoReplay.changes = 0 /\ NoReplay.before = 0 /\ NoReplay \in Replayed
  BY <1>6 DEF NoReplay, Replayed
<1>8. Replays(<<>>, NoReplay)
  <2>1. RowsTell(<<>>, NoReplay.item)
    BY DEF RowsTell
  <2>2. PICK f : f = [n \in {0} |-> NoReplay]
    OBVIOUS
  <2>3. f[0] = NoReplay /\ Len(<<>>) = 0
    BY <2>2
  <2>4. History(<<>>, f)
    BY <1>6, <1>7, <2>3 DEF History
  <2> QED
    BY <2>1, <2>3, <2>4 DEF Replays
<1>9. Shown(Absent, TRUE, none) = Absent
  <2>1. View(NoReplay, TRUE, none) = NoReplay
    BY ShowsNothing
  <2>2. View(NoReplay, TRUE, none).item = Shown(NoReplay.item, TRUE, none)
    BY DEF View, Entry
  <2> QED
    BY <1>7, <2>1, <2>2
<1>10. ASSUME NEW m \in Memories PROVE Recorded(m, P[m], E[m])
  <2>1. P[m] = NoReplay /\ E[m] = none /\ ledger[m] = <<>> /\ items[m] = Absent
    BY <1>2, <1>3, <1>5
  <2>2. <<>> \in Seq(Operations)
    OBVIOUS
  <2> QED
    BY <1>4, <1>5, <1>7, <1>8, <1>9, <2>1, <2>2 DEF Recorded
<1>11. Changed(NoReplay) = 0
  BY <1>7 DEF Changed, EligibilityStep, Absent
<1>12. ~Struck(P) /\ ~Touched(E)
  <2>1. ASSUME NEW m \in Memories, NEW r \in 1..MaxRevisions PROVE E[m][r] # Session
    BY <1>3, <1>4, ScopeAssumption, RevisionsAssumption
  <2> QED
    BY <1>5, <2>1 DEF Struck, Touched, Quoted
<1>13. P[Authored] = NoReplay /\ P[Proposal] = NoReplay /\ P[Compaction] = NoReplay
  BY <1>2, MemoryNamesAssumption
<1>14. Tally(P, E)
  BY <1>5, <1>7, <1>11, <1>12, <1>13 DEF Tally
<1>15. ScopeFacts(E)
  BY <1>3, <1>4, <1>5 DEF ScopeFacts
<1>16. P \in [Memories -> Replayed]
  BY <1>2, <1>7
<1>17. Accounts(P, E)
  BY <1>10, <1>14, <1>15, <1>16 DEF Accounts
<1> QED
  BY <1>17 DEF RebuildFacts

\* A step that leaves the ledger and its projections alone.
LEMMA SameAccounts ==
  ASSUME RebuildFacts, UNCHANGED <<items, ledger, generation, mutationGeneration, tombstones, session>>
  PROVE  RebuildFacts'
<1>1. PICK P, E : Accounts(P, E)
  BY DEF RebuildFacts
<1>2. \A m \in Memories : Recorded(m, P[m], E[m]) => Recorded(m, P[m], E[m])'
  BY DEF Recorded
<1>3. Tally(P, E)'
  <2>1. Struck(P)' = Struck(P)
    BY DEF Struck
  <2>2. Touched(E)' = Touched(E)
    BY DEF Touched, Quoted
  <2> QED
    BY <1>1, <2>1, <2>2 DEF Accounts, Tally
<1>4. ScopeFacts(E)'
  BY <1>1 DEF Accounts, ScopeFacts
<1>5. Accounts(P, E)'
  BY <1>1, <1>2, <1>3, <1>4 DEF Accounts
<1> QED
  BY <1>5 DEF RebuildFacts

\* The columns a counter reads.
LEMMA CountsIs ==
  ASSUME NEW p \in Replayed
  PROVE  Changed(p) \in Nat /\ p.batches \in Nat /\ p.item \in Items
  BY DEF Replayed, Changed, EligibilityStep

\* A committed batch, in the account of its memory.
LEMMA BatchRecorded ==
  ASSUME NEW m, NEW p, NEW e, Recorded(m, p, e), m \notin tombstones,
         NEW batch, NEW scope, PlannedBatch(batch, scope), StoreAccepts(items[m], batch),
         NEW after, after = Projected(items[m], batch, Len(batch))
  PROVE  \E q : /\ Stands(ledger[m] \o batch, q, e, after) /\ q \in Replayed
                /\ q.batches = p.batches + 1
                /\ Changed(q) = Changed(p) + EligibilityStep(items[m], after)
                /\ after.scope \in {items[m].scope, NoSession, scope}
<1>1. PICK ops, item : ops = ledger[m] /\ item = items[m]
  OBVIOUS
<1>2. Stands(ops, p, e, item)
  BY <1>1 DEF Recorded, Stands
<1>3. StoreAccepts(item, batch) /\ after = Projected(item, batch, Len(batch))
  BY <1>1
<1>4. PICK q : Stands(ops \o batch, q, e, Projected(item, batch, Len(batch))) /\ AfterBatch(p, q, scope)
  BY <1>2, <1>3, StandsBatch
<1>5. PICK longer : longer = ops \o batch
  OBVIOUS
<1>6. Stands(longer, q, e, after) /\ AfterBatch(p, q, scope)
  BY <1>3, <1>4, <1>5
<1>7. p \in Replayed /\ Regular(p.item) /\ q \in Replayed /\ Regular(q.item)
  <2>1. ops \in Seq(Operations) /\ Replays(ops, p) /\ longer \in Seq(Operations) /\ Replays(longer, q)
    BY <1>2, <1>6 DEF Stands
  <2> QED
    BY <2>1, ReplaysTo
<1>8. PICK y, z : y = p.item /\ z = q.item
  OBVIOUS
<1>9. y \in Items /\ z \in Items
  BY <1>7, <1>8 DEF Regular
<1>10. e \in [Nat -> Sources] /\ item = Shown(y, TRUE, e) /\ after = Shown(z, TRUE, e)
  BY <1>2, <1>6, <1>8 DEF Stands
<1>11. PICK kept \in BOOLEAN : kept = TRUE
  OBVIOUS
<1>12. item = Shown(y, kept, e) /\ after = Shown(z, kept, e)
  BY <1>10, <1>11
<1>13. item.active = y.active /\ item.scope = y.scope /\ after.active = z.active /\ after.scope = z.scope
  <2>1. \A x \in Items : \A shown : shown = Shown(x, kept, e) => shown.active = x.active /\ shown.scope = x.scope
    BY <1>10, ShownIs
  <2> QED
    BY <1>9, <1>12, <2>1
<1>14. Changed(q) = Changed(p) + EligibilityStep(item, after)
  <2>1. q.changes = Changed(p) /\ q.before = y.active
    BY <1>6, <1>8 DEF AfterBatch
  <2>2. EligibilityStep([active |-> q.before], z) = EligibilityStep(item, after)
    BY <1>13, <2>1 DEF EligibilityStep
  <2> QED
    BY <1>8, <2>1, <2>2 DEF Changed
<1>15. q.batches = p.batches + 1 /\ after.scope \in {item.scope, NoSession, scope}
  BY <1>6, <1>8, <1>13 DEF AfterBatch
<1> QED
  BY <1>1, <1>5, <1>6, <1>7, <1>14, <1>15

\* Three numbers of which one changes.
LEMMA SumStep ==
  ASSUME NEW m \in Memories, NEW v, NEW w, NEW d, \A k \in Memories : v[k] \in Nat /\ w[k] \in Nat,
         \A k \in Memories \ {m} : w[k] = v[k], d \in Nat, w[m] = v[m] + d
  PROVE  w[Authored] + w[Proposal] + w[Compaction] = v[Authored] + v[Proposal] + v[Compaction] + d
<1>1. Authored \in Memories /\ Proposal \in Memories /\ Compaction \in Memories
  BY MemoryNamesAssumption
<1>2. CASE m = Authored
  <2>1. w[Proposal] = v[Proposal] /\ w[Compaction] = v[Compaction] /\ w[Authored] = v[Authored] + d
    BY <1>1, <1>2, MemoryNamesAssumption
  <2> QED
    BY <1>1, <2>1
<1>3. CASE m = Proposal
  <2>1. w[Authored] = v[Authored] /\ w[Compaction] = v[Compaction] /\ w[Proposal] = v[Proposal] + d
    BY <1>1, <1>3, MemoryNamesAssumption
  <2> QED
    BY <1>1, <2>1
<1>4. CASE m = Compaction
  <2>1. w[Authored] = v[Authored] /\ w[Proposal] = v[Proposal] /\ w[Compaction] = v[Compaction] + d
    BY <1>1, <1>4, MemoryNamesAssumption
  <2> QED
    BY <1>1, <2>1
<1> QED
  BY <1>2, <1>3, <1>4, MemoryNamesAssumption

\* A batch committed.
Committed(m, batch, scope) ==
    /\ m \in Memories \ DeletedMemories /\ PlannedBatch(batch, scope) /\ AppendMemoryBatch(m, batch)
    /\ session' = session /\ (session = "deleted" => scope # Session)

\* A committed batch keeps the accounts.
LEMMA BatchAccounts ==
  ASSUME TypeOK, RebuildFacts, NEW m, NEW batch, NEW scope, Committed(m, batch, scope)
  PROVE  RebuildFacts'
<1>1. PICK P, E : Accounts(P, E)
  BY DEF RebuildFacts
<1>2. PICK after : after = Projected(items[m], batch, Len(batch))
  OBVIOUS
<1>3. /\ m \in Memories /\ m \notin tombstones /\ PlannedBatch(batch, scope) /\ StoreAccepts(items[m], batch)
      /\ session' = session /\ (session = "deleted" => scope # Session)
  BY DEF Committed, AppendMemoryBatch, DeletedMemories
<1>4. /\ items' = [items EXCEPT ![m] = after] /\ ledger' = [ledger EXCEPT ![m] = ledger[m] \o batch]
      /\ generation' = generation + EligibilityStep(items[m], after)
      /\ mutationGeneration' = mutationGeneration + 1 /\ tombstones' = tombstones
  BY <1>2 DEF Committed, AppendMemoryBatch
<1>5. items \in [Memories -> Items] /\ ledger \in [Memories -> Seq(Operations)] /\ generation \in Nat /\ mutationGeneration \in Nat
  BY DEF TypeOK, MemoryTypeOK
<1>6. /\ items'[m] = after /\ ledger'[m] = ledger[m] \o batch
      /\ \A k \in Memories \ {m} : items'[k] = items[k] /\ ledger'[k] = ledger[k]
  BY <1>3, <1>4, <1>5
<1>7. Recorded(m, P[m], E[m])
  BY <1>1, <1>3 DEF Accounts
<1>8. PICK q : /\ Stands(ledger[m] \o batch, q, E[m], after) /\ q \in Replayed
               /\ q.batches = P[m].batches + 1
               /\ Changed(q) = Changed(P[m]) + EligibilityStep(items[m], after)
               /\ after.scope \in {items[m].scope, NoSession, scope}
  <2>1. PICK p, e : p = P[m] /\ e = E[m]
    OBVIOUS
  <2>2. Recorded(m, p, e)
    BY <1>7, <2>1
  <2>3. \E q : /\ Stands(ledger[m] \o batch, q, e, after) /\ q \in Replayed
               /\ q.batches = p.batches + 1
               /\ Changed(q) = Changed(p) + EligibilityStep(items[m], after)
               /\ after.scope \in {items[m].scope, NoSession, scope}
    BY <1>2, <1>3, <2>2, BatchRecorded
  <2> QED
    BY <2>1, <2>3
<1>9. PICK Q : Q = [P EXCEPT ![m] = q]
  OBVIOUS
<1>10. P \in [Memories -> Replayed]
  BY <1>1 DEF Accounts
<1>11. Q \in [Memories -> Replayed] /\ Q[m] = q /\ \A k \in Memories \ {m} : Q[k] = P[k]
  BY <1>3, <1>8, <1>9, <1>10
<1>12. ASSUME NEW k \in Memories PROVE Recorded(k, Q[k], E[k])'
  <2>1. CASE k = m
    <3>1. Stands(ledger'[m], q, E[m], items'[m])
      BY <1>6, <1>8
    <3> QED
      BY <1>3, <1>4, <1>11, <2>1, <3>1 DEF Recorded, Stands
  <2>2. CASE k # m
    <3>1. Recorded(k, P[k], E[k]) /\ Q[k] = P[k] /\ items'[k] = items[k] /\ ledger'[k] = ledger[k]
      BY <1>1, <1>6, <1>11, <2>2 DEF Accounts
    <3> QED
      BY <1>4, <3>1 DEF Recorded
  <2> QED
    BY <2>1, <2>2
<1>13. Struck(Q)' = Struck(P) /\ Touched(E)' = Touched(E)
  <2>1. \A k \in tombstones : Q[k] = P[k]
    BY <1>3, <1>5, <1>11 DEF TypeOK, MemoryTypeOK
  <2> QED
    BY <1>4, <2>1 DEF Struck, Touched, Quoted
<1>14. \A k \in Memories : Changed(P[k]) \in Nat /\ Changed(Q[k]) \in Nat /\ P[k].batches \in Nat /\ Q[k].batches \in Nat
  <2>1. \A k \in Memories : P[k] \in Replayed /\ Q[k] \in Replayed
    BY <1>10, <1>11
  <2> QED
    BY <2>1, CountsIs
<1>15. Changed(Q[Authored]) + Changed(Q[Proposal]) + Changed(Q[Compaction])
        = Changed(P[Authored]) + Changed(P[Proposal]) + Changed(P[Compaction]) + EligibilityStep(items[m], after)
  <2>1. PICK v, w, d : /\ v = [k \in Memories |-> Changed(P[k])] /\ w = [k \in Memories |-> Changed(Q[k])]
                       /\ d = EligibilityStep(items[m], after)
    OBVIOUS
  <2>2. d \in Nat
    BY <2>1 DEF EligibilityStep
  <2>3. \A k \in Memories : v[k] \in Nat /\ w[k] \in Nat /\ v[k] = Changed(P[k]) /\ w[k] = Changed(Q[k])
    BY <1>14, <2>1
  <2>4. (\A k \in Memories \ {m} : w[k] = v[k]) /\ w[m] = v[m] + d
    BY <1>3, <1>8, <1>11, <2>1, <2>3
  <2>5. w[Authored] + w[Proposal] + w[Compaction] = v[Authored] + v[Proposal] + v[Compaction] + d
    BY <1>3, <2>2, <2>3, <2>4, SumStep
  <2>6. Authored \in Memories /\ Proposal \in Memories /\ Compaction \in Memories
    BY MemoryNamesAssumption
  <2> QED
    BY <2>1, <2>3, <2>5, <2>6
<1>16. Q[Authored].batches + Q[Proposal].batches + Q[Compaction].batches
        = P[Authored].batches + P[Proposal].batches + P[Compaction].batches + 1
  <2>1. PICK v, w : v = [k \in Memories |-> P[k].batches] /\ w = [k \in Memories |-> Q[k].batches]
    OBVIOUS
  <2>3. \A k \in Memories : v[k] \in Nat /\ w[k] \in Nat /\ v[k] = P[k].batches /\ w[k] = Q[k].batches
    BY <1>14, <2>1
  <2>4. (\A k \in Memories \ {m} : w[k] = v[k]) /\ w[m] = v[m] + 1 /\ 1 \in Nat
    BY <1>3, <1>8, <1>11, <2>1, <2>3
  <2>5. w[Authored] + w[Proposal] + w[Compaction] = v[Authored] + v[Proposal] + v[Compaction] + 1
    <3>1. PICK one : one = 1
      OBVIOUS
    <3>2. one \in Nat /\ w[m] = v[m] + one
      BY <2>4, <3>1
    <3>3. (\A k \in Memories : v[k] \in Nat /\ w[k] \in Nat) /\ (\A k \in Memories \ {m} : w[k] = v[k])
      BY <2>3, <2>4
    <3>4. w[Authored] + w[Proposal] + w[Compaction] = v[Authored] + v[Proposal] + v[Compaction] + one
      BY <1>3, <3>2, <3>3, SumStep
    <3> QED
      BY <3>1, <3>4
  <2>6. Authored \in Memories /\ Proposal \in Memories /\ Compaction \in Memories
    BY MemoryNamesAssumption
  <2> QED
    BY <2>3, <2>5, <2>6
<1>17. Tally(Q, E)'
  <2>1. PICK a, b, a1, b1 : /\ a = Changed(P[Authored]) + Changed(P[Proposal]) + Changed(P[Compaction])
                            /\ a1 = Changed(Q[Authored]) + Changed(Q[Proposal]) + Changed(Q[Compaction])
                            /\ b = P[Authored].batches + P[Proposal].batches + P[Compaction].batches
                            /\ b1 = Q[Authored].batches + Q[Proposal].batches + Q[Compaction].batches
    OBVIOUS
  <2>2. a \in Nat /\ b \in Nat
    <3>1. Authored \in Memories /\ Proposal \in Memories /\ Compaction \in Memories
      BY MemoryNamesAssumption
    <3> QED
      BY <1>14, <2>1, <3>1
  <2>3. PICK g, t : g = (IF Struck(P) THEN 1 ELSE 0) /\ t = (IF Touched(E) THEN 1 ELSE 0)
    OBVIOUS
  <2>4. g \in Nat /\ t \in Nat
    BY <2>3
  <2>5. generation = a + g /\ mutationGeneration = b + t
    BY <1>1, <2>1, <2>3 DEF Accounts, Tally
  <2>6. PICK d : d = EligibilityStep(items[m], after)
    OBVIOUS
  <2>7. d \in Nat /\ a1 = a + d /\ b1 = b + 1
    BY <1>15, <1>16, <2>1, <2>6 DEF EligibilityStep
  <2>8. generation' = a1 + g /\ mutationGeneration' = b1 + t
    BY <1>4, <2>2, <2>4, <2>5, <2>6, <2>7
  <2>9. g = (IF Struck(Q)' THEN 1 ELSE 0) /\ t = (IF Touched(E)' THEN 1 ELSE 0)
    BY <1>13, <2>3
  <2>10. Changed(Q[Authored])' = Changed(Q[Authored]) /\ Changed(Q[Proposal])' = Changed(Q[Proposal])
         /\ Changed(Q[Compaction])' = Changed(Q[Compaction])
    BY DEF Changed
  <2> QED
    BY <2>1, <2>8, <2>9, <2>10 DEF Tally
<1>18. ScopeFacts(E)'
  <2>1. session = "deleted" => \A k \in Memories : items'[k].scope = Session => k \in tombstones
    <3> SUFFICES ASSUME session = "deleted", NEW k \in Memories, items'[k].scope = Session PROVE k \in tombstones
      OBVIOUS
    <3>1. ScopeFacts(E)
      BY <1>1 DEF Accounts
    <3>2. items[k].scope = Session
      BY <1>3, <1>6, <1>8, ScopeAssumption
    <3> QED
      BY <3>1, <3>2 DEF ScopeFacts
  <2> QED
    BY <1>1, <1>3, <1>4, <2>1 DEF Accounts, ScopeFacts
<1>19. Accounts(Q, E)'
  BY <1>11, <1>12, <1>17, <1>18 DEF Accounts
<1> QED
  BY <1>19 DEF RebuildFacts

-----------------------------------------------------------------------------
(* A session's deletion in the accounts. *)

\* What the replay of a memory says of its row, while nothing was taken.
Untouched(m, y, e) ==
    /\ items[m] \in Items /\ y \in Items /\ Regular(y)
    /\ e \in [Nat -> Sources] /\ (\A r \in Nat : e[r] = NoSession) /\ items[m] = Shown(y, TRUE, e)

\* Its columns are those of the replay, and its rows the rows shown.
Mirrors(item, y) ==
    /\ item \in Items /\ item.scope = y.scope /\ item.lifecycle = y.lifecycle /\ item.sequence = y.sequence
    /\ item.latest = y.latest /\ item.active = y.active /\ item.fts = y.fts
    /\ Len(y.revisions) \in Nat /\ Len(item.revisions) = Len(y.revisions) /\ DOMAIN item.revisions = 1..Len(y.revisions)
    /\ \A r \in 1..Len(y.revisions) :
          /\ y.revisions[r] \in Rows /\ item.revisions[r] \in Rows
          /\ item.revisions[r] = ShownRow(y.revisions[r], TRUE, NoSession)

\* So it is while nothing was taken.
LEMMA UntouchedIs ==
  ASSUME NEW m, NEW y, NEW e, Untouched(m, y, e)
  PROVE  Mirrors(items[m], y)
<1>0. PICK item : item = items[m]
  OBVIOUS
<1>1. y \in Items /\ e \in [Nat -> Sources] /\ item = Shown(y, TRUE, e) /\ item \in Items
  BY <1>0 DEF Untouched
<1>2. PICK kept \in BOOLEAN : kept = TRUE
  OBVIOUS
<1>3. item = Shown(y, kept, e)
  BY <1>1, <1>2
<1>4. /\ item.scope = y.scope /\ item.lifecycle = y.lifecycle /\ item.sequence = y.sequence
      /\ item.latest = y.latest /\ item.active = y.active /\ item.fts = y.fts
      /\ Len(item.revisions) = Len(y.revisions) /\ DOMAIN item.revisions = 1..Len(y.revisions)
      /\ \A r \in 1..Len(y.revisions) : item.revisions[r] = ShownRow(y.revisions[r], kept, e[r])
  <2>1. \A shown : shown = Shown(y, kept, e) =>
          /\ shown.scope = y.scope /\ shown.lifecycle = y.lifecycle /\ shown.sequence = y.sequence
          /\ shown.latest = y.latest /\ shown.active = y.active /\ shown.fts = y.fts
          /\ Len(shown.revisions) = Len(y.revisions) /\ DOMAIN shown.revisions = 1..Len(y.revisions)
    BY <1>1, ShownIs
  <2>2. \A shown : shown = Shown(y, kept, e) =>
            \A r \in 1..Len(y.revisions) : shown.revisions[r] = ShownRow(y.revisions[r], kept, e[r])
    BY <1>1, ShownIs
  <2> QED
    BY <1>3, <2>1, <2>2
<1>5. y.revisions \in Seq(Rows) /\ item.revisions \in Seq(Rows)
  BY <1>1 DEF Items
<1>6. Len(y.revisions) \in Nat /\ \A r \in 1..Len(y.revisions) : y.revisions[r] \in Rows
  BY <1>5
<1>7. \A r \in 1..Len(y.revisions) : e[r] = NoSession
  BY <1>6 DEF Untouched
<1>8. \A r \in 1..Len(y.revisions) : item.revisions[r] \in Rows
  BY <1>4, <1>5
<1>9. \A r \in 1..Len(y.revisions) : item.revisions[r] = ShownRow(y.revisions[r], TRUE, NoSession)
  BY <1>2, <1>4, <1>7
<1> QED
  BY <1>0, <1>1, <1>4, <1>6, <1>8, <1>9 DEF Mirrors

\* The columns of a row shown.
LEMMA ShownRowHas ==
  ASSUME NEW row, NEW retained, NEW s, NEW shown, shown = ShownRow(row, retained, s)
  PROVE  /\ shown.state = row.state /\ shown.origin = row.origin /\ shown.supersedes = row.supersedes
         /\ shown.source = row.source /\ shown.erasedBy = s
         /\ shown.content = (row.content /\ retained)
         /\ shown.excerpt = (row.excerpt /\ retained /\ s = NoSession)
  BY DEF ShownRow

\* The excerpts a session's deletion takes.
Taken(m, n) == [r \in Nat |-> IF r \in 1..n /\ CitesSession(m, r) THEN Session ELSE NoSession]

\* Which are excerpts of the revisions there are.
LEMMA TakenIs ==
  ASSUME NEW m, NEW n \in Nat, NEW e, e = Taken(m, n)
  PROVE  /\ e \in [Nat -> Sources] /\ \A r \in Nat : r > n => e[r] = NoSession
         /\ \A r \in 1..n : CitesSession(m, r) => e[r] = Session
         /\ \A r \in 1..n : ~CitesSession(m, r) => e[r] = NoSession
  BY DEF Taken, Sources

\* A memory that may have quoted the deleted session.
LEMMA EvidenceShown ==
  ASSUME NEW m, NEW y, NEW e, Untouched(m, y, e), items[m].scope # Session, NEW n, n = Len(y.revisions),
         NEW taken, taken = Taken(m, n)
  PROVE  EraseEvidence(m) = Shown(y, TRUE, taken)
<1>1. PICK item : item = items[m]
  OBVIOUS
<1>2. /\ item \in Items /\ item.scope = y.scope /\ item.lifecycle = y.lifecycle /\ item.sequence = y.sequence
      /\ item.latest = y.latest /\ item.active = y.active /\ item.fts = y.fts
      /\ n \in Nat /\ Len(item.revisions) = n /\ DOMAIN item.revisions = 1..n
      /\ \A r \in 1..n : /\ y.revisions[r] \in Rows /\ item.revisions[r] \in Rows
                         /\ item.revisions[r] = ShownRow(y.revisions[r], TRUE, NoSession)
  <2>1. Mirrors(item, y)
    BY <1>1, UntouchedIs
  <2> QED
    BY <2>1 DEF Mirrors
<1>3. /\ taken \in [Nat -> Sources]
      /\ \A r \in 1..n : CitesSession(m, r) => taken[r] = Session
      /\ \A r \in 1..n : ~CitesSession(m, r) => taken[r] = NoSession
  BY <1>2, TakenIs
<1>4. PICK left : left = [r \in DOMAIN item.revisions |->
            IF CitesSession(m, r)
            THEN [item.revisions[r] EXCEPT !.excerpt = FALSE, !.erasedBy = Session]
            ELSE item.revisions[r]]
  OBVIOUS
<1>5. EraseEvidence(m) = Item(item.scope, item.lifecycle, item.sequence, item.latest, item.active, left, item.fts)
  <2>1. EraseEvidence(m) = [item EXCEPT !.revisions = left]
    BY <1>1, <1>4 DEF EraseEvidence
  <2> QED
    BY <1>2, <2>1 DEF Items, Item
<1>6. ASSUME NEW r \in 1..n PROVE left[r] = ShownRow(y.revisions[r], TRUE, taken[r])
  <2>1. PICK row, old, kept : row = y.revisions[r] /\ old = item.revisions[r] /\ kept = TRUE
    OBVIOUS
  <2>2. row \in Rows /\ old \in Rows /\ old = ShownRow(row, kept, NoSession) /\ kept \in BOOLEAN
    BY <1>2, <2>1
  <2>3. CASE CitesSession(m, r)
    <3>1. PICK s, shown : s = Session /\ shown = ShownRow(row, kept, s)
      OBVIOUS
    <3>2. s \in Sources /\ s # NoSession /\ taken[r] = s
      BY <1>3, <2>3, <3>1, ScopeAssumption DEF Sources
    <3>3. shown \in Rows
      BY <2>2, <3>1, <3>2, ShownRowIs
    <3>4. PICK new : new = [old EXCEPT !.excerpt = FALSE, !.erasedBy = Session]
      OBVIOUS
    <3>5. left[r] = new
      BY <1>2, <1>4, <2>1, <2>3, <3>4
    <3>6. /\ new \in Rows /\ new.state = old.state /\ new.origin = old.origin /\ new.supersedes = old.supersedes
          /\ new.source = old.source /\ new.content = old.content /\ ~new.excerpt /\ new.erasedBy = s
      BY <2>2, <3>1, <3>2, <3>4 DEF Rows
    <3>7. /\ old.state = row.state /\ old.origin = row.origin /\ old.supersedes = row.supersedes
          /\ old.source = row.source /\ old.content = (row.content /\ kept)
      BY <2>2, ShownRowHas
    <3>8. /\ shown.state = row.state /\ shown.origin = row.origin /\ shown.supersedes = row.supersedes
          /\ shown.source = row.source /\ shown.erasedBy = s /\ shown.content = (row.content /\ kept)
          /\ shown.excerpt = (row.excerpt /\ kept /\ s = NoSession)
      BY <3>1, ShownRowHas
    <3>9. (new.content <=> shown.content) /\ (new.excerpt <=> shown.excerpt)
      BY <3>2, <3>6, <3>7, <3>8
    <3>10. new = shown
      BY <3>3, <3>6, <3>7, <3>8, <3>9, SameRow
    <3> QED
      BY <2>1, <3>1, <3>2, <3>5, <3>10
  <2>4. CASE ~CitesSession(m, r)
    <3>1. left[r] = old /\ taken[r] = NoSession
      BY <1>2, <1>3, <1>4, <2>1, <2>4
    <3> QED
      BY <2>1, <2>2, <3>1
  <2> QED
    BY <2>3, <2>4
<1>7. left = ShownRows(y.revisions, TRUE, taken)
  <2>1. DOMAIN y.revisions = 1..n
    <3>1. y \in Items
      BY DEF Untouched
    <3> QED
      BY <3>1 DEF Items
  <2>2. PICK right : right = ShownRows(y.revisions, TRUE, taken)
    OBVIOUS
  <2>3. right = [r \in 1..n |-> ShownRow(y.revisions[r], TRUE, taken[r])]
    BY <2>1, <2>2 DEF ShownRows
  <2>4. left = [r \in 1..n |-> left[r]]
    BY <1>2, <1>4
  <2> QED
    BY <1>6, <2>2, <2>3, <2>4
<1> QED
  BY <1>2, <1>5, <1>7 DEF Shown

\* A row whose state is set, and one whose content is taken.
LEMMA DeletedRow ==
  ASSUME NEW row \in Rows, NEW a, NEW b, a = WithoutContent(row), b = [a EXCEPT !.state = "deleted"]
  PROVE  /\ b \in Rows /\ b.state = "deleted" /\ b.origin = row.origin /\ b.supersedes = row.supersedes
         /\ b.source = row.source /\ ~b.content /\ ~b.excerpt /\ b.erasedBy = row.erasedBy
<1>1. /\ a \in Rows /\ a.origin = row.origin /\ a.supersedes = row.supersedes
      /\ a.source = row.source /\ ~a.content /\ ~a.excerpt /\ a.erasedBy = row.erasedBy
  BY DEF WithoutContent, Rows
<1> QED
  BY <1>1 DEF Rows, RevisionStates

\* A memory of the deleted session.
LEMMA SessionBuried ==
  ASSUME NEW m, NEW y, NEW e, Untouched(m, y, e), SoundItem(items[m]), items[m].scope = Session
  PROVE  EraseSessionMemory(m) = Buried(Shown(y, FALSE, e))
<1>1. PICK item, n : item = items[m] /\ n = Len(y.revisions)
  OBVIOUS
<1>2. /\ item \in Items /\ item.scope = y.scope /\ item.lifecycle = y.lifecycle /\ item.sequence = y.sequence
      /\ item.latest = y.latest /\ item.active = y.active /\ item.fts = y.fts
      /\ n \in Nat /\ Len(item.revisions) = n /\ DOMAIN item.revisions = 1..n
      /\ \A r \in 1..n : /\ y.revisions[r] \in Rows /\ item.revisions[r] \in Rows
                         /\ item.revisions[r] = ShownRow(y.revisions[r], TRUE, NoSession)
  <2>1. Mirrors(item, y)
    BY <1>1, UntouchedIs
  <2> QED
    BY <1>1, <2>1 DEF Mirrors
<1>3. item.latest = n /\ n \in 1..n /\ item.revisions \in Seq(Rows)
  <2>1. SoundItem(item) /\ item.scope = Session
    BY <1>1
  <2>2. item # Absent
    BY <2>1, ScopeAssumption DEF Absent
  <2>3. item.sequence \in Nat /\ item.revisions \in Seq(Rows)
    BY <1>2 DEF Items
  <2> QED
    BY <1>2, <2>1, <2>2, <2>3 DEF SoundItem
<1>4. PICK set : StateSet(item.revisions, n, "deleted", set)
  BY DEF StateSet
<1>5. "deleted" \in RevisionStates /\ n \in 1..Len(item.revisions)
  BY <1>2, <1>3 DEF RevisionStates
<1>6. /\ set \in Seq(Rows) /\ Len(set) = n
      /\ \A r \in 1..n \ {n} : set[r] = item.revisions[r]
  BY <1>2, <1>3, <1>4, <1>5, StateSetIs
<1>7. set[n] = [item.revisions[n] EXCEPT !.state = "deleted"]
  BY <1>2, <1>3, <1>4 DEF StateSet, WithState
<1>8. PICK rows : rows = Emptied(set)
  OBVIOUS
<1>9. PICK left : left = [r \in DOMAIN rows |-> [rows[r] EXCEPT !.state = "deleted"]]
  OBVIOUS
<1>10. EraseSessionMemory(m) = Item(item.scope, "deleted", item.sequence, item.latest, 0, left, {})
  <2>1. PICK deleted : deleted = DeleteMemoryContent(item, n)
    OBVIOUS
  <2>2. deleted = Item(item.scope, "deleted", item.sequence, item.latest, 0, Emptied(WithState(item.revisions, n, "deleted")), {})
    BY <1>2, <1>3, <2>1, DeletesContent
  <2>3. Emptied(WithState(item.revisions, n, "deleted")) = rows
    BY <1>4, <1>8, Zenon DEF StateSet
  <2>4. deleted = Item(item.scope, "deleted", item.sequence, item.latest, 0, rows, {})
    BY <2>2, <2>3
  <2>5. deleted.revisions = rows
    BY <2>4, ItemHas
  <2>6. EraseSessionMemory(m) = [deleted EXCEPT !.revisions = left]
    BY <1>1, <1>3, <1>9, <2>1, <2>5 DEF EraseSessionMemory
  <2> QED
    BY <2>4, <2>6 DEF Item
<1>11. PICK x, gone : gone = FALSE /\ x = Shown(y, gone, e)
  OBVIOUS
<1>12. /\ x.scope = y.scope /\ x.sequence = y.sequence /\ x.latest = y.latest /\ DOMAIN x.revisions = 1..n
       /\ \A r \in 1..n : x.revisions[r] = ShownRow(y.revisions[r], gone, e[r])
  <2>1. y \in Items /\ e \in [Nat -> Sources] /\ gone \in BOOLEAN
    BY <1>11 DEF Untouched
  <2>2. \A shown : shown = Shown(y, gone, e) =>
          /\ shown.scope = y.scope /\ shown.sequence = y.sequence /\ shown.latest = y.latest
          /\ DOMAIN shown.revisions = 1..Len(y.revisions)
    BY <2>1, ShownIs
  <2>3. \A shown : shown = Shown(y, gone, e) =>
            \A r \in 1..Len(y.revisions) : shown.revisions[r] = ShownRow(y.revisions[r], gone, e[r])
    BY <2>1, ShownIs
  <2> QED
    BY <1>1, <1>11, <2>2, <2>3
<1>13. ASSUME NEW r \in 1..n PROVE left[r] = [x.revisions[r] EXCEPT !.state = "deleted"]
  <2>1. PICK row, old : row = y.revisions[r] /\ old = item.revisions[r]
    OBVIOUS
  <2>2. row \in Rows /\ old \in Rows /\ old = ShownRow(row, TRUE, NoSession)
    BY <1>2, <2>1
  <2>3. /\ old.origin = row.origin /\ old.supersedes = row.supersedes
        /\ old.source = row.source /\ old.erasedBy = NoSession
    BY <2>2 DEF ShownRow
  <2>4. /\ set[r] \in Rows /\ set[r].origin = old.origin /\ set[r].supersedes = old.supersedes
        /\ set[r].source = old.source /\ set[r].erasedBy = old.erasedBy
    <3>1. CASE r = n
      <4>1. set[r] = [old EXCEPT !.state = "deleted"]
        BY <1>7, <2>1, <3>1
      <4> QED
        BY <1>5, <2>2, <4>1 DEF Rows
    <3>2. CASE r # n
      BY <1>6, <2>1, <2>2, <3>2
    <3> QED
      BY <3>1, <3>2
  <2>5. PICK mid, a, b : mid = set[r] /\ a = WithoutContent(mid) /\ b = [a EXCEPT !.state = "deleted"]
    OBVIOUS
  <2>6. left[r] = b
    <3>1. DOMAIN set = 1..n
      BY <1>6
    <3>2. DOMAIN rows = 1..n /\ rows[r] = a
      BY <1>8, <2>5, <3>1 DEF Emptied
    <3> QED
      BY <1>9, <2>5, <3>2
  <2>7. /\ b \in Rows /\ b.state = "deleted" /\ b.origin = mid.origin /\ b.supersedes = mid.supersedes
        /\ b.source = mid.source /\ ~b.content /\ ~b.excerpt /\ b.erasedBy = mid.erasedBy
    <3>1. mid \in Rows
      BY <2>4, <2>5
    <3>2. a = WithoutContent(mid) /\ b = [a EXCEPT !.state = "deleted"]
      BY <2>5
    <3> QED
      BY <3>1, <3>2, DeletedRow
  <2>8. PICK shown, c : shown = x.revisions[r] /\ c = [shown EXCEPT !.state = "deleted"]
    OBVIOUS
  <2>9. shown = ShownRow(row, gone, NoSession)
    BY <1>2, <1>12, <2>1, <2>8 DEF Untouched
  <2>10. shown \in Rows
    <3>1. gone \in BOOLEAN /\ NoSession \in Sources
      BY <1>11 DEF Sources
    <3>2. \A s \in Sources : ShownRow(row, gone, s) \in Rows
      BY <2>2, <3>1, ShownRowIs
    <3> QED
      BY <2>9, <3>1, <3>2
  <2>11. /\ shown.origin = row.origin /\ shown.supersedes = row.supersedes /\ shown.source = row.source
         /\ shown.erasedBy = NoSession /\ shown.content = (row.content /\ gone)
         /\ shown.excerpt = (row.excerpt /\ gone /\ NoSession = NoSession)
    BY <2>9, ShownRowHas
  <2>12. ~shown.content /\ ~shown.excerpt
    BY <1>11, <2>11
  <2>13. /\ c \in Rows /\ c.state = "deleted" /\ c.origin = shown.origin /\ c.supersedes = shown.supersedes
         /\ c.source = shown.source /\ c.erasedBy = shown.erasedBy /\ ~c.content /\ ~c.excerpt
    BY <1>5, <2>8, <2>10, <2>12 DEF Rows
  <2>14. /\ b.state = c.state /\ b.origin = c.origin /\ b.supersedes = c.supersedes /\ b.source = c.source
         /\ b.erasedBy = c.erasedBy /\ (b.content <=> c.content) /\ (b.excerpt <=> c.excerpt)
    BY <2>3, <2>4, <2>5, <2>7, <2>11, <2>13
  <2>15. b = c
    BY <2>7, <2>13, <2>14, SameRow
  <2> QED
    BY <2>6, <2>8, <2>15
<1>14. left = [r \in DOMAIN x.revisions |-> [x.revisions[r] EXCEPT !.state = "deleted"]]
  <2>1. DOMAIN rows = 1..n
    BY <1>6, <1>8 DEF Emptied
  <2>2. left = [r \in 1..n |-> left[r]]
    BY <1>9, <2>1
  <2> QED
    BY <1>12, <1>13, <2>2
<1> QED
  BY <1>2, <1>10, <1>11, <1>12, <1>14 DEF Buried

\* While the session is open, nothing was taken.
LEMMA OpenUntouched ==
  ASSUME TypeOK, LedgerFacts, session = "open", NEW P, NEW E, Accounts(P, E), NEW m \in Memories
  PROVE  Untouched(m, P[m].item, E[m]) /\ tombstones = {}
<1>1. tombstones = {}
  BY DEF LedgerFacts
<1>2. PICK p, e : p = P[m] /\ e = E[m]
  OBVIOUS
<1>3. Recorded(m, p, e) /\ \A r \in Nat : e[r] = NoSession
  BY <1>2 DEF Accounts, ScopeFacts
<1>4. ledger[m] \in Seq(Operations) /\ Replays(ledger[m], p) /\ e \in [Nat -> Sources] /\ items[m] = Shown(p.item, TRUE, e)
  BY <1>1, <1>3 DEF Recorded
<1>5. PICK ops : ops = ledger[m]
  OBVIOUS
<1>6. Regular(p.item)
  BY <1>4, <1>5, ReplaysTo
<1>7. items[m] \in Items /\ p.item \in Items
  BY <1>6 DEF TypeOK, MemoryTypeOK, Regular
<1> QED
  BY <1>1, <1>2, <1>3, <1>4, <1>6, <1>7 DEF Untouched

\* What a session's deletion takes from each memory.
TakenFrom(P, E) == [m \in Memories |-> IF m \in SessionMemories THEN E[m] ELSE Taken(m, Len(P[m].item.revisions))]

\* The account of a memory after the session's deletion.
LEMMA DeletionRecorded ==
  ASSUME TypeOK, LedgerFacts, session = "open", NEW P, NEW E, Accounts(P, E), EraseSessionMemoryAndEvidence,
         NEW F, F = TakenFrom(P, E), NEW m \in Memories
  PROVE  Recorded(m, P[m], F[m])' /\ (items'[m].scope = Session => m \in tombstones')
<1>1. Untouched(m, P[m].item, E[m]) /\ tombstones = {}
  BY OpenUntouched
<1>2. /\ items'[m] = IF m \in SessionMemories THEN EraseSessionMemory(m) ELSE EraseEvidence(m)
      /\ tombstones' = SessionMemories /\ ledger' = ledger
  BY <1>1 DEF EraseSessionMemoryAndEvidence
<1>3. PICK p, e, y : p = P[m] /\ e = E[m] /\ y = P[m].item
  OBVIOUS
<1>4. Recorded(m, p, e) /\ Untouched(m, y, e) /\ y = p.item
  BY <1>1, <1>3 DEF Accounts
<1>5. /\ ledger[m] \in Seq(Operations) /\ Replays(ledger[m], p)
      /\ e \in [Nat -> Sources] /\ \A r \in Nat : r > Len(p.item.revisions) => e[r] = NoSession
  BY <1>4 DEF Recorded
<1>6. CASE m \in SessionMemories
  <2>1. F[m] = e /\ items[m].scope = Session /\ SoundItem(items[m])
    BY <1>3, <1>6 DEF TakenFrom, SessionMemories, LedgerFacts
  <2>2. items'[m] = Buried(Shown(y, FALSE, e))
    BY <1>2, <1>4, <1>6, <2>1, SessionBuried
  <2> QED
    BY <1>2, <1>3, <1>4, <1>5, <1>6, <2>1, <2>2 DEF Recorded
<1>7. CASE m \notin SessionMemories
  <2>1. PICK n, f : n = Len(y.revisions) /\ f = Taken(m, n)
    OBVIOUS
  <2>2. F[m] = f /\ items[m].scope # Session
    BY <1>3, <1>7, <2>1 DEF TakenFrom, SessionMemories
  <2>3. items'[m] = Shown(y, TRUE, f)
    <3>1. EraseEvidence(m) = Shown(y, TRUE, f)
      BY <1>4, <2>1, <2>2, EvidenceShown
    <3> QED
      BY <1>2, <1>7, <3>1
  <2>4. n \in Nat
    <3>1. y \in Items
      BY <1>4 DEF Untouched
    <3> QED
      BY <2>1, <3>1 DEF Items
  <2>5. f \in [Nat -> Sources] /\ \A r \in Nat : r > n => f[r] = NoSession
    BY <2>1, <2>4, TakenIs
  <2>6. items'[m].scope = y.scope /\ items[m].scope = y.scope
    <3>1. items'[m].scope = y.scope
      BY <2>3 DEF Shown, Item
    <3>2. Mirrors(items[m], y)
      BY <1>4, UntouchedIs
    <3> QED
      BY <3>1, <3>2 DEF Mirrors
  <2> QED
    BY <1>2, <1>3, <1>4, <1>5, <1>7, <2>1, <2>2, <2>3, <2>5, <2>6 DEF Recorded
<1> QED
  BY <1>6, <1>7

\* The deletion's effect on the counters is what a rebuild derives.
LEMMA DeletionTells ==
  ASSUME TypeOK, LedgerFacts, session = "open", NEW P, NEW E, Accounts(P, E), EraseSessionMemoryAndEvidence,
         NEW F, F = TakenFrom(P, E)
  PROVE  /\ ~Struck(P) /\ ~Touched(E)
         /\ Struck(P)' <=> \E m \in SessionMemories : items[m].lifecycle = "active"
         /\ Touched(F)' <=> SessionMemories # {} \/ EvidenceOfSession # {}
<1>0. SessionMemories \subseteq Memories
  BY DEF SessionMemories
<1>1. tombstones = {} /\ tombstones' = SessionMemories
  BY DEF LedgerFacts, EraseSessionMemoryAndEvidence
<1>2. ASSUME NEW m \in Memories, NEW r \in 1..MaxRevisions PROVE E[m][r] = NoSession
  <2>1. r \in Nat
    BY RevisionsAssumption
  <2> QED
    BY <2>1 DEF Accounts, ScopeFacts
<1>3. ~Struck(P) /\ ~Touched(E)
  BY <1>1, <1>2, ScopeAssumption DEF Struck, Touched, Quoted
<1>4. ASSUME NEW m \in SessionMemories PROVE P[m].item.active # 0 <=> items[m].lifecycle = "active"
  <2>1. PICK y, e : y = P[m].item /\ e = E[m]
    OBVIOUS
  <2>2. Untouched(m, y, e)
    BY <1>0, <2>1, OpenUntouched
  <2>3. Mirrors(items[m], y)
    BY <2>2, UntouchedIs
  <2> QED
    BY <2>1, <2>2, <2>3 DEF Mirrors, Untouched, Regular
<1>5. Struck(P)' <=> \E m \in SessionMemories : items[m].lifecycle = "active"
  BY <1>1, <1>4 DEF Struck
<1>6. ASSUME NEW m \in Memories, NEW r \in 1..MaxRevisions
      PROVE  F[m][r] = Session <=> r \in DOMAIN items[m].revisions /\ CitesSession(m, r)
  <2>0. r \in Nat
    BY RevisionsAssumption
  <2>1. CASE m \in SessionMemories
    <3>1. F[m] = E[m] /\ items[m].scope = Session
      BY <2>1 DEF TakenFrom, SessionMemories
    <3>2. F[m][r] = NoSession
      BY <1>2, <3>1
    <3> QED
      BY <3>1, <3>2, ScopeAssumption DEF CitesSession
  <2>2. CASE m \notin SessionMemories
    <3>1. PICK y, e, n, f : y = P[m].item /\ e = E[m] /\ n = Len(y.revisions) /\ f = Taken(m, n)
      OBVIOUS
    <3>2. F[m] = f
      BY <2>2, <3>1 DEF TakenFrom
    <3>3. Untouched(m, y, e)
      BY <3>1, OpenUntouched
    <3>4. Mirrors(items[m], y)
      BY <3>3, UntouchedIs
    <3>5. n \in Nat /\ DOMAIN items[m].revisions = 1..n
      BY <3>1, <3>4 DEF Mirrors
    <3>6. f[r] = IF r \in 1..n /\ CitesSession(m, r) THEN Session ELSE NoSession
      BY <2>0, <3>1 DEF Taken
    <3> QED
      BY <3>2, <3>5, <3>6, ScopeAssumption
  <2> QED
    BY <2>1, <2>2
<1>7. Quoted(F) <=> EvidenceOfSession # {}
  <2>1. ASSUME Quoted(F) PROVE EvidenceOfSession # {}
    <3>1. PICK m \in Memories, r \in 1..MaxRevisions : F[m][r] = Session
      BY <2>1 DEF Quoted
    <3>2. r \in DOMAIN items[m].revisions /\ CitesSession(m, r)
      BY <1>6, <3>1
    <3>3. <<m, r>> \in EvidenceOfSession
      BY <3>2 DEF EvidenceOfSession
    <3> QED
      BY <3>3
  <2>2. ASSUME EvidenceOfSession # {} PROVE Quoted(F)
    <3>1. PICK x \in EvidenceOfSession : TRUE
      BY <2>2
    <3>2. PICK m \in Memories, r \in 1..MaxRevisions : x = <<m, r>>
      BY <3>1 DEF EvidenceOfSession
    <3>3. r \in DOMAIN items[m].revisions /\ CitesSession(m, r)
      BY <3>1, <3>2 DEF EvidenceOfSession
    <3> QED
      BY <1>6, <3>3 DEF Quoted
  <2> QED
    BY <2>1, <2>2
<1>8. Quoted(F)' <=> Quoted(F)
  BY DEF Quoted
<1>9. Touched(F)' <=> SessionMemories # {} \/ EvidenceOfSession # {}
  BY <1>1, <1>7, <1>8 DEF Touched
<1> QED
  BY <1>3, <1>5, <1>9

\* A session's deletion keeps the accounts.
LEMMA DeletionAccounts ==
  ASSUME TypeOK, LedgerFacts, RebuildFacts, DeleteSession
  PROVE  RebuildFacts'
<1>1. session = "open" /\ session' = "deleted" /\ EraseSessionMemoryAndEvidence
  BY DEF DeleteSession
<1>2. PICK P, E : Accounts(P, E)
  BY DEF RebuildFacts
<1>3. PICK F : F = TakenFrom(P, E)
  OBVIOUS
<1>4. \A m \in Memories : Recorded(m, P[m], F[m])' /\ (items'[m].scope = Session => m \in tombstones')
  BY <1>1, <1>2, <1>3, DeletionRecorded
<1>5. /\ ~Struck(P) /\ ~Touched(E)
      /\ Struck(P)' <=> \E m \in SessionMemories : items[m].lifecycle = "active"
      /\ Touched(F)' <=> SessionMemories # {} \/ EvidenceOfSession # {}
  BY <1>1, <1>2, <1>3, DeletionTells
<1>6. ScopeFacts(F)'
  BY <1>1, <1>4 DEF ScopeFacts
<1>7. Tally(P, F)'
  <2>1. PICK a, b : /\ a = Changed(P[Authored]) + Changed(P[Proposal]) + Changed(P[Compaction])
                    /\ b = P[Authored].batches + P[Proposal].batches + P[Compaction].batches
    OBVIOUS
  <2>2. a \in Nat /\ b \in Nat
    <3>1. Authored \in Memories /\ Proposal \in Memories /\ Compaction \in Memories
      BY MemoryNamesAssumption
    <3>2. \A k \in Memories : P[k] \in Replayed
      BY <1>2 DEF Accounts
    <3>3. \A k \in Memories : Changed(P[k]) \in Nat /\ P[k].batches \in Nat
      BY <3>2, CountsIs
    <3> QED
      BY <2>1, <3>1, <3>3
  <2>3. generation = a /\ mutationGeneration = b
    BY <1>2, <1>5, <2>1, <2>2 DEF Accounts, Tally
  <2>4. /\ generation' = generation + (IF (SessionMemories # {} \/ EvidenceOfSession # {})
                                           /\ (\E m \in SessionMemories : items[m].lifecycle = "active") THEN 1 ELSE 0)
        /\ mutationGeneration' = mutationGeneration + (IF SessionMemories # {} \/ EvidenceOfSession # {} THEN 1 ELSE 0)
    BY <1>1 DEF EraseSessionMemoryAndEvidence
  <2>5. (\E m \in SessionMemories : items[m].lifecycle = "active") => SessionMemories # {}
    OBVIOUS
  <2>6. /\ generation' = a + (IF Struck(P)' THEN 1 ELSE 0)
        /\ mutationGeneration' = b + (IF Touched(F)' THEN 1 ELSE 0)
    BY <1>5, <2>3, <2>4, <2>5
  <2>7. Changed(P[Authored])' = Changed(P[Authored]) /\ Changed(P[Proposal])' = Changed(P[Proposal])
         /\ Changed(P[Compaction])' = Changed(P[Compaction])
    BY DEF Changed
  <2> QED
    BY <2>1, <2>6, <2>7 DEF Tally
<1>8. Accounts(P, F)'
  BY <1>2, <1>4, <1>6, <1>7 DEF Accounts
<1> QED
  BY <1>8 DEF RebuildFacts

-----------------------------------------------------------------------------
(* What a rebuild leaves. *)

\* A sum over three memories, as the fold computes it.
LEMMA SumIs ==
  ASSUME NEW v, DOMAIN v = Memories, \A m \in Memories : v[m] \in Nat
  PROVE  Sum(v) = v[Authored] + v[Proposal] + v[Compaction]
<1> DEFINE any(s) == CHOOSE x \in s : TRUE
           F(f) == [s \in SUBSET Memories |-> IF s = {} THEN 0 ELSE v[any(s)] + f[s \ {any(s)}]]
           part(s, m) == IF m \in s THEN v[m] ELSE 0
           total(s) == part(s, Authored) + part(s, Proposal) + part(s, Compaction)
           g == [s \in SUBSET Memories |-> total(s)]
           it == CHOOSE f : f = F(f)
<1>1. Sum(v) = it[Memories]
  BY Zenon DEF Sum, FoldSet, MapThenFoldSet
<1>2. /\ Memories = {Authored, Proposal, Compaction}
      /\ Authored # Proposal /\ Authored # Compaction /\ Proposal # Compaction
  BY MemoryNamesAssumption
<1>3. v[Authored] \in Nat /\ v[Proposal] \in Nat /\ v[Compaction] \in Nat
  BY <1>2
<1>4. total({}) = 0
  BY <1>3
<1>5. ASSUME NEW s \in SUBSET Memories, NEW x \in s PROVE total(s) = v[x] + total(s \ {x})
  <2>1. x \in {Authored, Proposal, Compaction}
    BY <1>2
  <2>2. \A m : m \in s \ {x} <=> m \in s /\ m # x
    OBVIOUS
  <2>3. CASE x = Authored
    BY <1>2, <1>3, <2>2, <2>3
  <2>4. CASE x = Proposal
    BY <1>2, <1>3, <2>2, <2>4
  <2>5. CASE x = Compaction
    BY <1>2, <1>3, <2>2, <2>5
  <2> QED
    BY <2>1, <2>3, <2>4, <2>5
<1>6. \A s : s # {} => any(s) \in s
  OBVIOUS
<1> HIDE DEF any, total
<1>7. g = F(g)
  <2>1. ASSUME NEW s \in SUBSET Memories PROVE g[s] = IF s = {} THEN 0 ELSE v[any(s)] + g[s \ {any(s)}]
    <3>1. CASE s = {}
      BY <1>4, <3>1
    <3>2. CASE s # {}
      <4>1. any(s) \in s /\ s \ {any(s)} \in SUBSET Memories
        BY <1>6, <3>2
      <4>2. g[s \ {any(s)}] = total(s \ {any(s)}) /\ g[s] = total(s)
        BY <4>1
      <4> QED
        BY <1>5, <3>2, <4>1, <4>2
    <3> QED
      BY <3>1, <3>2
  <2> QED
    BY <2>1
<1>8. it = F(it)
  <2> HIDE DEF F, g
  <2> QED
    BY <1>7
<1> HIDE DEF it
<1>9. ASSUME NEW s \in SUBSET Memories PROVE it[s] = IF s = {} THEN 0 ELSE v[any(s)] + it[s \ {any(s)}]
  BY <1>8
<1> HIDE DEF F, g
<1>10. it[{}] = 0
  BY <1>9
<1>11. ASSUME NEW s \in SUBSET Memories, s # {}, \A x \in s : it[s \ {x}] = total(s \ {x})
       PROVE  it[s] = total(s)
  <2>1. any(s) \in s
    BY <1>6, <1>11
  <2>2. it[s] = v[any(s)] + it[s \ {any(s)}]
    BY <1>9, <1>11
  <2> QED
    BY <1>5, <1>11, <2>1, <2>2
<1>12. ASSUME NEW x \in Memories PROVE it[{x}] = total({x})
  <2>1. \A y \in {x} : {x} \ {y} = {}
    OBVIOUS
  <2> QED
    BY <1>4, <1>10, <1>11, <2>1
<1>13. ASSUME NEW x \in Memories, NEW y \in Memories PROVE it[{x, y}] = total({x, y})
  <2>1. CASE x = y
    BY <1>12, <2>1
  <2>2. CASE x # y
    <3>1. {x, y} \ {x} = {y} /\ {x, y} \ {y} = {x}
      BY <2>2
    <3>2. \A z \in {x, y} : it[{x, y} \ {z}] = total({x, y} \ {z})
      BY <1>12, <3>1
    <3> QED
      BY <1>11, <3>2
  <2> QED
    BY <2>1, <2>2
<1>14. it[Memories] = total(Memories)
  <2>1. /\ Memories \ {Authored} = {Proposal, Compaction}
        /\ Memories \ {Proposal} = {Authored, Compaction}
        /\ Memories \ {Compaction} = {Authored, Proposal}
    BY <1>2
  <2>2. \A z \in Memories : it[Memories \ {z}] = total(Memories \ {z})
    BY <1>2, <1>13, <2>1
  <2>3. Memories # {} /\ Memories \in SUBSET Memories
    BY <1>2
  <2> QED
    BY <1>11, <2>2, <2>3
<1>15. total(Memories) = v[Authored] + v[Proposal] + v[Compaction]
  BY <1>2, <1>3 DEF total
<1> QED
  BY <1>1, <1>14, <1>15

\* The rows shown of a replay say which excerpts were taken.
LEMMA ShownErasures ==
  ASSUME NEW y \in Items, NEW retained \in BOOLEAN, NEW e \in [Nat -> Sources],
         NEW x, x = Shown(y, retained, e), NEW n, n = Len(y.revisions)
  PROVE  DOMAIN x.revisions = 1..n /\ \A r \in 1..n : x.revisions[r] \in Rows /\ x.revisions[r].erasedBy = e[r]
<1>1. /\ x \in Items /\ DOMAIN x.revisions = 1..n
      /\ \A r \in 1..n : x.revisions[r] = ShownRow(y.revisions[r], retained, e[r])
  <2>1. x \in Items
    BY ShownIs
  <2>2. DOMAIN x.revisions = 1..Len(y.revisions)
    BY ShownIs
  <2>3. \A r \in 1..Len(y.revisions) : x.revisions[r] = ShownRow(y.revisions[r], retained, e[r])
    BY ShownIs
  <2> QED
    BY <2>1, <2>2, <2>3
<1>2. x.revisions \in Seq(Rows)
  BY <1>1 DEF Items
<1>3. \A r \in DOMAIN x.revisions : x.revisions[r] \in Rows
  BY <1>2
<1>4. ASSUME NEW r \in 1..n PROVE x.revisions[r].erasedBy = e[r]
  <2>1. x.revisions[r] = ShownRow(y.revisions[r], retained, e[r])
    BY <1>1
  <2> QED
    BY <2>1 DEF ShownRow
<1> QED
  BY <1>1, <1>3, <1>4

\* The rows of a memory, deleted with its session or not, say which excerpts
\* were taken.
LEMMA RowsShown ==
  ASSUME NEW m, NEW p, NEW e, Recorded(m, p, e), NEW n, n = Len(p.item.revisions)
  PROVE  /\ p \in Replayed /\ Regular(p.item) /\ n \in Nat /\ DOMAIN items[m].revisions = 1..n
         /\ \A r \in 1..n : items[m].revisions[r].erasedBy = e[r]
<1>1. ledger[m] \in Seq(Operations) /\ Replays(ledger[m], p) /\ e \in [Nat -> Sources]
  BY DEF Recorded
<1>2. PICK ops, y : ops = ledger[m] /\ y = p.item
  OBVIOUS
<1>3. p \in Replayed /\ Regular(y)
  BY <1>1, <1>2, ReplaysTo
<1>4. y \in Items /\ n \in Nat
  <2>1. y \in Items
    BY <1>3 DEF Regular
  <2> QED
    BY <1>2, <2>1 DEF Items
<1>5. ASSUME NEW retained \in BOOLEAN, NEW x, x = Shown(y, retained, e)
      PROVE  DOMAIN x.revisions = 1..n /\ \A r \in 1..n : x.revisions[r] \in Rows /\ x.revisions[r].erasedBy = e[r]
  <2>1. y \in Items /\ e \in [Nat -> Sources] /\ n = Len(y.revisions)
    BY <1>1, <1>2, <1>4
  <2> QED
    BY <1>5, <2>1, ShownErasures
<1>6. CASE m \notin tombstones
  <2>1. items[m] = Shown(y, TRUE, e)
    BY <1>2, <1>6 DEF Recorded
  <2>2. PICK kept, x : kept \in BOOLEAN /\ kept = TRUE /\ x = Shown(y, kept, e)
    OBVIOUS
  <2>3. DOMAIN x.revisions = 1..n /\ \A r \in 1..n : x.revisions[r].erasedBy = e[r]
    BY <1>5, <2>2
  <2> QED
    BY <1>2, <1>3, <1>4, <2>1, <2>2, <2>3
<1>7. CASE m \in tombstones
  <2>1. PICK gone, x : gone \in BOOLEAN /\ gone = FALSE /\ x = Shown(y, gone, e)
    OBVIOUS
  <2>2. items[m] = Buried(x)
    BY <1>2, <1>7, <2>1 DEF Recorded
  <2>3. DOMAIN x.revisions = 1..n /\ \A r \in 1..n : x.revisions[r] \in Rows /\ x.revisions[r].erasedBy = e[r]
    BY <1>5, <2>1
  <2>4. items[m].revisions = [r \in 1..n |-> [x.revisions[r] EXCEPT !.state = "deleted"]]
    BY <2>2, <2>3 DEF Buried, Item
  <2>5. ASSUME NEW r \in 1..n PROVE items[m].revisions[r].erasedBy = e[r]
    <3>1. items[m].revisions[r] = [x.revisions[r] EXCEPT !.state = "deleted"]
      BY <2>4
    <3>2. x.revisions[r] \in Rows /\ x.revisions[r].erasedBy = e[r]
      BY <2>3
    <3> QED
      BY <3>1, <3>2 DEF Rows
  <2>6. DOMAIN items[m].revisions = 1..n
    BY <2>4
  <2> QED
    BY <1>2, <1>3, <1>4, <2>5, <2>6
<1> QED
  BY <1>6, <1>7

\* A rebuild finds the excerpts that were taken, and no others.
LEMMA ErasureTells ==
  ASSUME IInv, NEW P, NEW E, Accounts(P, E), NEW m \in Memories, NEW op, NEW i \in DOMAIN ledger[m], op = ledger[m][i],
         op.kind \in Inserts
  PROVE  RebuildErasure(m, op.revision, op.draft) = E[m][op.revision]
<1>1. PICK p, e, y, r : p = P[m] /\ e = E[m] /\ y = p.item /\ r = op.revision
  OBVIOUS
<1>2. Recorded(m, p, e) /\ ScopeFacts(E)
  BY <1>1 DEF Accounts
<1>3. PICK n : n = Len(y.revisions)
  OBVIOUS
<1>4. n \in Nat /\ DOMAIN items[m].revisions = 1..n /\ \A k \in 1..n : items[m].revisions[k].erasedBy = e[k]
  BY <1>1, <1>2, <1>3, RowsShown
<1>5. /\ r \in 1..n /\ y.revisions[r].source = op.draft.source
      /\ \/ y.revisions[r].excerpt = op.draft.excerpt
         \/ \E j \in DOMAIN ledger[m] : ledger[m][j].kind = "MemoryDeleted"
  <2>1. RowsTell(ledger[m], y)
    BY <1>1, <1>2 DEF Recorded, Replays
  <2> QED
    BY <1>1, <1>3, <2>1 DEF RowsTell
<1>6. CASE e[r] # NoSession
  BY <1>1, <1>4, <1>5, <1>6 DEF RebuildErasure
<1>7. CASE e[r] = NoSession
  <2> SUFFICES ASSUME tombstones # {}, op.draft.excerpt, op.draft.source = Session, m \notin DeletedMemories
               PROVE  FALSE
    BY <1>1, <1>4, <1>5, <1>7 DEF RebuildErasure
  <2>1. m \notin tombstones /\ \A j \in DOMAIN ledger[m] : ledger[m][j].kind # "MemoryDeleted"
    BY DEF DeletedMemories
  <2>2. y.revisions[r].excerpt /\ y.revisions[r].source = Session
    BY <1>5, <2>1
  <2>3. items[m] = Shown(y, TRUE, e)
    BY <1>1, <1>2, <2>1 DEF Recorded
  <2>4. items[m].revisions[r] = ShownRow(y.revisions[r], TRUE, e[r])
    <3>1. DOMAIN y.revisions = 1..n
      <4>1. Regular(y)
        BY <1>1, <1>2, <1>3, RowsShown
      <4> QED
        BY <1>3, <4>1 DEF Regular, Items
    <3>2. items[m].revisions = ShownRows(y.revisions, TRUE, e)
      BY <2>3 DEF Shown, Item
    <3> QED
      BY <1>5, <3>1, <3>2 DEF ShownRows
  <2>5. items[m].revisions[r].excerpt /\ items[m].revisions[r].source = Session
    <3>1. PICK row, shown, kept, s : row = y.revisions[r] /\ shown = items[m].revisions[r] /\ kept = TRUE /\ s = e[r]
      OBVIOUS
    <3>2. shown = ShownRow(row, kept, s)
      BY <2>4, <3>1
    <3>3. shown.source = row.source /\ shown.excerpt = (row.excerpt /\ kept /\ s = NoSession)
      BY <3>2, ShownRowHas
    <3> QED
      BY <1>7, <2>2, <3>1, <3>3
  <2>6. session = "deleted" /\ QuotesNothing(items[m])
    BY DEF IInv, LedgerFacts
  <2>7. items[m].scope = Session
    BY <1>4, <1>5, <2>5, <2>6 DEF QuotesNothing
  <2> QED
    BY <1>2, <2>1, <2>6, <2>7 DEF ScopeFacts
<1> QED
  BY <1>6, <1>7

\* So it replays every memory to what its operations left.
LEMMA RebuildReplays ==
  ASSUME IInv, NEW P, NEW E, Accounts(P, E), NEW m \in Memories
  PROVE  ReplayMemory(m) = View(P[m], Kept(m), E[m])
<1>1. PICK p, e, kept : p = P[m] /\ e = E[m] /\ kept = Kept(m)
  OBVIOUS
<1>2. Recorded(m, p, e)
  BY <1>1 DEF Accounts
<1>3. e \in [Nat -> Sources] /\ ledger[m] \in Seq(Operations) /\ Replays(ledger[m], p)
  BY <1>2 DEF Recorded
<1>4. kept \in BOOLEAN
  BY <1>1 DEF Kept
<1>5. ASSUME NEW n \in 1..Len(ledger[m]), ledger[m][n].kind \in Inserts
      PROVE  RebuildErasure(m, ledger[m][n].revision, ledger[m][n].draft) = e[ledger[m][n].revision]
  <2>1. PICK op : op = ledger[m][n]
    OBVIOUS
  <2>2. n \in DOMAIN ledger[m] /\ op.kind \in Inserts
    BY <1>3, <1>5, <2>1
  <2>3. RebuildErasure(m, op.revision, op.draft) = E[m][op.revision]
    BY <2>1, <2>2, ErasureTells
  <2> QED
    BY <1>1, <2>1, <2>3
<1>6. ReplayMemory(m) = View(p, kept, e)
  BY <1>1, <1>3, <1>4, <1>5, ReplayIs
<1> QED
  BY <1>1, <1>6

\* Of an item whose bytes are gone, a rebuild shows the same with its sidecars
\* and without.
LEMMA ErasedShowsSame ==
  ASSUME NEW y \in Items, NEW e \in [Nat -> Sources], NEW kept \in BOOLEAN, NEW gone \in BOOLEAN, ~gone,
         NEW x, x = Shown(y, kept, e), ErasedItem(x)
  PROVE  Shown(y, gone, e) = x
<1>2. y.revisions \in Seq(Rows)
  BY DEF Items
<1>3. PICK rows, n : rows = y.revisions /\ n = Len(y.revisions)
  OBVIOUS
<1>4. n \in Nat /\ rows \in Seq(Rows) /\ DOMAIN rows = 1..n /\ \A r \in 1..n : rows[r] \in Rows
  BY <1>2, <1>3
<1>5. PICK left, right : left = ShownRows(rows, gone, e) /\ right = ShownRows(rows, kept, e)
  OBVIOUS
<1>6. x = Item(y.scope, y.lifecycle, y.sequence, y.latest, y.active, right, y.fts)
  BY <1>3, <1>5 DEF Shown
<1>7. x.revisions = right
  BY <1>6 DEF Item
<1>8. /\ left = [r \in 1..n |-> ShownRow(rows[r], gone, e[r])]
      /\ right = [r \in 1..n |-> ShownRow(rows[r], kept, e[r])]
  BY <1>4, <1>5 DEF ShownRows
<1>9. ASSUME NEW r \in 1..n PROVE ShownRow(rows[r], gone, e[r]) = ShownRow(rows[r], kept, e[r])
  <2>1. PICK row, s, a, b : row = rows[r] /\ s = e[r] /\ a = ShownRow(row, gone, s) /\ b = ShownRow(row, kept, s)
    OBVIOUS
  <2>2. row \in Rows /\ s \in Sources
    BY <1>4, <2>1
  <2>3. \A k \in BOOLEAN : ShownRow(row, k, s) \in Rows
    BY <2>2, ShownRowIs
  <2>4. a \in Rows /\ b \in Rows
    BY <2>1, <2>3
  <2>5. /\ a.state = row.state /\ a.origin = row.origin /\ a.supersedes = row.supersedes /\ a.source = row.source
        /\ a.erasedBy = s /\ a.content = (row.content /\ gone) /\ a.excerpt = (row.excerpt /\ gone /\ s = NoSession)
    BY <2>1, ShownRowHas
  <2>6. /\ b.state = row.state /\ b.origin = row.origin /\ b.supersedes = row.supersedes /\ b.source = row.source
        /\ b.erasedBy = s
    BY <2>1, ShownRowHas
  <2>7. ~b.content /\ ~b.excerpt
    <3>1. DOMAIN right = 1..n /\ right[r] = b
      BY <1>8, <2>1
    <3> QED
      BY <1>7, <3>1 DEF ErasedItem
  <2>8. ~a.content /\ ~a.excerpt
    BY <2>5
  <2>9. (a.content <=> b.content) /\ (a.excerpt <=> b.excerpt)
    BY <2>7, <2>8
  <2>10. a = b
    BY <2>4, <2>5, <2>6, <2>9, SameRow
  <2> QED
    BY <2>1, <2>10
<1>10. left = right
  BY <1>8, <1>9
<1>11. Shown(y, gone, e) = Item(y.scope, y.lifecycle, y.sequence, y.latest, y.active, left, y.fts)
  BY <1>3, <1>5 DEF Shown
<1> QED
  BY <1>6, <1>10, <1>11

\* The index rebuilt is the index kept.
LEMMA IndexRebuilt ==
  ASSUME NEW item \in Items, SoundItem(item)
  PROVE  [item EXCEPT !.fts = RebuildFts(item)] = item
<1>1. RebuildFts(item) = item.fts
  <2>1. PICK n : n = Len(item.revisions)
    OBVIOUS
  <2>2. n \in Nat /\ DOMAIN item.revisions = 1..n /\ item.sequence \in Nat /\ item.active \in Nat
    BY <2>1 DEF Items
  <2>3. CASE item.sequence = 0
    <3>1. item = Absent
      BY <2>3 DEF SoundItem
    <3>2. item.revisions = <<>> /\ item.fts = {}
      BY <3>1 DEF Absent
    <3>3. DOMAIN item.revisions = {}
      BY <3>2
    <3> QED
      BY <3>2, <3>3 DEF RebuildFts
  <2>4. CASE item.sequence > 0
    <3>1. /\ n > 0 /\ item.active \in {0, n} /\ item.fts = {item.active} \ {0}
          /\ \A r \in 1 .. n - 1 : StateOf(item, r) \in {"superseded", "deleted"}
          /\ item.active # 0 <=> StateOf(item, n) = "active"
          /\ item.active # 0 => item.revisions[item.active].content
      BY <2>1, <2>4 DEF SoundItem, LastState
    <3>2. ASSUME NEW r \in 1..n PROVE (StateOf(item, r) = "active" /\ item.revisions[r].content) <=> r \in item.fts
      <4>1. CASE r = n
        BY <2>2, <3>1, <4>1
      <4>2. CASE r # n
        <5>1. r \in 1 .. n - 1
          BY <2>2, <4>2
        <5>2. StateOf(item, r) # "active"
          BY <3>1, <5>1
        <5> QED
          BY <2>2, <3>1, <4>2, <5>2
      <4> QED
        BY <4>1, <4>2
    <3>3. item.fts \subseteq 1..n
      BY <2>2, <3>1
    <3> QED
      BY <2>2, <3>2, <3>3 DEF RebuildFts
  <2> QED
    BY <2>2, <2>3, <2>4
<1> QED
  BY <1>1 DEF Items

\* What a tombstone makes of a replayed memory.
LEMMA TombstoneBuries ==
  ASSUME NEW m \in tombstones, NEW y, NEW e, NEW gone, NEW x, x = Shown(y, gone, e), NEW item, item = ApplyTombstone(m, x)
  PROVE  [item EXCEPT !.fts = RebuildFts(item)] = Buried(x)
<1>1. PICK rows : rows = [r \in DOMAIN x.revisions |-> [x.revisions[r] EXCEPT !.state = "deleted"]]
  OBVIOUS
<1>2. x = Item(x.scope, x.lifecycle, x.sequence, x.latest, x.active, x.revisions, x.fts)
  BY DEF Shown, Item
<1>3. item = [x EXCEPT !.lifecycle = "deleted", !.active = 0, !.revisions = rows]
  BY <1>1 DEF ApplyTombstone
<1>4. PICK scope, lifecycle, sequence, latest, current, revisions, fts :
          /\ scope = x.scope /\ lifecycle = x.lifecycle /\ sequence = x.sequence /\ latest = x.latest
          /\ current = x.active /\ revisions = x.revisions /\ fts = x.fts
  OBVIOUS
<1>5. item = [Item(scope, lifecycle, sequence, latest, current, revisions, fts)
                EXCEPT !.lifecycle = "deleted", !.active = 0, !.revisions = rows]
  BY <1>2, <1>3, <1>4
<1>6. item = Item(scope, "deleted", sequence, latest, 0, rows, fts)
  BY <1>5 DEF Item
<1>7. item.revisions = rows
  BY <1>6 DEF Item
<1>8. RebuildFts(item) = {}
  <2>1. DOMAIN rows = DOMAIN x.revisions
    BY <1>1
  <2>2. ASSUME NEW r \in DOMAIN rows PROVE rows[r].state # "active"
    <3>1. x.revisions = ShownRows(y.revisions, gone, e)
      BY DEF Shown, Item
    <3>2. DOMAIN x.revisions = DOMAIN y.revisions /\ x.revisions[r] = ShownRow(y.revisions[r], gone, e[r])
      BY <2>1, <3>1 DEF ShownRows
    <3>3. rows[r] = [ShownRow(y.revisions[r], gone, e[r]) EXCEPT !.state = "deleted"]
      BY <1>1, <2>1, <3>2
    <3>4. rows[r].state = "deleted"
      BY <3>3 DEF ShownRow
    <3> QED
      BY <3>4
  <2> QED
    BY <1>7, <2>2 DEF RebuildFts, StateOf
<1>9. [item EXCEPT !.fts = RebuildFts(item)] = Item(scope, "deleted", sequence, latest, 0, rows, {})
  <2>1. [item EXCEPT !.fts = {}] = Item(scope, "deleted", sequence, latest, 0, rows, {})
    BY <1>6 DEF Item
  <2> QED
    BY <1>8, <2>1
<1> QED
  BY <1>1, <1>4, <1>9 DEF Buried

\* A rebuild leaves every row as it is.
LEMMA ItemsRebuilt ==
  ASSUME IInv, NEW P, NEW E, Accounts(P, E), NEW m \in Memories
  PROVE  RebuiltItem(m) = items[m]
<1>1. PICK p, e, y, kept : p = P[m] /\ e = E[m] /\ y = p.item /\ kept = Kept(m)
  OBVIOUS
<1>2. ReplayMemory(m) = View(p, kept, e) /\ Recorded(m, p, e)
  BY <1>1, RebuildReplays DEF Accounts
<1>3. PICK x : x = Shown(y, kept, e)
  OBVIOUS
<1>4. ReplayMemory(m).item = x
  BY <1>1, <1>2, <1>3 DEF View, Entry
<1>5. PICK item : item = ApplyTombstone(m, x)
  OBVIOUS
<1>6. RebuiltItem(m) = [item EXCEPT !.fts = RebuildFts(item)]
  BY <1>4, <1>5 DEF RebuiltItem
<1>7. CASE m \in tombstones
  <2>1. kept = FALSE
    BY <1>1, <1>7 DEF Kept, DeletedMemories
  <2>2. x = Shown(y, FALSE, e) /\ items[m] = Buried(Shown(y, FALSE, e))
    BY <1>1, <1>2, <1>3, <1>7, <2>1 DEF Recorded
  <2>3. [item EXCEPT !.fts = RebuildFts(item)] = Buried(x)
    BY <1>3, <1>5, <1>7, TombstoneBuries
  <2> QED
    BY <1>6, <2>2, <2>3
<1>8. CASE m \notin tombstones
  <2>1. item = x /\ items[m] = Shown(y, TRUE, e) /\ e \in [Nat -> Sources]
    BY <1>1, <1>2, <1>5, <1>8 DEF ApplyTombstone, Recorded
  <2>2. x = items[m]
    <3>1. CASE Kept(m)
      <4>1. kept = TRUE
        BY <1>1, <3>1 DEF Kept
      <4> QED
        BY <1>3, <2>1, <4>1
    <3>2. CASE ~Kept(m)
      <4>1. kept = FALSE
        BY <1>1, <3>2 DEF Kept
      <4>2. ErasedItem(items[m])
        BY <3>2 DEF Kept, IInv, LedgerFacts
      <4>3. y \in Items
        <5>1. PICK n : n = Len(p.item.revisions)
          OBVIOUS
        <5>2. Regular(p.item)
          BY <1>2, <5>1, RowsShown
        <5> QED
          BY <1>1, <5>2 DEF Regular
      <4>4. Shown(y, FALSE, e) = items[m]
        <5>1. PICK live, gone, shown : live \in BOOLEAN /\ gone \in BOOLEAN /\ live = TRUE /\ gone = FALSE /\ shown = Shown(y, live, e)
          OBVIOUS
        <5>2. shown = items[m] /\ ErasedItem(shown) /\ ~gone
          BY <2>1, <4>2, <5>1
        <5>3. Shown(y, gone, e) = shown
          BY <2>1, <4>3, <5>1, <5>2, ErasedShowsSame
        <5> QED
          BY <5>1, <5>2, <5>3
      <4> QED
        BY <1>3, <4>1, <4>4
    <3> QED
      BY <3>1, <3>2
  <2>3. items[m] \in Items /\ SoundItem(items[m])
    BY DEF IInv, TypeOK, MemoryTypeOK, LedgerFacts
  <2>4. [items[m] EXCEPT !.fts = RebuildFts(items[m])] = items[m]
    BY <2>3, IndexRebuilt
  <2> QED
    BY <1>6, <2>1, <2>2, <2>4
<1> QED
  BY <1>7, <1>8

\* What a rebuild counts of one memory.
LEMMA CountsRebuilt ==
  ASSUME IInv, NEW P, NEW E, Accounts(P, E), NEW m \in Memories, NEW replay, replay = ReplayMemory(m)
  PROVE  /\ replay.item.active = P[m].item.active /\ replay.batches = P[m].batches
         /\ replay.changes + EligibilityStep([active |-> replay.before], replay.item) = Changed(P[m])
<1>1. PICK p, e, kept : p = P[m] /\ e = E[m] /\ kept = Kept(m)
  OBVIOUS
<1>2. replay = View(p, kept, e)
  BY <1>1, RebuildReplays
<1>3. replay.batches = p.batches /\ replay.changes = p.changes /\ replay.before = p.before /\ replay.item = Shown(p.item, kept, e)
  BY <1>2 DEF View, Entry
<1>4. replay.item.active = p.item.active
  BY <1>3 DEF Shown, Item
<1> QED
  BY <1>1, <1>3, <1>4 DEF Changed, EligibilityStep

\* Both counters.
LEMMA GenerationsRebuilt ==
  ASSUME IInv, NEW P, NEW E, Accounts(P, E)
  PROVE  RebuiltGeneration = generation /\ RebuiltMutationGeneration = mutationGeneration
<1>0. Authored \in Memories /\ Proposal \in Memories /\ Compaction \in Memories
  BY MemoryNamesAssumption
<1>1. \A m \in Memories : Changed(P[m]) \in Nat /\ P[m].batches \in Nat
  <2>1. \A m \in Memories : P[m] \in Replayed
    BY DEF Accounts
  <2> QED
    BY <2>1, CountsIs
<1>2. ASSUME NEW m \in Memories
      PROVE  /\ ReplayMemory(m).item.active = P[m].item.active /\ ReplayMemory(m).batches = P[m].batches
             /\ ReplayMemory(m).changes + EligibilityStep([active |-> ReplayMemory(m).before], ReplayMemory(m).item)
                    = Changed(P[m])
  <2>1. PICK replay : replay = ReplayMemory(m)
    OBVIOUS
  <2>2. /\ replay.item.active = P[m].item.active /\ replay.batches = P[m].batches
        /\ replay.changes + EligibilityStep([active |-> replay.before], replay.item) = Changed(P[m])
    BY <2>1, CountsRebuilt
  <2> QED
    BY <2>1, <2>2
<1>3. PICK v : v = [m \in Memories |->
            ReplayMemory(m).changes + EligibilityStep([active |-> ReplayMemory(m).before], ReplayMemory(m).item)]
  OBVIOUS
<1>4. PICK w : w = [m \in Memories |-> ReplayMemory(m).batches]
  OBVIOUS
<1>5. /\ DOMAIN v = Memories /\ \A m \in Memories : v[m] \in Nat /\ v[m] = Changed(P[m])
  BY <1>1, <1>2, <1>3
<1>6. /\ DOMAIN w = Memories /\ \A m \in Memories : w[m] \in Nat /\ w[m] = P[m].batches
  BY <1>1, <1>2, <1>4
<1>7. Sum(v) = Changed(P[Authored]) + Changed(P[Proposal]) + Changed(P[Compaction])
  <2>1. Sum(v) = v[Authored] + v[Proposal] + v[Compaction]
    BY <1>5, SumIs
  <2> QED
    BY <1>0, <1>5, <2>1
<1>8. Sum(w) = P[Authored].batches + P[Proposal].batches + P[Compaction].batches
  <2>1. Sum(w) = w[Authored] + w[Proposal] + w[Compaction]
    BY <1>6, SumIs
  <2> QED
    BY <1>0, <1>6, <2>1
<1>9. (\E m \in tombstones : ReplayMemory(m).item.active # 0) <=> Struck(P)
  <2>1. tombstones \subseteq Memories
    BY DEF IInv, TypeOK, MemoryTypeOK
  <2> QED
    BY <1>2, <2>1 DEF Struck
<1>10. (tombstones # {} \/ ErasedEvidence # {}) <=> Touched(E)
  <2>1. ASSUME NEW m \in Memories, NEW r \in 1..MaxRevisions
        PROVE  (r \in DOMAIN items[m].revisions /\ items[m].revisions[r].erasedBy = Session) <=> E[m][r] = Session
    <3>1. PICK p, e, n : p = P[m] /\ e = E[m] /\ n = Len(p.item.revisions)
      OBVIOUS
    <3>2. Recorded(m, p, e)
      BY <3>1 DEF Accounts
    <3>3. n \in Nat /\ DOMAIN items[m].revisions = 1..n /\ \A k \in 1..n : items[m].revisions[k].erasedBy = e[k]
      BY <3>1, <3>2, RowsShown
    <3>4. r \in Nat /\ r > 0
      BY RevisionsAssumption
    <3>5. r > n => e[r] = NoSession
      BY <3>1, <3>2, <3>4 DEF Recorded
    <3> QED
      BY <3>1, <3>3, <3>4, <3>5, ScopeAssumption
  <2>2. ASSUME ErasedEvidence # {} PROVE Quoted(E)
    <3>1. PICK x \in ErasedEvidence : TRUE
      BY <2>2
    <3>2. PICK m \in Memories, r \in 1..MaxRevisions : x = <<m, r>>
      BY <3>1 DEF ErasedEvidence
    <3>3. r \in DOMAIN items[m].revisions /\ items[m].revisions[r].erasedBy = Session
      BY <3>1, <3>2 DEF ErasedEvidence
    <3> QED
      BY <2>1, <3>3 DEF Quoted
  <2>3. ASSUME Quoted(E) PROVE ErasedEvidence # {}
    <3>1. PICK m \in Memories, r \in 1..MaxRevisions : E[m][r] = Session
      BY <2>3 DEF Quoted
    <3>2. r \in DOMAIN items[m].revisions /\ items[m].revisions[r].erasedBy = Session
      BY <2>1, <3>1
    <3>3. <<m, r>> \in ErasedEvidence
      BY <3>2 DEF ErasedEvidence
    <3> QED
      BY <3>3
  <2> QED
    BY <2>2, <2>3 DEF Touched
<1>11. RebuiltGeneration = Sum(v) + (IF Struck(P) THEN 1 ELSE 0)
  BY <1>3, <1>9 DEF RebuiltGeneration
<1>12. RebuiltMutationGeneration = Sum(w) + (IF Touched(E) THEN 1 ELSE 0)
  BY <1>4, <1>10 DEF RebuiltMutationGeneration
<1> QED
  BY <1>7, <1>8, <1>11, <1>12 DEF Accounts, Tally

\* What every step does to the ledger: a batch, a session's deletion, or nothing.
LedgerStep ==
    \/ \E m, batch, scope : Committed(m, batch, scope)
    \/ DeleteSession
    \/ UNCHANGED <<items, ledger, generation, mutationGeneration, tombstones, session>>

\* The user's commands.
LEMMA UserBatches ==
  ASSUME IInv, UserMemoryCommand PROVE \E m, batch, scope : Committed(m, batch, scope)
<1>0. TypeOK /\ LedgerFacts /\ Authored \in Memories /\ Workspace # Session /\ Workspace \in Scopes
  BY MemoryNamesAssumption, ScopeAssumption DEF IInv, Scopes
<1>1. ASSUME NEW m \in Memories, NEW batch, PlannedBatch(batch, Workspace), AppendMemoryBatch(m, batch),
             Effective(m, batch), UNCHANGED contextVars
      PROVE  Committed(m, batch, Workspace)
  BY <1>0, <1>1 DEF Committed, Effective, contextVars
<1>2. ASSUME NEW v, RememberMemory(v) PROVE \E m, batch, scope : Committed(m, batch, scope)
  <2>1. PICK batch, draft : draft = UserDraft(0) /\ batch = PlanCreate(Authored, Workspace, draft, v)
    OBVIOUS
  <2>2. AppendMemoryBatch(Authored, batch) /\ UNCHANGED contextVars /\ ~Exists(Authored)
    BY <1>2, <2>1 DEF RememberMemory, CreatePlanned
  <2>3. Effective(Authored, batch)
    BY <1>0, <2>1, <2>2, RememberIsEffective
  <2>4. draft \in Drafts /\ draft.origin # "none"
    BY <2>1 DEF UserDraft, NoDraft, Drafts, Sources, Origins
  <2>5. PlannedBatch(batch, Workspace)
    BY <1>0, <2>1, <2>4, CreatePlans
  <2> QED
    BY <1>0, <1>1, <2>2, <2>3, <2>5
<1>3. ASSUME NEW v, ImportMemory(v) PROVE \E m, batch, scope : Committed(m, batch, scope)
  <2>1. PICK batch, draft : draft = UntrustedDraft("import", NoSession, FALSE) /\ batch = PlanCreate(Authored, Workspace, draft, v)
    OBVIOUS
  <2>2. AppendMemoryBatch(Authored, batch) /\ UNCHANGED contextVars /\ ~Exists(Authored)
    BY <1>3, <2>1 DEF ImportMemory, CreatePlanned
  <2>3. draft \in Drafts /\ draft.origin # "none" /\ draft.supersedes = 0 /\ ~draft.excerpt /\ draft.origin # "user"
    BY <2>1 DEF UntrustedDraft, NoDraft, Drafts, Origins, Sources
  <2>4. ~IsExplicitAccepted(draft, v)
    BY <2>3 DEF IsExplicitAccepted
  <2>5. Effective(Authored, batch)
    BY <1>0, <2>1, <2>2, <2>3, <2>4, CreateIsEffective
  <2>6. PlannedBatch(batch, Workspace)
    BY <1>0, <2>1, <2>3, CreatePlans
  <2> QED
    BY <1>0, <1>1, <2>2, <2>5, <2>6
<1>4. ASSUME NEW m \in Memories, DeleteMemory(m) PROVE \E k, batch, scope : Committed(k, batch, scope)
  <2>1. PICK r, batch : r = Len(items[m].revisions) /\ batch = PlanSingle("MemoryDeleted", r)
    OBVIOUS
  <2>2. AppendMemoryBatch(m, batch) /\ UNCHANGED contextVars /\ SinglePlanned(m, r, Deletable)
    BY <1>4, <2>1 DEF DeleteMemory
  <2>3. r \in DOMAIN items[m].revisions
    BY <2>2 DEF SinglePlanned
  <2>4. Effective(m, batch)
    BY <1>0, <2>1, <2>2, <2>3, DeleteIsEffective
  <2>5. "MemoryDeleted" \in Kinds \ Inserts /\ r \in Nat
    <3>1. items[m] \in Items
      BY <1>0 DEF TypeOK, MemoryTypeOK
    <3> QED
      BY <2>1, <3>1 DEF Kinds, Inserts, Items
  <2>6. PlannedBatch(batch, Workspace)
    BY <2>1, <2>5, SinglePlans
  <2> QED
    BY <1>1, <2>2, <2>4, <2>6
<1>5. ASSUME NEW m \in Memories, NEW r \in 1..MaxRevisions,
             ReviseMemory(m, r) \/ ApproveMemoryProposal(m, r) \/ RejectMemoryProposal(m, r) \/ RetractMemory(m, r)
      PROVE  \E k, batch, scope : Committed(k, batch, scope)
  <2>0. r \in Nat /\ items[m] \in Items /\ Len(items[m].revisions) \in Nat
    BY <1>0, RevisionsAssumption DEF TypeOK, MemoryTypeOK, Items
  <2>1. CASE ReviseMemory(m, r)
    <3>1. PICK batch : batch = PlanRevise(m, r)
      OBVIOUS
    <3>2. AppendMemoryBatch(m, batch) /\ UNCHANGED contextVars /\ RevisePlanned(m, r, "accepted") /\ r \in DOMAIN items[m].revisions
      BY <2>1, <3>1 DEF ReviseMemory, RevisePlanned
    <3>3. Effective(m, batch)
      BY <1>0, <3>1, <3>2, ReviseIsEffective
    <3>4. PlannedBatch(batch, Workspace)
      BY <2>0, <3>1, RevisePlans
    <3> QED
      BY <1>1, <3>2, <3>3, <3>4
  <2>2. CASE ApproveMemoryProposal(m, r)
    <3>1. PICK batch : batch = PlanApprove(m, r)
      OBVIOUS
    <3>2. AppendMemoryBatch(m, batch) /\ UNCHANGED contextVars /\ ApprovePlanned(m, r, "accepted") /\ r \in DOMAIN items[m].revisions
      BY <2>2, <3>1 DEF ApproveMemoryProposal, ApprovePlanned
    <3>3. Effective(m, batch)
      BY <1>0, <3>1, <3>2, ApproveIsEffective
    <3>4. PlannedBatch(batch, Workspace)
      BY <2>0, <3>1, <3>2, ApprovePlans
    <3> QED
      BY <1>1, <3>2, <3>3, <3>4
  <2>3. CASE RejectMemoryProposal(m, r)
    <3>1. PICK batch : batch = PlanSingle("RevisionRejected", r)
      OBVIOUS
    <3>2. AppendMemoryBatch(m, batch) /\ UNCHANGED contextVars /\ SinglePlanned(m, r, {"proposed"}) /\ r \in DOMAIN items[m].revisions
      BY <2>3, <3>1 DEF RejectMemoryProposal, SinglePlanned
    <3>3. Effective(m, batch)
      BY <1>0, <3>1, <3>2, RejectIsEffective
    <3>4. PlannedBatch(batch, Workspace)
      <4>1. "RevisionRejected" \in Kinds \ Inserts
        BY DEF Kinds, Inserts
      <4> QED
        BY <2>0, <3>1, <4>1, SinglePlans
    <3> QED
      BY <1>1, <3>2, <3>3, <3>4
  <2>4. CASE RetractMemory(m, r)
    <3>1. PICK batch : batch = PlanSingle("MemoryRetracted", r)
      OBVIOUS
    <3>2. AppendMemoryBatch(m, batch) /\ UNCHANGED contextVars /\ SinglePlanned(m, r, {"active"}) /\ r \in DOMAIN items[m].revisions
      BY <2>4, <3>1 DEF RetractMemory, SinglePlanned
    <3>3. Effective(m, batch)
      BY <1>0, <3>1, <3>2, RetractIsEffective
    <3>4. PlannedBatch(batch, Workspace)
      <4>1. "MemoryRetracted" \in Kinds \ Inserts
        BY DEF Kinds, Inserts
      <4> QED
        BY <2>0, <3>1, <4>1, SinglePlans
    <3> QED
      BY <1>1, <3>2, <3>3, <3>4
  <2> QED
    BY <1>5, <2>1, <2>2, <2>3, <2>4
<1> QED
  BY <1>2, <1>3, <1>4, <1>5 DEF UserMemoryCommand

\* The proposals of a handler, which runs only in an open session.
LEMMA ProposalBatches ==
  ASSUME IInv, NEW m \in Memories, NEW scope \in Scopes, NEW draft \in Drafts, draft.origin \in {"tool", "compaction"},
         draft.supersedes = 0, ~Exists(m), handler # "none",
         NEW batch, batch = PlanCreate(m, scope, draft, "needs_review"), AppendMemoryBatch(m, batch), session' = session
  PROVE  Committed(m, batch, scope)
<1>1. session # "deleted"
  BY DEF IInv, ContextFacts
<1>2. TypeOK /\ LedgerFacts /\ ~IsExplicitAccepted(draft, "needs_review") /\ draft.origin # "none"
  BY DEF IInv, IsExplicitAccepted
<1>3. Effective(m, batch)
  BY <1>1, <1>2, CreateIsEffective
<1>4. PlannedBatch(batch, scope)
  BY <1>2, CreatePlans
<1> QED
  BY <1>1, <1>3, <1>4 DEF Committed, Effective

\* Every step is one of them.
LEMMA NextIsLedgerStep ==
  ASSUME IInv, [Next]_vars PROVE LedgerStep
<1>0. TypeOK /\ LedgerFacts /\ Proposal \in Memories /\ Compaction \in Memories /\ Session \in Scopes
  BY MemoryNamesAssumption DEF IInv, Scopes
<1>1. CASE UserMemoryCommand
  BY <1>1, UserBatches DEF LedgerStep
<1>2. CASE PrepareStep
  <2>1. ASSUME NEW x \in Excerpts, CreateCompactionProposal(x) PROVE LedgerStep
    <3>1. PICK draft, batch : draft = CompactionDraft(x) /\ batch = PlanCreate(Compaction, Session, draft, "needs_review")
      OBVIOUS
    <3>2. AppendMemoryBatch(Compaction, batch) /\ handler # "none" /\ ~Exists(Compaction) /\ session' = session
      BY <2>1, <3>1 DEF CreateCompactionProposal, Compacts, CreatePlanned
    <3>3. draft \in Drafts /\ draft.supersedes = 0 /\ draft.origin \in {"tool", "compaction"}
      BY <3>1, ExcerptsAssumption DEF CompactionDraft, UntrustedDraft, NoDraft, Drafts, Origins, Sources
    <3>4. Committed(Compaction, batch, Session)
      BY <1>0, <3>1, <3>2, <3>3, ProposalBatches
    <3> QED
      BY <3>4 DEF LedgerStep
  <2>2. CASE \/ PrepareNewContextEpoch \/ PrepareFrozenContinuation \/ PrepareCompactionEpoch
             \/ ReuseCompactionProposal \/ PreparationFails
    BY <2>2 DEF LedgerStep, PrepareNewContextEpoch, PrepareFrozenContinuation, PrepareCompactionEpoch,
                ReuseCompactionProposal, PreparationFails, FailContextPreparation, memoryVars
  <2> QED
    BY <1>2, <2>1, <2>2 DEF PrepareStep
<1>3. CASE BindStep
  BY <1>3 DEF LedgerStep, BindStep, CommitContextTurnAndBind, CommitRefused, DispatchTurn, FailContextPreparation, memoryVars
<1>4. CASE ToolStep
  <2>1. ASSUME NEW s \in Scopes, NEW x \in Excerpts, PersistMemoryProposal(s, x) PROVE LedgerStep
    <3>1. PICK draft, batch : draft = UntrustedDraft("tool", Session, x) /\ batch = PlanCreate(Proposal, s, draft, "needs_review")
      OBVIOUS
    <3>2. AppendMemoryBatch(Proposal, batch) /\ handler # "none" /\ ~Exists(Proposal) /\ session' = session
      BY <2>1, <3>1 DEF PersistMemoryProposal, CreatePlanned
    <3>3. draft \in Drafts /\ draft.supersedes = 0 /\ draft.origin \in {"tool", "compaction"}
      BY <3>1, ExcerptsAssumption DEF UntrustedDraft, NoDraft, Drafts, Origins, Sources
    <3>4. Committed(Proposal, batch, s)
      BY <1>0, <3>1, <3>2, <3>3, ProposalBatches
    <3> QED
      BY <3>4 DEF LedgerStep
  <2>2. CASE PauseForTools \/ ProposalRejected \/ CompleteToolCall \/ ResumeAfterTools
    BY <2>2 DEF LedgerStep, PauseForTools, ProposalRejected, CompleteToolCall, ResumeAfterTools, memoryVars
  <2> QED
    BY <1>4, <2>1, <2>2 DEF ToolStep
<1>5. CASE SessionStep
  BY <1>5 DEF LedgerStep, SessionStep, StartAttempt, AttemptCompletes, AttemptFails, EditSession, memoryVars
<1>6. CASE RecoveryStep
  BY <1>6 DEF LedgerStep, RecoveryStep, CrashAndRecover, ResumeBoundTurn, memoryVars
<1>7. CASE UNCHANGED vars
  BY <1>7 DEF LedgerStep, vars, memoryVars, contextVars
<1> QED
  BY <1>1, <1>2, <1>3, <1>4, <1>5, <1>6, <1>7 DEF Next

\* Rebuilding every projection from the operations changes nothing, after any
\* history of commands, proposals, deletions and an erased session: every row,
\* every index entry and both counters come back as the live appends and
\* erasures left them (rebuild_memory_projections against append_memory_batch
\* and erase_session_memory_and_evidence).
THEOREM RebuildSafe == Spec => []RebuildIsIdentity
<1>1. Init => RebuildFacts
  BY InitAccounts
<1>2. IInv /\ RebuildFacts /\ [Next]_vars => RebuildFacts'
  <2> SUFFICES ASSUME IInv, RebuildFacts, [Next]_vars PROVE RebuildFacts'
    OBVIOUS
  <2>1. TypeOK /\ LedgerFacts /\ LedgerStep
    BY NextIsLedgerStep DEF IInv
  <2>2. ASSUME NEW m, NEW batch, NEW scope, Committed(m, batch, scope) PROVE RebuildFacts'
    BY <2>1, <2>2, BatchAccounts
  <2>3. CASE DeleteSession
    BY <2>1, <2>3, DeletionAccounts
  <2>4. CASE UNCHANGED <<items, ledger, generation, mutationGeneration, tombstones, session>>
    BY <2>4, SameAccounts
  <2> QED
    BY <2>1, <2>2, <2>3, <2>4 DEF LedgerStep
<1>3. IInv /\ RebuildFacts => RebuildIsIdentity
  <2> SUFFICES ASSUME IInv, RebuildFacts PROVE RebuildIsIdentity
    OBVIOUS
  <2>1. PICK P, E : Accounts(P, E)
    BY DEF RebuildFacts
  <2>2. \A m \in Memories : RebuiltItem(m) = items[m]
    BY <2>1, ItemsRebuilt
  <2>3. RebuiltGeneration = generation /\ RebuiltMutationGeneration = mutationGeneration
    BY <2>1, GenerationsRebuilt
  <2> QED
    BY <2>2, <2>3 DEF RebuildIsIdentity
<1>4. Spec => []IInv
  BY ContextInvariant
<1> QED
  BY <1>1, <1>2, <1>3, <1>4, PTL DEF Spec
=============================================================================
