--------------------------- MODULE MemoryView_proof ---------------------------
(***************************************************************************)
(* The theorems of the memory workspace, for every set of memories, every  *)
(* page size and every sequence of undertakings.                           *)
(*                                                                         *)
(* ViewInv says which rows may be anywhere - published, on display, under  *)
(* review, in a command: none is newer than the ledger, and one of the     *)
(* ledger's present sequence shows what the ledger has. What is submitted  *)
(* is compared with that sequence, so a change is the one reviewed.        *)
(*                                                                         *)
(* It also says which query is answered last: the last one on its way is   *)
(* the mounted workspace's own, and if none is, the view has it. A         *)
(* workspace that was mounted while nothing was on its way is ahead of     *)
(* every other generation besides.                                         *)
(*                                                                         *)
(* The export before a deletion is a recursive function of its cursor. Its *)
(* defining equation has one solution: of two, the smallest number of      *)
(* records left at which they differ has a smaller one.                    *)
(***************************************************************************)
EXTENDS MemoryView, WellFoundedInduction, SequenceTheorems, FiniteSetTheorems, TLAPS

-----------------------------------------------------------------------------
(* The order of a page. *)

Cursors == [updated : Nat, memory : Nat]

\* Records that can be told apart by their cursors.
Sortable(records) ==
    /\ IsFiniteSet(records)
    /\ \A a \in records : a.updated \in Nat /\ a.memory \in Nat
    /\ \A a, b \in records : a.memory = b.memory => a = b

\* A record before another has more records after it.
LEMMA NewerShrinks ==
  ASSUME NEW S, Sortable(S), NEW a \in S, NEW b \in S, Precedes(CursorOf(a), CursorOf(b))
  PROVE  /\ Cardinality(Newer(S, a)) \in Nat /\ Cardinality(Newer(S, b)) \in Nat
         /\ Cardinality(Newer(S, b)) < Cardinality(Newer(S, a))
<1>1. Newer(S, a) \in SUBSET S /\ Newer(S, b) \in SUBSET S
  BY DEF Newer
<1>2. IsFiniteSet(Newer(S, a)) /\ IsFiniteSet(Newer(S, b))
  BY <1>1, FS_Subset DEF Sortable
<1>3. b \in Newer(S, a)
  BY DEF Newer
<1>4. Newer(S, b) \in SUBSET (Newer(S, a) \ {b})
  BY DEF Newer, Precedes, CursorOf, Sortable
<1>5. /\ Cardinality(Newer(S, a) \ {b}) = Cardinality(Newer(S, a)) - 1
      /\ IsFiniteSet(Newer(S, a) \ {b})
  BY <1>2, <1>3, FS_RemoveElement
<1>6. Cardinality(Newer(S, b)) <= Cardinality(Newer(S, a) \ {b})
  BY <1>4, <1>5, FS_Subset
<1>7. Cardinality(Newer(S, a)) \in Nat /\ Cardinality(Newer(S, b)) \in Nat
  BY <1>2, FS_CardinalityType
<1> QED
  BY <1>5, <1>6, <1>7

\* Of two records one is before the other.
LEMMA OneIsNewer ==
  ASSUME NEW S, Sortable(S), NEW a \in S, NEW b \in S, a # b
  PROVE  Precedes(CursorOf(a), CursorOf(b)) \/ Precedes(CursorOf(b), CursorOf(a))
<1>1. a.updated \in Nat /\ a.memory \in Nat /\ b.updated \in Nat /\ b.memory \in Nat /\ a.memory # b.memory
  BY DEF Sortable
<1> QED
  BY <1>1 DEF Precedes, CursorOf

\* There is one record for each place.
LEMMA NthIs ==
  ASSUME NEW S, Sortable(S), NEW n \in 1..Cardinality(S)
  PROVE  Nth(S, n) \in S /\ Cardinality(Newer(S, Nth(S, n))) = n - 1
<1>1. Cardinality(S) \in Nat /\ IsFiniteSet(S)
  BY FS_CardinalityType DEF Sortable
<1> DEFINE size == Cardinality(S)
           rank == [a \in S |-> Cardinality(Newer(S, a)) + 1]
<1>2. ASSUME NEW a \in S PROVE Cardinality(Newer(S, a)) \in 0..size - 1
  <2>1. Newer(S, a) \in SUBSET (S \ {a})
    BY DEF Newer, Precedes, CursorOf, Sortable
  <2>2. IsFiniteSet(S \ {a}) /\ Cardinality(S \ {a}) = size - 1
    BY <1>1, FS_RemoveElement
  <2>3. IsFiniteSet(Newer(S, a)) /\ Cardinality(Newer(S, a)) <= size - 1
    BY <2>1, <2>2, FS_Subset
  <2> QED
    BY <1>1, <2>3, FS_CardinalityType
<1>3. rank \in [S -> 1..size]
  BY <1>1, <1>2
<1>4. ASSUME NEW a \in S, NEW b \in S, rank[a] = rank[b] PROVE a = b
  <2> SUFFICES ASSUME a # b PROVE FALSE
    OBVIOUS
  <2>1. CASE Precedes(CursorOf(a), CursorOf(b))
    BY <1>2, <1>4, <2>1, NewerShrinks
  <2>2. CASE Precedes(CursorOf(b), CursorOf(a))
    BY <1>2, <1>4, <2>2, NewerShrinks
  <2> QED
    BY <2>1, <2>2, OneIsNewer
<1>5. rank \in Injection(S, 1..size)
  BY <1>3, <1>4 DEF Injection, IsInjective
<1>6. IsFiniteSet(1..size) /\ Cardinality(1..size) = size
  BY <1>1, FS_Interval
<1> HIDE DEF rank
<1>7. rank \in Surjection(S, 1..size)
  BY <1>5, <1>6, FS_Injection
<1>8. PICK a \in S : rank[a] = n
  BY <1>7 DEF Surjection
<1>9. Cardinality(Newer(S, a)) = n - 1
  BY <1>1, <1>2, <1>8 DEF rank
<1> QED
  BY <1>9 DEF Nth

\* A place has one record.
LEMMA RankIsUnique ==
  ASSUME NEW S, Sortable(S), NEW a \in S, NEW b \in S, Cardinality(Newer(S, a)) = Cardinality(Newer(S, b))
  PROVE  a = b
<1> SUFFICES ASSUME a # b PROVE FALSE
  OBVIOUS
<1>1. CASE Precedes(CursorOf(a), CursorOf(b))
  BY <1>1, NewerShrinks
<1>2. CASE Precedes(CursorOf(b), CursorOf(a))
  BY <1>2, NewerShrinks
<1> QED
  BY <1>1, <1>2, OneIsNewer

\* A part of what can be sorted can be sorted.
LEMMA MatchingSortable ==
  ASSUME NEW tables, Sortable(tables), NEW scopes, NEW statuses, NEW literal, NEW before
  PROVE  Sortable(Matching(tables, scopes, statuses, literal, before))
<1>1. Matching(tables, scopes, statuses, literal, before) \in SUBSET tables
  BY DEF Matching
<1> QED
  BY <1>1, FS_Subset DEF Sortable

\* A page holds matching records, no more than its limit, and every matching
\* record is on it or past its last one.
LEMMA PageIs ==
  ASSUME NEW tables, Sortable(tables), NEW scopes, NEW statuses, NEW literal, NEW before,
         NEW limit \in Nat \ {0}, NEW page, page = InspectMemoryPage(tables, scopes, statuses, literal, before, limit),
         NEW matching, matching = Matching(tables, scopes, statuses, literal, before)
  PROVE  /\ page.records \in Seq(matching) /\ page.more \in BOOLEAN
         /\ Len(page.records) <= limit
         /\ page.more => Len(page.records) = limit
         /\ \A a \in matching : \/ \E i \in 1..Len(page.records) : page.records[i] = a
                                \/ page.more /\ Precedes(CursorOf(a), CursorOf(page.records[Len(page.records)]))
<1>1. Sortable(matching)
  BY MatchingSortable
<1>2. PICK found : found = Cardinality(matching) /\ found \in Nat
  BY <1>1, FS_CardinalityType DEF Sortable
<1>3. PICK size : size = IF found > limit THEN limit ELSE found
  OBVIOUS
<1>4. size \in 0..found /\ size <= limit /\ (found > limit => size = limit)
  BY <1>2, <1>3
<1>5. page = [records |-> [n \in 1..size |-> Nth(matching, n)], more |-> found > limit]
  BY <1>2, <1>3 DEF InspectMemoryPage
<1>6. ASSUME NEW n \in 1..size PROVE Nth(matching, n) \in matching /\ Cardinality(Newer(matching, Nth(matching, n))) = n - 1
  BY <1>1, <1>2, <1>4, NthIs
<1>7. page.records \in Seq(matching) /\ Len(page.records) = size /\ page.more = (found > limit)
      /\ \A n \in 1..size : page.records[n] = Nth(matching, n)
  <2>1. [n \in 1..size |-> Nth(matching, n)] \in [1..size -> matching]
    BY <1>6
  <2>2. page.records = [n \in 1..size |-> Nth(matching, n)]
    BY <1>5
  <2> QED
    BY <1>4, <1>5, <2>1, <2>2
<1>8. ASSUME NEW a \in matching
      PROVE  \/ \E i \in 1..size : page.records[i] = a
             \/ page.more /\ Precedes(CursorOf(a), CursorOf(page.records[size]))
  <2>1. PICK r : r = Cardinality(Newer(matching, a)) + 1 /\ r \in 1..found
    <3>1. Newer(matching, a) \in SUBSET (matching \ {a})
      BY <1>1 DEF Newer, Precedes, CursorOf, Sortable
    <3>2. IsFiniteSet(matching \ {a}) /\ Cardinality(matching \ {a}) = found - 1
      BY <1>1, <1>2, FS_RemoveElement DEF Sortable
    <3>3. IsFiniteSet(Newer(matching, a)) /\ Cardinality(Newer(matching, a)) <= found - 1
      BY <3>1, <3>2, FS_Subset
    <3> QED
      BY <1>2, <3>3, FS_CardinalityType
  <2>2. CASE r <= size
    <3>1. Nth(matching, r) \in matching /\ Cardinality(Newer(matching, Nth(matching, r))) = Cardinality(Newer(matching, a))
      <4>1. r \in 1..size
        BY <1>4, <2>1, <2>2
      <4>2. Cardinality(Newer(matching, a)) = r - 1
        <5>1. IsFiniteSet(Newer(matching, a))
          BY <1>1, FS_Subset DEF Newer, Sortable
        <5> QED
          BY <2>1, <5>1, FS_CardinalityType
      <4> QED
        BY <1>6, <4>1, <4>2
    <3>2. Nth(matching, r) = a
      BY <1>1, <3>1, RankIsUnique
    <3> QED
      BY <1>7, <2>1, <2>2, <3>2, <1>4
  <2>3. CASE r > size
    <3>1. found > limit /\ size = limit /\ size \in 1..size
      BY <1>2, <1>3, <1>4, <2>1, <2>3
    <3>2. PICK last : last = Nth(matching, size) /\ last \in matching /\ Cardinality(Newer(matching, last)) = size - 1
      BY <1>6, <3>1
    <3>3. IsFiniteSet(Newer(matching, a)) /\ Cardinality(Newer(matching, a)) \in Nat
      BY <1>1, FS_Subset, FS_CardinalityType DEF Newer, Sortable
    <3>4. Cardinality(Newer(matching, a)) > Cardinality(Newer(matching, last))
      BY <1>4, <2>1, <2>3, <3>2, <3>3
    <3>5. Precedes(CursorOf(a), CursorOf(last))
      <4>1. a # last /\ Cardinality(Newer(matching, last)) \in Nat
        BY <1>4, <3>1, <3>2, <3>3, <3>4
      <4>2. ~Precedes(CursorOf(last), CursorOf(a))
        BY <1>1, <3>2, <3>3, <3>4, <4>1, NewerShrinks
      <4> QED
        BY <1>1, <3>2, <4>1, <4>2, OneIsNewer
    <3> QED
      BY <1>7, <3>1, <3>2, <3>5
  <2> QED
    BY <1>4, <2>1, <2>2, <2>3
<1>9. page.more \in BOOLEAN
  BY <1>7
<1>10. Len(page.records) <= limit /\ (page.more => Len(page.records) = limit)
  BY <1>4, <1>7
<1> QED
  BY <1>7, <1>8, <1>9, <1>10

-----------------------------------------------------------------------------
(* What the workspace needs to know of a memory. *)

RevisionStates == {"proposed", "active", "superseded", "rejected", "retracted", "deleted"}

\* The states of a memory; a row that is not there is absent.
Lifecycles == {"absent", "proposed", "active", "rejected", "retracted", "deleted"}

\* Where a draft came from, and what a revision keeps of it.
Sources == {Session, NoSession}
Origins == {"none", "user", "import", "tool", "compaction"}
Drafts == [origin : Origins, supersedes : Nat, source : Sources, excerpt : BOOLEAN]
Revisions ==
    [state : RevisionStates, origin : Origins, supersedes : Nat, source : Sources,
     content : BOOLEAN, excerpt : BOOLEAN, erasedBy : Sources]

\* The columns of a memory's row.
Item(scope, lifecycle, sequence, latest, current, revisions, fts) ==
    [scope |-> scope, lifecycle |-> lifecycle, sequence |-> sequence, latest |-> latest,
     active |-> current, revisions |-> revisions, fts |-> fts]

\* The latest revision is the last one, and a memory that exists has one.
ItemOK(item) ==
    \E scope \in {Workspace, Session, NoSession}, lifecycle \in Lifecycles, sequence \in Nat, revisions \in Seq(Revisions) :
        /\ \E current, fts : item = Item(scope, lifecycle, sequence, Len(revisions), current, revisions, fts)
        /\ sequence = 0 => item = Absent
        /\ sequence > 0 => Len(revisions) > 0

\* What that says of its columns.
LEMMA ItemHas ==
  ASSUME NEW item, ItemOK(item)
  PROVE  /\ item.scope \in {Workspace, Session, NoSession} /\ item.lifecycle \in Lifecycles
         /\ item.sequence \in Nat /\ item.revisions \in Seq(Revisions) /\ item.latest = Len(item.revisions)
         /\ item.sequence = 0 => item = Absent
         /\ item.sequence > 0 => Len(item.revisions) > 0
         /\ item = Item(item.scope, item.lifecycle, item.sequence, Len(item.revisions), item.active, item.revisions, item.fts)
<1>1. PICK scope \in {Workspace, Session, NoSession}, lifecycle \in Lifecycles, sequence \in Nat, revisions \in Seq(Revisions) :
        /\ \E current, fts : item = Item(scope, lifecycle, sequence, Len(revisions), current, revisions, fts)
        /\ sequence = 0 => item = Absent
        /\ sequence > 0 => Len(revisions) > 0
  BY DEF ItemOK
<1>2. PICK current, fts : item = Item(scope, lifecycle, sequence, Len(revisions), current, revisions, fts)
  BY <1>1
<1>3. /\ item.scope = scope /\ item.lifecycle = lifecycle /\ item.sequence = sequence
      /\ item.latest = Len(revisions) /\ item.active = current /\ item.revisions = revisions /\ item.fts = fts
  BY <1>2 DEF Item
<1> QED
  BY <1>1, <1>2, <1>3

\* The columns of an item make it one.
LEMMA ItemIs ==
  ASSUME NEW scope \in {Workspace, Session, NoSession}, NEW lifecycle \in Lifecycles, NEW sequence \in Nat \ {0},
         NEW revisions \in Seq(Revisions), NEW latest, latest = Len(revisions), latest > 0, NEW current, NEW fts,
         NEW item, item = Item(scope, lifecycle, sequence, latest, current, revisions, fts)
  PROVE  ItemOK(item) /\ item.sequence = sequence
<1>1. item.sequence = sequence
  BY DEF Item
<1> QED
  BY <1>1 DEF ItemOK

\* Changing the state of a revision.
WithState(revisions, r, state) == [revisions EXCEPT ![r] = [revisions[r] EXCEPT !.state = state]]

\* It leaves as many revisions as there were.
LEMMA WithStateIs ==
  ASSUME NEW revisions \in Seq(Revisions), NEW r, NEW state \in RevisionStates, NEW after, after = WithState(revisions, r, state)
  PROVE  after \in Seq(Revisions) /\ Len(after) = Len(revisions)
<1>1. \A i \in 1..Len(revisions) : revisions[i] \in Revisions
  OBVIOUS
<1>2. \A i \in 1..Len(revisions) : [revisions[i] EXCEPT !.state = state] \in Revisions
  BY <1>1 DEF Revisions
<1>3. PICK row : row = [revisions[r] EXCEPT !.state = state]
  OBVIOUS
<1>4. after = [revisions EXCEPT ![r] = row]
  BY <1>3 DEF WithState
<1>5. CASE r \in 1..Len(revisions)
  BY <1>2, <1>3, <1>4, <1>5
<1>6. CASE r \notin 1..Len(revisions)
  <2>1. DOMAIN after = 1..Len(revisions) /\ \A i \in 1..Len(revisions) : after[i] = revisions[i]
    BY <1>4, <1>6
  <2>2. after = revisions
    BY <1>4, <2>1
  <2> QED
    BY <2>2
<1> QED
  BY <1>5, <1>6

\* A sequence and one more element.
LEMMA Appends ==
  ASSUME NEW S, NEW s \in Seq(S), NEW x \in S, NEW t, t = Append(s, x)
  PROVE  t \in Seq(S) /\ Len(t) = Len(s) + 1 /\ t[Len(s) + 1] = x /\ \A i \in 1..Len(s) : t[i] = s[i]
<1>1. Append(s, x) \in Seq(S)
  OBVIOUS
<1>2. Len(Append(s, x)) = Len(s) + 1
  OBVIOUS
<1>3. Append(s, x)[Len(s) + 1] = x
  OBVIOUS
<1>4. \A i \in 1..Len(s) : Append(s, x)[i] = s[i]
  OBVIOUS
<1> QED
  BY <1>1, <1>2, <1>3, <1>4

\* An item that has revisions, at a given sequence.
Filled(item, sequence) ==
    \E scope \in {Workspace, Session, NoSession}, lifecycle \in Lifecycles, revisions \in Seq(Revisions) :
        /\ Len(revisions) > 0
        /\ \E current, fts : item = Item(scope, lifecycle, sequence, Len(revisions), current, revisions, fts)

\* It is what exists.
LEMMA FilledIs ==
  ASSUME NEW item, NEW sequence \in Nat
  PROVE  /\ Filled(item, sequence) /\ sequence > 0 => ItemOK(item) /\ item.sequence = sequence
         /\ ItemOK(item) /\ item.sequence > 0 => Filled(item, item.sequence)
<1>1. ASSUME Filled(item, sequence), sequence > 0 PROVE ItemOK(item) /\ item.sequence = sequence
  <2>1. PICK scope \in {Workspace, Session, NoSession}, lifecycle \in Lifecycles, revisions \in Seq(Revisions) :
        /\ Len(revisions) > 0
        /\ \E current, fts : item = Item(scope, lifecycle, sequence, Len(revisions), current, revisions, fts)
    BY <1>1 DEF Filled
  <2>2. item.sequence = sequence
    BY <2>1 DEF Item
  <2> QED
    BY <1>1, <2>1, <2>2 DEF ItemOK
<1>2. ASSUME ItemOK(item), item.sequence > 0 PROVE Filled(item, item.sequence)
  <2>1. /\ item.scope \in {Workspace, Session, NoSession} /\ item.lifecycle \in Lifecycles
        /\ item.revisions \in Seq(Revisions) /\ Len(item.revisions) > 0
        /\ item = Item(item.scope, item.lifecycle, item.sequence, Len(item.revisions), item.active, item.revisions, item.fts)
    BY <1>2, ItemHas
  <2> QED
    BY <2>1 DEF Filled
<1> QED
  BY <1>1, <1>2

\* Setting the state of a revision keeps the columns.
LEMMA FilledState ==
  ASSUME NEW item, NEW sequence, Filled(item, sequence), NEW r, NEW state \in RevisionStates
  PROVE  Filled(SetRevisionState(item, r, state), sequence)
<1>1. PICK scope \in {Workspace, Session, NoSession}, lifecycle \in Lifecycles, revisions \in Seq(Revisions) :
        /\ Len(revisions) > 0
        /\ \E current, fts : item = Item(scope, lifecycle, sequence, Len(revisions), current, revisions, fts)
  BY DEF Filled
<1>2. PICK current, fts : item = Item(scope, lifecycle, sequence, Len(revisions), current, revisions, fts)
  BY <1>1
<1>3. PICK left : left = WithState(revisions, r, state)
  OBVIOUS
<1>4. left \in Seq(Revisions) /\ Len(left) = Len(revisions)
  BY <1>3, WithStateIs
<1>5. SetRevisionState(item, r, state) = [item EXCEPT !.revisions = left]
  BY <1>2, <1>3 DEF SetRevisionState, WithState, Item
<1>6. [item EXCEPT !.revisions = left] = Item(scope, lifecycle, sequence, Len(left), current, left, fts)
  BY <1>2, <1>4 DEF Item
<1> QED
  BY <1>1, <1>4, <1>5, <1>6 DEF Filled

\* So does changing what is indexed, what is active and how the memory is labelled.
LEMMA FilledLabels ==
  ASSUME NEW item, NEW sequence, Filled(item, sequence), NEW indexed, NEW label \in Lifecycles, NEW number
  PROVE  /\ Filled([item EXCEPT !.fts = indexed], sequence)
         /\ Filled([item EXCEPT !.lifecycle = label], sequence)
         /\ Filled([item EXCEPT !.lifecycle = label, !.active = number], sequence)
         /\ Filled([item EXCEPT !.fts = indexed, !.lifecycle = label, !.active = number], sequence)
<1>1. PICK scope \in {Workspace, Session, NoSession}, lifecycle \in Lifecycles, revisions \in Seq(Revisions) :
        /\ Len(revisions) > 0
        /\ \E current, fts : item = Item(scope, lifecycle, sequence, Len(revisions), current, revisions, fts)
  BY DEF Filled
<1>2. PICK current, fts : item = Item(scope, lifecycle, sequence, Len(revisions), current, revisions, fts)
  BY <1>1
<1>3. ASSUME NEW x, NEW l \in Lifecycles, NEW c, NEW f, x = Item(scope, l, sequence, Len(revisions), c, revisions, f)
      PROVE  Filled(x, sequence)
  BY <1>1, <1>3 DEF Filled
<1>4. PICK size : size = Len(revisions)
  OBVIOUS
<1>5. [item EXCEPT !.fts = indexed] = Item(scope, lifecycle, sequence, size, current, revisions, indexed)
  BY <1>2, <1>4 DEF Item
<1>6. [item EXCEPT !.lifecycle = label] = Item(scope, label, sequence, size, current, revisions, fts)
  BY <1>2, <1>4 DEF Item
<1>7. ASSUME NEW x, x = [item EXCEPT !.lifecycle = label, !.active = number]
      PROVE  x = Item(scope, label, sequence, size, number, revisions, fts)
  BY <1>2, <1>4, <1>7 DEF Item
<1>8. ASSUME NEW x, x = [item EXCEPT !.fts = indexed, !.lifecycle = label, !.active = number]
      PROVE  x = Item(scope, label, sequence, size, number, revisions, indexed)
  BY <1>2, <1>4, <1>8 DEF Item
<1>9. Filled([item EXCEPT !.fts = indexed], sequence)
  BY <1>3, <1>4, <1>5
<1>10. Filled([item EXCEPT !.lifecycle = label], sequence)
  BY <1>3, <1>4, <1>6
<1>11. Filled([item EXCEPT !.lifecycle = label, !.active = number], sequence)
  BY <1>3, <1>4, <1>7
<1>12. Filled([item EXCEPT !.fts = indexed, !.lifecycle = label, !.active = number], sequence)
  BY <1>3, <1>4, <1>8
<1> QED
  BY <1>9, <1>10, <1>11, <1>12

\* The operation takes a sequence.
LEMMA FilledNext ==
  ASSUME NEW item, NEW op, NEW kept, NEW sequence \in Nat, NEW applied, applied = ApplyPayload(item, op, kept, NoSession),
         Filled(applied, sequence), NEW after, after = ApplyOperation(item, op, kept, NoSession)
  PROVE  ItemOK(after) /\ after.sequence = sequence + 1
<1>1. PICK scope \in {Workspace, Session, NoSession}, lifecycle \in Lifecycles, revisions \in Seq(Revisions) :
        /\ Len(revisions) > 0
        /\ \E current, fts : applied = Item(scope, lifecycle, sequence, Len(revisions), current, revisions, fts)
  BY DEF Filled
<1>2. PICK current, fts : applied = Item(scope, lifecycle, sequence, Len(revisions), current, revisions, fts)
  BY <1>1
<1>3. after = [applied EXCEPT !.sequence = applied.sequence + 1]
  BY DEF ApplyOperation
<1>4. after = Item(scope, lifecycle, sequence + 1, Len(revisions), current, revisions, fts)
  BY <1>2, <1>3 DEF Item
<1>5. Filled(after, sequence + 1)
  BY <1>1, <1>4 DEF Filled
<1> QED
  BY <1>5, FilledIs

\* A draft becomes a revision.
LEMMA DraftBecomes ==
  ASSUME NEW draft \in Drafts, NEW kept \in BOOLEAN
  PROVE  RevisionRow(draft, kept, NoSession) \in Revisions
  BY DEF Drafts, RevisionRow, Revisions, RevisionStates, Sources

\* A revision is added.
LEMMA FilledInsert ==
  ASSUME NEW item, ItemOK(item), item.sequence > 0, NEW kept \in BOOLEAN, NEW op, op.draft \in Drafts,
         op.revision = item.latest + 1, op.kind \in {"MemoryRevised", "ProposalApproved"}
  PROVE  Filled(InsertRevision(item, op, kept, NoSession), item.sequence)
<1>1. PICK row : row = RevisionRow(op.draft, kept, NoSession) /\ row \in Revisions
  BY DraftBecomes
<1>2. item.revisions \in Seq(Revisions) /\ item.latest = Len(item.revisions) /\ item.scope \in {Workspace, Session, NoSession}
  BY ItemHas
<1>3. PICK revisions : revisions = Append(item.revisions, row)
  OBVIOUS
<1>4. revisions \in Seq(Revisions) /\ Len(revisions) = Len(item.revisions) + 1
  BY <1>1, <1>2, <1>3, Appends
<1>5. PICK lifecycle : lifecycle = IF item.active = 0 THEN "proposed" ELSE "active"
  OBVIOUS
<1>6. lifecycle \in Lifecycles
  BY <1>5 DEF Lifecycles
<1>7. PICK longer : longer = [item EXCEPT !.revisions = revisions]
  OBVIOUS
<1>8. longer = Item(item.scope, item.lifecycle, item.sequence, item.latest, item.active, revisions, item.fts)
  BY <1>2, <1>7, ItemHas DEF Item
<1>9. InsertRevision(item, op, kept, NoSession) = ApplyRevisionProjection(longer, op.revision)
  BY <1>1, <1>3, <1>7 DEF InsertRevision
<1>10. ApplyRevisionProjection(longer, op.revision) =
         Item(item.scope, lifecycle, item.sequence, Len(revisions), item.active, revisions, item.fts)
  <2>1. longer.active = item.active
    BY <1>8 DEF Item
  <2>2. PICK r : r = op.revision /\ r = Len(revisions)
    BY <1>2, <1>4
  <2>3. ApplyRevisionProjection(longer, r) = [longer EXCEPT !.latest = r, !.lifecycle = lifecycle]
    BY <1>5, <2>1 DEF ApplyRevisionProjection
  <2> QED
    BY <1>8, <2>2, <2>3 DEF Item
<1>11. Len(revisions) > 0
  BY <1>2, <1>4
<1> QED
  BY <1>2, <1>4, <1>6, <1>9, <1>10, <1>11 DEF Filled

\* A memory is created.
LEMMA FilledCreate ==
  ASSUME NEW item, NEW kept \in BOOLEAN, NEW op, op.kind = "MemoryCreated", op.draft \in Drafts, op.revision = 1,
         op.scope \in Scopes
  PROVE  Filled(InsertRevision(item, op, kept, NoSession), 0)
<1>1. PICK row : row = RevisionRow(op.draft, kept, NoSession) /\ row \in Revisions
  BY DraftBecomes
<1>2. PICK revisions : revisions = <<row>>
  OBVIOUS
<1>3. revisions \in Seq(Revisions) /\ Len(revisions) = 1
  <2>1. <<>> \in Seq(Revisions) /\ Len(<<>>) = 0 /\ revisions = Append(<<>>, row)
    BY <1>2
  <2> QED
    BY <1>1, <2>1, Appends
<1>4. PICK shell : shell = InsertMemoryItemShell(op)
  OBVIOUS
<1>5. shell = Item(op.scope, "proposed", 0, 0, 0, <<>>, {})
  BY <1>4 DEF InsertMemoryItemShell, Absent, Item
<1>6. PICK longer : longer = [shell EXCEPT !.revisions = Append(shell.revisions, row)]
  OBVIOUS
<1>7. Append(shell.revisions, row) = revisions
  <2>1. shell.revisions = <<>>
    BY <1>5 DEF Item
  <2> QED
    BY <1>2, <2>1
<1>8. longer = Item(op.scope, "proposed", 0, 0, 0, revisions, {})
  BY <1>5, <1>6, <1>7 DEF Item
<1>9. InsertRevision(item, op, kept, NoSession) = ApplyRevisionProjection(longer, 1)
  BY <1>1, <1>4, <1>6 DEF InsertRevision
<1>10. ApplyRevisionProjection(longer, 1) = Item(op.scope, "proposed", 0, 1, 0, revisions, {})
  <2>1. longer.active = 0
    BY <1>8 DEF Item
  <2>2. ApplyRevisionProjection(longer, 1) = [longer EXCEPT !.latest = 1, !.lifecycle = "proposed"]
    BY <2>1 DEF ApplyRevisionProjection
  <2> QED
    BY <1>8, <2>2 DEF Item
<1>11. PICK lifecycle : lifecycle = "proposed" /\ lifecycle \in Lifecycles /\ op.scope \in {Workspace, Session, NoSession}
  BY DEF Lifecycles, Scopes
<1>12. PICK current, fts, sequence : current = 0 /\ fts = {} /\ sequence = 0
  OBVIOUS
<1>13. InsertRevision(item, op, kept, NoSession) = Item(op.scope, lifecycle, sequence, Len(revisions), current, revisions, fts)
  BY <1>3, <1>9, <1>10, <1>11, <1>12
<1>14. Filled(InsertRevision(item, op, kept, NoSession), sequence)
  <2>1. PICK scope, inserted : scope = op.scope /\ inserted = InsertRevision(item, op, kept, NoSession)
    OBVIOUS
  <2>2. /\ scope \in {Workspace, Session, NoSession} /\ Len(revisions) > 0
        /\ inserted = Item(scope, lifecycle, sequence, Len(revisions), current, revisions, fts)
    BY <1>3, <1>11, <1>13, <2>1
  <2>3. Filled(inserted, sequence)
    BY <1>3, <1>11, <2>2 DEF Filled
  <2> QED
    BY <2>1, <2>3
<1> QED
  BY <1>12, <1>14

\* The content of a memory is taken.
LEMMA FilledDelete ==
  ASSUME NEW item, NEW sequence, Filled(item, sequence), NEW r
  PROVE  Filled(DeleteMemoryContent(item, r), sequence)
<1>1. PICK set : set = SetRevisionState(item, r, "deleted")
  OBVIOUS
<1>2. Filled(set, sequence)
  BY <1>1, FilledState DEF RevisionStates
<1>3. PICK scope \in {Workspace, Session, NoSession}, lifecycle \in Lifecycles, revisions \in Seq(Revisions) :
        /\ Len(revisions) > 0
        /\ \E current, fts : set = Item(scope, lifecycle, sequence, Len(revisions), current, revisions, fts)
  BY <1>2 DEF Filled
<1>4. PICK current, fts : set = Item(scope, lifecycle, sequence, Len(revisions), current, revisions, fts)
  BY <1>3
<1>5. DOMAIN item.revisions = 1..Len(revisions)
  <2>1. DOMAIN set.revisions = 1..Len(revisions)
    BY <1>4 DEF Item
  <2>2. set.revisions = WithState(item.revisions, r, "deleted")
    BY <1>1 DEF SetRevisionState, WithState, Filled, Item
  <2> QED
    BY <2>1, <2>2 DEF WithState
<1>6. PICK left : left = [i \in DOMAIN item.revisions |-> WithoutContent(set.revisions[i])]
  OBVIOUS
<1>7. left \in Seq(Revisions) /\ Len(left) = Len(revisions)
  <2>1. set.revisions = revisions
    BY <1>4 DEF Item
  <2>2. \A i \in 1..Len(revisions) : revisions[i] \in Revisions
    OBVIOUS
  <2>3. \A i \in 1..Len(revisions) : WithoutContent(revisions[i]) \in Revisions
    BY <2>2 DEF WithoutContent, Revisions
  <2>4. left \in [1..Len(revisions) -> Revisions]
    BY <1>5, <1>6, <2>1, <2>3
  <2> QED
    BY <2>4
<1>8. DeleteMemoryContent(item, r) = [set EXCEPT !.fts = {}, !.lifecycle = "deleted", !.active = 0, !.revisions = left]
  BY <1>1, <1>6 DEF DeleteMemoryContent
<1>9. PICK label : label = "deleted" /\ label \in Lifecycles
  BY DEF Lifecycles
<1>10. DeleteMemoryContent(item, r) = Item(scope, label, sequence, Len(left), 0, left, {})
  BY <1>4, <1>7, <1>8, <1>9 DEF Item
<1> QED
  BY <1>3, <1>7, <1>9, <1>10 DEF Filled

\* The events of a memory.
Kinds ==
    {"MemoryCreated", "MemoryRevised", "ProposalApproved", "RevisionValidated", "RevisionActivated",
     "RevisionRejected", "RevisionSuperseded", "MemoryRetracted", "MemoryDeleted"}

\* What the planner knows of an operation.
OperationOK(op) ==
    /\ op.kind \in Kinds /\ op.draft \in Drafts
    /\ op.kind = "MemoryCreated" => op.revision = 1 /\ op.scope \in Scopes

\* A memory is created once, and its revisions are numbered.
Placed(item, op) ==
    /\ op.kind = "MemoryCreated" => item = Absent
    /\ op.kind \in {"MemoryRevised", "ProposalApproved"} => op.revision = item.latest + 1

\* An operation in its place leaves an item and takes a sequence.
LEMMA OperationApplied ==
  ASSUME NEW item, ItemOK(item), NEW op, OperationOK(op), Placed(item, op),
         item.sequence > 0 \/ op.kind = "MemoryCreated"
  PROVE  ItemOK(ApplyLive(item, op)) /\ ApplyLive(item, op).sequence = item.sequence + 1
<1>1. PICK kept : kept \in BOOLEAN /\ kept = TRUE
  OBVIOUS
<1>2. PICK applied, after, sequence : /\ applied = ApplyPayload(item, op, kept, NoSession)
                                      /\ after = ApplyOperation(item, op, kept, NoSession)
                                      /\ sequence = item.sequence
  OBVIOUS
<1>3. sequence \in Nat
  BY <1>2, ItemHas
<1>4. op.kind # "MemoryCreated" => Filled(item, sequence)
  BY <1>2, <1>3, FilledIs
<1>5. Filled(applied, sequence)
  <2>1. CASE op.kind = "MemoryCreated"
    <3>1. sequence = 0
      BY <1>2, <2>1 DEF Placed, Absent
    <3>2. applied = InsertRevision(item, op, kept, NoSession)
      BY <1>2, <2>1 DEF ApplyPayload
    <3> QED
      BY <1>1, <2>1, <3>1, <3>2, FilledCreate DEF OperationOK
  <2>2. CASE op.kind = "MemoryRevised"
    <3>1. applied = InsertRevision(item, op, kept, NoSession)
      BY <1>2, <2>2 DEF ApplyPayload
    <3>2. op.revision = item.latest + 1
      BY <2>2 DEF Placed
    <3> QED
      BY <1>1, <1>2, <2>2, <3>1, <3>2, FilledInsert DEF OperationOK
  <2>3. CASE op.kind = "ProposalApproved"
    <3>1. PICK inserted : inserted = InsertRevision(item, op, kept, NoSession)
      OBVIOUS
    <3>2. op.revision = item.latest + 1
      BY <2>3 DEF Placed
    <3>3. Filled(inserted, sequence)
      BY <1>1, <1>2, <2>3, <3>1, <3>2, FilledInsert DEF OperationOK
    <3>4. applied = SetRevisionState(inserted, op.other, "superseded")
      BY <1>2, <2>3, <3>1 DEF ApplyPayload
    <3> QED
      BY <3>3, <3>4, FilledState DEF RevisionStates
  <2>4. CASE op.kind = "RevisionValidated"
    <3>1. applied = item
      BY <1>2, <2>4 DEF ApplyPayload
    <3> QED
      BY <1>4, <2>4, <3>1
  <2>5. CASE op.kind = "RevisionActivated"
    <3>1. PICK quiet : quiet = DeactivateCurrentRevision(item, op.revision)
      OBVIOUS
    <3>2. Filled(quiet, sequence)
      <4>1. CASE item.active \in {0, op.revision}
        BY <1>4, <2>5, <3>1, <4>1 DEF DeactivateCurrentRevision
      <4>2. CASE item.active \notin {0, op.revision}
        <5>1. PICK set : set = SetRevisionState(item, item.active, "superseded")
          OBVIOUS
        <5>2. Filled(set, sequence)
          BY <1>4, <2>5, <5>1, FilledState DEF RevisionStates
        <5>3. quiet = RemoveRevisionFromFts(set, item.active)
          BY <3>1, <4>2, <5>1 DEF DeactivateCurrentRevision
        <5>4. Filled([set EXCEPT !.fts = set.fts \ {item.active}], sequence)
          BY <5>2, FilledLabels DEF Lifecycles
        <5> QED
          BY <5>3, <5>4 DEF RemoveRevisionFromFts
      <4> QED
        BY <4>1, <4>2
    <3>3. PICK set : set = SetRevisionState(quiet, op.revision, "active")
      OBVIOUS
    <3>4. Filled(set, sequence)
      BY <3>2, <3>3, FilledState DEF RevisionStates
    <3>5. PICK indexed, label, number : indexed = set.fts \cup {op.revision} /\ label = "active" /\ number = op.revision
      OBVIOUS
    <3>6. applied = [set EXCEPT !.fts = indexed, !.lifecycle = label, !.active = number]
      BY <1>2, <2>5, <3>1, <3>3, <3>5 DEF ApplyPayload, ActivateRevision
    <3>7. label \in Lifecycles
      BY <3>5 DEF Lifecycles
    <3> QED
      BY <3>4, <3>6, <3>7, FilledLabels
  <2>6. CASE op.kind = "RevisionSuperseded"
    <3>1. PICK set, indexed : set = SetRevisionState(item, op.revision, "superseded") /\ indexed = set.fts \ {op.revision}
      OBVIOUS
    <3>2. Filled(set, sequence)
      BY <1>4, <2>6, <3>1, FilledState DEF RevisionStates
    <3>3. applied = [set EXCEPT !.fts = indexed]
      BY <1>2, <2>6, <3>1 DEF ApplyPayload, RemoveRevisionFromFts
    <3> QED
      BY <3>2, <3>3, FilledLabels DEF Lifecycles
  <2>7. CASE op.kind = "RevisionRejected"
    <3>1. PICK set, label : /\ set = SetRevisionState(item, op.revision, "rejected")
                            /\ label = IF item.active = 0 THEN "rejected" ELSE "active"
      OBVIOUS
    <3>2. Filled(set, sequence) /\ label \in Lifecycles
      BY <1>4, <2>7, <3>1, FilledState DEF RevisionStates, Lifecycles
    <3>3. applied = [set EXCEPT !.lifecycle = label]
      BY <1>2, <2>7, <3>1 DEF ApplyPayload
    <3> QED
      BY <3>2, <3>3, FilledLabels
  <2>8. CASE op.kind = "MemoryRetracted"
    <3>1. PICK set, indexed : set = SetRevisionState(item, op.revision, "retracted") /\ indexed = set.fts \ {op.revision}
      OBVIOUS
    <3>2. Filled(set, sequence)
      BY <1>4, <2>8, <3>1, FilledState DEF RevisionStates
    <3>3. PICK removed, label, number : removed = [set EXCEPT !.fts = indexed] /\ label = "retracted" /\ number = 0
      OBVIOUS
    <3>4. Filled(removed, sequence)
      BY <3>2, <3>3, FilledLabels DEF Lifecycles
    <3>5. applied = [removed EXCEPT !.lifecycle = label, !.active = number]
      BY <1>2, <2>8, <3>1, <3>3 DEF ApplyPayload, RemoveRevisionFromFts
    <3>6. label \in Lifecycles
      BY <3>3 DEF Lifecycles
    <3> QED
      BY <3>4, <3>5, <3>6, FilledLabels
  <2>9. CASE op.kind = "MemoryDeleted"
    <3>1. applied = DeleteMemoryContent(item, op.revision)
      BY <1>2, <2>9 DEF ApplyPayload
    <3> QED
      BY <1>4, <2>9, <3>1, FilledDelete
  <2> QED
    BY <2>1, <2>2, <2>3, <2>4, <2>5, <2>6, <2>7, <2>8, <2>9 DEF OperationOK, Kinds
<1>6. ItemOK(after) /\ after.sequence = sequence + 1
  BY <1>2, <1>3, <1>5, FilledNext
<1>7. ApplyLive(item, op) = after
  BY <1>1, <1>2 DEF ApplyLive
<1> QED
  BY <1>2, <1>6, <1>7

-----------------------------------------------------------------------------
(* Batches. *)

\* What every planned batch is.
BatchOK(batch) ==
    /\ \E n \in 1..4 : DOMAIN batch = 1..n /\ Len(batch) = n
    /\ \A i \in DOMAIN batch : OperationOK(batch[i])

\* What the store accepts is in its place.
LEMMA AcceptedIsPlaced ==
  ASSUME NEW item, NEW batch, StoreAccepts(item, batch)
  PROVE  \A i \in DOMAIN batch : Placed(Projected(item, batch, i - 1), batch[i])
<1>1. \A i \in DOMAIN batch : RequireRevisionState(Projected(item, batch, i - 1), batch[i])
  BY DEF StoreAccepts
<1>2. ASSUME NEW before, NEW op, RequireRevisionState(before, op) PROVE Placed(before, op)
  BY <1>2 DEF RequireRevisionState, Placed
<1> QED
  BY <1>1, <1>2

\* A batch in its place leaves an item at a later sequence.
LEMMA BatchApplied ==
  ASSUME NEW item, ItemOK(item), NEW batch, BatchOK(batch),
         \A i \in DOMAIN batch : Placed(Projected(item, batch, i - 1), batch[i]),
         item.sequence > 0 \/ batch[1].kind = "MemoryCreated", NEW after, after = Projected(item, batch, Len(batch))
  PROVE  ItemOK(after) /\ after.sequence > item.sequence
<1>1. PICK n \in 1..4 : DOMAIN batch = 1..n /\ Len(batch) = n
  BY DEF BatchOK
<1>2. PICK one, two, three, four : /\ one = ApplyLive(item, batch[1]) /\ two = ApplyLive(one, batch[2])
                                   /\ three = ApplyLive(two, batch[3]) /\ four = ApplyLive(three, batch[4])
  OBVIOUS
<1>3. /\ Projected(item, batch, 0) = item /\ Projected(item, batch, 1) = one /\ Projected(item, batch, 2) = two
      /\ Projected(item, batch, 3) = three /\ Projected(item, batch, 4) = four
  BY <1>2 DEF Projected
<1>4. \A i \in 1..n : OperationOK(batch[i]) /\ Placed(Projected(item, batch, i - 1), batch[i])
  BY <1>1 DEF BatchOK
<1>5. item.sequence \in Nat
  BY ItemHas
<1>6. ItemOK(one) /\ one.sequence = item.sequence + 1
  <2>1. OperationOK(batch[1]) /\ Placed(item, batch[1])
    BY <1>1, <1>3, <1>4
  <2> QED
    BY <1>2, <2>1, OperationApplied
<1>7. n >= 2 => ItemOK(two) /\ two.sequence = item.sequence + 2
  <2> SUFFICES ASSUME n >= 2 PROVE ItemOK(two) /\ two.sequence = item.sequence + 2
    OBVIOUS
  <2>1. OperationOK(batch[2]) /\ Placed(one, batch[2])
    BY <1>1, <1>3, <1>4
  <2>2. one.sequence > 0
    BY <1>5, <1>6
  <2>3. ItemOK(two) /\ two.sequence = one.sequence + 1
    BY <1>2, <1>6, <2>1, <2>2, OperationApplied
  <2> QED
    BY <1>5, <1>6, <2>3
<1>8. n >= 3 => ItemOK(three) /\ three.sequence = item.sequence + 3
  <2> SUFFICES ASSUME n >= 3 PROVE ItemOK(three) /\ three.sequence = item.sequence + 3
    OBVIOUS
  <2>1. OperationOK(batch[3]) /\ Placed(two, batch[3])
    BY <1>1, <1>3, <1>4
  <2>2. ItemOK(two) /\ two.sequence = item.sequence + 2 /\ two.sequence > 0
    BY <1>5, <1>7
  <2>3. ItemOK(three) /\ three.sequence = two.sequence + 1
    BY <1>2, <2>1, <2>2, OperationApplied
  <2> QED
    BY <1>5, <2>2, <2>3
<1>9. n = 4 => ItemOK(four) /\ four.sequence = item.sequence + 4
  <2> SUFFICES ASSUME n = 4 PROVE ItemOK(four) /\ four.sequence = item.sequence + 4
    OBVIOUS
  <2>1. OperationOK(batch[4]) /\ Placed(three, batch[4])
    BY <1>1, <1>3, <1>4
  <2>2. ItemOK(three) /\ three.sequence = item.sequence + 3 /\ three.sequence > 0
    BY <1>5, <1>8
  <2>3. ItemOK(four) /\ four.sequence = three.sequence + 1
    BY <1>2, <2>1, <2>2, OperationApplied
  <2> QED
    BY <1>5, <2>2, <2>3
<1>10. CASE n = 1
  BY <1>1, <1>3, <1>5, <1>6, <1>10
<1>11. CASE n = 2
  BY <1>1, <1>3, <1>5, <1>7, <1>11
<1>12. CASE n = 3
  BY <1>1, <1>3, <1>5, <1>8, <1>12
<1>13. CASE n = 4
  BY <1>1, <1>3, <1>5, <1>9, <1>13
<1> QED
  BY <1>10, <1>11, <1>12, <1>13

\* The drafts of the planner.
LEMMA UserDraftIs ==
  ASSUME NEW supersedes \in Nat
  PROVE  UserDraft(supersedes) \in Drafts
  BY DEF NoDraft, UserDraft, Drafts, Sources, Origins

\* What a tool or a compaction proposes is a draft too.
LEMMA UntrustedDraftIs ==
  ASSUME NEW origin \in Origins, NEW source \in Sources, NEW excerpt \in BOOLEAN
  PROVE  UntrustedDraft(origin, source, excerpt) \in Drafts
  BY DEF NoDraft, UntrustedDraft, Drafts, Sources, Origins

\* One event of a batch.
Operations ==
    [kind : Kinds, revision : Nat, other : Nat, draft : Drafts,
     scope : {Workspace, Session, NoSession}, first : BOOLEAN]

\* An operation of a plan.
LEMMA OperationIs ==
  ASSUME NEW kind \in Kinds, NEW r \in Nat, NEW other \in Nat, NEW draft \in Drafts
  PROVE  /\ Operation(kind, r, other, draft) \in Operations
         /\ Operation(kind, r, other, draft).kind = kind
  BY DEF Operation, Operations

\* What numbering a batch leaves alone.
LEMMA BatchIs ==
  ASSUME NEW ops \in Seq(Operations)
  PROVE  /\ Batch(ops) \in Seq(Operations) /\ Len(Batch(ops)) = Len(ops)
         /\ \A i \in 1..Len(ops) :
               /\ Batch(ops)[i].kind = ops[i].kind /\ Batch(ops)[i].revision = ops[i].revision
               /\ Batch(ops)[i].scope = ops[i].scope
<1>1. \A i \in 1..Len(ops) : ops[i] \in Operations
  OBVIOUS
<1>2. \A i \in 1..Len(ops) :
         LET op == [ops[i] EXCEPT !.first = (i = 1)]
         IN  op \in Operations /\ op.kind = ops[i].kind /\ op.revision = ops[i].revision /\ op.scope = ops[i].scope
  BY <1>1 DEF Operations
<1>3. Batch(ops) \in [1..Len(ops) -> Operations]
  BY <1>2 DEF Batch
<1>4. Batch(ops) \in Seq(Operations) /\ Len(Batch(ops)) = Len(ops)
  BY <1>3
<1> QED
  BY <1>2, <1>4 DEF Batch

\* Operations of which only the first may create are a batch.
LEMMA BatchHas ==
  ASSUME NEW batch \in Seq(Operations), Len(batch) \in 1..4,
         \A i \in 1..Len(batch) : batch[i].kind = "MemoryCreated" => batch[i].revision = 1 /\ batch[i].scope \in Scopes
  PROVE  BatchOK(batch)
<1>1. DOMAIN batch = 1..Len(batch) /\ \A i \in 1..Len(batch) : batch[i] \in Operations
  OBVIOUS
<1>2. \A i \in 1..Len(batch) : batch[i].kind \in Kinds /\ batch[i].draft \in Drafts
  BY <1>1 DEF Operations
<1> QED
  BY <1>1, <1>2 DEF BatchOK, OperationOK

\* A plan that creates.
LEMMA CreatePlanOK ==
  ASSUME NEW m, NEW scope \in Scopes, NEW draft \in Drafts, NEW verdict, NEW batch, batch = PlanCreate(m, scope, draft, verdict)
  PROVE  /\ BatchOK(batch) /\ batch[1].kind = "MemoryCreated"
         /\ \A i \in DOMAIN batch : i = 1 \/ batch[i].kind \in {"RevisionValidated", "RevisionActivated"}
<1>1. PICK created : created = [Operation("MemoryCreated", 1, 0, draft) EXCEPT !.scope = scope]
  OBVIOUS
<1>2. created \in Operations /\ created.kind = "MemoryCreated" /\ created.revision = 1 /\ created.scope \in Scopes
  BY <1>1 DEF Operation, Operations, Kinds, Scopes
<1>3. PICK validated, activated : validated = Validated(1) /\ activated = Activated(1)
  OBVIOUS
<1>4. NoDraft \in Drafts
  BY DEF NoDraft, Drafts, Sources, Origins
<1>5. validated \in Operations /\ validated.kind = "RevisionValidated"
  <2>1. PICK kind, other, r : kind = "RevisionValidated" /\ other = 0 /\ r = 1 /\ kind \in Kinds /\ other \in Nat /\ r \in Nat
    BY DEF Kinds
  <2>2. validated = Operation(kind, r, other, NoDraft)
    BY <1>3, <2>1 DEF Validated
  <2> QED
    BY <1>4, <2>1, <2>2, OperationIs
<1>6. activated \in Operations /\ activated.kind = "RevisionActivated"
  <2>1. PICK kind, other, r : kind = "RevisionActivated" /\ other = 0 /\ r = 1 /\ kind \in Kinds /\ other \in Nat /\ r \in Nat
    BY DEF Kinds
  <2>2. activated = Operation(kind, r, other, NoDraft)
    BY <1>3, <2>1 DEF Activated
  <2> QED
    BY <1>4, <2>1, <2>2, OperationIs
<1>7. PICK ops : ops = <<created, validated>>
  OBVIOUS
<1>8. ops \in Seq(Operations) /\ Len(ops) = 2 /\ ops[1] = created /\ ops[2] = validated
  BY <1>2, <1>5, <1>7
<1>9. PICK review : review = Batch(ops)
  OBVIOUS
<1>10. /\ review \in Seq(Operations) /\ Len(review) = 2
       /\ \A i \in 1..2 : review[i].kind = ops[i].kind /\ review[i].revision = ops[i].revision /\ review[i].scope = ops[i].scope
  BY <1>8, <1>9, BatchIs
<1>11. /\ review[1].kind = "MemoryCreated" /\ review[1].revision = 1 /\ review[1].scope \in Scopes
       /\ review[2].kind = "RevisionValidated"
  BY <1>2, <1>5, <1>8, <1>10
<1>12. CASE IsExplicitAccepted(draft, verdict)
  <2>1. batch = Append(review, activated)
    BY <1>1, <1>3, <1>7, <1>9, <1>12 DEF PlanCreate
  <2>2. /\ batch \in Seq(Operations) /\ Len(batch) = 3 /\ batch[3] = activated
        /\ \A i \in 1..2 : batch[i] = review[i]
    BY <1>6, <1>10, <2>1, Appends
  <2>3. batch[1] = review[1] /\ batch[2] = review[2]
    BY <2>2
  <2>4. \A i \in 1..Len(batch) : batch[i].kind = "MemoryCreated" => batch[i].revision = 1 /\ batch[i].scope \in Scopes
    BY <1>6, <1>11, <2>2, <2>3
  <2>5. DOMAIN batch = 1..3 /\ \A i \in 1..3 : i = 1 \/ batch[i].kind \in {"RevisionValidated", "RevisionActivated"}
    BY <1>6, <1>11, <2>2, <2>3
  <2> QED
    BY <1>11, <2>2, <2>3, <2>4, <2>5, BatchHas
<1>13. CASE ~IsExplicitAccepted(draft, verdict)
  <2>1. batch = review
    BY <1>1, <1>3, <1>7, <1>9, <1>13 DEF PlanCreate
  <2>2. \A i \in 1..2 : review[i].kind = "MemoryCreated" => review[i].revision = 1 /\ review[i].scope \in Scopes
    BY <1>11
  <2>3. DOMAIN batch = 1..2 /\ \A i \in 1..2 : i = 1 \/ batch[i].kind \in {"RevisionValidated", "RevisionActivated"}
    BY <1>10, <1>11, <2>1
  <2> QED
    BY <1>10, <1>11, <2>1, <2>2, <2>3, BatchHas
<1> QED
  BY <1>12, <1>13

\* Operations that create nothing.
LEMMA PlanOK ==
  ASSUME NEW ops \in Seq(Operations), Len(ops) \in 1..4, \A i \in 1..Len(ops) : ops[i].kind # "MemoryCreated",
         NEW batch, batch = Batch(ops)
  PROVE  BatchOK(batch)
<1>1. /\ batch \in Seq(Operations) /\ Len(batch) = Len(ops)
      /\ \A i \in 1..Len(ops) : batch[i].kind = ops[i].kind
  BY BatchIs
<1> QED
  BY <1>1, BatchHas

\* A plan of one operation.
LEMMA SinglePlanOK ==
  ASSUME NEW kind \in Kinds \ {"MemoryCreated"}, NEW r \in Nat, NEW batch, batch = PlanSingle(kind, r)
  PROVE  BatchOK(batch)
<1>1. NoDraft \in Drafts /\ 0 \in Nat
  BY DEF NoDraft, Drafts, Sources, Origins
<1>2. PICK op : op = Operation(kind, r, 0, NoDraft)
  OBVIOUS
<1>3. op \in Operations /\ op.kind = kind
  BY <1>1, <1>2, OperationIs
<1>4. PICK ops : ops = <<op>>
  OBVIOUS
<1>5. ops \in Seq(Operations) /\ Len(ops) = 1 /\ ops[1] = op
  BY <1>3, <1>4
<1>6. batch = Batch(ops)
  BY <1>2, <1>4 DEF PlanSingle
<1> QED
  BY <1>3, <1>5, <1>6, PlanOK

\* A plan that adds a revision.
LEMMA SuccessionPlanOK ==
  ASSUME NEW kind \in Kinds \ {"MemoryCreated"}, NEW next \in Nat, NEW other \in Nat, NEW replaced \in Nat,
         NEW draft \in Drafts, NEW batch,
         batch = Batch(<<Operation(kind, next, other, draft), Validated(next), Activated(next), Superseded(replaced, next)>>)
  PROVE  BatchOK(batch)
<1>1. NoDraft \in Drafts /\ 0 \in Nat
  BY DEF NoDraft, Drafts, Sources, Origins
<1>2. PICK first, second, third, fourth :
         /\ first = Operation(kind, next, other, draft) /\ second = Operation("RevisionValidated", next, 0, NoDraft)
         /\ third = Operation("RevisionActivated", next, 0, NoDraft)
         /\ fourth = Operation("RevisionSuperseded", replaced, next, NoDraft)
  OBVIOUS
<1>3. first \in Operations /\ first.kind = kind
  BY <1>2, OperationIs
<1>4. "RevisionValidated" \in Kinds /\ "RevisionActivated" \in Kinds /\ "RevisionSuperseded" \in Kinds
  BY DEF Kinds
<1>5. second \in Operations /\ second.kind = "RevisionValidated"
  <2>1. PICK two \in Kinds, none \in Nat, empty \in Drafts : two = "RevisionValidated" /\ none = 0 /\ empty = NoDraft
    BY <1>1, <1>4
  <2>2. Operation(two, next, none, empty) \in Operations /\ Operation(two, next, none, empty).kind = two
    BY OperationIs
  <2> QED
    BY <1>2, <2>1, <2>2
<1>6. third \in Operations /\ third.kind = "RevisionActivated"
  <2>1. PICK three \in Kinds, none \in Nat, empty \in Drafts : three = "RevisionActivated" /\ none = 0 /\ empty = NoDraft
    BY <1>1, <1>4
  <2>2. Operation(three, next, none, empty) \in Operations /\ Operation(three, next, none, empty).kind = three
    BY OperationIs
  <2> QED
    BY <1>2, <2>1, <2>2
<1>7. fourth \in Operations /\ fourth.kind = "RevisionSuperseded"
  BY <1>1, <1>2, <1>4, OperationIs
<1>8. PICK ops : ops = <<first, second, third, fourth>>
  OBVIOUS
<1>9. /\ ops \in Seq(Operations) /\ Len(ops) = 4
      /\ ops[1] = first /\ ops[2] = second /\ ops[3] = third /\ ops[4] = fourth
  BY <1>3, <1>5, <1>6, <1>7, <1>8
<1>10. batch = Batch(ops)
  BY <1>2, <1>8 DEF Validated, Activated, Superseded
<1>11. \A i \in 1..Len(ops) : ops[i].kind # "MemoryCreated"
  BY <1>3, <1>5, <1>6, <1>7, <1>9
<1> QED
  BY <1>9, <1>10, <1>11, PlanOK

-----------------------------------------------------------------------------
(* Steps of the ledger. *)

\* The items, and what the erasure of a session left of its memories.
LedgerOK ==
    /\ DOMAIN items = Memories /\ \A m \in Memories : ItemOK(items[m])
    /\ tombstones \subseteq Memories
    /\ \A m \in tombstones : Exists(m) /\ \A r \in DOMAIN items[m].revisions : StateOf(items[m], r) = "deleted"
    /\ mutationGeneration \in Nat /\ clock \in Nat /\ updated \in [Memories -> Nat]

\* A batch was appended to a memory.
Appended(m) ==
    /\ m \in Memories \ tombstones
    /\ ItemOK(items'[m]) /\ items'[m].sequence > items[m].sequence
    /\ DOMAIN items' = Memories /\ \A n \in Memories \ {m} : items'[n] = items[n]
    /\ mutationGeneration' = mutationGeneration + 1 /\ tombstones' = tombstones
    /\ clock' \in Nat /\ updated' \in [Memories -> Nat] /\ \A n \in Memories \ {m} : updated'[n] = updated[n]
    /\ \A n \in Memories \ {m} : \A r : <<n, r>> \in conflicting' <=> <<n, r>> \in conflicting

\* So it is when a planned batch is.
LEMMA BatchAppends ==
  ASSUME LedgerOK, NEW m \in Memories \ tombstones, NEW batch, BatchOK(batch),
         Exists(m) \/ batch[1].kind = "MemoryCreated",
         AppendMemoryBatch(m, batch), NEW contradicts, Stamp(m, contradicts)
  PROVE  Appended(m)
<1>1. PICK after : after = Projected(items[m], batch, Len(batch))
  OBVIOUS
<1>2. /\ StoreAccepts(items[m], batch) /\ items' = [items EXCEPT ![m] = after]
      /\ mutationGeneration' = mutationGeneration + 1 /\ tombstones' = tombstones
  BY <1>1 DEF AppendMemoryBatch
<1>3. ItemOK(items[m]) /\ DOMAIN items = Memories /\ clock \in Nat /\ updated \in [Memories -> Nat]
  BY DEF LedgerOK
<1>4. PICK item : item = items[m]
  OBVIOUS
<1>5. ItemOK(after) /\ after.sequence > item.sequence
  <2>1. \A i \in DOMAIN batch : Placed(Projected(item, batch, i - 1), batch[i])
    BY <1>2, <1>4, AcceptedIsPlaced
  <2>2. item.sequence > 0 \/ batch[1].kind = "MemoryCreated"
    BY <1>4 DEF Exists
  <2> QED
    BY <1>1, <1>3, <1>4, <2>1, <2>2, BatchApplied
<1>6. items'[m] = after /\ DOMAIN items' = Memories /\ \A n \in Memories \ {m} : items'[n] = items[n]
  BY <1>2, <1>3
<1>7. /\ clock' \in {clock, clock + 1} /\ updated' = [updated EXCEPT ![m] = clock']
      /\ conflicting' = conflicting \/ conflicting' = conflicting \cup {<<m, items'[m].latest>>}
  BY DEF Stamp
<1>8. /\ clock' \in Nat /\ updated' \in [Memories -> Nat] /\ \A n \in Memories \ {m} : updated'[n] = updated[n]
  BY <1>3, <1>7
<1>9. \A n \in Memories \ {m} : \A r : <<n, r>> \in conflicting' <=> <<n, r>> \in conflicting
  BY <1>7
<1> QED
  BY <1>2, <1>4, <1>5, <1>6, <1>8, <1>9 DEF Appended

\* A memory that exists has a revision to change only while it is not erased.
LEMMA NotErased ==
  ASSUME LedgerOK, NEW m \in Memories, NEW r \in DOMAIN items[m].revisions, StateOf(items[m], r) # "deleted"
  PROVE  m \in Memories \ tombstones
  BY DEF LedgerOK

\* A new memory is.
LEMMA CreateAppends ==
  ASSUME LedgerOK, NEW m \in Memories, NEW verdict, CreatePlanned(m, verdict), NEW scope \in Scopes, NEW draft \in Drafts,
         AppendMemoryBatch(m, PlanCreate(m, scope, draft, verdict)), NEW contradicts, Stamp(m, contradicts)
  PROVE  Appended(m)
<1>1. PICK batch : batch = PlanCreate(m, scope, draft, verdict)
  OBVIOUS
<1>2. BatchOK(batch) /\ batch[1].kind = "MemoryCreated"
  BY <1>1, CreatePlanOK
<1>3. m \in Memories \ tombstones
  BY DEF CreatePlanned, LedgerOK
<1> QED
  BY <1>1, <1>2, <1>3, BatchAppends

\* A single operation is.
LEMMA SingleAppends ==
  ASSUME LedgerOK, NEW m \in Memories, NEW kind \in {"RevisionRejected", "MemoryRetracted", "MemoryDeleted"},
         NEW states, NEW r, SinglePlanned(m, r, states), states \subseteq Deletable,
         AppendMemoryBatch(m, PlanSingle(kind, r)), NEW contradicts, Stamp(m, contradicts)
  PROVE  Appended(m)
<1>1. PICK batch : batch = PlanSingle(kind, r)
  OBVIOUS
<1>2. Exists(m) /\ r \in DOMAIN items[m].revisions /\ StateOf(items[m], r) # "deleted"
  BY DEF SinglePlanned, Deletable
<1>3. r \in Nat
  <2>1. ItemOK(items[m])
    BY DEF LedgerOK
  <2>2. items[m].revisions \in Seq(Revisions)
    BY <2>1, ItemHas
  <2> QED
    BY <1>2, <2>2
<1>4. kind \in Kinds \ {"MemoryCreated"}
  BY DEF Kinds
<1>5. BatchOK(batch)
  BY <1>1, <1>3, <1>4, SinglePlanOK
<1>6. m \in Memories \ tombstones
  BY <1>2, NotErased
<1> QED
  BY <1>1, <1>2, <1>5, <1>6, BatchAppends

\* A revision of an active memory is.
LEMMA ReviseAppends ==
  ASSUME LedgerOK, NEW m \in Memories, NEW r, RevisePlanned(m, r, "accepted"),
         AppendMemoryBatch(m, PlanRevise(m, r)), NEW contradicts, Stamp(m, contradicts)
  PROVE  Appended(m)
<1>1. PICK batch, next, kind, other : /\ batch = PlanRevise(m, r) /\ next = NextRevision(m)
                                      /\ kind = "MemoryRevised" /\ other = 0
  OBVIOUS
<1>2. Exists(m) /\ r \in DOMAIN items[m].revisions /\ StateOf(items[m], r) # "deleted"
  BY DEF RevisePlanned
<1>3. r \in Nat /\ next \in Nat /\ other \in Nat /\ kind \in Kinds \ {"MemoryCreated"}
  <2>1. ItemOK(items[m])
    BY DEF LedgerOK
  <2>2. items[m].revisions \in Seq(Revisions)
    BY <2>1, ItemHas
  <2>3. r \in Nat /\ next \in Nat
    BY <1>1, <1>2, <2>2 DEF NextRevision
  <2> QED
    BY <1>1, <2>3 DEF Kinds
<1>4. PICK draft : draft = UserDraft(r) /\ draft \in Drafts
  BY <1>3, UserDraftIs
<1>5. batch = Batch(<<Operation(kind, next, other, draft), Validated(next), Activated(next), Superseded(r, next)>>)
  BY <1>1, <1>4 DEF PlanRevise
<1>6. BatchOK(batch)
  BY <1>3, <1>4, <1>5, SuccessionPlanOK
<1>7. m \in Memories \ tombstones
  BY <1>2, NotErased
<1> QED
  BY <1>1, <1>2, <1>6, <1>7, BatchAppends

\* An approved proposal is.
LEMMA ApproveAppends ==
  ASSUME LedgerOK, NEW m \in Memories, NEW r, ApprovePlanned(m, r, "accepted"),
         AppendMemoryBatch(m, PlanApprove(m, r)), NEW contradicts, Stamp(m, contradicts)
  PROVE  Appended(m)
<1>1. PICK batch, next, kind, replaced : /\ batch = PlanApprove(m, r) /\ next = NextRevision(m)
                                         /\ kind = "ProposalApproved" /\ replaced = SupersededBy(m, r)
  OBVIOUS
<1>2. Exists(m) /\ r \in DOMAIN items[m].revisions /\ StateOf(items[m], r) # "deleted"
  BY DEF ApprovePlanned
<1>3. r \in Nat /\ next \in Nat /\ replaced \in Nat /\ kind \in Kinds \ {"MemoryCreated"}
  <2>1. ItemOK(items[m])
    BY DEF LedgerOK
  <2>2. items[m].revisions \in Seq(Revisions)
    BY <2>1, ItemHas
  <2>3. r \in Nat /\ next \in Nat
    BY <1>1, <1>2, <2>2 DEF NextRevision
  <2>4. items[m].revisions[r] \in Revisions
    BY <1>2, <2>2
  <2>5. replaced \in Nat
    BY <1>1, <2>3, <2>4 DEF SupersededBy, Revisions
  <2> QED
    BY <1>1, <2>3, <2>5 DEF Kinds
<1>4. PICK draft : draft = UserDraft(replaced) /\ draft \in Drafts
  BY <1>3, UserDraftIs
<1>5. batch = Batch(<<Operation(kind, next, r, draft), Validated(next), Activated(next), Superseded(replaced, next)>>)
  BY <1>1, <1>4 DEF PlanApprove
<1>6. BatchOK(batch)
  BY <1>3, <1>4, <1>5, SuccessionPlanOK
<1>7. m \in Memories \ tombstones
  BY <1>2, NotErased
<1> QED
  BY <1>1, <1>2, <1>6, <1>7, BatchAppends

\* What the erasure of a session leaves of a memory.
Erased ==
    /\ DOMAIN items' = Memories /\ \A m \in Memories : ItemOK(items'[m])
    /\ \A m \in Memories : /\ items'[m].sequence = items[m].sequence /\ items'[m].scope = items[m].scope
                           /\ items'[m].latest = items[m].latest
    /\ \A m \in Memories \ tombstones' :
          /\ items[m].scope # Session /\ items'[m].lifecycle = items[m].lifecycle
          /\ \A r \in 1..Len(items[m].revisions) : items'[m].revisions[r].content = items[m].revisions[r].content
    /\ tombstones' = tombstones \cup SessionMemories
    /\ \A m \in tombstones' : items'[m].sequence > 0 /\ \A r \in DOMAIN items'[m].revisions : StateOf(items'[m], r) = "deleted"
    /\ mutationGeneration' = mutationGeneration + 1
    /\ UNCHANGED <<clock, updated, conflicting>>

\* A memory of the session.
LEMMA MemoryErased ==
  ASSUME LedgerOK, NEW m \in SessionMemories, NEW after, after = EraseSessionMemory(m)
  PROVE  /\ ItemOK(after) /\ after.sequence = items[m].sequence /\ after.scope = items[m].scope
         /\ after.latest = items[m].latest /\ after.sequence > 0
         /\ \A r \in DOMAIN after.revisions : StateOf(after, r) = "deleted"
<1>1. PICK item, r : item = items[m] /\ r = items[m].latest
  OBVIOUS
<1>2. ItemOK(item) /\ item.scope = Session
  BY <1>1 DEF SessionMemories, LedgerOK
<1>3. item.sequence \in Nat /\ item.sequence > 0
  BY <1>2, ItemHas, ScopeAssumption DEF Absent
<1>4. Filled(item, item.sequence)
  BY <1>2, <1>3, FilledIs
<1>5. PICK deleted, sequence : deleted = DeleteMemoryContent(item, r) /\ sequence = item.sequence
  OBVIOUS
<1>6. Filled(deleted, sequence)
  BY <1>4, <1>5, FilledDelete
<1>7. deleted.scope = item.scope /\ deleted.latest = item.latest
  <2>1. PICK set : set = SetRevisionState(item, r, "deleted")
    OBVIOUS
  <2>2. DOMAIN item = {"scope", "lifecycle", "sequence", "latest", "active", "revisions", "fts"}
    <3>1. item = Item(item.scope, item.lifecycle, item.sequence, Len(item.revisions), item.active, item.revisions, item.fts)
      BY <1>2, ItemHas
    <3> QED
      BY <3>1 DEF Item
  <2>3. set.scope = item.scope /\ set.latest = item.latest /\ DOMAIN set = DOMAIN item
    BY <2>1, <2>2 DEF SetRevisionState
  <2> QED
    BY <1>5, <2>1, <2>2, <2>3 DEF DeleteMemoryContent
<1>8. PICK scope \in {Workspace, Session, NoSession}, lifecycle \in Lifecycles, revisions \in Seq(Revisions) :
        /\ Len(revisions) > 0
        /\ \E current, fts : deleted = Item(scope, lifecycle, sequence, Len(revisions), current, revisions, fts)
  BY <1>6 DEF Filled
<1>9. PICK current, fts : deleted = Item(scope, lifecycle, sequence, Len(revisions), current, revisions, fts)
  BY <1>8
<1>10. PICK left : left = [i \in 1..Len(revisions) |-> [revisions[i] EXCEPT !.state = "deleted"]]
  OBVIOUS
<1>11. left \in Seq(Revisions) /\ Len(left) = Len(revisions) /\ \A i \in 1..Len(revisions) : left[i].state = "deleted"
  <2>1. \A i \in 1..Len(revisions) : revisions[i] \in Revisions
    OBVIOUS
  <2>2. \A i \in 1..Len(revisions) : /\ [revisions[i] EXCEPT !.state = "deleted"] \in Revisions
                                     /\ [revisions[i] EXCEPT !.state = "deleted"].state = "deleted"
    BY <2>1 DEF Revisions, RevisionStates
  <2>3. left \in [1..Len(revisions) -> Revisions]
    BY <1>10, <2>2
  <2>4. \A i \in 1..Len(revisions) : left[i].state = "deleted"
    BY <1>10, <2>2
  <2> QED
    BY <2>3, <2>4
<1>12. deleted.revisions = revisions /\ DOMAIN revisions = 1..Len(revisions) /\ deleted.scope = scope
  BY <1>9 DEF Item
<1>13. after = [deleted EXCEPT !.revisions = left]
  BY <1>1, <1>5, <1>10, <1>12 DEF EraseSessionMemory
<1>14. PICK size : size = Len(revisions)
  OBVIOUS
<1>15. after = Item(scope, lifecycle, sequence, size, current, left, fts)
  BY <1>9, <1>13, <1>14 DEF Item
<1>16. Filled(after, sequence)
  BY <1>8, <1>11, <1>14, <1>15 DEF Filled
<1>17. ItemOK(after) /\ after.sequence = sequence
  BY <1>3, <1>5, <1>16, FilledIs
<1>18. after.scope = deleted.scope /\ after.latest = deleted.latest /\ after.revisions = left
  BY <1>9, <1>14, <1>15 DEF Item
<1>19. \A i \in DOMAIN after.revisions : StateOf(after, i) = "deleted"
  BY <1>11, <1>18 DEF StateOf
<1> QED
  BY <1>1, <1>3, <1>5, <1>7, <1>17, <1>18, <1>19

\* A memory of another scope loses excerpts only.
LEMMA EvidenceErased ==
  ASSUME LedgerOK, NEW m \in Memories, NEW after, after = EraseEvidence(m)
  PROVE  /\ ItemOK(after) /\ after.sequence = items[m].sequence /\ after.scope = items[m].scope
         /\ after.latest = items[m].latest /\ after.lifecycle = items[m].lifecycle
         /\ DOMAIN after.revisions = DOMAIN items[m].revisions
         /\ \A r \in 1..Len(items[m].revisions) : /\ after.revisions[r].content = items[m].revisions[r].content
                                                  /\ StateOf(after, r) = StateOf(items[m], r)
<1>1. PICK item, revisions : item = items[m] /\ revisions = items[m].revisions
  OBVIOUS
<1>2. ItemOK(item)
  BY <1>1 DEF LedgerOK
<1>3. /\ revisions \in Seq(Revisions) /\ item.sequence \in Nat
      /\ item = Item(item.scope, item.lifecycle, item.sequence, Len(revisions), item.active, revisions, item.fts)
  BY <1>1, <1>2, ItemHas
<1>4. PICK left : left = [r \in DOMAIN items[m].revisions |->
            IF CitesSession(m, r)
            THEN [items[m].revisions[r] EXCEPT !.excerpt = FALSE, !.erasedBy = Session]
            ELSE items[m].revisions[r]]
  OBVIOUS
<1>5. DOMAIN revisions = 1..Len(revisions) /\ \A r \in 1..Len(revisions) : revisions[r] \in Revisions
  BY <1>3
<1>6. ASSUME NEW r \in 1..Len(revisions)
      PROVE  left[r] \in Revisions /\ left[r].content = revisions[r].content /\ left[r].state = revisions[r].state
  <2>1. revisions[r] \in Revisions
    BY <1>5
  <2>2. CASE CitesSession(m, r)
    <3>1. left[r] = [revisions[r] EXCEPT !.excerpt = FALSE, !.erasedBy = Session]
      BY <1>1, <1>4, <1>5, <2>2
    <3> QED
      BY <2>1, <3>1 DEF Revisions, Sources
  <2>3. CASE ~CitesSession(m, r)
    <3>1. left[r] = revisions[r]
      BY <1>1, <1>4, <1>5, <2>3
    <3> QED
      BY <2>1, <3>1
  <2> QED
    BY <2>2, <2>3
<1>7. left \in Seq(Revisions) /\ Len(left) = Len(revisions) /\ DOMAIN left = DOMAIN revisions
  <2>1. DOMAIN left = 1..Len(revisions)
    BY <1>1, <1>4, <1>5
  <2>2. left \in [1..Len(revisions) -> Revisions]
    BY <1>4, <1>6, <2>1
  <2> QED
    BY <1>5, <2>1, <2>2
<1>8. PICK size : size = Len(revisions)
  OBVIOUS
<1>9. after = [item EXCEPT !.revisions = left]
  BY <1>1, <1>4 DEF EraseEvidence
<1>10. after = Item(item.scope, item.lifecycle, item.sequence, size, item.active, left, item.fts)
  BY <1>3, <1>8, <1>9 DEF Item
<1>11. /\ after.scope = item.scope /\ after.lifecycle = item.lifecycle /\ after.sequence = item.sequence
       /\ after.latest = size /\ after.revisions = left /\ item.latest = size
  <2>1. item.latest = size
    BY <1>3, <1>8 DEF Item
  <2> QED
    BY <1>10, <2>1 DEF Item
<1>12. ItemOK(after)
  <2>1. CASE item.sequence = 0
    <3>1. item = Absent
      BY <1>2, <2>1, ItemHas
    <3>2. revisions = <<>>
      BY <1>1, <3>1 DEF Absent
    <3>3. left = revisions
      BY <1>7, <3>2
    <3>4. after = item
      BY <1>3, <1>8, <1>10, <3>3
    <3> QED
      BY <1>2, <3>4
  <2>2. CASE item.sequence > 0
    <3>1. Len(revisions) > 0 /\ item.scope \in {Workspace, Session, NoSession} /\ item.lifecycle \in Lifecycles
      BY <1>1, <1>2, <2>2, ItemHas
    <3>2. PICK scope, lifecycle, sequence : scope = item.scope /\ lifecycle = item.lifecycle /\ sequence = item.sequence
      OBVIOUS
    <3>3. after = Item(scope, lifecycle, sequence, size, item.active, left, item.fts)
      BY <1>10, <3>2
    <3> QED
      BY <1>3, <1>7, <1>8, <2>2, <3>1, <3>2, <3>3, ItemIs
  <2> QED
    BY <1>3, <2>1, <2>2
<1>13. \A r \in 1..Len(revisions) : StateOf(after, r) = StateOf(item, r) /\ after.revisions[r].content = revisions[r].content
  BY <1>1, <1>6, <1>11 DEF StateOf
<1> QED
  BY <1>1, <1>7, <1>11, <1>12, <1>13

\* The erasure.
LEMMA DeletionErases ==
  ASSUME LedgerOK, DeleteSession
  PROVE  Erased
<1>1. /\ items' = [m \in Memories |-> IF m \in SessionMemories THEN EraseSessionMemory(m) ELSE EraseEvidence(m)]
      /\ tombstones' = tombstones \cup SessionMemories /\ tombstones = {}
      /\ UNCHANGED <<clock, updated, conflicting>>
  BY DEF DeleteSession, EraseSessionMemoryAndEvidence
<1>2. mutationGeneration' = mutationGeneration + 1
  <2>1. SessionMemories # {} \/ EvidenceOfSession # {}
    BY DEF DeleteSession
  <2> QED
    BY <2>1 DEF DeleteSession, EraseSessionMemoryAndEvidence
<1>3. ASSUME NEW m \in Memories
      PROVE  /\ ItemOK(items'[m]) /\ items'[m].sequence = items[m].sequence /\ items'[m].scope = items[m].scope
             /\ items'[m].latest = items[m].latest
             /\ m \notin SessionMemories =>
                   /\ items[m].scope # Session /\ items'[m].lifecycle = items[m].lifecycle
                   /\ \A r \in 1..Len(items[m].revisions) : items'[m].revisions[r].content = items[m].revisions[r].content
             /\ m \in SessionMemories =>
                   items'[m].sequence > 0 /\ \A r \in DOMAIN items'[m].revisions : StateOf(items'[m], r) = "deleted"
  <2>1. PICK after : after = items'[m]
    OBVIOUS
  <2>2. CASE m \in SessionMemories
    <3>1. after = EraseSessionMemory(m)
      BY <1>1, <2>1, <2>2
    <3> QED
      BY <2>1, <2>2, <3>1, MemoryErased
  <2>3. CASE m \notin SessionMemories
    <3>1. after = EraseEvidence(m)
      BY <1>1, <2>1, <2>3
    <3>2. items[m].scope # Session
      BY <2>3 DEF SessionMemories
    <3> QED
      BY <2>1, <2>3, <3>1, <3>2, EvidenceErased
  <2> QED
    BY <2>2, <2>3
<1>4. DOMAIN items' = Memories /\ SessionMemories \subseteq Memories
  BY <1>1 DEF SessionMemories
<1>5. tombstones' = SessionMemories
  BY <1>1
<1> QED
  BY <1>1, <1>2, <1>3, <1>4, <1>5 DEF Erased

-----------------------------------------------------------------------------
(* What the parts pass each other. *)

Places == {Workspace, Session, NoSession}

\* A row of a page: what a record says to a reader.
Statuses == Lifecycles \cup {"conflicting"}
Rows ==
    [memory : Memories, status : Statuses, scope : Places, revision : Nat, proposal : BOOLEAN,
     sequence : Nat, content : BOOLEAN, excerpt : BOOLEAN]

\* A row may be older than its memory; one that is not says what the memory is,
\* unless the memory went with its session.
Fresh(row) ==
    /\ row.sequence <= items[row.memory].sequence
    /\ row.sequence = items[row.memory].sequence /\ row.memory \notin tombstones =>
          /\ row.status = EffectiveStatus(Record(row.memory))
          /\ row.revision = items[row.memory].latest
          /\ row.content = HasContent(row.memory, row.revision)

\* The rows that may be on their way.
FreshRows == {row \in Rows : Fresh(row)}

\* What a page is asked for, and what it answers.
StatusFilters == {"all", "active", "proposed", "inactive"}
ScopeFilters == {"all", "workspace", "session"}
Queries == [status : StatusFilters, scope : ScopeFilters, literal : BOOLEAN, before : Cursors]
Pages(R) ==
    [view : Int, ledger : Nat, state : {"ready", "failed"}, rows : Seq(R), stale : BOOLEAN,
     next : Cursors, query : Queries, open : BOOLEAN]

\* What the workspace can have under review.
Actions == {"none", "remember", "import", "export", "approve", "reject", "revise", "retract", "delete"}
Optional(R) == {s \in Seq(R) : Len(s) <= 1}

\* What is done to a memory names the row it was seen in.
Targeted == {"export", "approve", "reject", "revise", "retract", "delete"}
Reviews(R) ==
    {review \in [action : Actions, row : Optional(R)] : review.action \in Targeted <=> review.row # <<>>}
Workspaces(R) ==
    [mounted : BOOLEAN, query : Queries, generation : Int, requested : Int,
     failed : BOOLEAN, session : BOOLEAN, blocked : BOOLEAN, review : Reviews(R), busy : BOOLEAN,
     early : BOOLEAN, foreign : Nat]

\* What the client sends, and what it hears of it.
CommandKinds == Actions \cup {"query"}
Commands(R) ==
    {command \in [kind : CommandKinds, view : Int, query : Queries, row : Optional(R)] :
        command.kind \in Targeted <=> command.row # <<>>}
Outcomes == [kind : CommandKinds, view : Int, result : {"committed", "rejected", "unknown"}]

\* What is on its way and on display, over the rows that may be.
ChannelsOK(R) ==
    /\ intents \in Seq(Commands(R)) /\ outcomes \in Seq(Outcomes)
    /\ shown \in Pages(R) /\ workspace \in Workspaces(R)

\* The coordinator's own view.
HostOK(R) ==
    /\ published \in Pages(R) /\ here \in BOOLEAN
    /\ view \in [generation : Int, query : Queries]

\* A page shows what its query asked for.
Matched(page) ==
    \A i \in DOMAIN page.rows :
        LET row == page.rows[i]
        IN  /\ MemoryViewStatuses(page.query.status) # {} => row.status \in MemoryViewStatuses(page.query.status)
            /\ page.query.scope = "session" => row.scope = Session
            /\ page.query.scope = "workspace" => row.scope = Workspace
            /\ page.query.literal => row.content \/ row.memory \in Named

\* The page the coordinator published last.
Published ==
    /\ Matched(published)
    /\ published.ledger <= mutationGeneration
    /\ published.state = "ready" /\ published.ledger = mutationGeneration =>
          published.rows = RowsOf(PageFor(published.query, Tables, published.open))
    /\ published.view = view.generation /\ published.query = view.query

\* A workspace mounted while nothing was on its way waits for its latest
\* generation, nothing is later than that, and what is of that generation has
\* its query.
Waiting ==
    LET g == workspace.generation
    IN  /\ workspace.requested = g
        /\ shown.view <= g /\ (shown.view = g => shown.query = workspace.query)
        /\ view.generation <= g /\ (view.generation = g => view.query = workspace.query)
        /\ \A i \in DOMAIN intents : intents[i].kind = "query" =>
              intents[i].view <= g /\ (intents[i].view = g => intents[i].query = workspace.query)

\* However it was mounted, its query is the last on its way, or the view's.
Asked(w) ==
    /\ w.requested = w.generation
    /\ \A i \in DOMAIN intents : intents[i].kind = "query" =>
          \E j \in DOMAIN intents : j >= i /\ intents[j] = QueryCommand(w)
    /\ \/ \E i \in DOMAIN intents : intents[i].kind = "query"
       \/ view.generation = w.requested /\ view.query = w.query

\* What holds of the workspace that is mounted.
WaitingOK ==
    /\ workspace.mounted /\ ~workspace.early => Waiting
    /\ workspace.mounted => Asked(workspace)

\* The inductive invariant of the workspace and the coordinator.
ViewInv ==
    /\ LedgerOK /\ HostOK(FreshRows) /\ ChannelsOK(FreshRows)
    /\ Published
    /\ WaitingOK

-----------------------------------------------------------------------------
(* The page of a ledger. *)

\* A record joins a memory with its last update.
RecordOK(record) ==
    /\ record.memory \in Memories /\ record.updated \in Nat /\ record.contradicted \in BOOLEAN
    /\ ItemOK(record.item) /\ record.item.sequence > 0

\* The records of the ledger can be ordered, and their rows are fresh.
TablesOK ==
    /\ Sortable(Tables)
    /\ \A record \in Tables : RecordOK(record) /\ RowOf(record) \in FreshRows

\* The row of a record.
LEMMA RowHas ==
  ASSUME NEW record, RecordOK(record)
  PROVE  /\ RowOf(record) \in Rows
         /\ RowOf(record).memory = record.memory /\ RowOf(record).sequence = record.item.sequence
         /\ RowOf(record).status = EffectiveStatus(record) /\ RowOf(record).scope = record.item.scope
         /\ RowOf(record).revision = record.item.latest /\ RowOf(record).content = LatestOf(record).content
         /\ record.item.latest \in DOMAIN record.item.revisions /\ LatestOf(record).content \in BOOLEAN
<1>1. PICK item : item = record.item
  OBVIOUS
<1>2. ItemOK(item) /\ item.sequence > 0
  BY <1>1 DEF RecordOK
<1>3. /\ item.scope \in Places /\ item.lifecycle \in Lifecycles /\ item.sequence \in Nat
      /\ item.revisions \in Seq(Revisions) /\ item.latest = Len(item.revisions) /\ Len(item.revisions) > 0
  BY <1>2, ItemHas DEF Places
<1>4. item.latest \in Nat /\ item.latest \in DOMAIN item.revisions /\ item.revisions[item.latest] \in Revisions
  BY <1>3
<1>5. LatestOf(record).content \in BOOLEAN /\ LatestOf(record).excerpt \in BOOLEAN
  BY <1>1, <1>4 DEF LatestOf, Revisions
<1>6. EffectiveStatus(record) \in Statuses
  BY <1>1, <1>3 DEF EffectiveStatus, Statuses
<1>7. RowOf(record) = [memory |-> record.memory, status |-> EffectiveStatus(record), scope |-> item.scope,
                       revision |-> item.latest, proposal |-> item.lifecycle = "proposed", sequence |-> item.sequence,
                       content |-> LatestOf(record).content, excerpt |-> LatestOf(record).excerpt]
  BY <1>1 DEF RowOf, SummaryOf, RevisionContextOf, DetailOf
<1>8. record.memory \in Memories
  BY DEF RecordOK
<1>9. RowOf(record) \in Rows
  BY <1>3, <1>4, <1>5, <1>6, <1>7, <1>8 DEF Rows
<1> QED
  BY <1>1, <1>4, <1>5, <1>7, <1>9

\* The joined tables of a ledger.
LEMMA TablesHold == LedgerOK => TablesOK
<1> SUFFICES ASSUME LedgerOK PROVE TablesOK
  OBVIOUS
<1>1. ASSUME NEW m \in Memories, Exists(m) PROVE RecordOK(Record(m)) /\ RowOf(Record(m)) \in FreshRows
  <2>1. PICK record : record = Record(m)
    OBVIOUS
  <2>2. record.memory = m /\ record.item = items[m] /\ record.updated = updated[m] /\ record.contradicted \in BOOLEAN
    BY <2>1 DEF Record
  <2>3. RecordOK(record)
    BY <1>1, <2>2 DEF RecordOK, LedgerOK, Exists
  <2>4. /\ RowOf(record) \in Rows /\ RowOf(record).memory = m /\ RowOf(record).sequence = items[m].sequence
        /\ RowOf(record).status = EffectiveStatus(record) /\ RowOf(record).revision = items[m].latest
        /\ RowOf(record).content = LatestOf(record).content /\ items[m].latest \in DOMAIN items[m].revisions
        /\ LatestOf(record).content \in BOOLEAN
    BY <2>2, <2>3, RowHas
  <2>5. HasContent(m, items[m].latest) = LatestOf(record).content
    BY <2>2, <2>4 DEF HasContent, LatestOf
  <2>6. items[m].sequence \in Nat
    BY <2>2, <2>3, ItemHas DEF RecordOK
  <2>7. Fresh(RowOf(record))
    BY <2>1, <2>4, <2>5, <2>6 DEF Fresh
  <2> QED
    BY <2>1, <2>3, <2>4, <2>7 DEF FreshRows
<1>2. \A record \in Tables : \E m \in Memories : Exists(m) /\ record = Record(m)
  BY DEF Tables
<1>3. \A record \in Tables : RecordOK(record) /\ RowOf(record) \in FreshRows
  BY <1>1, <1>2
<1>4. \A a, b \in Tables : a.memory = b.memory => a = b
  <2>1. \A m : Record(m).memory = m
    BY DEF Record
  <2> QED
    BY <1>2, <2>1
<1>5. IsFiniteSet(Tables)
  <2>1. PICK live : live = {n \in Memories : Exists(n)} /\ IsFiniteSet(live)
    BY FS_Subset, MemoryAssumption
  <2>2. PICK f : f = [m \in live |-> Record(m)]
    OBVIOUS
  <2>3. Tables = {f[m] : m \in live}
    BY <2>1, <2>2 DEF Tables
  <2>4. f \in Surjection(live, Tables)
    <3>1. f \in [live -> Tables]
      BY <2>2, <2>3
    <3>2. \A x \in Tables : \E m \in live : f[m] = x
      BY <2>3
    <3> QED
      BY <3>1, <3>2 DEF Surjection
  <2> QED
    BY <2>1, <2>4, FS_Surjection
<1>6. \A a \in Tables : a.updated \in Nat /\ a.memory \in Nat
  BY <1>3, MemoryAssumption DEF RecordOK
<1> QED
  BY <1>3, <1>4, <1>5, <1>6 DEF TablesOK, Sortable

\* The same of the next state.
LEMMA TablesHoldNext == LedgerOK' => TablesOK'
  BY TablesHold, PTL

\* A loaded page.
LEMMA PageLoaded ==
  ASSUME NEW tables, Sortable(tables), NEW R, \A record \in tables : RecordOK(record) /\ RowOf(record) \in R,
         NEW v \in [generation : Int, query : Queries], NEW open \in BOOLEAN, NEW g \in Nat,
         NEW page, page = LoadMemoryView(v, tables, open, g)
  PROVE  /\ page \in Pages(R) /\ Matched(page)
         /\ page.view = v.generation /\ page.query = v.query /\ page.ledger = g /\ page.state = "ready"
         /\ page.rows = RowsOf(PageFor(v.query, tables, open)) /\ page.open = open
<1>1. PICK q, scopes, statuses, literal, before :
         /\ q = v.query /\ scopes = MemoryViewScopes(q.scope, open) /\ statuses = MemoryViewStatuses(q.status)
         /\ literal = q.literal /\ before = q.before
  OBVIOUS
<1>2. PICK matching, found, limit : /\ matching = Matching(tables, scopes, statuses, literal, before)
                                    /\ found = PageFor(q, tables, open) /\ limit = PageSize
  OBVIOUS
<1>3. found = InspectMemoryPage(tables, scopes, statuses, literal, before, limit) /\ limit \in Nat \ {0}
  BY <1>1, <1>2, PageAssumption DEF PageFor
<1>4. found.records \in Seq(matching) /\ found.more \in BOOLEAN /\ (found.more => Len(found.records) = limit)
  <2>1. Sortable(tables) /\ limit \in Nat \ {0}
    BY <1>3
  <2>2. /\ found = InspectMemoryPage(tables, scopes, statuses, literal, before, limit)
        /\ matching = Matching(tables, scopes, statuses, literal, before)
    BY <1>2, <1>3
  <2> QED
    BY <2>1, <2>2, PageIs
<1>5. PICK records, rows : records = found.records /\ rows = RowsOf(found)
  OBVIOUS
<1>6. DOMAIN records = 1..Len(records) /\ Len(records) \in Nat /\ \A i \in 1..Len(records) : records[i] \in matching
  BY <1>4, <1>5
<1>7. \A a \in matching : a \in tables /\ MatchesQuery(a, scopes, statuses, literal)
  BY <1>2 DEF Matching
<1>8. rows = [i \in 1..Len(records) |-> RowOf(records[i])]
  BY <1>5, <1>6 DEF RowsOf
<1>9. rows \in Seq(R) /\ DOMAIN rows = 1..Len(records) /\ \A i \in 1..Len(records) : rows[i] = RowOf(records[i])
  <2>1. rows \in [1..Len(records) -> R]
    BY <1>6, <1>7, <1>8
  <2> QED
    BY <1>6, <1>8, <2>1
<1>10. PICK next : next = IF found.more THEN CursorOf(Last(found.records)) ELSE NoCursor
  OBVIOUS
<1>11. page = [view |-> v.generation, ledger |-> g, state |-> "ready", rows |-> rows, stale |-> found.more,
               next |-> next, query |-> q, open |-> open]
  BY <1>1, <1>2, <1>5, <1>10 DEF LoadMemoryView
<1>12. /\ next \in Cursors
       /\ found.more => next # NoCursor /\ next = CursorOf(records[Len(records)])
  <2>1. CASE found.more
    <3>1. PICK last : last = records[Len(records)] /\ last \in tables /\ RecordOK(last)
      BY <1>3, <1>4, <1>5, <1>6, <1>7, <2>1
    <3>2. next = CursorOf(last)
      BY <1>5, <1>10, <2>1, <3>1 DEF Last
    <3>3. last.updated \in Nat /\ last.memory \in Nat \ {0}
      BY <3>1, MemoryAssumption DEF RecordOK
    <3>4. next \in Cursors /\ next # NoCursor
      BY <3>2, <3>3 DEF CursorOf, Cursors, NoCursor
    <3> QED
      BY <3>1, <3>2, <3>4
  <2>2. CASE ~found.more
    BY <1>10, <2>2 DEF Cursors, NoCursor
  <2> QED
    BY <2>1, <2>2
<1>13. q \in Queries /\ v.generation \in Int
  BY <1>1
<1>14. page \in Pages(R)
  BY <1>4, <1>9, <1>11, <1>12, <1>13 DEF Pages
<1>15. Matched(page)
  <2> SUFFICES ASSUME NEW i \in 1..Len(records)
               PROVE  /\ MemoryViewStatuses(q.status) # {} => rows[i].status \in MemoryViewStatuses(q.status)
                      /\ q.scope = "session" => rows[i].scope = Session
                      /\ q.scope = "workspace" => rows[i].scope = Workspace
                      /\ q.literal => rows[i].content \/ rows[i].memory \in Named
    BY <1>9, <1>11 DEF Matched
  <2>1. PICK a : a = records[i] /\ a \in matching /\ RecordOK(a) /\ MatchesQuery(a, scopes, statuses, literal)
    BY <1>6, <1>7
  <2>2. /\ rows[i].status = EffectiveStatus(a) /\ rows[i].scope = a.item.scope /\ rows[i].memory = a.memory
        /\ rows[i].content = LatestOf(a).content
    BY <1>9, <2>1, RowHas
  <2>3. a.item.scope \in scopes /\ EffectiveStatusFilter(a, statuses)
        /\ (literal => a.memory \in Named \/ LatestOf(a).content)
    BY <2>1 DEF MatchesQuery
  <2>4. statuses # {} => EffectiveStatus(a) \in statuses
    BY <2>3 DEF EffectiveStatusFilter, EffectiveStatus
  <2>5. (q.scope = "session" => a.item.scope = Session) /\ (q.scope = "workspace" => a.item.scope = Workspace)
    BY <1>1, <2>3 DEF MemoryViewScopes
  <2> QED
    BY <1>1, <2>2, <2>3, <2>4, <2>5
<1>16. /\ page.view = v.generation /\ page.query = v.query /\ page.ledger = g /\ page.state = "ready"
       /\ page.rows = RowsOf(PageFor(v.query, tables, open)) /\ page.open = open
  BY <1>1, <1>2, <1>5, <1>11
<1> QED
  BY <1>1, <1>2, <1>14, <1>15, <1>16

-----------------------------------------------------------------------------
(* What a step of the ledger does to the rows that were read from it. *)

LedgerStill == UNCHANGED <<memoryVars, clock, updated, conflicting>>

\* Without a step the rows and the tables are the same.
LEMMA StillKeeps ==
  ASSUME LedgerOK, LedgerStill
  PROVE  LedgerOK' /\ FreshRows' = FreshRows /\ Tables' = Tables
<1>1. /\ items' = items /\ tombstones' = tombstones /\ mutationGeneration' = mutationGeneration
      /\ clock' = clock /\ updated' = updated /\ conflicting' = conflicting
  BY DEF LedgerStill, memoryVars
<1>2. LedgerOK'
  BY <1>1 DEF LedgerOK, Exists
<1>3. \A m : Record(m)' = Record(m) /\ Exists(m)' = Exists(m)
  BY <1>1 DEF Record, Exists
<1>4. Tables' = Tables
  BY <1>3 DEF Tables
<1>5. \A row \in Rows : Fresh(row)' <=> Fresh(row)
  BY <1>1, <1>3 DEF Fresh, HasContent
<1> QED
  BY <1>2, <1>4, <1>5 DEF FreshRows

\* A row of an appended memory is older than it; the others stay.
LEMMA AppendKeeps ==
  ASSUME LedgerOK, NEW m, Appended(m)
  PROVE  /\ LedgerOK' /\ FreshRows \subseteq FreshRows'
         /\ mutationGeneration' = mutationGeneration + 1 /\ mutationGeneration \in Nat
<1>1. LedgerOK'
  <2>1. \A n \in Memories : ItemOK(items'[n])
    BY DEF LedgerOK, Appended
  <2>2. \A n \in tombstones : items'[n] = items[n]
    BY DEF LedgerOK, Appended
  <2> QED
    BY <2>1, <2>2 DEF LedgerOK, Appended, Exists
<1>2. ASSUME NEW row \in Rows, Fresh(row) PROVE Fresh(row)'
  <2>1. row.memory \in Memories /\ row.sequence \in Nat
    BY DEF Rows
  <2>2. items[m].sequence \in Nat /\ items'[m].sequence \in Nat
    BY ItemHas DEF LedgerOK, Appended
  <2>3. CASE row.memory = m
    <3>1. row.sequence < items'[row.memory].sequence
      BY <1>2, <2>1, <2>2, <2>3 DEF Fresh, Appended
    <3> QED
      BY <2>1, <2>2, <2>3, <3>1 DEF Fresh
  <2>4. CASE row.memory # m
    <3>1. PICK n \in Memories : n = row.memory /\ n # m
      BY <2>1, <2>4
    <3>2. items'[n] = items[n] /\ updated'[n] = updated[n] /\ tombstones' = tombstones
      BY <3>1 DEF Appended
    <3>3. (<<n, items'[n].latest>> \in conflicting') = (<<n, items[n].latest>> \in conflicting)
      BY <3>1, <3>2 DEF Appended
    <3>4. Record(n)' = Record(n)
      BY <3>2, <3>3 DEF Record
    <3>5. HasContent(n, row.revision)' = HasContent(n, row.revision)
      BY <3>2 DEF HasContent
    <3> QED
      BY <1>2, <3>1, <3>2, <3>4, <3>5 DEF Fresh
  <2> QED
    BY <2>3, <2>4
<1> QED
  BY <1>1, <1>2 DEF FreshRows, Appended, LedgerOK

\* The rows of the memories that went with the session promise nothing, the
\* others stay.
LEMMA ErasureKeeps ==
  ASSUME LedgerOK, Erased
  PROVE  /\ LedgerOK' /\ FreshRows \subseteq FreshRows'
         /\ mutationGeneration' = mutationGeneration + 1 /\ mutationGeneration \in Nat
<1>1. LedgerOK'
  <2>1. tombstones' \subseteq Memories
    BY DEF LedgerOK, Erased, SessionMemories
  <2>2. clock' = clock /\ updated' = updated
    BY DEF Erased
  <2> QED
    BY <2>1, <2>2 DEF LedgerOK, Erased, Exists
<1>2. ASSUME NEW row \in Rows, Fresh(row) PROVE Fresh(row)'
  <2>1. PICK m \in Memories : m = row.memory
    BY DEF Rows
  <2>2. items'[m].sequence = items[m].sequence /\ items'[m].latest = items[m].latest
    BY DEF Erased
  <2>3. CASE m \in tombstones'
    BY <1>2, <2>1, <2>2, <2>3 DEF Fresh
  <2>4. CASE m \notin tombstones'
    <3>1. m \notin tombstones
      BY <2>4 DEF Erased
    <3>2. /\ items'[m].lifecycle = items[m].lifecycle
          /\ \A r \in 1..Len(items[m].revisions) : items'[m].revisions[r].content = items[m].revisions[r].content
      BY <2>4 DEF Erased
    <3>3. EffectiveStatus(Record(m))' = EffectiveStatus(Record(m))
      BY <2>2, <3>2 DEF EffectiveStatus, Record, Erased
    <3>4. ASSUME row.revision = items[m].latest
          PROVE  HasContent(m, row.revision)' = HasContent(m, row.revision)
      <4>1. /\ items[m].revisions \in Seq(Revisions) /\ items'[m].revisions \in Seq(Revisions)
            /\ items[m].latest = Len(items[m].revisions) /\ items'[m].latest = Len(items'[m].revisions)
        BY ItemHas DEF LedgerOK, Erased
      <4>2. DOMAIN items'[m].revisions = 1..Len(items[m].revisions) /\ DOMAIN items[m].revisions = 1..Len(items[m].revisions)
        BY <2>2, <4>1
      <4> QED
        BY <3>2, <4>2 DEF HasContent
    <3> QED
      BY <1>2, <2>1, <2>2, <2>4, <3>1, <3>3, <3>4 DEF Fresh
  <2> QED
    BY <2>3, <2>4
<1> QED
  BY <1>1, <1>2 DEF FreshRows, Erased, LedgerOK

-----------------------------------------------------------------------------
(* The channels over more rows. *)

\* More rows, more sequences of them.
LEMMA SeqGrows ==
  ASSUME NEW R, NEW Q, R \subseteq Q
  PROVE  Seq(R) \subseteq Seq(Q)
  OBVIOUS

\* ... more pages,
LEMMA PagesGrow ==
  ASSUME NEW R, NEW Q, R \subseteq Q
  PROVE  Pages(R) \subseteq Pages(Q) /\ Optional(R) \subseteq Optional(Q)
<1>1. Seq(R) \subseteq Seq(Q)
  BY SeqGrows
<1> QED
  BY <1>1 DEF Pages, Optional

\* ... more states of the workspace,
LEMMA WorkspacesGrow ==
  ASSUME NEW R, NEW Q, R \subseteq Q
  PROVE  Workspaces(R) \subseteq Workspaces(Q)
<1>1. Optional(R) \subseteq Optional(Q)
  BY PagesGrow
<1>2. Reviews(R) \subseteq Reviews(Q)
  BY <1>1 DEF Reviews
<1> QED
  BY <1>2 DEF Workspaces

\* ... and more commands.
LEMMA CommandsGrow ==
  ASSUME NEW R, NEW Q, R \subseteq Q
  PROVE  Seq(Commands(R)) \subseteq Seq(Commands(Q))
<1>1. Optional(R) \subseteq Optional(Q)
  BY PagesGrow
<1>2. Commands(R) \subseteq Commands(Q)
  BY <1>1 DEF Commands
<1> QED
  BY <1>2, SeqGrows

\* The page as the bridge maps it.
LEMMA MappedIs ==
  ASSUME NEW R, NEW page \in Pages(R), NEW mapped, mapped = MapProjection(page)
  PROVE  /\ mapped \in Pages(R) /\ mapped.view = page.view /\ mapped.query = page.query /\ mapped.open = page.open
         /\ mapped = page \/ mapped.state = "failed"
<1>1. CASE mapped = page
  BY <1>1
<1>2. CASE mapped = [page EXCEPT !.state = "failed", !.rows = <<>>, !.stale = FALSE, !.next = NoCursor]
  <2>1. NoCursor \in Cursors /\ <<>> \in Seq(R)
    BY DEF NoCursor, Cursors
  <2>2. PICK no : no = FALSE
    OBVIOUS
  <2>3. no \in BOOLEAN
    BY <2>2
  <2>4. PICK empty, none, end : empty = <<>> /\ none = NoCursor /\ end = "failed"
    OBVIOUS
  <2>5. mapped = [page EXCEPT !.state = end, !.rows = empty, !.stale = no, !.next = none]
    BY <1>2, <2>2, <2>4
  <2> QED
    BY <2>1, <2>3, <2>4, <2>5 DEF Pages
<1> QED
  BY <1>1, <1>2 DEF MapProjection

\* Choosing a fresh generation.
LEMMA MaxIs ==
  ASSUME NEW a \in Int, NEW b \in Int
  PROVE  Max({a, b}) \in Int /\ Max({a, b}) >= a /\ Max({a, b}) >= b
<1>1. \E x \in {a, b} : \A y \in {a, b} : x >= y
  <2>1. CASE a >= b
    BY <2>1
  <2>2. CASE b > a
    BY <2>2
  <2> QED
    BY <2>1, <2>2
<1>2. Max({a, b}) \in {a, b} /\ \A y \in {a, b} : Max({a, b}) >= y
  BY <1>1 DEF Max
<1> QED
  BY <1>2

\* The rest of a sequence.
LEMMA Rest ==
  ASSUME NEW S, NEW s \in Seq(S), s # <<>>
  PROVE  /\ Head(s) \in S /\ Tail(s) \in Seq(S) /\ Len(Tail(s)) < Len(s)
         /\ 1 \in DOMAIN s /\ Head(s) = s[1]
         /\ \A i \in DOMAIN Tail(s) : i + 1 \in DOMAIN s /\ Tail(s)[i] = s[i + 1]
  OBVIOUS

-----------------------------------------------------------------------------
(* The steps of the workspace. *)

\* Nothing on its way or on display is of a later generation.
Below(g) ==
    /\ shown.view <= g /\ view.generation <= g
    /\ \A i \in DOMAIN intents : intents[i].kind = "query" => intents[i].view <= g

\* What a step leaves of the channels and of the wait.
ChannelsNext(R) ==
    /\ intents' \in Seq(Commands(R)) /\ outcomes' \in Seq(Outcomes)
    /\ shown' \in Pages(R) /\ workspace' \in Workspaces(R)

WaitingNext == WaitingOK'

\* A mounted workspace is ahead of everything.
LEMMA WaitingBelow ==
  ASSUME Waiting
  PROVE  Below(workspace.generation) /\ workspace.requested = workspace.generation
  BY DEF Waiting, Below

\* A new query has a generation of its own.
LEMMA EffectIs ==
  ASSUME NEW R, NEW w \in Workspaces(R), NEW page \in Pages(R), NEW after, after = QueryEffect(w, page)
  PROVE  /\ after \in Workspaces(R) /\ after.mounted = w.mounted /\ after.query = w.query
         /\ after.requested = after.generation /\ after.generation \in Int
         /\ after.generation > w.generation /\ after.generation > page.view
         /\ after.session = w.session /\ after.blocked = w.blocked /\ after.review = w.review
         /\ after.early = w.early
<1>1. w.generation \in Int /\ page.view \in Int
  BY DEF Workspaces, Pages
<1>2. PICK g : g = NextGeneration(w, page)
  OBVIOUS
<1>3. g \in Int /\ g > w.generation /\ g > page.view
  <2>1. PICK a, b, top : a = w.generation /\ b = page.view /\ top = Max({a, b})
    OBVIOUS
  <2>2. top \in Int /\ top >= a /\ top >= b
    BY <1>1, <2>1, MaxIs
  <2>3. g = top + 1
    BY <1>2, <2>1 DEF NextGeneration
  <2> QED
    BY <1>1, <2>1, <2>2, <2>3
<1>4. PICK no : no = FALSE
  OBVIOUS
<1>5. no \in BOOLEAN
  BY <1>4
<1>6. after = [w EXCEPT !.generation = g, !.requested = g, !.failed = no]
  BY <1>2, <1>4 DEF QueryEffect
<1> QED
  BY <1>3, <1>5, <1>6 DEF Workspaces

\* The command that asks for it.
LEMMA QueryCommandIs ==
  ASSUME NEW R, NEW w \in Workspaces(R)
  PROVE  /\ QueryCommand(w) \in Commands(R) /\ QueryCommand(w).kind = "query"
         /\ QueryCommand(w).view = w.requested /\ QueryCommand(w).query = w.query
<1>1. <<>> \in Optional(R)
  BY DEF Optional
<1>2. w.requested \in Int /\ w.query \in Queries
  BY DEF Workspaces
<1> QED
  BY <1>1, <1>2 DEF QueryCommand, Command, Commands, CommandKinds, Targeted

\* Asking puts the workspace ahead.
LEMMA AskingWaits ==
  ASSUME NEW R, ChannelsOK(R), HostOK(R), NEW g \in Int, NEW w \in Workspaces(R),
         w.mounted /\ ~w.early => Below(g),
         w.requested = w.generation, w.generation > g, view' = view,
         workspace' = w, intents' = Append(intents, QueryCommand(w)), outcomes' \in Seq(Outcomes),
         shown' \in Pages(R), w.mounted /\ ~w.early => shown'.view < w.generation
  PROVE  ChannelsNext(R) /\ WaitingNext
<1>1. intents \in Seq(Commands(R))
  BY DEF ChannelsOK
<1>2. PICK command : command = QueryCommand(w)
  OBVIOUS
<1>3. command \in Commands(R) /\ command.kind = "query" /\ command.view = w.requested /\ command.query = w.query
  BY <1>2, QueryCommandIs
<1>4. /\ intents' \in Seq(Commands(R)) /\ Len(intents') = Len(intents) + 1 /\ intents'[Len(intents) + 1] = command
      /\ \A i \in 1..Len(intents) : intents'[i] = intents[i]
  BY <1>1, <1>2, <1>3, Appends
<1>5. ASSUME w.mounted, ~w.early PROVE Waiting'
  <2>1. Below(g) /\ shown'.view < w.generation
    BY <1>5
  <2>2. /\ w.generation \in Int /\ shown'.view \in Int /\ view.generation \in Int
        /\ \A i \in 1..Len(intents) : intents[i].view \in Int
    <3>1. \A i \in 1..Len(intents) : intents[i] \in Commands(R)
      BY <1>1
    <3> QED
      BY <3>1 DEF Workspaces, Pages, HostOK, Commands
  <2>3. ASSUME NEW i \in DOMAIN intents', intents'[i].kind = "query"
        PROVE  intents'[i].view <= w.generation /\ (intents'[i].view = w.generation => intents'[i].query = w.query)
    <3>1. DOMAIN intents' = 1..Len(intents) + 1 /\ DOMAIN intents = 1..Len(intents)
      BY <1>1, <1>4
    <3>2. CASE i = Len(intents) + 1
      BY <1>3, <1>4, <2>2, <3>2
    <3>3. CASE i \in 1..Len(intents)
      <4>1. intents[i].view <= g
        BY <1>4, <2>1, <2>3, <3>1, <3>3 DEF Below
      <4> QED
        BY <1>4, <2>2, <3>3, <4>1
    <3> QED
      BY <1>1, <3>1, <3>2, <3>3
  <2>4. view'.generation < w.generation
    BY <2>1, <2>2 DEF Below
  <2> QED
    BY <2>1, <2>2, <2>3, <2>4 DEF Waiting
<1>6. Asked(workspace)'
  <2>1. PICK n : n = Len(intents) + 1
    OBVIOUS
  <2>2. DOMAIN intents' = 1..n /\ n \in Nat \ {0} /\ n \in DOMAIN intents' /\ intents'[n] = QueryCommand(w)
    BY <1>1, <1>2, <1>4, <2>1
  <2>3. \A i \in DOMAIN intents' : n >= i
    BY <2>2
  <2>4. intents'[n].kind = "query"
    BY <1>2, <1>3, <2>2
  <2> QED
    BY <2>2, <2>3, <2>4 DEF Asked
<1> QED
  BY <1>4, <1>5, <1>6 DEF ChannelsNext, WaitingNext, WaitingOK

\* A step that asks nothing.
LEMMA NothingAsked ==
  ASSUME NEW R, ChannelsOK(R), HostOK(R), WaitingOK,
         workspace' \in Workspaces(R), view' = view,
         workspace'.mounted => /\ workspace.mounted /\ workspace'.generation = workspace.generation
                               /\ workspace'.requested = workspace.requested /\ workspace'.query = workspace.query
                               /\ workspace'.early = workspace.early,
         outcomes' \in Seq(Outcomes), shown' \in Pages(R),
         shown' = shown \/ (shown'.view = view.generation /\ shown'.query = view.query),
         \/ intents' = intents
         \/ \E command \in Commands(R) : command.kind # "query" /\ intents' = Append(intents, command)
  PROVE  ChannelsNext(R) /\ WaitingNext
<1>1. intents \in Seq(Commands(R))
  BY DEF ChannelsOK
<1>2. /\ intents' \in Seq(Commands(R))
      /\ \A i \in DOMAIN intents' : intents'[i].kind = "query" => i \in DOMAIN intents /\ intents'[i] = intents[i]
      /\ \A i \in DOMAIN intents : i \in DOMAIN intents' /\ intents'[i] = intents[i]
  <2>1. CASE intents' = intents
    BY <1>1, <2>1
  <2>2. CASE \E command \in Commands(R) : command.kind # "query" /\ intents' = Append(intents, command)
    <3>1. PICK command \in Commands(R) : command.kind # "query" /\ intents' = Append(intents, command)
      BY <2>2
    <3>2. /\ intents' \in Seq(Commands(R)) /\ Len(intents') = Len(intents) + 1 /\ intents'[Len(intents) + 1] = command
          /\ \A i \in 1..Len(intents) : intents'[i] = intents[i]
      BY <1>1, <3>1, Appends
    <3>3. DOMAIN intents' = 1..Len(intents) + 1 /\ DOMAIN intents = 1..Len(intents) /\ Len(intents) \in Nat
      BY <1>1, <3>2
    <3>4. ASSUME NEW i \in DOMAIN intents', intents'[i].kind = "query" PROVE i \in DOMAIN intents /\ intents'[i] = intents[i]
      <4>1. i # Len(intents) + 1
        BY <3>1, <3>2, <3>4
      <4>2. i \in 1..Len(intents)
        BY <3>3, <3>4, <4>1
      <4> QED
        BY <3>2, <3>3, <4>2
    <3>5. \A i \in DOMAIN intents : i \in DOMAIN intents' /\ intents'[i] = intents[i]
      BY <3>2, <3>3
    <3> QED
      BY <3>2, <3>4, <3>5
  <2> QED
    BY <2>1, <2>2
<1>3. ASSUME workspace'.mounted, ~workspace'.early PROVE Waiting'
  <2>1. Waiting
    BY <1>3 DEF WaitingOK
  <2> QED
    BY <1>2, <1>3, <2>1 DEF Waiting
<1>4. ASSUME workspace'.mounted PROVE Asked(workspace)'
  <2>1. Asked(workspace)
    BY <1>4 DEF WaitingOK
  <2>2. PICK mine : mine = QueryCommand(workspace) /\ mine = QueryCommand(workspace')
    BY <1>4 DEF QueryCommand, Command
  <2>3. \A i \in DOMAIN intents' : intents'[i].kind = "query" =>
          \E j \in DOMAIN intents' : j >= i /\ intents'[j] = mine
    BY <1>2, <2>1, <2>2 DEF Asked
  <2>4. \/ \E i \in DOMAIN intents' : intents'[i].kind = "query"
        \/ view'.generation = workspace'.requested /\ view'.query = workspace'.query
    BY <1>2, <1>4, <2>1 DEF Asked
  <2>5. workspace'.requested = workspace'.generation
    BY <1>4, <2>1 DEF Asked
  <2> QED
    BY <2>2, <2>3, <2>4, <2>5 DEF Asked
<1> QED
  BY <1>2, <1>3, <1>4 DEF ChannelsNext, WaitingNext, WaitingOK

\* Issuing a query.
LEMMA IssueKeeps ==
  ASSUME NEW R, ChannelsOK(R), HostOK(R), NEW w \in Workspaces(R), Issue(w),
         w.mounted /\ ~w.early => Below(w.generation)
  PROVE  ChannelsNext(R) /\ WaitingNext
<1>1. PICK after, g : after = QueryEffect(w, shown) /\ g = w.generation
  OBVIOUS
<1>2. /\ workspace' = after /\ intents' = Append(intents, QueryCommand(after)) /\ shown' = shown /\ outcomes' = outcomes
      /\ view' = view
  BY <1>1 DEF Issue, hostVars
<1>3. shown \in Pages(R) /\ outcomes \in Seq(Outcomes) /\ g \in Int
  BY <1>1 DEF ChannelsOK, Workspaces
<1>4. /\ after \in Workspaces(R) /\ after.mounted = w.mounted /\ after.early = w.early /\ after.requested = after.generation
      /\ after.generation > g /\ after.generation > shown.view /\ after.generation \in Int
  BY <1>1, <1>3, EffectIs
<1>5. shown.view < after.generation
  BY <1>3, <1>4 DEF Pages
<1> QED
  BY <1>1, <1>2, <1>3, <1>4, <1>5, AskingWaits

\* The workspace before it is mounted.
LEMMA NoWorkspaceIs ==
  ASSUME NEW R
  PROVE  /\ NoWorkspace \in Workspaces(R) /\ ~NoWorkspace.mounted
         /\ DefaultQuery \in Queries /\ NoCursor \in Cursors /\ NoReview \in Reviews(R)
<1>1. NoCursor \in Cursors
  BY DEF NoCursor, Cursors
<1>2. DefaultQuery \in Queries
  BY <1>1 DEF DefaultQuery, Queries, StatusFilters, ScopeFilters
<1>3. NoReview \in Reviews(R)
  BY DEF NoReview, Reviews, Optional, Actions, Targeted
<1>4. NoWorkspace \in Workspaces(R) /\ ~NoWorkspace.mounted
  BY <1>2, <1>3 DEF NoWorkspace, Workspaces
<1> QED
  BY <1>1, <1>2, <1>3, <1>4

\* The filters of the workspace are queries.
LEMMA FilterIs ==
  ASSUME NEW filter \in Filters
  PROVE  filter \in Queries /\ filter.before = NoCursor
<1>1. filter \in [status : StatusFilters, scope : ScopeFilters, literal : BOOLEAN, before : {NoCursor}]
  BY FilterAssumption DEF StatusFilters, ScopeFilters
<1>2. NoCursor \in Cursors
  BY DEF NoCursor, Cursors
<1> QED
  BY <1>1, <1>2 DEF Queries

\* A query is issued by a workspace that is ahead of everything, unless it was
\* mounted early.
QueryIssued(R, w) ==
    w \in Workspaces(R) /\ Issue(w) /\ (w.mounted /\ ~w.early => Below(w.generation))

\* The first query of a mounted workspace.
LEMMA MountIssues ==
  ASSUME NEW R, ChannelsOK(R), HostOK(R), published.view = view.generation, Mount
  PROVE  \E w : QueryIssued(R, w)
<1>1. PICK early, foreign : early = ~AllArrived /\ foreign = Len(intents) + Len(outcomes)
  OBVIOUS
<1>2. PICK w, yes : /\ w = [NoWorkspace EXCEPT !.mounted = yes, !.generation = shown.view, !.session = here,
                                               !.early = early, !.foreign = foreign]
                    /\ yes = TRUE
  OBVIOUS
<1>3. yes \in BOOLEAN /\ early \in BOOLEAN
  BY <1>1, <1>2
<1>4. /\ shown.view \in Int /\ here \in BOOLEAN /\ published \in Pages(R)
      /\ intents \in Seq(Commands(R)) /\ outcomes \in Seq(Outcomes)
  BY DEF ChannelsOK, HostOK, Pages
<1>5. foreign \in Nat
  BY <1>1, <1>4
<1>6. NoWorkspace \in Workspaces(R)
  BY NoWorkspaceIs
<1>7. w \in Workspaces(R) /\ w.generation = shown.view /\ w.early = early
  BY <1>2, <1>3, <1>4, <1>5, <1>6 DEF Workspaces
<1>8. Issue(w)
  BY <1>1, <1>2 DEF Mount
<1>9. ASSUME ~w.early PROVE Below(w.generation)
  <2>1. intents = <<>> /\ shown = MapProjection(published)
    BY <1>1, <1>7, <1>9 DEF AllArrived
  <2>2. shown.view = published.view
    BY <1>4, <2>1, MappedIs
  <2> QED
    BY <1>4, <1>7, <2>1, <2>2 DEF Below
<1> QED
  BY <1>7, <1>8, <1>9 DEF QueryIssued

\* The queries of a workspace that is mounted.
LEMMA QueryIssues ==
  ASSUME NEW R, ChannelsOK(R), HostOK(R), WaitingOK, published.view = view.generation,
         QueryStep
  PROVE  Unmount \/ Block \/ \E w : QueryIssued(R, w)
<1>1. workspace \in Workspaces(R)
  BY DEF ChannelsOK
<1>2. CASE Mount
  BY <1>2, MountIssues
<1>3. ASSUME NEW w \in Workspaces(R), w.mounted = workspace.mounted, w.generation = workspace.generation,
             w.early = workspace.early
      PROVE  w.mounted /\ ~w.early => Below(w.generation)
  BY <1>3, WaitingBelow DEF WaitingOK
<1>4. ASSUME NEW filter \in Filters, ChangeQuery(filter) PROVE \E w : QueryIssued(R, w)
  <2>1. PICK w : w = [workspace EXCEPT !.query = filter]
    OBVIOUS
  <2>2. filter \in Queries
    BY FilterIs
  <2>3. /\ w \in Workspaces(R) /\ w.mounted = workspace.mounted /\ w.generation = workspace.generation
        /\ w.early = workspace.early
    BY <1>1, <2>1, <2>2 DEF Workspaces
  <2>4. Issue(w)
    BY <1>4, <2>1 DEF ChangeQuery
  <2> QED
    BY <1>3, <2>3, <2>4 DEF QueryIssued
<1>5. CASE Refresh
  <2>1. Issue(workspace)
    BY <1>5 DEF Refresh
  <2> QED
    BY <1>1, <1>3, <2>1 DEF QueryIssued
<1>6. CASE Unblock
  <2>1. PICK no : no = FALSE
    OBVIOUS
  <2>2. no \in BOOLEAN
    BY <2>1
  <2>3. PICK w : w = [workspace EXCEPT !.blocked = no]
    OBVIOUS
  <2>4. /\ w \in Workspaces(R) /\ w.mounted = workspace.mounted /\ w.generation = workspace.generation
        /\ w.early = workspace.early
    BY <1>1, <2>2, <2>3 DEF Workspaces
  <2>5. Issue(w)
    BY <1>6, <2>1, <2>3 DEF Unblock
  <2> QED
    BY <1>3, <2>4, <2>5 DEF QueryIssued
<1> QED
  BY <1>2, <1>4, <1>5, <1>6 DEF QueryStep

\* Queries keep what the parts pass each other.
LEMMA QueriesKeep ==
  ASSUME NEW R, ChannelsOK(R), HostOK(R), WaitingOK, published.view = view.generation,
         QueryStep
  PROVE  ChannelsNext(R) /\ WaitingNext /\ UNCHANGED hostVars
<1>1. workspace \in Workspaces(R) /\ shown \in Pages(R) /\ outcomes \in Seq(Outcomes)
  BY DEF ChannelsOK
<1>2. CASE Unmount
  <2>1. workspace' = NoWorkspace /\ UNCHANGED <<hostVars, intents, outcomes, shown>>
    BY <1>2 DEF Unmount
  <2>2. view' = view /\ intents' = intents /\ outcomes' = outcomes /\ shown' = shown
    BY <2>1 DEF hostVars
  <2>3. workspace' \in Workspaces(R) /\ ~workspace'.mounted
    BY <2>1, NoWorkspaceIs
  <2> QED
    BY <1>1, <2>1, <2>2, <2>3, NothingAsked
<1>3. CASE Block
  <2>1. PICK yes : yes = TRUE
    OBVIOUS
  <2>2. yes \in BOOLEAN
    BY <2>1
  <2>3. workspace' = [workspace EXCEPT !.blocked = yes, !.review = NoReview] /\ UNCHANGED <<hostVars, intents, outcomes, shown>>
    BY <1>3, <2>1 DEF Block
  <2>4. view' = view /\ intents' = intents /\ outcomes' = outcomes /\ shown' = shown
    BY <2>3 DEF hostVars
  <2>5. NoReview \in Reviews(R)
    BY NoWorkspaceIs
  <2>6. /\ workspace' \in Workspaces(R) /\ workspace'.mounted = workspace.mounted
        /\ workspace'.generation = workspace.generation /\ workspace'.requested = workspace.requested
        /\ workspace'.query = workspace.query /\ workspace'.early = workspace.early
    BY <1>1, <2>2, <2>3, <2>5 DEF Workspaces
  <2> QED
    BY <1>1, <2>3, <2>4, <2>6, NothingAsked
<1>4. ASSUME NEW w, QueryIssued(R, w) PROVE ChannelsNext(R) /\ WaitingNext /\ UNCHANGED hostVars
  <2>1. w \in Workspaces(R) /\ Issue(w) /\ (w.mounted /\ ~w.early => Below(w.generation))
    BY <1>4 DEF QueryIssued
  <2> QED
    BY <2>1, IssueKeeps DEF Issue
<1> QED
  BY <1>2, <1>3, <1>4, QueryIssues

\* Dialogs and submissions.
LEMMA ReviewsKeep ==
  ASSUME NEW R, ChannelsOK(R), HostOK(R), WaitingOK, ReviewStep
  PROVE  ChannelsNext(R) /\ WaitingNext /\ UNCHANGED hostVars
<1>1. workspace \in Workspaces(R) /\ shown \in Pages(R) /\ outcomes \in Seq(Outcomes) /\ intents \in Seq(Commands(R))
  BY DEF ChannelsOK
<1>2. DefaultQuery \in Queries /\ NoReview \in Reviews(R)
  BY NoWorkspaceIs
<1>3. PICK yes : yes = TRUE
  OBVIOUS
<1>4. yes \in BOOLEAN
  BY <1>3
<1>5. ASSUME NEW w \in Workspaces(R), workspace' = w, w.mounted = workspace.mounted, w.generation = workspace.generation,
             w.requested = workspace.requested, w.query = workspace.query, w.early = workspace.early, UNCHANGED <<hostVars, outcomes, shown>>,
             \/ intents' = intents
             \/ \E command \in Commands(R) : command.kind # "query" /\ intents' = Append(intents, command)
      PROVE  ChannelsNext(R) /\ WaitingNext /\ UNCHANGED hostVars
  <2>1. view' = view /\ outcomes' = outcomes /\ shown' = shown /\ UNCHANGED hostVars
    BY <1>5 DEF hostVars
  <2> QED
    BY <1>1, <1>5, <2>1, NothingAsked
<1>6. ASSUME NEW action \in Actions, NEW row \in Optional(R), action \in Targeted <=> row # <<>>
      PROVE  Command(action, 0, DefaultQuery, row) \in Commands(R) /\ Command(action, 0, DefaultQuery, row).kind # "query"
  BY <1>2, <1>6 DEF Command, Commands, CommandKinds, Actions
<1>7. CASE CloseReview
  <2>1. PICK w : w = [workspace EXCEPT !.review = NoReview]
    OBVIOUS
  <2>2. workspace' = w /\ UNCHANGED <<hostVars, outcomes, shown>> /\ intents' = intents
    BY <1>7, <2>1 DEF CloseReview
  <2>3. /\ w \in Workspaces(R) /\ w.mounted = workspace.mounted /\ w.generation = workspace.generation
        /\ w.requested = workspace.requested /\ w.query = workspace.query /\ w.early = workspace.early
    BY <1>1, <1>2, <2>1 DEF Workspaces
  <2> QED
    BY <1>5, <2>2, <2>3
<1>8. CASE Submit
  <2>1. PICK w, action, row : /\ w = [workspace EXCEPT !.busy = yes] /\ action = workspace.review.action
                              /\ row = workspace.review.row
    OBVIOUS
  <2>2. /\ workspace' = w /\ UNCHANGED <<hostVars, outcomes, shown>>
        /\ intents' = Append(intents, Command(action, 0, DefaultQuery, row))
    BY <1>3, <1>8, <2>1 DEF Submit
  <2>3. /\ w \in Workspaces(R) /\ w.mounted = workspace.mounted /\ w.generation = workspace.generation
        /\ w.requested = workspace.requested /\ w.query = workspace.query /\ w.early = workspace.early
    BY <1>1, <1>4, <2>1 DEF Workspaces
  <2>4. action \in Actions /\ row \in Optional(R) /\ (action \in Targeted <=> row # <<>>)
    BY <1>1, <2>1 DEF Workspaces, Reviews
  <2> QED
    BY <1>5, <1>6, <2>2, <2>3, <2>4
<1>9. ASSUME NEW action \in {"remember", "import"}, SubmitNew(action) PROVE ChannelsNext(R) /\ WaitingNext /\ UNCHANGED hostVars
  <2>1. PICK w, row, review : /\ w = [workspace EXCEPT !.busy = yes, !.review = review] /\ row = <<>>
                              /\ review = [action |-> action, row |-> row]
    OBVIOUS
  <2>2. /\ workspace' = w /\ UNCHANGED <<hostVars, outcomes, shown>>
        /\ intents' = Append(intents, Command(action, 0, DefaultQuery, row))
    BY <1>3, <1>9, <2>1 DEF SubmitNew
  <2>3. action \in Actions /\ row \in Optional(R) /\ action \notin Targeted
    BY <2>1 DEF Optional, Actions, Targeted
  <2>4. review \in Reviews(R)
    BY <2>1, <2>3 DEF Reviews
  <2>5. /\ w \in Workspaces(R) /\ w.mounted = workspace.mounted /\ w.generation = workspace.generation
        /\ w.requested = workspace.requested /\ w.query = workspace.query /\ w.early = workspace.early
    BY <1>1, <1>4, <2>1, <2>4 DEF Workspaces
  <2>6. action \in Targeted <=> row # <<>>
    BY <2>1, <2>3
  <2> QED
    BY <1>5, <1>6, <2>2, <2>3, <2>5, <2>6
<1>10. ASSUME NEW i \in 1..PageSize, ReviewRow(i) PROVE ChannelsNext(R) /\ WaitingNext /\ UNCHANGED hostVars
  <2>1. PICK action \in Offered(shown.rows[i]) :
             workspace' = [workspace EXCEPT !.review = [action |-> action, row |-> <<shown.rows[i]>>]]
    BY <1>10 DEF ReviewRow
  <2>2. UNCHANGED <<hostVars, outcomes, shown>> /\ intents' = intents /\ i \in DOMAIN shown.rows
    BY <1>10 DEF ReviewRow
  <2>3. PICK row, review : row = <<shown.rows[i]>> /\ review = [action |-> action, row |-> row]
    OBVIOUS
  <2>4. shown.rows[i] \in R
    BY <1>1, <2>2 DEF Pages
  <2>5. row \in Optional(R)
    BY <2>3, <2>4 DEF Optional
  <2>6. action \in Actions /\ action \in Targeted /\ row # <<>>
    BY <2>1, <2>3 DEF Offered, Actions, Targeted
  <2>7. review \in Reviews(R)
    BY <2>3, <2>5, <2>6 DEF Reviews
  <2>8. PICK w : w = [workspace EXCEPT !.review = review]
    OBVIOUS
  <2>9. /\ w \in Workspaces(R) /\ w.mounted = workspace.mounted /\ w.generation = workspace.generation
        /\ w.requested = workspace.requested /\ w.query = workspace.query /\ w.early = workspace.early
    BY <1>1, <2>7, <2>8 DEF Workspaces
  <2>10. workspace' = w
    BY <2>1, <2>3, <2>8
  <2> QED
    BY <1>5, <2>2, <2>9, <2>10
<1> QED
  BY <1>7, <1>8, <1>9, <1>10 DEF ReviewStep

\* What becomes of the workspace when an outcome arrives.
LEMMA ConcludedIs ==
  ASSUME NEW R, NEW w \in Workspaces(R), NEW outcome \in Outcomes, NEW page \in Pages(R),
         NEW after, after = Concluded(w, outcome, page)
  PROVE  /\ after \in Workspaces(R) /\ after.mounted = w.mounted /\ after.query = w.query /\ after.session = w.session
         /\ after.early = w.early
         /\ \/ /\ after.generation = w.generation /\ after.requested = w.requested
               /\ after.blocked = w.blocked /\ (w.failed => after.failed)
            \/ /\ outcome.result = "committed" /\ after.requested = after.generation
               /\ after.generation > w.generation /\ after.generation > page.view
<1>1. PICK yes, no : yes = TRUE /\ no = FALSE
  OBVIOUS
<1>2. yes \in BOOLEAN /\ no \in BOOLEAN
  BY <1>1
<1>3. CASE w.foreign = 0 /\ outcome.kind = "query"
  <2>1. after = w \/ after = [w EXCEPT !.failed = yes]
    BY <1>1, <1>3 DEF Concluded
  <2>2. /\ after \in Workspaces(R) /\ after.mounted = w.mounted /\ after.query = w.query /\ after.session = w.session
        /\ after.generation = w.generation /\ after.requested = w.requested /\ after.blocked = w.blocked
        /\ after.early = w.early
        /\ after.failed = w.failed \/ after.failed = yes
    BY <1>2, <2>1 DEF Workspaces
  <2>3. w.failed => after.failed
    BY <1>1, <2>2
  <2> QED
    BY <2>2, <2>3
<1>4. CASE w.foreign = 0 /\ outcome.kind # "query" /\ outcome.result = "committed"
  <2>1. PICK done : done = [w EXCEPT !.busy = no, !.review = NoReview]
    OBVIOUS
  <2>2. after = IF w.blocked THEN done ELSE QueryEffect(done, page)
    <3>1. ~(w.foreign > 0)
      BY <1>4
    <3> QED
      BY <1>1, <1>4, <2>1, <3>1 DEF Concluded
  <2>3. NoReview \in Reviews(R)
    BY NoWorkspaceIs
  <2>4. /\ done \in Workspaces(R) /\ done.mounted = w.mounted /\ done.query = w.query /\ done.session = w.session
        /\ done.generation = w.generation /\ done.requested = w.requested
        /\ done.blocked = w.blocked /\ done.failed = w.failed /\ done.early = w.early
    BY <1>2, <2>1, <2>3 DEF Workspaces
  <2>5. CASE w.blocked
    BY <2>2, <2>4, <2>5
  <2>6. CASE ~w.blocked
    <3>1. after = QueryEffect(done, page)
      BY <2>2, <2>6
    <3> QED
      BY <1>4, <2>4, <3>1, EffectIs
  <2> QED
    BY <2>5, <2>6
<1>5. CASE w.foreign = 0 /\ outcome.kind # "query" /\ outcome.result # "committed"
  <2>1. after = [w EXCEPT !.busy = no]
    <3>1. ~(w.foreign > 0)
      BY <1>5
    <3> QED
      BY <1>1, <1>5, <3>1 DEF Concluded
  <2> QED
    BY <1>2, <2>1 DEF Workspaces
<1>6. CASE w.foreign # 0
  <2>1. PICK rest : rest = w.foreign - 1
    OBVIOUS
  <2>2. w.foreign \in Nat
    BY DEF Workspaces
  <2>3. rest \in Nat /\ w.foreign > 0
    BY <1>6, <2>1, <2>2
  <2>4. after = [w EXCEPT !.foreign = rest]
    BY <2>1, <2>3 DEF Concluded
  <2> QED
    BY <2>3, <2>4 DEF Workspaces
<1> QED
  BY <1>3, <1>4, <1>5, <1>6

\* And when a page does.
LEMMA ReceivedIs ==
  ASSUME NEW R, NEW w \in Workspaces(R), NEW page \in Pages(R), here \in BOOLEAN, NEW after, after = Received(w, page)
  PROVE  /\ after \in Workspaces(R) /\ after.mounted = w.mounted /\ after.query = w.query /\ after.early = w.early
         /\ \/ after.generation = w.generation /\ after.requested = w.requested
            \/ /\ after.requested = after.generation /\ after.generation \in Int
               /\ after.generation > w.generation /\ after.generation > page.view
<1>1. PICK moved : moved = [w EXCEPT !.session = here]
  OBVIOUS
<1>2. /\ moved \in Workspaces(R) /\ moved.mounted = w.mounted /\ moved.query = w.query /\ moved.early = w.early
      /\ moved.generation = w.generation /\ moved.requested = w.requested
  BY <1>1 DEF Workspaces
<1>3. after = moved \/ after = QueryEffect(moved, page)
  BY <1>1 DEF Received
<1>4. CASE after = moved
  BY <1>2, <1>4
<1>5. CASE after = QueryEffect(moved, page)
  BY <1>2, <1>5, EffectIs
<1> QED
  BY <1>3, <1>4, <1>5

\* Together: the workspace stays where it is or asks anew.
LEMMA ArrivalKeeps ==
  ASSUME NEW R, ChannelsOK(R), HostOK(R), WaitingOK,
         published.view = view.generation, published.query = view.query,
         NEW page, page = MapProjection(published), NEW settled \in Workspaces(R),
         settled.mounted = workspace.mounted, settled.query = workspace.query, settled.early = workspace.early,
         \/ settled.generation = workspace.generation /\ settled.requested = workspace.requested
         \/ /\ settled.requested = settled.generation
            /\ settled.generation > workspace.generation /\ settled.generation > page.view,
         NEW w, w = Received(settled, page), workspace' = w, shown' = page, view' = view, outcomes' \in Seq(Outcomes),
         intents' = IF Asks(workspace, w) THEN Append(intents, QueryCommand(w)) ELSE intents
  PROVE  ChannelsNext(R) /\ WaitingNext
<1>1. /\ page \in Pages(R) /\ page.view = view.generation /\ page.query = view.query
      /\ here \in BOOLEAN /\ workspace \in Workspaces(R) /\ intents \in Seq(Commands(R))
  BY MappedIs DEF HostOK, ChannelsOK
<1>2. /\ w \in Workspaces(R) /\ w.mounted = settled.mounted /\ w.query = settled.query /\ w.early = settled.early
      /\ \/ w.generation = settled.generation /\ w.requested = settled.requested
         \/ /\ w.requested = w.generation /\ w.generation \in Int
            /\ w.generation > settled.generation /\ w.generation > page.view
  BY <1>1, ReceivedIs
<1>3. workspace.generation \in Int /\ workspace.requested \in Int /\ settled.generation \in Int /\ w.generation \in Int /\ page.view \in Int
      /\ w.requested \in Int
  BY <1>1, <1>2 DEF Workspaces, Pages
<1>4. CASE w.generation = workspace.generation /\ w.requested = workspace.requested
  <2>1. intents' = intents
    BY <1>4 DEF Asks
  <2> QED
    BY <1>1, <1>2, <1>4, <2>1, NothingAsked
<1>5. CASE w.requested = w.generation /\ w.generation > workspace.generation /\ w.generation > page.view
  <2>1. CASE Asks(workspace, w)
    <3>1. PICK g : g = workspace.generation
      OBVIOUS
    <3>2. w.mounted /\ ~w.early => Below(g)
      BY <1>2, <3>1, WaitingBelow DEF WaitingOK
    <3>3. intents' = Append(intents, QueryCommand(w))
      BY <2>1
    <3>4. shown'.view < w.generation
      BY <1>3, <1>5
    <3> QED
      BY <1>1, <1>2, <1>3, <1>5, <3>1, <3>2, <3>3, <3>4, AskingWaits
  <2>2. CASE ~Asks(workspace, w)
    <3>1. intents' = intents /\ w.requested = workspace.requested
      BY <2>2 DEF Asks
    <3>2. ~w.mounted
      BY <1>2, <1>3, <1>5, <3>1 DEF WaitingOK, Asked
    <3> QED
      BY <1>1, <1>2, <3>1, <3>2 DEF ChannelsNext, WaitingNext, WaitingOK
  <2> QED
    BY <2>1, <2>2
<1> QED
  BY <1>2, <1>3, <1>4, <1>5

\* What reaches the workspace.
LEMMA ReceivesKeep ==
  ASSUME NEW R, ChannelsOK(R), HostOK(R), WaitingOK,
         published.view = view.generation, published.query = view.query, ReceiveStep
  PROVE  ChannelsNext(R) /\ WaitingNext /\ UNCHANGED hostVars
<1>1. workspace \in Workspaces(R) /\ shown \in Pages(R) /\ outcomes \in Seq(Outcomes) /\ published \in Pages(R)
  BY DEF ChannelsOK, HostOK
<1>2. PICK page : page = MapProjection(published)
  OBVIOUS
<1>3. page \in Pages(R)
  BY <1>1, <1>2, MappedIs
<1>4. CASE ReceiveProjection
  <2>1. PICK w : w = Received(workspace, page)
    OBVIOUS
  <2>2. /\ shown' = page /\ workspace' = w /\ UNCHANGED hostVars /\ outcomes' = outcomes
        /\ intents' = IF Asks(workspace, w) THEN Append(intents, QueryCommand(w)) ELSE intents
    BY <1>2, <1>4, <2>1 DEF ReceiveProjection
  <2>3. view' = view
    BY <2>2 DEF hostVars
  <2> QED
    BY <1>1, <1>2, <2>1, <2>2, <2>3, ArrivalKeeps
<1>5. CASE ReceiveOutcome
  <2>1. PICK outcome : outcome = Head(outcomes)
    OBVIOUS
  <2>2. outcomes # <<>>
    BY <1>5 DEF ReceiveOutcome
  <2>3. outcome \in Outcomes /\ Tail(outcomes) \in Seq(Outcomes)
    BY <1>1, <2>1, <2>2, Rest
  <2>4. PICK settled : settled = IF workspace.mounted THEN Concluded(workspace, outcome, page) ELSE workspace
    OBVIOUS
  <2>5. PICK w : w = Received(settled, page)
    OBVIOUS
  <2>6. /\ shown' = page /\ workspace' = w /\ UNCHANGED hostVars /\ outcomes' = Tail(outcomes)
        /\ intents' = IF Asks(workspace, w) THEN Append(intents, QueryCommand(w)) ELSE intents
    BY <1>2, <1>5, <2>1, <2>4, <2>5 DEF ReceiveOutcome
  <2>7. view' = view
    BY <2>6 DEF hostVars
  <2>8. /\ settled \in Workspaces(R) /\ settled.mounted = workspace.mounted /\ settled.query = workspace.query
        /\ settled.early = workspace.early
        /\ \/ settled.generation = workspace.generation /\ settled.requested = workspace.requested
           \/ /\ settled.requested = settled.generation
              /\ settled.generation > workspace.generation /\ settled.generation > page.view
    <3>1. CASE workspace.mounted
      <4>1. settled = Concluded(workspace, outcome, page)
        BY <2>4, <3>1
      <4>2. workspace \in Workspaces(R) /\ outcome \in Outcomes
        BY <1>1, <2>3
      <4>3. /\ settled \in Workspaces(R) /\ settled.mounted = workspace.mounted /\ settled.query = workspace.query
            /\ settled.early = workspace.early
            /\ \/ settled.generation = workspace.generation /\ settled.requested = workspace.requested
               \/ /\ outcome.result = "committed" /\ settled.requested = settled.generation
                  /\ settled.generation > workspace.generation /\ settled.generation > page.view
        BY <1>3, <4>1, <4>2, ConcludedIs
      <4> QED
        BY <4>3
    <3>2. CASE ~workspace.mounted
      BY <1>1, <2>4, <3>2
    <3> QED
      BY <3>1, <3>2
  <2> QED
    BY <1>2, <2>3, <2>5, <2>6, <2>7, <2>8, ArrivalKeeps
<1>6. CASE OutcomeUnknown
  <2>1. PICK outcome : outcome = [Head(outcomes) EXCEPT !.result = "unknown"]
    OBVIOUS
  <2>2. outcomes # <<>>
    BY <1>6 DEF OutcomeUnknown
  <2>3. Head(outcomes) \in Outcomes /\ Tail(outcomes) \in Seq(Outcomes)
    BY <1>1, <2>2, Rest
  <2>4. outcome \in Outcomes /\ outcome.result # "committed"
    BY <2>1, <2>3 DEF Outcomes
  <2>5. PICK w : w = Concluded(workspace, outcome, shown)
    OBVIOUS
  <2>6. workspace' = w /\ outcomes' = Tail(outcomes) /\ UNCHANGED hostVars /\ intents' = intents /\ shown' = shown
    BY <1>6, <2>1, <2>5 DEF OutcomeUnknown
  <2>7. view' = view
    BY <2>6 DEF hostVars
  <2>8. /\ w \in Workspaces(R) /\ w.mounted = workspace.mounted /\ w.query = workspace.query
        /\ w.generation = workspace.generation /\ w.requested = workspace.requested /\ w.early = workspace.early
    BY <1>1, <2>4, <2>5, ConcludedIs
  <2> QED
    BY <1>1, <2>3, <2>6, <2>7, <2>8, NothingAsked
<1> QED
  BY <1>4, <1>5, <1>6 DEF ReceiveStep

-----------------------------------------------------------------------------
(* The steps of the coordinator. *)

\* What a step leaves of the ledger: rows that were fresh stay so.
LedgerNext == LedgerOK' /\ FreshRows \subseteq FreshRows'

\* What a step leaves of the coordinator's view.
HostNext ==
    /\ published' \in Pages(FreshRows') /\ here' \in BOOLEAN
    /\ view' \in [generation : Int, query : Queries] /\ Published'

\* The parts make the whole.
LEMMA Assembled ==
  ASSUME LedgerNext, HostNext, ChannelsNext(FreshRows), WaitingNext
  PROVE  ViewInv'
<1>1. PICK R, Q : R = FreshRows /\ Q = FreshRows' /\ R \subseteq Q
  BY DEF LedgerNext
<1>2. intents' \in Seq(Commands(R)) /\ outcomes' \in Seq(Outcomes) /\ shown' \in Pages(R) /\ workspace' \in Workspaces(R)
  BY <1>1 DEF ChannelsNext
<1>3. intents' \in Seq(Commands(Q)) /\ shown' \in Pages(Q) /\ workspace' \in Workspaces(Q)
  BY <1>1, <1>2, CommandsGrow, PagesGrow, WorkspacesGrow
<1>4. ChannelsOK(FreshRows)'
  BY <1>1, <1>2, <1>3 DEF ChannelsOK
<1>5. HostOK(FreshRows)' /\ Published'
  BY DEF HostNext, HostOK
<1> QED
  BY <1>4, <1>5 DEF ViewInv, LedgerNext, WaitingNext

\* Answering a command.
LEMMA AnswerKeeps ==
  ASSUME NEW R, ChannelsOK(R), WaitingOK, UNCHANGED <<shown, workspace>>,
         \/ intents' = intents /\ outcomes' = outcomes /\ view' = view
         \/ /\ intents # <<>> /\ \E result \in {"committed", "rejected"} : Reply(result)
            /\ \/ Head(intents).kind # "query" /\ view' = view
               \/ /\ Head(intents).kind = "query"
                  /\ view' = [generation |-> Head(intents).view, query |-> Head(intents).query]
  PROVE  ChannelsNext(R) /\ WaitingNext
<1>1. /\ intents \in Seq(Commands(R)) /\ outcomes \in Seq(Outcomes) /\ shown \in Pages(R) /\ workspace \in Workspaces(R)
      /\ shown' = shown /\ workspace' = workspace
  BY DEF ChannelsOK
<1>2. CASE intents' = intents /\ outcomes' = outcomes /\ view' = view
  <2>1. Waiting => Waiting'
    BY <1>1, <1>2 DEF Waiting
  <2>2. Asked(workspace) => Asked(workspace)'
    BY <1>1, <1>2 DEF Asked
  <2> QED
    BY <1>1, <1>2, <2>1, <2>2 DEF ChannelsNext, WaitingNext, WaitingOK
<1>3. CASE /\ intents # <<>> /\ \E result \in {"committed", "rejected"} : Reply(result)
           /\ \/ Head(intents).kind # "query" /\ view' = view
              \/ /\ Head(intents).kind = "query"
                 /\ view' = [generation |-> Head(intents).view, query |-> Head(intents).query]
  <2>1. PICK result \in {"committed", "rejected"} : Reply(result)
    BY <1>3
  <2>2. PICK head : head = Head(intents)
    OBVIOUS
  <2>3. /\ head \in Commands(R) /\ Tail(intents) \in Seq(Commands(R)) /\ 1 \in DOMAIN intents /\ head = intents[1]
        /\ \A i \in DOMAIN Tail(intents) : i + 1 \in DOMAIN intents /\ Tail(intents)[i] = intents[i + 1]
    BY <1>1, <1>3, <2>2, Rest
  <2>4. intents' = Tail(intents) /\ outcomes' = Append(outcomes, [kind |-> head.kind, view |-> head.view, result |-> result])
    BY <2>1, <2>2 DEF Reply
  <2>5. [kind |-> head.kind, view |-> head.view, result |-> result] \in Outcomes
    BY <2>3 DEF Commands, Outcomes
  <2>6. intents' \in Seq(Commands(R)) /\ outcomes' \in Seq(Outcomes)
    BY <1>1, <2>3, <2>4, <2>5
  <2>7. \A i \in DOMAIN intents' : \E j \in DOMAIN intents : intents'[i] = intents[j]
    BY <2>3, <2>4
  <2>8. ASSUME Waiting PROVE Waiting'
    <3>1. \/ head.kind # "query" /\ view' = view
          \/ head.kind = "query" /\ view'.generation = head.view /\ view'.query = head.query
      BY <1>3, <2>2
    <3>2. CASE view' = view
      BY <1>1, <2>7, <2>8, <3>2 DEF Waiting
    <3>3. CASE head.kind = "query" /\ view'.generation = head.view /\ view'.query = head.query
      BY <1>1, <2>3, <2>7, <2>8, <3>3 DEF Waiting
    <3> QED
      BY <3>1, <3>2, <3>3
  <2>9. ASSUME Asked(workspace) PROVE Asked(workspace)'
    <3>1. PICK mine, w, n, rest : mine = QueryCommand(workspace) /\ w = workspace /\ n = Len(intents) /\ rest = Tail(intents)
      OBVIOUS
    <3>2. mine.kind = "query" /\ mine.view = w.requested /\ mine.query = w.query
      BY <1>1, <3>1, QueryCommandIs
    <3>3. /\ DOMAIN intents = 1..n /\ n \in Nat \ {0} /\ DOMAIN rest = 1..(n - 1) /\ intents' = rest
          /\ \A i \in 1..(n - 1) : rest[i] = intents[i + 1]
      BY <1>1, <1>3, <2>4, <3>1
    <3>4. /\ \A i \in 1..n : intents[i].kind = "query" => \E j \in 1..n : j >= i /\ intents[j] = mine
          /\ (\E i \in 1..n : intents[i].kind = "query") \/ (view.generation = w.requested /\ view.query = w.query)
      BY <2>9, <3>1, <3>3 DEF Asked
    <3>5. ASSUME NEW i \in 1..(n - 1), rest[i].kind = "query" PROVE \E j \in 1..(n - 1) : j >= i /\ rest[j] = mine
      <4>1. i + 1 \in 1..n /\ intents[i + 1].kind = "query"
        BY <3>3, <3>5
      <4>2. PICK j \in 1..n : j >= i + 1 /\ intents[j] = mine
        BY <3>4, <4>1
      <4>3. j - 1 \in 1..(n - 1) /\ j - 1 >= i /\ (j - 1) + 1 = j
        BY <3>3, <4>2
      <4>4. rest[j - 1] = mine
        BY <3>3, <4>2, <4>3
      <4> QED
        BY <4>3, <4>4
    <3>6. ASSUME \A i \in 1..(n - 1) : rest[i].kind # "query"
          PROVE  view'.generation = w.requested /\ view'.query = w.query
      <4>1. ASSUME NEW i \in 1..n, intents[i].kind = "query" PROVE i = 1
        <5>1. ASSUME i # 1 PROVE FALSE
          <6>1. i - 1 \in 1..(n - 1) /\ (i - 1) + 1 = i
            BY <3>3, <5>1
          <6>2. rest[i - 1] = intents[i]
            BY <3>3, <6>1
          <6> QED
            BY <3>6, <4>1, <6>1, <6>2
        <5> QED
          BY <5>1
      <4>2. CASE head.kind = "query"
        <5>1. view'.generation = head.view /\ view'.query = head.query
          BY <1>3, <2>2, <4>2
        <5>2. PICK j \in 1..n : intents[j] = mine
          BY <2>3, <3>3, <3>4, <4>2
        <5>3. j = 1
          BY <3>2, <4>1, <5>2
        <5>4. head = mine
          BY <2>3, <5>2, <5>3
        <5> QED
          BY <3>2, <5>1, <5>4
      <4>3. CASE head.kind # "query"
        <5>1. view' = view
          BY <1>3, <2>2, <4>3
        <5>2. \A i \in 1..n : intents[i].kind # "query"
          BY <2>3, <4>1, <4>3
        <5> QED
          BY <3>4, <5>1, <5>2
      <4> QED
        BY <4>2, <4>3
    <3>7. w.requested = w.generation
      BY <2>9, <3>1 DEF Asked
    <3>8. QueryCommand(workspace') = mine /\ workspace' = w
      BY <1>1, <3>1
    <3> QED
      BY <3>3, <3>5, <3>6, <3>7, <3>8 DEF Asked
  <2> QED
    BY <1>1, <2>6, <2>8, <2>9 DEF ChannelsNext, WaitingNext, WaitingOK
<1> QED
  BY <1>2, <1>3

\* Publishing.
LEMMA PublishKeeps ==
  ASSUME LedgerOK', here' \in BOOLEAN, view' \in [generation : Int, query : Queries], PublishMemories
  PROVE  HostNext
<1>1. TablesOK'
  BY TablesHoldNext
<1>2. Sortable(Tables') /\ \A record \in Tables' : RecordOK(record) /\ RowOf(record) \in FreshRows'
  BY <1>1 DEF TablesOK
<1>3. PICK page, tables, R, v, open, g : /\ page = published' /\ tables = Tables' /\ R = FreshRows' /\ v = view'
                                         /\ open = here' /\ g = mutationGeneration'
  OBVIOUS
<1>4. page = LoadMemoryView(v, tables, open, g)
  BY <1>3 DEF PublishMemories
<1>5. g \in Nat /\ v \in [generation : Int, query : Queries] /\ open \in BOOLEAN
  BY <1>3 DEF LedgerOK
<1>6. /\ page \in Pages(R) /\ Matched(page)
      /\ page.view = v.generation /\ page.query = v.query /\ page.ledger = g /\ page.state = "ready"
      /\ page.rows = RowsOf(PageFor(v.query, tables, open)) /\ page.open = open
  BY <1>2, <1>3, <1>4, <1>5, PageLoaded
<1>7. Published'
  <2>1. Matched(published)'
    BY <1>3, <1>6 DEF Matched
  <2>2. published'.ledger <= mutationGeneration'
    BY <1>3, <1>5, <1>6
  <2>3. published'.rows = RowsOf(PageFor(published'.query, Tables', published'.open))
    BY <1>3, <1>6
  <2> QED
    BY <1>3, <1>6, <2>1, <2>2, <2>3 DEF Published
<1> QED
  BY <1>3, <1>6, <1>7 DEF HostNext

\* Not publishing.
LEMMA UnpublishedKeeps ==
  ASSUME HostOK(FreshRows), Published, LedgerNext, published' = published, view' = view, here' \in BOOLEAN,
         mutationGeneration \in Nat,
         \/ mutationGeneration' = mutationGeneration + 1
         \/ mutationGeneration' = mutationGeneration /\ Tables' = Tables
  PROVE  HostNext
<1>1. published' \in Pages(FreshRows')
  <2>1. PICK R, Q : R = FreshRows /\ Q = FreshRows' /\ R \subseteq Q
    BY DEF LedgerNext
  <2>2. published \in Pages(R)
    BY <2>1 DEF HostOK
  <2>3. published \in Pages(Q)
    BY <2>1, <2>2, PagesGrow
  <2> QED
    BY <2>1, <2>3
<1>2. published.ledger \in Nat
  BY DEF HostOK, Pages
<1>3. Matched(published)'
  BY DEF Published, Matched
<1>4. published.ledger <= mutationGeneration'
  BY <1>2 DEF Published
<1>5. published.state = "ready" /\ published.ledger = mutationGeneration' =>
        published.rows = RowsOf(PageFor(published.query, Tables', published.open))
  BY <1>2 DEF Published
<1>6. published'.view = view'.generation /\ published'.query = view'.query
  BY DEF Published
<1>7. Published'
  BY <1>3, <1>4, <1>5, <1>6 DEF Published
<1> QED
  BY <1>1, <1>7 DEF HostNext, HostOK

\* A command that is done to a memory names a row that was read.
LEMMA TargetIs ==
  ASSUME NEW R, R \subseteq Rows, ChannelsOK(R), intents # <<>>
  PROVE  /\ Head(intents).kind \in Targeted => Target \in R /\ Target.memory \in Memories
         /\ Head(intents).row # <<>> => Head(intents).kind \in Targeted
<1>1. PICK head : head = Head(intents) /\ head \in Commands(R)
  BY Rest DEF ChannelsOK
<1>2. head.row \in Optional(R) /\ (head.kind \in Targeted <=> head.row # <<>>)
  BY <1>1 DEF Commands
<1>3. head.row # <<>> => head.row[1] \in R
  BY <1>2 DEF Optional
<1> QED
  BY <1>1, <1>2, <1>3 DEF Target, Rows

\* What a targeted command does.
Targets(m) ==
    /\ intents # <<>> /\ Head(intents).kind \in Targeted /\ m = Target.memory
    /\ VersionHolds /\ Appended(m)
    /\ \E batch, contradicts : Committed(m, batch, contradicts)

\* The commands that name a memory.
TargetedStep == ReviseMemory \/ ApproveMemoryProposal \/ RejectMemoryProposal \/ RetractMemory \/ DeleteMemory

\* Each of them appends to the memory its row names, at the version reviewed.
LEMMA TargetedAppends ==
  ASSUME ViewInv, TargetedStep
  PROVE  Targets(Target.memory)
<1>1. LedgerOK /\ ChannelsOK(FreshRows) /\ FreshRows \subseteq Rows
  BY DEF ViewInv, FreshRows
<1>2. intents # <<>> /\ Head(intents).kind \in Targeted /\ VersionHolds
  BY DEF TargetedStep, ReviseMemory, ApproveMemoryProposal, RejectMemoryProposal, RetractMemory, DeleteMemory, Pending, Targeted
<1>3. PICK m \in Memories : m = Target.memory
  BY <1>1, <1>2, TargetIs
<1>4. PICK no : no = FALSE
  OBVIOUS
<1>5. ASSUME NEW batch, Committed(m, batch, no) PROVE AppendMemoryBatch(m, batch) /\ Stamp(m, no)
  BY <1>5 DEF Committed
<1>6. CASE ReviseMemory
  <2>1. PICK r \in DOMAIN items[m].revisions : RevisePlanned(m, r, "accepted") /\ Committed(m, PlanRevise(m, r), no)
    BY <1>3, <1>4, <1>6 DEF ReviseMemory
  <2>2. Appended(m)
    BY <1>1, <1>5, <2>1, ReviseAppends
  <2> QED
    BY <1>2, <1>3, <2>1, <2>2 DEF Targets
<1>7. CASE ApproveMemoryProposal
  <2>1. PICK r : r = Target.revision
    OBVIOUS
  <2>2. ApprovePlanned(m, r, "accepted") /\ Committed(m, PlanApprove(m, r), no)
    BY <1>3, <1>4, <1>7, <2>1 DEF ApproveMemoryProposal
  <2>3. Appended(m)
    BY <1>1, <1>5, <2>2, ApproveAppends
  <2> QED
    BY <1>2, <1>3, <2>2, <2>3 DEF Targets
<1>8. ASSUME NEW kind \in {"RevisionRejected", "MemoryRetracted", "MemoryDeleted"}, NEW r, NEW states,
             SinglePlanned(m, r, states), states \subseteq Deletable, Committed(m, PlanSingle(kind, r), no)
      PROVE  Targets(m)
  <2>1. Appended(m)
    BY <1>1, <1>5, <1>8, SingleAppends
  <2> QED
    BY <1>2, <1>3, <1>8, <2>1 DEF Targets
<1>9. CASE RejectMemoryProposal
  <2>1. PICK r, states, kind : r = Target.revision /\ states = {"proposed"} /\ kind = "RevisionRejected"
    OBVIOUS
  <2>2. SinglePlanned(m, r, states) /\ Committed(m, PlanSingle(kind, r), no)
    BY <1>3, <1>4, <1>9, <2>1 DEF RejectMemoryProposal
  <2>3. states \subseteq Deletable
    BY <2>1 DEF Deletable
  <2> QED
    BY <1>3, <1>8, <2>1, <2>2, <2>3
<1>10. CASE RetractMemory
  <2>1. PICK r, states, kind : r = Target.revision /\ states = {"active"} /\ kind = "MemoryRetracted"
    OBVIOUS
  <2>2. SinglePlanned(m, r, states) /\ Committed(m, PlanSingle(kind, r), no)
    BY <1>3, <1>4, <1>10, <2>1 DEF RetractMemory
  <2>3. states \subseteq Deletable
    BY <2>1 DEF Deletable
  <2> QED
    BY <1>3, <1>8, <2>1, <2>2, <2>3
<1>11. CASE DeleteMemory
  <2>1. PICK r, states, kind : r = Len(items[m].revisions) /\ states = Deletable /\ kind = "MemoryDeleted"
    OBVIOUS
  <2>2. SinglePlanned(m, r, states) /\ Committed(m, PlanSingle(kind, r), no)
    BY <1>3, <1>4, <1>11, <2>1 DEF DeleteMemory
  <2> QED
    BY <1>3, <1>8, <2>1, <2>2
<1> QED
  BY <1>3, <1>6, <1>7, <1>9, <1>10, <1>11 DEF TargetedStep

\* A command that creates a memory.
LEMMA CreationAppends ==
  ASSUME ViewInv, RememberMemory \/ ImportMemory
  PROVE  /\ intents # <<>> /\ Head(intents).kind \in {"remember", "import"}
         /\ \E m \in Memories : Appended(m) /\ \E batch, contradicts : Committed(m, batch, contradicts)
<1>1. LedgerOK
  BY DEF ViewInv
<1>2. ASSUME NEW kind \in {"remember", "import"}, NEW draft \in Drafts, Create(kind, draft)
      PROVE  /\ intents # <<>> /\ Head(intents).kind \in {"remember", "import"}
             /\ \E m \in Memories : Appended(m) /\ \E batch, contradicts : Committed(m, batch, contradicts)
  <2>1. PICK m \in Memories : \E verdict, contradicts :
             CreatePlanned(m, verdict) /\ Committed(m, PlanCreate(m, Workspace, draft, verdict), contradicts)
    BY <1>2 DEF Create
  <2>2. PICK verdict, contradicts :
             CreatePlanned(m, verdict) /\ Committed(m, PlanCreate(m, Workspace, draft, verdict), contradicts)
    BY <2>1
  <2>3. Workspace \in Scopes
    BY DEF Scopes
  <2>4. AppendMemoryBatch(m, PlanCreate(m, Workspace, draft, verdict)) /\ Stamp(m, contradicts)
    BY <2>2 DEF Committed
  <2>5. Appended(m)
    BY <1>1, <2>2, <2>3, <2>4, CreateAppends
  <2> QED
    BY <1>2, <2>2, <2>5 DEF Create, Pending
<1>3. PICK no, none, imported : no = FALSE /\ none = 0 /\ imported = "import"
  OBVIOUS
<1>4. UserDraft(0) \in Drafts
  BY UserDraftIs
<1>5. UntrustedDraft("import", NoSession, FALSE) \in Drafts
  <2>1. no \in BOOLEAN /\ imported \in Origins /\ NoSession \in Sources
    BY <1>3 DEF Origins, Sources
  <2>2. UntrustedDraft(imported, NoSession, no) \in Drafts
    BY <2>1, UntrustedDraftIs
  <2> QED
    BY <1>3, <2>2
<1> QED
  BY <1>2, <1>4, <1>5 DEF RememberMemory, ImportMemory

\* A committed command keeps the invariant, answered or not.
LEMMA CommittedKeeps ==
  ASSUME ViewInv, NEW m, Appended(m), NEW batch, NEW contradicts, Committed(m, batch, contradicts), intents # <<>>,
         Head(intents).kind # "query"
  PROVE  ViewInv'
<1>1. /\ LedgerOK /\ HostOK(FreshRows) /\ ChannelsOK(FreshRows) /\ Published
      /\ WaitingOK
  BY DEF ViewInv
<1>2. LedgerNext /\ mutationGeneration' = mutationGeneration + 1 /\ mutationGeneration \in Nat /\ LedgerOK'
  BY <1>1, AppendKeeps DEF LedgerNext
<1>3. UNCHANGED <<here, view, shown, workspace>>
  BY DEF Committed
<1>4. here' \in BOOLEAN /\ view' \in [generation : Int, query : Queries]
  BY <1>1, <1>3 DEF HostOK
<1>5. CASE PublishMemories /\ Reply("committed")
  <2>1. HostNext
    BY <1>2, <1>4, <1>5, PublishKeeps
  <2>2. ChannelsNext(FreshRows) /\ WaitingNext
    <3>1. \E result \in {"committed", "rejected"} : Reply(result)
      BY <1>5
    <3> QED
      BY <1>1, <1>3, <3>1, AnswerKeeps
  <2> QED
    BY <1>2, <2>1, <2>2, Assembled
<1>6. CASE UNCHANGED <<published, intents, outcomes>>
  <2>1. HostNext
    BY <1>1, <1>2, <1>3, <1>4, <1>6, UnpublishedKeeps
  <2>2. ChannelsNext(FreshRows) /\ WaitingNext
    BY <1>1, <1>3, <1>6, AnswerKeeps
  <2> QED
    BY <1>2, <2>1, <2>2, Assembled
<1> QED
  BY <1>5, <1>6 DEF Committed

\* A step that leaves the ledger, the page and the view alone.
LEMMA QuietKeeps ==
  ASSUME ViewInv, LedgerStill, published' = published, view' = view, here' \in BOOLEAN,
         ChannelsNext(FreshRows), WaitingNext
  PROVE  ViewInv'
<1>1. LedgerOK /\ HostOK(FreshRows) /\ Published
  BY DEF ViewInv
<1>2. LedgerOK' /\ FreshRows' = FreshRows /\ Tables' = Tables
  BY <1>1, StillKeeps
<1>3. mutationGeneration' = mutationGeneration /\ mutationGeneration \in Nat
  BY <1>1 DEF LedgerStill, memoryVars, LedgerOK
<1>4. LedgerNext
  BY <1>2 DEF LedgerNext
<1>5. HostNext
  BY <1>1, <1>2, <1>3, <1>4, UnpublishedKeeps
<1> QED
  BY <1>4, <1>5, Assembled

\* A proposal keeps the invariant, published or not.
LEMMA ProposalKeeps ==
  ASSUME ViewInv, NEW m, Appended(m), UNCHANGED <<here, view, intents, outcomes, shown, workspace>>,
         PublishMemories \/ UNCHANGED published
  PROVE  ViewInv'
<1>1. /\ LedgerOK /\ HostOK(FreshRows) /\ ChannelsOK(FreshRows) /\ Published
      /\ WaitingOK
  BY DEF ViewInv
<1>2. LedgerNext /\ mutationGeneration' = mutationGeneration + 1 /\ mutationGeneration \in Nat /\ LedgerOK'
  BY <1>1, AppendKeeps DEF LedgerNext
<1>3. here' \in BOOLEAN /\ view' \in [generation : Int, query : Queries]
  BY <1>1 DEF HostOK
<1>4. ASSUME PublishMemories PROVE HostNext
  BY <1>2, <1>3, <1>4, PublishKeeps
<1>5. HostNext
  BY <1>1, <1>2, <1>3, <1>4, UnpublishedKeeps
<1>6. ChannelsNext(FreshRows) /\ WaitingNext
  BY <1>1, AnswerKeeps
<1> QED
  BY <1>2, <1>5, <1>6, Assembled

\* The proposals of a run and of a compaction.
LEMMA ProposalAppends ==
  ASSUME ViewInv, (\E scope \in Scopes : PersistMemoryProposal(scope)) \/ CreateCompactionProposal
  PROVE  \E m \in Memories, contradicts \in BOOLEAN : Appended(m) /\ Stamp(m, contradicts)
<1>1. LedgerOK
  BY DEF ViewInv
<1>2. PICK yes, no, tool, compaction : yes = TRUE /\ no = FALSE /\ tool = "tool" /\ compaction = "compaction"
  OBVIOUS
<1>3. yes \in BOOLEAN /\ no \in BOOLEAN /\ tool \in Origins /\ compaction \in Origins /\ Session \in Sources /\ Session \in Scopes
  BY <1>2 DEF Origins, Sources, Scopes
<1>4. UntrustedDraft(tool, Session, yes) \in Drafts /\ UntrustedDraft(compaction, Session, no) \in Drafts
  BY <1>3, UntrustedDraftIs
<1>5. ASSUME NEW scope \in Scopes, PersistMemoryProposal(scope) PROVE \E m \in Memories, contradicts \in BOOLEAN : Appended(m) /\ Stamp(m, contradicts)
  <2>1. PICK m \in Memories, contradicts \in BOOLEAN :
             /\ CreatePlanned(m, "needs_review")
             /\ AppendMemoryBatch(m, PlanCreate(m, scope, UntrustedDraft(tool, Session, yes), "needs_review"))
             /\ Stamp(m, contradicts)
    BY <1>2, <1>5 DEF PersistMemoryProposal
  <2>2. PICK draft, verdict : draft = UntrustedDraft(tool, Session, yes) /\ verdict = "needs_review"
    OBVIOUS
  <2>3. /\ draft \in Drafts /\ CreatePlanned(m, verdict) /\ AppendMemoryBatch(m, PlanCreate(m, scope, draft, verdict))
        /\ Stamp(m, contradicts)
    BY <1>4, <2>1, <2>2
  <2> QED
    BY <1>1, <2>3, CreateAppends
<1>6. CASE CreateCompactionProposal
  <2>1. PICK m \in Memories :
             /\ CreatePlanned(m, "needs_review")
             /\ AppendMemoryBatch(m, PlanCreate(m, Session, UntrustedDraft(compaction, Session, no), "needs_review"))
             /\ Stamp(m, no)
    BY <1>2, <1>6 DEF CreateCompactionProposal
  <2>2. PICK draft, verdict : draft = UntrustedDraft(compaction, Session, no) /\ verdict = "needs_review"
    OBVIOUS
  <2>3. /\ draft \in Drafts /\ CreatePlanned(m, verdict) /\ AppendMemoryBatch(m, PlanCreate(m, Session, draft, verdict))
        /\ Stamp(m, no)
    BY <1>4, <2>1, <2>2
  <2> QED
    BY <1>1, <1>3, <2>3, CreateAppends
<1> QED
  BY <1>5, <1>6

\* The failed page of a query.
LEMMA FailureKeeps ==
  ASSUME ViewInv, QueryFails
  PROVE  HostNext
<1>1. LedgerOK /\ HostOK(FreshRows) /\ ChannelsOK(FreshRows) /\ Published
  BY DEF ViewInv
<1>2. PICK head : head = Head(intents) /\ head \in Commands(FreshRows)
  BY <1>1, Rest DEF QueryFails, Pending, ChannelsOK
<1>3. head.view \in Int /\ head.query \in Queries
  BY <1>2 DEF Commands
<1>4. /\ view' = [generation |-> head.view, query |-> head.query]
      /\ published' = FailedPage(head.view, published.ledger, head.query)
      /\ LedgerStill /\ here' = here
  BY <1>2 DEF QueryFails, LedgerStill
<1>5. view' \in [generation : Int, query : Queries]
  BY <1>3, <1>4
<1>6. LedgerOK' /\ FreshRows' = FreshRows
  BY <1>1, <1>4, StillKeeps
<1>7. mutationGeneration' = mutationGeneration
  BY <1>4 DEF LedgerStill, memoryVars
<1>8. PICK no, empty, none, end : no = FALSE /\ empty = <<>> /\ none = NoCursor /\ end = "failed"
  OBVIOUS
<1>9. no \in BOOLEAN /\ empty \in Seq(FreshRows) /\ none \in Cursors
  <2>1. no \in BOOLEAN
    BY <1>8
  <2>2. empty \in Seq(FreshRows)
    BY <1>8
  <2>3. none \in Cursors
    BY <1>8 DEF NoCursor, Cursors
  <2> QED
    BY <2>1, <2>2, <2>3
<1>10. published' = [view |-> head.view, ledger |-> published.ledger, state |-> end, rows |-> empty,
                     stale |-> no, next |-> none, query |-> head.query, open |-> here]
  BY <1>4, <1>8 DEF FailedPage
<1>11. published.ledger \in Nat /\ here \in BOOLEAN
  BY <1>1 DEF HostOK, Pages
<1>12. published' \in Pages(FreshRows')
  BY <1>3, <1>6, <1>8, <1>9, <1>10, <1>11 DEF Pages
<1>13. published'.rows = <<>> /\ published'.state = "failed" /\ published'.ledger = published.ledger
       /\ published'.view = head.view /\ published'.query = head.query
  BY <1>8, <1>10
<1>14. Matched(published)'
  BY <1>13 DEF Matched
<1>15. Published'
  BY <1>1, <1>4, <1>7, <1>13, <1>14 DEF Published
<1> QED
  BY <1>4, <1>5, <1>11, <1>12, <1>15 DEF HostNext

\* The steps of the coordinator keep the invariant.
LEMMA CoordinatorKeeps ==
  ASSUME ViewInv, CoordinatorStep
  PROVE  ViewInv'
<1>1. /\ LedgerOK /\ HostOK(FreshRows) /\ ChannelsOK(FreshRows) /\ Published
      /\ WaitingOK /\ here \in BOOLEAN
  BY DEF ViewInv, HostOK
<1>2. CASE QueryMemories
  <2>1. intents # <<>> /\ Head(intents).kind = "query" /\ LedgerStill /\ here' = here /\ UNCHANGED <<shown, workspace>>
    BY <1>2 DEF QueryMemories, Pending, LedgerStill, clientVars
  <2>2. view' = [generation |-> Head(intents).view, query |-> Head(intents).query] /\ PublishMemories /\ Reply("committed")
    BY <1>2 DEF QueryMemories
  <2>3. LedgerOK' /\ LedgerNext
    BY <1>1, <2>1, StillKeeps DEF LedgerNext
  <2>4. Head(intents) \in Commands(FreshRows)
    BY <1>1, <2>1, Rest DEF ChannelsOK
  <2>5. view' \in [generation : Int, query : Queries]
    BY <2>2, <2>4 DEF Commands
  <2>6. HostNext
    BY <1>1, <2>1, <2>2, <2>3, <2>5, PublishKeeps
  <2>7. \E result \in {"committed", "rejected"} : Reply(result)
    BY <2>2
  <2>8. ChannelsNext(FreshRows) /\ WaitingNext
    BY <1>1, <2>1, <2>2, <2>7, AnswerKeeps
  <2> QED
    BY <2>3, <2>6, <2>8, Assembled
<1>3. CASE QueryFails
  <2>1. intents # <<>> /\ Head(intents).kind = "query" /\ LedgerStill /\ here' = here /\ UNCHANGED <<shown, workspace>>
    BY <1>3 DEF QueryFails, Pending, LedgerStill, clientVars
  <2>2. view' = [generation |-> Head(intents).view, query |-> Head(intents).query] /\ Reply("rejected")
    BY <1>3 DEF QueryFails
  <2>3. LedgerOK' /\ LedgerNext
    BY <1>1, <2>1, StillKeeps DEF LedgerNext
  <2>4. HostNext
    BY <1>3, FailureKeeps
  <2>5. \E result \in {"committed", "rejected"} : Reply(result)
    BY <2>2
  <2>6. ChannelsNext(FreshRows) /\ WaitingNext
    BY <1>1, <2>1, <2>2, <2>5, AnswerKeeps
  <2> QED
    BY <2>3, <2>4, <2>6, Assembled
<1>4. CASE RememberMemory \/ ImportMemory
  <2>1. intents # <<>> /\ Head(intents).kind # "query"
    BY <1>4, CreationAppends
  <2>2. PICK m, batch, contradicts : Appended(m) /\ Committed(m, batch, contradicts)
    BY <1>4, CreationAppends
  <2> QED
    BY <2>1, <2>2, CommittedKeeps
<1>5. CASE TargetedStep
  <2>1. PICK m : m = Target.memory /\ Targets(m)
    BY <1>5, TargetedAppends
  <2>2. intents # <<>> /\ Appended(m) /\ Head(intents).kind # "query"
    BY <2>1 DEF Targets, Targeted
  <2>3. PICK batch, contradicts : Committed(m, batch, contradicts)
    BY <2>1 DEF Targets
  <2> QED
    BY <2>2, <2>3, CommittedKeeps
<1>6. CASE ExportMemory \/ MutationRefused
  <2>1. intents # <<>> /\ Head(intents).kind # "query" /\ \E result \in {"committed", "rejected"} : Reply(result)
    BY <1>6 DEF ExportMemory, MutationRefused, Pending
  <2>2. UNCHANGED <<hostVars, clientVars>>
    BY <1>6 DEF ExportMemory, MutationRefused
  <2>3. LedgerStill /\ published' = published /\ view' = view /\ here' = here /\ UNCHANGED <<shown, workspace>>
    BY <2>2 DEF hostVars, clientVars, LedgerStill
  <2>4. ChannelsNext(FreshRows) /\ WaitingNext
    BY <1>1, <2>1, <2>3, AnswerKeeps
  <2> QED
    BY <1>1, <2>3, <2>4, QuietKeeps
<1>7. CASE (\E scope \in Scopes : PersistMemoryProposal(scope)) \/ CreateCompactionProposal
  <2>1. PICK m \in Memories : Appended(m)
    BY <1>7, ProposalAppends
  <2>2. UNCHANGED <<here, view, intents, outcomes, shown, workspace>> /\ (PublishMemories \/ UNCHANGED published)
    BY <1>7 DEF PersistMemoryProposal, CreateCompactionProposal
  <2> QED
    BY <2>1, <2>2, ProposalKeeps
<1>8. CASE OpenSession
  <2>1. LedgerStill /\ published' = published /\ view' = view /\ UNCHANGED <<shown, workspace, intents, outcomes>>
    BY <1>8 DEF OpenSession, LedgerStill
  <2>2. here' \in BOOLEAN
    BY <1>8 DEF OpenSession
  <2>3. ChannelsNext(FreshRows) /\ WaitingNext
    BY <1>1, <2>1, AnswerKeeps
  <2> QED
    BY <2>1, <2>2, <2>3, QuietKeeps
<1>9. CASE DeleteSession
  <2>1. Erased
    BY <1>1, <1>9, DeletionErases
  <2>2. LedgerNext /\ mutationGeneration' = mutationGeneration + 1 /\ mutationGeneration \in Nat
    BY <1>1, <2>1, ErasureKeeps DEF LedgerNext
  <2>3. published' = published /\ view' = view /\ UNCHANGED <<shown, workspace, intents, outcomes>>
    BY <1>9 DEF DeleteSession
  <2>4. here' \in BOOLEAN
    BY <1>9 DEF DeleteSession
  <2>5. HostNext
    BY <1>1, <2>2, <2>3, <2>4, UnpublishedKeeps
  <2>6. ChannelsNext(FreshRows) /\ WaitingNext
    BY <1>1, <2>3, AnswerKeeps
  <2> QED
    BY <2>2, <2>5, <2>6, Assembled
<1> QED
  BY <1>2, <1>3, <1>4, <1>5, <1>6, <1>7, <1>8, <1>9 DEF CoordinatorStep, TargetedStep

\* The steps of the workspace keep the invariant.
LEMMA WorkspaceKeeps ==
  ASSUME ViewInv, QueryStep \/ ReviewStep \/ ReceiveStep
  PROVE  ViewInv'
<1>1. PICK R : R = FreshRows
  OBVIOUS
<1>2. /\ HostOK(R) /\ ChannelsOK(R) /\ WaitingOK
      /\ published.view = view.generation /\ published.query = view.query /\ here \in BOOLEAN
  BY <1>1 DEF ViewInv, Published, HostOK
<1>3. ChannelsNext(R) /\ WaitingNext /\ UNCHANGED hostVars
  BY <1>2, QueriesKeep, ReviewsKeep, ReceivesKeep
<1>4. LedgerStill /\ published' = published /\ view' = view /\ here' \in BOOLEAN
  BY <1>2, <1>3 DEF hostVars, LedgerStill
<1> QED
  BY <1>1, <1>3, <1>4, QuietKeeps

\* So does a step that changes nothing.
LEMMA StutterKeeps ==
  ASSUME ViewInv, UNCHANGED vars
  PROVE  ViewInv'
<1>1. /\ ChannelsOK(FreshRows) /\ WaitingOK /\ here \in BOOLEAN
  BY DEF ViewInv, HostOK
<1>2. LedgerStill /\ published' = published /\ view' = view /\ here' \in BOOLEAN /\ UNCHANGED <<shown, workspace, intents, outcomes>>
  BY <1>1 DEF vars, viewVars, LedgerStill
<1>3. ChannelsNext(FreshRows) /\ WaitingNext
  BY <1>1, <1>2, AnswerKeeps
<1> QED
  BY <1>2, <1>3, QuietKeeps

-----------------------------------------------------------------------------
(* The first state. *)

\* A memory as it was created before the coordinator started.
LEMMA SeedIs ==
  ASSUME NEW m, NEW seed \in {"none", "explicit", "contradicting", "tool", "compaction"},
         NEW batch, batch = SeedBatch(m, seed), NEW after, after = Projected(Absent, batch, Len(batch))
  PROVE  ItemOK(after)
<1>1. PICK item : item = Absent
  OBVIOUS
<1>2. ItemOK(item) /\ item.sequence = 0
  <2>1. PICK scope, lifecycle, none, revisions, fts :
             scope = NoSession /\ lifecycle = "absent" /\ none = 0 /\ revisions = <<>> /\ fts = {}
    OBVIOUS
  <2>2. item = Item(scope, lifecycle, none, none, none, revisions, fts) /\ item.sequence = 0
    BY <1>1, <2>1 DEF Absent, Item
  <2>3. /\ scope \in {Workspace, Session, NoSession} /\ lifecycle \in Lifecycles /\ none \in Nat
        /\ revisions \in Seq(Revisions) /\ Len(revisions) = none
    BY <2>1 DEF Lifecycles
  <2>4. item = Item(scope, lifecycle, none, Len(revisions), none, revisions, fts)
    BY <2>2, <2>3
  <2>5. (none = 0 => item = Absent) /\ ~(none > 0)
    BY <1>1, <2>1
  <2>6. \E current, index : item = Item(scope, lifecycle, none, Len(revisions), current, revisions, index)
    BY <2>4
  <2>7. ItemOK(item)
    BY <2>3, <2>5, <2>6 DEF ItemOK
  <2> QED
    BY <2>2, <2>7
<1>3. CASE seed = "none"
  <2>1. batch = <<>>
    BY <1>3 DEF SeedBatch
  <2>2. Len(batch) = 0
    BY <2>1
  <2>3. after = item
    BY <1>1, <2>2 DEF Projected
  <2> QED
    BY <1>2, <2>3
<1>4. ASSUME NEW scope \in Scopes, NEW draft \in Drafts, NEW verdict, batch = PlanCreate(m, scope, draft, verdict)
      PROVE  ItemOK(after)
  <2>1. /\ BatchOK(batch) /\ batch[1].kind = "MemoryCreated"
        /\ \A i \in DOMAIN batch : i = 1 \/ batch[i].kind \in {"RevisionValidated", "RevisionActivated"}
    BY <1>4, CreatePlanOK
  <2>2. ASSUME NEW i \in DOMAIN batch PROVE Placed(Projected(item, batch, i - 1), batch[i])
    <3>1. CASE i = 1
      <4>1. i - 1 = 0
        BY <3>1
      <4>2. Projected(item, batch, i - 1) = item
        BY <4>1 DEF Projected
      <4> QED
        BY <1>1, <2>1, <3>1, <4>2 DEF Placed
    <3>2. CASE i # 1
      BY <2>1, <2>2, <3>2 DEF Placed
    <3> QED
      BY <3>1, <3>2
  <2>3. after = Projected(item, batch, Len(batch))
    BY <1>1
  <2> QED
    BY <1>2, <2>1, <2>2, <2>3, BatchApplied
<1>5. PICK yes, no, tool, compaction, none : yes = TRUE /\ no = FALSE /\ tool = "tool" /\ compaction = "compaction" /\ none = 0
  OBVIOUS
<1>6. /\ yes \in BOOLEAN /\ no \in BOOLEAN /\ tool \in Origins /\ compaction \in Origins /\ Session \in Sources
      /\ Session \in Scopes /\ Workspace \in Scopes
  BY <1>5 DEF Origins, Sources, Scopes
<1>7. UntrustedDraft(tool, Session, yes) \in Drafts /\ UntrustedDraft(compaction, Session, no) \in Drafts
  BY <1>6, UntrustedDraftIs
<1>8. none \in Nat
  BY <1>5
<1>9. UserDraft(none) \in Drafts
  BY <1>8, UserDraftIs
<1>10. CASE seed = "explicit"
  <2>1. batch = PlanCreate(m, Workspace, UserDraft(none), "accepted")
    BY <1>5, <1>10 DEF SeedBatch
  <2> QED
    BY <1>4, <1>6, <1>9, <2>1
<1>11. CASE seed = "contradicting"
  <2>1. batch = PlanCreate(m, Workspace, UserDraft(none), "needs_review")
    BY <1>5, <1>11 DEF SeedBatch
  <2> QED
    BY <1>4, <1>6, <1>9, <2>1
<1>12. CASE seed = "tool"
  <2>1. batch = PlanCreate(m, Workspace, UntrustedDraft(tool, Session, yes), "needs_review")
    BY <1>5, <1>12 DEF SeedBatch
  <2> QED
    BY <1>4, <1>6, <1>7, <2>1
<1>13. CASE seed = "compaction"
  <2>1. batch = PlanCreate(m, Session, UntrustedDraft(compaction, Session, no), "needs_review")
    BY <1>5, <1>13 DEF SeedBatch
  <2> QED
    BY <1>4, <1>6, <1>7, <2>1
<1> QED
  BY <1>3, <1>10, <1>11, <1>12, <1>13

\* The ledger it starts with.
LEMMA SeededIs ==
  ASSUME Init
  PROVE  LedgerOK
<1>1. PICK start \in Starts : SeededLedger(start)
  BY DEF Init
<1>2. start \in [Memories -> [seed : {"none", "explicit", "contradicting", "tool", "compaction"}, at : 0..2]]
  BY SeedAssumption
<1>3. /\ ledger = [m \in Memories |-> SeedBatch(m, start[m].seed)]
      /\ items = [m \in Memories |-> Projected(Absent, ledger[m], Len(ledger[m]))]
      /\ mutationGeneration = Cardinality({m \in Memories : Exists(m)})
      /\ tombstones = {} /\ updated = [m \in Memories |-> start[m].at]
  BY <1>1 DEF SeededLedger
<1>4. ASSUME NEW m \in Memories PROVE ItemOK(items[m])
  <2>1. PICK seed, batch, after : seed = start[m].seed /\ batch = ledger[m] /\ after = items[m]
    OBVIOUS
  <2>2. seed \in {"none", "explicit", "contradicting", "tool", "compaction"}
    BY <1>2, <2>1
  <2>3. batch = SeedBatch(m, seed) /\ after = Projected(Absent, batch, Len(batch))
    BY <1>3, <2>1
  <2> QED
    BY <2>1, <2>2, <2>3, SeedIs
<1>5. mutationGeneration \in Nat
  BY <1>3, MemoryAssumption, FS_Subset, FS_CardinalityType
<1>6. updated \in [Memories -> Nat]
  BY <1>2, <1>3
<1>7. clock \in Nat
  BY DEF Init
<1> QED
  BY <1>3, <1>4, <1>5, <1>6, <1>7 DEF LedgerOK

\* The invariant holds at the start.
LEMMA InitHolds == Init => ViewInv
<1> SUFFICES ASSUME Init PROVE ViewInv
  OBVIOUS
<1>1. LedgerOK
  BY SeededIs
<1>2. /\ view = [generation |-> 0, query |-> DefaultQuery] /\ intents = <<>> /\ outcomes = <<>>
      /\ published = LoadMemoryView(view, Tables, here, mutationGeneration) /\ shown = published
      /\ workspace = NoWorkspace
  BY DEF Init
<1>3. here \in BOOLEAN
  BY DEF Init
<1>4. Sortable(Tables) /\ \A record \in Tables : RecordOK(record) /\ RowOf(record) \in FreshRows
  BY <1>1, TablesHold DEF TablesOK
<1>5. PICK R, tables, g : R = FreshRows /\ tables = Tables /\ g = mutationGeneration
  OBVIOUS
<1>6. g \in Nat
  BY <1>1, <1>5 DEF LedgerOK
<1>7. NoWorkspace \in Workspaces(R) /\ ~NoWorkspace.mounted /\ DefaultQuery \in Queries
  BY NoWorkspaceIs
<1>8. view \in [generation : Int, query : Queries]
  BY <1>2, <1>7
<1>9. /\ published \in Pages(R) /\ Matched(published)
      /\ published.view = view.generation /\ published.query = view.query /\ published.ledger = g /\ published.state = "ready"
      /\ published.rows = RowsOf(PageFor(view.query, tables, here)) /\ published.open = here
  <2>1. PICK page, v, open : page = published /\ v = view /\ open = here
    OBVIOUS
  <2>2. /\ page = LoadMemoryView(v, tables, open, g) /\ v \in [generation : Int, query : Queries] /\ open \in BOOLEAN
        /\ Sortable(tables) /\ \A record \in tables : RecordOK(record) /\ RowOf(record) \in R
    BY <1>2, <1>3, <1>4, <1>5, <1>8, <2>1
  <2>3. /\ page \in Pages(R) /\ Matched(page)
        /\ page.view = v.generation /\ page.query = v.query /\ page.ledger = g /\ page.state = "ready"
        /\ page.rows = RowsOf(PageFor(v.query, tables, open)) /\ page.open = open
    BY <1>6, <2>2, PageLoaded
  <2> QED
    BY <2>1, <2>3
<1>10. Published
  BY <1>5, <1>6, <1>9 DEF Published
<1>11. HostOK(FreshRows)
  BY <1>3, <1>5, <1>8, <1>9 DEF HostOK
<1>12. ChannelsOK(FreshRows)
  <2>1. intents \in Seq(Commands(R)) /\ outcomes \in Seq(Outcomes)
    BY <1>2
  <2> QED
    BY <1>2, <1>5, <1>7, <1>9, <2>1 DEF ChannelsOK
<1>13. ~workspace.mounted
  BY <1>2, <1>7
<1> QED
  BY <1>1, <1>10, <1>11, <1>12, <1>13 DEF ViewInv, WaitingOK

\* The invariant is kept by every step.
LEMMA NextKeeps == ViewInv /\ [Next]_vars => ViewInv'
<1> SUFFICES ASSUME ViewInv, [Next]_vars PROVE ViewInv'
  OBVIOUS
<1>1. CASE UNCHANGED vars
  BY <1>1, StutterKeeps
<1>2. CASE CoordinatorStep
  BY <1>2, CoordinatorKeeps
<1>3. CASE QueryStep \/ ReviewStep \/ ReceiveStep
  BY <1>3, WorkspaceKeeps
<1> QED
  BY <1>1, <1>2, <1>3 DEF Next

-----------------------------------------------------------------------------
(* The theorems. *)

\* The rows that are anywhere - on the published page, on display, under
\* review, in a command - are no newer than the ledger, and one of the ledger's
\* present sequence shows what the ledger has (load_memory_view,
\* expected_last_sequence); a page carries the generation and the query it was
\* asked for, and the last query under way is the mounted workspace's own.
THEOREM ViewInvariant == Spec => []ViewInv
  BY InitHolds, NextKeeps, PTL DEF Spec

\* A page on display is the one that was asked for, of the ledger it names
\* (query_memories, load_memory_view, view_generation).  A workspace mounted
\* while something was on its way to an earlier one may show an answer to the
\* earlier one's query, but only until its own arrives.
THEOREM PagesAreAsAsked == Spec => []PageIsWhatWasAsked
<1>1. ViewInv => PageIsWhatWasAsked
  <2> SUFFICES ASSUME ViewInv PROVE PageIsWhatWasAsked
    OBVIOUS
  <2>1. RowsMatchQuery
    BY DEF ViewInv, Published, Matched, RowsMatchQuery
  <2>2. GenerationIdentifiesPage
    BY DEF ViewInv, Published, GenerationIdentifiesPage
  <2>3. ASSUME Answered(workspace, shown)
        PROVE  shown.query = workspace.query \/ (workspace.early /\ AnswerIsDue)
    <3>1. workspace.mounted /\ shown.view = workspace.requested
      BY <2>3 DEF Answered
    <3>2. CASE ~workspace.early
      BY <3>1, <3>2 DEF ViewInv, WaitingOK, Waiting
    <3>3. CASE workspace.early /\ ~AnswerIsDue
      <4>1. (\A i \in DOMAIN intents : intents[i] # QueryCommand(workspace)) /\ shown = MapProjection(published)
        BY <3>3 DEF AnswerIsDue, ToSet
      <4>2. view.query = workspace.query
        BY <3>1, <4>1 DEF ViewInv, WaitingOK, Asked
      <4>3. published \in Pages(FreshRows) /\ published.query = view.query
        BY DEF ViewInv, HostOK, Published
      <4>4. shown.query = published.query
        BY <4>1, <4>3, MappedIs
      <4> QED
        BY <4>2, <4>3, <4>4
    <3> QED
      BY <3>2, <3>3
  <2> QED
    BY <2>1, <2>2, <2>3 DEF PageIsWhatWasAsked, AnswerFitsQuery
<1> QED
  BY <1>1, ViewInvariant, PTL

\* A step that changes a memory and takes a command that names a row is one of
\* the commands done to a memory.
LEMMA OnlyTargetsChange ==
  ASSUME ViewInv, Next, items' # items, Len(intents') < Len(intents), Head(intents).row # <<>>
  PROVE  TargetedStep
<1>1. LedgerOK /\ ChannelsOK(FreshRows) /\ FreshRows \subseteq Rows
  BY DEF ViewInv, FreshRows
<1>2. CASE QueryStep \/ ReviewStep \/ ReceiveStep
  <2>1. UNCHANGED hostVars
    <3>1. PICK R : R = FreshRows
      OBVIOUS
    <3>2. /\ HostOK(R) /\ ChannelsOK(R) /\ WaitingOK
          /\ published.view = view.generation /\ published.query = view.query
      BY <3>1 DEF ViewInv, Published
    <3> QED
      BY <1>2, <3>2, QueriesKeep, ReviewsKeep, ReceivesKeep
  <2> QED
    BY <2>1 DEF hostVars, memoryVars
<1>3. CASE QueryMemories \/ QueryFails \/ ExportMemory \/ MutationRefused \/ OpenSession
  BY <1>3 DEF QueryMemories, QueryFails, ExportMemory, MutationRefused, OpenSession, hostVars, memoryVars
<1>4. CASE (\E scope \in Scopes : PersistMemoryProposal(scope)) \/ CreateCompactionProposal \/ DeleteSession
  <2>1. intents' = intents
    BY <1>4 DEF PersistMemoryProposal, CreateCompactionProposal, DeleteSession
  <2>2. Len(intents) \in Nat
    BY <1>1 DEF ChannelsOK
  <2> QED
    BY <2>1, <2>2
<1>5. CASE RememberMemory \/ ImportMemory
  <2>1. intents # <<>> /\ Head(intents).kind \in {"remember", "import"}
    BY <1>5, CreationAppends
  <2>2. Head(intents).kind \in Targeted
    BY <1>1, <2>1, TargetIs
  <2> QED
    BY <2>1, <2>2 DEF Targeted
<1> QED
  BY <1>2, <1>3, <1>4, <1>5 DEF Next, CoordinatorStep, TargetedStep

\* A change the user submitted is applied only to the revision, in the state
\* and with the content, that was on display when it was reviewed, however late
\* it arrives and whatever was done to the ledger meanwhile
\* (expected_last_sequence, validate_snapshot).
THEOREM ReviewedIsChanged == Spec => ChangesWhatWasReviewed
<1>1. ASSUME ViewInv, Next, items' # items, Len(intents') < Len(intents), Head(intents).row # <<>>
      PROVE  /\ Target.status = EffectiveStatus(Record(Target.memory))
             /\ Target.revision = items[Target.memory].latest
             /\ Target.content = HasContent(Target.memory, Target.revision)
  <2>1. Targets(Target.memory)
    BY <1>1, OnlyTargetsChange, TargetedAppends
  <2>2. /\ intents # <<>> /\ Head(intents).kind \in Targeted
        /\ Target.sequence = items[Target.memory].sequence /\ Target.memory \notin tombstones
    BY <2>1 DEF Targets, VersionHolds, Appended
  <2>3. ChannelsOK(FreshRows) /\ FreshRows \subseteq Rows
    BY <1>1 DEF ViewInv, FreshRows
  <2>4. Target \in FreshRows
    BY <2>2, <2>3, TargetIs
  <2> QED
    BY <2>2, <2>4 DEF FreshRows, Fresh
<1>2. ViewInv /\ [Next]_vars =>
        [(items' # items /\ Len(intents') < Len(intents) /\ Head(intents).row # <<>>) =>
           /\ Target.status = EffectiveStatus(Record(Target.memory))
           /\ Target.revision = items[Target.memory].latest
           /\ Target.content = HasContent(Target.memory, Target.revision)]_vars
  BY <1>1
<1> QED
  BY <1>2, ViewInvariant, PTL DEF Spec, ChangesWhatWasReviewed

-----------------------------------------------------------------------------
(* The export that precedes a deletion. *)

\* The cursors an export asks from.
Boundaries == [updated : Nat, memory : Memories \cup {0}]

\* What an export has yet to write.
Left(before) == {a \in Tables : a.item.scope = Session /\ Past(a, before)}
\* ... and their identities.
LeftMemories == [before \in Boundaries |-> {a.memory : a \in Left(before)}]

\* One page of it.
ExportPage(before) == InspectMemoryPage(Tables, {Session}, {}, FALSE, before, ExportPageSize)
PageMemories(before) == {ExportPage(before).records[i].memory : i \in DOMAIN ExportPage(before).records}
Done(before) == Len(ExportPage(before).records) < ExportPageSize
Following(before) == CursorOf(Last(ExportPage(before).records))

\* The pages, read from a function that has the later ones.
Exporting(f) ==
    f = [before \in Boundaries |-> PageMemories(before) \cup (IF Done(before) THEN {} ELSE f[Following(before)])]

\* A page writes the next of what is left, and what is left after it is less.
LEMMA ExportPageIs ==
  ASSUME LedgerOK, NEW before \in Boundaries
  PROVE  /\ PageMemories(before) \subseteq {a.memory : a \in Left(before)}
         /\ Done(before) => {a.memory : a \in Left(before)} \subseteq PageMemories(before)
         /\ ~Done(before) =>
               /\ Following(before) \in Boundaries /\ Left(Following(before)) \subseteq Left(before)
               /\ Cardinality(Left(Following(before))) < Cardinality(Left(before))
               /\ \A a \in Left(before) : a.memory \in PageMemories(before) \/ a \in Left(Following(before))
<1>1. PICK tables, scopes, statuses, literal, limit :
         tables = Tables /\ scopes = {Session} /\ statuses = {} /\ literal = FALSE /\ limit = ExportPageSize
  OBVIOUS
<1>2. Sortable(tables) /\ (\A record \in tables : RecordOK(record)) /\ limit \in Nat \ {0}
  BY <1>1, TablesHold, PageAssumption DEF TablesOK
<1>3. PICK page, matching : page = ExportPage(before) /\ matching = Matching(tables, scopes, statuses, literal, before)
  OBVIOUS
<1>4. page = InspectMemoryPage(tables, scopes, statuses, literal, before, limit)
  BY <1>1, <1>3 DEF ExportPage
<1>5. /\ page.records \in Seq(matching) /\ page.more \in BOOLEAN
      /\ Len(page.records) <= limit
      /\ page.more => Len(page.records) = limit
      /\ \A a \in matching : \/ \E i \in 1..Len(page.records) : page.records[i] = a
                             \/ page.more /\ Precedes(CursorOf(a), CursorOf(page.records[Len(page.records)]))
  BY <1>2, <1>3, <1>4, PageIs
<1>6. matching = Left(before)
  <2>1. \A a : MatchesQuery(a, scopes, statuses, literal) <=> a.item.scope = Session
    BY <1>1 DEF MatchesQuery, EffectiveStatusFilter
  <2> QED
    BY <1>1, <1>3, <2>1 DEF Matching, Left
<1>7. PICK records, size : records = page.records /\ size = Len(records)
  OBVIOUS
<1>8. records \in Seq(matching) /\ DOMAIN records = 1..size /\ size \in Nat /\ \A i \in 1..size : records[i] \in matching
  BY <1>5, <1>7
<1>9. PageMemories(before) = {records[i].memory : i \in 1..size} /\ (Done(before) <=> size < limit)
  BY <1>1, <1>3, <1>7, <1>8 DEF PageMemories, Done
<1>10. PageMemories(before) \subseteq {a.memory : a \in Left(before)}
  BY <1>6, <1>8, <1>9
<1>11. ASSUME Done(before), NEW a \in Left(before) PROVE a.memory \in PageMemories(before)
  <2>1. ~page.more
    BY <1>5, <1>7, <1>8, <1>9, <1>11, <1>2
  <2>2. PICK i \in 1..size : records[i] = a
    BY <1>5, <1>6, <1>7, <2>1
  <2> QED
    BY <1>9, <2>2
<1>12. ASSUME ~Done(before)
       PROVE  /\ Following(before) \in Boundaries /\ Left(Following(before)) \subseteq Left(before)
              /\ Cardinality(Left(Following(before))) < Cardinality(Left(before))
              /\ \A a \in Left(before) : a.memory \in PageMemories(before) \/ a \in Left(Following(before))
  <2>1. size > 0
    BY <1>2, <1>8, <1>9, <1>12
  <2>2. PICK last, next : last = records[size] /\ last \in matching /\ next = CursorOf(last)
    BY <1>8, <2>1
  <2>3. Following(before) = next
    BY <1>3, <1>7, <2>2 DEF Following, Last
  <2>4. last \in tables /\ Past(last, before) /\ last.updated \in Nat /\ last.memory \in Memories /\ last.memory \in Nat \ {0}
    BY <1>1, <1>2, <1>6, <2>2, MemoryAssumption DEF Left, RecordOK
  <2>5. next \in Boundaries /\ next.updated = last.updated /\ next.memory = last.memory /\ next # NoCursor
    BY <2>2, <2>4 DEF CursorOf, Boundaries, NoCursor
  <2>6. \A a \in tables : a.updated \in Nat /\ a.memory \in Nat
    BY <1>2 DEF Sortable
  <2>7. ASSUME NEW a \in Left(next) PROVE a \in Left(before) \ {last}
    <3>1. a \in tables /\ a.item.scope = Session /\ Precedes(CursorOf(a), next)
      BY <1>1, <2>5, <2>7 DEF Left, Past
    <3>2. a # last
      BY <2>2, <2>4, <3>1 DEF Precedes, CursorOf
    <3>3. Past(a, before)
      <4>1. CASE before = NoCursor
        BY <4>1 DEF Past
      <4>2. CASE before # NoCursor
        <5>1. Precedes(CursorOf(last), before) /\ before.updated \in Nat /\ before.memory \in Nat
          <6>1. Precedes(CursorOf(last), before)
            BY <2>4, <4>2 DEF Past
          <6>2. before.updated \in Nat /\ before.memory \in Memories \cup {0}
            BY DEF Boundaries
          <6>3. \A m \in Memories \cup {0} : m \in Nat
            BY MemoryAssumption
          <6>4. before.memory \in Nat
            BY <6>2, <6>3
          <6> QED
            BY <6>1, <6>2, <6>4
        <5>2. Precedes(CursorOf(a), before)
          BY <2>4, <2>5, <2>6, <3>1, <5>1 DEF Precedes, CursorOf
        <5> QED
          BY <5>2 DEF Past
      <4> QED
        BY <4>1, <4>2
    <3> QED
      BY <1>1, <3>1, <3>2, <3>3 DEF Left
  <2>8. IsFiniteSet(Left(before)) /\ last \in Left(before)
    BY <1>1, <1>2, <1>6, <2>2, FS_Subset DEF Left, Sortable
  <2>9. Cardinality(Left(next)) < Cardinality(Left(before))
    <3>1. IsFiniteSet(Left(before) \ {last}) /\ Cardinality(Left(before) \ {last}) = Cardinality(Left(before)) - 1
      BY <2>8, FS_RemoveElement
    <3>2. IsFiniteSet(Left(next)) /\ Cardinality(Left(next)) <= Cardinality(Left(before) \ {last})
      BY <2>7, <3>1, FS_Subset
    <3> QED
      BY <2>8, <3>1, <3>2, FS_CardinalityType
  <2>10. ASSUME NEW a \in Left(before) PROVE a.memory \in PageMemories(before) \/ a \in Left(next)
    <3>1. CASE \E i \in 1..size : records[i] = a
      BY <1>9, <3>1
    <3>2. CASE Precedes(CursorOf(a), CursorOf(records[size]))
      BY <1>1, <2>2, <2>10, <3>2 DEF Left, Past
    <3> QED
      BY <1>5, <1>6, <1>7, <3>1, <3>2
  <2> QED
    BY <2>3, <2>5, <2>7, <2>9, <2>10
<1> QED
  BY <1>10, <1>11, <1>12

\* What is left is a solution of the pages' equation.
LEMMA LeftIsExported ==
  ASSUME LedgerOK
  PROVE  Exporting(LeftMemories)
<1>1. ASSUME NEW before \in Boundaries
      PROVE  LeftMemories[before] = PageMemories(before) \cup (IF Done(before) THEN {} ELSE LeftMemories[Following(before)])
  <2>1. LeftMemories[before] = {a.memory : a \in Left(before)}
    BY DEF LeftMemories
  <2>2. PageMemories(before) \subseteq {a.memory : a \in Left(before)}
    BY ExportPageIs
  <2>3. CASE Done(before)
    <3>1. {a.memory : a \in Left(before)} \subseteq PageMemories(before)
      BY <2>3, ExportPageIs
    <3> QED
      BY <2>1, <2>2, <2>3, <3>1
  <2>4. CASE ~Done(before)
    <3>1. PICK next : next = Following(before)
      OBVIOUS
    <3>2. /\ next \in Boundaries /\ Left(next) \subseteq Left(before)
          /\ \A a \in Left(before) : a.memory \in PageMemories(before) \/ a \in Left(next)
      BY <2>4, <3>1, ExportPageIs
    <3>3. LeftMemories[next] = {a.memory : a \in Left(next)}
      BY <3>2 DEF LeftMemories
    <3>4. {a.memory : a \in Left(before)} = PageMemories(before) \cup {a.memory : a \in Left(next)}
      BY <2>2, <3>2
    <3> QED
      BY <2>1, <2>4, <3>1, <3>3, <3>4
  <2> QED
    BY <2>3, <2>4
<1>2. LeftMemories = [before \in Boundaries |-> LeftMemories[before]]
  BY DEF LeftMemories
<1> QED
  BY <1>1, <1>2 DEF Exporting

\* Of some numbers one is the smallest.
LEMMA SmallestIs ==
  ASSUME NEW N \in SUBSET Nat, N # {}
  PROVE  \E n \in N : \A k \in N : n <= k
<1>1. PICK R : R = {pair \in Nat \X Nat : pair[1] < pair[2]}
  OBVIOUS
<1>2. IsWellFoundedOn(R, Nat)
  BY <1>1, NatLessThanWellFounded DEF OpToRel
<1>3. PICK n \in N : \A k \in N : <<k, n>> \notin R
  BY <1>2, WFMin
<1>4. \A k \in N : ~(k < n)
  BY <1>1, <1>3
<1> QED
  BY <1>4

\* It is the only one: a smallest rest for which another had something else
\* would have its page and a smaller rest.
LEMMA ExportIsUnique ==
  ASSUME LedgerOK, NEW f, Exporting(f)
  PROVE  \A before \in Boundaries : f[before] = LeftMemories[before]
<1>1. PICK wrong : wrong = {before \in Boundaries : f[before] # LeftMemories[before]}
  OBVIOUS
<1>2. PICK sizes : sizes = {Cardinality(Left(before)) : before \in wrong}
  OBVIOUS
<1>3. \A before : IsFiniteSet(Left(before)) /\ Cardinality(Left(before)) \in Nat
  BY TablesHold, FS_Subset, FS_CardinalityType DEF TablesOK, Sortable, Left
<1>4. sizes \in SUBSET Nat
  BY <1>2, <1>3
<1>5. ASSUME wrong # {} PROVE FALSE
  <2>1. PICK n \in sizes : \A k \in sizes : n <= k
    <3>1. sizes # {}
      BY <1>2, <1>5
    <3> QED
      BY <1>4, <3>1, SmallestIs
  <2>2. PICK before \in wrong : n = Cardinality(Left(before))
    BY <1>2, <2>1
  <2>3. before \in Boundaries /\ f[before] # LeftMemories[before]
    BY <1>1, <2>2
  <2>4. f[before] = PageMemories(before) \cup (IF Done(before) THEN {} ELSE f[Following(before)])
    BY <2>3 DEF Exporting
  <2>5. LeftMemories[before] = PageMemories(before) \cup (IF Done(before) THEN {} ELSE LeftMemories[Following(before)])
    BY <2>3, LeftIsExported DEF Exporting
  <2>6. ~Done(before) /\ f[Following(before)] # LeftMemories[Following(before)]
    BY <2>3, <2>4, <2>5
  <2>7. PICK next : next = Following(before)
    OBVIOUS
  <2>8. next \in Boundaries /\ Cardinality(Left(next)) < Cardinality(Left(before))
    BY <2>3, <2>6, <2>7, ExportPageIs
  <2>9. Cardinality(Left(next)) \in sizes
    BY <1>1, <1>2, <2>6, <2>7, <2>8
  <2>10. n <= Cardinality(Left(next))
    BY <2>1, <2>9
  <2> QED
    BY <1>3, <2>2, <2>8, <2>10
<1> QED
  BY <1>1, <1>5

\* So an export writes every memory of the session.
LEMMA ExportIsComplete ==
  ASSUME LedgerOK, NEW m \in Memories, Exists(m), items[m].scope = Session
  PROVE  m \in ExportedFrom[NoCursor]
<1>1. ExportedFrom = CHOOSE f : Exporting(f)
  BY DEF ExportedFrom, Exporting, Boundaries, PageMemories, Done, Following, ExportPage
<1>2. \E f : Exporting(f)
  BY LeftIsExported
<1>3. Exporting(ExportedFrom)
  BY <1>1, <1>2
<1>4. NoCursor \in Boundaries
  BY DEF NoCursor, Boundaries
<1>5. ExportedFrom[NoCursor] = LeftMemories[NoCursor]
  BY <1>3, <1>4, ExportIsUnique
<1>6. Record(m) \in Left(NoCursor) /\ Record(m).memory = m
  BY DEF Left, Tables, Record, Past
<1> QED
  BY <1>4, <1>5, <1>6 DEF LeftMemories

\* Deleting a session leaves the content of every revision it erases in the
\* export written before it, however many pages that takes
\* (export_session_memories, delete_session).
THEOREM DeletedIsArchived == Spec => DeletionIsArchived
<1>1. ASSUME ViewInv, Next, tombstones' # tombstones, NEW m \in tombstones' \ tombstones, NEW r \in 1..MaxRevisions,
             HasContent(m, r)
      PROVE  <<m, r>> \in exported'
  <2>1. LedgerOK
    BY <1>1 DEF ViewInv
  <2>2. DeleteSession
    <3>1. CASE QueryStep \/ ReviewStep \/ ReceiveStep
      <4>1. UNCHANGED hostVars
        <5>1. PICK R : R = FreshRows
          OBVIOUS
        <5>2. /\ HostOK(R) /\ ChannelsOK(R) /\ WaitingOK
              /\ published.view = view.generation /\ published.query = view.query
          BY <1>1, <5>1 DEF ViewInv, Published
        <5> QED
          BY <3>1, <5>2, QueriesKeep, ReviewsKeep, ReceivesKeep
      <4> QED
        BY <1>1, <4>1 DEF hostVars, memoryVars
    <3>2. CASE QueryMemories \/ QueryFails \/ ExportMemory \/ MutationRefused \/ OpenSession
      BY <1>1, <3>2 DEF QueryMemories, QueryFails, ExportMemory, MutationRefused, OpenSession, hostVars, memoryVars
    <3>3. CASE RememberMemory \/ ImportMemory \/ TargetedStep
      <4>1. PICK n : Appended(n)
        BY <1>1, <3>3, CreationAppends, TargetedAppends DEF Targets
      <4> QED
        BY <1>1, <4>1 DEF Appended
    <3>4. CASE (\E scope \in Scopes : PersistMemoryProposal(scope)) \/ CreateCompactionProposal
      <4>1. PICK n : Appended(n)
        BY <1>1, <3>4, ProposalAppends
      <4> QED
        BY <1>1, <4>1 DEF Appended
    <3> QED
      BY <1>1, <3>1, <3>2, <3>3, <3>4 DEF Next, CoordinatorStep, TargetedStep
  <2>3. exported' = ExportSession /\ m \in SessionMemories
    BY <1>1, <2>2 DEF DeleteSession, EraseSessionMemoryAndEvidence
  <2>4. m \in Memories /\ items[m].scope = Session
    BY <2>3 DEF SessionMemories
  <2>5. Exists(m)
    <3>1. ItemOK(items[m])
      BY <2>1, <2>4 DEF LedgerOK
    <3>2. items[m].sequence \in Nat /\ (items[m].sequence = 0 => items[m] = Absent)
      BY <3>1, ItemHas
    <3>3. items[m] # Absent
      BY <2>4, ScopeAssumption DEF Absent
    <3> QED
      BY <3>2, <3>3 DEF Exists
  <2>6. m \in ExportedFrom[NoCursor]
    BY <2>1, <2>4, <2>5, ExportIsComplete
  <2> QED
    BY <1>1, <2>3, <2>6 DEF ExportSession
<1>2. ViewInv /\ [Next]_vars =>
        [tombstones' # tombstones =>
           \A m \in tombstones' \ tombstones, r \in 1..MaxRevisions : HasContent(m, r) => <<m, r>> \in exported']_vars
  BY <1>1
<1> QED
  BY <1>2, ViewInvariant, PTL DEF Spec, DeletionIsArchived
===============================================================================
