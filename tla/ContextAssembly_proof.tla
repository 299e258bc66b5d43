------------------------ MODULE ContextAssembly_proof ------------------------
(***************************************************************************)
(* Proofs about ContextAssembly, for every budget, every size, every query *)
(* and every bound.  Each preparation is shown to yield a turn that is     *)
(* sound by itself (TurnOK); that the turns also fit the ones before them  *)
(* rests on HistoryIsRetained: the last bound turn carries the history     *)
(* that the next preparation will read back.                               *)
(***************************************************************************)
EXTENDS ContextAssembly, SequenceTheorems, FiniteSetTheorems, WellFoundedInduction, TLAPS

-----------------------------------------------------------------------------
(* The invariant. *)

\* What compact_history leaves: the groups up to the cutoff, less the oldest.
HistoryOK(h) ==
    /\ h.cutoff \in Nat /\ h.omitted \in Nat /\ h.omitted <= h.cutoff
    /\ h.compacted = h.cutoff
    /\ h.groups = h.omitted + 1 .. h.cutoff

BudgetOK(t) ==
    /\ t.request + t.prelude + (IF t.prelude = 0 THEN 0 ELSE Framing) <= t.limit
    /\ t.memorySize <= t.limit \div 4
    /\ t.prelude = HistorySize(t.history) + t.agents + t.memorySize

\* What a turn records.
IsTurn(t) ==
    t = [mode |-> t.mode, runTurn |-> t.runTurn, limit |-> t.limit, catalog |-> t.catalog,
         completed |-> t.completed, cutoff |-> t.cutoff, request |-> t.request,
         history |-> t.history, read |-> t.read, observed |-> t.observed, agents |-> t.agents,
         memories |-> t.memories, memorySize |-> t.memorySize, prelude |-> t.prelude]

TurnOK(t, completed) ==
    /\ IsTurn(t) /\ t.agents \in Nat /\ t.limit \in Nat
    /\ HistoryOK(t.history) /\ t.history.cutoff = t.cutoff
    /\ t.completed \in Nat /\ t.cutoff <= t.completed /\ t.completed <= completed
    /\ BudgetOK(t)

\* A continuation, and a stream, belong to an attempt that has bound a turn.
ControlOK == runTurn \in Nat /\ (handler = "streaming" \/ runTurn > 1 => turns # <<>>)

HistoryIsRetained == turns # <<>> => turns[Len(turns)].history = RetainedHistory

CandidateOK ==
    handler = "compact" => HistoryOK(candidate) /\ candidate.cutoff <= Len(exchanges)

IInv ==
    /\ file \in Contents /\ catalog \in Nat /\ IsFiniteSet(matches) /\ exchanges \in Seq(Nat)
    /\ DOMAIN turns = 1 .. Len(turns) /\ Len(turns) \in Nat
    /\ \A i \in DOMAIN turns : TurnOK(turns[i], Len(exchanges))
    /\ ControlOK /\ HistoryIsRetained /\ CandidateOK
    /\ InstructionsOutliveFailedReads

-----------------------------------------------------------------------------
(* Sequences and indices. *)

LEMMA LeastExists ==
    ASSUME NEW T \in SUBSET Nat, T # {}
    PROVE  \E n \in T : \A m \in T : n <= m
<1>1. PICK n \in T : \A m \in T : ~(<<m, n>> \in OpToRel(<, Nat))
  BY NatLessThanWellFounded, WFMin
<1>2. \A m \in T : <<m, n>> \in Nat \X Nat
  OBVIOUS
<1>3. \A m \in T : ~(m < n)
  BY <1>1, <1>2 DEF OpToRel
<1> QED
  BY <1>3

LEMMA NewestExists ==
    ASSUME NEW n \in Nat, NEW S \in SUBSET (1 .. n), S # {}
    PROVE  Newest(S) \in S /\ \A j \in S : j <= Newest(S)
<1> DEFINE T == {n - i : i \in S}
<1>1. T \in SUBSET Nat /\ T # {}
  <2>1. \A i \in S : n - i \in Nat
    OBVIOUS
  <2>2. T \in SUBSET Nat
    BY <2>1
  <2>3. PICK i \in S : TRUE
    OBVIOUS
  <2>4. n - i \in T
    OBVIOUS
  <2> QED
    BY <2>2, <2>4
<1>2. PICK k \in T : \A m \in T : k <= m
  <2> HIDE DEF T
  <2> QED
    BY <1>1, LeastExists
<1>3. PICK i \in S : k = n - i
  OBVIOUS
<1>4. \A j \in S : j <= i
  <2> SUFFICES ASSUME NEW j \in S PROVE j <= i
    OBVIOUS
  <2>1. n - i <= n - j
    BY <1>2, <1>3
  <2> QED
    BY <2>1
<1> QED
  BY <1>4 DEF Newest

\* What is bound is kept, and is the last.
LEMMA AppendedTurn ==
    ASSUME DOMAIN turns = 1 .. Len(turns), Len(turns) \in Nat, NEW t, turns' = Append(turns, t)
    PROVE  /\ Len(turns') = Len(turns) + 1 /\ DOMAIN turns' = 1 .. Len(turns')
           /\ turns'[Len(turns) + 1] = t /\ \A i \in DOMAIN turns : turns'[i] = turns[i]
           /\ turns' # <<>>
OBVIOUS

-----------------------------------------------------------------------------
(* Memories. *)

LEMMA RankedIsFinite ==
    ASSUME IsFiniteSet(matches)
    PROVE  Len(Rank(matches)) \in Nat
<1> DEFINE eligible == {c \in matches : Eligible(c)}
           N == Cardinality(eligible)
           e(i) == CHOOSE c \in eligible : Cardinality({d \in eligible : RanksBefore(d, c)}) = i - 1
<1>1. IsFiniteSet(eligible)
  BY FS_Subset
<1>2. N \in Nat
  BY <1>1, FS_CardinalityType
<1>3. Rank(matches) = [i \in 1 .. N |-> e(i)]
  BY DEF Rank
<1> HIDE DEF N, e
<1>4. Len([i \in 1 .. N |-> e(i)]) = N
  BY <1>2
<1> QED
  BY <1>2, <1>3, <1>4

\* The selections the builder passes through.
LEMMA SelectionRuns ==
    ASSUME NEW limit, NEW room, Len(Rank(matches)) \in Nat
    PROVE  \E f : /\ f[0] = [revisions |-> {}, size |-> 0]
                  /\ \A n \in 1 .. Len(Rank(matches)) :
                        LET trial == Trial(f[n - 1], Rank(matches)[n])
                        IN  f[n] = IF trial.size <= DurableMemoryLimit(limit) /\ trial.size <= room
                                   THEN trial ELSE f[n - 1]
                  /\ SelectMemories(limit, room) = f[Len(Rank(matches))]
<1> DEFINE ranked == Rank(matches)
           N == Len(ranked)
           b == [revisions |-> {}, size |-> 0]
           Fits(trial) == trial.size <= DurableMemoryLimit(limit) /\ trial.size <= room
           G(x, n) == IF Fits(Trial(x, ranked[n])) THEN Trial(x, ranked[n]) ELSE x
           F(f, m) == [n \in 0 .. m |-> IF n = 0 THEN b ELSE G(f[n - 1], n)]
           T == {m \in 0 .. N : ~ \E f : f = F(f, m)}
           r == CHOOSE f : f = F(f, N)
<1>1. SelectMemories(limit, room) = r[N]
  BY DEF SelectMemories
<1> HIDE DEF G, r, b
<1>0. N \in Nat
  OBVIOUS
<1>2. T = {}
  <2> SUFFICES ASSUME T # {} PROVE FALSE
    OBVIOUS
  <2>0. T \in SUBSET Nat
    OBVIOUS
  <2>1. PICK m \in T : \A k \in T : m <= k
    <3> HIDE DEF T
    <3> QED
      BY <2>0, LeastExists
  <2>2. m \in 0 .. N /\ ~ \E f : f = F(f, m)
    OBVIOUS
  <2>3. CASE m = 0
    <3>1. [n \in 0 .. 0 |-> b] = F([n \in 0 .. 0 |-> b], 0)
      OBVIOUS
    <3> QED
      BY <2>2, <2>3, <3>1
  <2>4. CASE m # 0
    <3>1. m - 1 \in 0 .. N /\ m - 1 \notin T
      <4> HIDE DEF N, T
      <4> QED
        BY <1>0, <2>0, <2>1, <2>2, <2>4
    <3>2. PICK f : f = F(f, m - 1)
      BY <3>1
    <3> DEFINE g == [n \in 0 .. m |-> IF n = m THEN G(f[m - 1], m) ELSE f[n]]
    <3>3. \A n \in 0 .. m - 1 : f[n] = IF n = 0 THEN b ELSE G(f[n - 1], n)
      BY <3>2
    <3>4. ASSUME NEW n \in 0 .. m PROVE g[n] = IF n = 0 THEN b ELSE G(g[n - 1], n)
      <4>1. CASE n = m
        <5>1. m - 1 \in 0 .. m /\ m - 1 # m
          BY <2>2, <2>4
        <5>2. g[m - 1] = f[m - 1] /\ g[m] = G(f[m - 1], m)
          BY <2>2, <5>1
        <5> QED
          BY <2>4, <4>1, <5>2
      <4>2. CASE n # m
        <5>1. n \in 0 .. m - 1 /\ g[n] = f[n]
          BY <2>2, <4>2
        <5>2. n # 0 => n - 1 \in 0 .. m /\ n - 1 # m /\ g[n - 1] = f[n - 1]
          BY <2>2, <5>1
        <5> QED
          BY <3>3, <5>1, <5>2
      <4> QED
        BY <4>1, <4>2
    <3>5. g = F(g, m)
      <4> HIDE DEF g
      <4>1. \A n \in 0 .. m : g[n] = F(g, m)[n]
        BY <3>4
      <4>2. g = [n \in 0 .. m |-> g[n]]
        BY DEF g
      <4> QED
        BY <4>1, <4>2
    <3> QED
      BY <2>2, <3>5
  <2> QED
    BY <2>3, <2>4
<1>3. \E f : f = F(f, N)
  BY <1>2
<1>4. r = F(r, N)
  BY <1>3 DEF r
<1>5. \A n \in 0 .. N : r[n] = IF n = 0 THEN b ELSE G(r[n - 1], n)
  BY <1>4
<1>6. r[0] = b /\ \A n \in 1 .. N : r[n] = G(r[n - 1], n)
  BY <1>5
<1> QED
  BY <1>1, <1>6 DEF G, b

\* Only a trial within the share of memories is ever kept.
LEMMA SelectionFits ==
    ASSUME NEW limit \in Nat, NEW room, IsFiniteSet(matches)
    PROVE  SelectMemories(limit, room).size <= limit \div 4
<1> DEFINE ranked == Rank(matches)
           N == Len(ranked)
<1>0. N \in Nat
  BY RankedIsFinite
<1>1. PICK f : /\ f[0] = [revisions |-> {}, size |-> 0]
               /\ \A n \in 1 .. N :
                     LET trial == Trial(f[n - 1], ranked[n])
                     IN  f[n] = IF trial.size <= DurableMemoryLimit(limit) /\ trial.size <= room
                                THEN trial ELSE f[n - 1]
               /\ SelectMemories(limit, room) = f[N]
  BY <1>0, SelectionRuns
<1> HIDE DEF ranked, N
<1> DEFINE T == {m \in 0 .. N : ~(f[m].size <= limit \div 4)}
<1>2. T = {}
  <2> SUFFICES ASSUME T # {} PROVE FALSE
    OBVIOUS
  <2>0. T \in SUBSET Nat
    BY <1>0
  <2>1. PICK m \in T : \A k \in T : m <= k
    <3> HIDE DEF T
    <3> QED
      BY <2>0, LeastExists
  <2>2. m \in 0 .. N /\ ~(f[m].size <= limit \div 4)
    OBVIOUS
  <2>3. CASE m = 0
    <3>1. f[0].size = 0
      BY <1>1
    <3> QED
      BY <2>2, <2>3, <3>1
  <2>4. CASE m # 0
    <3> DEFINE trial == Trial(f[m - 1], ranked[m])
    <3>1. m - 1 \in 0 .. N /\ m - 1 \notin T /\ m \in 1 .. N
      BY <1>0, <2>1, <2>2, <2>4
    <3>2. f[m - 1].size <= limit \div 4
      BY <3>1
    <3>3. f[m] = IF trial.size <= limit \div 4 /\ trial.size <= room THEN trial ELSE f[m - 1]
      BY <1>1, <3>1 DEF DurableMemoryLimit
    <3> HIDE DEF trial, T
    <3> QED
      BY <2>2, <3>2, <3>3
  <2> QED
    BY <2>3, <2>4
<1>3. N \in 0 .. N
  BY <1>0
<1> QED
  BY <1>1, <1>2, <1>3

-----------------------------------------------------------------------------
(* Histories. *)

LEMMA NoHistoryOK == HistoryOK(NoHistory) /\ NoHistory.cutoff = 0
BY DEF NoHistory, HistoryOK

\* compact_history drops the oldest groups, and counts what it drops.
LEMMA CompactionKeeps ==
    ASSUME NEW prior, NEW cutoff \in Nat, HistoryOK(prior), prior.cutoff <= cutoff
    PROVE  /\ HistoryOK(CompactHistory(prior, cutoff))
           /\ CompactHistory(prior, cutoff).cutoff = cutoff
<1> DEFINE o == prior.omitted
           p == prior.cutoff
           groups == prior.groups \cup (prior.cutoff + 1 .. cutoff)
           kept == {g \in groups : Cardinality({h \in groups : h > g}) < GroupsFitting}
           k == IF o <= cutoff - GroupsFitting THEN cutoff - GroupsFitting ELSE o
           new == CompactHistory(prior, cutoff)
<1>0. o \in Nat /\ p \in Nat /\ o <= p /\ p <= cutoff /\ GroupsFitting \in Nat \ {0}
  BY SizesAssumption DEF HistoryOK
<1>1. groups = o + 1 .. cutoff
  <2>1. prior.groups = o + 1 .. p
    BY DEF HistoryOK
  <2> HIDE DEF o, p
  <2>2. (o + 1 .. p) \cup (p + 1 .. cutoff) = o + 1 .. cutoff
    BY <1>0
  <2> QED
    BY <2>1, <2>2 DEF p
<1>k. k \in Nat /\ o <= k /\ k <= cutoff /\ cutoff - GroupsFitting <= k
      /\ (k = o \/ k = cutoff - GroupsFitting)
  <2> HIDE DEF o, p
  <2> QED
    BY <1>0
<1> HIDE DEF groups, k
<1>2. ASSUME NEW g \in o + 1 .. cutoff
      PROVE  Cardinality({h \in groups : h > g}) = cutoff - g
  <2> HIDE DEF o, p
  <2>1. {h \in groups : h > g} = g + 1 .. cutoff
    BY <1>0, <1>1
  <2>2. g \in Int /\ g + 1 \in Int /\ cutoff \in Int /\ g <= cutoff
    BY <1>0
  <2>3. Cardinality(g + 1 .. cutoff) = IF g + 1 > cutoff THEN 0 ELSE cutoff - (g + 1) + 1
    BY <2>2, FS_Interval
  <2>4. cutoff - g = IF g + 1 > cutoff THEN 0 ELSE cutoff - (g + 1) + 1
    BY <2>2
  <2> QED
    BY <2>1, <2>3, <2>4
<1>3. kept = k + 1 .. cutoff
  <2> HIDE DEF o, p
  <2>1. \A g \in groups : Cardinality({h \in groups : h > g}) = cutoff - g
    BY <1>1, <1>2
  <2>2. kept = {g \in groups : cutoff - g < GroupsFitting}
    BY <2>1
  <2>3. {g \in o + 1 .. cutoff : cutoff - g < GroupsFitting} = k + 1 .. cutoff
    BY <1>0, <1>k DEF k
  <2> QED
    BY <1>1, <2>2, <2>3
<1> HIDE DEF kept
<1>4. Cardinality(groups \ kept) = k - o
  <2> HIDE DEF o, p
  <2>1. groups \ kept = o + 1 .. k
    BY <1>0, <1>1, <1>3, <1>k
  <2>2. Cardinality(o + 1 .. k) = IF o + 1 > k THEN 0 ELSE k - (o + 1) + 1
    BY <1>0, <1>k, FS_Interval
  <2>3. k - o = IF o + 1 > k THEN 0 ELSE k - (o + 1) + 1
    BY <1>0, <1>k
  <2> QED
    BY <2>1, <2>2, <2>3
<1>5. /\ new.cutoff = cutoff /\ new.groups = kept
      /\ new.compacted = prior.compacted + (cutoff - p) /\ new.omitted = o + Cardinality(groups \ kept)
  BY DEF CompactHistory, groups, kept
<1>6. prior.compacted = p
  BY DEF HistoryOK
<1> HIDE DEF new, o, p
<1>7. new.compacted = cutoff /\ new.omitted = k
  BY <1>0, <1>4, <1>5, <1>6, <1>k
<1>8. HistoryOK(new)
  BY <1>3, <1>5, <1>7, <1>k DEF HistoryOK
<1> QED
  BY <1>5, <1>8 DEF new

\* What is read back is the history of some bound turn, or there is none.
LEMMA RetainedOK ==
    ASSUME IInv
    PROVE  HistoryOK(RetainedHistory) /\ RetainedHistory.cutoff <= Len(exchanges)
<1> DEFINE compactions == {i \in DOMAIN turns : turns[i].mode = "compaction"}
<1>0. DOMAIN turns = 1 .. Len(turns) /\ Len(turns) \in Nat /\ Len(exchanges) \in Nat
  BY DEF IInv
<1>1. CASE compactions = {}
  <2>1. RetainedHistory = NoHistory
    BY <1>1 DEF RetainedHistory
  <2> QED
    BY <1>0, <2>1, NoHistoryOK
<1>2. CASE compactions # {}
  <2>1. compactions \in SUBSET (1 .. Len(turns))
    BY <1>0
  <2>2. Newest(compactions) \in compactions
    <3> HIDE DEF compactions
    <3> QED
      BY <1>0, <1>2, <2>1, NewestExists
  <2>3. RetainedHistory = turns[Newest(compactions)].history
    BY <1>2 DEF RetainedHistory
  <2> HIDE DEF compactions
  <2>4. PICK i \in DOMAIN turns : RetainedHistory = turns[i].history
    BY <2>2, <2>3 DEF compactions
  <2>5. TurnOK(turns[i], Len(exchanges))
    BY DEF IInv
  <2>6. HistoryOK(turns[i].history) /\ turns[i].history.cutoff = turns[i].cutoff
        /\ turns[i].completed \in Nat /\ turns[i].cutoff <= turns[i].completed
        /\ turns[i].completed <= Len(exchanges)
    BY <2>5 DEF TurnOK
  <2>7. turns[i].history.cutoff \in Nat
    BY <2>6 DEF HistoryOK
  <2> QED
    BY <1>0, <2>4, <2>6, <2>7
<1> QED
  BY <1>1, <1>2

\* A bound turn changes what is read back only when it compacts.
LEMMA RetainedAfter ==
    ASSUME DOMAIN turns = 1 .. Len(turns), Len(turns) \in Nat, NEW t, turns' = Append(turns, t)
    PROVE  RetainedHistory' = IF t.mode = "compaction" THEN t.history ELSE RetainedHistory
<1> DEFINE n == Len(turns)
           old == {i \in DOMAIN turns : turns[i].mode = "compaction"}
           new == {i \in DOMAIN turns' : turns'[i].mode = "compaction"}
<1>1. /\ Len(turns') = n + 1 /\ DOMAIN turns' = 1 .. n + 1
      /\ turns'[n + 1] = t /\ \A i \in 1 .. n : turns'[i] = turns[i]
  BY AppendedTurn
<1>2. RetainedHistory' = IF new = {} THEN NoHistory' ELSE turns'[Newest(new)].history
  BY DEF RetainedHistory, Newest
<1>3. NoHistory' = NoHistory
  BY DEF NoHistory
<1>4. RetainedHistory = IF old = {} THEN NoHistory ELSE turns[Newest(old)].history
  BY DEF RetainedHistory
<1>5. CASE t.mode = "compaction"
  <2>1. n + 1 \in new /\ new \in SUBSET (1 .. n + 1)
    BY <1>1, <1>5
  <2> HIDE DEF new
  <2>2. Newest(new) \in 1 .. n + 1 /\ n + 1 <= Newest(new)
    <3>1. n + 1 \in Nat
      OBVIOUS
    <3>2. new # {}
      BY <2>1
    <3>3. Newest(new) \in new /\ \A j \in new : j <= Newest(new)
      <4> HIDE DEF n
      <4> QED
        BY <2>1, <3>1, <3>2, NewestExists
    <3> QED
      BY <2>1, <3>3
  <2>3. Newest(new) = n + 1
    BY <2>2
  <2> QED
    BY <1>1, <1>2, <1>5, <2>1, <2>3
<1>6. CASE t.mode # "compaction"
  <2>1. new = old
    <3>1. \A i \in 1 .. n + 1 : i \in 1 .. n \/ i = n + 1
      OBVIOUS
    <3>2. \A i \in 1 .. n : i \in 1 .. n + 1 /\ turns'[i] = turns[i]
      BY <1>1
    <3> HIDE DEF n
    <3> QED
      BY <1>1, <1>6, <3>1, <3>2 DEF n
  <2>2. old \in SUBSET (1 .. n)
    OBVIOUS
  <2> HIDE DEF new, old
  <2>3. old # {} => Newest(old) \in 1 .. n
    BY <2>2, NewestExists
  <2> QED
    BY <1>1, <1>2, <1>3, <1>4, <1>6, <2>1, <2>3
<1> QED
  BY <1>5, <1>6

-----------------------------------------------------------------------------
(* Sources. *)

\* The size s is what the last of the first n turns that carried the file had.
CarriedLast(s, n) ==
    \E j \in 1 .. n :
        /\ turns[j].agents > 0 /\ turns[j].agents = s
        /\ \A k \in j + 1 .. n : turns[k].agents = 0

LEMMA AgentsAreSizes ==
    ASSUME IInv
    PROVE  \A i \in 1 .. Len(turns) : turns[i].agents \in Nat
BY DEF IInv, TurnOK

LEMMA RetainedAgents ==
    ASSUME IInv
    PROVE  /\ RetainedWorkspaceAgents \in Nat
           /\ RetainedWorkspaceAgents > 0 => CarriedLast(RetainedWorkspaceAgents, Len(turns))
<1> DEFINE n == Len(turns)
<1>0. DOMAIN turns = 1 .. n /\ n \in Nat
  BY DEF IInv
<1>1. \A i \in 1 .. n : turns[i].agents \in Nat
  BY AgentsAreSizes
<1>2. CASE Admitting = {}
  BY <1>2 DEF RetainedWorkspaceAgents
<1>3. CASE Admitting # {}
  <2> DEFINE j == Newest(Admitting)
  <2>1. Admitting \in SUBSET (1 .. n)
    BY <1>0 DEF Admitting
  <2>2. j \in Admitting /\ \A i \in Admitting : i <= j
    BY <1>0, <1>3, <2>1, NewestExists
  <2>3. RetainedWorkspaceAgents = turns[j].agents
    BY <1>3 DEF RetainedWorkspaceAgents
  <2> HIDE DEF j, n
  <2>4. j \in 1 .. n /\ turns[j].agents > 0
    BY <2>1, <2>2 DEF Admitting
  <2>5. ASSUME NEW k \in j + 1 .. n PROVE turns[k].agents = 0
    <3>1. k \in 1 .. n /\ ~(k <= j)
      BY <1>0, <2>4, <2>5
    <3>2. k \notin Admitting
      BY <2>2, <3>1
    <3>3. ~(turns[k].agents > 0)
      BY <1>0, <3>1, <3>2 DEF Admitting
    <3> QED
      BY <1>1, <3>1, <3>3
  <2>6. CarriedLast(turns[j].agents, n)
    BY <2>4, <2>5 DEF CarriedLast
  <2> QED
    BY <1>1, <2>3, <2>4, <2>6 DEF n
<1> QED
  BY <1>2, <1>3

\* A failed read is answered with what was carried last, or not at all.
LEMMA ObservedAgents ==
    ASSUME IInv
    PROVE  /\ ObserveWorkspaceAgents.size \in Nat
           /\ ObserveWorkspaceAgents.ok /\ file.read = "unavailable" =>
                CarriedLast(ObserveWorkspaceAgents.size, Len(turns))
<1>1. /\ file.read \in {"available", "absent", "unavailable", "rejected"}
      /\ file.size \in Nat
  BY SizesAssumption DEF IInv, Contents
<1>2. CASE file.read = "available"
  BY <1>1, <1>2 DEF ObserveWorkspaceAgents
<1>3. CASE file.read = "absent"
  BY <1>3 DEF ObserveWorkspaceAgents
<1>4. CASE file.read = "unavailable"
  <2>1. PICK ok : ok = (RetainedWorkspaceAgents > 0)
    OBVIOUS
  <2>2. ObserveWorkspaceAgents = [ok |-> ok, size |-> RetainedWorkspaceAgents]
    BY <1>4, <2>1 DEF ObserveWorkspaceAgents
  <2>3. ObserveWorkspaceAgents.ok = ok /\ ObserveWorkspaceAgents.size = RetainedWorkspaceAgents
    BY <2>2
  <2> QED
    BY <1>4, <2>1, <2>3, RetainedAgents, Zenon
<1>5. CASE file.read = "rejected"
  BY <1>5 DEF ObserveWorkspaceAgents
<1> QED
  BY <1>1, <1>2, <1>3, <1>4, <1>5

-----------------------------------------------------------------------------
(* Prepared turns. *)

LEMMA BudgetIsNatural ==
    ASSUME IInv
    PROVE  TokenBudget \in Nat
<1>1. CASE runTurn > 1
  <2>1. turns # <<>> /\ DOMAIN turns = 1 .. Len(turns) /\ Len(turns) \in Nat
    BY <1>1 DEF IInv, ControlOK
  <2>2. Len(turns) \in DOMAIN turns
    BY <2>1
  <2>3. turns[Len(turns)].limit \in Nat
    BY <2>2 DEF IInv, TurnOK
  <2> QED
    BY <1>1, <2>3 DEF TokenBudget, Last
<1>2. CASE ~(runTurn > 1)
  BY <1>2 DEF TokenBudget, IInv
<1> QED
  BY <1>1, <1>2

\* A turn that may be bound next.
Bindable(t) ==
    /\ TurnOK(t, Len(exchanges))
    /\ t.mode # "compaction" => t.history = RetainedHistory
    /\ t.mode # "frozen" /\ t.read = "unavailable" => CarriedLast(t.observed, Len(turns))

LEMMA NewEpochOK ==
    ASSUME IInv, NEW mode \in {"new", "compaction"}, NEW cutoff, NEW limit \in Nat, NEW history,
           HistoryOK(history), history.cutoff = cutoff, cutoff <= Len(exchanges),
           mode = "new" => history = RetainedHistory,
           NewEpoch(mode, cutoff, limit, history).outcome = "fits"
    PROVE  Bindable(NewEpoch(mode, cutoff, limit, history).turn)
<1> DEFINE source == ObserveWorkspaceAgents
           request == RequestAfter(cutoff)
           built == Build(request, limit, history, source.size)
           e == NewEpoch(mode, cutoff, limit, history)
           t == e.turn
           room == limit - request - HistorySize(history)
           admitted == IF source.size <= room THEN source.size ELSE 0
           memories == SelectMemories(limit, room - admitted)
<1>1. /\ e.outcome = CASE ~source.ok -> "error"
                       [] source.ok /\ built.within
                            /\ ExactRequestFits(request, built.prelude, limit) -> "fits"
                       [] OTHER -> "over"
      /\ t = [mode |-> mode, runTurn |-> runTurn, limit |-> limit, catalog |-> catalog,
              completed |-> Len(exchanges), cutoff |-> cutoff, request |-> request,
              history |-> history, read |-> file.read,
              observed |-> source.size, agents |-> built.agents,
              memories |-> built.memories.revisions,
              memorySize |-> built.memories.size, prelude |-> built.prelude]
  BY DEF NewEpoch
<1>2. /\ built.agents = admitted /\ built.memories = memories
      /\ built.prelude = HistorySize(history) + admitted + memories.size
  BY DEF Build
<1>3. source.size \in Nat /\ (source.ok /\ file.read = "unavailable" => CarriedLast(source.size, Len(turns)))
  BY ObservedAgents
<1>4. memories.size <= limit \div 4
  <2> HIDE DEF room, admitted
  <2> QED
    BY SelectionFits DEF IInv
<1>5. e.outcome = "fits" /\ cutoff \in Nat /\ Len(exchanges) \in Nat
  BY DEF IInv, HistoryOK
<1> HIDE DEF source, request, built, e, room, admitted, memories
<1>6. admitted \in Nat
  BY <1>3 DEF admitted
<1>7. source.ok /\ ExactRequestFits(request, built.prelude, limit)
  BY <1>1, <1>5
<1>8. /\ t.mode = mode /\ t.limit = limit /\ t.completed = Len(exchanges) /\ t.cutoff = cutoff
      /\ t.request = request /\ t.history = history /\ t.read = file.read
      /\ t.observed = source.size /\ t.agents = admitted /\ t.memorySize = memories.size
      /\ t.prelude = built.prelude
  BY <1>1, <1>2
<1>9. IsTurn(t)
  BY <1>1 DEF IsTurn
<1> HIDE DEF t
<1>10. BudgetOK(t)
  BY <1>2, <1>4, <1>7, <1>8 DEF BudgetOK, ExactRequestFits
<1>11. TurnOK(t, Len(exchanges))
  BY <1>5, <1>6, <1>8, <1>9, <1>10 DEF TurnOK
<1>12. Bindable(t)
  BY <1>3, <1>7, <1>8, <1>11 DEF Bindable
<1> QED
  BY <1>12 DEF t, e

\* A continuation keeps the prelude of its epoch, which was written for the
\* history that the raw messages are still cut off at.
LEMMA FrozenOK ==
    ASSUME IInv, turns # <<>>, FrozenContinuation(RetainedHistory.cutoff).outcome = "fits"
    PROVE  Bindable(FrozenContinuation(RetainedHistory.cutoff).turn)
<1> DEFINE base == turns[Len(turns)]
           cutoff == RetainedHistory.cutoff
           request == RequestAfter(cutoff)
           e == FrozenContinuation(cutoff)
           t == e.turn
<1>1. /\ e.outcome = CASE base.catalog # catalog -> "error"
                       [] base.catalog = catalog
                            /\ ExactRequestFits(request, base.prelude, base.limit) -> "fits"
                       [] OTHER -> "over"
      /\ t = [base EXCEPT !.mode = "frozen", !.runTurn = runTurn, !.request = request,
                          !.completed = Len(exchanges), !.cutoff = cutoff]
  BY DEF FrozenContinuation, Last
<1>2. Len(turns) \in DOMAIN turns /\ Len(exchanges) \in Nat
  BY DEF IInv
<1>3. TurnOK(base, Len(exchanges))
  BY <1>2 DEF IInv
<1>4. base.history = RetainedHistory
  BY DEF IInv, HistoryIsRetained
<1>5. e.outcome = "fits" /\ cutoff <= Len(exchanges) /\ HistoryOK(RetainedHistory)
  BY RetainedOK
<1> HIDE DEF base, request, e
<1>6. ExactRequestFits(request, base.prelude, base.limit)
  BY <1>1, <1>5
<1>7. PICK b : b = base /\ IsTurn(b)
  BY <1>3 DEF TurnOK
<1>8. /\ t.mode = "frozen" /\ t.limit = b.limit /\ t.completed = Len(exchanges) /\ t.cutoff = cutoff
      /\ t.request = request /\ t.history = b.history /\ t.agents = b.agents
      /\ t.memorySize = b.memorySize /\ t.prelude = b.prelude /\ IsTurn(t)
  BY <1>1, <1>7 DEF IsTurn
<1> HIDE DEF t
<1>9. BudgetOK(t)
  BY <1>3, <1>6, <1>7, <1>8 DEF BudgetOK, ExactRequestFits, TurnOK
<1>10. TurnOK(t, Len(exchanges))
  BY <1>2, <1>3, <1>4, <1>5, <1>7, <1>8, <1>9 DEF TurnOK
<1>11. Bindable(t)
  BY <1>4, <1>7, <1>8, <1>10 DEF Bindable
<1> QED
  BY <1>11 DEF t, e

-----------------------------------------------------------------------------
(* Steps. *)

\* A step that binds no turn and completes no attempt.
LEMMA TurnsStay ==
    ASSUME IInv, UNCHANGED <<turns, exchanges>>, file' \in Contents, catalog' \in Nat,
           IsFiniteSet(matches'), ControlOK', CandidateOK'
    PROVE  IInv'
<1>1. RetainedHistory' = RetainedHistory
  BY DEF RetainedHistory, NoHistory
<1>2. HistoryIsRetained'
  BY <1>1 DEF IInv, HistoryIsRetained
<1>3. InstructionsOutliveFailedReads'
  BY DEF IInv, InstructionsOutliveFailedReads
<1>4. \A i \in DOMAIN turns' : TurnOK(turns'[i], Len(exchanges'))
  BY DEF IInv
<1>5. Contents' = Contents
  BY DEF Contents
<1> QED
  BY <1>2, <1>3, <1>4, <1>5 DEF IInv

LEMMA BindKeeps ==
    ASSUME IInv, NEW t, Bindable(t), Bind(t)
    PROVE  IInv'
<1> DEFINE n == Len(turns)
<1>0. DOMAIN turns = 1 .. n /\ n \in Nat /\ turns' = Append(turns, t)
  BY DEF IInv, Bind
<1>1. /\ Len(turns') = n + 1 /\ DOMAIN turns' = 1 .. n + 1 /\ turns' # <<>>
      /\ turns'[n + 1] = t /\ \A i \in 1 .. n : turns'[i] = turns[i]
  BY <1>0, AppendedTurn
<1>2. \A i \in 1 .. n + 1 : i \in 1 .. n \/ i = n + 1
  BY <1>0
<1> HIDE DEF n
<1>3. \A i \in DOMAIN turns' : TurnOK(turns'[i], Len(exchanges'))
  <2>1. exchanges' = exchanges
    BY DEF Bind
  <2>2. \A i \in 1 .. n : TurnOK(turns[i], Len(exchanges))
    BY <1>0 DEF IInv
  <2>3. TurnOK(t, Len(exchanges))
    BY DEF Bindable
  <2> QED
    BY <1>1, <1>2, <2>1, <2>2, <2>3
<1>4. HistoryIsRetained'
  <2>1. RetainedHistory' = IF t.mode = "compaction" THEN t.history ELSE RetainedHistory
    BY <1>0, RetainedAfter DEF n
  <2>2. t.history = RetainedHistory'
    BY <2>1 DEF Bindable
  <2> QED
    BY <1>1, <2>2 DEF HistoryIsRetained
<1>5. InstructionsOutliveFailedReads'
  <2> SUFFICES ASSUME NEW i \in DOMAIN turns', turns'[i].mode # "frozen", turns'[i].read = "unavailable"
               PROVE  \E j \in 1 .. i - 1 :
                          /\ turns'[j].agents > 0 /\ turns'[j].agents = turns'[i].observed
                          /\ \A k \in j + 1 .. i - 1 : turns'[k].agents = 0
    BY DEF InstructionsOutliveFailedReads
  <2>1. CASE i \in 1 .. n
    <3>1. turns[i].mode # "frozen" /\ turns[i].read = "unavailable" /\ i \in DOMAIN turns
      BY <1>0, <1>1, <2>1
    <3>2. PICK j \in 1 .. i - 1 :
                /\ turns[j].agents > 0 /\ turns[j].agents = turns[i].observed
                /\ \A k \in j + 1 .. i - 1 : turns[k].agents = 0
      BY <3>1 DEF IInv, InstructionsOutliveFailedReads
    <3>3. j \in 1 .. n /\ \A k \in j + 1 .. i - 1 : k \in 1 .. n
      BY <1>0, <2>1
    <3>4. turns'[j] = turns[j] /\ turns'[i] = turns[i]
          /\ \A k \in j + 1 .. i - 1 : turns'[k] = turns[k]
      BY <1>1, <2>1, <3>3
    <3> QED
      BY <3>2, <3>4
  <2>2. CASE i = n + 1
    <3>1. turns'[i] = t /\ i - 1 = n
      BY <1>0, <1>1, <2>2
    <3>2. CarriedLast(t.observed, n)
      BY <3>1 DEF Bindable, n
    <3>3. PICK j \in 1 .. n :
                /\ turns[j].agents > 0 /\ turns[j].agents = t.observed
                /\ \A k \in j + 1 .. n : turns[k].agents = 0
      BY <3>2 DEF CarriedLast
    <3>4. \A k \in j + 1 .. n : k \in 1 .. n
      BY <1>0
    <3>5. turns'[j] = turns[j] /\ \A k \in j + 1 .. n : turns'[k] = turns[k]
      BY <1>1, <3>4
    <3> QED
      BY <3>1, <3>3, <3>5
  <2> QED
    BY <1>1, <1>2, <2>1, <2>2
<1>6. file' \in Contents' /\ catalog' \in Nat /\ IsFiniteSet(matches') /\ exchanges' \in Seq(Nat)
  BY DEF IInv, Bind, Contents
<1>7. ControlOK' /\ CandidateOK'
  BY <1>1 DEF IInv, Bind, ControlOK, CandidateOK
<1>8. DOMAIN turns' = 1 .. Len(turns') /\ Len(turns') \in Nat
  BY <1>0, <1>1
<1> QED
  BY <1>3, <1>4, <1>5, <1>6, <1>7, <1>8 DEF IInv

LEMMA OrdinaryKeeps ==
    ASSUME IInv, PrepareOrdinary
    PROVE  IInv'
<1> DEFINE cutoff == RetainedHistory.cutoff
<1>1. Ordinary.outcome = "fits" /\ Bind(Ordinary.turn)
  BY DEF PrepareOrdinary
<1>2. Bindable(Ordinary.turn)
  <2>1. CASE RequestAfter(cutoff) > TokenBudget
    <3>1. Ordinary = [outcome |-> "over"]
      BY <2>1 DEF Ordinary
    <3> QED
      BY <1>1, <3>1
  <2>2. CASE ~(RequestAfter(cutoff) > TokenBudget)
        /\ ~(runTurn > 1)
    <3>1. Ordinary = NewEpoch("new", cutoff, TokenBudget, RetainedHistory)
      BY <2>2 DEF Ordinary
    <3>2. /\ TokenBudget \in Nat /\ HistoryOK(RetainedHistory) /\ cutoff <= Len(exchanges)
          /\ "new" \in {"new", "compaction"}
      BY BudgetIsNatural, RetainedOK
    <3>3. Bindable(NewEpoch("new", cutoff, TokenBudget, RetainedHistory).turn)
      BY <1>1, <3>1, <3>2, NewEpochOK
    <3> QED
      BY <3>1, <3>3
  <2>3. CASE ~(RequestAfter(cutoff) > TokenBudget)
        /\ runTurn > 1
    <3>1. Ordinary = FrozenContinuation(cutoff)
      BY <2>3 DEF Ordinary
    <3>2. turns # <<>>
      BY <2>3 DEF IInv, ControlOK
    <3> QED
      BY <1>1, <3>1, <3>2, FrozenOK
  <2> QED
    BY <2>1, <2>2, <2>3
<1> QED
  BY <1>1, <1>2, BindKeeps

LEMMA CandidateKeeps ==
    ASSUME IInv, SelectCompactionCandidate
    PROVE  IInv'
<1> DEFINE fitting == FittingCutoffs
           cutoff == CHOOSE c \in fitting : \A d \in fitting : c <= d
<1>0. Len(exchanges) \in Nat /\ HistoryOK(RetainedHistory) /\ RetainedHistory.cutoff \in Nat
  BY RetainedOK DEF IInv, HistoryOK
<1>1. fitting # {} /\ candidate' = CompactHistory(RetainedHistory, cutoff)
  BY DEF SelectCompactionCandidate
<1>2. fitting \subseteq RetainedHistory.cutoff + 1 .. Len(exchanges)
  BY DEF FittingCutoffs
<1> HIDE DEF fitting
<1>3. fitting \in SUBSET Nat
  BY <1>0, <1>2
<1>4. \E c \in fitting : \A d \in fitting : c <= d
  BY <1>1, <1>3, LeastExists
<1>5. cutoff \in fitting
  BY <1>4
<1> HIDE DEF cutoff
<1>6. cutoff \in Nat /\ RetainedHistory.cutoff <= cutoff /\ cutoff <= Len(exchanges)
  BY <1>0, <1>2, <1>5
<1>7. HistoryOK(candidate') /\ candidate'.cutoff = cutoff
  BY <1>0, <1>1, <1>6, CompactionKeeps
<1>8. /\ UNCHANGED <<turns, exchanges>> /\ file' \in Contents /\ catalog' \in Nat
      /\ IsFiniteSet(matches') /\ ControlOK'
  BY DEF IInv, SelectCompactionCandidate, ControlOK
<1>9. CandidateOK'
  BY <1>6, <1>7, <1>8 DEF CandidateOK
<1> QED
  BY <1>8, <1>9, TurnsStay

LEMMA CompactionIsBound ==
    ASSUME IInv, PrepareCompaction
    PROVE  IInv'
<1>1. /\ handler = "compact" /\ CandidateEpoch.outcome = "fits" /\ Bind(CandidateEpoch.turn)
      /\ "compaction" \in {"new", "compaction"} /\ "compaction" # "new"
  BY DEF PrepareCompaction
<1>2. HistoryOK(candidate) /\ candidate.cutoff <= Len(exchanges)
  BY <1>1 DEF IInv, CandidateOK
<1>3. CandidateEpoch = NewEpoch("compaction", candidate.cutoff, TokenBudget, candidate)
  BY DEF CandidateEpoch
<1>4. TokenBudget \in Nat
  BY BudgetIsNatural
<1>5. Bindable(NewEpoch("compaction", candidate.cutoff, TokenBudget, candidate).turn)
  BY <1>1, <1>2, <1>3, <1>4, NewEpochOK
<1> QED
  BY <1>1, <1>3, <1>5, BindKeeps

LEMMA FailureKeeps ==
    ASSUME IInv, PreparationFails
    PROVE  IInv'
<1>1. /\ UNCHANGED <<turns, exchanges>> /\ file' \in Contents /\ catalog' \in Nat /\ ControlOK'
      /\ CandidateOK'
  BY DEF IInv, PreparationFails, ControlOK, CandidateOK
<1>2. IsFiniteSet(matches')
  BY FS_EmptySet DEF PreparationFails
<1> QED
  BY <1>1, <1>2, TurnsStay

LEMMA PrepareStepKeeps ==
    ASSUME IInv, PrepareStep
    PROVE  IInv'
<1>1. CASE PrepareOrdinary
  BY <1>1, OrdinaryKeeps
<1>2. CASE SelectCompactionCandidate
  BY <1>2, CandidateKeeps
<1>3. CASE PrepareFails
  BY <1>3, FailureKeeps DEF PrepareFails
<1>4. CASE PrepareCompaction
  BY <1>4, CompactionIsBound
<1>5. CASE CompactionFails
  BY <1>5, FailureKeeps DEF CompactionFails
<1> QED
  BY <1>1, <1>2, <1>3, <1>4, <1>5 DEF PrepareStep

\* A completed exchange is one that no bound turn counted yet.
LEMMA CompletionKeeps ==
    ASSUME IInv, NEW size \in ExchangeSizes, CompleteAttempt(size)
    PROVE  IInv'
<1>1. exchanges' = Append(exchanges, size) /\ UNCHANGED <<file, catalog, turns>>
      /\ handler' = "idle" /\ runTurn' = 0 /\ matches' = {}
  BY DEF CompleteAttempt
<1>2. /\ exchanges' \in Seq(Nat) /\ Len(exchanges) \in Nat /\ Len(exchanges') = Len(exchanges) + 1
  BY <1>1, SizesAssumption DEF IInv
<1>3. ASSUME NEW i \in DOMAIN turns' PROVE TurnOK(turns'[i], Len(exchanges'))
  <2>1. TurnOK(turns[i], Len(exchanges)) /\ turns'[i] = turns[i]
    BY <1>1, <1>3 DEF IInv
  <2> QED
    BY <1>2, <2>1 DEF TurnOK
<1>4. HistoryIsRetained' /\ InstructionsOutliveFailedReads'
  BY <1>1 DEF IInv, HistoryIsRetained, InstructionsOutliveFailedReads, RetainedHistory, NoHistory
<1>5. IsFiniteSet(matches') /\ ControlOK' /\ CandidateOK' /\ Contents' = Contents
  BY <1>1, FS_EmptySet DEF ControlOK, CandidateOK, Contents
<1> QED
  BY <1>1, <1>2, <1>3, <1>4, <1>5 DEF IInv

LEMMA AttemptStepKeeps ==
    ASSUME IInv, AttemptStep
    PROVE  IInv'
<1>1. ASSUME NEW q \in Queries, StartAttempt(q) PROVE IInv'
  <2>1. /\ UNCHANGED <<turns, exchanges>> /\ file' \in Contents /\ catalog' \in Nat
        /\ ControlOK' /\ CandidateOK'
    BY <1>1 DEF IInv, StartAttempt, ControlOK, CandidateOK
  <2>2. IsFiniteSet(matches')
    BY <1>1, QueriesAssumption DEF StartAttempt
  <2> QED
    BY <2>1, <2>2, TurnsStay
<1>2. CASE ContinueAfterTools
  <2>1. /\ UNCHANGED <<turns, exchanges>> /\ file' \in Contents /\ catalog' \in Nat
        /\ CandidateOK' /\ IsFiniteSet(matches')
    BY <1>2 DEF IInv, ContinueAfterTools, CandidateOK
  <2>2. ControlOK'
    BY <1>2 DEF IInv, ContinueAfterTools, ControlOK
  <2> QED
    BY <2>1, <2>2, TurnsStay
<1>3. CASE FailAttempt
  <2>1. /\ UNCHANGED <<turns, exchanges>> /\ file' \in Contents /\ catalog' \in Nat
        /\ ControlOK' /\ CandidateOK'
    BY <1>3 DEF IInv, FailAttempt, ControlOK, CandidateOK
  <2>2. IsFiniteSet(matches')
    BY <1>3, FS_EmptySet DEF FailAttempt
  <2> QED
    BY <2>1, <2>2, TurnsStay
<1>4. ASSUME NEW s \in ExchangeSizes, CompleteAttempt(s) PROVE IInv'
  BY <1>4, CompletionKeeps
<1> QED
  BY <1>1, <1>2, <1>3, <1>4 DEF AttemptStep

LEMMA EnvironmentStepKeeps ==
    ASSUME IInv, EnvironmentStep
    PROVE  IInv'
<1>1. ASSUME NEW c \in Contents, ChangeFile(c) PROVE IInv'
  <2>1. /\ UNCHANGED <<turns, exchanges>> /\ file' \in Contents /\ catalog' \in Nat
        /\ ControlOK' /\ CandidateOK' /\ IsFiniteSet(matches')
    BY <1>1 DEF IInv, ChangeFile, ControlOK, CandidateOK
  <2> QED
    BY <2>1, TurnsStay
<1>2. ASSUME NEW l \in Limits, RefreshCatalog(l) PROVE IInv'
  <2>1. /\ UNCHANGED <<turns, exchanges>> /\ file' \in Contents
        /\ ControlOK' /\ CandidateOK' /\ IsFiniteSet(matches')
    BY <1>2 DEF IInv, RefreshCatalog, ControlOK, CandidateOK
  <2>2. catalog' \in Nat
    BY <1>2, SizesAssumption DEF RefreshCatalog
  <2> QED
    BY <2>1, <2>2, TurnsStay
<1> QED
  BY <1>1, <1>2 DEF EnvironmentStep

LEMMA StutterKeeps ==
    ASSUME IInv, UNCHANGED vars
    PROVE  IInv'
<1>1. /\ UNCHANGED <<turns, exchanges>> /\ file' \in Contents /\ catalog' \in Nat
      /\ ControlOK' /\ CandidateOK' /\ IsFiniteSet(matches')
  BY DEF IInv, vars, ControlOK, CandidateOK
<1> QED
  BY <1>1, TurnsStay

LEMMA InitOK ==
    ASSUME Init
    PROVE  IInv
<1>1. file \in Contents /\ catalog \in Nat /\ exchanges \in Seq(Nat)
  BY SizesAssumption DEF Init, Contents
<1>2. IsFiniteSet(matches)
  BY FS_EmptySet DEF Init
<1>3. DOMAIN turns = {} /\ Len(turns) = 0 /\ turns = <<>>
  BY DEF Init
<1>4. ControlOK /\ CandidateOK /\ HistoryIsRetained
  BY <1>3 DEF Init, ControlOK, CandidateOK, HistoryIsRetained
<1>5. InstructionsOutliveFailedReads
  BY <1>3 DEF InstructionsOutliveFailedReads
<1> QED
  BY <1>1, <1>2, <1>3, <1>4, <1>5 DEF IInv

-----------------------------------------------------------------------------
(* Theorems. *)

\* Every bound turn is sound by itself, and the last one carries the history
\* that the next preparation reads back (prepare_context_snapshot).
THEOREM PreparedTurnsAreSound == Spec => []IInv
<1>1. Init => IInv
  BY InitOK
<1>2. IInv /\ [Next]_vars => IInv'
  BY PrepareStepKeeps, AttemptStepKeeps, EnvironmentStepKeeps, StutterKeeps DEF Next
<1> QED
  BY <1>1, <1>2, PTL DEF Spec

\* Whatever is compacted and however often, every exchange completed before a
\* request is raw in it, a group of its history, or counted as omitted
\* (compact_history, build_request_after_cutoff).
THEOREM EveryExchangeIsPresentedHolds == Spec => []EveryExchangeIsPresented
<1>1. ASSUME IInv PROVE EveryExchangeIsPresented
  <2> SUFFICES ASSUME NEW i \in DOMAIN turns
               PROVE  /\ turns[i].history.cutoff = turns[i].cutoff
                      /\ turns[i].history.compacted = turns[i].cutoff
                      /\ turns[i].history.omitted + Cardinality(turns[i].history.groups)
                           = turns[i].history.compacted
                      /\ turns[i].history.groups = turns[i].history.omitted + 1 .. turns[i].history.cutoff
                      /\ turns[i].cutoff <= turns[i].completed
    BY DEF EveryExchangeIsPresented
  <2>1. PICK t : t = turns[i] /\ TurnOK(t, Len(exchanges))
    BY <1>1 DEF IInv
  <2>2. PICK h : h = t.history /\ HistoryOK(h) /\ h.cutoff = t.cutoff /\ t.cutoff <= t.completed
    BY <2>1 DEF TurnOK
  <2>3. /\ h.cutoff \in Nat /\ h.omitted \in Nat /\ h.omitted <= h.cutoff
        /\ h.compacted = h.cutoff /\ h.groups = h.omitted + 1 .. h.cutoff
    BY <2>2 DEF HistoryOK
  <2>4. PICK a \in Int, c \in Int : a = h.omitted + 1 /\ c = h.cutoff
    BY <2>3
  <2>5. Cardinality(h.groups) = h.cutoff - h.omitted
    <3>1. Cardinality(a .. c) = IF a > c THEN 0 ELSE c - a + 1
      BY FS_Interval
    <3>2. h.cutoff - h.omitted = IF a > c THEN 0 ELSE c - a + 1
      BY <2>3, <2>4
    <3> QED
      BY <2>3, <2>4, <3>1, <3>2
  <2>6. h.omitted + Cardinality(h.groups) = h.compacted
    BY <2>3, <2>5
  <2> QED
    BY <2>1, <2>2, <2>3, <2>6
<1> QED
  BY <1>1, PreparedTurnsAreSound, PTL

\* No bound request exceeds its budget, nor do its memories their share,
\* whatever the file grows to meanwhile (exact_request_fits, fits_memory_limit).
THEOREM RequestsFitHolds == Spec => []RequestsFit
<1>1. IInv => RequestsFit
  BY DEF IInv, TurnOK, BudgetOK, RequestsFit
<1> QED
  BY <1>1, PreparedTurnsAreSound, PTL

\* A failed read of AGENTS.md is answered with what the session's requests
\* carried last, or ends the preparation (retained_workspace_agents).
THEOREM InstructionsOutliveFailedReadsHolds == Spec => []InstructionsOutliveFailedReads
<1>1. IInv => InstructionsOutliveFailedReads
  BY DEF IInv
<1> QED
  BY <1>1, PreparedTurnsAreSound, PTL

=============================================================================
