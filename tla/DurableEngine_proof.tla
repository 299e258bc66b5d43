------------------------- MODULE DurableEngine_proof -------------------------
(***************************************************************************)
(* For any number of sessions and commands, any batch size and any highest *)
(* sequence: the log can be replayed at every moment, the engine holds a   *)
(* prefix of it, a stale engine writes nothing, and callers get what       *)
(* CommandLog promises them.                                               *)
(***************************************************************************)
EXTENDS DurableEngine, TLAPS

\* A deleted session has no row, and what was executed for any other is still
\* in the log: the two facts that let Append's checks on the log stand for
\* checks on the whole history.
HistoryInLog ==
    /\ \A s \in deleted : version[s] = 0
    /\ \A b \in executed : b.command[1] \notin deleted => b \in stored

\* The parts of Replayable.
LogCovered ==
    \A s \in Sessions : \A n \in 1 .. version[s] :
        \E b \in Of(s, stored) : n \in b.first .. b.last
LogWithinVersion ==
    \A s \in Sessions : \A b \in Of(s, stored) : b.last <= version[s]
LogDisjoint ==
    \A b, d \in stored :
        b # d => /\ b.command # d.command
                 /\ b.command[1] = d.command[1] =>
                      b.last < d.first \/ d.last < b.first

\* The inductive invariant.
EngineInv == TypeOK /\ Replayable /\ MemoryIsPrefix /\ HistoryInLog

LEMMA ReplayableParts ==
    Replayable <=> LogCovered /\ LogWithinVersion /\ LogDisjoint
  BY DEF Replayable, LogCovered, LogWithinVersion, LogDisjoint

-----------------------------------------------------------------------------
(* What both forms of execute do to the log.                               *)

\* A batch that Prepare allows and Append accepts is appended at the end of
\* the log of a session that still exists, for a command that is new.
LEMMA AppendedBatch ==
  ASSUME EngineInv, NEW c \in Commands, NEW n \in 1 .. MaxBatch,
         Prepare(c, n), Append(Batch(c, n))
  PROVE  /\ Batch(c, n) \in Batches
         /\ Batch(c, n).command = c
         /\ Batch(c, n).first = version[c[1]] + 1
         /\ Batch(c, n).last = version[c[1]] + n
         /\ position[c[1]] = version[c[1]]
         /\ c[1] \in Sessions
         /\ c[1] \notin deleted
         /\ c \notin CommandsOf(stored)
         /\ stored' = stored \cup {Batch(c, n)}
         /\ version' = [version EXCEPT ![c[1]] = version[c[1]] + n]
         /\ executed' = executed \cup {Batch(c, n)}
  <1> DEFINE b == Batch(c, n)
             s == c[1]
  <1>1. s \in Sessions /\ n \in Nat /\ 1 <= n
    BY SizeAssumption DEF Commands
  <1>2. version[s] \in 0 .. MaxSequence /\ position[s] \in 0 .. MaxSequence
    BY <1>1 DEF EngineInv, TypeOK
  <1>3. /\ b.command = c
        /\ b.first = position[s] + 1
        /\ b.last = position[s] + n
    BY DEF Batch
  <1>4. /\ version[s] = b.first - 1
        /\ c \notin CommandsOf(stored)
        /\ stored' = stored \cup {b}
        /\ version' = [version EXCEPT ![s] = b.last]
        /\ executed' = executed \cup {b}
    BY <1>3 DEF Append
  <1>5. position[s] = version[s]
    BY <1>2, <1>3, <1>4
  <1>6. position[s] + 1 \in 1 .. MaxSequence /\ position[s] + n \in 1 .. MaxSequence
    BY <1>1, <1>2, SizeAssumption DEF Prepare
  <1>7. b \in Batches
    BY <1>6 DEF Batch, Batches
  <1>8. s \notin deleted
    BY <1>5 DEF EngineInv, HistoryInLog, Prepare
  <1> QED
    BY <1>1, <1>3, <1>4, <1>5, <1>7, <1>8

\* The command of an appended batch had no effect before.
LEMMA AppendedOnce ==
  ASSUME EngineInv, NEW c \in Commands, c[1] \notin deleted,
         c \notin CommandsOf(stored)
  PROVE  c \notin CommandsOf(executed)
  BY DEF EngineInv, HistoryInLog, CommandsOf

\* Appending at the end keeps the log replayable and the history in it.
LEMMA AppendKeepsLog ==
  ASSUME EngineInv, NEW c \in Commands, NEW n \in 1 .. MaxBatch,
         Prepare(c, n), Append(Batch(c, n)), deleted' = deleted
  PROVE  /\ Replayable'
         /\ HistoryInLog'
         /\ stored' \subseteq Batches
         /\ version' \in [Sessions -> 0 .. MaxSequence]
         /\ executed' \subseteq Batches
  <1> DEFINE b == Batch(c, n)
             s == c[1]
  <1>1. /\ b \in Batches
        /\ b.command = c
        /\ b.first = version[s] + 1
        /\ b.last = version[s] + n
        /\ s \in Sessions
        /\ s \notin deleted
        /\ c \notin CommandsOf(stored)
        /\ stored' = stored \cup {b}
        /\ version' = [version EXCEPT ![s] = version[s] + n]
        /\ executed' = executed \cup {b}
    BY AppendedBatch
  <1>2. /\ stored \subseteq Batches
        /\ version \in [Sessions -> 0 .. MaxSequence]
        /\ executed \subseteq Batches
    BY DEF EngineInv, TypeOK
  <1>3. n \in Nat /\ 1 <= n /\ b.last \in 1 .. MaxSequence
    BY <1>1, SizeAssumption DEF Batches
  <1>4. version' \in [Sessions -> 0 .. MaxSequence]
    <2>1. version[s] + n \in 0 .. MaxSequence
      BY <1>1, <1>3
    <2> QED
      BY <1>1, <1>2, <2>1
  <1>5. \A d \in stored : /\ d \in Batches
                          /\ d.first \in Nat /\ d.last \in Nat
                          /\ d.command # c
    BY <1>1, <1>2 DEF Batches, CommandsOf
  <1>6. LogCovered /\ LogWithinVersion /\ LogDisjoint
    BY ReplayableParts DEF EngineInv
  <1>7. LogWithinVersion'
    <2> SUFFICES ASSUME NEW t \in Sessions, NEW d \in stored',
                        d.command[1] = t
                 PROVE  d.last <= version'[t]
      BY DEF LogWithinVersion, Of
    <2>1. CASE d = b
      BY <1>1, <1>2, <1>3, <2>1
    <2>2. CASE d # b
      <3>1. d \in stored
        BY <1>1, <2>2
      <3>2. d.last <= version[t]
        BY <1>6, <3>1 DEF LogWithinVersion, Of
      <3>3. version[t] <= version'[t] /\ version[t] \in Nat /\ version'[t] \in Nat
        BY <1>1, <1>2, <1>3
      <3> QED
        BY <3>1, <3>2, <3>3, <1>5
    <2> QED
      BY <2>1, <2>2
  <1>8. LogCovered'
    <2> SUFFICES ASSUME NEW t \in Sessions, NEW m \in 1 .. version'[t]
                 PROVE  \E d \in stored' :
                           d.command[1] = t /\ m \in d.first .. d.last
      BY DEF LogCovered, Of
    <2>1. CASE m \in 1 .. version[t]
      <3>1. PICK d \in stored : d.command[1] = t /\ m \in d.first .. d.last
        BY <1>6, <2>1 DEF LogCovered, Of
      <3> QED
        BY <3>1, <1>1
    <2>2. CASE m \notin 1 .. version[t]
      <3>1. t = s
        BY <1>1, <1>2, <2>2
      <3>2. m \in Int /\ version[s] \in Nat /\ version'[s] = version[s] + n
        BY <1>1, <1>2
      <3>3. m \in b.first .. b.last
        BY <1>1, <1>3, <2>2, <3>1, <3>2
      <3> QED
        BY <1>1, <3>1, <3>3
    <2> QED
      BY <2>1, <2>2
  <1>9. LogDisjoint'
    <2>1. \A d \in stored : d.command[1] = s => d.last < b.first
      <3> SUFFICES ASSUME NEW d \in stored, d.command[1] = s
                   PROVE  d.last < b.first
        OBVIOUS
      <3>1. d.last <= version[s]
        BY <1>1, <1>6 DEF LogWithinVersion, Of
      <3>2. version[s] \in Nat
        BY <1>1, <1>2
      <3> QED
        BY <3>1, <3>2, <1>1, <1>5
    <2> QED
      BY <1>1, <1>5, <1>6, <2>1 DEF LogDisjoint
  <1>10. HistoryInLog'
    <2>1. \A t \in deleted' : version'[t] = 0
      BY <1>1, <1>2 DEF EngineInv, HistoryInLog, TypeOK
    <2>2. \A d \in executed' : d.command[1] \notin deleted' => d \in stored'
      BY <1>1 DEF EngineInv, HistoryInLog
    <2> QED
      BY <2>1, <2>2 DEF HistoryInLog
  <1>11. Replayable'
    BY <1>7, <1>8, <1>9 DEF Replayable, LogCovered, LogWithinVersion, LogDisjoint
  <1> QED
    BY <1>1, <1>2, <1>4, <1>10, <1>11

-----------------------------------------------------------------------------
(* Every action preserves the invariant.                                   *)

LEMMA InitEstablishes == Init => EngineInv
  <1> SUFFICES ASSUME Init PROVE EngineInv
    OBVIOUS
  <1>1. TypeOK
    BY SizeAssumption DEF Init, TypeOK
  <1>2. Replayable
    BY DEF Init, Replayable, Of
  <1>3. MemoryIsPrefix
    <2>1. \A s \in Sessions : position[s] = 0 /\ version[s] = 0
      BY DEF Init
    <2>2. \A s \in Sessions : Of(s, memory) = {} /\ Of(s, stored) = {}
      BY DEF Init, Of
    <2>3. \A s \in Sessions : position[s] <= version[s]
      <3>1. 0 <= 0
        OBVIOUS
      <3> QED
        BY <2>1, <3>1, Zenon
    <2>4. \A s \in Sessions :
             Of(s, memory) = {b \in Of(s, stored) : b.last <= position[s]}
      BY <2>2, Zenon
    <2> QED
      BY <2>3, <2>4, Zenon DEF MemoryIsPrefix
  <1>4. HistoryInLog
    BY DEF Init, HistoryInLog
  <1> QED
    BY <1>1, <1>2, <1>3, <1>4 DEF EngineInv

LEMMA ExecutePreserves ==
  ASSUME EngineInv, NEW c \in Commands, NEW n \in 1 .. MaxBatch, Execute(c, n)
  PROVE  EngineInv'
  <1> DEFINE b == Batch(c, n)
             s == c[1]
  <1>1. Prepare(c, n) /\ Append(b) /\ Publish(b) /\ deleted' = deleted
        /\ alive' = alive /\ told' = told \cup {c}
    BY DEF Execute
  <1>2. /\ b \in Batches
        /\ b.command = c
        /\ b.last = version[s] + n
        /\ position[s] = version[s]
        /\ s \in Sessions
        /\ s \notin deleted
        /\ stored' = stored \cup {b}
        /\ version' = [version EXCEPT ![s] = version[s] + n]
    BY <1>1, AppendedBatch
  <1>3. /\ Replayable'
        /\ HistoryInLog'
        /\ stored' \subseteq Batches
        /\ version' \in [Sessions -> 0 .. MaxSequence]
        /\ executed' \subseteq Batches
    BY <1>1, AppendKeepsLog
  <1>4. /\ memory' = memory \cup {b}
        /\ position' = [position EXCEPT ![s] = version[s] + n]
        /\ commandIds' = commandIds \cup {c}
    BY <1>1, <1>2 DEF Publish
  <1>5. TypeOK'
    <2>1. version[s] + n \in 0 .. MaxSequence
      BY <1>2, <1>3 DEF EngineInv, TypeOK
    <2> QED
      BY <1>1, <1>2, <1>3, <1>4, <2>1 DEF EngineInv, TypeOK
  <1>6. MemoryIsPrefix'
    <2> SUFFICES ASSUME NEW t \in Sessions \ deleted
                 PROVE  /\ position'[t] <= version'[t]
                        /\ Of(t, memory)' =
                             {d \in Of(t, stored)' : d.last <= position'[t]}
      BY <1>1 DEF MemoryIsPrefix
    <2>1. /\ position[t] <= version[t]
          /\ Of(t, memory) = {d \in Of(t, stored) : d.last <= position[t]}
      BY <1>1 DEF EngineInv, MemoryIsPrefix, Prepare
    <2>2. position[t] \in Nat /\ version[t] \in Nat /\ n \in Nat /\ 1 <= n
      BY SizeAssumption DEF EngineInv, TypeOK
    <2>3. CASE t # s
      <3>1. position'[t] = position[t] /\ version'[t] = version[t]
        BY <1>2, <1>4, <2>3 DEF EngineInv, TypeOK
      <3>2. Of(t, memory)' = Of(t, memory) /\ Of(t, stored)' = Of(t, stored)
        BY <1>2, <1>4, <2>3 DEF Of
      <3> QED
        BY <2>1, <3>1, <3>2
    <2>4. CASE t = s
      <3>1. position'[s] = version[s] + n /\ version'[s] = version[s] + n
        BY <1>2, <1>4 DEF EngineInv, TypeOK
      <3>2. \A d \in Of(s, stored) : d.last \in Nat /\ d.last <= version[s]
        BY <1>2 DEF EngineInv, Replayable, TypeOK, Batches, Of
      <3>3. Of(s, memory) = Of(s, stored)
        BY <1>2, <2>1, <2>4, <3>2
      <3>4. /\ Of(s, memory)' = Of(s, memory) \cup {b}
            /\ Of(s, stored)' = Of(s, stored) \cup {b}
        BY <1>2, <1>4 DEF Of
      <3>5. \A d \in Of(s, stored)' : d.last <= position'[s]
        BY <1>2, <2>2, <2>4, <3>1, <3>2, <3>4
      <3>6. position'[s] <= version'[s]
        BY <2>2, <2>4, <3>1
      <3> QED
        BY <2>4, <3>3, <3>4, <3>5, <3>6
    <2> QED
      BY <2>3, <2>4
  <1> QED
    BY <1>3, <1>5, <1>6 DEF EngineInv

LEMMA ExecuteUnacknowledgedPreserves ==
  ASSUME EngineInv, NEW c \in Commands, NEW n \in 1 .. MaxBatch,
         ExecuteUnacknowledged(c, n)
  PROVE  EngineInv'
  <1> DEFINE b == Batch(c, n)
             s == c[1]
  <1>1. Prepare(c, n) /\ Append(b) /\ UNCHANGED <<process, told, deleted>>
    BY DEF ExecuteUnacknowledged
  <1>2. /\ b.command = c
        /\ b.last = version[s] + n
        /\ position[s] = version[s]
        /\ s \in Sessions
        /\ stored' = stored \cup {b}
        /\ version' = [version EXCEPT ![s] = version[s] + n]
    BY <1>1, AppendedBatch
  <1>3. /\ Replayable'
        /\ HistoryInLog'
        /\ stored' \subseteq Batches
        /\ version' \in [Sessions -> 0 .. MaxSequence]
        /\ executed' \subseteq Batches
    BY <1>1, AppendKeepsLog
  <1>4. TypeOK'
    BY <1>1, <1>3 DEF EngineInv, TypeOK, process
  <1>5. MemoryIsPrefix'
    <2> SUFFICES ASSUME NEW t \in Sessions \ deleted
                 PROVE  /\ position[t] <= version'[t]
                        /\ Of(t, memory) =
                             {d \in Of(t, stored)' : d.last <= position[t]}
      BY <1>1 DEF MemoryIsPrefix, process, Of
    <2>1. /\ position[t] <= version[t]
          /\ Of(t, memory) = {d \in Of(t, stored) : d.last <= position[t]}
      BY <1>1 DEF EngineInv, MemoryIsPrefix, Prepare
    <2>2. position[t] \in Nat /\ version[t] \in Nat /\ n \in Nat /\ 1 <= n
      BY SizeAssumption DEF EngineInv, TypeOK
    <2>3. CASE t # s
      <3>1. version'[t] = version[t] /\ Of(t, stored)' = Of(t, stored)
        BY <1>2, <2>3 DEF EngineInv, TypeOK, Of
      <3> QED
        BY <2>1, <3>1
    <2>4. CASE t = s
      <3>1. version'[s] = version[s] + n
        BY <1>2 DEF EngineInv, TypeOK
      <3>2. Of(s, stored)' = Of(s, stored) \cup {b}
        BY <1>2 DEF Of
      <3>3. ~ (b.last <= position[s])
        BY <1>2, <2>2, <2>4
      <3>4. position[s] <= version'[s]
        BY <1>2, <2>2, <2>4, <3>1
      <3> QED
        BY <2>1, <2>4, <3>2, <3>3, <3>4
    <2> QED
      BY <2>3, <2>4
  <1> QED
    BY <1>3, <1>4, <1>5 DEF EngineInv

LEMMA DeleteSessionPreserves ==
  ASSUME EngineInv, NEW s \in Sessions, DeleteSession(s)
  PROVE  EngineInv'
  <1>1. /\ stored' = stored \ Of(s, stored)
        /\ version' = [version EXCEPT ![s] = 0]
        /\ deleted' = deleted \cup {s}
        /\ UNCHANGED <<alive, memory, position, commandIds, executed, told>>
    BY DEF DeleteSession, process
  <1>2. TypeOK'
    BY <1>1, SizeAssumption DEF EngineInv, TypeOK
  <1>3. \A t \in Sessions \ {s} :
            version'[t] = version[t] /\ Of(t, stored)' = Of(t, stored)
    BY <1>1 DEF EngineInv, TypeOK, Of
  <1>4. version'[s] = 0 /\ Of(s, stored)' = {}
    BY <1>1 DEF EngineInv, TypeOK, Of
  <1>5. Replayable'
    <2>1. LogCovered /\ LogWithinVersion /\ LogDisjoint
      BY ReplayableParts DEF EngineInv
    <2>2. LogCovered'
      BY <1>3, <1>4, <2>1 DEF LogCovered
    <2>3. LogWithinVersion'
      BY <1>3, <1>4, <2>1 DEF LogWithinVersion
    <2>4. LogDisjoint'
      BY <1>1, <2>1 DEF LogDisjoint
    <2> QED
      BY <2>2, <2>3, <2>4 DEF Replayable, LogCovered, LogWithinVersion, LogDisjoint
  <1>6. MemoryIsPrefix'
    <2> SUFFICES ASSUME alive, NEW t \in Sessions \ (deleted \cup {s})
                 PROVE  /\ position[t] <= version'[t]
                        /\ Of(t, memory) =
                             {d \in Of(t, stored)' : d.last <= position[t]}
      BY <1>1 DEF MemoryIsPrefix, Of
    <2> QED
      BY <1>3 DEF EngineInv, MemoryIsPrefix
  <1>7. HistoryInLog'
    BY <1>1 DEF EngineInv, HistoryInLog, TypeOK, Of
  <1> QED
    BY <1>2, <1>5, <1>6, <1>7 DEF EngineInv

LEMMA CrashPreserves ==
  ASSUME EngineInv, Crash
  PROVE  EngineInv'
  <1> USE DEF Crash, database, history
  <1>1. TypeOK'
    <2>1. alive' \in BOOLEAN
      BY Zenon
    <2>2. position' \in [Sessions -> 0 .. MaxSequence]
      BY SizeAssumption
    <2> QED
      BY <2>1, <2>2 DEF EngineInv, TypeOK
  <1>2. Replayable' /\ HistoryInLog'
    BY DEF EngineInv, Replayable, HistoryInLog, Of
  <1>3. MemoryIsPrefix'
    BY DEF MemoryIsPrefix
  <1> QED
    BY <1>1, <1>2, <1>3 DEF EngineInv

LEMMA RecoverPreserves ==
  ASSUME EngineInv, Recover
  PROVE  EngineInv'
  <1> USE DEF Recover, database, history
  <1>1. TypeOK'
    BY DEF EngineInv, TypeOK, CommandsOf, Batches
  <1>2. Replayable' /\ HistoryInLog'
    BY DEF EngineInv, Replayable, HistoryInLog, Of
  <1>3. MemoryIsPrefix'
    BY DEF EngineInv, TypeOK, Replayable, MemoryIsPrefix, Of
  <1> QED
    BY <1>1, <1>2, <1>3 DEF EngineInv

LEMMA NextPreserves == EngineInv /\ [Next]_vars => EngineInv'
  <1> SUFFICES ASSUME EngineInv, [Next]_vars PROVE EngineInv'
    OBVIOUS
  <1>1. CASE \E c \in Commands, n \in 1 .. MaxBatch : Execute(c, n)
    BY <1>1, ExecutePreserves
  <1>2. CASE \E c \in Commands, n \in 1 .. MaxBatch : ExecuteUnacknowledged(c, n)
    BY <1>2, ExecuteUnacknowledgedPreserves
  <1>3. CASE \E s \in Sessions : DeleteSession(s)
    BY <1>3, DeleteSessionPreserves
  <1>4. CASE Crash
    BY <1>4, CrashPreserves
  <1>5. CASE Recover
    BY <1>5, RecoverPreserves
  <1>6. CASE UNCHANGED vars
    BY <1>6 DEF vars, database, process, history, EngineInv, TypeOK, Replayable,
                MemoryIsPrefix, HistoryInLog, Of
  <1> QED
    BY <1>1, <1>2, <1>3, <1>4, <1>5, <1>6 DEF Next

\* The invariant holds in every state: lost acknowledgements, deletions and
\* crashes between the log and the aggregate included.
THEOREM EngineInvariantHolds == Spec => []EngineInv
  BY InitEstablishes, NextPreserves, PTL DEF Spec

\* The variables keep their types (engine.rs, durable.rs, sqlite_store.rs).
THEOREM TypeCorrect == Spec => []TypeOK
  <1>1. EngineInv => TypeOK
    BY DEF EngineInv
  <1> QED
    BY EngineInvariantHolds, <1>1, PTL

\* DurableEngine::recover never meets a log it cannot replay.
THEOREM RecoverySafe == Spec => []LogIsReplayable
  <1>1. EngineInv => LogIsReplayable
    BY DEF EngineInv, LogIsReplayable
  <1> QED
    BY EngineInvariantHolds, <1>1, PTL

\* A running engine holds a prefix of each surviving session's log.
THEOREM PrefixSafe == Spec => []MemoryIsPrefix
  <1>1. EngineInv => MemoryIsPrefix
    BY DEF EngineInv
  <1> QED
    BY EngineInvariantHolds, <1>1, PTL

-----------------------------------------------------------------------------
(* The action property.                                                    *)

LEMMA StepIsNotStale == EngineInv /\ [Next]_vars => [StaleStep]_vars
  <1> SUFFICES ASSUME EngineInv, [Next]_vars, NEW s \in Sessions,
                      position[s] # version[s]
               PROVE  /\ Of(s, executed') = Of(s, executed)
                      /\ Of(s, stored') \subseteq Of(s, stored)
    BY DEF StaleStep
  <1>1. ASSUME NEW c \in Commands, NEW n \in 1 .. MaxBatch,
               Prepare(c, n), Append(Batch(c, n))
        PROVE  /\ Of(s, executed') = Of(s, executed)
               /\ Of(s, stored') \subseteq Of(s, stored)
    <2>1. /\ Batch(c, n).command = c
          /\ position[c[1]] = version[c[1]]
          /\ stored' = stored \cup {Batch(c, n)}
          /\ executed' = executed \cup {Batch(c, n)}
      BY <1>1, AppendedBatch
    <2> QED
      BY <2>1 DEF Of
  <1>2. CASE \E c \in Commands, n \in 1 .. MaxBatch : Execute(c, n)
    BY <1>1, <1>2 DEF Execute
  <1>3. CASE \E c \in Commands, n \in 1 .. MaxBatch : ExecuteUnacknowledged(c, n)
    BY <1>1, <1>3 DEF ExecuteUnacknowledged
  <1>4. CASE \E t \in Sessions : DeleteSession(t)
    BY <1>4 DEF DeleteSession, Of
  <1>5. CASE Crash \/ Recover \/ UNCHANGED vars
    BY <1>5 DEF Crash, Recover, vars, database, history, Of
  <1> QED
    BY <1>2, <1>3, <1>4, <1>5 DEF Next

\* SqliteStore::append refuses every batch of an engine whose aggregate the
\* log has left, after a lost acknowledgement or a deletion.
THEOREM StaleEngineSafe == Spec => StaleEngineWritesNothing
  BY EngineInvariantHolds, StepIsNotStale, PTL DEF Spec, StaleEngineWritesNothing

-----------------------------------------------------------------------------
(* The refinement.                                                         *)

LEMMA InitImplements == Init => Promise!Init
  BY DEF Init, Promise!Init, CommandsOf

LEMMA StepImplements ==
    EngineInv /\ [Next]_vars
        => [Promise!Next]_<<CommandsOf(executed), told, deleted>>
  <1> SUFFICES ASSUME EngineInv, [Next]_vars
               PROVE  \/ Promise!Next
                      \/ UNCHANGED <<CommandsOf(executed), told, deleted>>
    OBVIOUS
  <1>1. ASSUME NEW c \in Commands, NEW n \in 1 .. MaxBatch,
               Prepare(c, n), Append(Batch(c, n)),
               told' \in {told, told \cup {c}}, deleted' = deleted
        PROVE  Promise!Do(c)
    <2>1. /\ Batch(c, n).command = c
          /\ c[1] \notin deleted
          /\ c \notin CommandsOf(stored)
          /\ executed' = executed \cup {Batch(c, n)}
      BY <1>1, AppendedBatch
    <2>2. c \notin CommandsOf(executed)
      BY <2>1, AppendedOnce
    <2>3. CommandsOf(executed)' = CommandsOf(executed) \cup {c}
      BY <2>1 DEF CommandsOf
    <2> QED
      BY <1>1, <2>1, <2>2, <2>3 DEF Promise!Do, Promise!Commands, Commands
  <1>2. CASE \E c \in Commands, n \in 1 .. MaxBatch : Execute(c, n)
    <2>1. PICK c \in Commands, n \in 1 .. MaxBatch : Execute(c, n)
      BY <1>2
    <2>2. Promise!Do(c)
      BY <1>1, <2>1 DEF Execute
    <2> QED
      BY <2>2 DEF Promise!Next, Promise!Commands, Commands
  <1>3. CASE \E c \in Commands, n \in 1 .. MaxBatch : ExecuteUnacknowledged(c, n)
    <2>1. PICK c \in Commands, n \in 1 .. MaxBatch : ExecuteUnacknowledged(c, n)
      BY <1>3
    <2>2. Promise!Do(c)
      BY <1>1, <2>1 DEF ExecuteUnacknowledged
    <2> QED
      BY <2>2 DEF Promise!Next, Promise!Commands, Commands
  <1>4. CASE \E s \in Sessions : DeleteSession(s)
    BY <1>4 DEF DeleteSession, CommandsOf, Promise!Next, Promise!Drop
  <1>5. CASE Crash \/ Recover \/ UNCHANGED vars
    BY <1>5 DEF Crash, Recover, vars, database, history, CommandsOf
  <1> QED
    BY <1>2, <1>3, <1>4, <1>5 DEF Next

\* The durable engine implements the promise to callers: each command takes
\* effect at most once under any repetition, restart and lost answer, no
\* success is reported without its effect, and a deleted session stays as it
\* was (DurableEngine::execute over SqliteStore::append).
THEOREM EngineKeepsPromise == Spec => KeepsPromise
  BY EngineInvariantHolds, InitImplements, StepImplements, PTL
     DEF Spec, KeepsPromise, Promise!Spec

=============================================================================
