---------------------------- MODULE DurableEngine ----------------------------
(***************************************************************************)
(* The durable engine (crates/autoharness-engine/src/engine.rs, durable.rs) *)
(* over the store's append: aggregates in memory, the log in SQLite, and a *)
(* process that may lose an acknowledgement or die between the two.        *)
(*                                                                         *)
(* An event batch is one command's events, with consecutive sequences;     *)
(* what the events say is the subject of Session and SessionStore. A       *)
(* caller may send any command any number of times. Event identities are   *)
(* generated anew for every attempt at a command, so the store never meets *)
(* a batch it already has; the command identity is what tells a repetition. *)
(***************************************************************************)
EXTENDS Integers

CONSTANTS
    Sessions,    \* SessionId
    Tags,        \* what distinguishes the CommandIds of one session
    MaxBatch,    \* most events one command produces
    MaxSequence  \* SessionSequence::MAX

ASSUME SizeAssumption == MaxBatch \in Nat /\ MaxSequence \in Nat

Commands == Sessions \X Tags

Batches ==
    [ command : Commands,
      first   : 1 .. MaxSequence,
      last    : 1 .. MaxSequence ]

VARIABLES
    \* the database
    stored,     \* session_events, one element per command
    version,    \* sessions.last_sequence, 0 without a row
    \* the process
    alive,
    memory,     \* InMemoryEngine.events
    position,   \* last_sequence of each aggregate, 0 without one
    commandIds, \* InMemoryEngine.command_ids
    \* history
    executed,   \* every batch a transaction ever committed
    told,       \* commands whose caller received their events
    deleted     \* deleted sessions

database == <<stored, version>>
process == <<alive, memory, position, commandIds>>
history == <<executed, told, deleted>>
vars == <<database, process, history>>

Init ==
    /\ stored = {}
    /\ version = [s \in Sessions |-> 0]
    /\ alive = TRUE
    /\ memory = {}
    /\ position = [s \in Sessions |-> 0]
    /\ commandIds = {}
    /\ executed = {}
    /\ told = {}
    /\ deleted = {}

Of(s, batches) == {b \in batches : b.command[1] = s}
CommandsOf(batches) == {b.command : b \in batches}

-----------------------------------------------------------------------------
(* execute: prepare on the aggregate, append, then publish.                *)

\* InMemoryEngine::prepare, for a command that decide answers with n events.
\* Session identities are generated, so a deleted one is not created again.
Prepare(c, n) ==
    /\ alive
    /\ c \notin commandIds
    /\ n \in 1 .. MaxBatch
    /\ position[c[1]] + n <= MaxSequence
    /\ position[c[1]] = 0 => c[1] \notin deleted

Batch(c, n) ==
    [ command |-> c,
      first   |-> position[c[1]] + 1,
      last    |-> position[c[1]] + n ]

\* Mutant: the append goes where the log ends, whatever the engine expected.
AppendAnywhere(b) ==
    /\ b.command \notin CommandsOf(stored)
    /\ stored' = stored \cup {b}
    /\ version' = [version EXCEPT ![b.command[1]] = b.last]
    /\ executed' = executed \cup {b}

\* Mutant: a session without a row is taken to be at any version.
AppendToMissing(b) ==
    /\ version[b.command[1]] \in {0, b.first - 1}
    /\ b.command \notin CommandsOf(stored)
    /\ stored' = stored \cup {b}
    /\ version' = [version EXCEPT ![b.command[1]] = b.last]
    /\ executed' = executed \cup {b}

\* SqliteStore::append: VersionConflict unless the log ends where the engine
\* thinks, IdentityConflict for a command that already caused an event.
Append(b) ==
    /\ version[b.command[1]] = b.first - 1
    /\ b.command \notin CommandsOf(stored)
    /\ stored' = stored \cup {b}
    /\ version' = [version EXCEPT ![b.command[1]] = b.last]
    /\ executed' = executed \cup {b}

\* commit_prepared.
Publish(b) ==
    /\ memory' = memory \cup {b}
    /\ position' = [position EXCEPT ![b.command[1]] = b.last]
    /\ commandIds' = commandIds \cup {b.command}

Execute(c, n) ==
    /\ Prepare(c, n)
    /\ Append(Batch(c, n))
    /\ Publish(Batch(c, n))
    /\ told' = told \cup {c}
    /\ UNCHANGED <<alive, deleted>>

\* The transaction commits, and an error is returned all the same: nothing is
\* published. Refusals and failures before the commit change nothing at all.
ExecuteUnacknowledged(c, n) ==
    /\ Prepare(c, n)
    /\ Append(Batch(c, n))
    /\ UNCHANGED <<process, told, deleted>>

-----------------------------------------------------------------------------

\* The storage thread deletes through store_mut, behind the engine's back.
DeleteSession(s) ==
    /\ alive
    /\ version[s] > 0
    /\ stored' = stored \ Of(s, stored)
    /\ version' = [version EXCEPT ![s] = 0]
    /\ deleted' = deleted \cup {s}
    /\ UNCHANGED <<process, executed, told>>

Crash ==
    /\ alive
    /\ alive' = FALSE
    /\ memory' = {}
    /\ position' = [s \in Sessions |-> 0]
    /\ commandIds' = {}
    /\ UNCHANGED <<database, history>>

\* What load_events, list_sessions and replay insist on: each session's events
\* run from 1 to last_sequence without gap or overlap, and no command caused
\* two batches.
Replayable ==
    /\ \A s \in Sessions :
          /\ \A n \in 1 .. version[s] :
                \E b \in Of(s, stored) : n \in b.first .. b.last
          /\ \A b \in Of(s, stored) : b.last <= version[s]
    /\ \A b, d \in stored :
          b # d => /\ b.command # d.command
                   /\ b.command[1] = d.command[1] =>
                        b.last < d.first \/ d.last < b.first

\* DurableEngine::recover. A log that cannot be replayed stops the start.
Recover ==
    /\ ~alive
    /\ Replayable
    /\ alive' = TRUE
    /\ memory' = stored
    /\ position' = version
    /\ commandIds' = CommandsOf(stored)
    /\ UNCHANGED <<database, history>>

Next ==
    \/ \E c \in Commands, n \in 1 .. MaxBatch : Execute(c, n)
    \/ \E c \in Commands, n \in 1 .. MaxBatch : ExecuteUnacknowledged(c, n)
    \/ \E s \in Sessions : DeleteSession(s)
    \/ Crash
    \/ Recover

Spec == Init /\ [][Next]_vars

-----------------------------------------------------------------------------
(* Properties.                                                             *)

\* Every variable holds what its Rust type holds.
TypeOK ==
    /\ stored \subseteq Batches
    /\ version \in [Sessions -> 0 .. MaxSequence]
    /\ alive \in BOOLEAN
    /\ memory \subseteq Batches
    /\ position \in [Sessions -> 0 .. MaxSequence]
    /\ commandIds \subseteq Commands
    /\ executed \subseteq Batches
    /\ told \subseteq Commands
    /\ deleted \subseteq Sessions

\* Whatever was lost, repeated or deleted before, the next start can replay
\* the log.
LogIsReplayable == Replayable

\* The engine never knows more than the log: what it holds of a session that
\* was not deleted is a prefix of the log, whole batches in their places.
MemoryIsPrefix ==
    alive =>
        \A s \in Sessions \ deleted :
            /\ position[s] <= version[s]
            /\ Of(s, memory) = {b \in Of(s, stored) : b.last <= position[s]}

\* An engine that missed an acknowledgement, or whose session was deleted,
\* writes nothing more to that session before it is recovered: what it
\* decides, it decides on a state the log has left.
StaleStep ==
    \A s \in Sessions :
        alive /\ position[s] # version[s] =>
            /\ Of(s, executed') = Of(s, executed)
            /\ Of(s, stored') \subseteq Of(s, stored)
StaleEngineWritesNothing == [][StaleStep]_vars

\* The engine keeps its promise to callers: at most one effect per command
\* under any repetition, no success reported without its effect, and no
\* effect on a deleted session.
Promise == INSTANCE CommandLog
    WITH done <- CommandsOf(executed), told <- told, gone <- deleted
KeepsPromise == Promise!Spec

=============================================================================
