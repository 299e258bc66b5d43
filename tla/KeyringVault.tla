------------------------------ MODULE KeyringVault ------------------------------
(***************************************************************************)
(* The operating-system credential vault of crates/autoharness-app/src/    *)
(* vault.rs.  A secret is kept in chunks under one of two generations; a   *)
(* manifest entry under the reference itself names the current generation  *)
(* and its number of chunks.  Every keyring call is a step of its own, may *)
(* fail, and is followed by the next call only if the process lives.       *)
(*                                                                         *)
(* References are derived from the profile, so an entry is named by its    *)
(* profile.  `ops' holds one workflow per process that writes to the vault *)
(* (see Profiles); the operators here are the vault calls it is inside of. *)
(***************************************************************************)
EXTENDS Integers, Sequences, FiniteSets

CONSTANTS
    ProfileIds,     \* provider-profile identities
    Secrets,        \* credentials a user or a sign-in may submit
    ChunkCount,     \* keyring chunks a credential takes
    MaxCount        \* MAX_SECRET_BYTES in keyring chunks: no credential takes more

ASSUME ChunkAssumption == MaxCount \in Nat /\ ChunkCount \in [Secrets -> 1..MaxCount]

VARIABLES
    manifest,   \* [ProfileIds -> NoManifest or the current generation and its count]
    chunks      \* [ProfileIds -> [Generations -> chunk entries by index]]

vaultVars == <<manifest, chunks>>

Generations == {"a", "b"}
NoManifest == [generation |-> "none", count |-> 0]
NoChunk == <<>>

VaultInit ==
    /\ manifest = [p \in ProfileIds |-> NoManifest]
    /\ chunks = [p \in ProfileIds |-> [g \in Generations |-> [i \in 1..MaxCount |-> NoChunk]]]

\* What a complete credential looks like when its chunks are assembled.
Whole(s) == [i \in 1..ChunkCount[s] |-> <<s, i>>]

MissingEntry == <<>>

\* load: the manifest's chunks in order, or nothing when one is missing.
Load(p) ==
    LET m == manifest[p]
        parts == [i \in 1..m.count |-> chunks[p][m.generation][i]]
    IN  IF m = NoManifest \/ \E i \in 1..m.count : parts[i] = NoChunk THEN MissingEntry ELSE parts

\* The generation a write goes to: never the one the manifest names.
NextGeneration(existing) == IF existing.generation = "a" THEN "b" ELSE "a"

WriteChunk(p, g, s, i) == chunks' = [chunks EXCEPT ![p][g][i] = <<s, i>>]

WriteManifest(p, g, s) ==
    manifest' = [manifest EXCEPT ![p] = [generation |-> g, count |-> ChunkCount[s]]]

\* delete_generation: best effort over the first `count' chunks; those in
\* `kept' could not be deleted, which is ignored.
DeleteGeneration(p, g, count, kept) ==
    chunks' = [chunks EXCEPT ![p][g] =
                 [i \in 1..MaxCount |-> IF i <= count /\ i \notin kept THEN NoChunk ELSE chunks[p][g][i]]]

DeleteManifest(p) == manifest' = [manifest EXCEPT ![p] = NoManifest]
=============================================================================
