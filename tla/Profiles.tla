------------------------------ MODULE Profiles ------------------------------
(***************************************************************************)
(* Provider profiles and their credentials: the profile document and the   *)
(* recoverable credential workflows of crates/autoharness-app/src/         *)
(* profiles.rs (ADR-0013), the coordinator's profile, credential, catalog  *)
(* and sign-in handlers around them (coordinator.rs), the launch           *)
(* resolution of main.rs and credential.rs, and the token refresh of the   *)
(* Codex adapter, which writes to the vault from a background task.        *)
(*                                                                         *)
(* A workflow is a sequence of document writes and keyring calls; the      *)
(* process can die between any two of them and each of them can fail.  The *)
(* coordinator serves one command at a time.  Attempts are not modelled:   *)
(* while one runs the mutating commands are refused, which only removes    *)
(* behaviour.                                                              *)
(***************************************************************************)
EXTENDS KeyringVault

CONSTANTS
    Kinds,          \* provider kinds
    SignInKind,     \* the kind whose credential comes from a browser sign-in and is refreshed
    DefaultKind,    \* the kind launched without an active profile
    EnvironmentKinds, \* kinds with a credential in the process environment
    Refreshers,     \* background tasks that may refresh a signed-in credential
    NoProfile,
    MaxCommands,    \* bound: commands of the user and token refreshes
    MaxFaults,      \* bound: failing document writes and keyring calls
    MaxCrashes      \* bound: crashes

ASSUME KindsAssumption == {SignInKind, DefaultKind} \cup EnvironmentKinds \subseteq Kinds
ASSUME ProfileNamesAssumption == NoProfile \notin ProfileIds
ASSUME RefreshersAssumption == "coordinator" \notin Refreshers

VARIABLES
    document,   \* the profile document: profiles, active profile, recovery records
    ops,        \* the workflow each process is inside of
    provider,   \* the coordinator's adapter: for which profile, with which credential
    sentinel,   \* the session-only credential the coordinator redacts
    models,     \* the adapter that listed catalog_models
    refreshes,  \* catalog refreshes whose answer is still to come
    catalogGeneration,
    verified,   \* the credential with which a profile's connection was found ready
    tests,      \* connection tests whose answer is still to come
    used,       \* how much of each bound is used
    overlapped  \* observer: profiles whose vault entry two workflows were at work on at once

profileVars == <<document, ops, provider, sentinel, models, refreshes, catalogGeneration,
                 verified, tests, used, overlapped>>
vars == <<vaultVars, profileVars>>

Coordinator == "coordinator"
Processes == {Coordinator} \cup Refreshers

NoSecret == MissingEntry
NoAdapter == [profile |-> NoProfile, secret |-> NoSecret]
Unverified == NoSecret
Absent == [kind |-> "absent", linked |-> FALSE]
NoOp == [kind |-> "none", pc |-> "idle"]

Op(kind, p, s, pc) ==
    [kind |-> kind, profile |-> p, secret |-> s, pc |-> pc, next |-> 1, generation |-> "a",
     old |-> NoManifest, ok |-> TRUE, active |-> document.active = p, todo |-> {}]

Idle(w) == ops[w] = NoOp
Serving == Idle(Coordinator)
At(w, pc) == ops[w].pc = pc
Goto(w, pc) == ops' = [ops EXCEPT ![w].pc = pc]
Fails(w) == ops' = [ops EXCEPT ![w].pc = "tail", ![w].ok = FALSE]
Fault == used.faults < MaxFaults /\ used' = [used EXCEPT !.faults = @ + 1]
Command == Serving /\ used.commands < MaxCommands /\ used' = [used EXCEPT !.commands = @ + 1]

Exists(p) == document.profiles[p] # Absent
Linked(p) == document.profiles[p].linked
PendingRecovery == {p \in ProfileIds : document.recovery[p] # "none"}

-----------------------------------------------------------------------------
(* Writes of the profile document: mutate_document, one atomic rename. *)

SetProfile(doc, p, kind, linked) == [doc EXCEPT !.profiles[p] = [kind |-> kind, linked |-> linked]]

\* push_recovery keeps one record per reference, the newest.
PushRecovery(doc, p, kind) == [doc EXCEPT !.recovery[p] = kind]

\* remove_recovery takes away exactly the given record.
RemoveRecovery(doc, p, kind) ==
    [doc EXCEPT !.recovery[p] = IF @ = kind THEN "none" ELSE @]

\* An existing link is kept; a linked profile does not change its kind.
UpsertAllowed(p, kind) == Linked(p) => document.profiles[p].kind = kind

Upserted(doc, p, kind) == SetProfile(doc, p, kind, doc.profiles[p].linked)

SetActiveProfile(doc, p) == [doc EXCEPT !.active = p]

BeginSave(doc, p) == PushRecovery(doc, p, "uncommitted_save")

CommitSave(doc, p) ==
    RemoveRecovery(SetProfile(doc, p, doc.profiles[p].kind, TRUE), p, "uncommitted_save")

\* A disconnect that unlinks the credential and does not say what is left to delete.
BeginDisconnectUnrecorded(doc, p) == SetProfile(doc, p, doc.profiles[p].kind, FALSE)

BeginDisconnect(doc, p) ==
    PushRecovery(SetProfile(doc, p, doc.profiles[p].kind, FALSE), p, "delete")

BeginDelete(doc, p) ==
    PushRecovery([doc EXCEPT !.profiles[p] = Absent, !.active = IF @ = p THEN NoProfile ELSE @],
                 p, "delete")

FinishRecovery(doc, p) == RemoveRecovery(doc, p, doc.recovery[p])

-----------------------------------------------------------------------------
(* The adapter in use. *)

EnvironmentSecret(kind) == <<<<"environment", kind>>>>

\* provider_for_profile: the environment wins, then the linked vault entry.
CredentialFor(p) ==
    LET kind == document.profiles[p].kind
    IN  CASE kind \in EnvironmentKinds -> EnvironmentSecret(kind)
          [] kind \notin EnvironmentKinds /\ Linked(p) -> Load(p)
          [] OTHER -> MissingEntry

Adapter(p, secret) == [profile |-> p, secret |-> secret]

\* A refresh that answers under the generation already in use.
RefreshSameGeneration(adapter) ==
    /\ refreshes' = refreshes \cup {[generation |-> catalogGeneration, who |-> adapter]}
    /\ UNCHANGED catalogGeneration

\* refresh_catalog: the answer to an older generation will be ignored.
RefreshCatalogOf(adapter) ==
    /\ catalogGeneration' = catalogGeneration + 1
    /\ refreshes' = refreshes \cup {[generation |-> catalogGeneration + 1, who |-> adapter]}

NoAdapterNow ==
    /\ provider' = NoAdapter /\ models' = NoAdapter
    /\ UNCHANGED <<refreshes, catalogGeneration>>

\* A configuration that keeps the adapter in use when there is none to build.
ConfigureKeepingAdapter(p, readable) ==
    /\ sentinel' = NoSecret
    /\ IF readable /\ CredentialFor(p) # MissingEntry
       THEN /\ provider' = Adapter(p, CredentialFor(p))
            /\ models' = NoAdapter
            /\ RefreshCatalogOf(Adapter(p, CredentialFor(p)))
       ELSE UNCHANGED <<provider, models, refreshes, catalogGeneration>>

\* configure_active_profile; `readable' is whether the vault answers.
ConfigureActiveProfile(p, readable) ==
    /\ sentinel' = NoSecret
    /\ IF readable /\ CredentialFor(p) # MissingEntry
       THEN /\ provider' = Adapter(p, CredentialFor(p))
            /\ models' = NoAdapter
            /\ RefreshCatalogOf(Adapter(p, CredentialFor(p)))
       ELSE NoAdapterNow

KeepAdapter == UNCHANGED <<provider, sentinel, models, refreshes, catalogGeneration>>
KeepTests == UNCHANGED <<verified, tests>>

\* Whether the vault answers a read: it may fail once more.
Readable(readable) ==
    IF readable THEN UNCHANGED used ELSE Fault

-----------------------------------------------------------------------------
(* Commands that are one document write. *)

\* A sign-in profile becomes the active one with a second write; an active
\* profile is configured again.
UpsertProfile(p, kind) ==
    /\ Command /\ UpsertAllowed(p, kind)
    /\ document' = Upserted(document, p, kind)
    /\ ops' = [ops EXCEPT ![Coordinator] =
                 CASE kind = SignInKind -> Op("upsert", p, "none", "activate")
                   [] kind # SignInKind /\ document.active = p -> Op("configure", p, "none", "configure")
                   [] OTHER -> NoOp]
    /\ KeepAdapter /\ KeepTests /\ UNCHANGED vaultVars

DuplicateProfile(source, destination) ==
    /\ Command /\ Exists(source) /\ ~Exists(destination)
    /\ document' = SetProfile(document, destination, document.profiles[source].kind, FALSE)
    /\ KeepAdapter /\ KeepTests /\ UNCHANGED <<vaultVars, ops>>

\* The switch itself; its adapter is configured by the step that follows.
ActivateProfile(p) ==
    /\ Command /\ Exists(p)
    /\ document' = SetActiveProfile(document, p)
    /\ ops' = [ops EXCEPT ![Coordinator] = Op("configure", p, "none", "configure")]
    /\ KeepAdapter /\ KeepTests /\ UNCHANGED vaultVars

\* Saving a model for the active profile rewrites it and configures it again.
SetProfileDefault(p) ==
    /\ Command /\ Exists(p) /\ document.active = p /\ models # NoAdapter
    /\ ops' = [ops EXCEPT ![Coordinator] = Op("configure", p, "none", "configure")]
    /\ KeepAdapter /\ KeepTests /\ UNCHANGED <<vaultVars, document>>

Configure(readable) ==
    /\ At(Coordinator, "configure")
    /\ Readable(readable) /\ ConfigureActiveProfile(ops[Coordinator].profile, readable)
    /\ ops' = [ops EXCEPT ![Coordinator] = NoOp]
    /\ KeepTests /\ UNCHANGED <<vaultVars, document>>

-----------------------------------------------------------------------------
(* Credential workflows: the document writes. *)

Begin(kind, p, s, pc, doc) ==
    /\ Command
    /\ document' = doc
    /\ ops' = [ops EXCEPT ![Coordinator] = Op(kind, p, s, pc)]
    /\ KeepAdapter /\ KeepTests /\ UNCHANGED vaultVars

SaveCredential(p, s) == Exists(p) /\ ~Linked(p) /\ Begin("save", p, s, "read", BeginSave(document, p))
ReplaceCredential(p, s) == Linked(p) /\ Begin("replace", p, s, "read", document)
DisconnectProfile(p) == Linked(p) /\ Begin("disconnect", p, "none", "erase", BeginDisconnect(document, p))
DeleteProfile(p) == Exists(p) /\ Begin("delete", p, "none", "erase", BeginDelete(document, p))

\* A disconnect of a profile without a link succeeds at once.
DisconnectUnlinked(p) == Exists(p) /\ ~Linked(p) /\ Begin("disconnect", p, "none", "tail", document)

WriteDocument(w, doc, pc) ==
    /\ document' = doc /\ Goto(w, pc)
    /\ KeepAdapter /\ KeepTests /\ UNCHANGED <<vaultVars, used>>

DocumentWriteFails(w) ==
    /\ \E pc \in {"begin", "commit", "forget", "activate"} : At(w, pc)
    /\ Fault /\ Fails(w)
    /\ KeepAdapter /\ KeepTests /\ UNCHANGED <<vaultVars, document>>

\* The save of a signed-in credential begins after its profile was written.
BeginSignedIn(w) ==
    /\ At(w, "begin")
    /\ WriteDocument(w, BeginSave(document, ops[w].profile), "read")

Commit(w) ==
    /\ At(w, "commit")
    /\ WriteDocument(w, CommitSave(document, ops[w].profile),
                     IF ops[w].kind = "login" THEN "activate" ELSE "tail")

Forget(w) ==
    /\ At(w, "forget")
    /\ WriteDocument(w, FinishRecovery(document, ops[w].profile),
                     IF ops[w].kind = "recover" THEN "recover" ELSE "tail")

Activate(w) ==
    /\ At(w, "activate")
    /\ WriteDocument(w, SetActiveProfile(document, ops[w].profile), "tail")

-----------------------------------------------------------------------------
(* Credential workflows: the keyring calls. *)

KeyringStep(w) == KeepAdapter /\ KeepTests /\ UNCHANGED document

\* save ignores a failing read and writes as if nothing were stored; replace
\* needs the entry.
ReadManifest(w) ==
    LET p == ops[w].profile
        Write(existing) ==
            ops' = [ops EXCEPT ![w].pc = "write", ![w].old = existing,
                               ![w].generation = NextGeneration(existing)]
        Saves == ops[w].kind = "save" \/ (ops[w].kind = "login" /\ ~Linked(p))
        Missing == ~Saves /\ manifest[p] = NoManifest
    IN  /\ At(w, "read")
        /\ \/ ~Missing /\ Write(manifest[p]) /\ UNCHANGED used
           \/ Missing /\ Fails(w) /\ UNCHANGED used
           \/ Fault /\ IF Saves THEN Write(NoManifest) ELSE Fails(w)
        /\ KeyringStep(w) /\ UNCHANGED vaultVars

WriteNextChunk(w) ==
    LET op == ops[w]
    IN  /\ At(w, "write") /\ op.next <= ChunkCount[op.secret]
        /\ WriteChunk(op.profile, op.generation, op.secret, op.next)
        /\ ops' = [ops EXCEPT ![w].next = @ + 1]
        /\ KeyringStep(w) /\ UNCHANGED <<manifest, used>>

\* The manifest write is the moment the new credential replaces the old.
PublishManifest(w) ==
    LET op == ops[w]
    IN  /\ At(w, "write") /\ op.next > ChunkCount[op.secret]
        /\ WriteManifest(op.profile, op.generation, op.secret)
        /\ Goto(w, "drop")
        /\ KeyringStep(w) /\ UNCHANGED <<chunks, used>>

\* A failing write takes back the chunks written so far, as far as it can.
WriteFails(w, kept) ==
    /\ At(w, "write") /\ Fault
    /\ DeleteGeneration(ops[w].profile, ops[w].generation, ops[w].next - 1, kept)
    /\ Fails(w)
    /\ KeyringStep(w) /\ UNCHANGED manifest

AfterVault(op) ==
    CASE op.kind = "save" -> "commit"
      [] op.kind = "login" -> IF Linked(op.profile) THEN "activate" ELSE "commit"
      [] op.kind \in {"disconnect", "delete", "recover"} -> "forget"
      [] OTHER -> "tail"

\* The chunks of the generation that is no longer named.
DropOldGeneration(w, kept) ==
    LET op == ops[w]
    IN  /\ At(w, "drop") /\ (kept # {} => op.old # NoManifest)
        /\ IF op.old = NoManifest THEN UNCHANGED chunks
           ELSE DeleteGeneration(op.profile, op.old.generation, op.old.count, kept)
        /\ IF kept = {} THEN UNCHANGED used ELSE Fault
        /\ Goto(w, AfterVault(op))
        /\ KeyringStep(w) /\ UNCHANGED manifest

\* delete: the manifest goes first; a missing one is no error.
EraseEntry(w) ==
    LET p == ops[w].profile
        Erase(existing) ==
            DeleteManifest(p) /\ ops' = [ops EXCEPT ![w].pc = "drop", ![w].old = existing]
    IN  /\ At(w, "erase")
        /\ \/ Erase(manifest[p]) /\ UNCHANGED used
           \/ Fault /\ manifest[p] # NoManifest /\ Erase(NoManifest)
           \/ Fault /\ Fails(w) /\ UNCHANGED manifest
        /\ KeyringStep(w) /\ UNCHANGED chunks

-----------------------------------------------------------------------------
(* The end of a command, in memory only. *)

\* A changed credential has to be verified again.
Unverify(p) == verified' = [verified EXCEPT ![p] = Unverified]

Finish(readable) ==
    LET op == ops[Coordinator]
        p == op.profile
        active == document.active = p
        Reconfigured(condition) ==
            IF condition THEN Readable(readable) /\ ConfigureActiveProfile(p, readable)
            ELSE readable /\ KeepAdapter /\ UNCHANGED used
    IN  /\ At(Coordinator, "tail") /\ op.kind # "recover"
        /\ CASE op.kind \in {"save", "replace"} /\ op.ok -> Unverify(p) /\ Reconfigured(active)
             [] op.kind = "disconnect" /\ op.ok -> Unverify(p) /\ Reconfigured(op.active)
             [] op.kind = "delete" ->
                   /\ Unverify(p) /\ readable /\ UNCHANGED used
                   /\ IF op.active THEN sentinel' = NoSecret /\ NoAdapterNow ELSE KeepAdapter
             [] op.kind = "upsert" /\ op.ok -> UNCHANGED verified /\ Reconfigured(TRUE)
             [] op.kind = "login" /\ op.ok ->
                   /\ verified' = [verified EXCEPT ![p] = Whole(op.secret)]
                   /\ Reconfigured(TRUE)
             [] OTHER -> readable /\ UNCHANGED <<verified, used>> /\ KeepAdapter
        /\ ops' = [ops EXCEPT ![Coordinator] = NoOp]
        /\ UNCHANGED <<vaultVars, document, tests>>

-----------------------------------------------------------------------------
(* Session-only credentials and sign-in. *)

\* configure_credential builds the adapter of the launched kind.
ConfigureCredential ==
    /\ Command
    /\ LET session == Adapter(document.active, <<<<"session", used.commands>>>>)
       IN  /\ provider' = session /\ sentinel' = session.secret /\ models' = NoAdapter
           /\ RefreshCatalogOf(session)
    /\ KeepTests /\ UNCHANGED <<vaultVars, document, ops>>

\* handle_codex_login_finished: the profile of that kind, or a new one.
LoginFinished(p, s) ==
    /\ Command
    /\ \/ Exists(p) /\ document.profiles[p].kind = SignInKind
       \/ ~Exists(p) /\ \A q \in ProfileIds : document.profiles[q].kind # SignInKind
    /\ document' = IF Exists(p) THEN document ELSE Upserted(document, p, SignInKind)
    /\ ops' = [ops EXCEPT ![Coordinator] = Op("login", p, s, IF Linked(p) THEN "read" ELSE "begin")]
    /\ KeepAdapter /\ KeepTests /\ UNCHANGED vaultVars

\* usable_credential in a background task: the refreshed token replaces the
\* linked credential of the profile the task's adapter was built for.  No lock
\* keeps it apart from the coordinator's commands or from another refresh.
RefreshToken(r, p, s) ==
    /\ Idle(r) /\ Linked(p) /\ document.profiles[p].kind = SignInKind
    /\ \E f \in refreshes \cup tests : f.who.profile = p
    /\ used.commands < MaxCommands /\ used' = [used EXCEPT !.commands = @ + 1]
    /\ ops' = [ops EXCEPT ![r] = Op("replace", p, s, "read")]
    /\ KeepAdapter /\ KeepTests /\ UNCHANGED <<vaultVars, document>>

TokenRefreshed(r) ==
    /\ r \in Refreshers /\ At(r, "tail")
    /\ ops' = [ops EXCEPT ![r] = NoOp]
    /\ KeepAdapter /\ KeepTests /\ UNCHANGED <<vaultVars, document, used>>

-----------------------------------------------------------------------------
(* Catalogs and connection tests: answers come in any order. *)

RefreshCatalog ==
    /\ Command /\ provider # NoAdapter
    /\ RefreshCatalogOf(provider)
    /\ KeepTests /\ UNCHANGED <<vaultVars, document, ops, provider, sentinel, models>>

\* handle_catalog.  A live answer marks the active profile's connection ready.
CatalogAnswered(f, result) ==
    /\ Serving /\ f \in refreshes
    /\ refreshes' = refreshes \ {f}
    /\ IF f.generation # catalogGeneration
       THEN UNCHANGED <<provider, sentinel, models, verified>>
       ELSE CASE result = "live" ->
                   /\ models' = f.who
                   /\ verified' = IF document.active = NoProfile THEN verified
                                  ELSE [verified EXCEPT ![document.active] = f.who.secret]
                   /\ UNCHANGED <<provider, sentinel>>
              [] result = "cached" ->
                   models' = f.who /\ UNCHANGED <<provider, sentinel, verified>>
              [] result = "unauthorized" ->
                   /\ provider' = NoAdapter /\ sentinel' = NoSecret /\ models' = NoAdapter
                   /\ verified' = IF document.active = NoProfile THEN verified
                                  ELSE [verified EXCEPT ![document.active] = Unverified]
              [] result = "failed" ->
                   /\ verified' = IF document.active = NoProfile THEN verified
                                  ELSE [verified EXCEPT ![document.active] = Unverified]
                   /\ UNCHANGED <<provider, sentinel, models>>
    /\ UNCHANGED <<vaultVars, document, ops, catalogGeneration, tests, used>>

TestProfile(p) ==
    /\ Command /\ Exists(p) /\ CredentialFor(p) # MissingEntry
    /\ tests' = tests \cup {[generation |-> 0, who |-> Adapter(p, CredentialFor(p))]}
    /\ Unverify(p)
    /\ KeepAdapter /\ UNCHANGED <<vaultVars, document, ops>>

\* handle_profile_test asks only whether the profile still exists.
TestAnswered(t, ready) ==
    /\ Serving /\ t \in tests
    /\ tests' = tests \ {t}
    /\ verified' = IF ~Exists(t.who.profile) THEN verified
                   ELSE [verified EXCEPT ![t.who.profile] = IF ready THEN t.who.secret ELSE Unverified]
    /\ KeepAdapter /\ UNCHANGED <<vaultVars, document, ops, used>>

-----------------------------------------------------------------------------
(* Crash, launch and recovery. *)

\* resolve_launch and configure_provider, before any recovery.
LaunchAdapter ==
    LET p == document.active
        kind == IF p = NoProfile THEN DefaultKind ELSE document.profiles[p].kind
    IN  CASE kind \in EnvironmentKinds -> Adapter(p, EnvironmentSecret(kind))
          [] kind \notin EnvironmentKinds /\ p # NoProfile /\ Linked(p) /\ Load(p) # MissingEntry ->
                Adapter(p, Load(p))
          [] OTHER -> NoAdapter

Launch ==
    /\ provider' = LaunchAdapter /\ sentinel' = NoSecret /\ models' = NoAdapter
    /\ catalogGeneration' = 0 /\ refreshes' = {} /\ tests' = {}
    /\ verified' = [p \in ProfileIds |-> Unverified]
    /\ ops' = [w \in Processes |->
                 IF w = Coordinator
                 THEN [Op("recover", NoProfile, "none", "recover") EXCEPT !.todo = PendingRecovery]
                 ELSE NoOp]

Crash ==
    /\ used.crashes < MaxCrashes /\ used' = [used EXCEPT !.crashes = @ + 1]
    /\ Launch
    /\ UNCHANGED <<vaultVars, document>>

\* recover_pending: the next record of those found at launch.
RecoverNext(p) ==
    /\ At(Coordinator, "recover") /\ p \in ops[Coordinator].todo
    /\ LET rest == [Op("recover", p, "none", "erase") EXCEPT !.todo = ops[Coordinator].todo \ {p}]
           complete == document.recovery[p] = "uncommitted_save" /\ Linked(p)
       IN  ops' = [ops EXCEPT ![Coordinator] = IF complete THEN [rest EXCEPT !.pc = "forget"] ELSE rest]
    /\ KeepAdapter /\ KeepTests /\ UNCHANGED <<vaultVars, document, used>>

\* A record that could not be cleaned up stays pending.
RecoverySkips ==
    /\ At(Coordinator, "tail") /\ ops[Coordinator].kind = "recover"
    /\ Goto(Coordinator, "recover")
    /\ KeepAdapter /\ KeepTests /\ UNCHANGED <<vaultVars, document, used>>

RecoveryDone ==
    /\ At(Coordinator, "recover") /\ ops[Coordinator].todo = {}
    /\ ops' = [ops EXCEPT ![Coordinator] = NoOp]
    /\ IF provider # NoAdapter THEN RefreshCatalogOf(provider)
       ELSE UNCHANGED <<refreshes, catalogGeneration>>
    /\ KeepTests /\ UNCHANGED <<vaultVars, document, provider, sentinel, models, used>>

Init ==
    /\ VaultInit
    /\ document = [profiles |-> [p \in ProfileIds |-> Absent], active |-> NoProfile,
                   recovery |-> [p \in ProfileIds |-> "none"]]
    /\ used = [commands |-> 0, faults |-> 0, crashes |-> 0]
    /\ overlapped = {}
    /\ provider = IF DefaultKind \in EnvironmentKinds
                  THEN Adapter(NoProfile, EnvironmentSecret(DefaultKind)) ELSE NoAdapter
    /\ sentinel = NoSecret /\ models = NoAdapter
    /\ refreshes = {} /\ catalogGeneration = 0 /\ tests = {}
    /\ verified = [p \in ProfileIds |-> Unverified]
    /\ ops = [w \in Processes |->
                IF w = Coordinator THEN Op("recover", NoProfile, "none", "recover") ELSE NoOp]

-----------------------------------------------------------------------------
ProfileCommand ==
    \/ \E p \in ProfileIds, kind \in Kinds : UpsertProfile(p, kind)
    \/ \E p, q \in ProfileIds : DuplicateProfile(p, q)
    \/ \E p \in ProfileIds : ActivateProfile(p) \/ SetProfileDefault(p)

CredentialCommand ==
    \/ \E p \in ProfileIds, s \in Secrets :
          SaveCredential(p, s) \/ ReplaceCredential(p, s) \/ LoginFinished(p, s)
    \/ \E p \in ProfileIds : DisconnectProfile(p) \/ DisconnectUnlinked(p) \/ DeleteProfile(p)
    \/ ConfigureCredential

WorkflowStep(w) ==
    \/ BeginSignedIn(w) \/ Commit(w) \/ Forget(w) \/ Activate(w) \/ DocumentWriteFails(w)
    \/ ReadManifest(w) \/ WriteNextChunk(w) \/ PublishManifest(w) \/ EraseEntry(w)
    \/ \E kept \in SUBSET (1..MaxCount) : WriteFails(w, kept) \/ DropOldGeneration(w, kept)

CompletionStep ==
    \/ \E readable \in BOOLEAN : Finish(readable) \/ Configure(readable)
    \/ RecoverySkips \/ RecoveryDone
    \/ \E p \in ProfileIds : RecoverNext(p)

BackgroundStep ==
    \/ \E f \in refreshes, result \in {"live", "cached", "unauthorized", "failed"} :
          CatalogAnswered(f, result)
    \/ \E t \in tests, ready \in BOOLEAN : TestAnswered(t, ready)
    \/ \E r \in Refreshers : TokenRefreshed(r)
    \/ \E r \in Refreshers, p \in ProfileIds, s \in Secrets : RefreshToken(r, p, s)

Step ==
    \/ ProfileCommand \/ CredentialCommand \/ CompletionStep \/ BackgroundStep
    \/ RefreshCatalog \/ Crash
    \/ \E p \in ProfileIds : TestProfile(p)
    \/ \E w \in Processes : WorkflowStep(w)

\* The places of a workflow from which it goes on to the vault, or says in the document what it did.
AtWork(w, p) ==
    /\ ops[w].pc \in {"begin", "read", "write", "drop", "commit", "erase", "forget"}
    /\ ops[w].profile = p

Contended == {p \in ProfileIds : \E v, w \in Processes : v # w /\ AtWork(v, p) /\ AtWork(w, p)}

Next == Step /\ overlapped' = overlapped \cup Contended'

Spec == Init /\ [][Next]_vars

-----------------------------------------------------------------------------
(* Properties. *)

\* A linked credential loads as one complete submitted credential, also in the
\* middle of a replacement, after a failing keyring call and after a crash
\* between any two of them (the two generations of write_chunked).
LinkedCredentialIsWhole(p) == Linked(p) => Load(p) \in {Whole(s) : s \in Secrets}

\* A credential that no profile links and no recovery record names cannot be
\* loaded: whatever step a save, disconnect or deletion dies or fails at, the
\* document still says what to clean up (begin_save, begin_disconnect,
\* begin_delete, recover_pending).
NothingLoadableUnlinked(p) ==
    ~Linked(p) /\ document.recovery[p] = "none" => manifest[p] = NoManifest

\* The document and the keyring agree about every credential, although no step
\* writes both and refreshes run beside the commands; only two workflows at work
\* on one entry at once, which nothing prevents, can part them (ProfileManager,
\* usable_credential).
CredentialsFollowLinks ==
    \A p \in ProfileIds \ overlapped : LinkedCredentialIsWhole(p) /\ NothingLoadableUnlinked(p)

\* The adapter in use belongs to the active profile, and once no cleanup is
\* pending that profile still has a credential, unless the adapter runs on one of
\* the environment or of the session: no order of switching, deleting,
\* disconnecting, signing in and late answers leaves the adapter of a profile
\* without a credential behind, although a write that failed half-way may leave
\* one built with the credential before (configure_active_profile,
\* delete_profile, handle_catalog).
AdapterFollowsActiveProfile ==
    Serving /\ provider # NoAdapter =>
        /\ provider.profile = document.active
        /\ PendingRecovery = {} /\ sentinel = NoSecret /\ document.active # NoProfile =>
              Linked(document.active) \/ provider.secret \in {EnvironmentSecret(k) : k \in EnvironmentKinds}

\* The models offered are those the adapter in use has listed: an answer to a
\* refresh that another adapter was asked for is never taken for its own.
CatalogIsTheAdapters ==
    models # NoAdapter /\ provider # NoAdapter => models = provider
=============================================================================
