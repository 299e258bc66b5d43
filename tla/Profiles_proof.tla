--------------------------- MODULE Profiles_proof ---------------------------
(***************************************************************************)
(* The theorems of the profiles and their credentials.  Three invariants   *)
(* are proved one after the other.  CatalogIInv: an answer of the current  *)
(* generation was asked of the adapter in use.  AdapterIInv: for each      *)
(* place in a workflow, whether the adapter fits the document or the rest  *)
(* of the workflow will configure it again.  VaultIInv: for each place in  *)
(* a workflow, what the keyring holds and what the document says of it, as *)
(* long as no other workflow was at work on the same entry.                *)
(***************************************************************************)
EXTENDS Profiles, TLAPS

-----------------------------------------------------------------------------
(* The places of the workflows. *)

Names == ProfileIds \cup {NoProfile}
Manifests == [generation : Generations \cup {"none"}, count : Nat]
Records == {"none", "uncommitted_save", "delete"}

OpRecords ==
    [kind : {"recover", "configure", "upsert", "save", "replace", "disconnect", "delete", "login"},
     profile : Names, secret : Secrets \cup {"none"},
     pc : {"recover", "configure", "activate", "begin", "read", "write", "drop", "commit", "erase",
           "forget", "tail"},
     next : Nat, generation : Generations, old : Manifests, ok : BOOLEAN, active : BOOLEAN,
     todo : SUBSET ProfileIds]

Documents ==
    [profiles : [ProfileIds -> [kind : Kinds \cup {"absent"}, linked : BOOLEAN]],
     active : Names, recovery : [ProfileIds -> Records]]

\* Which places a workflow of each kind has.
Place(op) ==
    /\ op.kind = "configure" <=> op.pc = "configure"
    /\ op.kind = "upsert" => op.pc \in {"activate", "tail"}
    /\ op.kind = "save" => op.pc \in {"read", "write", "drop", "commit", "tail"}
    /\ op.kind = "replace" => op.pc \in {"read", "write", "drop", "tail"}
    /\ op.kind = "login" => op.pc \in {"begin", "read", "write", "drop", "commit", "activate", "tail"}
    /\ op.kind \in {"disconnect", "delete"} => op.pc \in {"erase", "drop", "forget", "tail"}
    /\ op.kind = "recover" => op.pc \in {"recover", "erase", "drop", "forget", "tail"}
    /\ op.kind \in {"save", "replace", "login"} => op.secret \in Secrets
    /\ op.kind # "recover" /\ op.pc # "tail" => op.ok
    /\ op.profile = NoProfile => op.kind = "recover" /\ op.pc = "recover"

TypeOK ==
    /\ document \in Documents
    /\ manifest \in [ProfileIds -> Manifests]
    /\ ops \in [Processes -> OpRecords \cup {NoOp}]
    /\ \A w \in Processes : ~Idle(w) => Place(ops[w])
    /\ \A r \in Refreshers : ~Idle(r) => ops[r].kind = "replace"

-----------------------------------------------------------------------------
(* The adapter. *)

\* An answer of the current generation comes from the adapter in use.
CatalogIInv ==
    /\ catalogGeneration \in Nat
    /\ \A f \in refreshes : f.generation \in Nat /\ f.generation <= catalogGeneration
    /\ provider # NoAdapter =>
          \A f \in refreshes : f.generation = catalogGeneration => f.who = provider
    /\ CatalogIsTheAdapters

EnvironmentSecrets == {EnvironmentSecret(k) : k \in EnvironmentKinds}

\* The adapter's credential is there to be used.
Justified(doc, adapter) ==
    adapter # NoAdapter =>
        /\ adapter.profile = doc.active
        /\ doc.active # NoProfile => doc.profiles[doc.active].linked \/ adapter.secret \in EnvironmentSecrets

\* The same, but for a credential of the session and one that is being saved or removed.
LinkOrRecord(doc, p) == doc.profiles[p].linked \/ doc.recovery[p] # "none"

Fits ==
    provider # NoAdapter =>
        /\ provider.profile = document.active
        /\ sentinel = NoSecret /\ document.active # NoProfile =>
              LinkOrRecord(document, document.active) \/ provider.secret \in EnvironmentSecrets

\* The last step of the workflow will configure the adapter anew, or drop it.
Reconfigures(op) ==
    \/ op.kind = "configure"
    \/ op.kind \in {"upsert", "login"} /\ op.pc = "tail" /\ op.ok
    \/ op.kind = "delete" /\ op.active
    \/ op.kind = "disconnect" /\ op.pc = "tail" /\ op.ok /\ op.active

\* The profile for which it will do so is the active one.
ConfiguresActive(op) ==
    /\ op.kind = "configure" => op.profile = document.active
    /\ op.kind \in {"upsert", "login"} /\ op.pc = "tail" /\ op.ok => op.profile = document.active
    /\ op.kind = "disconnect" /\ op.active => op.profile = document.active

AdapterPlace(op) ==
    /\ ConfiguresActive(op)
    /\ op.kind = "disconnect" /\ op.pc # "tail" => document.recovery[op.profile] # "none"
    /\ op.kind \in {"disconnect", "delete"} /\ ~op.active => op.profile # document.active
    /\ op.kind = "recover" => Justified(document, provider)

AdapterIInv ==
    /\ TypeOK
    /\ ~Idle(Coordinator) => AdapterPlace(ops[Coordinator])
    /\ Idle(Coordinator) \/ ~Reconfigures(ops[Coordinator]) => Fits

-----------------------------------------------------------------------------
(* The vault. *)

\* The first n chunks of a generation are those of a credential.
Holds(p, g, s, n) == \A i \in 1..n : chunks[p][g][i] = <<s, i>>

\* The entry a manifest names is one complete credential.
Stored(p) ==
    \E s \in Secrets :
        /\ manifest[p].generation \in Generations /\ manifest[p].count = ChunkCount[s]
        /\ Holds(p, manifest[p].generation, s, ChunkCount[s])

\* What a workflow that stores a credential knows at each of its places.
WritePlace(op) ==
    LET p == op.profile
        next == op.next
        count == ChunkCount[op.secret]
    IN  /\ op.kind = "login" /\ op.pc = "begin" => ~Linked(p)
        /\ op.pc \in {"read", "write", "drop"} =>
              /\ op.kind = "save" => document.recovery[p] = "uncommitted_save"
              /\ op.kind = "replace" => Linked(p)
              /\ op.kind = "login" => Linked(p) \/ document.recovery[p] = "uncommitted_save"
        /\ op.pc \in {"begin", "read"} => next = 1
        /\ op.pc \in {"write", "drop"} => op.generation = NextGeneration(op.old)
        /\ op.pc = "write" =>
              /\ 1 <= next /\ next <= count + 1 /\ Holds(p, op.generation, op.secret, next - 1)
              /\ Linked(p) => op.generation # manifest[p].generation
        /\ op.pc = "drop" =>
              /\ manifest[p] = [generation |-> op.generation, count |-> count]
              /\ Holds(p, op.generation, op.secret, count)
        /\ op.pc = "commit" => document.recovery[p] = "uncommitted_save" /\ Stored(p)

\* What a workflow that removes a credential knows.
ErasePlace(op) ==
    /\ op.pc \in {"erase", "drop", "forget"} => ~Linked(op.profile)
    /\ op.pc \in {"drop", "forget"} => manifest[op.profile] = NoManifest

VaultPlace(op) ==
    /\ op.kind \in {"save", "replace", "login"} => WritePlace(op)
    /\ op.kind \in {"disconnect", "delete", "recover"} => ErasePlace(op)

\* The records that a recovery has still to come to.
StillPending(op) ==
    op.kind = "recover" =>
        \A q \in op.todo \ overlapped : document.recovery[q] # "none" /\ q # op.profile

ChunkValues == {NoChunk} \cup (Secrets \X Nat)
Vaults == [ProfileIds -> [Generations -> [1..MaxCount -> ChunkValues]]]

\* Keyring and document agree about profile p.
Agree(p) ==
    /\ Linked(p) => Stored(p) /\ document.recovery[p] = "none"
    /\ ~Linked(p) /\ document.recovery[p] = "none" => manifest[p] = NoManifest

VaultIInv ==
    /\ TypeOK
    /\ chunks \in Vaults
    /\ Contended \subseteq overlapped
    /\ \A p \in ProfileIds \ overlapped : Agree(p)
    /\ \A w \in Processes : ~Idle(w) =>
          /\ ops[w].profile \notin overlapped => VaultPlace(ops[w])
          /\ StillPending(ops[w])

-----------------------------------------------------------------------------
(* The catalog. *)

\* A step that concerns neither adapter nor catalog.
LEMMA CatalogKept ==
  ASSUME CatalogIInv, UNCHANGED <<provider, models, refreshes, catalogGeneration>>
  PROVE  CatalogIInv'
  BY DEF CatalogIInv, CatalogIsTheAdapters

\* A refresh asked of the adapter in use opens a generation of its own.
LEMMA CatalogAsked ==
  ASSUME CatalogIInv, NEW adapter, provider' = adapter, RefreshCatalogOf(adapter),
         models' = NoAdapter \/ (models' = models /\ provider' = provider)
  PROVE  CatalogIInv'
<1> DEFINE new == [generation |-> catalogGeneration + 1, who |-> adapter]
<1>1. catalogGeneration' = catalogGeneration + 1 /\ refreshes' = refreshes \cup {new}
  BY DEF RefreshCatalogOf
<1>2. new.generation = catalogGeneration + 1 /\ new.who = adapter
  OBVIOUS
<1> HIDE DEF new
<1>3. catalogGeneration' \in Nat
  BY <1>1 DEF CatalogIInv
<1>4. \A f \in refreshes' : f.generation \in Nat /\ f.generation <= catalogGeneration'
  BY <1>1, <1>2 DEF CatalogIInv
<1>5. \A f \in refreshes' : f.generation = catalogGeneration' => f.who = provider'
  BY <1>1, <1>2 DEF CatalogIInv
<1>6. CatalogIsTheAdapters'
  BY DEF CatalogIInv, CatalogIsTheAdapters
<1> QED
  BY <1>3, <1>4, <1>5, <1>6 DEF CatalogIInv

\* Without an adapter there is nothing to agree with.
LEMMA CatalogDropped ==
  ASSUME CatalogIInv, NoAdapterNow
  PROVE  CatalogIInv'
  BY DEF CatalogIInv, CatalogIsTheAdapters, NoAdapterNow

\* configure_active_profile leaves no models of another adapter.
LEMMA CatalogConfigured ==
  ASSUME CatalogIInv, NEW p, NEW readable, ConfigureActiveProfile(p, readable)
  PROVE  CatalogIInv'
<1>1. CASE readable /\ CredentialFor(p) # MissingEntry
  BY <1>1, CatalogAsked DEF ConfigureActiveProfile
<1>2. CASE ~(readable /\ CredentialFor(p) # MissingEntry)
  BY <1>2, CatalogDropped DEF ConfigureActiveProfile
<1> QED
  BY <1>1, <1>2

\* Every step keeps the answers and the adapter together.
LEMMA CatalogStep ==
  ASSUME CatalogIInv, [Next]_vars
  PROVE  CatalogIInv'
<1>1. CASE UNCHANGED vars
  BY <1>1, CatalogKept DEF vars, profileVars
<1>2. CASE ProfileCommand
  BY <1>2, CatalogKept DEF ProfileCommand, UpsertProfile, DuplicateProfile, ActivateProfile,
       SetProfileDefault, KeepAdapter
<1>3. CASE CredentialCommand
  <2>1. CASE ConfigureCredential
    <3> DEFINE session == Adapter(document.active, <<<<"session", used.commands>>>>)
    <3>1. provider' = session /\ models' = NoAdapter /\ RefreshCatalogOf(session)
      BY <2>1 DEF ConfigureCredential
    <3> HIDE DEF session
    <3> QED
      BY <3>1, CatalogAsked
  <2>2. CASE ~ConfigureCredential
    BY <1>3, <2>2, CatalogKept DEF CredentialCommand, SaveCredential, ReplaceCredential, LoginFinished,
         DisconnectProfile, DisconnectUnlinked, DeleteProfile, Begin, KeepAdapter
  <2> QED
    BY <2>1, <2>2
<1>4. CASE CompletionStep
  <2>1. ASSUME NEW readable \in BOOLEAN, Finish(readable) PROVE CatalogIInv'
    <3>1. \/ KeepAdapter
          \/ NoAdapterNow
          \/ ConfigureActiveProfile(ops[Coordinator].profile, readable)
      BY <2>1 DEF Finish
    <3> QED
      BY <3>1, CatalogKept, CatalogDropped, CatalogConfigured DEF KeepAdapter
  <2>2. ASSUME NEW readable \in BOOLEAN, Configure(readable) PROVE CatalogIInv'
    BY <2>2, CatalogConfigured DEF Configure
  <2>3. CASE RecoverySkips \/ \E p \in ProfileIds : RecoverNext(p)
    BY <2>3, CatalogKept DEF RecoverySkips, RecoverNext, KeepAdapter
  <2>4. CASE RecoveryDone
    <3>1. CASE provider # NoAdapter
      BY <2>4, <3>1, CatalogAsked DEF RecoveryDone
    <3>2. CASE provider = NoAdapter
      BY <2>4, <3>2, CatalogKept DEF RecoveryDone
    <3> QED
      BY <3>1, <3>2
  <2> QED
    BY <1>4, <2>1, <2>2, <2>3, <2>4 DEF CompletionStep
<1>5. CASE BackgroundStep
  <2>1. ASSUME NEW f \in refreshes, NEW result \in {"live", "cached", "unauthorized", "failed"},
               CatalogAnswered(f, result)
        PROVE  CatalogIInv'
    <3>1. refreshes' \subseteq refreshes /\ UNCHANGED catalogGeneration
      BY <2>1 DEF CatalogAnswered
    <3>2. CASE f.generation # catalogGeneration \/ result = "failed"
      <4>1. UNCHANGED <<provider, models>>
        BY <2>1, <3>2 DEF CatalogAnswered
      <4> QED
        BY <3>1, <4>1 DEF CatalogIInv, CatalogIsTheAdapters
    <3>3. CASE f.generation = catalogGeneration /\ result \in {"live", "cached"}
      <4>1. models' = f.who /\ UNCHANGED provider
        BY <2>1, <3>3 DEF CatalogAnswered
      <4> QED
        BY <3>1, <3>3, <4>1 DEF CatalogIInv, CatalogIsTheAdapters
    <3>4. CASE f.generation = catalogGeneration /\ result = "unauthorized"
      <4>1. provider' = NoAdapter
        BY <2>1, <3>4 DEF CatalogAnswered
      <4> QED
        BY <3>1, <4>1 DEF CatalogIInv, CatalogIsTheAdapters
    <3> QED
      BY <3>2, <3>3, <3>4
  <2>2. CASE ~\E f \in refreshes, result \in {"live", "cached", "unauthorized", "failed"} :
                CatalogAnswered(f, result)
    BY <1>5, <2>2, CatalogKept DEF BackgroundStep, TestAnswered, TokenRefreshed, RefreshToken, KeepAdapter
  <2> QED
    BY <2>1, <2>2
<1>6. CASE RefreshCatalog
  BY <1>6, CatalogAsked DEF RefreshCatalog
<1>7. CASE Crash
  <2>1. models' = NoAdapter /\ catalogGeneration' = 0 /\ refreshes' = {}
    BY <1>7 DEF Crash, Launch
  <2> QED
    BY <2>1 DEF CatalogIInv, CatalogIsTheAdapters
<1>8. CASE \E p \in ProfileIds : TestProfile(p)
  BY <1>8, CatalogKept DEF TestProfile, KeepAdapter
<1>9. CASE \E w \in Processes : WorkflowStep(w)
  BY <1>9, CatalogKept DEF WorkflowStep, BeginSignedIn, Commit, Forget, Activate, WriteDocument,
       DocumentWriteFails, ReadManifest, WriteNextChunk, PublishManifest, EraseEntry, WriteFails,
       DropOldGeneration, KeyringStep, KeepAdapter
<1> QED
  BY <1>1, <1>2, <1>3, <1>4, <1>5, <1>6, <1>7, <1>8, <1>9 DEF Next, Step

\* Whatever is switched, deleted or signed in while answers are outstanding, the
\* models offered are those of the adapter in use.
THEOREM CatalogSafe == Spec => []CatalogIsTheAdapters
<1>1. Init => CatalogIInv
  BY DEF Init, CatalogIInv, CatalogIsTheAdapters
<1>2. CatalogIInv /\ [Next]_vars => CatalogIInv'
  BY CatalogStep
<1>3. CatalogIInv => CatalogIsTheAdapters
  BY DEF CatalogIInv
<1> QED
  BY <1>1, <1>2, <1>3, PTL DEF Spec

-----------------------------------------------------------------------------
(* The writes of the document. *)

\* A write concerns one profile.
Elsewhere(d, p) ==
    /\ d \in Documents
    /\ \A q \in ProfileIds \ {p} :
          d.profiles[q] = document.profiles[q] /\ d.recovery[q] = document.recovery[q]

\* A profile is written, with or without a link.
LEMMA WritesProfile ==
  ASSUME document \in Documents, NEW p \in ProfileIds, NEW kind \in Kinds \cup {"absent"}, NEW linked \in BOOLEAN
  PROVE  /\ Elsewhere(SetProfile(document, p, kind, linked), p)
         /\ SetProfile(document, p, kind, linked).active = document.active
         /\ SetProfile(document, p, kind, linked).recovery = document.recovery
         /\ SetProfile(document, p, kind, linked).profiles[p].linked = linked
  BY DEF Documents, SetProfile, Elsewhere

\* The active profile is written.
LEMMA WritesActive ==
  ASSUME document \in Documents, NEW p \in ProfileIds
  PROVE  /\ Elsewhere(SetActiveProfile(document, p), p)
         /\ SetActiveProfile(document, p).active = p
         /\ SetActiveProfile(document, p).profiles = document.profiles
         /\ SetActiveProfile(document, p).recovery = document.recovery
  BY DEF Documents, SetActiveProfile, Elsewhere, Names

\* A save is announced.
LEMMA WritesBeginSave ==
  ASSUME document \in Documents, NEW p \in ProfileIds
  PROVE  /\ Elsewhere(BeginSave(document, p), p)
         /\ BeginSave(document, p).active = document.active
         /\ BeginSave(document, p).profiles = document.profiles
         /\ BeginSave(document, p).recovery[p] = "uncommitted_save"
  BY DEF Documents, BeginSave, PushRecovery, Elsewhere, Records

\* A save is committed.
LEMMA WritesCommit ==
  ASSUME document \in Documents, NEW p \in ProfileIds
  PROVE  /\ Elsewhere(CommitSave(document, p), p)
         /\ CommitSave(document, p).active = document.active
         /\ CommitSave(document, p).profiles[p].linked
         /\ document.recovery[p] = "uncommitted_save" => CommitSave(document, p).recovery[p] = "none"
<1> DEFINE profiles == [document.profiles EXCEPT ![p] = [kind |-> document.profiles[p].kind, linked |-> TRUE]]
           record == IF document.recovery[p] = "uncommitted_save" THEN "none" ELSE document.recovery[p]
           recovery == [document.recovery EXCEPT ![p] = record]
<1>1. CommitSave(document, p) = [document EXCEPT !.profiles = profiles, !.recovery = recovery]
  BY DEF CommitSave, RemoveRecovery, SetProfile, Documents
<1>2. /\ recovery \in [ProfileIds -> Records] /\ recovery[p] = record
      /\ \A q \in ProfileIds \ {p} : recovery[q] = document.recovery[q]
  BY DEF Documents, Records
<1>3. /\ profiles \in [ProfileIds -> [kind : Kinds \cup {"absent"}, linked : BOOLEAN]]
      /\ profiles[p].linked /\ \A q \in ProfileIds \ {p} : profiles[q] = document.profiles[q]
  BY DEF Documents
<1> HIDE DEF profiles, recovery
<1>4. /\ CommitSave(document, p) \in Documents
      /\ CommitSave(document, p).profiles = profiles /\ CommitSave(document, p).recovery = recovery
      /\ CommitSave(document, p).active = document.active
  BY <1>1, <1>2, <1>3 DEF Documents
<1> QED
  BY <1>2, <1>3, <1>4 DEF Elsewhere

\* A disconnect is announced and unlinks.
LEMMA WritesDisconnect ==
  ASSUME document \in Documents, NEW p \in ProfileIds
  PROVE  /\ Elsewhere(BeginDisconnect(document, p), p)
         /\ BeginDisconnect(document, p).active = document.active
         /\ ~BeginDisconnect(document, p).profiles[p].linked
         /\ BeginDisconnect(document, p).recovery[p] = "delete"
  BY DEF Documents, BeginDisconnect, PushRecovery, SetProfile, Elsewhere, Records

\* A deletion is announced, takes the profile away and deactivates it.
LEMMA WritesDelete ==
  ASSUME document \in Documents, NEW p \in ProfileIds
  PROVE  /\ Elsewhere(BeginDelete(document, p), p)
         /\ document.active # p => BeginDelete(document, p).active = document.active
         /\ ~BeginDelete(document, p).profiles[p].linked
         /\ BeginDelete(document, p).recovery[p] = "delete"
  BY DEF Documents, BeginDelete, PushRecovery, Absent, Elsewhere, Records, Names

\* A record is taken away.
LEMMA WritesFinish ==
  ASSUME document \in Documents, NEW p \in ProfileIds
  PROVE  /\ Elsewhere(FinishRecovery(document, p), p)
         /\ FinishRecovery(document, p).active = document.active
         /\ FinishRecovery(document, p).profiles = document.profiles
         /\ FinishRecovery(document, p).recovery[p] = "none"
  BY DEF Documents, FinishRecovery, RemoveRecovery, Elsewhere, Records

-----------------------------------------------------------------------------
(* Types. *)

\* A fresh workflow.
LEMMA FreshOp ==
  ASSUME NEW kind, NEW p, NEW s, NEW pc
  PROVE  /\ Op(kind, p, s, pc).kind = kind /\ Op(kind, p, s, pc).profile = p
         /\ Op(kind, p, s, pc).secret = s /\ Op(kind, p, s, pc).pc = pc
         /\ Op(kind, p, s, pc).next = 1 /\ Op(kind, p, s, pc).ok
         /\ Op(kind, p, s, pc).active <=> document.active = p
         /\ Op(kind, p, s, pc).todo = {}
  BY DEF Op

\* A fresh workflow is a workflow.
LEMMA FreshOpType ==
  ASSUME NEW kind \in {"recover", "configure", "upsert", "save", "replace", "disconnect", "delete", "login"},
         NEW p \in Names, NEW s \in Secrets \cup {"none"},
         NEW pc \in {"recover", "configure", "activate", "begin", "read", "write", "drop", "commit",
                     "erase", "forget", "tail"}
  PROVE  Op(kind, p, s, pc) \in OpRecords
  BY DEF Op, OpRecords, Generations, NoManifest, Manifests

\* No workflow is idle.
LEMMA BusyOp ==
  ASSUME NEW op \in OpRecords
  PROVE  op # NoOp
  BY DEF OpRecords, NoOp

\* One process goes on to a place of its workflow, or is done with it.
LEMMA TypeKept ==
  ASSUME TypeOK, NEW w \in Processes, NEW op \in OpRecords \cup {NoOp}, ops' = [ops EXCEPT ![w] = op],
         op # NoOp => Place(op), w \in Refreshers /\ op # NoOp => op.kind = "replace",
         document' \in Documents, manifest' \in [ProfileIds -> Manifests]
  PROVE  /\ TypeOK'
         /\ ops'[w] = op /\ \A v \in Processes \ {w} : ops'[v] = ops[v]
<1>1. ops'[w] = op /\ \A v \in Processes \ {w} : ops'[v] = ops[v]
  BY DEF TypeOK
<1>2. ops' \in [Processes -> OpRecords \cup {NoOp}]
  BY DEF TypeOK
<1>3. \A v \in Processes : ops'[v] # NoOp => Place(ops'[v])
  BY <1>1 DEF TypeOK, Idle
<1>4. \A v \in Refreshers : ops'[v] # NoOp => ops'[v].kind = "replace"
  BY <1>1 DEF TypeOK, Idle, Processes
<1> QED
  BY <1>1, <1>2, <1>3, <1>4 DEF TypeOK, Idle, Place

\* A step that starts and ends no workflow.
LEMMA TypeSame ==
  ASSUME TypeOK, UNCHANGED <<ops, manifest>>, document' \in Documents
  PROVE  TypeOK'
  BY DEF TypeOK, Idle, Place

\* The coordinator is no refresher.
LEMMA CoordinatorAlone == Coordinator \in Processes /\ Coordinator \notin Refreshers
  BY RefreshersAssumption DEF Coordinator, Processes

\* A process inside a workflow.
LEMMA Inside ==
  ASSUME TypeOK, NEW w \in Processes, NEW pc, At(w, pc), pc # "idle"
  PROVE  /\ ops[w] \in OpRecords /\ ops[w] # NoOp /\ ~Idle(w) /\ Place(ops[w]) /\ ops[w].pc = pc
         /\ w \in Refreshers => ops[w].kind = "replace"
         /\ pc # "recover" => ops[w].profile \in ProfileIds
<1>1. ops[w] # NoOp
  BY DEF At, NoOp
<1>2. ops[w] \in OpRecords
  BY <1>1 DEF TypeOK
<1> QED
  BY <1>1, <1>2 DEF TypeOK, Idle, At, Place, OpRecords, Names

\* The commands and the ends of workflows keep the types.
LEMMA TypeCommands ==
  ASSUME TypeOK, ProfileCommand \/ CredentialCommand
  PROVE  TypeOK'
<1> USE CoordinatorAlone
<1>0. document \in Documents /\ manifest \in [ProfileIds -> Manifests] /\ \A p \in ProfileIds : p \in Names /\ p # NoProfile
  BY ProfileNamesAssumption DEF TypeOK, Names
<1>1. ASSUME NEW p \in ProfileIds, NEW kind \in Kinds, UpsertProfile(p, kind) PROVE TypeOK'
  <2>1. document' \in Documents
    <3>1. document.profiles[p].linked \in BOOLEAN
      BY <1>0 DEF Documents
    <3> QED
      BY <1>0, <1>1, <3>1, WritesProfile DEF UpsertProfile, Upserted, Elsewhere
  <2>2. PICK op : /\ ops' = [ops EXCEPT ![Coordinator] = op]
                  /\ op \in {NoOp, Op("upsert", p, "none", "activate"), Op("configure", p, "none", "configure")}
    BY <1>1 DEF UpsertProfile
  <2>3. op \in OpRecords \cup {NoOp} /\ (op # NoOp => Place(op))
    BY <1>0, <2>2, FreshOp, FreshOpType DEF Place
  <2> QED
    BY <1>0, <1>1, <2>1, <2>2, <2>3, TypeKept DEF UpsertProfile, vaultVars
<1>2. ASSUME NEW p \in ProfileIds, NEW q \in ProfileIds, DuplicateProfile(p, q) PROVE TypeOK'
  <2>1. document.profiles[p].kind \in Kinds \cup {"absent"}
    BY <1>0 DEF Documents
  <2> QED
    BY <1>0, <1>2, <2>1, WritesProfile, TypeSame DEF DuplicateProfile, Elsewhere, vaultVars
<1>3. ASSUME NEW p \in ProfileIds, ActivateProfile(p) \/ SetProfileDefault(p) PROVE TypeOK'
  <2>1. document' \in Documents
    BY <1>0, <1>3, WritesActive DEF ActivateProfile, SetProfileDefault, Elsewhere
  <2>2. Op("configure", p, "none", "configure") \in OpRecords /\ Place(Op("configure", p, "none", "configure"))
    BY <1>0, FreshOp, FreshOpType DEF Place
  <2> QED
    BY <1>0, <1>3, <2>1, <2>2, TypeKept DEF ActivateProfile, SetProfileDefault, vaultVars
<1>4. ASSUME NEW p \in ProfileIds, NEW s \in Secrets, SaveCredential(p, s) \/ ReplaceCredential(p, s)
      PROVE  TypeOK'
  <2>1. PICK kind \in {"save", "replace"} : ops' = [ops EXCEPT ![Coordinator] = Op(kind, p, s, "read")]
    BY <1>4 DEF SaveCredential, ReplaceCredential, Begin
  <2>2. document' \in Documents
    BY <1>0, <1>4, WritesBeginSave DEF SaveCredential, ReplaceCredential, Begin, Elsewhere
  <2>3. Op(kind, p, s, "read") \in OpRecords /\ Place(Op(kind, p, s, "read"))
    BY <1>0, FreshOp, FreshOpType DEF Place
  <2> QED
    BY <1>0, <1>4, <2>1, <2>2, <2>3, TypeKept DEF SaveCredential, ReplaceCredential, Begin, vaultVars
<1>5. ASSUME NEW p \in ProfileIds, NEW s \in Secrets, LoginFinished(p, s) PROVE TypeOK'
  <2>1. PICK pc \in {"read", "begin"} : ops' = [ops EXCEPT ![Coordinator] = Op("login", p, s, pc)]
    BY <1>5 DEF LoginFinished
  <2>2. document' \in Documents
    <3>1. document.profiles[p].linked \in BOOLEAN /\ SignInKind \in Kinds
      BY <1>0, KindsAssumption DEF Documents
    <3> QED
      BY <1>0, <1>5, <3>1, WritesProfile DEF LoginFinished, Upserted, Elsewhere
  <2>3. Op("login", p, s, pc) \in OpRecords /\ Place(Op("login", p, s, pc))
    BY <1>0, FreshOp, FreshOpType DEF Place
  <2> QED
    BY <1>0, <1>5, <2>1, <2>2, <2>3, TypeKept DEF LoginFinished, vaultVars
<1>6. ASSUME NEW p \in ProfileIds, DisconnectProfile(p) \/ DisconnectUnlinked(p) \/ DeleteProfile(p)
      PROVE  TypeOK'
  <2>1. PICK kind \in {"disconnect", "delete"}, pc \in {"erase", "tail"} :
           ops' = [ops EXCEPT ![Coordinator] = Op(kind, p, "none", pc)]
    BY <1>6 DEF DisconnectProfile, DisconnectUnlinked, DeleteProfile, Begin
  <2>2. document' \in Documents
    BY <1>0, <1>6, WritesDisconnect, WritesDelete
       DEF DisconnectProfile, DisconnectUnlinked, DeleteProfile, Begin, Elsewhere
  <2>3. Op(kind, p, "none", pc) \in OpRecords /\ Place(Op(kind, p, "none", pc))
    BY <1>0, FreshOp, FreshOpType DEF Place
  <2> QED
    BY <1>0, <1>6, <2>1, <2>2, <2>3, TypeKept
       DEF DisconnectProfile, DisconnectUnlinked, DeleteProfile, Begin, vaultVars
<1>7. CASE ConfigureCredential
  BY <1>0, <1>7, TypeSame DEF ConfigureCredential, vaultVars
<1> QED
  BY <1>1, <1>2, <1>3, <1>4, <1>5, <1>6, <1>7 DEF ProfileCommand, CredentialCommand

\* The places of a workflow keep the types.
LEMMA TypeWorkflow ==
  ASSUME TypeOK, NEW w \in Processes, WorkflowStep(w)
  PROVE  TypeOK'
<1>0. document \in Documents /\ manifest \in [ProfileIds -> Manifests]
  BY DEF TypeOK
<1> DEFINE op == ops[w]
           p == ops[w].profile
           Moved(pc) == [op EXCEPT !.pc = pc]
           Failed == [op EXCEPT !.pc = "tail", !.ok = FALSE]
<1>1. ASSUME NEW pc, pc # "idle", At(w, pc)
      PROVE  /\ op \in OpRecords /\ op # NoOp /\ Place(op) /\ op.pc = pc
             /\ w \in Refreshers => op.kind = "replace"
             /\ pc # "recover" => p \in ProfileIds
  BY <1>1, Inside
<1>2. ASSUME NEW pc \in {"recover", "activate", "begin", "read", "write", "drop", "commit", "erase",
                         "forget", "tail"},
             op \in OpRecords, w \in Refreshers => op.kind = "replace", Goto(w, pc), Place(Moved(pc)),
             document' \in Documents, manifest' \in [ProfileIds -> Manifests]
      PROVE  TypeOK'
  <2>1. Moved(pc) \in OpRecords /\ Moved(pc).kind = op.kind
    BY <1>2 DEF OpRecords
  <2>2. ops' = [ops EXCEPT ![w] = Moved(pc)]
    BY <1>2 DEF Goto, TypeOK
  <2> HIDE DEF Moved
  <2> QED
    BY <1>2, <2>1, <2>2, TypeKept
<1>3. ASSUME op \in OpRecords, w \in Refreshers => op.kind = "replace", Fails(w), Place(op), p \in ProfileIds,
             op.pc \in {"begin", "commit", "forget", "activate", "read", "write", "erase"},
             document' \in Documents, manifest' \in [ProfileIds -> Manifests]
      PROVE  TypeOK'
  <2>1. Failed \in OpRecords /\ Failed.kind = op.kind /\ Place(Failed)
    BY <1>3, ProfileNamesAssumption DEF OpRecords, Place
  <2>2. ops' = [ops EXCEPT ![w] = Failed]
    BY <1>3 DEF Fails, TypeOK
  <2> HIDE DEF Failed
  <2> QED
    BY <1>3, <2>1, <2>2, TypeKept
<1>4. CASE BeginSignedIn(w)
  <2>1. op \in OpRecords /\ Place(op) /\ op.pc = "begin" /\ p \in ProfileIds /\ (w \in Refreshers => op.kind = "replace")
    BY <1>1, <1>4 DEF BeginSignedIn
  <2>2. Place(Moved("read"))
    BY <2>1, ProfileNamesAssumption DEF Place, OpRecords
  <2> QED
    BY <1>0, <1>2, <1>4, <2>1, <2>2, WritesBeginSave DEF BeginSignedIn, WriteDocument, vaultVars, Elsewhere
<1>5. CASE Commit(w)
  <2>1. op \in OpRecords /\ Place(op) /\ op.pc = "commit" /\ p \in ProfileIds /\ (w \in Refreshers => op.kind = "replace")
    BY <1>1, <1>5 DEF Commit
  <2>2. PICK pc \in {"activate", "tail"} : Goto(w, pc) /\ (pc = "activate" => op.kind = "login")
    BY <1>5 DEF Commit, WriteDocument
  <2>3. Place(Moved(pc))
    BY <2>1, <2>2, ProfileNamesAssumption DEF Place, OpRecords
  <2> QED
    BY <1>0, <1>2, <1>5, <2>1, <2>2, <2>3, WritesCommit DEF Commit, WriteDocument, vaultVars, Elsewhere
<1>6. CASE Forget(w)
  <2>1. op \in OpRecords /\ Place(op) /\ op.pc = "forget" /\ p \in ProfileIds /\ (w \in Refreshers => op.kind = "replace")
    BY <1>1, <1>6 DEF Forget
  <2>2. PICK pc \in {"recover", "tail"} : Goto(w, pc) /\ (pc = "recover" => op.kind = "recover")
    BY <1>6 DEF Forget, WriteDocument
  <2>3. Place(Moved(pc))
    BY <2>1, <2>2, ProfileNamesAssumption DEF Place, OpRecords
  <2> QED
    BY <1>0, <1>2, <1>6, <2>1, <2>2, <2>3, WritesFinish DEF Forget, WriteDocument, vaultVars, Elsewhere
<1>7. CASE Activate(w)
  <2>1. op \in OpRecords /\ Place(op) /\ op.pc = "activate" /\ p \in ProfileIds /\ (w \in Refreshers => op.kind = "replace")
    BY <1>1, <1>7 DEF Activate
  <2>2. Place(Moved("tail"))
    BY <2>1, ProfileNamesAssumption DEF Place, OpRecords
  <2> QED
    BY <1>0, <1>2, <1>7, <2>1, <2>2, WritesActive DEF Activate, WriteDocument, vaultVars, Elsewhere
<1>8. CASE DocumentWriteFails(w)
  <2>1. PICK pc \in {"begin", "commit", "forget", "activate"} : At(w, pc)
    BY <1>8 DEF DocumentWriteFails
  <2> QED
    BY <1>0, <1>1, <1>3, <1>8, <2>1 DEF DocumentWriteFails, vaultVars
<1>9. CASE ReadManifest(w)
  <2>1. op \in OpRecords /\ Place(op) /\ op.pc = "read" /\ p \in ProfileIds /\ (w \in Refreshers => op.kind = "replace")
    BY <1>1, <1>9 DEF ReadManifest
  <2>2. UNCHANGED <<document, manifest>>
    BY <1>9 DEF ReadManifest, KeyringStep, vaultVars
  <2>3. CASE Fails(w)
    BY <1>0, <1>3, <2>1, <2>2, <2>3
  <2>4. ASSUME NEW old \in Manifests,
               ops' = [ops EXCEPT ![w].pc = "write", ![w].old = old, ![w].generation = NextGeneration(old)]
        PROVE  TypeOK'
    <3> DEFINE next == [op EXCEPT !.pc = "write", !.old = old, !.generation = NextGeneration(old)]
    <3>1. next \in OpRecords /\ next.kind = op.kind /\ Place(next)
      BY <2>1, <2>4, ProfileNamesAssumption DEF OpRecords, Place, NextGeneration, Generations
    <3>2. ops' = [ops EXCEPT ![w] = next]
      BY <2>4 DEF TypeOK
    <3> HIDE DEF next
    <3> QED
      BY <1>0, <2>1, <2>2, <3>1, <3>2, TypeKept
  <2>5. NoManifest \in Manifests /\ manifest[p] \in Manifests
    BY <1>0, <2>1 DEF NoManifest, Manifests
  <2>6. Fails(w) \/ \E old \in {manifest[p], NoManifest} :
          ops' = [ops EXCEPT ![w].pc = "write", ![w].old = old, ![w].generation = NextGeneration(old)]
    BY <1>9 DEF ReadManifest
  <2> QED
    BY <2>3, <2>4, <2>5, <2>6
<1>10. CASE WriteNextChunk(w)
  <2>1. op \in OpRecords /\ Place(op) /\ op.pc = "write" /\ p \in ProfileIds /\ (w \in Refreshers => op.kind = "replace")
    BY <1>1, <1>10 DEF WriteNextChunk
  <2> DEFINE count == op.next + 1
             next == [op EXCEPT !.next = count]
  <2>2. ops' = [ops EXCEPT ![w] = next] /\ UNCHANGED <<document, manifest>>
    BY <1>10 DEF WriteNextChunk, KeyringStep, TypeOK
  <2>3. count \in Nat
    BY <2>1 DEF OpRecords
  <2>4. next \in OpRecords /\ next.kind = op.kind /\ Place(next)
    <3> HIDE DEF count
    <3> QED
      BY <2>1, <2>3 DEF OpRecords, Place
  <2> HIDE DEF next
  <2> QED
    BY <1>0, <2>1, <2>2, <2>4, TypeKept
<1>11. CASE PublishManifest(w)
  <2>1. op \in OpRecords /\ Place(op) /\ op.pc = "write" /\ p \in ProfileIds /\ (w \in Refreshers => op.kind = "replace")
    BY <1>1, <1>11 DEF PublishManifest
  <2>2. Place(Moved("drop"))
    BY <2>1, ProfileNamesAssumption DEF Place, OpRecords
  <2>3. manifest' \in [ProfileIds -> Manifests]
    <3>1. op.secret \in Secrets /\ op.generation \in Generations
      BY <2>1 DEF Place, OpRecords
    <3>2. ChunkCount[op.secret] \in Nat
      BY <3>1, ChunkAssumption
    <3> QED
      BY <1>0, <1>11, <2>1, <3>1, <3>2 DEF PublishManifest, WriteManifest, Manifests
  <2> QED
    BY <1>0, <1>2, <1>11, <2>1, <2>2, <2>3 DEF PublishManifest, KeyringStep
<1>12. CASE EraseEntry(w)
  <2>1. op \in OpRecords /\ Place(op) /\ op.pc = "erase" /\ p \in ProfileIds /\ (w \in Refreshers => op.kind = "replace")
    BY <1>1, <1>12 DEF EraseEntry
  <2>2. /\ UNCHANGED document
        /\ \/ Fails(w) /\ UNCHANGED manifest
           \/ DeleteManifest(p) /\ \E old \in {manifest[p], NoManifest} :
                ops' = [ops EXCEPT ![w].pc = "drop", ![w].old = old]
    BY <1>12 DEF EraseEntry, KeyringStep
  <2>3. NoManifest \in Manifests /\ manifest[p] \in Manifests
    BY <1>0, <2>1 DEF NoManifest, Manifests, Generations
  <2>4. CASE Fails(w) /\ UNCHANGED manifest
    BY <1>0, <1>3, <2>1, <2>2, <2>4
  <2>5. ASSUME NEW old \in Manifests, DeleteManifest(p), ops' = [ops EXCEPT ![w].pc = "drop", ![w].old = old]
        PROVE  TypeOK'
    <3> DEFINE next == [op EXCEPT !.pc = "drop", !.old = old]
    <3>1. next \in OpRecords /\ next.kind = op.kind /\ Place(next)
      BY <2>1, <2>5, ProfileNamesAssumption DEF OpRecords, Place
    <3>2. ops' = [ops EXCEPT ![w] = next] /\ manifest' \in [ProfileIds -> Manifests]
      BY <1>0, <2>3, <2>5 DEF TypeOK, DeleteManifest
    <3> HIDE DEF next
    <3> QED
      BY <1>0, <2>1, <2>2, <3>1, <3>2, TypeKept
  <2> QED
    BY <2>2, <2>3, <2>4, <2>5
<1>13. ASSUME NEW kept \in SUBSET (1..MaxCount), WriteFails(w, kept) PROVE TypeOK'
  <2>1. op \in OpRecords /\ Place(op) /\ op.pc = "write" /\ p \in ProfileIds /\ (w \in Refreshers => op.kind = "replace")
    BY <1>1, <1>13 DEF WriteFails
  <2> QED
    BY <1>0, <1>3, <1>13, <2>1 DEF WriteFails, KeyringStep
<1>14. ASSUME NEW kept \in SUBSET (1..MaxCount), DropOldGeneration(w, kept) PROVE TypeOK'
  <2>1. op \in OpRecords /\ Place(op) /\ op.pc = "drop" /\ p \in ProfileIds /\ (w \in Refreshers => op.kind = "replace")
    BY <1>1, <1>14 DEF DropOldGeneration
  <2>2. /\ Goto(w, AfterVault(op)) /\ UNCHANGED <<document, manifest>>
        /\ AfterVault(op) \in {"commit", "activate", "forget", "tail"}
    BY <1>14 DEF DropOldGeneration, KeyringStep, AfterVault
  <2>3. Place(Moved(AfterVault(op)))
    BY <2>1, ProfileNamesAssumption DEF Place, OpRecords, AfterVault
  <2> QED
    BY <1>0, <1>2, <2>1, <2>2, <2>3
<1> QED
  BY <1>4, <1>5, <1>6, <1>7, <1>8, <1>9, <1>10, <1>11, <1>12, <1>13, <1>14 DEF WorkflowStep

\* Every step keeps the types.
LEMMA TypeStep ==
  ASSUME TypeOK, [Next]_vars
  PROVE  TypeOK'
<1> USE CoordinatorAlone
<1>0. document \in Documents /\ manifest \in [ProfileIds -> Manifests]
  BY DEF TypeOK
<1>1. CASE UNCHANGED vars
  BY <1>0, <1>1, TypeSame DEF vars, profileVars, vaultVars
<1>2. CASE ProfileCommand \/ CredentialCommand
  BY <1>2, TypeCommands
<1>3. CASE CompletionStep
  <2>1. ASSUME NEW readable \in BOOLEAN, Finish(readable) \/ Configure(readable) PROVE TypeOK'
    <3>1. ops' = [ops EXCEPT ![Coordinator] = NoOp] /\ UNCHANGED <<document, manifest>>
      BY <2>1 DEF Finish, Configure, vaultVars
    <3> QED
      BY <1>0, <3>1, TypeKept
  <2>2. CASE RecoveryDone
    BY <1>0, <2>2, TypeKept DEF RecoveryDone, vaultVars
  <2>3. CASE RecoverySkips
    <3> DEFINE op == ops[Coordinator]
               next == [op EXCEPT !.pc = "recover"]
    <3>1. op \in OpRecords /\ Place(op) /\ op.kind = "recover"
      BY <2>3, Inside DEF RecoverySkips
    <3>2. next \in OpRecords /\ Place(next)
      BY <3>1 DEF OpRecords, Place
    <3>3. ops' = [ops EXCEPT ![Coordinator] = next] /\ UNCHANGED <<document, manifest>>
      BY <2>3 DEF RecoverySkips, Goto, TypeOK, vaultVars
    <3> HIDE DEF next
    <3> QED
      BY <1>0, <3>2, <3>3, TypeKept
  <2>4. ASSUME NEW p \in ProfileIds, RecoverNext(p) PROVE TypeOK'
    <3> DEFINE op == ops[Coordinator]
               fresh == Op("recover", p, "none", "erase")
               rest == [fresh EXCEPT !.todo = op.todo \ {p}]
               complete == document.recovery[p] = "uncommitted_save" /\ Linked(p)
               next == IF complete THEN [rest EXCEPT !.pc = "forget"] ELSE rest
    <3>1. op \in OpRecords
      BY <2>4, Inside DEF RecoverNext
    <3>2. /\ fresh \in OpRecords /\ fresh.kind = "recover" /\ fresh.profile = p /\ fresh.pc = "erase"
          /\ p # NoProfile
      BY FreshOp, FreshOpType, ProfileNamesAssumption DEF Names
    <3>3. next \in OpRecords /\ Place(next)
      <4> HIDE DEF fresh, complete
      <4>1. rest \in OpRecords /\ rest.kind = "recover" /\ rest.profile = p /\ rest.pc = "erase"
        BY <3>1, <3>2 DEF OpRecords
      <4> HIDE DEF rest
      <4> QED
        BY <3>2, <4>1 DEF OpRecords, Place
    <3>4. ops' = [ops EXCEPT ![Coordinator] = next] /\ UNCHANGED <<document, manifest>>
      BY <2>4 DEF RecoverNext, vaultVars
    <3> HIDE DEF next
    <3> QED
      BY <1>0, <3>3, <3>4, TypeKept
  <2> QED
    BY <1>3, <2>1, <2>2, <2>3, <2>4 DEF CompletionStep
<1>4. CASE BackgroundStep
  <2>1. ASSUME NEW r \in Refreshers, TokenRefreshed(r) PROVE TypeOK'
    BY <1>0, <2>1, TypeKept DEF TokenRefreshed, vaultVars, Processes
  <2>2. ASSUME NEW r \in Refreshers, NEW p \in ProfileIds, NEW s \in Secrets, RefreshToken(r, p, s)
        PROVE  TypeOK'
    <3>1. /\ Op("replace", p, s, "read") \in OpRecords /\ Place(Op("replace", p, s, "read"))
          /\ Op("replace", p, s, "read").kind = "replace"
      BY FreshOp, FreshOpType, ProfileNamesAssumption DEF Place, Names
    <3> QED
      BY <1>0, <2>2, <3>1, TypeKept DEF RefreshToken, vaultVars, Processes
  <2>3. CASE \/ \E f \in refreshes, result \in {"live", "cached", "unauthorized", "failed"} :
                  CatalogAnswered(f, result)
             \/ \E t \in tests, ready \in BOOLEAN : TestAnswered(t, ready)
    BY <1>0, <2>3, TypeSame DEF CatalogAnswered, TestAnswered, vaultVars
  <2> QED
    BY <1>4, <2>1, <2>2, <2>3 DEF BackgroundStep
<1>5. CASE RefreshCatalog \/ \E p \in ProfileIds : TestProfile(p)
  BY <1>0, <1>5, TypeSame DEF RefreshCatalog, TestProfile, vaultVars
<1>6. CASE Crash
  <2> DEFINE fresh == Op("recover", NoProfile, "none", "recover")
             next == [fresh EXCEPT !.todo = PendingRecovery]
  <2>1. fresh \in OpRecords /\ fresh.kind = "recover" /\ fresh.pc = "recover"
    BY FreshOp, FreshOpType DEF Names
  <2>2. next \in OpRecords /\ Place(next)
    <3> HIDE DEF fresh
    <3> QED
      BY <2>1 DEF OpRecords, Place, PendingRecovery
  <2>3. ops' = [w \in Processes |-> IF w = Coordinator THEN next ELSE NoOp] /\ UNCHANGED <<document, manifest>>
    BY <1>6 DEF Crash, Launch, vaultVars
  <2> HIDE DEF next
  <2>4. ops' \in [Processes -> OpRecords \cup {NoOp}]
    BY <2>2, <2>3
  <2>5. \A w \in Processes : ops'[w] # NoOp => Place(ops'[w])
    BY <2>2, <2>3
  <2>6. \A r \in Refreshers : ops'[r] = NoOp
    BY <2>3 DEF Processes
  <2> QED
    BY <1>0, <2>3, <2>4, <2>5, <2>6 DEF TypeOK, Idle, Place
<1>7. ASSUME NEW w \in Processes, WorkflowStep(w) PROVE TypeOK'
  BY <1>7, TypeWorkflow
<1> QED
  BY <1>1, <1>2, <1>3, <1>4, <1>5, <1>6, <1>7 DEF Next, Step

\* The first state.
LEMMA InitType == Init => TypeOK
<1> SUFFICES ASSUME Init PROVE TypeOK
  OBVIOUS
<1> DEFINE fresh == Op("recover", NoProfile, "none", "recover")
<1>1. fresh \in OpRecords /\ Place(fresh)
  BY FreshOp, FreshOpType DEF Names, Place
<1>2. ops = [w \in Processes |-> IF w = Coordinator THEN fresh ELSE NoOp]
  BY DEF Init
<1>3. document \in Documents /\ manifest \in [ProfileIds -> Manifests]
  BY DEF Init, VaultInit, Documents, Absent, Names, Records, NoManifest, Manifests
<1> HIDE DEF fresh
<1>4. ops \in [Processes -> OpRecords \cup {NoOp}] /\ \A w \in Processes : ops[w] # NoOp => Place(ops[w])
  BY <1>1, <1>2
<1>5. \A r \in Refreshers : ops[r] = NoOp
  BY <1>2, CoordinatorAlone DEF Processes
<1> QED
  BY <1>3, <1>4, <1>5 DEF TypeOK, Idle

\* For every number of profiles, kinds and processes the types are kept.
THEOREM TypeCorrect == Spec => []TypeOK
<1>1. TypeOK /\ [Next]_vars => TypeOK'
  BY TypeStep
<1> QED
  BY <1>1, InitType, PTL DEF Spec

-----------------------------------------------------------------------------
(* The adapter and the active profile. *)

\* A document write that takes neither the link nor the record of the active profile.
LEMMA FitsKept ==
  ASSUME Fits, UNCHANGED <<provider, sentinel>>, document'.active = document.active,
         document.active # NoProfile /\ LinkOrRecord(document, document.active) =>
             LinkOrRecord(document', document.active)
  PROVE  Fits'
  BY DEF Fits

\* A justified adapter fits.
LEMMA JustifiedFits ==
  ASSUME Justified(document, provider)
  PROVE  Fits
  BY DEF Fits, Justified, LinkOrRecord

\* configure_active_profile builds an adapter only on what the document and the
\* environment offer.
LEMMA ConfiguredFits ==
  ASSUME NEW readable, ConfigureActiveProfile(document.active, readable), UNCHANGED document
  PROVE  Fits'
<1> DEFINE p == document.active
<1>1. CASE readable /\ CredentialFor(p) # MissingEntry
  <2>1. provider' = Adapter(p, CredentialFor(p))
    BY <1>1 DEF ConfigureActiveProfile
  <2>2. Linked(p) \/ CredentialFor(p) \in EnvironmentSecrets
    <3>1. CASE document.profiles[p].kind \in EnvironmentKinds
      BY <3>1 DEF CredentialFor, EnvironmentSecrets
    <3>2. CASE document.profiles[p].kind \notin EnvironmentKinds /\ ~Linked(p)
      BY <1>1, <3>2 DEF CredentialFor
    <3> QED
      BY <3>1, <3>2
  <2> QED
    BY <2>1, <2>2 DEF Fits, Adapter, Linked, LinkOrRecord
<1>2. CASE ~(readable /\ CredentialFor(p) # MissingEntry)
  BY <1>2 DEF ConfigureActiveProfile, NoAdapterNow, Fits
<1> QED
  BY <1>1, <1>2

\* A step that concerns neither the coordinator's workflow nor its adapter.
LEMMA AdapterKept ==
  ASSUME AdapterIInv, TypeOK', ops'[Coordinator] = ops[Coordinator], UNCHANGED <<document, provider, sentinel>>
  PROVE  AdapterIInv'
<1>1. Fits => Fits'
  BY DEF Fits
<1>2. \A op : AdapterPlace(op) => AdapterPlace(op)'
  BY DEF AdapterPlace, ConfiguresActive, Justified
<1>3. Reconfigures(ops'[Coordinator]) <=> Reconfigures(ops[Coordinator])
  OBVIOUS
<1> QED
  BY <1>1, <1>2, <1>3 DEF AdapterIInv, Idle, AdapterPlace, ConfiguresActive, Justified, Reconfigures

\* The coordinator is idle and its adapter fits.
LEMMA AdapterIdle ==
  ASSUME TypeOK', ops'[Coordinator] = NoOp, Fits'
  PROVE  AdapterIInv'
  BY DEF AdapterIInv, Idle

\* The coordinator enters a workflow, or goes on in one.
LEMMA AdapterEnters ==
  ASSUME TypeOK', NEW op, ops'[Coordinator] = op, op # NoOp, AdapterPlace(op)', Reconfigures(op) \/ Fits'
  PROVE  AdapterIInv'
  BY DEF AdapterIInv, Idle, AdapterPlace, ConfiguresActive, Justified, Reconfigures

\* A keyring call, or a failure, moves the coordinator's workflow on.
LEMMA AdapterMoves ==
  ASSUME AdapterIInv, TypeOK', ~Idle(Coordinator), NEW op, ops'[Coordinator] = op, op # NoOp,
         op.kind = ops[Coordinator].kind, op.profile = ops[Coordinator].profile,
         op.active = ops[Coordinator].active, ops[Coordinator].pc # "tail", Place(ops[Coordinator]),
         \/ op.pc # "tail" \/ op.ok = FALSE \/ op.kind = "replace",
         UNCHANGED <<document, provider, sentinel>>
  PROVE  AdapterIInv'
<1>1. AdapterPlace(ops[Coordinator])
  BY DEF AdapterIInv
<1>2. AdapterPlace(op)'
  BY <1>1 DEF AdapterPlace, ConfiguresActive, Justified
<1>3. Reconfigures(op) \/ Fits'
  <2>1. Fits => Fits'
    BY DEF Fits
  <2>2. Reconfigures(ops[Coordinator]) => Reconfigures(op)
    BY DEF Reconfigures
  <2> QED
    BY <2>1, <2>2 DEF AdapterIInv
<1> QED
  BY <1>2, <1>3, AdapterEnters

\* The commands.
LEMMA AdapterCommands ==
  ASSUME AdapterIInv, TypeOK', ProfileCommand \/ CredentialCommand
  PROVE  AdapterIInv'
<1> USE CoordinatorAlone
<1>0. TypeOK /\ document \in Documents /\ ops \in [Processes -> OpRecords \cup {NoOp}]
  BY DEF AdapterIInv, TypeOK
<1>1. Idle(Coordinator) /\ Fits
  BY DEF ProfileCommand, CredentialCommand, UpsertProfile, DuplicateProfile, ActivateProfile, SetProfileDefault,
       SaveCredential, ReplaceCredential, LoginFinished, DisconnectProfile, DisconnectUnlinked, DeleteProfile,
       Begin, ConfigureCredential, Command, Serving, AdapterIInv
<1>2. \A p \in ProfileIds : p # NoProfile /\ p \in Names
  BY ProfileNamesAssumption DEF Names
<1>3. ASSUME NEW kind \in {"configure", "upsert", "save", "replace", "disconnect", "delete", "login"},
             NEW p, NEW s, NEW pc
      PROVE  Op(kind, p, s, pc) # NoOp
  BY FreshOp DEF NoOp
<1>4. ASSUME NEW p \in ProfileIds, NEW kind \in Kinds, UpsertProfile(p, kind) PROVE AdapterIInv'
  <2>1. /\ document'.active = document.active /\ document'.recovery = document.recovery
        /\ \A q \in ProfileIds : document'.profiles[q].linked = document.profiles[q].linked
    <3>1. document.profiles[p].linked \in BOOLEAN
      BY <1>0 DEF Documents
    <3> QED
      BY <1>0, <1>4, <3>1, WritesProfile DEF UpsertProfile, Upserted, Elsewhere
  <2>2. Fits'
    BY <1>0, <1>1, <1>4, <2>1, FitsKept DEF UpsertProfile, KeepAdapter, LinkOrRecord, Documents, Names
  <2>3. PICK op : /\ ops' = [ops EXCEPT ![Coordinator] = op]
                  /\ \/ op = NoOp \/ op = Op("upsert", p, "none", "activate")
                     \/ op = Op("configure", p, "none", "configure") /\ document.active = p
    BY <1>4 DEF UpsertProfile
  <2>4. ops'[Coordinator] = op
    BY <1>0, <2>3
  <2>5. CASE op = NoOp
    BY <2>2, <2>4, <2>5, AdapterIdle
  <2>6. CASE op # NoOp
    <3>1. AdapterPlace(op)'
      BY <2>1, <2>3, <2>6, FreshOp DEF AdapterPlace, ConfiguresActive
    <3> QED
      BY <2>2, <2>4, <2>6, <3>1, AdapterEnters
  <2> QED
    BY <2>5, <2>6
<1>5. ASSUME NEW p \in ProfileIds, NEW q \in ProfileIds, DuplicateProfile(p, q) PROVE AdapterIInv'
  <2>1. document.profiles[p].kind \in Kinds \cup {"absent"}
    BY <1>0 DEF Documents
  <2>2. /\ document'.active = document.active /\ document'.recovery = document.recovery
        /\ \A r \in ProfileIds : document'.profiles[r].linked = document.profiles[r].linked
    <3>1. document.profiles[q].linked = FALSE
      BY <1>5 DEF DuplicateProfile, Exists, Absent
    <3>2. document' = SetProfile(document, q, document.profiles[p].kind, FALSE)
      BY <1>5 DEF DuplicateProfile
    <3>3. /\ document'.profiles[q].linked = FALSE /\ Elsewhere(document', q)
          /\ document'.active = document.active /\ document'.recovery = document.recovery
      BY <1>0, <2>1, <3>2, WritesProfile
    <3> QED
      BY <3>1, <3>3 DEF Elsewhere
  <2>3. Fits'
    BY <1>0, <1>1, <1>5, <2>2, FitsKept DEF DuplicateProfile, KeepAdapter, LinkOrRecord, Documents, Names
  <2> QED
    BY <1>1, <1>5, <2>3, AdapterIdle DEF DuplicateProfile, Idle
<1>6. ASSUME NEW p \in ProfileIds, ActivateProfile(p) \/ SetProfileDefault(p) PROVE AdapterIInv'
  <2>1. document'.active = p
    BY <1>0, <1>6, WritesActive DEF ActivateProfile, SetProfileDefault
  <2>2. PICK op : ops'[Coordinator] = op /\ op = Op("configure", p, "none", "configure")
    BY <1>0, <1>6 DEF ActivateProfile, SetProfileDefault
  <2>3. AdapterPlace(op)' /\ Reconfigures(op) /\ op # NoOp
    BY <1>3, <2>1, <2>2, FreshOp DEF AdapterPlace, ConfiguresActive, Reconfigures
  <2> QED
    BY <2>2, <2>3, AdapterEnters
<1>7. ASSUME NEW p \in ProfileIds, NEW s \in Secrets, SaveCredential(p, s) \/ ReplaceCredential(p, s)
      PROVE  AdapterIInv'
  <2>1. PICK kind \in {"save", "replace"} : ops' = [ops EXCEPT ![Coordinator] = Op(kind, p, s, "read")]
    BY <1>7 DEF SaveCredential, ReplaceCredential, Begin
  <2>2. /\ document'.active = document.active /\ document'.profiles = document.profiles
        /\ \A q \in ProfileIds : document.recovery[q] # "none" => document'.recovery[q] # "none"
    BY <1>0, <1>7, WritesBeginSave DEF SaveCredential, ReplaceCredential, Begin, Elsewhere
  <2>3. Fits'
    BY <1>0, <1>1, <1>7, <2>2, FitsKept
       DEF SaveCredential, ReplaceCredential, Begin, KeepAdapter, LinkOrRecord, Documents, Names
  <2>4. PICK op : ops'[Coordinator] = op /\ op = Op(kind, p, s, "read")
    BY <1>0, <2>1
  <2>5. AdapterPlace(op)' /\ op # NoOp
    BY <1>3, <2>4, FreshOp DEF AdapterPlace, ConfiguresActive
  <2> QED
    BY <2>3, <2>4, <2>5, AdapterEnters
<1>8. ASSUME NEW p \in ProfileIds, NEW s \in Secrets, LoginFinished(p, s) PROVE AdapterIInv'
  <2>1. PICK pc \in {"read", "begin"} : ops' = [ops EXCEPT ![Coordinator] = Op("login", p, s, pc)]
    BY <1>8 DEF LoginFinished
  <2>2. /\ document'.active = document.active /\ document'.recovery = document.recovery
        /\ \A q \in ProfileIds : document'.profiles[q].linked = document.profiles[q].linked
    <3>1. document.profiles[p].linked \in BOOLEAN /\ SignInKind \in Kinds
      BY <1>0, KindsAssumption DEF Documents
    <3> QED
      BY <1>0, <1>8, <3>1, WritesProfile DEF LoginFinished, Upserted, Elsewhere
  <2>3. Fits'
    BY <1>0, <1>1, <1>8, <2>2, FitsKept DEF LoginFinished, KeepAdapter, LinkOrRecord, Documents, Names
  <2>4. PICK op : ops'[Coordinator] = op /\ op = Op("login", p, s, pc)
    BY <1>0, <2>1
  <2>5. AdapterPlace(op)' /\ op # NoOp
    BY <1>3, <2>4, FreshOp DEF AdapterPlace, ConfiguresActive
  <2> QED
    BY <2>3, <2>4, <2>5, AdapterEnters
<1>9. ASSUME NEW p \in ProfileIds, DisconnectProfile(p) PROVE AdapterIInv'
  <2>a. PICK op : op = Op("disconnect", p, "none", "erase")
    OBVIOUS
  <2>0. /\ op = Op("disconnect", p, "none", "erase") /\ op.kind = "disconnect" /\ op.profile = p /\ op.pc = "erase"
        /\ op.active <=> document.active = p
    BY <2>a, FreshOp
  <2>1. /\ document'.active = document.active /\ document'.recovery[p] = "delete"
        /\ \A q \in ProfileIds \ {p} : /\ document'.profiles[q] = document.profiles[q]
                                       /\ document'.recovery[q] = document.recovery[q]
    BY <1>0, <1>9, WritesDisconnect DEF DisconnectProfile, Begin, Elsewhere
  <2>2. Fits'
    BY <1>0, <1>1, <1>9, <2>1, FitsKept DEF DisconnectProfile, Begin, KeepAdapter, LinkOrRecord, Documents, Names
  <2>3. ops'[Coordinator] = op /\ op # NoOp
    BY <1>0, <1>3, <1>9, <2>0 DEF DisconnectProfile, Begin
  <2>4. AdapterPlace(op)'
    BY <2>0, <2>1 DEF AdapterPlace, ConfiguresActive
  <2> QED
    BY <2>2, <2>3, <2>4, AdapterEnters
<1>10. ASSUME NEW p \in ProfileIds, DisconnectUnlinked(p) PROVE AdapterIInv'
  <2>a. PICK op : op = Op("disconnect", p, "none", "tail")
    OBVIOUS
  <2>0. /\ op = Op("disconnect", p, "none", "tail") /\ op.kind = "disconnect" /\ op.profile = p /\ op.pc = "tail"
        /\ op.active <=> document.active = p
    BY <2>a, FreshOp
  <2>1. UNCHANGED <<document, provider, sentinel>>
    BY <1>10 DEF DisconnectUnlinked, Begin, KeepAdapter
  <2>2. Fits'
    BY <1>1, <2>1 DEF Fits
  <2>3. ops'[Coordinator] = op /\ op # NoOp
    BY <1>0, <1>3, <1>10, <2>0 DEF DisconnectUnlinked, Begin
  <2>4. AdapterPlace(op)'
    BY <2>0, <2>1 DEF AdapterPlace, ConfiguresActive
  <2> QED
    BY <2>2, <2>3, <2>4, AdapterEnters
<1>11. ASSUME NEW p \in ProfileIds, DeleteProfile(p) PROVE AdapterIInv'
  <2>a. PICK op : op = Op("delete", p, "none", "erase")
    OBVIOUS
  <2>0. /\ op = Op("delete", p, "none", "erase") /\ op.kind = "delete" /\ op.profile = p /\ op.pc = "erase"
        /\ op.active <=> document.active = p
    BY <2>a, FreshOp
  <2>1. /\ document.active # p => document'.active = document.active
        /\ \A q \in ProfileIds \ {p} : /\ document'.profiles[q] = document.profiles[q]
                                       /\ document'.recovery[q] = document.recovery[q]
    BY <1>0, <1>11, WritesDelete DEF DeleteProfile, Begin, Elsewhere
  <2>2. document.active # p => Fits'
    BY <1>0, <1>1, <1>11, <2>1, FitsKept DEF DeleteProfile, Begin, KeepAdapter, LinkOrRecord, Documents, Names
  <2>3. ops'[Coordinator] = op /\ op # NoOp
    BY <1>0, <1>3, <1>11, <2>0 DEF DeleteProfile, Begin
  <2>4. AdapterPlace(op)' /\ (document.active = p => Reconfigures(op))
    BY <2>0, <2>1 DEF AdapterPlace, ConfiguresActive, Reconfigures
  <2> QED
    BY <2>2, <2>3, <2>4, AdapterEnters
<1>12. CASE ConfigureCredential
  <2>1. /\ provider'.profile = document.active /\ sentinel' = <<<<"session", used.commands>>>>
        /\ UNCHANGED <<document, ops>>
    BY <1>12 DEF ConfigureCredential, Adapter
  <2>2. sentinel' # NoSecret
    BY <2>1 DEF NoSecret, MissingEntry
  <2>3. Fits'
    BY <2>1, <2>2 DEF Fits
  <2> QED
    BY <1>1, <2>1, <2>3, AdapterIdle DEF Idle
<1> QED
  BY <1>4, <1>5, <1>6, <1>7, <1>8, <1>9, <1>10, <1>11, <1>12 DEF ProfileCommand, CredentialCommand

\* The places of a workflow.
LEMMA AdapterWorkflow ==
  ASSUME AdapterIInv, TypeOK', NEW w \in Processes, WorkflowStep(w)
  PROVE  AdapterIInv'
<1> USE CoordinatorAlone
<1>0. TypeOK /\ document \in Documents /\ ops \in [Processes -> OpRecords \cup {NoOp}]
  BY DEF AdapterIInv, TypeOK
<1>1. PICK pc \in {"begin", "commit", "forget", "activate", "read", "write", "drop", "erase"} : At(w, pc)
  BY DEF WorkflowStep, BeginSignedIn, Commit, Forget, Activate, DocumentWriteFails, ReadManifest, WriteNextChunk,
       PublishManifest, EraseEntry, WriteFails, DropOldGeneration
<1>2. PICK op : op = ops[w]
  OBVIOUS
<1>3. /\ op \in OpRecords /\ op # NoOp /\ ~Idle(w) /\ Place(op) /\ op.pc = pc /\ op.profile \in ProfileIds
      /\ w # Coordinator => op.kind = "replace"
  BY <1>0, <1>1, <1>2, Inside DEF Processes
<1>4. UNCHANGED <<provider, sentinel>>
  BY DEF WorkflowStep, BeginSignedIn, Commit, Forget, Activate, DocumentWriteFails, ReadManifest, WriteNextChunk,
       PublishManifest, EraseEntry, WriteFails, DropOldGeneration, WriteDocument, KeyringStep, KeepAdapter
<1>5. ASSUME NEW next, ops' = [ops EXCEPT ![w] = next], UNCHANGED document, next \in OpRecords,
             next.kind = op.kind, next.profile = op.profile, next.active = op.active,
             next.pc # "tail" \/ next.ok = FALSE \/ next.kind = "replace"
      PROVE  AdapterIInv'
  <2>1. CASE w = Coordinator
    <3>1. ops'[Coordinator] = next /\ next # NoOp
      BY <1>0, <1>5, <2>1, BusyOp
    <3>2. ops[Coordinator].pc # "tail"
      BY <1>1, <1>2, <1>3, <2>1
    <3> QED
      BY <1>2, <1>3, <1>4, <1>5, <2>1, <3>1, <3>2, AdapterMoves
  <2>2. CASE w # Coordinator
    <3>1. ops'[Coordinator] = ops[Coordinator]
      BY <1>0, <1>5, <2>2
    <3> QED
      BY <1>4, <1>5, <3>1, AdapterKept
  <2> QED
    BY <2>1, <2>2
<1>6. ASSUME Fails(w), UNCHANGED document PROVE AdapterIInv'
  <2>1. PICK next : next = [op EXCEPT !.pc = "tail", !.ok = FALSE]
    OBVIOUS
  <2>2. /\ next \in OpRecords /\ next.kind = op.kind /\ next.profile = op.profile /\ next.active = op.active
        /\ next.ok = FALSE
    BY <1>3, <2>1 DEF OpRecords
  <2>3. ops' = [ops EXCEPT ![w] = next]
    BY <1>0, <1>2, <1>6, <2>1 DEF Fails
  <2> QED
    BY <1>5, <1>6, <2>2, <2>3
<1>7. ASSUME NEW to \in {"recover", "read", "activate", "drop", "commit", "forget", "tail"}, Goto(w, to)
      PROVE  \E next \in OpRecords :
                /\ ops' = [ops EXCEPT ![w] = next] /\ next.kind = op.kind /\ next.profile = op.profile
                /\ next.active = op.active /\ next.ok = op.ok /\ next.pc = to
  <2>1. PICK next : next = [op EXCEPT !.pc = to]
    OBVIOUS
  <2>2. /\ next \in OpRecords /\ next.kind = op.kind /\ next.profile = op.profile /\ next.active = op.active
        /\ next.ok = op.ok /\ next.pc = to
    BY <1>3, <2>1 DEF OpRecords
  <2>3. ops' = [ops EXCEPT ![w] = next]
    BY <1>0, <1>2, <1>7, <2>1 DEF Goto
  <2> QED
    BY <2>2, <2>3
<1>8. ASSUME op.kind # "replace"
      PROVE  /\ w = Coordinator /\ AdapterPlace(op)
             /\ Reconfigures(op) \/ Fits
  BY <1>2, <1>3, <1>8 DEF AdapterIInv
<1>9. CASE BeginSignedIn(w)
  <2>1. op.pc = "begin" /\ op.kind = "login"
    BY <1>2, <1>3, <1>9 DEF BeginSignedIn, At, Place, OpRecords
  <2>2. PICK next \in OpRecords :
           /\ ops' = [ops EXCEPT ![w] = next] /\ next.kind = op.kind /\ next.pc = "read"
    BY <1>7, <1>9 DEF BeginSignedIn, WriteDocument
  <2>3. /\ document'.active = document.active /\ document'.profiles = document.profiles
        /\ \A q \in ProfileIds : document.recovery[q] # "none" => document'.recovery[q] # "none"
    BY <1>0, <1>2, <1>3, <1>9, WritesBeginSave DEF BeginSignedIn, WriteDocument, Elsewhere
  <2>4. Fits'
    <3>1. Fits
      BY <1>8, <2>1 DEF Reconfigures
    <3> QED
      BY <1>0, <1>4, <2>3, <3>1, FitsKept DEF LinkOrRecord, Documents, Names
  <2>5. AdapterPlace(next)' /\ ops'[Coordinator] = next /\ next # NoOp
    BY <1>0, <1>8, <2>1, <2>2, BusyOp DEF AdapterPlace, ConfiguresActive
  <2> QED
    BY <2>4, <2>5, AdapterEnters
<1>10. CASE Commit(w)
  <2>1. op.pc = "commit" /\ op.kind \in {"save", "login"}
    BY <1>2, <1>3, <1>10 DEF Commit, At, Place, OpRecords
  <2>2. PICK next \in OpRecords :
           /\ ops' = [ops EXCEPT ![w] = next] /\ next.kind = op.kind
           /\ next.kind = "login" => next.pc = "activate"
    BY <1>2, <1>7, <1>10 DEF Commit, WriteDocument
  <2>3. /\ document'.active = document.active /\ document'.profiles[op.profile].linked
        /\ \A q \in ProfileIds \ {op.profile} : /\ document'.profiles[q] = document.profiles[q]
                                                /\ document'.recovery[q] = document.recovery[q]
    BY <1>0, <1>2, <1>3, <1>10, WritesCommit DEF Commit, WriteDocument, Elsewhere
  <2>4. Fits'
    <3>1. Fits
      BY <1>8, <2>1 DEF Reconfigures
    <3> QED
      BY <1>0, <1>4, <2>3, <3>1, FitsKept DEF LinkOrRecord, Documents, Names
  <2>5. AdapterPlace(next)' /\ ops'[Coordinator] = next /\ next # NoOp
    BY <1>0, <1>8, <2>1, <2>2, BusyOp DEF AdapterPlace, ConfiguresActive
  <2> QED
    BY <2>4, <2>5, AdapterEnters
<1>11. CASE Forget(w)
  <2>1. op.pc = "forget" /\ op.kind \in {"disconnect", "delete", "recover"}
    BY <1>2, <1>3, <1>11 DEF Forget, At, Place, OpRecords
  <2>2. PICK next \in OpRecords :
           /\ ops' = [ops EXCEPT ![w] = next] /\ next.kind = op.kind /\ next.profile = op.profile
           /\ next.active = op.active /\ next.ok = op.ok
           /\ next.kind # "recover" => next.pc = "tail"
    BY <1>2, <1>7, <1>11 DEF Forget, WriteDocument
  <2>3. /\ document'.active = document.active /\ document'.profiles = document.profiles
        /\ \A q \in ProfileIds \ {op.profile} : document'.recovery[q] = document.recovery[q]
    BY <1>0, <1>2, <1>3, <1>11, WritesFinish DEF Forget, WriteDocument, Elsewhere
  <2>4. w = Coordinator /\ AdapterPlace(op) /\ (Reconfigures(op) \/ Fits) /\ (op.kind # "recover" => op.ok)
    BY <1>3, <1>8, <2>1 DEF Place
  <2>5. AdapterPlace(next)' /\ ops'[Coordinator] = next /\ next # NoOp
    BY <1>0, <2>1, <2>2, <2>3, <2>4, <1>4, BusyOp DEF AdapterPlace, ConfiguresActive, Justified
  <2>6. CASE op.kind = "recover"
    <3>1. Justified(document, provider)'
      BY <2>2, <2>5, <2>6 DEF AdapterPlace
    <3>2. Fits'
      BY <3>1 DEF Fits, Justified, LinkOrRecord
    <3> QED
      BY <2>5, <3>2, AdapterEnters
  <2>7. CASE op.kind # "recover" /\ op.active
    <3>1. Reconfigures(next)
      BY <2>1, <2>2, <2>4, <2>7 DEF Reconfigures
    <3> QED
      BY <2>5, <3>1, AdapterEnters
  <2>8. CASE op.kind # "recover" /\ ~op.active
    <3>1. op.profile # document.active /\ Fits
      BY <2>1, <2>4, <2>8 DEF AdapterPlace, Reconfigures
    <3>2. Fits'
      BY <1>0, <1>4, <2>3, <3>1, FitsKept DEF LinkOrRecord, Documents, Names
    <3> QED
      BY <2>5, <3>2, AdapterEnters
  <2> QED
    BY <2>6, <2>7, <2>8
<1>12. CASE Activate(w)
  <2>1. op.pc = "activate" /\ op.kind \in {"upsert", "login"} /\ op.ok
    BY <1>2, <1>3, <1>12 DEF Activate, At, Place, OpRecords
  <2>2. PICK next \in OpRecords :
           /\ ops' = [ops EXCEPT ![w] = next] /\ next.kind = op.kind /\ next.profile = op.profile
           /\ next.ok = op.ok /\ next.pc = "tail"
    BY <1>7, <1>12 DEF Activate, WriteDocument
  <2>3. document'.active = op.profile
    BY <1>0, <1>2, <1>3, <1>12, WritesActive DEF Activate, WriteDocument
  <2>4. AdapterPlace(next)' /\ Reconfigures(next) /\ ops'[Coordinator] = next /\ next # NoOp
    BY <1>0, <1>8, <2>1, <2>2, <2>3, BusyOp DEF AdapterPlace, ConfiguresActive, Reconfigures
  <2> QED
    BY <2>4, AdapterEnters
<1>13. CASE DocumentWriteFails(w)
  BY <1>6, <1>13 DEF DocumentWriteFails
<1>14. CASE ReadManifest(w)
  <2>1. /\ UNCHANGED document
        /\ Fails(w) \/ \E old : ops' = [ops EXCEPT ![w].pc = "write", ![w].old = old,
                                                   ![w].generation = NextGeneration(old)]
    BY <1>14 DEF ReadManifest, KeyringStep
  <2>2. ASSUME NEW old, ops' = [ops EXCEPT ![w].pc = "write", ![w].old = old,
                                           ![w].generation = NextGeneration(old)]
        PROVE  AdapterIInv'
    <3>1. PICK next : next = [op EXCEPT !.pc = "write", !.old = old, !.generation = NextGeneration(old)]
      OBVIOUS
    <3>2. ops' = [ops EXCEPT ![w] = next] /\ ops'[w] = next
      BY <1>0, <1>2, <2>2, <3>1
    <3>3. /\ next.kind = op.kind /\ next.profile = op.profile /\ next.active = op.active /\ next.pc = "write"
      BY <1>3, <3>1 DEF OpRecords
    <3>4. next \in OpRecords
      <4>1. next # NoOp
        BY <3>3 DEF NoOp
      <4> QED
        BY <3>2, <4>1 DEF TypeOK
    <3> QED
      BY <1>5, <2>1, <3>2, <3>3, <3>4
  <2> QED
    BY <1>6, <2>1, <2>2
<1>15. CASE WriteNextChunk(w)
  <2>1. PICK next : next = [op EXCEPT !.next = op.next + 1]
    OBVIOUS
  <2>2. ops' = [ops EXCEPT ![w] = next] /\ ops'[w] = next /\ UNCHANGED document
    BY <1>0, <1>2, <1>15, <2>1 DEF WriteNextChunk, KeyringStep
  <2>3. /\ next.kind = op.kind /\ next.profile = op.profile /\ next.active = op.active /\ next.pc = "write"
    BY <1>2, <1>3, <1>15, <2>1 DEF OpRecords, WriteNextChunk, At
  <2>4. next \in OpRecords
    <3>1. next # NoOp
      BY <2>3 DEF NoOp
    <3> QED
      BY <2>2, <3>1 DEF TypeOK
  <2> QED
    BY <1>5, <2>2, <2>3, <2>4
<1>16. CASE PublishManifest(w)
  <2>1. Goto(w, "drop") /\ UNCHANGED document
    BY <1>16 DEF PublishManifest, KeyringStep
  <2>2. PICK next \in OpRecords :
           /\ ops' = [ops EXCEPT ![w] = next] /\ next.kind = op.kind /\ next.profile = op.profile
           /\ next.active = op.active /\ next.pc = "drop"
    BY <1>7, <2>1
  <2> QED
    BY <1>5, <2>1, <2>2
<1>17. CASE EraseEntry(w)
  <2>1. /\ UNCHANGED document
        /\ Fails(w) \/ \E old : ops' = [ops EXCEPT ![w].pc = "drop", ![w].old = old]
    BY <1>17 DEF EraseEntry, KeyringStep
  <2>2. ASSUME NEW old, ops' = [ops EXCEPT ![w].pc = "drop", ![w].old = old] PROVE AdapterIInv'
    <3>1. PICK next : next = [op EXCEPT !.pc = "drop", !.old = old]
      OBVIOUS
    <3>2. ops' = [ops EXCEPT ![w] = next] /\ ops'[w] = next
      BY <1>0, <1>2, <2>2, <3>1
    <3>3. /\ next.kind = op.kind /\ next.profile = op.profile /\ next.active = op.active /\ next.pc = "drop"
      BY <1>3, <3>1 DEF OpRecords
    <3>4. next \in OpRecords
      <4>1. next # NoOp
        BY <3>3 DEF NoOp
      <4> QED
        BY <3>2, <4>1 DEF TypeOK
    <3> QED
      BY <1>5, <2>1, <3>2, <3>3, <3>4
  <2> QED
    BY <1>6, <2>1, <2>2
<1>18. ASSUME NEW kept, WriteFails(w, kept) PROVE AdapterIInv'
  BY <1>6, <1>18 DEF WriteFails, KeyringStep
<1>19. ASSUME NEW kept, DropOldGeneration(w, kept) PROVE AdapterIInv'
  <2>1. Goto(w, AfterVault(op)) /\ UNCHANGED document /\ op.pc = "drop"
    BY <1>2, <1>19 DEF DropOldGeneration, KeyringStep, At
  <2>2. PICK to \in {"activate", "commit", "forget", "tail"} : to = AfterVault(op) /\ (to = "tail" => op.kind = "replace")
    BY <1>3, <2>1 DEF AfterVault, Place, OpRecords
  <2>3. PICK next \in OpRecords :
           /\ ops' = [ops EXCEPT ![w] = next] /\ next.kind = op.kind /\ next.profile = op.profile
           /\ next.active = op.active /\ next.pc = to
    BY <1>7, <2>1, <2>2
  <2> QED
    BY <1>5, <2>1, <2>2, <2>3
<1> QED
  BY <1>9, <1>10, <1>11, <1>12, <1>13, <1>14, <1>15, <1>16, <1>17, <1>18, <1>19 DEF WorkflowStep

\* Every step keeps the adapter with the active profile.
LEMMA AdapterStep ==
  ASSUME AdapterIInv, [Next]_vars
  PROVE  AdapterIInv'
<1> USE CoordinatorAlone
<1>0. /\ TypeOK /\ TypeOK' /\ document \in Documents /\ ops \in [Processes -> OpRecords \cup {NoOp}]
  BY TypeStep DEF AdapterIInv, TypeOK
<1>1. CASE UNCHANGED vars
  BY <1>0, <1>1, AdapterKept DEF vars, profileVars
<1>2. CASE ProfileCommand \/ CredentialCommand
  BY <1>0, <1>2, AdapterCommands
<1>3. CASE CompletionStep
  <2>1. ASSUME NEW readable \in BOOLEAN, Finish(readable) PROVE AdapterIInv'
    <3>1. PICK op : op = ops[Coordinator]
      OBVIOUS
    <3>2. /\ op \in OpRecords /\ Place(op) /\ op.pc = "tail" /\ op.profile \in ProfileIds /\ AdapterPlace(op)
          /\ op.kind # "recover" /\ (Reconfigures(op) \/ Fits)
      BY <1>0, <2>1, <3>1, Inside DEF Finish, AdapterIInv
    <3>3. ops'[Coordinator] = NoOp /\ UNCHANGED document
      BY <1>0, <2>1 DEF Finish
    <3>4. \/ ConfigureActiveProfile(op.profile, readable) /\ op.profile = document.active
          \/ NoAdapterNow
          \/ KeepAdapter /\ ~Reconfigures(op)
      <4>1. op.kind # "configure"
        BY <3>2 DEF Place
      <4>2. CASE op.kind \in {"save", "replace"} /\ op.ok
        <5>1. ~Reconfigures(op)
          BY <4>2 DEF Reconfigures
        <5> QED
          BY <2>1, <3>1, <4>2, <5>1 DEF Finish
      <4>3. CASE op.kind = "disconnect" /\ op.ok
        <5>1. /\ op.active => op.profile = document.active
              /\ ~op.active => ~Reconfigures(op)
          BY <3>2, <4>3 DEF Reconfigures, AdapterPlace, ConfiguresActive
        <5>2. IF op.active THEN ConfigureActiveProfile(op.profile, readable) ELSE KeepAdapter
          BY <2>1, <3>1, <4>3 DEF Finish
        <5> QED
          BY <5>1, <5>2
      <4>4. CASE op.kind = "delete"
        <5>1. ~op.active => ~Reconfigures(op)
          BY <3>2, <4>4 DEF Reconfigures
        <5>2. IF op.active THEN NoAdapterNow ELSE KeepAdapter
          BY <2>1, <3>1, <4>4 DEF Finish
        <5> QED
          BY <5>1, <5>2
      <4>5. CASE op.kind \in {"upsert", "login"} /\ op.ok
        <5>1. op.profile = document.active
          BY <3>2, <4>5 DEF AdapterPlace, ConfiguresActive
        <5>2. ConfigureActiveProfile(op.profile, readable)
          BY <2>1, <3>1, <4>5 DEF Finish
        <5> QED
          BY <5>1, <5>2
      <4>6. CASE op.kind # "delete" /\ ~op.ok
        <5>1. ~Reconfigures(op)
          BY <4>1, <4>6 DEF Reconfigures
        <5>2. KeepAdapter
          BY <2>1, <3>1, <4>6 DEF Finish
        <5> QED
          BY <5>1, <5>2
      <4> QED
        <5>1. op.kind \in {"upsert", "save", "replace", "disconnect", "delete", "login"}
          BY <3>2, <4>1 DEF OpRecords
        <5> QED
          BY <4>2, <4>3, <4>4, <4>5, <4>6, <5>1
    <3>5. Fits'
      <4>1. CASE ConfigureActiveProfile(op.profile, readable) /\ op.profile = document.active
        <5>1. ConfigureActiveProfile(document.active, readable)
          BY <4>1
        <5> QED
          BY <3>3, <5>1, ConfiguredFits
      <4>2. CASE NoAdapterNow
        BY <4>2 DEF NoAdapterNow, Fits
      <4>3. CASE KeepAdapter /\ ~Reconfigures(op)
        BY <3>2, <3>3, <4>3 DEF KeepAdapter, Fits
      <4> QED
        BY <3>4, <4>1, <4>2, <4>3
    <3> QED
      BY <1>0, <3>3, <3>5, AdapterIdle
  <2>2. ASSUME NEW readable \in BOOLEAN, Configure(readable) PROVE AdapterIInv'
    <3>1. ops[Coordinator].profile = document.active
      BY <1>0, <2>2, Inside DEF Configure, AdapterIInv, AdapterPlace, ConfiguresActive, Place
    <3>2. ConfigureActiveProfile(document.active, readable) /\ UNCHANGED document
      BY <2>2, <3>1 DEF Configure
    <3>3. ops'[Coordinator] = NoOp
      BY <1>0, <2>2 DEF Configure
    <3> QED
      BY <1>0, <3>2, <3>3, ConfiguredFits, AdapterIdle
  <2>3. ASSUME At(Coordinator, "recover") \/ (At(Coordinator, "tail") /\ ops[Coordinator].kind = "recover")
        PROVE  /\ ops[Coordinator].kind = "recover" /\ Justified(document, provider)
               /\ ops[Coordinator] \in OpRecords
    <3>1. ~Idle(Coordinator) /\ ops[Coordinator] \in OpRecords /\ Place(ops[Coordinator])
      BY <1>0, <2>3, Inside
    <3>2. ops[Coordinator].kind = "recover"
      BY <2>3, <3>1 DEF At, Place, OpRecords
    <3> QED
      BY <3>1, <3>2 DEF AdapterIInv, AdapterPlace
  <2>4. ASSUME NEW op, ops'[Coordinator] = op, op # NoOp, op.kind = "recover", Justified(document, provider),
               UNCHANGED <<document, provider>>
        PROVE  AdapterIInv'
    <3>1. Justified(document, provider)'
      BY <2>4 DEF Justified
    <3>2. Fits'
      BY <3>1 DEF Fits, Justified, LinkOrRecord
    <3>3. AdapterPlace(op)'
      BY <2>4, <3>1 DEF AdapterPlace, ConfiguresActive
    <3> QED
      BY <1>0, <2>4, <3>2, <3>3, AdapterEnters
  <2>5. CASE RecoverySkips
    <3>1. PICK op : op = [ops[Coordinator] EXCEPT !.pc = "recover"]
      OBVIOUS
    <3>2. ops'[Coordinator] = op /\ UNCHANGED <<document, provider>>
      BY <1>0, <2>5, <3>1 DEF RecoverySkips, Goto, KeepAdapter
    <3>3. Justified(document, provider) /\ op.kind = "recover" /\ op # NoOp
      BY <2>3, <2>5, <3>1 DEF RecoverySkips, NoOp, OpRecords
    <3> QED
      BY <2>4, <3>2, <3>3
  <2>6. CASE RecoveryDone
    <3>1. Fits /\ ops'[Coordinator] = NoOp /\ UNCHANGED <<document, provider, sentinel>>
      BY <1>0, <2>3, <2>6, JustifiedFits DEF RecoveryDone
    <3>2. Fits'
      BY <3>1 DEF Fits
    <3> QED
      BY <1>0, <3>1, <3>2, AdapterIdle
  <2>7. ASSUME NEW p \in ProfileIds, RecoverNext(p) PROVE AdapterIInv'
    <3>1. PICK op : ops' = [ops EXCEPT ![Coordinator] = op] /\ op.kind = "recover"
      <4>1. PICK fresh : fresh = Op("recover", p, "none", "erase") /\ fresh.kind = "recover" /\ fresh \in OpRecords
        BY FreshOp, FreshOpType DEF Names
      <4>2. PICK rest : rest = [fresh EXCEPT !.todo = ops[Coordinator].todo \ {p}]
        OBVIOUS
      <4>a. rest \in OpRecords /\ rest.kind = "recover"
        <5>1. ops[Coordinator].todo \ {p} \in SUBSET ProfileIds
          BY <2>3, <2>7 DEF RecoverNext, OpRecords
        <5> QED
          BY <4>1, <4>2, <5>1 DEF OpRecords
      <4>3. PICK forget : forget = [rest EXCEPT !.pc = "forget"]
        OBVIOUS
      <4>b. forget.kind = "recover"
        BY <4>3, <4>a DEF OpRecords
      <4>4. \E op \in {rest, forget} : ops' = [ops EXCEPT ![Coordinator] = op]
        BY <2>7, <4>1, <4>2, <4>3 DEF RecoverNext
      <4> QED
        BY <4>a, <4>b, <4>4
    <3>2. ops'[Coordinator] = op /\ UNCHANGED <<document, provider>> /\ op # NoOp
      BY <1>0, <2>7, <3>1 DEF RecoverNext, KeepAdapter, NoOp
    <3>3. Justified(document, provider)
      BY <2>3, <2>7 DEF RecoverNext
    <3> QED
      BY <2>4, <3>1, <3>2, <3>3
  <2> QED
    BY <1>3, <2>1, <2>2, <2>5, <2>6, <2>7 DEF CompletionStep
<1>4. CASE BackgroundStep
  <2>1. ASSUME NEW r \in Refreshers, TokenRefreshed(r) \/ \E p \in ProfileIds, s \in Secrets : RefreshToken(r, p, s)
        PROVE  AdapterIInv'
    <3>1. PICK op : ops' = [ops EXCEPT ![r] = op]
      BY <2>1 DEF TokenRefreshed, RefreshToken
    <3>2. ops'[Coordinator] = ops[Coordinator] /\ UNCHANGED <<document, provider, sentinel>>
      BY <1>0, <2>1, <3>1 DEF TokenRefreshed, RefreshToken, KeepAdapter
    <3> QED
      BY <1>0, <3>2, AdapterKept
  <2>2. ASSUME NEW t \in tests, NEW ready \in BOOLEAN, TestAnswered(t, ready) PROVE AdapterIInv'
    BY <1>0, <2>2, AdapterKept DEF TestAnswered, KeepAdapter
  <2>3. ASSUME NEW f \in refreshes, NEW result \in {"live", "cached", "unauthorized", "failed"},
               CatalogAnswered(f, result)
        PROVE  AdapterIInv'
    <3>1. /\ Serving /\ UNCHANGED <<document, ops>>
          /\ UNCHANGED <<provider, sentinel>> \/ provider' = NoAdapter
      BY <2>3 DEF CatalogAnswered
    <3>2. Fits'
      BY <3>1 DEF AdapterIInv, Serving, Fits
    <3> QED
      BY <1>0, <3>1, <3>2, AdapterIdle DEF Serving, Idle
  <2> QED
    BY <1>4, <2>1, <2>2, <2>3 DEF BackgroundStep
<1>5. CASE RefreshCatalog \/ \E p \in ProfileIds : TestProfile(p)
  BY <1>0, <1>5, AdapterKept DEF RefreshCatalog, TestProfile, KeepAdapter
<1>6. CASE Crash
  <2>1. PICK op : ops'[Coordinator] = op /\ op = [Op("recover", NoProfile, "none", "recover") EXCEPT !.todo = PendingRecovery]
    BY <1>6 DEF Crash, Launch
  <2>2. op.kind = "recover" /\ op # NoOp
    BY <2>1 DEF Op, NoOp
  <2>3. provider' = LaunchAdapter /\ UNCHANGED document
    BY <1>6 DEF Crash, Launch
  <2>4. Justified(document, LaunchAdapter)
    BY DEF Justified, LaunchAdapter, Adapter, Linked, EnvironmentSecrets
  <2>5. Justified(document, provider)'
    BY <2>3, <2>4 DEF Justified
  <2>6. Fits'
    BY <2>5 DEF Fits, Justified, LinkOrRecord
  <2>7. AdapterPlace(op)'
    BY <2>2, <2>5 DEF AdapterPlace, ConfiguresActive
  <2> QED
    BY <1>0, <2>1, <2>2, <2>6, <2>7, AdapterEnters
<1>7. ASSUME NEW w \in Processes, WorkflowStep(w) PROVE AdapterIInv'
  BY <1>0, <1>7, AdapterWorkflow
<1> QED
  BY <1>1, <1>2, <1>3, <1>4, <1>5, <1>6, <1>7 DEF Next, Step

\* At each place of each workflow the adapter fits the document, or the workflow
\* will configure it again for the active profile: for any number of profiles, kinds,
\* environment credentials, token refreshes, faults and crashes.
THEOREM AdapterInvariant == Spec => []AdapterIInv
<1>1. Init => AdapterIInv
  <2> SUFFICES ASSUME Init, TypeOK PROVE AdapterIInv
    BY InitType
  <2>1. ops[Coordinator] = Op("recover", NoProfile, "none", "recover")
    BY CoordinatorAlone DEF Init
  <2>2. Justified(document, provider)
    BY DEF Init, Justified, Adapter, EnvironmentSecrets
  <2>3. AdapterPlace(ops[Coordinator])
    BY <2>1, <2>2, FreshOp DEF AdapterPlace, ConfiguresActive
  <2> QED
    BY <2>2, <2>3, JustifiedFits DEF AdapterIInv
<1>2. AdapterIInv /\ [Next]_vars => AdapterIInv'
  BY AdapterStep
<1> QED
  BY <1>1, <1>2, PTL DEF Spec

\* Whatever order commands, failures, crashes and late answers come in, the adapter
\* a prompt is sent with is that of the active profile, on a credential the profile
\* or the environment still has.
THEOREM AdapterSafe == Spec => []AdapterFollowsActiveProfile
<1>1. AdapterIInv => AdapterFollowsActiveProfile
  <2> SUFFICES ASSUME AdapterIInv, Serving, provider # NoAdapter
               PROVE  /\ provider.profile = document.active
                      /\ PendingRecovery = {} /\ sentinel = NoSecret /\ document.active # NoProfile =>
                            Linked(document.active) \/ provider.secret \in EnvironmentSecrets
    BY DEF AdapterFollowsActiveProfile, EnvironmentSecrets
  <2>1. Fits /\ document.active \in Names
    BY DEF AdapterIInv, Serving, TypeOK, Documents
  <2> QED
    BY <2>1 DEF Fits, LinkOrRecord, Linked, PendingRecovery, Names
<1> QED
  BY <1>1, AdapterInvariant, PTL

-----------------------------------------------------------------------------
(* The vault and the document. *)

\* Vault and document say the same of profile q as before.
SameEntry(q) ==
    /\ manifest'[q] = manifest[q] /\ chunks'[q] = chunks[q]
    /\ document'.profiles[q].linked = document.profiles[q].linked
    /\ document'.recovery[q] = document.recovery[q]

\* What is not concerned still agrees.
LEMMA AgreeKept ==
  ASSUME NEW q \in ProfileIds, SameEntry(q), Agree(q)
  PROVE  Agree(q)'
<1>1. /\ Linked(q)' <=> Linked(q)
      /\ document'.recovery[q] = document.recovery[q] /\ manifest'[q] = manifest[q]
  BY DEF SameEntry, Linked
<1>2. Stored(q) => Stored(q)'
  BY DEF SameEntry, Stored, Holds
<1> QED
  BY <1>1, <1>2 DEF Agree

\* A workflow on an entry that is not concerned knows what it knew.
LEMMA PlaceKept ==
  ASSUME NEW op, SameEntry(op.profile), VaultPlace(op)
  PROVE  VaultPlace(op)'
<1> DEFINE p == op.profile
<1>1. /\ Linked(p)' <=> Linked(p)
      /\ document'.recovery[p] = document.recovery[p] /\ manifest'[p] = manifest[p]
      /\ Stored(p)' <=> Stored(p)
      /\ \A g, s, n : Holds(p, g, s, n)' <=> Holds(p, g, s, n)
  BY DEF SameEntry, Linked, Stored, Holds
<1> QED
  BY <1>1, SMTT(20) DEF VaultPlace, WritePlace, ErasePlace

\* What is known at a place is known of the workflow that is there.
LEMMA PlaceOf ==
  ASSUME NEW v, NEW o, ops'[v] = o, VaultPlace(o)'
  PROVE  VaultPlace(ops[v])'
  BY SMTT(20) DEF VaultPlace, WritePlace, ErasePlace, Linked, Stored, Holds

\* One process goes on: the entries that change are those it is at work on.
LEMMA VaultWorks ==
  ASSUME VaultIInv, TypeOK', overlapped' = overlapped \cup Contended', chunks' \in Vaults,
         NEW w \in Processes, NEW op, ops' = [ops EXCEPT ![w] = op], w \in Refreshers => UNCHANGED document,
         \A q \in ProfileIds \ overlapped' :
            SameEntry(q) \/ (Agree(q)' /\ (AtWork(w, q) \/ AtWork(w, q)')),
         op # NoOp => /\ op.profile \notin overlapped' => VaultPlace(op)'
                      /\ StillPending(op)'
  PROVE  VaultIInv'
<1>0. /\ ops \in [Processes -> OpRecords \cup {NoOp}] /\ TypeOK
      /\ ops'[w] = op /\ \A v \in Processes \ {w} : ops'[v] = ops[v]
  BY DEF VaultIInv, TypeOK
<1>1. Contended' \subseteq overlapped' /\ overlapped \subseteq overlapped'
  OBVIOUS
<1>2. \A q \in ProfileIds \ overlapped' : Agree(q)'
  <2> SUFFICES ASSUME NEW q \in ProfileIds \ overlapped', SameEntry(q) PROVE Agree(q)'
    OBVIOUS
  <2>1. Agree(q)
    BY <1>1 DEF VaultIInv
  <2> QED
    BY <2>1, AgreeKept
<1>3. ASSUME NEW v \in Processes \ {w}, ~Idle(v)', ops'[v].profile \notin overlapped' PROVE VaultPlace(ops[v])'
  <2>0. PICK o, p : o = ops[v] /\ p = o.profile
    OBVIOUS
  <2>1. ops'[v] = o /\ ops[v] = o /\ o \in OpRecords /\ p \notin overlapped' /\ p \notin overlapped /\ VaultPlace(o)
    BY <1>0, <1>1, <1>3, <2>0 DEF VaultIInv, Idle
  <2>2. CASE o.pc \notin {"begin", "read", "write", "drop", "commit", "erase", "forget"}
    <3>1. VaultPlace(o)'
      BY <2>2 DEF VaultPlace, WritePlace, ErasePlace
    <3> QED
      BY <2>1, <3>1, PlaceOf
  <2>3. CASE o.pc \in {"begin", "read", "write", "drop", "commit", "erase", "forget"}
    <3>1. AtWork(v, p) /\ AtWork(v, p)'
      BY <2>0, <2>1, <2>3 DEF AtWork
    <3>2. p \in ProfileIds
      <4>1. Place(o)
        BY <1>0, <1>3, <2>1 DEF TypeOK, Idle
      <4> QED
        BY <2>0, <2>1, <2>3, <4>1 DEF Place, OpRecords, Names
    <3>3. ~AtWork(w, p) /\ ~AtWork(w, p)'
      BY <1>1, <2>1, <3>1, <3>2 DEF Contended, VaultIInv
    <3>4. SameEntry(o.profile)
      BY <2>0, <2>1, <3>2, <3>3
    <3>5. VaultPlace(o)'
      BY <2>1, <3>4, PlaceKept
    <3> QED
      BY <2>1, <3>5, PlaceOf
  <2> QED
    BY <2>2, <2>3
<1>4. ASSUME NEW v \in Processes \ {w}, ~Idle(v)' PROVE StillPending(ops[v])'
  <2>1. ops'[v] = ops[v] /\ ops[v] # NoOp /\ StillPending(ops[v])
    BY <1>0, <1>4 DEF VaultIInv, Idle
  <2>2. CASE v \in Refreshers
    BY <1>0, <2>1, <2>2 DEF TypeOK, StillPending, Idle
  <2>3. CASE v \notin Refreshers
    <3>1. UNCHANGED document
      BY <2>3 DEF Processes
    <3> QED
      BY <1>1, <2>1, <3>1 DEF StillPending
  <2> QED
    BY <2>2, <2>3
<1>5. ~Idle(w)' => /\ (ops[w].profile \notin overlapped)' => VaultPlace(ops[w])'
                   /\ StillPending(ops[w])'
  <2> SUFFICES ASSUME op # NoOp PROVE /\ op.profile \notin overlapped' => VaultPlace(ops[w])'
                                      /\ StillPending(ops[w])'
    BY <1>0 DEF Idle
  <2>1. StillPending(ops[w])'
    BY <1>0 DEF StillPending
  <2>2. ASSUME op.profile \notin overlapped' PROVE VaultPlace(ops[w])'
    <3>1. VaultPlace(op)'
      BY <2>2
    <3> QED
      BY <1>0, <3>1, PlaceOf
  <2> QED
    BY <2>1, <2>2
<1>6. \A v \in Processes : ~Idle(v)' => /\ (ops[v].profile \notin overlapped)' => VaultPlace(ops[v])'
                                        /\ StillPending(ops[v])'
  BY <1>3, <1>4, <1>5
<1> QED
  BY <1>1, <1>2, <1>6 DEF VaultIInv

\* A step outside vault, document and workflows.
LEMMA VaultKept ==
  ASSUME VaultIInv, UNCHANGED <<ops, document, manifest, chunks>>,
         UNCHANGED overlapped \/ overlapped' = overlapped \cup Contended'
  PROVE  VaultIInv'
<1> USE CoordinatorAlone
<1>1. TypeOK'
  BY TypeSame DEF VaultIInv, TypeOK
<1>2. Contended' = Contended
  BY DEF Contended, AtWork
<1>3. overlapped' = overlapped \cup Contended' /\ overlapped' = overlapped
  BY <1>2 DEF VaultIInv
<1>4. PICK op : op = ops[Coordinator]
  OBVIOUS
<1>5. ops' = [ops EXCEPT ![Coordinator] = op]
  BY <1>4 DEF VaultIInv, TypeOK
<1>6. \A q \in ProfileIds : SameEntry(q)
  BY DEF SameEntry
<1>7. op # NoOp => /\ op.profile \notin overlapped' => VaultPlace(op)'
                   /\ StillPending(op)'
  <2>1. op # NoOp => StillPending(op)'
    BY <1>3, <1>4 DEF VaultIInv, StillPending, Idle
  <2>2. ASSUME op # NoOp, op.profile \notin overlapped' PROVE VaultPlace(op)'
    <3>1. VaultPlace(op)
      BY <1>3, <1>4, <2>2 DEF VaultIInv, Idle
    <3>2. SameEntry(op.profile)
      BY DEF SameEntry
    <3> QED
      BY <3>1, <3>2, PlaceKept
  <2> QED
    BY <2>1, <2>2
<1> QED
  BY <1>1, <1>3, <1>5, <1>6, <1>7, VaultWorks DEF VaultIInv

\* The commands: they are taken while the coordinator is idle.
LEMMA VaultCommands ==
  ASSUME VaultIInv, TypeOK', overlapped' = overlapped \cup Contended', ProfileCommand \/ CredentialCommand
  PROVE  VaultIInv'
<1> USE CoordinatorAlone
<1>0. /\ TypeOK /\ chunks \in Vaults /\ document \in Documents /\ ops \in [Processes -> OpRecords \cup {NoOp}]
  BY DEF VaultIInv, TypeOK
<1>1. ops[Coordinator] = NoOp
  BY DEF ProfileCommand, CredentialCommand, UpsertProfile, DuplicateProfile, ActivateProfile, SetProfileDefault,
       SaveCredential, ReplaceCredential, LoginFinished, DisconnectProfile, DisconnectUnlinked, DeleteProfile,
       Begin, ConfigureCredential, Command, Serving, Idle
<1>2. UNCHANGED <<manifest, chunks>>
  BY DEF ProfileCommand, CredentialCommand, UpsertProfile, DuplicateProfile, ActivateProfile, SetProfileDefault,
       SaveCredential, ReplaceCredential, LoginFinished, DisconnectProfile, DisconnectUnlinked, DeleteProfile,
       Begin, ConfigureCredential, vaultVars
<1>3. ASSUME NEW op, ops' = [ops EXCEPT ![Coordinator] = op], \A q \in ProfileIds : SameEntry(q),
             op # NoOp => op.kind # "recover" /\ VaultPlace(op)'
      PROVE  VaultIInv'
  BY <1>0, <1>2, <1>3, VaultWorks DEF StillPending
<1>4. ASSUME NEW p \in ProfileIds, NEW op, ops' = [ops EXCEPT ![Coordinator] = op],
             \A q \in ProfileIds \ {p} : SameEntry(q), Agree(p)', op.kind # "recover", VaultPlace(op)',
             op.profile = p, op.pc \in {"read", "erase"}
      PROVE  VaultIInv'
  <2>1. AtWork(Coordinator, p)'
    BY <1>0, <1>4 DEF AtWork
  <2> QED
    BY <1>0, <1>2, <1>4, <2>1, VaultWorks DEF StillPending
<1>5. ASSUME document'.recovery = document.recovery,
             \A q \in ProfileIds : document'.profiles[q].linked = document.profiles[q].linked
      PROVE  \A q \in ProfileIds : SameEntry(q)
  BY <1>2, <1>5 DEF SameEntry
<1>7. ASSUME NEW p \in ProfileIds, NEW kind \in Kinds, UpsertProfile(p, kind) PROVE VaultIInv'
  <2>1. /\ document'.recovery = document.recovery
        /\ \A q \in ProfileIds : document'.profiles[q].linked = document.profiles[q].linked
    <3>1. document.profiles[p].linked \in BOOLEAN
      BY <1>0 DEF Documents
    <3> QED
      BY <1>0, <1>7, <3>1, WritesProfile DEF UpsertProfile, Upserted, Elsewhere
  <2>2. PICK op : /\ ops' = [ops EXCEPT ![Coordinator] = op]
                  /\ op \in {NoOp, Op("upsert", p, "none", "activate"), Op("configure", p, "none", "configure")}
    BY <1>7 DEF UpsertProfile
  <2>3. op # NoOp => op.kind # "recover" /\ VaultPlace(op)'
    BY <2>2, FreshOp DEF VaultPlace
  <2> QED
    BY <1>3, <1>5, <2>1, <2>2, <2>3
<1>8. ASSUME NEW p \in ProfileIds, NEW q \in ProfileIds, DuplicateProfile(p, q) PROVE VaultIInv'
  <2>1. document.profiles[p].kind \in Kinds \cup {"absent"}
    BY <1>0 DEF Documents
  <2>2. /\ document'.recovery = document.recovery
        /\ \A r \in ProfileIds : document'.profiles[r].linked = document.profiles[r].linked
    <3>1. document.profiles[q].linked = FALSE
      BY <1>8 DEF DuplicateProfile, Exists, Absent
    <3>2. document' = SetProfile(document, q, document.profiles[p].kind, FALSE)
      BY <1>8 DEF DuplicateProfile
    <3>3. /\ document'.profiles[q].linked = FALSE /\ Elsewhere(document', q)
          /\ document'.recovery = document.recovery
      BY <1>0, <2>1, <3>2, WritesProfile
    <3> QED
      BY <3>1, <3>3 DEF Elsewhere
  <2>3. ops' = [ops EXCEPT ![Coordinator] = NoOp]
    BY <1>0, <1>1, <1>8 DEF DuplicateProfile
  <2> QED
    BY <1>3, <1>5, <2>2, <2>3
<1>9. ASSUME NEW p \in ProfileIds, ActivateProfile(p) \/ SetProfileDefault(p) PROVE VaultIInv'
  <2>1. document'.recovery = document.recovery /\ document'.profiles = document.profiles
    BY <1>0, <1>9, WritesActive DEF ActivateProfile, SetProfileDefault
  <2>2. PICK op : ops' = [ops EXCEPT ![Coordinator] = op] /\ op = Op("configure", p, "none", "configure")
    BY <1>9 DEF ActivateProfile, SetProfileDefault
  <2>3. op.kind # "recover" /\ VaultPlace(op)'
    BY <2>2, FreshOp DEF VaultPlace
  <2> QED
    BY <1>3, <1>5, <2>1, <2>2, <2>3
<1>10. ASSUME NEW p \in ProfileIds, NEW s \in Secrets, SaveCredential(p, s) PROVE VaultIInv'
  <2>1. /\ document'.profiles = document.profiles /\ document'.recovery[p] = "uncommitted_save"
        /\ \A q \in ProfileIds \ {p} : document'.recovery[q] = document.recovery[q]
    BY <1>0, <1>10, WritesBeginSave DEF SaveCredential, Begin, Elsewhere
  <2>2. ~Linked(p)' /\ \A q \in ProfileIds \ {p} : SameEntry(q)
    BY <1>2, <1>10, <2>1 DEF SaveCredential, Linked, SameEntry
  <2>3. PICK op : ops' = [ops EXCEPT ![Coordinator] = op] /\ op = Op("save", p, s, "read")
    BY <1>10 DEF SaveCredential, Begin
  <2>4. op.kind = "save" /\ op.pc = "read" /\ op.next = 1 /\ op.profile = p
    BY <2>3, FreshOp
  <2>5. VaultPlace(op)'
    BY <2>1, <2>4 DEF VaultPlace, WritePlace
  <2>6. Agree(p)'
    BY <2>1, <2>2 DEF Agree
  <2> QED
    BY <1>4, <2>2, <2>3, <2>4, <2>5, <2>6
<1>11. ASSUME NEW p \in ProfileIds, NEW s \in Secrets, ReplaceCredential(p, s) PROVE VaultIInv'
  <2>1. document' = document /\ Linked(p)'
    BY <1>11 DEF ReplaceCredential, Begin, Linked
  <2>2. PICK op : ops' = [ops EXCEPT ![Coordinator] = op] /\ op = Op("replace", p, s, "read")
    BY <1>11 DEF ReplaceCredential, Begin
  <2>3. op.kind = "replace" /\ op.pc = "read" /\ op.next = 1 /\ op.profile = p
    BY <2>2, FreshOp
  <2>4. op.kind # "recover" /\ VaultPlace(op)'
    BY <2>1, <2>3 DEF VaultPlace, WritePlace
  <2> QED
    BY <1>3, <1>5, <2>1, <2>2, <2>4
<1>12. ASSUME NEW p \in ProfileIds, NEW s \in Secrets, LoginFinished(p, s) PROVE VaultIInv'
  <2>1. /\ document'.recovery = document.recovery
        /\ \A q \in ProfileIds : document'.profiles[q].linked = document.profiles[q].linked
    <3>1. document.profiles[p].linked \in BOOLEAN /\ SignInKind \in Kinds
      BY <1>0, KindsAssumption DEF Documents
    <3> QED
      BY <1>0, <1>12, <3>1, WritesProfile DEF LoginFinished, Upserted, Elsewhere
  <2>2. Linked(p)' <=> Linked(p)
    BY <2>1 DEF Linked
  <2>3. PICK pc \in {"read", "begin"} : /\ ops' = [ops EXCEPT ![Coordinator] = Op("login", p, s, pc)]
                                        /\ pc = "read" <=> Linked(p)
    BY <1>12 DEF LoginFinished
  <2>4. PICK op : ops' = [ops EXCEPT ![Coordinator] = op] /\ op = Op("login", p, s, pc)
    BY <2>3
  <2>5. op.kind = "login" /\ op.pc = pc /\ op.next = 1 /\ op.profile = p
    BY <2>4, FreshOp
  <2>6. op.kind # "recover" /\ VaultPlace(op)'
    BY <2>2, <2>3, <2>5 DEF VaultPlace, WritePlace
  <2> QED
    BY <1>3, <1>5, <2>1, <2>4, <2>6
<1>13. ASSUME NEW p \in ProfileIds, DisconnectProfile(p) \/ DeleteProfile(p) PROVE VaultIInv'
  <2>1. /\ ~document'.profiles[p].linked /\ document'.recovery[p] = "delete"
    BY <1>0, <1>13, WritesDisconnect, WritesDelete DEF DisconnectProfile, DeleteProfile, Begin, Elsewhere
  <2>2. Elsewhere(document', p)
    BY <1>0, <1>13, WritesDisconnect, WritesDelete DEF DisconnectProfile, DeleteProfile, Begin
  <2>3. PICK op : /\ ops' = [ops EXCEPT ![Coordinator] = op]
                  /\ op \in {Op("disconnect", p, "none", "erase"), Op("delete", p, "none", "erase")}
    BY <1>13 DEF DisconnectProfile, DeleteProfile, Begin
  <2>4. op.kind \in {"disconnect", "delete"} /\ op.pc = "erase" /\ op.profile = p
    BY <2>3, FreshOp
  <2>5. VaultPlace(op)'
    BY <2>1, <2>4 DEF VaultPlace, ErasePlace, Linked
  <2>6. Agree(p)' /\ \A q \in ProfileIds \ {p} : SameEntry(q)
    BY <1>2, <2>1, <2>2 DEF Agree, SameEntry, Linked, Elsewhere
  <2> QED
    BY <1>4, <2>3, <2>4, <2>5, <2>6
<1>14. ASSUME NEW p \in ProfileIds, DisconnectUnlinked(p) PROVE VaultIInv'
  <2>1. document' = document
    BY <1>14 DEF DisconnectUnlinked, Begin
  <2>2. PICK op : ops' = [ops EXCEPT ![Coordinator] = op] /\ op = Op("disconnect", p, "none", "tail")
    BY <1>14 DEF DisconnectUnlinked, Begin
  <2>3. op.kind # "recover" /\ VaultPlace(op)'
    BY <2>2, FreshOp DEF VaultPlace, ErasePlace
  <2> QED
    BY <1>3, <1>5, <2>1, <2>2, <2>3
<1>15. CASE ConfigureCredential
  BY <1>2, <1>15, VaultKept DEF ConfigureCredential
<1> QED
  BY <1>7, <1>8, <1>9, <1>10, <1>11, <1>12, <1>13, <1>14, <1>15 DEF ProfileCommand, CredentialCommand

\* delete_generation touches one generation of one entry.
LEMMA Deleted ==
  ASSUME chunks \in Vaults, NEW p \in ProfileIds, NEW g, NEW count, NEW kept, DeleteGeneration(p, g, count, kept)
  PROVE  /\ chunks' \in Vaults
         /\ \A q \in ProfileIds \ {p} : chunks'[q] = chunks[q]
         /\ \A h \in Generations \ {g} : chunks'[p][h] = chunks[p][h]
<1> DEFINE left == [i \in 1..MaxCount |-> IF i <= count /\ i \notin kept THEN NoChunk ELSE chunks[p][g][i]]
           entry == [chunks[p] EXCEPT ![g] = left]
<1>1. chunks' = [chunks EXCEPT ![p] = entry]
  BY DEF DeleteGeneration
<1>2. g \in Generations => left \in [1..MaxCount -> ChunkValues]
  <2> SUFFICES ASSUME g \in Generations PROVE left \in [1..MaxCount -> ChunkValues]
    OBVIOUS
  <2>1. NoChunk \in ChunkValues /\ \A i \in 1..MaxCount : chunks[p][g][i] \in ChunkValues
    <3>1. chunks[p][g] \in [1..MaxCount -> ChunkValues]
      BY DEF Vaults
    <3> QED
      BY <3>1 DEF ChunkValues
  <2> QED
    BY <2>1
<1>3. entry \in [Generations -> [1..MaxCount -> ChunkValues]] /\ \A h \in Generations \ {g} : entry[h] = chunks[p][h]
  <2> HIDE DEF left
  <2> QED
    BY <1>2 DEF Vaults
<1> HIDE DEF entry
<1> QED
  BY <1>1, <1>3 DEF Vaults

\* A step of a workflow changes no other entry, and goes on with the same workflow.
LEMMA WorkflowTouches ==
  ASSUME TypeOK, chunks \in Vaults, NEW w \in Processes, WorkflowStep(w)
  PROVE  /\ chunks' \in Vaults
         /\ w \in Refreshers => UNCHANGED document
         /\ \A q \in ProfileIds \ {ops[w].profile} : SameEntry(q)
         /\ At(w, "activate") => SameEntry(ops[w].profile)
         /\ \E next : /\ ops' = [ops EXCEPT ![w] = next] /\ next.kind = ops[w].kind
                      /\ next.profile = ops[w].profile /\ next.todo = ops[w].todo
<1>1. PICK pc \in {"begin", "commit", "forget", "activate", "read", "write", "drop", "erase"} : At(w, pc)
  BY DEF WorkflowStep, BeginSignedIn, Commit, Forget, Activate, DocumentWriteFails, ReadManifest, WriteNextChunk,
       PublishManifest, EraseEntry, WriteFails, DropOldGeneration
<1>2. PICK op, p : op = ops[w] /\ p = ops[w].profile
  OBVIOUS
<1>3. /\ op \in OpRecords /\ Place(op) /\ op.pc = pc /\ op.profile = p /\ p \in ProfileIds
      /\ w \in Refreshers => op.kind = "replace"
      /\ document \in Documents /\ manifest \in [ProfileIds -> Manifests]
      /\ ops \in [Processes -> OpRecords \cup {NoOp}]
  BY <1>1, <1>2, Inside DEF TypeOK
<1> DEFINE Goal == /\ chunks' \in Vaults
                   /\ w \in Refreshers => UNCHANGED document
                   /\ \A q \in ProfileIds \ {p} : SameEntry(q)
                   /\ At(w, "activate") => SameEntry(p)
           Goes == \E next : /\ ops' = [ops EXCEPT ![w] = next] /\ next.kind = op.kind
                             /\ next.profile = p /\ next.todo = op.todo
<1>4. ASSUME NEW to, Goto(w, to) PROVE Goes
  <2>1. PICK next : next = [op EXCEPT !.pc = to]
    OBVIOUS
  <2>2. next.kind = op.kind /\ next.profile = p /\ next.todo = op.todo
    BY <1>3, <2>1 DEF OpRecords
  <2>3. ops' = [ops EXCEPT ![w] = next]
    BY <1>2, <1>3, <1>4, <2>1 DEF Goto
  <2> QED
    BY <2>2, <2>3
<1>5. ASSUME Fails(w) PROVE Goes
  <2>1. PICK next : next = [op EXCEPT !.pc = "tail", !.ok = FALSE]
    OBVIOUS
  <2>2. next.kind = op.kind /\ next.profile = p /\ next.todo = op.todo
    BY <1>3, <2>1 DEF OpRecords
  <2>3. ops' = [ops EXCEPT ![w] = next]
    BY <1>2, <1>3, <1>5, <2>1 DEF Fails
  <2> QED
    BY <2>2, <2>3
<1>6. ASSUME UNCHANGED <<document, manifest, chunks>> PROVE Goal
  BY <1>6 DEF SameEntry
<1>7. ASSUME Elsewhere(document', p), UNCHANGED <<manifest, chunks>>, w \notin Refreshers, pc # "activate" PROVE Goal
  BY <1>1, <1>3, <1>7 DEF SameEntry, Elsewhere, At
<1>8. CASE BeginSignedIn(w)
  <2>1. Goes /\ op.pc = "begin" /\ document' = BeginSave(document, p) /\ UNCHANGED <<manifest, chunks>>
    BY <1>2, <1>4, <1>8 DEF BeginSignedIn, WriteDocument, At, vaultVars
  <2>2. Elsewhere(document', p) /\ w \notin Refreshers
    BY <1>3, <2>1, WritesBeginSave DEF Place
  <2> QED
    BY <1>2, <1>3, <1>7, <2>1, <2>2
<1>9. CASE Commit(w)
  <2>1. Goes /\ op.pc = "commit" /\ document' = CommitSave(document, p) /\ UNCHANGED <<manifest, chunks>>
    BY <1>2, <1>4, <1>9 DEF Commit, WriteDocument, At, vaultVars
  <2>2. Elsewhere(document', p) /\ w \notin Refreshers
    BY <1>3, <2>1, WritesCommit DEF Place
  <2> QED
    BY <1>2, <1>3, <1>7, <2>1, <2>2
<1>10. CASE Forget(w)
  <2>1. Goes /\ op.pc = "forget" /\ document' = FinishRecovery(document, p) /\ UNCHANGED <<manifest, chunks>>
    BY <1>2, <1>4, <1>10 DEF Forget, WriteDocument, At, vaultVars
  <2>2. Elsewhere(document', p) /\ w \notin Refreshers
    BY <1>3, <2>1, WritesFinish DEF Place
  <2> QED
    BY <1>2, <1>3, <1>7, <2>1, <2>2
<1>11. CASE Activate(w)
  <2>1. Goes /\ op.pc = "activate" /\ document' = SetActiveProfile(document, p) /\ UNCHANGED <<manifest, chunks>>
    BY <1>2, <1>4, <1>11 DEF Activate, WriteDocument, At, vaultVars
  <2>2. document'.profiles = document.profiles /\ document'.recovery = document.recovery /\ w \notin Refreshers
    BY <1>3, <2>1, WritesActive DEF Place
  <2>3. \A q \in ProfileIds : SameEntry(q)
    BY <2>1, <2>2 DEF SameEntry
  <2> QED
    BY <1>2, <1>3, <2>1, <2>2, <2>3
<1>12. CASE DocumentWriteFails(w)
  BY <1>2, <1>5, <1>6, <1>12 DEF DocumentWriteFails, vaultVars
<1>13. CASE ReadManifest(w)
  <2>1. /\ UNCHANGED <<document, manifest, chunks>>
        /\ \/ Fails(w)
           \/ \E old : ops' = [ops EXCEPT ![w].pc = "write", ![w].old = old, ![w].generation = NextGeneration(old)]
    BY <1>13 DEF ReadManifest, KeyringStep, vaultVars
  <2>2. ASSUME NEW old,
               ops' = [ops EXCEPT ![w].pc = "write", ![w].old = old, ![w].generation = NextGeneration(old)]
        PROVE  Goes
    <3>1. PICK next : next = [op EXCEPT !.pc = "write", !.old = old, !.generation = NextGeneration(old)]
      OBVIOUS
    <3>2. ops' = [ops EXCEPT ![w] = next]
      BY <1>2, <1>3, <2>2, <3>1
    <3>3. next.kind = op.kind /\ next.profile = p /\ next.todo = op.todo
      BY <1>3, <3>1 DEF OpRecords
    <3> QED
      BY <3>2, <3>3
  <2> QED
    BY <1>2, <1>5, <1>6, <2>1, <2>2
<1>14. ASSUME UNCHANGED <<document, manifest>>, chunks' \in Vaults, pc # "activate",
              \A q \in ProfileIds \ {p} : chunks'[q] = chunks[q]
       PROVE  Goal
  BY <1>1, <1>3, <1>14 DEF SameEntry, At
<1>15. CASE WriteNextChunk(w)
  <2>1. /\ pc = "write" /\ UNCHANGED <<document, manifest>>
        /\ chunks' = [chunks EXCEPT ![p][op.generation][op.next] = <<op.secret, op.next>>]
    BY <1>2, <1>3, <1>15 DEF WriteNextChunk, At, KeyringStep, WriteChunk
  <2>2. op.secret \in Secrets /\ op.next \in Nat /\ op.generation \in Generations
    BY <1>3, <2>1 DEF Place, OpRecords
  <2>3. chunks' \in Vaults /\ \A q \in ProfileIds \ {p} : chunks'[q] = chunks[q]
    <3> DEFINE chunk == <<op.secret, op.next>>
               row == [chunks[p][op.generation] EXCEPT ![op.next] = chunk]
               entry == [chunks[p] EXCEPT ![op.generation] = row]
    <3>1. chunks' = [chunks EXCEPT ![p] = entry]
      BY <2>1
    <3>2. chunk \in ChunkValues
      BY <2>2 DEF ChunkValues
    <3> HIDE DEF chunk
    <3>3. row \in [1..MaxCount -> ChunkValues]
      <4>1. chunks[p][op.generation] \in [1..MaxCount -> ChunkValues]
        BY <1>3, <2>2 DEF Vaults
      <4> QED
        BY <3>2, <4>1
    <3> HIDE DEF row
    <3>4. entry \in [Generations -> [1..MaxCount -> ChunkValues]]
      BY <1>3, <2>2, <3>3 DEF Vaults
    <3> HIDE DEF entry
    <3> QED
      BY <1>3, <3>1, <3>4 DEF Vaults
  <2>4. PICK next : next = [op EXCEPT !.next = op.next + 1]
    OBVIOUS
  <2>5. ops' = [ops EXCEPT ![w] = next]
    BY <1>2, <1>3, <1>15, <2>4 DEF WriteNextChunk
  <2>6. next.kind = op.kind /\ next.profile = p /\ next.todo = op.todo
    BY <1>3, <2>4 DEF OpRecords
  <2> QED
    BY <1>2, <1>14, <2>1, <2>3, <2>5, <2>6
<1>16. CASE PublishManifest(w)
  <2>1. Goes /\ pc = "write" /\ UNCHANGED <<document, chunks>> /\ WriteManifest(p, op.generation, op.secret)
    BY <1>2, <1>3, <1>4, <1>16 DEF PublishManifest, At, KeyringStep
  <2>2. \A q \in ProfileIds \ {p} : manifest'[q] = manifest[q]
    BY <1>3, <2>1 DEF WriteManifest
  <2> QED
    BY <1>1, <1>2, <1>3, <2>1, <2>2 DEF SameEntry, At
<1>17. ASSUME NEW kept, WriteFails(w, kept) PROVE Goal /\ Goes
  <2>1. /\ Goes /\ pc = "write" /\ UNCHANGED <<document, manifest>>
        /\ DeleteGeneration(p, op.generation, op.next - 1, kept)
    BY <1>2, <1>3, <1>5, <1>17 DEF WriteFails, At, KeyringStep
  <2>2. chunks' \in Vaults /\ \A q \in ProfileIds \ {p} : chunks'[q] = chunks[q]
    BY <1>3, <2>1, Deleted
  <2> QED
    BY <1>14, <2>1, <2>2
<1>18. ASSUME NEW kept, DropOldGeneration(w, kept) PROVE Goal /\ Goes
  <2>1. /\ Goes /\ pc = "drop" /\ UNCHANGED <<document, manifest>>
        /\ UNCHANGED chunks \/ DeleteGeneration(p, op.old.generation, op.old.count, kept)
    BY <1>2, <1>3, <1>4, <1>18 DEF DropOldGeneration, At, KeyringStep
  <2>2. chunks' \in Vaults /\ \A q \in ProfileIds \ {p} : chunks'[q] = chunks[q]
    BY <1>3, <2>1, Deleted
  <2> QED
    BY <1>14, <2>1, <2>2
<1>19. CASE EraseEntry(w)
  <2>1. /\ pc = "erase" /\ UNCHANGED <<document, chunks>>
        /\ \/ Fails(w) /\ UNCHANGED manifest
           \/ DeleteManifest(p) /\ \E old : ops' = [ops EXCEPT ![w].pc = "drop", ![w].old = old]
    BY <1>2, <1>3, <1>19 DEF EraseEntry, At, KeyringStep
  <2>2. CASE Fails(w) /\ UNCHANGED manifest
    BY <1>2, <1>5, <1>6, <2>1, <2>2
  <2>3. ASSUME NEW old, DeleteManifest(p), ops' = [ops EXCEPT ![w].pc = "drop", ![w].old = old]
        PROVE  Goal /\ Goes
    <3>1. PICK next : next = [op EXCEPT !.pc = "drop", !.old = old]
      OBVIOUS
    <3>2. ops' = [ops EXCEPT ![w] = next]
      BY <1>2, <1>3, <2>3, <3>1
    <3>3. next.kind = op.kind /\ next.profile = p /\ next.todo = op.todo
      BY <1>3, <3>1 DEF OpRecords
    <3>4. \A q \in ProfileIds \ {p} : manifest'[q] = manifest[q]
      BY <1>3, <2>3 DEF DeleteManifest
    <3> QED
      BY <1>1, <1>2, <1>3, <2>1, <3>2, <3>3, <3>4 DEF SameEntry, At
  <2> QED
    BY <1>2, <2>1, <2>2, <2>3
<1> QED
  BY <1>2, <1>8, <1>9, <1>10, <1>11, <1>12, <1>13, <1>15, <1>16, <1>17, <1>18, <1>19 DEF WorkflowStep

\* The records a recovery has still to come to are none of the workflow's own entry.
LEMMA WorkflowPending ==
  ASSUME VaultIInv, NEW w \in Processes, ~Idle(w), overlapped \subseteq overlapped', ops[w] \in OpRecords,
         NEW next, next.kind = ops[w].kind, next.profile = ops[w].profile, next.todo = ops[w].todo,
         \A q \in ProfileIds \ {ops[w].profile} : SameEntry(q)
  PROVE  StillPending(next)'
<1> SUFFICES ASSUME next.kind = "recover", NEW q \in next.todo, q \notin overlapped'
             PROVE  document'.recovery[q] # "none" /\ q # next.profile
  BY DEF StillPending
<1>1. q \in ops[w].todo \ overlapped /\ q \in ProfileIds
  BY DEF OpRecords
<1>2. document.recovery[q] # "none" /\ q # ops[w].profile
  BY <1>1 DEF VaultIInv, StillPending
<1> QED
  BY <1>1, <1>2 DEF SameEntry

\* The steps of a workflow that is alone at work on its entry.
LEMMA VaultAlone ==
  ASSUME VaultIInv, TypeOK', overlapped' = overlapped \cup Contended', NEW w \in Processes, WorkflowStep(w),
         ops[w].profile \notin overlapped'
  PROVE  VaultIInv'
<1>0. /\ TypeOK /\ chunks \in Vaults /\ document \in Documents /\ ops \in [Processes -> OpRecords \cup {NoOp}]
  BY DEF VaultIInv, TypeOK
<1>1. PICK pc \in {"begin", "commit", "forget", "activate", "read", "write", "drop", "erase"} : At(w, pc)
  BY DEF WorkflowStep, BeginSignedIn, Commit, Forget, Activate, DocumentWriteFails, ReadManifest, WriteNextChunk,
       PublishManifest, EraseEntry, WriteFails, DropOldGeneration
<1>2. PICK op, p : op = ops[w] /\ p = ops[w].profile
  OBVIOUS
<1>3. /\ op \in OpRecords /\ ~Idle(w) /\ Place(op) /\ op.pc = pc /\ op.profile = p /\ p \in ProfileIds
  BY <1>0, <1>1, <1>2, Inside
<1>4. VaultPlace(op) /\ Agree(p) /\ manifest \in [ProfileIds -> Manifests]
  BY <1>0, <1>2, <1>3 DEF VaultIInv, TypeOK
<1>5. /\ chunks' \in Vaults /\ (w \in Refreshers => UNCHANGED document)
      /\ \A q \in ProfileIds \ {p} : SameEntry(q)
      /\ pc = "activate" => SameEntry(p)
      /\ ops'[w].kind = op.kind /\ ops'[w].profile = p /\ ops'[w].todo = op.todo
  BY <1>0, <1>1, <1>2, WorkflowTouches
<1>6. ASSUME NEW next, ops' = [ops EXCEPT ![w] = next], Agree(p)', VaultPlace(next)' PROVE VaultIInv'
  <2>1. ops'[w] = next
    BY <1>0, <1>6
  <2>2. StillPending(next)'
    BY <1>2, <1>3, <1>5, <2>1, WorkflowPending
  <2>3. pc # "activate" => AtWork(w, p)
    BY <1>1, <1>2, <1>3 DEF AtWork
  <2>4. \A q \in ProfileIds \ overlapped' :
           SameEntry(q) \/ (Agree(q)' /\ (AtWork(w, q) \/ AtWork(w, q)'))
    <3> SUFFICES ASSUME NEW q \in ProfileIds \ overlapped', ~SameEntry(q) PROVE Agree(q)' /\ AtWork(w, q)
      OBVIOUS
    <3>1. q = p /\ pc # "activate"
      BY <1>5
    <3> QED
      BY <1>6, <2>3, <3>1
  <2> QED
    BY <1>5, <1>6, <2>2, <2>4, VaultWorks
<1>7. ASSUME NEW to \in {"recover", "read", "activate", "drop", "commit", "forget", "tail"}, Goto(w, to)
      PROVE  \E next \in OpRecords :
                /\ ops' = [ops EXCEPT ![w] = next] /\ next.kind = op.kind /\ next.profile = p /\ next.pc = to
                /\ next.secret = op.secret /\ next.next = op.next /\ next.generation = op.generation
                /\ next.old = op.old /\ next.todo = op.todo
  <2>1. PICK next : next = [op EXCEPT !.pc = to]
    OBVIOUS
  <2>2. /\ next \in OpRecords /\ next.kind = op.kind /\ next.profile = p /\ next.pc = to
        /\ next.secret = op.secret /\ next.next = op.next /\ next.generation = op.generation
        /\ next.old = op.old /\ next.todo = op.todo
    BY <1>3, <2>1 DEF OpRecords
  <2>3. ops' = [ops EXCEPT ![w] = next]
    BY <1>0, <1>2, <1>7, <2>1 DEF Goto
  <2> QED
    BY <2>2, <2>3
<1>8. ASSUME Fails(w), Agree(p)' PROVE VaultIInv'
  <2>1. PICK next : next = [op EXCEPT !.pc = "tail", !.ok = FALSE]
    OBVIOUS
  <2>2. next.pc = "tail"
    BY <1>3, <2>1 DEF OpRecords
  <2>3. ops' = [ops EXCEPT ![w] = next]
    BY <1>0, <1>2, <1>8, <2>1 DEF Fails
  <2>4. VaultPlace(next)'
    BY <2>2 DEF VaultPlace, WritePlace, ErasePlace
  <2> QED
    BY <1>6, <1>8, <2>3, <2>4
<1>9. ASSUME UNCHANGED <<manifest, chunks>>
      PROVE  /\ Stored(p) => Stored(p)'
             /\ UNCHANGED document => Agree(p)'
  <2>1. Stored(p) => Stored(p)'
    BY <1>9 DEF Stored, Holds
  <2> QED
    BY <1>0, <1>4, <1>9, <2>1 DEF Agree, Linked
<1>10. CASE BeginSignedIn(w)
  <2>1. op.pc = "begin" /\ op.kind = "login" /\ ~Linked(p) /\ op.next = 1
    BY <1>2, <1>3, <1>4, <1>10 DEF BeginSignedIn, At, Place, OpRecords, VaultPlace, WritePlace
  <2>2. PICK next \in OpRecords : /\ ops' = [ops EXCEPT ![w] = next] /\ next.kind = op.kind /\ next.pc = "read"
                                  /\ next.profile = p /\ next.next = op.next
    BY <1>7, <1>10 DEF BeginSignedIn, WriteDocument
  <2>3. /\ document'.profiles = document.profiles /\ document'.recovery[p] = "uncommitted_save"
        /\ \A q \in ProfileIds \ {p} : document'.recovery[q] = document.recovery[q]
        /\ UNCHANGED <<manifest, chunks>>
    BY <1>0, <1>2, <1>3, <1>10, WritesBeginSave DEF BeginSignedIn, WriteDocument, Elsewhere, vaultVars
  <2>4. Agree(p)'
    BY <1>0, <2>1, <2>3 DEF Agree, Linked
  <2>5. VaultPlace(next)'
    BY <2>1, <2>2, <2>3 DEF VaultPlace, WritePlace
  <2> QED
    BY <1>6, <2>2, <2>4, <2>5
<1>11. CASE Commit(w)
  <2>1. op.pc = "commit" /\ op.kind \in {"save", "login"} /\ document.recovery[p] = "uncommitted_save" /\ Stored(p)
    BY <1>2, <1>3, <1>4, <1>11 DEF Commit, At, Place, OpRecords, VaultPlace, WritePlace
  <2>2. PICK next \in OpRecords : /\ ops' = [ops EXCEPT ![w] = next] /\ next.kind = op.kind
                                  /\ next.pc \in {"activate", "tail"}
    BY <1>7, <1>11 DEF Commit, WriteDocument
  <2>3. /\ document'.profiles[p].linked /\ document'.recovery[p] = "none"
        /\ Elsewhere(document', p) /\ UNCHANGED <<manifest, chunks>>
    BY <1>0, <1>2, <1>3, <1>11, <2>1, WritesCommit DEF Commit, WriteDocument, vaultVars
  <2>4. Agree(p)'
    BY <1>0, <1>9, <2>1, <2>3 DEF Agree, Linked, Elsewhere
  <2>5. VaultPlace(next)'
    BY <2>1, <2>2 DEF VaultPlace, WritePlace
  <2> QED
    BY <1>6, <2>2, <2>4, <2>5
<1>12. CASE Forget(w)
  <2>1. /\ op.pc = "forget" /\ op.kind \in {"disconnect", "delete", "recover"}
        /\ ~Linked(p) /\ manifest[p] = NoManifest
    BY <1>2, <1>3, <1>4, <1>12 DEF Forget, At, Place, OpRecords, VaultPlace, ErasePlace
  <2>2. PICK next \in OpRecords : /\ ops' = [ops EXCEPT ![w] = next] /\ next.kind = op.kind
                                  /\ next.pc \in {"recover", "tail"} /\ next.profile = p /\ next.todo = op.todo
    BY <1>7, <1>12 DEF Forget, WriteDocument
  <2>3. /\ document'.profiles = document.profiles
        /\ \A q \in ProfileIds \ {p} : document'.recovery[q] = document.recovery[q]
        /\ UNCHANGED <<manifest, chunks>>
    BY <1>0, <1>2, <1>3, <1>12, WritesFinish DEF Forget, WriteDocument, Elsewhere, vaultVars
  <2>4. Agree(p)'
    BY <1>0, <2>1, <2>3 DEF Agree, Linked
  <2>5. VaultPlace(next)'
    BY <2>1, <2>2 DEF VaultPlace, ErasePlace
  <2> QED
    BY <1>6, <2>2, <2>4, <2>5
<1>13. CASE Activate(w)
  <2>1. op.kind \in {"upsert", "login"}
    BY <1>2, <1>3, <1>13 DEF Activate, At, Place, OpRecords
  <2>2. PICK next \in OpRecords : ops' = [ops EXCEPT ![w] = next] /\ next.kind = op.kind /\ next.pc = "tail"
    BY <1>7, <1>13 DEF Activate, WriteDocument
  <2>3. /\ document'.profiles = document.profiles /\ document'.recovery = document.recovery
        /\ UNCHANGED <<manifest, chunks>>
    BY <1>0, <1>2, <1>3, <1>13, WritesActive DEF Activate, WriteDocument, vaultVars
  <2>4. Agree(p)'
    BY <1>0, <1>4, <1>9, <2>3 DEF Agree, Linked
  <2>5. VaultPlace(next)'
    BY <2>1, <2>2 DEF VaultPlace, WritePlace
  <2> QED
    BY <1>6, <2>2, <2>4, <2>5
<1>14. CASE DocumentWriteFails(w)
  BY <1>8, <1>9, <1>14 DEF DocumentWriteFails, vaultVars
<1>15. CASE ReadManifest(w)
  <2>1. /\ op.pc = "read" /\ op.kind \in {"save", "replace", "login"} /\ op.next = 1 /\ op.secret \in Secrets
        /\ UNCHANGED <<document, manifest, chunks>>
    BY <1>2, <1>3, <1>4, <1>15 DEF ReadManifest, At, Place, OpRecords, VaultPlace, WritePlace, KeyringStep, vaultVars
  <2>2. Agree(p)'
    BY <1>9, <2>1
  <2>3. \/ Fails(w)
        \/ \E old : /\ ops' = [ops EXCEPT ![w].pc = "write", ![w].old = old, ![w].generation = NextGeneration(old)]
                    /\ old = manifest[p] \/ op.kind = "save" \/ (op.kind = "login" /\ ~Linked(p))
    BY <1>2, <1>15 DEF ReadManifest
  <2>4. ASSUME NEW old, old = manifest[p] \/ op.kind = "save" \/ (op.kind = "login" /\ ~Linked(p)),
               ops' = [ops EXCEPT ![w].pc = "write", ![w].old = old, ![w].generation = NextGeneration(old)]
        PROVE  VaultIInv'
    <3>1. PICK next : next = [op EXCEPT !.pc = "write", !.old = old, !.generation = NextGeneration(old)]
      OBVIOUS
    <3>2. ops' = [ops EXCEPT ![w] = next]
      BY <1>0, <1>2, <2>4, <3>1
    <3>3. /\ next.kind = op.kind /\ next.profile = p /\ next.pc = "write" /\ next.next = 1 /\ next.old = old
          /\ next.generation = NextGeneration(old) /\ next.secret = op.secret
      BY <1>3, <2>1, <3>1 DEF OpRecords
    <3>4. op.kind = "save" => ~Linked(p)
      BY <1>3, <1>4, <2>1 DEF VaultPlace, WritePlace, Agree
    <3>5. Linked(p) => NextGeneration(old) # manifest[p].generation
      BY <2>4, <3>4 DEF NextGeneration
    <3>6. ChunkCount[op.secret] \in Nat /\ ChunkCount[op.secret] >= 1
      BY <2>1, ChunkAssumption
    <3>7. VaultPlace(next)'
      <4>1. Holds(p, NextGeneration(old), op.secret, 0)'
        BY DEF Holds
      <4>2. /\ op.kind = "save" => document.recovery[p] = "uncommitted_save"
            /\ op.kind = "replace" => Linked(p)
            /\ op.kind = "login" => Linked(p) \/ document.recovery[p] = "uncommitted_save"
        BY <1>3, <1>4, <2>1 DEF VaultPlace, WritePlace
      <4>3. 1 <= ChunkCount[op.secret] + 1 /\ 1 - 1 = 0
        BY <3>6
      <4> QED
        BY <2>1, <3>3, <3>5, <4>1, <4>2, <4>3 DEF VaultPlace, WritePlace, Linked
    <3> QED
      BY <1>6, <2>2, <3>2, <3>7
  <2> QED
    BY <1>8, <2>1, <2>2, <2>3, <2>4
<1>16. ASSUME pc = "write"
       PROVE  /\ op.kind \in {"save", "replace", "login"} /\ op.secret \in Secrets /\ op.next \in Nat
              /\ op.generation \in Generations /\ WritePlace(op)
              /\ ChunkCount[op.secret] \in Nat /\ ChunkCount[op.secret] <= MaxCount /\ MaxCount \in Nat
  <2>1. /\ op.kind \in {"save", "replace", "login"} /\ op.secret \in Secrets /\ op.next \in Nat
        /\ op.generation \in Generations
    BY <1>3, <1>16 DEF Place, OpRecords
  <2> QED
    BY <1>4, <2>1, ChunkAssumption DEF VaultPlace
<1>17. ASSUME pc = "write", UNCHANGED <<document, manifest>>, chunks' \in Vaults,
              \A h \in Generations \ {op.generation} : chunks'[p][h] = chunks[p][h]
       PROVE  Agree(p)'
  <2>1. /\ Linked(p)' <=> Linked(p)
        /\ document'.recovery[p] = document.recovery[p] /\ manifest'[p] = manifest[p]
    BY <1>17 DEF Linked
  <2>2. Linked(p) => op.generation # manifest[p].generation
    BY <1>3, <1>16, <1>17 DEF WritePlace
  <2>3. Linked(p) => Stored(p)'
    BY <1>4, <1>17, <2>1, <2>2 DEF Agree, Stored, Holds
  <2> QED
    BY <1>4, <2>1, <2>3 DEF Agree
<1>18. CASE WriteNextChunk(w)
  <2>1. pc = "write" /\ op.next <= ChunkCount[op.secret] /\ UNCHANGED <<document, manifest>>
    BY <1>2, <1>3, <1>18 DEF WriteNextChunk, At, KeyringStep
  <2>2. PICK next : next = [op EXCEPT !.next = op.next + 1]
    OBVIOUS
  <2>3. ops' = [ops EXCEPT ![w] = next]
    BY <1>0, <1>2, <1>18, <2>2 DEF WriteNextChunk
  <2>4. /\ next.kind = op.kind /\ next.profile = p /\ next.pc = "write" /\ next.next = op.next + 1
        /\ next.old = op.old /\ next.generation = op.generation /\ next.secret = op.secret
    BY <1>3, <2>1, <2>2 DEF OpRecords
  <2>5. /\ 1 <= op.next /\ op.next <= MaxCount /\ op.next \in Nat /\ op.secret \in Secrets
        /\ op.generation \in Generations /\ op.kind \in {"save", "replace", "login"}
    BY <1>3, <1>16, <2>1 DEF WritePlace
  <2>6. <<op.secret, op.next>> \in ChunkValues /\ op.next \in 1..MaxCount
    BY <1>16, <2>1, <2>5 DEF ChunkValues
  <2>7. chunks' = [chunks EXCEPT ![p][op.generation][op.next] = <<op.secret, op.next>>]
    BY <1>2, <1>18 DEF WriteNextChunk, WriteChunk
  <2>8. /\ chunks' \in Vaults
        /\ \A q \in ProfileIds \ {p} : chunks'[q] = chunks[q]
        /\ \A h \in Generations \ {op.generation} : chunks'[p][h] = chunks[p][h]
        /\ \A i \in 1..MaxCount \ {op.next} : chunks'[p][op.generation][i] = chunks[p][op.generation][i]
        /\ chunks'[p][op.generation][op.next] = <<op.secret, op.next>>
    <3> DEFINE chunk == <<op.secret, op.next>>
               row == [chunks[p][op.generation] EXCEPT ![op.next] = chunk]
               entry == [chunks[p] EXCEPT ![op.generation] = row]
    <3>1. chunks' = [chunks EXCEPT ![p] = entry]
      BY <2>7
    <3> HIDE DEF chunk
    <3>2. /\ row \in [1..MaxCount -> ChunkValues] /\ row[op.next] = chunk
          /\ \A i \in 1..MaxCount \ {op.next} : row[i] = chunks[p][op.generation][i]
      <4>1. chunks[p][op.generation] \in [1..MaxCount -> ChunkValues] /\ chunk \in ChunkValues
        BY <1>0, <1>3, <2>5, <2>6 DEF Vaults, chunk
      <4> QED
        BY <2>6, <4>1
    <3> HIDE DEF row
    <3>3. /\ entry \in [Generations -> [1..MaxCount -> ChunkValues]] /\ entry[op.generation] = row
          /\ \A h \in Generations \ {op.generation} : entry[h] = chunks[p][h]
      BY <1>0, <1>3, <2>5, <3>2 DEF Vaults
    <3> HIDE DEF entry
    <3> QED
      BY <1>0, <1>3, <3>1, <3>2, <3>3 DEF Vaults, chunk
  <2>9. Agree(p)'
    BY <1>17, <2>1, <2>8
  <2>10. Holds(p, op.generation, op.secret, op.next)'
    <3>1. Holds(p, op.generation, op.secret, op.next - 1)
      BY <1>3, <1>16, <2>1 DEF WritePlace
    <3>2. \A i \in 1..op.next : i = op.next \/ (i \in 1..(op.next - 1) /\ i \in 1..MaxCount \ {op.next})
      BY <1>16, <2>1, <2>5
    <3> QED
      BY <2>8, <3>1, <3>2 DEF Holds
  <2>11. VaultPlace(next)'
    <3>1. WritePlace(op)
      BY <1>16, <2>1
    <3>2. Linked(p)' <=> Linked(p)
      BY <2>1 DEF Linked
    <3>3. 1 <= op.next + 1 /\ op.next + 1 <= ChunkCount[op.secret] + 1 /\ (op.next + 1) - 1 = op.next
      BY <1>16, <2>1, <2>5
    <3> QED
      BY <1>3, <2>1, <2>4, <2>5, <2>10, <3>1, <3>2, <3>3 DEF VaultPlace, WritePlace
  <2> QED
    BY <1>6, <2>3, <2>8, <2>9, <2>11
<1>19. CASE PublishManifest(w)
  <2>1. pc = "write" /\ op.next > ChunkCount[op.secret] /\ UNCHANGED <<document, chunks>>
    BY <1>2, <1>3, <1>19 DEF PublishManifest, At, KeyringStep
  <2>2. PICK next \in OpRecords :
           /\ ops' = [ops EXCEPT ![w] = next] /\ next.kind = op.kind /\ next.profile = p /\ next.pc = "drop"
           /\ next.secret = op.secret /\ next.generation = op.generation /\ next.old = op.old
    BY <1>7, <1>19 DEF PublishManifest
  <2>3. /\ manifest'[p] = [generation |-> op.generation, count |-> ChunkCount[op.secret]]
        /\ \A q \in ProfileIds \ {p} : manifest'[q] = manifest[q]
    BY <1>2, <1>3, <1>4, <1>19 DEF PublishManifest, WriteManifest
  <2>4. Holds(p, op.generation, op.secret, ChunkCount[op.secret])'
    <3>1. op.next - 1 = ChunkCount[op.secret] /\ Holds(p, op.generation, op.secret, op.next - 1)
      BY <1>3, <1>16, <2>1 DEF WritePlace
    <3> QED
      BY <2>1, <3>1 DEF Holds
  <2>5. Stored(p)'
    BY <1>16, <2>1, <2>3, <2>4 DEF Stored
  <2>6. /\ Linked(p)' <=> Linked(p)
        /\ Linked(p) \/ document.recovery[p] = "uncommitted_save"
    BY <1>3, <1>16, <2>1 DEF WritePlace, Linked
  <2>7. Agree(p)'
    BY <1>0, <1>4, <2>1, <2>3, <2>5, <2>6 DEF Agree
  <2>8. VaultPlace(next)'
    BY <1>3, <1>16, <2>1, <2>2, <2>3, <2>4, <2>6 DEF VaultPlace, WritePlace
  <2> QED
    BY <1>6, <2>2, <2>7, <2>8
<1>20. ASSUME NEW kept, WriteFails(w, kept) PROVE VaultIInv'
  <2>1. /\ pc = "write" /\ Fails(w) /\ UNCHANGED <<document, manifest>>
        /\ DeleteGeneration(p, op.generation, op.next - 1, kept)
    BY <1>2, <1>3, <1>20 DEF WriteFails, At, KeyringStep
  <2>2. /\ chunks' \in Vaults /\ \A q \in ProfileIds \ {p} : chunks'[q] = chunks[q]
        /\ \A h \in Generations \ {op.generation} : chunks'[p][h] = chunks[p][h]
    BY <1>0, <1>3, <2>1, Deleted
  <2>3. Agree(p)'
    BY <1>17, <2>1, <2>2
  <2> QED
    BY <1>8, <2>1, <2>2, <2>3
<1>21. ASSUME NEW kept, DropOldGeneration(w, kept) PROVE VaultIInv'
  <2>1. /\ pc = "drop" /\ UNCHANGED <<document, manifest>> /\ Goto(w, AfterVault(op))
        /\ IF op.old = NoManifest THEN UNCHANGED chunks
           ELSE DeleteGeneration(p, op.old.generation, op.old.count, kept)
    BY <1>2, <1>3, <1>21 DEF DropOldGeneration, At, KeyringStep
  <2>2. /\ chunks' \in Vaults /\ \A q \in ProfileIds \ {p} : chunks'[q] = chunks[q]
        /\ \A h \in Generations \ {op.old.generation} : chunks'[p][h] = chunks[p][h]
    <3>1. CASE op.old = NoManifest
      BY <1>0, <2>1, <3>1
    <3>2. CASE op.old # NoManifest
      BY <1>0, <1>3, <2>1, <3>2, Deleted
    <3> QED
      BY <3>1, <3>2
  <2>3. PICK to \in {"activate", "commit", "forget", "tail"} : to = AfterVault(op)
    BY <2>1 DEF AfterVault
  <2>4. PICK next \in OpRecords :
           /\ ops' = [ops EXCEPT ![w] = next] /\ next.kind = op.kind /\ next.profile = p /\ next.pc = to
           /\ next.todo = op.todo
    BY <1>7, <2>1, <2>3
  <2>5. Linked(p)' <=> Linked(p)
    BY <2>1 DEF Linked
  <2>6. CASE op.kind \in {"save", "replace", "login"}
    <3>1. /\ manifest[p] = [generation |-> op.generation, count |-> ChunkCount[op.secret]]
          /\ Holds(p, op.generation, op.secret, ChunkCount[op.secret])
          /\ op.generation = NextGeneration(op.old) /\ op.secret \in Secrets /\ op.generation \in Generations
          /\ op.kind = "save" => document.recovery[p] = "uncommitted_save"
          /\ op.kind = "replace" => Linked(p)
          /\ op.kind = "login" => Linked(p) \/ document.recovery[p] = "uncommitted_save"
      BY <1>3, <1>4, <2>1, <2>6 DEF VaultPlace, WritePlace, Place, OpRecords
    <3>2. op.generation # op.old.generation
      BY <3>1 DEF NextGeneration
    <3>3. Holds(p, op.generation, op.secret, ChunkCount[op.secret])'
      BY <2>2, <3>1, <3>2 DEF Holds
    <3>4. Stored(p)'
      BY <2>1, <3>1, <3>3 DEF Stored
    <3>5. Agree(p)'
      BY <1>4, <2>1, <2>2, <2>5, <3>1, <3>4 DEF Agree
    <3>6. /\ to = "commit" => op.kind \in {"save", "login"} /\ document.recovery[p] = "uncommitted_save"
          /\ to \in {"commit", "activate", "tail"}
      BY <1>3, <2>3, <2>6, <3>1 DEF AfterVault
    <3>7. VaultPlace(next)'
      BY <2>1, <2>4, <2>6, <3>4, <3>6 DEF VaultPlace, WritePlace
    <3> QED
      BY <1>6, <2>2, <2>4, <3>5, <3>7
  <2>7. CASE op.kind \in {"disconnect", "delete", "recover"}
    <3>1. ~Linked(p) /\ manifest[p] = NoManifest
      BY <1>3, <1>4, <2>1, <2>7 DEF VaultPlace, ErasePlace
    <3>2. to = "forget"
      BY <2>3, <2>7 DEF AfterVault
    <3>3. Agree(p)'
      BY <2>1, <2>2, <2>5, <3>1 DEF Agree
    <3>5. VaultPlace(next)'
      BY <2>1, <2>4, <2>5, <2>7, <3>1, <3>2 DEF VaultPlace, ErasePlace
    <3> QED
      BY <1>6, <2>2, <2>4, <3>3, <3>5
  <2> QED
    BY <1>3, <2>1, <2>6, <2>7 DEF Place, OpRecords
<1>22. CASE EraseEntry(w)
  <2>1. /\ pc = "erase" /\ UNCHANGED <<document, chunks>>
        /\ \/ Fails(w) /\ UNCHANGED manifest
           \/ DeleteManifest(p) /\ \E old : ops' = [ops EXCEPT ![w].pc = "drop", ![w].old = old]
    BY <1>2, <1>3, <1>22 DEF EraseEntry, At, KeyringStep
  <2>2. CASE Fails(w) /\ UNCHANGED manifest
    BY <1>8, <1>9, <2>1, <2>2
  <2>3. ASSUME NEW old, DeleteManifest(p), ops' = [ops EXCEPT ![w].pc = "drop", ![w].old = old]
        PROVE  VaultIInv'
    <3>1. PICK next : next = [op EXCEPT !.pc = "drop", !.old = old]
      OBVIOUS
    <3>2. ops' = [ops EXCEPT ![w] = next]
      BY <1>0, <1>2, <2>3, <3>1
    <3>3. next.kind = op.kind /\ next.profile = p /\ next.pc = "drop" /\ next.todo = op.todo
      BY <1>3, <3>1 DEF OpRecords
    <3>4. op.kind \in {"disconnect", "delete", "recover"} /\ ~Linked(p)
      BY <1>3, <1>4, <2>1 DEF VaultPlace, ErasePlace, Place, OpRecords
    <3>5. /\ manifest'[p] = NoManifest /\ \A q \in ProfileIds \ {p} : manifest'[q] = manifest[q]
      BY <1>3, <1>4, <2>3 DEF DeleteManifest
    <3>6. Agree(p)'
      BY <1>0, <2>1, <3>4, <3>5 DEF Agree, Linked
    <3>7. ~Linked(p)'
      BY <2>1, <3>4 DEF Linked
    <3>8. VaultPlace(next)'
      BY <3>3, <3>4, <3>5, <3>7 DEF VaultPlace, ErasePlace
    <3> QED
      BY <1>6, <3>2, <3>6, <3>8
  <2> QED
    BY <2>1, <2>2, <2>3
<1> QED
  BY <1>10, <1>11, <1>12, <1>13, <1>14, <1>15, <1>18, <1>19, <1>20, <1>21, <1>22 DEF WorkflowStep

\* The steps of a workflow, alone at work or not.
LEMMA VaultWorkflow ==
  ASSUME VaultIInv, TypeOK', overlapped' = overlapped \cup Contended', NEW w \in Processes, WorkflowStep(w)
  PROVE  VaultIInv'
<1>0. TypeOK /\ chunks \in Vaults /\ ops \in [Processes -> OpRecords \cup {NoOp}]
  BY DEF VaultIInv, TypeOK
<1>1. PICK pc \in {"begin", "commit", "forget", "activate", "read", "write", "drop", "erase"} : At(w, pc)
  BY DEF WorkflowStep, BeginSignedIn, Commit, Forget, Activate, DocumentWriteFails, ReadManifest, WriteNextChunk,
       PublishManifest, EraseEntry, WriteFails, DropOldGeneration
<1>2. CASE ops[w].profile \in overlapped'
  <2>1. PICK next : /\ ops' = [ops EXCEPT ![w] = next] /\ next.kind = ops[w].kind
                    /\ next.profile = ops[w].profile /\ next.todo = ops[w].todo
    BY <1>0, WorkflowTouches
  <2>2. /\ chunks' \in Vaults /\ (w \in Refreshers => UNCHANGED document)
        /\ \A q \in ProfileIds \ {ops[w].profile} : SameEntry(q)
    BY <1>0, WorkflowTouches
  <2>3. ops[w] \in OpRecords /\ ~Idle(w)
    BY <1>0, <1>1, Inside
  <2>4. StillPending(next)'
    BY <2>1, <2>2, <2>3, WorkflowPending
  <2>5. \A q \in ProfileIds \ overlapped' : SameEntry(q)
    BY <1>2, <2>2
  <2> QED
    BY <1>2, <2>1, <2>2, <2>4, <2>5, VaultWorks
<1> QED
  BY <1>2, VaultAlone

\* Every step keeps keyring and document together.
LEMMA VaultStep ==
  ASSUME VaultIInv, [Next]_vars
  PROVE  VaultIInv'
<1> USE CoordinatorAlone
<1>0. /\ TypeOK /\ TypeOK' /\ chunks \in Vaults /\ document \in Documents
      /\ ops \in [Processes -> OpRecords \cup {NoOp}]
  BY TypeStep DEF VaultIInv, TypeOK
<1>1. CASE UNCHANGED vars
  BY <1>1, VaultKept DEF vars, profileVars, vaultVars
<1> SUFFICES ASSUME Step, overlapped' = overlapped \cup Contended' PROVE VaultIInv'
  BY <1>1 DEF Next
<1>2. CASE ProfileCommand \/ CredentialCommand
  BY <1>0, <1>2, VaultCommands
<1>3. ASSUME NEW w \in Processes, NEW op, ops' = [ops EXCEPT ![w] = op], UNCHANGED <<document, manifest, chunks>>,
             op # NoOp => /\ op.profile \notin overlapped' => VaultPlace(op)'
                          /\ StillPending(op)'
      PROVE  VaultIInv'
  <2>1. \A q \in ProfileIds : SameEntry(q)
    BY <1>3 DEF SameEntry
  <2> QED
    BY <1>0, <1>3, <2>1, VaultWorks
<1>4. overlapped \subseteq overlapped'
  OBVIOUS
<1>5. CASE CompletionStep
  <2>1. ASSUME NEW readable \in BOOLEAN, Finish(readable) \/ Configure(readable) \/ RecoveryDone PROVE VaultIInv'
    <3>1. ops' = [ops EXCEPT ![Coordinator] = NoOp] /\ UNCHANGED <<document, manifest, chunks>>
      BY <2>1 DEF Finish, Configure, RecoveryDone, vaultVars
    <3> QED
      BY <1>3, <3>1
  <2>2. CASE RecoverySkips
    <3>1. PICK op, next : op = ops[Coordinator] /\ next = [op EXCEPT !.pc = "recover"]
      OBVIOUS
    <3>2. op \in OpRecords /\ ~Idle(Coordinator)
      BY <1>0, <2>2, <3>1, Inside DEF RecoverySkips
    <3>3. ops' = [ops EXCEPT ![Coordinator] = next] /\ UNCHANGED <<document, manifest, chunks>>
      BY <1>0, <2>2, <3>1 DEF RecoverySkips, Goto, vaultVars
    <3>4. next.kind = op.kind /\ next.pc = "recover" /\ next.todo = op.todo /\ next.profile = op.profile
      BY <3>1, <3>2 DEF OpRecords
    <3>5. VaultPlace(next)'
      BY <3>4 DEF VaultPlace, WritePlace, ErasePlace
    <3>6. \A q \in ProfileIds : SameEntry(q)
      BY <3>3 DEF SameEntry
    <3>7. StillPending(next)'
      BY <1>4, <3>1, <3>2, <3>4, <3>6, WorkflowPending
    <3> QED
      BY <1>3, <3>3, <3>5, <3>7
  <2>3. ASSUME NEW p \in ProfileIds, RecoverNext(p) PROVE VaultIInv'
    <3>1. PICK op : op = ops[Coordinator]
      OBVIOUS
    <3>2. op \in OpRecords /\ Place(op) /\ op.pc = "recover" /\ ~Idle(Coordinator) /\ p \in op.todo
      BY <1>0, <2>3, <3>1, Inside DEF RecoverNext
    <3>3. op.kind = "recover" /\ StillPending(op)
      BY <3>1, <3>2 DEF Place, OpRecords, VaultIInv
    <3>5. PICK fresh : fresh = Op("recover", p, "none", "erase") /\ fresh \in OpRecords
      BY FreshOpType DEF Names
    <3>6. PICK rest : rest = [fresh EXCEPT !.todo = op.todo \ {p}]
      OBVIOUS
    <3>7. PICK next : next = IF document.recovery[p] = "uncommitted_save" /\ Linked(p)
                             THEN [rest EXCEPT !.pc = "forget"] ELSE rest
      OBVIOUS
    <3>8. ops' = [ops EXCEPT ![Coordinator] = next] /\ UNCHANGED <<document, manifest, chunks>>
      BY <2>3, <3>1, <3>5, <3>6, <3>7 DEF RecoverNext, vaultVars
    <3>9. rest \in OpRecords /\ rest.kind = "recover" /\ rest.pc = "erase" /\ rest.todo = op.todo \ {p} /\ rest.profile = p
      BY <3>2, <3>5, <3>6, FreshOp DEF OpRecords
    <3>10. next.kind = "recover" /\ next.todo = op.todo \ {p} /\ next.profile = p
      BY <3>7, <3>9 DEF OpRecords
    <3>11. ASSUME p \notin overlapped' PROVE VaultPlace(next)'
      <4>1. ~Linked(p)
        BY <1>4, <3>2, <3>3, <3>11 DEF StillPending, VaultIInv, Agree
      <4>2. next.pc = "erase" /\ ~Linked(p)'
        BY <3>7, <3>8, <3>9, <4>1 DEF Linked
      <4> QED
        BY <3>10, <4>2 DEF VaultPlace, ErasePlace
    <3>12. StillPending(next)'
      BY <1>4, <3>3, <3>8, <3>10 DEF StillPending
    <3> QED
      BY <1>3, <3>8, <3>10, <3>11, <3>12
  <2> QED
    BY <1>5, <2>1, <2>2, <2>3 DEF CompletionStep
<1>6. CASE BackgroundStep
  <2>1. ASSUME NEW r \in Refreshers, TokenRefreshed(r) PROVE VaultIInv'
    <3>1. r \in Processes
      BY DEF Processes
    <3> QED
      BY <1>3, <2>1, <3>1 DEF TokenRefreshed, vaultVars
  <2>2. ASSUME NEW r \in Refreshers, NEW p \in ProfileIds, NEW s \in Secrets, RefreshToken(r, p, s)
        PROVE  VaultIInv'
    <3>1. r \in Processes
      BY DEF Processes
    <3>2. PICK op : op = Op("replace", p, s, "read")
      OBVIOUS
    <3>3. op.kind = "replace" /\ op.pc = "read" /\ op.next = 1 /\ op.profile = p
      BY <3>2, FreshOp
    <3>4. ops' = [ops EXCEPT ![r] = op] /\ UNCHANGED <<document, manifest, chunks>> /\ Linked(p)
      BY <2>2, <3>2 DEF RefreshToken, vaultVars
    <3>5. VaultPlace(op)' /\ StillPending(op)'
      BY <3>3, <3>4 DEF VaultPlace, WritePlace, Linked, StillPending
    <3> QED
      BY <1>3, <3>1, <3>4, <3>5
  <2>3. CASE \/ \E f \in refreshes, result \in {"live", "cached", "unauthorized", "failed"} :
                  CatalogAnswered(f, result)
             \/ \E t \in tests, ready \in BOOLEAN : TestAnswered(t, ready)
    BY <2>3, VaultKept DEF CatalogAnswered, TestAnswered, vaultVars
  <2> QED
    BY <1>6, <2>1, <2>2, <2>3 DEF BackgroundStep
<1>7. CASE RefreshCatalog \/ \E p \in ProfileIds : TestProfile(p)
  BY <1>7, VaultKept DEF RefreshCatalog, TestProfile, vaultVars
<1>8. CASE Crash
  <2>1. PICK fresh : fresh = Op("recover", NoProfile, "none", "recover") /\ fresh \in OpRecords
    BY FreshOpType DEF Names
  <2>2. PICK next : next = [fresh EXCEPT !.todo = PendingRecovery]
    OBVIOUS
  <2>3. /\ ops'[Coordinator] = next /\ \A v \in Processes \ {Coordinator} : ops'[v] = NoOp
        /\ UNCHANGED <<document, manifest, chunks>>
    BY <1>8, <2>1, <2>2 DEF Crash, Launch, vaultVars
  <2>4. next.kind = "recover" /\ next.pc = "recover" /\ next.todo = PendingRecovery /\ next.profile = NoProfile
    BY <2>1, <2>2, FreshOp DEF OpRecords
  <2>5. Contended' = {}
    BY <2>3 DEF Contended, AtWork, NoOp
  <2>6. \A p \in ProfileIds \ overlapped' : Agree(p)'
    <3> SUFFICES ASSUME NEW p \in ProfileIds \ overlapped' PROVE Agree(p)'
      OBVIOUS
    <3>1. Agree(p) /\ SameEntry(p)
      BY <1>4, <2>3 DEF VaultIInv, SameEntry
    <3> QED
      BY <3>1, AgreeKept
  <2>7. VaultPlace(ops[Coordinator])' /\ StillPending(ops[Coordinator])'
    <3>1. NoProfile \notin PendingRecovery /\ \A q \in PendingRecovery : document'.recovery[q] # "none"
      BY <2>3, ProfileNamesAssumption DEF PendingRecovery
    <3> QED
      BY <2>3, <2>4, <3>1 DEF VaultPlace, ErasePlace, StillPending
  <2>8. \A v \in Processes : ~Idle(v)' => v = Coordinator
    BY <2>3 DEF Idle
  <2> QED
    BY <1>0, <2>3, <2>5, <2>6, <2>7, <2>8 DEF VaultIInv
<1>9. ASSUME NEW w \in Processes, WorkflowStep(w) PROVE VaultIInv'
  BY <1>0, <1>9, VaultWorkflow
<1> QED
  BY <1>2, <1>5, <1>6, <1>7, <1>8, <1>9 DEF Step

\* The vault is empty and nobody links it at the first start.
LEMMA InitVault == Init => VaultIInv
<1> SUFFICES ASSUME Init, TypeOK PROVE VaultIInv
  BY InitType
<1> USE CoordinatorAlone
<1>1. PICK fresh : fresh = Op("recover", NoProfile, "none", "recover")
  OBVIOUS
<1>2. fresh.kind = "recover" /\ fresh.pc = "recover" /\ fresh.todo = {}
  BY <1>1, FreshOp
<1>3. ops = [w \in Processes |-> IF w = Coordinator THEN fresh ELSE NoOp]
  BY <1>1 DEF Init
<1>4. /\ \A p \in ProfileIds : ~Linked(p) /\ manifest[p] = NoManifest
      /\ chunks = [p \in ProfileIds |-> [g \in Generations |-> [i \in 1..MaxCount |-> NoChunk]]]
  BY DEF Init, VaultInit, Linked, Absent
<1>5. chunks \in Vaults
  BY <1>4 DEF Vaults, ChunkValues
<1>6. Contended = {}
  BY <1>3 DEF Contended, AtWork, NoOp
<1>7. \A p \in ProfileIds : Agree(p)
  BY <1>4 DEF Agree
<1>8. \A w \in Processes : ops[w] # NoOp => VaultPlace(ops[w]) /\ StillPending(ops[w])
  BY <1>2, <1>3 DEF VaultPlace, ErasePlace, StillPending
<1> QED
  BY <1>5, <1>6, <1>7, <1>8 DEF VaultIInv, Idle

\* An entry that is stored loads as the credential it was written for.
LEMMA StoredLoads ==
  ASSUME NEW p \in ProfileIds, Stored(p)
  PROVE  Load(p) \in {Whole(s) : s \in Secrets}
<1>1. PICK s \in Secrets : /\ manifest[p].generation \in Generations /\ manifest[p].count = ChunkCount[s]
                           /\ Holds(p, manifest[p].generation, s, ChunkCount[s])
  BY DEF Stored
<1>2. manifest[p] # NoManifest
  BY <1>1 DEF NoManifest, Generations
<1>3. \A i \in 1..manifest[p].count : chunks[p][manifest[p].generation][i] = <<s, i>> /\ <<s, i>> # NoChunk
  BY <1>1 DEF Holds, NoChunk
<1>4. Load(p) = [i \in 1..manifest[p].count |-> chunks[p][manifest[p].generation][i]]
  BY <1>2, <1>3 DEF Load
<1>5. Load(p) = Whole(s)
  BY <1>1, <1>3, <1>4 DEF Whole
<1> QED
  BY <1>5

\* At each place of each workflow keyring and document say the same of every
\* credential, through any number of failing calls, crashes and refreshes beside
\* the commands, unless another workflow was at work on the same entry.
THEOREM VaultInvariant == Spec => []VaultIInv
<1>1. Init => VaultIInv
  BY InitVault
<1>2. VaultIInv /\ [Next]_vars => VaultIInv'
  BY VaultStep
<1> QED
  BY <1>1, <1>2, PTL DEF Spec

\* A linked credential loads whole, and one that neither a link nor a recovery
\* record names cannot be loaded, whichever document write or keyring call of a
\* save, replacement, refresh, sign-in, disconnect, deletion or recovery fails or
\* is the last one before a crash, and whatever goes on at other entries.
THEOREM CredentialsSafe == Spec => []CredentialsFollowLinks
<1>1. VaultIInv => CredentialsFollowLinks
  BY StoredLoads DEF VaultIInv, Agree, CredentialsFollowLinks, LinkedCredentialIsWhole, NothingLoadableUnlinked
<1> QED
  BY <1>1, VaultInvariant, PTL
=============================================================================
