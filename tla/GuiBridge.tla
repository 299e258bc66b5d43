------------------------------ MODULE GuiBridge ------------------------------
(***************************************************************************)
(* The native GUI bridge (crates/autoharness-app/src/gui.rs): one actor    *)
(* between the coordinator's ports and the webview. It turns commands into *)
(* intents, and watch projections and notices into a stream of frames with *)
(* one frame in flight at a time.                                          *)
(*                                                                         *)
(* What a projection says is abstracted to version counters. "session"     *)
(* stands for the active session's content, "catalog" for every port whose *)
(* change needs a complete snapshot, and "profiles" for the count of       *)
(* pending vault recoveries, which is published with the profiles.         *)
(***************************************************************************)
EXTENDS Naturals, FiniteSets, SequencesExt

CONSTANTS
    MaxPending,     \* MAX_PENDING_REQUESTS
    MaxIntents,     \* INTENT_CAPACITY
    MaxUiNotices,   \* APP_NOTICE_CAPACITY
    Unrepresentable \* catalog versions that map_snapshot refuses

ASSUME CapacityAssumption ==
    MaxPending \in Nat \ {0} /\ MaxIntents \in Nat \ {0} /\ MaxUiNotices \in Nat \ {0}

MaxNotices == MaxPending * 2 + 2

Watches == {"session", "catalog", "profiles"}

VARIABLES
    bridge,    \* BridgeActor, with the frames its channel has not delivered
    published, \* what the coordinator last sent on the watch ports
    intents,   \* UiPorts.intents
    uiNotices, \* UiPorts.notices
    requests,  \* HostRequest mailbox, at most HOST_REQUEST_CAPACITY
    acks,      \* FrameAcknowledgement mailbox
    replies,   \* oneshot replies the loaded page has not received
    epoch      \* the page that is loaded; an older page receives nothing

bridgeVars == <<bridge, published, intents, uiNotices, requests, acks, replies, epoch>>

NoFrame == [rev |-> 0]
NoSnapshot == [active |-> 0]

BridgeInit ==
    /\ bridge =
         [ channel    |-> 0,     \* page whose Channel is held, 0 for none
           last       |-> NoSnapshot,
           nextId     |-> 1,
           nextRev    |-> 1,
           pending    |-> {},
           notices    |-> <<>>,
           inFlight   |-> NoFrame,
           resync     |-> 0,     \* request of pending_resynchronization
           unseen     |-> {},    \* watches with has_changed()
           generation |-> 1,
           dirty      |-> TRUE,
           token      |-> FALSE, \* shutdown.is_cancelled()
           started    |-> FALSE, \* shutdown_started_at.is_some()
           readyAcked |-> FALSE,
           exited     |-> FALSE,
           failed     |-> FALSE, \* whether the last fallible call failed
           overflow   |-> FALSE, \* whether queue_notice ever refused one
           wire       |-> <<>> ]
    /\ published = [active |-> 1, session |-> 1, catalog |-> 1, recovery |-> 0]
    /\ intents = <<>>
    /\ uiNotices = <<>>
    /\ acks = <<>>
    /\ replies = {}
    /\ epoch = 1

-----------------------------------------------------------------------------
(* Frames. A delta holds the two snapshots it was computed from; what of   *)
(* them it carries is for its receiver to say (GuiClient).                 *)

Representable == published.catalog \notin Unrepresentable

Snapshot(b) ==
    [ active |-> published.active, session |-> published.session,
      catalog |-> published.catalog, generation |-> b.generation,
      recovery |-> published.recovery, shutting |-> b.token ]

\* Mutant: the catalog is not compared.
DeltaBetweenAnyCatalog(previous, next) ==
    /\ previous # NoSnapshot
    /\ previous.active = next.active
    /\ previous.shutting = next.shutting

\* ActiveSessionDelta::between(previous, next).is_some()
DeltaBetween(previous, next) ==
    /\ previous # NoSnapshot
    /\ previous.active = next.active
    /\ previous.catalog = next.catalog
    /\ previous.generation = next.generation
    /\ previous.shutting = next.shutting

\* take_revision, then send: a refused frame has used up its revision
Send(b, frame, ok) ==
    LET numbered == [frame EXCEPT !.rev = b.nextRev] IN
    IF ok
    THEN [b EXCEPT !.nextRev = @ + 1, !.inFlight = numbered, !.failed = FALSE,
                   !.wire = IF b.channel = epoch THEN Append(@, numbered) ELSE @]
    ELSE [b EXCEPT !.nextRev = @ + 1, !.channel = 0, !.failed = TRUE]

SnapshotFrame(b, reason) ==
    [rev |-> 0, kind |-> "snapshot", reason |-> reason, snapshot |-> Snapshot(b)]

ProjectionFrame(b) ==
    IF DeltaBetween(b.last, Snapshot(b))
    THEN [rev |-> 0, kind |-> "delta", base |-> b.last, snapshot |-> Snapshot(b)]
    ELSE SnapshotFrame(b, "projection")

NoticeFrame(notice) == [rev |-> 0, kind |-> "notice", notice |-> notice]

Published(b, sent) ==
    IF sent.failed THEN sent
    ELSE [sent EXCEPT !.last = Snapshot(b), !.dirty = FALSE]

\* publish_projection: called with a channel and nothing in flight
PublishProjection(b, ok) ==
    IF ~Representable THEN b
    ELSE IF b.last = Snapshot(b) THEN [b EXCEPT !.dirty = FALSE]
    ELSE [Published(b, Send(b, ProjectionFrame(b), ok)) EXCEPT !.failed = FALSE]

-----------------------------------------------------------------------------
(* Notices. *)

Authentication == {"BrowserOpened", "Completed"}

Notice(kind, id) == [kind |-> kind, id |-> id]

\* Mutant: a rejection does not settle its request.
TerminalCommitted(notice) ==
    IF notice.kind \in {"Committed", "Completed"} THEN notice.id ELSE 0

\* A notice that settles its request: the terminal_request_id of handle_notice
Terminal(notice) ==
    IF notice.kind \in {"Committed", "Rejected", "Completed"} THEN notice.id ELSE 0

\* Mutant: shutdown notices do not wait for the projection.
QueuedEager(b, notice) ==
    [ kind |-> notice.kind, id |-> notice.id, terminal |-> Terminal(notice),
      wait |-> b.dirty /\ Terminal(notice) # 0 ]

Queued(b, notice) ==
    [ kind |-> notice.kind, id |-> notice.id, terminal |-> Terminal(notice),
      wait |-> b.dirty /\ (Terminal(notice) # 0
                           \/ notice.kind \in {"ShutdownRequested", "ShutdownReady"}) ]

\* An authentication notice takes the place of one that still waits, with
\* that one's terminal_request_id and wait_for_projection.
QueueNotice(b, notice) ==
    LET same == {i \in DOMAIN b.notices :
                    /\ notice.kind \in Authentication
                    /\ b.notices[i].kind \in Authentication
                    /\ b.notices[i].id = notice.id}
    IN  IF same # {}
        THEN [b EXCEPT !.notices[CHOOSE i \in same : \A j \in same : i <= j].kind = notice.kind,
                       !.failed = FALSE]
        ELSE IF Len(b.notices) >= MaxNotices THEN [b EXCEPT !.failed = TRUE, !.overflow = TRUE]
        ELSE [b EXCEPT !.notices = Append(@, Queued(b, notice)), !.failed = FALSE]

TerminalNoticeOutstanding(b, id) ==
    \/ \E i \in DOMAIN b.notices : b.notices[i].terminal = id
    \/ b.inFlight # NoFrame /\ b.inFlight.kind = "notice" /\ b.inFlight.notice.terminal = id

\* the front notice no longer waits
Ready(b) == [b EXCEPT !.notices[1].wait = FALSE]

SendFront(b, ok) ==
    LET sent == Send(b, NoticeFrame(Head(b.notices)), ok) IN
    IF sent.failed THEN sent ELSE [sent EXCEPT !.notices = Tail(@)]

SendResynchronization(b, ok) ==
    IF ~Representable THEN [b EXCEPT !.failed = TRUE]
    ELSE LET sent == Send(b, SnapshotFrame(b, "resynchronization"), ok) IN
         IF sent.failed THEN sent
         ELSE QueueNotice([Published(b, sent) EXCEPT !.resync = 0],
                          Notice("Committed", b.resync))

\* A front notice that waits goes out after the projection, which is left
\* out when the client already has it.
SendAfterProjection(b, ok) ==
    LET shown == IF b.dirty THEN PublishProjection(b, ok) ELSE b IN
    IF shown.dirty THEN shown
    ELSE IF shown.inFlight # NoFrame THEN Ready(shown)
    ELSE SendFront(Ready(shown), ok)

Pump(b, ok) ==
    LET fresh == [b EXCEPT !.failed = FALSE] IN
    IF b.inFlight # NoFrame \/ b.channel = 0 THEN fresh
    ELSE IF b.resync # 0 THEN SendResynchronization(fresh, ok)
    ELSE IF b.notices # <<>>
         THEN IF Head(b.notices).wait THEN SendAfterProjection(fresh, ok)
              ELSE SendFront(fresh, ok)
    ELSE IF b.dirty THEN PublishProjection(fresh, ok)
    ELSE fresh

\* One watch port's change: it is seen, and the catalog's is counted.
Observe(b, seen) ==
    IF seen = {} THEN b
    ELSE [b EXCEPT !.unseen = @ \ seen, !.dirty = TRUE,
                   !.generation = IF "catalog" \in seen THEN @ + 1 ELSE @]

ObservePendingProjections(b) == Observe(b, b.unseen)

\* A repeated terminal notice, and any notice of a settled request, is ignored.
HandleNotice(b, notice, ok) ==
    IF \/ notice.id \notin b.pending
       \/ Terminal(notice) # 0 /\ TerminalNoticeOutstanding(b, notice.id)
    THEN [b EXCEPT !.failed = FALSE]
    ELSE LET queued == QueueNotice(ObservePendingProjections(b), notice) IN
         IF queued.failed THEN queued
         ELSE [Pump(queued, ok) EXCEPT !.failed = FALSE]

\* A notice the queue refuses ends the drain; NoticesFit says there is none,
\* so what would stay in the port is not kept.
DrainAvailableNotices(b, ok) ==
    LET drained[n \in 0 .. Len(uiNotices)] ==
            IF n = 0 THEN b
            ELSE IF drained[n - 1].failed THEN drained[n - 1]
            ELSE HandleNotice(drained[n - 1], uiNotices[n], ok)
    IN  drained[Len(uiNotices)]

BeginShutdown(b, id, ok) ==
    LET begun == [b EXCEPT !.token = TRUE, !.started = TRUE, !.dirty = TRUE, !.resync = 0]
        admitted == IF id = 0 THEN begun
                    ELSE QueueNotice([begun EXCEPT !.pending = @ \cup {id}],
                                     Notice("Committed", id))
        requested == QueueNotice(admitted, Notice("ShutdownRequested", 0))
        queued == QueueNotice(requested, Notice("ShutdownReady", 0))
    IN  IF admitted.failed \/ requested.failed \/ queued.failed
        THEN [queued EXCEPT !.failed = TRUE]
        ELSE Pump(queued, ok)

-----------------------------------------------------------------------------
(* The actor loop: a biased select, so a branch runs only when none above  *)
(* it is ready. Every step may find its one frame refused by the carrier.  *)

Running == ~bridge.exited
CloseAsked == bridge.token /\ ~bridge.started
Reading == Running /\ acks = <<>> /\ ~CloseAsked
Listening == Reading /\ requests = <<>> /\ ~bridge.started

\* Nobody waits for the receipt of a connection, a cancellation or a close.
Answer(call, page, result, id) ==
    replies' = IF /\ page = epoch
                  /\ call \in {"connect", "cancel", "close"} => result = "fatal"
               THEN replies \cup {[call |-> call, result |-> result, id |-> id]}
               ELSE replies

\* shutdown_ready_acknowledged ends the loop at its next turn
AcknowledgeFrame(ok) ==
    /\ Running
    /\ acks # <<>>
    /\ LET frame == bridge.inFlight
           notice == IF frame # NoFrame /\ frame.kind = "notice"
                     THEN frame.notice ELSE [kind |-> "none", terminal |-> 0]
           settled == [bridge EXCEPT
                         !.inFlight = NoFrame,
                         !.pending = @ \ {notice.terminal},
                         !.readyAcked = @ \/ notice.kind = "ShutdownReady"]
           pumped == Pump(settled, ok)
       IN  IF frame.rev # Head(acks).rev
           THEN /\ Answer("ack", Head(acks).page, "fatal", 0)
                /\ UNCHANGED bridge
           ELSE /\ bridge' = [pumped EXCEPT !.exited = pumped.readyAcked, !.failed = FALSE]
                /\ IF pumped.failed THEN Answer("ack", Head(acks).page, "fatal", 0)
                   ELSE UNCHANGED replies
    /\ acks' = Tail(acks)
    /\ UNCHANGED <<published, intents, uiNotices, requests, epoch>>

\* A close request: begin_shutdown's error stops the worker.
ShutdownCancelled(ok) ==
    /\ Running /\ acks = <<>> /\ CloseAsked
    /\ LET drained == DrainAvailableNotices(bridge, ok)
           begun == BeginShutdown(drained, 0, ok)
       IN  bridge' = IF drained.failed THEN [drained EXCEPT !.exited = TRUE]
                     ELSE [begun EXCEPT !.exited = begun.failed, !.failed = FALSE]
    /\ uiNotices' = <<>>
    /\ UNCHANGED <<published, intents, requests, acks, replies, epoch>>

\* The next request, answered once it was handled.
TakeRequest ==
    /\ Reading
    /\ requests # <<>>
    /\ requests' = Tail(requests)
    /\ UNCHANGED <<published, acks, epoch>>

Reply(request, result, id) == Answer(request.call, request.page, result, id)

\* A frame in flight belongs to a page that may still acknowledge it.
Connect(ok) ==
    /\ TakeRequest
    /\ Head(requests).kind = "connect"
    /\ LET request == Head(requests)
           held == [bridge EXCEPT !.channel = request.page]
           sent == Published(held, Send(held, SnapshotFrame(held, "initial"), ok))
       IN  IF bridge.inFlight # NoFrame
           THEN /\ Reply(request, "fatal", 0)
                /\ UNCHANGED bridge
           ELSE IF Representable /\ ok
           THEN /\ bridge' = sent
                /\ Reply(request, "ok", 0)
           ELSE /\ bridge' = [(IF Representable THEN sent ELSE held) EXCEPT
                                !.channel = 0, !.failed = FALSE]
                /\ Reply(request, "fatal", 0)
    /\ UNCHANGED <<intents, uiNotices>>

RefuseDispatch ==
    /\ TakeRequest
    /\ Head(requests).kind # "connect"
    /\ bridge.channel = 0 \/ bridge.started
    /\ Reply(Head(requests), IF bridge.channel = 0 THEN "fatal" ELSE "invalid", 0)
    /\ UNCHANGED <<bridge, intents, uiNotices>>

Dispatch(kinds) ==
    /\ TakeRequest
    /\ Head(requests).kind \in kinds
    /\ bridge.channel # 0
    /\ ~bridge.started

\* issue_request_id: a refused command has used up its identifier
Issued == [bridge EXCEPT !.nextId = @ + 1]

\* What map_command and the credential checks refuse before admission.
Refusal(request) ==
    CASE request.kind = "prompt" /\ request.target # published.active -> "invalid"
      [] request.kind = "credential" /\ ~Representable -> "fatal"
      [] OTHER -> "none"

\* A secret's snapshot is taken before an identifier is issued.
AdmitIntent ==
    /\ Dispatch({"command", "prompt", "credential", "login"})
    /\ LET request == Head(requests)
           id == bridge.nextId
           refusal == Refusal(request)
       IN  IF refusal # "none"
           THEN /\ Reply(request, refusal, 0)
                /\ bridge' = IF refusal = "fatal" THEN bridge ELSE Issued
                /\ UNCHANGED intents
           ELSE IF Cardinality(bridge.pending) >= MaxPending \/ Len(intents) >= MaxIntents
           THEN /\ Reply(request, "busy", 0)
                /\ bridge' = Issued
                /\ UNCHANGED intents
           ELSE /\ Reply(request, "ok", id)
                /\ bridge' = [Issued EXCEPT !.pending = @ \cup {id}]
                /\ intents' = Append(intents, [kind |-> request.kind, id |-> id,
                                               target |-> request.target])
    /\ UNCHANGED uiNotices

CancelAuthentication ==
    /\ Dispatch({"cancel"})
    /\ bridge' = Issued
    /\ LET request == Head(requests) IN
       IF request.target \notin bridge.pending
       THEN Reply(request, "invalid", 0) /\ UNCHANGED intents
       ELSE IF Len(intents) >= MaxIntents
       THEN Reply(request, "busy", 0) /\ UNCHANGED intents
       ELSE /\ Reply(request, "ok", request.target)
            /\ intents' = Append(intents, [kind |-> "cancel", id |-> request.target,
                                           target |-> request.target])
    /\ UNCHANGED uiNotices

Resynchronize(ok) ==
    /\ Dispatch({"resync"})
    /\ LET request == Head(requests)
           id == bridge.nextId
           pumped == Pump([Issued EXCEPT !.pending = @ \cup {id}, !.resync = id], ok)
       IN  IF bridge.resync # 0 \/ Cardinality(bridge.pending) >= MaxPending
           THEN bridge' = Issued /\ Reply(request, "busy", 0)
           ELSE IF pumped.failed
           THEN /\ bridge' = [pumped EXCEPT !.resync = 0, !.pending = @ \ {id},
                                            !.failed = FALSE]
                /\ Reply(request, "fatal", 0)
           ELSE bridge' = pumped /\ Reply(request, "ok", id)
    /\ UNCHANGED <<intents, uiNotices>>

RequestShutdown(ok) ==
    /\ Dispatch({"shutdown"})
    /\ LET request == Head(requests)
           id == bridge.nextId
           drained == DrainAvailableNotices(Issued, ok)
           begun == BeginShutdown(drained, id, ok)
       IN  IF Cardinality(bridge.pending) >= MaxPending
           THEN /\ bridge' = Issued
                /\ Reply(request, "busy", 0)
                /\ UNCHANGED uiNotices
           ELSE /\ bridge' = [(IF drained.failed THEN drained ELSE begun)
                               EXCEPT !.failed = FALSE]
                /\ IF drained.failed \/ begun.failed THEN Reply(request, "fatal", 0)
                   ELSE Reply(request, "ok", id)
                /\ uiNotices' = <<>>
    /\ UNCHANGED intents

ReceiveNotice(ok) ==
    /\ Listening
    /\ uiNotices # <<>>
    /\ LET handled == HandleNotice(bridge, Head(uiNotices), ok) IN
       bridge' = [handled EXCEPT !.exited = handled.failed]
    /\ uiNotices' = Tail(uiNotices)
    /\ UNCHANGED <<published, intents, requests, acks, replies, epoch>>

WatchChanged(watch) ==
    /\ Listening
    /\ uiNotices = <<>>
    /\ watch \in bridge.unseen
    /\ bridge' = Observe(bridge, {watch})
    /\ UNCHANGED <<published, intents, uiNotices, requests, acks, replies, epoch>>

\* The frame cadence: nothing else was ready.
Tick(ok) ==
    /\ Reading
    /\ requests = <<>>
    /\ bridge.started \/ (uiNotices = <<>> /\ bridge.unseen = {})
    /\ bridge' = [Pump(bridge, ok) EXCEPT !.failed = FALSE]
    /\ UNCHANGED <<published, intents, uiNotices, requests, acks, replies, epoch>>

\* SHUTDOWN_ACK_TIMEOUT passed when a tick came
ShutdownTimeout(ok) ==
    /\ Reading
    /\ requests = <<>>
    /\ bridge.started
    /\ bridge' = [Pump(bridge, ok) EXCEPT !.exited = TRUE, !.failed = FALSE]
    /\ UNCHANGED <<published, intents, uiNotices, requests, acks, replies, epoch>>

\* The window's close button, an exit request or another part's shutdown.
RequestClose ==
    /\ Running
    /\ ~bridge.token
    /\ bridge' = [bridge EXCEPT !.token = TRUE]
    /\ UNCHANGED <<published, intents, uiNotices, requests, acks, replies, epoch>>

=============================================================================
