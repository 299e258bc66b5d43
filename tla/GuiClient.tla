------------------------------ MODULE GuiClient ------------------------------
(***************************************************************************)
(* The desktop client (apps/gui/src/store/clientStore.ts over              *)
(* transport/tauriTransport.ts) on the native bridge, with the coordinator *)
(* as the bridge sees it: a consumer of intents that answers each once,    *)
(* and publishes when it likes.                                            *)
(***************************************************************************)
EXTENDS GuiBridge

CONSTANTS
    Calls,          \* commands the user gives, each once per behaviour
    Kinds,          \* the kinds of command each call may be
    MaxSettlements, \* settlements kept for receipts to come (64 in the code)
    Publishing,     \* bound: the watches that are published on
    MaxPublished,   \* bound: watch publications
    MaxDisturbances \* bound: timeouts, reloads, refused frames, cancellations,
                    \* retries and requests to close

ASSUME KindsAssumption ==
    Kinds \in [Calls -> SUBSET {"command", "prompt", "credential", "login"}]

ASSUME SettlementsAssumption == MaxSettlements \in Nat \ {0}

ASSUME PublishingAssumption == Publishing \subseteq Watches

\* A call is told from the other requests of the transport.
ASSUME CallsAssumption == Calls \cap {"connect", "resync", "cancel", "close", "ack"} = {}

VARIABLES
    client,      \* ClientStoreSnapshot and the pending resynchronization
    calls,       \* dispatchAndWait per call (dispatch for a sign-in)
    settlements, \* commandSettlements, oldest first
    disturbed,   \* disturbances so far
    login,       \* the coordinator's codex_login, whether its browser opened,
                 \* and (history) the requests that ever held it
    answers      \* history: what the coordinator said of a request, and when

clientVars == <<client, calls, settlements, disturbed>>
coordinatorVars == <<login, answers>>
vars == <<bridgeVars, clientVars, coordinatorVars>>

Disturb == disturbed < MaxDisturbances /\ disturbed' = disturbed + 1

\* requestResync's promise: its receipt, and the baseline frame
NoResync == [on |-> FALSE, replied |-> FALSE, frame |-> NoFrame]

NewClient == [life |-> "booting", snap |-> NoSnapshot, rev |-> 0, resync |-> NoResync]

NewCall == [kind |-> "none", status |-> "idle", id |-> 0]

Request(kind, call, target) ==
    [kind |-> kind, call |-> call, page |-> epoch, target |-> target]

Init ==
    /\ BridgeInit
    /\ requests = <<Request("connect", "connect", 0)>>
    /\ disturbed = 0
    /\ client = NewClient
    /\ calls = [c \in Calls |-> NewCall]
    /\ settlements = <<>>
    /\ login = [id |-> 0, opened |-> FALSE, ids |-> {}]
    /\ answers = {}

-----------------------------------------------------------------------------
(* Requests. try_send refuses a full mailbox at once.                      *)

MailboxFull == Len(requests) >= MaxPending

Enqueue(kind, call, target) == requests' = Append(requests, Request(kind, call, target))

\* The store after fail(): every waiter is told "unknown".
Failed(c) == [c EXCEPT !.life = "failed", !.resync = NoResync]
Abandoned == [c \in Calls |-> IF calls[c].status = "waiting"
                              THEN [calls[c] EXCEPT !.status = "unknown"] ELSE calls[c]]
Fail ==
    /\ client' = Failed(client)
    /\ calls' = Abandoned
    /\ settlements' = <<>>

\* requestResync from store state c: one at a time. A full mailbox fails
\* the store, and with it whoever still waits.
RequestResync(c) ==
    IF c.resync.on
    THEN client' = c /\ UNCHANGED requests
    ELSE IF MailboxFull
    THEN client' = Failed(c) /\ UNCHANGED requests
    ELSE /\ Enqueue("resync", "resync", 0)
         /\ client' = [c EXCEPT !.life = "resyncing",
                                !.resync = [NoResync EXCEPT !.on = TRUE]]

ResyncFails == ~client.resync.on /\ MailboxFull

DispatchCall(c, kind) ==
    /\ client.life = "ready"
    /\ calls[c].status = "idle"
    /\ \/ /\ MailboxFull
          /\ calls' = [calls EXCEPT ![c] = [NewCall EXCEPT !.kind = kind, !.status = "rejected"]]
          /\ UNCHANGED requests
       \/ /\ ~MailboxFull
          /\ Enqueue(kind, c, client.snap.active)
          /\ calls' = [calls EXCEPT ![c] = [NewCall EXCEPT !.kind = kind, !.status = "sent"]]
    /\ UNCHANGED <<client, settlements, disturbed, bridge, published, intents, uiNotices, acks,
                   replies, epoch, coordinatorVars>>

CancelLogin(c) ==
    /\ client.life = "ready"
    /\ calls[c].status = "started"
    /\ ~MailboxFull
    /\ Disturb
    /\ Enqueue("cancel", "cancel", calls[c].id)
    /\ UNCHANGED <<client, calls, settlements, bridge, published, intents, uiNotices, acks,
                   replies, epoch, coordinatorVars>>

\* The user's "Try again" after a failure.
TryAgain ==
    /\ client.life = "failed"
    /\ Disturb
    /\ RequestResync(client)
    /\ UNCHANGED <<calls, settlements, bridge, published, intents, uiNotices, acks, replies,
                   epoch, coordinatorVars>>

Close ==
    /\ client.life # "closed"
    /\ ~MailboxFull
    /\ Disturb
    /\ Enqueue("shutdown", "close", 0)
    /\ client' = [client EXCEPT !.life = "closed", !.resync = NoResync]
    /\ calls' = Abandoned
    /\ settlements' = <<>>
    /\ UNCHANGED <<bridge, published, intents, uiNotices, acks, replies, epoch, coordinatorVars>>

-----------------------------------------------------------------------------
(* Replies. Promises resolve in any order.                                 *)

Settled(known, id) == {i \in DOMAIN known : known[i].id = id}
SettlementOf(known, id) == CHOOSE i \in Settled(known, id) : TRUE

ReceiptStatus(c, id) ==
    IF client.life # "ready" THEN "unknown"
    ELSE IF calls[c].kind = "login" THEN "started"
    ELSE IF Settled(settlements, id) = {} THEN "waiting"
    ELSE settlements[SettlementOf(settlements, id)].outcome

ReceiveReceipt(c, reply) ==
    /\ reply.result = "ok"
    /\ calls' = [calls EXCEPT ![c].status = ReceiptStatus(c, reply.id), ![c].id = reply.id]
    /\ settlements' = IF ReceiptStatus(c, reply.id) \in {"committed", "rejected"}
                      THEN RemoveAt(settlements, SettlementOf(settlements, reply.id))
                      ELSE settlements
    /\ UNCHANGED client

ReceiveRefusal(c, reply) ==
    /\ reply.result \in {"busy", "invalid"}
    /\ calls' = [calls EXCEPT ![c].status =
                    IF client.life = "failed" THEN "unknown" ELSE "rejected"]
    /\ UNCHANGED <<client, settlements>>

\* A carrier error other than a refusal fails the store first.
ReceiveFatal(c, reply) ==
    /\ reply.result = "fatal"
    /\ client.life # "closed"
    /\ client' = Failed(client)
    /\ calls' = [Abandoned EXCEPT ![c].status = "unknown"]
    /\ settlements' = <<>>

Resynchronized(c) ==
    IF c.resync.replied /\ c.resync.frame # NoFrame
    THEN [c EXCEPT !.resync = NoResync,
                   !.life = IF c.rev > c.resync.frame.rev THEN @ ELSE "ready",
                   !.snap = IF c.rev > c.resync.frame.rev THEN @ ELSE c.resync.frame.snapshot,
                   !.rev = IF c.rev > c.resync.frame.rev THEN @ ELSE c.resync.frame.rev]
    ELSE c

ReceiveReply(reply) ==
    /\ reply \in replies
    /\ replies' = replies \ {reply}
    /\ IF client.life = "closed" THEN UNCHANGED clientVars
       ELSE /\ \/ /\ reply.call \in Calls
                  /\ \/ ReceiveReceipt(reply.call, reply)
                     \/ ReceiveRefusal(reply.call, reply)
                     \/ ReceiveFatal(reply.call, reply)
               \/ /\ reply.call = "resync" /\ reply.result = "ok" /\ client.resync.on
                  /\ client' = Resynchronized([client EXCEPT !.resync.replied = TRUE])
                  /\ UNCHANGED <<calls, settlements>>
               \/ /\ reply.call \notin Calls
                  /\ reply.result = "fatal" \/ (reply.call = "resync" /\ reply.result # "ok")
                  /\ Fail
               \/ /\ reply.call = "resync" /\ reply.result = "ok" /\ ~client.resync.on
                  /\ UNCHANGED <<client, calls, settlements>>
            /\ UNCHANGED disturbed
    /\ UNCHANGED <<bridge, published, intents, uiNotices, requests, acks, epoch,
                   coordinatorVars>>

\* commandSettlementTimeoutMs passed without a notice.
CommandTimeout(c) ==
    /\ calls[c].status = "waiting"
    /\ Disturb
    /\ RequestResync(client)
    /\ calls' = IF ResyncFails THEN Abandoned ELSE [calls EXCEPT ![c].status = "unknown"]
    /\ settlements' = IF ResyncFails THEN <<>> ELSE settlements
    /\ UNCHANGED <<bridge, published, intents, uiNotices, acks, replies, epoch,
                   coordinatorVars>>

\* Ten seconds passed without the baseline frame that connect or snapshot awaits.
BaselineTimeout ==
    /\ client.life = "booting" \/ (client.resync.on /\ client.resync.frame = NoFrame)
    /\ Disturb
    /\ Fail
    /\ UNCHANGED <<bridge, published, intents, uiNotices, requests, acks, replies, epoch,
                   coordinatorVars>>

-----------------------------------------------------------------------------
(* Frames. *)

Outcome(notice) ==
    CASE notice.kind \in {"Committed", "Completed"} -> "committed"
      [] notice.kind = "Rejected" -> "rejected"
      [] OTHER -> "none"

Waiting(id) == {c \in Calls : calls[c].status = "waiting" /\ calls[c].id = id}

\* settleCommandNotice: a notice may come before its receipt
Settle(notice) ==
    LET kept == IF Len(settlements) >= MaxSettlements THEN Tail(settlements) ELSE settlements
    IN  IF Outcome(notice) = "none" \/ notice.id = 0
        THEN UNCHANGED <<calls, settlements>>
        ELSE IF Waiting(notice.id) # {}
        THEN /\ calls' = [c \in Calls |-> IF c \in Waiting(notice.id)
                            THEN [calls[c] EXCEPT !.status = Outcome(notice)] ELSE calls[c]]
             /\ UNCHANGED settlements
        ELSE /\ settlements' =
                  IF Settled(kept, notice.id) # {}
                  THEN [kept EXCEPT ![SettlementOf(kept, notice.id)].outcome = Outcome(notice)]
                  ELSE Append(kept, [id |-> notice.id, outcome |-> Outcome(notice)])
             /\ UNCHANGED calls

IsBaseline(c, frame) ==
    /\ frame.kind = "snapshot"
    /\ frame.reason = "resynchronization" \/ (c.rev = 0 /\ frame.reason = "initial")

\* The splice of a delta makes sense on the transcript it was computed from;
\* 0 is a transcript the host never published.
ApplyDelta(snap, frame) ==
    [snap EXCEPT !.session = IF @ = frame.base.session THEN frame.snapshot.session ELSE 0]

\* baselineWaiters: the frame resolves the waiter after it was applied
Awaited(c, frame) ==
    IF /\ frame.kind = "snapshot" /\ frame.reason = "resynchronization"
       /\ c.resync.on /\ c.resync.frame = NoFrame
    THEN Resynchronized([c EXCEPT !.resync.frame = frame])
    ELSE c

\* applyFrame on a frame that is neither stale nor after a gap
ApplyNext(frame) ==
    CASE frame.kind = "snapshot" ->
           /\ client' = Awaited([client EXCEPT
                           !.life = IF @ = "resyncing" /\ frame.reason # "resynchronization"
                                    THEN @ ELSE "ready",
                           !.snap = frame.snapshot, !.rev = frame.rev], frame)
           /\ UNCHANGED <<calls, settlements, requests>>
      [] frame.kind = "delta" ->
           /\ IF client.snap.active = frame.snapshot.active
              THEN /\ client' = [client EXCEPT !.snap = ApplyDelta(@, frame), !.rev = frame.rev]
                   /\ UNCHANGED <<calls, settlements>>
              ELSE Fail
           /\ UNCHANGED requests
      [] frame.kind = "notice" ->
           /\ client' = [client EXCEPT !.rev = frame.rev]
           /\ Settle(frame.notice)
           /\ UNCHANGED requests

ApplyGap(frame) ==
    /\ RequestResync(client)
    /\ IF frame.kind = "notice" THEN Settle(frame.notice) ELSE UNCHANGED <<calls, settlements>>

\* Every frame is acknowledged, the ones a failed store ignores too.
ReceiveFrame ==
    /\ bridge.wire # <<>>
    /\ LET frame == Head(bridge.wire) IN
       /\ IF client.life \in {"failed", "closed"} \/ (client.rev # 0 /\ frame.rev <= client.rev)
          THEN /\ client' = Awaited(client, frame)
               /\ UNCHANGED <<calls, settlements, requests>>
          ELSE IF IsBaseline(client, frame) \/ (client.rev # 0 /\ frame.rev = client.rev + 1)
          THEN ApplyNext(frame)
          ELSE ApplyGap(frame)
       /\ acks' = Append(acks, [rev |-> frame.rev, page |-> epoch])
    /\ bridge' = [bridge EXCEPT !.wire = Tail(@)]
    /\ UNCHANGED <<published, intents, uiNotices, replies, epoch, disturbed, coordinatorVars>>

\* The page is loaded anew: frames and replies to the old one are lost.
Reload ==
    /\ ~MailboxFull
    /\ Disturb
    /\ epoch' = epoch + 1
    /\ requests' = Append(requests, [Request("connect", "connect", 0) EXCEPT !.page = epoch + 1])
    /\ bridge' = [bridge EXCEPT !.wire = <<>>]
    /\ replies' = {}
    /\ client' = NewClient
    /\ calls' = [c \in Calls |-> IF calls[c].status \in {"sent", "waiting", "started"}
                                  THEN [calls[c] EXCEPT !.status = "lost"] ELSE calls[c]]
    /\ settlements' = <<>>
    /\ UNCHANGED <<published, intents, uiNotices, acks, coordinatorVars>>

-----------------------------------------------------------------------------
(* The coordinator. It publishes before it answers, so an answer speaks of *)
(* what was published when it was sent.                                    *)

Versions == published.active + published.session + published.catalog + published.recovery

\* The bound leaves room to replace what could not be represented.
Publish(watch) ==
    /\ Versions < MaxPublished \/ (watch = "catalog" /\ ~Representable)
    /\ published' \in
         CASE watch = "session" -> {[published EXCEPT !.session = @ + 1],
                                    [published EXCEPT !.session = @ + 1, !.active = @ + 1]}
           [] watch = "catalog" -> {[published EXCEPT !.catalog = @ + 1]}
           [] watch = "profiles" -> {[published EXCEPT !.recovery = @ + 1]}
    /\ bridge' = [bridge EXCEPT !.unseen = @ \cup {watch}]
    /\ UNCHANGED <<intents, uiNotices, requests, acks, replies, epoch, clientVars,
                   coordinatorVars>>

Notify(kind, id) ==
    /\ Len(uiNotices) < MaxUiNotices
    /\ uiNotices' = Append(uiNotices, Notice(kind, id))
    /\ answers' = IF kind = "BrowserOpened" THEN answers
                  ELSE answers \cup {[id |-> id, outcome |-> Outcome(Notice(kind, id)),
                                      published |-> published]}

HandleIntent ==
    /\ intents # <<>>
    /\ intents' = Tail(intents)
    /\ LET intent == Head(intents) IN
       \/ /\ intent.kind \in {"command", "prompt", "credential"}
          /\ \E kind \in {"Committed", "Rejected"} : Notify(kind, intent.id)
          /\ UNCHANGED login
       \/ /\ intent.kind = "login" /\ login.id = 0
          /\ login' = [id |-> intent.id, opened |-> FALSE, ids |-> login.ids \cup {intent.id}]
          /\ UNCHANGED <<uiNotices, answers>>
       \/ /\ intent.kind = "login" /\ login.id # 0
          /\ Notify("Rejected", intent.id)
          /\ UNCHANGED login
       \/ /\ intent.kind = "cancel"
          /\ Notify("Committed", intent.id)
          /\ login' = IF login.id = intent.id THEN [login EXCEPT !.id = 0] ELSE login
    /\ UNCHANGED <<bridge, published, requests, acks, replies, epoch, clientVars>>

BrowserOpened ==
    /\ login.id # 0 /\ ~login.opened
    /\ login' = [login EXCEPT !.opened = TRUE]
    /\ Notify("BrowserOpened", login.id)
    /\ UNCHANGED <<bridge, published, intents, requests, acks, replies, epoch, clientVars>>

LoginFinished ==
    /\ login.id # 0
    /\ login' = [login EXCEPT !.id = 0]
    /\ \E kind \in {"Completed", "Rejected"} : Notify(kind, login.id)
    /\ UNCHANGED <<bridge, published, intents, requests, acks, replies, epoch, clientVars>>

-----------------------------------------------------------------------------
Sending(ok) ==
    \/ AcknowledgeFrame(ok) \/ ShutdownCancelled(ok) \/ Connect(ok)
    \/ Resynchronize(ok) \/ RequestShutdown(ok) \/ ReceiveNotice(ok) \/ Tick(ok)

BridgeStep ==
    /\ \/ Sending(TRUE)
       \/ RefuseDispatch \/ AdmitIntent \/ CancelAuthentication
       \/ \E watch \in Watches : WatchChanged(watch)
    /\ UNCHANGED <<clientVars, coordinatorVars>>

\* The carrier refuses the frame of a step.
RefusedFrame ==
    /\ Sending(FALSE)
    /\ bridge'.nextRev # bridge.nextRev
    /\ Disturb
    /\ UNCHANGED <<client, calls, settlements, coordinatorVars>>

\* The exit after a timeout ends the process, whatever its last pump sent.
HostStep ==
    \/ /\ RequestClose
       /\ Disturb
       /\ UNCHANGED <<client, calls, settlements, coordinatorVars>>
    \/ /\ ShutdownTimeout(TRUE)
       /\ UNCHANGED <<clientVars, coordinatorVars>>

UserStep ==
    \/ \E c \in Calls : \E kind \in Kinds[c] : DispatchCall(c, kind)
    \/ \E c \in Calls : CancelLogin(c)
    \/ TryAgain \/ Close \/ Reload

TimeoutStep == BaselineTimeout \/ \E c \in Calls : CommandTimeout(c)

ReplyStep == \E reply \in replies : ReceiveReply(reply)

CoordinatorStep == HandleIntent \/ BrowserOpened \/ LoginFinished

PublishStep == \E watch \in Publishing : Publish(watch)

\* An exited bridge takes the window, and so the page, with it.
Next ==
    \/ BridgeStep \/ RefusedFrame \/ HostStep
    \/ Running /\ UserStep
    \/ Running /\ TimeoutStep
    \/ Running /\ ReplyStep
    \/ Running /\ ReceiveFrame
    \/ Running /\ CoordinatorStep
    \/ Running /\ PublishStep

Spec == Init /\ [][Next]_vars

-----------------------------------------------------------------------------
(* Properties. *)

Attached == bridge.channel = epoch /\ client.life \in {"ready", "resyncing"}

Agrees(mine, theirs, fields) == \A f \in fields : mine[f] = theirs[f]

SnapshotFields == {"active", "session", "catalog", "generation", "shutting"}

\* A client that has applied every frame sent to it shows what the host
\* last sent: applyFrame's splices and publish_projection's last_snapshot
\* never drift apart, whatever was lost, refused, repeated or reloaded.
\* The recovery count is left out: delta.rs does not compare it.
ClientMirrorsHost ==
    Attached /\ client.rev # 0 /\ client.rev = bridge.nextRev - 1
        => Agrees(client.snap, bridge.last, SnapshotFields)

AnswersTo(c) == {a \in answers : a.id = calls[c].id}

\* What dispatchAndWait reports is what the coordinator answered, and the
\* client then shows at least what was published when it answered: no
\* notice overtakes the projection it speaks of (wait_for_projection).
OutcomesAreShown ==
    \A c \in Calls :
        calls[c].status \in {"committed", "rejected"} /\ calls[c].id # 0 =>
            \E a \in AnswersTo(c) :
                /\ a.outcome = calls[c].status
                /\ client.life = "ready" =>
                    \A f \in {"active", "session", "catalog"} : a.published[f] <= client.snap[f]

\* queue_notice never refuses: MAX_PENDING_NOTICES holds whatever piles up
\* behind a frame that awaits its acknowledgement.
NoticesFit == ~bridge.overflow

OnItsWay(id) ==
    \/ bridge.resync = id
    \/ \E i \in DOMAIN intents : intents[i].id = id
    \/ \E i \in DOMAIN uiNotices : uiNotices[i].id = id
    \/ TerminalNoticeOutstanding(bridge, id)

\* A slot of pending_requests is held only while its answer is on its way;
\* otherwise the slots would run out and every command be refused as busy.
\* A sign-in whose browser notice was replaced in the queue keeps its slot
\* until it is cancelled (queue_notice), so sign-ins are left out.
SlotsAwaitAnswers ==
    ~bridge.started => \A id \in bridge.pending : OnItsWay(id) \/ id \in login.ids

\* What the bridge has in hand stays bounded and moves on, behind whatever frame
\* awaits its acknowledgement (queue_notice, pending_requests).
PendingAnswersFit == NoticesFit /\ SlotsAwaitAnswers

\* The bridge leaves on the client's word only when the client has seen
\* the shutting-down projection and every notice.
GracefulExitIsComplete ==
    bridge.readyAcked =>
        /\ bridge.notices = <<>>
        /\ bridge.last.shutting
        /\ \A id \in bridge.pending : ~TerminalNoticeOutstanding(bridge, id)

\* Nothing is under way between the page and the host, and the next tick
\* would change nothing.
Quiet ==
    /\ acks = <<>> /\ requests = <<>> /\ replies = {} /\ bridge.wire = <<>>
    /\ uiNotices = <<>> /\ bridge.unseen = {} /\ ~CloseAsked
    /\ Pump(bridge, TRUE) = bridge

\* The bridge does not fall asleep on something the page has not seen: when
\* all is quiet the page that holds the channel shows what is published
\* (a projection that cannot be represented excepted) and no notice is
\* left in the queue.
NothingLeftUnshown ==
    Running /\ Attached /\ client.life = "ready" /\ Representable /\ Quiet =>
        /\ Agrees(client.snap, Snapshot(bridge), SnapshotFields)
        /\ bridge.notices = <<>>

\* What was answered or published is not lost on the way to the page, be it
\* closing, asleep or reconnecting (wait_for_projection, publish_projection).
NothingIsLost == OutcomesAreShown /\ GracefulExitIsComplete /\ NothingLeftUnshown

=============================================================================
